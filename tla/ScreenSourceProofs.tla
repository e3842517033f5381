------------------------- MODULE ScreenSourceProofs -------------------------
(***************************************************************************)
(* Proofs about the screen source, for any numbers of buffers, starts and  *)
(* failing ioctls: nobody reads a buffer the driver may write, none drops  *)
(* out of the cycle, and the callback gets only buffers that are mapped.   *)
(***************************************************************************)
EXTENDS ScreenSource, SequenceTheorems, FiniteSetTheorems, TLAPS

\* The elements of a sequence of buffers, and that it has none twice.
Elements(s) == {s[k] : k \in DOMAIN s}
NoneTwice(s) == \A i, j \in 1 .. Len(s) : s[i] = s[j] => i = j

Types ==
  /\ mState \in {"START", "PAUSE", "STOPPING", "STOP"}
  /\ user \in {"idle", "started", "join", "off"}
  /\ work \in {"none", "top", "dequeue", "got", "callback", "exited"}
  /\ mOpen \in BOOLEAN /\ callback \in BOOLEAN /\ streaming \in BOOLEAN
  /\ exitPending \in BOOLEAN /\ mixed \in BOOLEAN
  /\ mBufferCount \in 0 .. InitialCount /\ index \in Buffers
  /\ mBufs \subseteq Buffers /\ queued \subseteq Buffers
  /\ held \subseteq Buffers /\ lost \subseteq Buffers
  /\ filled \in Seq(Buffers) /\ refcount \in [Buffers -> {0, 1}]
  /\ starts \in 0 .. MaxStarts /\ faults \in 0 .. MaxFaults

\* What start and stop have done at each of their steps, and that nothing of
\* an earlier session is left when a source is started.
Phases ==
  /\ mState = "START" => mOpen /\ user = "idle"
  /\ user = "started" => ~mOpen /\ ~exitPending /\ (callback => work # "none")
  /\ user = "off" => work = "none"
  /\ ~mOpen => held = {} /\ work \in {"none", "top"}
  /\ ~mOpen /\ work = "top" => user = "started"

\* A buffer has one owner: the driver, the work thread or the user.  One that is
\* the driver's, or that the work thread has not delivered, is not counted.
Owners ==
  /\ held \cap (queued \cup Elements(filled)) = {} /\ queued \cap Elements(filled) = {}
  /\ work = "got" => index \notin held \cup queued \cup Elements(filled)
  /\ NoneTwice(filled)
  /\ \A b \in queued \cup Elements(filled) : refcount[b] = 0
  /\ work = "got" => refcount[index] = 0
  /\ mOpen \/ user = "started" => queued \cup Elements(filled) \cup held \subseteq mBufs
  /\ work \in Busy => index \in mBufs

\* No buffer is missing, from start_v4l2_device on.
Cycle ==
  /\ user = "started" => First(mBufferCount) \ lost \subseteq queued \cup Elements(filled)
  /\ mState = "START" /\ callback /\ ~mixed => work # "none"
  /\ mState = "START" /\ ~mixed =>
       \A b \in First(mBufferCount) \ lost :
         \/ b \in queued \cup Elements(filled)
         \/ work = "got" /\ index = b
         \/ b \in held /\ refcount[b] = 1

IInv == Types /\ Phases /\ Owners /\ Cycle
-----------------------------------------------------------------------------
(* Sequences of buffers.                                                    *)

\* What the numbers of buffers are.
LEMMA CountsPositive == InitialCount \in Nat \ {0} /\ Rgb32Count \in 1 .. InitialCount
                        /\ CatchCount \in 1 .. InitialCount /\ MaxStarts \in Nat /\ MaxFaults \in Nat
<1>1. /\ InitialCount \in Nat \ {0} /\ Rgb32Count \in Nat \ {0} /\ CatchCount \in Nat \ {0}
      /\ Rgb32Count <= InitialCount /\ CatchCount <= InitialCount
      /\ MaxStarts \in Nat /\ MaxFaults \in Nat
  BY Counts DEF Counts
<1>. QED
  BY <1>1

\* The elements of a sequence, by position.
LEMMA ElementsIs ==
  ASSUME NEW s \in Seq(Buffers)
  PROVE  /\ Elements(s) = {s[k] : k \in 1 .. Len(s)}
         /\ Elements(s) \subseteq Buffers /\ Len(s) \in Nat
BY DEF Elements

\* VIDIOC_DQBUF takes the oldest buffer out, and leaves the others.
LEMMA TakeOldest ==
  ASSUME NEW s \in Seq(Buffers), NoneTwice(s), s # <<>>
  PROVE  /\ Head(s) \in Elements(s) /\ Head(s) \in Buffers
         /\ Tail(s) \in Seq(Buffers) /\ NoneTwice(Tail(s))
         /\ Elements(Tail(s)) = Elements(s) \ {Head(s)}
<1>. DEFINE n == Len(s)
<1>1. /\ Head(s) \in Buffers /\ Tail(s) \in Seq(Buffers) /\ Len(Tail(s)) = n - 1
      /\ \A i \in 1 .. n - 1 : Tail(s)[i] = s[i + 1]
  BY HeadTailProperties
<1>2. n \in Nat \ {0} /\ Head(s) = s[1]
  BY EmptySeq
<1>. HIDE DEF n
<1>3. /\ Elements(s) = {s[k] : k \in 1 .. n}
      /\ Elements(Tail(s)) = {Tail(s)[k] : k \in 1 .. n - 1}
  BY <1>1, ElementsIs DEF n
<1>4. \A i, j \in 1 .. n : s[i] = s[j] => i = j
  BY DEF NoneTwice, n
<1>5. 1 \in 1 .. n /\ \A i \in 1 .. n - 1 : i + 1 \in 1 .. n /\ i + 1 # 1
  BY <1>2
<1>6. NoneTwice(Tail(s))
  <2>. SUFFICES ASSUME NEW i \in 1 .. n - 1, NEW j \in 1 .. n - 1, Tail(s)[i] = Tail(s)[j]
                PROVE  i = j
    BY <1>1 DEF NoneTwice
  <2>1. i + 1 = j + 1
    BY <1>1, <1>4, <1>5
  <2>. QED  BY <2>1
<1>7. ASSUME NEW b PROVE b \in Elements(Tail(s)) <=> b \in Elements(s) /\ b # Head(s)
  <2>1. ASSUME b \in Elements(Tail(s)) PROVE b \in Elements(s) /\ b # Head(s)
    <3>1. PICK i \in 1 .. n - 1 : b = s[i + 1]
      BY <1>1, <1>3, <2>1
    <3>. QED  BY <1>2, <1>3, <1>4, <1>5, <3>1
  <2>2. ASSUME b \in Elements(s), b # Head(s) PROVE b \in Elements(Tail(s))
    <3>1. PICK i \in 1 .. n : b = s[i]
      BY <1>3, <2>2
    <3>2. i # 1
      BY <1>2, <2>2, <3>1
    <3>3. i - 1 \in 1 .. n - 1 /\ (i - 1) + 1 = i
      BY <1>2, <3>2
    <3>. QED  BY <1>1, <1>3, <3>1, <3>3
  <2>. QED  BY <2>1, <2>2
<1>. QED
  BY <1>1, <1>2, <1>3, <1>5, <1>6, <1>7

\* The driver fills a buffer behind the others.
LEMMA AddNewest ==
  ASSUME NEW s \in Seq(Buffers), NoneTwice(s), NEW b \in Buffers, b \notin Elements(s)
  PROVE  /\ Append(s, b) \in Seq(Buffers) /\ NoneTwice(Append(s, b))
         /\ Elements(Append(s, b)) = Elements(s) \cup {b}
<1>. DEFINE n == Len(s)
            a == Append(s, b)
<1>1. /\ a \in Seq(Buffers) /\ Len(a) = n + 1 /\ n \in Nat
      /\ \A i \in 1 .. n : a[i] = s[i]
      /\ a[n + 1] = b
  BY AppendProperties
<1>. HIDE DEF n, a
<1>2. /\ Elements(s) = {s[k] : k \in 1 .. n}
      /\ Elements(a) = {a[k] : k \in 1 .. n + 1}
  BY <1>1, ElementsIs DEF n
<1>3. \A i, j \in 1 .. n : s[i] = s[j] => i = j
  BY DEF NoneTwice, n
<1>4. /\ n + 1 \in 1 .. n + 1 /\ \A i \in 1 .. n : i \in 1 .. n + 1
      /\ \A i \in 1 .. n + 1 : i = n + 1 \/ i \in 1 .. n
  BY <1>1
<1>5. NoneTwice(a)
  <2>. SUFFICES ASSUME NEW i \in 1 .. n + 1, NEW j \in 1 .. n + 1, a[i] = a[j]
                PROVE  i = j
    BY <1>1 DEF NoneTwice
  <2>1. \A k \in 1 .. n : a[k] # b
    BY <1>1, <1>2
  <2>. QED  BY <1>1, <1>3, <1>4, <2>1
<1>6. Elements(a) = Elements(s) \cup {b}
  BY <1>1, <1>2, <1>4
<1>. QED
  BY <1>1, <1>5, <1>6 DEF a

\* Nothing is in an empty sequence.
LEMMA NothingFilled == <<>> \in Seq(Buffers) /\ NoneTwice(<<>>) /\ Elements(<<>>) = {}
BY DEF NoneTwice, Elements

\* As many buffers are filled as there are entries.
LEMMA CountFilled ==
  ASSUME NEW s \in Seq(Buffers), NoneTwice(s)
  PROVE  Cardinality(Elements(s)) = Len(s)
<1>1. /\ Elements(s) = {s[k] : k \in 1 .. Len(s)} /\ Len(s) \in Nat /\ DOMAIN s = 1 .. Len(s)
      /\ s = [k \in 1 .. Len(s) |-> s[k]]
  BY ElementsIs
<1>2. s \in [1 .. Len(s) -> Elements(s)]
  BY <1>1
<1>3. s \in Bijection(1 .. Len(s), Elements(s))
  BY <1>1, <1>2 DEF NoneTwice, Bijection, Injection, Surjection, IsInjective
<1>4. ExistsBijection(1 .. Len(s), Elements(s))
  BY <1>3 DEF ExistsBijection
<1>5. IsFiniteSet(1 .. Len(s)) /\ Cardinality(1 .. Len(s)) = Len(s)
  <2>. DEFINE n == Len(s)
  <2>1. 1 \in Int /\ n \in Int /\ n >= 0
    BY <1>1
  <2>. HIDE DEF n
  <2>2. IsFiniteSet(1 .. n) /\ Cardinality(1 .. n) = IF 1 > n THEN 0 ELSE n - 1 + 1
    BY <2>1, FS_Interval
  <2>3. IsFiniteSet(1 .. n) /\ Cardinality(1 .. n) = n
    BY <2>1, <2>2
  <2>. QED  BY <2>3 DEF n
<1>. QED
  BY <1>4, <1>5, FS_Bijection
-----------------------------------------------------------------------------
(* The inductive invariant.                                                 *)

\* The invariant holds at first.
LEMMA InitIInv == ASSUME Init PROVE IInv
<1>1. Types
  <2>1. 0 \in Buffers /\ InitialCount \in 0 .. InitialCount
    BY CountsPositive DEF Buffers
  <2>2. 0 \in 0 .. MaxStarts /\ 0 \in 0 .. MaxFaults
    BY CountsPositive
  <2>. QED  BY <2>1, <2>2, NothingFilled DEF Init, Types
<1>2. Phases /\ Owners /\ Cycle
  BY NothingFilled DEF Init, Phases, Owners, Cycle, Busy
<1>. QED
  BY <1>1, <1>2 DEF IInv

\* The format is set while the source is closed: no buffer is out.
LEMMA set_formatIInv == ASSUME IInv, set_format PROVE IInv'
<1>1. Types'
  BY CountsPositive DEF IInv, Types, set_format, deviceVars, history, workVars
<1>2. Phases'
  BY DEF IInv, Types, Phases, set_format, deviceVars, history, workVars
<1>3. Owners'
  BY DEF IInv, Types, Owners, Busy, set_format, deviceVars, history, workVars
<1>4. Cycle'
  BY DEF IInv, Types, Phases, Cycle, set_format, deviceVars, history, workVars
<1>. QED
  BY <1>1, <1>2, <1>3, <1>4 DEF IInv

\* A callback set while the source is open is what mixed stands for.
LEMMA set_data_callbackIInv == ASSUME IInv, set_data_callback PROVE IInv'
<1>1. Types'
  BY CountsPositive DEF IInv, Types, set_data_callback, deviceVars, workVars
<1>2. Phases'
  BY DEF IInv, Types, Phases, set_data_callback, deviceVars, workVars
<1>3. Owners'
  BY DEF IInv, Types, Owners, Busy, set_data_callback, deviceVars, workVars
<1>4. Cycle'
  BY DEF IInv, Types, Phases, Cycle, set_data_callback, deviceVars, workVars
<1>. QED
  BY <1>1, <1>2, <1>3, <1>4 DEF IInv

\* From here on the work thread delivers.
LEMMA StartedIInv == ASSUME IInv, Started PROVE IInv'
<1>1. Types'
  BY CountsPositive DEF IInv, Types, Started, deviceVars, workVars
<1>2. Phases'
  BY DEF IInv, Types, Phases, Started, deviceVars, workVars
<1>3. Owners'
  BY DEF IInv, Types, Owners, Busy, Started, deviceVars, workVars
<1>4. Cycle'
  BY DEF IInv, Types, Phases, Cycle, Started, deviceVars, workVars
<1>. QED
  BY <1>1, <1>2, <1>3, <1>4 DEF IInv

\* A pause ends START, and with it the claims about the cycle.
LEMMA pauseIInv == ASSUME IInv, pause PROVE IInv'
<1>1. Types'
  BY CountsPositive DEF IInv, Types, pause, deviceVars, history, workVars
<1>2. Phases'
  BY DEF IInv, Types, Phases, pause, deviceVars, history, workVars
<1>3. Owners'
  BY DEF IInv, Types, Owners, Busy, pause, deviceVars, history, workVars
<1>4. Cycle'
  BY DEF IInv, Types, Phases, Cycle, pause, deviceVars, history, workVars
<1>. QED
  BY <1>1, <1>2, <1>3, <1>4 DEF IInv

\* A stop begins; the buffers stay with their owners.
LEMMA stopIInv == ASSUME IInv, stop PROVE IInv'
<1>1. Types'
  BY CountsPositive DEF IInv, Types, stop, deviceVars, history
<1>2. Phases'
  BY DEF IInv, Types, Phases, stop, deviceVars, history
<1>3. Owners'
  BY DEF IInv, Types, Owners, Busy, stop, deviceVars, history
<1>4. Cycle'
  BY DEF IInv, Types, Phases, Cycle, stop, deviceVars, history
<1>. QED
  BY <1>1, <1>2, <1>3, <1>4 DEF IInv

\* The work thread ends only when it was told to.
LEMMA WorkExitIInv == ASSUME IInv, WorkExit PROVE IInv'
<1>1. Types'
  BY CountsPositive DEF IInv, Types, WorkExit, history, workRest
<1>2. Phases'
  BY DEF IInv, Types, Phases, WorkExit, history, workRest
<1>3. Owners'
  BY DEF IInv, Types, Owners, Busy, WorkExit, history, workRest
<1>4. Cycle'
  BY DEF IInv, Types, Phases, Cycle, WorkExit, history, workRest
<1>. QED
  BY <1>1, <1>2, <1>3, <1>4 DEF IInv

\* The work thread begins a round with no buffer.
LEMMA WorkBeginIInv == ASSUME IInv, WorkBegin PROVE IInv'
<1>1. Types'
  BY CountsPositive DEF IInv, Types, WorkBegin, history, workRest
<1>2. Phases'
  BY DEF IInv, Types, Phases, WorkBegin, history, workRest
<1>3. Owners'
  BY DEF IInv, Types, Owners, Busy, WorkBegin, history, workRest
<1>4. Cycle'
  BY DEF IInv, Types, Phases, Cycle, WorkBegin, history, workRest
<1>. QED
  BY <1>1, <1>2, <1>3, <1>4 DEF IInv

\* The callback returns; the buffer stays with the user.
LEMMA WorkReturnIInv == ASSUME IInv, WorkReturn PROVE IInv'
<1>1. Types'
  BY CountsPositive DEF IInv, Types, WorkReturn, history, workRest
<1>2. Phases'
  BY DEF IInv, Types, Phases, WorkReturn, history, workRest
<1>3. Owners'
  BY DEF IInv, Types, Owners, Busy, WorkReturn, history, workRest
<1>4. Cycle'
  BY DEF IInv, Types, Phases, Cycle, WorkReturn, history, workRest
<1>. QED
  BY <1>1, <1>2, <1>3, <1>4 DEF IInv
\* start: no buffer is with a reader, so all may go to the driver.
LEMMA startIInv == ASSUME IInv, start PROVE IInv'
<1>1. /\ user = "idle" /\ ~mOpen /\ held = {} /\ work = "none" /\ mState # "START"
      /\ mBufferCount \in 0 .. InitialCount
  BY DEF IInv, Phases, Types, start
<1>2. /\ UNCHANGED <<mState, mOpen, mBufferCount, callback, held, mixed>> /\ index' = index
  BY DEF start, workVars
<1>3. /\ First(mBufferCount) \subseteq Buffers
      /\ \A b \in Buffers : b \in First(mBufferCount) <=> b < mBufferCount
  BY DEF First
<1>4. CASE StartDevice /\ work' = (IF callback THEN "top" ELSE "none") /\ exitPending' = FALSE
           /\ user' = "started" /\ starts' = starts + 1 /\ faults' = faults
  <2>1. starts' \in 0 .. MaxStarts
    BY <1>4, CountsPositive DEF IInv, Types, start
  <2>2. /\ mBufs' \subseteq Buffers /\ refcount' \in [Buffers -> {0, 1}]
    BY <1>3, <1>4 DEF IInv, Types, StartDevice
  <2>3. Types'
    BY <1>2, <1>3, <1>4, <2>1, <2>2, NothingFilled DEF IInv, Types, StartDevice
  <2>4. Phases'
    BY <1>1, <1>2, <1>4 DEF IInv, Types, Phases
  <2>5. Owners'
    BY <1>1, <1>2, <1>3, <1>4, NothingFilled DEF Owners, StartDevice, Busy
  <2>6. Cycle'
    BY <1>1, <1>2, <1>4 DEF Cycle, StartDevice
  <2>. QED  BY <2>3, <2>4, <2>5, <2>6 DEF IInv
<1>5. CASE StartDeviceFails /\ UNCHANGED <<user, starts, workVars, lost>>
  <2>1. faults' \in 0 .. MaxFaults
    BY <1>5, CountsPositive DEF IInv, Types, StartDeviceFails
  <2>2. CASE UNCHANGED <<mBufs, refcount, queued, filled>>
    <3>1. Types'
      BY <1>2, <1>5, <2>1, <2>2 DEF IInv, Types, StartDeviceFails, workVars
    <3>2. Phases' /\ Cycle'
      BY <1>1, <1>2, <1>5, <2>2 DEF IInv, Phases, Cycle, workVars
    <3>3. Owners'
      BY <1>1, <1>2, <1>5, <2>2 DEF IInv, Owners, Busy, workVars
    <3>. QED  BY <3>1, <3>2, <3>3 DEF IInv
  <2>3. ASSUME NEW m \in 0 .. mBufferCount, NEW n \in 0 .. mBufferCount,
               n > 0 => m = mBufferCount,
               mBufs' = mBufs \cup First(m),
               refcount' = [b \in Buffers |-> IF b < m THEN 0 ELSE refcount[b]],
               queued' = First(n), filled' = <<>>
        PROVE  IInv'
    <3>1. /\ First(m) \subseteq Buffers /\ First(n) \subseteq First(m)
          /\ \A b \in First(n) : b < m
      BY <1>1, <2>3, CountsPositive DEF First, Buffers
    <3>2. Types'
      <4>1. refcount' \in [Buffers -> {0, 1}]
        BY <2>3 DEF IInv, Types
      <4>. QED  BY <1>2, <1>5, <2>1, <2>3, <3>1, <4>1, NothingFilled DEF IInv, Types, StartDeviceFails, workVars
    <3>3. Phases' /\ Cycle'
      BY <1>1, <1>2, <1>5, <2>3 DEF IInv, Phases, Cycle, workVars
    <3>4. Owners'
      BY <1>1, <1>2, <1>5, <2>3, <3>1, NothingFilled DEF Owners, Busy, workVars
    <3>. QED  BY <3>2, <3>3, <3>4 DEF IInv
  <2>. QED  BY <1>5, <2>2, <2>3 DEF StartDeviceFails
<1>. QED
  BY <1>4, <1>5 DEF start

\* The driver gives all buffers up, or keeps them when the ioctl fails.
LEMMA BuffersTaken ==
  ASSUME IInv, TakeBuffers
  PROVE  /\ queued' \subseteq queued /\ filled' \in {<<>>, filled}
         /\ streaming' \in BOOLEAN /\ faults' \in 0 .. MaxFaults
         /\ filled' \in Seq(Buffers) /\ Elements(filled)' \subseteq Elements(filled)
         /\ NoneTwice(filled')
<1>1. CASE queued' = {} /\ filled' = <<>> /\ streaming' = FALSE /\ UNCHANGED faults
  <2>1. faults' \in 0 .. MaxFaults
    BY <1>1 DEF IInv, Types
  <2>2. Elements(filled)' = {}
    BY <1>1, NothingFilled
  <2>. QED  BY <1>1, <2>1, <2>2, NothingFilled, Zenon
<1>2. CASE faults < MaxFaults /\ faults' = faults + 1 /\ UNCHANGED <<queued, filled, streaming>>
  <2>1. faults' \in 0 .. MaxFaults
    BY <1>2, CountsPositive DEF IInv, Types
  <2>2. Elements(filled)' = Elements(filled)
    BY <1>2
  <2>. QED  BY <1>2, <2>1, <2>2, Zenon DEF IInv, Types, Owners
<1>. QED
  BY <1>1, <1>2 DEF TakeBuffers, deviceVars

\* VIDIOC_STREAMOFF, when the work thread is gone.
LEMMA StreamOffIInv == ASSUME IInv, StreamOff PROVE IInv'
<1>1. /\ TakeBuffers /\ work' = "none" /\ work \in {"none", "exited"}
      /\ user = "join" /\ user' = "off" /\ mState' # "START"
      /\ UNCHANGED <<mState, mOpen, mBufferCount, callback, mBufs, refcount, held, index, exitPending,
                     mixed, lost, starts>>
  BY DEF IInv, Phases, StreamOff, ThreadGone, history
<1>2. Types'
  BY <1>1, BuffersTaken DEF IInv, Types
<1>3. Phases' /\ Cycle'
  BY <1>1 DEF IInv, Phases, Cycle
<1>4. Owners'
  BY <1>1, BuffersTaken DEF IInv, Owners, Busy
<1>. QED
  BY <1>2, <1>3, <1>4 DEF IInv

\* stop unmaps the buffers: nobody is left who would deliver one.
LEMMA StoppedIInv == ASSUME IInv, Stopped PROVE IInv'
<1>1. /\ TakeBuffers /\ mBufs' = {} /\ mBufferCount' = 0 /\ held' = {}
      /\ mState' = "STOP" /\ mOpen' = FALSE /\ user' = "idle" /\ work' = "none"
      /\ UNCHANGED <<callback, refcount, index, exitPending, mixed, lost, starts>>
  BY DEF IInv, Phases, Stopped, workVars, history
<1>2. Types'
  <2>1. 0 \in 0 .. InitialCount
    BY CountsPositive
  <2>. QED  BY <1>1, <2>1, BuffersTaken DEF IInv, Types
<1>3. Phases' /\ Cycle'
  BY <1>1 DEF Phases, Cycle
<1>4. Owners'
  BY <1>1, BuffersTaken DEF IInv, Owners, Busy
<1>. QED
  BY <1>2, <1>3, <1>4 DEF IInv

\* The user polls: without a callback the buffer is counted.
LEMMA acquire_bufferIInv == ASSUME IInv, acquire_buffer PROVE IInv'
<1>. DEFINE b == Head(filled)
<1>1. /\ mOpen /\ work = "none" /\ user = "idle" /\ filled # <<>>
      /\ refcount' = IF callback THEN refcount ELSE [refcount EXCEPT ![b] = @ + 1]
      /\ held' = held \cup {b} /\ filled' = Tail(filled)
      /\ UNCHANGED <<mState, mOpen, mBufferCount, callback, mBufs, queued, streaming, user,
                     work, index, exitPending, mixed, lost, starts, faults>>
  BY DEF acquire_buffer, workVars, history
<1>2. /\ b \in Elements(filled) /\ b \in Buffers
      /\ filled' \in Seq(Buffers) /\ NoneTwice(filled')
      /\ Elements(filled') = Elements(filled) \ {b}
  BY <1>1, TakeOldest DEF IInv, Types, Owners
<1>. HIDE DEF b
<1>3. /\ refcount[b] = 0
      /\ \A c \in Buffers : refcount'[c] = IF c = b /\ ~callback THEN 1 ELSE refcount[c]
      /\ refcount' \in [Buffers -> {0, 1}]
  BY <1>1, <1>2 DEF IInv, Types, Owners
<1>4. Types'
  BY <1>1, <1>2, <1>3 DEF IInv, Types
<1>5. Phases'
  BY <1>1 DEF IInv, Phases
<1>6. Owners'
  BY <1>1, <1>2, <1>3 DEF IInv, Types, Owners, Busy
<1>7. Cycle'
  BY <1>1, <1>2, <1>3 DEF IInv, Cycle, First
<1>. QED
  BY <1>4, <1>5, <1>6, <1>7 DEF IInv
\* A buffer that was counted goes back to the driver, or is refused.
LEMMA release_bufferIInv ==
  ASSUME IInv, NEW b \in Buffers, release_buffer(b)
  PROVE  IInv'
<1>1. /\ b \in held /\ held' = held \ {b}
      /\ refcount' = [refcount EXCEPT ![b] = IF @ > 0 THEN @ - 1 ELSE 0]
      /\ UNCHANGED <<mState, mOpen, mBufferCount, callback, mBufs, filled, streaming, user,
                     work, index, exitPending, mixed, starts>>
  BY DEF release_buffer, workVars
<1>2. /\ \A c \in Buffers : refcount'[c] = IF c = b THEN 0 ELSE refcount[c]
      /\ refcount' \in [Buffers -> {0, 1}]
  BY <1>1 DEF IInv, Types
<1>3. /\ mOpen /\ b \in mBufs /\ b \notin queued \cup Elements(filled)
      /\ work = "got" => index # b
  BY <1>1 DEF IInv, Phases, Owners
<1>4. /\ user # "started"
      /\ user = "off" => work = "none"
  BY <1>3 DEF IInv, Phases
<1>5. Phases'
  BY <1>1, <1>3, <1>4 DEF IInv, Phases
<1>6. CASE refcount[b] = 1 /\ queued' = queued \cup {b} /\ UNCHANGED <<lost, faults>>
  <2>1. Types'
    BY <1>1, <1>2, <1>6 DEF IInv, Types
  <2>2. Owners'
    BY <1>1, <1>2, <1>3, <1>6 DEF IInv, Types, Owners, Busy
  <2>3. Cycle'
    BY <1>1, <1>2, <1>4, <1>6 DEF IInv, Cycle, First
  <2>. QED  BY <1>5, <2>1, <2>2, <2>3 DEF IInv
<1>7. CASE /\ refcount[b] = 1 /\ faults < MaxFaults /\ faults' = faults + 1
           /\ lost' = lost \cup {b} /\ UNCHANGED queued
  <2>1. faults' \in 0 .. MaxFaults
    BY <1>7, CountsPositive DEF IInv, Types
  <2>2. Types'
    BY <1>1, <1>2, <1>7, <2>1 DEF IInv, Types
  <2>3. Owners'
    BY <1>1, <1>2, <1>3, <1>7 DEF IInv, Types, Owners, Busy
  <2>4. Cycle'
    BY <1>1, <1>2, <1>4, <1>7 DEF IInv, Cycle, First
  <2>. QED  BY <1>5, <2>2, <2>3, <2>4 DEF IInv
<1>8. CASE refcount[b] # 1 /\ UNCHANGED <<queued, lost, faults>>
  <2>1. Types'
    BY <1>1, <1>2, <1>8 DEF IInv, Types
  <2>2. Owners'
    BY <1>1, <1>2, <1>3, <1>8 DEF IInv, Types, Owners, Busy
  <2>3. Cycle'
    BY <1>1, <1>2, <1>4, <1>8 DEF IInv, Cycle, First
  <2>. QED  BY <1>5, <2>1, <2>2, <2>3 DEF IInv
<1>. QED
  BY <1>6, <1>7, <1>8 DEF release_buffer, Requeue

\* The work thread takes the oldest buffer, or none.
LEMMA WorkAcquireIInv == ASSUME IInv, WorkAcquire PROVE IInv'
<1>1. /\ work = "dequeue"
      /\ UNCHANGED <<mState, mOpen, mBufferCount, callback, mBufs, streaming, user, exitPending,
                     mixed, lost, starts, faults, refcount, queued, held>>
  BY DEF WorkAcquire, workRest, history
<1>2. mOpen /\ user # "started" /\ user # "off"
  BY <1>1 DEF IInv, Types, Phases
<1>3. CASE filled = <<>> /\ work' = "top" /\ UNCHANGED <<filled, index>>
  <2>1. Types'
    BY <1>1, <1>3 DEF IInv, Types
  <2>2. Phases' /\ Cycle'
    BY <1>1, <1>2, <1>3 DEF IInv, Phases, Cycle
  <2>3. Owners'
    BY <1>1, <1>3 DEF IInv, Owners, Busy
  <2>. QED  BY <2>1, <2>2, <2>3 DEF IInv
<1>4. CASE filled # <<>> /\ work' = "got" /\ index' = Head(filled) /\ filled' = Tail(filled)
  <2>1. /\ index' \in Elements(filled) /\ index' \in Buffers
        /\ filled' \in Seq(Buffers) /\ NoneTwice(filled')
        /\ Elements(filled') = Elements(filled) \ {index'}
    BY <1>4, TakeOldest DEF IInv, Types, Owners
  <2>2. Types'
    BY <1>1, <1>4, <2>1 DEF IInv, Types
  <2>3. Phases'
    BY <1>1, <1>2, <1>4 DEF IInv, Phases
  <2>4. Owners'
    BY <1>1, <1>2, <1>4, <2>1 DEF IInv, Owners, Busy
  <2>5. Cycle'
    BY <1>1, <1>2, <1>4, <2>1 DEF IInv, Cycle
  <2>. QED  BY <2>2, <2>3, <2>4, <2>5 DEF IInv
<1>. QED
  BY <1>3, <1>4 DEF WorkAcquire, AfterEmpty

\* The buffer is counted and given to the callback, or dropped when the
\* source no longer runs.
LEMMA WorkDeliverIInv == ASSUME IInv, WorkDeliver PROVE IInv'
<1>1. /\ work = "got"
      /\ UNCHANGED <<mState, mOpen, mBufferCount, callback, mBufs, streaming, user, exitPending,
                     mixed, lost, starts, faults, queued, filled, index>>
  BY DEF WorkDeliver, workRest, history
<1>2. /\ mOpen /\ user # "started" /\ user # "off" /\ index \in Buffers
      /\ refcount[index] = 0 /\ index \notin held \cup queued \cup Elements(filled) /\ index \in mBufs
  BY <1>1 DEF IInv, Types, Phases, Owners, Busy
<1>3. CASE /\ mState = "START" /\ refcount' = [refcount EXCEPT ![index] = @ + 1]
           /\ held' = held \cup {index} /\ work' = "callback"
  <2>1. /\ \A c \in Buffers : refcount'[c] = IF c = index THEN 1 ELSE refcount[c]
        /\ refcount' \in [Buffers -> {0, 1}]
    BY <1>2, <1>3 DEF IInv, Types
  <2>2. Types'
    BY <1>1, <1>2, <1>3, <2>1 DEF IInv, Types
  <2>3. Phases'
    BY <1>1, <1>2, <1>3 DEF IInv, Phases
  <2>4. Owners'
    <3>1. \A c \in queued \cup Elements(filled) : c \in Buffers /\ c # index
      BY <1>2, ElementsIs DEF IInv, Types
    <3>. QED  BY <1>1, <1>2, <1>3, <2>1, <3>1 DEF IInv, Owners, Busy
  <2>5. Cycle'
    BY <1>1, <1>2, <1>3, <2>1 DEF IInv, Cycle, First
  <2>. QED  BY <2>2, <2>3, <2>4, <2>5 DEF IInv
<1>4. CASE mState # "START" /\ work' = "top" /\ UNCHANGED <<refcount, held>>
  <2>1. Types'
    BY <1>1, <1>4 DEF IInv, Types
  <2>2. Phases' /\ Cycle'
    BY <1>1, <1>2, <1>4 DEF IInv, Phases, Cycle
  <2>3. Owners'
    BY <1>1, <1>4 DEF IInv, Owners, Busy
  <2>. QED  BY <2>1, <2>2, <2>3 DEF IInv
<1>. QED
  BY <1>3, <1>4 DEF WorkDeliver

\* The driver fills a buffer that is its own.
LEMMA FillIInv == ASSUME IInv, NEW b \in Buffers, Fill(b) PROVE IInv'
<1>1. /\ streaming /\ b \in queued /\ queued' = queued \ {b} /\ filled' = Append(filled, b)
      /\ UNCHANGED <<mState, mOpen, mBufferCount, callback, mBufs, refcount, streaming, held, user,
                     work, index, exitPending, mixed, lost, starts, faults>>
  BY DEF Fill, workVars, history
<1>2. /\ filled' \in Seq(Buffers) /\ NoneTwice(filled')
      /\ Elements(filled') = Elements(filled) \cup {b}
  <2>1. b \notin Elements(filled) /\ filled \in Seq(Buffers) /\ NoneTwice(filled)
    BY <1>1 DEF IInv, Types, Owners
  <2>. QED  BY <1>1, <2>1, AddNewest
<1>3. Types'
  BY <1>1, <1>2 DEF IInv, Types
<1>4. Phases'
  BY <1>1 DEF IInv, Phases
<1>5. Owners'
  BY <1>1, <1>2 DEF IInv, Owners, Busy
<1>6. Cycle'
  BY <1>1, <1>2 DEF IInv, Cycle
<1>. QED
  BY <1>3, <1>4, <1>5, <1>6 DEF IInv

\* Every step keeps the invariant.
LEMMA NextIInv == ASSUME IInv, [Next]_vars PROVE IInv'
<1>1. CASE UNCHANGED vars
  <2>1. Types' /\ Phases'
    BY <1>1 DEF IInv, Types, Phases, vars, deviceVars, workVars, history
  <2>2. Owners' /\ Cycle'
    BY <1>1 DEF IInv, Owners, Cycle, Busy, vars, deviceVars, workVars, history
  <2>. QED  BY <2>1, <2>2 DEF IInv
<1>2. CASE UserCall
  <2>1. CASE StartOpen
    BY <1>1, <2>1 DEF StartOpen
  <2>2. ASSUME NEW b \in Buffers, release_buffer(b) PROVE IInv'
    BY <2>2, release_bufferIInv
  <2>. QED  BY <1>2, <2>1, <2>2, set_formatIInv, set_data_callbackIInv, startIInv,
     pauseIInv, stopIInv,
               acquire_bufferIInv DEF UserCall
<1>3. CASE UserStep
  BY <1>3, StartedIInv, StreamOffIInv, StoppedIInv DEF UserStep
<1>4. CASE WorkStep
  BY <1>4, WorkExitIInv, WorkBeginIInv, WorkAcquireIInv, WorkDeliverIInv, WorkReturnIInv DEF
     WorkStep
<1>5. ASSUME NEW b \in Buffers, Fill(b) PROVE IInv'
  BY <1>5, FillIInv
<1>. QED
  BY <1>1, <1>2, <1>3, <1>4, <1>5 DEF Next

\* The invariant holds throughout.
LEMMA Inductive == Spec => []IInv
<1>1. Init => IInv
  BY InitIInv
<1>2. IInv /\ [Next]_vars => IInv'
  BY NextIInv
<1>. QED
  BY <1>1, <1>2, PTL DEF Spec

-----------------------------------------------------------------------------
(* What the source promises.                                                *)

\* The filled buffers, in the words of the model.
LEMMA DoneIsElements == Done = Elements(filled)
BY DEF Done, Elements

\* Every variable keeps its type; in particular no buffer is counted twice,
\* although workThread and acquire_buffer count without mLock.
THEOREM TypeCorrect == Spec => []TypeOK
<1>1. IInv => TypeOK
  <2>. SUFFICES ASSUME Types PROVE TypeOK
    BY DEF IInv
  <2>1. Done \subseteq Buffers
    BY ElementsIs, DoneIsElements DEF Types
  <2>2. {mBufs, queued, Done, held, lost} \subseteq SUBSET Buffers
    BY <2>1 DEF Types
  <2>3. {mOpen, callback, streaming, exitPending, mixed} \subseteq BOOLEAN
    BY DEF Types
  <2>. QED  BY <2>2, <2>3 DEF Types, TypeOK
<1>. QED
  BY <1>1, Inductive, PTL

\* The driver never writes into a buffer that the user or the work thread
\* reads, and never reports one twice, however release_buffer falls between
\* the steps of workThread.
THEOREM NoReaderOverwritten == Spec => []ReadersHaveIt
<1>1. IInv => ReadersHaveIt
  <2>. SUFFICES ASSUME IInv PROVE ReadersHaveIt
    OBVIOUS
  <2>1. Cardinality(Done) = Len(filled)
    BY CountFilled, DoneIsElements DEF IInv, Types, Owners
  <2>. QED  BY <2>1, DoneIsElements DEF IInv, Owners, ReadersHaveIt
<1>. QED
  BY <1>1, Inductive, PTL

\* While the source runs no buffer drops out of the cycle of driver, work
\* thread and user, except those the driver refused to take back.
THEOREM NoBufferDropped == Spec => []NoneDropped
<1>1. IInv => NoneDropped
  BY DoneIsElements DEF IInv, Cycle, NoneDropped
<1>. QED
  BY <1>1, Inductive, PTL

\* stop unmaps the buffers only when the work thread delivers no more.
THEOREM DeliveredIsMapped == Spec => []CallbackMapped
<1>1. IInv => CallbackMapped
  BY DEF IInv, Owners, CallbackMapped
<1>. QED
  BY <1>1, Inductive, PTL
=============================================================================
