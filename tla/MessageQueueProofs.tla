------------------------ MODULE MessageQueueProofs ------------------------
(***************************************************************************)
(* Proofs about the two message queues.  The pool of the audio decoder,    *)
(* for any number of slots, senders and commands: the ring implements the  *)
(* queue that drops its oldest message, every command is in one place at a *)
(* time, and a sender waits a bounded number of times.  The queue of the   *)
(* CEC HAL, for any types, delays and number of messages: it stays in      *)
(* order, and removing a message removes all of its type and nothing else. *)
(***************************************************************************)
EXTENDS AdecMessage, CMsgQueue, SequenceTheorems, WellFoundedInduction, TLAPS

\* The slot of the i-th message of a ring that is read at slot o.
SlotAt(o, i) == (o + i - 1) % MESSAGE_NUM_MAX

\* The two indices are as far apart as there are messages: a full ring is
\* written where it is read next.
RingOK ==
  /\ message_lise \in [Slots -> 0 .. MaxSends]
  /\ message_in_index \in Slots /\ message_out_index \in Slots
  /\ message_num \in 0 .. MESSAGE_NUM_MAX
  /\ message_in_index = SlotAt(message_out_index, message_num + 1)

SendersOK ==
  /\ allocated \in 0 .. MaxSends
  /\ pc \in [Senders -> {"idle", "test", "slept", "lock"}]
  /\ cmd \in [Senders -> 0 .. allocated]
  /\ \A s \in Senders : pc[s] = "idle" <=> cmd[s] = NULL
  /\ msg \in 0 .. allocated
  /\ freed \subseteq 1 .. allocated

\* Nobody has a command that somebody else has.
Apart ==
  /\ \A i \in 1 .. message_num :
       /\ Window[i] \in (1 .. allocated) \ freed
       /\ Window[i] # msg
       /\ \A s \in Senders : Window[i] # cmd[s]
       /\ \A j \in 1 .. message_num : Window[i] = Window[j] => i = j
  /\ \A s \in Senders :
       /\ cmd[s] \notin freed
       /\ cmd[s] # NULL => cmd[s] # msg
       /\ \A t \in Senders : cmd[s] # NULL /\ cmd[s] = cmd[t] => s = t
  /\ msg \notin freed

\* Somebody has every command.
Somewhere ==
  \A m \in 1 .. allocated :
    \/ m \in freed
    \/ m = msg
    \/ \E s \in Senders : cmd[s] = m
    \/ \E i \in 1 .. message_num : Window[i] = m

IInv == RingOK /\ SendersOK /\ Apart /\ Somewhere

-----------------------------------------------------------------------------
(* Arithmetic of the indices.                                               *)

\* What the constants are.
LEMMA Positive == MESSAGE_NUM_MAX \in Nat \ {0} /\ MaxSends \in Nat /\ Patience \in Nat
BY PoolAssumption DEF PoolAssumption

\* What % does to a number that went round at most once.
LEMMA ModOnce ==
  ASSUME NEW x \in 0 .. 2 * MESSAGE_NUM_MAX - 1
  PROVE  x % MESSAGE_NUM_MAX = IF x < MESSAGE_NUM_MAX THEN x ELSE x - MESSAGE_NUM_MAX
<1>1. CASE x < MESSAGE_NUM_MAX
  BY <1>1, Positive
<1>2. CASE x >= MESSAGE_NUM_MAX
  BY <1>2, Positive
<1>. QED
  BY <1>1, <1>2, Positive

\* After goes to the next slot, and from the last to the first.
LEMMA AfterSlot ==
  ASSUME NEW i \in Slots
  PROVE  /\ After(i) \in Slots
         /\ After(i) = IF i + 1 < MESSAGE_NUM_MAX THEN i + 1 ELSE 0
<1>. DEFINE x == i + 1
<1>1. x \in 0 .. 2 * MESSAGE_NUM_MAX - 1 /\ After(i) = x % MESSAGE_NUM_MAX
  BY Positive DEF Slots, After
<1>2. x % MESSAGE_NUM_MAX = IF x < MESSAGE_NUM_MAX THEN x ELSE x - MESSAGE_NUM_MAX
  <2>. HIDE DEF x
  <2>. QED  BY <1>1, ModOnce
<1>. QED
  BY <1>1, <1>2, Positive DEF Slots

\* The slots of the messages, without %.
LEMMA SlotAtIs ==
  ASSUME NEW o \in Slots, NEW i \in 1 .. MESSAGE_NUM_MAX + 1
  PROVE  /\ SlotAt(o, i) \in Slots
         /\ SlotAt(o, i) = IF o + i - 1 < MESSAGE_NUM_MAX THEN o + i - 1
                                                         ELSE o + i - 1 - MESSAGE_NUM_MAX
<1>. DEFINE x == o + i - 1
<1>1. x \in 0 .. 2 * MESSAGE_NUM_MAX - 1 /\ SlotAt(o, i) = x % MESSAGE_NUM_MAX
  BY Positive DEF Slots, SlotAt
<1>2. x % MESSAGE_NUM_MAX = IF x < MESSAGE_NUM_MAX THEN x ELSE x - MESSAGE_NUM_MAX
  <2>. HIDE DEF x
  <2>. QED  BY <1>1, ModOnce
<1>. QED
  BY <1>1, <1>2, Positive DEF Slots

\* Two messages are in two slots.
LEMMA SlotAtInjective ==
  ASSUME NEW o \in Slots, NEW i \in 1 .. MESSAGE_NUM_MAX, NEW j \in 1 .. MESSAGE_NUM_MAX,
         SlotAt(o, i) = SlotAt(o, j)
  PROVE  i = j
<1>1. i \in 1 .. MESSAGE_NUM_MAX + 1 /\ j \in 1 .. MESSAGE_NUM_MAX + 1
  BY Positive
<1>2. /\ SlotAt(o, i) \in Slots
      /\ SlotAt(o, i) = IF o + i - 1 < MESSAGE_NUM_MAX THEN o + i - 1 ELSE o + i - 1 - MESSAGE_NUM_MAX
      /\ SlotAt(o, j) = IF o + j - 1 < MESSAGE_NUM_MAX THEN o + j - 1 ELSE o + j - 1 - MESSAGE_NUM_MAX
  BY <1>1, SlotAtIs
<1>3. (IF o + i - 1 < MESSAGE_NUM_MAX THEN o + i - 1 ELSE o + i - 1 - MESSAGE_NUM_MAX)
        = (IF o + j - 1 < MESSAGE_NUM_MAX THEN o + j - 1 ELSE o + j - 1 - MESSAGE_NUM_MAX)
  BY <1>2, Zenon
<1>. QED
  BY <1>3, Positive DEF Slots

\* Reading from the next slot on makes every message the one before.
LEMMA SlotAtAfter ==
  ASSUME NEW o \in Slots, NEW i \in 1 .. MESSAGE_NUM_MAX
  PROVE  SlotAt(After(o), i) = SlotAt(o, i + 1)
<1>1. After(o) \in Slots /\ After(o) = IF o + 1 < MESSAGE_NUM_MAX THEN o + 1 ELSE 0
  BY AfterSlot
<1>2. i \in 1 .. MESSAGE_NUM_MAX + 1 /\ i + 1 \in 1 .. MESSAGE_NUM_MAX + 1
  BY Positive
<1>3. SlotAt(o, i + 1) = IF o + (i + 1) - 1 < MESSAGE_NUM_MAX THEN o + (i + 1) - 1
                                                             ELSE o + (i + 1) - 1 - MESSAGE_NUM_MAX
  BY <1>2, SlotAtIs
<1>4. SlotAt(After(o), i) = IF After(o) + i - 1 < MESSAGE_NUM_MAX THEN After(o) + i - 1
                                                               ELSE After(o) + i - 1 - MESSAGE_NUM_MAX
  BY <1>1, <1>2, SlotAtIs
<1>. QED
  BY <1>1, <1>3, <1>4, Positive DEF Slots

\* A slot that was written is the slot after the one before it.
LEMMA SlotAtNext ==
  ASSUME NEW o \in Slots, NEW i \in 1 .. MESSAGE_NUM_MAX
  PROVE  After(SlotAt(o, i)) = SlotAt(o, i + 1)
<1>1. i \in 1 .. MESSAGE_NUM_MAX + 1 /\ i + 1 \in 1 .. MESSAGE_NUM_MAX + 1
  BY Positive
<1>2. /\ SlotAt(o, i) \in Slots
      /\ SlotAt(o, i) = IF o + i - 1 < MESSAGE_NUM_MAX THEN o + i - 1 ELSE o + i - 1 - MESSAGE_NUM_MAX
  BY <1>1, SlotAtIs
<1>3. SlotAt(o, i + 1) = IF o + (i + 1) - 1 < MESSAGE_NUM_MAX THEN o + (i + 1) - 1
                                                             ELSE o + (i + 1) - 1 - MESSAGE_NUM_MAX
  BY <1>1, SlotAtIs
<1>4. After(SlotAt(o, i)) = IF SlotAt(o, i) + 1 < MESSAGE_NUM_MAX THEN SlotAt(o, i) + 1 ELSE 0
  BY <1>2, AfterSlot
<1>. QED
  BY <1>2, <1>3, <1>4, Positive DEF Slots

-----------------------------------------------------------------------------
(* What the actions do to the messages of the ring.                         *)

\* The messages of the ring are a sequence.
LEMMA WindowSeq ==
  RingOK => /\ Window \in Seq(0 .. MaxSends)
            /\ Len(Window) = message_num
            /\ \A i \in 1 .. message_num : Window[i] = message_lise[SlotAt(message_out_index, i)]
<1>. SUFFICES ASSUME RingOK
              PROVE  /\ Window \in Seq(0 .. MaxSends)
                     /\ Len(Window) = message_num
                     /\ \A i \in 1 .. message_num : Window[i] = message_lise[SlotAt(message_out_index, i)]
  OBVIOUS
<1>1. \A i \in 1 .. message_num : message_lise[SlotAt(message_out_index, i)] \in 0 .. MaxSends
  <2>1. \A i \in 1 .. message_num : i \in 1 .. MESSAGE_NUM_MAX + 1
    BY Positive DEF RingOK
  <2>2. \A i \in 1 .. message_num : SlotAt(message_out_index, i) \in Slots
    BY <2>1, SlotAtIs DEF RingOK
  <2>. QED  BY <2>2 DEF RingOK
<1>2. Window = [i \in 1 .. message_num |-> message_lise[SlotAt(message_out_index, i)]]
  BY DEF Window, SlotAt
<1>3. message_num \in Nat
  BY Positive DEF RingOK
<1>. QED
  BY <1>1, <1>2, <1>3

\* A step that leaves the ring alone.
LEMMA RingUnchanged ==
  ASSUME RingOK, UNCHANGED ring
  PROVE  RingOK' /\ Window' = Window
BY DEF RingOK, ring, Window

\* Insert puts the command behind the others.
LEMMA InsertWindow ==
  ASSUME RingOK, NEW s \in Senders, Insert(s), cmd[s] \in 0 .. MaxSends
  PROVE  /\ RingOK'
         /\ Window' = Append(Window, cmd[s])
         /\ \A i \in 1 .. message_num : Window'[i] = Window[i]
         /\ Window'[message_num + 1] = cmd[s]
<1>. DEFINE o == message_out_index
            n == message_num
            m == cmd[s]
<1>1. /\ n < MESSAGE_NUM_MAX /\ n \in Nat /\ o \in Slots
      /\ message_lise' = [message_lise EXCEPT ![message_in_index] = m]
      /\ message_in_index' = After(message_in_index)
      /\ message_num' = n + 1 /\ message_out_index' = o
  BY Positive DEF Insert, Put, RingOK
<1>2. RingOK'
  <2>1. n + 1 \in 1 .. MESSAGE_NUM_MAX
    BY <1>1, Positive
  <2>2. message_in_index' = SlotAt(o, (n + 1) + 1)
    BY <1>1, <2>1, SlotAtNext DEF RingOK
  <2>3. message_in_index' \in Slots
    BY <1>1, AfterSlot DEF RingOK
  <2>. QED  BY <1>1, <2>1, <2>2, <2>3, Positive DEF RingOK
<1>3. /\ Window \in Seq(0 .. MaxSends) /\ Len(Window) = n
      /\ \A i \in 1 .. n : Window[i] = message_lise[SlotAt(o, i)]
  BY WindowSeq
<1>4. /\ Window' \in Seq(0 .. MaxSends) /\ Len(Window') = n + 1
      /\ \A i \in 1 .. n + 1 : Window'[i] = message_lise'[SlotAt(o, i)]
  <2>1. (RingOK => /\ Window \in Seq(0 .. MaxSends)
                   /\ Len(Window) = message_num
                   /\ \A i \in 1 .. message_num : Window[i] = message_lise[SlotAt(message_out_index, i)])'
    BY WindowSeq, PTL
  <2>. QED  BY <1>1, <1>2, <2>1
<1>5. Window'[n + 1] = m
  BY <1>1, <1>4 DEF RingOK
<1>6. ASSUME NEW i \in 1 .. n
      PROVE  Window'[i] = Window[i]
  <2>1. i \in 1 .. n + 1 /\ i \in 1 .. MESSAGE_NUM_MAX /\ n + 1 \in 1 .. MESSAGE_NUM_MAX /\ i # n + 1
    BY <1>1, Positive
  <2>2. SlotAt(o, i) # SlotAt(o, n + 1)
    BY <1>1, <2>1, SlotAtInjective
  <2>3. SlotAt(o, i) # message_in_index
    BY <2>2 DEF RingOK
  <2>. QED  BY <1>1, <1>3, <1>4, <2>1, <2>3 DEF RingOK
<1>7. /\ Append(Window, m) \in Seq(0 .. MaxSends) /\ Len(Append(Window, m)) = n + 1
      /\ \A i \in 1 .. n : Append(Window, m)[i] = Window[i]
      /\ Append(Window, m)[n + 1] = m
  BY <1>3, AppendProperties
<1>8. \A i \in 1 .. n + 1 : Window'[i] = Append(Window, m)[i]
  BY <1>1, <1>5, <1>6, <1>7
<1>9. Window' = Append(Window, m)
  BY <1>4, <1>7, <1>8, SeqEqual
<1>. QED
  BY <1>2, <1>5, <1>6, <1>9, Zenon

\* adec_get_message takes the first of the messages.
LEMMA GetWindow ==
  ASSUME RingOK, Get
  PROVE  /\ RingOK'
         /\ Window # <<>> /\ Window' = Tail(Window) /\ msg' = Head(Window)
         /\ \A i \in 1 .. message_num - 1 : Window'[i] = Window[i + 1]
         /\ msg' = Window[1]
<1>. DEFINE o == message_out_index
            n == message_num
<1>1. /\ n \in 1 .. MESSAGE_NUM_MAX /\ o \in Slots
      /\ message_lise' = message_lise /\ message_in_index' = message_in_index
      /\ message_num' = n - 1 /\ message_out_index' = After(o)
      /\ msg' = message_lise[o]
  BY Positive DEF Get, RingOK
<1>2. RingOK'
  <2>1. n - 1 \in 0 .. MESSAGE_NUM_MAX /\ n \in 1 .. MESSAGE_NUM_MAX /\ (n - 1) + 1 = n
    BY <1>1, Positive
  <2>2. SlotAt(After(o), n) = SlotAt(o, n + 1)
    BY <1>1, SlotAtAfter
  <2>3. After(o) \in Slots
    BY <1>1, AfterSlot
  <2>. QED  BY <1>1, <2>1, <2>2, <2>3 DEF RingOK
<1>3. /\ Window \in Seq(0 .. MaxSends) /\ Len(Window) = n
      /\ \A i \in 1 .. n : Window[i] = message_lise[SlotAt(o, i)]
  BY WindowSeq
<1>4. /\ Window' \in Seq(0 .. MaxSends) /\ Len(Window') = n - 1
      /\ \A i \in 1 .. n - 1 : Window'[i] = message_lise[SlotAt(After(o), i)]
  <2>1. (RingOK => /\ Window \in Seq(0 .. MaxSends)
                   /\ Len(Window) = message_num
                   /\ \A i \in 1 .. message_num : Window[i] = message_lise[SlotAt(message_out_index, i)])'
    BY WindowSeq, PTL
  <2>. QED  BY <1>1, <1>2, <2>1
<1>5. Window # <<>>
  BY <1>1, <1>3, EmptySeq
<1>6. /\ Head(Window) = Window[1]
      /\ Tail(Window) \in Seq(0 .. MaxSends) /\ Len(Tail(Window)) = n - 1
      /\ \A i \in 1 .. n - 1 : Tail(Window)[i] = Window[i + 1]
  BY <1>3, <1>5, HeadTailProperties
<1>7. ASSUME NEW i \in 1 .. n - 1
      PROVE  Window'[i] = Tail(Window)[i]
  <2>1. i + 1 \in 1 .. n /\ i \in 1 .. MESSAGE_NUM_MAX
    BY <1>1, Positive
  <2>2. SlotAt(After(o), i) = SlotAt(o, i + 1)
    BY <1>1, <2>1, SlotAtAfter
  <2>. QED  BY <1>3, <1>4, <1>6, <2>1, <2>2
<1>8. Window' = Tail(Window)
  BY <1>4, <1>6, <1>7, SeqEqual
<1>9. msg' = Head(Window)
  <2>1. 1 \in 1 .. n /\ 1 \in 1 .. MESSAGE_NUM_MAX + 1
    BY <1>1, Positive
  <2>2. SlotAt(o, 1) = o
    BY <1>1, <2>1, SlotAtIs, Positive DEF Slots
  <2>. QED  BY <1>1, <1>3, <1>6, <2>1, <2>2
<1>. QED
  BY <1>2, <1>5, <1>6, <1>7, <1>8, <1>9

\* A full ring frees the first of its messages and puts the command behind the others.
LEMMA InsertFullWindow ==
  ASSUME RingOK, NEW s \in Senders, InsertFull(s), cmd[s] \in 0 .. MaxSends
  PROVE  /\ RingOK'
         /\ message_num = MESSAGE_NUM_MAX
         /\ Window # <<>>
         /\ freed' = freed \cup {Head(Window)}
         /\ Window' = Append(Tail(Window), cmd[s])
         /\ freed' = freed \cup {Window[1]}
         /\ \A i \in 1 .. MESSAGE_NUM_MAX - 1 : Window'[i] = Window[i + 1]
         /\ Window'[MESSAGE_NUM_MAX] = cmd[s]
<1>. DEFINE o == message_out_index
            N == MESSAGE_NUM_MAX
            m == cmd[s]
<1>1. /\ message_num = N /\ message_num' = N /\ o \in Slots
      /\ message_lise' = [message_lise EXCEPT ![message_in_index] = m]
      /\ message_in_index' = After(message_in_index)
      /\ message_out_index' = After(o)
      /\ freed' = freed \cup {message_lise[message_in_index]}
  BY Positive DEF InsertFull, Put, RingOK, OutAfterDrop, OldestSlot
<1>2. message_in_index = o
  <2>1. N + 1 \in 1 .. MESSAGE_NUM_MAX + 1
    BY Positive
  <2>2. SlotAt(o, N + 1) = o
    BY <1>1, <2>1, SlotAtIs, Positive DEF Slots
  <2>. QED  BY <1>1, <2>2 DEF RingOK
<1>3. RingOK'
  <2>1. N \in 1 .. N /\ N \in 0 .. N /\ N + 1 \in 1 .. N + 1
    BY Positive
  <2>2. After(o) \in Slots
    BY <1>1, AfterSlot
  <2>3. SlotAt(After(o), N + 1) = After(o)
    BY <2>1, <2>2, SlotAtIs, Positive DEF Slots
  <2>. QED  BY <1>1, <1>2, <2>1, <2>2, <2>3 DEF RingOK
<1>4. /\ Window \in Seq(0 .. MaxSends) /\ Len(Window) = N
      /\ \A i \in 1 .. N : Window[i] = message_lise[SlotAt(o, i)]
  BY <1>1, WindowSeq
<1>5. /\ Window' \in Seq(0 .. MaxSends) /\ Len(Window') = N
      /\ \A i \in 1 .. N : Window'[i] = message_lise'[SlotAt(After(o), i)]
  <2>1. (RingOK => /\ Window \in Seq(0 .. MaxSends)
                   /\ Len(Window) = message_num
                   /\ \A i \in 1 .. message_num : Window[i] = message_lise[SlotAt(message_out_index, i)])'
    BY WindowSeq, PTL
  <2>. QED  BY <1>1, <1>3, <2>1
<1>6. Window # <<>>
  BY <1>4, EmptySeq, Positive
<1>7. /\ Head(Window) = Window[1]
      /\ Tail(Window) \in Seq(0 .. MaxSends) /\ Len(Tail(Window)) = N - 1
      /\ \A i \in 1 .. N - 1 : Tail(Window)[i] = Window[i + 1]
  BY <1>4, <1>6, HeadTailProperties
<1>8. /\ Append(Tail(Window), m) \in Seq(0 .. MaxSends) /\ Len(Append(Tail(Window), m)) = N
      /\ \A i \in 1 .. N - 1 : Append(Tail(Window), m)[i] = Tail(Window)[i]
      /\ Append(Tail(Window), m)[N] = m
  BY <1>7, AppendProperties, Positive
<1>9. ASSUME NEW i \in 1 .. N
      PROVE  Window'[i] = Append(Tail(Window), m)[i]
  <2>1. SlotAt(After(o), i) = SlotAt(o, i + 1)
    BY <1>1, SlotAtAfter
  <2>2. CASE i = N
    <3>1. SlotAt(o, N + 1) = o
      BY <1>1, <1>2 DEF RingOK
    <3>. QED  BY <1>1, <1>2, <1>5, <1>8, <2>1, <2>2, <3>1 DEF RingOK
  <2>3. CASE i # N
    <3>1. i \in 1 .. N - 1 /\ i + 1 \in 1 .. N /\ 1 \in 1 .. N /\ i + 1 # 1
          /\ 1 \in 1 .. N + 1
      BY <2>3, Positive
    <3>2. SlotAt(o, 1) = o
      BY <1>1, <3>1, SlotAtIs, Positive DEF Slots
    <3>3. SlotAt(o, i + 1) # SlotAt(o, 1)
      BY <1>1, <3>1, SlotAtInjective
    <3>. QED  BY SMTT(30), <1>1, <1>2, <1>4, <1>5, <1>7, <1>8, <2>1, <3>1, <3>2, <3>3 DEF RingOK
  <2>. QED  BY <2>2, <2>3, Zenon
<1>10. Window' = Append(Tail(Window), m)
  BY <1>5, <1>8, <1>9, SeqEqual
<1>11. message_lise[message_in_index] = Head(Window)
  <2>1. 1 \in 1 .. N /\ 1 \in 1 .. N + 1
    BY Positive
  <2>2. SlotAt(o, 1) = o
    BY <1>1, <2>1, SlotAtIs, Positive DEF Slots
  <2>. QED  BY <1>2, <1>4, <1>7, <2>1, <2>2
<1>12. /\ \A i \in 1 .. N - 1 : Window'[i] = Window[i + 1]
       /\ Window'[N] = m
  BY <1>7, <1>8, <1>10
<1>. QED
  BY <1>1, <1>3, <1>6, <1>7, <1>10, <1>11, <1>12, Zenon

-----------------------------------------------------------------------------
(* The inductive invariant.                                                 *)

\* The invariant holds at first.
LEMMA InitIInv == ASSUME Init PROVE IInv
<1>1. RingOK
  <2>1. 0 \in Slots /\ 0 + 1 \in 1 .. MESSAGE_NUM_MAX + 1
    BY Positive DEF Slots
  <2>2. SlotAt(0, 0 + 1) = 0
    BY <2>1, SlotAtIs, Positive
  <2>. QED  BY <2>1, <2>2, Positive DEF Init, RingOK, NULL
<1>2. SendersOK
  BY Positive DEF Init, SendersOK, NULL
<1>3. Apart /\ Somewhere
  BY DEF Init, Apart, Somewhere, NULL
<1>. QED
  BY <1>1, <1>2, <1>3 DEF IInv

\* A new command is nobody's.
LEMMA AllocIInv ==
  ASSUME IInv, NEW s \in Senders, Alloc(s)
  PROVE  IInv'
<1>1. RingOK' /\ Window' = Window /\ message_num' = message_num
  BY RingUnchanged DEF IInv, Alloc, ring
<1>2. /\ allocated \in Nat /\ allocated' = allocated + 1 /\ allocated + 1 \in 0 .. MaxSends
      /\ cmd' = [cmd EXCEPT ![s] = allocated + 1] /\ cmd[s] = NULL
      /\ msg' = msg /\ freed' = freed
  BY Positive DEF IInv, SendersOK, Alloc
<1>3. SendersOK'
  <2>1. cmd' \in [Senders -> 0 .. allocated']
    BY <1>2 DEF IInv, SendersOK
  <2>2. \A t \in Senders : pc'[t] = "idle" <=> cmd'[t] = NULL
    BY <1>2 DEF IInv, SendersOK, Alloc, NULL
  <2>. QED  BY <1>2, <2>1, <2>2 DEF IInv, SendersOK, Alloc
<1>4. \A t \in Senders : cmd'[t] = IF t = s THEN allocated + 1 ELSE cmd[t]
  BY <1>2 DEF IInv, SendersOK
<1>5. Apart'
  <2>1. /\ \A i \in 1 .. message_num : Window[i] # allocated + 1
        /\ \A t \in Senders : cmd[t] # allocated + 1
        /\ msg # allocated + 1 /\ allocated + 1 \notin freed
    BY <1>2 DEF IInv, Apart, SendersOK
  <2>2. \A i \in 1 .. message_num : Window[i] \in 1 .. allocated + 1
    BY <1>2 DEF IInv, Apart
  <2>. QED  BY <1>1, <1>2, <1>4, <2>1, <2>2 DEF IInv, Apart
<1>6. Somewhere'
  <2>. SUFFICES ASSUME NEW m \in 1 .. allocated + 1
                PROVE  \/ m \in freed
                       \/ m = msg
                       \/ \E t \in Senders : cmd'[t] = m
                       \/ \E i \in 1 .. message_num : Window[i] = m
    BY <1>1, <1>2 DEF Somewhere
  <2>1. CASE m = allocated + 1
    BY <1>4, <2>1
  <2>2. CASE m # allocated + 1
    <3>1. m \in 1 .. allocated /\ m # NULL
      BY <1>2, <2>2 DEF NULL
    <3>. QED  BY <1>2, <1>4, <3>1 DEF IInv, Somewhere
  <2>. QED  BY <2>1, <2>2
<1>. QED
  BY <1>1, <1>3, <1>5, <1>6 DEF IInv

\* While it waits, a sender keeps its command.
LEMMA WaitIInv ==
  ASSUME IInv, NEW s \in Senders, Test(s) \/ Slept(s)
  PROVE  IInv'
<1>1. RingOK' /\ Window' = Window /\ message_num' = message_num
  BY RingUnchanged DEF IInv, Test, Slept, ring
<1>2. cmd' = cmd /\ msg' = msg /\ freed' = freed /\ allocated' = allocated
  BY DEF Test, Slept
<1>3. SendersOK'
  <2>1. pc[s] # "idle" /\ \E v \in {"test", "slept", "lock"} : pc' = [pc EXCEPT ![s] = v]
    BY DEF Test, Slept
  <2>. QED  BY <1>2, <2>1 DEF IInv, SendersOK
<1>. QED
  BY <1>1, <1>2, <1>3 DEF IInv, Apart, Somewhere

\* The control thread frees the command it has.
LEMMA FreeIInv ==
  ASSUME IInv, Free
  PROVE  IInv'
<1>1. RingOK' /\ Window' = Window /\ message_num' = message_num
  BY RingUnchanged DEF IInv, Free, ring
<1>2. /\ cmd' = cmd /\ pc' = pc /\ msg' = NULL /\ freed' = freed \cup {msg} /\ allocated' = allocated
      /\ msg # NULL
  BY DEF Free, senders
<1>3. SendersOK'
  BY <1>2 DEF IInv, SendersOK, NULL
<1>4. Apart'
  <2>1. NULL \notin freed'
    BY <1>2 DEF IInv, SendersOK, NULL
  <2>2. \A i \in 1 .. message_num : Window[i] # NULL
    BY DEF IInv, Apart, NULL
  <2>. QED  BY <1>1, <1>2, <2>1, <2>2 DEF IInv, Apart
<1>5. Somewhere'
  BY <1>1, <1>2 DEF IInv, Somewhere
<1>. QED
  BY <1>1, <1>3, <1>4, <1>5 DEF IInv

\* What a sender gives up when it has put its command into the ring.
LEMMA PutSenders ==
  ASSUME SendersOK, NEW s \in Senders, pc[s] = "lock", Put(s)
  PROVE  /\ cmd[s] \in 1 .. allocated /\ cmd[s] \in 0 .. MaxSends
         /\ \A t \in Senders : cmd'[t] = IF t = s THEN NULL ELSE cmd[t]
         /\ msg' = msg /\ allocated' = allocated
         /\ freed' \subseteq 1 .. allocated => SendersOK'
<1>1. cmd[s] # NULL /\ cmd[s] \in 0 .. allocated /\ allocated \in 0 .. MaxSends
  BY DEF SendersOK
<1>2. cmd[s] \in 1 .. allocated /\ cmd[s] \in 0 .. MaxSends
  BY <1>1, Positive DEF NULL
<1>3. \A t \in Senders : cmd'[t] = IF t = s THEN NULL ELSE cmd[t]
  BY DEF SendersOK, Put
<1>4. msg' = msg /\ allocated' = allocated
  BY DEF Put
<1>5. ASSUME freed' \subseteq 1 .. allocated PROVE SendersOK'
  <2>1. cmd' \in [Senders -> 0 .. allocated]
    BY <1>1 DEF SendersOK, Put, NULL
  <2>2. /\ pc' \in [Senders -> {"idle", "test", "slept", "lock"}]
        /\ \A t \in Senders : pc'[t] = "idle" <=> cmd'[t] = NULL
    BY <1>3 DEF SendersOK, Put
  <2>. QED  BY <1>4, <1>5, <2>1, <2>2 DEF SendersOK
<1>. QED
  BY <1>2, <1>3, <1>4, <1>5

\* The command changes hands: the sender's is the last one of the ring.
LEMMA InsertIInv ==
  ASSUME IInv, NEW s \in Senders, Insert(s)
  PROVE  IInv'
<1>1. /\ cmd[s] \in 1 .. allocated /\ cmd[s] \in 0 .. MaxSends
      /\ \A t \in Senders : cmd'[t] = IF t = s THEN NULL ELSE cmd[t]
      /\ msg' = msg /\ allocated' = allocated /\ freed' = freed
      /\ message_num' = message_num + 1
      /\ SendersOK'
  BY PutSenders DEF IInv, Insert, SendersOK
<1>2. /\ RingOK'
      /\ \A i \in 1 .. message_num : Window'[i] = Window[i]
      /\ Window'[message_num + 1] = cmd[s]
  BY <1>1, InsertWindow DEF IInv
<1>3. message_num \in Nat
  BY Positive DEF IInv, RingOK
<1>4. \A i \in 1 .. message_num + 1 : i = message_num + 1 \/ i \in 1 .. message_num
  BY <1>3
<1>5. Apart'
  <2>1. ASSUME NEW i \in 1 .. message_num + 1
        PROVE  /\ Window'[i] \in (1 .. allocated) \ freed
               /\ Window'[i] # msg
               /\ \A t \in Senders : Window'[i] # cmd'[t]
               /\ \A j \in 1 .. message_num + 1 : Window'[i] = Window'[j] => i = j
    <3>1. CASE i = message_num + 1
      <4>1. Window'[i] = cmd[s]
        BY <1>2, <3>1
      <4>2. cmd[s] \notin freed /\ cmd[s] # msg
        BY <1>1 DEF IInv, Apart, NULL
      <4>3. \A t \in Senders : cmd[s] # cmd'[t]
        BY <1>1 DEF IInv, Apart, NULL
      <4>4. \A j \in 1 .. message_num : Window'[j] # cmd[s]
        BY <1>2 DEF IInv, Apart
      <4>. QED  BY <1>1, <1>4, <3>1, <4>1, <4>2, <4>3, <4>4
    <3>2. CASE i \in 1 .. message_num
      <4>1. /\ Window'[i] = Window[i] /\ Window[i] \in (1 .. allocated) \ freed
            /\ Window[i] # msg /\ \A t \in Senders : Window[i] # cmd[t]
        BY <1>2, <3>2 DEF IInv, Apart
      <4>2. \A t \in Senders : Window'[i] # cmd'[t]
        BY <1>1, <4>1 DEF NULL
      <4>3. \A j \in 1 .. message_num : Window'[i] = Window'[j] => i = j
        BY <1>2, <3>2 DEF IInv, Apart
      <4>4. Window'[i] # Window'[message_num + 1]
        BY <1>2, <4>1
      <4>. QED  BY <1>4, <4>1, <4>2, <4>3, <4>4
    <3>. QED  BY <1>4, <3>1, <3>2
  <2>2. ASSUME NEW t \in Senders
        PROVE  /\ cmd'[t] \notin freed
               /\ cmd'[t] # NULL => cmd'[t] # msg
               /\ \A u \in Senders : cmd'[t] # NULL /\ cmd'[t] = cmd'[u] => t = u
    BY <1>1 DEF IInv, Apart, SendersOK, NULL
  <2>3. msg \notin freed
    BY DEF IInv, Apart
  <2>. QED  BY <1>1, <2>1, <2>2, <2>3 DEF Apart
<1>6. Somewhere'
  <2>. SUFFICES ASSUME NEW m \in 1 .. allocated, m \notin freed, m # msg,
                       \A t \in Senders : cmd'[t] # m
                PROVE  \E i \in 1 .. message_num + 1 : Window'[i] = m
    BY <1>1 DEF Somewhere
  <2>1. CASE m = cmd[s]
    BY <1>2, <1>3, <2>1
  <2>2. CASE m # cmd[s]
    <3>1. \E i \in 1 .. message_num : Window[i] = m
      BY <1>1, <2>2 DEF IInv, Somewhere
    <3>. QED  BY <1>2, <1>3, <3>1
  <2>. QED  BY <2>1, <2>2
<1>. QED
  BY <1>1, <1>2, <1>5, <1>6 DEF IInv

\* The first command of the ring is freed, the others move up, and the
\* sender's is the last one.
LEMMA InsertFullIInv ==
  ASSUME IInv, NEW s \in Senders, InsertFull(s)
  PROVE  IInv'
<1>. DEFINE N == MESSAGE_NUM_MAX
<1>1. /\ cmd[s] \in 1 .. allocated /\ cmd[s] \in 0 .. MaxSends
      /\ \A t \in Senders : cmd'[t] = IF t = s THEN NULL ELSE cmd[t]
      /\ msg' = msg /\ allocated' = allocated
      /\ freed' \subseteq 1 .. allocated => SendersOK'
  BY PutSenders DEF IInv, InsertFull
<1>2. /\ RingOK'
      /\ message_num = N /\ message_num' = N
      /\ freed' = freed \cup {Window[1]}
      /\ \A i \in 1 .. N - 1 : Window'[i] = Window[i + 1]
      /\ Window'[N] = cmd[s]
  BY <1>1, InsertFullWindow DEF IInv, InsertFull
<1>3. /\ 1 \in 1 .. N /\ N \in 1 .. N
      /\ \A i \in 1 .. N - 1 : i + 1 \in 1 .. N /\ i + 1 # 1
      /\ \A i \in 1 .. N : i = N \/ i \in 1 .. N - 1
  BY Positive
<1>4. SendersOK'
  <2>1. Window[1] \in 1 .. allocated
    BY <1>2, <1>3 DEF IInv, Apart
  <2>. QED  BY <1>1, <1>2, <2>1, Zenon DEF IInv, SendersOK
<1>5. Apart'
  <2>1. ASSUME NEW i \in 1 .. N
        PROVE  /\ Window'[i] \in (1 .. allocated) \ freed'
               /\ Window'[i] # msg
               /\ \A t \in Senders : Window'[i] # cmd'[t]
               /\ \A j \in 1 .. N : Window'[i] = Window'[j] => i = j
    <3>1. CASE i = N
      <4>1. Window'[i] = cmd[s]
        BY <1>2, <3>1
      <4>2. cmd[s] \notin freed' /\ cmd[s] # msg
        BY <1>1, <1>2, <1>3 DEF IInv, Apart, NULL
      <4>3. \A t \in Senders : cmd[s] # cmd'[t]
        BY <1>1 DEF IInv, Apart, NULL
      <4>4. \A j \in 1 .. N - 1 : Window'[j] # cmd[s]
        BY <1>2, <1>3 DEF IInv, Apart
      <4>. QED  BY <1>1, <1>3, <3>1, <4>1, <4>2, <4>3, <4>4
    <3>2. CASE i \in 1 .. N - 1
      <4>1. /\ Window'[i] = Window[i + 1] /\ i + 1 \in 1 .. N
            /\ Window[i + 1] \in (1 .. allocated) \ freed
            /\ Window[i + 1] # msg /\ \A t \in Senders : Window[i + 1] # cmd[t]
        BY <1>2, <1>3, <3>2 DEF IInv, Apart
      <4>2. \A t \in Senders : Window'[i] # cmd'[t]
        BY <1>1, <4>1 DEF NULL
      <4>3. ASSUME NEW j \in 1 .. N - 1, Window'[i] = Window'[j] PROVE i = j
        <5>1. i + 1 = j + 1
          BY <1>2, <1>3, <3>2, <4>3 DEF IInv, Apart
        <5>. QED  BY <5>1, <3>2
      <4>4. Window'[i] # Window'[N]
        BY <1>2, <4>1
      <4>5. Window[i + 1] # Window[1]
        BY <1>2, <1>3, <3>2 DEF IInv, Apart
      <4>. QED  BY <1>2, <1>3, <4>1, <4>2, <4>3, <4>4, <4>5
    <3>. QED  BY <1>3, <3>1, <3>2
  <2>2. ASSUME NEW t \in Senders
        PROVE  /\ cmd'[t] \notin freed'
               /\ cmd'[t] # NULL => cmd'[t] # msg
               /\ \A u \in Senders : cmd'[t] # NULL /\ cmd'[t] = cmd'[u] => t = u
    <3>1. NULL \notin freed'
      BY <1>2, <1>3 DEF IInv, Apart, SendersOK, NULL
    <3>2. cmd[t] \notin freed'
      BY <1>2, <1>3 DEF IInv, Apart
    <3>. QED  BY <1>1, <3>1, <3>2 DEF IInv, Apart
  <2>3. msg \notin freed'
    BY <1>2, <1>3 DEF IInv, Apart
  <2>. QED  BY <1>1, <1>2, <2>1, <2>2, <2>3 DEF Apart
<1>6. Somewhere'
  <2>. SUFFICES ASSUME NEW m \in 1 .. allocated, m \notin freed', m # msg,
                       \A t \in Senders : cmd'[t] # m
                PROVE  \E i \in 1 .. N : Window'[i] = m
    BY <1>1, <1>2 DEF Somewhere
  <2>1. CASE m = cmd[s]
    BY <1>2, <1>3, <2>1
  <2>2. CASE m # cmd[s]
    <3>1. PICK i \in 1 .. N : Window[i] = m
      BY <1>1, <1>2, <2>2 DEF IInv, Somewhere
    <3>2. i # 1
      BY <1>2, <3>1
    <3>3. i - 1 \in 1 .. N - 1 /\ i - 1 \in 1 .. N /\ (i - 1) + 1 = i
      BY <3>2, Positive
    <3>. QED  BY <1>2, <3>1, <3>3
  <2>. QED  BY <2>1, <2>2
<1>. QED
  BY <1>2, <1>4, <1>5, <1>6 DEF IInv

\* The first command of the ring is the control thread's, the others move up.
LEMMA GetIInv ==
  ASSUME IInv, Get
  PROVE  IInv'
<1>. DEFINE n == message_num
<1>1. /\ RingOK'
      /\ \A i \in 1 .. n - 1 : Window'[i] = Window[i + 1]
      /\ msg' = Window[1]
  BY GetWindow DEF IInv
<1>2. /\ n \in Nat \ {0} /\ message_num' = n - 1 /\ msg = NULL
      /\ cmd' = cmd /\ pc' = pc /\ freed' = freed /\ allocated' = allocated
  BY Positive DEF IInv, RingOK, Get, senders
<1>3. 1 \in 1 .. n /\ \A i \in 1 .. n - 1 : i + 1 \in 1 .. n /\ i + 1 # 1
  BY <1>2
<1>4. SendersOK'
  <2>1. Window[1] \in 0 .. allocated
    BY <1>3 DEF IInv, Apart
  <2>. QED  BY <1>1, <1>2, <2>1 DEF IInv, SendersOK
<1>5. Apart'
  <2>1. ASSUME NEW i \in 1 .. n - 1
        PROVE  /\ Window'[i] \in (1 .. allocated) \ freed
               /\ Window'[i] # Window[1]
               /\ \A t \in Senders : Window'[i] # cmd[t]
               /\ \A j \in 1 .. n - 1 : Window'[i] = Window'[j] => i = j
    <3>1. \A j \in 1 .. n - 1 : Window'[i] = Window'[j] => i + 1 = j + 1
      BY <1>1, <1>3 DEF IInv, Apart
    <3>2. \A j \in 1 .. n - 1 : i + 1 = j + 1 => i = j
      BY <1>2
    <3>. QED  BY <1>1, <1>3, <3>1, <3>2 DEF IInv, Apart
  <2>2. /\ Window[1] \notin freed
        /\ \A t \in Senders : Window[1] # cmd[t]
    BY <1>3 DEF IInv, Apart
  <2>. QED  BY <1>1, <1>2, <2>1, <2>2 DEF IInv, Apart
<1>6. Somewhere'
  <2>. SUFFICES ASSUME NEW m \in 1 .. allocated, m \notin freed, m # Window[1],
                       \A t \in Senders : cmd[t] # m
                PROVE  \E i \in 1 .. n - 1 : Window'[i] = m
    BY <1>1, <1>2 DEF Somewhere
  <2>1. m # NULL
    BY DEF NULL
  <2>2. PICK i \in 1 .. n : Window[i] = m
    BY <1>2, <2>1 DEF IInv, Somewhere
  <2>3. i # 1
    BY <2>2
  <2>4. i - 1 \in 1 .. n - 1 /\ (i - 1) + 1 = i
    BY <1>2, <2>3
  <2>. QED  BY <1>1, <2>2, <2>4
<1>. QED
  BY <1>1, <1>4, <1>5, <1>6 DEF IInv

\* Every step keeps the invariant.
LEMMA NextIInv ==
  ASSUME IInv, [Next]_vars
  PROVE  IInv'
<1>1. ASSUME NEW s \in Senders, Alloc(s) PROVE IInv'
  BY <1>1, AllocIInv
<1>2. ASSUME NEW s \in Senders, Send(s) PROVE IInv'
  BY <1>2, WaitIInv, InsertIInv, InsertFullIInv DEF Send
<1>3. CASE Get
  BY <1>3, GetIInv
<1>4. CASE Free
  BY <1>4, FreeIInv
<1>5. CASE UNCHANGED vars
  <2>1. RingOK' /\ Window' = Window /\ message_num' = message_num
    BY <1>5, RingUnchanged DEF IInv, vars, ring
  <2>2. SendersOK'
    BY <1>5 DEF IInv, SendersOK, vars, senders
  <2>. QED  BY <1>5, <2>1, <2>2 DEF IInv, Apart, Somewhere, vars, senders
<1>. QED
  BY <1>1, <1>2, <1>3, <1>4, <1>5 DEF Next

\* The invariant holds throughout.
LEMMA Inductive == Spec => []IInv
<1>1. Init => IInv
  BY InitIInv
<1>2. IInv /\ [Next]_vars => IInv'
  BY NextIInv
<1>. QED
  BY <1>1, <1>2, PTL DEF Spec

-----------------------------------------------------------------------------
(* What the pool promises.                                                  *)

\* The invariant leaves one place for each command.
LEMMA IInvAccounted == IInv => Accounted
<1>. SUFFICES ASSUME IInv, NEW m \in 1 .. allocated
              PROVE  LET withSender == {s \in Senders : cmd[s] = m}
                         inRing == {i \in 1 .. message_num : Window[i] = m}
                     IN  \/ m \in freed /\ withSender = {} /\ inRing = {} /\ msg # m
                         \/ m \notin freed /\ msg = m /\ withSender = {} /\ inRing = {}
                         \/ m \notin freed /\ msg # m /\ inRing = {} /\ \E s \in Senders : withSender = {s}
                         \/ m \notin freed /\ msg # m /\ withSender = {} /\ \E i \in 1 .. message_num : inRing = {i}
  BY DEF Accounted
<1>. DEFINE withSender == {s \in Senders : cmd[s] = m}
            inRing == {i \in 1 .. message_num : Window[i] = m}
<1>0. m # NULL
  BY DEF NULL
<1>1. CASE m \in freed
  <2>1. withSender = {} /\ inRing = {} /\ msg # m
    BY <1>1 DEF IInv, Apart
  <2>. QED  BY <1>1, <2>1
<1>2. CASE m = msg
  <2>1. withSender = {} /\ inRing = {} /\ m \notin freed
    BY <1>0, <1>2 DEF IInv, Apart
  <2>. QED  BY <1>2, <2>1
<1>3. ASSUME NEW s \in Senders, cmd[s] = m
      PROVE  m \notin freed /\ msg # m /\ inRing = {} /\ withSender = {s}
  BY <1>0, <1>3 DEF IInv, Apart
<1>4. ASSUME NEW i \in 1 .. message_num, Window[i] = m
      PROVE  m \notin freed /\ msg # m /\ withSender = {} /\ inRing = {i}
  BY <1>4 DEF IInv, Apart
<1>5. \/ m \in freed \/ m = msg
      \/ \E s \in Senders : cmd[s] = m
      \/ \E i \in 1 .. message_num : Window[i] = m
  BY DEF IInv, Somewhere
<1>. QED
  BY <1>1, <1>2, <1>3, <1>4, <1>5

\* Every command that adec_message_alloc gave out is in exactly one place: with
\* its sender, in one slot of the ring, with the control thread, or freed.  A
\* ring that drops its oldest command frees that one and no other.
THEOREM EveryCommandAccounted == Spec => []Accounted
BY Inductive, IInvAccounted, PTL

\* The first state is the empty queue.
LEMMA InitQueue == Init => Queue!Init
<1>. SUFFICES ASSUME Init PROVE Window = <<>>
  BY DEF Queue!Init
<1>1. RingOK /\ message_num = 0
  BY InitIInv DEF IInv, Init
<1>2. Window \in Seq(0 .. MaxSends) /\ Len(Window) = 0
  BY <1>1, WindowSeq
<1>. QED
  BY <1>2, EmptySeq

\* adec_send_message is the Put of the queue, adec_get_message its Get, and
\* every other step leaves the queue alone.
LEMMA NextQueue ==
  ASSUME IInv, [Next]_vars
  PROVE  [Queue!Next]_Window
<1>1. ASSUME NEW s \in Senders, Alloc(s) \/ Test(s) \/ Slept(s)
      PROVE  Window' = Window
  BY <1>1, RingUnchanged DEF IInv, Alloc, Test, Slept, ring
<1>2. CASE Free \/ UNCHANGED vars
  BY <1>2, RingUnchanged DEF IInv, Free, vars, ring
<1>3. Len(Window) = message_num /\ Window \in Seq(0 .. MaxSends)
  BY WindowSeq DEF IInv
<1>4. ASSUME NEW s \in Senders, Insert(s) \/ InsertFull(s)
      PROVE  Queue!Next
  <2>1. cmd[s] \in 1 .. allocated /\ cmd[s] \in 0 .. MaxSends /\ cmd[s] \in Commands
    <3>1. cmd[s] \in 1 .. allocated /\ cmd[s] \in 0 .. MaxSends
      BY <1>4, PutSenders DEF IInv, Insert, InsertFull
    <3>. QED  BY <3>1, Positive DEF IInv, SendersOK, Commands
  <2>2. CASE Insert(s)
    <3>1. Window' = Append(Window, cmd[s])
      BY <2>1, <2>2, InsertWindow DEF IInv
    <3>2. Len(Window) # MESSAGE_NUM_MAX
      BY <1>3, <2>2, Positive DEF Insert
    <3>. QED  BY <2>1, <3>1, <3>2 DEF Queue!Next, Queue!Put
  <2>3. CASE InsertFull(s)
    <3>1. Window' = Append(Tail(Window), cmd[s]) /\ message_num = MESSAGE_NUM_MAX
      BY <2>1, <2>3, InsertFullWindow DEF IInv
    <3>. QED  BY <1>3, <2>1, <3>1 DEF Queue!Next, Queue!Put
  <2>. QED  BY <1>4, <2>2, <2>3
<1>5. CASE Get
  <2>1. Window # <<>> /\ Window' = Tail(Window)
    BY <1>5, GetWindow DEF IInv
  <2>2. Head(Window) = Window[1] /\ 1 \in 1 .. message_num
    BY <1>3, <2>1, EmptySeq, HeadTailProperties
  <2>3. Window[1] \in Commands
    BY <2>2, Positive DEF IInv, Apart, SendersOK, Commands
  <2>. QED  BY <2>1, <2>2, <2>3 DEF Queue!Next, Queue!Get
<1>. QED
  BY <1>1, <1>2, <1>4, <1>5 DEF Next, Send

\* The ring of adec-message.c is the queue the decoder's control thread is
\* modelled with: first in, first out, and the oldest is lost when it is full.
THEOREM RingImplementsQueue == Spec => RingIsQueue
<1>1. Init => Queue!Init
  BY InitQueue
<1>2. IInv /\ [Next]_vars => [Queue!Next]_Window
  BY NextQueue
<1>. QED
  BY <1>1, <1>2, Inductive, PTL DEF Spec, RingIsQueue, Queue!Spec

\* adec_send_message gives up after as many waits as a full ring allows.
WaitsBounded ==
  \A s \in Senders :
    retry_count[s] \in 0 .. (MESSAGE_NUM_MAX - MESSAGE_NUM_MAX \div 2) * Patience + 1

\* A fuller ring allows more waits.
LEMMA FullerWaitsLonger ==
  ASSUME NEW n \in Nat, NEW N \in Nat, NEW h \in Nat, NEW p \in Nat, n <= N
  PROVE  (n - h) * p \in Int /\ (N - h) * p \in Int /\ (n - h) * p <= (N - h) * p
<1>1. (N - h) * p = (n - h) * p + (N - n) * p
  OBVIOUS
<1>2. (N - n) * p \in Nat
  OBVIOUS
<1>3. (n - h) * p \in Int /\ (N - h) * p \in Int
  OBVIOUS
<1>. QED
  BY <1>1, <1>2, <1>3

\* Whatever the control thread and the other senders do to message_num between
\* two looks, retry_count stops a sender: no call of adec_send_message waits more
\* often than the ring has messages above its half, times Patience, and once more.
THEOREM WaitsAreBounded == Spec => []WaitsBounded
<1>. DEFINE Half == MESSAGE_NUM_MAX \div 2
            Most == (MESSAGE_NUM_MAX - Half) * Patience
            Counts == /\ retry_count \in [Senders -> Nat]
                      /\ \A s \in Senders : retry_count[s] <= Most + 1
<1>1. Half \in Nat /\ Most \in Nat
  <2>1. MESSAGE_NUM_MAX \in Nat /\ Patience \in Nat /\ Half \in Nat
        /\ MESSAGE_NUM_MAX - Half \in Nat
    BY Positive
  <2>. HIDE DEF Half
  <2>. QED  BY <2>1
<1>. HIDE DEF Half, Most
<1>2. Init => Counts
  BY <1>1 DEF Init
<1>3. IInv /\ Counts /\ [Next]_vars => Counts'
  <2>. SUFFICES ASSUME IInv, Counts, [Next]_vars PROVE Counts'
    OBVIOUS
  <2>1. ASSUME NEW s \in Senders, Alloc(s) PROVE Counts'
    BY <1>1, <2>1 DEF Alloc
  <2>2. ASSUME NEW s \in Senders, Slept(s) PROVE Counts'
    <3>1. CASE GivesUp(s)
      BY <2>2, <3>1 DEF Slept
    <3>2. CASE ~GivesUp(s)
      <4>1. retry_count[s] <= Most
        <5>1. message_num \in Nat /\ message_num <= MESSAGE_NUM_MAX
          BY Positive DEF IInv, RingOK
        <5>2. /\ (message_num - Half) * Patience \in Int
              /\ (message_num - Half) * Patience <= Most
          BY <1>1, <5>1, Positive, FullerWaitsLonger DEF Most
        <5>3. ~(retry_count[s] > (message_num - Half) * Patience)
          BY <3>2 DEF GivesUp, Half
        <5>. HIDE DEF Most
        <5>. QED  BY <1>1, <5>2, <5>3
      <4>2. retry_count' = [retry_count EXCEPT ![s] = retry_count[s] + 1]
        BY <2>2, <3>2 DEF Slept, Counted
      <4>. QED  BY <1>1, <4>1, <4>2
    <3>. QED  BY <3>1, <3>2
  <2>3. ASSUME UNCHANGED retry_count PROVE Counts'
    BY <2>3
  <2>4. [\E s \in Senders : Alloc(s) \/ Slept(s)]_retry_count
    BY DEF Next, Send, Test, Insert, InsertFull, Put, Get, Free, senders, vars
  <2>. QED  BY <2>1, <2>2, <2>3, <2>4
<1>4. Counts => WaitsBounded
  BY <1>1 DEF WaitsBounded, Most, Half
<1>. QED
  BY <1>2, <1>3, <1>4, Inductive, PTL DEF Spec

-----------------------------------------------------------------------------
(* The queue of the CEC HAL.                                                *)

\* A set of naturals that is not empty has a least element.
LEMMA LeastExists ==
  ASSUME NEW S, S \subseteq Nat, S # {}
  PROVE  \E x \in S : \A y \in S : x <= y
<1>1. PICK x \in S : \A y \in S : ~(<<y, x>> \in OpToRel(<, Nat))
  BY NatLessThanWellFounded, WFMin, Zenon
<1>2. ASSUME NEW y \in S PROVE x <= y
  <2>1. <<y, x>> \in Nat \X Nat
    OBVIOUS
  <2>2. ~(y < x)
    BY <1>1, <2>1 DEF OpToRel
  <2> QED BY <2>2
<1> QED BY <1>2

\* Induction up to a bound, by the least number for which something fails.
LEMMA Induction ==
  ASSUME NEW N \in Nat, NEW S, 0 \in S, \A n \in 1 .. N : n - 1 \in S => n \in S
  PROVE  0 .. N \subseteq S
<1> SUFFICES ASSUME (0 .. N) \ S # {} PROVE FALSE
  OBVIOUS
<1>1. PICK m \in (0 .. N) \ S : \A y \in (0 .. N) \ S : m <= y
  <2> DEFINE T == (0 .. N) \ S
  <2>1. T \subseteq Nat /\ T # {}
    OBVIOUS
  <2> HIDE DEF T
  <2>2. \E m \in T : \A y \in T : m <= y
    BY <2>1, LeastExists, Zenon
  <2> QED BY <2>2 DEF T
<1>2. m \in 1 .. N /\ m - 1 \in 0 .. N
  BY <1>1
<1>3. m - 1 \in S
  BY <1>1, <1>2
<1> QED BY <1>1, <1>2, <1>3

\* removeMsg up to the n-th message: which messages it removes.
GoneUpTo(g, q, type, n) == g = [i \in 0 .. n |-> i > 0 /\ q[i].type = type /\ ~g[i - 1]]

\* removeMsg up to the n-th message: what it keeps.
KeptUpTo(k, g, q, n) ==
  k = [i \in 0 .. n |-> IF i = 0 THEN <<>>
                        ELSE IF g[i] THEN k[i - 1] ELSE Append(k[i - 1], q[i])]

\* The recursion for the removed messages has a solution.
LEMMA GoneExists ==
  ASSUME NEW q, NEW type, NEW N \in Nat
  PROVE  \E g : GoneUpTo(g, q, type, N)
<1> DEFINE S == {n \in 0 .. N : \E g : GoneUpTo(g, q, type, n)}
<1>1. 0 \in S
  <2> DEFINE g == [i \in 0 .. 0 |-> FALSE]
  <2>1. \A i \in 0 .. 0 : FALSE = (i > 0 /\ q[i].type = type /\ ~g[i - 1])
    OBVIOUS
  <2>2. GoneUpTo(g, q, type, 0)
    BY <2>1, Zenon DEF GoneUpTo
  <2> QED BY <2>2
<1>2. ASSUME NEW n \in 1 .. N, n - 1 \in S PROVE n \in S
  <2>1. PICK g : GoneUpTo(g, q, type, n - 1)
    BY <1>2
  <2> DEFINE h == [i \in 0 .. n |-> i > 0 /\ q[i].type = type /\ ~g[i - 1]]
  <2>2. ASSUME NEW i \in 0 .. n - 1 PROVE h[i] = g[i]
    <3> DEFINE f == [j \in 0 .. n - 1 |-> j > 0 /\ q[j].type = type /\ ~g[j - 1]]
    <3>1. g = f
      BY <2>1, Zenon DEF GoneUpTo
    <3>2. f[i] = h[i]
      OBVIOUS
    <3> QED BY <3>1, <3>2, Zenon
  <2> HIDE DEF h
  <2>3. \A i \in 0 .. n : i > 0 => h[i - 1] = g[i - 1]
    BY <2>2
  <2>4. h = [i \in 0 .. n |-> i > 0 /\ q[i].type = type /\ ~h[i - 1]]
    BY <2>3, Zenon DEF h
  <2> QED BY <2>4 DEF GoneUpTo
<1>3. 0 .. N \subseteq S
  <2> HIDE DEF S
  <2> QED BY <1>1, <1>2, Induction
<1> QED
  BY <1>3

\* The recursion for the kept messages has a solution.
LEMMA KeptExists ==
  ASSUME NEW q, NEW g, NEW N \in Nat
  PROVE  \E k : KeptUpTo(k, g, q, N)
<1> DEFINE S == {n \in 0 .. N : \E k : KeptUpTo(k, g, q, n)}
<1>1. 0 \in S
  <2>1. KeptUpTo([i \in 0 .. 0 |-> <<>>], g, q, 0)
    BY DEF KeptUpTo
  <2> QED BY <2>1
<1>2. ASSUME NEW n \in 1 .. N, n - 1 \in S PROVE n \in S
  <2>1. PICK k : KeptUpTo(k, g, q, n - 1)
    BY <1>2
  <2> DEFINE h == [i \in 0 .. n |-> IF i = 0 THEN <<>>
                                    ELSE IF g[i] THEN k[i - 1] ELSE Append(k[i - 1], q[i])]
  <2>2. ASSUME NEW i \in 0 .. n - 1 PROVE h[i] = k[i]
    <3> DEFINE f == [j \in 0 .. n - 1 |->
                       IF j = 0 THEN <<>>
                       ELSE IF g[j] THEN k[j - 1] ELSE Append(k[j - 1], q[j])]
    <3>1. k = f
      BY <2>1, Zenon DEF KeptUpTo
    <3>2. f[i] = h[i]
      OBVIOUS
    <3> QED BY <3>1, <3>2, Zenon
  <2> HIDE DEF h
  <2>3. \A i \in 0 .. n : i # 0 => h[i - 1] = k[i - 1]
    BY <2>2
  <2>4. h = [i \in 0 .. n |-> IF i = 0 THEN <<>>
                              ELSE IF g[i] THEN h[i - 1] ELSE Append(h[i - 1], q[i])]
    BY <2>3, Zenon DEF h
  <2> QED BY <2>4 DEF KeptUpTo
<1>3. 0 .. N \subseteq S
  <2> HIDE DEF S
  <2> QED BY <1>1, <1>2, Induction
<1> QED
  BY <1>3

\* Removed is what the two recursions compute.
LEMMA RemovedIs ==
  ASSUME NEW type, Len(queue) \in Nat
  PROVE  \E g, k : /\ GoneUpTo(g, queue, type, Len(queue))
                   /\ KeptUpTo(k, g, queue, Len(queue))
                   /\ Removed(type) = k[Len(queue)]
<1> DEFINE gone == CHOOSE g : GoneUpTo(g, queue, type, Len(queue))
           kept == CHOOSE k : KeptUpTo(k, gone, queue, Len(queue))
<1>1. GoneUpTo(gone, queue, type, Len(queue))
  BY GoneExists
<1>2. KeptUpTo(kept, gone, queue, Len(queue))
  BY KeptExists, Zenon
<1>3. Removed(type) = kept[Len(queue)]
  BY DEF Removed, GoneUpTo, KeptUpTo
<1> QED BY <1>1, <1>2, <1>3, Zenon

\* What is kept of the first n messages: messages that are not gone, all of
\* them, in the order they have in q.
KeptOf(r, q, g, n) ==
  /\ \A i \in 1 .. Len(r) : \E a \in 1 .. n : r[i] = q[a] /\ ~g[a]
  /\ \A i, j \in 1 .. Len(r) : i < j => \E a, b \in 1 .. n : a < b /\ r[i] = q[a] /\ r[j] = q[b]
  /\ \A a \in 1 .. n : ~g[a] => \E i \in 1 .. Len(r) : r[i] = q[a]

\* What removeMsg keeps, by induction over the queue.
LEMMA KeptIsKept ==
  ASSUME NEW M, NEW q \in Seq(M), NEW g, NEW k, KeptUpTo(k, g, q, Len(q))
  PROVE  k[Len(q)] \in Seq(M) /\ KeptOf(k[Len(q)], q, g, Len(q))
<1> DEFINE S == {n \in 0 .. Len(q) : k[n] \in Seq(M) /\ KeptOf(k[n], q, g, n)}
<1>1. ASSUME NEW n \in 0 .. Len(q)
      PROVE  k[n] = IF n = 0 THEN <<>>
                    ELSE IF g[n] THEN k[n - 1] ELSE Append(k[n - 1], q[n])
  <2> DEFINE f == [j \in 0 .. Len(q) |-> IF j = 0 THEN <<>>
                                         ELSE IF g[j] THEN k[j - 1] ELSE Append(k[j - 1], q[j])]
  <2>1. k = f
    BY Zenon DEF KeptUpTo
  <2>2. f[n] = IF n = 0 THEN <<>> ELSE IF g[n] THEN k[n - 1] ELSE Append(k[n - 1], q[n])
    OBVIOUS
  <2> QED BY <2>1, <2>2, Zenon
<1>2. 0 \in S
  <2>1. k[0] = <<>>
    <3>1. 0 \in 0 .. Len(q)
      OBVIOUS
    <3> QED BY <1>1, <3>1, Zenon
  <2>2. <<>> \in Seq(M) /\ KeptOf(<<>>, q, g, 0)
    BY DEF KeptOf
  <2>3. 0 \in 0 .. Len(q)
    OBVIOUS
  <2> QED BY <2>1, <2>2, <2>3, Zenon
<1>3. ASSUME NEW n \in 1 .. Len(q), n - 1 \in S PROVE n \in S
  <2>1. k[n - 1] \in Seq(M) /\ KeptOf(k[n - 1], q, g, n - 1) /\ q[n] \in M
    BY <1>3
  <2> DEFINE r == k[n - 1]
  <2>2. CASE g[n]
    <3>1. k[n] = r
      BY <1>1, <2>2
    <3>2. KeptOf(r, q, g, n)
      BY <2>1, <2>2 DEF KeptOf
    <3> QED BY <2>1, <3>1, <3>2
  <2>3. CASE ~g[n]
    <3> DEFINE s == Append(r, q[n])
    <3>0. n \in 0 .. Len(q) /\ n # 0
      OBVIOUS
    <3>1. k[n] = s
      BY <1>1, <2>3, <3>0, Zenon
    <3> HIDE DEF r
    <3>2. r \in Seq(M) /\ KeptOf(r, q, g, n - 1)
      BY <2>1 DEF r
    <3>3. /\ s \in Seq(M) /\ Len(s) = Len(r) + 1 /\ s[Len(r) + 1] = q[n]
          /\ \A i \in 1 .. Len(r) : s[i] = r[i]
      BY <2>1, <3>2
    <3> HIDE DEF s
    <3>4. ASSUME NEW i \in 1 .. Len(s) PROVE \E a \in 1 .. n : s[i] = q[a] /\ ~g[a]
      <4>1. CASE i = Len(r) + 1
        BY <2>3, <3>3, <4>1
      <4>2. CASE i # Len(r) + 1
        <5>1. i \in 1 .. Len(r)
          BY <3>2, <3>3, <4>2
        <5>2. PICK a \in 1 .. n - 1 : r[i] = q[a] /\ ~g[a]
          BY <3>2, <5>1, Zenon DEF KeptOf
        <5> QED BY <3>3, <5>1, <5>2
      <4> QED BY <4>1, <4>2
    <3>5. ASSUME NEW i \in 1 .. Len(s), NEW j \in 1 .. Len(s), i < j
          PROVE  \E a, b \in 1 .. n : a < b /\ s[i] = q[a] /\ s[j] = q[b]
      <4>1. CASE j = Len(r) + 1
        <5>0. i \in 1 .. Len(r)
          BY <3>2, <3>3, <3>5, <4>1
        <5>1. PICK a \in 1 .. n - 1 : r[i] = q[a]
          BY <3>2, <5>0, Zenon DEF KeptOf
        <5>2. s[i] = q[a] /\ s[j] = q[n] /\ a < n
          BY <3>2, <3>3, <3>5, <4>1, <5>1
        <5> QED BY <5>2
      <4>2. CASE j # Len(r) + 1
        <5>1. i \in 1 .. Len(r) /\ j \in 1 .. Len(r)
          <6>1. Len(r) \in Nat /\ Len(s) = Len(r) + 1
            BY <3>2, <3>3
          <6> QED BY <3>5, <4>2, <6>1
        <5>2. PICK a \in 1 .. n - 1, b \in 1 .. n - 1 : a < b /\ r[i] = q[a] /\ r[j] = q[b]
          BY <3>2, <3>5, <5>1 DEF KeptOf
        <5> QED BY <3>3, <5>1, <5>2
      <4> QED BY <4>1, <4>2
    <3>6. ASSUME NEW a \in 1 .. n, ~g[a] PROVE \E i \in 1 .. Len(s) : s[i] = q[a]
      <4>1. CASE a = n
        BY <3>2, <3>3, <4>1
      <4>2. CASE a # n
        <5>0. a \in 1 .. n - 1
          BY <4>2
        <5>1. PICK i \in 1 .. Len(r) : r[i] = q[a]
          BY <3>2, <3>6, <5>0, Zenon DEF KeptOf
        <5> QED BY <3>2, <3>3, <5>1
      <4> QED BY <4>1, <4>2
    <3>7. KeptOf(s, q, g, n)
      BY <3>4, <3>5, <3>6, Zenon DEF KeptOf
    <3> QED BY <3>1, <3>3, <3>7
  <2> QED BY <2>2, <2>3
<1>4. 0 .. Len(q) \subseteq S
  <2>1. Len(q) \in Nat
    OBVIOUS
  <2> HIDE DEF S
  <2> QED BY <1>2, <1>3, <2>1, Induction, Zenon
<1> QED
  BY <1>4

\* r is q with m at place p, before the first message that is due later.
InsertedAt(r, q, m, p) ==
  /\ Len(r) = Len(q) + 1 /\ r[p] = m
  /\ \A i \in 1 .. p - 1 : r[i] = q[i] /\ ~(q[i].when > m.when)
  /\ \A i \in p .. Len(q) : r[i + 1] = q[i]
  /\ p <= Len(q) => q[p].when > m.when

\* sendMsg puts a message before the first that is due later.
LEMMA InsertedIs ==
  ASSUME NEW M, queue \in Seq(M), NEW m \in M, NEW r, r = Inserted(m)
  PROVE  r \in Seq(M) /\ \E p \in 1 .. Len(queue) + 1 : InsertedAt(r, queue, m, p)
<1> DEFINE later == {i \in 1 .. Len(queue) : queue[i].when > m.when}
           p == IF later = {} THEN Len(queue) + 1
                ELSE CHOOSE i \in later : \A j \in later : i <= j
<1>1. r = SubSeq(queue, 1, p - 1) \o <<m>> \o SubSeq(queue, p, Len(queue))
  BY Zenon DEF Inserted
<1>2. /\ p \in 1 .. Len(queue) + 1 /\ Len(queue) \in Nat
      /\ \A i \in 1 .. p - 1 : ~(queue[i].when > m.when)
      /\ p <= Len(queue) => queue[p].when > m.when
  <2>1. CASE later = {}
    BY <2>1
  <2>2. CASE later # {}
    <3>1. \E i \in later : \A j \in later : i <= j
      <4>1. later \subseteq Nat
        OBVIOUS
      <4> HIDE DEF later
      <4> QED BY <2>2, <4>1, LeastExists, Zenon
    <3>2. p \in later /\ \A j \in later : p <= j
      <4> HIDE DEF later
      <4> QED BY <2>2, <3>1, Zenon
    <3> HIDE DEF p
    <3> QED BY <3>2
  <2> QED BY <2>1, <2>2, Zenon
<1> HIDE DEF p
<1> DEFINE a == SubSeq(queue, 1, p - 1)
           b == SubSeq(queue, p, Len(queue))
           c == a \o <<m>>
<1>3. a \in Seq(M) /\ Len(a) = p - 1 /\ \A i \in 1 .. p - 1 : a[i] = queue[i]
  BY <1>2
<1>4. b \in Seq(M) /\ Len(b) = Len(queue) - p + 1
      /\ \A i \in 1 .. Len(queue) - p + 1 : b[i] = queue[p + i - 1]
  BY <1>2
<1>5. r = c \o b
  BY <1>1
<1> HIDE DEF a, b
<1>6. c \in Seq(M) /\ Len(c) = p /\ c[p] = m /\ \A i \in 1 .. p - 1 : c[i] = a[i]
  BY <1>2, <1>3
<1> HIDE DEF c
<1>7. /\ r \in Seq(M) /\ Len(r) = Len(c) + Len(b)
      /\ \A i \in 1 .. Len(c) + Len(b) : r[i] = IF i <= Len(c) THEN c[i] ELSE b[i - Len(c)]
  <2>1. c \in Seq(M) /\ b \in Seq(M)
    BY <1>4, <1>6
  <2> QED BY <1>5, <2>1, ConcatProperties
<1>8. Len(r) = Len(queue) + 1
  BY <1>2, <1>4, <1>6, <1>7
<1>9. ASSUME NEW i \in 1 .. p PROVE r[i] = c[i]
  <2>1. i \in 1 .. Len(c) + Len(b) /\ i <= Len(c)
    BY <1>2, <1>4, <1>6
  <2> QED BY <1>7, <2>1, Zenon
<1>10. ASSUME NEW i \in p .. Len(queue) PROVE r[i + 1] = queue[i]
  <2> DEFINE j == i + 1
  <2>1. /\ j \in 1 .. Len(c) + Len(b) /\ ~(j <= Len(c)) /\ j - p \in 1 .. Len(queue) - p + 1
        /\ p + (j - p) - 1 = i
    BY <1>2, <1>4, <1>6
  <2> HIDE DEF j
  <2>2. r[j] = b[j - p]
    BY <1>6, <1>7, <2>1, Zenon
  <2>3. b[j - p] = queue[p + (j - p) - 1]
    BY <1>4, <2>1, Zenon
  <2> QED BY <2>1, <2>2, <2>3 DEF j
<1>11. r[p] = m /\ \A i \in 1 .. p - 1 : r[i] = queue[i]
  BY <1>2, <1>3, <1>6, <1>9
<1>12. InsertedAt(r, queue, m, p)
  BY <1>2, <1>8, <1>10, <1>11 DEF InsertedAt
<1> QED BY <1>2, <1>7, <1>12

-----------------------------------------------------------------------------
\* A message of the queue.
Message == [id : 1 .. MaxSent, type : Types, when : Times]

\* A message is due before another, or was sent before it and is due with it.
Before(m, n) == m.when < n.when \/ (m.when = n.when /\ m.id < n.id)

\* The queue is in the order of the due times, and of sending for equal ones.
InOrder ==
  /\ \A i \in 1 .. Len(queue) : queue[i].id <= sent
  /\ \A i, j \in 1 .. Len(queue) : i < j => Before(queue[i], queue[j])

\* A replaced type is in the queue at most once, and not at all between the
\* removal and the sending.
OneOfEach ==
  /\ \A i, j \in 1 .. Len(queue) :
       i < j /\ queue[i].type \in Replaced => queue[i].type # queue[j].type
  /\ monitor # Idle => \A i \in 1 .. Len(queue) : queue[i].type # monitor

\* The loop sleeps without a timeout only while there is nothing to handle.
Awake == looper = "wait" => queue = <<>>

\* Neither the queue nor the thread's hands hold a message that was taken back,
\* and none is taken back before it is sent.
KeptBack ==
  /\ \A i \in 1 .. Len(queue) : [type |-> queue[i].type, id |-> queue[i].id] \notin withdrawn
  /\ looper = "handle" => [type |-> head.type, id |-> head.id] \notin withdrawn
  /\ \A m \in withdrawn : m.id <= sent

\* The inductive invariant.
CecInv == QueueTypeOK /\ InOrder /\ OneOfEach /\ Awake

\* What the loop's local message is.
LocalMessage == Message \cup {NoMessage}

\* What the constants are.
LEMMA CecConstants ==
  /\ Replaced \cap Added = {} /\ Idle \notin Replaced
  /\ Delays \subseteq Nat /\ MaxSent \in Nat /\ MaxTime \in Nat
BY QueueAssumption DEF QueueAssumption

\* What the fields of a message are.
LEMMA MessageTypes ==
  ASSUME NEW q \in Seq(Message), NEW i \in 1 .. Len(q)
  PROVE  q[i] \in Message /\ q[i].when \in Times /\ q[i].when \in Int /\ q[i].id \in Int
<1>1. q[i] \in Message
  OBVIOUS
<1> QED BY <1>1 DEF Message, Times

\* The invariant holds at first.
LEMMA CecInit == ASSUME QueueInit PROVE CecInv
<1>1. QueueTypeOK
  <2>1. 0 \in Times /\ 0 \in 0 .. MaxSent
    BY CecConstants DEF Times
  <2>2. queue \in Seq([id : 1 .. MaxSent, type : Types, when : Times])
    BY DEF QueueInit
  <2> QED BY <2>1, <2>2, Zenon DEF QueueInit, QueueTypeOK
<1> QED
  BY <1>1 DEF QueueInit, CecInv, InOrder, OneOfEach, Awake

\* r is q without the messages of a type: all others, in their order.
Without(r, q, type) ==
  /\ \A i \in 1 .. Len(r) : r[i].type # type /\ \E a \in 1 .. Len(q) : r[i] = q[a]
  /\ \A i, j \in 1 .. Len(r) : i < j =>
       \E a, b \in 1 .. Len(q) : a < b /\ r[i] = q[a] /\ r[j] = q[b]
  /\ \A a \in 1 .. Len(q) : q[a].type # type => \E i \in 1 .. Len(r) : r[i] = q[a]

\* No two messages of a replaced type are in the queue, so stepping over the next
\* one misses none: removeMsg removes the type, and nothing else.
LEMMA RemovedOnly ==
  ASSUME CecInv, NEW type \in Replaced, NEW r, r = Removed(type)
  PROVE  r \in Seq(Message) /\ Without(r, queue, type)
<1> DEFINE N == Len(queue)
<1>1. queue \in Seq(Message) /\ N \in Nat
  BY DEF CecInv, QueueTypeOK, Message
<1>2. PICK g, k : GoneUpTo(g, queue, type, N) /\ KeptUpTo(k, g, queue, N) /\ r = k[N]
  BY <1>1, RemovedIs
<1>3. r \in Seq(Message) /\ KeptOf(r, queue, g, N)
  BY <1>1, <1>2, KeptIsKept, Zenon
<1>4. ASSUME NEW a \in 0 .. N
      PROVE  g[a] = (a > 0 /\ queue[a].type = type /\ ~g[a - 1])
  <2> DEFINE f == [i \in 0 .. N |-> i > 0 /\ queue[i].type = type /\ ~g[i - 1]]
  <2>1. g = f
    BY <1>2, Zenon DEF GoneUpTo
  <2>2. f[a] = (a > 0 /\ queue[a].type = type /\ ~g[a - 1])
    OBVIOUS
  <2> QED BY <2>1, <2>2, Zenon
<1>5. ASSUME NEW a \in 1 .. N, queue[a].type = type PROVE g[a]
  <2>1. ~g[a - 1]
    <3>1. CASE a = 1
      <4>1. 0 \in 0 .. N /\ ~(0 > 0) /\ a - 1 = 0
        BY <1>1, <3>1
      <4> QED BY <1>4, <4>1, Zenon
    <3>2. CASE a # 1
      <4>1. a - 1 \in 1 .. N /\ a - 1 \in 0 .. N /\ a - 1 < a
        BY <1>1, <3>2
      <4>2. queue[a - 1].type # type
        BY <1>5, <4>1 DEF CecInv, OneOfEach
      <4> QED BY <1>4, <4>1, <4>2, Zenon
    <3> QED BY <3>1, <3>2
  <2>2. a \in 0 .. N /\ a > 0
    BY <1>1
  <2> QED BY <1>4, <1>5, <2>1, <2>2, Zenon
<1>6. ASSUME NEW a \in 1 .. N, queue[a].type # type PROVE ~g[a]
  <2>1. a \in 0 .. N
    BY <1>1
  <2> QED BY <1>4, <1>6, <2>1, Zenon
<1>7. ASSUME NEW i \in 1 .. Len(r)
      PROVE  r[i].type # type /\ \E a \in 1 .. N : r[i] = queue[a]
  <2>1. PICK a \in 1 .. N : r[i] = queue[a] /\ ~g[a]
    BY <1>3, Zenon DEF KeptOf
  <2> QED BY <1>5, <2>1, Zenon
<1>8. \A a \in 1 .. N : queue[a].type # type => \E i \in 1 .. Len(r) : r[i] = queue[a]
  BY <1>3, <1>6, Zenon DEF KeptOf
<1> QED
  BY <1>3, <1>7, <1>8, Zenon DEF KeptOf, Without

\* A removal keeps the order and the uniqueness.
LEMMA RemoveKeeps ==
  ASSUME CecInv, NEW type \in Replaced, queue' = Removed(type), sent' = sent
  PROVE  /\ queue' \in Seq(Message)
         /\ InOrder'
         /\ monitor' \in {monitor, type} => OneOfEach'
<1>1. /\ queue' \in Seq(Message)
      /\ \A i \in 1 .. Len(queue') :
           queue'[i].type # type /\ \E a \in 1 .. Len(queue) : queue'[i] = queue[a]
      /\ \A i, j \in 1 .. Len(queue') : i < j =>
           \E a, b \in 1 .. Len(queue) : a < b /\ queue'[i] = queue[a] /\ queue'[j] = queue[b]
  <2>1. queue' \in Seq(Message) /\ Without(queue', queue, type)
    BY RemovedOnly, Zenon
  <2> QED BY <2>1, Zenon DEF Without
<1>2. InOrder'
  <2>1. ASSUME NEW i \in 1 .. Len(queue') PROVE queue'[i].id <= sent'
    BY <1>1 DEF CecInv, InOrder
  <2>2. ASSUME NEW i \in 1 .. Len(queue'), NEW j \in 1 .. Len(queue'), i < j
        PROVE  Before(queue'[i], queue'[j])
    <3>1. PICK a \in 1 .. Len(queue), b \in 1 .. Len(queue) :
            a < b /\ queue'[i] = queue[a] /\ queue'[j] = queue[b]
      BY <1>1, <2>2, Zenon
    <3> QED BY <3>1 DEF CecInv, InOrder
  <2> QED BY <2>1, <2>2 DEF InOrder
<1>3. ASSUME monitor' \in {monitor, type} PROVE OneOfEach'
  <2>1. ASSUME NEW i \in 1 .. Len(queue'), NEW j \in 1 .. Len(queue'), i < j,
               queue'[i].type \in Replaced
        PROVE  queue'[i].type # queue'[j].type
    <3>1. PICK a \in 1 .. Len(queue), b \in 1 .. Len(queue) :
            a < b /\ queue'[i] = queue[a] /\ queue'[j] = queue[b]
      BY <1>1, <2>1, Zenon
    <3> QED BY <2>1, <3>1 DEF CecInv, OneOfEach
  <2>2. ASSUME monitor' # Idle, NEW i \in 1 .. Len(queue') PROVE queue'[i].type # monitor'
    <3>1. PICK a \in 1 .. Len(queue) : queue'[i] = queue[a]
      BY <1>1, Zenon
    <3> QED BY <1>1, <1>3, <2>2, <3>1 DEF CecInv, OneOfEach
  <2> QED BY <2>1, <2>2 DEF OneOfEach, Idle
<1> QED BY <1>1, <1>2, <1>3

\* A signal, or none, keeps the types of the loop.
LEMMA SignalTypes ==
  ASSUME QueueTypeOK, Signal \/ UNCHANGED loopVars
  PROVE  /\ looper' \in {"exit?", "empty?", "wait", "size", "head", "delay", "timed",
                     "size2", "take", "handle", "exited", "aborted"}
         /\ head' \in LocalMessage /\ until' \in Times
BY DEF QueueTypeOK, Signal, loopVars, LocalMessage, Message

\* The monitor or a client removes a message.
LEMMA RemovesKeeps ==
  ASSUME CecInv, NEW type \in Replaced,
         MonitorRemoves(type) \/ ClientRemoves(type)
  PROVE  CecInv'
<1>1. /\ queue' = Removed(type) /\ sent' = sent /\ now' = now /\ exit' = exit
      /\ monitor' \in {monitor, type}
      /\ withdrawn' \in {withdrawn, withdrawn \cup SentBefore(type)}
      /\ Signal \/ UNCHANGED loopVars
  BY DEF MonitorRemoves, ClientRemoves, removeMsg
<1>2. queue' \in Seq(Message) /\ InOrder' /\ OneOfEach'
  BY <1>1, RemoveKeeps
<1>3. monitor' \in Replaced \cup {Idle}
  BY <1>1 DEF CecInv, QueueTypeOK
<1>6. withdrawn' \subseteq [type : Replaced, id : 1 .. MaxSent]
  <2>1. SentBefore(type) \subseteq [type : Replaced, id : 1 .. MaxSent]
    BY CecConstants DEF SentBefore, CecInv, QueueTypeOK
  <2> QED BY <1>1, <2>1 DEF CecInv, QueueTypeOK
<1>4. QueueTypeOK'
  BY <1>1, <1>2, <1>3, <1>6, SignalTypes, Zenon DEF CecInv, QueueTypeOK, Message, LocalMessage
<1>5. Awake'
  BY DEF MonitorRemoves, ClientRemoves, removeMsg, Signal, loopVars, CecInv, Awake
<1> QED BY <1>2, <1>4, <1>5 DEF CecInv

\* The monitor sends a message.
LEMMA SendsKeeps ==
  ASSUME CecInv, NEW type \in Types, NEW delay \in Delays,
         MonitorSends(type, delay)
  PROVE  CecInv'
<1> DEFINE N == Len(queue)
           m == [id |-> sent + 1, type |-> type, when |-> now + delay]
<1>1. /\ sent < MaxSent /\ now + delay <= MaxTime
      /\ queue' = Inserted(m) /\ sent' = sent + 1 /\ Signal
      /\ monitor' = Idle /\ now' = now /\ exit' = exit /\ withdrawn' = withdrawn
      /\ monitor = type \/ type \in Added
  BY DEF MonitorSends, sendMsg
<1>2. queue \in Seq(Message) /\ N \in Nat /\ now \in Times /\ sent \in 0 .. MaxSent
  BY DEF CecInv, QueueTypeOK, Message
<1>3. now + delay \in Times /\ sent + 1 \in 1 .. MaxSent
  BY <1>1, <1>2, CecConstants DEF Times
<1>4. m \in Message
  BY <1>3 DEF Message
<1> HIDE DEF m
<1>5. PICK p \in 1 .. N + 1 :
        /\ queue' \in Seq(Message) /\ Len(queue') = N + 1
        /\ queue'[p] = m
        /\ \A i \in 1 .. p - 1 : queue'[i] = queue[i] /\ ~(queue[i].when > m.when)
        /\ \A i \in p .. N : queue'[i + 1] = queue[i]
        /\ p <= N => queue[p].when > m.when
  <2>1. queue' \in Seq(Message) /\ \E p \in 1 .. N + 1 : InsertedAt(queue', queue, m, p)
    BY <1>1, <1>2, <1>4, InsertedIs, Zenon
  <2> QED BY <2>1, Zenon DEF InsertedAt
<1>6. \A i \in 1 .. N + 1 :
        \/ i < p /\ i \in 1 .. N /\ queue'[i] = queue[i]
        \/ i = p /\ queue'[i] = m
        \/ i > p /\ i - 1 \in p .. N /\ i - 1 \in 1 .. N /\ queue'[i] = queue[i - 1]
  <2> TAKE i \in 1 .. N + 1
  <2>1. CASE i > p
    <3>1. i - 1 \in p .. N /\ i - 1 \in 1 .. N /\ (i - 1) + 1 = i
      BY <1>2, <2>1
    <3> QED BY <1>5, <2>1, <3>1
  <2> QED BY <1>2, <1>5, <2>1
<1>7. m.id = sent + 1 /\ m.type = type /\ m.when = now + delay
  BY DEF m
<1>8. \A i \in 1 .. N : queue[i].when \in Int /\ queue[i].id \in Int /\ queue[i].id <= sent
  BY <1>2, MessageTypes DEF CecInv, InOrder
<1>9. m.when \in Int /\ sent \in Int
  BY <1>2, <1>3, <1>7 DEF Times
<1>10. \A i \in p .. N : queue[i].when > m.when
  <2> TAKE i \in p .. N
  <2>1. p \in 1 .. N /\ i \in 1 .. N /\ queue[p].when > m.when
    BY <1>2, <1>5
  <2>2. CASE i = p
    BY <2>1, <2>2
  <2>3. CASE i > p
    <3>1. queue[p].when <= queue[i].when
      BY <1>8, <2>1, <2>3 DEF CecInv, InOrder, Before
    <3> QED BY <1>8, <1>9, <2>1, <3>1
  <2> QED BY <2>2, <2>3
<1>11. InOrder'
  <2>1. ASSUME NEW i \in 1 .. N + 1 PROVE queue'[i].id <= sent'
    <3>1. CASE i = p
      BY <1>1, <1>5, <1>7, <1>9, <3>1
    <3>2. CASE i # p
      <4>1. \E a \in 1 .. N : queue'[i] = queue[a]
        BY <1>6, <3>2
      <4> QED BY <1>1, <1>8, <1>9, <4>1
    <3> QED BY <3>1, <3>2
  <2>2. ASSUME NEW i \in 1 .. N + 1, NEW j \in 1 .. N + 1, i < j
        PROVE  Before(queue'[i], queue'[j])
    <3>1. CASE i < p /\ j < p
      BY <1>6, <2>2, <3>1 DEF CecInv, InOrder
    <3>2. CASE i < p /\ j = p
      <4>1. queue'[i] = queue[i] /\ queue'[j] = m /\ i \in 1 .. N /\ ~(queue[i].when > m.when)
        BY <1>5, <1>6, <3>2
      <4> QED BY <1>7, <1>8, <1>9, <4>1 DEF Before
    <3>3. CASE i < p /\ j > p
      <4>1. queue'[i] = queue[i] /\ queue'[j] = queue[j - 1] /\ i < j - 1
            /\ i \in 1 .. N /\ j - 1 \in 1 .. N
        BY <1>6, <3>3
      <4> QED BY <4>1 DEF CecInv, InOrder
    <3>4. CASE i = p
      <4>1. queue'[i] = m /\ queue'[j] = queue[j - 1] /\ j - 1 \in p .. N /\ j - 1 \in 1 .. N
        BY <1>6, <2>2, <3>4
      <4>2. queue[j - 1].when > m.when /\ queue[j - 1].when \in Int
        BY <1>8, <1>10, <4>1, Zenon
      <4> QED BY <1>9, <4>1, <4>2 DEF Before
    <3>5. CASE i > p
      <4>1. queue'[i] = queue[i - 1] /\ queue'[j] = queue[j - 1] /\ i - 1 < j - 1
            /\ i - 1 \in 1 .. N /\ j - 1 \in 1 .. N
        BY <1>6, <2>2, <3>5
      <4> QED BY <4>1 DEF CecInv, InOrder
    <3> QED BY <3>1, <3>2, <3>3, <3>4, <3>5
  <2> QED BY <1>5, <2>1, <2>2 DEF InOrder
<1>12. OneOfEach'
  <2>1. type \in Replaced => \A i \in 1 .. N : queue[i].type # type
    BY <1>1, CecConstants DEF CecInv, OneOfEach
  <2>2. ASSUME NEW i \in 1 .. N + 1, NEW j \in 1 .. N + 1, i < j,
               queue'[i].type \in Replaced
        PROVE  queue'[i].type # queue'[j].type
    <3>1. CASE i = p \/ j = p
      <4>1. CASE i = p
        BY <1>6, <1>7, <2>1, <2>2, <4>1
      <4>2. CASE j = p
        BY <1>6, <1>7, <2>1, <2>2, <4>2
      <4> QED BY <3>1, <4>1, <4>2
    <3>2. CASE i # p /\ j # p
      <4>1. PICK a \in 1 .. N, b \in 1 .. N :
              a < b /\ queue'[i] = queue[a] /\ queue'[j] = queue[b]
        <5>1. CASE i < p /\ j < p
          BY <1>6, <2>2, <5>1
        <5>2. CASE i < p /\ j > p
          BY <1>6, <2>2, <5>2
        <5>3. CASE i > p
          <6>1. queue'[i] = queue[i - 1] /\ queue'[j] = queue[j - 1] /\ i - 1 < j - 1
                /\ i - 1 \in 1 .. N /\ j - 1 \in 1 .. N
            BY <1>6, <2>2, <5>3
          <6> QED BY <6>1
        <5> QED BY <3>2, <5>1, <5>2, <5>3
      <4> QED BY <2>2, <4>1 DEF CecInv, OneOfEach
    <3> QED BY <3>1, <3>2
  <2> QED BY <1>1, <1>5, <2>2 DEF OneOfEach, Idle
<1>13. QueueTypeOK'
  <2>1. sent' \in 0 .. MaxSent
    BY <1>1, <1>3
  <2> QED BY <1>1, <1>5, <2>1, SignalTypes, Zenon DEF CecInv, QueueTypeOK, Message, LocalMessage
<1>14. Awake'
  BY <1>1 DEF Signal, CecInv, Awake
<1> QED BY <1>11, <1>12, <1>13, <1>14 DEF CecInv

\* The loop takes the first message.
LEMMA TakeKeeps ==
  ASSUME CecInv, TakeHead
  PROVE  CecInv'
<1>1. CASE queue = <<>>
  BY <1>1 DEF TakeHead, At, CecInv, QueueTypeOK, InOrder, OneOfEach, Idle, Awake
<1>2. CASE queue # <<>>
  <2>1. /\ queue' = Tail(queue) /\ head' = queue[1] /\ looper' = "handle"
        /\ UNCHANGED <<until, now, exit, monitor, sent, withdrawn>>
    BY <1>2 DEF TakeHead, At
  <2>2. queue \in Seq(Message) /\ 1 \in 1 .. Len(queue)
    BY <1>2 DEF CecInv, QueueTypeOK, Message
  <2>3. /\ queue' \in Seq(Message) /\ Len(queue') = Len(queue) - 1
        /\ \A i \in 1 .. Len(queue') : i + 1 \in 1 .. Len(queue) /\ queue'[i] = queue[i + 1]
    BY <1>2, <2>1, <2>2
  <2>4. InOrder'
    BY <2>1, <2>3 DEF CecInv, InOrder, Before
  <2>5. OneOfEach'
    BY <2>1, <2>3 DEF CecInv, OneOfEach, Idle
  <2>6. head' \in LocalMessage
    BY <2>1, <2>2, MessageTypes DEF LocalMessage
  <2>7. QueueTypeOK'
    BY <2>1, <2>3, <2>6, Zenon DEF CecInv, QueueTypeOK, Message, LocalMessage
  <2> QED BY <2>1, <2>4, <2>5, <2>7 DEF CecInv, Awake
<1> QED BY <1>1, <1>2

\* The steps that leave the queue alone.
LEMMA LoopKeeps ==
  ASSUME CecInv,
         \/ TestExit \/ WaitForAny \/ TestSize \/ GetHead \/ WaitRelative
         \/ TimedOut \/ TestSizeAgain \/ HandleMessage
         \/ RequestExit \/ Tick \/ UNCHANGED queueVars
  PROVE  CecInv'
<1>1. queue' = queue /\ monitor' = monitor /\ sent' = sent /\ withdrawn' = withdrawn
  BY ZenonT(30) DEF TestExit, WaitForAny, TestSize, GetHead, WaitRelative, TimedOut,
     TestSizeAgain, HandleMessage, RequestExit, Tick, At, Size, queueVars
<1>2. InOrder' /\ OneOfEach'
  BY <1>1 DEF CecInv, InOrder, OneOfEach, Idle
<1>3. head' \in LocalMessage /\ until' \in Times /\ now' \in Times
  <2>1. /\ queue \in Seq(Message) /\ (queue # <<>> => 1 \in 1 .. Len(queue))
        /\ head \in LocalMessage /\ until \in Times /\ now \in Times
    BY DEF CecInv, QueueTypeOK, Message, LocalMessage
  <2>2. NoMessage \in LocalMessage /\ \A m \in LocalMessage : m.when \in Times
    BY CecConstants DEF LocalMessage, Message, NoMessage, Times
  <2>3. CASE GetHead
    <3>1. queue # <<>> => queue[1] \in LocalMessage
      BY <2>1, MessageTypes DEF LocalMessage
    <3> QED BY <2>1, <2>3, <3>1, Zenon DEF GetHead, At
  <2>4. CASE Tick
    BY <2>1, <2>4, CecConstants DEF Tick, loopVars, Times
  <2>5. CASE WaitRelative
    BY <2>1, <2>2, <2>5, Zenon DEF WaitRelative, At
  <2> QED
    BY <2>1, <2>2, <2>3, <2>4, <2>5, ZenonT(30) DEF TestExit, WaitForAny, TestSize, TimedOut,
       TestSizeAgain, HandleMessage, RequestExit, At, Size, queueVars, loopVars
<1>4. exit' \in BOOLEAN
  BY ZenonT(30) DEF TestExit, WaitForAny, TestSize, GetHead, WaitRelative, TimedOut,
     TestSizeAgain, HandleMessage, RequestExit, Tick, At, Size, queueVars, CecInv, QueueTypeOK
<1>5. looper' \in {"exit?", "empty?", "wait", "size", "head", "delay", "timed",
               "size2", "take", "handle", "exited", "aborted"}
  BY DEF TestExit, WaitForAny, TestSize, GetHead, WaitRelative, TimedOut, TestSizeAgain,
     HandleMessage, RequestExit, Tick, At, Size, queueVars, loopVars, CecInv, QueueTypeOK
<1>6. QueueTypeOK'
  BY <1>1, <1>3, <1>4, <1>5, Zenon DEF CecInv, QueueTypeOK, LocalMessage, Message
<1>7. Awake'
  BY DEF TestExit, WaitForAny, TestSize, GetHead, WaitRelative, TimedOut, TestSizeAgain,
     HandleMessage, RequestExit, Tick, At, Size, queueVars, loopVars, CecInv, Awake
<1> QED BY <1>2, <1>6, <1>7 DEF CecInv

\* Every step keeps the invariant.
LEMMA CecNext ==
  ASSUME CecInv, [QueueNext]_queueVars
  PROVE  CecInv'
BY RemovesKeeps, SendsKeeps, TakeKeeps, LoopKeeps, Zenon DEF QueueNext, ThreadLoop

\* The invariant holds throughout.
LEMMA CecInductive == QueueSpec => []CecInv
<1>1. QueueInit => CecInv
  BY CecInit
<1>2. CecInv /\ [QueueNext]_queueVars => CecInv'
  BY CecNext
<1> QED BY <1>1, <1>2, PTL DEF QueueSpec

\* m_v_msg stays sorted: by due time, and messages due at the same time in the
\* order they were sent, whatever is inserted, removed and taken in between.
THEOREM QueueInOrder == QueueSpec => []InOrder
<1>1. CecInv => InOrder
  BY DEF CecInv
<1> QED BY <1>1, CecInductive, PTL

\* A removal by a client takes back what is in the queue, and what is in the
\* thread's hands is not touched.
LEMMA ClientKeepsBack ==
  ASSUME CecInv, KeptBack, NEW type \in Replaced, ClientRemoves(type)
  PROVE  KeptBack'
<1>1. /\ queue' = Removed(type) /\ withdrawn' = withdrawn \cup SentBefore(type) /\ sent' = sent
      /\ head' = head /\ (looper' = "handle" => looper = "handle")
  BY DEF ClientRemoves, removeMsg, Signal, loopVars
<1>2. \A i \in 1 .. Len(queue') :
        queue'[i].type # type /\ \E a \in 1 .. Len(queue) : queue'[i] = queue[a]
  <2>1. queue' = Removed(type)
    BY <1>1
  <2>2. Without(queue', queue, type)
    BY <2>1, RemovedOnly, Zenon
  <2> QED BY <2>2, Zenon DEF Without
<1>3. ASSUME NEW i \in 1 .. Len(queue')
      PROVE  [type |-> queue'[i].type, id |-> queue'[i].id] \notin withdrawn'
  <2>1. [type |-> queue'[i].type, id |-> queue'[i].id] \notin SentBefore(type)
    BY <1>2 DEF SentBefore
  <2>2. [type |-> queue'[i].type, id |-> queue'[i].id] \notin withdrawn
    BY <1>2 DEF KeptBack
  <2> QED BY <1>1, <2>1, <2>2
<1>4. looper' = "handle" => [type |-> head'.type, id |-> head'.id] \notin withdrawn'
  BY <1>1 DEF KeptBack, SentBefore
<1>5. \A m \in withdrawn' : m.id <= sent'
  BY <1>1 DEF KeptBack, SentBefore, CecInv, QueueTypeOK
<1> QED BY <1>3, <1>4, <1>5 DEF KeptBack

\* The monitor's removal takes nothing back, and what it sends is new.
LEMMA MonitorKeepsBack ==
  ASSUME CecInv, KeptBack,
         \/ \E type \in Replaced : MonitorRemoves(type)
         \/ \E type \in Types, delay \in Delays : MonitorSends(type, delay)
  PROVE  KeptBack'
<1>1. /\ withdrawn' = withdrawn /\ head' = head
      /\ looper' = "handle" => looper = "handle"
  BY DEF MonitorRemoves, MonitorSends, removeMsg, sendMsg, Signal, loopVars
<1>2. sent \in Nat /\ sent' \in {sent, sent + 1}
  <2>1. sent \in Nat
    BY CecConstants DEF CecInv, QueueTypeOK
  <2>2. sent' \in {sent, sent + 1}
    BY Zenon DEF MonitorRemoves, MonitorSends, sendMsg
  <2> QED BY <2>1, <2>2
<1>3. ASSUME NEW i \in 1 .. Len(queue')
      PROVE  \/ \E a \in 1 .. Len(queue) : queue'[i] = queue[a]
             \/ queue'[i].id = sent + 1
  <2>1. CASE \E type \in Replaced : MonitorRemoves(type)
    <3>1. PICK type \in Replaced : queue' = Removed(type)
      BY <2>1 DEF MonitorRemoves, removeMsg
    <3>2. Without(queue', queue, type)
      BY <3>1, RemovedOnly, Zenon
    <3> QED BY <3>2, Zenon DEF Without
  <2>2. CASE \E type \in Types, delay \in Delays : MonitorSends(type, delay)
    <3>1. PICK type \in Types, delay \in Delays : MonitorSends(type, delay)
      BY <2>2
    <3> DEFINE m == [id |-> sent + 1, type |-> type, when |-> now + delay]
    <3>2. queue' = Inserted(m) /\ now + delay <= MaxTime /\ sent < MaxSent
      BY <3>1 DEF MonitorSends, sendMsg
    <3>3. queue \in Seq(Message) /\ m \in Message
      BY <3>2, CecConstants DEF CecInv, QueueTypeOK, Message, Times
    <3>4. m.id = sent + 1
      OBVIOUS
    <3> HIDE DEF m
    <3>5. PICK p \in 1 .. Len(queue) + 1 : InsertedAt(queue', queue, m, p)
      BY <3>2, <3>3, InsertedIs, Zenon
    <3>6. /\ Len(queue) \in Nat /\ Len(queue') = Len(queue) + 1 /\ queue'[p] = m
          /\ \A a \in 1 .. p - 1 : queue'[a] = queue[a]
          /\ \A a \in p .. Len(queue) : queue'[a + 1] = queue[a]
      BY <3>3, <3>5 DEF InsertedAt
    <3>7. CASE i < p
      BY <3>6, <3>7
    <3>8. CASE i = p
      BY <3>4, <3>6, <3>8
    <3>9. CASE i > p
      <4>1. i - 1 \in p .. Len(queue) /\ i - 1 \in 1 .. Len(queue) /\ (i - 1) + 1 = i
        BY <3>6, <3>9
      <4> QED BY <3>6, <4>1
    <3> QED BY <3>7, <3>8, <3>9
  <2> QED BY <2>1, <2>2
<1>4. ASSUME NEW i \in 1 .. Len(queue')
      PROVE  [type |-> queue'[i].type, id |-> queue'[i].id] \notin withdrawn'
  BY <1>1, <1>2, <1>3 DEF KeptBack
<1> QED BY <1>1, <1>2, <1>4 DEF KeptBack, CecInv, QueueTypeOK

\* The loop takes a message of the queue, or none.
LEMMA LoopKeepsBack ==
  ASSUME CecInv, KeptBack, ThreadLoop \/ RequestExit \/ Tick \/ UNCHANGED queueVars
  PROVE  KeptBack'
<1>1. withdrawn' = withdrawn /\ sent' = sent
  BY ZenonT(30) DEF ThreadLoop, TestExit, WaitForAny, TestSize, GetHead, WaitRelative, TimedOut,
     TestSizeAgain, TakeHead, HandleMessage, RequestExit, Tick, At, Size, queueVars
<1>2. CASE TakeHead /\ queue # <<>>
  <2>1. queue' = Tail(queue) /\ head' = queue[1] /\ queue \in Seq(Message)
    BY <1>2 DEF TakeHead, CecInv, QueueTypeOK, Message
  <2>2. /\ 1 \in 1 .. Len(queue)
        /\ \A i \in 1 .. Len(queue') : i + 1 \in 1 .. Len(queue) /\ queue'[i] = queue[i + 1]
    BY <1>2, <2>1
  <2> QED BY <1>1, <2>1, <2>2 DEF KeptBack
<1>3. CASE ~(TakeHead /\ queue # <<>>)
  <2>1. /\ queue' = queue
        /\ looper' = "handle" => looper = "handle" /\ head' = head
    BY <1>3 DEF ThreadLoop, TestExit, WaitForAny, TestSize, GetHead, WaitRelative, TimedOut,
       TestSizeAgain, TakeHead, HandleMessage, RequestExit, Tick, At, Size, queueVars, loopVars
  <2> QED BY <1>1, <2>1 DEF KeptBack
<1> QED BY <1>2, <1>3

\* A message that a client has taken back (removeMsg) is never handled, unless
\* threadLoop had taken it off the queue before.  Nothing is overlooked although
\* removeMsg steps over every second one of a row of them.
THEOREM RemovedStaysRemoved == QueueSpec => []RemovedForGood
<1>1. QueueInit => KeptBack
  BY DEF QueueInit, KeptBack
<1>2. CecInv /\ KeptBack /\ [QueueNext]_queueVars => KeptBack'
  BY ClientKeepsBack, MonitorKeepsBack, LoopKeepsBack, Zenon DEF QueueNext
<1>3. KeptBack => RemovedForGood
  BY DEF KeptBack, RemovedForGood
<1> QED BY <1>1, <1>2, <1>3, CecInductive, PTL DEF QueueSpec

\* removeMsg leaves every message of another type in the queue, in its order: what
\* it steps over it neither drops nor moves.
THEOREM OthersAreKept ==
  QueueSpec => [][\A type \in Replaced :
                    MonitorRemoves(type) \/ ClientRemoves(type) =>
                      Without(queue', queue, type)]_queueVars
<1>1. ASSUME CecInv, NEW type \in Replaced, MonitorRemoves(type) \/ ClientRemoves(type)
      PROVE  Without(queue', queue, type)
  <2>1. queue' = Removed(type)
    BY <1>1 DEF MonitorRemoves, ClientRemoves, removeMsg
  <2> QED BY <1>1, <2>1, RemovedOnly, Zenon
<1>2. CecInv => [\A type \in Replaced :
                   MonitorRemoves(type) \/ ClientRemoves(type) =>
                     Without(queue', queue, type)]_queueVars
  BY <1>1
<1> QED BY <1>2, CecInductive, PTL

\* A signal is kept by nobody, yet threadLoop never waits for one, without a
\* timeout, while there is a message: it looks again under mLockQueue before.
THEOREM NeverSleepsOnMessage == QueueSpec => []Awake
<1>1. CecInv => Awake
  BY DEF CecInv
<1> QED BY <1>1, CecInductive, PTL

\* The state of the CEC queue is well typed.
THEOREM CecTypeCorrect == QueueSpec => []QueueTypeOK
<1>1. CecInv => QueueTypeOK
  BY DEF CecInv
<1> QED BY <1>1, CecInductive, PTL
=============================================================================
