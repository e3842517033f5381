---------------------------- MODULE ScreenSource ----------------------------
(***************************************************************************)
(* The screen source, v4l2_vdin.cpp: who owns the V4L2 buffers between the *)
(* driver, the work thread and the user, through start, pause and stop.    *)
(*                                                                         *)
(* One user thread calls start, pause, stop, set_format, set_data_callback *)
(* and, without a callback, acquire_buffer; buffers may be given back from *)
(* any thread at any time, also from within the callback.  The user gives  *)
(* a buffer back once, and none of them after stop has unmapped them.      *)
(* A buffer is its index; pixels and the copies of unaligned widths are    *)
(* left out.                                                               *)
(***************************************************************************)
EXTENDS Naturals, Sequences, FiniteSets

CONSTANTS InitialCount, Rgb32Count, CatchCount,   \* the 4, 3 and 1 of mBufferCount
          MaxStarts,    \* bound: successful starts
          MaxFaults     \* bound: ioctls that fail

ASSUME Counts == /\ {InitialCount, Rgb32Count, CatchCount} \subseteq Nat \ {0}
                 /\ Rgb32Count <= InitialCount /\ CatchCount <= InitialCount
                 /\ MaxStarts \in Nat /\ MaxFaults \in Nat

VARIABLES
  mState, mOpen, mBufferCount,
  callback,     \* mFrameType has CALL_BACK_DATA
  mBufs,        \* the buffers that have an entry, by which a mapping is found
  refcount,
  queued,       \* buffers the driver may fill
  filled,       \* buffers the driver has filled, oldest first
  streaming,
  held,         \* buffers the user has and will give back
  user,         \* the step of start or stop the user thread is in
  work, index,  \* the work thread and the buffer it has
  exitPending,
  mixed,        \* history: a callback was set while the source was polled
  lost,         \* history: buffers the driver refused to take back
  starts, faults

deviceVars == <<queued, filled, streaming>>
workVars == <<work, index, exitPending>>
history == <<mixed, lost>>
vars == <<mState, mOpen, mBufferCount, callback, mBufs, refcount, deviceVars, held, user,
          workVars, history, starts, faults>>

Buffers == 0 .. InitialCount - 1
First(n) == {b \in Buffers : b < n}
Done == {filled[k] : k \in DOMAIN filled}
Busy == {"got", "callback"}

\* vdin_screen_source::init
Init ==
  /\ mState = "STOP" /\ mOpen = FALSE /\ mBufferCount = InitialCount /\ callback = FALSE
  /\ mBufs = {} /\ refcount = [b \in Buffers |-> 0]
  /\ queued = {} /\ filled = <<>> /\ streaming = FALSE
  /\ held = {} /\ user = "idle" /\ work = "none" /\ index = 0 /\ exitPending = FALSE
  /\ mixed = FALSE /\ lost = {} /\ starts = 0 /\ faults = 0

-----------------------------------------------------------------------------
(* The user thread.                                                         *)

\* set_format changes nothing while the source is open.  Only RGB32 and the catch
\* mode set the number of buffers, which stop has made 0.
set_format ==
  /\ user = "idle" /\ ~mOpen
  /\ mBufferCount' \in {mBufferCount, Rgb32Count, CatchCount}
  /\ UNCHANGED <<mState, mOpen, callback, mBufs, refcount, deviceVars, held, user, workVars,
                 history, starts, faults>>

set_data_callback ==
  /\ user = "idle" /\ ~callback
  /\ callback' = TRUE
  /\ mixed' = (mixed \/ mOpen)
  /\ UNCHANGED <<mState, mOpen, mBufferCount, mBufs, refcount, deviceVars, held, user, workVars,
                 lost, starts, faults>>

\* start_v4l2_device: VIDIOC_REQBUFS takes all buffers from the driver, then they
\* are mapped and queued one by one.
StartDevice ==
  /\ mBufs' = mBufs \cup First(mBufferCount)
  /\ refcount' = [b \in Buffers |-> IF b < mBufferCount THEN 0 ELSE refcount[b]]
  /\ queued' = First(mBufferCount) /\ filled' = <<>> /\ streaming' = TRUE
  /\ lost' = {}

\* An ioctl or mmap fails: before VIDIOC_REQBUFS, while the buffers are mapped, while
\* they are queued, or at VIDIOC_STREAMON.  Nothing is undone.
StartDeviceFails ==
  /\ faults < MaxFaults
  /\ faults' = faults + 1
  /\ \/ UNCHANGED <<mBufs, refcount, queued, filled>>
     \/ \E m \in 0 .. mBufferCount, n \in 0 .. mBufferCount :
          /\ n > 0 => m = mBufferCount
          /\ mBufs' = mBufs \cup First(m)
          /\ refcount' = [b \in Buffers |-> IF b < m THEN 0 ELSE refcount[b]]
          /\ queued' = First(n) /\ filled' = <<>>
  /\ UNCHANGED streaming

\* mutant: start takes a source that is open back to START
StartResumes ==
  /\ user = "idle" /\ mOpen
  /\ mState' = "START"
  /\ UNCHANGED <<mOpen, mBufferCount, callback, mBufs, refcount, deviceVars, held, user, workVars,
                 history, starts, faults>>

\* start of a source that is open returns NO_ERROR and leaves mState alone
StartOpen ==
  /\ user = "idle" /\ mOpen
  /\ UNCHANGED vars

\* start, up to the work thread, which runs at once
start ==
  /\ user = "idle" /\ ~mOpen /\ starts < MaxStarts
  /\ \/ /\ StartDevice
        /\ work' = (IF callback THEN "top" ELSE "none") /\ exitPending' = FALSE
        /\ user' = "started" /\ starts' = starts + 1
        /\ UNCHANGED <<faults, index>>
     \/ /\ StartDeviceFails
        /\ UNCHANGED <<user, starts, workVars, lost>>
  /\ UNCHANGED <<mState, mOpen, mBufferCount, callback, held, mixed>>

Started ==
  /\ user = "started"
  /\ mState' = "START" /\ mOpen' = TRUE /\ user' = "idle" /\ mixed' = FALSE
  /\ UNCHANGED <<mBufferCount, callback, mBufs, refcount, deviceVars, held, workVars, lost,
                 starts, faults>>

pause ==
  /\ user = "idle"
  /\ mState' = "PAUSE"
  /\ UNCHANGED <<mOpen, mBufferCount, callback, mBufs, refcount, deviceVars, held, user, workVars,
                 history, starts, faults>>

\* mutant: the thread is asked to exit and not waited for
WaitsForNobody == TRUE

\* requestExitAndWait
ThreadGone == work \in {"none", "exited"}

stop ==
  /\ user = "idle"
  /\ mState' = "STOPPING" /\ exitPending' = TRUE /\ user' = "join"
  /\ UNCHANGED <<mOpen, mBufferCount, callback, mBufs, refcount, deviceVars, held, work, index,
                 history, starts, faults>>

\* VIDIOC_STREAMOFF, and VIDIOC_REQBUFS for no buffers: either takes all buffers from
\* the driver.  A failure is only logged, and they stay with it.
TakeBuffers ==
  \/ queued' = {} /\ filled' = <<>> /\ streaming' = FALSE /\ UNCHANGED faults
  \/ faults < MaxFaults /\ faults' = faults + 1 /\ UNCHANGED deviceVars

StreamOff ==
  /\ user = "join" /\ ThreadGone
  /\ work' = IF work = "exited" THEN "none" ELSE work
  /\ TakeBuffers
  /\ user' = "off"
  /\ UNCHANGED <<mState, mOpen, mBufferCount, callback, mBufs, refcount, held, index, exitPending,
                 history, starts>>

\* The rest of stop, without mLock: buffers may have been given back since
\* VIDIOC_STREAMOFF, and those the user still has are unmapped under it.
Stopped ==
  /\ user = "off"
  /\ TakeBuffers
  /\ mBufs' = {} /\ mBufferCount' = 0 /\ held' = {}
  /\ mState' = "STOP" /\ mOpen' = FALSE /\ user' = "idle"
  /\ UNCHANGED <<callback, refcount, workVars, history, starts>>

\* acquire_buffer, of a source that was started without a callback
acquire_buffer ==
  /\ user = "idle" /\ mOpen /\ work = "none" /\ filled # <<>>
  /\ LET b == Head(filled) IN
       /\ refcount' = IF callback THEN refcount ELSE [refcount EXCEPT ![b] = @ + 1]
       /\ held' = held \cup {b}
  /\ filled' = Tail(filled)
  /\ UNCHANGED <<mState, mOpen, mBufferCount, callback, mBufs, queued, streaming, user, workVars,
                 history, starts, faults>>

-----------------------------------------------------------------------------
(* release_buffer, under mLock.                                             *)

\* VIDIOC_QBUF; a failure is only logged
Requeue(b) ==
  \/ queued' = queued \cup {b} /\ UNCHANGED <<lost, faults>>
  \/ /\ faults < MaxFaults /\ faults' = faults + 1
     /\ lost' = lost \cup {b} /\ UNCHANGED queued

release_buffer(b) ==
  /\ b \in held
  /\ held' = held \ {b}
  /\ refcount' = [refcount EXCEPT ![b] = IF @ > 0 THEN @ - 1 ELSE 0]
  /\ IF refcount[b] = 1 THEN Requeue(b) ELSE UNCHANGED <<queued, lost, faults>>
  /\ UNCHANGED <<mState, mOpen, mBufferCount, callback, mBufs, filled, streaming, user, workVars,
                 mixed, starts>>

-----------------------------------------------------------------------------
(* workThread, called in a loop.                                            *)

workRest == <<mState, mOpen, mBufferCount, callback, mBufs, streaming, user, exitPending,
              history, starts, faults>>

WorkExit ==
  /\ work = "top" /\ exitPending
  /\ work' = "exited"
  /\ UNCHANGED <<workRest, refcount, queued, filled, held, index>>

WorkBegin ==
  /\ work = "top" /\ ~exitPending /\ mState = "START"
  /\ work' = "dequeue"
  /\ UNCHANGED <<workRest, refcount, queued, filled, held, index>>

\* mutant: the loop ends when no buffer is ready
EndsEmpty == "exited"

AfterEmpty == "top"

\* acquire_buffer does not count a buffer that is for the callback
WorkAcquire ==
  /\ work = "dequeue"
  /\ IF filled = <<>>
     THEN work' = AfterEmpty /\ UNCHANGED <<filled, index>>
     ELSE work' = "got" /\ index' = Head(filled) /\ filled' = Tail(filled)
  /\ UNCHANGED <<workRest, refcount, queued, held>>

\* mState is read again: a buffer that is too late is dropped
WorkDeliver ==
  /\ work = "got"
  /\ IF mState = "START"
     THEN /\ refcount' = [refcount EXCEPT ![index] = @ + 1]
          /\ held' = held \cup {index} /\ work' = "callback"
     ELSE work' = "top" /\ UNCHANGED <<refcount, held>>
  /\ UNCHANGED <<workRest, queued, filled, index>>

\* mutant: the buffer goes back to the driver when the callback returns
WorkReturnRequeues ==
  /\ work = "callback"
  /\ work' = "top" /\ queued' = queued \cup {index}
  /\ UNCHANGED <<workRest, refcount, filled, held, index>>

\* mDataCB returns; the user may keep the buffer
WorkReturn ==
  /\ work = "callback"
  /\ work' = "top"
  /\ UNCHANGED <<workRest, refcount, queued, filled, held, index>>

-----------------------------------------------------------------------------
(* The driver.                                                              *)

Fill(b) ==
  /\ streaming /\ b \in queued
  /\ queued' = queued \ {b} /\ filled' = Append(filled, b)
  /\ UNCHANGED <<mState, mOpen, mBufferCount, callback, mBufs, refcount, streaming, held, user,
                 workVars, history, starts, faults>>

UserCall == \/ set_format \/ set_data_callback \/ StartOpen \/ start \/ pause \/ stop
            \/ acquire_buffer \/ \E b \in Buffers : release_buffer(b)
UserStep == Started \/ StreamOff \/ Stopped
WorkStep == WorkExit \/ WorkBegin \/ WorkAcquire \/ WorkDeliver \/ WorkReturn

Next == UserCall \/ UserStep \/ WorkStep \/ \E b \in Buffers : Fill(b)

\* The threads run and the callback returns; the user need not call anything
\* and the driver need not fill a buffer.
Spec == Init /\ [][Next]_vars /\ WF_vars(UserStep) /\ WF_vars(WorkStep)

-----------------------------------------------------------------------------
(* Properties.                                                              *)

\* Every variable keeps its type.
TypeOK ==
  /\ mState \in {"START", "PAUSE", "STOPPING", "STOP"}
  /\ {mOpen, callback, streaming, exitPending, mixed} \subseteq BOOLEAN
  /\ mBufferCount \in 0 .. InitialCount /\ index \in Buffers
  /\ {mBufs, queued, Done, held, lost} \subseteq SUBSET Buffers
  /\ filled \in Seq(Buffers) /\ refcount \in [Buffers -> {0, 1}]
  /\ user \in {"idle", "started", "join", "off"}
  /\ work \in {"none", "top", "dequeue", "got", "callback", "exited"}
  /\ starts \in 0 .. MaxStarts /\ faults \in 0 .. MaxFaults

\* The driver never writes into a buffer the user or the work thread reads,
\* whoever gives buffers back while others are delivered: the count is raised
\* without mLock (workThread, acquire_buffer) and lowered under it.
ReadersHaveIt ==
  /\ held \cap (queued \cup Done) = {}
  /\ work = "got" => index \notin held \cup queued \cup Done
  /\ Cardinality(Done) = Len(filled)

\* While the source runs every buffer is with the driver, the work thread or
\* the user, and the user's will be queued when it is given back: none drops
\* out of the cycle.  (workThread drops a buffer when pause or stop comes
\* between its two looks at mState, but no call leads from there back to START.)
NoneDropped ==
  mState = "START" /\ mOpen /\ ~mixed =>
    \A b \in First(mBufferCount) \ lost :
      \/ b \in queued \cup Done
      \/ work = "got" /\ index = b
      \/ b \in held /\ refcount[b] = 1

\* The callback is never given a buffer that stop has unmapped.
CallbackMapped == work \in Busy => index \in mBufs

\* A frame is delivered, unless pause or stop comes: the work thread neither
\* ends nor stalls by itself, in whatever order the frames and calls come.
FrameDelivered ==
  \A b \in Buffers :
    mState = "START" /\ work # "none" /\ b \in Done ~> b \in held \/ mState # "START"
=============================================================================
