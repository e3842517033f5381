---------------------- MODULE InteractionHandlerProofs ----------------------
(***************************************************************************)
(* Proofs about InteractionHandler for every choice of inputs and durations.*)
(***************************************************************************)
EXTENDS InteractionHandler, TLAPS

(* Where Routine can be in each state, and what is known of the timers there. *)
RoutinePlace ==
    /\ owner = "new" => pc = "none"
    /\ pc = "none" => mState = "UNINITIALIZED" /\ eventFd = 0
    /\ owner \in {"notify", "join", "gone"} => mState = "UNINITIALIZED"
    /\ owner = "new" => interactionLock = 0 /\ promised = 0
    /\ owner = "live" /\ mState = "UNINITIALIZED" => interactionLock = 0
    /\ mState = "IDLE" => pc \in {"top", "parked"}
    /\ mState = "WAITING" => pc \in InWait
    /\ eventFd > 0 /\ mState = "INTERACTION" => pc \in InWait

Timers ==
    /\ mState = "IDLE" => promised = 0
    /\ promised = 0 \/ promised + elapsed <= mDurationMs
    /\ mState = "WAITING" /\ pc = "poll2" => pollLeft + elapsed >= mDurationMs
    /\ mState = "WAITING" /\ pc = "release" /\ why = "timeout"
          => elapsed >= mDurationMs

(* An aborted wait is never acted on, and only Exit can abort a second time. *)
Aborts ==
    /\ mState = "WAITING" /\ pc = "release" => why \notin {"none", "abort"}
    /\ mState # "UNINITIALIZED" => eventFd \in {0, 1}

IInv ==
    /\ TypeOK
    /\ RoutinePlace
    /\ LockMatchesState
    /\ NoStaleAbort
    /\ TimeoutIsFresh
    /\ Timers
    /\ Aborts
-----------------------------------------------------------------------------
(* The clamped duration of Acquire lies within the limits. *)
LEMMA FinalDurationBounds ==
    ASSUME NEW d \in Inputs
    PROVE  FinalDuration(d) \in 0..MaxDurationMs
BY DurationAssumption DEF DurationAssumption, FinalDuration, Smaller, Larger

(* The initial state satisfies the inductive invariant. *)
LEMMA InitIInv == Init => IInv
BY DurationAssumption
   DEF DurationAssumption, Init, IInv, TypeOK, States, InWait, RoutinePlace,
       LockMatchesState,
       NoStaleAbort, TimeoutIsFresh, Timers, Aborts

(* Every step of the handler, its callers and time preserves the invariant. *)
LEMMA NextIInv == IInv /\ [Next]_vars => IInv'
<1> SUFFICES ASSUME IInv, [Next]_vars PROVE IInv'
  OBVIOUS
<1> USE DurationAssumption
    DEF DurationAssumption, IInv, TypeOK, States, InWait, RoutinePlace,
        LockMatchesState,
        NoStaleAbort, TimeoutIsFresh, Timers, Aborts
<1>1. CASE InitHandler
  BY <1>1 DEF InitHandler
<1>2. CASE ExitBegin
  BY <1>2 DEF ExitBegin, AbortWait
<1>3. CASE ExitNotify
  BY <1>3 DEF ExitNotify, Wake
<1>4. CASE ExitJoin
  BY <1>4 DEF ExitJoin
<1>5. ASSUME NEW d \in Inputs, Acquire(d) PROVE IInv'
  <2> DEFINE f == FinalDuration(d)
  <2>1. f \in 0..MaxDurationMs
    BY FinalDurationBounds
  <2> HIDE DEF f
  <2>2. /\ mState # "UNINITIALIZED"
        /\ promised' = Larger(promised, f)
        /\ UNCHANGED <<timeoutMs, pollLeft, why, owner>>
    BY <1>5 DEF Acquire, f
  <2>3. CASE Covered(f)
    <3>1. UNCHANGED <<mState, eventFd, interactionLock, mDurationMs, elapsed, pc>>
      BY <1>5, <2>3 DEF Acquire, f
    <3> QED
      BY <2>1, <2>2, <2>3, <3>1 DEF Covered, Larger
  <2>4. CASE ~Covered(f)
    <3>1. /\ elapsed' = 0
          /\ mDurationMs' = f
          /\ mState = "WAITING" => eventFd' = eventFd + 1
          /\ mState # "WAITING" => eventFd' = eventFd
          /\ interactionLock' = IF mState = "IDLE" THEN 1 ELSE interactionLock
          /\ mState' = "INTERACTION"
          /\ pc' = IF pc = "parked" THEN "top" ELSE pc
      BY <1>5, <2>4 DEF Acquire, f, AbortWait, AfterAcquire, Wake
    <3>2. promised' = f
      BY <2>1, <2>2, <2>4 DEF Covered, Larger
    <3> QED
      BY <2>1, <2>2, <3>1, <3>2
  <2> QED
    BY <2>3, <2>4
<1>6. CASE RoutineWait
  BY <1>6 DEF RoutineWait
<1>7. CASE RoutineArgs
  BY <1>7 DEF RoutineArgs
<1>8. CASE PollAborted
  BY <1>8 DEF PollAborted, Return
<1>9. CASE PollFailed
  BY <1>9 DEF PollFailed, Return
<1>10. CASE Poll1Timeout
  BY <1>10 DEF Poll1Timeout
<1>11. CASE ReadIdle
  BY <1>11 DEF ReadIdle, Return
<1>12. CASE Poll2Timeout
  BY <1>12 DEF Poll2Timeout, PollRunsOut, Return
<1>13. CASE Poll2Idle
  BY <1>13 DEF Poll2Idle, Return
<1>14. CASE Release
  BY <1>14 DEF Release, StillWaiting, PerfRel, Drain
<1>15. CASE Tick
  BY <1>15 DEF Tick, Smaller, Larger
<1>16. CASE UNCHANGED vars
  BY <1>16 DEF vars
<1> QED
  BY <1>1, <1>2, <1>3, <1>4, <1>5, <1>6, <1>7, <1>8, <1>9, <1>10, <1>11,
     <1>12, <1>13, <1>14, <1>15, <1>16
  DEF Next, Exit, Routine, Environment

(* The inductive invariant holds in every behaviour. *)
THEOREM Invariance == Spec => []IInv
BY InitIInv, NextIInv, PTL DEF Spec

(* PerfLock and PerfRel alternate: the hint is held exactly while the       *)
(* handler is in INTERACTION or WAITING.                                    *)
THEOREM LockMatchesStateHolds == Spec => []LockMatchesState
<1>1. IInv => LockMatchesState
  BY DEF IInv
<1> QED
  BY <1>1, Invariance, PTL

(* No wait is cut short by an abort meant for an earlier one: what Acquire *)
(* wrote to mEventFd has been read before WAITING is entered again.         *)
THEOREM WaitIsSound == Spec => []NoStaleAbort
<1>1. IInv => NoStaleAbort
  BY DEF IInv
<1> QED
  BY <1>1, Invariance, PTL

(* A wait that will be acted on runs with the current duration, although    *)
(* Routine reads mDurationMs and polls in two steps.                        *)
THEOREM TimeoutIsFreshHolds == Spec => []TimeoutIsFresh
<1>1. IInv => TimeoutIsFresh
  BY DEF IInv
<1> QED
  BY <1>1, Invariance, PTL

(* The hint is not given back before every Acquire has had its duration,    *)
(* unless the display went idle or a wait failed.                           *)
THEOREM HintKeptForDurationHolds == Spec => HintKeptForDuration
<1> DEFINE Kept == interactionLock = 1 /\ interactionLock' = 0
                     => promised = 0 \/ why \in {"idle", "error"}
<1>1. IInv /\ [Next]_vars => [Kept]_vars
  <2> SUFFICES ASSUME IInv, [Next]_vars, interactionLock = 1, interactionLock' = 0
               PROVE  promised = 0 \/ why \in {"idle", "error"}
    OBVIOUS
  <2>1. Release
    BY DEF Next, Exit, Routine, Environment, InitHandler, ExitBegin, ExitNotify,
           ExitJoin, Acquire, RoutineWait, RoutineArgs, PollAborted, PollFailed,
           Poll1Timeout, ReadIdle, Poll2Timeout, Poll2Idle, Return, Tick, vars
  <2>2. mState = "WAITING" /\ pc = "release"
    BY <2>1 DEF Release, StillWaiting
  <2>3. CASE why = "timeout"
    BY <2>2, <2>3, DurationAssumption DEF DurationAssumption, IInv, TypeOK, Timers
  <2>4. CASE why \in {"none", "abort"}
    BY <2>2, <2>4 DEF IInv, Aborts
  <2> QED
    BY <2>3, <2>4 DEF IInv, TypeOK
<1> QED
  BY <1>1, Invariance, PTL DEF Spec, HintKeptForDuration

(* Nobody who is waited for sleeps: a Routine that has a hint to serve or is *)
(* to exit is not parked, and a poll that is out of date has its abort.      *)
Woken ==
    /\ mState \in {"INTERACTION", "WAITING"} => pc \in InWait \cup {"top"}
    /\ mState = "INTERACTION" /\ pc \in InWait => eventFd > 0
    /\ owner \in {"notify", "join"} => pc # "none" /\ (pc \in InWait => eventFd > 0)
    /\ owner = "join" => pc # "parked"

(* No wake-up is lost: Release may drain the abort of an Acquire or of Exit  *)
(* together with an older one, and the notification of either may find       *)
(* Routine not parked, yet Routine never goes to sleep on a hint that waits  *)
(* for it, nor on the join of Exit.                                          *)
THEOREM NoWakeUpLost == Spec => []Woken
<1>1. Init => Woken
  BY DEF Init, Woken
<1>2. IInv /\ Woken /\ [Next]_vars => Woken'
  <2> SUFFICES ASSUME IInv, Woken, [Next]_vars PROVE Woken'
    OBVIOUS
  <2> USE DEF IInv, TypeOK, RoutinePlace, InWait, Woken
  <2>1. CASE InitHandler \/ Exit
    BY <2>1 DEF InitHandler, Exit, ExitBegin, ExitNotify, ExitJoin, AbortWait, Wake
  <2>2. ASSUME NEW d \in Inputs, Acquire(d) PROVE Woken'
    <3>1. mState # "UNINITIALIZED" /\ owner' = owner
      BY <2>2 DEF Acquire
    <3>2. \/ UNCHANGED <<mState, eventFd, pc>>
          \/ /\ mState' = "INTERACTION"
             /\ pc' = IF pc = "parked" THEN "top" ELSE pc
             /\ eventFd' = IF mState = "WAITING" THEN eventFd + 1 ELSE eventFd
      BY <2>2, Zenon DEF Acquire, AbortWait, AfterAcquire, Wake
    <3> QED
      BY <3>1, <3>2 DEF States
  <2>3. CASE RoutineWait
    BY <2>3 DEF RoutineWait
  <2>4. CASE RoutineArgs \/ Poll1Timeout \/ ReadIdle
    BY <2>4 DEF RoutineArgs, Poll1Timeout, ReadIdle, Return
  <2>5. CASE PollAborted \/ PollFailed \/ Poll2Timeout \/ Poll2Idle
    BY <2>5 DEF PollAborted, PollFailed, Poll2Timeout, Poll2Idle, Return
  <2>6. CASE Release
    BY <2>6 DEF Release, StillWaiting, Drain
  <2>7. CASE Tick \/ UNCHANGED vars
    BY <2>7 DEF Tick, vars
  <2> QED
    BY <2>1, <2>2, <2>3, <2>4, <2>5, <2>6, <2>7 DEF Next, Routine, Environment
<1> QED
  BY <1>1, <1>2, Invariance, PTL DEF Spec
=============================================================================
