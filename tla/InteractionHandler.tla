------------------------- MODULE InteractionHandler -------------------------
(***************************************************************************)
(* power/disp-power/InteractionHandler.cpp: the INTERACTION power hint is   *)
(* taken when a user interaction is reported (Acquire) and given back when  *)
(* the display goes idle or the interaction's duration has run out.         *)
(*                                                                         *)
(* Actors: the binder threads that call Acquire, the Routine thread, and    *)
(* the owner that calls Init and, from the destructor, Exit.  Everything    *)
(* done under mLock is one step; what is done outside it (the two polls,    *)
(* the reads of mDurationMs and of the idle state, notify_all and join in   *)
(* Exit) are steps of their own.  Time is counted down: no absolute clock.  *)
(***************************************************************************)
EXTENDS Integers

CONSTANTS
    Inputs,        \* the durations Acquire is called with
    Slack,         \* the 650 ms added to every input
    WaitMs,        \* mWaitMs
    MinDurationMs, \* mMinDurationMs
    MaxDurationMs  \* mMaxDurationMs

ASSUME DurationAssumption ==
    /\ Inputs \subseteq Int
    /\ Slack \in Nat
    /\ WaitMs \in Nat
    /\ MinDurationMs \in Nat
    /\ MaxDurationMs \in Nat
    /\ MinDurationMs <= MaxDurationMs

VARIABLES
    mState,          \* interaction_state
    eventFd,         \* the counter of mEventFd
    interactionLock, \* 1 between PerfLock and PerfRel (the traced counter)
    mDurationMs,
    elapsed,         \* time since mLastTimespec, saturated above MaxDurationMs
    pc,              \* where the Routine thread is
    timeoutMs,       \* Routine: the timeout_ms argument of WaitForIdle
    pollLeft,        \* Routine: time left of the poll in progress
    why,             \* Routine: why WaitForIdle returned
    owner,           \* where the owner is in Init/Exit
    promised         \* history: longest time an Acquire still expects the hint

vars == <<mState, eventFd, interactionLock, mDurationMs, elapsed, pc,
          timeoutMs, pollLeft, why, owner, promised>>

States == {"UNINITIALIZED", "IDLE", "INTERACTION", "WAITING"}
InWait == {"args", "poll1", "idle", "poll2", "release"}
Larger(a, b) == IF a >= b THEN a ELSE b
Smaller(a, b) == IF a <= b THEN a ELSE b

TypeOK ==
    /\ mState \in States
    /\ eventFd \in 0..2
    /\ interactionLock \in {0, 1}
    /\ mDurationMs \in 0..MaxDurationMs
    /\ elapsed \in 0..(MaxDurationMs + 1)
    /\ pc \in {"none", "top", "parked", "done"} \cup InWait
    /\ timeoutMs \in 0..MaxDurationMs
    /\ pollLeft \in Nat
    /\ why \in {"none", "abort", "error", "idle", "timeout"}
    /\ owner \in {"new", "live", "notify", "join", "gone"}
    /\ promised \in 0..MaxDurationMs

Init ==
    /\ mState = "UNINITIALIZED"
    /\ eventFd = 0
    /\ interactionLock = 0
    /\ mDurationMs = 0
    /\ elapsed = MaxDurationMs + 1
    /\ pc = "none"
    /\ timeoutMs = 0
    /\ pollLeft = 0
    /\ why = "none"
    /\ owner = "new"
    /\ promised = 0
-----------------------------------------------------------------------------
(* InteractionHandler::Init.  Opening the idle node or creating the eventfd *)
(* may fail: the handler then stays uninitialized.                          *)
InitHandler ==
    /\ owner = "new"
    /\ owner' = "live"
    /\ \/ /\ mState' = "IDLE"
          /\ eventFd' = 0
          /\ pc' = "top"
       \/ UNCHANGED <<mState, eventFd, pc>>
    /\ UNCHANGED <<interactionLock, mDurationMs, elapsed, timeoutMs, pollLeft,
                   why, promised>>

(* A condition variable's notify: a parked Routine goes back to its test. *)
WakeNobody == pc
Wake == IF pc = "parked" THEN "top" ELSE pc

(* AbortWaitLocked: the write adds one to the eventfd's counter. *)
AbortWait == eventFd' = eventFd + 1

(* Exit up to lk.unlock(); an uninitialized handler returns at once. *)
ExitBegin ==
    /\ owner = "live"
    /\ IF mState = "UNINITIALIZED"
       THEN owner' = "gone" /\ UNCHANGED <<mState, eventFd>>
       ELSE /\ owner' = "notify"
            /\ AbortWait
            /\ mState' = "UNINITIALIZED"
    /\ UNCHANGED <<interactionLock, mDurationMs, elapsed, pc, timeoutMs,
                   pollLeft, why, promised>>

(* mCond.notify_all() *)
ExitNotify ==
    /\ owner = "notify"
    /\ owner' = "join"
    /\ pc' = Wake
    /\ UNCHANGED <<mState, eventFd, interactionLock, mDurationMs, elapsed,
                   timeoutMs, pollLeft, why, promised>>

(* mThread->join() and the two close calls *)
ExitJoin ==
    /\ owner = "join"
    /\ pc = "done"
    /\ owner' = "gone"
    /\ UNCHANGED <<mState, eventFd, interactionLock, mDurationMs, elapsed, pc,
                   timeoutMs, pollLeft, why, promised>>

FinalDuration(duration) ==
    Smaller(MaxDurationMs, Larger(MinDurationMs, duration + Slack))

(* The previous hint's duration covers this one. *)
CoveredWhateverElapsed(final) == mState # "IDLE" /\ final <= mDurationMs
Covered(final) ==
    /\ mState # "IDLE"
    /\ final <= mDurationMs
    /\ elapsed <= mDurationMs - final

AfterAcquireKeepsWaiting == IF mState = "WAITING" THEN "WAITING" ELSE "INTERACTION"
AfterAcquire == "INTERACTION"

(* Acquire, all of it under mLock *)
Acquire(duration) ==
    LET final == FinalDuration(duration)
    IN  /\ mState # "UNINITIALIZED"
        /\ promised' = Larger(promised, final)
        /\ IF Covered(final)
           THEN UNCHANGED <<mState, eventFd, interactionLock, mDurationMs,
                            elapsed, pc>>
           ELSE /\ elapsed' = 0
                /\ mDurationMs' = final
                /\ IF mState = "WAITING" THEN AbortWait ELSE UNCHANGED eventFd
                /\ interactionLock' = IF mState = "IDLE" THEN 1
                                      ELSE interactionLock
                /\ mState' = AfterAcquire
                /\ pc' = Wake
        /\ UNCHANGED <<timeoutMs, pollLeft, why, owner>>
-----------------------------------------------------------------------------
(* Routine: mCond.wait with its predicate, then one round of the loop. *)
RoutineWait ==
    /\ pc = "top"
    /\ CASE mState = "IDLE" -> pc' = "parked" /\ UNCHANGED mState
         [] mState = "UNINITIALIZED" -> pc' = "done" /\ UNCHANGED mState
         [] OTHER -> pc' = "args" /\ mState' = "WAITING"
    /\ UNCHANGED <<eventFd, interactionLock, mDurationMs, elapsed, timeoutMs,
                   pollLeft, why, owner, promised>>

(* WaitForIdle(mWaitMs, mDurationMs): mDurationMs is read without mLock. *)
RoutineArgs ==
    /\ pc = "args"
    /\ timeoutMs' = mDurationMs
    /\ pollLeft' = WaitMs
    /\ pc' = "poll1"
    /\ UNCHANGED <<mState, eventFd, interactionLock, mDurationMs, elapsed, why,
                   owner, promised>>

Return(reason) ==
    /\ pc' = "release"
    /\ why' = reason
    /\ UNCHANGED <<mState, eventFd, interactionLock, mDurationMs, elapsed,
                   timeoutMs, pollLeft, owner, promised>>

(* poll(pfd, n, ms) returns: the eventfd is readable, or poll failed. *)
PollAborted == pc \in {"poll1", "poll2"} /\ eventFd > 0 /\ Return("abort")
PollFailed == pc \in {"poll1", "poll2"} /\ Return("error")

PollRunsOutNever == FALSE
PollRunsOut == eventFd = 0 /\ pollLeft = 0

(* poll(pfd, 1, wait_ms) returns 0 *)
Poll1Timeout ==
    /\ pc = "poll1"
    /\ PollRunsOut
    /\ pc' = "idle"
    /\ UNCHANGED <<mState, eventFd, interactionLock, mDurationMs, elapsed,
                   timeoutMs, pollLeft, why, owner, promised>>

(* pread of the idle state: end of file, "idle", or anything else *)
ReadIdle ==
    /\ pc = "idle"
    /\ \/ Return("error")
       \/ Return("idle")
       \/ /\ pc' = "poll2"
          /\ pollLeft' = timeoutMs
          /\ UNCHANGED <<mState, eventFd, interactionLock, mDurationMs, elapsed,
                         timeoutMs, why, owner, promised>>

(* poll(pfd, 2, timeout_ms) returns 0, or reports the idle node *)
Poll2Timeout == pc = "poll2" /\ PollRunsOut /\ Return("timeout")
Poll2Idle == pc = "poll2" /\ eventFd = 0 /\ Return("idle")

PerfRelForgotten == UNCHANGED interactionLock
PerfRel == interactionLock' = 0

DrainForgotten == UNCHANGED eventFd
Drain == eventFd' = 0

StillWaitingUnchecked == mState # "UNINITIALIZED"
StillWaiting == mState = "WAITING"

(* Release, all of it under mLock *)
Release ==
    /\ pc = "release"
    /\ pc' = "top"
    /\ IF StillWaiting
       THEN /\ PerfRel
            /\ promised' = 0
            /\ mState' = "IDLE"
            /\ UNCHANGED eventFd
       ELSE /\ Drain
            /\ UNCHANGED <<interactionLock, promised, mState>>
    /\ UNCHANGED <<mDurationMs, elapsed, timeoutMs, pollLeft, why, owner>>

(* One unit of time passes for every timer. *)
Tick ==
    /\ elapsed' = Smaller(elapsed + 1, MaxDurationMs + 1)
    /\ pollLeft' = Larger(pollLeft - 1, 0)
    /\ promised' = Larger(promised - 1, 0)
    /\ UNCHANGED <<mState, eventFd, interactionLock, mDurationMs, pc,
                   timeoutMs, why, owner>>

(* What Routine does by itself, and what depends on the display or on poll. *)
Routine ==
    \/ RoutineWait
    \/ RoutineArgs
    \/ PollAborted
    \/ Poll1Timeout
    \/ ReadIdle
    \/ Poll2Timeout
    \/ Release
Environment == PollFailed \/ Poll2Idle

Exit == ExitBegin \/ ExitNotify \/ ExitJoin

Next ==
    \/ InitHandler
    \/ Exit
    \/ \E d \in Inputs : Acquire(d)
    \/ Routine
    \/ Environment
    \/ Tick

Spec == Init /\ [][Next]_vars

(* A runnable thread runs, an Exit that has begun goes on, and time passes. *)
FairSpec ==
    /\ Spec
    /\ WF_vars(Routine)
    /\ WF_vars(ExitNotify \/ ExitJoin)
    /\ WF_vars(Tick)
-----------------------------------------------------------------------------
(* The hint is held exactly while an interaction is being served: PerfLock  *)
(* and PerfRel alternate whatever Acquire and Release interleave.           *)
LockMatchesState ==
    owner = "live" =>
        (interactionLock = 1 <=> mState \in {"INTERACTION", "WAITING"})

(* A wait abort written to mEventFd by one interaction never cuts short the *)
(* wait of a later one: Release has drained it before WAITING is entered.   *)
NoStaleAbort == eventFd > 0 => mState \in {"INTERACTION", "UNINITIALIZED"}

(* mDurationMs is read outside mLock, yet a wait whose result will be acted *)
(* on (mState still WAITING) always runs with the current duration.         *)
TimeoutIsFresh ==
    mState = "WAITING" /\ pc \in {"poll1", "idle", "poll2"}
        => timeoutMs = mDurationMs

(* Neither the "already covered" shortcut of Acquire nor a race between a   *)
(* poll that times out and a new Acquire gives the hint back before every   *)
(* Acquire has had its duration, unless the display is idle or a wait fails. *)
HintKeptForDuration ==
    [][interactionLock = 1 /\ interactionLock' = 0
         => promised = 0 \/ why \in {"idle", "error"}]_vars

(* Exit ends: Routine cannot sleep through notify_all or the abort. *)
ExitTerminates == owner = "notify" ~> owner = "gone"

(* When interactions stop coming the hint is given back (or Exit is called). *)
HintReleased ==
    <>[](mState # "INTERACTION")
        => []<>(interactionLock = 0 \/ mState = "UNINITIALIZED")
=============================================================================
