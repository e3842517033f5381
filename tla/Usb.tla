-------------------------------- MODULE Usb --------------------------------
(***************************************************************************)
(* The USB type-C HAL (src/usb/Usb.cpp).  The service runs one binder      *)
(* thread, on which every call of the framework is made, and a worker that *)
(* setCallback creates to receive the kernel's uevents.  They meet at      *)
(* three mutexes:                                                          *)
(*                                                                         *)
(*   mLock            held while a status is read and reported, and while  *)
(*                    setCallback(NULL) joins the worker;                  *)
(*   mRoleSwitchLock  held for a whole role switch, and tried by the       *)
(*                    worker before it returns a port to dual role;        *)
(*   mPartnerLock     protects mPartnerUp and the condition variable on    *)
(*                    which a mode switch waits for its partner.           *)
(*                                                                         *)
(* One port is modelled.  Its sysfs nodes are the two kernel variables     *)
(* portType and partner; the partner comes and goes as it pleases.  Plug   *)
(* events, calls, failed file operations and spurious wake-ups are         *)
(* bounded; the uevent socket is taken to be large enough for the bounded  *)
(* plug events.                                                            *)
(***************************************************************************)
EXTENDS Naturals, Sequences

CONSTANTS
  Modes,        \* the modes a switch can ask for, other than "dual"
  MaxPlugs,     \* bound on plug events
  MaxCalls,     \* bound on calls of the framework
  MaxFaults     \* bound on failed file operations and spurious wake-ups

ASSUME ModesAssumption == {"dual", "other"} \cap Modes = {}
ASSUME BoundsAssumption == MaxPlugs \in Nat /\ MaxCalls \in Nat /\ MaxFaults \in Nat

VARIABLES
  \* the kernel
  portType,         \* /sys/class/typec/port/port_type
  partner,          \* whether /sys/class/typec/port-partner exists
  uevents,          \* messages in the worker's socket, first the one it handles
  \* the members of Usb
  mCallback,        \* whether a callback is registered
  mLock, mRoleSwitchLock, mPartnerLock,   \* the owner of each mutex
  mPartnerUp,
  destroyThread,
  \* the threads
  binder,           \* where the binder thread is
  worker,           \* where the worker is
  role,             \* switchRole: the mode of in_role, "other" for a power or data role
  roleSwitch,       \* switchRole: roleSwitch
  refused,          \* history: the kernel refused the mode, which nobody noticed
  port,             \* queryVersionHelper: the status each thread has read
  told,             \* history: the status the callback was last told since
                    \* the worker listens
  \* what is left of the bounds
  plugs, calls, faults

kernel == <<portType, partner, uevents>>
locks == <<mLock, mRoleSwitchLock, mPartnerLock>>
switch == <<role, roleSwitch, refused>>
bounds == <<plugs, calls, faults>>
vars == <<kernel, mCallback, locks, mPartnerUp, destroyThread, binder, worker,
          switch, port, told, bounds>>

Threads == {"binder", "worker"}
Listening == worker \notin {"none", "start", "exited"}

\* No status: the nodes of a role cannot be read, or not even the port is found
Failed == {"error", "noports"}
Statuses == {"unknown", "connected", "disconnected"} \cup Failed

BinderAt == {"idle", "open", "clear", "write", "enter", "wait", "woken", "timedout",
             "drp", "result", "read", "notify", "join"}
WorkerAt == {"none", "start", "test", "tested", "poll", "signal", "read", "notify", "trylock",
             "check", "drp", "exited"}

\* The type of every variable of the HAL, its threads and the kernel's nodes.
TypeOK ==
  /\ portType \in Modes \cup {"dual"}
  /\ partner \in BOOLEAN
  /\ uevents \in Seq({"add", "remove"})
  /\ mCallback \in BOOLEAN
  /\ mLock \in Threads \cup {"free"}
  /\ mRoleSwitchLock \in Threads \cup {"free"}
  /\ mPartnerLock \in {"binder", "free"}
  /\ mPartnerUp \in BOOLEAN
  /\ destroyThread \in BOOLEAN
  /\ binder \in BinderAt
  /\ worker \in WorkerAt
  /\ role \in Modes \cup {"other"}
  /\ roleSwitch \in BOOLEAN /\ refused \in BOOLEAN
  /\ port \in [Threads -> Statuses]
  /\ told \in Statuses
  /\ plugs \in 0 .. MaxPlugs
  /\ calls \in 0 .. MaxCalls
  /\ faults \in 0 .. MaxFaults

Init ==
  /\ portType = "dual"
  /\ partner \in BOOLEAN
  /\ uevents = <<>>
  /\ mCallback = FALSE
  /\ mLock = "free" /\ mRoleSwitchLock = "free" /\ mPartnerLock = "free"
  /\ mPartnerUp = FALSE
  /\ destroyThread = FALSE
  /\ binder = "idle"
  /\ worker = "none"
  /\ role = "other"
  /\ roleSwitch = FALSE /\ refused = FALSE
  /\ port = [t \in Threads |-> "unknown"]
  /\ told = "unknown"
  /\ plugs = MaxPlugs /\ calls = MaxCalls /\ faults = MaxFaults

(***************************************************************************)
(* The kernel: a partner is plugged or unplugged and, if the worker's      *)
(* socket is open, a uevent is queued.                                     *)
(***************************************************************************)
Plug ==
  /\ plugs > 0
  /\ plugs' = plugs - 1
  /\ partner' = ~partner
  /\ uevents' = IF Listening THEN Append(uevents, IF partner THEN "remove" ELSE "add")
                             ELSE uevents
  /\ UNCHANGED <<portType, mCallback, locks, mPartnerUp, destroyThread, binder, worker,
                 switch, port, told, calls, faults>>

-----------------------------------------------------------------------------
(***************************************************************************)
(* queryVersionHelper, on either thread: the status is read and reported   *)
(* under mLock.  A status read before the worker listens counts as         *)
(* unknown: a change that follows it raises no event.  When reading fails  *)
(* the callback is told Status::ERROR: the directory cannot be opened, or  *)
(* a role of a connected port cannot be read.                              *)
(***************************************************************************)
PortStatus == IF partner THEN "connected" ELSE "disconnected"

\* mutant: the status is read before mLock is taken
StatusReadUnlocked(t) ==
  /\ port' = [port EXCEPT ![t] = IF Listening THEN PortStatus ELSE "unknown"]
  /\ UNCHANGED <<mLock, faults>>

StatusRead(t) ==
  /\ mLock = "free"
  /\ mLock' = t
  /\ \/ /\ port' = [port EXCEPT ![t] = IF Listening THEN PortStatus ELSE "unknown"]
        /\ UNCHANGED faults
     \/ /\ faults > 0 /\ faults' = faults - 1
        /\ \E v \in Failed : (v = "error" => partner) /\ port' = [port EXCEPT ![t] = v]

StatusNotified(t) ==
  /\ mLock' = "free"
  /\ told' = IF mCallback THEN port[t] ELSE told

(***************************************************************************)
(* The binder thread: queryPortStatus, enableUsbData and                   *)
(* enableContaminantPresenceDetection report a result of their own under   *)
(* mLock, which changes nothing here, and the port's status.               *)
(***************************************************************************)
BinderCalls == binder = "idle" /\ calls > 0 /\ calls' = calls - 1

queryPortStatus ==
  /\ BinderCalls
  /\ binder' = "read"
  /\ UNCHANGED <<kernel, mCallback, locks, mPartnerUp, destroyThread, worker, switch,
                 port, told, plugs, faults>>

QueryRead ==
  /\ binder = "read"
  /\ binder' = "notify"
  /\ StatusRead("binder")
  /\ UNCHANGED <<kernel, mCallback, mRoleSwitchLock, mPartnerLock, mPartnerUp,
                 destroyThread, worker, switch, told, plugs, calls>>

QueryNotify ==
  /\ binder = "notify"
  /\ binder' = "idle"
  /\ StatusNotified("binder")
  /\ UNCHANGED <<kernel, mCallback, mRoleSwitchLock, mPartnerLock, mPartnerUp,
                 destroyThread, worker, switch, port, bounds>>

-----------------------------------------------------------------------------
(***************************************************************************)
(* switchRole.  A power or data role is written and read back; the kernel  *)
(* takes the role or not.  A mode goes through switchMode.                 *)
(***************************************************************************)
SwitchOther ==
  /\ BinderCalls
  /\ mRoleSwitchLock = "free"
  /\ mRoleSwitchLock' = "binder"
  /\ role' = "other"
  /\ \E ok \in BOOLEAN : roleSwitch' = ok
  /\ refused' = FALSE
  /\ binder' = "result"
  /\ UNCHANGED <<kernel, mCallback, mLock, mPartnerLock, mPartnerUp, destroyThread, worker,
                 port, told, plugs, faults>>

SwitchMode ==
  /\ BinderCalls
  /\ mRoleSwitchLock = "free"
  /\ mRoleSwitchLock' = "binder"
  /\ \E r \in Modes : role' = r
  /\ roleSwitch' = FALSE /\ refused' = FALSE
  /\ binder' = "open"
  /\ UNCHANGED <<kernel, mCallback, mLock, mPartnerLock, mPartnerUp, destroyThread, worker,
                 port, told, plugs, faults>>

\* fopen of the port_type node
OpenNode ==
  /\ binder = "open"
  /\ \/ binder' = "clear" /\ UNCHANGED faults
     \/ faults > 0 /\ faults' = faults - 1 /\ binder' = "drp"
  /\ UNCHANGED <<kernel, mCallback, locks, mPartnerUp, destroyThread, worker, switch, port,
                 told, plugs, calls>>

\* mutant: mPartnerUp is reset without mPartnerLock
ClearUnlocked ==
  /\ binder = "clear"
  /\ mPartnerUp' = FALSE
  /\ binder' = "write"
  /\ UNCHANGED <<kernel, mCallback, locks, destroyThread, worker, switch, port,
                 told, bounds>>

\* mPartnerLock is taken and held over the write, until the wait
ClearPartner ==
  /\ binder = "clear"
  /\ mPartnerLock = "free"
  /\ mPartnerLock' = "binder"
  /\ mPartnerUp' = FALSE
  /\ binder' = "write"
  /\ UNCHANGED <<kernel, mCallback, mLock, mRoleSwitchLock, destroyThread, worker, switch,
                 port, told, bounds>>

\* fputs only fills the buffer of fp: what the kernel makes of the mode shows
\* in fclose, whose result is not looked at
WriteMode ==
  /\ binder = "write"
  /\ \/ /\ portType' = role
        /\ binder' = "enter"
        /\ UNCHANGED <<mPartnerLock, refused, faults>>
     \/ /\ faults > 0 /\ faults' = faults - 1
        /\ refused' = TRUE
        /\ binder' = "enter"
        /\ UNCHANGED <<portType, mPartnerLock>>
     \/ /\ faults > 0 /\ faults' = faults - 1
        /\ mPartnerLock' = "free"
        /\ binder' = "drp"
        /\ UNCHANGED <<portType, refused>>
  /\ UNCHANGED <<partner, uevents, mCallback, mLock, mRoleSwitchLock, mPartnerUp,
                 destroyThread, worker, role, roleSwitch, port, told, plugs, calls>>

\* pthread_cond_timedwait releases mPartnerLock, and returns when it is
\* signalled (WorkerSignal), when the time is over, or spuriously
EnterWait ==
  /\ binder = "enter"
  /\ mPartnerLock' = "free"
  /\ binder' = "wait"
  /\ UNCHANGED <<kernel, mCallback, mLock, mRoleSwitchLock, mPartnerUp, destroyThread,
                 worker, switch, port, told, bounds>>

TimeOut ==
  /\ binder = "wait"
  /\ binder' = "timedout"
  /\ UNCHANGED <<kernel, mCallback, locks, mPartnerUp, destroyThread, worker, switch, port,
                 told, bounds>>

SpuriousWakeUp ==
  /\ binder = "wait"
  /\ faults > 0
  /\ faults' = faults - 1
  /\ binder' = "woken"
  /\ UNCHANGED <<kernel, mCallback, locks, mPartnerUp, destroyThread, worker, switch, port,
                 told, plugs, calls>>

\* mutant: a wait that timed out is started again
DecideAgain ==
  /\ binder \in {"woken", "timedout"}
  /\ mPartnerLock = "free"
  /\ \/ ~mPartnerUp /\ binder' = "wait" /\ UNCHANGED roleSwitch
     \/ mPartnerUp /\ binder' = "result" /\ roleSwitch' = TRUE
  /\ UNCHANGED <<kernel, mCallback, locks, mPartnerUp, destroyThread, worker, role,
                 refused, port, told, bounds>>

\* The wait is over and has mPartnerLock again
Decide ==
  /\ mPartnerLock = "free"
  /\ \/ binder = "timedout" /\ binder' = "drp" /\ UNCHANGED roleSwitch
     \/ binder = "woken" /\ ~mPartnerUp /\ binder' = "wait" /\ UNCHANGED roleSwitch
     \/ binder = "woken" /\ mPartnerUp /\ binder' = "result" /\ roleSwitch' = TRUE
  /\ UNCHANGED <<kernel, mCallback, locks, mPartnerUp, destroyThread, worker, role,
                 refused, port, told, bounds>>

\* switchToDrp: "dual" is written, or the write fails
Dual ==
  \/ portType' = "dual" /\ UNCHANGED faults
  \/ faults > 0 /\ faults' = faults - 1 /\ UNCHANGED portType

SwitchBack ==
  /\ binder = "drp"
  /\ Dual
  /\ binder' = "result"
  /\ UNCHANGED <<partner, uevents, mCallback, locks, mPartnerUp, destroyThread, worker,
                 switch, port, told, plugs, calls>>

\* notifyRoleSwitchStatus under mLock, then the end of switchRole
ReportResult ==
  /\ binder = "result"
  /\ mLock = "free"
  /\ mRoleSwitchLock' = "free"
  /\ binder' = "idle"
  /\ UNCHANGED <<kernel, mCallback, mLock, mPartnerLock, mPartnerUp, destroyThread, worker,
                 switch, port, told, bounds>>

-----------------------------------------------------------------------------
(***************************************************************************)
(* setCallback                                                             *)
(***************************************************************************)
\* Both values are NULL, or neither is
ReplaceCallback ==
  /\ BinderCalls
  /\ mLock = "free"
  /\ told' = "unknown"
  /\ UNCHANGED <<kernel, mCallback, locks, mPartnerUp, destroyThread, binder, worker, switch,
                 port, plugs, faults>>

\* The first callback: the worker is created, or that fails
RegisterCallback ==
  /\ BinderCalls
  /\ mLock = "free"
  /\ ~mCallback
  /\ destroyThread' = FALSE
  /\ told' = "unknown"
  /\ \/ mCallback' = TRUE /\ worker' = "start" /\ UNCHANGED faults
     \/ faults > 0 /\ faults' = faults - 1 /\ UNCHANGED <<mCallback, worker>>
  /\ UNCHANGED <<kernel, locks, mPartnerUp, binder, switch, port, plugs>>

\* The callback is taken away: SIGUSR1 sets destroyThread and interrupts the
\* worker's epoll_wait, if it has come so far: one that has made its test
\* (worker = "tested") goes to sleep with destroyThread set.  mLock stays taken
\* until the worker is joined
UnregisterCallback ==
  /\ BinderCalls
  /\ mLock = "free"
  /\ mCallback
  /\ mCallback' = FALSE
  /\ mLock' = "binder"
  /\ destroyThread' = TRUE
  /\ worker' = IF worker = "poll" THEN "test" ELSE worker
  /\ binder' = "join"
  /\ UNCHANGED <<kernel, mRoleSwitchLock, mPartnerLock, mPartnerUp, switch, port, told, plugs, faults>>

Joined ==
  /\ binder = "join"
  /\ worker = "exited"
  /\ mLock' = "free"
  /\ binder' = "idle"
  /\ UNCHANGED <<kernel, mCallback, mRoleSwitchLock, mPartnerLock, mPartnerUp,
                 destroyThread, worker, switch, port, told, bounds>>

-----------------------------------------------------------------------------
(***************************************************************************)
(* The worker: work and uevent_event                                       *)
(***************************************************************************)
\* uevent_open_socket and epoll; without them the worker ends
OpenSocket ==
  /\ worker = "start"
  /\ uevents' = <<>>
  /\ \/ worker' = "test" /\ UNCHANGED faults
     \/ faults > 0 /\ faults' = faults - 1 /\ worker' = "exited"
  /\ UNCHANGED <<portType, partner, mCallback, locks, mPartnerUp, destroyThread, binder,
                 switch, port, told, plugs, calls>>

TestDestroy ==
  /\ worker = "test"
  /\ worker' = IF destroyThread THEN "exited" ELSE "tested"
  /\ UNCHANGED <<kernel, mCallback, locks, mPartnerUp, destroyThread, binder, switch, port,
                 told, bounds>>

\* epoll_wait begins
Poll ==
  /\ worker = "tested"
  /\ worker' = "poll"
  /\ UNCHANGED <<kernel, mCallback, locks, mPartnerUp, destroyThread, binder, switch, port,
                 told, bounds>>

\* epoll_wait returns with a message; the partner's own name in an add
\* message comes before its DEVTYPE
Receive ==
  /\ worker = "poll"
  /\ uevents # <<>>
  /\ worker' = IF Head(uevents) = "add" THEN "signal" ELSE "read"
  /\ UNCHANGED <<kernel, mCallback, locks, mPartnerUp, destroyThread, binder, switch, port,
                 told, bounds>>

WorkerSignal ==
  /\ worker = "signal"
  /\ mPartnerLock = "free"
  /\ mPartnerUp' = TRUE
  /\ binder' = IF binder = "wait" THEN "woken" ELSE binder
  /\ worker' = "read"
  /\ UNCHANGED <<kernel, mCallback, locks, destroyThread, switch, port, told, bounds>>

WorkerRead ==
  /\ worker = "read"
  /\ StatusRead("worker")
  /\ worker' = "notify"
  /\ UNCHANGED <<kernel, mCallback, mRoleSwitchLock, mPartnerLock, mPartnerUp,
                 destroyThread, binder, switch, told, plugs, calls>>

WorkerNotify ==
  /\ worker = "notify"
  /\ StatusNotified("worker")
  /\ worker' = "trylock"
  /\ UNCHANGED <<kernel, mCallback, mRoleSwitchLock, mPartnerLock, mPartnerUp,
                 destroyThread, binder, switch, port, bounds>>

\* mutant: the worker goes on while a role switch is in progress
TryLockIgnored ==
  /\ worker = "trylock"
  /\ worker' = "check"
  /\ UNCHANGED <<kernel, mCallback, locks, mPartnerUp, destroyThread, binder, switch, port,
                 told, bounds>>

\* pthread_mutex_trylock; the message is done with if the lock is taken
TryLock ==
  /\ worker = "trylock"
  /\ \/ /\ mRoleSwitchLock = "free"
        /\ mRoleSwitchLock' = "worker"
        /\ worker' = "check"
        /\ UNCHANGED uevents
     \/ /\ mRoleSwitchLock # "free"
        /\ worker' = "test"
        /\ uevents' = Tail(uevents)
        /\ UNCHANGED mRoleSwitchLock
  /\ UNCHANGED <<portType, partner, mCallback, mLock, mPartnerLock, mPartnerUp,
                 destroyThread, binder, switch, port, told, bounds>>

\* Each port that was found is looked at again
CheckPartner ==
  /\ worker = "check"
  /\ \/ /\ partner \/ port["worker"] = "noports"
        /\ mRoleSwitchLock' = "free"
        /\ worker' = "test"
        /\ uevents' = Tail(uevents)
     \/ /\ ~partner /\ port["worker"] # "noports"
        /\ worker' = "drp"
        /\ UNCHANGED <<uevents, mRoleSwitchLock>>
  /\ UNCHANGED <<portType, partner, mCallback, mLock, mPartnerLock, mPartnerUp,
                 destroyThread, binder, switch, port, told, bounds>>

WorkerDrp ==
  /\ worker = "drp"
  /\ Dual
  /\ mRoleSwitchLock' = "free"
  /\ worker' = "test"
  /\ uevents' = Tail(uevents)
  /\ UNCHANGED <<partner, mCallback, mLock, mPartnerLock, mPartnerUp, destroyThread, binder,
                 switch, port, told, plugs, calls>>

-----------------------------------------------------------------------------
BinderStep ==
  \/ QueryRead \/ QueryNotify
  \/ OpenNode \/ ClearPartner \/ WriteMode \/ EnterWait \/ TimeOut \/ Decide
  \/ SwitchBack \/ ReportResult \/ Joined

WorkerStep ==
  \/ OpenSocket \/ TestDestroy \/ Poll \/ Receive \/ WorkerSignal \/ WorkerRead \/ WorkerNotify
  \/ TryLock \/ CheckPartner \/ WorkerDrp

FrameworkCalls ==
  \/ queryPortStatus \/ SwitchOther \/ SwitchMode
  \/ ReplaceCallback \/ RegisterCallback \/ UnregisterCallback

Next == Plug \/ FrameworkCalls \/ SpuriousWakeUp \/ BinderStep \/ WorkerStep

Spec == Init /\ [][Next]_vars

\* Both threads run; neither the framework nor the partner need do anything
FairSpec == Spec /\ WF_vars(BinderStep) /\ WF_vars(WorkerStep)

-----------------------------------------------------------------------------
(***************************************************************************)
(* Properties                                                              *)
(***************************************************************************)
\* A mode switch never sleeps on mPartnerCV when its partner is up: the lock
\* held from the reset of mPartnerUp to the wait keeps the signal from
\* being lost between the two.
SignalNotLost == binder = "wait" => ~mPartnerUp

\* While a mode switch waits, and when it reports success, the port has the
\* mode that was asked for, unless the kernel refused it: the worker does not
\* return the port to dual role in the middle of a switch.  A refused mode is
\* not noticed: the switch waits, and a partner that comes up meanwhile makes
\* it a success although port_type is unchanged.
RoleHeld ==
  \/ binder \in {"enter", "wait", "woken", "timedout"}
  \/ binder = "result" /\ role \in Modes /\ roleSwitch
  => portType = role \/ refused

\* When every event is handled and no report is under way, the last status
\* the callback was told since the worker listens is the port's, unless
\* reading it failed: reading and reporting in one critical section keeps an
\* older status of one thread from being reported after a newer one of the other.
ToldIsCurrent ==
  /\ worker \in {"test", "tested", "poll"} /\ uevents = <<>>
  /\ told \notin {"unknown"} \cup Failed
  => told = PortStatus

\* Every role switch ends: the wait for a partner has a timeout, and the
\* worker never keeps a lock the switch needs.
SwitchReturns == (mRoleSwitchLock = "binder") ~> (mRoleSwitchLock # "binder")
=============================================================================
