----------------------------- MODULE NodeLooper -----------------------------
(***************************************************************************)
(* power/libperfmgr: HintManager turns a power hint into requests on nodes, *)
(* a node keeps for every one of its values (index 0 is the strongest) the  *)
(* hints that ask for it and until when, and NodeLooperThread applies the   *)
(* strongest value asked for, sleeps until a request may have expired and   *)
(* starts again.                                                            *)
(*                                                                         *)
(* Actors: a binder thread that calls DoHint and EndHint, the looper, and   *)
(* the owner that calls Start and Stop.  What is done under lock_ is atomic *)
(* for the callers; for the looper every Node::Update is a step, so that    *)
(* time may pass during the two passes.  Deadlines count down: a request is *)
(* the time it has left, 0 when it is absent or has expired (GetExpireTime  *)
(* drops an expired request before anything else looks at it).              *)
(***************************************************************************)
EXTENDS Integers

CONSTANTS
    NumNodes,     \* the nodes are 1..NumNodes, in the order of nodes_
    MaxIndex,     \* every node has the values 0..MaxIndex
    Default,      \* node -> its default_val_index_
    Kind,         \* node -> "file", "hold" (a FileNode with hold_fd_), "property"
    ResetOnInit,  \* the nodes with reset_on_init_
    Clash,        \* <<n, v, m, w>>: the kernel refuses v on n while m is at w
    Hints,
    Actions,      \* hint -> set of [node, value, timeout]; timeout 0: no limit
    Overrides,    \* the timeouts of DoHint(hint, timeout_ms_override)
    MaxTimeout,   \* bound: the longest timeout
    Retry,        \* the 500 ms after which a failed write is retried
    MaxFailures,  \* bound: transient failures of a write
    MaxSlow       \* bound: time spent in the passes of one threadLoop

Nodes == 1..NumNodes
Values == 0..MaxIndex
Forever == MaxTimeout + 1
NoOverride == -1

(* What ParseNodes lets through: at least one node, each with a default     *)
(* among its values.                                                        *)
NodesParsed ==
    /\ NumNodes \in Nat \ {0}
    /\ MaxIndex \in Nat
    /\ Default \in [Nodes -> Values]
    /\ Kind \in [Nodes -> {"file", "hold", "property"}]
    /\ ResetOnInit \subseteq Nodes

(* What ParseActions lets through: every action names a node and a value of *)
(* it, and a hint acts on a node once.                                      *)
ActionsParsed ==
    \A h \in Hints : \A a \in Actions[h] :
        /\ a.node \in Nodes
        /\ a.value \in Values
        /\ a.timeout \in 0..MaxTimeout
        /\ \A b \in Actions[h] : a.node = b.node => a = b

ASSUME NodeAssumption ==
    /\ NodesParsed
    /\ ActionsParsed
    /\ MaxTimeout \in Nat
    /\ Overrides \subseteq 0..MaxTimeout
    /\ Retry \in 1..MaxTimeout
    /\ MaxFailures \in Nat
    /\ MaxSlow \in Nat

VARIABLES
    req,          \* node, value, hint -> time left of the request
    current,      \* current_val_index_
    resetOnInit,  \* nodes that must be written whatever current says
    fd,           \* what was written to fd_: Closed, Empty or a value
    pc,           \* the looper thread
    node,         \* looper: the node Update is called on
    timeoutMs,    \* looper: timeout_ms, then the time left of waitRelative
    slow,         \* looper: time spent in the second pass
    failed,       \* looper: nodes whose last Update failed to write
    hiccup,       \* looper: 1 if a write failed for no lasting reason
    exitPending,  \* Thread::mExitPending
    owner,        \* the thread that calls Start and Stop
    caller,       \* the binder thread
    failures,     \* transient failures left
    promised      \* history: for how long a caller may still rely on a request

vars == <<req, current, resetOnInit, fd, pc, node, timeoutMs, slow, failed,
          hiccup, exitPending, owner, caller, failures, promised>>

Closed == -1
Empty == MaxIndex + 1
Calls == [op : {"request"}, hint : Hints, override : Overrides \cup {NoOverride}]
            \cup [op : {"cancel"}, hint : Hints, override : {NoOverride}]
Idle == [op |-> "idle"]
InPass == {"pass1", "pass2"}

TypeOK ==
    /\ req \in [Nodes \X Values \X Hints -> 0..Forever]
    /\ current \in [Nodes -> Values]
    /\ resetOnInit \subseteq Nodes
    /\ fd \in [Nodes -> Closed..Empty]
    /\ pc \in {"none", "enter", "wait", "check", "exited"} \cup InPass
    /\ node \in Nodes
    /\ timeoutMs \in 0..Forever
    /\ slow \in 0..MaxSlow
    /\ failed \subseteq Nodes
    /\ hiccup \in {0, 1}
    /\ exitPending \in {0, 1}
    /\ owner \in {"new", "live", "join", "stopped"}
    /\ caller \in Calls \cup {Idle}
    /\ failures \in 0..MaxFailures
    /\ promised \in [Nodes \X Values \X Hints -> 0..Forever]

Init ==
    /\ req = [k \in Nodes \X Values \X Hints |-> 0]
    /\ current = Default
    /\ resetOnInit = ResetOnInit
    /\ fd = [n \in Nodes |-> Closed]
    /\ pc = "none"
    /\ node = 1
    /\ timeoutMs = 0
    /\ slow = 0
    /\ failed = {}
    /\ hiccup = 0
    /\ exitPending = 0
    /\ owner = "new"
    /\ caller = Idle
    /\ failures = MaxFailures
    /\ promised = [k \in Nodes \X Values \X Hints |-> 0]
-----------------------------------------------------------------------------
(* The smallest member of a set of integers. *)
Least(S) == CHOOSE x \in S : \A y \in S : x <= y

(* GetExpireTime's answer for a value: some request for it is still running. *)
Active(r, n, v) == \E h \in Hints : r[<<n, v, h>>] > 0

(* The first value of req_sorted_ with an active request, or the default. *)
Strongest(r, n) ==
    IF \E v \in Values : Active(r, n, v)
    THEN Least({v \in Values : Active(r, n, v)})
    ELSE Default[n]

(* *expire_time of the group that decides the node's value. *)
ExpireTime(n) ==
    Least(({req[<<n, Strongest(req, n), h>>] : h \in Hints} \ {0}) \cup {Forever})

(* RequestGroup::AddRequest: a running request is only ever extended. *)
Replaced(left, timeout) == timeout
Extended(left, timeout) == IF left < timeout THEN timeout ELSE left

(* The end time Request computes; a timeout of 0 means no limit. *)
EndTime(a, override) ==
    LET t == IF override = NoOverride THEN a.timeout ELSE override
    IN  IF t = 0 THEN Forever ELSE t

(* Request on the nodes: the end times the hint's actions ask for. *)
EndTimes(k, h, override) ==
    {EndTime(a, override) : a \in {b \in Actions[h] : b.node = k[1] /\ b.value = k[2]}}
AddRequests(r, h, override) ==
    [k \in Nodes \X Values \X Hints |->
        IF k[3] = h /\ EndTimes(k, h, override) # {}
        THEN Extended(r[k], CHOOSE t \in EndTimes(k, h, override) : TRUE)
        ELSE r[k]]

(* What a caller may rely on: the longest time it was promised. *)
Latest(T) == CHOOSE t \in T : \A u \in T : u <= t
Promise(r, h, override) ==
    [k \in Nodes \X Values \X Hints |->
        IF k[3] = h THEN Latest(EndTimes(k, h, override) \cup {r[k]}) ELSE r[k]]

(* Cancel on the nodes: every request of the hint on a node it acts on. *)
RemoveRequests(r, h) ==
    [k \in Nodes \X Values \X Hints |->
        IF k[3] = h /\ \E a \in Actions[h] : a.node = k[1] THEN 0 ELSE r[k]]

(* wake_cond_.signal(): a sleeping looper leaves waitRelative. *)
SignalForgotten == pc
Signal == IF pc = "wait" THEN "check" ELSE pc

(* DoHint and EndHint up to the test of exitPending, made without lock_. *)
CallBegin(call) ==
    /\ caller = Idle
    /\ exitPending = 0
    /\ caller' = call
    /\ UNCHANGED <<req, current, resetOnInit, fd, pc, node, timeoutMs, slow,
                   failed, hiccup, exitPending, owner, failures, promised>>

(* The rest of Request *)
Request ==
    /\ caller.op = "request"
    /\ pc \notin InPass
    /\ req' = AddRequests(req, caller.hint, caller.override)
    /\ promised' = Promise(promised, caller.hint, caller.override)
    /\ pc' = Signal
    /\ caller' = Idle
    /\ UNCHANGED <<current, resetOnInit, fd, node, timeoutMs, slow, failed,
                   hiccup, exitPending, owner, failures>>

(* The rest of Cancel *)
Cancel ==
    /\ caller.op = "cancel"
    /\ pc \notin InPass
    /\ req' = RemoveRequests(req, caller.hint)
    /\ promised' = RemoveRequests(promised, caller.hint)
    /\ pc' = Signal
    /\ caller' = Idle
    /\ UNCHANGED <<current, resetOnInit, fd, node, timeoutMs, slow, failed,
                   hiccup, exitPending, owner, failures>>
-----------------------------------------------------------------------------
(* threadLoop: take lock_ and start the first pass. *)
Enter ==
    /\ pc = "enter"
    /\ pc' = "pass1"
    /\ node' = 1
    /\ timeoutMs' = Forever
    /\ slow' = 0
    /\ failed' = {}
    /\ hiccup' = 0
    /\ UNCHANGED <<req, current, resetOnInit, fd, exitPending, owner, caller,
                   failures, promised>>

(* The kernel refuses the value because of where another node stands. *)
Refused(n, v) ==
    /\ Kind[n] # "property"
    /\ \E m \in Nodes : <<n, v, m, current[m]>> \in Clash

NeedsWrite(n) == Strongest(req, n) # current[n] \/ n \in resetOnInit

(* What Update returns: a FileNode that could not write comes back soon. *)
UpdateReturns(n, wrote) ==
    IF wrote \/ Kind[n] = "property" THEN ExpireTime(n)
    ELSE Least({ExpireTime(n), Retry})

(* On to the next node, to the second pass or to waitRelative.  Only the    *)
(* second pass looks at what Update returned.                               *)
OnePass(wrote) ==
    /\ timeoutMs' = Least({timeoutMs, UpdateReturns(node, wrote)})
    /\ IF node < NumNodes THEN node' = node + 1 /\ pc' = pc
       ELSE node' = 1 /\ pc' = "wait"
NextNode(wrote) ==
    /\ timeoutMs' = IF pc = "pass1" THEN timeoutMs
                    ELSE Least({timeoutMs, UpdateReturns(node, wrote)})
    /\ IF node < NumNodes THEN node' = node + 1 /\ pc' = pc
       ELSE node' = 1 /\ pc' = IF pc = "pass1" THEN "pass2" ELSE "wait"

UNCHANGEDInUpdate ==
    UNCHANGED <<req, slow, exitPending, owner, caller, promised>>

(* Update with nothing to write *)
UpdateNothing ==
    /\ pc \in InPass
    /\ ~NeedsWrite(node)
    /\ failed' = failed \ {node}
    /\ NextNode(TRUE)
    /\ UNCHANGED <<current, resetOnInit, fd, hiccup, failures>>
    /\ UNCHANGEDInUpdate

(* Update whose write succeeds; the file stays open only for hold_fd_ and a *)
(* value other than the default.                                            *)
UpdateWrites ==
    LET v == Strongest(req, node)
    IN  /\ pc \in InPass
        /\ NeedsWrite(node)
        /\ ~Refused(node, v)
        /\ current' = [current EXCEPT ![node] = v]
        /\ resetOnInit' = resetOnInit \ {node}
        /\ fd' = [fd EXCEPT ![node] =
                    IF Kind[node] = "hold" /\ v # Default[node] THEN v ELSE Closed]
        /\ failed' = failed \ {node}
        /\ NextNode(TRUE)
        /\ UNCHANGED <<hiccup, failures>>
        /\ UNCHANGEDInUpdate

(* fd_.reset(open(...)) has closed what was open before: a FileNode whose   *)
(* open fails is left closed, one whose write fails is left open, unwritten. *)
FdAfterFailure(n) == IF Kind[n] = "property" THEN {Closed} ELSE {Closed, Empty}

UpdateFails ==
    /\ pc \in InPass
    /\ NeedsWrite(node)
    /\ \/ Refused(node, Strongest(req, node)) /\ UNCHANGED <<hiccup, failures>>
       \/ failures > 0 /\ failures' = failures - 1 /\ hiccup' = 1
    /\ \E f \in FdAfterFailure(node) : fd' = [fd EXCEPT ![node] = f]
    /\ failed' = failed \cup {node}
    /\ NextNode(FALSE)
    /\ UNCHANGED <<current, resetOnInit>>
    /\ UNCHANGEDInUpdate

(* waitRelative returns on a timeout or for no reason. *)
WaitEnds ==
    /\ pc = "wait"
    /\ pc' = "check"
    /\ UNCHANGED <<req, current, resetOnInit, fd, node, timeoutMs, slow, failed,
                   hiccup, exitPending, owner, caller, failures, promised>>
Timeout == timeoutMs = 0 /\ WaitEnds

(* Thread::_threadLoop tests mExitPending between two calls of threadLoop. *)
Check ==
    /\ pc = "check"
    /\ pc' = IF exitPending = 1 THEN "exited" ELSE "enter"
    /\ UNCHANGED <<req, current, resetOnInit, fd, node, timeoutMs, slow, failed,
                   hiccup, exitPending, owner, caller, failures, promised>>
-----------------------------------------------------------------------------
(* NodeLooperThread::Start; Thread::run may fail. *)
Start ==
    /\ owner = "new"
    /\ owner' = "live"
    /\ pc' \in {"check", "none"}
    /\ UNCHANGED <<req, current, resetOnInit, fd, node, timeoutMs, slow, failed,
                   hiccup, exitPending, caller, failures, promised>>

(* Stop up to join: nothing at all when the thread is not running. *)
StopSignal ==
    /\ owner = "live"
    /\ IF pc = "none"
       THEN owner' = "stopped" /\ UNCHANGED <<pc, exitPending>>
       ELSE /\ pc \notin InPass
            /\ pc' = Signal
            /\ exitPending' = 1
            /\ owner' = "join"
    /\ UNCHANGED <<req, current, resetOnInit, fd, node, timeoutMs, slow, failed,
                   hiccup, caller, failures, promised>>

StopJoin ==
    /\ owner = "join"
    /\ pc = "exited"
    /\ owner' = "stopped"
    /\ UNCHANGED <<req, current, resetOnInit, fd, pc, node, timeoutMs, slow,
                   failed, hiccup, exitPending, caller, failures, promised>>

(* Time passes for every deadline; a request whose time is up is dropped. *)
Down(t) == IF t \in {0, Forever} THEN t ELSE t - 1
Tick ==
    /\ pc \in InPass => slow < MaxSlow
    /\ slow' = IF pc \in InPass THEN slow + 1 ELSE slow
    /\ req' = [k \in DOMAIN req |-> Down(req[k])]
    /\ promised' = [k \in DOMAIN promised |-> Down(promised[k])]
    /\ timeoutMs' = IF pc = "wait" THEN Down(timeoutMs) ELSE timeoutMs
    /\ UNCHANGED <<current, resetOnInit, fd, pc, node, failed, hiccup,
                   exitPending, owner, caller, failures>>

Looper == Enter \/ UpdateNothing \/ UpdateWrites \/ Timeout \/ Check
Caller == (\E call \in Calls : CallBegin(call)) \/ Request \/ Cancel

Next ==
    \/ Looper \/ UpdateFails \/ WaitEnds
    \/ Caller
    \/ Start \/ StopSignal \/ StopJoin
    \/ Tick

(* The looper, the caller inside a call and the clock keep going; nobody is *)
(* obliged to fail, to make a call or to stop the looper.                   *)
Spec == Init /\ [][Next]_vars
FairSpec ==
    /\ Spec
    /\ WF_vars(Looper \/ UpdateFails)
    /\ WF_vars(Request \/ Cancel)
    /\ WF_vars(StopJoin)
    /\ WF_vars(Tick)
-----------------------------------------------------------------------------
(* While the looper sleeps, every node whose last write was not refused has *)
(* the strongest value some caller may still rely on, and its default when  *)
(* there is none: a new request, a cancellation and an expiry are all seen  *)
(* in time (NodeLooperThread::threadLoop).  The time spent in the second    *)
(* pass, during which deadlines computed earlier go on running, is the only *)
(* lateness.                                                                *)
SleepsSettled ==
    pc = "wait" /\ timeoutMs > slow =>
        \A n \in Nodes \ failed : current[n] = Strongest(promised, n)

(* A FileNode that could not be written is tried again within Retry         *)
(* (FileNode::Update, "Retry in 500ms or sooner").                          *)
RetriedSoon ==
    pc = "wait" =>
        \A n \in failed : Kind[n] = "property" \/ timeoutMs <= Retry

(* Two passes are enough for nodes that depend on one another: when no      *)
(* write failed for a passing reason and no request can have expired        *)
(* between them, all nodes were written (threadLoop, "Update 2 passes: some *)
(* node may have dependency in other node").                                *)
TwoPassesSuffice == pc = "wait" /\ hiccup = 0 /\ slow = 0 => failed = {}

(* Whatever failed, a FileNode gets the value asked for in the end.         *)
FileNodesCatchUp ==
    \A n \in Nodes :
        Kind[n] # "property" /\ pc # "none" /\ current[n] # Strongest(req, n)
            ~> current[n] = Strongest(req, n) \/ exitPending = 1

(* Stop returns: the tests call it and then expect the thread not to run    *)
(* (NodeLooperThread::Stop).                                                *)
StopTerminates == owner = "join" ~> owner = "stopped"
=============================================================================
