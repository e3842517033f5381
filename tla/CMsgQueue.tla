----------------------------- MODULE CMsgQueue -----------------------------
(***************************************************************************)
(* hdmi_cec/libhdmi_cec: CMsgQueueThread, the delayed messages of the CEC   *)
(* HAL, and the way HdmiCecControl uses it: the bus monitor replaces a      *)
(* message (removeMsg, then sendMsg) or just adds one, a client that sends  *)
(* the same message itself takes the pending one back (removeMsg).          *)
(*                                                                         *)
(* threadLoop drops mLockQueue between its steps and reads the size without *)
(* it: every step between two releases of the lock is an action.  A read of *)
(* m_v_msg[0] of an empty Vector aborts the process.                        *)
(***************************************************************************)
EXTENDS Integers, Sequences

CONSTANTS
    Replaced,   \* the types only sent after removeMsg, by one thread
    Added,      \* the types sent without it
    Delays,
    MaxSent,    \* bound: messages sent
    MaxTime     \* bound: the clock

VARIABLES
    queue,      \* m_v_msg: [id, type, when]
    now,
    looper,     \* where threadLoop is
    head,       \* msg, its local copy of the first message
    until,      \* the end of waitRelative
    exit,       \* exitPending
    monitor,    \* the type the bus monitor has removed and will send
    sent,       \* history: messages sent, their ids
    withdrawn   \* history: [type, id] of every message a client has taken back

queueVars == <<queue, now, looper, head, until, exit, monitor, sent, withdrawn>>
loopVars == <<looper, head, until>>

Types == Replaced \cup Added
Times == 0..MaxTime
Idle == "idle"
NoMessage == [id |-> 0, type |-> Idle, when |-> 0]

ASSUME QueueAssumption ==
    /\ Replaced \cap Added = {} /\ Idle \notin Replaced
    /\ Delays \subseteq Nat /\ MaxSent \in Nat /\ MaxTime \in Nat

QueueTypeOK ==
    /\ queue \in Seq([id : 1..MaxSent, type : Types, when : Times])
    /\ now \in Times /\ until \in Times /\ sent \in 0..MaxSent
    /\ looper \in {"exit?", "empty?", "wait", "size", "head", "delay", "timed",
                   "size2", "take", "handle", "exited", "aborted"}
    /\ head \in [id : 1..MaxSent, type : Types, when : Times] \cup {NoMessage}
    /\ exit \in BOOLEAN /\ monitor \in Replaced \cup {Idle}
    /\ withdrawn \subseteq [type : Replaced, id : 1..MaxSent]

QueueInit ==
    /\ queue = <<>> /\ now = 0 /\ looper = "exit?" /\ until = 0 /\ sent = 0
    /\ head = NoMessage /\ exit = FALSE /\ monitor = Idle /\ withdrawn = {}

----------------------------------------------------------------------------
(* A signal wakes the thread only if it waits: nothing is kept.             *)
Signal ==
    /\ looper' = CASE looper = "wait" -> "empty?"
                   [] looper = "timed" -> "size"
                   [] OTHER -> looper
    /\ UNCHANGED <<head, until>>

(* Before the first message that is due later.                              *)
Inserted(m) ==
    LET later == {i \in 1..Len(queue) : queue[i].when > m.when}
        p == IF later = {} THEN Len(queue) + 1 ELSE CHOOSE i \in later : \A j \in later : i <= j
    IN  SubSeq(queue, 1, p - 1) \o <<m>> \o SubSeq(queue, p, Len(queue))

sendMsg(type, delay) ==
    /\ sent < MaxSent /\ now + delay <= MaxTime
    /\ queue' = Inserted([id |-> sent + 1, type |-> type, when |-> now + delay])
    /\ sent' = sent + 1 /\ Signal

(* removeMsg steps over the message that moves into the place of a removed  *)
(* one.                                                                     *)
Removed(type) ==
    LET gone[i \in 0..Len(queue)] ==
            i > 0 /\ queue[i].type = type /\ ~gone[i - 1]
        kept[i \in 0..Len(queue)] ==
            IF i = 0 THEN <<>>
            ELSE IF gone[i] THEN kept[i - 1] ELSE Append(kept[i - 1], queue[i])
    IN  kept[Len(queue)]

removeMsg(type) ==
    /\ queue' = Removed(type)
    /\ IF queue' # queue THEN Signal ELSE UNCHANGED loopVars

(* messageValidateAndHandle in the bus monitor's thread.                    *)
MonitorRemoves(type) ==
    /\ monitor = Idle /\ monitor' = type
    /\ removeMsg(type) /\ UNCHANGED <<now, exit, sent, withdrawn>>

(* Mutant: the monitor sends without removing.                              *)
SendsAnything(type, delay) ==
    /\ monitor' = Idle
    /\ sendMsg(type, delay) /\ UNCHANGED <<now, exit, withdrawn>>

MonitorSends(type, delay) ==
    /\ \/ monitor = type
       \/ monitor = Idle /\ type \in Added
    /\ monitor' = Idle
    /\ sendMsg(type, delay) /\ UNCHANGED <<now, exit, withdrawn>>

(* The messages of a type that were sent, without the one in the thread's   *)
(* hands.                                                                   *)
SentBefore(type) ==
    {m \in [type : {type}, id : 1..sent] :
        looper = "handle" => m # [type |-> head.type, id |-> head.id]}

(* preHandleOfSend in a binder thread.                                      *)
ClientRemoves(type) ==
    /\ removeMsg(type) /\ withdrawn' = withdrawn \cup SentBefore(type)
    /\ UNCHANGED <<now, exit, monitor, sent>>

RequestExit == ~exit /\ exit' = TRUE /\ UNCHANGED <<queue, now, loopVars, monitor, sent, withdrawn>>

Tick ==
    /\ now < MaxTime /\ now' = now + 1
    /\ UNCHANGED <<queue, loopVars, exit, monitor, sent, withdrawn>>

----------------------------------------------------------------------------
(* threadLoop.                                                              *)
At(p, q) ==
    /\ looper = p /\ looper' = q
    /\ UNCHANGED <<now, exit, monitor, sent, withdrawn>>

Size(p, none, some) ==
    /\ \/ queue = <<>> /\ At(p, none)
       \/ queue # <<>> /\ At(p, some)
    /\ UNCHANGED <<queue, head, until>>

TestExit ==
    /\ At("exit?", IF exit THEN "exited" ELSE "empty?")
    /\ head' = NoMessage /\ UNCHANGED <<queue, until>>

WaitForAny == Size("empty?", "wait", "size")
TestSize == Size("size", "size2", "head")
TestSizeAgain == Size("size2", "exit?", "take")

GetHead ==
    \/ /\ queue = <<>> /\ At("head", "aborted") /\ UNCHANGED <<queue, head, until>>
    \/ /\ queue # <<>> /\ At("head", "delay")
       /\ head' = queue[1]
       /\ UNCHANGED <<queue, until>>

WaitRelative ==
    /\ IF head.when > now THEN At("delay", "timed") /\ until' = head.when
                         ELSE At("delay", "size2") /\ until' = until
    /\ UNCHANGED <<queue, head>>

(* Mutant: a wait that ends goes on waiting.                                *)
TimedOutNever ==
    /\ now >= until /\ At("timed", "wait") /\ UNCHANGED <<queue, head, until>>

TimedOut ==
    /\ now >= until /\ At("timed", "size") /\ UNCHANGED <<queue, head, until>>

TakeHead ==
    \/ /\ queue = <<>> /\ At("take", "aborted") /\ UNCHANGED <<queue, head, until>>
    \/ /\ queue # <<>> /\ At("take", "handle")
       /\ head' = queue[1]
       /\ queue' = Tail(queue) /\ until' = until

HandleMessage == At("handle", "exit?") /\ UNCHANGED <<queue, head, until>>

ThreadLoop ==
    \/ TestExit \/ WaitForAny \/ TestSize \/ GetHead \/ WaitRelative \/ TimedOut
    \/ TestSizeAgain \/ TakeHead \/ HandleMessage

QueueNext ==
    \/ ThreadLoop \/ RequestExit \/ Tick
    \/ \E type \in Replaced : MonitorRemoves(type) \/ ClientRemoves(type)
    \/ \E type \in Types, delay \in Delays : MonitorSends(type, delay)

QueueSpec == QueueInit /\ [][QueueNext]_queueVars

(* The thread is scheduled and time passes.                                 *)
QueueFairSpec == QueueSpec /\ WF_queueVars(ThreadLoop) /\ WF_queueVars(Tick)

----------------------------------------------------------------------------
(* "Remove the pending protection osd message": a message that a client has *)
(* taken back is never handled, however the removal falls between the steps *)
(* of threadLoop and of the bus monitor, and although removeMsg steps over  *)
(* every second one of a row of them.  A message is beyond recall once      *)
(* threadLoop has taken it off the queue: that one is still handled.        *)
RemovedForGood ==
    looper = "handle" => [type |-> head.type, id |-> head.id] \notin withdrawn

(* Every message is handled or removed in the end, in spite of the wakeups  *)
(* that fall between two steps of the loop, unless the thread is ended.     *)
EveryMessageLeaves ==
    \A n \in 1..MaxSent :
        (\E i \in 1..Len(queue) : queue[i].id = n)
            ~> (\A i \in 1..Len(queue) : queue[i].id # n) \/ exit \/ looper = "aborted"
=============================================================================
