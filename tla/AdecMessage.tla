---------------------------- MODULE AdecMessage ----------------------------
(***************************************************************************)
(* The message pool of the audio decoder, adec-message.c: a ring of        *)
(* MESSAGE_NUM_MAX pointers.  Callers allocate a command, wait a bounded   *)
(* time while the ring is more than half full, and put it in under         *)
(* msg_mutex; a full ring loses its oldest command.  The control thread    *)
(* takes commands out, serves and frees them.                              *)
(*                                                                         *)
(* A command is the number of its allocation, so that two allocations are  *)
(* never mistaken for each other.                                          *)
(***************************************************************************)
EXTENDS Integers, Sequences

CONSTANTS MESSAGE_NUM_MAX,
          Patience,     \* the 10 waits per message above half of the ring
          Senders,
          MaxSends      \* bound: commands allocated

ASSUME PoolAssumption == /\ MESSAGE_NUM_MAX \in Nat \ {0} /\ Patience \in Nat
                         /\ MaxSends \in Nat

VARIABLES
  message_lise, message_in_index, message_out_index, message_num,
  pc, cmd, retry_count,         \* of each sender
  msg,                          \* the command the control thread serves, 0 for none
  freed,
  allocated                     \* commands allocated so far

ring == <<message_lise, message_in_index, message_out_index, message_num>>
senders == <<pc, cmd, retry_count>>
vars == <<ring, senders, msg, freed, allocated>>

Commands == 1 .. MaxSends
NULL == 0
Slots == 0 .. MESSAGE_NUM_MAX - 1
After(i) == (i + 1) % MESSAGE_NUM_MAX

\* adec_message_pool_init
Init ==
  /\ message_lise = [i \in Slots |-> NULL]
  /\ message_in_index = 0 /\ message_out_index = 0 /\ message_num = 0
  /\ pc = [s \in Senders |-> "idle"]
  /\ cmd = [s \in Senders |-> NULL] /\ retry_count = [s \in Senders |-> 0]
  /\ msg = NULL /\ freed = {} /\ allocated = 0

-----------------------------------------------------------------------------
\* adec_message_alloc, and the call of adec_send_message
Alloc(s) ==
  /\ pc[s] = "idle" /\ allocated < MaxSends
  /\ allocated' = allocated + 1
  /\ cmd' = [cmd EXCEPT ![s] = allocated + 1]
  /\ retry_count' = [retry_count EXCEPT ![s] = 0]
  /\ pc' = [pc EXCEPT ![s] = "test"]
  /\ UNCHANGED <<ring, msg, freed>>

\* The number of messages is read without the mutex, before and after a sleep of 10 ms.
Test(s) ==
  /\ pc[s] = "test"
  /\ pc' = [pc EXCEPT ![s] = IF message_num > MESSAGE_NUM_MAX \div 2 THEN "slept" ELSE "lock"]
  /\ UNCHANGED <<ring, cmd, retry_count, msg, freed, allocated>>

\* mutant: the sleeps are not counted
NotCounted(s) == retry_count[s]

Counted(s) == retry_count[s] + 1

GivesUp(s) == retry_count[s] > (message_num - MESSAGE_NUM_MAX \div 2) * Patience

Slept(s) ==
  /\ pc[s] = "slept"
  /\ retry_count' = [retry_count EXCEPT ![s] = IF GivesUp(s) THEN @ ELSE Counted(s)]
  /\ pc' = [pc EXCEPT ![s] = IF GivesUp(s) THEN "lock" ELSE "test"]
  /\ UNCHANGED <<ring, cmd, msg, freed, allocated>>

Put(s) ==
  /\ message_lise' = [message_lise EXCEPT ![message_in_index] = cmd[s]]
  /\ message_in_index' = After(message_in_index)
  /\ cmd' = [cmd EXCEPT ![s] = NULL]
  /\ pc' = [pc EXCEPT ![s] = "idle"]
  /\ UNCHANGED <<retry_count, msg, allocated>>

Insert(s) ==
  /\ pc[s] = "lock" /\ message_num < MESSAGE_NUM_MAX
  /\ Put(s)
  /\ message_num' = message_num + 1
  /\ UNCHANGED <<message_out_index, freed>>

\* mutant: the command behind the slot that is written is freed
NextSlot == After(message_in_index)

OldestSlot == message_in_index

\* mutant: the oldest command stays the next one to be read
KeepsOut == message_out_index

OutAfterDrop == After(message_out_index)

InsertFull(s) ==
  /\ pc[s] = "lock" /\ message_num >= MESSAGE_NUM_MAX
  /\ freed' = freed \cup {message_lise[OldestSlot]}
  /\ message_out_index' = OutAfterDrop
  /\ Put(s)
  /\ UNCHANGED message_num

\* adec_get_message
Get ==
  /\ msg = NULL /\ message_num > 0
  /\ msg' = message_lise[message_out_index]
  /\ message_out_index' = After(message_out_index)
  /\ message_num' = message_num - 1
  /\ UNCHANGED <<message_lise, message_in_index, senders, freed, allocated>>

\* adec_message_free, when the command is served
Free ==
  /\ msg # NULL
  /\ freed' = freed \cup {msg} /\ msg' = NULL
  /\ UNCHANGED <<ring, senders, allocated>>

Send(s) == Test(s) \/ Slept(s) \/ Insert(s) \/ InsertFull(s)

Next == (\E s \in Senders : Alloc(s) \/ Send(s)) \/ Get \/ Free

\* A sender that has called goes on; the control thread may serve nothing for
\* as long as it waits for the format of the stream.
Fairness == \A s \in Senders : WF_vars(Send(s))

Spec == Init /\ [][Next]_vars /\ Fairness

-----------------------------------------------------------------------------
Window == [i \in 1 .. message_num |-> message_lise[(message_out_index + i - 1) % MESSAGE_NUM_MAX]]

\* Every command that was allocated is in exactly one place: with its sender,
\* in one slot between the two indices, with the control thread, or freed.
\* None is freed while the ring can still give it out, none twice, none is lost.
Accounted ==
  \A m \in 1 .. allocated :
    LET withSender == {s \in Senders : cmd[s] = m}
        inRing == {i \in 1 .. message_num : Window[i] = m}
    IN  \/ m \in freed /\ withSender = {} /\ inRing = {} /\ msg # m
        \/ m \notin freed /\ msg = m /\ withSender = {} /\ inRing = {}
        \/ m \notin freed /\ msg # m /\ inRing = {} /\ \E s \in Senders : withSender = {s}
        \/ m \notin freed /\ msg # m /\ withSender = {} /\ \E i \in 1 .. message_num : inRing = {i}

Queue == INSTANCE DropQueue WITH q <- Window, Messages <- Commands, Capacity <- MESSAGE_NUM_MAX

\* The ring is the queue Amadec uses: commands leave in the order they came, and
\* a full ring loses its oldest.
RingIsQueue == Queue!Spec

\* adec_send_message returns although the control thread serves nothing: it
\* waits Patience times per message above half of the ring, and counts.
SendReturns == \A s \in Senders : pc[s] = "test" ~> pc[s] = "idle"
=============================================================================
