-------------------------- MODULE MCNodeLooperHold --------------------------
(* One node with hold_fd_, such as /dev/cpu_dma_latency, and two hints that  *)
(* ask for different values of it.                                           *)
EXTENDS NodeLooper

MCDefault == <<2>>
MCKind == <<"hold">>
Act(n, v, t) == [node |-> n, value |-> v, timeout |-> t]
MCActions == [launch |-> {Act(1, 0, 1)}, audio |-> {Act(1, 1, 0)}]
=============================================================================
