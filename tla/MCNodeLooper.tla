---------------------------- MODULE MCNodeLooper ----------------------------
(* Three nodes: the highest and the lowest CPU frequency, which the kernel   *)
(* keeps in order, and a property.  Both hints act on the pair.              *)
EXTENDS NodeLooper

MCDefault == <<2, 2, 1>>
MCKind == <<"file", "file", "property">>
(* 1 is the upper limit and 2 the lower one; index 0 is the highest value.  *)
MCClash ==
    {c \in {1} \X Values \X {2} \X Values : c[4] < c[2]}
        \cup {c \in {2} \X Values \X {1} \X Values : c[2] < c[4]}
Act(n, v, t) == [node |-> n, value |-> v, timeout |-> t]
MCActions ==
    [launch      |-> {Act(1, 0, 1), Act(2, 0, 1), Act(3, 0, 1)},
     interaction |-> {Act(1, 1, 0), Act(2, 1, 0)}]
=============================================================================
