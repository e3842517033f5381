-------------------------- MODULE NodeLooperProofs --------------------------
(***************************************************************************)
(* For every set of nodes, hints and timeouts: the looper never oversleeps  *)
(* a change of a node's value, and it comes back soon to a file it could    *)
(* not write.  For two nodes the kernel keeps in order, two passes suffice. *)
(***************************************************************************)
EXTENDS NodeLooper, TLAPS, WellFoundedInduction

Keys == Nodes \X Values \X Hints

(* The node has been dealt with by the second pass of this threadLoop. *)
Done(n) == pc = "wait" \/ (pc = "pass2" /\ n < node)

(* Nothing stronger than current[n] is asked for, and current[n] itself is  *)
(* the default nobody objects to or is asked for until the looper is back.  *)
AtRest(n) ==
    \/ /\ current[n] = Default[n]
       /\ \A v \in Values, h \in Hints : req[<<n, v, h>>] = 0
    \/ /\ \A v \in Values, h \in Hints : v < current[n] => req[<<n, v, h>>] = 0
       /\ \E h \in Hints :
            /\ req[<<n, current[n], h>>] >= timeoutMs - slow
            /\ timeoutMs = Forever => req[<<n, current[n], h>>] = Forever

(* The inductive invariant: the promises are the requests, and the nodes    *)
(* the second pass has dealt with are at rest or will be retried.           *)
IInv ==
    /\ TypeOK
    /\ promised = req
    /\ \A n \in Nodes : Done(n) =>
          IF n \in failed THEN Kind[n] = "property" \/ timeoutMs <= Retry
                          ELSE AtRest(n)

-----------------------------------------------------------------------------
(* What the configuration is known to satisfy. *)
LEMMA ConstantFacts ==
    /\ NumNodes \in Nat \ {0}
    /\ MaxIndex \in Nat
    /\ Default \in [Nodes -> Values]
    /\ ResetOnInit \subseteq Nodes
    /\ \A h \in Hints : \A a \in Actions[h] :
          /\ a.timeout \in 0..MaxTimeout
          /\ \A b \in Actions[h] : a.node = b.node => a = b
    /\ MaxTimeout \in Nat
    /\ Overrides \subseteq 0..MaxTimeout
    /\ Retry \in 1..MaxTimeout
    /\ MaxFailures \in Nat
    /\ MaxSlow \in Nat
BY NodeAssumption DEF NodeAssumption, NodesParsed, ActionsParsed

(* ParseActions accepts only values of the node. *)
LEMMA ActionValues == \A h \in Hints : \A a \in Actions[h] : a.value \in Values
BY NodeAssumption DEF NodeAssumption, ActionsParsed

(* A set of naturals that is not empty has a least element. *)
LEMMA LeastIsLeast ==
    ASSUME NEW S, S \subseteq Nat, S # {}
    PROVE  Least(S) \in S /\ \A y \in S : Least(S) <= y
<1>1. PICK x \in S : \A y \in S : ~(<<y, x>> \in OpToRel(<, Nat))
  BY NatLessThanWellFounded, WFMin
<1>2. \A y \in S : x <= y
  <2> TAKE y \in S
  <2>1. <<y, x>> \in Nat \X Nat
    OBVIOUS
  <2>2. ~(y < x)
    BY <1>1, <2>1 DEF OpToRel
  <2> QED BY <2>2
<1> QED BY Zenon, <1>2 DEF Least

(* Strongest is a value of the node: the first one asked for, or the default *)
(* when none is.                                                            *)
LEMMA StrongestIsFirst ==
    ASSUME NEW r \in [Keys -> Nat], NEW n \in Nodes
    PROVE  /\ Strongest(r, n) \in Values
           /\ (\A v \in Values : ~Active(r, n, v)) => Strongest(r, n) = Default[n]
           /\ \A v \in Values : Active(r, n, v) =>
                 Active(r, n, Strongest(r, n)) /\ Strongest(r, n) <= v
<1>1. CASE \E v \in Values : Active(r, n, v)
  <2> DEFINE S == {v \in Values : Active(r, n, v)}
  <2>1. S \subseteq Nat /\ S # {}
    BY <1>1, ConstantFacts DEF Values
  <2>2. Least(S) \in S /\ \A y \in S : Least(S) <= y
    BY <2>1, LeastIsLeast
  <2>3. Strongest(r, n) = Least(S)
    BY <1>1 DEF Strongest
  <2> HIDE DEF S
  <2>4. /\ Strongest(r, n) \in S
        /\ \A y \in S : Strongest(r, n) <= y
    BY <2>2, <2>3
  <2> QED BY <2>4, <1>1 DEF S
<1>2. CASE ~\E v \in Values : Active(r, n, v)
  BY <1>2, ConstantFacts DEF Strongest
<1> QED BY <1>1, <1>2

(* ExpireTime bounds every running request for the value chosen. *)
LEMMA ExpireTimeIsFirst ==
    ASSUME TypeOK, NEW n \in Nodes
    PROVE  /\ ExpireTime(n) \in 1..Forever
           /\ \A h \in Hints : req[<<n, Strongest(req, n), h>>] > 0 =>
                 ExpireTime(n) <= req[<<n, Strongest(req, n), h>>]
<1> DEFINE T == ({req[<<n, Strongest(req, n), h>>] : h \in Hints} \ {0}) \cup {Forever}
<1>1. req \in [Keys -> Nat] /\ Forever \in Nat /\ Forever > 0
  BY ConstantFacts DEF TypeOK, Keys, Forever
<1>2. Strongest(req, n) \in Values
  BY <1>1, StrongestIsFirst
<1>3. \A h \in Hints : req[<<n, Strongest(req, n), h>>] \in 0..Forever
  BY <1>2 DEF TypeOK
<1>4. T \subseteq 1..Forever /\ T # {}
  <2>1. ASSUME NEW h \in Hints, req[<<n, Strongest(req, n), h>>] # 0
        PROVE  req[<<n, Strongest(req, n), h>>] \in 1..Forever
    BY <1>1, <1>3, <2>1
  <2>2. Forever \in 1..Forever
    BY <1>1
  <2> HIDE DEF Forever
  <2> QED BY Zenon, <2>1, <2>2
<1>5. T \subseteq Nat
  BY <1>4
<1>6. Least(T) \in T /\ \A y \in T : Least(T) <= y
  BY Zenon, <1>4, <1>5, LeastIsLeast
<1>7. ExpireTime(n) = Least(T)
  BY DEF ExpireTime
<1>8. \A h \in Hints : req[<<n, Strongest(req, n), h>>] > 0 =>
            req[<<n, Strongest(req, n), h>>] \in T
  BY <1>3
<1> HIDE DEF T
<1> QED BY Zenon, <1>4, <1>6, <1>7, <1>8

(* What Update returns is at most the expiry, and at most Retry for a file  *)
(* that was not written.                                                    *)
LEMMA UpdateReturnsBounds ==
    ASSUME TypeOK, NEW n \in Nodes, NEW wrote \in BOOLEAN
    PROVE  /\ UpdateReturns(n, wrote) \in 0..Forever
           /\ UpdateReturns(n, wrote) <= ExpireTime(n)
           /\ ~wrote /\ Kind[n] # "property" => UpdateReturns(n, wrote) <= Retry
<1>1. ExpireTime(n) \in 1..Forever /\ Retry \in Nat /\ Forever \in Nat
  BY ExpireTimeIsFirst, ConstantFacts DEF Forever
<1>2. /\ Least({ExpireTime(n), Retry}) \in {ExpireTime(n), Retry}
      /\ \A y \in {ExpireTime(n), Retry} : Least({ExpireTime(n), Retry}) <= y
  <2>1. {ExpireTime(n), Retry} \subseteq Nat /\ {ExpireTime(n), Retry} # {}
    BY <1>1
  <2> QED BY <2>1, LeastIsLeast
<1> QED BY <1>1, <1>2 DEF UpdateReturns
-----------------------------------------------------------------------------
(* The initial states satisfy the invariant. *)
LEMMA InitIInv == Init => IInv
<1> SUFFICES ASSUME Init PROVE IInv
  OBVIOUS
<1>1. TypeOK
  BY ConstantFacts DEF Init, TypeOK, Nodes, Values, Closed, Empty, Forever, Idle
<1> QED BY <1>1 DEF Init, IInv, Done

(* Requests and cancellations keep the type of the request table, and treat *)
(* the promises alike.                                                      *)
LEMMA AddRequestsType ==
    ASSUME TypeOK, promised = req, NEW h \in Hints,
           NEW o \in Overrides \cup {NoOverride}
    PROVE  /\ AddRequests(req, h, o) \in [Keys -> 0..Forever]
           /\ Promise(promised, h, o) = AddRequests(req, h, o)
<1>1. Forever \in Nat
  BY ConstantFacts DEF Forever
<1>2. ASSUME NEW k \in Keys
      PROVE  EndTimes(k, h, o) \subseteq 0..Forever
  <2>1. \A a \in Actions[h] : a.timeout \in 0..MaxTimeout
    BY ConstantFacts
  <2>2. o \in 0..MaxTimeout \/ o = NoOverride
    BY ConstantFacts
  <2>3. \A a \in Actions[h] : EndTime(a, o) \in 0..Forever
    BY <2>1, <2>2, ConstantFacts DEF EndTime, Forever
  <2> QED BY <2>3 DEF EndTimes
<1>3. ASSUME NEW k \in Keys
      PROVE  \A s, t \in EndTimes(k, h, o) : s = t
  BY ConstantFacts DEF EndTimes
<1>4. AddRequests(req, h, o) \in [Keys -> 0..Forever]
  <2>1. ASSUME NEW k \in Keys, EndTimes(k, h, o) # {}
        PROVE  Extended(req[k], CHOOSE t \in EndTimes(k, h, o) : TRUE) \in 0..Forever
    BY <1>2, <2>1 DEF TypeOK, Keys, Extended
  <2>2. \A k \in Keys : req[k] \in 0..Forever
    BY DEF TypeOK, Keys
  <2> QED BY <2>1, <2>2 DEF AddRequests, Keys
<1>5. Promise(promised, h, o) = AddRequests(req, h, o)
  <2> DEFINE P(k) == IF k[3] = h THEN Latest(EndTimes(k, h, o) \cup {req[k]}) ELSE req[k]
             A(k) == IF k[3] = h /\ EndTimes(k, h, o) # {}
                     THEN Extended(req[k], CHOOSE t \in EndTimes(k, h, o) : TRUE)
                     ELSE req[k]
  <2>1. ASSUME NEW k \in Keys
        PROVE  P(k) = A(k)
    <3>1. req[k] \in 0..Forever
      BY DEF TypeOK, Keys
    <3>2. CASE EndTimes(k, h, o) = {}
      <4>1. EndTimes(k, h, o) \cup {req[k]} = {req[k]}
        BY <3>2
      <4>2. Latest({req[k]}) = req[k]
        BY <3>1, <1>1 DEF Latest
      <4> QED BY <3>2, <4>1, <4>2
    <3>3. CASE EndTimes(k, h, o) # {}
      <4>1. PICK e \in EndTimes(k, h, o) : TRUE
        BY <3>3
      <4>2. EndTimes(k, h, o) = {e} /\ e \in 0..Forever
        BY <1>2, <1>3, <4>1
      <4>3. EndTimes(k, h, o) \cup {req[k]} = {e, req[k]}
        BY <4>2
      <4>4. (CHOOSE t \in EndTimes(k, h, o) : TRUE) = e
        BY <4>2
      <4>5. Latest({e, req[k]}) = Extended(req[k], e)
        BY <1>1, <3>1, <4>2 DEF Extended, Latest
      <4> QED BY Zenon, <3>3, <4>3, <4>4, <4>5
    <3> QED BY <3>2, <3>3
  <2>2. Promise(promised, h, o) = [k \in Keys |-> P(k)]
    BY DEF Promise, Keys
  <2>3. AddRequests(req, h, o) = [k \in Keys |-> A(k)]
    BY DEF AddRequests, Keys
  <2> HIDE DEF P, A
  <2> QED BY <2>1, <2>2, <2>3
<1> QED BY <1>4, <1>5

(* A step of a caller, of the owner or of Thread::_threadLoop makes no claim *)
(* about a node, or leaves all that the claims are about alone.             *)
LEMMA CallersIInv ==
    ASSUME IInv, Request \/ Cancel
    PROVE  IInv'
<1>1. caller \in Calls /\ caller.hint \in Hints
      /\ caller.override \in Overrides \cup {NoOverride}
  BY DEF IInv, TypeOK, Calls, Idle, Request, Cancel
<1>2. req' \in [Keys -> 0..Forever] /\ promised' = req'
  <2>1. CASE Request
    BY <1>1, <2>1, AddRequestsType DEF Request, IInv
  <2>2. CASE Cancel
    BY <2>2, ConstantFacts DEF Cancel, RemoveRequests, IInv, TypeOK, Keys, Forever
  <2> QED BY <2>1, <2>2
<1>3. TypeOK'
  BY <1>2 DEF IInv, TypeOK, Request, Cancel, Signal, Keys, Idle, InPass
<1>4. \A n \in Nodes : ~Done(n)'
  BY DEF Done, Request, Cancel, Signal, InPass
<1> QED BY <1>2, <1>3, <1>4 DEF IInv

(* Starting the two passes keeps the invariant: no node is done yet. *)
LEMMA EnterIInv ==
    ASSUME IInv, Enter
    PROVE  IInv'
<1>1. TypeOK'
  BY ConstantFacts DEF IInv, TypeOK, Enter, InPass, Forever, Nodes
<1>2. \A n \in Nodes : ~Done(n)'
  BY DEF Done, Enter
<1> QED BY <1>1, <1>2 DEF IInv, Enter

(* Where NextNode leaves the looper. *)
LEMMA NextNodeFacts ==
    ASSUME TypeOK, pc \in InPass, NEW wrote \in BOOLEAN, NextNode(wrote)
    PROVE  /\ node' \in Nodes
           /\ timeoutMs' \in 0..Forever
           /\ timeoutMs' <= timeoutMs
           /\ pc' \in {"pass1", "pass2", "wait"}
           /\ pc = "pass2" => timeoutMs' <= UpdateReturns(node, wrote)
           /\ \A n \in Nodes : Done(n)' => n = node \/ Done(n)
           /\ \A n \in Nodes : Done(n)' => pc = "pass2"
<1>1. node \in Nodes /\ NumNodes \in Nat /\ timeoutMs \in 0..Forever /\ Forever \in Nat
  BY ConstantFacts DEF TypeOK, Forever
<1>2. UpdateReturns(node, wrote) \in 0..Forever
  BY <1>1, UpdateReturnsBounds
<1>3. /\ Least({timeoutMs, UpdateReturns(node, wrote)}) \in {timeoutMs, UpdateReturns(node, wrote)}
      /\ \A y \in {timeoutMs, UpdateReturns(node, wrote)} :
            Least({timeoutMs, UpdateReturns(node, wrote)}) <= y
  <2>1. {timeoutMs, UpdateReturns(node, wrote)} \subseteq Nat
    BY <1>1, <1>2
  <2> QED BY <2>1, LeastIsLeast
<1>4. timeoutMs' \in 0..Forever /\ timeoutMs' <= timeoutMs
      /\ (pc = "pass2" => timeoutMs' <= UpdateReturns(node, wrote))
  BY <1>1, <1>2, <1>3 DEF NextNode, InPass
<1>5. node' \in Nodes /\ pc' \in {"pass1", "pass2", "wait"}
  BY <1>1 DEF NextNode, InPass, Nodes
<1>6. ASSUME NEW n \in Nodes, Done(n)'
      PROVE  (n = node \/ Done(n)) /\ pc = "pass2"
  BY <1>1, <1>6 DEF NextNode, Done, InPass, Nodes
<1> QED BY <1>4, <1>5, <1>6

(* A node that is at rest stays at rest when the looper is to come back     *)
(* earlier.                                                                 *)
LEMMA AtRestSooner ==
    ASSUME TypeOK, NEW n \in Nodes, AtRest(n),
           UNCHANGED <<req, slow>>, current'[n] = current[n],
           timeoutMs' \in 0..Forever, timeoutMs' <= timeoutMs
    PROVE  AtRest(n)'
<1>1. current[n] \in Values /\ Forever \in Nat /\ timeoutMs \in 0..Forever /\ slow \in Nat
  BY ConstantFacts DEF TypeOK, Forever
<1>2. \A h \in Hints : req[<<n, current[n], h>>] \in 0..Forever
  BY <1>1 DEF TypeOK
<1>3. ASSUME NEW h \in Hints,
             req[<<n, current[n], h>>] >= timeoutMs - slow,
             timeoutMs = Forever => req[<<n, current[n], h>>] = Forever
      PROVE  /\ req[<<n, current[n], h>>] >= timeoutMs' - slow
             /\ timeoutMs' = Forever => req[<<n, current[n], h>>] = Forever
  BY <1>1, <1>2, <1>3
<1> QED BY <1>3 DEF AtRest, Forever

(* A node that stands at the strongest value asked for is at rest until     *)
(* ExpireTime.                                                              *)
LEMMA AtRestUpdated ==
    ASSUME TypeOK, NEW n \in Nodes, UNCHANGED <<req, slow>>,
           current'[n] = Strongest(req, n),
           timeoutMs' \in 0..Forever, timeoutMs' <= ExpireTime(n)
    PROVE  AtRest(n)'
<1> DEFINE c == Strongest(req, n)
<1>1. req \in [Keys -> Nat] /\ Forever \in Nat /\ slow \in Nat
  BY ConstantFacts DEF TypeOK, Keys, Forever
<1>2. /\ c \in Values
      /\ (\A v \in Values : ~Active(req, n, v)) => c = Default[n]
      /\ \A v \in Values : Active(req, n, v) => Active(req, n, c) /\ c <= v
  BY <1>1, StrongestIsFirst
<1>3. \A v \in Values, h \in Hints : req[<<n, v, h>>] \in 0..Forever
  BY DEF TypeOK
<1>4. CASE \A v \in Values : ~Active(req, n, v)
  BY <1>2, <1>3, <1>4, <1>1 DEF AtRest, Active
<1>5. CASE \E v \in Values : Active(req, n, v)
  <2>1. PICK h \in Hints : req[<<n, c, h>>] > 0
    BY <1>2, <1>5 DEF Active
  <2>2. ExpireTime(n) <= req[<<n, c, h>>] /\ ExpireTime(n) \in 1..Forever
    BY <2>1, ExpireTimeIsFirst
  <2>3. /\ req[<<n, c, h>>] >= timeoutMs' - slow
        /\ timeoutMs' = Forever => req[<<n, c, h>>] = Forever
    BY <1>1, <1>2, <1>3, <2>2
  <2>4. \A v \in Values, g \in Hints : v < c => req[<<n, v, g>>] = 0
    <3> TAKE v \in Values, g \in Hints
    <3> HAVE v < c
    <3>1. v \in Int /\ c \in Int
      BY <1>2, ConstantFacts DEF Values
    <3>2. ~Active(req, n, v)
      BY <1>2, <3>1
    <3>3. req[<<n, v, g>>] \in 0..Forever /\ ~(req[<<n, v, g>>] > 0)
      BY <1>3, <3>2 DEF Active
    <3> QED BY <3>3, <1>1
  <2> QED BY <2>3, <2>4 DEF AtRest, Forever
<1> QED BY <1>4, <1>5

(* Node::Update keeps the invariant, whether it has nothing to write,       *)
(* writes or fails to.                                                      *)
LEMMA UpdateIInv ==
    ASSUME IInv, UpdateNothing \/ UpdateWrites \/ UpdateFails
    PROVE  IInv'
<1>1. node \in Nodes /\ pc \in InPass /\ TypeOK /\ promised' = req'
      /\ UNCHANGED <<req, slow, promised>>
  BY Zenon DEF IInv, TypeOK, UpdateNothing, UpdateWrites, UpdateFails, UNCHANGEDInUpdate
<1>2. PICK wrote \in BOOLEAN :
        /\ NextNode(wrote)
        /\ \/ /\ wrote = TRUE
              /\ current'[node] = Strongest(req, node)
              /\ node \notin failed'
           \/ /\ wrote = FALSE
              /\ node \in failed'
  <2>1. CASE UpdateNothing
    BY Zenon, <2>1 DEF UpdateNothing, NeedsWrite
  <2>2. CASE UpdateWrites
    <3>1. current' = [current EXCEPT ![node] = Strongest(req, node)]
          /\ NextNode(TRUE) /\ node \notin failed'
      BY Zenon, <2>2 DEF UpdateWrites
    <3> QED BY Zenon, <3>1, <1>1 DEF TypeOK
  <2>3. CASE UpdateFails
    BY Zenon, <2>3 DEF UpdateFails
  <2> QED BY Zenon, <2>1, <2>2, <2>3
<1>3. \A n \in Nodes : n # node =>
         /\ current'[n] = current[n]
         /\ n \in failed' <=> n \in failed
  BY Zenon, <1>1 DEF UpdateNothing, UpdateWrites, UpdateFails, TypeOK
<1>4. /\ node' \in Nodes
      /\ timeoutMs' \in 0..Forever
      /\ timeoutMs' <= timeoutMs
      /\ pc' \in {"pass1", "pass2", "wait"}
      /\ pc = "pass2" => timeoutMs' <= UpdateReturns(node, wrote)
      /\ \A n \in Nodes : Done(n)' => n = node \/ Done(n)
      /\ \A n \in Nodes : Done(n)' => pc = "pass2"
  BY <1>1, <1>2, NextNodeFacts
<1>5. TypeOK'
  <2>1. Strongest(req, node) \in Values
    <3>1. req \in [Keys -> Nat]
      BY <1>1, ConstantFacts DEF TypeOK, Keys, Forever
    <3> QED BY <1>1, <3>1, StrongestIsFirst
  <2>2. \A v \in Values : v \in Closed..Empty
    BY ConstantFacts DEF Values, Closed, Empty
  <2>3. Closed \in Closed..Empty /\ Empty \in Closed..Empty
    BY ConstantFacts DEF Closed, Empty
  <2>4. CASE UpdateNothing
    BY <1>1, <1>4, <2>4 DEF TypeOK, UpdateNothing, UNCHANGEDInUpdate, InPass
  <2>5. CASE UpdateWrites
    <3>1. current' \in [Nodes -> Values] /\ resetOnInit' \subseteq Nodes /\ failed' \subseteq Nodes
      BY <1>1, <2>1, <2>5 DEF TypeOK, UpdateWrites
    <3>2. fd' \in [Nodes -> Closed..Empty]
      BY <1>1, <2>1, <2>2, <2>3, <2>5 DEF TypeOK, UpdateWrites
    <3> QED BY <1>1, <1>4, <2>5, <3>1, <3>2 DEF TypeOK, UpdateWrites, UNCHANGEDInUpdate, InPass
  <2>6. CASE UpdateFails
    <3>1. fd' \in [Nodes -> Closed..Empty]
      BY <1>1, <2>3, <2>6 DEF TypeOK, UpdateFails, FdAfterFailure
    <3>2. failures' \in 0..MaxFailures /\ hiccup' \in {0, 1}
      BY <1>1, <2>6, ConstantFacts DEF TypeOK, UpdateFails
    <3> QED BY <1>1, <1>4, <2>6, <3>1, <3>2 DEF TypeOK, UpdateFails, UNCHANGEDInUpdate, InPass
  <2> QED BY <2>4, <2>5, <2>6
<1>6. ASSUME NEW n \in Nodes, Done(n)'
      PROVE  IF n \in failed' THEN Kind[n] = "property" \/ timeoutMs' <= Retry
                               ELSE AtRest(n)'
  <2>1. CASE n # node
    <3>1. Done(n)
      BY <1>4, <1>6, <2>1
    <3>2. CASE n \in failed'
      <4>1. Kind[n] = "property" \/ timeoutMs <= Retry
        BY <1>3, <2>1, <3>1, <3>2 DEF IInv
      <4> QED BY <1>1, <1>4, <3>2, <4>1, ConstantFacts DEF TypeOK, Forever
    <3>3. CASE n \notin failed'
      <4>1. AtRest(n)
        BY <1>3, <2>1, <3>1, <3>3 DEF IInv
      <4> QED BY <1>1, <1>3, <1>4, <2>1, <3>3, <4>1, AtRestSooner
    <3> QED BY <3>2, <3>3
  <2>2. CASE n = node
    <3>1. /\ timeoutMs' <= UpdateReturns(node, wrote)
          /\ UpdateReturns(node, wrote) \in 0..Forever
          /\ UpdateReturns(node, wrote) <= ExpireTime(node)
          /\ ~wrote /\ Kind[node] # "property" => UpdateReturns(node, wrote) <= Retry
      BY <1>1, <1>4, <1>6, UpdateReturnsBounds
    <3>2. ExpireTime(node) \in 1..Forever /\ Retry \in Nat /\ Forever \in Nat
      BY <1>1, ExpireTimeIsFirst, ConstantFacts DEF Forever
    <3>3. timeoutMs' <= ExpireTime(node)
      BY <1>4, <3>1, <3>2
    <3>4. CASE n \in failed'
      BY <1>2, <1>4, <2>2, <3>1, <3>2, <3>4
    <3>5. CASE n \notin failed'
      <4>1. current'[n] = Strongest(req, n)
        BY <1>2, <2>2, <3>5
      <4> QED BY <1>1, <1>4, <2>2, <3>3, <3>5, <4>1, AtRestUpdated
    <3> QED BY <3>4, <3>5
  <2> QED BY <2>1, <2>2
<1> QED BY <1>1, <1>5, <1>6 DEF IInv

(* Time passing keeps the invariant: the requests a sleeping looper relies  *)
(* on run down no faster than its own timeout.                              *)
LEMMA TickIInv ==
    ASSUME IInv, Tick
    PROVE  IInv'
<1>1. TypeOK /\ Forever \in Nat /\ timeoutMs \in 0..Forever /\ slow \in Nat
      /\ MaxSlow \in Nat /\ Retry \in Nat
  BY ConstantFacts DEF IInv, TypeOK, Forever
<1>2. \A t \in 0..Forever : Down(t) \in 0..Forever /\ Down(t) <= t
  BY <1>1 DEF Down
<1>3. \A k \in Keys : req[k] \in 0..Forever /\ req'[k] = Down(req[k])
  BY <1>1 DEF TypeOK, Tick, Keys
<1>4. req' \in [Keys -> 0..Forever] /\ promised' = req'
  BY <1>1, <1>2, <1>3 DEF IInv, TypeOK, Tick, Keys
<1>5. timeoutMs' \in 0..Forever /\ timeoutMs' <= timeoutMs
  BY <1>1, <1>2 DEF Tick
<1>6. TypeOK'
  <2>1. slow' \in 0..MaxSlow
    BY <1>1 DEF Tick, TypeOK
  <2> QED BY <1>1, <1>4, <1>5, <2>1 DEF TypeOK, Tick, Keys
<1>7. ASSUME NEW n \in Nodes, Done(n)'
      PROVE  IF n \in failed' THEN Kind[n] = "property" \/ timeoutMs' <= Retry
                               ELSE AtRest(n)'
  <2>1. Done(n) /\ failed' = failed /\ current' = current /\ current[n] \in Values
    BY <1>1, <1>7 DEF Done, Tick, TypeOK
  <2>2. CASE n \in failed
    BY <1>1, <1>5, <2>1, <2>2 DEF IInv
  <2>3. CASE n \notin failed
    <3>1. AtRest(n)
      BY <2>1, <2>3 DEF IInv
    <3>2. \A v \in Values, h \in Hints :
             /\ req[<<n, v, h>>] \in 0..Forever
             /\ req'[<<n, v, h>>] = Down(req[<<n, v, h>>])
      BY <1>3 DEF Keys
    <3>3. \A v \in Values, h \in Hints :
             req[<<n, v, h>>] = 0 => req'[<<n, v, h>>] = 0
      BY <3>2 DEF Down
    <3>4. CASE /\ current[n] = Default[n]
               /\ \A v \in Values, h \in Hints : req[<<n, v, h>>] = 0
      BY <2>1, <2>3, <3>3, <3>4 DEF AtRest
    <3>5. CASE /\ \A v \in Values, h \in Hints :
                    v < current[n] => req[<<n, v, h>>] = 0
               /\ \E h \in Hints :
                    /\ req[<<n, current[n], h>>] >= timeoutMs - slow
                    /\ timeoutMs = Forever => req[<<n, current[n], h>>] = Forever
      <4>1. PICK h \in Hints :
              /\ req[<<n, current[n], h>>] >= timeoutMs - slow
              /\ timeoutMs = Forever => req[<<n, current[n], h>>] = Forever
        BY <3>5
      <4>2. req[<<n, current[n], h>>] \in 0..Forever
            /\ req'[<<n, current[n], h>>] = Down(req[<<n, current[n], h>>])
        BY <2>1, <3>2
      <4>3. \/ timeoutMs' = timeoutMs /\ slow' = slow + 1
            \/ timeoutMs' = Down(timeoutMs) /\ slow' = slow
        BY <2>1 DEF Done, Tick, InPass
      <4>4. /\ req'[<<n, current[n], h>>] >= timeoutMs' - slow'
            /\ timeoutMs' = Forever => req'[<<n, current[n], h>>] = Forever
        BY <1>1, <4>1, <4>2, <4>3 DEF Down
      <4> QED BY <2>1, <2>3, <3>3, <3>5, <4>4 DEF AtRest, Forever
    <3> QED BY <3>1, <3>4, <3>5 DEF AtRest
  <2> QED BY <2>1, <2>2, <2>3
<1> QED BY <1>4, <1>6, <1>7 DEF IInv

(* Every step keeps the invariant. *)
LEMMA NextIInv == IInv /\ [Next]_vars => IInv'
<1> SUFFICES ASSUME IInv, [Next]_vars PROVE IInv'
  OBVIOUS
<1>1. CASE Request \/ Cancel
  BY <1>1, CallersIInv
<1>2. CASE Enter
  BY <1>2, EnterIInv
<1>3. CASE UpdateNothing \/ UpdateWrites \/ UpdateFails
  BY <1>3, UpdateIInv
<1>4. CASE Tick
  BY <1>4, TickIInv
<1>5. CASE \E call \in Calls : CallBegin(call)
  BY <1>5 DEF CallBegin, IInv, TypeOK, Done, AtRest
<1>6. CASE WaitEnds \/ Timeout \/ Check \/ Start \/ StopSignal
  <2>1. TypeOK'
    BY <1>6 DEF IInv, TypeOK, WaitEnds, Timeout, Check, Start, StopSignal, Signal
  <2>2. \A n \in Nodes : ~Done(n)'
    BY <1>6 DEF IInv, TypeOK, Done, WaitEnds, Timeout, Check, Start, StopSignal, Signal, InPass
  <2>3. promised' = req'
    BY <1>6 DEF IInv, WaitEnds, Timeout, Check, Start, StopSignal
  <2> QED BY <2>1, <2>2, <2>3 DEF IInv
<1>7. CASE StopJoin
  BY <1>7 DEF StopJoin, IInv, TypeOK, Done, AtRest
<1>8. CASE UNCHANGED vars
  BY Zenon, <1>8 DEF vars, IInv, TypeOK, Done, AtRest
<1> QED BY <1>1, <1>2, <1>3, <1>4, <1>5, <1>6, <1>7, <1>8 DEF Next, Looper, Caller

(* IInv holds throughout. *)
THEOREM Invariance == Spec => []IInv
BY InitIInv, NextIInv, PTL DEF Spec

(* The types of NodeLooper's variables. *)
THEOREM TypeCorrect == Spec => []TypeOK
<1>1. IInv => TypeOK
  BY DEF IInv
<1> QED BY <1>1, Invariance, PTL

(* NodeLooperThread::threadLoop never sleeps through a change of a node's   *)
(* value, but for the time its second pass took.                            *)
THEOREM SleepsSettledHolds == Spec => []SleepsSettled
<1>1. IInv => SleepsSettled
  <2> SUFFICES ASSUME IInv, pc = "wait", timeoutMs > slow, NEW n \in Nodes \ failed
               PROVE  current[n] = Strongest(promised, n)
    BY DEF SleepsSettled
  <2>1. AtRest(n) /\ promised = req /\ TypeOK
    BY DEF IInv, Done
  <2>2. req \in [Keys -> Nat] /\ current[n] \in Values /\ timeoutMs \in Nat /\ slow \in Nat
    BY <2>1, ConstantFacts DEF TypeOK, Keys, Forever
  <2>3. /\ Strongest(req, n) \in Values
        /\ (\A v \in Values : ~Active(req, n, v)) => Strongest(req, n) = Default[n]
        /\ \A v \in Values : Active(req, n, v) =>
              Active(req, n, Strongest(req, n)) /\ Strongest(req, n) <= v
    BY <2>2, StrongestIsFirst
  <2>4. \A v \in Values, h \in Hints : req[<<n, v, h>>] \in Nat
    BY <2>2 DEF Keys
  <2>5. CASE current[n] = Default[n] /\ \A v \in Values, h \in Hints : req[<<n, v, h>>] = 0
    <3>1. \A v \in Values, h \in Hints : ~(req[<<n, v, h>>] > 0)
      BY <2>5
    <3>2. \A v \in Values : ~Active(req, n, v)
      BY Zenon, <3>1 DEF Active
    <3> QED BY <2>1, <2>3, <2>5, <3>2
  <2>6. CASE /\ \A v \in Values, h \in Hints : v < current[n] => req[<<n, v, h>>] = 0
             /\ \E h \in Hints : req[<<n, current[n], h>>] >= timeoutMs - slow
    <3>1. Active(req, n, current[n])
      BY <2>2, <2>4, <2>6 DEF Active
    <3>2. Strongest(req, n) <= current[n] /\ Active(req, n, Strongest(req, n))
      BY <2>2, <2>3, <3>1
    <3>3. ~(Strongest(req, n) < current[n])
      BY <2>3, <2>6, <3>2 DEF Active
    <3> QED BY <2>1, <2>2, <2>3, <3>2, <3>3, ConstantFacts DEF Values
  <2> QED BY <2>1, <2>5, <2>6 DEF AtRest
<1> QED BY <1>1, Invariance, PTL

(* A FileNode that could not be written is tried again within Retry. *)
THEOREM RetriedSoonHolds == Spec => []RetriedSoon
<1>1. IInv => RetriedSoon
  BY DEF IInv, RetriedSoon, Done, TypeOK
<1> QED BY <1>1, Invariance, PTL
-----------------------------------------------------------------------------
(* Two nodes the kernel keeps in order, as it does the highest frequency of *)
(* a CPU (upper) and the lowest (lower): index 0 is the highest value, and  *)
(* a write that would put lower above upper is refused.  The hints respect  *)
(* the order: one that raises lower raises upper at least as far and for at *)
(* least as long.                                                           *)
Pair(upper, lower) ==
    /\ upper \in Nodes /\ lower \in Nodes /\ upper # lower
    /\ Kind[upper] # "property" /\ Kind[lower] # "property"
    /\ \A n, m \in Nodes, v, w \in Values : <<n, v, m, w>> \in Clash <=>
          \/ n = upper /\ m = lower /\ w < v
          \/ n = lower /\ m = upper /\ v < w
    /\ Default[upper] <= Default[lower]
    /\ \A h \in Hints : \A a \in Actions[h] :
          /\ a.node = upper => a.value <= Default[lower]
          /\ a.node = lower =>
                \E b \in Actions[h] :
                    /\ b.node = upper /\ b.value <= a.value
                    /\ EndTime(a, NoOverride) <= EndTime(b, NoOverride)

PairConfigured == \E upper, lower \in Nodes : Pair(upper, lower)

(* A request on lower has a counterpart on upper that ends no earlier.      *)
Backed(r, upper, lower) ==
    /\ \A v \in Values, h \in Hints : r[<<upper, v, h>>] > 0 => v <= Default[lower]
    /\ \A v \in Values, h \in Hints : r[<<lower, v, h>>] > 0 =>
          \E a, b \in Actions[h] :
              /\ a.node = lower /\ a.value = v
              /\ b.node = upper /\ b.value <= v
              /\ r[<<lower, v, h>>] <= r[<<upper, b.value, h>>]

(* The first pass has been at the node. *)
Visited(n) == pc = "pass2" \/ (pc = "pass1" /\ n < node)

Reached(n) == current[n] = Strongest(req, n)

(* As long as nothing came in between, the first pass leaves one of the two *)
(* where it should be, and the second pass fails nowhere.                   *)
Advances(upper, lower) ==
    hiccup = 0 /\ slow = 0 =>
        /\ Visited(upper) =>
              Reached(upper) \/ Reached(lower) \/ current[lower] < Strongest(req, upper)
        /\ Visited(lower) =>
              Reached(upper) \/ Reached(lower) \/ Strongest(req, lower) < current[upper]
        /\ \A n \in Nodes : Done(n) => n \notin failed

PairInv(upper, lower) ==
    /\ current[upper] <= current[lower]
    /\ Backed(req, upper, lower)
    /\ Advances(upper, lower)

(* The target of a node changes only with the requests. *)
LEMMA StrongestSame ==
    ASSUME req' = req, NEW n
    PROVE  Strongest(req, n)' = Strongest(req, n)
OBVIOUS

(* The value asked of upper is never below the one asked of lower. *)
LEMMA TargetsInOrder ==
    ASSUME TypeOK, NEW upper, NEW lower, Pair(upper, lower), Backed(req, upper, lower)
    PROVE  /\ Strongest(req, upper) \in Values
           /\ Strongest(req, lower) \in Values
           /\ Strongest(req, upper) <= Strongest(req, lower)
<1> DEFINE U == Strongest(req, upper)
           W == Strongest(req, lower)
<1>1. req \in [Keys -> Nat] /\ upper \in Nodes /\ lower \in Nodes
  BY ConstantFacts DEF TypeOK, Keys, Forever, Pair
<1>2. /\ U \in Values
      /\ (\A v \in Values : ~Active(req, upper, v)) => U = Default[upper]
      /\ \A v \in Values : Active(req, upper, v) => Active(req, upper, U) /\ U <= v
  BY <1>1, StrongestIsFirst
<1>3. /\ W \in Values
      /\ (\A v \in Values : ~Active(req, lower, v)) => W = Default[lower]
      /\ \A v \in Values : Active(req, lower, v) => Active(req, lower, W) /\ W <= v
  BY <1>1, StrongestIsFirst
<1>4. Values \subseteq Nat /\ Default[upper] \in Values /\ Default[lower] \in Values
  BY <1>1, ConstantFacts DEF Values
<1> HIDE DEF U, W
<1>5. CASE \E v \in Values : Active(req, lower, v)
  <2>1. PICK h \in Hints : req[<<lower, W, h>>] > 0
    BY <1>3, <1>5 DEF Active
  <2>2. PICK b \in Actions[h] :
          /\ b.node = upper /\ b.value <= W
          /\ req[<<lower, W, h>>] <= req[<<upper, b.value, h>>]
    BY Zenon, <1>3, <2>1 DEF Backed
  <2>3. b.value \in Values
    BY <2>2, ActionValues
  <2>4. req[<<lower, W, h>>] \in Nat /\ req[<<upper, b.value, h>>] \in Nat
    BY <1>1, <1>3, <2>3 DEF Keys
  <2>5. Active(req, upper, b.value)
    BY <2>1, <2>2, <2>4 DEF Active
  <2>6. U <= b.value
    BY <1>2, <2>3, <2>5
  <2>7. U \in Nat /\ W \in Nat /\ b.value \in Nat
    <3>1. \A v \in Values : v \in Nat
      BY <1>4
    <3> QED BY <1>2, <1>3, <2>3, <3>1
  <2>8. U <= W
    BY <2>2, <2>6, <2>7
  <2> QED BY <1>2, <1>3, <2>8 DEF U, W
<1>6. CASE ~\E v \in Values : Active(req, lower, v)
  <2>1. W = Default[lower]
    BY <1>3, <1>6
  <2>2. CASE \E v \in Values : Active(req, upper, v)
    <3>1. PICK h \in Hints : req[<<upper, U, h>>] > 0
      BY <1>2, <2>2 DEF Active
    <3>2. U <= Default[lower]
      BY <1>2, <3>1 DEF Backed
    <3> QED BY <1>2, <1>3, <2>1, <3>2 DEF U, W
  <2>3. CASE ~\E v \in Values : Active(req, upper, v)
    <3>1. U = Default[upper] /\ Default[upper] <= Default[lower]
      BY <1>2, <2>3 DEF Pair
    <3> QED BY <1>2, <1>3, <2>1, <3>1 DEF U, W
  <2> QED BY <2>2, <2>3
<1> QED BY <1>5, <1>6

(* Only upper and lower are refused a value, and only by one another. *)
LEMMA WhoIsRefused ==
    ASSUME TypeOK, NEW upper, NEW lower, Pair(upper, lower),
           NEW n \in Nodes, NEW v \in Values
    PROVE  Refused(n, v) <=> \/ n = upper /\ current[lower] < v
                             \/ n = lower /\ v < current[upper]
<1>1. \A m \in Nodes : current[m] \in Values
  BY DEF TypeOK
<1>2. /\ upper \in Nodes /\ lower \in Nodes
      /\ Kind[upper] # "property" /\ Kind[lower] # "property"
  BY DEF Pair
<1>3. \A m \in Nodes : <<n, v, m, current[m]>> \in Clash <=>
          \/ n = upper /\ m = lower /\ current[m] < v
          \/ n = lower /\ m = upper /\ v < current[m]
  BY <1>1 DEF Pair
<1> QED BY Zenon, <1>2, <1>3 DEF Refused

(* No request is running at first. *)
LEMMA PairInit ==
    ASSUME Init, NEW upper, NEW lower, Pair(upper, lower)
    PROVE  PairInv(upper, lower)
<1>1. upper \in Nodes /\ lower \in Nodes /\ Default[upper] <= Default[lower]
  BY DEF Pair
<1>2. \A n \in Nodes, v \in Values, h \in Hints : req[<<n, v, h>>] = 0
  BY DEF Init
<1>3. Backed(req, upper, lower)
  BY <1>1, <1>2 DEF Backed
<1> QED BY <1>1, <1>3 DEF Init, PairInv, Advances, Visited, Done

(* Backed is about the requests alone. *)
LEMMA BackedSame ==
    ASSUME NEW upper, NEW lower, Backed(req, upper, lower), req' = req
    PROVE  Backed(req, upper, lower)'
OBVIOUS

(* Outside the passes there is nothing to be said of them. *)
LEMMA PairOutside ==
    ASSUME NEW upper, NEW lower, Pair(upper, lower), PairInv(upper, lower),
           Backed(req, upper, lower)', current' = current,
           \A n \in Nodes : ~Done(n)' /\ ~Visited(n)'
    PROVE  PairInv(upper, lower)'
<1>1. upper \in Nodes /\ lower \in Nodes
  BY DEF Pair
<1>2. Advances(upper, lower)'
  BY Zenon, <1>1 DEF Advances
<1>3. (current[upper] <= current[lower])'
  BY Zenon DEF PairInv
<1> QED BY Zenon, <1>2, <1>3 DEF PairInv

(* Requests and cancellations treat upper and lower alike. *)
LEMMA CallersBacked ==
    ASSUME IInv, Request \/ Cancel, NEW upper, NEW lower, Pair(upper, lower),
           Backed(req, upper, lower)
    PROVE  Backed(req, upper, lower)'
<1> DEFINE h == caller.hint
           o == caller.override
<1>1. h \in Hints /\ o \in Overrides \cup {NoOverride}
  BY DEF IInv, TypeOK, Calls, Idle, Request, Cancel
<1>2. upper \in Nodes /\ lower \in Nodes /\ upper # lower
  BY DEF Pair
<1>3. \A n \in Nodes, v \in Values, g \in Hints :
        <<n, v, g>> \in Keys /\ req[<<n, v, g>>] \in 0..Forever
  BY SMTT(20) DEF IInv, TypeOK, Keys
<1>4. \A g \in Hints : \A a \in Actions[g] : a.value \in Values
  BY ActionValues
<1>5. CASE Cancel
  <2>1. \A n \in Nodes, v \in Values, g \in Hints : req'[<<n, v, g>>] =
          IF g = h /\ \E a \in Actions[h] : a.node = n THEN 0 ELSE req[<<n, v, g>>]
    <3> DEFINE A(k) == IF k[3] = h /\ \E a \in Actions[h] : a.node = k[1] THEN 0 ELSE req[k]
    <3>1. req' = [k \in Keys |-> A(k)]
      BY Zenon, <1>5 DEF Cancel, RemoveRequests, Keys
    <3> TAKE n \in Nodes, v \in Values, g \in Hints
    <3>2. A(<<n, v, g>>) = IF g = h /\ \E a \in Actions[h] : a.node = n
                           THEN 0 ELSE req[<<n, v, g>>]
      OBVIOUS
    <3> HIDE DEF A
    <3>3. req'[<<n, v, g>>] = A(<<n, v, g>>)
      BY <1>3, <3>1
    <3> QED BY <3>2, <3>3
  <2>2. \A v \in Values, g \in Hints : req'[<<upper, v, g>>] > 0 => v <= Default[lower]
    <3> TAKE v \in Values, g \in Hints
    <3> HAVE req'[<<upper, v, g>>] > 0
    <3>1. req'[<<upper, v, g>>] = 0 \/ req'[<<upper, v, g>>] = req[<<upper, v, g>>]
      BY <1>2, <2>1
    <3>2. req'[<<upper, v, g>>] = req[<<upper, v, g>>]
      BY <3>1
    <3> QED BY Zenon, <3>2 DEF Backed
  <2>3. ASSUME NEW v \in Values, NEW g \in Hints, req'[<<lower, v, g>>] > 0
        PROVE  \E a, b \in Actions[g] :
                  /\ a.node = lower /\ a.value = v
                  /\ b.node = upper /\ b.value <= v
                  /\ req'[<<lower, v, g>>] <= req'[<<upper, b.value, g>>]
    <3>1. req'[<<lower, v, g>>] = req[<<lower, v, g>>]
      BY <1>2, <2>1, <2>3
    <3>2. PICK a \in Actions[g], b \in Actions[g] :
             /\ a.node = lower /\ a.value = v
             /\ b.node = upper /\ b.value <= v
             /\ req[<<lower, v, g>>] <= req[<<upper, b.value, g>>]
      BY <2>3, <3>1 DEF Backed
    <3>3. g # h
      BY <1>2, <2>1, <2>3, <3>2
    <3>4. req'[<<upper, b.value, g>>] = req[<<upper, b.value, g>>]
      BY <1>2, <1>4, <2>1, <3>3
    <3> QED BY Zenon, <3>1, <3>2, <3>4
  <2> QED BY Zenon, <2>2, <2>3 DEF Backed
<1>6. CASE Request
  <2> DEFINE E(a) == EndTime(a, o)
  <2>1. ASSUME NEW n \in Nodes, NEW v \in Values, NEW g \in Hints
        PROVE  \/ req'[<<n, v, g>>] = req[<<n, v, g>>]
                  /\ ~(g = h /\ \E a \in Actions[h] : a.node = n /\ a.value = v)
               \/ g = h /\ \E a \in Actions[h] :
                     /\ a.node = n /\ a.value = v
                     /\ req'[<<n, v, g>>] = Extended(req[<<n, v, g>>], E(a))
    <3> DEFINE k == <<n, v, g>>
               A(j) == IF j[3] = h /\ EndTimes(j, h, o) # {}
                       THEN Extended(req[j], CHOOSE t \in EndTimes(j, h, o) : TRUE)
                       ELSE req[j]
    <3>1. k \in Keys /\ k[1] = n /\ k[2] = v /\ k[3] = g
      BY DEF Keys
    <3>2. req'[k] = IF g = h /\ EndTimes(k, h, o) # {}
                    THEN Extended(req[k], CHOOSE t \in EndTimes(k, h, o) : TRUE)
                    ELSE req[k]
      <4>1. req' = [j \in Keys |-> A(j)]
        BY Zenon, <1>6 DEF Request, AddRequests, Keys
      <4>2. A(k) = IF g = h /\ EndTimes(k, h, o) # {}
                   THEN Extended(req[k], CHOOSE t \in EndTimes(k, h, o) : TRUE)
                   ELSE req[k]
        BY <3>1
      <4> HIDE DEF A, k
      <4>3. req'[k] = A(k)
        BY <3>1, <4>1
      <4> QED BY Zenon, <4>2, <4>3
    <3>3. EndTimes(k, h, o) = {E(a) : a \in {b \in Actions[h] : b.node = n /\ b.value = v}}
      BY SMTT(20), <3>1 DEF EndTimes
    <3> HIDE DEF k, E
    <3>4. CASE g = h /\ EndTimes(k, h, o) # {}
      <4>1. (CHOOSE t \in EndTimes(k, h, o) : TRUE) \in EndTimes(k, h, o)
        BY <3>4
      <4>2. PICK a \in Actions[h] :
               /\ a.node = n /\ a.value = v
               /\ (CHOOSE t \in EndTimes(k, h, o) : TRUE) = E(a)
        BY <3>3, <4>1
      <4>3. req'[k] = Extended(req[k], E(a))
        BY Zenon, <3>2, <3>4, <4>2
      <4> QED BY <3>4, <4>2, <4>3 DEF k
    <3>5. CASE ~(g = h /\ EndTimes(k, h, o) # {})
      <4>1. req'[k] = req[k]
        BY <3>2, <3>5
      <4>2. ~(g = h /\ \E a \in Actions[h] : a.node = n /\ a.value = v)
        BY Zenon, <3>3, <3>5
      <4> QED BY <4>1, <4>2 DEF k
    <3> QED BY <3>4, <3>5
  <2>2. \A v \in Values, g \in Hints : req'[<<upper, v, g>>] > 0 => v <= Default[lower]
    <3> TAKE v \in Values, g \in Hints
    <3> HAVE req'[<<upper, v, g>>] > 0
    <3>1. CASE req'[<<upper, v, g>>] = req[<<upper, v, g>>]
      BY Zenon, <3>1 DEF Backed
    <3>2. CASE \E a \in Actions[h] : a.node = upper /\ a.value = v
      BY SMTT(20), <1>1, <3>2 DEF Pair
    <3> QED BY <1>2, <2>1, <3>1, <3>2
  <2>3. \A a \in Actions[h] : E(a) \in 0..Forever
    <3>1. \A a \in Actions[h] : a.timeout \in 0..MaxTimeout
      BY <1>1, ConstantFacts
    <3>2. o \in 0..MaxTimeout \/ o = NoOverride
      BY Zenon, <1>1, ConstantFacts
    <3> QED BY <3>1, <3>2, ConstantFacts DEF EndTime, Forever
  <2>4. \A a, b \in Actions[h] :
          EndTime(a, NoOverride) <= EndTime(b, NoOverride) => E(a) <= E(b)
    BY <2>3, ConstantFacts DEF EndTime, Forever
  <2>5. Forever \in Nat
    BY ConstantFacts DEF Forever
  <2> HIDE DEF E
  <2>6. ASSUME NEW v \in Values, NEW g \in Hints
        PROVE  /\ req[<<upper, v, g>>] \in Nat /\ req'[<<upper, v, g>>] \in Nat
               /\ req[<<upper, v, g>>] <= req'[<<upper, v, g>>]
    BY <1>2, <1>3, <2>1, <2>3, <2>5 DEF Extended
  <2>7. ASSUME NEW v \in Values, NEW g \in Hints, req'[<<lower, v, g>>] > 0
        PROVE  \E a, b \in Actions[g] :
                  /\ a.node = lower /\ a.value = v
                  /\ b.node = upper /\ b.value <= v
                  /\ req'[<<lower, v, g>>] <= req'[<<upper, b.value, g>>]
    <3>1. req[<<lower, v, g>>] \in Nat
      BY <1>2, <1>3, <2>5
    <3>2. CASE req'[<<lower, v, g>>] = req[<<lower, v, g>>]
      <4>1. PICK a \in Actions[g], b \in Actions[g] :
               /\ a.node = lower /\ a.value = v
               /\ b.node = upper /\ b.value <= v
               /\ req[<<lower, v, g>>] <= req[<<upper, b.value, g>>]
        BY <2>7, <3>2 DEF Backed
      <4>2. b.value \in Values
        BY <1>4
      <4>3. req'[<<lower, v, g>>] <= req'[<<upper, b.value, g>>]
        BY <2>6, <3>1, <3>2, <4>1, <4>2
      <4> QED BY Zenon, <4>1, <4>3
    <3>3. ASSUME g = h, NEW a \in Actions[h], a.node = lower, a.value = v,
                 req'[<<lower, v, g>>] = Extended(req[<<lower, v, g>>], E(a)),
                 req'[<<lower, v, g>>] # req[<<lower, v, g>>]
          PROVE  \E b \in Actions[h] :
                    /\ b.node = upper /\ b.value <= v
                    /\ req'[<<lower, v, g>>] <= req'[<<upper, b.value, g>>]
      <4>1. req'[<<lower, v, g>>] = E(a)
        BY Zenon, <3>3 DEF Extended
      <4>2. PICK b \in Actions[h] :
               /\ b.node = upper /\ b.value <= v
               /\ EndTime(a, NoOverride) <= EndTime(b, NoOverride)
        BY Zenon, <1>1, <3>3 DEF Pair
      <4>3. b.value \in Values
        BY Zenon, <1>1, <1>4
      <4>4. PICK c \in Actions[h] :
               /\ c.node = upper /\ c.value = b.value
               /\ req'[<<upper, b.value, h>>] = Extended(req[<<upper, b.value, h>>], E(c))
        BY <1>1, <1>2, <2>1, <4>2, <4>3
      <4>5. c = b
        BY <1>1, <4>2, <4>4, ConstantFacts
      <4>6. E(b) <= req'[<<upper, b.value, h>>]
        BY <1>1, <1>2, <1>3, <2>3, <2>5, <4>3, <4>4, <4>5 DEF Extended
      <4>7. E(a) <= E(b) /\ E(a) \in Nat /\ E(b) \in Nat
        BY SMTT(20), <2>3, <2>4, <2>5, <4>2
      <4>8. req'[<<upper, b.value, h>>] \in Nat
        BY <1>1, <2>6, <4>3
      <4>9. req'[<<lower, v, g>>] <= req'[<<upper, b.value, g>>]
        BY <3>3, <4>1, <4>6, <4>7, <4>8
      <4> QED BY Zenon, <4>2, <4>9
    <3>4. CASE req'[<<lower, v, g>>] # req[<<lower, v, g>>]
      <4>1. g = h
        BY <1>2, <2>1, <3>4
      <4>2. PICK a \in Actions[h] :
               /\ a.node = lower /\ a.value = v
               /\ req'[<<lower, v, g>>] = Extended(req[<<lower, v, g>>], E(a))
        BY <1>2, <2>1, <3>4
      <4>3. \E b \in Actions[h] :
               /\ b.node = upper /\ b.value <= v
               /\ req'[<<lower, v, g>>] <= req'[<<upper, b.value, g>>]
        BY Zenon, <3>3, <3>4, <4>1, <4>2
      <4> QED BY Zenon, <4>1, <4>2, <4>3
    <3> QED BY Zenon, <3>2, <3>4
  <2> QED BY Zenon, <2>2, <2>7 DEF Backed
<1> QED BY Zenon, <1>5, <1>6

(* The requests on the two nodes run down together. *)
LEMMA TickBacked ==
    ASSUME IInv, Tick, NEW upper, NEW lower, Pair(upper, lower), Backed(req, upper, lower)
    PROVE  Backed(req, upper, lower)'
<1>1. upper \in Nodes /\ lower \in Nodes /\ Forever \in Nat
  BY ConstantFacts DEF Pair, Forever
<1>2. \A n \in Nodes, v \in Values, h \in Hints :
        req[<<n, v, h>>] \in 0..Forever /\ req'[<<n, v, h>>] = Down(req[<<n, v, h>>])
  BY DEF IInv, TypeOK, Tick
<1>3. \A s, t \in 0..Forever : /\ s <= t => Down(s) <= Down(t)
                               /\ Down(s) > 0 => s > 0
  BY <1>1 DEF Down
<1>4. \A g \in Hints : \A a \in Actions[g] : a.value \in Values
  BY ActionValues
<1>5. \A v \in Values, h \in Hints : req'[<<upper, v, h>>] > 0 => v <= Default[lower]
  BY <1>1, <1>2, <1>3 DEF Backed
<1>6. ASSUME NEW v \in Values, NEW h \in Hints, req'[<<lower, v, h>>] > 0
      PROVE  \E a, b \in Actions[h] :
                /\ a.node = lower /\ a.value = v
                /\ b.node = upper /\ b.value <= v
                /\ req'[<<lower, v, h>>] <= req'[<<upper, b.value, h>>]
  <2>1. req[<<lower, v, h>>] > 0
    BY <1>1, <1>2, <1>3, <1>6
  <2>2. PICK a \in Actions[h], b \in Actions[h] :
           /\ a.node = lower /\ a.value = v
           /\ b.node = upper /\ b.value <= v
           /\ req[<<lower, v, h>>] <= req[<<upper, b.value, h>>]
    BY <2>1 DEF Backed
  <2>3. req'[<<lower, v, h>>] <= req'[<<upper, b.value, h>>]
    BY <1>1, <1>2, <1>3, <1>4, <2>2
  <2> QED BY Zenon, <2>2, <2>3
<1> QED BY Zenon, <1>5, <1>6 DEF Backed

(* Node::Update keeps the two nodes in order; in the second pass none of    *)
(* the two is refused, since the first left one where it should be.         *)
LEMMA UpdatePair ==
    ASSUME IInv, UpdateNothing \/ UpdateWrites \/ UpdateFails,
           NEW upper, NEW lower, Pair(upper, lower), PairInv(upper, lower)
    PROVE  PairInv(upper, lower)'
<1>1. /\ TypeOK /\ node \in Nodes /\ pc \in InPass /\ UNCHANGED <<req, slow>>
      /\ upper \in Nodes /\ lower \in Nodes /\ upper # lower
  BY Zenon DEF IInv, TypeOK, UpdateNothing, UpdateWrites, UpdateFails, UNCHANGEDInUpdate, Pair
<1>2. \A n \in Nodes : Strongest(req, n) \in Values
  <2>1. req \in [Keys -> Nat]
    BY <1>1, ConstantFacts DEF TypeOK, Keys, Forever
  <2> QED BY <2>1, StrongestIsFirst
<1>3. \A n \in Nodes : Strongest(req, n)' = Strongest(req, n)
  BY <1>1, StrongestSame
<1>4. Strongest(req, upper) <= Strongest(req, lower) /\ current[upper] <= current[lower]
  BY <1>1, TargetsInOrder DEF PairInv
<1>5. \A n \in Nodes : Strongest(req, n) \in Nat /\ current[n] \in Nat
  BY <1>1, <1>2, ConstantFacts DEF TypeOK, Values
<1>6. \A n \in Nodes : Refused(n, Strongest(req, n)) <=>
          \/ n = upper /\ current[lower] < Strongest(req, upper)
          \/ n = lower /\ Strongest(req, lower) < current[upper]
  BY <1>1, <1>2, WhoIsRefused
<1>7. \A n \in Nodes : n # node => /\ current'[n] = current[n]
                                   /\ n \in failed' <=> n \in failed
  BY Zenon, <1>1 DEF UpdateNothing, UpdateWrites, UpdateFails, TypeOK
<1>8. \/ /\ current'[node] = Strongest(req, node)
         /\ current[node] = Strongest(req, node) \/ ~Refused(node, Strongest(req, node))
         /\ node \notin failed' /\ hiccup' = hiccup
      \/ /\ current'[node] = current[node]
         /\ \/ Refused(node, Strongest(req, node)) /\ hiccup' = hiccup
            \/ hiccup' = 1
  <2>1. CASE UpdateNothing
    BY SMTT(20), <2>1 DEF UpdateNothing, NeedsWrite
  <2>2. CASE UpdateWrites
    BY Zenon, <1>1, <2>2 DEF UpdateWrites, TypeOK
  <2>3. CASE UpdateFails
    BY <2>3 DEF UpdateFails
  <2> QED BY <2>1, <2>2, <2>3
<1>9. \A n \in Nodes : Visited(n)' => n = node \/ Visited(n)
  <2>1. \E wrote \in BOOLEAN : NextNode(wrote)
    BY Zenon DEF UpdateNothing, UpdateWrites, UpdateFails
  <2>2. NumNodes \in Nat /\ \A n \in Nodes : n \in 1..NumNodes
    BY ConstantFacts DEF Nodes
  <2> QED BY <1>1, <2>1, <2>2 DEF Visited, NextNode, InPass
<1>10. \A n \in Nodes : Done(n)' => (n = node \/ Done(n)) /\ pc = "pass2"
  BY Zenon, <1>1, NextNodeFacts DEF UpdateNothing, UpdateWrites, UpdateFails
<1>11. current'[upper] <= current'[lower]
  <2>1. /\ upper # node => current'[upper] = current[upper]
        /\ lower # node => current'[lower] = current[lower]
    BY <1>1, <1>7
  <2>2. CASE current'[node] = current[node]
    BY <1>1, <1>4, <2>1, <2>2
  <2>3. CASE /\ current'[node] = Strongest(req, node)
             /\ ~Refused(node, Strongest(req, node))
    <3>1. CASE node = upper
      <4>1. ~(current[lower] < Strongest(req, upper))
        BY <1>1, <1>6, <2>3, <3>1
      <4>2. current'[upper] = Strongest(req, upper) /\ current'[lower] = current[lower]
        BY <1>1, <2>1, <2>3, <3>1
      <4> QED BY <1>1, <1>5, <4>1, <4>2
    <3>2. CASE node = lower
      <4>1. ~(Strongest(req, lower) < current[upper])
        BY <1>1, <1>6, <2>3, <3>2
      <4>2. current'[lower] = Strongest(req, lower) /\ current'[upper] = current[upper]
        BY <1>1, <2>1, <2>3, <3>2
      <4> QED BY <1>1, <1>5, <4>1, <4>2
    <3>3. CASE node # upper /\ node # lower
      BY <1>4, <2>1, <3>3
    <3> QED BY <3>1, <3>2, <3>3
  <2> QED BY Zenon, <1>8, <2>2, <2>3
<1>12. Backed(req, upper, lower)'
  BY <1>1, BackedSame DEF PairInv
<1>13. ASSUME hiccup' = 0, slow' = 0
       PROVE  /\ hiccup = 0 /\ slow = 0
              /\ current'[node] = current[node] =>
                    current[node] = Strongest(req, node) \/ Refused(node, Strongest(req, node))
  BY SMTT(20), <1>1, <1>8, <1>13
<1>14. ASSUME hiccup' = 0, slow' = 0, Visited(upper)'
       PROVE  \/ current'[upper] = Strongest(req, upper)
              \/ current'[lower] = Strongest(req, lower)
              \/ current'[lower] < Strongest(req, upper)
  <2>1. CASE node \in {upper, lower} /\ current'[node] = Strongest(req, node)
    BY Zenon, <2>1
  <2>2. CASE node = upper /\ current'[node] = current[node]
    BY SMTT(20), <1>1, <1>6, <1>7, <1>13, <1>14, <2>2
  <2>3. CASE node # upper /\ (node = lower => current'[node] = current[node])
    <3>1. Visited(upper) /\ hiccup = 0 /\ slow = 0
      BY <1>1, <1>9, <1>13, <1>14, <2>3
    <3>2. current'[upper] = current[upper] /\ current'[lower] = current[lower]
      BY SMTT(20), <1>1, <1>7, <2>3
    <3> QED BY <3>1, <3>2 DEF PairInv, Advances, Reached
  <2> QED BY <1>8, <2>1, <2>2, <2>3
<1>15. ASSUME hiccup' = 0, slow' = 0, Visited(lower)'
       PROVE  \/ current'[upper] = Strongest(req, upper)
              \/ current'[lower] = Strongest(req, lower)
              \/ Strongest(req, lower) < current'[upper]
  <2>1. CASE node \in {upper, lower} /\ current'[node] = Strongest(req, node)
    BY Zenon, <2>1
  <2>2. CASE node = lower /\ current'[node] = current[node]
    BY <1>1, <1>6, <1>7, <1>13, <1>15, <2>2
  <2>3. CASE node # lower /\ (node = upper => current'[node] = current[node])
    <3>1. Visited(lower) /\ hiccup = 0 /\ slow = 0
      BY SMTT(20), <1>1, <1>9, <1>13, <1>15, <2>3
    <3>2. current'[upper] = current[upper] /\ current'[lower] = current[lower]
      BY <1>1, <1>7, <2>3
    <3> QED BY Zenon, <3>1, <3>2 DEF PairInv, Advances, Reached
  <2> QED BY <1>8, <2>1, <2>2, <2>3
<1>16. ASSUME hiccup' = 0, slow' = 0, NEW n \in Nodes, Done(n)'
       PROVE  n \notin failed'
  <2>1. hiccup = 0 /\ slow = 0 /\ pc = "pass2"
    BY Zenon, <1>10, <1>13, <1>16
  <2>2. CASE n # node
    BY <1>7, <1>10, <1>16, <2>1, <2>2 DEF PairInv, Advances
  <2>3. CASE n = node
    <3>1. /\ \/ current[upper] = Strongest(req, upper)
             \/ current[lower] = Strongest(req, lower)
             \/ current[lower] < Strongest(req, upper)
          /\ \/ current[upper] = Strongest(req, upper)
             \/ current[lower] = Strongest(req, lower)
             \/ Strongest(req, lower) < current[upper]
      BY <2>1 DEF PairInv, Advances, Visited, Reached
    <3>2. ~Refused(node, Strongest(req, node))
      BY <1>1, <1>4, <1>5, <1>6, <3>1
    <3> QED BY <1>8, <1>16, <2>3, <3>2
  <2> QED BY <2>2, <2>3
<1>17. Advances(upper, lower)'
  BY <1>1, <1>3, <1>14, <1>15, <1>16 DEF Advances, Reached
<1> QED BY <1>11, <1>12, <1>17 DEF PairInv

(* Every step keeps the two nodes in order. *)
LEMMA NextPair ==
    ASSUME IInv, [Next]_vars, NEW upper, NEW lower, Pair(upper, lower),
           PairInv(upper, lower)
    PROVE  PairInv(upper, lower)'
<1>1. CASE UpdateNothing \/ UpdateWrites \/ UpdateFails
  BY <1>1, UpdatePair
<1>2. CASE Request \/ Cancel
  <2>1. Backed(req, upper, lower)'
    BY <1>2, CallersBacked DEF PairInv
  <2>2. \A n \in Nodes : ~Done(n)' /\ ~Visited(n)'
    BY <1>2 DEF Done, Visited, Request, Cancel, Signal, InPass
  <2>3. UNCHANGED current
    BY <1>2 DEF Request, Cancel
  <2> QED BY <2>1, <2>2, <2>3, PairOutside
<1>3. CASE Tick
  <2>1. Backed(req, upper, lower)'
    BY <1>3, TickBacked DEF PairInv
  <2>2. UNCHANGED <<current, failed, hiccup, pc, node>>
    BY Zenon, <1>3 DEF Tick
  <2>3. slow' = 0 => slow = 0 /\ pc \notin InPass
    BY <1>3, ConstantFacts DEF Tick, IInv, TypeOK
  <2>4. Advances(upper, lower)'
    BY <2>2, <2>3 DEF PairInv, Advances, Visited, Done, InPass
  <2> QED BY <2>1, <2>2, <2>4 DEF PairInv
<1>4. CASE Enter
  <2>1. UNCHANGED <<current, req>>
    BY <1>4 DEF Enter
  <2>2. \A n \in Nodes : ~Done(n)' /\ ~Visited(n)'
    BY <1>4, ConstantFacts DEF Enter, Done, Visited, Nodes
  <2>3. Backed(req, upper, lower)'
    BY <2>1, BackedSame DEF PairInv
  <2> QED BY <2>1, <2>2, <2>3, PairOutside
<1>5. CASE WaitEnds \/ Timeout \/ Check \/ Start \/ StopSignal
  <2>1. UNCHANGED <<current, req>>
    BY <1>5 DEF WaitEnds, Timeout, Check, Start, StopSignal
  <2>2. \A n \in Nodes : ~Done(n)' /\ ~Visited(n)'
    BY <1>5 DEF Done, Visited, WaitEnds, Timeout, Check, Start, StopSignal, Signal,
                InPass, IInv, TypeOK
  <2>3. Backed(req, upper, lower)'
    BY <2>1, BackedSame DEF PairInv
  <2> QED BY <2>1, <2>2, <2>3, PairOutside
<1>6. CASE (\E call \in Calls : CallBegin(call)) \/ StopJoin \/ UNCHANGED vars
  <2>1. UNCHANGED <<current, req, failed, hiccup, slow, pc, node>>
    BY <1>6 DEF CallBegin, StopJoin, vars
  <2>2. \A n \in Nodes : Strongest(req, n)' = Strongest(req, n)
    BY <2>1, StrongestSame
  <2>3. Backed(req, upper, lower)'
    BY Zenon, <2>1, BackedSame DEF PairInv
  <2>4. Advances(upper, lower)'
    BY <2>1, <2>2 DEF PairInv, Advances, Visited, Done, Reached, Pair
  <2> QED BY <2>1, <2>3, <2>4 DEF PairInv
<1> QED BY <1>1, <1>2, <1>3, <1>4, <1>5, <1>6 DEF Next, Looper, Caller

(* threadLoop's two passes are enough for two nodes the kernel keeps in     *)
(* order, whatever the values, the hints and the order of the two in nodes_: *)
(* "Update 2 passes: some node may have dependency in other node".          *)
THEOREM TwoPassesSufficeHolds == PairConfigured => (Spec => []TwoPassesSuffice)
<1> DEFINE Inv == /\ PairConfigured
                  /\ IInv
                  /\ \A upper, lower \in Nodes :
                        Pair(upper, lower) => PairInv(upper, lower)
<1>1. PairConfigured /\ Init => Inv
  BY InitIInv, PairInit
<1>2. Inv /\ [Next]_vars => Inv'
  BY NextIInv, NextPair
<1>3. Inv => TwoPassesSuffice
  <2> SUFFICES ASSUME Inv, pc = "wait", hiccup = 0, slow = 0
               PROVE  failed = {}
    BY DEF TwoPassesSuffice
  <2>1. PICK upper, lower \in Nodes : Pair(upper, lower)
    BY DEF PairConfigured
  <2>2. \A n \in Nodes : n \notin failed
    BY <2>1 DEF PairInv, Advances, Done
  <2> QED BY <2>2 DEF IInv, TypeOK
<1> HIDE DEF Inv
<1> QED BY <1>1, <1>2, <1>3, PTL DEF Spec
=============================================================================
