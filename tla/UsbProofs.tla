------------------------------ MODULE UsbProofs ------------------------------
(***************************************************************************)
(* Proofs about the two USB HALs.  The type-C HAL, for any set of modes    *)
(* and any number of plug events, calls and faults: no wake-up is lost,    *)
(* nobody takes the port out of the hands of a mode switch, and the        *)
(* callback is not left with an outdated status.  The gadget HAL, for any  *)
(* functions, requests, faults and restarts of owners: what is up is what  *)
(* was requested, success is answered only for what was done, and the      *)
(* monitor neither misses a message nor a request to stop.                 *)
(***************************************************************************)
EXTENDS Usb, UsbGadget, SequenceTheorems, TLAPS

\* What each mutex is held for.
Locks ==
  /\ binder \in {"notify", "join"} => mLock = "binder"
  /\ worker = "notify" => mLock = "worker"
  /\ binder \in {"write", "enter"} => mPartnerLock = "binder"
  /\ binder \in {"open", "clear", "write", "enter", "wait", "woken", "timedout", "drp", "result"}
       => mRoleSwitchLock = "binder"
  /\ worker \in {"check", "drp"} => mRoleSwitchLock = "worker"

\* A mode switch, from the reset of mPartnerUp to its result.
Switching ==
  /\ binder \in {"write", "enter", "wait"} => ~mPartnerUp
  /\ binder \in {"open", "clear", "write", "enter", "wait", "woken", "timedout", "drp"}
       => role \in Modes /\ ~roleSwitch
  /\ RoleHeld

\* The first message stays in the socket's queue while the worker handles it.
Handling == worker \in {"signal", "read", "notify", "trylock", "check", "drp"}

\* A message is there for which the worker has not read the status yet.
Pending == Len(uevents) > (IF worker \in {"notify", "trylock", "check", "drp"} THEN 1 ELSE 0)

\* No status, as the callback is told before the worker listens or when reading fails.
Unread == {"unknown", "error", "noports"}

\* A status that is told, or about to be told, is the port's, or another will be read.
Covered(v) == v \in Unread \/ v = PortStatus \/ Pending

Reports ==
  /\ worker \notin {"none", "exited"} /\ binder # "join" => mCallback
  /\ Handling => Len(uevents) > 0
  /\ worker = "start" => told \in Unread
  /\ worker = "start" /\ binder = "notify" => port["binder"] \in Unread
  /\ Listening =>
       /\ binder = "notify" => Covered(port["binder"])
       /\ IF worker = "notify" THEN Covered(port["worker"]) ELSE Covered(told)

IInv == TypeOK /\ Locks /\ Switching /\ Reports
-----------------------------------------------------------------------------
\* What the bounds are.
LEMMA BoundsAre == MaxPlugs \in Nat /\ MaxCalls \in Nat /\ MaxFaults \in Nat
BY BoundsAssumption DEF BoundsAssumption

\* The modes a client asks for are neither dual role nor invalid.
LEMMA NotModes == "other" \notin Modes /\ "dual" \notin Modes
BY ModesAssumption DEF ModesAssumption

\* The invariant holds at first.
LEMMA InitIInv == ASSUME Init PROVE IInv
<1>1. TypeOK
  <2>1. port \in [Threads -> Statuses]
    BY DEF Init, Statuses
  <2>2. plugs \in 0 .. MaxPlugs /\ calls \in 0 .. MaxCalls /\ faults \in 0 .. MaxFaults
    BY BoundsAre DEF Init
  <2>3. uevents \in Seq({"add", "remove"})
    BY DEF Init
  <2>. QED  BY Zenon, <2>1, <2>2, <2>3 DEF Init, TypeOK, Statuses, BinderAt, WorkerAt
<1>2. Locks /\ Switching
  BY DEF Init, Locks, Switching, RoleHeld
<1>3. Reports
  BY DEF Init, Reports, Handling, Listening, Unread
<1>. QED
  BY <1>1, <1>2, <1>3 DEF IInv

\* A partner comes or goes; the message it causes makes Pending true.
LEMMA PlugIInv == ASSUME IInv, Plug PROVE IInv'
<1>1. UNCHANGED <<portType, mCallback, mLock, mRoleSwitchLock, mPartnerLock, mPartnerUp,
                  destroyThread, binder, worker, role, roleSwitch, refused, port, told, calls,
                  faults>>
  BY DEF Plug, locks, switch
<1>2. TypeOK'
  BY <1>1, BoundsAre DEF IInv, TypeOK, Plug
<1>3. Locks'
  BY <1>1 DEF IInv, TypeOK, Locks, Plug
<1>4. Switching'
  BY <1>1 DEF IInv, Switching, RoleHeld
<1>5. Reports'
  BY <1>1 DEF IInv, Reports, Covered, Pending, Handling, Listening, Plug
<1>. QED
  BY <1>2, <1>3, <1>4, <1>5 DEF IInv

\* A call begins; no status has been read.
LEMMA queryPortStatusIInv == ASSUME IInv, queryPortStatus PROVE IInv'
<1>1. UNCHANGED <<portType, partner, uevents, mCallback, mLock, mRoleSwitchLock,
                  mPartnerLock, mPartnerUp, destroyThread, worker, role, roleSwitch, refused, port,
                  told, plugs, faults>>
  BY DEF queryPortStatus, kernel, locks, switch
<1>2. TypeOK'
  BY <1>1, BoundsAre DEF IInv, TypeOK, BinderAt, queryPortStatus, BinderCalls
<1>3. Locks'
  BY <1>1 DEF IInv, Locks, queryPortStatus
<1>4. Switching'
  BY <1>1 DEF Switching, RoleHeld, queryPortStatus
<1>5. Reports'
  BY <1>1 DEF IInv, Reports, Covered, Pending, PortStatus, Handling, Listening,
     queryPortStatus, BinderCalls
<1>. QED
  BY <1>2, <1>3, <1>4, <1>5 DEF IInv

\* The status read under mLock is the port's, or a message is pending.
LEMMA QueryReadIInv == ASSUME IInv, QueryRead PROVE IInv'
<1>1. UNCHANGED <<portType, partner, uevents, mCallback, mRoleSwitchLock, mPartnerLock,
                  mPartnerUp, destroyThread, worker, role, roleSwitch, refused, told, plugs, calls>>
  BY DEF QueryRead, kernel, switch
<1>6. /\ faults' \in 0 .. MaxFaults /\ mLock' = "binder" /\ mLock = "free"
      /\ port'["worker"] = port["worker"]
      /\ \/ port'["binder"] = IF Listening THEN PortStatus ELSE "unknown"
         \/ port'["binder"] \in {"error", "noports"}
      /\ port' \in [Threads -> Statuses]
  <2>1. faults' \in 0 .. MaxFaults
    BY BoundsAre DEF IInv, TypeOK, QueryRead, StatusRead
  <2>2. PICK v \in Statuses : port' = [port EXCEPT !["binder"] = v]
                           /\ \/ v = IF Listening THEN PortStatus ELSE "unknown"
                              \/ v \in {"error", "noports"}
    BY DEF Statuses, Failed, PortStatus, QueryRead, StatusRead
  <2>3. port \in [Threads -> Statuses] /\ "binder" \in Threads /\ "worker" \in Threads
    BY DEF IInv, TypeOK, Threads
  <2>. QED  BY <2>1, <2>2, <2>3 DEF QueryRead, StatusRead
<1>2. TypeOK'
  BY <1>1, <1>6 DEF IInv, TypeOK, Threads, BinderAt, QueryRead
<1>3. Locks'
  BY <1>1, <1>6 DEF IInv, Locks, QueryRead
<1>4. Switching'
  BY <1>1 DEF Switching, RoleHeld, QueryRead
<1>5. Reports'
  BY <1>1, <1>6 DEF IInv, Locks, Reports, Covered, Unread, Pending, PortStatus, Handling,
     Listening, QueryRead
<1>. QED
  BY <1>2, <1>3, <1>4, <1>5 DEF IInv

\* What is told is what was read.
LEMMA QueryNotifyIInv == ASSUME IInv, QueryNotify PROVE IInv'
<1>1. UNCHANGED <<portType, partner, uevents, mCallback, mRoleSwitchLock, mPartnerLock,
                  mPartnerUp, destroyThread, worker, role, roleSwitch, refused, port, plugs, calls,
                  faults>>
  BY DEF QueryNotify, kernel, switch, bounds
<1>2. TypeOK'
  BY <1>1 DEF IInv, TypeOK, Threads, BinderAt, QueryNotify, StatusNotified
<1>3. Locks'
  BY <1>1 DEF IInv, Locks, QueryNotify
<1>4. Switching'
  BY <1>1 DEF Switching, RoleHeld, QueryNotify
<1>5. Reports'
  BY <1>1 DEF IInv, Reports, Covered, Pending, PortStatus, Handling, Listening, QueryNotify,
     StatusNotified
<1>. QED
  BY <1>2, <1>3, <1>4, <1>5 DEF IInv

\* A switch to a role that is not a mode touches neither mPartnerUp nor the port.
LEMMA SwitchOtherIInv == ASSUME IInv, SwitchOther PROVE IInv'
<1>1. UNCHANGED <<portType, partner, uevents, mCallback, mLock, mPartnerLock, mPartnerUp,
                  destroyThread, worker, port, told, plugs, faults>>
  BY DEF SwitchOther, kernel
<1>2. TypeOK'
  <2>1. calls' \in 0 .. MaxCalls
    BY BoundsAre DEF IInv, TypeOK, SwitchOther, BinderCalls
  <2>. QED  BY Zenon, <1>1, <2>1 DEF IInv, TypeOK, Threads, BinderAt, SwitchOther
<1>3. Locks'
  BY <1>1 DEF IInv, Locks, SwitchOther
<1>4. Switching'
  BY <1>1, NotModes DEF Switching, RoleHeld, SwitchOther
<1>5. Reports'
  BY <1>1 DEF IInv, Reports, Covered, Pending, PortStatus, Handling, Listening, SwitchOther,
     BinderCalls
<1>. QED
  BY <1>2, <1>3, <1>4, <1>5 DEF IInv

\* A mode switch begins with mRoleSwitchLock.
LEMMA SwitchModeIInv == ASSUME IInv, SwitchMode PROVE IInv'
<1>1. UNCHANGED <<portType, partner, uevents, mCallback, mLock, mPartnerLock, mPartnerUp,
                  destroyThread, worker, port, told, plugs, faults>>
  BY DEF SwitchMode, kernel
<1>2. TypeOK'
  <2>1. calls' \in 0 .. MaxCalls
    BY BoundsAre DEF IInv, TypeOK, SwitchMode, BinderCalls
  <2>. QED  BY Zenon, <1>1, <2>1 DEF IInv, TypeOK, Threads, BinderAt, SwitchMode
<1>3. Locks'
  BY <1>1 DEF IInv, Locks, SwitchMode
<1>4. Switching'
  BY <1>1 DEF Switching, RoleHeld, SwitchMode
<1>5. Reports'
  BY <1>1 DEF IInv, Reports, Covered, Pending, PortStatus, Handling, Listening, SwitchMode,
     BinderCalls
<1>. QED
  BY <1>2, <1>3, <1>4, <1>5 DEF IInv

\* Opening port_type changes nothing that is claimed.
LEMMA OpenNodeIInv == ASSUME IInv, OpenNode PROVE IInv'
<1>1. UNCHANGED <<portType, partner, uevents, mCallback, mLock, mRoleSwitchLock,
                  mPartnerLock, mPartnerUp, destroyThread, worker, role, roleSwitch, refused, port,
                  told, plugs, calls>>
  BY DEF OpenNode, kernel, locks, switch
<1>2. TypeOK'
  BY <1>1, BoundsAre DEF IInv, TypeOK, BinderAt, OpenNode
<1>3. Locks'
  BY <1>1 DEF IInv, TypeOK, Locks, OpenNode
<1>4. Switching'
  BY <1>1 DEF IInv, Switching, RoleHeld, OpenNode
<1>5. Reports'
  BY <1>1 DEF IInv, Reports, Covered, Pending, PortStatus, Handling, Listening, OpenNode
<1>. QED
  BY <1>2, <1>3, <1>4, <1>5 DEF IInv

\* mPartnerUp is cleared under mPartnerLock, which is kept.
LEMMA ClearPartnerIInv == ASSUME IInv, ClearPartner PROVE IInv'
<1>1. UNCHANGED <<portType, partner, uevents, mCallback, mLock, mRoleSwitchLock,
                  destroyThread, worker, role, roleSwitch, refused, port, told, plugs, calls,
                  faults>>
  BY DEF ClearPartner, kernel, switch, bounds
<1>2. TypeOK'
  BY Zenon, <1>1 DEF IInv, TypeOK, BinderAt, ClearPartner
<1>3. Locks'
  BY <1>1 DEF IInv, TypeOK, Locks, ClearPartner
<1>4. Switching'
  BY <1>1 DEF IInv, Switching, RoleHeld, ClearPartner
<1>5. Reports'
  BY <1>1 DEF IInv, Reports, Covered, Pending, PortStatus, Handling, Listening, ClearPartner
<1>. QED
  BY <1>2, <1>3, <1>4, <1>5 DEF IInv

\* The mode that is written becomes the type of the port, or is refused.
LEMMA WriteModeIInv == ASSUME IInv, WriteMode PROVE IInv'
<1>1. UNCHANGED <<partner, uevents, mCallback, mLock, mRoleSwitchLock, mPartnerUp,
                  destroyThread, worker, role, roleSwitch, port, told, plugs, calls>>
  BY DEF WriteMode
<1>2. TypeOK'
  <2>1. faults' \in 0 .. MaxFaults
    BY BoundsAre DEF IInv, TypeOK, WriteMode
  <2>2. portType' \in Modes \cup {"dual"}
    BY DEF IInv, TypeOK, Switching, WriteMode
  <2>3. refused' \in BOOLEAN /\ mPartnerLock' \in {"binder", "free"} /\ binder' \in BinderAt
    BY Zenon DEF IInv, TypeOK, BinderAt, WriteMode
  <2>. QED  BY <1>1, <2>1, <2>2, <2>3 DEF IInv, TypeOK
<1>3. Locks'
  BY <1>1 DEF IInv, TypeOK, Locks, WriteMode
<1>4. Switching'
  BY <1>1 DEF IInv, Switching, RoleHeld, WriteMode
<1>5. Reports'
  BY <1>1 DEF IInv, Reports, Covered, Pending, PortStatus, Handling, Listening, WriteMode
<1>. QED
  BY <1>2, <1>3, <1>4, <1>5 DEF IInv

\* The wait gives mPartnerLock back with mPartnerUp still clear.
LEMMA EnterWaitIInv == ASSUME IInv, EnterWait PROVE IInv'
<1>1. UNCHANGED <<portType, partner, uevents, mCallback, mLock, mRoleSwitchLock, mPartnerUp,
                  destroyThread, worker, role, roleSwitch, refused, port, told, plugs, calls,
                  faults>>
  BY DEF EnterWait, kernel, switch, bounds
<1>2. TypeOK'
  BY <1>1 DEF IInv, TypeOK, BinderAt, EnterWait
<1>3. Locks'
  BY <1>1 DEF IInv, TypeOK, Locks, EnterWait
<1>4. Switching'
  BY <1>1 DEF IInv, Switching, RoleHeld, EnterWait
<1>5. Reports'
  BY <1>1 DEF IInv, Reports, Covered, Pending, PortStatus, Handling, Listening, EnterWait
<1>. QED
  BY <1>2, <1>3, <1>4, <1>5 DEF IInv

\* A wait that times out leaves the port alone.
LEMMA TimeOutIInv == ASSUME IInv, TimeOut PROVE IInv'
<1>1. UNCHANGED <<portType, partner, uevents, mCallback, mLock, mRoleSwitchLock,
                  mPartnerLock, mPartnerUp, destroyThread, worker, role, roleSwitch, refused, port,
                  told, plugs, calls, faults>>
  BY DEF TimeOut, kernel, locks, switch, bounds
<1>2. TypeOK'
  BY <1>1 DEF IInv, TypeOK, BinderAt, TimeOut
<1>3. Locks'
  BY <1>1 DEF IInv, TypeOK, Locks, TimeOut
<1>4. Switching'
  BY <1>1 DEF IInv, Switching, RoleHeld, TimeOut
<1>5. Reports'
  BY <1>1 DEF IInv, Reports, Covered, Pending, PortStatus, Handling, Listening, TimeOut
<1>. QED
  BY <1>2, <1>3, <1>4, <1>5 DEF IInv

\* So does one that ends for no reason.
LEMMA SpuriousWakeUpIInv == ASSUME IInv, SpuriousWakeUp PROVE IInv'
<1>1. UNCHANGED <<portType, partner, uevents, mCallback, mLock, mRoleSwitchLock,
                  mPartnerLock, mPartnerUp, destroyThread, worker, role, roleSwitch, refused, port,
                  told, plugs, calls>>
  BY DEF SpuriousWakeUp, kernel, locks, switch
<1>2. TypeOK'
  BY <1>1, BoundsAre DEF IInv, TypeOK, BinderAt, SpuriousWakeUp
<1>3. Locks'
  BY <1>1 DEF IInv, TypeOK, Locks, SpuriousWakeUp
<1>4. Switching'
  BY <1>1 DEF IInv, Switching, RoleHeld, SpuriousWakeUp
<1>5. Reports'
  BY <1>1 DEF IInv, Reports, Covered, Pending, PortStatus, Handling, Listening,
     SpuriousWakeUp
<1>. QED
  BY <1>2, <1>3, <1>4, <1>5 DEF IInv

\* A wait that ends in success has held the port in its mode.
LEMMA DecideIInv == ASSUME IInv, Decide PROVE IInv'
<1>1. UNCHANGED <<portType, partner, uevents, mCallback, mLock, mRoleSwitchLock,
                  mPartnerLock, mPartnerUp, destroyThread, worker, role, refused, port, told, plugs,
                  calls, faults>>
  BY DEF Decide, kernel, locks, bounds
<1>2. TypeOK'
  BY Zenon, <1>1 DEF IInv, TypeOK, BinderAt, Decide
<1>3. Locks'
  BY <1>1 DEF IInv, TypeOK, Locks, Decide
<1>4. Switching'
  BY <1>1 DEF IInv, Switching, RoleHeld, Decide
<1>5. Reports'
  BY <1>1 DEF IInv, Reports, Covered, Pending, PortStatus, Handling, Listening, Decide
<1>. QED
  BY <1>2, <1>3, <1>4, <1>5 DEF IInv

\* A switch that failed returns the port to dual role, or fails to.
LEMMA SwitchBackIInv == ASSUME IInv, SwitchBack PROVE IInv'
<1>1. UNCHANGED <<partner, uevents, mCallback, mLock, mRoleSwitchLock, mPartnerLock,
                  mPartnerUp, destroyThread, worker, role, roleSwitch, refused, port, told, plugs,
                  calls>>
  BY DEF SwitchBack, locks, switch
<1>2. TypeOK'
  BY <1>1, BoundsAre DEF IInv, TypeOK, BinderAt, SwitchBack, Dual
<1>3. Locks'
  BY <1>1 DEF IInv, Locks, SwitchBack
<1>4. Switching'
  BY <1>1 DEF IInv, Switching, RoleHeld, SwitchBack
<1>5. Reports'
  BY <1>1 DEF IInv, Reports, Covered, Pending, PortStatus, Handling, Listening, SwitchBack
<1>. QED
  BY <1>2, <1>3, <1>4, <1>5 DEF IInv

\* The end of a switch gives mRoleSwitchLock back.
LEMMA ReportResultIInv == ASSUME IInv, ReportResult PROVE IInv'
<1>1. UNCHANGED <<portType, partner, uevents, mCallback, mLock, mPartnerLock, mPartnerUp,
                  destroyThread, worker, role, roleSwitch, refused, port, told, plugs, calls,
                  faults>>
  BY DEF ReportResult, kernel, switch, bounds
<1>2. TypeOK'
  BY <1>1 DEF IInv, TypeOK, BinderAt, ReportResult
<1>3. Locks'
  BY <1>1 DEF IInv, TypeOK, Locks, ReportResult
<1>4. Switching'
  BY <1>1 DEF Switching, RoleHeld, ReportResult
<1>5. Reports'
  BY <1>1 DEF IInv, Reports, Covered, Pending, PortStatus, Handling, Listening, ReportResult
<1>. QED
  BY <1>2, <1>3, <1>4, <1>5 DEF IInv

\* A callback that replaces another has been told nothing.
LEMMA ReplaceCallbackIInv == ASSUME IInv, ReplaceCallback PROVE IInv'
<1>1. UNCHANGED <<portType, partner, uevents, mCallback, mLock, mRoleSwitchLock,
                  mPartnerLock, mPartnerUp, destroyThread, binder, worker, role, roleSwitch, refused,
                  port, plugs, faults>>
  BY DEF ReplaceCallback, kernel, locks, switch
<1>2. TypeOK'
  BY <1>1, BoundsAre DEF IInv, TypeOK, Statuses, ReplaceCallback, BinderCalls
<1>3. Locks'
  BY <1>1 DEF IInv, Locks
<1>4. Switching'
  BY <1>1 DEF Switching, RoleHeld, ReplaceCallback, BinderCalls
<1>5. Reports'
  BY <1>1 DEF IInv, Reports, Covered, Pending, PortStatus, Handling, Listening, Unread,
     ReplaceCallback
<1>. QED
  BY <1>2, <1>3, <1>4, <1>5 DEF IInv

\* A first callback starts the worker, and has been told nothing.
LEMMA RegisterCallbackIInv == ASSUME IInv, RegisterCallback PROVE IInv'
<1>1. UNCHANGED <<portType, partner, uevents, mLock, mRoleSwitchLock, mPartnerLock,
                  mPartnerUp, binder, role, roleSwitch, refused, port, plugs>>
  BY DEF RegisterCallback, kernel, locks, switch
<1>2. TypeOK'
  <2>1. calls' \in 0 .. MaxCalls /\ faults' \in 0 .. MaxFaults
    BY BoundsAre DEF IInv, TypeOK, RegisterCallback, BinderCalls
  <2>2. mCallback' \in BOOLEAN /\ worker' \in WorkerAt /\ destroyThread' \in BOOLEAN
    BY Zenon DEF IInv, TypeOK, WorkerAt, RegisterCallback
  <2>. QED  BY <1>1, <2>1, <2>2 DEF IInv, TypeOK, Statuses, RegisterCallback
<1>3. Locks'
  BY <1>1 DEF IInv, Locks, RegisterCallback
<1>4. Switching'
  BY <1>1 DEF Switching, RoleHeld, RegisterCallback, BinderCalls
<1>5. Reports'
  BY <1>1 DEF IInv, Reports, Unread, Handling, Listening, RegisterCallback, BinderCalls
<1>. QED
  BY <1>2, <1>3, <1>4, <1>5 DEF IInv

\* The last callback goes, and the worker is to end.
LEMMA UnregisterCallbackIInv == ASSUME IInv, UnregisterCallback PROVE IInv'
<1>1. UNCHANGED <<portType, partner, uevents, mRoleSwitchLock, mPartnerLock, mPartnerUp,
                  role, roleSwitch, refused, port, told, plugs, faults>>
  BY DEF UnregisterCallback, kernel, switch
<1>2. TypeOK'
  <2>1. calls' \in 0 .. MaxCalls
    BY BoundsAre DEF IInv, TypeOK, UnregisterCallback, BinderCalls
  <2>2. mCallback' \in BOOLEAN /\ destroyThread' \in BOOLEAN
    BY Zenon DEF UnregisterCallback
  <2>3. worker' \in WorkerAt
    BY DEF IInv, TypeOK, WorkerAt, UnregisterCallback
  <2>. QED  BY <1>1, <2>1, <2>2, <2>3 DEF IInv, TypeOK, Threads, BinderAt,
     UnregisterCallback
<1>3. Locks'
  BY <1>1 DEF IInv, Locks, UnregisterCallback
<1>4. Switching'
  BY <1>1 DEF Switching, RoleHeld, UnregisterCallback
<1>5. Reports'
  BY <1>1 DEF IInv, Reports, Covered, Pending, PortStatus, Handling, Listening,
     UnregisterCallback
<1>. QED
  BY <1>2, <1>3, <1>4, <1>5 DEF IInv

\* The worker has ended: nobody listens.
LEMMA JoinedIInv == ASSUME IInv, Joined PROVE IInv'
<1>1. UNCHANGED <<portType, partner, uevents, mCallback, mRoleSwitchLock, mPartnerLock,
                  mPartnerUp, destroyThread, worker, role, roleSwitch, refused, port, told, plugs,
                  calls, faults>>
  BY DEF Joined, kernel, switch, bounds
<1>2. TypeOK'
  BY <1>1 DEF IInv, TypeOK, BinderAt, Joined
<1>3. Locks'
  BY <1>1 DEF IInv, TypeOK, Locks, Joined
<1>4. Switching'
  BY <1>1 DEF Switching, RoleHeld, Joined
<1>5. Reports'
  BY <1>1 DEF Reports, Handling, Listening, Joined
<1>. QED
  BY <1>2, <1>3, <1>4, <1>5 DEF IInv

\* The worker listens from now on, with nothing told before.
LEMMA OpenSocketIInv == ASSUME IInv, OpenSocket PROVE IInv'
<1>1. UNCHANGED <<portType, partner, mCallback, mLock, mRoleSwitchLock, mPartnerLock,
                  mPartnerUp, destroyThread, binder, role, roleSwitch, refused, port, told, plugs,
                  calls>>
  BY DEF OpenSocket, locks, switch
<1>2. TypeOK'
  BY <1>1, BoundsAre DEF IInv, TypeOK, WorkerAt, OpenSocket
<1>3. Locks'
  BY <1>1 DEF IInv, TypeOK, Locks, OpenSocket
<1>4. Switching'
  BY <1>1 DEF IInv, Switching, RoleHeld
<1>5. Reports'
  BY <1>1 DEF IInv, Reports, Covered, Unread, Handling, OpenSocket
<1>. QED
  BY <1>2, <1>3, <1>4, <1>5 DEF IInv

\* The test of destroyThread changes only where the worker is.
LEMMA TestDestroyIInv == ASSUME IInv, TestDestroy PROVE IInv'
<1>1. UNCHANGED <<portType, partner, uevents, mCallback, mLock, mRoleSwitchLock,
                  mPartnerLock, mPartnerUp, destroyThread, binder, role, roleSwitch, refused, port,
                  told, plugs, calls, faults>>
  BY DEF TestDestroy, kernel, locks, switch, bounds
<1>2. TypeOK'
  BY <1>1 DEF IInv, TypeOK, WorkerAt, TestDestroy
<1>3. Locks'
  BY <1>1 DEF IInv, TypeOK, Locks, TestDestroy
<1>4. Switching'
  BY <1>1 DEF IInv, Switching, RoleHeld
<1>5. Reports'
  BY <1>1 DEF IInv, Reports, Covered, Pending, PortStatus, Handling, Listening, TestDestroy
<1>. QED
  BY <1>2, <1>3, <1>4, <1>5 DEF IInv

\* So does the beginning of epoll_wait.
LEMMA PollIInv == ASSUME IInv, Poll PROVE IInv'
<1>1. UNCHANGED <<portType, partner, uevents, mCallback, mLock, mRoleSwitchLock,
                  mPartnerLock, mPartnerUp, destroyThread, binder, role, roleSwitch, refused,
                  port, told, plugs, calls, faults>>
  BY DEF Poll, kernel, locks, switch, bounds
<1>2. TypeOK'
  BY <1>1 DEF IInv, TypeOK, WorkerAt, Poll
<1>3. Locks'
  BY <1>1 DEF IInv, TypeOK, Locks, Poll
<1>4. Switching'
  BY <1>1 DEF IInv, Switching, RoleHeld
<1>5. Reports'
  BY <1>1 DEF IInv, Reports, Covered, Pending, PortStatus, Handling, Listening, Poll
<1>. QED
  BY <1>2, <1>3, <1>4, <1>5 DEF IInv

\* A message is received, and stays first in the queue while it is handled.
LEMMA ReceiveIInv == ASSUME IInv, Receive PROVE IInv'
<1>1. UNCHANGED <<portType, partner, uevents, mCallback, mLock, mRoleSwitchLock,
                  mPartnerLock, mPartnerUp, destroyThread, binder, role, roleSwitch, refused, port,
                  told, plugs, calls, faults>>
  BY DEF Receive, kernel, locks, switch, bounds
<1>2. TypeOK'
  BY <1>1 DEF IInv, TypeOK, WorkerAt, Receive
<1>3. Locks'
  BY <1>1 DEF IInv, TypeOK, Locks, Receive
<1>4. Switching'
  BY <1>1 DEF IInv, Switching, RoleHeld
<1>5. Reports'
  BY <1>1 DEF IInv, Reports, Covered, Pending, Receive
<1>. QED
  BY <1>2, <1>3, <1>4, <1>5 DEF IInv

\* A partner that is up wakes the switch that waits.
LEMMA WorkerSignalIInv == ASSUME IInv, WorkerSignal PROVE IInv'
<1>1. UNCHANGED <<portType, partner, uevents, mCallback, mLock, mRoleSwitchLock,
                  mPartnerLock, destroyThread, role, roleSwitch, refused, port, told, plugs, calls,
                  faults>>
  BY DEF WorkerSignal, kernel, locks, switch, bounds
<1>2. TypeOK'
  BY <1>1 DEF IInv, TypeOK, BinderAt, WorkerAt, WorkerSignal
<1>3. Locks'
  BY <1>1 DEF IInv, TypeOK, Locks, WorkerSignal
<1>4. Switching'
  BY <1>1 DEF IInv, Locks, Switching, RoleHeld, WorkerSignal
<1>5. Reports'
  BY <1>1 DEF IInv, Reports, Covered, Pending, Handling, WorkerSignal
<1>. QED
  BY <1>2, <1>3, <1>4, <1>5 DEF IInv

\* The status the worker reads is the port's.
LEMMA WorkerReadIInv == ASSUME IInv, WorkerRead PROVE IInv'
<1>1. UNCHANGED <<portType, partner, uevents, mCallback, mRoleSwitchLock, mPartnerLock,
                  mPartnerUp, destroyThread, binder, role, roleSwitch, refused, told, plugs, calls>>
  BY DEF WorkerRead, kernel, switch
<1>6. /\ faults' \in 0 .. MaxFaults /\ mLock' = "worker" /\ mLock = "free"
      /\ port'["binder"] = port["binder"]
      /\ \/ port'["worker"] = IF Listening THEN PortStatus ELSE "unknown"
         \/ port'["worker"] \in {"error", "noports"}
      /\ port' \in [Threads -> Statuses]
  <2>1. faults' \in 0 .. MaxFaults
    BY BoundsAre DEF IInv, TypeOK, WorkerRead, StatusRead
  <2>2. PICK v \in Statuses : port' = [port EXCEPT !["worker"] = v]
                           /\ \/ v = IF Listening THEN PortStatus ELSE "unknown"
                              \/ v \in {"error", "noports"}
    BY DEF Statuses, Failed, PortStatus, WorkerRead, StatusRead
  <2>3. port \in [Threads -> Statuses] /\ "binder" \in Threads /\ "worker" \in Threads
    BY DEF IInv, TypeOK, Threads
  <2>. QED  BY <2>1, <2>2, <2>3 DEF WorkerRead, StatusRead
<1>2. TypeOK'
  BY <1>1, <1>6 DEF IInv, TypeOK, Threads, WorkerAt, WorkerRead
<1>3. Locks'
  BY <1>1, <1>6 DEF IInv, Locks, WorkerRead
<1>4. Switching'
  BY <1>1 DEF IInv, Switching, RoleHeld
<1>5. Reports'
  BY <1>1, <1>6 DEF IInv, Locks, Reports, Covered, Unread, Pending, PortStatus, Handling,
     Listening, WorkerRead
<1>. QED
  BY <1>2, <1>3, <1>4, <1>5 DEF IInv

\* What the worker tells is what it read.
LEMMA WorkerNotifyIInv == ASSUME IInv, WorkerNotify PROVE IInv'
<1>1. UNCHANGED <<portType, partner, uevents, mCallback, mRoleSwitchLock, mPartnerLock,
                  mPartnerUp, destroyThread, binder, role, roleSwitch, refused, port, plugs, calls,
                  faults>>
  BY DEF WorkerNotify, kernel, switch, bounds
<1>2. TypeOK'
  BY <1>1 DEF IInv, TypeOK, Threads, WorkerAt, WorkerNotify, StatusNotified
<1>3. Locks'
  BY <1>1 DEF IInv, Locks, WorkerNotify
<1>4. Switching'
  BY <1>1 DEF IInv, Switching, RoleHeld
<1>5. Reports'
  BY <1>1 DEF IInv, Locks, Reports, Covered, Pending, PortStatus, Handling, Listening,
     WorkerNotify, StatusNotified
<1>. QED
  BY <1>2, <1>3, <1>4, <1>5 DEF IInv

\* The worker goes on to dual role only with mRoleSwitchLock.
LEMMA TryLockIInv == ASSUME IInv, TryLock PROVE IInv'
<1>1. UNCHANGED <<portType, partner, mCallback, mLock, mPartnerLock, mPartnerUp,
                  destroyThread, binder, role, roleSwitch, refused, port, told, plugs, calls,
                  faults>>
  BY DEF TryLock, switch, bounds
<1>2. TypeOK'
  <2>1. uevents # <<>> /\ uevents \in Seq({"add", "remove"})
    BY EmptySeq DEF IInv, TypeOK, Reports, Handling, TryLock
  <2>2. Tail(uevents) \in Seq({"add", "remove"})
    BY <2>1, HeadTailProperties
  <2>. QED  BY Zenon, <1>1, <2>1, <2>2 DEF IInv, TypeOK, Threads, WorkerAt, TryLock
<1>3. Locks'
  BY <1>1 DEF IInv, TypeOK, Locks, TryLock
<1>4. Switching'
  BY <1>1 DEF IInv, Switching, RoleHeld
<1>5. Reports'
  BY <1>1 DEF IInv, Reports, Covered, Pending, PortStatus, Handling, Listening, TryLock
<1>. QED
  BY <1>2, <1>3, <1>4, <1>5 DEF IInv

\* With a partner there the message is done with, and mRoleSwitchLock given back.
LEMMA CheckPartnerIInv == ASSUME IInv, CheckPartner PROVE IInv'
<1>1. UNCHANGED <<portType, partner, mCallback, mLock, mPartnerLock, mPartnerUp,
                  destroyThread, binder, role, roleSwitch, refused, port, told, plugs, calls,
                  faults>>
  BY DEF CheckPartner, switch, bounds
<1>2. TypeOK'
  <2>1. uevents # <<>> /\ uevents \in Seq({"add", "remove"})
    BY EmptySeq DEF IInv, TypeOK, Reports, Handling, CheckPartner
  <2>2. Tail(uevents) \in Seq({"add", "remove"})
    BY <2>1, HeadTailProperties
  <2>. QED  BY <1>1, <2>1, <2>2 DEF IInv, TypeOK, WorkerAt, CheckPartner
<1>3. Locks'
  BY <1>1 DEF IInv, TypeOK, Locks, CheckPartner
<1>4. Switching'
  BY <1>1 DEF IInv, Switching, RoleHeld
<1>5. Reports'
  BY <1>1 DEF IInv, Reports, Covered, Pending, PortStatus, Handling, Listening, CheckPartner
<1>. QED
  BY <1>2, <1>3, <1>4, <1>5 DEF IInv

\* The worker returns the port to dual role while no switch runs.
LEMMA WorkerDrpIInv == ASSUME IInv, WorkerDrp PROVE IInv'
<1>1. UNCHANGED <<partner, mCallback, mLock, mPartnerLock, mPartnerUp, destroyThread,
                  binder, role, roleSwitch, refused, port, told, plugs, calls>>
  BY DEF WorkerDrp, switch
<1>2. TypeOK'
  <2>1. uevents # <<>> /\ uevents \in Seq({"add", "remove"})
    BY EmptySeq DEF IInv, TypeOK, Reports, Handling, WorkerDrp
  <2>2. Tail(uevents) \in Seq({"add", "remove"})
    BY <2>1, HeadTailProperties
  <2>3. faults' \in 0 .. MaxFaults
    BY BoundsAre DEF IInv, TypeOK, WorkerDrp, Dual
  <2>. QED  BY <1>1, <2>1, <2>2, <2>3 DEF IInv, TypeOK, WorkerAt, WorkerDrp, Dual
<1>3. Locks'
  BY <1>1 DEF IInv, Locks, WorkerDrp
<1>4. Switching'
  BY <1>1 DEF IInv, Locks, Switching, RoleHeld, WorkerDrp
<1>5. Reports'
  BY <1>1 DEF IInv, Reports, Covered, Pending, PortStatus, Handling, Listening, WorkerDrp
<1>. QED
  BY <1>2, <1>3, <1>4, <1>5 DEF IInv

\* Every step keeps the invariant.
LEMMA NextIInv == ASSUME IInv, [Next]_vars PROVE IInv'
<1>1. CASE FrameworkCalls
  BY <1>1, queryPortStatusIInv, SwitchOtherIInv, SwitchModeIInv, ReplaceCallbackIInv,
     RegisterCallbackIInv, UnregisterCallbackIInv DEF FrameworkCalls
<1>2. CASE BinderStep
  BY <1>2, QueryReadIInv, QueryNotifyIInv, OpenNodeIInv, ClearPartnerIInv, WriteModeIInv,
     EnterWaitIInv, TimeOutIInv, DecideIInv, SwitchBackIInv, ReportResultIInv,
     JoinedIInv DEF BinderStep
<1>3. CASE WorkerStep
  BY <1>3, OpenSocketIInv, TestDestroyIInv, PollIInv, ReceiveIInv, WorkerSignalIInv, WorkerReadIInv,
     WorkerNotifyIInv, TryLockIInv, CheckPartnerIInv, WorkerDrpIInv DEF WorkerStep
<1>4. CASE Plug
  BY <1>4, PlugIInv
<1>5. CASE SpuriousWakeUp
  BY <1>5, SpuriousWakeUpIInv
<1>6. CASE UNCHANGED vars
  <2>1. TypeOK' /\ Locks'
    BY <1>6 DEF IInv, TypeOK, Locks, vars, kernel, locks, switch, bounds
  <2>2. Switching' /\ Reports'
    BY <1>6 DEF IInv, Switching, RoleHeld, Reports, Covered, Pending, PortStatus, Handling,
       Listening, vars, kernel, switch
  <2>. QED  BY <2>1, <2>2 DEF IInv
<1>. QED
  BY <1>1, <1>2, <1>3, <1>4, <1>5, <1>6 DEF Next

\* The invariant holds throughout.
LEMMA Inductive == Spec => []IInv
<1>1. Init => IInv
  BY InitIInv
<1>2. IInv /\ [Next]_vars => IInv'
  BY NextIInv
<1>. QED
  BY <1>1, <1>2, PTL DEF Spec

-----------------------------------------------------------------------------
(* What the HAL promises.                                                   *)

\* switchMode never sleeps on mPartnerCV when uevent_event has set mPartnerUp.
THEOREM NoSignalLost == Spec => []SignalNotLost
<1>1. IInv => SignalNotLost
  BY DEF IInv, Switching, SignalNotLost
<1>. QED
  BY <1>1, Inductive, PTL

\* While switchMode waits for the partner, and when it reports success, the
\* port has the mode it wrote, unless the kernel refused it: the worker returns a
\* port to dual role only with mRoleSwitchLock.
THEOREM RoleIsHeld == Spec => []RoleHeld
<1>1. IInv => RoleHeld
  BY DEF IInv, Switching
<1>. QED
  BY <1>1, Inductive, PTL

\* When the worker has handled every event, the callback has been told the
\* status the port has, or an error: queryVersionHelper reads and reports under one lock.
THEOREM CallbackUpToDate == Spec => []ToldIsCurrent
<1>1. IInv => ToldIsCurrent
  BY DEF IInv, Reports, Covered, Unread, Failed, Pending, Listening, ToldIsCurrent
<1>. QED
  BY <1>1, Inductive, PTL

-----------------------------------------------------------------------------
(* The USB gadget HAL.                                                      *)

\* A gadget that is up has functions.
UpHasFunctions == up => linked # {}

\* The monitor runs from startMonitor to the join; a request to stop it is
\* made, answered and read within one call.
StopAnswered ==
  /\ mMonitorRunning <=> monitor # "off"
  /\ stop => pc = "join"
  /\ monitor = "exited" => pc = "join" /\ ~stop
  /\ pc = "join" => stop \/ monitor = "exited"
  /\ ~mMonitorRunning => ~gadgetPullup

\* How far setCurrentUsbFunctions is, and what it has answered.
CallProgress ==
  /\ pc \in {"stop", "join"} => linked = {} /\ mMonitorRunning
  /\ pc = "setup" => linked = {} /\ ~mMonitorRunning
  /\ pc = "link" =>
       /\ linked = mCurrentUsbFunctions \ todo /\ todo \subseteq mCurrentUsbFunctions
       /\ ~up /\ ~mMonitorRunning
  /\ pc = "wait" =>
       /\ linked = mCurrentUsbFunctions /\ linked # {} /\ mMonitorRunning
       /\ gadgetPullup \/ monitor = "applied" => reached
  /\ pc \in {"idle", "reset"} /\ ~failed => linked = mCurrentUsbFunctions
  /\ pc \notin {"idle", "reset"} => answer = "nothing" /\ ~failed
  /\ answer = "success" =>
       IF mCurrentUsbFunctions = {} THEN linked = {} /\ monitor = "off" ELSE reached

\* The endpoints the monitor looks at are those of the functions that are
\* linked, unless a failed request left some behind, and they are watched.
EndpointLists ==
  /\ mEndpointList \subseteq watched
  /\ ~mMonitorRunning /\ ~leftover /\ pc \notin {"link", "error"} => mEndpointList = {}
  /\ pc = "link" /\ ~leftover => mEndpointList = linked \cap Ffs
  /\ pc \in {"idle", "wait", "reset"} /\ ~failed /\ ~leftover /\ mMonitorRunning =>
       mEndpointList = mCurrentUsbFunctions \cap Ffs /\ mCurrentUsbFunctions # {}

\* A monitor that sleeps although it should pull the gadget up has a message to read.
WakesUp ==
  /\ pc \in {"idle", "wait"} /\ mMonitorRunning /\ ~failed /\ ~leftover
  /\ mCurrentUsbFunctions \cap Ffs \subseteq owners /\ ~up /\ writeUdc /\ monitor = "loop"
  /\ ~denied
  => event

\* The type of the counters, of the flags, and of what is left.
CounterTypes ==
  /\ gadgetCalls \in 0 .. MaxGadgetCalls /\ gadgetFaults \in 0 .. MaxGadgetFaults
  /\ ownerSteps \in 0 .. MaxOwnerSteps

FlagTypes ==
  /\ up \in BOOLEAN /\ event \in BOOLEAN /\ stop \in BOOLEAN
  /\ mCurrentUsbFunctionsApplied \in BOOLEAN /\ callback \in BOOLEAN
  /\ gadgetPullup \in BOOLEAN /\ ffsCallback \in BOOLEAN /\ mMonitorRunning \in BOOLEAN
  /\ writeUdc \in BOOLEAN /\ reached \in BOOLEAN /\ failed \in BOOLEAN /\ leftover \in BOOLEAN
  /\ denied \in BOOLEAN

SetTypes ==
  /\ linked \subseteq Functions /\ owners \subseteq Ffs /\ watched \subseteq Ffs
  /\ mCurrentUsbFunctions \in Requests \cup {{}}
  /\ todo \subseteq Functions /\ mEndpointList \subseteq Ffs

PlaceTypes ==
  /\ pc \in {"idle", "down", "unlink", "stop", "join", "setup", "link", "wait", "error",
            "reset"}
  /\ monitor \in {"off", "check", "pull", "applied", "loop", "exited"}
  /\ answer \in {"nothing", "success", "error"}

\* The inductive invariant.
GadgetInv ==
  /\ CounterTypes /\ FlagTypes /\ SetTypes /\ PlaceTypes
  /\ UpHasFunctions /\ StopAnswered /\ CallProgress /\ EndpointLists /\ WakesUp

\* What the constants are.
LEMMA GadgetConstants ==
  /\ NumFunctions \in Nat /\ Ffs \subseteq Functions
  /\ Requests \subseteq SUBSET Functions
  /\ MaxGadgetCalls \in Nat /\ MaxOwnerSteps \in Nat /\ MaxGadgetFaults \in Nat
BY GadgetAssumption DEF GadgetAssumption

\* The invariant holds at first.
LEMMA GadgetInitially ==
  ASSUME GadgetInit
  PROVE  GadgetInv
<1>1. CounterTypes
  BY GadgetConstants DEF GadgetInit, CounterTypes
<1>2. FlagTypes /\ SetTypes /\ PlaceTypes
  BY Zenon DEF GadgetInit, FlagTypes, SetTypes, PlaceTypes
<1> QED
  BY <1>1, <1>2 DEF GadgetInit, GadgetInv, UpHasFunctions, StopAnswered, CallProgress,
     EndpointLists, WakesUp

\* setCurrentUsbFunctions takes a request.
LEMMA setCurrentUsbFunctionsKeeps ==
  ASSUME GadgetInv, NEW functions \in Requests,
         setCurrentUsbFunctions(functions)
  PROVE  GadgetInv'
<1> USE DEF GadgetInv
<1>1. CounterTypes' /\ SetTypes' /\ PlaceTypes'
  BY GadgetConstants DEF setCurrentUsbFunctions, configfs, inotify, monitorFfs, thread, Call,
     CounterTypes, SetTypes, PlaceTypes
<1>2. FlagTypes'
  BY Zenon DEF setCurrentUsbFunctions, configfs, inotify, monitorFfs, thread, FlagTypes
<1>3. UpHasFunctions' /\ StopAnswered'
  BY DEF setCurrentUsbFunctions, configfs, monitorFfs, thread, UpHasFunctions, StopAnswered
<1>4. CallProgress'
  BY DEF setCurrentUsbFunctions, CallProgress
<1>5. EndpointLists'
  BY DEF setCurrentUsbFunctions, inotify, monitorFfs, EndpointLists
<1>6. WakesUp'
  BY DEF setCurrentUsbFunctions, WakesUp
<1> QED
  BY <1>1, <1>2, <1>3, <1>4, <1>5, <1>6

\* resetGadget pulls the gadget down, or fails to.
LEMMA PullDownKeeps ==
  ASSUME GadgetInv, PullDown
  PROVE  GadgetInv'
<1> USE DEF GadgetInv
<1>1. CounterTypes' /\ SetTypes' /\ PlaceTypes'
  BY GadgetConstants DEF PullDown, inotify, monitorFfs, thread, history, Fault, CounterTypes,
     SetTypes, PlaceTypes
<1>2. FlagTypes'
  BY ZenonT(60) DEF PullDown, inotify, monitorFfs, thread, history, Fault, FlagTypes
<1>3. UpHasFunctions' /\ StopAnswered'
  BY DEF PullDown, monitorFfs, thread, UpHasFunctions, StopAnswered
<1>4. CallProgress'
  BY DEF PullDown, history, CallProgress
<1>5. EndpointLists'
  BY DEF PullDown, inotify, monitorFfs, history, EndpointLists
<1>6. WakesUp'
  BY DEF PullDown, WakesUp
<1> QED
  BY <1>1, <1>2, <1>3, <1>4, <1>5, <1>6

\* tearDownGadget unlinks the functions, all or some of them.
LEMMA UnlinkKeeps ==
  ASSUME GadgetInv, Unlink
  PROVE  GadgetInv'
<1> USE DEF GadgetInv
<1>1. CounterTypes' /\ SetTypes' /\ PlaceTypes'
  BY GadgetConstants DEF Unlink, inotify, monitorFfs, thread, history, Fault, AfterUnlink,
     CounterTypes, SetTypes, PlaceTypes
<1>2. FlagTypes'
  BY DEF Unlink, inotify, monitorFfs, thread, history, FlagTypes
<1>3. UpHasFunctions' /\ StopAnswered'
  BY Zenon DEF Unlink, monitorFfs, thread, AfterUnlink, UpHasFunctions, StopAnswered
<1>4. CallProgress'
  BY DEF Unlink, monitorFfs, history, AfterUnlink, CallProgress
<1>5. EndpointLists'
  BY DEF Unlink, inotify, monitorFfs, history, AfterUnlink, EndpointLists
<1>6. WakesUp'
  BY DEF Unlink, AfterUnlink, WakesUp
<1> QED
  BY <1>1, <1>2, <1>3, <1>4, <1>5, <1>6

\* MonitorFfs::reset asks the monitor to stop.
LEMMA StopMonitorKeeps ==
  ASSUME GadgetInv, StopMonitor
  PROVE  GadgetInv'
<1> USE DEF GadgetInv
<1>1. CounterTypes' /\ SetTypes' /\ PlaceTypes'
  BY GadgetConstants DEF StopMonitor, configfs, inotify, monitorFfs, thread, history,
     gadgetBounds, CounterTypes, SetTypes, PlaceTypes
<1>2. FlagTypes'
  BY DEF StopMonitor, configfs, inotify, monitorFfs, thread, history, FlagTypes
<1>3. UpHasFunctions' /\ StopAnswered'
  BY DEF StopMonitor, configfs, monitorFfs, thread, UpHasFunctions, StopAnswered
<1>4. CallProgress'
  BY DEF StopMonitor, configfs, monitorFfs, history, CallProgress
<1>5. EndpointLists'
  BY DEF StopMonitor, inotify, monitorFfs, CallProgress, EndpointLists
<1>6. WakesUp'
  BY DEF StopMonitor, WakesUp
<1> QED
  BY <1>1, <1>2, <1>3, <1>4, <1>5, <1>6

\* MonitorFfs::reset joins the monitor and forgets its endpoints.
LEMMA JoinKeeps ==
  ASSUME GadgetInv, Join
  PROVE  GadgetInv'
<1> USE DEF GadgetInv
<1>1. CounterTypes' /\ SetTypes' /\ PlaceTypes'
  BY GadgetConstants DEF Join, configfs, gadgetBounds, CounterTypes, SetTypes, PlaceTypes
<1>2. FlagTypes'
  BY Zenon DEF Join, configfs, PullupAfterReset, FlagTypes
<1>3. UpHasFunctions' /\ StopAnswered'
  BY DEF Join, configfs, PullupAfterReset, UpHasFunctions, StopAnswered
<1>4. CallProgress'
  BY DEF Join, configfs, CallProgress
<1>5. EndpointLists'
  BY DEF Join, EndpointLists
<1>6. WakesUp'
  BY DEF Join, WakesUp
<1> QED
  BY <1>1, <1>2, <1>3, <1>4, <1>5, <1>6

\* setCurrentUsbFunctions is done with NONE, or goes on to link.
LEMMA SetupKeeps ==
  ASSUME GadgetInv, Setup
  PROVE  GadgetInv'
<1> USE DEF GadgetInv
<1>1. CounterTypes' /\ SetTypes' /\ PlaceTypes'
  BY GadgetConstants DEF Setup, configfs, inotify, monitorFfs, thread, Fault, Answer,
     CounterTypes, SetTypes, PlaceTypes
<1>2. FlagTypes'
  BY DEF Setup, configfs, inotify, monitorFfs, thread, FlagTypes
<1>3. UpHasFunctions' /\ StopAnswered'
  BY DEF Setup, configfs, monitorFfs, thread, UpHasFunctions, StopAnswered
<1>4. CallProgress'
  BY DEF Setup, configfs, monitorFfs, thread, UpHasFunctions, StopAnswered, CallProgress
<1>5. EndpointLists'
  BY DEF Setup, configfs, inotify, monitorFfs, CallProgress, EndpointLists
<1>6. WakesUp'
  BY DEF Setup, thread, StopAnswered, CallProgress, WakesUp
<1> QED
  BY <1>1, <1>2, <1>3, <1>4, <1>5, <1>6

\* One function is linked, or the request fails half linked.
LEMMA LinkKeeps ==
  ASSUME GadgetInv, NEW f \in Functions, Link(f)
  PROVE  GadgetInv'
<1> USE DEF GadgetInv
<1>1. CounterTypes' /\ SetTypes' /\ PlaceTypes'
  BY GadgetConstants DEF Link, thread, history, Fault, EndPoints, CounterTypes, SetTypes,
     PlaceTypes
<1>2. FlagTypes'
  BY DEF Link, thread, history, FlagTypes
<1>3. UpHasFunctions' /\ StopAnswered'
  BY DEF Link, thread, UpHasFunctions, StopAnswered
<1>4. CallProgress'
  BY DEF Link, history, CallProgress
<1>5. EndpointLists'
  BY DEF Link, history, EndPoints, EndpointLists
<1>6. WakesUp'
  BY DEF Link, WakesUp
<1> QED
  BY <1>1, <1>2, <1>3, <1>4, <1>5, <1>6

\* setupFunctions pulls up a gadget without endpoints.
LEMMA PullUpAtOnceKeeps ==
  ASSUME GadgetInv, PullUpAtOnce
  PROVE  GadgetInv'
<1> USE DEF GadgetInv
<1>1. CounterTypes' /\ SetTypes' /\ PlaceTypes'
  BY GadgetConstants DEF PullUpAtOnce, inotify, monitorFfs, thread, Answer, Fault,
     CounterTypes, SetTypes, PlaceTypes
<1>2. FlagTypes'
  BY ZenonT(60) DEF PullUpAtOnce, inotify, monitorFfs, thread, PullUp,
     Answer, FlagTypes
<1>3. UpHasFunctions' /\ StopAnswered'
  BY DEF PullUpAtOnce, monitorFfs, thread, PullUpWorks, UpHasFunctions, StopAnswered
<1>4. CallProgress'
  BY Zenon DEF PullUpAtOnce, PullUp, Answer, FlagTypes, SetTypes, CallProgress
<1>5. EndpointLists'
  BY DEF PullUpAtOnce, inotify, monitorFfs, CallProgress, EndpointLists
<1>6. WakesUp'
  BY DEF PullUpAtOnce, PullUp, WakesUp
<1> QED
  BY <1>1, <1>2, <1>3, <1>4, <1>5, <1>6

\* setupFunctions starts the monitor.
LEMMA startMonitorKeeps ==
  ASSUME GadgetInv, startMonitor
  PROVE  GadgetInv'
<1> USE DEF GadgetInv
<1>1. CounterTypes' /\ SetTypes' /\ PlaceTypes'
  BY GadgetConstants DEF startMonitor, configfs, inotify, gadgetBounds, FirstStep,
     CounterTypes, SetTypes, PlaceTypes
<1>2. FlagTypes'
  BY Zenon DEF startMonitor, configfs, inotify, FlagTypes
<1>3. UpHasFunctions' /\ StopAnswered'
  BY DEF startMonitor, configfs, FirstStep, UpHasFunctions, StopAnswered
<1>4. CallProgress'
  BY DEF startMonitor, configfs, FirstStep, StopAnswered, CallProgress
<1>5. EndpointLists'
  BY DEF startMonitor, inotify, CallProgress, EndpointLists
<1>6. WakesUp'
  BY DEF startMonitor, FirstStep, WakesUp
<1> QED
  BY <1>1, <1>2, <1>3, <1>4, <1>5, <1>6

\* waitForPullUp answers with what the monitor has done so far.
LEMMA waitForPullUpKeeps ==
  ASSUME GadgetInv, waitForPullUp
  PROVE  GadgetInv'
<1> USE DEF GadgetInv
<1>1. CounterTypes' /\ SetTypes' /\ PlaceTypes'
  BY GadgetConstants DEF waitForPullUp, configfs, inotify, monitorFfs, thread, gadgetBounds,
     CounterTypes, SetTypes, PlaceTypes
<1>2. FlagTypes'
  BY DEF waitForPullUp, configfs, inotify, monitorFfs, thread, FlagTypes
<1>3. UpHasFunctions' /\ StopAnswered'
  BY DEF waitForPullUp, configfs, monitorFfs, thread, UpHasFunctions, StopAnswered
<1>4. CallProgress'
  BY DEF waitForPullUp, configfs, CallProgress
<1>5. EndpointLists'
  BY DEF waitForPullUp, inotify, monitorFfs, EndpointLists
<1>6. WakesUp'
  BY DEF waitForPullUp, configfs, inotify, thread, CallProgress, WakesUp
<1> QED
  BY <1>1, <1>2, <1>3, <1>4, <1>5, <1>6

\* setCurrentUsbFunctions answers with an error.
LEMMA ErrorKeeps ==
  ASSUME GadgetInv, Error
  PROVE  GadgetInv'
<1> USE DEF GadgetInv
<1>1. CounterTypes' /\ SetTypes' /\ PlaceTypes'
  BY GadgetConstants DEF Error, configfs, inotify, monitorFfs, thread, gadgetBounds, Answer,
     CounterTypes, SetTypes, PlaceTypes
<1>2. FlagTypes'
  BY DEF Error, configfs, inotify, monitorFfs, thread, FlagTypes
<1>3. UpHasFunctions' /\ StopAnswered'
  BY DEF Error, configfs, monitorFfs, thread, UpHasFunctions, StopAnswered
<1>4. CallProgress'
  BY DEF Error, Answer, CallProgress
<1>5. EndpointLists'
  BY Zenon DEF Error, inotify, monitorFfs, EndpointLists
<1>6. WakesUp'
  BY DEF Error, WakesUp
<1> QED
  BY <1>1, <1>2, <1>3, <1>4, <1>5, <1>6

\* reset pulls the gadget down.
LEMMA ResetDownKeeps ==
  ASSUME GadgetInv, ResetDown
  PROVE  GadgetInv'
<1> USE DEF GadgetInv
<1>1. CounterTypes' /\ SetTypes' /\ PlaceTypes'
  BY GadgetConstants DEF ResetDown, inotify, monitorFfs, thread, history, Call, Fault, CounterTypes,
     SetTypes, PlaceTypes
<1>2. FlagTypes'
  BY ZenonT(60) DEF ResetDown, inotify, monitorFfs, thread, history, FlagTypes
<1>3. UpHasFunctions' /\ StopAnswered'
  BY DEF ResetDown, monitorFfs, thread, UpHasFunctions, StopAnswered
<1>4. CallProgress'
  BY DEF ResetDown, thread, history, CallProgress
<1>5. EndpointLists'
  BY DEF ResetDown, inotify, monitorFfs, history, EndpointLists
<1>6. WakesUp'
  BY DEF ResetDown, inotify, thread, history, StopAnswered, WakesUp
<1> QED
  BY <1>1, <1>2, <1>3, <1>4, <1>5, <1>6

\* reset pulls the gadget up again, or fails to.
LEMMA ResetUpKeeps ==
  ASSUME GadgetInv, ResetUp
  PROVE  GadgetInv'
<1> USE DEF GadgetInv
<1>1. CounterTypes' /\ SetTypes' /\ PlaceTypes'
  BY GadgetConstants DEF ResetUp, inotify, monitorFfs, thread, Refused, Fault, CounterTypes,
     SetTypes, PlaceTypes
<1>2. FlagTypes'
  BY ZenonT(60) DEF ResetUp, inotify, monitorFfs, thread, PullUp, Refused, FlagTypes
<1>3. UpHasFunctions' /\ StopAnswered'
  BY DEF ResetUp, monitorFfs, thread, PullUpWorks, Refused, UpHasFunctions, StopAnswered
<1>4. CallProgress'
  BY DEF ResetUp, thread, PullUp, Refused, FlagTypes, CallProgress
<1>5. EndpointLists'
  BY DEF ResetUp, inotify, monitorFfs, EndpointLists
<1>6. WakesUp'
  BY DEF ResetUp, thread, PullUp, PullUpWorks, Refused, StopAnswered, CallProgress, EndpointLists,
     WakesUp
<1> QED
  BY <1>1, <1>2, <1>3, <1>4, <1>5, <1>6

\* The monitor looks at the endpoints before it first sleeps.
LEMMA CheckFirstKeeps ==
  ASSUME GadgetInv, CheckFirst
  PROVE  GadgetInv'
<1> USE DEF GadgetInv
<1>1. CounterTypes' /\ SetTypes' /\ PlaceTypes'
  BY GadgetConstants DEF CheckFirst, configfs, inotify, request, monitorFfs, history,
     gadgetBounds, CounterTypes, SetTypes, PlaceTypes
<1>2. FlagTypes'
  BY DEF CheckFirst, configfs, inotify, request, monitorFfs, history, FlagTypes
<1>3. UpHasFunctions' /\ StopAnswered'
  BY DEF CheckFirst, configfs, request, monitorFfs, UpHasFunctions, StopAnswered
<1>4. CallProgress'
  BY DEF CheckFirst, configfs, request, monitorFfs, history, CallProgress
<1>5. EndpointLists'
  BY DEF CheckFirst, inotify, request, monitorFfs, history, StopAnswered, CallProgress,
     EndpointLists
<1>6. WakesUp'
  BY DEF CheckFirst, request, history, DescriptorPresent, EndpointLists, WakesUp
<1> QED
  BY <1>1, <1>2, <1>3, <1>4, <1>5, <1>6

\* The monitor pulls the gadget up, or finds that it cannot.
LEMMA MonitorPullUpKeeps ==
  ASSUME GadgetInv, MonitorPullUp
  PROVE  GadgetInv'
<1> USE DEF GadgetInv
<1>1. CounterTypes' /\ SetTypes' /\ PlaceTypes'
  BY GadgetConstants DEF MonitorPullUp, inotify, request, monitorFfs, Refused, Fault,
     CounterTypes, SetTypes, PlaceTypes
<1>2. FlagTypes'
  BY ZenonT(60) DEF MonitorPullUp, inotify, request, monitorFfs, PullUp, Refused,
     FlagTypes
<1>3. UpHasFunctions' /\ StopAnswered'
  BY DEF MonitorPullUp, request, monitorFfs, PullUpWorks, Refused, UpHasFunctions,
     StopAnswered
<1>4. CallProgress'
  BY Zenon DEF MonitorPullUp, request, monitorFfs, PullUp, Refused, UpHasFunctions,
     StopAnswered, CallProgress
<1>5. EndpointLists'
  BY DEF MonitorPullUp, inotify, request, monitorFfs, EndpointLists
<1>6. WakesUp'
  BY DEF MonitorPullUp, request, PullUpWorks, Refused, StopAnswered, CallProgress, EndpointLists,
     WakesUp
<1> QED
  BY <1>1, <1>2, <1>3, <1>4, <1>5, <1>6

\* The monitor reports the pull-up.
LEMMA AppliedKeeps ==
  ASSUME GadgetInv, Applied
  PROVE  GadgetInv'
<1> USE DEF GadgetInv
<1>1. CounterTypes' /\ SetTypes' /\ PlaceTypes'
  BY GadgetConstants DEF Applied, configfs, inotify, request, history, gadgetBounds,
     CounterTypes, SetTypes, PlaceTypes
<1>2. FlagTypes'
  BY Zenon DEF Applied, configfs, inotify, request, history, FlagTypes
<1>3. UpHasFunctions' /\ StopAnswered'
  BY DEF Applied, configfs, request, UpHasFunctions, StopAnswered
<1>4. CallProgress'
  BY DEF Applied, configfs, request, history, CallProgress
<1>5. EndpointLists'
  BY DEF Applied, inotify, request, history, StopAnswered, CallProgress, EndpointLists
<1>6. WakesUp'
  BY DEF Applied, WakesUp
<1> QED
  BY <1>1, <1>2, <1>3, <1>4, <1>5, <1>6

\* The monitor reads a message about the endpoints.
LEMMA InotifyEventKeeps ==
  ASSUME GadgetInv, InotifyEvent
  PROVE  GadgetInv'
<1> USE DEF GadgetInv
<1>1. CounterTypes' /\ SetTypes' /\ PlaceTypes'
  BY GadgetConstants DEF InotifyEvent, configfs, request, monitorFfs, gadgetBounds,
     CounterTypes, SetTypes, PlaceTypes
<1>2. FlagTypes'
  BY Zenon DEF InotifyEvent, configfs, request, monitorFfs, FlagTypes
<1>3. UpHasFunctions' /\ StopAnswered'
  BY DEF InotifyEvent, configfs, request, monitorFfs, UpHasFunctions, StopAnswered
<1>4. CallProgress'
  BY DEF InotifyEvent, configfs, request, monitorFfs, CallProgress
<1>5. EndpointLists'
  BY DEF InotifyEvent, request, monitorFfs, StopAnswered, CallProgress, EndpointLists
<1>6. WakesUp'
  BY Zenon DEF InotifyEvent, request, DescriptorPresent, EndpointLists, WakesUp
<1> QED
  BY <1>1, <1>2, <1>3, <1>4, <1>5, <1>6

\* The monitor reads the request to stop.
LEMMA StopEventKeeps ==
  ASSUME GadgetInv, StopEvent
  PROVE  GadgetInv'
<1> USE DEF GadgetInv
<1>1. CounterTypes' /\ SetTypes' /\ PlaceTypes'
  BY GadgetConstants DEF StopEvent, configfs, inotify, request, monitorFfs, history,
     gadgetBounds, AfterStop, CounterTypes, SetTypes, PlaceTypes
<1>2. FlagTypes'
  BY ZenonT(60) DEF StopEvent, configfs, inotify, request, monitorFfs, history, FlagTypes
<1>3. UpHasFunctions' /\ StopAnswered'
  BY DEF StopEvent, configfs, request, monitorFfs, AfterStop, UpHasFunctions, StopAnswered
<1>4. CallProgress'
  BY DEF StopEvent, configfs, request, monitorFfs, history, StopAnswered, CallProgress
<1>5. EndpointLists'
  BY DEF StopEvent, inotify, request, monitorFfs, StopAnswered, EndpointLists
<1>6. WakesUp'
  BY DEF StopEvent, AfterStop, WakesUp
<1> QED
  BY <1>1, <1>2, <1>3, <1>4, <1>5, <1>6

\* The owner of a function creates its endpoints.
LEMMA OwnerStartsKeeps ==
  ASSUME GadgetInv, NEW f \in Ffs, OwnerStarts(f)
  PROVE  GadgetInv'
<1> USE DEF GadgetInv
<1>1. CounterTypes' /\ SetTypes' /\ PlaceTypes'
  BY GadgetConstants DEF OwnerStarts, configfs, request, monitorFfs, thread, history,
     OwnerStep, CounterTypes, SetTypes, PlaceTypes
<1>2. FlagTypes'
  BY DEF OwnerStarts, configfs, request, monitorFfs, thread, history, Notify, FlagTypes
<1>3. UpHasFunctions' /\ StopAnswered'
  BY DEF OwnerStarts, configfs, request, monitorFfs, thread, UpHasFunctions, StopAnswered
<1>4. CallProgress'
  BY DEF OwnerStarts, configfs, request, monitorFfs, thread, history, CallProgress
<1>5. EndpointLists'
  BY DEF OwnerStarts, configfs, request, monitorFfs, history, EndpointLists
<1>6. WakesUp'
  BY Zenon DEF OwnerStarts, configfs, request, thread, history, Notify, StopAnswered,
     EndpointLists, WakesUp
<1> QED
  BY <1>1, <1>2, <1>3, <1>4, <1>5, <1>6

\* The owner of a function goes away with its endpoints.
LEMMA OwnerDiesKeeps ==
  ASSUME GadgetInv, NEW f \in Ffs, OwnerDies(f)
  PROVE  GadgetInv'
<1> USE DEF GadgetInv
<1>1. CounterTypes' /\ SetTypes' /\ PlaceTypes'
  BY GadgetConstants DEF OwnerDies, request, monitorFfs, thread, history, OwnerStep,
     CounterTypes, SetTypes, PlaceTypes
<1>2. FlagTypes'
  BY DEF OwnerDies, request, monitorFfs, thread, history, Notify, FlagTypes
<1>3. UpHasFunctions' /\ StopAnswered'
  BY Zenon DEF OwnerDies, request, monitorFfs, thread, UpHasFunctions, StopAnswered
<1>4. CallProgress'
  BY Zenon DEF OwnerDies, request, monitorFfs, thread, history, CallProgress
<1>5. EndpointLists'
  BY DEF OwnerDies, request, monitorFfs, history, EndpointLists
<1>6. WakesUp'
  BY Zenon DEF OwnerDies, request, thread, history, Notify, StopAnswered, CallProgress, WakesUp
<1> QED
  BY <1>1, <1>2, <1>3, <1>4, <1>5, <1>6

\* Every step of the binder thread, the monitor and the owners keeps the invariant.
LEMMA GadgetStep ==
  ASSUME GadgetInv, [GadgetNext]_gadgetVars
  PROVE  GadgetInv'
<1>1. CASE Binder
  BY <1>1, Zenon, PullDownKeeps, UnlinkKeeps, StopMonitorKeeps, JoinKeeps, SetupKeeps,
     LinkKeeps, PullUpAtOnceKeeps, startMonitorKeeps, waitForPullUpKeeps, ErrorKeeps,
     ResetUpKeeps DEF Binder
<1>2. CASE Monitor
  BY <1>2, Zenon, CheckFirstKeeps, MonitorPullUpKeeps, AppliedKeeps, InotifyEventKeeps,
     StopEventKeeps DEF Monitor
<1>3. CASE UNCHANGED gadgetVars
  <2>1. CounterTypes' /\ FlagTypes' /\ SetTypes' /\ PlaceTypes'
    <3>1. CounterTypes'
      BY <1>3, Zenon DEF GadgetInv, CounterTypes, gadgetVars, gadgetBounds
    <3>2. FlagTypes'
      BY <1>3, ZenonT(60) DEF GadgetInv, FlagTypes, gadgetVars, configfs, inotify, request,
         monitorFfs, thread, history
    <3>3. SetTypes'
      BY <1>3, Zenon DEF GadgetInv, SetTypes, gadgetVars, configfs, inotify, request,
         monitorFfs
    <3>4. PlaceTypes'
      BY <1>3, Zenon DEF GadgetInv, PlaceTypes, gadgetVars, request, thread, history
    <3> QED BY <3>1, <3>2, <3>3, <3>4
  <2>2. UpHasFunctions' /\ StopAnswered' /\ CallProgress'
    BY <1>3 DEF GadgetInv, UpHasFunctions, StopAnswered, CallProgress, gadgetVars, configfs,
       request, monitorFfs, thread, history
  <2>3. EndpointLists' /\ WakesUp'
    BY <1>3 DEF GadgetInv, EndpointLists, WakesUp, gadgetVars, configfs, inotify, request,
       monitorFfs, thread, history
  <2> QED BY <2>1, <2>2, <2>3 DEF GadgetInv
<1> QED
  BY <1>1, <1>2, <1>3, Zenon, setCurrentUsbFunctionsKeeps, ResetDownKeeps, OwnerStartsKeeps,
     OwnerDiesKeeps DEF GadgetNext

\* The invariant holds throughout.
LEMMA GadgetInductive == GadgetSpec => []GadgetInv
<1>1. GadgetInit => GadgetInv
  BY GadgetInitially
<1>2. GadgetInv /\ [GadgetNext]_gadgetVars => GadgetInv'
  BY GadgetStep
<1> QED
  BY <1>1, <1>2, PTL DEF GadgetSpec

\* For any functions, requests, faults and restarts of owners, a gadget that is
\* up has the functions of the last request (tearDownGadget, setupFunctions).
THEOREM GadgetAsRequested == GadgetSpec => []UpIsRequested
<1>1. GadgetInv => UpIsRequested
  BY DEF GadgetInv, PlaceTypes, UpHasFunctions, CallProgress, UpIsRequested
<1> QED
  BY <1>1, GadgetInductive, PTL

\* waitForPullUp and setupFunctions answer success only for functions that were
\* pulled up since they were asked for, and for NONE once nothing can pull the
\* gadget up: gadgetPullup is never the flag of an earlier monitor.
THEOREM AnswerIsReal == GadgetSpec => []SuccessIsReal
<1>1. GadgetInv => SuccessIsReal
  BY DEF GadgetInv, UpHasFunctions, CallProgress, SuccessIsReal
<1> QED
  BY <1>1, GadgetInductive, PTL

\* MonitorFfs::reset never joins a monitor that was not asked to stop, and no
\* request to stop is left in mEventFd for the monitor of a later request.
THEOREM StopIsAnswered == GadgetSpec => []StopAnswered
<1>1. GadgetInv => StopAnswered
  BY DEF GadgetInv
<1> QED
  BY <1>1, GadgetInductive, PTL

\* startMonitorFd never sleeps in epoll_wait on a gadget that it knows to be down
\* and whose endpoints are all there: between the watch, the first look at the
\* endpoints and the loop, no message is missed.
THEOREM NoMessageMissed == GadgetSpec => []WakesUp
<1>1. GadgetInv => WakesUp
  BY DEF GadgetInv
<1> QED
  BY <1>1, GadgetInductive, PTL

\* The state of the gadget HAL is well typed.
THEOREM GadgetTypeCorrect == GadgetSpec => []GadgetTypeOK
<1>1. GadgetInv => GadgetTypeOK
  BY Zenon DEF GadgetInv, CounterTypes, FlagTypes, SetTypes, PlaceTypes, GadgetTypeOK
<1> QED
  BY <1>1, GadgetInductive, PTL
=============================================================================
