-------------------------- MODULE BootControlProofs --------------------------
(***************************************************************************)
(* Theorems about BootControl for every number of slots and without bounds  *)
(* on calls and faults.  FallbackKept and ActivationHolds are inductive     *)
(* once it is known what a block without a valid CRC excludes; EveryTryMade *)
(* once the tries that are gone are known to be attempts (TriesCounted).    *)
(***************************************************************************)
EXTENDS BootControl, TLAPS

(* The active slot alone has the highest priority.                          *)
OnlyActive ==
    activated # None =>
        /\ pri[activated] = kActivePriority
        /\ \A t \in Slots : t # activated => pri[t] < kActivePriority

(* A block that fails its CRC is one that was lost.                         *)
LostUntilSaved == crc = 0 => lost = 1 /\ activated = None

(* The active slot has succeeded and may be tried, or every try it no       *)
(* longer has was an attempt.                                               *)
TriesCounted ==
    activated # None =>
        \/ succ[activated] = 1 /\ tries[activated] > 0
        \/ succ[activated] = 0 /\ attempts + tries[activated] = kActiveTries

IInv == TypeOK /\ FallbackKept /\ OnlyActive /\ LostUntilSaved /\ TriesCounted

(* The assumption on the constants, expanded.                               *)
LEMMA ConstantFacts == NumSlots \in 1..4 /\ Slots \subseteq Int /\ 0 \in Slots /\ None \notin Slots
                       /\ MergeStatuses \subseteq 0..4
BY SlotAssumption DEF SlotAssumption, Slots, None

(* The factory state satisfies the invariant.                               *)
LEMMA InitIInv == Init => IInv
<1> SUFFICES ASSUME Init PROVE IInv
  OBVIOUS
<1>1. TypeOK
  BY ConstantFacts DEF Init, TypeOK, Layouts, kDefaultBootAttempts, None
<1>2. FallbackKept
  BY ConstantFacts DEF Init, FallbackKept, kDefaultBootAttempts
<1> QED
  BY <1>1, <1>2 DEF Init, IInv, OnlyActive, LostUntilSaved, TriesCounted

(* U-Boot, the power and update_engine.                                     *)
LEMMA EnvironmentIInv ==
    ASSUME IInv,
           \/ Boot \/ Repair \/ Watchdog \/ PowerCut \/ Erased \/ Reboot
           \/ \E t \in Slots, c \in 0..1, g \in BOOLEAN : WriteSlot(t, c, g)
    PROVE  IInv'
<1> USE ConstantFacts DEF IInv, misc, uboot, images, running, history
<1>1. CASE Boot
  <2> PICK s \in BootChoices :
        /\ cur' = s
        /\ tries' = IF succ[s] = 1 THEN tries ELSE [tries EXCEPT ![s] = @ - 1]
        /\ firstboot' = IF succ[s] = 1 THEN firstboot ELSE 1
        /\ rollFlag' = IF \E t \in Slots : pri[t] > pri[s] THEN 1 ELSE rollFlag
        /\ attempts' = IF s = activated /\ succ[s] = 0 THEN attempts + 1 ELSE attempts
    BY <1>1 DEF Boot
  <2>1. s \in Slots /\ tries[s] > 0 /\ tries[s] \in 0..7 /\ succ[s] \in 0..1
    BY DEF BootChoices, TypeOK
  <2>2. /\ tries' \in [Slots -> 0..7]
        /\ \A t \in Slots : succ[t] = 1 => tries'[t] = tries[t]
    BY <2>1 DEF TypeOK
  <2>3. TypeOK'
    BY <1>1, <2>1, <2>2 DEF Boot, TypeOK
  <2>4. FallbackKept'
    BY <1>1, <2>2 DEF Boot, FallbackKept
  <2>5. TriesCounted'
    <3>1. activated' = activated /\ succ' = succ
      BY <1>1 DEF Boot
    <3>2. CASE s = activated
      BY <2>1, <3>1, <3>2 DEF TriesCounted, TypeOK, kActiveTries
    <3>3. CASE s # activated
      BY <2>1, <3>1, <3>3 DEF TriesCounted, TypeOK, kActiveTries
    <3> QED
      BY <3>2, <3>3
  <2> QED
    BY <1>1, <2>3, <2>4, <2>5 DEF Boot, OnlyActive, LostUntilSaved
<1>2. CASE Repair
  <2>1. TypeOK'
    BY <1>2 DEF Repair, TypeOK, kDefaultBootAttempts
  <2> QED
    BY <1>2, <2>1 DEF Repair, FallbackKept, OnlyActive, LostUntilSaved, TriesCounted
<1>3. CASE Watchdog
  BY <1>3 DEF Watchdog, TypeOK, FallbackKept, OnlyActive, LostUntilSaved, TriesCounted
<1>4. CASE PowerCut
  BY <1>4 DEF PowerCut, Fault, TypeOK, FallbackKept, OnlyActive, LostUntilSaved, TriesCounted
<1>5. CASE Erased
  BY <1>5 DEF Erased, Fault, TypeOK, FallbackKept, OnlyActive, LostUntilSaved, TriesCounted
<1>6. CASE Reboot
  BY <1>6 DEF Reboot, Call, TypeOK, FallbackKept, OnlyActive, LostUntilSaved, TriesCounted
<1>7. ASSUME NEW t \in Slots, NEW c \in 0..1, NEW g \in BOOLEAN, WriteSlot(t, c, g)
      PROVE  IInv'
  <2>1. TypeOK'
    BY <1>7 DEF WriteSlot, Call, TypeOK
  <2>2. FallbackKept'
    BY <1>7 DEF WriteSlot, FallbackKept, TypeOK
  <2> QED
    BY <1>7, <2>1, <2>2 DEF WriteSlot, OnlyActive, LostUntilSaved, TriesCounted
<1> QED
  BY <1>1, <1>2, <1>3, <1>4, <1>5, <1>6, <1>7

(* A new process of the HAL.                                                *)
LEMMA HalInitIInv == ASSUME IInv, HalInit \/ InitAborts PROVE IInv'
<1> USE ConstantFacts DEF IInv, misc, uboot, images, running, history
<1>1. TypeOK'
  <2>1. faults' \in Nat /\ phase' \in {"boot", "up"}
    BY DEF HalInit, InitAborts, Fault, NoFault, TypeOK
  <2>2. UNCHANGED <<vab, uboot, images, cur, fastboot, activated, attempts, calls>>
    BY DEF HalInit, InitAborts
  <2>3. CASE InitDefaultBootloaderControl
    BY <2>1, <2>2, <2>3 DEF InitDefaultBootloaderControl, TypeOK, kDefaultBootAttempts
  <2>4. CASE ClearRollFlag
    BY <2>1, <2>2, <2>4 DEF ClearRollFlag, TypeOK
  <2>5. CASE UNCHANGED <<misc, lost, givenUp>>
    BY <2>1, <2>2, <2>5 DEF TypeOK
  <2> QED
    BY <2>3, <2>4, <2>5 DEF HalInit, InitAborts
<1>2. CASE InitDefaultBootloaderControl /\ crc = 0
  <2>1. cur \in Slots /\ UNCHANGED <<content, activated>>
    BY DEF HalInit, InitAborts, TypeOK
  <2>2. FallbackKept'
    BY <1>2, <2>1 DEF InitDefaultBootloaderControl, FallbackKept, LostUntilSaved,
                      kDefaultBootAttempts
  <2> QED
    BY <1>1, <1>2, <2>1, <2>2 DEF InitDefaultBootloaderControl, OnlyActive, LostUntilSaved, TriesCounted
<1>3. CASE crc' = crc /\ UNCHANGED <<pri, tries, succ, content, activated, lost, givenUp>>
  <2>1. UNCHANGED attempts
    BY DEF HalInit, InitAborts
  <2> QED
    BY <1>1, <1>3, <2>1 DEF FallbackKept, OnlyActive, LostUntilSaved, TriesCounted
<1> QED
  BY <1>2, <1>3 DEF HalInit, InitAborts, ClearRollFlag

(* MarkBootSuccessful, whether it saves or not.                             *)
LEMMA MarkIInv == ASSUME IInv, MarkBootSuccessful PROVE IInv'
<1> USE ConstantFacts DEF IInv, misc, uboot, images, running, history
<1>1. arb' \subseteq Slots /\ phase' \in {"off", "done"}
  BY DEF MarkBootSuccessful, RebootForArb, TypeOK
<1>3. TypeOK'
  BY <1>1 DEF MarkBootSuccessful, SuccessfulTries, Fault, NoFault, TypeOK
<1>2. FallbackKept'
  BY DEF MarkBootSuccessful, SuccessfulTries, FallbackKept, TypeOK
<1>4. TriesCounted'
  BY DEF MarkBootSuccessful, SuccessfulTries, TriesCounted, TypeOK
<1> QED
  <2>1. crc' \in {1, crc} /\ UNCHANGED <<pri, activated, lost>>
    BY DEF MarkBootSuccessful
  <2> QED
    BY <1>2, <1>3, <1>4, <2>1 DEF OnlyActive, LostUntilSaved

(* What SetActiveBootSlot may do to the bootloader.                         *)
LEMMA PrepareFacts ==
    ASSUME TypeOK, NEW slot \in Slots, NEW w \in PrepareBootloader(slot)
    PROVE  /\ w[1] \in Slots \cup {Torn}
           /\ w[2] \subseteq {"write_boot", "reboot_next", "update_dt"}
           /\ layout = "dts" /\ fastboot = 0 /\ w[3] = 1 /\ slot \in {0, 1}
                => w[1] = slot \/ slot \in gptImages
<1>1. CASE fastboot = 1
  BY <1>1 DEF PrepareBootloader, TypeOK
<1>2. CASE fastboot # 1 /\ layout = "gpt"
  <2>1. PICK e \in {env, env \cup {"write_boot"}} : w = <<boot0, e, 1>>
    BY <1>2 DEF PrepareBootloader
  <2>2. e \subseteq {"write_boot", "reboot_next", "update_dt"}
    BY DEF TypeOK
  <2> QED
    BY <1>2, <2>1, <2>2 DEF TypeOK
<1>3. CASE fastboot # 1 /\ layout = "dts"
  <2>1. PICK v \in WriteBootloaderImg(slot) :
            w = <<v[1],
                  (IF v[2] = 1 THEN SetBootloaderIndex ELSE env) \cup {"update_dt"},
                  v[2]>>
    BY <1>3 DEF PrepareBootloader
  <2>5. BootloaderImg(slot) \in Slots /\ (slot \in {0, 1} => BootloaderImg(slot) = slot)
    BY ConstantFacts DEF BootloaderImg, Slots
  <2>2. /\ v[1] \in Slots \cup {Torn}
        /\ v[2] = 1 /\ slot \in {0, 1} => v[1] = slot \/ slot \in gptImages
    BY <2>5 DEF WriteBootloaderImg, TypeOK
  <2>3. w[1] = v[1] /\ w[3] = v[2]
    BY <2>1
  <2>4. w[2] \subseteq {"write_boot", "reboot_next", "update_dt"}
    BY <2>1 DEF SetBootloaderIndex, TypeOK
  <2> QED
    BY <2>2, <2>3, <2>4
<1> QED
  BY <1>1, <1>2, <1>3 DEF TypeOK, Layouts

(* SetActiveBootSlot, whichever of its writes fails.                        *)
LEMMA SetActiveIInv ==
    ASSUME IInv, NEW slot \in Slots, SetActiveBootSlot(slot) PROVE IInv'
<1> USE ConstantFacts DEF IInv, misc, uboot, images, running, history
<1>1. boot0' \in Slots \cup {Torn} /\ env' \subseteq {"write_boot", "reboot_next", "update_dt"}
  BY PrepareFacts DEF SetActiveBootSlot
<1>2. \/ /\ pri' = ActivePriorities(slot)
         /\ tries' = [tries EXCEPT ![slot] = kActiveTries]
         /\ crc' = 1 /\ activated' = slot /\ attempts' = 0
      \/ UNCHANGED <<pri, tries, crc, activated, attempts>>
  BY DEF SetActiveBootSlot, RefilledTries
<1>3. TypeOK'
  BY <1>1, <1>2 DEF SetActiveBootSlot, ActivePriorities, kActiveTries, kActivePriority,
                    Call, Fault, NoFault, TypeOK
<1>4. FallbackKept'
  BY <1>2 DEF SetActiveBootSlot, FallbackKept, TypeOK, kActiveTries
<1>5. OnlyActive'
  BY <1>2 DEF OnlyActive, ActivePriorities, kActivePriority, TypeOK
<1>6. TriesCounted'
  BY <1>2 DEF SetActiveBootSlot, TriesCounted, TypeOK, kActiveTries
<1> QED
  BY <1>2, <1>3, <1>4, <1>5, <1>6 DEF SetActiveBootSlot, LostUntilSaved

(* The other calls.                                                         *)
LEMMA OtherCallsIInv ==
    ASSUME IInv,
           \/ \E slot \in Slots : SetSlotAsUnbootable(slot) \/ IsSlotMarkedSuccessful(slot)
           \/ \E status \in MergeStatuses : SetSnapshotMergeStatus(status)
    PROVE  IInv'
<1> USE ConstantFacts DEF IInv, misc, uboot, images, running, history
<1>1. ASSUME NEW slot \in Slots, SetSlotAsUnbootable(slot) PROVE IInv'
  <2>1. TypeOK'
    BY <1>1 DEF SetSlotAsUnbootable, Call, Fault, NoFault, TypeOK
  <2>2. FallbackKept'
    BY <1>1 DEF SetSlotAsUnbootable, FallbackKept, TypeOK
  <2>3. TriesCounted'
    BY <1>1 DEF SetSlotAsUnbootable, TriesCounted, TypeOK
  <2> QED
    BY <1>1, <2>1, <2>2, <2>3 DEF SetSlotAsUnbootable, OnlyActive, LostUntilSaved
<1>2. ASSUME NEW slot \in Slots, IsSlotMarkedSuccessful(slot) PROVE IInv'
  <2>1. arb' \subseteq Slots /\ phase' \in {"off", phase}
    BY <1>2 DEF IsSlotMarkedSuccessful, RebootForArb, TypeOK
  <2>2. TypeOK'
    BY <1>2, <2>1 DEF IsSlotMarkedSuccessful, Call, Fault, NoFault, TypeOK
  <2> QED
    BY <1>2, <2>2 DEF IsSlotMarkedSuccessful, FallbackKept, OnlyActive, LostUntilSaved, TriesCounted
<1>3. ASSUME NEW status \in MergeStatuses, SetSnapshotMergeStatus(status) PROVE IInv'
  <2>1. TypeOK'
    BY <1>3 DEF SetSnapshotMergeStatus, VirtualAbMessage, Call, Fault, NoFault, TypeOK
  <2> QED
    BY <1>3, <2>1 DEF SetSnapshotMergeStatus, FallbackKept, OnlyActive, LostUntilSaved, TriesCounted
<1> QED
  BY <1>1, <1>2, <1>3

(* Every step keeps the invariant.                                          *)
LEMMA NextIInv == IInv /\ [Next]_vars => IInv'
<1> SUFFICES ASSUME IInv, [Next]_vars PROVE IInv'
  OBVIOUS
<1>1. CASE UNCHANGED vars
  BY <1>1 DEF vars, misc, uboot, images, running, history, IInv, TypeOK,
              FallbackKept, OnlyActive, LostUntilSaved, TriesCounted
<1> QED
  BY <1>1, EnvironmentIInv, HalInitIInv, MarkIInv, SetActiveIInv, OtherCallsIInv DEF Next

(* The invariant holds in every behaviour.                                  *)
LEMMA Invariance == Spec => []IInv
BY InitIInv, NextIInv, PTL DEF Spec

(* Every variable keeps its type: priorities fit 4 bits, tries 3.           *)
THEOREM TypeCorrect == Spec => []TypeOK
<1>1. IInv => TypeOK
  BY DEF IInv
<1> QED
  BY <1>1, Invariance, PTL

(* Whatever update, write or boot fails, every slot that is marked          *)
(* successful holds a system that boots and has a try left, and there is    *)
(* one unless a client gave up the last.                                    *)
THEOREM FallbackHolds == Spec => []FallbackKept
<1>1. IInv => FallbackKept
  BY DEF IInv
<1> QED
  BY <1>1, Invariance, PTL

(* U-Boot boots the slot SetActiveBootSlot was last called for, and         *)
(* GetActiveBootSlot returns it.                                            *)
THEOREM ActivationStays == Spec => []ActivationHolds
<1>1. IInv => ActivationHolds
  <2> SUFFICES ASSUME IInv, activated # None PROVE ActivationHolds
    BY DEF ActivationHolds
  <2>1. /\ activated \in Slots /\ cur \in Slots
        /\ \A t \in Slots : pri[t] \in 0..15
        /\ \A t \in Slots : t # activated => pri[t] < pri[activated]
    BY DEF IInv, TypeOK, OnlyActive
  <2>2. tries[activated] > 0 => BootChoices = {activated}
    <3> SUFFICES ASSUME tries[activated] > 0 PROVE BootChoices = {activated}
      OBVIOUS
    <3>1. activated \in BootChoices
      BY <2>1 DEF BootChoices
    <3>2. ASSUME NEW s \in BootChoices PROVE s = activated
      <4>1. s \in Slots /\ pri[activated] <= pri[s]
        BY <2>1 DEF BootChoices
      <4> QED
        BY <2>1, <4>1
    <3> QED
      BY <3>1, <3>2
  <2>3. GetActiveBootSlot = activated
    <3> DEFINE better == {s \in Slots : pri[s] > pri[cur]}
    <3>1. CASE cur = activated
      <4>1. better = {}
        BY <2>1, <3>1
      <4> QED
        BY <3>1, <4>1 DEF GetActiveBootSlot
    <3>2. CASE cur # activated
      <4> DEFINE Best(s) == \A t \in better : pri[t] < pri[s] \/ (pri[t] = pri[s] /\ s <= t)
      <4>1. activated \in better
        BY <2>1, <3>2
      <4>2. Best(activated)
        BY <2>1, ConstantFacts
      <4>3. \A s \in better : Best(s) => s = activated
        BY <2>1, <4>1
      <4>4. activated = CHOOSE s \in better : Best(s)
        BY <4>1, <4>2, <4>3
      <4> QED
        BY <4>1, <4>4 DEF GetActiveBootSlot
    <3> QED
      BY <3>1, <3>2
  <2> QED
    BY <2>2, <2>3 DEF ActivationHolds
<1> QED
  BY <1>1, Invariance, PTL

(* A slot made active is given up only after kActiveTries attempts at it.   *)
THEOREM EveryTryIsMade == Spec => []EveryTryMade
<1>1. IInv => EveryTryMade
  BY DEF IInv, TypeOK, TriesCounted, EveryTryMade, kActiveTries
<1> QED
  BY <1>1, Invariance, PTL

(* No update makes one of the first two slots active before its bootloader  *)
(* is in place.                                                             *)
THEOREM ActivatesLastHolds == Spec => ActivatesLast
<1> DEFINE InPlace == \A s \in Slots \cap {0, 1} :
        activated' = s /\ activated # s /\ layout = "dts" /\ fastboot = 0
            => boot0' = s \/ s \in gptImages
<1>1. IInv /\ [Next]_vars => [InPlace]_vars
  <2> SUFFICES ASSUME IInv, Next, NEW s \in Slots \cap {0, 1}, activated' = s, activated # s,
                      layout = "dts", fastboot = 0
               PROVE  boot0' = s \/ s \in gptImages
    BY DEF vars
  <2>1. PICK slot \in Slots : SetActiveBootSlot(slot)
    BY ConstantFacts DEF Next, Boot, Repair, Watchdog, PowerCut, Erased, Reboot, HalInit, InitAborts,
           MarkBootSuccessful, WriteSlot, SetSlotAsUnbootable, IsSlotMarkedSuccessful,
           SetSnapshotMergeStatus, history
  <2>2. PICK w \in PrepareBootloader(slot) : boot0' = w[1] /\ w[3] = 1 /\ activated' = slot
    BY <2>1 DEF SetActiveBootSlot
  <2> QED
    BY <2>2, PrepareFacts DEF IInv
<1> QED
  BY <1>1, Invariance, PTL DEF Spec, ActivatesLast
=============================================================================
