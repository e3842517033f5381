----------------------------- MODULE BootControl -----------------------------
(***************************************************************************)
(* boot_ctrl: the boot control HAL.  The A/B metadata of the misc partition *)
(* (bootloader_control) says which slots may boot and in which order; the   *)
(* HAL changes it for update_engine, and U-Boot (external) reads it and     *)
(* counts the attempts.                                                     *)
(*                                                                         *)
(* The service has one binder thread, so calls do not overlap: a call is    *)
(* one action.  A call that makes several writes may lose each of them, and *)
(* goes on as the code does: losing the power inside the call is            *)
(* the outcome that loses the rest of them, followed by PowerCut.  Left out: *)
(* verity_corrupted, which the HAL clears and never reads, and the names of *)
(* slots and partitions.                                                    *)
(***************************************************************************)
EXTENDS Integers

CONSTANTS
    NumSlots,       \* nb_slot, at most 4
    MergeStatuses,  \* the statuses update_engine sets, 0 being NONE
    MaxCalls,       \* bound: calls of update_engine and of fastboot
    MaxFaults       \* bound: failed writes, power cuts and loss of the block

Slots == 0..(NumSlots - 1)
None == -1
Torn == -2

kDefaultBootAttempts == 7
kActivePriority == 15
kActiveTries == 6
SNAPSHOTTED == 2
MERGING == 3

Layouts == {"gpt", "dts"}  \* what get_gpt_mode finds, when it can read the disk

ASSUME SlotAssumption == NumSlots \in 1..4 /\ MergeStatuses \subseteq 0..4

VARIABLES
    pri, tries, succ,  \* slot_info: priority, tries_remaining, successful_boot
    crc,               \* 1: crc32_le matches the block
    mergeFlag, firstboot, rollFlag,
    vab,               \* the Virtual A/B message: [status, source]
    arb,               \* the slots for which sys_boot_complete reads "1"
    layout,            \* how the disk is partitioned
    boot0,             \* dts: the slot whose image is the first bootloader
    env,               \* the bootloader variables that are set
    content,           \* slot -> 1 if the system written there can boot
    gptImages,         \* the slots whose bootloader image holds a GPT table
    phase,             \* "off", "boot": no HAL yet, "up": Init has returned,
                       \* "done": MarkBootSuccessful has been called
    fastboot,          \* 1: this boot serves fastboot or is a generic device
    cur,               \* current_slot_
    activated,         \* history: the slot of the last SetActiveBootSlot
    attempts,          \* history: attempts at it since
    lost,              \* history: the block was lost, not yet written again
    givenUp,           \* history: a client gave up the last slot marked
                       \* successful, and none was marked since
    calls, faults

misc == <<pri, tries, succ, crc, mergeFlag, firstboot, rollFlag>>
uboot == <<layout, boot0, env>>
images == <<content, gptImages, arb>>
running == <<phase, cur, fastboot>>
history == <<activated, attempts, lost, givenUp>>
vars == <<misc, vab, uboot, images, running, history, calls, faults>>

TypeOK ==
    /\ pri \in [Slots -> 0..15] /\ tries \in [Slots -> 0..7]
    /\ succ \in [Slots -> 0..1] /\ content \in [Slots -> 0..1]
    /\ crc \in 0..1 /\ firstboot \in 0..1 /\ rollFlag \in 0..1
    /\ mergeFlag \in 0..255 /\ vab \in [status : 0..4, source : Slots]
    /\ arb \subseteq Slots /\ gptImages \subseteq Slots /\ fastboot \in 0..1
    /\ layout \in Layouts /\ boot0 \in Slots \cup {Torn}
    /\ env \subseteq {"write_boot", "reboot_next", "update_dt"}
    /\ phase \in {"off", "boot", "up", "done"} /\ cur \in Slots
    /\ activated \in Slots \cup {None} /\ attempts \in Nat
    /\ lost \in 0..1 /\ givenUp \in 0..1
    /\ calls \in Nat /\ faults \in Nat

(* A device as it leaves the factory: slot 0 booted, the others empty.      *)
Init ==
    /\ pri = [s \in Slots |-> 7]
    /\ tries = [s \in Slots |-> IF s = 0 THEN kDefaultBootAttempts ELSE 0]
    /\ succ = [s \in Slots |-> IF s = 0 THEN 1 ELSE 0]
    /\ crc = 1 /\ mergeFlag = 0 /\ firstboot = 0 /\ rollFlag = 0
    /\ vab = [status |-> 0, source |-> 0] /\ arb = {0}
    /\ layout \in Layouts /\ boot0 = 0 /\ env = {}
    /\ content = [s \in Slots |-> IF s = 0 THEN 1 ELSE 0]
    /\ gptImages = {} /\ phase = "off" /\ cur = 0 /\ fastboot = 0
    /\ activated = None /\ attempts = 0 /\ lost = 0 /\ givenUp = 0
    /\ calls = 0 /\ faults = 0

----------------------------------------------------------------------------
(* The environment: U-Boot, the power and update_engine.                    *)

(* A write returns FALSE, or the power goes first.                          *)
Fault == faults < MaxFaults /\ faults' = faults + 1
NoFault == faults' = faults

Call == calls < MaxCalls /\ calls' = calls + 1

(* U-Boot boots a slot of the highest priority among those with tries left; *)
(* an attempt at a slot that is not successful costs a try.                 *)
BootChoices ==
    {s \in Slots : tries[s] > 0 /\ \A t \in Slots : tries[t] > 0 => pri[t] <= pri[s]}

Boot ==
    /\ phase = "off" /\ crc = 1
    /\ \E s \in BootChoices :
        /\ cur' = s
        /\ tries' = IF succ[s] = 1 THEN tries ELSE [tries EXCEPT ![s] = @ - 1]
        /\ firstboot' = IF succ[s] = 1 THEN firstboot ELSE 1
        /\ rollFlag' = IF \E t \in Slots : pri[t] > pri[s] THEN 1 ELSE rollFlag
        /\ attempts' = IF s = activated /\ succ[s] = 0 THEN attempts + 1 ELSE attempts
    /\ env' = {} /\ phase' = "boot" /\ fastboot' \in 0..1
    /\ UNCHANGED <<pri, succ, crc, mergeFlag, vab, layout, boot0, images,
                   activated, lost, givenUp, calls, faults>>

(* "The bootloader should repair this situation before booting".            *)
Repair ==
    /\ phase = "off" /\ crc = 0
    /\ pri' = [s \in Slots |-> 7] /\ crc' = 1
    /\ tries' = [s \in Slots |-> kDefaultBootAttempts]
    /\ succ' = [s \in Slots |-> 0]
    /\ UNCHANGED <<mergeFlag, firstboot, rollFlag, vab, uboot, images, running,
                   history, calls, faults>>

(* A slot whose system cannot boot hangs until the watchdog fires.          *)
Watchdog ==
    /\ phase # "off" /\ content[cur] = 0 /\ phase' = "off"
    /\ UNCHANGED <<misc, vab, uboot, images, cur, fastboot, history, calls, faults>>

PowerCut ==
    /\ phase # "off" /\ Fault /\ phase' = "off"
    /\ UNCHANGED <<misc, vab, uboot, images, cur, fastboot, history, calls>>

(* The misc partition is erased between U-Boot and Init.                    *)
Erased ==
    /\ phase = "boot" /\ Fault
    /\ pri' = [s \in Slots |-> 0] /\ tries' = pri' /\ succ' = pri'
    /\ crc' = 0 /\ mergeFlag' = 0 /\ firstboot' = 0 /\ rollFlag' = 0
    /\ vab' = [status |-> 0, source |-> 0]
    /\ activated' = None /\ attempts' = 0 /\ lost' = 1 /\ givenUp' = 0
    /\ UNCHANGED <<uboot, images, running, calls>>

(* A system that has booted: its clients call the HAL.                      *)
Serving == phase \in {"up", "done"} /\ content[cur] = 1

Reboot ==
    /\ Serving /\ Call /\ phase' = "off"
    /\ UNCHANGED <<misc, vab, uboot, images, cur, fastboot, history, faults>>

(* update_engine writes a slot that it has made unbootable: c is 0 until    *)
(* the system there is complete, g whether its bootloader has a GPT table.  *)
WriteSlot(t, c, g) ==
    /\ Serving /\ t # cur /\ tries[t] = 0 /\ succ[t] = 0 /\ Call
    /\ content' = [content EXCEPT ![t] = c]
    /\ gptImages' = IF g THEN gptImages \cup {t} ELSE gptImages \ {t}
    /\ arb' = arb \ {t}
    /\ UNCHANGED <<misc, vab, uboot, running, history, faults>>

----------------------------------------------------------------------------
(* The HAL.                                                                 *)

InitDefaultBootloaderControl ==
    /\ pri' = [s \in Slots |-> 7]
    /\ tries' = [s \in Slots |-> kDefaultBootAttempts]
    /\ succ' = [s \in Slots |-> IF s = cur THEN 1 ELSE 0]
    /\ mergeFlag' = 255 /\ firstboot' = 0 /\ rollFlag' = 0 /\ crc' = 1
    /\ lost' = IF content[cur] = 1 THEN 0 ELSE lost
    /\ givenUp' = 0

ClearRollFlag ==
    /\ rollFlag' = 0 /\ crc' = 1
    /\ UNCHANGED <<pri, tries, succ, mergeFlag, firstboot, lost, givenUp>>

(* BootControl::Init of a new process.  What UpdateAndSave returns is       *)
(* ignored.                                                                 *)
HalInit ==
    /\ phase = "boot" /\ phase' = "up"
    /\ \/ crc = 0 /\ NoFault /\ InitDefaultBootloaderControl
       \/ crc = 1 /\ NoFault /\ rollFlag = 1 /\ ClearRollFlag
       \/ crc = 1 /\ NoFault /\ rollFlag = 0 /\ UNCHANGED <<misc, lost, givenUp>>
       \/ (crc = 0 \/ rollFlag = 1) /\ Fault /\ UNCHANGED <<misc, lost, givenUp>>
    /\ UNCHANGED <<vab, uboot, images, cur, fastboot, activated, attempts, calls>>

(* InitMiscVirtualAbMessageIfNeeded fails: the CHECK in BootControl's        *)
(* constructor ends the process, and a new one begins again.                *)
InitAborts ==
    /\ phase = "boot" /\ Fault
    /\ IF crc = 0 THEN InitDefaultBootloaderControl ELSE UNCHANGED <<misc, lost, givenUp>>
    /\ UNCHANGED <<vab, uboot, images, running, activated, attempts, calls>>

(* Mutant: a slot that succeeds in its last attempt keeps no try.           *)
TriesKept == tries

SuccessfulTries == [tries EXCEPT ![cur] = 1]

(* The ARB reboot: sys_boot_complete does not read "1"; writing it may fail *)
(* unseen.                                                                  *)
RebootForArb(needed) ==
    IF needed THEN arb' \in {arb, arb \cup {cur}} /\ phase' = "off"
              ELSE UNCHANGED <<arb, phase>>

(* Mutant: a slot that is already marked is checked again.                  *)
ArbCheckedAlways == cur \notin arb

ArbDue == succ[cur] = 0 /\ cur \notin arb

MarkBootSuccessful ==
    /\ phase = "up" /\ content[cur] = 1
    /\ IF ArbDue
       THEN RebootForArb(TRUE)
       ELSE arb' = arb /\ phase' = "done"
    /\ \/ /\ NoFault
          /\ succ' = [succ EXCEPT ![cur] = 1]
          /\ tries' = SuccessfulTries
          /\ mergeFlag' = 0 /\ firstboot' = 0 /\ crc' = 1
          /\ givenUp' = 0 /\ UNCHANGED <<pri, rollFlag>>
       \/ Fault /\ UNCHANGED <<misc, givenUp>>
    /\ UNCHANGED <<vab, uboot, content, gptImages, cur, fastboot, activated,
                   attempts, lost, calls>>

(* Mutant: what write_bootloader_img returns is not looked at.              *)
WriteUnchecked(slot) == {<<slot, 1>>, <<boot0, 1>>, <<Torn, 1>>}

(* The image write_bootloader_img reads: the code knows two of them, and    *)
(* takes the second one for every slot but the first.                       *)
BootloaderImg(slot) == IF slot = 0 THEN 0 ELSE 1

(* write_bootloader_img: the first bootloader afterwards and what it        *)
(* returns.  An image with a GPT table is not written and counts as done.   *)
WriteBootloaderImg(slot) ==
    IF BootloaderImg(slot) \in gptImages THEN {<<boot0, 1>>, <<boot0, 0>>}
    ELSE {<<BootloaderImg(slot), 1>>, <<boot0, 0>>, <<Torn, 0>>}

SetBootloaderIndex == env \cup {"reboot_next"}

(* What SetActiveBootSlot does before it touches the block: the first       *)
(* bootloader, the variables, and whether it goes on.                       *)
PrepareBootloader(slot) ==
    IF fastboot = 1 THEN {<<boot0, env, 1>>}
    ELSE IF layout = "gpt"
         THEN {<<boot0, e, 1>> : e \in {env, env \cup {"write_boot"}}}
         ELSE {<<w[1],
                 (IF w[2] = 1 THEN SetBootloaderIndex ELSE env) \cup {"update_dt"},
                 w[2]>> : w \in WriteBootloaderImg(slot)}

(* Mutant: the other slots keep their priority.                             *)
OthersKept(slot) == [pri EXCEPT ![slot] = kActivePriority]

ActivePriorities(slot) ==
    [s \in Slots |-> IF s = slot THEN kActivePriority
                     ELSE IF pri[s] >= kActivePriority THEN kActivePriority - 1
                     ELSE pri[s]]

(* Mutant: the slot keeps the tries it has.                                 *)
TriesLeft(slot) == tries

RefilledTries(slot) == [tries EXCEPT ![slot] = kActiveTries]

SetActiveBootSlot(slot) ==
    /\ Serving /\ Call
    /\ \E w \in PrepareBootloader(slot) :
        /\ boot0' = w[1] /\ env' = w[2]
        /\ \/ /\ w[3] = 1 /\ NoFault
              /\ pri' = ActivePriorities(slot)
              /\ tries' = RefilledTries(slot)
              /\ crc' = 1 /\ activated' = slot /\ attempts' = 0
           \/ Fault /\ UNCHANGED <<pri, tries, crc, activated, attempts>>
    /\ UNCHANGED <<succ, mergeFlag, firstboot, rollFlag, vab, layout, images,
                   running, lost, givenUp>>

(* Nothing keeps a client from giving up the running slot, or the last one  *)
(* that is marked.                                                          *)
SetSlotAsUnbootable(slot) ==
    /\ Serving /\ Call
    /\ \/ /\ NoFault
          /\ succ' = [succ EXCEPT ![slot] = 0]
          /\ tries' = [tries EXCEPT ![slot] = 0]
          /\ crc' = 1 /\ activated' = IF activated = slot THEN None ELSE activated
          /\ givenUp' = IF \E s \in Slots \ {slot} : succ[s] = 1 THEN givenUp ELSE 1
       \/ Fault /\ UNCHANGED <<succ, tries, crc, activated, givenUp>>
    /\ UNCHANGED <<pri, mergeFlag, firstboot, rollFlag, vab, uboot, images,
                   running, attempts, lost>>

(* A question that writes: once sys.boot_completed is set it ends the first *)
(* boot.                                                                    *)
IsSlotMarkedSuccessful(slot) ==
    /\ Serving /\ firstboot = 1 /\ Call
    /\ \/ NoFault /\ firstboot' = 0 /\ crc' = 1
       \/ Fault /\ UNCHANGED <<firstboot, crc>>
    /\ RebootForArb(succ[slot] = 1 /\ cur \notin arb)
    /\ UNCHANGED <<pri, tries, succ, mergeFlag, rollFlag, vab, uboot, content,
                   gptImages, cur, fastboot, history>>

GetSnapshotMergeStatus ==
    IF vab.status = SNAPSHOTTED /\ cur = vab.source THEN 0 ELSE vab.status

VirtualAbMessage(status) == [status |-> status, source |-> cur]

(* Two writes: merge_flag of the block, then the Virtual A/B message.       *)
SetSnapshotMergeStatus(status) ==
    /\ Serving /\ Call
    /\ status = MERGING => phase = "done" /\ GetSnapshotMergeStatus = SNAPSHOTTED
    /\ \E flagged, written \in BOOLEAN :
        /\ IF flagged THEN mergeFlag' = status /\ crc' = 1
                      ELSE UNCHANGED <<mergeFlag, crc>>
        /\ vab' = IF written THEN VirtualAbMessage(status) ELSE vab
        /\ IF flagged /\ written THEN NoFault ELSE Fault
    /\ UNCHANGED <<pri, tries, succ, firstboot, rollFlag, uboot, images, running,
                   history>>

GetActiveBootSlot ==
    LET better == {s \in Slots : pri[s] > pri[cur]} IN
    IF better = {} THEN cur
    ELSE CHOOSE s \in better :
            \A t \in better : pri[t] < pri[s] \/ (pri[t] = pri[s] /\ s <= t)

Next ==
    \/ Boot \/ Repair \/ Watchdog \/ PowerCut \/ Erased \/ Reboot
    \/ HalInit \/ InitAborts \/ MarkBootSuccessful
    \/ \E t \in Slots, c \in 0..1, g \in BOOLEAN : WriteSlot(t, c, g)
    \/ \E slot \in Slots : \/ SetActiveBootSlot(slot)
                           \/ SetSlotAsUnbootable(slot)
                           \/ IsSlotMarkedSuccessful(slot)
    \/ \E status \in MergeStatuses : SetSnapshotMergeStatus(status)

Spec == Init /\ [][Next]_vars

(* U-Boot, the watchdog and init go on by themselves, and update_engine     *)
(* calls MarkBootSuccessful in every boot.                                  *)
FairSpec ==
    /\ Spec
    /\ WF_vars(Boot) /\ WF_vars(Repair) /\ WF_vars(Watchdog)
    /\ WF_vars(HalInit) /\ WF_vars(MarkBootSuccessful)

----------------------------------------------------------------------------
(* Whatever write is lost, only a client that gives up the last slot marked *)
(* successful leaves the device without one, and every slot that is so      *)
(* marked holds a system that boots and has a try left, so U-Boot may       *)
(* choose it.  Until the block is lost (then InitDefault can only assume    *)
(* the running slot to be good).  The HAL accepts any slot to give up, so   *)
(* one marked slot is the clients' to keep: update_engine gives up the      *)
(* other one after MarkBootSuccessful, whose save may have failed.          *)
FallbackKept ==
    lost = 0 =>
        /\ givenUp = 0 => \E s \in Slots : succ[s] = 1
        /\ \A s \in Slots : succ[s] = 1 => tries[s] > 0 /\ content[s] = 1

(* SetActiveBootSlot has the last word: while the slot it was last called   *)
(* for has tries left, U-Boot boots that slot and no other, and             *)
(* GetActiveBootSlot says so, in every later boot.                          *)
ActivationHolds ==
    activated # None =>
        /\ GetActiveBootSlot = activated
        /\ tries[activated] > 0 => BootChoices = {activated}

(* A slot that SetActiveBootSlot made active is given up only after         *)
(* kActiveTries attempts at it, whatever saves, power cuts and calls for    *)
(* other slots fall between them: none of them costs it a try.  (These are  *)
(* six, although the comment on kDefaultBootAttempts, which only            *)
(* InitDefault uses, says seven for a new slot.)                            *)
EveryTryMade ==
    activated # None /\ tries[activated] = 0 => attempts = kActiveTries

(* In an update of a device without GPT one of the first two slots is not   *)
(* made active before its bootloader is in place (or is one that cannot be  *)
(* installed): a write that fails half way never leaves the new slot with   *)
(* the old bootloader.  Nothing of the kind holds for a third or a fourth   *)
(* slot, which nb_slot allows: they are given the second slot's bootloader. *)
ActivatesLast ==
    [][\A s \in Slots \cap {0, 1} :
        activated' = s /\ activated # s /\ layout = "dts" /\ fastboot = 0
            => boot0' = s \/ s \in gptImages]_vars

(* The device comes back: after any series of faults, calls, failed updates *)
(* and ARB reboots it ends in a slot whose system boots and has been        *)
(* reported, and stays there; a slot that cannot boot runs out of tries and *)
(* the reboot for ARB does not repeat.  Unless the block is lost or a       *)
(* client has given up the last marked slot.                                *)
Converges ==
    <>[](lost = 0 /\ givenUp = 0) => <>[](phase = "done" /\ content[cur] = 1)

=============================================================================
