------------------------------ MODULE FsblBoot ------------------------------
(***************************************************************************)
(* The first stage boot loader: the stages of main() in xfsbl_main.c, the  *)
(* loading of the partitions of a boot image in order, the handoff loop    *)
(* with its early handoffs, and the error path: the fallback to the next   *)
(* image of the flash through the multiboot register, and the watchdog     *)
(* that resets a loader that hangs.  State is what survives each kind of   *)
(* reset.  The boot ROM, the reset logic and whoever asks for a reset are  *)
(* the environment.                                                        *)
(***************************************************************************)
EXTENDS Naturals, Sequences, FiniteSets, SequencesExt

CONSTANTS
  Layouts,      \* the partition lists an image may have (partition 0, the FSBL, left out)
  Slots,        \* multiboot values below Slots may hold an image
  MaxResets     \* bound: resets asked for from outside

A53 == {"A0", "A1"}
R5 == {"R0", "R1"}
Cpus == A53 \cup R5
Partitions == [cpu : Cpus \cup {"none"}, dev : {"PS", "PL"}, fsbl : BOOLEAN]

ASSUME BootAssumption ==
  /\ Slots \in Nat \ {0} /\ MaxResets \in Nat
  /\ Layouts \subseteq Seq(Partitions) /\ \A l \in Layouts : Len(l) >= 1

\* A good image never fails; at a bad one any call may fail, any load hang.
Images == [parts : Layouts, good : BOOLEAN]
NoImage == [parts |-> <<>>, good |-> FALSE]

\* The board and the build, chosen once.
VARIABLES
  self,         \* ProcessorID: the CPU the FSBL runs on
  BootMode,     \* "flash" (QSPI, NAND, SD, eMMC), "usb" or "jtag"
  early,        \* built with XFSBL_EARLY_HANDOFF?
  WdtPresent,   \* built with XFSBL_WDT_PRESENT?
  flash         \* what each multiboot slot holds

\* Registers and hardware.
VARIABLES
  multiboot,    \* CSU_MULTI_BOOT
  ResetReason,  \* "SYSTEM", "PS_ONLY" or "APU_ONLY"
  ErrorStatus,  \* XFSBL_ERROR_STATUS_REGISTER: "RUNNING", "COMPLETED" or "ERROR"
  swdt,         \* PMU_GLOBAL_ERROR_STATUS_1: did the watchdog cause the reset?
  wdt,          \* is the watchdog running?
  cpu,          \* per CPU: "reset", "running", or "disturbed" (released again)
  pl,           \* the slot whose bitstream the PL holds, or NoPl
  r5Used        \* XFSBL_R5_USAGE_STATUS_REG

\* The program.
VARIABLES
  stage,        \* FsblStage, with the places a boot ends at
  PartitionNum, EarlyHandoff,
  HandoffValues,        \* the CPUs of FsblInstance.HandoffValues, in order
  CpuIndexEarlyHandoff, \* the static of XFsbl_Handoff
  CpuIndex, RunningCpuHandoffAddressPresent

\* History.
VARIABLES
  loaded,       \* partitions of the image that are in memory
  resets,       \* resets asked for so far
  overRecord,   \* was a reset asked for while a watchdog reset was on record?
  skewed        \* did a failed APU restart move multiboot with no reset?

boardVars == <<self, BootMode, early, WdtPresent, flash>>
hwVars == <<cpu, pl, r5Used>>
handoffVars == <<CpuIndexEarlyHandoff, CpuIndex, RunningCpuHandoffAddressPresent>>
progVars == <<PartitionNum, EarlyHandoff, HandoffValues, handoffVars>>
histVars == <<resets, overRecord, skewed>>
vars == <<boardVars, multiboot, ResetReason, ErrorStatus, swdt, wdt, hwVars, stage,
          progVars, loaded, histVars>>

NoPl == Slots
Image == IF multiboot < Slots THEN flash[multiboot] ELSE NoImage
parts == Image.parts            \* ImageHeader.PartitionHeader[1..]
LastPartition == Len(parts)     \* ImageHeaderTable.NoOfPartitions - 1
Header == parts[PartitionNum]
CanFail == BootMode = "flash" /\ ~Image.good
ApuOnly == ResetReason = "APU_ONLY"

Final == {"RomLockdown", "Exited", "Idle", "Halted", "Spin", "Hung"}
Stages == {"Rom", "Stage1", "Stage2", "Stage3", "Stage4", "Handoff", "Err"} \cup Final

Init ==
  /\ self \in {"A0", "R0"} /\ BootMode \in {"flash", "usb", "jtag"}
  /\ early \in BOOLEAN /\ WdtPresent \in BOOLEAN
  /\ flash \in [0..(Slots - 1) -> Images \cup {NoImage}]
  /\ BootMode # "flash" => \A i \in DOMAIN flash : flash[i] = NoImage
  /\ multiboot = 0 /\ ResetReason = "SYSTEM" /\ ErrorStatus = "COMPLETED"
  /\ swdt = FALSE /\ wdt = FALSE
  /\ cpu = [c \in Cpus |-> "reset"] /\ pl = NoPl /\ r5Used = {}
  /\ stage = "Rom" /\ PartitionNum = 0 /\ EarlyHandoff = FALSE
  /\ HandoffValues = <<>> /\ CpuIndexEarlyHandoff = 0 /\ CpuIndex = 0
  /\ RunningCpuHandoffAddressPresent = FALSE
  /\ loaded = {} /\ resets = 0 /\ overRecord = FALSE /\ skewed = FALSE

-----------------------------------------------------------------------------
(* Resets (environment).  A system reset loads the FSBL afresh and clears  *)
(* the CPUs, memory and, unless it is PS-only, the PL; multiboot, the error *)
(* status and the cause of the reset survive it.  An APU-only reset starts *)
(* the FSBL that is still in memory, whose initialized data is as it was.  *)

FreshProgram == /\ PartitionNum' = 0 /\ EarlyHandoff' = FALSE
                /\ CpuIndexEarlyHandoff' = 0 /\ CpuIndex' = 0
                /\ RunningCpuHandoffAddressPresent' = FALSE

SystemReset(reason) ==
  /\ FreshProgram /\ HandoffValues' = <<>>
  /\ stage' = "Rom" /\ ResetReason' = reason /\ wdt' = FALSE
  /\ cpu' = [c \in Cpus |-> "reset"]
  /\ pl' = IF reason = "PS_ONLY" THEN pl ELSE NoPl
  /\ r5Used' = {} /\ loaded' = {}

ApuReset ==
  /\ FreshProgram
  /\ stage' = "Stage1" /\ ResetReason' = "APU_ONLY"
  /\ cpu' = [c \in Cpus |-> IF c \in A53 THEN "reset" ELSE cpu[c]]
  /\ loaded' = {p \in loaded : p \in DOMAIN parts /\ parts[p].cpu \notin A53}
  /\ UNCHANGED <<HandoffValues, wdt, pl, r5Used>>

ResetRequest ==
  /\ stage # "Rom" /\ resets < MaxResets
  /\ resets' = resets + 1 /\ overRecord' = (overRecord \/ swdt)
  /\ \/ SystemReset("SYSTEM")
     \/ stage \in Final /\ SystemReset("PS_ONLY")
     \/ /\ self = "A0" /\ BootMode = "flash"
        /\ stage \in {"Exited", "Spin"} \/ (stage = "Hung" /\ ApuOnly)
        /\ ApuReset
  /\ UNCHANGED <<boardVars, multiboot, ErrorStatus, swdt, skewed>>

\* The watchdog resets a loader that stopped making progress.  A load that
\* takes longer than the watchdog's period counts as one that hangs.
WatchdogExpires ==
  /\ wdt /\ stage \in Final
  /\ SystemReset("SYSTEM") /\ swdt' = TRUE
  /\ UNCHANGED <<boardVars, multiboot, ErrorStatus, histVars>>

\* The boot ROM loads the first image at or after multiboot.
RomSearch ==
  /\ stage = "Rom"
  /\ LET found == {i \in multiboot..(Slots - 1) : flash[i] # NoImage}
     IN  IF BootMode # "flash" THEN stage' = "Stage1" /\ UNCHANGED multiboot
         ELSE IF found = {} THEN stage' = "RomLockdown" /\ UNCHANGED multiboot
         ELSE /\ stage' = "Stage1"
              /\ multiboot' \in {i \in found : \A j \in found : i <= j}
  /\ UNCHANGED <<boardVars, ResetReason, ErrorStatus, swdt, wdt, hwVars, progVars,
                 loaded, histVars>>
-----------------------------------------------------------------------------
(* Stage 1: XFsbl_Initialize.                                              *)

\* Mutant: the data of the previous run is kept.
RestoreNothing == HandoffValues' = HandoffValues
\* XFsbl_GetResetReason restores the initialized data after an APU-only reset.
RestoreData == HandoffValues' = IF ApuOnly THEN <<>> ELSE HandoffValues

\* Mutant: the record of a watchdog reset counts, whatever the error status.
WdtRecorded == swdt
\* XFsbl_ResetValidation: was it the watchdog, during the previous execution?
WdtReset == swdt /\ ErrorStatus = "RUNNING"

Initialize ==
  /\ stage = "Stage1"
  /\ RestoreData
  /\ \/ ApuOnly /\ stage' = "Stage2" /\ UNCHANGED <<swdt, ErrorStatus>>
     \/ /\ ~ApuOnly /\ ~WdtReset
        /\ ErrorStatus' = "RUNNING" /\ stage' = "Stage2" /\ UNCHANGED swdt
     \/ /\ ~ApuOnly /\ WdtReset
        /\ swdt' = FALSE /\ stage' = "Err" /\ UNCHANGED ErrorStatus
     \/ CanFail /\ stage' = "Err" /\ UNCHANGED <<swdt, ErrorStatus>>
  /\ UNCHANGED <<boardVars, multiboot, ResetReason, wdt, hwVars, PartitionNum,
                 EarlyHandoff, handoffVars, loaded, histVars>>
-----------------------------------------------------------------------------
(* Stage 2: XFsbl_BootDeviceInitAndValidate.  USB is not built in: its     *)
(* boot mode is refused, once the watchdog runs.                           *)

StartWdt == wdt' = (wdt \/ (WdtPresent /\ ~ApuOnly))

BootDeviceInitAndValidate ==
  /\ stage = "Stage2"
  /\ \/ /\ BootMode = "jtag"
        /\ r5Used' = R5 /\ stage' = "Stage4" /\ UNCHANGED <<wdt, PartitionNum>>
     \/ /\ BootMode = "flash" /\ parts # <<>>
        /\ StartWdt
        /\ PartitionNum' = 1 /\ r5Used' = r5Used \ R5 /\ stage' = "Stage3"
     \/ /\ BootMode = "usb" \/ CanFail
        /\ StartWdt
        /\ stage' = "Err" /\ UNCHANGED <<PartitionNum, r5Used>>
  /\ UNCHANGED <<boardVars, multiboot, ResetReason, ErrorStatus, swdt, cpu, pl,
                 EarlyHandoff, HandoffValues, handoffVars, loaded, histVars>>
-----------------------------------------------------------------------------
(* Stage 3: XFsbl_PartitionLoad, XFsbl_MarkUsedRPUCores and                *)
(* XFsbl_CheckEarlyHandoff, one partition at a time.                       *)

\* Mutant: no CPU is taken as it is.
DestinationAsIs(p) == p.cpu
\* The destination, the running CPU standing for none (but not for the PL).
Destination(p) == IF p.cpu = "none" /\ p.dev = "PS" THEN self ELSE p.cpu

\* XFsbl_PartitionHeaderValidation: is the partition left to another owner?
NotPartitionOwner(p) == ~p.fsbl \/ (ApuOnly /\ p.cpu \notin A53)

\* XFsbl_CheckHandoffCpu: only the first partition of a CPU makes an entry.
AddHandoff(c) == HandoffValues' = IF c \in Range(HandoffValues) THEN HandoffValues
                                  ELSE Append(HandoffValues, c)

PartitionLoad ==
  IF NotPartitionOwner(Header) \/ (Header.dev = "PL" /\ ResetReason = "PS_ONLY")
    THEN UNCHANGED <<loaded, pl, HandoffValues>>
    ELSE /\ loaded' = loaded \cup {PartitionNum}
         /\ IF Header.dev = "PL" THEN pl' = multiboot /\ UNCHANGED HandoffValues
                                 ELSE AddHandoff(Destination(Header)) /\ UNCHANGED pl

MarkUsedRPUCores ==
  r5Used' = r5Used \cup (IF Header.cpu = "none" THEN {self} \cap R5
                                                ELSE {Header.cpu} \cap R5)

CheckEarlyHandoffCpu(c) == early /\ c \in R5

\* Mutant: the next partition is not looked at.
CheckEarlyHandoffAtOnce ==
  CheckEarlyHandoffCpu(Destination(Header)) /\ Destination(Header) # self
CheckEarlyHandoff ==
  LET next == IF PartitionNum < LastPartition
                THEN Destination(parts[PartitionNum + 1]) ELSE "none"
  IN  /\ CheckEarlyHandoffCpu(Destination(Header))
      /\ Destination(Header) # self
      /\ next # Destination(Header)

LoadPartition ==
  /\ stage = "Stage3"
  /\ PartitionLoad /\ MarkUsedRPUCores
  /\ IF PartitionNum < LastPartition /\ ~CheckEarlyHandoff
       THEN /\ PartitionNum' = PartitionNum + 1
            /\ UNCHANGED <<stage, EarlyHandoff>>
       ELSE /\ stage' = "Stage4" /\ EarlyHandoff' = CheckEarlyHandoff
            /\ UNCHANGED PartitionNum
  /\ UNCHANGED <<boardVars, multiboot, ResetReason, ErrorStatus, swdt, wdt, cpu,
                 handoffVars, histVars>>

\* A read, a checksum or a check of the partition fails, or the load waits for
\* good on the PMU, on the DMA or on the device.
LoadFails ==
  /\ stage = "Stage3" /\ CanFail
  /\ stage' \in {"Err", "Hung"}
  /\ UNCHANGED <<boardVars, multiboot, ResetReason, ErrorStatus, swdt, wdt, hwVars,
                 progVars, loaded, histVars>>
-----------------------------------------------------------------------------
(* Stage 4: XFsbl_Handoff, its loop one CPU at a time.                     *)

\* Mutant: a regular handoff goes on where the early ones stopped.
FirstCpuAfterEarly == CpuIndexEarlyHandoff
\* Early handoffs remember how far they came; a regular one looks at every CPU.
FirstCpu == IF EarlyHandoff THEN CpuIndexEarlyHandoff ELSE 0

BeginHandoff ==
  /\ stage = "Stage4"
  /\ \/ /\ BootMode = "jtag"
        /\ ErrorStatus' = "COMPLETED" /\ stage' = "Idle"
        /\ UNCHANGED <<CpuIndex, RunningCpuHandoffAddressPresent>>
     \/ /\ BootMode # "jtag"
        /\ CpuIndex' = FirstCpu
        /\ RunningCpuHandoffAddressPresent' = FALSE
        /\ stage' = "Handoff" /\ UNCHANGED ErrorStatus
     \/ /\ CanFail /\ stage' = "Err"
        /\ UNCHANGED <<ErrorStatus, CpuIndex, RunningCpuHandoffAddressPresent>>
  /\ UNCHANGED <<boardVars, multiboot, ResetReason, swdt, wdt, hwVars, PartitionNum,
                 EarlyHandoff, HandoffValues, CpuIndexEarlyHandoff, loaded, histVars>>

\* Powering a CPU up, its reset vector, taking it out of reset.
Release(c) == cpu' = [cpu EXCEPT ![c] = IF @ = "reset" THEN "running" ELSE "disturbed"]

\* The condition of the loop body.
HandedOffNow(c) == \/ CheckEarlyHandoffCpu(c) /\ EarlyHandoff
                   \/ ~EarlyHandoff /\ ~CheckEarlyHandoffCpu(c)
                   \/ ~EarlyHandoff /\ CheckEarlyHandoffCpu(c) /\ c = self

AfterEarlyHandoff ==
  IF PartitionNum < LastPartition
    THEN /\ CpuIndexEarlyHandoff' = CpuIndexEarlyHandoff + 1
         /\ PartitionNum' = PartitionNum + 1 /\ stage' = "Stage3"
         /\ UNCHANGED <<CpuIndex, EarlyHandoff>>
    ELSE /\ EarlyHandoff' = FALSE /\ stage' = "Stage4"
         /\ UNCHANGED <<CpuIndex, CpuIndexEarlyHandoff, PartitionNum>>

\* Mutant: only CPUs handed off are counted as seen.
NextCpuOnly == /\ CpuIndex' = CpuIndex + 1
               /\ UNCHANGED <<CpuIndexEarlyHandoff, stage, EarlyHandoff, PartitionNum>>
NextCpu == /\ CpuIndex' = CpuIndex + 1
           /\ CpuIndexEarlyHandoff' = CpuIndexEarlyHandoff + 1
           /\ UNCHANGED <<stage, EarlyHandoff, PartitionNum>>

HandoffCpu ==
  /\ stage = "Handoff" /\ CpuIndex < Len(HandoffValues)
  /\ LET c == HandoffValues[CpuIndex + 1]
     IN  \/ /\ ~HandedOffNow(c)
            /\ NextCpu /\ UNCHANGED <<cpu, RunningCpuHandoffAddressPresent>>
         \/ /\ HandedOffNow(c)
            /\ IF c # self
                 THEN Release(c) /\ UNCHANGED RunningCpuHandoffAddressPresent
                 ELSE RunningCpuHandoffAddressPresent' = TRUE /\ UNCHANGED cpu
            /\ IF EarlyHandoff /\ CheckEarlyHandoffCpu(c) THEN AfterEarlyHandoff
                                                           ELSE NextCpu
         \/ /\ HandedOffNow(c) /\ CanFail
            /\ stage' = "Err"
            /\ UNCHANGED <<cpu, RunningCpuHandoffAddressPresent, CpuIndex,
                           CpuIndexEarlyHandoff, EarlyHandoff, PartitionNum>>
  /\ UNCHANGED <<boardVars, multiboot, ResetReason, ErrorStatus, swdt, wdt, pl, r5Used,
                 HandoffValues, loaded, histVars>>

StopWdt == wdt' = (wdt /\ ApuOnly)

\* Past the loop: to the application of the running CPU, or to sleep.
HandoffExit ==
  /\ stage = "Handoff" /\ CpuIndex >= Len(HandoffValues)
  /\ ErrorStatus' = "COMPLETED" /\ StopWdt
  /\ IF RunningCpuHandoffAddressPresent
       THEN stage' = "Exited" /\ cpu' = [cpu EXCEPT ![self] = "running"]
       ELSE stage' = "Idle" /\ UNCHANGED cpu
  /\ UNCHANGED <<boardVars, multiboot, ResetReason, swdt, pl, r5Used, progVars, loaded,
                 histVars>>
-----------------------------------------------------------------------------
(* Errors: XFsbl_ErrorLockDown, XFsbl_FallBack, XFsbl_UpdateMultiBoot.     *)

\* Mutant: multiboot stays.
UpdateMultiBootNot ==
  /\ UNCHANGED <<multiboot, skewed>>
  /\ SystemReset("SYSTEM")
\* Mutant: the reset is of the kind the boot came from.
UpdateMultiBootSameReset ==
  /\ multiboot' = multiboot + 1
  /\ SystemReset(ResetReason) /\ UNCHANGED skewed
\* A fallback after an APU-only reset moves multiboot and waits for good.
UpdateMultiBoot ==
  /\ multiboot' = multiboot + 1
  /\ IF ApuOnly
       THEN /\ stage' = "Spin" /\ skewed' = TRUE
            /\ UNCHANGED <<ResetReason, wdt, hwVars, progVars, loaded>>
       ELSE SystemReset("SYSTEM") /\ UNCHANGED skewed

ErrorLockDown ==
  /\ stage = "Err"
  /\ ErrorStatus' = "ERROR"
  /\ IF BootMode = "flash" THEN UpdateMultiBoot
       ELSE /\ stage' = "Halted"
            /\ UNCHANGED <<multiboot, ResetReason, wdt, hwVars, progVars, loaded, skewed>>
  /\ UNCHANGED <<boardVars, swdt, resets, overRecord>>
-----------------------------------------------------------------------------
Step == \/ RomSearch \/ Initialize \/ BootDeviceInitAndValidate
        \/ LoadPartition \/ LoadFails
        \/ BeginHandoff \/ HandoffCpu \/ HandoffExit \/ ErrorLockDown

Next == Step \/ WatchdogExpires \/ ResetRequest

\* The loader runs until it stops, and a watchdog that runs expires.
Spec == Init /\ [][Next]_vars /\ WF_vars(Step) /\ WF_vars(WatchdogExpires)
-----------------------------------------------------------------------------
\* Every variable has its type.
TypeOK ==
  /\ self \in {"A0", "R0"} /\ BootMode \in {"flash", "usb", "jtag"}
  /\ early \in BOOLEAN /\ WdtPresent \in BOOLEAN
  /\ flash \in [0..(Slots - 1) -> Images \cup {NoImage}]
  /\ multiboot \in Nat /\ ResetReason \in {"SYSTEM", "PS_ONLY", "APU_ONLY"}
  /\ ErrorStatus \in {"RUNNING", "COMPLETED", "ERROR"}
  /\ {swdt, wdt, EarlyHandoff, RunningCpuHandoffAddressPresent, overRecord, skewed} \subseteq BOOLEAN
  /\ cpu \in [Cpus -> {"reset", "running", "disturbed"}]
  /\ pl \in 0..NoPl /\ r5Used \subseteq R5 /\ stage \in Stages
  /\ PartitionNum \in Nat /\ HandoffValues \in Seq(Cpus)
  /\ CpuIndexEarlyHandoff \in Nat /\ CpuIndex \in 0..Len(HandoffValues)
  /\ loaded \subseteq Nat /\ resets \in 0..MaxResets

\* The FSBL ended as it does when all went well.
Booted == stage \in {"Exited", "Idle"} /\ BootMode = "flash"

Owned(i) == parts[i].fsbl

\* Partition i belongs to the application of c.
PartOf(i, c) == Owned(i) /\ parts[i].dev = "PS" /\ Destination(parts[i]) = c

\* Early handoff does what it is for when the partitions that name an R5 follow
\* one another for each, are programs, all the FSBL's own, and the FSBL runs on
\* the APU and was not restarted alone.
EarlyUsable ==
  /\ self = "A0" /\ ~ApuOnly
  /\ \A i, j \in DOMAIN parts :
        /\ parts[i].cpu \in R5 => Owned(i) /\ parts[i].dev = "PS"
        /\ parts[i].cpu \in R5 /\ parts[i].cpu = parts[j].cpu /\ i < j
             => \A k \in i..j : parts[k].cpu = parts[i].cpu

\* A restart of the APU alone only loads partitions that name an A53 CPU.
RestartUsable == ApuOnly => \A i \in DOMAIN parts : parts[i].cpu = "none" => parts[i].dev = "PL"

Usable == ~skewed /\ (early => EarlyUsable) /\ RestartUsable

\* Does the image have something for c?
HasApplication(c) == \E i \in DOMAIN parts : PartOf(i, c)

\* A CPU runs only once every partition of its application is in memory: also
\* when it is handed off early, while partitions of others still load.
ReleasedAreLoaded ==
  Usable => \A c \in Cpus, i \in DOMAIN parts :
               cpu[c] # "reset" /\ PartOf(i, c) => i \in loaded

\* When the FSBL is done, every CPU the image has an application for runs it:
\* early handoffs come back to the loading and skip no CPU.  And the R5 usage
\* register that the PMU firmware reads names every R5 that runs, although each
\* boot clears it and marks it anew.
EveryCpuReleased == \A c \in Cpus : HasApplication(c) => cpu[c] # "reset"
RunningR5Marked == {c \in R5 : cpu[c] # "reset"} \subseteq r5Used
CompleteHandoff == Booted /\ Usable => EveryCpuReleased /\ RunningR5Marked

\* The PL holds the bitstream of the image that booted, never another's, also
\* when a PS-only or APU-only reset made the FSBL skip it or a fallback changed
\* the image.  Only a PS-only reset before the PL was ever loaded leaves it empty.
PlMatchesImage ==
  Booted /\ Usable /\ (\E i \in DOMAIN parts : Owned(i) /\ parts[i].dev = "PL")
    => pl = multiboot \/ (pl = NoPl /\ ResetReason # "SYSTEM")

\* The fallback passes over no good image, whatever hangs, fails and is reset, unless
\* a reset has been asked for while an earlier watchdog reset was still on record:
\* Initialize may take that one for another and fail with a good image.
GoodNeverSkipped ==
  ~overRecord /\ BootMode = "flash"
    => \A i \in 0..(Slots - 1) : i < multiboot => ~flash[i].good

\* A boot leaves what runs alone: no CPU is taken out of reset a second time
\* while it runs, however early and regular handoffs share the list and its
\* index, and a restart of the APU touches neither the R5s nor the PL, unless the
\* header of a bitstream names an A53.
BitstreamOfA53 == \E i \in DOMAIN parts : parts[i].dev = "PL" /\ parts[i].cpu \in A53
RunningUndisturbed ==
  [][/\ \A c \in Cpus : cpu'[c] # "disturbed"
     /\ ApuOnly /\ ApuOnly' => \A c \in R5 : cpu'[c] = cpu[c]
     /\ ApuOnly /\ ApuOnly' /\ ~BitstreamOfA53 => pl' = pl]_vars

\* Where there is a good image left a system with a watchdog boots, through errors
\* and hangs of the images before it, unless another reset is asked for meanwhile,
\* from any start at which no watchdog reset is on record.
GoodImageLeft == \E i \in multiboot..(Slots - 1) : flash[i].good
FallbackBoots ==
  \A r \in 0..MaxResets :
    (stage = "Rom" /\ BootMode = "flash" /\ WdtPresent /\ GoodImageLeft
       /\ ~swdt /\ resets = r)
      ~> (Booted \/ resets # r)
=============================================================================
