---------------------------- MODULE FsblPartition ---------------------------
(***************************************************************************)
(* The loading of the partitions of a boot image by the FSBL, as it is     *)
(* built for an A53: header validation, load address, TCM initialization,  *)
(* the handshake with the PMU, the copy, the checks on the copy, bitstream *)
(* and handoff entry (xfsbl_partition_load.c, xfsbl_image_header.c).       *)
(* FsblBoot has all this as the one action LoadPartition.                  *)
(*                                                                         *)
(* Memory is addressed in units of 32 KB, half a TCM bank.  The content of *)
(* a unit is the partition it was copied from and whether it is as it was  *)
(* stored in the image or decrypted.                                       *)
(***************************************************************************)
EXTENDS Naturals, Sequences, FiniteSets

CONSTANTS
  Images,       \* the partition lists an image may have
  DdrUnits      \* the size of the DDR, XPAR_PSU_DDR_0_S_AXI_HIGHADDR

\* The memory map of xfsbl_hw.h.
Bank == 2                       \* XFSBL_R5_TCM_BANK_LENGTH
BTcm == 4                       \* XFSBL_R5_BTCM_START_ADDRESS
R50High == 131008               \* XFSBL_R50_HIGH_ATCM_START_ADDRESS
R51High == 131026               \* XFSBL_R51_HIGH_ATCM_START_ADDRESS
PmuRam0 == 131000               \* XFSBL_PMU_RAM_START_ADDRESS
PmuRam == PmuRam0..PmuRam0+3
Ocm == 131070..131071
DdrTemp == 32                   \* XFSBL_DDR_TEMP_ADDRESS
DummyPl == 131072               \* XFSBL_DUMMY_PL_ADDR

RunningCpu == "A0"
A53 == {"A0", "A1"}
Cpus == A53 \cup {"R0", "R1", "RL", "PMU"}
Headers == [cpu : Cpus \cup {"none"}, dev : {"PS", "PL"}, load : Nat, len : Nat,
            exec : BOOLEAN, auth : BOOLEAN, enc : BOOLEAN,
            sum : {"none", "MD5", "SHA3"}, fsbl : BOOLEAN,
            aa32 : BOOLEAN, hivec : BOOLEAN]

\* The DDR ends below the memories of the processors.
ASSUME PartitionAssumption ==
  /\ DdrUnits \in 0..PmuRam0
  /\ Images \subseteq Seq(Headers) /\ \A im \in Images : Len(im) >= 1

VARIABLES
  image, ResetReason,           \* fixed
  corrupt,      \* the partitions that are not as they were built (fixed)
  stage,        \* where XFsbl_PartitionLoad is, "Done" or "Err"
  PartitionNum,
  mem,          \* the units written so far
  pl,           \* the partition the PL was configured with, 0 for none
  HandoffValues,        \* the partitions of FsblInstance.HandoffValues
  TcmEccInitStatus,     \* its bits, by the R5 they stand for
  pmu,          \* the PMU MicroBlaze: "asleep" (MB_SLEEP) or "awake"
  ipi,          \* PMU_0 of IPI_PMU_0_TRIG
  pmuFw,        \* the PMU firmware: "none", "starting" or "present"
  inited        \* history: the R5s whose TCM was initialized

fixedVars == <<image, ResetReason, corrupt>>
tcmVars == <<TcmEccInitStatus, inited>>
pmuVars == <<pmu, ipi, pmuFw>>
vars == <<fixedVars, stage, PartitionNum, mem, pl, HandoffValues, tcmVars, pmuVars>>

Header == image[PartitionNum]
Stages == {"Header", "Copy", "Read", "Validate", "CheckPmuFw", "PmuStarting", "Done", "Err"}

Init == /\ image \in Images /\ ResetReason \in {"SYSTEM", "PS_ONLY", "APU_ONLY"}
        /\ corrupt \in {c \in SUBSET DOMAIN image : Cardinality(c) <= 1}
        /\ stage = "Header" /\ PartitionNum = 1
        /\ mem = <<>> /\ pl = 0 /\ HandoffValues = <<>>
        /\ TcmEccInitStatus = {} /\ inited = {}
        /\ pmu \in {"asleep", "awake"} /\ ipi = FALSE /\ pmuFw = "none"

\* Mutant: one partition too many.
NextPartitionTooFar ==
  IF PartitionNum <= Len(image)
    THEN PartitionNum' = PartitionNum + 1 /\ stage' = "Header"
    ELSE stage' = "Done" /\ UNCHANGED PartitionNum
NextPartition ==
  IF PartitionNum < Len(image)
    THEN PartitionNum' = PartitionNum + 1 /\ stage' = "Header"
    ELSE stage' = "Done" /\ UNCHANGED PartitionNum

Goto(s) == stage' = s /\ UNCHANGED PartitionNum

DestinationCpu(p) == IF p.cpu = "none" THEN RunningCpu ELSE p.cpu

\* A partition without data is executed in place, in the flash.
Xip(p) == p.len = 0

-----------------------------------------------------------------------------
(* XFsbl_PartitionHeaderValidation.                                        *)

NotPartitionOwner(p) == ~p.fsbl \/ (ResetReason = "APU_ONLY" /\ p.cpu \notin A53)

\* The part of the TCM a CPU addresses, from 0 on, in its own view.
TcmOf(c) == CASE c \in {"R0", "R1"} -> (0..Bank-1) \cup (BTcm..BTcm+Bank-1)
              [] c = "RL" -> 0..4*Bank-1
              [] OTHER -> {}

\* XFsbl_CheckValidMemoryAddress looks at the first unit only.
ValidMemoryAddress(p) ==
  \/ DestinationCpu(p) = "PMU" /\ p.load \in PmuRam
  \/ p.load \in TcmOf(DestinationCpu(p)) \cup Ocm
  \/ p.load < DdrUnits
  \/ p.dev = "PL" /\ p.load = DummyPl

\* XFsbl_ValidatePartitionHeader.  What remains to be refused in a header (its
\* own checksum, lengths that do not agree, unknown types) is a call that fails.
ValidPartitionHeader(p) == ValidMemoryAddress(p) /\ (Xip(p) => ~p.auth /\ ~p.enc)

HeaderValidation ==
  /\ stage = "Header"
  /\ \/ NotPartitionOwner(Header) /\ NextPartition
     \/ /\ ~NotPartitionOwner(Header)
        /\ Goto(IF ValidPartitionHeader(Header) THEN "Copy" ELSE "Err")
  /\ UNCHANGED <<fixedVars, mem, pl, HandoffValues, tcmVars, pmuVars>>

-----------------------------------------------------------------------------
(* XFsbl_PartitionCopy up to the wait for the PMU.                         *)

InTcm(p) == p.load \in TcmOf(DestinationCpu(p))

\* XFsbl_GetLoadAddress: where the partition goes, the bitstream's staging
\* area included.
LoadAddress(p) ==
  CASE p.dev = "PL" /\ p.load = DummyPl -> DdrTemp
    [] InTcm(p) /\ DestinationCpu(p) = "R1" -> R51High + p.load
    [] InTcm(p) /\ DestinationCpu(p) # "R1" -> R50High + p.load
    [] OTHER -> p.load
Region(p) == LoadAddress(p)..(LoadAddress(p) + p.len - 1)

\* As it is stored: encryption adds to the length.
CopyRegion(p) == Region(p) \cup (IF p.enc THEN {LoadAddress(p) + p.len} ELSE {})

\* Does the length fit the TCM?  The copy leaves the certificate out, which the
\* check of the copy includes; encryption adds to both.
Fits(p, certificate) ==
  LET capacity == IF DestinationCpu(p) = "RL" THEN 4 * Bank ELSE Bank
  IN  InTcm(p) => \/ p.len < capacity
                  \/ p.len = capacity /\ ~p.enc /\ ~(certificate /\ p.auth)

Write(units, content) ==
  mem' = [a \in units \cup DOMAIN mem |-> IF a \in units THEN content ELSE mem[a]]

TcmBits(c) == IF c = "RL" THEN {"R0", "R1"} ELSE {c}

TcmUnits(c) == CASE c = "R0" -> {R50High + a : a \in TcmOf("R0")}
                 [] c = "R1" -> {R51High + a : a \in TcmOf("R1")}
                 [] c = "RL" -> {R50High + a : a \in TcmOf("RL")}

\* XFsbl_TcmEccInit fills the TCM of c, and sets the status to its bits.
TcmEccInit(c) == /\ Write(TcmUnits(c), <<0, "ecc">>)
                 /\ TcmEccInitStatus' = TcmBits(c)
                 /\ inited' = inited \cup TcmBits(c)

\* Mutant: the status is not consulted.
NeedsEccInitAlways(c) == TRUE
NeedsEccInit(c) == ~(TcmBits(c) \subseteq TcmEccInitStatus)

\* XFsbl_ConfigureMemory.
ConfigureMemory(p) ==
  IF InTcm(p) /\ NeedsEccInit(p.cpu) THEN TcmEccInit(p.cpu)
                                     ELSE UNCHANGED <<mem, tcmVars>>

CheckHandoffCpu(c) ==
  \A k \in DOMAIN HandoffValues : DestinationCpu(image[HandoffValues[k]]) # c
AddHandoff == HandoffValues' = IF CheckHandoffCpu(DestinationCpu(Header))
                                 THEN Append(HandoffValues, PartitionNum)
                                 ELSE HandoffValues

\* The PL keeps its configuration over a PS-only reset.
PlKept(p) == p.dev = "PL" /\ ResetReason = "PS_ONLY"

\* The first partition of the PMU firmware has an entry address.  A PMU that
\* sleeps already has nothing to do for the interrupt.
AskForSleep(p) == ipi' = (ipi \/ (p.cpu = "PMU" /\ p.exec /\ pmu = "awake"))

PartitionCopy ==
  /\ stage = "Copy"
  /\ \/ /\ Xip(Header)
        /\ AddHandoff /\ Goto("Validate")
        /\ UNCHANGED <<mem, tcmVars, ipi>>
     \/ /\ ~Xip(Header) /\ PlKept(Header)
        /\ Goto("Validate") /\ UNCHANGED <<mem, tcmVars, ipi, HandoffValues>>
     \/ /\ ~Xip(Header) /\ ~PlKept(Header) /\ Fits(Header, FALSE)
        /\ ConfigureMemory(Header) /\ AskForSleep(Header)
        /\ Goto("Read") /\ UNCHANGED HandoffValues
     \/ /\ ~Xip(Header) /\ ~PlKept(Header) /\ ~Fits(Header, FALSE)
        /\ Goto("Err") /\ UNCHANGED <<mem, tcmVars, ipi, HandoffValues>>
  /\ UNCHANGED <<fixedVars, pl, pmu, pmuFw>>

-----------------------------------------------------------------------------
(* The wait for the PMU, and DeviceCopy.                                   *)

Stored(i) == <<i, IF image[i].enc THEN "stored" ELSE "plain">>

\* Mutant: the wait for MB_SLEEP is missing.
PmuReadyAtOnce(p) == TRUE
PmuReady(p) == p.cpu = "PMU" => pmu = "asleep"

DeviceCopy ==
  /\ stage = "Read" /\ PmuReady(Header)
  /\ Write(CopyRegion(Header), Stored(PartitionNum))
  /\ Goto("Validate")
  /\ UNCHANGED <<fixedVars, pl, HandoffValues, tcmVars, pmuVars>>

-----------------------------------------------------------------------------
(* XFsbl_PartitionValidation.                                              *)

\* What a hash, a signature or an authentication tag over the copy finds.
Genuine(i) == /\ i \notin corrupt
              /\ \A a \in CopyRegion(image[i]) : mem[a] = Stored(i)

Secured(p) == p.auth \/ p.enc \/ p.sum # "none"

\* XFsbl_CalcualteCheckSum only knows SHA3.
ChecksPass(i) ==
  LET p == image[i]
  IN  /\ Secured(p) => Fits(p, TRUE) /\ Genuine(i)
      /\ p.sum # "MD5"

\* XSecure_AesDecrypt, in place, but to the PCAP for a bitstream.
Decrypt == IF Header.enc /\ Header.dev = "PS"
             THEN Write(Region(Header), <<PartitionNum, "plain">>)
             ELSE UNCHANGED mem

PartitionValidation ==
  /\ stage = "Validate"
  /\ \/ /\ PlKept(Header)
        /\ Goto("CheckPmuFw") /\ UNCHANGED <<mem, pl, HandoffValues>>
     \/ /\ ~PlKept(Header) /\ ChecksPass(PartitionNum)
        /\ Decrypt
        /\ pl' = IF Header.dev = "PL" THEN PartitionNum ELSE pl
        /\ IF Header.dev # "PL" /\ DestinationCpu(Header) # "PMU"
             THEN AddHandoff ELSE UNCHANGED HandoffValues
        /\ Goto("CheckPmuFw")
     \/ /\ ~PlKept(Header) /\ ~ChecksPass(PartitionNum)
        /\ pl' = IF Header.dev = "PL" THEN 0 ELSE pl
        /\ Goto("Err") /\ UNCHANGED <<mem, HandoffValues>>
  /\ UNCHANGED <<fixedVars, tcmVars, pmuVars>>

\* Any call may fail: a read, powering up memory, the PCAP.
CallFails ==
  /\ stage \in {"Header", "Copy", "Read", "Validate"}
  /\ Goto("Err")
  /\ \/ UNCHANGED pl
     \/ stage = "Validate" /\ Header.dev = "PL" /\ pl' = 0
  /\ UNCHANGED <<fixedVars, mem, HandoffValues, tcmVars, pmuVars>>

-----------------------------------------------------------------------------
(* XFsbl_CheckPmuFw.                                                       *)

\* Mutant: the next partition is not looked at.
PmuFwLoadDoneEach == Header.cpu = "PMU"
PmuFwLoadDone == /\ Header.cpu = "PMU"
                 /\ PartitionNum < Len(image) => image[PartitionNum + 1].cpu # "PMU"

CheckPmuFw ==
  /\ stage = "CheckPmuFw"
  /\ IF PmuFwLoadDone
       THEN Goto("PmuStarting") /\ pmu' = "awake" /\ pmuFw' = "starting"
       ELSE NextPartition /\ UNCHANGED <<pmu, pmuFw>>
  /\ UNCHANGED <<fixedVars, mem, pl, HandoffValues, tcmVars, ipi>>

\* The wait for FW_IS_PRESENT.
PmuWokenUp ==
  /\ stage = "PmuStarting" /\ pmuFw = "present"
  /\ NextPartition
  /\ UNCHANGED <<fixedVars, mem, pl, HandoffValues, tcmVars, pmuVars>>

-----------------------------------------------------------------------------
(* The PMU (external): it goes to sleep when asked, and sets FW_IS_PRESENT *)
(* when its firmware is up.                                                *)

PmuSleeps == /\ ipi /\ pmu = "awake" /\ pmu' = "asleep" /\ ipi' = FALSE
             /\ UNCHANGED <<fixedVars, stage, PartitionNum, mem, pl, HandoffValues,
                            tcmVars, pmuFw>>

PmuStarts == /\ pmu = "awake" /\ pmuFw = "starting" /\ pmuFw' = "present"
             /\ UNCHANGED <<fixedVars, stage, PartitionNum, mem, pl, HandoffValues,
                            tcmVars, pmu, ipi>>

Load == HeaderValidation \/ PartitionCopy \/ DeviceCopy \/ PartitionValidation
          \/ CheckPmuFw \/ PmuWokenUp

Next == Load \/ CallFails \/ PmuSleeps \/ PmuStarts

\* The FSBL runs, and the PMU answers.
Spec == /\ Init /\ [][Next]_vars
        /\ WF_vars(Load) /\ WF_vars(PmuSleeps) /\ WF_vars(PmuStarts)

-----------------------------------------------------------------------------
\* Every variable has its type.
TypeOK ==
  /\ image \in Images /\ ResetReason \in {"SYSTEM", "PS_ONLY", "APU_ONLY"}
  /\ corrupt \subseteq DOMAIN image /\ stage \in Stages /\ PartitionNum \in DOMAIN image
  /\ \A a \in DOMAIN mem : mem[a] \in (DOMAIN image \cup {0}) \X {"ecc", "stored", "plain"}
  /\ pl \in DOMAIN image \cup {0}
  /\ HandoffValues \in Seq(DOMAIN image) /\ Len(HandoffValues) <= Cardinality(Cpus)
  /\ TcmEccInitStatus \subseteq {"R0", "R1"} /\ inited \subseteq {"R0", "R1"}
  /\ pmu \in {"asleep", "awake"} /\ ipi \in BOOLEAN
  /\ pmuFw \in {"none", "starting", "present"}

\* The partitions the FSBL copies, and those that stay in memory.
Copied == {i \in DOMAIN image :
             ~NotPartitionOwner(image[i]) /\ ~Xip(image[i]) /\ ~PlKept(image[i])}
Kept == {i \in Copied : image[i].dev = "PS"}

\* No partition is copied over one that must stay.
Disjoint == \A i \in Kept, j \in Copied :
              i < j => Region(image[i]) \cap CopyRegion(image[j]) = {}

\* The TCM partitions of an R5 follow one another, those of the other R5 before
\* or after, lockstep is not mixed with split mode, and what is loaded elsewhere
\* does not run into a TCM.
TcmInOrder ==
  /\ \A i \in Kept, j \in Copied :
       i < j /\ InTcm(image[i]) /\ InTcm(image[j]) /\ image[i].cpu # image[j].cpu
         => /\ "RL" \notin {image[i].cpu, image[j].cpu}
            /\ \A k \in Copied : k > j /\ InTcm(image[k]) => image[k].cpu # image[i].cpu
  /\ \A i \in Kept : ~InTcm(image[i]) =>
       Region(image[i]) \cap (TcmUnits("RL") \cup TcmUnits("R1")) = {}

Intact(i) == \A a \in Region(image[i]) : mem[a] = <<i, "plain">>

\* When all are loaded, each partition is in memory as it was built: no later
\* copy, staging of a bitstream, decryption or TCM initialization has touched
\* it, and one with a checksum or a signature is not corrupt.
LoadedIntact ==
  stage = "Done" /\ Disjoint /\ TcmInOrder =>
    \A i \in Kept : Intact(i) /\ (Secured(image[i]) => i \notin corrupt)

\* What is loaded elsewhere does not run into the RAM of the PMU.
PmuRamApart == \A i \in Copied : image[i].cpu # "PMU" => CopyRegion(image[i]) \cap PmuRam = {}

\* The RAM of the PMU is only written while its processor sleeps.
PmuRamWritten == \E a \in DOMAIN mem' \cap PmuRam : a \notin DOMAIN mem \/ mem'[a] # mem[a]
PmuRamQuiet == [][PmuRamApart /\ PmuRamWritten => pmu = "asleep"]_vars

\* The firmware of the PMU is one ELF: partitions that follow one another, all
\* for the FSBL, the first with an entry address.
PmuPartitions == {i \in DOMAIN image : image[i].cpu = "PMU"}
PmuOneElf ==
  \A i \in PmuPartitions :
    /\ image[i].fsbl /\ ~Xip(image[i])
    /\ \A j \in PmuPartitions : i < j => i + 1 \in PmuPartitions
    /\ image[i].exec <=> i - 1 \notin PmuPartitions

\* The loading ends, although it waits for the PMU twice: in an error, or with
\* the PMU firmware running if the image has one.
LoadEnds ==
  PmuOneElf => <>(\/ stage = "Err"
                  \/ stage = "Done" /\ (PmuPartitions \cap Copied # {} => pmuFw = "present"))

\* xfsbl_main.h:103, "Bits 0, 1 indicate TCM ECC Init status": a bit tells
\* whether the TCM of its R5 was initialized.
EccStatusTells == inited \subseteq TcmEccInitStatus
=============================================================================
