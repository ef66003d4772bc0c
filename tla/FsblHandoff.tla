----------------------------- MODULE FsblHandoff ----------------------------
(***************************************************************************)
(* The handoff to the CPUs of an image FsblPartition has loaded: the       *)
(* registers that tell a CPU where to start and in which state, its        *)
(* release, and the exit to the application of the running CPU             *)
(* (xfsbl_handoff.c).  FsblBoot has which CPUs are released, and when;     *)
(* early handoff, which this FSBL does not have, is only there.            *)
(*                                                                         *)
(* The registers are those of the APU and the RPU; a CPU starts with what  *)
(* they hold when it is released.                                          *)
(***************************************************************************)
EXTENDS FsblPartition

VARIABLES
  handoff,      \* where XFsbl_Handoff is: "Loading", "Cpus", "Exited" or "Err"
  CpuIndex,
  regs,         \* by CPU: its AA64N32 bit as aa32, VINITHI and RVBARADDR
  RpuMode,      \* SLSPLIT of RPU_GLBL_CNTL: "split" or "lockstep"
  RunningCpuHandoff,    \* the handoff address of the running CPU, with its presence
  released      \* the CPUs that run an application

handoffVars == <<handoff, CpuIndex, regs, RpuMode, RunningCpuHandoff, released>>

R5 == {"R0", "R1", "RL"}
HiVec == 131070                 \* 0xFFFF0000

\* After a reset the R5s have high vectors and lockstep.
HandoffInit ==
  /\ Init
  /\ handoff = "Loading" /\ CpuIndex = 1 /\ RpuMode = "lockstep" /\ released = {}
  /\ regs = [c \in A53 \cup R5 |-> [aa32 |-> FALSE, VINITHI |-> c \in R5, RVBAR |-> 0]]
  /\ RunningCpuHandoff = [present |-> FALSE, address |-> 0]

Loading == /\ handoff = "Loading" /\ Next
           /\ UNCHANGED handoffVars

\* The PM firmware is told the configuration, the protection is set up.
BeginHandoff ==
  /\ handoff = "Loading" /\ stage = "Done"
  /\ handoff' \in {"Cpus", "Err"}
  /\ UNCHANGED <<vars, CpuIndex, regs, RpuMode, RunningCpuHandoff, released>>

-----------------------------------------------------------------------------
(* One turn of the loop over HandoffValues.                                *)

Entry == image[HandoffValues[CpuIndex]]
HandoffCpu == DestinationCpu(Entry)
HandoffAddress == IF Entry.exec THEN Entry.load ELSE 0

\* XFsbl_Is32BitCpu.
Is32BitCpu == HandoffCpu \in R5 \/ Entry.aa32

\* XFsbl_UpdateResetVector: the vector location comes from the header of the last
\* partition, and the handoff address is for 64-bit CPUs.
\* Mutant: only the exec state is looked at.
UpdateResetVectorByState ==
  [regs[HandoffCpu] EXCEPT !.VINITHI = IF Entry.aa32 THEN Header.hivec ELSE @,
                           !.RVBAR = IF Is32BitCpu THEN @ ELSE HandoffAddress]
UpdateResetVector ==
  [regs[HandoffCpu] EXCEPT !.VINITHI = IF Is32BitCpu THEN Header.hivec ELSE @,
                           !.RVBAR = IF Is32BitCpu THEN @ ELSE HandoffAddress]

\* XFsbl_SetCpuPwrSettings: the state of an A53, the mode of the RPU, and the release.
SetCpuPwrSettings ==
  /\ regs' = [regs EXCEPT ![HandoffCpu] =
                [UpdateResetVector EXCEPT !.aa32 = @ \/ (HandoffCpu \in A53 /\ Entry.aa32)]]
  /\ RpuMode' = CASE HandoffCpu \in {"R0", "R1"} -> "split"
                  [] HandoffCpu = "RL" -> "lockstep"
                  [] OTHER -> RpuMode
  /\ released' = released \cup {HandoffCpu}

HandoffOtherCpu ==
  /\ handoff = "Cpus" /\ CpuIndex <= Len(HandoffValues)
  /\ HandoffCpu \in (A53 \cup R5) \ {RunningCpu}
  /\ SetCpuPwrSettings
  /\ CpuIndex' = CpuIndex + 1
  /\ UNCHANGED <<vars, handoff, RunningCpuHandoff>>

\* A device may lack a CPU, and no partition runs on the PMU after the handoff.
HandoffRefused ==
  /\ handoff = "Cpus" /\ CpuIndex <= Len(HandoffValues) /\ HandoffCpu # RunningCpu
  /\ handoff' = "Err"
  /\ UNCHANGED <<vars, CpuIndex, regs, RpuMode, RunningCpuHandoff, released>>

\* The FSBL is a 64-bit program; it cannot hand its own CPU over in 32 bits.
HandoffRunningCpu ==
  /\ handoff = "Cpus" /\ CpuIndex <= Len(HandoffValues) /\ HandoffCpu = RunningCpu
  /\ RunningCpuHandoff' = [present |-> TRUE, address |-> HandoffAddress]
  /\ IF Entry.aa32 THEN handoff' = "Err" /\ UNCHANGED CpuIndex
                   ELSE CpuIndex' = CpuIndex + 1 /\ UNCHANGED handoff
  /\ UNCHANGED <<vars, regs, RpuMode, released>>

\* XFsbl_HandoffExit: a jump, or sleep.
HandoffExit ==
  /\ handoff = "Cpus" /\ CpuIndex > Len(HandoffValues)
  /\ handoff' = "Exited"
  /\ released' = IF RunningCpuHandoff.present THEN released \cup {RunningCpu} ELSE released
  /\ UNCHANGED <<vars, CpuIndex, regs, RpuMode, RunningCpuHandoff>>

Handoff == BeginHandoff \/ HandoffOtherCpu \/ HandoffRefused \/ HandoffRunningCpu \/ HandoffExit

HandoffNext == Loading \/ Handoff

HandoffSpec ==
  /\ HandoffInit /\ [][HandoffNext]_<<vars, handoffVars>>
  /\ WF_vars(Load) /\ WF_vars(PmuSleeps) /\ WF_vars(PmuStarts)

-----------------------------------------------------------------------------
\* Every variable has its type.
HandoffTypeOK ==
  /\ TypeOK
  /\ handoff \in {"Loading", "Cpus", "Exited", "Err"} /\ CpuIndex \in 1..Len(HandoffValues)+1
  /\ regs \in [A53 \cup R5 -> [aa32 : BOOLEAN, VINITHI : BOOLEAN, RVBAR : Nat]]
  /\ RpuMode \in {"split", "lockstep"} /\ released \subseteq A53 \cup R5
  /\ RunningCpuHandoff \in [present : BOOLEAN, address : Nat]

\* Where a CPU that is released starts.
Vectors(c, hivec) == CASE hivec -> HiVec
                       [] ~hivec /\ c \in {"R0", "RL"} -> R50High
                       [] ~hivec /\ c = "R1" -> R51High
                       [] ~hivec /\ c \in A53 -> 0
Start(c) == CASE c = RunningCpu -> RunningCpuHandoff.address
              [] c # RunningCpu /\ (c \in R5 \/ regs[c].aa32) -> Vectors(c, regs[c].VINITHI)
              [] OTHER -> regs[c].RVBAR

\* The application of a CPU, and the partition it begins with.
Application(c) == {i \in DOMAIN image : /\ ~NotPartitionOwner(image[i])
                                        /\ image[i].dev = "PS" \/ Xip(image[i])
                                        /\ DestinationCpu(image[i]) = c}
First(c) == image[CHOOSE i \in Application(c) : \A j \in Application(c) : i <= j]

\* Was it built to start?  A 64-bit application starts at the entry of its first
\* partition; a 32-bit one has its vectors in one of its partitions, where the header
\* of the first says, and the last header of the image must say the same.
Startable(c) ==
  /\ \A i \in Application(c) : ~Xip(image[i])
  /\ IF c \in R5 \/ First(c).aa32
       THEN /\ \E i \in Application(c) : Vectors(c, First(c).hivec) \in Region(image[i])
            /\ image[Len(image)].hivec = First(c).hivec
       ELSE First(c).exec

\* Lockstep and split mode are not mixed in one image.
OneRpuMode == Application("RL") = {} \/ Application("R0") \cup Application("R1") = {}

\* A CPU that is released starts in its own application, intact in memory, in the
\* state this was built for, and the RPU is in the mode of the R5s that run.
StartsInItsApplication ==
  \A c \in released :
    /\ Disjoint /\ TcmInOrder /\ Startable(c) =>
         \E i \in Application(c) : Start(c) \in Region(image[i]) /\ Intact(i)
    /\ c \in A53 => regs[c].aa32 = First(c).aa32
    /\ OneRpuMode /\ c \in R5 => RpuMode = IF c = "RL" THEN "lockstep" ELSE "split"
=============================================================================
