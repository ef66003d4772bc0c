-------------------------- MODULE FsblHandoffProof --------------------------
(***************************************************************************)
(* Proofs about the loading of an image and the handoff to its CPUs, for   *)
(* images of any number of partitions of any length.                       *)
(***************************************************************************)
EXTENDS FsblHandoff, FiniteSetTheorems, TLAPS

-----------------------------------------------------------------------------
(* The loading.                                                            *)

\* The loading of partition i is over, or at least its place is ready.
Over(i) == \/ i < PartitionNum
           \/ i = PartitionNum /\ stage \in {"CheckPmuFw", "PmuStarting", "Done"}
Placed(i) == Over(i) \/ (i = PartitionNum /\ stage \in {"Read", "Validate"})

\* What the FSBL has found out about the partition it is at.
Current ==
  /\ stage \in {"Copy", "Read", "Validate"} =>
       ~NotPartitionOwner(Header) /\ ValidPartitionHeader(Header)
  /\ stage = "Read" => PartitionNum \in Copied
  /\ stage = "Done" => PartitionNum = Len(image)

\* Between the copy and the checks nothing else is written, and a PMU that is
\* being loaded stays asleep.
CopyComplete ==
  stage = "Validate" /\ PartitionNum \in Copied =>
    /\ \A a \in CopyRegion(Header) : a \in DOMAIN mem /\ mem[a] = Stored(PartitionNum)
    /\ Header.cpu = "PMU" => pmu = "asleep"

\* What is placed has passed the checks of the header and the length.
Checked == \A i \in Copied : Placed(i) => ValidPartitionHeader(image[i]) /\ Fits(image[i], FALSE)

\* The status has the bits of the R5 whose TCM was used last.
LastTcm(i) == /\ i \in Copied /\ Placed(i) /\ InTcm(image[i])
              /\ \A k \in Copied : k > i /\ Placed(k) /\ InTcm(image[k]) => image[k].cpu = image[i].cpu
TcmReady ==
  stage # "Err" => \A i \in Copied : LastTcm(i) => TcmBits(image[i].cpu) \subseteq TcmEccInitStatus

\* Whatever is loaded is still intact, at every moment.
KeptIntact ==
  Disjoint /\ TcmInOrder =>
    \A i \in Kept : Over(i) => /\ Region(image[i]) \subseteq DOMAIN mem /\ Intact(i)
                               /\ Secured(image[i]) => i \notin corrupt

LoadInv == TypeOK /\ Current /\ CopyComplete /\ Checked /\ TcmReady /\ KeptIntact

-----------------------------------------------------------------------------
(* The entries for the handoff.                                            *)

EntryCpu(k) == DestinationCpu(image[HandoffValues[k]])

\* An entry is for the first partition of the application of its CPU.
EntryIsFirst ==
  \A k \in DOMAIN HandoffValues :
    /\ HandoffValues[k] \in Application(EntryCpu(k))
    /\ EntryCpu(k) # "PMU" => \A j \in Application(EntryCpu(k)) : HandoffValues[k] <= j

\* A CPU has one entry, and has it once a partition of its application is loaded;
\* one that is executed in place is entered before its checks.
OneEntry == \A k, l \in DOMAIN HandoffValues : EntryCpu(k) = EntryCpu(l) => k = l
Entered(i) == Over(i) \/ (i = PartitionNum /\ stage = "Validate" /\ Xip(image[i]))
HasEntry ==
  \A c \in Cpus \ {"PMU"} : \A i \in Application(c) :
    Entered(i) => \E k \in DOMAIN HandoffValues : EntryCpu(k) = c

EntryInv == EntryIsFirst /\ OneEntry /\ HasEntry

-----------------------------------------------------------------------------
(* The handoff.                                                            *)

\* The loop has passed the entry of c.
Passed(c) == \E k \in DOMAIN HandoffValues : k < CpuIndex /\ EntryCpu(k) = c

Built32(c) == c \in R5 \/ First(c).aa32
FirstAddress(c) == IF First(c).exec THEN First(c).load ELSE 0

\* A CPU out of reset has the registers its first partition asks for.
RegsOfFirst ==
  /\ \A c \in released \ {RunningCpu} :
       /\ regs[c].aa32 = (c \in A53 /\ First(c).aa32)
       /\ Built32(c) => regs[c].VINITHI = image[Len(image)].hivec
       /\ ~Built32(c) => regs[c].RVBAR = FirstAddress(c)
  /\ \A c \in A53 \cup R5 : (c = RunningCpu \/ ~Passed(c)) => ~regs[c].aa32

RunningOfFirst ==
  /\ RunningCpu \in released => handoff = "Exited" /\ RunningCpuHandoff.present
  /\ RunningCpuHandoff.present /\ handoff # "Err" =>
       /\ Passed(RunningCpu) /\ ~First(RunningCpu).aa32
       /\ RunningCpuHandoff.address = FirstAddress(RunningCpu)

RpuOfReleased ==
  /\ "RL" \in released /\ released \cap {"R0", "R1"} = {} => RpuMode = "lockstep"
  /\ "RL" \notin released /\ released \cap {"R0", "R1"} # {} => RpuMode = "split"

HandoffInv ==
  /\ HandoffTypeOK
  /\ handoff = "Loading" => CpuIndex = 1
  /\ handoff # "Loading" => stage = "Done"
  /\ \A c \in released : Passed(c)
  /\ RegsOfFirst /\ RunningOfFirst /\ RpuOfReleased

IInv == LoadInv /\ EntryInv /\ HandoffInv

-----------------------------------------------------------------------------
(* Facts about images, regions and the TCM.                                *)

\* What the types say about a header and the place it asks for.
LEMMA HeaderFacts ==
  ASSUME NEW p \in Headers
  PROVE  /\ DestinationCpu(p) \in Cpus /\ p.load \in Nat /\ p.len \in Nat
         /\ InTcm(p) => DestinationCpu(p) = p.cpu /\ p.cpu \in R5
         /\ LoadAddress(p) \in Nat
         /\ Region(p) \subseteq CopyRegion(p) /\ CopyRegion(p) \subseteq Nat
         /\ (Region(p) = {}) <=> Xip(p)
<1>1. DestinationCpu(p) \in Cpus /\ p.load \in Nat /\ p.len \in Nat
  BY DEF Headers, DestinationCpu, Cpus, A53, RunningCpu
<1>2. InTcm(p) => DestinationCpu(p) = p.cpu /\ p.cpu \in R5
  BY DEF Headers, DestinationCpu, InTcm, TcmOf, R5, RunningCpu
<1>3. LoadAddress(p) \in Nat
  BY <1>1 DEF LoadAddress, DdrTemp, R50High, R51High
<1>4. Region(p) \subseteq CopyRegion(p)
  BY DEF CopyRegion
<1>5. CopyRegion(p) \subseteq Nat
  <2>1. Region(p) \subseteq Nat
    BY <1>1, <1>3 DEF Region
  <2> QED
    BY <1>1, <1>3, <2>1 DEF CopyRegion
<1>6. Region(p) = {} <=> Xip(p)
  BY <1>1, <1>3 DEF Region, Xip
<1> QED
  BY <1>1, <1>2, <1>3, <1>4, <1>5, <1>6

\* The image and its parts.
LEMMA ImageFacts ==
  ASSUME TypeOK
  PROVE  /\ image \in Seq(Headers) /\ Len(image) \in Nat \ {0} /\ DOMAIN image = 1..Len(image)
         /\ \A i \in DOMAIN image : image[i] \in Headers
         /\ PartitionNum \in 1..Len(image) /\ Header \in Headers
         /\ Kept \subseteq Copied /\ Copied \subseteq DOMAIN image
<1>1. image \in Seq(Headers) /\ Len(image) \in Nat \ {0} /\ DOMAIN image = 1..Len(image)
  BY PartitionAssumption DEF TypeOK
<1>2. \A i \in DOMAIN image : image[i] \in Headers
  BY <1>1
<1> QED
  BY <1>1, <1>2 DEF TypeOK, Header, Kept, Copied

\* The image, the kind of reset and what follows from them are fixed.
LEMMA Fixed ==
  ASSUME UNCHANGED fixedVars
  PROVE  /\ image' = image /\ ResetReason' = ResetReason /\ corrupt' = corrupt
         /\ Copied' = Copied /\ Kept' = Kept
         /\ (Disjoint' <=> Disjoint) /\ (TcmInOrder' <=> TcmInOrder)
<1>0. image' = image /\ ResetReason' = ResetReason /\ corrupt' = corrupt
  BY DEF fixedVars
<1>1. Copied' = Copied /\ Kept' = Kept
  BY <1>0 DEF Copied, Kept, NotPartitionOwner, PlKept
<1>2. Disjoint' <=> Disjoint
  BY <1>0, <1>1 DEF Disjoint
<1>3. TcmInOrder' <=> TcmInOrder
  BY <1>0, <1>1 DEF TcmInOrder
<1> QED
  BY <1>0, <1>1, <1>2, <1>3

\* So are the applications.
LEMMA FixedApplication ==
  ASSUME UNCHANGED fixedVars, NEW c
  PROVE  Application(c)' = Application(c) /\ First(c)' = First(c)
<1>1. Application(c)' = Application(c)
  BY DEF fixedVars, Application, NotPartitionOwner
<1>2. First(c)' = First(c)
  BY <1>1 DEF fixedVars, First
<1> QED
  BY <1>1, <1>2

\* The TCM of one R5 in split mode is apart from what fits the other's.
LEMMA TcmsApart ==
  ASSUME NEW p \in Headers, NEW c \in {"R0", "R1"}, InTcm(p), Fits(p, FALSE),
         p.cpu \in {"R0", "R1"}, p.cpu # c
  PROVE  Region(p) \cap TcmUnits(c) = {}
<1>0. DestinationCpu(p) = p.cpu /\ p.load \in Nat /\ p.len \in Nat /\ p.len <= 2
  BY HeaderFacts DEF Fits, Bank
<1>1. p.load \in 0..5
  BY <1>0 DEF InTcm, TcmOf, Bank, BTcm
<1>2. CASE p.cpu = "R0" /\ c = "R1"
  <2>1. Region(p) \subseteq 131008..131014
    BY <1>0, <1>1, <1>2 DEF Region, LoadAddress, R50High, DummyPl
  <2>2. TcmUnits(c) \subseteq 131026..131031
    BY <1>2 DEF TcmUnits, TcmOf, R51High, Bank, BTcm
  <2> QED
    BY <2>1, <2>2
<1>3. CASE p.cpu = "R1" /\ c = "R0"
  <2>1. Region(p) \subseteq 131026..131032
    BY <1>0, <1>1, <1>3 DEF Region, LoadAddress, R51High, DummyPl
  <2>2. TcmUnits(c) \subseteq 131008..131013
    BY <1>3 DEF TcmUnits, TcmOf, R50High, Bank, BTcm
  <2> QED
    BY <2>1, <2>2
<1> QED
  BY <1>2, <1>3

\* Each TCM is a part of those that TcmInOrder names, none of the RAM of the PMU.
LEMMA TcmUnitsFacts ==
  ASSUME NEW c \in R5
  PROVE  /\ TcmUnits(c) \subseteq TcmUnits("RL") \cup TcmUnits("R1")
         /\ TcmUnits(c) \cap PmuRam = {}
<1>1. TcmUnits(c) \subseteq TcmUnits("RL") \cup TcmUnits("R1")
  BY DEF R5, TcmUnits, TcmOf, Bank, BTcm, R50High
<1>2. TcmUnits(c) \cap PmuRam = {}
  BY DEF R5, TcmUnits, TcmOf, Bank, BTcm, R50High, R51High, PmuRam, PmuRam0
<1> QED
  BY <1>1, <1>2

-----------------------------------------------------------------------------
(* Steps: the types, and how far the loading is.                           *)

\* All of TypeOK but the number of entries, which EntryInv bounds.
TypesOK ==
  /\ image \in Images /\ ResetReason \in {"SYSTEM", "PS_ONLY", "APU_ONLY"}
  /\ corrupt \subseteq DOMAIN image /\ stage \in Stages /\ PartitionNum \in DOMAIN image
  /\ \A a \in DOMAIN mem : mem[a] \in (DOMAIN image \cup {0}) \X {"ecc", "stored", "plain"}
  /\ pl \in DOMAIN image \cup {0} /\ HandoffValues \in Seq(DOMAIN image)
  /\ TcmEccInitStatus \subseteq {"R0", "R1"} /\ inited \subseteq {"R0", "R1"}
  /\ pmu \in {"asleep", "awake"} /\ ipi \in BOOLEAN
  /\ pmuFw \in {"none", "starting", "present"}

\* A step writes the memory with what belongs there.
LEMMA WriteTyped ==
  ASSUME TypeOK, image' = image, NEW units,
         NEW content \in (DOMAIN image \cup {0}) \X {"ecc", "stored", "plain"},
         Write(units, content)
  PROVE  (\A a \in DOMAIN mem : mem[a] \in (DOMAIN image \cup {0}) \X {"ecc", "stored", "plain"})'
BY DEF TypeOK, Write

\* The stage a partition follows another at.
LEMMA NextPartitionTyped ==
  ASSUME TypeOK, NextPartition, image' = image
  PROVE  /\ stage' \in {"Header", "Done"} /\ PartitionNum' \in DOMAIN image
         /\ stage' = "Done" => PartitionNum' = Len(image)
         /\ \A i \in DOMAIN image : Over(i)' <=> i <= PartitionNum
         /\ \A i \in DOMAIN image : Placed(i)' <=> i <= PartitionNum
<1>0. PartitionNum \in 1..Len(image) /\ Len(image) \in Nat /\ DOMAIN image = 1..Len(image)
  BY ImageFacts
<1>a. PartitionNum < Len(image) \/ PartitionNum = Len(image)
  <2>1. PartitionNum \in 1..Len(image) /\ Len(image) \in Nat
    BY <1>0
  <2> QED
    BY <2>1
<1>1. CASE PartitionNum < Len(image)
  <2>1. PartitionNum' = PartitionNum + 1 /\ stage' = "Header"
    BY <1>1 DEF NextPartition
  <2> QED
    BY <1>0, <1>1, <2>1 DEF Over, Placed
<1>2. CASE PartitionNum = Len(image)
  <2>1. ~(PartitionNum < Len(image))
    BY <1>0, <1>2
  <2>2. PartitionNum' = PartitionNum /\ stage' = "Done"
    BY <2>1 DEF NextPartition
  <2> QED
    BY <1>0, <1>2, <2>2 DEF Over, Placed
<1> QED
  BY <1>a, <1>1, <1>2

\* The TCM initialization fills one TCM with ECC and sets the status.
LEMMA TcmEccInitTyped ==
  ASSUME TypeOK, image' = image, NEW c \in R5, TcmEccInit(c)
  PROVE  /\ (\A a \in DOMAIN mem : mem[a] \in (DOMAIN image \cup {0}) \X {"ecc", "stored", "plain"})'
         /\ TcmEccInitStatus' \subseteq {"R0", "R1"} /\ inited' \subseteq {"R0", "R1"}
<1>1. TcmBits(c) \subseteq {"R0", "R1"}
  BY DEF TcmBits, R5
<1>2. <<0, "ecc">> \in (DOMAIN image \cup {0}) \X {"ecc", "stored", "plain"}
  OBVIOUS
<1> QED
  BY <1>1, <1>2, WriteTyped DEF TcmEccInit, TypeOK

\* A step keeps the types.
LEMMA TypesStep ==
  ASSUME TypeOK, Next
  PROVE  TypesOK' /\ UNCHANGED fixedVars
<1>0. /\ image \in Seq(Headers) /\ Header \in Headers /\ PartitionNum \in DOMAIN image
      /\ Stored(PartitionNum) \in (DOMAIN image \cup {0}) \X {"ecc", "stored", "plain"}
      /\ <<PartitionNum, "plain">> \in (DOMAIN image \cup {0}) \X {"ecc", "stored", "plain"}
  BY ImageFacts DEF TypeOK, Stored
<1>1. UNCHANGED fixedVars
  BY DEF Next, Load, HeaderValidation, PartitionCopy, DeviceCopy, PartitionValidation, CheckPmuFw,
         PmuWokenUp, CallFails, PmuSleeps, PmuStarts
<1>2. image' = image /\ ResetReason' = ResetReason /\ corrupt' = corrupt
  BY <1>1 DEF fixedVars
<1>3. (stage \in Stages /\ PartitionNum \in DOMAIN image)'
  <2>1. \/ NextPartition
        \/ \E s \in Stages : Goto(s)
        \/ UNCHANGED <<stage, PartitionNum>>
    BY DEF Next, Load, HeaderValidation, PartitionCopy, DeviceCopy, PartitionValidation, CheckPmuFw,
           PmuWokenUp, CallFails, PmuSleeps, PmuStarts, Stages, Goto
  <2>2. CASE NextPartition
    BY <1>2, <2>2, NextPartitionTyped DEF Stages
  <2> QED
    BY <1>2, <2>1, <2>2 DEF Goto, TypeOK
<1>4. HandoffValues' \in Seq(DOMAIN image)
  <2>1. HandoffValues \in Seq(DOMAIN image) /\ Append(HandoffValues, PartitionNum) \in Seq(DOMAIN image)
    BY <1>0 DEF TypeOK
  <2>2. HandoffValues' \in {HandoffValues, Append(HandoffValues, PartitionNum)}
    BY DEF Next, Load, HeaderValidation, PartitionCopy, DeviceCopy, PartitionValidation, CheckPmuFw,
           PmuWokenUp, CallFails, PmuSleeps, PmuStarts, AddHandoff
  <2> QED
    BY <2>1, <2>2
<1>5. /\ (\A a \in DOMAIN mem : mem[a] \in (DOMAIN image \cup {0}) \X {"ecc", "stored", "plain"})'
      /\ TcmEccInitStatus' \subseteq {"R0", "R1"} /\ inited' \subseteq {"R0", "R1"}
  <2>1. CASE UNCHANGED <<mem, tcmVars>>
    BY <1>2, <2>1 DEF TypeOK, tcmVars
  <2>2. CASE InTcm(Header) /\ TcmEccInit(Header.cpu)
    BY <1>0, <1>2, <2>2, HeaderFacts, TcmEccInitTyped
  <2>3. CASE Write(CopyRegion(Header), Stored(PartitionNum)) /\ UNCHANGED tcmVars
    BY <1>0, <1>2, <2>3, WriteTyped DEF tcmVars, TypeOK
  <2>4. CASE Write(Region(Header), <<PartitionNum, "plain">>) /\ UNCHANGED tcmVars
    BY <1>0, <1>2, <2>4, WriteTyped DEF tcmVars, TypeOK
  <2> QED
    BY <2>1, <2>2, <2>3, <2>4
       DEF Next, Load, HeaderValidation, PartitionCopy, DeviceCopy, PartitionValidation, CheckPmuFw,
           PmuWokenUp, CallFails, PmuSleeps, PmuStarts, ConfigureMemory, Decrypt
<1>6. pl' \in DOMAIN image \cup {0}
  BY <1>0 DEF TypeOK, Next, Load, HeaderValidation, PartitionCopy, DeviceCopy, PartitionValidation,
         CheckPmuFw, PmuWokenUp, CallFails, PmuSleeps, PmuStarts
<1>7. pmu' \in {"asleep", "awake"} /\ pmuFw' \in {"none", "starting", "present"}
  BY DEF TypeOK, Next, Load, HeaderValidation, PartitionCopy, DeviceCopy, PartitionValidation,
         CheckPmuFw, PmuWokenUp, CallFails, PmuSleeps, PmuStarts, pmuVars
<1>8. ipi' \in BOOLEAN
  BY DEF TypeOK, Next, Load, HeaderValidation, PartitionCopy, DeviceCopy, PartitionValidation,
         CheckPmuFw, PmuWokenUp, CallFails, PmuSleeps, PmuStarts, pmuVars, AskForSleep
<1> QED
  BY <1>1, <1>2, <1>3, <1>4, <1>5, <1>6, <1>7, <1>8 DEF TypesOK, TypeOK

\* Only the checks end the loading of a partition that is copied, only the choice
\* of its place makes it placed.
LEMMA Progress ==
  ASSUME LoadInv, Next, NEW i \in Copied
  PROVE  /\ Over(i)' => Over(i) \/ (i = PartitionNum /\ PartitionValidation)
         /\ Placed(i)' => \/ Placed(i)
                          \/ i = PartitionNum /\ PartitionCopy /\ stage' = "Read"
         /\ stage' # "Err" => stage # "Err" /\ (Placed(i) => Placed(i)')
<1>0. TypeOK /\ Current /\ i \in DOMAIN image /\ i \in Nat /\ PartitionNum \in Nat
  BY ImageFacts DEF LoadInv
<1>1. image' = image
  BY <1>0, TypesStep, Fixed
<1>2. CASE HeaderValidation
  <2>1. CASE NotPartitionOwner(Header) /\ NextPartition
    <3>1. i # PartitionNum
      BY <2>1 DEF Copied, Header
    <3> QED
      BY <1>0, <1>1, <1>2, <2>1, <3>1, NextPartitionTyped DEF HeaderValidation, Over, Placed
  <2>2. CASE Goto("Copy") \/ Goto("Err")
    BY <1>2, <2>2 DEF HeaderValidation, Goto, Over, Placed
  <2> QED
    BY <1>2, <2>1, <2>2 DEF HeaderValidation
<1>3. CASE PartitionCopy
  <2>1. CASE Goto("Validate") /\ (Xip(Header) \/ PlKept(Header))
    <3>1. i # PartitionNum
      BY <2>1 DEF Copied, Header
    <3> QED
      BY <1>3, <2>1, <3>1 DEF PartitionCopy, Goto, Over, Placed
  <2>2. CASE Goto("Read") \/ Goto("Err")
    BY <1>3, <2>2 DEF PartitionCopy, Goto, Over, Placed
  <2> QED
    BY <1>3, <2>1, <2>2 DEF PartitionCopy
<1>4. CASE DeviceCopy
  BY <1>4 DEF DeviceCopy, Goto, Over, Placed
<1>5. CASE PartitionValidation
  BY <1>5 DEF PartitionValidation, Goto, Over, Placed
<1>6. CASE CheckPmuFw \/ PmuWokenUp
  <2>1. CASE NextPartition
    BY <1>0, <1>1, <1>6, <2>1, NextPartitionTyped DEF CheckPmuFw, PmuWokenUp, Over, Placed
  <2>2. CASE Goto("PmuStarting")
    BY <1>6, <2>2 DEF CheckPmuFw, PmuWokenUp, Goto, Over, Placed
  <2> QED
    BY <1>6, <2>1, <2>2 DEF CheckPmuFw, PmuWokenUp
<1>7. CASE CallFails
  BY <1>7 DEF CallFails, Goto, Over, Placed
<1>8. CASE PmuSleeps \/ PmuStarts
  BY <1>8 DEF PmuSleeps, PmuStarts, Over, Placed
<1> QED
  BY <1>2, <1>3, <1>4, <1>5, <1>6, <1>7, <1>8 DEF Next, Load

\* A step keeps what is known of the partition at hand.
LEMMA CurrentStep ==
  ASSUME LoadInv, Next
  PROVE  Current'
<1>0. TypeOK /\ Current
  BY DEF LoadInv
<1>1. UNCHANGED fixedVars /\ image' = image /\ ResetReason' = ResetReason /\ Copied' = Copied
  BY <1>0, TypesStep, Fixed
<1>2. CASE NextPartition
  BY <1>0, <1>1, <1>2, NextPartitionTyped DEF Current
<1>3. CASE HeaderValidation /\ ~NotPartitionOwner(Header)
  <2>1. (Goto("Copy") /\ ValidPartitionHeader(Header)) \/ Goto("Err")
    BY <1>3 DEF HeaderValidation
  <2> QED
    BY <1>1, <1>3, <2>1 DEF Current, Goto, Header, NotPartitionOwner
<1>4. CASE PartitionCopy /\ Goto("Read")
  <2>1. PartitionNum \in Copied
    BY <1>0, <1>4 DEF Current, PartitionCopy, Goto, Copied, Header, TypeOK
  <2> QED
    BY <1>0, <1>1, <1>4, <2>1 DEF Current, PartitionCopy, Goto, Header, NotPartitionOwner
<1>5. CASE (PartitionCopy \/ DeviceCopy) /\ Goto("Validate")
  BY <1>0, <1>1, <1>5 DEF Current, PartitionCopy, DeviceCopy, Goto, Header, NotPartitionOwner
<1>6. CASE stage' \in {"CheckPmuFw", "PmuStarting", "Err"}
  BY <1>6 DEF Current
<1>7. CASE UNCHANGED <<stage, PartitionNum>>
  BY <1>0, <1>1, <1>7 DEF Current, Header, NotPartitionOwner
<1> QED
  BY <1>2, <1>3, <1>4, <1>5, <1>6, <1>7
     DEF Next, Load, HeaderValidation, PartitionCopy, DeviceCopy, PartitionValidation, CheckPmuFw,
         PmuWokenUp, CallFails, PmuSleeps, PmuStarts, Goto

\* The copy is complete, and nothing comes between it and the checks.
LEMMA CopyCompleteStep ==
  ASSUME LoadInv, Next
  PROVE  CopyComplete'
<1>0. TypeOK /\ Current /\ CopyComplete
  BY DEF LoadInv
<1>1. UNCHANGED fixedVars /\ image' = image /\ Copied' = Copied
  BY <1>0, TypesStep, Fixed
<1> SUFFICES ASSUME stage' = "Validate" /\ PartitionNum' \in Copied
             PROVE  /\ \A a \in CopyRegion(Header)' : a \in DOMAIN mem' /\ mem'[a] = Stored(PartitionNum)'
                    /\ (Header.cpu)' = "PMU" => pmu' = "asleep"
  BY <1>1 DEF CopyComplete
<1>2. CASE DeviceCopy
  <2>1. PartitionNum' = PartitionNum /\ Header' = Header /\ Stored(PartitionNum)' = Stored(PartitionNum)
    BY <1>1, <1>2 DEF DeviceCopy, Goto, Header, Stored
  <2>2. \A a \in CopyRegion(Header) : a \in DOMAIN mem' /\ mem'[a] = Stored(PartitionNum)
    BY <1>2 DEF DeviceCopy, Write
  <2>3. Header.cpu = "PMU" => pmu' = "asleep"
    BY <1>2 DEF DeviceCopy, PmuReady, pmuVars
  <2> QED
    BY <2>1, <2>2, <2>3
<1>3. CASE PartitionCopy
  <2>1. PartitionNum' = PartitionNum /\ (Xip(Header) \/ PlKept(Header))
    BY <1>3 DEF PartitionCopy, Goto
  <2> QED
    BY <2>1 DEF Copied, Header
<1>4. CASE PmuSleeps \/ PmuStarts
  <2>1. /\ stage = "Validate" /\ PartitionNum' = PartitionNum /\ mem' = mem
        /\ Header' = Header /\ Stored(PartitionNum)' = Stored(PartitionNum)
    BY <1>1, <1>4 DEF PmuSleeps, PmuStarts, Header, Stored
  <2>2. pmu' \in {pmu, "asleep"}
    BY <1>4 DEF PmuSleeps, PmuStarts
  <2> QED
    BY <1>0, <2>1, <2>2 DEF CopyComplete
<1> QED
  BY <1>0, <1>1, <1>2, <1>3, <1>4, NextPartitionTyped
     DEF Next, Load, HeaderValidation, PartitionValidation, CheckPmuFw, PmuWokenUp, CallFails, Goto

\* Nothing is placed unchecked.
LEMMA CheckedStep ==
  ASSUME LoadInv, Next
  PROVE  Checked'
<1>0. TypeOK /\ Current /\ Checked
  BY DEF LoadInv
<1>1. UNCHANGED fixedVars /\ image' = image /\ Copied' = Copied
  BY <1>0, TypesStep, Fixed
<1> SUFFICES ASSUME NEW i \in Copied, Placed(i)'
             PROVE  ValidPartitionHeader(image[i]) /\ Fits(image[i], FALSE)
  BY <1>1 DEF Checked
<1>2. CASE Placed(i)
  BY <1>0, <1>2 DEF Checked
<1>3. CASE i = PartitionNum /\ PartitionCopy /\ stage' = "Read"
  BY <1>0, <1>3 DEF PartitionCopy, Goto, Current, Header
<1> QED
  BY <1>2, <1>3, Progress

\* The status keeps the bits of the R5 whose TCM was used last.
LEMMA TcmReadyStep ==
  ASSUME LoadInv, Next
  PROVE  TcmReady'
<1>0. TypeOK /\ Current /\ TcmReady /\ Header \in Headers /\ PartitionNum \in Nat
  BY ImageFacts DEF LoadInv
<1>1. UNCHANGED fixedVars /\ image' = image /\ Copied' = Copied
  BY <1>0, TypesStep, Fixed
<1> SUFFICES ASSUME stage' # "Err", NEW i \in Copied, LastTcm(i)'
             PROVE  TcmBits(image[i].cpu) \subseteq TcmEccInitStatus'
  BY <1>1 DEF TcmReady
<1>2. i \in Nat /\ Placed(i)' /\ InTcm(image[i])
  BY <1>0, <1>1, ImageFacts DEF LastTcm
<1>3. ASSUME NEW k \in Copied, k > i, Placed(k)', InTcm(image[k])
      PROVE  image[k].cpu = image[i].cpu
  BY <1>1, <1>3 DEF LastTcm
<1>4. CASE PartitionCopy /\ stage' = "Read" /\ InTcm(Header)
  <2>1. /\ stage = "Copy" /\ PartitionNum \in Copied /\ PartitionNum' = PartitionNum
        /\ ConfigureMemory(Header)
    BY <1>0, <1>4 DEF PartitionCopy, Goto, Current, Copied, Header, TypeOK
  <2>2. Placed(PartitionNum)'
    BY <1>4, <2>1 DEF Placed
  <2>3. i <= PartitionNum
    BY <1>2, <1>4, <2>1 DEF Placed, Over
  <2>4. image[i].cpu = Header.cpu
    BY <1>0, <1>2, <1>3, <1>4, <2>1, <2>2, <2>3 DEF Header
  <2>5. TcmBits(Header.cpu) \subseteq TcmEccInitStatus'
    BY <1>4, <2>1 DEF ConfigureMemory, NeedsEccInit, TcmEccInit, tcmVars
  <2> QED
    BY <2>4, <2>5
<1>5. CASE ~(PartitionCopy /\ stage' = "Read" /\ InTcm(Header))
  <2>1. TcmEccInitStatus' = TcmEccInitStatus
    BY <1>5 DEF Next, Load, HeaderValidation, PartitionCopy, DeviceCopy, PartitionValidation,
                CheckPmuFw, PmuWokenUp, CallFails, PmuSleeps, PmuStarts, tcmVars,
                ConfigureMemory, Goto
  <2>2. Placed(i)
    BY <1>2, <1>5, Progress DEF Header
  <2>3. stage # "Err" /\ \A k \in Copied : Placed(k) => Placed(k)'
    BY Progress
  <2>4. LastTcm(i)
    BY <1>2, <1>3, <2>2, <2>3 DEF LastTcm
  <2> QED
    BY <1>0, <2>1, <2>3, <2>4 DEF TcmReady
<1> QED
  BY <1>4, <1>5

\* A TCM is not initialized again while it holds a partition that must stay.
LEMMA TcmSpared ==
  ASSUME LoadInv, TcmInOrder, stage = "Copy", PartitionNum \in Copied,
         InTcm(Header), NeedsEccInit(Header.cpu), NEW i \in Kept, i < PartitionNum
  PROVE  Region(image[i]) \cap TcmUnits(Header.cpu) = {}
<1>0. /\ TypeOK /\ Checked /\ TcmReady /\ i \in Copied /\ Header.cpu \in R5
      /\ image[i] \in Headers /\ PartitionNum \in Nat /\ Copied \subseteq Nat
  BY ImageFacts, HeaderFacts DEF LoadInv
<1>1. Placed(i) /\ Fits(image[i], FALSE)
  BY <1>0 DEF Placed, Over, Checked
<1>2. CASE ~InTcm(image[i])
  BY <1>0, <1>2, TcmUnitsFacts DEF TcmInOrder
<1>3. CASE InTcm(image[i]) /\ image[i].cpu # Header.cpu
  <2>1. "RL" \notin {image[i].cpu, Header.cpu}
    BY <1>3 DEF TcmInOrder, Header
  <2>2. image[i].cpu \in {"R0", "R1"} /\ Header.cpu \in {"R0", "R1"}
    BY <1>0, <1>3, <2>1, HeaderFacts DEF R5
  <2> QED
    BY <1>0, <1>1, <1>3, <2>2, TcmsApart
<1>4. CASE InTcm(image[i]) /\ image[i].cpu = Header.cpu
  <2>1. ASSUME NEW k \in Copied, k > i, Placed(k), InTcm(image[k]), image[k].cpu # image[i].cpu
        PROVE  FALSE
    <3>1. k < PartitionNum
      BY <2>1 DEF Placed, Over
    <3>2. PartitionNum > k /\ i < k
      BY <1>0, <2>1, <3>1
    <3> QED
      BY <1>4, <2>1, <3>2 DEF TcmInOrder, Header
  <2>2. LastTcm(i)
    BY <1>0, <1>1, <1>4, <2>1 DEF LastTcm
  <2> QED
    BY <1>0, <1>4, <2>2 DEF TcmReady, NeedsEccInit
<1> QED
  BY <1>2, <1>3, <1>4

\* No step writes where a partition is that was loaded before and must stay.
LEMMA MemSpared ==
  ASSUME LoadInv, Next, Disjoint, TcmInOrder, NEW i \in Kept, Over(i),
         Region(image[i]) \subseteq DOMAIN mem, NEW a \in Region(image[i])
  PROVE  a \in DOMAIN mem' /\ mem'[a] = mem[a]
<1>0. TypeOK /\ Current /\ i \in Copied /\ i \in Nat /\ PartitionNum \in Nat /\ Header \in Headers
  BY ImageFacts DEF LoadInv
<1>1. CASE mem' = mem
  BY <1>1
<1>2. CASE PartitionCopy /\ TcmEccInit(Header.cpu) /\ InTcm(Header) /\ NeedsEccInit(Header.cpu)
           /\ ~Xip(Header) /\ ~PlKept(Header)
  <2>1. stage = "Copy" /\ PartitionNum \in Copied /\ i < PartitionNum
    BY <1>0, <1>2 DEF PartitionCopy, Current, Copied, Header, TypeOK, Over
  <2>2. a \notin TcmUnits(Header.cpu)
    BY <1>2, <2>1, TcmSpared
  <2> QED
    BY <1>2, <2>2 DEF TcmEccInit, Write
<1>3. ASSUME i < PartitionNum, PartitionNum \in Copied
      PROVE  a \notin CopyRegion(Header)
  BY <1>3 DEF Disjoint, Header
<1>4. CASE DeviceCopy
  <2>1. i < PartitionNum /\ PartitionNum \in Copied
    BY <1>0, <1>4 DEF DeviceCopy, Current, Over
  <2> QED
    BY <1>3, <1>4, <2>1 DEF DeviceCopy, Write
<1>5. CASE PartitionValidation /\ Decrypt /\ ~PlKept(Header)
  <2>1. i < PartitionNum /\ ~NotPartitionOwner(Header) /\ PartitionNum \in DOMAIN image
    BY <1>0, <1>5 DEF PartitionValidation, Over, Current, TypeOK
  <2>2. a \notin Region(Header)
    <3>1. CASE Xip(Header)
      BY <1>0, <3>1, HeaderFacts
    <3>2. CASE ~Xip(Header)
      BY <1>0, <1>3, <1>5, <2>1, <3>2, HeaderFacts DEF Copied, Header
    <3> QED
      BY <3>1, <3>2
  <2> QED
    BY <1>5, <2>2 DEF Decrypt, Write
<1> QED
  BY <1>1, <1>2, <1>4, <1>5
     DEF Next, Load, HeaderValidation, PartitionCopy, PartitionValidation, CheckPmuFw,
         PmuWokenUp, CallFails, PmuSleeps, PmuStarts, ConfigureMemory

\* What is loaded stays intact.
LEMMA KeptIntactStep ==
  ASSUME LoadInv, Next
  PROVE  KeptIntact'
<1>0. /\ TypeOK /\ Current /\ KeptIntact /\ CopyComplete /\ Kept \subseteq Copied
      /\ PartitionNum \in Nat
  BY ImageFacts DEF LoadInv
<1>1. /\ UNCHANGED fixedVars /\ image' = image /\ corrupt' = corrupt /\ Kept' = Kept
      /\ (Disjoint' <=> Disjoint) /\ (TcmInOrder' <=> TcmInOrder)
  BY <1>0, TypesStep, Fixed
<1> SUFFICES ASSUME Disjoint, TcmInOrder, NEW i \in Kept, Over(i)'
             PROVE  /\ \A a \in Region(image[i]) : a \in DOMAIN mem' /\ mem'[a] = <<i, "plain">>
                    /\ Secured(image[i]) => i \notin corrupt
  BY <1>1 DEF KeptIntact, Intact
<1>2. CASE Over(i)
  <2>1. /\ Region(image[i]) \subseteq DOMAIN mem /\ Intact(i)
        /\ Secured(image[i]) => i \notin corrupt
    BY <1>0, <1>2 DEF KeptIntact
  <2> QED
    BY <1>2, <2>1, MemSpared DEF Intact
<1>3. CASE i = PartitionNum /\ PartitionValidation
  <2>0. Header \in Headers /\ Header = image[i] /\ i \in Copied /\ Header.dev = "PS" /\ ~PlKept(Header)
    BY <1>0, <1>3, ImageFacts DEF Header, Kept, Copied
  <2>1. ChecksPass(i) /\ Decrypt /\ stage = "Validate"
    <3>1. stage' # "Err"
      BY <1>0, <1>3 DEF Over, PartitionValidation, Goto
    <3> QED
      BY <1>3, <2>0, <3>1 DEF PartitionValidation, Goto
  <2>2. \A a \in CopyRegion(Header) : a \in DOMAIN mem /\ mem[a] = Stored(i)
    BY <1>0, <1>3, <2>0, <2>1 DEF CopyComplete
  <2>3. Region(Header) \subseteq CopyRegion(Header)
    BY <2>0, HeaderFacts
  <2>4. \A a \in Region(Header) : a \in DOMAIN mem' /\ mem'[a] = <<i, "plain">>
    <3>1. CASE Header.enc
      BY <1>3, <2>0, <2>1, <3>1 DEF Decrypt, Write
    <3>2. CASE ~Header.enc
      BY <1>3, <2>0, <2>1, <2>2, <2>3, <3>2 DEF Decrypt, Stored
    <3> QED
      BY <3>1, <3>2
  <2>5. Secured(image[i]) => i \notin corrupt
    BY <2>1 DEF ChecksPass, Genuine
  <2> QED
    BY <2>0, <2>4, <2>5
<1> QED
  BY <1>0, <1>2, <1>3, Progress

-----------------------------------------------------------------------------
(* Steps: the entries.                                                     *)

\* The CPUs can be counted.
LEMMA CpusFinite == IsFiniteSet(Cpus) /\ Cardinality(Cpus) \in Nat
<1>1. Cpus = {"A0"} \cup {"A1"} \cup {"R0"} \cup {"R1"} \cup {"RL"} \cup {"PMU"}
  BY DEF Cpus, A53
<1>2. IsFiniteSet(Cpus)
  BY <1>1, FS_Singleton, FS_Union
<1> QED
  BY <1>2, FS_CardinalityType

\* There are not more entries than CPUs, since no two are for the same.
LEMMA EntriesBounded ==
  ASSUME TypesOK, OneEntry
  PROVE  Len(HandoffValues) <= Cardinality(Cpus)
<1>0. /\ HandoffValues \in Seq(DOMAIN image) /\ Len(HandoffValues) \in Nat
      /\ DOMAIN HandoffValues = 1..Len(HandoffValues)
      /\ image \in Seq(Headers)
  BY PartitionAssumption DEF TypesOK
<1>1. \A k \in 1..Len(HandoffValues) : EntryCpu(k) \in Cpus
  <2> SUFFICES ASSUME NEW k \in 1..Len(HandoffValues) PROVE EntryCpu(k) \in Cpus
    OBVIOUS
  <2>1. image[HandoffValues[k]] \in Headers
    BY <1>0
  <2> QED
    BY <2>1, HeaderFacts DEF EntryCpu
<1> DEFINE cpuOf == [k \in 1..Len(HandoffValues) |-> EntryCpu(k)]
<1>2. cpuOf \in Injection(1..Len(HandoffValues), Cpus)
  BY <1>0, <1>1 DEF OneEntry, Injection, IsInjective
<1>3. IsFiniteSet(Cpus) /\ Cardinality(Cpus) \in Nat
  BY CpusFinite
<1>4. Cardinality(1..Len(HandoffValues)) <= Cardinality(Cpus)
  BY <1>2, <1>3, FS_Injection
<1>5. Cardinality(1..Len(HandoffValues)) = Len(HandoffValues)
  <2>1. 1 \in Int /\ Len(HandoffValues) \in Int /\ Len(HandoffValues) \in Nat
    BY <1>0
  <2>2. Cardinality(1..Len(HandoffValues))
          = IF 1 > Len(HandoffValues) THEN 0 ELSE Len(HandoffValues) - 1 + 1
    BY <2>1, FS_Interval
  <2> QED
    BY <2>1, <2>2
<1> QED
  BY <1>4, <1>5

\* A step that adds no entry keeps EntryInv if it enters no partition of an
\* application without an entry.
LEMMA EntriesSame ==
  ASSUME EntryInv, UNCHANGED fixedVars, UNCHANGED HandoffValues,
         \A i \in DOMAIN image : Entered(i)' =>
           \/ Entered(i) \/ NotPartitionOwner(image[i])
           \/ image[i].dev = "PL" /\ ~Xip(image[i])
           \/ DestinationCpu(image[i]) = "PMU"
  PROVE  EntryInv'
<1>1. image' = image /\ \A k : EntryCpu(k)' = EntryCpu(k)
  BY DEF fixedVars, EntryCpu
<1>2. EntryIsFirst'
  <2> SUFFICES ASSUME NEW k \in DOMAIN HandoffValues
               PROVE  /\ HandoffValues[k] \in Application(EntryCpu(k))'
                      /\ EntryCpu(k) # "PMU" =>
                           \A j \in Application(EntryCpu(k))' : HandoffValues[k] <= j
    BY <1>1 DEF EntryIsFirst
  <2>1. Application(EntryCpu(k))' = Application(EntryCpu(k))
    BY <1>1, FixedApplication DEF fixedVars, Application, NotPartitionOwner
  <2> QED
    BY <2>1 DEF EntryInv, EntryIsFirst
<1>3. OneEntry'
  BY <1>1 DEF EntryInv, OneEntry
<1>4. HasEntry'
  <2> SUFFICES ASSUME NEW c \in Cpus \ {"PMU"}, NEW i \in Application(c), Entered(i)'
               PROVE  \E k \in DOMAIN HandoffValues : EntryCpu(k) = c
    BY <1>1, FixedApplication DEF HasEntry
  <2>1. Entered(i)
    BY DEF Application
  <2> QED
    BY <2>1 DEF EntryInv, HasEntry
<1> QED
  BY <1>2, <1>3, <1>4 DEF EntryInv

\* AddHandoff keeps it at the partition at hand, if that is of the application of
\* its CPU.
LEMMA EntryAdded ==
  ASSUME TypeOK, EntryInv, UNCHANGED fixedVars, AddHandoff,
         PartitionNum \in Application(DestinationCpu(Header)),
         \A i \in DOMAIN image : Entered(i)' => Entered(i) \/ i = PartitionNum
  PROVE  EntryInv'
<1> DEFINE c == DestinationCpu(Header)
<1>0. /\ HandoffValues \in Seq(DOMAIN image) /\ Len(HandoffValues) \in Nat
      /\ DOMAIN HandoffValues = 1..Len(HandoffValues)
      /\ PartitionNum \in DOMAIN image /\ DOMAIN image \subseteq Nat /\ c = DestinationCpu(image[PartitionNum])
  BY ImageFacts DEF TypeOK, Header
<1>1. image' = image /\ \A d : Application(d)' = Application(d)
  BY DEF fixedVars, Application, NotPartitionOwner
<1>2. CASE ~CheckHandoffCpu(c)
  <2>1. HandoffValues' = HandoffValues /\ \A k : EntryCpu(k)' = EntryCpu(k)
    BY <1>1, <1>2 DEF AddHandoff, EntryCpu
  <2>2. \E k \in DOMAIN HandoffValues : EntryCpu(k) = c
    BY <1>2 DEF CheckHandoffCpu, EntryCpu
  <2>3. EntryIsFirst' /\ OneEntry'
    BY <1>1, <2>1 DEF EntryInv, EntryIsFirst, OneEntry
  <2>4. HasEntry'
    <3> SUFFICES ASSUME NEW d \in Cpus \ {"PMU"}, NEW i \in Application(d), Entered(i)'
                 PROVE  \E k \in DOMAIN HandoffValues : EntryCpu(k) = d
      BY <1>1, <2>1 DEF HasEntry
    <3>1. i \in DOMAIN image /\ d = DestinationCpu(image[i])
      BY DEF Application
    <3>2. CASE Entered(i)
      BY <3>2 DEF EntryInv, HasEntry
    <3>3. CASE i = PartitionNum
      BY <1>0, <2>2, <3>1, <3>3
    <3> QED
      BY <3>1, <3>2, <3>3
  <2> QED
    BY <2>3, <2>4 DEF EntryInv
<1>3. CASE CheckHandoffCpu(c)
  <2>0. PICK n \in Nat : n = Len(HandoffValues) + 1
    BY <1>0
  <2>1. HandoffValues' = Append(HandoffValues, PartitionNum)
    BY <1>3 DEF AddHandoff
  <2>2. /\ DOMAIN HandoffValues' = 1..n
        /\ \A k \in DOMAIN HandoffValues : HandoffValues'[k] = HandoffValues[k]
        /\ HandoffValues'[n] = PartitionNum
    BY <1>0, <2>0, <2>1
  <2>3. /\ \A k \in DOMAIN HandoffValues : EntryCpu(k)' = EntryCpu(k)
        /\ EntryCpu(n)' = c
    BY <1>0, <1>1, <2>0, <2>2 DEF EntryCpu
  <2>4. \A k \in DOMAIN HandoffValues : EntryCpu(k) # c
    BY <1>3 DEF CheckHandoffCpu, EntryCpu
  <2>5. \A j \in Application(c) : c # "PMU" => PartitionNum <= j
    <3> SUFFICES ASSUME NEW j \in Application(c), c # "PMU", ~(PartitionNum <= j) PROVE FALSE
      OBVIOUS
    <3>1. j < PartitionNum /\ c \in Cpus
      BY <1>0, HeaderFacts, ImageFacts DEF Application
    <3>2. Entered(j)
      BY <3>1 DEF Entered, Over
    <3> QED
      BY <2>4, <3>1, <3>2 DEF EntryInv, HasEntry
  <2>6. EntryIsFirst'
    <3> SUFFICES ASSUME NEW k \in 1..n
                 PROVE  /\ HandoffValues'[k] \in Application(EntryCpu(k)')
                        /\ EntryCpu(k)' # "PMU" =>
                             \A j \in Application(EntryCpu(k)') : HandoffValues'[k] <= j
      BY <1>1, <2>2 DEF EntryIsFirst
    <3>1. CASE k = n
      BY <2>2, <2>3, <2>5, <3>1
    <3>2. CASE k # n
      <4>1. k \in DOMAIN HandoffValues
        BY <1>0, <2>0, <3>2
      <4> QED
        BY <2>2, <2>3, <4>1 DEF EntryInv, EntryIsFirst
    <3> QED
      BY <3>1, <3>2
  <2>7. OneEntry'
    <3> SUFFICES ASSUME NEW k \in 1..n, NEW l \in 1..n, EntryCpu(k)' = EntryCpu(l)'
                 PROVE  k = l
      BY <2>2 DEF OneEntry
    <3>1. CASE k = n \/ l = n
      BY <1>0, <2>0, <2>3, <2>4, <3>1
    <3>2. CASE k # n /\ l # n
      <4>1. k \in DOMAIN HandoffValues /\ l \in DOMAIN HandoffValues
        BY <1>0, <2>0, <3>2
      <4> QED
        BY <2>3, <4>1 DEF EntryInv, OneEntry
    <3> QED
      BY <3>1, <3>2
  <2>8. HasEntry'
    <3> SUFFICES ASSUME NEW d \in Cpus \ {"PMU"}, NEW i \in Application(d), Entered(i)'
                 PROVE  \E k \in 1..n : EntryCpu(k)' = d
      BY <1>1, <2>2 DEF HasEntry
    <3>1. i \in DOMAIN image /\ d = DestinationCpu(image[i])
      BY DEF Application
    <3>2. CASE Entered(i)
      <4>1. PICK k \in DOMAIN HandoffValues : EntryCpu(k) = d
        BY <3>2 DEF EntryInv, HasEntry
      <4> QED
        BY <1>0, <2>0, <2>3, <4>1
    <3>3. CASE i = PartitionNum
      BY <1>0, <2>0, <2>3, <3>1, <3>3
    <3> QED
      BY <3>1, <3>2, <3>3
  <2> QED
    BY <2>6, <2>7, <2>8 DEF EntryInv
<1> QED
  BY <1>2, <1>3

\* A step of the loading keeps EntryInv.
LEMMA EntryStep ==
  ASSUME LoadInv, EntryInv, Next
  PROVE  EntryInv'
<1>0. TypeOK /\ Current /\ PartitionNum \in Nat /\ DOMAIN image \subseteq Nat /\ PartitionNum \in DOMAIN image
  BY ImageFacts DEF LoadInv
<1>1. UNCHANGED fixedVars /\ image' = image
  BY <1>0, TypesStep, Fixed
<1>2. ASSUME HandoffValues' = HandoffValues,
             \A i \in DOMAIN image : Entered(i)' =>
               \/ Entered(i) \/ NotPartitionOwner(image[i])
               \/ image[i].dev = "PL" /\ ~Xip(image[i])
               \/ DestinationCpu(image[i]) = "PMU"
      PROVE  EntryInv'
  BY <1>1, <1>2, EntriesSame
<1>3. CASE HeaderValidation
  <2>1. CASE NotPartitionOwner(Header) /\ NextPartition
    <3>1. \A i \in DOMAIN image : Entered(i)' => i <= PartitionNum
      BY <1>0, <1>1, <2>1, NextPartitionTyped DEF Entered
    <3>2. \A i \in DOMAIN image : Entered(i)' => Entered(i) \/ NotPartitionOwner(image[i])
      BY <1>0, <2>1, <3>1 DEF Entered, Over, Header
    <3> QED
      BY <1>2, <1>3, <3>2 DEF HeaderValidation
  <2>2. CASE Goto("Copy") \/ Goto("Err")
    BY <1>2, <1>3, <2>2 DEF HeaderValidation, Goto, Entered, Over
  <2> QED
    BY <1>3, <2>1, <2>2 DEF HeaderValidation
<1>4. CASE PartitionCopy
  <2>1. CASE Xip(Header)
    <3>1. AddHandoff /\ Goto("Validate") /\ ~NotPartitionOwner(Header)
      BY <1>0, <1>4, <2>1 DEF PartitionCopy, Current
    <3>2. PartitionNum \in Application(DestinationCpu(Header))
      BY <1>0, <2>1, <3>1 DEF Application, Header
    <3>3. \A i \in DOMAIN image : Entered(i)' => Entered(i) \/ i = PartitionNum
      BY <3>1 DEF Goto, Entered, Over
    <3> QED
      BY <1>0, <1>1, <3>1, <3>2, <3>3, EntryAdded
  <2>2. CASE ~Xip(Header)
    <3>1. /\ HandoffValues' = HandoffValues
          /\ \E s \in {"Validate", "Read", "Err"} : Goto(s)
      BY <1>4, <2>2 DEF PartitionCopy
    <3>2. \A i \in DOMAIN image : Entered(i)' => Entered(i)
      BY <1>1, <2>2, <3>1 DEF Goto, Entered, Over, Header
    <3> QED
      BY <1>2, <3>1, <3>2
  <2> QED
    BY <2>1, <2>2
<1>5. CASE DeviceCopy
  <2>1. ~Xip(image[PartitionNum])
    BY <1>0, <1>5 DEF DeviceCopy, Current, Copied
  <2> QED
    BY <1>1, <1>2, <1>5, <2>1 DEF DeviceCopy, Goto, Entered, Over
<1>6. CASE PartitionValidation
  <2>0. stage = "Validate" /\ ~NotPartitionOwner(Header)
    BY <1>0, <1>6 DEF PartitionValidation, Current
  <2>1. \A i \in DOMAIN image : Entered(i)' => Entered(i) \/ i = PartitionNum
    BY <1>6 DEF PartitionValidation, Goto, Entered, Over
  <2>2. CASE AddHandoff /\ Header.dev # "PL"
    <3>1. PartitionNum \in Application(DestinationCpu(Header))
      BY <1>0, <2>0, <2>2, ImageFacts DEF Application, Header, Headers
    <3> QED
      BY <1>0, <1>1, <2>1, <2>2, <3>1, EntryAdded
  <2>3. CASE HandoffValues' = HandoffValues /\ Goto("CheckPmuFw")
             /\ (Header.dev = "PL" \/ DestinationCpu(Header) = "PMU")
    <3>1. \/ Entered(PartitionNum)
          \/ image[PartitionNum].dev = "PL" /\ ~Xip(image[PartitionNum])
          \/ DestinationCpu(image[PartitionNum]) = "PMU"
      BY <2>0, <2>3 DEF Entered, Header
    <3> QED
      BY <1>2, <2>1, <2>3, <3>1
  <2>4. CASE HandoffValues' = HandoffValues /\ Goto("Err")
    <3>1. \A i \in DOMAIN image : Entered(i)' => Entered(i)
      BY <2>4 DEF Goto, Entered, Over
    <3> QED
      BY <1>2, <2>4, <3>1
  <2> QED
    BY <1>6, <2>2, <2>3, <2>4 DEF PartitionValidation, PlKept
<1>7. CASE CheckPmuFw \/ PmuWokenUp
  <2>1. \A i \in DOMAIN image : i <= PartitionNum => Entered(i)
    BY <1>0, <1>7 DEF CheckPmuFw, PmuWokenUp, Entered, Over
  <2>2. \A i \in DOMAIN image : Entered(i)' => i <= PartitionNum
    <3>1. CASE NextPartition
      BY <1>0, <1>1, <3>1, NextPartitionTyped DEF Entered
    <3>2. CASE Goto("PmuStarting")
      BY <1>0, <3>2 DEF Goto, Entered, Over
    <3> QED
      BY <1>7, <3>1, <3>2 DEF CheckPmuFw, PmuWokenUp
  <2>3. HandoffValues' = HandoffValues
    BY <1>7 DEF CheckPmuFw, PmuWokenUp
  <2> QED
    BY <1>2, <2>1, <2>2, <2>3
<1>8. CASE CallFails
  BY <1>2, <1>8 DEF CallFails, Goto, Entered, Over
<1>9. CASE PmuSleeps \/ PmuStarts
  BY <1>1, <1>2, <1>9 DEF PmuSleeps, PmuStarts, Entered, Over
<1> QED
  BY <1>3, <1>4, <1>5, <1>6, <1>7, <1>8, <1>9 DEF Next, Load

\* A step of the loading keeps both invariants.
LEMMA LoadStep ==
  ASSUME LoadInv, EntryInv, Next
  PROVE  (LoadInv /\ EntryInv)'
<1>1. TypesOK' /\ EntryInv'
  BY TypesStep, EntryStep DEF LoadInv
<1>2. (Len(HandoffValues) <= Cardinality(Cpus))'
  BY <1>1, EntriesBounded, PTL DEF EntryInv
<1>3. TypeOK'
  BY <1>1, <1>2 DEF TypesOK, TypeOK
<1> QED
  BY <1>1, <1>3, CurrentStep, CopyCompleteStep, CheckedStep, TcmReadyStep, KeptIntactStep DEF LoadInv

-----------------------------------------------------------------------------
(* Steps: the handoff.                                                     *)

\* The first partition of an application is the one its CPU is entered with.
LEMMA FirstIs ==
  ASSUME TypeOK, EntryInv, NEW k \in DOMAIN HandoffValues, EntryCpu(k) # "PMU"
  PROVE  /\ First(EntryCpu(k)) = image[HandoffValues[k]]
         /\ HandoffValues[k] \in Application(EntryCpu(k))
<1> DEFINE c == EntryCpu(k)
           isFirst(i) == \A j \in Application(c) : i <= j
<1>1. HandoffValues[k] \in Application(c) /\ isFirst(HandoffValues[k])
  BY DEF EntryInv, EntryIsFirst
<1>2. Application(c) \subseteq Nat
  BY ImageFacts DEF Application
<1>3. ASSUME NEW i \in Application(c), isFirst(i) PROVE i = HandoffValues[k]
  BY <1>1, <1>2, <1>3
<1>4. (CHOOSE i \in Application(c) : isFirst(i)) = HandoffValues[k]
  BY <1>1, <1>3
<1> QED
  BY <1>1, <1>4 DEF First

\* The loading changes nothing the handoff has set up, since that has not begun.
LEMMA HandoffLoadStep ==
  ASSUME LoadInv, EntryInv, HandoffInv, Loading
  PROVE  HandoffInv'
<1>0. /\ handoff = "Loading" /\ CpuIndex = 1 /\ Next
      /\ handoff' = handoff /\ CpuIndex' = CpuIndex /\ regs' = regs /\ RpuMode' = RpuMode
      /\ RunningCpuHandoff' = RunningCpuHandoff /\ released' = released
  BY DEF Loading, HandoffInv, handoffVars
<1>1. (LoadInv /\ EntryInv)' /\ HandoffTypeOK
  BY <1>0, LoadStep DEF HandoffInv
<1>2. (\A c : ~Passed(c)) /\ (\A c : ~Passed(c))'
  <2>1. DOMAIN HandoffValues \subseteq Nat \ {0} /\ DOMAIN HandoffValues' \subseteq Nat \ {0}
    <3>1. HandoffValues \in Seq(DOMAIN image) /\ HandoffValues' \in Seq(DOMAIN image')
      BY <1>1 DEF LoadInv, TypeOK
    <3> QED
      BY <3>1
  <2> QED
    BY <1>0, <2>1 DEF Passed
<1>3. released = {} /\ ~RunningCpuHandoff.present
  BY <1>0, <1>2 DEF HandoffInv, RunningOfFirst
<1>4. HandoffTypeOK'
  <2>1. Len(HandoffValues)' \in Nat
    BY <1>1 DEF LoadInv, TypeOK
  <2>2. CpuIndex' \in 1..Len(HandoffValues')+1
    BY <1>0, <2>1
  <2> QED
    BY <1>0, <1>1, <2>2 DEF HandoffTypeOK, LoadInv
<1>5. RegsOfFirst'
  BY <1>0, <1>2, <1>3 DEF HandoffInv, RegsOfFirst
<1> QED
  BY <1>0, <1>2, <1>3, <1>4, <1>5 DEF HandoffInv, RunningOfFirst, RpuOfReleased

\* The handoff leaves what has been loaded, and the order of the entries.
LEMMA LoadedFixed ==
  ASSUME LoadInv, EntryInv, UNCHANGED vars
  PROVE  /\ (LoadInv /\ EntryInv)'
         /\ image' = image /\ stage' = stage /\ PartitionNum' = PartitionNum
         /\ HandoffValues' = HandoffValues /\ Header' = Header
<1>1. /\ UNCHANGED fixedVars /\ stage' = stage /\ PartitionNum' = PartitionNum /\ mem' = mem
      /\ pl' = pl /\ HandoffValues' = HandoffValues /\ UNCHANGED tcmVars /\ UNCHANGED pmuVars
  BY DEF vars
<1>2. /\ image' = image /\ ResetReason' = ResetReason /\ corrupt' = corrupt
      /\ Copied' = Copied /\ Kept' = Kept
      /\ (Disjoint' <=> Disjoint) /\ (TcmInOrder' <=> TcmInOrder)
  BY <1>1, Fixed
<1>3. TypeOK'
  BY <1>1, <1>2 DEF TypeOK, LoadInv, tcmVars, pmuVars
<1>4. Current'
  BY <1>1, <1>2 DEF LoadInv, Current, Header, NotPartitionOwner
<1>5. CopyComplete'
  BY <1>1, <1>2 DEF LoadInv, CopyComplete, Header, Stored, pmuVars
<1>6. \A i : (Over(i)' <=> Over(i)) /\ (Placed(i)' <=> Placed(i)) /\ (Entered(i)' <=> Entered(i))
  BY <1>1, <1>2 DEF Over, Placed, Entered
<1>7. Checked'
  BY <1>2, <1>6 DEF LoadInv, Checked
<1>8. \A i : LastTcm(i)' <=> LastTcm(i)
  BY <1>2, <1>6 DEF LastTcm
<1>9. TcmReady'
  BY <1>1, <1>2, <1>8 DEF LoadInv, TcmReady, tcmVars
<1>10. KeptIntact'
  BY <1>1, <1>2, <1>6 DEF LoadInv, KeptIntact, Intact
<1>11. EntryInv'
  BY <1>1, <1>6, EntriesSame
<1> QED
  BY <1>1, <1>2, <1>3, <1>4, <1>5, <1>7, <1>9, <1>10, <1>11 DEF LoadInv, Header

\* The turn of the loop for entry CpuIndex: no CPU has two.
LEMMA Turn ==
  ASSUME LoadInv, EntryInv, HandoffInv, handoff = "Cpus", CpuIndex <= Len(HandoffValues)
  PROVE  /\ CpuIndex \in DOMAIN HandoffValues /\ Entry \in Headers
         /\ HandoffCpu = EntryCpu(CpuIndex) /\ HandoffCpu \in Cpus
         /\ ~Passed(HandoffCpu)
         /\ HandoffCpu # "PMU" => First(HandoffCpu) = Entry
         /\ HandoffAddress \in Nat /\ Entry.aa32 \in BOOLEAN
         /\ stage = "Done" /\ Header = image[Len(image)] /\ Header.hivec \in BOOLEAN
<1>1. /\ HandoffValues \in Seq(DOMAIN image) /\ CpuIndex \in 1..Len(HandoffValues)+1
      /\ stage = "Done" /\ TypeOK
  BY DEF LoadInv, TypeOK, HandoffInv, HandoffTypeOK
<1>2. CpuIndex \in DOMAIN HandoffValues /\ HandoffCpu = EntryCpu(CpuIndex)
  BY <1>1 DEF HandoffCpu, Entry, EntryCpu
<1>3. Entry \in Headers
  BY <1>1, <1>2, ImageFacts DEF Entry
<1>4. ~Passed(HandoffCpu)
  <2> SUFFICES ASSUME NEW k \in DOMAIN HandoffValues, k < CpuIndex, EntryCpu(k) = HandoffCpu
               PROVE  FALSE
    BY DEF Passed
  <2>1. k = CpuIndex
    BY <1>2 DEF EntryInv, OneEntry
  <2> QED
    BY <1>1, <2>1
<1>5. HandoffCpu \in Cpus /\ HandoffAddress \in Nat /\ Entry.aa32 \in BOOLEAN
  BY <1>3, HeaderFacts DEF HandoffCpu, HandoffAddress, Headers
<1>6. Header = image[Len(image)] /\ Header.hivec \in BOOLEAN
  BY <1>1, ImageFacts DEF LoadInv, Current, Header, Headers
<1>7. HandoffCpu # "PMU" => First(HandoffCpu) = Entry
  BY <1>1, <1>2, FirstIs DEF Entry
<1> QED
  BY <1>1, <1>2, <1>3, <1>4, <1>5, <1>6, <1>7

\* After the turn the entries up to CpuIndex are passed.
LEMMA PassedNext ==
  ASSUME LoadInv, EntryInv, HandoffInv, handoff = "Cpus", CpuIndex <= Len(HandoffValues),
         UNCHANGED vars, CpuIndex' = CpuIndex + 1, NEW c
  PROVE  Passed(c)' <=> Passed(c) \/ c = HandoffCpu
<1>1. /\ HandoffValues' = HandoffValues /\ \A k : EntryCpu(k)' = EntryCpu(k)
  BY DEF vars, fixedVars, EntryCpu
<1>2. CpuIndex \in DOMAIN HandoffValues /\ HandoffCpu = EntryCpu(CpuIndex) /\ CpuIndex \in Nat
      /\ DOMAIN HandoffValues \subseteq Nat
  <2>1. CpuIndex \in DOMAIN HandoffValues /\ HandoffCpu = EntryCpu(CpuIndex)
    BY Turn
  <2>2. HandoffValues \in Seq(DOMAIN image)
    BY DEF LoadInv, TypeOK, HandoffInv, HandoffTypeOK
  <2>3. DOMAIN HandoffValues \subseteq Nat
    BY <2>2
  <2> QED
    BY <2>1, <2>3
<1>3. \A k \in DOMAIN HandoffValues : k < CpuIndex + 1 <=> k < CpuIndex \/ k = CpuIndex
  BY <1>2
<1> QED
  BY <1>1, <1>2, <1>3 DEF Passed

\* A CPU other than the running one is released with its registers set.
LEMMA OtherCpuStep ==
  ASSUME LoadInv, EntryInv, HandoffInv, HandoffOtherCpu
  PROVE  HandoffInv'
<1>0. /\ handoff = "Cpus" /\ CpuIndex <= Len(HandoffValues) /\ SetCpuPwrSettings
      /\ CpuIndex' = CpuIndex + 1 /\ UNCHANGED vars /\ handoff' = handoff
      /\ RunningCpuHandoff' = RunningCpuHandoff /\ HandoffTypeOK
  BY DEF HandoffOtherCpu, HandoffInv
<1>c. PICK c \in (A53 \cup R5) \ {RunningCpu} : c = HandoffCpu
  BY DEF HandoffOtherCpu
<1>1. /\ CpuIndex \in DOMAIN HandoffValues /\ ~Passed(c) /\ First(c) = Entry
      /\ HandoffAddress \in Nat /\ Entry.aa32 \in BOOLEAN
      /\ Header = image[Len(image)] /\ Header.hivec \in BOOLEAN /\ stage = "Done"
  BY <1>0, <1>c, Turn DEF A53, R5
<1>2. /\ image' = image /\ stage' = stage /\ HandoffValues' = HandoffValues
      /\ (LoadInv /\ EntryInv)'
  BY <1>0, LoadedFixed
<1>3. \A d : First(d)' = First(d) /\ (Built32(d)' <=> Built32(d)) /\ FirstAddress(d)' = FirstAddress(d)
  BY <1>0, FixedApplication DEF vars, Built32, FirstAddress
<1>4. \A d : Passed(d)' <=> Passed(d) \/ d = c
  BY <1>0, <1>c, PassedNext
<1>5. /\ regs \in [A53 \cup R5 -> [aa32 : BOOLEAN, VINITHI : BOOLEAN, RVBAR : Nat]]
      /\ regs[c] \in [aa32 : BOOLEAN, VINITHI : BOOLEAN, RVBAR : Nat] /\ ~regs[c].aa32
  BY <1>0, <1>1 DEF HandoffTypeOK, HandoffInv, RegsOfFirst
<1>6. /\ Is32BitCpu <=> Built32(c) 
      /\ HandoffAddress = FirstAddress(c)
  BY <1>c, <1>1 DEF Is32BitCpu, Built32, HandoffAddress, FirstAddress
<1>7. /\ regs' \in [A53 \cup R5 -> [aa32 : BOOLEAN, VINITHI : BOOLEAN, RVBAR : Nat]]
      /\ \A d \in (A53 \cup R5) \ {c} : regs'[d] = regs[d]
      /\ regs'[c].aa32 = (c \in A53 /\ First(c).aa32)
      /\ Built32(c) => regs'[c].VINITHI = image[Len(image)].hivec
      /\ ~Built32(c) => regs'[c].RVBAR = FirstAddress(c)
  <2> DEFINE v == IF Is32BitCpu THEN Header.hivec ELSE regs[c].VINITHI
             w == IF Is32BitCpu THEN regs[c].RVBAR ELSE HandoffAddress
             b == c \in A53 /\ First(c).aa32
             u == [regs[c] EXCEPT !.VINITHI = v, !.RVBAR = w]
             r == [u EXCEPT !.aa32 = u.aa32 \/ b]
  <2>v. v \in BOOLEAN /\ w \in Nat /\ b \in BOOLEAN
    BY <1>1, <1>5
  <2>b. (c \in A53 /\ Entry.aa32) <=> b
    BY <1>1
  <2>1. regs' = [regs EXCEPT ![c] = r]
    BY <1>0, <1>c, <2>b DEF SetCpuPwrSettings, UpdateResetVector
  <2>h. /\ Built32(c) => v = image[Len(image)].hivec
        /\ ~Built32(c) => w = FirstAddress(c)
    BY <1>1, <1>6
  <2> HIDE DEF v, w, b
  <2>u. u \in [aa32 : BOOLEAN, VINITHI : BOOLEAN, RVBAR : Nat] /\ u.VINITHI = v /\ u.RVBAR = w /\ ~u.aa32
    BY <1>5, <2>v
  <2> HIDE DEF u
  <2>r. u.aa32 \/ b <=> b
    BY <2>u
  <2>2. r \in [aa32 : BOOLEAN, VINITHI : BOOLEAN, RVBAR : Nat] /\ r.VINITHI = v /\ r.RVBAR = w
    BY <2>u, <2>v
  <2>3. r.aa32 = b
    BY <2>u, <2>v, <2>r
  <2>4. /\ Built32(c) => r.VINITHI = image[Len(image)].hivec
        /\ ~Built32(c) => r.RVBAR = FirstAddress(c)
    BY <2>2, <2>h
  <2> HIDE DEF r
  <2> QED
    BY <1>5, <2>1, <2>2, <2>3, <2>4 DEF b
<1>8. released' = released \cup {c}
  BY <1>0, <1>c DEF SetCpuPwrSettings
<1>9. HandoffTypeOK'
  <2>1. CpuIndex' \in 1..Len(HandoffValues')+1
    BY <1>0, <1>1, <1>2 DEF HandoffTypeOK, LoadInv, TypeOK
  <2>2. RpuMode' \in {"split", "lockstep"}
    BY <1>0 DEF SetCpuPwrSettings, HandoffTypeOK
  <2> QED
    BY <1>0, <1>2, <1>7, <1>8, <2>1, <2>2 DEF HandoffTypeOK, LoadInv
<1>10. RegsOfFirst'
  <2>1. ASSUME NEW d \in released' \ {RunningCpu}
        PROVE  /\ regs'[d].aa32 = (d \in A53 /\ First(d).aa32)
               /\ Built32(d) => regs'[d].VINITHI = image[Len(image)].hivec
               /\ ~Built32(d) => regs'[d].RVBAR = FirstAddress(d)
    <3>1. CASE d = c
      BY <1>7, <3>1
    <3>2. CASE d # c
      <4>1. d \in released \ {RunningCpu} /\ d \in (A53 \cup R5) \ {c}
        BY <1>0, <1>8, <2>1, <3>2 DEF HandoffTypeOK
      <4> QED
        BY <1>7, <4>1 DEF HandoffInv, RegsOfFirst
    <3> QED
      BY <3>1, <3>2
  <2>2. ASSUME NEW d \in A53 \cup R5, d = RunningCpu \/ ~Passed(d)'
        PROVE  ~regs'[d].aa32
    <3>1. d # c /\ (d = RunningCpu \/ ~Passed(d))
      BY <1>4, <2>2
    <3> QED
      BY <1>7, <3>1 DEF HandoffInv, RegsOfFirst
  <2> QED
    BY <1>2, <1>3, <2>1, <2>2 DEF RegsOfFirst
<1>11. RunningOfFirst'
  BY <1>0, <1>3, <1>4, <1>8 DEF HandoffInv, RunningOfFirst
<1>12. RpuOfReleased'
  <2>1. RpuMode' = IF c \in {"R0", "R1"} THEN "split" ELSE IF c = "RL" THEN "lockstep" ELSE RpuMode
    BY <1>0, <1>c DEF SetCpuPwrSettings
  <2> QED
    BY <1>8, <2>1 DEF HandoffInv, RpuOfReleased
<1>13. \A d \in released' : Passed(d)'
  BY <1>4, <1>8 DEF HandoffInv
<1> QED
  BY <1>0, <1>1, <1>2, <1>9, <1>10, <1>11, <1>12, <1>13 DEF HandoffInv

\* The running CPU's turn leaves the registers, and records where it will go.
LEMMA RunningCpuStep ==
  ASSUME LoadInv, EntryInv, HandoffInv, HandoffRunningCpu
  PROVE  HandoffInv'
<1>0. /\ handoff = "Cpus" /\ CpuIndex <= Len(HandoffValues) /\ HandoffCpu = RunningCpu
      /\ RunningCpuHandoff' = [present |-> TRUE, address |-> HandoffAddress]
      /\ UNCHANGED vars /\ regs' = regs /\ RpuMode' = RpuMode /\ released' = released
      /\ HandoffTypeOK
  BY DEF HandoffRunningCpu, HandoffInv
<1>1. /\ CpuIndex \in DOMAIN HandoffValues /\ First(RunningCpu) = Entry
      /\ HandoffAddress \in Nat /\ Entry.aa32 \in BOOLEAN /\ stage = "Done"
  BY <1>0, Turn DEF RunningCpu
<1>2. /\ image' = image /\ stage' = stage /\ HandoffValues' = HandoffValues
      /\ (LoadInv /\ EntryInv)'
  BY <1>0, LoadedFixed
<1>3. \A d : First(d)' = First(d) /\ (Built32(d)' <=> Built32(d)) /\ FirstAddress(d)' = FirstAddress(d)
  BY <1>0, FixedApplication DEF vars, Built32, FirstAddress
<1>4. RunningCpu \notin released
  BY <1>0 DEF HandoffInv, RunningOfFirst
<1>5. RunningCpuHandoff' \in [present : BOOLEAN, address : Nat]
  BY <1>0, <1>1
<1>6. CASE Entry.aa32
  <2>1. handoff' = "Err" /\ CpuIndex' = CpuIndex
    BY <1>6 DEF HandoffRunningCpu
  <2>2. \A d : Passed(d)' <=> Passed(d)
    BY <1>0, <1>2, <2>1 DEF Passed, EntryCpu
  <2>3. HandoffTypeOK'
    BY <1>0, <1>2, <1>5, <2>1 DEF HandoffTypeOK, LoadInv
  <2>4. RegsOfFirst'
    BY <1>0, <1>2, <1>3, <2>2 DEF HandoffInv, RegsOfFirst
  <2>5. RunningOfFirst'
    BY <1>0, <1>4, <2>1 DEF RunningOfFirst
  <2> QED
    BY <1>0, <1>1, <1>2, <2>1, <2>2, <2>3, <2>4, <2>5 DEF HandoffInv, RpuOfReleased
<1>7. CASE ~Entry.aa32
  <2>1. handoff' = handoff /\ CpuIndex' = CpuIndex + 1
    BY <1>7 DEF HandoffRunningCpu
  <2>2. \A d : Passed(d)' <=> Passed(d) \/ d = RunningCpu
    BY <1>0, <2>1, PassedNext
  <2>3. HandoffTypeOK'
    <3>1. CpuIndex' \in 1..Len(HandoffValues')+1
      BY <1>0, <1>1, <1>2, <2>1 DEF HandoffTypeOK, LoadInv, TypeOK
    <3> QED
      BY <1>0, <1>2, <1>5, <2>1, <3>1 DEF HandoffTypeOK, LoadInv
  <2>4. RegsOfFirst'
    BY <1>0, <1>2, <1>3, <2>2 DEF HandoffInv, RegsOfFirst
  <2>5. RunningOfFirst'
    <3>1. HandoffAddress = FirstAddress(RunningCpu)
      BY <1>1 DEF HandoffAddress, FirstAddress
    <3> QED
      BY <1>0, <1>1, <1>3, <1>4, <1>7, <2>2, <3>1 DEF RunningOfFirst
  <2> QED
    BY <1>0, <1>1, <1>2, <2>1, <2>2, <2>3, <2>4, <2>5 DEF HandoffInv, RpuOfReleased
<1> QED
  BY <1>6, <1>7

\* The beginning, a refusal and the exit leave the registers and the loop alone.
LEMMA OutsideLoopStep ==
  ASSUME LoadInv, EntryInv, HandoffInv, BeginHandoff \/ HandoffRefused \/ HandoffExit
  PROVE  HandoffInv'
<1>0. /\ UNCHANGED vars /\ CpuIndex' = CpuIndex /\ regs' = regs /\ RpuMode' = RpuMode
      /\ RunningCpuHandoff' = RunningCpuHandoff /\ HandoffTypeOK /\ stage = "Done"
  BY DEF BeginHandoff, HandoffRefused, HandoffExit, HandoffInv
<1>2. /\ image' = image /\ stage' = stage /\ HandoffValues' = HandoffValues
      /\ (LoadInv /\ EntryInv)'
  BY <1>0, LoadedFixed
<1>3. \A d : First(d)' = First(d) /\ (Built32(d)' <=> Built32(d)) /\ FirstAddress(d)' = FirstAddress(d)
  BY <1>0, FixedApplication DEF vars, Built32, FirstAddress
<1>4. \A d : Passed(d)' <=> Passed(d)
  BY <1>0, <1>2 DEF Passed, EntryCpu
<1>5. /\ handoff' \in {"Cpus", "Exited", "Err"}
      /\ RunningCpu \notin released
      /\ \/ released' = released
         \/ handoff' = "Exited" /\ handoff = "Cpus" /\ RunningCpuHandoff.present
            /\ released' = released \cup {RunningCpu}
      /\ handoff # "Err"
  BY DEF BeginHandoff, HandoffRefused, HandoffExit, HandoffInv, RunningOfFirst
<1>6. \A d \in released' : Passed(d)'
  BY <1>4, <1>5 DEF HandoffInv, RunningOfFirst
<1>7. HandoffTypeOK'
  BY <1>0, <1>2, <1>5 DEF HandoffTypeOK, LoadInv, RunningCpu, A53
<1>8. RegsOfFirst'
  <2>1. released' \ {RunningCpu} = released \ {RunningCpu}
    BY <1>5
  <2> QED
    BY <1>0, <1>2, <1>3, <1>4, <2>1 DEF HandoffInv, RegsOfFirst
<1>9. RunningOfFirst'
  BY <1>0, <1>3, <1>4, <1>5 DEF HandoffInv, RunningOfFirst
<1>10. RpuOfReleased'
  <2>1. released' \cap {"R0", "R1"} = released \cap {"R0", "R1"} /\ ("RL" \in released' <=> "RL" \in released)
    BY <1>5 DEF RunningCpu
  <2> QED
    BY <1>0, <2>1 DEF HandoffInv, RpuOfReleased
<1> QED
  BY <1>0, <1>2, <1>5, <1>6, <1>7, <1>8, <1>9, <1>10 DEF HandoffInv

\* Nothing is loaded, entered or released at first.
LEMMA InitInv ==
  ASSUME HandoffInit
  PROVE  IInv
<1>0. /\ image \in Images /\ ResetReason \in {"SYSTEM", "PS_ONLY", "APU_ONLY"}
      /\ corrupt \subseteq DOMAIN image /\ stage = "Header" /\ PartitionNum = 1
      /\ mem = <<>> /\ pl = 0 /\ HandoffValues = <<>> /\ TcmEccInitStatus = {} /\ inited = {}
      /\ pmu \in {"asleep", "awake"} /\ ipi = FALSE /\ pmuFw = "none"
      /\ handoff = "Loading" /\ CpuIndex = 1 /\ RpuMode = "lockstep" /\ released = {}
      /\ regs = [c \in A53 \cup R5 |-> [aa32 |-> FALSE, VINITHI |-> c \in R5, RVBAR |-> 0]]
      /\ RunningCpuHandoff = [present |-> FALSE, address |-> 0]
  BY DEF HandoffInit, Init
<1>1. TypeOK
  <2>1. 1 \in DOMAIN image
    <3>1. image \in Seq(Headers) /\ Len(image) >= 1
      BY <1>0, PartitionAssumption
    <3> QED
      BY <3>1
  <2>2. Len(<<>>) <= Cardinality(Cpus)
    <3>1. Len(<<>>) = 0 /\ Cardinality(Cpus) \in Nat
      BY CpusFinite
    <3> QED
      BY <3>1
  <2>3. DOMAIN mem = {}
    BY <1>0
  <2>4. HandoffValues \in Seq(DOMAIN image)
    BY <1>0
  <2>5. Len(HandoffValues) <= Cardinality(Cpus)
    BY <1>0, <2>2
  <2>6. \A a \in DOMAIN mem : mem[a] \in (DOMAIN image \cup {0}) \X {"ecc", "stored", "plain"}
    BY <2>3
  <2> QED
    BY <1>0, <2>1, <2>4, <2>5, <2>6 DEF TypeOK, Stages
<1>2. \A i \in DOMAIN image : ~Placed(i) /\ ~Over(i) /\ ~Entered(i)
  <2>1. DOMAIN image \subseteq Nat \ {0}
    BY <1>1, ImageFacts
  <2> QED
    BY <1>0, <2>1 DEF Placed, Over, Entered
<1>3. LoadInv
  BY <1>0, <1>1, <1>2, ImageFacts
     DEF LoadInv, Current, CopyComplete, Checked, TcmReady, LastTcm, KeptIntact
<1>4. EntryInv
  BY <1>0, <1>2 DEF EntryInv, EntryIsFirst, OneEntry, HasEntry, Application
<1>5. \A c : ~Passed(c)
  BY <1>0 DEF Passed
<1>6. HandoffTypeOK
  BY <1>0, <1>1 DEF HandoffTypeOK
<1>7. RegsOfFirst
  BY <1>0 DEF RegsOfFirst
<1>8. RunningOfFirst /\ RpuOfReleased
  BY <1>0 DEF RunningOfFirst, RpuOfReleased
<1> QED
  BY <1>0, <1>3, <1>4, <1>5, <1>6, <1>7, <1>8 DEF IInv, HandoffInv

-----------------------------------------------------------------------------
(* The theorems.                                                           *)

\* The invariant of the loading and the handoff together.
THEOREM HandoffInvariant == HandoffSpec => []IInv
<1>1. HandoffInit => IInv
  BY InitInv
<1>2. IInv /\ [HandoffNext]_<<vars, handoffVars>> => IInv'
  <2> SUFFICES ASSUME IInv, [HandoffNext]_<<vars, handoffVars>>
               PROVE  IInv'
    OBVIOUS
  <2>0. LoadInv /\ EntryInv /\ HandoffInv
    BY DEF IInv
  <2>1. CASE Loading
    <3>1. Next
      BY <2>1 DEF Loading
    <3> QED
      BY <2>0, <2>1, <3>1, LoadStep, HandoffLoadStep DEF IInv
  <2>2. CASE Handoff
    <3>1. UNCHANGED vars
      BY <2>2 DEF Handoff, BeginHandoff, HandoffOtherCpu, HandoffRefused, HandoffRunningCpu, HandoffExit
    <3> QED
      BY <2>0, <2>2, <3>1, LoadedFixed, OtherCpuStep, RunningCpuStep, OutsideLoopStep
         DEF Handoff, IInv
  <2>3. CASE UNCHANGED <<vars, handoffVars>>
    <3>0. UNCHANGED vars /\ UNCHANGED handoffVars
      BY <2>3
    <3>1. /\ (LoadInv /\ EntryInv)' /\ image' = image /\ stage' = stage
          /\ HandoffValues' = HandoffValues
      BY <2>0, <3>0, LoadedFixed
    <3>2. /\ handoff' = handoff /\ CpuIndex' = CpuIndex /\ regs' = regs /\ RpuMode' = RpuMode
          /\ RunningCpuHandoff' = RunningCpuHandoff /\ released' = released
      BY <3>0 DEF handoffVars
    <3>3. \A d : First(d)' = First(d) /\ (Built32(d)' <=> Built32(d)) /\ FirstAddress(d)' = FirstAddress(d)
      BY <3>0, FixedApplication DEF vars, Built32, FirstAddress
    <3>4. \A d : Passed(d)' <=> Passed(d)
      BY <3>1, <3>2 DEF Passed, EntryCpu
    <3>5. HandoffTypeOK'
      BY <2>0, <3>1, <3>2 DEF HandoffTypeOK, LoadInv, HandoffInv
    <3>6. RegsOfFirst' /\ RunningOfFirst' /\ RpuOfReleased'
      BY <2>0, <3>1, <3>2, <3>3, <3>4 DEF HandoffInv, RegsOfFirst, RunningOfFirst, RpuOfReleased
    <3> QED
      BY <2>0, <3>1, <3>2, <3>4, <3>5, <3>6 DEF IInv, HandoffInv
  <2> QED
    BY <2>1, <2>2, <2>3 DEF HandoffNext
<1> QED
  BY <1>1, <1>2, PTL DEF HandoffSpec

\* Every variable of the loading and the handoff has its type, and a CPU at most
\* one entry in HandoffValues.
THEOREM TypeCorrect == HandoffSpec => []HandoffTypeOK
<1>1. IInv => HandoffTypeOK
  BY DEF IInv, HandoffInv
<1> QED
  BY <1>1, HandoffInvariant, PTL

\* When an image is loaded, each of its partitions is in memory as it was built,
\* and none that is checked is corrupt.
THEOREM LoadedStaysIntact == HandoffSpec => []LoadedIntact
<1>1. IInv => LoadedIntact
  <2> SUFFICES ASSUME IInv, stage = "Done", Disjoint, TcmInOrder, NEW i \in Kept
               PROVE  Intact(i) /\ (Secured(image[i]) => i \notin corrupt)
    BY DEF LoadedIntact
  <2>1. TypeOK /\ Current /\ KeptIntact
    BY DEF IInv, LoadInv
  <2>2. Over(i)
    <3>1. i \in 1..Len(image) /\ PartitionNum = Len(image) /\ Len(image) \in Nat
      BY <2>1, ImageFacts DEF Current
    <3>2. i < PartitionNum \/ i = PartitionNum
      BY <3>1
    <3> QED
      BY <3>2 DEF Over
  <2> QED
    BY <2>1, <2>2 DEF KeptIntact
<1> QED
  BY <1>1, HandoffInvariant, PTL

\* What a write changes is among the units it writes.
LEMMA WriteChanges ==
  ASSUME NEW units, NEW content, Write(units, content), NEW a \in DOMAIN mem',
         a \notin DOMAIN mem \/ mem'[a] # mem[a]
  PROVE  a \in units
BY DEF Write

\* The RAM of the PMU is written while its processor sleeps, and only then.
THEOREM PmuQuiet == HandoffSpec => PmuRamQuiet
<1>1. ASSUME IInv, Next, PmuRamApart, PmuRamWritten
      PROVE  pmu = "asleep"
  <2>0. TypeOK /\ Current /\ CopyComplete /\ Header \in Headers
    BY <1>1, ImageFacts DEF IInv, LoadInv
  <2>1. PICK a \in DOMAIN mem' \cap PmuRam : a \notin DOMAIN mem \/ mem'[a] # mem[a]
    BY <1>1 DEF PmuRamWritten
  <2>2. ASSUME PartitionNum \in Copied, a \in CopyRegion(Header)
        PROVE  Header.cpu = "PMU"
    BY <1>1, <2>1, <2>2 DEF PmuRamApart, Header
  <2>3. mem' # mem
    BY <2>1
  <2>4. CASE InTcm(Header) /\ TcmEccInit(Header.cpu)
    <3>1. Header.cpu \in R5 /\ a \in TcmUnits(Header.cpu)
      BY <2>0, <2>1, <2>4, HeaderFacts, WriteChanges DEF TcmEccInit
    <3> QED
      BY <2>1, <3>1, TcmUnitsFacts
  <2>5. CASE DeviceCopy
    <3>1. PartitionNum \in Copied /\ a \in CopyRegion(Header) /\ PmuReady(Header)
      BY <2>0, <2>1, <2>5, WriteChanges DEF DeviceCopy, Current
    <3> QED
      BY <2>2, <3>1 DEF PmuReady
  <2>6. CASE PartitionValidation /\ Header.enc /\ Write(Region(Header), <<PartitionNum, "plain">>)
             /\ ~PlKept(Header)
    <3>1. stage = "Validate" /\ a \in CopyRegion(Header)
      BY <2>0, <2>1, <2>6, WriteChanges, HeaderFacts DEF PartitionValidation
    <3>2. PartitionNum \in Copied
      BY <2>0, <2>6, <3>1, ImageFacts DEF Current, ValidPartitionHeader, Copied, Header
    <3> QED
      BY <2>0, <2>2, <3>1, <3>2 DEF CopyComplete
  <2> QED
    BY <1>1, <2>3, <2>4, <2>5, <2>6
       DEF Next, Load, HeaderValidation, PartitionCopy, PartitionValidation, CheckPmuFw,
           PmuWokenUp, CallFails, PmuSleeps, PmuStarts, ConfigureMemory, Decrypt
<1>2. IInv /\ [HandoffNext]_<<vars, handoffVars>> => [PmuRamApart /\ PmuRamWritten => pmu = "asleep"]_vars
  <2>1. ASSUME IInv, HandoffNext PROVE [PmuRamApart /\ PmuRamWritten => pmu = "asleep"]_vars
    <3>1. CASE Loading
      BY <1>1, <2>1, <3>1 DEF Loading
    <3>2. CASE Handoff
      BY <3>2 DEF Handoff, BeginHandoff, HandoffOtherCpu, HandoffRefused, HandoffRunningCpu, HandoffExit
    <3> QED
      BY <2>1, <3>1, <3>2 DEF HandoffNext
  <2> QED
    BY <2>1
<1> QED
  BY <1>2, HandoffInvariant, PTL DEF HandoffSpec, PmuRamQuiet

\* The address of the first partition of a 64-bit application is in that partition.
LEMMA AddressInRegion ==
  ASSUME NEW p \in Headers, p.exec, ~Xip(p), p.dev = "PS", DestinationCpu(p) \notin R5
  PROVE  p.load \in Region(p)
<1>1. p.load \in Nat /\ p.len \in Nat /\ p.len # 0
  BY HeaderFacts DEF Xip
<1>2. LoadAddress(p) = p.load
  BY HeaderFacts DEF LoadAddress
<1> QED
  BY <1>1, <1>2 DEF Region

\* A CPU that is released starts in its own application, intact in memory, in the
\* state this was built for, and the RPU is in the mode of the R5s that run.
THEOREM StartsRight == HandoffSpec => []StartsInItsApplication
<1>1. IInv => StartsInItsApplication
  <2> SUFFICES ASSUME IInv, NEW c \in released
               PROVE  /\ Disjoint /\ TcmInOrder /\ Startable(c) =>
                           \E i \in Application(c) : Start(c) \in Region(image[i]) /\ Intact(i)
                      /\ c \in A53 => regs[c].aa32 = First(c).aa32
                      /\ OneRpuMode /\ c \in R5 => RpuMode = IF c = "RL" THEN "lockstep" ELSE "split"
    BY DEF StartsInItsApplication
  <2>0. /\ LoadInv /\ EntryInv /\ HandoffInv /\ TypeOK /\ HandoffTypeOK /\ c \in A53 \cup R5
        /\ RegsOfFirst /\ RunningOfFirst /\ RpuOfReleased
    BY DEF IInv, LoadInv, HandoffInv, HandoffTypeOK
  <2>1. ASSUME NEW d \in A53 \cup R5, Passed(d)
        PROVE  \E i \in Application(d) : First(d) = image[i]
    <3>1. PICK k \in DOMAIN HandoffValues : EntryCpu(k) = d
      BY <2>1 DEF Passed
    <3> QED
      BY <2>0, <3>1, FirstIs DEF A53, R5
  <2>2. \A d \in released : Passed(d) /\ d \in A53 \cup R5
    BY <2>0 DEF HandoffInv, HandoffTypeOK
  <2>3. PICK f \in Application(c) : First(c) = image[f]
    BY <2>1, <2>2
  <2>4. stage = "Done"
    <3>1. PICK k \in DOMAIN HandoffValues : k < CpuIndex
      BY <2>2 DEF Passed
    <3>2. k \in Nat \ {0}
      BY <2>0 DEF TypeOK
    <3>3. CpuIndex # 1
      BY <3>1, <3>2
    <3> QED
      BY <2>0, <3>3 DEF HandoffInv
  <2>5. First(c) \in Headers /\ First(c).aa32 \in BOOLEAN /\ regs[c].aa32 \in BOOLEAN
    <3>1. First(c) \in Headers
      BY <2>0, <2>3, ImageFacts DEF Application
    <3>2. regs[c] \in [aa32 : BOOLEAN, VINITHI : BOOLEAN, RVBAR : Nat]
      BY <2>0 DEF HandoffTypeOK
    <3> QED
      BY <3>1, <3>2 DEF Headers
  <2>6. c = RunningCpu => /\ ~regs[c].aa32 /\ ~First(c).aa32
                          /\ RunningCpuHandoff.address = FirstAddress(c)
    BY <2>0 DEF RegsOfFirst, RunningOfFirst
  <2>7. c # RunningCpu => /\ regs[c].aa32 = (c \in A53 /\ First(c).aa32)
                          /\ Built32(c) => regs[c].VINITHI = image[Len(image)].hivec
                          /\ ~Built32(c) => regs[c].RVBAR = FirstAddress(c)
    BY <2>0 DEF RegsOfFirst
  <2>8. c \in A53 => regs[c].aa32 = First(c).aa32
    BY <2>5, <2>6, <2>7
  <2>9. ASSUME Disjoint, TcmInOrder, Startable(c)
        PROVE  \E i \in Application(c) : Start(c) \in Region(image[i]) /\ Intact(i)
    <3>1. \A i \in Application(c) : ~Xip(image[i]) /\ image[i].dev = "PS" /\ i \in Kept
      BY <2>9 DEF Startable, Application, Kept, Copied, PlKept
    <3>2. \A i \in Application(c) : Intact(i)
      <4>1. \A i \in Kept : Over(i)
        <5>1. Kept \subseteq 1..Len(image) /\ PartitionNum = Len(image) /\ Len(image) \in Nat
          BY <2>0, <2>4, ImageFacts DEF LoadInv, Current
        <5>2. \A i \in Kept : i < PartitionNum \/ i = PartitionNum
          BY <5>1
        <5> QED
          BY <2>4, <5>2 DEF Over
      <4> QED
        BY <2>0, <2>9, <3>1, <4>1 DEF LoadInv, KeptIntact
    <3>3. CASE Built32(c)
      <4>1. c # RunningCpu /\ (c \in R5 \/ regs[c].aa32)
        BY <2>6, <2>8, <3>3, <2>0 DEF Built32, RunningCpu, R5
      <4>2. Start(c) = Vectors(c, First(c).hivec)
        BY <2>7, <2>9, <3>3, <4>1 DEF Start, Startable, Built32
      <4>3. PICK i \in Application(c) : Vectors(c, First(c).hivec) \in Region(image[i])
        BY <2>9, <3>3 DEF Startable, Built32
      <4> QED
        BY <3>2, <4>2, <4>3
    <3>4. CASE ~Built32(c)
      <4>1. c \in A53 /\ c \notin R5 /\ ~regs[c].aa32 /\ First(c).exec
        BY <2>0, <2>8, <2>9, <3>4 DEF Built32, Startable
      <4>2. Start(c) = First(c).load
        BY <2>6, <2>7, <3>4, <4>1 DEF Start, FirstAddress
      <4>3. DestinationCpu(image[f]) = c
        BY DEF Application
      <4>4. First(c).load \in Region(image[f])
        BY <2>3, <2>5, <3>1, <4>1, <4>3, AddressInRegion
      <4> QED
        BY <3>2, <4>2, <4>4
    <3> QED
      BY <3>3, <3>4
  <2>10. ASSUME OneRpuMode, c \in R5
         PROVE  RpuMode = IF c = "RL" THEN "lockstep" ELSE "split"
    <3>1. \A d \in released : Application(d) # {}
      BY <2>1, <2>2
    <3>2. CASE c = "RL"
      <4>1. released \cap {"R0", "R1"} = {}
        BY <2>10, <3>1, <3>2 DEF OneRpuMode
      <4> QED
        BY <2>0, <3>2, <4>1 DEF RpuOfReleased
    <3>3. CASE c \in {"R0", "R1"}
      <4>1. "RL" \notin released
        BY <2>10, <3>1, <3>3 DEF OneRpuMode
      <4> QED
        BY <2>0, <3>3, <4>1 DEF RpuOfReleased
    <3> QED
      BY <2>10, <3>2, <3>3 DEF R5
  <2> QED
    BY <2>8, <2>9, <2>10
<1> QED
  BY <1>1, HandoffInvariant, PTL
=============================================================================
