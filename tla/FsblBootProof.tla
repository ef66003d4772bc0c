--------------------------- MODULE FsblBootProof ---------------------------
(***************************************************************************)
(* Proofs about FsblBoot, for every set of images, every number of slots   *)
(* and of resets: CPUs are released with their applications loaded, none   *)
(* twice and none forgotten; the PL has the bitstream of the image; no     *)
(* good image is passed over.                                              *)
(***************************************************************************)
EXTENDS FsblBoot, SequenceTheorems, TLAPS

\* Partitions that XFsbl_PartitionLoad brings to memory or to the PL.
Loadable(i) == /\ ~NotPartitionOwner(parts[i])
               /\ ~(parts[i].dev = "PL" /\ ResetReason = "PS_ONLY")

\* A boot that loads or hands off, and the partitions it is done with.
Underway == stage \in {"Stage3", "Stage4", "Handoff"} /\ BootMode = "flash"
Passed == IF stage = "Stage3" THEN 1..PartitionNum-1 ELSE 1..PartitionNum
Entries == 1..Len(HandoffValues)

\* Where the program is, what is still as a reset left it.
Fresh == /\ PartitionNum = 0 /\ ~EarlyHandoff /\ CpuIndexEarlyHandoff = 0 /\ CpuIndex = 0
         /\ ~RunningCpuHandoffAddressPresent
AllReset == cpu = [c \in Cpus |-> "reset"]
Places ==
  /\ stage \in {"Rom", "RomLockdown", "Stage1", "Stage2"} =>
       Fresh /\ (~ApuOnly => HandoffValues = <<>> /\ AllReset /\ r5Used = {} /\ loaded = {})
  /\ stage \in {"Rom", "RomLockdown"} => ~ApuOnly
  /\ stage = "Stage2" => HandoffValues = <<>>
  /\ stage \in {"Stage3", "Handoff"} => BootMode = "flash"
  /\ BootMode # "flash" => AllReset
  /\ Underway => PartitionNum \in DOMAIN parts
  /\ Underway /\ stage # "Stage3" /\ ~EarlyHandoff => PartitionNum = LastPartition
  /\ ApuOnly => self = "A0" /\ BootMode = "flash"
  /\ EarlyHandoff => early
  /\ stage = "Spin" => skewed
  /\ stage = "Exited" => BootMode = "flash"
  /\ stage = "Stage4" => BootMode # "usb"
  /\ stage \in {"Stage1", "Stage2"} /\ ApuOnly => \A c \in A53 : cpu[c] = "reset"

\* HandoffValues lists the CPUs of the programs loaded so far, each once.
EntriesInStep ==
  Underway =>
    /\ \A k, l \in Entries : HandoffValues[k] = HandoffValues[l] => k = l
    /\ \A k \in Entries : \E i \in Passed :
          Loadable(i) /\ parts[i].dev = "PS" /\ Destination(parts[i]) = HandoffValues[k]
    /\ \A i \in Passed : Loadable(i) /\ parts[i].dev = "PS" =>
          \E k \in Entries : HandoffValues[k] = Destination(parts[i])
    /\ \A i \in Passed : Loadable(i) => i \in loaded
    /\ ~ApuOnly => loaded \subseteq Passed
    /\ \A i \in Passed : Destination(parts[i]) \in R5 => Destination(parts[i]) \in r5Used

\* The PL has the bitstream of the image at multiboot or none.
PlOrigin ==
  /\ ~skewed => pl \in {multiboot, NoPl}
  /\ pl # NoPl => pl \in 0..Slots-1 /\ flash[pl] # NoImage
  /\ Underway /\ ResetReason = "SYSTEM" =>
       \A i \in Passed : Loadable(i) /\ parts[i].dev = "PL" => pl = multiboot

\* The indices of early and regular handoffs.
Indices ==
  /\ EarlyHandoff /\ stage = "Handoff" => CpuIndex = CpuIndexEarlyHandoff
  /\ stage = "Stage3" \/ (stage = "Stage4" /\ EarlyHandoff)
       => CpuIndexEarlyHandoff <= Len(HandoffValues)

\* Has the turn of entry k come?  An R5 of a build with early handoff has it there.
TurnOver(k) ==
  IF early /\ HandoffValues[k] \in R5
    THEN \/ k <= CpuIndexEarlyHandoff
         \/ ~EarlyHandoff /\ stage \in {"Stage4", "Handoff"}
    ELSE stage = "Handoff" /\ ~EarlyHandoff /\ k <= CpuIndex

\* A CPU runs after its turn, or as an R5 that an APU restart left alone.
Turns ==
  /\ \A c \in Cpus : cpu[c] # "disturbed"
  /\ Underway => \A c \in Cpus : cpu[c] # "reset" =>
       (ApuOnly /\ c \in R5) \/ \E k \in Entries : HandoffValues[k] = c /\ TurnOver(k)

\* What a regular handoff has seen has been handed off, here or early.
Seen ==
  stage = "Handoff" /\ ~EarlyHandoff =>
    \A k \in 1..CpuIndex :
      \/ HandoffValues[k] = self /\ RunningCpuHandoffAddressPresent
      \/ HandoffValues[k] # self /\ cpu[HandoffValues[k]] # "reset"
      \/ early /\ HandoffValues[k] \in R5 \ {self}
OwnCpuSeen ==
  stage = "Handoff" /\ RunningCpuHandoffAddressPresent => \E k \in Entries : HandoffValues[k] = self

\* Where early handoff is usable, the R5 entries are released but for the one whose
\* partitions are being loaded, or whose turn it is.
EarlyInStep ==
  Underway /\ early /\ Usable =>
    \A k \in Entries : HandoffValues[k] \in R5 /\ cpu[HandoffValues[k]] = "reset" =>
      /\ k = Len(HandoffValues) /\ k > CpuIndexEarlyHandoff
      /\ HandoffValues[k] = Destination(Header)
      /\ stage = "Stage3" \/ EarlyHandoff
EarlyTurn ==
  Underway /\ early /\ Usable /\ stage # "Stage3" /\ EarlyHandoff =>
    /\ CheckEarlyHandoff /\ CpuIndexEarlyHandoff < Len(HandoffValues)
    /\ HandoffValues[Len(HandoffValues)] = Destination(Header)

\* Who runs has an application, and an APU restart finds the R5s running.
RunningHaveApplications ==
  ~skewed => \A c \in Cpus : cpu[c] # "reset" => HasApplication(c)
R5sRunOn ==
  ApuOnly /\ Usable => \A c \in R5 : HasApplication(c) => cpu[c] # "reset"

\* Unless a reset was asked for over the record of a watchdog reset, only a bad image
\* fails or hangs, and a watchdog reset is recognized as long as its image is the one
\* booted again.
BadImageHere == multiboot < Slots /\ flash[multiboot] # NoImage /\ ~flash[multiboot].good
OnlyBadFail ==
  ~overRecord /\ BootMode = "flash" =>
    /\ \A i \in 0..(Slots - 1) : i < multiboot => ~flash[i].good
    /\ stage = "Err" => ~Image.good
    /\ stage = "Hung" => BadImageHere
    /\ wdt => ~ApuOnly /\ stage \in {"Stage3", "Stage4", "Handoff", "Err", "Hung"}
    /\ stage \in {"Rom", "Stage1"} /\ swdt /\ ErrorStatus = "RUNNING" => BadImageHere

Inv == /\ TypeOK /\ Places /\ EntriesInStep /\ PlOrigin /\ Indices /\ Turns
       /\ Seen /\ OwnCpuSeen /\ EarlyInStep /\ EarlyTurn
       /\ RunningHaveApplications /\ R5sRunOn
       /\ ReleasedAreLoaded /\ CompleteHandoff /\ PlMatchesImage /\ OnlyBadFail

-----------------------------------------------------------------------------
\* What TypeOK says of the image and of its partitions.
LEMMA ImageTypes ==
  ASSUME TypeOK
  PROVE  /\ LastPartition \in Nat /\ DOMAIN parts = 1..LastPartition
         /\ LastPartition = 0 => parts = <<>>
         /\ \A i \in DOMAIN parts :
               /\ parts[i].cpu \in Cpus \cup {"none"} /\ parts[i].dev \in {"PS", "PL"}
               /\ parts[i].fsbl \in BOOLEAN
               /\ parts[i].dev = "PS" => Destination(parts[i]) \in Cpus
         /\ DOMAIN parts # {} => multiboot < Slots /\ flash[multiboot] # NoImage
<1>1. Image \in Images \/ Image = NoImage
  BY BootAssumption DEF TypeOK, Image
<1>2. parts \in Seq(Partitions)
  <2>1. <<>> \in Seq(Partitions)
    BY EmptySeq
  <2>2. \A im \in Images : im.parts \in Seq(Partitions)
    BY BootAssumption DEF Images
  <2>3. NoImage.parts = <<>>
    BY DEF NoImage
  <2> QED
    BY <1>1, <2>1, <2>2, <2>3 DEF parts
<1>3. /\ LastPartition \in Nat /\ DOMAIN parts = 1..LastPartition
      /\ LastPartition = 0 => parts = <<>>
  BY <1>2, LenProperties, EmptySeq DEF LastPartition
<1>4. ASSUME NEW i \in DOMAIN parts
      PROVE  /\ parts[i].cpu \in Cpus \cup {"none"} /\ parts[i].dev \in {"PS", "PL"}
             /\ parts[i].fsbl \in BOOLEAN
             /\ parts[i].dev = "PS" => Destination(parts[i]) \in Cpus
  <2>1. parts[i] \in Partitions
    BY <1>2, <1>3, ElementOfSeq DEF LastPartition
  <2>2. self \in Cpus
    BY DEF TypeOK, Cpus, A53, R5
  <2> QED
    BY <2>1, <2>2 DEF Partitions, Destination
<1>5. DOMAIN parts # {} => multiboot < Slots /\ flash[multiboot] # NoImage
  <2>1. DOMAIN NoImage.parts = {}
    BY DEF NoImage
  <2>2. Image # NoImage => multiboot < Slots /\ flash[multiboot] # NoImage
    BY DEF Image
  <2> QED
    BY <2>1, <2>2 DEF parts
<1> QED
  BY <1>3, <1>4, <1>5


\* Every step leaves the variables in their types.
LEMMA TypeStep ==
  ASSUME Inv, Next
  PROVE  TypeOK'
<1> USE DEF Next, Step
<1>0. TypeOK /\ Indices
  BY DEF Inv
<1>1. /\ self' \in {"A0", "R0"} /\ BootMode' \in {"flash", "usb", "jtag"}
      /\ early' \in BOOLEAN /\ WdtPresent' \in BOOLEAN
      /\ flash' \in [0..(Slots - 1) -> Images \cup {NoImage}]
  <2>1. UNCHANGED boardVars
    BY DEF RomSearch, Initialize, BootDeviceInitAndValidate, LoadPartition, LoadFails,
           BeginHandoff, HandoffCpu, HandoffExit, ErrorLockDown, WatchdogExpires, ResetRequest
  <2> QED
    BY <1>0, <2>1 DEF TypeOK, boardVars
<1>2. multiboot' \in Nat
  <2>1. CASE RomSearch
    BY <1>0, <2>1, BootAssumption DEF TypeOK, RomSearch
  <2>2. CASE ~RomSearch
    BY <1>0, <2>2 DEF TypeOK, Initialize, BootDeviceInitAndValidate, LoadPartition, LoadFails,
           BeginHandoff, HandoffCpu, HandoffExit, ErrorLockDown, UpdateMultiBoot, WatchdogExpires, ResetRequest
  <2> QED
    BY <2>1, <2>2
<1>3. ResetReason' \in {"SYSTEM", "PS_ONLY", "APU_ONLY"}
  BY <1>0 DEF TypeOK, RomSearch, Initialize, BootDeviceInitAndValidate, LoadPartition, LoadFails,
           BeginHandoff, HandoffCpu, HandoffExit, ErrorLockDown, UpdateMultiBoot, SystemReset, ApuReset, WatchdogExpires, ResetRequest
<1>4. ErrorStatus' \in {"RUNNING", "COMPLETED", "ERROR"} /\ swdt' \in BOOLEAN
  <2>1. ErrorStatus' \in {"RUNNING", "COMPLETED", "ERROR"}
    BY <1>0 DEF TypeOK, RomSearch, Initialize, BootDeviceInitAndValidate, LoadPartition, LoadFails,
           BeginHandoff, HandoffCpu, HandoffExit, ErrorLockDown, UpdateMultiBoot, SystemReset, ApuReset, WatchdogExpires, ResetRequest
  <2>2. swdt' \in BOOLEAN
    BY <1>0 DEF TypeOK, RomSearch, Initialize, BootDeviceInitAndValidate, LoadPartition, LoadFails,
           BeginHandoff, HandoffCpu, HandoffExit, ErrorLockDown, UpdateMultiBoot, SystemReset, ApuReset, WatchdogExpires, ResetRequest
  <2> QED
    BY <2>1, <2>2
<1>5. resets' \in 0..MaxResets /\ skewed' \in BOOLEAN /\ overRecord' \in BOOLEAN
  <2>1. resets' \in 0..MaxResets
    BY <1>0, BootAssumption DEF TypeOK, RomSearch, Initialize, BootDeviceInitAndValidate, LoadPartition, LoadFails,
           BeginHandoff, HandoffCpu, HandoffExit, ErrorLockDown, UpdateMultiBoot, SystemReset, ApuReset, WatchdogExpires, ResetRequest, histVars
  <2>2. skewed' \in BOOLEAN
    BY <1>0 DEF TypeOK, RomSearch, Initialize, BootDeviceInitAndValidate, LoadPartition, LoadFails,
           BeginHandoff, HandoffCpu, HandoffExit, ErrorLockDown, UpdateMultiBoot, WatchdogExpires, ResetRequest, histVars
  <2>3. overRecord' \in {overRecord, overRecord \/ swdt}
    BY DEF RomSearch, Initialize, BootDeviceInitAndValidate, LoadPartition, LoadFails,
           BeginHandoff, HandoffCpu, HandoffExit, ErrorLockDown, WatchdogExpires, ResetRequest, histVars
  <2>4. overRecord' \in BOOLEAN
    BY <1>0, <2>3 DEF TypeOK
  <2> QED
    BY <2>1, <2>2, <2>4
<1>6. cpu' \in [Cpus -> {"reset", "running", "disturbed"}]
  BY <1>0 DEF TypeOK, RomSearch, Initialize, BootDeviceInitAndValidate, LoadPartition, LoadFails,
           BeginHandoff, HandoffCpu, HandoffExit, ErrorLockDown, UpdateMultiBoot, SystemReset, ApuReset, WatchdogExpires, ResetRequest,
           hwVars, Release
<1>7. r5Used' \subseteq R5
  BY <1>0 DEF TypeOK, RomSearch, Initialize, BootDeviceInitAndValidate, LoadPartition, LoadFails,
           BeginHandoff, HandoffCpu, HandoffExit, ErrorLockDown, UpdateMultiBoot, SystemReset, ApuReset, WatchdogExpires, ResetRequest,
           hwVars, MarkUsedRPUCores
<1>8. stage' \in Stages
  BY <1>0 DEF TypeOK, RomSearch, Initialize, BootDeviceInitAndValidate, LoadPartition, LoadFails,
           BeginHandoff, HandoffCpu, HandoffExit, ErrorLockDown, UpdateMultiBoot, SystemReset, ApuReset, WatchdogExpires, ResetRequest,
           NextCpu, AfterEarlyHandoff, Stages, Final
<1>9. PartitionNum' \in Nat /\ CpuIndexEarlyHandoff' \in Nat
  BY <1>0 DEF TypeOK, RomSearch, Initialize, BootDeviceInitAndValidate, LoadPartition, LoadFails,
           BeginHandoff, HandoffCpu, HandoffExit, ErrorLockDown, UpdateMultiBoot, SystemReset, ApuReset, WatchdogExpires, ResetRequest,
           NextCpu, AfterEarlyHandoff, FreshProgram, progVars, handoffVars
<1>10. {wdt, EarlyHandoff, RunningCpuHandoffAddressPresent}' \subseteq BOOLEAN
  <2>0. {wdt, EarlyHandoff, RunningCpuHandoffAddressPresent} \subseteq BOOLEAN
    BY <1>0 DEF TypeOK
  <2>1. wdt' \in BOOLEAN
    BY <1>0, <2>0 DEF RomSearch, Initialize, BootDeviceInitAndValidate, LoadPartition, LoadFails,
           BeginHandoff, HandoffCpu, HandoffExit, ErrorLockDown, UpdateMultiBoot, SystemReset, ApuReset, WatchdogExpires, ResetRequest,
           StartWdt, StopWdt
  <2>2. EarlyHandoff' \in BOOLEAN
    BY <1>0, <2>0 DEF RomSearch, Initialize, BootDeviceInitAndValidate, LoadPartition, LoadFails,
           BeginHandoff, HandoffCpu, HandoffExit, ErrorLockDown, UpdateMultiBoot, SystemReset, ApuReset, WatchdogExpires, ResetRequest,
           NextCpu, AfterEarlyHandoff, FreshProgram, progVars, CheckEarlyHandoff
  <2>3. RunningCpuHandoffAddressPresent' \in BOOLEAN
    BY <1>0, <2>0 DEF RomSearch, Initialize, BootDeviceInitAndValidate, LoadPartition, LoadFails,
           BeginHandoff, HandoffCpu, HandoffExit, ErrorLockDown, UpdateMultiBoot, SystemReset, ApuReset, WatchdogExpires, ResetRequest,
           FreshProgram, progVars, handoffVars
  <2> QED
    BY <2>1, <2>2, <2>3
<1>11. pl' \in 0..NoPl
  <2>1. CASE LoadPartition
    <3>1. multiboot < Slots /\ multiboot \in Nat /\ pl \in 0..NoPl /\ Slots \in Nat
      BY <2>1, <1>0, ImageTypes, BootAssumption DEF Inv, Places, LoadPartition, Underway, TypeOK
    <3> QED
      BY <2>1, <3>1 DEF LoadPartition, PartitionLoad, NoPl
  <2>2. CASE ~LoadPartition
    BY <1>0, <2>2, BootAssumption DEF TypeOK, NoPl, RomSearch, Initialize, BootDeviceInitAndValidate, LoadFails,
           BeginHandoff, HandoffCpu, HandoffExit, ErrorLockDown, UpdateMultiBoot, SystemReset, ApuReset, WatchdogExpires, ResetRequest,
           hwVars
  <2> QED
    BY <2>1, <2>2
<1>12. HandoffValues' \in Seq(Cpus) /\ CpuIndex' \in 0..Len(HandoffValues')
  <2>1. CASE LoadPartition
    <3>1. PartitionNum \in DOMAIN parts /\ UNCHANGED CpuIndex
      BY <2>1 DEF Inv, Places, LoadPartition, Underway, handoffVars
    <3>2. Header.dev # "PL" => Destination(Header) \in Cpus
      BY <3>1, <1>0, ImageTypes DEF Header
    <3>3. HandoffValues \in Seq(Cpus) /\ CpuIndex \in 0..Len(HandoffValues) /\ Len(HandoffValues) \in Nat
      BY <1>0, LenProperties DEF TypeOK
    <3>4. HandoffValues' = HandoffValues \/ \E c \in Cpus : HandoffValues' = Append(HandoffValues, c)
      BY <2>1, <3>2 DEF LoadPartition, PartitionLoad, AddHandoff
    <3>5. CASE HandoffValues' = HandoffValues
      BY <3>1, <3>3, <3>5
    <3>6. ASSUME NEW c \in Cpus, HandoffValues' = Append(HandoffValues, c)
          PROVE  HandoffValues' \in Seq(Cpus) /\ CpuIndex' \in 0..Len(HandoffValues')
      BY <3>1, <3>3, <3>6, AppendProperties
    <3> QED
      BY <3>4, <3>5, <3>6
  <2>2. CASE Initialize
    BY <1>0, <2>2, EmptySeq DEF Initialize, RestoreData, handoffVars, TypeOK, Inv, Places, Fresh
  <2>3. CASE ~LoadPartition /\ ~Initialize
    <3>0. <<>> \in Seq(Cpus) /\ Len(<<>>) = 0
      BY EmptySeq
    <3>1. HandoffValues' = HandoffValues
          \/ (HandoffValues' = <<>> /\ CpuIndex' = 0)
      <4>1. CASE RomSearch \/ BootDeviceInitAndValidate \/ LoadFails \/ BeginHandoff \/ HandoffCpu \/ HandoffExit
        BY <4>1 DEF RomSearch, BootDeviceInitAndValidate, LoadFails, BeginHandoff, HandoffCpu, HandoffExit, progVars
      <4>2. CASE ErrorLockDown
        BY <4>2 DEF ErrorLockDown, UpdateMultiBoot, SystemReset, FreshProgram, progVars
      <4>3. CASE ResetRequest \/ WatchdogExpires
        BY <4>3 DEF SystemReset, ApuReset, WatchdogExpires, ResetRequest, FreshProgram
      <4> QED
        BY <2>3, <4>1, <4>2, <4>3
    <3>2. HandoffValues \in Seq(Cpus) /\ CpuIndex \in 0..Len(HandoffValues) /\ Len(HandoffValues) \in Nat
      BY <1>0, LenProperties DEF TypeOK
    <3>3. CASE BeginHandoff
      BY <3>2, <3>3, <1>0 DEF BeginHandoff, Indices, FirstCpu, TypeOK
    <3>4. CASE HandoffCpu
      BY <3>2, <3>4 DEF HandoffCpu, NextCpu, AfterEarlyHandoff
    <3>5. CASE ~BeginHandoff /\ ~HandoffCpu
      <4>1. CpuIndex' \in {0, CpuIndex}
        BY <2>3, <3>5 DEF RomSearch, BootDeviceInitAndValidate, LoadFails,
           HandoffExit, ErrorLockDown, UpdateMultiBoot, SystemReset, ApuReset, WatchdogExpires, ResetRequest,
           progVars, handoffVars, FreshProgram
      <4>2. CASE HandoffValues' = HandoffValues
        BY <3>2, <4>1, <4>2
      <4>3. CASE HandoffValues' = <<>> /\ CpuIndex' = 0
        BY <3>0, <4>3
      <4> QED
        BY <3>1, <4>2, <4>3
    <3> QED
      BY <3>3, <3>4, <3>5
  <2> QED
    BY <2>1, <2>2, <2>3
<1>13. loaded' \subseteq Nat
  BY <1>0 DEF TypeOK, RomSearch, Initialize, BootDeviceInitAndValidate, LoadPartition, PartitionLoad, LoadFails,
           BeginHandoff, HandoffCpu, HandoffExit, ErrorLockDown, UpdateMultiBoot, SystemReset, ApuReset, WatchdogExpires, ResetRequest
<1> QED
  BY <1>1, <1>2, <1>3, <1>4, <1>5, <1>6, <1>7, <1>8, <1>9, <1>10, <1>11, <1>12, <1>13 DEF TypeOK

\* What stays when neither the image nor the kind of the reset changes.
LEMMA Frame ==
  ASSUME UNCHANGED <<boardVars, multiboot, ResetReason, skewed>>
  PROVE  /\ UNCHANGED <<self, BootMode, early, flash, parts, LastPartition, Image>>
         /\ ApuOnly' <=> ApuOnly
         /\ Usable' <=> Usable
         /\ \A i : Loadable(i)' <=> Loadable(i)
         /\ \A c : HasApplication(c)' <=> HasApplication(c)
         /\ \A i, c : PartOf(i, c)' <=> PartOf(i, c)
<1>1. UNCHANGED <<self, BootMode, early, flash, parts, LastPartition, Image>>
  BY DEF boardVars, parts, LastPartition, Image
<1>2. ApuOnly' <=> ApuOnly
  BY DEF ApuOnly
<1>3. Usable' <=> Usable
  BY <1>1, <1>2 DEF Usable, EarlyUsable, RestartUsable, Owned
<1>4. \A i : Loadable(i)' <=> Loadable(i)
  BY <1>1, <1>2 DEF Loadable, NotPartitionOwner
<1>5. \A i, c : PartOf(i, c)' <=> PartOf(i, c)
  BY <1>1 DEF PartOf, Owned, Destination
<1>6. \A c : HasApplication(c)' <=> HasApplication(c)
  BY <1>1 DEF HasApplication, PartOf, Owned, Destination
<1> QED
  BY <1>1, <1>2, <1>3, <1>4, <1>5, <1>6

\* A partition of c is loadable, unless an APU restart leaves it to the R5.
LEMMA PartsLoadable ==
  ASSUME TypeOK, Usable, NEW c \in Cpus, NEW i \in DOMAIN parts, PartOf(i, c),
         ApuOnly => c \in A53
  PROVE  Loadable(i)
<1>1. parts[i].dev = "PS" /\ parts[i].fsbl /\ Destination(parts[i]) = c
  BY DEF PartOf, Owned
<1>2. ApuOnly => parts[i].cpu # "none"
  BY <1>1 DEF Usable, RestartUsable
<1> QED
  BY <1>1, <1>2 DEF Loadable, NotPartitionOwner, Destination

\* An R5 that is not the running CPU has the partitions that name it.
LEMMA R5Parts ==
  ASSUME self = "A0", NEW c \in R5, NEW i, PartOf(i, c)
  PROVE  parts[i].cpu = c
BY DEF PartOf, Destination, R5

\* Every CPU in reset: nothing runs, is early or was disturbed.
LEMMA SystemResetStep ==
  ASSUME Inv, TypeOK', NEW reason \in {"SYSTEM", "PS_ONLY"}, SystemReset(reason),
         UNCHANGED <<boardVars, skewed>>,
         multiboot' = multiboot \/ (multiboot' = multiboot + 1 /\ reason = "SYSTEM"),
         OnlyBadFail'
  PROVE  Inv'
<1> USE DEF SystemReset, FreshProgram
<1>1. stage' = "Rom" /\ ~Underway' /\ ~Booted'
  BY DEF Underway, Booted
<1>3. AllReset' /\ \A c \in Cpus : cpu'[c] = "reset"
  BY DEF AllReset
<1>4. Places'
  BY <1>1, <1>3 DEF Places, Fresh, ApuOnly, boardVars
<1>5. PlOrigin'
  BY <1>1 DEF Inv, PlOrigin, NoPl, boardVars
<1>6. EntriesInStep' /\ EarlyInStep' /\ EarlyTurn'
  BY <1>1 DEF EntriesInStep, EarlyInStep, EarlyTurn
<1>7. Indices' /\ Seen' /\ OwnCpuSeen'
  BY <1>1 DEF Indices, Seen, OwnCpuSeen
<1>8. Turns' /\ RunningHaveApplications' /\ R5sRunOn' /\ ReleasedAreLoaded'
  BY <1>1, <1>3 DEF Turns, RunningHaveApplications, R5sRunOn, ReleasedAreLoaded, ApuOnly
<1>9. CompleteHandoff' /\ PlMatchesImage'
  BY <1>1 DEF CompleteHandoff, PlMatchesImage
<1> QED
  BY <1>4, <1>5, <1>6, <1>7, <1>8, <1>9 DEF Inv

\* An APU restart finds the applications of the R5s running and loaded.
LEMMA ApuResetStep ==
  ASSUME Inv, TypeOK', self = "A0", BootMode = "flash",
         stage \in {"Exited", "Spin"} \/ (stage = "Hung" /\ ApuOnly),
         ApuReset, UNCHANGED <<boardVars, multiboot, ErrorStatus, swdt, skewed>>,
         OnlyBadFail'
  PROVE  Inv'
<1> USE DEF ApuReset, FreshProgram
<1>1. stage' = "Stage1" /\ ~Underway' /\ ~Booted' /\ ApuOnly'
  BY DEF Underway, Booted, ApuOnly
<1>2. UNCHANGED <<self, BootMode, flash, early, parts>>
  BY DEF boardVars, parts, Image
<1>3. \A c \in Cpus : cpu'[c] # "reset" => c \in R5 /\ cpu'[c] = cpu[c]
  BY DEF Cpus
<1>4. \A c \in R5 : cpu'[c] = cpu[c]
  BY DEF Cpus, R5, A53
<1>5. \A c : HasApplication(c)' <=> HasApplication(c)
  BY <1>2 DEF HasApplication, PartOf, Owned, Destination
<1>6. \A i, c : PartOf(i, c)' <=> PartOf(i, c)
  BY <1>2 DEF PartOf, Owned, Destination
<1>7. Usable' => Usable /\ ~early
  BY <1>1, <1>2 DEF Usable, EarlyUsable, RestartUsable
<1>9. Places'
  BY <1>1, <1>2 DEF Places, Fresh, ApuOnly, Cpus
<1>10. PlOrigin'
  BY <1>1, <1>2 DEF Inv, PlOrigin, NoPl
<1>11. EntriesInStep' /\ EarlyInStep' /\ EarlyTurn'
  BY <1>1 DEF EntriesInStep, EarlyInStep, EarlyTurn
<1>12. Indices' /\ Seen' /\ OwnCpuSeen'
  BY <1>1 DEF Indices, Seen, OwnCpuSeen
<1>13. Turns'
  BY <1>1, <1>3 DEF Inv, Turns
<1>14. RunningHaveApplications'
  BY <1>3, <1>5 DEF Inv, RunningHaveApplications
<1>15. R5sRunOn'
  <2>1. SUFFICES ASSUME Usable', NEW c \in R5, HasApplication(c)
                 PROVE  cpu[c] # "reset"
    BY <1>4, <1>5 DEF R5sRunOn
  <2>2. CASE stage = "Exited"
    BY <2>1, <2>2, <1>7 DEF Inv, CompleteHandoff, Booted, EveryCpuReleased, Cpus
  <2>3. CASE stage = "Spin"
    BY <2>1, <2>3, <1>7 DEF Inv, Places, Usable
  <2>4. CASE stage = "Hung" /\ ApuOnly
    BY <2>1, <2>4, <1>7 DEF Inv, R5sRunOn
  <2> QED
    BY <2>2, <2>3, <2>4
<1>16. ReleasedAreLoaded'
  <2>1. SUFFICES ASSUME Usable', NEW c \in Cpus, NEW i \in DOMAIN parts,
                        cpu'[c] # "reset", PartOf(i, c)
                 PROVE  i \in loaded'
    BY <1>2, <1>6 DEF ReleasedAreLoaded
  <2>2. c \in R5 /\ i \in loaded
    BY <2>1, <1>3, <1>7 DEF Inv, ReleasedAreLoaded
  <2>3. parts[i].cpu = c
    BY <2>1, <2>2, R5Parts
  <2> QED
    BY <2>2, <2>3 DEF A53, R5
<1>17. CompleteHandoff' /\ PlMatchesImage'
  BY <1>1 DEF CompleteHandoff, PlMatchesImage
<1> QED
  BY <1>9, <1>10, <1>11, <1>12, <1>13, <1>14, <1>15, <1>16, <1>17 DEF Inv

\* A good image does not fail: who comes to the error path has a bad one.
LEMMA FailStep ==
  ASSUME Inv, TypeOK', Next
  PROVE  OnlyBadFail'
<1>1. SUFFICES ASSUME ~overRecord', BootMode' = "flash"
               PROVE  OnlyBadFail'
  BY DEF OnlyBadFail
<1>2. ~overRecord /\ UNCHANGED <<boardVars, BootMode, flash>>
  <2>1. UNCHANGED boardVars /\ (overRecord' = overRecord \/ ResetRequest)
    BY DEF Next, Step, RomSearch, Initialize, BootDeviceInitAndValidate, LoadPartition, LoadFails,
           BeginHandoff, HandoffCpu, HandoffExit, ErrorLockDown, WatchdogExpires, ResetRequest, histVars
  <2>2. ResetRequest => ~overRecord
    BY <1>1 DEF ResetRequest
  <2> QED
    BY <1>1, <2>1, <2>2 DEF boardVars
<1>3. BootMode = "flash" /\ Slots \in Nat /\ multiboot \in Nat
  BY <1>1, <1>2, BootAssumption DEF boardVars, Inv, TypeOK
<1>4. /\ \A i \in 0..(Slots - 1) : i < multiboot => ~flash[i].good
      /\ stage = "Err" => ~Image.good
      /\ stage = "Hung" => BadImageHere
      /\ wdt => ~ApuOnly /\ stage \in {"Stage3", "Stage4", "Handoff", "Err", "Hung"}
      /\ stage \in {"Rom", "Stage1"} /\ swdt /\ ErrorStatus = "RUNNING" => BadImageHere
  BY <1>2, <1>3 DEF Inv, OnlyBadFail
<1>5. BadImageHere => ~Image.good
  BY DEF BadImageHere, Image
<1>6. CASE RomSearch
  <2>1. multiboot' \in Nat /\ UNCHANGED <<ResetReason, ApuOnly, swdt, ErrorStatus, wdt>>
    BY <1>6 DEF RomSearch, ApuOnly, TypeOK
  <2>2. \A i \in 0..(Slots - 1) : i < multiboot' /\ i >= multiboot => flash[i] = NoImage
    BY <1>6, <1>3, <2>1 DEF RomSearch
  <2>3. \A i \in 0..(Slots - 1) : i < multiboot' => ~flash[i].good
    BY <1>3, <1>4, <2>1, <2>2 DEF NoImage
  <2>4. BadImageHere => multiboot' = multiboot
    BY <1>6, <1>3, <2>1 DEF RomSearch, BadImageHere
  <2>5. stage = "Rom" /\ stage' \in {"Stage1", "RomLockdown"}
    BY <1>6, <1>3 DEF RomSearch
  <2>6. BadImageHere => BadImageHere'
    BY <1>2, <2>4 DEF BadImageHere
  <2> QED
    BY <1>2, <1>4, <2>1, <2>3, <2>5, <2>6 DEF OnlyBadFail
<1>7. CASE Initialize \/ BootDeviceInitAndValidate \/ LoadFails
  <2>1. UNCHANGED <<multiboot, ApuOnly>>
    BY <1>7 DEF Initialize, BootDeviceInitAndValidate, LoadFails, ApuOnly
  <2>2. stage' = "Err" => ~Image.good
    BY <1>3, <1>4, <1>5, <1>7 DEF Initialize, BootDeviceInitAndValidate, LoadFails, CanFail, WdtReset
  <2>3. stage' = "Hung" => BadImageHere
    <3>1. ASSUME LoadFails PROVE multiboot < Slots /\ flash[multiboot] # NoImage /\ Image = flash[multiboot]
      BY <3>1, <1>3, ImageTypes DEF LoadFails, Inv, Places, Underway, Image
    <3> QED
      BY <1>7, <3>1 DEF Initialize, BootDeviceInitAndValidate, LoadFails, CanFail, BadImageHere
  <2>4. UNCHANGED <<Image, BadImageHere>>
    BY <1>2, <2>1 DEF Image, BadImageHere
  <2>5. wdt' => ~ApuOnly /\ stage' \in {"Stage3", "Stage4", "Handoff", "Err", "Hung"}
    BY <1>3, <1>4, <1>7 DEF Initialize, BootDeviceInitAndValidate, LoadFails, StartWdt
  <2>6. stage' \notin {"Rom", "Stage1"}
    BY <1>7 DEF Initialize, BootDeviceInitAndValidate, LoadFails
  <2> QED
    BY <1>2, <1>4, <2>1, <2>2, <2>3, <2>4, <2>5, <2>6 DEF OnlyBadFail
<1>8. CASE LoadPartition \/ BeginHandoff \/ HandoffCpu \/ HandoffExit
  <2>1. UNCHANGED <<multiboot, ApuOnly>>
    BY <1>8 DEF LoadPartition, BeginHandoff, HandoffCpu, HandoffExit, ApuOnly
  <2>2. stage' = "Err" => ~Image.good
    BY <1>3, <1>4, <1>5, <1>8 DEF LoadPartition, BeginHandoff, HandoffCpu, HandoffExit, CanFail, NextCpu, AfterEarlyHandoff
  <2>3. \/ stage' \in {"Stage3", "Stage4", "Handoff", "Err"} /\ (wdt' => wdt)
        \/ stage' \in {"Exited", "Idle"} /\ ~wdt'
    BY <1>3, <1>4, <1>8 DEF LoadPartition, BeginHandoff, HandoffCpu, HandoffExit, NextCpu, AfterEarlyHandoff, StopWdt
  <2>4. UNCHANGED Image
    BY <1>2, <2>1 DEF Image
  <2> QED
    BY <1>2, <1>4, <2>1, <2>2, <2>3, <2>4 DEF OnlyBadFail
<1>9. CASE ErrorLockDown
  <2>1. /\ stage' \in {"Rom", "Spin"} /\ (wdt' => wdt) /\ (stage' = "Rom" => ~wdt') /\ stage = "Err"
        /\ multiboot' = multiboot + 1 /\ ErrorStatus' = "ERROR"
        /\ stage' = "Spin" => ApuOnly
    BY <1>3, <1>9 DEF ErrorLockDown, UpdateMultiBoot, SystemReset
  <2>2. multiboot < Slots => ~flash[multiboot].good
    BY <1>4, <2>1 DEF Image
  <2>3. \A i \in 0..(Slots - 1) : i < multiboot' => ~flash[i].good
    BY <1>3, <1>4, <2>1, <2>2
  <2>4. ~wdt'
    BY <1>4, <2>1
  <2> QED
    BY <1>2, <2>1, <2>3, <2>4 DEF OnlyBadFail
<1>10. CASE WatchdogExpires
  <2>1. BadImageHere
    BY <1>4, <1>10 DEF WatchdogExpires, Final
  <2>2. UNCHANGED multiboot /\ stage' = "Rom" /\ ~wdt'
    BY <1>10 DEF WatchdogExpires, SystemReset
  <2>3. BadImageHere'
    BY <1>2, <2>1, <2>2 DEF BadImageHere
  <2> QED
    BY <1>2, <1>4, <2>2, <2>3 DEF OnlyBadFail
<1>11. CASE ResetRequest
  <2>1. ~swdt /\ UNCHANGED <<multiboot, swdt>>
    BY <1>1, <1>11 DEF ResetRequest
  <2>2. stage' \in {"Rom", "Stage1"} /\ ~wdt'
    <3>1. CASE SystemReset("SYSTEM") \/ SystemReset("PS_ONLY")
      BY <3>1 DEF SystemReset
    <3>2. CASE (stage \in {"Exited", "Spin"} \/ (stage = "Hung" /\ ApuOnly)) /\ ApuReset
      BY <1>4, <3>2 DEF ApuReset
    <3> QED
      BY <1>11, <3>1, <3>2 DEF ResetRequest
  <2> QED
    BY <1>2, <1>4, <2>1, <2>2 DEF OnlyBadFail
<1> QED
  BY <1>6, <1>7, <1>8, <1>9, <1>10, <1>11 DEF Next, Step

\* Steps between the places where nothing is loaded or handed off.
LEMMA QuietStep ==
  ASSUME Inv, TypeOK', OnlyBadFail', Places',
         UNCHANGED <<boardVars, multiboot, ResetReason, skewed, cpu, pl, loaded>>,
         ~Underway', ~Booted', stage' \notin {"Stage3", "Handoff"},
         stage' = "Stage4" => ~EarlyHandoff'
  PROVE  Inv'
<1>1. EntriesInStep' /\ EarlyInStep' /\ EarlyTurn' /\ CompleteHandoff' /\ PlMatchesImage'
  BY DEF EntriesInStep, EarlyInStep, EarlyTurn, CompleteHandoff, PlMatchesImage
<1>2. PlOrigin'
  BY DEF Inv, PlOrigin, NoPl, boardVars
<1>3. Indices' /\ Seen' /\ OwnCpuSeen'
  BY DEF Indices, Seen, OwnCpuSeen
<1>4. Turns' /\ RunningHaveApplications' /\ R5sRunOn'
  BY Frame DEF Inv, Turns, RunningHaveApplications, R5sRunOn
<1>5. ReleasedAreLoaded'
  BY Frame DEF Inv, ReleasedAreLoaded
<1> QED
  BY <1>1, <1>2, <1>3, <1>4, <1>5 DEF Inv

\* The boot ROM keeps the image whose bitstream a PS-only reset left in the PL.
LEMMA RomStep ==
  ASSUME Inv, TypeOK', OnlyBadFail', RomSearch
  PROVE  Inv'
<1>1. /\ stage = "Rom" /\ stage' \in {"Stage1", "RomLockdown"}
      /\ UNCHANGED <<boardVars, self, BootMode, early, flash, ResetReason, cpu, pl, r5Used, progVars, PartitionNum,
                     EarlyHandoff, HandoffValues, handoffVars, CpuIndexEarlyHandoff, CpuIndex,
                     RunningCpuHandoffAddressPresent, loaded, skewed>>
  BY DEF RomSearch, boardVars, hwVars, progVars, handoffVars, histVars
<1>2. ~Underway' /\ ~Booted' /\ ~ApuOnly' /\ ~ApuOnly
  BY <1>1 DEF Underway, Booted, Inv, Places, ApuOnly
<1>3. AllReset' /\ \A c \in Cpus : cpu'[c] = "reset"
  BY <1>1, <1>2 DEF Inv, Places, AllReset
<1>4. Places'
  BY <1>1, <1>2, <1>3 DEF Inv, Places, Fresh
<1>5. PlOrigin'
  <2>1. pl \in 0..Slots-1 /\ pl = multiboot /\ flash[pl] # NoImage => multiboot' = multiboot
    BY DEF RomSearch, TypeOK
  <2>2. ~skewed => pl \in {multiboot, NoPl}' 
    BY <2>1 DEF Inv, PlOrigin, NoPl
  <2> QED
    BY <1>1, <1>2, <2>2 DEF Inv, PlOrigin, NoPl
<1>6. EntriesInStep' /\ EarlyInStep' /\ EarlyTurn' /\ CompleteHandoff' /\ PlMatchesImage'
  BY <1>2 DEF EntriesInStep, EarlyInStep, EarlyTurn, CompleteHandoff, PlMatchesImage
<1>7. Indices' /\ Seen' /\ OwnCpuSeen'
  BY <1>1 DEF Indices, Seen, OwnCpuSeen
<1>8. Turns' /\ RunningHaveApplications' /\ R5sRunOn' /\ ReleasedAreLoaded'
  BY <1>2, <1>3 DEF Turns, RunningHaveApplications, R5sRunOn, ReleasedAreLoaded
<1> QED
  BY <1>4, <1>5, <1>6, <1>7, <1>8 DEF Inv

\* Stage 1 and the failures of a load come to places where nothing loads.
LEMMA InitializeStep ==
  ASSUME Inv, TypeOK', OnlyBadFail', Initialize \/ LoadFails
  PROVE  Inv'
<1>1. /\ UNCHANGED <<boardVars, self, BootMode, early, multiboot, ResetReason, skewed, cpu, pl, r5Used, loaded,
                     PartitionNum, EarlyHandoff, CpuIndexEarlyHandoff, CpuIndex, RunningCpuHandoffAddressPresent>>
      /\ stage' \in {"Stage2", "Err", "Hung"}
  BY DEF Initialize, LoadFails, hwVars, progVars, handoffVars, histVars, boardVars
<1>2. UNCHANGED <<parts, LastPartition, ApuOnly, AllReset>>
  BY <1>1 DEF boardVars, parts, LastPartition, Image, ApuOnly, AllReset
<1>3. ~Underway' /\ ~Booted'
  BY <1>1 DEF Underway, Booted
<1>4. stage' = "Stage2" => Fresh /\ HandoffValues' = <<>> /\ stage = "Stage1"
  BY DEF Initialize, LoadFails, RestoreData, Inv, Places
<1>5. UNCHANGED Fresh
  BY <1>1 DEF Fresh
<1>6. Places'
  BY <1>1, <1>2, <1>3, <1>4, <1>5 DEF Inv, Places
<1> QED
  BY <1>1, <1>3, <1>6, QuietStep

\* Stage 2 opens the image, or there is none to open.
LEMMA BootDeviceStep ==
  ASSUME Inv, TypeOK', OnlyBadFail', BootDeviceInitAndValidate
  PROVE  Inv'
<1>1. /\ UNCHANGED <<boardVars, self, BootMode, early, multiboot, ResetReason, skewed, cpu, pl, loaded,
                     EarlyHandoff, HandoffValues, CpuIndexEarlyHandoff, CpuIndex, RunningCpuHandoffAddressPresent>>
      /\ stage = "Stage2" /\ HandoffValues = <<>> /\ Fresh
  BY DEF BootDeviceInitAndValidate, handoffVars, histVars, boardVars, Inv, Places
<1>2. UNCHANGED <<parts, LastPartition, ApuOnly, AllReset>>
  BY <1>1 DEF boardVars, parts, LastPartition, Image, ApuOnly, AllReset
<1>3. ~ApuOnly => AllReset /\ r5Used = {} /\ loaded = {}
  BY <1>1 DEF Inv, Places
<1>4. CASE BootMode # "flash" \/ stage' = "Err"
  <2>1. stage' \in {"Stage4", "Err"} /\ (stage' = "Stage4" => BootMode = "jtag")
    BY <1>4 DEF BootDeviceInitAndValidate
  <2>2. ~Underway' /\ ~Booted'
    BY <1>1, <1>4, <2>1 DEF Underway, Booted
  <2>3. Places'
    BY <1>1, <1>2, <2>1, <2>2 DEF Inv, Places, Fresh
  <2> QED
    BY <1>1, <2>1, <2>2, <2>3, QuietStep DEF Fresh
<1>5. CASE BootMode = "flash" /\ stage' # "Err"
  <2>1. stage' = "Stage3" /\ PartitionNum' = 1 /\ parts # <<>> /\ r5Used' \subseteq r5Used
    BY <1>5 DEF BootDeviceInitAndValidate
  <2>2. 1 \in DOMAIN parts
    BY <2>1, ImageTypes DEF Inv
  <2>3. Passed' = {} /\ Entries' = {} /\ Underway' /\ ~Booted'
    <3>1. Len(<<>>) = 0 /\ 1..0 = {}
      BY EmptySeq
    <3> QED
      BY <1>1, <1>5, <2>1, <3>1 DEF Passed, Entries, Underway, Booted
  <2>4. Places'
    BY <1>1, <1>2, <1>5, <2>1, <2>2 DEF Inv, Places, Fresh
  <2>5. EntriesInStep'
    BY <1>2, <1>1, <1>3, <2>3 DEF EntriesInStep
  <2>6. PlOrigin'
    BY <1>1, <2>3 DEF Inv, PlOrigin, NoPl, boardVars
  <2>7. Indices' /\ Seen' /\ OwnCpuSeen'
    <3>1. CpuIndexEarlyHandoff' = 0 /\ Len(HandoffValues') \in Nat
      BY <1>1, EmptySeq DEF Fresh
    <3> QED
      BY <2>1, <3>1 DEF Indices, Seen, OwnCpuSeen
  <2>8. Turns'
    <3>1. \A c \in Cpus : cpu[c] # "reset" => ApuOnly /\ c \in R5
      BY <1>1, <1>3 DEF Inv, Places, AllReset, Cpus
    <3> QED
      BY <1>1, <1>2, <3>1 DEF Inv, Turns
  <2>9. EarlyInStep' /\ EarlyTurn'
    BY <2>1, <2>3 DEF EarlyInStep, EarlyTurn
  <2>10. RunningHaveApplications' /\ R5sRunOn' /\ ReleasedAreLoaded'
    BY <1>1, Frame DEF Inv, RunningHaveApplications, R5sRunOn, ReleasedAreLoaded
  <2>11. CompleteHandoff' /\ PlMatchesImage'
    BY <2>3 DEF CompleteHandoff, PlMatchesImage
  <2> QED
    BY <2>4, <2>5, <2>6, <2>7, <2>8, <2>9, <2>10, <2>11 DEF Inv
<1> QED
  BY <1>4, <1>5

\* The fallback resets everything, or waits with multiboot moved.
LEMMA ErrorLockDownStep ==
  ASSUME Inv, TypeOK', OnlyBadFail', ErrorLockDown
  PROVE  Inv'
<1>1. stage = "Err" /\ UNCHANGED <<boardVars, self, BootMode, early, flash>>
  BY DEF ErrorLockDown, boardVars
<1>2. CASE BootMode # "flash"
  <2>1. /\ UNCHANGED <<multiboot, ResetReason, skewed, cpu, pl, r5Used, loaded, PartitionNum, EarlyHandoff,
                       HandoffValues, CpuIndexEarlyHandoff, CpuIndex, RunningCpuHandoffAddressPresent>>
        /\ stage' = "Halted"
    BY <1>2 DEF ErrorLockDown, hwVars, progVars, handoffVars
  <2>2. ~Underway' /\ ~Booted' /\ UNCHANGED <<ApuOnly, AllReset>>
    BY <2>1 DEF Underway, Booted, ApuOnly, AllReset
  <2>3. Places'
    BY <1>1, <2>1, <2>2 DEF Inv, Places
  <2> QED
    BY <1>1, <2>1, <2>2, <2>3, QuietStep
<1>3. CASE BootMode = "flash" /\ ApuOnly
  <2>1. /\ UNCHANGED <<ResetReason, cpu, pl, r5Used, loaded, EarlyHandoff>>
        /\ stage' = "Spin" /\ skewed'
    BY <1>3 DEF ErrorLockDown, UpdateMultiBoot, hwVars, progVars
  <2>2. ~Underway' /\ ~Booted' /\ ~Usable'
    BY <2>1 DEF Underway, Booted, Usable
  <2>3. Places'
    BY <1>1, <1>3, <2>1, <2>2 DEF Inv, Places, ApuOnly
  <2>4. PlOrigin'
    BY <1>1, <2>1, <2>2 DEF Inv, PlOrigin, NoPl
  <2>5. EntriesInStep' /\ EarlyInStep' /\ EarlyTurn' /\ CompleteHandoff' /\ PlMatchesImage'
    BY <2>2 DEF EntriesInStep, EarlyInStep, EarlyTurn, CompleteHandoff, PlMatchesImage
  <2>6. Indices' /\ Seen' /\ OwnCpuSeen'
    BY <2>1 DEF Indices, Seen, OwnCpuSeen
  <2>7. Turns' /\ RunningHaveApplications' /\ R5sRunOn' /\ ReleasedAreLoaded'
    BY <2>1, <2>2 DEF Inv, Turns, RunningHaveApplications, R5sRunOn, ReleasedAreLoaded
  <2> QED
    BY <2>3, <2>4, <2>5, <2>6, <2>7 DEF Inv
<1>4. CASE BootMode = "flash" /\ ~ApuOnly
  <2>1. SystemReset("SYSTEM") /\ UNCHANGED skewed /\ multiboot' = multiboot + 1
    BY <1>4 DEF ErrorLockDown, UpdateMultiBoot
  <2> QED
    BY <1>1, <2>1, SystemResetStep
<1> QED
  BY <1>2, <1>3, <1>4

\* The loop starts at the first CPU, or where the early handoffs have come to.
LEMMA BeginHandoffStep ==
  ASSUME Inv, TypeOK', OnlyBadFail', BeginHandoff
  PROVE  Inv'
<1>1. /\ UNCHANGED <<boardVars, self, BootMode, early, multiboot, ResetReason, skewed, cpu, pl, r5Used, loaded,
                     PartitionNum, EarlyHandoff, HandoffValues, CpuIndexEarlyHandoff>>
      /\ stage = "Stage4"
  BY DEF BeginHandoff, hwVars, histVars, boardVars
<1>2. UNCHANGED <<parts, LastPartition, ApuOnly, AllReset>>
  BY <1>1 DEF boardVars, parts, LastPartition, Image, ApuOnly, AllReset
<1>3. CASE stage' # "Handoff"
  <2>1. stage' \in {"Idle", "Err"} /\ (stage' = "Idle" => BootMode = "jtag")
    BY <1>3 DEF BeginHandoff
  <2>2. ~Underway' /\ ~Booted'
    BY <1>1, <2>1 DEF Underway, Booted
  <2>3. Places'
    BY <1>1, <1>2, <2>1, <2>2 DEF Inv, Places
  <2> QED
    BY <1>1, <2>1, <2>2, <2>3, QuietStep
<1>4. CASE stage' = "Handoff"
  <2>1. /\ BootMode = "flash" /\ CpuIndex' = FirstCpu /\ ~RunningCpuHandoffAddressPresent'
        /\ Underway /\ Underway'
    BY <1>1, <1>4 DEF BeginHandoff, Inv, Places, TypeOK, Underway
  <2>2. Passed' = Passed /\ Entries' = Entries /\ ~Booted'
    BY <1>1, <1>4 DEF Passed, Entries, Booted
  <2>3. Places'
    BY <1>1, <1>2, <1>4, <2>1 DEF Inv, Places
  <2>4. EntriesInStep'
    BY <1>1, <1>2, <2>1, <2>2, Frame DEF Inv, EntriesInStep, Destination
  <2>5. PlOrigin'
    BY <1>1, <1>2, <2>1, <2>2, Frame DEF Inv, PlOrigin, NoPl
  <2>6. Indices' /\ Seen' /\ OwnCpuSeen'
    BY <1>1, <1>4, <2>1 DEF Indices, Seen, OwnCpuSeen, FirstCpu
  <2>7. Turns'
    <3>1. \A k \in Entries : TurnOver(k) => TurnOver(k)'
      BY <1>1, <1>4 DEF TurnOver
    <3> QED
      BY <1>1, <1>2, <2>1, <2>2, <3>1 DEF Inv, Turns
  <2>8. EarlyInStep' /\ EarlyTurn'
    BY <1>1, <1>2, <1>4, <2>1, <2>2, Frame DEF Inv, EarlyInStep, EarlyTurn, Header, Destination,
       CheckEarlyHandoff, CheckEarlyHandoffCpu
  <2>9. RunningHaveApplications' /\ R5sRunOn' /\ ReleasedAreLoaded'
    BY <1>1, Frame DEF Inv, RunningHaveApplications, R5sRunOn, ReleasedAreLoaded
  <2>10. CompleteHandoff' /\ PlMatchesImage'
    BY <2>2 DEF CompleteHandoff, PlMatchesImage
  <2> QED
    BY <2>3, <2>4, <2>5, <2>6, <2>7, <2>8, <2>9, <2>10 DEF Inv
<1> QED
  BY <1>3, <1>4

\* An entry stands for an application; after an APU restart, for one of the APU.
LEMMA EntryApplication ==
  ASSUME Inv, Underway, NEW k \in Entries
  PROVE  /\ HandoffValues[k] \in Cpus /\ HasApplication(HandoffValues[k])
         /\ ApuOnly => HandoffValues[k] \in A53
<1>1. HandoffValues[k] \in Cpus
  BY ElementOfSeq DEF Inv, TypeOK, Entries
<1>2. PICK i \in Passed : Loadable(i) /\ parts[i].dev = "PS" /\ Destination(parts[i]) = HandoffValues[k]
  BY DEF Inv, EntriesInStep
<1>3. i \in DOMAIN parts
  BY <1>2, ImageTypes DEF Inv, Places, Passed, TypeOK
<1>4. PartOf(i, HandoffValues[k])
  BY <1>2 DEF PartOf, Loadable, NotPartitionOwner, Owned
<1>5. ApuOnly => HandoffValues[k] \in A53
  BY <1>2 DEF Loadable, NotPartitionOwner, Destination, A53
<1> QED
  BY <1>1, <1>3, <1>4, <1>5 DEF HasApplication

\* In the regular handoff every partition has been looked at: an application that this
\* boot loads is in memory and has an entry.
LEMMA WholeApplication ==
  ASSUME Inv, stage = "Handoff", ~EarlyHandoff, Usable, NEW c \in Cpus,
         ApuOnly => c \in A53, NEW i \in DOMAIN parts, PartOf(i, c)
  PROVE  i \in loaded /\ \E k \in Entries : HandoffValues[k] = c
<1>1. Underway
  BY DEF Inv, Places, Underway
<1>2. i \in Passed
  BY <1>1, ImageTypes DEF Inv, Places, Passed
<1>3. Loadable(i)
  BY PartsLoadable DEF Inv
<1> QED
  BY <1>1, <1>2, <1>3 DEF Inv, EntriesInStep, PartOf

\* At an early handoff the partitions of the R5 are behind, as they follow one another.
LEMMA EarlyApplication ==
  ASSUME Inv, stage = "Handoff", EarlyHandoff, Usable, NEW c \in R5, c = Destination(Header),
         NEW i \in DOMAIN parts, PartOf(i, c)
  PROVE  i \in loaded
<1>1. Underway /\ early /\ EarlyUsable /\ self = "A0" /\ ~ApuOnly
  BY DEF Inv, Places, Underway, Usable, EarlyUsable
<1>2. CheckEarlyHandoff /\ PartitionNum \in DOMAIN parts
  BY <1>1 DEF Inv, EarlyTurn, Places
<1>3. parts[PartitionNum].cpu = c /\ parts[i].cpu = c
  BY <1>1, R5Parts DEF Header, Destination, R5
<1>4. i <= PartitionNum
  <2>1. SUFFICES ASSUME PartitionNum < i PROVE FALSE
    BY <1>2, ImageTypes DEF Inv
  <2>2. PartitionNum + 1 \in PartitionNum..i /\ PartitionNum < LastPartition
    BY <2>1, <1>2, ImageTypes DEF Inv
  <2>3. parts[PartitionNum + 1].cpu = c
    BY <2>1, <2>2, <1>1, <1>2, <1>3 DEF EarlyUsable
  <2>4. Destination(parts[PartitionNum + 1]) = c
    BY <2>3 DEF Destination, R5
  <2> QED
    BY <1>2, <2>2, <2>4 DEF CheckEarlyHandoff
<1>5. i \in Passed
  BY <1>2, <1>4, ImageTypes DEF Passed, Inv
<1>6. Loadable(i)
  BY <1>1, PartsLoadable DEF Inv, Cpus
<1> QED
  BY <1>1, <1>5, <1>6 DEF Inv, EntriesInStep

\* The CPU of the entry in turn is still in reset.
LEMMA NotYetRunning ==
  ASSUME Inv, stage = "Handoff", CpuIndex < Len(HandoffValues),
         HandoffValues[CpuIndex + 1] # self, HandedOffNow(HandoffValues[CpuIndex + 1])
  PROVE  cpu[HandoffValues[CpuIndex + 1]] = "reset"
<1> DEFINE n == CpuIndex + 1
<1> DEFINE c == HandoffValues[n]
<1>1. Underway /\ CpuIndex \in Nat /\ n \in Entries /\ CpuIndexEarlyHandoff \in Nat
  BY LenProperties DEF Inv, Places, Underway, TypeOK, Entries
<1>2. c \in Cpus /\ (ApuOnly => c \in A53)
  BY <1>1, EntryApplication
<1>3. ~TurnOver(n)
  BY <1>1 DEF TurnOver, HandedOffNow, CheckEarlyHandoffCpu, Inv, Indices
<1>4. \A k \in Entries : HandoffValues[k] = c => k = n
  BY <1>1 DEF Inv, EntriesInStep
<1>5. ~(ApuOnly /\ c \in R5)
  BY <1>2 DEF A53, R5
<1> QED
  BY <1>1, <1>2, <1>3, <1>4, <1>5 DEF Inv, Turns

\* One CPU of the loop: passed by, handed off early or handed off.
LEMMA HandoffCpuStep ==
  ASSUME Inv, TypeOK', OnlyBadFail', HandoffCpu
  PROVE  Inv'
<1>1. /\ UNCHANGED <<boardVars, self, BootMode, early, multiboot, ResetReason, skewed, pl, r5Used, loaded, HandoffValues>>
      /\ stage = "Handoff" /\ CpuIndex < Len(HandoffValues)
  BY DEF HandoffCpu, histVars, boardVars
<1>2. UNCHANGED <<parts, LastPartition, ApuOnly>>
  BY <1>1 DEF boardVars, parts, LastPartition, Image, ApuOnly
<1>3. /\ Underway /\ BootMode = "flash" /\ CpuIndex \in Nat /\ CpuIndex + 1 \in Entries
      /\ CpuIndexEarlyHandoff \in Nat /\ PartitionNum \in Nat /\ Len(HandoffValues) \in Nat
  BY <1>1, LenProperties DEF Inv, Places, Underway, TypeOK, Entries
<1>a. PICK n \in Entries : n = CpuIndex + 1
  BY <1>3
<1>b. PICK c \in Cpus : c = HandoffValues[n]
  BY <1>3, EntryApplication
<1> DEFINE released == HandedOffNow(c) /\ c # self
<1>4. HasApplication(c) /\ (ApuOnly => c \in A53)
  BY <1>3, <1>b, EntryApplication
<1>5. CASE stage' = "Err"
  <2>1. UNCHANGED <<cpu, RunningCpuHandoffAddressPresent, PartitionNum, EarlyHandoff>>
    BY <1>1, <1>5 DEF HandoffCpu, NextCpu, AfterEarlyHandoff
  <2>2. ~Underway' /\ ~Booted'
    BY <1>5 DEF Underway, Booted
  <2>3. Places'
    BY <1>1, <1>2, <1>3, <1>5, <2>1, <2>2 DEF Inv, Places
  <2> QED
    BY <1>1, <1>5, <2>1, <2>2, <2>3, QuietStep
<1>6. CASE stage' # "Err"
  <2>1. \/ ~HandedOffNow(c) /\ NextCpu
        \/ HandedOffNow(c) /\ ~EarlyHandoff /\ NextCpu
        \/ HandedOffNow(c) /\ EarlyHandoff /\ early /\ c \in R5 /\ AfterEarlyHandoff
    BY <1>1, <1>a, <1>b, <1>6 DEF HandoffCpu, HandedOffNow, CheckEarlyHandoffCpu
  <2>2. /\ IF released THEN Release(c) ELSE UNCHANGED cpu
        /\ RunningCpuHandoffAddressPresent' =
             IF HandedOffNow(c) /\ c = self THEN TRUE ELSE RunningCpuHandoffAddressPresent
    BY <1>1, <1>a, <1>b, <1>6 DEF HandoffCpu
  <2>3. released => cpu[c] = "reset"
    BY <1>1, <1>a, <1>b, NotYetRunning
  <2>4. \A d \in Cpus : /\ cpu'[d] # "reset" <=> cpu[d] # "reset" \/ (released /\ d = c)
                        /\ cpu'[d] # "disturbed"
    BY <2>2, <2>3, <1>4 DEF Release, Inv, Turns, TypeOK
  <2>5. /\ stage' \in {"Handoff", "Stage3", "Stage4"} /\ Underway' /\ ~Booted'
        /\ stage' = "Stage3" => PartitionNum' = PartitionNum + 1 /\ PartitionNum < LastPartition
        /\ stage' # "Stage3" => PartitionNum' = PartitionNum
    BY <2>1, <1>1, <1>3 DEF NextCpu, AfterEarlyHandoff, Underway, Booted
  <2>6. Passed' = Passed /\ Entries' = Entries
    BY <2>5, <1>1, <1>3 DEF Passed, Entries
  <2>7. Places'
    <3>1. PartitionNum \in DOMAIN parts /\ (~EarlyHandoff => PartitionNum = LastPartition)
      BY <1>1, <1>3 DEF Inv, Places
    <3>2. PartitionNum' \in DOMAIN parts
      BY <3>1, <2>5, ImageTypes DEF Inv
    <3>3. stage' # "Stage3" /\ ~EarlyHandoff' => PartitionNum' = LastPartition
      BY <3>1, <2>1, <2>5, ImageTypes DEF Inv, AfterEarlyHandoff, NextCpu
    <3>4. EarlyHandoff' => early
      BY <2>1 DEF AfterEarlyHandoff, NextCpu, Inv, Places
    <3> QED
      BY <1>1, <1>2, <1>3, <2>5, <3>2, <3>3, <3>4 DEF Inv, Places
  <2>8. EntriesInStep'
    BY <1>1, <1>2, <1>3, <2>6, Frame DEF Inv, EntriesInStep, Destination
  <2>9. PlOrigin'
    BY <1>1, <1>2, <1>3, <2>6, Frame DEF Inv, PlOrigin, NoPl
  <2>10. Indices'
    BY <1>1, <1>3, <2>1 DEF Inv, Indices, NextCpu, AfterEarlyHandoff
  <2>11. Turns'
    <3>1. \A k \in Entries : TurnOver(k) => TurnOver(k)'
      BY <1>1, <1>3, <1>a, <1>b, <2>1 DEF TurnOver, NextCpu, AfterEarlyHandoff, Entries, Inv, Indices
    <3>2. released => TurnOver(n)'
      BY <1>1, <1>3, <1>a, <1>b, <2>1 DEF TurnOver, NextCpu, AfterEarlyHandoff, HandedOffNow, CheckEarlyHandoffCpu, Inv, Indices
    <3>3. ASSUME NEW d \in Cpus, cpu'[d] # "reset"
          PROVE  (ApuOnly /\ d \in R5) \/ \E k \in Entries : HandoffValues[k] = d /\ TurnOver(k)'
      <4>1. CASE cpu[d] # "reset"
        BY <1>3, <3>1, <4>1 DEF Inv, Turns
      <4>2. CASE released /\ d = c
        BY <1>b, <3>2, <4>2
      <4> QED
        BY <2>4, <3>3, <4>1, <4>2
    <3> QED
      BY <1>1, <1>2, <2>4, <2>6, <3>3 DEF Turns
  <2>12. Seen' /\ OwnCpuSeen'
    <3>1. Seen'
      <4>1. SUFFICES ASSUME stage' = "Handoff", ~EarlyHandoff', NEW k \in 1..CpuIndex'
                     PROVE  \/ HandoffValues[k] = self /\ RunningCpuHandoffAddressPresent'
                            \/ HandoffValues[k] # self /\ cpu'[HandoffValues[k]] # "reset"
                            \/ early /\ HandoffValues[k] \in R5 \ {self}
        BY <1>1 DEF Seen
      <4>2. ~EarlyHandoff /\ NextCpu /\ CpuIndex' = n
        BY <4>1, <1>a, <2>1 DEF NextCpu, AfterEarlyHandoff
      <4>3. CASE k = n
        <5>1. CASE HandedOffNow(c)
          BY <1>b, <2>2, <2>4, <4>3, <5>1
        <5>2. CASE ~HandedOffNow(c)
          BY <1>b, <4>2, <4>3, <5>2 DEF HandedOffNow, CheckEarlyHandoffCpu
        <5> QED
          BY <5>1, <5>2
      <4>4. CASE k \in 1..CpuIndex
        <5>1. HandoffValues[k] \in Cpus
          BY <1>1, <1>3, <4>4, EntryApplication DEF Entries
        <5> QED
          BY <1>1, <2>2, <2>4, <4>2, <4>4, <5>1 DEF Inv, Seen
      <4> QED
        BY <1>3, <1>a, <4>1, <4>2, <4>3, <4>4
    <3>2. OwnCpuSeen'
      BY <1>1, <1>3, <1>b, <2>2, <2>6 DEF Inv, OwnCpuSeen
    <3> QED
      BY <3>1, <3>2
  <2>13. EarlyInStep' /\ EarlyTurn'
    <3>1. SUFFICES ASSUME early, Usable PROVE EarlyInStep' /\ EarlyTurn'
      BY <1>1, Frame DEF EarlyInStep, EarlyTurn
    <3>2. self = "A0"
      BY <3>1 DEF Usable, EarlyUsable
    <3>3. ~EarlyHandoff => \A k \in Entries : HandoffValues[k] \in R5 => cpu[HandoffValues[k]] # "reset"
      BY <1>1, <1>3, <3>1 DEF Inv, EarlyInStep
    <3>4. \A k \in Entries : HandoffValues[k] \in Cpus
      BY <1>3, EntryApplication
    <3>5. CASE ~EarlyHandoff
      <4>1. ~EarlyHandoff' /\ stage' = "Handoff"
        BY <1>1, <2>1, <3>5 DEF NextCpu
      <4> QED
        BY <1>1, <2>4, <2>6, <3>3, <3>4, <3>5, <4>1 DEF EarlyInStep, EarlyTurn
    <3>6. CASE EarlyHandoff
      <4>1. /\ CheckEarlyHandoff /\ CpuIndexEarlyHandoff = CpuIndex
            /\ HandoffValues[Len(HandoffValues)] = Destination(Header) /\ Destination(Header) \in R5
        BY <1>1, <1>3, <3>1, <3>6 DEF Inv, EarlyTurn, Indices, CheckEarlyHandoff, CheckEarlyHandoffCpu
      <4>2. \A k \in Entries : HandoffValues[k] \in R5 /\ cpu[HandoffValues[k]] = "reset" =>
              k = Len(HandoffValues)
        BY <1>1, <1>3, <3>1 DEF Inv, EarlyInStep
      <4>3. CASE ~HandedOffNow(c)
        <5>1. c \notin R5 /\ n # Len(HandoffValues)
          BY <1>b, <3>1, <3>6, <4>1, <4>3 DEF HandedOffNow, CheckEarlyHandoffCpu
        <5>2. /\ NextCpu /\ UNCHANGED <<cpu, stage, EarlyHandoff, PartitionNum>>
              /\ CpuIndexEarlyHandoff' = n /\ n < Len(HandoffValues)
          BY <1>1, <1>3, <1>a, <2>1, <2>2, <4>1, <4>3, <5>1 DEF NextCpu, Entries
        <5>3. EarlyTurn'
          BY <1>1, <1>2, <1>3, <3>1, <3>6, <4>1, <5>2 DEF EarlyTurn, Header, Destination,
             CheckEarlyHandoff, CheckEarlyHandoffCpu
        <5>4. EarlyInStep'
          BY <1>1, <1>2, <1>3, <1>a, <1>b, <2>6, <3>6, <4>1, <4>2, <5>1, <5>2, Frame DEF EarlyInStep, Header, Destination
        <5> QED
          BY <5>3, <5>4
      <4>4. CASE HandedOffNow(c)
        <5>1. c \in R5 /\ released /\ n = Len(HandoffValues)
          BY <1>3, <1>b, <2>1, <2>3, <3>2, <3>6, <4>2, <4>4 DEF R5
        <5>2. \A k \in Entries : HandoffValues[k] \in R5 => cpu'[HandoffValues[k]] # "reset"
          BY <1>3, <1>b, <2>4, <3>4, <4>2, <5>1
        <5>3. stage' = "Stage3" \/ ~EarlyHandoff'
          BY <2>1, <3>6, <4>4 DEF AfterEarlyHandoff
        <5> QED
          BY <1>1, <2>6, <5>2, <5>3 DEF EarlyInStep, EarlyTurn
      <4> QED
        BY <4>3, <4>4
    <3> QED
      BY <3>5, <3>6
  <2>14. RunningHaveApplications' /\ R5sRunOn'
    <3>1. RunningHaveApplications'
      BY <1>1, <1>4, <2>4, Frame DEF Inv, RunningHaveApplications
    <3>2. R5sRunOn'
      BY <1>1, <2>4, Frame DEF Inv, R5sRunOn, Cpus
    <3> QED
      BY <3>1, <3>2
  <2>15. ReleasedAreLoaded'
    <3>1. ASSUME Usable, released, NEW i \in DOMAIN parts, PartOf(i, c)
          PROVE  i \in loaded
      <4>1. CASE ~EarlyHandoff
        BY <1>1, <1>4, <3>1, <4>1, WholeApplication
      <4>2. CASE EarlyHandoff
        <5>1. early /\ c \in R5
          BY <2>1, <3>1, <4>2
        <5>2. n = Len(HandoffValues)
          BY <1>1, <1>3, <1>b, <2>3, <3>1, <5>1 DEF Inv, EarlyInStep
        <5>3. c = Destination(Header)
          BY <1>1, <1>3, <1>b, <3>1, <4>2, <5>1, <5>2 DEF Inv, EarlyTurn
        <5> QED
          BY <1>1, <3>1, <4>2, <5>1, <5>3, EarlyApplication
      <4> QED
        BY <4>1, <4>2
    <3> QED
      BY <1>1, <1>2, <2>4, <3>1, Frame DEF Inv, ReleasedAreLoaded
  <2>16. CompleteHandoff' /\ PlMatchesImage'
    BY <2>5 DEF CompleteHandoff, PlMatchesImage
  <2> QED
    BY <2>7, <2>8, <2>9, <2>10, <2>11, <2>12, <2>13, <2>14, <2>15, <2>16 DEF Inv
<1> QED
  BY <1>5, <1>6

\* Past the loop every CPU has had its turn, and no early handoff is left over.
LEMMA HandoffExitStep ==
  ASSUME Inv, TypeOK', OnlyBadFail', HandoffExit
  PROVE  Inv'
<1>1. /\ UNCHANGED <<boardVars, self, BootMode, early, multiboot, ResetReason, skewed, pl, r5Used, loaded,
                     PartitionNum, EarlyHandoff, HandoffValues, CpuIndexEarlyHandoff, CpuIndex,
                     RunningCpuHandoffAddressPresent>>
      /\ stage = "Handoff" /\ CpuIndex >= Len(HandoffValues)
      /\ IF RunningCpuHandoffAddressPresent
           THEN stage' = "Exited" /\ cpu' = [cpu EXCEPT ![self] = "running"]
           ELSE stage' = "Idle" /\ UNCHANGED cpu
  BY DEF HandoffExit, progVars, handoffVars, histVars, boardVars
<1>2. UNCHANGED <<parts, LastPartition, ApuOnly>>
  BY <1>1 DEF boardVars, parts, LastPartition, Image, ApuOnly
<1>3. /\ Underway /\ BootMode = "flash" /\ CpuIndex = Len(HandoffValues) /\ self \in Cpus
      /\ Entries = 1..CpuIndex /\ CpuIndex \in Nat /\ ~Underway'
  BY <1>1, LenProperties DEF Inv, Places, Underway, TypeOK, Entries, Cpus, A53, R5
<1>4. \A c \in Cpus : /\ cpu'[c] # "reset" <=> cpu[c] # "reset" \/ (RunningCpuHandoffAddressPresent /\ c = self)
                      /\ cpu'[c] # "disturbed"
  BY <1>1, <1>3 DEF Inv, TypeOK, Turns
<1>5. RunningCpuHandoffAddressPresent => HasApplication(self) /\ (ApuOnly => self \in A53)
  BY <1>1, <1>3, EntryApplication DEF Inv, OwnCpuSeen
<1>6. Usable => ~EarlyHandoff
  BY <1>1, <1>3 DEF Inv, EarlyTurn, Indices, Places
<1>7. Places'
  BY <1>1, <1>2, <1>3 DEF Inv, Places, Underway
<1>8. PlOrigin'
  BY <1>1, <1>3 DEF Inv, PlOrigin, NoPl, boardVars
<1>9. EntriesInStep' /\ EarlyInStep' /\ EarlyTurn' /\ Indices' /\ Seen' /\ OwnCpuSeen'
  BY <1>1, <1>3 DEF EntriesInStep, EarlyInStep, EarlyTurn, Indices, Seen, OwnCpuSeen
<1>10. Turns'
  BY <1>3, <1>4 DEF Turns
<1>11. RunningHaveApplications'
  BY <1>1, <1>4, <1>5, Frame DEF Inv, RunningHaveApplications
<1>12. R5sRunOn'
  BY <1>1, <1>4, Frame DEF Inv, R5sRunOn, Cpus
<1>13. ReleasedAreLoaded'
  <2>1. SUFFICES ASSUME Usable, NEW c \in Cpus, NEW i \in DOMAIN parts, cpu'[c] # "reset", PartOf(i, c)
                 PROVE  i \in loaded
    BY <1>1, Frame DEF ReleasedAreLoaded
  <2>2. CASE cpu[c] # "reset"
    BY <2>1, <2>2 DEF Inv, ReleasedAreLoaded
  <2>3. CASE RunningCpuHandoffAddressPresent /\ c = self
    BY <1>1, <1>5, <1>6, <2>1, <2>3, WholeApplication
  <2> QED
    BY <1>4, <2>1, <2>2, <2>3
<1>14. CompleteHandoff'
  <2>1. SUFFICES ASSUME Usable PROVE EveryCpuReleased' /\ RunningR5Marked'
    BY <1>1, Frame DEF CompleteHandoff
  <2>2. ASSUME NEW c \in Cpus, HasApplication(c) PROVE cpu'[c] # "reset"
    <3>1. CASE ApuOnly /\ c \in R5
      BY <1>4, <2>1, <2>2, <3>1 DEF Inv, R5sRunOn
    <3>2. CASE ApuOnly => c \in A53
      <4>1. PICK i \in DOMAIN parts : PartOf(i, c)
        BY <2>2 DEF HasApplication
      <4>2. PICK k \in Entries : HandoffValues[k] = c
        BY <1>1, <1>6, <2>1, <3>2, <4>1, WholeApplication
      <4>3. \/ c = self /\ RunningCpuHandoffAddressPresent
            \/ c # self /\ cpu[c] # "reset"
            \/ early /\ c \in R5 \ {self}
        BY <1>1, <1>3, <1>6, <2>1, <4>2 DEF Inv, Seen
      <4>4. early /\ c \in R5 => cpu[c] # "reset"
        BY <1>1, <1>3, <1>6, <2>1, <4>2 DEF Inv, EarlyInStep
      <4> QED
        BY <1>4, <4>3, <4>4
    <3> QED
      BY <3>1, <3>2 DEF Cpus
  <2>3. ASSUME NEW c \in R5, cpu'[c] # "reset" PROVE c \in r5Used
    <3>1. HasApplication(c)
      BY <1>4, <1>5, <2>1, <2>3 DEF Inv, RunningHaveApplications, Usable, Cpus
    <3>2. PICK i \in DOMAIN parts : PartOf(i, c)
      BY <3>1 DEF HasApplication
    <3>3. i \in Passed
      BY <1>1, <1>3, <1>6, <2>1, <3>2, ImageTypes DEF Inv, Places, Passed
    <3> QED
      BY <1>3, <2>3, <3>2, <3>3 DEF Inv, EntriesInStep, PartOf
  <2> QED
    BY <1>1, <2>2, <2>3, Frame DEF EveryCpuReleased, RunningR5Marked
<1>15. PlMatchesImage'
  <2>1. SUFFICES ASSUME Usable, NEW i \in DOMAIN parts, Owned(i), parts[i].dev = "PL"
                 PROVE  pl = multiboot \/ (pl = NoPl /\ ResetReason # "SYSTEM")
    BY <1>1, <1>2, Frame DEF PlMatchesImage, Owned, NoPl
  <2>2. CASE ResetReason = "SYSTEM"
    <3>1. i \in Passed
      BY <1>1, <1>3, <1>6, <2>1, ImageTypes DEF Inv, Places, Passed
    <3>2. Loadable(i)
      BY <2>1, <2>2 DEF Loadable, NotPartitionOwner, Owned, ApuOnly
    <3> QED
      BY <1>3, <2>1, <2>2, <3>1, <3>2 DEF Inv, PlOrigin
  <2>3. CASE ResetReason # "SYSTEM"
    BY <2>1, <2>3 DEF Inv, PlOrigin, Usable
  <2> QED
    BY <2>2, <2>3
<1> QED
  BY <1>7, <1>8, <1>9, <1>10, <1>11, <1>12, <1>13, <1>14, <1>15 DEF Inv

\* The entries after a partition p whose destination is d: the first program of a CPU
\* appends one, and nothing else does.
LEMMA EntriesStep ==
  ASSUME Inv, LoadPartition, NEW p \in DOMAIN parts, p = PartitionNum,
         NEW d, d = Destination(parts[p])
  PROVE  /\ HandoffValues' \in Seq(Cpus) /\ Len(HandoffValues) \in Nat
         /\ Entries \subseteq Entries' /\ \A k \in Entries : HandoffValues'[k] = HandoffValues[k]
         /\ \/ HandoffValues' = HandoffValues /\ Len(HandoffValues') = Len(HandoffValues)
            \/ /\ Len(HandoffValues') = Len(HandoffValues) + 1
               /\ HandoffValues'[Len(HandoffValues')] = d
               /\ Loadable(p) /\ parts[p].dev = "PS"
               /\ \A k \in Entries : HandoffValues[k] # d
         /\ Loadable(p) /\ parts[p].dev = "PS" => \E k \in Entries' : HandoffValues'[k] = d
<1>1. HandoffValues \in Seq(Cpus) /\ Len(HandoffValues) \in Nat /\ DOMAIN HandoffValues = Entries
  BY LenProperties DEF Inv, TypeOK, Entries
<1>2. parts[p].dev \in {"PS", "PL"} /\ (parts[p].dev = "PS" => d \in Cpus)
  BY ImageTypes DEF Inv
<1>3. IF Loadable(p) /\ parts[p].dev = "PS" THEN AddHandoff(d) ELSE UNCHANGED HandoffValues
  BY <1>2 DEF LoadPartition, PartitionLoad, Header, Loadable
<1>4. CASE ~(Loadable(p) /\ parts[p].dev = "PS")
  BY <1>1, <1>3, <1>4 DEF Entries
<1>5. CASE Loadable(p) /\ parts[p].dev = "PS" /\ d \in Range(HandoffValues)
  <2>1. UNCHANGED HandoffValues
    BY <1>3, <1>5 DEF AddHandoff
  <2>2. \E k \in Entries : HandoffValues[k] = d
    BY <1>1, <1>5 DEF Range
  <2> QED
    BY <1>1, <2>1, <2>2 DEF Entries
<1>6. CASE Loadable(p) /\ parts[p].dev = "PS" /\ d \notin Range(HandoffValues)
  <2>1. HandoffValues' = Append(HandoffValues, d)
    BY <1>3, <1>6 DEF AddHandoff
  <2>2. \A k \in Entries : HandoffValues[k] # d
    BY <1>1, <1>6 DEF Range
  <2>3. /\ HandoffValues' \in Seq(Cpus) /\ Len(HandoffValues') = Len(HandoffValues) + 1
        /\ \A k \in Entries : HandoffValues'[k] = HandoffValues[k]
        /\ HandoffValues'[Len(HandoffValues) + 1] = d
    BY <1>1, <1>2, <1>6, <2>1, AppendProperties DEF Entries
  <2>4. Entries \subseteq Entries' /\ Len(HandoffValues') \in Entries'
    BY <1>1, <2>3 DEF Entries
  <2> QED
    BY <1>1, <1>6, <2>2, <2>3, <2>4
<1> QED
  BY <1>4, <1>5, <1>6

\* One partition: it goes to memory or to the PL, its CPU to the list, and an R5 whose
\* last partition it was is handed off early.
LEMMA LoadPartitionStep ==
  ASSUME Inv, TypeOK', OnlyBadFail', LoadPartition
  PROVE  Inv'
<1>1. /\ UNCHANGED <<boardVars, self, BootMode, early, flash, multiboot, ResetReason, skewed, cpu,
                     CpuIndexEarlyHandoff, CpuIndex, RunningCpuHandoffAddressPresent>>
      /\ stage = "Stage3"
  BY DEF LoadPartition, handoffVars, histVars, boardVars
<1>2. UNCHANGED <<parts, LastPartition, ApuOnly>>
  BY <1>1 DEF boardVars, parts, LastPartition, Image, ApuOnly
<1>3. Underway /\ BootMode = "flash" /\ PartitionNum \in DOMAIN parts
  BY <1>1 DEF Inv, Places, Underway
<1>p. PICK p \in DOMAIN parts : p = PartitionNum
  BY <1>3
<1>d. PICK d : d = Destination(parts[p])
  OBVIOUS
<1>4. /\ p \in 1..LastPartition /\ LastPartition \in Nat /\ CpuIndexEarlyHandoff \in Nat
      /\ parts[p].cpu \in Cpus \cup {"none"} /\ parts[p].dev \in {"PS", "PL"}
  BY ImageTypes DEF Inv, TypeOK
<1>5. \/ /\ stage' = "Stage3" /\ PartitionNum' = p + 1 /\ UNCHANGED EarlyHandoff
         /\ p < LastPartition /\ ~CheckEarlyHandoff
      \/ /\ stage' = "Stage4" /\ PartitionNum' = p /\ EarlyHandoff' = CheckEarlyHandoff
         /\ p = LastPartition \/ CheckEarlyHandoff
  BY <1>p, <1>4 DEF LoadPartition
<1>6. Underway' /\ ~Booted' /\ Passed = 1..p-1 /\ Passed' = 1..p
  BY <1>1, <1>3, <1>p, <1>4, <1>5 DEF Underway, Booted, Passed
<1>7. /\ loaded' = IF Loadable(p) THEN loaded \cup {p} ELSE loaded
      /\ pl' = IF Loadable(p) /\ parts[p].dev = "PL" THEN multiboot ELSE pl
      /\ r5Used \subseteq r5Used' /\ (d \in R5 => d \in r5Used')
  <2>1. /\ loaded' = IF Loadable(p) THEN loaded \cup {p} ELSE loaded
        /\ pl' = IF Loadable(p) /\ parts[p].dev = "PL" THEN multiboot ELSE pl
    BY <1>p DEF LoadPartition, PartitionLoad, Header, Loadable
  <2>2. r5Used \subseteq r5Used' /\ (d \in R5 => d \in r5Used')
    BY <1>p, <1>d, <1>4 DEF LoadPartition, MarkUsedRPUCores, Header, Destination, R5
  <2> QED
    BY <2>1, <2>2
<1>8. /\ HandoffValues' \in Seq(Cpus) /\ Len(HandoffValues) \in Nat
      /\ Entries \subseteq Entries' /\ \A k \in Entries : HandoffValues'[k] = HandoffValues[k]
      /\ \/ HandoffValues' = HandoffValues /\ Len(HandoffValues') = Len(HandoffValues)
         \/ /\ Len(HandoffValues') = Len(HandoffValues) + 1
            /\ HandoffValues'[Len(HandoffValues')] = d
            /\ Loadable(p) /\ parts[p].dev = "PS"
            /\ \A k \in Entries : HandoffValues[k] # d
      /\ Loadable(p) /\ parts[p].dev = "PS" => \E k \in Entries' : HandoffValues'[k] = d
  BY <1>p, <1>d, EntriesStep
<1>9. Places'
  <2>1. PartitionNum' \in DOMAIN parts
    BY <1>4, <1>5, ImageTypes DEF Inv
  <2>2. EarlyHandoff' => early
    BY <1>5 DEF Inv, Places, CheckEarlyHandoff, CheckEarlyHandoffCpu
  <2> QED
    BY <1>1, <1>2, <1>3, <1>5, <2>1, <2>2 DEF Inv, Places
<1>10. EntriesInStep'
  <2>1. ASSUME NEW k \in Entries'
        PROVE  \/ k \in Entries /\ HandoffValues'[k] = HandoffValues[k]
               \/ /\ k = Len(HandoffValues') /\ HandoffValues'[k] = d /\ Loadable(p) /\ parts[p].dev = "PS"
                  /\ \A l \in Entries : HandoffValues[l] # d
    BY <1>8 DEF Entries
  <2>2. \A k, l \in Entries' : HandoffValues'[k] = HandoffValues'[l] => k = l
    BY <1>3, <2>1 DEF Inv, EntriesInStep
  <2>3. \A k \in Entries' : \E i \in 1..p :
          Loadable(i) /\ parts[i].dev = "PS" /\ Destination(parts[i]) = HandoffValues'[k]
    <3>1. SUFFICES ASSUME NEW k \in Entries'
                   PROVE  \E i \in 1..p : Loadable(i) /\ parts[i].dev = "PS" /\ Destination(parts[i]) = HandoffValues'[k]
      OBVIOUS
    <3>2. CASE k \in Entries /\ HandoffValues'[k] = HandoffValues[k]
      BY <1>3, <1>4, <1>6, <3>2 DEF Inv, EntriesInStep
    <3>3. CASE HandoffValues'[k] = d /\ Loadable(p) /\ parts[p].dev = "PS"
      BY <1>d, <1>4, <3>3
    <3> QED
      BY <2>1, <3>2, <3>3
  <2>4. \A i \in 1..p : i = p \/ i \in Passed
    BY <1>4, <1>6
  <2>5. \A i \in 1..p : Loadable(i) /\ parts[i].dev = "PS" => \E k \in Entries' : HandoffValues'[k] = Destination(parts[i])
    <3>1. \A i \in Passed : Loadable(i) /\ parts[i].dev = "PS" =>
            \E k \in Entries : HandoffValues'[k] = Destination(parts[i]) /\ k \in Entries'
      BY <1>3, <1>8 DEF Inv, EntriesInStep
    <3> QED
      BY <1>d, <1>8, <2>4, <3>1
  <2>6. \A i \in 1..p : Loadable(i) => i \in loaded'
    BY <1>3, <1>7, <2>4 DEF Inv, EntriesInStep
  <2>7. ~ApuOnly => loaded' \subseteq 1..p
    BY <1>3, <1>4, <1>6, <1>7 DEF Inv, EntriesInStep
  <2>8. \A i \in 1..p : Destination(parts[i]) \in R5 => Destination(parts[i]) \in r5Used'
    BY <1>3, <1>d, <1>7, <2>4 DEF Inv, EntriesInStep
  <2> QED
    BY <1>1, <1>2, <1>6, <2>2, <2>3, <2>5, <2>6, <2>7, <2>8, Frame DEF EntriesInStep, Destination
<1>11. PlOrigin'
  <2>1. multiboot < Slots /\ flash[multiboot] # NoImage /\ multiboot \in Nat /\ Slots \in Nat
    BY <1>p, ImageTypes, BootAssumption DEF Inv, TypeOK
  <2>2. ~skewed => pl' \in {multiboot, NoPl}
    BY <1>7 DEF Inv, PlOrigin
  <2>3. pl' # NoPl => pl' \in 0..Slots-1 /\ flash[pl'] # NoImage
    <3>1. pl # NoPl => pl \in 0..Slots-1 /\ flash[pl] # NoImage
      BY DEF Inv, PlOrigin
    <3>2. pl' \in {pl, multiboot}
      BY <1>7
    <3> QED
      BY <2>1, <3>1, <3>2
  <2>4. ResetReason = "SYSTEM" => \A i \in 1..p : Loadable(i) /\ parts[i].dev = "PL" => pl' = multiboot
    <3>1. \A i \in 1..p : i = p \/ i \in Passed
      BY <1>4, <1>6
    <3> QED
      BY <1>3, <1>7, <3>1 DEF Inv, PlOrigin
  <2> QED
    BY <1>1, <1>2, <1>6, <2>2, <2>3, <2>4, Frame DEF PlOrigin, NoPl
<1>12. Indices' /\ Seen' /\ OwnCpuSeen'
  <2>1. CpuIndexEarlyHandoff <= Len(HandoffValues) /\ stage' # "Handoff"
    BY <1>1, <1>5 DEF Inv, Indices
  <2>2. CpuIndexEarlyHandoff <= Len(HandoffValues')
    BY <1>4, <1>8, <2>1
  <2> QED
    BY <1>1, <2>1, <2>2 DEF Indices, Seen, OwnCpuSeen
<1>13. Turns'
  <2>1. \A k \in Entries : TurnOver(k) => TurnOver(k)'
    BY <1>1, <1>8 DEF TurnOver
  <2>2. \A c \in Cpus : cpu[c] # "reset" =>
          (ApuOnly /\ c \in R5) \/ \E k \in Entries' : HandoffValues'[k] = c /\ TurnOver(k)'
    BY <1>3, <1>8, <2>1 DEF Inv, Turns
  <2> QED
    BY <1>1, <1>2, <2>2 DEF Inv, Turns
<1>14. EarlyInStep' /\ EarlyTurn'
  <2>1. SUFFICES ASSUME early, Usable PROVE EarlyInStep' /\ EarlyTurn'
    BY <1>1, Frame DEF EarlyInStep, EarlyTurn
  <2>2. self = "A0" /\ ~ApuOnly /\ EarlyUsable /\ CpuIndexEarlyHandoff <= Len(HandoffValues)
    BY <1>1, <2>1 DEF Usable, EarlyUsable, Inv, Indices
  <2>3. d \in R5 => Loadable(p) /\ PartOf(p, d) /\ parts[p].dev = "PS"
    <3>1. d \in R5 => parts[p].cpu \in R5
      BY <1>d, <2>2 DEF Destination, R5
    <3> QED
      BY <1>d, <2>2, <3>1 DEF EarlyUsable, Loadable, NotPartitionOwner, PartOf, Owned
  <2>4. d \in R5 => cpu[d] = "reset"
    <3>1. p \notin loaded
      BY <1>3, <1>4, <1>6, <2>2 DEF Inv, EntriesInStep
    <3> QED
      BY <2>1, <2>3, <3>1 DEF Inv, ReleasedAreLoaded, Cpus
  <2>5. ASSUME NEW k \in Entries', HandoffValues'[k] \in R5, cpu[HandoffValues'[k]] = "reset"
        PROVE  HandoffValues'[k] = d /\ k = Len(HandoffValues') /\ k > CpuIndexEarlyHandoff
    <3>1. CASE k \in Entries
      <4>1. k = Len(HandoffValues) /\ k > CpuIndexEarlyHandoff /\ HandoffValues[k] = d
        BY <1>3, <1>p, <1>d, <1>8, <2>1, <2>5, <3>1 DEF Inv, EarlyInStep, Header
      <4> QED
        BY <1>8, <3>1, <4>1
    <3>2. CASE k \notin Entries
      BY <1>4, <1>8, <2>2, <3>2 DEF Entries
    <3> QED
      BY <3>1, <3>2
  <2>6. d \in R5 => CheckEarlyHandoff \/ (p < LastPartition /\ Destination(parts[p + 1]) = d)
    BY <1>p, <1>d, <2>1, <2>2 DEF CheckEarlyHandoff, CheckEarlyHandoffCpu, Header, R5
  <2>7. Header' = parts[PartitionNum'] /\ Destination(Header)' = Destination(parts[PartitionNum'])
    BY <1>1, <1>2 DEF Header, Destination
  <2>8. EarlyInStep'
    <3>1. SUFFICES ASSUME NEW k \in Entries', HandoffValues'[k] \in R5, cpu[HandoffValues'[k]] = "reset"
                   PROVE  /\ k = Len(HandoffValues') /\ k > CpuIndexEarlyHandoff
                          /\ HandoffValues'[k] = Destination(parts[PartitionNum'])
                          /\ stage' = "Stage3" \/ EarlyHandoff'
      BY <1>1, <2>7 DEF EarlyInStep
    <3>2. HandoffValues'[k] = d /\ k = Len(HandoffValues') /\ k > CpuIndexEarlyHandoff /\ d \in R5
      BY <2>5, <3>1
    <3> QED
      BY <1>d, <1>5, <2>6, <3>2
  <2>9. EarlyTurn'
    <3>1. SUFFICES ASSUME stage' = "Stage4", EarlyHandoff'
                   PROVE  /\ CheckEarlyHandoff' /\ CpuIndexEarlyHandoff < Len(HandoffValues')
                          /\ HandoffValues'[Len(HandoffValues')] = d
      BY <1>1, <1>d, <1>5, <2>7 DEF EarlyTurn
    <3>2. CheckEarlyHandoff /\ PartitionNum' = PartitionNum
      BY <1>p, <1>5, <3>1
    <3>3. CheckEarlyHandoff'
      BY <1>1, <1>2, <3>2 DEF CheckEarlyHandoff, CheckEarlyHandoffCpu, Header, Destination
    <3>4. d \in R5
      BY <1>p, <1>d, <3>2 DEF CheckEarlyHandoff, CheckEarlyHandoffCpu, Header
    <3>5. PICK k \in Entries' : HandoffValues'[k] = d
      BY <1>8, <2>3, <3>4
    <3> QED
      BY <2>4, <2>5, <3>3, <3>4, <3>5
  <2> QED
    BY <2>8, <2>9
<1>15. RunningHaveApplications' /\ R5sRunOn' /\ ReleasedAreLoaded'
  BY <1>1, <1>7, Frame DEF Inv, RunningHaveApplications, R5sRunOn, ReleasedAreLoaded
<1>16. CompleteHandoff' /\ PlMatchesImage'
  BY <1>6 DEF CompleteHandoff, PlMatchesImage
<1> QED
  BY <1>9, <1>10, <1>11, <1>12, <1>13, <1>14, <1>15, <1>16 DEF Inv

\* Every board starts in reset.
LEMMA InitInv ==
  ASSUME Init
  PROVE  Inv
<1>1. <<>> \in Seq(Cpus) /\ Len(<<>>) = 0
  BY EmptySeq
<1>2. TypeOK
  <2>1. /\ self \in {"A0", "R0"} /\ BootMode \in {"flash", "usb", "jtag"}
        /\ early \in BOOLEAN /\ WdtPresent \in BOOLEAN
        /\ flash \in [0..(Slots - 1) -> Images \cup {NoImage}]
        /\ multiboot \in Nat /\ ResetReason = "SYSTEM" /\ ErrorStatus = "COMPLETED"
    BY DEF Init
  <2>2. {swdt, wdt, EarlyHandoff, RunningCpuHandoffAddressPresent, overRecord, skewed} \subseteq BOOLEAN
    BY DEF Init
  <2>3. cpu \in [Cpus -> {"reset", "running", "disturbed"}] /\ r5Used \subseteq R5
    BY DEF Init
  <2>4. pl \in 0..NoPl /\ resets \in 0..MaxResets /\ loaded \subseteq Nat
    BY BootAssumption DEF Init, NoPl
  <2>5. /\ PartitionNum \in Nat /\ HandoffValues \in Seq(Cpus)
        /\ CpuIndexEarlyHandoff \in Nat /\ CpuIndex \in 0..Len(HandoffValues)
    BY <1>1 DEF Init
  <2>6. stage \in Stages
    BY DEF Init, Stages
  <2> QED
    BY <2>1, <2>2, <2>3, <2>4, <2>5, <2>6 DEF TypeOK
<1>3. stage = "Rom" /\ ~Underway /\ ~Booted /\ ~ApuOnly /\ \A c \in Cpus : cpu[c] = "reset"
  BY DEF Init, Underway, Booted, ApuOnly
<1>4. Places
  BY <1>3 DEF Init, Places, Fresh, AllReset
<1>5. PlOrigin /\ OnlyBadFail
  BY <1>3, BootAssumption DEF Init, PlOrigin, NoPl, OnlyBadFail
<1>6. EntriesInStep /\ EarlyInStep /\ EarlyTurn /\ Indices /\ Seen /\ OwnCpuSeen
  BY <1>3 DEF EntriesInStep, EarlyInStep, EarlyTurn, Indices, Seen, OwnCpuSeen
<1>7. Turns /\ RunningHaveApplications /\ R5sRunOn /\ ReleasedAreLoaded
  BY <1>3 DEF Turns, RunningHaveApplications, R5sRunOn, ReleasedAreLoaded
<1>8. CompleteHandoff /\ PlMatchesImage
  BY <1>3 DEF CompleteHandoff, PlMatchesImage
<1> QED
  BY <1>2, <1>4, <1>5, <1>6, <1>7, <1>8 DEF Inv

\* The three resets from outside.
LEMMA ResetRequestStep ==
  ASSUME Inv, TypeOK', OnlyBadFail', ResetRequest
  PROVE  Inv'
<1>1. UNCHANGED <<boardVars, multiboot, ErrorStatus, swdt, skewed>> /\ resets' = resets + 1
  BY DEF ResetRequest
<1>2. CASE SystemReset("SYSTEM")
  BY <1>1, <1>2, SystemResetStep
<1>3. CASE SystemReset("PS_ONLY")
  BY <1>1, <1>3, SystemResetStep
<1>4. CASE /\ self = "A0" /\ BootMode = "flash"
           /\ stage \in {"Exited", "Spin"} \/ (stage = "Hung" /\ ApuOnly)
           /\ ApuReset
  BY <1>1, <1>4, ApuResetStep
<1> QED
  BY <1>2, <1>3, <1>4 DEF ResetRequest

\* Every step keeps the invariant.
LEMMA NextInv ==
  ASSUME Inv, [Next]_vars
  PROVE  Inv'
<1>1. CASE Next
  <2>0. TypeOK' /\ OnlyBadFail'
    BY <1>1, TypeStep, FailStep
  <2>1. CASE WatchdogExpires
    <3>1. SystemReset("SYSTEM") /\ UNCHANGED <<boardVars, multiboot, skewed>>
      BY <2>1 DEF WatchdogExpires, histVars
    <3> QED
      BY <2>0, <3>1, SystemResetStep
  <2>2. CASE ResetRequest
    BY <2>0, <2>2, ResetRequestStep
  <2>3. CASE RomSearch \/ Initialize \/ BootDeviceInitAndValidate \/ LoadFails \/ ErrorLockDown
    BY <2>0, <2>3, RomStep, InitializeStep, BootDeviceStep, ErrorLockDownStep
  <2>4. CASE LoadPartition \/ BeginHandoff \/ HandoffCpu \/ HandoffExit
    BY <2>0, <2>4, LoadPartitionStep, BeginHandoffStep, HandoffCpuStep, HandoffExitStep
  <2> QED
    BY <1>1, <2>1, <2>2, <2>3, <2>4 DEF Next, Step
<1>2. CASE UNCHANGED vars
  <2>0. /\ UNCHANGED <<boardVars, self, BootMode, early, WdtPresent, flash, multiboot, ResetReason, ErrorStatus>>
        /\ UNCHANGED <<swdt, wdt, cpu, pl, r5Used, stage, PartitionNum, EarlyHandoff, HandoffValues>>
        /\ UNCHANGED <<CpuIndexEarlyHandoff, CpuIndex, RunningCpuHandoffAddressPresent, loaded, resets, overRecord, skewed>>
    BY <1>2 DEF vars, boardVars, hwVars, progVars, handoffVars, histVars
  <2>1. UNCHANGED <<parts, LastPartition, Image, ApuOnly, Passed, Entries, AllReset, Fresh, Underway, Booted>>
    BY <2>0 DEF parts, LastPartition, Image, ApuOnly, Passed, Entries, AllReset, Fresh, Underway, Booted
  <2>2. TypeOK' /\ OnlyBadFail'
    BY <2>0, <2>1 DEF Inv, TypeOK, OnlyBadFail, BadImageHere, NoPl
  <2>3. Places'
    BY <2>0, <2>1 DEF Inv, Places
  <2>4. EntriesInStep' /\ PlOrigin'
    BY <2>0, <2>1, Frame DEF Inv, EntriesInStep, PlOrigin, NoPl, Destination
  <2>5. Indices' /\ Seen' /\ OwnCpuSeen'
    BY <2>0, <2>1 DEF Inv, Indices, Seen, OwnCpuSeen
  <2>6. Turns'
    BY <2>0, <2>1 DEF Inv, Turns, TurnOver
  <2>7. EarlyInStep' /\ EarlyTurn'
    BY <2>0, <2>1, Frame DEF Inv, EarlyInStep, EarlyTurn, Header, Destination, CheckEarlyHandoff, CheckEarlyHandoffCpu
  <2>8. RunningHaveApplications' /\ R5sRunOn' /\ ReleasedAreLoaded'
    BY <2>0, Frame DEF Inv, RunningHaveApplications, R5sRunOn, ReleasedAreLoaded
  <2>9. CompleteHandoff' /\ PlMatchesImage'
    BY <2>0, <2>1, Frame DEF Inv, CompleteHandoff, EveryCpuReleased, RunningR5Marked, PlMatchesImage, Owned, NoPl
  <2> QED
    BY <2>2, <2>3, <2>4, <2>5, <2>6, <2>7, <2>8, <2>9 DEF Inv
<1> QED
  BY <1>1, <1>2

\* The loader, its environment and the registers keep the invariant through boots,
\* failures and resets.
THEOREM BootInvariant == Spec => []Inv
<1>1. Init => Inv
  BY InitInv
<1>2. Inv /\ [Next]_vars => Inv'
  BY NextInv
<1> QED
  BY <1>1, <1>2, PTL DEF Spec

\* Every variable of the boot has its type, whatever the images and the resets.
THEOREM TypeCorrect == Spec => []TypeOK
<1>1. Inv => TypeOK
  BY DEF Inv
<1> QED
  BY <1>1, BootInvariant, PTL

\* XFsbl_Handoff takes a CPU out of reset, early or at the end, only when
\* XFsbl_PartitionLoad has brought every partition of its application to memory.
THEOREM ReleasedLoaded == Spec => []ReleasedAreLoaded
<1>1. Inv => ReleasedAreLoaded
  BY DEF Inv
<1> QED
  BY <1>1, BootInvariant, PTL

\* A boot that ends well has handed off every CPU with an application, across the
\* returns from early handoffs to the loading, and has marked the R5s that run.
THEOREM HandoffComplete == Spec => []CompleteHandoff
<1>1. Inv => CompleteHandoff
  BY DEF Inv
<1> QED
  BY <1>1, BootInvariant, PTL

\* The PL holds the bitstream of the image that booted, through fallbacks and resets
\* that leave the PL as it is.
THEOREM PlOfImage == Spec => []PlMatchesImage
<1>1. Inv => PlMatchesImage
  BY DEF Inv
<1> QED
  BY <1>1, BootInvariant, PTL

\* XFsbl_FallBack moves multiboot past bad images only, through failures, hangs and resets of
\* every kind, until a reset is asked for while a watchdog reset is on record.
THEOREM NoGoodImageSkipped == Spec => []GoodNeverSkipped
<1>1. Inv => GoodNeverSkipped
  BY DEF Inv, OnlyBadFail, GoodNeverSkipped
<1> QED
  BY <1>1, BootInvariant, PTL

\* What a step does to the R5s and to the PL after an APU restart.
LEMMA ApuOnlyStep ==
  ASSUME Inv, [Next]_vars, ApuOnly, ApuOnly'
  PROVE  (\A c \in R5 : cpu'[c] = cpu[c]) /\ (~BitstreamOfA53 => pl' = pl)
<1>0. self = "A0" /\ cpu \in [Cpus -> {"reset", "running", "disturbed"}]
  BY DEF Inv, Places, TypeOK
<1>1. ASSUME NEW reason \in {"SYSTEM", "PS_ONLY"}, SystemReset(reason)
      PROVE  FALSE
  BY <1>1 DEF SystemReset, ApuOnly
<1>2. CASE LoadPartition
  <2>1. UNCHANGED cpu /\ PartitionNum \in DOMAIN parts
    BY <1>2 DEF LoadPartition, Inv, Places, Underway
  <2>2. ~BitstreamOfA53 => pl' = pl
    BY <1>2, <2>1 DEF LoadPartition, PartitionLoad, NotPartitionOwner, Header, BitstreamOfA53
  <2> QED
    BY <2>1, <2>2
<1>3. CASE HandoffCpu
  <2>1. Underway /\ CpuIndex + 1 \in Entries
    BY <1>3, LenProperties DEF HandoffCpu, Inv, Places, Underway, TypeOK, Entries
  <2>2. HandoffValues[CpuIndex + 1] \in A53
    BY <2>1, EntryApplication
  <2> QED
    BY <1>0, <1>3, <2>2 DEF HandoffCpu, Release, A53, R5, Cpus
<1>4. CASE HandoffExit
  BY <1>0, <1>4 DEF HandoffExit, R5, Cpus, A53
<1>5. CASE ResetRequest
  BY <1>1, <1>5 DEF ResetRequest, ApuReset, R5, Cpus, A53
<1>6. CASE WatchdogExpires
  BY <1>1, <1>6 DEF WatchdogExpires
<1>7. CASE ErrorLockDown
  BY <1>1, <1>7 DEF ErrorLockDown, UpdateMultiBoot, hwVars
<1>8. CASE RomSearch \/ Initialize \/ BootDeviceInitAndValidate \/ LoadFails \/ BeginHandoff \/ UNCHANGED vars
  BY <1>8 DEF RomSearch, Initialize, BootDeviceInitAndValidate, LoadFails, BeginHandoff, vars, hwVars
<1> QED
  BY <1>2, <1>3, <1>4, <1>5, <1>6, <1>7, <1>8 DEF Next, Step

\* No CPU is taken out of reset twice, although early and regular handoffs go over
\* the same list, and an APU restart leaves the R5s and the PL alone.
THEOREM Undisturbed == Spec => RunningUndisturbed
<1>1. Inv' => \A c \in Cpus : cpu'[c] # "disturbed"
  BY DEF Inv, Turns
<1>2. Inv /\ Inv' /\ [Next]_vars =>
        [/\ \A c \in Cpus : cpu'[c] # "disturbed"
         /\ ApuOnly /\ ApuOnly' => \A c \in R5 : cpu'[c] = cpu[c]
         /\ ApuOnly /\ ApuOnly' /\ ~BitstreamOfA53 => pl' = pl]_vars
  BY <1>1, ApuOnlyStep
<1> QED
  BY <1>2, BootInvariant, PTL DEF Spec, RunningUndisturbed
=============================================================================
