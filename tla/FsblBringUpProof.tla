-------------------------- MODULE FsblBringUpProof --------------------------
(***************************************************************************)
(* Proofs about FsblBringUp: whatever the sizes of the DDR and of a        *)
(* transfer, its trainings end and it is written before it is used;        *)
(* whichever boot devices are built in, the image is that of the device    *)
(* named; whatever the layout of a bitstream and whatever becomes of its   *)
(* copy in the DDR, the PL receives only what was signed; whatever the     *)
(* flash, its bad blocks or the host, what is downloaded and copied is     *)
(* the image.                                                              *)
(*                                                                         *)
(* The parts share no variables: each has an invariant of its own (MemInv, *)
(* DevInv, PlInv, DfuInv, CopyInv).                                        *)
(***************************************************************************)
EXTENDS FsblBringUp, FiniteSetTheorems, WellFoundedInduction, TLAPS

\* What the trainings have come to, and what psu_init knows of it.
Leveled == "Leveling" \in ended \ errors
AllEnded == pll = "locked" /\ ended = Trainings /\ "Leveling" \notin errors
Trained ==
  /\ psuStage \in {"Idle", "Phy"} => ended = {}
  /\ psuStage = "Leveling" => pll = "locked" /\ ended \subseteq {"Leveling"}
  /\ psuStage = "Vref" => pll = "locked" /\ Leveled /\ "Eye" \notin ended
  /\ psuStage = "Eye" => pll = "locked" /\ Leveled /\ "Vref" \in ended
  /\ psuStage = "Peripherals" => AllEnded \/ (~status /\ ended = {})
  /\ psuStage \in {"NextRange", "Chunk", "WaitDone", "Done"} => AllEnded
  /\ ended \ {"Leveling"} # {} => Leveled

\* The ranges before the current one.
Before == IF range = 1 THEN {} ELSE IF range = 2 THEN Span(1) ELSE Span(1) \cup Span(2)

AtRest == channel.state = "DONE" /\ ~channel.done

\* Between two chunks everything before StartAddr is written; while the channel is
\* at work, what is written, at work and left make up the chunk.
Written ==
  /\ psuStage \in Trainings \cup {"Idle", "Phy", "Peripherals"} =>
       range = 1 /\ written = {} /\ AtRest /\ channel.mode = "normal"
  /\ psuStage \in {"NextRange", "Done"} =>
       written = Before /\ AtRest /\ channel.mode = "normal"
  /\ psuStage = "Done" => range = 3
  /\ psuStage \in {"Chunk", "WaitDone"} =>
       /\ range \in 1..2 /\ Ranges[range].from <= StartAddr
       /\ StartAddr + NumBytes = Ranges[range].from + Ranges[range].len
  /\ psuStage = "Chunk" =>
       written = Before \cup (Ranges[range].from..StartAddr-1) /\ AtRest
  /\ psuStage = "WaitDone" =>
       /\ NumBytes > 0 /\ StartAddr <= channel.at
       /\ channel.at + channel.left = StartAddr + Length
       /\ written = Before \cup (Ranges[range].from..channel.at-1)
       /\ channel.state = "BUSY" => ~channel.done
       /\ channel.state = "DONE" => channel.left = 0 /\ channel.done
MemInv == MemTypeOK /\ Trained /\ Written

-----------------------------------------------------------------------------
\* The two ranges are numbers.
LEMMA RangeTypes ==
  /\ DOMAIN Ranges = 1..2 /\ MaxTransfer \in Nat \ {0} /\ PllRetries \in Nat
  /\ \A r \in 1..2 : Ranges[r].from \in Nat /\ Ranges[r].len \in Nat \ {0}
BY MemoryAssumption

ChannelType == [state : {"DONE", "BUSY", "ERR"}, done : BOOLEAN,
                mode : {"normal", "write only"}, at : Nat, left : 0..MaxTransfer]

\* The variables of the ECC initialization one by one; a chunk is as long as a
\* transfer allows.
LEMMA EccTypes ==
  ASSUME MemTypeOK
  PROVE  /\ range \in 1..3 /\ StartAddr \in Nat /\ NumBytes \in Nat
         /\ channel \in ChannelType /\ channel.at \in Nat /\ channel.left \in Nat
         /\ channel.left <= MaxTransfer /\ channel.state \in {"DONE", "BUSY", "ERR"}
         /\ Length \in Nat /\ Length <= MaxTransfer /\ Length <= NumBytes
         /\ NumBytes > 0 => Length > 0
<1>1. range \in 1..3 /\ StartAddr \in Nat /\ NumBytes \in Nat /\ channel \in ChannelType
  BY DEF MemTypeOK, ChannelType
<1>2. /\ channel.at \in Nat /\ channel.left \in 0..MaxTransfer
      /\ channel.state \in {"DONE", "BUSY", "ERR"}
  BY <1>1 DEF ChannelType
<1>3. MaxTransfer \in Nat \ {0}
  BY RangeTypes
<1>4. /\ Length \in Nat /\ Length <= MaxTransfer /\ Length <= NumBytes
      /\ NumBytes > 0 => Length > 0
  <2>1. NumBytes \in Nat
    BY <1>1
  <2> QED
    BY <2>1, <1>3 DEF Length
<1> QED
  BY <1>1, <1>2, <1>3, <1>4

\* MemTypeOK in three parts.
Places == Trainings \cup {"Idle", "Phy", "Peripherals", "NextRange", "Chunk", "WaitDone", "Done", "Err"}
PsuTyped == /\ status \in BOOLEAN /\ pllRetry \in 0..PllRetries /\ pll \in {"off", "locked"}
            /\ ended \subseteq Trainings /\ errors \subseteq ended
EccTyped == range \in 1..3 /\ StartAddr \in Nat /\ NumBytes \in Nat /\ channel \in ChannelType

LEMMA MemTypes == MemTypeOK <=> psuStage \in Places /\ PsuTyped /\ EccTyped
BY Zenon DEF MemTypeOK, Places, PsuTyped, EccTyped, ChannelType

\* As MemTypes, after a step.
LEMMA MemTypesNext == MemTypeOK' <=> psuStage' \in Places /\ PsuTyped' /\ EccTyped'
BY Zenon DEF MemTypeOK, Places, PsuTyped, EccTyped, ChannelType

\* psu_init and the PHY beside it.
LEMMA PsuStep ==
  ASSUME MemInv, MemStart \/ PhyPll \/ PhyBringUp \/ PhyTrains \/ PhyLeveled \/ PhyVref \/ PhyTrained
                   \/ PsuReturn
  PROVE  MemInv'
<1> USE DEF MemInv, psuVars, phyVars, eccVars, Trainings
<1>0. /\ psuStage \in Trainings \cup {"Idle", "Phy", "Peripherals"}
      /\ UNCHANGED eccVars
  BY DEF MemStart, PhyPll, PhyBringUp, PhyTrains, PhyLeveled, PhyVref, PhyTrained, PsuReturn
<1>1. psuStage' \in Trainings \cup {"Phy", "Peripherals", "NextRange", "Err"}
  BY <1>0 DEF MemStart, PhyPll, PhyBringUp, PhyTrains, PhyLeveled, PhyVref, PhyTrained, PsuReturn
<1>2. range = 1 /\ written = {} /\ AtRest /\ channel.mode = "normal"
  BY <1>0 DEF Written
<1>3. Written'
  BY <1>0, <1>1, <1>2 DEF Written, Before, AtRest
<1>4. status' \in BOOLEAN /\ pll' \in {"off", "locked"}
  <2>1. status' = status \/ status' \in BOOLEAN
    <3>1. CASE PhyBringUp
      <4>1. status' = (status /\ FALSE) \/ status' = status
        BY <3>1, Zenon DEF PhyBringUp, AndStatus
      <4> QED
        BY <4>1, Zenon
    <3>2. CASE PhyTrained \/ PsuReturn
      <4>1. status' = (status /\ TRUE)
        BY <3>2, Zenon DEF PhyTrained, PsuReturn, AndStatus
      <4> QED
        BY <4>1, Zenon
    <3>3. CASE MemStart \/ PhyPll \/ PhyTrains \/ PhyLeveled \/ PhyVref
      BY <3>3 DEF MemStart, PhyPll, PhyTrains, PhyLeveled, PhyVref
    <3> QED
      BY <3>1, <3>2, <3>3
  <2>2. pll' \in {"off", "locked"} \/ pll' = pll
    BY DEF MemStart, PhyPll, PhyBringUp, PhyTrains, PhyLeveled, PhyVref, PhyTrained, PsuReturn
  <2> QED
    BY <2>1, <2>2 DEF MemTypeOK
<1>5. pllRetry' \in 0..PllRetries
  <2>1. PllRetries \in Nat /\ pllRetry \in 0..PllRetries
    BY RangeTypes DEF MemTypeOK
  <2> QED
    <3>1. pllRetry' = pllRetry \/ (pllRetry' = pllRetry - 1 /\ pllRetry > 0)
      BY Zenon DEF MemStart, PhyPll, PhyBringUp, PhyTrains, PhyLeveled, PhyVref, PhyTrained, PsuReturn
    <3> QED
      BY <2>1, <3>1
<1>6. ended' \subseteq Trainings /\ errors' \subseteq ended'
  <2>1. CASE PhyTrains
    BY <2>1 DEF PhyTrains, MemTypeOK
  <2>2. CASE ~PhyTrains
    BY <2>2 DEF MemTypeOK, MemStart, PhyPll, PhyBringUp, PhyLeveled, PhyVref, PhyTrained, PsuReturn
  <2> QED
    BY <2>1, <2>2
<1>7. MemTypeOK'
  <2>1. EccTyped'
    BY <1>0, MemTypes DEF EccTyped
  <2>2. psuStage' \in Places
    BY <1>1 DEF Places
  <2>3. PsuTyped'
    BY <1>4, <1>5, <1>6, Zenon DEF PsuTyped
  <2> QED
    BY <2>1, <2>2, <2>3, MemTypesNext
<1>8. Trained'
  <2>0. ended \subseteq Trainings /\ errors \subseteq ended
    BY DEF MemTypeOK
  <2>1. CASE MemStart
    BY <2>1 DEF MemStart, Trained, Leveled
  <2>2. CASE PhyPll
    BY <2>2 DEF PhyPll, Trained, Leveled
  <2>3. CASE PhyBringUp
    BY <2>3 DEF PhyBringUp, AndStatus, Trained, Leveled
  <2>4. CASE PhyTrains
    BY <2>0, <2>4 DEF PhyTrains, Trained, Leveled
  <2>5. CASE PhyLeveled \/ PhyVref
    BY <2>0, <2>5 DEF PhyLeveled, LevelingGood, PhyVref, Trained, Leveled
  <2>6. CASE PhyTrained
    BY <2>0, <2>6 DEF PhyTrained, Trained, Leveled, AllEnded
  <2>7. CASE PsuReturn
    BY <2>7 DEF PsuReturn, AndStatus, Trained, Leveled, AllEnded
  <2> QED
    BY <2>1, <2>2, <2>3, <2>4, <2>5, <2>6, <2>7
<1> QED
  BY <1>3, <1>7, <1>8

\* XFsbl_DdrEccInit and XFsbl_EccInit around the channel.
LEMMA EccStep ==
  ASSUME MemInv, NextRange \/ LastRange \/ StartChannel \/ ChannelDone \/ EccInitReturn
  PROVE  MemInv'
<1> USE DEF MemInv, eccVars, Trainings
<1>0. /\ UNCHANGED psuVars /\ psuStage \in {"NextRange", "Chunk", "WaitDone"}
      /\ AllEnded
  BY DEF NextRange, LastRange, StartChannel, ChannelDone, EccInitReturn, Trained
<1>1. psuStage' \in {"NextRange", "Chunk", "WaitDone", "Done", "Err"}
  BY DEF NextRange, LastRange, StartChannel, ChannelDone, EccInitReturn
<1>2. Trained'
  BY <1>0, <1>1 DEF Trained, AllEnded, Leveled, Trainings, psuVars, phyVars
<1>3. PsuTyped' /\ psuStage' \in Places
  BY <1>0, <1>1, MemTypes DEF PsuTyped, Places, psuVars, phyVars
<1>4. /\ range \in 1..3 /\ StartAddr \in Nat /\ NumBytes \in Nat
      /\ channel \in ChannelType /\ channel.at \in Nat /\ channel.left \in Nat
      /\ channel.state \in {"DONE", "BUSY", "ERR"}
      /\ Length \in Nat /\ Length <= MaxTransfer /\ Length <= NumBytes
      /\ NumBytes > 0 => Length > 0
  BY EccTypes
<1>5. CASE NextRange
  <2>1. /\ psuStage = "NextRange" /\ range \in 1..2 /\ psuStage' = "Chunk"
        /\ StartAddr' = Ranges[range].from /\ NumBytes' = Ranges[range].len
        /\ UNCHANGED <<range, channel, written>>
    BY <1>5, RangeTypes DEF NextRange
  <2>2. MemTypeOK'
    BY <1>1, <1>3, <1>4, <2>1, RangeTypes, MemTypesNext DEF EccTyped, ChannelType
  <2>3. Ranges[range].from..StartAddr'-1 = {}
    BY <2>1, RangeTypes
  <2>4. Written'
    BY <2>1, <2>3, RangeTypes DEF Written, Before, AtRest
  <2> QED
    BY <1>2, <2>2, <2>4
<1>6. CASE LastRange
  <2>1. psuStage = "NextRange" /\ range = 3 /\ psuStage' = "Done" /\ UNCHANGED eccVars
    BY <1>4, <1>6, RangeTypes DEF LastRange
  <2>2. MemTypeOK'
    BY <1>1, <1>3, <1>4, <2>1, MemTypesNext DEF EccTyped, ChannelType
  <2>3. Written'
    BY <2>1 DEF Written, Before, AtRest
  <2> QED
    BY <1>2, <2>2, <2>3
<1>7. CASE StartChannel
  <2>1. /\ psuStage = "Chunk" /\ NumBytes > 0 /\ psuStage' = "WaitDone"
        /\ channel' = [channel EXCEPT !.state = "BUSY", !.mode = "write only",
                                      !.at = StartAddr, !.left = Length]
        /\ UNCHANGED <<range, StartAddr, NumBytes, written>>
    BY <1>7 DEF StartChannel
  <2>2. /\ channel' \in ChannelType /\ channel'.at = StartAddr /\ channel'.left = Length
        /\ channel'.state = "BUSY" /\ channel'.done = channel.done
    <3>1. Length \in 0..MaxTransfer
      BY <1>4, RangeTypes
    <3> HIDE DEF Length
    <3> QED
      BY <1>4, <2>1, <3>1 DEF ChannelType
  <2>3. MemTypeOK'
    BY <1>1, <1>3, <1>4, <2>1, <2>2, MemTypesNext DEF EccTyped, ChannelType
  <2>4. Length' = Length /\ Length \in Nat /\ Before' = Before
    BY <2>1, EccTypes DEF Length, Before
  <2>5. Written'
    BY <1>4, <2>1, <2>2, <2>4 DEF Written, AtRest
  <2> QED
    BY <1>2, <2>3, <2>5
<1>8. CASE ChannelDone
  <2>1. /\ psuStage = "WaitDone" /\ channel.done /\ UNCHANGED <<range, written>>
        /\ channel' = [channel EXCEPT !.done = FALSE]
    BY <1>8 DEF ChannelDone, ClearDone
  <2>2. /\ channel' \in ChannelType /\ channel'.state = channel.state /\ ~channel'.done
    BY <1>4, <2>1 DEF ChannelType
  <2>3. CASE psuStage' = "Err" /\ UNCHANGED <<StartAddr, NumBytes>>
    <3>1. MemTypeOK'
      BY <1>3, <1>4, <2>1, <2>2, <2>3, MemTypesNext DEF EccTyped
    <3>2. Written'
      BY <2>3 DEF Written
    <3> QED
      BY <1>2, <3>1, <3>2
  <2>4. CASE channel.state # "ERR" /\ psuStage' = "Chunk"
             /\ NumBytes' = NumBytes - Length /\ StartAddr' = StartAddr + Length
    <3>1. channel.state = "DONE" /\ channel.left = 0
      BY <1>4, <2>1, <2>4 DEF Written
    <3>2. channel.at = StartAddr'
      BY <1>4, <2>1, <2>4, <3>1 DEF Written
    <3>3. NumBytes' \in Nat /\ StartAddr' \in Nat /\ StartAddr <= StartAddr'
          /\ StartAddr' + NumBytes' = StartAddr + NumBytes
      BY <1>4, <2>4
    <3>4. MemTypeOK'
      BY <1>1, <1>3, <1>4, <2>1, <2>2, <3>3, MemTypesNext DEF EccTyped, ChannelType
    <3>5. range \in 1..2 /\ Ranges[range].from <= StartAddr'
          /\ StartAddr' + NumBytes' = Ranges[range].from + Ranges[range].len
      BY <1>4, <2>1, <3>3, RangeTypes DEF Written
    <3>6. written' = Before \cup (Ranges[range].from..StartAddr'-1) /\ Before' = Before
      BY <2>1, <3>2 DEF Written, Before
    <3>7. Written'
      BY <2>1, <2>2, <2>4, <3>1, <3>5, <3>6 DEF Written, AtRest
    <3> QED
      BY <1>2, <3>4, <3>7
  <2> QED
    BY <1>8, <2>3, <2>4 DEF ChannelDone
<1>9. CASE EccInitReturn
  <2>1. /\ psuStage = "Chunk" /\ NumBytes = 0 /\ psuStage' = "NextRange"
        /\ range' = range + 1 /\ channel' = [channel EXCEPT !.mode = "normal"]
        /\ UNCHANGED <<StartAddr, NumBytes, written>>
    BY <1>9 DEF EccInitReturn
  <2>2. /\ channel' \in ChannelType /\ channel'.mode = "normal"
        /\ channel'.state = channel.state /\ channel'.done = channel.done
    BY <1>4, <2>1 DEF ChannelType
  <2>3. range \in 1..2 /\ StartAddr = Ranges[range].from + Ranges[range].len
    BY <1>4, <2>1, RangeTypes DEF Written
  <2>4. MemTypeOK'
    <3>1. range' \in 1..3 /\ StartAddr' \in Nat /\ NumBytes' \in Nat
      BY <1>4, <2>1, <2>3
    <3> QED
      BY <1>1, <1>3, <2>2, <3>1, MemTypesNext DEF EccTyped, ChannelType
  <2>5. written = Before \cup Span(range)
    <3>1. written = Before \cup (Ranges[range].from..StartAddr-1)
      BY <2>1 DEF Written
    <3>2. Span(range) = Ranges[range].from..StartAddr-1
      <4>1. StartAddr - 1 = Ranges[range].from + Ranges[range].len - 1
        BY <1>4, <2>3, RangeTypes
      <4> QED
        BY <4>1 DEF Span
    <3> QED
      BY <3>1, <3>2
  <2>6. Before' = Before \cup Span(range)
    BY <2>1, <2>3 DEF Before
  <2>7. Written'
    BY <2>1, <2>2, <2>5, <2>6 DEF Written, AtRest
  <2> QED
    BY <1>2, <2>4, <2>7
<1> QED
  BY <1>5, <1>6, <1>7, <1>8, <1>9

\* The channel beside it.
LEMMA ChannelStep ==
  ASSUME MemInv, ChannelWrites \/ ChannelEnds
  PROVE  MemInv'
<1> USE DEF MemInv, eccVars, Trainings
<1>0. /\ UNCHANGED <<psuStage, psuVars, range, StartAddr, NumBytes>>
      /\ channel.state = "BUSY"
  BY DEF ChannelWrites, ChannelEnds
<1>1. /\ range \in 1..3 /\ channel \in ChannelType /\ channel.at \in Nat
      /\ channel.left \in Nat /\ channel.left <= MaxTransfer
  BY EccTypes
<1>2. Trained'
  BY <1>0 DEF Trained, AllEnded, Leveled, psuVars, phyVars
<1>7. PsuTyped' /\ psuStage' \in Places /\ range' \in 1..3 /\ StartAddr' \in Nat /\ NumBytes' \in Nat
  BY <1>0, MemTypes DEF PsuTyped, EccTyped, psuVars, phyVars
<1>3. Length' = Length /\ Before' = Before /\ Length \in Nat
  BY <1>0, EccTypes DEF Length, Before
<1>4. psuStage \in {"WaitDone", "Err"}
  BY <1>0 DEF Written, AtRest, MemTypeOK, Trainings
<1>5. CASE ChannelWrites
  <2>1. /\ channel.left > 0 /\ written' = written \cup {channel.at}
        /\ channel' = [channel EXCEPT !.at = @ + 1, !.left = @ - 1]
    BY <1>5 DEF ChannelWrites
  <2>2. /\ channel' \in ChannelType /\ channel'.at = channel.at + 1
        /\ channel'.left = channel.left - 1 /\ channel'.state = "BUSY"
        /\ channel'.done = channel.done
    <3>1. channel.at + 1 \in Nat /\ channel.left - 1 \in 0..MaxTransfer
      BY <1>1, <2>1, RangeTypes
    <3> QED
      BY <1>0, <1>1, <2>1, <3>1 DEF ChannelType
  <2>3. MemTypeOK'
    BY <1>7, <2>2, MemTypesNext DEF EccTyped, ChannelType
  <2>4. ASSUME psuStage = "WaitDone"
        PROVE  written' = Before \cup (Ranges[range].from..channel'.at-1)
    <3>1. /\ range \in 1..2 /\ Ranges[range].from <= channel.at
          /\ written = Before \cup (Ranges[range].from..channel.at-1)
      <4>1. /\ range \in 1..2 /\ Ranges[range].from <= StartAddr /\ StartAddr <= channel.at
            /\ written = Before \cup (Ranges[range].from..channel.at-1)
        BY <2>4, Zenon DEF Written
      <4>2. StartAddr \in Nat /\ Ranges[range].from \in Nat
        BY <4>1, EccTypes, RangeTypes
      <4> QED
        BY <1>1, <4>1, <4>2
    <3>2. (Ranges[range].from..channel.at-1) \cup {channel.at}
            = Ranges[range].from..channel'.at-1
      BY <1>1, <2>2, <3>1, RangeTypes
    <3> QED
      BY <2>1, <3>1, <3>2
  <2>5. Written'
    <3>1. CASE psuStage = "Err"
      BY <1>0, <3>1 DEF Written
    <3>2. CASE psuStage = "WaitDone"
      <4>1. /\ NumBytes > 0 /\ StartAddr <= channel.at
            /\ channel.at + channel.left = StartAddr + Length /\ ~channel.done
            /\ range \in 1..2 /\ Ranges[range].from <= StartAddr
            /\ StartAddr + NumBytes = Ranges[range].from + Ranges[range].len
        BY <1>0, <3>2 DEF Written
      <4>2. StartAddr <= channel'.at /\ channel'.at + channel'.left = StartAddr + Length
        BY <1>1, <2>2, <4>1, EccTypes
      <4> HIDE DEF Length
      <4> QED
        BY <1>0, <1>3, <2>2, <2>4, <3>2, <4>1, <4>2 DEF Written
    <3> QED
      BY <1>4, <3>1, <3>2
  <2> QED
    BY <1>2, <2>3, <2>5
<1>6. CASE ChannelEnds
  <2>1. /\ channel' \in ChannelType /\ channel'.at = channel.at /\ written' = written
        /\ channel'.left = channel.left
        /\ \/ channel'.state = "DONE" /\ channel'.done /\ channel'.left = 0
           \/ channel'.state = "ERR"
    BY <1>1, <1>6 DEF ChannelEnds, ChannelType
  <2>2. MemTypeOK'
    BY <1>7, <2>1, MemTypesNext DEF EccTyped, ChannelType
  <2>3. Written'
    BY <1>0, <1>3, <1>4, <2>1 DEF Written
  <2> QED
    BY <1>2, <2>2, <2>3
<1> QED
  BY <1>5, <1>6

\* Beyond the memory phase nothing of it changes but the retries left.
LEMMA MemoryStep == MemInv /\ [Next]_vars => MemInv'
<1> SUFFICES ASSUME MemInv, [Next]_vars PROVE MemInv'
  OBVIOUS
<1>1. CASE InitMemory
  BY <1>1, PsuStep, EccStep, ChannelStep DEF InitMemory, MemStep
<1>2. CASE MemoryInitialized
  <2>1. UNCHANGED <<psuStage, status, phyVars, eccVars>> /\ pllRetry' \in 0..PllRetries
    BY <1>2, RangeTypes DEF MemoryInitialized
  <2>2. MemTypeOK'
    BY <2>1 DEF MemInv, MemTypeOK, phyVars, eccVars
  <2>3. Trained' /\ Written'
    BY <2>1 DEF MemInv, Trained, AllEnded, Leveled, Written, Before, AtRest, Length, phyVars, eccVars
  <2> QED
    BY <2>2, <2>3 DEF MemInv
<1>3. CASE UNCHANGED memVars
  BY <1>3 DEF MemInv, MemTypeOK, Trained, AllEnded, Leveled, Written, Before, AtRest, Length, memVars,
     psuVars, phyVars, eccVars
<1> QED
  BY <1>1, <1>2, <1>3 DEF Next, Fsbl, vars, BootDevice, UsbInit, BootDeviceReady, Copy,
     Copied, LoadBitstream, CopyDisturbed, BringUpReturns

\* It holds at first, and so throughout.
LEMMA MemAlways == Spec => []MemInv
<1>1. Init => MemInv
  <2> SUFFICES ASSUME Init PROVE MemInv
    OBVIOUS
  <2>1. MemIdle
    BY DEF Init
  <2>2. MemTypeOK
    BY <2>1, RangeTypes DEF MemIdle, MemTypeOK, NoTransfer
  <2>3. Trained /\ Written
    BY <2>1 DEF MemIdle, Trained, Written, AtRest, NoTransfer, Trainings
  <2> QED
    BY <2>2, <2>3 DEF MemInv
<1> QED
  BY <1>1, MemoryStep, PTL DEF Spec

\* The trainings ended and the memory written, as far as the boot has come.
LEMMA MemCorrect == MemInv => MemoryReady
<1> SUFFICES ASSUME MemInv PROVE MemoryReady
  OBVIOUS
<1>1. /\ psuStage \in {"NextRange", "Chunk", "WaitDone", "Done"} =>
           pll = "locked" /\ ended = Trainings /\ "Leveling" \notin errors
      /\ ended \ {"Leveling"} # {} => "Leveling" \in ended \ errors
  BY DEF MemInv, Trained, AllEnded, Leveled
<1>2. psuStage = "Done" => written = Span(1) \cup Span(2) /\ channel.state = "DONE"
                           /\ ~channel.done /\ channel.mode = "normal"
  BY DEF MemInv, Written, Before, AtRest
<1>3. ASSUME psuStage = "Chunk"
      PROVE  Ranges[range].from..StartAddr-1 \subseteq written
  BY <1>3 DEF MemInv, Written
<1>4. ASSUME psuStage = "WaitDone"
      PROVE  Ranges[range].from..StartAddr-1 \subseteq written
  <2>1. /\ StartAddr <= channel.at /\ range \in 1..2
        /\ Ranges[range].from..channel.at-1 \subseteq written
    BY <1>4 DEF MemInv, Written
  <2>2. StartAddr \in Nat /\ channel.at \in Nat /\ Ranges[range].from \in Nat
    BY <2>1, EccTypes, RangeTypes DEF MemInv
  <2> QED
    BY <2>1, <2>2
<1> QED
  BY <1>1, <1>2, <1>3, <1>4 DEF MemoryReady

\* Whatever the DDR and the longest transfer are: XFsbl_DdrEccInit
\* (xfsbl_initialization.c:1575-1745) writes all of it and no more, chunk by chunk, and
\* leaves the channel ready for copies; psu_init has then waited for the end of the three
\* trainings of the PHY, and begun the other two only after a write leveling without errors.
\* (Of the other two it does not know whether they succeeded.)
THEOREM MemoryIsReady == Spec => []MemoryReady
BY MemAlways, MemCorrect, PTL

-----------------------------------------------------------------------------
(* The boot device.                                                        *)

\* The image header of the boot device has been read, and names another one.
FirstRead ==
  /\ ops = bootMode /\ bootMode \in Built /\ onDevice[bootMode] # "none"
  /\ Ppd = onDevice[bootMode] /\ offset = Place(bootMode)
  /\ Ppd = "SAME" => headersFrom = <<bootMode, offset>>

NamesAnother ==
  /\ Ppd = onDevice[bootMode] /\ Ppd = Named /\ Ppd \notin {"SAME", "none"}
  /\ PpdNo[Named] # ModeNo[bootMode] /\ Secondary = PpdNo[Named]
  /\ offset = Place(bootMode)

\* What has been read at each place of XFsbl_BootDeviceInitAndValidate.
Read ==
  /\ devStage \in {"Idle", "Init", "Validate", "Compare"} => Secondary = 0
  /\ devStage \in {"Idle", "Init", "Validate"} => offset = 0
  /\ devStage = "Validate" => ops = bootMode /\ bootMode \in Built
  /\ devStage = "Compare" => FirstRead
  /\ devStage \in {"SecondInit", "SecondValidate"} => NamesAnother
  /\ devStage = "SecondValidate" => ops = Named /\ Named \in Built

\* The boot device is not looked for again.
DeviceOver == phase \in {"copy", "bitstream", "up"} => devStage = "Idle"

DevInv == DevTypeOK /\ Read /\ BootsNamedImage

\* Of the numbers of the boot modes exactly those of file devices are looked for, and
\* every number is below 12.
LEMMA Numbers ==
  /\ \A d \in Devices : InFile(ModeNo[d]) <=> d \in FileDevices
  /\ \A d \in Devices : ModeNo[d] # 0
  /\ \A p \in DOMAIN PpdNo : PpdNo[p] \in 0..11 /\ (PpdNo[p] = 0 <=> p = "SAME")
  /\ "SAME" \in DOMAIN PpdNo /\ "none" \notin DOMAIN PpdNo
  /\ "none" \notin Devices /\ "SAME" \notin Devices /\ Devices \subseteq DOMAIN PpdNo
  /\ FileDevices \subseteq Devices /\ Built \subseteq Devices
  /\ "QSPI24" \in Devices /\ "QSPI32" \in Devices
BY BuiltAssumption DEF InFile, ModeNo, PpdNo, Devices, FileDevices

\* The first device: what is read there is read at its place.
LEMMA PrimaryStep ==
  ASSUME DevInv, DevStart \/ PrimaryBootDeviceInit \/ ValidateHeader
  PROVE  DevInv'
<1> USE DEF DevInv, deviceVars
<1>1. CASE DevStart
  <2>1. /\ devStage = "Idle" /\ devStage' = "Init" /\ bootMode' \in Devices
        /\ multiboot' \in 0..1 /\ UNCHANGED <<Secondary, ops, offset, Ppd, headersFrom, devFailed>>
    BY <1>1 DEF DevStart
  <2>2. onDevice' \in [Devices -> DOMAIN PpdNo \cup {"none"}]
    <3>1. PICK first \in DOMAIN PpdNo \cup {"none"}, other \in {"SAME", "none", "QSPI32"} :
            onDevice' = [d \in Devices |-> IF d = bootMode' THEN first ELSE other]
      BY <1>1 DEF DevStart
    <3>2. other \in DOMAIN PpdNo \cup {"none"}
      BY Numbers
    <3> QED
      BY <3>1, <3>2
  <2> QED
    BY <2>1, <2>2 DEF DevTypeOK, Read, BootsNamedImage
<1>2. CASE PrimaryBootDeviceInit
  <2>1. /\ devStage = "Init" /\ UNCHANGED <<bootMode, multiboot, onDevice, Secondary, offset, Ppd, headersFrom>>
        /\ bootMode \in Devices
    BY <1>2 DEF PrimaryBootDeviceInit, DevTypeOK
  <2>2. \/ bootMode \in Built /\ devStage' = "Validate" /\ ops' = bootMode /\ devFailed' = devFailed
        \/ devStage' = "Err" /\ ops' = bootMode /\ devFailed'
        \/ bootMode \notin Built /\ devStage' = "Err" /\ UNCHANGED <<ops, devFailed>>
    BY <1>2 DEF PrimaryBootDeviceInit, DeviceInit
  <2>3. devFailed' \in BOOLEAN
    BY <1>2, Zenon DEF PrimaryBootDeviceInit, DeviceInit, DevTypeOK
  <2>4. DevTypeOK'
    BY <2>1, <2>2, <2>3 DEF DevTypeOK
  <2>5. Read'
    BY <2>1, <2>2 DEF Read
  <2>6. BootsNamedImage'
    BY <2>1, <2>2 DEF BootsNamedImage
  <2> QED
    BY <2>4, <2>5, <2>6
<1>3. CASE ValidateHeader
  <2>1. /\ devStage = "Validate" /\ UNCHANGED <<bootMode, multiboot, onDevice, Secondary, ops, devFailed>>
        /\ Secondary = 0 /\ offset = 0 /\ ops = bootMode /\ bootMode \in Built
    BY <1>3 DEF ValidateHeader, Read
  <2>2. ImageOffset = Place(bootMode) /\ Place(bootMode) \in 0..1
    BY <2>1, Numbers DEF ImageOffset, Place, DevTypeOK
  <2>3. \/ /\ onDevice[ops] # "none" /\ Ppd' = onDevice[ops] /\ devStage' = "Compare"
           /\ headersFrom' = IF Ppd' = "SAME" THEN <<ops, offset'>> ELSE headersFrom
        \/ onDevice[ops] = "none" /\ devStage' = "Err" /\ UNCHANGED <<Ppd, headersFrom>>
    BY <1>3, <2>1, <2>2 DEF ValidateHeader, HeaderRead
  <2>4. offset' = Place(bootMode)
    BY <1>3, <2>2 DEF ValidateHeader, HeaderRead
  <2>5. Ppd' \in DOMAIN PpdNo
    BY <2>1, <2>3, Numbers DEF DevTypeOK
  <2>6. headersFrom' \in (Devices \X (0..1)) \cup {<<>>}
    <3>1. <<ops, offset'>> \in Devices \X (0..1)
      BY <2>1, <2>2, <2>4, Numbers
    <3> QED
      BY <2>3, <3>1 DEF DevTypeOK
  <2>7. DevTypeOK'
    BY <2>1, <2>2, <2>3, <2>4, <2>5, <2>6 DEF DevTypeOK
  <2>8. Place(bootMode)' = Place(bootMode)
    BY <2>1 DEF Place
  <2>9. Read'
    BY <2>1, <2>3, <2>4, <2>8 DEF Read, FirstRead
  <2>10. BootsNamedImage'
    BY <2>1, <2>3 DEF BootsNamedImage
  <2> QED
    BY <2>7, <2>9, <2>10
<1> QED
  BY <1>1, <1>2, <1>3

\* The comparison of the two devices, and the second one.
LEMMA SecondaryStep ==
  ASSUME DevInv, CompareDevices \/ SecondaryBootDeviceInit \/ SecondValidateHeader
  PROVE  DevInv'
<1> USE DEF DevInv, deviceVars
<1>1. CASE CompareDevices
  <2>1. /\ devStage = "Compare" /\ UNCHANGED <<bootMode, multiboot, onDevice, ops, offset,
                                               Ppd, headersFrom, devFailed>>
        /\ Secondary' = PpdNo[Ppd] /\ FirstRead /\ Ppd \in DOMAIN PpdNo
        /\ devStage' = IF SameDevice \/ Ppd = "SAME" THEN "Done" ELSE "SecondInit"
    BY <1>1 DEF CompareDevices, Read, DevTypeOK
  <2>2. DevTypeOK'
    BY <2>1, Numbers DEF DevTypeOK
  <2>3. Named' = Named /\ Place(bootMode)' = Place(bootMode) /\ Place(Named)' = Place(Named)
    BY <2>1 DEF Named, Place
  <2>4. CASE Ppd = "SAME"
    <3>1. Named = bootMode /\ headersFrom = <<Named, Place(Named)>> /\ devStage' = "Done"
      BY <2>1, <2>4 DEF Named, FirstRead
    <3> QED
      BY <2>1, <2>2, <2>3, <2>4, <3>1 DEF Read, BootsNamedImage, FirstRead
  <2>5. CASE Ppd # "SAME" /\ SameDevice
    <3>1. Confused'
      BY <2>1, <2>3, <2>5 DEF Confused, SameDevice, FirstRead, Named
    <3> QED
      BY <2>1, <2>2, <2>5, <3>1 DEF Read, BootsNamedImage
  <2>6. CASE Ppd # "SAME" /\ ~SameDevice
    <3>1. devStage' = "SecondInit" /\ Named = Ppd
      BY <2>1, <2>6 DEF Named, FirstRead
    <3>2. NamesAnother'
      BY <2>1, <2>3, <2>6, <3>1 DEF NamesAnother, FirstRead, SameDevice
    <3> QED
      BY <2>2, <3>1, <3>2 DEF Read, BootsNamedImage
  <2> QED
    BY <2>4, <2>5, <2>6
<1>2. CASE SecondaryBootDeviceInit
  <2>1. /\ devStage = "SecondInit" /\ NamesAnother
        /\ UNCHANGED <<bootMode, multiboot, onDevice, Secondary, offset, Ppd, headersFrom>>
    BY <1>2 DEF SecondaryBootDeviceInit, Read
  <2>2. Named' = Named /\ Place(bootMode)' = Place(bootMode) /\ Ppd = Named
    BY <2>1 DEF Named, Place, NamesAnother
  <2>3. \/ Named \in Built /\ devStage' = "SecondValidate" /\ ops' = Named /\ devFailed' = devFailed
        \/ Named \in Built /\ devStage' = "Err" /\ ops' = Named /\ devFailed'
        \/ Named \notin Built /\ devStage' = "Err" /\ UNCHANGED <<ops, devFailed>>
    BY <1>2, <2>2 DEF SecondaryBootDeviceInit, DeviceInit
  <2>4. devFailed' \in BOOLEAN
    BY <1>2, Zenon DEF SecondaryBootDeviceInit, DeviceInit, DevTypeOK
  <2>5. DevTypeOK'
    BY <2>1, <2>3, <2>4, Numbers DEF DevTypeOK
  <2>6. NamesAnother'
    BY <2>1, <2>2 DEF NamesAnother
  <2>7. Read'
    BY <2>2, <2>3, <2>6 DEF Read
  <2>8. BootsNamedImage'
    BY <2>2, <2>3 DEF BootsNamedImage
  <2> QED
    BY <2>5, <2>7, <2>8
<1>3. CASE SecondValidateHeader
  <2>1. /\ devStage = "SecondValidate" /\ NamesAnother /\ ops = Named /\ Named \in Built
        /\ UNCHANGED <<bootMode, multiboot, onDevice, Secondary, ops, devFailed>>
        /\ multiboot \in 0..1 /\ bootMode \in Devices /\ offset \in 0..1 /\ Named \in Devices
    BY <1>3, Numbers DEF SecondValidateHeader, Read, DevTypeOK
  <2>2. Named' = Named /\ Place(Named)' = Place(Named) /\ (Confused' <=> Confused)
    BY <2>1 DEF Named, Place, Confused
  <2>3. offset' = ImageOffset /\ ImageOffset \in 0..1
    BY <1>3, <2>1 DEF SecondValidateHeader, HeaderRead, ImageOffset
  <2>4. Secondary # 0 /\ Secondary = PpdNo[Named]
    BY <2>1, Numbers DEF NamesAnother
  <2>5. ~Confused => ImageOffset = Place(Named)
    <3>1. CASE multiboot = 0
      BY <2>1, <2>4, <3>1 DEF ImageOffset, Place, NamesAnother
    <3>2. CASE multiboot # 0
      <4>1. ASSUME ~Confused
            PROVE  /\ InFile(PpdNo[Named]) <=> Named \in FileDevices
                   /\ Named \in FileDevices => bootMode \in FileDevices
        BY <2>1, <3>2, <4>1 DEF Confused, NamesAnother
      <4> QED
        BY <2>1, <2>4, <4>1 DEF ImageOffset, Place, NamesAnother
    <3> QED
      BY <3>1, <3>2
  <2>6. \/ /\ ImageOffset = Place(ops) /\ onDevice[ops] # "none" /\ Ppd' = onDevice[ops]
           /\ headersFrom' = IF Ppd' = "SAME" THEN <<ops, offset'>> ELSE headersFrom
           /\ devStage' = IF Ppd' = "SAME" THEN "Done" ELSE "Err"
        \/ /\ ImageOffset # Place(ops) /\ Ppd' = "SAME" /\ headersFrom' = <<ops, offset'>>
           /\ devStage' = "Done"
        \/ /\ ImageOffset = Place(ops) => onDevice[ops] = "none"
           /\ devStage' = "Err" /\ UNCHANGED <<Ppd, headersFrom>>
    BY <1>3 DEF SecondValidateHeader, HeaderRead
  <2>7. DevTypeOK'
    <3>1. Ppd' \in DOMAIN PpdNo /\ devStage' \in {"Done", "Err"}
      BY <2>1, <2>6, Numbers DEF DevTypeOK
    <3>2. <<ops, offset'>> \in Devices \X (0..1)
      BY <2>1, <2>3
    <3>3. headersFrom' \in (Devices \X (0..1)) \cup {<<>>}
      BY <2>6, <3>2 DEF DevTypeOK
    <3> QED
      BY <2>1, <2>3, <3>1, <3>3 DEF DevTypeOK
  <2>8. devStage' \in {"Done", "Err"}
    BY <2>6
  <2>9. Read'
    BY <2>8 DEF Read
  <2>10. BootsNamedImage'
    <3> SUFFICES ASSUME ~Confused
                 PROVE  /\ devStage' = "Done" => headersFrom' = <<Named, Place(Named)>>
                        /\ devStage' = "Err" =>
                             \/ Named # bootMode /\ onDevice[Named] # "SAME"
                             \/ onDevice[bootMode] = bootMode
      BY <2>1, <2>2 DEF BootsNamedImage
    <3>1. ImageOffset = Place(Named)
      BY <2>5
    <3>2. devStage' = "Done" => headersFrom' = <<Named, Place(Named)>>
      BY <2>1, <2>3, <2>6, <3>1
    <3>3. devStage' = "Err" => onDevice[Named] # "SAME"
      BY <2>1, <2>6, <3>1
    <3>4. Named = bootMode => onDevice[bootMode] = bootMode
      BY <2>1 DEF NamesAnother
    <3> QED
      BY <3>2, <3>3, <3>4
  <2> QED
    BY <2>7, <2>9, <2>10
<1> QED
  BY <1>1, <1>2, <1>3

\* It holds at first, and so throughout.
LEMMA DevAlways == Spec => [](DevInv /\ DeviceOver)
<1>1. Init => DevInv /\ DeviceOver
  <2> SUFFICES ASSUME Init PROVE DevInv /\ DeviceOver
    OBVIOUS
  <2>1. DevIdle
    BY DEF Init
  <2>2. DeviceOver
    BY DEF Init, DeviceOver
  <2>3. onDevice \in [Devices -> DOMAIN PpdNo \cup {"none"}]
    BY <2>1 DEF DevIdle
  <2>4. headersFrom \in (Devices \X (0..1)) \cup {<<>>}
    BY <2>1 DEF DevIdle
  <2>5. DevTypeOK
    <3>1. /\ bootMode \in Devices /\ multiboot \in 0..1 /\ Secondary \in 0..11
          /\ ops \in Devices \cup {"none"} /\ offset \in 0..1 /\ Ppd \in DOMAIN PpdNo
      BY <2>1, Numbers DEF DevIdle
    <3>2. devStage = "Idle" /\ devFailed = FALSE
      BY <2>1 DEF DevIdle
    <3> QED
      BY <2>3, <2>4, <3>1, <3>2 DEF DevTypeOK
  <2>6. Read /\ BootsNamedImage
    BY <2>1 DEF DevIdle, Read, BootsNamedImage
  <2> QED
    BY <2>2, <2>5, <2>6 DEF DevInv
<1>2. DeviceOver /\ DevInv /\ [Next]_vars => DevInv'
  <2> SUFFICES ASSUME DeviceOver, DevInv, [Next]_vars PROVE DevInv'
    OBVIOUS
  <2>1. CASE BootDevice
    BY <2>1, PrimaryStep, SecondaryStep DEF BootDevice, DevStep
  <2>2. CASE BootDeviceReady
    <3>1. /\ devStage' = "Idle" /\ Secondary' = 0 /\ offset' = 0 /\ Ppd' = "SAME"
          /\ headersFrom' = <<>> /\ devFailed' = FALSE /\ bootMode' = "QSPI24"
          /\ multiboot' = 0 /\ onDevice' = [d \in Devices |-> "none"] /\ ops' = ops
      BY <2>2 DEF BootDeviceReady
    <3>2. onDevice' \in [Devices -> DOMAIN PpdNo \cup {"none"}]
      BY <3>1
    <3>3. DevTypeOK'
      <4>1. /\ bootMode' \in Devices /\ multiboot' \in 0..1 /\ Secondary' \in 0..11
            /\ ops' \in Devices \cup {"none"} /\ offset' \in 0..1 /\ Ppd' \in DOMAIN PpdNo
            /\ headersFrom' \in (Devices \X (0..1)) \cup {<<>>}
        BY <3>1, Numbers DEF DevInv, DevTypeOK
      <4>2. devStage' = "Idle" /\ devFailed' = FALSE
        BY <3>1
      <4> QED
        BY <3>2, <4>1, <4>2 DEF DevTypeOK
    <3> QED
      BY <3>1, <3>3 DEF DevInv, Read, BootsNamedImage
  <2>3. CASE Copied
    <3>1. UNCHANGED <<bootMode, multiboot, onDevice, devStage, Secondary, offset, Ppd,
                      headersFrom, devFailed>> /\ ops' = "none"
      BY <2>3 DEF Copied
    <3>2. devStage = "Idle"
      BY <2>3 DEF Copied, DeviceOver
    <3> QED
      BY <3>1, <3>2 DEF DevInv, DevTypeOK, Read, BootsNamedImage
  <2>4. CASE UNCHANGED devVars
    BY <2>4 DEF DevInv, DevTypeOK, Read, BootsNamedImage, FirstRead, NamesAnother, Named,
       Place, Confused, devVars
  <2> QED
    BY <2>1, <2>2, <2>3, <2>4 DEF Next, Fsbl, vars, InitMemory, MemoryInitialized, UsbInit,
       Copy, LoadBitstream, CopyDisturbed, BringUpReturns
<1>3. DeviceOver /\ [Next]_vars => DeviceOver'
  BY DEF DeviceOver, Next, Fsbl, vars, devVars, InitMemory, MemoryInitialized, BootDevice,
     UsbInit, BootDeviceReady, Copy, Copied, LoadBitstream, CopyDisturbed, BringUpReturns
<1> QED
  BY <1>1, <1>2, <1>3, PTL DEF Spec

\* Whichever devices are built in and named: a boot that goes on has read the headers
\* of the image the header of the first device names, and copies from that device,
\* unless a number of one list is taken for one of the other
\* (xfsbl_initialization.c:350-480 and 1100-1160).
THEOREM ImageIsNamed == Spec => []BootsNamedImage
<1>1. DevInv => BootsNamedImage
  BY DEF DevInv
<1> QED
  BY <1>1, DevAlways, PTL

-----------------------------------------------------------------------------
(* The bitstream: what the invariant says.                                 *)

Working == {"Sign", "Verify", "Again", "Decrypt"}
Unit == {"data", "header"} \X Nat \X BOOLEAN

PlTypes ==
  /\ plStage \in {"Idle", "Block", "Wait", "Fail", "Done", "Err"} \cup Working
  /\ IF plStage = "Idle" THEN bit = NoBit ELSE bit \in Bitstreams
  /\ changed \subseteq 0..bit.len-1
  /\ block \in [SrcAddress : Nat, Index : Nat \ {0}, Len : Nat \ {0}, IsLastBlock : BOOLEAN]
  /\ block.SrcAddress <= bit.len /\ block.Len <= bit.BlockSize
  /\ chunk \in 0..NoOfHashs
  /\ hash \in [upto : Nat, met : SUBSET Nat] /\ hash.upto <= bit.len
  /\ aes \in [SizeofData : Nat, NextBlkLen : Nat, SecureHdr : Seq(Unit), SrcAddr : Nat, Size : Nat]
  /\ aes.SizeofData <= bit.len /\ aes.Size <= ChunkSize /\ Len(aes.SecureHdr) < HdrSize
  /\ plState \in {"reset", "loading", "done"} /\ disturbed \in BOOLEAN
  /\ ~disturbed => changed = {}

\* Blocks follow one another; the last is what remains.
InBlock ==
  /\ plStage \in {"Block"} \cup Working =>
       block.SrcAddress = (block.Index - 1) * bit.BlockSize
  /\ plStage = "Block" => ~block.IsLastBlock
  /\ plStage \in Working =>
       /\ block.SrcAddress < bit.len /\ block.IsLastBlock = IsLast
       /\ block.Len = IF IsLast THEN bit.len - block.SrcAddress ELSE bit.BlockSize
       /\ NoOfChunks(block.Len) <= NoOfHashs /\ chunk < NoOfChunks(block.Len)

\* The hashes of the chunks before k, each of which met no more than m.
ChunkEnd(k) == IF k = NoOfChunks(block.Len) THEN block.SrcAddress + block.Len
                                            ELSE block.SrcAddress + ChunkSize * k
Hashed(k, m) ==
  \A i \in 1..k : /\ i \in DOMAIN HashsOfChunks
                  /\ HashsOfChunks[i] \in [upto : {ChunkEnd(i)}, met : SUBSET m]

\* What has been hashed in the first reading is in the signature; what is compared in
\* the second reading met nothing.
InHash ==
  /\ plStage = "Sign" => Hashed(chunk, hash.met)
  /\ plStage = "Verify" => /\ Hashed(NoOfChunks(block.Len), hash.met)
                           /\ hash.upto = block.SrcAddress + block.Len
  /\ plStage \in {"Again", "Decrypt"} => Hashed(NoOfChunks(block.Len), {}) /\ hash.met = {}
  /\ plStage \in {"Sign", "Verify"} /\ ~disturbed => hash.met = {}

\* How much has been read for the PL, the beginning of a header that is cut included.
Position == Len(sent) + Len(aes.SecureHdr)
InPlace ==
  /\ plStage \in {"Block", "Sign", "Verify"} => Position = block.SrcAddress
  /\ plStage = "Again" => Position = ChunkFrom
  /\ plStage = "Decrypt" =>
       /\ Encrypted
       /\ Position = aes.SrcAddr /\ aes.Size > 0 /\ aes.SrcAddr + aes.Size = ChunkFrom + ChunkLen
       /\ aes.SrcAddr = ChunkFrom \/ aes.SizeofData > 0
  /\ plStage \in {"Wait", "Done"} => Position = bit.len
  /\ plStage = "Err" /\ Len(sent) < bit.len => plState = "reset"

\* Where the position is in the layout of an encrypted bitstream.
AtStart == aes.NextBlkLen = 0 /\ aes.SizeofData = 0 /\ aes.SecureHdr = <<>> /\ Position = 0
InData(j) == /\ aes.NextBlkLen # 0 /\ aes.SecureHdr = <<>>
             /\ HdrAt(bit.aes)[j] + HdrSize <= Position
             /\ Position + aes.SizeofData = HdrAt(bit.aes)[j + 1]
InHeader(j) ==
  /\ aes.NextBlkLen # 0 /\ aes.SizeofData = 0 /\ aes.SecureHdr # <<>>
  /\ Len(sent) = HdrAt(bit.aes)[j + 1]
  /\ aes.SecureHdr = [k \in 1..Len(aes.SecureHdr) |-> <<"header", HdrAt(bit.aes)[j + 1] + k - 1, FALSE>>]
AtEnd == aes.NextBlkLen = 0 /\ aes.SizeofData = 0 /\ aes.SecureHdr = <<>> /\ Position = bit.len

Layout ==
  IF Encrypted THEN AtStart \/ AtEnd \/ \E j \in 1..Len(bit.aes) : InData(j) \/ InHeader(j)
               ELSE aes = NoAes
InLayout == plStage \in {"Block", "Wait", "Done"} \cup Working => Layout

\* A sequence of units sent, as the receiver must get them.
Right(s) == /\ s \in Seq(Unit) /\ Len(s) <= bit.len
            /\ \A k \in 1..Len(s) : s[k] = <<UseOf(k - 1), k - 1, FALSE>>

PlInv == /\ PlTypes /\ InBlock /\ InHash /\ InPlace /\ InLayout
         /\ IF plStage = "Idle" THEN sent = <<>> /\ aes = NoAes /\ hash = NoHash ELSE Right(sent)
         /\ GoodLoads

-----------------------------------------------------------------------------
(* Numbers.                                                                *)

\* The order of the natural numbers is well-founded.
LEMMA NatWellFounded ==
  \E R : IsWellFoundedOn(R, Nat) /\ \A x, y \in Nat : <<y, x>> \in R <=> y < x
<1>1. IsWellFoundedOn(OpToRel(<, Nat), Nat)
  BY NatLessThanWellFounded
<1>2. \A x, y \in Nat : <<y, x>> \in OpToRel(<, Nat) <=> y < x
  BY DEF OpToRel
<1> QED
  BY <1>1, <1>2

\* A set of natural numbers that is not empty has a least one: the form in which the
\* proofs below use induction.
LEMMA LeastNumber ==
  ASSUME NEW T, T \subseteq Nat, T # {}
  PROVE  \E m \in T : \A n \in T : m <= n
<1>1. PICK R : IsWellFoundedOn(R, Nat) /\ \A x, y \in Nat : <<y, x>> \in R <=> y < x
  BY NatWellFounded
<1>2. PICK m \in T : \A n \in T : <<n, m>> \notin R
  BY <1>1, WFMin
<1>3. \A n \in T : m \in Nat /\ n \in Nat /\ ~(n < m)
  BY <1>1, <1>2
<1> QED
  BY <1>3

\* The layout up to header n, as a function on numbers up to n.
LayoutUpTo(g, data, n) ==
  g = [j \in 0..n |-> IF j <= 1 THEN 0 ELSE g[j - 1] + HdrSize + data[j - 1]]

\* Each has one,
LEMMA LayoutExists ==
  ASSUME NEW data, NEW n \in Nat
  PROVE  \E g : LayoutUpTo(g, data, n)
<1> DEFINE T == {k \in Nat : ~\E g : LayoutUpTo(g, data, k)}
<1> SUFFICES ASSUME T # {} PROVE FALSE
  OBVIOUS
<1>1. PICK m \in T : \A k \in T : m <= k
  BY LeastNumber
<1>2. m \in Nat /\ ~\E g : LayoutUpTo(g, data, m)
  BY <1>1
<1>3. CASE m <= 1
  <2> DEFINE z == [j \in 0..m |-> 0]
  <2>1. \A j \in 0..m : j <= 1
    BY <1>2, <1>3
  <2>2. LayoutUpTo(z, data, m)
    BY <2>1 DEF LayoutUpTo
  <2> QED
    BY <1>2, <2>2
<1>4. CASE m > 1
  <2>1. m - 1 \in Nat /\ ~(m <= m - 1)
    BY <1>2, <1>4
  <2>2. m - 1 \notin T
    BY <1>1, <2>1
  <2>3. PICK g : LayoutUpTo(g, data, m - 1)
    BY <2>1, <2>2
  <2> DEFINE h == [j \in 0..m |-> IF j < m THEN g[j] ELSE g[m - 1] + HdrSize + data[m - 1]]
  <2>4. ASSUME NEW j \in 0..m
        PROVE  h[j] = IF j <= 1 THEN 0 ELSE h[j - 1] + HdrSize + data[j - 1]
    <3>1. CASE j < m
      <4>1. j \in 0..m-1 /\ h[j] = g[j]
        BY <1>2, <3>1
      <4>2. g[j] = IF j <= 1 THEN 0 ELSE g[j - 1] + HdrSize + data[j - 1]
        BY <2>3, <4>1 DEF LayoutUpTo
      <4>3. j > 1 => j - 1 \in 0..m /\ h[j - 1] = g[j - 1]
        BY <1>2, <3>1
      <4> QED
        BY <1>2, <4>1, <4>2, <4>3
    <3>2. CASE j = m
      <4>1. m - 1 \in 0..m /\ h[m - 1] = g[m - 1] /\ h[m] = g[m - 1] + HdrSize + data[m - 1]
        BY <1>2, <1>4
      <4> QED
        BY <1>2, <1>4, <3>2, <4>1
    <3> QED
      BY <1>2, <3>1, <3>2
  <2>5. h = [j \in 0..m |-> h[j]]
    OBVIOUS
  <2> HIDE DEF h
  <2>6. LayoutUpTo(h, data, m)
    BY <2>4, <2>5 DEF LayoutUpTo
  <2> QED
    BY <1>2, <2>6
<1> QED
  BY <1>2, <1>3, <1>4

\* and they agree.
LEMMA LayoutsAgree ==
  ASSUME NEW data, NEW g, NEW h, NEW n \in Nat, NEW m \in Nat, n <= m,
         LayoutUpTo(g, data, n), LayoutUpTo(h, data, m)
  PROVE  \A j \in 0..n : g[j] = h[j]
<1> DEFINE T == {j \in 0..n : g[j] # h[j]}
<1> SUFFICES ASSUME T # {} PROVE FALSE
  OBVIOUS
<1>0. T \subseteq Nat
  OBVIOUS
<1>1. PICK j \in T : \A k \in T : j <= k
  BY <1>0, LeastNumber
<1>2. /\ j \in 0..n /\ j \in 0..m /\ g[j] # h[j]
      /\ g[j] = IF j <= 1 THEN 0 ELSE g[j - 1] + HdrSize + data[j - 1]
      /\ h[j] = IF j <= 1 THEN 0 ELSE h[j - 1] + HdrSize + data[j - 1]
  BY <1>1 DEF LayoutUpTo
<1>3. j > 1 /\ g[j - 1] # h[j - 1]
  BY <1>2
<1>4. j - 1 \in T /\ ~(j <= j - 1)
  BY <1>2, <1>3
<1> QED
  BY <1>1, <1>4

\* HdrAt is what its definition says.
LEMMA HdrAtIs ==
  ASSUME NEW data, NEW j \in Nat
  PROVE  HdrAt(data)[j] = IF j <= 1 THEN 0 ELSE HdrAt(data)[j - 1] + HdrSize + data[j - 1]
<1> DEFINE G(n) == CHOOSE g : LayoutUpTo(g, data, n)
           f == [n \in Nat |-> G(n)[n]]
           is(at) == at = [i \in Nat |-> IF i <= 1 THEN 0 ELSE at[i - 1] + HdrSize + data[i - 1]]
<1>1. \A n \in Nat : LayoutUpTo(G(n), data, n)
  BY LayoutExists
<1>2. ASSUME NEW n \in Nat
      PROVE  f[n] = IF n <= 1 THEN 0 ELSE f[n - 1] + HdrSize + data[n - 1]
  <2> HIDE DEF G
  <2>1. f[n] = G(n)[n] /\ n \in 0..n
    OBVIOUS
  <2>2. G(n)[n] = IF n <= 1 THEN 0 ELSE G(n)[n - 1] + HdrSize + data[n - 1]
    BY <1>1, <2>1 DEF LayoutUpTo
  <2>3. CASE n > 1
    <3>1. n - 1 \in Nat /\ n - 1 <= n /\ n - 1 \in 0..n-1
      BY <2>3
    <3>2. G(n - 1)[n - 1] = G(n)[n - 1]
      BY <1>1, <3>1, LayoutsAgree
    <3>3. f[n - 1] = G(n - 1)[n - 1]
      BY <3>1
    <3> QED
      BY <2>1, <2>2, <2>3, <3>2, <3>3
  <2> QED
    BY <2>1, <2>2, <2>3
<1>3. f = [n \in Nat |-> f[n]]
  OBVIOUS
<1>4. \E at : is(at)
  <2> HIDE DEF f
  <2>1. is(f)
    BY <1>2, <1>3
  <2> QED
    BY <2>1
<1>5. HdrAt(data) = CHOOSE at : is(at)
  BY DEF HdrAt
<1>6. is(HdrAt(data))
  BY <1>4, <1>5
<1> QED
  BY <1>6

\* The constants and the bitstream are numbers.
LEMMA PlConstants ==
  /\ HdrSize \in Nat /\ HdrSize > 0 /\ ChunkSize \in Nat /\ ChunkSize > HdrSize /\ NoOfHashs \in Nat
  /\ \A b \in Bitstreams : /\ b.aes \in Seq(Nat \ {0}) /\ b.len \in Nat /\ b.len > 0
                           /\ b.BlockSize \in Nat /\ b.BlockSize > 0
                           /\ b.aes # <<>> => b.len = HdrAt(b.aes)[Len(b.aes) + 1] + HdrSize
                           /\ b.BlockSize % ChunkSize = 0 \/ b.BlockSize % ChunkSize >= HdrSize
BY BitstreamAssumption

\* Headers lie one after another, with their data between them.
LEMMA HdrAtFacts ==
  ASSUME NEW data \in Seq(Nat \ {0})
  PROVE  /\ Len(data) \in Nat /\ HdrAt(data)[1] = 0
         /\ \A j \in 1..Len(data) : HdrAt(data)[j + 1] = HdrAt(data)[j] + HdrSize + data[j]
         /\ \A j \in 1..Len(data) : data[j] \in Nat \ {0}
         /\ \A j \in 1..Len(data)+1 : HdrAt(data)[j] \in Nat
         /\ \A i, j \in 1..Len(data)+1 : i < j => HdrAt(data)[i] + HdrSize <= HdrAt(data)[j]
<1> DEFINE at == HdrAt(data)
           n == Len(data)
<1>1. n \in Nat /\ \A j \in 1..n : data[j] \in Nat \ {0}
  OBVIOUS
<1>2. at[1] = 0
  BY HdrAtIs
<1>3. \A j \in 1..n : at[j + 1] = at[j] + HdrSize + data[j]
  <2> SUFFICES ASSUME NEW j \in 1..n PROVE at[j + 1] = at[j] + HdrSize + data[j]
    OBVIOUS
  <2>1. j + 1 \in Nat /\ ~(j + 1 <= 1) /\ j + 1 - 1 = j
    BY <1>1
  <2> QED
    BY <2>1, HdrAtIs
<1> HIDE DEF at, n
<1>h. HdrSize \in Nat
  BY PlConstants
<1>4. \A j \in 1..n+1 : at[j] \in Nat
  <2> DEFINE T == {j \in 1..n+1 : at[j] \notin Nat}
  <2> SUFFICES ASSUME T # {} PROVE FALSE
    OBVIOUS
  <2>0. T \subseteq Nat
    BY <1>1
  <2>1. PICK j \in T : \A k \in T : j <= k
    BY <2>0, LeastNumber
  <2>2. j \in 1..n+1 /\ at[j] \notin Nat /\ j # 1
    BY <1>2, <2>1
  <2>3. j - 1 \in 1..n /\ j - 1 \in 1..n+1 /\ ~(j <= j - 1) /\ (j - 1) + 1 = j
    BY <1>1, <2>2
  <2>4. at[j - 1] \in Nat
    BY <2>1, <2>3
  <2>5. at[j] = at[j - 1] + HdrSize + data[j - 1]
    BY <1>3, <2>3
  <2> QED
    BY <1>1, <1>h, <2>2, <2>3, <2>4, <2>5
<1>5. ASSUME NEW i \in 1..n+1
      PROVE  \A j \in 1..n+1 : i < j => at[i] + HdrSize <= at[j]
  <2> DEFINE T == {j \in 1..n+1 : i < j /\ ~(at[i] + HdrSize <= at[j])}
  <2> SUFFICES ASSUME T # {} PROVE FALSE
    OBVIOUS
  <2>0. T \subseteq Nat
    BY <1>1
  <2>1. PICK j \in T : \A k \in T : j <= k
    BY <2>0, LeastNumber
  <2>2. j \in 1..n+1 /\ i < j /\ ~(at[i] + HdrSize <= at[j])
    BY <2>1
  <2>6. j - 1 \in 1..n+1 /\ ~(j <= j - 1) /\ i < j - 1 => at[i] + HdrSize <= at[j - 1]
    BY <2>1
  <2> HIDE DEF T
  <2>3. j - 1 \in 1..n /\ j - 1 \in 1..n+1 /\ ~(j <= j - 1) /\ (j - 1) + 1 = j
    BY <1>1, <2>2
  <2>4. at[j] = at[j - 1] + HdrSize + data[j - 1]
    BY <1>3, <2>3
  <2>5. /\ at[j - 1] \in Nat /\ at[i] \in Nat /\ at[j] \in Nat
        /\ data[j - 1] \in Nat
    BY <1>1, <1>4, <2>2, <2>3
  <2>a. PICK a \in Nat : a = at[i]
    BY <2>5
  <2>b. PICK b \in Nat : b = at[j - 1]
    BY <2>5
  <2>c. PICK c \in Nat : c = at[j]
    BY <2>5
  <2>d. PICK d \in Nat : d = data[j - 1]
    BY <2>5
  <2>e. c = b + HdrSize + d /\ ~(a + HdrSize <= c)
    BY <2>2, <2>4, <2>a, <2>b, <2>c, <2>d
  <2>7. i = j - 1 \/ i < j - 1
    BY <1>1, <2>2
  <2>8. CASE i = j - 1
    <3>1. a = b
      BY <2>8, <2>a, <2>b
    <3> QED
      BY <1>h, <2>e, <3>1
  <2>9. CASE i < j - 1
    <3>1. a + HdrSize <= b
      BY <2>3, <2>6, <2>9, <2>a, <2>b
    <3> QED
      BY <1>h, <2>e, <3>1
  <2> QED
    BY <2>7, <2>8, <2>9
<1> QED
  BY <1>1, <1>2, <1>3, <1>4, <1>5 DEF at, n

\* A multiple is not less.
LEMMA Product ==
  ASSUME NEW a \in Nat, NEW b \in Nat
  PROVE  a * b \in Nat /\ (b > 0 => a * b >= a)
<1>1. a * b \in Nat
  OBVIOUS
<1>2. ASSUME b > 0 PROVE a * b >= a
  <2>1. b - 1 \in Nat /\ a * (b - 1) \in Nat
    BY <1>2
  <2>2. a * b = a * (b - 1) + a
    BY <1>2
  <2> QED
    BY <1>1, <2>1, <2>2
<1> QED
  BY <1>1, <1>2

\* The chunks of a length: all of ChunkSize but the last.
LEMMA ChunksOf ==
  ASSUME NEW L \in Nat, L > 0
  PROVE  /\ NoOfChunks(L) \in Nat /\ NoOfChunks(L) > 0
         /\ ChunkSize * (NoOfChunks(L) - 1) < L /\ L <= ChunkSize * NoOfChunks(L)
         /\ L % ChunkSize = 0 => L - ChunkSize * (NoOfChunks(L) - 1) = ChunkSize
         /\ L % ChunkSize # 0 => L - ChunkSize * (NoOfChunks(L) - 1) = L % ChunkSize
<1>c. ChunkSize \in Nat /\ ChunkSize > 0
  BY PlConstants
<1>0. L = ChunkSize * (L \div ChunkSize) + (L % ChunkSize)
  BY <1>c
<1>1. PICK q, r : q = L \div ChunkSize /\ r = L % ChunkSize
  OBVIOUS
<1>2. q \in Nat /\ r \in 0..ChunkSize-1
  BY <1>1, <1>c
<1>3. L = ChunkSize * q + r /\ ChunkSize * q \in Nat
  BY <1>0, <1>1, <1>2, <1>c
<1>4. CASE L > ChunkSize /\ r > 0
  <2>1. NoOfChunks(L) = q + 1 /\ NoOfChunks(L) - 1 = q
    BY <1>1, <1>2, <1>4 DEF NoOfChunks
  <2>2. ChunkSize * (q + 1) = ChunkSize * q + ChunkSize
    BY <1>2, <1>c
  <2> QED
    BY <1>1, <1>2, <1>3, <1>4, <2>1, <2>2, <1>c
<1>5. CASE L > ChunkSize /\ r = 0
  <2>1. NoOfChunks(L) = q
    BY <1>1, <1>2, <1>5 DEF NoOfChunks
  <2>2. ChunkSize * (q - 1) = ChunkSize * q - ChunkSize
    BY <1>2, <1>c
  <2>3. q # 0
    BY <1>2, <1>3, <1>5, <1>c
  <2> QED
    BY <1>1, <1>2, <1>3, <1>5, <2>1, <2>2, <2>3, <1>c
<1>6. CASE ~(L > ChunkSize)
  <2>1. NoOfChunks(L) = 1
    BY <1>6 DEF NoOfChunks
  <2>2. ChunkSize * (1 - 1) = 0 /\ ChunkSize * 1 = ChunkSize
    BY <1>c
  <2>3. q = 0 \/ q = 1
    <3>1. CASE q > 1
      <4>1. q - 1 \in Nat /\ q - 1 > 0 /\ ChunkSize * q = ChunkSize * (q - 1) + ChunkSize
        BY <3>1, <1>2, <1>c
      <4>2. ChunkSize * (q - 1) >= ChunkSize
        BY <4>1, <1>c, Product
      <4> QED
        BY <4>1, <4>2, <1>3, <1>2, <1>6, <1>c
    <3> QED
      BY <3>1, <1>2
  <2>4. CASE q = 0
    <3>1. ChunkSize * q = 0
      BY <2>4, <1>c
    <3> QED
      BY <1>1, <1>2, <1>3, <1>6, <2>1, <2>2, <3>1, <1>c
  <2>5. CASE q = 1
    <3>1. ChunkSize * q = ChunkSize
      BY <2>5, <1>c
    <3> QED
      BY <1>1, <1>2, <1>3, <1>6, <2>1, <2>2, <3>1, <1>c
  <2> QED
    BY <2>3, <2>4, <2>5
<1> QED
  BY <1>2, <1>4, <1>5, <1>6

-----------------------------------------------------------------------------
(* Chunks, blocks and units.                                               *)

\* What is known of the bitstream being loaded.
LEMMA BitFacts ==
  ASSUME PlTypes, plStage # "Idle"
  PROVE  /\ bit \in Bitstreams /\ bit.aes \in Seq(Nat \ {0}) /\ bit.len \in Nat /\ bit.len > 0
         /\ bit.BlockSize \in Nat /\ bit.BlockSize > 0
         /\ Encrypted => bit.len = HdrAt(bit.aes)[Len(bit.aes) + 1] + HdrSize
         /\ bit.BlockSize % ChunkSize = 0 \/ bit.BlockSize % ChunkSize >= HdrSize
BY PlConstants DEF PlTypes, Encrypted

\* The block being read lies in the bitstream.
LEMMA BlockFacts ==
  ASSUME PlTypes, InBlock, plStage \in Working
  PROVE  /\ block.SrcAddress \in Nat /\ block.Len \in Nat /\ block.Len > 0
         /\ block.SrcAddress + block.Len <= bit.len
         /\ block.IsLastBlock => block.SrcAddress + block.Len = bit.len
         /\ ~block.IsLastBlock => block.Len = bit.BlockSize
         /\ Certificate(block.Index) = [upto |-> block.SrcAddress + block.Len, met |-> {}]
<1>1. plStage # "Idle"
  BY DEF Working
<1>2. bit.len \in Nat /\ bit.BlockSize \in Nat
  BY <1>1, BitFacts
<1>3. /\ block.SrcAddress \in Nat /\ block.Index \in Nat \ {0} /\ block.Len \in Nat \ {0}
      /\ block.SrcAddress = (block.Index - 1) * bit.BlockSize
      /\ block.SrcAddress < bit.len
      /\ block.Len = IF IsLast THEN bit.len - block.SrcAddress ELSE bit.BlockSize
  BY DEF PlTypes, InBlock
<1>i. block.IsLastBlock <=> IsLast
  BY DEF InBlock
<1>4. block.Index * bit.BlockSize = block.SrcAddress + bit.BlockSize
  BY <1>2, <1>3
<1>5. Certificate(block.Index) = [upto |-> block.SrcAddress + block.Len, met |-> {}]
  <2>1. block.Index * bit.BlockSize < bit.len =>
          block.SrcAddress + block.Len = block.Index * bit.BlockSize
    BY <1>2, <1>3, <1>4 DEF IsLast
  <2>2. ~(block.Index * bit.BlockSize < bit.len) => block.SrcAddress + block.Len = bit.len
    BY <1>2, <1>3, <1>4 DEF IsLast
  <2> QED
    BY <2>1, <2>2 DEF Certificate
<1> QED
  BY <1>2, <1>3, <1>i, <1>5 DEF IsLast

\* A chunk lies in the block, and is as long as a secure header unless it is the last
\* of the bitstream.
LEMMA ChunkFacts ==
  ASSUME PlTypes, InBlock, plStage \in Working
  PROVE  /\ NoOfChunks(block.Len) \in Nat /\ chunk \in Nat /\ chunk < NoOfChunks(block.Len)
         /\ ChunkFrom \in Nat /\ ChunkLen \in 1..ChunkSize
         /\ ChunkFrom + ChunkLen = ChunkEnd(chunk + 1)
         /\ ChunkFrom + ChunkLen <= block.SrcAddress + block.Len
         /\ ChunkFrom + ChunkLen <= bit.len
         /\ IsLastChunk => ChunkFrom + ChunkLen = block.SrcAddress + block.Len
         /\ ~IsLastChunk => /\ chunk + 1 < NoOfChunks(block.Len)
                            /\ ChunkFrom + ChunkLen = block.SrcAddress + ChunkSize * (chunk + 1)
         /\ ChunkLen >= HdrSize \/ ChunkFrom + ChunkLen = bit.len
<1> DEFINE N == NoOfChunks(block.Len)
           C == ChunkSize * chunk
           S == block.SrcAddress
           L == block.Len
<1>h. ChunkSize \in Nat /\ ChunkSize > HdrSize /\ HdrSize \in Nat /\ HdrSize > 0
  BY PlConstants
<1>1. plStage # "Idle"
  BY DEF Working
<1>2. /\ bit.len \in Nat
      /\ bit.BlockSize % ChunkSize = 0 \/ bit.BlockSize % ChunkSize >= HdrSize
  BY <1>1, BitFacts
<1>3. /\ S \in Nat /\ L \in Nat /\ L > 0 /\ S + L <= bit.len
      /\ ~block.IsLastBlock => L = bit.BlockSize
      /\ block.IsLastBlock => S + L = bit.len
  BY BlockFacts
<1>4. chunk \in Nat /\ chunk < N
  BY PlConstants DEF PlTypes, InBlock
<1>5. /\ N \in Nat /\ N > 0 /\ ChunkSize * (N - 1) < L /\ L <= ChunkSize * N
      /\ L % ChunkSize = 0 => L - ChunkSize * (N - 1) = ChunkSize
      /\ L % ChunkSize # 0 => L - ChunkSize * (N - 1) = L % ChunkSize
  BY <1>3, ChunksOf
<1>6. /\ IsLastChunk <=> chunk = N - 1
      /\ ChunkFrom = S + C
      /\ IsLastChunk => ChunkLen = L - C /\ ChunkEnd(chunk + 1) = S + L
      /\ ~IsLastChunk => ChunkLen = ChunkSize /\ ChunkEnd(chunk + 1) = S + ChunkSize * (chunk + 1)
  BY <1>4, <1>5 DEF IsLastChunk, ChunkFrom, ChunkLen, ChunkEnd
<1>7. C \in Nat /\ ChunkSize * (chunk + 1) = C + ChunkSize
  BY <1>4, <1>h
<1> HIDE DEF N, C, S, L
<1>8. CASE chunk = N - 1
  <2>1. C = ChunkSize * (N - 1)
    BY <1>8 DEF C
  <2>2. L <= C + ChunkSize /\ C < L
    BY <1>5, <1>7, <1>8, <2>1
  <2>3. /\ L % ChunkSize = 0 => L - C = ChunkSize
        /\ L % ChunkSize # 0 => L - C = L % ChunkSize
    BY <1>5, <2>1
  <2>4. L - C >= HdrSize \/ S + L = bit.len
    BY <1>2, <1>3, <1>h, <1>7, <2>3
  <2>5. chunk + 1 = N
    BY <1>4, <1>5, <1>8
  <2>6. /\ IsLastChunk /\ ChunkFrom = S + C /\ ChunkLen = L - C
        /\ ChunkEnd(chunk + 1) = S + L
    BY <1>6, <1>8
  <2>7. /\ ChunkFrom \in Nat /\ ChunkLen \in 1..ChunkSize /\ ChunkFrom + ChunkLen = S + L
        /\ S + L <= bit.len
        /\ ChunkLen >= HdrSize \/ ChunkFrom + ChunkLen = bit.len
    BY <1>2, <1>3, <1>7, <1>h, <2>2, <2>4, <2>6
  <2> QED
    BY <1>4, <1>5, <2>5, <2>6, <2>7 DEF N, S, L
<1>9. CASE chunk # N - 1
  <2>1. chunk + 1 < N /\ N - 1 - (chunk + 1) \in Nat
    BY <1>4, <1>5, <1>9
  <2>2. ChunkSize * (N - 1) = C + ChunkSize + ChunkSize * (N - 1 - (chunk + 1))
    <3>1. \A x, y \in Nat : ChunkSize * (x + y) = ChunkSize * x + ChunkSize * y
      BY <1>h
    <3>2. N - 1 = (chunk + 1) + (N - 1 - (chunk + 1)) /\ chunk + 1 \in Nat
      BY <1>4, <1>5
    <3> QED
      BY <1>7, <2>1, <3>1, <3>2
  <2>3. ChunkSize * (N - 1 - (chunk + 1)) \in Nat
    BY <2>1, <1>h, Product
  <2>4. C + ChunkSize < L
    BY <1>3, <1>5, <1>7, <1>h, <2>2, <2>3
  <2>5. /\ ~IsLastChunk /\ ChunkFrom = S + C /\ ChunkLen = ChunkSize
        /\ ChunkEnd(chunk + 1) = S + ChunkSize * (chunk + 1)
    BY <1>6, <1>9
  <2>6. /\ ChunkFrom \in Nat /\ ChunkLen \in 1..ChunkSize
        /\ ChunkFrom + ChunkLen = S + ChunkSize * (chunk + 1)
        /\ ChunkFrom + ChunkLen <= S + L /\ S + L <= bit.len /\ ChunkLen >= HdrSize
    BY <1>2, <1>3, <1>7, <1>h, <2>4, <2>5
  <2>7. S + ChunkSize * (chunk + 1) <= bit.len
    BY <1>2, <1>3, <1>7, <1>h, <2>4
  <2> QED
    BY <1>4, <1>5, <2>1, <2>5, <2>6, <2>7 DEF N, S, L
<1> QED
  BY <1>8, <1>9

\* Units as they were signed.
Clean(use, from, n) == [k \in 1..n |-> <<use, from + k - 1, FALSE>>]

\* They are a sequence of units.
LEMMA CleanFacts ==
  ASSUME NEW use \in {"data", "header"}, NEW from \in Nat, NEW n \in Nat
  PROVE  Clean(use, from, n) \in Seq(Unit) /\ Len(Clean(use, from, n)) = n
<1>1. \A k \in 1..n : from + k - 1 \in Nat
  OBVIOUS
<1>2. \A k \in 1..n : <<use, from + k - 1, FALSE>> \in Unit
  BY <1>1, Zenon DEF Unit
<1>3. [k \in 1..n |-> <<use, from + k - 1, FALSE>>] \in Seq(Unit)
  <2>1. [k \in 1..n |-> <<use, from + k - 1, FALSE>>] \in [1..n -> Unit]
    BY <1>2, Zenon
  <2>2. \A f \in [1..n -> Unit] : f \in Seq(Unit)
    OBVIOUS
  <2> QED
    BY <2>1, <2>2, Zenon
<1>4. Len([k \in 1..n |-> <<use, from + k - 1, FALSE>>]) = n
  OBVIOUS
<1> QED
  BY <1>3, <1>4 DEF Clean

\* What is read while the running hash has met nothing.
LEMMA UnitsClean ==
  ASSUME hash'.met = {}, NEW use, NEW from, NEW n
  PROVE  Units(use, from, n) = Clean(use, from, n)
<1>1. \A k \in 1..n : (from + k - 1 \in hash'.met) = FALSE
  OBVIOUS
<1>2. \A k \in 1..n : <<use, from + k - 1, from + k - 1 \in hash'.met>> = <<use, from + k - 1, FALSE>>
  BY <1>1, Zenon
<1> QED
  BY <1>2, Zenon DEF Units, Clean

\* The next units, as what they are.
LEMMA RightExtends ==
  ASSUME NEW s, Right(s), NEW u \in Seq(Unit), bit.len \in Nat, Len(s) + Len(u) <= bit.len,
         \A k \in 1..Len(u) : u[k] = <<UseOf(Len(s) + k - 1), Len(s) + k - 1, FALSE>>
  PROVE  Right(s \o u) /\ Len(s \o u) = Len(s) + Len(u)
<1>1. s \in Seq(Unit) /\ Len(s) \in Nat /\ Len(u) \in Nat
  BY DEF Right
<1>2. s \o u \in Seq(Unit) /\ Len(s \o u) = Len(s) + Len(u)
  BY <1>1
<1>3. ASSUME NEW k \in 1..Len(s \o u)
      PROVE  (s \o u)[k] = <<UseOf(k - 1), k - 1, FALSE>>
  <2>1. CASE k <= Len(s)
    <3>1. (s \o u)[k] = s[k] /\ k \in 1..Len(s)
      BY <1>1, <1>2, <2>1
    <3> QED
      BY <3>1 DEF Right
  <2>2. CASE k > Len(s)
    <3>1. (s \o u)[k] = u[k - Len(s)] /\ k - Len(s) \in 1..Len(u)
      BY <1>1, <1>2, <2>2
    <3>2. Len(s) + (k - Len(s)) - 1 = k - 1
      BY <1>1, <1>2
    <3> QED
      BY <3>1, <3>2
  <2>3. k <= Len(s) \/ k > Len(s)
    BY <1>1, <1>2
  <2> QED
    BY <2>1, <2>2, <2>3, Zenon
<1> QED
  BY <1>2, <1>3 DEF Right

\* In the layout of an encrypted bitstream, headers and data alternate up to the end.
LEMMA LayoutFacts ==
  ASSUME PlTypes, plStage # "Idle", Encrypted
  PROVE  /\ Len(bit.aes) \in Nat /\ HdrAt(bit.aes)[1] = 0
         /\ bit.len = HdrAt(bit.aes)[Len(bit.aes) + 1] + HdrSize
         /\ \A j \in 1..Len(bit.aes) :
              /\ bit.aes[j] \in Nat \ {0}
              /\ HdrAt(bit.aes)[j + 1] = HdrAt(bit.aes)[j] + HdrSize + bit.aes[j]
              /\ \A o \in Nat : HdrAt(bit.aes)[j] + HdrSize <= o /\ o < HdrAt(bit.aes)[j + 1] =>
                                  UseOf(o) = "data"
         /\ \A j \in Headers :
              /\ HdrAt(bit.aes)[j] \in Nat /\ HdrAt(bit.aes)[j] + HdrSize <= bit.len
              /\ \A o \in Nat : HdrAt(bit.aes)[j] <= o /\ o < HdrAt(bit.aes)[j] + HdrSize =>
                                  UseOf(o) = "header"
              /\ \A i \in Headers : i # j => HdrAt(bit.aes)[i] # HdrAt(bit.aes)[j]
<1> DEFINE at == HdrAt(bit.aes)
           n == Len(bit.aes)
<1>h. HdrSize \in Nat /\ HdrSize > 0
  BY PlConstants
<1>1. bit.aes \in Seq(Nat \ {0}) /\ bit.len = at[n + 1] + HdrSize
  BY BitFacts
<1>2. /\ n \in Nat /\ at[1] = 0
      /\ \A j \in 1..n : at[j + 1] = at[j] + HdrSize + bit.aes[j]
      /\ \A j \in 1..n : bit.aes[j] \in Nat \ {0}
      /\ \A j \in 1..n+1 : at[j] \in Nat
      /\ \A i, j \in 1..n+1 : i < j => at[i] + HdrSize <= at[j]
  BY <1>1, HdrAtFacts
<1>3. Headers = 1..n+1
  BY DEF Headers
<1>4. \A o : UseOf(o) = IF \E j \in Headers : o \in at[j]..at[j]+HdrSize-1 THEN "header" ELSE "data"
  BY DEF UseOf
<1> HIDE DEF at, n
<1>5. ASSUME NEW j \in 1..n, NEW o \in Nat, at[j] + HdrSize <= o, o < at[j + 1]
      PROVE  UseOf(o) = "data"
  <2> SUFFICES ASSUME NEW i \in 1..n+1, o \in at[i]..at[i]+HdrSize-1 PROVE FALSE
    BY <1>3, <1>4
  <2>1. at[i] \in Nat /\ at[j] \in Nat /\ at[j + 1] \in Nat /\ j \in 1..n+1 /\ j + 1 \in 1..n+1
    BY <1>2
  <2>2. CASE i <= j
    <3>1. i = j \/ at[i] + HdrSize <= at[j]
      BY <1>2, <2>1, <2>2
    <3> QED
      BY <1>h, <1>5, <2>1, <3>1
  <2>3. CASE i > j
    <3>1. i = j + 1 \/ at[j + 1] + HdrSize <= at[i]
      BY <1>2, <2>1, <2>3
    <3> QED
      BY <1>h, <1>5, <2>1, <3>1
  <2> QED
    BY <1>2, <2>2, <2>3
<1>6. ASSUME NEW j \in 1..n+1, NEW o \in Nat, at[j] <= o, o < at[j] + HdrSize
      PROVE  UseOf(o) = "header"
  <2>1. o \in at[j]..at[j]+HdrSize-1
    BY <1>2, <1>6, <1>h
  <2> QED
    BY <1>3, <1>4, <2>1
<1>7. ASSUME NEW i \in 1..n+1, NEW j \in 1..n+1, i # j
      PROVE  at[i] # at[j]
  <2>1. i < j \/ j < i
    BY <1>2, <1>7
  <2> QED
    BY <1>2, <1>h, <2>1
<1>8. \A j \in 1..n+1 : at[j] + HdrSize <= bit.len
  <2>1. \A j \in 1..n+1 : j = n + 1 \/ j < n + 1
    BY <1>2
  <2>2. n + 1 \in 1..n+1
    BY <1>2
  <2>3. \A j \in 1..n+1 : at[j] + HdrSize <= at[n + 1] + HdrSize
    BY <1>2, <1>h, <2>1, <2>2
  <2> QED
    BY <1>1, <2>3 DEF at, n
<1> QED
  BY <1>1, <1>2, <1>3, <1>5, <1>6, <1>7, <1>8 DEF at, n

\* The next data, in the data after header j.
LEMMA DataRight ==
  ASSUME PlTypes, plStage # "Idle", Encrypted, Right(sent), NEW j \in 1..Len(bit.aes), NEW m \in Nat,
         HdrAt(bit.aes)[j] + HdrSize <= Len(sent), Len(sent) + m <= HdrAt(bit.aes)[j + 1]
  PROVE  /\ Right(sent \o Clean("data", Len(sent), m))
         /\ Len(sent \o Clean("data", Len(sent), m)) = Len(sent) + m
<1> DEFINE u == Clean("data", Len(sent), m)
<1>1. Len(sent) \in Nat
  BY DEF Right
<1>2. u \in Seq(Unit) /\ Len(u) = m
  BY <1>1, CleanFacts
<1>3. bit.len \in Nat /\ HdrAt(bit.aes)[j] \in Nat /\ HdrAt(bit.aes)[j + 1] \in Nat /\ HdrSize \in Nat
      /\ HdrAt(bit.aes)[j + 1] + HdrSize <= bit.len
  <2>1. bit.len \in Nat /\ HdrSize \in Nat
    BY BitFacts, PlConstants
  <2>2. j \in Headers /\ j + 1 \in Headers
    BY LayoutFacts DEF Headers
  <2>3. \A k \in Headers : HdrAt(bit.aes)[k] \in Nat /\ HdrAt(bit.aes)[k] + HdrSize <= bit.len
    BY LayoutFacts
  <2> QED
    BY <2>1, <2>2, <2>3
<1>4. ASSUME NEW k \in 1..m
      PROVE  u[k] = <<UseOf(Len(sent) + k - 1), Len(sent) + k - 1, FALSE>>
  <2>1. u[k] = <<"data", Len(sent) + k - 1, FALSE>>
    BY DEF Clean
  <2>2. /\ Len(sent) + k - 1 \in Nat /\ HdrAt(bit.aes)[j] + HdrSize <= Len(sent) + k - 1
        /\ Len(sent) + k - 1 < HdrAt(bit.aes)[j + 1]
    BY <1>1, <1>3
  <2>3. UseOf(Len(sent) + k - 1) = "data"
    BY <2>2, LayoutFacts
  <2> QED
    BY <2>1, <2>3
<1> HIDE DEF u
<1>5. Len(sent) + Len(u) <= bit.len
  BY <1>1, <1>2, <1>3
<1> QED
  BY <1>2, <1>3, <1>4, <1>5, RightExtends DEF u

\* The next header.
LEMMA HeaderRight ==
  ASSUME PlTypes, plStage # "Idle", Encrypted, NEW s, Right(s), NEW j \in Headers,
         Len(s) = HdrAt(bit.aes)[j]
  PROVE  /\ HeaderUnits(j) = Clean("header", Len(s), HdrSize)
         /\ Right(s \o HeaderUnits(j)) /\ Len(s \o HeaderUnits(j)) = Len(s) + HdrSize
<1> DEFINE u == HeaderUnits(j)
<1>1. Len(s) \in Nat /\ HdrSize \in Nat
  BY PlConstants DEF Right
<1>0. u = Clean("header", Len(s), HdrSize)
  BY DEF HeaderUnits, Clean
<1>2. u \in Seq(Unit) /\ Len(u) = HdrSize
  BY <1>0, <1>1, CleanFacts
<1>3. bit.len \in Nat /\ Len(s) + HdrSize <= bit.len
  BY BitFacts, LayoutFacts
<1>4. ASSUME NEW k \in 1..HdrSize
      PROVE  u[k] = <<UseOf(Len(s) + k - 1), Len(s) + k - 1, FALSE>>
  <2>1. u[k] = <<"header", Len(s) + k - 1, FALSE>>
    BY <1>0 DEF Clean
  <2>2. /\ Len(s) + k - 1 \in Nat /\ Len(s) <= Len(s) + k - 1
        /\ Len(s) + k - 1 < Len(s) + HdrSize
    BY <1>1
  <2>3. UseOf(Len(s) + k - 1) = "header"
    BY <2>2, LayoutFacts
  <2> QED
    BY <2>1, <2>3
<1> HIDE DEF u
<1>5. Len(s) + Len(u) <= bit.len
  BY <1>1, <1>2, <1>3
<1> QED
  BY <1>0, <1>1, <1>2, <1>3, <1>4, <1>5, RightExtends DEF u

\* Only a header, all of it, is taken for one.
LEMMA OnlyHeaderRead ==
  ASSUME PlTypes, plStage # "Idle", Encrypted, NEW i \in Headers, NEW data, NEW src, NEW rest,
         DecryptHeader(data, HeaderUnits(i), src, rest)
  PROVE  /\ sent' = sent \o data \o HeaderUnits(i)
         /\ aes' = [SizeofData |-> Told(i), NextBlkLen |-> Told(i), SecureHdr |-> <<>>,
                    SrcAddr |-> src, Size |-> rest]
         /\ rest # 0 /\ Told(i) # 0 => UNCHANGED <<plStage, block, chunk>>
         /\ ~(rest # 0 /\ Told(i) # 0) => ChunkDone
<1>1. ASSUME NEW j \in Headers, HeaderUnits(i) = HeaderUnits(j)
      PROVE  j = i
  <2>1. HdrSize \in Nat /\ HdrSize > 0 /\ HdrAt(bit.aes)[i] \in Nat /\ HdrAt(bit.aes)[j] \in Nat
    BY PlConstants, LayoutFacts
  <2>2. 1 \in 1..HdrSize
    BY <2>1
  <2>3. /\ HeaderUnits(i)[1] = <<"header", HdrAt(bit.aes)[i] + 1 - 1, FALSE>>
        /\ HeaderUnits(j)[1] = <<"header", HdrAt(bit.aes)[j] + 1 - 1, FALSE>>
    BY <2>2 DEF HeaderUnits
  <2>4. HdrAt(bit.aes)[i] + 1 - 1 = HdrAt(bit.aes)[j] + 1 - 1
    BY <1>1, <2>3
  <2>5. HdrAt(bit.aes)[i] = HdrAt(bit.aes)[j]
    BY <2>1, <2>4
  <2> QED
    BY <2>5, LayoutFacts
<1>2. {j \in Headers : HeaderUnits(i) = HeaderUnits(j)} = {i}
  BY <1>1
<1> QED
  BY <1>2 DEF DecryptHeader

-----------------------------------------------------------------------------
(* The steps.                                                              *)

\* What remains right if the bitstream does.
LEMMA RightPrime ==
  ASSUME bit' = bit, Right(sent')
  PROVE  Right(sent)'
BY DEF Right, UseOf, Encrypted, Headers

\* The end of a chunk that has been sent.
LEMMA ChunkDoneTypes ==
  ASSUME PlInv, plStage \in {"Again", "Decrypt"}, bit' = bit, ChunkDone,
         Position' = ChunkFrom + ChunkLen
  PROVE  /\ plStage' \in {"Again", "Block", "Wait"}
         /\ block' \in [SrcAddress : Nat, Index : Nat \ {0}, Len : Nat \ {0}, IsLastBlock : BOOLEAN]
         /\ block'.SrcAddress <= bit.len /\ block'.Len = block.Len
         /\ chunk' \in 0..NoOfHashs
         /\ InBlock'
         /\ plStage' = "Again" => block' = block /\ Position' = ChunkFrom'
         /\ plStage' = "Block" => Position' = block'.SrcAddress
         /\ plStage' = "Wait" => Position' = bit.len
<1> DEFINE N == NoOfChunks(block.Len)
<1>0. PlTypes /\ InBlock /\ plStage \in Working /\ plStage # "Idle"
  BY DEF PlInv, Working
<1>1. /\ bit.len \in Nat /\ bit.BlockSize \in Nat /\ bit.BlockSize > 0
      /\ ChunkSize \in Nat /\ NoOfHashs \in Nat
  BY <1>0, BitFacts, PlConstants
<1>2. /\ block \in [SrcAddress : Nat, Index : Nat \ {0}, Len : Nat \ {0}, IsLastBlock : BOOLEAN]
      /\ block.SrcAddress <= bit.len /\ chunk \in 0..NoOfHashs
  BY <1>0 DEF PlTypes
<1>3. /\ block.SrcAddress = (block.Index - 1) * bit.BlockSize
      /\ block.SrcAddress < bit.len /\ (block.IsLastBlock <=> IsLast)
      /\ block.Len = IF IsLast THEN bit.len - block.SrcAddress ELSE bit.BlockSize
      /\ N <= NoOfHashs /\ chunk < N
  BY <1>0 DEF InBlock
<1>4. /\ N \in Nat /\ chunk \in Nat
      /\ IsLastChunk => ChunkFrom + ChunkLen = block.SrcAddress + block.Len
      /\ ~IsLastChunk => /\ chunk + 1 < N
                         /\ ChunkFrom + ChunkLen = block.SrcAddress + ChunkSize * (chunk + 1)
  BY <1>0, ChunkFacts
<1> HIDE DEF N
<1>5. CASE ~IsLastChunk
  <2>1. chunk' = chunk + 1 /\ plStage' = "Again" /\ block' = block
    BY <1>5 DEF ChunkDone
  <2>2. ChunkFrom' = block.SrcAddress + ChunkSize * (chunk + 1)
    BY <2>1 DEF ChunkFrom
  <2>3. chunk' \in 0..NoOfHashs /\ chunk' < N
    BY <1>1, <1>3, <1>4, <1>5, <2>1
  <2>4. InBlock'
    BY <1>0, <2>1, <2>3 DEF InBlock, IsLast, N, Working
  <2> QED
    BY <1>2, <1>4, <1>5, <2>1, <2>2, <2>3, <2>4
<1>6. CASE IsLastChunk /\ block.IsLastBlock
  <2>1. plStage' = "Wait" /\ block' = block /\ chunk' = chunk
    BY <1>6 DEF ChunkDone, BlockDone
  <2>2. Position' = bit.len
    BY <1>0, <1>4, <1>6, BlockFacts
  <2>3. InBlock'
    BY <2>1 DEF InBlock, Working
  <2> QED
    BY <1>2, <2>1, <2>2, <2>3
<1>7. CASE IsLastChunk /\ ~block.IsLastBlock
  <2>1. plStage' = "Block" /\ chunk' = chunk
        /\ block' = [block EXCEPT !.SrcAddress = @ + bit.BlockSize, !.Index = @ + 1]
    BY <1>7 DEF ChunkDone, BlockDone
  <2>2. /\ block'.SrcAddress = block.SrcAddress + bit.BlockSize /\ block'.Index = block.Index + 1
        /\ block'.Len = block.Len /\ block'.IsLastBlock = block.IsLastBlock
    BY <1>2, <2>1
  <2>3. block'.SrcAddress <= bit.len /\ block.Len = bit.BlockSize
    BY <1>0, <1>1, <1>2, <1>3, <1>7, <2>2, BlockFacts
  <2>4. block'.SrcAddress = (block'.Index - 1) * bit.BlockSize
    <3>1. block.Index \in Nat /\ block.Index - 1 \in Int /\ block'.Index - 1 = (block.Index - 1) + 1
      BY <1>2, <2>2
    <3>2. ((block.Index - 1) + 1) * bit.BlockSize = (block.Index - 1) * bit.BlockSize + bit.BlockSize
      BY <1>1, <3>1
    <3> QED
      BY <1>3, <2>2, <3>1, <3>2
  <2>5. InBlock'
    BY <1>7, <2>1, <2>2, <2>4 DEF InBlock, Working
  <2>6. block' \in [SrcAddress : Nat, Index : Nat \ {0}, Len : Nat \ {0}, IsLastBlock : BOOLEAN]
    <3>1. block.SrcAddress + bit.BlockSize \in Nat /\ block.Index + 1 \in Nat \ {0}
      BY <1>1, <1>2
    <3>2. \A a \in Nat, b \in Nat \ {0} :
            [block EXCEPT !.SrcAddress = a, !.Index = b]
              \in [SrcAddress : Nat, Index : Nat \ {0}, Len : Nat \ {0}, IsLastBlock : BOOLEAN]
      BY <1>2
    <3>3. block' = [block EXCEPT !.SrcAddress = block.SrcAddress + bit.BlockSize,
                                 !.Index = block.Index + 1]
      BY <2>1
    <3> QED
      BY <3>1, <3>2, <3>3
  <2>7. Position' = block'.SrcAddress
    BY <1>4, <1>7, <2>2, <2>3
  <2> QED
    BY <1>2, <2>1, <2>2, <2>3, <2>5, <2>6, <2>7
<1> QED
  BY <1>5, <1>6, <1>7

\* What the second reading does, the chunk at its end or not.
LEMMA PieceSent ==
  ASSUME PlInv, plStage \in {"Again", "Decrypt"},
         UNCHANGED <<bit, changed, HashsOfChunks, disturbed>>,
         hash' \in [upto : Nat, met : {{}}], hash'.upto <= bit.len,
         aes' \in [SizeofData : Nat, NextBlkLen : Nat, SecureHdr : Seq(Unit), SrcAddr : Nat, Size : Nat],
         aes'.SizeofData <= bit.len, aes'.Size <= ChunkSize, Len(aes'.SecureHdr) < HdrSize,
         plState' \in {"reset", "loading", "done"}, Right(sent'), Layout',
         \/ ChunkDone /\ Position' = ChunkFrom + ChunkLen
         \/ /\ Encrypted /\ plStage' = "Decrypt" /\ UNCHANGED <<block, chunk>>
            /\ Position' = aes'.SrcAddr /\ aes'.Size > 0
            /\ aes'.SrcAddr + aes'.Size = ChunkFrom + ChunkLen
            /\ aes'.SrcAddr = ChunkFrom \/ aes'.SizeofData > 0
  PROVE  PlInv'
<1>0. /\ PlTypes /\ InBlock /\ InHash /\ GoodLoads /\ plStage \in Working /\ plStage # "Idle"
      /\ bit \in Bitstreams
  BY DEF PlInv, Working, PlTypes
<1>1. hash'.met = {} /\ hash' \in [upto : Nat, met : SUBSET Nat]
  OBVIOUS
<1>2. Hashed(NoOfChunks(block.Len), {})
  BY <1>0 DEF InHash
<1>3. CASE ChunkDone /\ Position' = ChunkFrom + ChunkLen
  <2>1. /\ plStage' \in {"Again", "Block", "Wait"}
        /\ block' \in [SrcAddress : Nat, Index : Nat \ {0}, Len : Nat \ {0}, IsLastBlock : BOOLEAN]
        /\ block'.SrcAddress <= bit.len /\ block'.Len = block.Len
        /\ chunk' \in 0..NoOfHashs
        /\ InBlock'
        /\ plStage' = "Again" => block' = block /\ Position' = ChunkFrom'
        /\ plStage' = "Block" => Position' = block'.SrcAddress
        /\ plStage' = "Wait" => Position' = bit.len
    BY <1>3, ChunkDoneTypes
  <2>2. PlTypes'
    BY <1>0, <1>1, <2>1 DEF PlTypes, Working
  <2>3. InHash'
    <3>1. plStage' = "Again" => Hashed(NoOfChunks(block.Len), {})'
      <4> SUFFICES ASSUME plStage' = "Again" PROVE Hashed(NoOfChunks(block.Len), {})'
        OBVIOUS
      <4>1. block' = block /\ HashsOfChunks' = HashsOfChunks
        BY <2>1
      <4> QED
        BY <1>2, <4>1 DEF Hashed, ChunkEnd
    <3> QED
      BY <1>1, <2>1, <3>1 DEF InHash
  <2>4. InPlace'
    BY <2>1 DEF InPlace
  <2>5. InLayout' /\ GoodLoads' /\ Right(sent)' /\ plStage' # "Idle"
    BY <2>1, RightPrime DEF InLayout, GoodLoads
  <2> QED
    BY <2>1, <2>2, <2>3, <2>4, <2>5 DEF PlInv
<1>4. CASE /\ Encrypted /\ plStage' = "Decrypt" /\ UNCHANGED <<block, chunk>>
           /\ Position' = aes'.SrcAddr /\ aes'.Size > 0
           /\ aes'.SrcAddr + aes'.Size = ChunkFrom + ChunkLen
           /\ aes'.SrcAddr = ChunkFrom \/ aes'.SizeofData > 0
  <2>1. PlTypes'
    BY <1>0, <1>1, <1>4 DEF PlTypes, Working
  <2>2. InBlock'
    BY <1>0, <1>4 DEF InBlock, IsLast, Working
  <2>3. InHash'
    BY <1>1, <1>2, <1>4 DEF InHash, Hashed, ChunkEnd
  <2>4. ChunkFrom' = ChunkFrom /\ ChunkLen' = ChunkLen /\ (Encrypted' <=> Encrypted)
    BY <1>4 DEF ChunkFrom, ChunkLen, IsLastChunk, Encrypted
  <2>5. InPlace'
    BY <1>4, <2>4 DEF InPlace
  <2>6. InLayout' /\ GoodLoads' /\ Right(sent)' /\ plStage' # "Idle"
    BY <1>4, RightPrime DEF InLayout, GoodLoads
  <2> QED
    BY <1>4, <2>1, <2>2, <2>3, <2>5, <2>6 DEF PlInv
<1> QED
  BY <1>3, <1>4

\* What fails, fails for a reason.
LEMMA FailKeeps ==
  ASSUME PlInv, plStage # "Idle", plStage' = "Fail", UNCHANGED <<bit, changed, outVars>>,
         block' \in [SrcAddress : Nat, Index : Nat \ {0}, Len : Nat \ {0}, IsLastBlock : BOOLEAN],
         block'.SrcAddress <= bit.len, block'.Len <= bit.BlockSize, chunk' \in 0..NoOfHashs,
         hash' \in [upto : Nat, met : SUBSET Nat], hash'.upto <= bit.len,
         disturbed' \in BOOLEAN, disturbed => disturbed', GoodLoads'
  PROVE  PlInv'
<1>1. PlTypes /\ Right(sent)
  BY DEF PlInv
<1>2. bit' = bit /\ changed' = changed /\ aes' = aes /\ sent' = sent /\ plState' = plState
  BY DEF outVars
<1>3. PlTypes'
  BY <1>1, <1>2 DEF PlTypes
<1>4. InBlock' /\ InHash' /\ InPlace' /\ InLayout'
  BY DEF InBlock, InHash, InPlace, InLayout, Working
<1>5. Right(sent)'
  BY <1>1, <1>2, RightPrime
<1> QED
  BY <1>3, <1>4, <1>5 DEF PlInv

\* The hash of the next chunk.
LEMMA UpdatedFacts ==
  ASSUME PlTypes, InBlock, plStage \in Working
  PROVE  /\ Updated \in [upto : Nat, met : SUBSET Nat] /\ Updated.upto = ChunkFrom + ChunkLen
         /\ Updated.upto <= bit.len /\ hash.met \subseteq Updated.met
         /\ changed = {} => Updated.met = hash.met
<1>1. /\ ChunkFrom \in Nat /\ ChunkLen \in 1..ChunkSize /\ ChunkSize \in Nat
      /\ ChunkFrom + ChunkLen <= bit.len /\ bit.len \in Nat
  BY ChunkFacts, PlConstants, BitFacts DEF Working
<1>2. hash.met \subseteq Nat /\ changed \subseteq Nat
  BY <1>1 DEF PlTypes
<1>3. ChunkFrom + ChunkLen \in Nat
  BY <1>1
<1> DEFINE m == hash.met \cup (changed \cap (ChunkFrom..(ChunkFrom+ChunkLen)-1))
<1>4. Updated = [upto |-> ChunkFrom + ChunkLen, met |-> m]
  BY DEF Updated
<1>5. m \subseteq Nat /\ hash.met \subseteq m /\ (changed = {} => m = hash.met)
  BY <1>2
<1> HIDE DEF m
<1> QED
  BY <1>1, <1>3, <1>4, <1>5

\* XFsbl_ReAuthenticationBlock: a chunk that differs from the first reading is not sent.
LEMMA ReadAgainKeeps ==
  ASSUME PlInv, ReadAgain
  PROVE  PlInv'
<1>1. /\ plStage = "Again" /\ hash' = Updated
      /\ bit' = bit /\ changed' = changed /\ HashsOfChunks' = HashsOfChunks /\ disturbed' = disturbed
  BY DEF ReadAgain
<1>2. /\ PlTypes /\ InBlock /\ InHash /\ InPlace /\ InLayout /\ GoodLoads /\ Right(sent)
      /\ plStage \in Working /\ plStage # "Idle"
  BY <1>1 DEF PlInv, Working
<1>3. /\ ChunkFrom \in Nat /\ ChunkLen \in 1..ChunkSize /\ ChunkSize \in Nat
      /\ ChunkFrom + ChunkLen = ChunkEnd(chunk + 1) /\ ChunkFrom + ChunkLen <= bit.len
      /\ NoOfChunks(block.Len) \in Nat /\ chunk \in Nat /\ chunk < NoOfChunks(block.Len)
      /\ bit.len \in Nat
  BY <1>2, ChunkFacts, BitFacts, PlConstants
<1>4. /\ Updated \in [upto : Nat, met : SUBSET Nat] /\ Updated.upto = ChunkFrom + ChunkLen
      /\ Updated.upto <= bit.len /\ hash.met \subseteq Updated.met
      /\ changed = {} => Updated.met = hash.met
  BY <1>2, UpdatedFacts
<1>5. Hashed(NoOfChunks(block.Len), {}) /\ hash.met = {}
  BY <1>1, <1>2 DEF InHash
<1>6. HashsOfChunks[chunk + 1] \in [upto : {ChunkFrom + ChunkLen}, met : SUBSET {}]
  <2>1. chunk + 1 \in 1..NoOfChunks(block.Len)
    BY <1>3
  <2> QED
    BY <1>3, <1>5, <2>1 DEF Hashed
<1>7. Position = ChunkFrom /\ Layout
  BY <1>1, <1>2 DEF InPlace, InLayout
<1>8. sent \in Seq(Unit) /\ Len(sent) \in Nat /\ aes.SecureHdr \in Seq(Unit)
  BY <1>2 DEF Right, PlTypes
<1>9. CASE ~SameHash
  <2>1. plStage' = "Fail" /\ UNCHANGED <<block, chunk, outVars>>
    BY <1>9 DEF ReadAgain
  <2>2. disturbed
    <3> SUFFICES ASSUME ~disturbed PROVE FALSE
      OBVIOUS
    <3>1. Updated.met = {}
      BY <1>2, <1>4, <1>5 DEF PlTypes
    <3>2. Updated = [upto |-> ChunkFrom + ChunkLen, met |-> {}]
      BY <1>4, <3>1
    <3>3. HashsOfChunks[chunk + 1] = [upto |-> ChunkFrom + ChunkLen, met |-> {}]
      BY <1>6
    <3> QED
      BY <1>9, <3>2, <3>3 DEF SameHash
  <2>3. GoodLoads'
    BY <1>1, <2>2 DEF GoodLoads
  <2>4. /\ block \in [SrcAddress : Nat, Index : Nat \ {0}, Len : Nat \ {0}, IsLastBlock : BOOLEAN]
        /\ block.SrcAddress <= bit.len /\ block.Len <= bit.BlockSize /\ chunk \in 0..NoOfHashs
        /\ disturbed \in BOOLEAN
    BY <1>2 DEF PlTypes
  <2> QED
    BY <1>1, <1>2, <1>4, <2>1, <2>3, <2>4, FailKeeps
<1>10. CASE SameHash
  <2>0. Updated.met = {}
    BY <1>6, <1>10 DEF SameHash
  <2>1. hash' \in [upto : Nat, met : {{}}] /\ hash'.upto <= bit.len /\ hash'.met = {}
    BY <1>1, <1>4, <2>0
  <2>2. /\ aes \in [SizeofData : Nat, NextBlkLen : Nat, SecureHdr : Seq(Unit), SrcAddr : Nat, Size : Nat]
        /\ aes.SizeofData <= bit.len /\ aes.Size <= ChunkSize /\ Len(aes.SecureHdr) < HdrSize
        /\ plState \in {"reset", "loading", "done"}
    BY <1>2 DEF PlTypes
  <2>3. CASE ~Encrypted
    <3>1. /\ sent' = sent \o Units("data", ChunkFrom, ChunkLen)
          /\ plState' = "loading" /\ ChunkDone /\ aes' = aes
      BY <1>10, <2>3 DEF ReadAgain
    <3>2. aes = NoAes /\ Len(aes.SecureHdr) = 0
      BY <1>7, <2>3 DEF Layout, NoAes
    <3>3. Len(sent) = ChunkFrom
      BY <1>7, <1>8, <3>2 DEF Position
    <3> DEFINE u == Clean("data", ChunkFrom, ChunkLen)
    <3>4. Units("data", ChunkFrom, ChunkLen) = u
      BY <2>1, UnitsClean
    <3>5. u \in Seq(Unit) /\ Len(u) = ChunkLen
      <4>1. ChunkLen \in Nat
        BY <1>3
      <4> QED
        BY <1>3, <4>1, CleanFacts
    <3>6. \A k \in 1..Len(u) : u[k] = <<UseOf(Len(sent) + k - 1), Len(sent) + k - 1, FALSE>>
      BY <2>3, <3>3, <3>5 DEF UseOf, Clean
    <3>7. Right(sent \o u) /\ Len(sent \o u) = ChunkFrom + ChunkLen
      BY <1>2, <1>3, <3>3, <3>5, <3>6, RightExtends
    <3>8. Position' = ChunkFrom + ChunkLen
      BY <1>3, <3>1, <3>2, <3>4, <3>7 DEF Position
    <3>9. Layout'
      BY <1>1, <2>3, <3>1, <3>2 DEF Layout, Encrypted, NoAes
    <3> QED
      BY <1>1, <1>2, <2>1, <2>2, <3>1, <3>4, <3>7, <3>8, <3>9, PieceSent
  <2>4. CASE Encrypted
    <3>1. /\ plStage' = "Decrypt" /\ aes' = [aes EXCEPT !.SrcAddr = ChunkFrom, !.Size = ChunkLen]
          /\ block' = block /\ chunk' = chunk /\ sent' = sent /\ plState' = plState
      BY <1>10, <2>4 DEF ReadAgain
    <3>2. /\ aes' \in [SizeofData : Nat, NextBlkLen : Nat, SecureHdr : Seq(Unit), SrcAddr : Nat,
                       Size : Nat]
          /\ aes'.SizeofData = aes.SizeofData /\ aes'.NextBlkLen = aes.NextBlkLen
          /\ aes'.SecureHdr = aes.SecureHdr /\ aes'.SrcAddr = ChunkFrom /\ aes'.Size = ChunkLen
      <4>1. \A a \in Nat, b \in Nat :
              [aes EXCEPT !.SrcAddr = a, !.Size = b]
                \in [SizeofData : Nat, NextBlkLen : Nat, SecureHdr : Seq(Unit), SrcAddr : Nat,
                     Size : Nat]
        BY <2>2
      <4>2. ChunkFrom \in Nat /\ ChunkLen \in Nat
        BY <1>3
      <4> QED
        BY <2>2, <3>1, <4>1, <4>2
    <3>3. Position' = Position
      BY <3>1, <3>2 DEF Position
    <3>4. Layout'
      <4>1. /\ AtStart' <=> AtStart
            /\ AtEnd' <=> AtEnd
            /\ \A j : (InData(j) <=> /\ aes'.NextBlkLen # 0 /\ aes'.SecureHdr = <<>>
                                     /\ HdrAt(bit'.aes)[j] + HdrSize <= Position'
                                     /\ Position' + aes'.SizeofData = HdrAt(bit'.aes)[j + 1])
        BY <1>1, <3>2, <3>3 DEF AtStart, AtEnd, InData
      <4> QED
        BY <1>1, <1>7, <2>4, <3>1, <3>2, <3>3, <4>1 DEF Layout, Encrypted, AtStart, AtEnd, InData, InHeader
    <3>5. aes'.Size > 0 /\ aes'.Size <= ChunkSize /\ aes'.SrcAddr + aes'.Size = ChunkFrom + ChunkLen
      BY <1>3, <3>2
    <3>6. Right(sent')
      BY <1>2, <3>1
    <3>7. Position' = aes'.SrcAddr /\ aes'.SizeofData <= bit.len /\ Len(aes'.SecureHdr) < HdrSize
      BY <1>7, <2>2, <3>2, <3>3
    <3> QED
      BY <1>1, <1>2, <2>1, <2>2, <2>4, <3>1, <3>2, <3>4, <3>5, <3>6, <3>7, PieceSent
  <2> QED
    BY <2>3, <2>4
<1> QED
  BY <1>9, <1>10

\* What is known while a chunk is decrypted.
LEMMA DecryptFacts ==
  ASSUME PlInv, plStage = "Decrypt"
  PROVE  /\ PlTypes /\ InBlock /\ plStage \in Working /\ plStage # "Idle"
         /\ Encrypted /\ Right(sent) /\ Layout /\ hash.met = {}
         /\ hash \in [upto : Nat, met : {{}}] /\ hash.upto <= bit.len
         /\ sent \in Seq(Unit) /\ Len(sent) \in Nat
         /\ aes \in [SizeofData : Nat, NextBlkLen : Nat, SecureHdr : Seq(Unit), SrcAddr : Nat, Size : Nat]
         /\ Len(aes.SecureHdr) \in Nat /\ Len(aes.SecureHdr) < HdrSize
         /\ aes.SizeofData <= bit.len /\ aes.Size <= ChunkSize
         /\ bit.len \in Nat /\ HdrSize \in Nat /\ HdrSize > 0 /\ ChunkSize \in Nat /\ ChunkSize > HdrSize
         /\ Len(sent) + Len(aes.SecureHdr) = aes.SrcAddr /\ aes.Size > 0
         /\ aes.SrcAddr + aes.Size = ChunkFrom + ChunkLen
         /\ ChunkFrom \in Nat /\ ChunkLen \in 1..ChunkSize /\ ChunkFrom + ChunkLen <= bit.len
         /\ aes.SrcAddr = ChunkFrom \/ aes.SizeofData > 0
<1>1. /\ PlTypes /\ InBlock /\ InHash /\ InPlace /\ InLayout /\ Right(sent) /\ plStage \in Working
      /\ plStage # "Idle"
  BY DEF PlInv, Working
<1>2. Layout /\ Position = Len(sent) + Len(aes.SecureHdr)
  BY <1>1 DEF InLayout, Position
<1>3. /\ hash \in [upto : Nat, met : SUBSET Nat] /\ hash.upto <= bit.len /\ hash.met = {}
  BY <1>1 DEF PlTypes, InHash
<1>4. hash \in [upto : Nat, met : {{}}]
  BY <1>3
<1>5. /\ Encrypted /\ Position = aes.SrcAddr /\ aes.Size > 0
      /\ aes.SrcAddr + aes.Size = ChunkFrom + ChunkLen
      /\ aes.SrcAddr = ChunkFrom \/ aes.SizeofData > 0
  BY <1>1 DEF InPlace
<1>6. /\ aes \in [SizeofData : Nat, NextBlkLen : Nat, SecureHdr : Seq(Unit), SrcAddr : Nat, Size : Nat]
      /\ Len(aes.SecureHdr) < HdrSize /\ aes.SizeofData <= bit.len /\ aes.Size <= ChunkSize
  BY <1>1 DEF PlTypes
<1>7. /\ ChunkFrom \in Nat /\ ChunkLen \in 1..ChunkSize /\ ChunkFrom + ChunkLen <= bit.len
      /\ bit.len \in Nat
  BY <1>1, ChunkFacts, BitFacts
<1>8. sent \in Seq(Unit) /\ Len(sent) \in Nat /\ Len(aes.SecureHdr) \in Nat
  BY <1>1, <1>6 DEF Right
<1> QED
  BY <1>1, <1>2, <1>3, <1>4, <1>5, <1>6, <1>7, <1>8, PlConstants

\* A chunk that begins with a header, or with the rest of one, has all of it.
LEMMA EnoughForHeader ==
  ASSUME PlInv, plStage = "Decrypt", aes.SizeofData = 0, NEW i \in Headers, NEW c \in Nat,
         HdrAt(bit.aes)[i] + c = aes.SrcAddr
  PROVE  HdrSize - c <= aes.Size
<1>1. /\ PlTypes /\ InBlock /\ plStage \in Working /\ plStage # "Idle" /\ Encrypted
      /\ aes.SrcAddr \in Nat /\ aes.Size \in Nat /\ ChunkFrom \in Nat /\ ChunkLen \in 1..ChunkSize
      /\ aes.SrcAddr + aes.Size = ChunkFrom + ChunkLen /\ aes.SrcAddr = ChunkFrom
      /\ bit.len \in Nat /\ HdrSize \in Nat /\ ChunkSize \in Nat
  BY DecryptFacts
<1>2. HdrAt(bit.aes)[i] \in Nat /\ HdrAt(bit.aes)[i] + HdrSize <= bit.len
  BY <1>1, LayoutFacts
<1>3. ChunkLen >= HdrSize \/ ChunkFrom + ChunkLen = bit.len
  BY <1>1, ChunkFacts
<1> QED
  BY <1>1, <1>2, <1>3

\* After a header come its data, or the end.
LEMMA AfterHeader ==
  ASSUME PlInv, plStage = "Decrypt", hash' = hash, plState' = "loading",
         UNCHANGED <<bit, changed, HashsOfChunks, disturbed>>,
         NEW d, Right(sent \o d), NEW i \in Headers, Len(sent \o d) = HdrAt(bit.aes)[i],
         NEW src \in Nat, NEW rest \in Nat, src = HdrAt(bit.aes)[i] + HdrSize,
         src + rest = ChunkFrom + ChunkLen, rest <= ChunkSize,
         DecryptHeader(d, HeaderUnits(i), src, rest)
  PROVE  PlInv'
<1>1. /\ PlTypes /\ plStage # "Idle" /\ Encrypted /\ hash \in [upto : Nat, met : {{}}]
      /\ hash.upto <= bit.len /\ bit.len \in Nat /\ HdrSize \in Nat /\ HdrSize > 0
      /\ ChunkFrom + ChunkLen <= bit.len
  BY DecryptFacts
<1>2. /\ sent' = sent \o d \o HeaderUnits(i)
      /\ aes' = [SizeofData |-> Told(i), NextBlkLen |-> Told(i), SecureHdr |-> <<>>,
                 SrcAddr |-> src, Size |-> rest]
      /\ rest # 0 /\ Told(i) # 0 => UNCHANGED <<plStage, block, chunk>>
      /\ ~(rest # 0 /\ Told(i) # 0) => ChunkDone
  BY <1>1, OnlyHeaderRead
<1>3. Right(sent') /\ Len(sent') = src
  BY <1>1, <1>2, HeaderRight
<1>f. /\ Len(bit.aes) \in Nat /\ bit.len = HdrAt(bit.aes)[Len(bit.aes) + 1] + HdrSize
      /\ \A j \in 1..Len(bit.aes) :
           /\ bit.aes[j] \in Nat \ {0}
           /\ HdrAt(bit.aes)[j + 1] = HdrAt(bit.aes)[j] + HdrSize + bit.aes[j]
      /\ \A j \in Headers : HdrAt(bit.aes)[j] \in Nat /\ HdrAt(bit.aes)[j] + HdrSize <= bit.len
  BY <1>1, LayoutFacts
<1>4. /\ i \in 1..Len(bit.aes) => /\ bit.aes[i] \in Nat \ {0}
                                  /\ HdrAt(bit.aes)[i + 1] = src + bit.aes[i]
                                  /\ i + 1 \in Headers
      /\ i \in 1..Len(bit.aes)+1
  <2>1. i \in 1..Len(bit.aes)+1
    BY DEF Headers
  <2>2. ASSUME i \in 1..Len(bit.aes)
        PROVE  i + 1 \in Headers
    BY <1>f, <2>2 DEF Headers
  <2>3. ASSUME i \in 1..Len(bit.aes)
        PROVE  HdrAt(bit.aes)[i + 1] = src + bit.aes[i]
    <3>1. HdrAt(bit.aes)[i + 1] = HdrAt(bit.aes)[i] + HdrSize + bit.aes[i]
      BY <1>f, <2>3
    <3> QED
      BY <3>1
  <2> QED
    BY <1>f, <2>1, <2>2, <2>3
<1>5. /\ Told(i) \in Nat /\ Told(i) <= bit.len
      /\ Told(i) # 0 => i \in 1..Len(bit.aes) /\ src + Told(i) = HdrAt(bit.aes)[i + 1]
      /\ Told(i) = 0 => src = bit.len
  <2>1. CASE i \in 1..Len(bit.aes)
    <3>1. Told(i) = bit.aes[i] /\ Told(i) \in Nat /\ Told(i) # 0
      BY <1>f, <1>4, <2>1 DEF Told
    <3>2. HdrAt(bit.aes)[i + 1] + HdrSize <= bit.len /\ HdrAt(bit.aes)[i + 1] \in Nat
      BY <1>f, <1>4, <2>1
    <3>3. src + Told(i) = HdrAt(bit.aes)[i + 1]
      BY <1>4, <2>1, <3>1
    <3>4. bit.len \in Nat /\ HdrSize \in Nat
      BY <1>1
    <3>5. HdrAt(bit.aes)[i + 1] <= bit.len
      BY <3>2, <3>4
    <3>6. Told(i) <= HdrAt(bit.aes)[i + 1]
      BY <3>1, <3>2, <3>3
    <3>7. Told(i) <= bit.len
      BY <3>1, <3>2, <3>4, <3>5, <3>6
    <3> QED
      BY <2>1, <3>1, <3>3, <3>7
  <2>2. CASE i = Len(bit.aes) + 1
    <3>1. Told(i) = 0
      BY <1>f, <2>2 DEF Told
    <3> QED
      BY <1>1, <1>f, <2>2, <3>1
  <2> QED
    BY <1>f, <1>4, <2>1, <2>2
<1>6. /\ aes'.SizeofData = Told(i) /\ aes'.NextBlkLen = Told(i) /\ aes'.SecureHdr = <<>>
      /\ aes'.SrcAddr = src /\ aes'.Size = rest /\ Len(aes'.SecureHdr) = 0
  BY <1>2
<1>7. aes' \in [SizeofData : Nat, NextBlkLen : Nat, SecureHdr : Seq(Unit), SrcAddr : Nat, Size : Nat]
  <2>1. <<>> \in Seq(Unit)
    OBVIOUS
  <2> QED
    BY <1>2, <1>5, <2>1
<1>8. Position' = src
  BY <1>3, <1>6 DEF Position
<1>9. Layout'
  <2>0. bit' = bit /\ Encrypted'
    BY <1>1 DEF Encrypted
  <2>1. CASE Told(i) # 0
    <3>1. InData(i)'
      BY <1>5, <1>6, <1>8, <2>0, <2>1 DEF InData
    <3> QED
      BY <1>5, <2>0, <2>1, <3>1 DEF Layout
  <2>2. CASE Told(i) = 0
    <3>1. AtEnd'
      BY <1>5, <1>6, <1>8, <2>0, <2>2 DEF AtEnd
    <3> QED
      BY <2>0, <3>1 DEF Layout
  <2> QED
    BY <2>1, <2>2
<1>10. CASE rest # 0 /\ Told(i) # 0
  <2>1. plStage' = "Decrypt" /\ UNCHANGED <<block, chunk>> /\ aes'.Size > 0 /\ aes'.SizeofData > 0
    BY <1>2, <1>5, <1>6, <1>10
  <2> QED
    BY <1>1, <1>3, <1>5, <1>6, <1>7, <1>8, <1>9, <2>1, PieceSent
<1>11. CASE ~(rest # 0 /\ Told(i) # 0)
  <2>1. ChunkDone
    BY <1>2, <1>11
  <2>2. Position' = ChunkFrom + ChunkLen
    BY <1>1, <1>5, <1>8, <1>11
  <2> QED
    BY <1>1, <1>3, <1>5, <1>6, <1>7, <1>9, <2>1, <2>2, PieceSent
<1> QED
  BY <1>10, <1>11

\* A header read in two parts.
LEMMA CleanConcat ==
  ASSUME NEW use \in {"data", "header"}, NEW from \in Nat, NEW m \in Nat, NEW n \in Nat
  PROVE  Clean(use, from, m) \o Clean(use, from + m, n) = Clean(use, from, m + n)
<1> DEFINE a == Clean(use, from, m)
           b == Clean(use, from + m, n)
           c == Clean(use, from, m + n)
<1>1. /\ a \in Seq(Unit) /\ Len(a) = m /\ b \in Seq(Unit) /\ Len(b) = n
      /\ c \in Seq(Unit) /\ Len(c) = m + n
  BY CleanFacts
<1>2. /\ \A k \in 1..m : a[k] = <<use, from + k - 1, FALSE>>
      /\ \A k \in 1..n : b[k] = <<use, from + m + k - 1, FALSE>>
      /\ \A k \in 1..m+n : c[k] = <<use, from + k - 1, FALSE>>
  BY DEF Clean
<1> HIDE DEF a, b, c
<1>3. a \o b \in Seq(Unit) /\ Len(a \o b) = m + n
  BY <1>1
<1>4. ASSUME NEW k \in 1..m+n
      PROVE  (a \o b)[k] = c[k]
  <2>1. CASE k <= m
    <3>1. k \in 1..m /\ (a \o b)[k] = a[k]
      BY <1>1, <2>1
    <3> QED
      BY <1>2, <3>1
  <2>2. CASE k > m
    <3>1. k - m \in 1..n /\ (a \o b)[k] = b[k - m]
      BY <1>1, <2>2
    <3>2. from + m + (k - m) - 1 = from + k - 1
      OBVIOUS
    <3> QED
      BY <1>2, <3>1, <3>2
  <2>3. k <= m \/ k > m
    OBVIOUS
  <2> QED
    BY <2>1, <2>2, <2>3, Zenon
<1>5. a \o b = c
  <2>1. \A s \in Seq(Unit) : Len(s) = m + n => s = [k \in 1..m+n |-> s[k]]
    OBVIOUS
  <2>2. a \o b = [k \in 1..m+n |-> (a \o b)[k]] /\ c = [k \in 1..m+n |-> c[k]]
    BY <1>1, <1>3, <2>1
  <2>3. [k \in 1..m+n |-> (a \o b)[k]] = [k \in 1..m+n |-> c[k]]
    BY <1>4
  <2> QED
    BY <2>2, <2>3
<1> QED
  BY <1>5 DEF a, b, c

\* The first chunk begins with the first header.
LEMMA FirstHeaderKeeps ==
  ASSUME PlInv, Decrypt, FirstHeader
  PROVE  PlInv'
<1>0. /\ plStage = "Decrypt" /\ hash' = hash /\ plState' = "loading"
      /\ UNCHANGED <<bit, changed, HashsOfChunks, disturbed>>
  BY DEF Decrypt
<1>1. /\ PlTypes /\ plStage # "Idle" /\ Encrypted /\ Right(sent) /\ Layout /\ hash.met = {}
      /\ sent \in Seq(Unit) /\ Len(sent) \in Nat
      /\ aes.SrcAddr \in Nat /\ aes.Size \in Nat /\ aes.Size <= ChunkSize /\ aes.Size > 0
      /\ Len(sent) + Len(aes.SecureHdr) = aes.SrcAddr
      /\ aes.SrcAddr + aes.Size = ChunkFrom + ChunkLen /\ ChunkFrom + ChunkLen <= bit.len
      /\ bit.len \in Nat /\ HdrSize \in Nat /\ HdrSize > 0 /\ ChunkSize \in Nat
  BY <1>0, DecryptFacts
<1>2. /\ aes.NextBlkLen = 0
      /\ DecryptHeader(<<>>, Units("header", aes.SrcAddr, HdrSize), aes.SrcAddr + HdrSize,
                       aes.Size - HdrSize)
  BY DEF FirstHeader
<1>3. AtStart
  <2>1. ~AtEnd
    BY <1>1 DEF AtEnd, Position
  <2>2. \A j : ~InData(j) /\ ~InHeader(j)
    BY <1>2 DEF InData, InHeader
  <2> QED
    BY <1>1, <2>1, <2>2 DEF Layout
<1>4. aes.SizeofData = 0 /\ aes.SecureHdr = <<>> /\ Len(sent) = 0 /\ aes.SrcAddr = 0
  <2>1. aes.SizeofData = 0 /\ aes.SecureHdr = <<>> /\ Position = 0
    BY <1>3 DEF AtStart
  <2>2. Len(aes.SecureHdr) = 0
    BY <2>1
  <2> QED
    BY <1>1, <2>1, <2>2 DEF Position
<1>5. 1 \in Headers /\ HdrAt(bit.aes)[1] = 0
  BY <1>1, LayoutFacts DEF Headers
<1>6. HdrSize <= aes.Size
  BY <1>0, <1>1, <1>4, <1>5, EnoughForHeader
<1>7. sent \o <<>> = sent
  BY <1>1
<1>8. Units("header", aes.SrcAddr, HdrSize) = HeaderUnits(1)
  <2>1. hash'.met = {}
    BY <1>0, <1>1
  <2>2. Units("header", aes.SrcAddr, HdrSize) = Clean("header", aes.SrcAddr, HdrSize)
    BY <2>1, UnitsClean
  <2> QED
    BY <1>1, <1>4, <1>5, <2>2, HeaderRight
<1>9. /\ aes.SrcAddr + HdrSize \in Nat /\ aes.Size - HdrSize \in Nat
      /\ aes.SrcAddr + HdrSize = HdrAt(bit.aes)[1] + HdrSize
      /\ aes.SrcAddr + HdrSize + (aes.Size - HdrSize) = ChunkFrom + ChunkLen
      /\ aes.Size - HdrSize <= ChunkSize
  BY <1>1, <1>4, <1>5, <1>6
<1>10. Right(sent \o <<>>) /\ Len(sent \o <<>>) = HdrAt(bit.aes)[1]
  BY <1>1, <1>4, <1>5, <1>7
<1>11. DecryptHeader(<<>>, HeaderUnits(1), aes.SrcAddr + HdrSize, aes.Size - HdrSize)
  BY <1>2, <1>8
<1> QED
  BY <1>0, <1>5, <1>9, <1>10, <1>11, AfterHeader

\* The rest of a header that the end of a chunk has cut.
LEMMA RestOfHeaderKeeps ==
  ASSUME PlInv, Decrypt, RestOfHeader
  PROVE  PlInv'
<1> DEFINE c == Len(aes.SecureHdr)
           n == HdrSize - c
<1>0. /\ plStage = "Decrypt" /\ hash' = hash /\ plState' = "loading"
      /\ UNCHANGED <<bit, changed, HashsOfChunks, disturbed>>
  BY DEF Decrypt
<1>1. /\ PlTypes /\ plStage # "Idle" /\ Encrypted /\ Right(sent) /\ Layout /\ hash.met = {}
      /\ sent \in Seq(Unit) /\ Len(sent) \in Nat
      /\ aes.SecureHdr \in Seq(Unit) /\ c \in Nat /\ c < HdrSize
      /\ aes.SrcAddr \in Nat /\ aes.Size \in Nat /\ aes.Size <= ChunkSize
      /\ Len(sent) + c = aes.SrcAddr
      /\ aes.SrcAddr + aes.Size = ChunkFrom + ChunkLen
      /\ bit.len \in Nat /\ HdrSize \in Nat /\ HdrSize > 0 /\ ChunkSize \in Nat
  BY <1>0, DecryptFacts
<1>2. /\ aes.NextBlkLen # 0 /\ aes.SecureHdr # <<>>
      /\ DecryptHeader(<<>>, aes.SecureHdr \o Units("header", aes.SrcAddr, n), aes.SrcAddr + n,
                       aes.Size - n)
  BY DEF RestOfHeader
<1>3. PICK j \in 1..Len(bit.aes) : InHeader(j)
  BY <1>1, <1>2 DEF Layout, AtStart, AtEnd, InData
<1>4. /\ aes.SizeofData = 0 /\ Len(sent) = HdrAt(bit.aes)[j + 1]
      /\ aes.SecureHdr = Clean("header", HdrAt(bit.aes)[j + 1], c)
  BY <1>3 DEF InHeader, Clean
<1>5. j + 1 \in Headers
  BY <1>1, LayoutFacts DEF Headers
<1> HIDE DEF c, n
<1>6. n \in Nat /\ c + n = HdrSize
  BY <1>1 DEF n
<1>7. n <= aes.Size
  <2>1. HdrAt(bit.aes)[j + 1] + c = aes.SrcAddr
    BY <1>1, <1>4
  <2> QED
    BY <1>0, <1>1, <1>4, <1>5, <2>1, EnoughForHeader DEF n
<1>8. aes.SecureHdr \o Units("header", aes.SrcAddr, n) = HeaderUnits(j + 1)
  <2>1. hash'.met = {}
    BY <1>0, <1>1
  <2>2. Units("header", aes.SrcAddr, n) = Clean("header", Len(sent) + c, n)
    BY <1>1, <2>1, UnitsClean
  <2>3. Clean("header", Len(sent), c) \o Clean("header", Len(sent) + c, n) = Clean("header", Len(sent), c + n)
    <3>1. Len(sent) \in Nat /\ c \in Nat /\ n \in Nat /\ "header" \in {"data", "header"}
      BY <1>1, <1>6
    <3> QED
      BY <3>1, CleanConcat, Zenon
  <2>4. HeaderUnits(j + 1) = Clean("header", Len(sent), HdrSize)
    BY <1>1, <1>4, <1>5, HeaderRight
  <2> QED
    BY <1>4, <1>6, <2>2, <2>3, <2>4
<1>9. /\ aes.SrcAddr + n \in Nat /\ aes.Size - n \in Nat
      /\ aes.SrcAddr + n = HdrAt(bit.aes)[j + 1] + HdrSize
      /\ aes.SrcAddr + n + (aes.Size - n) = ChunkFrom + ChunkLen
      /\ aes.Size - n <= ChunkSize
  <2>1. aes.SrcAddr + n = Len(sent) + HdrSize
    <3>1. \A x, y, z \in Nat : x + y + z = x + (y + z)
      OBVIOUS
    <3>2. Len(sent) \in Nat /\ c \in Nat /\ n \in Nat /\ Len(sent) + c = aes.SrcAddr /\ c + n = HdrSize
      BY <1>1, <1>6
    <3> QED
      BY <3>1, <3>2
  <2>2. aes.SrcAddr + n \in Nat /\ aes.Size - n \in Nat /\ aes.Size - n <= ChunkSize
    <3>1. \A x, y, z \in Nat : x <= y /\ y <= z => y - x \in Nat /\ y - x <= z
      OBVIOUS
    <3>2. aes.Size \in Nat /\ aes.SrcAddr \in Nat /\ ChunkSize \in Nat /\ aes.Size <= ChunkSize
      BY <1>1
    <3>3. aes.SrcAddr + n \in Nat
      BY <1>6, <3>2
    <3> QED
      BY <1>6, <1>7, <3>1, <3>2, <3>3
  <2>3. aes.SrcAddr + n + (aes.Size - n) = aes.SrcAddr + aes.Size
    BY <1>1, <1>6
  <2> QED
    BY <1>1, <1>4, <2>1, <2>2, <2>3
<1>10. Right(sent \o <<>>) /\ Len(sent \o <<>>) = HdrAt(bit.aes)[j + 1]
  <2>1. sent \o <<>> = sent
    BY <1>1
  <2> QED
    BY <1>1, <1>4, <2>1
<1>11. DecryptHeader(<<>>, HeaderUnits(j + 1), aes.SrcAddr + n, aes.Size - n)
  BY <1>2, <1>8
<1> QED
  BY <1>0, <1>5, <1>9, <1>10, <1>11, AfterHeader

\* Data, and a header after them if the chunk has any of it.
LEMMA DecryptDataKeeps ==
  ASSUME PlInv, Decrypt, DecryptData
  PROVE  PlInv'
<1> DEFINE D == aes.SizeofData
           R == aes.Size - aes.SizeofData
           next == aes.SrcAddr + aes.SizeofData
<1>0. /\ plStage = "Decrypt" /\ hash' = hash /\ plState' = "loading"
      /\ UNCHANGED <<bit, changed, HashsOfChunks, disturbed>>
  BY DEF Decrypt
<1>1. /\ PlTypes /\ plStage # "Idle" /\ Encrypted /\ Right(sent) /\ Layout /\ hash.met = {}
      /\ hash \in [upto : Nat, met : {{}}] /\ hash.upto <= bit.len
      /\ sent \in Seq(Unit) /\ Len(sent) \in Nat
      /\ aes \in [SizeofData : Nat, NextBlkLen : Nat, SecureHdr : Seq(Unit), SrcAddr : Nat, Size : Nat]
      /\ D \in Nat /\ aes.SrcAddr \in Nat /\ aes.Size \in Nat /\ aes.Size <= ChunkSize /\ aes.Size > 0
      /\ D <= bit.len /\ Len(sent) + Len(aes.SecureHdr) = aes.SrcAddr
      /\ aes.SrcAddr + aes.Size = ChunkFrom + ChunkLen
      /\ bit.len \in Nat /\ HdrSize \in Nat /\ HdrSize > 0 /\ ChunkSize \in Nat /\ ChunkSize > HdrSize
  BY <1>0, DecryptFacts
<1>2. aes.NextBlkLen # 0 /\ aes.SecureHdr = <<>> /\ Len(aes.SecureHdr) = 0
  BY DEF DecryptData
<1>3. PICK j \in 1..Len(bit.aes) : InData(j)
  BY <1>1, <1>2 DEF Layout, AtStart, AtEnd, InHeader
<1>4. /\ Len(sent) = aes.SrcAddr /\ Position = aes.SrcAddr
      /\ HdrAt(bit.aes)[j] + HdrSize <= aes.SrcAddr /\ next = HdrAt(bit.aes)[j + 1]
  BY <1>1, <1>2, <1>3 DEF InData, Position
<1>5. j + 1 \in Headers /\ j \in Headers /\ HdrAt(bit.aes)[j] \in Nat /\ HdrAt(bit.aes)[j + 1] \in Nat
  <2>1. Len(bit.aes) \in Nat /\ \A k \in Headers : HdrAt(bit.aes)[k] \in Nat
    BY <1>1, LayoutFacts
  <2>2. j + 1 \in Headers /\ j \in Headers
    BY <2>1 DEF Headers
  <2> QED
    BY <2>1, <2>2
<1>a. /\ Len(sent) \in Nat /\ aes.SrcAddr \in Nat /\ aes.Size \in Nat /\ D \in Nat
      /\ HdrSize \in Nat /\ HdrSize > 0 /\ ChunkSize \in Nat /\ ChunkSize > HdrSize
      /\ aes.Size <= ChunkSize /\ aes.Size > 0 /\ Len(sent) = aes.SrcAddr
      /\ HdrAt(bit.aes)[j] \in Nat /\ HdrAt(bit.aes)[j + 1] \in Nat
      /\ HdrAt(bit.aes)[j] + HdrSize <= aes.SrcAddr
      /\ aes.SrcAddr + D = HdrAt(bit.aes)[j + 1]
      /\ aes.SrcAddr + aes.Size = ChunkFrom + ChunkLen
  BY <1>1, <1>4, <1>5
<1>u. \A use, from, m : Units(use, from, m) = Clean(use, from, m)
  <2>1. hash'.met = {}
    BY <1>0, <1>1
  <2> QED
    BY <2>1, UnitsClean
<1>s. /\ bit' = bit /\ hash' \in [upto : Nat, met : {{}}] /\ hash'.upto <= bit.len /\ Encrypted'
      /\ plStage \in {"Again", "Decrypt"} /\ plState' \in {"reset", "loading", "done"}
  BY <1>0, <1>1 DEF Encrypted
<1>6. CASE aes.Size <= D
  <2>1. /\ sent' = sent \o Clean("data", aes.SrcAddr, aes.Size)
        /\ aes' = [aes EXCEPT !.SizeofData = D - aes.Size, !.Size = 0] /\ ChunkDone
    <3>1. ~(aes.Size > D)
      BY <1>a, <1>6
    <3> QED
      BY <1>u, <3>1 DEF DecryptData
  <2>2. Right(sent') /\ Len(sent') = aes.SrcAddr + aes.Size
    <3>1. /\ HdrAt(bit.aes)[j] + HdrSize <= Len(sent)
          /\ Len(sent) + aes.Size <= HdrAt(bit.aes)[j + 1]
      BY <1>1, <1>4, <1>5, <1>6
    <3> QED
      BY <1>1, <1>4, <2>1, <3>1, DataRight
  <2>3. D - aes.Size \in Nat /\ D - aes.Size <= bit.len
    <3>1. D \in Nat /\ aes.Size \in Nat /\ bit.len \in Nat /\ D <= bit.len
      BY <1>1
    <3> HIDE DEF D
    <3> QED
      BY <1>6, <3>1
  <2>4. /\ aes' \in [SizeofData : Nat, NextBlkLen : Nat, SecureHdr : Seq(Unit), SrcAddr : Nat, Size : Nat]
        /\ aes'.SizeofData = D - aes.Size /\ aes'.Size = 0 /\ aes'.SecureHdr = <<>>
        /\ aes'.NextBlkLen # 0 /\ Len(aes'.SecureHdr) = 0
    <3>1. \A x \in Nat : [aes EXCEPT !.SizeofData = x, !.Size = 0]
            \in [SizeofData : Nat, NextBlkLen : Nat, SecureHdr : Seq(Unit), SrcAddr : Nat, Size : Nat]
      BY <1>1
    <3>2. aes' \in [SizeofData : Nat, NextBlkLen : Nat, SecureHdr : Seq(Unit), SrcAddr : Nat, Size : Nat]
      BY <2>1, <2>3, <3>1
    <3>3. aes \in [SizeofData : Nat, NextBlkLen : Nat, SecureHdr : Seq(Unit), SrcAddr : Nat, Size : Nat]
      BY <1>1
    <3>4. /\ aes'.SizeofData = D - aes.Size /\ aes'.Size = 0
          /\ aes'.SecureHdr = aes.SecureHdr /\ aes'.NextBlkLen = aes.NextBlkLen
      BY <2>1, <3>3
    <3> QED
      BY <1>2, <3>2, <3>4
  <2>5. Position' = aes.SrcAddr + aes.Size
    BY <1>1, <2>2, <2>4 DEF Position
  <2>6. InData(j)'
    <3>1. Position' + aes'.SizeofData = HdrAt(bit.aes)[j + 1]
      BY <1>1, <1>4, <2>3, <2>4, <2>5
    <3>2. HdrAt(bit.aes)[j] + HdrSize <= Position'
      BY <1>a, <2>5
    <3> QED
      BY <1>s, <2>4, <3>1, <3>2 DEF InData
  <2>7. Layout'
    BY <1>s, <2>6 DEF Layout
  <2>8. /\ aes'.SizeofData <= bit.len /\ aes'.Size <= ChunkSize /\ Len(aes'.SecureHdr) < HdrSize
        /\ Position' = ChunkFrom + ChunkLen
    BY <1>1, <2>3, <2>4, <2>5
  <2> QED
    BY <1>0, <1>s, <2>1, <2>2, <2>4, <2>7, <2>8, PieceSent
<1>d. ASSUME aes.Size > D
      PROVE  /\ Right(sent \o Clean("data", aes.SrcAddr, D))
             /\ Len(sent \o Clean("data", aes.SrcAddr, D)) = next
             /\ next \in Nat /\ R \in Nat /\ R > 0 /\ R <= aes.Size /\ next + R = ChunkFrom + ChunkLen
  <2>1. /\ HdrAt(bit.aes)[j] + HdrSize <= Len(sent)
        /\ Len(sent) + D <= HdrAt(bit.aes)[j + 1]
    BY <1>1, <1>4, <1>5
  <2>2. /\ Right(sent \o Clean("data", Len(sent), D))
        /\ Len(sent \o Clean("data", Len(sent), D)) = Len(sent) + D
    BY <1>1, <2>1, DataRight
  <2>3. Len(sent) + D = next /\ Len(sent) = aes.SrcAddr
    BY <1>a
  <2>4. next \in Nat /\ R \in Nat /\ R > 0 /\ R <= aes.Size /\ next + R = ChunkFrom + ChunkLen
    <3>1. aes.SrcAddr \in Nat /\ aes.Size \in Nat /\ D \in Nat
      BY <1>a
    <3>2. next \in Nat
      BY <3>1
    <3>3. R \in Nat /\ R > 0 /\ R <= aes.Size
      BY <1>d, <3>1
    <3>4. next + R = aes.SrcAddr + aes.Size
      BY <3>1
    <3> QED
      BY <1>a, <3>2, <3>3, <3>4
  <2> QED
    BY <2>2, <2>3, <2>4
<1>7. CASE aes.Size > D /\ D # 0 /\ IsSplit(R)
  <2> DEFINE part == Clean("header", next, R)
  <2>1. /\ sent' = sent \o Clean("data", aes.SrcAddr, D)
        /\ aes' = [aes EXCEPT !.SizeofData = 0, !.Size = 0, !.SecureHdr = part] /\ ChunkDone
    <3>1. ~(aes.Size <= D) /\ ~(D = 0 \/ ~IsSplit(R))
      BY <1>1, <1>7
    <3> QED
      BY <1>u, <3>1 DEF DecryptData
  <2>2. Right(sent') /\ Len(sent') = next /\ next \in Nat /\ R \in Nat /\ R > 0
        /\ next + R = ChunkFrom + ChunkLen
    BY <1>7, <1>d, <2>1
  <2>3. part \in Seq(Unit) /\ Len(part) = R
    BY <2>2, CleanFacts
  <2>4. R < HdrSize
    BY <1>7 DEF IsSplit
  <2> HIDE DEF part
  <2>5. /\ aes' \in [SizeofData : Nat, NextBlkLen : Nat, SecureHdr : Seq(Unit), SrcAddr : Nat, Size : Nat]
        /\ aes'.SizeofData = 0 /\ aes'.Size = 0 /\ aes'.SecureHdr = part /\ aes'.NextBlkLen # 0
    BY <1>1, <1>2, <2>1, <2>3
  <2>6. Position' = ChunkFrom + ChunkLen
    BY <2>2, <2>3, <2>5 DEF Position
  <2>7. InHeader(j)'
    <3>1. part # <<>>
      BY <2>2, <2>3
    <3>2. part = [k \in 1..Len(part) |-> <<"header", HdrAt(bit.aes)[j + 1] + k - 1, FALSE>>]
      BY <1>4, <2>3 DEF part, Clean
    <3>3. Len(sent') = HdrAt(bit.aes)[j + 1]
      BY <1>4, <2>2
    <3> QED
      BY <1>s, <2>5, <3>1, <3>2, <3>3 DEF InHeader
  <2>8. Layout'
    BY <1>s, <2>7 DEF Layout
  <2>9. aes'.SizeofData <= bit.len /\ aes'.Size <= ChunkSize /\ Len(aes'.SecureHdr) < HdrSize
    BY <1>1, <2>3, <2>4, <2>5
  <2> QED
    BY <1>0, <1>s, <2>1, <2>2, <2>5, <2>6, <2>8, <2>9, PieceSent
<1>8. CASE aes.Size > D /\ (D = 0 \/ ~IsSplit(R))
  <2> DEFINE d == Clean("data", aes.SrcAddr, D)
  <2>1. DecryptHeader(d, Units("header", next, HdrSize), next + HdrSize, R - HdrSize)
    <3>1. ~(aes.Size <= D) /\ ~(D # 0 /\ IsSplit(R))
      BY <1>1, <1>8
    <3>2. Units("data", aes.SrcAddr, aes.SizeofData) = d
      BY <1>u
    <3> QED
      BY <3>1, <3>2 DEF DecryptData
  <2>2. /\ Right(sent \o d) /\ Len(sent \o d) = next /\ next \in Nat /\ R \in Nat /\ R <= aes.Size
        /\ next + R = ChunkFrom + ChunkLen
    BY <1>8, <1>d
  <2>3. Units("header", next, HdrSize) = HeaderUnits(j + 1)
    BY <1>1, <1>4, <1>5, <1>u, <2>2, HeaderRight
  <2>4. R >= HdrSize
    <3>1. CASE D = 0
      <4>1. R = aes.Size /\ HdrAt(bit.aes)[j + 1] + 0 = aes.SrcAddr
        BY <1>a, <3>1
      <4>2. HdrSize - 0 <= aes.Size
        BY <1>0, <1>5, <3>1, <4>1, EnoughForHeader
      <4>3. HdrSize \in Nat /\ aes.Size \in Nat
        BY <1>a
      <4> QED
        BY <4>1, <4>2, <4>3
    <3>2. CASE ~IsSplit(R)
      BY <1>1, <2>2, <3>2 DEF IsSplit
    <3> QED
      BY <1>8, <3>1, <3>2
  <2>5. /\ next + HdrSize \in Nat /\ R - HdrSize \in Nat
        /\ next + HdrSize = HdrAt(bit.aes)[j + 1] + HdrSize
        /\ R - HdrSize <= ChunkSize
    <3> HIDE DEF R, next, d
    <3>1. R - HdrSize \in Nat /\ R - HdrSize <= ChunkSize
      BY <1>a, <2>2, <2>4
    <3>2. next + HdrSize \in Nat
      BY <1>a, <2>2
    <3> QED
      BY <1>4, <3>1, <3>2
  <2>6. next + HdrSize + (R - HdrSize) = ChunkFrom + ChunkLen
    <3> HIDE DEF R, next
    <3>1. next + HdrSize + (R - HdrSize) = next + R
      BY <1>1, <2>2
    <3> QED
      BY <2>2, <3>1
  <2>7. DecryptHeader(d, HeaderUnits(j + 1), next + HdrSize, R - HdrSize)
    BY <2>1, <2>3
  <2>8. Len(sent \o d) = HdrAt(bit.aes)[j + 1]
    BY <1>4, <2>2
  <2> HIDE DEF d, R, next
  <2> QED
    BY <1>0, <1>5, <2>2, <2>5, <2>6, <2>7, <2>8, AfterHeader
<1> QED
  BY <1>1, <1>6, <1>7, <1>8

\* XFsbl_DecrptPlChunks is one of these.
LEMMA DecryptKeeps ==
  ASSUME PlInv, Decrypt
  PROVE  PlInv'
BY FirstHeaderKeeps, RestOfHeaderKeeps, DecryptDataKeeps DEF Decrypt

\* The beginning: nothing has been sent.
LEMMA PlStartKeeps ==
  ASSUME PlInv, PlStart
  PROVE  PlInv'
<1>1. /\ plStage = "Idle" /\ plStage' = "Block" /\ bit' \in Bitstreams /\ block' = FirstBlock(bit')
      /\ changed' \in {{}} \cup {{o} : o \in 0..bit'.len-1}
      /\ disturbed' = (changed' # {})
      /\ UNCHANGED <<chunk, hash, HashsOfChunks, aes, sent, plState>>
  BY DEF PlStart, hashVars, outVars
<1>2. PlTypes /\ sent = <<>> /\ aes = NoAes /\ hash = NoHash
  BY <1>1 DEF PlInv
<1>3. /\ bit'.len \in Nat /\ bit'.len > 0 /\ bit'.BlockSize \in Nat /\ bit'.BlockSize > 0
      /\ bit'.aes \in Seq(Nat \ {0})
      /\ ChunkSize \in Nat /\ ChunkSize > 0 /\ HdrSize \in Nat /\ HdrSize > 0
  BY <1>1, PlConstants
<1>4. /\ block'.SrcAddress = 0 /\ block'.Index = 1 /\ block'.Len = bit'.BlockSize
      /\ block'.IsLastBlock = FALSE
      /\ block' \in [SrcAddress : Nat, Index : Nat \ {0}, Len : Nat \ {0}, IsLastBlock : BOOLEAN]
  BY <1>1, <1>3 DEF FirstBlock
<1>5. changed' \subseteq 0..bit'.len-1 /\ disturbed' \in BOOLEAN /\ (~disturbed' => changed' = {})
  BY <1>1
<1>6. /\ aes' = NoAes /\ aes'.SizeofData = 0 /\ aes'.Size = 0 /\ aes'.NextBlkLen = 0
      /\ aes'.SecureHdr = <<>> /\ Len(aes'.SecureHdr) = 0
      /\ sent' = <<>> /\ Len(sent') = 0 /\ hash' = NoHash /\ hash'.upto = 0
  BY <1>1, <1>2 DEF NoAes, NoHash
<1>7. PlTypes'
  <2>1. /\ aes' \in [SizeofData : Nat, NextBlkLen : Nat, SecureHdr : Seq(Unit), SrcAddr : Nat, Size : Nat]
        /\ hash' \in [upto : Nat, met : SUBSET Nat] /\ chunk' \in 0..NoOfHashs
        /\ plState' \in {"reset", "loading", "done"}
    BY <1>1, <1>2 DEF PlTypes
  <2>2. /\ block'.SrcAddress <= bit'.len /\ block'.Len <= bit'.BlockSize /\ hash'.upto <= bit'.len
        /\ aes'.SizeofData <= bit'.len /\ aes'.Size <= ChunkSize /\ Len(aes'.SecureHdr) < HdrSize
    BY <1>3, <1>4, <1>6
  <2> QED
    BY <1>1, <1>4, <1>5, <2>1, <2>2 DEF PlTypes
<1>8. Position' = 0
  BY <1>6 DEF Position
<1>9. InBlock'
  <2>1. (1 - 1) * bit'.BlockSize = 0
    BY <1>3
  <2> QED
    BY <1>1, <1>4, <2>1 DEF InBlock, Working
<1>10. InHash' /\ InPlace' /\ GoodLoads'
  BY <1>1, <1>4, <1>8 DEF InHash, InPlace, GoodLoads
<1>11. InLayout'
  <2>1. AtStart'
    BY <1>6, <1>8 DEF AtStart
  <2> QED
    BY <1>6, <2>1 DEF InLayout, Layout
<1>12. Right(sent)'
  BY <1>3, <1>6 DEF Right
<1> QED
  BY <1>1, <1>7, <1>9, <1>10, <1>11, <1>12 DEF PlInv

\* The next block follows the one before, or there is none.
LEMMA NextBlockKeeps ==
  ASSUME PlInv, NextBlock
  PROVE  PlInv'
<1>1. /\ plStage = "Block" /\ plStage # "Idle" /\ chunk' = 0 /\ hash' = NoHash /\ bit' = bit
      /\ changed' = changed
      /\ HashsOfChunks' = HashsOfChunks /\ aes' = aes /\ sent' = sent /\ plState' = plState
      /\ disturbed' = disturbed
  BY DEF NextBlock, outVars
<1>2. /\ PlTypes /\ InBlock /\ InPlace /\ InLayout /\ Right(sent)
  BY <1>1 DEF PlInv
<1>3. /\ bit.len \in Nat /\ bit.BlockSize \in Nat /\ bit.BlockSize > 0 /\ NoOfHashs \in Nat
  BY <1>1, <1>2, BitFacts, PlConstants
<1>4. /\ block \in [SrcAddress : Nat, Index : Nat \ {0}, Len : Nat \ {0}, IsLastBlock : BOOLEAN]
      /\ block.SrcAddress \in Nat /\ block.SrcAddress <= bit.len /\ block.Len <= bit.BlockSize
      /\ block.SrcAddress = (block.Index - 1) * bit.BlockSize
      /\ ~block.IsLastBlock /\ Position = block.SrcAddress
  BY <1>1, <1>2 DEF PlTypes, InBlock, InPlace
<1>5. Position' = Position /\ Layout' /\ Right(sent)'
  <2>1. Layout
    BY <1>1, <1>2 DEF InLayout
  <2>2. Position' = Position
    BY <1>1 DEF Position
  <2>3. Layout'
    BY <1>1, <2>1, <2>2 DEF Layout, Encrypted, AtStart, AtEnd, InData, InHeader
  <2> QED
    BY <1>1, <1>2, <2>2, <2>3, RightPrime
<1>6. /\ hash' \in [upto : Nat, met : SUBSET Nat] /\ hash'.upto <= bit.len /\ hash'.met = {}
  BY <1>1, <1>3 DEF NoHash
<1>7. CASE block.SrcAddress < bit.len
  <2>1. /\ block' = [block EXCEPT !.IsLastBlock = IsLast, !.Len = BlockLen]
        /\ plStage' = IF NoOfChunks(BlockLen) > NoOfHashs THEN "Fail" ELSE "Sign"
    BY <1>7 DEF NextBlock
  <2>2. /\ BlockLen = IF IsLast THEN bit.len - block.SrcAddress ELSE bit.BlockSize
        /\ BlockLen \in Nat /\ BlockLen > 0 /\ BlockLen <= bit.BlockSize
    BY <1>3, <1>4, <1>7 DEF BlockLen, IsLast
  <2>3. /\ block'.SrcAddress = block.SrcAddress /\ block'.Index = block.Index /\ block'.Len = BlockLen
        /\ block'.IsLastBlock = IsLast
    BY <1>4, <2>1
  <2>4. block' \in [SrcAddress : Nat, Index : Nat \ {0}, Len : Nat \ {0}, IsLastBlock : BOOLEAN]
    <3>1. \A b \in BOOLEAN, n \in Nat \ {0} : [block EXCEPT !.IsLastBlock = b, !.Len = n]
            \in [SrcAddress : Nat, Index : Nat \ {0}, Len : Nat \ {0}, IsLastBlock : BOOLEAN]
      BY <1>4
    <3>2. IsLast \in BOOLEAN
      BY DEF IsLast
    <3>3. BlockLen \in Nat \ {0}
      BY <2>2
    <3> QED
      BY <2>1, <3>1, <3>2, <3>3, Zenon
  <2>5. NoOfChunks(BlockLen) \in Nat /\ NoOfChunks(BlockLen) > 0
    BY <2>2, ChunksOf
  <2>6. CASE NoOfChunks(BlockLen) > NoOfHashs
    <3>1. plStage' = "Fail"
      BY <2>1, <2>6
    <3>2. GoodLoads'
      <4>1. NoOfChunks(block'.Len) > NoOfHashs
        BY <2>3, <2>6
      <4> QED
        BY <4>1 DEF GoodLoads, NoOfChunks
    <3>3. chunk' \in 0..NoOfHashs /\ disturbed \in BOOLEAN
      BY <1>1, <1>2, <1>3 DEF PlTypes
    <3>4. block'.SrcAddress <= bit.len /\ block'.Len <= bit.BlockSize
      BY <1>4, <2>2, <2>3
    <3>5. UNCHANGED <<bit, changed, outVars>>
      BY <1>1 DEF outVars
    <3> QED
      BY <1>1, <1>6, <2>4, <3>1, <3>2, <3>3, <3>4, <3>5, FailKeeps
  <2>7. CASE ~(NoOfChunks(BlockLen) > NoOfHashs)
    <3>1. plStage' = "Sign"
      BY <2>1, <2>7
    <3>2. PlTypes'
      <4>1. chunk' \in 0..NoOfHashs
        BY <1>1, <1>3
      <4>2. block'.SrcAddress <= bit.len /\ block'.Len <= bit.BlockSize
        BY <1>4, <2>2, <2>3
      <4> QED
        BY <1>1, <1>2, <1>6, <2>4, <3>1, <4>1, <4>2 DEF PlTypes, Working
    <3>3. InBlock'
      <4>1. IsLast' <=> IsLast
        BY <1>1, <2>3 DEF IsLast
      <4>2. block'.Len = IF IsLast' THEN bit'.len - block'.SrcAddress ELSE bit'.BlockSize
        BY <1>1, <2>2, <2>3, <4>1
      <4>3. NoOfChunks(block'.Len) <= NoOfHashs /\ chunk' < NoOfChunks(block'.Len)
        BY <1>1, <1>3, <2>3, <2>5, <2>7
      <4>4. NoOfChunks(block.Len)' = NoOfChunks(block'.Len)
        BY DEF NoOfChunks
      <4>5. block'.SrcAddress = (block'.Index - 1) * bit'.BlockSize /\ block'.SrcAddress < bit'.len
        BY <1>1, <1>4, <1>7, <2>3
      <4>6. block'.IsLastBlock = IsLast'
        BY <1>1, <2>3 DEF IsLast
      <4> QED
        BY <3>1, <4>2, <4>3, <4>4, <4>5, <4>6 DEF InBlock
    <3>4. InHash'
      BY <1>1, <1>6, <3>1 DEF InHash, Hashed
    <3>5. InPlace' /\ InLayout' /\ GoodLoads'
      BY <1>4, <1>5, <2>3, <3>1 DEF InPlace, InLayout, GoodLoads
    <3> QED
      BY <1>5, <3>1, <3>2, <3>3, <3>4, <3>5 DEF PlInv
  <2> QED
    BY <2>6, <2>7
<1>8. CASE ~(block.SrcAddress < bit.len)
  <2>1. plStage' = "Wait" /\ block' = block
    BY <1>8 DEF NextBlock
  <2>2. PlTypes'
    <3>1. chunk' \in 0..NoOfHashs
      BY <1>1, <1>3
    <3> QED
      BY <1>1, <1>2, <1>6, <2>1, <3>1 DEF PlTypes
  <2>3. Position' = bit.len
    BY <1>3, <1>4, <1>5, <1>8
  <2>4. InBlock' /\ InHash' /\ InPlace' /\ InLayout' /\ GoodLoads'
    BY <1>1, <1>5, <2>1, <2>3 DEF InBlock, InHash, InPlace, InLayout, GoodLoads, Working
  <2> QED
    BY <1>5, <2>1, <2>2, <2>4 DEF PlInv
<1> QED
  BY <1>7, <1>8

\* XFsbl_PlSignVer, the first reading: the hash of the chunk is kept.
LEMMA HashChunkKeeps ==
  ASSUME PlInv, HashChunk
  PROVE  PlInv'
<1> DEFINE N == NoOfChunks(block.Len)
<1>1. /\ plStage = "Sign" /\ plStage # "Idle" /\ plStage \in Working /\ hash' = Updated
      /\ bit' = bit /\ changed' = changed /\ block' = block /\ aes' = aes /\ sent' = sent
      /\ plState' = plState /\ disturbed' = disturbed
      /\ HashsOfChunks' = [k \in DOMAIN HashsOfChunks \cup {chunk + 1} |->
                             IF k = chunk + 1 THEN Updated ELSE HashsOfChunks[k]]
      /\ IF IsLastChunk THEN plStage' = "Verify" /\ chunk' = chunk
                        ELSE chunk' = chunk + 1 /\ plStage' = "Sign"
  BY DEF HashChunk, outVars, Working
<1>2. /\ PlTypes /\ InBlock /\ InHash /\ InPlace /\ InLayout /\ GoodLoads /\ Right(sent)
  BY <1>1 DEF PlInv
<1>3. /\ N \in Nat /\ chunk \in Nat /\ chunk < N /\ N <= NoOfHashs /\ NoOfHashs \in Nat
      /\ ChunkFrom + ChunkLen = ChunkEnd(chunk + 1)
      /\ IsLastChunk => ChunkFrom + ChunkLen = block.SrcAddress + block.Len
      /\ IsLastChunk <=> chunk + 1 = N
      /\ ~IsLastChunk => chunk + 1 < N
  BY <1>1, <1>2, ChunkFacts, PlConstants DEF InBlock, IsLastChunk
<1>4. /\ Updated \in [upto : Nat, met : SUBSET Nat] /\ Updated.upto = ChunkFrom + ChunkLen
      /\ Updated.upto <= bit.len /\ hash.met \subseteq Updated.met
      /\ changed = {} => Updated.met = hash.met
  BY <1>1, <1>2, UpdatedFacts
<1>5. Hashed(chunk, hash.met) /\ (~disturbed => hash.met = {} /\ changed = {})
  BY <1>1, <1>2 DEF InHash, PlTypes
<1>6. ASSUME NEW i \in 1..chunk+1
      PROVE  /\ i \in DOMAIN HashsOfChunks'
             /\ HashsOfChunks'[i] \in [upto : {ChunkEnd(i)}, met : SUBSET Updated.met]
  <2>1. CASE i = chunk + 1
    <3>1. HashsOfChunks'[i] = Updated /\ i \in DOMAIN HashsOfChunks'
      BY <1>1, <2>1
    <3>2. Updated \in [upto : {ChunkEnd(i)}, met : SUBSET Updated.met]
      BY <1>3, <1>4, <2>1
    <3> QED
      BY <3>1, <3>2
  <2>2. CASE i # chunk + 1
    <3>1. i \in 1..chunk
      BY <1>3, <2>2
    <3>2. i \in DOMAIN HashsOfChunks /\ HashsOfChunks[i] \in [upto : {ChunkEnd(i)}, met : SUBSET hash.met]
      BY <1>5, <3>1 DEF Hashed
    <3>3. HashsOfChunks'[i] = HashsOfChunks[i] /\ i \in DOMAIN HashsOfChunks'
      BY <1>1, <2>2, <3>2
    <3>4. HashsOfChunks[i] \in [upto : {ChunkEnd(i)}, met : SUBSET Updated.met]
      BY <1>4, <3>2
    <3> QED
      BY <3>3, <3>4
  <2> QED
    BY <2>1, <2>2
<1>7. InHash'
  <2>1. \A i : ChunkEnd(i)' = ChunkEnd(i)
    BY <1>1 DEF ChunkEnd
  <2>2. hash'.met = Updated.met
    BY <1>1
  <2>3. \A i \in 1..chunk+1 : /\ i \in DOMAIN HashsOfChunks'
                              /\ HashsOfChunks'[i] \in [upto : {ChunkEnd(i)'}, met : SUBSET hash'.met]
    BY <1>6, <2>1, <2>2
  <2>4. plStage' = "Sign" => Hashed(chunk, hash.met)'
    BY <1>1, <2>3 DEF Hashed
  <2>5. plStage' = "Verify" => /\ Hashed(NoOfChunks(block.Len), hash.met)'
                               /\ hash'.upto = block'.SrcAddress + block'.Len
    <3> SUFFICES ASSUME plStage' = "Verify"
                 PROVE  /\ Hashed(NoOfChunks(block.Len), hash.met)'
                        /\ hash'.upto = block'.SrcAddress + block'.Len
      OBVIOUS
    <3>1. IsLastChunk /\ NoOfChunks(block.Len)' = chunk + 1
      BY <1>1, <1>3 DEF NoOfChunks
    <3> QED
      BY <1>1, <1>3, <1>4, <2>3, <3>1 DEF Hashed
  <2>6. ~disturbed' => hash'.met = {}
    BY <1>1, <1>4, <1>5, <2>2
  <2> QED
    BY <1>1, <2>4, <2>5, <2>6 DEF InHash
<1>8. chunk' \in 0..NoOfHashs /\ chunk' < N
  BY <1>1, <1>3
<1>9. PlTypes'
  BY <1>1, <1>2, <1>4, <1>8 DEF PlTypes, Working
<1>10. InBlock'
  BY <1>1, <1>2, <1>8 DEF InBlock, IsLast, N, Working
<1>11. InPlace' /\ InLayout' /\ GoodLoads' /\ Right(sent)'
  <2>1. Layout /\ Position = block.SrcAddress
    BY <1>1, <1>2 DEF InLayout, InPlace, Working
  <2>2. Layout'
    BY <1>1, <2>1 DEF Layout, Encrypted, AtStart, AtEnd, InData, InHeader, Position
  <2>3. Position' = Position
    BY <1>1 DEF Position
  <2> QED
    BY <1>1, <1>2, <2>1, <2>2, <2>3, RightPrime DEF InLayout, InPlace, GoodLoads
<1> QED
  BY <1>1, <1>7, <1>9, <1>10, <1>11 DEF PlInv

\* A signature that is right has met nothing that was not signed.
LEMMA VerifySignatureKeeps ==
  ASSUME PlInv, VerifySignature
  PROVE  PlInv'
<1>1. /\ plStage = "Verify" /\ plStage # "Idle" /\ plStage \in Working
      /\ plStage' = (IF hash = Certificate(block.Index) THEN "Again" ELSE "Fail")
      /\ chunk' = 0 /\ hash' = NoHash
      /\ bit' = bit /\ changed' = changed /\ block' = block /\ aes' = aes /\ sent' = sent
      /\ plState' = plState /\ disturbed' = disturbed /\ HashsOfChunks' = HashsOfChunks
  BY DEF VerifySignature, outVars, Working
<1>2. /\ PlTypes /\ InBlock /\ InHash /\ InPlace /\ InLayout /\ GoodLoads /\ Right(sent)
  BY <1>1 DEF PlInv
<1>3. /\ Certificate(block.Index) = [upto |-> block.SrcAddress + block.Len, met |-> {}]
      /\ block.SrcAddress \in Nat /\ NoOfHashs \in Nat /\ ChunkSize \in Nat
      /\ NoOfChunks(block.Len) \in Nat /\ chunk \in Nat /\ chunk < NoOfChunks(block.Len)
      /\ bit.len \in Nat
  BY <1>1, <1>2, BlockFacts, ChunkFacts, PlConstants, BitFacts
<1>4. /\ Hashed(NoOfChunks(block.Len), hash.met) /\ hash.upto = block.SrcAddress + block.Len
      /\ ~disturbed => hash.met = {}
      /\ hash \in [upto : Nat, met : SUBSET Nat]
  BY <1>1, <1>2 DEF InHash, PlTypes
<1>5. hash' \in [upto : Nat, met : SUBSET Nat] /\ hash'.upto <= bit.len /\ hash'.met = {}
  BY <1>1, <1>3 DEF NoHash
<1>6. chunk' \in 0..NoOfHashs /\ chunk' < NoOfChunks(block.Len)
  BY <1>1, <1>3
<1>7. CASE hash = Certificate(block.Index)
  <2>1. plStage' = "Again" /\ hash.met = {}
    BY <1>1, <1>3, <1>7
  <2>2. PlTypes'
    BY <1>1, <1>2, <1>5, <1>6, <2>1 DEF PlTypes, Working
  <2>3. InBlock'
    BY <1>1, <1>2, <1>6, <2>1 DEF InBlock, IsLast, Working
  <2>4. InHash'
    BY <1>1, <1>4, <1>5, <2>1 DEF InHash, Hashed, ChunkEnd
  <2>5. Layout /\ Position = block.SrcAddress
    BY <1>1, <1>2 DEF InLayout, InPlace, Working
  <2>6. Layout'
    BY <1>1, <2>5 DEF Layout, Encrypted, AtStart, AtEnd, InData, InHeader, Position
  <2>7. Position' = ChunkFrom'
    <3>1. ChunkFrom' = block.SrcAddress
      BY <1>1, <1>3 DEF ChunkFrom
    <3> QED
      BY <1>1, <2>5, <3>1 DEF Position
  <2>8. InPlace' /\ InLayout' /\ GoodLoads' /\ Right(sent)'
    BY <1>1, <1>2, <2>1, <2>6, <2>7, RightPrime DEF InLayout, InPlace, GoodLoads
  <2> QED
    BY <2>1, <2>2, <2>3, <2>4, <2>8 DEF PlInv
<1>8. CASE hash # Certificate(block.Index)
  <2>1. plStage' = "Fail"
    BY <1>1, <1>8
  <2>2. disturbed
    <3> SUFFICES ASSUME ~disturbed PROVE FALSE
      OBVIOUS
    <3>1. hash = [upto |-> block.SrcAddress + block.Len, met |-> {}]
      BY <1>4
    <3> QED
      BY <1>3, <1>8, <3>1
  <2>3. GoodLoads' /\ UNCHANGED <<bit, changed, outVars>>
    BY <1>1, <2>2 DEF GoodLoads, outVars
  <2>4. /\ block \in [SrcAddress : Nat, Index : Nat \ {0}, Len : Nat \ {0}, IsLastBlock : BOOLEAN]
        /\ block.SrcAddress <= bit.len /\ block.Len <= bit.BlockSize /\ disturbed \in BOOLEAN
    BY <1>2 DEF PlTypes
  <2> QED
    BY <1>1, <1>5, <1>6, <2>1, <2>3, <2>4, FailKeeps
<1> QED
  BY <1>7, <1>8

\* At the end everything has been sent: no header is cut.
LEMMA AllSent ==
  ASSUME PlInv, plStage \in {"Wait", "Done"}
  PROVE  Len(sent) = bit.len
<1>1. PlTypes /\ plStage # "Idle" /\ Layout /\ Position = bit.len /\ Right(sent)
  BY DEF PlInv, InLayout, InPlace
<1>2. Len(sent) \in Nat /\ bit.len \in Nat /\ aes.SecureHdr \in Seq(Unit) /\ Len(aes.SecureHdr) < HdrSize
      /\ HdrSize \in Nat
  BY <1>1, BitFacts, PlConstants DEF Right, PlTypes
<1>3. aes.SecureHdr = <<>> => Len(sent) = bit.len
  BY <1>1, <1>2 DEF Position
<1>4. CASE aes.SecureHdr # <<>>
  <2>1. Encrypted
    BY <1>1, <1>4 DEF Layout, NoAes
  <2>2. PICK j \in 1..Len(bit.aes) : InHeader(j)
    BY <1>1, <1>4, <2>1 DEF Layout, AtStart, AtEnd, InData
  <2>3. Len(sent) = HdrAt(bit.aes)[j + 1]
    BY <2>2 DEF InHeader
  <2>4. HdrAt(bit.aes)[j + 1] + HdrSize <= bit.len
    BY <1>1, <2>1, LayoutFacts DEF Headers
  <2> QED
    BY <1>1, <1>2, <2>3, <2>4 DEF Position
<1> QED
  BY <1>3, <1>4

\* The steps that change neither what is read nor what is sent.
LEMMA OtherKeeps ==
  ASSUME PlInv, PlWaitForDone \/ PlCallFails \/ PlFail \/ DdrChanges
  PROVE  PlInv'
<1>1. /\ plStage # "Idle" /\ plStage' # "Idle"
      /\ bit' = bit /\ block' = block /\ chunk' = chunk /\ hash' = hash
      /\ HashsOfChunks' = HashsOfChunks /\ aes' = aes /\ sent' = sent
      /\ plState' \in {plState, "done", "reset"}
      /\ changed' = changed \/ disturbed' = TRUE
      /\ disturbed' = disturbed \/ disturbed' = TRUE
      /\ plStage' \in {plStage, "Done", "Err", "Fail"}
  BY DEF PlWaitForDone, PlCallFails, PlFail, DdrChanges, outVars, hashVars
<1>2. /\ PlTypes /\ InBlock /\ InHash /\ InPlace /\ InLayout /\ GoodLoads /\ Right(sent)
  BY <1>1 DEF PlInv
<1>3. bit.len \in Nat
  BY <1>1, <1>2, BitFacts
<1>4. PlTypes'
  <2>1. changed' \subseteq 0..bit.len-1
    BY <1>2, <1>3 DEF PlWaitForDone, PlCallFails, PlFail, DdrChanges, PlTypes
  <2>2. plStage' \in {"Idle", "Block", "Wait", "Fail", "Done", "Err"} \cup Working
    BY <1>1, <1>2 DEF PlTypes
  <2>3. disturbed' \in BOOLEAN /\ (~disturbed' => changed' = {})
    BY <1>1, <1>2 DEF PlTypes
  <2> QED
    BY <1>1, <1>2, <2>1, <2>2, <2>3 DEF PlTypes
<1>5. InBlock' /\ InHash'
  <2>1. plStage' = plStage \/ plStage' \notin {"Block"} \cup Working
    BY <1>1 DEF Working
  <2>2. InBlock'
    BY <1>1, <1>2, <2>1 DEF InBlock, IsLast, Working
  <2>3. disturbed => disturbed'
    BY <1>1
  <2>4. InHash'
    BY <1>1, <1>2, <2>1, <2>3 DEF InHash, Hashed, ChunkEnd, Working
  <2> QED
    BY <2>2, <2>4
<1>6. Layout => Layout'
  BY <1>1 DEF Layout, Encrypted, AtStart, AtEnd, InData, InHeader, Position
<1>7. /\ Position' = Position /\ ChunkFrom' = ChunkFrom /\ ChunkLen' = ChunkLen
      /\ (Encrypted' <=> Encrypted)
  BY <1>1 DEF Position, ChunkFrom, ChunkLen, IsLastChunk, Encrypted
<1>8. InPlace' /\ InLayout' /\ GoodLoads'
  <2>1. CASE PlWaitForDone
    <3>1. plStage = "Wait" /\ plStage' \in {"Done", "Err"}
      BY <2>1 DEF PlWaitForDone
    <3>2. Len(sent) = bit.len /\ Position = bit.len
      BY <1>2, <3>1, AllSent DEF InPlace
    <3>3. InPlace'
      BY <1>1, <1>3, <1>7, <3>1, <3>2 DEF InPlace
    <3>4. plStage' = "Err" => disturbed'
      BY <2>1 DEF PlWaitForDone
    <3> QED
      BY <1>2, <1>6, <3>1, <3>3, <3>4 DEF InLayout, GoodLoads
  <2>2. CASE PlCallFails
    BY <2>2 DEF PlCallFails, InPlace, InLayout, GoodLoads, Working
  <2>3. CASE PlFail
    <3>1. plStage = "Fail" /\ plStage' = "Err" /\ plState' = "reset"
      BY <2>3 DEF PlFail
    <3>2. GoodLoads'
      BY <1>1, <1>2, <3>1 DEF GoodLoads, NoOfChunks
    <3> QED
      BY <3>1, <3>2 DEF InPlace, InLayout, Working
  <2>4. CASE DdrChanges
    <3>1. plStage' = plStage /\ plState' = plState /\ disturbed' = TRUE
      BY <2>4 DEF DdrChanges, outVars
    <3>2. InPlace'
      BY <1>1, <1>2, <1>7, <3>1 DEF InPlace
    <3> QED
      BY <1>2, <1>6, <3>1, <3>2 DEF InLayout, GoodLoads
  <2> QED
    BY <2>1, <2>2, <2>3, <2>4
<1> QED
  BY <1>1, <1>2, <1>4, <1>5, <1>8, RightPrime DEF PlInv

\* The bitstream's part of the initial states, its steps, and what they leave alone.
LEMMA PlInit ==
  ASSUME PlIdle
  PROVE  PlInv
<1>1. /\ bit = NoBit /\ bit.len = 1 /\ bit.BlockSize = 1 /\ changed = {} /\ plStage = "Idle" /\ chunk = 0
      /\ block = [SrcAddress |-> 0, Index |-> 1, Len |-> 1, IsLastBlock |-> FALSE]
      /\ hash = [upto |-> 0, met |-> {}] /\ sent = <<>> /\ plState = "reset" /\ disturbed = FALSE
      /\ aes = [SizeofData |-> 0, NextBlkLen |-> 0, SecureHdr |-> <<>>, SrcAddr |-> 0, Size |-> 0]
  BY DEF PlIdle, FirstBlock, NoBit, NoHash, NoAes
<1>2. block \in [SrcAddress : Nat, Index : Nat \ {0}, Len : Nat \ {0}, IsLastBlock : BOOLEAN]
  BY <1>1
<1>3. hash \in [upto : Nat, met : SUBSET Nat] /\ hash.upto <= bit.len
  BY <1>1
<1>4. /\ aes \in [SizeofData : Nat, NextBlkLen : Nat, SecureHdr : Seq(Unit), SrcAddr : Nat, Size : Nat]
      /\ aes.SizeofData <= bit.len /\ aes.Size <= ChunkSize /\ Len(aes.SecureHdr) < HdrSize
  <2>1. <<>> \in Seq(Unit) /\ Len(<<>>) = 0
    OBVIOUS
  <2> QED
    BY <1>1, <2>1, PlConstants
<1>5. block.SrcAddress <= bit.len /\ block.Len <= bit.BlockSize /\ chunk \in 0..NoOfHashs
  BY <1>1, PlConstants
<1>6. PlTypes
  BY <1>1, <1>2, <1>3, <1>4, <1>5 DEF PlTypes
<1> QED
  BY <1>6 DEF PlIdle, PlInv, InBlock, InHash, InPlace, InLayout, GoodLoads, Working

\* Every step, and what writes to the copy meanwhile.
LEMMA PlStepKeeps ==
  ASSUME PlInv, PlStart \/ PlStep \/ DdrChanges \/ UNCHANGED plVars
  PROVE  PlInv'
<1>1. CASE UNCHANGED plVars
  <2>1. /\ bit' = bit /\ changed' = changed /\ plStage' = plStage /\ block' = block /\ chunk' = chunk
        /\ hash' = hash /\ HashsOfChunks' = HashsOfChunks /\ aes' = aes /\ sent' = sent
        /\ plState' = plState /\ disturbed' = disturbed
    BY <1>1 DEF plVars
  <2>2. PlTypes => PlTypes'
    BY <2>1 DEF PlTypes
  <2>3. InBlock => InBlock'
    BY <2>1 DEF InBlock, IsLast
  <2>4. InHash => InHash'
    BY <2>1 DEF InHash, Hashed, ChunkEnd
  <2>5. InPlace => InPlace'
    BY <2>1 DEF InPlace, Position, ChunkFrom, ChunkLen, IsLastChunk, Encrypted
  <2>6. InLayout => InLayout'
    BY <2>1 DEF InLayout, Layout, Position, Encrypted, AtStart, AtEnd, InData, InHeader
  <2>7. GoodLoads => GoodLoads'
    BY <2>1 DEF GoodLoads
  <2>8. Right(sent) => Right(sent)'
    BY <2>1, RightPrime
  <2> QED
    BY <2>1, <2>2, <2>3, <2>4, <2>5, <2>6, <2>7, <2>8 DEF PlInv
<1> QED
  BY <1>1, PlStartKeeps, NextBlockKeeps, HashChunkKeeps, VerifySignatureKeeps, ReadAgainKeeps,
     DecryptKeeps, OtherKeeps DEF PlStep

\* What follows from it.
LEMMA PlCorrect ==
  ASSUME PlInv
  PROVE  PlGetsSignedData
<1>1. GoodLoads
  BY DEF PlInv
<1>2. ASSUME plStage # "Idle"
      PROVE  /\ Len(sent) <= bit.len /\ \A k \in DOMAIN sent : sent[k] = Stream[k]
             /\ plStage \in {"Wait", "Done"} => Len(sent) = bit.len
             /\ plStage = "Err" /\ Len(sent) < bit.len => plState = "reset"
  <2>1. Right(sent) /\ InPlace /\ PlTypes
    BY <1>2 DEF PlInv
  <2>2. bit.len \in Nat
    BY <1>2, <2>1, BitFacts
  <2>3. sent \in Seq(Unit) /\ Len(sent) <= bit.len
    BY <2>1 DEF Right
  <2>4. ASSUME NEW k \in DOMAIN sent PROVE sent[k] = Stream[k]
    <3>1. k \in 1..Len(sent) /\ k \in 1..bit.len
      BY <2>2, <2>3
    <3> QED
      BY <2>1, <3>1 DEF Right, Stream
  <2> QED
    BY <2>1, <2>3, <2>4, AllSent DEF InPlace
<1> QED
  BY <1>1, <1>2 DEF PlGetsSignedData, OnlySigned

\* It holds at first, and so throughout.
LEMMA PlAlways == Spec => []PlInv
<1>1. Init => PlInv
  BY PlInit DEF Init
<1>2. PlInv /\ [Next]_vars => PlInv'
  <2> SUFFICES ASSUME PlInv, [Next]_vars PROVE PlInv'
    OBVIOUS
  <2>1. CASE LoadBitstream
    BY <2>1, PlStepKeeps DEF LoadBitstream
  <2>2. CASE CopyDisturbed
    BY <2>2, PlStepKeeps DEF CopyDisturbed
  <2>3. ASSUME ~LoadBitstream, ~CopyDisturbed
        PROVE  UNCHANGED plVars
    BY <2>3 DEF Next, Fsbl, vars, InitMemory, MemoryInitialized, BootDevice, BootDeviceReady,
       UsbInit, Copy, Copied, BringUpReturns
  <2> QED
    BY <2>1, <2>2, <2>3, PlStepKeeps
<1> QED
  BY <1>1, <1>2, PTL DEF Spec

\* Whatever the size of chunks, blocks and headers, whatever happens to the copy of a
\* bitstream in the DDR and whichever call fails: the PL and the AES engine receive
\* only what was signed, in order, as what it is, and all of it if the bitstream is
\* accepted; a bitstream is refused only for a reason (xfsbl_plpartition_valid.c:120-420
\* and 700-1250).
THEOREM BitstreamAsSigned == Spec => []PlGetsSignedData
<1>1. PlInv => PlGetsSignedData
  BY PlCorrect
<1> QED
  BY <1>1, PlAlways, PTL

-----------------------------------------------------------------------------
(* The download.                                                           *)

DfuHosts == {"Start", "Detached", "Interface", "FirstStatus", "Block", "Status", "LastStatus",
             "End"}

\* The blocks in memory are numbers of blocks; none is written beyond the others.
Flash ==
  /\ DfuVirtFlash \in Seq(1..MaxBlocks) /\ TotalBytesDnloaded \in 0..MaxBlocks
  /\ TotalBytesDnloaded <= Len(DfuVirtFlash)
  /\ sentBlocks > 0 => TotalBytesDnloaded <= sentBlocks

\* What has been downloaded at each step of a host whose first status request is the
\* first that counts, and that was not started again after it.
Downloaded ==
  /\ host \in {"Start", "Detached", "Interface", "FirstStatus"} =>
       DownloadDone = 0 /\ sentBlocks = 0 /\ DfuVirtFlash = <<>> /\ TotalBytesDnloaded = 0
  /\ host = "FirstStatus" => CurrState = "IDLE"
  /\ host \in {"Block", "Status"} => DownloadDone = 1 /\ CurrState # "IDLE"
  /\ host = "LastStatus" => DownloadDone = 1 /\ CurrState = "IDLE"
  /\ host \in {"Block", "Status", "LastStatus", "End"} =>
       TotalBytesDnloaded = sentBlocks /\ DfuVirtFlash = [k \in 1..sentBlocks |-> k]
  /\ host \in {"LastStatus", "End"} => sentBlocks = blocks

DfuNothingYet ==
  /\ host = "Start" /\ sentBlocks = 0 /\ DfuVirtFlash = <<>> /\ TotalBytesDnloaded = 0
  /\ DownloadDone = 0 /\ ~counted

DfuInv ==
  /\ DfuTypeOK /\ host \in DfuHosts /\ blocks \in 1..MaxBlocks /\ Flash
  /\ dfuStage # "Done" => DownloadDone < 2
  /\ dfuStage = "Idle" => DfuNothingYet
  /\ dfuStage = "Done" => host # "Start"
  /\ ~counted /\ blocks <= WValues => Downloaded /\ (dfuStage = "Done" => host = "End")

-----------------------------------------------------------------------------
\* A block written at or before the end of what there is leaves a sequence of blocks.
LEMMA BlockWritten ==
  ASSUME DfuVirtFlash \in Seq(1..MaxBlocks), NEW at \in Nat, at <= Len(DfuVirtFlash),
         NEW new \in 1..MaxBlocks, NEW flash,
         flash = [k \in 1..IF Len(DfuVirtFlash) > at + 1 THEN Len(DfuVirtFlash) ELSE at + 1 |->
                    IF k = at + 1 THEN new ELSE DfuVirtFlash[k]]
  PROVE  flash \in Seq(1..MaxBlocks) /\ Len(flash) >= at + 1
<1> DEFINE n == IF Len(DfuVirtFlash) > at + 1 THEN Len(DfuVirtFlash) ELSE at + 1
<1>1. n \in Nat /\ n >= at + 1 /\ \A k \in 1..n : k # at + 1 => k \in 1..Len(DfuVirtFlash)
  OBVIOUS
<1>2. \A k \in 1..n : (IF k = at + 1 THEN new ELSE DfuVirtFlash[k]) \in 1..MaxBlocks
  <2>1. \A k \in 1..Len(DfuVirtFlash) : DfuVirtFlash[k] \in 1..MaxBlocks
    BY DfuAssumption
  <2> HIDE DEF n
  <2> QED
    BY <1>1, <2>1
<1>3. flash = [k \in 1..n |-> IF k = at + 1 THEN new ELSE DfuVirtFlash[k]]
  OBVIOUS
<1> HIDE DEF n
<1>4. flash \in [1..n -> 1..MaxBlocks]
  BY <1>2, <1>3
<1> QED
  BY <1>1, <1>4

\* The request that writes a block.
LEMMA DownloadKeeps ==
  ASSUME DfuInv, host = "Block", sentBlocks < blocks,
         Download(sentBlocks % WValues, sentBlocks + 1), dfuStage = "Loop",
         sentBlocks' = sentBlocks + 1, HostGoes("Status"), LoopEnds
  PROVE  DfuInv'
<1> USE DfuAssumption
<1> DEFINE at == StartOfBlock(sentBlocks % WValues)
<1>1. /\ sentBlocks \in Nat /\ sentBlocks < MaxBlocks /\ blocks \in 1..MaxBlocks
      /\ sentBlocks + 1 \in 1..MaxBlocks /\ sentBlocks + 1 \in 0..blocks
  BY DEF DfuInv, DfuTypeOK
<1>2. at \in Nat /\ at <= Len(DfuVirtFlash) /\ at <= sentBlocks
  <2>1. CASE sentBlocks = 0
    BY <2>1 DEF StartOfBlock
  <2>2. CASE sentBlocks > 0
    BY <2>2, <1>1 DEF StartOfBlock, DfuInv, Flash
  <2> QED
    BY <2>1, <2>2, <1>1
<1>3. /\ DfuVirtFlash' = [k \in 1..IF Len(DfuVirtFlash) > at + 1 THEN Len(DfuVirtFlash)
                                                                 ELSE at + 1 |->
                            IF k = at + 1 THEN sentBlocks + 1 ELSE DfuVirtFlash[k]]
      /\ TotalBytesDnloaded' = at + 1 /\ CurrState' = "DOWNLOAD_IDLE"
      /\ RuntimeToDfu' = RuntimeToDfu /\ DownloadDone' = DownloadDone
  BY DEF Download
<1> HIDE DEF at
<1>4. DfuVirtFlash' \in Seq(1..MaxBlocks) /\ Len(DfuVirtFlash') >= at + 1
  <2>1. DfuVirtFlash \in Seq(1..MaxBlocks)
    BY DEF DfuInv, DfuTypeOK
  <2> QED
    BY <1>1, <1>2, <1>3, <2>1, BlockWritten
<1>5. Flash'
  BY <1>1, <1>2, <1>3, <1>4 DEF Flash
<1>6. /\ dfuStage' = "Loop" /\ DownloadDone \in 0..1 /\ host' = "Status"
      /\ blocks' = blocks /\ restarts' = restarts /\ counted' = counted
  BY <1>3 DEF LoopEnds, HostGoes, DfuInv, DfuTypeOK
<1>7. DfuTypeOK'
  BY <1>1, <1>3, <1>5, <1>6 DEF DfuTypeOK, DfuInv, Flash
<1>8. ASSUME ~counted, blocks <= WValues
      PROVE  Downloaded'
  <2>1. /\ Downloaded /\ TotalBytesDnloaded = sentBlocks /\ DownloadDone = 1
        /\ DfuVirtFlash = [k \in 1..sentBlocks |-> k]
    BY <1>8 DEF DfuInv, Downloaded
  <2>2. sentBlocks % WValues = sentBlocks
    BY <1>1, <1>8
  <2>3. at = sentBlocks
    BY <2>1, <2>2 DEF at, StartOfBlock
  <2>4. Len(DfuVirtFlash) = sentBlocks
    BY <2>1, <1>1
  <2>5. DfuVirtFlash' = [k \in 1..sentBlocks + 1 |-> k]
    BY <1>1, <1>3, <2>1, <2>3, <2>4
  <2> QED
    BY <1>1, <1>3, <1>6, <2>1, <2>3, <2>5 DEF Downloaded
<1> QED
  <2>1. DownloadDone' < 2
    BY <1>3, <1>6
  <2>2. ~counted' /\ blocks' <= WValues => Downloaded'
    BY <1>6, <1>8
  <2> QED
    BY <1>1, <1>5, <1>6, <1>7, <2>1, <2>2 DEF DfuInv, DfuHosts

\* The other requests leave the blocks as they are.
LEMMA RequestKeeps ==
  ASSUME DfuInv, HostSteps, ~(host = "Block" /\ sentBlocks < blocks)
  PROVE  DfuInv'
<1> USE DfuAssumption
<1>1. /\ UNCHANGED <<TotalBytesDnloaded, DfuVirtFlash, sentBlocks, blocks, restarts>>
      /\ dfuStage = "Loop"
  BY DEF HostSteps, HostAsksEarly, Detach, SetInterface, GetStatus, DownloadEmpty, HostGoes
<1>2. Flash'
  BY <1>1 DEF DfuInv, Flash
<1>3. /\ DownloadDone' \in {DownloadDone, DownloadDone + 1} /\ DownloadDone \in 0..1
      /\ dfuStage' = IF DownloadDone' = 2 THEN "Done" ELSE "Loop"
  BY DEF HostSteps, HostAsksEarly, Detach, SetInterface, GetStatus, DownloadEmpty, LoopEnds,
         DfuInv, DfuTypeOK
<1>4. CurrState' \in {"APP_IDLE", "IDLE", "DOWNLOAD_SYNC", "DOWNLOAD_BUSY", "DOWNLOAD_IDLE",
                     "ERROR"}
  BY DEF HostSteps, HostAsksEarly, Detach, SetInterface, GetStatus, DownloadEmpty, DfuInv,
         DfuTypeOK
<1>5. host' \in DfuHosts \ {"Start"}
  BY DEF HostSteps, HostAsksEarly, HostGoes, DfuHosts
<1>6. /\ counted' = counted \/ (HostAsksEarly /\ counted' = (counted \/ Counts))
      /\ RuntimeToDfu' \in BOOLEAN /\ counted' \in BOOLEAN
  <2>1. counted \in BOOLEAN /\ RuntimeToDfu \in BOOLEAN
    BY DEF DfuInv, DfuTypeOK
  <2>2. counted' = counted \/ (HostAsksEarly /\ counted' = (counted \/ Counts))
    <3>1. HostAsksEarly \/ \E next : HostGoes(next)
      BY Zenon DEF HostSteps
    <3> QED
      BY <3>1, Zenon DEF HostAsksEarly, HostGoes
  <2>3. RuntimeToDfu' \in {TRUE, FALSE, RuntimeToDfu}
    BY DEF HostSteps, HostAsksEarly, Detach, SetInterface, GetStatus, DownloadEmpty
  <2> QED
    BY <2>1, <2>2, <2>3, Zenon
<1>7. DfuTypeOK'
  BY <1>1, <1>2, <1>3, <1>4, <1>6 DEF DfuTypeOK, DfuInv, Flash
<1>8. ASSUME ~counted', blocks <= WValues
      PROVE  Downloaded' /\ (dfuStage' = "Done" => host' = "End")
  <2>0. ~counted
    BY <1>6, <1>8, Zenon
  <2>1. Downloaded
    BY <1>8, <2>0 DEF DfuInv
  <2>2. CASE host = "Start" /\ Detach /\ HostGoes("Detached")
    BY <1>1, <1>3, <2>1, <2>2 DEF Downloaded, Detach, HostGoes
  <2>3. CASE /\ host \in {"Start", "Detached", "Interface"}
             /\ SetInterface(1) /\ HostGoes("FirstStatus")
    BY <1>1, <1>3, <2>1, <2>3 DEF Downloaded, SetInterface, HostGoes
  <2>4. CASE host = "FirstStatus" /\ GetStatus /\ HostGoes("Block")
    BY <1>1, <1>3, <2>1, <2>4 DEF Downloaded, GetStatus, Counts, HostGoes
  <2>5. CASE host = "Status" /\ GetStatus /\ HostGoes("Block")
    BY <1>1, <1>3, <2>1, <2>5 DEF Downloaded, GetStatus, Counts, HostGoes
  <2>6. CASE host = "Block" /\ sentBlocks = blocks /\ DownloadEmpty /\ HostGoes("LastStatus")
    BY <1>1, <1>3, <2>1, <2>6 DEF Downloaded, DownloadEmpty, HostGoes
  <2>7. CASE host = "LastStatus" /\ GetStatus /\ HostGoes("End")
    BY <1>1, <1>3, <2>1, <2>7 DEF Downloaded, GetStatus, Counts, HostGoes
  <2>8. CASE HostAsksEarly
    <3>1. ~Counts
      BY <1>8, <2>8, Zenon DEF HostAsksEarly
    <3>2. host = "Detached" /\ host' = "Interface" /\ DownloadDone' = DownloadDone
      BY <2>8, <3>1 DEF HostAsksEarly, GetStatus
    <3> QED
      BY <1>1, <1>3, <2>1, <3>2 DEF Downloaded
  <2> QED
    BY <2>2, <2>3, <2>4, <2>5, <2>6, <2>7, <2>8 DEF HostSteps
<1>9. DownloadDone' < 2 \/ dfuStage' = "Done"
  BY <1>3
<1>10. dfuStage' # "Idle"
  BY <1>3
<1>11. ~counted' /\ blocks' <= WValues => Downloaded' /\ (dfuStage' = "Done" => host' = "End")
  BY <1>1, <1>8
<1> QED
  BY <1>1, <1>2, <1>5, <1>7, <1>9, <1>10, <1>11 DEF DfuInv

\* A host that starts again after a counted status request is noted as such; before it
\* nothing has been downloaded.
LEMMA RestartKeeps ==
  ASSUME DfuInv, HostRestarts
  PROVE  DfuInv'
<1>1. Flash' /\ DfuTypeOK'
  BY DfuAssumption DEF HostRestarts, deviceStateVars, DfuInv, DfuTypeOK, Flash
<1>2. ASSUME ~counted', blocks <= WValues
      PROVE  Downloaded'
  <2>1. ~counted /\ ~(DownloadDone > 0)
    BY <1>2, Zenon DEF HostRestarts
  <2>2. DownloadDone = 0
    BY <2>1 DEF DfuInv, DfuTypeOK
  <2>3. Downloaded /\ host # "Start" /\ host # "End" /\ host \in DfuHosts
    BY <1>2, <2>1 DEF HostRestarts, DfuInv
  <2>4. sentBlocks = 0 /\ DfuVirtFlash = <<>> /\ TotalBytesDnloaded = 0
    BY <2>2, <2>3 DEF Downloaded, DfuHosts
  <2> QED
    BY <2>2, <2>4 DEF HostRestarts, deviceStateVars, Downloaded
<1>3. ~counted' /\ blocks' <= WValues => Downloaded'
  BY <1>2 DEF HostRestarts
<1> QED
  BY <1>1, <1>3 DEF HostRestarts, deviceStateVars, DfuInv, DfuHosts

\* Nothing has been downloaded at first.
LEMMA DfuInit == DfuIdle => DfuInv
<1> SUFFICES ASSUME DfuIdle PROVE DfuInv
  OBVIOUS
<1> USE DfuAssumption DEF DfuIdle
<1>1. DfuVirtFlash \in Seq(1..MaxBlocks) /\ Len(DfuVirtFlash) = 0
  OBVIOUS
<1>2. Flash
  BY <1>1 DEF Flash
<1>3. RuntimeToDfu \in BOOLEAN /\ counted \in BOOLEAN
  BY Zenon
<1>4. DfuTypeOK
  BY <1>1, <1>3 DEF DfuTypeOK
<1>5. Downloaded
  BY DEF Downloaded
<1>6. ~counted
  BY Zenon
<1> QED
  BY <1>2, <1>4, <1>5, <1>6 DEF DfuInv, DfuHosts, DfuNothingYet

\* The requests, and a boot that goes on or has other things to do.
LEMMA DfuStepKeeps ==
  ASSUME DfuInv, DfuStart \/ DfuStep \/ HostRestarts \/ UNCHANGED dfuVars \/ DfuIdle'
  PROVE  DfuInv'
<1>1. CASE DfuStart
  <2> USE DfuAssumption, <1>1 DEF DfuStart, deviceStateVars
  <2>1. host = "Start" /\ DownloadDone < 2 /\ DfuTypeOK /\ Flash /\ blocks' \in 1..MaxBlocks
    BY DEF DfuInv, DfuNothingYet
  <2>2. sentBlocks = 0 /\ DfuVirtFlash = <<>> /\ TotalBytesDnloaded = 0 /\ DownloadDone = 0 /\ ~counted
    BY DEF DfuInv, DfuNothingYet
  <2>3. DfuTypeOK' /\ Flash'
    BY <2>1, <2>2 DEF DfuTypeOK, Flash
  <2>4. Downloaded'
    BY <2>1, <2>2 DEF Downloaded
  <2> QED
    BY <2>1, <2>3, <2>4 DEF DfuInv, DfuHosts
<1>2. CASE DfuStep /\ host = "Block" /\ sentBlocks < blocks
  <2>1. /\ Download(sentBlocks % WValues, sentBlocks + 1) /\ sentBlocks' = sentBlocks + 1
        /\ HostGoes("Status") /\ LoopEnds /\ dfuStage = "Loop"
    BY <1>2 DEF DfuStep, HostSteps, HostAsksEarly, DfuInv, DfuTypeOK
  <2> QED
    BY <1>2, <2>1, DownloadKeeps
<1>3. CASE DfuStep /\ ~(host = "Block" /\ sentBlocks < blocks)
  BY <1>3, RequestKeeps DEF DfuStep
<1>4. CASE HostRestarts
  BY <1>4, RestartKeeps
<1>5. CASE UNCHANGED dfuVars
  BY <1>5 DEF dfuVars, DfuInv, DfuTypeOK, Flash, Downloaded, DfuNothingYet
<1>6. CASE DfuIdle'
  <2>1. (DfuIdle => DfuInv)'
    BY DfuInit, PTL
  <2> QED
    BY <1>6, <2>1
<1> QED
  BY <1>1, <1>2, <1>3, <1>4, <1>5, <1>6

\* A download that is done is that of a host that has come to its end.
LEMMA DfuWhole ==
  ASSUME DfuInv PROVE DfuTypeOK /\ DownloadWhole
BY DEF DfuInv, DownloadWhole, Downloaded

-----------------------------------------------------------------------------
(* The copy.                                                               *)

IsQspi == dev \in {"QSPI24", "QSPI32"}

\* What the call was given, and what can be in a device.
Given ==
  /\ arg \in Nat \X Nat /\ arg[1] <= SrcAddress
  /\ SrcAddress + RemainingBytes = arg[1] + arg[2]
  /\ dev # "none"
  /\ IsQspi =>
       /\ medium \in Flashes /\ arg[1] + arg[2] <= TrueSize
       /\ medium.chip <= Bank => bank["lower"] = 0 /\ bank["upper"] = 0
  /\ dev = "NAND" =>
       /\ medium.bad \subseteq 0..NandBlocks-1 /\ arg[1] < NandBlocks * Block
       /\ medium.offset \in Nat /\ medium.offset <= arg[1]
  /\ dev \in {"SD", "USB"} => medium \in Nat

\* While a copy goes on: what is left; in a parallel flash a turn begins with the
\* lower chip, and what reads in one go has not begun.
Going ==
  /\ RemainingBytes > 0
  /\ IsQspi => arg[1] + arg[2] <= FlashSize /\ (Parallel => SrcAddress % 2 = 0)
  /\ ~IsQspi => SrcAddress = arg[1]

SoFar == Len(dest) = SrcAddress - arg[1] /\ \A k \in 1..Len(dest) : dest[k] = arg[1] + k - 1

CopyInv ==
  /\ CopyTypeOK
  /\ copyStage = "Idle" => dest = <<>>
  /\ copyStage # "Idle" => Given
  /\ copyStage = "Copying" => Going
  /\ copyStage = "Done" => RemainingBytes = 0
  /\ copyStage \in {"Copying", "Done"} /\ Regular => SoFar

\* A flash of the list.
LEMMA FlashFacts ==
  ASSUME NEW m \in Flashes
  PROVE  m.mode \in Modes /\ m.make \in {"Micron", "Spansion", "other"} /\ m.chip \in {1, 2, 4, 8}
BY CopyAssumption

\* Two runs of addresses one after the other are a run.
LEMMA RunsOn ==
  ASSUME NEW p \in Seq(Nat), NEW q \in Seq(Nat), NEW b \in Nat,
         \A k \in 1..Len(p) : p[k] = b + k - 1,
         \A k \in 1..Len(q) : q[k] = b + Len(p) + k - 1
  PROVE  /\ p \o q \in Seq(Nat) /\ Len(p \o q) = Len(p) + Len(q)
         /\ \A k \in 1..Len(p \o q) : (p \o q)[k] = b + k - 1
<1>1. p \o q \in Seq(Nat) /\ Len(p \o q) = Len(p) + Len(q)
  OBVIOUS
<1>2. ASSUME NEW k \in 1..Len(p \o q)
      PROVE  (p \o q)[k] = b + k - 1
  <2>1. k \in 1..Len(p) + Len(q) /\ Len(p) \in Nat /\ Len(q) \in Nat
    BY <1>1
  <2>2. CASE k <= Len(p)
    <3>1. (p \o q)[k] = p[k] /\ k \in 1..Len(p)
      BY <2>1, <2>2
    <3> QED
      BY <3>1
  <2>3. CASE k > Len(p)
    <3>1. (p \o q)[k] = q[k - Len(p)] /\ k - Len(p) \in 1..Len(q)
      BY <2>1, <2>3
    <3>2. q[k - Len(p)] = b + Len(p) + (k - Len(p)) - 1
      BY <3>1
    <3>3. b + Len(p) + (k - Len(p)) - 1 = b + k - 1
      BY <2>1
    <3> QED
      BY <3>1, <3>2, <3>3
  <2> QED
    BY <2>1, <2>2, <2>3
<1> QED
  BY <1>1, <1>2

-----------------------------------------------------------------------------
(* A turn at a QSPI flash.                                                 *)

\* A turn ends in the bank it begins in.
LEMMA BankEndIs ==
  ASSUME NEW size \in {2, 4}, NEW orig \in Nat, NEW n \in Nat, n > 0
  PROVE  /\ BankEnd(orig, n, size) \in 1..n
         /\ \A k \in 1..BankEnd(orig, n, size) : (orig + k - 1) \div size = orig \div size
         /\ orig % 2 = 0 => BankEnd(orig, n, size) = n \/ BankEnd(orig, n, size) % 2 = 0
<1>1. CASE size = 2
  BY <1>1 DEF BankEnd
<1>2. CASE size = 4
  BY <1>2 DEF BankEnd
<1> QED
  BY <1>1, <1>2

\* The numbers of a copy that goes on.
LEMMA GoingFacts ==
  ASSUME CopyInv, copyStage = "Copying"
  PROVE  /\ SrcAddress \in Nat /\ RemainingBytes \in Nat /\ RemainingBytes > 0
         /\ arg[1] \in Nat /\ arg[2] \in Nat /\ arg[1] <= SrcAddress
         /\ SrcAddress + RemainingBytes = arg[1] + arg[2]
         /\ dest \in Seq(Nat) /\ bank \in [{"lower", "upper"} -> 0..3]
BY DEF CopyInv, CopyTypeOK, Given, Going

\* A flash of 24 bits: which chip a turn reads from, and where.
LEMMA Qspi24At ==
  ASSUME CopyInv, copyStage = "Copying", dev = "QSPI24"
  PROVE  /\ medium \in Flashes /\ QspiAddr \in Nat /\ QspiAddr < medium.chip
         /\ FlashSize = TrueSize /\ SrcAddress + RemainingBytes <= TrueSize
         /\ Parallel => Selected = {"lower", "upper"} /\ QspiAddr = SrcAddress \div 2
                        /\ TrueSize = 2 * medium.chip /\ SrcAddress % 2 = 0
         /\ ~Parallel => \/ Selected = {"lower"} /\ QspiAddr = SrcAddress
                         \/ Selected = {"upper"} /\ QspiAddr + medium.chip = SrcAddress
         /\ ~Parallel /\ ~Stacked => QspiAddr = SrcAddress /\ TrueSize = medium.chip
         /\ Stacked => TrueSize = 2 * medium.chip /\ ~Parallel
<1>1. medium \in Flashes /\ arg[1] + arg[2] <= TrueSize /\ arg[1] + arg[2] <= FlashSize
      /\ (Parallel => SrcAddress % 2 = 0)
  BY DEF CopyInv, Given, Going, IsQspi
<1>2. medium.chip \in {1, 2, 4, 8} /\ medium.mode \in Modes
  BY <1>1, FlashFacts
<1>3. FlashSize = TrueSize /\ ChipSize = medium.chip
  BY DEF FlashSize, TrueSize, ChipSize
<1>4. SrcAddress + RemainingBytes <= TrueSize /\ SrcAddress \in Nat /\ SrcAddress < TrueSize
  <2>1. TrueSize \in Nat
    BY <1>2 DEF TrueSize
  <2> QED
    BY <1>1, <2>1, GoingFacts
<1>5. CASE medium.mode = "single"
  BY <1>1, <1>2, <1>3, <1>4, <1>5 DEF Parallel, Stacked, TrueSize, FlashSize, QspiAddr, Selected
<1>6. CASE medium.mode = "stacked"
  <2>1. TrueSize = 2 * medium.chip /\ FlashSize \div 2 = medium.chip /\ Stacked /\ ~Parallel
    BY <1>2, <1>3, <1>6 DEF TrueSize, Parallel, Stacked
  <2>2. CASE SrcAddress >= medium.chip
    <3>1. Selected = {"upper"} /\ QspiAddr = SrcAddress - medium.chip
      BY <2>1, <2>2 DEF Selected, QspiAddr
    <3>2. /\ SrcAddress - medium.chip \in Nat /\ SrcAddress - medium.chip < medium.chip
          /\ (SrcAddress - medium.chip) + medium.chip = SrcAddress
      BY <1>2, <1>4, <2>1, <2>2
    <3> QED
      BY <1>1, <1>3, <1>4, <2>1, <3>1, <3>2
  <2>3. CASE ~(SrcAddress >= medium.chip)
    <3>1. Selected = {"lower"} /\ QspiAddr = SrcAddress
      BY <2>1, <2>3 DEF Selected, QspiAddr
    <3> QED
      BY <1>1, <1>2, <1>3, <1>4, <2>1, <2>3, <3>1
  <2> QED
    BY <2>2, <2>3
<1>7. CASE medium.mode = "parallel"
  <2>1. TrueSize = 2 * medium.chip /\ ~Stacked /\ Parallel
    BY <1>2, <1>3, <1>7 DEF TrueSize, Parallel, Stacked
  <2>2. Selected = {"lower", "upper"} /\ QspiAddr = SrcAddress \div 2
    BY <2>1 DEF Selected, QspiAddr
  <2>3. SrcAddress \div 2 \in Nat /\ SrcAddress \div 2 < medium.chip
    BY <1>2, <1>4, <2>1
  <2> QED
    BY <1>1, <1>3, <1>4, <2>1, <2>2, <2>3
<1> QED
  BY <1>2, <1>5, <1>6, <1>7 DEF Modes

\* The bank register then tells where.
LEMMA Qspi24Bank ==
  ASSUME CopyInv, Qspi24Copy
  PROVE  /\ bank' \in [{"lower", "upper"} -> 0..3]
         /\ medium.chip <= Bank => bank'["lower"] = 0 /\ bank'["upper"] = 0
         /\ Regular => \A c \in Selected : bank'[c] = QspiAddr \div Bank
<1> DEFINE size == IF Parallel THEN 2 * Bank ELSE Bank
<1>1. /\ copyStage = "Copying" /\ dev = "QSPI24"
      /\ bank' = IF FlashSize > size THEN BankSelect(QspiAddr \div Bank) ELSE bank
  BY DEF Qspi24Copy
<1>2. /\ medium \in Flashes /\ QspiAddr \in Nat /\ QspiAddr < medium.chip
      /\ Selected \subseteq {"lower", "upper"}
      /\ FlashSize = TrueSize
  BY <1>1, Qspi24At
<1>3. medium.chip \in {1, 2, 4, 8} /\ medium.make \in {"Micron", "Spansion", "other"}
  BY <1>2, FlashFacts
<1>4. bank \in [{"lower", "upper"} -> 0..3]
      /\ (medium.chip <= Bank => bank["lower"] = 0 /\ bank["upper"] = 0)
  BY <1>1 DEF CopyInv, CopyTypeOK, Given, IsQspi
<1>5. QspiAddr \div Bank \in 0..3 /\ (medium.chip <= Bank => QspiAddr \div Bank = 0)
  BY <1>2, <1>3 DEF Bank
<1>6. CASE FlashSize > size /\ medium.make \in {"Micron", "Spansion"}
  <2>1. bank' = [c \in {"lower", "upper"} |-> IF c \in Selected THEN QspiAddr \div Bank ELSE bank[c]]
    BY <1>1, <1>4, <1>6 DEF BankSelect
  <2> QED
    BY <1>2, <1>4, <1>5, <2>1
<1>7. CASE ~(FlashSize > size) \/ medium.make = "other"
  <2>1. bank' = bank
    BY <1>1, <1>7 DEF BankSelect
  <2>2. Regular => medium.chip <= Bank
    <3>1. CASE medium.make = "other"
      BY <1>1, <3>1 DEF Regular
    <3>2. CASE ~(FlashSize > size)
      BY <1>1, <1>2, <1>3, <3>2, Qspi24At DEF Bank
    <3> QED
      BY <1>7, <3>1, <3>2
  <2> QED
    BY <1>2, <1>4, <1>5, <2>1, <2>2
<1> QED
  BY <1>3, <1>6, <1>7

\* With the bank of its address selected a chip answers what it has there.
LEMMA CellIs ==
  ASSUME NEW chip, NEW a \in Nat, medium.chip \in {1, 2, 4, 8}, a < medium.chip,
         dev = "QSPI24" => bank'[chip] = a \div Bank
  PROVE  Cell(chip, a) = a
<1>1. CASE dev = "QSPI24"
  <2>1. (a \div Bank) * Bank + (a % Bank) = a
    BY DEF Bank
  <2>2. Cell(chip, a) = a % medium.chip
    BY <1>1, <2>1 DEF Cell
  <2> QED
    BY <2>2
<1>2. CASE dev # "QSPI24"
  BY <1>2 DEF Cell
<1> QED
  BY <1>1, <1>2

\* A chip answers with an address.
LEMMA CellType ==
  ASSUME NEW chip \in {"lower", "upper"}, NEW a \in Nat, medium.chip \in {1, 2, 4, 8},
         bank' \in [{"lower", "upper"} -> 0..3]
  PROVE  Cell(chip, a) \in Nat
<1>1. CASE dev = "QSPI24"
  <2>1. bank'[chip] * Bank + (a % Bank) \in Nat
    BY DEF Bank
  <2> QED
    BY <1>1, <2>1 DEF Cell
<1>2. CASE dev # "QSPI24"
  BY <1>2 DEF Cell
<1> QED
  BY <1>1, <1>2

\* A read has as many units as it asks for.
LEMMA ReadTypes ==
  ASSUME NEW from \in Nat, NEW n \in Nat, medium.chip \in {1, 2, 4, 8},
         bank' \in [{"lower", "upper"} -> 0..3],
         Parallel \/ Selected = {"lower"} \/ Selected = {"upper"}
  PROVE  ReadChips(from, n) \in Seq(Nat) /\ Len(ReadChips(from, n)) = n
<1> DEFINE at(k) == IF Parallel THEN 2 * Cell("lower", from + (k - 1) \div 2) + ((k - 1) % 2)
                    ELSE LET chip == CHOOSE c \in Selected : TRUE
                         IN  Flat(chip, Cell(chip, from + k - 1))
<1>1. ASSUME NEW k \in 1..n
      PROVE  at(k) \in Nat
  <2>1. CASE Parallel
    <3>1. from + (k - 1) \div 2 \in Nat /\ (k - 1) % 2 \in Nat
      OBVIOUS
    <3>2. Cell("lower", from + (k - 1) \div 2) \in Nat
      BY <3>1, CellType
    <3> QED
      BY <2>1, <3>1, <3>2
  <2>2. CASE ~Parallel
    <3>1. (CHOOSE c \in Selected : TRUE) \in {"lower", "upper"}
      BY <2>2
    <3>2. from + k - 1 \in Nat
      OBVIOUS
    <3>3. Cell(CHOOSE c \in Selected : TRUE, from + k - 1) \in Nat
      BY <3>1, <3>2, CellType
    <3> QED
      BY <2>2, <3>3 DEF Flat
  <2> QED
    BY <2>1, <2>2
<1>2. ReadChips(from, n) = [k \in 1..n |-> at(k)]
  BY DEF ReadChips
<1> HIDE DEF at
<1>3. ReadChips(from, n) \in [1..n -> Nat]
  BY <1>1, <1>2
<1> QED
  BY <1>3

\* Two chips side by side answer the units in turn.
LEMMA ReadParallel ==
  ASSUME Parallel, NEW s \in Nat, s % 2 = 0, NEW n \in Nat, medium.chip \in {1, 2, 4, 8},
         s + n <= 2 * medium.chip,
         dev = "QSPI24" => bank'["lower"] = (s \div 2) \div Bank
                           /\ \A k \in 1..n : (s + k - 1) \div (2 * Bank) = s \div (2 * Bank)
  PROVE  \A k \in 1..n : ReadChips(s \div 2, n)[k] = s + k - 1
<1> SUFFICES ASSUME NEW k \in 1..n PROVE ReadChips(s \div 2, n)[k] = s + k - 1
  OBVIOUS
<1> DEFINE a == (s \div 2) + ((k - 1) \div 2)
<1>1. a \in Nat /\ a = (s + k - 1) \div 2 /\ 2 * a + ((k - 1) % 2) = s + k - 1
  OBVIOUS
<1>2. a < medium.chip
  BY <1>1
<1>3. dev = "QSPI24" => bank'["lower"] = a \div Bank
  <2>1. \A u \in Nat : (u \div 2) \div 2 = u \div 4
    OBVIOUS
  <2>2. s + k - 1 \in Nat
    OBVIOUS
  <2> QED
    BY <1>1, <2>1, <2>2 DEF Bank
<1> HIDE DEF a
<1>4. Cell("lower", a) = a
  BY <1>1, <1>2, <1>3, CellIs
<1>5. ReadChips(s \div 2, n)[k] = 2 * Cell("lower", a) + ((k - 1) % 2)
  BY DEF ReadChips, a
<1> QED
  BY <1>1, <1>4, <1>5

\* A chip of its own, or the lower or upper one of two.
LEMMA ReadAlone ==
  ASSUME ~Parallel, NEW a \in Nat, NEW s \in Nat, NEW n \in Nat, medium.chip \in {1, 2, 4, 8},
         a + n <= medium.chip, NEW sel, Selected = {sel},
         (sel = "upper" /\ a + medium.chip = s) \/ (sel = "lower" /\ a = s),
         dev = "QSPI24" => bank'[sel] = a \div Bank
                           /\ \A k \in 1..n : (a + k - 1) \div Bank = a \div Bank
  PROVE  \A k \in 1..n : ReadChips(a, n)[k] = s + k - 1
<1> SUFFICES ASSUME NEW k \in 1..n PROVE ReadChips(a, n)[k] = s + k - 1
  OBVIOUS
<1>1. a + k - 1 \in Nat /\ a + k - 1 < medium.chip
  OBVIOUS
<1>2. Cell(sel, a + k - 1) = a + k - 1
  BY <1>1, CellIs
<1>3. (CHOOSE c \in Selected : TRUE) = sel
  OBVIOUS
<1>4. ReadChips(a, n)[k] = Flat(sel, Cell(sel, a + k - 1))
  BY <1>3 DEF ReadChips
<1> QED
  BY <1>1, <1>2, <1>4 DEF Flat

-----------------------------------------------------------------------------
(* A turn of any device, and the copy.                                     *)

\* A turn that has read what it should leaves less to do, and what was copied runs on.
LEMMA TurnKeeps ==
  ASSUME CopyInv, copyStage = "Copying", UNCHANGED inputVars,
         NEW n \in 1..RemainingBytes, NEW read \in Seq(Nat), Advance(n, read),
         bank' \in [{"lower", "upper"} -> 0..3],
         IsQspi /\ medium.chip <= Bank => bank'["lower"] = 0 /\ bank'["upper"] = 0,
         IsQspi /\ Parallel => n = RemainingBytes \/ n % 2 = 0,
         ~IsQspi => n = RemainingBytes,
         Regular => Len(read) = n /\ \A k \in 1..n : read[k] = SrcAddress + k - 1
  PROVE  CopyInv'
<1> DEFINE s == SrcAddress
           r == RemainingBytes
<1>1. /\ s \in Nat /\ r \in Nat /\ n \in Nat /\ arg[1] \in Nat /\ arg[1] <= s
      /\ s + r = arg[1] + arg[2] /\ dest \in Seq(Nat)
  BY GoingFacts
<1>2. /\ dest' = dest \o read /\ SrcAddress' = s + n /\ RemainingBytes' = r - n
      /\ copyStage' = IF r - n = 0 THEN "Done" ELSE "Copying"
      /\ dev' = dev /\ medium' = medium /\ arg' = arg
  BY DEF Advance, inputVars
<1>3. /\ s + n \in Nat /\ r - n \in Nat /\ arg[1] <= s + n /\ (s + n) + (r - n) = arg[1] + arg[2]
      /\ (r - n # 0 => r - n > 0)
  BY <1>1
<1>4. dest' \in Seq(Nat)
  BY <1>1, <1>2
<1>5. /\ Parallel' = Parallel /\ Stacked' = Stacked /\ FlashSize' = FlashSize
      /\ TrueSize' = TrueSize /\ Regular' = Regular /\ IsQspi' = IsQspi
  BY <1>2 DEF Parallel, Stacked, FlashSize, TrueSize, ChipSize, Regular, IsQspi
<1>6. CopyTypeOK'
  BY <1>2, <1>3, <1>4 DEF CopyTypeOK, CopyInv
<1>7. Given'
  BY <1>2, <1>3, <1>5 DEF Given, CopyInv
<1>8. ASSUME copyStage' = "Copying"
      PROVE  Going'
  <2>1. r - n > 0
    BY <1>2, <1>3, <1>8
  <2>2. IsQspi /\ Parallel => (s + n) % 2 = 0
    <3>1. IsQspi /\ Parallel => s % 2 = 0 /\ n % 2 = 0
      BY <1>1, <2>1 DEF CopyInv, Going
    <3>2. \A x, y \in Nat : x % 2 = 0 /\ y % 2 = 0 => (x + y) % 2 = 0
      OBVIOUS
    <3> QED
      BY <1>1, <3>1, <3>2
  <2>3. IsQspi
    BY <1>1, <2>1
  <2> QED
    BY <1>2, <1>5, <2>1, <2>2, <2>3 DEF CopyInv, Going
<1>9. ASSUME Regular
      PROVE  SoFar'
  <2>1. Len(dest) = s - arg[1] /\ \A k \in 1..Len(dest) : dest[k] = arg[1] + k - 1
    BY <1>9 DEF CopyInv, SoFar
  <2>2. arg[1] + Len(dest) = s /\ Len(read) = n
    BY <1>1, <1>9, <2>1
  <2>3. \A k \in 1..Len(read) : read[k] = arg[1] + Len(dest) + k - 1
    BY <1>9, <2>2
  <2>4. /\ Len(dest \o read) = Len(dest) + Len(read)
        /\ \A k \in 1..Len(dest \o read) : (dest \o read)[k] = arg[1] + k - 1
    BY <1>1, <2>1, <2>3, RunsOn
  <2>5. Len(dest) + Len(read) = (s + n) - arg[1]
    BY <1>1, <2>1, <2>2
  <2> QED
    BY <1>2, <2>4, <2>5 DEF SoFar
<1> HIDE DEF s, r
<1>10. copyStage' \in {"Copying", "Done"} /\ (copyStage' = "Done" => r - n = 0)
  BY <1>2
<1> QED
  BY <1>2, <1>5, <1>6, <1>7, <1>8, <1>9, <1>10 DEF CopyInv

\* A turn of XFsbl_Qspi24Copy: it ends with its bank, and so with its chip.
LEMMA Qspi24Keeps ==
  ASSUME CopyInv, Qspi24Copy
  PROVE  CopyInv'
<1> DEFINE size == IF Parallel THEN 2 * Bank ELSE Bank
           orig == IF Parallel THEN 2 * QspiAddr ELSE QspiAddr
           want == SmallerOf(RemainingBytes, DmaTran)
           n == BankEnd(orig, want, size)
<1>1. /\ copyStage = "Copying" /\ dev = "QSPI24" /\ IsQspi
      /\ Advance(n, ReadChips(QspiAddr, n)) /\ UNCHANGED inputVars
  BY DEF Qspi24Copy, IsQspi
<1>2. /\ medium \in Flashes /\ QspiAddr \in Nat /\ QspiAddr < medium.chip
      /\ FlashSize = TrueSize /\ SrcAddress + RemainingBytes <= TrueSize
      /\ Parallel => Selected = {"lower", "upper"} /\ QspiAddr = SrcAddress \div 2
                     /\ TrueSize = 2 * medium.chip /\ SrcAddress % 2 = 0
      /\ ~Parallel => \/ Selected = {"lower"} /\ QspiAddr = SrcAddress
                      \/ Selected = {"upper"} /\ QspiAddr + medium.chip = SrcAddress
      /\ ~Parallel /\ ~Stacked => QspiAddr = SrcAddress /\ TrueSize = medium.chip
      /\ Stacked => TrueSize = 2 * medium.chip /\ ~Parallel
  BY <1>1, Qspi24At
<1>3. medium.chip \in {1, 2, 4, 8}
  BY <1>2, FlashFacts
<1>4. /\ SrcAddress \in Nat /\ RemainingBytes \in Nat /\ want \in 1..RemainingBytes
      /\ (want = RemainingBytes \/ want % 2 = 0)
  BY <1>1, GoingFacts, CopyAssumption DEF SmallerOf
<1>5. size \in {2, 4} /\ orig \in Nat /\ (Parallel => orig = SrcAddress)
  BY <1>2, <1>4 DEF Bank
<1> HIDE DEF want
<1>6. /\ n \in 1..want /\ \A k \in 1..n : (orig + k - 1) \div size = orig \div size
      /\ orig % 2 = 0 => n = want \/ n % 2 = 0
  <2> HIDE DEF size, orig
  <2>1. want \in Nat /\ want > 0
    BY <1>4
  <2> QED
    BY <1>5, <2>1, BankEndIs
<1>7. /\ bank' \in [{"lower", "upper"} -> 0..3]
      /\ medium.chip <= Bank => bank'["lower"] = 0 /\ bank'["upper"] = 0
      /\ Regular => \A c \in Selected : bank'[c] = QspiAddr \div Bank
  BY Qspi24Bank
<1>8. n \in 1..RemainingBytes /\ n \in Nat
  BY <1>4, <1>6
<1> HIDE DEF n
<1>9. ReadChips(QspiAddr, n) \in Seq(Nat) /\ Len(ReadChips(QspiAddr, n)) = n
  BY <1>2, <1>3, <1>7, <1>8, ReadTypes
<1>10. ASSUME Regular
       PROVE  \A k \in 1..n : ReadChips(QspiAddr, n)[k] = SrcAddress + k - 1
  <2>1. CASE Parallel
    <3>1. \A k \in 1..n : (SrcAddress + k - 1) \div (2 * Bank) = SrcAddress \div (2 * Bank)
      BY <1>5, <1>6, <2>1
    <3>2. SrcAddress + n <= 2 * medium.chip
      BY <1>2, <1>3, <1>4, <1>8, <2>1
    <3>3. bank'["lower"] = (SrcAddress \div 2) \div Bank
      BY <1>2, <1>7, <1>10, <2>1
    <3>4. QspiAddr = SrcAddress \div 2 /\ SrcAddress % 2 = 0 /\ SrcAddress \in Nat
      BY <1>2, <1>4, <2>1
    <3>5. \A k \in 1..n : ReadChips(SrcAddress \div 2, n)[k] = SrcAddress + k - 1
      BY <1>3, <1>8, <2>1, <3>1, <3>2, <3>3, <3>4, ReadParallel
    <3> QED
      BY <3>4, <3>5
  <2>2. CASE ~Parallel
    <3>1. \A k \in 1..n : (QspiAddr + k - 1) \div Bank = QspiAddr \div Bank
      BY <1>6, <2>2
    <3>2. QspiAddr + n <= medium.chip
      <4>1. CASE Stacked
        <5>1. medium.chip \in {2, 4, 8}
          BY <1>1, <1>3, <1>10, <4>1 DEF Regular, Bank
        <5>2. (QspiAddr + n - 1) \div 2 = QspiAddr \div 2
          BY <1>8, <3>1 DEF Bank
        <5> QED
          BY <1>2, <1>8, <5>1, <5>2
      <4>2. CASE ~Stacked
        BY <1>2, <1>3, <1>4, <1>8, <2>2, <4>2
      <4> QED
        BY <4>1, <4>2
    <3>3. PICK sel \in {"lower", "upper"} :
            /\ Selected = {sel}
            /\ \/ sel = "upper" /\ QspiAddr + medium.chip = SrcAddress
               \/ sel = "lower" /\ QspiAddr = SrcAddress
      <4>1. CASE Selected = {"lower"} /\ QspiAddr = SrcAddress
        BY <4>1
      <4>2. CASE Selected = {"upper"} /\ QspiAddr + medium.chip = SrcAddress
        <5> WITNESS "upper" \in {"lower", "upper"}
        <5> QED
          BY <4>2
      <4> QED
        BY <1>2, <2>2, <4>1, <4>2
    <3>4. bank'[sel] = QspiAddr \div Bank
      BY <1>7, <1>10, <3>3
    <3> QED
      BY <1>2, <1>3, <1>4, <1>8, <2>2, <3>1, <3>2, <3>3, <3>4, ReadAlone
  <2> QED
    BY <2>1, <2>2
<1>11. Parallel => n = RemainingBytes \/ n % 2 = 0
  BY <1>2, <1>4, <1>5, <1>6
<1> QED
  BY <1>1, <1>7, <1>8, <1>9, <1>10, <1>11, TurnKeeps

\* A call that fails copies nothing more.
LEMMA CopyFailKeeps ==
  ASSUME CopyInv, copyStage = "Copying", Fails, UNCHANGED <<inputVars, bank>>
  PROVE  CopyInv'
<1>1. /\ copyStage' = "Err" /\ bank' = bank /\ dev' = dev /\ medium' = medium /\ arg' = arg
      /\ SrcAddress' = SrcAddress /\ RemainingBytes' = RemainingBytes /\ dest' = dest
  BY DEF Fails, inputVars
<1>2. CopyTypeOK' /\ Given'
  BY <1>1 DEF CopyInv, CopyTypeOK, Given, IsQspi, TrueSize
<1> QED
  BY <1>1, <1>2 DEF CopyInv

\* With 32 bits: a regular flash is one chip, two side by side, or two of which a copy
\* meets one.
LEMMA Qspi32Keeps ==
  ASSUME CopyInv, Qspi32Copy
  PROVE  CopyInv'
<1> DEFINE n == SmallerOf(RemainingBytes, DmaTran)
           s == SrcAddress
           r == RemainingBytes
<1>1. /\ copyStage = "Copying" /\ dev = "QSPI32" /\ IsQspi /\ bank' = bank
      /\ Advance(n, ReadChips(QspiAddr, n)) /\ UNCHANGED inputVars
  BY DEF Qspi32Copy, IsQspi
<1>2. /\ medium \in Flashes /\ arg[1] + arg[2] <= TrueSize /\ arg[1] + arg[2] <= FlashSize
      /\ Parallel => s % 2 = 0
      /\ medium.chip <= Bank => bank["lower"] = 0 /\ bank["upper"] = 0
  BY <1>1 DEF CopyInv, Given, Going
<1>3. medium.chip \in {1, 2, 4, 8} /\ medium.mode \in Modes
  BY <1>2, FlashFacts
<1>4. /\ s \in Nat /\ r \in Nat /\ r > 0 /\ arg[1] \in Nat /\ arg[2] \in Nat
      /\ arg[1] <= s /\ s + r = arg[1] + arg[2] /\ bank' \in [{"lower", "upper"} -> 0..3]
  BY <1>1, GoingFacts
<1>5. n \in 1..r /\ n \in Nat /\ (n = r \/ n % 2 = 0)
  BY <1>4, CopyAssumption DEF SmallerOf
<1> HIDE DEF n
<1>6. /\ QspiAddr \in Nat
      /\ Parallel => QspiAddr = s \div 2
      /\ Parallel \/ Selected = {"lower"} \/ Selected = {"upper"}
  BY <1>3, <1>4 DEF QspiAddr, Selected, FlashSize, ChipSize, Parallel, Stacked, Modes, Qspi32Chip
<1>7. ReadChips(QspiAddr, n) \in Seq(Nat) /\ Len(ReadChips(QspiAddr, n)) = n
  BY <1>3, <1>4, <1>5, <1>6, ReadTypes
<1>8. ASSUME Regular
      PROVE  \A k \in 1..n : ReadChips(QspiAddr, n)[k] = s + k - 1
  <2>1. CASE medium.mode = "single"
    <3>1. ~Parallel /\ ~Stacked /\ TrueSize = medium.chip
      BY <2>1 DEF Parallel, Stacked, TrueSize
    <3>2. Selected = {"lower"} /\ QspiAddr = s
      BY <3>1 DEF Selected, QspiAddr
    <3>3. s + n <= medium.chip
      BY <1>2, <1>3, <1>4, <1>5, <3>1
    <3> QED
      BY <1>1, <1>3, <1>4, <1>5, <1>6, <3>1, <3>2, <3>3, ReadAlone
  <2>2. CASE medium.mode = "parallel"
    <3>1. Parallel /\ TrueSize = 2 * medium.chip
      BY <2>2 DEF Parallel, TrueSize
    <3>2. s + n <= 2 * medium.chip
      BY <1>2, <1>3, <1>4, <1>5, <3>1
    <3> QED
      BY <1>1, <1>2, <1>3, <1>4, <1>5, <1>6, <3>1, <3>2, ReadParallel
  <2>3. CASE medium.mode = "stacked"
    <3>1. ~Parallel /\ Stacked /\ FlashSize \div 2 = 8 /\ TrueSize = 2 * medium.chip
      BY <1>1, <2>3 DEF Parallel, Stacked, FlashSize, ChipSize, TrueSize, Qspi32Chip
    <3>2. medium.chip = 8 /\ (arg[1] < 8 => arg[1] + arg[2] <= 8)
      BY <1>1, <1>8, <3>1 DEF Regular, Qspi32Chip
    <3>3. CASE s >= 8
      <4>1. Selected = {"upper"} /\ QspiAddr = s - 8
        BY <3>1, <3>3 DEF Selected, QspiAddr
      <4>2. s - 8 \in Nat /\ (s - 8) + 8 = s /\ (s - 8) + n <= 8
        BY <1>2, <1>4, <1>5, <3>1, <3>2, <3>3
      <4>3. QspiAddr + n <= medium.chip /\ QspiAddr + medium.chip = s
        BY <3>2, <4>1, <4>2
      <4> QED
        <5>1. s \in Nat /\ n \in Nat /\ QspiAddr \in Nat /\ dev # "QSPI24" /\ ~Parallel
          BY <1>1, <1>4, <1>5, <1>6, <3>1
        <5>2. Selected = {"upper"}
          BY <4>1
        <5> HIDE DEF s
        <5> QED
          BY <1>3, <4>3, <5>1, <5>2, ReadAlone
    <3>4. CASE s < 8
      <4>1. Selected = {"lower"} /\ QspiAddr = s
        BY <1>4, <3>1, <3>4 DEF Selected, QspiAddr
      <4>2. s + n <= medium.chip
        BY <1>4, <1>5, <3>2, <3>4
      <4> QED
        BY <1>1, <1>3, <1>4, <1>5, <1>6, <3>1, <4>1, <4>2, ReadAlone
    <3> QED
      BY <1>4, <3>3, <3>4
  <2> QED
    BY <1>3, <2>1, <2>2, <2>3 DEF Modes
<1>9. Parallel => n = RemainingBytes \/ n % 2 = 0
  BY <1>5
<1> QED
  BY <1>1, <1>2, <1>4, <1>5, <1>7, <1>8, <1>9, TurnKeeps

\* A file is read, as far as it goes, in one go.
LEMMA FileKeeps ==
  ASSUME CopyInv, FileCopy
  PROVE  CopyInv'
<1> DEFINE there == IF SrcAddress >= medium THEN 0
                    ELSE SmallerOf(RemainingBytes, medium - SrcAddress)
           read == [k \in 1..there |-> SrcAddress + k - 1]
<1>1. /\ copyStage = "Copying" /\ dev \in {"SD", "USB"} /\ ~IsQspi /\ bank' = bank
      /\ Advance(RemainingBytes, read) /\ UNCHANGED inputVars
  BY DEF FileCopy, IsQspi
<1>2. /\ SrcAddress \in Nat /\ RemainingBytes \in Nat /\ RemainingBytes > 0
      /\ arg[1] \in Nat /\ arg[2] \in Nat /\ SrcAddress + RemainingBytes = arg[1] + arg[2]
      /\ bank' \in [{"lower", "upper"} -> 0..3] /\ medium \in Nat
  BY <1>1, GoingFacts DEF CopyInv, Given
<1>3. there \in Nat /\ (Regular => there = RemainingBytes)
  <2>1. there \in Nat
    BY <1>2 DEF SmallerOf
  <2>2. Regular => arg[1] + arg[2] <= medium
    BY <1>1 DEF Regular
  <2> QED
    BY <1>2, <2>1, <2>2 DEF SmallerOf
<1> HIDE DEF there
<1>4. read \in Seq(Nat) /\ Len(read) = there /\ \A k \in 1..there : read[k] = SrcAddress + k - 1
  BY <1>2, <1>3
<1> HIDE DEF read
<1>5. RemainingBytes \in 1..RemainingBytes
  BY <1>2
<1> QED
  BY <1>1, <1>2, <1>3, <1>4, <1>5, TurnKeeps

-----------------------------------------------------------------------------
(* The NAND: bad blocks, counted.                                          *)

\* One more block is one more good block if it is good.
LEMMA GoodCounted ==
  ASSUME NEW b \in Nat
  PROVE  /\ GoodBefore(b) \in Nat
         /\ GoodBefore(b + 1) = IF Good(b) THEN GoodBefore(b) + 1 ELSE GoodBefore(b)
<1> DEFINE p == {x \in 0..b-1 : Good(x)}
           q == {x \in 0..(b+1)-1 : Good(x)}
<1>1. IsFiniteSet(p)
  <2>1. IsFiniteSet(0..b-1) /\ p \in SUBSET (0..b-1)
    BY FS_Interval
  <2> QED
    BY <2>1, FS_Subset
<1>2. Cardinality(p) \in Nat
  BY <1>1, FS_CardinalityType
<1>3. CASE Good(b)
  <2>1. q = p \cup {b} /\ b \notin p
    BY <1>3
  <2> HIDE DEF p, q
  <2>2. Cardinality(q) = Cardinality(p) + 1
    BY <1>1, <2>1, FS_AddElement
  <2> QED
    BY <1>2, <1>3, <2>2 DEF GoodBefore, p, q
<1>4. CASE ~Good(b)
  <2>1. q = p
    BY <1>4
  <2> QED
    BY <1>2, <1>4, <2>1 DEF GoodBefore
<1> QED
  BY <1>3, <1>4

\* Good and bad blocks among the first ones together.
LEMMA GoodAndBad ==
  ASSUME NEW b \in Nat
  PROVE  /\ IsFiniteSet({x \in 0..b : ~Good(x)})
         /\ Cardinality({x \in 0..b : ~Good(x)}) \in Nat
         /\ GoodBefore(b + 1) + Cardinality({x \in 0..b : ~Good(x)}) = b + 1
<1> DEFINE p == {x \in 0..b : Good(x)}
           q == {x \in 0..b : ~Good(x)}
<1>1. IsFiniteSet(0..b) /\ Cardinality(0..b) = b + 1
  BY FS_Interval
<1>2. IsFiniteSet(p) /\ IsFiniteSet(q)
  <2>1. p \in SUBSET (0..b) /\ q \in SUBSET (0..b)
    OBVIOUS
  <2> HIDE DEF p, q
  <2> QED
    BY <1>1, <2>1, FS_Subset
<1>3. p \cup q = 0..b /\ p \cap q = {}
  OBVIOUS
<1>4. GoodBefore(b + 1) = Cardinality(p)
  <2>1. {x \in 0..(b+1)-1 : Good(x)} = p
    OBVIOUS
  <2> QED
    BY <2>1 DEF GoodBefore
<1> HIDE DEF p, q
<1>5. Cardinality(p) \in Nat /\ Cardinality(q) \in Nat
  BY <1>2, FS_CardinalityType
<1>6. b + 1 = Cardinality(p) + Cardinality(q) - 0
  <2>1. Cardinality(p \cup q) = Cardinality(p) + Cardinality(q) - Cardinality(p \cap q)
    BY <1>2, FS_Union
  <2>2. Cardinality(p \cup q) = b + 1
    BY <1>1, <1>3
  <2>3. Cardinality(p \cap q) = 0
    BY <1>3, FS_EmptySet
  <2> QED
    BY <2>1, <2>2, <2>3
<1> QED
  BY <1>2, <1>4, <1>5, <1>6 DEF q

\* How much of the image lies before u.
Reached(u) == GoodBefore(u \div Block) * Block + (IF Good(u \div Block) THEN u % Block ELSE 0)

\* One more unit of a good block is one more of the image.
LEMMA ReachedNext ==
  ASSUME NEW u \in Nat
  PROVE  /\ Reached(u) \in Nat
         /\ Reached(u + 1) = IF Good(u \div Block) THEN Reached(u) + 1 ELSE Reached(u)
<1> DEFINE b == u \div 2
           g == GoodBefore(b)
<1>1. b \in Nat /\ g \in Nat /\ GoodBefore(b + 1) = IF Good(b) THEN g + 1 ELSE g
  BY GoodCounted
<1>2. u % 2 \in Nat
  OBVIOUS
<1>3. Reached(u) = g * 2 + (IF Good(b) THEN u % 2 ELSE 0)
  BY DEF Reached, Block
<1>4. CASE u % 2 = 0
  <2>1. (u + 1) \div 2 = b /\ (u + 1) % 2 = 1
    BY <1>4
  <2>2. Reached(u + 1) = g * 2 + (IF Good(b) THEN 1 ELSE 0)
    BY <2>1 DEF Reached, Block
  <2> HIDE DEF b, g
  <2>3. u \div Block = b
    BY DEF b, Block
  <2> QED
    BY <1>1, <1>3, <1>4, <2>2, <2>3
<1>5. CASE u % 2 # 0
  <2>1. (u + 1) \div 2 = b + 1 /\ (u + 1) % 2 = 0 /\ u % 2 = 1
    BY <1>5
  <2>2. Reached(u + 1) = GoodBefore(b + 1) * 2
    BY <1>1, <2>1 DEF Reached, Block
  <2> HIDE DEF b, g
  <2>3. u \div Block = b
    BY DEF b, Block
  <2> QED
    BY <1>1, <1>3, <2>1, <2>2, <2>3
<1> QED
  BY <1>4, <1>5

-----------------------------------------------------------------------------
(* What XNandPsu_Read returns.                                             *)

Rank(from, u) == Cardinality({v \in Following(from) : v < u})

\* What follows can be counted.
LEMMA FollowingFinite ==
  ASSUME NEW from
  PROVE  /\ Following(from) \subseteq Nat /\ IsFiniteSet(Following(from))
         /\ \A u \in Following(from) : u < NandBlocks * Block
<1>1. NandBlocks * Block - 1 \in Int /\ NandBlocks * Block \in Nat
  BY CopyAssumption DEF Block
<1>2. IsFiniteSet(0..NandBlocks*Block-1)
  BY <1>1, FS_Interval
<1>3. Following(from) \in SUBSET (0..NandBlocks*Block-1)
  BY DEF Following
<1>4. IsFiniteSet(Following(from))
  BY <1>2, <1>3, FS_Subset
<1> QED
  BY <1>1, <1>3, <1>4

\* One more unit that follows is one more read.
LEMMA RankNext ==
  ASSUME NEW from, NEW u \in Nat
  PROVE  /\ Rank(from, u) \in Nat
         /\ Rank(from, u + 1) = IF u \in Following(from) THEN Rank(from, u) + 1 ELSE Rank(from, u)
<1> DEFINE f == Following(from)
           p == {v \in f : v < u}
           q == {v \in f : v < u + 1}
<1>1. f \subseteq Nat /\ IsFiniteSet(f)
  BY FollowingFinite
<1> HIDE DEF f
<1>2. IsFiniteSet(p)
  <2>1. p \in SUBSET f
    OBVIOUS
  <2> HIDE DEF p
  <2> QED
    BY <1>1, <2>1, FS_Subset
<1>3. Cardinality(p) \in Nat
  BY <1>2, FS_CardinalityType
<1>4. \A v \in f : v < u + 1 <=> v < u \/ v = u
  BY <1>1
<1>5. ~(u < u)
  OBVIOUS
<1>6. CASE u \in f
  <2>1. q = p \cup {u} /\ u \notin p
    BY <1>4, <1>5, <1>6, Zenon
  <2> HIDE DEF p, q
  <2>2. Cardinality(q) = Cardinality(p) + 1
    BY <1>2, <2>1, FS_AddElement
  <2> QED
    BY <1>3, <1>6, <2>2 DEF Rank, f, p, q
<1>7. CASE u \notin f
  <2>1. q = p
    BY <1>4, <1>7, Zenon
  <2> QED
    BY <1>3, <1>7, <2>1 DEF Rank, f
<1> QED
  BY <1>6, <1>7

\* Nothing is before the first, and all is before the end.
LEMMA RankEnds ==
  ASSUME NEW from
  PROVE  /\ Rank(from, 0) = 0
         /\ Rank(from, NandBlocks * Block) = Cardinality(Following(from))
<1>1. /\ Following(from) \subseteq Nat
      /\ \A u \in Following(from) : u < NandBlocks * Block
  BY FollowingFinite
<1>2. {v \in Following(from) : v < 0} = {}
  BY <1>1
<1>3. {v \in Following(from) : v < NandBlocks * Block} = Following(from)
  BY <1>1
<1> QED
  BY <1>2, <1>3, FS_EmptySet DEF Rank

\* So there is one of each rank.
LEMMA RankExists ==
  ASSUME NEW from, NEW k \in Nat, k < Cardinality(Following(from))
  PROVE  \E u \in Following(from) : Rank(from, u) = k
<1> DEFINE T == {u \in Nat : Rank(from, u) > k}
<1>1. NandBlocks * Block \in Nat
  BY CopyAssumption DEF Block
<1>2. NandBlocks * Block \in T
  BY <1>1, RankEnds
<1>3. T \subseteq Nat /\ T # {}
  BY <1>2
<1>4. PICK m \in T : \A n \in T : m <= n
  BY <1>3, LeastNumber
<1>5. m \in Nat /\ Rank(from, m) > k
  BY <1>4
<1>6. m # 0
  BY <1>5, RankEnds
<1>7. m - 1 \in Nat /\ m - 1 \notin T /\ (m - 1) + 1 = m
  BY <1>4, <1>5, <1>6
<1>8. Rank(from, m - 1) \in Nat /\ ~(Rank(from, m - 1) > k)
  BY <1>7, RankNext
<1>9. Rank(from, m) = IF m - 1 \in Following(from) THEN Rank(from, m - 1) + 1 ELSE Rank(from, m - 1)
  BY <1>7, RankNext
<1> HIDE DEF T
<1>10. m - 1 \in Following(from)
  BY <1>5, <1>8, <1>9
<1>11. Rank(from, m - 1) = k
  BY <1>5, <1>8, <1>9, <1>10
<1> QED
  BY <1>10, <1>11

\* The first unit read, b: the one at the place asked for in the first good block from
\* there on.
NandFirst(from, b) ==
  /\ b \in Nat /\ b >= from /\ (b - from) % Block = 0 /\ Good(b \div Block)
  /\ \A u \in Nat : u >= from /\ u < b /\ (u - from) % Block = 0 => ~Good(u \div Block)
  /\ \A u \in Nat : u \in Following(from) <=> Good(u \div Block) /\ u >= b

\* A unit of a good block is a unit of the NAND.
LEMMA GoodInside ==
  ASSUME NEW u \in Nat, Good(u \div Block)
  PROVE  u \in 0..NandBlocks*Block-1
<1>1. u \div 2 <= NandBlocks - 1 /\ NandBlocks \in Nat
  BY CopyAssumption DEF Good, Block
<1> QED
  BY <1>1 DEF Block

\* There is one, if anything follows.
LEMMA FirstExists ==
  ASSUME NEW from \in Nat, Following(from) # {}
  PROVE  \E b : NandFirst(from, b)
<1>1. Beginning(from) # {}
  BY DEF Following
<1>2. Beginning(from) \subseteq Nat
  BY CopyAssumption DEF Beginning, Block
<1>3. PICK b \in Beginning(from) : \A n \in Beginning(from) : b <= n
  BY <1>1, <1>2, LeastNumber
<1>4. b \in Nat /\ b >= from /\ (b - from) % Block = 0 /\ Good(b \div Block)
  BY <1>2, <1>3 DEF Beginning
<1>5. ASSUME NEW u \in Nat, u >= from, u < b, (u - from) % Block = 0, Good(u \div Block)
      PROVE  FALSE
  <2>1. u \in from..NandBlocks*Block-1
    BY <1>5, GoodInside, CopyAssumption DEF Block
  <2>2. u \in Beginning(from)
    BY <1>5, <2>1 DEF Beginning
  <2>3. b <= u
    BY <1>3, <2>2
  <2> QED
    BY <1>4, <1>5, <2>3
<1>6. ASSUME NEW u \in Nat
      PROVE  u \in Following(from) <=> Good(u \div Block) /\ u >= b
  <2>1. ASSUME u \in Following(from) PROVE Good(u \div Block) /\ u >= b
    <3>1. PICK v \in Beginning(from) : v <= u
      BY <2>1 DEF Following
    <3>2. b <= v /\ v \in Nat
      BY <1>2, <1>3, <3>1
    <3> QED
      BY <1>4, <2>1, <3>1, <3>2 DEF Following
  <2>2. ASSUME Good(u \div Block), u >= b PROVE u \in Following(from)
    BY <1>3, <1>4, <2>2, GoodInside DEF Following
  <2> QED
    BY <2>1, <2>2
<1> QED
  BY <1>4, <1>5, <1>6 DEF NandFirst

\* From the first on, what is read is as far into the image as it is into the read.
LEMMA InStep ==
  ASSUME NEW from \in Nat, NEW b, NandFirst(from, b), NEW u \in Nat, u >= b
  PROVE  Reached(u) = Reached(b) + Rank(from, u)
<1> DEFINE T == {x \in Nat : x >= b /\ Reached(x) # Reached(b) + Rank(from, x)}
<1>0. b \in Nat
  BY DEF NandFirst
<1> SUFFICES ASSUME T # {} PROVE FALSE
  OBVIOUS
<1>1. T \subseteq Nat
  OBVIOUS
<1>2. PICK m \in T : \A n \in T : m <= n
  BY <1>1, LeastNumber
<1>3. m \in Nat /\ m >= b /\ Reached(m) # Reached(b) + Rank(from, m)
  BY <1>2
<1>4. Rank(from, b) = 0
  <2>1. \A v \in Following(from) : ~(v < b)
    <3>1. \A v \in Following(from) : v \in Nat
      BY FollowingFinite
    <3>2. \A v \in Following(from) : v >= b
      BY <3>1 DEF NandFirst
    <3> QED
      BY <1>0, <3>1, <3>2
  <2>2. {v \in Following(from) : v < b} = {}
    BY <2>1
  <2> QED
    BY <2>2, FS_EmptySet DEF Rank
<1>5. Reached(b) \in Nat
  BY <1>0, ReachedNext
<1>6. CASE m = b
  BY <1>3, <1>4, <1>5, <1>6
<1>7. CASE m # b
  <2>1. m - 1 \in Nat /\ m - 1 >= b /\ (m - 1) + 1 = m /\ m - 1 \notin T
    BY <1>0, <1>2, <1>3, <1>7
  <2>2. Reached(m - 1) = Reached(b) + Rank(from, m - 1)
    BY <2>1
  <2>3. m - 1 \in Following(from) <=> Good((m - 1) \div Block)
    BY <2>1 DEF NandFirst
  <2> DEFINE l == m - 1
  <2>4. l \in Nat /\ l + 1 = m
    BY <2>1
  <2> HIDE DEF l, T
  <2>5. /\ Rank(from, l) \in Nat
        /\ Rank(from, m) = IF l \in Following(from) THEN Rank(from, l) + 1 ELSE Rank(from, l)
    BY <2>4, RankNext
  <2>6. Reached(m) = IF Good(l \div Block) THEN Reached(l) + 1 ELSE Reached(l)
    BY <2>4, ReachedNext
  <2>7. Reached(l) = Reached(b) + Rank(from, l)
    BY <2>2 DEF l
  <2>8. l \in Following(from) <=> Good(l \div Block)
    BY <2>3 DEF l
  <2> QED
    BY <1>3, <1>5, <2>5, <2>6, <2>7, <2>8
<1> QED
  BY <1>6, <1>7

\* A run of bad blocks adds no good one.
LEMMA BadRun ==
  ASSUME NEW p \in Nat, NEW q \in Nat, p <= q, \A x \in p..q-1 : ~Good(x)
  PROVE  GoodBefore(q) = GoodBefore(p)
<1>1. ASSUME NEW x
      PROVE  x \in 0..q-1 /\ Good(x) <=> x \in 0..p-1 /\ Good(x)
  <2>1. x \in 0..p-1 => x \in 0..q-1
    OBVIOUS
  <2>2. x \in 0..q-1 /\ x \notin 0..p-1 => x \in p..q-1
    OBVIOUS
  <2> QED
    BY <2>1, <2>2
<1>2. {x \in 0..q-1 : Good(x)} = {x \in 0..p-1 : Good(x)}
  BY <1>1, Zenon
<1> QED
  BY <1>2 DEF GoodBefore

\* What is asked for lies in the slot of the image, in the NAND.
InSlot ==
  /\ medium.bad \subseteq 0..NandBlocks-1 /\ medium.offset \in Nat
  /\ SrcAddress \in Nat /\ medium.offset <= SrcAddress /\ SrcAddress < NandBlocks * Block

\* The last block looked at is the one asked for, or, where the image begins inside a
\* block, perhaps the one before it.
LEMMA LastCountedIs ==
  ASSUME InSlot
  PROVE  /\ ImageBlock \in Nat /\ LastCounted \in Nat /\ LastCounted <= NandBlocks - 1
         /\ LastCounted \in {SrcAddress \div 2, SrcAddress \div 2 - 1}
         /\ medium.offset % 2 = 0 => LastCounted = SrcAddress \div 2
<1>1. \A o, u, n \in Nat :
        o <= u /\ u < n * 2 =>
          /\ o \div 2 \in Nat /\ o \div 2 + (u - o) \div 2 \in Nat
          /\ o \div 2 + (u - o) \div 2 <= n - 1
          /\ o \div 2 + (u - o) \div 2 \in {u \div 2, u \div 2 - 1}
          /\ o % 2 = 0 => o \div 2 + (u - o) \div 2 = u \div 2
  OBVIOUS
<1>2. /\ medium.offset \in Nat /\ SrcAddress \in Nat /\ NandBlocks \in Nat
      /\ medium.offset <= SrcAddress /\ SrcAddress < NandBlocks * 2
  BY CopyAssumption DEF InSlot, Block
<1> DEFINE o == medium.offset
           u == SrcAddress
           first == o \div 2
           last == first + (u - o) \div 2
<1>3. o \in Nat /\ u \in Nat /\ NandBlocks \in Nat /\ o <= u /\ u < NandBlocks * 2
  BY <1>2
<1> HIDE DEF o, u
<1>4. /\ first \in Nat /\ last \in Nat /\ last <= NandBlocks - 1
      /\ last \in {u \div 2, u \div 2 - 1} /\ (o % 2 = 0 => last = u \div 2)
  BY <1>1, <1>3
<1>5. first = ImageBlock /\ last = LastCounted
  BY DEF ImageBlock, LastCounted, Block, o, u
<1> HIDE DEF first, last
<1> QED
  BY <1>4, <1>5 DEF o, u

\* No block is passed over but for a bad one up to the last looked at.
LEMMA SkippedIs ==
  ASSUME InSlot
  PROVE  /\ BadSkipped = Cardinality({x \in 0..LastCounted : ~Good(x)}) /\ BadSkipped \in Nat
         /\ {x \in 0..LastCounted : ~Good(x)} \subseteq BadBlocks
<1>1. ImageBlock \in Nat /\ LastCounted \in Nat /\ LastCounted <= NandBlocks - 1
  BY LastCountedIs
<1>2. \A x \in 0..LastCounted : x \in 0..NandBlocks-1
  BY <1>1, CopyAssumption
<1>3. \A x \in 0..LastCounted : ~Good(x) => x \in BadBlocks /\ x >= ImageBlock
  <2>1. \A x \in 0..LastCounted : ~Good(x) => x \in BadBlocks
    BY <1>2 DEF Good
  <2>2. \A x \in BadBlocks : x >= ImageBlock
    BY Zenon DEF BadBlocks
  <2> QED
    BY <2>1, <2>2
<1>4. {x \in ImageBlock..LastCounted : ~Good(x)} = {x \in 0..LastCounted : ~Good(x)}
  <2>1. \A x : x \in ImageBlock..LastCounted /\ ~Good(x) <=> x \in 0..LastCounted /\ ~Good(x)
    BY <1>1, <1>3
  <2> QED
    BY <2>1, Zenon
<1>5. Cardinality({x \in 0..LastCounted : ~Good(x)}) \in Nat
  BY <1>1, GoodAndBad
<1>6. {x \in 0..LastCounted : ~Good(x)} \subseteq BadBlocks
  BY <1>3, Zenon
<1> QED
  BY <1>4, <1>5, <1>6 DEF BadSkipped

\* With at most two bad blocks, or one if the image begins inside a block, passing over
\* a block for each bad one up to the last looked at, and then over bad ones, leads to
\* the good block of the number asked for.
LEMMA FirstRight ==
  ASSUME InSlot, dev = "NAND", Regular,
         NEW b, NandFirst(SrcAddress + BadSkipped * Block, b)
  PROVE  Reached(b) = SrcAddress
<1> DEFINE s == SrcAddress
           t == s \div 2
           l == LastCounted
           bad == {x \in 0..l : ~Good(x)}
           c == Cardinality(bad)
           q == b \div 2
<1>1. /\ t \in Nat /\ t <= NandBlocks - 1 /\ s = t * 2 + (s % 2) /\ s % 2 \in {0, 1}
      /\ s \in Nat
  BY CopyAssumption DEF Block, InSlot
<1>2. IsFiniteSet(BadBlocks) /\ Cardinality(BadBlocks) \in Nat /\ BadBlocks \subseteq Int
  <2>0. NandBlocks - 1 \in Int
    BY CopyAssumption
  <2>1. BadBlocks \in SUBSET (0..NandBlocks-1)
    BY Zenon DEF BadBlocks, InSlot
  <2>2. IsFiniteSet(BadBlocks)
    <3>1. IsFiniteSet(0..NandBlocks-1)
      BY <2>0, FS_Interval
    <3> QED
      BY <2>1, <3>1, FS_Subset, Zenon
  <2>3. \A x \in 0..NandBlocks-1 : x \in Int
    BY <2>0
  <2> QED
    BY <2>1, <2>2, <2>3, FS_CardinalityType
<1>3. bad \in SUBSET BadBlocks
  BY SkippedIs
<1>4. IsFiniteSet(bad) /\ c \in Nat /\ GoodBefore(l + 1) + c = l + 1 /\ l \in Nat
  BY LastCountedIs, GoodAndBad
<1>5. /\ c <= 2 /\ (c = 2 => bad = BadBlocks /\ l = t) /\ l \in {t, t - 1}
      /\ l # t => c <= 1 /\ (c = 1 => bad = BadBlocks)
  <2>0. Cardinality(BadBlocks) <= IF medium.offset % 2 = 0 THEN 2 ELSE 1
    BY DEF Regular, Block
  <2>01. l \in {t, t - 1} /\ (medium.offset % 2 = 0 => l = t)
    BY LastCountedIs
  <2> HIDE DEF bad, l, t
  <2>1. c <= Cardinality(BadBlocks) /\ (c = Cardinality(BadBlocks) => bad = BadBlocks)
    BY <1>2, <1>3, FS_Subset
  <2> QED
    BY <1>2, <1>4, <2>0, <2>01, <2>1
<1>6. SrcAddress + BadSkipped * Block = s + c * 2
  BY SkippedIs DEF Block
<1> HIDE DEF c
<1>7. /\ b \in Nat /\ b >= s + c * 2 /\ (b - (s + c * 2)) % 2 = 0 /\ Good(q)
      /\ \A u \in Nat : u >= s + c * 2 /\ u < b /\ (u - (s + c * 2)) % 2 = 0 => ~Good(u \div 2)
  BY <1>6 DEF NandFirst, Block
<1>8. b = q * 2 + (s % 2) /\ q \in Nat /\ q >= t + c /\ b % 2 = s % 2
  <2> DEFINE e == s % 2
  <2>1. \A e0 \in {0, 1}, c0, t0, b0 \in Nat :
          b0 >= (t0 * 2 + e0) + c0 * 2 /\ (b0 - ((t0 * 2 + e0) + c0 * 2)) % 2 = 0 =>
            b0 % 2 = e0 /\ b0 = (b0 \div 2) * 2 + e0 /\ b0 \div 2 \in Nat /\ b0 \div 2 >= t0 + c0
    OBVIOUS
  <2>2. e \in {0, 1} /\ c \in Nat /\ t \in Nat /\ b \in Nat /\ s = t * 2 + e
    BY <1>1, <1>4, <1>7
  <2>3. b >= (t * 2 + e) + c * 2 /\ (b - ((t * 2 + e) + c * 2)) % 2 = 0
    BY <1>7, <2>2
  <2> HIDE DEF e, t, s
  <2>4. b % 2 = e /\ b = (b \div 2) * 2 + e /\ b \div 2 \in Nat /\ b \div 2 >= t + c
    BY <2>1, <2>2, <2>3
  <2> QED
    BY <2>4 DEF e
<1>9. ASSUME NEW x \in Nat, x >= t + c, x < q
      PROVE  ~Good(x)
  <2> DEFINE e == s % 2
             u == x * 2 + e
  <2>1. e \in {0, 1} /\ c \in Nat /\ t \in Nat /\ s = t * 2 + e /\ q \in Nat /\ b = q * 2 + e
    BY <1>1, <1>4, <1>8
  <2>2. \A e0 \in {0, 1}, c0, t0, q0 \in Nat :
          x >= t0 + c0 /\ x < q0 =>
            /\ x * 2 + e0 \in Nat /\ x * 2 + e0 >= (t0 * 2 + e0) + c0 * 2
            /\ x * 2 + e0 < q0 * 2 + e0
            /\ ((x * 2 + e0) - ((t0 * 2 + e0) + c0 * 2)) % 2 = 0 /\ (x * 2 + e0) \div 2 = x
    OBVIOUS
  <2> HIDE DEF e, t, s, q
  <2>3. /\ u \in Nat /\ u >= s + c * 2 /\ u < b
        /\ (u - (s + c * 2)) % 2 = 0 /\ u \div 2 = x
    BY <1>9, <2>1, <2>2
  <2> HIDE DEF u
  <2> QED
    BY <1>7, <2>3
<1>10. q \in 0..NandBlocks-1
  BY <1>7 DEF Good
<1>11. ASSUME l = t
       PROVE  GoodBefore(q) = t
  <2> HIDE DEF s, t, q, l
  <2>1. CASE c = 0
    <3>1. bad = {}
      BY <1>4, <2>1, FS_EmptySet DEF c
    <3>2. Good(t)
      BY <1>1, <1>11, <3>1
    <3>3. q = t
      BY <1>1, <1>8, <1>9, <2>1, <3>2
    <3>4. GoodBefore(t) \in Nat /\ GoodBefore(t + 1) = GoodBefore(t) + 1
      BY <1>1, <3>2, GoodCounted
    <3> HIDE DEF bad
    <3> QED
      BY <1>1, <1>4, <1>11, <2>1, <3>3, <3>4
  <2>2. CASE c = 1
    <3>1. t + 1 \in Nat /\ t + 1 <= q /\ \A x \in t+1..q-1 : ~Good(x)
      BY <1>1, <1>8, <1>9, <2>2
    <3>2. GoodBefore(q) = GoodBefore(t + 1)
      BY <1>8, <3>1, BadRun
    <3>3. GoodBefore(t + 1) \in Nat
      BY <3>1, GoodCounted
    <3> HIDE DEF bad
    <3> QED
      BY <1>1, <1>4, <1>11, <2>2, <3>2, <3>3
  <2>3. CASE c = 2
    <3>1. BadBlocks \subseteq 0..t
      BY <1>5, <1>11, <2>3
    <3>2. t + 2 <= q
      BY <1>8, <2>3
    <3>3. Good(t + 1) /\ Good(t + 2)
      <4>1. t + 1 \in 0..NandBlocks-1 /\ t + 2 \in 0..NandBlocks-1 /\ t + 1 \notin 0..t /\ t + 2 \notin 0..t
        BY <1>1, <1>8, <1>10, <3>2, CopyAssumption
      <4> QED
        BY <3>1, <4>1 DEF Good
    <3>4. q = t + 2
      <4>1. ~(t + 2 < q)
        BY <1>1, <1>9, <2>3, <3>3
      <4> QED
        BY <1>1, <1>8, <3>2, <4>1
    <3>5. GoodBefore(t + 1) \in Nat /\ GoodBefore((t + 1) + 1) = GoodBefore(t + 1) + 1
      BY <1>1, <3>3, GoodCounted
    <3>6. (t + 1) + 1 = t + 2
      BY <1>1
    <3> HIDE DEF bad
    <3> QED
      BY <1>1, <1>4, <1>11, <2>3, <3>4, <3>5, <3>6
  <2> QED
    BY <1>4, <1>5, <2>1, <2>2, <2>3
<1>12. ASSUME l = t - 1
       PROVE  GoodBefore(q) = t
  <2> HIDE DEF s, t, q, l
  <2>0. GoodBefore(t) + c = t /\ GoodBefore(t) \in Nat /\ l + 1 = t /\ l # t
    <3>1. l + 1 = t /\ l # t
      BY <1>1, <1>12
    <3> QED
      BY <1>1, <1>4, <3>1, GoodCounted
  <2>1. CASE c = 0
    <3>1. t <= q /\ \A x \in t..q-1 : ~Good(x)
      BY <1>1, <1>8, <1>9, <2>1
    <3>2. GoodBefore(q) = GoodBefore(t)
      BY <1>1, <1>8, <3>1, BadRun
    <3> QED
      BY <1>1, <2>0, <2>1, <3>2
  <2>2. CASE c = 1
    <3>1. BadBlocks \subseteq 0..l
      BY <1>5, <2>0, <2>2
    <3>2. t + 1 <= q
      BY <1>8, <2>2
    <3>3. Good(t) /\ Good(t + 1)
      <4>1. t \in 0..NandBlocks-1 /\ t + 1 \in 0..NandBlocks-1 /\ t \notin 0..l /\ t + 1 \notin 0..l
        BY <1>1, <1>4, <1>8, <1>10, <1>12, <3>2, CopyAssumption
      <4> QED
        BY <3>1, <4>1 DEF Good
    <3>4. q = t + 1
      <4>1. ~(t + 1 < q)
        BY <1>1, <1>9, <2>2, <3>3
      <4> QED
        BY <1>1, <1>8, <3>2, <4>1
    <3>5. GoodBefore(t + 1) = GoodBefore(t) + 1
      BY <1>1, <3>3, GoodCounted
    <3> QED
      BY <1>1, <2>0, <2>2, <3>4, <3>5
  <2> QED
    BY <1>4, <1>5, <2>0, <2>1, <2>2
<1>13. GoodBefore(q) = t
  BY <1>5, <1>11, <1>12
<1>14. Reached(b) = GoodBefore(q) * 2 + (b % 2)
  BY <1>7 DEF Reached, Block
<1>15. t * 2 + (s % 2) = s /\ b % 2 = s % 2
  BY <1>1, <1>8
<1> HIDE DEF t, q
<1> QED
  BY <1>13, <1>14, <1>15

\* So a read of the NAND has what the image has.
LEMMA NandKeeps ==
  ASSUME CopyInv, NandCopy
  PROVE  CopyInv'
<1> DEFINE from == SrcAddress + BadSkipped * Block
           r == RemainingBytes
           read == NandRead(from, r)
<1>1. copyStage = "Copying" /\ dev = "NAND" /\ UNCHANGED <<inputVars, bank>> /\ ~IsQspi
  BY DEF NandCopy, IsQspi
<1>2. /\ SrcAddress \in Nat /\ r \in Nat /\ r > 0
      /\ bank \in [{"lower", "upper"} -> 0..3] /\ arg[1] \in Nat
  BY <1>1, GoingFacts
<1>3. InSlot
  <2>1. Given /\ Going
    BY <1>1 DEF CopyInv
  <2> QED
    BY <1>1, <1>2, <2>1 DEF Given, Going, InSlot
<1>4. BadSkipped \in Nat /\ from \in Nat
  BY <1>2, <1>3, SkippedIs DEF Block
<1>5. CASE Cardinality(Following(from)) < r
  <2>1. Fails
    BY <1>5 DEF NandCopy
  <2> QED
    BY <1>1, <2>1, CopyFailKeeps
<1>6. CASE ~(Cardinality(Following(from)) < r)
  <2>1. Advance(r, read)
    BY <1>6 DEF NandCopy
  <2> HIDE DEF from
  <2>2. IsFiniteSet(Following(from)) /\ Cardinality(Following(from)) \in Nat
        /\ Following(from) \subseteq Nat
    BY FollowingFinite, FS_CardinalityType
  <2> DEFINE at(k) == CHOOSE u \in Following(from) :
                        Cardinality({v \in Following(from) : v < u}) = k - 1
  <2>3. ASSUME NEW k \in 1..r
        PROVE  at(k) \in Following(from) /\ Rank(from, at(k)) = k - 1
    <3>1. k - 1 \in Nat /\ k - 1 < Cardinality(Following(from))
      BY <1>2, <1>6, <2>2
    <3>2. \E u \in Following(from) : Rank(from, u) = k - 1
      BY <3>1, RankExists
    <3> QED
      BY <3>2 DEF Rank
  <2>4. read = [k \in 1..r |-> NandContent(at(k))]
    BY DEF NandRead
  <2> HIDE DEF at
  <2>5. ASSUME NEW k \in 1..r
        PROVE  /\ at(k) \in Nat /\ Good(at(k) \div Block)
               /\ NandContent(at(k)) = Reached(at(k)) /\ NandContent(at(k)) \in Nat
    <3>1. at(k) \in Nat /\ Good(at(k) \div Block)
      BY <2>2, <2>3 DEF Following
    <3>2. NandContent(at(k)) = Reached(at(k))
      BY <3>1 DEF NandContent, Reached
    <3> QED
      BY <3>1, <3>2, ReachedNext
  <2>6. read \in Seq(Nat) /\ Len(read) = r /\ \A k \in 1..r : read[k] = NandContent(at(k))
    BY <1>2, <2>4, <2>5
  <2> HIDE DEF read
  <2>7. ASSUME Regular, NEW k \in 1..r
        PROVE  read[k] = SrcAddress + k - 1
    <3>1. Following(from) # {}
      BY <2>3
    <3>2. PICK b : NandFirst(from, b)
      BY <1>4, <3>1, FirstExists
    <3>3. Reached(b) = SrcAddress
      BY <1>1, <1>3, <2>7, <3>2, FirstRight DEF from
    <3>4. at(k) >= b
      BY <2>3, <2>5, <3>2 DEF NandFirst
    <3>5. Reached(at(k)) = Reached(b) + Rank(from, at(k))
      BY <1>4, <2>5, <3>2, <3>4, InStep
    <3>6. Reached(at(k)) = SrcAddress + (k - 1)
      BY <2>3, <3>3, <3>5
    <3>7. SrcAddress + (k - 1) = SrcAddress + k - 1
      BY <1>2
    <3> QED
      BY <2>5, <2>6, <3>6, <3>7
  <2>8. r \in 1..r
    BY <1>2
  <2> QED
    BY <1>1, <1>2, <2>1, <2>6, <2>7, <2>8, TurnKeeps
<1> QED
  BY <1>5, <1>6

-----------------------------------------------------------------------------
(* The beginning and the end of a copy.                                    *)

\* A call begins with what its caller gave it.
LEMMA StartKeeps ==
  ASSUME CopyInv, NEW d, CopyStart(d)
  PROVE  CopyInv'
<1>1. copyStage = "Idle" /\ dest = <<>> /\ bank \in [{"lower", "upper"} -> 0..3]
  BY DEF CopyStart, CopyInv, CopyTypeOK
<1>2. ASSUME NEW m, NEW e, NEW src \in Nat, NEW len \in Nat, len > 0, Begin(e, m, src, len)
      PROVE  /\ dev' = e /\ medium' = m /\ SrcAddress' = src /\ RemainingBytes' = len
             /\ arg' \in Nat \X Nat /\ arg'[1] = src /\ arg'[2] = len
             /\ dest' = <<>> /\ dest' \in Seq(Nat) /\ SoFar'
  <2>1. /\ dev' = e /\ medium' = m /\ SrcAddress' = src /\ RemainingBytes' = len
        /\ arg' = <<src, len>> /\ dest' = <<>>
    BY <1>1, <1>2 DEF Begin
  <2>2. SoFar'
    BY <2>1 DEF SoFar
  <2> QED
    BY <2>1, <2>2
<1>3. CASE d \in {"QSPI24", "QSPI32"} /\ CopyQspi(d)
  <2>1. PICK m \in Flashes, src \in 0..15, len \in 1..16 :
          /\ Begin(d, m, src, len)
          /\ src + len <= TrueSize' /\ (Parallel' => src % 2 = 0)
          /\ bank' \in [DOMAIN bank -> 0..(IF m.chip > Bank THEN 1 ELSE 0)]
          /\ copyStage' = IF src + len > FlashSize' THEN "Err" ELSE "Copying"
    BY <1>3 DEF CopyQspi
  <2>2. /\ dev' = d /\ medium' = m /\ SrcAddress' = src /\ RemainingBytes' = len
        /\ arg' \in Nat \X Nat /\ arg'[1] = src /\ arg'[2] = len
        /\ dest' = <<>> /\ dest' \in Seq(Nat) /\ SoFar'
    BY <1>2, <2>1
  <2>3. m.chip \in {1, 2, 4, 8}
    BY FlashFacts
  <2>4. /\ bank' \in [{"lower", "upper"} -> 0..3]
        /\ m.chip <= Bank => bank'["lower"] = 0 /\ bank'["upper"] = 0
    <3>1. DOMAIN bank = {"lower", "upper"}
      BY <1>1
    <3>2. CASE m.chip > Bank
      <4>1. bank' \in [{"lower", "upper"} -> 0..1]
        BY <2>1, <3>1, <3>2
      <4> QED
        BY <2>3, <3>2, <4>1 DEF Bank
    <3>3. CASE ~(m.chip > Bank)
      <4>1. bank' \in [{"lower", "upper"} -> 0..0]
        BY <2>1, <3>1, <3>3
      <4> QED
        BY <4>1
    <3> QED
      BY <3>2, <3>3
  <2>5. copyStage' \in {"Copying", "Err"} /\ (copyStage' = "Copying" => ~(src + len > FlashSize'))
    BY <2>1
  <2>6. FlashSize' \in Nat
    BY <2>2, <2>3 DEF FlashSize, ChipSize, Qspi32Chip
  <2>7. CopyTypeOK'
    BY <1>3, <2>2, <2>4, <2>5 DEF CopyTypeOK
  <2>8. Given'
    BY <1>3, <2>1, <2>2, <2>4 DEF Given, IsQspi
  <2>9. copyStage' = "Copying" => Going'
    BY <1>3, <2>1, <2>2, <2>5, <2>6 DEF Going, IsQspi
  <2> QED
    BY <2>2, <2>5, <2>7, <2>8, <2>9 DEF CopyInv
<1>4. CASE CopyNand
  <2> DEFINE Nand(bad, slot) == [bad |-> bad, offset |-> slot]
  <2>1. PICK bad \in SUBSET (0..NandBlocks-1), src \in 0..NandBlocks*Block-1, len \in 1..2*Block :
          \E slot \in 0..src :
            Begin("NAND", Nand(bad, slot), src, len) /\ copyStage' = "Copying" /\ UNCHANGED bank
    BY <1>4 DEF CopyNand
  <2>11. PICK slot \in 0..src :
            Begin("NAND", Nand(bad, slot), src, len) /\ copyStage' = "Copying" /\ UNCHANGED bank
    BY <2>1
  <2>2. src \in Nat /\ len \in Nat /\ len > 0 /\ src < NandBlocks * Block
    BY CopyAssumption DEF Block
  <2>3. /\ dev' = "NAND" /\ medium' = Nand(bad, slot) /\ SrcAddress' = src
        /\ RemainingBytes' = len /\ arg' \in Nat \X Nat /\ arg'[1] = src /\ arg'[2] = len
        /\ dest' = <<>> /\ dest' \in Seq(Nat) /\ SoFar'
    BY <1>2, <2>11, <2>2
  <2>4. medium.bad' = bad /\ medium.offset' = slot /\ slot \in Nat /\ slot <= src
    BY <2>2, <2>3
  <2>5. CopyTypeOK'
    BY <1>1, <2>11, <2>2, <2>3 DEF CopyTypeOK
  <2>6. Given' /\ Going'
    BY <2>2, <2>3, <2>4 DEF Given, Going, IsQspi
  <2> QED
    BY <2>11, <2>3, <2>5, <2>6 DEF CopyInv
<1>5. CASE CopyFile
  <2>1. PICK e \in {"SD", "USB"}, n \in 1..MaxFile, src \in 0..MaxFile, len \in 1..MaxFile :
          Begin(e, n, src, len) /\ copyStage' = "Copying" /\ UNCHANGED bank
    BY <1>5 DEF CopyFile
  <2>2. src \in Nat /\ len \in Nat /\ len > 0 /\ n \in Nat
    BY CopyAssumption
  <2>3. /\ dev' = e /\ medium' = n /\ SrcAddress' = src /\ RemainingBytes' = len
        /\ arg' \in Nat \X Nat /\ arg'[1] = src /\ arg'[2] = len
        /\ dest' = <<>> /\ dest' \in Seq(Nat) /\ SoFar'
    BY <1>2, <2>1, <2>2
  <2>4. CopyTypeOK'
    BY <1>1, <2>1, <2>2, <2>3 DEF CopyTypeOK
  <2>5. Given' /\ Going'
    BY <2>1, <2>2, <2>3 DEF Given, Going, IsQspi
  <2> QED
    BY <2>1, <2>3, <2>4, <2>5 DEF CopyInv
<1> QED
  BY <1>3, <1>4, <1>5 DEF CopyStart

\* Before a call there is nothing copied.
LEMMA CopyInit == CopyIdle => CopyInv
<1> SUFFICES ASSUME CopyIdle PROVE CopyInv
  OBVIOUS
<1>1. bank \in [{"lower", "upper"} -> 0..3] /\ dest \in Seq(Nat)
  BY DEF CopyIdle
<1> QED
  BY <1>1 DEF CopyIdle, CopyInv, CopyTypeOK

\* Each step of a copy, and a boot that has other things to do.
LEMMA CopyStepKeeps ==
  ASSUME CopyInv, NEW d, CopyStart(d) \/ CopyStep \/ UNCHANGED copyVars \/ CopyIdle'
  PROVE  CopyInv'
<1>1. CASE DeviceFails
  BY <1>1, CopyFailKeeps DEF DeviceFails
<1>2. CASE UNCHANGED copyVars
  BY <1>2 DEF copyVars, CopyInv, CopyTypeOK, Given, Going, SoFar, Regular, BadBlocks, ImageBlock,
              IsQspi, Parallel,
              Stacked, FlashSize, TrueSize, ChipSize
<1>3. CASE CopyIdle'
  <2>1. (CopyIdle => CopyInv)'
    BY CopyInit, PTL
  <2> QED
    BY <1>3, <2>1
<1> QED
  BY <1>1, <1>2, <1>3, StartKeeps, Qspi24Keeps, Qspi32Keeps, NandKeeps, FileKeeps DEF CopyStep

\* A copy that is done is what was asked for.
LEMMA CopyWhole ==
  ASSUME CopyInv PROVE CopyTypeOK /\ CopyFaithful
<1>1. ASSUME copyStage = "Done", Regular
      PROVE  dest = [k \in 1..arg[2] |-> arg[1] + k - 1]
  <2>1. /\ arg[1] \in Nat /\ arg[2] \in Nat /\ SrcAddress \in Nat
        /\ SrcAddress + 0 = arg[1] + arg[2] /\ dest \in Seq(Nat) /\ SoFar
    BY <1>1 DEF CopyInv, CopyTypeOK, Given
  <2>2. Len(dest) = arg[2] /\ \A k \in 1..Len(dest) : dest[k] = arg[1] + k - 1
    BY <2>1 DEF SoFar
  <2> QED
    BY <2>1, <2>2
<1> QED
  BY <1>1 DEF CopyInv, CopyFaithful

-----------------------------------------------------------------------------
(* The variables of the download, the copy and the boot.                   *)

\* They hold at first, and so throughout.
LEMMA ContentAlways == Spec => [](DfuInv /\ CopyInv)
<1>1. Init => DfuInv /\ CopyInv
  BY DfuInit, CopyInit DEF Init
<1>2. DfuInv /\ CopyInv /\ [Next]_vars => DfuInv' /\ CopyInv'
  <2> SUFFICES ASSUME DfuInv, CopyInv, [Next]_vars PROVE DfuInv' /\ CopyInv'
    OBVIOUS
  <2>1. CASE UsbInit
    BY <2>1, DfuStepKeeps, CopyStepKeeps DEF UsbInit
  <2>2. CASE BootDeviceReady
    <3>1. DfuIdle'
      BY <2>2 DEF BootDeviceReady, DfuIdle
    <3> QED
      BY <2>2, <3>1, DfuStepKeeps, CopyStepKeeps DEF BootDeviceReady
  <2>3. CASE Copy
    BY <2>3, DfuStepKeeps, CopyStepKeeps DEF Copy
  <2>4. CASE Copied
    <3>1. DOMAIN bank = {"lower", "upper"}
      BY DEF CopyInv, CopyTypeOK
    <3>2. CopyIdle'
      BY <2>4, <3>1 DEF Copied, CopyIdle
    <3> QED
      BY <2>4, <3>2, DfuStepKeeps, CopyStepKeeps DEF Copied
  <2>5. ASSUME ~UsbInit, ~BootDeviceReady, ~Copy, ~Copied
        PROVE  UNCHANGED dfuVars /\ UNCHANGED copyVars
    BY <2>5 DEF Next, Fsbl, vars, InitMemory, MemoryInitialized, BootDevice, LoadBitstream,
       CopyDisturbed, BringUpReturns
  <2> QED
    BY <2>1, <2>2, <2>3, <2>4, <2>5, DfuStepKeeps, CopyStepKeeps
<1> QED
  BY <1>1, <1>2, PTL DEF Spec

\* Whatever the flash and its geometry, the bad blocks, the file or the download, for
\* any length: what the partitions are copied from is whole, and a copy across banks,
\* chips and bad blocks is the run of the image asked for (xfsbl_qspi.c:572-777 and
\* 945-1059, xfsbl_nand.c:126-168, xfsbl_sd.c:160-189, xfsbl_usb.c:170-199 and
\* xfsbl_dfu_util.c).
THEOREM ContentIsFaithful == Spec => []ContentFaithful
<1>1. DfuInv /\ CopyInv => ContentFaithful
  BY DfuWhole, CopyWhole DEF ContentFaithful
<1> QED
  BY <1>1, ContentAlways, PTL

\* The places in main().
PhaseOK == phase \in {"memory", "device", "copy", "bitstream", "up", "failed"}

\* The types of the bitstream's variables, from what is known of them.
LEMMA PlTyped ==
  ASSUME PlInv
  PROVE  PlTypeOK
<1>1. PlTypes
  BY DEF PlInv
<1>2. /\ block.SrcAddress \in Nat /\ block.Len \in Nat \ {0} /\ block.SrcAddress <= bit.len
      /\ block.Len <= bit.BlockSize /\ hash.upto \in Nat /\ hash.upto <= bit.len
      /\ aes.SizeofData \in Nat /\ aes.SizeofData <= bit.len /\ aes.Size \in Nat
      /\ aes.Size <= ChunkSize
  BY <1>1 DEF PlTypes
<1>3. bit.len \in Nat /\ bit.BlockSize \in Nat /\ ChunkSize \in Nat
  BY <1>1, BitstreamAssumption, BitFacts DEF PlTypes, NoBit
<1>4. /\ block.SrcAddress \in 0..bit.len+bit.BlockSize /\ block.Len \in 1..bit.BlockSize
      /\ hash.upto \in 0..bit.len /\ aes.SizeofData \in 0..bit.len /\ aes.Size \in 0..ChunkSize
  BY <1>2, <1>3
<1> QED
  BY <1>1, <1>4 DEF PlTypes, PlTypeOK, Working

\* Whatever the constants: every variable of the bring-up stays in its range, whichever
\* call fails and whatever the hardware, the host and the DDR do (the stages of
\* xfsbl_main.c up to the configuration of the PL).
THEOREM TypeCorrect == Spec => []TypeOK
<1>1. Init => PhaseOK
  BY DEF Init, PhaseOK
<1>2. PhaseOK /\ [Next]_vars => PhaseOK'
  BY DEF PhaseOK, Next, Fsbl, vars, InitMemory, MemoryInitialized, BootDevice, BootDeviceReady,
     UsbInit, Copy, Copied, LoadBitstream, CopyDisturbed, BringUpReturns
<1>3. PhaseOK /\ MemInv /\ DevInv /\ DfuInv /\ CopyInv /\ PlInv => TypeOK
  BY DfuWhole, CopyWhole, PlTyped DEF PhaseOK, MemInv, DevInv, TypeOK
<1> QED
  BY <1>1, <1>2, <1>3, MemAlways, DevAlways, ContentAlways, PlAlways, PTL DEF Spec
=============================================================================
