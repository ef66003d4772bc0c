--------------------------- MODULE FsblMemoryInit ---------------------------
(***************************************************************************)
(* What makes the DDR usable before anything is loaded: psu_init, as       *)
(* generated for this board, with the bring-up of the DDR PHY, and the     *)
(* writing of the whole DDR by a DMA channel so that its ECC is right      *)
(* (XFsbl_EccInit, which the TCM of an R5 gets as well).                   *)
(*                                                                         *)
(* The PHY and the DMA channel are hardware next to the processor; each    *)
(* answers in its own time, well or not.  Memory is in units of which      *)
(* MaxTransfer fit into one transfer.                                      *)
(***************************************************************************)
EXTENDS Naturals

CONSTANTS
  MaxTransfer,          \* ZDMA_TRANSFER_MAX_LEN
  Ranges,               \* the low and the high DDR, [from, len]
  PllRetries            \* pll_retry

ASSUME MemoryAssumption ==
  /\ MaxTransfer \in Nat \ {0} /\ PllRetries \in Nat \ {0}
  /\ Ranges \in [1..2 -> [from : Nat, len : Nat \ {0}]]

VARIABLES
  psuStage,     \* where psu_init, and after it XFsbl_DdrEccInit, is
  status,       \* status of psu_init, as a Boolean
  pllRetry,     \* pll_retry of psu_ddr_phybringup_data
  pll,          \* are the PLLs of the PHY "off" or "locked"?
  ended,        \* the trainings whose status bits the PHY has set (PGSR0)
  errors,       \* those it has set error bits for
  range,        \* the number of the range XFsbl_EccInit was called with
  StartAddr, NumBytes,
  channel,      \* the DMA channel: STATE, the DMA_DONE bit, the mode, and what is to do
  written       \* history: the memory written

phyVars == <<pll, ended, errors>>
psuVars == <<status, pllRetry, phyVars>>
eccVars == <<range, StartAddr, NumBytes, channel, written>>
memVars == <<psuStage, psuVars, eccVars>>

\* Write leveling with what belongs to it, the training of Vref, that of the data eyes.
Trainings == {"Leveling", "Vref", "Eye"}

NoTransfer == [state |-> "DONE", done |-> FALSE, mode |-> "normal", at |-> 0, left |-> 0]

MemIdle ==
  /\ psuStage = "Idle" /\ status = TRUE /\ pllRetry = PllRetries
  /\ pll = "off" /\ ended = {} /\ errors = {}
  /\ range = 1 /\ StartAddr = 0 /\ NumBytes = 0 /\ channel = NoTransfer /\ written = {}

MemStart == psuStage = "Idle" /\ psuStage' = "Phy" /\ UNCHANGED <<psuVars, eccVars>>

-----------------------------------------------------------------------------
(* psu_init: each part is done whatever became of those before it.  The    *)
(* tables of register writes always succeed; the polls for the PLLs of the *)
(* clocks end in any case, and nobody looks at how.                        *)

\* Mutant: the result of the last part decides.
AndStatusLast(s) == status' = TRUE
AndStatus(s) == status' = (status /\ s)

\* One turn of the loop over pll_retry.
PhyPll ==
  /\ psuStage = "Phy" /\ pllRetry > 0 /\ pll = "off"
  /\ pllRetry' = pllRetry - 1 /\ pll' \in {"off", "locked"}
  /\ UNCHANGED <<psuStage, status, ended, errors, eccVars>>

PhyBringUp ==
  /\ psuStage = "Phy" /\ (pllRetry = 0 \/ pll = "locked")
  /\ IF pll = "locked" THEN psuStage' = "Leveling" /\ UNCHANGED status
                  ELSE AndStatus(FALSE) /\ psuStage' = "Peripherals"
  /\ UNCHANGED <<pllRetry, phyVars, eccVars>>

\* The PHY runs the training it was told to and sets its status bits, and error bits
\* or not.
PhyTrains ==
  /\ psuStage \in Trainings /\ psuStage \notin ended
  /\ ended' = ended \cup {psuStage} /\ errors' \in {errors, errors \cup {psuStage}}
  /\ UNCHANGED <<psuStage, status, pllRetry, pll, eccVars>>

\* The first loop waits for exactly the value without errors, so that the test for
\* errors after it is never reached with any.
\* Mutant: the loop after the leveling looks at the status bits alone.
LevelingEndedOnly == "Leveling" \in ended
LevelingGood == "Leveling" \in ended /\ "Leveling" \notin errors

PhyLeveled ==
  /\ psuStage = "Leveling" /\ LevelingGood
  /\ psuStage' = "Vref"
  /\ UNCHANGED <<psuVars, eccVars>>

\* The other two wait for the status bits under a mask, and nobody looks for errors.
PhyVref ==
  /\ psuStage = "Vref" /\ "Vref" \in ended
  /\ psuStage' = "Eye"
  /\ UNCHANGED <<psuVars, eccVars>>

PhyTrained ==
  /\ psuStage = "Eye" /\ "Eye" \in ended
  /\ AndStatus(TRUE) /\ psuStage' = "Peripherals"
  /\ UNCHANGED <<pllRetry, phyVars, eccVars>>

PsuReturn ==
  /\ psuStage = "Peripherals"
  /\ AndStatus(TRUE)
  /\ psuStage' = IF status' THEN "NextRange" ELSE "Err"
  /\ UNCHANGED <<pllRetry, phyVars, eccVars>>

-----------------------------------------------------------------------------
(* XFsbl_DdrEccInit and, for each range, XFsbl_EccInit.                    *)

NextRange ==
  /\ psuStage = "NextRange" /\ range \in DOMAIN Ranges
  /\ psuStage' = "Chunk" /\ StartAddr' = Ranges[range].from /\ NumBytes' = Ranges[range].len
  /\ UNCHANGED <<psuVars, range, channel, written>>

LastRange ==
  /\ psuStage = "NextRange" /\ range \notin DOMAIN Ranges
  /\ psuStage' = "Done" /\ UNCHANGED <<psuVars, eccVars>>

Length == IF NumBytes > MaxTransfer THEN MaxTransfer ELSE NumBytes

\* The channel is waited for, set up and enabled.
StartChannel ==
  /\ psuStage = "Chunk" /\ NumBytes > 0 /\ channel.state \in {"DONE", "ERR"}
  /\ channel' = [channel EXCEPT !.state = "BUSY", !.mode = "write only", !.at = StartAddr,
                                !.left = Length]
  /\ psuStage' = "WaitDone"
  /\ UNCHANGED <<psuVars, range, StartAddr, NumBytes, written>>

\* Mutant: DMA_DONE is left set.
ClearDoneForgotten == channel
ClearDone == [channel EXCEPT !.done = FALSE]

ChannelDone ==
  /\ psuStage = "WaitDone" /\ channel.done
  /\ channel' = ClearDone
  /\ IF channel.state = "ERR"
       THEN psuStage' = "Err" /\ UNCHANGED <<StartAddr, NumBytes>>
       ELSE psuStage' = "Chunk" /\ NumBytes' = NumBytes - Length /\ StartAddr' = StartAddr + Length
  /\ UNCHANGED <<psuVars, range, written>>

EccInitReturn ==
  /\ psuStage = "Chunk" /\ NumBytes = 0
  /\ channel' = [channel EXCEPT !.mode = "normal"]
  /\ psuStage' = "NextRange" /\ range' = range + 1
  /\ UNCHANGED <<psuVars, StartAddr, NumBytes, written>>

\* The channel writes, and is done, or meets an error, with DMA_DONE or without.
ChannelWrites ==
  /\ channel.state = "BUSY" /\ channel.left > 0
  /\ written' = written \cup {channel.at}
  /\ channel' = [channel EXCEPT !.at = @ + 1, !.left = @ - 1]
  /\ UNCHANGED <<psuStage, psuVars, range, StartAddr, NumBytes>>

ChannelEnds ==
  /\ channel.state = "BUSY"
  /\ \/ channel.left = 0 /\ channel' = [channel EXCEPT !.state = "DONE", !.done = TRUE]
     \/ channel' \in {[channel EXCEPT !.state = "ERR", !.done = d] : d \in {channel.done, TRUE}}
  /\ UNCHANGED <<psuStage, psuVars, range, StartAddr, NumBytes, written>>

MemStep == PhyPll \/ PhyBringUp \/ PhyTrains \/ PhyLeveled \/ PhyVref \/ PhyTrained \/ PsuReturn
             \/ NextRange \/ LastRange \/ StartChannel \/ ChannelDone \/ EccInitReturn \/ ChannelWrites \/ ChannelEnds
MemEnded == psuStage \in {"Done", "Err"}

\* The waits that have no end: the first training has failed, or the channel stopped on
\* an error that did not set DMA_DONE.
MemHung ==
  \/ psuStage = "Leveling" /\ "Leveling" \in errors
  \/ psuStage = "WaitDone" /\ channel.state = "ERR" /\ ~channel.done

-----------------------------------------------------------------------------
MemTypeOK ==
  /\ psuStage \in Trainings \cup {"Idle", "Phy", "Peripherals", "NextRange", "Chunk",
                                "WaitDone", "Done", "Err"}
  /\ status \in BOOLEAN /\ pllRetry \in 0..PllRetries
  /\ pll \in {"off", "locked"} /\ ended \subseteq Trainings /\ errors \subseteq ended
  /\ range \in 1..3 /\ StartAddr \in Nat /\ NumBytes \in Nat
  /\ channel \in [state : {"DONE", "BUSY", "ERR"}, done : BOOLEAN,
                  mode : {"normal", "write only"}, at : Nat, left : 0..MaxTransfer]

Span(r) == Ranges[r].from..Ranges[r].from+Ranges[r].len-1

\* Before the DDR is written the PHY has ended its three trainings, the first without an
\* error and before the others began; whether the other two met errors nobody has looked
\* at.  When the FSBL goes on, each unit of the DDR has been written and nothing
\* else, and the channel is at rest, ready to copy; while one chunk is written, those
\* before it are complete.
MemoryReady ==
  /\ psuStage \in {"NextRange", "Chunk", "WaitDone", "Done"} =>
       pll = "locked" /\ ended = Trainings /\ "Leveling" \notin errors
  /\ ended \ {"Leveling"} # {} => "Leveling" \in ended \ errors
  /\ psuStage = "Done" => written = Span(1) \cup Span(2) /\ channel.state = "DONE"
                            /\ ~channel.done /\ channel.mode = "normal"
  /\ psuStage \in {"Chunk", "WaitDone"} => Ranges[range].from..StartAddr-1 \subseteq written
=============================================================================
