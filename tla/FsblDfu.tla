------------------------------- MODULE FsblDfu ------------------------------
(***************************************************************************)
(* USB boot: the download of a boot image by DFU into the DDR, from where  *)
(* XFsbl_UsbCopy reads it (xfsbl_dfu_util.c, xfsbl_usb.c).  XFsbl_UsbInit  *)
(* handles requests until it has counted two status requests in the idle   *)
(* state, one before the first block and one after the last.               *)
(*                                                                         *)
(* The host is external: it selects the DFU interface, after a detach or   *)
(* at once, asks for the status, sends blocks, each followed by a status   *)
(* request, then an empty block, and asks again.  It may ask for the       *)
(* status after the detach too, and may be stopped anywhere and started    *)
(* again.                                                                  *)
(***************************************************************************)
EXTENDS Naturals, Sequences

CONSTANTS
  MaxBlocks,    \* the longest image, in blocks
  WValues,      \* 2^16, the numbers wValue of a request can have
  MaxRestarts   \* bound: how often the host starts again

ASSUME DfuAssumption ==
  MaxBlocks \in Nat \ {0} /\ WValues \in Nat \ {0} /\ MaxRestarts \in Nat

VARIABLES
  dfuStage,     \* "Idle", "Loop" of XFsbl_UsbInit, "Done"
  CurrState, RuntimeToDfu,
  TotalBytesDnloaded,   \* in blocks
  DfuVirtFlash,         \* the blocks in the DDR
  DownloadDone,
  host,         \* what the host does next
  blocks,       \* how many blocks its image has
  sentBlocks,   \* how many it has sent
  restarts,     \* history: how often the host was started again
  counted       \* history: was a status counted after a detach, or before a restart?

dfuVars == <<dfuStage, CurrState, RuntimeToDfu, TotalBytesDnloaded, DfuVirtFlash,
             DownloadDone, host, blocks, sentBlocks, restarts, counted>>
deviceStateVars == <<CurrState, RuntimeToDfu, TotalBytesDnloaded, DfuVirtFlash, DownloadDone>>
hostVars == <<host, blocks, sentBlocks, restarts, counted>>

DfuIdle ==
  /\ dfuStage = "Idle" /\ CurrState = "APP_IDLE" /\ RuntimeToDfu = FALSE
  /\ TotalBytesDnloaded = 0 /\ DfuVirtFlash = <<>> /\ DownloadDone = 0
  /\ host = "Start" /\ blocks = 1 /\ sentBlocks = 0 /\ restarts = 0 /\ counted = FALSE

DfuStart ==
  /\ dfuStage = "Idle" /\ dfuStage' = "Loop" /\ blocks' \in 1..MaxBlocks
  /\ UNCHANGED <<deviceStateVars, host, sentBlocks, restarts, counted>>

\* XFSBL_DOWNLOAD_COMPLETE is 2.
\* Mutant: it is 3.
LoopEndsLate == dfuStage' = IF DownloadDone' = 3 THEN "Done" ELSE "Loop"
LoopEnds == dfuStage' = IF DownloadDone' = 2 THEN "Done" ELSE "Loop"

-----------------------------------------------------------------------------
(* The requests: XFsbl_DfuSetIntf and XFsbl_DfuClassReq.                   *)

\* The only alternate setting is the DFU mode after a detach.
SetInterface(alt) ==
  /\ CurrState' = IF alt >= 1 \/ RuntimeToDfu THEN "IDLE" ELSE "APP_IDLE"
  /\ RuntimeToDfu' = FALSE
  /\ UNCHANGED <<TotalBytesDnloaded, DfuVirtFlash, DownloadDone>>

\* The wait for the USB reset in it ends at once, as the flag it waits for is set; the
\* first case falls through to that of STATE_DFU_IDLE.
Detach ==
  /\ CASE CurrState = "APP_IDLE" -> CurrState' = "IDLE" /\ RuntimeToDfu' = TRUE
       [] CurrState = "IDLE" -> CurrState' = "APP_IDLE" /\ UNCHANGED RuntimeToDfu
       [] OTHER -> CurrState' = "ERROR" /\ UNCHANGED RuntimeToDfu
  /\ UNCHANGED <<TotalBytesDnloaded, DfuVirtFlash, DownloadDone>>

\* Block 0 is written to the beginning, the others after what there is.
StartOfBlock(n) == IF n = 0 THEN 0 ELSE TotalBytesDnloaded

Download(n, block) ==
  /\ LET at == StartOfBlock(n)
     IN  /\ DfuVirtFlash' = [k \in 1..IF Len(DfuVirtFlash) > at + 1 THEN Len(DfuVirtFlash)
                                                                   ELSE at + 1 |->
                               IF k = at + 1 THEN block ELSE DfuVirtFlash[k]]
         /\ TotalBytesDnloaded' = at + 1
  /\ CurrState' = "DOWNLOAD_IDLE"
  /\ UNCHANGED <<RuntimeToDfu, DownloadDone>>

DownloadEmpty ==
  /\ CurrState' = "IDLE"
  /\ UNCHANGED <<RuntimeToDfu, TotalBytesDnloaded, DfuVirtFlash, DownloadDone>>

\* Mutant: every status request counts.
CountsAlways == TRUE
Counts == CurrState = "IDLE"
GetStatus ==
  /\ CurrState' = CASE CurrState = "IDLE" -> "DOWNLOAD_SYNC"
                    [] CurrState = "DOWNLOAD_SYNC" -> "DOWNLOAD_BUSY"
                    [] OTHER -> CurrState
  /\ DownloadDone' = IF Counts THEN DownloadDone + 1 ELSE DownloadDone
  /\ UNCHANGED <<RuntimeToDfu, TotalBytesDnloaded, DfuVirtFlash>>

-----------------------------------------------------------------------------
(* The host.                                                               *)

HostGoes(next) == host' = next /\ UNCHANGED <<blocks, restarts, counted>>

\* The detached device is in the idle state already, where the request counts.
HostAsksEarly ==
  /\ host = "Detached" /\ GetStatus /\ host' = "Interface"
  /\ counted' = (counted \/ Counts)
  /\ UNCHANGED <<blocks, restarts, sentBlocks>>

HostSteps ==
  /\ dfuStage = "Loop"
  /\ \/ host = "Start" /\ Detach /\ HostGoes("Detached") /\ UNCHANGED sentBlocks
     \/ HostAsksEarly
     \/ /\ host \in {"Start", "Detached", "Interface"}
        /\ SetInterface(1) /\ HostGoes("FirstStatus") /\ UNCHANGED sentBlocks
     \/ host = "FirstStatus" /\ GetStatus /\ HostGoes("Block") /\ UNCHANGED sentBlocks
     \/ /\ host = "Block" /\ sentBlocks < blocks
        /\ Download(sentBlocks % WValues, sentBlocks + 1)
        /\ sentBlocks' = sentBlocks + 1 /\ HostGoes("Status")
     \/ host = "Status" /\ GetStatus /\ HostGoes("Block") /\ UNCHANGED sentBlocks
     \/ /\ host = "Block" /\ sentBlocks = blocks
        /\ DownloadEmpty /\ HostGoes("LastStatus") /\ UNCHANGED sentBlocks
     \/ host = "LastStatus" /\ GetStatus /\ HostGoes("End") /\ UNCHANGED sentBlocks
  /\ LoopEnds

HostRestarts ==
  /\ dfuStage = "Loop" /\ host \notin {"Start", "End"} /\ restarts < MaxRestarts
  /\ host' = "Start" /\ sentBlocks' = 0 /\ restarts' = restarts + 1
  /\ counted' = (counted \/ DownloadDone > 0)
  /\ UNCHANGED <<dfuStage, deviceStateVars, blocks>>

DfuStep == HostSteps
DfuEnded == dfuStage = "Done"

-----------------------------------------------------------------------------
DfuTypeOK ==
  /\ dfuStage \in {"Idle", "Loop", "Done"}
  /\ CurrState \in {"APP_IDLE", "IDLE", "DOWNLOAD_SYNC", "DOWNLOAD_BUSY", "DOWNLOAD_IDLE",
                    "ERROR"}
  /\ RuntimeToDfu \in BOOLEAN /\ TotalBytesDnloaded \in 0..MaxBlocks
  /\ DfuVirtFlash \in Seq(1..MaxBlocks) /\ DownloadDone \in 0..2
  /\ sentBlocks \in 0..blocks /\ restarts \in 0..MaxRestarts /\ counted \in BOOLEAN

\* A download that counts as complete is the host's image, unless a status request has
\* counted that is none of its two (one after a detach, or the first of a host that was
\* then started again), or the image has more blocks than wValue has numbers.
DownloadWhole ==
  dfuStage = "Done" /\ ~counted /\ blocks <= WValues =>
    DfuVirtFlash = [k \in 1..blocks |-> k]
=============================================================================
