----------------------------- MODULE FsblBringUp ----------------------------
(***************************************************************************)
(* What one boot of the FSBL does to the hardware around it, in the order  *)
(* of main(): psu_init and the ECC of the DDR, the boot device and the     *)
(* image on it, a download if that device is the USB, the copy of a        *)
(* partition, and the configuration of the PL with it.  FsblBoot has these *)
(* as calls that succeed or fail, and what follows a failure.              *)
(*                                                                         *)
(* The parts are the actions of the modules extended here; each is run by  *)
(* the call below, and what it used is forgotten when it returns.          *)
(***************************************************************************)
EXTENDS FsblMemoryInit, FsblBootDevice, FsblDfu, FsblDeviceCopy, FsblSecurePl

VARIABLE phase          \* "memory", "device", "copy", "bitstream", "up" or "failed"

vars == <<phase, memVars, devVars, dfuVars, copyVars, plVars>>

Init == phase = "memory" /\ MemIdle /\ DevIdle /\ DfuIdle /\ CopyIdle /\ PlIdle

-----------------------------------------------------------------------------
(* XFsbl_SystemInit.                                                       *)

InitMemory ==
  /\ phase = "memory"
  /\ MemStart \/ MemStep
  /\ UNCHANGED <<phase, devVars, dfuVars, copyVars, plVars>>

\* Only the retries left depend on what happened.
MemoryInitialized ==
  /\ phase = "memory" /\ psuStage = "Done"
  /\ phase' = "device" /\ pllRetry' = PllRetries
  /\ UNCHANGED <<psuStage, status, phyVars, eccVars, devVars, dfuVars, copyVars, plVars>>

-----------------------------------------------------------------------------
(* XFsbl_BootDeviceInitAndValidate; XFsbl_UsbInit ends with the download.  *)

InUsbInit == ops = "USB" /\ devStage \in {"Validate", "SecondValidate"} /\ ~DfuEnded

BootDevice ==
  /\ phase = "device" /\ ~InUsbInit
  /\ DevStart \/ DevStep
  /\ UNCHANGED <<phase, memVars, dfuVars, copyVars, plVars>>

UsbInit ==
  /\ phase = "device" /\ InUsbInit
  /\ DfuStart \/ DfuStep \/ HostRestarts
  /\ UNCHANGED <<phase, memVars, devVars, copyVars, plVars>>

BootDeviceReady ==
  /\ phase = "device" /\ devStage = "Done" /\ phase' = "copy"
  /\ bootMode' = "QSPI24" /\ multiboot' = 0 /\ onDevice' = [d \in Devices |-> "none"]
  /\ devStage' = "Idle" /\ Secondary' = 0 /\ offset' = 0 /\ Ppd' = "SAME"
  /\ headersFrom' = <<>> /\ devFailed' = FALSE
  /\ dfuStage' = "Idle" /\ CurrState' = "APP_IDLE" /\ RuntimeToDfu' = FALSE
  /\ TotalBytesDnloaded' = 0 /\ DfuVirtFlash' = <<>> /\ DownloadDone' = 0
  /\ host' = "Start" /\ blocks' = 1 /\ sentBlocks' = 0 /\ restarts' = 0 /\ counted' = FALSE
  /\ UNCHANGED <<ops, memVars, copyVars, plVars>>

-----------------------------------------------------------------------------
(* XFsbl_PartitionCopy and XFsbl_PartitionValidation, of a bitstream.      *)

Copy ==
  /\ phase = "copy"
  /\ CopyStart(ops) \/ CopyStep
  /\ UNCHANGED <<phase, memVars, devVars, dfuVars, plVars>>

Copied ==
  /\ phase = "copy" /\ copyStage = "Done" /\ phase' = "bitstream" /\ ops' = "none"
  /\ dev' = "none" /\ medium' = 0 /\ bank' = [c \in DOMAIN bank |-> 0] /\ copyStage' = "Idle"
  /\ arg' = <<0, 0>> /\ SrcAddress' = 0 /\ RemainingBytes' = 0 /\ dest' = <<>>
  /\ UNCHANGED <<bootMode, multiboot, onDevice, devStage, Secondary, offset, Ppd, headersFrom,
                 devFailed, memVars, dfuVars, plVars>>

LoadBitstream ==
  /\ phase = "bitstream"
  /\ PlStart \/ PlStep
  /\ UNCHANGED <<phase, memVars, devVars, dfuVars, copyVars>>

CopyDisturbed ==
  /\ phase = "bitstream" /\ DdrChanges
  /\ UNCHANGED <<phase, memVars, devVars, dfuVars, copyVars>>

-----------------------------------------------------------------------------
BringUpReturns ==
  /\ \/ plStage = "Done" /\ phase = "bitstream" /\ phase' = "up"
     \/ /\ phase \notin {"up", "failed"} /\ "Err" \in {psuStage, devStage, copyStage, plStage}
        /\ phase' = "failed"
  /\ UNCHANGED <<memVars, devVars, dfuVars, copyVars, plVars>>

Fsbl == \/ InitMemory \/ MemoryInitialized \/ BootDevice \/ BootDeviceReady \/ UsbInit
        \/ Copy \/ Copied \/ LoadBitstream \/ BringUpReturns

Next == Fsbl \/ CopyDisturbed

\* The FSBL runs, the hardware answers, and the host goes on with its download; nobody
\* has to write to the copy.
Spec == Init /\ [][Next]_vars /\ WF_vars(Fsbl)

-----------------------------------------------------------------------------
TypeOK ==
  /\ phase \in {"memory", "device", "copy", "bitstream", "up", "failed"}
  /\ MemTypeOK /\ DevTypeOK /\ DfuTypeOK /\ CopyTypeOK /\ PlTypeOK

\* What the partitions are copied from is what the image is made of: a download is
\* whole (DownloadWhole), and a copy has what the flat image has (CopyFaithful).
ContentFaithful == DownloadWhole /\ CopyFaithful

\* A boot comes to an end, with the PL configured or in the error handling, unless it
\* waits for hardware that has stopped with an error (MemHung), which no watchdog
\* guards yet.
BringUpEnds == <>(phase \in {"up", "failed"} \/ MemHung)
=============================================================================
