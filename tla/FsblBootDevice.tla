--------------------------- MODULE FsblBootDevice ---------------------------
(***************************************************************************)
(* The choice of the device the partitions are loaded from                 *)
(* (XFsbl_BootDeviceInitAndValidate): the boot mode names the primary      *)
(* device, and the image header found there may name another one, with an  *)
(* image of its own.                                                       *)
(*                                                                         *)
(* The code has two numberings of devices, that of the boot mode pins and  *)
(* that of the image header, and compares numbers of one with numbers of   *)
(* the other; the model keeps the numbers.                                 *)
(***************************************************************************)
EXTENDS Naturals

CONSTANT Built          \* the devices whose support is compiled in

\* XFSBL_*_BOOT_MODE and XIH_IHT_PPD_*.
ModeNo == [QSPI24 |-> 1, QSPI32 |-> 2, SD_0 |-> 3, NAND |-> 4, SD_1 |-> 5, EMMC |-> 6,
           USB |-> 7, SD_LS |-> 14]
PpdNo == [SAME |-> 0, QSPI32 |-> 1, QSPI24 |-> 2, NAND |-> 3, SD_0 |-> 4, SD_1 |-> 5,
          SD_LS |-> 6, EMMC |-> 7, USB |-> 8, SATA |-> 11]
Devices == DOMAIN ModeNo
FileDevices == {"SD_0", "SD_1", "SD_LS", "EMMC", "USB"}

ASSUME BuiltAssumption == Built \subseteq Devices

VARIABLES
  bootMode,     \* PrimaryBootDevice
  multiboot,    \* CSU_MULTI_BOOT, in images
  onDevice,     \* by device: what its image header names, "none" without an image
  devStage,     \* where XFsbl_BootDeviceInitAndValidate is
  Secondary,    \* SecondaryBootDevice, a number
  ops,          \* the device behind DeviceOps
  offset,       \* ImageOffsetAddress, in images
  Ppd,          \* PartitionPresentDevice of the image header table
  headersFrom,  \* history: where the partition headers were read
  devFailed     \* history: a device has failed

devVars == <<bootMode, multiboot, onDevice, devStage, Secondary, ops, offset, Ppd,
             headersFrom, devFailed>>
deviceVars == <<bootMode, multiboot, onDevice>>

DevIdle ==
  /\ bootMode = "QSPI24" /\ multiboot = 0 /\ onDevice = [d \in Devices |-> "none"]
  /\ devStage = "Idle" /\ Secondary = 0 /\ ops = "none" /\ offset = 0 /\ Ppd = "SAME"
  /\ headersFrom = <<>> /\ devFailed = FALSE

\* One image on the boot device and, if it names another one, an image there.
DevStart ==
  /\ devStage = "Idle" /\ devStage' = "Init"
  /\ bootMode' \in Devices /\ multiboot' \in 0..1
  /\ \E first \in DOMAIN PpdNo \cup {"none"}, other \in {"SAME", "none", "QSPI32"} :
       onDevice' = [d \in Devices |-> IF d = bootMode' THEN first ELSE other]
  /\ UNCHANGED <<Secondary, ops, offset, Ppd, headersFrom, devFailed>>

\* DeviceInit, of a device that is there or not.
DeviceInit(d, next) ==
  \/ d \in Built /\ devStage' = next /\ ops' = d /\ UNCHANGED devFailed
  \/ d \in Built /\ devStage' = "Err" /\ ops' = d /\ devFailed' = TRUE
  \/ d \notin Built /\ devStage' = "Err" /\ UNCHANGED <<ops, devFailed>>

PrimaryBootDeviceInit ==
  /\ devStage = "Init"
  /\ DeviceInit(bootMode, "Validate")
  /\ UNCHANGED <<deviceVars, Secondary, offset, Ppd, headersFrom>>

\* Where the image of a device is: in a file of its own, or in a slot.
Place(d) == IF d \in FileDevices THEN 0 ELSE multiboot

\* XFsbl_ValidateHeader compares the number of either device with the boot modes
\* of SD, eMMC and USB; for these ImageOffsetAddress stays what it was.
InFile(n) == n \in {ModeNo[d] : d \in FileDevices}
ImageOffset ==
  LET n == IF Secondary = 0 THEN ModeNo[bootMode] ELSE Secondary
  IN  IF InFile(n) THEN offset ELSE multiboot

\* It reads the header table at that offset and, unless this names another device,
\* the partition headers.  Elsewhere than at its place there may be an image or not.
HeaderRead(next) ==
  /\ offset' = ImageOffset
  /\ \/ /\ ImageOffset = Place(ops) /\ onDevice[ops] # "none"
        /\ Ppd' = onDevice[ops]
        /\ headersFrom' = IF Ppd' = "SAME" THEN <<ops, offset'>> ELSE headersFrom
        /\ devStage' = next
     \/ /\ ImageOffset # Place(ops)
        /\ Ppd' = "SAME" /\ headersFrom' = <<ops, offset'>> /\ devStage' = next
     \/ /\ ImageOffset = Place(ops) => onDevice[ops] = "none"
        /\ devStage' = "Err" /\ UNCHANGED <<Ppd, headersFrom>>

ValidateHeader ==
  /\ devStage = "Validate"
  /\ HeaderRead("Compare")
  /\ UNCHANGED <<deviceVars, Secondary, ops, devFailed>>

\* Mutant: the secondary device is never initialized.
SameDeviceAlways == TRUE
SameDevice == PpdNo[Ppd] = ModeNo[bootMode]

CompareDevices ==
  /\ devStage = "Compare"
  /\ Secondary' = PpdNo[Ppd]
  /\ devStage' = IF SameDevice \/ Ppd = "SAME" THEN "Done" ELSE "SecondInit"
  /\ UNCHANGED <<deviceVars, ops, offset, Ppd, headersFrom, devFailed>>

SecondaryBootDeviceInit ==
  /\ devStage = "SecondInit"
  /\ DeviceInit(Ppd, "SecondValidate")
  /\ UNCHANGED <<deviceVars, Secondary, offset, Ppd, headersFrom>>

\* An image that names a third device is refused.
SecondValidateHeader ==
  /\ devStage = "SecondValidate"
  /\ HeaderRead(IF Ppd' = "SAME" THEN "Done" ELSE "Err")
  /\ UNCHANGED <<deviceVars, Secondary, ops, devFailed>>

DevStep == PrimaryBootDeviceInit \/ ValidateHeader \/ CompareDevices
             \/ SecondaryBootDeviceInit \/ SecondValidateHeader
DevEnded == devStage \in {"Done", "Err"}

-----------------------------------------------------------------------------
DevTypeOK ==
  /\ bootMode \in Devices /\ multiboot \in 0..1
  /\ onDevice \in [Devices -> DOMAIN PpdNo \cup {"none"}]
  /\ devStage \in {"Idle", "Init", "Validate", "Compare", "SecondInit", "SecondValidate",
                   "Done", "Err"}
  /\ Secondary \in 0..11 /\ ops \in Devices \cup {"none"} /\ offset \in 0..1
  /\ Ppd \in DOMAIN PpdNo
  /\ headersFrom \in (Devices \X (0..1)) \cup {<<>>} /\ devFailed \in BOOLEAN

Named == IF onDevice[bootMode] = "SAME" THEN bootMode ELSE onDevice[bootMode]

\* Where the two numberings are taken for one another: the number the image header
\* gives the device is that of the boot mode, so that the second device counts as
\* the first; or a second image is looked for in the wrong place, since its number
\* is that of a file device, or is not, or since the offset is that of the first.
Confused ==
  /\ onDevice[bootMode] \notin {"SAME", "none"}
  /\ \/ PpdNo[Named] = ModeNo[bootMode]
     \/ /\ multiboot # 0 /\ Named \in Devices
        /\ \/ InFile(PpdNo[Named]) # (Named \in FileDevices)
           \/ Named \in FileDevices /\ bootMode \notin FileDevices

\* A boot that goes on has read the partition headers of the image it should: that
\* of the device named, at its place there, and will copy from that device.  One
\* that does not had a reason.
BootsNamedImage ==
  ~Confused =>
    /\ devStage = "Done" => headersFrom = <<Named, Place(Named)>> /\ ops = Named
    /\ devStage = "Err" =>
         \/ devFailed \/ bootMode \notin Built \/ onDevice[bootMode] = "none"
         \/ Named \notin Built \/ (Named # bootMode /\ onDevice[Named] # "SAME")
         \/ onDevice[bootMode] = bootMode
=============================================================================
