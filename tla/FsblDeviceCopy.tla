--------------------------- MODULE FsblDeviceCopy ---------------------------
(***************************************************************************)
(* DeviceCopy: what the FSBL reads from its boot device when it asks for   *)
(* Length from SrcAddress on (xfsbl_qspi.c, xfsbl_nand.c, xfsbl_sd.c,      *)
(* xfsbl_usb.c).  A boot image is flat; the flash may be one chip, two one *)
(* above the other (stacked) or two side by side (parallel), addressed     *)
(* with 24 bits and a bank register or with 32 bits; a NAND has bad blocks *)
(* the image was written around, from its slot on; a file ends somewhere.  *)
(*                                                                         *)
(* The content of the flash at an address of the flat image is that        *)
(* address.  Addresses are in units of 8 MB for a QSPI flash, half a bank, *)
(* and of half a block for a NAND.                                         *)
(***************************************************************************)
EXTENDS Naturals, Sequences, FiniteSets

CONSTANTS
  Flashes,      \* the QSPI flashes: [mode, make, chip : the size of one chip]
  DmaTran,      \* DMA_DATA_TRAN_SIZE, an even number of units as two chips side by
                \* side need it: 0x20000000
  NandBlocks,   \* the number of blocks of the NAND
  MaxFile       \* the largest file, on an SD card or downloaded by USB

Modes == {"single", "stacked", "parallel"}
ASSUME CopyAssumption ==
  /\ Flashes \subseteq [mode : Modes, make : {"Micron", "Spansion", "other"}, chip : {1, 2, 4, 8}]
  /\ DmaTran \in Nat \ {0} /\ DmaTran % 2 = 0
  /\ NandBlocks \in Nat \ {0} /\ MaxFile \in Nat \ {0}

Bank == 2               \* BANKSIZE
Block == 2              \* Geometry.BlockSize
Qspi32Chip == 8         \* FLASH_SIZE_512M

VARIABLES
  dev,          \* the device copied from
  medium,       \* what is in it: a flash, a NAND with an image, the length of a file
  bank,         \* the bank register of each chip of a QSPI flash
  copyStage,    \* "Idle", "Copying", "Done" or "Err"
  arg,          \* SrcAddress and Length, as the caller gave them
  SrcAddress, RemainingBytes,
  dest          \* what has been copied

copyVars == <<dev, medium, bank, copyStage, arg, SrcAddress, RemainingBytes, dest>>
inputVars == <<dev, medium, arg>>

CopyIdle ==
  /\ dev = "none" /\ medium = 0 /\ bank = [c \in {"lower", "upper"} |-> 0]
  /\ copyStage = "Idle" /\ arg = <<0, 0>> /\ SrcAddress = 0 /\ RemainingBytes = 0 /\ dest = <<>>

SmallerOf(a, b) == IF a < b THEN a ELSE b

-----------------------------------------------------------------------------
(* The QSPI flash, as built and as the FSBL knows it.                      *)

Parallel == medium.mode = "parallel"
Stacked == medium.mode = "stacked"

\* QspiFlashSize: with 24 bits from the chip's identification, with 32 bits fixed.
ChipSize == IF dev = "QSPI24" THEN medium.chip ELSE Qspi32Chip
FlashSize == IF medium.mode = "single" THEN ChipSize ELSE 2 * ChipSize
TrueSize == IF medium.mode = "single" THEN medium.chip ELSE 2 * medium.chip

\* XFsbl_GetQspiAddr: the chips selected and the address there.
Selected == CASE Parallel -> {"lower", "upper"}
              [] Stacked /\ SrcAddress >= FlashSize \div 2 -> {"upper"}
              [] OTHER -> {"lower"}
QspiAddr == CASE Parallel -> SrcAddress \div 2
              [] Stacked /\ SrcAddress >= FlashSize \div 2 -> SrcAddress - FlashSize \div 2
              [] OTHER -> SrcAddress

\* What the chips answer to a read of n from their address from on: a chip counts on
\* within its bank with 24 bits, within itself with 32.
Cell(chip, a) == (IF dev = "QSPI24" THEN bank'[chip] * Bank + (a % Bank) ELSE a) % medium.chip
Flat(chip, cell) == IF chip = "upper" THEN cell + medium.chip ELSE cell
ReadChips(from, n) ==
  [k \in 1..n |->
     IF Parallel THEN 2 * Cell("lower", from + (k - 1) \div 2) + ((k - 1) % 2)
     ELSE LET chip == CHOOSE c \in Selected : TRUE IN Flat(chip, Cell(chip, from + k - 1))]

Advance(n, read) ==
  /\ dest' = dest \o read
  /\ SrcAddress' = SrcAddress + n /\ RemainingBytes' = RemainingBytes - n
  /\ copyStage' = IF RemainingBytes' = 0 THEN "Done" ELSE "Copying"

Fails == copyStage' = "Err" /\ UNCHANGED <<SrcAddress, RemainingBytes, dest>>

\* Where a turn of XFsbl_Qspi24Copy ends: at the end of a bank.
\* Mutant: it does not.
BankEndIgnored(orig, n, size) == n
BankEnd(orig, n, size) ==
  IF orig \div size # (orig + n) \div size THEN (orig \div size) * size + size - orig ELSE n

\* SendBankSelect knows the commands of these makes; for any other it does nothing
\* and succeeds.
BankSelect(to) ==
  IF medium.make \in {"Micron", "Spansion"}
    THEN [c \in DOMAIN bank |-> IF c \in Selected THEN to ELSE bank[c]]
    ELSE bank

Qspi24Copy ==
  /\ copyStage = "Copying" /\ dev = "QSPI24"
  /\ LET size == IF Parallel THEN 2 * Bank ELSE Bank
         orig == IF Parallel THEN 2 * QspiAddr ELSE QspiAddr
         n == BankEnd(orig, SmallerOf(RemainingBytes, DmaTran), size)
     IN  /\ bank' = IF FlashSize > size THEN BankSelect(QspiAddr \div Bank) ELSE bank
         /\ Advance(n, ReadChips(QspiAddr, n))
  /\ UNCHANGED inputVars

\* One turn of XFsbl_Qspi32Copy.
Qspi32Copy ==
  /\ copyStage = "Copying" /\ dev = "QSPI32"
  /\ bank' = bank
  /\ LET n == SmallerOf(RemainingBytes, DmaTran) IN Advance(n, ReadChips(QspiAddr, n))
  /\ UNCHANGED inputVars

-----------------------------------------------------------------------------
(* The others read in one go.                                              *)

\* The block in which the image of a NAND begins, at FlashImageOffsetAddress as the
\* multiboot register has it, and the bad blocks from there on, around which the image
\* was written.
ImageBlock == medium.offset \div Block
BadBlocks == {b \in medium.bad : b >= ImageBlock}
Good(block) == block \in 0..NandBlocks-1 /\ block \notin BadBlocks
GoodBefore(block) == Cardinality({b \in 0..block-1 : Good(b)})
NandContent(u) == GoodBefore(u \div Block) * Block + (u % Block)

\* XNandPsu_Read goes on by a block where it meets a bad one; what the NAND has then.
Beginning(from) == {u \in from..NandBlocks*Block-1 :
                      Good(u \div Block) /\ (u - from) % Block = 0}
Following(from) ==
  {u \in 0..NandBlocks*Block-1 : Good(u \div Block) /\ \E v \in Beginning(from) : v <= u}
NandRead(from, n) ==
  [k \in 1..n |-> NandContent(CHOOSE u \in Following(from) :
                                Cardinality({v \in Following(from) : v < u}) = k - 1)]

\* XFsbl_NandCopy passes over a block for each bad one among as many from the first as
\* the image has up to the address.
\* Mutant: it counts from the beginning of the NAND.
LastCountedFromZero == (SrcAddress - medium.offset) \div Block
LastCounted == ImageBlock + (SrcAddress - medium.offset) \div Block
BadSkipped == Cardinality({b \in ImageBlock..LastCounted : ~Good(b)})
NandCopy ==
  /\ copyStage = "Copying" /\ dev = "NAND"
  /\ LET from == SrcAddress + BadSkipped * Block
     IN  IF Cardinality(Following(from)) < RemainingBytes THEN Fails
           ELSE Advance(RemainingBytes, NandRead(from, RemainingBytes))
  /\ UNCHANGED <<inputVars, bank>>

\* XFsbl_SdCopy does not look at how much f_read has read; XFsbl_UsbCopy copies from
\* where the download was written, which may end before.
FileCopy ==
  /\ copyStage = "Copying" /\ dev \in {"SD", "USB"}
  /\ LET there == IF SrcAddress >= medium THEN 0 ELSE SmallerOf(RemainingBytes, medium - SrcAddress)
     IN  Advance(RemainingBytes, [k \in 1..there |-> SrcAddress + k - 1])
  /\ UNCHANGED <<inputVars, bank>>

-----------------------------------------------------------------------------
(* The call: a device and what is in it, with any bank selected by an      *)
(* earlier boot where a chip has several.                                  *)

Begin(d, m, src, len) ==
  /\ dev' = d /\ medium' = m /\ arg' = <<src, len>>
  /\ SrcAddress' = src /\ RemainingBytes' = len /\ UNCHANGED dest

\* The range is checked against QspiFlashSize.
CopyQspi(d) ==
  \E m \in Flashes, src \in 0..15, len \in 1..16 :
    /\ Begin(d, m, src, len)
    /\ src + len <= TrueSize' /\ (Parallel' => src % 2 = 0)
    /\ bank' \in [DOMAIN bank -> 0..(IF m.chip > Bank THEN 1 ELSE 0)]
    /\ copyStage' = IF src + len > FlashSize' THEN "Err" ELSE "Copying"

CopyNand ==
  \E bad \in SUBSET (0..NandBlocks-1), src \in 0..NandBlocks*Block-1, len \in 1..2*Block :
    \E offset \in 0..src :
      /\ Begin("NAND", [bad |-> bad, offset |-> offset], src, len)
      /\ copyStage' = "Copying" /\ UNCHANGED bank

CopyFile ==
  \E d \in {"SD", "USB"}, n \in 1..MaxFile, src \in 0..MaxFile, len \in 1..MaxFile :
    Begin(d, n, src, len) /\ copyStage' = "Copying" /\ UNCHANGED bank

CopyStart(d) ==
  /\ copyStage = "Idle"
  /\ \/ d \in {"QSPI24", "QSPI32"} /\ CopyQspi(d)
     \/ d = "NAND" /\ CopyNand
     \/ d \in {"SD_0", "SD_1", "SD_LS", "EMMC", "USB"} /\ CopyFile

\* The device does not answer.
DeviceFails ==
  /\ copyStage = "Copying"
  /\ Fails /\ UNCHANGED <<inputVars, bank>>

CopyStep == Qspi24Copy \/ Qspi32Copy \/ NandCopy \/ FileCopy \/ DeviceFails
CopyEnded == copyStage \in {"Done", "Err"}

-----------------------------------------------------------------------------
CopyTypeOK ==
  /\ dev \in {"none", "QSPI24", "QSPI32", "NAND", "SD", "USB"}
  /\ bank \in [{"lower", "upper"} -> 0..3]
  /\ copyStage \in {"Idle", "Copying", "Done", "Err"}
  /\ SrcAddress \in Nat /\ RemainingBytes \in Nat /\ dest \in Seq(Nat)

\* The geometries the code is right for.  Two chips of less than a bank are told
\* apart by no bank; a make it has no commands for stays in one bank; with 32 bits
\* every chip is taken for one of 64 MB, and a read is not split where the upper chip
\* begins; the bad blocks of a NAND are counted up to a block of the image instead of
\* one of the NAND, and one block less where the image begins inside a block; the length
\* of a file is not looked at.
Regular ==
  CASE dev = "QSPI24" -> /\ ~(Stacked /\ medium.chip < Bank)
                         /\ medium.make = "other" => medium.chip <= Bank
    [] dev = "QSPI32" -> Stacked => /\ medium.chip = Qspi32Chip
                                    /\ arg[1] < Qspi32Chip => arg[1] + arg[2] <= Qspi32Chip
    [] dev = "NAND" -> Cardinality(BadBlocks) <= IF medium.offset % Block = 0 THEN 2 ELSE 1
    [] dev \in {"SD", "USB"} -> arg[1] + arg[2] <= medium
    [] OTHER -> TRUE

\* A copy that succeeds is what the flat image has there, across banks, chips and bad
\* blocks, and whatever bank was selected before.
CopyFaithful ==
  copyStage = "Done" /\ Regular => dest = [k \in 1..arg[2] |-> arg[1] + k - 1]
=============================================================================
