# TLA+ specifications of Lilac_UxB

Lilac_UxB is an RF transmitter on a Zynq UltraScale+ board. A Linux application
hands buffers to the `dma-proxy` kernel module, the DMA engine streams them into
the programmable logic, a QPSK modulator turns words into DAC samples, and a
first stage boot loader (FSBL) brings the board up. This directory holds TLA+
models of the parts of the repository that have behaviour of their own, the TLC
configurations that check them on small instances, and TLAPS proofs of the
properties that matter most for every value of the constants.

## The system

| part | source | state | operations | partners |
|---|---|---|---|---|
| data converter | `VivadoProject/RTL/QPSK_TX/QPSK_data_converter.v` | `cstate`, `sender_cnt`, `in_tdata_reg` | one clock edge, reset | AXI-Stream handshakes with the width converter and the Repeater |
| Repeater | `VivadoProject/RTL/QPSK_TX/Repeater.v` | the same three registers | one clock edge, reset | AXI-Stream with the converter and the interpolation filter |
| packaged modulator | `VivadoProject/ip/QPSK_MOD/src/` | the same, and a registered `out_tdata` | one clock edge | its own Repeater |
| dma-proxy, channel operations | `Petalinux/.../dma-proxy/files/dma-proxy.c` | `bdindex`, `bdtable[]`, the status words mapped to user space | `ioctl` START/FINISH/XFER, DMA callback | application threads, DMA engine |
| dma-proxy, module life cycle | same file | `total_count`, the static class, what each channel holds | load, probe, remove, unload | driver core |
| dma-proxy-test | `LinuxApplication/dma-proxy_test/dma-proxy-test.c` | `num_transfers`, `stop`, the counters and rings of two threads | the thread loops, SIGINT | two channels, the loopback |
| FSBL | `SDK/FSBL/` | see below | boot stages, partition loading, handoff, error fallback | boot devices, PMU, PL, watchdog |

What is hard: the two RTL stages overlap the end of one word with the start of
the next while the sink may refuse any beat; the driver's handler holds no lock
and meets completions that arrive after their wait has timed out; the module's
shared class and counter must survive probes that fail half way; the two
application threads share `num_transfers` and a stop flag without
synchronization; the boot loader runs a long sequence of fallible steps, with a
multiboot fallback, a watchdog and peers it waits for.

What makes each part correct:

* RTL: as many beats as words times N, in order, none lost but the one the
  overlap puts at risk, no pause of the carrier, always back to rest.
* driver: a wait reports success only for the buffer's latest transfer, no
  signal lost or left over, every ioctl returns.
* module: `total_count` equals the device nodes, the class outlives them,
  unloading leaves nothing, a bound device can transfer.
* application: both threads finish with the same count, the data verified is
  the data sent, nothing stays posted.
* FSBL, boot: a CPU is released only with all of its code in memory, none twice,
  none forgotten; a bad image is passed over, a good one is not; a restart of the
  APU alone leaves the R5s and the PL as they are.
* FSBL, partitions: what is loaded is still intact when the loading ends, secured
  partitions are genuine, the PMU is not overwritten while it runs, the waits for
  the PMU end; each CPU then starts in its own application, in the state it was
  built for.
* FSBL, bring-up: the DDR is trained and its ECC written before it is used, the image
  is that of the device named, a copy has the bytes of the flat image whatever the
  geometry of the flash, the PL receives what was signed and nothing else, and the
  boot ends.

### The FSBL

| part | source | state | operations | partners |
|---|---|---|---|---|
| boot stages | `xfsbl_main.c` | `FsblStage`, `PartitionNum`, multiboot and error status registers | four stages, error lock-down, fallback | reset logic, watchdog |
| initialization | `xfsbl_initialization.c` | `ResetReason`, `ProcessorID`, restored data, `TcmEccInitStatus` | reset reason, reset validation, boot device, TCM and DDR ECC | boot devices |
| image header | `xfsbl_image_header.c` | `ImageHeader`, the ATF parameters | table and header validation | boot devices, ATF |
| DDR | `psu_init.c`, `XFsbl_EccInit` | PHY status and error bits, DMA channel 0 | train in three phases, write all of the memory | DDR PHY, ADMA |
| boot devices | `xfsbl_qspi.c`, `_nand.c`, `_sd.c` | bank registers, bad blocks, a file | copy from an address of the image | flash chips, SD card |
| USB boot | `xfsbl_usb.c`, `xfsbl_dfu_util.c` | `DfuObj`, `DownloadDone` | DFU requests | a host |
| secure bitstream | `xfsbl_plpartition_valid.c` | `PlAuth`, `PlEncrypt`, `SecureHdr`, `HashsOfChunks` | hash and verify a block, read it again, decrypt, send | SHA, AES, PCAP |
| partition loading | `xfsbl_partition_load.c` | `HandoffValues`, memory, the PL | validate, place, copy, check, decrypt, configure | boot devices, PMU, CSU, PCAP |
| handoff | `xfsbl_handoff.c` | `CpuIndexEarlyHandoff`, the reset and power state of each CPU | release one CPU after another, jump or sleep | CPUs, PMU firmware |
| watchdog | `xfsbl_misc_drivers.c` | the SWDT | start, stop | PMU |

A boot runs on one CPU, in order. What makes it hard is what surrounds it: three
kinds of reset that keep different parts of the state, code of an earlier boot
that still runs on the R5s, a watchdog that may fire anywhere, a PMU that runs on
its own and has its memory replaced, and memory that each partition shares with
those loaded before it.

## Modules

| module | models | role |
|---|---|---|
| `AxisExpander` | one clock edge of the state machine both RTL stages share | operators, instantiated or extended by the next ones |
| `WordStream` | nothing in the code: the abstract stream | what a stage promises: words in order, N beats of each |
| `StreamStage`, `MCStreamStage` | one stage between a source and a sink | state machine, refinement of `WordStream` |
| `StreamStageProof` | | theorems about `StreamStage` |
| `QpskTx` | converter and Repeater on one clock | composition of two `AxisExpander`s |
| `QpskTxProof` | | theorems about `QpskTx` |
| `QpskModIp` | the packaged variant | its own converter, and an `AxisExpander` as the Repeater |
| `QpskMapping` | bits to amplitudes | the mapping, and the abstract sender that `QpskModIp` is a refinement of |
| `QpskModIpProof` | | theorems about `QpskModIp` and `QpskMapping` |
| `DmaProxy` | one driver channel, its threads and the engine | state machine, liveness |
| `DmaProxyProof` | | theorems about `DmaProxy` and `DmaProxyTest` |
| `DmaProxyModule` | life cycle of the kernel module | |
| `DmaProxyModuleProof` | | theorems about `DmaProxyModule` |
| `DmaProxyTest` | the application | the channels are what `DmaProxy` shows one thread |
| `FsblBoot`, `MCFsblBoot` | stages, handoff, fallback, resets | the loading of a partition is one action |
| `FsblBootProof` | | theorems about `FsblBoot` |
| `FsblPartition`, `MCFsblPartition` | the loading of partitions | that action in detail, on memory and the PMU |
| `FsblHandoff`, `MCFsblHandoff` | vectors, execution state and release of each CPU | extends `FsblPartition`: it starts what that has loaded |
| `FsblHandoffProof` | | theorems about `FsblPartition` and `FsblHandoff` |
| `FsblMemoryInit` | `psu_init`, DDR PHY, ECC of the DDR | the parts of one boot; each keeps |
| `FsblBootDevice` | primary and secondary device, the image header on each | its own state, and each call the others |
| `FsblDfu` | the download by USB | make only happens once they are done |
| `FsblDeviceCopy` | the copy from QSPI, NAND, SD and USB | |
| `FsblSecurePl` | the authenticated, possibly encrypted bitstream | |
| `FsblBringUp`, `MCFsblBringUp` | the order of these parts in `main()` | composition of the five |
| `FsblBringUpProof` | | theorems about the five parts of `FsblBringUp` |

Each module starts with a comment that says how its variables and actions
correspond to the code. An operator whose comment starts with "Mutant:" is a
wrong variant of the definition that follows it, kept to show that a property
notices. Constants without a value a `.cfg` can write (sets of records, sets of
sequences) are defined in an MC module; the others are checked directly.

### From the code to the models

* **RTL.** One action is one rising edge of `clk`. The combinational `nstate` and
  the registers of fsm-1 and fsm-3 are one primed conjunction each in
  `AxisExpander!Clock`. A word of 32 bits is its number in the stream, a symbol is
  `<<word, index>>`; the amplitudes are in `QpskMapping` only. `done`, `beat`,
  `dac`, `held` and `sent` are history: no register of the design holds them.
* **dma-proxy channel.** A thread's `pc` is the place in `ioctl`,
  `start_transfer` or `wait_for_transfer` at which another thread, the engine or
  its callback can come between: after `copy_from_user`, before and after the
  submission, around the wait. The channel's `bdindex` is read again where the
  code reads it again. A completion is its done count. The engine completes a
  cookie first and runs the callback later, as the vendor's driver does.
* **dma-proxy module.** `step` walks `create_channel`; each call may fail if it is
  in `failures`. The `static` class pointer, the global `total_count` and the
  kernel's own set of classes are three variables, since the code can let them
  disagree.
* **dma-proxy-test.** Each thread is a record of its locals with its place; each
  read and each write of the shared `num_transfers` is a step.
* **FSBL boot.** One action per stage of `main()`, per partition, and per turn of
  the handoff loop. Variables are grouped by what outlives a reset: board, registers
  and hardware, program. A partition is its CPU, its device and its owner.
* **FSBL partitions.** One action per function of `XFsbl_PartitionLoad`, split
  where the FSBL waits for the PMU. Memory is in units of 32 KB, half a TCM bank,
  so that lengths at, below and above a bank occur; a unit holds the partition it
  was copied from, and whether as stored or decrypted. A hash, signature or tag is
  its result: is the copy what was built. The memory map is that of `xfsbl_hw.h`.
* **FSBL handoff.** One action per turn of the loop of `XFsbl_Handoff`. The registers
  that outlive a turn (vector, RVBAR, 32-bit state, RPU mode) are variables, and where
  a CPU starts is read from them, as the hardware does, not from the partition header.
* **FSBL bring-up.** `phase` is the place in `main()`; the stage variable of each part
  is the place in its function. A part's input (device and content, flash geometry,
  bad blocks, what the host does, bitstream) is chosen when its call begins, and what
  only that call used is forgotten when it returns. Content is abstract: the byte at an
  address of the flat image is that address, so a copy is right if it counts on.
  Signatures and tags are right exactly on the bytes they were made for.

## What the runs check

`tlc -config X.cfg M` with the module of the table; every run but `FsblBringUp`, which takes two, ends
within a minute.

| run | module | states | checks |
|---|---|---|---|
| `Stage` | `MCStreamStage` | 155 | `TypeOK`, `BeatsConserved`, `OnlyLastBeatAtRisk`, `StreamSpec` |
| `QpskTx` | `QpskTx` | 3 618 | `TypeOK`, `SymbolsInOrder`, `Gapless`, `EventuallyDrained` |
| `QpskTxLastSymbol` | `QpskTx` | violation | `LastSymbolSent` |
| `QpskModIp` | `MCQpskModIp` | 35 428 | `TypeOK`, `InOrderWhileFed`, `WordRecovered` |
| `DmaProxy` | `DmaProxy` | 528 077 | `TypeOK`, `AlwaysSucceeds`, `SuccessMeansTransferred`, `IoctlReturns` |
| `DmaProxyModule` | `DmaProxyModule` | 111 088 | `TypeOK`, `ClassOutlivesNodes`, `BoundMeansUsable` |
| `DmaProxyTest` | `DmaProxyTest` | 5 448 | `TestTypeOK`, `CleanExit`, `RingInStep`, `ProcessEnds` |
| `DmaProxyTestLateStop` | `DmaProxyTest` | violation | `GracefulShutdown` |
| `FsblBoot` | `MCFsblBoot` | 364 696 | `TypeOK`, `ReleasedAreLoaded`, `CompleteHandoff`, `PlMatchesImage`, `GoodNeverSkipped`, `RunningUndisturbed`, `FallbackBoots` |
| `FsblPartition` | `MCFsblHandoff` | 279 049 | `HandoffTypeOK`, `LoadedIntact`, `StartsInItsApplication`, `PmuRamQuiet`, `LoadEnds` |
| `FsblBringUp` | `MCFsblBringUp` | 1 067 617 | `TypeOK`, `MemoryReady`, `BootsNamedImage`, `ContentFaithful`, `PlGetsSignedData`, `BringUpEnds` |
| `FsblTcmEcc` | `MCFsblPartition` | violation | `EccStatusTells` |

`CHECK_DEADLOCK FALSE` stands where the system really stops: a program that has
exited, a channel nobody uses any more, a boot that is over. The RTL runs check
deadlock, since a clock never stops.

**RTL.** The stage never sends a beat too many or too few whatever its sink does,
but fsm-2 leaves `SEND_LAST` on a sample without looking at the beat, so the last
beat of a word can be replaced by that of the next one (`OnlyLastBeatAtRisk` says
no more than that goes wrong, `StreamSpec` that it goes wrong only with a sink
that pauses). In the chain the Repeater always pauses the converter at that very
place, so `QpskTxLastSymbol` finds that a word that is followed at once by another
loses its 16th symbol. Everything else about the chain holds: order, five samples
for each symbol, no pause of the carrier, and the chain runs dry. The packaged
variant loses nothing while it is fed.

**Driver.** With one thread on a channel, which is how the application uses it, no
completion is lost, left over, or taken for that of another transfer, even if it
comes after its wait has timed out. A start that fails is not reported: with a peer
that stalls, the wait that follows may then report the success of an earlier transfer
(`dma-proxy.c:206`), and `SuccessMeansTransferred` claims the contrary only for a peer
that keeps up. With several threads the shared `bdindex`
makes a thread work on another's buffer; then only the return of each ioctl is
claimed. Each node of the module has its class (`ClassOutlivesNodes`) under three
conditions the property names: `device_create` does not fail, no device is bound a
second time, and, for the time the module is being unloaded, no allocation of buffers
has failed. The last is a bug of its own: a channel is counted after its buffers are
allocated and has its node before, so that a probe that fails there leaves a node that
`total_count` does not have, and the removal of the other devices destroys the class
under it (with the condition left out TLC finds this with two devices of one channel). That `total_count`, which is counted down without
a test, is never negative is part of `TypeOK`.

**Application.** Data, counters and rings agree, and the process ends, with `exit(1)`
only after a late ^C. A ^C with
fewer than `RX_BUFFER_COUNT` transfers to go makes the receive thread wait for a
buffer it never posted: the process then ends by `exit(1)` with transfers in
progress, which the comment in the code wants to avoid (`DmaProxyTestLateStop`).

**FSBL.** `FsblBoot` follows the system through boots, failures, hangs, watchdog
and other resets. Its properties name the cases in which the code does not do what
they say (`Usable`): an early handoff with an application that is split or not the
FSBL's, a partition without a CPU in an APU restart, and a fallback after an APU
restart; a restart leaves the PL alone unless the header of its bitstream names an A53
(`BitstreamOfA53`). `GoodNeverSkipped` is for all resets from outside but one that is
asked for while a watchdog reset is on record, in the status bit `swdt` (`overRecord`):
the boot after it may take that record for its own and fail with a good image.
`FallbackBoots` likewise starts where no watchdog reset is on record. `FsblPartition` loads one image. Its `LoadedIntact` assumes that the
image lays partitions apart (`Disjoint`) and R5 partitions in an order the code
supports (`TcmInOrder`), and `PmuRamQuiet` that no other partition runs into the RAM
of the PMU (`PmuRamApart`); that `TcmInOrder` is needed comes from
`TcmEccInitStatus`, which `FsblTcmEcc` shows to forget a TCM that was initialized.
The same run goes on to the handoff: `StartsInItsApplication` holds for applications
built to be started (`Startable`), which for 32-bit CPUs asks that the last header of
the image give the same vector location as the first of the application.

`FsblBringUp` is one boot up to the configured PL. Each of its properties names what
the code does not support: numbers of one device list that mean another device in the
other (`Confused`), flash geometries, bad blocks and files the copy is wrong for
(`Regular`), a host that starts its download again after the first status request or
asks for the status right after a detach (`counted`), a block with
more chunks than there is room for hashes, and hardware that stops with an error and
is waited for without a limit (`MemHung`). Of the three trainings of the DDR the
code looks for errors of the first only; `MemoryReady` says that the PHY has ended all
three and that the first, the write leveling, had none and came before the others. A DDR
whose Vref or data eyes could not be trained is in the model and boots, as in the code.
Within these limits memory is written before it is used, the copy is the image, and the PL gets exactly what was signed, even if the
copy in the DDR is changed between the two readings of a block.

## Bounds

* RTL: the real parameters (16 symbols, N = 5, sps = 4). Words are numbered, and
  the machine's state depends on the last two words only, so 3 or 4 words meet
  every succession. The mapping is checked for all words of 4 symbols, and proved
  for every length.
* `DmaProxy`: two threads and two buffers are the smallest that can interfere;
  two starts together allow one transfer that is late and one it can be mistaken for.
  A thread on its own gets four: a start that fails, a wait that times out and a
  completion left over by each need as many.
* `DmaProxyModule`: two devices of two channels, so that a class is created by one
  device and destroyed by another; three probes, so that one is bound again.
* `DmaProxyTest`: one transmit buffer as in the source, 3 receive buffers instead
  of 32, and 0 to 7 transfers: fewer than, as many as and more than twice the ring.
* `FsblBoot`: six partition lists (each CPU, split and contiguous R5 applications,
  a bitstream first or later, partitions of another owner or without a CPU), two
  flash slots, so that there is a bad image before a good one and the other way
  round, two resets from outside.
* `FsblPartition`: 19 kinds of partition, among them each that the code refuses and
  ones to be executed in place, for a CPU and for the PMU;
  all images of three usual ones and of two with an unusual one. Three are needed
  for a partition between two of the same R5. At most one is corrupt: the checks
  look at one partition at a time. Three of the unusual kinds are for the handoff: a
  32-bit A53 application, and R5 ones with the other vector location.
* `FsblBringUp`: two DDR ranges of two and three DMA transfers; all eight devices as
  boot mode and as the device named; QSPI chips of half a bank, one, two and four
  banks, alone, stacked and parallel, of a make with bank commands and one without,
  and every copy up to 16 units of half a bank. `DMA_DATA_TRAN_SIZE` is 512 MB in the
  code, more than any flash it supports, so its loop never turns twice but for banks;
  `DmaTran` is smaller here, so that it does. Four NAND blocks with every set of bad
  ones, and an image that begins at the start or in the middle of any of them; downloads of up to 4 blocks where `wValue` has 3 values, so that it wraps;
  one restart of the host, a detach, and a status request after it. Bitstreams of one to four blocks, with secure headers at
  each place of a chunk and across two chunks and two blocks.

`MaxWords`, `MaxAlone`, `MaxShared`, `MaxProbes`, `MaxTransfers` and `MaxResets` are the bounds
of counters and stand in the guards of the actions that count, as `MaxRestarts` does;
`MaxBlocks` and `MaxFile` bound what is chosen.

## Fairness

* RTL: the clock runs (`WF` of the tick) and the sink is ready again and again
  (`WF` of the edge with `tready`). The DAC behind the filter takes a sample in
  every period, which justifies the second.
* `DmaProxy`: each thread in the kernel is scheduled and its 3000 ms timer runs;
  the engine makes progress only if its peer does (`stalls`). User space is not
  fair: it need not call.
* `DmaProxyTest`: both threads and the loopback; nobody has to press ^C.
* `FsblBoot`: the loader runs until it stops or hangs, and a watchdog that runs
  expires; a reset from outside need not come. `FsblPartition`: the loader runs,
  and the PMU answers its interrupt and starts its firmware, which is hardware and
  code outside the repository; the FSBL waits for both without a limit, so
  `LoadEnds` is worth what these two assumptions are.
* `FsblBringUp`: the loader and the hardware it waits for make steps, well or not, and
  the host goes on with its download. Hardware may still stop with an error; where the
  code then waits for ever, `BringUpEnds` says so (`MemHung`). Nobody has to write to
  the copy of a bitstream.

## What is proved

| theorem | module | for every | says |
|---|---|---|---|
| `TypeCorrect` | `StreamStageProof` | `N >= 2`, sink, number of words | the registers stay in range |
| `Conservation` | `StreamStageProof` | the same | N beats for each word, less those the state owes |
| `LossBound` | `StreamStageProof` | the same | only the last beat of a word may be another word's |
| `Refines` | `StreamStageProof` | the same | the stage implements the safety part of `WordStream`, the strict one if the sink is always ready |
| `TypeCorrect` | `DmaProxyProof` | threads, buffers, number of starts | the channel's state stays in range |
| `LoneSucceeds` | `DmaProxyProof` | the same | with one thread, a prompt peer and no failing start, no wait fails |
| `SuccessSound` | `DmaProxyProof` | the same | with one thread, a success is that of the latest transfer |
| `TestTypeCorrect` | `DmaProxyProof` | receive buffers, number of transfers (one transmit buffer) | the variables of both threads stay in range |
| `TestRingInStep` | `DmaProxyProof` | the same | every wait is for a buffer posted, every word verified the one sent, no wait times out unless ^C comes late |
| `TestCleanExit` | `DmaProxyProof` | the same | both threads end with the same count and nothing posted |
| `TypeCorrect` | `QpskTxProof` | symbols in a word, repeats, number of words, sink | the registers of both stages stay in range |
| `InOrder` | `QpskTxProof` | the same | symbols reach the filter in order, each for exactly its samples if the filter is always ready |
| `NoPause` | `QpskTxProof` | the same | no pause of the carrier while words wait |
| `MemoryIsReady` | `FsblBringUpProof` | DDR ranges, longest transfer, tries of a PLL | before the DDR is used all three trainings have ended, the write leveling without an error and first, and all of it is written |
| `ImageIsNamed` | `FsblBringUpProof` | set of devices built in | the image booted is that of the device named |
| `BitstreamAsSigned` | `FsblBringUpProof` | sizes of chunk, block and header, list of bitstreams, interference with the DDR | the PL and the AES engine get only what was signed, in order, as what it is, and all of it if it is accepted |
| `ContentIsFaithful` | `FsblBringUpProof` | list of flashes, size of a transfer, NAND, its bad blocks and the place of the image in it, file, length of the download, restarts of the host | a copy within `Regular` is the run of the image asked for, a download with its own two status requests counted the image of the host |
| `TypeCorrect` | `FsblBringUpProof` | all of the above | the variables of the five parts stay in range |
| `Recovered` | `QpskModIpProof` | number of symbols, two distinct levels, either mapping | the points on the air determine the word |
| `TypeCorrect` | `QpskModIpProof` | symbols in a word, samples for a symbol, number of words | the registers of the packaged modulator stay in range |
| `SendsPoints` | `QpskModIpProof` | the same | the packaged modulator implements the sender of `QpskMapping` |
| `InOrderFed` | `QpskModIpProof` | the same, three samples or more | nothing is lost or repeated while words wait |
| `WordArrives` | `QpskModIpProof` | the same as `SendsPoints` | a receiver recovers the first word |
| `TypeCorrect` | `DmaProxyModuleProof` | devices, channels, probes, failures | the module's state stays in range, and `total_count`, counted down without a test, at or above 0 |
| `ClassLives` | `DmaProxyModuleProof` | the same | without a failing `device_create` or a second binding each node has its class, while unloading too if no allocation of buffers failed; nothing is left after an unload without failures |
| `BoundUsable` | `DmaProxyModuleProof` | the same | a device probed without error can transfer, and under the first two of these conditions is accessible |
| `TypeCorrect` | `FsblBootProof` | images, slots, resets | the state of the boot stays in range |
| `ReleasedLoaded` | `FsblBootProof` | the same | a CPU runs only with all of its application in memory |
| `HandoffComplete` | `FsblBootProof` | the same | a boot that ends well has released every CPU with an application, and marked the R5s |
| `PlOfImage` | `FsblBootProof` | the same | the PL has the bitstream of the image that booted |
| `NoGoodImageSkipped` | `FsblBootProof` | the same | the fallback passes over bad images only, unless a reset was asked for while a watchdog reset was on record |
| `Undisturbed` | `FsblBootProof` | the same | no CPU is released twice, an APU restart leaves R5s and PL alone (action property) |
| `TypeCorrect` | `FsblHandoffProof` | images, size of the DDR, what is corrupt or fails | the state of loading and handoff stays in range |
| `LoadedStaysIntact` | `FsblHandoffProof` | the same | what is loaded is as it was built when the loading ends |
| `PmuQuiet` | `FsblHandoffProof` | the same | the RAM of the PMU is written only while it sleeps (action property) |
| `StartsRight` | `FsblHandoffProof` | the same | each CPU starts in its own application, in the right state and RPU mode |

The assumptions are those of the modules (`ExpanderAssumption`,
`StreamAssumption`, `ChainAssumption`, `MappingAssumption`, `DmaProxyAssumption`,
`TestAssumption`, `MemoryAssumption`, `BuiltAssumption`, `DfuAssumption`, `CopyAssumption`,
`BitstreamAssumption`, `IpAssumption`, `ModuleAssumption`, `BootAssumption`,
`PartitionAssumption`). Those that say more than what kind of thing a constant is:
a stage has `N >= 2`; the DDR ends below the RAM of the PMU; a transfer of
`DMA_DATA_TRAN_SIZE` has a whole number of units in each of two parallel chips; an
encrypted bitstream ends with its last header, as the tool that builds it has it, and
what a block leaves of its last chunk is room for a header or nothing, as it is for
blocks of 8 MB. The theorems about the application have the hypothesis `TxBuffers = 1`,
which is `TX_BUFFER_COUNT` of `dma-proxy-test.h:29`; with more they are false, see below.

**RTL.** `BeatsConserved` is not inductive: nothing
in it says that the counter is zero in `HEADER`, without which the next edge could
finish a word early. The invariant `Inv` adds `CountOfState`, the counter each state
of fsm-2 implies, and `LatestWord`, that the data register holds the word taken
last; `InvStep` proves it edge by edge, one case for each state of the machine.
`LossBound` follows from `Inv` with one step more of history. For the strict
refinement a sink that never pauses also keeps the machine out of `SEND` with the
counter on the last beat. `Recovered` rests on the invariant `OnAir`, what the air
carries after each symbol.

In the chain neither stage knows what the other holds, so `Inv` of `QpskTxProof` says
it: `ConvInStep`, that the Repeater holds the symbol before the one the converter
offers, with the two exceptions the overlap in `SEND_LAST` makes (the first symbol of a
word may follow either symbol that closed the one before, and the counter is still on
the last symbol while it is replaced); `RepInStep`, that the filter has the Repeater's
symbol or the one before; for a filter that never pauses `OnTime`, that the count of
samples is the Repeater's counter; and for a source that never pauses `Fed`, that the
converter is idle only before the first word or after the last. `Edges` reduces an edge
of the clock to the two handshakes, and each part of `Inv` has a lemma of its own.

The packaged converter shows a symbol one clock late, and nothing but the pace of the
Repeater makes that harmless. `Inv` of `QpskModIpProof` says so: the Repeater takes
nothing in the clock after it has taken a symbol, so `out_tdata` catches up with
`sender_cnt` before the next is taken. With two samples for a symbol it would not, and
`InOrderFed` asks for three (the design has four; TLC finds the counterexample for two).
`SendsPoints` maps the registers to the abstract sender of `QpskMapping`: what has left
of the first word is what that sender has sent.

**Driver.** Neither property of `DmaProxy` is inductive: both are about a status word, and what it
says depends on where the transfer, its callback and its completion are. The invariant
`Inv` of `DmaProxyProof` has what always holds of a thread on its own, `QueueInOrder`
(the engine numbers transfers in the order it serves them), `SeesOwnIndex` (the three
readings of `bdindex` in a command agree) and `LatestCookie`; then, with a peer that
keeps up, `OneEach` (a buffer is in the queue or among the callbacks, once) and
`Accounted` (a transfer nobody has waited for is under way or its completion is there,
once, and no completion is there otherwise); then, with an engine that takes every
transfer, `NothingFails`. Each action has a lemma of its own. `LatestCookie` is what
makes a late completion harmless: a success needs the cookie of the latest transfer
to be complete, whatever woke the wait.

For the module, `Inv` of `DmaProxyModuleProof` counts: `Counted` says that `total_count` is
never below the number of channels whose creation is over, so that the class cannot be
destroyed under one of them, and no removal counts below zero; `ExactCount` that, as long
as no allocation of buffers has failed, it is the number of
nodes, but for the node whose buffers are being made, and that the class is there
exactly when there are nodes. `ProbeInStep`, `Resourced` and `Clean` say what the
channels before, at and after the one being created hold. The cardinalities change by
one node or by those of one device, which is where the library's theorems about finite
sets come in.

The two threads of the application share nothing but `num_transfers`, so `TestInv` says
what each may count on about the other. `InBalance` ties them: every transfer carried has
taken one buffer of each channel. `Window` is the ring seen from the transfer the receive
thread is at: buffer number `k` from there is posted, or has arrived with word
`rx.counter + k`, for all transfers up to some `g`. Unless ^C was late `g` is all that was
posted; after a late ^C the thread may post a buffer out of turn, and what remains true is
that none of those is the buffer it waits for, so that it times out before it could
verify a wrong word. `StopInTime` says that a ^C in time leaves `num_transfers` so far away
that the value written at line 176 is no larger, and `RxPosts` that the receive thread has
posted all its buffers until enough are posted and never more than the transmit thread will
fill. `CleanExit` follows since both counts then lie between the same bounds, and
`TimedOutLate` since a buffer that is posted can only stay empty if the transmit thread has
ended, when none is posted.

`CleanExit` and `RingInStep` do not hold for a larger `TX_BUFFER_COUNT`, which line 190
provides for. With two transmit buffers a ^C in time finds the second in progress, so that
the receive thread may already have posted one buffer more than the new `num_transfers`
asks for, and it ends with that buffer posted (TLC: two transmit and three receive buffers).
With three, a word may differ from the expected one after a late ^C: line 190 numbers a
buffer by those in flight, and some were not started again.

**FSBL, boot.** Each property of `FsblBoot` is about what several boots did one after
the other, so `Inv` of `FsblBootProof` says what each part of the state has come to.
`Places` has what is still as a reset left it at each stage; `EntriesInStep` that
`HandoffValues` lists the CPUs of the programs passed so far, each once; `Turns` that a
CPU runs only after its turn in that list, where an R5 of a build with early handoff has
its turn at `CpuIndexEarlyHandoff` and every other CPU at `CpuIndex`; `PlOrigin` whose
bitstream the PL has. `ReleasedLoaded` then needs that an early handoff comes after the
last partition of its CPU (`EarlyUsable`), `HandoffComplete` that every entry has had its
turn when the loop ends. `OnlyBadFail` is for
`NoGoodImageSkipped`: what fails or hangs is a bad image, and so is what left a record of a
watchdog reset that the next boot takes for its own.
`NoGoodImageSkipped` and `Undisturbed` follow from the same
invariant, one lemma for each stage.

**FSBL, loading and handoff.** `LoadedIntact` is about the end of the loading;
`LoadInv` is about every moment of it. Whatever is placed has passed the checks of its
header and its length (`Checked`); `TcmEccInitStatus` has the bits of the R5 whose TCM
was used last (`TcmReady`), which is why a partition of the same R5 is not wiped and why
`TcmInOrder` is needed; whatever is over is intact (`KeptIntact`), since each later copy,
staging, decryption or initialization writes to regions that `Disjoint` and `TcmInOrder`
keep apart. `EntryInv` says that an entry is for the first partition of its CPU's
application, that no CPU has two, and that every application passed has one; with a
pigeonhole argument there are no more entries than CPUs. `HandoffInv` follows the registers:
each CPU's are set once, from the header of the first partition of its application.

**FSBL, bring-up.** `MemoryIsReady` needs to know how far a chunk is: `Written` says that between two chunks
all that lies before `StartAddr` is written and the channel is at rest, and that while
the channel works, what is written, what it is at and what is left make up the chunk;
`Leveled`
and `Trained` tie the place in `psu_init` to the trainings the PHY has ended and the errors
it has met. `ImageIsNamed` rests on
`Read`, what has been read from which device at each place of the two functions: at the
comparison the header of the first device (`FirstRead`), after it that this header names
another, whose number is the one taken (`NamesAnother`). Each part of `FsblBringUp`
leaves the variables of the others alone,
so their invariants are proved apart, one lemma for each group of actions.

`PlInv`, for the bitstream, has three ideas. What the PL has got is right so far (`Right`),
and where the next unit goes is known from the place of the loop: as much as has been
sent, and what is kept of a header that was cut by the end of a chunk (`InPlace`). The
hash of each chunk of the first reading is a part of what was signed, if the signature was
right (`InHash`), so that a chunk of the second reading with the same hash has been changed
by nobody in between. And `aes`, the state of the decryption, is at the beginning of a
header, in data, in a header or at the end (`InLayout`), by the layout the headers
themselves give. What that layout is for a list of headers of any length is a function on
numbers; that it exists, that headers do not overlap and that every unit is data or part of
a header is proved from the least number for which it would fail, as are the facts about
bad blocks below.

`CopyInv`, for a copy: what has been copied is the run from the address asked for to
`SrcAddress` (`SoFar`), and each turn adds a run to it (`TurnKeeps`). A turn of the QSPI with
24 bits ends in its bank (`BankEndIs`), so one selection of a bank is right for all of it;
in two parallel chips a turn begins with the lower one, since every turn but the last has an
even length. For the NAND, `Reached` is how much of the image lies before a unit, and it
grows by one with each unit that `XNandPsu_Read` returns (`InStep`); that the first one is
that of the address asked for is where two bad blocks, or one if the image
begins inside a block, are the most the code is right for (`FirstRight`): the block looked at
last is then the one asked for or the one before it (`LastCountedIs`). `DfuInv` has what a host
whose two status requests are those that counted has got into memory at each step.

Every invariant and every action property that a passing run checks is also a theorem.
Only model-checked: liveness (`EventuallyDrained`, the fairness
of `StreamSpec`, `IoctlReturns`, `ProcessEnds`, `FallbackBoots`, `LoadEnds`,
`BringUpEnds`), which needs ENABLED. The runs
that expect a violation refute what a comment says; there is nothing to prove in them.

## What is not modelled

* Generated code. `psu_init.c`, `psu_init_gpl.c` and their headers are two copies of
  the same tables of register writes, three quarters of the lines of the repository;
  `xfsbl_ddr_init.c` computes such tables for memory modules this board does not have.
  Their control (order, results, polls) is in `FsblMemoryInit`, the tables have none.
* Vendor code and data: the block design's IP, device trees, Linux and U-Boot
  configuration, the sample programs and the plotting scripts.
* The reset of the packaged modulator is asynchronous and is left out; that of the
  RTL is an action of `StreamStage`.
* `dma-proxy.c`: `open`, `release` and `mmap` keep no state of the driver; the
  self-test is compiled with `internal_test = 0`.
* FSBL: the cryptography itself; the identification of a flash and the set-up of the
  controllers, which are calls of vendor drivers; power-off suspend, which this
  configuration does not build; the R5 vector backup of an FSBL built for an R5; the
  list of parameters for ATF; the protection registers; USB descriptors.
* USB boot is modelled although this configuration does not build it, since the image
  header may name it; the ECC of the DDR likewise depends on the memory controller of
  the hardware description, while its code also serves the TCM.

## Where the code departs from what it says, beyond the runs

Seen while translating; the models either follow the code and exclude the case in
a property, or leave it out as stated.

RTL

* With N = 1 the Repeater's test `sender_cnt == N-2` never holds and `SEND` is
  never left; `ExpanderAssumption` asks for `N >= 2`.
* The packaged converter offers a seventeenth beat in `SEND_LAST` while no word
  waits (`ip/QPSK_MOD/src/QPSK_data_converter.v:110`).
* The two mappings of bits to points exchange 01 and 10: a receiver must know which
  of the two modulators is used.

Driver and application

* `dma-proxy.c:367`: `bdindex` is shared by all threads of a channel, and neither
  bounded nor checked after a failing `copy_from_user`.
* `:206`: a preparation that fails is not reported; if an earlier transfer of the
  buffer completes late, the wait reports success.
* `:430`: the static `local_class_p` keeps pointing to a class that was destroyed,
  and is used when a device is bound again. `:433` tests another pointer than the
  one `class_create` has just set. `:597`: a channel is counted later than its node is
  created. `:450`: a failing `device_create` is undone but
  the function returns 0.
* `dma-proxy-test.c:353` compares the size before it is converted to bytes. With
  `TX_BUFFER_COUNT` above 1 a stop leaves receive transfers posted.

FSBL

* `XFsbl_ErrorLockDown` leaves through `XFsbl_HandoffExit` without stopping the
  watchdog (`xfsbl_main.c:459-466`): in a build that has one, "be in while loop" ends
  in a reset.
* Early handoff (not built, `FSBL_EARLY_HANDOFF_EXCLUDE_VAL 1`) falls through to the
  exit, with partitions left to load, if its CPU has no entry: a split application, a
  partition of another owner, an APU restart, an FSBL on an R5.
* The status bit of a watchdog reset is only cleared when one is recognized; a
  reset in the middle of a later boot can be taken for a watchdog reset, and a good
  image be skipped (`xfsbl_initialization.c:649`).
* A fallback after an APU-only reset increments multiboot and then spins, so that
  the next restart reads another image. A PS-only reset before the PL was ever
  loaded boots with an empty PL. A partition without a CPU is skipped in an APU
  restart. The R5 usage register is empty for the time of an APU restart although
  R5s run.
* But for SD1 no number of `XIH_IHT_PPD_*` is that of the same device in
  `XFSBL_*_BOOT_MODE`, yet the two are compared (`xfsbl_initialization.c:428`) and mixed
  (`:1135-1153`): an image on QSPI24 that names QSPI32 is loaded from QSPI24, and in another than the first slot
  the second image is looked for at the wrong offset.
* The first loop over the DDR training waits for exactly the value without error bits, so the
  test for errors after it never sees one (`psu_init.c:16528-16534`). The loops after the
  training of Vref and of the data eyes (`:16553`, `:16573`) mask the error bits out, and
  nobody looks at them later. The
  wait for `DMA_DONE` comes before the test for a DMA error (`:1619`, `:1630`), and the
  latter compares the whole status register with the error state.
* `SendBankSelect` does nothing for a flash of another make and reports success
  (`xfsbl_qspi.c:416-551`); the bank is never set back since `BankSwitchFlag` is never
  set (`:580`, `:758`). With 32 bits every chip counts as 64 MB, since the authors took
  the identification out (`:905`), and a read across two stacked chips is not split.
* NAND bad blocks are counted, from the block of the multiboot offset on, among the
  blocks of the image, not of the NAND, and a block too few where that offset lies inside
  a block (`xfsbl_nand.c:138-141`). A short read of a file is a success (`xfsbl_sd.c:176`).
* A detach ends in the idle state at once, as its case falls through
  (`xfsbl_dfu_util.c:602`), so that a status request before the interface is set is counted
  as one of the two. A host that starts a download again has its first status request counted a second
  time, and the boot goes on with half an image (`xfsbl_dfu_util.c:749`). The wait for a
  USB reset waits for nothing (`:275`).
* A block of 8 MB has 147 chunks, of 149 that fit; blocks of 16 MB and more, which the
  header can ask for, are refused (`xfsbl_plpartition_valid.c:279`).
* `XFsbl_SetCpuPwrSettings` with `XFSBL_CPU_POWER_UP` does nothing, since it tests the
  flag of the reset. A 32-bit CPU ignores the handoff address of its partition.
* The vector location of each CPU is read from the header of the partition loaded
  last (`xfsbl_handoff.c:929`). A partition executed in place for the PMU gets a handoff
  entry, which `XFsbl_SetCpuPwrSettings` then refuses (`:528`); one that names the PL as its
  device is entered too. The TCM length check leaves the offset of the load
  address out (`xfsbl_partition_load.c:602`). The waits for the PMU have no limit
  (`:1070`, `:1703`). MD5 passes the header check and is refused afterwards. An ATF
  entry without a CPU is flagged as A53-3 (`xfsbl_image_header.c:948`). A bitstream
  is staged at 1 MB over whatever was loaded there. A bitstream whose header names a CPU is
  not refused: one that names an A53 is configured again in a restart of the APU, and one
  with a load address in a TCM has that TCM initialized.

## Plan

1. `FsblPartition` as a refinement of the loading in `FsblBoot`, and `FsblBringUp` as
   one of its initialization: both have the calls `FsblBoot` has as one action.
2. `DmaProxyTest` over two `DmaProxy` channels instead of their summary.
3. Proofs of the refinements of 1, step by step.
