---------------------------- MODULE FsblSecurePl ----------------------------
(***************************************************************************)
(* The loading of an authenticated bitstream, encrypted or not, from its   *)
(* copy in the DDR (xfsbl_plpartition_valid.c), and its end in             *)
(* XFsbl_PLWaitForDone (xfsbl_bs.c).  FsblPartition has it as a call that  *)
(* succeeds or fails.                                                      *)
(*                                                                         *)
(* The bitstream is read in blocks, each signed; a block is read in chunks *)
(* twice, once to check its signature and once to be sent, and the running *)
(* hash after each chunk of the second reading is compared with that of    *)
(* the first.  An encrypted one is a sequence of secure header and data of *)
(* the length the header tells; the last header tells 0.  Neither knows of *)
(* the other, so headers and data lie across chunks and blocks anyhow.     *)
(*                                                                         *)
(* Offsets and lengths are in units of which a secure header, a chunk and  *)
(* a block are multiples.  A hash is what it is a hash of: how far the     *)
(* reading got, and where it met something else than what was signed.      *)
(***************************************************************************)
EXTENDS Naturals, Sequences, FiniteSets

CONSTANTS
  Bitstreams,   \* see BitstreamAssumption
  ChunkSize,    \* READ_BUFFER_SIZE
  HdrSize,      \* a secure header and its GCM tag
  NoOfHashs     \* HASH_BUFFER_SIZE/XFSBL_HASH_TYPE_SHA3

\* The offsets of the secure headers: the data of length data[j] follows header j.
HdrAt(data) == LET at[j \in Nat] == IF j <= 1 THEN 0 ELSE at[j - 1] + HdrSize + data[j - 1]
               IN  at

\* A bitstream: the data lengths between its secure headers, <<>> if it is not
\* encrypted; its length without certificates; and the length of a block.  An
\* encrypted one ends with its last header.  What remains of a block after whole
\* chunks of 56 KB is 8 KB or more.
ASSUME BitstreamAssumption ==
  /\ HdrSize \in Nat \ {0} /\ ChunkSize \in Nat /\ ChunkSize > HdrSize /\ NoOfHashs \in Nat
  /\ Bitstreams \subseteq [aes : Seq(Nat \ {0}), len : Nat \ {0}, BlockSize : Nat \ {0}]
  /\ \A b \in Bitstreams :
       /\ b.aes # <<>> => b.len = HdrAt(b.aes)[Len(b.aes) + 1] + HdrSize
       /\ b.BlockSize % ChunkSize = 0 \/ b.BlockSize % ChunkSize >= HdrSize

VARIABLES
  bit,          \* the bitstream
  changed,      \* the offsets where the copy differs from what was signed
  plStage,      \* where XFsbl_SecPlPartition is, or "Idle", "Done", "Err"
  block,        \* SrcAddress, Index, Len, IsLastBlock of its loop
  chunk,        \* Index in the loops over the chunks of a block
  hash,         \* the running hash
  HashsOfChunks,
  aes,          \* SizeofData, NextBlkLen, SecureHdr (whose length is Hdr), and
                \* within a chunk SrcAddr and Size
  sent,         \* what the PCAP and the AES engine have received
  plState,      \* the PL: "reset", "loading" or "done"
  disturbed     \* history: the copy has changed, or a call has failed

plVars == <<bit, changed, plStage, block, chunk, hash, HashsOfChunks, aes, sent, plState,
            disturbed>>
hashVars == <<hash, HashsOfChunks>>
outVars == <<aes, sent, plState>>

Encrypted == bit.aes # <<>>
NoHash == [upto |-> 0, met |-> {}]
NoAes == [SizeofData |-> 0, NextBlkLen |-> 0, SecureHdr |-> <<>>, SrcAddr |-> 0, Size |-> 0]
NoBit == [aes |-> <<>>, len |-> 1, BlockSize |-> 1]
FirstBlock(b) == [SrcAddress |-> 0, Index |-> 1, Len |-> b.BlockSize, IsLastBlock |-> FALSE]

PlIdle ==
  /\ bit = NoBit /\ changed = {} /\ plStage = "Idle" /\ block = FirstBlock(NoBit)
  /\ chunk = 0 /\ hash = NoHash /\ HashsOfChunks = <<>>
  /\ aes = NoAes /\ sent = <<>> /\ plState = "reset" /\ disturbed = FALSE

\* XFsbl_PartitionCopy has brought the bitstream to the DDR, with an offset that
\* went wrong or not, and XFsbl_PcapInit has reset the PL.
PlStart ==
  /\ plStage = "Idle" /\ plStage' = "Block"
  /\ bit' \in Bitstreams /\ block' = FirstBlock(bit')
  /\ changed' \in {{}} \cup {{o} : o \in 0..bit'.len-1}
  /\ disturbed' = (changed' # {})
  /\ UNCHANGED <<chunk, hashVars, outVars>>

-----------------------------------------------------------------------------
(* The loop over the blocks.                                               *)

IsLast == block.SrcAddress + bit.BlockSize > bit.len

\* The last block is what remains.  TotalLen includes the certificates, and the
\* code takes them off again.
\* Mutant: the last block is taken for a whole one.
BlockLenWhole == bit.BlockSize
BlockLen == IF IsLast THEN bit.len - (block.Index - 1) * bit.BlockSize ELSE bit.BlockSize

\* The chunks of a block, the last of which may be short.
NoOfChunks(len) == IF len > ChunkSize
                     THEN len \div ChunkSize + (IF len % ChunkSize > 0 THEN 1 ELSE 0)
                     ELSE 1

NextBlock ==
  /\ plStage = "Block"
  /\ IF block.SrcAddress < bit.len
       THEN /\ block' = [block EXCEPT !.IsLastBlock = IsLast, !.Len = BlockLen]
            /\ plStage' = IF NoOfChunks(BlockLen) > NoOfHashs THEN "Fail" ELSE "Sign"
       ELSE plStage' = "Wait" /\ UNCHANGED block
  /\ chunk' = 0 /\ hash' = NoHash
  /\ UNCHANGED <<bit, changed, HashsOfChunks, outVars, disturbed>>

BlockDone ==
  IF block.IsLastBlock
    THEN plStage' = "Wait" /\ UNCHANGED block
    ELSE /\ plStage' = "Block"
         /\ block' = [block EXCEPT !.SrcAddress = @ + bit.BlockSize, !.Index = @ + 1]

-----------------------------------------------------------------------------
(* XFsbl_PlSignVer: the first reading, and the signature.                  *)

IsLastChunk == chunk + 1 = NoOfChunks(block.Len)
ChunkFrom == block.SrcAddress + ChunkSize * chunk
ChunkLen == IF IsLastChunk THEN block.Len - ChunkSize * chunk ELSE ChunkSize
Updated == LET end == ChunkFrom + ChunkLen
           IN  [upto |-> end, met |-> hash.met \cup (changed \cap (ChunkFrom..end-1))]

HashChunk ==
  /\ plStage = "Sign"
  /\ hash' = Updated
  /\ HashsOfChunks' = [k \in DOMAIN HashsOfChunks \cup {chunk + 1} |->
                         IF k = chunk + 1 THEN Updated ELSE HashsOfChunks[k]]
  /\ IF IsLastChunk THEN plStage' = "Verify" /\ UNCHANGED chunk
                    ELSE chunk' = chunk + 1 /\ UNCHANGED plStage
  /\ UNCHANGED <<bit, changed, block, outVars, disturbed>>

\* Certificate n was made for the nth block, whole or up to the end.
Certificate(n) == [upto |-> IF n * bit.BlockSize < bit.len THEN n * bit.BlockSize ELSE bit.len,
                   met |-> {}]

VerifySignature ==
  /\ plStage = "Verify"
  /\ plStage' = IF hash = Certificate(block.Index) THEN "Again" ELSE "Fail"
  /\ chunk' = 0 /\ hash' = NoHash
  /\ UNCHANGED <<bit, changed, block, HashsOfChunks, outVars, disturbed>>

-----------------------------------------------------------------------------
(* XFsbl_ReAuthenticationBlock: the second reading.  What is sent is the   *)
(* buffer that was hashed.                                                 *)

\* What is sent: which unit, as what, and whether it was changed when it was read.
Units(use, from, n) == [k \in 1..n |-> <<use, from + k - 1, from + k - 1 \in hash'.met>>]

ChunkDone == IF IsLastChunk THEN BlockDone /\ UNCHANGED chunk
                            ELSE chunk' = chunk + 1 /\ plStage' = "Again" /\ UNCHANGED block

\* Mutant: the second reading is not compared.
SameHashUnchecked == TRUE
SameHash == HashsOfChunks[chunk + 1] = Updated

ReadAgain ==
  /\ plStage = "Again"
  /\ hash' = Updated
  /\ \/ ~SameHash /\ plStage' = "Fail" /\ UNCHANGED <<block, chunk, outVars>>
     \/ /\ SameHash /\ ~Encrypted
        /\ sent' = sent \o Units("data", ChunkFrom, ChunkLen) /\ plState' = "loading"
        /\ ChunkDone /\ UNCHANGED aes
     \/ /\ SameHash /\ Encrypted
        /\ plStage' = "Decrypt"
        /\ aes' = [aes EXCEPT !.SrcAddr = ChunkFrom, !.Size = ChunkLen]
        /\ UNCHANGED <<block, chunk, sent, plState>>
  /\ UNCHANGED <<bit, changed, HashsOfChunks, disturbed>>

-----------------------------------------------------------------------------
(* XFsbl_DecrptPlChunks, and one turn of the loop of XFsbl_DecrptPl.       *)

Headers == 1..Len(bit.aes)+1
Told(j) == IF j <= Len(bit.aes) THEN bit.aes[j] ELSE 0
HeaderUnits(j) == [k \in 1..HdrSize |-> <<"header", HdrAt(bit.aes)[j] + k - 1, FALSE>>]

\* XFsbl_DecrypSecureHdr and XFsbl_DecrptSetUpNextBlk, after the data before the
\* header: the tag is right only on a header, all of it.  rest is what the chunk
\* has after it, at src.
DecryptHeader(data, header, src, rest) ==
  LET read == {j \in Headers : header = HeaderUnits(j)}
  IN  \/ /\ read = {} /\ plStage' = "Fail"
         /\ sent' = sent \o data /\ UNCHANGED <<block, chunk, aes>>
      \/ \E j \in read :
           /\ sent' = sent \o data \o header
           /\ aes' = [SizeofData |-> Told(j), NextBlkLen |-> Told(j), SecureHdr |-> <<>>,
                      SrcAddr |-> src, Size |-> rest]
           /\ IF rest # 0 /\ Told(j) # 0 THEN UNCHANGED <<plStage, block, chunk>>
                                         ELSE ChunkDone

FirstHeader ==
  /\ aes.NextBlkLen = 0
  /\ DecryptHeader(<<>>, Units("header", aes.SrcAddr, HdrSize),
                   aes.SrcAddr + HdrSize, aes.Size - HdrSize)

\* The header began in the chunk before.
RestOfHeader ==
  /\ aes.NextBlkLen # 0 /\ aes.SecureHdr # <<>>
  /\ LET n == HdrSize - Len(aes.SecureHdr)
     IN  DecryptHeader(<<>>, aes.SecureHdr \o Units("header", aes.SrcAddr, n),
                       aes.SrcAddr + n, aes.Size - n)

\* Mutant: a header is taken for whole if its tag is cut.
IsSplitLate(rest) == rest < HdrSize - 1
IsSplit(rest) == rest < HdrSize

\* Data, up to the end of the chunk, or up to a header of which the chunk has a
\* part, or all.
DecryptData ==
  /\ aes.NextBlkLen # 0 /\ aes.SecureHdr = <<>>
  /\ LET rest == aes.Size - aes.SizeofData
         next == aes.SrcAddr + aes.SizeofData
         data == Units("data", aes.SrcAddr, aes.SizeofData)
     IN  \/ /\ aes.Size <= aes.SizeofData
            /\ sent' = sent \o Units("data", aes.SrcAddr, aes.Size)
            /\ aes' = [aes EXCEPT !.SizeofData = @ - aes.Size, !.Size = 0]
            /\ ChunkDone
         \/ /\ aes.Size > aes.SizeofData /\ aes.SizeofData # 0 /\ IsSplit(rest)
            /\ sent' = sent \o data
            /\ aes' = [aes EXCEPT !.SizeofData = 0, !.Size = 0,
                                  !.SecureHdr = Units("header", next, rest)]
            /\ ChunkDone
         \/ /\ aes.Size > aes.SizeofData /\ (aes.SizeofData = 0 \/ ~IsSplit(rest))
            /\ DecryptHeader(data, Units("header", next, HdrSize), next + HdrSize, rest - HdrSize)

Decrypt ==
  /\ plStage = "Decrypt" /\ hash' = hash
  /\ FirstHeader \/ RestOfHeader \/ DecryptData
  /\ plState' = "loading"
  /\ UNCHANGED <<bit, changed, HashsOfChunks, disturbed>>

-----------------------------------------------------------------------------
(* The end.                                                                *)

\* XFsbl_PLWaitForDone, in time or not.
PlWaitForDone ==
  /\ plStage = "Wait"
  /\ \/ plStage' = "Done" /\ plState' = "done" /\ UNCHANGED disturbed
     \/ plStage' = "Err" /\ disturbed' = TRUE /\ UNCHANGED plState
  /\ UNCHANGED <<bit, changed, block, chunk, hashVars, aes, sent>>

\* A DMA transfer, a key or an engine fails.
PlCallFails ==
  /\ plStage \in {"Sign", "Verify", "Again", "Decrypt"}
  /\ plStage' = "Fail" /\ disturbed' = TRUE
  /\ UNCHANGED <<bit, changed, block, chunk, hashVars, outVars>>

\* XFsbl_PartitionValidation resets the PL if XFsbl_SecPlPartition has failed.
PlFail ==
  /\ plStage = "Fail" /\ plStage' = "Err" /\ plState' = "reset"
  /\ UNCHANGED <<bit, changed, block, chunk, hashVars, aes, sent, disturbed>>

\* Something else writes to the copy, at any time.
DdrChanges ==
  /\ plStage \notin {"Idle", "Done", "Err"}
  /\ changed' \in {{}} \cup {{o} : o \in 0..bit.len-1} /\ changed' # changed
  /\ disturbed' = TRUE
  /\ UNCHANGED <<bit, plStage, block, chunk, hashVars, outVars>>

PlStep == NextBlock \/ HashChunk \/ VerifySignature \/ ReadAgain \/ Decrypt \/ PlWaitForDone
            \/ PlCallFails \/ PlFail
PlEnded == plStage \in {"Done", "Err"}

-----------------------------------------------------------------------------
PlTypeOK ==
  /\ changed \in SUBSET (0..bit.len-1)
  /\ plStage \in {"Idle", "Block", "Sign", "Verify", "Again", "Decrypt", "Wait", "Fail",
                  "Done", "Err"}
  /\ block.SrcAddress \in 0..bit.len+bit.BlockSize /\ block.Len \in 1..bit.BlockSize
  /\ chunk \in 0..NoOfHashs /\ hash.upto \in 0..bit.len
  /\ aes.SizeofData \in 0..bit.len /\ aes.Size \in 0..ChunkSize
  /\ Len(aes.SecureHdr) < HdrSize
  /\ plState \in {"reset", "loading", "done"} /\ disturbed \in BOOLEAN

\* What a receiver must get: every unit, in order, as it was signed, and in an
\* encrypted bitstream as what it is.
UseOf(o) ==
  LET at == HdrAt(bit.aes)
  IN  IF Encrypted /\ \E j \in Headers : o \in at[j]..at[j]+HdrSize-1 THEN "header" ELSE "data"
Stream == [k \in 1..bit.len |-> <<UseOf(k - 1), k - 1, FALSE>>]

\* Whatever happens to the copy meanwhile, the PL and the AES engine receive only
\* what was signed, without a gap, and all of it once XFsbl_SecPlPartition is done;
\* a bitstream that is refused does not stay in the PL.
OnlySigned ==
  plStage # "Idle" =>
    /\ Len(sent) <= bit.len /\ \A k \in DOMAIN sent : sent[k] = Stream[k]
    /\ plStage \in {"Wait", "Done"} => Len(sent) = bit.len
    /\ plStage = "Err" /\ Len(sent) < bit.len => plState = "reset"

\* A bitstream is refused only for a reason, however its headers lie across chunks
\* and blocks: something has gone wrong, or a block has more chunks than the buffer
\* for their hashes.
GoodLoads == plStage \in {"Fail", "Err"} => disturbed \/ NoOfChunks(block.Len) > NoOfHashs

\* XFsbl_SecPlPartition configures the PL with an intact bitstream, and with nothing
\* else: OnlySigned and GoodLoads.
PlGetsSignedData == OnlySigned /\ GoodLoads
=============================================================================
