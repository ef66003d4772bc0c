--------------------------- MODULE MCFsblBringUp ---------------------------
(* Two ranges of several transfers; every flash geometry; bitstreams with   *)
(* headers at every place of a chunk and across chunks and blocks.          *)
EXTENDS FsblBringUp

MCRanges == <<[from |-> 1, len |-> 4], [from |-> 10, len |-> 7]>>

MCFlashes == [mode : Modes, make : {"Micron", "other"}, chip : {1, 2, 4, 8}]

Secure(data, n, size) == [aes |-> data, len |-> n, BlockSize |-> size]

MCBitstreams ==
  {Secure(<<>>, n, size) : n \in {1, 8, 17}, size \in {8, 24}} \cup {Secure(<<>>, 25, 24)}
    \cup {Secure(<<n>>, n + 6, 15) : n \in 3..7}
    \cup {Secure(<<n, 3>>, n + 12, 8) : n \in 1..4}
=============================================================================
