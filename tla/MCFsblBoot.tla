----------------------------- MODULE MCFsblBoot -----------------------------
(* Small images that meet each case of the partition loop and the handoff.  *)
EXTENDS FsblBoot

App(c) == [cpu |-> c, dev |-> "PS", fsbl |-> TRUE]
Bitstream == [cpu |-> "none", dev |-> "PL", fsbl |-> TRUE]
NotOurs(c) == [cpu |-> c, dev |-> "PS", fsbl |-> FALSE]

MCLayouts == { <<Bitstream, App("A0")>>,
               <<App("A0"), App("R0"), App("R1")>>,
               <<App("R0"), App("R0"), App("R1"), App("A0")>>,
               <<App("R0"), App("A0"), App("R0")>>,
               <<Bitstream, App("A1"), App("A1"), App("A0"), NotOurs("A0")>>,
               <<App("none"), Bitstream, App("R1")>> }
=============================================================================
