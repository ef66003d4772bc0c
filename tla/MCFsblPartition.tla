--------------------------- MODULE MCFsblPartition --------------------------
(* Images of up to three partitions, over kinds that meet each branch of    *)
(* the loading.                                                             *)
EXTENDS FsblPartition

Plain(c, at, n) ==
  [cpu |-> c, dev |-> "PS", load |-> at, len |-> n, exec |-> TRUE,
   auth |-> FALSE, enc |-> FALSE, sum |-> "none", fsbl |-> TRUE,
   aa32 |-> FALSE, hivec |-> FALSE]

Bitstream == [Plain("none", DummyPl, 3) EXCEPT !.dev = "PL", !.exec = FALSE]

Usual == { Plain("A0", DdrTemp, 2),
           [Plain("A1", 40, 2) EXCEPT !.auth = TRUE, !.enc = TRUE],
           Bitstream,
           Plain("R0", 0, 2),
           [Plain("R0", BTcm, 1) EXCEPT !.sum = "SHA3"],
           [Plain("R1", 0, 1) EXCEPT !.auth = TRUE],
           Plain("PMU", 131000, 2),
           [Plain("PMU", 131002, 1) EXCEPT !.exec = FALSE] }

Unusual == { [Plain("none", 44, 1) EXCEPT !.sum = "MD5"],
             Plain("A0", 0, 0), Plain("PMU", 0, 0),
             [Plain("A0", 0, 0) EXCEPT !.auth = TRUE],
             [Bitstream EXCEPT !.auth = TRUE, !.enc = TRUE],
             [Plain("A0", 36, 4) EXCEPT !.fsbl = FALSE],
             [Plain("R1", 0, 2) EXCEPT !.auth = TRUE],
             Plain("R0", 0, 3), Plain("R1", 50, 3), Plain("RL", 2, 4),
             Plain("A0", 70, 1),
             [Plain("A0", 46, 1) EXCEPT !.aa32 = TRUE],
             [Plain("A1", 0, 2) EXCEPT !.aa32 = TRUE],
             [Plain("R1", 131070, 1) EXCEPT !.hivec = TRUE] }

MCImages == [1..3 -> Usual] \cup {<<u, v>> : u \in Usual \cup Unusual, v \in Unusual}
              \cup {<<u>> : u \in Unusual}
=============================================================================
