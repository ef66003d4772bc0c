---------------------------- MODULE MCQpskModIp -----------------------------
(* Each bit is mapped on its own, so words that differ from all zeros in    *)
(* one bit, and all ones, show every bit that is misplaced or inverted.     *)
EXTENDS QpskModIp

MCData == {[i \in 0..2*Symbols-1 |-> IF i = k THEN 1 ELSE 0] : k \in 0..2*Symbols}
            \cup {[i \in 0..2*Symbols-1 |-> 1]}
=============================================================================
