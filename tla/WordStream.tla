----------------------------- MODULE WordStream -----------------------------
(***************************************************************************)
(* What a one-in, N-out stage promises its neighbours: it takes words one  *)
(* at a time, never holding more than one unfinished, and sends beats 0 to *)
(* N-1 of each word, in order, before the first beat of the next one.      *)
(* Words are numbered in the order they are taken.  A reset discards the   *)
(* word in progress.                                                       *)
(*                                                                         *)
(* With Overrun the promise is weaker: the next word may be taken while    *)
(* the last beat is still to be sent, and may then supply that beat.       *)
(***************************************************************************)
EXTENDS Naturals

CONSTANTS N, Overrun

VARIABLES
  taken,        \* words taken so far
  done,         \* words finished (or discarded by a reset)
  pos,          \* the next beat of word done + 1
  beat          \* the last beat sent since the last reset, <<word, index>>

stream == <<taken, done, pos, beat>>

NoBeat == <<0, 0>>

Init == taken = 0 /\ done = 0 /\ pos = 0 /\ beat = NoBeat

Take == taken' = taken + 1

AtLast == Overrun /\ pos = N - 1 /\ taken = done + 2

Send == /\ done < taken
        /\ \/ beat' = <<done + 1, pos>>
           \/ AtLast /\ beat' = <<done + 2, pos>>
        /\ \/ pos < N - 1 /\ pos' = pos + 1 /\ done' = done
           \/ pos = N - 1 /\ pos' = 0 /\ done' = done + 1

Room == taken <= done + 1 \/ AtLast

Step == /\ \/ Take /\ Send
           \/ Take /\ UNCHANGED <<done, pos, beat>>
           \/ Send /\ UNCHANGED taken
        /\ Room'

Reset == done' = taken /\ taken' = taken /\ pos' = 0 /\ beat' = NoBeat

Next == Step \/ Reset

Safety == Init /\ [][Next]_stream

Spec == Safety /\ WF_stream(Send /\ (Take \/ UNCHANGED taken) /\ Room')
=============================================================================
