----------------------------- MODULE StreamStage ----------------------------
(***************************************************************************)
(* One AxisExpander between an AXI-Stream source and an AXI-Stream sink.   *)
(* The source is the width converter of the block design (or, for the      *)
(* Repeater, the data converter): it raises tvalid when it has a word and  *)
(* keeps it up until the word is accepted.  The sink raises tready as it   *)
(* likes; SinkReady is the set of values it may show at a clock edge, so   *)
(* {TRUE} is a sink that is always ready.  Words are numbered in the order *)
(* they are accepted: reg holds a number instead of 32 bits.               *)
(***************************************************************************)
EXTENDS AxisExpander

CONSTANTS
  MaxWords,     \* bound: the source stops after this many words
  SinkReady     \* the values the sink's tready takes

ASSUME StreamAssumption == MaxWords \in Nat /\ SinkReady \subseteq BOOLEAN

VARIABLES
  offer,        \* the source's tvalid
  taken,        \* history: words accepted
  done,         \* history: words whose N beats have left, or reset away
  beat          \* history: the last beat that left, <<word, index>>

vars == <<cstate, cnt, reg, offer, taken, done, beat>>

NoBeat == <<0, 0>>

Init == /\ InitStage(0)
        /\ offer \in {b \in BOOLEAN : b => MaxWords > 0}
        /\ taken = 0 /\ done = 0 /\ beat = NoBeat

\* The source holds tvalid until the handshake and then may have the next
\* word at once, or pause.
Source == /\ offer' \in BOOLEAN
          /\ offer /\ ~InReady => offer'
          /\ offer' => taken' < MaxWords

History(ready) ==
  /\ taken' = IF Sample(offer) THEN taken + 1 ELSE taken
  /\ done' = IF Xfer(ready) /\ cnt = N - 1 THEN done + 1 ELSE done
  /\ beat' = IF Xfer(ready) THEN <<reg, cnt>> ELSE beat

Edge(ready) == /\ Clock(offer, taken + 1, ready)
               /\ History(ready)
               /\ Source

\* The reset is common to the stage and its neighbours.
Reset == /\ ResetTo(0)
         /\ offer' = FALSE
         /\ done' = taken /\ beat' = NoBeat
         /\ UNCHANGED taken

Tick == \E ready \in SinkReady : Edge(ready)

Next == Tick \/ Reset

\* The clock runs, and the sink does not refuse for ever.
Fairness == WF_vars(Tick) /\ WF_vars(TRUE \in SinkReady /\ Edge(TRUE))

Spec == Init /\ [][Next]_vars /\ Fairness

-----------------------------------------------------------------------------

\* Every variable has its type.
TypeOK == /\ cstate \in States /\ cnt \in 0..N-1 /\ reg \in Nat
          /\ offer \in BOOLEAN
          /\ taken \in Nat /\ done \in Nat
          /\ beat \in Nat \X Nat

\* The words accepted and not yet finished.  Two are owed at most, and only
\* while the stage is in SEND with the count still on the last beat: the
\* second word was sampled in SEND_LAST before the last beat of the first
\* one had left.
Owed == CASE cstate = "IDLE" -> 0
          [] cstate = "HEADER" -> 1
          [] cstate = "SEND" -> IF cnt = N - 1 THEN 2 ELSE 1
          [] cstate = "SEND_LAST" -> 1

\* Whatever the sink does, beats are neither lost nor invented in number:
\* N beats leave for every word accepted, less those the state still owes
\* (fsm-2 and sender_cnt of QPSK_data_converter.v and Repeater.v).
BeatsConserved == taken = done + Owed

\* Whatever the sink does, a beat that leaves belongs to the word it is
\* counted for, except that the last beat of a word may be taken from the
\* next one (in_tdata_reg is overwritten in SEND_LAST).
OnlyLastBeatAtRisk ==
  beat # NoBeat =>
    IF cnt > 0 THEN beat = <<done + 1, cnt - 1>>
               ELSE beat \in {<<done, N - 1>>, <<done + 1, N - 1>>}

\* The stage implements the abstract stream, including that every word taken
\* is finished: the strict one with a sink that is always ready, the one with
\* overruns otherwise (SEND_LAST of fsm-2, which does not look at the beat).
Stream == INSTANCE WordStream WITH pos <- cnt, Overrun <- SinkReady # {TRUE}
StreamSpec == Stream!Spec
=============================================================================
