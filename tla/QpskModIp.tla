----------------------------- MODULE QpskModIp ------------------------------
(***************************************************************************)
(* The packaged variant of the modulator, VivadoProject/ip/QPSK_MOD: its   *)
(* data converter leaves SEND only when symbol 15 is transferred, where    *)
(* the RTL/QPSK_TX one leaves when symbol 14 is, and registers its output, *)
(* so that out_tdata shows a symbol one clock after sender_cnt selects it. *)
(* QPSK_Mod.v chains it to the Repeater.  The points of the first word are  *)
(* followed to a receiver (QpskMapping, with Packaged = TRUE).             *)
(***************************************************************************)
EXTENDS QpskMapping

CONSTANTS
  Sps,          \* parameter sps of QPSK_Mod: samples per symbol (4)
  MaxWords      \* bound: the source stops after this many words

ASSUME IpAssumption ==
  /\ Symbols >= 2 /\ Sps \in Nat /\ Sps >= 2 /\ MaxWords \in Nat

VARIABLES
  cstate, sender_cnt, in_tdata_reg,
  out_tdata,    \* the symbol on offer, <<word, index>>
  repState, repCnt, repReg,
  saturated,    \* a word is always waiting until MaxWords (fixed)
  offer,        \* tvalid of the source
  taken,        \* history: words accepted
  sent          \* history: the last two symbols given to the Repeater

vars == <<cstate, sender_cnt, in_tdata_reg, out_tdata, repState, repCnt, repReg,
          saturated, offer, taken, sent, pointVars>>

NoSymbol == <<0, 0>>

Rep == INSTANCE AxisExpander
         WITH N <- Sps, cstate <- repState, cnt <- repCnt, reg <- repReg

in_tready == cstate \in {"IDLE", "SEND_LAST"}
out_tvalid == cstate \in {"SEND", "SEND_LAST"}
sample == offer /\ in_tready
xfer == out_tvalid /\ Rep!InReady

Init == /\ cstate = "IDLE" /\ sender_cnt = 0 /\ in_tdata_reg = 0
        /\ out_tdata = NoSymbol
        /\ Rep!InitStage(NoSymbol)
        /\ saturated \in BOOLEAN
        /\ offer = (MaxWords > 0) /\ taken = 0
        /\ sent = <<NoSymbol, NoSymbol>>
        /\ InitPoints

\* Mutant: fsm-2 leaves SEND one symbol earlier, as RTL/QPSK_TX does.
AtLastButOne == sender_cnt = Symbols - 2
AtLast == sender_cnt = Symbols - 1

\* fsm-2
Nstate ==
  \/ cstate = "IDLE" /\ cstate' = IF sample THEN "HEADER" ELSE "IDLE"
  \/ cstate = "HEADER" /\ cstate' = "SEND"
  \/ cstate = "SEND" /\ cstate' = IF AtLast /\ xfer
                                    THEN "SEND_LAST" ELSE "SEND"
  \/ /\ cstate = "SEND_LAST"
     /\ \/ sample /\ cstate' = "SEND"
        \/ ~sample /\ xfer /\ cstate' = "IDLE"
        \/ ~sample /\ ~xfer /\ cstate' = "SEND_LAST"

\* fsm-3 loads the data register from the word and the count as they were
\* before the edge.
Output == out_tdata' = IF cstate' \in {"SEND", "SEND_LAST"}
                         THEN <<in_tdata_reg, sender_cnt>> ELSE out_tdata

\* Mutant: sender_cnt is wider than the word.
NextCntNoWrap == sender_cnt' = IF xfer THEN sender_cnt + 1 ELSE sender_cnt
NextCnt == sender_cnt' = IF xfer THEN (sender_cnt + 1) % Symbols ELSE sender_cnt

ConverterClock ==
  /\ Nstate
  /\ Output
  /\ NextCnt
  /\ in_tdata_reg' = IF sample THEN taken + 1 ELSE in_tdata_reg

RepeaterClock(ready) == Rep!Clock(out_tvalid, out_tdata, ready)

Source == /\ offer' \in BOOLEAN
          /\ offer' => taken' < MaxWords
          /\ offer /\ ~in_tready => offer'
          /\ saturated => offer' = (taken' < MaxWords)
          /\ UNCHANGED saturated

\* The first word's points, as they are given to the Repeater.
FirstWord ==
  IF xfer /\ out_tdata[1] = 1 /\ cnt < Symbols
    THEN /\ air' = Append(air, Point(word, out_tdata[2]))
         /\ cnt' = cnt + 1 /\ UNCHANGED word
    ELSE UNCHANGED pointVars

History == /\ taken' = IF sample THEN taken + 1 ELSE taken
           /\ sent' = IF xfer THEN <<sent[2], out_tdata>> ELSE sent
           /\ FirstWord

Tick == \E ready \in BOOLEAN :
          /\ ConverterClock
          /\ RepeaterClock(ready)
          /\ History
          /\ Source

Spec == Init /\ [][Tick]_vars

-----------------------------------------------------------------------------

\* Every variable has its type.
TypeOK == /\ cstate \in Rep!States /\ sender_cnt \in 0..Symbols-1
          /\ in_tdata_reg \in Nat /\ out_tdata \in Nat \X (0..Symbols-1)
          /\ repState \in Rep!States /\ repCnt \in 0..Sps-1
          /\ repReg \in Nat \X (0..Symbols-1)
          /\ saturated \in BOOLEAN /\ offer \in BOOLEAN /\ taken \in Nat
          /\ sent \in Seq(Nat \X (0..Symbols-1))
          /\ word \in Data /\ cnt = Len(air) /\ cnt \in 0..Symbols

\* The order in which the symbols of the stream are due.
Successor(s) == CASE s = NoSymbol -> <<1, 0>>
                  [] s[2] = Symbols - 1 -> <<s[1] + 1, 0>>
                  [] OTHER -> <<s[1], s[2] + 1>>

\* While the source always has the next word waiting, the packaged converter
\* loses and repeats nothing, despite its late output register: the Repeater
\* is busy long enough after each symbol for out_tdata to catch up.
InOrder == saturated /\ taken < MaxWords
             => (sent[2] # NoSymbol => sent[2] = Successor(sent[1]))

\* Even when the source pauses, and a seventeenth beat leaves in SEND_LAST,
\* positions follow one another without a gap or a repetition: out_tdata has
\* caught up with sender_cnt before each transfer.
PositionsFollow ==
  sent[1] # NoSymbol => sent[2][2] = (sent[1][2] + 1) % Symbols

InOrderWhileFed == InOrder /\ PositionsFollow
=============================================================================
