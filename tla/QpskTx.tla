------------------------------- MODULE QpskTx -------------------------------
(***************************************************************************)
(* The QPSK transmit chain of the block design (Lilac_UxB_bd.tcl): the     *)
(* data converter turns each 32-bit word of the DMA stream into 16 symbols *)
(* and the Repeater holds each symbol for several DAC samples.  Both are   *)
(* AxisExpanders on one clock; the converter's sink is the Repeater, whose *)
(* axis_in_tready is low while it repeats, so the converter always meets   *)
(* backpressure.                                                           *)
(***************************************************************************)
EXTENDS Naturals

CONSTANTS
  Symbols,      \* symbols per word (16)
  Repeats,      \* parameter N of the Repeater (5 in the block design)
  MaxWords      \* bound: the DMA stream ends after this many words

ASSUME ChainAssumption ==
  /\ Symbols \in Nat /\ Symbols >= 2 /\ Repeats \in Nat /\ Repeats >= 2
  /\ MaxWords \in Nat

VARIABLES
  convState, convCnt, convReg,  \* QPSK_data_converter
  repState, repCnt, repReg,     \* Repeater
  steady,       \* the filter's tready never falls (fixed in a behaviour)
  saturated,    \* a word is always waiting until MaxWords (fixed as well)
  offer,        \* tvalid of the width converter
  taken,        \* history: words accepted by the converter
  dac,          \* history: the last symbol sampled by the filter
  held          \* history: for how many samples it has been sent

vars == <<convState, convCnt, convReg, repState, repCnt, repReg,
          steady, saturated, offer, taken, dac, held>>

NoSymbol == <<0, 0>>

Conv == INSTANCE AxisExpander
          WITH N <- Symbols, cstate <- convState, cnt <- convCnt, reg <- convReg

Rep == INSTANCE AxisExpander
         WITH N <- Repeats, cstate <- repState, cnt <- repCnt, reg <- repReg

\* axis_out_tdata of the converter, as <<word, symbol index>>: a function of
\* the word register and sender_cnt, not itself a register.
ConvData == <<convReg, convCnt>>

Init == /\ Conv!InitStage(0) /\ Rep!InitStage(NoSymbol)
        /\ steady \in BOOLEAN /\ saturated \in BOOLEAN
        /\ offer \in BOOLEAN
        /\ offer => MaxWords > 0
        /\ saturated => offer = (MaxWords > 0)
        /\ taken = 0 /\ dac = NoSymbol /\ held = 0

Source == /\ offer' \in BOOLEAN
          /\ offer' => taken' < MaxWords
          /\ offer /\ ~Conv!InReady => offer'
          /\ saturated => offer' = (taken' < MaxWords)

History(ready) ==
  /\ taken' = IF Conv!Sample(offer) THEN taken + 1 ELSE taken
  /\ IF Rep!Xfer(ready)
       THEN dac' = repReg /\ held' = IF repReg = dac THEN held + 1 ELSE 1
       ELSE UNCHANGED <<dac, held>>

\* One rising edge of the common clock.
RepeaterClock(ready) == Rep!Clock(Conv!OutValid, ConvData, ready)

\* Mutant: the Repeater's tready is not wired to the converter.
ConverterClockUnheld == Conv!Clock(offer, taken + 1, TRUE)
ConverterClock == Conv!Clock(offer, taken + 1, Rep!InReady)

Edge(ready) == /\ ConverterClock
               /\ RepeaterClock(ready)
               /\ History(ready)
               /\ Source
               /\ UNCHANGED <<steady, saturated>>

Tick == \E ready \in BOOLEAN : (steady => ready) /\ Edge(ready)

\* The clock runs and the filter is ready again and again.
Spec == /\ Init /\ [][Tick]_vars
        /\ WF_vars(Tick) /\ WF_vars(Edge(TRUE))

-----------------------------------------------------------------------------

\* Every variable has its type.
TypeOK == /\ convState \in Conv!States /\ convCnt \in 0..Symbols-1
          /\ convReg \in Nat
          /\ repState \in Rep!States /\ repCnt \in 0..Repeats-1
          /\ repReg \in Nat \X (0..Symbols-1)
          /\ steady \in BOOLEAN /\ saturated \in BOOLEAN
          /\ offer \in BOOLEAN /\ taken \in Nat
          /\ dac \in Nat \X (0..Symbols-1) /\ held \in Nat

\* The symbol after s on the air, if the converter's accounting is right.
Successor(s) == IF s[2] = Symbols - 1 THEN <<s[1] + 1, 0>> ELSE <<s[1], s[2] + 1>>

\* Symbols reach the filter in order: positions follow one another through
\* the word and from one word to the next, and a symbol's word is the right
\* one except that the last position may carry the next word's last symbol.
\* And if the filter is always ready each symbol is held for exactly Repeats
\* samples before the next one (the bit rate of the link).
NextInOrder ==
  \/ dac = NoSymbol /\ dac' = <<1, 0>>
  \/ dac # NoSymbol /\ dac' = Successor(dac)
  \/ dac[2] = Symbols - 2 /\ dac' = <<dac[1] + 1, Symbols - 1>>
  \/ dac[2] = Symbols - 1 /\ dac' = <<dac[1], 0>>
SymbolsInOrder ==
  [][dac' # dac => NextInOrder /\ (steady => dac = NoSymbol \/ held = Repeats)]_vars

\* While the DMA stream has words waiting, the carrier never pauses: the
\* Repeater's tvalid falls only after the last word.
Gapless == [][saturated /\ Rep!OutValid /\ ~Rep!OutValid' => taken = MaxWords]_vars

\* The chain runs dry: every word accepted leaves, and both stages come to
\* rest ready for the next one.
Drained == convState = "IDLE" /\ repState = "IDLE" /\ convCnt = 0 /\ repCnt = 0
EventuallyDrained == [](taken = MaxWords => <>Drained)

\* QPSK_data_converter.v:15, "receive one number, output 16 numbers": the
\* symbol that follows symbol Symbols - 2 of a word is the last of that word.
LastSymbolSent ==
  [][dac[2] = Symbols - 2 /\ dac' # dac => dac' = Successor(dac)]_vars
=============================================================================
