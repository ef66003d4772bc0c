---------------------------- MODULE QpskTxProof ----------------------------
(***************************************************************************)
(* Proofs about QpskTx, for every number of symbols in a word, of samples  *)
(* for a symbol and of words: symbols reach the filter in order, each held *)
(* long enough, without a pause between words.                             *)
(***************************************************************************)
EXTENDS QpskTx, TLAPS

\* Symbol n may follow symbol d (NextInOrder, on any two places of the chain).
Follows(d, n) ==
  \/ d = NoSymbol /\ n = <<1, 0>>
  \/ d # NoSymbol /\ n = Successor(d)
  \/ d[2] = Symbols - 2 /\ n = <<d[1] + 1, Symbols - 1>>
  \/ d[2] = Symbols - 1 /\ n = <<d[1], 0>>

\* The last symbol of word w has been sampled by the Repeater, or there was no word.
Over(w) == repReg = IF w = 0 THEN NoSymbol ELSE <<w, Symbols - 1>>

\* What the Repeater holds, for each state of the converter: the symbol before the one
\* offered.  In SEND the counter is zero for the first symbol of a word, also after a
\* word whose last symbol was replaced, and Symbols - 1 while it is replaced.
ConvInStep ==
  /\ convReg = taken
  /\ convState = "IDLE" => convCnt = 0 /\ Over(taken)
  /\ convState = "HEADER" => convCnt = 0 /\ taken > 0 /\ Over(taken - 1)
  /\ convState = "SEND" =>
       /\ taken > 0
       /\ convCnt = 0 => Over(taken - 1) \/ Over(taken)
       /\ convCnt \in 1..Symbols-2 => repReg = <<taken, convCnt - 1>>
       /\ convCnt = Symbols - 1 => taken > 1 /\ repReg = <<taken - 1, Symbols - 2>>
  /\ convState = "SEND_LAST" =>
       taken > 0 /\ convCnt = Symbols - 1 /\ repReg = <<taken, Symbols - 2>>

\* The filter has the Repeater's symbol or the one before.
RepInStep ==
  /\ repState \in {"IDLE", "HEADER"} => repCnt = 0
  /\ repState = "SEND_LAST" => repCnt = Repeats - 1
  /\ repState \in {"IDLE", "SEND_LAST"} => dac = repReg
  /\ repState \in {"HEADER", "SEND"} => dac = repReg \/ Follows(dac, repReg)

\* With a filter that is always ready the count is that of the samples sent.
OnTime ==
  /\ repState = "IDLE" => dac = NoSymbol \/ held = Repeats
  /\ repState = "HEADER" => Follows(dac, repReg) /\ (dac = NoSymbol \/ held = Repeats)
  /\ repState = "SEND" =>
       /\ repCnt < Repeats - 1
       /\ repCnt = 0 => Follows(dac, repReg) /\ (dac = NoSymbol \/ held = Repeats)
       /\ repCnt > 0 => dac = repReg /\ held = repCnt
  /\ repState = "SEND_LAST" => held = Repeats - 1

\* While words wait the converter is only idle before the first.
Fed ==
  /\ offer <=> taken < MaxWords
  /\ convState = "IDLE" => taken = MaxWords \/ repState = "IDLE"
  /\ convState = "HEADER" => repState = "IDLE"

Inv == /\ TypeOK /\ taken <= MaxWords /\ (offer => taken < MaxWords)
       /\ ConvInStep /\ RepInStep
       /\ steady => OnTime
       /\ saturated => Fed

-----------------------------------------------------------------------------
\* The edge of the converter: sample and xfer are its two handshakes.
ConvEdge(sample, xfer) ==
  /\ \/ convState = "IDLE" /\ convState' = IF sample THEN "HEADER" ELSE "IDLE"
     \/ convState = "HEADER" /\ convState' = "SEND"
     \/ /\ convState = "SEND"
        /\ convState' = IF convCnt = Symbols - 2 /\ xfer THEN "SEND_LAST" ELSE "SEND"
     \/ /\ convState = "SEND_LAST"
        /\ \/ sample /\ convState' = "SEND"
           \/ ~sample /\ xfer /\ convState' = "IDLE"
           \/ ~sample /\ ~xfer /\ convState' = "SEND_LAST"
  /\ convCnt' = IF xfer THEN (IF convCnt = Symbols - 1 THEN 0 ELSE convCnt + 1) ELSE convCnt
  /\ convReg' = IF sample THEN taken + 1 ELSE convReg
  /\ taken' = IF sample THEN taken + 1 ELSE taken
  /\ sample => offer /\ convState \in {"IDLE", "SEND_LAST"}
  /\ offer /\ convState \in {"IDLE", "SEND_LAST"} => sample
  /\ xfer <=> convState \in {"SEND", "SEND_LAST"} /\ repState \in {"IDLE", "SEND_LAST"}

\* The edge of the Repeater: what it samples is what the converter transfers.
RepEdge(xfer, ready) ==
  /\ \/ repState = "IDLE" /\ repState' = IF xfer THEN "HEADER" ELSE "IDLE"
     \/ repState = "HEADER" /\ repState' = "SEND"
     \/ /\ repState = "SEND"
        /\ repState' = IF repCnt = Repeats - 2 /\ ready THEN "SEND_LAST" ELSE "SEND"
     \/ /\ repState = "SEND_LAST"
        /\ \/ xfer /\ repState' = "SEND"
           \/ ~xfer /\ ready /\ repState' = "IDLE"
           \/ ~xfer /\ ~ready /\ repState' = "SEND_LAST"
  /\ repCnt' = IF ready /\ repState \in {"SEND", "SEND_LAST"}
                 THEN (IF repCnt = Repeats - 1 THEN 0 ELSE repCnt + 1) ELSE repCnt
  /\ repReg' = IF xfer THEN <<convReg, convCnt>> ELSE repReg
  /\ IF ready /\ repState \in {"SEND", "SEND_LAST"}
       THEN dac' = repReg /\ held' = IF repReg = dac THEN held + 1 ELSE 1
       ELSE dac' = dac /\ held' = held

\* An edge of the clock is one of each, on common handshakes.
LEMMA Edges ==
  ASSUME NEW ready \in BOOLEAN, Edge(ready)
  PROVE  \E sample, xfer \in BOOLEAN : ConvEdge(sample, xfer) /\ RepEdge(xfer, ready)
<1> DEFINE sample == Conv!Sample(offer)
           xfer == Conv!Xfer(Rep!InReady)
<1>1. xfer <=> Rep!Sample(Conv!OutValid)
  BY DEF Conv!Xfer, Rep!Sample
<1>2. ConvEdge(sample, xfer)
  BY DEF Edge, ConverterClock, History, ConvEdge, Conv!Clock, Conv!NextState,
     Conv!FromSendLast, Conv!AtLastButOne, Conv!NextCnt, Conv!Latch, Conv!Sample,
     Conv!Xfer, Conv!InReady, Conv!OutValid, Rep!InReady
<1>3. RepEdge(xfer, ready)
  BY <1>1 DEF Edge, RepeaterClock, History, RepEdge, ConvData, Rep!Clock, Rep!NextState,
     Rep!FromSendLast, Rep!AtLastButOne, Rep!NextCnt, Rep!Latch, Rep!Xfer, Rep!OutValid
<1>4. sample \in BOOLEAN /\ xfer \in BOOLEAN
  BY DEF Conv!Sample, Conv!Xfer
<1> QED
  BY <1>2, <1>3, <1>4

-----------------------------------------------------------------------------
\* The constants, and the counters of the converter, as numbers.
LEMMA Ranges ==
  ASSUME TypeOK
  PROVE  /\ Symbols \in Nat /\ Symbols >= 2 /\ Repeats \in Nat /\ Repeats >= 2
         /\ MaxWords \in Nat /\ taken \in Nat /\ convCnt \in Nat /\ convCnt < Symbols
         /\ convReg \in Nat /\ held \in Nat
         /\ convState \in {"IDLE", "HEADER", "SEND", "SEND_LAST"}
         /\ repState \in {"IDLE", "HEADER", "SEND", "SEND_LAST"}
         /\ repCnt \in Nat /\ repCnt < Repeats
BY ChainAssumption DEF TypeOK, Conv!States, Rep!States

\* The types after an edge.
LEMMA TypeStep ==
  ASSUME TypeOK, NEW ready \in BOOLEAN, Edge(ready)
  PROVE  TypeOK'
<1>1. PICK sample \in BOOLEAN, xfer \in BOOLEAN : ConvEdge(sample, xfer) /\ RepEdge(xfer, ready)
  BY Edges
<1>2. convState' \in Conv!States /\ repState' \in Rep!States
  BY <1>1, Ranges DEF ConvEdge, RepEdge, Conv!States, Rep!States
<1>3. convCnt' \in 0..Symbols-1 /\ convReg' \in Nat /\ taken' \in Nat
  BY <1>1, Ranges DEF ConvEdge
<1>4. repCnt' \in 0..Repeats-1
  BY <1>1, Ranges DEF RepEdge
<1>5. repReg' \in Nat \X (0..Symbols-1)
  <2>1. <<convReg, convCnt>> \in Nat \X (0..Symbols-1)
    BY DEF TypeOK
  <2> QED
    BY <1>1, <2>1 DEF RepEdge, TypeOK
<1>6. dac' \in Nat \X (0..Symbols-1) /\ held' \in Nat
  BY <1>1 DEF RepEdge, TypeOK
<1>7. steady' \in BOOLEAN /\ saturated' \in BOOLEAN /\ offer' \in BOOLEAN
  BY Zenon DEF Edge, Source, TypeOK
<1> QED
  BY <1>2, <1>3, <1>4, <1>5, <1>6, <1>7 DEF TypeOK

\* What the converter offers follows what the Repeater has.
LEMMA Offered ==
  ASSUME TypeOK, ConvInStep, convState \in {"SEND", "SEND_LAST"}
  PROVE  Follows(repReg, <<convReg, convCnt>>)
<1> USE Ranges
<1>1. convReg = taken /\ taken > 0
  BY DEF ConvInStep
<1>2. CASE convCnt = 0
  <2>1. Over(taken - 1) \/ Over(taken)
    BY <1>2 DEF ConvInStep
  <2>2. CASE Over(taken)
    BY <1>1, <1>2, <2>2 DEF Over, Follows
  <2>3. CASE Over(taken - 1) /\ taken = 1
    BY <1>1, <1>2, <2>3 DEF Over, Follows
  <2>4. CASE Over(taken - 1) /\ taken > 1
    BY <1>1, <1>2, <2>4 DEF Over, Follows, Successor, NoSymbol
  <2> QED
    BY <1>1, <2>1, <2>2, <2>3, <2>4
<1>3. CASE convCnt # 0 /\ repReg = <<taken, convCnt - 1>>
  BY <1>1, <1>3 DEF Follows, Successor, NoSymbol
<1>4. CASE convCnt = Symbols - 1 /\ repReg = <<taken - 1, Symbols - 2>>
  BY <1>1, <1>4 DEF Follows
<1> QED
  BY <1>1, <1>2, <1>3, <1>4 DEF ConvInStep

\* A symbol differs from the one that follows it.
LEMMA FollowsAnother ==
  ASSUME NEW d \in Nat \X (0..Symbols-1), NEW n, Follows(d, n) PROVE n # d
BY ChainAssumption DEF Follows, Successor, NoSymbol

\* What the Repeater holds stays in step with the converter at every edge.
LEMMA ConvStep ==
  ASSUME TypeOK, ConvInStep, NEW sample \in BOOLEAN, NEW xfer \in BOOLEAN, NEW ready \in BOOLEAN,
         ConvEdge(sample, xfer), RepEdge(xfer, ready)
  PROVE  ConvInStep'
<1> USE Ranges DEF Over, NoSymbol
<1>1. convReg' = taken' /\ convReg = taken
  BY DEF ConvInStep, ConvEdge
<1>2. repReg' = IF xfer THEN <<taken, convCnt>> ELSE repReg
  BY <1>1 DEF RepEdge
<1>3. CASE convState = "IDLE"
  BY <1>1, <1>2, <1>3 DEF ConvInStep, ConvEdge
<1>4. CASE convState = "HEADER"
  BY <1>1, <1>2, <1>4 DEF ConvInStep, ConvEdge
<1>5. CASE convState = "SEND" /\ ~xfer
  BY <1>1, <1>2, <1>5 DEF ConvInStep, ConvEdge
<1>6. CASE convState = "SEND" /\ xfer
  <2>1. repReg' = <<taken, convCnt>> /\ taken' = taken /\ taken > 0
    BY <1>2, <1>6 DEF ConvInStep, ConvEdge
  <2>2. CASE convCnt = Symbols - 1
    BY <1>1, <1>6, <2>1, <2>2 DEF ConvInStep, ConvEdge
  <2>3. CASE convCnt = Symbols - 2
    BY <1>1, <1>6, <2>1, <2>3 DEF ConvInStep, ConvEdge
  <2>4. CASE convCnt < Symbols - 2
    BY <1>1, <1>6, <2>1, <2>4 DEF ConvInStep, ConvEdge
  <2> QED
    BY <2>2, <2>3, <2>4
<1>7. CASE convState = "SEND_LAST"
  <2>1. convCnt = Symbols - 1 /\ taken > 0 /\ repReg = <<taken, Symbols - 2>>
    BY <1>7 DEF ConvInStep
  <2>2. CASE sample /\ xfer
    BY <1>1, <1>2, <1>7, <2>1, <2>2 DEF ConvInStep, ConvEdge
  <2>3. CASE sample /\ ~xfer
    BY <1>1, <1>2, <1>7, <2>1, <2>3 DEF ConvInStep, ConvEdge
  <2>4. CASE ~sample /\ xfer
    BY <1>1, <1>2, <1>7, <2>1, <2>4 DEF ConvInStep, ConvEdge
  <2>5. CASE ~sample /\ ~xfer
    BY <1>1, <1>2, <1>7, <2>1, <2>5 DEF ConvInStep, ConvEdge
  <2> QED
    BY <2>2, <2>3, <2>4, <2>5
<1> QED
  BY <1>3, <1>4, <1>5, <1>6, <1>7

\* What the filter has stays in step with the Repeater at every edge.
LEMMA RepStep ==
  ASSUME TypeOK, ConvInStep, RepInStep, NEW sample \in BOOLEAN, NEW xfer \in BOOLEAN,
         NEW ready \in BOOLEAN, ConvEdge(sample, xfer), RepEdge(xfer, ready)
  PROVE  RepInStep'
<1> USE Ranges DEF RepEdge
<1>1. xfer => /\ repState \in {"IDLE", "SEND_LAST"} /\ dac = repReg
              /\ Follows(repReg, repReg')
  BY Offered DEF ConvEdge, RepInStep
<1>2. ~xfer => repReg' = repReg
  OBVIOUS
<1>3. repState = "SEND_LAST" => dac' = dac
  BY DEF RepInStep
<1>4. ASSUME NEW d, NEW n PROVE Follows(d, n)' <=> Follows(d, n)
  BY DEF Follows, Successor, NoSymbol
<1>5. CASE repState = "IDLE"
  BY <1>1, <1>2, <1>5 DEF RepInStep, Follows, Successor, NoSymbol
<1>6. CASE repState = "HEADER"
  BY <1>1, <1>2, <1>6 DEF RepInStep, Follows, Successor, NoSymbol
<1>7. CASE repState = "SEND"
  BY <1>1, <1>2, <1>7 DEF RepInStep, Follows, Successor, NoSymbol
<1>8. CASE repState = "SEND_LAST"
  BY <1>1, <1>2, <1>3, <1>8 DEF RepInStep, Follows, Successor, NoSymbol
<1> QED
  BY <1>5, <1>6, <1>7, <1>8

\* With a filter that is ready at the edge each symbol has its samples.
LEMMA OnTimeStep ==
  ASSUME TypeOK, ConvInStep, RepInStep, OnTime, NEW sample \in BOOLEAN, NEW xfer \in BOOLEAN,
         ConvEdge(sample, xfer), RepEdge(xfer, TRUE)
  PROVE  OnTime'
<1> USE Ranges DEF RepEdge
<1>1. xfer => /\ repState \in {"IDLE", "SEND_LAST"} /\ dac = repReg
              /\ Follows(repReg, repReg')
  BY Offered DEF ConvEdge, RepInStep
<1>2. ~xfer => repReg' = repReg
  OBVIOUS
<1>3. Follows(dac, repReg) => repReg # dac
  BY FollowsAnother DEF TypeOK
<1>4. ASSUME NEW d, NEW n PROVE Follows(d, n)' <=> Follows(d, n)
  BY DEF Follows, Successor, NoSymbol
<1>5. CASE repState = "IDLE"
  BY <1>1, <1>2, <1>5 DEF RepInStep, OnTime, Follows, Successor, NoSymbol
<1>6. CASE repState = "HEADER"
  BY <1>2, <1>1, <1>6 DEF RepInStep, OnTime, Follows, Successor, NoSymbol
<1>7. CASE repState = "SEND"
  <2>1. ~xfer /\ repReg' = repReg /\ dac' = repReg /\ repCnt < Repeats - 1
    BY <1>1, <1>2, <1>7 DEF OnTime
  <2>2. held' = repCnt + 1 /\ repCnt' = repCnt + 1
    <3>1. CASE repCnt = 0
      BY <1>3, <1>7, <3>1 DEF OnTime
    <3>2. CASE repCnt > 0
      BY <1>7, <3>2, <2>1 DEF OnTime
    <3> QED
      BY <3>1, <3>2
  <2> QED
    BY <1>7, <2>1, <2>2 DEF OnTime
<1>8. CASE repState = "SEND_LAST"
  <2>1. held' = Repeats /\ repCnt' = 0 /\ dac' = repReg
    BY <1>8 DEF OnTime, RepInStep
  <2> QED
    BY <1>1, <1>2, <1>8, <2>1 DEF RepInStep, OnTime, Follows, Successor, NoSymbol
<1> QED
  BY <1>5, <1>6, <1>7, <1>8

\* While words wait the converter takes one at each of its last symbols.
LEMMA FedStep ==
  ASSUME TypeOK, taken <= MaxWords, ConvInStep, RepInStep, Fed, NEW sample \in BOOLEAN,
         NEW xfer \in BOOLEAN, NEW ready \in BOOLEAN, ConvEdge(sample, xfer),
         RepEdge(xfer, ready), offer' = (taken' < MaxWords)
  PROVE  Fed'
<1> USE Ranges DEF ConvEdge, RepEdge, Fed
<1>1. CASE convState = "IDLE"
  BY <1>1
<1>2. CASE convState = "HEADER"
  BY <1>2
<1>3. CASE convState = "SEND"
  BY <1>3
<1>4. CASE convState = "SEND_LAST" /\ sample
  BY <1>4
<1>5. CASE convState = "SEND_LAST" /\ ~sample
  <2>1. ~(taken < MaxWords) /\ taken' = taken
    BY <1>5
  <2>2. convState' \in {"IDLE", "SEND_LAST"}
    BY <1>5
  <2> QED
    BY <2>1, <2>2
<1> QED
  BY <1>1, <1>2, <1>3, <1>4, <1>5

\* Every part of the invariant after an edge of the clock.
LEMMA InvStep ==
  ASSUME Inv, NEW ready \in BOOLEAN, steady => ready, Edge(ready)
  PROVE  Inv'
<1> USE DEF Inv
<1>1. PICK sample \in BOOLEAN, xfer \in BOOLEAN : ConvEdge(sample, xfer) /\ RepEdge(xfer, ready)
  BY Edges
<1>2. TypeOK'
  BY TypeStep
<1>3. ConvInStep' /\ RepInStep'
  BY <1>1, ConvStep, RepStep
<1>4. taken' <= MaxWords
  BY <1>1, Ranges DEF ConvEdge
<1>5. /\ offer' => taken' < MaxWords
      /\ saturated => offer' = (taken' < MaxWords)
      /\ steady' = steady /\ saturated' = saturated
  BY DEF Edge, Source
<1>6. steady' => OnTime'
  <2> SUFFICES ASSUME steady PROVE OnTime'
    BY <1>5
  <2>1. RepEdge(xfer, TRUE)
    BY <1>1 DEF RepEdge
  <2> QED
    BY <1>1, <2>1, OnTimeStep
<1>7. saturated' => Fed'
  BY <1>1, <1>5, FedStep
<1> QED
  BY <1>2, <1>3, <1>4, <1>5, <1>6, <1>7

\* The chain after reset.
LEMMA InvInit == Init => Inv
<1> SUFFICES ASSUME Init PROVE Inv
  OBVIOUS
<1> USE ChainAssumption DEF Init, Conv!InitStage, Rep!InitStage, NoSymbol
<1>1. TypeOK
  BY DEF TypeOK, Conv!States, Rep!States
<1>2. ConvInStep /\ RepInStep
  BY DEF ConvInStep, RepInStep, Over
<1>3. OnTime /\ (saturated => Fed)
  BY DEF OnTime, Fed
<1> QED
  BY <1>1, <1>2, <1>3 DEF Inv

\* Every part of the invariant holds for ever.
LEMMA Invariance == Spec => []Inv
<1>1. Inv /\ [Tick]_vars => Inv'
  <2> SUFFICES ASSUME Inv, [Tick]_vars PROVE Inv'
    OBVIOUS
  <2>1. CASE Tick
    BY <2>1, InvStep DEF Tick
  <2>2. CASE UNCHANGED vars
    BY <2>2 DEF vars, Inv, TypeOK, ConvInStep, RepInStep, OnTime, Fed, Over, Follows,
       Successor, NoSymbol, Conv!States, Rep!States
  <2> QED
    BY <2>1, <2>2
<1> QED
  BY <1>1, InvInit, PTL DEF Spec

-----------------------------------------------------------------------------
\* Both stages stay in their four states with their counters in range, so that sender_cnt
\* never leaves its width, and every symbol is one of a word (QPSK_data_converter.v:24-117,
\* Repeater.v:22-114).
THEOREM TypeCorrect == Spec => []TypeOK
<1>1. Inv => TypeOK
  BY DEF Inv
<1> QED
  BY <1>1, Invariance, PTL

\* Symbols reach the filter in order, and at a filter that is always ready each is held for
\* exactly Repeats samples, wherever the two stages stand when a word or a symbol is handed
\* over in SEND_LAST (QPSK_data_converter.v:102-114, Repeater.v:99-111).
THEOREM InOrder == Spec => SymbolsInOrder
<1>1. Inv /\ [Tick]_vars
      => [dac' # dac => NextInOrder /\ (steady => dac = NoSymbol \/ held = Repeats)]_vars
  <2> SUFFICES ASSUME Inv, Tick, dac' # dac
               PROVE  NextInOrder /\ (steady => dac = NoSymbol \/ held = Repeats)
    OBVIOUS
  <2>1. PICK ready \in BOOLEAN : (steady => ready) /\ Edge(ready)
    BY DEF Tick
  <2>2. PICK sample \in BOOLEAN, xfer \in BOOLEAN :
          ConvEdge(sample, xfer) /\ RepEdge(xfer, ready)
    BY <2>1, Edges
  <2>3. ready /\ dac' = repReg /\ repState \in {"SEND", "SEND_LAST"} /\ repReg # dac
    BY <2>2 DEF RepEdge
  <2>4. repState = "SEND" /\ Follows(dac, repReg)
    BY <2>3 DEF Inv, RepInStep
  <2>5. NextInOrder
    BY <2>3, <2>4 DEF NextInOrder, Follows
  <2>6. steady => dac = NoSymbol \/ held = Repeats
    BY <2>3, <2>4, Ranges DEF Inv, OnTime
  <2> QED
    BY <2>5, <2>6
<1> QED
  BY <1>1, Invariance, PTL DEF Spec, SymbolsInOrder

\* While words wait the Repeater's tvalid falls only after the last of them: the sample the
\* two stages spend in HEADER is spent before the first word only (the branch of SEND_LAST
\* that samples a word, QPSK_data_converter.v:103-105 and Repeater.v:100-102).
THEOREM NoPause == Spec => Gapless
<1>1. Inv /\ [Tick]_vars
      => [saturated /\ Rep!OutValid /\ ~Rep!OutValid' => taken = MaxWords]_vars
  <2> SUFFICES ASSUME Inv, Tick, saturated, Rep!OutValid, ~Rep!OutValid'
               PROVE  taken = MaxWords
    OBVIOUS
  <2>1. PICK ready \in BOOLEAN : (steady => ready) /\ Edge(ready)
    BY DEF Tick
  <2>2. PICK sample \in BOOLEAN, xfer \in BOOLEAN :
          ConvEdge(sample, xfer) /\ RepEdge(xfer, ready)
    BY <2>1, Edges
  <2>3. repState = "SEND_LAST" /\ ~xfer
    BY <2>2 DEF RepEdge, Rep!OutValid
  <2>4. convState \in {"IDLE", "HEADER"}
    BY <2>2, <2>3, Ranges DEF ConvEdge, Inv
  <2> QED
    BY <2>3, <2>4 DEF Inv, Fed
<1> QED
  BY <1>1, Invariance, PTL DEF Spec, Gapless
=============================================================================
