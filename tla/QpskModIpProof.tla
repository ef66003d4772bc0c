--------------------------- MODULE QpskModIpProof ---------------------------
(***************************************************************************)
(* Proofs about the packaged modulator, for any number of symbols in a     *)
(* word, of samples for a symbol and of words: the late output register    *)
(* never shows the Repeater a wrong symbol while words are waiting, and    *)
(* the first word goes on the air as its points, in order.  These are      *)
(* those of either mapping: the bits on the air are recovered by the       *)
(* receiver, whichever converter mapped them.                              *)
(***************************************************************************)
EXTENDS QpskModIp, SequenceTheorems, TLAPS

-----------------------------------------------------------------------------
(* The mapping, in QpskMapping: what is on the air after cnt points.       *)

WordTypeOK == word \in Words /\ cnt \in 0..Symbols

OnAir == air = [k \in 1..cnt |-> Point(word, k - 1)]

\* Deciding a level gives the bit that was mapped to it.
LEMMA DecideLevel == \A b \in Bit : Decide(Level(b)) = b
BY MappingAssumption DEF Decide, Level, Bit

\* After cnt points the air carries the first cnt pairs of the word, in the
\* order of minus_cnt.
LEMMA OnAirInvariant == PointsSpec => [](WordTypeOK /\ OnAir)
<1>1. InitPoints => WordTypeOK /\ OnAir
  BY MappingAssumption DEF InitPoints, WordTypeOK, OnAir
<1>2. WordTypeOK /\ OnAir /\ [SendPoint \/ Sent]_pointVars => (WordTypeOK /\ OnAir)'
  <2> SUFFICES ASSUME WordTypeOK, OnAir, [SendPoint \/ Sent]_pointVars
               PROVE  WordTypeOK' /\ OnAir'
    OBVIOUS
  <2>0. Symbols \in Nat /\ cnt \in 0..Symbols
    BY MappingAssumption DEF WordTypeOK
  <2>1. CASE SendPoint
    <3>1. WordTypeOK'
      BY <2>0, <2>1 DEF SendPoint, WordTypeOK
    <3>2. cnt' = cnt + 1 /\ word' = word /\ air' = Append(air, Point(word, cnt))
      BY <2>1 DEF SendPoint
    <3> DEFINE Points == {Point(word, k) : k \in 0..cnt}
    <3>a. Point(word, cnt) \in Points
      BY <2>0
    <3>b. air \in [1..cnt -> Points]
      BY <2>0 DEF OnAir
    <3> HIDE DEF Points
    <3>3. air \in Seq(Points) /\ Len(air) = cnt
      BY <2>0, <3>b
    <3>4. /\ air' \in Seq(Points) /\ Len(air') = cnt + 1
          /\ \A k \in 1..cnt : air'[k] = air[k]
          /\ air'[cnt + 1] = Point(word, cnt)
      BY <2>0, <3>2, <3>3, <3>a, AppendProperties
    <3>5. air' = [k \in 1..cnt + 1 |-> air'[k]]
      BY <3>4
    <3>6. \A k \in 1..cnt + 1 : air'[k] = Point(word, k - 1)
      BY <2>0, <3>4 DEF OnAir
    <3>7. air' = [k \in 1..cnt + 1 |-> Point(word, k - 1)]
      BY <3>5, <3>6
    <3>8. OnAir'
      BY <3>2, <3>7 DEF OnAir, Point, IpPoint, RtlPoint, cnt_m2, cnt_m2p1, minus_cnt
    <3> QED
      BY <3>1, <3>8
  <2>2. CASE UNCHANGED pointVars
    BY <2>2 DEF pointVars, WordTypeOK, OnAir, Point, IpPoint, RtlPoint, cnt_m2, cnt_m2p1, minus_cnt
  <2> QED
    BY <2>1, <2>2 DEF Sent
<1> QED
  BY <1>1, <1>2, PTL DEF PointsSpec

\* The bit pairs of QPSK_data_converter.v:54-60 and the amplitudes of lines
\* 160-175, and those of the packaged version, determine the word, most significant pair first.
THEOREM Recovered == PointsSpec => []WordRecovered
<1>1. WordTypeOK /\ OnAir => WordRecovered
  <2> SUFFICES ASSUME WordTypeOK, OnAir, cnt = Symbols PROVE Received = word
    BY DEF WordRecovered
  <2>0. Symbols \in Nat \ {0} /\ word \in [0..2*Symbols-1 -> Bit]
    BY MappingAssumption DEF WordTypeOK, Words
  <2>1. ASSUME NEW i \in 0..2*Symbols-1 PROVE Received[i] = word[i]
    <3> DEFINE k == Symbols - i \div 2
    <3>1. k \in 1..Symbols /\ Symbols - 1 - (k - 1) = i \div 2
      BY <2>0
    <3>2. air[k] = Point(word, k - 1)
      BY <3>1 DEF OnAir
    <3>3. CASE i % 2 = 0
      <4>1. 2 * (i \div 2) = i
        BY <2>0, <3>3
      <4>2. air[k][LowHalf] = Level(word[i])
        BY <3>1, <3>2, <4>1 DEF Point, RtlPoint, IpPoint, LowHalf, cnt_m2, minus_cnt
      <4>3. Received[i] = Decide(Level(word[i]))
        BY <3>3, <4>2 DEF Received
      <4> QED
        BY <2>0, <4>3, DecideLevel
    <3>4. CASE i % 2 # 0
      <4>1. 2 * (i \div 2) + 1 = i
        BY <2>0, <3>4
      <4>2. air[k][HighHalf] = Level(word[i])
        BY <3>1, <3>2, <4>1 DEF Point, RtlPoint, IpPoint, HighHalf, cnt_m2p1, minus_cnt
      <4>3. Received[i] = Decide(Level(word[i]))
        BY <3>4, <4>2 DEF Received
      <4> QED
        BY <2>0, <4>3, DecideLevel
    <3> QED
      BY <3>3, <3>4
  <2> QED
    BY <2>0, <2>1 DEF Received
<1> QED
  BY OnAirInvariant, <1>1, PTL

-----------------------------------------------------------------------------
(* The modulator.                                                          *)

\* The Repeater has just taken a symbol: it takes no other at this edge or the next.
JustTaken == repState = "HEADER" \/ (repState = "SEND" /\ repCnt \in {0, Sps - 1})

\* The Repeater's count, in each state.
RepInStep ==
  /\ repState \in {"IDLE", "HEADER"} => repCnt = 0
  /\ repState = "SEND_LAST" => repCnt = Sps - 1

\* By the time the Repeater takes another symbol, out_tdata has caught up with sender_cnt.
CaughtUp ==
  /\ out_tvalid /\ Rep!InReady => out_tdata[2] = sender_cnt
  /\ cstate # "IDLE" => in_tdata_reg >= 1
  /\ out_tvalid => out_tdata[1] >= 1

\* sender_cnt is one beyond the last symbol sent.
Counting ==
  /\ sent[2] = NoSymbol => sent[1] = NoSymbol /\ sender_cnt = 0
  /\ sent[2] # NoSymbol => sender_cnt = (sent[2][2] + 1) % Symbols

\* While words wait the converter is idle before the first one only, stays in SEND_LAST
\* for one clock, in which the Repeater takes nothing, and the symbol due is that of the
\* word last taken which sender_cnt selects.
Fed ==
  /\ offer /\ in_tdata_reg = taken
  /\ cstate \in {"IDLE", "HEADER"} =>
       sent[2] = NoSymbol /\ repState = "IDLE" /\ taken = IF cstate = "IDLE" THEN 0 ELSE 1
  /\ cstate = "SEND_LAST" =>
       taken >= 1 /\ JustTaken /\ sent[2] = <<taken, Symbols - 1>>
  /\ cstate = "SEND" =>
       /\ taken >= 1 /\ Successor(sent[2]) = <<taken, sender_cnt>>
       /\ Rep!InReady => out_tdata = <<taken, sender_cnt>>
  /\ sent[2] # NoSymbol => sent[2] = Successor(sent[1])

\* Until its points are sent, the converter is at the first word, and sender_cnt is their number.
FirstWordInStep ==
  cnt < Symbols =>
    /\ sender_cnt = cnt
    /\ \/ cstate = "IDLE" /\ taken = 0
       \/ cstate = "HEADER" /\ taken = 1 /\ in_tdata_reg = 1
       \/ cstate = "SEND" /\ taken = 1 /\ in_tdata_reg = 1 /\ out_tdata[1] = 1

Symbol == Nat \X (0..Symbols-1)

RegistersOK ==
  /\ cstate \in Rep!States /\ sender_cnt \in 0..Symbols-1
  /\ in_tdata_reg \in Nat /\ out_tdata \in Symbol
  /\ repState \in Rep!States /\ repCnt \in 0..Sps-1 /\ repReg \in Symbol
  /\ saturated \in BOOLEAN /\ offer \in BOOLEAN /\ taken \in Nat
  /\ sent \in Symbol \X Symbol
  /\ word \in Data /\ cnt \in 0..Symbols

Inv == /\ RegistersOK /\ RepInStep /\ CaughtUp /\ Counting /\ FirstWordInStep

-----------------------------------------------------------------------------
\* An edge of the converter: sample and xfer are its two handshakes.
ConvEdge(sampled, xferred) ==
  /\ \/ cstate = "IDLE" /\ cstate' = IF sampled THEN "HEADER" ELSE "IDLE"
     \/ cstate = "HEADER" /\ cstate' = "SEND"
     \/ /\ cstate = "SEND"
        /\ cstate' = IF sender_cnt = Symbols - 1 /\ xferred THEN "SEND_LAST" ELSE "SEND"
     \/ /\ cstate = "SEND_LAST"
        /\ \/ sampled /\ cstate' = "SEND"
           \/ ~sampled /\ xferred /\ cstate' = "IDLE"
           \/ ~sampled /\ ~xferred /\ cstate' = "SEND_LAST"
  /\ out_tdata' = IF cstate' \in {"SEND", "SEND_LAST"} THEN <<in_tdata_reg, sender_cnt>> ELSE out_tdata
  /\ sender_cnt' = IF xferred THEN (sender_cnt + 1) % Symbols ELSE sender_cnt
  /\ in_tdata_reg' = IF sampled THEN taken + 1 ELSE in_tdata_reg
  /\ taken' = IF sampled THEN taken + 1 ELSE taken
  /\ sent' = IF xferred THEN <<sent[2], out_tdata>> ELSE sent
  /\ IF xferred /\ out_tdata[1] = 1 /\ cnt < Symbols
       THEN cnt' = cnt + 1 /\ word' = word /\ air' = Append(air, Point(word, out_tdata[2]))
       ELSE cnt' = cnt /\ word' = word /\ air' = air
  /\ sampled <=> offer /\ cstate \in {"IDLE", "SEND_LAST"}
  /\ xferred <=> cstate \in {"SEND", "SEND_LAST"} /\ repState \in {"IDLE", "SEND_LAST"}

\* The edge of the Repeater: what it samples is what the converter transfers.
RepEdge(xferred, ready) ==
  /\ \/ repState = "IDLE" /\ repState' = IF xferred THEN "HEADER" ELSE "IDLE"
     \/ repState = "HEADER" /\ repState' = "SEND"
     \/ /\ repState = "SEND"
        /\ repState' = IF repCnt = Sps - 2 /\ ready THEN "SEND_LAST" ELSE "SEND"
     \/ /\ repState = "SEND_LAST"
        /\ \/ xferred /\ repState' = "SEND"
           \/ ~xferred /\ ready /\ repState' = "IDLE"
           \/ ~xferred /\ ~ready /\ repState' = "SEND_LAST"
  /\ repCnt' = IF ready /\ repState \in {"SEND", "SEND_LAST"}
                 THEN (IF repCnt = Sps - 1 THEN 0 ELSE repCnt + 1) ELSE repCnt
  /\ repReg' = IF xferred THEN out_tdata ELSE repReg

\* The source's tvalid.
SourceEdge == /\ offer' \in BOOLEAN /\ saturated' = saturated
              /\ saturated => offer' = (taken' < MaxWords)

\* A clock is one edge of each, on common handshakes.
LEMMA Edges ==
  ASSUME Tick
  PROVE  \E sampled, xferred, ready \in BOOLEAN :
           ConvEdge(sampled, xferred) /\ RepEdge(xferred, ready) /\ SourceEdge
<1>1. PICK ready \in BOOLEAN : ConverterClock /\ RepeaterClock(ready) /\ History /\ Source
  BY DEF Tick
<1>2. (sample \in BOOLEAN) /\ (xfer \in BOOLEAN) /\ (xfer <=> Rep!Sample(out_tvalid))
  BY DEF sample, xfer, Rep!Sample
<1>3. ConvEdge(sample, xfer)
  BY <1>1 DEF ConverterClock, Nstate, AtLast, Output, NextCnt, History, FirstWord, pointVars, ConvEdge,
     sample, xfer, in_tready, out_tvalid, Rep!InReady
<1>4. RepEdge(xfer, ready)
  BY <1>1, <1>2 DEF RepeaterClock, RepEdge, Rep!Clock, Rep!NextState,
     Rep!FromSendLast, Rep!AtLastButOne, Rep!NextCnt, Rep!Latch, Rep!Xfer, Rep!OutValid
<1>5. SourceEdge
  BY <1>1 DEF Source, SourceEdge
<1> QED
  BY <1>2, <1>3, <1>4, <1>5

\* The constants and the counters, as numbers.
LEMMA Ranges ==
  ASSUME RegistersOK
  PROVE  /\ Symbols \in Nat /\ Symbols >= 2 /\ Sps \in Nat /\ Sps >= 2
         /\ MaxWords \in Nat /\ taken \in Nat /\ sender_cnt \in Nat /\ sender_cnt < Symbols
         /\ in_tdata_reg \in Nat /\ cnt \in Nat /\ cnt <= Symbols
         /\ cstate \in {"IDLE", "HEADER", "SEND", "SEND_LAST"}
         /\ repState \in {"IDLE", "HEADER", "SEND", "SEND_LAST"}
         /\ repCnt \in Nat /\ repCnt < Sps
BY IpAssumption, MappingAssumption DEF RegistersOK, Rep!States

\* Symbols are pairs.
LEMMA Pairs ==
  ASSUME RegistersOK
  PROVE  /\ \A s \in Symbol : s[1] \in Nat /\ s[2] \in Nat /\ s[2] < Symbols /\ s = <<s[1], s[2]>>
         /\ \A s, t \in Symbol : <<s, t>> \in Symbol \X Symbol /\ <<s, t>>[1] = s /\ <<s, t>>[2] = t
         /\ \A n \in Nat, k \in 0..Symbols-1 : <<n, k>> \in Symbol /\ <<n, k>>[1] = n /\ <<n, k>>[2] = k
         /\ sent[1] \in Symbol /\ sent[2] \in Symbol /\ out_tdata \in Symbol
         /\ NoSymbol \in Symbol
BY Ranges DEF RegistersOK, Symbol, NoSymbol

\* Counting modulo Symbols.
LEMMA Modulo ==
  ASSUME RegistersOK
  PROVE  \A k \in 0..Symbols-1 : /\ (k + 1) % Symbols \in 0..Symbols-1
                                 /\ (k + 1) % Symbols = IF k = Symbols - 1 THEN 0 ELSE k + 1
<1>1. Symbols \in Nat /\ Symbols >= 2
  BY Ranges
<1>2. Symbols % Symbols = 0
  BY <1>1
<1>3. ASSUME NEW k \in 0..Symbols-1, k # Symbols - 1 PROVE (k + 1) % Symbols = k + 1
  BY <1>1, <1>3
<1> QED
  BY <1>1, <1>2, <1>3

\* The types after an edge.
LEMMA RegistersStep ==
  ASSUME RegistersOK, Tick
  PROVE  RegistersOK'
<1>1. PICK sampled \in BOOLEAN, xferred \in BOOLEAN, ready \in BOOLEAN :
         ConvEdge(sampled, xferred) /\ RepEdge(xferred, ready) /\ SourceEdge
  BY Edges
<1>2. cstate' \in Rep!States /\ repState' \in Rep!States
  BY <1>1, Ranges DEF ConvEdge, RepEdge, Rep!States
<1>3. sender_cnt' \in 0..Symbols-1
  <2>1. sender_cnt \in 0..Symbols-1
    BY DEF RegistersOK
  <2> QED
    BY <1>1, <2>1, Modulo DEF ConvEdge
<1>4. in_tdata_reg' \in Nat /\ taken' \in Nat
  BY <1>1, Ranges DEF ConvEdge
<1>5. out_tdata' \in Symbol /\ repReg' \in Symbol
  BY <1>1, Ranges DEF ConvEdge, RepEdge, RegistersOK, Symbol
<1>6. repCnt' \in 0..Sps-1
  BY <1>1, Ranges DEF RepEdge
<1>7. sent' \in Symbol \X Symbol
  BY <1>1, Pairs DEF ConvEdge, RegistersOK
<1>8. saturated' \in BOOLEAN /\ offer' \in BOOLEAN
  BY <1>1 DEF SourceEdge, RegistersOK
<1>9. word' \in Data /\ cnt' \in 0..Symbols
  <2>1. word \in Data /\ cnt \in Nat /\ cnt <= Symbols /\ Symbols \in Nat
    BY Ranges DEF RegistersOK
  <2> QED
    BY <1>1, <2>1 DEF ConvEdge
<1> QED
  BY <1>2, <1>3, <1>4, <1>5, <1>6, <1>7, <1>8, <1>9 DEF RegistersOK

-----------------------------------------------------------------------------
\* The packaged converter's invariant, whatever the source does.
LEMMA InvStep ==
  ASSUME Inv, PositionsFollow, Tick
  PROVE  Inv' /\ PositionsFollow'
<1>1. PICK sampled \in BOOLEAN, xferred \in BOOLEAN, ready \in BOOLEAN :
         ConvEdge(sampled, xferred) /\ RepEdge(xferred, ready) /\ SourceEdge
  BY Edges
<1>2. RegistersOK /\ RegistersOK' /\ RepInStep /\ CaughtUp /\ Counting /\ FirstWordInStep
  BY RegistersStep DEF Inv
<1>3. RepInStep'
  BY <1>1, <1>2, Ranges DEF RepEdge, RepInStep
<1>4. xferred => /\ out_tdata[2] = sender_cnt /\ out_tdata[1] >= 1 /\ out_tdata # NoSymbol
                 /\ repState' \in {"HEADER", "SEND"}
                 /\ sent'[1] = sent[2] /\ sent'[2] = out_tdata
  <2>1. xferred => out_tvalid /\ Rep!InReady
    BY <1>1 DEF ConvEdge, out_tvalid, Rep!InReady
  <2>2. xferred => repState' \in {"HEADER", "SEND"} /\ sent' = <<sent[2], out_tdata>>
    BY <1>1 DEF ConvEdge, RepEdge
  <2>3. NoSymbol[1] = 0
    BY DEF NoSymbol
  <2> QED
    BY <1>2, <2>1, <2>2, <2>3 DEF CaughtUp
<1>5. CaughtUp'
  <2>1. in_tdata_reg' >= 1 \/ cstate' = "IDLE"
    BY <1>1, <1>2, Ranges DEF ConvEdge, CaughtUp
  <2>2. ASSUME out_tvalid' PROVE out_tdata' = <<in_tdata_reg, sender_cnt>> /\ in_tdata_reg >= 1
    BY <1>1, <1>2, <2>2 DEF ConvEdge, out_tvalid, CaughtUp
  <2>3. Rep!InReady' => ~xferred /\ sender_cnt' = sender_cnt
    BY <1>1, <1>4 DEF ConvEdge, Rep!InReady
  <2> QED
    BY <2>1, <2>2, <2>3 DEF CaughtUp
<1>6. Counting' /\ PositionsFollow'
  <2>1. CASE xferred
    <3>1. sender_cnt' = (out_tdata[2] + 1) % Symbols
      BY <1>1, <1>4, <2>1 DEF ConvEdge
    <3>2. sent[2] # NoSymbol => out_tdata[2] = (sent[2][2] + 1) % Symbols
      BY <1>2, <1>4, <2>1 DEF Counting
    <3> QED
      BY <1>4, <2>1, <3>1, <3>2 DEF Counting, PositionsFollow
  <2>2. CASE ~xferred
    BY <1>1, <1>2, <2>2 DEF ConvEdge, Counting, PositionsFollow
  <2> QED
    BY <2>1, <2>2
<1>7. FirstWordInStep'
  <2>1. SUFFICES ASSUME cnt' < Symbols PROVE FirstWordInStep'
    BY DEF FirstWordInStep
  <2>2. cnt < Symbols
    BY <1>1, <1>2, <2>1, Ranges DEF ConvEdge
  <2>3. CASE cstate = "IDLE" /\ taken = 0
    BY <1>1, <1>2, <2>2, <2>3 DEF ConvEdge, FirstWordInStep
  <2>4. CASE cstate = "HEADER" /\ taken = 1 /\ in_tdata_reg = 1
    BY <1>1, <1>2, <2>2, <2>4 DEF ConvEdge, FirstWordInStep
  <2>5. CASE cstate = "SEND" /\ taken = 1 /\ in_tdata_reg = 1 /\ out_tdata[1] = 1
    <3>1. /\ sender_cnt = cnt /\ ~sampled /\ taken' = 1 /\ in_tdata_reg' = 1
          /\ cnt' = IF xferred THEN cnt + 1 ELSE cnt
      BY <1>1, <1>2, <2>2, <2>5 DEF ConvEdge, FirstWordInStep
    <3>2. xferred => cnt # Symbols - 1 /\ sender_cnt' = cnt'
      <4>1. xferred => cnt + 1 < Symbols
        BY <2>1, <3>1
      <4>2. sender_cnt \in 0..Symbols-1
        BY <1>2 DEF RegistersOK
      <4> QED
        BY <1>1, <1>2, <3>1, <4>1, <4>2, Modulo, Ranges DEF ConvEdge
    <3>3. cstate' = "SEND" /\ out_tdata' = <<1, sender_cnt>>
      BY <1>1, <2>5, <3>1, <3>2 DEF ConvEdge
    <3> QED
      BY <1>1, <3>1, <3>2, <3>3 DEF ConvEdge, FirstWordInStep
  <2> QED
    BY <1>2, <2>2, <2>3, <2>4, <2>5 DEF FirstWordInStep
<1> QED
  BY <1>2, <1>3, <1>5, <1>6, <1>7 DEF Inv

\* While words are waiting, with at least three samples for a symbol.
LEMMA FedStep ==
  ASSUME Sps >= 3, Inv, Tick, saturated, saturated', taken < MaxWords => Fed, taken' < MaxWords
  PROVE  Fed'
<1>1. PICK sampled \in BOOLEAN, xferred \in BOOLEAN, ready \in BOOLEAN :
         ConvEdge(sampled, xferred) /\ RepEdge(xferred, ready) /\ SourceEdge
  BY Edges
<1>2. RegistersOK /\ RepInStep /\ CaughtUp /\ Counting /\ taken < MaxWords
  BY <1>1, Ranges DEF Inv, ConvEdge
<1>3. Fed
  BY <1>2
<1>4. offer' /\ in_tdata_reg' = taken'
  BY <1>1, <1>3 DEF ConvEdge, SourceEdge, Fed
<1>5. JustTaken => /\ repState' \notin {"IDLE", "SEND_LAST"}
                   /\ ~xferred
  BY <1>1, <1>2, Ranges DEF ConvEdge, RepEdge, JustTaken, RepInStep
<1>6. xferred => JustTaken'
  BY <1>1, <1>2, Ranges DEF ConvEdge, RepEdge, JustTaken, RepInStep
<1>7. ~xferred => sent' = sent /\ sender_cnt' = sender_cnt
  BY <1>1 DEF ConvEdge
<1>8. NoSymbol[1] = 0 /\ Successor(NoSymbol) = <<1, 0>>
  BY DEF NoSymbol, Successor
<1>9. CASE cstate \in {"IDLE", "HEADER"}
  <2>1. /\ ~xferred /\ sent' = sent /\ sent[2] = NoSymbol /\ sender_cnt = 0 /\ sender_cnt' = 0
        /\ repState = "IDLE" /\ repState' = "IDLE"
    BY <1>1, <1>2, <1>3, <1>7, <1>9 DEF ConvEdge, RepEdge, Fed, Counting
  <2>2. \/ cstate = "IDLE" /\ cstate' = "HEADER" /\ taken = 0 /\ taken' = 1
        \/ cstate = "HEADER" /\ cstate' = "SEND" /\ taken = 1 /\ taken' = 1
           /\ out_tdata' = <<1, 0>>
    BY <1>1, <1>3, <1>9, <2>1 DEF ConvEdge, Fed
  <2> QED
    BY <1>4, <1>8, <2>1, <2>2 DEF Fed
<1>10. CASE cstate = "SEND"
  <2>1. /\ taken >= 1 /\ Successor(sent[2]) = <<taken, sender_cnt>> /\ in_tdata_reg = taken
        /\ ~sampled /\ taken' = taken /\ out_tdata' = <<taken, sender_cnt>>
    BY <1>1, <1>3, <1>10 DEF ConvEdge, Fed
  <2>2. CASE ~xferred
    <3>1. cstate' = "SEND"
      BY <1>1, <1>10, <2>2 DEF ConvEdge
    <3> QED
      BY <1>3, <1>4, <1>7, <2>1, <2>2, <3>1 DEF Fed
  <2>3. CASE xferred
    <3>1. /\ out_tdata = <<taken, sender_cnt>>
          /\ sent'[1] = sent[2] /\ sent'[2] = <<taken, sender_cnt>>
      BY <1>1, <1>3, <1>10, <2>3 DEF ConvEdge, Fed, Rep!InReady
    <3>2. JustTaken' /\ repState' \notin {"IDLE", "SEND_LAST"}
      BY <1>6, <2>3 DEF JustTaken
    <3>3. /\ <<taken, sender_cnt>>[1] = taken /\ <<taken, sender_cnt>>[2] = sender_cnt
          /\ <<taken, sender_cnt>> # NoSymbol /\ sender_cnt \in 0..Symbols-1
      BY <1>2, <1>8, <2>1 DEF RegistersOK
    <3>4. CASE sender_cnt = Symbols - 1
      <4>1. cstate' = "SEND_LAST"
        BY <1>1, <1>10, <2>3, <3>4 DEF ConvEdge
      <4> QED
        BY <1>4, <2>1, <3>1, <3>2, <3>4, <4>1 DEF Fed
    <3>5. CASE sender_cnt # Symbols - 1
      <4>1. cstate' = "SEND" /\ sender_cnt' = sender_cnt + 1
        BY <1>1, <1>2, <1>10, <2>3, <3>3, <3>5, Modulo DEF ConvEdge
      <4>2. Successor(<<taken, sender_cnt>>) = <<taken, sender_cnt + 1>>
        BY <3>3, <3>5 DEF Successor
      <4> QED
        BY <1>4, <2>1, <3>1, <3>2, <4>1, <4>2 DEF Fed, Rep!InReady
    <3> QED
      BY <3>4, <3>5
  <2> QED
    BY <2>2, <2>3
<1>11. CASE cstate = "SEND_LAST"
  <2>1. /\ taken >= 1 /\ JustTaken /\ sent[2] = <<taken, Symbols - 1>> /\ sent[2] # NoSymbol
        /\ sent[2] = Successor(sent[1]) /\ offer
    BY <1>3, <1>8, <1>11, Ranges, <1>2 DEF Fed
  <2>2. /\ sampled /\ cstate' = "SEND" /\ taken' = taken + 1 /\ ~xferred
        /\ sent' = sent /\ sender_cnt' = sender_cnt /\ repState' \notin {"IDLE", "SEND_LAST"}
    BY <1>1, <1>5, <1>7, <1>11, <2>1 DEF ConvEdge
  <2>3. <<taken, Symbols - 1>>[1] = taken /\ <<taken, Symbols - 1>>[2] = Symbols - 1
    OBVIOUS
  <2>4. sender_cnt = 0
    <3>1. Symbols - 1 \in 0..Symbols-1 /\ Symbols - 1 + 1 = Symbols
      BY <1>2, Ranges
    <3> QED
      BY <1>2, <2>1, <2>3, <3>1, Modulo DEF Counting
  <2>5. Successor(sent[2]) = <<taken + 1, 0>>
    BY <2>1, <2>3 DEF Successor
  <2> QED
    BY <1>2, <1>4, <2>1, <2>2, <2>4, <2>5, Ranges DEF Fed, Rep!InReady
<1> QED
  BY <1>2, <1>9, <1>10, <1>11, Ranges

\* The invariant with what holds while words are waiting.
IInv == Inv /\ PositionsFollow /\ (Sps >= 3 /\ saturated /\ taken < MaxWords => Fed)

\* Nothing has been taken.
LEMMA InitIInv == Init => IInv
<1> SUFFICES ASSUME Init PROVE IInv
  OBVIOUS
<1> USE DEF Init, InitPoints, Rep!InitStage
<1>1. /\ NoSymbol \in Symbol /\ sent = <<NoSymbol, NoSymbol>>
      /\ sent \in Symbol \X Symbol /\ sent[1] = NoSymbol /\ sent[2] = NoSymbol
  <2>1. Symbols \in Nat /\ Symbols >= 2
    BY IpAssumption, MappingAssumption
  <2>2. NoSymbol \in Symbol
    BY <2>1 DEF NoSymbol, Symbol
  <2> QED
    BY <2>2
<1>2. RegistersOK
  BY <1>1, IpAssumption, MappingAssumption DEF RegistersOK, Rep!States
<1>3. RepInStep /\ CaughtUp /\ Counting /\ FirstWordInStep /\ PositionsFollow
  BY <1>1 DEF RepInStep, CaughtUp, out_tvalid, Counting, FirstWordInStep, PositionsFollow
<1>4. taken < MaxWords => Fed
  BY <1>1, IpAssumption DEF Fed
<1> QED
  BY <1>2, <1>3, <1>4 DEF IInv, Inv

\* IInv is inductive.
LEMMA NextIInv == IInv /\ [Tick]_vars => IInv'
<1> SUFFICES ASSUME IInv, [Tick]_vars PROVE IInv'
  OBVIOUS
<1>1. CASE UNCHANGED vars
  BY <1>1 DEF vars, pointVars, IInv, Inv, RegistersOK, RepInStep, CaughtUp, Counting, FirstWordInStep,
     PositionsFollow, Fed, JustTaken, out_tvalid, Rep!InReady
<1>2. CASE Tick
  <2>1. Inv' /\ PositionsFollow'
    BY <1>2, InvStep DEF IInv
  <2>2. saturated' = saturated
    BY <1>2, Edges DEF SourceEdge
  <2>3. ASSUME Sps >= 3, saturated', taken' < MaxWords PROVE Fed'
    BY <1>2, <2>2, <2>3, FedStep DEF IInv
  <2> QED
    BY <2>1, <2>3 DEF IInv
<1> QED
  BY <1>1, <1>2

\* The invariant of the packaged modulator.
THEOREM PackagedInvariant == Spec => []IInv
BY InitIInv, NextIInv, PTL DEF Spec

\* What the Repeater is given of the first word are its points, one after the other: the
\* packaged modulator implements the sender of QpskMapping.
THEOREM SendsPoints == Spec => PointsSpec
<1>1. Init => InitPoints
  BY DEF Init
<1>2. IInv /\ [Tick]_vars => [SendPoint \/ Sent]_pointVars
  <2> SUFFICES ASSUME IInv, [Tick]_vars PROVE [SendPoint \/ Sent]_pointVars
    OBVIOUS
  <2>1. CASE UNCHANGED vars
    BY <2>1 DEF vars
  <2>2. CASE Tick
    <3>1. PICK sampled \in BOOLEAN, xferred \in BOOLEAN, ready \in BOOLEAN :
             ConvEdge(sampled, xferred) /\ RepEdge(xferred, ready) /\ SourceEdge
      BY <2>2, Edges
    <3>2. RegistersOK /\ CaughtUp /\ FirstWordInStep
      BY DEF IInv, Inv
    <3>3. CASE xferred /\ out_tdata[1] = 1 /\ cnt < Symbols
      <4>1. out_tdata[2] = cnt
        BY <3>1, <3>2, <3>3 DEF ConvEdge, CaughtUp, FirstWordInStep, out_tvalid, Rep!InReady
      <4> QED
        BY <3>1, <3>3, <4>1 DEF ConvEdge, SendPoint
    <3>4. CASE ~(xferred /\ out_tdata[1] = 1 /\ cnt < Symbols)
      BY <3>1, <3>4 DEF ConvEdge, pointVars
    <3> QED
      BY <3>3, <3>4
  <2> QED
    BY <2>1, <2>2
<1> QED
  BY <1>1, <1>2, PackagedInvariant, PTL DEF Spec, PointsSpec

\* The registers of the packaged converter and of the Repeater stay in range.
THEOREM TypeCorrect == Spec => []TypeOK
<1>1. IInv /\ WordTypeOK /\ OnAir => TypeOK
  <2> SUFFICES ASSUME IInv, WordTypeOK, OnAir PROVE TypeOK
    OBVIOUS
  <2>1. RegistersOK
    BY DEF IInv, Inv
  <2>2. sent \in Seq(Nat \X (0..Symbols-1))
    <3>1. sent[1] \in Symbol /\ sent[2] \in Symbol /\ sent = <<sent[1], sent[2]>>
      BY <2>1 DEF RegistersOK
    <3>2. \A S : \A a, b \in S : <<a, b>> \in Seq(S)
      OBVIOUS
    <3> QED
      BY <3>1, <3>2 DEF Symbol
  <2>3. Len(air) = cnt
    BY <2>1, Ranges DEF OnAir
  <2> QED
    BY <2>1, <2>2, <2>3 DEF RegistersOK, TypeOK, Symbol
<1> QED
  BY <1>1, PackagedInvariant, SendsPoints, OnAirInvariant, PTL

\* fsm-3 of the packaged QPSK_data_converter.v loads out_tdata one clock late: with three or
\* more samples for a symbol no symbol is lost or repeated while words wait, and the positions
\* follow one another even if the source pauses.  (With two samples the first symbol of every
\* word but the first would be taken from the word before.)
THEOREM InOrderFed == Sps >= 3 => (Spec => []InOrderWhileFed)
<1> SUFFICES ASSUME Sps >= 3 PROVE Spec => []InOrderWhileFed
  OBVIOUS
<1>1. IInv => InOrderWhileFed
  BY DEF IInv, InOrderWhileFed, InOrder, Fed
<1> QED
  BY <1>1, PackagedInvariant, PTL

\* The receiver gets the first word back from the packaged modulator, bit for bit.
THEOREM WordArrives == Spec => []WordRecovered
BY SendsPoints, Recovered, PTL
=============================================================================
