-------------------------- MODULE StreamStageProof --------------------------
(***************************************************************************)
(* Theorems about StreamStage for every N, MaxWords and SinkReady.  The    *)
(* inductive invariant Inv ties the history of the stream to the state of  *)
(* the machine: the count is zero in IDLE and HEADER, stays below N - 1 in *)
(* SEND unless a second word has been latched over the first, and is N - 1 *)
(* in SEND_LAST; the register holds the number of the last word taken.     *)
(***************************************************************************)
EXTENDS StreamStage, TLAPS

\* The count that each state of the machine implies.
CountOfState ==
  /\ cstate \in {"IDLE", "HEADER"} => cnt = 0
  /\ cstate = "SEND_LAST" => cnt = N - 1

\* The data register holds the last word taken, while a beat of it is due.
LatestWord == cstate # "IDLE" => reg = taken

Inv == TypeOK /\ CountOfState /\ LatestWord /\ BeatsConserved

-----------------------------------------------------------------------------
\* Every variable has its type, whatever the word size and the sink do (the
\* registers of QPSK_data_converter.v and Repeater.v).
THEOREM TypeCorrect == Spec => []TypeOK
<1>1. Init => TypeOK
  BY ExpanderAssumption DEF Init, InitStage, TypeOK, States, NoBeat
<1>2. TypeOK /\ [Next]_vars => TypeOK'
  <2> SUFFICES ASSUME TypeOK, [Next]_vars PROVE TypeOK'
    OBVIOUS
  <2> USE DEF TypeOK
  <2>0. N \in Nat /\ N >= 2
    BY ExpanderAssumption
  <2>1. ASSUME NEW ready \in SinkReady, Edge(ready) PROVE TypeOK'
    <3> USE <2>1 DEF Edge
    <3>1. cstate' \in States
      BY DEF Clock, NextState, FromSendLast, States
    <3>2. cnt' \in 0..N-1
      BY <2>0 DEF Clock, NextCnt
    <3>3. taken' \in Nat /\ done' \in Nat
      BY DEF History
    <3>4. reg' \in Nat
      BY DEF Clock, Latch
    <3>5. beat' \in Nat \X Nat
      BY DEF History
    <3>6. offer' \in BOOLEAN
      BY DEF Source
    <3> QED
      BY <3>1, <3>2, <3>3, <3>4, <3>5, <3>6
  <2>2. CASE Reset
    <3>1. cstate' = "IDLE" /\ cnt' = 0 /\ reg' = 0
      BY <2>2 DEF Reset, ResetTo
    <3>2. done' = taken /\ beat' = <<0, 0>> /\ taken' = taken
      BY <2>2 DEF Reset, NoBeat
    <3>3. offer' \in BOOLEAN
      BY <2>2, Zenon DEF Reset
    <3> QED
      BY <2>0, <3>1, <3>2, <3>3 DEF States
  <2>3. CASE UNCHANGED vars
    BY <2>3 DEF vars
  <2> QED
    BY <2>1, <2>2, <2>3 DEF Next, Tick
<1> QED
  BY <1>1, <1>2, PTL DEF Spec

-----------------------------------------------------------------------------
\* The step lemma: one clock edge or one reset preserves Inv.
LEMMA InvStep == Inv /\ [Next]_vars /\ TypeOK' => Inv'
<1> SUFFICES ASSUME Inv, [Next]_vars, TypeOK' PROVE Inv'
  OBVIOUS
<1>0. N \in Nat /\ N >= 2
  BY ExpanderAssumption
<1>1. ASSUME NEW ready \in SinkReady, Edge(ready) PROVE Inv'
  <2> USE <1>0, <1>1 DEF Edge, Clock, NextState, AtLastButOne, FromSendLast,
                         NextCnt, Latch, History, Sample, Xfer, InReady,
                         OutValid, TypeOK
  <2>1. CASE cstate = "IDLE"
    BY <2>1 DEF Inv, CountOfState, LatestWord, BeatsConserved, Owed
  <2>2. CASE cstate = "HEADER"
    BY <2>2 DEF Inv, CountOfState, LatestWord, BeatsConserved, Owed
  <2>3. CASE cstate = "SEND"
    <3>1. CASE cnt = N - 1
      BY <2>3, <3>1 DEF Inv, CountOfState, LatestWord, BeatsConserved, Owed
    <3>2. CASE cnt # N - 1
      BY <2>3, <3>2 DEF Inv, CountOfState, LatestWord, BeatsConserved, Owed
    <3> QED
      BY <3>1, <3>2
  <2>4. CASE cstate = "SEND_LAST"
    BY <2>4 DEF Inv, CountOfState, LatestWord, BeatsConserved, Owed
  <2> QED
    BY <2>1, <2>2, <2>3, <2>4 DEF Inv, States
<1>2. CASE Reset
  <2>1. cstate' = "IDLE" /\ cnt' = 0
    BY <1>2 DEF Reset, ResetTo
  <2>2. done' = taken /\ taken' = taken
    BY <1>2 DEF Reset
  <2>3. CountOfState' /\ LatestWord'
    BY <1>0, <2>1 DEF CountOfState, LatestWord
  <2>4. BeatsConserved'
    <3>1. Owed' = 0
      BY <2>1 DEF Owed
    <3>2. taken \in Nat
      BY DEF Inv, TypeOK
    <3> QED
      BY <2>2, <3>1, <3>2 DEF BeatsConserved
  <2> QED
    BY <2>3, <2>4 DEF Inv
<1>3. CASE UNCHANGED vars
  BY <1>3 DEF vars, Inv, CountOfState, LatestWord, BeatsConserved, Owed
<1> QED
  BY <1>1, <1>2, <1>3 DEF Next, Tick

\* The reset state of the stage (fsm-1, sender_cnt, in_tdata_reg) satisfies it.
LEMMA InvInit == Init => Inv
BY ExpanderAssumption DEF Init, InitStage, Inv, TypeOK, CountOfState, LatestWord,
     BeatsConserved, Owed, States, NoBeat

\* So Inv holds at every clock edge and after every reset.
LEMMA Invariance == Spec => []Inv
<1>1. Inv /\ [Next]_vars /\ TypeOK' => Inv'
  BY InvStep
<1> QED
  BY InvInit, <1>1, TypeCorrect, PTL DEF Spec

\* Whatever the sink does, N beats leave for every word accepted, less those
\* the state of the machine still owes (fsm-2 and sender_cnt).
THEOREM Conservation == Spec => []BeatsConserved
<1>1. Inv => BeatsConserved
  BY DEF Inv
<1> QED
  BY Invariance, <1>1, PTL

-----------------------------------------------------------------------------
\* Whatever the sink does, only the last beat of a word can be lost, and it is
\* replaced by the last beat of the next word (in_tdata_reg overwritten in
\* SEND_LAST of QPSK_data_converter.v).
THEOREM LossBound == Spec => []OnlyLastBeatAtRisk
<1>1. Init => OnlyLastBeatAtRisk
  BY DEF Init, OnlyLastBeatAtRisk
<1>2. Inv /\ OnlyLastBeatAtRisk /\ [Next]_vars => OnlyLastBeatAtRisk'
  <2> SUFFICES ASSUME Inv, OnlyLastBeatAtRisk, [Next]_vars
               PROVE  OnlyLastBeatAtRisk'
    OBVIOUS
  <2> USE DEF OnlyLastBeatAtRisk
  <2>0. N \in Nat /\ N >= 2
    BY ExpanderAssumption
  <2>1. ASSUME NEW ready \in SinkReady, Edge(ready) PROVE OnlyLastBeatAtRisk'
    <3> USE <2>0, <2>1 DEF Edge, Clock, NextCnt, History, Xfer, Inv, TypeOK
    <3>1. CASE ~Xfer(ready)
      BY <3>1
    <3>2. CASE Xfer(ready) /\ cstate = "SEND"
      BY <3>2 DEF LatestWord, BeatsConserved, Owed
    <3>3. CASE Xfer(ready) /\ cstate = "SEND_LAST"
      BY <3>3 DEF LatestWord, BeatsConserved, Owed, CountOfState
    <3> QED
      BY <3>1, <3>2, <3>3 DEF OutValid
  <2>2. CASE Reset
    BY <2>2 DEF Reset
  <2>3. CASE UNCHANGED vars
    BY <2>3 DEF vars
  <2> QED
    BY <2>1, <2>2, <2>3 DEF Next, Tick
<1> QED
  BY Invariance, <1>1, <1>2, PTL DEF Spec

-----------------------------------------------------------------------------
\* With a sink that is always ready SEND is left when beat N - 2 is, so the
\* register is never overwritten while its last beat is due.
NoOverwrite == SinkReady = {TRUE} /\ cstate = "SEND" => cnt # N - 1

\* SEND is never entered from SEND_LAST before the last beat has left
\* (fsm-2 with axis_out_tready tied high).
LEMMA NoOverwriteInvariant == Spec => []NoOverwrite
<1>1. Init => NoOverwrite
  BY DEF Init, InitStage, NoOverwrite
<1>2. Inv /\ NoOverwrite /\ [Next]_vars => NoOverwrite'
  <2> SUFFICES ASSUME Inv, NoOverwrite, [Next]_vars, SinkReady = {TRUE}
               PROVE  cstate' = "SEND" => cnt' # N - 1
    BY DEF NoOverwrite
  <2>0. /\ N \in Nat /\ N >= 2 /\ cnt \in 0..N-1 /\ cstate \in States
        /\ cstate = "SEND" => cnt # N - 1
    BY ExpanderAssumption DEF Inv, TypeOK, NoOverwrite
  <2>1. ASSUME NEW ready \in SinkReady, Edge(ready)
        PROVE  cstate' = "SEND" => cnt' # N - 1
    <3>1. ready = TRUE
      BY <2>1
    <3> QED
      BY <2>0, <2>1, <3>1 DEF Edge, Clock, Xfer, NextState, AtLastButOne,
                              FromSendLast, NextCnt, OutValid, Sample,
                              InReady, States, Inv, CountOfState
  <2>2. CASE Reset
    BY <2>2 DEF Reset, ResetTo
  <2>3. CASE UNCHANGED vars
    BY <2>0, <2>3 DEF vars
  <2> QED
    BY <2>1, <2>2, <2>3 DEF Next, Tick
<1> QED
  BY Invariance, <1>1, <1>2, PTL DEF Spec

\* Every step of the stage is a step of the abstract stream: with a sink that
\* is always ready, words are finished in order, all N beats of each; with any
\* other sink a word sampled in SEND_LAST may supply the beat still due.
THEOREM Refines == Spec => Stream!Safety
<1>1. Init => Stream!Init
  BY DEF Init, InitStage, Stream!Init, NoBeat, Stream!NoBeat
<1>2. Inv /\ Inv' /\ NoOverwrite /\ NoOverwrite' /\ [Next]_vars
        => [Stream!Next]_(Stream!stream)
  <2> SUFFICES ASSUME Inv, Inv', NoOverwrite, NoOverwrite', [Next]_vars
               PROVE  Stream!Next \/ UNCHANGED Stream!stream
    BY DEF Stream!stream
  <2> USE DEF Stream!stream
  <2>0. /\ N \in Nat /\ N >= 2 /\ cnt \in 0..N-1 /\ cstate \in States
        /\ taken \in Nat /\ done \in Nat /\ taken = done + Owed
        /\ CountOfState /\ LatestWord
    BY ExpanderAssumption DEF Inv, TypeOK, BeatsConserved
  <2>1. ASSUME NEW ready \in SinkReady, Edge(ready)
        PROVE  Stream!Next \/ UNCHANGED Stream!stream
    <3>1. /\ taken' = IF Sample(offer) THEN taken + 1 ELSE taken
          /\ done' = IF Xfer(ready) /\ cnt = N - 1 THEN done + 1 ELSE done
          /\ beat' = IF Xfer(ready) THEN <<reg, cnt>> ELSE beat
          /\ cnt' = IF Xfer(ready) THEN (IF cnt = N - 1 THEN 0 ELSE cnt + 1)
                                   ELSE cnt
      BY <2>1 DEF Edge, Clock, History, NextCnt
    <3>2. taken' = taken \/ Stream!Take
      BY <3>1 DEF Stream!Take
    <3>3. Stream!Send \/ UNCHANGED <<done, cnt, beat>>
      <4>1. CASE Xfer(ready)
        <5>1. cstate \in {"SEND", "SEND_LAST"} /\ reg = taken
          BY <2>0, <4>1 DEF Xfer, OutValid, LatestWord
        <5>2. CASE Owed = 1
          <6>1. reg = done + 1 /\ done < taken
            BY <2>0, <5>1, <5>2
          <6> QED
            BY <2>0, <3>1, <4>1, <6>1 DEF Stream!Send
        <5>3. CASE Owed = 2
          <6>1. cstate = "SEND" /\ cnt = N - 1
            BY <5>1, <5>3 DEF Owed
          <6>2. SinkReady # {TRUE}
            BY <6>1 DEF NoOverwrite
          <6>3. taken = done + 2 /\ reg = done + 2 /\ done < taken
            BY <2>0, <5>1, <5>3
          <6>4. Stream!AtLast
            BY <6>1, <6>2, <6>3, Zenon DEF Stream!AtLast
          <6> QED
            BY <2>0, <3>1, <4>1, <6>1, <6>3, <6>4 DEF Stream!Send
        <5> QED
          BY <5>1, <5>2, <5>3 DEF Owed
      <4>2. CASE ~Xfer(ready)
        BY <3>1, <4>2
      <4> QED
        BY <4>1, <4>2
    <3>4. Stream!Room'
      <4>1. taken' = done' + Owed' /\ done' \in Nat
        BY DEF Inv, TypeOK, BeatsConserved
      <4>2. cstate' \in States /\ cnt' \in 0..N-1
        BY DEF Inv, TypeOK
      <4>3. CASE Owed' = 2
        <5>1. cstate' = "SEND" /\ cnt' = N - 1
          BY <4>2, <4>3 DEF Owed, States
        <5>2. SinkReady # {TRUE}
          BY <5>1, Zenon DEF NoOverwrite
        <5>3. taken' = done' + 2
          BY <4>1, <4>3
        <5> QED
          BY <5>1, <5>2, <5>3, Zenon DEF Stream!Room, Stream!AtLast
      <4>4. CASE Owed' # 2
        <5>1. Owed' = 0 \/ Owed' = 1
          BY <4>2, <4>4 DEF Owed, States
        <5>2. taken' <= done' + 1
          BY <4>1, <5>1
        <5> QED
          BY <5>2 DEF Stream!Room
      <4> QED
        BY <4>3, <4>4
    <3> QED
      BY <3>2, <3>3, <3>4 DEF Stream!Next, Stream!Step
  <2>2. CASE Reset
    BY <2>2 DEF Reset, ResetTo, Stream!Next, Stream!Reset, NoBeat, Stream!NoBeat
  <2>3. CASE UNCHANGED vars
    BY <2>3 DEF vars
  <2> QED
    BY <2>1, <2>2, <2>3 DEF Next, Tick
<1> QED
  BY Invariance, NoOverwriteInvariant, <1>1, <1>2, PTL DEF Spec, Stream!Safety
=============================================================================
