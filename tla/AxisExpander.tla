---------------------------- MODULE AxisExpander ----------------------------
(***************************************************************************)
(* The state machine of VivadoProject/RTL/QPSK_TX/QPSK_data_converter.v,   *)
(* which Repeater.v repeats line for line: an AXI-Stream stage that takes  *)
(* one word and offers N beats for it.  In the converter N is 16 (a 32-bit *)
(* word is sixteen 2-bit symbols, sender_cnt is 4 bits wide and wraps); in *)
(* the Repeater N is the module parameter.                                 *)
(*                                                                         *)
(* Clock is one rising edge of clk with the inputs that the stage samples  *)
(* at that edge.  axis_in_tready and axis_out_tvalid are registers that    *)
(* fsm-3 loads from nstate at the edge at which fsm-1 loads cstate from    *)
(* nstate, so after every edge, and after reset, they are functions of     *)
(* cstate.                                                                 *)
(***************************************************************************)
EXTENDS Naturals

CONSTANT N      \* the beats offered for each word

\* With N = 1 the test cnt = N - 2 of SEND never succeeds and the stage sends
\* its first word for ever; the block design instantiates 16 and 5.
ASSUME ExpanderAssumption == N \in Nat /\ N >= 2

VARIABLES
  cstate,       \* cstate
  cnt,          \* sender_cnt
  reg           \* in_tdata_reg

stage == <<cstate, cnt, reg>>

States == {"IDLE", "HEADER", "SEND", "SEND_LAST"}

InReady == cstate \in {"IDLE", "SEND_LAST"}     \* axis_in_tready

\* Mutant: fsm-3 forgets tvalid in its SEND_LAST branch.
ValidInSendOnly == cstate = "SEND"
OutValid == cstate \in {"SEND", "SEND_LAST"}    \* axis_out_tvalid

Sample(valid) == valid /\ InReady
Xfer(ready) == OutValid /\ ready

\* fsm-2 leaves SEND with the last beat but one.
\* Mutant: it leaves with the last beat, as the packaged variant does.
AtLast == cnt = N - 1
AtLastButOne == cnt = N - 2

\* Mutant: the word is sampled, but SEND_LAST is left only with its beat.
FromSendLastAfterBeat(sample, xfer) ==
  \/ sample /\ xfer /\ cstate' = "SEND"
  \/ ~sample /\ xfer /\ cstate' = "IDLE"
  \/ ~xfer /\ cstate' = "SEND_LAST"

\* Mutant: fsm-2 has no branch for a word sampled in SEND_LAST.
FromSendLastToIdle(sample, xfer) ==
  \/ xfer /\ cstate' = "IDLE"
  \/ ~xfer /\ cstate' = "SEND_LAST"

\* A word sampled in SEND_LAST goes straight to SEND, whether or not the last
\* beat of the previous word leaves at this edge.
FromSendLast(sample, xfer) ==
  \/ sample /\ cstate' = "SEND"
  \/ ~sample /\ xfer /\ cstate' = "IDLE"
  \/ ~sample /\ ~xfer /\ cstate' = "SEND_LAST"

NextState(sample, xfer) ==
  \/ cstate = "IDLE" /\ cstate' = IF sample THEN "HEADER" ELSE "IDLE"
  \/ cstate = "HEADER" /\ cstate' = "SEND"
  \/ cstate = "SEND" /\ cstate' = IF AtLastButOne /\ xfer THEN "SEND_LAST"
                                                          ELSE "SEND"
  \/ cstate = "SEND_LAST" /\ FromSendLast(sample, xfer)

\* Mutant: the count has no wrap, as a 32-bit sender_cnt without line 49.
NextCntNoWrap(xfer) == cnt' = IF xfer THEN cnt + 1 ELSE cnt

\* sender_cnt: modulo 16 by its width in the converter, an explicit wrap at
\* N - 1 in the Repeater.
NextCnt(xfer) == cnt' = IF xfer THEN (IF cnt = N - 1 THEN 0 ELSE cnt + 1)
                                ELSE cnt

\* Mutant: the data register has no enable.
LatchAlways(sample, data) == reg' = data
Latch(sample, data) == reg' = IF sample THEN data ELSE reg

Clock(valid, data, ready) ==
  /\ NextState(Sample(valid), Xfer(ready))
  /\ NextCnt(Xfer(ready))
  /\ Latch(Sample(valid), data)

\* The asynchronous reset (zero is what the data register is cleared to).
ResetTo(zero) == cstate' = "IDLE" /\ cnt' = 0 /\ reg' = zero

InitStage(zero) == cstate = "IDLE" /\ cnt = 0 /\ reg = zero
=============================================================================
