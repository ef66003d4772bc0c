---------------------------- MODULE QpskMapping -----------------------------
(***************************************************************************)
(* Bits to amplitudes: which two bits of in_tdata_reg the converter shows  *)
(* at each value of sender_cnt, and the DAC amplitudes it maps them to, in *)
(* both versions of the converter.  The state machine sends one word over  *)
(* the air, point after point, to a receiver that decides each point and   *)
(* shifts the two bits in.                                                 *)
(***************************************************************************)
EXTENDS Naturals, Sequences

CONSTANTS
  Symbols,      \* symbols per word: 16
  ONE, ZERO,    \* the two amplitudes, 16'h6665 and 16'h999B
  Packaged,     \* the converter of ip/QPSK_MOD, or that of RTL/QPSK_TX
  Data          \* the words that may be sent

Bit == {0, 1}
Words == [0..2*Symbols-1 -> Bit]

ASSUME MappingAssumption ==
  /\ Symbols \in Nat \ {0} /\ ONE # ZERO
  /\ Packaged \in BOOLEAN /\ Data \subseteq Words

Levels == {ONE, ZERO}

\* minus_cnt, cnt_m2 and cnt_m2p1: symbol 0 is the top pair of bits.
minus_cnt(cnt) == Symbols - 1 - cnt
cnt_m2(cnt) == 2 * minus_cnt(cnt)
cnt_m2p1(cnt) == 2 * minus_cnt(cnt) + 1

Level(b) == IF b = 0 THEN ONE ELSE ZERO

\* RTL/QPSK_TX: axis_out_tdata as <<upper half, lower half>>.  01 (high bit 0,
\* low bit 1) is {ZERO, ONE}: the low bit selects the upper half.
RtlPoint(word, cnt) ==
  <<Level(word[cnt_m2(cnt)]), Level(word[cnt_m2p1(cnt)])>>

\* ip/QPSK_MOD: z01 is {ONE, ZERO}: the high bit selects the upper half.
IpPoint(word, cnt) ==
  <<Level(word[cnt_m2p1(cnt)]), Level(word[cnt_m2(cnt)])>>

Point(word, cnt) == IF Packaged THEN IpPoint(word, cnt) ELSE RtlPoint(word, cnt)

-----------------------------------------------------------------------------
VARIABLES
  word,         \* the word sent, in_tdata_reg
  cnt,          \* how many of its points are sent
  air           \* history: those points

pointVars == <<word, cnt, air>>

InitPoints == word \in Data /\ cnt = 0 /\ air = <<>>

SendPoint == /\ cnt < Symbols
             /\ air' = Append(air, Point(word, cnt))
             /\ cnt' = cnt + 1
             /\ UNCHANGED word

Sent == cnt = Symbols /\ UNCHANGED pointVars

PointsSpec == InitPoints /\ [][SendPoint \/ Sent]_pointVars

Decide(l) == IF l = ONE THEN 0 ELSE 1

\* The half of a point that carries the low bit of its pair (half 1 is the
\* upper one), and the high bit.
LowHalf == IF Packaged THEN 2 ELSE 1
HighHalf == IF Packaged THEN 1 ELSE 2

\* The word a receiver takes the points for: the decided bits shifted in,
\* first symbol first.
Received == [i \in 0..2*Symbols-1 |->
               LET point == air[Symbols - i \div 2]
               IN  Decide(point[IF i % 2 = 0 THEN LowHalf ELSE HighHalf])]

\* A receiver that shifts in two bits per point recovers the word, bit for
\* bit, most significant pair first.
WordRecovered == cnt = Symbols => Received = word
=============================================================================
