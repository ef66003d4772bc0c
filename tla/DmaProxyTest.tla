---------------------------- MODULE DmaProxyTest ----------------------------
(***************************************************************************)
(* The user application dma-proxy-test.c: a transmit thread and a receive  *)
(* thread, each driving its own dma-proxy channel through START_XFER and   *)
(* FINISH_XFER, over a loopback that carries transmitted buffers to posted *)
(* receive buffers.  The threads share num_transfers and the flag stop,    *)
(* which the SIGINT handler sets, without any synchronization; each read   *)
(* or write of num_transfers is a step of its own.                         *)
(*                                                                         *)
(* A channel is what DmaProxy shows one thread whose peer keeps up: a      *)
(* queue of started buffers and the buffers completed and not yet waited   *)
(* for.  A wait times out exactly when nothing can complete the buffer.    *)
(***************************************************************************)
EXTENDS Naturals, Sequences

CONSTANTS
  TxBuffers,    \* TX_BUFFER_COUNT (1)
  RxBuffers,    \* RX_BUFFER_COUNT (32)
  MaxTransfers  \* bound: the largest number of transfers asked for

ASSUME TestAssumption ==
  /\ TxBuffers \in Nat \ {0} /\ RxBuffers \in Nat \ {0}
  /\ MaxTransfers \in Nat

VARIABLES
  num_transfers, stop,
  tx,           \* tx_thread: [pc, buffer_id, counter, in_progress, stopping]
  rx,           \* rx_thread: [pc, buffer_id, counter, in_progress]
  txQueue,      \* transmit channel: started transfers, <<buffer, first word>>
  txDone,       \* transmit channel: buffers completed, not waited for
  rxQueue,      \* receive channel: started buffers
  rxDone,       \* receive channel: buffers completed, not waited for
  rxData,       \* the first word of each receive buffer
  mismatch,     \* history: did the verification of a buffer fail?
  late,         \* history: did ^C come with fewer than RxBuffers to go?
  asked         \* history: the number of transfers on the command line

channels == <<txQueue, txDone, rxQueue, rxDone, rxData>>
testVars == <<num_transfers, stop, tx, rx, channels, mismatch, late, asked>>

TestInit ==
  /\ num_transfers \in 0..MaxTransfers
  /\ asked = num_transfers /\ stop = FALSE /\ late = FALSE
  /\ tx = [pc |-> "fill", buffer_id |-> 0, counter |-> 0,
           in_progress |-> 0, stopping |-> FALSE]
  /\ rx = [pc |-> "fill", buffer_id |-> 0, counter |-> 0,
           in_progress |-> 0]
  /\ txQueue = <<>> /\ txDone = {}
  /\ rxQueue = <<>> /\ rxDone = {}
  /\ rxData = [b \in 0..RxBuffers-1 |-> 0]
  /\ mismatch = FALSE

Running == rx.pc # "exit(1)"

\* ioctl START_XFER on each channel.
TxStart(b, word) == /\ txQueue' = Append(txQueue, <<b, word>>)
                    /\ txDone' = txDone \ {b}
                    /\ UNCHANGED <<rxQueue, rxDone, rxData>>

RxStart(b) == /\ rxQueue' = Append(rxQueue, b)
              /\ rxDone' = rxDone \ {b}
              /\ UNCHANGED <<txQueue, txDone, rxData>>

\* The stream of the loopback stalls until a receive buffer is posted.
Loopback == /\ Running /\ txQueue # <<>> /\ rxQueue # <<>>
            /\ txQueue' = Tail(txQueue)
            /\ txDone' = txDone \cup {Head(txQueue)[1]}
            /\ rxQueue' = Tail(rxQueue)
            /\ rxDone' = rxDone \cup {Head(rxQueue)}
            /\ rxData' = [rxData EXCEPT ![Head(rxQueue)] = Head(txQueue)[2]]
            /\ UNCHANGED <<num_transfers, stop, tx, rx, mismatch, late, asked>>

TxCanComplete(b) == /\ \E i \in DOMAIN txQueue : txQueue[i][1] = b
                    /\ rxQueue # <<>> \/ rx.pc # "exit"

RxCanComplete(b) == /\ \E i \in DOMAIN rxQueue : rxQueue[i] = b
                    /\ txQueue # <<>> \/ tx.pc # "exit"

\* Mutant: BUFFER_INCREMENT without the modulo.
NextBufferNoWrap(b, count) == b + 1
NextBuffer(b, count) == (b + 1) % count

-----------------------------------------------------------------------------
\* tx_thread

\* Lines 122-143: start the transmit buffers.
TxFill ==
  /\ tx.pc = "fill"
  /\ TxStart(tx.buffer_id, tx.in_progress)
  /\ LET n == tx.in_progress + 1
     IN  tx' = IF n >= num_transfers \/ tx.buffer_id + 1 = TxBuffers
                 THEN [tx EXCEPT !.in_progress = n, !.buffer_id = 0, !.pc = "finish"]
                 ELSE [tx EXCEPT !.in_progress = n, !.buffer_id = @ + 1]
  /\ UNCHANGED <<num_transfers, rx, mismatch>>

\* Lines 154-166: FINISH_XFER, whose error status is only printed, and the
\* test for the last transfer.
TxFinish ==
  /\ tx.pc = "finish"
  /\ tx.buffer_id \in txDone \/ ~TxCanComplete(tx.buffer_id)
  /\ txDone' = txDone \ {tx.buffer_id}
  /\ tx' = [tx EXCEPT !.in_progress = @ - 1, !.counter = @ + 1,
                      !.pc = IF tx.counter + 1 >= num_transfers
                               THEN "exit" ELSE "stop?"]
  /\ UNCHANGED <<num_transfers, rx, txQueue, rxQueue, rxDone, rxData, mismatch>>

DrainReceive == tx.counter + RxBuffers

\* Lines 174-177: on a stop, enough transfers to drain the receive buffers.
TxStop ==
  /\ tx.pc = "stop?"
  /\ IF stop /\ ~tx.stopping
       THEN /\ num_transfers' = DrainReceive
            /\ tx' = [tx EXCEPT !.stopping = TRUE, !.pc = "refill"]
       ELSE /\ UNCHANGED num_transfers
            /\ tx' = [tx EXCEPT !.pc = "refill"]
  /\ UNCHANGED <<rx, channels, mismatch>>

TxEnough == tx.counter + tx.in_progress >= num_transfers

\* Mutant: the `- 1` is missing.
TxWordOffByOne == TxBuffers + tx.counter
TxWord == TxBuffers - 1 + tx.counter

\* Lines 181-205: restart the buffer if more transfers are needed.
TxRefill ==
  /\ tx.pc = "refill"
  /\ IF TxEnough
       THEN /\ UNCHANGED channels
            /\ tx' = [tx EXCEPT !.pc = "finish",
                                !.buffer_id = NextBuffer(@, TxBuffers)]
       ELSE /\ TxStart(tx.buffer_id, TxWord)
            /\ tx' = [tx EXCEPT !.pc = "finish", !.in_progress = @ + 1,
                                !.buffer_id = NextBuffer(@, TxBuffers)]
  /\ UNCHANGED <<num_transfers, rx, mismatch>>

-----------------------------------------------------------------------------
\* rx_thread

\* Mutant: the first buffer waited for is the last one posted.
RxFirstIsLast == rx.buffer_id
RxFirst == 0

\* Lines 216-230: post the receive buffers.
RxFill ==
  /\ rx.pc = "fill"
  /\ RxStart(rx.buffer_id)
  /\ LET n == rx.in_progress + 1
     IN  rx' = IF n >= num_transfers \/ rx.buffer_id + 1 = RxBuffers
                 THEN [rx EXCEPT !.in_progress = n, !.buffer_id = RxFirst, !.pc = "finish"]
                 ELSE [rx EXCEPT !.in_progress = n, !.buffer_id = @ + 1]
  /\ UNCHANGED <<num_transfers, tx, mismatch>>

\* Lines 239-259: FINISH_XFER and the verification of the buffer.
RxFinish ==
  /\ rx.pc = "finish" /\ rx.buffer_id \in rxDone
  /\ rxDone' = rxDone \ {rx.buffer_id}
  /\ mismatch' = (mismatch \/ rxData[rx.buffer_id] # rx.counter)
  /\ rx' = [rx EXCEPT !.pc = "count"]
  /\ UNCHANGED <<num_transfers, tx, txQueue, txDone, rxQueue, rxData>>

\* Mutant: a wait that timed out is tried again.
RxTimeoutRetried ==
  /\ rx.pc = "finish" /\ ~RxCanComplete(rx.buffer_id)
  /\ UNCHANGED <<num_transfers, tx, rx, channels, mismatch>>

\* Lines 241-245: a wait that timed out ends the process.
RxTimeout ==
  /\ rx.pc = "finish" /\ rx.buffer_id \notin rxDone
  /\ ~RxCanComplete(rx.buffer_id)
  /\ rx' = [rx EXCEPT !.pc = "exit(1)"]
  /\ UNCHANGED <<num_transfers, tx, channels, mismatch>>

RxLast == rx.counter + 1 >= num_transfers

\* Lines 264-269: the test for the last transfer.
RxCount ==
  /\ rx.pc = "count"
  /\ rx' = [rx EXCEPT !.in_progress = @ - 1, !.counter = @ + 1,
                      !.pc = IF RxLast THEN "exit" ELSE "refill"]
  /\ UNCHANGED <<num_transfers, tx, channels, mismatch>>

\* Mutant: the transfers in progress are not counted.
RxEnoughDone == rx.counter >= num_transfers
RxEnough == rx.counter + rx.in_progress >= num_transfers

\* Lines 274-290: repost the buffer if more transfers are needed.
RxRefill ==
  /\ rx.pc = "refill"
  /\ IF RxEnough
       THEN /\ UNCHANGED channels
            /\ rx' = [rx EXCEPT !.pc = "finish",
                                !.buffer_id = NextBuffer(@, RxBuffers)]
       ELSE /\ RxStart(rx.buffer_id)
            /\ rx' = [rx EXCEPT !.pc = "finish", !.in_progress = @ + 1,
                                !.buffer_id = NextBuffer(@, RxBuffers)]
  /\ UNCHANGED <<num_transfers, tx, mismatch>>

-----------------------------------------------------------------------------
\* The SIGINT handler.
sigint == /\ Running /\ ~stop
          /\ stop' = TRUE
          /\ late' = (tx.counter + RxBuffers >= num_transfers)
          /\ UNCHANGED <<num_transfers, tx, rx, channels, mismatch, asked>>

TxThread == Running /\ (TxFill \/ TxFinish \/ TxStop \/ TxRefill)
              /\ UNCHANGED <<stop, late, asked>>
RxThread == (RxFill \/ RxFinish \/ RxTimeout \/ RxCount \/ RxRefill)
              /\ UNCHANGED <<stop, late, asked>>

TestNext == TxThread \/ RxThread \/ Loopback \/ sigint

\* Both threads are scheduled and the stream moves; nobody has to press ^C.
TestSpec == /\ TestInit /\ [][TestNext]_testVars
            /\ WF_testVars(TxThread) /\ WF_testVars(RxThread) /\ WF_testVars(Loopback)

-----------------------------------------------------------------------------

\* What a thread keeps in its local variables.
TxStates == [pc: {"fill", "finish", "stop?", "refill", "exit"}, stopping: BOOLEAN,
             buffer_id: 0..TxBuffers-1, counter: Nat, in_progress: Nat]
RxStates == [pc: {"fill", "finish", "count", "refill", "exit", "exit(1)"},
             buffer_id: 0..RxBuffers-1, counter: Nat, in_progress: Nat]

\* Every variable has its type.
TestTypeOK ==
  /\ num_transfers \in Nat /\ asked \in 0..MaxTransfers
  /\ stop \in BOOLEAN /\ late \in BOOLEAN /\ mismatch \in BOOLEAN
  /\ tx \in TxStates /\ rx \in RxStates
  /\ txQueue \in Seq((0..TxBuffers-1) \X Nat) /\ txDone \subseteq 0..TxBuffers-1
  /\ rxQueue \in Seq(0..RxBuffers-1) /\ rxDone \subseteq 0..RxBuffers-1
  /\ rxData \in [0..RxBuffers-1 -> Nat]

Done == tx.pc = "exit" /\ rx.pc = "exit"

\* The exit(1) of the receive thread.
TimedOutLate == rx.pc = "exit(1)" => late

\* The buffers the receive thread believes in progress are those its channel
\* holds, in the order in which the thread will wait for them: unless ^C comes
\* too late, it never waits for a buffer it did not start.  And the word it
\* verifies in each is the one sent for it: the counters of the two threads
\* agree on the pattern.  So no wait times out, but after a late ^C.
RingInStep ==
  /\ rx.pc = "finish" /\ ~late =>
       \A k \in 0..rx.in_progress-1 :
         LET b == (rx.buffer_id + k) % RxBuffers
         IN  b \in rxDone \/ \E i \in DOMAIN rxQueue : rxQueue[i] = b
  /\ ~mismatch
  /\ TimedOutLate

\* When both threads have finished, both have done the same number of
\* transfers and no channel has one in progress, also after a ^C that came
\* with RX_BUFFER_COUNT transfers still to go.
CleanExit ==
  Done /\ ~late => /\ tx.counter = rx.counter
                   /\ txQueue = <<>> /\ rxQueue = <<>>
                   /\ txDone = {} /\ rxDone = {}

\* Both threads finish, and the process with them; only when ^C came too late
\* may it end by exit(1) instead: no wait is for ever.
ProcessEnds == <>(Done \/ (late /\ rx.pc = "exit(1)"))

\* dma-proxy-test.c:168-173, "exit gracefully letting all transfers queued up
\* be completed ... gracefully shutdown the receive without leaving transfers
\* in progress which is unrecoverable": the process does not end with
\* transfers posted.
GracefulShutdown == stop /\ rx.pc = "exit(1)" => rxQueue = <<>> /\ txQueue = <<>>
=============================================================================
