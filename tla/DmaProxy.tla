------------------------------ MODULE DmaProxy ------------------------------
(***************************************************************************)
(* One channel of the dma-proxy character driver (dma-proxy.c): the ioctl  *)
(* handler, the transfers it starts and finishes, and the DMA engine that  *)
(* carries them out.  A thread in the handler holds no lock; the field     *)
(* bdindex of the channel is written when the ioctl is entered and read    *)
(* again by start_transfer and by wait_for_transfer.                       *)
(*                                                                         *)
(* The engine (the Xilinx AXI DMA driver, outside this repository) serves  *)
(* submitted transfers in order.  It completes a cookie in its interrupt   *)
(* and runs the callback later, in a tasklet.                              *)
(***************************************************************************)
EXTENDS Naturals, Sequences

CONSTANTS
  Threads,      \* threads that use the channel's file descriptor
  Buffers,      \* the entries of bdtable in use
  MaxAlone,     \* bound: START_XFER and XFER commands of a thread on its own,
  MaxShared     \* and of several threads together

ASSUME DmaProxyAssumption ==
  /\ Threads # {} /\ Buffers # {} /\ MaxAlone \in Nat /\ MaxShared \in Nat

\* What a behaviour may meet, chosen once.
VARIABLES
  users,        \* the threads that use the channel
  stalls,       \* may a transfer take longer than the 3000 ms of a wait?
  prepFails     \* may device_prep_slave_sg or dmaengine_submit fail?

VARIABLES
  pc, cmd,      \* per thread: where it is, its command
  local,        \* per thread: the local copy of bdindex
  timedOut,     \* per thread: wait_for_completion_timeout returned 0
  bdindex,      \* dma_proxy_channel.bdindex
  cmp,          \* bdtable[].cmp: the done count of the completion
  cookie,       \* bdtable[].cookie, 0 for none and for an error cookie
  status,       \* buffer_table_p[].status, mapped by user space
  queue,        \* engine: the transfers to serve, <<cookie, buffer>>
  finished,     \* engine: buffers of the callbacks still to run
  completed,    \* engine: the last cookie completed
  starts,       \* history: start commands entered
  started,      \* history: buffers with a START and no FINISH yet
  submitted     \* history: per buffer, did its latest START submit a transfer?

threadVars == <<pc, cmd, local, timedOut>>
tableVars == <<bdindex, cmp, cookie, status>>
engineVars == <<queue, finished, completed>>
historyVars == <<starts, started, submitted>>
modeVars == <<users, stalls, prepFails>>
vars == <<modeVars, threadVars, tableVars, engineVars, historyVars>>

Alone == \E t \in Threads : users = {t}
MaxStarts == IF Alone THEN MaxAlone ELSE MaxShared

Commands == {"START_XFER", "FINISH_XFER", "XFER"}
Statuses == {"NO_ERROR", "BUSY", "TIMEOUT", "ERROR"}

\* The channel is allocated with devm_kmalloc and its completions are not
\* initialized before the first transfer: any done count is possible.
Init == /\ users \in SUBSET Threads \ {{}}
        /\ stalls \in BOOLEAN /\ prepFails \in BOOLEAN
        /\ pc = [t \in Threads |-> "user"]
        /\ cmd = [t \in Threads |-> "XFER"]
        /\ local = [t \in Threads |-> CHOOSE b \in Buffers : TRUE]
        /\ timedOut = [t \in Threads |-> FALSE]
        /\ bdindex \in Buffers
        /\ cmp \in [Buffers -> {0, 1}]
        /\ cookie = [b \in Buffers |-> 0]
        /\ status = [b \in Buffers |-> "NO_ERROR"]
        /\ queue = <<>> /\ finished = <<>> /\ completed = 0
        /\ starts = 0 /\ started = {}
        /\ submitted = [b \in Buffers |-> FALSE]

Goto(t, label) == pc' = [pc EXCEPT ![t] = label]

\* The end of the start part of a command: XFER goes on to wait.
AfterStart(t) == Goto(t, IF cmd[t] = "XFER" THEN "wait" ELSE "user")

\* ioctl(): copy_from_user into the channel's bdindex.  User space finishes a
\* buffer it has started, and starts one it has not.
Ioctl(t, c, b) ==
  /\ pc[t] = "user"
  /\ IF c = "FINISH_XFER"
       THEN /\ b \in started
            /\ started' = started \ {b}
            /\ UNCHANGED <<starts, submitted>>
       ELSE /\ b \notin started /\ starts < MaxStarts
            /\ starts' = starts + 1
            /\ started' = IF c = "START_XFER" THEN started \cup {b} ELSE started
            /\ submitted' = [submitted EXCEPT ![b] = FALSE]
  /\ bdindex' = b
  /\ cmd' = [cmd EXCEPT ![t] = c]
  /\ Goto(t, IF c = "FINISH_XFER" THEN "wait" ELSE "start")
  /\ UNCHANGED <<local, timedOut, cmp, cookie, status, engineVars>>

\* Mutant: init_completion is missing.
StartPrepNoInit(t) ==
  /\ pc[t] = "start"
  /\ local' = [local EXCEPT ![t] = bdindex]
  /\ Goto(t, "submit")
  /\ UNCHANGED <<cmd, timedOut, tableVars, engineVars, historyVars>>

\* start_transfer() up to init_completion.  When no descriptor can be
\* prepared the function returns and the ioctl still returns 0.
StartPrep(t) ==
  /\ pc[t] = "start"
  /\ local' = [local EXCEPT ![t] = bdindex]
  /\ \/ cmp' = [cmp EXCEPT ![bdindex] = 0] /\ Goto(t, "submit")
     \/ prepFails /\ UNCHANGED cmp /\ AfterStart(t)
  /\ UNCHANGED <<cmd, timedOut, bdindex, cookie, status, engineVars,
                 historyVars>>

\* start_transfer(): dmaengine_submit and dma_async_issue_pending.
StartSubmit(t) ==
  /\ pc[t] = "submit"
  /\ LET next == completed + Len(queue) + 1
     IN  \/ /\ cookie' = [cookie EXCEPT ![local[t]] = next]
            /\ queue' = Append(queue, <<next, local[t]>>)
            /\ submitted' = [submitted EXCEPT ![local[t]] = TRUE]
         \/ /\ prepFails
            /\ cookie' = [cookie EXCEPT ![local[t]] = 0]
            /\ UNCHANGED <<queue, submitted>>
  /\ AfterStart(t)
  /\ UNCHANGED <<cmd, local, timedOut, bdindex, cmp, status, finished,
                 completed, starts, started>>

\* wait_for_transfer(): read bdindex again and mark the buffer busy.
WaitBegin(t) ==
  /\ pc[t] = "wait"
  /\ local' = [local EXCEPT ![t] = bdindex]
  /\ status' = [status EXCEPT ![bdindex] = "BUSY"]
  /\ Goto(t, "waiting")
  /\ UNCHANGED <<cmd, timedOut, bdindex, cmp, cookie, engineVars, historyVars>>

\* Mutant: the return value of wait_for_completion_timeout is always taken for
\* a completion.
WokenAlways(t) == pc[t] = "waiting"
Woken(t) == pc[t] = "waiting" /\ cmp[local[t]] > 0

WaitWoken(t) ==
  /\ Woken(t)
  /\ cmp' = [cmp EXCEPT ![local[t]] = @ - 1]
  /\ timedOut' = [timedOut EXCEPT ![t] = FALSE]
  /\ Goto(t, "check")
  /\ UNCHANGED <<cmd, local, bdindex, cookie, status, engineVars, historyVars>>

InFlight(b) == (\E i \in DOMAIN queue : queue[i][2] = b)
                 \/ (\E i \in DOMAIN finished : finished[i] = b)

\* Mutant: wait_for_completion, which has no timeout.
WaitForever(t) == pc[t] = "waiting" /\ cmp[local[t]] = 0 /\ UNCHANGED vars

\* 3000 ms have passed: always when nothing is under way that could complete
\* the buffer, otherwise only when the peer stalls.
WaitTimeout(t) ==
  /\ pc[t] = "waiting" /\ cmp[local[t]] = 0
  /\ stalls \/ ~InFlight(local[t])
  /\ timedOut' = [timedOut EXCEPT ![t] = TRUE]
  /\ Goto(t, "check")
  /\ UNCHANGED <<cmd, local, tableVars, engineVars, historyVars>>

\* Mutant: the cookie is not looked at.
OutcomeOfWait(t) == IF timedOut[t] THEN "TIMEOUT" ELSE "NO_ERROR"
\* wait_for_transfer(): dma_async_is_tx_complete and the status it leads to.
Outcome(t) == IF timedOut[t] THEN "TIMEOUT"
              ELSE IF cookie[local[t]] > completed THEN "ERROR" ELSE "NO_ERROR"

WaitCheck(t) ==
  /\ pc[t] = "check"
  /\ status' = [status EXCEPT ![local[t]] = Outcome(t)]
  /\ Goto(t, "user")
  /\ UNCHANGED <<cmd, local, timedOut, bdindex, cmp, cookie, engineVars,
                 historyVars>>

\* The engine's interrupt, then its tasklet with sync_callback().
EngineComplete ==
  /\ queue # <<>>
  /\ completed' = Head(queue)[1]
  /\ queue' = Tail(queue)
  /\ finished' = Append(finished, Head(queue)[2])
  /\ UNCHANGED <<threadVars, tableVars, historyVars>>

sync_callback ==
  /\ finished # <<>>
  /\ cmp' = [cmp EXCEPT ![Head(finished)] = @ + 1]
  /\ finished' = Tail(finished)
  /\ UNCHANGED <<threadVars, bdindex, cookie, status, queue, completed, historyVars>>

Handler(t) == StartPrep(t) \/ StartSubmit(t) \/ WaitBegin(t) \/ WaitWoken(t)
                \/ WaitTimeout(t) \/ WaitCheck(t)

Engine == EngineComplete \/ sync_callback

Next == /\ \/ \E t \in users : \/ \E c \in Commands, b \in Buffers : Ioctl(t, c, b)
                              \/ Handler(t)
           \/ Engine
        /\ UNCHANGED modeVars

\* The kernel runs the handler and its timer.  The engine makes progress only
\* if its peer does.
Fairness == /\ \A t \in Threads : WF_vars(Handler(t) /\ UNCHANGED modeVars)
            /\ WF_vars(~stalls /\ Engine /\ UNCHANGED modeVars)

Spec == Init /\ [][Next]_vars /\ Fairness

-----------------------------------------------------------------------------

\* Every variable has its type.
TypeOK == /\ users \subseteq Threads
          /\ stalls \in BOOLEAN /\ prepFails \in BOOLEAN
          /\ pc \in [Threads -> {"user", "start", "submit", "wait", "waiting",
                                 "check"}]
          /\ cmd \in [Threads -> Commands]
          /\ local \in [Threads -> Buffers]
          /\ timedOut \in [Threads -> BOOLEAN]
          /\ bdindex \in Buffers
          /\ cmp \in [Buffers -> Nat] /\ cookie \in [Buffers -> Nat]
          /\ status \in [Buffers -> Statuses]
          /\ queue \in Seq(Nat \X Buffers) /\ finished \in Seq(Buffers)
          /\ completed \in Nat
          /\ starts \in 0..MaxStarts /\ started \subseteq Buffers
          /\ submitted \in [Buffers -> BOOLEAN]

\* With one thread per channel, a peer that keeps up and an engine that takes
\* every transfer, no wait times out and none reports an error: no completion
\* is lost or left over for a later wait.
AlwaysSucceeds ==
  Alone /\ ~stalls /\ ~prepFails =>
    \A b \in Buffers : status[b] \in {"NO_ERROR", "BUSY"}

\* With one thread per channel, as the test application uses the driver, a
\* wait that reports PROXY_NO_ERROR after a start that submitted a transfer has
\* seen that transfer through, and all before it: a completion that arrives late,
\* after its own wait timed out and the buffer was started again, is not taken
\* for the new transfer's.  And with a peer that keeps up there was one, although
\* a start that fails is not reported; only buffers that have carried a transfer
\* before are considered, what a first failed start leaves uninitialized is set
\* aside.  After a start that failed, and with a peer that stalls, success may be
\* that of a transfer before it.
SuccessOf(b) == status[b] = "BUSY" /\ status'[b] = "NO_ERROR"
SuccessMeansTransferred ==
  [][\A b \in Buffers : Alone /\ SuccessOf(b) =>
       /\ submitted[b] => \A i \in DOMAIN queue : queue[i][2] # b
       /\ ~stalls /\ cookie[b] > 0 => submitted[b]]_vars

\* Every ioctl returns, even when the peer never sends: the wait is bounded.
IoctlReturns == \A t \in Threads : pc[t] # "user" ~> pc[t] = "user"
=============================================================================
