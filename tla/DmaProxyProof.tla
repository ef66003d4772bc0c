--------------------------- MODULE DmaProxyProof ---------------------------
(***************************************************************************)
(* Proofs about the proxy and its user.  Of DmaProxy, for every number of  *)
(* threads, buffers and starts: its variables stay in range, and a thread  *)
(* on its own that is told PROXY_NO_ERROR has had its transfer.  Of        *)
(* DmaProxyTest, for every number of receive buffers and transfers: its    *)
(* two threads keep in step, in the data and in the number of transfers.   *)
(***************************************************************************)
EXTENDS DmaProxy, DmaProxyTest, SequenceTheorems, TLAPS

\* The engine numbers transfers in the order it serves them.
QueueInOrder == \A i \in 1..Len(queue) : queue[i][1] = completed + i

\* A thread on its own finds bdindex as its ioctl wrote it, and the buffer it
\* is about to start not started.
SeesOwnIndex(t) ==
  /\ pc[t] \in {"submit", "waiting", "check"} => local[t] = bdindex
  /\ pc[t] \in {"start", "submit"} =>
       ~submitted[bdindex] /\ (cmd[t] = "XFER" <=> bdindex \notin started)
  /\ pc[t] \in {"wait", "waiting", "check"} => bdindex \notin started

\* The cookie of a buffer is that of its latest transfer.
LatestCookie ==
  \A b \in Buffers : submitted[b] =>
    \A i \in 1..Len(queue) : queue[i][2] = b => queue[i][1] <= cookie[b]

-----------------------------------------------------------------------------
(* With a peer that keeps up.                                              *)

InQueue(b) == \E i \in 1..Len(queue) : queue[i][2] = b
InFinished(b) == \E i \in 1..Len(finished) : finished[i] = b

\* A transfer was submitted that the thread has not waited for.
Owed(t, b) ==
  submitted[b] /\ (b \in started \/ (pc[t] \in {"wait", "waiting"} /\ b = bdindex))

\* Each buffer has at most one transfer under way, with its engine or its
\* callback.
OneEach ==
  /\ \A i, j \in 1..Len(queue) : queue[i][2] = queue[j][2] => i = j
  /\ \A i, j \in 1..Len(finished) : finished[i] = finished[j] => i = j
  /\ \A b \in Buffers : InQueue(b) => ~InFinished(b)
  /\ \A i \in 1..Len(queue) : cookie[queue[i][2]] = queue[i][1]

\* What is owed is under way or its completion is there, once.
Accounted(t, b) ==
  /\ InQueue(b) \/ InFinished(b) => Owed(t, b) /\ cmp[b] = 0
  /\ Owed(t, b) /\ ~InQueue(b) /\ ~InFinished(b) => cmp[b] = 1
  /\ Owed(t, b) /\ ~InQueue(b) => cookie[b] <= completed
  /\ ~Owed(t, b) /\ (cookie[b] > 0 \/ (pc[t] = "submit" /\ b = bdindex)) => cmp[b] = 0

WokenByOwn(t) ==
  pc[t] = "check" /\ ~timedOut[t] /\ cookie[bdindex] > 0 => submitted[bdindex]

Prompt(t) == OneEach /\ (\A b \in Buffers : Accounted(t, b)) /\ WokenByOwn(t)

\* And with an engine that takes every transfer.
NothingFails(t) ==
  /\ pc[t] \in {"wait", "waiting", "check"} => submitted[bdindex]
  /\ pc[t] = "check" => ~timedOut[t] /\ cookie[bdindex] <= completed
  /\ \A b \in started :
       submitted[b] \/ (pc[t] \in {"start", "submit"} /\ b = bdindex)
  /\ \A b \in Buffers : status[b] \in {"NO_ERROR", "BUSY"}

LoneUser(t) == /\ SeesOwnIndex(t) /\ LatestCookie
               /\ ~stalls => Prompt(t)
               /\ ~stalls /\ ~prepFails => NothingFails(t)

Inv == /\ TypeOK /\ QueueInOrder
       /\ \A t \in Threads : users = {t} => LoneUser(t)

-----------------------------------------------------------------------------
Labels == {"user", "start", "submit", "wait", "waiting", "check"}
Handled(t) == (\E c \in Commands, b \in Buffers : Ioctl(t, c, b)) \/ Handler(t)

\* What the head and the tail of the queue of transfers are.
LEMMA QueueTail ==
  ASSUME TypeOK, queue # <<>>
  PROVE  /\ Head(queue) = queue[1] /\ Head(queue) \in Nat \X Buffers
         /\ Tail(queue) \in Seq(Nat \X Buffers)
         /\ Len(queue) \in Nat \ {0} /\ Len(Tail(queue)) = Len(queue) - 1
         /\ \A i \in 1..Len(queue) - 1 : Tail(queue)[i] = queue[i + 1]
<1>1. queue \in Seq(Nat \X Buffers)
  BY DEF TypeOK
<1> QED
  BY <1>1, HeadTailProperties, EmptySeq

\* The same of the callbacks due.
LEMMA FinishedTail ==
  ASSUME TypeOK, finished # <<>>
  PROVE  /\ Head(finished) = finished[1] /\ Head(finished) \in Buffers
         /\ Tail(finished) \in Seq(Buffers)
         /\ Len(finished) \in Nat \ {0} /\ Len(Tail(finished)) = Len(finished) - 1
         /\ \A i \in 1..Len(finished) - 1 : Tail(finished)[i] = finished[i + 1]
<1>1. finished \in Seq(Buffers)
  BY DEF TypeOK
<1> QED
  BY <1>1, HeadTailProperties, EmptySeq

-----------------------------------------------------------------------------
\* create_channel leaves the channel in range, whatever memory it was given.
LEMMA InitTypeOK == Init => TypeOK
<1> SUFFICES ASSUME Init PROVE TypeOK
  OBVIOUS
<1>1. (CHOOSE b \in Buffers : TRUE) \in Buffers
  BY DmaProxyAssumption
<1>2. starts \in 0..MaxStarts
  BY DmaProxyAssumption DEF Init, MaxStarts
<1>3. queue \in Seq(Nat \X Buffers) /\ finished \in Seq(Buffers)
  BY EmptySeq DEF Init
<1> QED
  BY <1>1, <1>2, <1>3 DEF Init, TypeOK, Commands, Statuses

\* Every variable of the channel has its type, whatever threads and buffers
\* share it (struct dma_proxy_channel, dma-proxy.c).
THEOREM TypeCorrect == Spec => []TypeOK
<1>1. Init => TypeOK
  BY InitTypeOK
<1>2. TypeOK /\ [Next]_vars => TypeOK'
  <2> SUFFICES ASSUME TypeOK, [Next]_vars PROVE TypeOK'
    OBVIOUS
  <2>0. MaxStarts \in Nat
    BY DmaProxyAssumption DEF MaxStarts
  <2>1. CASE UNCHANGED vars
    BY <2>1 DEF TypeOK, vars, modeVars, threadVars, tableVars, engineVars,
                historyVars, MaxStarts, Alone
  <2>2. ASSUME UNCHANGED modeVars, NEW t \in users, Handled(t) PROVE TypeOK'
    <3>0. t \in Threads /\ MaxStarts' = MaxStarts
      BY <2>2 DEF TypeOK, modeVars, MaxStarts, Alone
    <3> USE <2>0, <2>2, <3>0 DEF TypeOK, modeVars, threadVars, tableVars, engineVars,
                           historyVars, Goto, AfterStart, Labels, Commands, Statuses
    <3>1. ASSUME NEW c \in Commands, NEW b \in Buffers, Ioctl(t, c, b)
          PROVE  TypeOK'
      <4>1. CASE c = "FINISH_XFER"
        BY <3>1, <4>1 DEF Ioctl
      <4>2. CASE c # "FINISH_XFER"
        <5>0. /\ starts < MaxStarts /\ starts' = starts + 1
              /\ started' \in {started, started \cup {b}}
              /\ submitted' = [submitted EXCEPT ![b] = FALSE]
          BY <3>1, <4>2, Zenon DEF Ioctl
        <5>1. /\ starts' \in 0..MaxStarts /\ started' \subseteq Buffers
              /\ submitted' \in [Buffers -> BOOLEAN]
          BY <5>0
        <5>2. /\ pc' \in [Threads -> Labels] /\ cmd' \in [Threads -> Commands]
              /\ bdindex' \in Buffers
          BY <3>1, <4>2 DEF Ioctl
        <5> QED
          BY <3>1, <5>1, <5>2 DEF Ioctl
      <4> QED
        BY <4>1, <4>2
    <3>2. CASE StartPrep(t)
      <4>1. cmp' \in [Buffers -> Nat] /\ pc' \in [Threads -> Labels]
        <5>1. CASE cmp' = [cmp EXCEPT ![bdindex] = 0] /\ Goto(t, "submit")
          BY <5>1
        <5>2. CASE UNCHANGED cmp /\ AfterStart(t)
          BY <5>2
        <5> QED
          BY <3>2, <5>1, <5>2, Zenon DEF StartPrep
      <4> QED
        BY <3>2, <4>1 DEF StartPrep
    <3>3. CASE StartSubmit(t)
      <4> DEFINE next == completed + Len(queue) + 1
      <4>1. next \in Nat /\ local[t] \in Buffers
        BY LenProperties
      <4> HIDE DEF next
      <4>2. Append(queue, <<next, local[t]>>) \in Seq(Nat \X Buffers)
        BY <4>1, AppendProperties
      <4>3. queue' \in Seq(Nat \X Buffers) /\ cookie' \in [Buffers -> Nat]
            /\ submitted' \in [Buffers -> BOOLEAN]
        <5>1. CASE /\ cookie' = [cookie EXCEPT ![local[t]] = next]
                   /\ queue' = Append(queue, <<next, local[t]>>)
                   /\ submitted' = [submitted EXCEPT ![local[t]] = TRUE]
          BY <4>1, <4>2, <5>1
        <5>2. CASE /\ cookie' = [cookie EXCEPT ![local[t]] = 0]
                   /\ UNCHANGED <<queue, submitted>>
          BY <4>1, <5>2
        <5> QED
          BY <3>3, <5>1, <5>2, Zenon DEF StartSubmit, next
      <4> QED
        BY <3>3, <4>3 DEF StartSubmit
    <3>4. CASE WaitBegin(t)
      BY <3>4 DEF WaitBegin
    <3>5. CASE WaitWoken(t)
      BY <3>5 DEF WaitWoken, Woken
    <3>6. CASE WaitTimeout(t)
      BY <3>6 DEF WaitTimeout
    <3>7. CASE WaitCheck(t)
      BY <3>7 DEF WaitCheck, Outcome
    <3> QED
      BY <2>2, <3>1, <3>2, <3>3, <3>4, <3>5, <3>6, <3>7 DEF Handled, Handler
  <2>3. ASSUME UNCHANGED modeVars, Engine PROVE TypeOK'
    <3>0. MaxStarts' = MaxStarts
      BY <2>3 DEF modeVars, MaxStarts, Alone
    <3> USE <2>0, <2>3, <3>0 DEF TypeOK, modeVars, threadVars, tableVars, engineVars,
                           historyVars
    <3>1. CASE EngineComplete
      <4>1. queue' \in Seq(Nat \X Buffers) /\ completed' \in Nat
            /\ Head(queue)[2] \in Buffers
        BY <3>1, QueueTail DEF EngineComplete
      <4>2. finished' \in Seq(Buffers)
        BY <3>1, <4>1, AppendProperties DEF EngineComplete
      <4> QED
        BY <3>1, <4>1, <4>2 DEF EngineComplete
    <3>2. CASE sync_callback
      <4>1. finished' \in Seq(Buffers) /\ Head(finished) \in Buffers
        BY <3>2, FinishedTail DEF sync_callback
      <4> QED
        BY <3>2, <4>1 DEF sync_callback
    <3> QED
      BY <3>1, <3>2 DEF Engine
  <2> QED
    BY <2>1, <2>2, <2>3 DEF Next, Handled
<1> QED
  BY <1>1, <1>2, PTL DEF Spec
-----------------------------------------------------------------------------
\* Submission appends the next number, completion takes the first.
LEMMA OrderStep == ASSUME TypeOK, QueueInOrder, [Next]_vars PROVE QueueInOrder'
<1> USE DEF QueueInOrder
<1>0. queue \in Seq(Nat \X Buffers) /\ completed \in Nat /\ Len(queue) \in Nat
  BY LenProperties DEF TypeOK
<1>1. ASSUME NEW t \in users, StartSubmit(t), queue' # queue PROVE QueueInOrder'
  <2> DEFINE entry == <<completed + Len(queue) + 1, local[t]>>
  <2>1. queue' = Append(queue, entry) /\ completed' = completed
    BY <1>1 DEF StartSubmit
  <2>2. entry \in Nat \X Buffers /\ entry[1] = completed + Len(queue) + 1
    BY <1>0 DEF TypeOK
  <2> HIDE DEF entry
  <2>3. /\ Len(queue') = Len(queue) + 1 /\ queue'[Len(queue) + 1] = entry
        /\ \A i \in 1..Len(queue) : queue'[i] = queue[i]
    BY <1>0, <2>1, <2>2, AppendProperties
  <2>4. \A i \in 1..Len(queue') : i \in 1..Len(queue) \/ i = Len(queue) + 1
    BY <1>0, <2>3
  <2>5. ASSUME NEW i \in 1..Len(queue') PROVE queue'[i][1] = completed + i
    <3>1. CASE i \in 1..Len(queue)
      BY <2>3, <3>1
    <3>2. CASE i = Len(queue) + 1
      BY <1>0, <2>2, <2>3, <3>2
    <3> QED
      BY <2>4, <3>1, <3>2
  <2> QED
    BY <2>1, <2>5
<1>2. CASE EngineComplete
  <2>1. /\ completed' = completed + 1 /\ queue' = Tail(queue)
        /\ Len(queue) \in Nat \ {0}
    BY <1>0, <1>2, QueueTail DEF EngineComplete
  <2>2. /\ Len(queue') = Len(queue) - 1
        /\ \A i \in 1..Len(queue) - 1 : queue'[i] = queue[i + 1]
    BY <1>2, <2>1, QueueTail DEF EngineComplete
  <2>3. ASSUME NEW i \in 1..Len(queue') PROVE queue'[i][1] = completed' + i
    <3>1. i \in 1..Len(queue) - 1 /\ i + 1 \in 1..Len(queue) /\ i \in Nat
      BY <2>1, <2>2
    <3>2. queue'[i][1] = completed + (i + 1)
      BY <2>2, <3>1
    <3> QED
      BY <1>0, <2>1, <3>1, <3>2
  <2> QED
    BY <2>3
<1>3. CASE UNCHANGED <<queue, completed>>
  BY <1>3
<1> QED
  BY <1>1, <1>2, <1>3 DEF Next, vars, Handler, Engine, Ioctl, StartPrep,
     StartSubmit, WaitBegin, WaitWoken, WaitTimeout, WaitCheck, sync_callback,
     engineVars

\* The ioctl of a thread on its own.
LEMMA IoctlStep ==
  ASSUME TypeOK, NEW t \in Threads, users = {t}, LoneUser(t), UNCHANGED modeVars,
         NEW c \in Commands, NEW b \in Buffers, Ioctl(t, c, b)
  PROVE  LoneUser(t)'
<1> USE DEF Ioctl, engineVars, modeVars, Goto
<1>0. /\ pc[t] = "user" /\ bdindex' = b /\ pc'[t] \in {"start", "wait"}
      /\ queue' = queue /\ finished' = finished /\ completed' = completed
      /\ cookie' = cookie /\ cmp' = cmp /\ status' = status
      /\ c = "FINISH_XFER" <=> pc'[t] = "wait"
      /\ cmd'[t] = c
  BY DEF TypeOK
<1>1. /\ c = "FINISH_XFER" => /\ submitted' = submitted
                              /\ b \in started /\ started' = started \ {b}
      /\ c # "FINISH_XFER" => /\ submitted' = [submitted EXCEPT ![b] = FALSE]
                              /\ b \notin started
      /\ c = "START_XFER" => started' = started \cup {b}
      /\ c = "XFER" => started' = started
  OBVIOUS
<1>2. SeesOwnIndex(t)'
  BY <1>0, <1>1 DEF SeesOwnIndex, TypeOK, Commands
<1>3. LatestCookie'
  BY <1>0, <1>1 DEF LatestCookie, LoneUser, TypeOK
<1>4. ASSUME Prompt(t) PROVE Prompt(t)'
  <2>1. OneEach'
    BY <1>0, <1>4 DEF OneEach, Prompt, InQueue, InFinished
  <2>2. ASSUME NEW d \in Buffers PROVE Accounted(t, d)'
    <3>1. Owed(t, d)' <=> Owed(t, d)
      BY <1>0, <1>1 DEF Owed, TypeOK, Commands
    <3>2. Accounted(t, d)
      BY <1>4 DEF Prompt
    <3> QED
      BY <1>0, <3>1, <3>2 DEF Accounted, InQueue, InFinished
  <2> QED
    BY <1>0, <2>1, <2>2 DEF Prompt, WokenByOwn
<1>5. ASSUME NothingFails(t) PROVE NothingFails(t)'
  BY <1>0, <1>1, <1>5 DEF NothingFails, TypeOK, Commands
<1> QED
  BY <1>2, <1>3, <1>4, <1>5, Zenon DEF LoneUser

\* Preparing the descriptor, or failing to.
LEMMA StartPrepStep ==
  ASSUME TypeOK, NEW t \in Threads, users = {t}, LoneUser(t), UNCHANGED modeVars,
         StartPrep(t)
  PROVE  LoneUser(t)'
<1> USE DEF StartPrep, engineVars, historyVars, modeVars, Goto, AfterStart
<1>0. /\ pc[t] = "start" /\ bdindex' = bdindex /\ local'[t] = bdindex
      /\ queue' = queue /\ finished' = finished /\ completed' = completed
      /\ cookie' = cookie /\ status' = status /\ cmd' = cmd
      /\ started' = started /\ submitted' = submitted
  BY DEF TypeOK
<1>1. \/ cmp' = [cmp EXCEPT ![bdindex] = 0] /\ pc'[t] = "submit"
      \/ /\ prepFails /\ cmp' = cmp
         /\ pc'[t] = IF cmd[t] = "XFER" THEN "wait" ELSE "user"
  BY DEF TypeOK
<1>2. SeesOwnIndex(t) /\ LatestCookie /\ (~stalls => Prompt(t))
      /\ (~stalls /\ ~prepFails => NothingFails(t))
  BY DEF LoneUser
<1>3. SeesOwnIndex(t)'
  BY <1>0, <1>1, <1>2 DEF SeesOwnIndex
<1>4. LatestCookie'
  BY <1>0, <1>2 DEF LatestCookie
<1>5. ASSUME Prompt(t) PROVE Prompt(t)'
  <2>1. OneEach'
    BY <1>0, <1>5 DEF OneEach, Prompt, InQueue, InFinished
  <2>2. ASSUME NEW d \in Buffers PROVE Accounted(t, d)'
    <3>1. Owed(t, d)' <=> Owed(t, d)
      BY <1>0, <1>1, <1>2 DEF Owed, SeesOwnIndex
    <3>2. Accounted(t, d) /\ (d = bdindex => ~Owed(t, d))
      BY <1>0, <1>2, <1>5 DEF Prompt, Owed, SeesOwnIndex
    <3>3. cmp'[d] = cmp[d] \/ (d = bdindex /\ cmp'[d] = 0)
      BY <1>1 DEF TypeOK
    <3>4. InQueue(d)' <=> InQueue(d)
      BY <1>0 DEF InQueue
    <3>5. InFinished(d)' <=> InFinished(d)
      BY <1>0 DEF InFinished
    <3> QED
      BY <1>0, <1>1, <3>1, <3>2, <3>3, <3>4, <3>5 DEF Accounted, TypeOK
  <2> QED
    BY <1>0, <1>1, <2>1, <2>2 DEF Prompt, WokenByOwn
<1>6. ASSUME ~prepFails, NothingFails(t) PROVE NothingFails(t)'
  BY <1>0, <1>1, <1>6 DEF NothingFails
<1> QED
  BY <1>2, <1>3, <1>4, <1>5, <1>6, Zenon DEF LoneUser

\* Submitting the transfer, or failing to: what is submitted for the buffer is the
\* last entry of the queue, and the only one with a peer that keeps up.
LEMMA StartSubmitStep ==
  ASSUME TypeOK, QueueInOrder, NEW t \in Threads, users = {t}, LoneUser(t),
         UNCHANGED modeVars, StartSubmit(t)
  PROVE  LoneUser(t)'
<1> USE DEF StartSubmit, modeVars, Goto, AfterStart
<1> DEFINE next == completed + Len(queue) + 1
<1>0. /\ pc[t] = "submit" /\ bdindex' = bdindex /\ local[t] = bdindex
      /\ finished' = finished /\ completed' = completed /\ local' = local
      /\ cmp' = cmp /\ status' = status /\ cmd' = cmd /\ started' = started
      /\ pc'[t] = IF cmd[t] = "XFER" THEN "wait" ELSE "user"
  BY DEF TypeOK, LoneUser, SeesOwnIndex
<1>1. SeesOwnIndex(t) /\ LatestCookie /\ (~stalls => Prompt(t))
      /\ (~stalls /\ ~prepFails => NothingFails(t))
  BY DEF LoneUser
<1>2. queue \in Seq(Nat \X Buffers) /\ Len(queue) \in Nat /\ next \in Nat \ {0}
      /\ bdindex \in Buffers /\ completed \in Nat
  BY LenProperties DEF TypeOK
<1>3. SeesOwnIndex(t)'
  BY <1>0, <1>1 DEF SeesOwnIndex
<1>4. ~submitted[bdindex]
  BY <1>0, <1>1 DEF SeesOwnIndex
<1>5. ASSUME /\ cookie' = [cookie EXCEPT ![local[t]] = next]
             /\ queue' = Append(queue, <<next, local[t]>>)
             /\ submitted' = [submitted EXCEPT ![local[t]] = TRUE]
      PROVE  LoneUser(t)'
  <2> DEFINE entry == <<next, bdindex>>
  <2>1. /\ cookie'[bdindex] = next /\ submitted'[bdindex]
        /\ \A b \in Buffers \ {bdindex} : cookie'[b] = cookie[b]
                                          /\ (submitted'[b] <=> submitted[b])
    BY <1>0, <1>5 DEF TypeOK
  <2>2. entry \in Nat \X Buffers /\ entry[1] = next /\ entry[2] = bdindex
    BY <1>2
  <2> HIDE DEF entry
  <2>3. /\ Len(queue') = Len(queue) + 1 /\ queue'[Len(queue) + 1] = entry
        /\ \A i \in 1..Len(queue) : queue'[i] = queue[i]
    BY <1>0, <1>2, <1>5, <2>2, AppendProperties DEF entry
  <2>4. \A i \in 1..Len(queue') : i \in 1..Len(queue) \/ i = Len(queue) + 1
    BY <1>2, <2>3
  <2>5. \A i \in 1..Len(queue) : queue[i][1] < next /\ queue[i][2] \in Buffers
    BY <1>2 DEF QueueInOrder
  <2>6. LatestCookie'
    <3> SUFFICES ASSUME NEW b \in Buffers, submitted'[b],
                        NEW i \in 1..Len(queue'), queue'[i][2] = b
                 PROVE  queue'[i][1] <= cookie'[b]
      BY DEF LatestCookie
    <3>1. CASE i = Len(queue) + 1
      <4>1. queue'[i] = entry
        BY <2>3, <3>1
      <4>2. b = bdindex /\ queue'[i][1] = next
        BY <2>2, <4>1
      <4> QED
        BY <1>2, <2>1, <4>2
    <3>2. CASE i \in 1..Len(queue)
      <4>1. queue'[i] = queue[i]
        BY <2>3, <3>2
      <4>2. CASE b = bdindex
        <5>1. queue[i][1] < next /\ cookie'[b] = next
          BY <2>1, <2>5, <3>2, <4>2
        <5>2. queue[i][1] \in Nat
          BY <1>2, <3>2
        <5> QED
          BY <1>2, <4>1, <5>1, <5>2
      <4>3. CASE b # bdindex
        <5>1. submitted[b] /\ cookie'[b] = cookie[b]
          BY <2>1, <4>3
        <5>2. queue[i][1] <= cookie[b]
          BY <1>1, <3>2, <4>1, <5>1 DEF LatestCookie
        <5> QED
          BY <4>1, <5>1, <5>2
      <4> QED
        BY <4>2, <4>3
    <3> QED
      BY <2>4, <3>1, <3>2
  <2> HIDE DEF next
  <2>7. ASSUME Prompt(t) PROVE Prompt(t)'
    <3>1. ~Owed(t, bdindex) /\ ~InQueue(bdindex) /\ ~InFinished(bdindex)
          /\ cmp[bdindex] = 0
      BY <1>0, <1>2, <1>4, <2>7 DEF Prompt, Accounted, Owed
    <3>2. InQueue(bdindex)'
      BY <1>2, <2>2, <2>3 DEF InQueue
    <3>3. \A b \in Buffers \ {bdindex} : InQueue(b)' <=> InQueue(b)
      <4>1. \A i \in 1..Len(queue) : i \in 1..Len(queue') /\ queue'[i][2] = queue[i][2]
        BY <1>2, <2>3
      <4>2. queue'[Len(queue) + 1][2] = bdindex
        BY <2>2, <2>3
      <4>3. \A b : b # bdindex =>
              \A i \in 1..Len(queue') : queue'[i][2] = b => i \in 1..Len(queue)
        BY <2>4, <4>2
      <4> QED
        BY <4>1, <4>3 DEF InQueue
    <3>4. \A b : InFinished(b)' <=> InFinished(b)
      BY <1>0 DEF InFinished
    <3>5. Owed(t, bdindex)'
      BY <1>0, <1>1, <2>1 DEF Owed, SeesOwnIndex
    <3>6. \A b \in Buffers \ {bdindex} : Owed(t, b)' <=> Owed(t, b)
      BY <1>0, <2>1 DEF Owed
    <3>7. OneEach'
      <4>1. OneEach
        BY <2>7 DEF Prompt
      <4>2. \A i, j \in 1..Len(queue') : queue'[i][2] = queue'[j][2] => i = j
        BY <2>2, <2>3, <2>4, <3>1, <4>1 DEF OneEach, InQueue
      <4>3. \A i \in 1..Len(queue') : cookie'[queue'[i][2]] = queue'[i][1]
        BY <2>1, <2>2, <2>3, <2>4, <2>5, <3>1, <4>1 DEF OneEach, InQueue
      <4>4. \A b \in Buffers : InQueue(b)' => ~InFinished(b)'
        BY <3>1, <3>3, <3>4, <4>1 DEF OneEach
      <4> QED
        BY <1>0, <4>1, <4>2, <4>3, <4>4 DEF OneEach
    <3>8. ASSUME NEW b \in Buffers PROVE Accounted(t, b)'
      <4>1. CASE b = bdindex
        BY <1>0, <3>1, <3>2, <3>5, <4>1 DEF Accounted
      <4>2. CASE b # bdindex
        BY <1>0, <2>1, <2>7, <3>3, <3>4, <3>6, <4>2 DEF Accounted, Prompt
      <4> QED
        BY <4>1, <4>2
    <3> QED
      BY <1>0, <3>7, <3>8 DEF Prompt, WokenByOwn
  <2>8. ASSUME NothingFails(t) PROVE NothingFails(t)'
    <3>1. \A b \in started : submitted'[b]
      BY <1>0, <2>1, <2>8 DEF NothingFails, TypeOK
    <3> QED
      BY <1>0, <2>1, <2>8, <3>1 DEF NothingFails
  <2> QED
    BY <1>1, <1>3, <2>6, <2>7, <2>8, Zenon DEF LoneUser
<1>6. ASSUME prepFails, cookie' = [cookie EXCEPT ![local[t]] = 0],
             UNCHANGED <<queue, submitted>>
      PROVE  LoneUser(t)'
  <2>1. /\ cookie'[bdindex] = 0 /\ submitted' = submitted /\ queue' = queue
        /\ \A b \in Buffers \ {bdindex} : cookie'[b] = cookie[b]
    BY <1>0, <1>6 DEF TypeOK
  <2>2. LatestCookie'
    BY <1>1, <1>4, <2>1 DEF LatestCookie
  <2>3. ASSUME Prompt(t) PROVE Prompt(t)'
    <3>1. ~Owed(t, bdindex) /\ ~InQueue(bdindex) /\ ~InFinished(bdindex)
      BY <1>0, <1>2, <1>4, <2>3 DEF Prompt, Accounted, Owed
    <3>2. OneEach'
      <4>1. \A i \in 1..Len(queue) : queue[i][2] \in Buffers \ {bdindex}
        BY <1>2, <3>1 DEF InQueue
      <4> QED
        BY <1>0, <2>1, <2>3, <4>1 DEF OneEach, Prompt, InQueue, InFinished
    <3>3. ASSUME NEW b \in Buffers PROVE Accounted(t, b)'
      <4>1. Owed(t, b)' <=> Owed(t, b)
        BY <1>0, <1>4, <2>1 DEF Owed
      <4>2. Accounted(t, b) /\ (InQueue(b)' <=> InQueue(b))
            /\ (InFinished(b)' <=> InFinished(b))
        BY <1>0, <2>1, <2>3 DEF Prompt, InQueue, InFinished
      <4> QED
        BY <1>0, <2>1, <3>1, <4>1, <4>2 DEF Accounted
    <3> QED
      BY <1>0, <3>2, <3>3 DEF Prompt, WokenByOwn
  <2> QED
    BY <1>1, <1>3, <1>6, <2>2, <2>3, Zenon DEF LoneUser
<1> QED
  BY <1>5, <1>6, Zenon DEF StartSubmit

\* Beginning to wait: bdindex is read again and is still the one.
LEMMA WaitBeginStep ==
  ASSUME TypeOK, NEW t \in Threads, users = {t}, LoneUser(t), UNCHANGED modeVars,
         WaitBegin(t)
  PROVE  LoneUser(t)'
<1> USE DEF WaitBegin, engineVars, historyVars, modeVars, Goto
<1>0. /\ pc[t] = "wait" /\ pc'[t] = "waiting" /\ local'[t] = bdindex
      /\ bdindex' = bdindex /\ queue' = queue /\ finished' = finished
      /\ completed' = completed /\ cookie' = cookie /\ cmp' = cmp
      /\ started' = started /\ submitted' = submitted
      /\ \A b \in Buffers : status'[b] \in {status[b], "BUSY"}
  BY DEF TypeOK
<1>1. SeesOwnIndex(t)'
  BY <1>0 DEF SeesOwnIndex, LoneUser
<1>2. LatestCookie'
  BY <1>0 DEF LatestCookie, LoneUser
<1>3. ASSUME Prompt(t) PROVE Prompt(t)'
  <2>1. OneEach'
    BY <1>0, <1>3 DEF OneEach, Prompt, InQueue, InFinished
  <2>2. ASSUME NEW b \in Buffers PROVE Accounted(t, b)'
    BY <1>0, <1>3 DEF Prompt, Accounted, Owed, InQueue, InFinished
  <2> QED
    BY <1>0, <2>1, <2>2 DEF Prompt, WokenByOwn
<1>4. ASSUME NothingFails(t) PROVE NothingFails(t)'
  BY <1>0, <1>4 DEF NothingFails
<1> QED
  BY <1>1, <1>2, <1>3, <1>4, Zenon DEF LoneUser

\* A wait that is woken takes the one completion there is, its own.
LEMMA WaitWokenStep ==
  ASSUME TypeOK, NEW t \in Threads, users = {t}, LoneUser(t), UNCHANGED modeVars,
         WaitWoken(t)
  PROVE  LoneUser(t)'
<1> USE DEF WaitWoken, Woken, engineVars, historyVars, modeVars, Goto
<1>0. /\ pc[t] = "waiting" /\ pc'[t] = "check" /\ local' = local /\ local[t] = bdindex
      /\ bdindex' = bdindex /\ queue' = queue /\ finished' = finished
      /\ completed' = completed /\ cookie' = cookie /\ status' = status
      /\ started' = started /\ submitted' = submitted /\ ~timedOut'[t]
      /\ cmp[bdindex] > 0 /\ cmp'[bdindex] = cmp[bdindex] - 1
      /\ \A b \in Buffers \ {bdindex} : cmp'[b] = cmp[b]
  BY DEF TypeOK, LoneUser, SeesOwnIndex
<1>1. bdindex \in Buffers /\ bdindex \notin started
  BY <1>0 DEF TypeOK, LoneUser, SeesOwnIndex
<1>2. SeesOwnIndex(t)'
  BY <1>0, <1>1 DEF SeesOwnIndex, LoneUser
<1>3. LatestCookie'
  BY <1>0 DEF LatestCookie, LoneUser
<1>4. ASSUME Prompt(t)
      PROVE  Prompt(t)' /\ (submitted[bdindex] => cookie[bdindex] <= completed)
  <2>0. /\ Accounted(t, bdindex)
        /\ \A b : (InQueue(b)' <=> InQueue(b)) /\ (InFinished(b)' <=> InFinished(b))
    BY <1>0, <1>1, <1>4 DEF Prompt, InQueue, InFinished
  <2>1. OneEach'
    BY <1>0, <1>4 DEF OneEach, Prompt, InQueue, InFinished
  <2>2. ~InQueue(bdindex) /\ ~InFinished(bdindex)
    BY <1>0, <2>0 DEF Accounted
  <2>3. /\ Owed(t, bdindex) <=> submitted[bdindex]
        /\ ~Owed(t, bdindex)'
        /\ \A b \in Buffers \ {bdindex} : Owed(t, b)' <=> Owed(t, b)
    BY <1>0, <1>1 DEF Owed
  <2>4. /\ cookie[bdindex] > 0 => submitted[bdindex]
        /\ submitted[bdindex] => cmp[bdindex] = 1 /\ cookie[bdindex] <= completed
    BY <1>0, <2>0, <2>2, <2>3 DEF Accounted
  <2>5. ASSUME NEW b \in Buffers PROVE Accounted(t, b)'
    <3>1. CASE b = bdindex
      BY <1>0, <2>0, <2>2, <2>3, <2>4, <3>1 DEF Accounted
    <3>2. CASE b # bdindex
      BY <1>0, <1>4, <2>0, <2>3, <3>2 DEF Accounted, Prompt
    <3> QED
      BY <3>1, <3>2
  <2> QED
    BY <1>0, <2>1, <2>4, <2>5 DEF Prompt, WokenByOwn
<1>5. ASSUME Prompt(t), NothingFails(t) PROVE NothingFails(t)'
  <2>1. submitted[bdindex] /\ cookie[bdindex] <= completed
    BY <1>0, <1>4, <1>5 DEF NothingFails
  <2> QED
    BY <1>0, <1>5, <2>1 DEF NothingFails
<1> QED
  BY <1>2, <1>3, <1>4, <1>5, Zenon DEF LoneUser

\* A wait times out with a peer that keeps up only if nothing is owed.
LEMMA WaitTimeoutStep ==
  ASSUME TypeOK, NEW t \in Threads, users = {t}, LoneUser(t), UNCHANGED modeVars,
         WaitTimeout(t)
  PROVE  LoneUser(t)'
<1> USE DEF WaitTimeout, tableVars, engineVars, historyVars, modeVars, Goto
<1>0. /\ pc[t] = "waiting" /\ pc'[t] = "check" /\ local' = local /\ local[t] = bdindex
      /\ bdindex' = bdindex /\ queue' = queue /\ finished' = finished
      /\ completed' = completed /\ cookie' = cookie /\ status' = status
      /\ started' = started /\ submitted' = submitted /\ timedOut'[t]
      /\ cmp' = cmp /\ cmp[bdindex] = 0
  BY DEF TypeOK, LoneUser, SeesOwnIndex
<1>1. bdindex \in Buffers /\ bdindex \notin started
  BY <1>0 DEF TypeOK, LoneUser, SeesOwnIndex
<1>2. SeesOwnIndex(t)'
  BY <1>0, <1>1 DEF SeesOwnIndex, LoneUser
<1>3. LatestCookie'
  BY <1>0 DEF LatestCookie, LoneUser
<1>4. ASSUME ~stalls, Prompt(t) PROVE Prompt(t)' /\ ~submitted[bdindex]
  <2>0. /\ Accounted(t, bdindex)
        /\ \A b : (InQueue(b)' <=> InQueue(b)) /\ (InFinished(b)' <=> InFinished(b))
    BY <1>0, <1>1, <1>4 DEF Prompt, InQueue, InFinished
  <2>1. OneEach'
    BY <1>0, <1>4 DEF OneEach, Prompt, InQueue, InFinished
  <2>2. ~InQueue(bdindex) /\ ~InFinished(bdindex)
    <3>1. DOMAIN queue = 1..Len(queue) /\ DOMAIN finished = 1..Len(finished)
      BY LenProperties DEF TypeOK
    <3> QED
      BY <1>0, <1>4, <3>1 DEF InFlight, InQueue, InFinished
  <2>3. ~submitted[bdindex]
    BY <1>0, <2>0, <2>2 DEF Accounted, Owed
  <2>4. \A b \in Buffers : Owed(t, b)' <=> Owed(t, b)
    BY <1>0, <2>3 DEF Owed
  <2>5. ASSUME NEW b \in Buffers PROVE Accounted(t, b)'
    BY <1>0, <1>4, <2>0, <2>4 DEF Accounted, Prompt
  <2> QED
    BY <1>0, <2>1, <2>3, <2>5 DEF Prompt, WokenByOwn
<1>5. ASSUME ~submitted[bdindex] PROVE ~NothingFails(t)
  BY <1>0, <1>5 DEF NothingFails
<1> QED
  BY <1>2, <1>3, <1>4, <1>5, Zenon DEF LoneUser

\* The end of a wait changes the status alone.
LEMMA WaitCheckStep ==
  ASSUME TypeOK, NEW t \in Threads, users = {t}, LoneUser(t), UNCHANGED modeVars,
         WaitCheck(t)
  PROVE  LoneUser(t)'
<1> USE DEF WaitCheck, engineVars, historyVars, modeVars, Goto
<1>0. /\ pc[t] = "check" /\ pc'[t] = "user" /\ local' = local /\ local[t] = bdindex
      /\ bdindex' = bdindex /\ queue' = queue /\ finished' = finished
      /\ completed' = completed /\ cookie' = cookie /\ cmp' = cmp
      /\ started' = started /\ submitted' = submitted
      /\ \A b \in Buffers : status'[b] = IF b = bdindex THEN Outcome(t) ELSE status[b]
  BY DEF TypeOK, LoneUser, SeesOwnIndex
<1>1. bdindex \in Buffers /\ completed \in Nat /\ cookie[bdindex] \in Nat
  BY DEF TypeOK
<1>2. SeesOwnIndex(t)'
  BY <1>0 DEF SeesOwnIndex, LoneUser
<1>3. LatestCookie'
  BY <1>0 DEF LatestCookie, LoneUser
<1>4. ASSUME Prompt(t) PROVE Prompt(t)'
  <2>1. OneEach'
    BY <1>0, <1>4 DEF OneEach, Prompt, InQueue, InFinished
  <2>2. ASSUME NEW b \in Buffers PROVE Accounted(t, b)'
    BY <1>0, <1>4 DEF Prompt, Accounted, Owed, InQueue, InFinished
  <2> QED
    BY <1>0, <2>1, <2>2 DEF Prompt, WokenByOwn
<1>5. ASSUME NothingFails(t) PROVE NothingFails(t)'
  <2>1. Outcome(t) = "NO_ERROR"
    BY <1>0, <1>1, <1>5 DEF NothingFails, Outcome
  <2> QED
    BY <1>0, <1>5, <2>1 DEF NothingFails
<1> QED
  BY <1>2, <1>3, <1>4, <1>5, Zenon DEF LoneUser

\* The interrupt: the transfer at the head is complete, its callback due.
LEMMA CompleteStep ==
  ASSUME TypeOK, QueueInOrder, NEW t \in Threads, users = {t}, LoneUser(t),
         UNCHANGED modeVars, EngineComplete
  PROVE  LoneUser(t)'
<1> USE DEF EngineComplete, threadVars, tableVars, historyVars, modeVars
<1> DEFINE h == queue[1][2]
<1>0. /\ pc' = pc /\ local' = local /\ timedOut' = timedOut /\ cmd' = cmd
      /\ bdindex' = bdindex /\ cmp' = cmp /\ cookie' = cookie /\ status' = status
      /\ started' = started /\ submitted' = submitted
  OBVIOUS
<1>1. /\ h \in Buffers /\ Len(queue) \in Nat \ {0} /\ Len(queue') = Len(queue) - 1
      /\ \A i \in 1..Len(queue) - 1 : queue'[i] = queue[i + 1]
      /\ completed \in Nat /\ completed' = completed + 1 /\ completed' = queue[1][1]
      /\ finished' = Append(finished, h)
  <2>1. /\ Head(queue) = queue[1] /\ queue[1] \in Nat \X Buffers
        /\ Len(queue) \in Nat \ {0} /\ Len(queue') = Len(queue) - 1
        /\ \A i \in 1..Len(queue) - 1 : queue'[i] = queue[i + 1]
    BY QueueTail
  <2>2. queue[1][1] = completed + 1 /\ completed \in Nat
    BY <2>1 DEF QueueInOrder, TypeOK
  <2> QED
    BY <2>1, <2>2
<1> HIDE DEF h
<1>2. /\ Len(finished) \in Nat /\ Len(finished') = Len(finished) + 1
      /\ finished'[Len(finished) + 1] = h
      /\ \A i \in 1..Len(finished) : finished'[i] = finished[i]
  <2>1. finished \in Seq(Buffers)
    BY DEF TypeOK
  <2>2. Len(finished) \in Nat
    BY <2>1, LenProperties
  <2> QED
    BY <1>1, <2>1, <2>2, AppendProperties
<1>3. \A i \in 1..Len(finished') : i \in 1..Len(finished) \/ i = Len(finished) + 1
  BY <1>2
<1>4. SeesOwnIndex(t)'
  BY <1>0 DEF SeesOwnIndex, LoneUser
<1>5. LatestCookie'
  BY <1>0, <1>1 DEF LatestCookie, LoneUser
<1>6. ASSUME Prompt(t) PROVE Prompt(t)'
  <2>1. OneEach
    BY <1>6 DEF Prompt
  <2>2. InQueue(h)
    BY <1>1 DEF InQueue, h
  <2>3. ASSUME NEW b \in Buffers
        PROVE  /\ InQueue(b)' <=> InQueue(b) /\ b # h
               /\ InFinished(b)' <=> InFinished(b) \/ b = h
    <3>1. InQueue(b)' => InQueue(b) /\ b # h
      BY <1>1, <2>1 DEF InQueue, OneEach, h
    <3>2. ASSUME InQueue(b), b # h PROVE InQueue(b)'
      <4>1. PICK i \in 1..Len(queue) : queue[i][2] = b
        BY <3>2 DEF InQueue
      <4>2. i # 1 /\ i - 1 \in 1..Len(queue') /\ queue'[i - 1] = queue[i]
        BY <1>1, <3>2, <4>1 DEF h
      <4> QED
        BY <4>1, <4>2 DEF InQueue
    <3>3. InFinished(b)' <=> InFinished(b) \/ b = h
      BY <1>2, <1>3 DEF InFinished
    <3> QED
      BY <3>1, <3>2, <3>3
  <2>4. OneEach'
    <3>1. \A i, j \in 1..Len(queue') : queue'[i][2] = queue'[j][2] => i = j
      BY <1>1, <2>1 DEF OneEach
    <3>2. \A i \in 1..Len(queue') : cookie'[queue'[i][2]] = queue'[i][1]
      BY <1>0, <1>1, <2>1 DEF OneEach
    <3>3. \A b \in Buffers : InQueue(b)' => ~InFinished(b)'
      BY <2>1, <2>3 DEF OneEach
    <3>4. \A i, j \in 1..Len(finished') : finished'[i] = finished'[j] => i = j
      BY <1>1, <1>2, <1>3, <2>1, <2>2 DEF OneEach, InFinished
    <3> QED
      BY <3>1, <3>2, <3>3, <3>4 DEF OneEach
  <2>5. cookie[h] = completed'
    BY <1>1, <2>1 DEF OneEach, h
  <2>6. ASSUME NEW b \in Buffers PROVE Accounted(t, b)'
    <3>1. Owed(t, b)' <=> Owed(t, b)
      BY <1>0 DEF Owed
    <3>2. Accounted(t, b) /\ cookie[b] \in Nat
      BY <1>6 DEF Prompt, TypeOK
    <3> QED
      BY <1>0, <1>1, <2>2, <2>3, <2>5, <3>1, <3>2 DEF Accounted
  <2> QED
    BY <1>0, <1>6, <2>4, <2>6 DEF Prompt, WokenByOwn
<1>7. ASSUME NothingFails(t) PROVE NothingFails(t)'
  <2>1. cookie[bdindex] \in Nat
    BY DEF TypeOK
  <2> QED
    BY <1>0, <1>1, <1>7, <2>1 DEF NothingFails
<1> QED
  BY <1>4, <1>5, <1>6, <1>7, Zenon DEF LoneUser

\* The tasklet: a callback becomes the completion.
LEMMA CallbackStep ==
  ASSUME TypeOK, NEW t \in Threads, users = {t}, LoneUser(t), UNCHANGED modeVars,
         sync_callback
  PROVE  LoneUser(t)'
<1> USE DEF sync_callback, threadVars, historyVars, modeVars
<1> DEFINE h == finished[1]
<1>0. /\ pc' = pc /\ local' = local /\ timedOut' = timedOut /\ cmd' = cmd
      /\ bdindex' = bdindex /\ cookie' = cookie /\ status' = status
      /\ queue' = queue /\ completed' = completed
      /\ started' = started /\ submitted' = submitted
  OBVIOUS
<1>1. /\ h \in Buffers /\ Len(finished) \in Nat \ {0}
      /\ Len(finished') = Len(finished) - 1
      /\ \A i \in 1..Len(finished) - 1 : finished'[i] = finished[i + 1]
      /\ cmp'[h] = cmp[h] + 1 /\ \A b \in Buffers \ {h} : cmp'[b] = cmp[b]
  BY FinishedTail DEF TypeOK
<1> HIDE DEF h
<1>2. SeesOwnIndex(t)'
  BY <1>0 DEF SeesOwnIndex, LoneUser
<1>3. LatestCookie'
  BY <1>0 DEF LatestCookie, LoneUser
<1>4. ASSUME Prompt(t) PROVE Prompt(t)'
  <2>1. OneEach
    BY <1>4 DEF Prompt
  <2>2. InFinished(h)
    BY <1>1 DEF InFinished, h
  <2>3. ASSUME NEW b \in Buffers
        PROVE  /\ InQueue(b)' <=> InQueue(b)
               /\ InFinished(b)' <=> InFinished(b) /\ b # h
    <3>1. InFinished(b)' => InFinished(b) /\ b # h
      BY <1>1, <2>1 DEF InFinished, OneEach, h
    <3>2. ASSUME InFinished(b), b # h PROVE InFinished(b)'
      <4>1. PICK i \in 1..Len(finished) : finished[i] = b
        BY <3>2 DEF InFinished
      <4>2. i # 1 /\ i - 1 \in 1..Len(finished') /\ finished'[i - 1] = finished[i]
        BY <1>1, <3>2, <4>1 DEF h
      <4> QED
        BY <4>1, <4>2 DEF InFinished
    <3>3. InQueue(b)' <=> InQueue(b)
      BY <1>0 DEF InQueue
    <3> QED
      BY <3>1, <3>2, <3>3
  <2>4. OneEach'
    <3>1. \A i, j \in 1..Len(finished') : finished'[i] = finished'[j] => i = j
      BY <1>1, <2>1 DEF OneEach
    <3>2. \A b \in Buffers : InQueue(b)' => ~InFinished(b)'
      BY <2>1, <2>3 DEF OneEach
    <3> QED
      BY <1>0, <2>1, <3>1, <3>2 DEF OneEach
  <2>5. ASSUME NEW b \in Buffers PROVE Accounted(t, b)'
    <3>1. Owed(t, b)' <=> Owed(t, b)
      BY <1>0 DEF Owed
    <3>2. Accounted(t, b) /\ (b = h => ~InQueue(b))
      BY <1>4, <2>1, <2>2 DEF Prompt, OneEach
    <3> QED
      BY <1>0, <1>1, <2>2, <2>3, <3>1, <3>2 DEF Accounted
  <2> QED
    BY <1>0, <1>4, <2>4, <2>5 DEF Prompt, WokenByOwn
<1>5. ASSUME NothingFails(t) PROVE NothingFails(t)'
  BY <1>0, <1>5 DEF NothingFails
<1> QED
  BY <1>2, <1>3, <1>4, <1>5, Zenon DEF LoneUser

-----------------------------------------------------------------------------
\* What a thread on its own relies on holds throughout (dma-proxy.c:150-220,
\* bdindex read three times in a command, and the two ends of a completion).
LEMMA InvHolds == Spec => []Inv
<1>1. Init => Inv
  <2> SUFFICES ASSUME Init, TypeOK PROVE Inv
    BY InitTypeOK
  <2>1. Len(queue) = 0 /\ Len(finished) = 0
    BY EmptySeq DEF Init
  <2>2. ASSUME NEW t \in Threads PROVE LoneUser(t)
    <3>1. pc[t] = "user" /\ started = {} /\ \A b \in Buffers :
            ~submitted[b] /\ cookie[b] = 0 /\ status[b] = "NO_ERROR"
      BY <2>2 DEF Init
    <3> QED
      BY <2>1, <3>1 DEF LoneUser, SeesOwnIndex, LatestCookie, Prompt, OneEach,
         Accounted, Owed, InQueue, InFinished, WokenByOwn, NothingFails
  <2> QED
    BY <2>1, <2>2 DEF Inv, QueueInOrder
<1>2. Inv /\ TypeOK' /\ [Next]_vars => Inv'
  <2> SUFFICES ASSUME Inv, TypeOK', [Next]_vars PROVE Inv'
    OBVIOUS
  <2>1. TypeOK /\ QueueInOrder /\ QueueInOrder'
    BY OrderStep DEF Inv
  <2>2. UNCHANGED modeVars
    BY DEF Next, vars
  <2>3. ASSUME NEW t \in Threads, users = {t} PROVE LoneUser(t)'
    <3>0. LoneUser(t)
      BY <2>3 DEF Inv
    <3>1. CASE UNCHANGED vars
      BY <3>0, <3>1 DEF LoneUser, SeesOwnIndex, LatestCookie, Prompt, OneEach,
         Accounted, Owed, InQueue, InFinished, WokenByOwn, NothingFails,
         vars, modeVars, threadVars, tableVars, engineVars, historyVars
    <3>2. ASSUME NEW c \in Commands, NEW b \in Buffers, Ioctl(t, c, b)
          PROVE  LoneUser(t)'
      BY <2>1, <2>2, <2>3, <3>0, <3>2, IoctlStep
    <3>3. CASE Handler(t)
      BY <2>1, <2>2, <2>3, <3>0, <3>3, StartPrepStep, StartSubmitStep, WaitBeginStep,
         WaitWokenStep, WaitTimeoutStep, WaitCheckStep DEF Handler
    <3>4. CASE Engine
      BY <2>1, <2>2, <2>3, <3>0, <3>4, CompleteStep, CallbackStep DEF Engine
    <3> QED
      BY <2>3, <3>1, <3>2, <3>3, <3>4 DEF Next
  <2> QED
    BY <2>1, <2>2, <2>3 DEF Inv, modeVars
<1> QED
  BY <1>1, <1>2, TypeCorrect, PTL DEF Spec

\* With one thread, a peer that keeps up and an engine that takes every
\* transfer, wait_for_transfer (dma-proxy.c:178-208) never reports a timeout or an
\* error.
THEOREM LoneSucceeds == Spec => []AlwaysSucceeds
<1>1. Inv => AlwaysSucceeds
  BY DEF Inv, LoneUser, NothingFails, AlwaysSucceeds, Alone
<1> QED
  BY <1>1, InvHolds, PTL

\* With one thread, PROXY_NO_ERROR (dma-proxy.c:206) is never reported while the
\* transfer of the latest start is still to be served; and with a peer that keeps
\* up it is never reported for a start that failed on a buffer used before.
THEOREM SuccessSound == Spec => SuccessMeansTransferred
<1>1. Inv /\ [Next]_vars => [\A b \in Buffers : Alone /\ SuccessOf(b) =>
       /\ submitted[b] => \A i \in DOMAIN queue : queue[i][2] # b
       /\ ~stalls /\ cookie[b] > 0 => submitted[b]]_vars
  <2> SUFFICES ASSUME Inv, Next, NEW b \in Buffers, NEW t \in Threads, users = {t},
                      SuccessOf(b)
               PROVE  /\ submitted[b] => \A i \in DOMAIN queue : queue[i][2] # b
                      /\ ~stalls /\ cookie[b] > 0 => submitted[b]
    BY DEF Alone
  <2>0. TypeOK /\ QueueInOrder /\ LoneUser(t)
    BY DEF Inv
  <2>1. WaitCheck(t)
    <3>1. status'[b] = "NO_ERROR" /\ status[b] = "BUSY"
      BY DEF SuccessOf
    <3>2. CASE WaitBegin(t)
      BY <2>0, <3>1, <3>2 DEF WaitBegin, TypeOK
    <3>3. CASE status' = status
      BY <3>1, <3>3
    <3> QED
      BY <3>2, <3>3 DEF Next, Handler, Engine, Ioctl, StartPrep, StartSubmit,
         WaitWoken, WaitTimeout, EngineComplete, sync_callback, tableVars
  <2>2. /\ pc[t] = "check" /\ local[t] = bdindex /\ b = bdindex
        /\ Outcome(t) = "NO_ERROR"
    BY <2>0, <2>1 DEF WaitCheck, SuccessOf, LoneUser, SeesOwnIndex, TypeOK
  <2>3. ~timedOut[t] /\ cookie[b] <= completed
    BY <2>0, <2>2 DEF Outcome, TypeOK
  <2>4. ASSUME submitted[b], NEW i \in DOMAIN queue PROVE queue[i][2] # b
    <3>1. i \in 1..Len(queue) /\ Len(queue) \in Nat /\ completed \in Nat
          /\ cookie[b] \in Nat
      BY <2>0, LenProperties DEF TypeOK
    <3>2. queue[i][1] = completed + i
      BY <2>0, <3>1 DEF QueueInOrder
    <3>3. queue[i][2] = b => queue[i][1] <= cookie[b]
      BY <2>0, <2>4, <3>1 DEF LoneUser, LatestCookie
    <3> QED
      BY <2>3, <3>1, <3>2, <3>3
  <2>5. ASSUME ~stalls, cookie[b] > 0 PROVE submitted[b]
    BY <2>0, <2>2, <2>3, <2>5 DEF LoneUser, Prompt, WokenByOwn
  <2> QED
    BY <2>4, <2>5, Zenon
<1> QED
  BY <1>1, InvHolds, PTL DEF Spec, SuccessMeansTransferred

-----------------------------------------------------------------------------
(* The application, DmaProxyTest, with the one transmit buffer it has.     *)

\* Transfers posted to the receive channel, and carried from one channel to the
\* other.
Posted == rx.counter + rx.in_progress
Carried == tx.counter + tx.in_progress - Len(txQueue)

\* Every transfer carried has taken one buffer of each channel.
InBalance == Carried = Posted - Len(rxQueue)

\* The transmit thread has one transfer under way at most, and its word is the
\* number of transfers before it.  It goes round only when one more is due.
TxInStep ==
  /\ tx.buffer_id = 0
  /\ tx.pc # "finish" => txQueue = <<>> /\ txDone = {} /\ tx.in_progress = 0
  /\ tx.pc = "fill" => tx.counter = 0
  /\ tx.pc = "finish" =>
       /\ tx.in_progress = 1 /\ (tx.counter < num_transfers \/ tx.counter = 0)
       /\ \/ txQueue = <<<<0, tx.counter>>>> /\ txDone = {}
          \/ txQueue = <<>> /\ txDone = {0}
  /\ tx.pc \in {"stop?", "refill"} => tx.counter < num_transfers
  /\ tx.pc = "exit" =>
       /\ tx.counter >= num_transfers /\ tx.counter >= 1
       /\ tx.counter <= num_transfers \/ tx.counter = 1

\* A ^C that is not late finds num_transfers so far away that the value the
\* transmit thread will write is no larger.
StopInTime ==
  /\ ~stop => ~late /\ ~tx.stopping
  /\ stop /\ ~late /\ ~tx.stopping =>
       /\ tx.counter + RxBuffers <= num_transfers
       /\ tx.pc # "stop?" => tx.counter + RxBuffers < num_transfers

\* What the receive thread counts at each place.
RxCounts ==
  /\ rx.pc = "fill" =>
       /\ rx.counter = 0 /\ rx.buffer_id = rx.in_progress /\ rx.in_progress < RxBuffers
       /\ rx.in_progress = 0 \/ rx.in_progress < num_transfers
  /\ rx.pc \in {"finish", "count", "exit(1)"} => rx.in_progress \in 1..RxBuffers
  /\ rx.pc = "refill" => rx.counter < num_transfers /\ rx.in_progress < RxBuffers
  /\ rx.pc = "exit" => rx.counter >= num_transfers /\ rx.counter >= 1

\* Unless ^C was late it keeps all buffers posted until enough are, and never
\* posts more than the transmit thread will fill.
RxPosts ==
  ~late =>
    /\ Posted <= num_transfers \/ Posted <= 1
    /\ rx.pc \in {"finish", "count"} => Posted >= num_transfers \/ rx.in_progress = RxBuffers
    /\ rx.pc = "refill" => Posted >= num_transfers \/ rx.in_progress = RxBuffers - 1

\* The buffer of transfer rx.counter, and how far behind it in the ring b is.
RxBase == IF rx.pc = "fill" THEN 0
          ELSE IF rx.pc \in {"refill", "exit"} THEN NextBuffer(rx.buffer_id, RxBuffers)
          ELSE rx.buffer_id
Offset(b) == IF b >= RxBase THEN b - RxBase ELSE b - RxBase + RxBuffers

\* Transfers up to g have been posted to the buffers of the ring in order; with a
\* late ^C the later ones may have gone to others, but never to that of transfer g,
\* so that the thread waits in vain for it and ends.
RingUpTo(g) ==
  /\ rx.counter <= g /\ g <= Posted /\ g - rx.counter <= RxBuffers
  /\ g < Posted => /\ g - rx.counter < RxBuffers
                   /\ rx.pc = "refill" => g - rx.counter < RxBuffers - 1
  /\ rx.counter <= Carried
  /\ rx.pc = "fill" => g = Posted
  /\ rx.pc = "count" => rx.counter < g /\ rx.counter < Carried

QueueUpTo(g) ==
  \A i \in 1..Len(rxQueue) :
    IF Carried + i - 1 < g THEN Offset(rxQueue[i]) = Carried + i - 1 - rx.counter
                           ELSE Offset(rxQueue[i]) > g - rx.counter

\* Transfer rx.counter + k is carried and not waited for.
Arrived(g, k) == /\ rx.counter + k < g /\ rx.counter + k < Carried
                 /\ rx.pc = "count" => k >= 1

DoneUpTo(g) ==
  /\ \A b \in rxDone :
       Arrived(g, Offset(b)) \/ (g < Posted /\ Offset(b) > g - rx.counter)
  /\ \A b \in 0..RxBuffers-1 : Arrived(g, Offset(b)) =>
       b \in rxDone /\ rxData[b] = rx.counter + Offset(b)

Window(g) == RingUpTo(g) /\ QueueUpTo(g) /\ DoneUpTo(g)

TestInv ==
  /\ TestTypeOK /\ InBalance /\ TxInStep /\ StopInTime /\ RxCounts /\ RxPosts
  /\ \E g \in 0..Posted : Window(g) /\ (~late => g = Posted)
  /\ ~mismatch

-----------------------------------------------------------------------------
\* The ring of receive buffers: BUFFER_INCREMENT, and a step of less than two rounds.
LEMMA RingStep ==
  /\ RxBuffers \in Nat \ {0}
  /\ \A b \in 0..RxBuffers-1 :
       /\ NextBuffer(b, RxBuffers) = IF b = RxBuffers - 1 THEN 0 ELSE b + 1
       /\ \A k \in 0..RxBuffers-1 :
            (b + k) % RxBuffers = IF b + k < RxBuffers THEN b + k ELSE b + k - RxBuffers
<1>0. RxBuffers \in Nat \ {0}
  BY TestAssumption
<1>1. \A n \in 0..RxBuffers-1 : n % RxBuffers = n
  BY <1>0
<1>2. \A n \in 0..RxBuffers-1 : (n + RxBuffers) % RxBuffers = n
  BY <1>0
<1>3. \A n \in 0..2*RxBuffers-1 :
         n % RxBuffers = IF n < RxBuffers THEN n ELSE n - RxBuffers
  <2> SUFFICES ASSUME NEW n \in 0..2*RxBuffers-1, n >= RxBuffers
               PROVE  n % RxBuffers = n - RxBuffers
    BY <1>0, <1>1
  <2>1. n - RxBuffers \in 0..RxBuffers-1 /\ n = (n - RxBuffers) + RxBuffers
    BY <1>0
  <2> QED
    BY <1>2, <2>1
<1>a. ASSUME NEW b \in 0..RxBuffers-1, NEW k \in 0..RxBuffers
      PROVE  (b + k) % RxBuffers = IF b + k < RxBuffers THEN b + k ELSE b + k - RxBuffers
  <2>1. PICK n \in 0..2*RxBuffers-1 : n = b + k
    BY <1>0
  <2>2. n % RxBuffers = IF n < RxBuffers THEN n ELSE n - RxBuffers
    BY <1>3
  <2>3. (b + k) % RxBuffers = n % RxBuffers
    BY <2>1
  <2>4. (IF b + k < RxBuffers THEN b + k ELSE b + k - RxBuffers)
          = IF n < RxBuffers THEN n ELSE n - RxBuffers
    BY <1>0, <2>1
  <2> QED
    BY <2>2, <2>3, <2>4, Zenon
<1>4. ASSUME NEW b \in 0..RxBuffers-1
      PROVE  NextBuffer(b, RxBuffers) = IF b = RxBuffers - 1 THEN 0 ELSE b + 1
  <2>1. (b + 1) % RxBuffers = IF b + 1 < RxBuffers THEN b + 1 ELSE b + 1 - RxBuffers
    <3>1. 1 \in 0..RxBuffers
      BY <1>0
    <3> QED
      BY <1>a, <3>1, Zenon
  <2> QED
    BY <1>0, <2>1 DEF NextBuffer
<1>5. ASSUME NEW b \in 0..RxBuffers-1, NEW k \in 0..RxBuffers-1
      PROVE  (b + k) % RxBuffers = IF b + k < RxBuffers THEN b + k ELSE b + k - RxBuffers
  <2>1. k \in 0..RxBuffers
    BY <1>0
  <2> QED
    BY <1>a, <2>1, Zenon
<1> QED
  BY <1>0, <1>4, <1>5, Zenon

\* The offsets are a numbering of the ring.
LEMMA OffsetFacts ==
  ASSUME TestTypeOK
  PROVE  /\ RxBase \in 0..RxBuffers-1
         /\ \A b \in 0..RxBuffers-1 : Offset(b) \in 0..RxBuffers-1
         /\ \A a, b \in 0..RxBuffers-1 : Offset(a) = Offset(b) => a = b
         /\ Offset(RxBase) = 0
<1>0. RxBuffers \in Nat \ {0} /\ rx.buffer_id \in 0..RxBuffers-1
  BY RingStep DEF TestTypeOK, RxStates
<1>1. RxBase \in 0..RxBuffers-1
  BY <1>0, RingStep DEF RxBase
<1> QED
  BY <1>0, <1>1 DEF Offset

\* What the head and the tail of a channel's queue are.
LEMMA FirstServed ==
  ASSUME NEW S, NEW q \in Seq(S), q # <<>>
  PROVE  /\ Tail(q) \in Seq(S) /\ Len(Tail(q)) = Len(q) - 1 /\ Len(q) >= 1
         /\ Head(q) = q[1] /\ Head(q) \in S
         /\ \A i \in 1..Len(q)-1 : Tail(q)[i] = q[i+1]
BY HeadTailProperties

LEMMA LastPosted ==
  ASSUME NEW S, NEW q \in Seq(S), NEW e \in S
  PROVE  /\ Append(q, e) \in Seq(S) /\ Len(Append(q, e)) = Len(q) + 1
         /\ \A i \in 1..Len(q) : Append(q, e)[i] = q[i]
         /\ Append(q, e)[Len(q) + 1] = e
BY AppendProperties

\* The counts are numbers.
LEMMA CountFacts ==
  ASSUME TestTypeOK
  PROVE  /\ num_transfers \in Nat /\ RxBuffers \in Nat \ {0}
         /\ tx.counter \in Nat /\ tx.in_progress \in Nat
         /\ rx.counter \in Nat /\ rx.in_progress \in Nat /\ rx.buffer_id \in 0..RxBuffers-1
         /\ Len(txQueue) \in Nat /\ Len(rxQueue) \in Nat
         /\ Posted \in Nat /\ Carried \in Int
<1>1. num_transfers \in Nat /\ RxBuffers \in Nat \ {0}
  BY TestAssumption DEF TestTypeOK
<1>2. tx.counter \in Nat /\ tx.in_progress \in Nat
  BY DEF TestTypeOK, TxStates
<1>3. rx.counter \in Nat /\ rx.in_progress \in Nat /\ rx.buffer_id \in 0..RxBuffers-1
  BY DEF TestTypeOK, RxStates
<1>4. Len(txQueue) \in Nat /\ Len(rxQueue) \in Nat
  BY DEF TestTypeOK
<1>5. Posted \in Nat
  BY <1>3 DEF Posted
<1>6. Carried \in Int
  BY <1>2, <1>4 DEF Carried
<1> QED
  BY <1>1, <1>2, <1>3, <1>4, <1>5, <1>6

\* A step of the transmit thread alone leaves the window of the receive thread.
LEMMA WindowKept ==
  ASSUME UNCHANGED <<rx, rxQueue, rxDone, rxData>>, Carried' = Carried, late => late',
         \E g \in 0..Posted : Window(g) /\ (~late => g = Posted), InBalance
  PROVE  /\ \E g \in 0..Posted' : Window(g)' /\ (~late' => g = Posted')
         /\ InBalance' /\ Posted' = Posted
<1>1. Posted' = Posted
  BY DEF Posted
<1>2. InBalance'
  BY <1>1 DEF InBalance
<1>3. PICK g \in 0..Posted : Window(g) /\ (~late => g = Posted)
  OBVIOUS
<1>4. RxBase' = RxBase
  BY DEF RxBase, NextBuffer
<1>5. Window(g)'
  BY <1>1, <1>3, <1>4 DEF Window, RingUpTo, QueueUpTo, DoneUpTo, Arrived, Offset
<1> QED
  BY <1>1, <1>2, <1>3, <1>5

\* A thread is the record of its fields.
LEMMA Fields ==
  ASSUME TestTypeOK
  PROVE  /\ tx = [pc |-> tx.pc, stopping |-> tx.stopping, buffer_id |-> tx.buffer_id,
                  counter |-> tx.counter, in_progress |-> tx.in_progress]
         /\ rx = [pc |-> rx.pc, buffer_id |-> rx.buffer_id,
                  counter |-> rx.counter, in_progress |-> rx.in_progress]
         /\ tx.stopping \in BOOLEAN
<1>1. tx \in TxStates /\ rx \in RxStates
  BY DEF TestTypeOK
<1> QED
  BY <1>1 DEF TxStates, RxStates

-----------------------------------------------------------------------------
\* Posting the transmit buffer when it is the only one (START_XFER, lines 122-143).
LEMMA TxFillStep ==
  ASSUME TestInv, TxBuffers = 1, TxFill, UNCHANGED <<stop, late, asked>>
  PROVE  TestInv'
<1>0. /\ TestTypeOK /\ InBalance /\ TxInStep /\ StopInTime /\ RxCounts /\ RxPosts /\ ~mismatch
      /\ \E g \in 0..Posted : Window(g) /\ (~late => g = Posted)
  BY DEF TestInv
<1>1. tx.counter = 0 /\ tx.in_progress = 0 /\ tx.buffer_id = 0 /\ txQueue = <<>> /\ txDone = {}
  BY <1>0 DEF TxFill, TxInStep
<1>2. tx' = [tx EXCEPT !.in_progress = 1, !.buffer_id = 0, !.pc = "finish"]
  BY <1>1 DEF TxFill
<1>3. txQueue' = <<<<0, 0>>>> /\ txDone' = {}
  BY <1>1 DEF TxFill, TxStart
<1>4. /\ num_transfers' = num_transfers /\ stop' = stop /\ late' = late /\ asked' = asked
      /\ rx' = rx /\ rxQueue' = rxQueue /\ rxDone' = rxDone /\ rxData' = rxData
      /\ mismatch' = mismatch
  BY DEF TxFill, TxStart
<1>5. TestTypeOK'
  <2>1. tx' \in TxStates
    <3>1. tx' = [pc |-> "finish", stopping |-> tx.stopping, buffer_id |-> 0,
                 counter |-> tx.counter, in_progress |-> 1]
      BY <1>0, <1>2, Fields
    <3> QED
      BY <1>0, <3>1, Fields, CountFacts DEF TxStates
  <2>2. txQueue' \in Seq((0..TxBuffers-1) \X Nat) /\ txDone' \subseteq 0..TxBuffers-1
    BY <1>3
  <2> QED
    BY <1>0, <1>4, <2>1, <2>2, Zenon DEF TestTypeOK
<1>6. /\ tx'.pc = "finish" /\ tx'.counter = 0 /\ tx'.in_progress = 1 /\ tx'.buffer_id = 0
      /\ tx'.stopping = tx.stopping /\ tx.pc = "fill"
  BY <1>0, <1>1, <1>2 DEF TxFill
<1>7. TxInStep'
  BY <1>3, <1>6 DEF TxInStep
<1>8. StopInTime'
  BY <1>0, <1>1, <1>4, <1>6 DEF StopInTime
<1>9. Carried' = Carried
  BY <1>1, <1>3, <1>6 DEF Carried
<1>10. /\ \E g \in 0..Posted' : Window(g)' /\ (~late' => g = Posted')
       /\ InBalance' /\ Posted' = Posted
  BY <1>0, <1>4, <1>9, WindowKept
<1>11. RxCounts' /\ RxPosts'
  BY <1>0, <1>4, <1>10 DEF RxCounts, RxPosts
<1> QED
  BY <1>0, <1>4, <1>5, <1>7, <1>8, <1>10, <1>11 DEF TestInv

\* The wait of the transmit thread never times out: when the receive thread has
\* ended without a timeout, every transfer has been carried (FINISH_XFER, lines
\* 154-166).
LEMMA TxFinishStep ==
  ASSUME TestInv, TxBuffers = 1, TxFinish, UNCHANGED <<stop, late, asked>>
  PROVE  TestInv'
<1>0. /\ TestTypeOK /\ InBalance /\ TxInStep /\ StopInTime /\ RxCounts /\ RxPosts /\ ~mismatch
      /\ \E g \in 0..Posted : Window(g) /\ (~late => g = Posted)
  BY DEF TestInv
<1>1. /\ tx.pc = "finish" /\ tx.in_progress = 1 /\ tx.buffer_id = 0
      /\ tx.counter < num_transfers \/ tx.counter = 0
  BY <1>0 DEF TxFinish, TxInStep
<1>2. txQueue = <<>> /\ txDone = {0}
  <2> SUFFICES ASSUME txQueue = <<<<0, tx.counter>>>>, txDone = {} PROVE FALSE
    BY <1>0, <1>1 DEF TxInStep
  <2>1. \E i \in DOMAIN txQueue : txQueue[i][1] = 0
    OBVIOUS
  <2>2. rxQueue = <<>> /\ rx.pc = "exit"
    BY <1>1, <2>1 DEF TxFinish, TxCanComplete
  <2>3. Len(txQueue) = 1 /\ Len(rxQueue) = 0
    BY <2>2
  <2>4. Posted = tx.counter
    BY <1>0, <1>1, <2>3, CountFacts DEF InBalance, Carried
  <2>5. rx.counter <= tx.counter
    BY <1>0, <2>4, CountFacts DEF Posted
  <2>6. rx.counter >= num_transfers /\ rx.counter >= 1
    BY <1>0, <2>2 DEF RxCounts
  <2> QED
    BY <1>0, <1>1, <2>5, <2>6, CountFacts
<1>3. txQueue' = <<>> /\ txDone' = {}
  BY <1>1, <1>2 DEF TxFinish
<1>4. /\ num_transfers' = num_transfers /\ stop' = stop /\ late' = late /\ asked' = asked
      /\ rx' = rx /\ rxQueue' = rxQueue /\ rxDone' = rxDone /\ rxData' = rxData
      /\ mismatch' = mismatch
  BY DEF TxFinish
<1>5. /\ tx'.pc = IF tx.counter + 1 >= num_transfers THEN "exit" ELSE "stop?"
      /\ tx'.counter = tx.counter + 1 /\ tx'.in_progress = 0 /\ tx'.buffer_id = 0
      /\ tx'.stopping = tx.stopping /\ tx' \in TxStates
  <2> DEFINE p == IF tx.counter + 1 >= num_transfers THEN "exit" ELSE "stop?"
  <2>1. tx' = [tx EXCEPT !.in_progress = 0, !.counter = tx.counter + 1, !.pc = p]
    BY <1>1 DEF TxFinish
  <2>2. p \in {"exit", "stop?"}
    OBVIOUS
  <2> HIDE DEF p
  <2>3. tx' = [pc |-> p, stopping |-> tx.stopping, buffer_id |-> 0,
               counter |-> tx.counter + 1, in_progress |-> 0]
    BY <1>0, <1>1, <2>1, Fields
  <2>4. tx' \in TxStates
    BY <1>0, <2>2, <2>3, Fields, CountFacts DEF TxStates
  <2>5. tx'.pc = p
    BY <2>3
  <2> QED
    BY <2>3, <2>4, <2>5 DEF p
<1>6. TestTypeOK'
  <2>1. txQueue' \in Seq((0..TxBuffers-1) \X Nat) /\ txDone' \subseteq 0..TxBuffers-1
    BY <1>3
  <2> QED
    BY <1>0, <1>4, <1>5, <2>1, Zenon DEF TestTypeOK
<1>7. TxInStep'
  <2>1. tx.counter \in Nat /\ num_transfers \in Nat
    BY <1>0, CountFacts
  <2>2. CASE tx.counter + 1 >= num_transfers
    <3>1. tx'.pc = "exit" /\ tx'.counter = tx.counter + 1
      BY <1>5, <2>2
    <3>2. tx'.counter >= num_transfers /\ tx'.counter >= 1
          /\ (tx'.counter <= num_transfers \/ tx'.counter = 1)
      BY <1>1, <2>1, <2>2, <3>1
    <3> QED
      BY <1>3, <1>4, <1>5, <3>1, <3>2 DEF TxInStep
  <2>3. CASE ~(tx.counter + 1 >= num_transfers)
    <3>1. tx'.pc = "stop?" /\ tx'.counter = tx.counter + 1
      BY <1>5, <2>3
    <3>2. tx'.counter < num_transfers
      BY <2>1, <2>3, <3>1
    <3> QED
      BY <1>3, <1>4, <1>5, <3>1, <3>2 DEF TxInStep
  <2> QED
    BY <2>2, <2>3
<1>8. StopInTime'
  BY <1>0, <1>1, <1>4, <1>5, CountFacts DEF StopInTime
<1>9. Carried' = Carried
  BY <1>0, <1>1, <1>2, <1>3, <1>5, CountFacts DEF Carried
<1>10. /\ \E g \in 0..Posted' : Window(g)' /\ (~late' => g = Posted')
       /\ InBalance' /\ Posted' = Posted
  BY <1>0, <1>4, <1>9, WindowKept
<1>11. RxCounts' /\ RxPosts'
  BY <1>0, <1>4, <1>10 DEF RxCounts, RxPosts
<1> QED
  BY <1>0, <1>4, <1>6, <1>7, <1>8, <1>10, <1>11 DEF TestInv

\* On a stop as many more transfers as there are receive buffers: at least as many as
\* are posted, and if ^C was in time no more than were asked for (lines 174-177).
LEMMA TxStopStep ==
  ASSUME TestInv, TxBuffers = 1, Running, TxStop, UNCHANGED <<stop, late, asked>>
  PROVE  TestInv'
<1>0. /\ TestTypeOK /\ InBalance /\ TxInStep /\ StopInTime /\ RxCounts /\ RxPosts /\ ~mismatch
      /\ \E g \in 0..Posted : Window(g) /\ (~late => g = Posted)
  BY DEF TestInv
<1>1. /\ tx.pc = "stop?" /\ tx.in_progress = 0 /\ tx.buffer_id = 0
      /\ txQueue = <<>> /\ txDone = {} /\ tx.counter < num_transfers
  BY <1>0 DEF TxStop, TxInStep
<1>2. /\ stop' = stop /\ late' = late /\ asked' = asked
      /\ txQueue' = txQueue /\ txDone' = txDone
      /\ rx' = rx /\ rxQueue' = rxQueue /\ rxDone' = rxDone /\ rxData' = rxData
      /\ mismatch' = mismatch
  BY DEF TxStop, channels
<1>3. Carried = tx.counter
  BY <1>0, <1>1, CountFacts DEF Carried
<1>4. /\ rx.counter <= tx.counter
      /\ rx.pc = "count" => rx.counter < tx.counter
  BY <1>0, <1>3 DEF Window, RingUpTo
<1>5. rx.pc \notin {"exit", "exit(1)"}
  BY <1>0, <1>1, <1>4, CountFacts DEF RxCounts, Running
<1>6. /\ Posted <= tx.counter + RxBuffers
      /\ rx.pc = "refill" => Posted <= tx.counter + RxBuffers - 1
  <2>1. rx.pc \in {"fill", "finish", "count", "refill"}
    BY <1>0, <1>5 DEF TestTypeOK, RxStates
  <2>2. /\ Posted = rx.counter + rx.in_progress
        /\ rx.counter \in Nat /\ rx.in_progress \in Nat /\ tx.counter \in Nat
        /\ RxBuffers \in Nat \ {0}
    BY <1>0, CountFacts DEF Posted
  <2>3. /\ rx.in_progress <= RxBuffers
        /\ rx.pc = "refill" => rx.in_progress <= RxBuffers - 1
    BY <1>0, <2>1, <2>2 DEF RxCounts
  <2>4. Posted <= tx.counter + RxBuffers
    BY <1>4, <2>2, <2>3
  <2>5. rx.pc = "refill" => Posted <= tx.counter + RxBuffers - 1
    BY <1>4, <2>2, <2>3
  <2> QED
    BY <2>4, <2>5
<1>a. CASE stop /\ ~tx.stopping
  <2>1. num_transfers' = tx.counter + RxBuffers
    BY <1>a DEF TxStop, DrainReceive
  <2>2. tx' = [pc |-> "refill", stopping |-> TRUE, buffer_id |-> 0,
               counter |-> tx.counter, in_progress |-> 0]
    <3>1. tx' = [tx EXCEPT !.stopping = TRUE, !.pc = "refill"]
      BY <1>a DEF TxStop
    <3> QED
      BY <1>0, <1>1, <3>1, Fields
  <2>c. tx.counter \in Nat /\ RxBuffers \in Nat \ {0}
    BY <1>0, CountFacts
  <2>3. TestTypeOK'
    <3>1. num_transfers' \in Nat
      BY <2>1, <2>c
    <3>2. tx' \in TxStates
      BY <2>2, <2>c DEF TxStates
    <3> QED
      BY <1>0, <1>2, <3>1, <3>2, Zenon DEF TestTypeOK
  <2>4. TxInStep' /\ StopInTime'
    <3>1. TxInStep'
      BY <1>0, <1>1, <1>2, <2>1, <2>2, CountFacts DEF TxInStep
    <3>2. stop' /\ tx'.stopping
      BY <1>2, <1>a, <2>2
    <3> QED
      BY <3>1, <3>2 DEF StopInTime
  <2>5. Carried' = Carried
    BY <1>1, <1>2, <2>2 DEF Carried
  <2>6. /\ \E g \in 0..Posted' : Window(g)' /\ (~late' => g = Posted')
        /\ InBalance' /\ Posted' = Posted
    BY <1>0, <1>2, <2>5, WindowKept
  <2>7. RxCounts'
    <3>1. rx.counter \in Nat /\ rx.in_progress \in Nat
      BY <1>0, CountFacts
    <3>2. rx.counter < num_transfers'
      BY <1>4, <2>1, <2>c, <3>1
    <3>3. rx.in_progress < RxBuffers => rx.in_progress < num_transfers'
      BY <2>1, <2>c, <3>1
    <3>4. RxCounts /\ rx' = rx
      BY <1>0, <1>2
    <3> QED
      BY <1>5, <3>2, <3>3, <3>4 DEF RxCounts
  <2>8. RxPosts'
    <3> SUFFICES ASSUME ~late PROVE RxPosts'
      BY <1>2 DEF RxPosts
    <3>1. num_transfers' <= num_transfers
      BY <1>0, <1>a, <2>1 DEF StopInTime
    <3>2. Posted' <= num_transfers'
      BY <1>0, <1>6, <2>1, <2>6, CountFacts
    <3>3. rx.pc \in {"finish", "count"} => Posted >= num_transfers' \/ rx.in_progress = RxBuffers
      BY <1>0, <2>1, <3>1, CountFacts DEF RxPosts
    <3>4. rx.pc = "refill" => Posted >= num_transfers' \/ rx.in_progress = RxBuffers - 1
      BY <1>0, <2>1, <3>1, CountFacts DEF RxPosts
    <3> QED
      BY <1>2, <2>6, <3>2, <3>3, <3>4 DEF RxPosts
  <2> QED
    BY <1>0, <1>2, <2>3, <2>4, <2>6, <2>7, <2>8 DEF TestInv
<1>b. CASE ~(stop /\ ~tx.stopping)
  <2>1. num_transfers' = num_transfers
    BY <1>b DEF TxStop
  <2>2. tx' = [pc |-> "refill", stopping |-> tx.stopping, buffer_id |-> 0,
               counter |-> tx.counter, in_progress |-> 0]
    <3>1. tx' = [tx EXCEPT !.pc = "refill"]
      BY <1>b DEF TxStop
    <3> QED
      BY <1>0, <1>1, <3>1, Fields
  <2>3. TestTypeOK'
    <3>1. tx' \in TxStates
      BY <1>0, <2>2, Fields, CountFacts DEF TxStates
    <3> QED
      BY <1>0, <1>2, <2>1, <3>1, Zenon DEF TestTypeOK
  <2>4. TxInStep'
    BY <1>0, <1>1, <1>2, <2>1, <2>2, CountFacts DEF TxInStep
  <2>5. StopInTime'
    <3>1. tx'.stopping = tx.stopping
      BY <2>2
    <3> QED
      BY <1>0, <1>2, <1>b, <3>1 DEF StopInTime
  <2>6. Carried' = Carried
    BY <1>1, <1>2, <2>2 DEF Carried
  <2>7. /\ \E g \in 0..Posted' : Window(g)' /\ (~late' => g = Posted')
        /\ InBalance' /\ Posted' = Posted
    BY <1>0, <1>2, <2>6, WindowKept
  <2>8. RxCounts' /\ RxPosts'
    BY <1>0, <1>2, <2>1, <2>7 DEF RxCounts, RxPosts
  <2> QED
    BY <1>0, <1>2, <2>3, <2>4, <2>5, <2>7, <2>8 DEF TestInv
<1> QED
  BY <1>a, <1>b

\* The buffer is always posted again: a thread that went round has a transfer due
\* (lines 181-205).
LEMMA TxRefillStep ==
  ASSUME TestInv, TxBuffers = 1, TxRefill, UNCHANGED <<stop, late, asked>>
  PROVE  TestInv'
<1>0. /\ TestTypeOK /\ InBalance /\ TxInStep /\ StopInTime /\ RxCounts /\ RxPosts /\ ~mismatch
      /\ \E g \in 0..Posted : Window(g) /\ (~late => g = Posted)
  BY DEF TestInv
<1>1. /\ tx.pc = "refill" /\ tx.in_progress = 0 /\ tx.buffer_id = 0
      /\ txQueue = <<>> /\ txDone = {} /\ tx.counter < num_transfers
  BY <1>0 DEF TxRefill, TxInStep
<1>2. ~TxEnough
  BY <1>0, <1>1, CountFacts DEF TxEnough
<1>3. NextBuffer(0, TxBuffers) = 0 /\ TxWord = tx.counter
  BY <1>0, CountFacts DEF NextBuffer, TxWord
<1>4. tx' = [pc |-> "finish", stopping |-> tx.stopping, buffer_id |-> 0,
             counter |-> tx.counter, in_progress |-> 1]
  <2>1. tx' = [tx EXCEPT !.pc = "finish", !.in_progress = tx.in_progress + 1,
                         !.buffer_id = NextBuffer(tx.buffer_id, TxBuffers)]
    BY <1>2 DEF TxRefill
  <2>2. tx' = [pc |-> "finish", stopping |-> tx.stopping,
               buffer_id |-> NextBuffer(tx.buffer_id, TxBuffers),
               counter |-> tx.counter, in_progress |-> tx.in_progress + 1]
    BY <1>0, <2>1, Fields
  <2> QED
    BY <1>1, <1>3, <2>2
<1>5. txQueue' = <<<<0, tx.counter>>>> /\ txDone' = {}
  BY <1>1, <1>2, <1>3 DEF TxRefill, TxStart
<1>6. /\ num_transfers' = num_transfers /\ stop' = stop /\ late' = late /\ asked' = asked
      /\ rx' = rx /\ rxQueue' = rxQueue /\ rxDone' = rxDone /\ rxData' = rxData
      /\ mismatch' = mismatch
  BY <1>2 DEF TxRefill, TxStart
<1>7. TestTypeOK'
  <2>1. tx' \in TxStates
    BY <1>0, <1>4, Fields, CountFacts DEF TxStates
  <2>2. txQueue' \in Seq((0..TxBuffers-1) \X Nat) /\ txDone' \subseteq 0..TxBuffers-1
    BY <1>0, <1>5, CountFacts
  <2> QED
    BY <1>0, <1>6, <2>1, <2>2, Zenon DEF TestTypeOK
<1>8. TxInStep'
  BY <1>0, <1>1, <1>4, <1>5, <1>6, CountFacts DEF TxInStep
<1>9. StopInTime'
  <2>1. tx'.stopping = tx.stopping /\ tx'.counter = tx.counter /\ tx'.pc = "finish"
    BY <1>4
  <2> QED
    BY <1>0, <1>1, <1>6, <2>1 DEF StopInTime
<1>10. Carried' = Carried
  <2>1. Len(txQueue') = 1 /\ Len(txQueue) = 0
    BY <1>1, <1>5
  <2> QED
    BY <1>0, <1>1, <1>4, <2>1, CountFacts DEF Carried
<1>11. /\ \E g \in 0..Posted' : Window(g)' /\ (~late' => g = Posted')
       /\ InBalance' /\ Posted' = Posted
  BY <1>0, <1>6, <1>10, WindowKept
<1>12. RxCounts' /\ RxPosts'
  BY <1>0, <1>6, <1>11 DEF RxCounts, RxPosts
<1> QED
  BY <1>0, <1>6, <1>7, <1>8, <1>9, <1>11, <1>12 DEF TestInv

\* ^C, in time or late.
LEMMA SigintStep == ASSUME TestInv, sigint PROVE TestInv'
<1>0. /\ TestTypeOK /\ InBalance /\ TxInStep /\ StopInTime /\ RxCounts /\ RxPosts /\ ~mismatch
      /\ \E g \in 0..Posted : Window(g) /\ (~late => g = Posted)
  BY DEF TestInv
<1>1. /\ num_transfers' = num_transfers /\ asked' = asked /\ tx' = tx
      /\ txQueue' = txQueue /\ txDone' = txDone
      /\ rx' = rx /\ rxQueue' = rxQueue /\ rxDone' = rxDone /\ rxData' = rxData
      /\ mismatch' = mismatch
  BY DEF sigint, channels
<1>2. ~stop /\ ~late /\ ~tx.stopping
  BY <1>0 DEF sigint, StopInTime
<1>3. stop' = TRUE /\ late' = (tx.counter + RxBuffers >= num_transfers)
  BY DEF sigint
<1>4. TestTypeOK'
  <2>1. stop' \in BOOLEAN /\ late' \in BOOLEAN
    BY <1>3
  <2> QED
    BY <1>0, <1>1, <2>1, Zenon DEF TestTypeOK
<1>5. TxInStep'
  BY <1>0, <1>1 DEF TxInStep
<1>6. StopInTime'
  <2> SUFFICES ASSUME ~late' PROVE tx.counter + RxBuffers < num_transfers
    BY <1>0, <1>1, <1>3, CountFacts DEF StopInTime
  <2>1. ~(tx.counter + RxBuffers >= num_transfers)
    BY <1>3
  <2> QED
    BY <1>0, <2>1, CountFacts
<1>7. Carried' = Carried
  BY <1>1 DEF Carried
<1>8. /\ \E g \in 0..Posted' : Window(g)' /\ (~late' => g = Posted')
      /\ InBalance' /\ Posted' = Posted
  BY <1>0, <1>1, <1>2, <1>7, WindowKept
<1>9. RxCounts' /\ RxPosts'
  BY <1>0, <1>1, <1>2, <1>8 DEF RxCounts, RxPosts
<1> QED
  BY <1>0, <1>1, <1>4, <1>5, <1>6, <1>8, <1>9 DEF TestInv

-----------------------------------------------------------------------------
\* The loopback fills the buffer posted first with the word sent first.
LEMMA LoopbackStep == ASSUME TestInv, TxBuffers = 1, Loopback PROVE TestInv'
<1>0. /\ TestTypeOK /\ InBalance /\ TxInStep /\ StopInTime /\ RxCounts /\ RxPosts /\ ~mismatch
      /\ \E g \in 0..Posted : Window(g) /\ (~late => g = Posted)
  BY DEF TestInv
<1> DEFINE h == Head(rxQueue)
<1>1. /\ tx.pc = "finish" /\ tx.in_progress = 1 /\ tx.buffer_id = 0
      /\ txQueue = <<<<0, tx.counter>>>> /\ txDone = {}
  BY <1>0 DEF Loopback, TxInStep
<1>2. /\ num_transfers' = num_transfers /\ stop' = stop /\ late' = late /\ asked' = asked
      /\ tx' = tx /\ rx' = rx /\ mismatch' = mismatch
  BY DEF Loopback
<1>3. /\ txQueue' = <<>> /\ txDone' = {0}
      /\ rxQueue' = Tail(rxQueue) /\ rxDone' = rxDone \cup {h}
      /\ rxData' = [rxData EXCEPT ![h] = tx.counter]
  <2>1. Head(txQueue)[1] = 0 /\ Head(txQueue)[2] = tx.counter /\ Tail(txQueue) = <<>>
    BY <1>1
  <2> QED
    BY <1>1, <2>1 DEF Loopback
<1>c. /\ rx.counter \in Nat /\ Carried \in Int /\ RxBuffers \in Nat \ {0}
      /\ Len(rxQueue) \in Nat /\ Posted \in Nat
  BY <1>0, CountFacts
<1>4. /\ h = rxQueue[1] /\ h \in 0..RxBuffers-1 /\ Len(rxQueue) >= 1
      /\ rxQueue' \in Seq(0..RxBuffers-1) /\ Len(rxQueue') = Len(rxQueue) - 1
      /\ \A i \in 1..Len(rxQueue)-1 : rxQueue'[i] = rxQueue[i+1]
  <2>1. rxQueue \in Seq(0..RxBuffers-1) /\ rxQueue # <<>>
    BY <1>0 DEF Loopback, TestTypeOK
  <2> QED
    BY <1>3, <2>1, FirstServed
<1>5. TestTypeOK'
  <2>1. txQueue' \in Seq((0..TxBuffers-1) \X Nat) /\ txDone' \subseteq 0..TxBuffers-1
    BY <1>3
  <2>2. rxDone' \subseteq 0..RxBuffers-1 /\ rxData' \in [0..RxBuffers-1 -> Nat]
    BY <1>0, <1>3, <1>4, CountFacts DEF TestTypeOK
  <2> QED
    BY <1>0, <1>2, <1>4, <2>1, <2>2, Zenon DEF TestTypeOK
<1>6. TxInStep' /\ StopInTime'
  BY <1>0, <1>1, <1>2, <1>3 DEF TxInStep, StopInTime
<1>7. Posted' = Posted /\ Carried = tx.counter /\ Carried' = Carried + 1
  <2>1. Len(txQueue) = 1 /\ Len(txQueue') = 0
    BY <1>1, <1>3
  <2>2. tx.in_progress = 1 /\ tx.counter \in Nat
    BY <1>0, <1>1, CountFacts
  <2> QED
    BY <1>2, <2>1, <2>2 DEF Posted, Carried
<1>8. InBalance'
  <2>1. Carried = Posted - Len(rxQueue)
    BY <1>0 DEF InBalance
  <2>2. Carried' = Posted' - Len(rxQueue')
    BY <1>4, <1>7, <1>c, <2>1
  <2> QED
    BY <2>2 DEF InBalance
<1>9. RxCounts' /\ RxPosts'
  BY <1>0, <1>2, <1>7 DEF RxCounts, RxPosts
<1>10. PICK g \in 0..Posted : Window(g) /\ (~late => g = Posted)
  BY <1>0
<1>11. RxBase' = RxBase /\ \A b : Offset(b)' = Offset(b)
  BY <1>2 DEF RxBase, NextBuffer, Offset
<1>12. RingUpTo(g)'
  <2>1. RingUpTo(g)
    BY <1>10 DEF Window
  <2>2. /\ rx.counter <= Carried => rx.counter <= Carried'
        /\ rx.counter < Carried => rx.counter < Carried'
    BY <1>7, <1>c
  <2>3. rx' = rx /\ Posted' = Posted
    BY <1>2, <1>7
  <2> QED
    BY <2>1, <2>2, <2>3 DEF RingUpTo
<1>13. QueueUpTo(g)'
  <2>1. ASSUME NEW i \in 1..Len(rxQueue')
        PROVE  rxQueue'[i] = rxQueue[i+1] /\ i + 1 \in 1..Len(rxQueue)
    <3>1. i \in 1..Len(rxQueue)-1
      BY <1>4
    <3>2. rxQueue'[i] = rxQueue[i+1]
      BY <1>4, <3>1
    <3>3. i + 1 \in 1..Len(rxQueue)
      BY <1>c, <3>1
    <3> QED
      BY <3>2, <3>3
  <2>2. ASSUME NEW i \in 1..Len(rxQueue')
        PROVE  IF Carried' + i - 1 < g THEN Offset(rxQueue'[i]) = Carried' + i - 1 - rx.counter
                                       ELSE Offset(rxQueue'[i]) > g - rx.counter
    <3>0. i \in Int /\ i + 1 \in 1..Len(rxQueue)
      BY <1>4, <1>c, <2>1
    <3>1. PICK j \in 1..Len(rxQueue) : j = i + 1
      BY <3>0
    <3>2. IF Carried + j - 1 < g THEN Offset(rxQueue[j]) = Carried + j - 1 - rx.counter
                                 ELSE Offset(rxQueue[j]) > g - rx.counter
      BY <1>10, Zenon DEF Window, QueueUpTo
    <3>3. rxQueue'[i] = rxQueue[j]
      BY <2>1, <3>1
    <3>4. Carried' = Carried + 1 /\ Carried \in Int /\ rx.counter \in Nat
      BY <1>7, <1>c
    <3>5. /\ Carried' + i - 1 = Carried + j - 1
          /\ Carried' + i - 1 - rx.counter = Carried + j - 1 - rx.counter
      <4>1. i \in Int /\ j \in Int /\ Carried \in Int /\ rx.counter \in Int
        BY <3>0, <3>1, <3>4
      <4>2. PICK c \in Int : c = Carried'
        BY <3>4, <4>1
      <4>3. c = Carried + 1 /\ j = i + 1
        BY <3>1, <3>4, <4>2
      <4>4. c + i - 1 = Carried + j - 1
        BY <4>1, <4>3
      <4>5. c + i - 1 - rx.counter = Carried + j - 1 - rx.counter
        BY <4>1, <4>3
      <4> QED
        BY <4>2, <4>4, <4>5
    <3> QED
      BY <3>2, <3>3, <3>5, Zenon
  <2> QED
    BY <1>2, <1>11, <2>2, Zenon DEF QueueUpTo
<1>14. /\ Carried < g => Offset(h) = Carried - rx.counter
       /\ ~(Carried < g) => g < Posted /\ Offset(h) > g - rx.counter
  <2>1. 1 \in 1..Len(rxQueue) /\ Carried + 1 - 1 = Carried /\ Carried < Posted
    <3>1. Carried = Posted - Len(rxQueue)
      BY <1>0 DEF InBalance
    <3> QED
      BY <1>4, <1>c, <3>1
  <2>2. IF Carried + 1 - 1 < g THEN Offset(rxQueue[1]) = Carried + 1 - 1 - rx.counter
                               ELSE Offset(rxQueue[1]) > g - rx.counter
    BY <1>10, <2>1, Zenon DEF Window, QueueUpTo
  <2> QED
    BY <1>4, <1>c, <2>1, <2>2
<1>15. ASSUME NEW k \in 0..RxBuffers-1
       PROVE  Arrived(g, k)' <=> Arrived(g, k) \/ (Carried < g /\ k = Carried - rx.counter)
  <2>1. rx.counter <= Carried /\ (rx.pc = "count" => rx.counter < Carried)
    BY <1>10 DEF Window, RingUpTo
  <2>2. /\ rx.counter + k < Carried' <=> rx.counter + k < Carried \/ k = Carried - rx.counter
        /\ rx.pc = "count" /\ k = Carried - rx.counter => k >= 1
        /\ k = Carried - rx.counter => rx.counter + k = Carried
    BY <1>7, <1>c, <2>1
  <2>3. Arrived(g, k)' <=> /\ rx.counter + k < g /\ rx.counter + k < Carried'
                           /\ rx.pc = "count" => k >= 1
    BY <1>2 DEF Arrived
  <2> QED
    BY <2>2, <2>3, Zenon DEF Arrived
<1>16. DoneUpTo(g)'
  <2>1. ASSUME NEW b \in rxDone'
        PROVE  Arrived(g, Offset(b))' \/ (g < Posted /\ Offset(b) > g - rx.counter)
    <3>1. Offset(b) \in 0..RxBuffers-1 /\ b \in 0..RxBuffers-1
      BY <1>0, <1>5, OffsetFacts DEF TestTypeOK
    <3>2. CASE b \in rxDone
      BY <1>10, <1>11, <1>15, <3>1, <3>2 DEF Window, DoneUpTo, Arrived
    <3>3. CASE b = h
      BY <1>11, <1>14, <1>15, <3>1, <3>3 DEF Arrived
    <3> QED
      BY <1>3, <3>2, <3>3
  <2>2. ASSUME NEW b \in 0..RxBuffers-1, Arrived(g, Offset(b))'
        PROVE  b \in rxDone' /\ rxData'[b] = rx.counter + Offset(b)
    <3>1. Offset(b) \in 0..RxBuffers-1 /\ Offset(h) \in 0..RxBuffers-1
      BY <1>0, <1>4, OffsetFacts
    <3>2. Arrived(g, Offset(b)) \/ (Carried < g /\ Offset(b) = Carried - rx.counter)
      BY <1>11, <1>15, <2>2, <3>1 DEF Arrived
    <3>3. CASE Carried < g /\ Offset(b) = Carried - rx.counter
      <4>1. b = h
        BY <1>0, <1>4, <1>14, <3>3, OffsetFacts
      <4>2. rxData'[b] = tx.counter
        BY <1>0, <1>3, <1>4, <4>1 DEF TestTypeOK
      <4>3. b \in rxDone'
        BY <1>3, <4>1
      <4>4. Offset(b) \in Int /\ rx.counter + Offset(b) = Carried
        BY <1>c, <3>1, <3>3
      <4> QED
        BY <1>7, <4>2, <4>3, <4>4
    <3>4. CASE Arrived(g, Offset(b))
      <4>1. b \in rxDone /\ rxData[b] = rx.counter + Offset(b)
        BY <1>10, <3>4 DEF Window, DoneUpTo
      <4>2. b # h
        <5>1. rx.counter + Offset(b) < g /\ rx.counter + Offset(b) < Carried
          BY <3>4 DEF Arrived
        <5>2. rx.counter + Offset(h) >= g \/ rx.counter + Offset(h) >= Carried
          BY <1>14, <1>c, <3>1
        <5>3. ~(rx.counter + Offset(h) < g /\ rx.counter + Offset(h) < Carried)
          BY <1>c, <3>1, <5>2
        <5> QED
          BY <5>1, <5>3, Zenon
      <4> QED
        BY <1>0, <1>3, <1>4, <4>1, <4>2 DEF TestTypeOK
    <3> QED
      BY <3>2, <3>3, <3>4
  <2> QED
    BY <1>2, <1>7, <1>11, <2>1, <2>2 DEF DoneUpTo, Arrived
<1>17. \E f \in 0..Posted' : Window(f)' /\ (~late' => f = Posted')
  BY <1>2, <1>7, <1>10, <1>12, <1>13, <1>16 DEF Window
<1> QED
  BY <1>0, <1>2, <1>5, <1>6, <1>8, <1>9, <1>17 DEF TestInv

\* A buffer the receive thread posts: if it is the next of the ring it extends the
\* window, if the window is shorter than the ring it stays outside.
LEMMA PostStep ==
  ASSUME TestInv, NEW g \in 0..Posted, Window(g), NEW f,
         rx.pc \in {"fill", "refill"}, RxStart(rx.buffer_id),
         rx'.pc \in {"fill", "finish"}, rx'.pc = "fill" => f = Posted + 1,
         rx'.counter = rx.counter, rx'.in_progress = rx.in_progress + 1,
         RxBase' = RxBase, tx' = tx,
         \/ /\ f = g + 1 /\ g = Posted /\ g - rx.counter < RxBuffers
            /\ Offset(rx.buffer_id) = g - rx.counter
         \/ /\ f = g /\ g - rx.counter < RxBuffers - 1
            /\ Offset(rx.buffer_id) > g - rx.counter
  PROVE  Window(f)' /\ InBalance' /\ Posted' = Posted + 1 /\ f \in 0..Posted + 1
<1>0. TestTypeOK /\ InBalance /\ RingUpTo(g) /\ QueueUpTo(g) /\ DoneUpTo(g)
  BY DEF TestInv, Window
<1>c. /\ rx.counter \in Nat /\ Carried \in Int /\ RxBuffers \in Nat \ {0}
      /\ Len(rxQueue) \in Nat /\ Posted \in Nat /\ g \in Nat
      /\ rx.in_progress \in Nat /\ rx.buffer_id \in 0..RxBuffers-1
  BY <1>0, CountFacts
<1>1. /\ rxQueue' \in Seq(0..RxBuffers-1) /\ Len(rxQueue') = Len(rxQueue) + 1
      /\ \A i \in 1..Len(rxQueue) : rxQueue'[i] = rxQueue[i]
      /\ rxQueue'[Len(rxQueue) + 1] = rx.buffer_id
  <2>1. rxQueue \in Seq(0..RxBuffers-1) /\ rxQueue' = Append(rxQueue, rx.buffer_id)
    BY <1>0 DEF RxStart, TestTypeOK
  <2> QED
    BY <1>c, <2>1, LastPosted
<1>2. /\ rxDone' = rxDone \ {rx.buffer_id} /\ rxData' = rxData /\ txQueue' = txQueue
  BY DEF RxStart
<1>3. Posted' = Posted + 1 /\ Carried' = Carried
  <2>1. Posted' = rx.counter + (rx.in_progress + 1)
    BY DEF Posted
  <2>2. Posted = rx.counter + rx.in_progress
    BY DEF Posted
  <2>3. Carried' = Carried
    BY <1>2 DEF Carried
  <2> QED
    BY <1>c, <2>1, <2>2, <2>3
<1>4. InBalance'
  BY <1>0, <1>1, <1>3, <1>c DEF InBalance
<1>5. \A b : Offset(b)' = Offset(b)
  BY DEF Offset
<1>6. f \in Nat /\ g <= f /\ f <= Posted + 1 /\ g <= Posted
  BY <1>c
<1>7. RingUpTo(f)'
  <2>1. /\ rx.counter <= g /\ rx.counter <= Carried
    BY <1>0 DEF RingUpTo
  <2>2. /\ f - rx.counter <= RxBuffers
        /\ f < Posted + 1 => f - rx.counter < RxBuffers
    BY <1>c, <1>6
  <2> QED
    BY <1>3, <1>6, <1>c, <2>1, <2>2 DEF RingUpTo
<1>8. QueueUpTo(f)'
  <2>1. ASSUME NEW i \in 1..Len(rxQueue')
        PROVE  IF Carried + i - 1 < f THEN Offset(rxQueue'[i]) = Carried + i - 1 - rx.counter
                                      ELSE Offset(rxQueue'[i]) > f - rx.counter
    <3>0. i \in Int /\ (i \in 1..Len(rxQueue) \/ i = Len(rxQueue) + 1)
      BY <1>1, <1>c
    <3>1. CASE i \in 1..Len(rxQueue)
      <4>1. IF Carried + i - 1 < g THEN Offset(rxQueue[i]) = Carried + i - 1 - rx.counter
                                   ELSE Offset(rxQueue[i]) > g - rx.counter
        BY <1>0, <3>1, Zenon DEF QueueUpTo
      <4>2. rxQueue'[i] = rxQueue[i]
        BY <1>1, <3>1
      <4>3. Carried + i <= Posted
        BY <1>0, <1>c, <3>0, <3>1 DEF InBalance
      <4> QED
        BY <1>c, <1>6, <3>0, <4>1, <4>2, <4>3
    <3>2. CASE i = Len(rxQueue) + 1
      <4>1. rxQueue'[i] = rx.buffer_id /\ Carried + i = Posted + 1
        BY <1>0, <1>1, <1>c, <3>2 DEF InBalance
      <4>2. Offset(rxQueue'[i]) = Offset(rx.buffer_id)
        BY <4>1
      <4>0. Carried + i - 1 = Posted
        BY <1>c, <3>0, <4>1
      <4>3. CASE f = g + 1 /\ g = Posted /\ Offset(rx.buffer_id) = g - rx.counter
        <5>1. Carried + i - 1 < f
          BY <1>c, <4>0, <4>3
        <5>2. Carried + i - 1 - rx.counter = Posted - rx.counter
          <6>1. Carried \in Int /\ i \in Int /\ Posted \in Int /\ rx.counter \in Int
            BY <1>c, <3>0
          <6> QED
            BY <4>0, <6>1
        <5>3. Offset(rxQueue'[i]) = Carried + i - 1 - rx.counter
          BY <4>2, <4>3, <5>2
        <5> QED
          BY <5>1, <5>3
      <4>4. CASE f = g /\ Offset(rx.buffer_id) > g - rx.counter
        <5>1. ~(Carried + i - 1 < f)
          BY <1>6, <1>c, <4>0, <4>4
        <5> QED
          BY <4>2, <4>4, <5>1
      <4> QED
        BY <4>3, <4>4
    <3> QED
      BY <3>0, <3>1, <3>2
  <2> QED
    BY <1>3, <1>5, <2>1, Zenon DEF QueueUpTo
<1>9. ASSUME NEW k \in 0..RxBuffers-1
      PROVE  /\ Arrived(g, k) => Arrived(f, k)' /\ k < g - rx.counter
             /\ Arrived(f, k)' => Arrived(g, k)
  <2>1. Carried <= Posted
    BY <1>0, <1>c DEF InBalance
  <2>2. /\ Arrived(g, k) <=> /\ rx.counter + k < g /\ rx.counter + k < Carried
                             /\ rx.pc = "count" => k >= 1
        /\ Arrived(f, k)' <=> /\ rx.counter + k < f /\ rx.counter + k < Carried
                              /\ rx'.pc = "count" => k >= 1
    BY <1>3 DEF Arrived
  <2>3. rx.pc # "count" /\ rx'.pc # "count"
    OBVIOUS
  <2> QED
    BY <1>c, <1>6, <2>1, <2>2, <2>3
<1>10. DoneUpTo(f)'
  <2>1. ASSUME NEW b \in rxDone \ {rx.buffer_id}
        PROVE  Arrived(f, Offset(b))' \/ (f < Posted + 1 /\ Offset(b) > f - rx.counter)
    <3>1. b \in 0..RxBuffers-1 /\ Offset(b) \in 0..RxBuffers-1
      BY <1>0, OffsetFacts DEF TestTypeOK
    <3>2. Arrived(g, Offset(b)) \/ (g < Posted /\ Offset(b) > g - rx.counter)
      BY <1>0 DEF DoneUpTo
    <3>3. CASE Arrived(g, Offset(b))
      BY <1>5, <1>9, <3>1, <3>3 DEF Arrived
    <3>4. CASE g < Posted /\ Offset(b) > g - rx.counter
      <4>1. f = g
        BY <1>c, <3>4
      <4> QED
        BY <1>c, <3>4, <4>1
    <3> QED
      BY <3>2, <3>3, <3>4
  <2>2. ASSUME NEW b \in 0..RxBuffers-1, Arrived(f, Offset(b))'
        PROVE  b \in rxDone' /\ rxData'[b] = rx.counter + Offset(b)
    <3>1. Offset(b) \in 0..RxBuffers-1
      BY <1>0, OffsetFacts
    <3>2. Arrived(g, Offset(b)) /\ Offset(b) < g - rx.counter
      BY <1>5, <1>9, <2>2, <3>1 DEF Arrived
    <3>3. b \in rxDone /\ rxData[b] = rx.counter + Offset(b)
      BY <1>0, <3>2 DEF DoneUpTo
    <3>4. b # rx.buffer_id
      BY <1>c, <3>1, <3>2
    <3> QED
      BY <1>2, <3>3, <3>4
  <2> QED
    BY <1>2, <1>3, <1>5, <2>1, <2>2 DEF DoneUpTo, Arrived
<1> QED
  BY <1>3, <1>4, <1>6, <1>7, <1>8, <1>10, <1>c DEF Window

\* Posting the receive buffers for the first time (lines 216-230).
LEMMA RxFillStep ==
  ASSUME TestInv, RxFill, UNCHANGED <<stop, late, asked>> PROVE TestInv'
<1>0. /\ TestTypeOK /\ InBalance /\ TxInStep /\ StopInTime /\ RxCounts /\ RxPosts /\ ~mismatch
  BY DEF TestInv
<1>c. /\ rx.counter \in Nat /\ RxBuffers \in Nat \ {0} /\ Posted \in Nat
      /\ rx.in_progress \in Nat /\ rx.buffer_id \in 0..RxBuffers-1 /\ num_transfers \in Nat
  BY <1>0, CountFacts
<1>1. /\ rx.pc = "fill" /\ rx.counter = 0 /\ rx.buffer_id = rx.in_progress
      /\ rx.in_progress < RxBuffers
      /\ rx.in_progress = 0 \/ rx.in_progress < num_transfers
  BY <1>0 DEF RxFill, RxCounts
<1>2. /\ num_transfers' = num_transfers /\ stop' = stop /\ late' = late /\ asked' = asked
      /\ tx' = tx /\ mismatch' = mismatch
  BY DEF RxFill
<1>3. RxStart(rx.buffer_id)
  BY DEF RxFill
<1> DEFINE last == rx.in_progress + 1 >= num_transfers \/ rx.buffer_id + 1 = RxBuffers
<1>4. /\ last => rx' = [pc |-> "finish", buffer_id |-> 0,
                        counter |-> 0, in_progress |-> rx.in_progress + 1]
      /\ ~last => rx' = [pc |-> "fill", buffer_id |-> rx.buffer_id + 1,
                         counter |-> 0, in_progress |-> rx.in_progress + 1]
  <2>1. rx' = IF last
                THEN [rx EXCEPT !.in_progress = rx.in_progress + 1, !.buffer_id = 0,
                                !.pc = "finish"]
                ELSE [rx EXCEPT !.in_progress = rx.in_progress + 1,
                                !.buffer_id = rx.buffer_id + 1]
    <3>1. rx' = IF last
                  THEN [rx EXCEPT !.in_progress = rx.in_progress + 1, !.buffer_id = RxFirst,
                                  !.pc = "finish"]
                  ELSE [rx EXCEPT !.in_progress = rx.in_progress + 1, !.buffer_id = @ + 1]
      BY DEF RxFill
    <3> QED
      BY <3>1 DEF RxFirst
  <2> HIDE DEF last
  <2> QED
    BY <1>0, <1>1, <2>1, Fields
<1>5. /\ rx'.counter = 0 /\ rx'.in_progress = rx.in_progress + 1
      /\ rx'.pc = IF last THEN "finish" ELSE "fill"
      /\ rx'.buffer_id = IF last THEN 0 ELSE rx.buffer_id + 1
  <2> HIDE DEF last
  <2>1. CASE last
    BY <1>4, <2>1
  <2>2. CASE ~last
    BY <1>4, <2>2
  <2> QED
    BY <2>1, <2>2
<1>6. RxBase = 0 /\ RxBase' = 0
  <2>1. RxBase = 0
    BY <1>1 DEF RxBase
  <2> HIDE DEF last
  <2>2. CASE last
    BY <1>5, <2>1, <2>2 DEF RxBase
  <2>3. CASE ~last
    BY <1>5, <2>1, <2>3 DEF RxBase
  <2> QED
    BY <2>1, <2>2, <2>3
<1>7. PICK g \in 0..Posted : Window(g) /\ (~late => g = Posted)
  BY DEF TestInv
<1>8. g = Posted /\ Posted = rx.in_progress
  BY <1>1, <1>7, <1>c DEF Window, RingUpTo, Posted
<1>9. Offset(rx.buffer_id) = g - rx.counter /\ g - rx.counter < RxBuffers
  BY <1>1, <1>6, <1>8, <1>c DEF Offset
<1>10. Window(g + 1)' /\ InBalance' /\ Posted' = Posted + 1 /\ g + 1 \in 0..Posted + 1
  <2>1. rx'.pc \in {"fill", "finish"}
    BY <1>5
  <2> HIDE DEF last
  <2> QED
    BY <1>1, <1>2, <1>3, <1>5, <1>6, <1>7, <1>8, <1>9, <2>1, PostStep
<1>11. RxCounts' /\ RxPosts'
  <2>1. CASE last
    <3>1. rx'.in_progress \in 1..RxBuffers
      BY <1>1, <1>5, <1>c
    <3>2. Posted' >= num_transfers \/ rx'.in_progress = RxBuffers
      BY <1>1, <1>5, <1>8, <1>10, <1>c, <2>1
    <3>3. Posted' <= num_transfers \/ Posted' <= 1
      BY <1>1, <1>8, <1>10, <1>c
    <3> HIDE DEF last
    <3> QED
      BY <1>2, <1>5, <2>1, <3>1, <3>2, <3>3 DEF RxCounts, RxPosts
  <2>2. CASE ~last
    <3>1. /\ rx'.pc = "fill" /\ rx'.buffer_id = rx'.in_progress /\ rx'.in_progress < RxBuffers
          /\ rx'.in_progress < num_transfers
      BY <1>1, <1>5, <1>c, <2>2
    <3>2. Posted' <= num_transfers
      BY <1>5, <1>8, <1>10, <1>c, <3>1
    <3> HIDE DEF last
    <3> QED
      BY <1>2, <1>5, <2>2, <3>1, <3>2 DEF RxCounts, RxPosts
  <2> QED
    BY <2>1, <2>2
<1>12. TestTypeOK'
  <2>1. rx' \in RxStates
    <3>1. CASE last
      <4> HIDE DEF last
      <4> QED
        BY <1>4, <1>c, <3>1 DEF RxStates
    <3>2. CASE ~last
      <4>1. rx.buffer_id + 1 \in 0..RxBuffers-1
        BY <1>c, <3>2
      <4> HIDE DEF last
      <4> QED
        BY <1>4, <1>c, <3>2, <4>1 DEF RxStates
    <3> QED
      BY <3>1, <3>2
  <2>2. /\ rxQueue' \in Seq(0..RxBuffers-1) /\ rxDone' \subseteq 0..RxBuffers-1
        /\ rxData' = rxData /\ txQueue' = txQueue /\ txDone' = txDone
    <3>1. rxQueue \in Seq(0..RxBuffers-1)
      BY <1>0 DEF TestTypeOK
    <3>2. rxQueue' \in Seq(0..RxBuffers-1)
      BY <1>3, <1>c, <3>1, LastPosted DEF RxStart
    <3> QED
      BY <1>0, <1>3, <3>2 DEF RxStart, TestTypeOK
  <2> QED
    BY <1>0, <1>2, <2>1, <2>2, Zenon DEF TestTypeOK
<1>13. TxInStep' /\ StopInTime'
  BY <1>0, <1>2, <1>3 DEF TxInStep, StopInTime, RxStart
<1> QED
  <2>1. \E e \in 0..Posted' : Window(e)' /\ (~late' => e = Posted')
    BY <1>8, <1>10
  <2> QED
    BY <1>0, <1>2, <1>10, <1>11, <1>12, <1>13, <2>1 DEF TestInv

\* The wait and the verification: what is there is the word sent for this transfer
\* (lines 239-259).
LEMMA RxFinishStep ==
  ASSUME TestInv, RxFinish, UNCHANGED <<stop, late, asked>> PROVE TestInv'
<1>0. /\ TestTypeOK /\ InBalance /\ TxInStep /\ StopInTime /\ RxCounts /\ RxPosts /\ ~mismatch
  BY DEF TestInv
<1>c. /\ rx.counter \in Nat /\ RxBuffers \in Nat \ {0} /\ Posted \in Nat /\ Carried \in Int
      /\ rx.in_progress \in Nat /\ rx.buffer_id \in 0..RxBuffers-1 /\ num_transfers \in Nat
  BY <1>0, CountFacts
<1>1. rx.pc = "finish" /\ rx.buffer_id \in rxDone
  BY DEF RxFinish
<1>2. /\ num_transfers' = num_transfers /\ stop' = stop /\ late' = late /\ asked' = asked
      /\ tx' = tx /\ txQueue' = txQueue /\ txDone' = txDone /\ rxQueue' = rxQueue
      /\ rxData' = rxData /\ rxDone' = rxDone \ {rx.buffer_id}
      /\ mismatch' = (mismatch \/ rxData[rx.buffer_id] # rx.counter)
  BY DEF RxFinish
<1>3. rx' = [pc |-> "count", buffer_id |-> rx.buffer_id,
             counter |-> rx.counter, in_progress |-> rx.in_progress]
  <2>1. rx' = [rx EXCEPT !.pc = "count"]
    BY DEF RxFinish
  <2> QED
    BY <1>0, <2>1, Fields
<1>4. /\ Posted' = Posted /\ Carried' = Carried
      /\ RxBase = rx.buffer_id /\ RxBase' = rx.buffer_id
  BY <1>1, <1>2, <1>3 DEF Posted, Carried, RxBase
<1>5. /\ \A b : Offset(b)' = Offset(b)
      /\ Offset(rx.buffer_id) = 0
      /\ \A b \in 0..RxBuffers-1 : Offset(b) \in 0..RxBuffers-1
      /\ \A b \in 0..RxBuffers-1 : Offset(b) = 0 => b = rx.buffer_id
  <2>1. \A b : Offset(b)' = Offset(b)
    BY <1>4 DEF Offset
  <2> QED
    BY <1>0, <1>4, <1>c, <2>1, OffsetFacts
<1>6. PICK g \in 0..Posted : Window(g) /\ (~late => g = Posted)
  BY DEF TestInv
<1>7. /\ RingUpTo(g) /\ QueueUpTo(g) /\ DoneUpTo(g) /\ g \in Nat
  BY <1>6, <1>c DEF Window
<1>8. Arrived(g, 0)
  <2>1. Arrived(g, 0) \/ (g < Posted /\ 0 > g - rx.counter)
    BY <1>1, <1>5, <1>7 DEF DoneUpTo
  <2> QED
    BY <1>7, <1>c, <2>1 DEF RingUpTo
<1>9. rx.counter < g /\ rx.counter < Carried
  BY <1>8, <1>c DEF Arrived
<1>10. ~mismatch' /\ mismatch' \in BOOLEAN
  <2>1. rxData[rx.buffer_id] = rx.counter + 0
    BY <1>5, <1>7, <1>8, <1>c DEF DoneUpTo
  <2>2. rxData[rx.buffer_id] = rx.counter
    BY <1>c, <2>1
  <2> QED
    BY <1>0, <1>2, <2>2, Zenon
<1>11. RingUpTo(g)'
  BY <1>1, <1>3, <1>4, <1>7, <1>9 DEF RingUpTo
<1>12. QueueUpTo(g)'
  BY <1>2, <1>3, <1>4, <1>5, <1>7 DEF QueueUpTo
<1>13. DoneUpTo(g)'
  <2>1. ASSUME NEW k \in 0..RxBuffers-1
        PROVE  Arrived(g, k)' <=> Arrived(g, k) /\ k # 0
    <3>1. /\ Arrived(g, k) <=> rx.counter + k < g /\ rx.counter + k < Carried
          /\ Arrived(g, k)' <=> rx.counter + k < g /\ rx.counter + k < Carried /\ k >= 1
      BY <1>1, <1>3, <1>4 DEF Arrived
    <3> QED
      BY <1>c, <3>1
  <2>2. ASSUME NEW b \in rxDone, b # rx.buffer_id
        PROVE  Arrived(g, Offset(b))' \/ (g < Posted /\ Offset(b) > g - rx.counter)
    <3>1. b \in 0..RxBuffers-1
      BY <1>0 DEF TestTypeOK
    <3>2. Offset(b) \in 0..RxBuffers-1 /\ Offset(b) # 0
      BY <1>5, <2>2, <3>1
    <3> QED
      BY <1>5, <1>7, <2>1, <3>2 DEF DoneUpTo, Arrived
  <2>3. ASSUME NEW b \in 0..RxBuffers-1, Arrived(g, Offset(b))'
        PROVE  b \in rxDone /\ b # rx.buffer_id /\ rxData[b] = rx.counter + Offset(b)
    <3>1. Arrived(g, Offset(b)) /\ Offset(b) # 0
      BY <1>5, <2>1, <2>3 DEF Arrived
    <3> QED
      BY <1>5, <1>7, <3>1 DEF DoneUpTo
  <2> QED
    BY <1>2, <1>3, <1>4, <1>5, <2>2, <2>3 DEF DoneUpTo, Arrived
<1>14. RxCounts' /\ RxPosts'
  BY <1>0, <1>1, <1>2, <1>3, <1>4 DEF RxCounts, RxPosts
<1>15. TestTypeOK'
  <2>1. rx' \in RxStates /\ rxDone' \subseteq 0..RxBuffers-1 /\ mismatch' \in BOOLEAN
    BY <1>0, <1>2, <1>3, <1>10, <1>c DEF RxStates, TestTypeOK
  <2> QED
    BY <1>0, <1>2, <2>1, Zenon DEF TestTypeOK
<1>16. TxInStep' /\ StopInTime' /\ InBalance'
  BY <1>0, <1>2, <1>4 DEF TxInStep, StopInTime, InBalance
<1> QED
  <2>1. \E e \in 0..Posted' : Window(e)' /\ (~late' => e = Posted')
    BY <1>2, <1>4, <1>6, <1>11, <1>12, <1>13 DEF Window
  <2> QED
    BY <1>10, <1>14, <1>15, <1>16, <2>1 DEF TestInv

\* A wait that times out ends the process (lines 241-245).
LEMMA RxTimeoutStep ==
  ASSUME TestInv, RxTimeout, UNCHANGED <<stop, late, asked>> PROVE TestInv'
<1>0. /\ TestTypeOK /\ InBalance /\ TxInStep /\ StopInTime /\ RxCounts /\ RxPosts /\ ~mismatch
  BY DEF TestInv
<1>1. rx.pc = "finish"
  BY DEF RxTimeout
<1>2. /\ num_transfers' = num_transfers /\ stop' = stop /\ late' = late /\ asked' = asked
      /\ tx' = tx /\ txQueue' = txQueue /\ txDone' = txDone /\ rxQueue' = rxQueue
      /\ rxData' = rxData /\ rxDone' = rxDone /\ mismatch' = mismatch
  BY DEF RxTimeout, channels
<1>3. rx' = [pc |-> "exit(1)", buffer_id |-> rx.buffer_id,
             counter |-> rx.counter, in_progress |-> rx.in_progress]
  <2>1. rx' = [rx EXCEPT !.pc = "exit(1)"]
    BY DEF RxTimeout
  <2> QED
    BY <1>0, <2>1, Fields
<1>4. /\ Posted' = Posted /\ Carried' = Carried /\ RxBase' = RxBase
  BY <1>1, <1>2, <1>3 DEF Posted, Carried, RxBase
<1>5. PICK g \in 0..Posted : Window(g) /\ (~late => g = Posted)
  BY DEF TestInv
<1>6. Window(g)'
  BY <1>1, <1>2, <1>3, <1>4, <1>5 DEF Window, RingUpTo, QueueUpTo, DoneUpTo, Arrived, Offset
<1>7. RxCounts' /\ RxPosts'
  BY <1>0, <1>1, <1>2, <1>3, <1>4 DEF RxCounts, RxPosts
<1>8. TestTypeOK'
  <2>1. rx' \in RxStates
    BY <1>0, <1>3, CountFacts DEF RxStates
  <2> QED
    BY <1>0, <1>2, <2>1, Zenon DEF TestTypeOK
<1>9. TxInStep' /\ StopInTime' /\ InBalance'
  BY <1>0, <1>2, <1>4 DEF TxInStep, StopInTime, InBalance
<1> QED
  <2>1. \E e \in 0..Posted' : Window(e)' /\ (~late' => e = Posted')
    BY <1>2, <1>4, <1>5, <1>6
  <2> QED
    BY <1>0, <1>2, <1>7, <1>8, <1>9, <2>1 DEF TestInv

\* The count of the transfers, and the last one (lines 264-269).
LEMMA RxCountStep ==
  ASSUME TestInv, RxCount, UNCHANGED <<stop, late, asked>> PROVE TestInv'
<1>0. /\ TestTypeOK /\ InBalance /\ TxInStep /\ StopInTime /\ RxCounts /\ RxPosts /\ ~mismatch
  BY DEF TestInv
<1>c. /\ rx.counter \in Nat /\ RxBuffers \in Nat \ {0} /\ Posted \in Nat /\ Carried \in Int
      /\ rx.in_progress \in Nat /\ rx.buffer_id \in 0..RxBuffers-1 /\ num_transfers \in Nat
      /\ Len(rxQueue) \in Nat
  BY <1>0, CountFacts
<1>1. rx.pc = "count" /\ rx.in_progress \in 1..RxBuffers
  BY <1>0 DEF RxCount, RxCounts
<1>2. /\ num_transfers' = num_transfers /\ stop' = stop /\ late' = late /\ asked' = asked
      /\ tx' = tx /\ txQueue' = txQueue /\ txDone' = txDone /\ rxQueue' = rxQueue
      /\ rxData' = rxData /\ rxDone' = rxDone /\ mismatch' = mismatch
  BY DEF RxCount, channels
<1> DEFINE p == IF RxLast THEN "exit" ELSE "refill"
<1>3. rx' = [pc |-> p, buffer_id |-> rx.buffer_id,
             counter |-> rx.counter + 1, in_progress |-> rx.in_progress - 1]
  <2>1. rx' = [rx EXCEPT !.in_progress = rx.in_progress - 1, !.counter = rx.counter + 1,
                         !.pc = p]
    BY DEF RxCount
  <2> HIDE DEF p
  <2> QED
    BY <1>0, <2>1, Fields
<1>4. p = "exit" \/ p = "refill"
  OBVIOUS
<1>5. /\ p = "exit" => rx.counter + 1 >= num_transfers
      /\ p = "refill" => rx.counter + 1 < num_transfers
  BY <1>c DEF RxLast
<1> HIDE DEF p
<1>6. /\ rx'.pc = p /\ rx'.buffer_id = rx.buffer_id
      /\ rx'.counter = rx.counter + 1 /\ rx'.in_progress = rx.in_progress - 1
  BY <1>3
<1>7. Posted' = Posted /\ Carried' = Carried
  BY <1>2, <1>6, <1>c DEF Posted, Carried
<1>8. /\ RxBase = rx.buffer_id
      /\ RxBase' = IF rx.buffer_id = RxBuffers - 1 THEN 0 ELSE rx.buffer_id + 1
  <2>1. RxBase = rx.buffer_id
    BY <1>1 DEF RxBase
  <2>2. RxBase' = NextBuffer(rx.buffer_id, RxBuffers)
    BY <1>4, <1>6 DEF RxBase, NextBuffer
  <2> QED
    BY <1>c, <2>1, <2>2, RingStep
<1>9. ASSUME NEW b \in 0..RxBuffers-1
      PROVE  /\ Offset(b) \in 0..RxBuffers-1
             /\ Offset(b)' = IF Offset(b) = 0 THEN RxBuffers - 1 ELSE Offset(b) - 1
  <2>1. PICK s \in 0..RxBuffers-1 : s = rx.buffer_id
    BY <1>c
  <2>2. PICK n \in 0..RxBuffers-1 : n = IF s = RxBuffers - 1 THEN 0 ELSE s + 1
    BY <1>c
  <2>3. /\ Offset(b) = IF b >= s THEN b - s ELSE b - s + RxBuffers
        /\ Offset(b)' = IF b >= n THEN b - n ELSE b - n + RxBuffers
    BY <1>8, <2>1, <2>2 DEF Offset
  <2>4. CASE b >= s
    <3>1. Offset(b) = b - s
      BY <2>3, <2>4
    <3> QED
      BY <1>c, <2>2, <2>3, <2>4, <3>1
  <2>5. CASE ~(b >= s)
    <3>1. Offset(b) = b - s + RxBuffers
      BY <2>3, <2>5
    <3> QED
      BY <1>c, <2>2, <2>3, <2>5, <3>1
  <2> QED
    BY <2>4, <2>5
<1>10. PICK g \in 0..Posted : Window(g) /\ (~late => g = Posted)
  BY DEF TestInv
<1>11. /\ RingUpTo(g) /\ QueueUpTo(g) /\ DoneUpTo(g) /\ g \in Nat
  BY <1>10, <1>c DEF Window
<1>12. rx.counter < g /\ rx.counter < Carried /\ g - rx.counter <= RxBuffers
  BY <1>1, <1>11 DEF RingUpTo
<1>13. RingUpTo(g)'
  <2>1. /\ rx.counter + 1 <= g /\ g - (rx.counter + 1) <= RxBuffers
        /\ rx.counter + 1 <= Carried
        /\ g < Posted => g - (rx.counter + 1) < RxBuffers - 1
    BY <1>11, <1>12, <1>c DEF RingUpTo
  <2> QED
    BY <1>4, <1>6, <1>7, <1>10, <1>11, <1>12, <1>c, <2>1 DEF RingUpTo
<1>14. QueueUpTo(g)'
  <2>1. ASSUME NEW i \in 1..Len(rxQueue)
        PROVE  IF Carried + i - 1 < g
                 THEN Offset(rxQueue[i])' = Carried + i - 1 - (rx.counter + 1)
                 ELSE Offset(rxQueue[i])' > g - (rx.counter + 1)
    <3>0. i \in Nat /\ i >= 1
      BY <1>c
    <3>1. PICK b \in 0..RxBuffers-1 : b = rxQueue[i]
      <4>1. rxQueue \in Seq(0..RxBuffers-1)
        BY <1>0 DEF TestTypeOK
      <4>2. rxQueue[i] \in 0..RxBuffers-1
        BY <4>1, ElementOfSeq
      <4> QED
        BY <4>2
    <3>2. Offset(rxQueue[i])' = Offset(b)'
      BY <1>2, <3>1 DEF Offset
    <3>3. IF Carried + i - 1 < g THEN Offset(b) = Carried + i - 1 - rx.counter
                                 ELSE Offset(b) > g - rx.counter
      BY <1>11, <3>1, Zenon DEF QueueUpTo
    <3>4. /\ Offset(b) \in 0..RxBuffers-1
          /\ Offset(b)' = IF Offset(b) = 0 THEN RxBuffers - 1 ELSE Offset(b) - 1
      BY <1>9
    <3>5. /\ rx.counter \in Int /\ Carried \in Int /\ g \in Int /\ RxBuffers \in Int
          /\ i \in Int /\ i >= 1 /\ Offset(b) \in Int
          /\ rx.counter < g /\ rx.counter < Carried
      BY <1>11, <1>12, <1>c, <3>0, <3>4
    <3>6. CASE Carried + i - 1 < g
      <4>1. Offset(b) = Carried + i - 1 - rx.counter
        BY <3>3, <3>6
      <4>2. Offset(b) # 0
        BY <3>5, <4>1
      <4>3. Offset(b)' = Carried + i - 1 - (rx.counter + 1)
        BY <3>4, <3>5, <4>1, <4>2
      <4> QED
        BY <3>2, <3>6, <4>3
    <3>7. CASE ~(Carried + i - 1 < g)
      <4>1. Offset(b) > g - rx.counter
        BY <3>3, <3>7
      <4>2. Offset(b) # 0
        BY <3>5, <4>1
      <4>3. Offset(b)' > g - (rx.counter + 1)
        BY <3>4, <3>5, <4>1, <4>2
      <4> QED
        BY <3>2, <3>7, <4>3
    <3> QED
      BY <3>6, <3>7
  <2> QED
    BY <1>2, <1>6, <1>7, <2>1, Zenon DEF QueueUpTo
<1>15. DoneUpTo(g)'
  <2>1. ASSUME NEW b \in 0..RxBuffers-1
        PROVE  /\ Arrived(g, Offset(b))' <=> /\ rx.counter + 1 + Offset(b)' < g
                                             /\ rx.counter + 1 + Offset(b)' < Carried
               /\ Arrived(g, Offset(b)) <=> /\ rx.counter + Offset(b) < g
                                            /\ rx.counter + Offset(b) < Carried
                                            /\ Offset(b) >= 1
    BY <1>1, <1>4, <1>6, <1>7 DEF Arrived
  <2>2. ASSUME NEW b \in 0..RxBuffers-1
        PROVE  /\ Arrived(g, Offset(b)) => Arrived(g, Offset(b))'
               /\ Arrived(g, Offset(b))' => Arrived(g, Offset(b)) /\ Offset(b)' = Offset(b) - 1
    <3>1. PICK k \in 0..RxBuffers-1 : k = Offset(b)
      BY <1>9
    <3>2. PICK n \in 0..RxBuffers-1 : n = Offset(b)'
      BY <1>9, <1>c
    <3>3. n = IF k = 0 THEN RxBuffers - 1 ELSE k - 1
      BY <1>9, <3>1, <3>2
    <3>4. /\ Arrived(g, Offset(b))' <=> rx.counter + 1 + n < g /\ rx.counter + 1 + n < Carried
          /\ Arrived(g, Offset(b)) <=> /\ rx.counter + k < g /\ rx.counter + k < Carried
                                       /\ k >= 1
      BY <2>1, <3>1, <3>2
    <3>5. CASE k = 0
      <4>1. n = RxBuffers - 1
        BY <3>3, <3>5
      <4>2. ~(rx.counter + 1 + n < g)
        BY <1>11, <1>12, <1>c, <4>1
      <4> QED
        BY <1>c, <3>4, <3>5, <4>2
    <3>6. CASE k # 0
      <4>1. n = k - 1 /\ k >= 1
        BY <3>3, <3>6
      <4>2. rx.counter + 1 + n = rx.counter + k
        BY <1>c, <4>1
      <4>3. Offset(b)' = Offset(b) - 1
        BY <3>1, <3>2, <4>1
      <4> QED
        BY <3>4, <4>1, <4>2, <4>3
    <3> QED
      BY <3>5, <3>6
  <2>3. ASSUME NEW b \in rxDone
        PROVE  Arrived(g, Offset(b))' \/ (g < Posted /\ Offset(b)' > g - (rx.counter + 1))
    <3>1. b \in 0..RxBuffers-1
      BY <1>0 DEF TestTypeOK
    <3>2. /\ Offset(b) \in 0..RxBuffers-1
          /\ Offset(b)' = IF Offset(b) = 0 THEN RxBuffers - 1 ELSE Offset(b) - 1
      BY <1>9, <3>1
    <3>3. CASE Arrived(g, Offset(b))
      BY <2>2, <3>1, <3>3
    <3>4. CASE g < Posted /\ Offset(b) > g - rx.counter
      <4>1. Offset(b)' > g - (rx.counter + 1)
        BY <1>11, <1>12, <1>c, <3>2, <3>4
      <4> QED
        BY <3>4, <4>1
    <3> QED
      BY <1>11, <3>3, <3>4 DEF DoneUpTo
  <2>4. ASSUME NEW b \in 0..RxBuffers-1, Arrived(g, Offset(b))'
        PROVE  b \in rxDone /\ rxData[b] = rx.counter + 1 + Offset(b)'
    <3>1. Arrived(g, Offset(b)) /\ Offset(b)' = Offset(b) - 1 /\ Offset(b) \in 0..RxBuffers-1
      BY <1>9, <2>2, <2>4
    <3>2. b \in rxDone /\ rxData[b] = rx.counter + Offset(b)
      BY <1>11, <3>1 DEF DoneUpTo
    <3> QED
      BY <1>c, <3>1, <3>2
  <2>5. /\ rxDone' = rxDone /\ rxData' = rxData /\ rx'.counter = rx.counter + 1
        /\ Posted' = Posted
    BY <1>2, <1>6, <1>7
  <2>6. \A b \in rxDone' :
          Arrived(g, Offset(b))' \/ (g < Posted' /\ Offset(b)' > g - rx'.counter)
    BY <2>3, <2>5
  <2>7. \A b \in 0..RxBuffers-1 : Arrived(g, Offset(b))' =>
          b \in rxDone' /\ rxData'[b] = rx'.counter + Offset(b)'
    BY <2>4, <2>5
  <2> QED
    BY <2>6, <2>7, Zenon DEF DoneUpTo
<1>16. RxCounts' /\ RxPosts'
  BY <1>0, <1>1, <1>2, <1>4, <1>5, <1>6, <1>7, <1>c DEF RxCounts, RxPosts
<1>17. TestTypeOK'
  <2>1. rx' \in RxStates
    BY <1>1, <1>3, <1>4, <1>c DEF RxStates
  <2> QED
    BY <1>0, <1>2, <2>1, Zenon DEF TestTypeOK
<1>18. TxInStep' /\ StopInTime' /\ InBalance'
  BY <1>0, <1>2, <1>7 DEF TxInStep, StopInTime, InBalance
<1> QED
  <2>1. \E e \in 0..Posted' : Window(e)' /\ (~late' => e = Posted')
    BY <1>2, <1>7, <1>10, <1>13, <1>14, <1>15 DEF Window
  <2> QED
    BY <1>0, <1>2, <1>16, <1>17, <1>18, <2>1 DEF TestInv

\* The repost of a buffer, if more transfers are needed (lines 274-290).
LEMMA RxRefillStep ==
  ASSUME TestInv, RxRefill, UNCHANGED <<stop, late, asked>> PROVE TestInv'
<1>0. /\ TestTypeOK /\ InBalance /\ TxInStep /\ StopInTime /\ RxCounts /\ RxPosts /\ ~mismatch
  BY DEF TestInv
<1>c. /\ rx.counter \in Nat /\ RxBuffers \in Nat \ {0} /\ Posted \in Nat
      /\ rx.in_progress \in Nat /\ rx.buffer_id \in 0..RxBuffers-1 /\ num_transfers \in Nat
  BY <1>0, CountFacts
<1>p. Posted = rx.counter + rx.in_progress
  BY DEF Posted
<1>1. rx.pc = "refill" /\ rx.counter < num_transfers /\ rx.in_progress < RxBuffers
  BY <1>0 DEF RxRefill, RxCounts
<1>2. /\ num_transfers' = num_transfers /\ stop' = stop /\ late' = late /\ asked' = asked
      /\ tx' = tx /\ mismatch' = mismatch
  BY DEF RxRefill
<1>3. PICK n \in 0..RxBuffers-1 : /\ n = NextBuffer(rx.buffer_id, RxBuffers)
                                  /\ n = IF rx.buffer_id = RxBuffers - 1 THEN 0
                                         ELSE rx.buffer_id + 1
  <2>1. NextBuffer(rx.buffer_id, RxBuffers)
          = IF rx.buffer_id = RxBuffers - 1 THEN 0 ELSE rx.buffer_id + 1
    BY <1>c, RingStep
  <2>2. NextBuffer(rx.buffer_id, RxBuffers) \in 0..RxBuffers-1
    BY <1>c, <2>1
  <2> QED
    BY <2>1, <2>2
<1>4. RxBase = n
  BY <1>1, <1>3 DEF RxBase
<1>5. PICK g \in 0..Posted : Window(g) /\ (~late => g = Posted)
  BY DEF TestInv
<1>6. /\ RingUpTo(g) /\ QueueUpTo(g) /\ DoneUpTo(g) /\ g \in Nat /\ rx.counter <= g
      /\ g < Posted => g - rx.counter < RxBuffers - 1
  BY <1>1, <1>5, <1>c DEF Window, RingUpTo
<1>7. CASE RxEnough
  <2>1. /\ txQueue' = txQueue /\ txDone' = txDone /\ rxQueue' = rxQueue
        /\ rxDone' = rxDone /\ rxData' = rxData
    BY <1>7 DEF RxRefill, channels
  <2>2. rx' = [pc |-> "finish", buffer_id |-> n,
               counter |-> rx.counter, in_progress |-> rx.in_progress]
    <3>1. rx' = [rx EXCEPT !.pc = "finish", !.buffer_id = n]
      BY <1>3, <1>7 DEF RxRefill
    <3> QED
      BY <1>0, <3>1, Fields
  <2>3. /\ rx'.pc = "finish" /\ rx'.buffer_id = n
        /\ rx'.counter = rx.counter /\ rx'.in_progress = rx.in_progress
    BY <2>2
  <2>4. Posted' = Posted /\ Carried' = Carried /\ RxBase' = n
    BY <1>2, <2>1, <2>3 DEF Posted, Carried, RxBase
  <2>5. \A b : Offset(b)' = Offset(b)
    BY <1>4, <2>4 DEF Offset
  <2>6. \A k : Arrived(g, k)' <=> Arrived(g, k)
    BY <1>1, <2>3, <2>4 DEF Arrived
  <2>7. RingUpTo(g)'
    BY <1>1, <1>6, <2>3, <2>4 DEF RingUpTo
  <2>8. QueueUpTo(g)'
    BY <1>6, <2>1, <2>3, <2>4, <2>5 DEF QueueUpTo
  <2>9. DoneUpTo(g)'
    BY <1>1, <1>6, <2>1, <2>3, <2>4, <2>5 DEF DoneUpTo, Arrived
  <2>10. rx.in_progress >= 1 /\ Posted >= num_transfers
    <3>1. rx.counter + rx.in_progress >= num_transfers
      BY <1>7 DEF RxEnough
    <3> QED
      BY <1>1, <1>c, <1>p, <3>1
  <2>11. RxCounts' /\ RxPosts'
    <3>1. rx'.in_progress \in 1..RxBuffers
      BY <1>1, <1>c, <2>3, <2>10
    <3>2. RxCounts'
      BY <2>3, <3>1 DEF RxCounts
    <3> QED
      BY <1>0, <1>2, <2>3, <2>4, <2>10, <3>2 DEF RxPosts
  <2>12. TestTypeOK'
    <3>1. rx' \in RxStates
      BY <1>c, <2>2 DEF RxStates
    <3> QED
      BY <1>0, <1>2, <2>1, <3>1, Zenon DEF TestTypeOK
  <2>13. TxInStep' /\ StopInTime' /\ InBalance'
    BY <1>0, <1>2, <2>1, <2>4 DEF TxInStep, StopInTime, InBalance
  <2>14. \E e \in 0..Posted' : Window(e)' /\ (~late' => e = Posted')
    BY <1>2, <1>5, <2>4, <2>7, <2>8, <2>9 DEF Window
  <2> QED
    BY <1>0, <1>2, <2>11, <2>12, <2>13, <2>14 DEF TestInv
<1>8. CASE ~RxEnough
  <2>1. RxStart(rx.buffer_id)
    BY <1>8 DEF RxRefill
  <2>2. rx' = [pc |-> "finish", buffer_id |-> n,
               counter |-> rx.counter, in_progress |-> rx.in_progress + 1]
    <3>1. rx' = [rx EXCEPT !.pc = "finish", !.in_progress = rx.in_progress + 1,
                           !.buffer_id = n]
      BY <1>3, <1>8 DEF RxRefill
    <3> QED
      BY <1>0, <3>1, Fields
  <2>3. /\ rx'.pc = "finish" /\ rx'.buffer_id = n
        /\ rx'.counter = rx.counter /\ rx'.in_progress = rx.in_progress + 1
    BY <2>2
  <2>4. RxBase' = RxBase
    BY <1>4, <2>3 DEF RxBase
  <2>5. Offset(rx.buffer_id) = RxBuffers - 1
    <3>1. CASE rx.buffer_id = RxBuffers - 1
      BY <1>3, <1>4, <1>c, <3>1 DEF Offset
    <3>2. CASE rx.buffer_id # RxBuffers - 1
      <4>1. n = rx.buffer_id + 1
        BY <1>3, <3>2
      <4> QED
        BY <1>4, <1>c, <4>1 DEF Offset
    <3> QED
      BY <3>1, <3>2
  <2>6. Posted < num_transfers
    BY <1>8, <1>c, <1>p DEF RxEnough
  <2>7. ~late => g = Posted /\ rx.in_progress = RxBuffers - 1
    <3>1. ~late => Posted >= num_transfers \/ rx.in_progress = RxBuffers - 1
      BY <1>0, <1>1 DEF RxPosts
    <3> QED
      BY <1>5, <1>c, <2>6, <3>1
  <2>8. \E f : /\ Window(f)' /\ InBalance' /\ Posted' = Posted + 1 /\ f \in 0..Posted + 1
               /\ ~late => f = Posted + 1
    <3>1. CASE g = Posted /\ rx.in_progress = RxBuffers - 1
      <4>1. g - rx.counter = RxBuffers - 1 /\ g - rx.counter < RxBuffers
        BY <1>c, <1>p, <3>1
      <4>2. Window(g + 1)' /\ InBalance' /\ Posted' = Posted + 1 /\ g + 1 \in 0..Posted + 1
        BY <1>1, <1>2, <1>5, <2>1, <2>3, <2>4, <2>5, <3>1, <4>1, PostStep
      <4> QED
        BY <3>1, <4>2
    <3>2. CASE ~(g = Posted /\ rx.in_progress = RxBuffers - 1)
      <4>1. g - rx.counter < RxBuffers - 1
        <5>1. CASE g = Posted
          BY <1>1, <1>c, <1>p, <3>2, <5>1
        <5>2. CASE g < Posted
          BY <1>6, <5>2
        <5> QED
          BY <1>c, <5>1, <5>2
      <4>2. Offset(rx.buffer_id) > g - rx.counter
        BY <1>6, <1>c, <2>5, <4>1
      <4>3. Window(g)' /\ InBalance' /\ Posted' = Posted + 1 /\ g \in 0..Posted + 1
        BY <1>1, <1>2, <1>5, <2>1, <2>3, <2>4, <4>1, <4>2, PostStep
      <4> QED
        BY <2>7, <3>2, <4>3
    <3> QED
      BY <3>1, <3>2
  <2>9. InBalance' /\ Posted' = Posted + 1
    BY <2>8
  <2>10. RxCounts' /\ RxPosts'
    <3>1. rx'.in_progress \in 1..RxBuffers
      BY <1>1, <1>c, <2>3
    <3>2. RxCounts'
      BY <2>3, <3>1 DEF RxCounts
    <3>3. Posted' <= num_transfers
      BY <1>c, <2>6, <2>9
    <3>4. ~late => rx'.in_progress = RxBuffers
      BY <1>c, <2>3, <2>7
    <3> QED
      BY <1>2, <2>3, <3>2, <3>3, <3>4 DEF RxPosts
  <2>11. /\ rxQueue' \in Seq(0..RxBuffers-1) /\ rxDone' \subseteq 0..RxBuffers-1
         /\ rxData' = rxData /\ txQueue' = txQueue /\ txDone' = txDone
    <3>1. rxQueue \in Seq(0..RxBuffers-1) /\ rxDone \subseteq 0..RxBuffers-1
      BY <1>0 DEF TestTypeOK
    <3>2. rxQueue' = Append(rxQueue, rx.buffer_id) /\ rxDone' = rxDone \ {rx.buffer_id}
      BY <2>1 DEF RxStart
    <3>3. rxQueue' \in Seq(0..RxBuffers-1)
      BY <1>c, <3>1, <3>2, LastPosted
    <3> QED
      BY <2>1, <3>1, <3>2, <3>3 DEF RxStart
  <2>12. TestTypeOK'
    <3>1. rx' \in RxStates
      BY <1>c, <2>2 DEF RxStates
    <3> QED
      BY <1>0, <1>2, <2>11, <3>1, Zenon DEF TestTypeOK
  <2>13. TxInStep' /\ StopInTime'
    BY <1>0, <1>2, <2>11 DEF TxInStep, StopInTime
  <2>14. \E e \in 0..Posted' : Window(e)' /\ (~late' => e = Posted')
    <3>1. PICK f : Window(f)' /\ f \in 0..Posted + 1 /\ (~late => f = Posted + 1)
      BY <2>8
    <3> QED
      BY <1>2, <2>9, <3>1
  <2> QED
    BY <1>0, <1>2, <2>9, <2>10, <2>12, <2>13, <2>14 DEF TestInv
<1> QED
  BY <1>7, <1>8

-----------------------------------------------------------------------------
\* Both threads start with nothing posted.
LEMMA TestStarts == ASSUME TxBuffers = 1, TestInit PROVE TestInv
<1>c. RxBuffers \in Nat \ {0} /\ MaxTransfers \in Nat
  BY TestAssumption
<1>1. TestTypeOK
  <2>1. tx \in TxStates /\ rx \in RxStates
    BY <1>c DEF TestInit, TxStates, RxStates
  <2>2. txQueue \in Seq((0..TxBuffers-1) \X Nat) /\ rxQueue \in Seq(0..RxBuffers-1)
    BY DEF TestInit
  <2>3. num_transfers \in Nat /\ asked \in 0..MaxTransfers /\ rxData \in [0..RxBuffers-1 -> Nat]
    BY <1>c DEF TestInit
  <2> QED
    BY <2>1, <2>2, <2>3 DEF TestInit, TestTypeOK
<1>2. /\ tx.pc = "fill" /\ tx.counter = 0 /\ tx.in_progress = 0 /\ tx.buffer_id = 0
      /\ tx.stopping = FALSE
      /\ rx.pc = "fill" /\ rx.counter = 0 /\ rx.in_progress = 0 /\ rx.buffer_id = 0
      /\ txQueue = <<>> /\ txDone = {} /\ rxQueue = <<>> /\ rxDone = {}
      /\ stop = FALSE /\ late = FALSE /\ mismatch = FALSE
      /\ Len(txQueue) = 0 /\ Len(rxQueue) = 0
  BY DEF TestInit
<1>3. Posted = 0 /\ Carried = 0
  <2>1. rx.counter = 0 /\ rx.in_progress = 0 /\ tx.counter = 0 /\ tx.in_progress = 0
        /\ Len(txQueue) = 0
    BY <1>2
  <2> QED
    BY <2>1 DEF Posted, Carried
<1>4. InBalance
  <2>1. Len(rxQueue) = 0
    BY <1>2
  <2> QED
    BY <1>3, <2>1 DEF InBalance
<1>5. TxInStep /\ StopInTime
  BY <1>2 DEF TxInStep, StopInTime
<1>6. RxCounts /\ RxPosts
  BY <1>c, <1>2, <1>3 DEF RxCounts, RxPosts
<1>7. Window(0)
  <2>1. RingUpTo(0)
    BY <1>c, <1>2, <1>3 DEF RingUpTo
  <2>2. QueueUpTo(0)
    BY <1>2 DEF QueueUpTo
  <2>3. \A b \in 0..RxBuffers-1 : ~Arrived(0, Offset(b))
    <3>1. \A b \in 0..RxBuffers-1 : Offset(b) \in 0..RxBuffers-1
      BY <1>1, OffsetFacts
    <3>2. \A k \in 0..RxBuffers-1 : ~Arrived(0, k)
      BY <1>c, <1>2, <1>3 DEF Arrived
    <3> QED
      BY <3>1, <3>2
  <2>4. DoneUpTo(0)
    BY <1>2, <2>3 DEF DoneUpTo
  <2> QED
    BY <2>1, <2>2, <2>4 DEF Window
<1> QED
  BY <1>1, <1>2, <1>3, <1>4, <1>5, <1>6, <1>7 DEF TestInv

\* The buffers in progress are with the channel, in the order of the waits.
LEMMA WaitsInOrder ==
  ASSUME TestInv, rx.pc = "finish", ~late, NEW k \in 0..rx.in_progress-1
  PROVE  LET b == (rx.buffer_id + k) % RxBuffers
         IN  \/ b \in rxDone
             \/ \E i \in DOMAIN rxQueue :
                  rxQueue[i] = b /\ Carried + i - 1 = rx.counter + k
<1>0. TestTypeOK /\ InBalance /\ RxCounts
  BY DEF TestInv
<1>c. /\ rx.counter \in Nat /\ RxBuffers \in Nat \ {0} /\ Posted \in Nat /\ Carried \in Int
      /\ rx.in_progress \in Nat /\ rx.buffer_id \in 0..RxBuffers-1 /\ Len(rxQueue) \in Nat
  BY <1>0, CountFacts
<1>1. rx.in_progress \in 1..RxBuffers
  BY <1>0 DEF RxCounts
<1>2. k \in 0..RxBuffers-1 /\ k \in Nat /\ k < rx.in_progress
  BY <1>1, <1>c
<1>3. PICK b \in 0..RxBuffers-1 : /\ b = (rx.buffer_id + k) % RxBuffers
                                  /\ b = IF rx.buffer_id + k < RxBuffers THEN rx.buffer_id + k
                                         ELSE rx.buffer_id + k - RxBuffers
  <2>1. (rx.buffer_id + k) % RxBuffers
          = IF rx.buffer_id + k < RxBuffers THEN rx.buffer_id + k
            ELSE rx.buffer_id + k - RxBuffers
    BY <1>2, <1>c, RingStep
  <2>2. (IF rx.buffer_id + k < RxBuffers THEN rx.buffer_id + k
         ELSE rx.buffer_id + k - RxBuffers) \in 0..RxBuffers-1
    BY <1>2, <1>c
  <2> QED
    BY <2>1, <2>2
<1>4. Offset(b) = k
  <2>1. RxBase = rx.buffer_id
    BY DEF RxBase
  <2>2. Offset(b) = IF b >= rx.buffer_id THEN b - rx.buffer_id ELSE b - rx.buffer_id + RxBuffers
    BY <2>1 DEF Offset
  <2>3. CASE rx.buffer_id + k < RxBuffers
    <3>1. b = rx.buffer_id + k
      BY <1>3, <2>3
    <3> QED
      BY <1>2, <1>c, <2>2, <3>1
  <2>4. CASE ~(rx.buffer_id + k < RxBuffers)
    <3>1. b = rx.buffer_id + k - RxBuffers
      BY <1>3, <2>4
    <3> QED
      BY <1>2, <1>c, <2>2, <3>1
  <2> QED
    BY <2>3, <2>4
<1>5. PICK g \in 0..Posted : Window(g) /\ (~late => g = Posted)
  BY DEF TestInv
<1>6. g = Posted /\ rx.counter + k < g /\ QueueUpTo(g) /\ DoneUpTo(g)
  BY <1>2, <1>5, <1>c DEF Window, Posted
<1>7. CASE rx.counter + k < Carried
  <2>1. Arrived(g, Offset(b))
    BY <1>4, <1>6, <1>7 DEF Arrived
  <2>2. b \in rxDone
    BY <1>6, <2>1 DEF DoneUpTo
  <2> QED
    BY <1>3, <2>2
<1>8. CASE ~(rx.counter + k < Carried)
  <2>1. PICK i \in 1..Len(rxQueue) : Carried + i - 1 = rx.counter + k
    <3>1. PICK i \in Int : i = rx.counter + k - Carried + 1
      BY <1>2, <1>c
    <3>2. Carried + i - 1 = rx.counter + k
      BY <1>2, <1>c, <3>1
    <3>3. Carried = Posted - Len(rxQueue)
      BY <1>0 DEF InBalance
    <3>4. i \in 1..Len(rxQueue)
      BY <1>2, <1>6, <1>8, <1>c, <3>1, <3>3
    <3> QED
      BY <3>2, <3>4
  <2>2. rxQueue \in Seq(0..RxBuffers-1)
    BY <1>0 DEF TestTypeOK
  <2>3. rxQueue[i] \in 0..RxBuffers-1 /\ i \in DOMAIN rxQueue /\ i \in Int
    <3>1. rxQueue[i] \in 0..RxBuffers-1
      BY <2>2, ElementOfSeq
    <3>2. i \in DOMAIN rxQueue
      BY <2>2
    <3>3. i \in Int
      BY <1>c
    <3> QED
      BY <3>1, <3>2, <3>3
  <2>4. Offset(rxQueue[i]) = Carried + i - 1 - rx.counter
    <3>1. Carried + i - 1 < g
      BY <1>6, <2>1
    <3> QED
      BY <1>6, <3>1 DEF QueueUpTo
  <2>5. Offset(rxQueue[i]) = k
    <3>1. Carried \in Int /\ i \in Int /\ rx.counter \in Int /\ k \in Int
      BY <1>2, <1>c, <2>3
    <3>2. Carried + i - 1 - rx.counter = k
      BY <2>1, <3>1
    <3> QED
      BY <2>4, <3>2
  <2>6. rxQueue[i] = b
    BY <1>0, <1>4, <2>3, <2>5, OffsetFacts
  <2> QED
    BY <1>3, <2>1, <2>3, <2>6
<1> QED
  BY <1>7, <1>8

\* The threads ask for max(num_transfers, 1) transfers, and the receive thread posts
\* no more, unless ^C was late.
LEMMA SameNumber ==
  ASSUME TestInv, tx.pc = "exit", ~late
  PROVE  /\ tx.counter >= num_transfers /\ tx.counter >= 1
         /\ Carried = tx.counter /\ Posted <= tx.counter /\ Carried <= Posted
         /\ Len(rxQueue) = 0 /\ txQueue = <<>> /\ txDone = {}
<1>0. TestTypeOK /\ InBalance /\ TxInStep /\ RxPosts
  BY DEF TestInv
<1>c. /\ tx.counter \in Nat /\ tx.in_progress \in Nat /\ num_transfers \in Nat
      /\ Posted \in Nat /\ Len(rxQueue) \in Nat
  BY <1>0, CountFacts
<1>1. /\ tx.counter >= num_transfers /\ tx.counter >= 1
      /\ txQueue = <<>> /\ txDone = {} /\ tx.in_progress = 0 /\ Len(txQueue) = 0
  BY <1>0 DEF TxInStep
<1>2. Carried = tx.counter
  BY <1>1, <1>c DEF Carried
<1>3. Posted <= num_transfers \/ Posted <= 1
  BY <1>0 DEF RxPosts
<1>4. Posted <= tx.counter
  BY <1>1, <1>3, <1>c
<1>5. Carried = Posted - Len(rxQueue)
  BY <1>0 DEF InBalance
<1>6. Carried <= Posted /\ Len(rxQueue) = 0
  BY <1>2, <1>4, <1>5, <1>c
<1> QED
  BY <1>1, <1>2, <1>4, <1>6

\* A buffer that was not started would be the only reason to time out but for one:
\* that the transmit thread has ended; then no receive buffer is posted.
LEMMA TimeoutIsLate == ASSUME TestInv, RxTimeout PROVE late
<1> SUFFICES ASSUME ~late PROVE FALSE
  OBVIOUS
<1>0. TestTypeOK /\ RxCounts
  BY DEF TestInv
<1>c. RxBuffers \in Nat \ {0} /\ rx.buffer_id \in 0..RxBuffers-1 /\ rx.in_progress \in Nat
  BY <1>0, CountFacts
<1>1. /\ rx.pc = "finish" /\ rx.buffer_id \notin rxDone
      /\ \/ ~\E i \in DOMAIN rxQueue : rxQueue[i] = rx.buffer_id
         \/ tx.pc = "exit"
  BY DEF RxTimeout, RxCanComplete
<1>2. 0 \in 0..rx.in_progress-1 /\ 0 \in 0..RxBuffers-1
  BY <1>0, <1>1, <1>c DEF RxCounts
<1>3. (rx.buffer_id + 0) % RxBuffers = rx.buffer_id
  <2>1. (rx.buffer_id + 0) % RxBuffers
          = IF rx.buffer_id + 0 < RxBuffers THEN rx.buffer_id + 0
            ELSE rx.buffer_id + 0 - RxBuffers
    BY <1>2, <1>c, RingStep
  <2> QED
    BY <1>c, <2>1
<1>4. PICK i \in DOMAIN rxQueue : rxQueue[i] = rx.buffer_id
  <2>1. LET b == (rx.buffer_id + 0) % RxBuffers
        IN  b \in rxDone \/ \E i \in DOMAIN rxQueue : rxQueue[i] = b
    BY <1>1, <1>2, WaitsInOrder
  <2> QED
    BY <1>1, <1>3, <2>1
<1>5. tx.pc = "exit"
  BY <1>1, <1>4
<1>6. Len(rxQueue) = 0
  BY <1>5, SameNumber
<1>7. rxQueue \in Seq(0..RxBuffers-1)
  BY <1>0 DEF TestTypeOK
<1> QED
  BY <1>4, <1>6, <1>7

\* Each step of the application.
LEMMA TestStep ==
  ASSUME TxBuffers = 1, TestInv, TimedOutLate, [TestNext]_testVars
  PROVE  TestInv' /\ TimedOutLate'
<1>1. CASE TxThread
  <2>1. Running /\ UNCHANGED <<stop, late, asked>> /\ (TxFill \/ TxFinish \/ TxStop \/ TxRefill)
    BY <1>1 DEF TxThread
  <2>2. TestInv'
    BY <2>1, TxFillStep, TxFinishStep, TxStopStep, TxRefillStep
  <2>3. rx' = rx
    BY <2>1 DEF TxFill, TxFinish, TxStop, TxRefill
  <2> QED
    BY <2>1, <2>2, <2>3 DEF TimedOutLate
<1>2. CASE RxThread
  <2>1. /\ UNCHANGED <<stop, late, asked>>
        /\ RxFill \/ RxFinish \/ RxTimeout \/ RxCount \/ RxRefill
    BY <1>2 DEF RxThread
  <2>2. TestInv'
    BY <2>1, RxFillStep, RxFinishStep, RxTimeoutStep, RxCountStep, RxRefillStep
  <2>3. rx'.pc = "exit(1)" => RxTimeout
    <3>0. TestTypeOK
      BY DEF TestInv
    <3>1. CASE RxFill
      <4>1. rx'.pc = "fill" \/ rx'.pc = "finish"
        <5>1. rx.pc = "fill" /\ rx \in RxStates
          BY <3>0, <3>1 DEF RxFill, TestTypeOK
        <5> QED
          BY <3>1, <5>1 DEF RxFill, RxStates
      <4> QED
        BY <4>1
    <3>2. CASE RxFinish
      <4>1. rx' = [rx EXCEPT !.pc = "count"] /\ rx \in RxStates
        BY <3>0, <3>2 DEF RxFinish, TestTypeOK
      <4> QED
        BY <4>1 DEF RxStates
    <3>3. CASE RxCount
      <4>1. rx'.pc = "exit" \/ rx'.pc = "refill"
        <5>1. rx \in RxStates
          BY <3>0 DEF TestTypeOK
        <5> QED
          BY <3>3, <5>1 DEF RxCount, RxStates
      <4> QED
        BY <4>1
    <3>4. CASE RxRefill
      <4>1. rx'.pc = "finish"
        <5>1. rx \in RxStates
          BY <3>0 DEF TestTypeOK
        <5> QED
          BY <3>4, <5>1 DEF RxRefill, RxStates
      <4> QED
        BY <4>1
    <3> QED
      BY <2>1, <3>1, <3>2, <3>3, <3>4
  <2>4. rx'.pc = "exit(1)" => late
    BY <2>3, TimeoutIsLate
  <2> QED
    BY <2>1, <2>2, <2>4 DEF TimedOutLate
<1>3. CASE Loopback
  <2>1. rx' = rx /\ late' = late
    BY <1>3 DEF Loopback
  <2> QED
    BY <1>3, <2>1, LoopbackStep DEF TimedOutLate
<1>4. CASE sigint
  <2>1. rx.pc # "exit(1)" /\ rx' = rx
    BY <1>4 DEF sigint, Running
  <2> QED
    BY <1>4, <2>1, SigintStep DEF TimedOutLate
<1>5. CASE UNCHANGED testVars
  <2>1. /\ num_transfers' = num_transfers /\ stop' = stop /\ tx' = tx /\ rx' = rx
        /\ txQueue' = txQueue /\ txDone' = txDone /\ rxQueue' = rxQueue /\ rxDone' = rxDone
        /\ rxData' = rxData /\ mismatch' = mismatch /\ late' = late /\ asked' = asked
    BY <1>5 DEF testVars, channels
  <2>2. TestTypeOK' /\ ~mismatch'
    BY <2>1, Zenon DEF TestInv, TestTypeOK
  <2>3. Carried' = Carried
    BY <2>1 DEF Carried
  <2>4. /\ \E g \in 0..Posted' : Window(g)' /\ (~late' => g = Posted')
        /\ InBalance' /\ Posted' = Posted
    BY <2>1, <2>3, WindowKept DEF TestInv
  <2>5. TxInStep' /\ StopInTime' /\ RxCounts' /\ RxPosts'
    BY <2>1, <2>4 DEF TestInv, TxInStep, StopInTime, RxCounts, RxPosts
  <2> QED
    BY <2>1, <2>2, <2>4, <2>5 DEF TestInv, TimedOutLate
<1> QED
  BY <1>1, <1>2, <1>3, <1>4, <1>5 DEF TestNext

\* The invariant of the application.
LEMMA TestHolds == ASSUME TxBuffers = 1 PROVE TestSpec => [](TestInv /\ TimedOutLate)
<1>1. TestInit => TestInv /\ TimedOutLate
  <2>1. TestInit => TestInv
    BY TestStarts
  <2>2. TestInit => rx.pc = "fill"
    BY DEF TestInit
  <2> QED
    BY <2>1, <2>2 DEF TimedOutLate
<1>2. TestInv /\ TimedOutLate /\ [TestNext]_testVars => (TestInv /\ TimedOutLate)'
  BY TestStep
<1> QED
  BY <1>1, <1>2, PTL DEF TestSpec

\* The variables of both threads and the channels keep their types: a buffer_id never
\* leaves its ring, a counter of transfers in progress never falls below zero.
THEOREM TestTypeCorrect == ASSUME TxBuffers = 1 PROVE TestSpec => []TestTypeOK
<1>1. TestInv => TestTypeOK
  BY DEF TestInv
<1> QED
  BY <1>1, TestHolds, PTL

\* The buffers the receive thread waits for are those it has posted, in its order, and
\* each holds the word the transmit thread wrote for it (the verification of lines
\* 239-259 never fails), whenever ^C comes; no wait times out but after a late one.
THEOREM TestRingInStep == ASSUME TxBuffers = 1 PROVE TestSpec => []RingInStep
<1>1. ASSUME TestInv, TimedOutLate PROVE RingInStep
  <2>1. ~mismatch
    BY <1>1 DEF TestInv
  <2>2. ASSUME rx.pc = "finish", ~late, NEW k \in 0..rx.in_progress-1
        PROVE  LET b == (rx.buffer_id + k) % RxBuffers
               IN  b \in rxDone \/ \E i \in DOMAIN rxQueue : rxQueue[i] = b
    BY <1>1, <2>2, WaitsInOrder
  <2> QED
    BY <1>1, <2>1, <2>2 DEF RingInStep
<1> QED
  BY <1>1, TestHolds, PTL

\* When both threads have finished they agree on the number of transfers, and nothing
\* is left posted: the ends of lines 164-166 and 267-269 and the drain of line 176
\* meet, for every size of the receive ring and every moment of ^C that is not late.
THEOREM TestCleanExit == ASSUME TxBuffers = 1 PROVE TestSpec => []CleanExit
<1>1. ASSUME TestInv, Done, ~late
      PROVE  tx.counter = rx.counter /\ txQueue = <<>> /\ rxQueue = <<>>
             /\ txDone = {} /\ rxDone = {}
  <2>0. TestTypeOK /\ RxCounts
    BY <1>1 DEF TestInv
  <2>c. /\ rx.counter \in Nat /\ rx.in_progress \in Nat /\ tx.counter \in Nat
        /\ num_transfers \in Nat /\ Posted \in Nat
    BY <2>0, CountFacts
  <2>1. /\ Carried = tx.counter /\ Posted = tx.counter
        /\ Len(rxQueue) = 0 /\ txQueue = <<>> /\ txDone = {}
    BY <1>1, <2>c, SameNumber DEF Done
  <2>2. PICK g \in 0..Posted : Window(g) /\ g = Posted
    BY <1>1 DEF TestInv
  <2>3. tx.counter >= num_transfers /\ (tx.counter <= num_transfers \/ tx.counter = 1)
    BY <1>1 DEF TestInv, TxInStep, Done
  <2>4. rx.counter >= num_transfers /\ rx.counter >= 1 /\ rx.counter <= Posted
    <3>1. rx.counter <= g
      BY <2>2 DEF Window, RingUpTo
    <3> QED
      BY <1>1, <2>0, <2>2, <3>1 DEF RxCounts, Done
  <2>5. tx.counter = rx.counter
    BY <2>1, <2>3, <2>4, <2>c
  <2>6. rxQueue = <<>>
    BY <2>0, <2>1, EmptySeq DEF TestTypeOK
  <2>7. ASSUME NEW b \in rxDone PROVE FALSE
    <3>1. b \in 0..RxBuffers-1
      BY <2>0 DEF TestTypeOK
    <3>2. Offset(b) \in Nat
      BY <2>0, <3>1, OffsetFacts
    <3>3. Arrived(g, Offset(b))
      BY <2>2, <2>c DEF Window, DoneUpTo
    <3>4. rx.counter + Offset(b) < g
      BY <3>3 DEF Arrived
    <3> QED
      BY <2>1, <2>2, <2>5, <2>c, <3>2, <3>4
  <2> QED
    BY <2>1, <2>5, <2>6, <2>7
<1>2. TestInv => CleanExit
  BY <1>1 DEF CleanExit
<1> QED
  BY <1>2, TestHolds, PTL
=============================================================================
