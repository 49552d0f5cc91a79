---------------------------- MODULE SenderProofs ----------------------------
(***************************************************************************)
(* Proofs about the sender, for any number of rows, handlers, workers and  *)
(* crashes: who holds a request, what the statuses sent and pending stand  *)
(* for, and that its queue is a queue.                                     *)
(***************************************************************************)
EXTENDS Sender, ChannelLemmas

----------------------------------------------------------------------------
(* The invariant.                                                          *)

TxToSend == [id : Id \cup {0}, hash : Hash]

\* A goroutine inside SendL2Transaction has a transaction to send.
CallHasTx == \A p \in Process : pc[p] \in {"wait", "update", "monitor"} => tx[p] \in TxToSend

\* The transaction that is sent for a row is the one of the row.
RowOfTx == \A p \in Process : tx[p].id \in Id => tx[p].hash = HashOf[tx[p].id]

\* A call that goes on without an error is about a transaction that the
\* sequencer has.
TakenCall ==
    \A p \in Process :
        pc[p] \in {"update", "monitor", "answer"} /\ ~err[p] => tx[p].hash \in accepted

QueueInv == TypeOK /\ HeldOnce /\ CallHasTx

----------------------------------------------------------------------------
(* The table.                                                              *)

\* What a statement leaves in the table.
LEMMA UpdateStatus ==
    ASSUME status \in [Id -> Status], NEW i, NEW s \in Status, NEW ok \in BOOLEAN,
           UpdateL2TransactionStatus(i, s, ok)
    PROVE  /\ status' \in [Id -> Status]
           /\ \A j \in Id : status'[j] = status[j] \/ (j = i /\ status'[j] = s)
BY DEF UpdateL2TransactionStatus, Exec

\* An insertion adds a pending row at most.
LEMMA InsertStatus ==
    ASSUME status \in [Id -> Status], NEW i \in Id, NEW ok \in BOOLEAN,
           InsertL2Transaction(i, ok)
    PROVE  /\ status' \in [Id -> Status]
           /\ \A j \in Id : status'[j] = status[j] \/ (j = i /\ status'[j] = "pending")
           /\ DBFaults = {} => ok
<1>1. "pending" \in Status
  BY DEF Status
<1> QED BY <1>1 DEF InsertL2Transaction, Exec

\* An operator asks for rows that exist.
LEMMA ResendStatus ==
    ASSUME status \in [Id -> Status], NEW i \in Id, RequestResend(i)
    PROVE  /\ status' \in [Id -> Status]
           /\ \A j \in Id : status'[j] = status[j] \/ (j = i /\ status'[j] = "resend")
<1>1. "resend" \in Status
  BY DEF Status
<1> QED BY <1>1 DEF RequestResend

\* A SELECT returns rows of the table.
LEMMA SelectRows ==
    ASSUME NEW s, NEW rows \in GetL2TransactionsByStatus(s)
    PROVE  rows \subseteq Id
BY DEF GetL2TransactionsByStatus

----------------------------------------------------------------------------
(* Each action as a step of the queue.                                     *)

InQueue(p) == p \in enqueuing \/ p \in ToSet(requestChan) \/ \E w \in Worker : wreq[w] = p

\* A goroutine whose request is being processed waits for it.
LEMMA WorkedOnWaits ==
    ASSUME QueueInv, NEW w \in Worker, wreq[w] # Nil
    PROVE  /\ wreq[w] \in Process /\ pc[wreq[w]] = "wait"
           /\ tx[wreq[w]] \in TxToSend /\ tx[wreq[w]].hash \in Hash
<1>1. wreq[w] \in Process
  BY DEF QueueInv, TypeOK
<1>2. pc[wreq[w]] = "wait"
  BY <1>1 DEF QueueInv, HeldOnce
<1>3. tx[wreq[w]] \in TxToSend
  BY <1>1, <1>2 DEF QueueInv, CallHasTx
<1> QED BY <1>1, <1>2, <1>3 DEF TxToSend

\* A step that starts no wait and ends none leaves the queue as it is.
LEMMA QuietHeld ==
    ASSUME HeldOnce, UNCHANGED <<enqueuing, requestChan, wreq>>,
           \A p \in Process : pc'[p] = "wait" <=> pc[p] = "wait"
    PROVE  HeldOnce'
BY DEF HeldOnce

\* SendL2Transaction leaves the request to a goroutine.
LEMMA CallHeld ==
    ASSUME TypeOK, HeldOnce, NEW p \in Process, pc[p] # "wait",
           pc' = [pc EXCEPT ![p] = "wait"],
           enqueuing' = enqueuing \cup {p}, UNCHANGED <<requestChan, wreq>>
    PROVE  HeldOnce'
<1>1. p \notin enqueuing /\ p \notin ToSet(requestChan) /\ \A w \in Worker : wreq[w] # p
  BY DEF HeldOnce
<1>2. \A q \in Process : pc'[q] = IF q = p THEN "wait" ELSE pc[q]
  BY DEF TypeOK
<1> QED BY <1>1, <1>2 DEF HeldOnce

\* The goroutine's send.
LEMMA SendHeld ==
    ASSUME TypeOK, HeldOnce, NEW p \in Process, ChannelSend(p)
    PROVE  HeldOnce'
<1>1. /\ p \in enqueuing /\ p \notin ToSet(requestChan) /\ requestChan \in Seq(Process)
      /\ IsInjective(requestChan) /\ enqueuing' = enqueuing \ {p}
      /\ requestChan' = Append(requestChan, p) /\ UNCHANGED <<wreq, pc>>
  BY DEF TypeOK, HeldOnce, ChannelSend, callVars
<1>2. IsInjective(requestChan') /\ ToSet(requestChan') = ToSet(requestChan) \cup {p}
  BY <1>1, SendProperty
<1>3. pc[p] = "wait" /\ \A w \in Worker : wreq[w] # p
  BY <1>1 DEF HeldOnce
<1> QED BY <1>1, <1>2, <1>3 DEF HeldOnce

\* A worker's receive.
LEMMA ReceiveHeld ==
    ASSUME TypeOK, HeldOnce, NEW w \in Worker, WorkerReceive(w)
    PROVE  HeldOnce'
<1> DEFINE h == Head(requestChan)
<1>1. /\ requestChan \in Seq(Process) /\ requestChan # <<>> /\ IsInjective(requestChan)
      /\ wreq[w] = Nil /\ wreq' = [wreq EXCEPT ![w] = h]
      /\ requestChan' = Tail(requestChan) /\ UNCHANGED <<enqueuing, pc>>
  BY DEF TypeOK, HeldOnce, WorkerReceive, callVars
<1>2. /\ h \in Process /\ h \in ToSet(requestChan)
      /\ IsInjective(requestChan') /\ ToSet(requestChan') = ToSet(requestChan) \ {h}
  BY <1>1, ReceiveProperty
<1> HIDE DEF h
<1>3. /\ pc[h] = "wait" /\ h \notin enqueuing
      /\ \A v \in Worker : wreq[v] # h
  BY <1>2 DEF HeldOnce
<1>4. \A v \in Worker : wreq'[v] = IF v = w THEN h ELSE wreq[v]
  BY <1>1 DEF TypeOK
<1>5. Nil \notin Process
  BY SenderAssumption
<1> QED
  <2> SUFFICES ASSUME NEW p \in Process
               PROVE  /\ pc'[p] = "wait" <=>
                            \/ p \in enqueuing' \/ p \in ToSet(requestChan')
                            \/ \E v \in Worker : wreq'[v] = p
                      /\ p \in enqueuing' => p \notin ToSet(requestChan')
                      /\ \A v \in Worker :
                            wreq'[v] = p =>
                                /\ p \notin enqueuing' \cup ToSet(requestChan')
                                /\ \A u \in Worker : wreq'[u] = p => u = v
    BY <1>2 DEF HeldOnce
  <2>1. CASE p = h
    BY <1>1, <1>2, <1>3, <1>4, <2>1
  <2>2. CASE p # h
    <3>1. \A v \in Worker : wreq'[v] = p <=> wreq[v] = p
      BY <1>1, <1>4, <1>5, <2>2
    <3>2. p \in ToSet(requestChan') <=> p \in ToSet(requestChan)
      BY <1>2, <2>2
    <3> QED BY <1>1, <3>1, <3>2 DEF HeldOnce
  <2> QED BY <2>1, <2>2

\* wg.Done: the only one who waits for this request is woken.
LEMMA DoneHeld ==
    ASSUME TypeOK, HeldOnce, NEW w \in Worker, wreq[w] # Nil, NEW e, Done(w, e)
    PROVE  HeldOnce'
<1> DEFINE h == wreq[w]
<1>1. h \in Process /\ Nil \notin Process
  BY SenderAssumption DEF TypeOK
<1>2. /\ pc' = [pc EXCEPT ![h] = "update"] /\ wreq' = [wreq EXCEPT ![w] = Nil]
      /\ UNCHANGED <<enqueuing, requestChan>>
  BY DEF Done, Goto, Woken
<1>3. /\ h \notin enqueuing /\ h \notin ToSet(requestChan)
      /\ \A v \in Worker : wreq[v] = h => v = w
  BY <1>1 DEF HeldOnce
<1>4. /\ \A v \in Worker : wreq'[v] = IF v = w THEN Nil ELSE wreq[v]
      /\ \A p \in Process : pc'[p] = IF p = h THEN "update" ELSE pc[p]
  BY <1>2 DEF TypeOK
<1>5. \A p \in Process : p # h => \A v \in Worker : wreq'[v] = p <=> wreq[v] = p
  BY <1>1, <1>4
<1>6. \A v \in Worker : wreq'[v] # h
  BY <1>1, <1>3, <1>4
<1> QED BY <1>1, <1>2, <1>3, <1>4, <1>5, <1>6 DEF HeldOnce
----------------------------------------------------------------------------
(* The queue's invariant is kept by every step.                            *)

\* By the steps inside SendL2Transaction (sender.go:51-69), ...
LEMMA SendQueueInv ==
    ASSUME QueueInv, NEW p \in Process, SendStep(p) \/ ChannelSend(p)
    PROVE  QueueInv'
<1> USE DEF sequencerVars, monitorVars, callVars, queueVars, followerVars
<1>1. ASSUME NEW ok \in BOOLEAN, Update(p, ok) PROVE QueueInv'
  <2>1. Verdict(p) \in Status
    BY DEF Verdict, Status
  <2>2. status' \in [Id -> Status]
    <3>1. UpdateL2TransactionStatus(tx[p].id, Verdict(p), ok)
      BY <1>1 DEF Update
    <3>2. status \in [Id -> Status]
      BY DEF QueueInv, TypeOK
    <3> QED BY <2>1, <3>1, <3>2, UpdateStatus
  <2>3. /\ pc[p] = "update" /\ pc' = [pc EXCEPT ![p] = AfterUpdate(p, ok)]
        /\ AfterUpdate(p, ok) \in {"answer", "loop", "monitor"}
    BY <1>1 DEF Update, Goto, AfterUpdate, AfterCall
  <2>4. TypeOK'
    BY <1>1, <2>2, <2>3 DEF Update, QueueInv, TypeOK
  <2>5. HeldOnce'
    BY <1>1, <2>3, QuietHeld DEF Update, QueueInv, TypeOK
  <2>6. CallHasTx'
    BY <1>1, <2>3 DEF Update, QueueInv, TypeOK, CallHasTx
  <2> QED BY <2>4, <2>5, <2>6 DEF QueueInv
<1>2. CASE AddToMonitor(p)
  <2>1. /\ pc[p] = "monitor" /\ pc' = [pc EXCEPT ![p] = AfterCall(p)]
        /\ AfterCall(p) \in {"answer", "loop"}
    BY <1>2 DEF AddToMonitor, Goto, AfterCall
  <2>2. tx[p].id \in Id \cup {0}
    BY <2>1 DEF QueueInv, CallHasTx, TxToSend
  <2>3. TypeOK'
    BY <1>2, <2>1, <2>2 DEF AddToMonitor, Follow, QueueInv, TypeOK
  <2>4. HeldOnce'
    BY <1>2, <2>1, QuietHeld DEF AddToMonitor, QueueInv, TypeOK
  <2>5. CallHasTx'
    BY <1>2, <2>1 DEF AddToMonitor, QueueInv, TypeOK, CallHasTx
  <2> QED BY <2>3, <2>4, <2>5 DEF QueueInv
<1>3. CASE ChannelSend(p)
  <2>1. /\ p \in enqueuing /\ p \notin ToSet(requestChan) /\ requestChan \in Seq(Process)
        /\ requestChan' = Append(requestChan, p) /\ Len(requestChan) < QueueSize
    BY <1>3 DEF QueueInv, TypeOK, HeldOnce, ChannelSend, HasRoom
  <2>2. requestChan' \in Seq(Process) /\ Len(requestChan') <= QueueSize
    BY <2>1, SenderAssumption
  <2>3. TypeOK'
    BY <1>3, <2>2 DEF ChannelSend, QueueInv, TypeOK
  <2>4. HeldOnce'
    BY <1>3, SendHeld DEF QueueInv
  <2>5. CallHasTx'
    BY <1>3 DEF ChannelSend, QueueInv, CallHasTx
  <2> QED BY <2>3, <2>4, <2>5 DEF QueueInv
<1> QED BY <1>1, <1>2, <1>3 DEF SendStep

\* ... by the start of a call,
LEMMA StartQueueInv ==
    ASSUME QueueInv, NEW p \in Process, pc[p] \in {"idle", "loop"},
           NEW i \in Id \cup {0}, NEW j \in Id, Call(p, i, HashOf[j]),
           status' \in [Id -> Status], err' \in [Process -> BOOLEAN],
           todo' \in [{Startup, Resender} -> SUBSET Id],
           UNCHANGED <<sequencerVars, monitorVars, crashes>>
    PROVE  QueueInv'
<1> USE DEF sequencerVars, monitorVars, followerVars
<1>1. /\ pc' = [pc EXCEPT ![p] = "wait"]
      /\ tx' = [tx EXCEPT ![p] = [id |-> i, hash |-> HashOf[j]]]
      /\ enqueuing' = enqueuing \cup {p} /\ UNCHANGED <<requestChan, wreq, dialed>>
  BY DEF Call, Goto, AfterEnqueue
<1>2. [id |-> i, hash |-> HashOf[j]] \in TxToSend
  BY DEF TxToSend, Hash
<1>3. TypeOK'
  BY <1>1, <1>2 DEF QueueInv, TypeOK, TxToSend
<1>4. HeldOnce'
  BY <1>1, CallHeld DEF QueueInv
<1>5. CallHasTx'
  BY <1>1, <1>2 DEF QueueInv, TypeOK, CallHasTx
<1> QED BY <1>3, <1>4, <1>5 DEF QueueInv

\* ... by the other steps of a goroutine that is in no call,
LEMMA IdleQueueInv ==
    ASSUME QueueInv, NEW p \in Process, pc[p] \in {"idle", "loop", "answer"},
           NEW l \in {"idle", "loop", "done"}, Goto(p, l),
           tx' = tx \/ tx' = [tx EXCEPT ![p] = NoTx],
           err' \in [Process -> BOOLEAN],
           todo' \in [{Startup, Resender} -> SUBSET Id],
           UNCHANGED <<status, sequencerVars, monitorVars, queueVars, crashes>>
    PROVE  QueueInv'
<1> USE DEF sequencerVars, monitorVars, followerVars, queueVars
<1>1. pc' = [pc EXCEPT ![p] = l]
  BY DEF Goto
<1>2. TypeOK'
  BY <1>1 DEF QueueInv, TypeOK
<1>3. HeldOnce'
  BY <1>1, QuietHeld DEF QueueInv, TypeOK
<1>4. CallHasTx'
  BY <1>1 DEF QueueInv, TypeOK, CallHasTx
<1> QED BY <1>2, <1>3, <1>4 DEF QueueInv

\* ... by the callers,
LEMMA CallerQueueInv ==
    ASSUME QueueInv,
           (\E h \in Handler : HandlerStep(h)) \/ StartupStep \/ ResenderStep
    PROVE  QueueInv'
<1>1. ASSUME NEW h \in Handler, NEW i \in Id, NEW ok \in BOOLEAN,
             SendRawTransaction(h, i, ok)
      PROVE  QueueInv'
  <2>1. status' \in [Id -> Status]
    BY <1>1, InsertStatus DEF SendRawTransaction, QueueInv, TypeOK
  <2>2. h \in Process /\ pc[h] = "idle" /\ (IF ok THEN i ELSE 0) \in Id \cup {0}
    BY <1>1 DEF SendRawTransaction, Process
  <2> QED BY <1>1, <2>1, <2>2, StartQueueInv DEF SendRawTransaction, QueueInv, TypeOK
<1>2. ASSUME NEW h \in Handler, Answer(h) PROVE QueueInv'
  <2>1. h \in Process /\ err' \in [Process -> BOOLEAN] /\ pc[h] = "answer"
    BY <1>2 DEF Answer, Process, QueueInv, TypeOK
  <2> QED BY <1>2, <2>1, IdleQueueInv DEF Answer, QueueInv, TypeOK
<1>3. ASSUME NEW p \in {Startup, Resender}, NEW rows \in SUBSET Id, Select(p, rows)
      PROVE  QueueInv'
  <2>1. p \in Process /\ todo' \in [{Startup, Resender} -> SUBSET Id] /\ pc[p] = "idle"
    BY <1>3 DEF Select, Process, QueueInv, TypeOK
  <2> QED BY <1>3, <2>1, IdleQueueInv DEF Select, QueueInv, TypeOK
<1>4. ASSUME NEW p \in {Startup, Resender}, NEW i \in Id, LoopNext(p, i)
      PROVE  QueueInv'
  <2>1. /\ p \in Process /\ todo' \in [{Startup, Resender} -> SUBSET Id] /\ pc[p] = "loop"
        /\ err' \in [Process -> BOOLEAN]
    BY <1>4 DEF LoopNext, Process, QueueInv, TypeOK
  <2> QED BY <1>4, <2>1, StartQueueInv DEF LoopNext, QueueInv, TypeOK
<1>5. ASSUME NEW p \in {Startup, Resender}, LoopEnd(p) PROVE QueueInv'
  <2>1. p \in Process /\ err' \in [Process -> BOOLEAN] /\ pc[p] = "loop"
    BY <1>5 DEF LoopEnd, Process, QueueInv, TypeOK
  <2>2. AfterLoop(p) \in {"idle", "loop", "done"}
    BY DEF AfterLoop
  <2> QED BY <1>5, <2>1, <2>2, IdleQueueInv DEF LoopEnd, QueueInv, TypeOK
<1>6. \A rows \in GetL2TransactionsToSend \cup GetL2TransactionsToResend : rows \in SUBSET Id
  BY SelectRows DEF GetL2TransactionsToSend, GetL2TransactionsToResend
<1> QED BY <1>1, <1>2, <1>3, <1>4, <1>5, <1>6 DEF HandlerStep, StartupStep, ResenderStep
\* ... by the workers,
LEMMA WorkerQueueInv ==
    ASSUME QueueInv, NEW w \in Worker, WorkerStep(w)
    PROVE  QueueInv'
<1> USE DEF sequencerVars, monitorVars, callVars, followerVars
<1>1. CASE WorkerReceive(w)
  <2>1. /\ requestChan \in Seq(Process) /\ requestChan # <<>> /\ IsInjective(requestChan)
        /\ Len(requestChan) <= QueueSize
    BY <1>1 DEF QueueInv, TypeOK, HeldOnce, WorkerReceive
  <2>2. /\ Head(requestChan) \in Process
        /\ Tail(requestChan) \in Seq(Process) /\ Len(Tail(requestChan)) <= QueueSize
    <3>1. /\ Head(requestChan) \in Process /\ Tail(requestChan) \in Seq(Process)
          /\ Len(Tail(requestChan)) = Len(requestChan) - 1 /\ Len(requestChan) \in Nat
      BY <2>1, ReceiveProperty
    <3> QED BY <2>1, <3>1, SenderAssumption
  <2>3. TypeOK'
    BY <1>1, <2>2 DEF WorkerReceive, QueueInv, TypeOK
  <2>4. HeldOnce'
    BY <1>1, ReceiveHeld DEF QueueInv
  <2>5. CallHasTx'
    BY <1>1 DEF WorkerReceive, QueueInv, CallHasTx
  <2> QED BY <2>3, <2>4, <2>5 DEF QueueInv
<1>2. ASSUME NEW e \in BOOLEAN, wreq[w] # Nil, Done(w, e),
             accepted' \subseteq Hash, late' \subseteq Hash
      PROVE  QueueInv'
  <2>1. wreq[w] \in Process /\ tx[wreq[w]] \in TxToSend
    BY <1>2, WorkedOnWaits
  <2>2. TypeOK'
    BY <1>2, <2>1 DEF Done, Goto, Woken, QueueInv, TypeOK
  <2>3. HeldOnce'
    BY <1>2, DoneHeld DEF QueueInv
  <2>4. CallHasTx'
    BY <1>2, <2>1 DEF Done, Goto, Woken, QueueInv, TypeOK, CallHasTx
  <2> QED BY <2>2, <2>3, <2>4 DEF QueueInv
<1>3. CASE WorkerCall(w)
  <2>1. PICK e \in BOOLEAN : Done(w, e)
    BY <1>3 DEF WorkerCall
  <2>2. wreq[w] # Nil /\ tx[wreq[w]].hash \in Hash
    BY <1>3, WorkedOnWaits DEF WorkerCall
  <2>3. accepted' \subseteq Hash /\ late' \subseteq Hash
    BY <1>3, <2>2 DEF WorkerCall, Takes, QueueInv, TypeOK
  <2> QED BY <1>2, <2>1, <2>2, <2>3
<1>4. ASSUME NEW arrives \in BOOLEAN, WorkerTimeout(w, arrives) PROVE QueueInv'
  <2>1. wreq[w] # Nil /\ tx[wreq[w]].hash \in Hash
    BY <1>4, WorkedOnWaits DEF WorkerTimeout
  <2>2. accepted' \subseteq Hash /\ late' \subseteq Hash
    BY <1>4, <2>1 DEF WorkerTimeout, QueueInv, TypeOK
  <2> QED BY <1>2, <1>4, <2>1, <2>2 DEF WorkerTimeout
<1> QED BY <1>1, <1>3, <1>4 DEF WorkerStep

\* ... and by the surroundings, a crash included.
LEMMA EnvironmentQueueInv ==
    ASSUME QueueInv, Environment
    PROVE  QueueInv'
<1> USE DEF sequencerVars, monitorVars, callVars, queueVars, followerVars
<1>1. ASSUME UNCHANGED <<callVars, queueVars, crashes>>, TypeOK' PROVE QueueInv'
  <2>1. HeldOnce'
    BY <1>1, QuietHeld DEF QueueInv
  <2>2. CallHasTx'
    BY <1>1 DEF QueueInv, CallHasTx
  <2> QED BY <1>1, <2>1, <2>2 DEF QueueInv
<1>2. TypeOK
  BY DEF QueueInv
<1>3. ASSUME NEW h \in Hash, LateArrival(h) PROVE QueueInv'
  <2>1. TypeOK'
    BY <1>2, <1>3 DEF LateArrival, Takes, TypeOK
  <2> QED BY <1>1, <1>3, <2>1 DEF LateArrival
<1>4. ASSUME NEW rows \in GetL2TransactionsToMonitor, MonitorLoad(rows) PROVE QueueInv'
  <2>1. rows \subseteq Id
    BY SelectRows DEF GetL2TransactionsToMonitor
  <2>2. TypeOK'
    <3>1. UNION GetL2TransactionsToMonitor \subseteq Id
      BY SelectRows DEF GetL2TransactionsToMonitor
    <3>2. monitored' \subseteq Id \cup {0} /\ dropped' \subseteq Id \cup {0}
      BY <1>2, <1>4, <2>1, <3>1 DEF MonitorLoad, LoadSent, TypeOK
    <3> QED BY <1>2, <1>4, <3>2 DEF MonitorLoad, LoadSent, TypeOK
  <2> QED BY <1>1, <1>4, <2>2 DEF MonitorLoad
<1>5. ASSUME NEW a \in Agent, NEW i \in Id, NEW ok \in BOOLEAN, MonitorUpdate(a, i, ok)
      PROVE  QueueInv'
  <2>1. PICK s \in Final : Settle(a, i, s, ok) \/ Expire(a, i, ok)
    BY <1>5 DEF MonitorUpdate, Final
  <2>2. \E t \in Status : UpdateL2TransactionStatus(i, t, ok)
    BY <2>1 DEF Settle, Expire, Status, Final
  <2>3. status' \in [Id -> Status]
    <3>1. status \in [Id -> Status]
      BY <1>2 DEF TypeOK
    <3> QED BY <2>2, <3>1, UpdateStatus
  <2>4. closing' \in [Agent -> Id \cup {Nobody}] /\ UNCHANGED <<monitored, loaded>>
    BY <1>2, <2>1 DEF Settle, Expire, TypeOK
  <2>5. TypeOK'
    <3>1. dropped' \subseteq Id \cup {0}
      BY <1>2, <1>5 DEF MonitorUpdate, TypeOK
    <3> QED BY <1>2, <1>5, <2>3, <2>4, <3>1 DEF MonitorUpdate, TypeOK
  <2> QED BY <1>1, <1>5, <2>5 DEF MonitorUpdate
<1>6. ASSUME NEW a \in Agent, MonitorForget(a) PROVE QueueInv'
  <2>1. TypeOK'
    BY <1>2, <1>6 DEF MonitorForget, Forget, TypeOK
  <2> QED BY <1>1, <1>6, <2>1 DEF MonitorForget
<1>7. ASSUME NEW i \in ResendIds, OperatorResend(i) PROVE QueueInv'
  <2>1. i \in Id
    BY SenderAssumption
  <2>2. status' \in [Id -> Status]
    BY <1>2, <1>7, <2>1, ResendStatus DEF OperatorResend, TypeOK
  <2>3. TypeOK'
    BY <1>2, <1>7, <2>2 DEF OperatorResend, TypeOK
  <2> QED BY <1>1, <1>7, <2>3 DEF OperatorResend
<1>8. CASE Crash
  <2>1. /\ requestChan' = <<>> /\ requestChan' \in Seq(Process) /\ Len(requestChan') = 0
        /\ IsInjective(requestChan') /\ ToSet(requestChan') = {}
    BY <1>8 DEF Crash, IsInjective, ToSet
  <2>2. dialed' \subseteq Worker
    BY <1>8 DEF Crash, Dialed
  <2>3. /\ pc' \in [Process -> {"idle"}] /\ tx' \in [Process -> {NoTx}]
        /\ err' \in [Process -> {FALSE}] /\ todo' \in [{Startup, Resender} -> {{}}]
        /\ wreq' \in [Worker -> {Nil}] /\ closing' \in [Agent -> {Nobody}]
    BY <1>8 DEF Crash
  <2>4. crashes' \in 0..MaxCrashes /\ 0 <= QueueSize
    BY <1>2, <1>8, SenderAssumption DEF Crash, TypeOK
  <2>5. /\ status' \in [Id -> Status] /\ accepted' \subseteq Hash /\ late' \subseteq Hash
        /\ monitored' = {} /\ loaded' = FALSE /\ dropped' = {} /\ enqueuing' = {}
    BY <1>2, <1>8 DEF Crash, TypeOK
  <2>6. TypeOK'
    BY <2>1, <2>2, <2>3, <2>4, <2>5 DEF TypeOK
  <2>7. HeldOnce' /\ CallHasTx'
    BY <1>8, <2>1, SenderAssumption DEF Crash, HeldOnce, CallHasTx
  <2> QED BY <2>6, <2>7 DEF QueueInv
<1> QED BY <1>3, <1>4, <1>5, <1>6, <1>7, <1>8 DEF Environment

----------------------------------------------------------------------------
\* The sender starts with an empty queue.
LEMMA InitQueueInv == Init => QueueInv
<1> SUFFICES ASSUME Init PROVE QueueInv
  OBVIOUS
<1>1. /\ requestChan = <<>> /\ requestChan \in Seq(Process) /\ Len(requestChan) = 0
      /\ IsInjective(requestChan) /\ ToSet(requestChan) = {}
  BY DEF Init, IsInjective, ToSet
<1>2. dialed \subseteq Worker
  BY DEF Init, Dialed
<1>3. accepted \subseteq Hash
  BY DEF Init, Hash
<1>4. TypeOK
  <2>1. /\ pc \in [Process -> {"idle"}] /\ tx \in [Process -> {NoTx}]
        /\ err \in [Process -> {FALSE}] /\ todo \in [{Startup, Resender} -> {{}}]
        /\ wreq \in [Worker -> {Nil}] /\ closing \in [Agent -> {Nobody}]
    BY DEF Init, FollowerInit
  <2>2. /\ crashes \in 0..MaxCrashes /\ 0 <= QueueSize /\ status \in [Id -> Status]
        /\ late = {} /\ monitored = {} /\ loaded = FALSE /\ dropped = {} /\ enqueuing = {}
    BY SenderAssumption DEF Init, FollowerInit
  <2> QED BY <1>1, <1>2, <1>3, <2>1, <2>2 DEF TypeOK
<1>5. HeldOnce /\ CallHasTx
  BY <1>1, SenderAssumption DEF Init, HeldOnce, CallHasTx
<1> QED BY <1>4, <1>5 DEF QueueInv

\* Every step of every goroutine keeps it.
LEMMA NextQueueInv ==
    ASSUME QueueInv, [Next]_vars
    PROVE  QueueInv'
<1>1. CASE UNCHANGED vars
  BY <1>1 DEF vars, sequencerVars, monitorVars, callVars, queueVars, followerVars, QueueInv,
              TypeOK, HeldOnce, CallHasTx
<1> QED BY <1>1, SendQueueInv, CallerQueueInv, WorkerQueueInv, EnvironmentQueueInv DEF Next

\* The invariant of the queue.
LEMMA QueueInvariant == Spec => []QueueInv
BY InitQueueInv, NextQueueInv, PTL DEF Spec

\* The sender's state is well typed: the channel never exceeds QueueSize, and
\* whatever a worker takes from it is the request of a call.
THEOREM SenderTypes == Spec => []TypeOK
<1>1. QueueInv => TypeOK
  BY DEF QueueInv
<1> QED BY <1>1, QueueInvariant, PTL

\* Whoever waits in SendL2Transaction has its request in exactly one place, so
\* it is woken once, and nobody else has one (sender.go:54-59, :93).
THEOREM HeldOnceHolds == Spec => []HeldOnce
<1>1. QueueInv => HeldOnce
  BY DEF QueueInv
<1> QED BY <1>1, QueueInvariant, PTL
----------------------------------------------------------------------------
(* What the status sent stands for.                                        *)

SentInv == RowOfTx /\ TakenCall /\ SentMeansTaken

\* A step of one goroutine that marks no row without the sequencer.
LEMMA StepSent ==
    ASSUME SentInv, NEW p \in Process, accepted \subseteq accepted',
           \A q \in Process \ {p} : pc'[q] = pc[q] /\ tx'[q] = tx[q] /\ err'[q] = err[q],
           \A j \in Id : status'[j] = "sent" => status[j] = "sent" \/ HashOf[j] \in accepted',
           tx'[p].id \in Id => tx'[p].hash = HashOf[tx'[p].id],
           pc'[p] \in {"update", "monitor", "answer"} /\ ~err'[p] => tx'[p].hash \in accepted'
    PROVE  SentInv'
<1>1. RowOfTx' /\ TakenCall'
  BY DEF SentInv, RowOfTx, TakenCall
<1>2. Handler \subseteq Process
  BY DEF Process
<1>3. SentMeansTaken'
  BY <1>1, <1>2 DEF SentInv, SentMeansTaken, TakenCall
<1> QED BY <1>1, <1>3 DEF SentInv

\* A step of nobody that sends.
LEMMA QuietSent ==
    ASSUME SentInv, accepted \subseteq accepted', UNCHANGED <<pc, tx, err>>,
           \A j \in Id : status'[j] = "sent" => status[j] = "sent"
    PROVE  SentInv'
BY DEF SentInv, RowOfTx, TakenCall, SentMeansTaken, Process

\* The steps inside SendL2Transaction.
LEMMA SendSent ==
    ASSUME QueueInv, SentInv, NEW p \in Process, SendStep(p) \/ ChannelSend(p)
    PROVE  SentInv'
<1> USE DEF sequencerVars, callVars
<1>0. /\ pc \in [Process -> {"idle", "wait", "update", "monitor", "answer", "loop", "done"}]
      /\ status \in [Id -> Status] /\ err \in [Process -> BOOLEAN]
  BY DEF QueueInv, TypeOK
<1>1. ASSUME NEW ok \in BOOLEAN, Update(p, ok) PROVE SentInv'
  <2>1. /\ pc[p] = "update" /\ pc' = [pc EXCEPT ![p] = AfterUpdate(p, ok)]
        /\ UNCHANGED <<accepted, tx, err>>
        /\ UpdateL2TransactionStatus(tx[p].id, Verdict(p), ok)
    BY <1>1 DEF Update, Goto
  <2>2. tx[p].id \in Id => tx[p].hash = HashOf[tx[p].id]
    BY DEF SentInv, RowOfTx
  <2>3. ~err[p] => tx[p].hash \in accepted
    BY <2>1 DEF SentInv, TakenCall
  <2>4. Verdict(p) \in Status /\ (Verdict(p) = "sent" => ~err[p])
    BY DEF Verdict, Status
  <2>5. \A j \in Id : status'[j] = status[j] \/ (j = tx[p].id /\ status'[j] = Verdict(p))
    <3>1. UpdateL2TransactionStatus(tx[p].id, Verdict(p), ok) /\ Verdict(p) \in Status
      BY <2>1, <2>4
    <3>2. status \in [Id -> Status]
      BY <1>0
    <3> QED BY <3>1, <3>2, UpdateStatus
  <2>6. \A j \in Id : status'[j] = "sent" => status[j] = "sent" \/ HashOf[j] \in accepted'
    BY <2>1, <2>2, <2>3, <2>4, <2>5
  <2> QED BY <1>0, <2>1, <2>2, <2>3, <2>6, StepSent
<1>2. CASE AddToMonitor(p)
  <2>1. pc[p] = "monitor" /\ pc' = [pc EXCEPT ![p] = AfterCall(p)]
        /\ UNCHANGED <<accepted, tx, err, status>>
    BY <1>2 DEF AddToMonitor, Goto, Follow
  <2>2. tx[p].id \in Id => tx[p].hash = HashOf[tx[p].id]
    BY DEF SentInv, RowOfTx
  <2>3. ~err[p] => tx[p].hash \in accepted
    BY <2>1 DEF SentInv, TakenCall
  <2> QED BY <1>0, <2>1, <2>2, <2>3, StepSent
<1>3. CASE ChannelSend(p)
  BY <1>3, QuietSent DEF ChannelSend
<1> QED BY <1>1, <1>2, <1>3 DEF SendStep

\* The start of a call, and what a goroutine does between its calls.
LEMMA CallerSent ==
    ASSUME QueueInv, SentInv,
           (\E h \in Handler : HandlerStep(h)) \/ StartupStep \/ ResenderStep
    PROVE  SentInv'
<1> USE DEF sequencerVars
<1>0. /\ pc \in [Process -> {"idle", "wait", "update", "monitor", "answer", "loop", "done"}]
      /\ status \in [Id -> Status] /\ err \in [Process -> BOOLEAN]
      /\ tx \in [Process -> TxToSend \cup {NoTx}]
  BY DEF QueueInv, TypeOK, TxToSend
<1>1. ASSUME NEW p \in Process, NEW i \in Id, NEW k \in {0, i}, Call(p, k, HashOf[i]),
             UNCHANGED accepted,
             \A q \in Process \ {p} : err'[q] = err[q],
             \A j \in Id : status'[j] = "sent" => status[j] = "sent"
      PROVE  SentInv'
  <2>1. /\ pc' = [pc EXCEPT ![p] = "wait"]
        /\ tx' = [tx EXCEPT ![p] = [id |-> k, hash |-> HashOf[i]]]
    BY <1>1 DEF Call, Goto, AfterEnqueue
  <2>2. tx'[p].id = k /\ tx'[p].hash = HashOf[i] /\ 0 \notin Id
    BY <1>0, <2>1, PoolDBAssumption
  <2> QED BY <1>0, <1>1, <2>1, <2>2, StepSent
<1>2. ASSUME NEW p \in Process, NEW l \in {"idle", "loop", "done"}, Goto(p, l),
             tx' = tx \/ tx' = [tx EXCEPT ![p] = NoTx],
             \A q \in Process \ {p} : err'[q] = err[q],
             UNCHANGED <<status, accepted>>
      PROVE  SentInv'
  <2>1. tx'[p].id \in Id => tx'[p].hash = HashOf[tx'[p].id]
    <3>1. CASE tx' = tx
      BY <3>1 DEF SentInv, RowOfTx
    <3>2. CASE tx' = [tx EXCEPT ![p] = NoTx]
      BY <1>0, <3>2, PoolDBAssumption DEF NoTx
    <3> QED BY <1>2, <3>1, <3>2
  <2> QED BY <1>0, <1>2, <2>1, StepSent DEF Goto
<1>3. ASSUME NEW h \in Handler, NEW i \in Id, NEW ok \in BOOLEAN,
             SendRawTransaction(h, i, ok)
      PROVE  SentInv'
  <2>1. \A j \in Id : status'[j] = "sent" => status[j] = "sent"
    BY <1>0, <1>3, InsertStatus DEF SendRawTransaction
  <2>2. h \in Process /\ (IF ok THEN i ELSE 0) \in {0, i}
    BY DEF Process
  <2> QED BY <1>1, <1>3, <2>1, <2>2 DEF SendRawTransaction
<1>4. ASSUME NEW h \in Handler, Answer(h) PROVE SentInv'
  <2>1. h \in Process
    BY DEF Process
  <2> QED BY <1>0, <1>2, <1>4, <2>1 DEF Answer
<1>5. ASSUME NEW p \in {Startup, Resender}, NEW rows, Select(p, rows) PROVE SentInv'
  BY <1>2, <1>5 DEF Select, Process
<1>6. ASSUME NEW p \in {Startup, Resender}, NEW i \in Id, LoopNext(p, i) PROVE SentInv'
  BY <1>0, <1>1, <1>6 DEF LoopNext, Process
<1>7. ASSUME NEW p \in {Startup, Resender}, LoopEnd(p) PROVE SentInv'
  <2>1. AfterLoop(p) \in {"idle", "loop", "done"} /\ p \in Process
    BY DEF AfterLoop, Process
  <2> QED BY <1>0, <1>2, <1>7, <2>1 DEF LoopEnd
<1> QED BY <1>3, <1>4, <1>5, <1>6, <1>7 DEF HandlerStep, StartupStep, ResenderStep

\* The workers: a call without an error is one the sequencer has taken.
LEMMA WorkerSent ==
    ASSUME QueueInv, SentInv, NEW w \in Worker, WorkerStep(w)
    PROVE  SentInv'
<1> USE DEF sequencerVars, callVars
<1>0. /\ pc \in [Process -> {"idle", "wait", "update", "monitor", "answer", "loop", "done"}]
      /\ err \in [Process -> BOOLEAN]
  BY DEF QueueInv, TypeOK
<1>1. CASE WorkerReceive(w)
  BY <1>1, QuietSent DEF WorkerReceive
<1>2. ASSUME NEW e \in BOOLEAN, wreq[w] # Nil, Done(w, e), accepted \subseteq accepted',
             ~e => tx[wreq[w]].hash \in accepted'
      PROVE  SentInv'
  <2>1. wreq[w] \in Process
    BY <1>2, WorkedOnWaits
  <2>2. tx[wreq[w]].id \in Id => tx[wreq[w]].hash = HashOf[tx[wreq[w]].id]
    BY <2>1 DEF SentInv, RowOfTx
  <2> QED BY <1>0, <1>2, <2>1, <2>2, StepSent DEF Done, Goto, Woken
<1>3. CASE WorkerCall(w)
  <2> DEFINE h == tx[wreq[w]].hash
  <2>1. PICK e \in BOOLEAN : (e \/ h \in Valid) /\ Done(w, e)
    BY <1>3 DEF WorkerCall
  <2>2. wreq[w] # Nil /\ accepted \subseteq accepted' /\ (h \in Valid => h \in accepted')
    BY <1>3 DEF WorkerCall, Takes
  <2> QED BY <1>2, <2>1, <2>2
<1>4. ASSUME NEW arrives \in BOOLEAN, WorkerTimeout(w, arrives) PROVE SentInv'
  BY <1>2, <1>4 DEF WorkerTimeout
<1> QED BY <1>1, <1>3, <1>4 DEF WorkerStep

\* The monitor marks nothing as sent, and a crash keeps table and sequencer.
LEMMA EnvironmentSent ==
    ASSUME QueueInv, SentInv, Environment
    PROVE  SentInv'
<1> USE DEF sequencerVars, callVars
<1>0. status \in [Id -> Status]
  BY DEF QueueInv, TypeOK
<1>1. ASSUME NEW h \in Hash, LateArrival(h) PROVE SentInv'
  BY <1>1, QuietSent DEF LateArrival, Takes
<1>2. ASSUME NEW rows, MonitorLoad(rows) PROVE SentInv'
  BY <1>2, QuietSent DEF MonitorLoad, LoadSent
<1>3. ASSUME NEW a \in Agent, NEW i \in Id, NEW ok \in BOOLEAN, MonitorUpdate(a, i, ok)
      PROVE  SentInv'
  <2>1. PICK s \in Final : UpdateL2TransactionStatus(i, s, ok)
    BY <1>3 DEF MonitorUpdate, Settle, Expire, Final
  <2>2. s \in Status /\ s # "sent"
    BY DEF Status, Final
  <2>3. \A j \in Id : status'[j] = "sent" => status[j] = "sent"
    BY <1>0, <2>1, <2>2, UpdateStatus
  <2> QED BY <1>3, <2>3, QuietSent DEF MonitorUpdate
<1>4. ASSUME NEW a \in Agent, MonitorForget(a) PROVE SentInv'
  BY <1>4, QuietSent DEF MonitorForget, Forget
<1>5. ASSUME NEW i \in ResendIds, OperatorResend(i) PROVE SentInv'
  <2>1. i \in Id
    BY SenderAssumption
  <2>2. \A j \in Id : status'[j] = "sent" => status[j] = "sent"
    BY <1>0, <1>5, <2>1, ResendStatus DEF OperatorResend
  <2> QED BY <1>5, <2>2, QuietSent DEF OperatorResend
<1>6. CASE Crash
  BY <1>6, PoolDBAssumption
     DEF Crash, SentInv, RowOfTx, TakenCall, SentMeansTaken, NoTx, Process
<1> QED BY <1>1, <1>2, <1>3, <1>4, <1>5, <1>6 DEF Environment

\* "a tx that has been sent to the sequencer" (types/l2transaction.go:15): a
\* row is marked as sent, and a client told so, only for a transaction that
\* the sequencer has, through every timeout, resend and crash.
THEOREM SentMeansTakenHolds == Spec => []SentMeansTaken
<1>1. Init => SentInv
  BY PoolDBAssumption DEF Init, SentInv, RowOfTx, TakenCall, SentMeansTaken, NoTx, Process
<1>2. ASSUME QueueInv, SentInv, [Next]_vars PROVE SentInv'
  <2>1. CASE UNCHANGED vars
    BY <1>2, <2>1, QuietSent DEF vars, sequencerVars, callVars
  <2> QED BY <1>2, <2>1, SendSent, CallerSent, WorkerSent, EnvironmentSent DEF Next
<1>3. SentInv => SentMeansTaken
  BY DEF SentInv
<1> QED BY <1>1, <1>2, <1>3, QueueInvariant, PTL DEF Spec
----------------------------------------------------------------------------
(* Who follows a row that is marked as sent.                               *)

\* What the monitor is about to let go of is not marked as sent, or is dropped,
\* or comes back (monitor.go:113-124, :136-141).
LetGo ==
    \A a \in Agent, i \in Id :
        closing[a] = i /\ closing[a] # Nobody /\ status[i] = "sent" =>
            i \in dropped \/ \E p \in Process : pc[p] = "monitor" /\ tx[p].id = i

FollowInv == SentIsMonitored /\ LetGo

\* A step of a goroutine that is not about to call the monitor.
LEMMA StepMonitored ==
    ASSUME FollowInv, NEW p \in Process, pc[p] # "monitor",
           \A q \in Process \ {p} : pc'[q] = pc[q] /\ tx'[q] = tx[q],
           UNCHANGED <<monitored, loaded, dropped, closing>>,
           \A j \in Id : status'[j] = "sent" =>
                            status[j] = "sent" \/ (pc'[p] = "monitor" /\ tx'[p].id = j)
    PROVE  FollowInv'
<1>1. SentIsMonitored'
  BY DEF FollowInv, SentIsMonitored
<1>2. LetGo'
  BY DEF FollowInv, LetGo
<1> QED BY <1>1, <1>2 DEF FollowInv

\* Nobody that is about to call the monitor moves, and the monitor lets go of
\* what it was to let go of.
LEMMA QuietMonitored ==
    ASSUME FollowInv, UNCHANGED <<pc, tx>>, dropped \subseteq dropped',
           \A a \in Agent : closing'[a] \in {closing[a], Nobody},
           \A j \in Id : status'[j] = "sent" =>
                status[j] = "sent" /\ (j \in monitored \/ ~loaded =>
                                        \/ j \in monitored' \/ ~loaded' \/ j \in dropped'
                                        \/ \E a \in Agent : closing[a] = j /\ closing[a] # Nobody)
    PROVE  FollowInv'
<1>1. SentIsMonitored'
  BY DEF FollowInv, SentIsMonitored, LetGo
<1>2. LetGo'
  BY DEF FollowInv, LetGo
<1> QED BY <1>1, <1>2 DEF FollowInv

\* The steps inside SendL2Transaction: the row is marked, and the monitor
\* called even if that was lost.
LEMMA SendMonitored ==
    ASSUME QueueInv, FollowInv, NEW p \in Process, SendStep(p) \/ ChannelSend(p)
    PROVE  FollowInv'
<1> USE DEF sequencerVars, monitorVars, callVars, followerVars
<1>0. /\ pc \in [Process -> {"idle", "wait", "update", "monitor", "answer", "loop", "done"}]
      /\ status \in [Id -> Status]
  BY DEF QueueInv, TypeOK
<1>1. ASSUME NEW ok \in BOOLEAN, Update(p, ok) PROVE FollowInv'
  <2>1. /\ pc[p] = "update" /\ pc' = [pc EXCEPT ![p] = AfterUpdate(p, ok)]
        /\ UNCHANGED <<tx, monitored, loaded, dropped, closing>>
    BY <1>1 DEF Update, Goto
  <2>2. UpdateL2TransactionStatus(tx[p].id, Verdict(p), ok)
    BY <1>1 DEF Update
  <2>3. Verdict(p) \in Status /\ (Verdict(p) = "sent" => AfterUpdate(p, ok) = "monitor")
    BY DEF Verdict, Status, AfterUpdate
  <2>4. \A j \in Id : status'[j] = status[j] \/ (j = tx[p].id /\ status'[j] = Verdict(p))
    <3>1. status \in [Id -> Status] /\ Verdict(p) \in Status
      BY <1>0, <2>3
    <3> QED BY <2>2, <3>1, UpdateStatus
  <2> QED BY <1>0, <2>1, <2>3, <2>4, StepMonitored
<1>2. CASE AddToMonitor(p)
  <2>1. /\ pc[p] = "monitor" /\ pc' = [pc EXCEPT ![p] = AfterCall(p)]
        /\ monitored' = monitored \cup {tx[p].id}
        /\ UNCHANGED <<status, loaded, tx, closing>>
    BY <1>2 DEF AddToMonitor, Goto, Follow
  <2>2. /\ \A j \in Id \ {tx[p].id} : j \in dropped' <=> j \in dropped
        /\ \A a \in Agent : closing[a] = tx[p].id => tx[p].id \in dropped'
    BY <1>2 DEF AddToMonitor
  <2>3. \A q \in Process : pc[q] = "monitor" => q = p \/ pc'[q] = "monitor"
    BY <1>0, <2>1
  <2>4. SentIsMonitored'
    BY <2>1, <2>2, <2>3 DEF FollowInv, SentIsMonitored
  <2>5. LetGo'
    BY <2>1, <2>2, <2>3 DEF FollowInv, LetGo
  <2> QED BY <2>4, <2>5 DEF FollowInv
<1>3. CASE ChannelSend(p)
  BY <1>3, QuietMonitored DEF ChannelSend
<1> QED BY <1>1, <1>2, <1>3 DEF SendStep

\* A caller between its calls is not about to call the monitor.
LEMMA CallerMonitored ==
    ASSUME QueueInv, FollowInv,
           (\E h \in Handler : HandlerStep(h)) \/ StartupStep \/ ResenderStep
    PROVE  FollowInv'
<1> USE DEF monitorVars, followerVars, Call, Goto
<1>0. /\ pc \in [Process -> {"idle", "wait", "update", "monitor", "answer", "loop", "done"}]
      /\ status \in [Id -> Status] /\ tx \in [Process -> TxToSend \cup {NoTx}]
  BY DEF QueueInv, TypeOK, TxToSend
<1>1. ASSUME NEW h \in Handler, NEW i \in Id, NEW ok \in BOOLEAN,
             SendRawTransaction(h, i, ok)
      PROVE  FollowInv'
  <2>1. \A j \in Id : status'[j] = "sent" => status[j] = "sent"
    BY <1>0, <1>1, InsertStatus DEF SendRawTransaction
  <2>2. h \in Process
    BY DEF Process
  <2> QED BY <1>0, <1>1, <2>1, <2>2, StepMonitored DEF SendRawTransaction
<1>2. ASSUME NEW h \in Handler, Answer(h) PROVE FollowInv'
  BY <1>0, <1>2, StepMonitored DEF Answer, Process
<1>3. ASSUME NEW p \in {Startup, Resender}, NEW rows, Select(p, rows) PROVE FollowInv'
  BY <1>0, <1>3, StepMonitored DEF Select, Process
<1>4. ASSUME NEW p \in {Startup, Resender}, NEW i \in Id, LoopNext(p, i)
      PROVE  FollowInv'
  BY <1>0, <1>4, StepMonitored DEF LoopNext, Process
<1>5. ASSUME NEW p \in {Startup, Resender}, LoopEnd(p) PROVE FollowInv'
  BY <1>0, <1>5, StepMonitored DEF LoopEnd, Process
<1> QED BY <1>1, <1>2, <1>3, <1>4, <1>5 DEF HandlerStep, StartupStep, ResenderStep

\* Nor is one whose request a worker has.
LEMMA WorkerMonitored ==
    ASSUME QueueInv, FollowInv, NEW w \in Worker, WorkerStep(w)
    PROVE  FollowInv'
<1> USE DEF monitorVars, callVars, followerVars
<1>1. CASE WorkerReceive(w)
  BY <1>1, QuietMonitored DEF WorkerReceive
<1>2. ASSUME NEW e, wreq[w] # Nil, Done(w, e) PROVE FollowInv'
  <2>1. wreq[w] \in Process /\ pc[wreq[w]] = "wait"
    BY <1>2, WorkedOnWaits
  <2>2. \A q \in Process \ {wreq[w]} : pc'[q] = pc[q] /\ tx'[q] = tx[q]
    BY <1>2, <2>1 DEF Done, Goto, QueueInv, TypeOK
  <2> QED BY <1>2, <2>1, <2>2, StepMonitored DEF Done
<1>3. CASE WorkerCall(w)
  BY <1>2, <1>3 DEF WorkerCall
<1>4. ASSUME NEW arrives \in BOOLEAN, WorkerTimeout(w, arrives) PROVE FollowInv'
  BY <1>2, <1>4 DEF WorkerTimeout
<1> QED BY <1>1, <1>3, <1>4 DEF WorkerStep

\* The monitor drops what it fails to load and to expire, and a crash has the
\* rows loaded again.
LEMMA EnvironmentMonitored ==
    ASSUME QueueInv, FollowInv, Environment
    PROVE  FollowInv'
<1> USE DEF monitorVars, callVars, followerVars
<1>0. status \in [Id -> Status] /\ closing \in [Agent -> Id \cup {Nobody}]
  BY DEF QueueInv, TypeOK
<1>1. ASSUME NEW h \in Hash, LateArrival(h) PROVE FollowInv'
  BY <1>1, QuietMonitored DEF LateArrival
<1>2. ASSUME NEW rows, MonitorLoad(rows) PROVE FollowInv'
  <2> DEFINE all == UNION GetL2TransactionsToMonitor
  <2>1. \A j \in Id : status[j] = "sent" => j \in all
    <3> DEFINE sent == {j \in Id : status[j] = "sent"}
    <3>1. sent \in GetL2TransactionsToMonitor
      BY DEF GetL2TransactionsToMonitor, GetL2TransactionsByStatus
    <3> QED BY <3>1
  <2>2. /\ dropped' = dropped \cup (all \ monitored')
        /\ status' = status /\ UNCHANGED <<closing, pc, tx>>
    BY <1>2 DEF MonitorLoad, LoadSent
  <2> HIDE DEF all
  <2>3. \A j \in Id : status'[j] = "sent" =>
            status[j] = "sent" /\ (j \in monitored' \/ j \in dropped')
    BY <2>1, <2>2
  <2>4. /\ UNCHANGED <<pc, tx>> /\ dropped \subseteq dropped'
        /\ \A a \in Agent : closing'[a] \in {closing[a], Nobody}
    BY <2>2
  <2>5. \A j \in Id : status'[j] = "sent" =>
            status[j] = "sent" /\ (j \in monitored \/ ~loaded =>
                                    \/ j \in monitored' \/ ~loaded' \/ j \in dropped'
                                    \/ \E a \in Agent : closing[a] = j /\ closing[a] # Nobody)
    BY <2>3
  <2> QED BY <2>4, <2>5, QuietMonitored
<1>3. ASSUME NEW a \in Agent, NEW i \in Id, NEW ok \in BOOLEAN, MonitorUpdate(a, i, ok)
      PROVE  FollowInv'
  <2>1. PICK s \in Final :
            /\ UpdateL2TransactionStatus(i, s, ok)
            /\ \/ ~ok /\ dropped' = dropped /\ closing' = closing
               \/ /\ closing' = [closing EXCEPT ![a] = i]
                  /\ dropped' = IF ok THEN dropped ELSE dropped \cup {i}
    BY <1>3 DEF MonitorUpdate, Settle, Expire, Final
  <2>2. s \in Status /\ s # "sent"
    BY DEF Status, Final
  <2>3. \A j \in Id : status'[j] = status[j] \/ (j = i /\ status'[j] = s)
    BY <1>0, <2>1, <2>2, UpdateStatus
  <2>4. ok => status'[i] = s
    BY <1>0, <2>1 DEF UpdateL2TransactionStatus, Exec
  <2>5. UNCHANGED <<monitored, loaded, pc, tx>> /\ dropped \subseteq dropped'
    BY <1>3 DEF MonitorUpdate, Settle, Expire
  <2>6. SentIsMonitored'
    BY <2>2, <2>3, <2>5 DEF FollowInv, SentIsMonitored
  <2>7. LetGo'
    <3>1. \A b \in Agent : closing'[b] = closing[b] \/ (closing'[b] = i /\ (ok \/ i \in dropped'))
      BY <1>0, <2>1
    <3> QED BY <2>2, <2>3, <2>4, <2>5, <3>1 DEF FollowInv, LetGo
  <2> QED BY <2>6, <2>7 DEF FollowInv
<1>4. ASSUME NEW a \in Agent, MonitorForget(a) PROVE FollowInv'
  <2>1. /\ closing[a] # Nobody /\ monitored \ {closing[a]} \subseteq monitored'
        /\ closing' = [closing EXCEPT ![a] = Nobody]
        /\ UNCHANGED <<status, loaded, dropped, pc, tx>>
    BY <1>4 DEF MonitorForget, Forget
  <2>2. \A b \in Agent : closing'[b] \in {closing[b], Nobody}
    BY <1>0, <2>1
  <2>3. \A j \in Id : j \in monitored => j \in monitored' \/ closing[a] = j
    BY <2>1
  <2> QED BY <2>1, <2>2, <2>3, QuietMonitored
<1>5. ASSUME NEW i \in ResendIds, OperatorResend(i) PROVE FollowInv'
  <2>1. i \in Id
    BY SenderAssumption
  <2>2. \A j \in Id : status'[j] = "sent" => status[j] = "sent"
    BY <1>0, <1>5, <2>1, ResendStatus DEF OperatorResend
  <2> QED BY <1>5, <2>2, QuietMonitored DEF OperatorResend
<1>6. CASE Crash
  BY <1>6 DEF Crash, FollowInv, SentIsMonitored, LetGo
<1> QED BY <1>1, <1>2, <1>3, <1>4, <1>5, <1>6 DEF Environment

\* Every row that is marked as sent is followed by the monitor or is about to
\* be (sender.go:64-68, monitor.go:161-169), but for those the load was cut
\* short of, those whose expiry reported an error and those sent again while
\* an earlier request of theirs is being deleted.
THEOREM SentIsMonitoredHolds == Spec => []SentIsMonitored
<1>1. Init => FollowInv
  BY DEF Init, FollowerInit, FollowInv, SentIsMonitored, LetGo
<1>2. ASSUME QueueInv, FollowInv, [Next]_vars PROVE FollowInv'
  <2>1. CASE UNCHANGED vars
    BY <1>2, <2>1, QuietMonitored DEF vars, monitorVars, callVars, followerVars
  <2> QED
    BY <1>2, <2>1, SendMonitored, CallerMonitored, WorkerMonitored, EnvironmentMonitored
       DEF Next
<1>3. FollowInv => SentIsMonitored
  BY DEF FollowInv
<1> QED BY <1>1, <1>2, <1>3, QueueInvariant, PTL DEF Spec
----------------------------------------------------------------------------
(* Who sends a pending row.                                                *)

\* A step of one goroutine that does not give up a row that is still pending.
LEMMA StepPending ==
    ASSUME NEW i \in Id, Covered(i), NEW p \in Process,
           \A q \in Process \ {p} : pc'[q] = pc[q] /\ tx'[q] = tx[q],
           status'[i] = "pending" =>
              /\ status[i] = "pending" \/ Sends(p, i)'
              /\ Sends(p, i) \/ Waits(i) => Waits(i)' \/ Sends(p, i)'
    PROVE  Covered(i)'
BY DEF Covered, Sends, Waits

\* The steps inside SendL2Transaction: the call ends with the status written.
LEMMA SendPending ==
    ASSUME QueueInv, NEW i \in Id, Covered(i), ~LeftBehind(i), NEW p \in Process,
           SendStep(p) \/ ChannelSend(p)
    PROVE  Covered(i)'
<1> USE DEF callVars
<1>0. /\ pc \in [Process -> {"idle", "wait", "update", "monitor", "answer", "loop", "done"}]
      /\ status \in [Id -> Status]
  BY DEF QueueInv, TypeOK
<1>1. ASSUME NEW l \in {"answer", "loop", "monitor"}, pc' = [pc EXCEPT ![p] = l],
             pc[p] \in {"update", "monitor"}, UNCHANGED <<tx, todo>>,
             status'[i] = "pending" => status[i] = "pending" /\ ~Sends(p, i)
      PROVE  Covered(i)'
  <2>1. \A q \in Process : pc'[q] = IF q = p THEN l ELSE pc[q]
    BY <1>0, <1>1
  <2>2. Startup \in Process
    BY DEF Process
  <2>3. Waits(i) => Waits(i)'
    BY <1>1, <2>1, <2>2 DEF Waits
  <2> QED BY <1>1, <2>1, <2>3, StepPending
<1>2. ASSUME NEW ok \in BOOLEAN, Update(p, ok) PROVE Covered(i)'
  <2>1. UpdateL2TransactionStatus(tx[p].id, Verdict(p), ok)
    BY <1>2 DEF Update
  <2>2. Verdict(p) \in Status /\ Verdict(p) # "pending"
    BY DEF Verdict, Status
  <2>3. status'[i] = status[i] \/ (i = tx[p].id /\ status'[i] = Verdict(p))
    <3>1. status \in [Id -> Status] /\ Verdict(p) \in Status
      BY <1>0, <2>2
    <3> QED BY <2>1, <3>1, UpdateStatus
  <2>4. ASSUME i = tx[p].id PROVE status'[i] = Verdict(p)
    <3>1. ok = TRUE
      BY <1>2, <2>4 DEF LeftBehind
    <3> QED BY <2>1, <2>4, <3>1 DEF UpdateL2TransactionStatus, Exec
  <2>5. status'[i] = "pending" => status[i] = "pending" /\ ~Sends(p, i)
    BY <2>2, <2>3, <2>4 DEF Sends
  <2>6. AfterUpdate(p, ok) \in {"answer", "loop", "monitor"}
    BY DEF AfterUpdate, AfterCall
  <2> QED BY <1>1, <1>2, <2>5, <2>6 DEF Update, Goto
<1>3. CASE AddToMonitor(p)
  <2>1. AfterCall(p) \in {"answer", "loop", "monitor"}
    BY DEF AfterCall
  <2>2. status'[i] = "pending" => status[i] = "pending" /\ ~Sends(p, i)
    BY <1>3 DEF AddToMonitor, Follow, Sends
  <2> QED BY <1>1, <1>3, <2>1, <2>2 DEF AddToMonitor, Goto
<1>4. CASE ChannelSend(p)
  BY <1>4 DEF ChannelSend, Covered, Waits, Sends
<1> QED BY <1>2, <1>3, <1>4 DEF SendStep

\* The callers: a handler sends what it has inserted, the loop of the start
\* what it has read.
LEMMA CallerPending ==
    ASSUME QueueInv, NEW i \in Id, Covered(i), ~LeftBehind(i),
           (\E h \in Handler : HandlerStep(h)) \/ StartupStep \/ ResenderStep
    PROVE  Covered(i)'
<1> USE DEF Goto
<1>0. /\ pc \in [Process -> {"idle", "wait", "update", "monitor", "answer", "loop", "done"}]
      /\ status \in [Id -> Status] /\ tx \in [Process -> TxToSend \cup {NoTx}]
      /\ todo \in [{Startup, Resender} -> SUBSET Id]
      /\ Startup \in Process /\ Resender \in Process /\ Startup # Resender
      /\ Startup \notin Handler
  BY SenderAssumption DEF QueueInv, TypeOK, TxToSend, Process, Startup, Resender
<1>1. ASSUME NEW h \in Handler, NEW k \in Id, NEW ok \in BOOLEAN,
             SendRawTransaction(h, k, ok)
      PROVE  Covered(i)'
  <2>1. InsertL2Transaction(k, ok) /\ h \in Process /\ h # Startup
    BY <1>0, <1>1 DEF SendRawTransaction, Process
  <2>2. status'[i] = "pending" => status[i] = "pending" \/ i = k
    BY <1>0, <2>1, InsertStatus
  <2>3. /\ pc[h] = "idle" /\ pc' = [pc EXCEPT ![h] = "wait"] /\ UNCHANGED todo
        /\ tx' = [tx EXCEPT ![h] = [id |-> IF ok THEN k ELSE 0, hash |-> HashOf[k]]]
    BY <1>1 DEF SendRawTransaction, Call, AfterEnqueue
  <2>4. i = k => ok = TRUE
    BY <1>1 DEF LeftBehind
  <2>5. (i = k => Sends(h, i)') /\ ~Sends(h, i)
    BY <1>0, <2>1, <2>3, <2>4 DEF Sends
  <2>6. Waits(i) => Waits(i)'
    BY <1>0, <2>1, <2>3 DEF Waits
  <2>7. \A q \in Process \ {h} : pc'[q] = pc[q] /\ tx'[q] = tx[q]
    BY <1>0, <2>1, <2>3
  <2> QED BY <2>1, <2>2, <2>5, <2>6, <2>7, StepPending
<1>2. ASSUME NEW h \in Handler, Answer(h) PROVE Covered(i)'
  <2>1. /\ h \in Process /\ h # Startup /\ pc[h] = "answer" /\ pc' = [pc EXCEPT ![h] = "idle"]
        /\ tx' = [tx EXCEPT ![h] = NoTx] /\ UNCHANGED <<todo, status>>
    BY <1>0, <1>2 DEF Answer, Process
  <2>2. Waits(i) => Waits(i)'
    BY <1>0, <2>1 DEF Waits
  <2>3. ~Sends(h, i)
    BY <2>1 DEF Sends
  <2>4. \A q \in Process \ {h} : pc'[q] = pc[q] /\ tx'[q] = tx[q]
    BY <1>0, <2>1
  <2> QED BY <2>1, <2>2, <2>3, <2>4, StepPending
<1>3. ASSUME NEW rows \in GetL2TransactionsToSend, Select(Startup, rows)
      PROVE  Covered(i)'
  <2>1. status[i] = "pending" => i \in rows
    BY <1>3 DEF LeftBehind
  <2>2. todo'[Startup] = rows /\ status' = status
    BY <1>0, <1>3 DEF Select
  <2> QED BY <2>1, <2>2 DEF Covered, Waits
<1>4. ASSUME NEW rows, Select(Resender, rows) PROVE Covered(i)'
  <2>1. /\ pc[Resender] = "idle" /\ pc' = [pc EXCEPT ![Resender] = "loop"]
        /\ todo'[Startup] = todo[Startup] /\ UNCHANGED <<tx, status>>
    BY <1>0, <1>4 DEF Select
  <2>2. (Waits(i) => Waits(i)') /\ ~Sends(Resender, i)
    BY <1>0, <2>1 DEF Waits, Sends
  <2> QED BY <1>0, <2>1, <2>2, StepPending
<1>5. ASSUME NEW p \in {Startup, Resender}, NEW k \in Id, LoopNext(p, k)
      PROVE  Covered(i)'
  <2>1. /\ p \in Process /\ pc[p] = "loop" /\ pc' = [pc EXCEPT ![p] = "wait"]
        /\ tx' = [tx EXCEPT ![p] = [id |-> k, hash |-> HashOf[k]]]
        /\ todo' = [todo EXCEPT ![p] = @ \ {k}] /\ UNCHANGED status
    BY <1>0, <1>5 DEF LoopNext, Call, AfterEnqueue
  <2>2. (i = k => Sends(p, i)') /\ ~Sends(p, i)
    BY <1>0, <2>1 DEF Sends
  <2>3. Waits(i) => Waits(i)' \/ i = k
    BY <1>0, <2>1 DEF Waits
  <2>4. \A q \in Process \ {p} : pc'[q] = pc[q] /\ tx'[q] = tx[q]
    BY <1>0, <2>1
  <2> QED BY <2>1, <2>2, <2>3, <2>4, StepPending
<1>6. ASSUME NEW p \in {Startup, Resender}, LoopEnd(p) PROVE Covered(i)'
  <2>1. /\ p \in Process /\ pc[p] = "loop" /\ pc' = [pc EXCEPT ![p] = AfterLoop(p)]
        /\ tx' = [tx EXCEPT ![p] = NoTx] /\ UNCHANGED <<todo, status>>
    BY <1>0, <1>6 DEF LoopEnd, LoopEnds
  <2>2. (Waits(i) => Waits(i)') /\ ~Sends(p, i)
    BY <1>0, <2>1 DEF Waits, Sends
  <2>3. \A q \in Process \ {p} : pc'[q] = pc[q] /\ tx'[q] = tx[q]
    BY <1>0, <2>1
  <2> QED BY <2>1, <2>2, <2>3, StepPending
<1> QED
  BY <1>1, <1>2, <1>3, <1>4, <1>5, <1>6 DEF HandlerStep, StartupStep, ResenderStep

\* The workers: who waits is woken with the transaction it waits for.
LEMMA WorkerPending ==
    ASSUME QueueInv, NEW i \in Id, Covered(i), NEW w \in Worker, WorkerStep(w)
    PROVE  Covered(i)'
<1> USE DEF callVars
<1>1. CASE WorkerReceive(w)
  BY <1>1 DEF WorkerReceive, Covered, Waits, Sends
<1>2. ASSUME NEW e, wreq[w] # Nil, Done(w, e) PROVE Covered(i)'
  <2>1. PICK p \in Process : p = wreq[w] /\ pc[p] = "wait"
    BY <1>2, WorkedOnWaits
  <2>2. /\ UNCHANGED <<tx, todo, status>> /\ Startup \in Process
        /\ \A q \in Process : pc'[q] = IF q = p THEN "update" ELSE pc[q]
    BY <1>2, <2>1 DEF Done, Goto, Woken, QueueInv, TypeOK, Process
  <2>3. (Waits(i) => Waits(i)') /\ (Sends(p, i) => Sends(p, i)')
    BY <2>1, <2>2 DEF Waits, Sends
  <2> QED BY <2>1, <2>2, <2>3, StepPending
<1>3. CASE WorkerCall(w)
  BY <1>2, <1>3 DEF WorkerCall
<1>4. ASSUME NEW arrives \in BOOLEAN, WorkerTimeout(w, arrives) PROVE Covered(i)'
  BY <1>2, <1>4 DEF WorkerTimeout
<1> QED BY <1>1, <1>3, <1>4 DEF WorkerStep

\* The surroundings make no row pending; after a crash the loop of the start
\* is to come.
LEMMA EnvironmentPending ==
    ASSUME QueueInv, NEW i \in Id, Covered(i), Environment
    PROVE  Covered(i)'
<1> USE DEF callVars
<1>0. status \in [Id -> Status]
  BY DEF QueueInv, TypeOK
<1>1. ASSUME UNCHANGED <<pc, tx, todo>>,
             status'[i] = "pending" => status[i] = "pending"
      PROVE  Covered(i)'
  BY <1>1 DEF Covered, Waits, Sends
<1>2. ASSUME NEW h \in Hash, LateArrival(h) PROVE Covered(i)'
  BY <1>1, <1>2 DEF LateArrival
<1>3. ASSUME NEW rows, MonitorLoad(rows) PROVE Covered(i)'
  BY <1>1, <1>3 DEF MonitorLoad, LoadSent
<1>4. ASSUME NEW a \in Agent, NEW k \in Id, NEW ok \in BOOLEAN, MonitorUpdate(a, k, ok)
      PROVE  Covered(i)'
  <2>1. PICK s \in Final : UpdateL2TransactionStatus(k, s, ok)
    BY <1>4 DEF MonitorUpdate, Settle, Expire, Final
  <2>2. s \in Status /\ s # "pending"
    BY DEF Status, Final
  <2>3. status'[i] = "pending" => status[i] = "pending"
    BY <1>0, <2>1, <2>2, UpdateStatus
  <2> QED BY <1>1, <1>4, <2>3 DEF MonitorUpdate
<1>5. ASSUME NEW a \in Agent, MonitorForget(a) PROVE Covered(i)'
  BY <1>1, <1>5 DEF MonitorForget, Forget
<1>6. ASSUME NEW k \in ResendIds, OperatorResend(k) PROVE Covered(i)'
  <2>1. k \in Id
    BY SenderAssumption
  <2>2. status'[i] = "pending" => status[i] = "pending"
    BY <1>0, <1>6, <2>1, ResendStatus DEF OperatorResend
  <2> QED BY <1>1, <1>6, <2>2 DEF OperatorResend
<1>7. CASE Crash
  BY <1>7 DEF Crash, Covered, Waits, Process
<1> QED BY <1>2, <1>3, <1>4, <1>5, <1>6, <1>7 DEF Environment

\* With any faults, crashes and time-outs: a pending row that has somebody who
\* will send it, the handler that inserted it or the loop of the start, keeps one
\* unless a statement about it fails (endpoints.go:70-73, sender.go:58-68,
\* :133-147); no race between handlers, loops, workers and monitor leaves it behind.
THEOREM CoveredUnlessLeftBehindHolds == Spec => CoveredUnlessLeftBehind
<1>1. ASSUME QueueInv, [Next]_vars, NEW i \in Id, Covered(i), ~LeftBehind(i) PROVE Covered(i)'
  <2>1. CASE UNCHANGED vars
    BY <1>1, <2>1 DEF vars, callVars, Covered, Waits, Sends
  <2> QED
    BY <1>1, <2>1, SendPending, CallerPending, WorkerPending, EnvironmentPending DEF Next
<1>2. QueueInv /\ [Next]_vars =>
         [\A i \in Id : Covered(i) => Covered(i)' \/ LeftBehind(i)]_vars
  BY <1>1
<1> QED BY <1>2, QueueInvariant, PTL DEF Spec, CoveredUnlessLeftBehind

\* With a database that fails no statement, every pending row has somebody who
\* will send it, the handler that inserted it or the loop of the start, across
\* crashes (sender.go:133-147).
THEOREM PendingIsCoveredHolds ==
    ASSUME DBFaults = {}
    PROVE  Spec => []PendingIsCovered
<1>1. Init => PendingIsCovered
  BY DEF Init, PendingIsCovered, Covered, Waits, Process
<1>2. ASSUME NEW i \in Id, LeftBehind(i) PROVE FALSE
  <2>1. ASSUME NEW p \in Process, Update(p, FALSE) PROVE FALSE
    BY <2>1 DEF Update, UpdateL2TransactionStatus, Exec
  <2>2. ASSUME NEW h \in Handler, SendRawTransaction(h, i, FALSE) PROVE FALSE
    BY <2>2 DEF SendRawTransaction, InsertL2Transaction, Exec
  <2>3. ASSUME status[i] = "pending", NEW rows \in GetL2TransactionsToSend PROVE i \in rows
    BY <2>3 DEF GetL2TransactionsToSend, GetL2TransactionsByStatus
  <2> QED BY <1>2, <2>1, <2>2, <2>3 DEF LeftBehind
<1>3. ASSUME PendingIsCovered,
             [\A i \in Id : Covered(i) => Covered(i)' \/ LeftBehind(i)]_vars
      PROVE  PendingIsCovered'
  <2>1. CASE UNCHANGED vars
    BY <1>3, <2>1 DEF vars, callVars, PendingIsCovered, Covered, Waits, Sends
  <2>2. CASE \A i \in Id : Covered(i) => Covered(i)' \/ LeftBehind(i)
    <3>1. \A i \in Id : Covered(i)'
      BY <1>2, <1>3, <2>2 DEF PendingIsCovered
    <3> QED BY <3>1 DEF PendingIsCovered
  <2> QED BY <1>3, <2>1, <2>2
<1> QED BY <1>1, <1>3, CoveredUnlessLeftBehindHolds, PTL DEF Spec, CoveredUnlessLeftBehind
----------------------------------------------------------------------------
(* The queue implements WorkQueue.                                         *)

\* A step that moves no request.
LEMMA QuietQueue ==
    ASSUME UNCHANGED <<enqueuing, requestChan, wreq>>
    PROVE  UNCHANGED Queue!vars
BY DEF Queue!vars

\* A call submits a request the queue does not have.
LEMMA CallQueue ==
    ASSUME QueueInv, NEW p \in Process, pc[p] # "wait", NEW i, NEW h, Call(p, i, h)
    PROVE  Queue!Next
<1>1. enqueuing' = enqueuing \cup {p} /\ UNCHANGED <<requestChan, wreq>>
  BY DEF Call
<1>2. p \notin enqueuing \cup ToSet(requestChan) /\ \A w \in Worker : wreq[w] # p
  BY DEF QueueInv, HeldOnce
<1>3. Queue!Submit(p)
  BY <1>1, <1>2 DEF Queue!Submit
<1> QED BY <1>3 DEF Queue!Next

\* The steps of the senders and of the callers.
LEMMA CallerQueue ==
    ASSUME QueueInv,
           \/ \E p \in Process : SendStep(p) \/ ChannelSend(p)
           \/ \E h \in Handler : HandlerStep(h)
           \/ StartupStep \/ ResenderStep
    PROVE  [Queue!Next]_(Queue!vars)
<1> USE DEF queueVars
<1>1. ASSUME NEW p \in Process, SendStep(p) PROVE UNCHANGED Queue!vars
  BY <1>1, QuietQueue DEF SendStep, Update, AddToMonitor
<1>2. ASSUME NEW p \in Process, ChannelSend(p) PROVE UNCHANGED Queue!vars
  <2>1. /\ p \in enqueuing /\ p \notin ToSet(requestChan) /\ requestChan \in Seq(Process)
        /\ IsInjective(requestChan) /\ enqueuing' = enqueuing \ {p}
        /\ requestChan' = Append(requestChan, p) /\ UNCHANGED wreq
    BY <1>2 DEF QueueInv, TypeOK, HeldOnce, ChannelSend
  <2>2. ToSet(requestChan') = ToSet(requestChan) \cup {p}
    BY <2>1, SendProperty
  <2> QED BY <2>1, <2>2 DEF Queue!vars
<1>3. ASSUME NEW h \in Handler, HandlerStep(h) PROVE [Queue!Next]_(Queue!vars)
  <2>1. ASSUME NEW i \in Id, NEW ok \in BOOLEAN, SendRawTransaction(h, i, ok)
        PROVE  Queue!Next
    <3>1. h \in Process /\ pc[h] # "wait"
      BY <2>1 DEF SendRawTransaction, Process
    <3> QED BY <2>1, <3>1, CallQueue DEF SendRawTransaction
  <2>2. CASE Answer(h)
    BY <2>2, QuietQueue DEF Answer
  <2> QED BY <1>3, <2>1, <2>2 DEF HandlerStep
<1>4. ASSUME NEW p \in {Startup, Resender}, NEW i \in Id, LoopNext(p, i) PROVE Queue!Next
  <2>1. p \in Process /\ pc[p] # "wait"
    BY <1>4 DEF LoopNext, Process
  <2> QED BY <1>4, <2>1, CallQueue DEF LoopNext
<1>5. ASSUME NEW p, NEW rows, Select(p, rows) \/ LoopEnd(p) PROVE UNCHANGED Queue!vars
  BY <1>5, QuietQueue DEF Select, LoopEnd
<1> QED BY <1>1, <1>2, <1>3, <1>4, <1>5 DEF StartupStep, ResenderStep

\* A worker takes a request and is done with it.
LEMMA WorkerQueue ==
    ASSUME QueueInv, NEW w \in Worker, WorkerStep(w)
    PROVE  Queue!Next
<1>1. CASE WorkerReceive(w)
  <2>1. /\ requestChan \in Seq(Process) /\ requestChan # <<>> /\ IsInjective(requestChan)
        /\ wreq[w] = Nil /\ wreq' = [wreq EXCEPT ![w] = Head(requestChan)]
        /\ requestChan' = Tail(requestChan) /\ UNCHANGED enqueuing
    BY <1>1 DEF QueueInv, TypeOK, HeldOnce, WorkerReceive
  <2>2. /\ Head(requestChan) \in Process /\ Head(requestChan) \in ToSet(requestChan)
        /\ ToSet(requestChan') = ToSet(requestChan) \ {Head(requestChan)}
    BY <2>1, ReceiveProperty
  <2>3. Head(requestChan) \notin enqueuing
    BY <2>2 DEF QueueInv, HeldOnce
  <2>4. PICK p \in Process : p = Head(requestChan)
    BY <2>2
  <2>5. Queue!Take(w, p)
    BY <2>1, <2>2, <2>3, <2>4 DEF Queue!Take
  <2> QED BY <2>5 DEF Queue!Next
<1>2. ASSUME NEW e, wreq[w] # Nil, Done(w, e) PROVE Queue!Next
  <2>1. Queue!Finish(w)
    BY <1>2 DEF Done, Queue!Finish
  <2> QED BY <2>1 DEF Queue!Next
<1> QED BY <1>1, <1>2 DEF WorkerStep, WorkerCall, WorkerTimeout

\* A crash empties the queue, nothing else of the surroundings touches it.
LEMMA EnvironmentQueue ==
    ASSUME Environment
    PROVE  [Queue!Next]_(Queue!vars)
<1> USE DEF queueVars
<1>1. CASE Crash
  <2>1. requestChan' = <<>> /\ ToSet(requestChan') = {}
    BY <1>1 DEF Crash, ToSet
  <2>2. Queue!Reset
    BY <1>1, <2>1 DEF Crash, Queue!Reset
  <2> QED BY <2>2 DEF Queue!Next
<1>2. ASSUME UNCHANGED queueVars PROVE UNCHANGED Queue!vars
  BY <1>2, QuietQueue
<1> QED
  BY <1>1, <1>2 DEF Environment, LateArrival, MonitorLoad, MonitorUpdate, MonitorForget,
                    OperatorResend

\* The sender's queue is a queue: a goroutine never has a second request in
\* it, and every request is taken by one worker, across crashes
\* (sender.go:54-56, :74-94).  This is the safety part of QueueImplemented.
THEOREM SenderQueueSafe == Spec => Queue!Spec
<1>1. Init => Queue!Init
  <2> SUFFICES ASSUME Init PROVE Queue!Init
    OBVIOUS
  <2>1. requestChan = <<>> /\ ToSet(requestChan) = {}
    BY DEF Init, ToSet
  <2> QED BY <2>1 DEF Init, Queue!Init
<1>2. ASSUME QueueInv, [Next]_vars PROVE [Queue!Next]_(Queue!vars)
  <2>1. CASE UNCHANGED vars
    BY <2>1, QuietQueue DEF vars, queueVars
  <2> QED BY <1>2, <2>1, CallerQueue, WorkerQueue, EnvironmentQueue DEF Next
<1> QED BY <1>1, <1>2, QueueInvariant, PTL DEF Spec, Queue!Spec
============================================================================
