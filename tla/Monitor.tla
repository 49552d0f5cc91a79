------------------------------ MODULE Monitor ------------------------------
(***************************************************************************)
(* The monitor (monitor/monitor.go): workers that ask the L2 node for the  *)
(* receipts of sent transactions, the goroutine that moves due requests    *)
(* from the retry list back to the queue, and the calls that hand the      *)
(* monitor a transaction.                                                  *)
(*                                                                         *)
(* Every goroutine is a program counter; one action is what a goroutine    *)
(* does between two points where another can interfere.  The retry list is *)
(* RequestList; requests are pointers that move between the list, the      *)
(* goroutines that enqueue them, the channel and the workers.              *)
(***************************************************************************)
EXTENDS RequestList, PoolDB

CONSTANTS
    Worker,               \* cfg.Workers
    QueueSize,            \* cfg.QueueSize
    InitialWaitInterval,  \* cfg.InitialWaitInterval
    RetryWaitInterval,    \* cfg.RetryWaitInterval
    TxLifeTimeMax,        \* cfg.TxLifeTimeMax
    ReceivedAt,           \* l2Tx.ReceivedAt of each request
    Horizon,              \* bound: no time is later than Horizon + 1
    InitStatus,           \* pool.transaction.status when the process starts
    ResendIds             \* transactions an operator may ask to resend

\* config.validate refuses a queue that is shorter than the workers.  A
\* transaction whose INSERT has failed is sent and handed over with id 0.
ASSUME MonitorAssumption ==
    /\ IsFiniteSet(Worker)
    /\ QueueSize \in Nat /\ QueueSize >= Cardinality(Worker) /\ QueueSize > 0
    /\ InitialWaitInterval \in Nat /\ RetryWaitInterval \in Nat
    /\ TxLifeTimeMax \in Nat
    /\ ReceivedAt \in [Request -> Nat]
    /\ Key = Id \cup {0}
    /\ Horizon \in Nat /\ Time = 0..Horizon
    /\ ResendIds \subseteq Id
    /\ InitStatus \in [Id -> Status]

Hash == {HashOf[r] : r \in Request}

VARIABLES
    now,          \* the clock
    receipt,      \* the L2 node: the status of the receipt of each hash
    caller,       \* the AddL2Transaction call that made each request
    loaded,       \* monitorL2TransactionsFromPoolDB: the rows are read,
    loadTodo,     \* ... those it has still to add
    loadReq,      \* ... and the request it is adding
    enqueuing,    \* goroutines of enqueueMonitorRequest, by their request
    requestChan,  \* requestChan
    wpc, wreq,    \* each worker's program counter and request
    wstatus,      \* ... and l2TxStatus
    cpc, creq     \* checkMonitorRequestRetries: program counter and request

loadVars == <<loaded, loadTodo, loadReq>>
callVars == <<caller, loadVars>>
queueVars == <<enqueuing, requestChan>>
workerVars == <<wpc, wreq, wstatus>>
checkerVars == <<cpc, creq>>
nodeVars == <<now, receipt>>
vars == <<listVars, nodeVars, status, callVars, queueVars, workerVars, checkerVars>>

----------------------------------------------------------------------------
\* time.Now().Add(d), cut off at the horizon: there every wait is over at once.
After(d) == IF now + d <= Horizon THEN now + d ELSE Horizon

\* A panic of one goroutine, the checker's, ends the process.
Running == cpc # "panic"

CallerAt(r, label) == Running /\ caller[r] = label

WorkerAt(w, label) == Running /\ wpc[w] = label

\* go func() { m.requestChan <- request }()
enqueueMonitorRequest(r) == enqueuing' = enqueuing \cup {r}

\* The goroutine's send, once the channel has room.
ChannelSend(r) ==
    /\ Running /\ r \in enqueuing
    /\ Len(requestChan) < QueueSize
    /\ enqueuing' = enqueuing \ {r}
    /\ requestChan' = Append(requestChan, r)
    /\ UNCHANGED <<listVars, nodeVars, status, callVars, workerVars, checkerVars>>

\* requestRetryCond.Signal wakes the checker if it waits and is lost if not.
Signal == IF cpc = "waiting" THEN cpc' = "len" ELSE UNCHANGED cpc

----------------------------------------------------------------------------
(* AddL2Transaction, one call per request.  The callers are the sender,    *)
(* after it has set the status of a transaction to sent, and the monitor   *)
(* itself when it starts.                                                  *)

\* Sender.SendL2Transaction: a goroutine of the sender reads a transaction
\* that is pending or to be resent and waits for the sequencer's answer.  A
\* handler and the loop that runs when the sender starts may both read a
\* pending one; there is one resend loop; a handler goes on with id 0 when the
\* INSERT fails.
SenderTakes(r) ==
    /\ CallerAt(r, "none") /\ ReceivedAt[r] <= now
    /\ \/ IdOf[r] \in Id /\ status[IdOf[r]] = "pending"
       \/ /\ IdOf[r] \in Id /\ status[IdOf[r]] = "resend"
          /\ \A s \in Request : IdOf[s] = IdOf[r] => caller[s] # "send"
       \/ IdOf[r] = 0
    /\ caller' = [caller EXCEPT ![r] = "send"]
    /\ UNCHANGED <<listVars, nodeVars, status, loadVars, queueVars, workerVars, checkerVars>>

\* The sequencer has answered.  If it took the transaction, the monitor is
\* called even if the update of the status fails.
SenderUpdate(r, taken, ok) ==
    /\ CallerAt(r, "send")
    /\ UpdateL2TransactionStatus(IdOf[r], IF taken THEN "sent" ELSE "invalid", ok)
    /\ caller' = [caller EXCEPT ![r] = IF taken THEN "enter" ELSE "returned"]
    /\ UNCHANGED <<listVars, nodeVars, loadVars, queueVars, workerVars, checkerVars>>

\* monitorL2TransactionsFromPoolDB: GetL2TransactionsToMonitor, ...
LoadSelect(rows) ==
    /\ Running /\ ~loaded
    /\ loaded' = TRUE
    /\ loadTodo' = rows
    /\ UNCHANGED <<listVars, nodeVars, status, caller, loadReq, queueVars, workerVars, checkerVars>>

\* ... and the next call of its loop.
LoadNext(r) ==
    /\ CallerAt(r, "none")
    /\ IdOf[r] \in loadTodo
    /\ loadReq # Nil => caller[loadReq] = "returned"
    /\ loadTodo' = loadTodo \ {IdOf[r]}
    /\ loadReq' = r
    /\ caller' = [caller EXCEPT ![r] = "enter"]
    /\ UNCHANGED <<listVars, nodeVars, status, loaded, queueVars, workerVars, checkerVars>>

AddL2Transaction(r) ==
    /\ CallerAt(r, "enter")
    /\ \/ /\ InitialWaitInterval > 0
          /\ nextRetry' = [nextRetry EXCEPT ![r] = After(InitialWaitInterval)]
          /\ caller' = [caller EXCEPT ![r] = "add"]
          /\ UNCHANGED enqueuing
       \/ /\ InitialWaitInterval = 0
          /\ enqueueMonitorRequest(r)
          /\ caller' = [caller EXCEPT ![r] = "returned"]
          /\ UNCHANGED nextRetry
    /\ UNCHANGED <<list, sorted, nodeVars, status, loadVars, requestChan, workerVars, checkerVars>>

\* Mistaken variant: the wait starts once the request is in the list.
addRequestThenWait(r) ==
    add(r) /\ nextRetry' = [nextRetry EXCEPT ![r] = After(RetryWaitInterval)]

\* addRequestToRetryList: the list's add, ...
addRequestToRetryList(r) == add(r) /\ UNCHANGED nextRetry

CallerAdd(r) ==
    /\ CallerAt(r, "add")
    /\ addRequestToRetryList(r)
    /\ caller' = [caller EXCEPT ![r] = "len"]
    /\ UNCHANGED <<nodeVars, status, loadVars, queueVars, workerVars, checkerVars>>

\* ... then its len, under a second lock of the mutex, ...
CallerLen(r) ==
    /\ CallerAt(r, "len")
    /\ caller' = [caller EXCEPT ![r] = IF len = 1 THEN "signal" ELSE "returned"]
    /\ UNCHANGED <<listVars, nodeVars, status, loadVars, queueVars, workerVars, checkerVars>>

\* ... then the signal.
CallerSignal(r) ==
    /\ CallerAt(r, "signal")
    /\ Signal
    /\ caller' = [caller EXCEPT ![r] = "returned"]
    /\ UNCHANGED <<listVars, nodeVars, status, loadVars, queueVars, workerVars, creq>>

----------------------------------------------------------------------------
(* startMonitorWorker and workerProcessRequest.                            *)

\* Back to the top of the loop, where the loop variable is out of scope.
Receive(w) ==
    /\ wpc' = [wpc EXCEPT ![w] = "receive"]
    /\ wreq' = [wreq EXCEPT ![w] = Nil]

WorkerReceive(w) ==
    /\ WorkerAt(w, "receive")
    /\ requestChan # <<>>
    /\ wreq' = [wreq EXCEPT ![w] = Head(requestChan)]
    /\ requestChan' = Tail(requestChan)
    /\ wpc' = [wpc EXCEPT ![w] = "receipt"]
    /\ UNCHANGED <<listVars, nodeVars, status, callVars, enqueuing, wstatus, checkerVars>>

\* Mistaken variant: the error of the call is not looked at.
HasReceiptAlways(h) == TRUE

HasReceipt(h) == receipt[h] # "none"

\* TransactionReceipt: the receipt if the node has one, or an error (not
\* found, time-out, no connection), after which the request is rescheduled.
WorkerReceipt(w) ==
    /\ WorkerAt(w, "receipt")
    /\ \/ /\ HasReceipt(HashOf[wreq[w]])
          /\ wstatus' = [wstatus EXCEPT ![w] = receipt[HashOf[wreq[w]]]]
          /\ wpc' = [wpc EXCEPT ![w] = "update"]
       \/ /\ wpc' = [wpc EXCEPT ![w] = "schedule"]
          /\ UNCHANGED wstatus
    /\ UNCHANGED <<listVars, nodeVars, status, callVars, queueVars, wreq, checkerVars>>

\* Mistaken variants: a failed update ends the monitoring; no update does.
AfterUpdateDelete(ok) == "delete"
AfterUpdateSchedule(ok) == "schedule"

AfterUpdate(ok) == IF ok THEN "delete" ELSE "schedule"

WorkerUpdate(w, ok) ==
    /\ WorkerAt(w, "update")
    /\ UpdateL2TransactionStatus(IdOf[wreq[w]], wstatus[w], ok)
    /\ wpc' = [wpc EXCEPT ![w] = AfterUpdate(ok)]
    /\ wstatus' = [wstatus EXCEPT ![w] = "none"]
    /\ UNCHANGED <<listVars, nodeVars, callVars, queueVars, wreq, checkerVars>>

WorkerDelete(w) ==
    /\ WorkerAt(w, "delete")
    /\ delete(wreq[w])
    /\ Receive(w)
    /\ UNCHANGED <<nextRetry, nodeVars, status, callVars, queueVars, wstatus, checkerVars>>

\* scheduleRequestRetry writes nextRetry without the mutex of the list, ...
WorkerSchedule(w) ==
    /\ WorkerAt(w, "schedule")
    /\ nextRetry' = [nextRetry EXCEPT ![wreq[w]] = After(RetryWaitInterval)]
    /\ wpc' = [wpc EXCEPT ![w] = "add"]
    /\ UNCHANGED <<list, sorted, nodeVars, status, callVars, queueVars, wreq, wstatus, checkerVars>>

\* ... and calls addRequestToRetryList.
WorkerAdd(w) ==
    /\ WorkerAt(w, "add")
    /\ addRequestToRetryList(wreq[w])
    /\ wpc' = [wpc EXCEPT ![w] = "len"]
    /\ UNCHANGED <<nodeVars, status, callVars, queueVars, wreq, wstatus, checkerVars>>

WorkerLen(w) ==
    /\ WorkerAt(w, "len")
    /\ IF len = 1
       THEN wpc' = [wpc EXCEPT ![w] = "signal"] /\ UNCHANGED wreq
       ELSE Receive(w)
    /\ UNCHANGED <<listVars, nodeVars, status, callVars, queueVars, wstatus, checkerVars>>

WorkerSignal(w) ==
    /\ WorkerAt(w, "signal")
    /\ Signal
    /\ Receive(w)
    /\ UNCHANGED <<listVars, nodeVars, status, callVars, queueVars, wstatus, creq>>

----------------------------------------------------------------------------
(* checkMonitorRequestRetries, which runs for ever.                        *)

\* Mistaken variant: the length is not looked at.
HasRequestsAlways == TRUE

HasRequests == len > 0

CheckLen ==
    /\ cpc = "len"
    /\ cpc' = IF HasRequests THEN "get" ELSE "wait"
    /\ UNCHANGED <<listVars, nodeVars, status, callVars, queueVars, workerVars, creq>>

\* Mistaken variants: no request expires; every request is due.
HasExpiredNever(r) == FALSE
IsDueAlways(r) == TRUE

HasExpired(r) == ReceivedAt[r] + TxLifeTimeMax < now

IsDue(r) == nextRetry[r] < now

\* getByIndex(0) panics if the list has become empty since it was measured.
\* Otherwise the request is expired, due, or slept on.  The code reads the
\* clock right before it reads the list; a tick in between would only make the
\* request look less due than it is, which the next round of the loop corrects.
CheckGet ==
    /\ cpc = "get"
    /\ \/ /\ sorted = <<>>
          /\ cpc' = "panic"
          /\ UNCHANGED creq
       \/ /\ sorted # <<>>
          /\ creq' = Head(sorted)
          /\ cpc' = IF HasExpired(Head(sorted)) THEN "expire"
                    ELSE IF IsDue(Head(sorted)) THEN "retry" ELSE "sleep"
    /\ UNCHANGED <<listVars, nodeVars, status, callVars, queueVars, workerVars>>

\* An error of the update is logged and the request deleted all the same.
CheckExpire(ok) ==
    /\ cpc = "expire"
    /\ UpdateL2TransactionStatus(IdOf[creq], "expired", ok)
    /\ cpc' = "remove"
    /\ UNCHANGED <<listVars, nodeVars, callVars, queueVars, workerVars, creq>>

CheckRemove ==
    /\ cpc = "remove"
    /\ delete(creq)
    /\ cpc' = "len" /\ creq' = Nil
    /\ UNCHANGED <<nextRetry, nodeVars, status, callVars, queueVars, workerVars>>

\* Mistaken variant: a request that is retried stays in the list.
CheckRetryKeeps ==
    /\ cpc = "retry"
    /\ enqueueMonitorRequest(creq)
    /\ cpc' = "len" /\ creq' = Nil
    /\ UNCHANGED <<listVars, nodeVars, status, callVars, requestChan, workerVars>>

CheckRetry ==
    /\ cpc = "retry"
    /\ delete(creq)
    /\ enqueueMonitorRequest(creq)
    /\ cpc' = "len" /\ creq' = Nil
    /\ UNCHANGED <<nextRetry, nodeVars, status, callVars, requestChan, workerVars>>

\* time.Sleep until the nextRetry of the request that was the head.
CheckSleep ==
    /\ cpc = "sleep"
    /\ nextRetry[creq] <= now
    /\ cpc' = "len" /\ creq' = Nil
    /\ UNCHANGED <<listVars, nodeVars, status, callVars, queueVars, workerVars>>

\* requestRetryCond.Wait: only from here on does a signal reach the checker.
CheckWait ==
    /\ cpc = "wait"
    /\ cpc' = "waiting"
    /\ UNCHANGED <<listVars, nodeVars, status, callVars, queueVars, workerVars, creq>>

----------------------------------------------------------------------------
(* The surroundings: the clock, the L2 node and the operator.              *)

Tick ==
    /\ now <= Horizon
    /\ now' = now + 1
    /\ UNCHANGED <<listVars, receipt, status, callVars, queueVars, workerVars, checkerVars>>

\* The node executes a transaction; receipt.Status 0 stands for failed.
Mine(h, s) ==
    /\ receipt[h] = "none"
    /\ \E r \in Request :
          /\ HashOf[r] = h
          /\ caller[r] # "none" \/ (IdOf[r] \in Id /\ status[IdOf[r]] # "pending")
    /\ receipt' = [receipt EXCEPT ![h] = s]
    /\ UNCHANGED <<listVars, now, status, callVars, queueVars, workerVars, checkerVars>>

OperatorResend(i) ==
    /\ RequestResend(i)
    /\ UNCHANGED <<listVars, nodeVars, callVars, queueVars, workerVars, checkerVars>>

----------------------------------------------------------------------------
Init ==
    /\ ListInit
    /\ now = 0
    /\ status = InitStatus
    /\ receipt = [h \in Hash |-> "none"]
    /\ caller = [r \in Request |-> "none"]
    /\ loaded = FALSE /\ loadTodo = {} /\ loadReq = Nil
    /\ enqueuing = {} /\ requestChan = <<>>
    /\ wpc = [w \in Worker |-> "receive"]
    /\ wreq = [w \in Worker |-> Nil]
    /\ wstatus = [w \in Worker |-> "none"]
    /\ cpc = "len" /\ creq = Nil

CallerStep(r) ==
    \/ SenderTakes(r)
    \/ \E taken, ok \in BOOLEAN : SenderUpdate(r, taken, ok)
    \/ LoadNext(r)
    \/ AddL2Transaction(r) \/ CallerAdd(r) \/ CallerLen(r) \/ CallerSignal(r)

WorkerStep(w) ==
    \/ WorkerReceive(w) \/ WorkerReceipt(w)
    \/ \E ok \in BOOLEAN : WorkerUpdate(w, ok)
    \/ WorkerDelete(w) \/ WorkerSchedule(w) \/ WorkerAdd(w)
    \/ WorkerLen(w) \/ WorkerSignal(w)

CheckerStep ==
    \/ CheckLen \/ CheckGet
    \/ \E ok \in BOOLEAN : CheckExpire(ok)
    \/ CheckRemove \/ CheckRetry \/ CheckSleep \/ CheckWait

Environment ==
    \/ Tick
    \/ \E h \in Hash, s \in {"confirmed", "failed"} : Mine(h, s)
    \/ \E i \in ResendIds : OperatorResend(i)

Next ==
    \/ \E r \in Request : CallerStep(r) \/ ChannelSend(r)
    \/ \E rows \in GetL2TransactionsToMonitor : LoadSelect(rows)
    \/ \E w \in Worker : WorkerStep(w)
    \/ CheckerStep
    \/ Environment

Spec == Init /\ [][Next]_vars

\* The goroutines keep running, a goroutine that waits to send on the channel
\* is served (Go's channels queue their senders), and the clock advances.
Fairness ==
    /\ WF_vars(\E rows \in GetL2TransactionsToMonitor : LoadSelect(rows))
    /\ \A r \in Request : WF_vars(CallerStep(r)) /\ SF_vars(ChannelSend(r))
    /\ \A w \in Worker : WF_vars(WorkerStep(w))
    /\ WF_vars(CheckerStep)
    /\ WF_vars(Tick)

FairSpec == Spec /\ Fairness

----------------------------------------------------------------------------
(* Where a request is.                                                     *)

Queued(r) == r \in enqueuing \/ r \in ToSet(requestChan)

\* A worker that has finished with a request keeps a reference to it.
Working(w, r) == wreq[w] = r /\ wpc[w] \in {"receipt", "update", "schedule", "add"}

Arriving(r) == caller[r] \in {"enter", "add"}

\* The checker has read a request that is to leave the list.
Leaving(r) == creq = r /\ cpc \in {"expire", "remove", "retry"}

\* Some request for the transaction is on its way through the monitor.
Monitored(i) ==
    \E r \in Request :
        /\ IdOf[r] = i
        /\ \/ Listed(r) \/ Queued(r) \/ Arriving(r) \/ Leaving(r)
           \/ \E w \in Worker : Working(w, r)

----------------------------------------------------------------------------
Requests == Request \cup {Nil}

TypeOK ==
    /\ ListTypeOK
    /\ now \in 0..(Horizon + 1)
    /\ status \in [Id -> Status]
    /\ receipt \in [Hash -> {"none", "confirmed", "failed"}]
    /\ caller \in [Request -> {"none", "send", "enter", "add", "len", "signal", "returned"}]
    /\ loaded \in BOOLEAN /\ loadTodo \subseteq Id /\ loadReq \in Requests
    /\ enqueuing \subseteq Request /\ requestChan \in Seq(Request)
    /\ Len(requestChan) <= QueueSize
    /\ wpc \in [Worker -> {"receive", "receipt", "update", "delete",
                            "schedule", "add", "len", "signal"}]
    /\ wreq \in [Worker -> Requests]
    /\ \A w \in Worker : wreq[w] = Nil <=> wpc[w] = "receive"
    /\ \A w \in Worker : wstatus[w] = "none" <=> wpc[w] # "update"
    /\ wstatus \in [Worker -> {"none", "confirmed", "failed"}]
    /\ cpc \in {"len", "get", "expire", "remove", "retry", "sleep", "wait", "waiting", "panic"}
    /\ creq \in Requests
    /\ creq = Nil <=> cpc \notin {"expire", "remove", "retry", "sleep"}

\* No two goroutines ever hold the same *monitorRequest: a request is in one
\* place only (being handed over, in the retry list, on its way to or in the
\* channel, or with one worker).  This is what makes the unlocked writes of
\* nextRetry (monitor.go:57, :85) safe.
SoleCustody ==
    /\ IsInjective(requestChan)
    /\ \A r \in Request :
        /\ Arriving(r) => ~Listed(r) /\ ~Queued(r)
        /\ Listed(r) => ~Queued(r)
        /\ r \in enqueuing => r \notin ToSet(requestChan)
        /\ \A w \in Worker :
              Working(w, r) =>
                  /\ ~Arriving(r) /\ ~Listed(r) /\ ~Queued(r)
                  /\ \A v \in Worker : Working(v, r) => v = w

\* The monitor is a well-behaved client of the retry list, however its
\* goroutines interleave: each of its steps is a step the list allows for,
\* so it never writes the nextRetry of a request that is in the list.
ListContract == ListSpec

\* When the checker comes to delete the request it has read from the head of
\* the list, with the list changed by others in between, delete finds that
\* very request if it is still listed (monitor.go:133, :141, :144).
CheckerRemoves ==
    Leaving(creq) /\ Listed(creq) =>
        deleteFinds(creq) /\ sorted[deleteIndex(creq)] = creq

\* getByIndex(0) is not called on an empty list (monitor.go:131-133).
NoPanic == cpc # "panic"

\* A worker that is done with its own request, which is not listed, takes out
\* of the list another one for the same transaction (monitor.go:124).
DeletesOther == \E w \in Worker : WorkerDelete(w) /\ list' # list

\* "the time the monitor worker will wait before to retry to get the tx
\* receipt" (monitor/config.go:19, and :16 for the first try): a request on
\* its way to a worker, or with one that has not asked the node yet, is due.
WaitsBeforeRetry ==
    InitialWaitInterval > 0 =>
        \A r \in Request :
            Queued(r) \/ (\E w \in Worker : Working(w, r) /\ wpc[w] = "receipt")
                => nextRetry[r] < now

\* No operator resends the transaction, and at most one request is for it.
FollowedOnce(i) ==
    /\ i \notin ResendIds
    /\ \A r, s \in Request : IdOf[r] = i /\ IdOf[s] = i => r = s

\* A transaction that is followed once keeps the status of its receipt: no
\* expiry, no late retry and no sender overwrites it, whatever happens to
\* others (monitor.go:118-124, :135-141).  An UPDATE that is applied and
\* reported as failed is the exception: the request is retried and may expire.
FinalIsFinal ==
    [][\A i \in Id :
          (/\ FollowedOnce(i) /\ "applied" \notin DBFaults
           /\ status[i] \in {"confirmed", "failed"}) => status'[i] = status[i]]_vars

\* Unless the checker waits for ever with requests in the list (the lost
\* signal of ListedIsRetried), every transaction the monitor is asked to
\* follow gets a final status: the retries end in a receipt or in expiry.
EventuallyFinal ==
    []<>(cpc = "waiting" => sorted = <<>>) =>
        \A i \in Id : Monitored(i) ~> status[i] \in Final

\* "wait for new monitorRequest to retry" (monitor.go:151): a request that is
\* in the retry list ends the wait and is taken from the list.
ListedIsRetried == \A r \in Request : Listed(r) ~> ~Listed(r)
============================================================================
