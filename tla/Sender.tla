------------------------------- MODULE Sender -------------------------------
(***************************************************************************)
(* The sender (sender/sender.go) and the goroutines that call its          *)
(* SendL2Transaction: the handlers of eth_sendRawTransaction               *)
(* (server/endpoints.go), the loop that sends the pending rows when the    *)
(* process starts and the loop that resends rows on request.               *)
(*                                                                         *)
(* A goroutine is inside at most one SendL2Transaction call, so a          *)
(* *sendRequest is named by the goroutine that waits for it.  The process  *)
(* may crash at any point: what is in memory is lost, the table and the    *)
(* sequencer are not.  The monitor is what Follower says of it.            *)
(***************************************************************************)
EXTENDS Integers, FiniteSetsExt, SequencesExt, Follower

CONSTANTS
    HashOf,          \* the raw transaction of each row, by its hash
    Valid,           \* the raw transactions the sequencer has no objection to
    Handler,         \* goroutines of the HTTP server
    Worker,          \* cfg.Workers
    QueueSize,       \* cfg.QueueSize
    DialFails,       \* whether ethclient.Dial may fail
    RPCTimeouts,     \* whether calls of the sequencer may time out
    InitStatus,      \* pool.transaction.status when the process starts
    ResendIds,       \* transactions an operator may ask to resend
    MaxCrashes,      \* bound: how often the process crashes
    Nil              \* no goroutine

Startup == "startup"   \* sendL2TransactionsFromPoolDB
Resender == "resender" \* checkL2TransactionsToResend
Process == Handler \cup {Startup, Resender}
Hash == {HashOf[i] : i \in Id}

ASSUME SenderAssumption ==
    /\ HashOf \in [Id -> Hash]
    /\ {Startup, Resender} \cap Handler = {} /\ Nil \notin Process
    /\ QueueSize \in Nat \ {0}
    /\ DialFails \in BOOLEAN /\ RPCTimeouts \in BOOLEAN
    /\ InitStatus \in [Id -> Status]
    /\ ResendIds \subseteq Id
    /\ MaxCrashes \in Nat

VARIABLES
    accepted,     \* the sequencer: raw transactions it has accepted,
    late,         \* ... and those whose call timed out and may still arrive
    dropped,      \* rows the monitor has failed to load, to expire or to keep
    pc,           \* each goroutine's program counter,
    tx,           \* ... the id and hash of the transaction it sends
    err,          \* ... and whether request.err is set
    todo,         \* the rows the two loops have still to send
    enqueuing,    \* goroutines of enqueueSenderRequest, by their request
    requestChan,  \* requestChan
    wreq,         \* the request each worker processes, or Nil
    dialed,       \* the workers whose ethclient.Dial has succeeded
    crashes       \* how often the process has crashed

sequencerVars == <<accepted, late>>
monitorVars == <<followerVars, dropped>>
callVars == <<pc, tx, err, todo>>
queueVars == <<enqueuing, requestChan, wreq, dialed>>
vars == <<status, sequencerVars, monitorVars, callVars, queueVars, crashes>>

NoTx == [id |-> 0, hash |-> "none"]

----------------------------------------------------------------------------
(* SendL2Transaction, called by p for the row i (0 if it has no row).      *)

Goto(p, label) == pc' = [pc EXCEPT ![p] = label]

\* Mistaken variant: nobody waits for the request.
AfterEnqueueUpdate == "update"

AfterEnqueue == "wait"

\* The request is created and left to a goroutine that puts it in the
\* channel; p waits for it.
Call(p, i, h) ==
    /\ Goto(p, AfterEnqueue)
    /\ tx' = [tx EXCEPT ![p] = [id |-> i, hash |-> h]]
    /\ enqueuing' = enqueuing \cup {p}
    /\ UNCHANGED <<requestChan, wreq, dialed>>

\* Mistaken variant: the channel is one longer than QueueSize.
HasRoomLonger == Len(requestChan) <= QueueSize

HasRoom == Len(requestChan) < QueueSize

\* The goroutine's send, once the channel has room.
ChannelSend(p) ==
    /\ p \in enqueuing
    /\ HasRoom
    /\ enqueuing' = enqueuing \ {p}
    /\ requestChan' = Append(requestChan, p)
    /\ UNCHANGED <<status, sequencerVars, monitorVars, callVars, wreq, dialed, crashes>>

\* A handler answers its client, a loop goes on.
AfterCall(p) == IF p \in Handler THEN "answer" ELSE "loop"

\* Mistaken variants: every row is marked as sent; an error of the update
\* ends the call.
VerdictSent(p) == "sent"
AfterUpdateGivesUp(p, ok) == IF err[p] \/ ~ok THEN AfterCall(p) ELSE "monitor"

Verdict(p) == IF err[p] THEN "invalid" ELSE "sent"

\* An error of the update is only logged.
AfterUpdate(p, ok) == IF err[p] THEN AfterCall(p) ELSE "monitor"

\* The wait is over.
Update(p, ok) ==
    /\ pc[p] = "update"
    /\ UpdateL2TransactionStatus(tx[p].id, Verdict(p), ok)
    /\ Goto(p, AfterUpdate(p, ok))
    /\ UNCHANGED <<sequencerVars, monitorVars, tx, err, todo, queueVars, crashes>>

\* monitor.AddL2Transaction.  If the monitor is about to let go of an earlier
\* sending of the transaction, it lets go of this one with it.
AddToMonitor(p) ==
    /\ pc[p] = "monitor"
    /\ Follow(tx[p].id)
    /\ dropped' = IF \E a \in Agent : closing[a] = tx[p].id
                  THEN dropped \cup {tx[p].id}
                  ELSE dropped \ {tx[p].id}
    /\ Goto(p, AfterCall(p))
    /\ UNCHANGED <<sequencerVars, tx, err, todo, queueVars, crashes>>

----------------------------------------------------------------------------
(* The callers.                                                            *)

\* SendRawTransaction for the raw transaction of the row i: an error of the
\* insertion is only logged, the id is 0 then.
SendRawTransaction(h, i, ok) ==
    /\ pc[h] = "idle" /\ h \in Handler
    /\ InsertL2Transaction(i, ok)
    /\ Call(h, IF ok THEN i ELSE 0, HashOf[i])
    /\ UNCHANGED <<sequencerVars, monitorVars, err, todo, crashes>>

\* The handler returns the hash of the transaction or the error.
Answer(h) ==
    /\ pc[h] = "answer"
    /\ Goto(h, "idle")
    /\ tx' = [tx EXCEPT ![h] = NoTx]
    /\ err' = [err EXCEPT ![h] = FALSE]
    /\ UNCHANGED <<status, sequencerVars, monitorVars, todo, queueVars, crashes>>

\* The loops read the rows to send; the order of the rows is not specified.
\* The resend loop sleeps and reads again if there are none.
Select(p, rows) ==
    /\ pc[p] = "idle" /\ p \notin Handler
    /\ Goto(p, "loop")
    /\ todo' = [todo EXCEPT ![p] = rows]
    /\ UNCHANGED <<status, sequencerVars, monitorVars, tx, err, queueVars, crashes>>

\* The next row of the loop.
LoopNext(p, i) ==
    /\ pc[p] = "loop"
    /\ i \in todo[p]
    /\ todo' = [todo EXCEPT ![p] = @ \ {i}]
    /\ Call(p, i, HashOf[i])
    /\ err' = [err EXCEPT ![p] = FALSE]
    /\ UNCHANGED <<status, sequencerVars, monitorVars, crashes>>

\* Mistaken variant: the resend loop returns too.
AfterLoopDone(p) == "done"

AfterLoop(p) == IF p = Startup THEN "done" ELSE "idle"

\* Mistaken variant: an error of a call ends the loop.
LoopEndsOnError(p) == todo[p] = {} \/ err[p]

\* An error of a call is only logged.
LoopEnds(p) == todo[p] = {}

\* sendL2TransactionsFromPoolDB returns, the resend loop starts again; the
\* rows are a local variable.
LoopEnd(p) ==
    /\ pc[p] = "loop"
    /\ LoopEnds(p)
    /\ Goto(p, AfterLoop(p))
    /\ tx' = [tx EXCEPT ![p] = NoTx]
    /\ err' = [err EXCEPT ![p] = FALSE]
    /\ todo' = [todo EXCEPT ![p] = {}]
    /\ UNCHANGED <<status, sequencerVars, monitorVars, queueVars, crashes>>

----------------------------------------------------------------------------
(* startSenderWorker and workerProcessRequest.                             *)

\* A worker that cannot dial the sequencer returns.
WorkerReceive(w) ==
    /\ w \in dialed /\ wreq[w] = Nil
    /\ requestChan # <<>>
    /\ wreq' = [wreq EXCEPT ![w] = Head(requestChan)]
    /\ requestChan' = Tail(requestChan)
    /\ UNCHANGED <<status, sequencerVars, monitorVars, callVars, enqueuing, dialed, crashes>>

\* Mistaken variant: an error skips wg.Done.
WokenUnlessError(e) == IF e THEN "wait" ELSE "update"

Woken(e) == "update"

\* sendRequest.err = err; sendRequest.wg.Done()
Done(w, e) ==
    /\ Goto(wreq[w], Woken(e))
    /\ err' = [err EXCEPT ![wreq[w]] = e]
    /\ wreq' = [wreq EXCEPT ![w] = Nil]
    /\ UNCHANGED <<status, monitorVars, tx, todo, enqueuing, requestChan, dialed, crashes>>

\* The sequencer takes a valid transaction it does not have.
Takes(h) == accepted' = IF h \in Valid THEN accepted \cup {h} ELSE accepted

\* eth_sendRawTransaction is answered.  A transaction the sequencer already
\* has may be answered with an error ("already known") or not.
WorkerCall(w) ==
    /\ wreq[w] # Nil
    /\ LET h == tx[wreq[w]].hash
       IN /\ Takes(h)
          /\ \E e \in BOOLEAN : /\ e \/ h \in Valid
                                /\ e => h \notin Valid \/ h \in accepted
                                /\ Done(w, e)
    /\ UNCHANGED late

\* No answer within RPCReadTimeout, or no connection.  The transaction never
\* arrives, or it has yet to.
WorkerTimeout(w, arrives) ==
    /\ RPCTimeouts
    /\ wreq[w] # Nil
    /\ late' = IF arrives THEN late \cup {tx[wreq[w]].hash} ELSE late
    /\ Done(w, TRUE)
    /\ UNCHANGED accepted

----------------------------------------------------------------------------
(* The surroundings: sequencer, monitor, operator, and crashes.            *)

LateArrival(h) ==
    /\ h \in late
    /\ late' = late \ {h}
    /\ Takes(h)
    /\ UNCHANGED <<status, monitorVars, callVars, queueVars, crashes>>

\* The load drops what the statement should have delivered and did not.
MonitorLoad(rows) ==
    /\ LoadSent(rows)
    /\ dropped' = dropped \cup ((UNION GetL2TransactionsToMonitor) \ monitored')
    /\ UNCHANGED <<sequencerVars, callVars, queueVars, crashes>>

\* The monitor finds a receipt, or gives a transaction up: for good, even if
\* the UPDATE reports an error.  What it does for the id 0 changes no row and
\* is left out.
MonitorUpdate(a, i, ok) ==
    /\ \/ /\ a \in Settler /\ HashOf[i] \in accepted
          /\ \E s \in {"confirmed", "failed"} : Settle(a, i, s, ok)
          /\ UNCHANGED dropped
       \/ /\ a \in Expirer
          /\ Expire(a, i, ok)
          /\ dropped' = IF ok THEN dropped ELSE dropped \cup {i}
    /\ UNCHANGED <<sequencerVars, callVars, queueVars, crashes>>

MonitorForget(a) ==
    /\ Forget(a)
    /\ UNCHANGED <<sequencerVars, dropped, callVars, queueVars, crashes>>

OperatorResend(i) ==
    /\ RequestResend(i)
    /\ UNCHANGED <<sequencerVars, monitorVars, callVars, queueVars, crashes>>

\* The workers that have a client after a start.
Dialed == IF DialFails THEN SUBSET Worker ELSE {Worker}

\* A new process: no goroutine, no queue and no monitoring survives.
Crash ==
    /\ crashes < MaxCrashes
    /\ crashes' = crashes + 1
    /\ monitored' = {} /\ loaded' = FALSE /\ closing' = [a \in Agent |-> Nobody]
    /\ dropped' = {}
    /\ pc' = [p \in Process |-> "idle"]
    /\ tx' = [p \in Process |-> NoTx]
    /\ err' = [p \in Process |-> FALSE]
    /\ todo' = [p \in {Startup, Resender} |-> {}]
    /\ enqueuing' = {} /\ requestChan' = <<>>
    /\ wreq' = [w \in Worker |-> Nil] /\ dialed' \in Dialed
    /\ UNCHANGED <<status, sequencerVars>>

----------------------------------------------------------------------------
Init ==
    /\ status = InitStatus
    /\ accepted = {HashOf[i] : i \in {i \in Id : InitStatus[i] = "sent"}}
    /\ late = {}
    /\ crashes = 0
    /\ FollowerInit /\ dropped = {}
    /\ pc = [p \in Process |-> "idle"]
    /\ tx = [p \in Process |-> NoTx]
    /\ err = [p \in Process |-> FALSE]
    /\ todo = [p \in {Startup, Resender} |-> {}]
    /\ enqueuing = {} /\ requestChan = <<>>
    /\ wreq = [w \in Worker |-> Nil] /\ dialed \in Dialed

SendStep(p) ==
    \/ \E ok \in BOOLEAN : Update(p, ok)
    \/ AddToMonitor(p)

HandlerStep(h) ==
    \/ \E i \in Id, ok \in BOOLEAN : SendRawTransaction(h, i, ok)
    \/ Answer(h)

StartupStep ==
    \/ \E rows \in GetL2TransactionsToSend : Select(Startup, rows)
    \/ \E i \in Id : LoopNext(Startup, i)
    \/ LoopEnd(Startup)

ResenderStep ==
    \/ \E rows \in GetL2TransactionsToResend : Select(Resender, rows)
    \/ \E i \in Id : LoopNext(Resender, i)
    \/ LoopEnd(Resender)

WorkerStep(w) ==
    \/ WorkerReceive(w)
    \/ WorkerCall(w)
    \/ \E arrives \in BOOLEAN : WorkerTimeout(w, arrives)

Environment ==
    \/ \E h \in Hash : LateArrival(h)
    \/ \E rows \in GetL2TransactionsToMonitor : MonitorLoad(rows)
    \/ \E a \in Agent, i \in Id, ok \in BOOLEAN : MonitorUpdate(a, i, ok)
    \/ \E a \in Agent : MonitorForget(a)
    \/ \E i \in ResendIds : OperatorResend(i)
    \/ Crash

Next ==
    \/ \E p \in Process : SendStep(p) \/ ChannelSend(p)
    \/ \E h \in Handler : HandlerStep(h)
    \/ StartupStep
    \/ ResenderStep
    \/ \E w \in Worker : WorkerStep(w)
    \/ Environment

Spec == Init /\ [][Next]_vars

\* The goroutines keep running and a goroutine that waits to send on the
\* channel is served (Go's channels queue their senders).
Fairness ==
    /\ \A p \in Process : WF_vars(SendStep(p)) /\ SF_vars(ChannelSend(p))
    /\ \A h \in Handler : WF_vars(Answer(h))
    /\ WF_vars(StartupStep) /\ WF_vars(ResenderStep)
    /\ \A w \in Worker : WF_vars(WorkerStep(w))

FairSpec == Spec /\ Fairness

----------------------------------------------------------------------------
TypeOK ==
    /\ status \in [Id -> Status]
    /\ accepted \subseteq Hash /\ late \subseteq Hash
    /\ monitored \subseteq Id \cup {0} /\ loaded \in BOOLEAN
    /\ closing \in [Agent -> Id \cup {Nobody}] /\ dropped \subseteq Id \cup {0}
    /\ pc \in [Process -> {"idle", "wait", "update", "monitor", "answer", "loop", "done"}]
    /\ tx \in [Process -> [id : Id \cup {0}, hash : Hash] \cup {NoTx}]
    /\ err \in [Process -> BOOLEAN]
    /\ todo \in [{Startup, Resender} -> SUBSET Id]
    /\ enqueuing \subseteq Process
    /\ requestChan \in Seq(Process) /\ Len(requestChan) <= QueueSize
    /\ wreq \in [Worker -> Process \cup {Nil}] /\ dialed \subseteq Worker
    /\ crashes \in 0..MaxCrashes

\* Whoever waits in SendL2Transaction has its request in exactly one place,
\* so it is woken once (wg.Done, sender.go:93), and nobody else has a request
\* in the queue.
HeldOnce ==
    /\ IsInjective(requestChan)
    /\ \A p \in Process :
        /\ pc[p] = "wait" <=>
              \/ p \in enqueuing \/ p \in ToSet(requestChan)
              \/ \E w \in Worker : wreq[w] = p
        /\ p \in enqueuing => p \notin ToSet(requestChan)
        /\ \A w \in Worker :
              wreq[w] = p => /\ p \notin enqueuing \cup ToSet(requestChan)
                             /\ \A v \in Worker : wreq[v] = p => v = w

\* "a tx that has been sent to the sequencer" (types/l2transaction.go:15): a
\* row is marked as sent, and a client told so, only for a transaction that
\* the sequencer has.
SentMeansTaken ==
    /\ \A i \in Id : status[i] = "sent" => HashOf[i] \in accepted
    /\ \A h \in Handler : pc[h] = "answer" /\ ~err[h] => tx[h].hash \in accepted

\* Every row that is marked as sent is followed by the monitor, or is about to
\* be: by the call that marked it or by the monitor's own start
\* (sender.go:64-68, monitor.go:161-169).  The exceptions are three, until the
\* next start: a sent row that the load was cut short of (pooldb.go:56), one
\* whose expiry reported an error (monitor.go:138), and one that was sent again
\* while the monitor was about to delete an earlier request (monitor.go:124).
SentIsMonitored ==
    \A i \in Id :
        status[i] = "sent" =>
            \/ i \in monitored \/ ~loaded \/ i \in dropped
            \/ \E p \in Process : pc[p] = "monitor" /\ tx[p].id = i

\* p is inside a call that will send the row j and write its status.
Sends(p, j) == pc[p] \in {"wait", "update"} /\ tx[p].id = j

Waits(j) == pc[Startup] = "idle" \/ j \in todo[Startup]

Covered(i) == status[i] = "pending" => Waits(i) \/ \E p \in Process : Sends(p, i)

\* Every pending row has somebody who will send it: the handler that inserted
\* it or the loop of the start, across crashes (sender.go:133-147).
PendingIsCovered == \A i \in Id : Covered(i)

\* The statements that leave the row i behind: the UPDATE that ends its call
\* reports an error, the INSERT of the row does, or the SELECT of the loop of
\* the start does not return it although it is pending.
LeftBehind(i) ==
    \/ \E p \in Process : tx[p].id = i /\ Update(p, FALSE)
    \/ \E h \in Handler : SendRawTransaction(h, i, FALSE)
    \/ /\ status[i] = "pending"
       /\ \E rows \in GetL2TransactionsToSend : i \notin rows /\ Select(Startup, rows)

\* Whatever the database does to its statements, a pending row loses whoever
\* was to send it only by a statement for that very row that reports an error
\* or does not return it: not by a timeout, a crash, the errors of other rows
\* or the two loops and the handlers at work at once (sender.go:50-72,
\* :105-147).
CoveredUnlessLeftBehind ==
    [][\A i \in Id : Covered(i) => Covered(i)' \/ LeftBehind(i)]_vars

\* The sender's queue is a queue: every request is taken by one worker.
Queue == INSTANCE WorkQueue WITH
    Item <- Process,
    Idle <- Nil,
    queued <- enqueuing \cup ToSet(requestChan),
    busy <- wreq

\* A goroutine never has a second request in the queue, and every request is
\* taken by one worker, across crashes (sender.go:54-56, :74-94).
QueueImplemented == Queue!Spec /\ (<>[](dialed # {}) => Queue!EventuallyTaken)

\* Every SendL2Transaction call returns, however short the queue is, if only
\* one worker has reached the sequencer's address (sender.go:56, :81-86).
CallReturns ==
    \A p \in Process :
        pc[p] = "wait" /\ dialed # {} ~> pc[p] \in {"idle", "loop", "answer"}

\* Every pending row is eventually sent or rejected, though the process may
\* crash on the way, unless it ends up without workers.
PendingIsSent ==
    \A i \in Id : status[i] = "pending" ~> status[i] # "pending" \/ dialed = {}

\* Every request to resend is eventually served (sender.go:105-131).
ResendIsServed ==
    \A i \in Id : status[i] = "resend" ~> status[i] # "resend" \/ dialed = {}

\* "TxStatusInvalid represents an invalid tx" (types/l2transaction.go:11).
InvalidMeansInvalid == \A i \in Id : status[i] = "invalid" => HashOf[i] \notin Valid

\* "sent to sequencer and added to the pool database" (endpoints.go:82): a
\* client that is told of success has a row in the table.
AnsweredIsStored ==
    \A h \in Handler : pc[h] = "answer" /\ ~err[h] => tx[h].id # 0
============================================================================
