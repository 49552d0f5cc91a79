--------------------------- MODULE MonitorProofs ---------------------------
(***************************************************************************)
(* Proofs about the monitor, for any number of transactions, requests and  *)
(* workers: who holds a request, and that the monitor uses the retry list  *)
(* as the list allows.                                                     *)
(***************************************************************************)
EXTENDS Monitor, RequestListProofs, ChannelLemmas

----------------------------------------------------------------------------
(* The invariant.                                                          *)

Held(r) == Listed(r) \/ Queued(r) \/ Leaving(r) \/ \E w \in Worker : Working(w, r)

\* The AddL2Transaction call of a request has passed the point where it lets
\* go of it.
LetGo(r) == caller[r] \in {"len", "signal", "returned"}

\* A request that is anywhere in the monitor has been handed over.
HandedOver == \A r \in Request : Held(r) => LetGo(r)

\* A request the checker is about to take out of the list is with nobody
\* else, and delete will find it.
LeavingAlone ==
    \A r \in Request :
        Leaving(r) => /\ ~Queued(r)
                      /\ \A w \in Worker : ~Working(w, r)
                      /\ FirstOfMilli(r)

Custody == SoleCustody /\ HandedOver /\ LeavingAlone

MonitorInv == TypeOK /\ ListInv /\ Custody

----------------------------------------------------------------------------
(* What the steps do to the list.                                          *)

\* A deadline is an instant of the model.
LEMMA AfterType ==
    ASSUME TypeOK, NEW d \in Nat
    PROVE  After(d) \in Time
BY MonitorAssumption DEF After, TypeOK

\* A request that a worker is handling is one.
LEMMA WorkerRequest ==
    ASSUME TypeOK, NEW w \in Worker, wpc[w] # "receive"
    PROVE  wreq[w] \in Request
<1>1. wreq \in [Worker -> Requests] /\ (wreq[w] = Nil <=> wpc[w] = "receive")
  BY DEF TypeOK
<1>2. wreq[w] # Nil
  BY <1>1
<1> QED BY <1>1, <1>2 DEF Requests

\* The request the checker has read is one.
LEMMA CheckerRequest ==
    ASSUME TypeOK, cpc \in {"expire", "remove", "retry", "sleep"}
    PROVE  creq \in Request
BY DEF TypeOK, Requests

\* Only the added request gets into the list.
LEMMA AddLists ==
    ASSUME ListTypeOK, NEW r \in Request, add(r), NEW q \in Request, Listed(q)'
    PROVE  Listed(q) \/ q = r
BY ListAssumption DEF ListTypeOK, add, Listed

\* A deletion lists nothing.
LEMMA DeleteLists ==
    ASSUME ListTypeOK, NEW r \in Request, delete(r), NEW q \in Request, Listed(q)'
    PROVE  Listed(q)
BY ListAssumption DEF ListTypeOK, delete, removeKey, Listed

\* A request that is the first of its millisecond is deleted.
LEMMA DeleteUnlists ==
    ASSUME ListInv, NEW r \in Request, delete(r), FirstOfMilli(r)
    PROVE  ~Listed(r)'
<1>1. CASE Listed(r)
  <2>1. r \in ToSet(sorted) /\ r # Nil
    BY <1>1, ListAssumption DEF ListInv, Consistent, Listed
  <2>2. PICK i \in DOMAIN sorted : sorted[i] = r
    BY <2>1 DEF ToSet
  <2>3. deleteFinds(r)
    BY <2>2, DeleteFindsFirst DEF FirstOfMilli
  <2>4. list'[IdOf[r]] = Nil
    BY <1>1, <2>1, <2>3, ListAssumption DEF delete, removeKey, Listed, ListInv, ListTypeOK
  <2> QED BY <2>1, <2>4 DEF Listed
<1>2. CASE ~Listed(r)
  BY <1>2, DeleteLists DEF ListInv
<1> QED BY <1>1, <1>2

\* The head of the list is listed and the first of its millisecond.
LEMMA HeadOfList ==
    ASSUME ListInv, sorted # <<>>
    PROVE  Head(sorted) \in Request /\ Listed(Head(sorted)) /\ FirstOfMilli(Head(sorted))
<1>1. sorted \in Seq(Request) /\ 1 \in DOMAIN sorted /\ Head(sorted) = sorted[1]
      /\ DOMAIN sorted = 1..Len(sorted) /\ Len(sorted) \in Nat
  BY DEF ListInv, ListTypeOK
<1>2. \A k \in DOMAIN sorted : sorted[k] = sorted[1] => k = 1
  BY <1>1 DEF ListInv, Consistent, IsInjective
<1> QED BY <1>1, <1>2 DEF ListInv, Consistent, FirstOfMilli

\* A write of the nextRetry of a request that is not listed moves nothing.
LEMMA SetKeepsFirst ==
    ASSUME ListInv, NEW r \in Request, NEW t \in Time, SetNextRetry(r, t),
           NEW q \in Request, q # r, FirstOfMilli(q)
    PROVE  FirstOfMilli(q)'
<1>1. \A k \in DOMAIN sorted : sorted[k] # r
  BY DEF SetNextRetry, ListInv, Consistent
<1>2. \A k \in DOMAIN sorted : sorted[k] \in Request
  BY DEF ListInv, ListTypeOK
<1>3. \A s \in Request : s # r => nextRetry'[s] = nextRetry[s]
  BY DEF SetNextRetry, ListInv, ListTypeOK
<1>4. sorted' = sorted
  BY DEF SetNextRetry
<1> QED BY <1>1, <1>2, <1>3, <1>4 DEF FirstOfMilli, UnixMilli

\* Nothing moves when the list does not change.
LEMMA SameKeepsFirst ==
    ASSUME UNCHANGED listVars, NEW q, FirstOfMilli(q)
    PROVE  FirstOfMilli(q)'
BY DEF FirstOfMilli, UnixMilli, listVars

----------------------------------------------------------------------------
(* Each action as a step of the list.                                      *)

\* The steps of a call of AddL2Transaction.
LEMMA CallerList ==
    ASSUME MonitorInv, NEW r \in Request, CallerStep(r)
    PROVE  [ListNext]_listVars
<1>1. CASE AddL2Transaction(r)
  <2>1. ~Listed(r)
    BY <1>1 DEF AddL2Transaction, CallerAt, MonitorInv, Custody, SoleCustody, Arriving
  <2>2. After(InitialWaitInterval) \in Time
    BY AfterType, MonitorAssumption DEF MonitorInv
  <2>3. CASE InitialWaitInterval > 0
    <3>1. SetNextRetry(r, After(InitialWaitInterval))
      BY <1>1, <2>1, <2>3, MonitorAssumption DEF AddL2Transaction, SetNextRetry
    <3> QED BY <2>2, <3>1 DEF ListNext
  <2>4. CASE InitialWaitInterval = 0
    BY <1>1, <2>4 DEF AddL2Transaction, listVars
  <2> QED BY <2>3, <2>4, MonitorAssumption
<1>2. CASE CallerAdd(r)
  BY <1>2 DEF CallerAdd, addRequestToRetryList, ListNext, ListAdd
<1>3. CASE SenderTakes(r) \/ LoadNext(r) \/ CallerLen(r) \/ CallerSignal(r)
  BY <1>3 DEF SenderTakes, LoadNext, CallerLen, CallerSignal
<1>4. ASSUME NEW taken \in BOOLEAN, NEW ok \in BOOLEAN, SenderUpdate(r, taken, ok)
      PROVE  UNCHANGED listVars
  BY <1>4 DEF SenderUpdate
<1> QED BY <1>1, <1>2, <1>3, <1>4 DEF CallerStep

\* The steps of a worker.
LEMMA WorkerList ==
    ASSUME MonitorInv, NEW w \in Worker, WorkerStep(w)
    PROVE  [ListNext]_listVars
<1>1. CASE WorkerSchedule(w)
  <2>1. wreq[w] \in Request /\ wpc[w] = "schedule"
    BY <1>1, WorkerRequest DEF WorkerSchedule, WorkerAt, MonitorInv
  <2>2. ~Listed(wreq[w])
    BY <2>1 DEF MonitorInv, Custody, SoleCustody, Working
  <2>3. After(RetryWaitInterval) \in Time
    BY AfterType, MonitorAssumption DEF MonitorInv
  <2>4. SetNextRetry(wreq[w], After(RetryWaitInterval))
    BY <1>1, <2>2 DEF WorkerSchedule, SetNextRetry
  <2> QED BY <2>1, <2>3, <2>4 DEF ListNext
<1>2. CASE WorkerAdd(w)
  <2>1. wreq[w] \in Request
    BY <1>2, WorkerRequest DEF WorkerAdd, addRequestToRetryList, WorkerAt, MonitorInv
  <2> QED BY <1>2, <2>1 DEF WorkerAdd, addRequestToRetryList, ListNext, ListAdd
<1>3. CASE WorkerDelete(w)
  <2>1. wreq[w] \in Request
    BY <1>3, WorkerRequest DEF WorkerDelete, WorkerAt, MonitorInv
  <2> QED BY <1>3, <2>1 DEF WorkerDelete, ListNext, ListDelete
<1>4. CASE WorkerReceive(w) \/ WorkerReceipt(w) \/ WorkerLen(w) \/ WorkerSignal(w)
  BY <1>4 DEF WorkerReceive, WorkerReceipt, WorkerLen, WorkerSignal
<1>5. ASSUME NEW ok \in BOOLEAN, WorkerUpdate(w, ok) PROVE UNCHANGED listVars
  BY <1>5 DEF WorkerUpdate
<1> QED BY <1>1, <1>2, <1>3, <1>4, <1>5 DEF WorkerStep

\* The steps of checkMonitorRequestRetries.
LEMMA CheckerList ==
    ASSUME MonitorInv, CheckerStep
    PROVE  [ListNext]_listVars
<1>1. CASE CheckRemove \/ CheckRetry
  <2>1. creq \in Request
    BY <1>1, CheckerRequest DEF CheckRemove, CheckRetry, MonitorInv
  <2> QED BY <1>1, <2>1 DEF CheckRemove, CheckRetry, ListNext, ListDelete
<1>2. CASE CheckLen \/ CheckGet \/ CheckSleep \/ CheckWait
  BY <1>2 DEF CheckLen, CheckGet, CheckSleep, CheckWait
<1>3. ASSUME NEW ok \in BOOLEAN, CheckExpire(ok) PROVE UNCHANGED listVars
  BY <1>3 DEF CheckExpire
<1> QED BY <1>1, <1>2, <1>3 DEF CheckerStep

\* Every step of the monitor is one the list allows for, or leaves it alone.
LEMMA ListStep ==
    ASSUME MonitorInv, [Next]_vars
    PROVE  [ListNext]_listVars
<1>1. ASSUME NEW r \in Request, ChannelSend(r) PROVE UNCHANGED listVars
  BY <1>1 DEF ChannelSend
<1>2. ASSUME NEW rows, LoadSelect(rows) PROVE UNCHANGED listVars
  BY <1>2 DEF LoadSelect
<1>3. CASE Environment
  BY <1>3 DEF Environment, Tick, Mine, OperatorResend
<1>4. CASE UNCHANGED vars
  BY <1>4 DEF vars
<1> QED BY <1>1, <1>2, <1>3, <1>4, CallerList, WorkerList, CheckerList DEF Next

----------------------------------------------------------------------------
(* The types are kept ...                                                  *)

\* An update of the status leaves a status in every row.
LEMMA UpdateType ==
    ASSUME status \in [Id -> Status], NEW i, NEW s \in Status, NEW ok \in BOOLEAN,
           UpdateL2TransactionStatus(i, s, ok)
    PROVE  status' \in [Id -> Status]
BY DEF UpdateL2TransactionStatus, Exec

\* ... by the steps of a call of AddL2Transaction,
LEMMA CallerType ==
    ASSUME TypeOK, ListTypeOK', NEW r \in Request, CallerStep(r)
    PROVE  TypeOK'
<1> USE DEF TypeOK, Requests, CallerAt, callVars, loadVars, nodeVars, queueVars, workerVars,
            checkerVars
<1>1. CASE SenderTakes(r)
  BY <1>1 DEF SenderTakes
<1>2. ASSUME NEW taken \in BOOLEAN, NEW ok \in BOOLEAN, SenderUpdate(r, taken, ok)
      PROVE  TypeOK'
  <2>1. (IF taken THEN "sent" ELSE "invalid") \in Status
    BY DEF Status
  <2>2. status' \in [Id -> Status]
    BY <1>2, <2>1, UpdateType DEF SenderUpdate
  <2> QED BY <1>2, <2>2 DEF SenderUpdate
<1>3. CASE LoadNext(r)
  BY <1>3 DEF LoadNext
<1>4. CASE AddL2Transaction(r)
  BY <1>4 DEF AddL2Transaction, enqueueMonitorRequest
<1>5. CASE CallerAdd(r)
  BY <1>5 DEF CallerAdd, addRequestToRetryList
<1>6. CASE CallerLen(r)
  BY <1>6 DEF CallerLen
<1>7. CASE CallerSignal(r)
  BY <1>7 DEF CallerSignal, Signal
<1> QED BY <1>1, <1>2, <1>3, <1>4, <1>5, <1>6, <1>7 DEF CallerStep

\* ... by a send on the channel, which has room for the request,
LEMMA ChannelType ==
    ASSUME TypeOK, ListTypeOK', NEW r \in Request, ChannelSend(r)
    PROVE  TypeOK'
<1>1. Len(requestChan') = Len(requestChan) + 1 /\ requestChan' \in Seq(Request)
      /\ Len(requestChan) < QueueSize /\ Len(requestChan) \in Nat
  BY DEF TypeOK, ChannelSend
<1> QED BY <1>1, MonitorAssumption
        DEF TypeOK, Requests, ChannelSend, callVars, loadVars, nodeVars, workerVars, checkerVars

\* ... by the steps of a worker, which has a request from its receive on,
LEMMA WorkerType ==
    ASSUME TypeOK, ListTypeOK', NEW w \in Worker, WorkerStep(w)
    PROVE  TypeOK'
<1> USE DEF TypeOK, Requests, WorkerAt, Receive, callVars, loadVars, nodeVars, queueVars,
            workerVars, checkerVars
<1>0. Nil \notin Request
  BY ListAssumption
<1>1. CASE WorkerReceive(w)
  <2>1. /\ Head(requestChan) \in Request /\ Tail(requestChan) \in Seq(Request)
        /\ Len(Tail(requestChan)) <= Len(requestChan) /\ Len(requestChan) \in Nat
        /\ Len(Tail(requestChan)) \in Nat
    BY <1>1 DEF WorkerReceive
  <2> QED BY <1>0, <1>1, <2>1, MonitorAssumption DEF WorkerReceive
<1>2. CASE WorkerReceipt(w)
  <2>1. wreq[w] \in Request
    BY <1>2, WorkerRequest DEF WorkerReceipt
  <2>2. HashOf[wreq[w]] \in Hash
    BY <2>1 DEF Hash
  <2> QED BY <1>2, <2>2 DEF WorkerReceipt, HasReceipt
<1>3. ASSUME NEW ok \in BOOLEAN, WorkerUpdate(w, ok) PROVE TypeOK'
  <2>1. wstatus[w] \in Status
    BY <1>3 DEF WorkerUpdate, Status, Final
  <2>2. status' \in [Id -> Status]
    BY <1>3, <2>1, UpdateType DEF WorkerUpdate
  <2> QED BY <1>3, <2>2 DEF WorkerUpdate, AfterUpdate
<1>4. CASE WorkerDelete(w)
  BY <1>0, <1>4 DEF WorkerDelete
<1>5. CASE WorkerSchedule(w)
  BY <1>5 DEF WorkerSchedule
<1>6. CASE WorkerAdd(w)
  BY <1>6 DEF WorkerAdd, addRequestToRetryList
<1>7. CASE WorkerLen(w)
  BY <1>0, <1>7 DEF WorkerLen
<1>8. CASE WorkerSignal(w)
  BY <1>0, <1>8 DEF WorkerSignal, Signal
<1> QED BY <1>1, <1>2, <1>3, <1>4, <1>5, <1>6, <1>7, <1>8 DEF WorkerStep

\* ... by the steps of the checker,
LEMMA CheckerType ==
    ASSUME TypeOK, ListTypeOK', CheckerStep
    PROVE  TypeOK'
<1> USE DEF TypeOK, Requests, callVars, loadVars, nodeVars, queueVars, workerVars, checkerVars
<1>0. Nil \notin Request
  BY ListAssumption
<1>1. CASE CheckLen
  BY <1>1 DEF CheckLen
<1>2. CASE CheckGet
  <2>1. sorted # <<>> => Head(sorted) \in Request
    BY DEF ListTypeOK
  <2> QED BY <1>0, <1>2, <2>1 DEF CheckGet
<1>3. ASSUME NEW ok \in BOOLEAN, CheckExpire(ok) PROVE TypeOK'
  <2>0. "expired" \in Status
    BY DEF Status, Final
  <2>1. status' \in [Id -> Status]
    BY <1>3, <2>0, UpdateType DEF CheckExpire
  <2> QED BY <1>3, <2>1 DEF CheckExpire
<1>4. CASE CheckRemove
  BY <1>4 DEF CheckRemove
<1>5. CASE CheckRetry
  <2>1. creq \in Request
    BY <1>5, CheckerRequest DEF CheckRetry
  <2> QED BY <1>5, <2>1 DEF CheckRetry, enqueueMonitorRequest
<1>6. CASE CheckSleep
  BY <1>6 DEF CheckSleep
<1>7. CASE CheckWait
  BY <1>7 DEF CheckWait
<1> QED BY <1>1, <1>2, <1>3, <1>4, <1>5, <1>6, <1>7 DEF CheckerStep

\* ... and by the clock, the node and the operator.
LEMMA EnvironmentType ==
    ASSUME TypeOK, ListTypeOK', Environment
    PROVE  TypeOK'
<1> USE DEF TypeOK, Requests, callVars, loadVars, nodeVars, queueVars, workerVars, checkerVars
<1>1. CASE Tick
  BY <1>1, MonitorAssumption DEF Tick
<1>2. ASSUME NEW h \in Hash, NEW s \in {"confirmed", "failed"}, Mine(h, s) PROVE TypeOK'
  BY <1>2 DEF Mine
<1>3. ASSUME NEW i \in ResendIds, OperatorResend(i) PROVE TypeOK'
  <2>1. status' \in [Id -> Status]
    BY <1>3, MonitorAssumption DEF OperatorResend, RequestResend, Status
  <2> QED BY <1>3, <2>1 DEF OperatorResend
<1> QED BY <1>1, <1>2, <1>3 DEF Environment

\* The list keeps its own types, also after a Mixup.
LEMMA ListTypeStep ==
    ASSUME TypeOK, [Next]_vars
    PROVE  ListTypeOK'
<1>0. ListTypeOK /\ nextRetry \in [Request -> Time]
  BY DEF TypeOK, ListTypeOK
<1>1. ASSUME UNCHANGED listVars PROVE ListTypeOK'
  BY <1>0, <1>1 DEF ListTypeOK, listVars
<1>2. ASSUME NEW r \in Request, ListAdd(r) \/ ListDelete(r) PROVE ListTypeOK'
  BY <1>0, <1>2, StepTypes DEF ListNext
<1>3. ASSUME NEW r, NEW d \in Nat, nextRetry' = [nextRetry EXCEPT ![r] = After(d)],
             UNCHANGED <<list, sorted>>
      PROVE  ListTypeOK'
  BY <1>0, <1>3, AfterType DEF ListTypeOK
<1>4. ASSUME NEW r \in Request, CallerStep(r) PROVE ListTypeOK'
  <2>1. \/ UNCHANGED listVars \/ ListAdd(r)
        \/ /\ nextRetry' = [nextRetry EXCEPT ![r] = After(InitialWaitInterval)]
           /\ UNCHANGED <<list, sorted>>
    BY <1>4 DEF CallerStep, SenderTakes, SenderUpdate, LoadNext, AddL2Transaction, CallerAdd,
                addRequestToRetryList, CallerLen, CallerSignal, ListAdd, listVars
  <2> QED BY <1>1, <1>2, <1>3, <2>1, MonitorAssumption
<1>5. ASSUME NEW w \in Worker, WorkerStep(w) PROVE ListTypeOK'
  <2>1. \/ UNCHANGED listVars \/ WorkerAdd(w) \/ WorkerDelete(w)
        \/ /\ nextRetry' = [nextRetry EXCEPT ![wreq[w]] = After(RetryWaitInterval)]
           /\ UNCHANGED <<list, sorted>>
    BY <1>5 DEF WorkerStep, WorkerReceive, WorkerReceipt, WorkerUpdate, WorkerSchedule,
                WorkerLen, WorkerSignal, listVars
  <2>2. ASSUME WorkerAdd(w) PROVE wreq[w] \in Request /\ ListAdd(wreq[w])
    BY <2>2, WorkerRequest DEF WorkerAdd, WorkerAt, addRequestToRetryList, ListAdd
  <2>3. ASSUME WorkerDelete(w) PROVE wreq[w] \in Request /\ ListDelete(wreq[w])
    BY <2>3, WorkerRequest DEF WorkerDelete, WorkerAt, ListDelete
  <2> QED BY <1>1, <1>2, <1>3, <2>1, <2>2, <2>3, MonitorAssumption
<1>6. CASE CheckerStep
  <2>1. \/ UNCHANGED listVars
        \/ cpc \in {"remove", "retry"} /\ ListDelete(creq)
    BY <1>6 DEF CheckerStep, CheckLen, CheckGet, CheckExpire, CheckRemove, CheckRetry,
                CheckSleep, CheckWait, ListDelete, listVars
  <2> QED BY <1>1, <1>2, <2>1, CheckerRequest
<1>7. ASSUME NEW r \in Request, ChannelSend(r) PROVE ListTypeOK'
  BY <1>1, <1>7 DEF ChannelSend
<1>8. ASSUME NEW rows, LoadSelect(rows) PROVE ListTypeOK'
  BY <1>1, <1>8 DEF LoadSelect
<1>9. CASE Environment \/ UNCHANGED vars
  BY <1>1, <1>9 DEF Environment, Tick, Mine, OperatorResend, vars
<1> QED BY <1>4, <1>5, <1>6, <1>7, <1>8, <1>9 DEF Next

\* The types are kept, if the list keeps its own.
LEMMA TypeStep ==
    ASSUME TypeOK, ListTypeOK', [Next]_vars
    PROVE  TypeOK'
<1>1. ASSUME NEW rows \in GetL2TransactionsToMonitor, LoadSelect(rows) PROVE TypeOK'
  <2>1. rows \subseteq Id
    BY DEF GetL2TransactionsToMonitor, GetL2TransactionsByStatus
  <2> QED BY <1>1, <2>1 DEF LoadSelect, TypeOK, Requests, nodeVars, queueVars, workerVars, checkerVars
<1>2. CASE UNCHANGED vars
  BY <1>2 DEF TypeOK, vars, callVars, loadVars, nodeVars, queueVars, workerVars, checkerVars
<1> QED BY <1>1, <1>2, CallerType, ChannelType, WorkerType, CheckerType, EnvironmentType DEF Next

----------------------------------------------------------------------------
(* Custody.                                                                *)

\* A step in which no request moves to another holder.
Quiet ==
    /\ UNCHANGED queueVars
    /\ \A q \in Request :
          /\ Listed(q)' => Listed(q)
          /\ \A w \in Worker : Working(w, q)' => Working(w, q)
          /\ Leaving(q)' => Leaving(q) /\ FirstOfMilli(q)'
          /\ Arriving(q)' => ~LetGo(q)
          /\ LetGo(q) => LetGo(q)'

\* Such a step disturbs nothing.
LEMMA QuietCustody ==
    ASSUME Custody, Quiet
    PROVE  Custody'
<1>1. UNCHANGED <<enqueuing, requestChan>>
  BY DEF Quiet, queueVars
<1>2. \A q \in Request : Queued(q)' <=> Queued(q)
  BY <1>1 DEF Queued
<1>3. \A q \in Request : Held(q)' => Held(q)
  BY <1>2 DEF Quiet, Held
<1>4. HandedOver'
  BY <1>3 DEF Custody, HandedOver, Quiet
<1>5. \A q \in Request : Arriving(q)' => ~Held(q)
  BY DEF Custody, HandedOver, Quiet
<1>6. LeavingAlone'
  BY <1>2 DEF Custody, LeavingAlone, Quiet
<1>7. SoleCustody'
  <2>1. IsInjective(requestChan)'
    BY <1>1 DEF Custody, SoleCustody
  <2>2. ASSUME NEW q \in Request PROVE (Arriving(q) => ~Listed(q) /\ ~Queued(q))'
    BY <1>2, <1>5 DEF Quiet, Held
  <2>3. ASSUME NEW q \in Request PROVE (Listed(q) => ~Queued(q))'
    BY <1>2 DEF Quiet, Custody, SoleCustody
  <2>4. ASSUME NEW q \in Request PROVE (q \in enqueuing => q \notin ToSet(requestChan))'
    BY <1>1 DEF Custody, SoleCustody
  <2>5. ASSUME NEW q \in Request, NEW w \in Worker, Working(w, q)'
        PROVE  /\ ~Arriving(q)' /\ ~Listed(q)' /\ ~Queued(q)'
               /\ \A v \in Worker : Working(v, q)' => v = w
    BY <1>2, <1>5, <2>5 DEF Quiet, Held, Custody, SoleCustody
  <2> QED BY <2>1, <2>2, <2>3, <2>4, <2>5 DEF SoleCustody
<1> QED BY <1>4, <1>6, <1>7 DEF Custody

\* A step that leaves the list alone leaves every place in it as it was.
LEMMA SameList ==
    ASSUME UNCHANGED listVars
    PROVE  \A q : (Listed(q)' <=> Listed(q)) /\ (FirstOfMilli(q) => FirstOfMilli(q)')
BY SameKeepsFirst DEF Listed, listVars

\* A call of AddL2Transaction hands its request to the list or to the channel.
LEMMA CallerCustody ==
    ASSUME MonitorInv, NEW r \in Request, CallerStep(r)
    PROVE  Custody'
<1>0. caller \in [Request -> {"none", "send", "enter", "add", "len", "signal", "returned"}]
  BY DEF MonitorInv, TypeOK
<1>1. ASSUME UNCHANGED <<listVars, queueVars, workerVars, creq>>,
             \A q \in Request : Leaving(q)' => Leaving(q),
             NEW l, caller' = [caller EXCEPT ![r] = l],
             \/ caller[r] \in {"none", "send"}
             \/ LetGo(r) /\ l \in {"signal", "returned"}
      PROVE  Custody'
  <2>1. Quiet
    BY <1>0, <1>1, SameList
       DEF Quiet, MonitorInv, Custody, LeavingAlone, Arriving, LetGo, Working, workerVars
  <2> QED BY <2>1, QuietCustody DEF MonitorInv
<1>2. CASE SenderTakes(r) \/ LoadNext(r)
  BY <1>1, <1>2 DEF SenderTakes, LoadNext, CallerAt, Leaving, checkerVars
<1>3. ASSUME NEW taken \in BOOLEAN, NEW ok \in BOOLEAN, SenderUpdate(r, taken, ok)
      PROVE  Custody'
  BY <1>1, <1>3 DEF SenderUpdate, CallerAt, Leaving, checkerVars
<1>4. CASE CallerLen(r)
  BY <1>1, <1>4 DEF CallerLen, CallerAt, LetGo, Leaving, checkerVars
<1>5. CASE CallerSignal(r)
  BY <1>1, <1>5 DEF CallerSignal, Signal, CallerAt, LetGo, Leaving
<1>6. CASE AddL2Transaction(r)
  <2>1. Arriving(r) /\ ~LetGo(r) /\ ~Held(r)
    BY <1>6 DEF AddL2Transaction, CallerAt, Arriving, LetGo, MonitorInv, Custody, HandedOver
  <2>2. CASE InitialWaitInterval > 0
    <3>1. SetNextRetry(r, After(InitialWaitInterval))
      BY <1>6, <2>1, <2>2, MonitorAssumption DEF AddL2Transaction, SetNextRetry, Held
    <3>2. After(InitialWaitInterval) \in Time
      BY AfterType, MonitorAssumption DEF MonitorInv
    <3>3. \A q \in Request : Leaving(q)' => Leaving(q) /\ FirstOfMilli(q)'
      BY <1>6, <2>1, <3>1, <3>2, SetKeepsFirst
         DEF AddL2Transaction, checkerVars, Leaving, Held, MonitorInv, Custody, LeavingAlone
    <3>4. Quiet
      BY <1>0, <1>6, <2>1, <2>2, <3>3, MonitorAssumption
         DEF AddL2Transaction, Quiet, queueVars, workerVars, Listed, Working, LetGo, Arriving
    <3> QED BY <3>4, QuietCustody DEF MonitorInv
  <2>3. CASE InitialWaitInterval = 0
    <3>1. /\ UNCHANGED listVars /\ UNCHANGED <<requestChan, wpc, wreq, cpc, creq>>
          /\ enqueuing' = enqueuing \cup {r} /\ caller' = [caller EXCEPT ![r] = "returned"]
      BY <1>6, <2>3 DEF AddL2Transaction, enqueueMonitorRequest, listVars, workerVars, checkerVars
    <3>2. \A q \in Request : /\ Listed(q)' <=> Listed(q)
                             /\ Leaving(q)' <=> Leaving(q)
                             /\ FirstOfMilli(q) => FirstOfMilli(q)'
                             /\ Queued(q)' <=> Queued(q) \/ q = r
                             /\ Arriving(q)' <=> Arriving(q) /\ q # r
                             /\ LetGo(q)' <=> LetGo(q) \/ q = r
                             /\ \A w \in Worker : Working(w, q)' <=> Working(w, q)
      BY <1>0, <3>1, SameList DEF Leaving, Queued, Arriving, LetGo, Working
    <3>3. HandedOver' /\ LeavingAlone'
      BY <2>1, <3>2 DEF HandedOver, LeavingAlone, Held, MonitorInv, Custody
    <3>4. SoleCustody'
      BY <2>1, <3>1, <3>2 DEF SoleCustody, Held, Queued, MonitorInv, Custody
    <3> QED BY <3>3, <3>4 DEF Custody
  <2> QED BY <2>2, <2>3, MonitorAssumption
<1>7. CASE CallerAdd(r)
  <2>1. Arriving(r) /\ ~LetGo(r) /\ ~Held(r)
    BY <1>7 DEF CallerAdd, addRequestToRetryList, CallerAt, Arriving, LetGo, MonitorInv, Custody, HandedOver
  <2>2. /\ ListAdd(r) /\ UNCHANGED <<enqueuing, requestChan, wpc, wreq, cpc, creq>>
        /\ caller' = [caller EXCEPT ![r] = "len"]
    BY <1>7 DEF CallerAdd, addRequestToRetryList, ListAdd, queueVars, workerVars, checkerVars
  <2>3. \A q \in Request : /\ Listed(q)' => Listed(q) \/ q = r
                           /\ Leaving(q)' <=> Leaving(q)
                           /\ FirstOfMilli(q) /\ q # r => FirstOfMilli(q)'
                           /\ Queued(q)' <=> Queued(q)
                           /\ Arriving(q)' <=> Arriving(q) /\ q # r
                           /\ LetGo(q)' <=> LetGo(q) \/ q = r
                           /\ \A w \in Worker : Working(w, q)' <=> Working(w, q)
    BY <1>0, <2>2, AddLists, AddKeepsFirst
       DEF Leaving, Queued, Arriving, LetGo, Working, ListAdd, MonitorInv, ListInv
  <2>4. HandedOver' /\ LeavingAlone'
    BY <2>1, <2>3 DEF HandedOver, LeavingAlone, Held, MonitorInv, Custody
  <2>5. SoleCustody'
    BY <2>1, <2>2, <2>3 DEF SoleCustody, Held, Queued, MonitorInv, Custody
  <2> QED BY <2>4, <2>5 DEF Custody
<1> QED BY <1>2, <1>3, <1>4, <1>5, <1>6, <1>7 DEF CallerStep

\* The channel takes a request from the goroutine that sends it.
LEMMA ChannelCustody ==
    ASSUME MonitorInv, NEW r \in Request, ChannelSend(r)
    PROVE  Custody'
<1>1. /\ UNCHANGED listVars /\ UNCHANGED <<caller, wpc, wreq, cpc, creq>>
      /\ r \in enqueuing /\ enqueuing' = enqueuing \ {r}
      /\ requestChan' = Append(requestChan, r)
  BY DEF ChannelSend, callVars, workerVars, checkerVars
<1>2. /\ requestChan \in Seq(Request) /\ IsInjective(requestChan)
      /\ r \notin ToSet(requestChan)
  BY <1>1 DEF MonitorInv, TypeOK, Custody, SoleCustody
<1>3. IsInjective(requestChan)' /\ ToSet(requestChan)' = ToSet(requestChan) \cup {r}
  BY <1>1, <1>2, SendProperty
<1>4. \A q \in Request : /\ Listed(q)' <=> Listed(q)
                         /\ Leaving(q)' <=> Leaving(q)
                         /\ FirstOfMilli(q) => FirstOfMilli(q)'
                         /\ Queued(q)' <=> Queued(q)
                         /\ Arriving(q)' <=> Arriving(q)
                         /\ LetGo(q)' <=> LetGo(q)
                         /\ \A w \in Worker : Working(w, q)' <=> Working(w, q)
  BY <1>1, <1>3, SameList DEF Leaving, Queued, Arriving, LetGo, Working
<1>5. HandedOver' /\ LeavingAlone'
  BY <1>4 DEF HandedOver, LeavingAlone, Held, MonitorInv, Custody
<1>6. \A q \in Request : q \in enqueuing' => q \notin ToSet(requestChan)'
  BY <1>1, <1>3 DEF MonitorInv, Custody, SoleCustody
<1>7. SoleCustody'
  BY <1>3, <1>4, <1>6 DEF SoleCustody, MonitorInv, Custody
<1> QED BY <1>5, <1>7 DEF Custody

\* A worker takes a request from the channel, and gives it to the list or
\* lets go of it.
LEMMA WorkerCustody ==
    ASSUME MonitorInv, NEW w \in Worker, WorkerStep(w)
    PROVE  Custody'
<1>0. wpc \in [Worker -> {"receive", "receipt", "update", "delete",
                           "schedule", "add", "len", "signal"}]
      /\ wreq \in [Worker -> Requests]
  BY DEF MonitorInv, TypeOK
<1>1. ASSUME UNCHANGED <<queueVars, caller, creq>>,
             \A q \in Request : (Listed(q)' => Listed(q)) /\ (Leaving(q)' => Leaving(q)),
             \A q \in Request : Leaving(q) => FirstOfMilli(q)',
             \A v \in Worker, q \in Request : Working(v, q)' => Working(v, q)
      PROVE  Custody'
  <2>1. Quiet
    BY <1>1 DEF Quiet, Arriving, LetGo
  <2> QED BY <2>1, QuietCustody DEF MonitorInv
<1>2. ASSUME UNCHANGED listVars
      PROVE  \A q \in Request : (Listed(q)' => Listed(q)) /\ (Leaving(q) => FirstOfMilli(q)')
  BY <1>2, SameList DEF MonitorInv, Custody, LeavingAlone
<1>3. CASE WorkerReceipt(w)
  <2>1. \A v \in Worker, q \in Request : Working(v, q)' => Working(v, q)
    BY <1>0, <1>3 DEF WorkerReceipt, WorkerAt, Working
  <2> QED BY <1>1, <1>2, <1>3, <2>1 DEF WorkerReceipt, Leaving, callVars, checkerVars
<1>4. ASSUME NEW ok \in BOOLEAN, WorkerUpdate(w, ok) PROVE Custody'
  <2>1. \A v \in Worker, q \in Request : Working(v, q)' => Working(v, q)
    BY <1>0, <1>4 DEF WorkerUpdate, WorkerAt, Working
  <2> QED BY <1>1, <1>2, <1>4, <2>1 DEF WorkerUpdate, Leaving, callVars, checkerVars
<1>5. CASE WorkerLen(w)
  <2>1. \A v \in Worker, q \in Request : Working(v, q)' => Working(v, q)
    BY <1>0, <1>5 DEF WorkerLen, WorkerAt, Receive, Working
  <2> QED BY <1>1, <1>2, <1>5, <2>1 DEF WorkerLen, Leaving, callVars, checkerVars
<1>6. CASE WorkerSignal(w)
  <2>1. \A v \in Worker, q \in Request : Working(v, q)' => Working(v, q)
    BY <1>0, <1>6 DEF WorkerSignal, WorkerAt, Receive, Working
  <2> QED BY <1>1, <1>2, <1>6, <2>1 DEF WorkerSignal, Signal, Leaving, callVars
<1>7. CASE WorkerDelete(w)
  <2>1. \A v \in Worker, q \in Request : Working(v, q)' => Working(v, q)
    BY <1>0, <1>7 DEF WorkerDelete, WorkerAt, Receive, Working
  <2>2. wreq[w] \in Request /\ ListDelete(wreq[w])
    BY <1>7, WorkerRequest DEF WorkerDelete, WorkerAt, ListDelete, MonitorInv
  <2>3. \A q \in Request : (Listed(q)' => Listed(q)) /\ (Leaving(q) => FirstOfMilli(q)')
    BY <2>2, DeleteLists, DeleteKeepsFirst
       DEF ListDelete, MonitorInv, ListInv, Custody, LeavingAlone
  <2> QED BY <1>1, <1>7, <2>1, <2>3 DEF WorkerDelete, Leaving, callVars, checkerVars
<1>8. CASE WorkerSchedule(w)
  <2>1. \A v \in Worker, q \in Request : Working(v, q)' => Working(v, q)
    BY <1>0, <1>8 DEF WorkerSchedule, WorkerAt, Working
  <2>2. wreq[w] \in Request /\ Working(w, wreq[w])
    BY <1>8, WorkerRequest DEF WorkerSchedule, WorkerAt, Working, MonitorInv
  <2>3. ~Listed(wreq[w]) /\ ~Leaving(wreq[w])
    BY <2>2 DEF MonitorInv, Custody, SoleCustody, LeavingAlone
  <2>4. SetNextRetry(wreq[w], After(RetryWaitInterval)) /\ After(RetryWaitInterval) \in Time
    BY <1>8, <2>3, AfterType, MonitorAssumption DEF WorkerSchedule, SetNextRetry, MonitorInv
  <2>5. \A q \in Request : (Listed(q)' => Listed(q)) /\ (Leaving(q) => FirstOfMilli(q)')
    BY <2>2, <2>3, <2>4, SetKeepsFirst
       DEF SetNextRetry, Listed, MonitorInv, Custody, LeavingAlone
  <2> QED BY <1>1, <1>8, <2>1, <2>5 DEF WorkerSchedule, Leaving, callVars, checkerVars
<1>9. CASE WorkerAdd(w)
  <2> DEFINE r == wreq[w]
  <2>1. r \in Request /\ Working(w, r)
    BY <1>9, WorkerRequest DEF WorkerAdd, addRequestToRetryList, WorkerAt, Working, MonitorInv
  <2>2. ~Leaving(r) /\ LetGo(r) /\ ~Arriving(r) /\ ~Queued(r)
        /\ \A v \in Worker : Working(v, r) => v = w
    BY <2>1 DEF MonitorInv, Custody, SoleCustody, LeavingAlone, HandedOver, Held
  <2>3. /\ ListAdd(r) /\ UNCHANGED <<enqueuing, requestChan, caller, wreq, cpc, creq>>
        /\ wpc' = [wpc EXCEPT ![w] = "len"]
    BY <1>9 DEF WorkerAdd, addRequestToRetryList, ListAdd, queueVars, callVars, checkerVars
  <2>4. \A q \in Request : /\ Listed(q)' => Listed(q) \/ q = r
                           /\ Leaving(q)' <=> Leaving(q)
                           /\ FirstOfMilli(q) /\ q # r => FirstOfMilli(q)'
                           /\ Queued(q)' <=> Queued(q)
                           /\ Arriving(q)' <=> Arriving(q)
                           /\ LetGo(q)' <=> LetGo(q)
                           /\ \A v \in Worker : Working(v, q)' => Working(v, q) /\ v # w
    <3> HIDE DEF r
    <3> QED BY <1>0, <2>1, <2>3, AddLists, AddKeepsFirst
            DEF Leaving, Queued, Arriving, LetGo, Working, ListAdd, MonitorInv, ListInv
  <2> HIDE DEF r
  <2>5. HandedOver' /\ LeavingAlone'
    BY <2>2, <2>4 DEF HandedOver, LeavingAlone, Held, MonitorInv, Custody
  <2>6. SoleCustody'
    BY <2>2, <2>3, <2>4 DEF SoleCustody, MonitorInv, Custody
  <2> QED BY <2>5, <2>6 DEF Custody
<1>10. CASE WorkerReceive(w)
  <2> DEFINE r == Head(requestChan)
  <2>1. /\ requestChan \in Seq(Request) /\ IsInjective(requestChan) /\ requestChan # <<>>
        /\ UNCHANGED listVars /\ UNCHANGED <<enqueuing, caller, cpc, creq>>
        /\ requestChan' = Tail(requestChan)
        /\ wreq' = [wreq EXCEPT ![w] = r] /\ wpc' = [wpc EXCEPT ![w] = "receipt"]
    BY <1>10 DEF WorkerReceive, MonitorInv, TypeOK, Custody, SoleCustody, callVars, checkerVars
  <2>2. /\ r \in Request /\ r \in ToSet(requestChan) /\ IsInjective(requestChan)'
        /\ ToSet(requestChan)' = ToSet(requestChan) \ {r}
    BY <2>1, ReceiveProperty
  <2> HIDE DEF r
  <2>3. ~Leaving(r) /\ LetGo(r) /\ ~Arriving(r) /\ ~Listed(r) /\ r \notin enqueuing
        /\ \A v \in Worker : ~Working(v, r)
    BY <2>2 DEF Queued, MonitorInv, Custody, SoleCustody, LeavingAlone, HandedOver, Held
  <2>4. \A q \in Request : /\ Listed(q)' <=> Listed(q)
                           /\ Leaving(q)' <=> Leaving(q)
                           /\ FirstOfMilli(q) => FirstOfMilli(q)'
                           /\ Queued(q)' <=> Queued(q) /\ q # r
                           /\ Arriving(q)' <=> Arriving(q)
                           /\ LetGo(q)' <=> LetGo(q)
                           /\ \A v \in Worker :
                                 Working(v, q)' => IF v = w THEN q = r ELSE Working(v, q)
    BY <1>0, <2>1, <2>2, <2>3, SameList DEF Leaving, Queued, Arriving, LetGo, Working
  <2>5. HandedOver' /\ LeavingAlone'
    BY <2>2, <2>3, <2>4 DEF HandedOver, LeavingAlone, Held, MonitorInv, Custody
  <2>6. \A q \in Request : q \in enqueuing' => q \notin ToSet(requestChan)'
    BY <2>1, <2>2 DEF MonitorInv, Custody, SoleCustody
  <2>7. SoleCustody'
    BY <2>2, <2>3, <2>4, <2>6 DEF SoleCustody, MonitorInv, Custody
  <2> QED BY <2>5, <2>7 DEF Custody
<1> QED BY <1>3, <1>4, <1>5, <1>6, <1>7, <1>8, <1>9, <1>10 DEF WorkerStep

\* The checker reads the head of the list, and moves it to the channel or
\* lets go of it.
LEMMA CheckerCustody ==
    ASSUME MonitorInv, CheckerStep
    PROVE  Custody'
<1>1. ASSUME UNCHANGED <<queueVars, caller, wpc, wreq>>,
             \A q \in Request : (Listed(q)' => Listed(q)) /\ (Leaving(q)' => Leaving(q)),
             \A q \in Request : Leaving(q) => FirstOfMilli(q)'
      PROVE  Custody'
  <2>1. Quiet
    BY <1>1 DEF Quiet, Arriving, LetGo, Working
  <2> QED BY <2>1, QuietCustody DEF MonitorInv
<1>2. ASSUME UNCHANGED listVars
      PROVE  \A q \in Request : (Listed(q)' => Listed(q)) /\ (Leaving(q) => FirstOfMilli(q)')
  BY <1>2, SameList DEF MonitorInv, Custody, LeavingAlone
<1>3. CASE CheckLen \/ CheckSleep \/ CheckWait
  <2>1. \A q \in Request : Leaving(q)' => Leaving(q)
    BY <1>3 DEF CheckLen, CheckSleep, CheckWait, Leaving
  <2> QED BY <1>1, <1>2, <1>3, <2>1
          DEF CheckLen, CheckSleep, CheckWait, callVars, workerVars
<1>4. ASSUME NEW ok \in BOOLEAN, CheckExpire(ok) PROVE Custody'
  <2>1. \A q \in Request : Leaving(q)' => Leaving(q)
    BY <1>4 DEF CheckExpire, Leaving
  <2> QED BY <1>1, <1>2, <1>4, <2>1 DEF CheckExpire, callVars, workerVars
<1>5. CASE CheckRemove
  <2>1. creq \in Request /\ ListDelete(creq)
    BY <1>5, CheckerRequest DEF CheckRemove, ListDelete, MonitorInv
  <2>2. \A q \in Request : (Listed(q)' => Listed(q)) /\ (Leaving(q) => FirstOfMilli(q)')
    BY <2>1, DeleteLists, DeleteKeepsFirst
       DEF ListDelete, MonitorInv, ListInv, Custody, LeavingAlone
  <2>3. \A q \in Request : Leaving(q)' => Leaving(q)
    BY <1>5 DEF CheckRemove, Leaving
  <2> QED BY <1>1, <1>5, <2>2, <2>3 DEF CheckRemove, callVars, workerVars
<1>6. CASE CheckGet
  <2>1. CASE sorted = <<>>
    <3>1. \A q \in Request : Leaving(q)' => Leaving(q)
      BY <1>6, <2>1 DEF CheckGet, Leaving
    <3> QED BY <1>1, <1>2, <1>6, <3>1 DEF CheckGet, callVars, workerVars
  <2>2. CASE sorted # <<>>
    <3> DEFINE r == Head(sorted)
    <3>1. r \in Request /\ Listed(r) /\ FirstOfMilli(r)
      BY <2>2, HeadOfList DEF MonitorInv
    <3>2. /\ UNCHANGED listVars /\ UNCHANGED <<enqueuing, requestChan, caller, wpc, wreq>>
          /\ creq' = r
      BY <1>6, <2>2 DEF CheckGet, callVars, queueVars, workerVars
    <3> HIDE DEF r
    <3>3. LetGo(r) /\ ~Queued(r) /\ \A w \in Worker : ~Working(w, r)
      BY <3>1 DEF MonitorInv, Custody, SoleCustody, HandedOver, Held
    <3>4. \A q \in Request : /\ Listed(q)' <=> Listed(q)
                             /\ Leaving(q)' => q = r
                             /\ FirstOfMilli(q) => FirstOfMilli(q)'
                             /\ Queued(q)' <=> Queued(q)
                             /\ Arriving(q)' <=> Arriving(q)
                             /\ LetGo(q)' <=> LetGo(q)
                             /\ \A w \in Worker : Working(w, q)' <=> Working(w, q)
      BY <3>2, SameList DEF Leaving, Queued, Arriving, LetGo, Working
    <3>5. HandedOver' /\ LeavingAlone'
      BY <3>1, <3>3, <3>4 DEF HandedOver, LeavingAlone, Held, MonitorInv, Custody
    <3>6. SoleCustody'
      BY <3>2, <3>4 DEF SoleCustody, MonitorInv, Custody
    <3> QED BY <3>5, <3>6 DEF Custody
  <2> QED BY <2>1, <2>2
<1>7. CASE CheckRetry
  <2>0. PICK r \in Request : r = creq
    BY <1>7, CheckerRequest DEF CheckRetry, MonitorInv
  <2>1. /\ ListDelete(r) /\ Leaving(r)
        /\ UNCHANGED <<requestChan, caller, wpc, wreq>>
        /\ enqueuing' = enqueuing \cup {r} /\ cpc' = "len"
    BY <1>7, <2>0 DEF CheckRetry, ListDelete, Leaving, enqueueMonitorRequest, callVars, workerVars
  <2>2. /\ LetGo(r) /\ ~Arriving(r) /\ ~Queued(r) /\ FirstOfMilli(r)
        /\ \A w \in Worker : ~Working(w, r)
    BY <2>1 DEF MonitorInv, Custody, HandedOver, LeavingAlone, Held, LetGo, Arriving
  <2>3. ~Listed(r)'
    BY <2>1, <2>2, DeleteUnlists DEF ListDelete, MonitorInv
  <2>4. \A q \in Request : /\ Listed(q)' => Listed(q)
                           /\ ~Leaving(q)'
                           /\ Queued(q)' <=> Queued(q) \/ q = r
                           /\ Arriving(q)' <=> Arriving(q)
                           /\ LetGo(q)' <=> LetGo(q)
                           /\ \A w \in Worker : Working(w, q)' <=> Working(w, q)
    BY <2>1, DeleteLists
       DEF Leaving, Queued, Arriving, LetGo, Working, ListDelete, MonitorInv, ListInv
  <2>5. HandedOver' /\ LeavingAlone'
    BY <2>2, <2>4 DEF HandedOver, LeavingAlone, Held, MonitorInv, Custody
  <2>6. SoleCustody'
    BY <2>1, <2>2, <2>3, <2>4 DEF SoleCustody, Queued, MonitorInv, Custody
  <2> QED BY <2>5, <2>6 DEF Custody
<1> QED BY <1>3, <1>4, <1>5, <1>6, <1>7 DEF CheckerStep

\* Steps that touch none of the places where a request can be.
LEMMA OtherCustody ==
    ASSUME MonitorInv,
           UNCHANGED <<listVars, caller, queueVars, wpc, wreq, checkerVars>>
    PROVE  Custody'
<1>1. Quiet
  BY SameList DEF Quiet, Arriving, LetGo, Working, Leaving, checkerVars,
                  MonitorInv, Custody, LeavingAlone
<1> QED BY <1>1, QuietCustody DEF MonitorInv

----------------------------------------------------------------------------
(* The invariant holds.                                                    *)

\* NewMonitor makes the invariant true, ...
LEMMA InitMonitorInv == Init => MonitorInv
<1> SUFFICES ASSUME Init PROVE MonitorInv
  OBVIOUS
<1>1. ListInv
  BY InitInv DEF Init
<1>2. TypeOK
  <2>1. ListTypeOK /\ status \in [Id -> Status] /\ now \in 0..(Horizon + 1)
    BY <1>1, MonitorAssumption DEF Init, ListInv
  <2>2. requestChan \in Seq(Request) /\ Len(requestChan) <= QueueSize
    BY MonitorAssumption DEF Init
  <2>3. /\ wpc \in [Worker -> {"receive", "receipt", "update", "delete",
                                "schedule", "add", "len", "signal"}]
        /\ wreq \in [Worker -> Requests]
        /\ \A w \in Worker : wreq[w] = Nil <=> wpc[w] = "receive"
        /\ \A w \in Worker : wstatus[w] = "none" <=> wpc[w] # "update"
        /\ wstatus \in [Worker -> {"none", "confirmed", "failed"}]
    BY DEF Init, Requests
  <2> QED BY <2>1, <2>2, <2>3 DEF Init, TypeOK, Requests
<1>3. requestChan = <<>> /\ DOMAIN requestChan = {} /\ ToSet(requestChan) = {}
  BY DEF Init, ToSet
<1>4. \A r \in Request : ~Arriving(r) /\ ~Held(r)
  BY <1>3, ListAssumption DEF Init, ListInit, Arriving, Held, Listed, Queued, Leaving, Working
<1>5. Custody
  BY <1>3, <1>4 DEF Custody, SoleCustody, HandedOver, LeavingAlone, Held, IsInjective
<1> QED BY <1>1, <1>2, <1>5 DEF MonitorInv

\* ... every step keeps it, the list's part by the proofs about the list, ...
LEMMA NextMonitorInv ==
    ASSUME MonitorInv, [Next]_vars, [~Mixup]_listVars
    PROVE  MonitorInv'
<1>1. ListInv'
  BY ListStep, StepInv DEF MonitorInv
<1>2. TypeOK'
  BY <1>1, TypeStep DEF MonitorInv, ListInv
<1>3. Custody'
  <2>1. ASSUME NEW rows, LoadSelect(rows) PROVE Custody'
    BY <2>1, OtherCustody DEF LoadSelect, workerVars
  <2>2. CASE Environment
    BY <2>2, OtherCustody DEF Environment, Tick, Mine, OperatorResend, callVars, workerVars
  <2>3. CASE UNCHANGED vars
    BY <2>3, OtherCustody DEF vars, callVars, workerVars
  <2> QED BY <2>1, <2>2, <2>3, CallerCustody, ChannelCustody, WorkerCustody, CheckerCustody
          DEF Next
<1> QED BY <1>1, <1>2, <1>3 DEF MonitorInv

\* ... and so it holds for as long as no request is mixed up with its twin.
LEMMA MonitorInvariant == Spec /\ [][~Mixup]_listVars => []MonitorInv
<1>1. MonitorInv /\ [Next]_vars /\ [~Mixup]_listVars => MonitorInv'
  BY NextMonitorInv
<1> QED BY <1>1, InitMonitorInv, PTL DEF Spec

----------------------------------------------------------------------------
(* Waiting before a retry.                                                 *)

\* A request whose time has come: the checker is about to send it to the
\* channel, it is on its way, or its worker has not asked the node yet.
Asked(r) ==
    \/ Queued(r)
    \/ \E w \in Worker : Working(w, r) /\ wpc[w] = "receipt"
    \/ Leaving(r) /\ cpc = "retry"

DueInv == InitialWaitInterval > 0 => \A r \in Request : Asked(r) => nextRetry[r] < now

\* The clock goes forward, and what a step asks for was asked for already,
\* with the same nextRetry, or is due.
DueKept ==
    /\ now <= now'
    /\ \A q \in Request :
          Asked(q)' => \/ Asked(q) /\ nextRetry'[q] = nextRetry[q]
                       \/ nextRetry'[q] < now

\* Such a step keeps requests from being asked for early.
LEMMA DueKeptInv ==
    ASSUME TypeOK, TypeOK', DueInv, InitialWaitInterval > 0 => DueKept
    PROVE  DueInv'
<1>1. /\ now \in Int /\ now' \in Int
      /\ \A q \in Request : nextRetry[q] \in Int /\ nextRetry'[q] \in Int
  BY ListAssumption, MonitorAssumption DEF TypeOK, ListTypeOK
<1> QED BY <1>1 DEF DueInv, DueKept

\* A caller sets nextRetry before anybody asks for the request.
LEMMA CallerDue ==
    ASSUME MonitorInv, InitialWaitInterval > 0, NEW r \in Request, CallerStep(r)
    PROVE  DueKept
<1>0. now \in Int /\ nextRetry \in [Request -> Time]
  BY MonitorAssumption DEF MonitorInv, TypeOK, ListTypeOK
<1>1. CASE AddL2Transaction(r)
  <2>1. ~Asked(r)
    BY <1>1 DEF AddL2Transaction, CallerAt, LetGo, MonitorInv, Custody, HandedOver, Held, Asked
  <2>2. /\ UNCHANGED <<now, enqueuing, requestChan, wpc, wreq, cpc, creq>>
        /\ \A q \in Request : q # r => nextRetry'[q] = nextRetry[q]
    BY <1>0, <1>1, MonitorAssumption
       DEF AddL2Transaction, nodeVars, queueVars, workerVars, checkerVars
  <2>3. \A q \in Request : Asked(q)' <=> Asked(q)
    BY <2>2 DEF Asked, Queued, Working, Leaving
  <2> QED BY <1>0, <2>1, <2>2, <2>3 DEF DueKept
<1>2. ASSUME UNCHANGED <<now, nextRetry, queueVars, workerVars, creq>>,
             cpc' = "retry" => cpc = "retry"
      PROVE  DueKept
  <2>1. \A q \in Request : Asked(q)' => Asked(q)
    BY <1>2 DEF Asked, Queued, Working, Leaving, queueVars, workerVars
  <2> QED BY <1>0, <1>2, <2>1 DEF DueKept
<1>3. CASE SenderTakes(r) \/ LoadNext(r) \/ CallerAdd(r) \/ CallerLen(r)
  BY <1>2, <1>3 DEF SenderTakes, LoadNext, CallerAdd, addRequestToRetryList, CallerLen, nodeVars, listVars, checkerVars
<1>4. ASSUME NEW taken \in BOOLEAN, NEW ok \in BOOLEAN, SenderUpdate(r, taken, ok)
      PROVE  DueKept
  BY <1>2, <1>4 DEF SenderUpdate, nodeVars, listVars, checkerVars
<1>5. CASE CallerSignal(r)
  BY <1>2, <1>5 DEF CallerSignal, Signal, nodeVars, listVars
<1> QED BY <1>1, <1>3, <1>4, <1>5 DEF CallerStep

\* A worker sets nextRetry when nobody else has the request.
LEMMA WorkerDue ==
    ASSUME MonitorInv, InitialWaitInterval > 0, NEW w \in Worker, WorkerStep(w)
    PROVE  DueKept
<1>0. /\ now \in Int /\ nextRetry \in [Request -> Time]
      /\ wpc \in [Worker -> {"receive", "receipt", "update", "delete",
                              "schedule", "add", "len", "signal"}]
      /\ wreq \in [Worker -> Requests]
  BY MonitorAssumption DEF MonitorInv, TypeOK, ListTypeOK
<1>1. CASE WorkerSchedule(w)
  <2> DEFINE r == wreq[w]
  <2>1. r \in Request /\ Working(w, r) /\ wpc[w] = "schedule"
    BY <1>1, WorkerRequest DEF WorkerSchedule, WorkerAt, Working, MonitorInv
  <2>2. /\ UNCHANGED <<now, enqueuing, requestChan, wreq, cpc, creq>>
        /\ \A q \in Request : q # r => nextRetry'[q] = nextRetry[q]
        /\ wpc' = [wpc EXCEPT ![w] = "add"]
    BY <1>0, <1>1 DEF WorkerSchedule, nodeVars, queueVars, checkerVars
  <2> HIDE DEF r
  <2>3. ~Asked(r)
    BY <2>1 DEF MonitorInv, Custody, SoleCustody, LeavingAlone, Asked
  <2>4. \A q \in Request : Asked(q)' => Asked(q)
    BY <1>0, <2>2 DEF Asked, Queued, Working, Leaving
  <2> QED BY <1>0, <2>2, <2>3, <2>4 DEF DueKept
<1>2. CASE WorkerReceive(w)
  <2> DEFINE r == Head(requestChan)
  <2>1. /\ requestChan \in Seq(Request) /\ IsInjective(requestChan) /\ requestChan # <<>>
        /\ UNCHANGED <<now, nextRetry, enqueuing, cpc, creq>>
        /\ requestChan' = Tail(requestChan)
        /\ wreq' = [wreq EXCEPT ![w] = r] /\ wpc' = [wpc EXCEPT ![w] = "receipt"]
    BY <1>2 DEF WorkerReceive, MonitorInv, TypeOK, Custody, SoleCustody, nodeVars, listVars,
                checkerVars
  <2>2. r \in ToSet(requestChan) /\ ToSet(requestChan)' = ToSet(requestChan) \ {r}
    BY <2>1, ReceiveProperty
  <2> HIDE DEF r
  <2>3. \A q \in Request : Asked(q)' => Asked(q)
    BY <1>0, <2>1, <2>2 DEF Asked, Queued, Working, Leaving
  <2> QED BY <1>0, <2>1, <2>3 DEF DueKept
<1>3. ASSUME UNCHANGED <<now, nextRetry, queueVars, creq>>,
             cpc' = "retry" => cpc = "retry",
             NEW l, wpc' = [wpc EXCEPT ![w] = l], l # "receipt",
             \A v \in Worker : v # w => wreq'[v] = wreq[v]
      PROVE  DueKept
  <2>1. \A q \in Request : Asked(q)' => Asked(q)
    BY <1>0, <1>3 DEF Asked, Queued, Working, Leaving, queueVars
  <2> QED BY <1>0, <1>3, <2>1 DEF DueKept
<1>4. CASE WorkerReceipt(w)
  BY <1>3, <1>4 DEF WorkerReceipt, nodeVars, listVars, checkerVars
<1>5. ASSUME NEW ok \in BOOLEAN, WorkerUpdate(w, ok) PROVE DueKept
  BY <1>3, <1>5 DEF WorkerUpdate, AfterUpdate, nodeVars, listVars, checkerVars
<1>6. CASE WorkerDelete(w)
  BY <1>0, <1>3, <1>6 DEF WorkerDelete, Receive, nodeVars, checkerVars
<1>7. CASE WorkerAdd(w)
  BY <1>3, <1>7 DEF WorkerAdd, addRequestToRetryList, nodeVars, checkerVars
<1>8. CASE WorkerLen(w)
  BY <1>0, <1>3, <1>8 DEF WorkerLen, Receive, nodeVars, listVars, checkerVars
<1>9. CASE WorkerSignal(w)
  BY <1>0, <1>3, <1>9 DEF WorkerSignal, Signal, Receive, nodeVars, listVars
<1> QED BY <1>1, <1>2, <1>4, <1>5, <1>6, <1>7, <1>8, <1>9 DEF WorkerStep

\* The checker asks only for a request that is due.
LEMMA CheckerDue ==
    ASSUME MonitorInv, InitialWaitInterval > 0, CheckerStep
    PROVE  DueKept
<1>0. now \in Int /\ nextRetry \in [Request -> Time]
  BY MonitorAssumption DEF MonitorInv, TypeOK, ListTypeOK
<1>1. CASE CheckGet
  <2>1. UNCHANGED <<now, nextRetry, enqueuing, requestChan, wpc, wreq>>
    BY <1>1 DEF CheckGet, nodeVars, listVars, queueVars, workerVars
  <2>2. cpc' = "retry" => nextRetry'[creq'] < now
    BY <1>1 DEF CheckGet, IsDue, listVars
  <2>3. \A q \in Request : Asked(q)' => Asked(q) \/ nextRetry'[q] < now
    BY <2>1, <2>2 DEF Asked, Queued, Working, Leaving
  <2> QED BY <1>0, <2>1, <2>3 DEF DueKept
<1>2. CASE CheckRetry
  <2>1. /\ UNCHANGED <<now, nextRetry, requestChan, wpc, wreq>>
        /\ cpc = "retry" /\ enqueuing' = enqueuing \cup {creq} /\ cpc' = "len"
    BY <1>2 DEF CheckRetry, enqueueMonitorRequest, nodeVars, listVars, workerVars
  <2>2. \A q \in Request : Asked(q)' => Asked(q)
    BY <2>1 DEF Asked, Queued, Working, Leaving
  <2> QED BY <1>0, <2>1, <2>2 DEF DueKept
<1>3. ASSUME UNCHANGED <<now, nextRetry, enqueuing, requestChan, wpc, wreq>>, cpc' # "retry"
      PROVE  DueKept
  <2>1. \A q \in Request : Asked(q)' => Asked(q)
    BY <1>3 DEF Asked, Queued, Working, Leaving
  <2> QED BY <1>0, <1>3, <2>1 DEF DueKept
<1>4. CASE CheckLen \/ CheckRemove \/ CheckSleep \/ CheckWait
  BY <1>3, <1>4 DEF CheckLen, CheckRemove, CheckSleep, CheckWait, nodeVars, listVars, queueVars,
                    workerVars
<1>5. ASSUME NEW ok \in BOOLEAN, CheckExpire(ok) PROVE DueKept
  BY <1>3, <1>5 DEF CheckExpire, nodeVars, listVars, queueVars, workerVars
<1> QED BY <1>1, <1>2, <1>4, <1>5 DEF CheckerStep

\* No step asks for a request early.
LEMMA NextDueInv ==
    ASSUME MonitorInv, MonitorInv', DueInv, [Next]_vars
    PROVE  DueInv'
<1>0. now \in Int /\ TypeOK /\ TypeOK'
  BY MonitorAssumption DEF MonitorInv, TypeOK
<1>1. ASSUME NEW r \in Request, ChannelSend(r) PROVE DueKept
  <2>1. /\ UNCHANGED <<now, nextRetry, wpc, wreq, cpc, creq>>
        /\ r \in enqueuing /\ enqueuing' = enqueuing \ {r}
        /\ requestChan' = Append(requestChan, r)
    BY <1>1 DEF ChannelSend, nodeVars, listVars, workerVars, checkerVars
  <2>2. ToSet(requestChan)' = ToSet(requestChan) \cup {r}
    BY <2>1, SendProperty DEF MonitorInv, TypeOK, Custody, SoleCustody
  <2>3. \A q \in Request : Asked(q)' => Asked(q)
    BY <2>1, <2>2 DEF Asked, Queued, Working, Leaving
  <2> QED BY <1>0, <2>1, <2>3 DEF DueKept
<1>2. ASSUME now' \in {now, now + 1},
             UNCHANGED <<nextRetry, enqueuing, requestChan, wpc, wreq, cpc, creq>>
      PROVE  DueKept
  <2>1. \A q \in Request : Asked(q)' => Asked(q)
    BY <1>2 DEF Asked, Queued, Working, Leaving
  <2> QED BY <1>0, <1>2, <2>1 DEF DueKept
<1>3. ASSUME NEW rows, LoadSelect(rows) PROVE DueKept
  <2>1. /\ now' \in {now, now + 1}
        /\ UNCHANGED <<nextRetry, enqueuing, requestChan, wpc, wreq, cpc, creq>>
    BY <1>3 DEF LoadSelect, nodeVars, listVars, queueVars, workerVars, checkerVars
  <2> QED BY <1>2, <2>1
<1>4. ASSUME Environment PROVE DueKept
  <2>1. /\ now' \in {now, now + 1}
        /\ UNCHANGED <<nextRetry, enqueuing, requestChan, wpc, wreq, cpc, creq>>
    BY <1>4 DEF Environment, Tick, Mine, OperatorResend, nodeVars,
                listVars, queueVars, workerVars, checkerVars
  <2> QED BY <1>2, <2>1
<1>5. ASSUME UNCHANGED vars PROVE DueKept
  <2>1. /\ now' \in {now, now + 1}
        /\ UNCHANGED <<nextRetry, enqueuing, requestChan, wpc, wreq, cpc, creq>>
    BY <1>5 DEF vars, nodeVars, listVars, queueVars, workerVars, checkerVars
  <2> QED BY <1>2, <2>1
<1>6. InitialWaitInterval > 0 => DueKept
  BY <1>1, <1>3, <1>4, <1>5, CallerDue, WorkerDue, CheckerDue DEF Next
<1> QED BY <1>0, <1>6, DueKeptInv

----------------------------------------------------------------------------
(* The theorems, for any number of transactions, requests and workers, any *)
(* queue, ids and hashes.  Except for the types they are about behaviours  *)
(* without a Mixup: what they say holds up to the first one.               *)

\* The state of the monitor is well typed; in particular the channel never
\* holds more than QueueSize requests and a worker has a request exactly when
\* it is not waiting for one (startMonitorWorker, monitor.go).
THEOREM MonitorTypes == Spec => []TypeOK
<1>1. Init => TypeOK
  BY InitMonitorInv DEF MonitorInv
<1>2. TypeOK /\ [Next]_vars => TypeOK'
  BY ListTypeStep, TypeStep
<1> QED BY <1>1, <1>2, PTL DEF Spec

\* However the goroutines interleave, no two of them ever hold the same
\* request, so the unlocked writes of nextRetry (monitor.go:57, :85) cannot
\* race.
THEOREM SoleCustodyHolds == Spec /\ [][~Mixup]_listVars => []SoleCustody
BY MonitorInvariant, PTL DEF MonitorInv, Custody

\* The monitor implements the specification of a client of the retry list:
\* each of its steps is one that ListSpec allows for (request_list.go).  With
\* ListCorrect, the list stays consistent and sorted under the monitor.
THEOREM MonitorUsesList == Spec /\ [][~Mixup]_listVars => ListContract
<1>1. Init => ListInit
  BY DEF Init
<1>2. MonitorInv /\ [Next]_vars => [ListNext]_listVars
  BY ListStep
<1> QED BY <1>1, <1>2, MonitorInvariant, PTL DEF Spec, ListContract, ListSpec

\* So the list serves the requests of the monitor in order: with callers,
\* workers and checker at work, one that is added goes behind those that are due
\* in its millisecond, and the others keep their order (request_list.go:27-73,
\* :114-124).
THEOREM MonitorServesInOrder ==
    Spec /\ [][~Mixup]_listVars => AddGoesLast /\ OrderKept
BY MonitorUsesList, AddGoesLastHolds, OrderKeptHolds, PTL DEF ListContract

\* When the checker deletes the request it has read from the head, whatever
\* the others have added to or deleted from the list since, delete finds that
\* request if it is still there (monitor.go:133, :141, :144).
THEOREM CheckerRemovesHolds == Spec /\ [][~Mixup]_listVars => []CheckerRemoves
<1>1. ASSUME MonitorInv PROVE CheckerRemoves
  <2> SUFFICES ASSUME Leaving(creq), Listed(creq)
               PROVE  deleteFinds(creq) /\ sorted[deleteIndex(creq)] = creq
    BY DEF CheckerRemoves
  <2>1. creq \in Request
    BY <1>1, CheckerRequest DEF Leaving, MonitorInv
  <2>2. FirstOfMilli(creq) /\ creq \in ToSet(sorted)
    BY <1>1, <2>1, ListAssumption
       DEF MonitorInv, Custody, LeavingAlone, ListInv, Consistent, Listed
  <2>3. PICK i \in DOMAIN sorted : sorted[i] = creq
    BY <2>2 DEF ToSet
  <2> QED BY <1>1, <2>2, <2>3, DeleteFindsFirst DEF FirstOfMilli, MonitorInv
<1> QED BY <1>1, MonitorInvariant, PTL

\* No request reaches a worker that asks the node before the wait that was
\* set for it is over (InitialWaitInterval and RetryWaitInterval,
\* monitor.go:57, :85, :144).
THEOREM WaitsBeforeRetryHolds == Spec /\ [][~Mixup]_listVars => []WaitsBeforeRetry
<1>1. Init => DueInv
  <2> SUFFICES ASSUME Init PROVE DueInv
    OBVIOUS
  <2>1. ToSet(requestChan) = {}
    BY DEF Init, ToSet
  <2> QED BY <2>1 DEF Init, DueInv, Asked, Queued, Working, Leaving
<1>2. MonitorInv /\ MonitorInv' /\ DueInv /\ [Next]_vars => DueInv'
  BY NextDueInv
<1>3. DueInv => WaitsBeforeRetry
  BY DEF DueInv, WaitsBeforeRetry, Asked
<1> QED BY <1>1, <1>2, <1>3, MonitorInvariant, PTL DEF Spec

----------------------------------------------------------------------------
(* Where a request can come from, and what nobody has any more.            *)

\* Nobody but the worker that is about to delete it has a request.
DoneAlone ==
    \A w \in Worker : wpc[w] = "delete" => LetGo(wreq[w]) /\ ~Held(wreq[w])

\* A request comes into the hands of the monitor only through its call of
\* AddL2Transaction, which has let go of it for ever once it has.
Traced(q) ==
    /\ Held(q)' => Held(q) \/ Arriving(q)
    /\ LetGo(q) => LetGo(q)'

\* It is so for the steps of a call,
LEMMA CallerTraced ==
    ASSUME MonitorInv, NEW r \in Request, CallerStep(r), NEW q \in Request
    PROVE  Traced(q)
<1> USE DEF loadVars, queueVars, workerVars, checkerVars, CallerAt
<1>0. caller \in [Request -> {"none", "send", "enter", "add", "len", "signal", "returned"}]
  BY DEF MonitorInv, TypeOK
<1>1. UNCHANGED <<requestChan, wpc, wreq, creq>>
  BY DEF CallerStep, SenderTakes, SenderUpdate, LoadNext, AddL2Transaction, CallerAdd,
         CallerLen, CallerSignal
<1>2. \A w \in Worker : Working(w, q)' <=> Working(w, q)
  BY <1>1 DEF Working
<1>3. Leaving(q)' => Leaving(q)
  <2>1. cpc' = cpc \/ cpc' = "len"
    BY DEF CallerStep, SenderTakes, SenderUpdate, LoadNext, AddL2Transaction, CallerAdd,
           CallerLen, CallerSignal, Signal
  <2> QED BY <1>1, <2>1 DEF Leaving
<1>4. Queued(q)' => Queued(q) \/ Arriving(q)
  <2>1. enqueuing' = enqueuing \/ (AddL2Transaction(r) /\ enqueuing' = enqueuing \cup {r})
    BY DEF CallerStep, SenderTakes, SenderUpdate, LoadNext, AddL2Transaction, CallerAdd,
           CallerLen, CallerSignal, enqueueMonitorRequest
  <2> QED BY <1>1, <2>1 DEF Queued, AddL2Transaction, Arriving
<1>5. Listed(q)' => Listed(q) \/ Arriving(q)
  <2>1. list' = list \/ CallerAdd(r)
    BY DEF CallerStep, SenderTakes, SenderUpdate, LoadNext, AddL2Transaction, CallerLen,
           CallerSignal, listVars
  <2>2. CASE CallerAdd(r)
    BY <2>2, AddLists DEF CallerAdd, addRequestToRetryList, Arriving, MonitorInv, ListInv
  <2> QED BY <2>1, <2>2 DEF Listed
<1>6. LetGo(q) => LetGo(q)'
  <2>1. PICK l : caller' = [caller EXCEPT ![r] = l] /\ (LetGo(r) => l \in {"signal", "returned"})
    BY DEF CallerStep, SenderTakes, SenderUpdate, LoadNext, AddL2Transaction, CallerAdd,
           CallerLen, CallerSignal, LetGo
  <2> QED BY <1>0, <2>1 DEF LetGo
<1> QED BY <1>2, <1>3, <1>4, <1>5, <1>6 DEF Traced, Held

\* ... of a worker,
LEMMA WorkerTraced ==
    ASSUME MonitorInv, NEW w \in Worker, WorkerStep(w), NEW q \in Request
    PROVE  Traced(q)
<1> USE DEF callVars, queueVars, workerVars, checkerVars, WorkerAt
<1>0. /\ requestChan \in Seq(Request) /\ IsInjective(requestChan)
      /\ wreq \in [Worker -> Requests]
      /\ wpc \in [Worker -> {"receive", "receipt", "update", "delete",
                               "schedule", "add", "len", "signal"}]
  BY DEF MonitorInv, TypeOK, Custody, SoleCustody
<1>1. UNCHANGED <<caller, enqueuing, creq>> /\ (cpc' = cpc \/ cpc' = "len")
  BY DEF WorkerStep, WorkerReceive, WorkerReceipt, WorkerUpdate, WorkerDelete,
         WorkerSchedule, WorkerAdd, WorkerLen, WorkerSignal, Signal
<1>2. Leaving(q)' => Leaving(q)
  BY <1>1 DEF Leaving
<1>3. LetGo(q) => LetGo(q)'
  BY <1>1 DEF LetGo
<1>4. CASE WorkerReceive(w)
  <2>1. /\ requestChan # <<>> /\ requestChan' = Tail(requestChan) /\ list' = list
        /\ wreq' = [wreq EXCEPT ![w] = Head(requestChan)]
        /\ wpc' = [wpc EXCEPT ![w] = "receipt"]
    BY <1>4 DEF WorkerReceive, listVars
  <2>2. /\ Head(requestChan) \in ToSet(requestChan)
        /\ ToSet(requestChan') \subseteq ToSet(requestChan)
    BY <1>0, <2>1, ReceiveProperty
  <2>3. Queued(q)' => Queued(q)
    BY <1>1, <2>2 DEF Queued
  <2>4. \A v \in Worker : Working(v, q)' => Working(v, q) \/ Queued(q)
    BY <1>0, <2>1, <2>2 DEF Working, Queued
  <2> QED BY <1>2, <1>3, <2>1, <2>3, <2>4 DEF Traced, Held, Listed
<1>5. CASE ~WorkerReceive(w)
  <2>1. /\ requestChan' = requestChan
        /\ \A v \in Worker \ {w} : wpc'[v] = wpc[v] /\ wreq'[v] = wreq[v]
        /\ wpc'[w] \in {"receipt", "update", "schedule", "add"} =>
              /\ wpc[w] \in {"receipt", "update", "schedule", "add"}
              /\ wreq'[w] = wreq[w]
    BY <1>0, <1>5 DEF WorkerStep, WorkerReceipt, WorkerUpdate, AfterUpdate, WorkerDelete,
                      WorkerSchedule, WorkerAdd, WorkerLen, WorkerSignal, Receive
  <2>2. \A v \in Worker : Working(v, q)' => Working(v, q)
    BY <2>1 DEF Working
  <2>3. Queued(q)' <=> Queued(q)
    BY <1>1, <2>1 DEF Queued
  <2>4. list' = list \/ WorkerAdd(w) \/ WorkerDelete(w)
    BY <1>5 DEF WorkerStep, WorkerReceipt, WorkerUpdate, WorkerSchedule, WorkerLen,
                WorkerSignal, listVars
  <2>5. Listed(q)' => Listed(q) \/ Working(w, q)
    <3>1. CASE WorkerAdd(w)
      <4>1. wreq[w] \in Request /\ add(wreq[w]) /\ wpc[w] = "add" /\ ListTypeOK
        BY <3>1, WorkerRequest DEF WorkerAdd, addRequestToRetryList, MonitorInv, ListInv
      <4> QED BY <4>1, AddLists DEF Working
    <3>2. CASE WorkerDelete(w)
      <4>1. wreq[w] \in Request /\ delete(wreq[w]) /\ ListTypeOK
        BY <3>2, WorkerRequest DEF WorkerDelete, MonitorInv, ListInv
      <4> QED BY <4>1, DeleteLists
    <3> QED BY <2>4, <3>1, <3>2 DEF Listed
  <2> QED BY <1>2, <1>3, <2>2, <2>3, <2>5 DEF Traced, Held
<1> QED BY <1>4, <1>5

\* ... of the checker,
LEMMA CheckerTraced ==
    ASSUME MonitorInv, CheckerStep, NEW q \in Request
    PROVE  Traced(q)
<1> USE DEF callVars, queueVars, workerVars, checkerVars
<1>1. UNCHANGED <<caller, requestChan, wpc, wreq>>
  BY DEF CheckerStep, CheckLen, CheckGet, CheckExpire, CheckRemove, CheckRetry, CheckSleep,
         CheckWait
<1>2. (LetGo(q) => LetGo(q)') /\ \A w \in Worker : Working(w, q)' <=> Working(w, q)
  BY <1>1 DEF LetGo, Working
<1>3. Queued(q)' => Queued(q) \/ Leaving(q)
  <2>1. enqueuing' = enqueuing \/ (cpc = "retry" /\ enqueuing' = enqueuing \cup {creq})
    BY DEF CheckerStep, CheckLen, CheckGet, CheckExpire, CheckRemove, CheckRetry, CheckSleep,
           CheckWait, enqueueMonitorRequest
  <2> QED BY <1>1, <2>1 DEF Queued, Leaving
<1>4. Listed(q)' => Listed(q)
  <2>1. list' = list \/ (cpc \in {"remove", "retry"} /\ delete(creq))
    BY DEF CheckerStep, CheckLen, CheckGet, CheckExpire, CheckRemove, CheckRetry, CheckSleep,
           CheckWait, listVars
  <2>2. ASSUME cpc \in {"remove", "retry"}, delete(creq) PROVE Listed(q)' => Listed(q)
    <3>1. creq \in Request /\ ListTypeOK
      BY <2>2, CheckerRequest DEF MonitorInv, ListInv
    <3> QED BY <2>2, <3>1, DeleteLists
  <2> QED BY <2>1, <2>2 DEF Listed
<1>5. Leaving(q)' => Leaving(q) \/ Listed(q)
  <2>1. \/ cpc' \notin {"expire", "remove", "retry"}
        \/ cpc = "expire" /\ creq' = creq
        \/ sorted # <<>> /\ creq' = Head(sorted)
    BY DEF CheckerStep, CheckLen, CheckGet, CheckExpire, CheckRemove, CheckRetry, CheckSleep,
           CheckWait
  <2>2. sorted # <<>> => Listed(Head(sorted))
    BY HeadOfList DEF MonitorInv
  <2> QED BY <2>1, <2>2 DEF Leaving
<1> QED BY <1>2, <1>3, <1>4, <1>5 DEF Traced, Held

\* ... and for every other one.
LEMMA NextTraced ==
    ASSUME MonitorInv, [Next]_vars, NEW q \in Request
    PROVE  Traced(q)
<1> USE DEF callVars, queueVars, workerVars, checkerVars, listVars
<1>1. ASSUME UNCHANGED <<list, caller, enqueuing, requestChan, wpc, wreq, cpc, creq>>
      PROVE  Traced(q)
  BY <1>1 DEF Traced, Held, Listed, Queued, Leaving, Working, LetGo
<1>2. ASSUME NEW r \in Request, ChannelSend(r) PROVE Traced(q)
  <2>1. /\ r \in enqueuing /\ enqueuing' = enqueuing \ {r} /\ r \notin ToSet(requestChan)
        /\ requestChan' = Append(requestChan, r) /\ requestChan \in Seq(Request)
        /\ IsInjective(requestChan) /\ UNCHANGED <<list, caller, wpc, wreq, cpc, creq>>
    BY <1>2 DEF ChannelSend, MonitorInv, TypeOK, Custody, SoleCustody
  <2>2. ToSet(requestChan') = ToSet(requestChan) \cup {r}
    BY <2>1, SendProperty
  <2>3. Queued(q)' => Queued(q)
    BY <2>1, <2>2 DEF Queued
  <2> QED BY <2>1, <2>3 DEF Traced, Held, Listed, Leaving, Working, LetGo
<1>3. ASSUME NEW rows, LoadSelect(rows) PROVE Traced(q)
  BY <1>1, <1>3 DEF LoadSelect
<1>4. CASE Environment
  BY <1>1, <1>4 DEF Environment, Tick, Mine, OperatorResend
<1>5. CASE UNCHANGED vars
  BY <1>1, <1>5 DEF vars
<1> QED BY <1>2, <1>3, <1>4, <1>5, CallerTraced, WorkerTraced, CheckerTraced DEF Next

\* A worker that comes to delete a request had it for itself.
LEMMA NextDoneAlone ==
    ASSUME MonitorInv, DoneAlone, [Next]_vars
    PROVE  DoneAlone'
<1> SUFFICES ASSUME NEW w \in Worker, wpc'[w] = "delete"
             PROVE  LetGo(wreq[w])' /\ ~Held(wreq[w])'
  BY DEF DoneAlone
<1>0. /\ wreq \in [Worker -> Requests]
      /\ wpc \in [Worker -> {"receive", "receipt", "update", "delete",
                               "schedule", "add", "len", "signal"}]
  BY DEF MonitorInv, TypeOK
<1>1. \/ wpc[w] = "delete" /\ wreq'[w] = wreq[w]
      \/ \E ok \in BOOLEAN : WorkerUpdate(w, ok)
  <2>1. ASSUME UNCHANGED <<wpc, wreq>> PROVE wpc[w] = "delete" /\ wreq'[w] = wreq[w]
    BY <2>1
  <2>2. ASSUME NEW v \in Worker, WorkerStep(v)
        PROVE  \/ wpc[w] = "delete" /\ wreq'[w] = wreq[w]
               \/ \E ok \in BOOLEAN : WorkerUpdate(w, ok)
    BY <1>0, <2>2 DEF WorkerStep, WorkerReceive, WorkerReceipt, WorkerUpdate, WorkerDelete,
                      WorkerSchedule, WorkerAdd, WorkerLen, WorkerSignal, Receive
  <2>3. ASSUME NEW r \in Request, CallerStep(r) \/ ChannelSend(r) PROVE UNCHANGED <<wpc, wreq>>
    BY <2>3 DEF CallerStep, SenderTakes, SenderUpdate, LoadNext, AddL2Transaction, CallerAdd,
                CallerLen, CallerSignal, ChannelSend, workerVars
  <2>4. ASSUME NEW rows, LoadSelect(rows) PROVE UNCHANGED <<wpc, wreq>>
    BY <2>4 DEF LoadSelect, workerVars
  <2>5. CASE CheckerStep \/ Environment \/ UNCHANGED vars
    BY <2>5 DEF CheckerStep, CheckLen, CheckGet, CheckExpire, CheckRemove, CheckRetry,
                CheckSleep, CheckWait, Environment, Tick, Mine, OperatorResend, vars, workerVars
  <2> QED BY <2>1, <2>2, <2>3, <2>4, <2>5 DEF Next
<1>2. CASE wpc[w] = "delete" /\ wreq'[w] = wreq[w]
  <2>1. PICK q \in Request : q = wreq[w]
    BY <1>2, WorkerRequest DEF MonitorInv
  <2>2. LetGo(q) /\ ~Held(q) /\ ~Arriving(q)
    BY <1>2, <2>1 DEF DoneAlone, LetGo, Arriving
  <2>3. LetGo(q)' /\ ~Held(q)'
    BY <2>2, NextTraced DEF Traced
  <2> QED BY <1>2, <2>1, <2>3 DEF LetGo, Held, Listed, Queued, Leaving, Working
<1>3. ASSUME NEW ok \in BOOLEAN, WorkerUpdate(w, ok)
      PROVE  LetGo(wreq[w])' /\ ~Held(wreq[w])'
  <2>1. /\ wpc[w] = "update" /\ wpc' = [wpc EXCEPT ![w] = "delete"] /\ wreq' = wreq
        /\ UNCHANGED <<list, caller, enqueuing, requestChan, cpc, creq>>
    BY <1>0, <1>3 DEF WorkerUpdate, WorkerAt, listVars, callVars, queueVars, checkerVars
  <2>2. PICK q \in Request : q = wreq[w]
    BY <2>1, WorkerRequest DEF MonitorInv
  <2>3. Working(w, q)
    BY <2>1, <2>2 DEF Working
  <2>4. /\ LetGo(q) /\ ~Listed(q) /\ ~Queued(q) /\ ~Leaving(q)
        /\ \A v \in Worker : Working(v, q) => v = w
    BY <2>3 DEF MonitorInv, Custody, SoleCustody, HandedOver, LeavingAlone, Held
  <2>5. \A v \in Worker : ~Working(v, q)'
    BY <1>0, <2>1, <2>4 DEF Working
  <2>6. LetGo(q)' /\ ~Held(q)'
    BY <2>1, <2>4, <2>5 DEF LetGo, Held, Listed, Queued, Leaving
  <2> QED BY <2>1, <2>2, <2>6 DEF LetGo, Held, Listed, Queued, Leaving, Working
<1> QED BY <1>1, <1>2, <1>3

\* So it is in every reachable state.
LEMMA DoneAloneInvariant == Spec /\ [][~Mixup]_listVars => []DoneAlone
<1>1. Init => DoneAlone
  BY DEF Init, DoneAlone
<1>2. MonitorInv /\ DoneAlone /\ [Next]_vars => DoneAlone'
  BY NextDoneAlone
<1> QED BY <1>1, <1>2, MonitorInvariant, PTL DEF Spec

----------------------------------------------------------------------------
(* The panic of getByIndex.                                                *)

\* The list is not empty when the checker, which has measured it, reads it, and
\* the request it has read to take out of the list is still there.
PanicInv ==
    /\ cpc = "get" => sorted # <<>>
    /\ cpc # "panic"
    /\ Leaving(creq) => Listed(creq)

\* add leaves something in the list, and in it what was there.
LEMMA AddNonempty ==
    ASSUME ListInv, NEW r \in Request, add(r)
    PROVE  /\ sorted # <<>> => sorted' # <<>>
           /\ \A q \in Request : Listed(q) => Listed(q)'
<1>0. ListTypeOK
  BY DEF ListInv
<1>1. CASE list[IdOf[r]] = Nil
  <2>1. sorted' # <<>>
    BY <1>0, <1>1, AddShape DEF ListTypeOK
  <2>2. \A q \in Request : Listed(q) => Listed(q)'
    BY <1>0, <1>1, ListAssumption DEF ListTypeOK, add, Listed
  <2> QED BY <2>1, <2>2
<1>2. CASE list[IdOf[r]] # Nil
  BY <1>2 DEF add, Listed
<1> QED BY <1>1, <1>2

\* A deletion that leaves the map alone leaves the slice alone.
LEMMA DeleteNothing ==
    ASSUME ListInv, NEW r \in Request, delete(r), list' = list
    PROVE  sorted' = sorted
<1> DEFINE q == list[IdOf[r]]
<1>1. SUFFICES ASSUME q # Nil, deleteFinds(q) PROVE FALSE
  BY DEF delete
<1>2. q \in Request /\ IdOf[q] = IdOf[r] /\ IdOf[r] \in Key
  BY <1>1, ListAssumption DEF ListInv, ListTypeOK, Consistent
<1>3. list'[IdOf[q]] = Nil
  BY <1>1, <1>2 DEF delete, removeKey, ListInv, ListTypeOK
<1> QED BY <1>1, <1>2, <1>3

\* A worker deletes nothing: the request it has is not in the list, and no
\* other request has its id.
LEMMA WorkerDeletesNothing ==
    ASSUME IsInjective(IdOf), MonitorInv, DoneAlone
    PROVE  ~DeletesOther
<1> SUFFICES ASSUME NEW w \in Worker, WorkerDelete(w) PROVE list' = list
  BY DEF DeletesOther
<1>1. wpc[w] = "delete" /\ delete(wreq[w])
  BY DEF WorkerDelete, WorkerAt
<1>2. PICK r \in Request : r = wreq[w]
  BY <1>1, WorkerRequest DEF MonitorInv
<1>3. ~Listed(r) /\ IdOf[r] \in Key
  BY <1>1, <1>2, ListAssumption DEF DoneAlone, Held
<1>4. list[IdOf[r]] = Nil
  <2>1. list[IdOf[r]] # Nil => list[IdOf[r]] \in Request /\ IdOf[list[IdOf[r]]] = IdOf[r]
    BY <1>3 DEF MonitorInv, ListInv, ListTypeOK, Consistent
  <2>2. \A q \in Request : IdOf[q] = IdOf[r] => q = r
    BY ListAssumption DEF IsInjective
  <2> QED BY <1>3, <2>1, <2>2 DEF Listed
<1> QED BY <1>1, <1>2, <1>4 DEF delete

\* The deletion of a listed request that is the first of its millisecond is no
\* Mixup: delete finds that request.
LEMMA FirstNoMixup ==
    ASSUME ListInv, NEW r \in Request, Listed(r), FirstOfMilli(r), delete(r)
    PROVE  ~Mixup
<1>1. r \in ToSet(sorted) /\ r # Nil /\ IdOf[r] \in Key /\ list[IdOf[r]] = r
  BY ListAssumption DEF ListInv, Consistent, Listed
<1>2. PICK i \in DOMAIN sorted : sorted[i] = r
  BY <1>1 DEF ToSet
<1>3. deleteFinds(r) /\ deleteIndex(r) = i
  BY <1>2, DeleteFindsFirst DEF FirstOfMilli
<1>4. /\ list' = [list EXCEPT ![IdOf[r]] = Nil]
      /\ sorted \in Seq(Request) /\ sorted' = RemoveAt(sorted, i)
  BY <1>1, <1>3 DEF delete, removeKey, removeSorted, ListInv, ListTypeOK
<1>5. ASSUME NEW t \in ToSet(sorted), t # r PROVE t \in ToSet(sorted')
  <2>1. PICK k \in DOMAIN sorted : sorted[k] = t
    BY DEF ToSet
  <2>2. DOMAIN sorted = 1..Len(sorted) /\ Len(sorted) \in Nat /\ k # i
    BY <1>2, <1>4, <1>5, <2>1
  <2>3. /\ sorted' \in Seq(Request) /\ Len(sorted') = Len(sorted) - 1
        /\ \A m \in 1..(Len(sorted) - 1) :
              sorted'[m] = IF m < i THEN sorted[m] ELSE sorted[m + 1]
    BY <1>4, <2>2, RemoveAtProperty, Zenon
  <2>4. DOMAIN sorted' = 1..(Len(sorted) - 1)
    BY <2>2, <2>3
  <2>5. CASE k < i
    <3>1. k \in DOMAIN sorted' /\ sorted'[k] = t
      BY <2>1, <2>2, <2>3, <2>4, <2>5
    <3> QED BY <3>1 DEF ToSet
  <2>6. CASE k > i
    <3>1. k - 1 \in DOMAIN sorted' /\ sorted'[k - 1] = t
      BY <2>1, <2>2, <2>3, <2>4, <2>6
    <3> QED BY <3>1 DEF ToSet
  <2> QED BY <2>2, <2>5, <2>6
<1>6. \A q \in Request : q # r /\ Listed(q) => list'[IdOf[q]] # Nil
  BY <1>1, <1>4, ListAssumption DEF Listed, ListInv, ListTypeOK
<1> QED BY <1>5, <1>6 DEF Mixup

\* While no worker deletes another's request, no request is mixed up with its
\* twin: only the checker takes requests out of the list, from the head.
LEMMA NoOtherNoMixup ==
    ASSUME MonitorInv, PanicInv, [Next]_vars, [~DeletesOther]_vars
    PROVE  [~Mixup]_listVars
<1>1. ASSUME list' = list \/ \A q \in Request : Listed(q) => Listed(q)' PROVE ~Mixup
  <2>1. \A q \in Request : Listed(q) => list'[IdOf[q]] # Nil
    BY <1>1, ListAssumption DEF Listed
  <2> QED BY <2>1 DEF Mixup
<1>2. ASSUME NEW r \in Request, CallerStep(r) PROVE ~Mixup
  <2>1. list' = list \/ add(r)
    BY <1>2 DEF CallerStep, SenderTakes, SenderUpdate, LoadNext, AddL2Transaction, CallerAdd,
                addRequestToRetryList, CallerLen, CallerSignal, listVars
  <2> QED BY <1>1, <2>1, AddNonempty DEF MonitorInv
<1>3. ASSUME NEW w \in Worker, WorkerStep(w) PROVE ~Mixup
  <2>1. list' = list \/ WorkerAdd(w)
    <3>1. CASE WorkerDelete(w)
      <4>1. ~UNCHANGED vars
        BY <3>1 DEF WorkerDelete, WorkerAt, Receive, vars, workerVars, MonitorInv, TypeOK
      <4> QED BY <3>1, <4>1 DEF DeletesOther
    <3>2. CASE ~WorkerDelete(w)
      BY <1>3, <3>2 DEF WorkerStep, WorkerReceive, WorkerReceipt, WorkerUpdate,
                  WorkerSchedule, WorkerLen, WorkerSignal, listVars
    <3> QED BY <3>1, <3>2
  <2>2. ASSUME WorkerAdd(w) PROVE \A q \in Request : Listed(q) => Listed(q)'
    <3>1. wreq[w] \in Request /\ add(wreq[w])
      BY <2>2, WorkerRequest DEF WorkerAdd, WorkerAt, addRequestToRetryList, MonitorInv
    <3> QED BY <3>1, AddNonempty DEF MonitorInv
  <2> QED BY <1>1, <2>1, <2>2
<1>4. ASSUME CheckerStep PROVE ~Mixup
  <2>1. list' = list \/ (cpc \in {"remove", "retry"} /\ delete(creq))
    BY <1>4 DEF CheckerStep, CheckLen, CheckGet, CheckExpire, CheckRemove, CheckRetry,
                CheckSleep, CheckWait, listVars
  <2>2. ASSUME cpc \in {"remove", "retry"}, delete(creq) PROVE ~Mixup
    <3>1. creq \in Request /\ Leaving(creq)
      BY <2>2, CheckerRequest DEF MonitorInv, Leaving
    <3>2. Listed(creq) /\ FirstOfMilli(creq)
      BY <3>1 DEF PanicInv, MonitorInv, Custody, LeavingAlone
    <3> QED BY <2>2, <3>1, <3>2, FirstNoMixup DEF MonitorInv
  <2> QED BY <1>1, <2>1, <2>2
<1>5. ASSUME NEW r \in Request, ChannelSend(r) PROVE ~Mixup
  BY <1>1, <1>5 DEF ChannelSend, listVars
<1>6. ASSUME NEW rows, LoadSelect(rows) PROVE ~Mixup
  BY <1>1, <1>6 DEF LoadSelect, listVars
<1>7. CASE Environment \/ UNCHANGED vars
  BY <1>1, <1>7 DEF Environment, Tick, Mine, OperatorResend, vars, listVars
<1> QED BY <1>2, <1>3, <1>4, <1>5, <1>6, <1>7 DEF Next

\* While no worker deletes another's request, every step keeps the checker from
\* an empty list.
LEMMA NextPanicInv ==
    ASSUME MonitorInv, PanicInv, [Next]_vars, [~DeletesOther]_vars
    PROVE  PanicInv'
<1> USE DEF listVars, checkerVars
<1>0. ListInv /\ sorted \in Seq(Request) /\ Nil \notin Request
  BY ListAssumption DEF MonitorInv, ListInv, ListTypeOK
<1>1. ASSUME sorted # <<>> => sorted' # <<>>, cpc' = cpc \/ cpc' = "len", creq' = creq,
             \A q \in Request : Listed(q) => Listed(q)'
      PROVE  PanicInv'
  <2>1. Leaving(creq)' => Leaving(creq) /\ creq \in Request
    BY <1>1, CheckerRequest DEF Leaving, MonitorInv
  <2>2. Leaving(creq)' => Listed(creq)'
    BY <1>1, <2>1 DEF PanicInv, Listed
  <2> QED BY <1>1, <2>2 DEF PanicInv
<1>2. ASSUME UNCHANGED listVars, cpc' = cpc \/ cpc' = "len", creq' = creq PROVE PanicInv'
  BY <1>1, <1>2 DEF Listed
<1>3. ASSUME NEW r \in Request, add(r), cpc' = cpc \/ cpc' = "len", creq' = creq
      PROVE  PanicInv'
  BY <1>0, <1>1, <1>3, AddNonempty
<1>4. ASSUME NEW r \in Request, CallerStep(r) PROVE PanicInv'
  <2>1. (cpc' = cpc \/ cpc' = "len") /\ creq' = creq
    BY <1>4 DEF CallerStep, SenderTakes, SenderUpdate, LoadNext, AddL2Transaction, CallerAdd,
                CallerLen, CallerSignal, Signal
  <2>2. (UNCHANGED <<list, sorted>>) \/ add(r)
    BY <1>4 DEF CallerStep, SenderTakes, SenderUpdate, LoadNext, AddL2Transaction, CallerAdd,
                addRequestToRetryList, CallerLen, CallerSignal
  <2> QED BY <1>1, <1>3, <2>1, <2>2 DEF Listed
<1>5. ASSUME NEW w \in Worker, WorkerStep(w) PROVE PanicInv'
  <2>1. (cpc' = cpc \/ cpc' = "len") /\ creq' = creq
    BY <1>5 DEF WorkerStep, WorkerReceive, WorkerReceipt, WorkerUpdate, WorkerDelete,
                WorkerSchedule, WorkerAdd, WorkerLen, WorkerSignal, Signal
  <2>2. (UNCHANGED <<list, sorted>>) \/ WorkerAdd(w) \/ WorkerDelete(w)
    BY <1>5 DEF WorkerStep, WorkerReceive, WorkerReceipt, WorkerUpdate,
                WorkerSchedule, WorkerLen, WorkerSignal
  <2>3. CASE WorkerAdd(w)
    <3>1. wreq[w] \in Request /\ add(wreq[w])
      BY <2>3, WorkerRequest DEF WorkerAdd, WorkerAt, addRequestToRetryList, MonitorInv
    <3> QED BY <1>3, <2>1, <3>1
  <2>4. CASE WorkerDelete(w)
    <3>1. wreq[w] \in Request /\ delete(wreq[w])
      BY <2>4, WorkerRequest DEF WorkerDelete, WorkerAt, MonitorInv
    <3>2. list' = list
      <4>1. ~UNCHANGED vars
        BY <2>4 DEF WorkerDelete, WorkerAt, Receive, vars, workerVars, MonitorInv, TypeOK
      <4> QED BY <2>4, <4>1 DEF DeletesOther
    <3>3. sorted' = sorted
      BY <1>0, <3>1, <3>2, DeleteNothing
    <3> QED BY <1>1, <2>1, <3>2, <3>3 DEF Listed
  <2> QED BY <1>1, <2>1, <2>2, <2>3, <2>4 DEF Listed
<1>6. CASE CheckLen
  <2>1. sorted' = sorted /\ (Len(sorted) > 0 => sorted # <<>>)
    BY <1>0, <1>6 DEF CheckLen
  <2>2. cpc' \in {"get", "wait"} /\ (cpc' = "get" => sorted # <<>>)
    BY <1>6, <2>1 DEF CheckLen, HasRequests, len
  <2> QED BY <2>1, <2>2 DEF PanicInv, Leaving
<1>7. CASE CheckGet
  <2>1. sorted # <<>>
    BY <1>7 DEF CheckGet, PanicInv
  <2>2. Listed(Head(sorted))
    BY <1>0, <2>1, HeadOfList
  <2>3. creq' = Head(sorted) /\ list' = list /\ cpc' \in {"expire", "retry", "sleep"}
    BY <1>7, <2>1 DEF CheckGet
  <2> QED BY <2>2, <2>3 DEF PanicInv, Listed
<1>8. CASE CheckRemove \/ CheckRetry \/ CheckSleep \/ CheckWait
  BY <1>8 DEF CheckRemove, CheckRetry, CheckSleep, CheckWait, PanicInv, Leaving
<1>9. ASSUME NEW ok \in BOOLEAN, CheckExpire(ok) PROVE PanicInv'
  BY <1>9 DEF CheckExpire, PanicInv, Leaving, Listed
<1>10. ASSUME NEW r \in Request, ChannelSend(r) PROVE PanicInv'
  BY <1>2, <1>10 DEF ChannelSend
<1>11. ASSUME NEW rows, LoadSelect(rows) PROVE PanicInv'
  BY <1>2, <1>11 DEF LoadSelect
<1>12. CASE Environment \/ UNCHANGED vars
  BY <1>2, <1>12 DEF Environment, Tick, Mine, OperatorResend, vars
<1> QED BY <1>4, <1>5, <1>6, <1>7, <1>8, <1>9, <1>10, <1>11, <1>12 DEF Next, CheckerStep

\* The checker starts with an empty list to measure.
LEMMA InitPanicInv == Init => PanicInv
BY DEF Init, PanicInv, Leaving

\* getByIndex(0) is not called on an empty list (monitor.go:131-133), with any
\* duplicates, resends, repeated raw transactions and faults, as long as no
\* worker takes out of the list, by the id, a request that is not its own
\* (monitor.go:124): that step is the only cause of the panic which the run
\* monitor_panic shows.
THEOREM NoPanicHolds == Spec /\ [][~DeletesOther]_vars => []NoPanic
<1>1. /\ MonitorInv /\ PanicInv /\ [Next]_vars /\ [~DeletesOther]_vars
      => (MonitorInv /\ PanicInv)'
  BY NoOtherNoMixup, NextMonitorInv, NextPanicInv
<1>2. PanicInv => NoPanic
  BY DEF PanicInv, NoPanic
<1> QED BY <1>1, <1>2, InitMonitorInv, InitPanicInv, PTL DEF Spec

\* There is no such step, and no Mixup, where no transaction is handed to the
\* monitor a second time: then the monitor never panics.
THEOREM NoPanicIfHandedOverOnce ==
    ASSUME IsInjective(IdOf)
    PROVE  Spec => []NoPanic /\ [][~Mixup]_listVars
<1> DEFINE Inv == MonitorInv /\ PanicInv /\ DoneAlone
<1>1. Init => Inv
  BY InitMonitorInv, InitPanicInv DEF Init, DoneAlone
<1>2. Inv /\ [Next]_vars => [~Mixup]_listVars
  BY WorkerDeletesNothing, NoOtherNoMixup
<1>3. Inv /\ [Next]_vars => Inv'
  BY <1>2, WorkerDeletesNothing, NextMonitorInv, NextPanicInv, NextDoneAlone
<1>4. Inv => NoPanic
  BY DEF PanicInv, NoPanic
<1> QED BY <1>1, <1>2, <1>3, <1>4, PTL DEF Spec

----------------------------------------------------------------------------
(* The status of a receipt is final for a transaction that is handed over  *)
(* once, whatever happens to others.                                       *)

Receipts == {"confirmed", "failed"}

\* A transaction with the status of its receipt is with nobody who writes
\* another one, and will not be loaded or sent.
Settled(r) ==
    /\ caller[r] \notin {"send", "enter", "add"} /\ ~Held(r)
    /\ caller[r] = "none" => IdOf[r] \notin loadTodo

SettledInv ==
    "applied" \notin DBFaults =>
        \A r \in Request :
            (/\ IdOf[r] \in Id /\ FollowedOnce(IdOf[r])
             /\ status[IdOf[r]] \in Receipts) => Settled(r)

\* Who changes a status: the sender, before it hands the transaction over; a
\* worker, which then comes to delete the request; the checker, when it
\* expires one.
LEMMA StatusWriters ==
    ASSUME MonitorInv, [Next]_vars, "applied" \notin DBFaults,
           NEW i \in Id, i \notin ResendIds, status'[i] # status[i]
    PROVE  \/ /\ status'[i] \in {"sent", "invalid"}
              /\ \E r \in Request : IdOf[r] = i /\ caller[r] = "send"
           \/ \E w \in Worker : /\ IdOf[wreq[w]] = i /\ wpc[w] = "update"
                                /\ wpc'[w] = "delete" /\ wreq'[w] = wreq[w]
           \/ status'[i] = "expired" /\ IdOf[creq] = i /\ cpc = "expire"
<1>0. wpc \in [Worker -> {"receive", "receipt", "update", "delete",
                          "schedule", "add", "len", "signal"}]
  BY DEF MonitorInv, TypeOK
<1>1. ASSUME NEW j, NEW s, NEW ok \in BOOLEAN, UpdateL2TransactionStatus(j, s, ok)
      PROVE  ok /\ i = j /\ status'[i] = s
  BY <1>1 DEF UpdateL2TransactionStatus, Exec
<1>2. ASSUME NEW r \in Request, CallerStep(r)
      PROVE  \E taken, ok \in BOOLEAN : SenderUpdate(r, taken, ok)
  BY <1>2 DEF CallerStep, SenderTakes, LoadNext, AddL2Transaction, CallerAdd, CallerLen,
              CallerSignal
<1>3. ASSUME NEW r \in Request, NEW taken \in BOOLEAN, NEW ok \in BOOLEAN,
             SenderUpdate(r, taken, ok)
      PROVE  status'[i] \in {"sent", "invalid"} /\ IdOf[r] = i /\ caller[r] = "send"
  BY <1>1, <1>3 DEF SenderUpdate, CallerAt
<1>4. ASSUME NEW w \in Worker, WorkerStep(w) PROVE \E ok \in BOOLEAN : WorkerUpdate(w, ok)
  BY <1>4 DEF WorkerStep, WorkerReceive, WorkerReceipt, WorkerDelete, WorkerSchedule,
              WorkerAdd, WorkerLen, WorkerSignal
<1>5. ASSUME NEW w \in Worker, NEW ok \in BOOLEAN, WorkerUpdate(w, ok)
      PROVE  /\ IdOf[wreq[w]] = i /\ wpc[w] = "update"
             /\ wpc'[w] = "delete" /\ wreq'[w] = wreq[w]
  BY <1>0, <1>1, <1>5 DEF WorkerUpdate, WorkerAt, AfterUpdate
<1>6. ASSUME CheckerStep PROVE \E ok \in BOOLEAN : CheckExpire(ok)
  BY <1>6 DEF CheckerStep, CheckLen, CheckGet, CheckRemove, CheckRetry, CheckSleep, CheckWait
<1>7. ASSUME NEW ok \in BOOLEAN, CheckExpire(ok)
      PROVE  status'[i] = "expired" /\ IdOf[creq] = i /\ cpc = "expire"
  BY <1>1, <1>7 DEF CheckExpire
<1>8. ~Environment /\ ~(UNCHANGED vars)
  <2>1. ASSUME NEW j \in ResendIds, OperatorResend(j) PROVE FALSE
    BY <2>1 DEF OperatorResend, RequestResend, MonitorInv, TypeOK
  <2> QED BY <2>1 DEF Environment, Tick, Mine, vars
<1>9. \A r \in Request : ~ChannelSend(r)
  BY DEF ChannelSend
<1>10. \A rows : ~LoadSelect(rows)
  BY DEF LoadSelect
<1> QED BY <1>2, <1>3, <1>4, <1>5, <1>6, <1>7, <1>8, <1>9, <1>10 DEF Next

\* A settled request stays settled.
LEMMA SettledStays ==
    ASSUME MonitorInv, [Next]_vars, NEW r \in Request, IdOf[r] \in Id,
           status[IdOf[r]] \in Receipts, Settled(r)
    PROVE  Settled(r)'
<1> USE DEF callVars, loadVars, CallerAt
<1>0. caller \in [Request -> {"none", "send", "enter", "add", "len", "signal", "returned"}]
  BY DEF MonitorInv, TypeOK
<1>1. ~Held(r)'
  BY NextTraced DEF Settled, Traced, Arriving
<1>2. ASSUME NEW q \in Request, CallerStep(q)
      PROVE  /\ caller'[r] = caller[r] \/ caller'[r] \in {"signal", "returned"}
             /\ loadTodo' \subseteq loadTodo
  <2>1. ASSUME q = r, caller[r] = "none" PROVE FALSE
    BY <1>2, <2>1, PoolDBAssumption
       DEF CallerStep, SenderTakes, SenderUpdate, LoadNext, AddL2Transaction, CallerAdd,
           CallerLen, CallerSignal, Settled, Receipts
  <2>2. ASSUME q = r, caller[r] # "none" PROVE CallerLen(q) \/ CallerSignal(q)
    BY <1>2, <2>2 DEF CallerStep, SenderTakes, SenderUpdate, LoadNext, AddL2Transaction,
                      CallerAdd, Settled
  <2>3. \A p \in Request : p # q => caller'[p] = caller[p]
    BY <1>0, <1>2 DEF CallerStep, SenderTakes, SenderUpdate, LoadNext, AddL2Transaction,
                      CallerAdd, CallerLen, CallerSignal
  <2>4. CallerLen(q) \/ CallerSignal(q) => caller'[q] \in {"signal", "returned"}
    BY <1>0 DEF CallerLen, CallerSignal
  <2>5. loadTodo' \subseteq loadTodo
    BY <1>2 DEF CallerStep, SenderTakes, SenderUpdate, LoadNext, AddL2Transaction,
                CallerAdd, CallerLen, CallerSignal
  <2> QED BY <2>1, <2>2, <2>3, <2>4, <2>5
<1>3. ASSUME NEW rows \in GetL2TransactionsToMonitor, LoadSelect(rows)
      PROVE  caller' = caller /\ IdOf[r] \notin loadTodo'
  <2>1. IdOf[r] \notin rows
    BY DEF GetL2TransactionsToMonitor, GetL2TransactionsByStatus, Receipts
  <2> QED BY <1>3, <2>1 DEF LoadSelect
<1>4. ASSUME NEW q \in Request, ChannelSend(q) PROVE UNCHANGED <<caller, loadTodo>>
  BY <1>4 DEF ChannelSend
<1>5. ASSUME NEW w \in Worker, WorkerStep(w) PROVE UNCHANGED <<caller, loadTodo>>
  BY <1>5 DEF WorkerStep, WorkerReceive, WorkerReceipt, WorkerUpdate, WorkerDelete,
              WorkerSchedule, WorkerAdd, WorkerLen, WorkerSignal
<1>6. ASSUME CheckerStep \/ Environment \/ UNCHANGED vars PROVE UNCHANGED <<caller, loadTodo>>
  BY <1>6 DEF CheckerStep, CheckLen, CheckGet, CheckExpire, CheckRemove, CheckRetry,
              CheckSleep, CheckWait, Environment, Tick, Mine, OperatorResend, vars
<1>7. /\ caller'[r] = caller[r] \/ caller'[r] \in {"signal", "returned"}
      /\ IdOf[r] \in loadTodo' => IdOf[r] \in loadTodo
  BY <1>2, <1>3, <1>4, <1>5, <1>6 DEF Next
<1> QED BY <1>1, <1>7 DEF Settled

\* Every step keeps settled transactions with nobody.
LEMMA NextSettledInv ==
    ASSUME MonitorInv, DoneAlone', SettledInv, [Next]_vars
    PROVE  SettledInv'
<1> SUFFICES ASSUME "applied" \notin DBFaults, NEW r \in Request, IdOf[r] \in Id,
                    FollowedOnce(IdOf[r]), status'[IdOf[r]] \in Receipts
             PROVE  Settled(r)'
  BY DEF SettledInv, FollowedOnce
<1>1. CASE status[IdOf[r]] \in Receipts
  BY <1>1, SettledStays DEF SettledInv
<1>2. CASE status[IdOf[r]] \notin Receipts
  <2>2. PICK w \in Worker : /\ IdOf[wreq[w]] = IdOf[r] /\ wpc[w] = "update"
                            /\ wpc'[w] = "delete" /\ wreq'[w] = wreq[w]
    BY <1>2, StatusWriters DEF Receipts, FollowedOnce
  <2>3. wreq[w] = r
    BY <2>2, WorkerRequest DEF FollowedOnce, MonitorInv
  <2>4. LetGo(r)' /\ ~Held(r)'
    BY <2>2, <2>3 DEF DoneAlone, LetGo, Held, Listed, Queued, Leaving, Working
  <2> QED BY <2>4 DEF Settled, LetGo
<1> QED BY <1>1, <1>2

\* Each transaction that is handed over once and not resent keeps the status of
\* its receipt: no expiry, no late retry and no sender overwrites it
\* (monitor.go:118-124, :135-141), whatever resends, duplicates, id-0 requests
\* and faults there are of other transactions, unless an UPDATE is applied and
\* reported as failed, after which the request is retried and may expire.
THEOREM FinalIsFinalHolds == Spec /\ [][~Mixup]_listVars => FinalIsFinal
<1> DEFINE Kept == \A i \in Id :
                      (/\ FollowedOnce(i) /\ "applied" \notin DBFaults
                       /\ status[i] \in {"confirmed", "failed"}) => status'[i] = status[i]
<1>1. Init => SettledInv
  <2> SUFFICES ASSUME Init PROVE SettledInv
    OBVIOUS
  <2>1. ToSet(requestChan) = {} /\ loadTodo = {}
    BY DEF Init, ToSet
  <2> QED BY <2>1, ListAssumption DEF Init, ListInit, SettledInv, Settled, Held, Listed,
                                     Queued, Leaving, Working
<1>2. MonitorInv /\ DoneAlone' /\ SettledInv /\ [Next]_vars => SettledInv'
  BY NextSettledInv
<1>3. ASSUME MonitorInv, SettledInv, [Next]_vars, NEW i \in Id, FollowedOnce(i),
             "applied" \notin DBFaults, status[i] \in Receipts
      PROVE  status'[i] = status[i]
  <2> SUFFICES ASSUME status'[i] # status[i] PROVE FALSE
    OBVIOUS
  <2>1. ASSUME NEW r \in Request, IdOf[r] = i PROVE caller[r] # "send" /\ ~Held(r)
    BY <1>3, <2>1 DEF SettledInv, Settled
  <2>2. ASSUME NEW w \in Worker, IdOf[wreq[w]] = i, wpc[w] = "update" PROVE FALSE
    <3>1. wreq[w] \in Request
      BY <1>3, <2>2, WorkerRequest DEF MonitorInv
    <3>2. Held(wreq[w])
      BY <2>2 DEF Held, Working
    <3> QED BY <2>1, <2>2, <3>1, <3>2
  <2>3. ASSUME IdOf[creq] = i, cpc = "expire" PROVE FALSE
    <3>1. creq \in Request
      BY <1>3, <2>3, CheckerRequest DEF MonitorInv
    <3>2. Held(creq)
      BY <2>3 DEF Held, Leaving
    <3> QED BY <2>1, <2>3, <3>1, <3>2
  <2>4. i \notin ResendIds
    BY <1>3 DEF FollowedOnce
  <2> QED BY <1>3, <2>1, <2>2, <2>3, <2>4, StatusWriters
<1>4. MonitorInv /\ SettledInv /\ [Next]_vars => [Kept]_vars
  BY <1>3 DEF Receipts
<1> QED BY <1>1, <1>2, <1>4, MonitorInvariant, DoneAloneInvariant, PTL DEF Spec, FinalIsFinal
============================================================================
