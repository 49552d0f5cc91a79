---------------------- MODULE MonitorRefinementProofs ----------------------
(***************************************************************************)
(* The monitor implements Follower and the safety part of WorkQueue, for   *)
(* any number of transactions, requests and workers and any faults of the  *)
(* database.                                                               *)
(***************************************************************************)
EXTENDS MonitorRefinement, MonitorProofs

----------------------------------------------------------------------------
(* The invariant: that of the monitor, and the state of the load.          *)

\* The rows are read before any is added, and the request the load is adding
\* or has added is not one of the sender's.
LoadInv ==
    /\ ~loaded => loadTodo = {}
    /\ loadReq # Nil => caller[loadReq] \notin {"none", "send"}

RefinementInv == MonitorInv /\ LoadInv

\* Every step keeps the state of the load.
LEMMA LoadStep ==
    ASSUME TypeOK, LoadInv, [Next]_vars
    PROVE  LoadInv'
<1> USE DEF callVars, loadVars, CallerAt
<1>0. Nil \notin Request /\ (loadReq # Nil => loadReq \in Request)
  BY ListAssumption DEF TypeOK, Requests
<1>1. ASSUME NEW r \in Request, CallerStep(r) PROVE LoadInv'
  <2>1. ASSUME UNCHANGED loadVars, NEW l, caller' = [caller EXCEPT ![r] = l],
               l \notin {"none", "send"} \/ caller[r] \in {"none", "send"}
        PROVE  LoadInv'
    BY <1>0, <2>1 DEF LoadInv, TypeOK
  <2>2. CASE SenderTakes(r)
    BY <2>1, <2>2 DEF SenderTakes
  <2>3. ASSUME NEW taken \in BOOLEAN, NEW ok \in BOOLEAN, SenderUpdate(r, taken, ok)
        PROVE  LoadInv'
    BY <2>1, <2>3 DEF SenderUpdate
  <2>4. CASE LoadNext(r)
    BY <1>0, <2>4 DEF LoadNext, LoadInv, TypeOK
  <2>5. CASE AddL2Transaction(r)
    BY <2>1, <2>5 DEF AddL2Transaction
  <2>6. CASE CallerAdd(r)
    BY <2>1, <2>6 DEF CallerAdd
  <2>7. CASE CallerLen(r)
    BY <2>1, <2>7 DEF CallerLen
  <2>8. CASE CallerSignal(r)
    BY <2>1, <2>8 DEF CallerSignal
  <2> QED BY <1>1, <2>2, <2>3, <2>4, <2>5, <2>6, <2>7, <2>8 DEF CallerStep
<1>2. ASSUME NEW rows, LoadSelect(rows) PROVE LoadInv'
  BY <1>2 DEF LoadSelect, LoadInv
<1>3. ASSUME UNCHANGED callVars PROVE LoadInv'
  BY <1>3 DEF LoadInv
<1>4. ASSUME NEW r \in Request, ChannelSend(r) PROVE LoadInv'
  BY <1>3, <1>4 DEF ChannelSend
<1>5. ASSUME NEW w \in Worker, WorkerStep(w) PROVE LoadInv'
  BY <1>3, <1>5 DEF WorkerStep, WorkerReceive, WorkerReceipt, WorkerUpdate, WorkerDelete,
                    WorkerSchedule, WorkerAdd, WorkerLen, WorkerSignal
<1>6. CASE CheckerStep
  BY <1>3, <1>6 DEF CheckerStep, CheckLen, CheckGet, CheckExpire, CheckRemove, CheckRetry,
                    CheckSleep, CheckWait
<1>7. CASE Environment
  BY <1>3, <1>7 DEF Environment, Tick, Mine, OperatorResend
<1>8. CASE UNCHANGED vars
  BY <1>3, <1>8 DEF vars
<1> QED BY <1>1, <1>2, <1>4, <1>5, <1>6, <1>7, <1>8 DEF Next

\* The invariant holds for as long as no request is mixed up with its twin.
LEMMA RefinementInvariant == Spec /\ [][~Mixup]_listVars => []RefinementInv
<1>1. Init => RefinementInv
  BY InitMonitorInv DEF RefinementInv, LoadInv, Init
<1>2. RefinementInv /\ [Next]_vars /\ [~Mixup]_listVars => RefinementInv'
  BY NextMonitorInv, LoadStep DEF RefinementInv, MonitorInv
<1> QED BY <1>1, <1>2, PTL DEF Spec

----------------------------------------------------------------------------
(* What is followed.                                                       *)

\* The rows the load has to add and the ids of the requests in hand.
LEMMA FollowingMeans ==
    \A i : i \in Following <=> \/ i \in loadTodo
                             \/ \E r \in Request : IdOf[r] = i /\ InHand(r)
BY DEF Following

\* Requests come in hand and go out of it, but each id keeps one.
LEMMA FollowingSame ==
    ASSUME loadTodo' = loadTodo,
           \A q \in Request : InHand(q)' => \E p \in Request : IdOf[p] = IdOf[q] /\ InHand(p),
           \A q \in Request : InHand(q) => \E p \in Request : IdOf[p] = IdOf[q] /\ InHand(p)'
    PROVE  Following' = Following
<1>1. \A i : i \in Following <=> \/ i \in loadTodo
                               \/ \E r \in Request : IdOf[r] = i /\ InHand(r)
  BY FollowingMeans
<1>2. \A i : i \in Following' <=> \/ i \in loadTodo'
                                \/ \E r \in Request : IdOf[r] = i /\ InHand(r)'
  BY DEF Following
<1> HIDE DEF Following, InHand
<1>3. \A i : i \in Following' <=> i \in Following
  BY <1>1, <1>2
<1> QED BY <1>3

\* A request comes in hand.
LEMMA FollowingMore ==
    ASSUME loadTodo' = loadTodo, NEW r \in Request, InHand(r)',
           \A q \in Request \ {r} : InHand(q)' <=> InHand(q)
    PROVE  Following' = Following \cup {IdOf[r]}
<1>1. \A i : i \in Following <=> \/ i \in loadTodo
                               \/ \E q \in Request : IdOf[q] = i /\ InHand(q)
  BY FollowingMeans
<1>2. \A i : i \in Following' <=> \/ i \in loadTodo'
                                \/ \E q \in Request : IdOf[q] = i /\ InHand(q)'
  BY DEF Following
<1>3. \A i : i \in Following' <=> i \in Following \/ i = IdOf[r]
  BY <1>1, <1>2
<1> QED BY <1>3

\* Only requests for one id go out of hand.
LEMMA FollowingLess ==
    ASSUME loadTodo' = loadTodo, NEW r \in Request,
           \A q \in Request : InHand(q)' => InHand(q),
           \A q \in Request : IdOf[q] # IdOf[r] /\ InHand(q) => InHand(q)'
    PROVE  Following' \in {Following, Following \ {IdOf[r]}}
<1>1. \A i : i \in Following <=> \/ i \in loadTodo
                               \/ \E q \in Request : IdOf[q] = i /\ InHand(q)
  BY FollowingMeans
<1>2. \A i : i \in Following' <=> \/ i \in loadTodo'
                                \/ \E q \in Request : IdOf[q] = i /\ InHand(q)'
  BY DEF Following
<1>3. \A i : i \in Following' => i \in Following
  BY <1>1, <1>2
<1>4. \A i : i \in Following /\ i # IdOf[r] => i \in Following'
  BY <1>1, <1>2
<1>5. CASE IdOf[r] \in Following'
  <2>1. \A i : i \in Following' <=> i \in Following
    BY <1>3, <1>4, <1>5
  <2> QED BY <2>1
<1>6. CASE IdOf[r] \notin Following'
  <2>1. \A i : i \in Following' <=> i \in Following \ {IdOf[r]}
    BY <1>3, <1>4, <1>6
  <2> QED BY <2>1
<1> QED BY <1>5, <1>6

\* An added request is listed, or another one for its id was and is.
LEMMA AddKeepsId ==
    ASSUME ListInv, NEW r \in Request, add(r)
    PROVE  /\ \E p \in Request : IdOf[p] = IdOf[r] /\ Listed(p)'
           /\ \A q \in Request : Listed(q) => Listed(q)'
<1>0. IdOf[r] \in Key /\ Nil \notin Request
  BY ListAssumption
<1>1. CASE list[IdOf[r]] = Nil
  <2>1. list' = [list EXCEPT ![IdOf[r]] = r] /\ list \in [Key -> Request \cup {Nil}]
    BY <1>1 DEF add, ListInv, ListTypeOK
  <2>2. Listed(r)'
    BY <1>0, <2>1 DEF Listed
  <2>3. ASSUME NEW q \in Request, Listed(q) PROVE Listed(q)'
    BY <1>0, <1>1, <2>1, <2>3 DEF Listed
  <2> QED BY <2>2, <2>3
<1>2. CASE list[IdOf[r]] # Nil
  <2>1. list' = list /\ list[IdOf[r]] \in Request /\ IdOf[list[IdOf[r]]] = IdOf[r]
    BY <1>0, <1>2 DEF add, ListInv, ListTypeOK, Consistent
  <2> QED BY <2>1 DEF Listed
<1> QED BY <1>1, <1>2

\* A deletion takes no request for another id from the list.
LEMMA DeleteKeepsOthers ==
    ASSUME ListInv, NEW r \in Request, delete(r), NEW q \in Request, IdOf[q] # IdOf[r],
           Listed(q)
    PROVE  Listed(q)'
<1>0. IdOf[r] \in Key /\ IdOf[q] \in Key
  BY ListAssumption
<1>1. CASE list' = list
  BY <1>1 DEF Listed
<1>2. CASE list[IdOf[r]] # Nil /\ list' = removeKey(list[IdOf[r]])
  <2>1. IdOf[list[IdOf[r]]] = IdOf[r]
    BY <1>0, <1>2 DEF ListInv, Consistent
  <2> QED BY <1>0, <1>2, <2>1 DEF removeKey, Listed, ListInv, ListTypeOK
<1> QED BY <1>1, <1>2 DEF delete

----------------------------------------------------------------------------
(* Who is about to let go of what.                                         *)

\* Nobody starts or ends to let go.
LEMMA ClosingSame ==
    ASSUME \A w \in Worker : /\ wpc'[w] = "delete" <=> wpc[w] = "delete"
                             /\ wpc[w] = "delete" => wreq'[w] = wreq[w],
           cpc' = "remove" <=> cpc = "remove",
           cpc = "remove" => creq' = creq
    PROVE  Closing' = Closing
BY DEF Closing

\* A worker does.
LEMMA ClosingWorker ==
    ASSUME NEW w \in Worker, NEW l,
           IF wpc'[w] = "delete" THEN l = IdOf[wreq'[w]] ELSE l = Nil,
           \A v \in Worker \ {w} : wpc'[v] = wpc[v] /\ wreq'[v] = wreq[v],
           cpc' = cpc, creq' = creq
    PROVE  Closing' = [Closing EXCEPT ![w] = l]
<1>1. w # "checker"
  BY RefinementAssumption
<1> QED BY <1>1 DEF Closing

\* The checker does.
LEMMA ClosingChecker ==
    ASSUME NEW l, IF cpc' = "remove" THEN l = IdOf[creq'] ELSE l = Nil,
           wpc' = wpc, wreq' = wreq
    PROVE  Closing' = [Closing EXCEPT !["checker"] = l]
BY DEF Closing

\* What an agent is about to let go of.
LEMMA ClosingMeans ==
    /\ Closing["checker"] = IF cpc = "remove" THEN IdOf[creq] ELSE Nil
    /\ \A w \in Worker : Closing[w] = IF wpc[w] = "delete" THEN IdOf[wreq[w]] ELSE Nil
BY RefinementAssumption DEF Closing

\* What may be followed are the ids of the requests.
LEMMA KeysFollowed == Key = Abstract!Followed
BY MonitorAssumption DEF Abstract!Followed

\* An update changes the status of one row, or of none.
LEMMA UpdateSets ==
    ASSUME status \in [Id -> Status], NEW i \in Key, NEW s, NEW ok,
           UpdateL2TransactionStatus(i, s, ok)
    PROVE  (i \in Id /\ status' = [status EXCEPT ![i] = s]) \/ status' = status
<1>1. [j \in Id |-> IF j = i THEN s ELSE status[j]]
        = IF i \in Id THEN [status EXCEPT ![i] = s] ELSE status
  OBVIOUS
<1> QED BY <1>1 DEF UpdateL2TransactionStatus, Exec

----------------------------------------------------------------------------
(* Every step of the monitor is one of the follower, or is not seen.       *)

\* The status of a row is set to one that is not final, or nothing changes.
LEMMA StatusFollows ==
    ASSUME NEW i, NEW s \in Status \ Final,
           (i \in Id /\ status' = [status EXCEPT ![i] = s]) \/ status' = status,
           Following' = Following, loaded' = loaded, Closing' = Closing
    PROVE  [Abstract!FollowerNext]_<<status, Abstract!followerVars>>
<1>1. CASE status' = status
  BY <1>1 DEF Abstract!followerVars
<1>2. CASE i \in Id /\ status' = [status EXCEPT ![i] = s]
  <2>1. Abstract!SetStatus(i, s)
    BY <1>2 DEF Abstract!SetStatus, Abstract!followerVars
  <2> QED BY <1>2, <2>1 DEF Abstract!FollowerNext, Abstract!Status, Abstract!Final, Status, Final
<1> QED BY <1>1, <1>2

\* The steps of the calls that hand over a transaction.
LEMMA CallerFollows ==
    ASSUME RefinementInv, NEW r \in Request, CallerStep(r)
    PROVE  [Abstract!FollowerNext]_<<status, Abstract!followerVars>>
<1> USE DEF CallerAt, callVars, loadVars, queueVars, workerVars, checkerVars
<1>0. IdOf[r] \in Key /\ Nil \notin Request /\ r # Nil
  BY ListAssumption, MonitorAssumption
<1>1. /\ TypeOK /\ ListInv /\ status \in [Id -> Status]
      /\ caller \in [Request -> {"none", "send", "enter", "add", "len", "signal", "returned"}]
  BY DEF RefinementInv, MonitorInv, TypeOK
<1>2. ASSUME UNCHANGED <<wpc, wreq, creq>>, cpc' = "remove" <=> cpc = "remove"
      PROVE  Closing' = Closing
  BY <1>2, ClosingSame
<1>3. ASSUME UNCHANGED <<loadTodo, loadReq, list, enqueuing, requestChan, wpc, wreq, creq>>,
             \A q \in Request : Leaving(q)' <=> Leaving(q),
             NEW l, caller' = [caller EXCEPT ![r] = l],
             l \notin {"enter", "add"} \/ (l = "enter" /\ loadReq # r),
             caller[r] \notin {"enter", "add"}
      PROVE  Following' = Following
  <2>1. \A q \in Request : InHand(q)' <=> InHand(q)
    BY <1>1, <1>3 DEF InHand, Listed, Queued, Working
  <2> QED BY <1>3, <2>1, FollowingSame
<1>4. CASE SenderTakes(r)
  <2>1. Following' = Following
    BY <1>3, <1>4 DEF SenderTakes, listVars, Leaving
  <2> QED BY <1>2, <1>4, <2>1 DEF SenderTakes, Abstract!followerVars
<1>5. ASSUME NEW taken \in BOOLEAN, NEW ok \in BOOLEAN, SenderUpdate(r, taken, ok)
      PROVE  [Abstract!FollowerNext]_<<status, Abstract!followerVars>>
  <2> DEFINE s == IF taken THEN "sent" ELSE "invalid"
  <2>1. s \in Status \ Final
    BY DEF Status, Final
  <2>2. \/ IdOf[r] \in Id /\ status' = [status EXCEPT ![IdOf[r]] = s]
        \/ status' = status
    BY <1>0, <1>1, <1>5, UpdateSets DEF SenderUpdate
  <2>3. loadReq # r
    BY <1>0, <1>5 DEF SenderUpdate, RefinementInv, LoadInv
  <2>4. Following' = Following
    BY <1>3, <1>5, <2>3 DEF SenderUpdate, listVars, Leaving
  <2> QED BY <1>0, <1>2, <1>5, <2>1, <2>2, <2>4, StatusFollows DEF SenderUpdate
<1>6. CASE LoadNext(r)
  <2>1. /\ loadTodo' = loadTodo \ {IdOf[r]} /\ loadReq' = r /\ caller[r] = "none"
        /\ caller' = [caller EXCEPT ![r] = "enter"] /\ IdOf[r] \in loadTodo
        /\ loadReq # Nil => caller[loadReq] = "returned"
        /\ UNCHANGED <<listVars, status, loaded, enqueuing, requestChan, wpc, wreq, cpc, creq>>
    BY <1>6 DEF LoadNext
  <2>2. \A q \in Request \ {r} : InHand(q)' <=> InHand(q)
    BY <1>0, <1>1, <2>1 DEF InHand, Listed, Queued, Working, Leaving, listVars
  <2>3. InHand(r)'
    BY <1>1, <2>1 DEF InHand
  <2>4. \A i : i \in Following <=> \/ i \in loadTodo
                                 \/ \E q \in Request : IdOf[q] = i /\ InHand(q)
    BY FollowingMeans
  <2>5. \A i : i \in Following' <=> \/ i \in loadTodo'
                                  \/ \E q \in Request : IdOf[q] = i /\ InHand(q)'
    BY DEF Following
  <2>6. \A i : i \in Following' <=> i \in Following
    BY <2>1, <2>2, <2>3, <2>4, <2>5
  <2>7. Following' = Following
    BY <2>6
  <2> QED BY <1>2, <2>1, <2>7 DEF Abstract!followerVars
<1>7. CASE AddL2Transaction(r)
  <2>1. /\ UNCHANGED <<list, status, loaded, loadTodo, loadReq, requestChan, wpc, wreq, cpc, creq>>
        /\ \/ caller' = [caller EXCEPT ![r] = "add"] /\ enqueuing' = enqueuing
           \/ caller' = [caller EXCEPT ![r] = "returned"] /\ enqueuing' = enqueuing \cup {r}
    BY <1>7 DEF AddL2Transaction, enqueueMonitorRequest
  <2>2. InHand(r)'
    BY <1>1, <2>1 DEF InHand, Queued
  <2>3. \A q \in Request \ {r} : InHand(q)' <=> InHand(q)
    BY <1>1, <2>1 DEF InHand, Listed, Queued, Working, Leaving
  <2>4. Following' = Following \cup {IdOf[r]}
    BY <2>1, <2>2, <2>3, FollowingMore
  <2>5. Abstract!Follow(IdOf[r])
    BY <1>2, <2>1, <2>4 DEF Abstract!Follow
  <2> QED BY <1>0, <2>5, KeysFollowed DEF Abstract!FollowerNext
<1>8. CASE CallerAdd(r)
  <2>1. /\ add(r) /\ caller[r] = "add" /\ caller' = [caller EXCEPT ![r] = "len"]
        /\ UNCHANGED <<status, loaded, loadTodo, loadReq, enqueuing, requestChan,
                       wpc, wreq, cpc, creq>>
    BY <1>8 DEF CallerAdd, addRequestToRetryList
  <2>2. \A q \in Request : Listed(q)' => Listed(q) \/ q = r
    BY <1>1, <2>1, AddLists DEF ListInv
  <2>3. /\ \E p \in Request : IdOf[p] = IdOf[r] /\ Listed(p)'
        /\ \A q \in Request : Listed(q) => Listed(q)'
    BY <1>1, <2>1, AddKeepsId
  <2>4. \A q \in Request \ {r} : InHand(q)' <=> InHand(q)
    BY <1>1, <2>1, <2>2, <2>3 DEF InHand, Queued, Working, Leaving
  <2>5. InHand(r) /\ \A p \in Request : Listed(p)' => InHand(p)'
    BY <2>1 DEF InHand
  <2>6. Following' = Following
    BY <2>1, <2>3, <2>4, <2>5, FollowingSame
  <2> QED BY <1>2, <2>1, <2>6 DEF Abstract!followerVars
<1>9. CASE CallerLen(r)
  <2>1. Following' = Following
    BY <1>3, <1>9 DEF CallerLen, listVars, Leaving
  <2> QED BY <1>2, <1>9, <2>1 DEF CallerLen, Abstract!followerVars
<1>10. CASE CallerSignal(r)
  <2>1. \A q \in Request : Leaving(q)' <=> Leaving(q)
    BY <1>10 DEF CallerSignal, Signal, Leaving
  <2>2. Following' = Following
    BY <1>3, <1>10, <2>1 DEF CallerSignal, listVars
  <2>3. Closing' = Closing
    BY <1>2, <1>10 DEF CallerSignal, Signal
  <2> QED BY <1>10, <2>2, <2>3 DEF CallerSignal, Abstract!followerVars
<1> QED BY <1>4, <1>5, <1>6, <1>7, <1>8, <1>9, <1>10 DEF CallerStep

\* The goroutine of a request puts it in the channel.
LEMMA ChannelFollows ==
    ASSUME RefinementInv, NEW r \in Request, ChannelSend(r)
    PROVE  UNCHANGED <<status, Abstract!followerVars>>
<1>1. /\ r \in enqueuing /\ enqueuing' = enqueuing \ {r}
      /\ requestChan' = Append(requestChan, r) /\ r \notin ToSet(requestChan)
      /\ requestChan \in Seq(Request) /\ IsInjective(requestChan)
      /\ UNCHANGED <<list, status, caller, loaded, loadTodo, loadReq, wpc, wreq, cpc, creq>>
  BY DEF ChannelSend, RefinementInv, MonitorInv, TypeOK, Custody, SoleCustody, listVars,
         callVars, loadVars, workerVars, checkerVars
<1>2. ToSet(requestChan') = ToSet(requestChan) \cup {r}
  BY <1>1, SendProperty
<1>3. \A q \in Request : Queued(q)' <=> Queued(q)
  BY <1>1, <1>2 DEF Queued
<1>4. \A q \in Request : InHand(q)' <=> InHand(q)
  BY <1>1, <1>3 DEF InHand, Listed, Working, Leaving
<1>5. Following' = Following
  BY <1>1, <1>4, FollowingSame
<1>6. Closing' = Closing
  BY <1>1, ClosingSame
<1> QED BY <1>1, <1>5, <1>6 DEF Abstract!followerVars

\* A worker that has a request follows its transaction.
LEMMA WorkerInHand ==
    ASSUME RefinementInv, NEW w \in Worker,
           wpc[w] \in {"receipt", "update", "schedule", "add", "delete"}
    PROVE  /\ wreq[w] \in Request /\ IdOf[wreq[w]] \in Key
           /\ InHand(wreq[w]) /\ IdOf[wreq[w]] \in Following
<1>1. wreq[w] \in Request /\ IdOf[wreq[w]] \in Key
  BY WorkerRequest, ListAssumption, MonitorAssumption DEF RefinementInv, MonitorInv
<1>2. InHand(wreq[w])
  BY DEF InHand, Working
<1> QED BY <1>1, <1>2, FollowingMeans

\* The steps of a worker.
LEMMA WorkerFollows ==
    ASSUME RefinementInv, NEW w \in Worker, WorkerStep(w)
    PROVE  [Abstract!FollowerNext]_<<status, Abstract!followerVars>>
<1> USE DEF WorkerAt, callVars, loadVars, queueVars, workerVars, checkerVars
<1>1. /\ TypeOK /\ ListInv /\ status \in [Id -> Status] /\ wreq \in [Worker -> Requests]
      /\ wpc \in [Worker -> {"receive", "receipt", "update", "delete",
                               "schedule", "add", "len", "signal"}]
  BY DEF RefinementInv, MonitorInv, TypeOK
<1> DEFINE Busy == {"receipt", "update", "schedule", "add"}
\* A worker goes on with its request, or has none before and after.
<1>2. ASSUME UNCHANGED <<list, caller, loadTodo, loadReq, enqueuing, requestChan>>,
             \A q \in Request : Leaving(q)' <=> Leaving(q),
             \A v \in Worker \ {w} : wpc'[v] = wpc[v] /\ wreq'[v] = wreq[v],
             \/ wpc[w] \in Busy /\ wpc'[w] \in Busy \cup {"delete"} /\ wreq'[w] = wreq[w]
             \/ wpc[w] \in {"len", "signal"} /\ wpc'[w] \in {"len", "signal", "receive"}
      PROVE  Following' = Following
  <2>1. \A q \in Request, v \in Worker :
           (Working(v, q) \/ (wreq[v] = q /\ wpc[v] = "delete"))'
              <=> (Working(v, q) \/ (wreq[v] = q /\ wpc[v] = "delete"))
    BY <1>2 DEF Working
  <2>2. \A q \in Request : InHand(q)' <=> InHand(q)
    BY <1>2, <2>1 DEF InHand, Listed, Queued
  <2> QED BY <1>2, <2>2, FollowingSame
<1>3. ASSUME UNCHANGED creq, cpc' = "remove" <=> cpc = "remove",
             \A v \in Worker \ {w} : wpc'[v] = wpc[v] /\ wreq'[v] = wreq[v],
             wpc[w] # "delete" /\ wpc'[w] # "delete"
      PROVE  Closing' = Closing
  BY <1>3, ClosingSame
<1>4. CASE WorkerReceive(w)
  <2>1. /\ wpc[w] = "receive" /\ wpc' = [wpc EXCEPT ![w] = "receipt"] /\ requestChan # <<>>
        /\ wreq' = [wreq EXCEPT ![w] = Head(requestChan)] /\ requestChan' = Tail(requestChan)
        /\ requestChan \in Seq(Request) /\ IsInjective(requestChan)
        /\ UNCHANGED <<list, status, caller, loaded, loadTodo, loadReq, enqueuing, cpc, creq>>
    BY <1>4 DEF WorkerReceive, RefinementInv, MonitorInv, TypeOK, Custody, SoleCustody, listVars
  <2>2. /\ Head(requestChan) \in Request
        /\ ToSet(requestChan) = ToSet(requestChan') \cup {Head(requestChan)}
    BY <2>1, ReceiveProperty
  <2>3. /\ wpc'[w] = "receipt" /\ wreq'[w] = Head(requestChan)
        /\ \A v \in Worker \ {w} : wpc'[v] = wpc[v] /\ wreq'[v] = wreq[v]
    BY <1>1, <2>1
  <2>4. ASSUME NEW q \in Request PROVE InHand(q)' <=> InHand(q)
    <3>1. \A v \in Worker \ {w} : Working(v, q)' <=> Working(v, q)
      BY <2>3 DEF Working
    <3>2. Working(w, q)' <=> q = Head(requestChan)
      BY <2>3 DEF Working
    <3>3. ~Working(w, q)
      BY <2>1 DEF Working
    <3>4. Queued(q) <=> Queued(q)' \/ q = Head(requestChan)
      BY <2>1, <2>2 DEF Queued
    <3> QED BY <2>1, <2>3, <3>1, <3>2, <3>3, <3>4 DEF InHand, Listed, Leaving
  <2>5. Following' = Following
    BY <2>1, <2>4, FollowingSame
  <2>6. Closing' = Closing
    BY <1>3, <2>1, <2>3
  <2> QED BY <2>1, <2>5, <2>6 DEF Abstract!followerVars
<1>5. CASE WorkerReceipt(w)
  <2>1. /\ wpc[w] = "receipt" /\ wpc'[w] \in {"update", "schedule"} /\ wreq' = wreq
        /\ \A v \in Worker \ {w} : wpc'[v] = wpc[v]
        /\ UNCHANGED <<list, status, caller, loaded, loadTodo, loadReq, enqueuing,
                       requestChan, cpc, creq>>
    BY <1>1, <1>5 DEF WorkerReceipt, listVars
  <2>2. Following' = Following /\ Closing' = Closing
    BY <1>2, <1>3, <2>1 DEF Leaving
  <2> QED BY <2>1, <2>2 DEF Abstract!followerVars
<1>6. ASSUME NEW ok \in BOOLEAN, WorkerUpdate(w, ok)
      PROVE  [Abstract!FollowerNext]_<<status, Abstract!followerVars>>
  <2>1. /\ wpc[w] = "update" /\ wpc' = [wpc EXCEPT ![w] = AfterUpdate(ok)] /\ wreq' = wreq
        /\ UpdateL2TransactionStatus(IdOf[wreq[w]], wstatus[w], ok)
        /\ UNCHANGED <<list, caller, loaded, loadTodo, loadReq, enqueuing,
                       requestChan, cpc, creq>>
    BY <1>6 DEF WorkerUpdate, listVars
  <2>2. PICK i \in Key : i = IdOf[wreq[w]] /\ i \in Following
    BY <2>1, WorkerInHand
  <2>3. PICK s \in {"confirmed", "failed"} : s = wstatus[w]
    BY <1>1, <2>1 DEF TypeOK
  <2>4. Following' = Following
    BY <1>1, <1>2, <2>1 DEF AfterUpdate, Leaving
  <2>5. Closing' = IF ok THEN [Closing EXCEPT ![w] = i] ELSE Closing
    <3>1. CASE ok
      BY <1>1, <2>1, <2>2, <3>1, ClosingWorker DEF AfterUpdate
    <3>2. CASE ~ok
      BY <1>1, <1>3, <2>1, <3>2 DEF AfterUpdate
    <3> QED BY <3>1, <3>2
  <2>6. Closing[w] = Nil
    BY <2>1, ClosingMeans
  <2>7. Abstract!UpdateL2TransactionStatus(i, s, ok)
    BY <2>1, <2>2, <2>3 DEF UpdateL2TransactionStatus, Exec,
                            Abstract!UpdateL2TransactionStatus, Abstract!Exec
  <2>8. Abstract!Settle(w, i, s, ok)
    BY <2>1, <2>2, <2>4, <2>5, <2>6, <2>7 DEF Abstract!Settle
  <2> QED BY <2>8, KeysFollowed DEF Abstract!FollowerNext
<1>7. CASE WorkerDelete(w)
  <2>1. /\ wpc[w] = "delete" /\ wpc' = [wpc EXCEPT ![w] = "receive"] /\ delete(wreq[w])
        /\ wreq' = [wreq EXCEPT ![w] = Nil]
        /\ UNCHANGED <<status, caller, loaded, loadTodo, loadReq, enqueuing,
                       requestChan, cpc, creq>>
    BY <1>7 DEF WorkerDelete, Receive
  <2>2. PICK r \in Request : r = wreq[w] /\ IdOf[r] \in Key
    BY <2>1, WorkerInHand
  <2>3. /\ wpc'[w] = "receive" /\ wreq'[w] = Nil
        /\ \A v \in Worker \ {w} : wpc'[v] = wpc[v] /\ wreq'[v] = wreq[v]
    BY <1>1, <2>1
  <2>4. ASSUME NEW q \in Request PROVE InHand(q)' => InHand(q)
    <3>1. Listed(q)' => Listed(q)
      BY <1>1, <2>1, <2>2, DeleteLists DEF ListInv
    <3> QED BY <2>1, <2>3, <3>1 DEF InHand, Queued, Leaving, Working
  <2>5. ASSUME NEW q \in Request, IdOf[q] # IdOf[r], InHand(q) PROVE InHand(q)'
    <3>1. Listed(q) => Listed(q)'
      BY <1>1, <2>1, <2>2, <2>5, DeleteKeepsOthers
    <3>2. wreq[w] # q
      BY <2>2, <2>5
    <3> QED BY <2>1, <2>3, <2>5, <3>1, <3>2 DEF InHand, Queued, Leaving, Working
  <2>6. Following' \in {Following, Following \ {IdOf[r]}}
    BY <2>1, <2>4, <2>5, FollowingLess
  <2>7. Closing[w] = IdOf[r] /\ IdOf[r] # Nil
    BY <2>1, <2>2, ClosingMeans, RefinementAssumption
  <2>8. Closing' = [Closing EXCEPT ![w] = Nil]
    BY <2>1, <2>3, ClosingWorker
  <2>9. Abstract!Forget(w)
    BY <2>1, <2>6, <2>7, <2>8 DEF Abstract!Forget
  <2> QED BY <2>9 DEF Abstract!FollowerNext, Abstract!Agent
<1>8. CASE WorkerSchedule(w)
  <2>1. /\ wpc[w] = "schedule" /\ wpc'[w] = "add" /\ wreq' = wreq
        /\ \A v \in Worker \ {w} : wpc'[v] = wpc[v]
        /\ UNCHANGED <<list, status, caller, loaded, loadTodo, loadReq, enqueuing,
                       requestChan, cpc, creq>>
    BY <1>1, <1>8 DEF WorkerSchedule
  <2>2. Following' = Following /\ Closing' = Closing
    BY <1>2, <1>3, <2>1 DEF Leaving
  <2> QED BY <2>1, <2>2 DEF Abstract!followerVars
<1>9. CASE WorkerAdd(w)
  <2>1. /\ wpc[w] = "add" /\ wpc' = [wpc EXCEPT ![w] = "len"] /\ wreq' = wreq /\ add(wreq[w])
        /\ UNCHANGED <<status, caller, loaded, loadTodo, loadReq, enqueuing,
                       requestChan, cpc, creq>>
    BY <1>9 DEF WorkerAdd, addRequestToRetryList
  <2>2. PICK r \in Request : r = wreq[w] /\ InHand(r)
    BY <2>1, WorkerInHand
  <2>3. wpc'[w] = "len" /\ \A v \in Worker \ {w} : wpc'[v] = wpc[v]
    BY <1>1, <2>1
  <2>4. \A q \in Request : Listed(q)' => Listed(q) \/ q = r
    BY <1>1, <2>1, <2>2, AddLists DEF ListInv
  <2>5. /\ \E p \in Request : IdOf[p] = IdOf[r] /\ Listed(p)'
        /\ \A q \in Request : Listed(q) => Listed(q)'
    BY <1>1, <2>1, <2>2, AddKeepsId
  <2>6. ASSUME NEW q \in Request \ {r} PROVE InHand(q)' <=> InHand(q)
    <3>1. \A v \in Worker :
             (Working(v, q) \/ (wreq[v] = q /\ wpc[v] = "delete"))'
                <=> (Working(v, q) \/ (wreq[v] = q /\ wpc[v] = "delete"))
      BY <2>1, <2>2, <2>3 DEF Working
    <3> QED BY <2>1, <2>4, <2>5, <3>1 DEF InHand, Queued, Leaving
  <2>7. \A p \in Request : Listed(p)' => InHand(p)'
    BY DEF InHand
  <2>8. Following' = Following
    BY <2>1, <2>2, <2>5, <2>6, <2>7, FollowingSame
  <2>9. Closing' = Closing
    BY <1>3, <2>1, <2>3
  <2> QED BY <2>1, <2>8, <2>9 DEF Abstract!followerVars
<1>10. CASE WorkerLen(w) \/ WorkerSignal(w)
  <2>1. /\ wpc[w] \in {"len", "signal"} /\ wpc'[w] \in {"signal", "receive"}
        /\ \A v \in Worker \ {w} : wpc'[v] = wpc[v] /\ wreq'[v] = wreq[v]
        /\ cpc' = cpc \/ (cpc = "waiting" /\ cpc' = "len")
        /\ UNCHANGED <<list, status, caller, loaded, loadTodo, loadReq, enqueuing,
                       requestChan, creq>>
    BY <1>1, <1>10 DEF WorkerLen, WorkerSignal, Receive, Signal, listVars
  <2>2. \A q \in Request : Leaving(q)' <=> Leaving(q)
    BY <2>1 DEF Leaving
  <2>3. Following' = Following /\ Closing' = Closing
    BY <1>2, <1>3, <2>1, <2>2
  <2> QED BY <2>1, <2>3 DEF Abstract!followerVars
<1> QED BY <1>4, <1>5, <1>6, <1>7, <1>8, <1>9, <1>10 DEF WorkerStep

\* The steps of checkMonitorRequestRetries.
LEMMA CheckerFollows ==
    ASSUME RefinementInv, CheckerStep
    PROVE  [Abstract!FollowerNext]_<<status, Abstract!followerVars>>
<1> USE DEF callVars, loadVars, queueVars, workerVars, checkerVars
<1> DEFINE Others == <<caller, loaded, loadTodo, loadReq, requestChan, wpc, wreq>>
<1>0. TypeOK /\ ListInv /\ Nil \notin Request
  BY ListAssumption DEF RefinementInv, MonitorInv
<1>1. ASSUME UNCHANGED <<list, enqueuing, Others>>,
             \A q \in Request : Leaving(q) => Leaving(q)',
             \A q \in Request : Leaving(q)' => Leaving(q) \/ Listed(q)
      PROVE  Following' = Following
  <2>1. \A q \in Request : InHand(q)' <=> InHand(q)
    BY <1>1 DEF InHand, Listed, Queued, Working
  <2> QED BY <1>1, <2>1, FollowingSame
<1>2. ASSUME UNCHANGED Others, cpc # "remove" /\ cpc' # "remove" PROVE Closing' = Closing
  BY <1>2, ClosingSame
<1>3. CASE CheckLen \/ CheckWait \/ CheckSleep
  <2>1. /\ UNCHANGED <<list, enqueuing, Others>> /\ status' = status
        /\ cpc \in {"len", "wait", "sleep"} /\ cpc' \in {"get", "wait", "waiting", "len"}
    BY <1>3 DEF CheckLen, CheckWait, CheckSleep, listVars
  <2>2. Following' = Following
    BY <1>1, <2>1 DEF Leaving
  <2>3. Closing' = Closing
    BY <1>2, <2>1
  <2> QED BY <2>1, <2>2, <2>3 DEF Abstract!followerVars
<1>4. CASE CheckGet
  <2>1. /\ UNCHANGED <<list, enqueuing, Others>> /\ status' = status /\ cpc = "get"
        /\ \/ cpc' = "panic"
           \/ /\ cpc' \in {"expire", "retry", "sleep"} /\ sorted # <<>>
              /\ creq' = Head(sorted)
    BY <1>4 DEF CheckGet, listVars
  <2>2. sorted # <<>> => Listed(Head(sorted))
    BY <1>0, HeadOfList
  <2>3. Following' = Following
    BY <1>1, <2>1, <2>2 DEF Leaving
  <2>4. Closing' = Closing
    BY <1>2, <2>1
  <2> QED BY <2>1, <2>3, <2>4 DEF Abstract!followerVars
<1>5. ASSUME NEW ok \in BOOLEAN, CheckExpire(ok)
      PROVE  [Abstract!FollowerNext]_<<status, Abstract!followerVars>>
  <2>1. /\ UNCHANGED <<list, enqueuing, Others>> /\ cpc = "expire" /\ cpc' = "remove"
        /\ creq' = creq /\ UpdateL2TransactionStatus(IdOf[creq], "expired", ok)
    BY <1>5 DEF CheckExpire, listVars
  <2>2. creq \in Request /\ IdOf[creq] \in Key
    BY <1>0, <2>1, CheckerRequest, ListAssumption, MonitorAssumption
  <2>3. InHand(creq)
    BY <2>1 DEF InHand, Leaving
  <2>4. PICK i \in Key : i = IdOf[creq] /\ i \in Following
    BY <2>2, <2>3, FollowingMeans
  <2>5. Following' = Following
    BY <1>1, <2>1 DEF Leaving
  <2>6. Closing["checker"] = Nil
    BY <2>1, ClosingMeans
  <2>7. Closing' = [Closing EXCEPT !["checker"] = i]
    BY <2>1, <2>4, ClosingChecker
  <2>8. Abstract!UpdateL2TransactionStatus(i, "expired", ok)
    BY <2>1, <2>4 DEF UpdateL2TransactionStatus, Exec,
                      Abstract!UpdateL2TransactionStatus, Abstract!Exec
  <2>9. Abstract!Expire("checker", i, ok)
    BY <2>1, <2>4, <2>5, <2>6, <2>7, <2>8 DEF Abstract!Expire
  <2> QED BY <2>9, KeysFollowed DEF Abstract!FollowerNext
<1>6. CASE CheckRemove
  <2>1. /\ UNCHANGED <<enqueuing, Others>> /\ cpc = "remove" /\ cpc' = "len"
        /\ status' = status /\ delete(creq)
    BY <1>6 DEF CheckRemove
  <2>2. PICK r \in Request : r = creq /\ IdOf[r] \in Key
    BY <1>0, <2>1, CheckerRequest, ListAssumption, MonitorAssumption
  <2>3. ASSUME NEW q \in Request PROVE InHand(q)' => InHand(q)
    <3>1. Listed(q)' => Listed(q)
      BY <1>0, <2>1, <2>2, DeleteLists DEF ListInv
    <3> QED BY <2>1, <3>1 DEF InHand, Queued, Leaving, Working
  <2>4. ASSUME NEW q \in Request, IdOf[q] # IdOf[r], InHand(q) PROVE InHand(q)'
    <3>1. Listed(q) => Listed(q)'
      BY <1>0, <2>1, <2>2, <2>4, DeleteKeepsOthers
    <3> QED BY <2>1, <2>2, <2>4, <3>1 DEF InHand, Queued, Leaving, Working
  <2>5. Following' \in {Following, Following \ {IdOf[r]}}
    BY <2>1, <2>3, <2>4, FollowingLess
  <2>6. Closing["checker"] = IdOf[r] /\ IdOf[r] # Nil
    BY <2>1, <2>2, ClosingMeans, RefinementAssumption
  <2>7. Closing' = [Closing EXCEPT !["checker"] = Nil]
    BY <2>1, ClosingChecker
  <2>8. Abstract!Forget("checker")
    BY <2>1, <2>5, <2>6, <2>7 DEF Abstract!Forget
  <2> QED BY <2>8 DEF Abstract!FollowerNext, Abstract!Agent
<1>7. CASE CheckRetry
  <2>1. /\ UNCHANGED Others /\ cpc = "retry" /\ cpc' = "len" /\ status' = status
        /\ delete(creq) /\ enqueuing' = enqueuing \cup {creq}
    BY <1>7 DEF CheckRetry, enqueueMonitorRequest
  <2>2. PICK r \in Request : r = creq
    BY <1>0, <2>1, CheckerRequest
  <2>3. InHand(r) /\ InHand(r)'
    BY <2>1, <2>2 DEF InHand, Leaving, Queued
  <2>4. ASSUME NEW q \in Request \ {r} PROVE InHand(q)' => InHand(q)
    <3>1. Listed(q)' => Listed(q)
      BY <1>0, <2>1, <2>2, DeleteLists DEF ListInv
    <3> QED BY <2>1, <2>2, <3>1 DEF InHand, Queued, Leaving, Working
  <2>5. ASSUME NEW q \in Request, IdOf[q] # IdOf[r], InHand(q) PROVE InHand(q)'
    <3>1. Listed(q) => Listed(q)'
      BY <1>0, <2>1, <2>2, <2>5, DeleteKeepsOthers
    <3> QED BY <2>1, <2>2, <2>5, <3>1 DEF InHand, Queued, Leaving, Working
  <2>6. Following' = Following
    BY <2>1, <2>3, <2>4, <2>5, FollowingSame
  <2>7. Closing' = Closing
    BY <1>2, <2>1
  <2> QED BY <2>1, <2>6, <2>7 DEF Abstract!followerVars
<1> QED BY <1>3, <1>4, <1>5, <1>6, <1>7 DEF CheckerStep

\* The load reads the rows, the clock, the node and the operator go on.
LEMMA OtherFollows ==
    ASSUME RefinementInv,
           \/ \E rows \in GetL2TransactionsToMonitor : LoadSelect(rows)
           \/ Environment
           \/ UNCHANGED vars
    PROVE  [Abstract!FollowerNext]_<<status, Abstract!followerVars>>
<1> USE DEF callVars, loadVars, queueVars, workerVars, checkerVars, listVars
<1> DEFINE Others == <<list, caller, loadReq, enqueuing, requestChan, wpc, wreq, cpc, creq>>
<1>1. ASSUME UNCHANGED Others
      PROVE  /\ Closing' = Closing
             /\ \A q \in Request : InHand(q)' <=> InHand(q)
  BY <1>1, ClosingSame DEF InHand, Listed, Queued, Leaving, Working
<1>2. ASSUME UNCHANGED <<Others, loadTodo>> PROVE Following' = Following /\ Closing' = Closing
  BY <1>1, <1>2, FollowingSame
<1>3. ASSUME NEW rows \in GetL2TransactionsToMonitor, LoadSelect(rows)
      PROVE  Abstract!FollowerNext
  <2>1. /\ UNCHANGED <<Others, status>> /\ ~loaded /\ loaded' = TRUE /\ loadTodo' = rows
        /\ loadTodo = {}
    BY <1>3 DEF LoadSelect, RefinementInv, LoadInv
  <2>2. \A i : i \in Following <=> \/ i \in loadTodo
                                 \/ \E r \in Request : IdOf[r] = i /\ InHand(r)
    BY FollowingMeans
  <2>3. \A i : i \in Following' <=> \/ i \in loadTodo'
                                  \/ \E r \in Request : IdOf[r] = i /\ InHand(r)'
    BY DEF Following
  <2>4. \A i : i \in Following' <=> i \in Following \cup rows
    BY <1>1, <2>1, <2>2, <2>3
  <2>5. Following' = Following \cup rows
    BY <2>4
  <2>6. rows \in Abstract!GetL2TransactionsToMonitor /\ rows \in SUBSET Id
    BY DEF GetL2TransactionsToMonitor, GetL2TransactionsByStatus,
           Abstract!GetL2TransactionsToMonitor, Abstract!GetL2TransactionsByStatus
  <2>7. Abstract!LoadSent(rows)
    BY <1>1, <2>1, <2>5, <2>6 DEF Abstract!LoadSent
  <2> QED BY <2>6, <2>7 DEF Abstract!FollowerNext
<1>4. CASE Tick \/ \E h \in Hash, s \in {"confirmed", "failed"} : Mine(h, s)
  <2>1. UNCHANGED <<Others, loadTodo, loaded, status>>
    BY <1>4 DEF Tick, Mine
  <2> QED BY <1>2, <2>1 DEF Abstract!followerVars
<1>5. ASSUME NEW i \in ResendIds, OperatorResend(i)
      PROVE  [Abstract!FollowerNext]_<<status, Abstract!followerVars>>
  <2>1. /\ UNCHANGED <<Others, loadTodo, loaded>>
        /\ status' = [status EXCEPT ![i] = "resend"]
    BY <1>5 DEF OperatorResend, RequestResend
  <2>2. i \in Id /\ "resend" \in Status \ Final
    BY MonitorAssumption DEF Status, Final
  <2> QED BY <1>2, <2>1, <2>2, StatusFollows
<1>6. CASE UNCHANGED vars
  <2>1. UNCHANGED <<Others, loadTodo, loaded, status>>
    BY <1>6 DEF vars
  <2> QED BY <1>2, <2>1 DEF Abstract!followerVars
<1> QED BY <1>3, <1>4, <1>5, <1>6 DEF Environment

\* The monitor follows what it is handed and what it loads, and lets go of a
\* transaction only after it has written the status of a receipt or has tried
\* to write expired (monitor.go:118-124, :135-141, :161-169).
THEOREM FollowsHolds == Spec /\ [][~Mixup]_listVars => Follows
<1>1. Init => Abstract!FollowerInit
  <2> SUFFICES ASSUME Init PROVE Abstract!FollowerInit
    OBVIOUS
  <2>1. /\ loaded = FALSE /\ loadTodo = {} /\ cpc = "len" /\ loadReq = Nil
        /\ requestChan = <<>> /\ ToSet(requestChan) = {}
    BY DEF Init, ToSet
  <2>2. \A q \in Request : ~InHand(q)
    BY <2>1, ListAssumption DEF Init, ListInit, InHand, Listed, Queued, Leaving, Working
  <2>3. Following = {}
    BY <2>1, <2>2 DEF Following
  <2>4. Closing = [a \in Worker \cup {"checker"} |-> Nil]
    BY <2>1 DEF Init, Closing
  <2> QED BY <2>1, <2>3, <2>4 DEF Abstract!FollowerInit, Abstract!Agent
<1>2. ASSUME RefinementInv, [Next]_vars
      PROVE  [Abstract!FollowerNext]_<<status, Abstract!followerVars>>
  BY <1>2, CallerFollows, ChannelFollows, WorkerFollows, CheckerFollows, OtherFollows DEF Next
<1> QED BY <1>1, <1>2, RefinementInvariant, PTL DEF Spec, Follows, Abstract!FollowerSpec

----------------------------------------------------------------------------
(* The queue of the monitor implements WorkQueue.                          *)

\* A step that moves no request to or from the queue or a worker.
LEMMA QuietQueue ==
    ASSUME UNCHANGED <<enqueuing, requestChan>>,
           \A w \in Worker : /\ Working(w, wreq[w])' <=> Working(w, wreq[w])
                             /\ Working(w, wreq[w]) => wreq'[w] = wreq[w]
    PROVE  UNCHANGED Queue!vars
BY DEF Queue!vars

\* Nothing that leaves the queue and the workers alone is seen.
LEMMA UnseenQueue ==
    ASSUME UNCHANGED <<enqueuing, requestChan, wpc, wreq>>
    PROVE  UNCHANGED Queue!vars
BY QuietQueue DEF Working

\* A request that is neither queued nor with a worker is submitted.
LEMMA SubmitQueue ==
    ASSUME NEW r \in Request, ~Queued(r), \A w \in Worker : ~Working(w, r),
           enqueuing' = enqueuing \cup {r}, UNCHANGED <<requestChan, wpc, wreq>>
    PROVE  Queue!Next
<1>1. r # Nil
  BY ListAssumption
<1>2. Queue!Submit(r)
  BY <1>1 DEF Queue!Submit, Queued, Working
<1> QED BY <1>2 DEF Queue!Next

\* A worker takes a request and is done with it.
LEMMA WorkerQueue ==
    ASSUME MonitorInv, NEW w \in Worker, WorkerStep(w)
    PROVE  [Queue!Next]_(Queue!vars)
<1> USE DEF WorkerAt, queueVars, workerVars
<1> DEFINE Busy == {"receipt", "update", "schedule", "add"}
           b == [v \in Worker |-> IF Working(v, wreq[v]) THEN wreq[v] ELSE Nil]
<1>1. /\ wreq \in [Worker -> Requests] /\ requestChan \in Seq(Request)
      /\ wpc \in [Worker -> {"receive", "receipt", "update", "delete",
                               "schedule", "add", "len", "signal"}]
      /\ IsInjective(requestChan)
  BY DEF MonitorInv, TypeOK, Custody, SoleCustody
<1>2. CASE WorkerReceive(w)
  <2>1. /\ wpc[w] = "receive" /\ wpc' = [wpc EXCEPT ![w] = "receipt"] /\ requestChan # <<>>
        /\ wreq' = [wreq EXCEPT ![w] = Head(requestChan)] /\ requestChan' = Tail(requestChan)
        /\ UNCHANGED enqueuing
    BY <1>2 DEF WorkerReceive
  <2>2. PICK r \in Request : /\ r = Head(requestChan) /\ r \in ToSet(requestChan)
                             /\ ToSet(requestChan') = ToSet(requestChan) \ {r}
    BY <1>1, <2>1, ReceiveProperty
  <2>3. r \notin enqueuing
    BY <2>2 DEF MonitorInv, Custody, SoleCustody
  <2>4. b[w] = Nil
    BY <2>1 DEF Working
  <2>5. b' = [b EXCEPT ![w] = r]
    BY <1>1, <2>1, <2>2 DEF Working
  <2>6. Queue!Take(w, r)
    BY <2>1, <2>2, <2>3, <2>4, <2>5 DEF Queue!Take
  <2> QED BY <2>6 DEF Queue!Next
<1>3. ASSUME wpc[w] \in Busy, wpc'[w] \notin Busy, UNCHANGED <<enqueuing, requestChan>>,
             \A v \in Worker \ {w} : wpc'[v] = wpc[v] /\ wreq'[v] = wreq[v]
      PROVE  [Queue!Next]_(Queue!vars)
  <2>1. wreq[w] # Nil
    BY <1>3 DEF MonitorInv, TypeOK
  <2>2. b[w] # Nil
    BY <1>3, <2>1 DEF Working
  <2>3. b' = [b EXCEPT ![w] = Nil]
    BY <1>3 DEF Working
  <2>4. Queue!Finish(w)
    BY <1>3, <2>2, <2>3 DEF Queue!Finish
  <2> QED BY <2>4 DEF Queue!Next
<1>4. ASSUME UNCHANGED <<enqueuing, requestChan>>,
             \/ wpc[w] \in Busy /\ wpc'[w] \in Busy /\ wreq'[w] = wreq[w]
             \/ wpc[w] \notin Busy /\ wpc'[w] \notin Busy,
             \A v \in Worker \ {w} : wpc'[v] = wpc[v] /\ wreq'[v] = wreq[v]
      PROVE  UNCHANGED Queue!vars
  BY <1>4, QuietQueue DEF Working
<1>5. CASE WorkerReceipt(w)
  BY <1>1, <1>4, <1>5 DEF WorkerReceipt
<1>6. ASSUME NEW ok \in BOOLEAN, WorkerUpdate(w, ok) PROVE [Queue!Next]_(Queue!vars)
  BY <1>1, <1>3, <1>4, <1>6 DEF WorkerUpdate, AfterUpdate
<1>7. CASE WorkerDelete(w)
  BY <1>1, <1>4, <1>7 DEF WorkerDelete, Receive
<1>8. CASE WorkerSchedule(w)
  BY <1>1, <1>4, <1>8 DEF WorkerSchedule
<1>9. CASE WorkerAdd(w)
  BY <1>1, <1>3, <1>9 DEF WorkerAdd
<1>10. CASE WorkerLen(w) \/ WorkerSignal(w)
  BY <1>1, <1>4, <1>10 DEF WorkerLen, WorkerSignal, Receive
<1> QED BY <1>2, <1>5, <1>6, <1>7, <1>8, <1>9, <1>10 DEF WorkerStep

\* Requests are submitted by AddL2Transaction and by the checker; everything
\* else is not seen.
LEMMA OtherQueue ==
    ASSUME MonitorInv,
           \/ \E r \in Request : CallerStep(r) \/ ChannelSend(r)
           \/ \E rows \in GetL2TransactionsToMonitor : LoadSelect(rows)
           \/ CheckerStep \/ Environment \/ UNCHANGED vars
    PROVE  [Queue!Next]_(Queue!vars)
<1> USE DEF queueVars, workerVars
<1>1. ASSUME NEW r \in Request, AddL2Transaction(r) PROVE [Queue!Next]_(Queue!vars)
  <2>1. ~Queued(r) /\ \A w \in Worker : ~Working(w, r)
    BY <1>1 DEF AddL2Transaction, CallerAt, Arriving, MonitorInv, Custody, SoleCustody
  <2>2. UNCHANGED <<requestChan, wpc, wreq>>
    BY <1>1 DEF AddL2Transaction
  <2>3. enqueuing' = enqueuing \cup {r} \/ enqueuing' = enqueuing
    BY <1>1 DEF AddL2Transaction, enqueueMonitorRequest
  <2> QED BY <2>1, <2>2, <2>3, SubmitQueue, UnseenQueue
<1>2. ASSUME NEW r \in Request, CallerStep(r) PROVE [Queue!Next]_(Queue!vars)
  <2>1. AddL2Transaction(r) \/ UNCHANGED <<enqueuing, requestChan, wpc, wreq>>
    BY <1>2 DEF CallerStep, SenderTakes, SenderUpdate, LoadNext, CallerAdd, CallerLen,
                CallerSignal
  <2> QED BY <1>1, <2>1, UnseenQueue
<1>3. ASSUME NEW r \in Request, ChannelSend(r) PROVE UNCHANGED Queue!vars
  <2>1. /\ r \in enqueuing /\ enqueuing' = enqueuing \ {r} /\ r \notin ToSet(requestChan)
        /\ requestChan' = Append(requestChan, r) /\ requestChan \in Seq(Request)
        /\ IsInjective(requestChan) /\ UNCHANGED <<wpc, wreq>>
    BY <1>3 DEF ChannelSend, MonitorInv, TypeOK, Custody, SoleCustody
  <2>2. ToSet(requestChan') = ToSet(requestChan) \cup {r}
    BY <2>1, SendProperty
  <2>3. (enqueuing \cup ToSet(requestChan))' = enqueuing \cup ToSet(requestChan)
    BY <2>1, <2>2
  <2> QED BY <2>1, <2>3 DEF Queue!vars, Working
<1>4. CASE CheckRetry
  <2>1. /\ cpc = "retry" /\ enqueuing' = enqueuing \cup {creq}
        /\ UNCHANGED <<requestChan, wpc, wreq>>
    BY <1>4 DEF CheckRetry, enqueueMonitorRequest
  <2>2. creq \in Request
    BY <2>1, CheckerRequest DEF MonitorInv
  <2>3. ~Queued(creq) /\ \A w \in Worker : ~Working(w, creq)
    BY <2>1, <2>2 DEF MonitorInv, Custody, LeavingAlone, Leaving
  <2> QED BY <2>1, <2>2, <2>3, SubmitQueue
<1>5. CASE CheckerStep
  <2>1. CheckRetry \/ UNCHANGED <<enqueuing, requestChan, wpc, wreq>>
    BY <1>5 DEF CheckerStep, CheckLen, CheckGet, CheckExpire, CheckRemove, CheckSleep, CheckWait
  <2> QED BY <1>4, <2>1, UnseenQueue
<1>6. CASE Environment
  BY <1>6, UnseenQueue DEF Environment, Tick, Mine, OperatorResend
<1>7. ASSUME NEW rows, LoadSelect(rows) PROVE UNCHANGED Queue!vars
  BY <1>7, UnseenQueue DEF LoadSelect
<1>8. CASE UNCHANGED vars
  BY <1>8, UnseenQueue DEF vars
<1> QED BY <1>2, <1>3, <1>5, <1>6, <1>7, <1>8

\* The monitor's queue is a queue: no request is put in it twice or while a
\* worker has it, and each is taken by one worker (monitor.go:64-82,
\* :142-145).  This is the safety part of QueueImplemented.
THEOREM MonitorQueueSafe == Spec /\ [][~Mixup]_listVars => Queue!Spec
<1>1. Init => Queue!Init
  <2> SUFFICES ASSUME Init PROVE Queue!Init
    OBVIOUS
  <2>1. requestChan = <<>> /\ ToSet(requestChan) = {}
    BY DEF Init, ToSet
  <2> QED BY <2>1 DEF Init, Queue!Init, Working
<1>2. ASSUME MonitorInv, [Next]_vars PROVE [Queue!Next]_(Queue!vars)
  BY <1>2, WorkerQueue, OtherQueue DEF Next
<1> QED BY <1>1, <1>2, MonitorInvariant, PTL DEF Spec, Queue!Spec
============================================================================
