---------------------------- MODULE ServerProofs ----------------------------
(***************************************************************************)
(* Proofs about the JSON-RPC server, for any set of connections, requests  *)
(* and calls and any limits: what a refused request leaves behind, the     *)
(* order of a batch, and what the reply says of its calls.                 *)
(***************************************************************************)
EXTENDS Server, SequenceTheorems, TLAPS

----------------------------------------------------------------------------
(* The invariant.                                                          *)

CallOf == UNION {ToSet(r.calls) : r \in HttpRequest}

ErrorCode ==
    {NoError, DefaultErrorCode, NotFoundErrorCode, InvalidParamsErrorCode, ParserErrorCode}

Response == {NewResponse(call, code) : call \in CallOf, code \in ErrorCode}

ServerTypes ==
    /\ config \in Config
    /\ pc \in [Conn -> {"idle", "handle", "send", "replied"}]
    /\ req \in [Conn -> HttpRequest \cup {Nil}]
    /\ lost \in [Conn -> BOOLEAN]
    /\ responses \in [Conn -> Seq(Response)]
    /\ added \in [Conn -> Seq(Nat)] /\ sent \in [Conn -> Seq(Nat)]
    /\ reply \in [Conn -> Nat \cup {Nil}]

\* Where the goroutine of a connection is says what it has of its request.
Stage(c) ==
    /\ req[c] = Nil <=> pc[c] = "idle"
    /\ reply[c] = Nil <=> pc[c] # "replied"
    /\ req[c] = Nil => responses[c] = <<>> /\ sent[c] = <<>> /\ ~lost[c]
    /\ req[c] # Nil => Len(responses[c]) <= Len(req[c].calls)
    /\ pc[c] = "send" => /\ added[c] = Append(sent[c], Position(c))
                         /\ Position(c) <= Len(req[c].calls)
    /\ pc[c] # "send" => added[c] = sent[c]

\* A request with an effect was served, not refused, and is replied to once
\* all its calls are handled.
Served(c) ==
    /\ pc[c] \in {"handle", "send"} \/ responses[c] # <<>> => checkRequest(req[c]) = OK
    /\ sent[c] # <<>> => responses[c] # <<>>
    /\ pc[c] = "replied" => \/ AllHandled(c) /\ reply[c] \in {OK, Closed}
                            \/ responses[c] = <<>> /\ ~lost[c]
    /\ reply[c] = RequestEntityTooLarge => checkRequest(req[c]) = RequestEntityTooLarge

\* The calls that went through the sender, in the order of the batch.
InOrder(c) ==
    /\ \A k \in DOMAIN sent[c] : sent[c][k] \in 1..Len(responses[c])
    /\ \A j, k \in DOMAIN sent[c] : j < k => sent[c][j] < sent[c][k]

\* Each response is the one of its call, and says whether it was sent.
Matching(c) ==
    \A k \in DOMAIN responses[c] :
        /\ responses[c][k].id = req[c].calls[k].id
        /\ k \in ToSet(sent[c]) <=> responses[c][k].error \in {NoError, DefaultErrorCode}

ConnInv(c) == Stage(c) /\ Served(c) /\ InOrder(c) /\ Matching(c)

ServerInv == ServerTypes /\ \A c \in Conn : ConnInv(c)

----------------------------------------------------------------------------
(* Facts about requests, calls and sequences.                              *)

\* The calls of a request are a list.
LEMMA CallsOfRequest ==
    ASSUME NEW r \in HttpRequest
    PROVE  /\ Len(r.calls) \in Nat /\ DOMAIN r.calls = 1..Len(r.calls)
           /\ \A k \in 1..Len(r.calls) : r.calls[k] \in CallOf
<1>1. r.calls \in Seq(ToSet(r.calls))
  BY ServerAssumption
<1>2. Len(r.calls) \in Nat /\ DOMAIN r.calls = 1..Len(r.calls)
  BY <1>1
<1>3. \A k \in 1..Len(r.calls) : r.calls[k] \in ToSet(r.calls)
  BY <1>2 DEF ToSet
<1> QED BY <1>2, <1>3 DEF CallOf

\* Handle has three outcomes before the endpoint is called.
LEMMA CheckCallCode ==
    ASSUME NEW call
    PROVE  checkCall(call) \in {NoError, NotFoundErrorCode, InvalidParamsErrorCode}
BY DEF checkCall

\* Appending to a sequence.
LEMMA AppendFacts ==
    ASSUME NEW S, NEW s \in Seq(S), NEW e \in S
    PROVE  /\ Append(s, e) \in Seq(S) /\ Len(Append(s, e)) = Len(s) + 1
           /\ Len(s) \in Nat /\ DOMAIN s = 1..Len(s)
           /\ DOMAIN Append(s, e) = 1..(Len(s) + 1)
           /\ \A k \in 1..Len(s) : Append(s, e)[k] = s[k]
           /\ Append(s, e)[Len(s) + 1] = e
           /\ ToSet(Append(s, e)) = ToSet(s) \cup {e}
           /\ Append(s, e) # <<>>
<1> DEFINE t == Append(s, e)
<1>1. /\ t \in Seq(S) /\ Len(t) = Len(s) + 1 /\ Len(s) \in Nat
      /\ DOMAIN t = 1..(Len(s) + 1) /\ DOMAIN s = 1..Len(s)
      /\ \A k \in 1..Len(s) : t[k] = s[k]
      /\ t[Len(s) + 1] = e
  OBVIOUS
<1> HIDE DEF t
<1>2. ToSet(t) = ToSet(s) \cup {e}
  <2>1. ASSUME NEW x \in ToSet(t) PROVE x \in ToSet(s) \cup {e}
    BY <1>1 DEF ToSet
  <2>2. ASSUME NEW x \in ToSet(s) PROVE x \in ToSet(t)
    BY <1>1 DEF ToSet
  <2>3. e \in ToSet(t)
    BY <1>1 DEF ToSet
  <2> QED BY <2>1, <2>2, <2>3
<1>3. t # <<>>
  BY <1>1
<1> QED BY <1>1, <1>2, <1>3 DEF t

\* A position past all the others goes last, in order.
LEMMA AppendIncreasing ==
    ASSUME NEW n \in Nat, NEW s \in Seq(Nat),
           \A k \in 1..Len(s) : s[k] \in 1..n,
           \A j, k \in 1..Len(s) : j < k => s[j] < s[k]
    PROVE  LET t == Append(s, n + 1) IN
           /\ \A k \in DOMAIN t : t[k] \in 1..(n + 1)
           /\ \A j, k \in DOMAIN t : j < k => t[j] < t[k]
           /\ \A k \in 1..n : k \in ToSet(t) <=> k \in ToSet(s)
           /\ n + 1 \in ToSet(t) /\ n + 1 \notin ToSet(s)
<1> DEFINE t == Append(s, n + 1)
           m == Len(s)
<1>1. /\ m \in Nat /\ DOMAIN s = 1..m /\ DOMAIN t = 1..(m + 1)
      /\ \A k \in 1..m : t[k] = s[k]
      /\ t[m + 1] = n + 1
      /\ ToSet(t) = ToSet(s) \cup {n + 1}
  BY AppendFacts
<1>2. ToSet(s) \subseteq 1..n
  BY <1>1 DEF ToSet
<1> HIDE DEF t
<1>3. ASSUME NEW k \in 1..(m + 1) PROVE t[k] \in 1..(n + 1)
  <2>1. CASE k \in 1..m
    BY <1>1, <2>1
  <2>2. CASE k = m + 1
    BY <1>1, <2>2
  <2> QED BY <1>1, <2>1, <2>2
<1>4. ASSUME NEW j \in 1..(m + 1), NEW k \in 1..(m + 1), j < k PROVE t[j] < t[k]
  <2>0. m \in Nat /\ j \in 1..m /\ t[j] = s[j]
    BY <1>1, <1>4
  <2>1. CASE k \in 1..m
    BY <1>1, <1>4, <2>0, <2>1
  <2>2. CASE k = m + 1
    <3>1. s[j] \in 1..n
      BY <2>0
    <3> QED BY <1>1, <2>0, <2>2, <3>1
  <2> QED BY <1>1, <2>1, <2>2
<1>5. /\ \A k \in 1..n : k \in ToSet(t) <=> k \in ToSet(s)
      /\ n + 1 \in ToSet(t) /\ n + 1 \notin ToSet(s)
  BY <1>1, <1>2
<1> QED BY <1>1, <1>3, <1>4, <1>5 DEF t

\* The checks of a request depend on the configuration alone, which stays.
LEMMA SameChecks ==
    ASSUME config' = config, NEW c \in Conn, NEW r, req'[c] = r
    PROVE  checkRequest(req[c])' = checkRequest(r)
BY DEF checkRequest, checkBatch, ExceedsLimit, isSingleRequest, Parses, validateRequest

\* What a connection does leaves the others alone.
LEMMA OtherConn ==
    ASSUME NEW d \in Conn, ConnInv(d), config' = config,
           pc'[d] = pc[d], req'[d] = req[d], responses'[d] = responses[d],
           added'[d] = added[d], sent'[d] = sent[d], lost'[d] = lost[d], reply'[d] = reply[d]
    PROVE  ConnInv(d)'
<1>1. Stage(d)'
  BY DEF ConnInv, Stage, Position
<1>2. Served(d)'
  BY SameChecks DEF ConnInv, Served, AllHandled
<1>3. InOrder(d)' /\ Matching(d)'
  BY DEF ConnInv, InOrder, Matching
<1> QED BY <1>1, <1>2, <1>3 DEF ConnInv
----------------------------------------------------------------------------
(* The steps of a connection.                                              *)

\* The statuses of a refusal.
LEMMA StatusType ==
    /\ OK \in Nat /\ Closed \in Nat /\ TooManyRequests \in Nat
    /\ \A r : checkRequest(r) \in Nat
    /\ \A b : handleError(b) \in Nat
    /\ RequestEntityTooLarge \in Nat \ {OK, Closed, TooManyRequests}
    /\ \A b : handleError(b) # RequestEntityTooLarge
BY DEF OK, Closed, TooManyRequests, checkRequest, checkBatch, validateRequest, handleError,
       BadRequest, MethodNotAllowed, RequestEntityTooLarge, UnsupportedMediaType,
       InternalServerError

\* A request is accepted: refused at once, or to be served.
LEMMA AcceptInv ==
    ASSUME ServerInv, config' = config, NEW c \in Conn, NEW r \in HttpRequest, NEW l, NEW code,
           Accept(c, r, l, code),
           \/ /\ l = "replied" /\ code \in Nat
              /\ code = RequestEntityTooLarge => checkRequest(r) = RequestEntityTooLarge
           \/ l = "handle" /\ code = Nil /\ checkRequest(r) = OK
    PROVE  ServerInv'
<1>1. /\ pc[c] = "idle" /\ req' = [req EXCEPT ![c] = r]
      /\ reply' = [reply EXCEPT ![c] = code] /\ pc' = [pc EXCEPT ![c] = l]
      /\ UNCHANGED <<responses, added, sent, lost>>
  BY DEF Accept
<1>2. Nil \notin HttpRequest /\ Nil \notin Nat
  BY ServerAssumption
<1>3. ServerTypes'
  BY <1>1 DEF ServerInv, ServerTypes
<1>4. ASSUME NEW d \in Conn \ {c} PROVE ConnInv(d)'
  BY <1>1, <1>4, OtherConn DEF ServerInv, ServerTypes
<1>5. /\ responses'[c] = <<>> /\ sent'[c] = <<>> /\ added'[c] = <<>> /\ ~lost'[c]
      /\ pc'[c] = l /\ req'[c] = r /\ reply'[c] = code
  BY <1>1 DEF ServerInv, ServerTypes, ConnInv, Stage
<1>6. Len(r.calls) \in Nat /\ Len(<<>>) = 0
  BY CallsOfRequest
<1>7. Stage(c)'
  BY <1>2, <1>5, <1>6 DEF Stage
<1>8. Served(c)'
  BY <1>2, <1>5, SameChecks, StatusType DEF Served, OK
<1>9. InOrder(c)' /\ Matching(c)'
  BY <1>5 DEF InOrder, Matching
<1> QED BY <1>3, <1>4, <1>7, <1>8, <1>9 DEF ServerInv, ConnInv

\* The goroutine has a call to handle.
LEMMA CurrentCall ==
    ASSUME ServerInv, NEW c \in Conn, pc[c] \in {"handle", "send"},
           Position(c) <= Len(req[c].calls)
    PROVE  /\ req[c] \in HttpRequest /\ Current(c) \in CallOf
           /\ Len(responses[c]) \in Nat /\ Position(c) = Len(responses[c]) + 1
<1>1. req[c] \in HttpRequest
  BY DEF ServerInv, ServerTypes, ConnInv, Stage
<1>2. Len(responses[c]) \in Nat /\ Position(c) = Len(responses[c]) + 1
  BY DEF ServerInv, ServerTypes, Position
<1>3. Position(c) \in 1..Len(req[c].calls)
  BY <1>1, <1>2, CallsOfRequest
<1> QED BY <1>1, <1>2, <1>3, CallsOfRequest DEF Current

\* A response is added, for a call that was sent or for one that was not.
LEMMA RespondInv ==
    ASSUME ServerInv, config' = config, NEW c \in Conn, NEW code \in ErrorCode, Respond(c, code),
           pc[c] \in {"handle", "send"}, Position(c) <= Len(req[c].calls),
           UNCHANGED <<req, added, lost, reply>>,
           \/ /\ pc[c] = "handle" /\ sent' = sent
              /\ code \notin {NoError, DefaultErrorCode}
           \/ /\ pc[c] = "send" /\ sent' = [sent EXCEPT ![c] = Append(@, Position(c))]
              /\ code \in {NoError, DefaultErrorCode}
    PROVE  ServerInv'
<1> DEFINE n == Len(responses[c])
           resp == NewResponse(Current(c), code)
<1>1. /\ req[c] \in HttpRequest /\ Current(c) \in CallOf
      /\ n \in Nat /\ Position(c) = n + 1 /\ n + 1 <= Len(req[c].calls)
  BY CurrentCall
<1>2. resp \in Response /\ resp.id = Current(c).id /\ resp.error = code
  BY <1>1 DEF Response, NewResponse
<1>3. responses[c] \in Seq(Response) /\ sent[c] \in Seq(Nat) /\ n + 1 \in Nat
  BY <1>1 DEF ServerInv, ServerTypes
<1>4. /\ responses' = [responses EXCEPT ![c] = Append(responses[c], resp)]
      /\ pc' = [pc EXCEPT ![c] = "handle"]
  BY DEF Respond
<1>5. /\ Append(responses[c], resp) \in Seq(Response)
      /\ Len(Append(responses[c], resp)) = n + 1
      /\ DOMAIN Append(responses[c], resp) = 1..(n + 1)
      /\ DOMAIN responses[c] = 1..n
      /\ \A k \in 1..n : Append(responses[c], resp)[k] = responses[c][k]
      /\ Append(responses[c], resp)[n + 1] = resp
      /\ Append(responses[c], resp) # <<>>
  BY <1>2, <1>3, AppendFacts
<1>6. /\ Append(sent[c], n + 1) \in Seq(Nat)
      /\ Len(sent[c]) \in Nat /\ DOMAIN sent[c] = 1..Len(sent[c])
      /\ DOMAIN Append(sent[c], n + 1) = 1..(Len(sent[c]) + 1)
      /\ \A k \in 1..Len(sent[c]) : Append(sent[c], n + 1)[k] = sent[c][k]
      /\ Append(sent[c], n + 1)[Len(sent[c]) + 1] = n + 1
      /\ ToSet(Append(sent[c], n + 1)) = ToSet(sent[c]) \cup {n + 1}
  BY <1>3, AppendFacts
<1>7. /\ responses'[c] = Append(responses[c], resp) /\ pc'[c] = "handle"
      /\ req'[c] = req[c] /\ reply'[c] = reply[c] /\ lost'[c] = lost[c]
      /\ sent'[c] = sent[c] \/ sent'[c] = Append(sent[c], n + 1)
      /\ pc[c] = "send" <=> sent'[c] = Append(sent[c], n + 1)
      /\ added'[c] = sent'[c]
  <2>1. responses'[c] = Append(responses[c], resp) /\ pc'[c] = "handle"
    BY <1>4 DEF ServerInv, ServerTypes
  <2>2. sent[c] # Append(sent[c], n + 1)
    BY <1>6
  <2>3. added'[c] = IF pc[c] = "send" THEN Append(sent[c], n + 1) ELSE sent[c]
    BY <1>1 DEF ServerInv, ConnInv, Stage
  <2>4. sent'[c] = IF pc[c] = "send" THEN Append(sent[c], n + 1) ELSE sent[c]
    BY <1>1 DEF ServerInv, ServerTypes
  <2> QED BY <2>1, <2>2, <2>3, <2>4
<1>8. ServerTypes'
  <2>1. responses' \in [Conn -> Seq(Response)]
    BY <1>4, <1>5 DEF ServerInv, ServerTypes
  <2>2. sent' \in [Conn -> Seq(Nat)]
    <3>1. sent \in [Conn -> Seq(Nat)]
      BY DEF ServerInv, ServerTypes
    <3>2. sent' = sent \/ sent' = [sent EXCEPT ![c] = Append(sent[c], n + 1)]
      BY <1>1, <3>1
    <3> HIDE DEF n
    <3> QED BY <1>6, <3>1, <3>2
  <2> QED BY <1>4, <2>1, <2>2 DEF ServerInv, ServerTypes
<1>9. ASSUME NEW d \in Conn \ {c} PROVE ConnInv(d)'
  BY <1>4, <1>9, OtherConn DEF ServerInv, ServerTypes
<1> HIDE DEF n, resp
<1>10. Stage(c)'
  <2>1. Stage(c) /\ Nil \notin HttpRequest
    BY ServerAssumption DEF ServerInv, ConnInv
  <2> QED BY <1>1, <1>5, <1>7, <2>1 DEF Stage
<1>11. Served(c)'
  BY <1>5, <1>7, SameChecks DEF ServerInv, ConnInv, Served
<1>12. /\ \A k \in 1..Len(sent[c]) : sent[c][k] \in 1..n
       /\ \A j, k \in 1..Len(sent[c]) : j < k => sent[c][j] < sent[c][k]
  BY <1>6 DEF n, ServerInv, ConnInv, InOrder
<1>13. /\ \A k \in DOMAIN sent'[c] : sent'[c][k] \in 1..(n + 1)
       /\ \A j, k \in DOMAIN sent'[c] : j < k => sent'[c][j] < sent'[c][k]
       /\ \A k \in 1..n : k \in ToSet(sent'[c]) <=> k \in ToSet(sent[c])
       /\ n + 1 \in ToSet(sent'[c]) <=> pc[c] = "send"
  <2> DEFINE s == sent[c]
             t == Append(s, n + 1)
  <2>1. /\ n \in Nat /\ s \in Seq(Nat) /\ DOMAIN s = 1..Len(s)
        /\ \A k \in 1..Len(s) : s[k] \in 1..n
        /\ \A j, k \in 1..Len(s) : j < k => s[j] < s[k]
    BY <1>1, <1>3, <1>6, <1>12
  <2>2. sent'[c] = s \/ sent'[c] = t
    BY <1>7
  <2>3. pc[c] = "send" <=> sent'[c] = t
    BY <1>7
  <2> HIDE DEF s
  <2>4. /\ \A k \in DOMAIN t : t[k] \in 1..(n + 1)
        /\ \A j, k \in DOMAIN t : j < k => t[j] < t[k]
        /\ \A k \in 1..n : k \in ToSet(t) <=> k \in ToSet(s)
        /\ n + 1 \in ToSet(t) /\ n + 1 \notin ToSet(s)
    BY <2>1, AppendIncreasing
  <2> HIDE DEF t
  <2>5. CASE sent'[c] = t
    BY <2>3, <2>4, <2>5 DEF s
  <2>6. CASE sent'[c] = s
    <3>1. \A k \in DOMAIN s : s[k] \in 1..(n + 1)
      BY <2>1
    <3>2. s # t
      BY <2>4
    <3> QED BY <2>1, <2>3, <2>4, <2>6, <3>1, <3>2 DEF s
  <2> QED BY <2>2, <2>5, <2>6
<1>14. InOrder(c)'
  BY <1>5, <1>7, <1>13 DEF InOrder
<1>15. Matching(c)'
  <2> DEFINE rs == responses[c]
             rt == responses'[c]
             calls == req[c].calls
  <2>1. /\ DOMAIN rt = 1..(n + 1) /\ rt[n + 1] = resp
        /\ \A k \in 1..n : rt[k] = rs[k]
    BY <1>5, <1>7
  <2>2. \A k \in 1..n :
          /\ rs[k].id = calls[k].id
          /\ k \in ToSet(sent[c]) <=> rs[k].error \in {NoError, DefaultErrorCode}
    BY <1>5 DEF ServerInv, ConnInv, Matching
  <2>3. resp.id = calls[n + 1].id /\ resp.error = code
    BY <1>1, <1>2 DEF Current
  <2>4. pc[c] = "send" <=> code \in {NoError, DefaultErrorCode}
    OBVIOUS
  <2> HIDE DEF rs, rt, calls
  <2>5. ASSUME NEW k \in 1..(n + 1)
        PROVE  /\ rt[k].id = calls[k].id
               /\ k \in ToSet(sent'[c]) <=> rt[k].error \in {NoError, DefaultErrorCode}
    <3>1. CASE k \in 1..n
      BY <1>13, <2>1, <2>2, <3>1
    <3>2. CASE k = n + 1
      BY <1>13, <2>1, <2>3, <2>4, <3>2
    <3> QED BY <1>1, <3>1, <3>2
  <2> QED BY <1>7, <2>1, <2>5 DEF Matching, rt, calls
<1> QED BY <1>8, <1>9, <1>10, <1>11, <1>14, <1>15 DEF ServerInv, ConnInv

\* The codes of the errors tell a call that was sent from one that was not.
LEMMA Codes ==
    /\ {NotFoundErrorCode, InvalidParamsErrorCode, ParserErrorCode}
          \cap {NoError, DefaultErrorCode} = {}
    /\ NotFoundErrorCode # NoError /\ InvalidParamsErrorCode # NoError
BY DEF NotFoundErrorCode, InvalidParamsErrorCode, ParserErrorCode, NoError, DefaultErrorCode

\* There is a call left to handle.
LEMMA CallLeft ==
    ASSUME ServerInv, NEW c \in Conn, pc[c] = "handle", ~AllHandled(c)
    PROVE  Position(c) <= Len(req[c].calls)
<1>1. req[c] \in HttpRequest /\ Len(responses[c]) <= Len(req[c].calls)
  BY DEF ServerInv, ServerTypes, ConnInv, Stage
<1>2. Len(req[c].calls) \in Nat
  BY <1>1, CallsOfRequest
<1>3. Len(responses[c]) \in Nat
  BY DEF ServerInv, ServerTypes
<1> QED BY <1>1, <1>2, <1>3 DEF AllHandled, Position

\* HandleInvalid answers a call that never reaches the sender.
LEMMA HandleInvalidInv ==
    ASSUME ServerInv, config' = config, NEW c \in Conn, HandleInvalid(c)
    PROVE  ServerInv'
<1>1. /\ pc[c] = "handle" /\ ~AllHandled(c)
      /\ UNCHANGED <<req, added, sent, lost, reply>>
  BY DEF HandleInvalid
<1>2. PICK code \in {NotFoundErrorCode, InvalidParamsErrorCode, ParserErrorCode} :
         Respond(c, code)
  BY CheckCallCode DEF HandleInvalid
<1>3. code \in ErrorCode /\ code \notin {NoError, DefaultErrorCode}
  BY <1>2, Codes DEF ErrorCode
<1>4. Position(c) <= Len(req[c].calls)
  BY <1>1, CallLeft
<1> QED BY <1>1, <1>2, <1>3, <1>4, RespondInv

\* SendReturns answers the call that was with the sender.
LEMMA SendReturnsInv ==
    ASSUME ServerInv, config' = config, NEW c \in Conn, NEW code \in {NoError, DefaultErrorCode},
           SendReturns(c, code)
    PROVE  ServerInv'
<1>1. /\ pc[c] = "send" /\ sent' = [sent EXCEPT ![c] = Append(@, Position(c))]
      /\ Respond(c, code) /\ UNCHANGED <<req, added, lost, reply>>
  BY DEF SendReturns
<1>2. code \in ErrorCode
  BY DEF ErrorCode
<1>3. Position(c) <= Len(req[c].calls)
  BY <1>1 DEF ServerInv, ConnInv, Stage
<1> QED BY <1>1, <1>2, <1>3, RespondInv

\* SendRawTransaction gives the current call to the database and the sender.
LEMMA SendRawTransactionInv ==
    ASSUME ServerInv, config' = config, NEW c \in Conn, SendRawTransaction(c)
    PROVE  ServerInv'
<1>1. /\ pc[c] = "handle" /\ ~AllHandled(c)
      /\ added' = [added EXCEPT ![c] = Append(@, Position(c))]
      /\ pc' = [pc EXCEPT ![c] = "send"]
      /\ UNCHANGED <<req, responses, sent, lost, reply>>
  BY DEF SendRawTransaction
<1>2. Position(c) <= Len(req[c].calls)
  BY <1>1, CallLeft
<1>3. Position(c) \in Nat
  BY <1>1, <1>2, CurrentCall
<1>4. ServerTypes'
  <2>1. Append(added[c], Position(c)) \in Seq(Nat)
    BY <1>3 DEF ServerInv, ServerTypes
  <2>2. added' \in [Conn -> Seq(Nat)]
    BY <1>1, <2>1 DEF ServerInv, ServerTypes
  <2> QED BY <1>1, <2>2 DEF ServerInv, ServerTypes
<1>5. ASSUME NEW d \in Conn \ {c} PROVE ConnInv(d)'
  BY <1>1, <1>5, OtherConn DEF ServerInv, ServerTypes
<1>6. /\ pc'[c] = "send" /\ added'[c] = Append(sent[c], Position(c))
      /\ Position(c)' = Position(c)
  BY <1>1 DEF ServerInv, ServerTypes, ConnInv, Stage, Position
<1>7. Stage(c)'
  <2>1. Stage(c)
    BY DEF ServerInv, ConnInv
  <2> QED BY <1>1, <1>2, <1>6, <2>1 DEF Stage
<1>8. Served(c)'
  BY <1>1, <1>6, SameChecks DEF ServerInv, ConnInv, Served
<1>9. InOrder(c)' /\ Matching(c)'
  BY <1>1 DEF ServerInv, ConnInv, InOrder, Matching
<1> QED BY <1>4, <1>5, <1>7, <1>8, <1>9 DEF ServerInv, ConnInv

\* LoseConnection changes nothing of the request in hand.
LEMMA LoseConnectionInv ==
    ASSUME ServerInv, config' = config, NEW c \in Conn, LoseConnection(c)
    PROVE  ServerInv'
<1>1. /\ pc[c] \in {"handle", "send"} /\ lost' = [lost EXCEPT ![c] = TRUE]
      /\ UNCHANGED <<pc, req, responses, added, sent, reply>>
  BY DEF LoseConnection
<1>2. ServerTypes'
  BY <1>1 DEF ServerInv, ServerTypes
<1>3. ASSUME NEW d \in Conn \ {c} PROVE ConnInv(d)'
  BY <1>1, <1>3, OtherConn DEF ServerInv, ServerTypes
<1>4. Stage(c)'
  BY <1>1 DEF ServerInv, ConnInv, Stage, Position
<1>5. Served(c)'
  BY <1>1, SameChecks DEF ServerInv, ConnInv, Served
<1>6. InOrder(c)' /\ Matching(c)'
  BY <1>1 DEF ServerInv, ConnInv, InOrder, Matching
<1> QED BY <1>2, <1>3, <1>4, <1>5, <1>6 DEF ServerInv, ConnInv

\* Reply is written once all calls are handled.
LEMMA ReplyInv ==
    ASSUME ServerInv, config' = config, NEW c \in Conn, Reply(c)
    PROVE  ServerInv'
<1>1. /\ pc[c] = "handle" /\ AllHandled(c)
      /\ reply' = [reply EXCEPT ![c] = ReplyCode(c)]
      /\ pc' = [pc EXCEPT ![c] = "replied"]
      /\ UNCHANGED <<req, responses, added, sent, lost>>
  BY DEF Reply
<1>2. ReplyCode(c) \in {OK, Closed} /\ ReplyCode(c) \in Nat
  BY StatusType DEF ReplyCode
<1>3. ServerTypes'
  BY <1>1, <1>2 DEF ServerInv, ServerTypes
<1>4. ASSUME NEW d \in Conn \ {c} PROVE ConnInv(d)'
  BY <1>1, <1>4, OtherConn DEF ServerInv, ServerTypes
<1>5. pc'[c] = "replied" /\ reply'[c] = ReplyCode(c) /\ reply'[c] # Nil
  BY <1>1, <1>2, ServerAssumption DEF ServerInv, ServerTypes
<1>6. Stage(c)'
  BY <1>1, <1>5 DEF ServerInv, ConnInv, Stage
<1>7. Served(c)'
  BY <1>1, <1>2, <1>5, StatusType, SameChecks DEF ServerInv, ConnInv, Served, AllHandled
<1>8. InOrder(c)' /\ Matching(c)'
  BY <1>1 DEF ServerInv, ConnInv, InOrder, Matching
<1> QED BY <1>3, <1>4, <1>6, <1>7, <1>8 DEF ServerInv, ConnInv

\* NextRequest starts the connection anew.
LEMMA NextRequestInv ==
    ASSUME ServerInv, config' = config, NEW c \in Conn, NextRequest(c)
    PROVE  ServerInv'
<1>1. /\ pc' = [pc EXCEPT ![c] = "idle"] /\ req' = [req EXCEPT ![c] = Nil]
      /\ responses' = [responses EXCEPT ![c] = <<>>]
      /\ added' = [added EXCEPT ![c] = <<>>] /\ sent' = [sent EXCEPT ![c] = <<>>]
      /\ lost' = [lost EXCEPT ![c] = FALSE] /\ reply' = [reply EXCEPT ![c] = Nil]
  BY DEF NextRequest
<1>2. ServerTypes'
  <2>1. <<>> \in Seq(Response) /\ <<>> \in Seq(Nat)
    OBVIOUS
  <2> QED BY <1>1, <2>1 DEF ServerInv, ServerTypes
<1>3. ASSUME NEW d \in Conn \ {c} PROVE ConnInv(d)'
  BY <1>1, <1>3, OtherConn DEF ServerInv, ServerTypes
<1>4. /\ pc'[c] = "idle" /\ req'[c] = Nil /\ responses'[c] = <<>>
      /\ added'[c] = <<>> /\ sent'[c] = <<>> /\ ~lost'[c] /\ reply'[c] = Nil
  BY <1>1 DEF ServerInv, ServerTypes
<1>5. Stage(c)' /\ Served(c)'
  BY <1>4, StatusType, ServerAssumption DEF Stage, Served
<1>6. InOrder(c)' /\ Matching(c)'
  BY <1>4 DEF InOrder, Matching
<1> QED BY <1>2, <1>3, <1>5, <1>6 DEF ServerInv, ConnInv

----------------------------------------------------------------------------
(* The invariant holds.                                                    *)

\* No connection has a request when the server starts.
LEMMA ServerInit == Init => ServerInv
<1> SUFFICES ASSUME Init PROVE ServerInv
  OBVIOUS
<1>1. ServerTypes
  <2>1. <<>> \in Seq(Response) /\ <<>> \in Seq(Nat)
    OBVIOUS
  <2> QED BY <2>1 DEF Init, ServerTypes
<1>2. ASSUME NEW c \in Conn PROVE ConnInv(c)
  <2>1. /\ pc[c] = "idle" /\ req[c] = Nil /\ responses[c] = <<>>
        /\ added[c] = <<>> /\ sent[c] = <<>> /\ ~lost[c] /\ reply[c] = Nil
    BY DEF Init
  <2>2. Stage(c) /\ Served(c)
    BY <2>1, StatusType, ServerAssumption DEF Stage, Served
  <2>3. InOrder(c) /\ Matching(c)
    BY <2>1 DEF InOrder, Matching
  <2> QED BY <2>2, <2>3 DEF ConnInv
<1> QED BY <1>1, <1>2 DEF ServerInv

\* Every step of the server keeps the invariant.
LEMMA ServerStep == ServerInv /\ [Next]_vars => ServerInv'
<1> SUFFICES ASSUME ServerInv, [Next]_vars PROVE ServerInv'
  OBVIOUS
<1>0. config' = config
  BY DEF Next, vars
<1>1. CASE UNCHANGED vars
  <2>1. ServerTypes'
    BY <1>1 DEF vars, ServerInv, ServerTypes
  <2>2. ASSUME NEW d \in Conn PROVE ConnInv(d)'
    BY <1>1, OtherConn DEF vars, ServerInv
  <2> QED BY <2>1, <2>2 DEF ServerInv
<1>2. ASSUME NEW c \in Conn, NEW r \in HttpRequest, Refuse(c, r) PROVE ServerInv'
  <2>1. PICK code \in Nat :
           /\ Accept(c, r, "replied", code)
           /\ code = RequestEntityTooLarge => checkRequest(r) = RequestEntityTooLarge
    BY <1>2, StatusType DEF Refuse
  <2> QED BY <1>0, <2>1, AcceptInv
<1>3. ASSUME NEW c \in Conn, NEW r \in HttpRequest, LimitRate(c, r) PROVE ServerInv'
  BY <1>0, <1>3, AcceptInv, StatusType DEF LimitRate
<1>4. ASSUME NEW c \in Conn, NEW r \in HttpRequest, Serve(c, r) PROVE ServerInv'
  BY <1>0, <1>4, AcceptInv DEF Serve
<1>5. ASSUME NEW c \in Conn, NEW r \in HttpRequest, NEW b \in BOOLEAN, ReadFails(c, r, b)
      PROVE  ServerInv'
  <2>1. handleError(b) \in Nat /\ Accept(c, r, "replied", handleError(b))
    BY <1>5, StatusType DEF ReadFails
  <2> QED BY <1>0, <2>1, AcceptInv, StatusType
<1>6. ASSUME NEW c \in Conn, ConnStep(c) PROVE ServerInv'
  BY <1>0, <1>6, HandleInvalidInv, SendRawTransactionInv, SendReturnsInv, ReplyInv DEF ConnStep
<1> QED
  BY <1>0, <1>1, <1>2, <1>3, <1>4, <1>5, <1>6, LoseConnectionInv, NextRequestInv DEF Next

\* The invariant holds in every reachable state.
LEMMA ServerInvariant == Spec => []ServerInv
BY ServerInit, ServerStep, PTL DEF Spec

----------------------------------------------------------------------------
(* What the invariant says of the properties of the server.                *)

\* The state of every connection is well typed and fits where its goroutine is
\* (server.go handle, handler.go).
THEOREM ServerTypesHold == Spec => []TypeOK
<1>1. ServerInv => TypeOK
  <2> SUFFICES ASSUME ServerInv PROVE TypeOK
    OBVIOUS
  <2>1. ASSUME NEW c \in Conn
        PROVE  /\ req[c] = Nil <=> pc[c] = "idle"
               /\ reply[c] = Nil <=> pc[c] # "replied"
               /\ responses[c] # <<>> => Len(responses[c]) <= Len(req[c].calls)
    BY DEF ServerInv, ConnInv, Stage
  <2> QED BY <2>1 DEF ServerInv, ServerTypes, TypeOK
<1> QED BY <1>1, ServerInvariant, PTL

\* What was added or sent was added or sent for a request that passed the
\* checks.
LEMMA EffectIsServed ==
    ASSUME ServerInv, NEW c \in Conn, added[c] # <<>>
    PROVE  /\ req[c] \in HttpRequest /\ checkRequest(req[c]) = OK
           /\ reply[c] \in {Nil, OK, Closed}
<1>1. ConnInv(c)
  BY DEF ServerInv
<1>2. pc[c] # "send" => responses[c] # <<>>
  BY <1>1 DEF ConnInv, Stage, Served
<1>3. checkRequest(req[c]) = OK
  BY <1>1, <1>2 DEF ConnInv, Served
<1>4. req[c] # Nil
  BY <1>1 DEF ConnInv, Stage
<1>5. reply[c] \in {Nil, OK, Closed}
  BY <1>1, <1>2 DEF ConnInv, Stage, Served
<1> QED BY <1>3, <1>4, <1>5 DEF ServerInv, ServerTypes

\* What ExceedsLimit tests is the limit of the configuration, zero for none.
LEMMA LimitIs ==
    ASSUME ServerInv, NEW r \in HttpRequest
    PROVE  ExceedsLimit(r) <=> ~WithinLimit(r)
<1>1. config.BatchRequestsLimit \in Nat
  BY ServerAssumption DEF ServerInv, ServerTypes
<1>2. Len(r.calls) \in Nat
  BY CallsOfRequest
<1> QED BY <1>1, <1>2 DEF ExceedsLimit, WithinLimit

\* A refused request has had no effect, no batch has one that is longer than
\* the limit or comes while batches are disabled, and none is called too large
\* that is within the limit (server.go:115-131, :202-221).
THEOREM RefusedHasNoEffectHolds == Spec => []RefusedHasNoEffect
<1>1. ASSUME ServerInv, NEW c \in Conn, added[c] # <<>>
      PROVE  /\ reply[c] \in {Nil, OK, Closed}
             /\ req[c].form = "[" => config.BatchRequestsEnabled /\ WithinLimit(req[c])
  <2>1. /\ req[c] \in HttpRequest /\ checkRequest(req[c]) = OK
        /\ reply[c] \in {Nil, OK, Closed}
    BY <1>1, EffectIsServed
  <2>2. ASSUME req[c].form = "[" PROVE checkBatch(req[c]) = OK
    BY <2>1, <2>2 DEF checkRequest, isSingleRequest, OK, BadRequest
  <2>3. ASSUME checkBatch(req[c]) = OK
        PROVE  config.BatchRequestsEnabled /\ ~ExceedsLimit(req[c])
    BY <2>3 DEF checkBatch, OK, BadRequest, RequestEntityTooLarge
  <2>4. ~ExceedsLimit(req[c]) => WithinLimit(req[c])
    BY <1>1, <2>1, LimitIs
  <2> QED BY <2>1, <2>2, <2>3, <2>4
<1>2. ASSUME ServerInv, NEW c \in Conn, reply[c] = RequestEntityTooLarge,
             req[c].contentLength <= maxRequestContentLength
      PROVE  req[c].form = "[" /\ config.BatchRequestsEnabled /\ ~WithinLimit(req[c])
  <2>1. checkRequest(req[c]) = RequestEntityTooLarge
    BY <1>2 DEF ServerInv, ConnInv, Served
  <2>2. req[c] \in HttpRequest /\ req[c].contentLength \in Int
    <3>1. RequestEntityTooLarge # Nil
      BY StatusType, ServerAssumption
    <3>2. req[c] # Nil /\ req[c] \in HttpRequest \cup {Nil}
      BY <1>2, <3>1 DEF ServerInv, ServerTypes, ConnInv, Stage
    <3> QED BY <3>2, ServerAssumption
  <2>3. validateRequest(req[c]) # RequestEntityTooLarge
    BY <1>2, <2>2, ServerAssumption
    DEF validateRequest, OK, MethodNotAllowed, RequestEntityTooLarge, UnsupportedMediaType
  <2>4. req[c].form = "[" /\ checkBatch(req[c]) = RequestEntityTooLarge
    <3>1. validateRequest(req[c]) = OK
      BY <2>1, <2>3 DEF checkRequest
    <3>2. req[c].form # "" /\ ~isSingleRequest(req[c])
      <4>1. BadRequest # RequestEntityTooLarge /\ OK # RequestEntityTooLarge
        BY DEF BadRequest, OK, RequestEntityTooLarge
      <4> QED BY <2>1, <3>1, <4>1, Zenon DEF checkRequest
    <3>3. checkBatch(req[c]) = RequestEntityTooLarge
      BY <2>1, <3>1, <3>2, Zenon DEF checkRequest
    <3> QED BY <3>2, <3>3 DEF isSingleRequest
  <2>5. config.BatchRequestsEnabled /\ ExceedsLimit(req[c])
    BY <2>4 DEF checkBatch, OK, BadRequest, RequestEntityTooLarge
  <2>6. ExceedsLimit(req[c]) => ~WithinLimit(req[c])
    BY <1>2, <2>2, LimitIs
  <2> QED BY <2>4, <2>5, <2>6
<1>3. ServerInv => RefusedHasNoEffect
  BY <1>1, <1>2 DEF RefusedHasNoEffect
<1> QED BY <1>3, ServerInvariant, PTL

\* The transactions of a batch reach the database and the sender in the order
\* of the batch, one at a time (server.go:225-229, endpoints.go:70-75).
THEOREM BatchInOrderHolds == Spec => []BatchInOrder
<1>1. ServerInv => BatchInOrder
  <2> SUFFICES ASSUME ServerInv, NEW c \in Conn
               PROVE  /\ IsPrefix(sent[c], added[c]) /\ Len(added[c]) <= Len(sent[c]) + 1
                      /\ \A j, k \in DOMAIN added[c] : j < k => added[c][j] < added[c][k]
    BY DEF BatchInOrder
  <2>1. /\ sent[c] \in Seq(Nat) /\ added[c] \in Seq(Nat)
        /\ responses[c] \in Seq(Response)
    BY DEF ServerInv, ServerTypes
  <2>2. PICK s \in Seq(Nat), n \in Nat : s = sent[c] /\ n = Len(responses[c])
    BY <2>1
  <2>3. /\ \A k \in 1..Len(s) : s[k] \in 1..n
        /\ \A j, k \in 1..Len(s) : j < k => s[j] < s[k]
    BY <2>2 DEF ServerInv, ConnInv, InOrder
  <2>4. added[c] = s \/ added[c] = Append(s, n + 1)
    BY <2>2 DEF ServerInv, ConnInv, Stage, Position
  <2>5. IsPrefix(s, s) /\ Len(s) <= Len(s) + 1 /\ DOMAIN s = 1..Len(s)
    BY DEF IsPrefix
  <2>6. IsPrefix(s, Append(s, n + 1)) /\ Len(Append(s, n + 1)) <= Len(s) + 1
    BY DEF IsPrefix
  <2>7. \A j, k \in DOMAIN Append(s, n + 1) :
           j < k => Append(s, n + 1)[j] < Append(s, n + 1)[k]
    BY <2>3, AppendIncreasing
  <2>8. CASE added[c] = s
    BY <2>2, <2>3, <2>5, <2>8
  <2>9. CASE added[c] = Append(s, n + 1)
    BY <2>2, <2>6, <2>7, <2>9
  <2> QED BY <2>4, <2>8, <2>9
<1> QED BY <1>1, ServerInvariant, PTL

\* The reply has a response for each call, with its id, and success only for
\* one that went through the sender (server.go:225-229, types.go).
THEOREM ReplyMatchesHolds == Spec => []ReplyMatches
<1>1. ServerInv => ReplyMatches
  <2> SUFFICES ASSUME ServerInv, NEW c \in Conn, reply[c] = OK, responses[c] # <<>>
               PROVE  /\ Len(responses[c]) = Len(req[c].calls)
                      /\ \A k \in DOMAIN responses[c] :
                            /\ responses[c][k].id = req[c].calls[k].id
                            /\ responses[c][k].error = NoError => k \in ToSet(sent[c])
    BY DEF ReplyMatches
  <2>1. pc[c] = "replied"
    BY StatusType, ServerAssumption DEF ServerInv, ConnInv, Stage
  <2>2. Len(responses[c]) = Len(req[c].calls)
    BY <2>1 DEF ServerInv, ConnInv, Served, AllHandled
  <2> QED BY <2>2 DEF ServerInv, ConnInv, Matching
<1> QED BY <1>1, ServerInvariant, PTL

\* A request whose client has gone has had the effect of every call, once
\* (server.go:225-229 with :70; endpoints.go:70).
THEOREM LostIsHandledWholeHolds == Spec => []LostIsHandledWhole
<1>1. ServerInv => LostIsHandledWhole
  <2> SUFFICES ASSUME ServerInv, NEW c \in Conn, pc[c] = "replied", lost[c]
               PROVE  /\ Len(responses[c]) = Len(req[c].calls)
                      /\ added[c] = sent[c] /\ IsInjective(sent[c])
                      /\ \A k \in DOMAIN req[c].calls :
                            k \in ToSet(sent[c]) <=>
                                responses[c][k].error \in {NoError, DefaultErrorCode}
    BY DEF LostIsHandledWhole
  <2>1. /\ sent[c] \in Seq(Nat) /\ responses[c] \in Seq(Response)
        /\ req[c] \in HttpRequest
    BY DEF ServerInv, ServerTypes, ConnInv, Stage
  <2>2. Len(responses[c]) = Len(req[c].calls) /\ added[c] = sent[c]
    BY DEF ServerInv, ConnInv, Served, AllHandled, Stage
  <2>3. DOMAIN req[c].calls = DOMAIN responses[c]
    BY <2>1, <2>2, CallsOfRequest
  <2>4. IsInjective(sent[c])
    <3>1. PICK s \in Seq(Nat) : s = sent[c]
      BY <2>1
    <3>2. \A j, k \in DOMAIN s : j < k => s[j] < s[k]
      BY <3>1 DEF ServerInv, ConnInv, InOrder
    <3>3. ASSUME NEW j \in DOMAIN s, NEW k \in DOMAIN s, s[j] = s[k] PROVE j = k
      <4>1. j \in Nat /\ k \in Nat /\ s[j] \in Nat /\ s[k] \in Nat
        OBVIOUS
      <4> QED BY <3>2, <3>3, <4>1
    <3> QED BY <3>1, <3>3 DEF IsInjective
  <2> QED BY <2>2, <2>3, <2>4 DEF ServerInv, ConnInv, Matching
<1> QED BY <1>1, ServerInvariant, PTL
============================================================================
