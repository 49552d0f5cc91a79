------------------------------- MODULE Server -------------------------------
(***************************************************************************)
(* The JSON-RPC server (server/*.go): what it does with an HTTP request    *)
(* from the checks on the request to the reply, and with the calls of      *)
(* eth_sendRawTransaction in it.  Connections are served concurrently; the *)
(* calls of one batch are handled one after the other.  A client may give  *)
(* up, or WriteTimeout end, before the reply: the handler goes on.         *)
(*                                                                         *)
(* An HTTP request is a record of what the code looks at: method,          *)
(* contentLength (-1: not announced), contentType, size of the body, its   *)
(* first byte (form), whether the JSON parses (json) and its calls.  A     *)
(* call has an id, the method split at the first underscore (name, Nil if  *)
(* there is none) and params: whether they are an array (array) and the    *)
(* arguments.                                                              *)
(***************************************************************************)
EXTENDS Integers, Sequences, FiniteSets, SequencesExt

CONSTANTS
    Conn,                     \* connections
    HttpRequest,              \* the requests clients send
    RawTx,                    \* arguments that hexToTx decodes to a transaction
    String,                   \* all string arguments, RawTx among them
    Config,                   \* the configurations a server may be started with
    maxRequestContentLength,
    Nil

ASSUME ServerAssumption ==
    /\ \A f \in Config : f.BatchRequestsLimit \in Nat
    /\ maxRequestContentLength \in Nat
    /\ RawTx \subseteq String /\ Nil \notin HttpRequest \cup Nat
    /\ \A r \in HttpRequest :
          r.calls \in Seq(ToSet(r.calls)) /\ r.contentLength \in Int

VARIABLES
    config,      \* the configuration of this server
    pc,          \* where the goroutine of each connection is
    req,         \* the request it serves, Nil if there is none
    responses,   \* the responses to the calls handled so far
    added,       \* the calls whose transaction the database was asked to add,
    sent,        \* ... those the sender has answered, both by position
    lost,        \* whether the connection was lost during the request
    reply        \* the HTTP status of the reply, Nil if there is none yet

vars == <<config, pc, req, responses, added, sent, lost, reply>>

----------------------------------------------------------------------------
(* The checks of handle, before any call is looked at.                     *)

Closed == 0   \* no status: the client finds the connection closed
OK == 200
BadRequest == 400
MethodNotAllowed == 405
RequestEntityTooLarge == 413
UnsupportedMediaType == 415
TooManyRequests == 429
InternalServerError == 500

acceptedContentTypes ==
    {"application/json", "application/json-rpc", "application/jsonrequest"}

validateRequest(r) ==
    IF r.method # "POST" THEN MethodNotAllowed
    ELSE IF r.contentLength > maxRequestContentLength THEN RequestEntityTooLarge
    ELSE IF r.contentType \notin acceptedContentTypes THEN UnsupportedMediaType
    ELSE OK

\* The body is cut off at the limit, and a truncated body does not parse.
Parses(r) == r.json /\ r.size <= maxRequestContentLength

isSingleRequest(r) == r.form # "["

\* Mistaken variant: a limit of zero is one too.
ExceedsAnyLimit(r) == Len(r.calls) > config.BatchRequestsLimit

\* A limit of zero is none.
ExceedsLimit(r) ==
    config.BatchRequestsLimit > 0 /\ Len(r.calls) > config.BatchRequestsLimit

\* handleBatchRequest up to its loop: an array that is too long is refused
\* as a whole.
checkBatch(r) ==
    IF ~config.BatchRequestsEnabled \/ ~Parses(r) THEN BadRequest
    ELSE IF ExceedsLimit(r) THEN RequestEntityTooLarge ELSE OK

\* The status of the reply if the request is refused, OK if it is served.
checkRequest(r) ==
    IF validateRequest(r) # OK THEN validateRequest(r)
    ELSE IF r.form = "" THEN BadRequest
    ELSE IF ~isSingleRequest(r) THEN checkBatch(r)
    ELSE IF Parses(r) THEN OK ELSE BadRequest

\* A broken pipe ends the handler without a status.
handleError(brokenPipe) == IF brokenPipe THEN Closed ELSE InternalServerError

----------------------------------------------------------------------------
(* The endpoints, and the errors Handler.Handle returns by itself.         *)

DefaultErrorCode == -32000
NotFoundErrorCode == -32601
InvalidParamsErrorCode == -32602
ParserErrorCode == -32700
NoError == 0

\* The exported methods of *Endpoints as reflect shows them, the receiver
\* being the first input, by their name in the calls (lowerCaseFirst).
Methods ==
    "sendRawTransaction" :>
        [in |-> <<"*Endpoints", "*http.Request", "string">>, out |-> <<"any", "Error">>]

\* registerEndpoints panics at the start if this is FALSE for a method.
validateFunc(method) == Len(method.out) = 2 /\ method.out[2] = "Error"

registerEndpoints ==
    [name \in {m \in DOMAIN Methods : validateFunc(Methods[m])} |->
        [inNum |-> Len(Methods[name].in), reqt |-> Methods[name].in]]

numParams(fd) == fd.inNum - 1

\* Whatever comes before the underscore.
getFuncHandler(call) == call.name \in DOMAIN registerEndpoints

\* The first parameter of the call that is filled from the arguments.
inArgsOffset(fd) == IF Len(fd.reqt) > 1 /\ fd.reqt[2] = "*http.Request" THEN 1 ELSE 0

\* The error of a call that does not reach its endpoint.  Params that are not
\* an array, and an argument that is not a string, do not decode; missing
\* arguments are left empty and those past the last are ignored.
checkCall(call) ==
    IF ~getFuncHandler(call) THEN NotFoundErrorCode
    ELSE LET fd == registerEndpoints[call.name]
             inputs == Min({Len(call.args), numParams(fd) - inArgsOffset(fd)})
         IN IF \/ ~call.array \/ Len(call.args) > numParams(fd)
               \/ \E k \in 1..inputs : call.args[k] \notin String
            THEN InvalidParamsErrorCode ELSE NoError

\* The input of the endpoint.
input(call) == IF call.args = <<>> THEN "" ELSE Head(call.args)

\* Mistaken variant: the error is left out.
NewResponseNoError(call, code) == [id |-> call.id, error |-> NoError]

NewResponse(call, code) == [id |-> call.id, error |-> code]

----------------------------------------------------------------------------
(* The goroutine of a connection.                                          *)

Accept(c, r, label, code) ==
    /\ pc[c] = "idle"
    /\ req' = [req EXCEPT ![c] = r]
    /\ reply' = [reply EXCEPT ![c] = code]
    /\ pc' = [pc EXCEPT ![c] = label]
    /\ UNCHANGED <<responses, added, sent, lost>>

\* The reply of a request that is not a POST, or is refused.
Refuse(c, r) ==
    \/ r.method \in {"OPTIONS", "GET"} /\ Accept(c, r, "replied", OK)
    \/ /\ r.method \notin {"OPTIONS", "GET"} /\ checkRequest(r) # OK
       /\ Accept(c, r, "replied", checkRequest(r))

\* tollbooth refuses a client over its rate.
LimitRate(c, r) == Accept(c, r, "replied", TooManyRequests)

\* The body cannot be read, ReadTimeout being over for instance.
ReadFails(c, r, brokenPipe) ==
    /\ r.method = "POST" /\ validateRequest(r) = OK
    /\ Accept(c, r, "replied", handleError(brokenPipe))

Serve(c, r) ==
    /\ r.method \notin {"OPTIONS", "GET"} /\ checkRequest(r) = OK
    /\ Accept(c, r, "handle", Nil)

\* Mistaken variant: the last call first.
PositionBackwards(c) == Len(req[c].calls) - Len(responses[c])

\* The call that is handled.
Position(c) == Len(responses[c]) + 1

Current(c) == req[c].calls[Position(c)]

\* Mistaken variant: the handler stops when nobody waits for it.
AllHandledOrGone(c) == Len(responses[c]) = Len(req[c].calls) \/ lost[c]

AllHandled(c) == Len(responses[c]) = Len(req[c].calls)

\* Mistaken variant: no response to an unknown method.
RespondIfFound(c, code) ==
    /\ responses' = IF code = NotFoundErrorCode THEN responses
                    ELSE [responses EXCEPT ![c] = Append(@, NewResponse(Current(c), code))]
    /\ pc' = [pc EXCEPT ![c] = "handle"]

Respond(c, code) ==
    /\ responses' = [responses EXCEPT ![c] = Append(@, NewResponse(Current(c), code))]
    /\ pc' = [pc EXCEPT ![c] = "handle"]

\* A call that does not reach its endpoint, whose input is no transaction, or
\* whose transaction has no JSON form.
HandleInvalid(c) ==
    /\ pc[c] = "handle" /\ ~AllHandled(c)
    /\ LET e == checkCall(Current(c))
       IN \/ e # NoError /\ Respond(c, e)
          \/ /\ e = NoError /\ input(Current(c)) \notin RawTx
             /\ Respond(c, InvalidParamsErrorCode)
          \/ /\ e = NoError /\ input(Current(c)) \in RawTx
             /\ Respond(c, ParserErrorCode)
    /\ UNCHANGED <<req, added, sent, lost, reply>>

\* SendRawTransaction: the transaction is added to the database, and handed
\* to the sender whether that has failed or not.
SendRawTransaction(c) ==
    /\ pc[c] = "handle" /\ ~AllHandled(c)
    /\ checkCall(Current(c)) = NoError /\ input(Current(c)) \in RawTx
    /\ added' = [added EXCEPT ![c] = Append(@, Position(c))]
    /\ pc' = [pc EXCEPT ![c] = "send"]
    /\ UNCHANGED <<req, responses, sent, lost, reply>>

\* SendL2Transaction returns, with an error or without.
SendReturns(c, code) ==
    /\ pc[c] = "send"
    /\ sent' = [sent EXCEPT ![c] = Append(@, Position(c))]
    /\ Respond(c, code)
    /\ UNCHANGED <<req, added, lost, reply>>

\* The client has gone, or WriteTimeout is over.  Nothing tells the handler:
\* it works with context.Background().
LoseConnection(c) ==
    /\ pc[c] \in {"handle", "send"}
    /\ lost' = [lost EXCEPT ![c] = TRUE]
    /\ UNCHANGED <<pc, req, responses, added, sent, reply>>

\* Mistaken variant: nothing is written.
ReplyCodeNil(c) == Nil

ReplyCode(c) == IF lost[c] THEN Closed ELSE OK

\* All calls are handled: the responses are written.
Reply(c) ==
    /\ pc[c] = "handle" /\ AllHandled(c)
    /\ reply' = [reply EXCEPT ![c] = ReplyCode(c)]
    /\ pc' = [pc EXCEPT ![c] = "replied"]
    /\ UNCHANGED <<req, responses, added, sent, lost>>

\* The next request of the connection, or of the next one.
NextRequest(c) ==
    /\ pc[c] = "replied"
    /\ pc' = [pc EXCEPT ![c] = "idle"]
    /\ req' = [req EXCEPT ![c] = Nil]
    /\ responses' = [responses EXCEPT ![c] = <<>>]
    /\ added' = [added EXCEPT ![c] = <<>>]
    /\ sent' = [sent EXCEPT ![c] = <<>>]
    /\ lost' = [lost EXCEPT ![c] = FALSE]
    /\ reply' = [reply EXCEPT ![c] = Nil]

----------------------------------------------------------------------------
Init ==
    /\ config \in Config
    /\ pc = [c \in Conn |-> "idle"]
    /\ req = [c \in Conn |-> Nil]
    /\ responses = [c \in Conn |-> <<>>]
    /\ added = [c \in Conn |-> <<>>]
    /\ sent = [c \in Conn |-> <<>>]
    /\ lost = [c \in Conn |-> FALSE]
    /\ reply = [c \in Conn |-> Nil]

ConnStep(c) ==
    \/ HandleInvalid(c) \/ SendRawTransaction(c)
    \/ \E code \in {NoError, DefaultErrorCode} : SendReturns(c, code)
    \/ Reply(c)

Next ==
    /\ UNCHANGED config
    /\ \E c \in Conn :
        \/ \E r \in HttpRequest :
              \/ Refuse(c, r) \/ LimitRate(c, r) \/ Serve(c, r)
              \/ \E brokenPipe \in BOOLEAN : ReadFails(c, r, brokenPipe)
        \/ ConnStep(c)
        \/ LoseConnection(c)
        \/ NextRequest(c)

Spec == Init /\ [][Next]_vars

\* A handler runs on; the sender returns, provided that one of its workers has
\* dialled (CallReturns of Sender).
FairSpec == Spec /\ \A c \in Conn : WF_vars(ConnStep(c) /\ UNCHANGED config)

----------------------------------------------------------------------------
TypeOK ==
    /\ config \in Config
    /\ pc \in [Conn -> {"idle", "handle", "send", "replied"}]
    /\ req \in [Conn -> HttpRequest \cup {Nil}]
    /\ lost \in [Conn -> BOOLEAN]
    /\ \A c \in Conn :
        /\ req[c] = Nil <=> pc[c] = "idle"
        /\ reply[c] = Nil <=> pc[c] # "replied"
        /\ responses[c] # <<>> => Len(responses[c]) <= Len(req[c].calls)

WithinLimit(r) ==
    config.BatchRequestsLimit = 0 \/ Len(r.calls) <= config.BatchRequestsLimit

\* A request that is refused, whole batches included, has had no effect: none
\* of its transactions is in the database or with the sender.  No call of a
\* batch has one if batches are disabled or this one is longer than the limit,
\* and a batch whose length was announced rightly is called too large for its
\* length alone, never where there is no limit (server.go:115-131, :202-221).
RefusedHasNoEffect ==
    \A c \in Conn :
        /\ added[c] # <<>> =>
              /\ reply[c] \in {Nil, OK, Closed}
              /\ req[c].form = "[" => config.BatchRequestsEnabled /\ WithinLimit(req[c])
        /\ /\ reply[c] = RequestEntityTooLarge
           /\ req[c].contentLength <= maxRequestContentLength
           => req[c].form = "[" /\ config.BatchRequestsEnabled /\ ~WithinLimit(req[c])

\* The transactions of a batch reach the database and the sender in the order
\* of the batch, each after the previous one has been answered
\* (server.go:225-229, endpoints.go:70-75).
BatchInOrder ==
    \A c \in Conn :
        /\ IsPrefix(sent[c], added[c]) /\ Len(added[c]) <= Len(sent[c]) + 1
        /\ \A j, k \in DOMAIN added[c] : j < k => added[c][j] < added[c][k]

\* The reply has one response for each call, in the order of the calls and
\* with their ids, and reports success only for a transaction that went
\* through the sender (server.go:225-229, types.go).
ReplyMatches ==
    \A c \in Conn :
        reply[c] = OK /\ responses[c] # <<>> =>
            /\ Len(responses[c]) = Len(req[c].calls)
            /\ \A k \in DOMAIN responses[c] :
                  /\ responses[c][k].id = req[c].calls[k].id
                  /\ responses[c][k].error = NoError => k \in ToSet(sent[c])

\* A request whose client has gone while it was served is not left half-way:
\* every call has had its effect, once, and only those calls that were refused
\* were not sent (server.go:225-229 with :70; endpoints.go:70).
LostIsHandledWhole ==
    \A c \in Conn :
        pc[c] = "replied" /\ lost[c] =>
            /\ Len(responses[c]) = Len(req[c].calls)
            /\ added[c] = sent[c] /\ IsInjective(sent[c])
            /\ \A k \in DOMAIN req[c].calls :
                  k \in ToSet(sent[c]) <=>
                      responses[c][k].error \in {NoError, DefaultErrorCode}

\* Every request that is served is replied to, whatever its calls are
\* (server.go:133-141).
ServedIsReplied == \A c \in Conn : pc[c] = "handle" ~> pc[c] = "replied"
============================================================================
