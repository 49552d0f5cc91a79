------------------------- MODULE MonitorRefinement -------------------------
(***************************************************************************)
(* The monitor implements the abstract specifications of its two sides:    *)
(* WorkQueue, which its workers are fed by, and Follower, which the sender *)
(* relies on.                                                              *)
(***************************************************************************)
EXTENDS Monitor

\* The names of the goroutines and of no transaction mean nothing else.
ASSUME RefinementAssumption == "checker" \notin Worker /\ Nil \notin Key

\* A worker is done with a request when it has given it back to the list or
\* has written a final status.
Queue == INSTANCE WorkQueue WITH
    Item <- Request,
    Idle <- Nil,
    queued <- enqueuing \cup ToSet(requestChan),
    busy <- [w \in Worker |-> IF Working(w, wreq[w]) THEN wreq[w] ELSE Nil]

\* A request that has been handed over, or is being added by the load, and has
\* not been deleted yet.
InHand(r) ==
    \/ loadReq = r /\ caller[r] = "enter"
    \/ caller[r] = "add"
    \/ Listed(r) \/ Queued(r) \/ Leaving(r)
    \/ \E w \in Worker : Working(w, r) \/ (wreq[w] = r /\ wpc[w] = "delete")

\* The rows that the load has yet to hand over, and the transactions with a
\* request in the monitor's hands.
Following == loadTodo \cup {IdOf[r] : r \in {r \in Request : InHand(r)}}

\* The workers and the checker between the UPDATE and the delete.
Closing ==
    [a \in Worker \cup {"checker"} |->
        IF a = "checker"
        THEN IF cpc = "remove" THEN IdOf[creq] ELSE Nil
        ELSE IF wpc[a] = "delete" THEN IdOf[wreq[a]] ELSE Nil]

Abstract == INSTANCE Follower WITH
    Settler <- Worker,
    Expirer <- {"checker"},
    Nobody <- Nil,
    monitored <- Following,
    closing <- Closing

\* Every request that is put in the queue reaches one worker and no other, and
\* is not queued again while it is there, however full the channel is
\* (monitor.go:64-82, :142-145).
QueueImplemented == Queue!Spec /\ Queue!EventuallyTaken

\* The monitor follows what it is handed and what it loads, and lets go of a
\* transaction only after it has written the status of a receipt or has tried
\* to write expired, also with two requests for a transaction and whatever the
\* database does (monitor.go:118-124, :135-141, :161-169).
Follows == Abstract!FollowerSpec
============================================================================
