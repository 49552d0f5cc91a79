----------------------------- MODULE WorkQueue -----------------------------
(***************************************************************************)
(* What the sender and the monitor expect of their queues of requests      *)
(* (enqueueSenderRequest, enqueueMonitorRequest, the channels and the      *)
(* workers' loops): a request that is submitted is taken by one worker,    *)
(* and by one only, however short the channel is.  No order is promised.   *)
(***************************************************************************)
CONSTANTS
    Item,            \* the requests
    Worker,          \* the workers
    Idle             \* no request

VARIABLES
    queued,          \* the requests that wait for a worker
    busy             \* the request each worker has

vars == <<queued, busy>>

Init ==
    /\ queued = {}
    /\ busy = [w \in Worker |-> Idle]

Submit(r) ==
    /\ r \notin queued
    /\ \A w \in Worker : busy[w] # r
    /\ queued' = queued \cup {r}
    /\ UNCHANGED busy

Take(w, r) ==
    /\ busy[w] = Idle
    /\ r \in queued
    /\ queued' = queued \ {r}
    /\ busy' = [busy EXCEPT ![w] = r]

Finish(w) ==
    /\ busy[w] # Idle
    /\ busy' = [busy EXCEPT ![w] = Idle]
    /\ UNCHANGED queued

\* The process ends.
Reset == queued' = {} /\ busy' = [w \in Worker |-> Idle]

Next ==
    \/ \E r \in Item : Submit(r) \/ \E w \in Worker : Take(w, r)
    \/ \E w \in Worker : Finish(w)
    \/ Reset

Spec == Init /\ [][Next]_vars

\* No request waits for ever.
EventuallyTaken == \A r \in Item : r \in queued ~> r \notin queued
============================================================================
