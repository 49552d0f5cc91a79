------------------------------ MODULE Follower ------------------------------
(***************************************************************************)
(* What the sender and the operators may expect of the monitor: the set of *)
(* transactions it follows and the changes it makes to their status.       *)
(*                                                                         *)
(* The monitor lets go of a transaction after it has written a final       *)
(* status.  The two are separate steps: in between the transaction may be  *)
(* sent again and be followed anew, and is then let go of all the same.    *)
(* An expiry lets go even if its UPDATE fails.  Sender is built on these   *)
(* actions, Monitor implements them.                                       *)
(***************************************************************************)
EXTENDS PoolDB

CONSTANTS
    Settler,         \* the goroutines of the monitor that write receipts
    Expirer,         \* ... and those that write expiries
    Nobody           \* no transaction

VARIABLES
    monitored,       \* the ids that are followed, 0 for one without a row
    loaded,          \* whether the sent rows have been read
    closing          \* the id each agent is to let go of

Agent == Settler \cup Expirer

Followed == Id \cup {0}

followerVars == <<monitored, loaded, closing>>

FollowerInit ==
    /\ monitored = {} /\ loaded = FALSE
    /\ closing = [a \in Agent |-> Nobody]

\* AddL2Transaction is called.
Follow(i) ==
    /\ monitored' = monitored \cup {i}
    /\ UNCHANGED <<status, loaded, closing>>

\* The start reads the rows that are sent, or those the statement delivers.
LoadSent(rows) ==
    /\ ~loaded
    /\ rows \in GetL2TransactionsToMonitor
    /\ loaded' = TRUE
    /\ monitored' = monitored \cup rows
    /\ UNCHANGED <<status, closing>>

\* The node has a receipt; if the UPDATE fails the transaction is kept.
Settle(a, i, s, ok) ==
    /\ closing[a] = Nobody /\ i \in monitored
    /\ UpdateL2TransactionStatus(i, s, ok)
    /\ closing' = IF ok THEN [closing EXCEPT ![a] = i] ELSE closing
    /\ UNCHANGED <<monitored, loaded>>

\* The lifetime is over.
Expire(a, i, ok) ==
    /\ closing[a] = Nobody /\ i \in monitored
    /\ UpdateL2TransactionStatus(i, "expired", ok)
    /\ closing' = [closing EXCEPT ![a] = i]
    /\ UNCHANGED <<monitored, loaded>>

\* Another request for the same transaction may go on.
Forget(a) ==
    /\ closing[a] # Nobody
    /\ monitored' \in {monitored, monitored \ {closing[a]}}
    /\ closing' = [closing EXCEPT ![a] = Nobody]
    /\ UNCHANGED <<status, loaded>>

\* The sender, the endpoint or an operator changes a status.
SetStatus(i, s) ==
    /\ status' = [status EXCEPT ![i] = s]
    /\ UNCHANGED followerVars

FollowerNext ==
    \/ \E i \in Id, s \in Status \ Final : SetStatus(i, s)
    \/ \E i \in Followed :
        \/ Follow(i)
        \/ \E a \in Expirer, ok \in BOOLEAN : Expire(a, i, ok)
        \/ \E a \in Settler, ok \in BOOLEAN, s \in {"confirmed", "failed"} :
              Settle(a, i, s, ok)
    \/ \E rows \in SUBSET Id : LoadSent(rows)
    \/ \E a \in Agent : Forget(a)

FollowerSpec == FollowerInit /\ [][FollowerNext]_<<status, followerVars>>
============================================================================
