------------------------------- MODULE PoolDB -------------------------------
(***************************************************************************)
(* PoolDB (db/pooldb.go): the table pool.transaction.  Every method is one *)
(* SQL statement, hence atomic.  What the components tell apart is the     *)
(* status of a row; the other columns never change once they are inserted. *)
(*                                                                         *)
(* DBFaults says how a statement may fail.  A statement that changes the   *)
(* table is "lost", or it is "applied" and the connection fails before the *)
(* answer arrives.  A "select" fails, or is cut short: the rows that       *)
(* rows.Next has delivered are returned without an error.                  *)
(***************************************************************************)
CONSTANTS
    Id,              \* the ids of the rows; 0 is not one of them
    DBFaults         \* the faults to consider

ASSUME PoolDBAssumption ==
    /\ 0 \notin Id
    /\ DBFaults \subseteq {"lost", "applied", "select"}

VARIABLE status      \* pool.transaction.status, "absent" if there is no row

Final == {"confirmed", "failed", "expired"}
Status == {"absent", "pending", "sent", "resend", "invalid"} \cup Final

----------------------------------------------------------------------------
\* A statement that changes the table to new, and whether it returns an error.
Exec(new, ok) ==
    \/ /\ ok \/ "applied" \in DBFaults
       /\ status' = new
    \/ /\ ~ok /\ "lost" \in DBFaults
       /\ UNCHANGED status

\* AddL2Transaction (of PoolDB) inserts a pending row.
InsertL2Transaction(i, ok) ==
    /\ status[i] = "absent"
    /\ Exec([status EXCEPT ![i] = "pending"], ok)

\* UPDATE ... WHERE id = i, whatever the status is; no row has the id 0.
UpdateL2TransactionStatus(i, newStatus, ok) ==
    Exec([j \in Id |-> IF j = i THEN newStatus ELSE status[j]], ok)

\* What GetL2TransactionsByStatus may return.  The callers go through the
\* rows of an error as through an empty result.
GetL2TransactionsByStatus(s) ==
    LET rows == {i \in Id : status[i] = s}
    IN IF "select" \in DBFaults THEN SUBSET rows ELSE {rows}

GetL2TransactionsToResend == GetL2TransactionsByStatus("resend")
GetL2TransactionsToMonitor == GetL2TransactionsByStatus("sent")
\* Mistaken variant: the wrong status.
GetL2TransactionsSent == GetL2TransactionsByStatus("sent")
GetL2TransactionsToSend == GetL2TransactionsByStatus("pending")

\* Nothing in the program sets the status resend: it is requested in the
\* database ("a tx that has been requested to be resent to the sequencer",
\* types/l2transaction.go:19).
RequestResend(i) ==
    /\ status[i] \notin {"absent", "pending", "resend"}
    /\ status' = [status EXCEPT ![i] = "resend"]
============================================================================
