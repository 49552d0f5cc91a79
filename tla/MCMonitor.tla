----------------------------- MODULE MCMonitor -----------------------------
\* Instances of Monitor for TLC.
EXTENDS MonitorRefinement

CONSTANTS r1, r2, w1, w2

\* r1 and r2 are two calls for the same transaction, as after a resend.
TwiceIdOf == [r \in Request |-> 1]

\* Every transaction is handed over once.
OnceIdOf == [r \in Request |-> IF r = r1 THEN 1 ELSE 2]

\* The raw transaction of r1 came in again, as that of r2, whose INSERT failed.
FailedIdOf == [r \in Request |-> IF r = r1 THEN 1 ELSE 0]

MCHashOf == [r \in Request |-> 1]

MCSymmetry == Permutations(Worker) \cup Permutations(Request)
MCReceivedAt == [r \in Request |-> 0]
LaterReceivedAt == [r \in Request |-> IF r = r1 THEN 0 ELSE 1]
MCTime == 0..Horizon
MCNoIds == {}
MCId1 == 1..1
MCId2 == 1..2
MCKey1 == 0..1
MCKey2 == 0..2
OneSent == <<"sent">>
OnePending == <<"pending">>
BothPending == <<"pending", "pending">>
============================================================================
