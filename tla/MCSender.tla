------------------------------ MODULE MCSender ------------------------------
\* Instances of Sender for TLC.
EXTENDS Sender

CONSTANTS h1, h2, w1, w2

MCId == 1..2

\* Rows 1 and 2 hold different transactions, or a client has sent one twice.
MCHashOf == <<"a", "b">>
SameHashOf == <<"a", "a">>

OnlyA == {"a"}
NoIds == {}
OneId == {1}
PendingAndNew == <<"pending", "absent">>
BothNew == <<"absent", "absent">>
Symmetry == Permutations(Worker)
============================================================================
