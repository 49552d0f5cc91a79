--------------------------- MODULE MCRequestList ---------------------------
\* Instances of RequestList for TLC.
EXTENDS RequestList

CONSTANTS r1, r2, r3, r4

\* r1 and r4 are two requests for the same transaction; the transaction of r2
\* has been stored a second time, as that of r3.
MCIdOf == r1 :> 1 @@ r2 :> 2 @@ r3 :> 3 @@ r4 :> 1
MCHashOf == r1 :> 1 @@ r2 :> 2 @@ r3 :> 2 @@ r4 :> 1

MCId == 1..3
MCTime == 0..3
============================================================================
