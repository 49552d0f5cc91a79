----------------------------- MODULE MCStartup -----------------------------
\* An upgrade: old and new share host and port, late does not migrate.
EXTENDS Startup

CONSTANTS old, new, late

MCBox == [p \in Process |-> IF p = old THEN 2 ELSE 3]
MCMaxStarts == [p \in Process |-> IF p = late THEN 1 ELSE 2]
MCPort == [p \in Process |-> IF p = late THEN 2 ELSE 1]
============================================================================
