------------------------------ MODULE Startup ------------------------------
(***************************************************************************)
(* How a process comes up and ends (start and waitSignal of cmd/main.go):  *)
(* the configuration, the logger, the migrations of the database, their    *)
(* check, the connection pool, and the three components, each started in a *)
(* goroutine of its own.                                                   *)
(*                                                                         *)
(* Several processes share a database, as in an upgrade or when one is     *)
(* started twice by mistake.  Every log.Fatal, panic and returned error is *)
(* the end of the process, whichever goroutine it happens in.              *)
(***************************************************************************)
EXTENDS Integers, FiniteSetsExt

CONSTANTS
    Process,         \* the places a process is started at: a host and a port
    Box,             \* how many migrations the program of each process packs
    NoMigrations,    \* the processes that are started with -n
    Port,            \* config.Server.Host and Port of each process
    Applied,         \* how many migrations the database has at the beginning
    MaxStarts        \* bound: how often each process is started

\* The versions of the program extend each other's migrations.
ASSUME StartupAssumption ==
    /\ Box \in [Process -> Nat] /\ NoMigrations \subseteq Process
    /\ Applied \in Nat /\ MaxStarts \in [Process -> Nat]

VARIABLES
    pc,          \* where the goroutine of start is
    hasDB,       \* whether the configuration says where the database is
    maxConns,    \* config.DB.MaxConns, 1 for every positive number
    plan,        \* the migrations migrate.Exec has still to apply
    up,          \* the components that run
    applied,     \* gorp_migrations: the migrations the database has
    starts,      \* how often each process was started
    faulted      \* whether anything but another process has stopped one

vars == <<pc, hasDB, maxConns, plan, up, applied, starts, faulted>>

Component == {"monitor", "sender", "server"}
Migration == 1..Max({Applied} \cup {Box[p] : p \in Process})

----------------------------------------------------------------------------
Goto(p, label) == pc' = [pc EXCEPT ![p] = label]

\* log.Fatal, a panic, an error returned by start, or a signal.
Exit(p, fault) ==
    /\ Goto(p, "exited")
    /\ hasDB' = [hasDB EXCEPT ![p] = FALSE] /\ maxConns' = [maxConns EXCEPT ![p] = 0]
    /\ plan' = [plan EXCEPT ![p] = {}]
    /\ up' = [up EXCEPT ![p] = {}]
    /\ faulted' = (faulted \/ fault)
    /\ UNCHANGED <<applied, starts>>

Launch(p) ==
    /\ pc[p] = "exited"
    /\ starts[p] < MaxStarts[p]
    /\ starts' = [starts EXCEPT ![p] = @ + 1]
    /\ Goto(p, "load")
    /\ UNCHANGED <<hasDB, maxConns, plan, up, applied, faulted>>

\* config.Load.  A file that cannot be read or decoded, and a monitor queue
\* shorter than its workers, are errors.  A missing file is only logged, and
\* the default values have a section Pool where Config has DB: what the file
\* does not say of the database stays empty.
Load(p) ==
    /\ pc[p] = "load"
    /\ \/ Exit(p, TRUE)
       \/ \E db \in BOOLEAN, conns \in {0, 1} :
            /\ hasDB' = [hasDB EXCEPT ![p] = db]
            /\ maxConns' = [maxConns EXCEPT ![p] = conns]
            /\ faulted' = (faulted \/ ~db \/ conns = 0)
            /\ Goto(p, "log")
            /\ UNCHANGED <<plan, up, applied, starts>>

\* log.Init panics if the level is unknown or an output cannot be opened.
InitLog(p) ==
    /\ pc[p] = "log"
    /\ \/ Exit(p, TRUE)
       \/ /\ Goto(p, IF p \in NoMigrations THEN "check" ELSE "plan")
          /\ UNCHANGED <<hasDB, maxConns, plan, up, applied, starts, faulted>>

\* Mistaken variant: what has been applied is applied again.
PendingAll(p) == 1..Box[p]

Pending(p) == (1..Box[p]) \ applied

\* runMigrations up to the plan of migrate.Exec, which refuses a database
\* with migrations it does not know.  Without a configuration it finds some
\* other database, or none.
PlanMigrations(p) ==
    /\ pc[p] = "plan"
    /\ \/ Exit(p, TRUE)
       \/ /\ hasDB[p] /\ ~(applied \subseteq 1..Box[p])
          /\ Exit(p, FALSE)
       \/ /\ hasDB[p] => applied \subseteq 1..Box[p]
          /\ plan' = [plan EXCEPT ![p] = IF hasDB[p] THEN Pending(p) ELSE {}]
          /\ Goto(p, "migrate")
          /\ UNCHANGED <<hasDB, maxConns, up, applied, starts, faulted>>

\* Mistaken variant: the other migrations are tried after one has failed.
MigrationErrorSkips(p, fault) ==
    /\ plan' = [plan EXCEPT ![p] = @ \ {Min(@)}]
    /\ faulted' = (faulted \/ fault)
    /\ UNCHANGED <<pc, hasDB, maxConns, up, applied, starts>>

\* The rest of the plan is given up.
MigrationError(p, fault) == Exit(p, fault)

\* A transaction per migration, which fails if another process was faster.
ApplyMigration(p) ==
    /\ pc[p] = "migrate"
    /\ plan[p] # {}
    /\ LET next == Min(plan[p])
       IN \/ MigrationError(p, TRUE)
          \/ next \in applied /\ MigrationError(p, FALSE)
          \/ /\ next \notin applied
             /\ applied' = applied \cup {next}
             /\ plan' = [plan EXCEPT ![p] = @ \ {next}]
             /\ UNCHANGED <<pc, hasDB, maxConns, up, starts, faulted>>

Migrated(p) ==
    /\ pc[p] = "migrate"
    /\ plan[p] = {}
    /\ Goto(p, "check")
    /\ UNCHANGED <<hasDB, maxConns, plan, up, applied, starts, faulted>>

\* Mistaken variant: a database that is behind will do.
CountMatchesBelow(p) == Cardinality(applied) <= Box[p]

\* Only the number of migrations is compared.
CountMatches(p) == Cardinality(applied) = Box[p]

checkMigrations(p) ==
    /\ pc[p] = "check"
    /\ \/ Exit(p, TRUE)
       \/ hasDB[p] /\ ~CountMatches(p) /\ Exit(p, FALSE)
       \/ /\ hasDB[p] => CountMatches(p)
          /\ Goto(p, "open")
          /\ UNCHANGED <<hasDB, maxConns, plan, up, applied, starts, faulted>>

\* pgxpool.ParseConfig refuses pool_max_conns = 0, but not an empty host:
\* the pool connects to some other database then, or to none.
PoolConfigParses(p) == maxConns[p] > 0

NewPoolDB(p) ==
    /\ pc[p] = "open"
    /\ \/ Exit(p, TRUE)
       \/ /\ PoolConfigParses(p)
          /\ Goto(p, "wait")
          /\ UNCHANGED <<hasDB, maxConns, plan, up, applied, starts, faulted>>

\* go monitor.Start(), go sender.Start()
StartComponent(p, c) ==
    /\ pc[p] = "wait"
    /\ c \notin up[p]
    /\ up' = [up EXCEPT ![p] = @ \cup {c}]
    /\ UNCHANGED <<pc, hasDB, maxConns, plan, applied, starts, faulted>>

PortTaken(p) == \E q \in Process : Port[q] = Port[p] /\ "server" \in up[q]

\* Mistaken variant: the error is only logged.
ListenErrorLogs(p, fault) ==
    /\ faulted' = (faulted \/ fault)
    /\ UNCHANGED <<pc, hasDB, maxConns, plan, up, applied, starts>>

ListenError(p, fault) == Exit(p, fault)

\* Server.Start: without a listener the process ends.
StartServer(p) ==
    /\ pc[p] = "wait"
    /\ "server" \notin up[p]
    /\ \/ ListenError(p, TRUE)
       \/ PortTaken(p) /\ ListenError(p, FALSE)
       \/ ~PortTaken(p) /\ StartComponent(p, "server")

\* Serve returns only with an error, Stop's ErrServerClosed among them.
ServeFails(p) ==
    /\ "server" \in up[p]
    /\ Exit(p, TRUE)

\* waitSignal, or the signal's default action before it runs.
Signal(p) ==
    /\ pc[p] # "exited"
    /\ Exit(p, TRUE)

----------------------------------------------------------------------------
Init ==
    /\ pc = [p \in Process |-> "exited"]
    /\ hasDB = [p \in Process |-> FALSE]
    /\ maxConns = [p \in Process |-> 0]
    /\ plan = [p \in Process |-> {}]
    /\ up = [p \in Process |-> {}]
    /\ applied = 1..Applied
    /\ starts = [p \in Process |-> 0]
    /\ faulted = FALSE

start(p) ==
    \/ Load(p) \/ InitLog(p)
    \/ PlanMigrations(p) \/ ApplyMigration(p) \/ Migrated(p) \/ checkMigrations(p)
    \/ NewPoolDB(p)

\* What the goroutines of a process do to come up.
comeUp(p) ==
    \/ start(p)
    \/ \E c \in {"monitor", "sender"} : StartComponent(p, c)
    \/ StartServer(p)

Next == \E p \in Process : Launch(p) \/ comeUp(p) \/ ServeFails(p) \/ Signal(p)

Spec == Init /\ [][Next]_vars

\* The goroutines of a process run.  None of them waits for another, so that it
\* is enough that one of them does.
Fairness == \A p \in Process : WF_vars(comeUp(p))

FairSpec == Spec /\ Fairness

----------------------------------------------------------------------------
\* A process whose components use the database, or are about to, has every
\* migration it was built with, though other processes may have migrated the
\* database in the meantime (db.go:108-121, main.go:85-93).
RunningIsMigrated ==
    \A p \in Process : pc[p] \in {"open", "wait"} /\ hasDB[p] => 1..Box[p] \subseteq applied

\* The migrations are applied in order and without gaps, whoever applies them
\* and whoever fails or is stopped half-way (db.go:76).
MigratedInOrder == applied = 1..Cardinality(applied)

\* Processes that migrate at the same time or want the same port do not all
\* give up: unless something else went wrong, one that knows every migration
\* of the database and was to migrate it leaves somebody running.
SomeoneSurvives ==
    ~faulted /\ (\E p \in Process \ NoMigrations :
                    starts[p] > 0 /\ applied \subseteq 1..Box[p])
        => \E p \in Process : pc[p] # "exited"

\* "starting" ends: the process has all its components or is gone.  It never
\* stays half up, without its server say (server.go:56-59, main.go:98-107).
AllOrNothing == \A p \in Process : pc[p] = "load" ~> up[p] = Component \/ pc[p] = "exited"
============================================================================
