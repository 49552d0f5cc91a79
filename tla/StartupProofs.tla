--------------------------- MODULE StartupProofs ---------------------------
(***************************************************************************)
(* Proofs about the start, for any number of processes, versions of the    *)
(* program and restarts: the migrations are applied without gaps, nothing  *)
(* runs on a database that lacks some, and processes that compete do not   *)
(* all give up.                                                            *)
(***************************************************************************)
EXTENDS Startup, FiniteSetTheorems, TLAPS

----------------------------------------------------------------------------
(* The invariant.                                                          *)

Label == {"exited", "load", "log", "plan", "migrate", "check", "open", "wait"}

StartupTypes ==
    /\ pc \in [Process -> Label]
    /\ hasDB \in [Process -> BOOLEAN]
    /\ maxConns \in [Process -> {0, 1}]
    /\ plan \in [Process -> SUBSET Int]
    /\ up \in [Process -> SUBSET Component]
    /\ starts \in [Process -> Nat]
    /\ faulted \in BOOLEAN

Count == Cardinality(applied)

\* The plan of a process that migrates is the end of its own migrations.  It
\* may lag behind the database and never leaves a gap to it.
PlanIsRest ==
    \A p \in Process :
        plan[p] # {} =>
            /\ pc[p] = "migrate"
            /\ \E k \in 1..(Count + 1) : k <= Box[p] /\ plan[p] = k..Box[p]

MigrationInv ==
    /\ StartupTypes
    /\ Count \in Nat /\ MigratedInOrder
    /\ PlanIsRest
    /\ RunningIsMigrated

\* The components run in the last state only.
ComponentsLast == \A p \in Process : up[p] # {} => pc[p] = "wait"

----------------------------------------------------------------------------
(* Intervals of migrations.                                                *)

\* What checkMigrations counts.
LEMMA CountOfInterval ==
    ASSUME NEW n \in Nat
    PROVE  Cardinality(1..n) = n
BY FS_Interval

\* The next migration of a plan is its first.
LEMMA MinOfInterval ==
    ASSUME NEW a \in Int, NEW b \in Int, a <= b
    PROVE  Min(a..b) = a
<1>1. a \in a..b /\ \A y \in a..b : a <= y
  OBVIOUS
<1>2. \A x \in a..b : (\A y \in a..b : x <= y) => x = a
  BY <1>1
<1> QED BY <1>1, <1>2 DEF Min

----------------------------------------------------------------------------
(* What each kind of step leaves alone.                                    *)

\* Every way a process ends.
LEMMA ExitStep ==
    ASSUME StartupTypes, NEW p \in Process, NEW fault \in BOOLEAN, Exit(p, fault)
    PROVE  /\ pc' = [pc EXCEPT ![p] = "exited"]
           /\ plan' = [plan EXCEPT ![p] = {}]
           /\ up' = [up EXCEPT ![p] = {}]
           /\ hasDB' = [hasDB EXCEPT ![p] = FALSE]
           /\ maxConns' = [maxConns EXCEPT ![p] = 0]
           /\ faulted' \in BOOLEAN
           /\ UNCHANGED <<applied, starts>>
BY DEF Exit, Goto, StartupTypes

\* A process that ends keeps the invariant.
LEMMA ExitKeepsMigration ==
    ASSUME MigrationInv, NEW p \in Process, NEW fault \in BOOLEAN, Exit(p, fault)
    PROVE  MigrationInv'
<1>1. /\ pc' = [pc EXCEPT ![p] = "exited"]
      /\ plan' = [plan EXCEPT ![p] = {}]
      /\ up' = [up EXCEPT ![p] = {}]
      /\ hasDB' = [hasDB EXCEPT ![p] = FALSE]
      /\ maxConns' = [maxConns EXCEPT ![p] = 0]
      /\ faulted' \in BOOLEAN
      /\ UNCHANGED <<applied, starts>>
  BY ExitStep DEF MigrationInv
<1>2. StartupTypes'
  BY <1>1 DEF MigrationInv, StartupTypes, Label
<1>3. Count' = Count /\ MigratedInOrder'
  BY <1>1 DEF MigrationInv, Count, MigratedInOrder
<1>4. PlanIsRest'
  BY <1>1, <1>3 DEF MigrationInv, StartupTypes, PlanIsRest
<1>5. RunningIsMigrated'
  BY <1>1 DEF MigrationInv, StartupTypes, RunningIsMigrated
<1> QED BY <1>2, <1>3, <1>4, <1>5 DEF MigrationInv

\* A step that only moves a process on: its plan, the database and, for a
\* process that is past the load, the configuration stay as they are.
LEMMA MoveKeepsMigration ==
    ASSUME MigrationInv, NEW p \in Process, NEW l \in Label,
           pc' = [pc EXCEPT ![p] = l], plan[p] = {},
           UNCHANGED <<plan, up, applied>>,
           starts' \in [Process -> Nat], faulted' \in BOOLEAN,
           hasDB' \in [Process -> BOOLEAN], maxConns' \in [Process -> {0, 1}],
           \A q \in Process \ {p} : hasDB'[q] = hasDB[q],
           l \in {"open", "wait"} /\ hasDB'[p] => 1..Box[p] \subseteq applied
    PROVE  MigrationInv'
<1>2. StartupTypes'
  BY DEF MigrationInv, StartupTypes
<1>3. Count' = Count /\ MigratedInOrder'
  BY DEF MigrationInv, Count, MigratedInOrder
<1>4. PlanIsRest'
  BY <1>3 DEF MigrationInv, StartupTypes, PlanIsRest
<1>5. RunningIsMigrated'
  BY DEF MigrationInv, StartupTypes, RunningIsMigrated
<1> QED BY <1>2, <1>3, <1>4, <1>5 DEF MigrationInv

----------------------------------------------------------------------------
(* The steps of the migrations.                                            *)

\* A process plans what the database lacks.
LEMMA PlanKeepsMigration ==
    ASSUME MigrationInv, NEW p \in Process, PlanMigrations(p)
    PROVE  MigrationInv'
<1>1. CASE \E fault \in BOOLEAN : Exit(p, fault)
  BY <1>1, ExitKeepsMigration
<1>2. CASE /\ hasDB[p] => applied \subseteq 1..Box[p]
           /\ plan' = [plan EXCEPT ![p] = IF hasDB[p] THEN Pending(p) ELSE {}]
           /\ Goto(p, "migrate")
           /\ UNCHANGED <<hasDB, maxConns, up, applied, starts, faulted>>
  <2>1. pc[p] = "plan" /\ Box[p] \in Nat /\ Count \in Nat /\ applied = 1..Count
    BY StartupAssumption DEF PlanMigrations, MigrationInv, MigratedInOrder, Count
  <2>2. Pending(p) = (Count + 1)..Box[p]
    BY <2>1 DEF Pending
  <2>3. StartupTypes'
    BY <1>2, <2>1, <2>2 DEF MigrationInv, StartupTypes, Goto, Label
  <2>4. Count' = Count /\ MigratedInOrder'
    BY <1>2 DEF MigrationInv, Count, MigratedInOrder
  <2>5. PlanIsRest'
    <3> SUFFICES ASSUME NEW q \in Process, plan'[q] # {}
                 PROVE  /\ pc'[q] = "migrate"
                        /\ \E k \in 1..(Count + 1) : k <= Box[q] /\ plan'[q] = k..Box[q]
      BY <2>4 DEF PlanIsRest
    <3>1. CASE q = p
      <4>1. pc'[q] = "migrate" /\ plan'[q] = (Count + 1)..Box[q]
        BY <1>2, <2>2, <3>1 DEF MigrationInv, StartupTypes, Goto
      <4>2. Count + 1 \in 1..(Count + 1) /\ Count + 1 <= Box[q]
        BY <2>1, <3>1, <4>1
      <4> QED BY <4>1, <4>2
    <3>2. CASE q # p
      BY <1>2, <3>2 DEF MigrationInv, StartupTypes, Goto, PlanIsRest
    <3> QED BY <3>1, <3>2
  <2>6. RunningIsMigrated'
    BY <1>2 DEF MigrationInv, StartupTypes, RunningIsMigrated, Goto
  <2> QED BY <2>1, <2>3, <2>4, <2>5, <2>6 DEF MigrationInv
<1> QED BY <1>1, <1>2 DEF PlanMigrations

\* The next migration of a plan, if nobody was faster, is the one the
\* database lacks first.
LEMMA NextMigration ==
    ASSUME MigrationInv, NEW p \in Process, plan[p] # {}, Min(plan[p]) \notin applied
    PROVE  /\ Box[p] \in Nat /\ Count < Box[p]
           /\ Min(plan[p]) = Count + 1
           /\ plan[p] = (Count + 1)..Box[p]
           /\ plan[p] \ {Count + 1} = (Count + 2)..Box[p]
           /\ applied \cup {Count + 1} = 1..(Count + 1)
           /\ Cardinality(applied \cup {Count + 1}) = Count + 1
<1>1. PICK k \in 1..(Count + 1) : k <= Box[p] /\ plan[p] = k..Box[p]
  BY DEF MigrationInv, PlanIsRest
<1>2. Box[p] \in Nat /\ Count \in Nat /\ applied = 1..Count
  BY StartupAssumption DEF MigrationInv, MigratedInOrder, Count
<1>3. Min(plan[p]) = k
  BY <1>1, <1>2, MinOfInterval
<1>4. k = Count + 1
  BY <1>1, <1>2, <1>3
<1>5. applied \cup {Count + 1} = 1..(Count + 1)
  BY <1>2
<1>6. Cardinality(applied \cup {Count + 1}) = Count + 1
  <2>1. Count + 1 \in Nat
    BY <1>2
  <2>2. Cardinality(1..(Count + 1)) = Count + 1
    BY <2>1, CountOfInterval
  <2> QED BY <1>5, <2>2
<1>7. plan[p] \ {Count + 1} = (Count + 2)..Box[p]
  BY <1>1, <1>2, <1>4
<1>8. Count < Box[p] /\ plan[p] = (Count + 1)..Box[p]
  BY <1>1, <1>2, <1>4
<1> QED BY <1>2, <1>3, <1>4, <1>5, <1>6, <1>7, <1>8

\* A migration is applied, or the process gives up.
LEMMA ApplyKeepsMigration ==
    ASSUME MigrationInv, NEW p \in Process, ApplyMigration(p)
    PROVE  MigrationInv'
<1>1. CASE \E fault \in BOOLEAN : Exit(p, fault)
  BY <1>1, ExitKeepsMigration
<1>2. CASE /\ Min(plan[p]) \notin applied
           /\ applied' = applied \cup {Min(plan[p])}
           /\ plan' = [plan EXCEPT ![p] = @ \ {Min(plan[p])}]
           /\ UNCHANGED <<pc, hasDB, maxConns, up, starts, faulted>>
  <2>1. pc[p] = "migrate" /\ plan[p] # {} /\ Count \in Nat
    BY DEF ApplyMigration, MigrationInv
  <2>2. /\ Box[p] \in Nat /\ Count < Box[p]
        /\ Min(plan[p]) = Count + 1
        /\ plan[p] \ {Count + 1} = (Count + 2)..Box[p]
        /\ applied \cup {Count + 1} = 1..(Count + 1)
        /\ Cardinality(applied \cup {Count + 1}) = Count + 1
    BY <1>2, <2>1, NextMigration
  <2>3. Count' = Count + 1 /\ Count' \in Nat
    BY <1>2, <2>1, <2>2 DEF Count
  <2>4. MigratedInOrder'
    BY <1>2, <2>2, <2>3 DEF Count, MigratedInOrder
  <2>5. StartupTypes'
    BY <1>2, <2>2 DEF MigrationInv, StartupTypes
  <2>6. PlanIsRest'
    <3> SUFFICES ASSUME NEW q \in Process, plan'[q] # {}
                 PROVE  /\ pc'[q] = "migrate"
                        /\ \E k \in 1..(Count + 2) : k <= Box[q] /\ plan'[q] = k..Box[q]
      BY <2>1, <2>3 DEF PlanIsRest
    <3>1. CASE q = p
      <4>1. plan'[q] = (Count + 2)..Box[q] /\ pc'[q] = "migrate"
        BY <1>2, <2>1, <2>2, <3>1 DEF MigrationInv, StartupTypes
      <4>2. Count + 2 \in 1..(Count + 2) /\ Count + 2 <= Box[q]
        BY <2>1, <2>2, <3>1, <4>1
      <4> QED BY <4>1, <4>2
    <3>2. CASE q # p
      <4>1. plan'[q] = plan[q] /\ pc'[q] = pc[q]
        BY <1>2, <3>2 DEF MigrationInv, StartupTypes
      <4>2. PICK k \in 1..(Count + 1) : k <= Box[q] /\ plan[q] = k..Box[q]
        BY <4>1 DEF MigrationInv, PlanIsRest
      <4>3. k \in 1..(Count + 2)
        BY <2>1
      <4> QED BY <4>1, <4>2, <4>3 DEF MigrationInv, PlanIsRest
    <3> QED BY <3>1, <3>2
  <2>7. RunningIsMigrated'
    BY <1>2 DEF MigrationInv, RunningIsMigrated
  <2> QED BY <2>3, <2>4, <2>5, <2>6, <2>7 DEF MigrationInv
<1> QED BY <1>1, <1>2 DEF ApplyMigration, MigrationError

\* checkMigrations counts, and the count stands for every migration.
LEMMA CheckKeepsMigration ==
    ASSUME MigrationInv, NEW p \in Process, checkMigrations(p)
    PROVE  MigrationInv'
<1>1. CASE \E fault \in BOOLEAN : Exit(p, fault)
  BY <1>1, ExitKeepsMigration
<1>2. CASE /\ hasDB[p] => CountMatches(p)
           /\ Goto(p, "open")
           /\ UNCHANGED <<hasDB, maxConns, plan, up, applied, starts, faulted>>
  <2>1. hasDB[p] => 1..Box[p] \subseteq applied
    BY <1>2 DEF CountMatches, MigrationInv, MigratedInOrder
  <2>2. plan[p] = {}
    BY DEF checkMigrations, MigrationInv, PlanIsRest
  <2> QED BY <1>2, <2>1, <2>2, MoveKeepsMigration DEF Goto, MigrationInv, StartupTypes, Label
<1> QED BY <1>1, <1>2 DEF checkMigrations
----------------------------------------------------------------------------
(* The theorems about the database.                                        *)

\* The database as it is found has its first migrations.
LEMMA InitMigrationInv == Init => MigrationInv
<1> SUFFICES ASSUME Init PROVE MigrationInv
  OBVIOUS
<1>1. applied = 1..Applied /\ Applied \in Nat
  BY StartupAssumption DEF Init
<1>2. Count = Applied /\ MigratedInOrder
  BY <1>1, CountOfInterval DEF Count, MigratedInOrder
<1>3. StartupTypes
  BY DEF Init, StartupTypes, Label
<1>4. PlanIsRest /\ RunningIsMigrated
  BY DEF Init, PlanIsRest, RunningIsMigrated
<1> QED BY <1>1, <1>2, <1>3, <1>4 DEF MigrationInv

\* Every step of every process keeps the database in order.
LEMMA NextMigrationInv ==
    ASSUME MigrationInv, [Next]_vars
    PROVE  MigrationInv'
<1>1. CASE UNCHANGED vars
  BY <1>1 DEF vars, MigrationInv, StartupTypes, Count, MigratedInOrder, PlanIsRest,
              RunningIsMigrated
<1>2. ASSUME NEW p \in Process, \E fault \in BOOLEAN : Exit(p, fault)
      PROVE  MigrationInv'
  BY <1>2, ExitKeepsMigration
<1>3. ASSUME NEW p \in Process, Launch(p) PROVE MigrationInv'
  <2>1. plan[p] = {}
    BY <1>3 DEF Launch, MigrationInv, PlanIsRest
  <2>2. starts' \in [Process -> Nat] /\ "load" \in Label
    BY <1>3 DEF Launch, MigrationInv, StartupTypes, Label
  <2> QED BY <1>3, <2>1, <2>2, MoveKeepsMigration DEF Launch, Goto, MigrationInv, StartupTypes
<1>4. ASSUME NEW p \in Process, Load(p) PROVE MigrationInv'
  <2>1. CASE Exit(p, TRUE)
    BY <1>2, <2>1
  <2>2. ASSUME NEW db \in BOOLEAN, NEW conns \in {0, 1},
               hasDB' = [hasDB EXCEPT ![p] = db],
               maxConns' = [maxConns EXCEPT ![p] = conns],
               faulted' = (faulted \/ ~db \/ conns = 0),
               Goto(p, "log"), UNCHANGED <<plan, up, applied, starts>>
        PROVE  MigrationInv'
    <3>1. plan[p] = {}
      BY <1>4 DEF Load, MigrationInv, PlanIsRest
    <3>2. /\ hasDB' \in [Process -> BOOLEAN] /\ maxConns' \in [Process -> {0, 1}]
          /\ faulted' \in BOOLEAN /\ "log" \in Label
          /\ \A q \in Process \ {p} : hasDB'[q] = hasDB[q]
      BY <2>2 DEF MigrationInv, StartupTypes, Label
    <3> QED BY <2>2, <3>1, <3>2, MoveKeepsMigration DEF Goto, MigrationInv, StartupTypes
  <2> QED BY <1>4, <2>1, <2>2 DEF Load
<1>5. ASSUME NEW p \in Process, InitLog(p) PROVE MigrationInv'
  <2>1. CASE Exit(p, TRUE)
    BY <1>2, <2>1
  <2>2. CASE /\ Goto(p, IF p \in NoMigrations THEN "check" ELSE "plan")
             /\ UNCHANGED <<hasDB, maxConns, plan, up, applied, starts, faulted>>
    <3>1. plan[p] = {}
      BY <1>5 DEF InitLog, MigrationInv, PlanIsRest
    <3> QED BY <2>2, <3>1, MoveKeepsMigration DEF Goto, MigrationInv, StartupTypes, Label
  <2> QED BY <1>5, <2>1, <2>2 DEF InitLog
<1>6. ASSUME NEW p \in Process, Migrated(p) PROVE MigrationInv'
  BY <1>6, MoveKeepsMigration DEF Migrated, Goto, MigrationInv, StartupTypes, Label
<1>7. ASSUME NEW p \in Process, NewPoolDB(p) PROVE MigrationInv'
  <2>1. CASE Exit(p, TRUE)
    BY <1>2, <2>1
  <2>2. CASE Goto(p, "wait") /\ UNCHANGED <<hasDB, maxConns, plan, up, applied, starts, faulted>>
    <3>1. plan[p] = {}
      BY <1>7 DEF NewPoolDB, MigrationInv, PlanIsRest
    <3>2. hasDB[p] => 1..Box[p] \subseteq applied
      BY <1>7 DEF NewPoolDB, MigrationInv, RunningIsMigrated
    <3> QED BY <2>2, <3>1, <3>2, MoveKeepsMigration DEF Goto, MigrationInv, StartupTypes, Label
  <2> QED BY <1>7, <2>1, <2>2 DEF NewPoolDB
<1>8. ASSUME NEW p \in Process, NEW c \in Component, StartComponent(p, c)
      PROVE  MigrationInv'
  <2>1. UNCHANGED <<pc, hasDB, maxConns, plan, applied, starts, faulted>>
        /\ up' \in [Process -> SUBSET Component]
    BY <1>8 DEF StartComponent, MigrationInv, StartupTypes
  <2> QED BY <2>1 DEF MigrationInv, StartupTypes, Count, MigratedInOrder, PlanIsRest,
                      RunningIsMigrated
<1>9. ASSUME NEW p \in Process, StartServer(p) PROVE MigrationInv'
  BY <1>2, <1>8, <1>9 DEF StartServer, ListenError, Component
<1>10. ASSUME NEW p \in Process, ServeFails(p) \/ Signal(p) PROVE MigrationInv'
  BY <1>2, <1>10 DEF ServeFails, Signal
<1> QED
  BY <1>1, <1>3, <1>4, <1>5, <1>6, <1>7, <1>8, <1>9, <1>10, PlanKeepsMigration,
     ApplyKeepsMigration, CheckKeepsMigration
     DEF Next, comeUp, start, Component

\* The invariant holds whatever the processes do.
LEMMA MigrationInvariant == Spec => []MigrationInv
BY InitMigrationInv, NextMigrationInv, PTL DEF Spec

\* The migrations are applied in order and without gaps, whoever applies them
\* and whoever fails or is stopped half-way (db.go:76).
THEOREM MigratedInOrderHolds == Spec => []MigratedInOrder
<1>1. MigrationInv => MigratedInOrder
  BY DEF MigrationInv
<1> QED BY <1>1, MigrationInvariant, PTL

\* A process whose components use the database has every migration it was
\* built with, though only their number was compared (db.go:108-121).
THEOREM RunningIsMigratedHolds == Spec => []RunningIsMigrated
<1>1. MigrationInv => RunningIsMigrated
  BY DEF MigrationInv
<1> QED BY <1>1, MigrationInvariant, PTL
----------------------------------------------------------------------------
(* The components.                                                         *)

\* No step lets a component run before the pool is open (main.go:98-107).
LEMMA NextComponentsLast ==
    ASSUME StartupTypes, ComponentsLast, [Next]_vars
    PROVE  ComponentsLast'
<1>1. CASE UNCHANGED vars
  BY <1>1 DEF vars, ComponentsLast
<1>2. ASSUME NEW p \in Process, NEW fault \in BOOLEAN, Exit(p, fault)
      PROVE  ComponentsLast'
  BY <1>2, ExitStep DEF ComponentsLast, StartupTypes
<1>3. ASSUME NEW p \in Process, NEW l \in Label, pc' = [pc EXCEPT ![p] = l],
             up' = up, pc[p] # "wait"
      PROVE  ComponentsLast'
  BY <1>3 DEF ComponentsLast, StartupTypes
<1>4. ASSUME NEW p \in Process, NEW c, StartComponent(p, c)
      PROVE  ComponentsLast'
  BY <1>4 DEF StartComponent, ComponentsLast, StartupTypes
<1>5. ASSUME NEW p \in Process, Launch(p) PROVE ComponentsLast'
  BY <1>3, <1>5 DEF Launch, Goto, Label
<1>6. ASSUME NEW p \in Process, start(p) PROVE ComponentsLast'
  <2>1. CASE Load(p)
    BY <1>2, <1>3, <2>1 DEF Load, Goto, Label
  <2>2. CASE InitLog(p)
    BY <1>2, <1>3, <2>2 DEF InitLog, Goto, Label
  <2>3. CASE PlanMigrations(p)
    BY <1>2, <1>3, <2>3 DEF PlanMigrations, Goto, Label
  <2>4. CASE ApplyMigration(p)
    BY <1>2, <2>4 DEF ApplyMigration, MigrationError, ComponentsLast
  <2>5. CASE Migrated(p)
    BY <1>3, <2>5 DEF Migrated, Goto, Label
  <2>6. CASE checkMigrations(p)
    BY <1>2, <1>3, <2>6 DEF checkMigrations, Goto, Label
  <2>7. CASE NewPoolDB(p)
    BY <1>2, <1>3, <2>7 DEF NewPoolDB, Goto, Label
  <2> QED BY <1>6, <2>1, <2>2, <2>3, <2>4, <2>5, <2>6, <2>7 DEF start
<1>7. ASSUME NEW p \in Process, StartServer(p) PROVE ComponentsLast'
  BY <1>2, <1>4, <1>7 DEF StartServer, ListenError
<1>8. ASSUME NEW p \in Process, ServeFails(p) \/ Signal(p) PROVE ComponentsLast'
  BY <1>2, <1>8 DEF ServeFails, Signal
<1> QED BY <1>1, <1>4, <1>5, <1>6, <1>7, <1>8 DEF Next, comeUp

\* The components of a process run in its last state only.
LEMMA ComponentsLastHolds == Spec => []ComponentsLast
<1>1. Init => ComponentsLast
  BY DEF Init, ComponentsLast
<1>2. MigrationInv /\ ComponentsLast /\ [Next]_vars => ComponentsLast'
  BY NextComponentsLast DEF MigrationInv
<1> QED BY <1>1, <1>2, MigrationInvariant, PTL DEF Spec

----------------------------------------------------------------------------
(* Competing processes.                                                    *)

\* As long as nothing has failed, whoever is past the load has a database.
HasConfiguration ==
    ~faulted => \A p \in Process : pc[p] \notin {"exited", "load"} => hasDB[p]

\* Nothing but a fault or a process with the same port can stop p, unless
\* another process takes its place: p has yet to plan and knows every
\* migration, or its plan is exactly what the database lacks, or the database
\* has what p wants.
OnTrack(p) ==
    \/ pc[p] \in {"open", "wait"}
    \/ p \notin NoMigrations /\ pc[p] \in {"load", "log", "plan"} /\ Count <= Box[p]
    \/ pc[p] = "migrate" /\ Count <= Box[p] /\ plan[p] = (Count + 1)..Box[p]
    \/ pc[p] = "check" /\ Count = Box[p]

\* A process that was started to migrate the database and knows all of it.
Qualified(p) == p \notin NoMigrations /\ starts[p] > 0 /\ Count <= Box[p]

\* A process that could have come up is up or has left one on its track.
Survival ==
    ~faulted => ((\E p \in Process : Qualified(p)) => \E p \in Process : OnTrack(p))

SurvivalInv == MigrationInv /\ ComponentsLast /\ HasConfiguration /\ Survival

\* A refusal of the database is one by a process that is not on its track.
LEMMA SubsetIsCount ==
    ASSUME MigrationInv, NEW p \in Process
    PROVE  applied \subseteq 1..Box[p] <=> Count <= Box[p]
<1>1. Box[p] \in Nat /\ Count \in Nat /\ applied = 1..Count
  BY StartupAssumption DEF MigrationInv, MigratedInOrder, Count
<1>2. CASE Count = 0
  BY <1>1, <1>2
<1>3. CASE Count > 0
  <2>1. Count \in applied
    BY <1>1, <1>3
  <2> QED BY <1>1, <2>1
<1> QED BY <1>1, <1>2, <1>3
\* A process is past the load only with a configuration, unless something
\* has failed.
LEMMA NextHasConfiguration ==
    ASSUME StartupTypes, HasConfiguration, [Next]_vars
    PROVE  HasConfiguration'
<1>1. CASE UNCHANGED vars
  BY <1>1 DEF vars, HasConfiguration
<1>2. ASSUME NEW p \in Process, NEW fault \in BOOLEAN, Exit(p, fault)
      PROVE  HasConfiguration'
  BY <1>2 DEF Exit, Goto, HasConfiguration, StartupTypes
<1>3. ASSUME NEW p \in Process, NEW l \in Label, pc' = [pc EXCEPT ![p] = l],
             UNCHANGED <<hasDB, maxConns, faulted>>, l = "load" \/ pc[p] \notin {"exited", "load"}
      PROVE  HasConfiguration'
  BY <1>3 DEF HasConfiguration, StartupTypes
<1>4. ASSUME NEW p \in Process, Launch(p) PROVE HasConfiguration'
  BY <1>3, <1>4 DEF Launch, Goto, Label
<1>5. ASSUME NEW p \in Process, start(p) PROVE HasConfiguration'
  <2>1. CASE Load(p)
    <3>1. CASE Exit(p, TRUE)
      BY <1>2, <3>1
    <3>2. ASSUME NEW db \in BOOLEAN, NEW conns \in {0, 1},
                 hasDB' = [hasDB EXCEPT ![p] = db],
                 faulted' = (faulted \/ ~db \/ conns = 0),
                 Goto(p, "log")
          PROVE  HasConfiguration'
      BY <3>2 DEF HasConfiguration, StartupTypes, Goto
    <3> QED BY <2>1, <3>1, <3>2 DEF Load
  <2>2. CASE InitLog(p)
    BY <1>2, <1>3, <2>2 DEF InitLog, Goto, Label
  <2>3. CASE PlanMigrations(p)
    BY <1>2, <1>3, <2>3 DEF PlanMigrations, Goto, Label
  <2>4. CASE ApplyMigration(p)
    <3>1. (\E fault \in BOOLEAN : Exit(p, fault)) \/ UNCHANGED <<pc, hasDB, maxConns, faulted>>
      BY <2>4 DEF ApplyMigration, MigrationError
    <3>2. CASE UNCHANGED <<pc, hasDB, maxConns, faulted>>
      BY <3>2 DEF HasConfiguration
    <3> QED BY <1>2, <3>1, <3>2
  <2>5. CASE Migrated(p)
    BY <1>3, <2>5 DEF Migrated, Goto, Label
  <2>6. CASE checkMigrations(p)
    BY <1>2, <1>3, <2>6 DEF checkMigrations, Goto, Label
  <2>7. CASE NewPoolDB(p)
    BY <1>2, <1>3, <2>7 DEF NewPoolDB, Goto, Label
  <2> QED BY <1>5, <2>1, <2>2, <2>3, <2>4, <2>5, <2>6, <2>7 DEF start
<1>6. ASSUME NEW p \in Process, NEW c, StartComponent(p, c) PROVE HasConfiguration'
  BY <1>6 DEF StartComponent, HasConfiguration
<1>7. ASSUME NEW p \in Process, StartServer(p) PROVE HasConfiguration'
  BY <1>2, <1>6, <1>7 DEF StartServer, ListenError
<1>8. ASSUME NEW p \in Process, ServeFails(p) \/ Signal(p) PROVE HasConfiguration'
  BY <1>2, <1>8 DEF ServeFails, Signal
<1> QED BY <1>1, <1>4, <1>5, <1>6, <1>7, <1>8 DEF Next, comeUp

\* A process that does not move stays on its track while the database does
\* not change.
LEMMA OtherOnTrack ==
    ASSUME NEW q \in Process, OnTrack(q), pc'[q] = pc[q], plan'[q] = plan[q],
           applied' = applied
    PROVE  OnTrack(q)'
BY DEF OnTrack, Count

\* A process on its track that fails without a fault of its own has lost the
\* port to one that is up.
LEMMA TrackExit ==
    ASSUME SurvivalInv, NEW p \in Process, OnTrack(p), Exit(p, FALSE), ~faulted,
           PlanMigrations(p) \/ ApplyMigration(p) \/ checkMigrations(p) \/ StartServer(p),
           ~faulted'
    PROVE  \E q \in Process : OnTrack(q)'
<1>1. /\ Count \in Nat /\ Box[p] \in Nat /\ applied = 1..Count
      /\ pc \in [Process -> Label]
  BY StartupAssumption DEF SurvivalInv, MigrationInv, StartupTypes, MigratedInOrder, Count
<1>2. pc'[p] = "exited" /\ ~Exit(p, TRUE)
  BY <1>1 DEF Exit, Goto
<1>3. CASE PlanMigrations(p)
  <2>1. pc[p] = "plan" /\ ~(applied \subseteq 1..Box[p])
    BY <1>2, <1>3, <1>1 DEF PlanMigrations, Goto, Exit
  <2> QED BY <2>1, SubsetIsCount DEF OnTrack, SurvivalInv
<1>4. CASE ApplyMigration(p)
  <2>1. pc[p] = "migrate" /\ plan[p] # {} /\ Min(plan[p]) \in applied
    <3>1. pc[p] = "migrate" /\ pc'[p] # pc[p]
      BY <1>2, <1>4 DEF ApplyMigration
    <3> QED BY <1>2, <1>4, <3>1 DEF ApplyMigration, MigrationError
  <2>2. plan[p] = (Count + 1)..Box[p] /\ Count + 1 <= Box[p]
    BY <1>1, <2>1 DEF OnTrack
  <2>3. Min(plan[p]) = Count + 1
    BY <1>1, <2>2, MinOfInterval
  <2> QED BY <1>1, <2>1, <2>3
<1>5. CASE checkMigrations(p)
  <2>1. pc[p] = "check" /\ Count # Box[p]
    BY <1>2, <1>5, <1>1 DEF checkMigrations, CountMatches, Count, Goto, Exit
  <2> QED BY <2>1 DEF OnTrack
<1>6. CASE StartServer(p)
  <2>1. pc[p] = "wait" /\ "server" \notin up[p] /\ PortTaken(p)
    BY <1>2, <1>6, <1>1 DEF StartServer, StartComponent, ListenError, Exit
  <2>2. PICK q \in Process : "server" \in up[q]
    BY <2>1 DEF PortTaken
  <2>3. pc[q] = "wait" /\ q # p
    BY <2>1, <2>2 DEF SurvivalInv, ComponentsLast
  <2>4. pc'[q] = "wait"
    BY <1>1, <2>3 DEF Exit, Goto
  <2> QED BY <2>4 DEF OnTrack
<1> QED BY <1>3, <1>4, <1>5, <1>6
\* Every step keeps a process on its track, if one ever was to be.
LEMMA NextSurvival ==
    ASSUME SurvivalInv, [Next]_vars
    PROVE  Survival'
<1> SUFFICES ASSUME ~faulted', \E p \in Process : Qualified(p)'
             PROVE  \E p \in Process : OnTrack(p)'
  BY DEF Survival
<1>1. /\ pc \in [Process -> Label] /\ plan \in [Process -> SUBSET Int]
      /\ starts \in [Process -> Nat] /\ Count \in Nat /\ applied = 1..Count
  BY DEF SurvivalInv, MigrationInv, StartupTypes, MigratedInOrder, Count
<1>2. ~faulted
  BY DEF Next, comeUp, vars, Launch, start, Load, InitLog, PlanMigrations, ApplyMigration,
         MigrationError, Migrated, checkMigrations, NewPoolDB, StartComponent, StartServer,
         ListenError, ServeFails, Signal, Exit
<1>3. ASSUME applied' = applied, starts' = starts
      PROVE  \E q \in Process : OnTrack(q)
  BY <1>2, <1>3 DEF SurvivalInv, Survival, Qualified, Count
<1>4. \A p \in Process : ~Exit(p, TRUE)
  BY DEF Exit
<1>5. CASE UNCHANGED vars
  BY <1>3, <1>5, OtherOnTrack DEF vars
<1>6. ASSUME NEW p \in Process, NEW l \in Label, pc' = [pc EXCEPT ![p] = l],
             UNCHANGED <<applied, starts>>,
             \A q \in Process \ {p} : plan'[q] = plan[q],
             OnTrack(p) => \E q \in Process : OnTrack(q)'
      PROVE  \E q \in Process : OnTrack(q)'
  <2>1. PICK q \in Process : OnTrack(q)
    BY <1>3, <1>6
  <2>2. CASE q = p
    BY <1>6, <2>1, <2>2
  <2>3. CASE q # p
    BY <1>1, <1>6, <2>1, <2>3, OtherOnTrack
  <2> QED BY <2>2, <2>3
<1>7. ASSUME NEW p \in Process, Exit(p, FALSE),
             PlanMigrations(p) \/ ApplyMigration(p) \/ checkMigrations(p) \/ StartServer(p)
      PROVE  \E q \in Process : OnTrack(q)'
  <2>1. OnTrack(p) => \E q \in Process : OnTrack(q)'
    BY <1>2, <1>7, TrackExit
  <2> QED BY <1>1, <1>6, <1>7, <2>1 DEF Exit, Goto, Label
<1>8. ASSUME NEW p \in Process, Launch(p) PROVE \E q \in Process : OnTrack(q)'
  <2>1. PICK r \in Process : Qualified(r)'
    OBVIOUS
  <2>2. CASE r = p
    <3>1. OnTrack(p)'
      BY <1>1, <1>8, <2>1, <2>2 DEF Launch, Goto, Qualified, OnTrack
    <3> QED BY <3>1
  <2>3. CASE r # p
    <3>1. Qualified(r)
      BY <1>1, <1>8, <2>1, <2>3 DEF Launch, Qualified, Count
    <3>2. PICK q \in Process : OnTrack(q)
      BY <1>2, <3>1 DEF SurvivalInv, Survival
    <3>3. q # p
      BY <1>8, <3>2 DEF Launch, OnTrack
    <3> QED BY <1>1, <1>8, <3>2, <3>3, OtherOnTrack DEF Launch, Goto
  <2> QED BY <2>2, <2>3
<1>9. ASSUME NEW p \in Process, start(p) PROVE \E q \in Process : OnTrack(q)'
  <2>1. CASE Load(p)
    <3>1. /\ pc[p] = "load" /\ pc' = [pc EXCEPT ![p] = "log"]
          /\ UNCHANGED <<applied, starts, plan>>
      BY <1>4, <2>1 DEF Load, Goto
    <3>2. OnTrack(p) => OnTrack(p)'
      BY <1>1, <3>1 DEF OnTrack, Count
    <3> QED BY <1>6, <3>1, <3>2 DEF Label
  <2>2. CASE InitLog(p)
    <3>1. /\ pc[p] = "log" /\ UNCHANGED <<applied, starts, plan>>
          /\ pc' = [pc EXCEPT ![p] = IF p \in NoMigrations THEN "check" ELSE "plan"]
      BY <1>4, <2>2 DEF InitLog, Goto
    <3>2. OnTrack(p) => OnTrack(p)'
      BY <1>1, <3>1 DEF OnTrack, Count
    <3> QED BY <1>6, <3>1, <3>2 DEF Label
  <2>3. CASE PlanMigrations(p)
    <3>1. CASE Exit(p, FALSE)
      BY <1>7, <2>3, <3>1
    <3>2. CASE ~Exit(p, FALSE)
      <4>1. /\ pc[p] = "plan" /\ hasDB[p] /\ applied \subseteq 1..Box[p]
            /\ plan' = [plan EXCEPT ![p] = Pending(p)]
            /\ pc' = [pc EXCEPT ![p] = "migrate"]
            /\ UNCHANGED <<applied, starts>>
        BY <1>2, <1>4, <2>3, <3>2 DEF PlanMigrations, Goto, SurvivalInv, HasConfiguration
      <4>2. Box[p] \in Nat /\ Count <= Box[p]
        BY <4>1, SubsetIsCount, StartupAssumption DEF SurvivalInv
      <4>3. Pending(p) = (Count + 1)..Box[p]
        BY <1>1, <4>2 DEF Pending
      <4>4. OnTrack(p)'
        BY <1>1, <4>1, <4>2, <4>3 DEF OnTrack, Count
      <4> QED BY <4>4
    <3> QED BY <3>1, <3>2
  <2>4. CASE ApplyMigration(p)
    <3>1. CASE Exit(p, FALSE)
      BY <1>7, <2>4, <3>1
    <3>2. CASE ~Exit(p, FALSE)
      <4>1. /\ pc[p] = "migrate" /\ plan[p] # {} /\ Min(plan[p]) \notin applied
            /\ applied' = applied \cup {Min(plan[p])}
            /\ plan' = [plan EXCEPT ![p] = @ \ {Min(plan[p])}]
            /\ UNCHANGED pc
        BY <1>4, <2>4, <3>2 DEF ApplyMigration, MigrationError
      <4>2. /\ Box[p] \in Nat /\ Count < Box[p]
            /\ Min(plan[p]) = Count + 1
            /\ plan[p] \ {Count + 1} = (Count + 2)..Box[p]
            /\ Cardinality(applied \cup {Count + 1}) = Count + 1
        BY <4>1, NextMigration DEF SurvivalInv
      <4>3. Count' = Count + 1 /\ plan'[p] = (Count + 2)..Box[p] /\ pc'[p] = "migrate"
        BY <1>1, <4>1, <4>2 DEF Count
      <4>4. OnTrack(p)'
        BY <1>1, <4>2, <4>3 DEF OnTrack
      <4> QED BY <4>4
    <3> QED BY <3>1, <3>2
  <2>5. CASE Migrated(p)
    <3>1. /\ pc[p] = "migrate" /\ plan[p] = {} /\ pc' = [pc EXCEPT ![p] = "check"]
          /\ UNCHANGED <<applied, starts, plan>> /\ Box[p] \in Nat
      BY <2>5, StartupAssumption DEF Migrated, Goto
    <3>2. OnTrack(p) => Count = Box[p]
      <4>1. Count < Box[p] => Count + 1 \in (Count + 1)..Box[p]
        BY <1>1, <3>1
      <4> QED BY <1>1, <3>1, <4>1 DEF OnTrack
    <3>3. OnTrack(p) => OnTrack(p)'
      BY <1>1, <3>1, <3>2 DEF OnTrack, Count
    <3> QED BY <1>6, <3>1, <3>3 DEF Label
  <2>6. CASE checkMigrations(p)
    <3>1. CASE Exit(p, FALSE)
      BY <1>7, <2>6, <3>1
    <3>2. CASE ~Exit(p, FALSE)
      BY <1>1, <1>4, <2>6, <3>2 DEF checkMigrations, Goto, OnTrack
    <3> QED BY <3>1, <3>2
  <2>7. CASE NewPoolDB(p)
    BY <1>1, <1>4, <2>7 DEF NewPoolDB, Goto, OnTrack
  <2> QED BY <1>9, <2>1, <2>2, <2>3, <2>4, <2>5, <2>6, <2>7 DEF start
<1>10. ASSUME NEW p \in Process, NEW c, StartComponent(p, c)
       PROVE  \E q \in Process : OnTrack(q)'
  BY <1>3, <1>10, OtherOnTrack DEF StartComponent
<1>11. ASSUME NEW p \in Process, StartServer(p) PROVE \E q \in Process : OnTrack(q)'
  BY <1>4, <1>7, <1>10, <1>11 DEF StartServer, ListenError
<1>12. ASSUME NEW p \in Process, ServeFails(p) \/ Signal(p)
       PROVE  \E q \in Process : OnTrack(q)'
  BY <1>4, <1>12 DEF ServeFails, Signal
<1> QED BY <1>5, <1>8, <1>9, <1>10, <1>11, <1>12 DEF Next, comeUp

\* Processes that migrate at the same time or want the same port do not all
\* give up: unless something else went wrong, one that knows every migration
\* of the database and was to migrate it leaves somebody running.
THEOREM SomeoneSurvivesHolds == Spec => []SomeoneSurvives
<1>1. Init /\ MigrationInv => HasConfiguration /\ Survival
  BY DEF Init, HasConfiguration, Survival, Qualified
<1>2. ASSUME MigrationInv, ComponentsLast, HasConfiguration, Survival, [Next]_vars
      PROVE  HasConfiguration' /\ Survival'
  BY <1>2, NextHasConfiguration, NextSurvival DEF SurvivalInv, MigrationInv
<1>3. Spec => [](HasConfiguration /\ Survival)
  BY <1>1, <1>2, MigrationInvariant, ComponentsLastHolds, PTL DEF Spec
<1>4. ASSUME MigrationInv, Survival PROVE SomeoneSurvives
  <2> SUFFICES ASSUME ~faulted, NEW p \in Process \ NoMigrations, starts[p] > 0,
                      applied \subseteq 1..Box[p]
               PROVE  \E q \in Process : pc[q] # "exited"
    BY DEF SomeoneSurvives
  <2>1. Qualified(p)
    BY <1>4, SubsetIsCount DEF Qualified
  <2>2. PICK q \in Process : OnTrack(q)
    BY <1>4, <2>1 DEF Survival
  <2> QED BY <2>2 DEF OnTrack
<1> QED BY <1>3, <1>4, MigrationInvariant, PTL
============================================================================
