# zkevm-pool-manager: TLA+ models and proofs

The pool manager takes raw L2 transactions over JSON-RPC, stores them in a
Postgres table, sends them to the sequencer and follows them until the L2 node
has a receipt. This directory models that path: the retry list and the monitor,
the sender with its callers, the table, the server's handling of requests, the
start of the process on a database that must be migrated, and the conversions.

## 1. Inventory

| component | state | operations | talks to |
|---|---|---|---|
| server (`server/server.go`, `handler.go`, `types.go`, `errors.go`) | per connection: the request, the responses so far | check, parse, dispatch a call, reply | endpoints, in the connection's goroutine |
| endpoints (`server/endpoints.go`) | none | `SendRawTransaction` | `PoolDB.AddL2Transaction`, then `Sender.SendL2Transaction`, which blocks |
| sender (`sender/sender.go`) | `requestChan`, one `sendRequest` with a wait group per call | `SendL2Transaction`, workers, pending loop of the start, resend loop | table, sequencer, `Monitor.AddL2Transaction` |
| monitor (`monitor/monitor.go`) | `requestChan`, `requestRetryList`, `requestRetryCond` | `AddL2Transaction`, workers, retry checker, load at the start | table, L2 node |
| retry list (`monitor/request_list.go`) | map by id, slice sorted by `nextRetry`, mutex | `add`, `delete`, `len`, `getByIndex` | used by monitor workers, checker and callers |
| table (`db/pooldb.go`, `types/l2transaction.go`) | `pool.transaction` | one INSERT, one SELECT by status, one UPDATE by id | Postgres |
| start-up (`cmd/main.go`, `config/config.go`, `db/db.go`, `log.Init`) | the applied migrations, in the database | load the configuration, migrate, check the migrations, connect; then monitor, sender and server, each in a goroutine of its own | all |
| hex, encoding (`hex/hex.go`, `encoding/encoding.go`) | none | conversions between strings, numbers and bytes | `hex.DecodeHex` is used by the endpoint |
| log, mocks, scripts, version | none | | |

A transaction's status goes from `pending` to `sent` or `invalid` (sender), and
from `sent` to `confirmed`, `failed` or `expired` (monitor). `resend` is set from
outside, in the table. Nothing locks a row: whoever has read it may update it.

What is hard here:

* requests are pointers that travel between list, channel, goroutines and workers,
  and their sort key is written without the list's mutex;
* the checker uses three critical sections for what is logically one, and a
  condition variable whose predicate it tests outside the lock;
* the same row may be handled twice at once (start-up against handlers, resend
  against an old request);
* a crash may come anywhere; only the table and the sequencer survive;
* calls to the sequencer time out and may arrive later, statements fail, or are
  applied and reported as failed, or return fewer rows;
* clients go while their request is served, and send it again;
* processes of two versions migrate one database at the same time, and a
  goroutine that fails ends its process, whatever the others do;
* nothing but the id of a row is unique: a raw transaction that comes in twice
  makes two rows of one hash, and one whose INSERT fails is sent and followed
  under id 0.

What makes the parts correct: the list's map and slice agree and the slice is
sorted; a request has one owner; a transaction is monitored until its status is
final; a row marked as sent is at the sequencer and monitored; every call returns
and every pending row is sent; a refused HTTP request has had no effect and a
served one is handled as a whole, call by call; no component runs on its database
before that is migrated; what is encoded can be decoded. `PROJECT.json` lists the
hazards line by line.

## 2. Modules

| module | models | checked by |
|---|---|---|
| `RequestList` | the retry list; each method is one action since it holds the mutex throughout | `MCRequestList` |
| `RequestListProofs` | proofs about it | tlapm |
| `PoolDB` | the table: the status of each row, and the ways a statement fails (`DBFaults`) | as part of the next ones |
| `WorkQueue` | abstract: a request that is submitted is taken by one worker | implemented by `Monitor` and `Sender` |
| `Follower` | abstract, extends `PoolDB`: what others may expect of the monitor | implemented by `Monitor`, used by `Sender` |
| `ChannelLemmas` | facts about a channel as a sequence | tlapm |
| `Monitor` | extends `RequestList` and `PoolDB`: every goroutine of the monitor, and its callers | `MCMonitor` |
| `MonitorRefinement` | the mappings from `Monitor` to `WorkQueue` and `Follower` | `MCMonitor` |
| `MonitorProofs` | proofs about `Monitor`; uses `RequestListProofs` and `ChannelLemmas` | tlapm |
| `MonitorRefinementProofs` | that the mappings are refinements; uses `MonitorProofs` | tlapm |
| `Sender` | extends `Follower`: every goroutine of the sender, and its callers; crash and restart | `MCSender` |
| `SenderProofs` | proofs about it; uses `ChannelLemmas` | tlapm |
| `Server` | a connection's goroutine, from the request to the reply | `MCServer` |
| `ServerProofs` | proofs about it | tlapm |
| `Startup` | processes that start and end on one database | `MCStartup` |
| `StartupProofs` | proofs about it | tlapm |
| `Codec` | the conversions of `hex` and `encoding` | `MCCodec` |
| `CodecProofs` | proofs about it | tlapm |

Operators named "mistaken variant" in the modules are never used by a
specification. They are the mutants of `PROJECT.json`: put in place of the
definition they precede, each makes TLC find the property it is listed with violated.

### RequestList

`list`, `sorted` and `nextRetry` are the two containers and the field of every
request. `add`, `delete` and `len` follow the methods; `sort.Search` is `search`,
the least index that satisfies the predicate, which is what bisection returns on
a sorted slice (`SortedByRetry` is the premise). Times are ticks;
`TicksPerMilli` separates the full instant, which `delete` compares, from
`UnixMilli`, which the order uses. A request may be written by its owner while it
is not listed (`SetNextRetry`): that is the list's contract with its callers.

`delete` finds the request in the map by its id, but its place in the slice by the
instant and the hash. Rows of one hash exist, so it may take one request out of the
map and its twin out of the slice. `Mixup` names that step. It is part of every
specification here; what comes after it is only modelled as far as `Readable`: a
bisection that looks up a request the map has lost reads a nil pointer, which is the
end of the process. `ConsistentKept` says that nothing else parts map and slice.

### Monitor

Program counters follow the code: a caller goes `enter`, `add`, `len`, `signal`;
a worker `receive`, `receipt`, `update`, `delete` or `schedule`, `add`, `len`,
`signal`; the checker `len`, `get`, then `expire`/`remove`, `retry`, `sleep`, or
`wait` and `waiting`. Each lock of the list's mutex, each statement and each RPC is
one action. `Signal` has an effect only in `waiting`, as for `sync.Cond`.
`getByIndex(0)` on an empty slice is the state `panic`, after which no goroutine
takes a step (`Running`). `SenderTakes` and `SenderUpdate` are the sender as the monitor sees
it: an id may have several requests at once. A transaction whose INSERT has failed has id 0
(`Key` is `Id` and 0): it has no row, its statements change nothing, and a second
one is not added to the list while a first is. The clock stops at `Horizon + 1`,
and `After` cuts deadlines off at `Horizon`, so that at the end every wait is over.
`CheckGet` is one step although the code reads the clock (`monitor.go:132`) before it
reads the list: a tick in between only makes the request look less due, and the
checker, which then sleeps until an instant that has passed, looks again at once.

### WorkQueue, Follower and what implements them

Both channels with their enqueuing goroutines and workers are meant to be a queue:
`WorkQueue` says that a request is not submitted again while it is in the queue or
with a worker, that one worker takes it, and that none waits for ever. In the
monitor a request that the checker has taken from the list comes back to the
queue, so that this is a statement about list, checker and workers together. In
the sender it holds across crashes (`Reset`).

`Follower` is the monitor as the sender sees it: a set of ids. A receipt is
written and the id let go of in two steps (`Settle`, `Forget`), which is where a
transaction that is sent again in between gets lost; a failed UPDATE keeps the id
after a receipt and loses it after an expiry; the load may deliver only some
rows. `Monitor` implements it (`Follows`; `Following` collects the ids of all
requests the monitor holds), and `Sender` is composed with it, action by action,
so the races between the two are in `Sender`'s state space without the monitor's
inner workings.

### Sender

A goroutine is in at most one `SendL2Transaction` call, so the request is named by
its goroutine. `Crash` resets everything but the table and the sequencer.
`WorkerCall` lets the sequencer answer a transaction it already has with an error
or with success; `WorkerTimeout` lets it arrive never or later (`LateArrival`).
`dialed` are the workers whose `ethclient.Dial` succeeded after the last start.
`dropped` records the three ways the monitor loses a row, each where it happens:
a row that the SELECT of the load asked for and did not deliver, an expiry whose
UPDATE reported an error, and a row handed over again while the monitor is about to
delete its earlier request. An id that is handed over later is struck off. A load
that asks for the wrong rows, a hand-over left out or a monitor that lets go of
anything else violates `SentIsMonitored`.

### Server

An HTTP request is a record of the facts the code branches on. `checkRequest` is
the chain of refusals in `handle` and `handleBatchRequest`, `checkCall` the one
in `Handle`, for the endpoints that `registerEndpoints` finds. `added` and `sent`
record which calls of the request have reached the table and come back from the
sender. `LoseConnection` is the client that goes, or `WriteTimeout`: nothing tells
the handler, which works with `context.Background()`. `config` is chosen at the start
and never changes; one instance thus checks servers with a limit, without one
(limit 0) and without batches.

### Startup

Each process has a port to listen on and the number of migrations its program
packs. `start` goes `load`, `log`, `plan`, `migrate`, `check`, `open`, `wait`; every
step may fail, and then the process ends, as `log.Fatal`, `panic` and a returned
error all do. `migrate.Exec` plans first and then applies one migration per
transaction, which fails if another process has applied it meanwhile. A missing
configuration file is only logged, and the default values put the database under
`[Pool]` where the code reads `DB` (`hasDB`, and `maxConns`, which the pool needs
above zero and the migrations do not need at all). `faulted` tells failures from
outside apart from those that processes cause each other.

### Codec

Strings are sequences of characters. The operators on strings and numbers that the
code takes from Go's library come first and are marked as external; those of the
two packages follow, with their names. What digits or bytes stand for is `Value`, a
recursive function over their prefixes; the readers of the library that stop at the
first bad character are told by where they stop (`DigitsRead`, `PairsRead`).
`BitSize64` is 8 in the instance, so that
numbers of up to three digits overflow; `ParseUint` returns the largest number with
its error if one overflows before a bad character, as the library does. The state is
one string or one number, and TLC goes through all of them.

## 3. Runs

| run | bounds | states | shows |
|---|---|---|---|
| `list` | 4 requests of 3 ids, 2 of the same id, the 2 others of one hash; 4 instants, 2 per millisecond | 10,880 | `ConsistentKept`, `SortedKept`, `AddGoesLast`, `OrderKept`: in all reachable lists, only a `Mixup` does harm, and only to the agreement of map and slice |
| `monitor` | 2 requests of one transaction, 2 workers, `Horizon` 2, resend, all faults | 398,000 | `SoleCustody`, `ListContract`, `WaitsBeforeRetry`, and `Follows`: ownership and the promises to the sender survive duplicates and faults |
| `monitor_live` | a transaction, and the same raw transaction with id 0 one tick later; 2 workers, no initial wait, 2 ticks per millisecond | 121,446 | `NoPanic`, `CheckerRemoves`, `FinalIsFinal`, `QueueImplemented`, `EventuallyFinal` |
| `monitor_lost_wakeup` | 2 transactions | | finding: the checker sleeps with a request in the list |
| `monitor_panic` | 2 requests of one transaction | | finding: `getByIndex(0)` on an empty list |
| `sender` | 1 handler, 2 loops, 2 workers, channel of 1, the abstract monitor with one goroutine, 1 crash, time-outs, all faults | 1,237,688 | `HeldOnce`, `SentMeansTaken`, `SentIsMonitored`, `CoveredUnlessLeftBehind` |
| `sender_live` | 2 rows of the same raw transaction, 1 worker that may not dial, 1 crash, no database faults | 30,827 | `PendingIsCovered`, `QueueImplemented`, `CallReturns`, `PendingIsSent`, `ResendIsServed` |
| `sender_invalid` | 1 crash | | finding: a valid transaction is marked invalid after a crash |
| `sender_insert_fails` | lost INSERT | | finding: success reported without a row |
| `server` | 8 kinds of call, batches of up to 4, 1 connection; a limit of 3, no limit, no batches | 4,250 | refusals without effect and for no other reason, batches in order, matching replies, requests handled as a whole though nobody waits |
| `startup` | 3 processes, 2 versions, 2 of them on one port and 1 without migrations, 2 starts each and 1 of the last, 1 to 3 migrations, every configuration | 268,955 | `RunningIsMigrated`, `MigratedInOrder`, `SomeoneSurvives`, `AllOrNothing` |
| `codec` | strings of up to 5 of 8 characters, numbers up to 300 and their negations, 8-bit integers | 37,749 | round trips, what is an error and what is lost |

Why the bounds suffice: the list needs three requests to have one before, one
between and one after, and a fourth for a duplicate id; the two that share a hash
meet at every distance in time and with any of the others between them. Two workers, two requests
and a channel shorter than the number of requests give every race between two
owners; more only repeat them. `Horizon` 2 gives an initial wait, a retry and
an expiry in one behaviour. In `monitor_live` a tick is half a millisecond and the
second request expires a tick later, so the checker deletes requests that it read from the
head before another of the same millisecond, hash and, at times, instant came in.
One crash reaches every pair of a state before and a
start after. The sender's monitor has one goroutine between UPDATE and delete at a
time; a second would only let go of another id. The limit of 3 has a batch at the
limit and one above it, which without a limit must be served. Connections share no state in the server, so one is enough.
Two versions and a process that does not migrate give every way the counts can
disagree; two starts let one process take over what another left half-way. Five
characters hold a prefix with a sign or an overflowing number.

`NoPanic` holds in `monitor_live` and fails with two requests for one
transaction: the code relies on a transaction being handed over once, which the
load at the start and resends break. `FinalIsFinal` needs this too (`FollowedOnce`), and
that an UPDATE that reports an error was not applied; no line of the repository
promises more.

`SentIsMonitored` says how much a sent row may rely on the monitor: all of it, but
for what `dropped` records, which lasts until the next start. The three losses are
allowed for since nothing in the repository says they cannot happen. `CallReturns`,
`PendingIsSent` and `ResendIsServed` are under the condition that a worker has dialled: without
one, every caller waits for ever.

Deadlock is not checked for `Monitor`, where the finite clock and the finite set of
requests make it stop, nor for `sender_live`, where no worker may have dialled,
`startup`, where all processes may have ended, and `codec`, which runs out of inputs.
`sender` and `server` are checked for it.

Fairness: weak for every goroutine, since Go's scheduler is fair; strong for a
send on a channel, since blocked senders queue up first come, first served; weak
for the clock. Neither sequencer, node, operator nor client is assumed to act. A
worker's RPC ends because it has a deadline (`RPCReadTimeout`). In `Startup` a
process is fair as a whole, its goroutines together; the decision to start it is not.
In `Server` the return of `SendL2Transaction` is fair: this is `CallReturns`, so
`ServedIsReplied` presumes that a worker of the sender has dialled.

Seen while modelling, without a run:

* the list is indexed by id although its comment says by hash, and the unit test
  deletes with a request that has no id; `delete` misses a request that shares its
  millisecond, but not its instant, with an earlier one; it takes the wrong
  request out of the slice when two rows have the same hash and instant (`Mixup`),
  after which the next bisection may dereference nil or the checker come back to a
  request that it cannot delete;
* a worker that has the receipt for the request of before a resend deletes the new
  request, so the resent row is not followed until the next start (`monitor.go:124`;
  `Forget` of `Follower` allows for it, and `SentIsMonitored` through `dropped`);
* a handler and the pending loop of the start may send the same row twice;
* `numParams` counts the HTTP request, so two arguments are accepted, and the
  method may have any prefix before its underscore;
* `validate` checks the monitor's queue twice and the sender's never; `[Pool]` of the
  default values is read by nobody; `Server.Stop` and `RunMigrationsDown` have no callers;
* the check of the migrations compares counts: it is enough as long as versions
  extend each other (`MigratedInOrder`, and the refusal of unknown migrations);
* "the sign of the integer is ignored" (`hex.go:93`), but `EncodeBig` writes `-0x1`
  for -1, which `DecodeBig` reads as 0; `EncodeBigInt` writes `0x-1`, which
  `DecodeBigIntHexOrDecimal` reads as 0 without an error (`encoding.go:100`) and
  `DecodeUint256orHex` as -1: that one checks no range and accepts signs (`WhatIsLost`);
* `hex_test.go:36-37` lists `ErrLength` as what `DecodeHex` returns for `""` and `0x`,
  but `:45` only asserts that the listed error is not nil, and never looks at the
  returned one: there is none, both decode to no bytes (`ValidDecodes`);
* a configuration with `MaxConns` but without a host is accepted by `NewSQLDB`
  (`db.go:26-30`), which then connects to whatever the library's defaults name.

## 4. Proofs

The theorems hold for every value of the constants that the named assumptions of
the modules allow: any numbers of transactions, requests, workers, processes and
connections, any queue, any intervals, any initial table. What a theorem assumes
beyond that is said with it.

### The retry list

    ListTypes:            ListSpec => []ListTypeOK
    ConsistentKeptHolds:  ListSpec => ConsistentKept
    SortedKeptHolds:      ListSpec => SortedKept
    AddGoesLastHolds:     ListSpec => AddGoesLast
    OrderKeptHolds:       ListSpec => OrderKept
    ListCorrect:          ListSpec /\ [][~Mixup]_listVars
                             => [](ListTypeOK /\ Consistent /\ SortedByRetry)

for any ids and hashes. The first five hold whether or not there is a `Mixup`; all but
`ListTypes` are about each step from an intact list (`ListOK`), and `ConsistentKept`
says that a `Mixup` is the only step that leaves a list that is not. `ListCorrect` adds
them up. Its premise is about whole behaviours, but its conclusion is a safety
property, and a behaviour may stop right before its first `Mixup`: so the list is intact
up to then. `NoTwinsNoMixup` says that there is no `Mixup` where no two ids have one
hash.

The conjunction `ListInv` of types, agreement and order is
inductive but for a `Mixup`, and none of its parts is alone: `add` and `delete` find
the right index only in a sorted slice, they look requests up through the map, so
map and slice must agree, and a write of `nextRetry` keeps the order because a
request that is not in the map is not in the slice. `AddIndex` and `DeleteIndex`
say what the two searches return, `AddShape` and `DeleteShape` what the slice looks
like afterwards. `AddPlaces` and `DeletePlaces` read this backwards, from a place
in the new slice to the one its request had before, which is what the two action
properties are about. `FirstOfMilli`, `AddKeepsFirst`, `DeleteKeepsFirst` and
`DeleteFindsFirst` show that `delete` finds a request that was at the head when it
was read, whatever was added and deleted since.

### The monitor

    MonitorTypes:           Spec => []TypeOK

and, up to the first `Mixup` of the list, that is with `Spec /\ [][~Mixup]_listVars`,

    SoleCustodyHolds:       []SoleCustody
    MonitorUsesList:        ListContract
    MonitorServesInOrder:   AddGoesLast /\ OrderKept
    CheckerRemovesHolds:    []CheckerRemoves
    WaitsBeforeRetryHolds:  []WaitsBeforeRetry

with any hashes, duplicates, resends and faults. The premise cannot be dropped: once
the map and the slice differ, the checker's `delete` may leave the request it enqueues
where it is. `monitor_live` checks the case where two requests of one hash come in
at different instants. `SoleCustody` is not inductive: a
caller could add a request that a worker has, and a retry could put a request in
the channel that is there already. The invariant `MonitorInv` adds `HandedOver`
(whatever the monitor holds, its `AddL2Transaction` call has let go of) and
`LeavingAlone` (what the checker is about to take out of the list is with nobody
else, and is the first of its millisecond). It contains `ListInv`, since only on a
sorted and consistent list does the checker's `delete` really remove the request
that it then enqueues; and the list keeps `ListInv` because every step is one of
`ListSpec`, which in turn needs `SoleCustody`. So the list is proved once and the
monitor reuses it: `ListStep` maps each action to a step of `ListNext`, `StepInv`
does the rest. `Quiet` covers the actions in which no request changes hands; the
seven others have a proof each. `WaitsBeforeRetry` rests on `DueInv`, which also
covers the request the checker has found due: nobody may write its `nextRetry`
before it is in the channel, which is `LeavingAlone` and `HandedOver` again.

    NoPanicHolds:      Spec /\ [][~DeletesOther]_vars => []NoPanic
    FinalIsFinalHolds: Spec /\ [][~Mixup]_listVars => FinalIsFinal

`DoneAlone` says that the request a worker deletes after its receipt is with nobody
else. If no other request has its id, the worker's `delete` finds nothing; if one has,
`delete` may take it out of the list (`DeletesOther`). `NoPanicHolds` says that such a step
is the only thing that can make the checker index an empty list: otherwise the list does
not shrink between the checker's `len` and its `getByIndex` (`PanicInv`). It needs no
premise about `Mixup`: the checker deletes a listed request that is the first of its
millisecond, which `delete` finds (`FirstNoMixup`), so a `Mixup` is always a worker's
`DeletesOther` (`NoOtherNoMixup`).
`monitor_panic` is a behaviour with such a step, and `NoPanicIfHandedOverOnce` the
special case that the code relies on: a transaction that is handed over once
has no other request.

`FinalIsFinal` is about one transaction at a time: if it has one request and
is not resent (`FollowedOnce`), the status of its receipt is its last one, whatever
duplicates and resends there are of others. `SettledInv` says that its request is
then at its worker's `delete` or no longer held at all, so neither the checker nor
another worker can write the row. An UPDATE that is applied and reported as failed
breaks this, since the worker then schedules a retry that may expire, and so does a
resend of the transaction itself, after which the sender writes the row again.

### What the monitor is to others

    FollowsHolds:      Follows           (= the specification of Follower)
    MonitorQueueSafe:  Queue!Spec        (the safety part of QueueImplemented)

up to the first `Mixup` of the list, with any faults, duplicates and resends. With `FollowsHolds` what is
proved about `Sender`, which contains the actions of `Follower`, is about a monitor
that the code's monitor implements. The mapping collects the ids of the requests
in the hands of callers, list, channel, workers and checker; a step that moves a
request from one to the next must leave this set alone, which is `MonitorInv`:
the checker's `delete`, for instance, takes out the request that it holds and no
other. `LoadInv` adds the state of the load at the start. Two names of the mapping
must be apart for it to make sense (`RefinementAssumption`): the checker is not a
worker and `Nil` is not an id.

### The sender

    SenderTypes:            Spec => []TypeOK
    HeldOnceHolds:          Spec => []HeldOnce
    SentMeansTakenHolds:    Spec => []SentMeansTaken
    SentIsMonitoredHolds:   Spec => []SentIsMonitored
    CoveredUnlessLeftBehindHolds:  Spec => CoveredUnlessLeftBehind
    PendingIsCoveredHolds:  DBFaults = {}  ==>  Spec => []PendingIsCovered
    SenderQueueSafe:        Spec => Queue!Spec

with any crashes, time-outs and workers that cannot dial; all but `PendingIsCovered`
with any database faults. `QueueInv` is `TypeOK`, `HeldOnce` and `CallHasTx` (who is inside `SendL2Transaction`
has a transaction to send): the three need each other, since a worker that is done
wakes the goroutine its request names, and only `HeldOnce` makes that the one that
waits. `SentMeansTaken` is not inductive: the status is written long after the
sequencer's answer, by another goroutine. `SentInv` follows the answer on its way
(`TakenCall`: a call that goes on without an error is about a transaction the
sequencer has; `RowOfTx`: and about the row it is then written to). `SentIsMonitored`
is not inductive either, because the monitor lets go of an id some steps after it was
settled: `FollowInv` adds that an id that is about to be let go of and is sent by then is
in `dropped` or about to be handed over again (`LetGo`).

`PendingIsCovered` cannot hold with a database that fails: a lost UPDATE leaves a
row pending that its call has finished with, an INSERT that is applied and reported
as failed leaves one that no call has begun with, and a SELECT that is cut short one
that the loop of the start passes by; in all three the row waits for the next start.
`CoveredUnlessLeftBehind` says that these three (`LeftBehind`) are all: with any
faults, no other step takes a pending row from the goroutine that will send it.
`PendingIsCovered` follows, since a database without faults takes none of them.

### The server

    ServerTypesHold:          Spec => []TypeOK
    RefusedHasNoEffectHolds:  Spec => []RefusedHasNoEffect
    BatchInOrderHolds:        Spec => []BatchInOrder
    ReplyMatchesHolds:        Spec => []ReplyMatches
    LostIsHandledWholeHolds:  Spec => []LostIsHandledWhole

for batches of any length. None of the four says enough about the states in the
middle of a batch, so all follow from one invariant per connection: where
the goroutine is and what it has collected so far (`Stage`), that only an accepted
request gets this far (`Served`; the checks have the same outcome in every later state,
`SameChecks`, since the configuration does not change), that the calls sent are increasing positions of
the batch that have a response (`InOrder`), and that a response is its call's and
tells whether it was sent (`Matching`). `ServerAssumption` says that limits are natural
numbers, that the calls of a request are a list and that `Nil` is not a request.

### The start

    MigratedInOrderHolds:     Spec => []MigratedInOrder
    RunningIsMigratedHolds:   Spec => []RunningIsMigrated
    SomeoneSurvivesHolds:     Spec => []SomeoneSurvives

`MigratedInOrder` depends on the plans that processes made earlier: `PlanIsRest`
says that a plan is what its program packs from some migration on that is not
beyond the next one, so a process that is behind fails on its first statement.
With it, equal counts mean equal migrations, which is what `checkMigrations` relies
on (`RunningIsMigrated`). For
`SomeoneSurvives` the invariant (`SurvivalInv`) names, in every state without a
fault from outside, a process that is `OnTrack`: it has yet to plan and knows every
migration, or its plan is exactly what the database lacks, or it is past that. When
another process takes its place it is that one which is on track.

### The conversions

    ValidDecodesHolds:     Spec => []ValidDecodes
    NumberRoundTripHolds:  Spec => []NumberRoundTrip
    BytesRoundTripHolds:   Spec => []BytesRoundTrip
    OverflowIsErrorHolds:  Spec => []OverflowIsError
    WhatIsLostHolds:       Spec => []WhatIsLost

for any characters, strings and numbers of any length and any width of integers.
The state machine only supplies the inputs (`InputsHold`); the rest are facts about
the operators. Few of them need induction, since `Value` is told by its prefix
values: `PrefixValuesExist` shows that the recursive function exists, and `ValueIs`
that any function with the same first value and the same step has its last value, so
that for most facts it is enough to exhibit one (a digit more at the end,
`NumberAppend`; a zero in front, `NumberZeroFirst`; two digits to a byte,
`BytesNumber`). Where induction is needed, it is by the least counterexample
(`LeastOf`, from the well-foundedness of the natural numbers), which unlike the
library's induction rules takes a set and no operator. `TextReads` is the inverse of
`Text`; `DigitsReadIs` and `PairsReadIs` say where the readers stop;
`LastDigitLost`, `NothingAfterSign` and `SignLost` are the losses. `RangeAssumption` states what is
used of the power of two, since the provers know nothing of exponentiation: that it
is a positive even number.

### Left to TLC

Liveness, which is out of this prover's reach: `EventuallyFinal`, `CallReturns`,
`PendingIsSent`, `ResendIsServed`, `ServedIsReplied`, `AllOrNothing`, and the part
`EventuallyTaken` of `QueueImplemented`.

Every invariant and every action property that the passing runs check is stated by
a theorem, those of the monitor up to the first `Mixup` of its list and `PendingIsCovered` without
database faults, and so are the refinements but for their liveness. The findings are
counterexamples of TLC.

## 5. Not modelled

The wording of log lines and errors, the HTTP log, the merging of configuration
files with environment variables (viper), durations (`time.ParseDuration`), the
decoding of transactions (the constant `RawTx`; its first step, `DecodeHex`, is in
`Codec`), the columns of a row other than its status, nil pointers as input of
`encoding`, `RunMigrationsDown`, which nobody calls, mocks, the load script and
the version.

## 6. Possible extensions

1. `FinalIsFinal` across a resend of the same transaction: which statuses may follow
   that of the receipt until the sender has written its own.
2. The load and the sender as callers of one monitor with an unbounded number of
   requests per transaction, and how many there can be at once.
3. The configuration's merging of files and environment variables.
