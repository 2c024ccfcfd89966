# A verification project for chronomq

chronomq is a job queue kept in memory: a client puts a job with a delay, any
client takes the jobs that have become ready, and a job may be cancelled by its
id until it is taken. On shutdown the pending jobs are written to a store, from
which the next process may restore them. This directory holds TLA+ models of
the queue and of what surrounds it, the TLC runs that check them, and proofs
that TLAPS checks.

    tlc -config hub_exact.cfg MCHub        # one run
    tlapm HubProofs.tla                    # one module's proofs

`PROJECT.json` lists the components, the runs, the definitions with the source
lines they model, the hazards with the properties aimed at them, and a mutant
of the code's model for each property.

## 1. Inventory

| component | state | operations | shared with |
|---|---|---|---|
| Hub, `pkg/chronomq/hub.go` | map and heap of spokes, past and current spoke, filter, counters, one mutex | add, cancel, next, prune, persist, restore, inspect | handlers, restore and shutdown goroutines |
| Spoke, `spoke.go` | a window of time, a heap of jobs, a map from id to job, a mutex | add, next, cancel, owns, persist | the hub; inspection takes its lock alone |
| Job and bounds, `job.go`, `internal/temporal` | trigger time, id, body | ready or not, bound, gob encoding | immutable |
| Filter, vendored cuckoofilter | buckets of fingerprints, a count | lookup, insert (may evict), delete | hub only, under its lock |
| Priority queue, `internal/queue` | array of items, each with its index | len, less, swap, push, pop for `container/heap` | spokes and hub |
| Counters, `internal/stats` | three atomics | increments, decrements, unlocked read | logs, metrics |
| Memory monitor, `internal/monitor` | an atomic counter, a condition variable | increment, decrement, fence | every handler |
| RPC and gRPC servers, `pkg/protocol` | connections | put, cancel, next, ping, inspect | hub and monitor |
| Process, `cmd/server.go` | listeners, signal handler | start, serve, shut down | all |
| Journal persister and blob store, `pkg/persistence` | lazily opened writer; one object in a store | persist, finalize, recover | hub's persist and restore goroutines |
| Automatic ids, `globalid.go` | a counter, from one in every process | next | puts without an id |
| RPC client, `api/rpc/chronomq` | a connection | put, next, cancel, inspect | goroutines of the load test |
| Load test, `cmd/loadtest.go` | a channel of jobs, one of stop tokens, a count, two wait groups | generate, put, take, cancel, count, stop | its connections; whoever else uses the server |
| CLI, metrics | none that matters here | | |
How they interact: a handler runs in a goroutine per request; a put over RPC
first passes the monitor's fence, then calls the hub, then adds the job's size
to the monitor; a put over gRPC adds the size first and passes no fence; next
and cancel call the hub and subtract. The hub holds its mutex through each
operation and calls spokes, which lock themselves inside it. Restore runs in a
goroutine of its own and adds jobs one at a time through the same operation as
clients do. Shutdown takes the hub's mutex, walks all spokes, and closes the
store's writer before it lets go.

What is hard, and makes each component correct:

- *Hub*: three structures name spokes and must agree through creation,
  promotion, draining, dropping and pruning; jobs must not be lost, doubled, or
  left behind for ever; the filter must stay balanced, or a pending job becomes
  invisible; counters must follow.
- *Priority queue*: an index per item must survive every sift, since cancel
  removes by index.
- *Monitor*: an atomic counter that is not under the lock of the condition that
  waits for it; add and subtract of one job in different goroutines.
- *Process*: restore, requests, shutdown and death at any moment, and a store
  that fails; which jobs survive, and how many times.
- *Inspection*: an iteration of the map of spokes that the hub's mutex does not
  exclude, and that keeps each spoke's lock to its end: what it reports while
  jobs come and go, and who waits for whom.

- *Load test*: four kinds of goroutines around unbuffered and bounded channels,
  which must neither wait for each other for ever nor end too soon; a cancel of
  an id that is in use again; and, on the server's side, polling calls that
  outlive their client.

## 2. Modules

| module | models | extends or uses |
|---|---|---|
| `JobQueue` | what clients were promised: a delayed, cancellable bag, at most once | |
| `SpokeMap` | what the hub's map of spokes keeps: a job stays in its spoke, a spoke with jobs in the map, a dropped spoke is not created again | |
| `Hub` | hub, spokes, filter, counters | implements `JobQueue` (all of it without collisions, its `LooseSpec` always) and `SpokeMap` (INSTANCE) |
| `OrderedBag` | what spokes and hub expect of a heap | |
| `PriorityQueue` | the array, its indices, `container/heap`'s algorithms | implements `OrderedBag` |
| `MemMonitor` | the monitor with the handlers that call it | a hub as abstract as `JobQueue` |
| `JobCodec` | gob encoding of a job, int64 trigger times (no state) | |
| `Server` | lives of a process, automatic ids, restore, snapshot, store | `JobCodec`; a hub as abstract as `JobQueue` |
| `Inspect` | `GetNJobs` beside the hub's operations, split at their locks and map writes | a hub with windows, times and ids left open; implements `SpokeMap` |
| `LoadTest` | the load test, the RPC client's calls, the polling loop of `Next` | a hub as abstract as `JobQueue` |
| `MC*` | constants for TLC | |
| `HubProofs`, `HubExactProofs`, `PriorityQueueProofs`, `InspectProofs`, `MemMonitorProofs`, `ServerProofs`, `LoadTestProofs` | theorems | |
| `SumTheorems` | lemmas on least numbers and on sums over finite sets | used by `HubProofs`, `PriorityQueueProofs` and `MemMonitorProofs` |

The models are layered rather than put side by side. `Hub` has sets where the
code has heaps, and `PriorityQueue` shows that the array behaves as that set,
provided the hub pushes nothing twice and changes no priority, which `HeapsAreBags`
(section 6) proves of it. `Hub` and `Inspect` model the same operations, one in
a step each and the other split at its locks; what the second depends on is
`SpokeMap`, and both implement it.
`MemMonitor`, `Server` and `LoadTest` have a set of pending jobs where the code has a hub,
with the two facts of `JobQueue` they depend on (a pending id is refused, a
pending job can be taken). That refusal is exact only while the filter can tell
ids apart; after the collision of the run `hub_filter` an id may be accepted
twice. What the hub keeps of `JobQueue` whatever the filter answers is its `LooseSpec`: puts may be
refused and cancels fail, but a job is never handed out early, twice or after a cancel.

### Hub

One action per exported operation: `AddJobLocked`, `CancelJobLocked`,
`NextLocked`, `Prune`, and `Tick` for the clock. Each of the first three holds
`Hub.lock` from first read to last write, so it is one step, and its cases
are the branches of the code: a cancel is denied by the filter, finds no owner,
or finds one; a poll is answered by the past spoke, by the current one, or by
nothing, and in the last two cases first drops and promotes
(`AdvanceCurrent`). A spoke is named by the start of its window, since all
windows have the same span, so `spokeMap` and `spokes` (the heap) are sets of
starts. Two spokes of one start may exist only after a prune, and then the
older one is expired and empty for good (`Dropped` in the proofs), so one name
for both loses nothing. The filter is a multiset of fingerprints: a delete takes one copy, a
full filter may evict any copy. `triggerAt` and `status` are the clients' side;
`reply` is the answer of the last call, so that properties can speak of answers.

The time of an operation is one value of `now`; the code reads the clock two or
three times. The clock does not run backwards (Go's monotonic reading). The
past spoke's window of a hundred years each way is `PastStart .. PastEnd`.

### PriorityQueue

`Swap`, `Append` and `CutLast` are the three methods that write; `Up` and `Down`
are `container/heap`'s loops. The actions are what spokes and hub do: push, pop
what was at index zero, remove what is at an item's own index, and `heap.Init`. A
loop is a function of the number of its rounds, of which there are
enough for it to end: a round after the end changes nothing.

### MemMonitor

A handler's step ends where the next access to shared state begins: taking the
condition's lock, loading the counter, going to sleep (registration and release
are one step, as `sync.Cond` guarantees), adding to the hub, adding to the
counter; and for a taker: removing from the hub, the atomic subtraction with its
underflow test, the second load, the broadcast under the lock. The wrapped
`uint64` is a negative number that compares above every limit. The recovery
watermark is computed from the watermark as the code does, in whole kibibytes.

### JobCodec

`GobEncode` and `GobDecode` go through the five fields in the code's order; an
end of data where the body should be is a job without one, an earlier one an error. The
trigger time passes through an int64 (`UnixNano`), of any width `2 * Half`, so that
TLC can use a small one. `Horizon` is the start of the past spoke, before which
a job is refused.

### Server

`phase` is the process: `up` (serving, restoring), `draining` (listener closed),
`stopping` (gRPC stopped), `persisting` (the hub's mutex held), `stopped`,
`down`. Each stage waits for what the code waits for. `calls` are the gRPC calls that
poll or inspect, for which `GracefulStop` waits: a `Next` polls for the timeout that its client chose
and does not look at its context. `stuck` is what inspections that wait for each other
(the run `inspect_two`) keep for ever: spokes (`InspectionsHang`), and with them the
hub's mutex once an operation of the hub has run into one (`OperationHangs`).
`PersistLocked` waits for the mutex, the walk for the spokes. `erring` is the set of
channels on which an error of the walk waits for its reader: a job that fails is
reported on `errC` to the goroutine that `PersistLocked` starts, from there on `ec` to the loop of
`Stop` (`ForwardError`, `DrainError`), and neither has a buffer, so no further job is
written and `Finalize` is not called before the error has been taken. `rpcUp` and `grpcUp` say whether the variables that `startApp`'s
goroutines assign are set: a signal before that is a nil dereference. `Persist`
writes one job; `Finalize` replaces the object in the store, or fails to, or
replaces it by a part of what was written: `JournalPersister.Finalize` closes the
store's writer even after the journal's buffer could not be flushed to it, and a
file store's close renames the torn file into place. The order of the walk is
left open. After an exit or a crash the process starts again, with `--restore`
or without. `GivenId` numbers the jobs that come without an id; `Decoded` is a
job as `Restore` reads it back, through `JobCodec`. `StartTime`, the clock at the
start of a life, is one value: lives are short against a hundred years.

### LoadTest

`process`, `enq`, `deq` and `handler` are where the load test, each enqueuer, the
loop of each dequeuer and the server's goroutine for its call of `Next` are. A
call of `Next` is `CallNext`, then looks at the hub until one finds a job
(`Look`), or the deadline passes; the reply is received by `GotJob` or
`TimedOut`. What a look finds is left open (delays, the order of jobs), but for
fairness. Before a put reaches the hub it may go to sleep at the fence of the server's monitor
(`FenceHolds`); when it passes is left open, so that a server with any watermark, with none, or with
one that rejected jobs have used up is an instance. `Cancel` takes whatever job has the id at that moment. The send on
`deqJobs`, which has no buffer, and the sink's receive are one step (`Count`); `Stop` is the
goroutine that waits for a token beside the loop, which goes on after it.

`Dies` is the end of the process, in `log.Fatal` or on return from main: replies
on their way and jobs in hand are lost, the calls that poll become
`orphans`, which take a job each or run into their deadline, and the cancels under way
become `strays`, which the server may still serve, as it may the puts. `setup` is how a
load test begins: its modes, jobs and orphans of an earlier one that had used the
same ids, and whether both have bodies of one size. Puts and cancels of an earlier load
test are taken to be over. The server may die, and does
not come back.

### Inspect

`Hub` may treat each operation as one step because all of them hold the hub's
mutex; `GetNJobs` does not, so here an operation is a sequence of steps, `op`
says which one holds the mutex and how far it is, and each step that needs a
spoke's lock waits for it (`spokeLock`). The write of the map is a step before
which `op.at` is `register` or `drop`: a range that goes on at that moment may
be ended by the runtime, and the process with it (`RaceFatal`). What an operation or an
inspection does to a spoke under its lock is one step. So is sending on the
channel: its reader, `InspectN`, does nothing but read until it is closed, so
the sender never waits for longer than the reader runs.

An inspection goes through `InspectPast`, then `RangeNext` and `LockSpoke` for
each spoke, then `RangeDone`, where the deferred unlocks run. A range over a Go map
produces the entries in any order, those written meanwhile or not, those
deleted before their turn not: `owed` is what it must still produce. `left` is
`n`, which the inner loop leaves at zero and the outer one does not look at.
Which spoke a job belongs to, whether the filter knows it and whether it is due
is left open, within what `Hub` allows: a dropped spoke is not created again,
and only an empty spoke is dropped. `Prune` is left out.

## 3. Runs that pass

| run | instance | states | shows |
|---|---|---|---|
| `hub_exact` | 3 jobs, 2 with one id, 3 ids (one of no job), distinct fingerprints, span 2, triggers 0..4, clock 1..7, fair | 335k | the hub implements `JobQueue`; filter and job maps exact; map, heap, current spoke and spoke counter agree; the only reasons why a poll misses a ready job or overtakes an earlier one; every accepted job leaves |
| `hub_collide` | the same, but one fingerprint for all ids, a filter that may evict at load 1, `Prune` | 969k | in spite of that: nothing lost or doubled, job maps, counters and filter agree (`JobsAgree`), snapshot and inspection see each job (`WalksExact`), the promises of `LooseSpec` and of `SpokeMap` |
| `queue_heap` | 8 items with ties | 88k | heap order, index of every item, the ordered bag |
| `mem_fence` | 2 putters, 2 takers, 5 jobs: 3 over RPC (2 share an id), 1 over gRPC, 1 restored and small; watermark 2048, recovery 2028, fair | 430k | no lost wake-up, the counter explained, bounded; puts asleep at the fence wake |
| `server_snapshot` | 4 jobs: 1 with id 1, 2 without, 1 beyond an int64 of 4 bits; 1 gRPC call at a time; any number of lives, fair | 1.1M | what snapshots hold, why jobs are lost, no job answered twice in a life, shutdowns end unless inspections that wait for each other keep them |
| `load_test` | 2 connections, 2 jobs, any of the 2 that an earlier one left, 1 orphan, fair | 409k | jobs in one place, losses bounded, exits complete, who is hurt by ids used again; it ends unless a lost job or the fence keeps it |
| `inspect_one` | 1 inspection, repeated, limits 0, 1, 4, 2 jobs, 2 spokes and the past one, fair | 75k | nothing reported twice, nothing steady missed, by how much the limit is exceeded; the hub's steps keep `SpokeMap`; neither hub nor inspection waits for ever |

Why the bounds are enough. For the hub, three jobs are one more than any of its
branches relates: a job in the current spoke, one behind it and one in the past
spoke; triggers lie in the past, at the start, and at both ends of one window and the beginning of the
next, the least with which a spoke may be promoted before the one it hides; the clock passes the end of the latest
window, so every spoke expires and is dropped. Two jobs of one id make the duplicate check, the third id belongs to no job
and is only cancelled. Eight items give a heap of four levels, whose sifts take
each branch. Two putters and takers suffice for the races of the monitor, which
are pairwise; one job reaches the watermark, and the small one takes the counter
between the two watermarks. The four jobs give the server an automatic id that meets
one a client gave and one that the snapshot still holds, one job refused on restore, one unread, one written
and one that fails in the same life. One gRPC call at a time is enough (`MaxCalls`): it keeps
`GracefulStop` waiting, which does not tell one from more. Two connections and two jobs are the
least with which a load test can have one job put again while another connection
cancels its id, tokens for a goroutine that is not the one that counted, and a job
for each of put, reply and cancel; with three jobs the state space is out of
reach, but its safety theorems hold for any number (section 6). Each job object is offered once, which bounds all
models. For `Inspect`, two jobs and two spokes let a job come, go or stay in a
spoke before, at and after the range; the limits are one that is none, one
that the first job uses up, and one that nothing reaches. Its safety
theorems hold for any number of each (section 6). MaxTime stops the clock, not the polls; a job whose trigger is beyond
the clock would never be ready, so the clock goes beyond the triggers.
`CHECK_DEADLOCK FALSE` stands only in the monitor's runs, where all jobs can be
used up or the process can be dead, in those of `Inspect`, where the
runtime may have ended the process, and in that of `LoadTest`, which ends.

Some properties of the `hub_exact` row deserve words:

- `ImplementsQueue` is refinement: no refused put without a pending job of that
  id, no cancel that misses a pending job, no delivery that is early, doubled or
  after a cancel.
- `MissesOnlyBehindCurrent` is what remains of "a poll returns a ready job": a
  poll that answers nothing while a job is ready has a current spoke that does
  not hold it, and either the job lies in an earlier window, or that spoke is empty and ends at
  this very moment, or was promoted empty by this poll.
- `InvertedOnlyAcrossSpokes` is what remains of the order of triggers: a job is
  delivered before a ready one with an earlier trigger only if it was put when it was
  due already, or if the other one lies in a window before the current spoke.
- `ImplementsSpokeMap` holds of the hub with `Prune` and of the hub split at its locks: an add that
  found no spoke of its bound must not have created a second one, nor a poll dropped one with jobs. It is
  what lets `Inspect` leave windows and times open.
- `AnsweredOncePerLife`: at most once survives everything but a restart. A job that was answered
  is in memory again only after another process has begun and read it from a snapshot.
- `NobodyWaitsForever` says at once that each inspection ends and that the
  hub's operation under way does; with two inspections it fails (`inspect_two`).
- `LossExplained` lists the ways in which a job that was accepted is neither in
  memory nor in the store nor answered: among them a life without `--restore`, whose
  shutdown overwrites the snapshot, and jobs that the restore refused, such as one
  whose trigger time wrapped around in the snapshot or whose number a new job has taken.
  These causes are losses that the code has: the property says that there are no others, and where
  a hazard is itself a cause (a signal during the restore, a life without `--restore`) documents it.
- `ShutdownEnds`: a shutdown waits for gRPC calls, the mutex, the spokes and the readers of its
  errors. Two inspections that wait for each other keep it for ever; nothing else does. A call of
  `Next` keeps it for the rest of its timeout.
- `LossBounded`, `ExitMeansAll` and `LoadTestEnds` are what the load test may be
  used for: it cannot end early, and there are two ways for it to hang. A call left behind by an
  earlier one may take a job that it then waits for. And a put may sleep at the server's
  fence for ever: a load test that only puts, more than the watermark admits, waits for somebody else to
  take jobs; one that takes jobs too sleeps only beside a hub that stays empty, and
  then rejected jobs have leaked the counter (`OnlyRejectedJobsBlock`). It may take more than it put
  or asked for (its loops go on until main returns), at most one more for each connection in the end.
- `OnlyReusedIdsHurt`: with fresh ids the cancel of a job just taken is without
  effect. Where an earlier load test has left jobs, it may remove a job with the same
  id that has been put meanwhile.
- `SpokesAgree` fails with `Prune` (it leaves the heap alone), which is why it is
  stated for `Spec` and not for `EmbeddedSpec`.

## 4. Fairness

`Hub!FairSpec`: the clock runs on and some consumer keeps polling, the
condition under which the README promises delivery. Nothing is assumed of adds
and cancels. `MemMonitor!FairSpec`: goroutines that can run do run (weak fairness of
the steps of each put that is past its start, and of each removal; among the latter
`Take`: some consumer keeps asking). Nothing is assumed of the condition's mutex, neither
that a put which waits for it ever gets it nor that a waiter is served in turn: each put comes once,
so it is free in the end (`HandlersGoForward`). No put has to begin. `Server!FairSpec`: the goroutine of the signal handler is
scheduled, with the walk and the two readers of its errors, the store answers every call, if only with an error,
and a gRPC call ends as long as no inspections wait for each other: it has a timeout, or reads a
walk that goes on. Signals,
crashes, restarts and requests are not assumed to happen. `Inspect!FairSpec`:
the holder of the hub's mutex and each inspection that has begun run on, and
the Go mutex of a spoke is not kept from either of them for ever by others that
come and go (strong fairness of `HubStep` and of each `InspectStep`). No
operation and no inspection has to begin. `LoadTest!FairSpec`: the goroutines of
client and server are scheduled, and of the looks at a hub that has jobs one finds
one in the end (strong fairness of the looks together), which is what
`EveryJobLeaves` of `Hub` says of consumers that keep polling. Nothing is assumed of a put that sleeps
at the fence: whether it is woken is the business of `MemMonitor`. Orphans, strays and the
server's death are not assumed to happen.

## 5. Where the program differs from what it says

| run | said | done |
|---|---|---|
| `hub_hidden` | `hub.go:197` a poll returns the job that is ready | a spoke that has not begun is classified current (`spoke.go:83-86`), is promoted, and hides jobs put later for earlier windows until it has drained and expired |
| `hub_filter` | `hub.go:126` the filter has no false negatives | the cancel of an unknown id deletes the fingerprint it shares with a pending one |
| `mem_underflow` | `memory.go:123` no decrement without an increment | the RPC put adds to the counter after the hub has shown the job to takers; the server panics |
| `inspect_two` | `rpcserver.go:102` an inspection returns n jobs | two of them, each with spokes the other one needs, wait for ever, then the hub, and then a shutdown |
| `server_exit` | `README.md:93` jobs in memory at shutdown are in the snapshot | open RPC connections are served after the snapshot, until the process exits |

`PROJECT.json` has more that reading alone shows. Of the hub: jobs do not come in the
order of their triggers, since the past spoke is served first (`README.md:23`;
`InvertedOnlyAcrossSpokes` says what holds instead), requests are served during
the restore, `Prune` returns the wrong number, `GetNJobs` may return more than N
(`OvershootBounded` says by how much) and iterates a map that others write, and
the hub does reject jobs. Of the rest: the load test's check of the order compares with a
copy that stays zero, it panics when both delays are equal, and its payloads are not
random; automatic ids are numbers that start again with the process; `Next` may
answer late and miss a job that became ready in time; `Breached` ignores the
recovery watermark.

Other behaviour that the models have and the reader should know of: restored
jobs are never counted by the monitor, rejected ones for ever
(`AccountingExplained`); a shutdown during a restore replaces the snapshot by
what has been restored so far (`LossExplained`); a shutdown with an empty hub
leaves the old snapshot in place, as does a crash, and its jobs come again.

## 6. Proofs

| theorem | states | assumes |
|---|---|---|
| `HubProofs`: `TypeCorrect`, `JobsDoAgree`, `WalksAreExact`, `HubImplementsSpokeMap` | the properties of `hub_collide` but one, of `EmbeddedSpec` (with `Prune`) | the named assumptions of `Hub` only: any span, also zero, any fingerprints, a filter of any size |
| `HeapsAreBags` | each step does to the heaps of jobs and of spokes what `OrderedBag` allows | the same |
| `PollsDrain` | once all spokes have expired and nothing more is accepted, each poll leaves fewer jobs and heap spokes together | the same |
| `DrainedFilterDenies` | the filter of a hub without jobs denies every id | the same |
| `ZeroSpanNeverDelays` | with a span of zero, what is pending is due | a span of zero, as a configuration may give |
| `MissesAreExplained`, `InversionsAreExplained` | `MissesOnlyBehindCurrent`, `InvertedOnlyAcrossSpokes`, of `EmbeddedSpec` | the same |
| `SpokesDoAgree` | `SpokesAgree`, of `Spec` | the same |
| `HubExactProofs`: `FilterIsExact`, `JobMapsAreExact`, `NoFalseNegative` | exactness of the filter and of the maps | `NoCollision`, `RoomForAll` |
| `HubImplementsLooseQueue` | `ImplementsLooseQueue`, of `EmbeddedSpec` | the named assumptions, and that the clock does not start before the past spoke's window |
| `HubImplementsQueue` | `ImplementsQueue` | these and `WideWindows` (a positive span; the past spoke spans the run) |
| `PriorityQueueProofs`: `QueueTypes`, `QueueIsHeap`, `IndicesAreExact`, `QueueImplementsBag` | the properties of `queue_heap`, for any items and priorities | finitely many items |
| `FixesNothing` | the `heap.Init` of a poll moves nothing | the same |
| `MemMonitorProofs`: `MonitorTypes`, `NoWakeupIsLost` | `TypeOK`, `NoLostWakeup`, any number of handlers | the assumptions of `MemMonitor`: a positive watermark, positive sizes, finitely many jobs and putters |
| `CounterIsExplained` | `AccountingExplained` | the same |
| `FenceBoundsMemory` | `FenceBounds` | the same, and some job that does not come over gRPC (there is no largest one otherwise) |
| `OnlyRejectedJobsBlock` | when nothing but puts asleep at the fence is left and the hub is drained, rejected jobs have leaked as much as the recovery watermark | the same |
| `HandlersGoForward` | each step leaves less to do for the handlers, counted lexicographically | the same |
| `GrpcCountsFirst` | `GrpcNeverUnderflows` | the same, and that the jobs put over gRPC do not exceed a tebibyte together, above which the code takes any counter for an underflow |
| `InspectProofs`: `TypeCorrect`, `NothingReportedTwice`, `NothingSteadyMissed`, `OvershootIsBounded` | `TypeOK`, `ReportedOnce`, `NothingMissed`, `OvershootBounded`, any number of inspections, limits, jobs and spokes | the assumptions of `Inspect`: finitely many jobs and spokes |
| `InspectImplementsSpokeMap` | `ImplementsSpokeMap` | the same |
| `CancelsMissNothing` | a cancel that answers that there is no such job has missed none; the job that one has found is there when the spoke is locked again | the same |
| `OnlyInspectionsBlock` | the hub waits only for inspections, an inspection only for another one | the same |
| `EverybodyGoesForward` | each step of an operation or inspection leaves fewer to take, and nobody else adds one | the same |
| `OneInspectionRunsOn` | with one inspector somebody can always go on | the same, and one inspector |
| `ServerProofs`: `ServerTypes`, `SnapshotIsAccounted`, `SnapshotsAreMemory`, `AnsweredOnce`, `LossesAreExplained` | the safety properties of `server_snapshot` | the assumptions of `Server`: ids are numbers, times integers, the gRPC calls at a time any number |
| `ServerProofs`: `ShutdownsGoForward` | each step of a shutdown, and each gRPC call that ends, leaves fewer stages, calls, jobs to write or errors to read, and nothing else adds one | the same |
| `ServerProofs`: `ShutdownsWaitForCalls` | a shutdown that cannot go on waits for gRPC calls, or for inspections that wait for each other | the same |
| `ServerProofs`: `RefusalsAreExplained` | while the server runs, a restored job in reach is refused only for one that a client put in this life, a job without an id only for a restored one or an id that a client chose | the same |
| `ServerProofs`: `RestoredAsPutOrRefused` | a job is read back as it was put, or with a trigger time that every later process refuses | `WidthAssumption`: a hundred years are less than half the range of an int64 |
| `LoadTestProofs`: `LoadTypes`, `JobsAreAccounted`, `LossIsBounded`, `ExitIsComplete`, `ReusedIdsOnly` | the safety properties of `load_test` | the assumptions of `LoadTest`: finitely many connections, at least one |
| `OnlyLostJobsStarve` | while both processes live there is a job to put, one to take, a token to receive or the end, unless a call left behind has taken a job or a put sleeps at the fence of a hub from which nothing is taken any more | the same |
| `LoadTestsGoForward` | each step of a load test, but for polls that find nothing, leaves less to do, and no step more | the same |

The arguments:

*Hub.* Conservation of jobs is not inductive alone: an add to the spoke of a
bound might overwrite a spoke in use. `HubInv` adds `Registered` (a spoke with
jobs is the past one or in the map, and the map has only the heap's spokes and the current
one) and `Dropped` (a spoke that is used but no longer in the map has expired,
so no job in the future can ask for its bound again). `Arrival` and `Departure`
are the lemmas on what one job's coming and going does to queues, maps and
pending jobs; `AdvanceInv` is the one on the current spoke; each operation then follows from them.

What a poll may miss needs one fact more: each job lies in a spoke whose window
has its trigger (`InWindow`), and windows do not overlap (`BoundsApart`). A ready
job that the poll does not answer with is then in a spoke that comes before the
current one, or the current one has just been promoted (`ReadySpoke`, `AdvancedSpoke`).

`HubImplementsSpokeMap` maps a bound that has expired and left the map to one that is over
(`Over`). That none returns needs `BoundAlive`: a bound that may still take a
job has not expired. `HeapsAreBags` goes through the operations once more
(`AddHeaps`, `CancelHeaps`, `NextHeaps`): a put creates a spoke only when neither map nor heap
has its bound, although after `Prune` the two differ, because a spoke that only the heap
has is expired (`Dropped`). `PollsDrain` rests on `InWindow`: a job of an expired spoke is due, so the poll hands one out or drops its spoke and
takes the next (`PollGoesDown`).

`FilterHoldsPending`, part of `JobsAgree`, needs no invariant but itself: an add that the filter or the map refuses inserts
nothing, a cancel deletes a copy whether or not it finds the job, and a delivery deletes that of its job.
Collisions can only leave too few copies, never too many, so those of a drained hub are gone.

*Exactness.* Without collisions "the filter knows the id" and "the id is
pending" are the same (`LookupExact`), and then "some spoke's map has the id"
too (`PendingIsOwned`, `OwnerHasPending`), which makes the filter's arithmetic
and the job maps inductive together (`ExactInv`). The refinement maps each operation to the
abstract one with the same reply (`PutRefined`, `CancelRefined`, `NextRefined`).

*Priority queue.* `Sound` says that items and indices name each other, which every
swap keeps (`Swapped`). While an item rises, all is in order but the item against its
parent (`Rising`); while one sinks, also against its children (`Hole`). A removal from the middle
puts the last item into the hole, where it may have to sink or to rise: if it
does not sink it is settled against its children (`DownResult`), which is what
`Up` needs. `heap.Init` finds a heap and leaves it (`FixedHeap`).

*Monitor.* The counter is not protected by the lock, so the invariant says who
is on the way: if a putter has decided to wait, or sleeps, and memory has recovered,
some taker is between its subtraction and its broadcast. A taker that subtracts
becomes that witness itself; one that broadcasts leaves no sleeper, and none about to
sleep since it held the lock. `WrappedPanics` covers the wrapped counter.

The counter needs to know which job each handler has in hand (`InHand`): two handlers
have one job only when a taker took it before the put that added it could
count it. `Balance` is `AccountingExplained` while the process lives: each step
adds a job to one of its sums, or moves it from one to another, together with
the counter. With nothing but gRPC (`NeverBelow`) two of its sums are empty and the
other two have no job in common, so that the counter is the size of some of the jobs. `Bounded`
adds to the counter what has passed the fence and what is put over gRPC but not
counted: a put that passes finds the counter below the watermark, and the others that have
passed are no more than the putters (`BoundAnew`).

The measure of `HandlersGoForward` is lexicographic, since a broadcast sends its sleepers back to where they had begun:
jobs that nobody has offered, puts yet to add, jobs to take, steps of removals, steps of puts. Each removal's step
counts before those of the puts that it wakes, and there are no more removals than jobs.
Only finitely many handlers are busy at a time (`ActiveFinite`), so that they can be counted by place.

*Sums.* The prover cannot use the library's induction over a fold. `SumTheorems` does
it by hand, once: the least natural number, induction over the subsets of a
finite set given as a set of sets, and from it that a sum is the number of its
units (`SumIsUnits`), after which all about sums is about cardinalities.

*Inspection.* `HubSound` says that the operation under way has not lost its
job and spoke between two of its steps, and that each job has one spoke.
`RangeHolds` says that the spokes a range has met are locked, so the hub cannot
put a reported job elsewhere; `ReportedSeen` and `SteadyOwed` relate a job's
spoke to those that are done with (`Seen`) or still due (`owed`). A step of
the hub comes down to one of five effects (`StepSound`), which leave each
inspection sound (`EffectKeeps`); one inspection's step leaves the others
alone (`OtherKeeps`). For the overshoot, what is
reported is counted against `n` until that is used up; each spoke of the map that is met
afterwards adds one job at most (`OvershootInv`).

A cancel looks for its job's spoke, releases it and locks it again to remove the job, with
inspections in between. `SearchSound` says that the spoke of the job is among those still to be looked at,
and that a job found stays where it is: all else that moves jobs needs the hub's mutex. Of the
inspections' steps it suffices that none writes queues or map (`InspectionsApart`), which the refinement of
`SpokeMap` uses as well. Who waits for whom follows from who holds a spoke's lock (`TypeOK`) and
from `RangeHolds`. What an inspection may still do is two steps for each spoke that it has not met, of all that may ever be
created, so adds meanwhile do not lengthen it (`EverybodyGoesForward`).

*Server.* `WalkSplits` says that during the walk memory is what is unwritten,
written or failed (nothing else can change it, the lock is held), `CommitKnown`
what is in the store afterwards. `InOnePlace` says that a job that has yet to be restored is not in memory,
which with `TypeOK` gives `AnsweredOnce`. The measure of `ShutdownsGoForward` is the stage of the handler,
then the gRPC calls under way, then the jobs yet to write and the errors on their two channels (`Unsent`), finite since
jobs come one at a time (`FiniteHub`). That neither channel waits for the other (`ShutdownsWaitForCalls`) is
a matter of cases: an error on `ec` can always be read, one on `errC` whenever `ec` is free, and without errors the walk goes on.
`IdsApart` says that neither memory nor snapshot has an id twice, and that automatic ids of jobs
put in this life are among the numbers given in it, until the snapshot is replaced; who refuses whom follows (`ConflictStep`).

*Codec.* A delay is an int64 and the clock lies in its range, so a trigger time that
leaves the range does so by less than its width (`Int64Above`), and what it wraps to is
less than the present by more than half the range.

*Load test.* `PutInv` says that enqueuers hold different jobs of this load test, all below
`handed`, so that a job is accepted exactly once. `CallInv` says that the server works on
a call only while its client waits, so a connection either polls or has a job in
hand, never both (`OneEach`); that is what bounds the loss of a death by the number of connections.
`StopInv` says that no token exists before the count is reached. `PlaceInv` is `JobsAccounted`
with types; `HurtInv` adds that while a job of an earlier load test is pending, no job
with its id is accepted, without which a cancel might hit the earlier one. `StrayInv` says of the cancels of a
client that is gone what `PlaceInv` says of the others: their ids are those of jobs that have left the hub.
`WorkInv` adds that a client that waits has a call at the server and that, once the count is
reached, the tokens sent and those received are one for each connection. While no call left behind
has taken a job, accepted jobs are then enough for the sink and tokens for the dequeuers, so that nobody
starves (`JobsEnough`, `TokensEnough`, `SinkHasEnough`). `WorkLeft` of `LoadTestsGoForward` weighs what each
connection, generated job and job of the hub still has before it: a job that is pending counts for the reply, the cancel, the
count and the sink that its delivery leads to, so that a put lowers its sum although it adds a job to the hub, and one
that has yet to meet the fence counts for more than one that sleeps at it.

## 7. Only model-checked

- Liveness (`EveryJobLeaves`, `FencedPutsWake`, `ShutdownEnds`,
  `NobodyWaitsForever`, `LoadTestEnds`): temporal reasoning with fairness is out of the
  prover's reach, for it cannot reason about ENABLED. What it rests on is proved: that somebody can
  go on, and a measure that each step lowers, so that nobody goes on for ever. What is left to TLC is
  to put the two together with the fairness:

  | property | somebody can go on | what leads to the end |
  |---|---|---|
  | `EveryJobLeaves` | a poll is always possible | `PollsDrain` |
  | `FencedPutsWake` | `OnlyRejectedJobsBlock`, `NoWakeupIsLost` | `HandlersGoForward` |
  | `NobodyWaitsForever` | `OneInspectionRunsOn` | `EverybodyGoesForward` |
  | `LoadTestEnds` | `OnlyLostJobsStarve` | `LoadTestsGoForward` |
  | `ShutdownEnds` | `ShutdownsWaitForCalls` | `ShutdownsGoForward` |
- That the rounds of `PriorityQueue`'s loops are enough is proved, that the loops of
  `container/heap` are these rounds is by reading.

## 8. Not modelled, and why

- Gob's bytes, the journal's chunks, the store's URLs: conversions and I/O; what
  can go wrong with an entry is `RestoreFails` or `PersistFails`.
- `Counters.Read`, `StatusLocked`, metrics: read for logs and dashboards only. `Read`
  loads three counters one after the other, so its snapshot may be of no one moment.
- `Ping` and the CLI: a call and its answer, no state. A `Next` with a timeout of
  zero, which is a single look.
- Delays over gRPC are milliseconds multiplied to nanoseconds, which may overflow
  an int64 and make a far trigger near: the models give a job any trigger time.
- A monitor with no watermark, which does nothing, in `MemMonitor`; in `LoadTest` it is a fence that holds nobody.
- A load test with equal delays, which panics before its first job.
- Concurrent calls of `Prune`, which takes no lock and which nothing calls: it is
  atomic here.
- Generated stubs, examples, vendored libraries other than the filter.

## 9. Plan

Done: `JobQueue`, `Hub`, `PriorityQueue`, `MemMonitor`, `Server`, `Inspect`, `JobCodec`
and `LoadTest` with their runs, in that order, and the proofs of section 6.

What would come next: the set of pending jobs that `MemMonitor`, `Server` and `LoadTest` assume, stated as
instances of `JobQueue` in those modules (that `Hub` implements `JobQueue` is proved).
