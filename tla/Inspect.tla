------------------------------ MODULE Inspect -------------------------------
(***************************************************************************)
(* Hub.GetNJobs beside the operations of the hub.  An inspection is a      *)
(* goroutine that never takes the hub's mutex: it looks at the past spoke, *)
(* then ranges over the map of spokes while the hub may write it, locks    *)
(* each spoke that it meets, and keeps those locks until it ends.          *)
(*                                                                         *)
(* The operations of the hub run one at a time, under its mutex, and hold  *)
(* at most one spoke's lock; what they do to a spoke under its lock is one *)
(* step, and so is what an inspection does, since its reader waits for     *)
(* nothing else.  A write of the map is a step of its own: a range that    *)
(* goes on while it is under way may be caught by the runtime, which ends  *)
(* the process.  Times, ids and the heap of spokes are as nondeterministic *)
(* as the windows and the filter of Hub allow.                             *)
(***************************************************************************)
EXTENDS Integers, FiniteSets

CONSTANTS
  Inspectors,  \* goroutines started by GetNJobs
  Limits,      \* values of its argument n; gRPC passes on any
  Jobs,
  Spokes,      \* spokes that may be created, each at most once
  PastSpoke,
  NoJob,
  NoSpoke,
  Free         \* value of a lock when nobody holds it

ASSUME ConstantsAssumption ==
  /\ Limits \subseteq Int
  /\ PastSpoke \notin Spokes /\ NoSpoke \notin Spokes \cup {PastSpoke}
  /\ NoJob \notin Jobs /\ Free \notin Inspectors
  /\ IsFiniteSet(Jobs) /\ IsFiniteSet(Spokes)

AllSpokes == Spokes \cup {PastSpoke}

VARIABLES
  jobQueue,   \* [AllSpokes -> SUBSET Jobs]
  spokeMap,   \* spokes in Hub.spokeMap
  accepted,   \* history: jobs that the hub has ever taken
  dropped,    \* history: spokes that have left the map
  op,         \* the operation that holds the hub's mutex, and how far it is
  spokeLock,  \* [AllSpokes -> the inspection that holds the spoke's lock]
  pc,         \* [Inspectors -> how far the inspection is]
  left,       \* [Inspectors -> n, which counts down]
  visited,    \* [Inspectors -> spokes that the range has produced]
  owed,       \* [Inspectors -> spokes that the range has to produce]
  limit,      \* history, [Inspectors -> n at the start]
  answer,     \* history, [Inspectors -> [Jobs -> how often it was reported]]
  steady,     \* history, [Inspectors -> jobs pending since it began]
  crashed     \* the runtime has caught a range beside a write

hubVars == <<jobQueue, spokeMap, accepted, dropped, op>>
inspectVars == <<spokeLock, pc, left, visited, owed, limit, answer, steady>>
vars == <<hubVars, inspectVars, crashed>>

JobsOf(walk) == {j \in Jobs : \E s \in walk : j \in jobQueue[s]}
InspectWalk == {PastSpoke} \cup spokeMap

Stages == {"none", "search", "add", "register", "cancel", "next", "drop", "current", "persist"}

TypeOK ==
  /\ jobQueue \in [AllSpokes -> SUBSET Jobs]
  /\ spokeMap \in SUBSET Spokes /\ dropped \in SUBSET Spokes /\ accepted \in SUBSET Jobs
  /\ op \in [at : Stages, job : Jobs \cup {NoJob},
             spoke : AllSpokes \cup {NoSpoke}, todo : SUBSET AllSpokes]
  /\ spokeLock \in [AllSpokes -> Inspectors \cup {Free}]
  /\ pc \in [Inspectors -> {"idle", "past", "range", "lock", "done"}]
  /\ left \in [Inspectors -> Int] /\ limit \in [Inspectors -> Int]
  /\ visited \in [Inspectors -> SUBSET Spokes] /\ owed \in [Inspectors -> SUBSET Spokes]
  /\ answer \in [Inspectors -> [Jobs -> Nat]]
  /\ steady \in [Inspectors -> SUBSET Jobs]
  /\ crashed \in BOOLEAN
  /\ \A s \in AllSpokes, i \in Inspectors :
       spokeLock[s] = i => s \in visited[i] /\ pc[i] \in {"range", "lock"}

NoOp == [at |-> "none", job |-> NoJob, spoke |-> NoSpoke, todo |-> {}]

Init ==
  /\ jobQueue = [s \in AllSpokes |-> {}]
  /\ spokeMap = {} /\ dropped = {} /\ accepted = {} /\ op = NoOp
  /\ spokeLock = [s \in AllSpokes |-> Free]
  /\ pc = [i \in Inspectors |-> "idle"]
  /\ left = [i \in Inspectors |-> 0] /\ limit = [i \in Inspectors |-> 0]
  /\ visited = [i \in Inspectors |-> {}] /\ owed = [i \in Inspectors |-> {}]
  /\ answer = [i \in Inspectors |-> [j \in Jobs |-> 0]]
  /\ steady = [i \in Inspectors |-> {}]
  /\ crashed = FALSE

Unlocked(s) == spokeLock[s] = Free

-----------------------------------------------------------------------------
(* The operations of the hub                                               *)

Begin(stage, j, s, todo) ==
  /\ ~crashed /\ op = NoOp
  /\ op' = [at |-> stage, job |-> j, spoke |-> s, todo |-> todo]
  /\ UNCHANGED <<jobQueue, spokeMap, accepted, dropped, inspectVars, crashed>>

\* the operation goes on, or ends
Then(stage) == op' = [op EXCEPT !.at = stage]
Return == op' = NoOp

\* an id that the filter lets through is searched for; a spoke that has been
\* dropped is over, and no job can ask for it again
AddJobLocked(j) ==
  /\ j \notin accepted
  /\ \E s \in AllSpokes \ dropped, todo \in {{}, InspectWalk} : Begin("search", j, s, todo)

CancelJobLocked(j) == Begin("search", j, NoSpoke, InspectWalk)
NextLocked == Begin("next", NoJob, NoSpoke, {})
PersistLocked == Begin("persist", NoJob, NoSpoke, InspectWalk)

\* an add has a spoke in mind, a cancel has not
IsAdd == op.spoke # NoSpoke

\* OwnsJobLocked of one spoke after the other: the owner of a cancelled job is
\* where it is; an add may meet an owner of its id, and is refused
SearchSpoke ==
  /\ op.at = "search"
  /\ \E s \in op.todo :
       /\ Unlocked(s)
       /\ IF op.job \in jobQueue[s]
          THEN op' = [op EXCEPT !.at = "cancel", !.spoke = s]
          ELSE \/ op' = [op EXCEPT !.todo = @ \ {s}]
               \/ IsAdd /\ jobQueue[s] # {} /\ Return
  /\ UNCHANGED <<jobQueue, spokeMap, accepted, dropped, inspectVars>>

SearchDone ==
  /\ op.at = "search" /\ op.todo = {}
  /\ IF IsAdd THEN Then("add") ELSE Return
  /\ UNCHANGED <<jobQueue, spokeMap, accepted, dropped, inspectVars>>

\* a new spoke gets its first job before it is in the map
Insert ==
  /\ op.at = "add" /\ Unlocked(op.spoke)
  /\ jobQueue' = [jobQueue EXCEPT ![op.spoke] = @ \cup {op.job}]
  /\ accepted' = accepted \cup {op.job}
  /\ IF op.spoke \in InspectWalk THEN Return ELSE Then("register")
  /\ UNCHANGED <<spokeMap, dropped, inspectVars>>

Register ==
  /\ op.at = "register"
  /\ spokeMap' = spokeMap \cup {op.spoke}
  /\ Return
  /\ UNCHANGED <<jobQueue, accepted, dropped, inspectVars>>

RemoveFromSpoke(s, j) ==
  /\ jobQueue' = [jobQueue EXCEPT ![s] = @ \ {j}]
  /\ steady' = [i \in Inspectors |-> steady[i] \ {j}]
  /\ UNCHANGED <<spokeLock, pc, left, visited, owed, limit, answer>>

CancelInSpoke ==
  /\ op.at = "cancel" /\ Unlocked(op.spoke)
  /\ RemoveFromSpoke(op.spoke, op.job)
  /\ Return
  /\ UNCHANGED <<spokeMap, accepted, dropped>>

\* Spoke.NextLocked: its first job if it is due
TakeFrom(s) ==
  /\ Unlocked(s)
  /\ \E j \in jobQueue[s] : RemoveFromSpoke(s, j)
  /\ Return
  /\ UNCHANGED <<spokeMap, accepted, dropped>>

\* the spoke that next() looks at last, if it looks at any
PollCurrent == Return \/ \E s \in spokeMap' : op' = [op EXCEPT !.at = "current", !.spoke = s]

\* Variant: the current spoke is dropped when it has expired, drained or not
DroppableExpired(s) == s \in spokeMap

Droppable(s) == s \in spokeMap /\ jobQueue[s] = {}

NothingInPast ==
  /\ op.at = "next" /\ Unlocked(PastSpoke)
  /\ UNCHANGED <<jobQueue, spokeMap, accepted, dropped, inspectVars>>
  /\ \/ PollCurrent
     \/ \E s \in Spokes : Droppable(s) /\ op' = [op EXCEPT !.at = "drop", !.spoke = s]

\* a range does not produce an entry that was deleted before it got there
DropCurrent ==
  /\ op.at = "drop"
  /\ spokeMap' = spokeMap \ {op.spoke} /\ dropped' = dropped \cup {op.spoke}
  /\ owed' = [i \in Inspectors |-> owed[i] \ {op.spoke}]
  /\ PollCurrent
  /\ UNCHANGED <<jobQueue, accepted, spokeLock, pc, left, visited, limit, answer, steady>>

NextFromPast == op.at = "next" /\ TakeFrom(PastSpoke)
NextFromCurrent == op.at = "current" /\ TakeFrom(op.spoke)

NothingInCurrent ==
  /\ op.at = "current" /\ Unlocked(op.spoke)
  /\ Return
  /\ UNCHANGED <<jobQueue, spokeMap, accepted, dropped, inspectVars>>

\* a snapshot locks the spokes one by one
PersistSpoke ==
  /\ op.at = "persist"
  /\ IF op.todo = {} THEN Return
     ELSE \E s \in op.todo : Unlocked(s) /\ op' = [op EXCEPT !.todo = @ \ {s}]
  /\ UNCHANGED <<jobQueue, spokeMap, accepted, dropped, inspectVars>>

HubStep ==
  /\ ~crashed /\ UNCHANGED crashed
  /\ \/ SearchSpoke \/ SearchDone \/ Insert \/ Register \/ CancelInSpoke
     \/ NextFromPast \/ NothingInPast \/ DropCurrent \/ NextFromCurrent
     \/ NothingInCurrent \/ PersistSpoke

-----------------------------------------------------------------------------
(* GetNJobs                                                                *)

InspectStart(i) ==
  /\ ~crashed /\ pc[i] \in {"idle", "done"}
  /\ pc' = [pc EXCEPT ![i] = "past"]
  /\ \E n \in Limits :
       left' = [left EXCEPT ![i] = n] /\ limit' = [limit EXCEPT ![i] = n]
  /\ visited' = [visited EXCEPT ![i] = {}]
  /\ answer' = [answer EXCEPT ![i] = [j \in Jobs |-> 0]]
  /\ steady' = [steady EXCEPT ![i] = JobsOf(InspectWalk)]
  /\ UNCHANGED <<hubVars, spokeLock, owed, crashed>>

\* Variant: the limit ends nothing
SentAll(n, q) == {q}

\* What may be sent of a spoke: the limit is looked at after a job was sent, so
\* one is sent whatever the limit
Sent(n, q) ==
  LET most == IF n < 1 THEN 1 ELSE n
  IN  {sent \in SUBSET q :
         IF Cardinality(q) <= most THEN sent = q ELSE Cardinality(sent) = most}

Report(i, s) ==
  \E sent \in Sent(left[i], jobQueue[s]) :
    /\ answer' = [answer EXCEPT ![i] = [j \in Jobs |-> @[j] + IF j \in sent THEN 1 ELSE 0]]
    /\ left' = [left EXCEPT ![i] = @ - Cardinality(sent)]

InspectPast(i) ==
  /\ pc[i] = "past" /\ Unlocked(PastSpoke)
  /\ Report(i, PastSpoke)
  /\ pc' = [pc EXCEPT ![i] = IF left'[i] <= 0 THEN "done" ELSE "range"]
  /\ owed' = [owed EXCEPT ![i] = spokeMap]
  /\ UNCHANGED <<hubVars, spokeLock, visited, limit, steady>>

\* Variant: the past spoke is in the map as well
UnproducedOrPast(i) == InspectWalk \ visited[i]

Unproduced(i) == spokeMap \ visited[i]

\* the order of a range over a map is any; an entry written meanwhile may or may
\* not be produced
RangeNext(i) ==
  /\ pc[i] = "range"
  /\ \E s \in Unproduced(i) : visited' = [visited EXCEPT ![i] = @ \cup {s}]
  /\ pc' = [pc EXCEPT ![i] = "lock"]
  /\ UNCHANGED <<hubVars, spokeLock, left, owed, limit, answer, steady>>

Held(i) == {s \in AllSpokes : spokeLock[s] = i}

\* the inner loop is left at the limit, the outer one never is
LockSpoke(i) ==
  /\ pc[i] = "lock"
  /\ \E s \in visited[i] \ Held(i) :
       /\ Unlocked(s)
       /\ spokeLock' = [spokeLock EXCEPT ![s] = i]
       /\ Report(i, s)
  /\ pc' = [pc EXCEPT ![i] = "range"]
  /\ UNCHANGED <<hubVars, visited, owed, limit, steady>>

\* Variant: the locks are not released
RangeDoneLocked(i) ==
  /\ pc[i] = "range" /\ owed[i] \subseteq visited[i]
  /\ pc' = [pc EXCEPT ![i] = "done"]
  /\ UNCHANGED <<hubVars, spokeLock, left, visited, owed, limit, answer, steady>>

\* the deferred unlocks
RangeDone(i) ==
  /\ pc[i] = "range" /\ owed[i] \subseteq visited[i]
  /\ pc' = [pc EXCEPT ![i] = "done"]
  /\ spokeLock' = [s \in AllSpokes |-> IF s \in Held(i) THEN Free ELSE spokeLock[s]]
  /\ UNCHANGED <<hubVars, left, visited, owed, limit, answer, steady>>

InspectStep(i) ==
  /\ ~crashed /\ UNCHANGED crashed
  /\ InspectPast(i) \/ RangeNext(i) \/ LockSpoke(i) \/ RangeDone(i)

\* "concurrent map iteration and map write"
RaceFatal(i) ==
  /\ pc[i] = "range" /\ op.at \in {"register", "drop"}
  /\ crashed' = TRUE
  /\ UNCHANGED <<hubVars, inspectVars>>

Next ==
  \/ \E j \in Jobs : AddJobLocked(j) \/ CancelJobLocked(j)
  \/ NextLocked \/ PersistLocked \/ HubStep
  \/ \E i \in Inspectors : InspectStart(i) \/ InspectStep(i) \/ RaceFatal(i)

Spec == Init /\ [][Next]_vars

\* The holder of the hub's mutex and every inspection run on, and no Go mutex is
\* kept from one of them for ever
FairSpec ==
  Spec /\ SF_vars(HubStep) /\ \A i \in Inspectors : SF_vars(InspectStep(i))

-----------------------------------------------------------------------------
(* Safety.                                                                 *)

Reported(i) == {j \in Jobs : answer[i][j] > 0}

\* An inspection reports no job twice, although the hub goes on beside it: a job
\* never changes its spoke, and no spoke is met twice.
ReportedOnce == \A i \in Inspectors, j \in Jobs : answer[i][j] <= 1

\* A best effort is still an effort: an inspection that ends below its limit has
\* reported every job that was pending from its start to its end.
NothingMissed ==
  \A i \in Inspectors :
    pc[i] = "done" /\ left[i] > 0 => steady[i] \subseteq Reported(i)

\* How far an answer can exceed the limit: by one job for each spoke after the
\* first, and it is never empty for a limit of zero or less.
OvershootBounded ==
  \A i \in Inspectors :
    Cardinality(Reported(i)) <=
      (IF limit[i] < 1 THEN 1 ELSE limit[i])
      + (IF visited[i] = {} THEN 0 ELSE Cardinality(visited[i]) - 1)

\* The spokes that a job can be found in, but for the step in which a new one has
\* its first job and is not in the map yet
Map == INSTANCE SpokeMap WITH
  queue <- jobQueue, over <- dropped, known <- accepted,
  map <- spokeMap \cup IF op.at = "register" THEN {op.spoke} ELSE {}

\* The operations of the hub are atomic although inspections go on between their
\* steps: they add, remove and drop as those of Hub do.
ImplementsSpokeMap == Map!Spec

(* Liveness, for one inspection at a time.                                 *)

\* Nobody waits for ever: inspections end, and no operation keeps the hub's mutex,
\* since an inspection that holds spokes does not wait for the hub (unless the
\* runtime has caught one).
NobodyWaitsForever ==
  /\ \A i \in Inspectors : pc[i] = "past" ~> pc[i] = "done" \/ crashed
  /\ op # NoOp ~> op = NoOp \/ crashed

(* What the repository says of GetNJobs and it does not do.                *)

\* Spokes that inspection i has met and could not lock yet
Awaited(i) == IF pc[i] = "lock" THEN visited[i] \ Held(i) ELSE {}

\* Inspections return: no two of them wait for a spoke that the other one holds.
NoMutualWait ==
  \A i, k \in Inspectors :
    i # k => Awaited(i) \cap Held(k) = {} \/ Awaited(k) \cap Held(i) = {}
=============================================================================
