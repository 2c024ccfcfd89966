-------------------------------- MODULE Hub ---------------------------------
(***************************************************************************)
(* The hub of pkg/chronomq: every pending job sits in one spoke, a window  *)
(* of time with a queue ordered by trigger time and a map from job id to   *)
(* job.  The past spoke takes jobs that are already due; the others are    *)
(* created on demand, found through a map from bound to spoke, ordered by  *)
(* a heap, and promoted one at a time to be the current spoke that polls   *)
(* are served from.  A cuckoo filter over the ids guards the id lookups.   *)
(*                                                                         *)
(* Every exported operation runs under the hub's mutex from its first      *)
(* read to its last write, so each is one action.  A bound's start names   *)
(* its spoke, since all bounds have the same span; a heap is the set of    *)
(* its items, popped in order of priority; the clock is read once per      *)
(* operation.                                                              *)
(***************************************************************************)
EXTENDS Integers, FiniteSets

CONSTANTS
  Jobs,          \* job objects, each offered to the hub at most once
  Ids,           \* job ids: two jobs may carry the same one
  IdOf,          \* [Jobs -> Ids]
  Fingerprints,  \* what the filter keeps of an id: byte and bucket pair
  FingerprintOf, \* [Ids -> Fingerprints]
  FilterSlots,   \* up to this load the filter never fails an insert
  NoJob,         \* the nil *Job
  PastSpoke,     \* h.pastSpoke
  NoSpoke,       \* the nil *Spoke
  SpokeSpan,     \* HubOpts.SpokeSpan; zero is accepted
  StartTime,     \* the clock when the hub is created
  PastStart,     \* bound of the past spoke: StartTime -/+ a hundred years
  PastEnd,
  MaxTrigger,    \* bound on the trigger times of jobs
  MaxTime        \* bound on the clock

ASSUME IdsAssumption == IdOf \in [Jobs -> Ids]
ASSUME FilterAssumption ==
  /\ FingerprintOf \in [Ids -> Fingerprints]
  /\ FilterSlots \in Nat
ASSUME NullAssumption ==
  /\ NoJob \notin Jobs
  /\ PastSpoke \notin Int /\ NoSpoke \notin Int /\ PastSpoke # NoSpoke
ASSUME TimeAssumption ==
  /\ SpokeSpan \in Nat /\ StartTime \in Nat
  /\ PastStart \in Nat /\ PastEnd \in Nat
  /\ MaxTrigger \in Nat /\ MaxTime \in Nat
ASSUME FiniteJobs == IsFiniteSet(Jobs)

Triggers == 0 .. MaxTrigger

\* time.Time.Truncate, with which Job.AsBound finds the start of the bound
Truncate(t) == IF SpokeSpan = 0 THEN t ELSE t - (t % SpokeSpan)

Bounds == {Truncate(t) : t \in Triggers}
Spokes == Bounds \cup {PastSpoke}

VARIABLES
  now,          \* the clock
  triggerAt,    \* [Jobs -> trigger time]
  jobQueue,     \* [Spokes -> SUBSET Jobs]: Spoke.jobQueue, a heap
  jobMap,       \* [Spokes -> [Ids -> job or NoJob]]: Spoke.jobMap
  spokeMap,     \* Hub.spokeMap: bounds that have a spoke
  spokes,       \* Hub.spokes: the spokes of the heap, promoted by start
  currentSpoke, \* Hub.currentSpoke
  jobFilter,    \* [Fingerprints -> Nat]: how many copies the filter holds
  filterCount,  \* the filter's own count of what it holds
  stats,        \* Hub.stats
  status,       \* history, [Jobs -> Statuses]: what has become of each job
  reply         \* history: the answer of the call made by the last step

filterVars == <<jobFilter, filterCount>>
hubVars == <<jobQueue, jobMap, spokeMap, spokes, currentSpoke, filterVars, stats>>
vars == <<now, triggerAt, hubVars, status, reply>>

Statuses == {"new", "rejected", "pending", "delivered", "cancelled"}
Pending == {j \in Jobs : status[j] = "pending"}
Removed == {j \in Jobs : status[j] \in {"delivered", "cancelled"}}

TypeOK ==
  /\ now \in Nat
  /\ triggerAt \in [Jobs -> Triggers]
  /\ jobQueue \in [Spokes -> SUBSET Jobs]
  /\ jobMap \in [Spokes -> [Ids -> Jobs \cup {NoJob}]]
  /\ spokeMap \in SUBSET Bounds
  /\ spokes \in SUBSET Bounds
  /\ currentSpoke \in Bounds \cup {NoSpoke}
  /\ jobFilter \in [Fingerprints -> Nat] /\ filterCount \in Int
  /\ stats \in [CurrentJobs : Int, RemovedJobs : Int, CurrentSpokes : Int]
  /\ status \in [Jobs -> Statuses]
  /\ reply \in [call : {"none", "add", "next", "cancel", "prune"},
                job : Jobs \cup {NoJob}]

Init ==
  /\ now = StartTime
  /\ triggerAt = [j \in Jobs |-> 0]
  /\ jobQueue = [s \in Spokes |-> {}]
  /\ jobMap = [s \in Spokes |-> [id \in Ids |-> NoJob]]
  /\ spokeMap = {} /\ spokes = {} /\ currentSpoke = NoSpoke
  /\ jobFilter = [f \in Fingerprints |-> 0] /\ filterCount = 0
  /\ stats = [CurrentJobs |-> 0, RemovedJobs |-> 0, CurrentSpokes |-> 0]
  /\ status = [j \in Jobs |-> "new"]
  /\ reply = [call |-> "none", job |-> NoJob]

-----------------------------------------------------------------------------
(* Time.  A job is due from its trigger time on; a bound holds its start   *)
(* but not its end and has expired only once the clock is past its end.    *)

JobReady(j) == triggerAt[j] <= now

IsJobInBounds(s, t) ==
  IF s = PastSpoke THEN PastStart <= t /\ t < PastEnd
                   ELSE s <= t /\ t < s + SpokeSpan

IsExpired(s) == s + SpokeSpan < now

\* A spoke that has not started yet is classified as current, never as future
SpokeState(s) == IF IsExpired(s) THEN "past" ELSE "current"

(* The cuckoo filter.  Ids of one fingerprint cannot be told apart; a full *)
(* filter may drop a fingerprint, any of those it holds, to insert another.*)

Lookup(id) == jobFilter[FingerprintOf[id]] > 0

FilterDelete(id) ==
  /\ jobFilter' = [jobFilter EXCEPT ![FingerprintOf[id]] = IF @ > 0 THEN @ - 1 ELSE 0]
  /\ filterCount' = IF Lookup(id) THEN filterCount - 1 ELSE filterCount

FilterInsert(id) ==
  LET inserted == [jobFilter EXCEPT ![FingerprintOf[id]] = @ + 1]
  IN  \/ jobFilter' = inserted /\ filterCount' = filterCount + 1
      \/ /\ filterCount >= FilterSlots
         /\ \E f \in {g \in Fingerprints : inserted[g] > 0} :
              jobFilter' = [inserted EXCEPT ![f] = @ - 1]
         /\ UNCHANGED filterCount

(* The spokes that findOwnerSpoke searches, and those it may answer with:  *)
(* the past one first, then the current one, then any other.               *)

\* Variant: the search forgets the spokes of the map
SearchedPinned == {PastSpoke} \cup ({currentSpoke} \ {NoSpoke})

Searched == {PastSpoke} \cup ({currentSpoke} \ {NoSpoke}) \cup spokeMap

FindOwnerSpoke(id) ==
  LET owners == {s \in Searched : jobMap[s][id] # NoJob}
  IN  IF PastSpoke \in owners THEN {PastSpoke}
      ELSE IF currentSpoke \in owners THEN {currentSpoke}
      ELSE owners

Answer(call, j) == reply' = [call |-> call, job |-> j]
Becomes(j, s) == status' = [status EXCEPT ![j] = s]

DecrJob(st) == [st EXCEPT !.CurrentJobs = @ - 1, !.RemovedJobs = @ + 1]

-----------------------------------------------------------------------------
(* AddJobLocked: a job due now goes to the past spoke; a later one to the  *)
(* current spoke if that one's window holds it, else to the spoke of its   *)
(* bound, created and registered when the map has none.                    *)

\* Variant: the spoke of a job starts at its trigger time
AddTargetRaw(t) == IF t <= now THEN PastSpoke ELSE t

AddTarget(t) ==
  IF t <= now THEN PastSpoke
  ELSE IF currentSpoke # NoSpoke /\ IsJobInBounds(currentSpoke, t) THEN currentSpoke
  ELSE Truncate(t)

AddToSpoke(s, j) ==
  /\ jobMap' = [jobMap EXCEPT ![s][IdOf[j]] = j]
  /\ jobQueue' = [jobQueue EXCEPT ![s] = @ \cup {j}]

AddSpoke(s) ==
  LET known == s \in {PastSpoke, currentSpoke} \cup spokeMap
  IN  /\ spokeMap' = IF known THEN spokeMap ELSE spokeMap \cup {s}
      /\ spokes' = IF known THEN spokes ELSE spokes \cup {s}
      /\ stats' = [stats EXCEPT !.CurrentJobs = @ + 1,
                                !.CurrentSpokes = IF known THEN @ ELSE @ + 1]

Refused(j, t) ==
  \/ Lookup(IdOf[j]) /\ FindOwnerSpoke(IdOf[j]) # {}
  \/ ~IsJobInBounds(AddTarget(t), t)

AddJobLocked(j, t) ==
  /\ status[j] = "new"
  /\ triggerAt' = [triggerAt EXCEPT ![j] = t]
  /\ IF Refused(j, t)
     THEN /\ Becomes(j, "rejected") /\ Answer("add", NoJob)
          /\ UNCHANGED hubVars
     ELSE /\ AddToSpoke(AddTarget(t), j)
          /\ AddSpoke(AddTarget(t))
          /\ FilterInsert(IdOf[j])
          /\ Becomes(j, "pending") /\ Answer("add", j)
          /\ UNCHANGED currentSpoke
  /\ UNCHANGED now

(* A job leaves its spoke: its id leaves the map, it leaves the queue.     *)

\* Variants: one of the two structures is forgotten
RemoveFromMapOnly(s, j) ==
  /\ jobMap' = [jobMap EXCEPT ![s][IdOf[j]] = NoJob]
  /\ UNCHANGED jobQueue

RemoveFromQueueOnly(s, j) ==
  /\ jobQueue' = [jobQueue EXCEPT ![s] = @ \ {j}]
  /\ UNCHANGED jobMap

RemoveFromSpoke(s, j) ==
  /\ jobMap' = [jobMap EXCEPT ![s][IdOf[j]] = NoJob]
  /\ jobQueue' = [jobQueue EXCEPT ![s] = @ \ {j}]

(* CancelJobLocked: the filter answers for an id it has never seen; an id  *)
(* it lets through is searched for, and deleted from the filter whether or *)
(* not an owner was found.                                                 *)

CancelUnseen(id) ==
  /\ ~Lookup(id)
  /\ Answer("cancel", NoJob)
  /\ UNCHANGED <<hubVars, status>>

CancelNoOwner(id) ==
  /\ Lookup(id) /\ FindOwnerSpoke(id) = {}
  /\ FilterDelete(id)
  /\ Answer("cancel", NoJob)
  /\ UNCHANGED <<jobQueue, jobMap, spokeMap, spokes, currentSpoke, stats, status>>

CancelOwned(id) ==
  /\ Lookup(id)
  /\ \E s \in FindOwnerSpoke(id) :
       LET j == jobMap[s][id]
       IN  /\ RemoveFromSpoke(s, j)
           /\ Becomes(j, "cancelled") /\ Answer("cancel", j)
  /\ stats' = DecrJob(stats)
  /\ FilterDelete(id)
  /\ UNCHANGED <<spokeMap, spokes, currentSpoke>>

CancelJobLocked(id) ==
  /\ CancelUnseen(id) \/ CancelNoOwner(id) \/ CancelOwned(id)
  /\ UNCHANGED <<now, triggerAt>>

-----------------------------------------------------------------------------
(* NextLocked: the past spoke is served first.  When it is empty, a drained*)
(* and expired current spoke is dropped, and the earliest spoke of the heap*)
(* takes the place of a missing one; only that spoke is then looked at.    *)

\* Variant: the drained spoke is compared with a state it never has
CurrentIsNeverDone ==
  /\ currentSpoke # NoSpoke
  /\ jobQueue[currentSpoke] = {} /\ SpokeState(currentSpoke) = "future"

CurrentIsDone ==
  /\ currentSpoke # NoSpoke
  /\ jobQueue[currentSpoke] = {} /\ SpokeState(currentSpoke) = "past"

KeptSpoke == IF CurrentIsDone THEN NoSpoke ELSE currentSpoke

Candidate ==
  IF KeptSpoke = NoSpoke
  THEN {s \in spokes : SpokeState(s) # "future" /\ \A r \in spokes : s <= r}
  ELSE {}

\* the spoke that is looked at, if any
Polled == (Candidate \cup {KeptSpoke}) \ {NoSpoke}

\* Variants: a dropped spoke stays in the map, a promoted one in the heap
AdvanceKeepingInMap ==
  /\ currentSpoke' \in IF Polled = {} THEN {NoSpoke} ELSE Polled
  /\ spokes' = spokes \ Candidate
  /\ UNCHANGED spokeMap

AdvanceKeepingInHeap ==
  /\ currentSpoke' \in IF Polled = {} THEN {NoSpoke} ELSE Polled
  /\ spokeMap' = IF CurrentIsDone THEN spokeMap \ {currentSpoke} ELSE spokeMap
  /\ UNCHANGED spokes

AdvanceCurrent ==
  /\ currentSpoke' \in IF Polled = {} THEN {NoSpoke} ELSE Polled
  /\ spokes' = spokes \ Candidate
  /\ spokeMap' = IF CurrentIsDone THEN spokeMap \ {currentSpoke} ELSE spokeMap

\* The counters once a drained current spoke has been dropped
SpokeStats == IF CurrentIsDone THEN [stats EXCEPT !.CurrentSpokes = @ - 1] ELSE stats

\* Variant: the earliest job of the heap, due or not
HeadDueOrNot(s) == {j \in jobQueue[s] : \A k \in jobQueue[s] : triggerAt[j] <= triggerAt[k]}

\* Variant: any job that is due
HeadAnyDue(s) == {j \in jobQueue[s] : JobReady(j)}

\* Jobs that Spoke.NextLocked may pop: the earliest of the heap, if it is due
Head(s) ==
  {j \in jobQueue[s] : JobReady(j) /\ \A k \in jobQueue[s] : triggerAt[j] <= triggerAt[k]}

\* Variant: the id of a delivered job stays in the filter
DeliverKeepingId(s, j) ==
  /\ RemoveFromSpoke(s, j)
  /\ UNCHANGED filterVars
  /\ Becomes(j, "delivered") /\ Answer("next", j)

Deliver(s, j) ==
  /\ RemoveFromSpoke(s, j)
  /\ FilterDelete(IdOf[j])
  /\ Becomes(j, "delivered") /\ Answer("next", j)

NextFromPast ==
  /\ \E j \in Head(PastSpoke) : Deliver(PastSpoke, j)
  /\ stats' = DecrJob(stats)
  /\ UNCHANGED <<spokeMap, spokes, currentSpoke>>

NextFromCurrent ==
  /\ Head(PastSpoke) = {}
  /\ AdvanceCurrent
  /\ \E s \in Polled : \E j \in Head(s) : Deliver(s, j)
  /\ stats' = DecrJob(SpokeStats)

NextNothing ==
  /\ Head(PastSpoke) = {}
  /\ AdvanceCurrent
  /\ \A s \in Polled : Head(s) = {}
  /\ stats' = SpokeStats
  /\ Answer("next", NoJob)
  /\ UNCHANGED <<jobQueue, jobMap, filterVars, status>>

NextLocked ==
  /\ NextFromPast \/ NextFromCurrent \/ NextNothing
  /\ UNCHANGED <<now, triggerAt>>

(* Prune is exported but nothing in the repository calls it: only the      *)
(* specification of an embedding program has it.                           *)

\* Variant: every expired spoke is pruned
PrunableExpired == {s \in spokeMap : IsExpired(s)}

Prunable == {s \in spokeMap : IsExpired(s) /\ jobQueue[s] = {}}

Prune ==
  /\ spokeMap' = spokeMap \ Prunable
  /\ stats' = [stats EXCEPT !.CurrentSpokes = @ - Cardinality(Prunable)]
  /\ Answer("prune", NoJob)
  /\ UNCHANGED <<now, triggerAt, jobQueue, jobMap, spokes, currentSpoke, filterVars, status>>

Tick ==
  /\ now < MaxTime
  /\ now' = now + 1
  /\ Answer("none", NoJob)
  /\ UNCHANGED <<triggerAt, hubVars, status>>

Next ==
  \/ \E j \in Jobs, t \in Triggers : AddJobLocked(j, t)
  \/ \E id \in Ids : CancelJobLocked(id)
  \/ NextLocked
  \/ Tick

Spec == Init /\ [][Next]_vars

EmbeddedNext == Next \/ Prune
EmbeddedSpec == Init /\ [][EmbeddedNext]_vars

\* the clock runs on, and some consumer keeps polling
FairSpec == Spec /\ WF_vars(Tick) /\ WF_vars(NextLocked)

-----------------------------------------------------------------------------
(* What the operations that only read would see.                           *)

\* PersistLocked walks the heap, then the past spoke, then the current one
PersistWalk == spokes \cup {PastSpoke} \cup ({currentSpoke} \ {NoSpoke})

\* GetNJobs walks the past spoke, then the spokes of the map
InspectWalk == {PastSpoke} \cup spokeMap

JobsOf(walk) == {j \in Jobs : \E s \in walk : j \in jobQueue[s]}

-----------------------------------------------------------------------------
(* Safety, whatever the fingerprints.                                      *)

\* No job is lost or duplicated: a job is pending exactly when it is in the
\* queue of a spoke, and no two spokes hold it, however spokes were created,
\* promoted, dropped and pruned in between.
JobsConserved ==
  /\ Pending = JobsOf(Spokes)
  /\ \A r, s \in Spokes : r # s => jobQueue[r] \cap jobQueue[s] = {}

\* A snapshot saves every pending job and no job twice: PersistLocked visits
\* the heap, the past and the current spoke, so a job must be in one of them,
\* and the current spoke must not be in the heap as well.
SnapshotExact ==
  /\ JobsOf(PersistWalk) = Pending
  /\ currentSpoke \notin spokes

\* GetNJobs and findOwnerSpoke see every pending job although they search the
\* map of spokes and not the heap: a spoke that still has jobs never leaves
\* the map.
InspectExact == JobsOf(InspectWalk) = Pending

\* The counters of stats.Counters agree with the jobs, on every path that adds
\* or removes one: current jobs are those pending, removed ones those that were
\* delivered or cancelled.
JobStatsExact ==
  /\ stats.CurrentJobs = Cardinality(Pending)
  /\ stats.RemovedJobs = Cardinality(Removed)

\* A spoke's map never outlives its queue: what it returns for an id is a job
\* of that id that waits in the same spoke, so that heap.Remove gets a valid
\* index.  (The converse fails once two pending jobs share an id.)
JobMapSound ==
  \A s \in Spokes, id \in Ids :
    jobMap[s][id] # NoJob =>
      jobMap[s][id] \in jobQueue[s] /\ IdOf[jobMap[s][id]] = id

\* The filter keeps nothing for jobs that have left: it has no more copies of a
\* fingerprint than there are pending jobs of it, so that one which fills up and
\* evicts is full of pending jobs, and one whose hub has drained denies every id.
FilterHoldsPending ==
  \A f \in Fingerprints :
    jobFilter[f] <= Cardinality({j \in Pending : FingerprintOf[IdOf[j]] = f})

\* The four that clients' jobs depend on tell one story, on every path that adds
\* or removes a job: queues, maps of ids, filter and counters.
JobsAgree == JobsConserved /\ JobMapSound /\ FilterHoldsPending /\ JobStatsExact

\* Both walks over the spokes, which go through different structures, see each
\* pending job, whatever has been promoted, dropped and pruned.
WalksExact == SnapshotExact /\ InspectExact

\* A bound that has expired and has left the map
Over == {s \in Bounds : IsExpired(s) /\ s \notin spokeMap}

\* Those who search spoke by spoke can rely on the map, as SpokeMap puts it: a
\* job stays in its spoke, a spoke with jobs stays in the map, and one that has
\* left the map is not created again.
Map == INSTANCE SpokeMap WITH
  Spokes <- Bounds, queue <- jobQueue, map <- spokeMap, over <- Over,
  known <- Pending \cup Removed
ImplementsSpokeMap == Map!Spec

(* Safety of the server, in which nothing prunes.                          *)

\* Map, heap, current spoke and counter tell one story: the map has exactly the
\* spokes of the heap and the current one, and CurrentSpokes counts them.
SpokesAgree ==
  /\ spokeMap = spokes \cup ({currentSpoke} \ {NoSpoke})
  /\ stats.CurrentSpokes = Cardinality(spokeMap)

(* Safety when no two ids in use share a fingerprint.                      *)

\* The filter holds one copy of the fingerprint of every pending job and of no
\* other: adds, cancels (of unknown ids too) and deliveries stay balanced.
FilterExact ==
  /\ filterCount = Cardinality(Pending)
  /\ \A f \in Fingerprints :
       jobFilter[f] = Cardinality({j \in Pending : FingerprintOf[IdOf[j]] = f})

\* An id is pending at most once, and the map of the spoke that has the job
\* returns it: a cancel can reach every pending job.
JobMapExact ==
  /\ \A j, k \in Pending : IdOf[j] = IdOf[k] => j = k
  /\ \A s \in Spokes : \A j \in jobQueue[s] : jobMap[s][IdOf[j]] = j

\* The hub as its clients see it implements JobQueue.
Queue == INSTANCE JobQueue WITH Horizon <- PastStart
ImplementsQueue == Queue!Spec

\* Whatever the fingerprints: no job is delivered early, twice or after its
\* cancel was answered, and a cancel takes none but a pending job of its id.
ImplementsLooseQueue == Queue!LooseSpec

\* When a poll misses a job that is ready, it is for one of three reasons, each
\* a matter of the current spoke: it was promoted before its window began and
\* the job came later, for an earlier window; it is empty and ends right now; or
\* it had been drained by cancels and this poll only promoted it.
MissesOnlyBehindCurrent ==
  [][reply' = [call |-> "next", job |-> NoJob] =>
       \A k \in Pending : JobReady(k) =>
         /\ currentSpoke' # NoSpoke /\ k \notin jobQueue[currentSpoke']
         /\ \/ triggerAt[k] < currentSpoke'
            \/ /\ jobQueue[currentSpoke'] = {}
               /\ now = currentSpoke' + SpokeSpan \/ currentSpoke' # currentSpoke]_vars

\* A poll delivers a job before one that is ready and has an earlier trigger in
\* two cases only: the job delivered was put when it was due already, so that
\* it is in the past spoke and the other one is not; or the other one lies in a
\* window before the current spoke, which was promoted too early.
InvertedOnlyAcrossSpokes ==
  [][\A j \in Jobs : reply' = [call |-> "next", job |-> j] =>
       \A k \in Pending : JobReady(k) /\ triggerAt[k] < triggerAt[j] =>
         /\ k \notin jobQueue[PastSpoke]
         /\ j \in jobQueue[PastSpoke] \/ triggerAt[k] < currentSpoke']_vars

(* Liveness.                                                               *)

\* While a consumer keeps polling, no job stays pending for ever, such as behind
\* a current spoke that never expires: every accepted job is delivered or
\* cancelled (which of the two, and that it is never pending again, is for
\* ImplementsQueue to say).
EveryJobLeaves ==
  \A j \in Jobs : []<>(status[j] # "pending")

(* What the repository says of the hub and the hub does not do.            *)

\* A poll that answers "no job" means that no pending job is ready.
NothingMeansNotReady ==
  [][reply' = [call |-> "next", job |-> NoJob] => \A j \in Pending : ~JobReady(j)]_vars

\* The filter has no false negatives: it lets every pending id through.
NoFalseNegatives == \A j \in Pending : Lookup(IdOf[j])
=============================================================================
