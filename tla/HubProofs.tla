----------------------------- MODULE HubProofs ------------------------------
(***************************************************************************)
(* Invariance proofs for Hub, for any jobs, ids, fingerprints, span and    *)
(* bounds on time.                                                         *)
(***************************************************************************)
EXTENDS Hub, SumTheorems, FiniteSetTheorems, TLAPS

\* The map only knows spokes of the heap and the current one
Registered ==
  /\ currentSpoke \notin spokes
  /\ spokeMap \subseteq spokes \cup {currentSpoke}
  /\ \A s \in Spokes : jobQueue[s] # {} => s = PastSpoke \/ s \in spokeMap

\* A spoke that has left the map and is still used has expired for good, so
\* that no later job can ask for a second spoke of the same bound
Dropped ==
  \A s \in spokes \cup {currentSpoke} : s # NoSpoke /\ s \notin spokeMap => IsExpired(s)

HubInv ==
  /\ TypeOK
  /\ JobsConserved
  /\ JobMapSound
  /\ Registered
  /\ Dropped
  /\ JobStatsExact

-----------------------------------------------------------------------------
(* The bounds of spokes, and what the operations make of a spoke.          *)

LEMMA TruncateInt == ASSUME NEW t \in Nat PROVE Truncate(t) \in Int
  BY TimeAssumption DEF Truncate

LEMMA BoundsInt == Bounds \subseteq Int /\ PastSpoke \notin Bounds /\ NoSpoke \notin Spokes
  BY TruncateInt, NullAssumption DEF Bounds, Spokes, Triggers

LEMMA AddTargetSpoke ==
  ASSUME TypeOK, NEW t \in Triggers
  PROVE  AddTarget(t) \in Spokes
  BY BoundsInt DEF TypeOK, AddTarget, Spokes, Bounds

\* A bound that may still take a job has not expired
LEMMA BoundAlive ==
  ASSUME TypeOK, NEW t \in Triggers, ~(t <= now),
         NEW s \in Bounds, IsJobInBounds(s, t)
  PROVE  ~IsExpired(s)
  <1>1. s \in Int /\ s # PastSpoke /\ t \in Int /\ now \in Int /\ SpokeSpan \in Int
    BY BoundsInt, TimeAssumption DEF TypeOK, Triggers
  <1>2. t < s + SpokeSpan
    BY <1>1 DEF IsJobInBounds
  <1> QED
    BY <1>1, <1>2 DEF IsExpired

LEMMA StatusSets ==
  /\ Pending \in SUBSET Jobs /\ Removed \in SUBSET Jobs
  /\ IsFiniteSet(Pending) /\ IsFiniteSet(Removed)
  BY FiniteJobs, FS_Subset DEF Pending, Removed

LEMMA FindOwnerFinds ==
  ASSUME TypeOK, NEW id \in Ids, NEW s \in FindOwnerSpoke(id)
  PROVE  s \in Spokes /\ jobMap[s][id] # NoJob
  BY DEF TypeOK, FindOwnerSpoke, Searched, Spokes

\* Polled is empty or one spoke, the one that becomes the current spoke
LEMMA PolledSpoke ==
  ASSUME TypeOK
  PROVE  /\ Polled \subseteq Bounds
         /\ \A r, s \in Polled : r = s
         /\ Candidate \subseteq spokes
  <1>1. Candidate \subseteq spokes /\ spokes \subseteq Int
    BY BoundsInt DEF Candidate, TypeOK
  <1>2. \A r, s \in Candidate : r = s
    BY <1>1 DEF Candidate
  <1>3. Polled \subseteq Bounds
    BY <1>1 DEF Polled, KeptSpoke, TypeOK
  <1>4. KeptSpoke # NoSpoke => Candidate = {}
    BY DEF Candidate
  <1> QED
    BY <1>1, <1>2, <1>3, <1>4 DEF Polled

-----------------------------------------------------------------------------
(* A job that arrives in a spoke, and one that leaves it.                  *)

LEMMA Arrival ==
  ASSUME TypeOK, JobsConserved, JobMapSound,
         NEW j \in Jobs, status[j] = "new", NEW s \in Spokes,
         AddToSpoke(s, j), Becomes(j, "pending")
  PROVE  /\ JobsConserved' /\ JobMapSound'
         /\ j \notin Pending /\ Pending' = Pending \cup {j} /\ Removed' = Removed
         /\ jobQueue' \in [Spokes -> SUBSET Jobs]
         /\ jobMap' \in [Spokes -> [Ids -> Jobs \cup {NoJob}]]
         /\ status' \in [Jobs -> Statuses]
  <1>1. /\ j \notin Pending /\ Pending' = Pending \cup {j} /\ Removed' = Removed
        /\ status' \in [Jobs -> Statuses]
    BY DEF TypeOK, Becomes, Pending, Removed, Statuses
  <1>2. \A r \in Spokes : jobQueue'[r] = IF r = s THEN jobQueue[r] \cup {j} ELSE jobQueue[r]
    BY DEF TypeOK, AddToSpoke
  <1>3. JobsOf(Spokes)' = JobsOf(Spokes) \cup {j}
    BY <1>2 DEF JobsOf
  <1>8. \A r \in Spokes : j \notin jobQueue[r]
    BY <1>1 DEF JobsConserved, JobsOf
  <1>4. JobsConserved'
    <2>1. Pending' = JobsOf(Spokes)'
      BY <1>1, <1>3 DEF JobsConserved
    <2>2. ASSUME NEW q \in Spokes, NEW r \in Spokes, q # r
          PROVE  jobQueue'[q] \cap jobQueue'[r] = {}
      <3>1. jobQueue[q] \cap jobQueue[r] = {}
        BY <2>2 DEF JobsConserved
      <3> QED
        BY <3>1, <2>2, <1>2, <1>8
    <2> QED
      BY <2>1, <2>2 DEF JobsConserved
  <1>5. \A r \in Spokes, id \in Ids :
          jobMap'[r][id] = IF r = s /\ id = IdOf[j] THEN j ELSE jobMap[r][id]
    BY IdsAssumption DEF TypeOK, AddToSpoke
  <1>6. JobMapSound'
    <2> SUFFICES ASSUME NEW r \in Spokes, NEW id \in Ids, jobMap'[r][id] # NoJob
                 PROVE  jobMap'[r][id] \in jobQueue'[r] /\ IdOf[jobMap'[r][id]] = id
      BY DEF JobMapSound
    <2>1. CASE r = s /\ id = IdOf[j]
      BY <2>1, <1>2, <1>5
    <2>2. CASE ~(r = s /\ id = IdOf[j])
      <3>1. jobMap'[r][id] = jobMap[r][id]
        BY <2>2, <1>5
      <3>2. jobMap[r][id] \in jobQueue[r] /\ IdOf[jobMap[r][id]] = id
        BY <3>1 DEF JobMapSound
      <3> QED
        BY <3>1, <3>2, <1>2
    <2> QED
      BY <2>1, <2>2
  <1>7. /\ jobQueue' \in [Spokes -> SUBSET Jobs]
        /\ jobMap' \in [Spokes -> [Ids -> Jobs \cup {NoJob}]]
    BY IdsAssumption DEF TypeOK, AddToSpoke
  <1> QED
    BY <1>1, <1>4, <1>6, <1>7

LEMMA Departure ==
  ASSUME TypeOK, JobsConserved, JobMapSound,
         NEW s \in Spokes, NEW j \in jobQueue[s],
         NEW st \in {"delivered", "cancelled"},
         RemoveFromSpoke(s, j), Becomes(j, st)
  PROVE  /\ JobsConserved' /\ JobMapSound'
         /\ j \in Pending /\ Pending' = Pending \ {j}
         /\ j \notin Removed /\ Removed' = Removed \cup {j}
         /\ jobQueue' \in [Spokes -> SUBSET Jobs]
         /\ jobMap' \in [Spokes -> [Ids -> Jobs \cup {NoJob}]]
         /\ status' \in [Jobs -> Statuses]
  <1>0. j \in Jobs /\ j \in Pending
    BY DEF TypeOK, JobsConserved, JobsOf
  <1>1. /\ Pending' = Pending \ {j} /\ j \notin Removed /\ Removed' = Removed \cup {j}
        /\ status' \in [Jobs -> Statuses]
    BY <1>0 DEF TypeOK, Becomes, Pending, Removed, Statuses
  <1>2. \A r \in Spokes : jobQueue'[r] = IF r = s THEN jobQueue[r] \ {j} ELSE jobQueue[r]
    BY DEF TypeOK, RemoveFromSpoke
  <1>3. \A r \in Spokes : r # s => j \notin jobQueue[r]
    BY DEF JobsConserved
  <1>4. JobsOf(Spokes)' = JobsOf(Spokes) \ {j}
    BY <1>2, <1>3 DEF JobsOf
  <1>5. JobsConserved'
    BY <1>1, <1>2, <1>4 DEF JobsConserved
  <1>6. \A r \in Spokes, id \in Ids :
          jobMap'[r][id] = IF r = s /\ id = IdOf[j] THEN NoJob ELSE jobMap[r][id]
    BY <1>0, IdsAssumption DEF TypeOK, RemoveFromSpoke
  <1>7. JobMapSound'
    <2> SUFFICES ASSUME NEW r \in Spokes, NEW id \in Ids, jobMap'[r][id] # NoJob
                 PROVE  jobMap'[r][id] \in jobQueue'[r] /\ IdOf[jobMap'[r][id]] = id
      BY DEF JobMapSound
    <2>1. jobMap'[r][id] = jobMap[r][id] /\ ~(r = s /\ id = IdOf[j])
      BY <1>6
    <2>2. jobMap[r][id] \in jobQueue[r] /\ IdOf[jobMap[r][id]] = id
      BY <2>1 DEF JobMapSound
    <2> QED
      BY <2>1, <2>2, <1>2
  <1>8. /\ jobQueue' \in [Spokes -> SUBSET Jobs]
        /\ jobMap' \in [Spokes -> [Ids -> Jobs \cup {NoJob}]]
    BY <1>0, IdsAssumption DEF TypeOK, RemoveFromSpoke
  <1> QED
    BY <1>0, <1>1, <1>5, <1>7, <1>8

\* The counters follow
LEMMA CountArrival ==
  ASSUME JobStatsExact, NEW j, j \notin Pending,
         Pending' = Pending \cup {j}, Removed' = Removed,
         stats'.CurrentJobs = stats.CurrentJobs + 1, stats'.RemovedJobs = stats.RemovedJobs
  PROVE  JobStatsExact'
  <1>1. Cardinality(Pending') = Cardinality(Pending) + 1
    BY StatusSets, FS_AddElement
  <1> QED
    BY <1>1 DEF JobStatsExact

LEMMA CountDeparture ==
  ASSUME JobStatsExact, NEW j, j \in Pending, j \notin Removed,
         Pending' = Pending \ {j}, Removed' = Removed \cup {j},
         stats'.CurrentJobs = stats.CurrentJobs - 1, stats'.RemovedJobs = stats.RemovedJobs + 1
  PROVE  JobStatsExact'
  <1>1. Cardinality(Pending') = Cardinality(Pending) - 1
    BY StatusSets, FS_RemoveElement
  <1>2. Cardinality(Removed') = Cardinality(Removed) + 1
    BY StatusSets, FS_AddElement
  <1> QED
    BY <1>1, <1>2 DEF JobStatsExact

LEMMA DecrJobType ==
  ASSUME NEW st \in [CurrentJobs : Int, RemovedJobs : Int, CurrentSpokes : Int]
  PROVE  DecrJob(st) \in [CurrentJobs : Int, RemovedJobs : Int, CurrentSpokes : Int]
  <1> DEFINE once == [st EXCEPT !.CurrentJobs = @ - 1]
  <1>1. once \in [CurrentJobs : Int, RemovedJobs : Int, CurrentSpokes : Int]
    OBVIOUS
  <1>2. DecrJob(st) = [once EXCEPT !.RemovedJobs = st.RemovedJobs + 1]
    BY Zenon DEF DecrJob
  <1> HIDE DEF once
  <1> QED
    BY <1>1, <1>2

LEMMA FilterTypes ==
  ASSUME TypeOK, NEW id \in Ids, FilterDelete(id) \/ FilterInsert(id)
  PROVE  jobFilter' \in [Fingerprints -> Nat] /\ filterCount' \in Int
  <1>1. FingerprintOf[id] \in Fingerprints
    BY FilterAssumption
  <1>2. CASE FilterDelete(id)
    BY <1>1, <1>2 DEF TypeOK, FilterDelete
  <1>3. CASE FilterInsert(id)
    <2> DEFINE inserted == [jobFilter EXCEPT ![FingerprintOf[id]] = @ + 1]
    <2>1. inserted \in [Fingerprints -> Nat]
      BY <1>1 DEF TypeOK
    <2>2. CASE jobFilter' = inserted /\ filterCount' = filterCount + 1
      BY <2>1, <2>2 DEF TypeOK
    <2>3. ASSUME NEW f \in Fingerprints, inserted[f] > 0,
                 jobFilter' = [inserted EXCEPT ![f] = @ - 1], UNCHANGED filterCount
          PROVE  jobFilter' \in [Fingerprints -> Nat] /\ filterCount' \in Int
      BY <2>1, <2>3 DEF TypeOK
    <2> QED
      BY <1>3, <2>2, <2>3 DEF FilterInsert
  <1> QED
    BY <1>2, <1>3

-----------------------------------------------------------------------------
(* Every operation preserves the invariant.                                *)

LEMMA InitInv == Init => HubInv
  <1> SUFFICES ASSUME Init PROVE HubInv
    OBVIOUS
  <1>1. TypeOK
    BY TimeAssumption DEF Init, TypeOK, Triggers, Statuses
  <1>2. JobsConserved /\ JobMapSound /\ Registered /\ Dropped
    BY DEF Init, JobsConserved, JobsOf, Pending, JobMapSound, Registered, Dropped
  <1>3. Pending = {} /\ Removed = {}
    BY DEF Init, Pending, Removed
  <1>4. JobStatsExact
    BY <1>3, FS_EmptySet DEF Init, JobStatsExact
  <1> QED
    BY <1>1, <1>2, <1>4 DEF HubInv

LEMMA AddInv ==
  ASSUME HubInv, NEW j \in Jobs, NEW t \in Triggers, AddJobLocked(j, t)
  PROVE  HubInv'
  <1> USE DEF HubInv
  <1>1. /\ status[j] = "new" /\ UNCHANGED now
        /\ triggerAt' \in [Jobs -> Triggers]
    BY DEF AddJobLocked, TypeOK
  <1>2. CASE Refused(j, t)
    <2>1. UNCHANGED hubVars /\ Becomes(j, "rejected") /\ Answer("add", NoJob)
      BY <1>2 DEF AddJobLocked
    <2>2. status' = [status EXCEPT ![j] = "rejected"] /\ reply' = [call |-> "add", job |-> NoJob]
      BY <2>1 DEF Becomes, Answer
    <2>3. Pending' = Pending /\ Removed' = Removed
      BY <1>1, <2>2 DEF Pending, Removed, TypeOK
    <2>4. TypeOK'
      BY <1>1, <2>1, <2>2 DEF TypeOK, hubVars, filterVars, Statuses
    <2> QED
      BY <1>1, <2>1, <2>3, <2>4
      DEF hubVars, filterVars, JobsConserved, JobsOf, JobMapSound, Registered, Dropped, IsExpired,
          JobStatsExact
  <1>3. CASE ~Refused(j, t)
    <2> DEFINE s == AddTarget(t)
    <2>1. /\ AddToSpoke(s, j) /\ AddSpoke(s) /\ FilterInsert(IdOf[j])
          /\ Becomes(j, "pending") /\ Answer("add", j) /\ UNCHANGED currentSpoke
          /\ IsJobInBounds(s, t)
      BY <1>3 DEF AddJobLocked, Refused
    <2>2. s \in Spokes
      BY AddTargetSpoke
    <2>3. /\ JobsConserved' /\ JobMapSound'
          /\ j \notin Pending /\ Pending' = Pending \cup {j} /\ Removed' = Removed
          /\ jobQueue' \in [Spokes -> SUBSET Jobs]
          /\ jobMap' \in [Spokes -> [Ids -> Jobs \cup {NoJob}]]
          /\ status' \in [Jobs -> Statuses]
      BY <1>1, <2>1, <2>2, Arrival
    <2>4. jobFilter' \in [Fingerprints -> Nat] /\ filterCount' \in Int
      BY <2>1, FilterTypes, IdsAssumption
    <2> DEFINE known == s \in {PastSpoke, currentSpoke} \cup spokeMap
    <2>5. /\ spokeMap' = IF known THEN spokeMap ELSE spokeMap \cup {s}
          /\ spokes' = IF known THEN spokes ELSE spokes \cup {s}
          /\ stats' = [stats EXCEPT !.CurrentJobs = @ + 1,
                                    !.CurrentSpokes = IF known THEN @ ELSE @ + 1]
      BY <2>1 DEF AddSpoke
    <2>6. s \notin Bounds => s = PastSpoke
      BY <2>2 DEF Spokes
    <2>7. TypeOK'
      <3>1. spokeMap' \in SUBSET Bounds /\ spokes' \in SUBSET Bounds
        BY <2>5, <2>6 DEF TypeOK
      <3>2. stats' \in [CurrentJobs : Int, RemovedJobs : Int, CurrentSpokes : Int]
        <4>1. stats' = [CurrentJobs |-> stats.CurrentJobs + 1, RemovedJobs |-> stats.RemovedJobs,
                        CurrentSpokes |-> IF known THEN stats.CurrentSpokes ELSE stats.CurrentSpokes + 1]
          BY <2>5 DEF TypeOK
        <4> QED
          BY <4>1 DEF TypeOK
      <3>3. reply' \in [call : {"none", "add", "next", "cancel", "prune"}, job : Jobs \cup {NoJob}]
        BY <2>1 DEF Answer
      <3> QED
        BY <1>1, <2>1, <2>3, <2>4, <3>1, <3>2, <3>3 DEF TypeOK
    <2>8. JobStatsExact'
      BY <2>3, <2>5, CountArrival DEF TypeOK
    <2>9. s # PastSpoke => ~(t <= now)
      BY DEF AddTarget
    <2>10. s # PastSpoke => s \in Bounds /\ ~IsExpired(s)
      BY <2>1, <2>6, <2>9, BoundAlive
    <2>11. s # PastSpoke /\ s \in spokes \cup {currentSpoke} => s \in spokeMap
      BY <2>10, BoundsInt DEF Dropped, Spokes
    <2>12. \A r \in Spokes : jobQueue'[r] = IF r = s THEN jobQueue[r] \cup {j} ELSE jobQueue[r]
      BY <2>1, <2>2 DEF AddToSpoke, TypeOK
    <2>13. s = PastSpoke \/ s \in spokeMap'
      BY <2>5, <2>11
    <2>14. Registered'
      <3>1. currentSpoke' \notin spokes'
        BY <2>1, <2>5, <2>11 DEF Registered
      <3>2. spokeMap' \subseteq spokes' \cup {currentSpoke'}
        BY <2>1, <2>5 DEF Registered
      <3>3. \A r \in Spokes : jobQueue'[r] # {} => r = PastSpoke \/ r \in spokeMap'
        BY <2>5, <2>12, <2>13 DEF Registered
      <3> QED
        BY <3>1, <3>2, <3>3 DEF Registered
    <2>15. Dropped'
      BY <1>1, <2>1, <2>5, <2>13 DEF Dropped, IsExpired
    <2> QED
      BY <2>3, <2>7, <2>8, <2>14, <2>15
  <1> QED
    BY <1>2, <1>3

LEMMA CancelInv ==
  ASSUME HubInv, NEW id \in Ids, CancelJobLocked(id)
  PROVE  HubInv'
  <1> USE DEF HubInv
  <1>1. UNCHANGED <<now, triggerAt>>
    BY DEF CancelJobLocked
  <1>2. reply' \in [call : {"none", "add", "next", "cancel", "prune"}, job : Jobs \cup {NoJob}]
    <2>1. CASE Answer("cancel", NoJob)
      BY <2>1 DEF Answer
    <2>2. ASSUME NEW s \in FindOwnerSpoke(id), Answer("cancel", jobMap[s][id])
          PROVE  reply' \in [call : {"none", "add", "next", "cancel", "prune"}, job : Jobs \cup {NoJob}]
      <3>1. jobMap[s][id] \in Jobs \cup {NoJob}
        BY FindOwnerFinds DEF TypeOK
      <3> QED
        BY <2>2, <3>1 DEF Answer
    <2> QED
      BY <2>1, <2>2 DEF CancelJobLocked, CancelUnseen, CancelNoOwner, CancelOwned
  <1>3. CASE CancelUnseen(id) \/ CancelNoOwner(id)
    <2>1. /\ UNCHANGED <<jobQueue, jobMap, spokeMap, spokes, currentSpoke, stats, status>>
          /\ jobFilter' \in [Fingerprints -> Nat] /\ filterCount' \in Int
      BY <1>3, FilterTypes DEF CancelUnseen, CancelNoOwner, hubVars, filterVars, TypeOK
    <2>2. Pending' = Pending /\ Removed' = Removed
      BY <2>1 DEF Pending, Removed
    <2>3. TypeOK'
      BY <1>1, <1>2, <2>1 DEF TypeOK
    <2> QED
      BY <1>1, <2>1, <2>2, <2>3
      DEF JobsConserved, JobsOf, JobMapSound, Registered, Dropped, IsExpired, JobStatsExact
  <1>4. CASE CancelOwned(id)
    <2>1. PICK s \in FindOwnerSpoke(id) :
            /\ RemoveFromSpoke(s, jobMap[s][id])
            /\ Becomes(jobMap[s][id], "cancelled")
      BY <1>4 DEF CancelOwned
    <2>2. s \in Spokes /\ jobMap[s][id] \in jobQueue[s]
      BY FindOwnerFinds DEF JobMapSound
    <2>3. /\ JobsConserved' /\ JobMapSound'
          /\ jobMap[s][id] \in Pending /\ Pending' = Pending \ {jobMap[s][id]}
          /\ jobMap[s][id] \notin Removed /\ Removed' = Removed \cup {jobMap[s][id]}
          /\ jobQueue' \in [Spokes -> SUBSET Jobs]
          /\ jobMap' \in [Spokes -> [Ids -> Jobs \cup {NoJob}]]
          /\ status' \in [Jobs -> Statuses]
      BY <2>1, <2>2, Departure
    <2>4. stats' = DecrJob(stats) /\ FilterDelete(id) /\ UNCHANGED <<spokeMap, spokes, currentSpoke>>
      BY <1>4 DEF CancelOwned
    <2>5. TypeOK'
      BY <1>1, <1>2, <2>3, <2>4, FilterTypes, DecrJobType DEF TypeOK
    <2>6. JobStatsExact'
      BY <2>3, <2>4, CountDeparture DEF DecrJob, TypeOK
    <2>7. \A r \in Spokes : jobQueue'[r] \subseteq jobQueue[r]
      BY <2>1, <2>2 DEF RemoveFromSpoke, TypeOK
    <2>8. Registered' /\ Dropped'
      BY <1>1, <2>4, <2>7 DEF Registered, Dropped, IsExpired
    <2> QED
      BY <2>3, <2>5, <2>6, <2>8
  <1> QED
    BY <1>3, <1>4 DEF CancelJobLocked

\* Dropping a drained current spoke and promoting the next one: the map loses
\* only a spoke without jobs, and a spoke leaves the heap only to become current
LEMMA AdvanceInv ==
  ASSUME HubInv, AdvanceCurrent, UNCHANGED now,
         \A r \in Spokes : jobQueue'[r] \subseteq jobQueue[r]
  PROVE  /\ Registered' /\ Dropped'
         /\ spokeMap' \in SUBSET Bounds /\ spokes' \in SUBSET Bounds
         /\ currentSpoke' \in Bounds \cup {NoSpoke}
  <1> USE DEF HubInv
  <1>1. /\ spokeMap' = IF CurrentIsDone THEN spokeMap \ {currentSpoke} ELSE spokeMap
        /\ spokes' = spokes \ Candidate
        /\ currentSpoke' \in IF Polled = {} THEN {NoSpoke} ELSE Polled
    BY DEF AdvanceCurrent
  <1>2. NoSpoke \notin Bounds /\ spokes \subseteq Bounds /\ spokeMap \subseteq Bounds
    BY BoundsInt DEF Spokes, TypeOK
  <1>3. currentSpoke' \in Candidate \cup {KeptSpoke}
    BY <1>1 DEF Polled
  <1>4. \A r \in Candidate : currentSpoke' = r
    BY <1>1, <1>2, PolledSpoke DEF Polled
  <1>5. currentSpoke' \in Bounds \cup {NoSpoke}
    BY <1>1, PolledSpoke
  <1>6. currentSpoke # NoSpoke /\ ~CurrentIsDone => currentSpoke' = currentSpoke
    BY <1>3 DEF KeptSpoke, Candidate
  <1>7. currentSpoke' \notin spokes'
    BY <1>1, <1>2, <1>3 DEF Registered, KeptSpoke
  <1>8. spokeMap' \subseteq spokes' \cup {currentSpoke'}
    BY <1>1, <1>2, <1>4, <1>6 DEF Registered
  <1>9. \A r \in Spokes : jobQueue'[r] # {} => r = PastSpoke \/ r \in spokeMap'
    BY <1>1 DEF Registered, CurrentIsDone
  <1>10. Dropped'
    <2>1. \A r \in spokes' \cup {currentSpoke'} :
            r # NoSpoke => r \in spokes \cup {currentSpoke} /\ ~(CurrentIsDone /\ r = currentSpoke)
      BY <1>1, <1>3, PolledSpoke DEF KeptSpoke, Registered
    <2>2. \A r \in spokes' \cup {currentSpoke'} : r # NoSpoke /\ r \notin spokeMap' => r \notin spokeMap
      BY <1>1, <2>1
    <2> QED
      BY <2>1, <2>2 DEF Dropped, IsExpired
  <1> QED
    BY <1>1, <1>2, <1>5, <1>7, <1>8, <1>9, <1>10 DEF Registered

LEMMA SpokeStatsType ==
  ASSUME TypeOK
  PROVE  /\ SpokeStats \in [CurrentJobs : Int, RemovedJobs : Int, CurrentSpokes : Int]
         /\ SpokeStats.CurrentJobs = stats.CurrentJobs
         /\ SpokeStats.RemovedJobs = stats.RemovedJobs
  BY DEF SpokeStats, TypeOK

\* A delivery, whatever becomes of the spokes meanwhile
LEMMA DeliverInv ==
  ASSUME HubInv, NEW s \in Spokes, NEW j \in Head(s), Deliver(s, j),
         NEW st \in [CurrentJobs : Int, RemovedJobs : Int, CurrentSpokes : Int],
         st.CurrentJobs = stats.CurrentJobs, st.RemovedJobs = stats.RemovedJobs,
         stats' = DecrJob(st), UNCHANGED <<now, triggerAt>>,
         spokeMap' \in SUBSET Bounds, spokes' \in SUBSET Bounds,
         currentSpoke' \in Bounds \cup {NoSpoke}
  PROVE  /\ TypeOK' /\ JobsConserved' /\ JobMapSound' /\ JobStatsExact'
         /\ \A r \in Spokes : jobQueue'[r] \subseteq jobQueue[r]
  <1> USE DEF HubInv
  <1>1. j \in jobQueue[s] /\ j \in Jobs
    BY DEF Head, TypeOK
  <1>2. /\ JobsConserved' /\ JobMapSound'
        /\ j \in Pending /\ Pending' = Pending \ {j}
        /\ j \notin Removed /\ Removed' = Removed \cup {j}
        /\ jobQueue' \in [Spokes -> SUBSET Jobs]
        /\ jobMap' \in [Spokes -> [Ids -> Jobs \cup {NoJob}]]
        /\ status' \in [Jobs -> Statuses]
    BY <1>1, Departure DEF Deliver
  <1>3. jobFilter' \in [Fingerprints -> Nat] /\ filterCount' \in Int
    BY <1>1, FilterTypes, IdsAssumption DEF Deliver
  <1>4. reply' \in [call : {"none", "add", "next", "cancel", "prune"}, job : Jobs \cup {NoJob}]
    BY <1>1 DEF Deliver, Answer
  <1>5. TypeOK'
    BY <1>2, <1>3, <1>4, DecrJobType DEF TypeOK
  <1>6. JobStatsExact'
    BY <1>2, CountDeparture DEF DecrJob
  <1>7. \A r \in Spokes : jobQueue'[r] \subseteq jobQueue[r]
    BY DEF Deliver, RemoveFromSpoke, TypeOK
  <1> QED
    BY <1>2, <1>5, <1>6, <1>7

LEMMA NextInv ==
  ASSUME HubInv, NextLocked
  PROVE  HubInv'
  <1> USE DEF HubInv
  <1>1. UNCHANGED <<now, triggerAt>>
    BY DEF NextLocked
  <1>2. CASE NextFromPast
    <2>1. PICK j \in Head(PastSpoke) : Deliver(PastSpoke, j)
      BY <1>2 DEF NextFromPast
    <2>2. stats' = DecrJob(stats) /\ UNCHANGED <<spokeMap, spokes, currentSpoke>>
      BY <1>2 DEF NextFromPast
    <2>3. PastSpoke \in Spokes
      BY DEF Spokes
    <2>4. /\ TypeOK' /\ JobsConserved' /\ JobMapSound' /\ JobStatsExact'
          /\ \A r \in Spokes : jobQueue'[r] \subseteq jobQueue[r]
      BY <1>1, <2>1, <2>2, <2>3, DeliverInv DEF TypeOK
    <2>5. Registered' /\ Dropped'
      BY <1>1, <2>2, <2>4 DEF Registered, Dropped, IsExpired
    <2> QED
      BY <2>4, <2>5
  <1>3. CASE NextFromCurrent
    <2>1. PICK s \in Polled : \E j \in Head(s) : Deliver(s, j)
      BY <1>3 DEF NextFromCurrent
    <2>2. PICK j \in Head(s) : Deliver(s, j)
      BY <2>1
    <2>3. AdvanceCurrent /\ stats' = DecrJob(SpokeStats) /\ s \in Spokes
      BY <1>3, PolledSpoke DEF NextFromCurrent, Spokes
    <2>4. \A r \in Spokes : jobQueue'[r] \subseteq jobQueue[r]
      BY <2>2, <2>3 DEF Deliver, RemoveFromSpoke, TypeOK
    <2>5. /\ Registered' /\ Dropped'
          /\ spokeMap' \in SUBSET Bounds /\ spokes' \in SUBSET Bounds
          /\ currentSpoke' \in Bounds \cup {NoSpoke}
      BY <1>1, <2>3, <2>4, AdvanceInv
    <2>6. TypeOK' /\ JobsConserved' /\ JobMapSound' /\ JobStatsExact'
      BY <1>1, <2>2, <2>3, <2>5, SpokeStatsType, DeliverInv
    <2> QED
      BY <2>5, <2>6
  <1>4. CASE NextNothing
    <2>1. /\ AdvanceCurrent /\ stats' = SpokeStats /\ Answer("next", NoJob)
          /\ UNCHANGED <<jobQueue, jobMap, filterVars, status>>
      BY <1>4 DEF NextNothing
    <2>2. /\ Registered' /\ Dropped'
          /\ spokeMap' \in SUBSET Bounds /\ spokes' \in SUBSET Bounds
          /\ currentSpoke' \in Bounds \cup {NoSpoke}
      BY <1>1, <2>1, AdvanceInv
    <2>3. TypeOK'
      BY <1>1, <2>1, <2>2, SpokeStatsType DEF TypeOK, Answer, filterVars
    <2>4. Pending' = Pending /\ Removed' = Removed
      BY <2>1 DEF Pending, Removed
    <2>5. JobsConserved' /\ JobMapSound' /\ JobStatsExact'
      BY <2>1, <2>4, SpokeStatsType DEF JobsConserved, JobsOf, JobMapSound, JobStatsExact
    <2> QED
      BY <2>2, <2>3, <2>5
  <1> QED
    BY <1>2, <1>3, <1>4 DEF NextLocked

LEMMA FiniteBounds == IsFiniteSet(Bounds)
  <1>1. IsFiniteSet(Triggers)
    BY TimeAssumption, FS_Interval DEF Triggers
  <1> DEFINE f == [t \in Triggers |-> Truncate(t)]
  <1>2. f \in Surjection(Triggers, Bounds)
    BY DEF Surjection, Bounds
  <1> QED
    BY <1>1, <1>2, FS_Surjection

LEMMA PruneInv ==
  ASSUME HubInv, Prune
  PROVE  HubInv'
  <1> USE DEF HubInv
  <1>1. /\ spokeMap' = spokeMap \ Prunable
        /\ UNCHANGED <<now, triggerAt, jobQueue, jobMap, spokes, currentSpoke, filterVars, status>>
    BY DEF Prune
  <1>2. Cardinality(Prunable) \in Nat
    BY FiniteBounds, FS_Subset, FS_CardinalityType DEF Prunable, TypeOK
  <1>3. /\ stats' \in [CurrentJobs : Int, RemovedJobs : Int, CurrentSpokes : Int]
        /\ stats'.CurrentJobs = stats.CurrentJobs /\ stats'.RemovedJobs = stats.RemovedJobs
    BY <1>2 DEF Prune, TypeOK
  <1>4. reply' \in [call : {"none", "add", "next", "cancel", "prune"}, job : Jobs \cup {NoJob}]
    BY DEF Prune, Answer
  <1>5. TypeOK'
    BY <1>1, <1>3, <1>4 DEF TypeOK, filterVars
  <1>6. Pending' = Pending /\ Removed' = Removed
    BY <1>1 DEF Pending, Removed
  <1>7. JobsConserved' /\ JobMapSound' /\ JobStatsExact'
    BY <1>1, <1>3, <1>6 DEF JobsConserved, JobsOf, JobMapSound, JobStatsExact
  <1>8. Registered' /\ Dropped'
    BY <1>1 DEF Registered, Dropped, Prunable, IsExpired
  <1> QED
    BY <1>5, <1>7, <1>8

LEMMA TickInv ==
  ASSUME HubInv, Tick
  PROVE  HubInv'
  <1> USE DEF HubInv
  <1>1. now' = now + 1 /\ UNCHANGED <<triggerAt, hubVars, status>>
    BY DEF Tick
  <1>2. reply' \in [call : {"none", "add", "next", "cancel", "prune"}, job : Jobs \cup {NoJob}]
    BY DEF Tick, Answer
  <1>3. TypeOK'
    BY <1>1, <1>2 DEF TypeOK, hubVars, filterVars
  <1>4. Pending' = Pending /\ Removed' = Removed
    BY <1>1 DEF Pending, Removed
  <1>5. JobsConserved' /\ JobMapSound' /\ JobStatsExact' /\ Registered'
    BY <1>1, <1>4
    DEF hubVars, filterVars, JobsConserved, JobsOf, JobMapSound, JobStatsExact, Registered
  <1>6. ASSUME NEW s \in Bounds, IsExpired(s) PROVE IsExpired(s)'
    BY <1>1, <1>6, BoundsInt, TimeAssumption DEF IsExpired, TypeOK
  <1>7. Dropped'
    BY <1>1, <1>6 DEF Dropped, hubVars, TypeOK
  <1> QED
    BY <1>3, <1>5, <1>7

LEMMA StutterInv ==
  ASSUME HubInv, UNCHANGED vars
  PROVE  HubInv'
  BY DEF HubInv, vars, hubVars, filterVars, TypeOK, JobsConserved, JobsOf, Pending, Removed,
         JobMapSound, Registered, Dropped, IsExpired, JobStatsExact

LEMMA StepInv ==
  ASSUME HubInv, [EmbeddedNext]_vars
  PROVE  HubInv'
  BY AddInv, CancelInv, NextInv, PruneInv, TickInv, StutterInv DEF EmbeddedNext, Next

-----------------------------------------------------------------------------
(* Theorems on every embedding of the hub, the server's use included.      *)

\* HubInv is inductive: it holds of every behaviour, with or without Prune
THEOREM Invariance == EmbeddedSpec => []HubInv
  BY InitInv, StepInv, PTL DEF EmbeddedSpec

\* The variables keep their types
THEOREM TypeCorrect == EmbeddedSpec => []TypeOK
  BY Invariance, PTL DEF HubInv

\* Spec takes the steps of EmbeddedSpec but for Prune
LEMMA Embedding == Spec => EmbeddedSpec
  <1>1. [Next]_vars => [EmbeddedNext]_vars
    BY DEF EmbeddedNext
  <1> QED
    BY <1>1, PTL DEF Spec, EmbeddedSpec

-----------------------------------------------------------------------------
(* The filter and the pending jobs, when fingerprints collide.             *)

\* The pending jobs of one fingerprint
Held(f) == {j \in Pending : FingerprintOf[IdOf[j]] = f}

LEMMA HeldFinite ==
  ASSUME NEW f
  PROVE  IsFiniteSet(Held(f)) /\ Held(f) \subseteq Pending /\ Cardinality(Held(f)) \in Nat
  BY StatusSets, FS_Subset, FS_CardinalityType DEF Held

LEMMA FilterNotAbove ==
  ASSUME FilterHoldsPending, Pending' = Pending,
         \A f \in Fingerprints : jobFilter'[f] <= jobFilter[f],
         jobFilter \in [Fingerprints -> Nat], jobFilter' \in [Fingerprints -> Nat]
  PROVE  FilterHoldsPending'
  <1>1. ASSUME NEW f \in Fingerprints PROVE jobFilter'[f] <= Cardinality(Held(f))
    <2>1. jobFilter[f] <= Cardinality(Held(f)) /\ Cardinality(Held(f)) \in Nat
      BY HeldFinite DEF FilterHoldsPending, Held
    <2> QED
      BY <2>1
  <1> QED
    BY <1>1 DEF FilterHoldsPending, Held

\* A job that comes brings its fingerprint, which the filter may drop again, or
\* another one in its place
LEMMA FilterArrival ==
  ASSUME HubInv, HubInv', FilterHoldsPending, NEW j \in Jobs,
         j \notin Pending, Pending' = Pending \cup {j}, FilterInsert(IdOf[j])
  PROVE  FilterHoldsPending'
  <1> DEFINE g == FingerprintOf[IdOf[j]]
  <1>1. g \in Fingerprints /\ jobFilter \in [Fingerprints -> Nat]
        /\ jobFilter' \in [Fingerprints -> Nat]
    BY IdsAssumption, FilterAssumption DEF HubInv, TypeOK
  <1>2. \A f \in Fingerprints : jobFilter'[f] <= IF f = g THEN jobFilter[f] + 1 ELSE jobFilter[f]
    BY <1>1 DEF FilterInsert
  <1>3. ASSUME NEW f \in Fingerprints PROVE jobFilter'[f] <= Cardinality(Held(f)')
    <2>1. /\ jobFilter[f] <= Cardinality(Held(f)) /\ Cardinality(Held(f)) \in Nat
          /\ jobFilter[f] \in Nat /\ jobFilter'[f] \in Nat
      BY <1>1, HeldFinite DEF FilterHoldsPending, Held
    <2>2. CASE f = g
      <3>1. Held(f)' = Held(f) \cup {j} /\ j \notin Held(f)
        BY <2>2 DEF Held
      <3>2. Cardinality(Held(f)') = Cardinality(Held(f)) + 1
        BY <3>1, HeldFinite, FS_AddElement
      <3> QED
        BY <1>2, <2>1, <2>2, <3>2
    <2>3. CASE f # g
      <3>1. Held(f)' = Held(f)
        BY <2>3 DEF Held
      <3> QED
        BY <1>2, <2>1, <2>3, <3>1
    <2> QED
      BY <2>2, <2>3
  <1> QED
    BY <1>3 DEF FilterHoldsPending, Held

\* A job that leaves takes a copy of its fingerprint along, unless none is left
LEMMA FilterDeparture ==
  ASSUME HubInv, HubInv', FilterHoldsPending, NEW j \in Pending,
         Pending' = Pending \ {j}, FilterDelete(IdOf[j])
  PROVE  FilterHoldsPending'
  <1> DEFINE g == FingerprintOf[IdOf[j]]
  <1>1. /\ g \in Fingerprints /\ jobFilter \in [Fingerprints -> Nat]
        /\ jobFilter' \in [Fingerprints -> Nat]
    BY IdsAssumption, FilterAssumption DEF HubInv, TypeOK, Pending
  <1>2. \A f \in Fingerprints :
          jobFilter'[f] = IF f = g /\ jobFilter[f] > 0 THEN jobFilter[f] - 1 ELSE jobFilter[f]
    BY <1>1 DEF FilterDelete
  <1>3. ASSUME NEW f \in Fingerprints PROVE jobFilter'[f] <= Cardinality(Held(f)')
    <2>1. /\ jobFilter[f] <= Cardinality(Held(f)) /\ Cardinality(Held(f)) \in Nat
          /\ Cardinality(Held(f)') \in Nat /\ jobFilter[f] \in Nat
      <3>1. Held(f)' \subseteq Held(f)
        BY DEF Held
      <3>2. Cardinality(Held(f)') \in Nat
        BY <3>1, HeldFinite, FS_Subset, FS_CardinalityType
      <3> QED
        BY <1>1, <3>2, HeldFinite DEF FilterHoldsPending, Held
    <2>2. CASE f = g
      <3>1. Held(f)' = Held(f) \ {j} /\ j \in Held(f)
        BY <2>2 DEF Held
      <3>2. Cardinality(Held(f)') = Cardinality(Held(f)) - 1
        BY <3>1, HeldFinite, FS_RemoveElement
      <3> QED
        BY <1>2, <2>1, <2>2, <3>2
    <2>3. CASE f # g
      <3>1. Held(f)' = Held(f)
        BY <2>3 DEF Held
      <3> QED
        BY <1>2, <2>1, <2>3, <3>1
    <2> QED
      BY <2>2, <2>3
  <1> QED
    BY <1>3 DEF FilterHoldsPending, Held

LEMMA FilterStep ==
  ASSUME HubInv, HubInv', FilterHoldsPending, [EmbeddedNext]_vars
  PROVE  FilterHoldsPending'
  <1> USE DEF HubInv
  <1>1. ASSUME NEW j \in Jobs, NEW t \in Triggers, AddJobLocked(j, t)
        PROVE  FilterHoldsPending'
    <2>1. CASE Refused(j, t)
      <3>1. Pending' = Pending /\ jobFilter' = jobFilter
        BY <1>1, <2>1 DEF AddJobLocked, Becomes, Pending, TypeOK, hubVars, filterVars
      <3> QED
        BY <3>1, FilterNotAbove DEF TypeOK
    <2>2. CASE ~Refused(j, t)
      BY <1>1, <2>2, AddTargetSpoke, Arrival, FilterArrival DEF AddJobLocked
    <2> QED
      BY <2>1, <2>2
  <1>2. ASSUME NEW id \in Ids, CancelJobLocked(id) PROVE FilterHoldsPending'
    <2>1. CASE CancelUnseen(id) \/ CancelNoOwner(id)
      <3>1. Pending' = Pending /\ (jobFilter' = jobFilter \/ FilterDelete(id))
        BY <2>1 DEF CancelUnseen, CancelNoOwner, Pending, hubVars, filterVars
      <3>2. \A f \in Fingerprints : jobFilter'[f] <= jobFilter[f]
        <4>1. jobFilter \in [Fingerprints -> Nat] /\ FingerprintOf[id] \in Fingerprints
          BY IdsAssumption, FilterAssumption DEF TypeOK
        <4>2. jobFilter' = jobFilter
              \/ jobFilter' = [jobFilter EXCEPT ![FingerprintOf[id]] = IF @ > 0 THEN @ - 1 ELSE 0]
          BY <3>1 DEF FilterDelete
        <4> HIDE DEF HubInv
        <4> QED
          BY <4>1, <4>2
      <3> QED
        BY <3>1, <3>2, FilterNotAbove DEF TypeOK
    <2>2. CASE CancelOwned(id)
      <3>1. PICK s \in FindOwnerSpoke(id) :
              /\ RemoveFromSpoke(s, jobMap[s][id])
              /\ Becomes(jobMap[s][id], "cancelled")
        BY <2>2 DEF CancelOwned
      <3>2. s \in Spokes /\ jobMap[s][id] \in jobQueue[s] /\ IdOf[jobMap[s][id]] = id
        BY FindOwnerFinds DEF JobMapSound
      <3>3. jobMap[s][id] \in Pending /\ Pending' = Pending \ {jobMap[s][id]}
        BY <3>1, <3>2, Departure
      <3> QED
        BY <2>2, <3>2, <3>3, FilterDeparture DEF CancelOwned
    <2> QED
      BY <1>2, <2>1, <2>2 DEF CancelJobLocked
  <1>3. CASE NextLocked
    <2>1. ASSUME NEW s \in Spokes, NEW j \in Head(s), Deliver(s, j)
          PROVE  FilterHoldsPending'
      <3>1. j \in jobQueue[s]
        BY DEF Head
      <3> QED
        BY <2>1, <3>1, Departure, FilterDeparture DEF Deliver
    <2>2. Polled \subseteq Spokes
      BY PolledSpoke DEF Spokes
    <2>3. CASE NextNothing
      <3>1. Pending' = Pending /\ jobFilter' = jobFilter
        BY <2>3 DEF NextNothing, Pending, filterVars
      <3> QED
        BY <3>1, FilterNotAbove DEF TypeOK
    <2> QED
      BY <1>3, <2>1, <2>2, <2>3 DEF NextLocked, NextFromPast, NextFromCurrent, Spokes
  <1>4. CASE Prune \/ Tick \/ UNCHANGED vars
    <2>1. Pending' = Pending /\ jobFilter' = jobFilter
      BY <1>4 DEF Prune, Tick, vars, hubVars, filterVars, Pending
    <2> QED
      BY <2>1, FilterNotAbove DEF TypeOK
  <1> QED
    BY <1>1, <1>2, <1>3, <1>4 DEF EmbeddedNext, Next

LEMMA FilterAlways == EmbeddedSpec => [](HubInv /\ FilterHoldsPending)
  <1>1. Init => FilterHoldsPending
    <2> SUFFICES ASSUME Init, NEW f \in Fingerprints
                 PROVE  jobFilter[f] <= Cardinality(Held(f))
      BY DEF FilterHoldsPending, Held
    <2>1. jobFilter[f] = 0
      BY DEF Init
    <2> QED
      BY <2>1, HeldFinite
  <1> QED
    BY <1>1, Invariance, FilterStep, PTL DEF EmbeddedSpec

\* No accepted job is lost or held twice by the spokes of the hub, the map of a
\* spoke never returns a job that has left the spoke's queue, the filter has no
\* fingerprint but of pending jobs, and the counters of jobs are exact, whatever ids
\* collide in the filter and whatever it drops (hub.go:119-288, 307-392)
THEOREM JobsDoAgree == EmbeddedSpec => []JobsAgree
  <1>1. HubInv /\ FilterHoldsPending => JobsAgree
    BY DEF HubInv, JobsAgree
  <1> QED
    BY <1>1, FilterAlways, PTL

\* Once a hub has drained its filter denies every id, whatever collided before: what
\* collisions cost is over with the jobs that had them
THEOREM DrainedFilterDenies ==
  EmbeddedSpec => [](Pending = {} => \A id \in Ids : ~Lookup(id))
  <1>1. HubInv /\ FilterHoldsPending => (Pending = {} => \A id \in Ids : ~Lookup(id))
    <2> SUFFICES ASSUME HubInv, FilterHoldsPending, Pending = {}, NEW id \in Ids
                 PROVE  ~Lookup(id)
      OBVIOUS
    <2>1. FingerprintOf[id] \in Fingerprints
      BY FilterAssumption
    <2>2. Held(FingerprintOf[id]) = {}
      BY DEF Held
    <2>3. jobFilter[FingerprintOf[id]] <= 0
      BY <2>1, <2>2, FS_EmptySet DEF FilterHoldsPending, Held
    <2> QED
      BY <2>1, <2>3 DEF Lookup, HubInv, TypeOK
  <1> QED
    BY <1>1, FilterAlways, PTL

LEMMA SnapshotWalk == ASSUME HubInv PROVE SnapshotExact
  <1>1. \A s \in Spokes : jobQueue[s] # {} => s \in PersistWalk
    BY BoundsInt DEF HubInv, Registered, PersistWalk
  <1>2. PersistWalk \subseteq Spokes
    BY DEF HubInv, TypeOK, PersistWalk, Spokes
  <1>3. JobsOf(PersistWalk) = JobsOf(Spokes)
    BY <1>1, <1>2 DEF JobsOf
  <1> QED
    BY <1>3 DEF HubInv, JobsConserved, Registered, SnapshotExact

LEMMA InspectionWalk == ASSUME HubInv PROVE InspectExact
  <1>1. \A s \in Spokes : jobQueue[s] # {} => s \in InspectWalk
    BY DEF HubInv, Registered, InspectWalk
  <1>2. InspectWalk \subseteq Spokes
    BY DEF HubInv, TypeOK, InspectWalk, Spokes
  <1>3. JobsOf(InspectWalk) = JobsOf(Spokes)
    BY <1>1, <1>2 DEF JobsOf
  <1> QED
    BY <1>3 DEF HubInv, JobsConserved, InspectExact

\* The spokes that PersistLocked walks, heap, past and current one, hold all
\* pending jobs, each once, and so do those that GetNJobs and findOwnerSpoke find in
\* the map (hub.go:165-183, 429-470, 510-560)
THEOREM WalksAreExact == EmbeddedSpec => []WalksExact
  <1>1. HubInv => WalksExact
    BY SnapshotWalk, InspectionWalk DEF WalksExact
  <1> QED
    BY <1>1, Invariance, PTL

-----------------------------------------------------------------------------
(* The hub implements SpokeMap.                                            *)

\* A step that moves no job and forgets no spoke that has one
LEMMA GivesUp ==
  ASSUME NEW gone \in SUBSET spokeMap,
         \A s \in gone : jobQueue[s] = {} /\ IsExpired(s)',
         \A s \in Bounds : IsExpired(s) => IsExpired(s)',
         spokeMap' = spokeMap \ gone, spokeMap \subseteq Bounds,
         Pending' \cup Removed' = Pending \cup Removed
  PROVE  Map!GiveUp(gone)
  BY DEF Map!GiveUp, Over

LEMMA AddMaps ==
  ASSUME HubInv, NEW j \in Jobs, NEW t \in Triggers, AddJobLocked(j, t)
  PROVE  [Map!Next]_(Map!vars)
  <1> USE DEF HubInv
  <1>1. status[j] = "new" /\ UNCHANGED now
    BY DEF AddJobLocked
  <1>2. CASE Refused(j, t)
    <2>1. UNCHANGED hubVars /\ Becomes(j, "rejected")
      BY <1>2 DEF AddJobLocked
    <2>2. Pending' = Pending /\ Removed' = Removed
      BY <1>1, <2>1 DEF Becomes, Pending, Removed, TypeOK
    <2> QED
      BY <1>1, <2>1, <2>2 DEF hubVars, Map!vars, Over, IsExpired
  <1>3. CASE ~Refused(j, t)
    <2> DEFINE s == AddTarget(t)
               known == s \in {PastSpoke, currentSpoke} \cup spokeMap
    <2>1. /\ AddToSpoke(s, j) /\ AddSpoke(s) /\ Becomes(j, "pending")
          /\ s \in Spokes
      BY <1>3, AddTargetSpoke DEF AddJobLocked
    <2>2. j \notin Pending /\ j \notin Removed /\ Pending' = Pending \cup {j} /\ Removed' = Removed
      BY <1>1, <2>1, Arrival DEF Removed
    <2>3. spokeMap' = IF known THEN spokeMap ELSE spokeMap \cup {s}
      BY <2>1 DEF AddSpoke
    <2>4. s # PastSpoke => s \in Bounds /\ ~IsExpired(s)
      <3>1. s # PastSpoke => ~(t <= now) /\ s \in Bounds
        BY <2>1 DEF AddTarget, Spokes
      <3>2. IsJobInBounds(s, t)
        BY <1>3 DEF Refused
      <3> QED
        BY <3>1, <3>2, BoundAlive
    <2>5. PastSpoke \notin Bounds /\ spokeMap \subseteq Bounds
      BY BoundsInt DEF TypeOK
    <2>6. s # PastSpoke /\ s = currentSpoke => s \in spokeMap
      BY <2>4, BoundsInt DEF Dropped, Spokes
    <2>7. spokeMap' = spokeMap \cup ({s} \ {PastSpoke})
      BY <2>3, <2>5, <2>6
    <2>8. Over' = Over /\ s \notin Over
      BY <1>1, <2>4, <2>5, <2>7 DEF Over, IsExpired
    <2>9. Map!Add(j, s)
      BY <2>1, <2>2, <2>7, <2>8 DEF Map!Add, AddToSpoke
    <2>10. Map!AllSpokes = Spokes
      BY DEF Map!AllSpokes, Spokes
    <2> QED
      BY <2>1, <2>9, <2>10 DEF Map!Next
  <1> QED
    BY <1>2, <1>3

\* A delivery or a cancel, whichever spokes the operation gives up beside it
LEMMA DepartureMaps ==
  ASSUME HubInv, NEW s \in Spokes, NEW j \in jobQueue[s],
         NEW st \in {"delivered", "cancelled"},
         RemoveFromSpoke(s, j), Becomes(j, st), UNCHANGED now,
         NEW gone \in SUBSET spokeMap,
         \A r \in gone : jobQueue[r] = {} /\ IsExpired(r),
         spokeMap' = spokeMap \ gone
  PROVE  Map!Next
  <1> USE DEF HubInv
  <1>1. Pending' \cup Removed' = Pending \cup Removed
    BY Departure
  <1>2. spokeMap \subseteq Bounds /\ j \in Jobs
    BY DEF TypeOK
  <1>3. Map!GiveUp(gone)
    BY <1>1, <1>2, GivesUp DEF IsExpired
  <1>4. Map!Release(s, j)
    BY DEF Map!Release, RemoveFromSpoke
  <1> QED
    BY <1>2, <1>3, <1>4 DEF Map!Next, Map!AllSpokes, Spokes

LEMMA CancelMaps ==
  ASSUME HubInv, NEW id \in Ids, CancelJobLocked(id)
  PROVE  [Map!Next]_(Map!vars)
  <1>1. UNCHANGED now
    BY DEF CancelJobLocked
  <1>2. CASE CancelUnseen(id) \/ CancelNoOwner(id)
    BY <1>1, <1>2 DEF CancelUnseen, CancelNoOwner, hubVars, Map!vars, Over, IsExpired, Pending, Removed
  <1>3. CASE CancelOwned(id)
    <2>1. PICK s \in FindOwnerSpoke(id) :
            /\ RemoveFromSpoke(s, jobMap[s][id])
            /\ Becomes(jobMap[s][id], "cancelled")
      BY <1>3 DEF CancelOwned
    <2>2. s \in Spokes /\ jobMap[s][id] \in jobQueue[s]
      BY FindOwnerFinds DEF JobMapSound, HubInv
    <2>3. UNCHANGED spokeMap
      BY <1>3 DEF CancelOwned
    <2>4. Map!Next
      <3> DEFINE gone == {}
      <3>1. gone \in SUBSET spokeMap /\ spokeMap' = spokeMap \ gone
        BY <2>3
      <3> QED
        BY <1>1, <2>1, <2>2, <3>1, DepartureMaps
    <2> QED
      BY <2>4
  <1> QED
    BY <1>2, <1>3 DEF CancelJobLocked

LEMMA NextMaps ==
  ASSUME HubInv, NextLocked
  PROVE  Map!Next
  <1> DEFINE gone == IF CurrentIsDone THEN spokeMap \cap {currentSpoke} ELSE {}
  <1>1. UNCHANGED now /\ spokeMap \subseteq Bounds
    BY DEF NextLocked, HubInv, TypeOK
  <1>2. /\ gone \in SUBSET spokeMap
        /\ \A r \in gone : jobQueue[r] = {} /\ IsExpired(r)
    BY DEF CurrentIsDone, SpokeState
  <1>3. AdvanceCurrent => spokeMap' = spokeMap \ gone
    BY DEF AdvanceCurrent
  <1> HIDE DEF gone
  <1>4. CASE NextFromPast
    <2>1. PICK j \in Head(PastSpoke) : Deliver(PastSpoke, j)
      BY <1>4 DEF NextFromPast
    <2>2. /\ PastSpoke \in Spokes /\ j \in jobQueue[PastSpoke] /\ RemoveFromSpoke(PastSpoke, j)
          /\ Becomes(j, "delivered")
      BY <2>1 DEF Spokes, Head, Deliver
    <2> DEFINE none == {}
    <2>3. none \in SUBSET spokeMap /\ spokeMap' = spokeMap \ none
      BY <1>4 DEF NextFromPast
    <2> QED
      BY <1>1, <2>2, <2>3, DepartureMaps
  <1>5. CASE NextFromCurrent
    <2>1. PICK s \in Polled : \E j \in Head(s) : Deliver(s, j)
      BY <1>5 DEF NextFromCurrent
    <2>2. PICK j \in Head(s) : Deliver(s, j)
      BY <2>1
    <2>3. /\ s \in Spokes /\ j \in jobQueue[s] /\ RemoveFromSpoke(s, j)
          /\ Becomes(j, "delivered")
      BY <2>2, PolledSpoke DEF Spokes, Head, Deliver, HubInv
    <2>4. AdvanceCurrent
      BY <1>5 DEF NextFromCurrent
    <2> QED
      BY <1>1, <1>2, <1>3, <2>3, <2>4, DepartureMaps
  <1>6. CASE NextNothing
    <2>1. AdvanceCurrent /\ UNCHANGED <<jobQueue, status>>
      BY <1>6 DEF NextNothing
    <2>2. Map!GiveUp(gone)
      BY <1>1, <1>2, <1>3, <2>1, GivesUp DEF IsExpired, Pending, Removed
    <2> QED
      BY <1>2, <2>1, <2>2 DEF Map!Next
  <1> QED
    BY <1>4, <1>5, <1>6 DEF NextLocked

\* Bounds expire, and expired ones without jobs are pruned
LEMMA TimeMaps ==
  ASSUME HubInv, Prune \/ Tick
  PROVE  Map!Next
  <1>1. spokeMap \subseteq Bounds /\ UNCHANGED <<jobQueue, status>>
    BY DEF HubInv, TypeOK, Prune, Tick, hubVars
  <1>2. Pending' \cup Removed' = Pending \cup Removed
    BY <1>1 DEF Pending, Removed
  <1>3. \A s \in Bounds : IsExpired(s) => IsExpired(s)'
    <2>1. now' \in {now, now + 1} /\ now \in Int
      BY DEF Prune, Tick, HubInv, TypeOK
    <2> QED
      BY <2>1, BoundsInt, TimeAssumption DEF IsExpired
  <1>4. CASE Prune
    <2>1. /\ Prunable \in SUBSET spokeMap /\ spokeMap' = spokeMap \ Prunable
          /\ \A s \in Prunable : jobQueue[s] = {} /\ IsExpired(s)'
      BY <1>1, <1>3, <1>4 DEF Prune, Prunable
    <2>2. Map!GiveUp(Prunable)
      BY <1>1, <1>2, <1>3, <2>1, GivesUp
    <2> QED
      BY <1>1, <2>1, <2>2 DEF Map!Next
  <1>5. CASE Tick
    <2> DEFINE gone == {}
    <2>1. gone \in SUBSET spokeMap /\ spokeMap' = spokeMap \ gone
      BY <1>5 DEF Tick, hubVars
    <2>2. Map!GiveUp(gone)
      BY <1>1, <1>2, <1>3, <2>1, GivesUp
    <2> QED
      BY <1>1, <2>1, <2>2 DEF Map!Next
  <1> QED
    BY <1>4, <1>5

\* A job stays in its spoke until it leaves the hub, a spoke that has jobs can be
\* found in the map, and one that has left the map is empty and over, so that no
\* job is ever put to a second spoke of its bound (hub.go:185-305, 334-392)
THEOREM HubImplementsSpokeMap == EmbeddedSpec => ImplementsSpokeMap
  <1>1. Init => Map!Init
    BY DEF Init, Map!Init, Map!AllSpokes, Spokes, Pending, Removed, Over
  <1>2. HubInv /\ [EmbeddedNext]_vars => [Map!Next]_(Map!vars)
    <2>1. UNCHANGED vars => UNCHANGED Map!vars
      BY DEF vars, hubVars, Map!vars, Over, IsExpired, Pending, Removed
    <2> QED
      BY <2>1, AddMaps, CancelMaps, NextMaps, TimeMaps DEF EmbeddedNext, Next
  <1> QED
    BY <1>1, <1>2, Invariance, PTL DEF EmbeddedSpec, ImplementsSpokeMap, Map!Spec

-----------------------------------------------------------------------------
(* The server, in which nothing prunes.                                    *)

LEMMA AddSpokesAgree ==
  ASSUME HubInv, SpokesAgree, NEW j \in Jobs, NEW t \in Triggers, AddJobLocked(j, t)
  PROVE  SpokesAgree'
  <1>1. CASE Refused(j, t)
    BY <1>1 DEF AddJobLocked, hubVars, SpokesAgree
  <1>2. CASE ~Refused(j, t)
    <2> DEFINE s == AddTarget(t)
               known == s \in {PastSpoke, currentSpoke} \cup spokeMap
    <2>1. /\ spokeMap' = IF known THEN spokeMap ELSE spokeMap \cup {s}
          /\ spokes' = IF known THEN spokes ELSE spokes \cup {s}
          /\ stats' = [stats EXCEPT !.CurrentJobs = @ + 1,
                                    !.CurrentSpokes = IF known THEN @ ELSE @ + 1]
          /\ currentSpoke' = currentSpoke
      BY <1>2 DEF AddJobLocked, AddSpoke
    <2>2. CASE known
      BY <2>1, <2>2 DEF SpokesAgree, HubInv, TypeOK
    <2>3. CASE ~known
      <3>1. s # NoSpoke
        BY AddTargetSpoke, BoundsInt DEF HubInv
      <3>2. spokeMap' = spokes' \cup ({currentSpoke'} \ {NoSpoke})
        BY <2>1, <2>3, <3>1 DEF SpokesAgree
      <3>3. Cardinality(spokeMap \cup {s}) = Cardinality(spokeMap) + 1
        BY <2>3, FiniteBounds, FS_Subset, FS_AddElement DEF HubInv, TypeOK
      <3>4. stats'.CurrentSpokes = stats.CurrentSpokes + 1
        BY <2>1, <2>3 DEF HubInv, TypeOK
      <3> QED
        BY <2>1, <2>3, <3>2, <3>3, <3>4 DEF SpokesAgree
    <2> QED
      BY <2>2, <2>3
  <1> QED
    BY <1>1, <1>2

LEMMA NextSpokesAgree ==
  ASSUME HubInv, SpokesAgree, NextLocked
  PROVE  SpokesAgree'
  <1>1. CASE NextFromPast
    BY <1>1 DEF NextFromPast, SpokesAgree, DecrJob, HubInv, TypeOK
  <1>2. CASE NextFromCurrent \/ NextNothing
    <2>1. AdvanceCurrent /\ stats'.CurrentSpokes = SpokeStats.CurrentSpokes
      BY <1>2, SpokeStatsType DEF NextFromCurrent, NextNothing, DecrJob, HubInv
    <2>2. /\ spokeMap' = IF CurrentIsDone THEN spokeMap \ {currentSpoke} ELSE spokeMap
          /\ spokes' = spokes \ Candidate
          /\ currentSpoke' \in IF Polled = {} THEN {NoSpoke} ELSE Polled
      BY <2>1 DEF AdvanceCurrent
    <2>3. spokes \subseteq Bounds /\ NoSpoke \notin Bounds /\ Candidate \subseteq spokes
      BY BoundsInt, PolledSpoke DEF HubInv, TypeOK, Spokes
    <2>4. currentSpoke' \in Candidate \cup {KeptSpoke}
      BY <2>2 DEF Polled
    <2>5. \A r \in Candidate : currentSpoke' = r
      BY <2>2, <2>3, PolledSpoke DEF Polled, HubInv
    <2>6. spokeMap' = spokes' \cup ({currentSpoke'} \ {NoSpoke})
      <3>1. CASE KeptSpoke = NoSpoke
        <4>1. spokeMap' = spokes
          BY <2>2, <3>1 DEF SpokesAgree, KeptSpoke, CurrentIsDone, HubInv, Registered
        <4> QED
          BY <2>2, <2>3, <2>4, <2>5, <3>1, <4>1
      <3>2. CASE KeptSpoke # NoSpoke
        <4>1. Candidate = {} /\ ~CurrentIsDone /\ KeptSpoke = currentSpoke
          BY <3>2 DEF Candidate, KeptSpoke
        <4> QED
          BY <2>2, <2>4, <4>1 DEF SpokesAgree
      <3> QED
        BY <3>1, <3>2
    <2>7. stats'.CurrentSpokes = Cardinality(spokeMap')
      <3>1. CASE CurrentIsDone
        <4>1. currentSpoke \in spokeMap /\ IsFiniteSet(spokeMap)
          BY <3>1, FiniteBounds, FS_Subset DEF CurrentIsDone, SpokesAgree, HubInv, TypeOK
        <4>2. SpokeStats.CurrentSpokes = stats.CurrentSpokes - 1
          BY <3>1 DEF SpokeStats, HubInv, TypeOK
        <4>3. Cardinality(spokeMap \ {currentSpoke}) = Cardinality(spokeMap) - 1
          BY <4>1, FS_RemoveElement
        <4> QED
          BY <2>1, <2>2, <3>1, <4>2, <4>3 DEF SpokesAgree
      <3>2. CASE ~CurrentIsDone
        BY <2>1, <2>2, <3>2 DEF SpokesAgree, SpokeStats
      <3> QED
        BY <3>1, <3>2
    <2> QED
      BY <2>6, <2>7 DEF SpokesAgree
  <1> QED
    BY <1>1, <1>2 DEF NextLocked

\* Without Prune the map of spokes is the heap plus the current spoke, and the
\* spoke counter counts it
THEOREM SpokesDoAgree == Spec => []SpokesAgree
  <1>1. Init => SpokesAgree
    BY FS_EmptySet DEF Init, SpokesAgree
  <1>2. HubInv /\ SpokesAgree /\ [Next]_vars => SpokesAgree'
    <2> SUFFICES ASSUME HubInv, SpokesAgree, [Next]_vars PROVE SpokesAgree'
      OBVIOUS
    <2>1. ASSUME NEW id \in Ids, CancelJobLocked(id) PROVE SpokesAgree'
      BY <2>1 DEF CancelJobLocked, CancelUnseen, CancelNoOwner, CancelOwned, hubVars,
                  DecrJob, SpokesAgree, HubInv, TypeOK
    <2>2. ASSUME Tick \/ UNCHANGED vars PROVE SpokesAgree'
      BY <2>2 DEF Tick, vars, hubVars, SpokesAgree
    <2> QED
      BY <2>1, <2>2, AddSpokesAgree, NextSpokesAgree DEF Next
  <1> QED
    BY <1>1, <1>2, Invariance, Embedding, PTL DEF Spec

-----------------------------------------------------------------------------
(* The order of deliveries, and polls that find nothing, with or without   *)
(* Prune.  Both rest on the windows of the spokes: a queued job lies in    *)
(* its spoke's window, and no two windows overlap.                         *)

\* Jobs of the past spoke were due when they were put, the others lie in their
\* spoke's window
InWindow ==
  /\ \A j \in jobQueue[PastSpoke] : JobReady(j)
  /\ \A s \in Bounds : \A j \in jobQueue[s] : IsJobInBounds(s, triggerAt[j])

-----------------------------------------------------------------------------
(* Spokes in order, and heads of queues.                                   *)

\* A bound that is later than another one starts after its end
LEMMA BoundsApart ==
  ASSUME NEW a \in Bounds, NEW b \in Bounds, a < b
  PROVE  a + SpokeSpan <= b
  <1>1. CASE SpokeSpan = 0
    BY <1>1, BoundsInt
  <1>2. CASE SpokeSpan # 0
    <2>1. PICK t \in Nat, u \in Nat : a = Truncate(t) /\ b = Truncate(u)
      BY DEF Bounds, Triggers
    <2> DEFINE m == t \div SpokeSpan
               n == u \div SpokeSpan
    <2>2. m \in Int /\ n \in Int /\ SpokeSpan \in Int /\ SpokeSpan > 0
      BY <1>2, TimeAssumption
    <2>3. a = SpokeSpan * m /\ b = SpokeSpan * n
      BY <1>2, <2>1, TimeAssumption DEF Truncate
    <2> HIDE DEF m, n
    <2>4. m < n
      <3>1. \A p, q, r \in Int : r > 0 /\ q <= p => r * q <= r * p
        OBVIOUS
      <3> QED
        BY <2>2, <2>3, <3>1
    <2>5. SpokeSpan * (m + 1) <= SpokeSpan * n
      <3>1. \A p, q, r \in Int : r > 0 /\ q <= p => r * q <= r * p
        OBVIOUS
      <3>2. m + 1 <= n /\ m + 1 \in Int
        BY <2>2, <2>4
      <3> QED
        BY <2>2, <3>1, <3>2
    <2>6. SpokeSpan * (m + 1) = SpokeSpan * m + SpokeSpan
      BY <2>2
    <2> QED
      BY <2>2, <2>3, <2>5, <2>6
  <1> QED
    BY <1>1, <1>2

\* A heap of spokes that is not empty has an earliest one
LEMMA EarliestSpoke ==
  ASSUME NEW S \in SUBSET Bounds, S # {}
  PROVE  \E r \in S : \A s \in S : r <= s
  <1>1. \A s \in Bounds : s \in Int /\ s + SpokeSpan \in Nat
    <2> SUFFICES ASSUME NEW t \in Triggers
                 PROVE  Truncate(t) \in Int /\ Truncate(t) + SpokeSpan \in Nat
      BY DEF Bounds
    <2>1. t \in Nat /\ SpokeSpan \in Nat
      BY TimeAssumption DEF Triggers
    <2>2. SpokeSpan # 0 => t % SpokeSpan \in 0 .. (SpokeSpan - 1)
      BY <2>1
    <2> QED
      BY <2>1, <2>2 DEF Truncate
  <1>2. SpokeSpan \in Int
    BY TimeAssumption
  <1> DEFINE ends == {s + SpokeSpan : s \in S}
  <1>3. ends \in SUBSET Nat /\ ends # {}
    BY <1>1
  <1>4. PICK e \in ends : \A x \in ends : e <= x
    BY <1>3, LeastNatural
  <1>5. PICK r \in S : e = r + SpokeSpan
    BY <1>4
  <1>6. \A s \in S : r + SpokeSpan <= s + SpokeSpan
    BY <1>4, <1>5
  <1> QED
    BY <1>1, <1>2, <1>6

\* A spoke with a job that is ready has a head to deliver
LEMMA ReadyHead ==
  ASSUME TypeOK, NEW s \in Spokes, NEW k \in jobQueue[s], JobReady(k)
  PROVE  Head(s) # {}
  <1>1. jobQueue[s] \subseteq Jobs /\ \A j \in Jobs : triggerAt[j] \in Nat
    BY DEF TypeOK, Triggers
  <1> DEFINE times == {triggerAt[j] : j \in jobQueue[s]}
  <1>2. times \in SUBSET Nat /\ times # {}
    BY <1>1
  <1>3. PICK m \in times : \A x \in times : m <= x
    BY <1>2, LeastNatural
  <1>4. PICK j \in jobQueue[s] : triggerAt[j] = m
    BY <1>3
  <1>5. \A i \in jobQueue[s] : triggerAt[j] <= triggerAt[i]
    BY <1>3, <1>4
  <1>6. JobReady(j)
    BY <1>1, <1>4, <1>5 DEF JobReady, TypeOK
  <1> QED
    BY <1>4, <1>5, <1>6 DEF Head

-----------------------------------------------------------------------------
(* Every operation keeps the jobs in their windows.                        *)

\* Jobs that stay where they are stay in their windows as time goes by
LEMMA WindowsKept ==
  ASSUME TypeOK, InWindow, now' \in Nat, now <= now', UNCHANGED triggerAt,
         \A s \in Spokes : jobQueue'[s] \subseteq jobQueue[s]
  PROVE  InWindow'
  <1>1. \A s \in Spokes : jobQueue[s] \subseteq Jobs
    BY DEF TypeOK
  <1>2. \A j \in Jobs : triggerAt[j] \in Nat /\ now \in Nat
    BY DEF TypeOK, Triggers
  <1>3. PastSpoke \in Spokes /\ Bounds \subseteq Spokes
    BY DEF Spokes
  <1>4. \A j \in jobQueue'[PastSpoke] : JobReady(j)'
    BY <1>1, <1>2, <1>3 DEF InWindow, JobReady
  <1>5. \A s \in Bounds : \A j \in jobQueue'[s] : IsJobInBounds(s, triggerAt'[j])
    BY <1>3 DEF InWindow
  <1> QED
    BY <1>4, <1>5 DEF InWindow, IsJobInBounds

\* A job that is put goes to a spoke whose window holds it
LEMMA AddWindows ==
  ASSUME HubInv, InWindow, NEW j \in Jobs, NEW t \in Triggers, AddJobLocked(j, t)
  PROVE  InWindow'
  <1> USE DEF HubInv
  <1>1. \A s \in Spokes : jobQueue[s] \subseteq Jobs /\ j \notin jobQueue[s]
    BY DEF AddJobLocked, JobsConserved, JobsOf, Pending, TypeOK
  <1>2. /\ triggerAt'[j] = t /\ now' = now
        /\ \A k \in Jobs : k # j => triggerAt'[k] = triggerAt[k]
    BY DEF AddJobLocked, TypeOK
  <1>3. PastSpoke \in Spokes /\ Bounds \subseteq Spokes /\ PastSpoke \notin Bounds
    BY BoundsInt DEF Spokes
  <1>4. CASE Refused(j, t)
    <2>1. jobQueue' = jobQueue
      BY <1>4 DEF AddJobLocked, hubVars
    <2> QED
      BY <1>1, <1>2, <1>3, <2>1 DEF InWindow, JobReady, IsJobInBounds
  <1>5. CASE ~Refused(j, t)
    <2> DEFINE s == AddTarget(t)
    <2>1. AddToSpoke(s, j) /\ IsJobInBounds(s, t) /\ s \in Spokes
      BY <1>5, AddTargetSpoke DEF AddJobLocked, Refused
    <2>2. \A r \in Spokes : jobQueue'[r] = IF r = s THEN jobQueue[r] \cup {j} ELSE jobQueue[r]
      BY <2>1 DEF AddToSpoke, TypeOK
    <2>3. s = PastSpoke => t <= now
      BY BoundsInt DEF AddTarget, Bounds, Spokes, TypeOK
    <2> HIDE DEF s
    <2>4. \A k \in jobQueue'[PastSpoke] : JobReady(k)'
      BY <1>1, <1>2, <1>3, <2>2, <2>3 DEF InWindow, JobReady
    <2>5. \A r \in Bounds : \A k \in jobQueue'[r] : IsJobInBounds(r, triggerAt'[k])
      BY <1>1, <1>2, <1>3, <2>1, <2>2 DEF InWindow
    <2> QED
      BY <2>4, <2>5 DEF InWindow, IsJobInBounds
  <1> QED
    BY <1>4, <1>5

\* So do all others, which put no job
LEMMA WindowsNext ==
  ASSUME HubInv, InWindow, [EmbeddedNext]_vars
  PROVE  InWindow'
  <1> USE DEF HubInv
  <1>0. now \in Nat
    BY DEF TypeOK
  <1>1. ASSUME NEW j \in Jobs, NEW t \in Triggers, AddJobLocked(j, t) PROVE InWindow'
    BY <1>1, AddWindows
  <1>2. ASSUME NEW id \in Ids, CancelJobLocked(id) PROVE InWindow'
    <2>1. UNCHANGED <<now, triggerAt>>
      BY <1>2 DEF CancelJobLocked
    <2>2. \A s \in Spokes : jobQueue'[s] \subseteq jobQueue[s]
      <3>1. ASSUME NEW s \in FindOwnerSpoke(id), RemoveFromSpoke(s, jobMap[s][id])
            PROVE  \A r \in Spokes : jobQueue'[r] \subseteq jobQueue[r]
        BY <3>1 DEF RemoveFromSpoke, TypeOK
      <3> QED
        BY <1>2, <3>1 DEF CancelJobLocked, CancelUnseen, CancelNoOwner, CancelOwned, hubVars
    <2> QED
      BY <1>0, <2>1, <2>2, WindowsKept
  <1>3. CASE NextLocked
    <2>1. UNCHANGED <<now, triggerAt>>
      BY <1>3 DEF NextLocked
    <2>2. \A s \in Spokes : jobQueue'[s] \subseteq jobQueue[s]
      <3>1. ASSUME NEW s, NEW j, Deliver(s, j)
            PROVE  \A r \in Spokes : jobQueue'[r] \subseteq jobQueue[r]
        BY <3>1 DEF Deliver, RemoveFromSpoke, TypeOK
      <3> QED
        BY <1>3, <3>1 DEF NextLocked, NextFromPast, NextFromCurrent, NextNothing
    <2> QED
      BY <1>0, <2>1, <2>2, WindowsKept
  <1>4. CASE Tick
    BY <1>0, <1>4, WindowsKept DEF Tick, hubVars
  <1>5. CASE Prune \/ UNCHANGED vars
    BY <1>0, <1>5, WindowsKept DEF Prune, vars, hubVars
  <1> QED
    BY <1>1, <1>2, <1>3, <1>4, <1>5 DEF EmbeddedNext, Next

LEMMA WindowsInit == Init => InWindow
  BY DEF Init, InWindow, Spokes

\* Jobs are always in their windows
LEMMA WindowsAlways == EmbeddedSpec => [](HubInv /\ InWindow)
  BY InitInv, StepInv, WindowsInit, WindowsNext, PTL DEF EmbeddedSpec

-----------------------------------------------------------------------------
(* A poll.                                                                 *)

\* When the past spoke has no head it has no job at all
LEMMA PastDrained ==
  ASSUME HubInv, InWindow, Head(PastSpoke) = {}
  PROVE  jobQueue[PastSpoke] = {}
  BY ReadyHead DEF HubInv, InWindow, Spokes

\* A ready job that is not in the past spoke has a spoke of the heap or the
\* current one, which began before it
LEMMA ReadySpoke ==
  ASSUME HubInv, InWindow, jobQueue[PastSpoke] = {}, NEW k \in Pending, JobReady(k)
  PROVE  \E s \in Bounds :
           /\ k \in jobQueue[s] /\ s \in spokes \cup {currentSpoke}
           /\ s \in Int /\ triggerAt[k] \in Int /\ now \in Int
           /\ s <= triggerAt[k] /\ triggerAt[k] < s + SpokeSpan /\ triggerAt[k] <= now
  <1>1. PICK s \in Spokes : k \in jobQueue[s]
    BY DEF HubInv, JobsConserved, JobsOf
  <1>2. s \in Bounds /\ s # PastSpoke
    BY <1>1 DEF Spokes
  <1>3. s \in spokes \cup {currentSpoke}
    BY <1>1, <1>2 DEF HubInv, Registered
  <1>4. k \in Jobs /\ triggerAt[k] \in Int /\ now \in Int /\ s \in Int
    BY <1>2, BoundsInt DEF Pending, HubInv, TypeOK, Triggers
  <1>5. IsJobInBounds(s, triggerAt[k])
    BY <1>1, <1>2 DEF InWindow
  <1> QED
    BY <1>1, <1>2, <1>3, <1>4, <1>5 DEF IsJobInBounds, JobReady

\* The spoke that a poll makes current is the kept one, or the earliest of the
\* heap; there is one as long as the heap is not empty
LEMMA AdvancedSpoke ==
  ASSUME HubInv, AdvanceCurrent
  PROVE  \/ currentSpoke' = KeptSpoke /\ KeptSpoke # NoSpoke
         \/ /\ KeptSpoke = NoSpoke
            /\ currentSpoke' \in spokes /\ \A r \in spokes : currentSpoke' <= r
         \/ KeptSpoke = NoSpoke /\ spokes = {} /\ currentSpoke' = NoSpoke
  <1>1. spokes \in SUBSET Bounds /\ NoSpoke \notin Bounds
    BY BoundsInt DEF HubInv, TypeOK, Spokes
  <1>2. currentSpoke' \in IF Polled = {} THEN {NoSpoke} ELSE Polled
    BY DEF AdvanceCurrent
  <1>3. CASE KeptSpoke # NoSpoke
    BY <1>2, <1>3 DEF Polled, Candidate
  <1>4. CASE KeptSpoke = NoSpoke /\ spokes = {}
    BY <1>2, <1>4 DEF Polled, Candidate
  <1>5. CASE KeptSpoke = NoSpoke /\ spokes # {}
    <2>1. PICK r \in spokes : \A s \in spokes : r <= s
      BY <1>1, <1>5, EarliestSpoke
    <2>2. Candidate = {s \in spokes : \A q \in spokes : s <= q}
      BY <1>5 DEF Candidate, SpokeState
    <2>3. Polled = Candidate /\ Candidate # {}
      BY <1>1, <1>5, <2>1, <2>2 DEF Polled
    <2> QED
      BY <1>2, <1>5, <2>2, <2>3
  <1> QED
    BY <1>3, <1>4, <1>5

\* A poll that finds nothing, beside a job that is ready
LEMMA MissExplained ==
  ASSUME HubInv, InWindow, NextNothing, NEW k \in Pending, JobReady(k)
  PROVE  /\ currentSpoke' # NoSpoke /\ k \notin jobQueue[currentSpoke']
         /\ \/ triggerAt[k] < currentSpoke'
            \/ /\ jobQueue[currentSpoke'] = {}
               /\ now = currentSpoke' + SpokeSpan \/ currentSpoke' # currentSpoke
  <1> DEFINE c == currentSpoke'
  <1>1. /\ AdvanceCurrent /\ Head(PastSpoke) = {}
        /\ \A s \in Polled : Head(s) = {}
    BY DEF NextNothing
  <1>2. jobQueue[PastSpoke] = {}
    BY <1>1, PastDrained
  <1>3. PICK s \in Bounds :
          /\ k \in jobQueue[s] /\ s \in spokes \cup {currentSpoke}
          /\ s \in Int /\ triggerAt[k] \in Int /\ now \in Int
          /\ s <= triggerAt[k] /\ triggerAt[k] < s + SpokeSpan /\ triggerAt[k] <= now
    BY <1>2, ReadySpoke
  <1>4. s # NoSpoke /\ SpokeSpan \in Int
    BY <1>3, BoundsInt, TimeAssumption DEF Spokes
  <1>5. KeptSpoke = NoSpoke => s \in spokes
    BY <1>3, <1>4 DEF KeptSpoke, CurrentIsDone
  <1>6. c \in Polled /\ c \in Bounds /\ c \in Spokes /\ c \in Int /\ c # NoSpoke
    <2>1. c # NoSpoke
      BY <1>1, <1>5, AdvancedSpoke, BoundsInt DEF HubInv, TypeOK, Spokes
    <2> QED
      BY <1>1, <2>1, PolledSpoke, BoundsInt DEF AdvanceCurrent, HubInv, Spokes
  <1>7. \A m \in jobQueue[c] : ~JobReady(m)
    BY <1>1, <1>6, ReadyHead DEF HubInv
  <1>8. k \notin jobQueue[c] /\ s # c
    BY <1>3, <1>7
  <1>9. ASSUME ~(triggerAt[k] < c)
        PROVE  /\ jobQueue[c] = {}
               /\ now = c + SpokeSpan \/ c # currentSpoke
    <2>1. ~(s < c)
      <3>1. s < c => s + SpokeSpan <= c
        BY <1>6, BoundsApart
      <3> QED
        BY <1>3, <1>4, <1>6, <1>9, <3>1
    <2>2. c + SpokeSpan <= s
      BY <1>3, <1>6, <1>8, <2>1, BoundsApart
    <2>3. c + SpokeSpan <= now
      <3>1. c + SpokeSpan \in Int /\ s <= now
        BY <1>3, <1>4, <1>6
      <3> QED
        BY <1>3, <2>2, <3>1
    <2>4. jobQueue[c] = {}
      <3> SUFFICES ASSUME NEW m \in jobQueue[c] PROVE FALSE
        OBVIOUS
      <3>1. m \in Jobs /\ triggerAt[m] \in Int
        BY <1>6 DEF HubInv, TypeOK, Triggers
      <3>2. IsJobInBounds(c, triggerAt[m]) /\ c # PastSpoke
        BY <1>6, BoundsInt DEF InWindow
      <3>3. triggerAt[m] < c + SpokeSpan
        BY <3>2 DEF IsJobInBounds
      <3>4. ~(triggerAt[m] <= now)
        BY <1>7 DEF JobReady
      <3> QED
        BY <1>3, <1>4, <1>6, <2>3, <3>1, <3>3, <3>4
    <2>5. CASE c = currentSpoke
      <3>1. c \notin spokes
        BY <2>5 DEF HubInv, Registered
      <3>2. c = KeptSpoke
        BY <1>1, <1>6, <3>1, AdvancedSpoke
      <3>3. ~CurrentIsDone
        BY <1>6, <3>2 DEF KeptSpoke
      <3>4. ~IsExpired(c)
        BY <1>6, <2>4, <2>5, <3>3 DEF CurrentIsDone, SpokeState
      <3>5. c + SpokeSpan \in Int /\ ~(c + SpokeSpan < now)
        BY <1>4, <1>6, <3>4 DEF IsExpired
      <3> QED
        BY <1>3, <2>3, <2>4, <3>5
    <2> QED
      BY <2>4, <2>5
  <1> QED
    BY <1>6, <1>8, <1>9

\* A delivery before a job that is ready and has an earlier trigger
LEMMA InversionExplained ==
  ASSUME HubInv, InWindow, NextLocked, NEW j \in Jobs, reply' = [call |-> "next", job |-> j],
         NEW k \in Pending, JobReady(k), triggerAt[k] < triggerAt[j]
  PROVE  /\ k \notin jobQueue[PastSpoke]
         /\ j \in jobQueue[PastSpoke] \/ triggerAt[k] < currentSpoke'
  <1>1. triggerAt[k] \in Int /\ triggerAt[j] \in Int
    BY DEF HubInv, TypeOK, Pending, Triggers
  <1>2. ASSUME NEW s, NEW i \in Head(s), Deliver(s, i)
        PROVE  j \in jobQueue[s] /\ k \notin jobQueue[s]
    <2>1. i = j
      BY <1>2 DEF Deliver, Answer
    <2> QED
      BY <1>1, <1>2, <2>1 DEF Head
  <1>3. CASE NextFromPast
    BY <1>2, <1>3 DEF NextFromPast
  <1>4. CASE NextFromCurrent
    <2> DEFINE c == currentSpoke'
    <2>1. AdvanceCurrent /\ Head(PastSpoke) = {}
      BY <1>4 DEF NextFromCurrent
    <2>2. PICK p \in Polled : \E i \in Head(p) : Deliver(p, i)
      BY <1>4 DEF NextFromCurrent
    <2>3. p = c /\ p \in Bounds /\ p \in Int /\ p # PastSpoke
      BY <2>1, <2>2, PolledSpoke, BoundsInt DEF AdvanceCurrent, HubInv
    <2>4. j \in jobQueue[c] /\ k \notin jobQueue[c]
      BY <1>2, <2>2, <2>3
    <2>5. jobQueue[PastSpoke] = {}
      BY <2>1, PastDrained
    <2>6. PICK s \in Bounds :
            /\ k \in jobQueue[s] /\ s \in spokes \cup {currentSpoke}
            /\ s \in Int /\ triggerAt[k] \in Int /\ now \in Int
            /\ s <= triggerAt[k] /\ triggerAt[k] < s + SpokeSpan /\ triggerAt[k] <= now
      BY <2>5, ReadySpoke
    <2>7. IsJobInBounds(c, triggerAt[j])
      BY <2>3, <2>4 DEF InWindow
    <2>8. triggerAt[j] < c + SpokeSpan /\ SpokeSpan \in Int
      BY <2>3, <2>7, TimeAssumption DEF IsJobInBounds
    <2>9. s < c
      <3>1. s # c
        BY <2>4, <2>6
      <3>2. c < s => c + SpokeSpan <= s
        BY <2>3, BoundsApart
      <3> QED
        <4>1. c + SpokeSpan \in Int /\ c \in Int
          BY <2>3, <2>8
        <4>2. ~(c + SpokeSpan <= s)
          <5>1. s < triggerAt[j]
            BY <1>1, <2>6
          <5>2. triggerAt[j] < c + SpokeSpan
            BY <2>8
          <5> HIDE DEF c
          <5> QED
            BY <1>1, <2>6, <4>1, <5>1, <5>2
        <4> QED
          BY <2>6, <3>1, <3>2, <4>1, <4>2
    <2>10. s + SpokeSpan <= c
      BY <2>3, <2>9, BoundsApart
    <2> QED
      BY <1>1, <2>3, <2>5, <2>6, <2>8, <2>10
  <1>5. CASE NextNothing
    BY <1>5, NullAssumption DEF NextNothing, Answer
  <1> QED
    BY <1>3, <1>4, <1>5 DEF NextLocked

\* Only a poll answers with "next", and with no job only when it finds none
LEMMA PollAnswers ==
  ASSUME HubInv, EmbeddedNext, NEW j, reply' = [call |-> "next", job |-> j]
  PROVE  NextLocked /\ (j = NoJob => NextNothing)
  <1>1. reply'.call = "next" /\ reply'.job = j
    OBVIOUS
  <1>2. ASSUME NEW i \in Jobs, NEW t \in Triggers PROVE ~AddJobLocked(i, t)
    BY <1>1 DEF AddJobLocked, Answer
  <1>3. ASSUME NEW id \in Ids PROVE ~CancelJobLocked(id)
    BY <1>1 DEF CancelJobLocked, CancelUnseen, CancelNoOwner, CancelOwned, Answer
  <1>4. ~Tick /\ ~Prune
    BY <1>1 DEF Tick, Prune, Answer
  <1>5. NextLocked
    BY <1>2, <1>3, <1>4 DEF EmbeddedNext, Next
  <1>6. ASSUME NEW s \in Spokes, NEW i \in Head(s), Deliver(s, i) PROVE j # NoJob
    BY <1>1, <1>6, NullAssumption DEF Deliver, Answer, Head, HubInv, TypeOK
  <1>7. PastSpoke \in Spokes /\ Polled \subseteq Spokes
    BY PolledSpoke DEF Spokes, HubInv
  <1> QED
    BY <1>5, <1>6, <1>7 DEF NextLocked, NextFromPast, NextFromCurrent

\* A poll misses a ready job only behind a current spoke that was promoted too
\* early, that ends right now, or that this poll promoted after it had been drained
\* (hub.go:207-272)
THEOREM MissesAreExplained == EmbeddedSpec => MissesOnlyBehindCurrent
  <1>1. HubInv /\ InWindow /\ [EmbeddedNext]_vars =>
          [reply' = [call |-> "next", job |-> NoJob] =>
             \A k \in Pending : JobReady(k) =>
               /\ currentSpoke' # NoSpoke /\ k \notin jobQueue[currentSpoke']
               /\ \/ triggerAt[k] < currentSpoke'
                  \/ /\ jobQueue[currentSpoke'] = {}
                     /\ now = currentSpoke' + SpokeSpan \/ currentSpoke' # currentSpoke]_vars
    BY PollAnswers, MissExplained
  <1> QED
    BY <1>1, WindowsAlways, PTL DEF EmbeddedSpec, MissesOnlyBehindCurrent

\* A job is delivered before a ready one with an earlier trigger only from the past
\* spoke, or from a current spoke that was promoted too early (hub.go:207-272)
THEOREM InversionsAreExplained == EmbeddedSpec => InvertedOnlyAcrossSpokes
  <1>1. HubInv /\ InWindow /\ [EmbeddedNext]_vars =>
          [\A j \in Jobs : reply' = [call |-> "next", job |-> j] =>
             \A k \in Pending : JobReady(k) /\ triggerAt[k] < triggerAt[j] =>
               /\ k \notin jobQueue[PastSpoke]
               /\ j \in jobQueue[PastSpoke] \/ triggerAt[k] < currentSpoke']_vars
    BY PollAnswers, InversionExplained
  <1> QED
    BY <1>1, WindowsAlways, PTL DEF EmbeddedSpec, InvertedOnlyAcrossSpokes
-----------------------------------------------------------------------------
(* A span of zero.                                                         *)

\* With a span of zero no job waits: the windows are empty, so a job of the
\* future is refused, whatever spokes there are, and what is pending is with
\* the past spoke and due (job.go AsBound, hub.go:361, spoke.go IsJobInBounds)
THEOREM ZeroSpanNeverDelays ==
  ASSUME SpokeSpan = 0
  PROVE  EmbeddedSpec => [](/\ \A s \in Bounds : jobQueue[s] = {}
                            /\ \A j \in Pending : JobReady(j))
  <1>1. ASSUME HubInv, InWindow, NEW s \in Bounds PROVE jobQueue[s] = {}
    <2>1. s \in Int /\ s # PastSpoke
      BY BoundsInt
    <2>2. ASSUME NEW j \in jobQueue[s] PROVE FALSE
      <3>1. j \in Jobs /\ triggerAt[j] \in Int
        BY <1>1, <2>2 DEF HubInv, TypeOK, Triggers, Spokes
      <3>2. s <= triggerAt[j] /\ triggerAt[j] < s + 0
        BY <1>1, <2>1, <2>2 DEF InWindow, IsJobInBounds
      <3> QED
        BY <2>1, <3>1, <3>2
    <2> QED
      BY <2>2
  <1>2. ASSUME HubInv, InWindow, NEW j \in Pending PROVE JobReady(j)
    <2>1. PICK s \in Spokes : j \in jobQueue[s]
      BY <1>2 DEF HubInv, JobsConserved, JobsOf
    <2>2. s = PastSpoke
      BY <1>1, <1>2, <2>1 DEF Spokes
    <2> QED
      BY <1>2, <2>1, <2>2 DEF InWindow
  <1>3. HubInv /\ InWindow => /\ \A s \in Bounds : jobQueue[s] = {}
                             /\ \A j \in Pending : JobReady(j)
    BY <1>1, <1>2
  <1> QED
    BY <1>3, WindowsAlways, PTL

-----------------------------------------------------------------------------
(* Polls get on.                                                           *)

\* Time has passed over all the spokes there are
AllExpired == \A s \in spokes \cup {currentSpoke} : s # NoSpoke => IsExpired(s)

\* A queued job whose spoke has expired is ready
LEMMA ExpiredReady ==
  ASSUME HubInv, InWindow, NEW s \in Bounds, IsExpired(s), NEW k \in jobQueue[s]
  PROVE  JobReady(k)
  <1>1. s \in Int /\ SpokeSpan \in Int /\ now \in Int /\ s # PastSpoke
    BY BoundsInt, TimeAssumption DEF HubInv, TypeOK
  <1>2. k \in Jobs /\ triggerAt[k] \in Int
    BY DEF HubInv, TypeOK, Triggers, Spokes
  <1>3. triggerAt[k] < s + SpokeSpan
    BY <1>1 DEF InWindow, IsJobInBounds
  <1> QED
    BY <1>1, <1>2, <1>3 DEF IsExpired, JobReady

\* Once all spokes have expired, a poll of a hub that has jobs hands one out or
\* takes another spoke from the heap
LEMMA PollFinds ==
  ASSUME HubInv, InWindow, AllExpired, Pending # {}
  PROVE  \/ Head(PastSpoke) # {}
         \/ \E s \in Polled : Head(s) # {}
         \/ Candidate # {} /\ Candidate \subseteq spokes
  <1> SUFFICES ASSUME NEW k \in Pending, Head(PastSpoke) = {}, Candidate = {}
               PROVE  \E s \in Polled : Head(s) # {}
    BY PolledSpoke DEF HubInv
  <1>1. jobQueue[PastSpoke] = {}
    BY PastDrained
  <1>2. PICK s \in Spokes : k \in jobQueue[s]
    BY DEF HubInv, JobsConserved, JobsOf
  <1>3. s \in Bounds /\ s \in spokes \cup {currentSpoke} /\ s # NoSpoke
    BY <1>1, <1>2, BoundsInt DEF Spokes, HubInv, Registered
  <1>4. KeptSpoke # NoSpoke
    <2> SUFFICES ASSUME KeptSpoke = NoSpoke PROVE FALSE
      OBVIOUS
    <2>1. s \in spokes
      BY <1>2, <1>3 DEF KeptSpoke, CurrentIsDone
    <2>2. \E r \in spokes : \A q \in spokes : r <= q
      BY <2>1, EarliestSpoke DEF HubInv, TypeOK
    <2> QED
      BY <2>2 DEF Candidate, SpokeState
  <1>5. currentSpoke # NoSpoke /\ KeptSpoke = currentSpoke /\ ~CurrentIsDone
    BY <1>4 DEF KeptSpoke
  <1>6. currentSpoke \in Bounds /\ currentSpoke \in Spokes /\ IsExpired(currentSpoke)
    BY <1>5 DEF AllExpired, HubInv, TypeOK, Spokes
  <1>7. PICK m : m \in jobQueue[currentSpoke]
    BY <1>5, <1>6 DEF CurrentIsDone, SpokeState
  <1>8. Head(currentSpoke) # {}
    BY <1>6, <1>7, ExpiredReady, ReadyHead DEF HubInv
  <1> QED
    BY <1>5, <1>8 DEF Polled

\* The spokes that are not the past one change in three ways: time passes, polls
\* take them off the heap, and jobs that are accepted bring new ones
LEMMA SpokesGoDown ==
  ASSUME HubInv, [EmbeddedNext]_vars, Pending' \subseteq Pending
  PROVE  /\ spokes' \subseteq spokes
         /\ currentSpoke' \in spokes \cup {currentSpoke, NoSpoke}
         /\ now' \in {now, now + 1}
  <1> USE DEF HubInv
  <1>1. ASSUME NEW j \in Jobs, NEW t \in Triggers, AddJobLocked(j, t)
        PROVE  spokes' = spokes /\ currentSpoke' = currentSpoke /\ now' = now
    <2>1. Refused(j, t)
      <3> SUFFICES ASSUME ~Refused(j, t) PROVE FALSE
        OBVIOUS
      <3>1. j \notin Pending /\ j \in Pending'
        BY <1>1 DEF AddJobLocked, Becomes, Pending, TypeOK
      <3> QED
        BY <3>1
    <2> QED
      BY <1>1, <2>1 DEF AddJobLocked, hubVars
  <1>2. ASSUME NEW id \in Ids, CancelJobLocked(id)
        PROVE  spokes' = spokes /\ currentSpoke' = currentSpoke /\ now' = now
    BY <1>2 DEF CancelJobLocked, CancelUnseen, CancelNoOwner, CancelOwned, hubVars
  <1>3. CASE NextLocked
    <2>1. CASE NextFromPast
      BY <1>3, <2>1 DEF NextLocked, NextFromPast
    <2>2. CASE AdvanceCurrent
      <3>1. currentSpoke' = KeptSpoke \/ currentSpoke' \in spokes \cup {NoSpoke}
        BY <2>2, AdvancedSpoke
      <3> QED
        BY <1>3, <2>2, <3>1 DEF NextLocked, AdvanceCurrent, KeptSpoke
    <2> QED
      BY <1>3, <2>1, <2>2 DEF NextLocked, NextFromCurrent, NextNothing
  <1>4. CASE Prune \/ Tick \/ UNCHANGED vars
    BY <1>4 DEF Prune, Tick, vars, hubVars
  <1> QED
    BY <1>1, <1>2, <1>3, <1>4 DEF EmbeddedNext, Next

\* What is left to do for polls: jobs to hand out, and spokes to take off the heap
ToPoll == Cardinality(Pending) + Cardinality(spokes)

LEMMA PollGoesDown ==
  ASSUME HubInv, HubInv', InWindow, AllExpired, Pending # {}, NextLocked
  PROVE  \/ spokes' \subseteq spokes /\ \E j \in Pending : Pending' = Pending \ {j}
         \/ Pending' = Pending /\ \E s \in spokes : spokes' \subseteq spokes \ {s}
  <1> USE DEF HubInv
  <1>1. ASSUME NEW s \in Spokes, NEW j \in Head(s), Deliver(s, j)
        PROVE  j \in Pending /\ Pending' = Pending \ {j}
    <2>1. j \in jobQueue[s]
      BY DEF Head
    <2> QED
      BY <1>1, <2>1, Departure DEF Deliver
  <1>2. CASE NextFromPast
    BY <1>1, <1>2 DEF NextFromPast, Spokes
  <1>3. CASE NextFromCurrent
    <2>1. Polled \subseteq Spokes
      BY PolledSpoke DEF Spokes
    <2> QED
      BY <1>1, <1>3, <2>1 DEF NextFromCurrent, AdvanceCurrent
  <1>4. CASE NextNothing
    <2>1. Candidate # {} /\ Candidate \subseteq spokes
      BY <1>4, PollFinds DEF NextNothing
    <2>2. Pending' = Pending /\ spokes' = spokes \ Candidate
      BY <1>4 DEF NextNothing, AdvanceCurrent, Pending
    <2> QED
      BY <2>1, <2>2
  <1> QED
    BY <1>2, <1>3, <1>4 DEF NextLocked

LEMMA ToPollStep ==
  ASSUME HubInv, HubInv', InWindow, [EmbeddedNext]_vars, AllExpired, Pending' \subseteq Pending
  PROVE  /\ AllExpired' /\ ToPoll \in Nat /\ ToPoll' <= ToPoll
         /\ NextLocked /\ Pending # {} => ToPoll' < ToPoll
  <1>1. /\ spokes' \subseteq spokes /\ currentSpoke' \in spokes \cup {currentSpoke, NoSpoke}
        /\ now' \in {now, now + 1}
    BY SpokesGoDown
  <1>2. AllExpired'
    <2>1. ASSUME NEW s \in (spokes \cup {currentSpoke})', s # NoSpoke PROVE s + SpokeSpan < now'
      <3>1. s \in spokes \cup {currentSpoke}
        BY <1>1, <2>1
      <3>2. s \in Bounds /\ s \in Int /\ now \in Int /\ SpokeSpan \in Int
        BY <2>1, <3>1, BoundsInt, TimeAssumption DEF HubInv, TypeOK
      <3>3. s + SpokeSpan < now
        BY <2>1, <3>1 DEF AllExpired, IsExpired
      <3> QED
        BY <1>1, <3>2, <3>3
    <2> QED
      BY <2>1 DEF AllExpired, IsExpired
  <1>3. IsFiniteSet(spokes) /\ IsFiniteSet(Pending)
    BY FiniteBounds, FS_Subset, StatusSets DEF HubInv, TypeOK
  <1>4. /\ Cardinality(spokes) \in Nat /\ Cardinality(Pending) \in Nat
        /\ Cardinality(spokes') \in Nat /\ Cardinality(Pending') \in Nat
        /\ Cardinality(spokes') <= Cardinality(spokes)
        /\ Cardinality(Pending') <= Cardinality(Pending)
    BY <1>1, <1>3, FS_Subset, FS_CardinalityType
  <1>5. ASSUME NextLocked, Pending # {} PROVE ToPoll' < ToPoll
    <2>1. CASE \E j \in Pending : Pending' = Pending \ {j}
      <3>1. Cardinality(Pending') = Cardinality(Pending) - 1
        BY <1>3, <2>1, FS_RemoveElement
      <3> QED
        BY <1>4, <3>1 DEF ToPoll
    <2>2. CASE Pending' = Pending /\ \E s \in spokes : spokes' \subseteq spokes \ {s}
      <3>1. PICK s \in spokes : spokes' \subseteq spokes \ {s}
        BY <2>2
      <3>2. IsFiniteSet(spokes \ {s}) /\ Cardinality(spokes \ {s}) = Cardinality(spokes) - 1
        BY <1>3, FS_RemoveElement
      <3>3. Cardinality(spokes') <= Cardinality(spokes) - 1
        BY <3>1, <3>2, FS_Subset
      <3> QED
        BY <1>4, <2>2, <3>3 DEF ToPoll
    <2> QED
      BY <1>5, <2>1, <2>2, PollGoesDown
  <1> QED
    BY <1>2, <1>4, <1>5 DEF ToPoll

\* A hub to which nothing is added any more is drained by as many polls as it has
\* jobs and the heap has spokes, once time has passed over its spokes: each poll
\* leaves fewer of the two together, and nothing but an accepted job adds to them.
\* EveryJobLeaves rests on this, beside the fairness of polls and clock
\* (hub.go:198-288)
THEOREM PollsDrain ==
  EmbeddedSpec => [][AllExpired /\ Pending' \subseteq Pending =>
                       /\ AllExpired' /\ ToPoll \in Nat /\ ToPoll' <= ToPoll
                       /\ NextLocked /\ Pending # {} => ToPoll' < ToPoll]_vars
  <1>1. HubInv /\ InWindow /\ HubInv' /\ [EmbeddedNext]_vars =>
          [AllExpired /\ Pending' \subseteq Pending =>
             /\ AllExpired' /\ ToPoll \in Nat /\ ToPoll' <= ToPoll
             /\ NextLocked /\ Pending # {} => ToPoll' < ToPoll]_vars
    BY ToPollStep
  <1> QED
    BY <1>1, WindowsAlways, PTL DEF EmbeddedSpec

-----------------------------------------------------------------------------
(* The heaps as bags.  Hub keeps a set for each heap; this is sound, and   *)
(* what OrderedBag asks for, if nothing is pushed that is there already,   *)
(* nothing removed that is not, and no priority changes meanwhile.         *)

\* heap.Push, heap.Pop and heap.Remove on the jobs of a spoke
JobHeapStep(s) ==
  \/ jobQueue'[s] = jobQueue[s]
  \/ \E j \in Jobs \ jobQueue[s] : jobQueue'[s] = jobQueue[s] \cup {j}
  \/ \E j \in jobQueue[s] :
       /\ jobQueue'[s] = jobQueue[s] \ {j}
       /\ \/ reply' = [call |-> "cancel", job |-> j]
          \/ \A k \in jobQueue[s] : triggerAt[j] <= triggerAt[k]

\* heap.Push and heap.Pop on the spokes of the hub
SpokeHeapStep ==
  \/ spokes' = spokes
  \/ \E s \in Bounds \ (spokes \cup {currentSpoke}) : spokes' = spokes \cup {s}
  \/ \E s \in spokes : spokes' = spokes \ {s} /\ \A r \in spokes : s <= r

HeapsAsBags ==
  /\ \A s \in Spokes : JobHeapStep(s)
  /\ SpokeHeapStep
  /\ \A j \in Pending : triggerAt'[j] = triggerAt[j]

LEMMA AddHeaps ==
  ASSUME HubInv, NEW j \in Jobs, NEW t \in Triggers, AddJobLocked(j, t)
  PROVE  HeapsAsBags
  <1> DEFINE s == AddTarget(t)
  <1>1. s \in Spokes /\ status[j] = "new" /\ j \notin Pending
    BY AddTargetSpoke DEF HubInv, AddJobLocked, Pending
  <1>2. \A k \in Pending : triggerAt'[k] = triggerAt[k]
    BY <1>1 DEF AddJobLocked, HubInv, TypeOK, Pending
  <1>3. CASE Refused(j, t)
    BY <1>2, <1>3 DEF AddJobLocked, hubVars, HeapsAsBags, JobHeapStep, SpokeHeapStep
  <1>4. CASE ~Refused(j, t)
    <2>1. AddToSpoke(s, j) /\ AddSpoke(s) /\ IsJobInBounds(s, t)
      BY <1>4 DEF AddJobLocked, Refused
    <2>2. \A r \in Spokes : j \notin jobQueue[r]
      BY <1>1 DEF HubInv, JobsConserved, JobsOf
    <2>3. \A r \in Spokes : JobHeapStep(r)
      BY <1>1, <2>1, <2>2 DEF AddToSpoke, JobHeapStep, HubInv, TypeOK
    <2>4. SpokeHeapStep
      <3>1. CASE s \in {PastSpoke, currentSpoke} \cup spokeMap
        BY <2>1, <3>1 DEF AddSpoke, SpokeHeapStep
      <3>2. CASE s \notin {PastSpoke, currentSpoke} \cup spokeMap
        <4>1. s \in Bounds /\ s # NoSpoke /\ ~(t <= now)
          BY <1>1, <3>2, BoundsInt DEF Spokes, AddTarget
        <4>2. ~IsExpired(s)
          BY <2>1, <4>1, BoundAlive DEF HubInv
        <4>3. s \notin spokes
          BY <3>2, <4>1, <4>2 DEF HubInv, Dropped
        <4>4. spokes' = spokes \cup {s}
          BY <2>1, <3>2 DEF AddSpoke
        <4> QED
          BY <3>2, <4>1, <4>3, <4>4 DEF SpokeHeapStep
      <3> QED
        BY <3>1, <3>2
    <2> QED
      BY <1>2, <2>3, <2>4 DEF HeapsAsBags
  <1> QED
    BY <1>3, <1>4

LEMMA RemovalHeaps ==
  ASSUME HubInv, NEW s \in Spokes, NEW j \in jobQueue[s], RemoveFromSpoke(s, j),
         \/ reply' = [call |-> "cancel", job |-> j]
         \/ \A k \in jobQueue[s] : triggerAt[j] <= triggerAt[k]
  PROVE  \A r \in Spokes : JobHeapStep(r)
  BY DEF RemoveFromSpoke, JobHeapStep, HubInv, TypeOK

LEMMA CancelHeaps ==
  ASSUME HubInv, NEW id \in Ids, CancelJobLocked(id)
  PROVE  HeapsAsBags
  <1>1. UNCHANGED <<triggerAt, spokes>>
    BY DEF CancelJobLocked, CancelUnseen, CancelNoOwner, CancelOwned, hubVars
  <1>2. CASE UNCHANGED jobQueue
    BY <1>1, <1>2 DEF HeapsAsBags, JobHeapStep, SpokeHeapStep
  <1>3. CASE CancelOwned(id)
    <2>1. PICK s \in FindOwnerSpoke(id) :
            /\ RemoveFromSpoke(s, jobMap[s][id])
            /\ Answer("cancel", jobMap[s][id])
      BY <1>3 DEF CancelOwned
    <2>2. s \in Spokes /\ jobMap[s][id] \in jobQueue[s]
      BY <2>1, FindOwnerFinds DEF HubInv, JobMapSound
    <2> QED
      BY <1>1, <2>1, <2>2, RemovalHeaps DEF HeapsAsBags, SpokeHeapStep, Answer
  <1> QED
    BY <1>2, <1>3 DEF CancelJobLocked, CancelUnseen, CancelNoOwner, hubVars

LEMMA NextHeaps ==
  ASSUME HubInv, NextLocked
  PROVE  HeapsAsBags
  <1>1. UNCHANGED triggerAt
    BY DEF NextLocked
  <1>2. SpokeHeapStep
    <2>1. CASE spokes' = spokes
      BY <2>1 DEF SpokeHeapStep
    <2>2. CASE AdvanceCurrent
      <3>1. spokes' = spokes \ Candidate
        BY <2>2 DEF AdvanceCurrent
      <3>2. \A r, s \in Candidate : r = s
        BY BoundsInt DEF Candidate, HubInv, TypeOK
      <3>3. ASSUME NEW s \in Candidate PROVE SpokeHeapStep
        <4>1. spokes' = spokes \ {s} /\ s \in spokes
          BY <3>1, <3>2, PolledSpoke DEF HubInv
        <4>2. \A r \in spokes : s <= r
          BY <3>3 DEF Candidate
        <4> QED
          BY <4>1, <4>2 DEF SpokeHeapStep
      <3> QED
        BY <3>1, <3>3, <2>1
    <2> QED
      BY <2>1, <2>2 DEF NextLocked, NextFromPast, NextFromCurrent, NextNothing
  <1>3. ASSUME NEW s \in Spokes, NEW j \in Head(s), Deliver(s, j)
        PROVE  \A r \in Spokes : JobHeapStep(r)
    BY <1>3, RemovalHeaps DEF Head, Deliver
  <1>4. PastSpoke \in Spokes /\ Polled \subseteq Spokes
    BY PolledSpoke DEF Spokes, HubInv
  <1>5. \A r \in Spokes : JobHeapStep(r)
    <2>1. CASE NextFromPast
      BY <1>3, <1>4, <2>1 DEF NextFromPast
    <2>2. CASE NextFromCurrent
      BY <1>3, <1>4, <2>2 DEF NextFromCurrent
    <2>3. CASE NextNothing
      BY <2>3 DEF NextNothing, JobHeapStep
    <2> QED
      BY <2>1, <2>2, <2>3 DEF NextLocked
  <1> QED
    BY <1>1, <1>2, <1>5 DEF HeapsAsBags

\* Queues of jobs and the heap of spokes are used as OrderedBag allows: in
\* particular no spoke is pushed again that is still in the heap, although Prune
\* takes spokes out of the map only, by which addJob tells that a spoke is new
\* (hub.go:185-189, 247-270, 295-304, spoke.go:91-142)
THEOREM HeapsAreBags == EmbeddedSpec => [][HeapsAsBags]_vars
  <1>1. HubInv /\ [EmbeddedNext]_vars => [HeapsAsBags]_vars
    <2>1. ASSUME Tick \/ Prune PROVE HeapsAsBags
      BY <2>1 DEF Tick, Prune, hubVars, HeapsAsBags, JobHeapStep, SpokeHeapStep
    <2> QED
      BY <2>1, AddHeaps, CancelHeaps, NextHeaps DEF EmbeddedNext, Next
  <1> QED
    BY <1>1, Invariance, PTL DEF EmbeddedSpec
=============================================================================
