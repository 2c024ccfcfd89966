--------------------------- MODULE HubExactProofs ---------------------------
(***************************************************************************)
(* The hub as the queue its clients were promised: exactly that when the   *)
(* filter can tell the ids in use apart and has room for all of them, for  *)
(* then the filter and the maps are exact, and a looser one otherwise.     *)
(***************************************************************************)
EXTENDS HubProofs

\* No two ids share byte and bucket pair
NoCollision == \A x, y \in Ids : FingerprintOf[x] = FingerprintOf[y] => x = y

\* The jobs that can be pending at once stay within the load at which the
\* filter never fails an insert
RoomForAll == Cardinality(Jobs) <= FilterSlots

ExactInv ==
  /\ HubInv
  /\ FilterExact
  /\ JobMapExact

-----------------------------------------------------------------------------
\* The spoke that has a pending job is searched, and answers for the job's id
LEMMA PendingIsOwned ==
  ASSUME ExactInv, NEW j \in Pending
  PROVE  \E s \in FindOwnerSpoke(IdOf[j]) : TRUE
  <1>1. j \in Jobs /\ j # NoJob
    BY NullAssumption DEF Pending
  <1>2. PICK s \in Spokes : j \in jobQueue[s]
    BY DEF ExactInv, HubInv, JobsConserved, JobsOf
  <1>3. s \in Searched
    BY <1>2 DEF ExactInv, HubInv, Registered, Searched
  <1>4. jobMap[s][IdOf[j]] # NoJob
    BY <1>1, <1>2 DEF ExactInv, JobMapExact
  <1> QED
    BY <1>3, <1>4 DEF FindOwnerSpoke

\* An owner returns the one pending job of the id
LEMMA OwnerHasPending ==
  ASSUME ExactInv, NEW id \in Ids, NEW s \in FindOwnerSpoke(id)
  PROVE  /\ s \in Spokes
         /\ jobMap[s][id] \in jobQueue[s] /\ jobMap[s][id] \in Pending
         /\ IdOf[jobMap[s][id]] = id
  <1>1. s \in Spokes /\ jobMap[s][id] # NoJob
    BY FindOwnerFinds DEF ExactInv, HubInv
  <1>2. jobMap[s][id] \in jobQueue[s] /\ IdOf[jobMap[s][id]] = id
    BY <1>1 DEF ExactInv, HubInv, JobMapSound
  <1>3. jobMap[s][id] \in Jobs
    BY <1>1, <1>2 DEF ExactInv, HubInv, TypeOK
  <1> QED
    BY <1>1, <1>2, <1>3 DEF ExactInv, HubInv, JobsConserved, JobsOf

\* The filter lets an id through exactly when a job of that id is pending
LEMMA LookupExact ==
  ASSUME ExactInv, NoCollision, NEW id \in Ids
  PROVE  Lookup(id) <=> \E j \in Pending : IdOf[j] = id
  <1> DEFINE f == FingerprintOf[id]
  <1>1. f \in Fingerprints /\ jobFilter[f] = Cardinality(Held(f))
    BY FilterAssumption DEF ExactInv, FilterExact, Held
  <1>2. Cardinality(Held(f)) > 0 <=> Held(f) # {}
    <2>1. Cardinality(Held(f)) \in Nat /\ (Cardinality(Held(f)) = 0 <=> Held(f) = {})
      BY HeldFinite, FS_CardinalityType, FS_EmptySet
    <2> QED
      BY <2>1
  <1>3. \A j \in Pending : IdOf[j] \in Ids
    BY IdsAssumption DEF Pending
  <1>4. Held(f) # {} <=> \E j \in Pending : IdOf[j] = id
    BY <1>3 DEF Held, NoCollision
  <1> QED
    BY <1>1, <1>2, <1>4 DEF Lookup

\* A put is refused for its id exactly when a job of that id is pending
LEMMA DuplicateExact ==
  ASSUME ExactInv, NoCollision, NEW id \in Ids
  PROVE  (Lookup(id) /\ FindOwnerSpoke(id) # {}) <=> \E j \in Pending : IdOf[j] = id
  BY LookupExact, PendingIsOwned

-----------------------------------------------------------------------------
(* Arrivals and departures keep filter and maps exact.                     *)

LEMMA ArrivalExact ==
  ASSUME ExactInv, RoomForAll,
         NEW j \in Jobs, status[j] = "new", NEW s \in Spokes,
         \A k \in Pending : IdOf[k] # IdOf[j],
         AddToSpoke(s, j), FilterInsert(IdOf[j]), Becomes(j, "pending")
  PROVE  FilterExact' /\ JobMapExact'
  <1> USE DEF ExactInv, HubInv
  <1>1. j \notin Pending /\ Pending' = Pending \cup {j} /\ JobsConserved'
    BY Arrival
  <1>2. \A r \in Spokes : jobQueue'[r] = IF r = s THEN jobQueue[r] \cup {j} ELSE jobQueue[r]
    BY DEF TypeOK, AddToSpoke
  <1>3. \A r \in Spokes, id \in Ids :
          jobMap'[r][id] = IF r = s /\ id = IdOf[j] THEN j ELSE jobMap[r][id]
    BY IdsAssumption DEF TypeOK, AddToSpoke
  <1>4. JobMapExact'
    <2>1. \A k, l \in Pending' : IdOf[k] = IdOf[l] => k = l
      BY <1>1 DEF JobMapExact
    <2>2. ASSUME NEW r \in Spokes, NEW k \in jobQueue'[r] PROVE jobMap'[r][IdOf[k]] = k
      <3>1. k \in Jobs /\ IdOf[k] \in Ids
        BY <2>2, <1>2, IdsAssumption DEF TypeOK
      <3>2. CASE k = j
        BY <1>1, <1>2, <1>3, <2>2, <3>1, <3>2 DEF JobsConserved, JobsOf
      <3>3. CASE k # j
        <4>1. k \in jobQueue[r] /\ k \in Pending
          BY <1>2, <2>2, <3>1, <3>3 DEF JobsConserved, JobsOf
        <4> QED
          BY <1>3, <3>1, <4>1 DEF JobMapExact
      <3> QED
        BY <3>2, <3>3
    <2> QED
      BY <2>1, <2>2 DEF JobMapExact
  <1>5. Cardinality(Pending') = Cardinality(Pending) + 1 /\ Cardinality(Pending) \in Nat
    BY <1>1, StatusSets, FS_AddElement, FS_CardinalityType
  <1>6. ~(filterCount >= FilterSlots)
    <2>1. Cardinality(Pending) < Cardinality(Jobs)
      <3>1. Cardinality(Pending \cup {j}) <= Cardinality(Jobs)
        BY StatusSets, FiniteJobs, FS_Subset
      <3>2. Cardinality(Jobs) \in Nat
        BY FiniteJobs, FS_CardinalityType
      <3> QED
        BY <1>1, <1>5, <3>1, <3>2
    <2>2. Cardinality(Jobs) \in Nat
      BY FiniteJobs, FS_CardinalityType
    <2> QED
      BY <1>5, <2>1, <2>2, FilterAssumption DEF FilterExact, RoomForAll
  <1>7. /\ jobFilter' = [jobFilter EXCEPT ![FingerprintOf[IdOf[j]]] = @ + 1]
        /\ filterCount' = filterCount + 1
    BY <1>6 DEF FilterInsert
  <1>8. ASSUME NEW f \in Fingerprints PROVE jobFilter'[f] = Cardinality(Held(f)')
    <2>1. CASE f = FingerprintOf[IdOf[j]]
      <3>1. Held(f)' = Held(f) \cup {j} /\ j \notin Held(f)
        BY <1>1, <2>1 DEF Held
      <3>2. Cardinality(Held(f)') = Cardinality(Held(f)) + 1
        BY <3>1, HeldFinite, FS_AddElement
      <3> QED
        BY <1>7, <2>1, <3>2 DEF FilterExact, Held, TypeOK
    <2>2. CASE f # FingerprintOf[IdOf[j]]
      <3>1. Held(f)' = Held(f)
        BY <1>1, <2>2 DEF Held
      <3> QED
        BY <1>7, <2>2, <3>1 DEF FilterExact, Held, TypeOK
    <2> QED
      BY <2>1, <2>2
  <1>9. FilterExact'
    BY <1>5, <1>7, <1>8 DEF FilterExact, Held
  <1> QED
    BY <1>4, <1>9

LEMMA DepartureExact ==
  ASSUME ExactInv, NEW s \in Spokes, NEW j \in jobQueue[s],
         NEW st \in {"delivered", "cancelled"},
         RemoveFromSpoke(s, j), FilterDelete(IdOf[j]), Becomes(j, st)
  PROVE  FilterExact' /\ JobMapExact'
  <1> USE DEF ExactInv, HubInv
  <1>1. j \in Pending /\ j \in Jobs /\ Pending' = Pending \ {j}
    BY Departure DEF TypeOK
  <1>2. \A r \in Spokes : jobQueue'[r] = IF r = s THEN jobQueue[r] \ {j} ELSE jobQueue[r]
    BY DEF TypeOK, RemoveFromSpoke
  <1>3. \A r \in Spokes, id \in Ids :
          jobMap'[r][id] = IF r = s /\ id = IdOf[j] THEN NoJob ELSE jobMap[r][id]
    BY <1>1, IdsAssumption DEF TypeOK, RemoveFromSpoke
  <1>4. JobMapExact'
    <2>1. \A k, l \in Pending' : IdOf[k] = IdOf[l] => k = l
      BY <1>1 DEF JobMapExact
    <2>2. ASSUME NEW r \in Spokes, NEW k \in jobQueue'[r] PROVE jobMap'[r][IdOf[k]] = k
      <3>1. k \in jobQueue[r] /\ k \in Jobs /\ IdOf[k] \in Ids
        BY <2>2, <1>2, IdsAssumption DEF TypeOK
      <3>2. k \in Pending
        BY <3>1 DEF JobsConserved, JobsOf
      <3>3. k # j
        BY <1>2, <2>2 DEF JobsConserved
      <3>4. IdOf[k] # IdOf[j]
        BY <1>1, <3>2, <3>3 DEF JobMapExact
      <3> QED
        BY <1>3, <3>1, <3>4 DEF JobMapExact
    <2> QED
      BY <2>1, <2>2 DEF JobMapExact
  <1>5. Cardinality(Pending') = Cardinality(Pending) - 1
    BY <1>1, StatusSets, FS_RemoveElement
  <1>6. FingerprintOf[IdOf[j]] \in Fingerprints
    BY <1>1, IdsAssumption, FilterAssumption
  <1>7. ASSUME NEW f \in Fingerprints, f = FingerprintOf[IdOf[j]]
        PROVE  /\ jobFilter[f] = Cardinality(Held(f)) /\ jobFilter[f] > 0
               /\ Cardinality(Held(f)') = Cardinality(Held(f)) - 1
    <2>1. Held(f)' = Held(f) \ {j} /\ j \in Held(f)
      BY <1>1, <1>7 DEF Held
    <2>2. Cardinality(Held(f)') = Cardinality(Held(f)) - 1
      BY <2>1, HeldFinite, FS_RemoveElement
    <2>3. Cardinality(Held(f)) \in Nat /\ Cardinality(Held(f)) # 0
      BY <2>1, HeldFinite, FS_CardinalityType, FS_EmptySet
    <2>4. jobFilter[f] = Cardinality(Held(f))
      BY DEF FilterExact, Held
    <2> QED
      BY <2>2, <2>3, <2>4
  <1>8. Lookup(IdOf[j])
    BY <1>6, <1>7 DEF Lookup
  <1>9. ASSUME NEW f \in Fingerprints PROVE jobFilter'[f] = Cardinality(Held(f)')
    <2>1. CASE f = FingerprintOf[IdOf[j]]
      BY <1>7, <2>1 DEF FilterDelete, TypeOK
    <2>2. CASE f # FingerprintOf[IdOf[j]]
      <3>1. Held(f)' = Held(f)
        BY <1>1, <2>2 DEF Held
      <3> QED
        BY <2>2, <3>1 DEF FilterExact, Held, FilterDelete, TypeOK
    <2> QED
      BY <2>1, <2>2
  <1>10. FilterExact'
    BY <1>5, <1>8, <1>9 DEF FilterExact, Held, FilterDelete
  <1> QED
    BY <1>4, <1>10

-----------------------------------------------------------------------------
(* Every operation keeps filter and maps exact.                            *)

LEMMA ExactUnchanged ==
  ASSUME FilterExact, JobMapExact,
         UNCHANGED <<jobFilter, filterCount, jobQueue, jobMap>>, Pending' = Pending
  PROVE  FilterExact' /\ JobMapExact'
  BY DEF FilterExact, JobMapExact

LEMMA AddExact ==
  ASSUME ExactInv, NoCollision, RoomForAll,
         NEW j \in Jobs, NEW t \in Triggers, AddJobLocked(j, t)
  PROVE  FilterExact' /\ JobMapExact'
  <1>1. status[j] = "new" /\ IdOf[j] \in Ids
    BY IdsAssumption DEF AddJobLocked
  <1>2. CASE Refused(j, t)
    <2>1. Becomes(j, "rejected") /\ UNCHANGED hubVars
      BY <1>2 DEF AddJobLocked
    <2>2. Pending' = Pending
      BY <1>1, <2>1 DEF Becomes, Pending, ExactInv, HubInv, TypeOK
    <2> QED
      BY <2>1, <2>2, ExactUnchanged DEF hubVars, filterVars, ExactInv
  <1>3. CASE ~Refused(j, t)
    <2>1. /\ AddToSpoke(AddTarget(t), j) /\ FilterInsert(IdOf[j]) /\ Becomes(j, "pending")
          /\ AddTarget(t) \in Spokes
      BY <1>3, AddTargetSpoke DEF AddJobLocked, ExactInv, HubInv
    <2>2. \A k \in Pending : IdOf[k] # IdOf[j]
      BY <1>1, <1>3, DuplicateExact DEF Refused
    <2> QED
      BY <1>1, <2>1, <2>2, ArrivalExact
  <1> QED
    BY <1>2, <1>3

\* CancelNoOwner is what a false positive of the filter leads to: without
\* collisions there are none
LEMMA CancelExact ==
  ASSUME ExactInv, NoCollision, NEW id \in Ids, CancelJobLocked(id)
  PROVE  FilterExact' /\ JobMapExact'
  <1>1. CASE CancelUnseen(id)
    BY <1>1, ExactUnchanged DEF CancelUnseen, hubVars, filterVars, Pending, ExactInv
  <1>2. ~CancelNoOwner(id)
    BY DuplicateExact, LookupExact DEF CancelNoOwner
  <1>3. CASE CancelOwned(id)
    <2>1. PICK s \in FindOwnerSpoke(id) :
            /\ RemoveFromSpoke(s, jobMap[s][id])
            /\ Becomes(jobMap[s][id], "cancelled")
      BY <1>3 DEF CancelOwned
    <2>2. s \in Spokes /\ jobMap[s][id] \in jobQueue[s] /\ IdOf[jobMap[s][id]] = id
      BY OwnerHasPending
    <2>3. FilterDelete(id)
      BY <1>3 DEF CancelOwned
    <2> QED
      BY <2>1, <2>2, <2>3, DepartureExact
  <1> QED
    BY <1>1, <1>2, <1>3 DEF CancelJobLocked

LEMMA NextExact ==
  ASSUME ExactInv, NextLocked
  PROVE  FilterExact' /\ JobMapExact'
  <1>1. ASSUME NEW s \in Spokes, NEW j \in Head(s), Deliver(s, j)
        PROVE  FilterExact' /\ JobMapExact'
    BY <1>1, DepartureExact DEF Deliver, Head
  <1>2. CASE NextFromPast
    BY <1>1, <1>2 DEF NextFromPast, Spokes
  <1>3. CASE NextFromCurrent
    <2>1. Polled \subseteq Spokes
      BY PolledSpoke DEF Spokes, ExactInv, HubInv
    <2> QED
      BY <1>1, <1>3, <2>1 DEF NextFromCurrent
  <1>4. CASE NextNothing
    BY <1>4, ExactUnchanged DEF NextNothing, filterVars, Pending, ExactInv
  <1> QED
    BY <1>2, <1>3, <1>4 DEF NextLocked

LEMMA StepExact ==
  ASSUME ExactInv, NoCollision, RoomForAll, [EmbeddedNext]_vars
  PROVE  ExactInv'
  <1>1. HubInv'
    BY StepInv DEF ExactInv
  <1>2. CASE Prune \/ Tick \/ UNCHANGED vars
    BY <1>1, <1>2, ExactUnchanged
    DEF Prune, Tick, vars, hubVars, filterVars, Pending, ExactInv
  <1> QED
    BY <1>1, <1>2, AddExact, CancelExact, NextExact DEF EmbeddedNext, Next, ExactInv

LEMMA InitExact == Init => ExactInv
  <1> SUFFICES ASSUME Init PROVE ExactInv
    OBVIOUS
  <1>1. Pending = {}
    BY DEF Init, Pending
  <1>2. FilterExact /\ JobMapExact
    BY <1>1, FS_EmptySet DEF Init, FilterExact, JobMapExact
  <1> QED
    BY <1>2, InitInv DEF ExactInv

\* The three hold together along every behaviour
LEMMA ExactInvariance ==
  ASSUME NoCollision, RoomForAll
  PROVE  EmbeddedSpec => []ExactInv
  <1>1. ExactInv /\ [EmbeddedNext]_vars => ExactInv'
    BY StepExact, NoCollision, RoomForAll
  <1> QED
    BY <1>1, InitExact, PTL DEF EmbeddedSpec

\* The filter holds the fingerprints of the pending jobs and nothing else
THEOREM FilterIsExact ==
  ASSUME NoCollision, RoomForAll
  PROVE  EmbeddedSpec => []FilterExact
  <1>1. ExactInv => FilterExact
    BY DEF ExactInv
  <1>2. EmbeddedSpec => []ExactInv
    BY ExactInvariance
  <1> QED
    BY <1>1, <1>2, PTL

\* Pending ids are unique and every pending job can be found by its id
THEOREM JobMapsAreExact ==
  ASSUME NoCollision, RoomForAll
  PROVE  EmbeddedSpec => []JobMapExact
  <1>1. ExactInv => JobMapExact
    BY DEF ExactInv
  <1>2. EmbeddedSpec => []ExactInv
    BY ExactInvariance
  <1> QED
    BY <1>1, <1>2, PTL

\* Hence the filter never has a false negative
THEOREM NoFalseNegative ==
  ASSUME NoCollision, RoomForAll
  PROVE  EmbeddedSpec => []NoFalseNegatives
  <1>1. ExactInv => NoFalseNegatives
    <2> SUFFICES ASSUME ExactInv, NEW j \in Pending PROVE Lookup(IdOf[j])
      BY DEF NoFalseNegatives
    <2>1. IdOf[j] \in Ids
      BY IdsAssumption DEF Pending
    <2> QED
      BY <2>1, LookupExact, NoCollision
  <1>2. EmbeddedSpec => []ExactInv
    BY ExactInvariance
  <1> QED
    BY <1>1, <1>2, PTL

-----------------------------------------------------------------------------
(* Whatever the fingerprints, the hub implements the loose queue.          *)

LooseInv == HubInv /\ StartTime <= now

\* The clock does not run backwards
LEMMA LooseInvariance == EmbeddedSpec => []LooseInv
  <1>1. Init => LooseInv
    BY InitInv, TimeAssumption DEF Init, LooseInv
  <1>2. LooseInv /\ [EmbeddedNext]_vars => LooseInv'
    <2> SUFFICES ASSUME LooseInv, [EmbeddedNext]_vars PROVE LooseInv'
      OBVIOUS
    <2>1. now' \in {now, now + 1}
      BY DEF EmbeddedNext, Next, AddJobLocked, CancelJobLocked, NextLocked, Tick, Prune, vars
    <2> QED
      BY <2>1, StepInv, TimeAssumption DEF LooseInv, HubInv, TypeOK
  <1> QED
    BY <1>1, <1>2, PTL DEF EmbeddedSpec

\* What is accepted is not before the horizon
LEMMA PutLoose ==
  ASSUME LooseInv, PastStart <= StartTime,
         NEW j \in Jobs, NEW t \in Triggers, AddJobLocked(j, t)
  PROVE  Queue!LoosePut(j, t)
  <1>1. CASE Refused(j, t)
    BY <1>1 DEF AddJobLocked, Queue!LoosePut, Becomes, Queue!Becomes, Answer, Queue!Answer
  <1>2. CASE ~Refused(j, t)
    <2>1. IsJobInBounds(AddTarget(t), t)
      BY <1>2 DEF Refused
    <2>2. t \in Int /\ now \in Int /\ PastStart \in Int /\ StartTime \in Int
      BY TimeAssumption DEF LooseInv, HubInv, TypeOK, Triggers
    <2>3. t >= PastStart
      <3>1. CASE t <= now
        <4>1. AddTarget(t) = PastSpoke
          BY <3>1 DEF AddTarget
        <4> QED
          BY <2>1, <2>2, <4>1 DEF IsJobInBounds
      <3>2. CASE ~(t <= now)
        BY <2>2, <3>2 DEF LooseInv
      <3> QED
        BY <3>1, <3>2
    <2> QED
      BY <1>2, <2>3 DEF AddJobLocked, Queue!LoosePut, Becomes, Queue!Becomes, Answer, Queue!Answer
  <1> QED
    BY <1>1, <1>2

\* What a cancel removes was pending, with the id that was asked for
LEMMA CancelLoose ==
  ASSUME LooseInv, NEW id \in Ids, CancelJobLocked(id)
  PROVE  Queue!LooseCancel(id)
  <1>1. UNCHANGED <<now, triggerAt>> /\ HubInv
    BY DEF CancelJobLocked, LooseInv
  <1>2. CASE CancelUnseen(id) \/ CancelNoOwner(id)
    BY <1>1, <1>2 DEF CancelUnseen, CancelNoOwner, Queue!LooseCancel, Answer, Queue!Answer
  <1>3. CASE CancelOwned(id)
    <2>1. PICK s \in FindOwnerSpoke(id) :
            /\ Becomes(jobMap[s][id], "cancelled") /\ Answer("cancel", jobMap[s][id])
      BY <1>3 DEF CancelOwned
    <2>2. s \in Spokes /\ jobMap[s][id] # NoJob
      BY <1>1, FindOwnerFinds DEF HubInv
    <2>3. jobMap[s][id] \in jobQueue[s] /\ IdOf[jobMap[s][id]] = id
      BY <1>1, <2>2 DEF HubInv, JobMapSound
    <2>4. jobMap[s][id] \in Queue!PendingWith(id)
      BY <1>1, <2>2, <2>3 DEF HubInv, TypeOK, JobsConserved, JobsOf, Pending, Queue!PendingWith
    <2> QED
      BY <1>1, <2>1, <2>4 DEF Queue!LooseCancel, Becomes, Queue!Becomes, Answer, Queue!Answer
  <1> QED
    BY <1>2, <1>3 DEF CancelJobLocked

\* What a poll hands out was pending and is due
LEMMA NextRefined ==
  ASSUME HubInv, NextLocked
  PROVE  (\E j \in Jobs : Queue!Deliver(j)) \/ Queue!PollEmpty
  <1>1. UNCHANGED <<now, triggerAt>>
    BY DEF NextLocked
  <1>2. ASSUME NEW s \in Spokes, NEW j \in Head(s), Deliver(s, j)
        PROVE  \E k \in Jobs : Queue!Deliver(k)
    <2>1. j \in Jobs /\ status[j] = "pending" /\ triggerAt[j] <= now
      BY <1>1 DEF HubInv, TypeOK, JobsConserved, JobsOf, Pending, Head, JobReady
    <2>2. Queue!Deliver(j)
      BY <1>1, <1>2, <2>1 DEF Deliver, Queue!Deliver, Becomes, Queue!Becomes, Answer, Queue!Answer
    <2> QED
      BY <2>1, <2>2
  <1>3. CASE NextFromPast
    BY <1>2, <1>3 DEF NextFromPast, Spokes
  <1>4. CASE NextFromCurrent
    <2>1. Polled \subseteq Spokes
      BY <1>1, PolledSpoke DEF Spokes, HubInv
    <2> QED
      BY <1>2, <1>4, <2>1 DEF NextFromCurrent
  <1>5. CASE NextNothing
    BY <1>1, <1>5 DEF NextNothing, Queue!PollEmpty, Answer, Queue!Answer
  <1> QED
    BY <1>3, <1>4, <1>5 DEF NextLocked

\* Whatever ids collide in the filter and whatever it drops, clients see a queue in
\* which a job is handed out at most once, never early and never after its cancel
\* was answered, a cancel takes none but a pending job of its id, and what is put
\* before the horizon is refused (hub.go:119-163, 198-288, 307-392)
THEOREM HubImplementsLooseQueue ==
  ASSUME PastStart <= StartTime
  PROVE  EmbeddedSpec => ImplementsLooseQueue
  <1>1. Init => Queue!Init
    BY DEF Init, Queue!Init
  <1>2. LooseInv /\ [EmbeddedNext]_vars => [Queue!LooseNext]_(Queue!vars)
    <2> SUFFICES ASSUME LooseInv, [EmbeddedNext]_vars PROVE [Queue!LooseNext]_(Queue!vars)
      OBVIOUS
    <2>1. CASE Tick
      BY <2>1 DEF Tick, Queue!Tick, Queue!LooseNext, Answer, Queue!Answer
    <2>2. CASE Prune
      BY <2>2 DEF Prune, Queue!Prune, Queue!LooseNext, Answer, Queue!Answer
    <2>3. CASE UNCHANGED vars
      BY <2>3 DEF vars, Queue!vars
    <2>4. CASE NextLocked
      BY <2>4, NextRefined DEF LooseInv, Queue!LooseNext
    <2> QED
      BY <2>1, <2>2, <2>3, <2>4, PutLoose, CancelLoose DEF EmbeddedNext, Next, Queue!LooseNext
  <1> QED
    BY <1>1, <1>2, LooseInvariance, PTL DEF EmbeddedSpec, ImplementsLooseQueue, Queue!LooseSpec

-----------------------------------------------------------------------------
(* The hub implements the queue its clients see.                           *)

\* Windows are not empty, the past spoke reaches back to the start and forward
\* past every trigger time
WideWindows ==
  /\ SpokeSpan > 0
  /\ PastStart <= StartTime
  /\ MaxTrigger < PastEnd

RefInv == ExactInv /\ StartTime <= now

LEMMA TruncateBounds ==
  ASSUME NEW t \in Nat, SpokeSpan > 0
  PROVE  Truncate(t) <= t /\ t < Truncate(t) + SpokeSpan
  <1>1. t % SpokeSpan \in 0 .. (SpokeSpan - 1)
    BY TimeAssumption
  <1> QED
    BY <1>1, TimeAssumption DEF Truncate

\* Only a trigger time before the horizon is out of the bounds of every spoke
LEMMA OutOfBounds ==
  ASSUME RefInv, WideWindows, NEW t \in Triggers
  PROVE  ~IsJobInBounds(AddTarget(t), t) <=> t < PastStart
  <1>1. /\ t \in Nat /\ now \in Nat /\ t <= MaxTrigger
        /\ SpokeSpan \in Nat /\ StartTime \in Nat /\ PastStart \in Nat
        /\ PastEnd \in Nat /\ MaxTrigger \in Nat
    BY TimeAssumption DEF RefInv, ExactInv, HubInv, TypeOK, Triggers
  <1>2. CASE t <= now
    BY <1>1, <1>2 DEF AddTarget, IsJobInBounds, WideWindows
  <1>3. CASE ~(t <= now)
    <2>1. ~(t < PastStart)
      BY <1>1, <1>3 DEF RefInv, WideWindows
    <2>2. Truncate(t) \in Bounds /\ Truncate(t) # PastSpoke
      BY BoundsInt DEF Bounds
    <2>3. IsJobInBounds(Truncate(t), t)
      BY <1>1, <2>2, TruncateBounds DEF IsJobInBounds, WideWindows
    <2> QED
      BY <1>3, <2>1, <2>3 DEF AddTarget
  <1> QED
    BY <1>2, <1>3

LEMMA PutRefined ==
  ASSUME RefInv, NoCollision, WideWindows,
         NEW j \in Jobs, NEW t \in Triggers, AddJobLocked(j, t)
  PROVE  Queue!Put(j, t)
  <1>1. IdOf[j] \in Ids
    BY IdsAssumption
  <1>2. Queue!PendingWith(IdOf[j]) # {} <=> \E k \in Pending : IdOf[k] = IdOf[j]
    BY DEF Queue!PendingWith, Pending
  <1>3. Refused(j, t) <=> Queue!PendingWith(IdOf[j]) # {} \/ t < PastStart
    BY <1>1, <1>2, DuplicateExact, OutOfBounds DEF Refused, RefInv
  <1>4. CASE Refused(j, t)
    BY <1>3, <1>4 DEF AddJobLocked, Queue!Put, Becomes, Queue!Becomes, Answer, Queue!Answer
  <1>5. CASE ~Refused(j, t)
    BY <1>3, <1>5 DEF AddJobLocked, Queue!Put, Becomes, Queue!Becomes, Answer, Queue!Answer
  <1> QED
    BY <1>4, <1>5

LEMMA CancelRefined ==
  ASSUME RefInv, NoCollision, NEW id \in Ids, CancelJobLocked(id)
  PROVE  Queue!Cancel(id)
  <1>1. UNCHANGED <<now, triggerAt>> /\ ExactInv
    BY DEF CancelJobLocked, RefInv
  <1>2. Queue!PendingWith(id) # {} <=> \E k \in Pending : IdOf[k] = id
    BY DEF Queue!PendingWith, Pending
  <1>3. CASE CancelUnseen(id)
    BY <1>1, <1>2, <1>3, LookupExact DEF CancelUnseen, Queue!Cancel, Answer, Queue!Answer
  <1>4. ~CancelNoOwner(id)
    BY <1>1, DuplicateExact, LookupExact DEF CancelNoOwner
  <1>5. CASE CancelOwned(id)
    <2>1. PICK s \in FindOwnerSpoke(id) :
            /\ Becomes(jobMap[s][id], "cancelled") /\ Answer("cancel", jobMap[s][id])
      BY <1>5 DEF CancelOwned
    <2>2. jobMap[s][id] \in Queue!PendingWith(id)
      BY <1>1, OwnerHasPending DEF Queue!PendingWith, Pending
    <2> QED
      BY <1>1, <2>1, <2>2 DEF Queue!Cancel, Becomes, Queue!Becomes, Answer, Queue!Answer
  <1> QED
    BY <1>3, <1>4, <1>5 DEF CancelJobLocked

LEMMA StepRefined ==
  ASSUME RefInv, NoCollision, WideWindows, [Next]_vars
  PROVE  [Queue!Next]_(Queue!vars)
  <1>1. CASE Tick
    BY <1>1 DEF Tick, Queue!Tick, Queue!Next, Answer, Queue!Answer
  <1>2. CASE UNCHANGED vars
    BY <1>2 DEF vars, Queue!vars
  <1> QED
    BY <1>1, <1>2, PutRefined, CancelRefined, NextRefined DEF Next, Queue!Next, RefInv, ExactInv

\* Puts, polls and cancels answer as those of an exact queue: whatever the
\* spokes, a client can see no difference to JobQueue
THEOREM HubImplementsQueue ==
  ASSUME NoCollision, RoomForAll, WideWindows
  PROVE  Spec => ImplementsQueue
  <1>1. Init => Queue!Init
    BY DEF Init, Queue!Init
  <1>2. Init => RefInv
    BY InitExact, TimeAssumption DEF Init, RefInv
  <1>3. RefInv /\ [Next]_vars => RefInv'
    <2> SUFFICES ASSUME RefInv, [Next]_vars PROVE RefInv'
      OBVIOUS
    <2>1. ExactInv'
      BY StepExact, NoCollision, RoomForAll DEF RefInv, EmbeddedNext
    <2>2. now' \in {now, now + 1}
      BY DEF Next, AddJobLocked, CancelJobLocked, NextLocked, Tick, vars
    <2> QED
      BY <2>1, <2>2, TimeAssumption DEF RefInv, ExactInv, HubInv, TypeOK
  <1>4. RefInv /\ [Next]_vars => [Queue!Next]_(Queue!vars)
    BY StepRefined, NoCollision, WideWindows
  <1> QED
    BY <1>1, <1>2, <1>3, <1>4, PTL DEF Spec, ImplementsQueue, Queue!Spec
=============================================================================
