--------------------------- MODULE InspectProofs ----------------------------
(***************************************************************************)
(* Invariance proofs for Inspect, for any number of inspections, limits,   *)
(* jobs and spokes: what an inspection reports is neither doubled nor,     *)
(* below its limit, incomplete, and exceeds the limit by a bound.          *)
(***************************************************************************)
EXTENDS Inspect, FiniteSetTheorems, TLAPS

\* Every job in the hub was accepted and has one spoke; the operation under way
\* has not lost sight of its job and spoke
HubSound ==
  /\ \A s \in AllSpokes : jobQueue[s] \subseteq accepted
  /\ \A r, s \in AllSpokes : r # s => jobQueue[r] \cap jobQueue[s] = {}
  /\ op.at = "add" \/ (op.at = "search" /\ op.spoke # NoSpoke) =>
       op.job \in Jobs \ accepted /\ op.spoke \in AllSpokes
  /\ op.at = "search" => op.job \in Jobs
  /\ op.at = "cancel" => op.job \in Jobs /\ op.spoke \in AllSpokes
  /\ op.at = "current" => op.spoke \in Spokes
  /\ op.at = "register" => op.spoke \in Spokes
  /\ op.at = "drop" => op.spoke \in Spokes /\ jobQueue[op.spoke] = {}

\* A range holds every spoke that it has met, but for the one it waits for
RangeHolds(i) ==
  /\ pc[i] = "range" => visited[i] \subseteq Held(i)
  /\ pc[i] = "lock" => \A r, s \in visited[i] \ Held(i) : r = s
  /\ pc[i] \in {"idle", "past"} => visited[i] = {} /\ Reported(i) = {}

\* The spokes that inspection i is done with
Seen(i) == {PastSpoke} \cup (visited[i] \ Awaited(i))

\* A reported job that is still there is in a spoke that is done with
ReportedSeen(i) ==
  \A j \in Jobs, s \in AllSpokes :
    j \in Reported(i) => j \in accepted /\ (j \in jobQueue[s] => s \in Seen(i))

\* A steady job is still there, and once the past spoke is done with, an inspection below
\* its limit has reported it or still has to get to its spoke
SteadyOwed(i) ==
  /\ steady[i] \subseteq JobsOf(InspectWalk)
  /\ pc[i] \in {"range", "lock"} /\ left[i] > 0 =>
       \A j \in steady[i] \ Reported(i) :
         \E s \in owed[i] \ Seen(i) : j \in jobQueue[s]

\* ReportedOnce and NothingMissed for inspection i, with what they rest on
InspectionSound(i) ==
  /\ \A j \in Jobs : answer[i][j] <= 1
  /\ pc[i] = "done" /\ left[i] > 0 => steady[i] \subseteq Reported(i)
  /\ RangeHolds(i) /\ ReportedSeen(i) /\ SteadyOwed(i)

InspectInv == TypeOK /\ HubSound /\ \A i \in Inspectors : InspectionSound(i)

-----------------------------------------------------------------------------
(* The hub's side.                                                         *)

OpType == [at : Stages, job : Jobs \cup {NoJob},
           spoke : AllSpokes \cup {NoSpoke}, todo : SUBSET AllSpokes]

Inspecting == <<spokeLock, pc, left, visited, limit, answer>>

Quiet == UNCHANGED <<jobQueue, spokeMap, accepted, dropped, owed, steady>>

Inserts(s, j) ==
  /\ s \in AllSpokes /\ j \in Jobs \ accepted
  /\ jobQueue' = [jobQueue EXCEPT ![s] = @ \cup {j}]
  /\ accepted' = accepted \cup {j}
  /\ UNCHANGED <<spokeMap, dropped, owed, steady>>

Registers(s) ==
  /\ s \in Spokes /\ spokeMap' = spokeMap \cup {s}
  /\ UNCHANGED <<jobQueue, accepted, dropped, owed, steady>>

Removes(s, j) ==
  /\ s \in AllSpokes /\ j \in Jobs
  /\ jobQueue' = [jobQueue EXCEPT ![s] = @ \ {j}]
  /\ steady' = [i \in Inspectors |-> steady[i] \ {j}]
  /\ UNCHANGED <<spokeMap, accepted, dropped, owed>>

Drops(s) ==
  /\ s \in Spokes /\ jobQueue[s] = {}
  /\ spokeMap' = spokeMap \ {s} /\ dropped' = dropped \cup {s}
  /\ owed' = [i \in Inspectors |-> owed[i] \ {s}]
  /\ UNCHANGED <<jobQueue, accepted, steady>>

Effect ==
  /\ UNCHANGED Inspecting
  /\ \/ Quiet
     \/ \E s, j : Inserts(s, j) \/ Removes(s, j)
     \/ \E s : Registers(s) \/ Drops(s)

Begins ==
  \/ \E j \in Jobs : AddJobLocked(j) \/ CancelJobLocked(j)
  \/ NextLocked \/ PersistLocked

\* Beginning an operation changes nothing but op, which is then sound
LEMMA BeginSound ==
  ASSUME TypeOK, HubSound, Begins
  PROVE  op' \in OpType /\ HubSound' /\ Effect /\ UNCHANGED crashed
<1>1. CASE \E j \in Jobs : AddJobLocked(j)
  BY <1>1, ConstantsAssumption DEF AddJobLocked, Begin, TypeOK, OpType, HubSound, Stages, AllSpokes, InspectWalk,
     inspectVars, Effect, Quiet, Inspecting
<1>2. CASE \E j \in Jobs : CancelJobLocked(j)
  BY <1>2, ConstantsAssumption DEF CancelJobLocked, Begin, TypeOK, OpType, HubSound, Stages, AllSpokes, InspectWalk,
     inspectVars, Effect, Quiet, Inspecting
<1>3. CASE NextLocked \/ PersistLocked
  BY <1>3 DEF NextLocked, PersistLocked, Begin, TypeOK, OpType, HubSound, Stages, AllSpokes, InspectWalk,
     inspectVars, Effect, Quiet, Inspecting
<1> QED
  BY <1>1, <1>2, <1>3 DEF Begins

LEMMA NoOpType == NoOp \in OpType
BY DEF NoOp, OpType, Stages

\* A step of an operation keeps it sound, and does to the hub one of five things
LEMMA StepSound ==
  ASSUME TypeOK, HubSound, HubStep
  PROVE  op' \in OpType /\ HubSound' /\ Effect /\ UNCHANGED crashed
<1> USE NoOpType
<1>o. op \in OpType /\ jobQueue \in [AllSpokes -> SUBSET Jobs] /\ spokeMap \in SUBSET Spokes
  BY DEF TypeOK, OpType
<1>1. CASE SearchSpoke
  <2>1. Quiet /\ Effect
    BY <1>1 DEF SearchSpoke, inspectVars, Effect, Quiet, Inspecting
  <2>2. PICK s \in op.todo :
          \/ op' = [op EXCEPT !.at = "cancel", !.spoke = s]
          \/ op' = [op EXCEPT !.todo = @ \ {s}]
          \/ op' = NoOp
    BY <1>1 DEF SearchSpoke, Return
  <2>3. op.at = "search" /\ op.job \in Jobs /\ s \in AllSpokes
    BY <1>1, <1>o DEF SearchSpoke, HubSound, OpType
  <2>4. op' \in OpType
    BY <1>o, <2>2, <2>3 DEF OpType, Stages
  <2>5. \/ op'.at = "cancel" /\ op'.job = op.job /\ op'.spoke = s
        \/ op'.at = "search" /\ op'.job = op.job /\ op'.spoke = op.spoke
        \/ op' = NoOp
    BY <1>o, <2>2, <2>3 DEF OpType
  <2>6. HubSound'
    <3>1. CASE op' = NoOp
      BY <2>1, <3>1 DEF Quiet, HubSound, NoOp
    <3>2. CASE op'.at = "cancel" /\ op'.job = op.job /\ op'.spoke = s
      BY <2>1, <2>3, <3>2 DEF Quiet, HubSound
    <3>3. CASE op'.at = "search" /\ op'.job = op.job /\ op'.spoke = op.spoke
      BY <2>1, <2>3, <3>3 DEF Quiet, HubSound
    <3> QED
      BY <2>5, <3>1, <3>2, <3>3
  <2> QED
    BY <2>1, <2>4, <2>6 DEF HubStep
<1>2. CASE SearchDone
  BY <1>2, <1>o DEF SearchDone, OpType, Stages, AllSpokes, NoOp, Return, Then, IsAdd, HubSound, HubStep,
     inspectVars, Effect, Quiet, Inspecting
<1>3. CASE Insert
  <2>1. op.job \in Jobs \ accepted /\ op.spoke \in AllSpokes
    BY <1>3 DEF Insert, HubSound
  <2>2. Inserts(op.spoke, op.job) /\ Effect
    BY <1>3, <2>1 DEF Insert, Inserts, Effect, Inspecting, inspectVars
  <2>3. op' \in OpType /\ (op' = NoOp \/ (op'.at = "register" /\ op'.spoke \in Spokes))
    BY <1>3, <1>o, <2>1 DEF Insert, OpType, Stages, Return, Then, InspectWalk, AllSpokes
  <2>4. HubSound'
    BY <1>o, <2>1, <2>2, <2>3 DEF Inserts, HubSound, NoOp
  <2> QED
    BY <2>2, <2>3, <2>4 DEF HubStep
<1>4. CASE Register
  BY <1>4, <1>o DEF Register, OpType, NoOp, Return, HubSound, HubStep,
     inspectVars, Effect, Registers, Inspecting
<1>5. ASSUME NEW s \in AllSpokes, NEW j \in Jobs, RemoveFromSpoke(s, j), op' = NoOp,
             UNCHANGED <<spokeMap, accepted, dropped>>
      PROVE  op' \in OpType /\ HubSound' /\ Effect
  <2>1. Removes(s, j) /\ Effect
    BY <1>5 DEF RemoveFromSpoke, Removes, Effect, Inspecting
  <2>2. HubSound'
    BY <1>5, <1>o, <2>1 DEF Removes, HubSound, NoOp
  <2> QED
    BY <1>5, <2>1, <2>2
<1>6. CASE CancelInSpoke
  BY <1>5, <1>6 DEF CancelInSpoke, HubSound, Return, HubStep
<1>7. CASE NextFromPast
  BY <1>5, <1>7, <1>o DEF NextFromPast, TakeFrom, Return, HubStep, AllSpokes
<1>8. CASE NothingInPast
  BY <1>8, <1>o DEF NothingInPast, PollCurrent, Droppable, OpType, Stages, AllSpokes, NoOp, Return,
     HubSound, HubStep, inspectVars, Effect, Quiet, Inspecting
<1>9. CASE DropCurrent
  <2>1. Drops(op.spoke) /\ Effect
    BY <1>9 DEF DropCurrent, Drops, HubSound, Effect, Inspecting
  <2>2. op' \in OpType /\ (op' = NoOp \/ (op'.at = "current" /\ op'.spoke \in Spokes))
    BY <1>9, <1>o, <2>1 DEF DropCurrent, PollCurrent, Drops, OpType, Stages, Return, AllSpokes
  <2>3. HubSound'
    BY <2>1, <2>2 DEF Drops, HubSound, NoOp
  <2> QED
    BY <2>1, <2>2, <2>3 DEF HubStep
<1>10. CASE NextFromCurrent
  BY <1>5, <1>10, <1>o DEF NextFromCurrent, TakeFrom, Return, HubStep, AllSpokes, HubSound
<1>11. CASE NothingInCurrent \/ PersistSpoke
  BY <1>11, <1>o DEF NothingInCurrent, PersistSpoke, OpType, Stages, AllSpokes, NoOp, Return,
     HubSound, HubStep, inspectVars, Effect, Quiet, Inspecting
<1> QED
  BY <1>1, <1>2, <1>3, <1>4, <1>6, <1>7, <1>8, <1>9, <1>10, <1>11 DEF HubStep

\* What a step of the hub does to an inspection under way: nothing that it has
\* reported or still owes is disturbed
LEMMA EffectKeeps ==
  ASSUME TypeOK, HubSound, Effect, NEW i \in Inspectors, InspectionSound(i)
  PROVE  InspectionSound(i)'
<1>1. Held(i)' = Held(i) /\ Reported(i)' = Reported(i) /\ Seen(i)' = Seen(i)
  BY DEF Effect, Inspecting, Held, Reported, Seen, Awaited
<1>2. RangeHolds(i)' /\ \A j \in Jobs : answer'[i][j] <= 1
  BY <1>1 DEF Effect, Inspecting, RangeHolds, InspectionSound
<1>3. steady'[i] \subseteq steady[i]
  BY DEF Effect, Quiet, Inserts, Removes, Registers, Drops, TypeOK
<1>4. pc'[i] = "done" /\ left'[i] > 0 => steady'[i] \subseteq Reported(i)'
  BY <1>1, <1>3 DEF InspectionSound, Effect, Inspecting
<1>5. ReportedSeen(i)'
  <2> SUFFICES ASSUME NEW j \in Jobs, NEW s \in AllSpokes, j \in Reported(i)
               PROVE  j \in accepted' /\ (j \in jobQueue'[s] => s \in Seen(i))
    BY <1>1 DEF ReportedSeen
  <2>1. j \in accepted /\ (j \in jobQueue[s] => s \in Seen(i))
    BY DEF ReportedSeen, InspectionSound
  <2> QED
    BY <2>1 DEF Effect, Quiet, Inserts, Removes, Registers, Drops, TypeOK
<1>6. ASSUME NEW j \in Jobs, NEW s \in AllSpokes, j \in steady'[i], j \in jobQueue[s]
      PROVE  /\ j \in jobQueue'[s]
             /\ s \in InspectWalk => s \in InspectWalk'
             /\ s \in owed[i] => s \in owed'[i]
  BY <1>6 DEF Effect, Quiet, Inserts, Removes, Registers, Drops, TypeOK, InspectWalk
<1>7. SteadyOwed(i)'
  <2>1. steady[i] \subseteq JobsOf(InspectWalk)
    BY DEF SteadyOwed, InspectionSound
  <2>2. steady'[i] \subseteq JobsOf(InspectWalk)'
    BY <1>3, <1>6, <2>1 DEF JobsOf, InspectWalk, AllSpokes, TypeOK
  <2>3. ASSUME pc[i] \in {"range", "lock"}, left[i] > 0, NEW j \in steady'[i] \ Reported(i)
        PROVE  \E s \in owed'[i] \ Seen(i) : j \in jobQueue'[s]
    <3>1. j \in steady[i] /\ j \in Jobs
      BY <1>3, <2>3 DEF TypeOK
    <3>2. PICK s \in owed[i] \ Seen(i) : j \in jobQueue[s]
      BY <2>3, <3>1 DEF SteadyOwed, InspectionSound
    <3>3. s \in AllSpokes
      BY <3>2 DEF TypeOK, AllSpokes
    <3> QED
      BY <1>6, <2>3, <3>1, <3>2, <3>3
  <2> QED
    BY <1>1, <2>2, <2>3 DEF SteadyOwed, Effect, Inspecting
<1> QED
  BY <1>2, <1>4, <1>5, <1>7 DEF InspectionSound

\* The types survive any such effect
LEMMA EffectType ==
  ASSUME TypeOK, Effect, op' \in OpType, UNCHANGED crashed
  PROVE  TypeOK'
<1>1. /\ jobQueue' \in [AllSpokes -> SUBSET Jobs] /\ accepted' \in SUBSET Jobs
      /\ spokeMap' \in SUBSET Spokes /\ dropped' \in SUBSET Spokes
  BY DEF TypeOK, Effect, Quiet, Inserts, Removes, Registers, Drops
<1>2. owed' \in [Inspectors -> SUBSET Spokes] /\ steady' \in [Inspectors -> SUBSET Jobs]
  BY DEF TypeOK, Effect, Quiet, Inserts, Removes, Registers, Drops
<1> QED
  BY <1>1, <1>2 DEF TypeOK, OpType, Effect, Inspecting

-----------------------------------------------------------------------------
(* An inspection's side.                                                   *)

\* What is sent of a spoke is in it, and is all of it below the limit
LEMMA SentSound ==
  ASSUME TypeOK, NEW s \in AllSpokes, NEW n \in Int, NEW sent \in Sent(n, jobQueue[s])
  PROVE  /\ sent \subseteq jobQueue[s] /\ Cardinality(sent) \in Nat
         /\ n - Cardinality(sent) > 0 => sent = jobQueue[s]
<1>1. jobQueue[s] \subseteq Jobs /\ sent \subseteq jobQueue[s]
  BY DEF TypeOK, Sent
<1>2. IsFiniteSet(jobQueue[s]) /\ IsFiniteSet(sent)
  BY <1>1, FS_Subset, ConstantsAssumption
<1>3. Cardinality(jobQueue[s]) \in Nat /\ Cardinality(sent) \in Nat
  BY <1>2, FS_CardinalityType
<1> QED
  BY <1>1, <1>3 DEF Sent

\* A report of a spoke none of whose jobs has been reported before
LEMMA ReportSound ==
  ASSUME TypeOK, NEW i \in Inspectors, NEW s \in AllSpokes, Report(i, s),
         \A j \in jobQueue[s] : j \notin Reported(i),
         \A j \in Jobs : answer[i][j] <= 1
  PROVE  /\ left' \in [Inspectors -> Int] /\ answer' \in [Inspectors -> [Jobs -> Nat]]
         /\ \A k \in Inspectors \ {i} : left'[k] = left[k] /\ answer'[k] = answer[k]
         /\ left'[i] <= left[i]
         /\ \A j \in Jobs : answer'[i][j] <= 1
         /\ Reported(i) \subseteq Reported(i)'
         /\ Reported(i)' \subseteq Reported(i) \cup jobQueue[s]
         /\ left'[i] > 0 => jobQueue[s] \subseteq Reported(i)'
<1>1. PICK sent \in Sent(left[i], jobQueue[s]) :
        /\ answer' = [answer EXCEPT ![i] = [j \in Jobs |-> @[j] + IF j \in sent THEN 1 ELSE 0]]
        /\ left' = [left EXCEPT ![i] = @ - Cardinality(sent)]
  BY DEF Report
<1>2. left \in [Inspectors -> Int] /\ answer \in [Inspectors -> [Jobs -> Nat]]
      /\ jobQueue[s] \subseteq Jobs
  BY DEF TypeOK
<1>3. /\ sent \subseteq jobQueue[s] /\ Cardinality(sent) \in Nat
      /\ left[i] - Cardinality(sent) > 0 => sent = jobQueue[s]
  BY <1>2, SentSound
<1>4. left' \in [Inspectors -> Int] /\ left'[i] = left[i] - Cardinality(sent)
  BY <1>1, <1>2, <1>3
<1>5. /\ answer' \in [Inspectors -> [Jobs -> Nat]]
      /\ \A j \in Jobs : answer'[i][j] = answer[i][j] + IF j \in sent THEN 1 ELSE 0
  BY <1>1, <1>2
<1>6. \A k \in Inspectors \ {i} : left'[k] = left[k] /\ answer'[k] = answer[k]
  BY <1>1, <1>2
<1>7. \A j \in sent : answer[i][j] = 0
  BY <1>2, <1>3 DEF Reported
<1>8. \A j \in Jobs : answer'[i][j] <= 1
  BY <1>2, <1>5, <1>7
<1>9. Reported(i)' = Reported(i) \cup sent
  BY <1>2, <1>3, <1>5 DEF Reported
<1> QED
  BY <1>2, <1>3, <1>4, <1>5, <1>6, <1>8, <1>9

\* A step of one inspection leaves another one sound
LEMMA OtherKeeps ==
  ASSUME NEW k \in Inspectors, InspectionSound(k), UNCHANGED hubVars,
         pc'[k] = pc[k], left'[k] = left[k], visited'[k] = visited[k], owed'[k] = owed[k],
         answer'[k] = answer[k], steady'[k] = steady[k], Held(k)' = Held(k)
  PROVE  InspectionSound(k)'
<1>1. Reported(k)' = Reported(k) /\ Seen(k)' = Seen(k) /\ JobsOf(InspectWalk)' = JobsOf(InspectWalk)
  BY DEF Reported, Seen, Awaited, JobsOf, InspectWalk, hubVars
<1>2. RangeHolds(k)' /\ ReportedSeen(k)' /\ SteadyOwed(k)'
  BY <1>1 DEF InspectionSound, RangeHolds, ReportedSeen, SteadyOwed, hubVars
<1> QED
  BY <1>1, <1>2 DEF InspectionSound

\* What stays as it is when inspection i makes a step
OthersAlone(i) ==
  \A k \in Inspectors \ {i} :
    /\ pc'[k] = pc[k] /\ left'[k] = left[k] /\ visited'[k] = visited[k] /\ owed'[k] = owed[k]
    /\ answer'[k] = answer[k] /\ steady'[k] = steady[k] /\ Held(k)' = Held(k)

\* Every job has one spoke, and a spoke of the map is not the past spoke
LEMMA WalkFacts ==
  ASSUME TypeOK, HubSound
  PROVE  /\ PastSpoke \in AllSpokes /\ \A i \in Inspectors : PastSpoke \notin visited[i]
         /\ \A r, s \in AllSpokes, j \in Jobs : j \in jobQueue[r] /\ j \in jobQueue[s] => r = s
         /\ \A s \in AllSpokes : jobQueue[s] \subseteq accepted
BY ConstantsAssumption DEF TypeOK, HubSound, AllSpokes

\* An inspection starts with nothing reported and nothing owed
LEMMA StartKeeps ==
  ASSUME TypeOK, HubSound, NEW i \in Inspectors, InspectionSound(i), InspectStart(i)
  PROVE  TypeOK' /\ InspectionSound(i)' /\ OthersAlone(i) /\ UNCHANGED hubVars
<1>1. PICK n \in Limits :
        left' = [left EXCEPT ![i] = n] /\ limit' = [limit EXCEPT ![i] = n]
  BY DEF InspectStart
<1>2. /\ pc[i] \in {"idle", "done"} /\ pc' = [pc EXCEPT ![i] = "past"]
      /\ visited' = [visited EXCEPT ![i] = {}]
      /\ answer' = [answer EXCEPT ![i] = [j \in Jobs |-> 0]]
      /\ steady' = [steady EXCEPT ![i] = JobsOf(InspectWalk)]
      /\ UNCHANGED <<hubVars, spokeLock, owed, crashed>>
  BY DEF InspectStart
<1>3. n \in Int /\ JobsOf(InspectWalk) \in SUBSET Jobs
  BY ConstantsAssumption DEF JobsOf
<1>4. TypeOK'
  <2>1. /\ pc' \in [Inspectors -> {"idle", "past", "range", "lock", "done"}]
        /\ left' \in [Inspectors -> Int] /\ limit' \in [Inspectors -> Int]
        /\ visited' \in [Inspectors -> SUBSET Spokes]
        /\ answer' \in [Inspectors -> [Jobs -> Nat]]
        /\ steady' \in [Inspectors -> SUBSET Jobs]
    BY <1>1, <1>2, <1>3 DEF TypeOK
  <2>2. \A s \in AllSpokes, k \in Inspectors :
          spokeLock'[s] = k => s \in visited'[k] /\ pc'[k] \in {"range", "lock"}
    BY <1>2 DEF TypeOK
  <2> QED
    BY <1>2, <2>1, <2>2 DEF TypeOK, hubVars
<1>5. OthersAlone(i)
  BY <1>1, <1>2 DEF OthersAlone, TypeOK, Held
<1>6. /\ pc'[i] = "past" /\ visited'[i] = {} /\ \A j \in Jobs : answer'[i][j] = 0
      /\ steady'[i] = JobsOf(InspectWalk)
  BY <1>2 DEF TypeOK
<1>7. Reported(i)' = {} /\ JobsOf(InspectWalk)' = JobsOf(InspectWalk)
  BY <1>2, <1>6 DEF Reported, JobsOf, InspectWalk, hubVars
<1>8. InspectionSound(i)'
  BY <1>6, <1>7 DEF InspectionSound, RangeHolds, ReportedSeen, SteadyOwed
<1> QED
  BY <1>2, <1>4, <1>5, <1>8

\* The past spoke comes first, so that what it holds has not been reported
LEMMA PastKeeps ==
  ASSUME TypeOK, HubSound, NEW i \in Inspectors, InspectionSound(i), InspectPast(i),
         UNCHANGED crashed
  PROVE  TypeOK' /\ InspectionSound(i)' /\ OthersAlone(i) /\ UNCHANGED hubVars
<1>1. /\ pc[i] = "past" /\ Report(i, PastSpoke)
      /\ pc' = [pc EXCEPT ![i] = IF left'[i] <= 0 THEN "done" ELSE "range"]
      /\ owed' = [owed EXCEPT ![i] = spokeMap]
      /\ UNCHANGED <<hubVars, spokeLock, visited, limit, steady>>
  BY DEF InspectPast
<1>2. visited[i] = {} /\ Reported(i) = {} /\ \A j \in Jobs : answer[i][j] <= 1
  BY <1>1 DEF InspectionSound, RangeHolds
<1>3. PastSpoke \in AllSpokes /\ \A j \in jobQueue[PastSpoke] : j \notin Reported(i)
  BY <1>2 DEF AllSpokes
<1>4. /\ left' \in [Inspectors -> Int] /\ answer' \in [Inspectors -> [Jobs -> Nat]]
      /\ \A k \in Inspectors \ {i} : left'[k] = left[k] /\ answer'[k] = answer[k]
      /\ \A j \in Jobs : answer'[i][j] <= 1
      /\ Reported(i)' \subseteq jobQueue[PastSpoke]
      /\ left'[i] > 0 => jobQueue[PastSpoke] \subseteq Reported(i)'
  BY <1>1, <1>2, <1>3, ReportSound
<1>5. /\ pc'[i] = (IF left'[i] <= 0 THEN "done" ELSE "range") /\ owed'[i] = spokeMap
      /\ pc' \in [Inspectors -> {"idle", "past", "range", "lock", "done"}]
      /\ owed' \in [Inspectors -> SUBSET Spokes]
  BY <1>1 DEF TypeOK
<1>6. TypeOK'
  <2>1. \A s \in AllSpokes, k \in Inspectors :
          spokeLock'[s] = k => s \in visited'[k] /\ pc'[k] \in {"range", "lock"}
    BY <1>1, <1>2 DEF TypeOK
  <2> QED
    BY <1>1, <1>4, <1>5, <2>1 DEF TypeOK, hubVars
<1>7. OthersAlone(i)
  BY <1>1, <1>4 DEF OthersAlone, TypeOK, Held
<1>8. Seen(i)' = {PastSpoke}
  BY <1>1, <1>2 DEF Seen
<1>9. RangeHolds(i)'
  BY <1>1, <1>2, <1>5 DEF RangeHolds
<1>10. ReportedSeen(i)'
  BY <1>1, <1>3, <1>4, <1>8, WalkFacts DEF ReportedSeen, hubVars
<1>11. SteadyOwed(i)'
  <2>1. steady'[i] \subseteq JobsOf(InspectWalk) /\ JobsOf(InspectWalk)' = JobsOf(InspectWalk)
    BY <1>1 DEF InspectionSound, SteadyOwed, JobsOf, InspectWalk, hubVars
  <2>2. ASSUME left'[i] > 0, NEW j \in steady'[i] \ Reported(i)'
        PROVE  \E s \in owed'[i] \ Seen(i)' : j \in jobQueue'[s]
    <3>1. PICK s \in InspectWalk : j \in jobQueue[s]
      BY <2>1 DEF JobsOf
    <3>2. s # PastSpoke
      BY <1>4, <2>2, <3>1
    <3> QED
      BY <1>1, <1>5, <1>8, <3>1, <3>2 DEF InspectWalk, hubVars
  <2> QED
    BY <2>1, <2>2 DEF SteadyOwed
<1>12. pc'[i] = "done" => ~(left'[i] > 0)
  BY <1>4, <1>5
<1> QED
  BY <1>1, <1>4, <1>6, <1>7, <1>9, <1>10, <1>11, <1>12 DEF InspectionSound

\* A spoke that the range produces has not been produced before
LEMMA RangeNextKeeps ==
  ASSUME TypeOK, HubSound, NEW i \in Inspectors, InspectionSound(i), RangeNext(i),
         UNCHANGED crashed
  PROVE  TypeOK' /\ InspectionSound(i)' /\ OthersAlone(i) /\ UNCHANGED hubVars
<1>1. /\ pc[i] = "range" /\ pc' = [pc EXCEPT ![i] = "lock"]
      /\ UNCHANGED <<hubVars, spokeLock, left, owed, limit, answer, steady>>
  BY DEF RangeNext
<1>2. PICK s \in spokeMap \ visited[i] : visited' = [visited EXCEPT ![i] = @ \cup {s}]
  BY DEF RangeNext, Unproduced
<1>3. s \in Spokes /\ s \in AllSpokes
  BY DEF TypeOK, AllSpokes
<1>4. /\ pc'[i] = "lock" /\ visited'[i] = visited[i] \cup {s}
      /\ \A k \in Inspectors \ {i} : pc'[k] = pc[k] /\ visited'[k] = visited[k]
      /\ pc' \in [Inspectors -> {"idle", "past", "range", "lock", "done"}]
      /\ visited' \in [Inspectors -> SUBSET Spokes]
  BY <1>1, <1>2, <1>3 DEF TypeOK
<1>5. TypeOK'
  <2>1. \A r \in AllSpokes, k \in Inspectors :
          spokeLock'[r] = k => r \in visited'[k] /\ pc'[k] \in {"range", "lock"}
    BY <1>1, <1>4 DEF TypeOK
  <2> QED
    BY <1>1, <1>4, <2>1 DEF TypeOK, hubVars
<1>6. OthersAlone(i)
  BY <1>1, <1>4 DEF OthersAlone, Held
<1>7. /\ Held(i)' = Held(i) /\ Reported(i)' = Reported(i)
      /\ JobsOf(InspectWalk)' = JobsOf(InspectWalk)
  BY <1>1 DEF Held, Reported, JobsOf, InspectWalk, hubVars
<1>8. visited[i] \subseteq Held(i) /\ s \notin Held(i)
  BY <1>1, <1>2 DEF InspectionSound, RangeHolds, Held, TypeOK
<1>9. RangeHolds(i)'
  BY <1>4, <1>7, <1>8 DEF RangeHolds
<1>10. Seen(i)' = Seen(i)
  BY <1>1, <1>2, <1>4, <1>7, <1>8 DEF Seen, Awaited
<1>11. ReportedSeen(i)' /\ SteadyOwed(i)'
  BY <1>1, <1>4, <1>7, <1>10 DEF InspectionSound, ReportedSeen, SteadyOwed, hubVars
<1> QED
  BY <1>1, <1>4, <1>5, <1>6, <1>9, <1>11 DEF InspectionSound

\* An inspection reports a spoke as it locks it; what the spoke holds has not been
\* reported, since the spoke is not one that is done with
LEMMA LockKeeps ==
  ASSUME TypeOK, HubSound, NEW i \in Inspectors, InspectionSound(i), LockSpoke(i),
         UNCHANGED crashed
  PROVE  TypeOK' /\ InspectionSound(i)' /\ OthersAlone(i) /\ UNCHANGED hubVars
<1>1. /\ pc[i] = "lock" /\ pc' = [pc EXCEPT ![i] = "range"]
      /\ UNCHANGED <<hubVars, visited, owed, limit, steady>>
  BY DEF LockSpoke
<1>2. PICK s \in visited[i] \ Held(i) :
        /\ spokeLock[s] = Free /\ Report(i, s)
        /\ spokeLock' = [spokeLock EXCEPT ![s] = i]
  BY DEF LockSpoke, Unlocked
<1>3. s \in AllSpokes /\ s # PastSpoke
  BY <1>2, WalkFacts DEF TypeOK, AllSpokes
<1>4. visited[i] \ Held(i) = {s}
  BY <1>1, <1>2 DEF InspectionSound, RangeHolds
<1>5. Seen(i) = {PastSpoke} \cup (visited[i] \ {s})
  BY <1>1, <1>4 DEF Seen, Awaited
<1>6. \A j \in jobQueue[s] : j \notin Reported(i)
  BY <1>3, <1>5 DEF InspectionSound, ReportedSeen, TypeOK
<1>7. \A j \in Jobs : answer[i][j] <= 1
  BY DEF InspectionSound
<1>8. /\ left' \in [Inspectors -> Int] /\ answer' \in [Inspectors -> [Jobs -> Nat]]
      /\ \A k \in Inspectors \ {i} : left'[k] = left[k] /\ answer'[k] = answer[k]
      /\ left'[i] <= left[i]
      /\ \A j \in Jobs : answer'[i][j] <= 1
      /\ Reported(i) \subseteq Reported(i)'
      /\ Reported(i)' \subseteq Reported(i) \cup jobQueue[s]
      /\ left'[i] > 0 => jobQueue[s] \subseteq Reported(i)'
  BY <1>2, <1>3, <1>6, <1>7, ReportSound
<1>9. /\ pc'[i] = "range" /\ \A k \in Inspectors \ {i} : pc'[k] = pc[k]
      /\ pc' \in [Inspectors -> {"idle", "past", "range", "lock", "done"}]
  BY <1>1 DEF TypeOK
<1>10. /\ spokeLock' \in [AllSpokes -> Inspectors \cup {Free}] /\ spokeLock'[s] = i
       /\ \A r \in AllSpokes \ {s} : spokeLock'[r] = spokeLock[r]
  BY <1>2, <1>3 DEF TypeOK
<1>11. TypeOK'
  <2>1. \A r \in AllSpokes, k \in Inspectors :
          spokeLock'[r] = k => r \in visited'[k] /\ pc'[k] \in {"range", "lock"}
    BY <1>1, <1>2, <1>9, <1>10 DEF TypeOK
  <2> QED
    BY <1>1, <1>8, <1>9, <1>10, <2>1 DEF TypeOK, hubVars
<1>12. Held(i)' = Held(i) \cup {s} /\ \A k \in Inspectors \ {i} : Held(k)' = Held(k)
  BY <1>2, <1>3, <1>10, ConstantsAssumption DEF Held
<1>13. OthersAlone(i)
  BY <1>1, <1>8, <1>9, <1>12 DEF OthersAlone
<1>14. RangeHolds(i)'
  BY <1>1, <1>4, <1>9, <1>12 DEF RangeHolds
<1>15. Seen(i)' = {PastSpoke} \cup visited[i]
  BY <1>1, <1>9 DEF Seen, Awaited
<1>16. ReportedSeen(i)'
  <2> SUFFICES ASSUME NEW j \in Jobs, NEW r \in AllSpokes, j \in Reported(i)'
               PROVE  j \in accepted /\ (j \in jobQueue[r] => r \in Seen(i)')
    BY <1>1 DEF ReportedSeen, hubVars
  <2>1. CASE j \in Reported(i)
    BY <1>5, <1>15, <2>1 DEF InspectionSound, ReportedSeen
  <2>2. CASE j \in jobQueue[s]
    BY <1>2, <1>3, <1>15, <2>2, WalkFacts
  <2> QED
    BY <1>8, <2>1, <2>2
<1>17. SteadyOwed(i)'
  <2>1. steady'[i] \subseteq JobsOf(InspectWalk)'
    BY <1>1 DEF InspectionSound, SteadyOwed, JobsOf, InspectWalk, hubVars
  <2>2. ASSUME left'[i] > 0, NEW j \in steady'[i] \ Reported(i)'
        PROVE  \E r \in owed'[i] \ Seen(i)' : j \in jobQueue'[r]
    <3>1. left[i] > 0 /\ j \in steady[i] \ Reported(i)
      <4>1. left[i] \in Int /\ left'[i] \in Int
        BY <1>8 DEF TypeOK
      <4>2. j \in steady[i] \ Reported(i)
        BY <1>1, <1>8, <2>2
      <4> QED
        BY <1>8, <2>2, <4>1, <4>2
    <3>2. PICK r \in owed[i] \ Seen(i) : j \in jobQueue[r]
      BY <1>1, <3>1 DEF InspectionSound, SteadyOwed
    <3>3. r # s
      BY <1>8, <2>2, <3>2
    <3> QED
      BY <1>1, <1>5, <1>15, <3>2, <3>3 DEF hubVars
  <2> QED
    BY <2>1, <2>2 DEF SteadyOwed
<1> QED
  BY <1>1, <1>8, <1>9, <1>11, <1>13, <1>14, <1>16, <1>17 DEF InspectionSound

\* A range that ends has met every spoke that it owed
LEMMA RangeDoneKeeps ==
  ASSUME TypeOK, HubSound, NEW i \in Inspectors, InspectionSound(i), RangeDone(i),
         UNCHANGED crashed
  PROVE  TypeOK' /\ InspectionSound(i)' /\ OthersAlone(i) /\ UNCHANGED hubVars
<1>1. /\ pc[i] = "range" /\ owed[i] \subseteq visited[i]
      /\ pc' = [pc EXCEPT ![i] = "done"]
      /\ spokeLock' = [s \in AllSpokes |-> IF s \in Held(i) THEN Free ELSE spokeLock[s]]
      /\ UNCHANGED <<hubVars, left, visited, owed, limit, answer, steady>>
  BY DEF RangeDone
<1>2. /\ pc'[i] = "done" /\ \A k \in Inspectors \ {i} : pc'[k] = pc[k]
      /\ pc' \in [Inspectors -> {"idle", "past", "range", "lock", "done"}]
  BY <1>1 DEF TypeOK
<1>3. /\ spokeLock' \in [AllSpokes -> Inspectors \cup {Free}]
      /\ \A s \in AllSpokes : spokeLock'[s] # i
      /\ \A s \in AllSpokes, k \in Inspectors \ {i} : (spokeLock'[s] = k) <=> (spokeLock[s] = k)
  BY <1>1, ConstantsAssumption DEF TypeOK, Held
<1>4. TypeOK'
  <2>1. \A s \in AllSpokes, k \in Inspectors :
          spokeLock'[s] = k => s \in visited'[k] /\ pc'[k] \in {"range", "lock"}
    BY <1>1, <1>2, <1>3 DEF TypeOK
  <2> QED
    BY <1>1, <1>2, <1>3, <2>1 DEF TypeOK, hubVars
<1>5. OthersAlone(i)
  BY <1>1, <1>2, <1>3 DEF OthersAlone, Held
<1>6. /\ Reported(i)' = Reported(i) /\ JobsOf(InspectWalk)' = JobsOf(InspectWalk)
      /\ Seen(i) = {PastSpoke} \cup visited[i] /\ Seen(i)' = Seen(i)
  BY <1>1, <1>2 DEF Reported, Seen, Awaited, JobsOf, InspectWalk, hubVars
<1>7. RangeHolds(i)' /\ ReportedSeen(i)' /\ SteadyOwed(i)'
  BY <1>1, <1>2, <1>6 DEF InspectionSound, RangeHolds, ReportedSeen, SteadyOwed, hubVars
<1>8. left[i] > 0 => steady[i] \subseteq Reported(i)
  BY <1>1, <1>6 DEF InspectionSound, SteadyOwed
<1> QED
  BY <1>1, <1>2, <1>4, <1>5, <1>6, <1>7, <1>8 DEF InspectionSound

-----------------------------------------------------------------------------
(* The invariant.                                                          *)

\* It holds when the server has started
LEMMA InvInit == Init => InspectInv
<1> SUFFICES ASSUME Init PROVE InspectInv
  OBVIOUS
<1>1. TypeOK
  <2>1. /\ op \in OpType /\ accepted \in SUBSET Jobs
        /\ jobQueue \in [AllSpokes -> SUBSET Jobs] /\ spokeMap \in SUBSET Spokes
        /\ dropped \in SUBSET Spokes /\ crashed \in BOOLEAN
    BY NoOpType DEF Init
  <2>2. /\ pc \in [Inspectors -> {"idle", "past", "range", "lock", "done"}]
        /\ left \in [Inspectors -> Int] /\ limit \in [Inspectors -> Int]
        /\ visited \in [Inspectors -> SUBSET Spokes] /\ owed \in [Inspectors -> SUBSET Spokes]
        /\ answer \in [Inspectors -> [Jobs -> Nat]]
        /\ steady \in [Inspectors -> SUBSET Jobs]
    BY DEF Init
  <2>3. /\ spokeLock \in [AllSpokes -> Inspectors \cup {Free}]
        /\ \A s \in AllSpokes, i \in Inspectors : spokeLock[s] # i
    BY ConstantsAssumption DEF Init
  <2> QED
    BY <2>1, <2>2, <2>3 DEF TypeOK, OpType
<1>2. HubSound
  BY DEF Init, HubSound, NoOp
<1>3. ASSUME NEW i \in Inspectors PROVE InspectionSound(i)
  <2>1. Reported(i) = {} /\ pc[i] = "idle" /\ visited[i] = {} /\ steady[i] = {}
        /\ \A j \in Jobs : answer[i][j] = 0
    BY <1>3 DEF Init, Reported
  <2> QED
    BY <2>1 DEF InspectionSound, RangeHolds, ReportedSeen, SteadyOwed
<1> QED
  BY <1>1, <1>2, <1>3 DEF InspectInv

\* A step of one inspection keeps it
LEMMA InspectorKeeps ==
  ASSUME InspectInv, NEW i \in Inspectors, InspectStart(i) \/ InspectStep(i)
  PROVE  InspectInv'
<1>1. TypeOK' /\ InspectionSound(i)' /\ OthersAlone(i) /\ UNCHANGED hubVars
  BY StartKeeps, PastKeeps, RangeNextKeeps, LockKeeps, RangeDoneKeeps DEF InspectInv, InspectStep
<1>2. HubSound'
  BY <1>1 DEF InspectInv, HubSound, hubVars
<1>3. ASSUME NEW k \in Inspectors \ {i} PROVE InspectionSound(k)'
  BY <1>1, <1>3, OtherKeeps DEF InspectInv, OthersAlone
<1> QED
  BY <1>1, <1>2, <1>3 DEF InspectInv

\* A step of the hub keeps it
LEMMA HubKeeps ==
  ASSUME InspectInv, Begins \/ HubStep
  PROVE  InspectInv'
<1>1. op' \in OpType /\ HubSound' /\ Effect /\ UNCHANGED crashed
  BY BeginSound, StepSound DEF InspectInv
<1>2. TypeOK'
  BY <1>1, EffectType DEF InspectInv
<1>3. ASSUME NEW i \in Inspectors PROVE InspectionSound(i)'
  BY <1>1, <1>3, EffectKeeps DEF InspectInv
<1> QED
  BY <1>1, <1>2, <1>3 DEF InspectInv

\* Every step keeps it: a fatal error and a step that changes nothing change no
\* part of it but crashed
LEMMA InvNext == InspectInv /\ [Next]_vars => InspectInv'
<1> SUFFICES ASSUME InspectInv, [Next]_vars PROVE InspectInv'
  OBVIOUS
<1>1. CASE Begins \/ HubStep
  BY <1>1, HubKeeps
<1>2. CASE \E i \in Inspectors : InspectStart(i) \/ InspectStep(i)
  BY <1>2, InspectorKeeps
<1>3. CASE (\E i \in Inspectors : RaceFatal(i)) \/ UNCHANGED vars
  <2>1. UNCHANGED <<hubVars, inspectVars>> /\ crashed' \in BOOLEAN
    BY <1>3 DEF RaceFatal, vars, InspectInv, TypeOK
  <2>2. TypeOK' /\ HubSound'
    BY <2>1 DEF InspectInv, TypeOK, HubSound, hubVars, inspectVars
  <2>3. ASSUME NEW i \in Inspectors PROVE InspectionSound(i)'
    BY <2>1, <2>3, OtherKeeps DEF InspectInv, inspectVars, Held
  <2> QED
    BY <2>2, <2>3 DEF InspectInv
<1> QED
  BY <1>1, <1>2, <1>3 DEF Next, Begins

\* It holds always
THEOREM Invariance == Spec => []InspectInv
BY InvInit, InvNext, PTL DEF Spec

\* Every reachable state is well typed, and a lock is kept only by an inspection
\* under way, of a spoke that it has met (hub.go:533-548)
THEOREM TypeCorrect == Spec => []TypeOK
<1>1. InspectInv => TypeOK
  BY DEF InspectInv
<1> QED
  BY <1>1, Invariance, PTL

\* Beside adds, cancels, deliveries and dropped spokes, no inspection reports a job
\* twice (hub.go:510-551)
THEOREM NothingReportedTwice == Spec => []ReportedOnce
<1>1. InspectInv => ReportedOnce
  BY DEF InspectInv, InspectionSound, ReportedOnce
<1> QED
  BY <1>1, Invariance, PTL

\* An inspection that ends below its limit has reported every job that was pending
\* from its start to its end (hub.go:510-551)
THEOREM NothingSteadyMissed == Spec => []NothingMissed
<1>1. InspectInv => NothingMissed
  BY DEF InspectInv, InspectionSound, NothingMissed
<1> QED
  BY <1>1, Invariance, PTL

-----------------------------------------------------------------------------
(* How far an answer exceeds the limit, on top of the invariant.           *)

\* What is sent of a spoke at least when it has that much, and at most
Most(n) == IF n < 1 THEN 1 ELSE n

\* The spokes of the map that inspection i has reported
Covered(i) == visited[i] \ Awaited(i)

\* What has been reported is what n has counted down; it exceeds the limit only
\* after the first spoke, by one job for each
Overshoot(i) ==
  /\ Cardinality(Reported(i)) = limit[i] - left[i]
  /\ left[i] <= 0 =>
       Cardinality(Reported(i)) <=
         Most(limit[i]) + (IF Covered(i) = {} THEN 0 ELSE Cardinality(Covered(i)) - 1)
  /\ pc[i] \in {"range", "lock"} /\ left[i] <= 0 => Covered(i) # {}

OvershootInv == \A i \in Inspectors : Overshoot(i)

\* The sets that are counted are finite
LEMMA CountedFinite ==
  ASSUME TypeOK, NEW i \in Inspectors
  PROVE  /\ IsFiniteSet(Reported(i)) /\ Cardinality(Reported(i)) \in Nat
         /\ IsFiniteSet(visited[i]) /\ Cardinality(visited[i]) \in Nat
         /\ IsFiniteSet(Covered(i)) /\ Cardinality(Covered(i)) \in Nat
         /\ Cardinality(Covered(i)) <= Cardinality(visited[i])
         /\ Covered(i) # {} => Cardinality(Covered(i)) >= 1
         /\ left[i] \in Int /\ limit[i] \in Int
<1>1. Reported(i) \subseteq Jobs /\ visited[i] \subseteq Spokes /\ Covered(i) \subseteq visited[i]
  BY DEF Reported, Covered, TypeOK
<1>2. IsFiniteSet(Reported(i)) /\ IsFiniteSet(visited[i])
  BY <1>1, FS_Subset, ConstantsAssumption
<1>3. IsFiniteSet(Covered(i)) /\ Cardinality(Covered(i)) <= Cardinality(visited[i])
  BY <1>1, <1>2, FS_Subset
<1>4. /\ Cardinality(Reported(i)) \in Nat /\ Cardinality(visited[i]) \in Nat
      /\ Cardinality(Covered(i)) \in Nat
  BY <1>2, <1>3, FS_CardinalityType
<1>5. Covered(i) # {} => Cardinality(Covered(i)) >= 1
  BY <1>3, <1>4, FS_EmptySet
<1> QED
  BY <1>2, <1>3, <1>4, <1>5 DEF TypeOK

\* A report of jobs that have not been reported before adds as many as it counts
LEMMA ReportCounts ==
  ASSUME TypeOK, NEW i \in Inspectors, NEW s \in AllSpokes, Report(i, s),
         \A j \in jobQueue[s] : j \notin Reported(i)
  PROVE  \E c \in Nat :
           /\ c <= Most(left[i]) /\ left'[i] = left[i] - c
           /\ Cardinality(Reported(i)') = Cardinality(Reported(i)) + c
<1>1. PICK sent \in Sent(left[i], jobQueue[s]) :
        /\ answer' = [answer EXCEPT ![i] = [j \in Jobs |-> @[j] + IF j \in sent THEN 1 ELSE 0]]
        /\ left' = [left EXCEPT ![i] = @ - Cardinality(sent)]
  BY DEF Report
<1>2. left \in [Inspectors -> Int] /\ answer \in [Inspectors -> [Jobs -> Nat]]
      /\ jobQueue[s] \subseteq Jobs
  BY DEF TypeOK
<1>3. sent \subseteq jobQueue[s] /\ Cardinality(sent) \in Nat
  BY <1>2, SentSound
<1>4. Cardinality(sent) <= Most(left[i])
  BY <1>2, <1>3 DEF Sent, Most
<1>5. \A j \in Jobs : answer'[i][j] = answer[i][j] + IF j \in sent THEN 1 ELSE 0
  BY <1>1, <1>2
<1>6. Reported(i)' = Reported(i) \cup sent
  BY <1>2, <1>3, <1>5 DEF Reported
<1>7. Reported(i) \cap sent = {}
  BY <1>3
<1>8. IsFiniteSet(Reported(i)) /\ IsFiniteSet(sent) /\ Cardinality(Reported(i)) \in Nat
  BY <1>2, <1>3, CountedFinite, FS_Subset, ConstantsAssumption
<1>9. Cardinality(Reported(i) \cup sent) =
        Cardinality(Reported(i)) + Cardinality(sent) - Cardinality({})
  BY <1>7, <1>8, FS_Union
<1>10. Cardinality(Reported(i)') = Cardinality(Reported(i)) + Cardinality(sent)
  BY <1>3, <1>6, <1>8, <1>9, FS_EmptySet
<1> QED
  BY <1>1, <1>2, <1>3, <1>4, <1>10

\* A step that changes nothing of inspection i keeps its count
LEMMA OvershootKept ==
  ASSUME NEW i \in Inspectors, Overshoot(i),
         pc'[i] = pc[i], left'[i] = left[i], limit'[i] = limit[i], visited'[i] = visited[i],
         answer'[i] = answer[i], Held(i)' = Held(i)
  PROVE  Overshoot(i)'
<1>1. Reported(i)' = Reported(i) /\ Covered(i)' = Covered(i)
  BY DEF Reported, Covered, Awaited
<1> QED
  BY <1>1 DEF Overshoot

\* An inspection starts with nothing reported
LEMMA OvershootStart ==
  ASSUME TypeOK, NEW i \in Inspectors, InspectStart(i)
  PROVE  Overshoot(i)' /\ \A k \in Inspectors \ {i} : limit'[k] = limit[k]
<1>1. PICK n \in Limits :
        left' = [left EXCEPT ![i] = n] /\ limit' = [limit EXCEPT ![i] = n]
  BY DEF InspectStart
<1>2. /\ n \in Int /\ left'[i] = n /\ limit'[i] = n /\ pc'[i] = "past" /\ visited'[i] = {}
      /\ \A j \in Jobs : answer'[i][j] = 0
      /\ \A k \in Inspectors \ {i} : limit'[k] = limit[k]
  BY <1>1, ConstantsAssumption DEF InspectStart, TypeOK
<1>3. Reported(i)' = {} /\ Covered(i)' = {}
  BY <1>2 DEF Reported, Covered
<1>4. Cardinality(Reported(i)') = 0
  BY <1>3, FS_EmptySet
<1> QED
  BY <1>2, <1>3, <1>4 DEF Overshoot, Most

\* Of the past spoke no more is reported than the limit allows, or one job
LEMMA OvershootPast ==
  ASSUME TypeOK, NEW i \in Inspectors, InspectionSound(i), Overshoot(i), InspectPast(i)
  PROVE  Overshoot(i)' /\ UNCHANGED limit
<1>1. /\ pc[i] = "past" /\ Report(i, PastSpoke)
      /\ pc'[i] = (IF left'[i] <= 0 THEN "done" ELSE "range")
      /\ UNCHANGED <<visited, limit>>
  BY DEF InspectPast, TypeOK
<1>2. visited[i] = {} /\ Reported(i) = {}
  BY <1>1 DEF InspectionSound, RangeHolds
<1>3. PICK c \in Nat :
        /\ c <= Most(left[i]) /\ left'[i] = left[i] - c
        /\ Cardinality(Reported(i)') = Cardinality(Reported(i)) + c
  BY <1>1, <1>2, ReportCounts DEF AllSpokes
<1>4. Cardinality(Reported(i)) = 0 /\ left[i] = limit[i] /\ left[i] \in Int
  BY <1>2, FS_EmptySet, CountedFinite DEF Overshoot
<1>5. Covered(i)' = {}
  BY <1>1, <1>2 DEF Covered
<1>6. left'[i] <= 0 => pc'[i] = "done"
  BY <1>1
<1> QED
  BY <1>1, <1>3, <1>4, <1>5, <1>6 DEF Overshoot, Most

\* A spoke that the range produces counts once it has been locked
LEMMA OvershootRangeNext ==
  ASSUME TypeOK, NEW i \in Inspectors, InspectionSound(i), Overshoot(i), RangeNext(i)
  PROVE  Overshoot(i)' /\ UNCHANGED limit
<1>1. /\ pc[i] = "range" /\ pc'[i] = "lock"
      /\ UNCHANGED <<spokeLock, left, limit, answer>>
  BY DEF RangeNext, TypeOK
<1>2. PICK s \in spokeMap \ visited[i] : visited'[i] = visited[i] \cup {s}
  BY DEF RangeNext, Unproduced, TypeOK
<1>3. Held(i)' = Held(i) /\ Reported(i)' = Reported(i)
  BY <1>1 DEF Held, Reported
<1>4. visited[i] \subseteq Held(i) /\ s \notin Held(i)
  BY <1>1, <1>2 DEF InspectionSound, RangeHolds, Held, TypeOK
<1>5. Covered(i)' = Covered(i)
  BY <1>1, <1>2, <1>3, <1>4 DEF Covered, Awaited
<1> QED
  BY <1>1, <1>3, <1>5 DEF Overshoot

\* A further spoke adds what is left of the limit, or one job
LEMMA OvershootLock ==
  ASSUME TypeOK, HubSound, NEW i \in Inspectors, InspectionSound(i), Overshoot(i),
         LockSpoke(i), TypeOK'
  PROVE  Overshoot(i)' /\ UNCHANGED limit
<1>1. pc[i] = "lock" /\ pc'[i] = "range" /\ UNCHANGED <<visited, limit>>
  BY DEF LockSpoke, TypeOK
<1>2. PICK s \in visited[i] \ Held(i) : Report(i, s)
  BY DEF LockSpoke
<1>3. s \in AllSpokes /\ s # PastSpoke /\ s \in visited[i]
  BY <1>2, WalkFacts DEF TypeOK, AllSpokes
<1>4. visited[i] \ Held(i) = {s}
  BY <1>1, <1>2 DEF InspectionSound, RangeHolds
<1>5. Covered(i) = visited[i] \ {s} /\ Covered(i)' = Covered(i) \cup {s} /\ s \notin Covered(i)
  BY <1>1, <1>3, <1>4 DEF Covered, Awaited
<1>6. \A j \in jobQueue[s] : j \notin Reported(i)
  BY <1>3, <1>5 DEF InspectionSound, ReportedSeen, TypeOK, Seen, Covered
<1>7. PICK c \in Nat :
        /\ c <= Most(left[i]) /\ left'[i] = left[i] - c
        /\ Cardinality(Reported(i)') = Cardinality(Reported(i)) + c
  BY <1>2, <1>3, <1>6, ReportCounts
<1>8. /\ Cardinality(Reported(i)) \in Nat /\ left[i] \in Int /\ limit[i] \in Int
      /\ IsFiniteSet(Covered(i)) /\ Cardinality(Covered(i)) \in Nat
      /\ Covered(i) # {} => Cardinality(Covered(i)) >= 1
  BY CountedFinite
<1>9. Cardinality(Covered(i)') = Cardinality(Covered(i)) + 1 /\ Covered(i)' # {}
  BY <1>5, <1>8, FS_AddElement
<1>10. Cardinality(Reported(i)') = limit'[i] - left'[i]
  BY <1>1, <1>7, <1>8 DEF Overshoot
<1>11. Cardinality(Reported(i)') <= Most(limit'[i]) + (Cardinality(Covered(i)') - 1)
  <2>1. CASE left[i] > 0
    BY <1>1, <1>7, <1>8, <1>9, <1>10, <2>1 DEF Most
  <2>2. CASE ~(left[i] > 0)
    <3>1. /\ Covered(i) # {} /\ c <= 1
          /\ Cardinality(Reported(i)) <= Most(limit[i]) + (Cardinality(Covered(i)) - 1)
      BY <1>1, <1>7, <1>8, <2>2 DEF Overshoot, Most
    <3> QED
      BY <1>1, <1>7, <1>8, <1>9, <3>1 DEF Most
  <2> QED
    BY <2>1, <2>2
<1> QED
  BY <1>1, <1>9, <1>10, <1>11 DEF Overshoot

\* At the end of a range every spoke that it met has been reported
LEMMA OvershootRangeDone ==
  ASSUME TypeOK, NEW i \in Inspectors, Overshoot(i), RangeDone(i)
  PROVE  Overshoot(i)' /\ UNCHANGED limit
<1>1. pc[i] = "range" /\ pc'[i] = "done" /\ UNCHANGED <<left, visited, limit, answer>>
  BY DEF RangeDone, TypeOK
<1>2. Reported(i)' = Reported(i) /\ Covered(i)' = Covered(i)
  BY <1>1 DEF Reported, Covered, Awaited
<1> QED
  BY <1>1, <1>2 DEF Overshoot

\* Nothing has been reported at the start
LEMMA OvershootInit == Init => OvershootInv
<1> SUFFICES ASSUME Init, NEW i \in Inspectors PROVE Overshoot(i)
  BY DEF OvershootInv
<1>1. Reported(i) = {} /\ left[i] = 0 /\ limit[i] = 0 /\ pc[i] = "idle" /\ Covered(i) = {}
  BY DEF Init, Reported, Covered
<1> QED
  BY <1>1, FS_EmptySet DEF Overshoot, Most

\* Every step keeps the count
LEMMA OvershootNext == InspectInv /\ InspectInv' /\ OvershootInv /\ [Next]_vars => OvershootInv'
<1> SUFFICES ASSUME InspectInv, InspectInv', OvershootInv, [Next]_vars PROVE OvershootInv'
  OBVIOUS
<1>1. CASE Begins \/ HubStep
  <2>1. Effect
    BY <1>1, BeginSound, StepSound DEF InspectInv
  <2>2. ASSUME NEW i \in Inspectors PROVE Overshoot(i)'
    BY <2>1, <2>2, OvershootKept DEF OvershootInv, Effect, Inspecting, Held
  <2> QED
    BY <2>2 DEF OvershootInv
<1>2. ASSUME NEW i \in Inspectors, InspectStart(i) \/ InspectStep(i)
      PROVE  OvershootInv'
  <2>1. OthersAlone(i)
    BY <1>2, StartKeeps, PastKeeps, RangeNextKeeps, LockKeeps, RangeDoneKeeps
       DEF InspectInv, InspectStep
  <2>2. Overshoot(i)' /\ \A k \in Inspectors \ {i} : limit'[k] = limit[k]
    BY <1>2, OvershootStart, OvershootPast, OvershootRangeNext, OvershootLock, OvershootRangeDone
       DEF InspectInv, OvershootInv, InspectStep
  <2>3. ASSUME NEW k \in Inspectors \ {i} PROVE Overshoot(k)'
    BY <2>1, <2>2, <2>3, OvershootKept DEF OvershootInv, OthersAlone
  <2> QED
    BY <2>2, <2>3 DEF OvershootInv
<1>3. CASE (\E i \in Inspectors : RaceFatal(i)) \/ UNCHANGED vars
  <2>1. UNCHANGED inspectVars
    BY <1>3 DEF RaceFatal, vars
  <2>2. ASSUME NEW i \in Inspectors PROVE Overshoot(i)'
    BY <2>1, <2>2, OvershootKept DEF OvershootInv, inspectVars, Held
  <2> QED
    BY <2>2 DEF OvershootInv
<1> QED
  BY <1>1, <1>2, <1>3 DEF Next, Begins

\* An answer exceeds the limit by at most one job for each spoke after the first
\* (hub.go:540-545: the break leaves the inner loop only)
THEOREM OvershootIsBounded == Spec => []OvershootBounded
<1>1. InspectInv /\ OvershootInv => OvershootBounded
  <2> SUFFICES ASSUME InspectInv, OvershootInv, NEW i \in Inspectors
               PROVE  Cardinality(Reported(i)) <=
                        Most(limit[i])
                        + (IF visited[i] = {} THEN 0 ELSE Cardinality(visited[i]) - 1)
    BY DEF OvershootBounded, Most
  <2>1. /\ Cardinality(Reported(i)) \in Nat /\ left[i] \in Int /\ limit[i] \in Int
        /\ Cardinality(visited[i]) \in Nat /\ Cardinality(Covered(i)) \in Nat
        /\ Cardinality(Covered(i)) <= Cardinality(visited[i])
        /\ IsFiniteSet(visited[i])
    BY CountedFinite DEF InspectInv
  <2>2. visited[i] # {} => Cardinality(visited[i]) >= 1
    BY <2>1, FS_EmptySet
  <2>3. visited[i] = {} => Covered(i) = {}
    BY DEF Covered
  <2> QED
    BY <2>1, <2>2, <2>3 DEF OvershootInv, Overshoot, Most
<1> QED
  BY <1>1, Invariance, OvershootInit, InvInit, InvNext, OvershootNext, PTL DEF Spec

-----------------------------------------------------------------------------
(* Beside the inspections, the hub implements SpokeMap.                    *)

\* A spoke that has been dropped is gone, and the add under way asks for none
MapSound ==
  /\ dropped \cap spokeMap = {}
  /\ op.at \in {"add", "register"} \/ (op.at = "search" /\ IsAdd) => op.spoke \notin dropped

\* The spokes that jobs can be found in
Findable == spokeMap \cup IF op.at = "register" THEN {op.spoke} ELSE {}

\* A step that does nothing to the hub does nothing to the map of spokes
LEMMA QuietMaps ==
  ASSUME MapSound, Quiet, op.at # "register", op'.at # "register",
         op'.at = "add" \/ (op'.at = "search" /\ IsAdd') => op'.spoke \notin dropped
  PROVE  MapSound' /\ UNCHANGED Map!vars
BY DEF MapSound, Quiet, Map!vars

\* So does the beginning of an operation
LEMMA BeginMaps ==
  ASSUME TypeOK, HubSound, MapSound, Begins
  PROVE  MapSound' /\ UNCHANGED Map!vars
<1>1. op.at = "none" /\ Quiet
  BY DEF Begins, AddJobLocked, CancelJobLocked, NextLocked, PersistLocked, Begin, NoOp, Quiet,
         inspectVars
<1>2. CASE \E j \in Jobs : AddJobLocked(j)
  <2>1. op'.at = "search" /\ op'.spoke \notin dropped
    BY <1>2 DEF AddJobLocked, Begin
  <2> QED
    BY <1>1, <2>1, QuietMaps
<1>3. CASE \E j \in Jobs : CancelJobLocked(j)
  <2>1. op'.at = "search" /\ ~IsAdd'
    BY <1>3 DEF CancelJobLocked, Begin, IsAdd
  <2> QED
    BY <1>1, <2>1, QuietMaps
<1>4. CASE NextLocked \/ PersistLocked
  <2>1. op'.at \in {"next", "persist"}
    BY <1>4 DEF NextLocked, PersistLocked, Begin
  <2> QED
    BY <1>1, <2>1, QuietMaps
<1> QED
  BY <1>2, <1>3, <1>4 DEF Begins

\* A job that leaves its spoke, whose operation ends
LEMMA RemoveMaps ==
  ASSUME TypeOK, MapSound, NEW s \in AllSpokes, NEW j \in Jobs, op.at # "register",
         RemoveFromSpoke(s, j), Return, UNCHANGED <<spokeMap, accepted, dropped>>
  PROVE  MapSound' /\ [Map!Next]_(Map!vars)
<1>1. op'.at = "none"
  BY DEF Return, NoOp
<1>2. MapSound' /\ Findable' = spokeMap /\ Findable = spokeMap
  BY <1>1 DEF MapSound, Findable
<1>3. CASE j \in jobQueue[s]
  <2>1. Map!Release(s, j)
    BY <1>3 DEF Map!Release, RemoveFromSpoke
  <2> DEFINE gone == {}
  <2>2. gone \in SUBSET Findable /\ Map!GiveUp(gone)
    BY <1>2 DEF Map!GiveUp, Findable, MapSound, TypeOK
  <2>3. s \in Map!AllSpokes
    BY DEF Map!AllSpokes, AllSpokes
  <2> QED
    BY <1>2, <2>1, <2>2, <2>3 DEF Map!Next, Findable
<1>4. CASE j \notin jobQueue[s]
  <2>1. jobQueue' = jobQueue
    BY <1>4 DEF RemoveFromSpoke, TypeOK
  <2> QED
    BY <1>2, <2>1 DEF Map!vars, Findable
<1> QED
  BY <1>3, <1>4

\* A poll goes on to the current spoke or ends
LEMMA PollAt ==
  ASSUME op \in OpType, PollCurrent
  PROVE  op'.at \in {"none", "current"}
<1>1. CASE Return
  BY <1>1 DEF Return, NoOp
<1>2. ASSUME NEW s, op' = [op EXCEPT !.at = "current", !.spoke = s] PROVE op'.at = "current"
  BY <1>2 DEF OpType
<1> QED
  BY <1>1, <1>2 DEF PollCurrent

\* Every step of an operation adds, removes or gives up as SpokeMap does, or does
\* nothing to it
LEMMA HubMaps ==
  ASSUME TypeOK, HubSound, MapSound, HubStep
  PROVE  MapSound' /\ [Map!Next]_(Map!vars)
<1>o. /\ op \in OpType /\ spokeMap \in SUBSET Spokes /\ dropped \in SUBSET Spokes
      /\ PastSpoke \notin Spokes /\ NoSpoke \notin AllSpokes
  BY ConstantsAssumption DEF TypeOK, OpType, AllSpokes
<1>1. CASE SearchSpoke
  <2>1. Quiet /\ op.at = "search"
    BY <1>1 DEF SearchSpoke, inspectVars, Quiet
  <2>2. PICK s \in op.todo :
          \/ op' = [op EXCEPT !.at = "cancel", !.spoke = s]
          \/ op' = [op EXCEPT !.todo = @ \ {s}]
          \/ op' = NoOp
    BY <1>1 DEF SearchSpoke, Return
  <2>3. op'.at \in {"cancel", "none"} \/ (op'.at = "search" /\ op'.spoke = op.spoke)
    <3>1. ASSUME op' = [op EXCEPT !.at = "cancel", !.spoke = s] PROVE op'.at = "cancel"
      BY <1>o, <3>1 DEF OpType
    <3>2. ASSUME op' = [op EXCEPT !.todo = @ \ {s}] PROVE op'.at = op.at /\ op'.spoke = op.spoke
      BY <1>o, <3>2 DEF OpType
    <3>3. NoOp.at = "none"
      BY DEF NoOp
    <3> QED
      BY <2>1, <2>2, <3>1, <3>2, <3>3
  <2> QED
    BY <2>1, <2>3, QuietMaps DEF MapSound, IsAdd
<1>2. CASE SearchDone
  <2>1. Quiet /\ op.at = "search"
    BY <1>2 DEF SearchDone, inspectVars, Quiet
  <2>2. op'.at = "none" \/ (IsAdd /\ op'.at = "add" /\ op'.spoke = op.spoke)
    BY <1>2, <1>o DEF SearchDone, Then, Return, NoOp, OpType
  <2> QED
    BY <2>1, <2>2, QuietMaps DEF MapSound
<1>3. CASE Insert
  <2>1. op.at = "add" /\ op.job \in Jobs \ accepted /\ op.spoke \in AllSpokes
    BY <1>3 DEF Insert, HubSound
  <2>2. op.spoke \notin dropped /\ dropped \cap spokeMap = {}
    BY <2>1 DEF MapSound
  <2>3. /\ jobQueue' = [jobQueue EXCEPT ![op.spoke] = @ \cup {op.job}]
        /\ accepted' = accepted \cup {op.job}
        /\ UNCHANGED <<spokeMap, dropped>>
    BY <1>3 DEF Insert
  <2>4. IF op.spoke \in InspectWalk THEN op'.at = "none"
        ELSE op'.at = "register" /\ op'.spoke = op.spoke
    BY <1>3, <1>o DEF Insert, Return, Then, NoOp, OpType
  <2>5. MapSound'
    BY <2>2, <2>3, <2>4 DEF MapSound
  <2>6. Findable = spokeMap /\ Findable' = Findable \cup ({op.spoke} \ {PastSpoke})
    BY <1>o, <2>1, <2>3, <2>4 DEF Findable, InspectWalk, AllSpokes
  <2>7. Map!Add(op.job, op.spoke)
    BY <2>1, <2>2, <2>3, <2>6 DEF Map!Add, Findable
  <2> QED
    BY <2>1, <2>5, <2>7 DEF Map!Next, Map!AllSpokes, AllSpokes
<1>4. CASE Register
  <2>1. /\ op.at = "register" /\ op'.at = "none" /\ spokeMap' = spokeMap \cup {op.spoke}
        /\ UNCHANGED <<jobQueue, accepted, dropped>>
    BY <1>4 DEF Register, Return, NoOp
  <2>2. Findable' = Findable
    BY <2>1 DEF Findable
  <2> QED
    BY <2>1, <2>2 DEF MapSound, Map!vars, Findable
<1>5. CASE CancelInSpoke
  BY <1>5, RemoveMaps DEF CancelInSpoke, HubSound
<1>6. CASE NextFromPast
  <2>1. PICK j \in jobQueue[PastSpoke] : RemoveFromSpoke(PastSpoke, j)
    BY <1>6 DEF NextFromPast, TakeFrom
  <2>2. op.at = "next" /\ Return /\ UNCHANGED <<spokeMap, accepted, dropped>>
    BY <1>6 DEF NextFromPast, TakeFrom
  <2>3. PastSpoke \in AllSpokes /\ j \in Jobs
    BY DEF AllSpokes, TypeOK
  <2> QED
    BY <2>1, <2>2, <2>3, RemoveMaps
<1>7. CASE NextFromCurrent
  <2>1. PICK j \in jobQueue[op.spoke] : RemoveFromSpoke(op.spoke, j)
    BY <1>7 DEF NextFromCurrent, TakeFrom
  <2>2. op.at = "current" /\ Return /\ UNCHANGED <<spokeMap, accepted, dropped>>
    BY <1>7 DEF NextFromCurrent, TakeFrom
  <2>3. op.spoke \in AllSpokes /\ j \in Jobs
    BY <2>2 DEF AllSpokes, TypeOK, HubSound
  <2> QED
    BY <2>1, <2>2, <2>3, RemoveMaps
<1>8. CASE NothingInPast
  <2>1. Quiet /\ op.at = "next"
    BY <1>8 DEF NothingInPast, inspectVars, Quiet
  <2>2. CASE PollCurrent
    BY <1>o, <2>1, <2>2, PollAt, QuietMaps
  <2>3. ASSUME NEW s, op' = [op EXCEPT !.at = "drop", !.spoke = s]
        PROVE  MapSound' /\ [Map!Next]_(Map!vars)
    <3>1. op'.at = "drop"
      BY <1>o, <2>3 DEF OpType
    <3> QED
      BY <2>1, <3>1, QuietMaps
  <2> QED
    BY <1>8, <2>2, <2>3 DEF NothingInPast
<1>9. CASE DropCurrent
  <2>1. /\ op.at = "drop" /\ op.spoke \in Spokes /\ jobQueue[op.spoke] = {}
        /\ spokeMap' = spokeMap \ {op.spoke} /\ dropped' = dropped \cup {op.spoke}
        /\ UNCHANGED <<jobQueue, accepted>>
    BY <1>9 DEF DropCurrent, HubSound
  <2>2. op'.at \in {"none", "current"}
    BY <1>9, <1>o, PollAt DEF DropCurrent
  <2>3. MapSound' /\ Findable = spokeMap /\ Findable' = spokeMap'
    BY <2>1, <2>2 DEF MapSound, Findable
  <2> DEFINE gone == spokeMap \cap {op.spoke}
  <2>4. gone \in SUBSET Findable /\ Map!GiveUp(gone)
    BY <1>o, <2>1, <2>3 DEF Map!GiveUp, Findable, MapSound
  <2> QED
    BY <2>1, <2>3, <2>4 DEF Map!Next, Findable
<1>10. CASE NothingInCurrent \/ PersistSpoke
  <2>1. Quiet /\ op.at \in {"current", "persist"}
    BY <1>10 DEF NothingInCurrent, PersistSpoke, inspectVars, Quiet
  <2>2. op'.at \in {"none", "persist"}
    BY <1>10, <1>o DEF NothingInCurrent, PersistSpoke, Return, NoOp, OpType
  <2> QED
    BY <2>1, <2>2, QuietMaps
<1> QED
  BY <1>1, <1>2, <1>3, <1>4, <1>5, <1>6, <1>7, <1>8, <1>9, <1>10 DEF HubStep

\* Inspections leave the spokes and the operation as they are
LEMMA InspectionsApart ==
  ASSUME [Next]_vars
  PROVE  Begins \/ HubStep \/ UNCHANGED hubVars
<1>1. ASSUME NEW i \in Inspectors, InspectStart(i) \/ InspectStep(i) PROVE UNCHANGED hubVars
  BY <1>1 DEF InspectStart, InspectStep, InspectPast, RangeNext, LockSpoke, RangeDone
<1>2. ASSUME (\E i \in Inspectors : RaceFatal(i)) \/ UNCHANGED vars PROVE UNCHANGED hubVars
  BY <1>2 DEF RaceFatal, vars
<1> QED
  BY <1>1, <1>2 DEF Next, Begins

LEMMA NextMaps ==
  ASSUME InspectInv, MapSound, [Next]_vars
  PROVE  MapSound' /\ [Map!Next]_(Map!vars)
<1>1. CASE Begins \/ HubStep
  BY <1>1, BeginMaps, HubMaps DEF InspectInv
<1>2. CASE UNCHANGED hubVars
  BY <1>2 DEF hubVars, MapSound, IsAdd, Map!vars
<1> QED
  BY <1>1, <1>2, InspectionsApart

\* It holds always
LEMMA MapSoundness == Spec => [](InspectInv /\ MapSound)
<1>1. Init => MapSound
  BY DEF Init, MapSound, NoOp
<1> QED
  BY <1>1, InvInit, InvNext, NextMaps, PTL DEF Spec

\* Operations that take many steps, with inspections in between, still keep each job
\* in one spoke that can be found and give up none but empty spokes, for good, as
\* the operations of Hub do in one step (hub.go:119-288, 307-392, 510-551)
THEOREM InspectImplementsSpokeMap == Spec => ImplementsSpokeMap
<1>1. Init => Map!Init
  BY DEF Init, NoOp, Map!Init, Map!AllSpokes, AllSpokes
<1>2. InspectInv /\ MapSound /\ [Next]_vars => [Map!Next]_(Map!vars)
  BY NextMaps
<1> QED
  BY <1>1, <1>2, MapSoundness, PTL DEF Spec, ImplementsSpokeMap, Map!Spec

-----------------------------------------------------------------------------
(* What an operation has read holds when it is used.                       *)

\* A spoke with jobs can be found; a cancel's search has not passed the owner, and
\* what it found is still there when the spoke is locked again
SearchSound ==
  /\ \A s \in AllSpokes : jobQueue[s] # {} => s = PastSpoke \/ s \in Findable
  /\ op.at = "cancel" => op.job \in jobQueue[op.spoke]
  /\ op.at = "search" /\ ~IsAdd => \A s \in AllSpokes : op.job \in jobQueue[s] => s \in op.todo

\* Steps that change neither queues nor map
LEMMA QuietSearch ==
  ASSUME SearchSound, Quiet, op.at # "register", op'.at \notin {"register", "cancel"},
         ~(op'.at = "search" /\ ~IsAdd')
  PROVE  SearchSound'
BY DEF SearchSound, Quiet, Findable

LEMMA BeginSearch ==
  ASSUME TypeOK, SearchSound, Begins
  PROVE  SearchSound'
<1>1. op.at = "none" /\ Quiet
  BY DEF Begins, AddJobLocked, CancelJobLocked, NextLocked, PersistLocked, Begin, NoOp, Quiet,
         inspectVars
<1>2. CASE \E j \in Jobs : AddJobLocked(j)
  <2>1. op'.at = "search" /\ IsAdd'
    BY <1>2, ConstantsAssumption DEF AddJobLocked, Begin, IsAdd, AllSpokes
  <2> QED
    BY <1>1, <2>1, QuietSearch
<1>3. ASSUME NEW j \in Jobs, CancelJobLocked(j) PROVE SearchSound'
  <2>1. op'.at = "search" /\ op'.todo = InspectWalk
    BY <1>3 DEF CancelJobLocked, Begin
  <2>2. \A s \in AllSpokes : jobQueue[s] # {} => s \in InspectWalk
    BY <1>1 DEF SearchSound, Findable, InspectWalk
  <2> QED
    BY <1>1, <2>1, <2>2 DEF SearchSound, Quiet, Findable
<1>4. CASE NextLocked \/ PersistLocked
  <2>1. op'.at \in {"next", "persist"}
    BY <1>4 DEF NextLocked, PersistLocked, Begin
  <2> QED
    BY <1>1, <2>1, QuietSearch
<1> QED
  BY <1>2, <1>3, <1>4 DEF Begins

\* A job that leaves its spoke, whose operation ends
LEMMA RemoveSearch ==
  ASSUME TypeOK, SearchSound, NEW s \in AllSpokes, NEW j, op.at # "register",
         RemoveFromSpoke(s, j), Return, UNCHANGED spokeMap
  PROVE  SearchSound'
<1>1. op'.at = "none" /\ Findable' = Findable
  BY DEF Return, NoOp, Findable
<1>2. \A r \in AllSpokes : jobQueue'[r] \subseteq jobQueue[r]
  BY DEF RemoveFromSpoke, TypeOK
<1> QED
  BY <1>1, <1>2 DEF SearchSound

LEMMA HubSearch ==
  ASSUME TypeOK, HubSound, SearchSound, HubStep
  PROVE  SearchSound'
<1>o. /\ op \in OpType /\ PastSpoke \notin Spokes /\ NoSpoke \notin AllSpokes
      /\ PastSpoke \in AllSpokes
  BY ConstantsAssumption DEF TypeOK, OpType, AllSpokes
<1>1. CASE SearchSpoke
  <2>1. Quiet /\ op.at = "search"
    BY <1>1 DEF SearchSpoke, inspectVars, Quiet
  <2>2. PICK s \in op.todo :
          IF op.job \in jobQueue[s]
          THEN op' = [op EXCEPT !.at = "cancel", !.spoke = s]
          ELSE op' = [op EXCEPT !.todo = @ \ {s}] \/ (IsAdd /\ op' = NoOp)
    BY <1>1 DEF SearchSpoke, Return
  <2>3. CASE op.job \in jobQueue[s]
    <3>1. op'.at = "cancel" /\ op'.spoke = s /\ op'.job = op.job
      BY <1>o, <2>2, <2>3 DEF OpType
    <3> QED
      BY <2>1, <2>3, <3>1 DEF SearchSound, Quiet, Findable
  <2>4. CASE op.job \notin jobQueue[s] /\ op' = [op EXCEPT !.todo = @ \ {s}]
    <3>1. op'.at = "search" /\ op'.spoke = op.spoke /\ op'.job = op.job /\ op'.todo = op.todo \ {s}
      BY <1>o, <2>1, <2>4 DEF OpType
    <3> QED
      BY <2>1, <2>4, <3>1 DEF SearchSound, Quiet, Findable, IsAdd
  <2>5. CASE op' = NoOp
    BY <2>1, <2>5, QuietSearch DEF NoOp
  <2> QED
    BY <2>2, <2>3, <2>4, <2>5
<1>2. CASE SearchDone
  <2>1. Quiet /\ op.at = "search"
    BY <1>2 DEF SearchDone, inspectVars, Quiet
  <2>2. op'.at \in {"none", "add"}
    BY <1>2, <1>o DEF SearchDone, Then, Return, NoOp, OpType
  <2> QED
    BY <2>1, <2>2, QuietSearch
<1>3. CASE Insert
  <2>1. op.at = "add" /\ op.spoke \in AllSpokes
    BY <1>3 DEF Insert, HubSound
  <2>2. jobQueue' = [jobQueue EXCEPT ![op.spoke] = @ \cup {op.job}] /\ UNCHANGED spokeMap
    BY <1>3 DEF Insert
  <2>3. IF op.spoke \in InspectWalk THEN op'.at = "none"
        ELSE op'.at = "register" /\ op'.spoke = op.spoke
    BY <1>3, <1>o DEF Insert, Return, Then, NoOp, OpType
  <2>4. op.spoke = PastSpoke \/ op.spoke \in Findable'
    BY <2>2, <2>3 DEF Findable, InspectWalk
  <2>5. \A s \in AllSpokes : s # op.spoke => jobQueue'[s] = jobQueue[s]
    BY <2>2 DEF TypeOK
  <2> QED
    BY <2>1, <2>2, <2>3, <2>4, <2>5 DEF SearchSound, Findable
<1>4. CASE Register
  <2>1. /\ op.at = "register" /\ op'.at = "none" /\ spokeMap' = spokeMap \cup {op.spoke}
        /\ UNCHANGED jobQueue
    BY <1>4 DEF Register, Return, NoOp
  <2> QED
    BY <2>1 DEF SearchSound, Findable
<1>5. CASE CancelInSpoke
  BY <1>5, RemoveSearch DEF CancelInSpoke, HubSound
<1>6. CASE NextFromPast
  BY <1>6, <1>o, RemoveSearch DEF NextFromPast, TakeFrom
<1>7. CASE NextFromCurrent
  <2>1. op.at = "current" /\ op.spoke \in AllSpokes
    BY <1>7 DEF NextFromCurrent, HubSound, AllSpokes
  <2> QED
    BY <1>7, <2>1, RemoveSearch DEF NextFromCurrent, TakeFrom
<1>8. CASE NothingInPast
  <2>1. Quiet /\ op.at = "next"
    BY <1>8 DEF NothingInPast, inspectVars, Quiet
  <2>2. CASE PollCurrent
    BY <1>o, <2>1, <2>2, PollAt, QuietSearch
  <2>3. ASSUME NEW s, op' = [op EXCEPT !.at = "drop", !.spoke = s]
        PROVE  SearchSound'
    <3>1. op'.at = "drop"
      BY <1>o, <2>3 DEF OpType
    <3> QED
      BY <2>1, <3>1, QuietSearch
  <2> QED
    BY <1>8, <2>2, <2>3 DEF NothingInPast
<1>9. CASE DropCurrent
  <2>1. /\ op.at = "drop" /\ op.spoke \in Spokes /\ jobQueue[op.spoke] = {}
        /\ spokeMap' = spokeMap \ {op.spoke} /\ UNCHANGED jobQueue
    BY <1>9 DEF DropCurrent, HubSound
  <2>2. op'.at \in {"none", "current"}
    BY <1>9, <1>o, PollAt DEF DropCurrent
  <2> QED
    BY <2>1, <2>2 DEF SearchSound, Findable
<1>10. CASE NothingInCurrent \/ PersistSpoke
  <2>1. Quiet /\ op.at \in {"current", "persist"}
    BY <1>10 DEF NothingInCurrent, PersistSpoke, inspectVars, Quiet
  <2>2. op'.at \in {"none", "persist"}
    BY <1>10, <1>o DEF NothingInCurrent, PersistSpoke, Return, NoOp, OpType
  <2> QED
    BY <2>1, <2>2, QuietSearch
<1> QED
  BY <1>1, <1>2, <1>3, <1>4, <1>5, <1>6, <1>7, <1>8, <1>9, <1>10 DEF HubStep

LEMMA SearchNext ==
  ASSUME InspectInv, SearchSound, [Next]_vars
  PROVE  SearchSound'
<1>1. CASE Begins \/ HubStep
  BY <1>1, BeginSearch, HubSearch DEF InspectInv
<1>2. CASE UNCHANGED hubVars
  BY <1>2 DEF hubVars, SearchSound, Findable, IsAdd
<1> QED
  BY <1>1, <1>2, InspectionsApart

\* Whatever inspections do between the steps of a cancel, which releases a spoke
\* after it has looked and locks it again to remove: a cancel that answers that
\* there is no such job has not missed one, and one that has found its job removes
\* that job; and every spoke with jobs can be found (hub.go:131-182)
THEOREM CancelsMissNothing ==
  Spec => [](/\ op.at = "search" /\ ~IsAdd /\ op.todo = {} =>
                  \A s \in AllSpokes : op.job \notin jobQueue[s]
             /\ op.at = "cancel" => op.job \in jobQueue[op.spoke]
             /\ op.at = "none" => JobsOf(AllSpokes) = JobsOf(InspectWalk))
<1>1. Init => SearchSound
  BY DEF Init, SearchSound, NoOp
<1>2. InspectInv /\ SearchSound =>
        /\ op.at = "search" /\ ~IsAdd /\ op.todo = {} =>
             \A s \in AllSpokes : op.job \notin jobQueue[s]
        /\ op.at = "cancel" => op.job \in jobQueue[op.spoke]
        /\ op.at = "none" => JobsOf(AllSpokes) = JobsOf(InspectWalk)
  BY DEF SearchSound, Findable, JobsOf, InspectWalk, AllSpokes, InspectInv, TypeOK
<1> QED
  BY <1>1, <1>2, InvInit, InvNext, SearchNext, PTL DEF Spec

-----------------------------------------------------------------------------
(* Who waits for whom.                                                     *)

\* What the operation under way needs to make its next step
HubReady ==
  \/ op.at \in {"register", "drop"}
  \/ op.at \in {"search", "persist"} /\ (op.todo = {} \/ \E s \in op.todo : Unlocked(s))
  \/ op.at \in {"add", "cancel", "current"} /\ Unlocked(op.spoke)
  \/ op.at = "next" /\ Unlocked(PastSpoke)

\* What inspection i needs to make its next step
InspectReady(i) ==
  \/ pc[i] = "past" /\ Unlocked(PastSpoke)
  \/ pc[i] = "range" /\ (Unproduced(i) # {} \/ owed[i] \subseteq visited[i])
  \/ pc[i] = "lock" /\ \E s \in visited[i] \ Held(i) : Unlocked(s)

Inspects(i) == pc[i] \in {"past", "range", "lock"}

\* A hub operation that waits does so for a spoke that an inspection holds, and an
\* inspection that waits does so for a spoke that another one holds, never for the
\* hub
WaitsForInspections ==
  /\ op.at # "none" /\ ~HubReady => \E i \in Inspectors : Inspects(i) /\ Held(i) # {}
  /\ \A i \in Inspectors : Inspects(i) /\ ~InspectReady(i) =>
       \E k \in Inspectors \ {i} : Inspects(k) /\ Awaited(i) \cap Held(k) # {}

\* A range owes only spokes that are still in the map, and waits for one that it
\* has met
RangeSound(i) ==
  /\ owed[i] \subseteq spokeMap
  /\ pc[i] = "lock" => visited[i] \ Held(i) # {}

RangesSound == \A i \in Inspectors : RangeSound(i)

LEMMA RangesInit == Init => RangesSound
BY DEF Init, RangesSound, RangeSound

\* The hub takes a spoke from the map and from what ranges owe at once
LEMMA EffectRange ==
  ASSUME TypeOK, Effect, NEW i \in Inspectors, RangeSound(i)
  PROVE  RangeSound(i)'
<1>1. owed'[i] \subseteq spokeMap'
  BY DEF Effect, Quiet, Inserts, Removes, Registers, Drops, RangeSound, TypeOK
<1>2. Held(i)' = Held(i) /\ visited' = visited /\ pc' = pc
  BY DEF Effect, Inspecting, Held
<1> QED
  BY <1>1, <1>2 DEF RangeSound

LEMMA InspectorRange ==
  ASSUME TypeOK, NEW i \in Inspectors, RangeSound(i), InspectStart(i) \/ InspectStep(i)
  PROVE  RangeSound(i)'
<1>1. CASE InspectStart(i)
  <2>1. pc'[i] = "past" /\ UNCHANGED <<owed, spokeMap>>
    BY <1>1 DEF InspectStart, TypeOK, hubVars
  <2> QED
    BY <2>1 DEF RangeSound
<1>2. CASE InspectPast(i)
  <2>1. pc'[i] # "lock" /\ owed'[i] = spokeMap /\ UNCHANGED spokeMap
    BY <1>2 DEF InspectPast, TypeOK, hubVars
  <2> QED
    BY <2>1 DEF RangeSound
<1>3. CASE RangeNext(i)
  <2>1. PICK s \in spokeMap \ visited[i] : visited' = [visited EXCEPT ![i] = @ \cup {s}]
    BY <1>3 DEF RangeNext, Unproduced
  <2>2. s \in visited'[i] /\ UNCHANGED <<owed, spokeMap, spokeLock>>
    BY <1>3, <2>1 DEF RangeNext, TypeOK, hubVars
  <2>3. s \notin Held(i)'
    BY <2>1, <2>2 DEF Held, TypeOK
  <2> QED
    BY <2>2, <2>3 DEF RangeSound
<1>4. CASE LockSpoke(i) \/ RangeDone(i)
  <2>1. pc'[i] # "lock" /\ UNCHANGED <<owed, spokeMap>>
    BY <1>4 DEF LockSpoke, RangeDone, TypeOK, hubVars
  <2> QED
    BY <2>1 DEF RangeSound
<1> QED
  BY <1>1, <1>2, <1>3, <1>4 DEF InspectStep

LEMMA RangesNext == InspectInv /\ RangesSound /\ [Next]_vars => RangesSound'
<1> SUFFICES ASSUME InspectInv, RangesSound, [Next]_vars, NEW i \in Inspectors
             PROVE  RangeSound(i)'
  BY DEF RangesSound
<1>1. CASE Begins \/ HubStep
  BY <1>1, BeginSound, StepSound, EffectRange DEF InspectInv, RangesSound
<1>2. ASSUME NEW k \in Inspectors, InspectStart(k) \/ InspectStep(k)
      PROVE  RangeSound(i)'
  <2>1. CASE k = i
    BY <1>2, <2>1, InspectorRange DEF InspectInv, RangesSound
  <2>2. CASE k # i
    <3>1. OthersAlone(k) /\ UNCHANGED hubVars
      BY <1>2, StartKeeps, PastKeeps, RangeNextKeeps, LockKeeps, RangeDoneKeeps
         DEF InspectInv, InspectStep
    <3> QED
      BY <2>2, <3>1 DEF OthersAlone, hubVars, RangesSound, RangeSound
  <2> QED
    BY <2>1, <2>2
<1>3. CASE (\E k \in Inspectors : RaceFatal(k)) \/ UNCHANGED vars
  BY <1>3 DEF RaceFatal, vars, hubVars, inspectVars, RangesSound, RangeSound, Held
<1> QED
  BY <1>1, <1>2, <1>3 DEF Next, Begins

\* A spoke that is locked is locked by an inspection under way, and is not the past
\* spoke
LEMMA LockedByInspection ==
  ASSUME TypeOK, NEW s \in AllSpokes, ~Unlocked(s)
  PROVE  /\ s # PastSpoke
         /\ \E i \in Inspectors : spokeLock[s] = i /\ s \in Held(i) /\ Inspects(i)
<1>1. PICK i \in Inspectors : spokeLock[s] = i
  BY DEF TypeOK, Unlocked
<1>2. s \in visited[i] /\ pc[i] \in {"range", "lock"}
  BY <1>1 DEF TypeOK
<1>3. s # PastSpoke
  BY <1>2, ConstantsAssumption DEF TypeOK
<1> QED
  BY <1>1, <1>2, <1>3 DEF Held, Inspects

LEMMA WaitsExplained ==
  ASSUME InspectInv, RangesSound
  PROVE  WaitsForInspections
<1> USE DEF InspectInv
<1>o. op \in OpType /\ PastSpoke \in AllSpokes
  BY DEF TypeOK, OpType, AllSpokes
<1>1. ASSUME op.at # "none", ~HubReady
      PROVE  \E i \in Inspectors : Inspects(i) /\ Held(i) # {}
  <2>1. ASSUME NEW s \in AllSpokes, ~Unlocked(s)
        PROVE  \E i \in Inspectors : Inspects(i) /\ Held(i) # {}
    BY <2>1, LockedByInspection
  <2>2. CASE op.at \in {"search", "persist"}
    BY <1>o, <1>1, <2>1, <2>2 DEF HubReady, OpType
  <2>3. CASE op.at \in {"add", "cancel", "current"}
    <3>1. op.spoke \in AllSpokes
      BY <2>3 DEF HubSound, AllSpokes
    <3> QED
      BY <1>1, <2>1, <2>3, <3>1 DEF HubReady
  <2>4. CASE op.at = "next"
    BY <1>o, <1>1, <2>1, <2>4 DEF HubReady
  <2>5. op.at \in {"search", "persist", "add", "cancel", "current", "next"}
    BY <1>o, <1>1 DEF HubReady, OpType, Stages
  <2> QED
    BY <2>2, <2>3, <2>4, <2>5
<1>2. ASSUME NEW i \in Inspectors, Inspects(i), ~InspectReady(i)
      PROVE  \E k \in Inspectors \ {i} : Inspects(k) /\ Awaited(i) \cap Held(k) # {}
  <2>1. pc[i] # "past"
    BY <1>o, <1>2, LockedByInspection DEF InspectReady
  <2>2. pc[i] # "range"
    BY <1>2 DEF InspectReady, RangesSound, RangeSound, Unproduced
  <2>3. pc[i] = "lock"
    BY <1>2, <2>1, <2>2 DEF Inspects
  <2>4. PICK s \in visited[i] \ Held(i) : ~Unlocked(s)
    BY <1>2, <2>3 DEF InspectReady, RangesSound, RangeSound
  <2>5. s \in AllSpokes
    BY DEF TypeOK, AllSpokes
  <2>6. PICK k \in Inspectors : s \in Held(k) /\ Inspects(k)
    BY <2>4, <2>5, LockedByInspection
  <2> QED
    BY <2>3, <2>4, <2>6 DEF Awaited
<1> QED
  BY <1>1, <1>2 DEF WaitsForInspections

\* Everybody waits for inspections only, an inspection for others: the past spoke is
\* never kept, ranges come to an end, and no inspection waits for the hub
\* (hub.go:510-551)
THEOREM OnlyInspectionsBlock == Spec => []WaitsForInspections
<1>1. InspectInv /\ RangesSound => WaitsForInspections
  BY WaitsExplained
<1> QED
  BY <1>1, InvInit, InvNext, RangesInit, RangesNext, PTL DEF Spec

\* So one inspection at a time never blocks, and lets a hub that waits for it go on
\* by ending: the safety core of NobodyWaitsForever
THEOREM OneInspectionRunsOn ==
  ASSUME \A i, k \in Inspectors : i = k
  PROVE  Spec => [](/\ \A i \in Inspectors : Inspects(i) => InspectReady(i)
                    /\ op.at # "none" => HubReady \/ \E i \in Inspectors : InspectReady(i))
<1>1. WaitsForInspections =>
        /\ \A i \in Inspectors : Inspects(i) => InspectReady(i)
        /\ op.at # "none" => HubReady \/ \E i \in Inspectors : InspectReady(i)
  BY DEF WaitsForInspections
<1> QED
  BY <1>1, OnlyInspectionsBlock, PTL

-----------------------------------------------------------------------------
(* Everybody gets on.                                                      *)

\* What the operation under way still has to do: its later stages, and the spokes
\* that it has yet to lock one by one
OpStage == [none |-> 0, search |-> 3, add |-> 2, register |-> 1, cancel |-> 1, next |-> 3,
            drop |-> 2, current |-> 1, persist |-> 1][op.at]
OpLeft == OpStage + Cardinality(op.todo)

\* What inspection i still has to do at most, if it were to meet every spoke that may
\* be created: two steps for each spoke
InspectionStage(i) == [idle |-> 0, past |-> 2, range |-> 1, lock |-> 2, done |-> 0][pc[i]]
InspectionLeft(i) == 2 * Cardinality(Spokes \ visited[i]) + InspectionStage(i)

LEMMA SpokeSubsets ==
  ASSUME NEW T \in SUBSET AllSpokes
  PROVE  /\ Cardinality(T) \in Nat
         /\ \A s \in T : Cardinality(T \ {s}) = Cardinality(T) - 1
<1>1. IsFiniteSet(AllSpokes)
  BY ConstantsAssumption, FS_AddElement DEF AllSpokes
<1>2. IsFiniteSet(T)
  BY <1>1, FS_Subset
<1> QED
  BY <1>2, FS_CardinalityType, FS_RemoveElement

LEMMA HubGoesForward ==
  ASSUME TypeOK, HubStep
  PROVE  OpLeft' < OpLeft
<1> USE DEF OpLeft, OpStage
<1>1. op.todo \in SUBSET AllSpokes /\ Cardinality(op.todo) \in Nat
  BY SpokeSubsets DEF TypeOK
<1>2. NoOp.at = "none" /\ Cardinality(NoOp.todo) = 0
  BY FS_EmptySet DEF NoOp
<1>3. CASE SearchSpoke
  <2>1. PICK s \in op.todo :
          \/ op' = [op EXCEPT !.at = "cancel", !.spoke = s]
          \/ op' = [op EXCEPT !.todo = @ \ {s}]
          \/ op' = NoOp
    BY <1>3 DEF SearchSpoke, Return
  <2>2. op.at = "search"
    BY <1>3 DEF SearchSpoke
  <2>3. CASE op' = [op EXCEPT !.at = "cancel", !.spoke = s]
    BY <1>1, <2>2, <2>3 DEF TypeOK
  <2>4. CASE op' = [op EXCEPT !.todo = @ \ {s}]
    <3>1. op'.at = "search" /\ op'.todo = op.todo \ {s}
      BY <2>2, <2>4 DEF TypeOK
    <3> QED
      BY <1>1, <2>2, <3>1, SpokeSubsets
  <2>5. CASE op' = NoOp
    BY <1>1, <1>2, <2>2, <2>5
  <2> QED
    BY <2>1, <2>3, <2>4, <2>5
<1>4. CASE SearchDone \/ Insert \/ Register \/ CancelInSpoke
  <2>1. \/ /\ op' = [op EXCEPT !.at = "add"] /\ op.at = "search"
        \/ /\ op' = [op EXCEPT !.at = "register"] /\ op.at = "add"
        \/ /\ op' = NoOp /\ op.at \in {"search", "add", "register", "cancel"}
    BY <1>4 DEF SearchDone, Insert, Register, CancelInSpoke, Then, Return
  <2>2. \/ /\ op'.at = "add" /\ op.at = "search" /\ op'.todo = op.todo
        \/ /\ op'.at = "register" /\ op.at = "add" /\ op'.todo = op.todo
        \/ /\ op' = NoOp /\ op.at \in {"search", "add", "register", "cancel"}
    BY <2>1 DEF TypeOK
  <2> QED
    BY <1>1, <1>2, <2>2
<1>5. CASE NextFromPast \/ NothingInPast \/ DropCurrent \/ NextFromCurrent \/ NothingInCurrent
  <2>1. \/ /\ op.at = "next" /\ \E s : op' = [op EXCEPT !.at = "drop", !.spoke = s]
        \/ /\ op.at \in {"next", "drop"} /\ \E s : op' = [op EXCEPT !.at = "current", !.spoke = s]
        \/ /\ op.at \in {"next", "drop", "current"} /\ op' = NoOp
    BY <1>5 DEF NextFromPast, NothingInPast, DropCurrent, NextFromCurrent, NothingInCurrent,
                TakeFrom, PollCurrent, Return
  <2>2. \/ /\ op'.at = "drop" /\ op.at = "next" /\ op'.todo = op.todo
        \/ /\ op'.at = "current" /\ op.at \in {"next", "drop"} /\ op'.todo = op.todo
        \/ /\ op' = NoOp /\ op.at \in {"next", "drop", "current"}
    BY <2>1 DEF TypeOK
  <2> QED
    BY <1>1, <1>2, <2>2
<1>6. CASE PersistSpoke
  <2>1. op.at = "persist"
    BY <1>6 DEF PersistSpoke
  <2>2. CASE op' = NoOp
    BY <1>1, <1>2, <2>1, <2>2
  <2>3. ASSUME NEW s \in op.todo, op' = [op EXCEPT !.todo = @ \ {s}]
        PROVE  OpLeft' < OpLeft
    <3>1. op'.at = "persist" /\ op'.todo = op.todo \ {s}
      BY <2>1, <2>3 DEF TypeOK
    <3> QED
      BY <1>1, <2>1, <3>1, SpokeSubsets
  <2> QED
    BY <1>6, <2>2, <2>3 DEF PersistSpoke, Return
<1> QED
  BY <1>3, <1>4, <1>5, <1>6 DEF HubStep

LEMMA InspectionGoesForward ==
  ASSUME TypeOK, NEW i \in Inspectors, InspectStep(i)
  PROVE  InspectionLeft(i)' < InspectionLeft(i)
<1> USE DEF InspectionLeft, InspectionStage
<1>1. Spokes \ visited[i] \in SUBSET AllSpokes /\ Cardinality(Spokes \ visited[i]) \in Nat
  BY SpokeSubsets DEF AllSpokes
<1>2. CASE InspectPast(i)
  <2>1. pc[i] = "past" /\ pc'[i] \in {"done", "range"} /\ visited' = visited
    BY <1>2 DEF InspectPast, TypeOK
  <2> QED
    BY <1>1, <2>1
<1>3. CASE RangeNext(i)
  <2>1. PICK s \in Unproduced(i) : visited' = [visited EXCEPT ![i] = @ \cup {s}]
    BY <1>3 DEF RangeNext
  <2>2. pc[i] = "range" /\ pc'[i] = "lock"
    BY <1>3 DEF RangeNext, TypeOK
  <2>3. /\ s \in Spokes \ visited[i]
        /\ Spokes \ visited'[i] = (Spokes \ visited[i]) \ {s}
    BY <2>1 DEF Unproduced, TypeOK
  <2>4. Cardinality(Spokes \ visited'[i]) = Cardinality(Spokes \ visited[i]) - 1
    BY <1>1, <2>3, SpokeSubsets
  <2> QED
    BY <1>1, <2>2, <2>4
<1>4. CASE LockSpoke(i) \/ RangeDone(i)
  <2>1. /\ visited' = visited
        /\ \/ pc[i] = "lock" /\ pc'[i] = "range"
           \/ pc[i] = "range" /\ pc'[i] = "done"
    BY <1>4 DEF LockSpoke, RangeDone, TypeOK
  <2> QED
    BY <1>1, <2>1
<1> QED
  BY <1>2, <1>3, <1>4 DEF InspectStep

\* Nobody sets an operation or an inspection back
LEMMA OthersDoNotSetBack ==
  ASSUME TypeOK, [Next]_vars
  PROVE  /\ op # NoOp /\ ~HubStep => op' = op
         /\ \A i \in Inspectors :
              Inspects(i) /\ ~InspectStep(i) => pc'[i] = pc[i] /\ visited'[i] = visited[i]
<1>1. CASE Begins \/ (\E k \in Inspectors : RaceFatal(k)) \/ UNCHANGED vars
  BY <1>1 DEF Begins, AddJobLocked, CancelJobLocked, NextLocked, PersistLocked, Begin,
              RaceFatal, vars, hubVars, inspectVars
<1>2. CASE HubStep
  <2>1. pc' = pc /\ visited' = visited
    BY <1>2 DEF HubStep, SearchSpoke, SearchDone, Insert, Register, CancelInSpoke, NextFromPast,
                NothingInPast, DropCurrent, NextFromCurrent, NothingInCurrent, PersistSpoke,
                TakeFrom, RemoveFromSpoke, inspectVars
  <2> QED
    BY <1>2, <2>1
<1>3. ASSUME NEW k \in Inspectors, InspectStart(k) \/ InspectStep(k)
      PROVE  /\ op' = op
             /\ \A i \in Inspectors \ {k} : pc'[i] = pc[i] /\ visited'[i] = visited[i]
             /\ Inspects(k) => InspectStep(k)
  BY <1>3 DEF InspectStart, InspectStep, InspectPast, RangeNext, LockSpoke, RangeDone, Inspects,
              hubVars, TypeOK
<1> QED
  BY <1>1, <1>2, <1>3 DEF Next, Begins

\* No operation and no inspection goes on for ever: each of its steps leaves fewer of a
\* number that nobody else raises while it is under way, however many spokes a range
\* meets that were created meanwhile, and however often the map is written
\* (hub.go:510-551).  With OneInspectionRunsOn that is what NobodyWaitsForever rests on.
THEOREM EverybodyGoesForward ==
  Spec =>
    /\ [](OpLeft \in Nat /\ \A i \in Inspectors : InspectionLeft(i) \in Nat)
    /\ [][/\ HubStep => OpLeft' < OpLeft
          /\ op # NoOp /\ ~HubStep => op' = op
          /\ \A i \in Inspectors :
               /\ InspectStep(i) => InspectionLeft(i)' < InspectionLeft(i)
               /\ Inspects(i) /\ ~InspectStep(i) => InspectionLeft(i)' = InspectionLeft(i)]_vars
<1>1. TypeOK /\ [Next]_vars =>
        [/\ HubStep => OpLeft' < OpLeft
         /\ op # NoOp /\ ~HubStep => op' = op
         /\ \A i \in Inspectors :
              /\ InspectStep(i) => InspectionLeft(i)' < InspectionLeft(i)
              /\ Inspects(i) /\ ~InspectStep(i) => InspectionLeft(i)' = InspectionLeft(i)]_vars
  BY HubGoesForward, InspectionGoesForward, OthersDoNotSetBack DEF InspectionLeft, InspectionStage
<1>2. TypeOK => OpLeft \in Nat /\ \A i \in Inspectors : InspectionLeft(i) \in Nat
  <2> SUFFICES ASSUME TypeOK
               PROVE  OpLeft \in Nat /\ \A i \in Inspectors : InspectionLeft(i) \in Nat
    OBVIOUS
  <2>1. Cardinality(op.todo) \in Nat /\ OpStage \in Nat
    BY SpokeSubsets DEF TypeOK, OpStage, Stages
  <2>2. ASSUME NEW i \in Inspectors
        PROVE  Cardinality(Spokes \ visited[i]) \in Nat /\ InspectionStage(i) \in Nat
    BY SpokeSubsets DEF TypeOK, AllSpokes, InspectionStage
  <2> QED
    BY <2>1, <2>2 DEF OpLeft, InspectionLeft
<1> QED
  BY <1>1, <1>2, TypeCorrect, PTL DEF Spec
=============================================================================
