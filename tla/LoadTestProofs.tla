--------------------------- MODULE LoadTestProofs ---------------------------
(***************************************************************************)
(* Invariance proofs for LoadTest, for any connections, numbers of jobs    *)
(* and calls left behind: where each job is, how many a death costs, what  *)
(* it means that a load test exits, and who waits for what.                *)
(***************************************************************************)
EXTENDS LoadTest, FiniteSetTheorems, TLAPS

(* The parts of TypeOK                                                     *)

BaseTypes ==
  /\ setup \in Setups /\ process \in Processes /\ serverUp \in BOOLEAN
  /\ queue \in SUBSET Jobs /\ cancelled \in SUBSET Jobs /\ lost \in SUBSET Jobs

PutTypes ==
  /\ made \in 0 .. NumJobs /\ handed \in 0 .. made
  /\ made - handed <= Cardinality(Conns)
  /\ enq \in [Conns -> EnqPlaces] /\ putting \in [Conns -> Jobs \cup {NoJob}]
  /\ \A c \in Conns : putting[c] # NoJob <=> enq[c] \in {"put", "fenced", "refused"}

TakeTypes ==
  /\ deq \in [Conns -> DeqPlaces] /\ taken \in [Conns -> Jobs \cup {NoJob}]
  /\ handler \in [Conns -> HandlerPlaces] /\ given \in [Conns -> Jobs \cup {NoJob}]
  /\ \A c \in Conns :
       /\ taken[c] # NoJob <=> deq[c] \in {"cancel", "send"}
       /\ given[c] # NoJob <=> handler[c] = "gave"

SinkTypes ==
  /\ count \in Nat /\ counted \in SUBSET Jobs
  /\ tokens \in 0 .. Cardinality(Conns) /\ stopped \in SUBSET Conns

LEMMA TypeParts ==
  TypeOK <=> BaseTypes /\ PutTypes /\ TakeTypes /\ SinkTypes
            /\ orphans \in Nat /\ strays \in SUBSET Ids
  BY DEF TypeOK, BaseTypes, PutTypes, TakeTypes, SinkTypes

-----------------------------------------------------------------------------
(* The inductive invariant                                                 *)

\* Enqueuers start and end with the load test, and hold different jobs of it
PutInv ==
  /\ PutTypes
  /\ process = "connecting" => \A c \in Conns : enq[c] = "off"
  /\ \A c \in Conns : putting[c] # NoJob =>
       putting[c] \in JobsOf("this") /\ putting[c].id < handed
  /\ \A c, d \in Conns : putting[c] = putting[d] => c = d \/ putting[c] = NoJob
  /\ \A c \in Conns : enq[c] = "done" => handed = NumJobs
  /\ process = "exited" /\ Enqueuing => \A c \in Conns : enq[c] = "done"

\* The server handles a call of Next only while its client waits for it
CallInv ==
  /\ TakeTypes
  /\ \A c \in Conns : handler[c] # "none" => deq[c] = "waiting"
  /\ process # "running" => \A c \in Conns : deq[c] = "off"

\* Dequeuers are told to stop once, when the sink has seen enough
StopInv ==
  /\ SinkTypes
  /\ count < NumJobs => tokens = 0 /\ stopped = {}
  /\ process = "exited" /\ Dequeuing => count >= NumJobs

\* Where each job is
PlaceInv ==
  /\ BaseTypes
  /\ serverUp => Accepted = queue \cup InHand \cup Removed
  /\ queue \cap (InHand \cup Removed) = {} /\ InHand \cap Removed = {}
  /\ counted \cap (cancelled \cup lost) = {} /\ cancelled \cap lost = {}
  /\ \A c, d \in Conns :
       /\ taken[c] = given[d] => taken[c] = NoJob
       /\ taken[c] = taken[d] => c = d \/ taken[c] = NoJob
       /\ given[c] = given[d] => c = d \/ given[c] = NoJob

\* A job that an earlier load test left keeps its id from being accepted again
HurtInv ==
  /\ OnlyReusedIdsHurt
  /\ serverUp => \A j \in queue, k \in Accepted : j.run = "earlier" /\ k.id = j.id => k = j

\* A client that is gone cancels ids of jobs that it has taken
StrayInv ==
  /\ strays \in SUBSET Ids
  /\ serverUp => \A id \in strays : \E j \in Accepted \ queue : j.id = id

\* Counts of sets that steps add to
NumberInv ==
  /\ IsFiniteSet(counted) /\ count = Cardinality(counted)
  /\ IsFiniteSet(lost) /\ orphans \in Nat
  /\ Cardinality(lost) + orphans <= setup.orphans + Cardinality(Conns)
  /\ process \in {"connecting", "running"} => Cardinality(lost) + orphans <= setup.orphans

LoadInv == PutInv /\ CallInv /\ StopInv /\ PlaceInv /\ StrayInv /\ HurtInv /\ NumberInv

-----------------------------------------------------------------------------
LEMMA ConnsFinite == Cardinality(Conns) \in Nat /\ Cardinality(Conns) > 0
  <1>1. Cardinality(Conns) \in Nat
    BY LoadAssumption, FS_CardinalityType
  <1>2. Cardinality(Conns) # 0
    BY LoadAssumption, FS_EmptySet
  <1> QED
    BY <1>1, <1>2

\* However a load test ends, it dies
LEMMA EndsDies ==
  Ends => \/ process \in {"connecting", "running"} /\ Dies("failed")
          \/ Exit
  BY DEF Ends, ConnectFails, CallFails, PutRefused, Invalid, Exit, Running

\* What is left alone: by enqueuers, by dequeuers and by everyone but these
LEMMA EnqFrame ==
  ASSUME NEW c \in Conns, EnqStep(c)
  PROVE  UNCHANGED <<setup, process, serverUp, cancelled, lost, deqVars, handlerVars, sinkVars>>
  BY DEF EnqStep, Receive, RangeEnds, FenceHolds, PutWithID, hubVars

LEMMA DeqFrame ==
  ASSUME NEW c \in Conns, DeqStep(c) \/ Look(c) \/ Stop(c)
  PROVE  UNCHANGED <<setup, process, serverUp, lost, genVars, enqVars, orphans, strays>>
  BY DEF DeqStep, CallNext, LookInVain, Deadline, TimedOut, GotJob, Cancel, Count, Look, Stop,
         hubVars, deqVars, handlerVars

LEMMA OtherFrame ==
  ASSUME OrphanTakes \/ OrphanEnds \/ StrayCancel \/ ServerDies
  PROVE  UNCHANGED <<setup, process, genVars, enqVars, deq, taken, sinkVars>>
  BY DEF OrphanTakes, OrphanEnds, StrayCancel, ServerDies, deqVars

-----------------------------------------------------------------------------
LEMMA PutInit == Init => PutInv
  BY ConnsFinite, LoadAssumption DEF Init, PutInv, PutTypes, EnqPlaces

LEMMA PutNext == PutInv /\ [Next]_vars => PutInv'
  <1> SUFFICES ASSUME PutInv, [Next]_vars PROVE PutInv'
    OBVIOUS
  <1> USE DEF PutInv, PutTypes
  <1>1. CASE Connect
    <2>1. enq' \in [Conns -> {"range", "off"}]
      BY <1>1 DEF Connect
    <2>2. UNCHANGED <<made, handed, putting>> /\ process = "connecting" /\ process' = "running"
      BY <1>1 DEF Connect, genVars
    <2>3. \A c \in Conns : putting[c] = NoJob
      BY <2>2
    <2> QED
      BY <2>1, <2>2, <2>3 DEF EnqPlaces
  <1>2. CASE Ends
    <2>1. UNCHANGED <<setup, made, handed, enq, putting>> /\ process' \in {"failed", "exited"}
      BY <1>2, EndsDies DEF Exit, Dies, genVars, enqVars
    <2>2. process' = "exited" => EnqueuersDone
      BY <1>2, EndsDies DEF Exit, Dies
    <2> QED
      BY <2>1, <2>2 DEF EnqueuersDone, Enqueuing
  <1>3. CASE Generate
    BY <1>3, ConnsFinite, LoadAssumption DEF Generate, enqVars, Running
  <1>4. ASSUME NEW c \in Conns, Receive(c) PROVE PutInv'
    <2> DEFINE j == [id |-> handed, run |-> "this"]
    <2>1. /\ process = "running" /\ process' = "running" /\ made' = made
          /\ handed < made /\ handed' = handed + 1
          /\ enq[c] = "range"
          /\ enq' = [enq EXCEPT ![c] = "put"] /\ putting' = [putting EXCEPT ![c] = j]
      BY <1>4 DEF Receive, Running
    <2>2. handed \in Ids /\ j \in JobsOf("this") /\ j \in Jobs /\ j # NoJob
      BY <2>1, LoadAssumption, NoJobAssumption DEF Ids, Jobs, JobsOf
    <2>3. \A d \in Conns : putting[d] # j
      BY <2>2, LoadAssumption
    <2>4. \A d \in Conns : d # c => enq'[d] = enq[d] /\ putting'[d] = putting[d]
      BY <2>1
    <2>5. enq'[c] = "put" /\ putting'[c] = j
      BY <2>1
    <2>6. PutTypes'
      BY <2>1, <2>2, <2>4, <2>5, ConnsFinite, LoadAssumption DEF EnqPlaces
    <2>7. \A d \in Conns : putting'[d] # NoJob =>
                putting'[d] \in JobsOf("this") /\ putting'[d].id < handed'
      <3>1. ASSUME NEW d \in Conns, d # c, putting'[d] # NoJob
            PROVE  putting'[d] \in JobsOf("this") /\ putting'[d].id < handed'
        <4>1. putting[d] \in JobsOf("this") /\ putting[d].id < handed
          BY <3>1, <2>4
        <4>2. putting[d].id \in Nat
          BY <4>1 DEF JobsOf, Ids
        <4> QED
          BY <3>1, <4>1, <4>2, <2>1, <2>4, LoadAssumption
      <3> QED
        BY <3>1, <2>1, <2>2, <2>5, LoadAssumption
    <2>8. \A d, e \in Conns : putting'[d] = putting'[e] => d = e \/ putting'[d] = NoJob
      BY <2>3, <2>4, <2>5
    <2>9. \A d \in Conns : enq[d] # "done" /\ enq'[d] # "done"
      BY <2>1, LoadAssumption
    <2> QED
      BY <2>1, <2>6, <2>7, <2>8, <2>9
  <1>5. ASSUME NEW c \in Conns, RangeEnds(c) PROVE PutInv'
    BY <1>5, LoadAssumption DEF RangeEnds, genVars, EnqPlaces, Running
  <1>6. ASSUME NEW c \in Conns, PutWithID(c) PROVE PutInv'
    <2>1. UNCHANGED <<setup, process, made, handed>> /\ enq[c] \in {"put", "fenced"}
      BY <1>6 DEF PutWithID, genVars
    <2>2. CASE enq' = [enq EXCEPT ![c] = "refused"] /\ UNCHANGED putting
      BY <2>1, <2>2 DEF EnqPlaces, Enqueuing
    <2>3. CASE enq' = [enq EXCEPT ![c] = "range"] /\ putting' = [putting EXCEPT ![c] = NoJob]
      <3>1. \A d \in Conns : d # c => enq'[d] = enq[d] /\ putting'[d] = putting[d]
        BY <2>3
      <3>2. enq'[c] = "range" /\ putting'[c] = NoJob
        BY <2>3
      <3> QED
        BY <2>1, <2>3, <3>1, <3>2 DEF EnqPlaces, Enqueuing
    <2> QED
      BY <1>6, <2>2, <2>3 DEF PutWithID
  <1>7. ASSUME NEW c \in Conns, FenceHolds(c) PROVE PutInv'
    BY <1>7 DEF FenceHolds, genVars, EnqPlaces, Enqueuing
  <1>8. CASE UNCHANGED <<setup, process, genVars, enqVars>>
    BY <1>8 DEF genVars, enqVars, Enqueuing
  <1> QED
    BY <1>1, <1>2, <1>3, <1>4, <1>5, <1>6, <1>7, <1>8, DeqFrame, OtherFrame
    DEF Next, EnqStep, vars

-----------------------------------------------------------------------------
LEMMA CallInit == Init => CallInv
  BY DEF Init, CallInv, TakeTypes, DeqPlaces, HandlerPlaces

\* A death leaves no call and nothing in hand
LEMMA CallDies ==
  ASSUME CallInv, NEW how, how # "running", Dies(how)
  PROVE  CallInv'
  <1>1. /\ handler' = [c \in Conns |-> "none"] /\ given' = [c \in Conns |-> NoJob]
        /\ deq' = [c \in Conns |-> "off"] /\ taken' = [c \in Conns |-> NoJob]
        /\ process' # "running"
    BY DEF Dies
  <1> QED
    BY <1>1 DEF CallInv, TakeTypes, DeqPlaces, HandlerPlaces

\* The steps of a connection whose load test runs
LEMMA CallStep ==
  ASSUME CallInv, NEW c \in Conns, DeqStep(c) \/ Look(c), PlaceInv
  PROVE  CallInv'
  <1> USE DEF CallInv, TakeTypes, DeqPlaces, HandlerPlaces
  <1>1. CASE CallNext(c)
    BY <1>1 DEF CallNext, Running
  <1>2. CASE LookInVain(c) \/ Deadline(c)
    BY <1>2, DeqFrame DEF LookInVain, Deadline, deqVars
  <1>3. CASE Look(c)
    <2>1. given'[c] # NoJob /\ given' \in [Conns -> Jobs \cup {NoJob}]
      BY <1>3, NoJobAssumption DEF Look, PlaceInv, BaseTypes
    <2>2. \A d \in Conns : d # c => given'[d] = given[d] /\ handler'[d] = handler[d]
      BY <1>3 DEF Look
    <2>3. handler'[c] = "gave" /\ handler' \in [Conns -> HandlerPlaces]
      BY <1>3 DEF Look
    <2>4. UNCHANGED <<deq, taken, process>> /\ handler[c] # "none"
      BY <1>3 DEF Look, deqVars
    <2> QED
      BY <2>1, <2>2, <2>3, <2>4
  <1>4. CASE TimedOut(c)
    BY <1>4 DEF TimedOut, Running
  <1>5. CASE GotJob(c)
    <2>1. /\ process = "running" /\ process' = "running" /\ handler[c] = "gave"
          /\ deq' = [deq EXCEPT ![c] = "cancel"] /\ taken' = [taken EXCEPT ![c] = given[c]]
          /\ handler' = [handler EXCEPT ![c] = "none"] /\ given' = [given EXCEPT ![c] = NoJob]
      BY <1>5 DEF GotJob, Running
    <2>2. \A d \in Conns : d # c =>
            deq'[d] = deq[d] /\ taken'[d] = taken[d] /\ given'[d] = given[d] /\ handler'[d] = handler[d]
      BY <2>1
    <2>3. deq'[c] = "cancel" /\ taken'[c] = given[c] /\ given'[c] = NoJob /\ handler'[c] = "none"
      BY <2>1
    <2>4. given[c] # NoJob
      BY <2>1
    <2> QED
      BY <2>1, <2>2, <2>3, <2>4
  <1>6. CASE Cancel(c)
    BY <1>6 DEF Cancel, Running, handlerVars
  <1>7. CASE Count(c)
    BY <1>7 DEF Count, Running, handlerVars
  <1> QED
    BY <1>1, <1>2, <1>3, <1>4, <1>5, <1>6, <1>7 DEF DeqStep

LEMMA CallNextInv == PutInv /\ CallInv /\ PlaceInv /\ [Next]_vars => CallInv'
  <1> SUFFICES ASSUME CallInv, PlaceInv, [Next]_vars PROVE CallInv'
    OBVIOUS
  <1>1. CASE Connect
    BY <1>1 DEF Connect, CallInv, TakeTypes, DeqPlaces, HandlerPlaces, handlerVars
  <1>2. CASE Ends
    BY <1>2, EndsDies, CallDies DEF Exit
  <1>3. ASSUME NEW c \in Conns, DeqStep(c) \/ Look(c) PROVE CallInv'
    BY <1>3, CallStep
  <1>4. CASE ServerDies
    BY <1>4 DEF ServerDies, CallInv, TakeTypes, HandlerPlaces
  <1>5. CASE UNCHANGED <<process, deq, taken, handler, given>>
    BY <1>5 DEF CallInv, TakeTypes
  <1>6. ASSUME NEW c \in Conns, EnqStep(c) \/ Stop(c) PROVE CallInv'
    BY <1>6, <1>5, EnqFrame DEF Stop, deqVars, handlerVars
  <1>7. CASE Generate \/ OrphanTakes \/ OrphanEnds \/ StrayCancel \/ UNCHANGED vars
    BY <1>7, <1>5 DEF Generate, OrphanTakes, OrphanEnds, StrayCancel, vars, deqVars, handlerVars
  <1> QED
    BY <1>1, <1>2, <1>3, <1>4, <1>6, <1>7 DEF Next

-----------------------------------------------------------------------------
LEMMA StopInit == Init => StopInv
  BY ConnsFinite, LoadAssumption DEF Init, StopInv, SinkTypes

LEMMA StopNext == CallInv /\ PlaceInv /\ StopInv /\ [Next]_vars => StopInv'
  <1> SUFFICES ASSUME CallInv, PlaceInv, StopInv, [Next]_vars PROVE StopInv'
    OBVIOUS
  <1> USE DEF StopInv, SinkTypes
  <1>1. CASE Ends
    <2>1. UNCHANGED <<setup, sinkVars>> /\ (process' = "exited" => DequeuersDone)
      BY <1>1, EndsDies DEF Exit, Dies
    <2>2. DequeuersDone /\ Dequeuing => count >= NumJobs
      BY LoadAssumption DEF DequeuersDone
    <2> QED
      BY <2>1, <2>2 DEF sinkVars, Dequeuing
  <1>2. ASSUME NEW c \in Conns, Count(c) PROVE StopInv'
    <2>1. /\ process = "running" /\ process' = "running" /\ deq[c] = "send"
          /\ count' = count + 1 /\ stopped' = stopped
          /\ tokens' = IF count' = NumJobs THEN tokens + Cardinality(Conns) ELSE tokens
          /\ counted' = counted \cup {taken[c]}
      BY <1>2 DEF Count, Running
    <2>2. taken[c] \in Jobs
      BY <2>1 DEF CallInv, TakeTypes
    <2>3. CASE count' = NumJobs
      <3>1. tokens = 0 /\ stopped = {}
        BY <2>1, <2>3, LoadAssumption
      <3> QED
        BY <2>1, <2>2, <2>3, <3>1, ConnsFinite, LoadAssumption
    <2>4. CASE count' # NumJobs
      BY <2>1, <2>2, <2>4, LoadAssumption
    <2> QED
      BY <2>3, <2>4
  <1>3. ASSUME NEW c \in Conns, Stop(c) PROVE StopInv'
    BY <1>3, ConnsFinite, LoadAssumption DEF Stop, Running
  <1>4. CASE process' # "exited" /\ UNCHANGED sinkVars
    BY <1>4 DEF sinkVars
  <1>5. CASE UNCHANGED <<setup, process, sinkVars>>
    BY <1>5 DEF sinkVars, Dequeuing
  <1>6. CASE Connect \/ Generate
    BY <1>6, <1>4 DEF Connect, Generate, Running
  <1>7. ASSUME NEW c \in Conns, EnqStep(c) PROVE StopInv'
    BY <1>7, <1>5, EnqFrame
  <1>8. ASSUME NEW c \in Conns, DeqStep(c) \/ Look(c) PROVE StopInv'
    <2>1. CASE Count(c)
      BY <2>1, <1>2
    <2>2. CASE ~Count(c)
      <3>1. UNCHANGED <<setup, process>>
        BY <1>8, DeqFrame
      <3>2. UNCHANGED sinkVars
        BY <1>8, <2>2 DEF DeqStep, CallNext, LookInVain, Deadline, TimedOut, GotJob, Cancel, Look
      <3> QED
        BY <3>1, <3>2, <1>5
    <2> QED
      BY <2>1, <2>2
  <1>9. CASE OrphanTakes \/ OrphanEnds \/ StrayCancel \/ ServerDies \/ UNCHANGED vars
    BY <1>9, <1>5, OtherFrame DEF vars
  <1> QED
    BY <1>1, <1>3, <1>6, <1>7, <1>8, <1>9 DEF Next

-----------------------------------------------------------------------------
(* What steps do to the jobs in hand and to those accepted                 *)

LEMMA InHandIs ==
  \A j : j \in InHand <=> j # NoJob /\ \E c \in Conns : taken[c] = j \/ given[c] = j
  BY DEF InHand

LEMMA HandKept ==
  ASSUME UNCHANGED <<taken, given>>
  PROVE  InHand' = InHand
  BY DEF InHand

LEMMA HandGot ==
  ASSUME CallInv, NEW c \in Conns, GotJob(c)
  PROVE  InHand' = InHand
  <1>1. /\ taken' = [taken EXCEPT ![c] = given[c]] /\ given' = [given EXCEPT ![c] = NoJob]
        /\ handler[c] = "gave"
    BY DEF GotJob
  <1>2. deq[c] = "waiting" /\ taken[c] = NoJob
    BY <1>1 DEF CallInv, TakeTypes
  <1>3. taken'[c] = given[c] /\ given'[c] = NoJob
    BY <1>1 DEF CallInv, TakeTypes
  <1>4. \A d \in Conns : d # c => taken'[d] = taken[d] /\ given'[d] = given[d]
    BY <1>1 DEF CallInv, TakeTypes
  <1>5. \A j : j \in InHand' <=> j # NoJob /\ \E d \in Conns : taken'[d] = j \/ given'[d] = j
    BY DEF InHand
  <1>6. \A j : j \in InHand' <=> j \in InHand
    BY <1>2, <1>3, <1>4, <1>5, InHandIs
  <1> QED
    BY <1>6 DEF InHand

LEMMA HandLooked ==
  ASSUME CallInv, NEW c \in Conns, NEW j \in Jobs, handler[c] \in {"first", "loop"},
         given' = [given EXCEPT ![c] = j], UNCHANGED taken
  PROVE  InHand' = InHand \cup {j}
  <1>1. given[c] = NoJob /\ given'[c] = j /\ j # NoJob
    BY NoJobAssumption DEF CallInv, TakeTypes
  <1>2. \A d \in Conns : d # c => given'[d] = given[d]
    BY DEF CallInv, TakeTypes
  <1>3. \A k : k \in InHand' <=> k # NoJob /\ \E d \in Conns : taken'[d] = k \/ given'[d] = k
    BY DEF InHand
  <1>4. \A k : k \in InHand' <=> k \in InHand \cup {j}
    BY <1>1, <1>2, <1>3, InHandIs
  <1> QED
    BY <1>4 DEF InHand

LEMMA HandCounted ==
  ASSUME CallInv, PlaceInv, NEW c \in Conns, Count(c)
  PROVE  taken[c] \in InHand /\ InHand' = InHand \ {taken[c]}
  <1>1. taken' = [taken EXCEPT ![c] = NoJob] /\ given' = given /\ deq[c] = "send"
    BY DEF Count, handlerVars
  <1>2. taken[c] # NoJob /\ taken'[c] = NoJob /\ given[c] = NoJob
    BY <1>1 DEF CallInv, TakeTypes
  <1>3. \A d \in Conns : d # c => taken'[d] = taken[d] /\ taken[d] # taken[c]
    BY <1>1, <1>2 DEF CallInv, TakeTypes, PlaceInv
  <1>4. \A d \in Conns : given'[d] = given[d] /\ given[d] # taken[c]
    BY <1>1, <1>2 DEF PlaceInv
  <1>5. \A k : k \in InHand' <=> k # NoJob /\ \E d \in Conns : taken'[d] = k \/ given'[d] = k
    BY DEF InHand
  <1>6. \A k : k \in InHand' <=> k \in InHand /\ k # taken[c]
    BY <1>2, <1>3, <1>4, <1>5, InHandIs
  <1>7. taken[c] \in InHand
    BY <1>2, InHandIs
  <1> QED
    BY <1>6, <1>7 DEF InHand

LEMMA HandDied ==
  ASSUME NEW how, Dies(how)
  PROVE  InHand' = {}
  BY DEF Dies, InHand

LEMMA HandCutOff ==
  ASSUME ServerDies
  PROVE  InHand' \subseteq InHand
  BY DEF ServerDies, InHand

LEMMA AcceptedKept ==
  ASSUME UNCHANGED <<setup, handed, putting>>
  PROVE  Accepted' = Accepted
  BY DEF Accepted

\* A job that is being put is not accepted; to receive it changes nothing
LEMMA AcceptedReceived ==
  ASSUME PutInv, NEW c \in Conns, Receive(c)
  PROVE  Accepted' = Accepted
  <1> DEFINE j == [id |-> handed, run |-> "this"]
  <1>1. /\ setup' = setup /\ handed' = handed + 1 /\ enq[c] = "range"
        /\ putting' = [putting EXCEPT ![c] = j] /\ handed \in Nat
    BY LoadAssumption DEF Receive, PutInv, PutTypes
  <1>2. putting[c] = NoJob /\ putting'[c] = j
    BY <1>1 DEF PutInv, PutTypes
  <1>3. \A d \in Conns : d # c => putting'[d] = putting[d]
    BY <1>1 DEF PutInv, PutTypes
  <1>4. ASSUME NEW k \in JobsOf("this")
        PROVE  (k.id < handed /\ \A d \in Conns : putting[d] # k)
                 <=> (k.id < handed' /\ \A d \in Conns : putting'[d] # k)
    <2>1. k.id \in Nat /\ (k.id = handed => k = j)
      BY LoadAssumption DEF JobsOf, Ids
    <2>2. k # NoJob
      BY NoJobAssumption DEF Jobs
    <2>3. j.id = handed
      OBVIOUS
    <2>4. CASE k = j
      BY <1>2, <2>3, <2>4, <1>1
    <2>5. CASE k # j
      <3>1. k.id < handed' <=> k.id < handed
        BY <2>1, <2>5, <1>1
      <3> QED
        BY <3>1, <1>2, <1>3, <2>2, <2>5
    <2> QED
      BY <2>4, <2>5
  <1> QED
    BY <1>1, <1>4 DEF Accepted

LEMMA AcceptedPut ==
  ASSUME PutInv, NEW c \in Conns, putting[c] # NoJob, UNCHANGED <<setup, handed>>,
         putting' = [putting EXCEPT ![c] = NoJob], setup.left \subseteq JobsOf("earlier")
  PROVE  putting[c] \notin Accepted /\ Accepted' = Accepted \cup {putting[c]}
  <1>1. putting[c] \in JobsOf("this") /\ putting[c].id < handed
    BY DEF PutInv
  <1>2. putting[c] \notin setup.left
    BY <1>1 DEF JobsOf
  <1>3. putting'[c] = NoJob
    BY DEF PutInv, PutTypes
  <1>4. \A d \in Conns : d # c => putting'[d] = putting[d] /\ putting[d] # putting[c]
    BY DEF PutInv, PutTypes
  <1>5. \A k \in JobsOf("this") : k # NoJob
    BY NoJobAssumption DEF Jobs
  <1>6. \A k \in JobsOf("this") :
          (\A d \in Conns : putting'[d] # k) <=> k = putting[c] \/ \A d \in Conns : putting[d] # k
    BY <1>3, <1>4, <1>5
  <1> QED
    BY <1>1, <1>2, <1>6 DEF Accepted

LEMMA LeftIsEarlier ==
  PlaceInv => setup.left \subseteq JobsOf("earlier") /\ setup.orphans \in Nat
  BY LoadAssumption DEF PlaceInv, BaseTypes, Setups

-----------------------------------------------------------------------------
LEMMA PlaceInit == Init => PlaceInv
  <1> SUFFICES ASSUME Init PROVE PlaceInv
    OBVIOUS
  <1>1. InHand = {} /\ Removed = {}
    BY DEF Init, InHand, Removed
  <1>2. Accepted = setup.left
    BY DEF Init, Accepted, JobsOf, Ids
  <1>3. BaseTypes
    BY DEF Init, BaseTypes, Setups, Processes, Jobs
  <1> QED
    BY <1>1, <1>2, <1>3 DEF Init, PlaceInv

LEMMA PlaceDies ==
  ASSUME PlaceInv, CallInv, NEW how \in Processes, Dies(how)
  PROVE  PlaceInv'
  <1>1. /\ UNCHANGED <<setup, serverUp, queue, cancelled, counted, handed, putting>>
        /\ lost' = lost \cup InHand /\ process' = how
        /\ given' = [c \in Conns |-> NoJob] /\ taken' = [c \in Conns |-> NoJob]
    BY DEF Dies, genVars, enqVars, sinkVars
  <1>2. InHand' = {} /\ Accepted' = Accepted
    BY <1>1, HandDied, AcceptedKept
  <1>3. Removed' = Removed \cup InHand
    BY <1>1 DEF Removed
  <1>4. InHand \subseteq Jobs
    BY DEF InHand, CallInv, TakeTypes
  <1>5. BaseTypes'
    BY <1>1, <1>4 DEF BaseTypes, PlaceInv
  <1>6. \A c \in Conns : given'[c] = NoJob /\ taken'[c] = NoJob
    BY <1>1
  <1>7. counted \cap InHand = {} /\ cancelled \cap InHand = {}
    BY DEF PlaceInv, Removed
  <1> QED
    BY <1>1, <1>2, <1>3, <1>5, <1>6, <1>7 DEF PlaceInv

LEMMA PlacePut ==
  ASSUME PlaceInv, PutInv, NEW c \in Conns, PutWithID(c)
  PROVE  PlaceInv'
  <1>1. /\ UNCHANGED <<setup, process, serverUp, cancelled, lost, counted, handed, taken, given>>
        /\ serverUp /\ enq[c] \in {"put", "fenced"}
    BY DEF PutWithID, genVars, deqVars, handlerVars, sinkVars
  <1>2. InHand' = InHand /\ Removed' = Removed
    BY <1>1, HandKept DEF Removed
  <1>3. CASE UNCHANGED <<queue, putting>>
    <2>1. Accepted' = Accepted
      BY <1>1, <1>3, AcceptedKept
    <2> QED
      BY <1>1, <1>2, <1>3, <2>1 DEF PlaceInv, BaseTypes
  <1>4. CASE queue' = queue \cup {putting[c]} /\ putting' = [putting EXCEPT ![c] = NoJob]
    <2>1. putting[c] # NoJob /\ putting[c] \in Jobs
      BY <1>1 DEF PutInv, PutTypes
    <2>2. putting[c] \notin Accepted /\ Accepted' = Accepted \cup {putting[c]}
      BY <1>1, <1>4, <2>1, LeftIsEarlier, AcceptedPut
    <2>3. putting[c] \notin InHand \cup Removed
      BY <1>1, <2>2 DEF PlaceInv
    <2>4. BaseTypes'
      BY <1>1, <1>4, <2>1 DEF PlaceInv, BaseTypes
    <2> QED
      BY <1>1, <1>2, <1>4, <2>2, <2>3, <2>4 DEF PlaceInv
  <1> QED
    BY <1>3, <1>4 DEF PutWithID

LEMMA PlaceLook ==
  ASSUME PlaceInv, CallInv, NEW c \in Conns, Look(c)
  PROVE  PlaceInv'
  <1>1. /\ UNCHANGED <<setup, process, serverUp, cancelled, lost, counted, handed, putting, taken>>
        /\ handler[c] \in {"first", "loop"}
    BY DEF Look, genVars, enqVars, deqVars, sinkVars
  <1>2. PICK j \in queue : queue' = queue \ {j} /\ given' = [given EXCEPT ![c] = j]
    BY DEF Look
  <1>3. j \in Jobs
    BY DEF PlaceInv, BaseTypes
  <1>4. InHand' = InHand \cup {j} /\ Removed' = Removed /\ Accepted' = Accepted
    BY <1>1, <1>2, <1>3, HandLooked, AcceptedKept DEF Removed
  <1>5. BaseTypes'
    BY <1>1, <1>2 DEF PlaceInv, BaseTypes
  <1>6. j \notin InHand /\ j \notin Removed
    BY DEF PlaceInv
  <1>7. /\ given'[c] = j
        /\ \A d \in Conns : d # c => given'[d] = given[d]
        /\ \A d \in Conns : taken'[d] = taken[d]
    BY <1>1, <1>2 DEF CallInv, TakeTypes
  <1>8. \A d \in Conns : taken[d] # j /\ given[d] # j
    BY <1>3, <1>6, InHandIs, NoJobAssumption
  <1>9. \A d, e \in Conns :
       /\ taken'[d] = given'[e] => taken'[d] = NoJob
       /\ taken'[d] = taken'[e] => d = e \/ taken'[d] = NoJob
       /\ given'[d] = given'[e] => d = e \/ given'[d] = NoJob
    BY <1>7, <1>8 DEF PlaceInv
  <1> QED
    BY <1>1, <1>2, <1>4, <1>5, <1>6, <1>9 DEF PlaceInv

LEMMA PlaceGot ==
  ASSUME PlaceInv, CallInv, NEW c \in Conns, GotJob(c)
  PROVE  PlaceInv'
  <1>1. /\ UNCHANGED <<setup, process, serverUp, queue, cancelled, lost, counted, handed, putting>>
        /\ taken' = [taken EXCEPT ![c] = given[c]] /\ given' = [given EXCEPT ![c] = NoJob]
    BY DEF GotJob, hubVars, genVars, enqVars, sinkVars
  <1>2. InHand' = InHand /\ Removed' = Removed /\ Accepted' = Accepted
    BY <1>1, HandGot, AcceptedKept DEF Removed
  <1>3. BaseTypes'
    BY <1>1 DEF PlaceInv, BaseTypes
  <1>4. /\ taken'[c] = given[c] /\ given'[c] = NoJob
        /\ \A d \in Conns : d # c => taken'[d] = taken[d] /\ given'[d] = given[d]
    BY <1>1 DEF CallInv, TakeTypes
  <1>5. \A d, e \in Conns :
       /\ taken'[d] = given'[e] => taken'[d] = NoJob
       /\ taken'[d] = taken'[e] => d = e \/ taken'[d] = NoJob
       /\ given'[d] = given'[e] => d = e \/ given'[d] = NoJob
    BY <1>4 DEF PlaceInv
  <1> QED
    BY <1>1, <1>2, <1>3, <1>5 DEF PlaceInv

LEMMA PlaceCancel ==
  ASSUME PlaceInv, StrayCancel \/ \E c \in Conns : Cancel(c)
  PROVE  PlaceInv'
  <1>1. UNCHANGED <<setup, process, serverUp, lost, counted, handed, putting, taken, given>>
    BY DEF Cancel, StrayCancel, genVars, enqVars, handlerVars, sinkVars
  <1>2. PICK js \in SUBSET queue : queue' = queue \ js /\ cancelled' = cancelled \cup js
    BY DEF Cancel, StrayCancel, PendingWith
  <1>3. InHand' = InHand /\ Removed' = Removed \cup js /\ Accepted' = Accepted
    BY <1>1, <1>2, HandKept, AcceptedKept DEF Removed
  <1>4. BaseTypes'
    BY <1>1, <1>2 DEF PlaceInv, BaseTypes
  <1>5. js \cap (InHand \cup Removed) = {} /\ js \cap counted = {} /\ js \cap lost = {}
    BY DEF PlaceInv, Removed
  <1> QED
    BY <1>1, <1>2, <1>3, <1>4, <1>5 DEF PlaceInv

LEMMA PlaceCount ==
  ASSUME PlaceInv, CallInv, NEW c \in Conns, Count(c)
  PROVE  PlaceInv'
  <1>1. /\ UNCHANGED <<setup, process, serverUp, queue, cancelled, lost, handed, putting, given>>
        /\ counted' = counted \cup {taken[c]} /\ taken' = [taken EXCEPT ![c] = NoJob]
    BY DEF Count, hubVars, genVars, enqVars, handlerVars
  <1>2. /\ taken[c] \in InHand /\ InHand' = InHand \ {taken[c]}
        /\ Removed' = Removed \cup {taken[c]} /\ Accepted' = Accepted
    BY <1>1, HandCounted, AcceptedKept DEF Removed
  <1>3. BaseTypes'
    BY <1>1 DEF PlaceInv, BaseTypes
  <1>4. taken[c] \notin queue /\ taken[c] \notin cancelled /\ taken[c] \notin lost
    BY <1>2 DEF PlaceInv, Removed
  <1>5. taken'[c] = NoJob /\ \A d \in Conns : d # c => taken'[d] = taken[d]
    BY <1>1 DEF CallInv, TakeTypes
  <1>6. \A d, e \in Conns :
       /\ taken'[d] = given'[e] => taken'[d] = NoJob
       /\ taken'[d] = taken'[e] => d = e \/ taken'[d] = NoJob
       /\ given'[d] = given'[e] => d = e \/ given'[d] = NoJob
    BY <1>1, <1>5 DEF PlaceInv
  <1> QED
    BY <1>1, <1>2, <1>3, <1>4, <1>6 DEF PlaceInv

LEMMA PlaceOrphan ==
  ASSUME PlaceInv, OrphanTakes
  PROVE  PlaceInv'
  <1>1. UNCHANGED <<setup, process, serverUp, cancelled, counted, handed, putting, taken, given>>
    BY DEF OrphanTakes, genVars, enqVars, deqVars, sinkVars
  <1>2. PICK j \in queue : queue' = queue \ {j} /\ lost' = lost \cup {j}
    BY DEF OrphanTakes
  <1>3. InHand' = InHand /\ Removed' = Removed \cup {j} /\ Accepted' = Accepted
    BY <1>1, <1>2, HandKept, AcceptedKept DEF Removed
  <1>4. BaseTypes'
    BY <1>1, <1>2 DEF PlaceInv, BaseTypes
  <1>5. j \notin InHand \cup Removed /\ j \notin counted /\ j \notin cancelled
    BY DEF PlaceInv, Removed
  <1> QED
    BY <1>1, <1>2, <1>3, <1>4, <1>5 DEF PlaceInv

LEMMA PlaceServerDies ==
  ASSUME PlaceInv, CallInv, ServerDies
  PROVE  PlaceInv'
  <1>1. /\ UNCHANGED <<setup, process, cancelled, lost, counted, taken>>
        /\ serverUp' = FALSE /\ queue' = {} /\ given' = [c \in Conns |-> NoJob]
    BY DEF ServerDies, sinkVars
  <1>2. InHand' \subseteq InHand /\ Removed' = Removed
    BY <1>1, HandCutOff DEF Removed
  <1>3. BaseTypes'
    BY <1>1 DEF PlaceInv, BaseTypes
  <1>4. \A c \in Conns : given'[c] = NoJob
    BY <1>1
  <1>5. \A d, e \in Conns :
       /\ taken'[d] = given'[e] => taken'[d] = NoJob
       /\ taken'[d] = taken'[e] => d = e \/ taken'[d] = NoJob
       /\ given'[d] = given'[e] => d = e \/ given'[d] = NoJob
    BY <1>1, <1>4 DEF PlaceInv
  <1> QED
    BY <1>1, <1>2, <1>3, <1>5 DEF PlaceInv

\* Steps that move no job, and change no more than where the goroutines are
LEMMA PlaceQuiet ==
  ASSUME PlaceInv, process' \in Processes, Accepted' = Accepted,
         UNCHANGED <<setup, serverUp, queue, cancelled, lost, counted, taken, given>>
  PROVE  PlaceInv'
  <1>1. InHand' = InHand /\ Removed' = Removed
    BY HandKept DEF Removed
  <1> QED
    BY <1>1 DEF PlaceInv, BaseTypes

LEMMA PlaceNext == PutInv /\ CallInv /\ PlaceInv /\ [Next]_vars => PlaceInv'
  <1> SUFFICES ASSUME PutInv, CallInv, PlaceInv, [Next]_vars PROVE PlaceInv'
    OBVIOUS
  <1>0. process \in Processes
    BY DEF PlaceInv, BaseTypes
  <1>1. CASE Ends
    BY <1>1, EndsDies, PlaceDies DEF Exit, Processes
  <1>2. CASE Connect \/ Generate \/ OrphanEnds \/ UNCHANGED vars
    <2>1. UNCHANGED <<setup, serverUp, queue, cancelled, lost, counted, taken, given, handed, putting>>
      BY <1>2 DEF Connect, Generate, OrphanEnds, vars, hubVars, genVars, enqVars, deqVars,
                  handlerVars, sinkVars
    <2>2. process' \in Processes
      BY <1>0, <1>2 DEF Connect, Generate, OrphanEnds, vars, Processes
    <2> QED
      BY <2>1, <2>2, PlaceQuiet, AcceptedKept
  <1>3. ASSUME NEW c \in Conns, Receive(c) \/ RangeEnds(c) \/ FenceHolds(c) PROVE PlaceInv'
    <2>1. UNCHANGED <<setup, process, serverUp, queue, cancelled, lost, counted, taken, given>>
      BY <1>3 DEF Receive, RangeEnds, FenceHolds, hubVars, deqVars, handlerVars, sinkVars
    <2>2. Accepted' = Accepted
      BY <1>3, AcceptedReceived, AcceptedKept DEF RangeEnds, FenceHolds, genVars
    <2> QED
      BY <1>0, <2>1, <2>2, PlaceQuiet
  <1>4. ASSUME NEW c \in Conns, CallNext(c) \/ LookInVain(c) \/ Deadline(c) \/ TimedOut(c) \/ Stop(c)
        PROVE  PlaceInv'
    <2>1. UNCHANGED <<setup, process, serverUp, queue, cancelled, lost, counted, taken, given, handed, putting>>
      BY <1>4 DEF CallNext, LookInVain, Deadline, TimedOut, Stop, hubVars, genVars, enqVars,
                  deqVars, handlerVars, sinkVars
    <2> QED
      BY <1>0, <2>1, PlaceQuiet, AcceptedKept
  <1>5. ASSUME NEW c \in Conns, EnqStep(c) PROVE PlaceInv'
    BY <1>5, <1>3, PlacePut DEF EnqStep
  <1>6. ASSUME NEW c \in Conns, DeqStep(c) \/ Look(c) PROVE PlaceInv'
    BY <1>6, <1>4, PlaceLook, PlaceGot, PlaceCancel, PlaceCount DEF DeqStep
  <1> QED
    BY <1>1, <1>2, <1>4, <1>5, <1>6, PlaceOrphan, PlaceCancel, PlaceServerDies DEF Next

-----------------------------------------------------------------------------
(* The cancels of a client that is gone                                    *)

LEMMA StrayInit == Init => StrayInv
  BY DEF Init, StrayInv

\* Jobs that have left the hub do not come back
LEMMA StrayKept ==
  ASSUME StrayInv, strays' \subseteq strays, serverUp' => serverUp,
         Accepted \subseteq Accepted', queue' \cap Accepted \subseteq queue
  PROVE  StrayInv'
  BY DEF StrayInv

LEMMA StrayEnds ==
  ASSUME PlaceInv, CallInv, Ends
  PROVE  StrayInv'
  <1>1. \E how : Dies(how)
    BY EndsDies DEF Exit
  <1>2. /\ UNCHANGED <<setup, serverUp, queue, handed, putting>>
        /\ strays' = {taken[c].id : c \in {d \in Conns : deq[d] = "cancel"}}
    BY <1>1 DEF Dies, genVars, enqVars
  <1>3. ASSUME NEW c \in Conns, deq[c] = "cancel"
        PROVE  taken[c] \in InHand /\ taken[c].id \in Ids
    <2>1. taken[c] # NoJob /\ taken[c] \in Jobs
      BY <1>3 DEF CallInv, TakeTypes
    <2> QED
      BY <2>1, InHandIs DEF Jobs, JobsOf
  <1>4. serverUp => InHand \subseteq Accepted \ queue
    BY DEF PlaceInv
  <1>5. Accepted' = Accepted
    BY <1>2, AcceptedKept
  <1> QED
    BY <1>2, <1>3, <1>4, <1>5 DEF StrayInv

LEMMA StrayNext == PutInv /\ CallInv /\ PlaceInv /\ StrayInv /\ [Next]_vars => StrayInv'
  <1> SUFFICES ASSUME PutInv, CallInv, PlaceInv, StrayInv, [Next]_vars PROVE StrayInv'
    OBVIOUS
  <1>1. CASE Connect \/ Generate \/ UNCHANGED vars
    <2>1. UNCHANGED <<setup, serverUp, queue, handed, putting, strays>>
      BY <1>1 DEF Connect, Generate, vars, hubVars, genVars, enqVars, deqVars
    <2> QED
      BY <2>1, AcceptedKept, StrayKept
  <1>2. CASE OrphanTakes \/ OrphanEnds \/ StrayCancel \/ ServerDies
    <2>1. /\ UNCHANGED <<setup, handed, putting>> /\ strays' \subseteq strays
          /\ queue' \subseteq queue /\ (serverUp' => serverUp)
      BY <1>2 DEF OrphanTakes, OrphanEnds, StrayCancel, ServerDies, hubVars, genVars, enqVars,
                  deqVars
    <2> QED
      BY <2>1, AcceptedKept, StrayKept
  <1>3. ASSUME NEW c \in Conns, Receive(c) \/ RangeEnds(c) \/ FenceHolds(c) PROVE StrayInv'
    <2>1. UNCHANGED <<serverUp, queue, strays>>
      BY <1>3 DEF Receive, RangeEnds, FenceHolds, hubVars, deqVars
    <2>2. Accepted' = Accepted
      BY <1>3, AcceptedReceived, AcceptedKept DEF RangeEnds, FenceHolds, genVars
    <2> QED
      BY <2>1, <2>2, StrayKept
  <1>4. ASSUME NEW c \in Conns, PutWithID(c) PROVE StrayInv'
    <2>1. UNCHANGED <<setup, handed, serverUp, strays>> /\ putting[c] # NoJob
      BY <1>4 DEF PutWithID, genVars, deqVars, PutInv, PutTypes
    <2>2. CASE UNCHANGED <<queue, putting>>
      BY <2>1, <2>2, AcceptedKept, StrayKept
    <2>3. CASE queue' = queue \cup {putting[c]} /\ putting' = [putting EXCEPT ![c] = NoJob]
      BY <2>1, <2>3, LeftIsEarlier, AcceptedPut, StrayKept
    <2> QED
      BY <1>4, <2>2, <2>3 DEF PutWithID
  <1>5. ASSUME NEW c \in Conns, DeqStep(c) \/ Look(c) \/ Stop(c) PROVE StrayInv'
    <2>1. UNCHANGED <<setup, serverUp, handed, putting, strays>>
      BY <1>5, DeqFrame DEF genVars, enqVars
    <2>2. queue' \subseteq queue
      BY <1>5 DEF DeqStep, CallNext, LookInVain, Deadline, TimedOut, GotJob, Cancel, Count, Look,
                  Stop, hubVars
    <2> QED
      BY <2>1, <2>2, AcceptedKept, StrayKept
  <1> QED
    BY <1>1, <1>2, <1>3, <1>4, <1>5, StrayEnds DEF Next, EnqStep

-----------------------------------------------------------------------------
(* Ids that are used again                                                 *)

LEMMA HurtInit == Init => HurtInv
  BY DEF Init, HurtInv, OnlyReusedIdsHurt, Accepted, JobsOf, Ids, EnqPlaces, Setups

\* Two jobs of one run with one id are one job
LEMMA JobsAre ==
  /\ \A j \in Jobs : j = [id |-> j.id, run |-> j.run] /\ j.run \in {"this", "earlier"}
  /\ \A j \in JobsOf("earlier") : j \in Jobs /\ j.run = "earlier"
  /\ \A j \in JobsOf("this") : j \in Jobs /\ j.run = "this"
  BY DEF Jobs, JobsOf

\* An accepted job that this load test has not put is one that an earlier left
LEMMA AcceptedRuns ==
  ASSUME NEW j \in Accepted
  PROVE  j \in setup.left \/ j.run = "this"
  <1>1. j \in setup.left \/ j \in JobsOf("this")
    BY DEF Accepted
  <1>2. \A k \in JobsOf("this") : k.run = "this"
    BY JobsAre
  <1> QED
    BY <1>1, <1>2

\* Steps by which nothing is accepted, put, cancelled or made to fail
LEMMA HurtKept ==
  ASSUME HurtInv, UNCHANGED <<setup, enq, putting, cancelled>>,
         serverUp' => serverUp, queue' \subseteq queue, Accepted' = Accepted,
         process' = "failed" /\ serverUp' => process = "failed" \/ setup.left # {}
  PROVE  HurtInv'
  BY DEF HurtInv, OnlyReusedIdsHurt, LeftWith

LEMMA HurtEnds ==
  ASSUME PlaceInv, CallInv, HurtInv, Ends
  PROVE  HurtInv'
  <1>1. \E how : Dies(how)
    BY EndsDies DEF Exit
  <1>2. /\ UNCHANGED <<setup, enq, putting, cancelled, serverUp, queue, handed>>
    BY <1>1 DEF Dies, genVars, enqVars
  <1>3. ASSUME NEW c \in Conns, PutRefused(c) PROVE setup.left # {}
    BY <1>3 DEF PutRefused, HurtInv, OnlyReusedIdsHurt, LeftWith
  <1>4. ASSUME NEW c \in Conns, Invalid(c), serverUp PROVE setup.left # {}
    <2>1. taken[c] # NoJob /\ taken[c].run # "this"
      BY <1>4 DEF Invalid, Valid, CallInv, TakeTypes
    <2>2. taken[c] \in Accepted
      BY <1>4, <2>1, InHandIs DEF PlaceInv
    <2> QED
      BY <2>1, <2>2, AcceptedRuns
  <1>5. process' = "failed" /\ serverUp' => setup.left # {}
    BY <1>2, <1>3, <1>4 DEF Ends, ConnectFails, CallFails, Exit, Dies
  <1> QED
    BY <1>2, <1>5, AcceptedKept, HurtKept

LEMMA HurtPut ==
  ASSUME PlaceInv, PutInv, HurtInv, NEW c \in Conns, PutWithID(c)
  PROVE  HurtInv'
  <1> DEFINE p == putting[c]
  <1>1. UNCHANGED <<setup, process, serverUp, cancelled, handed>> /\ serverUp
        /\ enq[c] \in {"put", "fenced"}
    BY DEF PutWithID, genVars
  <1>2. p # NoJob /\ p \in JobsOf("this") /\ p \in Jobs /\ p.run = "this"
    BY <1>1, JobsAre DEF PutInv, PutTypes
  <1>3. \A d \in Conns : d # c => enq'[d] = enq[d] /\ putting'[d] = putting[d]
    BY DEF PutWithID, PutInv, PutTypes
  <1>4. setup.left \subseteq JobsOf("earlier")
    BY LeftIsEarlier
  <1>5. CASE PendingWith(p.id) # {}
    <2>1. enq' = [enq EXCEPT ![c] = "refused"] /\ UNCHANGED <<queue, putting>>
      BY <1>5 DEF PutWithID
    <2>2. PICK j \in queue : j.id = p.id
      BY <1>5 DEF PendingWith
    <2>3. j \in Accepted /\ j \in Jobs
      BY <1>1, <2>2 DEF PlaceInv, BaseTypes
    <2>4. j # p
      BY <1>2, <1>4, <2>3, JobsAre DEF Accepted
    <2>5. j \in setup.left
      BY <1>2, <2>2, <2>3, <2>4, AcceptedRuns, JobsAre
    <2>6. LeftWith(putting'[c].id) # {}
      BY <1>1, <2>1, <2>2, <2>5 DEF LeftWith
    <2>7. \A d \in Conns : enq'[d] = "refused" => LeftWith(putting'[d].id) # {}
      BY <1>1, <1>3, <2>6 DEF HurtInv, OnlyReusedIdsHurt, LeftWith
    <2>8. Accepted' = Accepted
      BY <1>1, <2>1, AcceptedKept
    <2> QED
      BY <1>1, <2>1, <2>7, <2>8 DEF HurtInv, OnlyReusedIdsHurt, LeftWith
  <1>6. CASE PendingWith(p.id) = {}
    <2>1. /\ queue' = queue \cup {p} /\ enq' = [enq EXCEPT ![c] = "range"]
          /\ putting' = [putting EXCEPT ![c] = NoJob]
      BY <1>6 DEF PutWithID
    <2>2. Accepted' = Accepted \cup {p}
      BY <1>1, <1>2, <1>4, <2>1, AcceptedPut
    <2>3. \A j \in queue : j.id # p.id
      BY <1>6 DEF PendingWith
    <2>4. \A d \in Conns : enq'[d] = "refused" => LeftWith(putting'[d].id) # {}
      <3>1. enq'[c] # "refused"
        BY <2>1 DEF PutInv, PutTypes
      <3> QED
        BY <1>1, <1>3, <3>1 DEF HurtInv, OnlyReusedIdsHurt, LeftWith
    <2>5. \A j \in queue', k \in Accepted' : j.run = "earlier" /\ k.id = j.id => k = j
      BY <1>1, <1>2, <2>1, <2>2, <2>3 DEF HurtInv
    <2> QED
      BY <1>1, <2>4, <2>5 DEF HurtInv, OnlyReusedIdsHurt, LeftWith
  <1> QED
    BY <1>5, <1>6

\* Where a job is no longer pending, all that a cancel of its id can take is a job
\* that was put again
LEMMA HurtCancel ==
  ASSUME PlaceInv, HurtInv, serverUp, NEW k \in Accepted \ queue,
         queue' = queue \ PendingWith(k.id), cancelled' = cancelled \cup PendingWith(k.id),
         UNCHANGED <<setup, process, serverUp, enq, putting, handed>>
  PROVE  HurtInv'
  <1> DEFINE js == PendingWith(k.id)
  <1>1. k \in Jobs
    BY LeftIsEarlier, JobsAre DEF Accepted
  <1>2. ASSUME NEW j \in js PROVE j.run = "this" /\ LeftWith(j.id) # {}
    <2>1. j \in queue /\ j \in Jobs /\ j \in Accepted /\ j.id = k.id /\ j # k
      BY DEF PendingWith, PlaceInv, BaseTypes
    <2>2. j.run # "earlier"
      BY <2>1 DEF HurtInv
    <2>3. j.run = "this"
      BY <2>1, <2>2, JobsAre
    <2>4. k \in setup.left
      BY <1>1, <2>1, <2>3, AcceptedRuns, JobsAre
    <2> QED
      BY <2>1, <2>3, <2>4 DEF LeftWith
  <1>3. Accepted' = Accepted
    BY AcceptedKept
  <1> QED
    BY <1>2, <1>3 DEF HurtInv, OnlyReusedIdsHurt, LeftWith

LEMMA HurtTakenCancel ==
  ASSUME PlaceInv, CallInv, HurtInv, NEW c \in Conns, Cancel(c)
  PROVE  HurtInv'
  <1>1. /\ UNCHANGED <<setup, process, serverUp, enq, putting, handed>>
        /\ serverUp /\ deq[c] = "cancel"
        /\ queue' = queue \ PendingWith(taken[c].id)
        /\ cancelled' = cancelled \cup PendingWith(taken[c].id)
    BY DEF Cancel, genVars, enqVars
  <1>2. taken[c] \in Accepted \ queue
    <2>1. taken[c] \in InHand
      BY <1>1, InHandIs DEF CallInv, TakeTypes
    <2> QED
      BY <1>1, <2>1 DEF PlaceInv
  <1> QED
    BY <1>1, <1>2, HurtCancel

LEMMA HurtStrayCancel ==
  ASSUME PlaceInv, StrayInv, HurtInv, StrayCancel
  PROVE  HurtInv'
  <1>1. serverUp /\ UNCHANGED <<setup, process, serverUp, enq, putting, handed>>
    BY DEF StrayCancel, genVars, enqVars
  <1>2. PICK id \in strays : queue' = queue \ PendingWith(id)
                              /\ cancelled' = cancelled \cup PendingWith(id)
    BY DEF StrayCancel
  <1>3. PICK k \in Accepted \ queue : k.id = id
    BY <1>1 DEF StrayInv
  <1> QED
    BY <1>1, <1>2, <1>3, HurtCancel

LEMMA HurtNext ==
  PutInv /\ CallInv /\ PlaceInv /\ StrayInv /\ HurtInv /\ [Next]_vars => HurtInv'
  <1> SUFFICES ASSUME PutInv, CallInv, PlaceInv, StrayInv, HurtInv, [Next]_vars PROVE HurtInv'
    OBVIOUS
  <1>1. CASE Connect \/ Generate \/ OrphanTakes \/ OrphanEnds \/ ServerDies \/ UNCHANGED vars
    <2>1. /\ UNCHANGED <<setup, putting, cancelled, handed>> /\ queue' \subseteq queue
          /\ serverUp' => serverUp
          /\ process' = "failed" => process = "failed"
      BY <1>1 DEF Connect, Generate, OrphanTakes, OrphanEnds, ServerDies, vars, hubVars, genVars,
                  enqVars
    <2>2. CASE UNCHANGED enq
      BY <2>1, <2>2, HurtKept, AcceptedKept
    <2>3. CASE Connect
      <3>1. \A c \in Conns : enq'[c] # "refused"
        BY <2>3 DEF Connect
      <3>2. Accepted' = Accepted
        BY <2>1, AcceptedKept
      <3> QED
        BY <2>1, <3>1, <3>2 DEF HurtInv, OnlyReusedIdsHurt, LeftWith
    <2> QED
      BY <1>1, <2>2, <2>3 DEF Generate, OrphanTakes, OrphanEnds, ServerDies, vars, enqVars
  <1>2. ASSUME NEW c \in Conns, Receive(c) \/ RangeEnds(c) \/ FenceHolds(c) PROVE HurtInv'
    <2>1. UNCHANGED <<setup, process, serverUp, queue, cancelled>>
      BY <1>2 DEF Receive, RangeEnds, FenceHolds, hubVars
    <2>2. Accepted' = Accepted
      BY <1>2, AcceptedReceived, AcceptedKept DEF RangeEnds, FenceHolds, genVars
    <2>3. \A d \in Conns : enq'[d] = "refused" => enq[d] = "refused" /\ putting'[d] = putting[d]
      BY <1>2 DEF Receive, RangeEnds, FenceHolds, PutInv, PutTypes
    <2> QED
      BY <2>1, <2>2, <2>3 DEF HurtInv, OnlyReusedIdsHurt, LeftWith
  <1>3. ASSUME NEW c \in Conns, (DeqStep(c) \/ Look(c) \/ Stop(c)) /\ ~Cancel(c) PROVE HurtInv'
    <2>1. UNCHANGED <<setup, process, serverUp, handed, enq, putting>>
      BY <1>3, DeqFrame DEF genVars, enqVars
    <2>2. UNCHANGED cancelled /\ queue' \subseteq queue
      BY <1>3 DEF DeqStep, CallNext, LookInVain, Deadline, TimedOut, GotJob, Count, Look, Stop,
                  hubVars
    <2> QED
      BY <2>1, <2>2, HurtKept, AcceptedKept
  <1> QED
    BY <1>1, <1>2, <1>3, HurtEnds, HurtPut, HurtTakenCancel, HurtStrayCancel
    DEF Next, EnqStep, DeqStep

-----------------------------------------------------------------------------
(* How many jobs are lost                                                  *)

LEMMA NumberInit == Init => NumberInv
  <1> SUFFICES ASSUME Init PROVE NumberInv
    OBVIOUS
  <1>1. setup.orphans \in Nat /\ orphans = setup.orphans
    BY LoadAssumption DEF Init, Setups
  <1> QED
    BY <1>1, FS_EmptySet, ConnsFinite DEF Init, NumberInv

\* A connection polls, or has a job, or neither
LEMMA OneEach ==
  ASSUME CallInv
  PROVE  LET polling == {c \in Conns : handler[c] \in {"first", "loop"}}
         IN  /\ IsFiniteSet(polling) /\ IsFiniteSet(InHand)
             /\ Cardinality(polling) \in Nat /\ Cardinality(InHand) \in Nat
             /\ Cardinality(InHand) + Cardinality(polling) <= Cardinality(Conns)
  <1> DEFINE polling == {c \in Conns : handler[c] \in {"first", "loop"}}
             holding == {c \in Conns : taken[c] # NoJob \/ given[c] # NoJob}
             held == [c \in holding |-> IF taken[c] # NoJob THEN taken[c] ELSE given[c]]
  <1>1. polling \in SUBSET Conns /\ holding \in SUBSET Conns
    OBVIOUS
  <1>2. polling \cap holding = {}
    BY DEF CallInv, TakeTypes
  <1>3. held \in Surjection(holding, InHand)
    <2>1. \A c \in holding : taken[c] = NoJob \/ given[c] = NoJob
      BY DEF CallInv, TakeTypes
    <2>2. \A c \in holding : held[c] \in InHand
      BY InHandIs
    <2>3. \A j \in InHand : \E c \in holding : held[c] = j
      BY <2>1, InHandIs
    <2>4. held \in [holding -> InHand]
      BY <2>2
    <2> HIDE DEF held, holding
    <2> QED
      BY <2>3, <2>4 DEF Surjection
  <1> HIDE DEF polling, holding, held
  <1>4. IsFiniteSet(polling) /\ IsFiniteSet(holding)
    BY <1>1, FS_Subset, LoadAssumption
  <1>5. IsFiniteSet(InHand) /\ Cardinality(InHand) <= Cardinality(holding)
    BY <1>3, <1>4, FS_Surjection
  <1>6. Cardinality(polling \cup holding) = Cardinality(polling) + Cardinality(holding) - Cardinality(polling \cap holding)
    BY <1>4, FS_Union
  <1>7. Cardinality(polling \cap holding) = 0
    BY <1>2, FS_EmptySet
  <1>8. polling \cup holding \in SUBSET Conns
    BY <1>1
  <1>9. Cardinality(polling \cup holding) <= Cardinality(Conns)
    BY <1>8, FS_Subset, LoadAssumption
  <1>10. /\ Cardinality(polling) \in Nat /\ Cardinality(holding) \in Nat
         /\ Cardinality(InHand) \in Nat
    BY <1>4, <1>5, FS_CardinalityType
  <1>11. Cardinality(InHand) + Cardinality(polling) <= Cardinality(Conns)
    BY <1>5, <1>6, <1>7, <1>9, <1>10, ConnsFinite
  <1> QED
    BY <1>4, <1>5, <1>10, <1>11 DEF polling

LEMMA NumberDies ==
  ASSUME PlaceInv, CallInv, NumberInv, process \in {"connecting", "running"},
         NEW how \in {"exited", "failed"}, Dies(how)
  PROVE  NumberInv'
  <1> DEFINE polling == {c \in Conns : handler[c] \in {"first", "loop"}}
  <1>1. /\ UNCHANGED <<setup, count, counted>> /\ process' \in {"exited", "failed"}
        /\ lost' = lost \cup InHand /\ orphans' = orphans + Cardinality(polling)
    BY DEF Dies, sinkVars
  <1>2. /\ IsFiniteSet(InHand) /\ Cardinality(polling) \in Nat /\ Cardinality(InHand) \in Nat
        /\ Cardinality(InHand) + Cardinality(polling) <= Cardinality(Conns)
    BY OneEach
  <1> HIDE DEF polling
  <1>3. lost \cap InHand = {}
    BY DEF PlaceInv, Removed
  <1>4. IsFiniteSet(lost') /\ Cardinality(lost') = Cardinality(lost) + Cardinality(InHand) - Cardinality(lost \cap InHand)
    BY <1>1, <1>2, FS_Union DEF NumberInv
  <1>5. Cardinality(lost \cap InHand) = 0
    BY <1>3, FS_EmptySet
  <1>6. Cardinality(lost) \in Nat /\ Cardinality(lost) + orphans <= setup.orphans /\ orphans \in Nat
    BY FS_CardinalityType DEF NumberInv
  <1>7. setup.orphans \in Nat
    BY LeftIsEarlier
  <1>8. Cardinality(lost') + orphans' <= setup.orphans + Cardinality(Conns)
    BY <1>1, <1>2, <1>4, <1>5, <1>6, <1>7, ConnsFinite
  <1> QED
    BY <1>1, <1>2, <1>4, <1>6, <1>8 DEF NumberInv

LEMMA NumberNext == CallInv /\ PlaceInv /\ NumberInv /\ [Next]_vars => NumberInv'
  <1> SUFFICES ASSUME CallInv, PlaceInv, NumberInv, [Next]_vars PROVE NumberInv'
    OBVIOUS
  <1>0. Cardinality(lost) \in Nat /\ setup.orphans \in Nat /\ orphans \in Nat
    BY FS_CardinalityType, LeftIsEarlier DEF NumberInv
  <1>1. CASE Ends
    BY <1>1, EndsDies, NumberDies DEF Exit, Running
  <1>2. ASSUME NEW c \in Conns, Count(c) PROVE NumberInv'
    <2>1. /\ UNCHANGED <<setup, process, lost, orphans>>
          /\ count' = count + 1 /\ counted' = counted \cup {taken[c]}
      BY <1>2 DEF Count, hubVars, handlerVars
    <2>2. taken[c] \notin counted
      BY <1>2, HandCounted DEF PlaceInv, Removed
    <2>3. IsFiniteSet(counted') /\ Cardinality(counted') = Cardinality(counted) + 1
      BY <2>1, <2>2, FS_AddElement DEF NumberInv
    <2> QED
      BY <2>1, <2>3 DEF NumberInv
  <1>3. CASE OrphanTakes
    <2>1. UNCHANGED <<setup, process, count, counted>> /\ orphans' = orphans - 1 /\ orphans > 0
      BY <1>3 DEF OrphanTakes, sinkVars
    <2>2. PICK j \in queue : lost' = lost \cup {j}
      BY <1>3 DEF OrphanTakes
    <2>3. IsFiniteSet(lost') /\ Cardinality(lost') \in {Cardinality(lost), Cardinality(lost) + 1}
      BY <2>2, FS_AddElement DEF NumberInv
    <2> QED
      BY <1>0, <2>1, <2>3, ConnsFinite DEF NumberInv
  <1>4. CASE OrphanEnds \/ ServerDies
    <2>1. UNCHANGED <<setup, process, count, counted, lost>> /\ orphans' \in {orphans - 1, 0} /\ (orphans' # 0 => orphans > 0)
      BY <1>4 DEF OrphanEnds, ServerDies, hubVars, sinkVars
    <2>2. orphans' \in Nat /\ orphans' <= orphans
      BY <1>0, <2>1
    <2> QED
      BY <1>0, <2>1, <2>2, ConnsFinite DEF NumberInv
  <1>5. CASE UNCHANGED <<setup, count, counted, lost, orphans>>
             /\ (process' \in {"connecting", "running"} => process \in {"connecting", "running"})
    BY <1>5 DEF NumberInv
  <1>6. CASE Connect \/ Generate \/ StrayCancel \/ UNCHANGED vars
    BY <1>6, <1>5 DEF Connect, Generate, StrayCancel, vars, hubVars, handlerVars, sinkVars
  <1>7. ASSUME NEW c \in Conns, EnqStep(c) PROVE NumberInv'
    BY <1>7, <1>5, EnqFrame DEF handlerVars, sinkVars
  <1>8. ASSUME NEW c \in Conns, (DeqStep(c) \/ Look(c) \/ Stop(c)) /\ ~Count(c) PROVE NumberInv'
    <2>1. UNCHANGED <<setup, process, lost, orphans>>
      BY <1>8, DeqFrame
    <2>2. UNCHANGED <<count, counted>>
      BY <1>8 DEF DeqStep, CallNext, LookInVain, Deadline, TimedOut, GotJob, Cancel, Look, Stop,
                  sinkVars
    <2> QED
      BY <2>1, <2>2, <1>5
  <1> QED
    BY <1>1, <1>2, <1>3, <1>4, <1>6, <1>7, <1>8 DEF Next, DeqStep

-----------------------------------------------------------------------------
LEMMA LoadInvariance == Spec => []LoadInv
  <1>1. Init => LoadInv
    BY PutInit, CallInit, StopInit, PlaceInit, StrayInit, HurtInit, NumberInit DEF LoadInv
  <1>2. LoadInv /\ [Next]_vars => LoadInv'
    BY PutNext, CallNextInv, StopNext, PlaceNext, StrayNext, HurtNext, NumberNext DEF LoadInv
  <1> QED
    BY <1>1, <1>2, PTL DEF Spec

\* The jobs of a load test that enqueues have all been accepted
LEMMA DoneHasAll ==
  ASSUME PutInv, EnqueuersDone, Enqueuing
  PROVE  JobsOf("this") \subseteq Accepted
  <1>1. \A c \in Conns : enq[c] = "done" /\ putting[c] = NoJob
    BY DEF PutInv, PutTypes, EnqueuersDone
  <1>2. handed = NumJobs
    BY <1>1, LoadAssumption DEF PutInv
  <1>3. \A j \in JobsOf("this") : j.id < handed /\ j # NoJob
    BY <1>2, LoadAssumption, NoJobAssumption DEF JobsOf, Jobs, Ids
  <1> QED
    BY <1>1, <1>3 DEF Accepted

LEMMA ExitedHasAll == LoadInv => ExitMeansAll
  <1> SUFFICES ASSUME LoadInv, process = "exited" PROVE
        /\ Enqueuing => JobsOf("this") \subseteq Accepted
        /\ Dequeuing => count >= NumJobs
    BY DEF ExitMeansAll
  <1>1. ASSUME Enqueuing PROVE JobsOf("this") \subseteq Accepted
    BY <1>1, DoneHasAll DEF LoadInv, PutInv, EnqueuersDone
  <1> QED
    BY <1>1 DEF LoadInv, StopInv

\* The variables of LoadTest keep their types, and neither the channel of stop
\* tokens nor that of generated jobs is sent more than it holds.
THEOREM LoadTypes == Spec => []TypeOK
  <1>1. LoadInv => TypeOK
    BY TypeParts DEF LoadInv, PutInv, CallInv, StopInv, PlaceInv, StrayInv, NumberInv
  <1> QED
    BY <1>1, LoadInvariance, PTL

\* Every accepted job is in exactly one place, and counted at most once.
THEOREM JobsAreAccounted == Spec => []JobsAccounted
  <1>1. LoadInv => JobsAccounted
    BY DEF LoadInv, PlaceInv, NumberInv, JobsAccounted
  <1> QED
    BY <1>1, LoadInvariance, PTL

\* A death costs a job per connection at most, a call left behind one job.
THEOREM LossIsBounded == Spec => []LossBounded
  <1>1. LoadInv => LossBounded
    BY DEF LoadInv, NumberInv, LossBounded
  <1> QED
    BY <1>1, LoadInvariance, PTL

\* A load test exits when all its jobs are put, and as many are taken.
THEOREM ExitIsComplete == Spec => []ExitMeansAll
  BY ExitedHasAll, LoadInvariance, PTL

\* Only a job that an earlier load test left makes this one fail or cancel one.
THEOREM ReusedIdsOnly == Spec => []OnlyReusedIdsHurt
  <1>1. LoadInv => OnlyReusedIdsHurt
    BY DEF LoadInv, HurtInv
  <1> QED
    BY <1>1, LoadInvariance, PTL
-----------------------------------------------------------------------------
(* Who waits, and for what                                                 *)

\* Goroutines that were started go on until they are done, a call that waits
\* is being handled, and every stop token is in the channel or was taken
WorkInv ==
  /\ Running /\ Enqueuing => \A c \in Conns : enq[c] # "off"
  /\ ~Enqueuing => handed = 0 /\ \A c \in Conns : enq[c] = "off"
  /\ Running /\ Dequeuing => \A c \in Conns : deq[c] # "off"
  /\ serverUp => \A c \in Conns : deq[c] = "waiting" => handler[c] # "none"
  /\ count >= NumJobs /\ NumJobs # 0 => tokens + Cardinality(stopped) = Cardinality(Conns)

LEMMA WorkInit == Init => WorkInv
  BY LoadAssumption DEF Init, WorkInv, Running

\* The channel of tokens is filled once, and emptied by those who are stopped
LEMMA TokensKept ==
  ASSUME StopInv, WorkInv, NEW c \in Conns, Count(c) \/ Stop(c)
  PROVE  count' >= NumJobs /\ NumJobs # 0 =>
           tokens' + Cardinality(stopped') = Cardinality(Conns)
  <1> SUFFICES ASSUME count' >= NumJobs, NumJobs # 0
               PROVE  tokens' + Cardinality(stopped') = Cardinality(Conns)
    OBVIOUS
  <1>1. count \in Nat /\ tokens \in Nat /\ stopped \in SUBSET Conns
    BY ConnsFinite DEF StopInv, SinkTypes
  <1>2. IsFiniteSet(stopped) /\ Cardinality(stopped) \in Nat
    BY <1>1, FS_Subset, FS_CardinalityType, LoadAssumption
  <1>3. CASE Count(c)
    <2>1. /\ count' = count + 1 /\ stopped' = stopped
          /\ tokens' = IF count' = NumJobs THEN tokens + Cardinality(Conns) ELSE tokens
      BY <1>3 DEF Count
    <2>2. CASE count' = NumJobs
      <3>1. tokens = 0 /\ stopped = {}
        BY <1>1, <2>1, <2>2, LoadAssumption DEF StopInv
      <3> QED
        BY <2>1, <2>2, <3>1, FS_EmptySet, ConnsFinite
    <2>3. CASE count' # NumJobs
      BY <1>1, <2>1, <2>3, LoadAssumption DEF WorkInv
    <2> QED
      BY <2>2, <2>3
  <1>4. CASE Stop(c)
    <2>1. /\ count' = count /\ tokens' = tokens - 1 /\ tokens > 0
          /\ stopped' = stopped \cup {c} /\ c \notin stopped
      BY <1>4 DEF Stop
    <2>2. Cardinality(stopped') = Cardinality(stopped) + 1
      BY <1>2, <2>1, FS_AddElement
    <2> QED
      BY <1>1, <1>2, <2>1, <2>2, ConnsFinite DEF WorkInv
  <1> QED
    BY <1>3, <1>4

LEMMA WorkNext ==
  PutInv /\ CallInv /\ StopInv /\ WorkInv /\ [Next]_vars => WorkInv'
  <1> SUFFICES ASSUME PutInv, CallInv, StopInv, WorkInv, [Next]_vars PROVE WorkInv'
    OBVIOUS
  <1> USE DEF WorkInv, Running, Enqueuing, Dequeuing
  <1>1. CASE Connect
    BY <1>1 DEF Connect, genVars, sinkVars, handlerVars
  <1>2. CASE Ends
    <2>1. /\ process' \in {"failed", "exited"} /\ UNCHANGED <<setup, handed, enq, sinkVars>>
          /\ deq' = [c \in Conns |-> "off"]
      BY <1>2, EndsDies DEF Exit, Dies, genVars, enqVars
    <2> QED
      BY <2>1 DEF sinkVars
  <1>3. CASE Generate
    BY <1>3 DEF Generate, enqVars, deqVars, handlerVars, sinkVars
  <1>4. ASSUME NEW c \in Conns, EnqStep(c) PROVE WorkInv'
    <2>1. UNCHANGED <<setup, process, serverUp, deqVars, handlerVars, sinkVars>>
      BY <1>4, EnqFrame
    <2>2. enq[c] # "off" /\ \A d \in Conns : enq[d] # "off" => enq'[d] # "off"
      BY <1>4 DEF EnqStep, Receive, RangeEnds, FenceHolds, PutWithID, PutInv, PutTypes
    <2> QED
      BY <2>1, <2>2 DEF deqVars, handlerVars, sinkVars
  <1>5. ASSUME NEW c \in Conns, DeqStep(c) \/ Look(c) PROVE WorkInv'
    <2>1. UNCHANGED <<setup, process, serverUp, genVars, enqVars>>
      BY <1>5, DeqFrame
    <2>2. UNCHANGED sinkVars \/ Count(c)
      BY <1>5 DEF DeqStep, CallNext, LookInVain, Deadline, TimedOut, GotJob, Cancel, Look
    <2>3. /\ \A d \in Conns : deq[d] # "off" => deq'[d] # "off"
          /\ \A d \in Conns : deq'[d] = "waiting" =>
               \/ deq[d] = "waiting" /\ (handler[d] # "none" => handler'[d] # "none")
               \/ handler'[d] # "none"
      BY <1>5 DEF DeqStep, CallNext, LookInVain, Deadline, TimedOut, GotJob, Cancel, Look, Count,
                  CallInv, TakeTypes, deqVars, handlerVars
    <2> QED
      BY <2>1, <2>2, <2>3, TokensKept DEF genVars, enqVars, sinkVars
  <1>6. ASSUME NEW c \in Conns, Stop(c) PROVE WorkInv'
    BY <1>6, TokensKept DEF Stop, genVars, enqVars, deqVars, handlerVars
  <1>7. CASE OrphanTakes \/ OrphanEnds \/ StrayCancel
    BY <1>7 DEF OrphanTakes, OrphanEnds, StrayCancel, genVars, enqVars, deqVars, handlerVars,
                sinkVars
  <1>8. CASE ServerDies
    BY <1>8 DEF ServerDies, genVars, enqVars, sinkVars
  <1>9. CASE UNCHANGED vars
    BY <1>9 DEF vars, genVars, enqVars, deqVars, handlerVars, sinkVars
  <1> QED
    BY <1>1, <1>2, <1>3, <1>4, <1>5, <1>6, <1>7, <1>8, <1>9 DEF Next

LEMMA WorkInvariance == Spec => [](LoadInv /\ WorkInv)
  <1>1. Init => WorkInv
    BY WorkInit
  <1>2. LoadInv /\ WorkInv /\ [Next]_vars => WorkInv'
    BY WorkNext DEF LoadInv
  <1> QED
    BY <1>1, <1>2, LoadInvariance, PTL DEF Spec

-----------------------------------------------------------------------------
(* What is left to do                                                      *)

\* The load test finds as many jobs as it wants to take
JobsEnough == setup.enqueue \/ Cardinality(setup.left) >= NumJobs

EnqueuerGoesOn ==
  \/ made < NumJobs /\ made - handed < Cardinality(Conns)
  \/ \E c \in Conns : enq[c] \in {"put", "refused"}
  \/ \E c \in Conns : enq[c] = "range" /\ (handed < made \/ made = NumJobs)

HasWork ==
  \/ Enqueuing /\ EnqueuerGoesOn
  \/ Dequeuing /\ (queue # {} \/ InHand # {})
  \/ tokens > 0 /\ stopped # Conns
  \/ EnqueuersDone /\ DequeuersDone

DequeuerGoesOn(c) == deq[c] \in {"next", "cancel", "send"} \/ handler[c] # "none"

\* While server and load test run, no goroutine waits for what nobody will send:
\* there is a job to put, or one to take, or a token to receive, or both wait
\* groups are done, unless a call whose client is gone has taken a job, or a put
\* sleeps at the fence of a hub from which the load test takes nothing (more).
NobodyStarves ==
  Running /\ serverUp =>
    /\ JobsEnough /\ lost = {} => HasWork \/ (Fenced /\ (Dequeuing => queue = {}))
    /\ Dequeuing => \A c \in Conns : DequeuerGoesOn(c)

\* An enqueuer that waits for a job to be generated finds the channel with room
LEMMA EnqueuersGoOn ==
  ASSUME PutInv, WorkInv, Running, ~EnqueuersDone
  PROVE  Enqueuing /\ (EnqueuerGoesOn \/ Fenced)
  <1>1. PICK c \in Conns : Enqueuing /\ enq[c] # "done"
    BY DEF EnqueuersDone
  <1>2. enq[c] \in {"range", "put", "fenced", "refused"}
    BY <1>1 DEF WorkInv, PutInv, PutTypes, EnqPlaces
  <1>3. made \in Nat /\ handed \in Nat /\ made <= NumJobs /\ handed <= made
    BY LoadAssumption DEF PutInv, PutTypes
  <1>4. \/ handed < made
        \/ made = NumJobs
        \/ made < NumJobs /\ made - handed < Cardinality(Conns)
    BY <1>3, ConnsFinite, LoadAssumption
  <1> QED
    BY <1>1, <1>2, <1>4 DEF EnqueuerGoesOn, Fenced

\* When there is no job left to take, and none was lost, the sink has seen
\* enough: one of each id where the load test enqueues, and the jobs that were
\* left where it does not
LEMMA SinkHasEnough ==
  ASSUME LoadInv, WorkInv, Running, serverUp, JobsEnough, EnqueuersDone, Dequeuing,
         queue = {}, InHand = {}, lost = {}
  PROVE  count >= NumJobs
  <1>1. Accepted = counted \cup cancelled
    BY DEF LoadInv, PlaceInv, Removed
  <1>2. IsFiniteSet(counted) /\ count = Cardinality(counted)
    BY DEF LoadInv, NumberInv
  <1>3. \A j \in cancelled : j.run = "this" /\ LeftWith(j.id) # {}
    BY DEF LoadInv, HurtInv, OnlyReusedIdsHurt
  <1>4. setup.left \subseteq JobsOf("earlier") /\ setup.left \subseteq Accepted
    BY LeftIsEarlier DEF LoadInv, Accepted
  <1>5. setup.left \subseteq counted
    <2>1. \A j \in setup.left : j.run # "this"
      BY <1>4, JobsAre
    <2> QED
      BY <1>1, <1>3, <1>4, <2>1
  <1>6. CASE setup.enqueue
    <2>1. JobsOf("this") \subseteq Accepted
      BY <1>6, DoneHasAll DEF LoadInv, Enqueuing, Dequeuing
    <2>2. \A i \in Ids : \E j \in counted : j.id = i
      <3> TAKE i \in Ids
      <3>1. [id |-> i, run |-> "this"] \in JobsOf("this")
        BY DEF JobsOf
      <3>2. [id |-> i, run |-> "this"] \in counted \/ LeftWith(i) # {}
        BY <1>1, <1>3, <2>1, <3>1
      <3> QED
        BY <1>5, <3>2 DEF LeftWith
    <2> DEFINE named == {j \in counted : j.id \in Ids}
               ids == [j \in named |-> j.id]
    <2>3. ids \in Surjection(named, Ids)
      <3>1. ids \in [named -> Ids]
        OBVIOUS
      <3>2. \A i \in Ids : \E j \in named : ids[j] = i
        BY <2>2
      <3> HIDE DEF named, ids
      <3> QED
        BY <3>1, <3>2 DEF Surjection
    <2>4. named \in SUBSET counted
      OBVIOUS
    <2> HIDE DEF named, ids
    <2>5. IsFiniteSet(named) /\ Cardinality(named) <= Cardinality(counted)
      BY <1>2, <2>4, FS_Subset
    <2>6. Cardinality(Ids) <= Cardinality(named)
      BY <2>3, <2>5, FS_Surjection
    <2>7. Cardinality(Ids) = NumJobs
      <3>1. 0 \in Int /\ NumJobs - 1 \in Int /\ NumJobs \in Nat
        BY LoadAssumption
      <3>2. Cardinality(0 .. NumJobs - 1) = IF 0 > NumJobs - 1 THEN 0 ELSE NumJobs - 1 - 0 + 1
        BY <3>1, FS_Interval
      <3> QED
        BY <3>1, <3>2 DEF Ids
    <2>8. Cardinality(named) \in Nat /\ Cardinality(counted) \in Nat
      BY <1>2, <2>5, FS_CardinalityType
    <2> QED
      BY <1>2, <2>5, <2>6, <2>7, <2>8, LoadAssumption
  <1>7. CASE ~setup.enqueue
    <2>1. Cardinality(setup.left) >= NumJobs
      BY <1>7 DEF JobsEnough
    <2>2. setup.left \in SUBSET counted
      BY <1>5
    <2>3. Cardinality(setup.left) <= Cardinality(counted) /\ IsFiniteSet(setup.left)
      BY <1>2, <2>2, FS_Subset
    <2>4. Cardinality(setup.left) \in Nat /\ Cardinality(counted) \in Nat
      BY <1>2, <2>3, FS_CardinalityType
    <2> QED
      BY <1>2, <2>1, <2>3, <2>4, LoadAssumption
  <1> QED
    BY <1>6, <1>7

\* A token is there for every dequeuer that was not stopped
LEMMA TokensEnough ==
  ASSUME StopInv, WorkInv, count >= NumJobs, Dequeuing, stopped # Conns
  PROVE  tokens > 0
  <1>1. stopped \in SUBSET Conns /\ tokens \in Nat
    BY ConnsFinite DEF StopInv, SinkTypes
  <1>2. IsFiniteSet(stopped) /\ Cardinality(stopped) # Cardinality(Conns)
    BY <1>1, FS_Subset, LoadAssumption
  <1>3. Cardinality(stopped) \in Nat
    BY <1>2, FS_CardinalityType
  <1>4. tokens + Cardinality(stopped) = Cardinality(Conns)
    BY DEF WorkInv, Dequeuing
  <1> QED
    BY <1>1, <1>2, <1>3, <1>4, ConnsFinite

\* Only a job that a call of a client that is gone has taken, or the fence, keeps
\* a load test that finds jobs enough waiting for ever: this is what LoadTestEnds
\* rests on, beside the fairness of the goroutines.
THEOREM OnlyLostJobsStarve == Spec => []NobodyStarves
  <1>1. LoadInv /\ WorkInv => NobodyStarves
    <2> SUFFICES ASSUME LoadInv, WorkInv, Running, serverUp
                 PROVE  /\ JobsEnough /\ lost = {} =>
                             HasWork \/ (Fenced /\ (Dequeuing => queue = {}))
                        /\ Dequeuing => \A c \in Conns : DequeuerGoesOn(c)
      BY DEF NobodyStarves
    <2>1. ASSUME JobsEnough, lost = {}
          PROVE  HasWork \/ (Fenced /\ (Dequeuing => queue = {}))
      <3>1. CASE Dequeuing /\ (queue # {} \/ InHand # {})
        BY <3>1 DEF HasWork
      <3>2. CASE ~EnqueuersDone /\ ~(Dequeuing /\ queue # {})
        BY <3>2, EnqueuersGoOn DEF HasWork, LoadInv
      <3>3. CASE EnqueuersDone /\ (~Dequeuing \/ stopped = Conns)
        BY <3>3 DEF HasWork, DequeuersDone
      <3>4. CASE EnqueuersDone /\ Dequeuing /\ stopped # Conns /\ queue = {} /\ InHand = {}
        BY <2>1, <3>4, SinkHasEnough, TokensEnough DEF HasWork, LoadInv
      <3> QED
        BY <3>1, <3>2, <3>3, <3>4
    <2>2. ASSUME Dequeuing, NEW c \in Conns PROVE DequeuerGoesOn(c)
      BY <2>2 DEF WorkInv, LoadInv, CallInv, TakeTypes, DeqPlaces, DequeuerGoesOn
    <2> QED
      BY <2>1, <2>2
  <1> QED
    BY <1>1, WorkInvariance, PTL

-----------------------------------------------------------------------------
(* A load test gets on                                                     *)

Putting == {c \in Conns : enq[c] \in {"put", "fenced"}}
Arriving == {c \in Conns : enq[c] = "put"}
Enqueuers == {c \in Conns : enq[c] # "done"}
Giving == {c \in Conns : handler[c] = "gave"}
Cancelling == {c \in Conns : deq[c] = "cancel"}
Sending == {c \in Conns : deq[c] = "send"}

\* Each job goes one way, from the generator through its enqueuer, perhaps the fence,
\* the hub, a reply and a cancel to the sink: what is left of these ways, and what remains of the
\* goroutines and of the process
ProcessLeft == [connecting |-> 2, running |-> 1, exited |-> 0, failed |-> 0][process]
PutsLeft ==
  (NumJobs - made) + 7 * (NumJobs - handed)
  + Cardinality(Enqueuers) + 5 * Cardinality(Putting) + Cardinality(Arriving)
TakesLeft ==
  4 * Cardinality(queue) + 3 * Cardinality(Giving) + 2 * Cardinality(Cancelling)
  + Cardinality(Sending) + Cardinality(Conns \ stopped)
WorkLeft == ProcessLeft + PutsLeft + TakesLeft

\* All that the load test does, but for asking a hub that has nothing for it
Works ==
  \/ Connect \/ Ends \/ Generate \/ OrphanTakes
  \/ \E c \in Conns : EnqStep(c) \/ GotJob(c) \/ Cancel(c) \/ Count(c) \/ Look(c) \/ Stop(c)

LEMMA ConnsCount ==
  ASSUME NEW S \in SUBSET Conns
  PROVE  /\ Cardinality(S) \in Nat
         /\ \A c \in S : Cardinality(S \ {c}) = Cardinality(S) - 1
         /\ \A c \in Conns \ S : Cardinality(S \cup {c}) = Cardinality(S) + 1
  BY LoadAssumption, FS_Subset, FS_CardinalityType, FS_AddElement, FS_RemoveElement

LEMMA JobsCount ==
  ASSUME NEW S \in SUBSET Jobs
  PROVE  /\ Cardinality(S) \in Nat
         /\ \A j \in S : Cardinality(S \ {j}) = Cardinality(S) - 1
         /\ \A j : Cardinality(S \cup {j}) <= Cardinality(S) + 1
         /\ \A T \in SUBSET S : Cardinality(T) <= Cardinality(S)
  <1>1. IsFiniteSet(Ids)
    BY LoadAssumption, FS_Interval DEF Ids
  <1>2. ASSUME NEW run PROVE IsFiniteSet(JobsOf(run))
    <2> DEFINE job == [i \in Ids |-> [id |-> i, run |-> run]]
    <2>1. job \in Surjection(Ids, JobsOf(run))
      BY DEF Surjection, JobsOf
    <2> QED
      BY <1>1, <2>1, FS_Surjection
  <1>3. IsFiniteSet(Jobs)
    BY <1>2, FS_Union DEF Jobs
  <1>4. IsFiniteSet(S)
    BY <1>3, FS_Subset
  <1>5. Cardinality(S) \in Nat
    BY <1>4, FS_CardinalityType
  <1> QED
    BY <1>4, <1>5, FS_Subset, FS_AddElement, FS_RemoveElement

LEMMA LeftIsNatural ==
  ASSUME TypeOK
  PROVE  /\ ProcessLeft \in 0 .. 2 /\ PutsLeft \in Nat /\ TakesLeft \in Nat
         /\ NumJobs \in Nat /\ made \in 0 .. NumJobs /\ handed \in 0 .. NumJobs
         /\ Cardinality(Enqueuers) \in Nat /\ Cardinality(Putting) \in Nat
         /\ Cardinality(Arriving) \in Nat
         /\ Cardinality(queue) \in Nat /\ Cardinality(Giving) \in Nat
         /\ Cardinality(Cancelling) \in Nat /\ Cardinality(Sending) \in Nat
         /\ Cardinality(Conns \ stopped) \in Nat
  <1>1. NumJobs \in Nat /\ made \in 0 .. NumJobs /\ handed \in 0 .. NumJobs
    BY LoadAssumption DEF TypeOK
  <1>2. /\ Cardinality(Enqueuers) \in Nat /\ Cardinality(Putting) \in Nat
        /\ Cardinality(Arriving) \in Nat
        /\ Cardinality(Giving) \in Nat /\ Cardinality(Cancelling) \in Nat
        /\ Cardinality(Sending) \in Nat /\ Cardinality(Conns \ stopped) \in Nat
    BY ConnsCount DEF Enqueuers, Putting, Arriving, Giving, Cancelling, Sending
  <1>3. Cardinality(queue) \in Nat
    BY JobsCount DEF TypeOK
  <1>4. ProcessLeft \in 0 .. 2
    BY DEF ProcessLeft, TypeOK, Processes
  <1>5. PutsLeft \in Nat
    BY <1>1, <1>2 DEF PutsLeft
  <1>6. TakesLeft \in Nat
    BY <1>2, <1>3 DEF TakesLeft
  <1> QED
    BY <1>1, <1>2, <1>3, <1>4, <1>5, <1>6

\* A process that dies drops what its connections held
LEMMA DiesLeft ==
  ASSUME TypeOK, TypeOK', Ends
  PROVE  WorkLeft' < WorkLeft
  <1>1. PICK how \in {"exited", "failed"} :
          process \in {"connecting", "running"} /\ Dies(how)
    BY EndsDies DEF Exit, Running
  <1>2. ProcessLeft' = 0 /\ ProcessLeft > 0
    BY <1>1 DEF Dies, ProcessLeft
  <1>3. PutsLeft' = PutsLeft
    BY <1>1 DEF Dies, genVars, enqVars, PutsLeft, Enqueuers, Putting, Arriving
  <1>4. TakesLeft' \in Int /\ TakesLeft' <= TakesLeft
    <2>1. /\ UNCHANGED <<queue, stopped>>
          /\ Giving' = {} /\ Cancelling' = {} /\ Sending' = {}
      BY <1>1 DEF Dies, sinkVars, Giving, Cancelling, Sending
    <2>2. Cardinality({}) = 0
      BY FS_EmptySet
    <2> QED
      BY <2>1, <2>2, LeftIsNatural DEF TakesLeft
  <1> QED
    BY <1>2, <1>3, <1>4, LeftIsNatural DEF WorkLeft

\* The generator and the enqueuers
LEMMA PutsGoForward ==
  ASSUME TypeOK, TypeOK', PutInv, Connect \/ Generate \/ \E c \in Conns : EnqStep(c)
  PROVE  WorkLeft' < WorkLeft
  <1> USE DEF WorkLeft
  <1>1. CASE Connect
    <2>1. ProcessLeft' = 1 /\ ProcessLeft = 2
      BY <1>1 DEF Connect, ProcessLeft
    <2>2. UNCHANGED <<made, handed, Enqueuers, Putting, Arriving>>
      BY <1>1 DEF Connect, genVars, Enqueuers, Putting, Arriving, PutInv
    <2>3. UNCHANGED <<queue, stopped, Giving, Cancelling, Sending>>
      BY <1>1 DEF Connect, hubVars, handlerVars, sinkVars, Giving, Cancelling, Sending, TypeOK
    <2> QED
      BY <2>1, <2>2, <2>3, LeftIsNatural DEF PutsLeft, TakesLeft
  <1>2. CASE Generate
    <2>1. /\ made' = made + 1
          /\ UNCHANGED <<ProcessLeft, handed, Enqueuers, Putting, Arriving, TakesLeft>>
      BY <1>2 DEF Generate, ProcessLeft, Enqueuers, Putting, Arriving, TakesLeft, Giving,
                  Cancelling, Sending, hubVars, enqVars, deqVars, handlerVars, sinkVars
    <2> QED
      BY <2>1, LeftIsNatural DEF PutsLeft
  <1>3. ASSUME NEW c \in Conns, EnqStep(c)
        PROVE  WorkLeft' < WorkLeft
    <2>1. /\ UNCHANGED <<ProcessLeft, stopped, Giving, Cancelling, Sending>>
          /\ made' = made
      BY <1>3, EnqFrame DEF ProcessLeft, Giving, Cancelling, Sending, deqVars, handlerVars, sinkVars,
                            EnqStep, Receive, RangeEnds, FenceHolds, PutWithID, genVars
    <2>2. CASE Receive(c)
      <3>1. /\ handed' = handed + 1 /\ queue' = queue
            /\ Enqueuers' = Enqueuers
            /\ Putting' = Putting \cup {c} /\ c \in Conns \ Putting
            /\ Arriving' = Arriving \cup {c} /\ c \in Conns \ Arriving
        BY <2>2 DEF Receive, hubVars, Enqueuers, Putting, Arriving, TypeOK
      <3>2. /\ Cardinality(Putting') = Cardinality(Putting) + 1
            /\ Cardinality(Arriving') = Cardinality(Arriving) + 1
        BY <3>1, ConnsCount DEF Putting, Arriving
      <3> QED
        BY <2>1, <3>1, <3>2, LeftIsNatural DEF PutsLeft, TakesLeft
    <2>3. CASE RangeEnds(c)
      <3>1. /\ handed' = handed /\ queue' = queue
            /\ Enqueuers' = Enqueuers \ {c} /\ c \in Enqueuers
            /\ Putting' = Putting /\ Arriving' = Arriving
        BY <2>3 DEF RangeEnds, hubVars, genVars, Enqueuers, Putting, Arriving, TypeOK
      <3>2. Cardinality(Enqueuers') = Cardinality(Enqueuers) - 1
        BY <3>1, ConnsCount DEF Enqueuers
      <3> QED
        BY <2>1, <3>1, <3>2, LeftIsNatural DEF PutsLeft, TakesLeft
    <2>4. CASE PutWithID(c)
      <3>1. /\ handed' = handed
            /\ Enqueuers' = Enqueuers
            /\ Putting' = Putting \ {c} /\ c \in Putting
            /\ Arriving' = Arriving \ {c}
        BY <2>4 DEF PutWithID, genVars, Enqueuers, Putting, Arriving, TypeOK
      <3>2. Cardinality(Putting') = Cardinality(Putting) - 1
        BY <3>1, ConnsCount DEF Putting
      <3>a. /\ Cardinality(Arriving') \in Nat
            /\ Cardinality(Arriving') <= Cardinality(Arriving)
        <4>1. CASE c \in Arriving
          BY <3>1, <4>1, ConnsCount, LeftIsNatural DEF Arriving
        <4>2. CASE c \notin Arriving
          <5>1. Arriving' = Arriving
            BY <3>1, <4>2
          <5> QED
            BY <5>1, LeftIsNatural
        <4> QED
          BY <4>1, <4>2
      <3>3. queue' = queue \/ queue' = queue \cup {putting[c]}
        BY <2>4 DEF PutWithID
      <3>4. queue \in SUBSET Jobs
        BY DEF TypeOK
      <3>5. Cardinality(queue') <= Cardinality(queue) + 1
        <4>1. Cardinality(queue) <= Cardinality(queue) + 1
          BY LeftIsNatural
        <4>2. Cardinality(queue \cup {putting[c]}) <= Cardinality(queue) + 1
          BY <3>4, JobsCount
        <4> QED
          BY <3>3, <4>1, <4>2
      <3>6. Cardinality(queue') \in Nat
        BY JobsCount DEF TypeOK
      <3> QED
        BY <2>1, <3>1, <3>2, <3>a, <3>5, <3>6, LeftIsNatural DEF PutsLeft, TakesLeft
    <2>5. CASE FenceHolds(c)
      <3>1. /\ handed' = handed /\ queue' = queue
            /\ Enqueuers' = Enqueuers /\ Putting' = Putting
            /\ Arriving' = Arriving \ {c} /\ c \in Arriving
        BY <2>5 DEF FenceHolds, genVars, hubVars, Enqueuers, Putting, Arriving, TypeOK
      <3>2. Cardinality(Arriving') = Cardinality(Arriving) - 1
        BY <3>1, ConnsCount DEF Arriving
      <3> QED
        BY <2>1, <3>1, <3>2, LeftIsNatural DEF PutsLeft, TakesLeft
    <2> QED
      BY <1>3, <2>2, <2>3, <2>4, <2>5 DEF EnqStep
  <1> QED
    BY <1>1, <1>2, <1>3

\* The dequeuers, their tokens, and the calls left behind
LEMMA TakesGoForward ==
  ASSUME TypeOK, TypeOK', CallInv,
         OrphanTakes \/ \E c \in Conns : GotJob(c) \/ Cancel(c) \/ Count(c) \/ Look(c) \/ Stop(c)
  PROVE  WorkLeft' < WorkLeft
  <1>1. UNCHANGED <<ProcessLeft, PutsLeft>>
    BY DeqFrame, OtherFrame
    DEF DeqStep, ProcessLeft, PutsLeft, Enqueuers, Putting, Arriving, genVars, enqVars
  <1> USE DEF WorkLeft, TakesLeft
  <1>q. queue \in SUBSET Jobs /\ queue' \in SUBSET Jobs
    BY DEF TypeOK
  <1>2. CASE OrphanTakes
    <2>1. /\ \E j \in queue : queue' = queue \ {j}
          /\ UNCHANGED <<Giving, Cancelling, Sending, stopped>>
      BY <1>2 DEF OrphanTakes, Giving, Cancelling, Sending, deqVars, sinkVars
    <2>2. Cardinality(queue') = Cardinality(queue) - 1
      BY <1>q, <2>1, JobsCount
    <2> QED
      BY <1>1, <2>1, <2>2, LeftIsNatural
  <1>3. ASSUME NEW c \in Conns, Look(c) PROVE WorkLeft' < WorkLeft
    <2>1. /\ \E j \in queue : queue' = queue \ {j}
          /\ Giving' = Giving \cup {c} /\ c \in Conns \ Giving
          /\ UNCHANGED <<Cancelling, Sending, stopped>>
      BY <1>3 DEF Look, Giving, Cancelling, Sending, deqVars, sinkVars, TypeOK
    <2>2. Cardinality(queue') = Cardinality(queue) - 1
      BY <1>q, <2>1, JobsCount
    <2>3. Cardinality(Giving') = Cardinality(Giving) + 1
      BY <2>1, ConnsCount DEF Giving
    <2> QED
      BY <1>1, <2>1, <2>2, <2>3, LeftIsNatural
  <1>4. ASSUME NEW c \in Conns, GotJob(c) PROVE WorkLeft' < WorkLeft
    <2>1. /\ Giving' = Giving \ {c} /\ c \in Giving
          /\ Cancelling' = Cancelling \cup {c} /\ c \in Conns \ Cancelling
          /\ UNCHANGED <<queue, stopped, Sending>>
      BY <1>4 DEF GotJob, Giving, Cancelling, Sending, hubVars, sinkVars, CallInv, TakeTypes
    <2>2. Cardinality(Giving') = Cardinality(Giving) - 1
      BY <2>1, ConnsCount DEF Giving
    <2>3. Cardinality(Cancelling') = Cardinality(Cancelling) + 1
      BY <2>1, ConnsCount DEF Cancelling
    <2> QED
      BY <1>1, <2>1, <2>2, <2>3, LeftIsNatural
  <1>5. ASSUME NEW c \in Conns, Cancel(c) PROVE WorkLeft' < WorkLeft
    <2>1. /\ Cancelling' = Cancelling \ {c} /\ c \in Cancelling
          /\ Sending' = Sending \cup {c} /\ c \in Conns \ Sending
          /\ queue' \subseteq queue
          /\ UNCHANGED <<stopped, Giving>>
      BY <1>5 DEF Cancel, Giving, Cancelling, Sending, handlerVars, sinkVars, TypeOK
    <2>2. Cardinality(Cancelling') = Cardinality(Cancelling) - 1
      BY <2>1, ConnsCount DEF Cancelling
    <2>3. Cardinality(Sending') = Cardinality(Sending) + 1
      BY <2>1, ConnsCount DEF Sending
    <2>4. Cardinality(queue') \in Nat /\ Cardinality(queue') <= Cardinality(queue)
      BY <1>q, <2>1, JobsCount
    <2> QED
      BY <1>1, <2>1, <2>2, <2>3, <2>4, LeftIsNatural
  <1>6. ASSUME NEW c \in Conns, Count(c) PROVE WorkLeft' < WorkLeft
    <2>1. /\ Sending' = Sending \ {c} /\ c \in Sending
          /\ UNCHANGED <<queue, stopped, Giving, Cancelling>>
      BY <1>6 DEF Count, Giving, Cancelling, Sending, hubVars, handlerVars, TypeOK
    <2>2. Cardinality(Sending') = Cardinality(Sending) - 1
      BY <2>1, ConnsCount DEF Sending
    <2> QED
      BY <1>1, <2>1, <2>2, LeftIsNatural
  <1>7. ASSUME NEW c \in Conns, Stop(c) PROVE WorkLeft' < WorkLeft
    <2>1. /\ Conns \ stopped' = (Conns \ stopped) \ {c} /\ c \in Conns \ stopped
          /\ UNCHANGED <<queue, Giving, Cancelling, Sending>>
      BY <1>7 DEF Stop, Giving, Cancelling, Sending, hubVars, deqVars, handlerVars
    <2>2. Cardinality(Conns \ stopped') = Cardinality(Conns \ stopped) - 1
      BY <2>1, ConnsCount
    <2> QED
      BY <1>1, <2>1, <2>2, LeftIsNatural
  <1> QED
    BY <1>2, <1>3, <1>4, <1>5, <1>6, <1>7

\* What is left when nothing is done: a poll that finds nothing, a call left behind
\* that ends or cancels, and the server's death
LEMMA NotSetBack ==
  ASSUME TypeOK, TypeOK', CallInv, [Next]_vars, ~Works
  PROVE  WorkLeft' <= WorkLeft
  <1> USE DEF WorkLeft, ProcessLeft, PutsLeft, TakesLeft, Enqueuers, Putting, Arriving
  <1>1. CASE OrphanEnds \/ UNCHANGED vars
    <2>1. UNCHANGED <<process, made, handed, enq, queue, stopped, Giving, Cancelling, Sending>>
      BY <1>1 DEF OrphanEnds, vars, Giving, Cancelling, Sending, hubVars, genVars, enqVars,
                  deqVars, handlerVars, sinkVars
    <2> QED
      BY <2>1, LeftIsNatural
  <1>2. CASE ServerDies
    <2>1. /\ UNCHANGED <<process, made, handed, enq, stopped, Cancelling, Sending>>
          /\ queue' = {} /\ Giving' = {}
      BY <1>2 DEF ServerDies, Giving, Cancelling, Sending, genVars, enqVars, sinkVars
    <2>2. Cardinality({}) = 0
      BY FS_EmptySet
    <2> QED
      BY <2>1, <2>2, LeftIsNatural
  <1>3. ASSUME NEW c \in Conns, CallNext(c) \/ LookInVain(c) \/ Deadline(c) \/ TimedOut(c)
        PROVE  WorkLeft' <= WorkLeft
    <2>1. UNCHANGED <<process, made, handed, enq, queue, stopped, Giving, Cancelling, Sending>>
      BY <1>3 DEF CallNext, LookInVain, Deadline, TimedOut, Giving, Cancelling, Sending, hubVars,
                  genVars, enqVars, deqVars, sinkVars, CallInv, TakeTypes
    <2> QED
      BY <2>1, LeftIsNatural
  <1>4. CASE StrayCancel
    <2>1. /\ UNCHANGED <<process, made, handed, enq, stopped, Giving, Cancelling, Sending>>
          /\ queue' \subseteq queue
      BY <1>4 DEF StrayCancel, Giving, Cancelling, Sending, genVars, enqVars, handlerVars,
                  sinkVars
    <2>2. queue \in SUBSET Jobs
      BY DEF TypeOK
    <2>3. Cardinality(queue') \in Nat /\ Cardinality(queue') <= Cardinality(queue)
      BY <2>1, <2>2, JobsCount DEF TypeOK
    <2> QED
      BY <2>1, <2>3, LeftIsNatural
  <1> QED
    BY <1>1, <1>2, <1>3, <1>4 DEF Next, Works, DeqStep

\* A load test does only so much: apart from polls that find nothing, each step of it
\* brings its end closer, and no poll, no call left behind and no death of the server
\* puts it off (loadtest.go:61-164).  With OnlyLostJobsStarve that is what LoadTestEnds
\* rests on: it ends, or polls or sleeps at the fence for ever.
THEOREM LoadTestsGoForward ==
  Spec => /\ [](WorkLeft \in Nat)
          /\ [][WorkLeft' <= WorkLeft /\ (Works => WorkLeft' < WorkLeft)]_vars
  <1>1. TypeOK => WorkLeft \in Nat
    BY LeftIsNatural DEF WorkLeft
  <1>2. TypeOK /\ TypeOK' /\ (WorkLeft \in Nat)' /\ LoadInv /\ [Next]_vars =>
          [WorkLeft' <= WorkLeft /\ (Works => WorkLeft' < WorkLeft)]_vars
    <2>1. ASSUME TypeOK, TypeOK', LoadInv, Works PROVE WorkLeft' < WorkLeft
      BY <2>1, DiesLeft, PutsGoForward, TakesGoForward DEF Works, LoadInv
    <2>2. WorkLeft' < WorkLeft /\ WorkLeft \in Nat /\ WorkLeft' \in Nat => WorkLeft' <= WorkLeft
      OBVIOUS
    <2> QED
      BY <1>1, <2>1, <2>2, NotSetBack DEF LoadInv
  <1> QED
    BY <1>1, <1>2, LoadTypes, LoadInvariance, PTL DEF Spec
=============================================================================
