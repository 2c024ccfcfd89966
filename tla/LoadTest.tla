------------------------------ MODULE LoadTest ------------------------------
(***************************************************************************)
(* A load test against a server: a process that puts NumJobs jobs over     *)
(* several connections, takes as many back, and ends.  It is the client    *)
(* library's largest user, and the only one in the repository that has to  *)
(* cope with concurrency, with a server that goes away and with calls that *)
(* outlive their caller.                                                   *)
(*                                                                         *)
(* Each connection has a goroutine that puts, one that takes, and one that *)
(* waits for the end; the server has a goroutine for each call of Next,    *)
(* which goes on polling when the caller is gone.  The hub is as abstract  *)
(* as JobQueue: it refuses an id that is pending, and a poll may find      *)
(* nothing at any moment, which stands for delays too.  Before it reaches   *)
(* the hub a put may have to wait at the fence of the memory monitor.      *)
(*                                                                         *)
(* Ids are numbers that every load test counts from zero: the jobs and the *)
(* calls of Next that an earlier one left behind are part of the initial   *)
(* state; its other calls are over.                                        *)
(***************************************************************************)
EXTENDS Naturals, FiniteSets

CONSTANTS
  Conns,       \* the connections
  NumJobs,     \* jobs to put, and to take
  MaxOrphans,  \* bound on the calls of Next that an earlier run left behind
  NoJob

ASSUME LoadAssumption ==
  /\ IsFiniteSet(Conns) /\ Conns # {}
  /\ NumJobs \in Nat /\ MaxOrphans \in Nat

Ids == 0 .. NumJobs - 1
JobsOf(run) == {[id |-> i, run |-> run] : i \in Ids}
Jobs == JobsOf("this") \cup JobsOf("earlier")

ASSUME NoJobAssumption == NoJob \notin Jobs

VARIABLES
  setup,      \* the modes, and what an earlier run left; never changes
  process,    \* of the load test
  serverUp,
  queue,      \* the jobs pending in the hub
  made,       \* jobs that generateJobs has put into its channel so far
  handed,     \* jobs that an enqueuer has received from that channel
  enq,        \* [Conns -> where enqueueRPC is]
  putting,    \* [Conns -> the job it puts]
  deq,        \* [Conns -> where the loop of dequeueRPC is]
  taken,      \* [Conns -> the job it works on]
  strays,     \* ids of the calls of Cancel whose client is gone
  handler,    \* [Conns -> where the server is with the call of Next]
  given,      \* [Conns -> the job of its reply]
  orphans,    \* number of calls of Next that poll for a client that is gone
  count,      \* dequeueCount of the sink
  tokens,     \* stop tokens in the channel stopDeq
  stopped,    \* connections whose dequeuer has had its token
  counted,    \* history: jobs that the sink has counted
  cancelled,  \* history: jobs that left the hub through a cancel
  lost        \* history: jobs that left the hub for a client that is gone

hubVars == <<queue, cancelled, lost>>
genVars == <<made, handed>>
enqVars == <<enq, putting>>
deqVars == <<deq, taken, strays>>
handlerVars == <<handler, given, orphans>>
sinkVars == <<count, tokens, stopped, counted>>
vars == <<setup, process, serverUp, hubVars, genVars, enqVars, deqVars, handlerVars,
          sinkVars>>

Processes == {"connecting", "running", "exited", "failed"}
EnqPlaces == {"off", "range", "put", "fenced", "refused", "done"}
DeqPlaces == {"off", "next", "waiting", "cancel", "send"}
HandlerPlaces == {"none", "first", "loop", "gave", "timeout"}

Setups == [enqueue : BOOLEAN, dequeue : BOOLEAN, alike : BOOLEAN,
           left : SUBSET JobsOf("earlier"), orphans : 0 .. MaxOrphans]

\* Neither stop tokens nor generated jobs overrun their channels, and a job is
\* in hand exactly where the code has one
TypeOK ==
  /\ setup \in Setups /\ process \in Processes /\ serverUp \in BOOLEAN
  /\ queue \in SUBSET Jobs /\ cancelled \in SUBSET Jobs /\ lost \in SUBSET Jobs
  /\ made \in 0 .. NumJobs /\ handed \in 0 .. made
  /\ made - handed <= Cardinality(Conns)
  /\ enq \in [Conns -> EnqPlaces] /\ putting \in [Conns -> Jobs \cup {NoJob}]
  /\ deq \in [Conns -> DeqPlaces] /\ taken \in [Conns -> Jobs \cup {NoJob}]
  /\ strays \in SUBSET Ids
  /\ handler \in [Conns -> HandlerPlaces] /\ given \in [Conns -> Jobs \cup {NoJob}]
  /\ orphans \in Nat /\ count \in Nat
  /\ tokens \in 0 .. Cardinality(Conns) /\ stopped \in SUBSET Conns
  /\ counted \in SUBSET Jobs
  /\ \A c \in Conns :
       /\ putting[c] # NoJob <=> enq[c] \in {"put", "fenced", "refused"}
       /\ taken[c] # NoJob <=> deq[c] \in {"cancel", "send"}
       /\ given[c] # NoJob <=> handler[c] = "gave"

Init ==
  /\ setup \in {s \in Setups : s.enqueue \/ s.dequeue}
  /\ process = "connecting" /\ serverUp = TRUE
  /\ queue = setup.left /\ orphans = setup.orphans
  /\ made = 0 /\ handed = 0
  /\ enq = [c \in Conns |-> "off"] /\ putting = [c \in Conns |-> NoJob]
  /\ deq = [c \in Conns |-> "off"] /\ taken = [c \in Conns |-> NoJob]
  /\ strays = {}
  /\ handler = [c \in Conns |-> "none"] /\ given = [c \in Conns |-> NoJob]
  /\ count = 0 /\ tokens = 0 /\ stopped = {}
  /\ counted = {} /\ cancelled = {} /\ lost = {}

Running == process = "running"
Dead == process \in {"exited", "failed"}

\* With no jobs to put or take both modes are switched off
Enqueuing == setup.enqueue /\ NumJobs # 0
Dequeuing == setup.dequeue /\ NumJobs # 0

\* What the goroutines of the load test hold, and the replies on their way
InHand == ({taken[c] : c \in Conns} \cup {given[c] : c \in Conns}) \ {NoJob}

\* The process is gone: calls that poll or cancel go on without it, and what it
\* held or was being sent is lost
Dies(how) ==
  /\ process' = how
  /\ orphans' = orphans + Cardinality({c \in Conns : handler[c] \in {"first", "loop"}})
  /\ lost' = lost \cup InHand
  /\ handler' = [c \in Conns |-> "none"] /\ given' = [c \in Conns |-> NoJob]
  /\ deq' = [c \in Conns |-> "off"] /\ taken' = [c \in Conns |-> NoJob]
  /\ strays' = {taken[c].id : c \in {d \in Conns : deq[d] = "cancel"}}
  /\ UNCHANGED <<setup, serverUp, queue, cancelled, genVars, enqVars, sinkVars>>

-----------------------------------------------------------------------------
(* main                                                                    *)

Connect ==
  /\ process = "connecting" /\ serverUp
  /\ process' = "running"
  /\ enq' = [c \in Conns |-> IF Enqueuing THEN "range" ELSE "off"]
  /\ deq' = [c \in Conns |-> IF Dequeuing THEN "next" ELSE "off"]
  /\ UNCHANGED <<setup, serverUp, hubVars, genVars, putting, taken, strays, handlerVars,
                 sinkVars>>

ConnectFails == process = "connecting" /\ ~serverUp /\ Dies("failed")

EnqueuersDone == Enqueuing => \A c \in Conns : enq[c] = "done"
DequeuersDone == Dequeuing => stopped = Conns

\* Variant: the two wait groups are one, which a dequeuer that ends counts down
\* for the enqueuer of its connection too
ExitAtEither == Running /\ (EnqueuersDone \/ DequeuersDone) /\ Dies("exited")

\* enqWG.Wait(), then deqWG.Wait(): neither goes up again
Exit == Running /\ EnqueuersDone /\ DequeuersDone /\ Dies("exited")

\* log.Fatal in whichever goroutine finds that its call has failed
CallFails ==
  /\ Running /\ ~serverUp
  /\ \E c \in Conns : enq[c] \in {"put", "fenced"} \/ deq[c] \in {"next", "waiting", "cancel"}
  /\ Dies("failed")

-----------------------------------------------------------------------------
(* generateJobs, enqueueRPC and the server's PutWithID                     *)

\* The channel has room for a job per connection, and is closed after the last
Generate ==
  /\ Running /\ Enqueuing
  /\ made < NumJobs /\ made - handed < Cardinality(Conns)
  /\ made' = made + 1
  /\ UNCHANGED <<setup, process, serverUp, hubVars, handed, enqVars, deqVars, handlerVars,
                 sinkVars>>

\* Variant: the generated jobs are not handed out, but read by every enqueuer
ReceiveShared(c) ==
  /\ Running /\ enq[c] = "range" /\ handed < made
  /\ \/ handed' = handed + 1
     \/ handed' = handed
  /\ enq' = [enq EXCEPT ![c] = "put"]
  /\ putting' = [putting EXCEPT ![c] = [id |-> handed, run |-> "this"]]
  /\ UNCHANGED <<setup, process, serverUp, hubVars, made, deqVars, handlerVars, sinkVars>>

Receive(c) ==
  /\ Running /\ enq[c] = "range" /\ handed < made
  /\ handed' = handed + 1
  /\ enq' = [enq EXCEPT ![c] = "put"]
  /\ putting' = [putting EXCEPT ![c] = [id |-> handed, run |-> "this"]]
  /\ UNCHANGED <<setup, process, serverUp, hubVars, made, deqVars, handlerVars, sinkVars>>

\* The channel is closed and empty, the enqueuer is done
RangeEnds(c) ==
  /\ Running /\ enq[c] = "range" /\ made = NumJobs /\ handed = made
  /\ enq' = [enq EXCEPT ![c] = "done"]
  /\ UNCHANGED <<setup, process, serverUp, hubVars, genVars, putting, deqVars, handlerVars,
                 sinkVars>>

PendingWith(id) == {j \in queue : j.id = id}

\* At the watermark a put goes to sleep at the fence.  (A server without a
\* watermark is one whose fence never holds a put.)
FenceHolds(c) ==
  /\ serverUp /\ enq[c] = "put"
  /\ enq' = [enq EXCEPT ![c] = "fenced"]
  /\ UNCHANGED <<setup, process, serverUp, hubVars, genVars, putting, deqVars, handlerVars,
                 sinkVars>>

\* The put passes the fence, at once or when it is woken, and reaches the hub.
\* It is served whether or not its caller still lives
PutWithID(c) ==
  /\ serverUp /\ enq[c] \in {"put", "fenced"}
  /\ IF PendingWith(putting[c].id) # {}
     THEN enq' = [enq EXCEPT ![c] = "refused"] /\ UNCHANGED <<queue, putting>>
     ELSE /\ queue' = queue \cup {putting[c]}
          /\ enq' = [enq EXCEPT ![c] = "range"]
          /\ putting' = [putting EXCEPT ![c] = NoJob]
  /\ UNCHANGED <<setup, process, serverUp, cancelled, lost, genVars, deqVars, handlerVars,
                 sinkVars>>

PutRefused(c) == Running /\ enq[c] = "refused" /\ Dies("failed")

-----------------------------------------------------------------------------
(* dequeueRPC, and the server's Next and Cancel                            *)

CallNext(c) ==
  /\ Running /\ serverUp /\ deq[c] = "next"
  /\ deq' = [deq EXCEPT ![c] = "waiting"]
  /\ handler' = [handler EXCEPT ![c] = "first"]
  /\ UNCHANGED <<setup, process, serverUp, hubVars, genVars, enqVars, taken, strays, given,
                 orphans, sinkVars>>

\* Variant: a job stays pending until it is cancelled
LookReserving(c) ==
  /\ serverUp /\ handler[c] \in {"first", "loop"}
  /\ \E j \in queue : given' = [given EXCEPT ![c] = j]
  /\ handler' = [handler EXCEPT ![c] = "gave"]
  /\ UNCHANGED <<setup, process, serverUp, hubVars, genVars, enqVars, deqVars, orphans,
                 sinkVars>>

\* A look at the hub finds a job, which leaves it before the reply is sent
Look(c) ==
  /\ serverUp /\ handler[c] \in {"first", "loop"}
  /\ \E j \in queue :
       /\ queue' = queue \ {j}
       /\ given' = [given EXCEPT ![c] = j]
  /\ handler' = [handler EXCEPT ![c] = "gave"]
  /\ UNCHANGED <<setup, process, serverUp, cancelled, lost, genVars, enqVars, deqVars,
                 orphans, sinkVars>>

\* The first look finds nothing; later looks that find nothing change nothing
LookInVain(c) ==
  /\ serverUp /\ handler[c] = "first"
  /\ handler' = [handler EXCEPT ![c] = "loop"]
  /\ UNCHANGED <<setup, process, serverUp, hubVars, genVars, enqVars, deqVars, given, orphans,
                 sinkVars>>

\* After a sleep the deadline has passed
Deadline(c) ==
  /\ serverUp /\ handler[c] = "loop"
  /\ handler' = [handler EXCEPT ![c] = "timeout"]
  /\ UNCHANGED <<setup, process, serverUp, hubVars, genVars, enqVars, deqVars, given, orphans,
                 sinkVars>>

\* ErrTimeout: ask again
TimedOut(c) ==
  /\ Running /\ handler[c] = "timeout"
  /\ deq' = [deq EXCEPT ![c] = "next"]
  /\ handler' = [handler EXCEPT ![c] = "none"]
  /\ UNCHANGED <<setup, process, serverUp, hubVars, genVars, enqVars, taken, strays, given,
                 orphans, sinkVars>>

GotJob(c) ==
  /\ Running /\ handler[c] = "gave"
  /\ deq' = [deq EXCEPT ![c] = "cancel"]
  /\ taken' = [taken EXCEPT ![c] = given[c]]
  /\ handler' = [handler EXCEPT ![c] = "none"]
  /\ given' = [given EXCEPT ![c] = NoJob]
  /\ UNCHANGED <<setup, process, serverUp, hubVars, genVars, enqVars, strays, orphans, sinkVars>>

\* The job just taken is cancelled: its id is pending only if it was put again
Cancel(c) ==
  /\ Running /\ serverUp /\ deq[c] = "cancel"
  /\ LET js == PendingWith(taken[c].id)
     IN  queue' = queue \ js /\ cancelled' = cancelled \cup js
  /\ deq' = [deq EXCEPT ![c] = "send"]
  /\ UNCHANGED <<setup, process, serverUp, lost, genVars, enqVars, taken, strays, handlerVars,
                 sinkVars>>

\* validateJob: all bodies of a run are alike, those of another run may differ;
\* the order of jobs is never compared, prevTriggerAt being a copy
Valid(j) == j.run = "this" \/ setup.alike

Invalid(c) == Running /\ deq[c] = "send" /\ ~Valid(taken[c]) /\ Dies("failed")

\* Variant: the sink stops the dequeuers again at every further job
CountStoppingAgain(c) ==
  /\ Running /\ deq[c] = "send" /\ Valid(taken[c])
  /\ count' = count + 1
  /\ tokens' = IF count' >= NumJobs THEN tokens + Cardinality(Conns) ELSE tokens
  /\ counted' = counted \cup {taken[c]}
  /\ deq' = [deq EXCEPT ![c] = "next"]
  /\ taken' = [taken EXCEPT ![c] = NoJob]
  /\ UNCHANGED <<setup, process, serverUp, hubVars, genVars, enqVars, strays, handlerVars,
                 stopped>>

\* deqJobs has no buffer: the send is the sink's receive
Count(c) ==
  /\ Running /\ deq[c] = "send" /\ Valid(taken[c])
  /\ count' = count + 1
  /\ tokens' = IF count' = NumJobs THEN tokens + Cardinality(Conns) ELSE tokens
  /\ counted' = counted \cup {taken[c]}
  /\ deq' = [deq EXCEPT ![c] = "next"]
  /\ taken' = [taken EXCEPT ![c] = NoJob]
  /\ UNCHANGED <<setup, process, serverUp, hubVars, genVars, enqVars, strays, handlerVars,
                 stopped>>

\* Variant: a dequeuer that ends leaves its token to the next one
StopWithoutTaking(c) ==
  /\ Running /\ c \notin stopped /\ tokens > 0
  /\ tokens' = 0 /\ stopped' = stopped \cup {c}
  /\ UNCHANGED <<setup, process, serverUp, hubVars, genVars, enqVars, deqVars, handlerVars,
                 count, counted>>

\* deqWG.Done(); the loop of the same connection goes on
Stop(c) ==
  /\ Running /\ c \notin stopped /\ tokens > 0
  /\ tokens' = tokens - 1 /\ stopped' = stopped \cup {c}
  /\ UNCHANGED <<setup, process, serverUp, hubVars, genVars, enqVars, deqVars, handlerVars,
                 count, counted>>

-----------------------------------------------------------------------------
(* Calls whose client is gone, and the server                              *)

\* Variant: the server does not look at whether the reply could be sent
OrphanKeepsTaking ==
  /\ serverUp /\ orphans > 0
  /\ \E j \in queue : queue' = queue \ {j} /\ lost' = lost \cup {j}
  /\ UNCHANGED <<setup, process, serverUp, cancelled, genVars, enqVars, deqVars, handlerVars,
                 sinkVars>>

\* It finds a job that nobody will get
OrphanTakes ==
  /\ serverUp /\ orphans > 0
  /\ \E j \in queue : queue' = queue \ {j} /\ lost' = lost \cup {j}
  /\ orphans' = orphans - 1
  /\ UNCHANGED <<setup, process, serverUp, cancelled, genVars, enqVars, deqVars, handler,
                 given, sinkVars>>

OrphanEnds ==
  /\ serverUp /\ orphans > 0 /\ orphans' = orphans - 1
  /\ UNCHANGED <<setup, process, serverUp, hubVars, genVars, enqVars, deqVars, handler, given,
                 sinkVars>>

\* A call of Cancel is served whether or not its caller still lives
StrayCancel ==
  /\ serverUp
  /\ \E id \in strays :
       /\ queue' = queue \ PendingWith(id)
       /\ cancelled' = cancelled \cup PendingWith(id)
       /\ strays' = strays \ {id}
  /\ UNCHANGED <<setup, process, serverUp, lost, genVars, enqVars, deq, taken, handlerVars,
                 sinkVars>>

\* Calls are cut off, replies that were on their way included
ServerDies ==
  /\ serverUp /\ serverUp' = FALSE
  /\ queue' = {} /\ orphans' = 0 /\ strays' = {}
  /\ handler' = [c \in Conns |-> "none"] /\ given' = [c \in Conns |-> NoJob]
  /\ UNCHANGED <<setup, process, cancelled, lost, genVars, enqVars, deq, taken, sinkVars>>

-----------------------------------------------------------------------------
Ends == ConnectFails \/ Exit \/ CallFails \/ \E c \in Conns : PutRefused(c) \/ Invalid(c)

EnqStep(c) == Receive(c) \/ RangeEnds(c) \/ FenceHolds(c) \/ PutWithID(c)

DeqStep(c) ==
  \/ CallNext(c) \/ LookInVain(c) \/ Deadline(c) \/ TimedOut(c) \/ GotJob(c)
  \/ Cancel(c) \/ Count(c)

Next ==
  \/ Connect \/ Ends \/ Generate
  \/ \E c \in Conns : EnqStep(c) \/ DeqStep(c) \/ Look(c) \/ Stop(c)
  \/ OrphanTakes \/ OrphanEnds \/ StrayCancel \/ ServerDies

Spec == Init /\ [][Next]_vars

\* What an enqueuer or its call does unless it sleeps at the fence
EnqGoesOn(c) == enq[c] # "fenced" /\ EnqStep(c)

\* Goroutines are scheduled, but nothing says that those at the fence are woken;
\* and of all the looks at a hub that keeps a job one finds it in the end, which
\* is what EveryJobLeaves of Hub says
FairSpec ==
  /\ Spec
  /\ WF_vars(Connect) /\ WF_vars(Ends) /\ WF_vars(Generate)
  /\ \A c \in Conns : WF_vars(EnqGoesOn(c)) /\ WF_vars(DeqStep(c)) /\ WF_vars(Stop(c))
  /\ SF_vars(\E c \in Conns : Look(c))
-----------------------------------------------------------------------------
(* Safety.                                                                 *)

\* What the hub has accepted, from this load test or an earlier one
Accepted ==
  setup.left \cup {j \in JobsOf("this") : j.id < handed /\ \A c \in Conns : putting[c] # j}

Removed == counted \cup cancelled \cup lost

\* Every accepted job is in the hub, in the hands of one connection, counted,
\* cancelled or lost, and in one of these places only: no job vanishes between
\* hub, reply and sink, whichever process dies, and none is counted twice.
JobsAccounted ==
  /\ serverUp => Accepted = queue \cup InHand \cup Removed
  /\ queue \cap (InHand \cup Removed) = {} /\ InHand \cap Removed = {}
  /\ counted \cap (cancelled \cup lost) = {} /\ cancelled \cap lost = {}
  /\ \A c, d \in Conns :
       /\ taken[c] = given[d] => taken[c] = NoJob
       /\ taken[c] = taken[d] => c = d \/ taken[c] = NoJob
       /\ given[c] = given[d] => c = d \/ given[c] = NoJob
  /\ count = Cardinality(counted)

\* A load test that dies, whatever its calls of Next are doing, costs the hub
\* no more than one job per connection, an earlier load test's one per call
\* that is still polling.
LossBounded ==
  Cardinality(lost) + orphans <= setup.orphans + Cardinality(Conns)

\* A load test that exits has put all its jobs, and has taken as many.
ExitMeansAll ==
  process = "exited" =>
    /\ Enqueuing => JobsOf("this") \subseteq Accepted
    /\ Dequeuing => count >= NumJobs

LeftWith(id) == {j \in setup.left : j.id = id}

\* The load test fails, refuses a put or cancels a job that is yet to be taken
\* only where an earlier one left jobs behind (or the server is gone).
OnlyReusedIdsHurt ==
  /\ process = "failed" /\ serverUp => setup.left # {}
  /\ \A c \in Conns : enq[c] = "refused" => LeftWith(putting[c].id) # {}
  /\ \A j \in cancelled : j.run = "this" /\ LeftWith(j.id) # {}

(* Liveness.                                                               *)

\* Some put sleeps at the fence
Fenced == \E c \in Conns : enq[c] = "fenced"

\* A load test that finds jobs enough ends, with two exceptions.  A call of a
\* client that is gone may take one of the jobs: the load test then waits for
\* ever for the job that is missing.  And a put may sleep at the fence for ever:
\* when the load test takes jobs too, then only at a hub that is empty for good,
\* where OnlyRejectedJobsBlock of MemMonitorProofs says that rejected jobs have
\* leaked.
LoadTestEnds ==
  setup.enqueue \/ Cardinality(setup.left) >= NumJobs =>
    \/ <>(Dead \/ lost # {})
    \/ <>[](Fenced /\ (Dequeuing => queue = {}))
=============================================================================
