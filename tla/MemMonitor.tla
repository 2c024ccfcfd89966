----------------------------- MODULE MemMonitor -----------------------------
(***************************************************************************)
(* The memory monitor and the request handlers that feed it.  A counter,   *)
(* updated with atomic adds and without a lock, accounts for the jobs that *)
(* the hub holds.  Puts that arrive over RPC first pass a fence, which     *)
(* blocks on a condition variable while the counter is at the watermark;   *)
(* whoever brings the counter below the recovery watermark wakes them.     *)
(*                                                                         *)
(* Each handler is a goroutine; an action is what one does between two     *)
(* accesses to shared state.  The hub is as abstract as JobQueue: it       *)
(* refuses an id that is pending, and a poll or cancel takes some pending  *)
(* job.  The counter is a uint64: a negative number stands for the value   *)
(* 2^64 larger that it wraps to, above every watermark and every limit.    *)
(***************************************************************************)
EXTENDS Integers, FiniteSets, FiniteSetsExt

CONSTANTS
  Putters,           \* goroutines that serve PutWithID
  Takers,            \* goroutines that serve Next and Cancel
  Jobs,
  GrpcJobs,          \* jobs that are put over gRPC
  RestoredJobs,      \* jobs that Hub.Restore adds; the others come over RPC
  IdOf,              \* [Jobs -> job ids]
  SizeOf,            \* [Jobs -> positive numbers]
  Watermark,         \* of MEM_HIGH_WATERMARK
  Tebibyte,          \* a counter above it is taken for an underflow
  NoJob,
  Free               \* value of the lock when nobody holds it

ASSUME JobsAssumption ==
  /\ GrpcJobs \subseteq Jobs /\ RestoredJobs \subseteq Jobs
  /\ GrpcJobs \cap RestoredJobs = {}
  /\ NoJob \notin Jobs /\ IsFiniteSet(Jobs)
  /\ SizeOf \in [Jobs -> Nat \ {0}]
ASSUME WatermarkAssumption ==
  Watermark \in Nat \ {0} /\ Tebibyte \in Nat
ASSUME HandlersAssumption ==
  /\ Putters \cap Takers = {} /\ IsFiniteSet(Putters)
  /\ Free \notin Putters \cup Takers

Handlers == Putters \cup Takers

\* About one per cent below the watermark, which keeps it when it is under a
\* kibibyte.  (A watermark of zero, or none, configures a monitor that does
\* nothing, which is not modelled.)
RecoveryWatermark == Watermark - 10 * (Watermark \div 1024)

VARIABLES
  current,   \* memMonitor.current
  lock,      \* holder of breachCond.L
  pc,        \* [Handlers -> where the handler is]
  job,       \* [Handlers -> the job it works on]
  status,    \* [Jobs -> what has become of the job]
  crashed    \* a panic in a handler takes the process down

vars == <<current, lock, pc, job, status, crashed>>

Statuses == {"new", "pending", "rejected", "removed"}
Places == {"idle", "fence", "load", "wait", "asleep", "add", "increment",
           "incrementFirst", "addLast", "decrement", "panic", "peek", "wake"}

TypeOK ==
  /\ current \in Int
  /\ lock \in Handlers \cup {Free}
  /\ pc \in [Handlers -> Places]
  /\ job \in [Handlers -> Jobs \cup {NoJob}]
  /\ status \in [Jobs -> Statuses]
  /\ crashed \in BOOLEAN
  /\ \A h \in Handlers : lock = h <=> pc[h] \in {"load", "wait"}
  /\ \A h \in Handlers : job[h] = NoJob <=> pc[h] \in {"idle", "wake"}

Init ==
  /\ current = 0
  /\ lock = Free
  /\ pc = [h \in Handlers |-> "idle"]
  /\ job = [h \in Handlers |-> NoJob]
  /\ status = [j \in Jobs |-> "new"]
  /\ crashed = FALSE

\* uint64 comparisons on the wrapped counter
AtOrAbove(c, n) == c < 0 \/ c >= n
Above(c, n) == c < 0 \/ c > n

Goto(h, place) == pc' = [pc EXCEPT ![h] = place]

\* handler h, which is at one place, goes to the other
Moves(h, from, to) == ~crashed /\ pc[h] = from /\ Goto(h, to)

\* Hub.AddJobLocked
AddToHub(j) ==
  status' = [status EXCEPT ![j] =
    IF \E k \in Jobs : status[k] = "pending" /\ IdOf[k] = IdOf[j]
    THEN "rejected" ELSE "pending"]

\* a client offers a job that no handler has seen yet
Offered(j) == status[j] = "new" /\ \A h \in Handlers : job[h] # j

-----------------------------------------------------------------------------
(* RPCServer.PutWithID: fence, add to the hub, and on return increment     *)

RpcPut(h) ==
  /\ Moves(h, "idle", "fence")
  /\ \E j \in Jobs \ (GrpcJobs \cup RestoredJobs) :
       /\ Offered(j)
       /\ job' = [job EXCEPT ![h] = j]
  /\ UNCHANGED <<current, lock, status, crashed>>

FenceLock(h) ==
  /\ lock = Free /\ lock' = h
  /\ Moves(h, "fence", "load")
  /\ UNCHANGED <<current, job, status, crashed>>

\* Variant: a put passes while the counter is at the watermark
FenceLoadAbove(h) ==
  /\ IF Above(current, Watermark)
     THEN Moves(h, "load", "wait") /\ UNCHANGED lock
     ELSE Moves(h, "load", "add") /\ lock' = Free
  /\ UNCHANGED <<current, job, status, crashed>>

\* Variant: a put that passes keeps the lock
FenceLoadKeepingLock(h) ==
  /\ Moves(h, "load", IF AtOrAbove(current, Watermark) THEN "wait" ELSE "add")
  /\ UNCHANGED <<current, lock, job, status, crashed>>

\* the loop condition of the fence, read under the lock of the condition
FenceLoad(h) ==
  /\ IF AtOrAbove(current, Watermark)
     THEN Moves(h, "load", "wait") /\ UNCHANGED lock
     ELSE Moves(h, "load", "add") /\ lock' = Free
  /\ UNCHANGED <<current, job, status, crashed>>

\* Variant: the put sleeps with the lock in hand
FenceWaitKeepingLock(h) ==
  /\ Moves(h, "wait", "asleep")
  /\ UNCHANGED <<current, lock, job, status, crashed>>

\* Cond.Wait: registers for the next broadcast, then lets go of the lock
FenceWait(h) ==
  /\ Moves(h, "wait", "asleep")
  /\ lock' = Free
  /\ UNCHANGED <<current, job, status, crashed>>

RpcAdd(h) ==
  /\ Moves(h, "add", "increment")
  /\ AddToHub(job[h])
  /\ UNCHANGED <<current, lock, job, crashed>>

\* deferred, so that it runs whether the hub took the job or not
RpcIncrement(h) ==
  /\ Moves(h, "increment", "idle")
  /\ current' = current + SizeOf[job[h]]
  /\ job' = [job EXCEPT ![h] = NoJob]
  /\ UNCHANGED <<lock, status, crashed>>

(* GRPCServer.PutWithID: no fence, increment, then add to the hub          *)

\* Variant: in the order of the RPC handler, the hub first and the counter last
GrpcPutAddingFirst(h) ==
  /\ Moves(h, "idle", "add")
  /\ \E j \in GrpcJobs :
       /\ Offered(j)
       /\ job' = [job EXCEPT ![h] = j]
  /\ UNCHANGED <<current, lock, status, crashed>>

GrpcPut(h) ==
  /\ Moves(h, "idle", "incrementFirst")
  /\ \E j \in GrpcJobs :
       /\ Offered(j)
       /\ job' = [job EXCEPT ![h] = j]
  /\ UNCHANGED <<current, lock, status, crashed>>

GrpcIncrement(h) ==
  /\ Moves(h, "incrementFirst", "addLast")
  /\ current' = current + SizeOf[job[h]]
  /\ UNCHANGED <<lock, job, status, crashed>>

GrpcAdd(h) ==
  /\ Moves(h, "addLast", "idle")
  /\ AddToHub(job[h])
  /\ job' = [job EXCEPT ![h] = NoJob]
  /\ UNCHANGED <<current, lock, crashed>>

(* Next and Cancel, over RPC and gRPC: once the hub has given the job up,  *)
(* the monitor is decremented, and the fenced puts are woken.              *)

Take(h) ==
  /\ Moves(h, "idle", "decrement")
  /\ \E j \in Jobs :
       /\ status[j] = "pending"
       /\ status' = [status EXCEPT ![j] = "removed"]
       /\ job' = [job EXCEPT ![h] = j]
  /\ UNCHANGED <<current, lock, crashed>>

\* Variant: one is subtracted, whatever the size of the job
DecrementOne(h) ==
  /\ LET left == current - 1
     IN  /\ Moves(h, "decrement", IF Above(left, Tebibyte) THEN "panic" ELSE "peek")
         /\ current' = left
  /\ UNCHANGED <<lock, job, status, crashed>>

Decrement(h) ==
  /\ LET left == current - SizeOf[job[h]]
     IN  /\ Moves(h, "decrement", IF Above(left, Tebibyte) THEN "panic" ELSE "peek")
         /\ current' = left
  /\ UNCHANGED <<lock, job, status, crashed>>

\* the counter is reset, and the panic is not recovered from by net/rpc or gRPC
Underflow(h) ==
  /\ Moves(h, "panic", "idle")
  /\ current' = 0 /\ crashed' = TRUE
  /\ job' = [job EXCEPT ![h] = NoJob]
  /\ UNCHANGED <<lock, status>>

DecrementPeek(h) ==
  /\ Moves(h, "peek", IF ~AtOrAbove(current, RecoveryWatermark) THEN "wake" ELSE "idle")
  /\ job' = [job EXCEPT ![h] = NoJob]
  /\ UNCHANGED <<current, lock, status, crashed>>

Woken == [g \in Handlers |-> IF pc[g] = "asleep" THEN "fence" ELSE pc[g]]

\* Variant: the broadcast does not take the lock
DecrementWakeUnlocked(h) ==
  /\ ~crashed /\ pc[h] = "wake"
  /\ pc' = [Woken EXCEPT ![h] = "idle"]
  /\ UNCHANGED <<current, lock, job, status, crashed>>

\* lock, broadcast, unlock
DecrementWake(h) ==
  /\ ~crashed /\ pc[h] = "wake" /\ lock = Free
  /\ pc' = [Woken EXCEPT ![h] = "idle"]
  /\ UNCHANGED <<current, lock, job, status, crashed>>

(* Hub.Restore adds what a snapshot held straight to the hub               *)

RestoreAdd(j) ==
  /\ ~crashed /\ Offered(j)
  /\ AddToHub(j)
  /\ UNCHANGED <<current, lock, pc, job, crashed>>

\* What a put does once a client has sent it, taking the lock apart
PutStep(h) ==
  \/ FenceLoad(h) \/ FenceWait(h) \/ RpcAdd(h) \/ RpcIncrement(h)
  \/ GrpcIncrement(h) \/ GrpcAdd(h)

Put(h) == RpcPut(h) \/ GrpcPut(h) \/ FenceLock(h) \/ PutStep(h)

Removal(h) ==
  \/ Take(h) \/ Decrement(h) \/ Underflow(h)
  \/ DecrementPeek(h) \/ DecrementWake(h)

Next ==
  \/ \E h \in Putters : Put(h)
  \/ \E h \in Takers : Removal(h)
  \/ \E j \in RestoredJobs : RestoreAdd(j)

Spec == Init /\ [][Next]_vars

\* Goroutines are scheduled, and some client keeps asking for jobs.  Nothing is
\* assumed of who gets the mutex first, nor of puts that wait for it.
FairSpec ==
  /\ Spec
  /\ \A h \in Putters : WF_vars(PutStep(h))
  /\ \A h \in Takers : WF_vars(Removal(h))

-----------------------------------------------------------------------------
Total(js) == MapThenSumSet(LAMBDA j : SizeOf[j], js)
JobsAt(places) == {job[h] : h \in {g \in Handlers : pc[g] \in places}}
InState(states) == {j \in Jobs : status[j] \in states}

(* Safety.                                                                 *)

\* No put sleeps at the fence when memory has recovered, unless the decrement
\* that made it recover is still on its way to the broadcast (or to a panic): the wake-up can
\* not fall between a put's look at the counter and its going to sleep.
NoLostWakeup ==
  \A h \in Putters :
    pc[h] \in {"wait", "asleep"} /\ 0 <= current /\ current < RecoveryWatermark =>
      crashed \/ \E d \in Takers : pc[d] \in {"peek", "wake", "panic"}

\* The counter is the size of the jobs in the hub, but for jobs that a handler
\* has in hand, rejected jobs, which stay counted for ever, and restored jobs,
\* which were never counted and are subtracted all the same.
AccountingExplained ==
  crashed \/
    current + Total(JobsAt({"increment"})) =
      Total(InState({"pending", "rejected"}) \ RestoredJobs)
      + Total(JobsAt({"addLast", "decrement"}))
      - Total((InState({"removed"}) \cap RestoredJobs))

\* The fence bounds memory: jobs that come over RPC bring the counter over the
\* watermark by no more than one job per handler, each of which had looked at
\* the counter before the others added to it (jobs that came over gRPC pass no
\* fence, and count on top).
FenceBounds ==
  LET largest == Max({SizeOf[j] : j \in Jobs \ GrpcJobs})
  IN  current <= Watermark - 1 + Cardinality(Putters) * largest
                 + Total({j \in GrpcJobs : ~Offered(j)})

\* Puts over gRPC count a job before a taker can see it: as long as only they
\* are used the counter never wraps below zero.
GrpcNeverUnderflows ==
  (\A j \in Jobs \ GrpcJobs : Offered(j)) => current >= 0 /\ ~crashed

(* Liveness.                                                               *)

\* A put that sleeps at the fence is woken as the hub is drained, unless what
\* rejected jobs have leaked keeps the counter from ever recovering.
FencedPutsWake ==
  \A h \in Putters :
    []<>(pc[h] # "asleep" \/ crashed \/ Total(InState({"rejected"})) >= RecoveryWatermark)

(* What the code asserts of itself and does not keep.                      *)

\* No decrement comes without a matching increment
NoUnderflow == ~crashed
=============================================================================
