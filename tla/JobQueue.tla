------------------------------ MODULE JobQueue ------------------------------
(***************************************************************************)
(* What a chronomq hub promises its clients, with no word on how it keeps  *)
(* the promise: an at-most-once, delayed, cancellable bag of jobs.  There  *)
(* are no spokes, no heaps and no filter here; Hub is shown to implement   *)
(* this module when no two ids share a fingerprint.                        *)
(*                                                                         *)
(*   - a put is refused only when a job of that id is still pending, or    *)
(*     when its trigger time lies before the horizon of the past spoke;    *)
(*   - a job is handed out at most once, never before its trigger time,    *)
(*     and never after a cancel of its id was answered;                    *)
(*   - a cancel answers with the pending job of that id when there is one, *)
(*     and with no job when there is none.                                 *)
(*                                                                         *)
(* A poll may answer "no job" at any moment: the hub does not promise that *)
(* a ready job is found by the poll made right after it became ready.      *)
(*                                                                         *)
(* LooseSpec is what remains when ids share fingerprints: a put may be     *)
(* refused or accepted whatever the id, and a cancel may find no job; all  *)
(* else holds.                                                             *)
(***************************************************************************)
EXTENDS Naturals

CONSTANTS
  Jobs,        \* job objects, each offered to the hub at most once
  Ids,         \* job ids: two jobs may carry the same one
  IdOf,        \* [Jobs -> Ids]
  NoJob,       \* the nil *Job
  Triggers,    \* trigger times a client may ask for
  MaxTime,     \* bound on the clock
  StartTime,   \* the clock when the queue is created
  Horizon      \* trigger times before it are refused

VARIABLES
  now,         \* the clock
  triggerAt,   \* [Jobs -> trigger time]
  status,      \* [Jobs -> Statuses]: what has become of each job
  reply        \* the answer of the call made by the last step

vars == <<now, triggerAt, status, reply>>

Statuses == {"new", "rejected", "pending", "delivered", "cancelled"}

PendingWith(id) == {j \in Jobs : status[j] = "pending" /\ IdOf[j] = id}

Init ==
  /\ now = StartTime
  /\ triggerAt = [j \in Jobs |-> 0]
  /\ status = [j \in Jobs |-> "new"]
  /\ reply = [call |-> "none", job |-> NoJob]

Answer(call, j) == reply' = [call |-> call, job |-> j]

Becomes(j, s) == status' = [status EXCEPT ![j] = s]

Put(j, t) ==
  /\ status[j] = "new"
  /\ triggerAt' = [triggerAt EXCEPT ![j] = t]
  /\ IF PendingWith(IdOf[j]) # {} \/ t < Horizon
     THEN Becomes(j, "rejected") /\ Answer("add", NoJob)
     ELSE Becomes(j, "pending") /\ Answer("add", j)
  /\ UNCHANGED now

Deliver(j) ==
  /\ status[j] = "pending"
  /\ triggerAt[j] <= now
  /\ Becomes(j, "delivered") /\ Answer("next", j)
  /\ UNCHANGED <<now, triggerAt>>

PollEmpty == Answer("next", NoJob) /\ UNCHANGED <<now, triggerAt, status>>

Cancel(id) ==
  /\ IF PendingWith(id) = {}
     THEN Answer("cancel", NoJob) /\ UNCHANGED status
     ELSE \E j \in PendingWith(id) :
            Becomes(j, "cancelled") /\ Answer("cancel", j)
  /\ UNCHANGED <<now, triggerAt>>

Tick ==
  /\ now < MaxTime
  /\ now' = now + 1
  /\ Answer("none", NoJob)
  /\ UNCHANGED <<triggerAt, status>>

Next ==
  \/ \E j \in Jobs, t \in Triggers : Put(j, t)
  \/ \E j \in Jobs : Deliver(j)
  \/ PollEmpty
  \/ \E id \in Ids : Cancel(id)
  \/ Tick

Spec == Init /\ [][Next]_vars

-----------------------------------------------------------------------------
LoosePut(j, t) ==
  /\ status[j] = "new"
  /\ triggerAt' = [triggerAt EXCEPT ![j] = t]
  /\ \/ Becomes(j, "rejected") /\ Answer("add", NoJob)
     \/ t >= Horizon /\ Becomes(j, "pending") /\ Answer("add", j)
  /\ UNCHANGED now

LooseCancel(id) ==
  /\ \/ Answer("cancel", NoJob) /\ UNCHANGED status
     \/ \E j \in PendingWith(id) : Becomes(j, "cancelled") /\ Answer("cancel", j)
  /\ UNCHANGED <<now, triggerAt>>

\* spokes are pruned, which is nothing to clients
Prune == Answer("prune", NoJob) /\ UNCHANGED <<now, triggerAt, status>>

LooseNext ==
  \/ \E j \in Jobs, t \in Triggers : LoosePut(j, t)
  \/ \E j \in Jobs : Deliver(j)
  \/ PollEmpty
  \/ \E id \in Ids : LooseCancel(id)
  \/ Tick
  \/ Prune

LooseSpec == Init /\ [][LooseNext]_vars

-----------------------------------------------------------------------------
TypeOK ==
  /\ now \in StartTime .. MaxTime
  /\ triggerAt \in [Jobs -> Triggers \cup {0}]
  /\ status \in [Jobs -> Statuses]
  /\ reply \in [call : {"none", "add", "next", "cancel"},
                job : Jobs \cup {NoJob}]
=============================================================================
