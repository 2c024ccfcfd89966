------------------------------- MODULE Server -------------------------------
(***************************************************************************)
(* The life of a server process: it starts, restores the last snapshot     *)
(* while it already serves, is told to stop, writes a new snapshot and     *)
(* exits; or it dies on the way.  The snapshot in the store is all that is *)
(* left between two lives.                                                 *)
(*                                                                         *)
(* The hub is as abstract as JobQueue: it is the set of pending jobs, an   *)
(* operation of it is one step, and it refuses an id that is pending.  The *)
(* store's writer puts a snapshot in place when it is closed, whole or     *)
(* torn.  What an entry of it decodes to is defined by JobCodec.           *)
(*                                                                         *)
(* What a shutdown may wait for is in the model: gRPC calls under way, the *)
(* hub's mutex, the spokes' locks, and the channels on which the walk      *)
(* reports its errors.  Inspections that wait for each other (the run      *)
(* inspect_two of Inspect) may keep spokes, and with them the mutex.       *)
(***************************************************************************)
EXTENDS JobCodec, FiniteSets

CONSTANTS
  Jobs,       \* jobs, each offered by a client at most once
  IdOf,       \* [Jobs -> numbers]: the id a client gives, 0 for none
  TriggerOf,  \* [Jobs -> trigger times]
  StartTime,  \* the clock at the start of a life: lives are short
  MaxCalls    \* bound on the gRPC calls under way at a time

ASSUME JobsAssumption == IdOf \in [Jobs -> Nat] /\ TriggerOf \in [Jobs -> Int]
ASSUME StartAssumption == StartTime \in 0 .. Half - 1
ASSUME CallsAssumption == MaxCalls \in Nat

VARIABLES
  phase,          \* how far the process has come
  rpcUp,          \* rpcSRV is not nil: RPC clients could connect
  grpcUp,         \* grpcSrv is not nil and serves
  calls,          \* gRPC calls that poll or inspect, or hang in doing so
  stuck,          \* what inspections that wait for each other keep for ever
  nextId,         \* globalIDCtr, the last id given to a job without one
  idOf,           \* [Jobs -> numbers]: the id of a job that has been put
  memory,         \* the pending jobs of the hub
  status,         \* history, [Jobs -> Statuses]: what clients know of a job
  stored,         \* the snapshot in the store
  restoring,      \* the --restore flag of this life
  unread,         \* jobs of the snapshot that Restore has yet to add
  restoreErrors,  \* jobs that Restore could not decode or add
  writer,         \* JournalPersister.writer, "nil" until the first entry
  unwritten,      \* jobs that the walk of PersistLocked has yet to write
  written,        \* jobs written so far
  persistErrors,  \* jobs that could not be written
  erring          \* unbuffered channels on which an error waits for its reader

serving == <<rpcUp, grpcUp, calls, stuck>>
idVars == <<nextId, idOf>>
restoreVars == <<restoring, unread, restoreErrors>>
persistVars == <<writer, unwritten, written, persistErrors, erring>>
vars == <<phase, serving, idVars, memory, status, stored, restoreVars, persistVars>>

Phases == {"down", "up", "draining", "stopping", "persisting", "stopped"}
Statuses == {"new", "rejected", "accepted", "answered"}

TypeOK ==
  /\ phase \in Phases
  /\ rpcUp \in BOOLEAN /\ grpcUp \in BOOLEAN
  /\ calls \in 0 .. MaxCalls /\ stuck \in {"nothing", "spokes", "hub"}
  /\ nextId \in Nat /\ idOf \in [Jobs -> Nat]
  /\ memory \in SUBSET Jobs /\ stored \in SUBSET Jobs
  /\ status \in [Jobs -> Statuses]
  /\ restoring \in BOOLEAN
  /\ unread \in SUBSET Jobs /\ restoreErrors \in SUBSET Jobs
  /\ writer \in {"nil", "open"}
  /\ unwritten \in SUBSET Jobs /\ written \in SUBSET Jobs
  /\ persistErrors \in SUBSET Jobs /\ erring \in SUBSET {"errC", "ec"}
  /\ phase # "persisting" => unwritten = {} /\ erring = {}
  /\ calls > 0 => grpcUp

Init ==
  /\ phase = "down" /\ rpcUp = FALSE /\ grpcUp = FALSE /\ memory = {}
  /\ calls = 0 /\ stuck = "nothing"
  /\ nextId = 0 /\ idOf = IdOf
  /\ restoring = FALSE /\ unread = {} /\ restoreErrors = {}
  /\ writer = "nil" /\ unwritten = {} /\ written = {} /\ persistErrors = {} /\ erring = {}
  /\ stored = {}
  /\ status = [j \in Jobs |-> "new"]

Alive == phase # "down"

\* Variant: the snapshot is written without the hub's mutex
NeverLocked == FALSE

\* PersistLocked holds the hub's mutex until the snapshot is closed, and an
\* operation that waits for a spoke holds it as well
Locked == phase = "persisting" \/ stuck = "hub"

-----------------------------------------------------------------------------
(* startApp: the servers listen and Hub.Restore runs, each in a goroutine  *)

\* without --restore the snapshot is left alone, until a new one replaces it
Start ==
  /\ phase = "down" /\ phase' = "up"
  /\ restoring' \in BOOLEAN
  /\ unread' = IF restoring' THEN stored ELSE {}
  /\ UNCHANGED <<serving, idVars, memory, status, stored, restoreErrors, persistVars>>

ServeRPC ==
  /\ phase = "up" /\ rpcUp' = TRUE
  /\ UNCHANGED <<phase, grpcUp, calls, stuck, idVars, memory, status, stored, restoreVars,
                 persistVars>>

ServeGRPC ==
  /\ phase = "up" /\ grpcUp' = TRUE
  /\ UNCHANGED <<phase, rpcUp, calls, stuck, idVars, memory, status, stored, restoreVars,
                 persistVars>>

\* AddJobLocked takes no job whose id is pending, or that lies before the past spoke
IdPending(id) == \E k \in memory : idOf[k] = id
Refused(id, trigger) == IdPending(id) \/ trigger < Horizon(StartTime)

\* A job as Restore reads it back from the entry that Persist wrote
Decoded(j) ==
  GobDecode(GobEncode([id |-> idOf[j], pri |-> 0, trigger |-> TriggerOf[j], ttr |-> 0,
                       body |-> j]))

\* Variant: the error of AddJobLocked is not counted
RestoreUncounted(j) ==
  /\ Alive /\ ~Locked
  /\ j \in unread /\ unread' = unread \ {j}
  /\ memory' = IF Refused(Decoded(j).id, Decoded(j).trigger)
               THEN memory ELSE memory \cup {j}
  /\ UNCHANGED <<phase, serving, idVars, status, stored, restoring, restoreErrors,
                 persistVars>>

Restore(j) ==
  /\ Alive /\ ~Locked
  /\ j \in unread /\ unread' = unread \ {j}
  /\ IF Refused(Decoded(j).id, Decoded(j).trigger)
     THEN restoreErrors' = restoreErrors \cup {j} /\ UNCHANGED memory
     ELSE memory' = memory \cup {j} /\ UNCHANGED restoreErrors
  /\ UNCHANGED <<phase, serving, idVars, status, stored, restoring, persistVars>>

\* Variant: after an entry that fails the snapshot is read again from its start
RestoreFailsRetrying(j) ==
  /\ Alive
  /\ j \in unread /\ unread' = stored
  /\ restoreErrors' = restoreErrors \cup {j}
  /\ UNCHANGED <<phase, serving, idVars, memory, status, stored, restoring, persistVars>>

\* The store, the journal or the decoder fails on an entry, which is skipped
RestoreFails(j) ==
  /\ Alive
  /\ j \in unread /\ unread' = unread \ {j}
  /\ restoreErrors' = restoreErrors \cup {j}
  /\ UNCHANGED <<phase, serving, idVars, memory, status, stored, restoring, persistVars>>

(* Requests.  Closing the RPC listener closes no connection, so RPC clients*)
(* are served for as long as the process lives.                            *)

Served ==
  /\ Alive /\ ~Locked
  /\ rpcUp \/ grpcUp

\* NewJobAutoID: a job without an id is given the next number, from one in every life
GivenId(j) ==
  IF IdOf[j] = 0
  THEN nextId' = nextId + 1 /\ idOf' = [idOf EXCEPT ![j] = nextId']
  ELSE UNCHANGED idVars

Put(j) ==
  /\ Served /\ status[j] = "new"
  /\ GivenId(j)
  /\ IF Refused(idOf'[j], TriggerOf[j])
     THEN status' = [status EXCEPT ![j] = "rejected"] /\ UNCHANGED memory
     ELSE status' = [status EXCEPT ![j] = "accepted"] /\ memory' = memory \cup {j}
  /\ UNCHANGED <<phase, serving, stored, restoreVars, persistVars>>

\* Next or Cancel; a call of Next that had begun to poll ends with it
Take(j) ==
  /\ Served /\ j \in memory
  /\ memory' = memory \ {j}
  /\ status' = [status EXCEPT ![j] = "answered"]
  /\ calls' \in {calls, calls - 1} \cap Nat
  /\ UNCHANGED <<phase, rpcUp, grpcUp, stuck, idVars, stored, restoreVars, persistVars>>

(* Calls that take their time: Next, which polls until its deadline whether*)
(* or not its client is there, and InspectN.  Over gRPC they are counted,  *)
(* since GracefulStop waits for them.                                      *)

\* One that begins after the signal, before GracefulStop refuses it, does no
\* more than one that began before the signal
CallBegins ==
  /\ phase = "up" /\ grpcUp /\ calls < MaxCalls
  /\ calls' = calls + 1
  /\ UNCHANGED <<phase, rpcUp, grpcUp, stuck, idVars, memory, status, stored, restoreVars,
                 persistVars>>

\* At the deadline, or with the jobs asked for.  A call that hangs is one of
\* which FairSpec does not say that it ends
CallEnds ==
  /\ calls > 0
  /\ calls' = calls - 1
  /\ UNCHANGED <<phase, rpcUp, grpcUp, stuck, idVars, memory, status, stored, restoreVars,
                 persistVars>>

\* Two inspections, over RPC or gRPC, each keep spokes that the other waits
\* for.  If they meet during the walk, then either the walk stops at a spoke of
\* theirs, as when they had met before, or has passed them and is not concerned
InspectionsHang ==
  /\ phase \in {"up", "draining", "stopping"} /\ (rpcUp \/ grpcUp)
  /\ stuck = "nothing" /\ stuck' = "spokes"
  /\ UNCHANGED <<phase, rpcUp, grpcUp, calls, idVars, memory, status, stored, restoreVars,
                 persistVars>>

\* A client's operation, or an add of Restore, waits for such a spoke with the
\* hub's mutex in hand
OperationHangs ==
  /\ phase \in {"up", "draining", "stopping"}
  /\ stuck = "spokes" /\ stuck' = "hub"
  /\ UNCHANGED <<phase, rpcUp, grpcUp, calls, idVars, memory, status, stored, restoreVars,
                 persistVars>>

-----------------------------------------------------------------------------
(* The signal handler: close the RPC listener, stop gRPC, Hub.Stop(true)   *)

\* the process is gone, and with it all but the snapshot
Gone ==
  /\ phase' = "down" /\ rpcUp' = FALSE /\ grpcUp' = FALSE /\ memory' = {}
  /\ calls' = 0 /\ stuck' = "nothing" /\ nextId' = 0
  /\ restoring' = FALSE /\ unread' = {} /\ restoreErrors' = {}
  /\ writer' = "nil" /\ unwritten' = {} /\ written' = {} /\ persistErrors' = {}
  /\ erring' = {}
  /\ UNCHANGED <<idOf, stored, status>>

Crash == Alive /\ Gone

\* a signal that comes before a server listens dereferences nil
Signal ==
  /\ phase = "up"
  /\ IF rpcUp
     THEN /\ phase' = "draining"
          /\ UNCHANGED <<serving, idVars, memory, status, stored, restoreVars, persistVars>>
     ELSE Gone

\* gRPC waits for the calls under way
GracefulStop ==
  /\ phase = "draining"
  /\ IF grpcUp
     THEN /\ calls = 0
          /\ phase' = "stopping" /\ grpcUp' = FALSE
          /\ UNCHANGED <<rpcUp, calls, stuck, idVars, memory, status, stored, restoreVars,
                         persistVars>>
     ELSE Gone

\* takes the hub's mutex, unless another operation keeps it for ever
PersistLocked ==
  /\ phase = "stopping" /\ phase' = "persisting"
  /\ stuck # "hub"
  /\ unwritten' = memory
  /\ UNCHANGED <<serving, idVars, memory, status, stored, restoreVars, writer, written,
                 persistErrors, erring>>

\* Each spoke is walked under its lock, by a goroutine that does nothing else
\* while it has an error to send.  Where the jobs of stuck spokes are is left open
Persist(j) ==
  /\ phase = "persisting" /\ "errC" \notin erring
  /\ j \in unwritten /\ unwritten' = unwritten \ {j}
  /\ writer' = "open" /\ written' = written \cup {j}
  /\ UNCHANGED <<phase, serving, idVars, memory, status, stored, restoreVars, persistErrors,
                 erring>>

\* The store fails, either before or after the writer is there; the walk of the
\* spoke sends the error
PersistFails(j) ==
  /\ phase = "persisting" /\ "errC" \notin erring
  /\ j \in unwritten /\ unwritten' = unwritten \ {j}
  /\ writer' \in {writer, "open"}
  /\ persistErrors' = persistErrors \cup {j} /\ erring' = erring \cup {"errC"}
  /\ UNCHANGED <<phase, serving, idVars, memory, status, stored, restoreVars, written>>

\* PersistLocked receives an error of a spoke's walk, and has to send it on
ForwardError ==
  /\ "errC" \in erring /\ "ec" \notin erring /\ erring' = {"ec"}
  /\ UNCHANGED <<phase, serving, idVars, memory, status, stored, restoreVars, writer, unwritten,
                 written, persistErrors>>

\* Variant: Stop counts the errors when the walk is over
DrainErrorsLate ==
  /\ unwritten = {}
  /\ "ec" \in erring /\ erring' = erring \ {"ec"}
  /\ UNCHANGED <<phase, serving, idVars, memory, status, stored, restoreVars, writer, unwritten,
                 written, persistErrors>>

\* Stop receives and counts it
DrainError ==
  /\ "ec" \in erring /\ erring' = erring \ {"ec"}
  /\ UNCHANGED <<phase, serving, idVars, memory, status, stored, restoreVars, writer, unwritten,
                 written, persistErrors>>

\* Variants: Finalize does not wait for the walk; the store's writer, which the
\* journal's does not close, is not closed
FinalizeEarly ==
  /\ phase = "persisting" /\ phase' = "stopped"
  /\ stored' = IF writer = "nil" THEN stored ELSE written
  /\ UNCHANGED <<serving, idVars, memory, status, restoreVars, persistVars>>

FinalizeUnclosed ==
  /\ phase = "persisting" /\ unwritten = {} /\ phase' = "stopped"
  /\ erring = {} /\ stuck = "nothing"
  /\ UNCHANGED <<serving, idVars, memory, status, stored, restoreVars, persistVars>>

\* The walk comes to its end when every error has been taken, and unless it
\* meets the lock of a spoke that is kept for ever.
\* Closing the writer replaces the snapshot, or fails.  It replaces it even when
\* the journal's buffer could not be written to it before: entries that Persist
\* had taken are then missing.  Without an entry the old snapshot stays.
Finalize ==
  /\ phase = "persisting" /\ unwritten = {} /\ phase' = "stopped"
  /\ erring = {} /\ stuck = "nothing"
  /\ \/ /\ writer = "nil" /\ UNCHANGED <<stored, persistErrors>>
     \/ /\ writer = "open" /\ stored' \in SUBSET written
        /\ persistErrors' = persistErrors \cup (written \ stored')
     \/ /\ writer = "open" /\ UNCHANGED stored
        /\ persistErrors' = persistErrors \cup written
  /\ UNCHANGED <<serving, idVars, memory, status, restoreVars, writer, unwritten, written,
                 erring>>

Exit == phase = "stopped" /\ Gone

ShutdownStep ==
  \/ GracefulStop \/ PersistLocked \/ ForwardError \/ DrainError \/ Finalize \/ Exit
  \/ \E j \in Jobs : Persist(j) \/ PersistFails(j)

Next ==
  \/ Start \/ ServeRPC \/ ServeGRPC \/ Crash \/ Signal \/ ShutdownStep
  \/ CallBegins \/ CallEnds \/ InspectionsHang \/ OperationHangs
  \/ \E j \in Jobs : Restore(j) \/ RestoreFails(j) \/ Put(j) \/ Take(j)

Spec == Init /\ [][Next]_vars

\* The handler of the signal and its walk run on, and a store answers in the end.
\* So does a call: its timeout, however long, is finite, and inspections read on,
\* unless they hang or need a hub that does
FairSpec ==
  /\ Spec
  /\ WF_vars(ShutdownStep)
  /\ WF_vars(stuck = "nothing" /\ CallEnds)

-----------------------------------------------------------------------------
(* Safety.                                                                 *)

\* Until it is replaced, every job of the snapshot that started this life is
\* accounted for: yet to be read, pending, answered, or counted as an error.
SnapshotAccounted ==
  restoring /\ phase \in {"up", "draining", "stopping", "persisting"} =>
    \A j \in stored :
      j \in unread \cup memory \cup restoreErrors \/ status[j] = "answered"

\* A snapshot is replaced only by the jobs that are in memory at that moment,
\* but for those whose write failed: no request slips in during the walk.
SnapshotIsMemory ==
  [][stored' # stored => stored' = memory \ persistErrors']_vars

\* Jobs that are in the hub, or could come back to it
Kept == memory \cup unread \cup stored

\* An accepted job is lost in five ways only: the process dies; it could not be
\* written or came after the snapshot, and the process exits; it had not been
\* restored when the process exits; the restore failed on it, and the snapshot
\* that had it has been, or is now, replaced; so is it by a life that did not
\* restore it.
LossExplained ==
  [][\A j \in Kept \ Kept' :
       \/ status'[j] = "answered"
       \/ phase # "stopped" /\ phase' = "down"
       \/ phase = "stopped" /\ phase' = "down"
          /\ (j \in persistErrors \cup unread \/ j \notin written)
       \/ j \in restoreErrors'
       \/ ~restoring /\ phase' = "stopped"]_vars

\* A process answers with no job twice, although the snapshot that it restored
\* stays in the store and is read while clients already take jobs: a job that
\* clients know comes into its hands again only at the start of another life,
\* if the snapshot still has it, and one that has left the hub is not read again.
AnsweredOncePerLife ==
  [][\A j \in Jobs : status[j] # "new" =>
       /\ j \in (memory' \cup unread') \ (memory \cup unread) =>
            phase = "down" /\ restoring' /\ j \in stored
       /\ j \in memory \ memory' => j \notin unread']_vars

(* Liveness.                                                               *)

\* A shutdown that has begun ends, whatever clients wait for and whatever fails to
\* be written, and however many errors its walk has to send: nothing but
\* inspections that wait for each other can keep it from its end.
ShutdownEnds == phase = "draining" ~> phase = "down" \/ stuck # "nothing"

(* What the README says of the server and the server does not do.          *)

\* It exits gracefully with a snapshot of the jobs that are held in memory
SnapshotAtExit ==
  [][Exit /\ persistErrors = {} => stored = memory]_vars
=============================================================================
