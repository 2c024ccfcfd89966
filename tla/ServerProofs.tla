---------------------------- MODULE ServerProofs ----------------------------
(***************************************************************************)
(* Proofs for JobCodec, for an int64 of any width and any reach of the     *)
(* past spoke: what of a job survives the encoding that Persist writes and *)
(* Restore reads.  Invariance proofs for Server, for any set of jobs: what *)
(* a snapshot holds when it is replaced, every way in which a job can be   *)
(* lost, what a shutdown may wait for, and that it goes forward only.      *)
(***************************************************************************)
EXTENDS Server, FiniteSetTheorems, TLAPS

-----------------------------------------------------------------------------
(* A job through a snapshot and back.                                      *)

\* An int64 is itself, and the first integers past it are the lowest of them
LEMMA Int64InRange ==
  ASSUME NEW n \in -Half .. Half - 1
  PROVE  Int64(n) = n
  <1>1. n + Half \in 0 .. 2 * Half - 1 /\ 2 * Half \in Nat \ {0}
    BY WidthAssumption
  <1>2. \A a \in Nat, b \in Nat \ {0} : a < b => a % b = a
    OBVIOUS
  <1>3. (n + Half) % (2 * Half) = n + Half
    BY <1>1, <1>2
  <1> QED
    BY <1>3, WidthAssumption DEF Int64

LEMMA Int64Above ==
  ASSUME NEW n \in Half .. 3 * Half - 1
  PROVE  Int64(n) = n - 2 * Half
  <1>1. n - Half \in 0 .. 2 * Half - 1 /\ 2 * Half \in Nat \ {0}
    BY WidthAssumption
  <1>2. \A a \in Nat, b \in Nat \ {0} : a < b => (a + b) % b = a
    OBVIOUS
  <1>3. ((n - Half) + 2 * Half) % (2 * Half) = n - Half
    BY <1>1, <1>2
  <1>4. (n - Half) + 2 * Half = n + Half
    BY WidthAssumption
  <1> QED
    BY <1>3, <1>4, WidthAssumption DEF Int64

\* Decoding undoes encoding, but for the trigger time
LEMMA DecodedFields ==
  ASSUME NEW id, NEW pri, NEW trigger, NEW ttr, NEW body
  PROVE  GobDecode(GobEncode([id |-> id, pri |-> pri, trigger |-> trigger, ttr |-> ttr,
                              body |-> body]))
           = [id |-> id, pri |-> pri, trigger |-> UnixNano(trigger), ttr |-> ttr, body |-> body]
  BY DEF GobDecode, GobEncode

\* A job put at one time with a delay of any int64 is read back from a snapshot
\* just as it was put, or its trigger time has wrapped around and lies so far
\* back that AddJobLocked of every process started since refuses it: a restore
\* never makes a job that is due in the far future due at once.
THEOREM RestoredAsPutOrRefused ==
  ASSUME NEW now \in 0 .. Half - 1, NEW delay \in -Half .. Half - 1,
         NEW start \in now .. Half - 1,
         NEW id, NEW pri, NEW ttr, NEW body
  PROVE  LET job == [id |-> id, pri |-> pri, trigger |-> now + delay, ttr |-> ttr,
                     body |-> body]
             read == GobDecode(GobEncode(job))
         IN  read = job \/ read.trigger < Horizon(start)
  <1> DEFINE trigger == now + delay
             job == [id |-> id, pri |-> pri, trigger |-> trigger, ttr |-> ttr, body |-> body]
             read == GobDecode(GobEncode(job))
  <1>1. read = [id |-> id, pri |-> pri, trigger |-> UnixNano(trigger), ttr |-> ttr, body |-> body]
    BY DecodedFields
  <1>2. CASE trigger < Half
    <2>1. trigger \in -Half .. Half - 1
      BY <1>2, WidthAssumption
    <2>2. UnixNano(trigger) = trigger
      BY <2>1, Int64InRange DEF UnixNano
    <2> QED
      BY <1>1, <2>2
  <1>3. CASE trigger >= Half
    <2>1. trigger \in Half .. 3 * Half - 1
      BY <1>3, WidthAssumption
    <2>2. UnixNano(trigger) = trigger - 2 * Half
      BY <2>1, Int64Above DEF UnixNano
    <2>3. trigger - 2 * Half < start - HundredYears
      BY WidthAssumption
    <2>4. read.trigger = UnixNano(trigger)
      BY <1>1
    <2> QED
      BY <2>2, <2>3, <2>4 DEF Horizon
  <1>4. trigger < Half \/ trigger >= Half
    BY WidthAssumption
  <1> QED
    BY <1>2, <1>3, <1>4

-----------------------------------------------------------------------------
(* The process.                                                            *)

\* The walk of PersistLocked splits the hub's jobs in three, and nothing of a
\* snapshot exists before it
WalkSplits ==
  /\ phase \in {"down", "up", "draining", "stopping"} =>
       writer = "nil" /\ written = {} /\ persistErrors = {}
  /\ phase = "persisting" =>
       /\ memory = unwritten \cup written \cup persistErrors
       /\ unwritten \cap (written \cup persistErrors) = {}
       /\ written \cap persistErrors = {}
  /\ writer = "nil" => written = {}

\* Once the snapshot is closed, what was written is in the store, or is known
\* to have failed; once the process is gone, so is what it held or had yet to
\* restore
CommitKnown ==
  /\ phase = "stopped" => written \subseteq stored \cup persistErrors
  /\ phase = "down" => unread = {} /\ memory = {}

ServerInv == TypeOK /\ SnapshotAccounted /\ WalkSplits /\ CommitKnown

LEMMA NoCalls == 0 \in 0 .. MaxCalls /\ ~(0 > 0)
  BY CallsAssumption

LEMMA InitServer == Init => ServerInv
  <1> SUFFICES ASSUME Init PROVE ServerInv
    OBVIOUS
  <1>1. nextId \in Nat /\ idOf \in [Jobs -> Nat] /\ status \in [Jobs -> Statuses]
    BY JobsAssumption DEF Init, Statuses
  <1>2. TypeOK
    BY <1>1, NoCalls DEF Init, TypeOK, Phases
  <1>3. SnapshotAccounted
    BY DEF Init, SnapshotAccounted
  <1>4. WalkSplits /\ CommitKnown
    BY DEF Init, WalkSplits, CommitKnown
  <1> QED
    BY <1>2, <1>3, <1>4 DEF ServerInv

-----------------------------------------------------------------------------
\* Calls that begin, end or hang, and errors on their way, touch nothing else
WaitStep ==
  CallBegins \/ CallEnds \/ InspectionsHang \/ OperationHangs \/ ForwardError \/ DrainError

LEMMA WaitsOnly ==
  ASSUME WaitStep
  PROVE  UNCHANGED <<phase, rpcUp, grpcUp, idVars, memory, status, stored, restoreVars,
                     writer, unwritten, written, persistErrors>>
  BY DEF WaitStep, CallBegins, CallEnds, InspectionsHang, OperationHangs, ForwardError,
         DrainError, serving, persistVars

\* A process that is gone leaves a snapshot and what clients know, as they were
LEMMA TypeGone == TypeOK /\ Gone => TypeOK'
  <1> SUFFICES ASSUME TypeOK, Gone PROVE TypeOK'
    OBVIOUS
  <1>1. /\ idOf' \in [Jobs -> Nat] /\ status' \in [Jobs -> Statuses]
        /\ stored' \in SUBSET Jobs
    BY DEF TypeOK, Gone
  <1>2. /\ phase' = "down" /\ nextId' = 0 /\ rpcUp' = FALSE /\ grpcUp' = FALSE
        /\ restoring' = FALSE /\ calls' = 0 /\ stuck' = "nothing"
    BY DEF Gone
  <1>3. /\ memory' = {} /\ unread' = {} /\ restoreErrors' = {}
        /\ writer' = "nil" /\ unwritten' = {} /\ written' = {} /\ persistErrors' = {}
        /\ erring' = {}
    BY DEF Gone
  <1> QED
    BY <1>1, <1>2, <1>3, NoCalls DEF TypeOK, Phases

LEMMA TypeNext == TypeOK /\ [Next]_vars => TypeOK'
  <1> SUFFICES ASSUME TypeOK, [Next]_vars PROVE TypeOK'
    OBVIOUS
  <1> USE DEF TypeOK, Phases, idVars, serving
  <1>1. CASE Start \/ ServeRPC \/ ServeGRPC
    BY <1>1 DEF Start, ServeRPC, ServeGRPC, restoreVars, persistVars
  <1>2. CASE Gone
    BY <1>2, TypeGone
  <1>3. CASE (Signal \/ GracefulStop) /\ ~Gone
    BY <1>3, NoCalls DEF Signal, GracefulStop, restoreVars, persistVars
  <1>4. CASE PersistLocked \/ Finalize
    BY <1>4 DEF PersistLocked, Finalize, restoreVars
  <1>5. ASSUME NEW j \in Jobs, Persist(j) \/ PersistFails(j) PROVE TypeOK'
    BY <1>5 DEF Persist, PersistFails, restoreVars
  <1>6. ASSUME NEW j \in Jobs, Restore(j) \/ RestoreFails(j) PROVE TypeOK'
    BY <1>6 DEF Restore, RestoreFails, persistVars
  <1>7. ASSUME NEW j \in Jobs, Put(j) PROVE TypeOK'
    <2>1. nextId' \in Nat /\ idOf' \in [Jobs -> Nat]
      BY <1>7 DEF Put, GivenId
    <2>2. status' \in [Jobs -> Statuses] /\ memory' \in SUBSET Jobs
      BY <1>7 DEF Put, Statuses
    <2> QED
      BY <1>7, <2>1, <2>2 DEF Put, restoreVars, persistVars
  <1>8. ASSUME NEW j \in Jobs, Take(j) PROVE TypeOK'
    <2>1. status' \in [Jobs -> Statuses] /\ memory' \in SUBSET Jobs
      BY <1>8 DEF Take, Statuses
    <2>2. calls' \in 0 .. MaxCalls /\ (calls' > 0 => grpcUp')
      BY <1>8, CallsAssumption DEF Take
    <2> QED
      BY <1>8, <2>1, <2>2 DEF Take, restoreVars, persistVars
  <1>9. CASE UNCHANGED vars
    BY <1>9 DEF vars, restoreVars, persistVars
  <1>10. CASE WaitStep
    <2>1. calls' \in 0 .. MaxCalls /\ (calls' > 0 => grpcUp')
      BY <1>10, CallsAssumption
      DEF WaitStep, CallBegins, CallEnds, InspectionsHang, OperationHangs, ForwardError,
          DrainError
    <2>2. stuck' \in {"nothing", "spokes", "hub"}
      BY <1>10
      DEF WaitStep, CallBegins, CallEnds, InspectionsHang, OperationHangs, ForwardError,
          DrainError
    <2>3. erring' = erring \/ (erring # {} /\ erring' \in SUBSET {"errC", "ec"})
      BY <1>10
      DEF WaitStep, CallBegins, CallEnds, InspectionsHang, OperationHangs, ForwardError,
          DrainError, persistVars
    <2> QED
      BY <1>10, <2>1, <2>2, <2>3, WaitsOnly DEF restoreVars
  <1> QED
    BY <1>1, <1>2, <1>3, <1>4, <1>5, <1>6, <1>7, <1>8, <1>9, <1>10
    DEF Next, ShutdownStep, Crash, Exit, Signal, GracefulStop, WaitStep

LEMMA AccountedNext == ServerInv /\ [Next]_vars => SnapshotAccounted'
  <1> SUFFICES ASSUME ServerInv, [Next]_vars PROVE SnapshotAccounted'
    OBVIOUS
  <1> USE DEF ServerInv, SnapshotAccounted
  <1>1. CASE Start \/ ServeRPC \/ ServeGRPC
    BY <1>1 DEF Start, ServeRPC, ServeGRPC, restoreVars
  <1>2. CASE Crash \/ Exit
    BY <1>2 DEF Crash, Exit, Gone
  <1>3. CASE Signal \/ GracefulStop
    BY <1>3 DEF Signal, GracefulStop, Gone, restoreVars
  <1>4. CASE PersistLocked \/ Finalize
    BY <1>4 DEF PersistLocked, Finalize, restoreVars
  <1>5. ASSUME NEW j \in Jobs, Persist(j) \/ PersistFails(j) PROVE SnapshotAccounted'
    BY <1>5 DEF Persist, PersistFails, restoreVars
  <1>6. ASSUME NEW j \in Jobs, Restore(j) \/ RestoreFails(j) PROVE SnapshotAccounted'
    BY <1>6 DEF Restore, RestoreFails
  <1>7. ASSUME NEW j \in Jobs, Put(j) PROVE SnapshotAccounted'
    <2>1. \A k \in Jobs : status[k] = "answered" => status'[k] = "answered"
      BY <1>7 DEF Put, TypeOK
    <2> QED
      BY <1>7, <2>1 DEF Put, TypeOK, restoreVars
  <1>8. ASSUME NEW j \in Jobs, Take(j) PROVE SnapshotAccounted'
    <2>1. status'[j] = "answered"
      BY <1>8 DEF Take, TypeOK
    <2>2. \A k \in Jobs \ {j} : status'[k] = status[k]
      BY <1>8 DEF Take, TypeOK
    <2> QED
      BY <1>8, <2>1, <2>2 DEF Take, TypeOK, restoreVars
  <1>9. CASE UNCHANGED vars
    BY <1>9 DEF vars, restoreVars
  <1>10. CASE WaitStep
    BY <1>10, WaitsOnly DEF restoreVars
  <1> QED
    BY <1>1, <1>2, <1>3, <1>4, <1>5, <1>6, <1>7, <1>8, <1>9, <1>10
    DEF Next, ShutdownStep, WaitStep

\* Restores and requests need the lock, so that they leave the walk alone
LEMMA WalkNext == ServerInv /\ [Next]_vars => WalkSplits' /\ CommitKnown'
  <1> SUFFICES ASSUME ServerInv, [Next]_vars PROVE WalkSplits' /\ CommitKnown'
    OBVIOUS
  <1> USE DEF ServerInv, WalkSplits, CommitKnown
  <1>1. CASE Start \/ ServeRPC \/ ServeGRPC
    BY <1>1 DEF Start, ServeRPC, ServeGRPC, restoreVars, persistVars
  <1>2. CASE Crash \/ Exit
    BY <1>2 DEF Crash, Exit, Gone
  <1>3. CASE Signal \/ GracefulStop
    BY <1>3 DEF Signal, GracefulStop, Gone, restoreVars, persistVars
  <1>4. CASE PersistLocked
    BY <1>4 DEF PersistLocked
  <1>5. CASE Finalize
    BY <1>5 DEF Finalize
  <1>6. ASSUME NEW j \in Jobs, Persist(j) PROVE WalkSplits' /\ CommitKnown'
    BY <1>6 DEF Persist
  <1>7. ASSUME NEW j \in Jobs, PersistFails(j) PROVE WalkSplits' /\ CommitKnown'
    BY <1>7 DEF PersistFails, TypeOK
  <1>8. ASSUME NEW j \in Jobs, Restore(j) \/ RestoreFails(j) PROVE WalkSplits' /\ CommitKnown'
    BY <1>8 DEF Restore, RestoreFails, Alive, Locked, persistVars
  <1>9. ASSUME NEW j \in Jobs, Put(j) \/ Take(j) PROVE WalkSplits' /\ CommitKnown'
    BY <1>9 DEF Put, Take, Served, Alive, Locked, restoreVars, persistVars
  <1>10. CASE UNCHANGED vars
    BY <1>10 DEF vars, restoreVars, persistVars
  <1>11. CASE WaitStep
    BY <1>11, WaitsOnly DEF restoreVars
  <1> QED
    BY <1>1, <1>2, <1>3, <1>4, <1>5, <1>6, <1>7, <1>8, <1>9, <1>10, <1>11
    DEF Next, ShutdownStep, WaitStep

LEMMA ServerInvariance == Spec => []ServerInv
  <1>1. ServerInv /\ [Next]_vars => ServerInv'
    BY TypeNext, AccountedNext, WalkNext DEF ServerInv
  <1> QED
    BY <1>1, InitServer, PTL DEF Spec

-----------------------------------------------------------------------------
\* What replaces a snapshot is what the hub holds at that moment
LEMMA ReplacedByMemory ==
  ServerInv /\ [Next]_vars => (stored' # stored => stored' = memory \ persistErrors')
  <1> SUFFICES ASSUME ServerInv, [Next]_vars, stored' # stored
               PROVE  stored' = memory \ persistErrors'
    OBVIOUS
  <1>1. Finalize
    BY DEF Next, vars, ShutdownStep, Start, ServeRPC, ServeGRPC, Crash, Signal, GracefulStop,
           PersistLocked, Exit, Persist, PersistFails, Restore, RestoreFails, Put, Take, Gone,
           CallBegins, CallEnds, InspectionsHang, OperationHangs, ForwardError, DrainError
  <1>2. /\ phase = "persisting" /\ unwritten = {}
        /\ stored' \subseteq written
        /\ persistErrors' = persistErrors \cup (written \ stored')
    BY <1>1 DEF Finalize
  <1> QED
    BY <1>2 DEF ServerInv, WalkSplits

\* The cases of LossExplained
Excused(j) ==
  \/ status'[j] = "answered"
  \/ phase # "stopped" /\ phase' = "down"
  \/ phase = "stopped" /\ phase' = "down"
     /\ (j \in persistErrors \cup unread \/ j \notin written)
  \/ j \in restoreErrors'
  \/ ~restoring /\ phase' = "stopped"

LEMMA LossStep == ServerInv /\ [Next]_vars => \A j \in Kept \ Kept' : Excused(j)
  <1> SUFFICES ASSUME ServerInv, [Next]_vars, NEW j \in Kept \ Kept'
               PROVE  Excused(j)
    OBVIOUS
  <1> USE DEF Kept, Excused
  <1>1. CASE Start \/ ServeRPC \/ ServeGRPC \/ PersistLocked
    BY <1>1 DEF Start, ServeRPC, ServeGRPC, PersistLocked, restoreVars, ServerInv, CommitKnown
  <1>2. CASE Crash \/ Exit
    BY <1>2 DEF Crash, Exit, Gone, Alive, ServerInv, CommitKnown
  <1>3. CASE Signal \/ GracefulStop
    BY <1>3 DEF Signal, GracefulStop, Gone, restoreVars
  <1>4. CASE Finalize
    <2>1. j \in stored /\ j \notin memory \cup unread
      BY <1>4 DEF Finalize, restoreVars
    <2> QED
      BY <1>4, <2>1 DEF Finalize, restoreVars, ServerInv, SnapshotAccounted
  <1>5. ASSUME NEW k \in Jobs, Persist(k) \/ PersistFails(k) PROVE Excused(j)
    BY <1>5 DEF Persist, PersistFails, restoreVars
  <1>6. ASSUME NEW k \in Jobs, Restore(k) \/ RestoreFails(k) PROVE Excused(j)
    BY <1>6 DEF Restore, RestoreFails
  <1>7. ASSUME NEW k \in Jobs, Put(k) PROVE Excused(j)
    BY <1>7 DEF Put, restoreVars
  <1>8. ASSUME NEW k \in Jobs, Take(k) PROVE Excused(j)
    <2>1. j = k
      BY <1>8 DEF Take, restoreVars
    <2> QED
      BY <1>8, <2>1 DEF Take, ServerInv, TypeOK
  <1>9. CASE UNCHANGED vars
    BY <1>9 DEF vars, restoreVars
  <1>10. CASE WaitStep
    BY <1>10, WaitsOnly DEF restoreVars
  <1> QED
    BY <1>1, <1>2, <1>3, <1>4, <1>5, <1>6, <1>7, <1>8, <1>9, <1>10
    DEF Next, ShutdownStep, WaitStep

-----------------------------------------------------------------------------
(* What a process hands out, it hands out once.                            *)

\* A job that no client has put is nowhere, and what is yet to be restored is
\* not in memory
InOnePlace ==
  /\ \A j \in Jobs : status[j] = "new" => j \notin memory \cup unread \cup stored
  /\ unread \cap memory = {}

LEMMA OnePlaceNext == ServerInv /\ InOnePlace /\ [Next]_vars => InOnePlace'
  <1> SUFFICES ASSUME ServerInv, InOnePlace, [Next]_vars PROVE InOnePlace'
    OBVIOUS
  <1> USE DEF InOnePlace
  <1>1. CASE Start \/ ServeRPC \/ ServeGRPC
    <2>1. phase = "down" => memory = {}
      BY DEF ServerInv, CommitKnown
    <2> QED
      BY <1>1, <2>1 DEF Start, ServeRPC, ServeGRPC, restoreVars
  <1>2. CASE Gone
    BY <1>2 DEF Gone
  <1>3. CASE (Signal \/ GracefulStop) /\ ~Gone
    BY <1>3 DEF Signal, GracefulStop, restoreVars
  <1>4. CASE PersistLocked
    BY <1>4 DEF PersistLocked, restoreVars
  <1>5. CASE Finalize
    <2>1. stored' \subseteq stored \cup memory
      BY <1>5 DEF Finalize, ServerInv, WalkSplits
    <2> QED
      BY <1>5, <2>1 DEF Finalize, restoreVars
  <1>6. ASSUME NEW j \in Jobs, Persist(j) \/ PersistFails(j) PROVE InOnePlace'
    BY <1>6 DEF Persist, PersistFails, restoreVars
  <1>7. ASSUME NEW j \in Jobs, Restore(j) \/ RestoreFails(j) PROVE InOnePlace'
    BY <1>7 DEF Restore, RestoreFails
  <1>8. ASSUME NEW j \in Jobs, Put(j) PROVE InOnePlace'
    <2>1. \A k \in Jobs : status'[k] = "new" => k # j /\ status[k] = "new"
      BY <1>8 DEF Put, ServerInv, TypeOK
    <2> QED
      BY <1>8, <2>1 DEF Put, restoreVars
  <1>9. ASSUME NEW j \in Jobs, Take(j) PROVE InOnePlace'
    <2>1. \A k \in Jobs : status'[k] = "new" => status[k] = "new"
      BY <1>9 DEF Take, ServerInv, TypeOK
    <2> QED
      BY <1>9, <2>1 DEF Take, restoreVars
  <1>10. CASE UNCHANGED vars
    BY <1>10 DEF vars, restoreVars
  <1>11. CASE WaitStep
    BY <1>11, WaitsOnly DEF restoreVars
  <1> QED
    BY <1>1, <1>2, <1>3, <1>4, <1>5, <1>6, <1>7, <1>8, <1>9, <1>10, <1>11
    DEF Next, ShutdownStep, Crash, Exit, Signal, GracefulStop, WaitStep

\* How a job that clients know comes into the hands of a process, and leaves them
OnceOnly(j) ==
  status[j] # "new" =>
    /\ j \in (memory' \cup unread') \ (memory \cup unread) =>
         phase = "down" /\ restoring' /\ j \in stored
    /\ j \in memory \ memory' => j \notin unread'

LEMMA OnceStep ==
  ServerInv /\ InOnePlace /\ [Next]_vars => \A j \in Jobs : OnceOnly(j)
  <1> SUFFICES ASSUME ServerInv, InOnePlace, [Next]_vars, NEW j \in Jobs
               PROVE  OnceOnly(j)
    OBVIOUS
  <1> USE DEF OnceOnly
  <1>1. CASE Start
    BY <1>1 DEF Start
  <1>2. CASE ServeRPC \/ ServeGRPC \/ PersistLocked \/ Finalize
    BY <1>2 DEF ServeRPC, ServeGRPC, PersistLocked, Finalize, restoreVars
  <1>3. CASE Gone
    BY <1>3 DEF Gone
  <1>4. CASE (Signal \/ GracefulStop) /\ ~Gone
    BY <1>4 DEF Signal, GracefulStop, restoreVars
  <1>5. ASSUME NEW k \in Jobs, Persist(k) \/ PersistFails(k) PROVE OnceOnly(j)
    BY <1>5 DEF Persist, PersistFails, restoreVars
  <1>6. ASSUME NEW k \in Jobs, Restore(k) \/ RestoreFails(k) PROVE OnceOnly(j)
    BY <1>6 DEF Restore, RestoreFails
  <1>7. ASSUME NEW k \in Jobs, Put(k) PROVE OnceOnly(j)
    BY <1>7 DEF Put, restoreVars
  <1>8. ASSUME NEW k \in Jobs, Take(k) PROVE OnceOnly(j)
    BY <1>8 DEF Take, restoreVars, InOnePlace
  <1>9. CASE UNCHANGED vars
    BY <1>9 DEF vars, restoreVars
  <1>10. CASE WaitStep
    BY <1>10, WaitsOnly DEF restoreVars
  <1> QED
    BY <1>1, <1>2, <1>3, <1>4, <1>5, <1>6, <1>7, <1>8, <1>9, <1>10
    DEF Next, ShutdownStep, Crash, Exit, Signal, GracefulStop, WaitStep

-----------------------------------------------------------------------------
(* Ids, which count from one again in every life.                          *)

NoTwins(S) == \A j, k \in S : idOf[j] = idOf[k] => j = k

\* A hub and a snapshot have no id twice; and until the snapshot is replaced,
\* what is yet to be restored is in it, and the jobs put in this life without an
\* id have one that this life has given
IdsApart ==
  /\ NoTwins(memory) /\ NoTwins(unread) /\ NoTwins(stored)
  /\ phase # "stopped" =>
       /\ unread \subseteq stored
       /\ \A j \in memory \ stored : IdOf[j] = 0 => idOf[j] <= nextId

LEMMA DecodedId == \A j \in Jobs : Decoded(j).id = idOf[j]
  BY DEF Decoded, GobDecode, GobEncode

\* The next automatic id is the only id that a put changes
LEMMA PutIds ==
  ASSUME TypeOK, NEW j \in Jobs, Put(j)
  PROVE  /\ \A k \in Jobs \ {j} : idOf'[k] = idOf[k]
         /\ IF IdOf[j] = 0 THEN nextId' = nextId + 1 /\ idOf'[j] = nextId + 1
                           ELSE nextId' = nextId /\ idOf'[j] = idOf[j]
  BY DEF Put, GivenId, idVars, TypeOK

LEMMA PutKeepsApart ==
  ASSUME ServerInv, InOnePlace, IdsApart, NEW j \in Jobs, Put(j)
  PROVE  IdsApart'
  <1> USE DEF IdsApart, NoTwins
  <1>1. /\ status[j] = "new" /\ j \notin memory \cup unread \cup stored
        /\ UNCHANGED <<phase, unread, stored>>
        /\ memory \subseteq Jobs /\ unread \subseteq Jobs /\ stored \subseteq Jobs
    BY DEF Put, InOnePlace, restoreVars, ServerInv, TypeOK
  <1>2. \A k \in memory \cup unread \cup stored : idOf'[k] = idOf[k]
    BY <1>1, PutIds DEF ServerInv
  <1>3. \/ memory' = memory
        \/ memory' = memory \cup {j} /\ \A k \in memory : idOf[k] # idOf'[j]
    BY DEF Put, Refused, IdPending
  <1>4. NoTwins(memory)' /\ NoTwins(unread)' /\ NoTwins(stored)'
    BY <1>1, <1>2, <1>3
  <1>5. ASSUME phase' # "stopped", NEW k \in memory' \ stored', IdOf[k] = 0
        PROVE  idOf'[k] <= nextId'
    <2>1. nextId \in Nat /\ idOf \in [Jobs -> Nat] /\ nextId' >= nextId
      BY PutIds DEF ServerInv, TypeOK
    <2>2. CASE k = j
      BY <1>5, <2>1, <2>2, PutIds DEF ServerInv
    <2>3. CASE k \in memory \ stored
      <3>1. idOf'[k] = idOf[k] /\ idOf[k] <= nextId /\ k \in Jobs
        BY <1>1, <1>2, <1>5, <2>3
      <3> QED
        BY <2>1, <3>1, PutIds DEF ServerInv
    <2> QED
      BY <1>1, <1>3, <1>5, <2>2, <2>3
  <1> QED
    BY <1>1, <1>4, <1>5

LEMMA ApartNext == ServerInv /\ InOnePlace /\ IdsApart /\ [Next]_vars => IdsApart'
  <1> SUFFICES ASSUME ServerInv, InOnePlace, IdsApart, [Next]_vars PROVE IdsApart'
    OBVIOUS
  <1> USE DEF IdsApart, NoTwins, idVars
  <1>1. CASE Start
    <2>1. memory = {}
      BY <1>1 DEF Start, ServerInv, CommitKnown
    <2> QED
      BY <1>1, <2>1 DEF Start
  <1>2. CASE ServeRPC \/ ServeGRPC \/ PersistLocked
    BY <1>2 DEF ServeRPC, ServeGRPC, PersistLocked, restoreVars
  <1>3. CASE Gone
    BY <1>3 DEF Gone
  <1>4. CASE (Signal \/ GracefulStop) /\ ~Gone
    BY <1>4 DEF Signal, GracefulStop, restoreVars
  <1>5. CASE Finalize
    <2>1. stored' \subseteq memory \/ stored' = stored
      BY <1>5 DEF Finalize, ServerInv, WalkSplits
    <2> QED
      BY <1>5, <2>1 DEF Finalize, restoreVars
  <1>6. ASSUME NEW j \in Jobs, Persist(j) \/ PersistFails(j) PROVE IdsApart'
    BY <1>6 DEF Persist, PersistFails, restoreVars
  <1>7. ASSUME NEW j \in Jobs, Restore(j) PROVE IdsApart'
    <2>1. \/ memory' = memory
          \/ memory' = memory \cup {j} /\ \A k \in memory : idOf[k] # idOf[j]
      BY <1>7, DecodedId DEF Restore, Refused, IdPending
    <2>2. /\ j \in unread /\ unread' = unread \ {j}
          /\ UNCHANGED <<phase, nextId, idOf, stored>>
      BY <1>7 DEF Restore
    <2> QED
      BY <2>1, <2>2
  <1>8. ASSUME NEW j \in Jobs, RestoreFails(j) \/ Take(j) PROVE IdsApart'
    BY <1>8 DEF RestoreFails, Take, restoreVars
  <1>9. ASSUME NEW j \in Jobs, Put(j) PROVE IdsApart'
    BY <1>9, PutKeepsApart
  <1>10. CASE UNCHANGED vars
    BY <1>10 DEF vars, restoreVars
  <1>11. CASE WaitStep
    BY <1>11, WaitsOnly DEF restoreVars
  <1> QED
    BY <1>1, <1>2, <1>3, <1>4, <1>5, <1>6, <1>7, <1>8, <1>9, <1>10, <1>11
    DEF Next, ShutdownStep, Crash, Exit, Signal, GracefulStop, WaitStep

\* A job in reach whose restore is refused has its id taken by a client's job
RestoreConflict(j) ==
  Restore(j) /\ j \notin memory' /\ Decoded(j).trigger >= Horizon(StartTime) =>
    \E k \in memory \ stored : idOf[k] = idOf[j]

\* A job in reach that got an automatic id and is refused met a job of the
\* snapshot, or one to which a client has given that number
AutoIdConflict(j) ==
  Put(j) /\ IdOf[j] = 0 /\ status'[j] = "rejected" /\ TriggerOf[j] >= Horizon(StartTime) =>
    \E k \in memory : idOf[k] = idOf'[j] /\ (k \in stored \/ IdOf[k] # 0)

LEMMA TriggersAreIntegers ==
  /\ Horizon(StartTime) \in Int
  /\ \A j \in Jobs : TriggerOf[j] \in Int /\ Decoded(j).trigger \in Int
  <1>1. ASSUME NEW n \in Int PROVE UnixNano(n) \in Int
    BY WidthAssumption DEF UnixNano, Int64
  <1>2. \A j \in Jobs : Decoded(j).trigger = UnixNano(TriggerOf[j])
    BY DEF Decoded, GobDecode, GobEncode
  <1> QED
    BY <1>1, <1>2, WidthAssumption, StartAssumption, JobsAssumption DEF Horizon

LEMMA ConflictStep ==
  ASSUME ServerInv, InOnePlace, IdsApart, phase # "stopped", NEW j \in Jobs
  PROVE  RestoreConflict(j) /\ AutoIdConflict(j)
  <1>1. RestoreConflict(j)
    <2> SUFFICES ASSUME Restore(j), j \notin memory', Decoded(j).trigger >= Horizon(StartTime)
                 PROVE  \E k \in memory \ stored : idOf[k] = idOf[j]
      BY DEF RestoreConflict
    <2>1. Refused(Decoded(j).id, Decoded(j).trigger) /\ j \in unread
      BY DEF Restore
    <2>2. PICK k \in memory : idOf[k] = idOf[j]
      BY <2>1, DecodedId, TriggersAreIntegers DEF Refused, IdPending
    <2>3. j \in stored /\ j # k
      BY <2>1, <2>2 DEF IdsApart, InOnePlace
    <2>4. k \notin stored
      BY <2>2, <2>3 DEF IdsApart, NoTwins
    <2> QED
      BY <2>2, <2>4
  <1>2. AutoIdConflict(j)
    <2> SUFFICES ASSUME Put(j), IdOf[j] = 0, status'[j] = "rejected",
                        TriggerOf[j] >= Horizon(StartTime)
                 PROVE  \E k \in memory : idOf[k] = idOf'[j] /\ (k \in stored \/ IdOf[k] # 0)
      BY DEF AutoIdConflict
    <2>1. Refused(idOf'[j], TriggerOf[j])
      BY DEF Put, ServerInv, TypeOK
    <2>2. PICK k \in memory : idOf[k] = idOf'[j]
      BY <2>1, TriggersAreIntegers DEF Refused, IdPending
    <2>3. idOf'[j] = nextId + 1 /\ nextId \in Nat
      BY PutIds DEF ServerInv, TypeOK
    <2>4. k \notin stored => IdOf[k] # 0
      BY <2>2, <2>3 DEF IdsApart
    <2> QED
      BY <2>2, <2>4
  <1> QED
    BY <1>1, <1>2

-----------------------------------------------------------------------------
\* The variables of Server keep their types, and the walk of the hub is over
\* whenever its mutex is free.
THEOREM ServerTypes == Spec => []TypeOK
  BY ServerInvariance, PTL DEF ServerInv

\* Restore forgets no job of the snapshot it reads, while requests come in.
THEOREM SnapshotIsAccounted == Spec => []SnapshotAccounted
  BY ServerInvariance, PTL DEF ServerInv

\* PersistLocked replaces the snapshot by the pending jobs of one moment.
THEOREM SnapshotsAreMemory == Spec => SnapshotIsMemory
  BY ServerInvariance, ReplacedByMemory, PTL DEF Spec, SnapshotIsMemory

\* No process answers with a job twice, and what another one answers with again
\* was still in the snapshot that it restored.
THEOREM AnsweredOnce == Spec => AnsweredOncePerLife
  <1>1. Init => InOnePlace
    BY DEF Init, InOnePlace
  <1>2. Spec => [](ServerInv /\ InOnePlace)
    BY <1>1, ServerInvariance, OnePlaceNext, PTL DEF Spec
  <1>3. ServerInv /\ InOnePlace /\ [Next]_vars => [\A j \in Jobs : OnceOnly(j)]_vars
    BY OnceStep
  <1>4. Spec => [][\A j \in Jobs : OnceOnly(j)]_vars
    BY <1>2, <1>3, PTL DEF Spec
  <1> QED
    BY <1>4 DEF AnsweredOncePerLife, OnceOnly

\* A job that was accepted and not answered is lost only in the listed ways.
THEOREM LossesAreExplained == Spec => LossExplained
  <1>1. ServerInv /\ [Next]_vars => [\A j \in Kept \ Kept' : Excused(j)]_vars
    BY LossStep
  <1>2. Spec => [][\A j \in Kept \ Kept' : Excused(j)]_vars
    BY <1>1, ServerInvariance, PTL DEF Spec
  <1> QED
    BY <1>2 DEF LossExplained, Excused

\* While its snapshot is in the store, no two jobs of it refuse each other: a job that
\* a restore reads and that lies in reach is refused only when a client's job, put in
\* this life, has its id.  Automatic ids, which count from one again in every process
\* (globalid.go:10), clash with nothing that this process numbered: a put without an id
\* is refused only for a restored job or for an id that a client chose.
THEOREM RefusalsAreExplained ==
  Spec => [][phase # "stopped" => \A j \in Jobs : RestoreConflict(j) /\ AutoIdConflict(j)]_vars
  <1>1. Init => InOnePlace /\ IdsApart
    BY DEF Init, InOnePlace, IdsApart, NoTwins
  <1>2. Spec => [](ServerInv /\ InOnePlace /\ IdsApart)
    BY <1>1, ServerInvariance, OnePlaceNext, ApartNext, PTL DEF Spec
  <1>3. ServerInv /\ InOnePlace /\ IdsApart =>
          [phase # "stopped" => \A j \in Jobs : RestoreConflict(j) /\ AutoIdConflict(j)]_vars
    BY ConflictStep
  <1> QED
    BY <1>2, <1>3, PTL DEF Spec

-----------------------------------------------------------------------------
(* A shutdown gets on.                                                     *)

Stopping == phase \in {"draining", "stopping", "persisting", "stopped"}

\* How many stages of the signal handler are left
Stage == [up |-> 5, draining |-> 4, stopping |-> 3, persisting |-> 2,
          stopped |-> 1, down |-> 0][phase]

\* What the walk has before it: jobs to write, and errors to send, which a job
\* that fails gives to the spoke's walk, and the spoke's walk to the hub's
Unsent ==
  3 * Cardinality(unwritten) + (IF "errC" \in erring THEN 2 ELSE 0)
                             + (IF "ec" \in erring THEN 1 ELSE 0)

\* A later stage, or fewer calls to wait for, or less to walk
Closer ==
  \/ Stage' < Stage
  \/ Stage' = Stage /\ calls' < calls
  \/ Stage' = Stage /\ calls' = calls /\ Unsent' < Unsent

\* No step back either
NoFarther == Closer \/ UNCHANGED <<phase, calls, unwritten, erring>>

\* The hub holds finitely many jobs, and so does its walk
FiniteHub == IsFiniteSet(memory) /\ IsFiniteSet(unwritten)

LEMMA FiniteNext == FiniteHub /\ [Next]_vars => FiniteHub'
  <1> SUFFICES ASSUME FiniteHub, [Next]_vars PROVE FiniteHub'
    OBVIOUS
  <1> USE DEF FiniteHub
  <1>1. CASE Start \/ ServeRPC \/ ServeGRPC \/ PersistLocked \/ Finalize
    BY <1>1 DEF Start, ServeRPC, ServeGRPC, PersistLocked, Finalize, persistVars
  <1>2. CASE Gone
    BY <1>2, FS_EmptySet DEF Gone
  <1>3. CASE (Signal \/ GracefulStop) /\ ~Gone
    BY <1>3 DEF Signal, GracefulStop, persistVars
  <1>4. ASSUME NEW j \in Jobs, Persist(j) \/ PersistFails(j) PROVE FiniteHub'
    BY <1>4, FS_RemoveElement DEF Persist, PersistFails
  <1>5. ASSUME NEW j \in Jobs, Restore(j) \/ RestoreFails(j) PROVE FiniteHub'
    BY <1>5, FS_AddElement DEF Restore, RestoreFails, persistVars
  <1>6. ASSUME NEW j \in Jobs, Put(j) PROVE FiniteHub'
    BY <1>6, FS_AddElement DEF Put, persistVars
  <1>7. ASSUME NEW j \in Jobs, Take(j) PROVE FiniteHub'
    BY <1>7, FS_RemoveElement DEF Take, persistVars
  <1>8. CASE UNCHANGED vars
    BY <1>8 DEF vars, persistVars
  <1>9. CASE WaitStep
    BY <1>9, WaitsOnly
  <1> QED
    BY <1>1, <1>2, <1>3, <1>4, <1>5, <1>6, <1>7, <1>8, <1>9
    DEF Next, ShutdownStep, Crash, Exit, Signal, GracefulStop, WaitStep

\* Each step of the signal handler and its walk brings the exit closer
LEMMA HandlerCloser ==
  ASSUME TypeOK, FiniteHub, Stopping, ShutdownStep
  PROVE  Closer
  <1> USE DEF Closer, Stage
  <1>1. CASE GracefulStop
    BY <1>1 DEF GracefulStop, Gone
  <1>2. CASE PersistLocked
    BY <1>2 DEF PersistLocked
  <1>3. CASE Finalize
    BY <1>3 DEF Finalize
  <1>4. CASE Exit
    BY <1>4 DEF Exit, Gone
  <1>5. Cardinality(unwritten) \in Nat
    BY FS_CardinalityType DEF FiniteHub
  <1>6. ASSUME NEW j \in Jobs, Persist(j) \/ PersistFails(j) PROVE Closer
    <2>1. /\ phase' = phase /\ calls' = calls
          /\ j \in unwritten /\ unwritten' = unwritten \ {j}
          /\ "errC" \notin erring /\ erring' \in {erring, erring \cup {"errC"}}
      BY <1>6 DEF Persist, PersistFails, serving
    <2>2. Cardinality(unwritten') = Cardinality(unwritten) - 1
      BY <2>1, FS_RemoveElement DEF FiniteHub
    <2>3. ("ec" \in erring') = ("ec" \in erring)
      BY <2>1
    <2>4. Unsent' < Unsent
      BY <1>5, <2>1, <2>2, <2>3 DEF Unsent
    <2> QED
      BY <2>1, <2>4
  <1>7. CASE ForwardError \/ DrainError
    <2>1. UNCHANGED <<phase, calls, unwritten>>
      BY <1>7 DEF ForwardError, DrainError, serving
    <2>2. \/ "errC" \in erring /\ "ec" \notin erring /\ erring' = {"ec"}
          \/ "ec" \in erring /\ erring' = erring \ {"ec"}
      BY <1>7 DEF ForwardError, DrainError
    <2>3. Unsent' < Unsent
      BY <1>5, <2>1, <2>2 DEF Unsent
    <2> QED
      BY <2>1, <2>3
  <1> QED
    BY <1>1, <1>2, <1>3, <1>4, <1>6, <1>7 DEF ShutdownStep

\* Nothing else sets it back: no request and no restore adds to a walk, and no
\* call begins that gRPC would have to wait for
LEMMA NotSetBack ==
  ASSUME TypeOK, FiniteHub, Stopping, [Next]_vars, ~ShutdownStep
  PROVE  NoFarther
  <1> USE DEF NoFarther
  <1>1. CASE Start \/ ServeRPC \/ ServeGRPC \/ Signal \/ CallBegins
    BY <1>1 DEF Start, ServeRPC, ServeGRPC, Signal, CallBegins, Stopping
  <1>2. CASE Crash
    BY <1>2 DEF Crash, Gone, Closer, Stage, Stopping
  <1>3. ASSUME NEW j \in Jobs, Restore(j) \/ RestoreFails(j) \/ Put(j)
        PROVE  NoFarther
    BY <1>3 DEF Restore, RestoreFails, Put, serving, persistVars
  <1>4. ASSUME NEW j \in Jobs, Take(j) PROVE NoFarther
    BY <1>4 DEF Take, Closer, Stage, TypeOK, persistVars
  <1>5. CASE CallEnds
    BY <1>5 DEF CallEnds, Closer, Stage, TypeOK
  <1>6. CASE InspectionsHang \/ OperationHangs
    BY <1>6 DEF InspectionsHang, OperationHangs, persistVars
  <1>7. CASE UNCHANGED vars
    BY <1>7 DEF vars, serving, persistVars
  <1> QED
    BY <1>1, <1>2, <1>3, <1>4, <1>5, <1>6, <1>7 DEF Next

\* A shutdown only goes forward, whatever clients ask of it meanwhile, which RPC
\* clients may: each step of the signal handler and its walk, and each gRPC call that
\* ends before GracefulStop, leaves fewer stages, fewer calls to wait for, or fewer of
\* the finitely many jobs to write and errors to send, in that order, and no other step
\* adds any.  ShutdownEnds rests on this (cmd/server.go:142-160, hub.go:100-108, 429-469)
THEOREM ShutdownsGoForward ==
  Spec => [][Stopping => /\ NoFarther
                         /\ ShutdownStep \/ CallEnds => Closer]_vars
  <1>1. Init => FiniteHub
    BY FS_EmptySet DEF Init, FiniteHub
  <1>2. Spec => [](TypeOK /\ FiniteHub)
    BY <1>1, ServerTypes, FiniteNext, PTL DEF Spec
  <1>3. TypeOK /\ CallEnds => Closer
    BY DEF CallEnds, Closer, Stage, TypeOK
  <1>4. TypeOK /\ FiniteHub /\ [Next]_vars =>
          [Stopping => /\ NoFarther
                       /\ ShutdownStep \/ CallEnds => Closer]_vars
    BY <1>3, HandlerCloser, NotSetBack DEF NoFarther
  <1> QED
    BY <1>2, <1>4, PTL DEF Spec

\* Where each step of the signal handler and its walk may be taken: the guards of the
\* disjuncts of ShutdownStep (cmd/server.go:153-155, hub.go:105, 433-463, spoke.go:170-179)
HandlerMayGoOn ==
  \/ phase = "draining" /\ (grpcUp => calls = 0)
  \/ phase = "stopping" /\ stuck # "hub"
  \/ phase = "persisting" /\ unwritten # {} /\ "errC" \notin erring
  \/ "errC" \in erring /\ "ec" \notin erring
  \/ "ec" \in erring
  \/ phase = "persisting" /\ unwritten = {} /\ erring = {} /\ stuck = "nothing"
  \/ phase = "stopped"

\* A shutdown waits for nothing but gRPC calls that have yet to end and inspections that
\* wait for each other: neither its stages nor the channels for the errors of its walk,
\* which have no buffer, can wait for one another
THEOREM ShutdownsWaitForCalls ==
  Spec => [](Stopping => HandlerMayGoOn \/ (phase = "draining" /\ calls > 0) \/ stuck # "nothing")
  <1>1. TypeOK =>
          (Stopping => HandlerMayGoOn \/ (phase = "draining" /\ calls > 0) \/ stuck # "nothing")
    BY CallsAssumption DEF TypeOK, Stopping, HandlerMayGoOn
  <1> QED
    BY <1>1, ServerTypes, PTL
=============================================================================
