------------------------------ MODULE SpokeMap ------------------------------
(***************************************************************************)
(* What the hub promises those who look for jobs spoke by spoke, that is,  *)
(* cancels, duplicate checks and inspections: a job waits in one spoke, in *)
(* which it stays until it leaves the hub for good; a spoke that has jobs  *)
(* can be found; and a spoke that is given up is empty and over, so that   *)
(* no job ever asks for its window again.                                  *)
(*                                                                         *)
(* Two modules are shown to implement this one: Hub, where windows, times  *)
(* and the filter decide what happens and each operation is one step, and  *)
(* Inspect, where an operation is many steps beside the inspections and    *)
(* what Hub decides is left open.                                          *)
(***************************************************************************)
CONSTANTS
  Jobs,
  Spokes,     \* spokes that are created on demand
  PastSpoke   \* the one that is always there

AllSpokes == Spokes \cup {PastSpoke}

VARIABLES
  queue,  \* [AllSpokes -> SUBSET Jobs]
  map,    \* spokes that can be found, beside the past one
  over,   \* spokes that no job can ask for again
  known   \* jobs that have ever been in the hub

vars == <<queue, map, over, known>>

\* windows that lie before the start are over from the start
Init ==
  /\ queue = [s \in AllSpokes |-> {}]
  /\ map = {} /\ known = {}
  /\ over \in SUBSET Spokes

Add(j, s) ==
  /\ j \notin known /\ s \notin over
  /\ queue' = [queue EXCEPT ![s] = @ \cup {j}]
  /\ map' = map \cup ({s} \ {PastSpoke})
  /\ known' = known \cup {j}
  /\ UNCHANGED over

Release(s, j) ==
  /\ j \in queue[s]
  /\ queue' = [queue EXCEPT ![s] = @ \ {j}]

\* Spokes without jobs are given up, and time passes over others
GiveUp(gone) ==
  /\ \A s \in gone : queue[s] = {}
  /\ map' = map \ gone
  /\ over \cup gone \subseteq over' /\ over' \cap map' = {}
  /\ over' \subseteq Spokes
  /\ UNCHANGED known

\* A poll may give up a spoke and find a job in another one
Next ==
  \/ \E j \in Jobs, s \in AllSpokes : Add(j, s)
  \/ \E gone \in SUBSET map :
       /\ GiveUp(gone)
       /\ UNCHANGED queue \/ \E s \in AllSpokes, j \in Jobs : Release(s, j)

Spec == Init /\ [][Next]_vars
=============================================================================
