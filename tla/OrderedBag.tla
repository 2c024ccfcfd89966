----------------------------- MODULE OrderedBag -----------------------------
(***************************************************************************)
(* What spokes and hub expect of a priority queue: a set of items from     *)
(* which an item of the least priority can be popped and any given item    *)
(* removed.  Hub is written against this; PriorityQueue is shown to        *)
(* implement it.                                                           *)
(***************************************************************************)
EXTENDS Naturals

CONSTANTS Items, PriorityOf, NoItem

VARIABLES
  held,  \* the items in the queue
  left   \* the item that the last call took out, and the call

vars == <<held, left>>

Init ==
  /\ held = {}
  /\ left = [call |-> "none", item |-> NoItem]

Push(x) ==
  /\ x \notin held
  /\ held' = held \cup {x}
  /\ left' = [call |-> "push", item |-> NoItem]

TakeOut(call, x) ==
  /\ held' = held \ {x}
  /\ left' = [call |-> call, item |-> x]

Pop ==
  \E x \in held :
    (\A y \in held : PriorityOf[x] <= PriorityOf[y]) /\ TakeOut("pop", x)

Remove(x) == x \in held /\ TakeOut("remove", x)

Next ==
  \/ \E x \in Items : Push(x) \/ Remove(x)
  \/ Pop

Spec == Init /\ [][Next]_vars
=============================================================================
