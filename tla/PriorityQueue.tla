--------------------------- MODULE PriorityQueue ----------------------------
(***************************************************************************)
(* internal/queue: an array of items kept in heap order by container/heap, *)
(* through the Less, Swap, Push and Pop it is given.  Every item carries   *)
(* its own place in the array, by which Spoke.CancelJobLocked removes it.  *)
(* The array is a function from 0 .. n - 1; the spoke's lock (for the heap *)
(* of spokes, the hub's) makes an operation one step.                      *)
(***************************************************************************)
EXTENDS Integers, FiniteSets, Functions

CONSTANTS
  Items,
  PriorityOf,   \* [Items -> Nat]: trigger times of jobs, or starts of spokes
  NoItem

ASSUME ItemsAssumption ==
  /\ IsFiniteSet(Items) /\ NoItem \notin Items
  /\ PriorityOf \in [Items -> Nat]

VARIABLES
  queue,  \* [at : the array, index : [Items -> Int]]: items and their index
  left    \* history: the item that the last call took out, and the call

vars == <<queue, left>>

Size(q) == Cardinality(DOMAIN q.at)

TypeOK ==
  /\ DOMAIN queue.at = 0 .. Size(queue) - 1
  /\ Range(queue.at) \subseteq Items
  /\ queue.index \in [Items -> -1 .. Cardinality(Items) - 1]
  /\ left \in [call : {"none", "push", "pop", "remove"}, item : Items \cup {NoItem}]

Init ==
  /\ queue = [at |-> [i \in {} |-> NoItem], index |-> [x \in Items |-> 0]]
  /\ left = [call |-> "none", item |-> NoItem]

-----------------------------------------------------------------------------
(* The interface that the heap is given.                                   *)

\* Variant: the items trade places and keep their index
SwapKeepingIndex(q, i, j) ==
  [q EXCEPT !.at = [@ EXCEPT ![i] = q.at[j], ![j] = q.at[i]]]

Swap(q, i, j) ==
  [at |-> [q.at EXCEPT ![i] = q.at[j], ![j] = q.at[i]],
   index |-> [q.index EXCEPT ![q.at[j]] = i, ![q.at[i]] = j]]

Append(q, x) ==
  [at |-> [i \in 0 .. Size(q) |-> IF i = Size(q) THEN x ELSE q.at[i]],
   index |-> [q.index EXCEPT ![x] = Size(q)]]

\* Variant: the last place is cleared and stays in the array
CutLastKeeping(q) ==
  [at |-> [q.at EXCEPT ![Size(q) - 1] = NoItem],
   index |-> [q.index EXCEPT ![q.at[Size(q) - 1]] = -1]]

CutLast(q) ==
  [at |-> Restrict(q.at, 0 .. Size(q) - 2),
   index |-> [q.index EXCEPT ![q.at[Size(q) - 1]] = -1]]

Less(q, i, j) == PriorityOf[q.at[i]] < PriorityOf[q.at[j]]

(* container/heap                                                          *)

Parent(i) == IF i = 0 THEN 0 ELSE (i - 1) \div 2

\* A loop is what is there after each of its rounds, of which there are enough
\* for it to end: a round after the end changes nothing.  i is the place of the
\* item that rises or sinks.
UpRound(s) ==
  IF Less(s.q, s.i, Parent(s.i))
  THEN [q |-> Swap(s.q, Parent(s.i), s.i), i |-> Parent(s.i)]
  ELSE s

Up(q, j) ==
  LET after[k \in 0 .. j] ==
        IF k = 0 THEN [q |-> q, i |-> j] ELSE UpRound(after[k - 1])
  IN  after[j].q

\* the lesser of the children of i below n, if it has any
LesserChild(q, i, n) ==
  LET l == 2 * i + 1
      r == l + 1
  IN  IF r < n /\ Less(q, r, l) THEN r ELSE l

DownRound(s, n) ==
  LET j == LesserChild(s.q, s.i, n)
  IN  IF j < n /\ Less(s.q, j, s.i)
      THEN [q |-> Swap(s.q, s.i, j), i |-> j]
      ELSE s

Down(q, i, n) ==
  LET after[k \in 0 .. n] ==
        IF k = 0 THEN [q |-> q, i |-> i] ELSE DownRound(after[k - 1], n)
  IN  after[n].q

\* Variants: the new item stays last; the item moved to the hole only sinks
PushedLast(q, x) == Append(q, x)

RemovedSinking(q, i) ==
  LET n == Size(q) - 1
  IN  CutLast(IF i = n THEN q ELSE Down(Swap(q, i, n), i, n))

Pushed(q, x) == Up(Append(q, x), Size(q))

Popped(q) ==
  LET n == Size(q) - 1
  IN  CutLast(Down(Swap(q, 0, n), 0, n))

\* the last item fills the hole, and sinks or, if it did not, rises
Removed(q, i) ==
  LET n == Size(q) - 1
      s == Swap(q, i, n)
      sunk == Down(s, i, n)
  IN  CutLast(IF i = n THEN q ELSE IF sunk # s THEN sunk ELSE Up(s, i))

FixRound(s) == [q |-> Down(s.q, s.i, Size(s.q)), i |-> s.i - 1]

Heapified(q, i) ==
  LET after[k \in 0 .. i + 1] ==
        IF k = 0 THEN [q |-> q, i |-> i] ELSE FixRound(after[k - 1])
  IN  after[i + 1].q

-----------------------------------------------------------------------------
(* What spokes and hub do with a queue                                     *)

\* Spoke.AddJobLocked and Hub.addSpoke push a new item
PushItem(x) ==
  /\ x \notin Range(queue.at)
  /\ queue' = Pushed(queue, x)
  /\ left' = [call |-> "push", item |-> NoItem]

\* Spoke.NextLocked and Hub.next pop the item they have looked at
PopItem ==
  /\ Size(queue) > 0
  /\ queue' = Popped(queue)
  /\ left' = [call |-> "pop", item |-> queue.at[0]]

\* Spoke.CancelJobLocked removes what is at the index of the item
RemoveItem(x) ==
  /\ x \in Range(queue.at)
  /\ queue' = Removed(queue, queue.index[x])
  /\ left' = [call |-> "remove", item |-> queue.at[queue.index[x]]]

\* Hub.next calls heap.Init before it looks for the earliest spoke
FixItems ==
  /\ queue' = Heapified(queue, Size(queue) \div 2 - 1)
  /\ UNCHANGED left

Next ==
  \/ \E x \in Items : PushItem(x) \/ RemoveItem(x)
  \/ PopItem
  \/ FixItems

Spec == Init /\ [][Next]_vars

-----------------------------------------------------------------------------
\* No item comes before its parent: AtIdx(0), all that spoke and hub look at,
\* is an item of the least priority, after any sequence of pushes, pops and
\* removals from the middle.
HeapOrdered ==
  \A i \in DOMAIN queue.at : ~Less(queue, i, Parent(i))

\* An item knows its place, and an item that has left knows that it has none:
\* a cancel can not remove another job than the one it was asked to.
IndexExact ==
  /\ \A i \in DOMAIN queue.at : queue.index[queue.at[i]] = i
  /\ \A x \in Items \ Range(queue.at) : queue.index[x] \in {-1, 0}

\* The array with its indices implements the set of items that Hub assumes.
Bag == INSTANCE OrderedBag WITH held <- Range(queue.at)
ImplementsBag == Bag!Spec
=============================================================================
