-------------------------- MODULE MemMonitorProofs --------------------------
(***************************************************************************)
(* Invariance proofs for MemMonitor, for any numbers of handlers, jobs,    *)
(* job sizes and watermarks: the fence's lock is held by one put at a time *)
(* and no wake-up is lost, although the counter is not under that lock;    *)
(* what the counter stands for, and the bounds that follow from it.        *)
(***************************************************************************)
EXTENDS MemMonitor, SumTheorems, TLAPS

\* The counter has wrapped only if the panic that says so is on its way
WrappedPanics ==
  current < 0 => crashed \/ \E d \in Takers : pc[d] = "panic"

MonitorInv == TypeOK /\ WrappedPanics /\ NoLostWakeup

-----------------------------------------------------------------------------
\* What a handler's move does to the places of the others
LEMMA MovesOne ==
  ASSUME TypeOK, NEW h \in Handlers, NEW from, NEW to \in Places, Moves(h, from, to)
  PROVE  /\ ~crashed
         /\ pc[h] = from
         /\ pc' \in [Handlers -> Places]
         /\ pc'[h] = to
         /\ \A g \in Handlers \ {h} : pc'[g] = pc[g]
  BY DEF TypeOK, Moves, Goto

\* Whatever the watermark, memory has not recovered while it is at it
LEMMA RecoveryBelow ==
  Watermark \in Nat /\ RecoveryWatermark \in Int /\ RecoveryWatermark <= Watermark
  <1>1. Watermark \div 1024 \in Nat
    BY WatermarkAssumption
  <1>2. ASSUME NEW k \in Nat PROVE Watermark - 10 * k \in Int /\ Watermark - 10 * k <= Watermark
    BY WatermarkAssumption
  <1> QED
    BY <1>1, <1>2, WatermarkAssumption DEF RecoveryWatermark

LEMMA HandlerSets ==
  /\ Putters \subseteq Handlers /\ Takers \subseteq Handlers
  /\ \A h \in Putters : h \notin Takers
  /\ Free \notin Handlers
  BY HandlersAssumption DEF Handlers

LEMMA AddedStatus ==
  ASSUME TypeOK, NEW j \in Jobs, AddToHub(j)
  PROVE  status' \in [Jobs -> Statuses]
  BY DEF TypeOK, AddToHub, Statuses

\* The lock and the job a handler has in hand, when one handler has moved
LEMMA HoldingKept ==
  ASSUME TypeOK, NEW h \in Handlers,
         pc' \in [Handlers -> Places], \A g \in Handlers \ {h} : pc'[g] = pc[g],
         \/ /\ lock' = lock
            /\ pc[h] \in {"load", "wait"} <=> pc'[h] \in {"load", "wait"}
         \/ /\ lock = Free /\ lock' = h
            /\ pc'[h] \in {"load", "wait"}
         \/ /\ lock' = Free
            /\ pc[h] \in {"load", "wait"} /\ pc'[h] \notin {"load", "wait"},
         \/ /\ job' = job
            /\ pc[h] \in {"idle", "wake"} <=> pc'[h] \in {"idle", "wake"}
         \/ /\ job' = [job EXCEPT ![h] = NoJob] /\ pc'[h] \in {"idle", "wake"}
         \/ \E j \in Jobs : /\ job' = [job EXCEPT ![h] = j]
                            /\ pc'[h] \notin {"idle", "wake"}
  PROVE  /\ lock' \in Handlers \cup {Free}
         /\ job' \in [Handlers -> Jobs \cup {NoJob}]
         /\ \A g \in Handlers : lock' = g <=> pc'[g] \in {"load", "wait"}
         /\ \A g \in Handlers : job'[g] = NoJob <=> pc'[g] \in {"idle", "wake"}
  <1>1. lock' \in Handlers \cup {Free}
    BY DEF TypeOK
  <1>2. job' \in [Handlers -> Jobs \cup {NoJob}]
    BY DEF TypeOK
  <1>3. ASSUME NEW g \in Handlers PROVE lock' = g <=> pc'[g] \in {"load", "wait"}
    BY HandlerSets DEF TypeOK
  <1>4. ASSUME NEW g \in Handlers PROVE job'[g] = NoJob <=> pc'[g] \in {"idle", "wake"}
    <2>1. CASE /\ job' = job
               /\ pc[h] \in {"idle", "wake"} <=> pc'[h] \in {"idle", "wake"}
      BY <2>1 DEF TypeOK
    <2>2. CASE job' = [job EXCEPT ![h] = NoJob] /\ pc'[h] \in {"idle", "wake"}
      BY <2>2 DEF TypeOK
    <2>3. ASSUME NEW j \in Jobs, job' = [job EXCEPT ![h] = j], pc'[h] \notin {"idle", "wake"}
          PROVE  job'[g] = NoJob <=> pc'[g] \in {"idle", "wake"}
      BY <2>3, JobsAssumption DEF TypeOK
    <2> QED BY <2>1, <2>2, <2>3
  <1> QED BY <1>1, <1>2, <1>3, <1>4

-----------------------------------------------------------------------------
(* Every step keeps the types, and the lock with the put that is inside.   *)

LEMMA TypePut ==
  ASSUME TypeOK, NEW h \in Putters, Put(h)
  PROVE  TypeOK'
  <1> h \in Handlers
    BY HandlerSets
  <1> USE DEF Places
  <1>1. CASE RpcPut(h)
    <2>1. PICK j \in Jobs : job' = [job EXCEPT ![h] = j]
      BY <1>1 DEF RpcPut
    <2>2. /\ pc' \in [Handlers -> Places] /\ pc[h] = "idle" /\ pc'[h] = "fence"
          /\ \A g \in Handlers \ {h} : pc'[g] = pc[g]
      BY <1>1, MovesOne DEF RpcPut
    <2> QED
      BY <1>1, <2>1, <2>2, HoldingKept DEF RpcPut, TypeOK
  <1>2. CASE FenceLock(h)
    BY <1>2, MovesOne, HoldingKept DEF FenceLock, TypeOK
  <1>3. CASE FenceLoad(h)
    BY <1>3, MovesOne, HoldingKept DEF FenceLoad, TypeOK
  <1>4. CASE FenceWait(h)
    BY <1>4, MovesOne, HoldingKept DEF FenceWait, TypeOK
  <1>5. CASE RpcAdd(h)
    <2>1. job[h] \in Jobs
      BY <1>5, MovesOne DEF RpcAdd, TypeOK
    <2> QED
      BY <1>5, <2>1, MovesOne, HoldingKept, AddedStatus DEF RpcAdd, TypeOK
  <1>6. CASE RpcIncrement(h)
    <2>1. current' \in Int
      BY <1>6, MovesOne, JobsAssumption DEF RpcIncrement, TypeOK
    <2> QED
      BY <1>6, <2>1, MovesOne, HoldingKept DEF RpcIncrement, TypeOK
  <1>7. CASE GrpcPut(h)
    <2>1. PICK j \in Jobs : job' = [job EXCEPT ![h] = j]
      BY <1>7, JobsAssumption DEF GrpcPut
    <2> QED
      BY <1>7, <2>1, MovesOne, HoldingKept DEF GrpcPut, TypeOK
  <1>8. CASE GrpcIncrement(h)
    <2>1. current' \in Int
      BY <1>8, MovesOne, JobsAssumption DEF GrpcIncrement, TypeOK
    <2> QED
      BY <1>8, <2>1, MovesOne, HoldingKept DEF GrpcIncrement, TypeOK
  <1>9. CASE GrpcAdd(h)
    <2>1. job[h] \in Jobs
      BY <1>9, MovesOne DEF GrpcAdd, TypeOK
    <2> QED
      BY <1>9, <2>1, MovesOne, HoldingKept, AddedStatus DEF GrpcAdd, TypeOK
  <1> QED
    BY <1>1, <1>2, <1>3, <1>4, <1>5, <1>6, <1>7, <1>8, <1>9 DEF Put, PutStep

\* The places after a broadcast: sleepers are back at the fence
LEMMA WokenPlaces ==
  ASSUME TypeOK, NEW h \in Handlers, DecrementWake(h)
  PROVE  /\ pc' \in [Handlers -> Places]
         /\ pc[h] = "wake" /\ pc'[h] = "idle" /\ lock = Free
         /\ \A g \in Handlers \ {h} :
              pc'[g] = IF pc[g] = "asleep" THEN "fence" ELSE pc[g]
  BY DEF DecrementWake, Woken, TypeOK, Places

LEMMA TypeRemoval ==
  ASSUME TypeOK, NEW h \in Takers, Removal(h)
  PROVE  TypeOK'
  <1> h \in Handlers
    BY HandlerSets
  <1> USE DEF Places
  <1>1. CASE Take(h)
    <2>1. PICK j \in Jobs : /\ job' = [job EXCEPT ![h] = j]
                            /\ status' = [status EXCEPT ![j] = "removed"]
      BY <1>1 DEF Take
    <2>2. /\ pc' \in [Handlers -> Places] /\ pc[h] = "idle" /\ pc'[h] = "decrement"
          /\ \A g \in Handlers \ {h} : pc'[g] = pc[g]
      BY <1>1, MovesOne DEF Take
    <2>3. status' \in [Jobs -> Statuses]
      BY <2>1 DEF TypeOK, Statuses
    <2> QED
      BY <1>1, <2>1, <2>2, <2>3, HoldingKept DEF Take, TypeOK
  <1>2. CASE Decrement(h)
    <2>1. current' \in Int
      BY <1>2, MovesOne, JobsAssumption DEF Decrement, TypeOK
    <2> QED
      BY <1>2, <2>1, MovesOne, HoldingKept DEF Decrement, TypeOK
  <1>3. CASE Underflow(h)
    BY <1>3, MovesOne, HoldingKept DEF Underflow, TypeOK
  <1>4. CASE DecrementPeek(h)
    BY <1>4, MovesOne, HoldingKept DEF DecrementPeek, TypeOK
  <1>5. CASE DecrementWake(h)
    <2>1. \A g \in Handlers : /\ pc'[g] \in {"load", "wait"} <=> pc[g] \in {"load", "wait"}
                              /\ pc'[g] \in {"idle", "wake"} <=> pc[g] \in {"idle", "wake"}
      BY <1>5, WokenPlaces
    <2>2. pc' \in [Handlers -> Places]
      BY <1>5, WokenPlaces
    <2> QED
      BY <1>5, <2>1, <2>2 DEF DecrementWake, TypeOK
  <1> QED
    BY <1>1, <1>2, <1>3, <1>4, <1>5 DEF Removal

LEMMA TypeNext == TypeOK /\ [Next]_vars => TypeOK'
  <1> SUFFICES ASSUME TypeOK, [Next]_vars PROVE TypeOK'
    OBVIOUS
  <1>1. ASSUME NEW j \in RestoredJobs, RestoreAdd(j) PROVE TypeOK'
    BY <1>1, JobsAssumption, AddedStatus DEF RestoreAdd, TypeOK
  <1>2. CASE UNCHANGED vars
    BY <1>2 DEF vars, TypeOK
  <1> QED
    BY <1>1, <1>2, TypePut, TypeRemoval DEF Next

LEMMA InitMonitor == Init => MonitorInv
  <1> SUFFICES ASSUME Init PROVE MonitorInv
    OBVIOUS
  <1>1. TypeOK
    <2>1. \A h \in Handlers : pc[h] = "idle" /\ job[h] = NoJob /\ lock # h
      BY HandlerSets DEF Init
    <2>2. pc \in [Handlers -> Places] /\ job \in [Handlers -> Jobs \cup {NoJob}]
      BY DEF Init, Places
    <2>3. status \in [Jobs -> Statuses]
      BY DEF Init, Statuses
    <2>4. crashed \in BOOLEAN
      BY DEF Init
    <2>5. current \in Int
      BY DEF Init
    <2> QED
      BY <2>1, <2>2, <2>3, <2>4, <2>5 DEF Init, TypeOK
  <1>2. WrappedPanics /\ NoLostWakeup
    BY HandlerSets DEF Init, WrappedPanics, NoLostWakeup
  <1> QED
    BY <1>1, <1>2 DEF MonitorInv

-----------------------------------------------------------------------------
(* Every step keeps the promise of a wake-up.                              *)

\* A put that begins to wait has seen the counter above recovery, or wrapped
LEMMA WakePut ==
  ASSUME MonitorInv, NEW h \in Putters, Put(h)
  PROVE  WrappedPanics' /\ NoLostWakeup'
  <1> h \in Handlers /\ ~crashed /\ TypeOK
    BY HandlerSets, MovesOne DEF MonitorInv, Put, PutStep, RpcPut, FenceLock, FenceLoad,
       FenceWait, RpcAdd, RpcIncrement, GrpcPut, GrpcIncrement, GrpcAdd, Moves
  <1>1. /\ crashed' = crashed
        /\ \A g \in Handlers \ {h} : pc'[g] = pc[g]
        /\ current' \in Int /\ current' >= current
    <2> USE DEF Places
    <2>1. CASE RpcIncrement(h) \/ GrpcIncrement(h)
      <3>1. job[h] \in Jobs
        BY <2>1, MovesOne DEF RpcIncrement, GrpcIncrement, TypeOK
      <3> QED
        BY <2>1, <3>1, MovesOne, JobsAssumption DEF RpcIncrement, GrpcIncrement, TypeOK
    <2>2. CASE RpcPut(h) \/ GrpcPut(h) \/ FenceLock(h) \/ FenceLoad(h)
      BY <2>2, MovesOne DEF RpcPut, GrpcPut, FenceLock, FenceLoad, TypeOK
    <2>3. CASE FenceWait(h) \/ RpcAdd(h) \/ GrpcAdd(h)
      BY <2>3, MovesOne DEF FenceWait, RpcAdd, GrpcAdd, TypeOK
    <2> QED
      BY <2>1, <2>2, <2>3 DEF Put, PutStep
  <1>2. \A d \in Takers : pc'[d] = pc[d]
    BY <1>1, HandlerSets
  <1>3. WrappedPanics'
    BY <1>1, <1>2 DEF MonitorInv, WrappedPanics, TypeOK
  <1>4. ASSUME NEW g \in Putters, pc'[g] \in {"wait", "asleep"},
               0 <= current', current' < RecoveryWatermark
        PROVE  \E d \in Takers : pc[d] \in {"peek", "wake", "panic"}
    <2>1. CASE current < 0
      BY <2>1 DEF MonitorInv, WrappedPanics
    <2>2. CASE ~(current < 0) /\ pc[g] \in {"wait", "asleep"}
      BY <1>1, <1>4, <2>2, RecoveryBelow DEF MonitorInv, NoLostWakeup, TypeOK
    <2>3. CASE ~(current < 0) /\ pc[g] \notin {"wait", "asleep"}
      <3>1. g = h
        BY <1>1, <1>4, <2>3, HandlerSets
      <3>2. FenceLoad(h) /\ AtOrAbove(current, Watermark)
        <4> USE DEF Places
        <4>1. CASE FenceLoad(h)
          BY <4>1, <3>1, <1>4, MovesOne DEF FenceLoad
        <4>2. CASE FenceWait(h)
          BY <4>2, <3>1, <2>3, MovesOne DEF FenceWait
        <4>3. CASE RpcPut(h) \/ GrpcPut(h) \/ FenceLock(h)
          BY <4>3, <3>1, <1>4, MovesOne DEF RpcPut, GrpcPut, FenceLock
        <4>4. CASE RpcAdd(h) \/ RpcIncrement(h) \/ GrpcIncrement(h) \/ GrpcAdd(h)
          BY <4>4, <3>1, <1>4, MovesOne DEF RpcAdd, RpcIncrement, GrpcIncrement, GrpcAdd
        <4> QED
          BY <4>1, <4>2, <4>3, <4>4 DEF Put, PutStep
      <3> QED
        BY <3>2, <1>1, <1>4, <2>3, WatermarkAssumption, RecoveryBelow DEF FenceLoad, AtOrAbove, TypeOK
    <2> QED
      BY <2>1, <2>2, <2>3
  <1> QED
    BY <1>1, <1>2, <1>3, <1>4 DEF NoLostWakeup

\* A removal that lowers the counter stays on its way until it has looked at
\* the counter, and a broadcast finds every waiting put asleep
LEMMA WakeRemoval ==
  ASSUME MonitorInv, NEW h \in Takers, Removal(h)
  PROVE  WrappedPanics' /\ NoLostWakeup'
  <1> h \in Handlers /\ h \notin Putters /\ TypeOK
    BY HandlerSets DEF MonitorInv
  <1> USE DEF Places
  <1>1. CASE Take(h)
    <2>1. pc[h] = "idle" /\ \A g \in Handlers \ {h} : pc'[g] = pc[g]
      BY <1>1, MovesOne DEF Take
    <2> QED
      BY <1>1, <2>1, HandlerSets DEF Take, MonitorInv, WrappedPanics, NoLostWakeup
  <1>2. CASE Decrement(h)
    <2>1. job[h] \in Jobs /\ current' \in Int
      BY <1>2, MovesOne, JobsAssumption DEF Decrement, TypeOK
    <2>2. pc'[h] = IF Above(current', Tebibyte) THEN "panic" ELSE "peek"
      BY <1>2, MovesOne DEF Decrement
    <2> QED
      BY <2>1, <2>2 DEF Above, WrappedPanics, NoLostWakeup
  <1>3. CASE Underflow(h)
    BY <1>3 DEF Underflow, WrappedPanics, NoLostWakeup
  <1>4. CASE DecrementPeek(h)
    <2>1. /\ pc[h] = "peek"
          /\ pc'[h] = IF ~AtOrAbove(current, RecoveryWatermark) THEN "wake" ELSE "idle"
          /\ \A g \in Handlers \ {h} : pc'[g] = pc[g]
      BY <1>4, MovesOne DEF DecrementPeek
    <2>2. WrappedPanics'
      BY <1>4, <2>1, HandlerSets DEF DecrementPeek, MonitorInv, WrappedPanics
    <2>3. NoLostWakeup'
      BY <1>4, <2>1, RecoveryBelow
         DEF DecrementPeek, NoLostWakeup, AtOrAbove, TypeOK
    <2> QED BY <2>2, <2>3
  <1>5. CASE DecrementWake(h)
    <2>1. \A g \in Putters : pc'[g] \notin {"wait", "asleep"}
      BY <1>5, WokenPlaces, HandlerSets DEF TypeOK
    <2>2. WrappedPanics'
      BY <1>5, WokenPlaces, HandlerSets DEF DecrementWake, MonitorInv, WrappedPanics
    <2> QED
      BY <2>1, <2>2 DEF NoLostWakeup
  <1> QED
    BY <1>1, <1>2, <1>3, <1>4, <1>5 DEF Removal

LEMMA MonitorNext == MonitorInv /\ [Next]_vars => MonitorInv'
  <1> SUFFICES ASSUME MonitorInv, [Next]_vars PROVE MonitorInv'
    OBVIOUS
  <1>1. TypeOK'
    BY TypeNext DEF MonitorInv
  <1>2. ASSUME NEW j \in RestoredJobs, RestoreAdd(j)
        PROVE  WrappedPanics' /\ NoLostWakeup'
    BY <1>2 DEF RestoreAdd, MonitorInv, WrappedPanics, NoLostWakeup
  <1>3. CASE UNCHANGED vars
    BY <1>3 DEF vars, MonitorInv, TypeOK, WrappedPanics, NoLostWakeup
  <1> QED
    BY <1>1, <1>2, <1>3, WakePut, WakeRemoval DEF Next, MonitorInv

LEMMA Monitored == Spec => []MonitorInv
  BY InitMonitor, MonitorNext, PTL DEF Spec

-----------------------------------------------------------------------------
(* Which job a handler has in hand.                                        *)

ByRpc == {"fence", "load", "wait", "asleep", "add", "increment"}
ByGrpc == {"incrementFirst", "addLast"}
Fresh == (ByRpc \ {"increment"}) \cup ByGrpc
Gone == {"decrement", "panic", "peek"}

\* What handler h has in hand, and what has become of it so far
HandSound(h) ==
  /\ h \in Putters => pc[h] \in {"idle"} \cup ByRpc \cup ByGrpc
  /\ h \in Takers => pc[h] \in {"idle", "wake"} \cup Gone
  /\ pc[h] \in ByRpc => job[h] \notin GrpcJobs \cup RestoredJobs
  /\ pc[h] \in ByGrpc => job[h] \in GrpcJobs
  /\ pc[h] \in Fresh => status[job[h]] = "new"
  /\ pc[h] = "increment" => status[job[h]] # "new"
  /\ pc[h] \in Gone => status[job[h]] = "removed"

\* Two handlers have the same job in hand only when one has taken it before the
\* other, which has put it, could count it
HandsApart ==
  \A g, h \in Handlers : g # h /\ job[g] = job[h] /\ job[g] # NoJob =>
    \/ pc[g] = "increment" /\ pc[h] \in Gone
    \/ pc[h] = "increment" /\ pc[g] \in Gone

InHand == HandsApart /\ \A h \in Handlers : HandSound(h)

\* The others have not moved, and have the same jobs in hand
OthersStay(h) == \A g \in Handlers \ {h} : pc'[g] = pc[g] /\ job'[g] = job[g]

\* What the hub makes of a new job changes the status of no other one
LEMMA AddedOne ==
  ASSUME TypeOK, NEW j \in Jobs, AddToHub(j)
  PROVE  /\ status'[j] \in {"pending", "rejected"}
         /\ \A k \in Jobs : k # j => status'[k] = status[k]
  BY DEF TypeOK, AddToHub

\* A put starts with a job that nobody else has in hand, and keeps it
LEMMA HandsPut ==
  ASSUME TypeOK, InHand, NEW h \in Putters, Put(h)
  PROVE  InHand' /\ OthersStay(h)
  <1> h \in Handlers /\ h \notin Takers
    BY HandlerSets
  <1> USE DEF Places
  <1>t. pc \in [Handlers -> Places] /\ job \in [Handlers -> Jobs \cup {NoJob}]
    BY DEF TypeOK
  <1>1. CASE RpcPut(h) \/ GrpcPut(h)
    <2>1. PICK j \in Jobs : /\ job' = [job EXCEPT ![h] = j] /\ Offered(j)
                            /\ RpcPut(h) => j \notin GrpcJobs \cup RestoredJobs
                            /\ GrpcPut(h) => j \in GrpcJobs
      <3>1. RpcPut(h) => pc'[h] = "fence"
        BY MovesOne DEF RpcPut
      <3>2. GrpcPut(h) => pc'[h] = "incrementFirst"
        BY MovesOne DEF GrpcPut
      <3>3. CASE RpcPut(h)
        BY <3>1, <3>2, <3>3 DEF RpcPut
      <3>4. CASE GrpcPut(h)
        BY <3>1, <3>2, <3>4, JobsAssumption DEF GrpcPut
      <3> QED
        BY <1>1, <3>3, <3>4
    <2>2. /\ pc'[h] \in {"fence", "incrementFirst"} /\ status' = status
          /\ pc'[h] = "fence" => RpcPut(h)
          /\ pc'[h] = "incrementFirst" => GrpcPut(h)
          /\ \A g \in Handlers \ {h} : pc'[g] = pc[g]
      BY <1>1, MovesOne DEF RpcPut, GrpcPut
    <2>3. OthersStay(h) /\ job'[h] = j
      BY <1>t, <2>1, <2>2 DEF OthersStay
    <2>4. HandsApart'
      BY <2>1, <2>3 DEF OthersStay, Offered, HandsApart, InHand
    <2>5. HandSound(h)'
      BY <2>1, <2>2, <2>3 DEF HandSound, ByRpc, ByGrpc, Fresh, Gone, Offered
    <2>6. ASSUME NEW g \in Handlers \ {h} PROVE HandSound(g)'
      BY <2>2, <2>3 DEF HandSound, InHand, OthersStay
    <2> QED
      BY <2>3, <2>4, <2>5, <2>6 DEF InHand
  <1>2. CASE FenceLock(h) \/ FenceLoad(h) \/ FenceWait(h) \/ GrpcIncrement(h)
    <2>1. /\ status' = status /\ job' = job
          /\ \/ pc[h] \in ByRpc \ {"increment"} /\ pc'[h] \in ByRpc \ {"increment"}
             \/ pc[h] \in ByGrpc /\ pc'[h] \in ByGrpc
          /\ \A g \in Handlers \ {h} : pc'[g] = pc[g]
      BY <1>2, MovesOne DEF FenceLock, FenceLoad, FenceWait, GrpcIncrement, ByRpc, ByGrpc
    <2>2. OthersStay(h)
      BY <2>1 DEF OthersStay
    <2>3. HandsApart'
      BY <2>1 DEF HandsApart, InHand, ByRpc, ByGrpc, Gone
    <2>4. ASSUME NEW g \in Handlers PROVE HandSound(g)'
      BY <2>1 DEF HandSound, InHand, ByRpc, ByGrpc, Fresh, Gone
    <2> QED
      BY <2>2, <2>3, <2>4 DEF InHand
  <1>3. CASE RpcAdd(h) \/ GrpcAdd(h)
    <2>1. /\ AddToHub(job[h]) /\ pc[h] \in {"add", "addLast"}
          /\ \/ pc[h] = "add" /\ pc'[h] = "increment" /\ job' = job
             \/ pc[h] = "addLast" /\ pc'[h] = "idle" /\ job' = [job EXCEPT ![h] = NoJob]
          /\ \A g \in Handlers \ {h} : pc'[g] = pc[g]
      BY <1>3, MovesOne DEF RpcAdd, GrpcAdd
    <2>2. job[h] \in Jobs /\ job[h] # NoJob
      BY <2>1, JobsAssumption DEF TypeOK
    <2>3. \A g \in Handlers \ {h} : job[g] # job[h]
      BY <2>1, <2>2 DEF InHand, HandsApart, HandSound, Fresh, Gone, ByRpc, ByGrpc
    <2>4. OthersStay(h)
      BY <1>t, <2>1 DEF OthersStay
    <2>5. HandsApart'
      BY <1>t, <2>1, <2>3, <2>4 DEF HandsApart, InHand, OthersStay
    <2>6. HandSound(h)'
      BY <1>t, <2>1, <2>2, AddedOne DEF HandSound, InHand, ByRpc, ByGrpc, Fresh, Gone
    <2>7. ASSUME NEW g \in Handlers \ {h} PROVE HandSound(g)'
      <3>1. HandSound(g) /\ pc'[g] = pc[g] /\ job'[g] = job[g]
        BY <2>4 DEF InHand, OthersStay
      <3>2. pc[g] \in ByRpc \cup ByGrpc \cup Gone => job[g] \in Jobs
        BY DEF TypeOK, ByRpc, ByGrpc, Gone
      <3>3. pc[g] \in ByRpc \cup ByGrpc \cup Gone => status'[job[g]] = status[job[g]]
        BY <2>1, <2>2, <2>3, <3>2, AddedOne
      <3> QED
        BY <3>1, <3>3 DEF HandSound, Fresh, ByRpc
    <2> QED
      BY <2>4, <2>5, <2>6, <2>7 DEF InHand
  <1>4. CASE RpcIncrement(h)
    <2>1. /\ job' = [job EXCEPT ![h] = NoJob] /\ status' = status
          /\ pc'[h] = "idle" /\ \A g \in Handlers \ {h} : pc'[g] = pc[g]
      BY <1>4, MovesOne DEF RpcIncrement
    <2>2. OthersStay(h) /\ job'[h] = NoJob
      BY <1>t, <2>1 DEF OthersStay
    <2>3. HandsApart'
      BY <2>2 DEF OthersStay, HandsApart, InHand
    <2>4. ASSUME NEW g \in Handlers PROVE HandSound(g)'
      BY <2>1, <2>2 DEF HandSound, InHand, OthersStay, ByRpc, ByGrpc, Fresh, Gone
    <2> QED
      BY <2>2, <2>3, <2>4 DEF InHand
  <1> QED
    BY <1>1, <1>2, <1>3, <1>4 DEF Put, PutStep

\* A removal has in hand what only a put may have as well, that has not counted it
LEMMA HandsRemoval ==
  ASSUME TypeOK, InHand, NEW h \in Takers, Removal(h)
  PROVE  InHand'
  <1> h \in Handlers /\ h \notin Putters
    BY HandlerSets
  <1> USE DEF Places
  <1>t. pc \in [Handlers -> Places] /\ job \in [Handlers -> Jobs \cup {NoJob}]
    BY DEF TypeOK
  <1>1. CASE Take(h)
    <2>1. PICK j \in Jobs : /\ job' = [job EXCEPT ![h] = j] /\ status[j] = "pending"
                            /\ status' = [status EXCEPT ![j] = "removed"]
      BY <1>1 DEF Take
    <2>2. pc'[h] = "decrement" /\ \A g \in Handlers \ {h} : pc'[g] = pc[g]
      BY <1>1, MovesOne DEF Take
    <2>3. OthersStay(h) /\ job'[h] = j
      BY <1>t, <2>1, <2>2 DEF OthersStay
    <2>4. status'[j] = "removed" /\ \A k \in Jobs : k # j => status'[k] = status[k]
      BY <2>1 DEF TypeOK
    <2>5. ASSUME NEW g \in Handlers \ {h}, job[g] = j PROVE pc[g] = "increment"
      <3>1. pc[g] \notin Fresh \cup Gone /\ pc[g] \notin {"idle", "wake"}
        BY <2>1, <2>5, JobsAssumption DEF InHand, HandSound, TypeOK
      <3> QED
        BY <1>t, <3>1 DEF Fresh, Gone, ByRpc, ByGrpc
    <2>6. HandsApart'
      BY <2>2, <2>3, <2>5 DEF HandsApart, InHand, OthersStay, Gone
    <2>7. HandSound(h)'
      BY <2>2, <2>3, <2>4 DEF HandSound, ByRpc, ByGrpc, Fresh, Gone
    <2>8. ASSUME NEW g \in Handlers \ {h} PROVE HandSound(g)'
      <3>1. HandSound(g) /\ pc'[g] = pc[g] /\ job'[g] = job[g]
        BY <2>3 DEF InHand, OthersStay
      <3>2. CASE job[g] = j
        BY <2>4, <2>5, <3>1, <3>2 DEF HandSound, Fresh, Gone, ByRpc, ByGrpc
      <3>3. CASE job[g] # j
        <4>1. pc[g] \in ByRpc \cup ByGrpc \cup Gone => job[g] \in Jobs
          BY DEF TypeOK, ByRpc, ByGrpc, Gone
        <4>2. pc[g] \in ByRpc \cup ByGrpc \cup Gone => status'[job[g]] = status[job[g]]
          BY <2>4, <3>3, <4>1
        <4> QED
          BY <3>1, <4>2 DEF HandSound, Fresh, ByRpc
      <3> QED
        BY <3>2, <3>3
    <2> QED
      BY <2>6, <2>7, <2>8 DEF InHand
  <1>2. CASE Decrement(h)
    <2>1. /\ status' = status /\ job' = job /\ pc[h] \in Gone /\ pc'[h] \in Gone
          /\ \A g \in Handlers \ {h} : pc'[g] = pc[g]
      BY <1>2, MovesOne DEF Decrement, Gone
    <2>2. HandsApart'
      BY <2>1 DEF HandsApart, InHand, Gone
    <2>3. ASSUME NEW g \in Handlers PROVE HandSound(g)'
      BY <2>1 DEF HandSound, InHand, ByRpc, ByGrpc, Fresh, Gone
    <2> QED
      BY <2>2, <2>3 DEF InHand
  <1>3. CASE Underflow(h) \/ DecrementPeek(h)
    <2>1. /\ job' = [job EXCEPT ![h] = NoJob] /\ status' = status
          /\ pc'[h] \in {"idle", "wake"} /\ \A g \in Handlers \ {h} : pc'[g] = pc[g]
      BY <1>3, MovesOne DEF Underflow, DecrementPeek
    <2>2. OthersStay(h) /\ job'[h] = NoJob
      BY <1>t, <2>1 DEF OthersStay
    <2>3. HandsApart'
      BY <2>2 DEF OthersStay, HandsApart, InHand
    <2>4. ASSUME NEW g \in Handlers PROVE HandSound(g)'
      BY <2>1, <2>2 DEF HandSound, InHand, OthersStay, ByRpc, ByGrpc, Fresh, Gone
    <2> QED
      BY <2>3, <2>4 DEF InHand
  <1>4. CASE DecrementWake(h)
    <2>1. /\ pc[h] = "wake" /\ pc'[h] = "idle"
          /\ \A g \in Handlers \ {h} : pc'[g] = IF pc[g] = "asleep" THEN "fence" ELSE pc[g]
      BY <1>4, WokenPlaces
    <2>2. job' = job /\ status' = status
      BY <1>4 DEF DecrementWake
    <2>3. HandsApart'
      BY <2>1, <2>2 DEF HandsApart, InHand, Gone
    <2>4. ASSUME NEW g \in Handlers PROVE HandSound(g)'
      BY <2>1, <2>2 DEF HandSound, InHand, ByRpc, ByGrpc, Fresh, Gone
    <2> QED
      BY <2>3, <2>4 DEF InHand
  <1> QED
    BY <1>1, <1>2, <1>3, <1>4 DEF Removal

LEMMA HandsNext == TypeOK /\ InHand /\ [Next]_vars => InHand'
  <1> SUFFICES ASSUME TypeOK, InHand, [Next]_vars PROVE InHand'
    OBVIOUS
  <1>1. ASSUME NEW j \in RestoredJobs, RestoreAdd(j) PROVE InHand'
    <2>1. /\ j \in Jobs /\ UNCHANGED <<pc, job>> /\ \A h \in Handlers : job[h] # j
          /\ \A k \in Jobs : k # j => status'[k] = status[k]
      BY <1>1, JobsAssumption, AddedOne DEF RestoreAdd, Offered
    <2>2. ASSUME NEW g \in Handlers, pc[g] \in ByRpc \cup ByGrpc \cup Gone
          PROVE  status'[job[g]] = status[job[g]]
      BY <2>1, <2>2 DEF TypeOK, ByRpc, ByGrpc, Gone
    <2>3. ASSUME NEW g \in Handlers PROVE HandSound(g)'
      BY <2>1, <2>2 DEF InHand, HandSound, Fresh, ByRpc
    <2> QED
      BY <2>1, <2>3 DEF InHand, HandsApart
  <1>2. CASE UNCHANGED vars
    BY <1>2 DEF vars, InHand, HandSound, HandsApart
  <1> QED
    BY <1>1, <1>2, HandsPut, HandsRemoval DEF Next

LEMMA HandsInit == Init => InHand
  BY DEF Init, InHand, HandSound, HandsApart, ByRpc, ByGrpc, Fresh, Gone

-----------------------------------------------------------------------------
(* The counter against the jobs it stands for.                             *)

LEMMA TotalIsSum == ASSUME NEW S PROVE Total(S) = SumOf(SizeOf, S)
  BY Zenon DEF Total, SumOf, MapThenSumSet, MapThenFoldSet

\* What is used of totals
LEMMA TotalFacts ==
  ASSUME NEW S \in SUBSET Jobs
  PROVE  /\ Total(S) \in Nat /\ Total({}) = 0
         /\ \A j \in S : Total(S) = SizeOf[j] + Total(S \ {j})
         /\ \A j \in Jobs \ S : Total(S \cup {j}) = SizeOf[j] + Total(S)
         /\ \A T \in SUBSET S : Total(T) <= Total(S)
  <1>1. IsFiniteSet(S) /\ \A j \in Jobs : SizeOf[j] \in Nat
    BY FS_Subset, JobsAssumption
  <1>2. Total(S) \in Nat /\ Total({}) = 0
    BY <1>1, SumType, TotalIsSum
  <1>3. ASSUME NEW j \in S PROVE Total(S) = SizeOf[j] + Total(S \ {j})
    BY <1>1, SumLess, TotalIsSum
  <1>4. ASSUME NEW j \in Jobs \ S PROVE Total(S \cup {j}) = SizeOf[j] + Total(S)
    BY <1>1, SumMore, TotalIsSum
  <1>5. ASSUME NEW T \in SUBSET S PROVE Total(T) <= Total(S)
    BY <1>1, SumMonotone, TotalIsSum
  <1> QED
    BY <1>2, <1>3, <1>4, <1>5

LEMMA Sizes == \A j \in Jobs : SizeOf[j] \in Nat
  BY JobsAssumption

\* In the hub and still to be counted; in the hub's hands and counted; counted, and in no
\* hub; subtracted, and never counted
Incrementing == JobsAt({"increment"})
Counted == InState({"pending", "rejected"}) \ RestoredJobs
Leaving == JobsAt({"addLast", "decrement"})
Uncounted == InState({"removed"}) \cap RestoredJobs

Balance ==
  current + Total(Incrementing) = Total(Counted) + Total(Leaving) - Total(Uncounted)

LEMMA BalanceSets ==
  ASSUME TypeOK
  PROVE  /\ Incrementing \in SUBSET Jobs /\ Leaving \in SUBSET Jobs
         /\ Counted \in SUBSET Jobs /\ Uncounted \in SUBSET Jobs
         /\ current \in Int
  BY DEF TypeOK, Incrementing, Counted, Leaving, Uncounted, JobsAt, InState

LEMMA JobsAtKept ==
  ASSUME NEW P, \A g \in Handlers : /\ pc'[g] \in P <=> pc[g] \in P
                                    /\ pc[g] \in P => job'[g] = job[g]
  PROVE  JobsAt(P)' = JobsAt(P)
  BY DEF JobsAt

LEMMA JobsAtJoined ==
  ASSUME NEW P, NEW h \in Handlers, OthersStay(h), pc[h] \notin P, pc'[h] \in P
  PROVE  JobsAt(P)' = JobsAt(P) \cup {job'[h]}
  BY DEF JobsAt, OthersStay

LEMMA JobsAtLeft ==
  ASSUME NEW P, NEW h \in Handlers, OthersStay(h), pc[h] \in P, pc'[h] \notin P,
         \A g \in Handlers \ {h} : pc[g] \in P => job[g] # job[h]
  PROVE  JobsAt(P)' = JobsAt(P) \ {job[h]}
  BY DEF JobsAt, OthersStay

\* A put over RPC is counted after the hub has it, one over gRPC before
LEMMA BalancePut ==
  ASSUME TypeOK, InHand, Balance, NEW h \in Putters, Put(h)
  PROVE  Balance'
  <1> h \in Handlers
    BY HandlerSets
  <1> USE DEF Places
  <1>t. pc \in [Handlers -> Places] /\ job \in [Handlers -> Jobs \cup {NoJob}]
    BY DEF TypeOK
  <1>o. OthersStay(h)
    BY HandsPut
  <1>1. CASE RpcPut(h) \/ GrpcPut(h) \/ FenceLock(h) \/ FenceLoad(h) \/ FenceWait(h)
    <2>1. /\ UNCHANGED <<current, status>>
          /\ pc[h] \notin {"increment", "addLast", "decrement"}
          /\ pc'[h] \notin {"increment", "addLast", "decrement"}
      BY <1>1, MovesOne DEF RpcPut, GrpcPut, FenceLock, FenceLoad, FenceWait
    <2>2. Incrementing' = Incrementing /\ Leaving' = Leaving
      BY <1>o, <2>1, JobsAtKept DEF Incrementing, Leaving, OthersStay
    <2> QED
      BY <2>1, <2>2 DEF Balance, Counted, Uncounted, InState
  <1>2. CASE RpcAdd(h)
    <2> DEFINE j == job[h]
    <2>1. /\ AddToHub(j) /\ pc[h] = "add" /\ pc'[h] = "increment"
          /\ job' = job /\ current' = current
      BY <1>2, MovesOne DEF RpcAdd
    <2>2. j \in Jobs \ RestoredJobs /\ status[j] = "new"
      BY <1>t, <2>1, JobsAssumption DEF InHand, HandSound, Fresh, ByRpc, ByGrpc, TypeOK
    <2>3. /\ status'[j] \in {"pending", "rejected"}
          /\ \A k \in Jobs : k # j => status'[k] = status[k]
      BY <2>1, <2>2, AddedOne
    <2>4. Incrementing' = Incrementing \cup {j}
      BY <1>o, <2>1, JobsAtJoined DEF Incrementing
    <2>5. Leaving' = Leaving
      BY <1>o, <2>1, JobsAtKept DEF Leaving, OthersStay
    <2>6. Counted' = Counted \cup {j} /\ j \notin Counted
      BY <2>2, <2>3 DEF Counted, InState
    <2>7. Uncounted' = Uncounted
      BY <2>2, <2>3 DEF Uncounted, InState
    <2>8. j \notin Incrementing
      BY <1>t, <2>2 DEF Incrementing, JobsAt, InHand, HandSound
    <2> HIDE DEF j
    <2>9. /\ Total(Incrementing \cup {j}) = SizeOf[j] + Total(Incrementing)
          /\ Total(Counted \cup {j}) = SizeOf[j] + Total(Counted)
      BY <2>2, <2>6, <2>8, BalanceSets, TotalFacts
    <2>10. /\ Total(Incrementing) \in Nat /\ Total(Counted) \in Nat /\ Total(Leaving) \in Nat
           /\ Total(Uncounted) \in Nat /\ current \in Int /\ SizeOf[j] \in Nat
      BY <2>2, BalanceSets, TotalFacts, Sizes
    <2> QED
      BY <2>1, <2>4, <2>5, <2>6, <2>7, <2>9, <2>10 DEF Balance
  <1>3. CASE RpcIncrement(h)
    <2> DEFINE j == job[h]
    <2>1. /\ pc[h] = "increment" /\ pc'[h] = "idle"
          /\ status' = status /\ current' = current + SizeOf[j]
      BY <1>3, MovesOne DEF RpcIncrement
    <2>2. j \in Jobs /\ j # NoJob
      BY <1>t, <2>1, JobsAssumption DEF TypeOK
    <2>3. \A g \in Handlers \ {h} : pc[g] = "increment" => job[g] # j
      BY <2>1, <2>2 DEF InHand, HandsApart, Gone
    <2>4. Incrementing' = Incrementing \ {j} /\ j \in Incrementing
      <3>1. Incrementing' = Incrementing \ {j}
        BY <1>o, <2>1, <2>3, JobsAtLeft DEF Incrementing
      <3> QED
        BY <2>1, <3>1 DEF Incrementing, JobsAt
    <2>5. Leaving' = Leaving
      BY <1>o, <2>1, JobsAtKept DEF Leaving, OthersStay
    <2>6. Counted' = Counted /\ Uncounted' = Uncounted
      BY <2>1 DEF Counted, Uncounted, InState
    <2> HIDE DEF j
    <2>7. Total(Incrementing) = SizeOf[j] + Total(Incrementing')
      BY <2>4, BalanceSets, TotalFacts
    <2>8. /\ Total(Incrementing') \in Nat /\ Total(Counted) \in Nat /\ Total(Leaving) \in Nat
          /\ Total(Uncounted) \in Nat /\ current \in Int /\ SizeOf[j] \in Nat
      BY <2>2, <2>4, BalanceSets, TotalFacts, Sizes
    <2> QED
      BY <2>1, <2>5, <2>6, <2>7, <2>8 DEF Balance
  <1>4. CASE GrpcIncrement(h)
    <2> DEFINE j == job[h]
    <2>1. /\ pc[h] = "incrementFirst" /\ pc'[h] = "addLast"
          /\ status' = status /\ job' = job /\ current' = current + SizeOf[j]
      BY <1>4, MovesOne DEF GrpcIncrement
    <2>2. j \in Jobs /\ j # NoJob
      BY <1>t, <2>1, JobsAssumption DEF TypeOK
    <2>3. Incrementing' = Incrementing
      BY <1>o, <2>1, JobsAtKept DEF Incrementing, OthersStay
    <2>4. Leaving' = Leaving \cup {j}
      BY <1>o, <2>1, JobsAtJoined DEF Leaving
    <2>5. j \notin Leaving
      BY <2>1, <2>2 DEF Leaving, JobsAt, InHand, HandsApart, Gone
    <2>6. Counted' = Counted /\ Uncounted' = Uncounted
      BY <2>1 DEF Counted, Uncounted, InState
    <2> HIDE DEF j
    <2>7. Total(Leaving') = SizeOf[j] + Total(Leaving)
      BY <2>2, <2>4, <2>5, BalanceSets, TotalFacts
    <2>8. /\ Total(Incrementing) \in Nat /\ Total(Counted) \in Nat /\ Total(Leaving) \in Nat
          /\ Total(Uncounted) \in Nat /\ current \in Int /\ SizeOf[j] \in Nat
      BY <2>2, BalanceSets, TotalFacts, Sizes
    <2> QED
      BY <2>1, <2>3, <2>6, <2>7, <2>8 DEF Balance
  <1>5. CASE GrpcAdd(h)
    <2> DEFINE j == job[h]
    <2>1. /\ AddToHub(j) /\ pc[h] = "addLast" /\ pc'[h] = "idle" /\ current' = current
      BY <1>5, MovesOne DEF GrpcAdd
    <2>2. j \in Jobs \ RestoredJobs /\ j # NoJob /\ status[j] = "new"
      BY <1>t, <2>1, JobsAssumption DEF InHand, HandSound, Fresh, ByRpc, ByGrpc, TypeOK
    <2>3. /\ status'[j] \in {"pending", "rejected"}
          /\ \A k \in Jobs : k # j => status'[k] = status[k]
      BY <2>1, <2>2, AddedOne
    <2>4. Incrementing' = Incrementing
      BY <1>o, <2>1, JobsAtKept DEF Incrementing, OthersStay
    <2>5. \A g \in Handlers \ {h} : job[g] # j
      BY <2>1, <2>2 DEF InHand, HandsApart, Gone
    <2>6. Leaving' = Leaving \ {j} /\ j \in Leaving
      <3>1. Leaving' = Leaving \ {j}
        BY <1>o, <2>1, <2>5, JobsAtLeft DEF Leaving
      <3> QED
        BY <2>1, <3>1 DEF Leaving, JobsAt
    <2>7. Counted' = Counted \cup {j} /\ j \notin Counted /\ Uncounted' = Uncounted
      BY <2>2, <2>3 DEF Counted, Uncounted, InState
    <2> HIDE DEF j
    <2>8. /\ Total(Leaving) = SizeOf[j] + Total(Leaving')
          /\ Total(Counted') = SizeOf[j] + Total(Counted)
      BY <2>2, <2>6, <2>7, BalanceSets, TotalFacts
    <2>9. /\ Total(Incrementing) \in Nat /\ Total(Counted) \in Nat /\ Total(Leaving') \in Nat
          /\ Total(Uncounted) \in Nat /\ current \in Int /\ SizeOf[j] \in Nat
      BY <2>2, <2>6, BalanceSets, TotalFacts, Sizes
    <2> QED
      BY <2>1, <2>4, <2>7, <2>8, <2>9 DEF Balance
  <1> QED
    BY <1>1, <1>2, <1>3, <1>4, <1>5 DEF Put, PutStep

\* A removal is subtracted after the hub has given the job up
LEMMA BalanceRemoval ==
  ASSUME TypeOK, InHand, Balance, NEW h \in Takers, Removal(h)
  PROVE  crashed' \/ Balance'
  <1> h \in Handlers
    BY HandlerSets
  <1> USE DEF Places
  <1>t. pc \in [Handlers -> Places] /\ job \in [Handlers -> Jobs \cup {NoJob}]
    BY DEF TypeOK
  <1>1. CASE Take(h)
    <2>1. PICK j \in Jobs : /\ job' = [job EXCEPT ![h] = j] /\ status[j] = "pending"
                            /\ status' = [status EXCEPT ![j] = "removed"]
      BY <1>1 DEF Take
    <2>2. /\ pc[h] = "idle" /\ pc'[h] = "decrement" /\ current' = current
          /\ \A g \in Handlers \ {h} : pc'[g] = pc[g]
      BY <1>1, MovesOne DEF Take
    <2>3. OthersStay(h) /\ job'[h] = j
      BY <1>t, <2>1, <2>2 DEF OthersStay
    <2>4. status'[j] = "removed" /\ \A k \in Jobs : k # j => status'[k] = status[k]
      BY <2>1 DEF TypeOK
    <2>5. Incrementing' = Incrementing
      BY <2>2, <2>3, JobsAtKept DEF Incrementing, OthersStay
    <2>6. Leaving' = Leaving \cup {j}
      BY <2>2, <2>3, JobsAtJoined DEF Leaving
    <2>7. j \notin Leaving
      BY <2>1 DEF Leaving, JobsAt, InHand, HandSound, Fresh, ByRpc, ByGrpc, Gone
    <2>8. Total(Leaving') = SizeOf[j] + Total(Leaving)
      BY <2>6, <2>7, BalanceSets, TotalFacts
    <2>9. /\ Total(Incrementing) \in Nat /\ Total(Counted) \in Nat /\ Total(Leaving) \in Nat
          /\ Total(Uncounted) \in Nat /\ current \in Int /\ SizeOf[j] \in Nat
      BY BalanceSets, TotalFacts, Sizes
    <2>10. CASE j \in RestoredJobs
      <3>1. Counted' = Counted /\ Uncounted' = Uncounted \cup {j} /\ j \notin Uncounted
        BY <2>1, <2>4, <2>10 DEF Counted, Uncounted, InState
      <3>2. Total(Uncounted') = SizeOf[j] + Total(Uncounted)
        BY <3>1, BalanceSets, TotalFacts
      <3> QED
        BY <2>2, <2>5, <2>8, <2>9, <3>1, <3>2 DEF Balance
    <2>11. CASE j \notin RestoredJobs
      <3>1. Uncounted' = Uncounted /\ Counted' = Counted \ {j} /\ j \in Counted
        BY <2>1, <2>4, <2>11 DEF Counted, Uncounted, InState
      <3>2. Total(Counted) = SizeOf[j] + Total(Counted') /\ Total(Counted') \in Nat
        BY <3>1, BalanceSets, TotalFacts
      <3> QED
        BY <2>2, <2>5, <2>8, <2>9, <3>1, <3>2 DEF Balance
    <2> QED
      BY <2>10, <2>11
  <1>2. CASE Decrement(h)
    <2> DEFINE j == job[h]
    <2>1. /\ pc[h] = "decrement" /\ pc'[h] \in {"panic", "peek"}
          /\ \A g \in Handlers \ {h} : pc'[g] = pc[g]
          /\ job' = job /\ status' = status /\ current' = current - SizeOf[j]
      BY <1>2, MovesOne DEF Decrement
    <2>2. j \in Jobs /\ j # NoJob
      BY <1>t, <2>1, JobsAssumption DEF TypeOK
    <2>3. OthersStay(h)
      BY <2>1 DEF OthersStay
    <2>4. Incrementing' = Incrementing
      BY <2>1, <2>3, JobsAtKept DEF Incrementing, OthersStay
    <2>5. \A g \in Handlers \ {h} : pc[g] \in {"addLast", "decrement"} => job[g] # j
      BY <2>1, <2>2 DEF InHand, HandsApart, Gone
    <2>6. Leaving' = Leaving \ {j} /\ j \in Leaving
      <3>1. Leaving' = Leaving \ {j}
        BY <2>1, <2>3, <2>5, JobsAtLeft DEF Leaving
      <3> QED
        BY <2>1, <3>1 DEF Leaving, JobsAt
    <2>7. Counted' = Counted /\ Uncounted' = Uncounted
      BY <2>1 DEF Counted, Uncounted, InState
    <2> HIDE DEF j
    <2>8. Total(Leaving) = SizeOf[j] + Total(Leaving')
      BY <2>6, BalanceSets, TotalFacts
    <2>9. /\ Total(Incrementing) \in Nat /\ Total(Counted) \in Nat /\ Total(Leaving') \in Nat
          /\ Total(Uncounted) \in Nat /\ current \in Int /\ SizeOf[j] \in Nat
      BY <2>2, <2>6, BalanceSets, TotalFacts, Sizes
    <2> QED
      BY <2>1, <2>4, <2>7, <2>8, <2>9 DEF Balance
  <1>3. CASE Underflow(h)
    BY <1>3 DEF Underflow
  <1>4. CASE DecrementPeek(h) \/ DecrementWake(h)
    <2>1. UNCHANGED <<current, status>>
      BY <1>4 DEF DecrementPeek, DecrementWake
    <2>2. \A g \in Handlers :
            /\ pc'[g] \in {"increment"} <=> pc[g] \in {"increment"}
            /\ pc'[g] \in {"addLast", "decrement"} <=> pc[g] \in {"addLast", "decrement"}
            /\ pc[g] \in {"increment", "addLast", "decrement"} => job'[g] = job[g]
      <3>1. CASE DecrementPeek(h)
        BY <1>t, <3>1, MovesOne DEF DecrementPeek
      <3>2. CASE DecrementWake(h)
        BY <3>2, WokenPlaces DEF DecrementWake
      <3> QED
        BY <1>4, <3>1, <3>2
    <2>3. Incrementing' = Incrementing /\ Leaving' = Leaving
      BY <2>2, JobsAtKept DEF Incrementing, Leaving
    <2> QED
      BY <2>1, <2>3 DEF Balance, Counted, Uncounted, InState
  <1> QED
    BY <1>1, <1>2, <1>3, <1>4 DEF Removal

\* Jobs that are restored are not counted
LEMMA BalanceRestore ==
  ASSUME TypeOK, Balance, NEW j \in RestoredJobs, RestoreAdd(j)
  PROVE  Balance'
  <1>1. /\ j \in Jobs /\ status[j] = "new" /\ UNCHANGED <<current, pc, job>>
        /\ status'[j] \in {"pending", "rejected"}
        /\ \A k \in Jobs : k # j => status'[k] = status[k]
    BY JobsAssumption, AddedOne DEF RestoreAdd, Offered
  <1>2. Incrementing' = Incrementing /\ Leaving' = Leaving
    BY <1>1 DEF Incrementing, Leaving, JobsAt
  <1>3. Counted' = Counted /\ Uncounted' = Uncounted
    BY <1>1 DEF Counted, Uncounted, InState
  <1> QED
    BY <1>1, <1>2, <1>3 DEF Balance

LEMMA BalanceInit == Init => Balance
  <1> SUFFICES ASSUME Init PROVE Balance
    OBVIOUS
  <1>1. Incrementing = {} /\ Counted = {} /\ Leaving = {} /\ Uncounted = {} /\ current = 0
    BY DEF Init, Incrementing, Counted, Leaving, Uncounted, JobsAt, InState
  <1>2. Total({}) = 0
    BY TotalFacts
  <1> QED
    BY <1>1, <1>2 DEF Balance

LEMMA BalanceIsAccounting == AccountingExplained <=> crashed \/ Balance
  BY DEF AccountingExplained, Balance, Incrementing, Counted, Leaving, Uncounted

LEMMA CrashStops ==
  ASSUME crashed, [Next]_vars
  PROVE  UNCHANGED vars
  BY DEF Next, Put, PutStep, Removal, RestoreAdd, Moves, RpcPut, GrpcPut, FenceLock,
         FenceLoad, FenceWait, RpcAdd, RpcIncrement, GrpcIncrement, GrpcAdd,
         Take, Decrement, Underflow, DecrementPeek, DecrementWake

LEMMA AccountingNext ==
  ASSUME TypeOK, InHand, crashed \/ Balance, [Next]_vars
  PROVE  crashed' \/ Balance'
  <1>1. CASE UNCHANGED vars
    BY <1>1 DEF vars, Balance, Incrementing, Counted, Leaving, Uncounted, JobsAt, InState
  <1>2. CASE Next /\ ~crashed
    BY <1>2, BalancePut, BalanceRemoval, BalanceRestore DEF Next
  <1> QED
    BY <1>1, <1>2, CrashStops

AccountInv == TypeOK /\ InHand /\ (crashed \/ Balance)

LEMMA Accounted == Spec => []AccountInv
  <1>1. Init => AccountInv
    BY InitMonitor, HandsInit, BalanceInit DEF AccountInv, MonitorInv
  <1>2. AccountInv /\ [Next]_vars => AccountInv'
    BY TypeNext, HandsNext, AccountingNext DEF AccountInv
  <1> QED
    BY <1>1, <1>2, PTL DEF Spec

-----------------------------------------------------------------------------
(* When only puts over gRPC are used.                                      *)

OnlyGrpc == \A j \in Jobs \ GrpcJobs : Offered(j)

\* No counter that the jobs of gRPC can bring about is taken for an underflow
RoomBelowTebibyte == Total(GrpcJobs) <= Tebibyte

NeverBelow ==
  OnlyGrpc => /\ ~crashed /\ 0 <= current
              /\ \A h \in Takers : pc[h] # "panic"

\* A handler has a job in hand until it is no longer new
LEMMA SeenForGood ==
  ASSUME TypeOK, InHand, [Next]_vars, NEW j \in Jobs, Offered(j)'
  PROVE  Offered(j)
  <1> j # NoJob
    BY JobsAssumption
  <1> USE DEF Places
  <1>t. pc \in [Handlers -> Places] /\ job \in [Handlers -> Jobs \cup {NoJob}]
    BY DEF TypeOK
  <1>n. status'[j] = "new" /\ \A h \in Handlers : job'[h] # j
    BY DEF Offered
  <1>a. ASSUME NEW k \in Jobs, AddToHub(k) PROVE k # j /\ status[j] = "new"
    BY <1>a, <1>n, AddedOne
  <1>1. ASSUME NEW h \in Putters, Put(h) PROVE Offered(j)
    <2> h \in Handlers
      BY HandlerSets
    <2>1. OthersStay(h)
      BY <1>1, HandsPut
    <2>2. status[j] = "new"
      <3>1. CASE RpcAdd(h) \/ GrpcAdd(h)
        <4>1. AddToHub(job[h]) /\ pc[h] \in {"add", "addLast"}
          BY <3>1, MovesOne DEF RpcAdd, GrpcAdd
        <4>2. job[h] \in Jobs
          BY <4>1 DEF TypeOK
        <4> QED
          BY <4>1, <4>2, <1>a
      <3>2. CASE status' = status
        BY <1>n, <3>2
      <3> QED
        BY <1>1, <3>1, <3>2 DEF Put, PutStep, RpcPut, GrpcPut, FenceLock, FenceLoad,
             FenceWait, RpcIncrement, GrpcIncrement
    <2>3. job[h] # j
      <3>1. CASE RpcPut(h) \/ GrpcPut(h)
        <4>1. pc[h] = "idle"
          BY <3>1, MovesOne DEF RpcPut, GrpcPut
        <4> QED
          BY <1>t, <4>1 DEF TypeOK
      <3>2. CASE RpcAdd(h) \/ GrpcAdd(h)
        <4>1. AddToHub(job[h]) /\ pc[h] \in {"add", "addLast"}
          BY <3>2, MovesOne DEF RpcAdd, GrpcAdd
        <4>2. job[h] \in Jobs
          BY <4>1 DEF TypeOK
        <4> QED
          BY <4>1, <4>2, <1>a
      <3>3. CASE RpcIncrement(h)
        <4>1. pc[h] = "increment"
          BY <3>3, MovesOne DEF RpcIncrement
        <4> QED
          BY <2>2, <4>1 DEF InHand, HandSound
      <3>4. CASE job' = job
        BY <1>n, <3>4
      <3> QED
        BY <1>1, <3>1, <3>2, <3>3, <3>4 DEF Put, PutStep, FenceLock, FenceLoad,
             FenceWait, GrpcIncrement
    <2> QED
      BY <1>n, <2>1, <2>2, <2>3 DEF Offered, OthersStay
  <1>2. ASSUME NEW h \in Takers, Removal(h) PROVE Offered(j)
    <2> h \in Handlers
      BY HandlerSets
    <2>1. CASE Take(h)
      <3>1. PICK k \in Jobs : /\ job' = [job EXCEPT ![h] = k] /\ status[k] = "pending"
                              /\ status' = [status EXCEPT ![k] = "removed"]
        BY <2>1 DEF Take
      <3>2. pc[h] = "idle"
        BY <2>1, MovesOne DEF Take
      <3>3. job[h] = NoJob
        BY <3>2 DEF TypeOK
      <3>4. k # j /\ status[j] = "new"
        BY <1>n, <3>1 DEF TypeOK
      <3> QED
        BY <1>t, <1>n, <3>1, <3>3, <3>4 DEF Offered
    <2>2. CASE Underflow(h) \/ DecrementPeek(h)
      <3>1. pc[h] \in Gone /\ status' = status /\ job' = [job EXCEPT ![h] = NoJob]
        BY <2>2, MovesOne DEF Underflow, DecrementPeek, Gone
      <3>2. job[h] # j
        BY <1>n, <3>1 DEF InHand, HandSound
      <3> QED
        BY <1>t, <1>n, <3>1, <3>2 DEF Offered
    <2>3. CASE UNCHANGED <<job, status>>
      BY <1>n, <2>3 DEF Offered
    <2> QED
      BY <1>2, <2>1, <2>2, <2>3 DEF Removal, Decrement, DecrementWake
  <1>3. ASSUME NEW k \in RestoredJobs, RestoreAdd(k) PROVE Offered(j)
    BY <1>3, <1>n, <1>a, JobsAssumption DEF RestoreAdd, Offered
  <1>4. CASE UNCHANGED vars
    BY <1>4, <1>n DEF vars, Offered
  <1> QED
    BY <1>1, <1>2, <1>3, <1>4 DEF Next

\* The counter is then the size of some of the jobs of gRPC
LEMMA GrpcCounter ==
  ASSUME RoomBelowTebibyte, TypeOK', InHand', Balance', OnlyGrpc'
  PROVE  0 <= current' /\ current' <= Tebibyte
  <1>1. Incrementing' = {}
    BY DEF Incrementing, JobsAt, InHand, HandSound, ByRpc, OnlyGrpc, Offered, TypeOK, Places
  <1>2. Uncounted' = {}
    BY JobsAssumption DEF Uncounted, InState, OnlyGrpc, Offered
  <1>3. Counted' \subseteq GrpcJobs
    BY DEF Counted, InState, OnlyGrpc, Offered
  <1>4. Leaving' \subseteq GrpcJobs
    <2>1. ASSUME NEW h \in Handlers, pc'[h] \in {"addLast", "decrement"}
          PROVE  job'[h] \in GrpcJobs
      BY <2>1 DEF OnlyGrpc, Offered, TypeOK
    <2> QED
      BY <2>1 DEF Leaving, JobsAt
  <1>5. Counted' \cap Leaving' = {}
    BY DEF Counted, Leaving, InState, JobsAt, InHand, HandSound, Fresh, ByGrpc, ByRpc, Gone
  <1>6. IsFiniteSet(GrpcJobs) /\ IsFiniteSet(Counted') /\ IsFiniteSet(Leaving')
    BY <1>3, <1>4, FS_Subset, JobsAssumption
  <1>7. Total(Counted') + Total(Leaving') = Total(Counted' \cup Leaving')
    <2>1. Counted' \cup Leaving' \subseteq Jobs
      BY <1>3, <1>4, JobsAssumption
    <2> QED
      BY <1>5, <1>6, <2>1, Sizes, SumDisjoint, TotalIsSum
  <1>8. /\ Total(Counted' \cup Leaving') \in Nat
        /\ Total(Counted' \cup Leaving') <= Total(GrpcJobs)
    BY <1>3, <1>4, TotalFacts, JobsAssumption
  <1>9. Total({}) = 0 /\ Total(GrpcJobs) \in Nat
    BY TotalFacts, JobsAssumption
  <1>10. current' = Total(Counted' \cup Leaving')
    <2>1. /\ Total(Counted') \in Nat /\ Total(Leaving') \in Nat /\ current' \in Int
      BY <1>3, <1>4, TotalFacts, JobsAssumption DEF TypeOK
    <2> QED
      BY <1>1, <1>2, <1>7, <1>9, <2>1 DEF Balance
  <1> QED
    BY <1>8, <1>9, <1>10, WatermarkAssumption DEF RoomBelowTebibyte

LEMMA GrpcNext ==
  ASSUME RoomBelowTebibyte, AccountInv, AccountInv', NeverBelow, [Next]_vars
  PROVE  NeverBelow'
  <1> SUFFICES ASSUME OnlyGrpc'
               PROVE  /\ ~crashed' /\ 0 <= current'
                      /\ \A h \in Takers : pc'[h] # "panic"
    BY DEF NeverBelow
  <1>1. OnlyGrpc
    BY SeenForGood DEF OnlyGrpc, AccountInv
  <1>2. ~crashed /\ 0 <= current /\ \A h \in Takers : pc[h] # "panic"
    BY <1>1 DEF NeverBelow
  <1>3. ~crashed'
    <2>1. ASSUME NEW h \in Takers, Underflow(h) PROVE FALSE
      BY <1>2, <2>1 DEF Underflow, Moves
    <2> QED
      BY <1>2, <2>1 DEF Next, Put, PutStep, Removal, RestoreAdd, RpcPut, GrpcPut, FenceLock,
           FenceLoad, FenceWait, RpcAdd, RpcIncrement, GrpcIncrement, GrpcAdd,
           Take, Decrement, DecrementPeek, DecrementWake, vars
  <1>4. 0 <= current' /\ current' <= Tebibyte /\ current' \in Int
    BY <1>3, GrpcCounter DEF AccountInv, TypeOK
  <1>5. ASSUME NEW h \in Takers PROVE pc'[h] # "panic"
    <2> h \in Handlers /\ h \notin Putters
      BY HandlerSets
    <2> TypeOK
      BY DEF AccountInv
    <2> USE DEF Places
    <2>1. ASSUME NEW g \in Putters, Put(g) PROVE pc'[g] # "panic" /\ OthersStay(g)
      <3>1. OthersStay(g)
        BY <2>1, HandsPut DEF AccountInv
      <3>2. HandSound(g)'
        BY HandlerSets DEF AccountInv, InHand
      <3> QED
        BY <3>1, <3>2 DEF HandSound, ByRpc, ByGrpc
    <2>2. ASSUME NEW g \in Putters, Put(g) PROVE pc'[h] # "panic"
      BY <1>2, <2>1, <2>2 DEF OthersStay
    <2>3. ASSUME NEW g \in Takers, Removal(g) PROVE pc'[h] # "panic"
      <3> g \in Handlers
        BY HandlerSets
      <3>1. CASE Take(g)
        BY <1>2, <3>1, MovesOne DEF Take
      <3>2. CASE Decrement(g)
        <4>1. Moves(g, "decrement", "peek")
          <5>1. ~Above(current', Tebibyte)
            BY <1>4, WatermarkAssumption DEF Above
          <5> QED
            BY <3>2, <5>1 DEF Decrement
        <4> QED
          BY <1>2, <4>1, MovesOne
      <3>3. CASE Underflow(g)
        BY <1>2, <3>3, MovesOne DEF Underflow
      <3>4. CASE DecrementPeek(g)
        BY <1>2, <3>4, MovesOne DEF DecrementPeek
      <3>5. CASE DecrementWake(g)
        BY <1>2, <3>5, WokenPlaces
      <3> QED
        BY <2>3, <3>1, <3>2, <3>3, <3>4, <3>5 DEF Removal
    <2> QED
      BY <1>2, <2>2, <2>3 DEF Next, RestoreAdd, vars
  <1> QED
    BY <1>3, <1>4, <1>5

-----------------------------------------------------------------------------
(* How far puts over RPC can overshoot the watermark.                      *)

SomeNotGrpc == Jobs \ GrpcJobs # {}

Largest == Max({SizeOf[j] : j \in Jobs \ GrpcJobs})

\* Past the fence and still to be counted; put over gRPC and still to be
\* counted; put over gRPC
Passed == JobsAt({"add", "increment"})
Unfenced == JobsAt({"incrementFirst"})
SeenGrpc == {j \in GrpcJobs : ~Offered(j)}

\* The counter with what is on its way to it
Bounded ==
  current + Total(Passed) + Total(Unfenced)
    <= Watermark - 1 + Cardinality(Putters) * Largest + Total(SeenGrpc)

LEMMA LargestFacts ==
  ASSUME SomeNotGrpc
  PROVE  Largest \in Nat /\ \A j \in Jobs \ GrpcJobs : SizeOf[j] <= Largest
  <1> DEFINE sizes == {SizeOf[j] : j \in Jobs \ GrpcJobs}
             above == {n \in Nat : \A s \in sizes : s <= n}
  <1>1. \A s \in sizes : s \in Nat /\ s >= 1
    BY JobsAssumption
  <1>2. Total(Jobs) \in above
    <2>1. ASSUME NEW j \in Jobs PROVE SizeOf[j] <= Total(Jobs)
      <3>1. Total(Jobs) = SizeOf[j] + Total(Jobs \ {j})
        BY TotalFacts
      <3>2. Total(Jobs \ {j}) \in Nat /\ Total(Jobs) \in Nat /\ SizeOf[j] \in Nat
        BY TotalFacts, Sizes
      <3> QED
        BY <3>1, <3>2
    <2>2. Total(Jobs) \in Nat
      BY TotalFacts
    <2> QED
      BY <2>1, <2>2
  <1>3. PICK m \in above : \A n \in above : m <= n
    <2>1. above \in SUBSET Nat /\ above # {}
      BY <1>2
    <2> HIDE DEF above
    <2> QED
      BY <2>1, LeastNatural
  <1>4. m \in Nat /\ \A s \in sizes : s <= m
    BY <1>3
  <1>5. m \in sizes
    <2>1. SUFFICES ASSUME m \notin sizes PROVE FALSE
      OBVIOUS
    <2>2. PICK s \in sizes : s >= 1
      BY <1>1 DEF SomeNotGrpc
    <2> HIDE DEF sizes
    <2>3. m - 1 \in Nat
      BY <1>4, <2>2, <1>1
    <2>4. ASSUME NEW t \in sizes PROVE t <= m - 1
      BY <1>1, <1>4, <2>1
    <2>5. m - 1 \in above
      BY <2>3, <2>4
    <2> HIDE DEF above
    <2> QED
      BY <1>3, <1>4, <2>5
  <1>6. \A t \in sizes : m >= t
    BY <1>1, <1>4
  <1>7. Max(sizes) \in sizes /\ \A t \in sizes : Max(sizes) >= t
    <2> HIDE DEF sizes
    <2> QED
      BY <1>5, <1>6 DEF Max
  <1> QED
    BY <1>1, <1>7 DEF Largest

\* Each handler that has passed the fence carries one job
LEMMA PassedBound ==
  ASSUME SomeNotGrpc, TypeOK', InHand'
  PROVE  Total(Passed') <= Cardinality(Putters) * Largest
  <1> DEFINE hs == {h \in Putters : pc'[h] \in {"add", "increment"}}
             carried == [h \in hs |-> job'[h]]
  <1> USE DEF Places
  <1>1. Passed' = {job'[h] : h \in hs}
    <2>1. \A h \in Handlers : pc'[h] \in {"add", "increment"} => h \in Putters
      BY DEF InHand, HandSound, Gone, Handlers
    <2> QED
      BY <2>1, HandlerSets DEF Passed, JobsAt
  <1>2. carried \in Surjection(hs, Passed')
    BY <1>1 DEF Surjection
  <1>3. IsFiniteSet(hs) /\ Cardinality(hs) <= Cardinality(Putters)
    BY HandlersAssumption, FS_Subset
  <1>4. IsFiniteSet(Passed') /\ Cardinality(Passed') <= Cardinality(hs)
    <2> HIDE DEF hs, carried
    <2> QED
      BY <1>2, <1>3, FS_Surjection
  <1>5. \A j \in Passed' : j \in Jobs \ GrpcJobs
    <2>1. ASSUME NEW h \in hs PROVE job'[h] \in Jobs \ GrpcJobs
      BY <2>1, HandlerSets DEF TypeOK, InHand, HandSound, ByRpc
    <2> QED
      BY <1>1, <2>1
  <1>6. Total(Passed') <= Cardinality(Passed') * Largest
    <2>1. \A j \in Passed' : SizeOf[j] \in Nat /\ SizeOf[j] <= Largest
      BY <1>5, Sizes, LargestFacts
    <2> QED
      BY <1>4, <2>1, LargestFacts, SumBounded, TotalIsSum
  <1> HIDE DEF hs
  <1>7. /\ Cardinality(Passed') \in Nat /\ Cardinality(Putters) \in Nat
        /\ Cardinality(Passed') <= Cardinality(Putters)
    BY <1>3, <1>4, FS_CardinalityType, HandlersAssumption
  <1>8. Total(Passed') \in Nat
    BY <1>5, TotalFacts
  <1>9. ASSUME NEW a \in Nat, NEW b \in Nat, NEW c \in Nat, a <= b
        PROVE  a * c <= b * c
    <2>1. PICK d \in Nat : b = a + d
      <3>1. b - a \in Nat /\ b = a + (b - a)
        BY <1>9
      <3> QED
        BY <3>1
    <2>2. b * c = a * c + d * c /\ d * c \in Nat /\ a * c \in Nat
      BY <2>1
    <2> QED
      BY <2>2
  <1>10. Cardinality(Passed') * Largest <= Cardinality(Putters) * Largest
    BY <1>7, <1>9, LargestFacts
  <1>11. /\ Cardinality(Passed') * Largest \in Nat
         /\ Cardinality(Putters) * Largest \in Nat
    BY <1>7, LargestFacts
  <1> QED
    BY <1>6, <1>8, <1>10, <1>11

LEMMA BoundSets ==
  ASSUME TypeOK
  PROVE  /\ Passed \in SUBSET Jobs /\ Unfenced \in SUBSET Jobs
         /\ SeenGrpc \in SUBSET Jobs /\ current \in Int
  BY JobsAssumption DEF TypeOK, Passed, Unfenced, JobsAt, SeenGrpc

LEMMA BoundTypes ==
  ASSUME SomeNotGrpc, TypeOK
  PROVE  /\ Total(Passed) \in Nat /\ Total(Unfenced) \in Nat /\ Total(SeenGrpc) \in Nat
         /\ current \in Int /\ Cardinality(Putters) * Largest \in Nat
         /\ Watermark - 1 \in Nat
  <1>1. Cardinality(Putters) \in Nat
    BY HandlersAssumption, FS_CardinalityType
  <1> QED
    BY <1>1, BoundSets, TotalFacts, LargestFacts, WatermarkAssumption

\* While the counter is below the watermark, what is on its way to it is bounded
LEMMA BoundAnew ==
  ASSUME SomeNotGrpc, TypeOK', InHand', current' <= Watermark - 1
  PROVE  Bounded'
  <1>1. Unfenced' \subseteq SeenGrpc'
    BY DEF Unfenced, JobsAt, SeenGrpc, Offered, InHand, HandSound, ByGrpc
  <1>2. SeenGrpc' \in SUBSET Jobs
    BY JobsAssumption DEF SeenGrpc
  <1>3. Total(Unfenced') <= Total(SeenGrpc')
    BY <1>1, <1>2, TotalFacts
  <1>4. Total(Unfenced') \in Nat /\ Total(SeenGrpc') \in Nat
    BY <1>1, <1>2, TotalFacts
  <1>5. Passed' \in SUBSET Jobs
    BY DEF TypeOK, Places, Passed, JobsAt
  <1>6. Total(Passed') \in Nat /\ Total(Passed') <= Cardinality(Putters) * Largest
    BY <1>5, TotalFacts, PassedBound
  <1>7. Cardinality(Putters) * Largest \in Nat /\ Watermark - 1 \in Nat /\ current' \in Int
    <2>1. Cardinality(Putters) \in Nat
      BY HandlersAssumption, FS_CardinalityType
    <2> QED
      BY <2>1, LargestFacts, WatermarkAssumption DEF TypeOK
  <1> QED
    BY <1>3, <1>4, <1>6, <1>7 DEF Bounded

\* A job that has been put over gRPC stays so
LEMMA SeenGrows ==
  ASSUME TypeOK, TypeOK', InHand, [Next]_vars
  PROVE  SeenGrpc \subseteq SeenGrpc' /\ Total(SeenGrpc) <= Total(SeenGrpc')
  <1>1. SeenGrpc \subseteq SeenGrpc'
    BY SeenForGood, JobsAssumption DEF SeenGrpc
  <1>2. SeenGrpc' \in SUBSET Jobs
    BY JobsAssumption DEF SeenGrpc
  <1> QED
    BY <1>1, <1>2, TotalFacts

\* A step that takes nothing past the fence
LEMMA BoundKept ==
  ASSUME SomeNotGrpc, TypeOK, TypeOK', InHand, [Next]_vars, Bounded,
         current' + Total(Passed') + Total(Unfenced')
           <= current + Total(Passed) + Total(Unfenced)
  PROVE  Bounded'
  <1>1. /\ Total(Passed') \in Nat /\ Total(Unfenced') \in Nat /\ Total(SeenGrpc') \in Nat
        /\ current' \in Int
    <2>1. /\ Passed' \in SUBSET Jobs /\ Unfenced' \in SUBSET Jobs
          /\ SeenGrpc' \in SUBSET Jobs
      BY JobsAssumption DEF TypeOK, Places, Passed, Unfenced, JobsAt, SeenGrpc
    <2> QED
      BY <2>1, TotalFacts DEF TypeOK
  <1>2. Total(SeenGrpc) <= Total(SeenGrpc')
    BY SeenGrows
  <1> QED
    BY <1>1, <1>2, BoundTypes DEF Bounded

LEMMA BoundPut ==
  ASSUME SomeNotGrpc, TypeOK, TypeOK', InHand, InHand', [Next]_vars, Bounded,
         NEW h \in Putters, Put(h)
  PROVE  Bounded'
  <1> h \in Handlers
    BY HandlerSets
  <1> USE DEF Places
  <1>t. pc \in [Handlers -> Places] /\ job \in [Handlers -> Jobs \cup {NoJob}]
    BY DEF TypeOK
  <1>o. OthersStay(h)
    BY HandsPut
  <1>1. CASE RpcPut(h) \/ FenceLock(h) \/ FenceWait(h) \/ GrpcAdd(h)
    <2>1. /\ current' = current
          /\ pc[h] \notin {"add", "increment", "incrementFirst"}
          /\ pc'[h] \notin {"add", "increment", "incrementFirst"}
      BY <1>1, MovesOne DEF RpcPut, FenceLock, FenceWait, GrpcAdd
    <2>2. Passed' = Passed /\ Unfenced' = Unfenced
      BY <1>o, <2>1, JobsAtKept DEF Passed, Unfenced, OthersStay
    <2> QED
      BY <2>1, <2>2, BoundKept, BoundTypes
  <1>2. CASE FenceLoad(h)
    <2>1. CASE AtOrAbove(current, Watermark)
      <3>1. /\ current' = current /\ pc[h] = "load" /\ pc'[h] = "wait"
        BY <1>2, <2>1, MovesOne DEF FenceLoad
      <3>2. Passed' = Passed /\ Unfenced' = Unfenced
        BY <1>o, <3>1, JobsAtKept DEF Passed, Unfenced, OthersStay
      <3> QED
        BY <3>1, <3>2, BoundKept, BoundTypes
    <2>2. CASE ~AtOrAbove(current, Watermark)
      <3>1. current' = current /\ current <= Watermark - 1
        BY <1>2, <2>2, WatermarkAssumption DEF FenceLoad, AtOrAbove, TypeOK
      <3> QED
        BY <3>1, BoundAnew
    <2> QED
      BY <2>1, <2>2
  <1>3. CASE RpcAdd(h)
    <2>1. /\ pc[h] = "add" /\ pc'[h] = "increment" /\ job' = job /\ current' = current
      BY <1>3, MovesOne DEF RpcAdd
    <2>2. Passed' = Passed /\ Unfenced' = Unfenced
      BY <1>o, <2>1, JobsAtKept DEF Passed, Unfenced, OthersStay
    <2> QED
      BY <2>1, <2>2, BoundKept, BoundTypes
  <1>4. CASE RpcIncrement(h)
    <2> DEFINE j == job[h]
    <2>1. /\ pc[h] = "increment" /\ pc'[h] = "idle" /\ current' = current + SizeOf[j]
      BY <1>4, MovesOne DEF RpcIncrement
    <2>2. j \in Jobs /\ j # NoJob
      BY <1>t, <2>1, JobsAssumption DEF TypeOK
    <2>3. \A g \in Handlers \ {h} : pc[g] \in {"add", "increment"} => job[g] # j
      BY <2>1, <2>2 DEF InHand, HandsApart, Gone
    <2>4. Passed' = Passed \ {j} /\ j \in Passed
      <3>1. Passed' = Passed \ {j}
        BY <1>o, <2>1, <2>3, JobsAtLeft DEF Passed
      <3> QED
        BY <2>1, <3>1 DEF Passed, JobsAt
    <2>5. Unfenced' = Unfenced
      BY <1>o, <2>1, JobsAtKept DEF Unfenced, OthersStay
    <2> HIDE DEF j
    <2>6. Total(Passed) = SizeOf[j] + Total(Passed') /\ Total(Passed') \in Nat
      BY <2>4, BoundSets, TotalFacts
    <2>7. current' + Total(Passed') + Total(Unfenced') = current + Total(Passed) + Total(Unfenced)
      BY <2>1, <2>2, <2>5, <2>6, BoundTypes, Sizes
    <2>8. current + Total(Passed) + Total(Unfenced) \in Int
      BY BoundTypes
    <2> QED
      BY <2>7, <2>8, BoundKept
  <1>5. CASE GrpcPut(h)
    <2>1. PICK j \in GrpcJobs : Offered(j) /\ job' = [job EXCEPT ![h] = j]
      BY <1>5 DEF GrpcPut
    <2>2. /\ pc[h] = "idle" /\ pc'[h] = "incrementFirst" /\ current' = current
          /\ job'[h] = j /\ j \in Jobs
      BY <1>t, <1>5, <2>1, MovesOne, JobsAssumption DEF GrpcPut
    <2>3. Passed' = Passed
      BY <1>o, <2>2, JobsAtKept DEF Passed, OthersStay
    <2>4. Unfenced' = Unfenced \cup {j} /\ j \notin Unfenced
      <3>1. Unfenced' = Unfenced \cup {j}
        BY <1>o, <2>2, JobsAtJoined DEF Unfenced
      <3> QED
        BY <2>1, <3>1 DEF Unfenced, JobsAt, Offered
    <2>5. j \in SeenGrpc' /\ j \notin SeenGrpc /\ SeenGrpc \subseteq SeenGrpc'
      BY <2>1, <2>2, SeenGrows DEF SeenGrpc, Offered
    <2>6. Total(Unfenced') = SizeOf[j] + Total(Unfenced)
      BY <2>2, <2>4, BoundSets, TotalFacts
    <2>7. SizeOf[j] + Total(SeenGrpc) <= Total(SeenGrpc') /\ Total(SeenGrpc') \in Nat
      <3>1. SeenGrpc' \in SUBSET Jobs
        BY JobsAssumption DEF SeenGrpc
      <3>2. Total(SeenGrpc \cup {j}) = SizeOf[j] + Total(SeenGrpc)
        BY <2>2, <2>5, BoundSets, TotalFacts
      <3>3. Total(SeenGrpc \cup {j}) <= Total(SeenGrpc')
        BY <2>5, <3>1, TotalFacts
      <3> QED
        BY <3>1, <3>2, <3>3, TotalFacts
    <2>8. SizeOf[j] \in Nat
      BY <2>2, Sizes
    <2> QED
      BY <2>2, <2>3, <2>6, <2>7, <2>8, BoundTypes DEF Bounded
  <1>6. CASE GrpcIncrement(h)
    <2> DEFINE j == job[h]
    <2>1. /\ pc[h] = "incrementFirst" /\ pc'[h] = "addLast" /\ current' = current + SizeOf[j]
      BY <1>6, MovesOne DEF GrpcIncrement
    <2>2. j \in Jobs /\ j # NoJob
      BY <1>t, <2>1, JobsAssumption DEF TypeOK
    <2>3. \A g \in Handlers \ {h} : job[g] # j
      BY <2>1, <2>2 DEF InHand, HandsApart, Gone
    <2>4. Unfenced' = Unfenced \ {j} /\ j \in Unfenced
      <3>1. Unfenced' = Unfenced \ {j}
        BY <1>o, <2>1, <2>3, JobsAtLeft DEF Unfenced
      <3> QED
        BY <2>1, <3>1 DEF Unfenced, JobsAt
    <2>5. Passed' = Passed
      BY <1>o, <2>1, JobsAtKept DEF Passed, OthersStay
    <2> HIDE DEF j
    <2>6. Total(Unfenced) = SizeOf[j] + Total(Unfenced') /\ Total(Unfenced') \in Nat
      BY <2>4, BoundSets, TotalFacts
    <2>7. current' + Total(Passed') + Total(Unfenced') = current + Total(Passed) + Total(Unfenced)
      BY <2>1, <2>2, <2>5, <2>6, BoundTypes, Sizes
    <2>8. current + Total(Passed) + Total(Unfenced) \in Int
      BY BoundTypes
    <2> QED
      BY <2>7, <2>8, BoundKept
  <1> QED
    BY <1>1, <1>2, <1>3, <1>4, <1>5, <1>6 DEF Put, PutStep

LEMMA BoundRemoval ==
  ASSUME SomeNotGrpc, TypeOK, TypeOK', InHand, InHand', [Next]_vars, Bounded,
         NEW h \in Takers, Removal(h)
  PROVE  Bounded'
  <1> h \in Handlers
    BY HandlerSets
  <1> USE DEF Places
  <1>t. pc \in [Handlers -> Places] /\ job \in [Handlers -> Jobs \cup {NoJob}]
    BY DEF TypeOK
  <1>1. CASE Underflow(h)
    <2>1. current' <= Watermark - 1
      BY <1>1, WatermarkAssumption DEF Underflow
    <2> QED
      BY <2>1, BoundAnew
  <1>2. CASE Take(h) \/ Decrement(h) \/ DecrementPeek(h) \/ DecrementWake(h)
    <2>1. current' <= current
      <3>1. CASE Decrement(h)
        <4>1. pc[h] = "decrement"
          BY <3>1, MovesOne DEF Decrement
        <4>2. SizeOf[job[h]] \in Nat
          BY <4>1, Sizes DEF TypeOK
        <4> QED
          BY <3>1, <4>2 DEF Decrement, TypeOK
      <3>2. CASE current' = current
        BY <3>2 DEF TypeOK
      <3> QED
        BY <1>2, <3>1, <3>2 DEF Take, DecrementPeek, DecrementWake
    <2>2. ASSUME NEW g \in Handlers
          PROVE  /\ pc'[g] \in {"add", "increment"} <=> pc[g] \in {"add", "increment"}
                 /\ pc'[g] \in {"incrementFirst"} <=> pc[g] \in {"incrementFirst"}
                 /\ pc[g] \in {"add", "increment", "incrementFirst"} => job'[g] = job[g]
      <3>1. CASE Take(h)
        BY <1>t, <3>1, MovesOne DEF Take
      <3>2. CASE Decrement(h)
        BY <1>t, <3>2, MovesOne DEF Decrement
      <3>3. CASE DecrementPeek(h)
        BY <1>t, <3>3, MovesOne DEF DecrementPeek
      <3>4. CASE DecrementWake(h)
        BY <3>4, WokenPlaces DEF DecrementWake
      <3> QED
        BY <1>2, <3>1, <3>2, <3>3, <3>4
    <2>3. Passed' = Passed /\ Unfenced' = Unfenced
      BY <2>2, JobsAtKept DEF Passed, Unfenced
    <2>4. current' \in Int
      BY DEF TypeOK
    <2> QED
      BY <2>1, <2>3, <2>4, BoundKept, BoundTypes
  <1> QED
    BY <1>1, <1>2 DEF Removal

LEMMA BoundNext ==
  ASSUME SomeNotGrpc, AccountInv, AccountInv', Bounded, [Next]_vars
  PROVE  Bounded'
  <1> TypeOK /\ TypeOK' /\ InHand /\ InHand'
    BY DEF AccountInv
  <1>1. CASE UNCHANGED <<current, pc, job>>
    <2>1. Passed' = Passed /\ Unfenced' = Unfenced
      BY <1>1 DEF Passed, Unfenced, JobsAt
    <2> QED
      BY <1>1, <2>1, BoundKept, BoundTypes
  <1> QED
    BY <1>1, BoundPut, BoundRemoval DEF Next, RestoreAdd, vars

LEMMA BoundInit ==
  ASSUME SomeNotGrpc, Init
  PROVE  Bounded
  <1>1. TypeOK
    BY InitMonitor DEF MonitorInv
  <1>2. current = 0 /\ Passed = {} /\ Unfenced = {}
    BY DEF Init, Passed, Unfenced, JobsAt
  <1>3. Total({}) = 0
    BY TotalFacts
  <1> QED
    BY <1>1, <1>2, <1>3, BoundTypes DEF Bounded

-----------------------------------------------------------------------------
\* Of all the handlers, only a put that looks at the counter holds the lock of
\* Fence, and a handler has a job in hand whenever it is about to use one.
THEOREM MonitorTypes == Spec => []TypeOK
  BY Monitored, PTL DEF MonitorInv

\* Fence's put cannot miss the broadcast of the Decrement that lets memory
\* recover, however the atomic counter and the lock are interleaved.
THEOREM NoWakeupIsLost == Spec => []NoLostWakeup
  BY Monitored, PTL DEF MonitorInv

\* Whatever the Increments and Decrements of concurrent requests, the counter is
\* the size of the jobs in the hub, of those that a request has in hand and of
\* those that the hub has refused, less the restored jobs that were handed out.
THEOREM CounterIsExplained == Spec => []AccountingExplained
  <1>1. AccountInv => AccountingExplained
    BY BalanceIsAccounting DEF AccountInv
  <1> QED
    BY <1>1, Accounted, PTL

\* The order of GRPCServer.PutWithID, the counter before the hub, keeps Decrement
\* from ever going below zero, unless the jobs themselves exceed the limit that
\* Decrement takes for an underflow.
THEOREM GrpcCountsFirst ==
  ASSUME RoomBelowTebibyte
  PROVE  Spec => []GrpcNeverUnderflows
  <1>1. Init => NeverBelow
    BY HandlerSets DEF Init, NeverBelow
  <1>2. AccountInv /\ AccountInv' /\ NeverBelow /\ [Next]_vars => NeverBelow'
    BY GrpcNext
  <1>3. NeverBelow => GrpcNeverUnderflows
    BY DEF NeverBelow, GrpcNeverUnderflows, OnlyGrpc
  <1> QED
    BY <1>1, <1>2, <1>3, Accounted, PTL DEF Spec

\* However many puts pass Fence before any of them has counted its job, RPC
\* brings the counter over the watermark by at most one job for each of them.
THEOREM FenceBoundsMemory ==
  ASSUME SomeNotGrpc
  PROVE  Spec => []FenceBounds
  <1>1. Init => Bounded
    BY BoundInit
  <1>2. AccountInv /\ AccountInv' /\ Bounded /\ [Next]_vars => Bounded'
    BY BoundNext
  <1>3. AccountInv /\ Bounded => FenceBounds
    <2> SUFFICES ASSUME TypeOK, Bounded PROVE FenceBounds
      BY DEF AccountInv
    <2>1. current <= Watermark - 1 + Cardinality(Putters) * Largest + Total(SeenGrpc)
      BY BoundTypes DEF Bounded
    <2> QED
      BY <2>1 DEF FenceBounds, Largest, SeenGrpc
  <1> QED
    BY <1>1, <1>2, <1>3, Accounted, PTL DEF Spec

\* Nothing is in the hub, and no request is about to add to it or has taken from it
Drained ==
  /\ InState({"pending"}) = {}
  /\ \A d \in Takers : pc[d] = "idle"
  /\ \A h \in Putters : pc[h] # "addLast"

LEMMA DrainedCounter ==
  ASSUME AccountInv, Drained, ~crashed
  PROVE  current <= Total(InState({"rejected"}))
  <1>1. TypeOK /\ InHand /\ Balance
    BY DEF AccountInv
  <1>2. Leaving = {}
    <2>1. \A h \in Handlers : pc[h] \notin {"addLast", "decrement"}
      BY <1>1 DEF Drained, InHand, HandSound, ByRpc, ByGrpc, Handlers
    <2> QED
      BY <2>1 DEF Leaving, JobsAt
  <1>3. Counted \in SUBSET InState({"rejected"}) /\ InState({"rejected"}) \in SUBSET Jobs
    BY DEF Counted, InState, Drained
  <1>4. /\ Total(Counted) <= Total(InState({"rejected"})) /\ Total(Leaving) = 0
        /\ Total(InState({"rejected"})) \in Nat
    BY <1>2, <1>3, TotalFacts
  <1>5. /\ current \in Int /\ Total(Incrementing) \in Nat /\ Total(Uncounted) \in Nat
        /\ Total(Counted) \in Nat
    BY <1>1, BalanceSets, TotalFacts
  <1> QED
    BY <1>1, <1>4, <1>5 DEF Balance

\* The safety core of FencedPutsWake: once the hub is empty and the Decrements of
\* those who emptied it have run, a put is left sleeping at the fence only if the
\* jobs that the hub refused, which stay counted, have filled the memory up to the
\* recovery watermark.  No wake-up is missing, and no other leak can do it.
THEOREM OnlyRejectedJobsBlock ==
  Spec => [](Drained /\ ~crashed /\ (\E h \in Putters : pc[h] \in {"wait", "asleep"})
               => Total(InState({"rejected"})) >= RecoveryWatermark)
  <1>1. MonitorInv /\ AccountInv =>
          (Drained /\ ~crashed /\ (\E h \in Putters : pc[h] \in {"wait", "asleep"})
             => Total(InState({"rejected"})) >= RecoveryWatermark)
    <2> SUFFICES ASSUME MonitorInv, AccountInv, Drained, ~crashed,
                        NEW h \in Putters, pc[h] \in {"wait", "asleep"}
                 PROVE  Total(InState({"rejected"})) >= RecoveryWatermark
      OBVIOUS
    <2>1. \A d \in Takers : pc[d] \notin {"peek", "wake", "panic"}
      BY DEF Drained
    <2>2. ~(current < 0) /\ ~(0 <= current /\ current < RecoveryWatermark)
      BY <2>1 DEF MonitorInv, WrappedPanics, NoLostWakeup
    <2>3. current <= Total(InState({"rejected"}))
      BY DrainedCounter
    <2>4. current \in Int /\ RecoveryWatermark \in Int /\ Total(InState({"rejected"})) \in Nat
      BY RecoveryBelow, TotalFacts DEF MonitorInv, TypeOK, InState
    <2> QED
      BY <2>2, <2>3, <2>4
  <1> QED
    BY <1>1, Monitored, Accounted, PTL

-----------------------------------------------------------------------------
(* The handlers get on.                                                    *)

\* How many handlers are where, of those that are busy
Busy == Places \ {"idle"}
CountAt == [p \in Busy |-> Cardinality({h \in Handlers : pc[h] = p})]

\* Each job goes one way: it is offered, passes the fence, is added, taken from the hub
\* and subtracted.  What is left of that, in the order in which it counts: jobs that no
\* handler has seen, puts yet to add, jobs to take, steps of removals, steps of puts
ToOffer == Cardinality({j \in Jobs : Offered(j)})
ToAdd ==
  CountAt["fence"] + CountAt["load"] + CountAt["wait"] + CountAt["asleep"] + CountAt["add"]
  + CountAt["incrementFirst"] + CountAt["addLast"]
ToTake == Cardinality(InState({"pending"}))
ToRemove ==
  3 * CountAt["decrement"] + 2 * CountAt["peek"] + CountAt["panic"] + CountAt["wake"]
ToReturn ==
  4 * CountAt["fence"] + 3 * CountAt["load"] + 2 * CountAt["wait"] + CountAt["asleep"]
  + CountAt["increment"] + CountAt["incrementFirst"]

\* Less is left, whichever of these counts first
GoesForward ==
  /\ ToOffer' <= ToOffer
  /\ ToOffer' = ToOffer => ToAdd' <= ToAdd
  /\ ToOffer' = ToOffer /\ ToAdd' = ToAdd => ToTake' <= ToTake
  /\ ToOffer' = ToOffer /\ ToAdd' = ToAdd /\ ToTake' = ToTake => ToRemove' <= ToRemove
  /\ ToOffer' = ToOffer /\ ToAdd' = ToAdd /\ ToTake' = ToTake /\ ToRemove' = ToRemove =>
       ToReturn' < ToReturn

\* Only finitely many handlers are busy at a time, however many there are
ActiveFinite == IsFiniteSet({h \in Handlers : pc[h] # "idle"})

LEMMA CountTypes ==
  ASSUME ActiveFinite
  PROVE  CountAt \in [Busy -> Nat]
  <1>1. ASSUME NEW p \in Busy PROVE Cardinality({h \in Handlers : pc[h] = p}) \in Nat
    <2>1. {h \in Handlers : pc[h] = p} \in SUBSET {h \in Handlers : pc[h] # "idle"}
      BY DEF Busy
    <2> QED
      BY <2>1, FS_Subset, FS_CardinalityType DEF ActiveFinite
  <1> QED
    BY <1>1 DEF CountAt

\* A handler that moves is counted where it comes and no longer where it was
LEMMA CountMoved ==
  ASSUME ActiveFinite, NEW h \in Handlers, pc[h] # pc'[h],
         \A g \in Handlers \ {h} : pc'[g] = pc[g]
  PROVE  /\ ActiveFinite'
         /\ \A p \in Busy :
              CountAt'[p] = IF p = pc[h] THEN CountAt[p] - 1
                            ELSE IF p = pc'[h] THEN CountAt[p] + 1
                            ELSE CountAt[p]
  <1>1. ActiveFinite'
    <2> DEFINE old == {g \in Handlers : pc[g] # "idle"}
               new == {g \in Handlers : pc'[g] # "idle"}
    <2>1. new \in SUBSET (old \cup {h})
      OBVIOUS
    <2>2. IsFiniteSet(old)
      BY DEF ActiveFinite
    <2> HIDE DEF old, new
    <2>3. IsFiniteSet(new)
      BY <2>1, <2>2, FS_AddElement, FS_Subset
    <2> QED
      BY <2>3 DEF ActiveFinite, new
  <1>2. ASSUME NEW p \in Busy
        PROVE  CountAt'[p] = IF p = pc[h] THEN CountAt[p] - 1
                             ELSE IF p = pc'[h] THEN CountAt[p] + 1
                             ELSE CountAt[p]
    <2> DEFINE old == {g \in Handlers : pc[g] = p}
               new == {g \in Handlers : pc'[g] = p}
    <2>1. CountAt[p] = Cardinality(old) /\ CountAt'[p] = Cardinality(new)
      BY DEF CountAt
    <2>2. IsFiniteSet(old)
      <3>1. old \in SUBSET {g \in Handlers : pc[g] # "idle"}
        BY DEF Busy
      <3> QED
        BY <3>1, FS_Subset DEF ActiveFinite
    <2>3. CASE p = pc[h]
      <3>1. h \in old /\ new = old \ {h}
        BY <2>3
      <3> QED
        BY <2>1, <2>2, <2>3, <3>1, FS_RemoveElement
    <2>4. CASE p = pc'[h]
      <3>1. h \notin old /\ new = old \cup {h}
        BY <2>4
      <3> QED
        BY <2>1, <2>2, <2>4, <3>1, FS_AddElement
    <2>5. CASE p # pc[h] /\ p # pc'[h]
      <3>1. new = old
        BY <2>5
      <3> QED
        BY <2>1, <2>5, <3>1
    <2> QED
      BY <2>3, <2>4, <2>5
  <1> QED
    BY <1>1, <1>2

\* A broadcast moves the sleepers as well
LEMMA CountWoken ==
  ASSUME TypeOK, ActiveFinite, NEW h \in Handlers, DecrementWake(h)
  PROVE  /\ ActiveFinite'
         /\ CountAt'["fence"] = CountAt["fence"] + CountAt["asleep"]
         /\ CountAt'["asleep"] = 0
         /\ CountAt'["wake"] = CountAt["wake"] - 1
         /\ \A p \in Busy \ {"fence", "asleep", "wake"} : CountAt'[p] = CountAt[p]
  <1> DEFINE old(p) == {g \in Handlers : pc[g] = p}
             new(p) == {g \in Handlers : pc'[g] = p}
             busy == {g \in Handlers : pc[g] # "idle"}
  <1>1. /\ pc[h] = "wake" /\ pc'[h] = "idle"
        /\ \A g \in Handlers \ {h} : pc'[g] = IF pc[g] = "asleep" THEN "fence" ELSE pc[g]
    BY WokenPlaces
  <1>2. \A p \in Busy : CountAt[p] = Cardinality(old(p)) /\ CountAt'[p] = Cardinality(new(p))
    BY DEF CountAt
  <1>3. IsFiniteSet(busy) /\ \A p \in Busy : old(p) \in SUBSET busy
    BY DEF ActiveFinite, Busy
  <1>4. {"fence", "asleep", "wake"} \subseteq Busy
    BY DEF Busy, Places
  <1>5. ActiveFinite'
    <2>1. {g \in Handlers : pc'[g] # "idle"} \in SUBSET busy
      BY <1>1
    <2> QED
      BY <1>3, <2>1, FS_Subset DEF ActiveFinite
  <1>6. /\ new("fence") = old("fence") \cup old("asleep")
        /\ old("fence") \cap old("asleep") = {}
        /\ new("asleep") = {}
        /\ new("wake") = old("wake") \ {h} /\ h \in old("wake")
        /\ \A p \in Busy \ {"fence", "asleep", "wake"} : new(p) = old(p)
    BY <1>1 DEF Busy
  <1> HIDE DEF old, new, busy
  <1>7. \A p \in Busy : IsFiniteSet(old(p)) /\ Cardinality(old(p)) \in Nat
    BY <1>3, FS_Subset, FS_CardinalityType
  <1>8. Cardinality(new("fence")) = Cardinality(old("fence")) + Cardinality(old("asleep"))
    <2> DEFINE fenced == old("fence")
               asleep == old("asleep")
    <2>1. /\ IsFiniteSet(fenced) /\ IsFiniteSet(asleep)
          /\ Cardinality(fenced) \in Nat /\ Cardinality(asleep) \in Nat
      BY <1>4, <1>7
    <2>2. new("fence") = fenced \cup asleep /\ fenced \cap asleep = {}
      BY <1>6
    <2> HIDE DEF fenced, asleep
    <2>3. Cardinality(fenced \cup asleep)
            = Cardinality(fenced) + Cardinality(asleep) - Cardinality(fenced \cap asleep)
      BY <2>1, FS_Union
    <2>4. Cardinality(fenced \cap asleep) = 0
      BY <2>2, FS_EmptySet
    <2>5. Cardinality(fenced \cup asleep) = Cardinality(fenced) + Cardinality(asleep)
      BY <2>1, <2>3, <2>4
    <2> QED
      BY <2>2, <2>5 DEF fenced, asleep
  <1>9. Cardinality(new("asleep")) = 0
    BY <1>6, FS_EmptySet
  <1>10. Cardinality(new("wake")) = Cardinality(old("wake")) - 1
    BY <1>4, <1>6, <1>7, FS_RemoveElement
  <1> QED
    BY <1>2, <1>4, <1>5, <1>6, <1>8, <1>9, <1>10

LEMMA LeftTypes ==
  ASSUME ActiveFinite
  PROVE  /\ ToOffer \in Nat /\ ToAdd \in Nat /\ ToTake \in Nat
         /\ ToRemove \in Nat /\ ToReturn \in Nat
  <1>1. {j \in Jobs : Offered(j)} \in SUBSET Jobs /\ InState({"pending"}) \in SUBSET Jobs
    BY DEF InState
  <1>2. ToOffer \in Nat /\ ToTake \in Nat
    BY <1>1, JobsAssumption, FS_Subset, FS_CardinalityType DEF ToOffer, ToTake
  <1> QED
    BY <1>2, CountTypes DEF ToAdd, ToRemove, ToReturn, Busy, Places

\* Nobody offers a job again
LEMMA OfferedShrinks ==
  ASSUME TypeOK, InHand, ActiveFinite, [Next]_vars
  PROVE  /\ ToOffer' \in Nat /\ ToOffer' <= ToOffer
         /\ \A j \in Jobs : Offered(j) /\ ~Offered(j)' => ToOffer' < ToOffer
  <1> DEFINE old == {j \in Jobs : Offered(j)}
             new == {j \in Jobs : Offered(j)'}
  <1>1. new \in SUBSET old /\ old \in SUBSET Jobs
    BY SeenForGood
  <1>2. ToOffer = Cardinality(old) /\ ToOffer' = Cardinality(new)
    BY DEF ToOffer
  <1>3. ASSUME NEW j \in Jobs, Offered(j), ~Offered(j)' PROVE new # old
    BY <1>3
  <1> HIDE DEF old, new
  <1>4. IsFiniteSet(old) /\ IsFiniteSet(new)
    BY <1>1, JobsAssumption, FS_Subset
  <1>5. /\ Cardinality(old) \in Nat /\ Cardinality(new) \in Nat
        /\ Cardinality(new) <= Cardinality(old)
        /\ Cardinality(old) = Cardinality(new) => old = new
    BY <1>1, <1>4, FS_Subset, FS_CardinalityType
  <1> QED
    BY <1>2, <1>3, <1>5

\* A put begins, and the hub has one job more or less
LEMMA StartForward ==
  ASSUME TypeOK, InHand, ActiveFinite, [Next]_vars, NEW h \in Handlers, RpcPut(h) \/ GrpcPut(h)
  PROVE  ActiveFinite' /\ GoesForward
  <1>1. PICK j \in Jobs : Offered(j) /\ job' = [job EXCEPT ![h] = j]
    <2>1. CASE RpcPut(h)
      BY <2>1 DEF RpcPut
    <2>2. CASE GrpcPut(h)
      BY <2>2, JobsAssumption DEF GrpcPut
    <2> QED
      BY <2>1, <2>2
  <1>2. pc[h] = "idle" /\ pc'[h] # pc[h] /\ \A g \in Handlers \ {h} : pc'[g] = pc[g]
    BY MovesOne DEF RpcPut, GrpcPut, Places
  <1>3. job'[h] = j
    BY <1>1 DEF TypeOK
  <1>4. ~Offered(j)'
    BY <1>3 DEF Offered
  <1> QED
    BY <1>1, <1>2, <1>4, CountMoved, OfferedShrinks, LeftTypes DEF GoesForward

LEMMA RestoreForward ==
  ASSUME TypeOK, InHand, ActiveFinite, [Next]_vars, NEW j \in RestoredJobs, RestoreAdd(j)
  PROVE  ActiveFinite' /\ GoesForward
  <1>1. j \in Jobs /\ Offered(j) /\ AddToHub(j) /\ pc' = pc
    BY JobsAssumption DEF RestoreAdd
  <1>2. ~Offered(j)'
    BY <1>1, AddedOne DEF Offered
  <1>3. ActiveFinite'
    BY <1>1 DEF ActiveFinite
  <1> QED
    BY <1>1, <1>2, <1>3, OfferedShrinks, LeftTypes DEF GoesForward

LEMMA AddForward ==
  ASSUME TypeOK, InHand, ActiveFinite, [Next]_vars, NEW h \in Handlers, RpcAdd(h) \/ GrpcAdd(h)
  PROVE  ActiveFinite' /\ GoesForward
  <1>1. /\ \/ pc[h] = "add" /\ pc'[h] = "increment"
           \/ pc[h] = "addLast" /\ pc'[h] = "idle"
        /\ \A g \in Handlers \ {h} : pc'[g] = pc[g]
    BY MovesOne DEF RpcAdd, GrpcAdd, Places
  <1>2. ToAdd' = ToAdd - 1
    BY <1>1, CountMoved, CountTypes DEF ToAdd, Busy, Places
  <1> QED
    BY <1>1, <1>2, CountMoved, OfferedShrinks, LeftTypes DEF GoesForward

LEMMA TakeForward ==
  ASSUME TypeOK, InHand, ActiveFinite, [Next]_vars, NEW h \in Handlers, Take(h)
  PROVE  ActiveFinite' /\ GoesForward
  <1>1. pc[h] = "idle" /\ pc'[h] = "decrement" /\ \A g \in Handlers \ {h} : pc'[g] = pc[g]
    BY MovesOne DEF Take, Places
  <1>2. ToAdd' = ToAdd
    BY <1>1, CountMoved, CountTypes DEF ToAdd, Busy, Places
  <1>3. PICK j \in Jobs : status[j] = "pending" /\ status' = [status EXCEPT ![j] = "removed"]
    BY DEF Take
  <1>4. j \in InState({"pending"}) /\ InState({"pending"})' = InState({"pending"}) \ {j}
    BY <1>3 DEF InState, TypeOK
  <1>5. IsFiniteSet(InState({"pending"}))
    BY JobsAssumption, FS_Subset DEF InState
  <1>6. ToTake' = ToTake - 1
    BY <1>4, <1>5, FS_RemoveElement DEF ToTake
  <1> QED
    BY <1>1, <1>2, <1>6, CountMoved, OfferedShrinks, LeftTypes DEF GoesForward

LEMMA RemovalForward ==
  ASSUME TypeOK, InHand, ActiveFinite, [Next]_vars, NEW h \in Handlers,
         Decrement(h) \/ Underflow(h) \/ DecrementPeek(h) \/ DecrementWake(h)
  PROVE  ActiveFinite' /\ GoesForward
  <1>1. ToTake' = ToTake
    BY DEF Decrement, Underflow, DecrementPeek, DecrementWake, ToTake, InState
  <1>2. ActiveFinite' /\ ToAdd' = ToAdd /\ ToRemove' \in Int /\ ToRemove' < ToRemove
    <2>1. CASE DecrementWake(h)
      BY <2>1, CountWoken, CountTypes DEF ToAdd, ToRemove, Busy, Places
    <2>2. CASE Decrement(h) \/ Underflow(h) \/ DecrementPeek(h)
      <3>1. /\ \/ pc[h] = "decrement" /\ pc'[h] \in {"panic", "peek"}
               \/ pc[h] = "panic" /\ pc'[h] = "idle"
               \/ pc[h] = "peek" /\ pc'[h] \in {"wake", "idle"}
            /\ \A g \in Handlers \ {h} : pc'[g] = pc[g]
        BY <2>2, MovesOne DEF Decrement, Underflow, DecrementPeek, Places
      <3> QED
        BY <3>1, CountMoved, CountTypes DEF ToAdd, ToRemove, Busy, Places
    <2> QED
      BY <2>1, <2>2
  <1> QED
    BY <1>1, <1>2, OfferedShrinks, LeftTypes DEF GoesForward

LEMMA FenceForward ==
  ASSUME TypeOK, InHand, ActiveFinite, [Next]_vars, NEW h \in Handlers,
         FenceLock(h) \/ FenceLoad(h) \/ FenceWait(h) \/ RpcIncrement(h) \/ GrpcIncrement(h)
  PROVE  ActiveFinite' /\ GoesForward
  <1>1. ToTake' = ToTake
    BY DEF FenceLock, FenceLoad, FenceWait, RpcIncrement, GrpcIncrement, ToTake, InState
  <1>2. /\ \/ pc[h] = "fence" /\ pc'[h] = "load"
           \/ pc[h] = "load" /\ pc'[h] \in {"wait", "add"}
           \/ pc[h] = "wait" /\ pc'[h] = "asleep"
           \/ pc[h] = "increment" /\ pc'[h] = "idle"
           \/ pc[h] = "incrementFirst" /\ pc'[h] = "addLast"
        /\ \A g \in Handlers \ {h} : pc'[g] = pc[g]
    BY MovesOne DEF FenceLock, FenceLoad, FenceWait, RpcIncrement, GrpcIncrement, Places
  <1>3. ToAdd' = ToAdd
    <2>1. CASE pc[h] = "fence"
      BY <1>2, <2>1, CountMoved, CountTypes DEF ToAdd, Busy, Places
    <2>2. CASE pc[h] = "load"
      BY <1>2, <2>2, CountMoved, CountTypes DEF ToAdd, Busy, Places
    <2>3. CASE pc[h] \in {"wait", "increment", "incrementFirst"}
      BY <1>2, <2>3, CountMoved, CountTypes DEF ToAdd, Busy, Places
    <2> QED
      BY <1>2, <2>1, <2>2, <2>3
  <1>4. ToRemove' = ToRemove
    BY <1>2, CountMoved, CountTypes DEF ToRemove, Busy, Places
  <1>5. ToReturn' < ToReturn
    BY <1>2, CountMoved, CountTypes DEF ToReturn, Busy, Places
  <1>6. ActiveFinite'
    BY <1>2, CountMoved
  <1> QED
    BY <1>1, <1>3, <1>4, <1>5, <1>6, OfferedShrinks, LeftTypes DEF GoesForward

LEMMA StepForward ==
  ASSUME TypeOK, InHand, ActiveFinite, [Next]_vars
  PROVE  ActiveFinite' /\ [GoesForward]_vars
  <1>1. CASE UNCHANGED vars
    BY <1>1 DEF vars, ActiveFinite
  <1> QED
    BY <1>1, HandlerSets, StartForward, RestoreForward, AddForward, TakeForward, RemovalForward,
       FenceForward DEF Next, Put, PutStep, Removal

\* However puts, removals, broadcasts and the restore are interleaved, the handlers of
\* finitely many jobs take finitely many steps: a broadcast sends the sleepers back to
\* the fence, but takes a removal for it, and there are no more of these than jobs
\* (memory.go:107-141).  With OnlyRejectedJobsBlock, which says where they may come to a
\* rest, that is what FencedPutsWake rests on.
THEOREM HandlersGoForward ==
  Spec => /\ [](/\ ToOffer \in Nat /\ ToAdd \in Nat /\ ToTake \in Nat
                /\ ToRemove \in Nat /\ ToReturn \in Nat)
          /\ [][GoesForward]_vars
  <1>1. Init => ActiveFinite
    <2> SUFFICES ASSUME Init PROVE ActiveFinite
      OBVIOUS
    <2>1. {h \in Handlers : pc[h] # "idle"} = {}
      BY DEF Init
    <2> QED
      BY <2>1, FS_EmptySet DEF ActiveFinite
  <1>2. TypeOK /\ InHand /\ ActiveFinite /\ [Next]_vars => ActiveFinite' /\ [GoesForward]_vars
    BY StepForward
  <1>3. ActiveFinite => /\ ToOffer \in Nat /\ ToAdd \in Nat /\ ToTake \in Nat
                        /\ ToRemove \in Nat /\ ToReturn \in Nat
    BY LeftTypes
  <1>4. AccountInv => TypeOK /\ InHand
    BY DEF AccountInv
  <1> QED
    BY <1>1, <1>2, <1>3, <1>4, Accounted, PTL DEF Spec
=============================================================================
