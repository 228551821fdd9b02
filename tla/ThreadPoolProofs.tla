-------------------------- MODULE ThreadPoolProofs --------------------------
(***************************************************************************)
(* Proofs about ThreadPool, for any finite set of workers, any callers and *)
(* any nodes.                                                              *)
(***************************************************************************)
EXTENDS ThreadPool, TLAPS, FiniteSetTheorems, SequenceTheorems

(* TypeOK without the ranges of the counters, which need CountersExact.    *)
TypeShape ==
    /\ pool \in {"creating", "live", "freed"}
    /\ work_first \in Work \cup {NULL}
    /\ work_last \in Work \cup {NULL}
    /\ working_cnt \in Int
    /\ thread_cnt \in Int
    /\ stop \in BOOLEAN
    /\ work_cond \subseteq Workers
    /\ working_cond \subseteq Callers
    /\ next \in [Work -> Work \cup {NULL}]
    /\ allocated \subseteq Work
    /\ worker_pc \in [Workers -> WorkerStates]
    /\ p_work \in [Workers -> Work \cup {NULL}]
    /\ caller_pc \in [Callers -> CallerStates]
    /\ cursor \in Work \cup {NULL}
    /\ fifo \in Seq(Work)

(* The inductive invariant.                                                *)
IInv ==
    /\ TypeShape
    /\ CountersExact
    /\ Lifecycle
    /\ ListShape
    /\ Ownership
    /\ NoSleeperMissesWork

-----------------------------------------------------------------------------
(* The initial state has the shape of the types.                           *)
LEMMA InitShape == Init => TypeShape
<1> SUFFICES ASSUME Init PROVE TypeShape
    OBVIOUS
<1>1. Cardinality(Workers) \in Int
    BY WorkersAssumption, FS_CardinalityType
<1>2. fifo \in Seq(Work)
    BY DEF Init
<1>3. thread_cnt \in Int /\ working_cnt \in Int
    BY <1>1 DEF Init
<1>4. next \in [Work -> Work \cup {NULL}]
    BY DEF Init
<1>5. /\ worker_pc \in [Workers -> WorkerStates]
      /\ p_work \in [Workers -> Work \cup {NULL}]
    BY DEF Init, WorkerStates
<1>6. caller_pc \in [Callers -> CallerStates]
    BY DEF Init, CallerStates
<1>7. QED
    BY <1>2, <1>3, <1>4, <1>5, <1>6 DEF Init, TypeShape

(* Every step keeps the shape; ListShape makes Tail and next applicable.   *)
LEMMA ShapeStep ==
    ASSUME TypeShape, Lifecycle, ListShape, [Next]_vars
    PROVE  TypeShape'
<1> USE DEF TypeShape, WorkerStates, CallerStates, list, counts, conds,
        workers, callers
<1>1. ASSUME NEW w \in Workers, CreateThread(w) PROVE TypeShape'
    BY <1>1 DEF CreateThread
<1>2. CASE CreateReturns
    BY <1>2 DEF CreateReturns
<1>3. ASSUME NEW c \in Callers, NEW x \in Work, AddWork(c, x) PROVE TypeShape'
    BY <1>3 DEF AddWork, Enqueue, BroadcastWork
<1>4. ASSUME NEW w \in Workers, WorkerSleep(w) PROVE TypeShape'
    BY <1>4 DEF WorkerSleep
<1>5. ASSUME NEW w \in Workers, WorkerExit(w) PROVE TypeShape'
    BY <1>5 DEF WorkerExit, SignalWorking
<1>6. ASSUME NEW w \in Workers, WorkerTake(w) PROVE TypeShape'
  <2>1. fifo # <<>>
    BY <1>6 DEF WorkerTake, AtLoop, ListShape
  <2>2. Tail(fifo) \in Seq(Work)
    BY <2>1
  <2>3. QED
    BY <1>6, <2>2 DEF WithoutFirst, WorkerTake, Dequeue
<1>7. ASSUME NEW w \in Workers, WorkerRun(w) PROVE TypeShape'
    BY <1>7 DEF WorkerRun
<1>8. ASSUME NEW w \in Workers, WorkerFinish(w) PROVE TypeShape'
    BY <1>8 DEF WorkerFinish, SignalWorking
<1>9. CASE SpuriousWake
    BY <1>9 DEF SpuriousWake
<1>10. ASSUME NEW c \in Callers, WaitCall(c) PROVE TypeShape'
    BY <1>10 DEF WaitCall
<1>11. ASSUME NEW c \in Callers, WaitBlock(c) PROVE TypeShape'
    BY <1>11 DEF WaitBlock
<1>12. ASSUME NEW c \in Callers, WaitReturn(c) PROVE TypeShape'
    BY <1>12 DEF WaitReturn
<1>13. ASSUME NEW c \in Callers, DestroyCall(c) PROVE TypeShape'
    BY <1>13 DEF DestroyCall
<1>14. ASSUME NEW c \in Callers, DestroyFreeNode(c) PROVE TypeShape'
  <2>1. fifo # <<>>
    BY <1>14 DEF DestroyFreeNode, ListShape, MutexFree
  <2>2. Tail(fifo) \in Seq(Work)
    BY <2>1
  <2>3. QED
    BY <1>14, <2>2 DEF WithoutFirst, DestroyFreeNode
<1>15. ASSUME NEW c \in Callers, DestroyStop(c) PROVE TypeShape'
    BY <1>15 DEF DestroyStop, BroadcastWork
<1>16. ASSUME NEW c \in Callers, DestroyFree(c) PROVE TypeShape'
    BY <1>16 DEF DestroyFree
<1>17. CASE UNCHANGED vars
    BY <1>17 DEF vars
<1>18. QED
    BY <1>1, <1>2, <1>3, <1>4, <1>5, <1>6, <1>7, <1>8, <1>9, <1>10, <1>11,
       <1>12, <1>13, <1>14, <1>15, <1>16, <1>17
    DEF Next, WorkerStep, CallerCall, CallerStep, Terminated

-----------------------------------------------------------------------------
(* The sets that the counters count are finite and bounded.                *)
LEMMA CountedSets ==
    /\ IsFiniteSet(AtWork) /\ Cardinality(AtWork) \in 0..Cardinality(Workers)
    /\ IsFiniteSet(NotExited) /\ Cardinality(NotExited) \in 0..Cardinality(Workers)
<1>1. AtWork \in SUBSET Workers /\ NotExited \in SUBSET Workers
    BY DEF AtWork, NotExited
<1>2. /\ IsFiniteSet(AtWork) /\ Cardinality(AtWork) <= Cardinality(Workers)
      /\ IsFiniteSet(NotExited) /\ Cardinality(NotExited) <= Cardinality(Workers)
    BY <1>1, WorkersAssumption, FS_Subset
<1>3. /\ Cardinality(AtWork) \in Nat
      /\ Cardinality(NotExited) \in Nat
      /\ Cardinality(Workers) \in Nat
    BY <1>2, WorkersAssumption, FS_CardinalityType
<1>4. QED
    BY <1>2, <1>3

(* Once thread_cnt is 0 every worker has exited.                           *)
LEMMA NoThreadLeft ==
    ASSUME CountersExact, thread_cnt = 0
    PROVE  \A w \in Workers : worker_pc[w] = "exited"
<1>1. NotExited = {}
    BY CountedSets, FS_EmptySet DEF CountersExact
<1>2. QED
    BY <1>1 DEF NotExited

(* At the start no worker works and none has exited.                       *)
LEMMA InitCounters == Init => CountersExact
<1> SUFFICES ASSUME Init PROVE CountersExact
    OBVIOUS
<1>1. AtWork = {} /\ NotExited = Workers
    BY DEF Init, AtWork, NotExited
<1>2. QED
    BY <1>1, FS_EmptySet DEF Init, CountersExact

(* The counters move with the threads they count.                          *)
LEMMA CountersStep ==
    ASSUME TypeShape, CountersExact, [Next]_vars
    PROVE  CountersExact'
<1> USE DEF CountersExact, list, counts, conds, workers, callers
<1>1. CASE UNCHANGED <<worker_pc, working_cnt, thread_cnt>>
    BY <1>1 DEF AtWork, NotExited
<1>2. ASSUME NEW w \in Workers, CreateThread(w) PROVE CountersExact'
  <2>1. AtWork' = AtWork /\ NotExited' = NotExited
      BY <1>2 DEF CreateThread, AtWork, NotExited, TypeShape
  <2>2. QED
      BY <1>2, <2>1 DEF CreateThread
<1>3. ASSUME NEW w \in Workers, WorkerExit(w) PROVE CountersExact'
  <2>1. AtWork' = AtWork /\ NotExited' = NotExited \ {w} /\ w \in NotExited
      BY <1>3 DEF WorkerExit, AtLoop, AtWork, NotExited, TypeShape
  <2>2. Cardinality(NotExited \ {w}) = Cardinality(NotExited) - 1
      BY <2>1, CountedSets, FS_RemoveElement
  <2>3. QED
      BY <1>3, <2>1, <2>2 DEF WorkerExit
<1>4. ASSUME NEW w \in Workers, WorkerTake(w) PROVE CountersExact'
  <2>1. AtWork' = AtWork \cup {w} /\ NotExited' = NotExited /\ w \notin AtWork
      BY <1>4 DEF WorkerTake, AtLoop, AtWork, NotExited, TypeShape
  <2>2. Cardinality(AtWork \cup {w}) = Cardinality(AtWork) + 1
      BY <2>1, CountedSets, FS_AddElement
  <2>3. QED
      BY <1>4, <2>1, <2>2 DEF WorkerTake
<1>5. ASSUME NEW w \in Workers, WorkerRun(w) PROVE CountersExact'
  <2>1. AtWork' = AtWork /\ NotExited' = NotExited
      BY <1>5 DEF WorkerRun, AtWork, NotExited, TypeShape
  <2>2. QED
      BY <1>5, <2>1 DEF WorkerRun
<1>6. ASSUME NEW w \in Workers, WorkerFinish(w) PROVE CountersExact'
  <2>1. AtWork' = AtWork \ {w} /\ NotExited' = NotExited /\ w \in AtWork
      BY <1>6 DEF WorkerFinish, AtWork, NotExited, TypeShape
  <2>2. Cardinality(AtWork \ {w}) = Cardinality(AtWork) - 1
      BY <2>1, CountedSets, FS_RemoveElement
  <2>3. QED
      BY <1>6, <2>1, <2>2 DEF WorkerFinish
<1>7. QED
    BY <1>1, <1>2, <1>3, <1>4, <1>5, <1>6
    DEF Next, WorkerStep, CallerCall, CallerStep, Terminated, vars,
        CreateReturns, AddWork, WorkerSleep, SpuriousWake, WaitCall, WaitBlock,
        WaitReturn, DestroyCall, DestroyFreeNode, DestroyStop, DestroyFree

-----------------------------------------------------------------------------
(* At the start nobody is inside the pool.                                 *)
LEMMA InitLifecycle == Init => Lifecycle
    BY DEF Init, Lifecycle, Destroying, Stopped

(* Every step keeps the protocol of tpool_destroy.                         *)
LEMMA LifecycleStep ==
    ASSUME TypeShape, CountersExact, Lifecycle, [Next]_vars
    PROVE  Lifecycle'
<1> USE DEF Lifecycle, Destroying, Stopped, TypeShape, list, counts, conds,
        workers, callers
<1>1. ASSUME NEW w \in Workers, CreateThread(w) PROVE Lifecycle'
    BY <1>1 DEF CreateThread
<1>2. CASE CreateReturns
    BY <1>2 DEF CreateReturns
<1>3. ASSUME NEW c \in Callers, NEW x \in Work, AddWork(c, x) PROVE Lifecycle'
    BY <1>3 DEF AddWork, Enqueue, BroadcastWork
<1>4. ASSUME NEW w \in Workers, WorkerSleep(w) PROVE Lifecycle'
    BY <1>4 DEF WorkerSleep, AtLoop
<1>5. ASSUME NEW w \in Workers, WorkerExit(w) PROVE Lifecycle'
  <2>1. thread_cnt # 0
      BY <1>5, NoThreadLeft DEF WorkerExit, AtLoop
  <2>2. QED
      BY <1>5, <2>1 DEF WorkerExit, AtLoop, SignalWorking
<1>6. ASSUME NEW w \in Workers, WorkerTake(w) PROVE Lifecycle'
    BY <1>6 DEF WorkerTake, AtLoop
<1>7. ASSUME NEW w \in Workers, WorkerRun(w) PROVE Lifecycle'
    BY <1>7 DEF WorkerRun
<1>8. ASSUME NEW w \in Workers, WorkerFinish(w) PROVE Lifecycle'
    BY <1>8 DEF WorkerFinish, SignalWorking
<1>9. CASE SpuriousWake
    BY <1>9 DEF SpuriousWake
<1>10. ASSUME NEW c \in Callers, WaitCall(c) PROVE Lifecycle'
    BY <1>10 DEF WaitCall, Usable
<1>11. ASSUME NEW c \in Callers, WaitBlock(c) PROVE Lifecycle'
    BY <1>11 DEF WaitBlock, InWait
<1>12. ASSUME NEW c \in Callers, WaitReturn(c) PROVE Lifecycle'
    BY <1>12 DEF WaitReturn, InWait, Busy, CallerStates
<1>13. ASSUME NEW c \in Callers, DestroyCall(c) PROVE Lifecycle'
    BY <1>13 DEF DestroyCall
<1>14. ASSUME NEW c \in Callers, DestroyFreeNode(c) PROVE Lifecycle'
    BY <1>14 DEF DestroyFreeNode
<1>15. ASSUME NEW c \in Callers, DestroyStop(c) PROVE Lifecycle'
    BY <1>15 DEF DestroyStop, BroadcastWork
<1>16. ASSUME NEW c \in Callers, DestroyFree(c) PROVE Lifecycle'
    BY <1>16 DEF DestroyFree
<1>17. CASE UNCHANGED vars
    BY <1>17 DEF vars
<1>18. QED
    BY <1>1, <1>2, <1>3, <1>4, <1>5, <1>6, <1>7, <1>8, <1>9, <1>10, <1>11,
       <1>12, <1>13, <1>14, <1>15, <1>16, <1>17
    DEF Next, WorkerStep, CallerCall, CallerStep, Terminated

-----------------------------------------------------------------------------
(* Linking a node that is not allocated keeps the list a list.             *)
LEMMA EnqueueShape ==
    ASSUME TypeShape, ListShape, Ownership, MutexFree, ~stop,
           NEW x \in Work, Enqueue(x), UNCHANGED <<stop, caller_pc, cursor>>
    PROVE  ListShape'
<1> DEFINE n == Len(fifo)
<1>1. n \in Nat /\ fifo \in Seq(Work) /\ (fifo = <<>> <=> n = 0)
    BY DEF TypeShape
<1>2. /\ Len(fifo') = n + 1
      /\ fifo' # <<>>
      /\ \A i \in 1..n : fifo'[i] = fifo[i]
      /\ fifo'[n + 1] = x
    BY <1>1 DEF Enqueue
<1>3. \A i \in 1..n : fifo[i] # x /\ fifo[i] \in Work
    BY <1>1 DEF Enqueue, Ownership, Queued
<1>4. \A i, j \in 1..n + 1 : fifo'[i] = fifo'[j] => i = j
  <2>1. SUFFICES ASSUME NEW i \in 1..n + 1, NEW j \in 1..n + 1,
                        fifo'[i] = fifo'[j], i # j
                 PROVE  FALSE
      OBVIOUS
  <2>2. CASE i \in 1..n /\ j \in 1..n
      BY <1>1, <1>2, <2>1, <2>2 DEF ListShape
  <2>3. CASE i = n + 1 \/ j = n + 1
      BY <1>1, <1>2, <1>3, <2>1, <2>3
  <2>4. QED
      BY <1>1, <2>2, <2>3
<1>5. MutexFree' /\ ~stop'
    BY DEF MutexFree
<1>6. /\ work_first' = fifo'[1]
      /\ work_last' = fifo'[n + 1]
  <2>1. CASE n = 0
      BY <1>1, <1>2, <2>1 DEF Enqueue, ListShape
  <2>2. CASE n > 0
    <3>1. work_first = fifo[1] /\ work_first # NULL
        BY <1>1, <1>3, <2>2, NullAssumption DEF ListShape
    <3>2. QED
        BY <1>1, <1>2, <2>2, <3>1 DEF Enqueue
  <2>3. QED
      BY <1>1, <2>1, <2>2
<1>7. next'[x] = NULL
  <2>1. CASE work_first = NULL
      BY <2>1 DEF Enqueue, TypeShape
  <2>2. CASE work_first # NULL
    <3>1. work_last = fifo[n] /\ n > 0
        BY <1>1, <2>2 DEF ListShape
    <3>2. work_last # x
        BY <1>1, <1>3, <3>1
    <3>3. QED
        BY <2>2, <3>2 DEF Enqueue, TypeShape
  <2>3. QED
      BY <2>1, <2>2
<1>8. ASSUME NEW i \in 1..n PROVE next'[fifo[i]] = fifo'[i + 1]
  <2>1. work_first # NULL /\ work_last = fifo[n]
      BY <1>1, <1>3, NullAssumption DEF ListShape
  <2>2. next' = [next EXCEPT ![x] = NULL, ![work_last] = x]
      BY <2>1 DEF Enqueue
  <2>3. CASE i = n
      BY <1>1, <1>2, <1>3, <2>1, <2>2, <2>3 DEF TypeShape
  <2>4. CASE i # n
    <3>1. fifo[i] # fifo[n] /\ i + 1 \in 1..n
        BY <1>1, <2>4 DEF ListShape
    <3>2. next'[fifo[i]] = next[fifo[i]]
        BY <1>3, <2>1, <2>2, <3>1 DEF TypeShape
    <3>3. next[fifo[i]] = fifo[i + 1]
        BY <1>1, <2>4 DEF ListShape
    <3>4. QED
        BY <1>2, <3>1, <3>2, <3>3
  <2>5. QED
      BY <2>3, <2>4
<1>9. \A i \in 1..n + 1 :
          next'[fifo'[i]] = IF i = n + 1 THEN NULL ELSE fifo'[i + 1]
  <2>1. ASSUME NEW i \in 1..n + 1
        PROVE  next'[fifo'[i]] = IF i = n + 1 THEN NULL ELSE fifo'[i + 1]
    <3>1. CASE i = n + 1
        BY <1>2, <1>7, <3>1
    <3>2. CASE i # n + 1
      <4>1. i \in 1..n
          BY <1>1, <3>2
      <4>2. QED
          BY <1>2, <1>8, <3>2, <4>1
    <3>3. QED
        BY <3>1, <3>2
  <2>2. QED
      BY <2>1
<1>10. QED
    BY <1>2, <1>4, <1>5, <1>6, <1>9 DEF ListShape

(* A sequence of distinct nodes that the pointers nx link in its order.    *)
Chain(s, nx) ==
    /\ \A i, j \in 1..Len(s) : s[i] = s[j] => i = j
    /\ \A i \in 1..Len(s) : nx[s[i]] = IF i = Len(s) THEN NULL ELSE s[i + 1]

(* Dropping the head of a chain leaves a chain.                            *)
LEMMA TailChain ==
    ASSUME NEW s \in Seq(Work), NEW nx, Chain(s, nx), s # <<>>
    PROVE  /\ Chain(Tail(s), nx)
           /\ nx[s[1]] = IF Tail(s) = <<>> THEN NULL ELSE Tail(s)[1]
           /\ Tail(s) # <<>> => Tail(s)[Len(Tail(s))] = s[Len(s)]
<1> DEFINE t == Tail(s)
<1>1. /\ t \in Seq(Work) /\ Len(s) \in Nat /\ Len(s) >= 1
      /\ Len(t) = Len(s) - 1
      /\ \A i \in 1..Len(t) : t[i] = s[i + 1]
    BY HeadTailProperties
<1>2. t = <<>> <=> Len(t) = 0
    BY <1>1, EmptySeq
<1> HIDE DEF t
<1>3. \A i \in 1..Len(t) : i + 1 \in 1..Len(s)
    BY <1>1
<1>4. ASSUME NEW i \in 1..Len(t), NEW j \in 1..Len(t), t[i] = t[j] PROVE i = j
  <2>1. s[i + 1] = s[j + 1]
      BY <1>1, <1>4
  <2>2. i + 1 = j + 1
      BY <1>3, <2>1 DEF Chain
  <2>3. QED
      BY <1>1, <2>2
<1>5. ASSUME NEW i \in 1..Len(t)
      PROVE  nx[t[i]] = IF i = Len(t) THEN NULL ELSE t[i + 1]
  <2>1. nx[s[i + 1]] = IF i + 1 = Len(s) THEN NULL ELSE s[i + 1 + 1]
      BY <1>3 DEF Chain
  <2>2. i # Len(t) => i + 1 \in 1..Len(t)
      BY <1>1
  <2>3. i + 1 = Len(s) <=> i = Len(t)
      BY <1>1
  <2>4. QED
      BY <1>1, <2>1, <2>2, <2>3
<1>6. nx[s[1]] = IF t = <<>> THEN NULL ELSE t[1]
  <2>1. nx[s[1]] = IF 1 = Len(s) THEN NULL ELSE s[1 + 1]
      BY <1>1 DEF Chain
  <2>2. CASE t = <<>>
      BY <1>1, <1>2, <2>1, <2>2
  <2>3. CASE t # <<>>
    <3>1. Len(t) >= 1 /\ Len(s) # 1 /\ 1 \in 1..Len(t)
        BY <1>1, <1>2, <2>3
    <3>2. QED
        BY <1>1, <2>1, <2>3, <3>1
  <2>4. QED
      BY <2>2, <2>3
<1>7. t # <<>> => t[Len(t)] = s[Len(s)]
  <2>1. SUFFICES ASSUME t # <<>> PROVE t[Len(t)] = s[Len(s)]
      OBVIOUS
  <2>2. Len(t) \in 1..Len(t) /\ Len(t) + 1 = Len(s)
      BY <1>1, <1>2, <2>1
  <2>3. QED
      BY <1>1, <2>2
<1>8. Chain(t, nx)
    BY <1>4, <1>5 DEF Chain
<1>9. QED
    BY <1>6, <1>7, <1>8 DEF t

(* What TailChain says of the list when a step takes its head.             *)
LEMMA TailShape ==
    ASSUME TypeShape, ListShape, fifo # <<>>, fifo' = Tail(fifo), next' = next
    PROVE  /\ Chain(fifo', next')
           /\ next[fifo[1]] = IF fifo' = <<>> THEN NULL ELSE fifo'[1]
           /\ fifo' # <<>> => fifo'[Len(fifo')] = fifo[Len(fifo)]
<1>1. Chain(fifo, next)
    BY DEF ListShape, Chain
<1>2. fifo \in Seq(Work)
    BY DEF TypeShape
<1>3. QED
    BY <1>1, <1>2, TailChain

(* At the start the list is empty.                                         *)
LEMMA InitList == Init => ListShape
    BY DEF Init, ListShape, MutexFree

(* Every step keeps the list a list.                                       *)
LEMMA ListStep ==
    ASSUME TypeShape, Lifecycle, ListShape, Ownership, [Next]_vars
    PROVE  ListShape'
<1> USE DEF list, counts, conds, workers, callers
<1>1. CASE UNCHANGED <<fifo, next, work_first, work_last, stop, cursor, MutexFree>>
    BY <1>1 DEF ListShape
<1>2. ASSUME NEW c \in Callers, NEW x \in Work, AddWork(c, x) PROVE ListShape'
  <2>1. MutexFree /\ ~stop
      BY <1>2 DEF AddWork, Usable, MutexFree, Lifecycle, Stopped, TypeShape
  <2>2. QED
      BY <1>2, <2>1, EnqueueShape DEF AddWork
<1>3. ASSUME NEW w \in Workers, WorkerTake(w) PROVE ListShape'
  <2>1. /\ fifo # <<>> /\ work_first = fifo[1] /\ work_last = fifo[Len(fifo)]
        /\ MutexFree /\ ~stop
      BY <1>3 DEF WorkerTake, AtLoop, ListShape
  <2>2. fifo' = Tail(fifo) /\ next' = next /\ MutexFree' /\ ~stop'
      BY <1>3, <2>1 DEF WithoutFirst, WorkerTake, Dequeue, MutexFree
  <2>3. fifo \in Seq(Work) /\ fifo' \in Seq(Work)
      BY <2>1, <2>2 DEF TypeShape
  <2>4. fifo' # <<>> => fifo'[1] # NULL
      BY <2>3, NullAssumption
  <2>5. /\ work_first' = IF fifo' = <<>> THEN NULL ELSE fifo'[1]
        /\ work_last' = IF fifo' = <<>> THEN NULL ELSE fifo'[Len(fifo')]
      BY <1>3, <2>1, <2>2, <2>4, TailShape DEF WorkerTake, Dequeue
  <2>6. QED
      BY <2>1, <2>2, <2>5, TailShape DEF ListShape, Chain
<1>4. ASSUME NEW c \in Callers, DestroyCall(c) PROVE ListShape'
  <2>1. MutexFree /\ ~stop /\ ~MutexFree'
      BY <1>4 DEF DestroyCall, MutexFree, Lifecycle, Stopped, TypeShape
  <2>2. QED
      BY <1>4, <2>1 DEF DestroyCall, ListShape
<1>5. ASSUME NEW c \in Callers, DestroyFreeNode(c) PROVE ListShape'
  <2>1. fifo # <<>> /\ cursor = fifo[1] /\ ~stop
      BY <1>5 DEF DestroyFreeNode, ListShape, MutexFree
  <2>2. fifo' = Tail(fifo) /\ next' = next /\ ~MutexFree' /\ ~stop'
      BY <1>5, <2>1 DEF WithoutFirst, DestroyFreeNode, MutexFree
  <2>3. QED
      BY <1>5, <2>1, <2>2, TailShape DEF DestroyFreeNode, ListShape, Chain
<1>6. ASSUME NEW c \in Callers, DestroyStop(c) PROVE ListShape'
  <2>1. fifo = <<>>
    <3>1. ~MutexFree /\ cursor = NULL
        BY <1>6 DEF DestroyStop, MutexFree
    <3>2. fifo # <<>> => fifo[1] # NULL
        BY NullAssumption DEF TypeShape
    <3>3. QED
        BY <3>1, <3>2 DEF ListShape
  <2>2. MutexFree' /\ stop' /\ fifo' = <<>>
      BY <1>6, <2>1 DEF DestroyStop, MutexFree, Lifecycle, Destroying, TypeShape
  <2>3. QED
      BY <2>2 DEF ListShape
<1>7. ASSUME NEW c \in Callers, \/ WaitCall(c) \/ WaitReturn(c) \/ DestroyFree(c)
      PROVE  ListShape'
  <2>1. MutexFree' = MutexFree
      BY <1>7 DEF WaitCall, WaitReturn, DestroyFree, InWait, Usable, MutexFree,
                  TypeShape
  <2>2. QED
      BY <1>1, <1>7, <2>1 DEF WaitCall, WaitReturn, DestroyFree
<1>8. QED
    BY <1>1, <1>2, <1>3, <1>4, <1>5, <1>6, <1>7
    DEF Next, WorkerStep, CallerCall, CallerStep, Terminated, vars, MutexFree,
        CreateThread, CreateReturns, WorkerSleep, WorkerExit, WorkerRun,
        WorkerFinish, SpuriousWake, WaitBlock

-----------------------------------------------------------------------------
Elements(s) == {s[i] : i \in DOMAIN s}

(* Appending to a list adds the node to its elements.                      *)
LEMMA ElementsAppend ==
    ASSUME NEW s \in Seq(Work), NEW x \in Work
    PROVE  Elements(Append(s, x)) = Elements(s) \cup {x}
<1> DEFINE t == Append(s, x)
<1>1. /\ t \in Seq(Work) /\ Len(s) \in Nat /\ Len(t) = Len(s) + 1
      /\ \A i \in 1..Len(s) : t[i] = s[i]
      /\ t[Len(s) + 1] = x
    BY AppendProperties, LenProperties
<1> HIDE DEF t
<1>2. DOMAIN s = 1..Len(s) /\ DOMAIN t = 1..Len(s) + 1
    BY <1>1, LenProperties
<1>3. ASSUME NEW e \in Elements(t) PROVE e \in Elements(s) \cup {x}
  <2>1. PICK i \in 1..Len(s) + 1 : e = t[i]
      BY <1>2 DEF Elements
  <2>2. CASE i = Len(s) + 1
      BY <1>1, <2>1, <2>2
  <2>3. CASE i # Len(s) + 1
    <3>1. i \in 1..Len(s)
        BY <1>1, <2>3
    <3>2. QED
        BY <1>1, <1>2, <2>1, <3>1 DEF Elements
  <2>4. QED
      BY <2>2, <2>3
<1>4. ASSUME NEW e \in Elements(s) PROVE e \in Elements(t)
  <2>1. PICK i \in 1..Len(s) : e = s[i]
      BY <1>2 DEF Elements
  <2>2. i \in 1..Len(s) + 1 /\ e = t[i]
      BY <1>1, <2>1
  <2>3. QED
      BY <1>2, <2>2 DEF Elements
<1>5. x \in Elements(t)
  <2>1. Len(s) + 1 \in DOMAIN t
      BY <1>1, <1>2
  <2>2. QED
      BY <1>1, <2>1 DEF Elements
<1>6. QED
    BY <1>3, <1>4, <1>5 DEF t

(* Dropping the head of a chain takes exactly the head off its elements.   *)
LEMMA ElementsTail ==
    ASSUME NEW s \in Seq(Work), NEW nx, Chain(s, nx), s # <<>>
    PROVE  /\ Elements(Tail(s)) = Elements(s) \ {s[1]}
           /\ s[1] \in Elements(s)
<1> DEFINE t == Tail(s)
<1>1. /\ t \in Seq(Work) /\ Len(s) \in Nat /\ Len(s) >= 1
      /\ Len(t) = Len(s) - 1
      /\ \A i \in 1..Len(t) : t[i] = s[i + 1]
    BY HeadTailProperties
<1>2. DOMAIN s = 1..Len(s) /\ DOMAIN t = 1..Len(t)
    BY <1>1, LenProperties
<1> HIDE DEF t
<1>3. ASSUME NEW e \in Elements(t) PROVE e \in Elements(s) \ {s[1]}
  <2>1. PICK i \in 1..Len(t) : e = t[i]
      BY <1>2 DEF Elements
  <2>2. i + 1 \in 1..Len(s) /\ 1 \in 1..Len(s) /\ i + 1 # 1 /\ e = s[i + 1]
      BY <1>1, <2>1
  <2>3. s[i + 1] # s[1]
      BY <2>2 DEF Chain
  <2>4. QED
      BY <1>2, <2>2, <2>3 DEF Elements
<1>4. ASSUME NEW e \in Elements(s), e # s[1] PROVE e \in Elements(t)
  <2>1. PICK i \in 1..Len(s) : e = s[i]
      BY <1>2 DEF Elements
  <2>2. i # 1
      BY <1>4, <2>1
  <2>3. i - 1 \in 1..Len(t) /\ e = t[i - 1]
      BY <1>1, <2>1, <2>2
  <2>4. QED
      BY <1>2, <2>3 DEF Elements
<1>5. s[1] \in Elements(s)
    BY <1>1, <1>2 DEF Elements
<1>6. QED
    BY <1>3, <1>4, <1>5 DEF t

(* At the start nothing is allocated.                                      *)
LEMMA InitOwnership == Init => Ownership
<1> SUFFICES ASSUME Init PROVE Ownership
    OBVIOUS
<1>1. Queued = {} /\ Running = {}
    BY DEF Init, Queued, Running, HeldBy
<1>2. QED
    BY <1>1 DEF Init, Ownership, HeldBy

(* Every step hands each node on to one owner.                             *)
LEMMA OwnershipStep ==
    ASSUME TypeShape, Lifecycle, ListShape, Ownership, [Next]_vars
    PROVE  Ownership'
<1> USE DEF list, counts, conds, workers, callers
<1>0. /\ fifo \in Seq(Work)
      /\ Chain(fifo, next)
      /\ Queued = Elements(fifo)
      /\ Queued' = Elements(fifo')
      /\ allocated \subseteq Work
    BY DEF TypeShape, ListShape, Chain, Queued, Elements
<1>1. CASE /\ UNCHANGED <<fifo, allocated, p_work>>
           /\ \A w \in Workers : HeldBy(w)' <=> HeldBy(w)
  <2>1. Running' = Running /\ Queued' = Queued
      BY <1>1 DEF Running, Queued
  <2>2. QED
      BY <1>1, <2>1 DEF Ownership
<1>2. ASSUME NEW c \in Callers, NEW x \in Work, AddWork(c, x) PROVE Ownership'
  <2>1. Queued' = Queued \cup {x} /\ allocated' = allocated \cup {x}
        /\ x \notin allocated
      BY <1>0, <1>2, ElementsAppend DEF AddWork, Enqueue
  <2>2. Running' = Running /\ UNCHANGED <<worker_pc, p_work>>
      BY <1>2 DEF AddWork, Running, HeldBy
  <2>3. QED
      BY <2>1, <2>2 DEF Ownership, HeldBy
<1>3. ASSUME NEW w \in Workers, WorkerTake(w) PROVE Ownership'
  <2>1. fifo # <<>> /\ work_first = fifo[1]
      BY <1>3 DEF WorkerTake, AtLoop, ListShape
  <2>2. Queued' = Queued \ {work_first} /\ work_first \in Queued
      BY <1>0, <1>3, <2>1, ElementsTail DEF WithoutFirst, WorkerTake, Dequeue
  <2>3. /\ ~HeldBy(w) /\ HeldBy(w)' /\ p_work'[w] = work_first
        /\ \A v \in Workers \ {w} : (HeldBy(v)' <=> HeldBy(v)) /\ p_work'[v] = p_work[v]
      BY <1>3 DEF WorkerTake, AtLoop, HeldBy, TypeShape
  <2>4. Running' = Running \cup {work_first}
      BY <2>3 DEF Running
  <2>5. allocated' = allocated
      BY <1>3 DEF WorkerTake, Dequeue
  <2>6. \A v \in Workers : HeldBy(v) => p_work[v] # work_first
      BY <2>2 DEF Ownership, Running
  <2>7. QED
      BY <2>2, <2>3, <2>4, <2>5, <2>6 DEF Ownership
<1>4. ASSUME NEW w \in Workers, WorkerRun(w) PROVE Ownership'
  <2>1. /\ HeldBy(w) /\ ~HeldBy(w)'
        /\ \A v \in Workers \ {w} : (HeldBy(v)' <=> HeldBy(v)) /\ p_work'[v] = p_work[v]
      BY <1>4 DEF WorkerRun, HeldBy, TypeShape
  <2>2. Running' = Running \ {p_work[w]} /\ p_work[w] \in Running
      BY <2>1 DEF Running, Ownership
  <2>3. Queued' = Queued /\ allocated' = allocated \ {p_work[w]}
      BY <1>4 DEF WorkerRun, Queued
  <2>4. QED
      BY <2>1, <2>2, <2>3 DEF Ownership
<1>5. ASSUME NEW c \in Callers, DestroyFreeNode(c) PROVE Ownership'
  <2>1. fifo # <<>> /\ cursor = fifo[1]
      BY <1>5 DEF DestroyFreeNode, ListShape, MutexFree
  <2>2. Queued' = Queued \ {cursor} /\ cursor \in Queued
      BY <1>0, <1>5, <2>1, ElementsTail DEF WithoutFirst, DestroyFreeNode
  <2>3. /\ allocated' = allocated \ {cursor} /\ Running' = Running
        /\ UNCHANGED <<worker_pc, p_work>>
      BY <1>5 DEF DestroyFreeNode, Running, HeldBy
  <2>4. QED
      BY <2>2, <2>3 DEF Ownership, HeldBy
<1>6. ASSUME NEW w \in Workers, CreateThread(w) \/ WorkerExit(w) \/ WorkerFinish(w)
      PROVE  Ownership'
  <2>1. \A v \in Workers : HeldBy(v)' <=> HeldBy(v)
      BY <1>6 DEF CreateThread, WorkerExit, WorkerFinish, AtLoop, HeldBy, TypeShape
  <2>2. QED
      BY <1>1, <1>6, <2>1 DEF CreateThread, WorkerExit, WorkerFinish
<1>7. QED
    BY <1>1, <1>2, <1>3, <1>4, <1>5, <1>6
    DEF Next, WorkerStep, CallerCall, CallerStep, Terminated, vars, HeldBy,
        CreateReturns, WorkerSleep, SpuriousWake, WaitCall, WaitBlock,
        WaitReturn, DestroyCall, DestroyStop, DestroyFree

-----------------------------------------------------------------------------
(* At the start no worker sleeps.                                          *)
LEMMA InitSleepers == Init => NoSleeperMissesWork
    BY DEF Init, NoSleeperMissesWork

(* A worker goes to sleep over an empty list only, and both the list's     *)
(* filling and the stop request wake everyone.                             *)
LEMMA SleepersStep ==
    ASSUME TypeShape, ListShape, NoSleeperMissesWork, [Next]_vars
    PROVE  NoSleeperMissesWork'
<1> USE DEF NoSleeperMissesWork, list, counts, conds, workers, callers
<1>1. CASE UNCHANGED <<work_first, stop, work_cond>>
    BY <1>1
<1>2. ASSUME NEW c \in Callers, NEW x \in Work, AddWork(c, x)
      PROVE  NoSleeperMissesWork'
    BY <1>2 DEF AddWork, BroadcastWork
<1>3. ASSUME NEW w \in Workers, WorkerSleep(w) PROVE NoSleeperMissesWork'
    BY <1>3 DEF WorkerSleep
<1>4. ASSUME NEW w \in Workers, WorkerTake(w) PROVE NoSleeperMissesWork'
    BY <1>4 DEF WorkerTake
<1>5. CASE SpuriousWake
    BY <1>5 DEF SpuriousWake
<1>6. ASSUME NEW c \in Callers, DestroyStop(c) PROVE NoSleeperMissesWork'
    BY <1>6 DEF DestroyStop, BroadcastWork
<1>7. QED
    BY <1>1, <1>2, <1>3, <1>4, <1>5, <1>6
    DEF Next, WorkerStep, CallerCall, CallerStep, Terminated, vars,
        CreateThread, CreateReturns, WorkerExit, WorkerRun, WorkerFinish,
        WaitCall, WaitBlock, WaitReturn, DestroyCall, DestroyFreeNode, DestroyFree

-----------------------------------------------------------------------------
(* IInv is inductive.                                                      *)
THEOREM Invariance == Spec => []IInv
<1>1. Init => IInv
    BY InitShape, InitCounters, InitLifecycle, InitList, InitOwnership,
       InitSleepers
    DEF IInv
<1>2. IInv /\ [Next]_vars => IInv'
  <2> SUFFICES ASSUME IInv, [Next]_vars PROVE IInv'
      OBVIOUS
  <2>1. /\ TypeShape /\ CountersExact /\ Lifecycle /\ ListShape /\ Ownership
        /\ NoSleeperMissesWork
      BY DEF IInv
  <2>2. TypeShape' /\ CountersExact' /\ Lifecycle'
      BY <2>1, ShapeStep, CountersStep, LifecycleStep
  <2>3. ListShape' /\ Ownership' /\ NoSleeperMissesWork'
      BY <2>1, ListStep, OwnershipStep, SleepersStep
  <2>4. QED
      BY <2>2, <2>3 DEF IInv
<1>3. QED
    BY <1>1, <1>2, PTL DEF Spec

(* Every variable keeps its type; the counters stay in 0..Cardinality of   *)
(* Workers, so their size_t arithmetic never wraps.                        *)
THEOREM TypeCorrect == Spec => []TypeOK
<1>1. IInv => TypeOK
    BY CountedSets DEF IInv, TypeShape, TypeOK, CountersExact
<1>2. QED
    BY <1>1, Invariance, PTL

(* working_cnt and thread_cnt count exactly what they are read for.        *)
THEOREM CountersCorrect == Spec => []CountersExact
<1>1. IInv => CountersExact
    BY DEF IInv
<1>2. QED
    BY <1>1, Invariance, PTL

(* tpool_destroy runs alone, a worker leaves only after stop, and the pool *)
(* goes only after every worker.                                           *)
THEOREM LifecycleCorrect == Spec => []Lifecycle
<1>1. IInv => Lifecycle
    BY DEF IInv
<1>2. QED
    BY Invariance, <1>1, PTL

(* The pointers of the list are those of the sequence of submissions, also *)
(* while tpool_destroy walks it.                                           *)
THEOREM ListCorrect == Spec => []ListShape
<1>1. IInv => ListShape
    BY DEF IInv
<1>2. QED
    BY <1>1, Invariance, PTL

(* No node is freed twice, used after its free, run twice or leaked.       *)
THEOREM OwnershipCorrect == Spec => []Ownership
<1>1. IInv => Ownership
    BY DEF IInv
<1>2. QED
    BY <1>1, Invariance, PTL

(* The broadcasts on work_cond lose no wakeup.                             *)
THEOREM NoWakeupLost == Spec => []NoSleeperMissesWork
<1>1. IInv => NoSleeperMissesWork
    BY DEF IInv
<1>2. QED
    BY <1>1, Invariance, PTL

(* tpool_destroy destroys the mutex and the conditions, and frees the pool,*)
(* when no thread can touch them any more and nothing is leaked.           *)
THEOREM DestroyCorrect == Spec => []DestroyedQuiescent
<1>1. IInv => DestroyedQuiescent
  <2> SUFFICES ASSUME IInv, NEW c \in Callers, caller_pc[c] \in {"joined", "gone"}
               PROVE  /\ \A w \in Workers : worker_pc[w] = "exited"
                      /\ work_cond = {}
                      /\ working_cond = {}
                      /\ allocated = {}
      BY DEF DestroyedQuiescent
  <2>1. TypeShape /\ CountersExact /\ Lifecycle /\ ListShape /\ Ownership
      BY DEF IInv
  <2>2. \A w \in Workers : worker_pc[w] = "exited"
      BY <2>1, NoThreadLeft DEF Lifecycle
  <2>3. work_cond = {}
      BY <2>1, <2>2 DEF Lifecycle, TypeShape
  <2>4. working_cond = {}
      BY <2>1 DEF Lifecycle, Destroying, TypeShape
  <2>5. fifo = <<>>
      BY <2>1 DEF Lifecycle, Stopped, ListShape
  <2>6. Queued = {} /\ Running = {}
      BY <2>2, <2>5 DEF Queued, Running, HeldBy
  <2>7. QED
      BY <2>1, <2>2, <2>3, <2>4, <2>6 DEF Ownership
<1>2. QED
    BY <1>1, Invariance, PTL

(* tpool_wait returns to the program only in a state without a running job.*)
THEOREM WaitCorrect == Spec => WaitMeansIdle
<1>1. IInv /\ [Next]_vars =>
         [\A c \in Callers : WaitReturnsOf(c) => Running = {}]_vars
  <2> SUFFICES ASSUME IInv, Next, NEW c \in Callers, WaitReturnsOf(c)
               PROVE  Running = {}
      OBVIOUS
  <2>1. TypeShape /\ CountersExact /\ Lifecycle
      BY DEF IInv
  <2>2. caller_pc' # caller_pc /\ caller_pc[c] = "wait" /\ caller_pc'[c] = "ready"
      BY DEF WaitReturnsOf
  <2>3. PICK d \in Callers : \/ WaitCall(d) \/ WaitReturn(d) \/ DestroyCall(d)
                             \/ DestroyStop(d) \/ DestroyFree(d)
      BY <2>2 DEF Next, WorkerStep, CallerCall, CallerStep, Terminated, vars,
         callers, CreateThread, CreateReturns, AddWork, WorkerSleep, WorkerExit,
         WorkerTake, WorkerRun, WorkerFinish, SpuriousWake, WaitBlock,
         DestroyFreeNode
  <2>4. WaitReturn(c)
      BY <2>1, <2>2, <2>3
      DEF WaitCall, WaitReturn, DestroyCall, DestroyStop, DestroyFree, TypeShape
  <2>5. ~stop
      BY <2>1, <2>2 DEF Lifecycle, Destroying, Stopped
  <2>6. working_cnt = 0
      BY <2>4, <2>5 DEF WaitReturn, Busy
  <2>7. AtWork = {}
      BY <2>1, <2>6, CountedSets, FS_EmptySet DEF CountersExact
  <2>8. QED
      BY <2>7 DEF Running, HeldBy, AtWork
<1>2. QED
    BY <1>1, Invariance, PTL DEF Spec, WaitMeansIdle

-----------------------------------------------------------------------------
(* The pool starts as an open service with nothing queued or running.      *)
LEMMA InitRefines == Init => Jobs!Init
<1> SUFFICES ASSUME Init PROVE Jobs!Init
    OBVIOUS
<1>1. Running = {}
    BY DEF Init, Running, HeldBy
<1>2. Phase = "open"
    BY DEF Init, Phase, Closing
<1>3. QED
    BY <1>1, <1>2 DEF Init, Jobs!Init

(* Every step of the pool is a step of the service or none.                *)
LEMMA StepRefines ==
    ASSUME IInv, [Next]_vars
    PROVE  [Jobs!Next]_<<fifo, Running, Phase>>
<1> USE DEF list, counts, conds, workers, callers
<1>0. TypeShape /\ CountersExact /\ Lifecycle /\ ListShape /\ Ownership
    BY DEF IInv
<1>1. /\ fifo \in Seq(Work)
      /\ Chain(fifo, next)
      /\ Queued = Elements(fifo)
      /\ Jobs!Queued = Queued
    BY <1>0 DEF TypeShape, ListShape, Chain, Queued, Elements, Jobs!Queued
<1>2. ASSUME UNCHANGED <<fifo, worker_pc, p_work, pool, caller_pc>>
      PROVE  UNCHANGED <<fifo, Running, Phase>>
    BY <1>2 DEF Running, HeldBy, Phase, Closing
<1>3. ASSUME NEW c \in Callers, NEW x \in Work, AddWork(c, x) PROVE Jobs!Submit(x)
  <2>1. Phase = "open"
      BY <1>3 DEF AddWork, Usable, Phase, Closing
  <2>2. Phase' = Phase /\ Running' = Running
      BY <1>3 DEF AddWork, Phase, Closing, Running, HeldBy
  <2>3. x \notin Queued \cup Running
      BY <1>0, <1>3 DEF AddWork, Enqueue, Ownership
  <2>4. QED
      BY <1>1, <1>3, <2>1, <2>2, <2>3 DEF AddWork, Enqueue, Jobs!Submit
<1>4. ASSUME NEW w \in Workers, WorkerTake(w) PROVE Jobs!Start
  <2>1. fifo # <<>> /\ work_first = fifo[1]
      BY <1>0, <1>4 DEF WorkerTake, AtLoop, ListShape
  <2>2. Phase = "open"
      BY <1>0, <1>4 DEF WorkerTake, AtLoop, MutexFree, Lifecycle, Stopped,
         Phase, Closing
  <2>3. Phase' = Phase
      BY <1>4 DEF WorkerTake, Phase, Closing
  <2>4. /\ ~HeldBy(w) /\ HeldBy(w)' /\ p_work'[w] = work_first
        /\ \A v \in Workers \ {w} : (HeldBy(v)' <=> HeldBy(v)) /\ p_work'[v] = p_work[v]
      BY <1>0, <1>4 DEF WorkerTake, AtLoop, HeldBy, TypeShape
  <2>5. Running' = Running \cup {work_first}
      BY <2>4 DEF Running
  <2>6. QED
      BY <1>1, <1>4, <2>1, <2>2, <2>3, <2>5 DEF WithoutFirst, WorkerTake, Dequeue, Jobs!Start
<1>5. ASSUME NEW w \in Workers, WorkerRun(w)
      PROVE  p_work[w] \in Work /\ Jobs!Complete(p_work[w])
  <2>1. /\ HeldBy(w) /\ ~HeldBy(w)'
        /\ \A v \in Workers \ {w} : (HeldBy(v)' <=> HeldBy(v)) /\ p_work'[v] = p_work[v]
      BY <1>0, <1>5 DEF WorkerRun, HeldBy, TypeShape
  <2>2. Running' = Running \ {p_work[w]} /\ p_work[w] \in Running
      BY <1>0, <2>1 DEF Running, Ownership
  <2>3. p_work[w] \in Work
      BY <1>0, <2>2 DEF Ownership, TypeShape
  <2>4. Phase' = Phase
      BY <1>5 DEF WorkerRun, Phase, Closing
  <2>5. QED
      BY <1>5, <2>2, <2>3, <2>4 DEF WorkerRun, Jobs!Complete
<1>6. ASSUME NEW c \in Callers, DestroyCall(c) PROVE Jobs!BeginClose
  <2>1. Phase = "open" /\ Phase' = "closing"
      BY <1>0, <1>6 DEF DestroyCall, Phase, Closing, TypeShape
  <2>2. Running' = Running
      BY <1>6 DEF DestroyCall, Running, HeldBy
  <2>3. QED
      BY <1>6, <2>1, <2>2 DEF DestroyCall, Jobs!BeginClose
<1>7. ASSUME NEW c \in Callers, DestroyFreeNode(c) PROVE Jobs!Discard
  <2>1. fifo # <<>>
      BY <1>0, <1>7 DEF DestroyFreeNode, ListShape, MutexFree
  <2>2. pool # "freed"
      BY <1>0, <1>7 DEF DestroyFreeNode, Lifecycle, Destroying
  <2>3. Phase = "closing" /\ Phase' = Phase /\ Running' = Running
      BY <1>7, <2>2 DEF DestroyFreeNode, Phase, Closing, Running, HeldBy
  <2>4. QED
      BY <1>7, <2>1, <2>3 DEF WithoutFirst, DestroyFreeNode, Jobs!Discard
<1>8. ASSUME NEW c \in Callers, DestroyFree(c) PROVE Jobs!EndClose
  <2>1. \A w \in Workers : worker_pc[w] = "exited"
      BY <1>0, <1>8, NoThreadLeft DEF DestroyFree, Lifecycle
  <2>2. Running = {} /\ Running' = Running
      BY <1>8, <2>1 DEF DestroyFree, Running, HeldBy
  <2>3. fifo = <<>>
      BY <1>0, <1>8 DEF DestroyFree, Lifecycle, Stopped, ListShape
  <2>4. pool # "freed"
      BY <1>0, <1>8 DEF DestroyFree, Lifecycle, Destroying
  <2>5. Phase = "closing" /\ Phase' = "closed"
      BY <1>8, <2>4 DEF DestroyFree, Phase, Closing
  <2>6. QED
      BY <1>8, <2>2, <2>3, <2>5 DEF DestroyFree, Jobs!EndClose
<1>9. ASSUME NEW w \in Workers, CreateThread(w) \/ WorkerExit(w) \/ WorkerFinish(w)
      PROVE  UNCHANGED <<fifo, Running, Phase>>
  <2>1. /\ UNCHANGED <<fifo, p_work, pool, caller_pc>>
        /\ \A v \in Workers : HeldBy(v)' <=> HeldBy(v)
      BY <1>0, <1>9 DEF CreateThread, WorkerExit, WorkerFinish, AtLoop, HeldBy,
                        TypeShape
  <2>2. Running' = Running /\ Phase' = Phase
      BY <2>1 DEF Running, Phase, Closing
  <2>3. QED
      BY <2>1, <2>2
<1>10. ASSUME NEW c \in Callers, WaitCall(c) \/ WaitReturn(c) \/ DestroyStop(c)
       PROVE  UNCHANGED <<fifo, Running, Phase>>
  <2>1. UNCHANGED <<fifo, p_work, pool, worker_pc>>
      BY <1>10 DEF WaitCall, WaitReturn, DestroyStop
  <2>2. Closing' = Closing
      BY <1>0, <1>10 DEF WaitCall, WaitReturn, DestroyStop, InWait, Closing,
                         TypeShape
  <2>3. QED
      BY <2>1, <2>2 DEF Running, HeldBy, Phase
<1>11. CASE CreateReturns
  <2>1. UNCHANGED <<fifo, p_work, caller_pc, worker_pc>>
      BY <1>11 DEF CreateReturns
  <2>2. Phase' = Phase
      BY <1>11, <2>1 DEF CreateReturns, Phase, Closing
  <2>3. QED
      BY <2>1, <2>2 DEF Running, HeldBy
<1>12. ASSUME \/ \E w \in Workers : WorkerSleep(w)
              \/ \E c \in Callers : WaitBlock(c)
              \/ SpuriousWake
              \/ UNCHANGED vars
       PROVE  UNCHANGED <<fifo, Running, Phase>>
    BY <1>2, <1>12 DEF WorkerSleep, WaitBlock, SpuriousWake, vars
<1>13. QED
    BY <1>3, <1>4, <1>5, <1>6, <1>7, <1>8, <1>9, <1>10, <1>11, <1>12
    DEF Next, WorkerStep, CallerCall, CallerStep, Terminated, Jobs!Next

(* The pool implements the service: jobs are started once each in the order*)
(* of submission, completed, or discarded by a close, and a close ends with*)
(* none queued and none running.                                           *)
THEOREM PoolImplementsService == Spec => ImplementsJobService
<1>1. IInv /\ [Next]_vars => [Jobs!Next]_<<fifo, Running, Phase>>
    BY StepRefines
<1>2. QED
    BY <1>1, InitRefines, Invariance, PTL
    DEF Spec, ImplementsJobService, Jobs!Spec, Jobs!jobVars

(* A lone caller is not left blocked on working_cond with nothing to come. *)
THEOREM LoneCallerNotStranded == Spec => []NoStrandedWaiter
<1>1. Init => NoStrandedWaiter
    BY DEF Init, NoStrandedWaiter
<1>2. IInv /\ NoStrandedWaiter /\ [Next]_vars => NoStrandedWaiter'
  <2> USE DEF list, counts, conds, workers, callers
  <2> SUFFICES ASSUME IInv, NoStrandedWaiter, [Next]_vars, OneCaller,
                      NEW b \in working_cond'
               PROVE  Busy' \/ (~stop' /\ work_first' # NULL)
      BY DEF NoStrandedWaiter
  <2>0. TypeShape /\ CountersExact /\ Lifecycle /\ ListShape
      BY DEF IInv
  <2>1. \A c, d \in Callers : c = d
      BY DEF OneCaller
  <2>2. ASSUME working_cond # {}, SignalWorking PROVE FALSE
    <3>1. working_cond' = {}
        BY <2>0, <2>1, <2>2 DEF SignalWorking, TypeShape
    <3>2. QED
        BY <3>1
  <2>3. ASSUME b \in working_cond PROVE Busy \/ (~stop /\ work_first # NULL)
      BY <2>3 DEF NoStrandedWaiter
  <2>4. CASE UNCHANGED <<stop, working_cnt, thread_cnt, work_first>>
             /\ working_cond' \subseteq working_cond
      BY <2>3, <2>4 DEF Busy
  <2>5. ASSUME NEW c \in Callers, NEW x \in Work, AddWork(c, x)
        PROVE  Busy' \/ (~stop' /\ work_first' # NULL)
      BY <2>0, <2>3, <2>5, NullAssumption DEF AddWork, Enqueue, Busy, TypeShape
  <2>6. ASSUME NEW w \in Workers, WorkerExit(w) PROVE FALSE
    <3>1. working_cond = {}
        BY <2>2, <2>6 DEF WorkerExit
    <3>2. QED
        BY <2>6, <3>1 DEF WorkerExit, SignalWorking
  <2>7. ASSUME NEW w \in Workers, WorkerTake(w) PROVE Busy'
    <3>1. working_cnt \in Nat
        BY <2>0, CountedSets DEF CountersExact
    <3>2. QED
        BY <2>7, <3>1 DEF WorkerTake, Busy
  <2>8. ASSUME NEW w \in Workers, WorkerFinish(w)
        PROVE  Busy' \/ (~stop' /\ work_first' # NULL)
    <3>1. CASE ~stop /\ working_cnt' = 0 /\ work_first = NULL
      <4>1. SignalWorking
          BY <2>8, <3>1 DEF WorkerFinish
      <4>2. working_cond = {}
          BY <2>2, <4>1
      <4>3. QED
          BY <4>1, <4>2 DEF SignalWorking
    <3>2. CASE ~(~stop /\ working_cnt' = 0 /\ work_first = NULL)
      <4>1. b \in working_cond
          BY <2>8, <3>2 DEF WorkerFinish
      <4>2. UNCHANGED <<stop, thread_cnt, work_first>>
          BY <2>8 DEF WorkerFinish
      <4>3. QED
          BY <2>0, <2>3, <3>2, <4>1, <4>2 DEF Busy, TypeShape
    <3>3. QED
        BY <3>1, <3>2
  <2>9. ASSUME NEW c \in Callers, WaitBlock(c) PROVE Busy'
      BY <2>9 DEF WaitBlock, Busy
  <2>10. ASSUME NEW c \in Callers, DestroyStop(c) PROVE FALSE
      BY <2>0, <2>1, <2>10 DEF DestroyStop, Lifecycle, TypeShape
  <2>11. QED
      BY <2>4, <2>5, <2>6, <2>7, <2>8, <2>9, <2>10
      DEF Next, WorkerStep, CallerCall, CallerStep, Terminated, vars,
          CreateThread, CreateReturns, WorkerSleep, WorkerRun, SpuriousWake,
          WaitCall, WaitReturn, DestroyCall, DestroyFreeNode, DestroyFree
<1>3. QED
    BY <1>1, <1>2, Invariance, PTL DEF Spec

=============================================================================
