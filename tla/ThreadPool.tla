----------------------------- MODULE ThreadPool -----------------------------
(***************************************************************************)
(* The thread pool of src/library/threadpool.c.                            *)
(*                                                                         *)
(* Every access to the pool's fields is made holding work_mutex, so one    *)
(* critical section is one action: pthread_cond_wait ends a section (the   *)
(* thread joins the set of threads blocked on the condition) and starts    *)
(* another one when the thread is woken.  The one section that is split is *)
(* tpool_destroy's loop over the list, one action per node freed, during   *)
(* which no other section may run (MutexFree).                             *)
(*                                                                         *)
(* A work node is an address that malloc hands out and free takes back, so *)
(* an address is used again and the number of submissions is not bounded.  *)
(* fifo is a history variable: the list as a sequence.  No guard reads it. *)
(***************************************************************************)
EXTENDS Integers, Sequences, FiniteSets

CONSTANTS Workers,      \* the threads tpool_create starts
          Callers,      \* the threads that use the pool
          Work,         \* addresses of tpool_work_t nodes
          NULL,         \* the null pointer
          Unstartable   \* the threads pthread_create fails to start

ASSUME WorkersAssumption == IsFiniteSet(Workers) /\ Workers # {}
ASSUME UnstartableAssumption == Unstartable \subseteq Workers
ASSUME NullAssumption == NULL \notin Work

VARIABLES
    pool,          \* "creating", "live" (tpool_create returned) or "freed"
    work_first,    \* struct tpool: head of the list
    work_last,     \* struct tpool: tail of the list
    working_cnt,   \* struct tpool: workers between take and finish
    thread_cnt,    \* struct tpool: workers that have not exited
    stop,          \* struct tpool: set by tpool_destroy
    work_cond,     \* workers blocked in pthread_cond_wait on work_cond
    working_cond,  \* callers blocked in pthread_cond_wait on working_cond
    next,          \* next field of every node
    allocated,     \* nodes that malloc returned and nobody freed
    worker_pc,     \* where each worker thread is
    p_work,        \* tpool_worker's local p_work
    caller_pc,     \* where each caller is
    cursor,        \* tpool_destroy's local p_work
    fifo           \* history: the nodes of the list, oldest first

list    == <<work_first, work_last, next, allocated, fifo>>
counts  == <<working_cnt, thread_cnt>>
conds   == <<work_cond, working_cond>>
workers == <<worker_pc, p_work>>
callers == <<caller_pc, cursor>>
vars == <<pool, list, counts, stop, conds, workers, callers>>

WorkerStates == {"unborn", "failed", "loop", "running", "ran", "exited"}
CallerStates == {"ready", "wait", "freeing", "join", "joined", "gone"}

Init ==
    /\ pool = "creating"
    /\ work_first = NULL
    /\ work_last = NULL
    /\ working_cnt = 0
    /\ thread_cnt = Cardinality(Workers)
    /\ stop = FALSE
    /\ work_cond = {}
    /\ working_cond = {}
    /\ next = [x \in Work |-> NULL]
    /\ allocated = {}
    /\ worker_pc = [w \in Workers |-> "unborn"]
    /\ p_work = [w \in Workers |-> NULL]
    /\ caller_pc = [c \in Callers |-> "ready"]
    /\ cursor = NULL
    /\ fifo = <<>>

-----------------------------------------------------------------------------
(* Mutated form of MutexFree: tpool_destroy frees the list without taking  *)
(* work_mutex.                                                             *)
MutexNotTaken == TRUE

(* The mutex is held across steps only by a caller that frees the list.    *)
MutexFree == \A c \in Callers : caller_pc[c] # "freeing"

(* Callers use the pool between tpool_create and tpool_destroy.            *)
Usable ==
    /\ pool = "live"
    /\ \A c \in Callers : caller_pc[c] \in {"ready", "wait"}

(* Mutated form of SignalWorking: the signal is left out.                  *)
SignalDropped == UNCHANGED working_cond

(* pthread_cond_signal(&working_cond) wakes one blocked caller, if any.    *)
SignalWorking ==
    IF working_cond = {}
    THEN UNCHANGED working_cond
    ELSE \E c \in working_cond : working_cond' = working_cond \ {c}

(* Mutated form of BroadcastWork: pthread_cond_signal in its place.        *)
SignalOneWorker ==
    IF work_cond = {}
    THEN UNCHANGED work_cond
    ELSE \E w \in work_cond : work_cond' = work_cond \ {w}

(* Mutated form of BroadcastWork: the broadcast is left out.               *)
BroadcastDropped == UNCHANGED work_cond

(* pthread_cond_broadcast(&work_cond) wakes every blocked worker.          *)
BroadcastWork == work_cond' = {}

-----------------------------------------------------------------------------
(* tpool_create starts its threads one after the other, and a started one  *)
(* runs at once.  What pthread_create returns is not looked at.            *)
CreateThread(w) ==
    /\ pool = "creating"
    /\ worker_pc[w] = "unborn"
    /\ worker_pc' = [worker_pc EXCEPT
                       ![w] = IF w \in Unstartable THEN "failed" ELSE "loop"]
    /\ UNCHANGED <<pool, list, counts, stop, conds, p_work, callers>>

CreateReturns ==
    /\ pool = "creating"
    /\ \A w \in Workers : worker_pc[w] # "unborn"
    /\ pool' = "live"
    /\ UNCHANGED <<list, counts, stop, conds, workers, callers>>

-----------------------------------------------------------------------------
(* Mutated form of Enqueue: work_last does not follow the new node.        *)
EnqueueStaleLast(x) ==
    /\ x \notin allocated
    /\ allocated' = allocated \cup {x}
    /\ fifo' = Append(fifo, x)
    /\ IF work_first = NULL
       THEN /\ work_first' = x
            /\ work_last' = x
            /\ next' = [next EXCEPT ![x] = NULL]
       ELSE /\ next' = [next EXCEPT ![x] = NULL, ![work_last] = x]
            /\ UNCHANGED <<work_first, work_last>>

(* Mutated form of Enqueue: the node is pushed at the head.                *)
EnqueueAtHead(x) ==
    /\ x \notin allocated
    /\ allocated' = allocated \cup {x}
    /\ fifo' = Append(fifo, x)
    /\ work_first' = x
    /\ next' = [next EXCEPT ![x] = work_first]
    /\ IF work_first = NULL THEN work_last' = x ELSE UNCHANGED work_last

(* tpool_work_create and the linking of the node at the list's tail.       *)
Enqueue(x) ==
    /\ x \notin allocated
    /\ allocated' = allocated \cup {x}
    /\ work_last' = x
    /\ fifo' = Append(fifo, x)
    /\ IF work_first = NULL
       THEN /\ work_first' = x
            /\ next' = [next EXCEPT ![x] = NULL]
       ELSE /\ next' = [next EXCEPT ![x] = NULL, ![work_last] = x]
            /\ UNCHANGED work_first

AddWork(c, x) ==
    /\ Usable
    /\ caller_pc[c] = "ready"
    /\ Enqueue(x)
    /\ BroadcastWork
    /\ UNCHANGED <<pool, counts, stop, working_cond, workers, callers>>

-----------------------------------------------------------------------------
(* A worker that is running its loop and may enter the critical section.   *)
AtLoop(w) ==
    /\ worker_pc[w] = "loop"
    /\ w \notin work_cond
    /\ MutexFree

WorkerSleep(w) ==
    /\ AtLoop(w)
    /\ work_first = NULL
    /\ ~stop
    /\ work_cond' = work_cond \cup {w}
    /\ UNCHANGED <<pool, list, counts, stop, working_cond, workers, callers>>

(* Mutated form of WorkerExit: the thread leaves without uncounting itself. *)
WorkerExitUncounted(w) ==
    /\ AtLoop(w)
    /\ stop
    /\ worker_pc' = [worker_pc EXCEPT ![w] = "exited"]
    /\ SignalWorking
    /\ UNCHANGED <<pool, list, counts, stop, work_cond, p_work, callers>>

WorkerExit(w) ==
    /\ AtLoop(w)
    /\ stop
    /\ worker_pc' = [worker_pc EXCEPT ![w] = "exited"]
    /\ thread_cnt' = thread_cnt - 1
    /\ SignalWorking
    /\ UNCHANGED <<pool, list, working_cnt, stop, work_cond, p_work, callers>>

(* The history without its oldest node.                                    *)
WithoutFirst == IF fifo = <<>> THEN <<>> ELSE Tail(fifo)

(* tpool_work_get unlinks the head of the list.                            *)
Dequeue ==
    /\ fifo' = WithoutFirst
    /\ IF next[work_first] = NULL
       THEN work_first' = NULL /\ work_last' = NULL
       ELSE work_first' = next[work_first] /\ UNCHANGED work_last
    /\ UNCHANGED <<next, allocated>>

WorkerTake(w) ==
    /\ AtLoop(w)
    /\ ~stop
    /\ work_first # NULL
    /\ p_work' = [p_work EXCEPT ![w] = work_first]
    /\ Dequeue
    /\ working_cnt' = working_cnt + 1
    /\ worker_pc' = [worker_pc EXCEPT ![w] = "running"]
    /\ UNCHANGED <<pool, thread_cnt, stop, conds, callers>>

(* func(arg) returns and the node is freed, outside the mutex.  p_work is  *)
(* not read again before the next take; the model forgets it.              *)
WorkerRun(w) ==
    /\ worker_pc[w] = "running"
    /\ allocated' = allocated \ {p_work[w]}
    /\ p_work' = [p_work EXCEPT ![w] = NULL]
    /\ worker_pc' = [worker_pc EXCEPT ![w] = "ran"]
    /\ UNCHANGED <<pool, work_first, work_last, next, fifo, counts, stop,
                   conds, callers>>

(* Mutated form of WorkerFinish: working_cnt is not decremented.           *)
WorkerFinishUncounted(w) ==
    /\ worker_pc[w] = "ran"
    /\ MutexFree
    /\ worker_pc' = [worker_pc EXCEPT ![w] = "loop"]
    /\ UNCHANGED <<pool, list, counts, stop, conds, p_work, callers>>

WorkerFinish(w) ==
    /\ worker_pc[w] = "ran"
    /\ MutexFree
    /\ working_cnt' = working_cnt - 1
    /\ IF ~stop /\ working_cnt' = 0 /\ work_first = NULL
       THEN SignalWorking
       ELSE UNCHANGED working_cond
    /\ worker_pc' = [worker_pc EXCEPT ![w] = "loop"]
    /\ UNCHANGED <<pool, list, thread_cnt, stop, work_cond, p_work, callers>>

(* pthread_cond_wait may return without a signal.                          *)
SpuriousWake ==
    /\ \/ /\ \E w \in work_cond : work_cond' = work_cond \ {w}
          /\ UNCHANGED working_cond
       \/ /\ \E c \in working_cond : working_cond' = working_cond \ {c}
          /\ UNCHANGED work_cond
    /\ UNCHANGED <<pool, list, counts, stop, workers, callers>>

-----------------------------------------------------------------------------
(* Mutated form of Busy: only the jobs are waited for, also by destroy.    *)
BusyJobsOnly == working_cnt # 0

(* Mutated form of Busy: the list is tested, as the comment in tpool_wait  *)
(* asks, but in place of the counter.                                      *)
BusyQueueOnly ==
    \/ ~stop /\ work_first # NULL
    \/ stop /\ thread_cnt # 0

(* The condition tpool_wait waits on.                                      *)
Busy ==
    \/ ~stop /\ working_cnt # 0
    \/ stop /\ thread_cnt # 0

(* In tpool_wait, called by the program or by tpool_destroy.               *)
InWait(c) ==
    /\ caller_pc[c] \in {"wait", "join"}
    /\ c \notin working_cond
    /\ MutexFree

WaitCall(c) ==
    /\ Usable
    /\ caller_pc[c] = "ready"
    /\ caller_pc' = [caller_pc EXCEPT ![c] = "wait"]
    /\ UNCHANGED <<pool, list, counts, stop, conds, workers, cursor>>

WaitBlock(c) ==
    /\ InWait(c)
    /\ Busy
    /\ working_cond' = working_cond \cup {c}
    /\ UNCHANGED <<pool, list, counts, stop, work_cond, workers, callers>>

WaitReturn(c) ==
    /\ InWait(c)
    /\ ~Busy
    /\ caller_pc' = [caller_pc EXCEPT
                       ![c] = IF @ = "wait" THEN "ready" ELSE "joined"]
    /\ UNCHANGED <<pool, list, counts, stop, conds, workers, cursor>>

-----------------------------------------------------------------------------
(* tpool_destroy, called when no other caller is inside the pool.          *)
DestroyCall(c) ==
    /\ pool = "live"
    /\ \A d \in Callers : caller_pc[d] = "ready"
    /\ caller_pc' = [caller_pc EXCEPT ![c] = "freeing"]
    /\ cursor' = work_first
    /\ UNCHANGED <<pool, list, counts, stop, conds, workers>>

(* One turn of the loop; work_first and work_last stay as they are.        *)
DestroyFreeNode(c) ==
    /\ caller_pc[c] = "freeing"
    /\ cursor # NULL
    /\ cursor' = next[cursor]
    /\ allocated' = allocated \ {cursor}
    /\ fifo' = WithoutFirst
    /\ UNCHANGED <<pool, work_first, work_last, next, counts, stop, conds,
                   workers, caller_pc>>

DestroyStop(c) ==
    /\ caller_pc[c] = "freeing"
    /\ cursor = NULL
    /\ stop' = TRUE
    /\ BroadcastWork
    /\ caller_pc' = [caller_pc EXCEPT ![c] = "join"]
    /\ UNCHANGED <<pool, list, counts, working_cond, workers, cursor>>

DestroyFree(c) ==
    /\ caller_pc[c] = "joined"
    /\ pool' = "freed"
    /\ caller_pc' = [caller_pc EXCEPT ![c] = "gone"]
    /\ UNCHANGED <<list, counts, stop, conds, workers, cursor>>

-----------------------------------------------------------------------------
(* The pool is gone: nothing is left to do.                                *)
Terminated == pool = "freed" /\ UNCHANGED vars

WorkerStep(w) ==
    \/ WorkerSleep(w) \/ WorkerExit(w) \/ WorkerTake(w)
    \/ WorkerRun(w) \/ WorkerFinish(w)

CallerCall(c) ==
    \/ \E x \in Work : AddWork(c, x)
    \/ WaitCall(c)
    \/ DestroyCall(c)

CallerStep(c) ==
    \/ WaitBlock(c) \/ WaitReturn(c)
    \/ DestroyFreeNode(c) \/ DestroyStop(c) \/ DestroyFree(c)

Next ==
    \/ \E w \in Workers : CreateThread(w) \/ WorkerStep(w)
    \/ CreateReturns
    \/ \E c \in Callers : CallerCall(c) \/ CallerStep(c)
    \/ SpuriousWake
    \/ Terminated

Spec == Init /\ [][Next]_vars

(* The scheduler runs every thread that can run, and jobs return.  Callers *)
(* owe no call, and a wakeup without a signal may never come.              *)
Fairness ==
    /\ \A w \in Workers : WF_vars(CreateThread(w)) /\ WF_vars(WorkerStep(w))
    /\ WF_vars(CreateReturns)
    /\ \A c \in Callers : WF_vars(CallerStep(c))

FairSpec == Spec /\ Fairness

-----------------------------------------------------------------------------
(* A single caller: the way src/main.c uses the pool.                      *)
OneCaller == \A c, d \in Callers : c = d

HeldBy(w) == worker_pc[w] = "running"
Queued    == {fifo[i] : i \in DOMAIN fifo}
Running   == {p_work[w] : w \in {v \in Workers : HeldBy(v)}}
AtWork    == {w \in Workers : worker_pc[w] \in {"running", "ran"}}
NotExited == {w \in Workers : worker_pc[w] # "exited"}

(* Types and ranges of the variables: the counters never leave             *)
(* 0..Cardinality(Workers), where size_t arithmetic would wrap.            *)
TypeOK ==
    /\ pool \in {"creating", "live", "freed"}
    /\ work_first \in Work \cup {NULL}
    /\ work_last \in Work \cup {NULL}
    /\ working_cnt \in 0..Cardinality(Workers)
    /\ thread_cnt \in 0..Cardinality(Workers)
    /\ stop \in BOOLEAN
    /\ work_cond \subseteq Workers
    /\ working_cond \subseteq Callers
    /\ next \in [Work -> Work \cup {NULL}]
    /\ allocated \subseteq Work
    /\ worker_pc \in [Workers -> WorkerStates]
    /\ p_work \in [Workers -> Work \cup {NULL}]
    /\ caller_pc \in [Callers -> CallerStates]
    /\ cursor \in Work \cup {NULL}
    /\ fifo \in Seq(Work)

(* The counters that tpool_wait and tpool_destroy decide by are exact: a   *)
(* job is counted from its take to its finish, a thread until it exits.    *)
CountersExact ==
    /\ working_cnt = Cardinality(AtWork)
    /\ thread_cnt = Cardinality(NotExited)

(* The protocol of tpool_destroy: it runs alone, stop says how far it is,  *)
(* a worker leaves only after stop and the pool goes only after all have.  *)
Destroying == {"freeing", "join", "joined", "gone"}
Stopped    == {"join", "joined", "gone"}
Lifecycle ==
    /\ \A c, d \in Callers :
          caller_pc[c] \in Destroying /\ c # d => caller_pc[d] = "ready"
    /\ \A c \in Callers : caller_pc[c] # "ready" => pool # "creating"
    /\ stop <=> \E c \in Callers : caller_pc[c] \in Stopped
    /\ pool = "freed" <=> \E c \in Callers : caller_pc[c] = "gone"
    /\ \A c \in Callers : caller_pc[c] \in {"joined", "gone"} => thread_cnt = 0
    /\ \A w \in work_cond : worker_pc[w] = "loop"
    /\ \A c \in working_cond : caller_pc[c] \in {"wait", "join"}
    /\ \A w \in Workers : worker_pc[w] = "exited" => stop

(* The pointers form the list the history says, at every moment someone    *)
(* may follow one: first, last and next while workers take from it, the    *)
(* loop's cursor while tpool_destroy frees it.                             *)
ListShape ==
    /\ \A i, j \in 1..Len(fifo) : fifo[i] = fifo[j] => i = j
    /\ \A i \in 1..Len(fifo) :
          next[fifo[i]] = IF i = Len(fifo) THEN NULL ELSE fifo[i + 1]
    /\ MutexFree /\ ~stop =>
          /\ work_first = IF fifo = <<>> THEN NULL ELSE fifo[1]
          /\ work_last = IF fifo = <<>> THEN NULL ELSE fifo[Len(fifo)]
    /\ ~MutexFree => cursor = IF fifo = <<>> THEN NULL ELSE fifo[1]
    /\ stop => fifo = <<>>

(* Every node that is allocated is in the list or held by the one worker   *)
(* that runs it, and nothing else is in either place: no node is freed     *)
(* twice, used after it was freed, run twice, or leaked.                   *)
Ownership ==
    /\ allocated = Queued \cup Running
    /\ Queued \cap Running = {}
    /\ \A v, w \in Workers :
          HeldBy(v) /\ HeldBy(w) /\ p_work[v] = p_work[w] => v = w

(* tpool_destroy tears the mutex and the conditions down, and frees the    *)
(* pool, only when every worker has left and nobody is blocked on them.    *)
DestroyedQuiescent ==
    (\E c \in Callers : caller_pc[c] \in {"joined", "gone"}) =>
        /\ \A w \in Workers : worker_pc[w] = "exited"
        /\ work_cond = {}
        /\ working_cond = {}
        /\ allocated = {}

(* No worker sleeps on work_cond over queued work or a stop request: the   *)
(* two broadcasts lose no wakeup.                                          *)
NoSleeperMissesWork == work_first # NULL \/ stop => work_cond = {}

(* A lone caller is never left blocked on working_cond when the condition  *)
(* it waits on is false and no job is left that would signal it.  With two *)
(* callers blocked it can happen: one pthread_cond_signal wakes only one.  *)
NoStrandedWaiter ==
    OneCaller => \A c \in working_cond : Busy \/ (~stop /\ work_first # NULL)

(* tpool_wait returns to the program only when no job is running.          *)
WaitReturnsOf(c) == caller_pc[c] = "wait" /\ caller_pc'[c] = "ready"
WaitMeansIdle ==
    [][\A c \in Callers : WaitReturnsOf(c) => Running = {}]_vars

(* "should check if p_work in queue": tpool_wait returns only when no job  *)
(* is waiting to be started either.  The code does not check it.           *)
WaitDrains == [][\A c \in Callers : WaitReturnsOf(c) => fifo = <<>>]_vars

(* "@return threadpool. NULL on failure": a pool that tpool_create hands   *)
(* out has the threads it was asked for.  The code checks no thread.       *)
CreateDelivers ==
    pool = "live" => \A w \in Workers : worker_pc[w] # "failed"

(* A lone caller's tpool_wait returns.                                     *)
WaitReturns == \A c \in Callers : caller_pc[c] = "wait" ~> caller_pc[c] = "ready"

(* tpool_destroy returns, if the threads were started.                     *)
DestroyReturns ==
    \A c \in Callers : caller_pc[c] = "freeing" ~> caller_pc[c] = "gone"

-----------------------------------------------------------------------------
(* The pool implements JobService: a job is running while its func is, and *)
(* the service closes from the call of tpool_destroy to its return.        *)
Closing == \E c \in Callers : caller_pc[c] \in {"freeing", "join", "joined"}
Phase   == IF pool = "freed" THEN "closed"
           ELSE IF Closing THEN "closing" ELSE "open"

Jobs == INSTANCE JobService
          WITH Job <- Work, queue <- fifo, running <- Running, phase <- Phase

(* Jobs start once each, in the order of tpool_add_work, and tpool_destroy *)
(* returns with none queued and none running.                              *)
ImplementsJobService == Jobs!Spec

(* ... and every accepted job is started and completed, and a close ends,  *)
(* unless a close discards it first.                                       *)
ImplementsFairJobService == Jobs!FairSpec
=============================================================================
