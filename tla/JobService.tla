----------------------------- MODULE JobService -----------------------------
(***************************************************************************)
(* What a caller of the thread pool (src/library/threadpool.c) is promised, *)
(* with no thread, lock, list node or counter in sight: jobs are accepted   *)
(* into a queue, started once each in the order of submission, and run to   *)
(* completion; closing the service discards what was not started and ends  *)
(* only when nothing runs any more.  ThreadPool is shown to implement it.  *)
(***************************************************************************)
EXTENDS Sequences

CONSTANT Job

VARIABLES queue,    \* jobs accepted and not started, oldest first
          running,  \* jobs started and not completed
          phase     \* "open", "closing" or "closed"

jobVars == <<queue, running, phase>>

Queued == {queue[i] : i \in DOMAIN queue}

Init ==
    /\ queue = <<>>
    /\ running = {}
    /\ phase = "open"

Submit(j) ==
    /\ phase = "open"
    /\ j \notin Queued \cup running
    /\ queue' = Append(queue, j)
    /\ UNCHANGED <<running, phase>>

Start ==
    /\ phase = "open"
    /\ queue # <<>>
    /\ queue' = Tail(queue)
    /\ running' = running \cup {Head(queue)}
    /\ UNCHANGED phase

Complete(j) ==
    /\ j \in running
    /\ running' = running \ {j}
    /\ UNCHANGED <<queue, phase>>

BeginClose ==
    /\ phase = "open"
    /\ phase' = "closing"
    /\ UNCHANGED <<queue, running>>

Discard ==
    /\ phase = "closing"
    /\ queue # <<>>
    /\ queue' = Tail(queue)
    /\ UNCHANGED <<running, phase>>

EndClose ==
    /\ phase = "closing"
    /\ queue = <<>>
    /\ running = {}
    /\ phase' = "closed"
    /\ UNCHANGED <<queue, running>>

Next ==
    \/ \E j \in Job : Submit(j) \/ Complete(j)
    \/ Start
    \/ BeginClose
    \/ Discard
    \/ EndClose

Spec == Init /\ [][Next]_jobVars

(* Callers decide when to submit and when to close; everything else must    *)
(* happen once it can.                                                      *)
Fairness ==
    /\ WF_jobVars(Start)
    /\ \A j \in Job : WF_jobVars(Complete(j))
    /\ WF_jobVars(Discard)
    /\ WF_jobVars(EndClose)

FairSpec == Spec /\ Fairness
=============================================================================
