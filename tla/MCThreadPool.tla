---------------------------- MODULE MCThreadPool ----------------------------
(* Small instances of ThreadPool for TLC.                                  *)
EXTENDS ThreadPool, TLC

(* Threads and addresses are interchangeable: no order on them is used.    *)
Symmetric ==
    Permutations(Workers) \cup Permutations(Callers) \cup Permutations(Work)
=============================================================================
