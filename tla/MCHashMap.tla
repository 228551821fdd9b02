----------------------------- MODULE MCHashMap -----------------------------
(***************************************************************************)
(* HashMap with the code's own hash function.  "a" and "e" share a bucket  *)
(* as long as the capacity is 2 or 4; at 8 they part.                      *)
(***************************************************************************)
EXTENDS HashMap, HashFunction, TLC

MCStrings == {<<97>>, <<98>>, <<101>>}  \* "a", "b", "e"

Symmetry == Permutations(Pointers)
=============================================================================
