------------------------------- MODULE Trees --------------------------------
(***************************************************************************)
(* The two programs that build search trees, each by itself: the first     *)
(* state says which one runs.                                              *)
(***************************************************************************)
EXTENDS BinaryTree, AVLTree

TreesNext == BinaryNext \/ AVLNext

TreesSpec == TreeInit /\ [][TreesNext]_treeVars

(* Both search trees are ordered sets of the keys put in and not taken out,*)
(* allocated exactly and freed once each by deleteTree; the AVL tree knows *)
(* its heights and is balanced after any sequence of calls.                *)
TreesSound ==
    /\ OrderedSet
    /\ NothingLostOrFreedTwice
    /\ program = "avl" => HeightsExactAndBalanced
=============================================================================
