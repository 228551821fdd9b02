----------------------------- MODULE BinaryTree -----------------------------
(***************************************************************************)
(* The search tree of src/binary.c: insertion without balancing.           *)
(***************************************************************************)
EXTENDS TreeHeap

newNode(k) == [key |-> k, left |-> NULL, right |-> NULL]

(* The call that waited stores the result in its link and returns its node.*)
InsertReturns ==
    /\ pc = "insertReturns" /\ frames # <<>>
    /\ ReturnWith([h |-> Linked(heap, frames[1], node), p |-> frames[1].node])

insert == NewLeaf(newNode(key)) \/ Smaller \/ Greater \/ KeyIsThere \/ InsertReturns

(* main keeps the first result as root and drops the later ones.           *)
FirstRoot ==
    /\ pc = "insertReturns"
    /\ BackInMain(IF root = NULL THEN node ELSE root)

BinaryNext ==
    /\ program = "bst"
    /\ (\E k \in UnbalancedKeys : CallInsert(k)) \/ insert \/ FirstRoot \/ deleteTree
=============================================================================
