------------------------------ MODULE AVLTree -------------------------------
(***************************************************************************)
(* The AVL tree of src/balanced_tree.c.                                    *)
(***************************************************************************)
EXTENDS TreeHeap

height(h, p) == IF p = NULL THEN 0 ELSE h[p].height

max(a, b) == IF a > b THEN a ELSE b

newnode(k) == [key |-> k, left |-> NULL, right |-> NULL, height |-> 1]

HeightSet(h, p) ==
    [h EXCEPT ![p].height = max(height(h, h[p].left), height(h, h[p].right)) + 1]

rightRotate(h, y) ==
    LET x == h[y].left
        turned == [h EXCEPT ![x].right = y, ![y].left = h[x].right]
    IN  [h |-> HeightSet(HeightSet(turned, y), x), p |-> x]

leftRotate(h, x) ==
    LET y == h[x].right
        turned == [h EXCEPT ![y].left = x, ![x].right = h[y].left]
    IN  [h |-> HeightSet(HeightSet(turned, x), y), p |-> y]

(* The double rotations: first the child, then the node.                   *)
leftRightRotate(h, p) ==
    LET r == leftRotate(h, h[p].left)
    IN  rightRotate([r.h EXCEPT ![p].left = r.p], p)

rightLeftRotate(h, p) ==
    LET r == rightRotate(h, h[p].right)
    IN  leftRotate([r.h EXCEPT ![p].right = r.p], p)

getBalance(h, p) ==
    IF p = NULL THEN 0 ELSE height(h, h[p].left) - height(h, h[p].right)

-----------------------------------------------------------------------------
(* After an insertion below p: its height, and the rotation that k, the    *)
(* key inserted, asks for.                                                 *)
BalancedAfterInsert(g, p, k) ==
    LET h == HeightSet(g, p)
        b == getBalance(h, p)
    IN  CASE b > 1 /\ k < h[h[p].left].key   -> rightRotate(h, p)
          [] b < -1 /\ k > h[h[p].right].key -> leftRotate(h, p)
          [] b > 1 /\ k > h[h[p].left].key   -> leftRightRotate(h, p)
          [] b < -1 /\ k < h[h[p].right].key -> rightLeftRotate(h, p)
          [] OTHER                             -> [h |-> h, p |-> p]

(* The call that waited stores the result in its link and balances its     *)
(* node.                                                                   *)
InsertnodeReturns ==
    /\ pc = "insertReturns" /\ frames # <<>>
    /\ LET f == frames[1]
       IN  ReturnWith(BalancedAfterInsert(Linked(heap, f, node), f.node, key))

insertnode ==
    NewLeaf(newnode(key)) \/ Smaller \/ Greater \/ KeyIsThere \/ InsertnodeReturns

-----------------------------------------------------------------------------
(* Mutated form of BalancedAfterDelete: > in the place of >= at line 212.  *)
BalancedUnlessEven(g, p) ==
    LET h == HeightSet(g, p)
        b == getBalance(h, p)
    IN  CASE b > 1 /\ getBalance(h, h[p].left) > 0     -> rightRotate(h, p)
          [] b > 1 /\ getBalance(h, h[p].left) < 0     -> leftRightRotate(h, p)
          [] b < -1 /\ getBalance(h, h[p].right) <= 0  -> leftRotate(h, p)
          [] b < -1 /\ getBalance(h, h[p].right) > 0   -> rightLeftRotate(h, p)
          [] OTHER                                     -> [h |-> h, p |-> p]

(* After a deletion below p the balance of the child decides.              *)
BalancedAfterDelete(g, p) ==
    LET h == HeightSet(g, p)
        b == getBalance(h, p)
    IN  CASE b > 1 /\ getBalance(h, h[p].left) >= 0    -> rightRotate(h, p)
          [] b > 1 /\ getBalance(h, h[p].left) < 0     -> leftRightRotate(h, p)
          [] b < -1 /\ getBalance(h, h[p].right) <= 0  -> leftRotate(h, p)
          [] b < -1 /\ getBalance(h, h[p].right) > 0   -> rightLeftRotate(h, p)
          [] OTHER                                     -> [h |-> h, p |-> p]

-----------------------------------------------------------------------------
KeyIsNotThere ==
    /\ pc = "delete" /\ node = NULL
    /\ pc' = "deleteReturns"
    /\ UNCHANGED <<program, heap, root, members, key, node, p_current, frames>>

Found == pc = "delete" /\ node # NULL /\ key = heap[node].key

(* A node without a child is freed; one with one child takes over the      *)
(* child's contents, and the child's node is freed.                        *)
Unlinked(h, p) ==
    LET child == IF h[p].left # NULL THEN h[p].left ELSE h[p].right
    IN  IF child = NULL THEN [h |-> Freed(h, p), p |-> NULL]
        ELSE BalancedAfterDelete(Freed([h EXCEPT ![p] = h[child]], child), p)

Unlink ==
    /\ Found
    /\ NULL \in {heap[node].left, heap[node].right}
    /\ LET r == Unlinked(heap, node) IN heap' = r.h /\ node' = r.p
    /\ pc' = "deleteReturns"
    /\ UNCHANGED <<program, root, members, key, p_current, frames>>

(* A node with two children takes over the key of its successor, which     *)
(* minValuenode finds and which is then deleted in its place.              *)
CallMinValuenode ==
    /\ Found
    /\ NULL \notin {heap[node].left, heap[node].right}
    /\ pc' = "minimum"
    /\ p_current' = heap[node].right
    /\ UNCHANGED <<program, heap, root, members, key, node, frames>>

minValuenode ==
    /\ pc = "minimum"
    /\ heap[p_current].left # NULL
    /\ p_current' = heap[p_current].left
    /\ UNCHANGED <<program, heap, root, members, pc, key, node, frames>>

DeleteSuccessor ==
    /\ pc = "minimum"
    /\ heap[p_current].left = NULL
    /\ LET next == heap[p_current].key IN
         /\ heap' = [heap EXCEPT ![node].key = next]
         /\ key' = next
    /\ Descend("right", heap[node].right)
    /\ pc' = "delete"
    /\ UNCHANGED <<program, root, members, p_current>>

DeletenodeReturns ==
    /\ pc = "deleteReturns" /\ frames # <<>>
    /\ LET f == frames[1]
       IN  ReturnWith(BalancedAfterDelete(Linked(heap, f, node), f.node))

deletenode ==
    \/ KeyIsNotThere \/ Smaller \/ Greater \/ Unlink
    \/ CallMinValuenode \/ minValuenode \/ DeleteSuccessor \/ DeletenodeReturns

-----------------------------------------------------------------------------
(* main takes every result for its root.                                   *)
NewRoot == pc \in {"insertReturns", "deleteReturns"} /\ BackInMain(node)

(* This program's deleteTree is that of src/binary.c.                      *)
DeleteTree == deleteTree

AVLNext ==
    /\ program = "avl"
    /\ \/ \E k \in TreeKeys : CallInsert(k) \/ CallDelete(k)
       \/ insertnode \/ deletenode \/ NewRoot \/ DeleteTree

-----------------------------------------------------------------------------
(* How deep the tree is below each node.                                   *)
Depths(h) ==
    LET depth[p \in DOMAIN h] ==
          1 + max(IF h[p].left \in DOMAIN h THEN depth[h[p].left] ELSE 0,
                  IF h[p].right \in DOMAIN h THEN depth[h[p].right] ELSE 0)
    IN  depth

Depth(h, p) == IF p \in DOMAIN h THEN Depths(h)[p] ELSE 0

(* Between calls every node knows its height, and its subtrees differ in   *)
(* depth by one at most.                                                   *)
HeightsExactAndBalanced ==
    pc = "idle" =>
      \A p \in DOMAIN heap :
        /\ heap[p].height = Depth(heap, p)
        /\ Depth(heap, heap[p].left) - Depth(heap, heap[p].right) \in -1..1
=============================================================================
