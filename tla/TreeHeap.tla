------------------------------ MODULE TreeHeap ------------------------------
(***************************************************************************)
(* The nodes of the search trees of src/binary.c and src/balanced_tree.c,  *)
(* and what both programs share: the way down to a key, and deleteTree,    *)
(* which frees a tree while it walks it.                                   *)
(*                                                                         *)
(* Each call of a recursive function is a frame on the stack, with the node*)
(* it has and the link of the node it waits for; node and key are the      *)
(* arguments of the running call, and node is the result when it returns.  *)
(* heap maps the allocated addresses to their nodes: to read one that is   *)
(* not allocated is an evaluation error.                                   *)
(***************************************************************************)
EXTENDS Integers, Sequences, FiniteSets

CONSTANTS TreeKeys,        \* ints that are put into the AVL tree
          UnbalancedKeys,  \* and into the other one
          Address,         \* what malloc gives out
          MaxFreed         \* bound: nodes of a tree that deleteTree is called on

NULL == 0

ASSUME TreeAssumption ==
    /\ TreeKeys \subseteq Int /\ UnbalancedKeys \subseteq Int
    /\ IsFiniteSet(Address) /\ NULL \notin Address

VARIABLES program,    \* which of the two it is, "avl" or "bst"
          heap,       \* the allocated nodes
          root,       \* main's pointer to the tree
          members,    \* history: the keys inserted and not deleted
          pc,         \* what the running call is about to do
          key, node,  \* its arguments; node is also what a call returns
          p_current,  \* minValuenode's pointer
          frames      \* the calls that wait for one to return, the last first

treeVars == <<program, heap, root, members, pc, key, node, p_current, frames>>

NoTree ==
    /\ heap = [a \in {} |-> NULL]
    /\ root = NULL /\ members = {}
    /\ pc = "idle" /\ key = 0 /\ node = NULL /\ p_current = NULL /\ frames = <<>>

TreeInit == program \in {"avl", "bst"} /\ NoTree

Freed(h, p) == [a \in DOMAIN h \ {p} |-> h[a]]

Linked(h, f, p) ==
    IF f.at = "left" THEN [h EXCEPT ![f.node].left = p]
    ELSE [h EXCEPT ![f.node].right = p]

-----------------------------------------------------------------------------
(* main calls a function of the tree.                                      *)
MainCalls(function, k) ==
    /\ pc = "idle"
    /\ pc' = function /\ key' = k /\ node' = root
    /\ UNCHANGED <<program, heap, root, p_current, frames>>

CallInsert(k) == MainCalls("insert", k) /\ members' = members \cup {k}

CallDelete(k) == MainCalls("delete", k) /\ members' = members \ {k}

(* The call for node makes one for p, whose result goes to that link.      *)
Descend(link, p) ==
    /\ frames' = <<[node |-> node, at |-> link]>> \o frames
    /\ node' = p

Smaller ==
    /\ pc \in {"insert", "delete"} /\ node # NULL
    /\ key < heap[node].key
    /\ Descend("left", heap[node].left)
    /\ UNCHANGED <<program, heap, root, members, pc, key, p_current>>

Greater ==
    /\ pc \in {"insert", "delete"} /\ node # NULL
    /\ key > heap[node].key
    /\ Descend("right", heap[node].right)
    /\ UNCHANGED <<program, heap, root, members, pc, key, p_current>>

(* malloc gives out any address that is not in use.                        *)
NewLeaf(contents) ==
    /\ pc = "insert" /\ node = NULL
    /\ \E a \in Address \ DOMAIN heap :
         /\ heap' = [q \in DOMAIN heap \cup {a} |-> IF q = a THEN contents ELSE heap[q]]
         /\ node' = a
    /\ pc' = "insertReturns"
    /\ UNCHANGED <<program, root, members, key, p_current, frames>>

KeyIsThere ==
    /\ pc = "insert" /\ node # NULL
    /\ key = heap[node].key
    /\ pc' = "insertReturns"
    /\ UNCHANGED <<program, heap, root, members, key, node, p_current, frames>>

(* The call that waited ends: the heap and the pointer it leaves.          *)
ReturnWith(r) ==
    /\ heap' = r.h /\ node' = r.p
    /\ frames' = Tail(frames)
    /\ UNCHANGED <<program, root, members, pc, key, p_current>>

(* main has the result.                                                    *)
BackInMain(p) ==
    /\ frames = <<>>
    /\ root' = p
    /\ pc' = "idle"
    /\ UNCHANGED <<program, heap, members, key, node, p_current, frames>>

-----------------------------------------------------------------------------
(* deleteTree(p) returns at once for NULL.  at is the next thing to do.    *)
Enter(p, rest) == IF p = NULL THEN rest ELSE <<[node |-> p, at |-> "left"]>> \o rest

At(step) == pc = "deleteTree" /\ frames[1].at = step

Resume(step) == <<[frames[1] EXCEPT !.at = step]>> \o Tail(frames)

FreeBegins ==
    /\ pc = "idle"
    /\ root # NULL
    /\ Cardinality(DOMAIN heap) <= MaxFreed
    /\ pc' = "deleteTree"
    /\ frames' = Enter(root, <<>>)
    /\ root' = NULL /\ members' = {}
    /\ UNCHANGED <<program, heap, key, node, p_current>>

FreeLeft ==
    /\ At("left")
    /\ frames' = Enter(heap[frames[1].node].left, Resume("right"))
    /\ UNCHANGED <<program, heap, root, members, pc, key, node, p_current>>

FreeRight ==
    /\ At("right")
    /\ frames' = Enter(heap[frames[1].node].right, Resume("free"))
    /\ UNCHANGED <<program, heap, root, members, pc, key, node, p_current>>

FreeNode ==
    /\ At("free")
    /\ heap' = Freed(heap, frames[1].node)
    /\ frames' = Tail(frames)
    /\ pc' = IF Len(frames) = 1 THEN "idle" ELSE pc
    /\ UNCHANGED <<program, root, members, key, node, p_current>>

deleteTree == FreeBegins \/ FreeLeft \/ FreeRight \/ FreeNode

-----------------------------------------------------------------------------
(* The nodes below each node, itself included; nothing hangs on a pointer  *)
(* that is NULL or freed.                                                  *)
Subtrees(h) ==
    LET sub[p \in DOMAIN h] ==
          {p} \cup (IF h[p].left \in DOMAIN h THEN sub[h[p].left] ELSE {})
              \cup (IF h[p].right \in DOMAIN h THEN sub[h[p].right] ELSE {})
    IN  sub

Nodes(h, p) == IF p \in DOMAIN h THEN Subtrees(h)[p] ELSE {}

(* Between calls the tree is the set of the keys that were put in and not  *)
(* taken out, each once, smaller ones to the left of greater ones.         *)
OrderedSet ==
    pc = "idle" =>
      /\ \A p \in DOMAIN heap :
           /\ \A q \in Nodes(heap, heap[p].left) : heap[q].key < heap[p].key
           /\ \A q \in Nodes(heap, heap[p].right) : heap[q].key > heap[p].key
      /\ {heap[p].key : p \in DOMAIN heap} = members

(* Between calls exactly the nodes of the tree are allocated.  No call ever*)
(* has a node that was freed, and while deleteTree runs, all that is       *)
(* allocated hangs on its first call, each call's node below its caller's: *)
(* none is freed twice or left behind.                                     *)
NothingLostOrFreedTwice ==
    /\ pc = "idle" => /\ frames = <<>>
                      /\ root \in DOMAIN heap \cup {NULL}
                      /\ DOMAIN heap = Nodes(heap, root)
    /\ \A f \in DOMAIN frames : frames[f].node \in DOMAIN heap
    /\ pc \in {"insert", "insertReturns", "delete", "deleteReturns"} =>
         node \in DOMAIN heap \cup {NULL}
    /\ pc = "minimum" => node \in DOMAIN heap /\ p_current \in DOMAIN heap
    /\ pc = "deleteTree" =>
         /\ DOMAIN heap = Nodes(heap, frames[Len(frames)].node)
         /\ \A f, g \in DOMAIN frames :
              f < g => frames[f].node \in Nodes(heap, frames[g].node) \ {frames[g].node}
=============================================================================
