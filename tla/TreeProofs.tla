----------------------------- MODULE TreeProofs -----------------------------
(***************************************************************************)
(* Theorems about Trees: both trees are ordered sets with exact memory, and*)
(* the AVL tree is balanced, for any keys, any number of nodes and any     *)
(* sequence of calls.                                                      *)
(*                                                                         *)
(* A tree is a set D of nodes with two links, L and R, that are functions  *)
(* on it, and S, the nodes below each node.  While calls wait for results  *)
(* the links are those of the heap but for the one that the last of them   *)
(* will store: LinksL and LinksR have the running call's pointer there.    *)
(***************************************************************************)
EXTENDS Trees, TLAPS, FiniteSetTheorems, SequenceTheorems, WellFoundedInduction

Below(D, S, q) == IF q \in D THEN S[q] ELSE {}

(* The nodes below a node are itself, those to its left and those to its   *)
(* right, and no node is two of these.                                     *)
Nest(D, L, R, S) ==
    /\ S \in [D -> SUBSET D]
    /\ \A p \in D :
         /\ S[p] = {p} \cup Below(D, S, L[p]) \cup Below(D, S, R[p])
         /\ p \notin Below(D, S, L[p]) /\ p \notin Below(D, S, R[p])
         /\ Below(D, S, L[p]) \cap Below(D, S, R[p]) = {}

(* One tree of all nodes, with the root r.                                 *)
Tree(D, L, R, S, r) == Nest(D, L, R, S) /\ Below(D, S, r) = D

(* No link leads out of it.                                                *)
Closed(D, L, R, r) ==
    /\ \A p \in D : L[p] \in D \cup {NULL} /\ R[p] \in D \cup {NULL}
    /\ r \in D \cup {NULL}

(* The order of the keys K; the node t may have an equal key to its right. *)
Ordered(D, L, R, S, K, t) ==
    \A p \in D :
      /\ \A q \in Below(D, S, L[p]) : K[q] < K[p]
      /\ \A q \in Below(D, S, R[p]) : K[p] < K[q] \/ (p = t /\ K[p] = K[q])

KeysIn(h) == [p \in DOMAIN h |-> h[p].key]

LinksL(h, fs, n) ==
    [q \in DOMAIN h |-> IF fs # <<>> /\ fs[1].node = q /\ fs[1].at = "left"
                        THEN n ELSE h[q].left]

LinksR(h, fs, n) ==
    [q \in DOMAIN h |-> IF fs # <<>> /\ fs[1].node = q /\ fs[1].at = "right"
                        THEN n ELSE h[q].right]

Link(h, f) == IF f.at = "left" THEN h[f.node].left ELSE h[f.node].right

Apex(fs, n, r) == IF fs = <<>> THEN n ELSE r

(* The waiting calls: each waits in the link that leads to the next one's  *)
(* node, the first in the root, and none is below one that it waits for.   *)
Stack(h, fs, r, S) ==
    /\ \A x \in DOMAIN fs : fs[x].node \in DOMAIN h
    /\ \A x \in 2..Len(fs) : Link(h, fs[x]) = fs[x - 1].node
    /\ fs # <<>> => fs[Len(fs)].node = r
    /\ \A x, y \in DOMAIN fs : x < y => fs[y].node \notin S[fs[x].node]

Shape(h, fs, n, r, S) ==
    /\ Tree(DOMAIN h, LinksL(h, fs, n), LinksR(h, fs, n), S, Apex(fs, n, r))
    /\ Closed(DOMAIN h, LinksL(h, fs, n), LinksR(h, fs, n), Apex(fs, n, r))
    /\ Stack(h, fs, r, S)

(* On the way down the running call has what hangs on the last link.       *)
Handed(h, fs, n, r) == n = IF fs = <<>> THEN r ELSE Link(h, fs[1])

-----------------------------------------------------------------------------
Keys(h) == {h[p].key : p \in DOMAIN h}

InOrder(h, fs, n, S, t) ==
    Ordered(DOMAIN h, LinksL(h, fs, n), LinksR(h, fs, n), S, KeysIn(h), t)

(* The waiting calls went the way that the key asks for.                   *)
FrameKeys(h, fs, k) ==
    \A x \in DOMAIN fs : IF fs[x].at = "left" THEN k < h[fs[x].node].key
                                              ELSE k > h[fs[x].node].key

(* And so did those above the last one's node.                             *)
SlotKeys(h, fs, k, S) ==
    fs # <<>> =>
      \A p \in DOMAIN h :
        /\ fs[1].node \in Below(DOMAIN h, S, h[p].left) => k < h[p].key
        /\ fs[1].node \in Below(DOMAIN h, S, h[p].right) => k > h[p].key

(* The key to be deleted is nowhere but below n.                           *)
OnlyBelow(h, n, k, S) ==
    \A q \in DOMAIN h : h[q].key = k => q \in Below(DOMAIN h, S, n)

(* The successor of t, whose key t has already, is the smallest below n.   *)
SuccessorBelow(h, n, k, S, t) ==
    /\ t \in DOMAIN h /\ h[t].key = k
    /\ Below(DOMAIN h, S, n) \subseteq Below(DOMAIN h, S, h[t].right)
    /\ \A q \in Below(DOMAIN h, S, n) : k <= h[q].key
    /\ \E q \in Below(DOMAIN h, S, n) : h[q].key = k

KeysKept(S, t) ==
    /\ InOrder(heap, frames, node, S, t)
    /\ pc \in {"idle", "insertReturns", "deleteReturns"} =>
         t = NULL /\ Keys(heap) = members
    /\ pc \in {"insert", "insertReturns"} => FrameKeys(heap, frames, key)
    /\ pc = "insert" =>
         t = NULL /\ Keys(heap) \cup {key} = members /\ SlotKeys(heap, frames, key, S)
    /\ pc = "delete" =>
         \/ t = NULL /\ Keys(heap) \ {key} = members /\ OnlyBelow(heap, node, key, S)
         \/ Keys(heap) = members /\ SuccessorBelow(heap, node, key, S, t)
    /\ pc = "minimum" =>
         /\ t = NULL /\ Keys(heap) \ {key} = members
         /\ node \in DOMAIN heap /\ heap[node].key = key
         /\ heap[node].left \in DOMAIN heap /\ heap[node].right \in DOMAIN heap
         /\ p_current \in S[heap[node].right]
         /\ \A q \in S[heap[node].right] :
              q \in S[p_current] \/ heap[p_current].key < heap[q].key

-----------------------------------------------------------------------------
Ht(h, q) == IF q \in DOMAIN h THEN h[q].height ELSE 0

(* A node with subtrees of these heights knows its own and is balanced.    *)
Even(n, a, b) == n = 1 + max(a, b) /\ a - b \in -1..1

AvlNode(h, L, R, p) == Even(h[p].height, Ht(h, L[p]), Ht(h, R[p]))

(* A subtree that has grown is higher on the key's side.                   *)
GrownAt(h, n, k, old) ==
    h[n].height = old + 1 =>
      \/ old = 0
      \/ k < h[n].key /\ Ht(h, h[n].left) > Ht(h, h[n].right)
      \/ k > h[n].key /\ Ht(h, h[n].left) < Ht(h, h[n].right)

(* The node of the last waiting call has the height that it had with a     *)
(* subtree of height old in the place of n.                                *)
Slack(h, f, n, old) ==
    LET other == IF f.at = "left" THEN h[f.node].right ELSE h[f.node].left
    IN  Even(h[f.node].height, old, Ht(h, other))

HeightsKept ==
    /\ \A p \in DOMAIN heap :
         \/ AvlNode(heap, LinksL(heap, frames, node), LinksR(heap, frames, node), p)
         \/ /\ pc \in {"insertReturns", "deleteReturns"}
            /\ frames # <<>> /\ p = frames[1].node
    /\ pc = "insertReturns" =>
         /\ node \in DOMAIN heap
         /\ frames # <<>> => \E old \in Nat :
              /\ Slack(heap, frames[1], node, old)
              /\ Ht(heap, node) \in {old, old + 1}
              /\ GrownAt(heap, node, key, old)
    /\ pc = "deleteReturns" /\ frames # <<>> =>
         \E old \in Nat :
            /\ Slack(heap, frames[1], node, old)
            /\ Ht(heap, node) \in {old, old - 1}

-----------------------------------------------------------------------------
(* deleteTree: what its calls have freed is gone, what they have to free   *)
(* hangs on them.                                                          *)
Live(h, q) == q \in DOMAIN h \cup {NULL}

StillToFree(h, f, top) ==
    CASE f.at = "left"  -> top /\ Live(h, h[f.node].left) /\ Live(h, h[f.node].right)
      [] f.at = "right" -> /\ (top => h[f.node].left \notin DOMAIN h)
                           /\ Live(h, h[f.node].right)
      [] f.at = "free"  -> /\ h[f.node].left \notin DOMAIN h
                           /\ (top => h[f.node].right \notin DOMAIN h)

Freeing(h, fs, S) ==
    LET L == [q \in DOMAIN h |-> h[q].left]
        R == [q \in DOMAIN h |-> h[q].right]
    IN  /\ fs # <<>>
        /\ Tree(DOMAIN h, L, R, S, fs[Len(fs)].node)
        /\ \A x \in DOMAIN fs :
             /\ fs[x].node \in DOMAIN h
             /\ StillToFree(h, fs[x], x = 1)
        /\ \A x \in 2..Len(fs) :
             fs[x - 1].node = IF fs[x].at = "right" THEN h[fs[x].node].left
                                                    ELSE h[fs[x].node].right
        /\ \A x, y \in DOMAIN fs :
             x < y => fs[x].node \in S[fs[y].node] /\ fs[y].node \notin S[fs[x].node]
        /\ \A p \in DOMAIN h :
             \/ Live(h, h[p].left) /\ Live(h, h[p].right)
             \/ \E x \in DOMAIN fs : fs[x].node = p

-----------------------------------------------------------------------------
Pointer == Address \cup {NULL}

NodeType ==
    IF program = "avl"
    THEN [key : Int, left : Pointer, right : Pointer, height : Nat]
    ELSE [key : Int, left : Pointer, right : Pointer]

TreeTypeOK ==
    /\ program \in {"avl", "bst"}
    /\ DOMAIN heap \subseteq Address
    /\ heap \in [DOMAIN heap -> NodeType]
    /\ root \in Pointer /\ node \in Pointer /\ p_current \in Pointer
    /\ members \subseteq Int /\ key \in Int
    /\ pc \in {"idle", "insert", "insertReturns", "deleteTree"}
              \cup (IF program = "avl" THEN {"delete", "deleteReturns", "minimum"} ELSE {})
    /\ frames \in Seq([node : Address,
                       at : {"left", "right"} \cup IF pc = "deleteTree" THEN {"free"} ELSE {}])
    /\ pc = "idle" => frames = <<>>

TreeKept(S) ==
    /\ IF pc = "idle" THEN Shape(heap, <<>>, root, root, S)
                      ELSE Shape(heap, frames, node, root, S)
    /\ pc \in {"insert", "delete", "minimum"} => Handed(heap, frames, node, root)
    /\ pc = "insertReturns" /\ program = "bst" /\ frames = <<>> => root \in {NULL, node}

IInv ==
    /\ TreeTypeOK
    /\ pc # "deleteTree" =>
         \E S, t : TreeKept(S) /\ KeysKept(S, t)
    /\ pc # "deleteTree" /\ program = "avl" => HeightsKept
    /\ pc = "deleteTree" => root = NULL /\ members = {} /\ \E S : Freeing(heap, frames, S)

-----------------------------------------------------------------------------
(* Induction over a tree: a set of nodes that is not empty has one whose   *)
(* links lead out of the set.                                              *)
LEMMA Deepest ==
    ASSUME NEW D, NEW L, NEW R, NEW S, IsFiniteSet(D), Nest(D, L, R, S),
           NEW B, B \subseteq D, B # {}
    PROVE  \E p \in B : L[p] \notin B /\ R[p] \notin B
  <1> DEFINE T == {S[p] : p \in B}
             O == StrictSubsetOrdering(D)
  <1>1. IsWellFoundedOn(O, SUBSET D)
    BY FS_StrictSubsetOrderingWellFounded, FS_FiniteSubsetsOfFinite
  <1>2. T \subseteq SUBSET D /\ T # {}
    BY DEF Nest
  <1>3. PICK x \in T : \A y \in T : ~(<<y, x>> \in O)
    <2> HIDE DEF T, O
    <2> QED
      BY <1>1, <1>2, WFMin
  <1>4. PICK p \in B : x = S[p]
    OBVIOUS
  <1>5. ASSUME NEW q \in B, q \in {L[p], R[p]} PROVE FALSE
    <2>1. S[q] \subseteq S[p] /\ p \in S[p] /\ p \notin S[q] /\ S[p] \subseteq D
      BY <1>5 DEF Nest, Below
    <2>2. S[q] \in T /\ S[p] \in T
      OBVIOUS
    <2>3. <<S[q], S[p]>> \in O
      BY <2>1 DEF StrictSubsetOrdering
    <2> QED
      BY <1>3, <1>4, <2>2, <2>3
  <1> QED
    BY <1>5

(* What is below a node has only nodes that are below it.                  *)
LEMMA BelowBelow ==
    ASSUME NEW D, NEW L, NEW R, NEW S, IsFiniteSet(D), Nest(D, L, R, S)
    PROVE  \A p \in D : \A q \in S[p] : q \in D /\ S[q] \subseteq S[p]
  <1> DEFINE B == {p \in D : \E q \in S[p] : ~(S[q] \subseteq S[p])}
  <1>1. SUFFICES B = {}
    BY <1>1 DEF Nest
  <1>2. SUFFICES ASSUME B # {} PROVE FALSE
    OBVIOUS
  <1>3. PICK p \in B : L[p] \notin B /\ R[p] \notin B
    <2>1. B \subseteq D
      OBVIOUS
    <2> HIDE DEF B
    <2> QED
      BY <1>2, <2>1, Deepest
  <1>4. PICK q \in S[p] : ~(S[q] \subseteq S[p])
    OBVIOUS
  <1>5. ASSUME NEW c \in D, c \in {L[p], R[p]}, q \in S[c] PROVE FALSE
    <2>1. S[q] \subseteq S[c]
      BY <1>3, <1>5
    <2>2. S[c] \subseteq S[p]
      BY <1>5 DEF Nest, Below
    <2> QED
      BY <1>4, <2>1, <2>2
  <1> QED
    BY <1>4, <1>5 DEF Nest, Below

(* A child and its parent.                                                 *)
LEMMA ChildBelow ==
    ASSUME NEW D, NEW L, NEW R, NEW S, Nest(D, L, R, S),
           NEW p \in D, NEW c \in D, c \in {L[p], R[p]}
    PROVE  /\ p \in S[p] /\ c \in S[c] /\ c \in S[p] /\ p \notin S[c]
           /\ S[c] \subseteq S[p] /\ c # p
  <1>1. p \in S[p] /\ c \in S[c]
    BY DEF Nest
  <1>2. S[c] \in {Below(D, S, L[p]), Below(D, S, R[p])}
    BY DEF Below
  <1> QED
    BY <1>1, <1>2 DEF Nest

(* No two nodes are below each other.                                      *)
LEMMA NotBelowEachOther ==
    ASSUME NEW D, NEW L, NEW R, NEW S, IsFiniteSet(D), Nest(D, L, R, S),
           NEW p \in D, NEW q \in D, q \in S[p], p \in S[q]
    PROVE  p = q
  <1>1. SUFFICES ASSUME p # q PROVE FALSE
    OBVIOUS
  <1>2. PICK c \in D : c \in {L[p], R[p]} /\ q \in S[c] /\ p \notin S[c]
    BY <1>1 DEF Nest, Below
  <1>3. S[q] \subseteq S[c]
    BY <1>2, BelowBelow
  <1> QED
    BY <1>2, <1>3

(* Where the ways from the root to two nodes part.                         *)
LEMMA Meet ==
    ASSUME NEW D, NEW L, NEW R, NEW S, NEW r, IsFiniteSet(D), Tree(D, L, R, S, r),
           NEW p \in D, NEW q \in D
    PROVE  \E m \in D :
             /\ p \in S[m] /\ q \in S[m]
             /\ \/ m = p
                \/ m = q
                \/ p \in Below(D, S, L[m]) /\ q \in Below(D, S, R[m])
                \/ q \in Below(D, S, L[m]) /\ p \in Below(D, S, R[m])
  <1> DEFINE B == {m \in D : p \in S[m] /\ q \in S[m]}
  <1>1. r \in B
    BY DEF Tree, Below
  <1>2. PICK m \in B : L[m] \notin B /\ R[m] \notin B
    <2>1. B \subseteq D /\ B # {} /\ Nest(D, L, R, S)
      BY <1>1 DEF Tree
    <2> HIDE DEF B
    <2> QED
      BY <2>1, Deepest
  <1> QED
    BY <1>2 DEF Tree, Nest, Below

(* Of two nodes one is below the other or they have nothing in common.     *)
LEMMA Comparable ==
    ASSUME NEW D, NEW L, NEW R, NEW S, NEW r, IsFiniteSet(D), Tree(D, L, R, S, r),
           NEW p \in D, NEW q \in D, NEW c, c \in S[p], c \in S[q]
    PROVE  q \in S[p] \/ p \in S[q]
  <1>1. PICK m \in D :
             /\ p \in S[m] /\ q \in S[m]
             /\ \/ m = p
                \/ m = q
                \/ p \in Below(D, S, L[m]) /\ q \in Below(D, S, R[m])
                \/ q \in Below(D, S, L[m]) /\ p \in Below(D, S, R[m])
    BY Meet
  <1>2. ASSUME NEW a \in D, NEW b \in D, p \in S[a], q \in S[b], S[a] \cap S[b] = {}
        PROVE  FALSE
    <2>1. S[p] \subseteq S[a] /\ S[q] \subseteq S[b]
      BY <1>2, BelowBelow DEF Tree
    <2> QED
      BY <1>2, <2>1
  <1> QED
    BY <1>1, <1>2 DEF Tree, Nest, Below

(* Whoever is above a node but is not the node is above its parent.        *)
LEMMA ParentAbove ==
    ASSUME NEW D, NEW L, NEW R, NEW S, NEW r, IsFiniteSet(D), Tree(D, L, R, S, r),
           NEW p \in D, NEW c \in D, c \in {L[p], R[p]},
           NEW q \in D, c \in S[q], q # c
    PROVE  p \in S[q]
  <1>1. c \in S[p] /\ Nest(D, L, R, S)
    BY DEF Tree, Nest, Below
  <1>2. SUFFICES ASSUME q \in S[p], q # p PROVE FALSE
    BY <1>1, Comparable DEF Tree, Nest
  <1>3. PICK b \in D : b \in {L[p], R[p]} /\ q \in S[b]
    BY <1>2 DEF Tree, Nest, Below
  <1>4. c \in S[b]
    BY <1>1, <1>3, BelowBelow
  <1>5. b = c
    BY <1>3, <1>4 DEF Tree, Nest, Below
  <1> QED
    BY <1>1, <1>3, <1>5, NotBelowEachOther

(* A node hangs on one link only.                                          *)
LEMMA OneParent ==
    ASSUME NEW D, NEW L, NEW R, NEW S, NEW r, IsFiniteSet(D), Tree(D, L, R, S, r),
           NEW p \in D, NEW c \in D, c \in {L[p], R[p]},
           NEW q \in D, c \in {L[q], R[q]}
    PROVE  p = q
  <1>1. Nest(D, L, R, S) /\ c \in S[p] /\ c \in S[q] /\ p \notin S[c] /\ q \notin S[c]
    BY DEF Tree, Nest, Below
  <1>2. c \in S[c]
    BY DEF Tree, Nest
  <1>3. p \in S[q] /\ q \in S[p]
    BY <1>1, <1>2, ParentAbove
  <1> QED
    BY <1>1, <1>3, NotBelowEachOther

(* A child has one link to it.                                             *)
LEMMA OneLink ==
    ASSUME NEW D, NEW L, NEW R, NEW S, Nest(D, L, R, S),
           NEW p \in D, NEW c \in D, c = L[p]
    PROVE  c # R[p]
  BY DEF Nest, Below

(* No link leads to the root.                                              *)
LEMMA RootHasNoParent ==
    ASSUME NEW D, NEW L, NEW R, NEW S, NEW r, Tree(D, L, R, S, r),
           NEW p \in D
    PROVE  r \in D /\ L[p] # r /\ R[p] # r
  BY DEF Tree, Nest, Below

-----------------------------------------------------------------------------
(* A pointer, when x takes the place of y.                                 *)
Instead(p, y, x) == IF p = y THEN x ELSE p

(* A rotation: x, the left child of y, takes the place of y.  The mirrored *)
(* one has L and R exchanged.                                              *)
Turned(D, L, R, y, x, L2, R2) ==
    \A q \in D :
      /\ L2[q] = IF q = y THEN R[x] ELSE IF L[q] = y THEN x ELSE L[q]
      /\ R2[q] = IF q = x THEN y ELSE IF R[q] = y THEN x ELSE R[q]

TurnedSets(D, S, R, y, x) ==
    [p \in D |-> IF p = x THEN S[y]
                 ELSE IF p = y THEN {y} \cup Below(D, S, R[x]) \cup Below(D, S, R[y])
                 ELSE S[p]]

(* What is below whom before and after a rotation.                         *)
Regrouped(D, L, R, S, y, x, L2, R2, S2) ==
    /\ x # y
    /\ \A p \in D \ {x, y} :
         /\ S2[p] = S[p]
         /\ Below(D, S2, L2[p]) = Below(D, S, L[p])
         /\ Below(D, S2, R2[p]) = Below(D, S, R[p])
    /\ S2[x] = S[y]
    /\ Below(D, S2, L2[x]) = Below(D, S, L[x])
    /\ Below(D, S2, R2[x]) = S2[y]
    /\ S2[y] = {y} \cup Below(D, S, R[x]) \cup Below(D, S, R[y])
    /\ Below(D, S2, L2[y]) = Below(D, S, R[x])
    /\ Below(D, S2, R2[y]) = Below(D, S, R[y])

(* It is so after any rotation.                                            *)
LEMMA TurnBelow ==
    ASSUME NEW D, NEW L, NEW R, NEW S, NEW r, IsFiniteSet(D), Tree(D, L, R, S, r),
           NEW y \in D, NEW x \in D, x = L[y], NEW L2, NEW R2,
           Turned(D, L, R, y, x, L2, R2),
           NEW S2, S2 = TurnedSets(D, S, R, y, x)
    PROVE  Regrouped(D, L, R, S, y, x, L2, R2, S2)
  <1>1. Nest(D, L, R, S) /\ x # y /\ y \notin S[x]
    BY DEF Tree, Nest, Below
  <1>2. L[x] # x /\ L[x] # y /\ R[x] # x /\ R[x] # y /\ R[y] # x /\ R[y] # y
    BY <1>1, OneLink DEF Nest, Below
  <1>3. ASSUME NEW p \in D \ {x, y} PROVE L[p] # x /\ R[p] # x
    BY <1>3, OneParent
  <1>4. ASSUME NEW c \in D, c # x, c # y PROVE S2[c] = S[c]
    BY <1>4 DEF TurnedSets
  <1>5. S2[x] = S[y] /\ S2[y] = {y} \cup Below(D, S, R[x]) \cup Below(D, S, R[y])
    BY <1>1 DEF TurnedSets
  <1>6. ASSUME NEW p \in D \ {x, y}
        PROVE  /\ S2[p] = S[p]
               /\ Below(D, S2, L2[p]) = Below(D, S, L[p])
               /\ Below(D, S2, R2[p]) = Below(D, S, R[p])
    <2>1. L2[p] = IF L[p] = y THEN x ELSE L[p]
      BY DEF Turned
    <2>2. R2[p] = IF R[p] = y THEN x ELSE R[p]
      BY DEF Turned
    <2> QED
      BY <1>3, <1>4, <1>5, <1>6, <2>1, <2>2 DEF Below
  <1>7. L2[x] = L[x] /\ R2[x] = y /\ L2[y] = R[x] /\ R2[y] = R[y]
    BY <1>1, <1>2 DEF Turned
  <1> QED
    BY <1>1, <1>2, <1>4, <1>5, <1>6, <1>7 DEF Below, Regrouped

(* After a rotation there is one tree again.                               *)
LEMMA TurnTree ==
    ASSUME NEW D, NEW L, NEW R, NEW S, NEW r, IsFiniteSet(D), Tree(D, L, R, S, r),
           NEW y \in D, NEW x \in D, x = L[y], NEW L2, NEW R2,
           Turned(D, L, R, y, x, L2, R2),
           NEW S2, S2 = TurnedSets(D, S, R, y, x)
    PROVE  Tree(D, L2, R2, S2, Instead(r, y, x))
  <1>1. Regrouped(D, L, R, S, y, x, L2, R2, S2)
    BY TurnBelow
  <1>2. Nest(D, L, R, S)
    BY DEF Tree
  <1>3. S2 \in [D -> SUBSET D]
    <2>1. S \in [D -> SUBSET D]
      BY <1>2 DEF Nest
    <2>2. \A q : Below(D, S, q) \subseteq D
      BY <2>1 DEF Below
    <2> QED
      BY <2>1, <2>2 DEF TurnedSets
  <1>4. /\ S[y] = {y} \cup S[x] \cup Below(D, S, R[y])
        /\ S[x] = {x} \cup Below(D, S, L[x]) \cup Below(D, S, R[x])
        /\ y \notin S[x] /\ S[x] \cap Below(D, S, R[y]) = {} /\ y \notin Below(D, S, R[y])
        /\ x \notin Below(D, S, L[x]) /\ x \notin Below(D, S, R[x])
        /\ Below(D, S, L[x]) \cap Below(D, S, R[x]) = {}
    BY <1>2 DEF Nest, Below
  <1>5. ASSUME NEW p \in D
        PROVE  /\ S2[p] = {p} \cup Below(D, S2, L2[p]) \cup Below(D, S2, R2[p])
               /\ p \notin Below(D, S2, L2[p]) /\ p \notin Below(D, S2, R2[p])
               /\ Below(D, S2, L2[p]) \cap Below(D, S2, R2[p]) = {}
    <2>1. CASE p = x
      BY <1>1, <1>4, <2>1 DEF Regrouped
    <2>2. CASE p = y
      BY <1>1, <1>4, <2>2 DEF Regrouped
    <2>3. CASE p # x /\ p # y
      BY <1>1, <1>2, <2>3 DEF Nest, Regrouped
    <2> QED
      BY <2>1, <2>2, <2>3
  <1>6. Below(D, S2, Instead(r, y, x)) = D
    <2>1. Below(D, S, r) = D /\ r \in D
      BY DEF Tree, Below
    <2>2. r # x
      BY RootHasNoParent
    <2> QED
      BY <1>1, <2>1, <2>2 DEF Below, Regrouped, Instead
  <1> QED
    BY <1>3, <1>5, <1>6 DEF Tree, Nest

(* A rotation keeps the order; to the right and to the left.               *)
LEMMA TurnOrder ==
    ASSUME NEW D, NEW L, NEW R, NEW S, NEW r, IsFiniteSet(D), Tree(D, L, R, S, r),
           NEW y \in D, NEW x \in D, x = L[y], NEW L2, NEW R2,
           Turned(D, L, R, y, x, L2, R2),
           NEW S2, S2 = TurnedSets(D, S, R, y, x),
           NEW K \in [D -> Int], NEW t, t \notin D
    PROVE  /\ Ordered(D, L, R, S, K, t) => Ordered(D, L2, R2, S2, K, t)
           /\ Ordered(D, R, L, S, K, t) => Ordered(D, R2, L2, S2, K, t)
  <1>1. Regrouped(D, L, R, S, y, x, L2, R2, S2)
    BY TurnBelow
  <1>2. /\ Below(D, S, L[y]) = {x} \cup Below(D, S, L[x]) \cup Below(D, S, R[x])
        /\ \A q : Below(D, S, q) \subseteq D
    BY DEF Tree, Nest, Below
  <1>3. ASSUME Ordered(D, L, R, S, K, t) PROVE Ordered(D, L2, R2, S2, K, t)
    <2>1. ASSUME NEW q \in S2[y] PROVE K[x] < K[q]
      <3>1. K[x] < K[y] /\ K[x] \in Int /\ K[y] \in Int
        BY <1>2, <1>3 DEF Ordered
      <3>2. CASE q = y
        BY <3>1, <3>2
      <3>3. CASE q \in Below(D, S, R[x])
        BY <1>3, <3>3 DEF Ordered
      <3>4. CASE q \in Below(D, S, R[y])
        <4>1. K[y] < K[q] /\ K[q] \in Int
          BY <1>2, <1>3, <3>4 DEF Ordered
        <4> QED
          BY <3>1, <4>1
      <3> QED
        BY <1>1, <2>1, <3>2, <3>3, <3>4 DEF Regrouped
    <2>2. \A q \in Below(D, S, R[x]) : K[q] < K[y]
      BY <1>2, <1>3 DEF Ordered
    <2> QED
      BY <1>1, <1>3, <2>1, <2>2 DEF Ordered, Regrouped
  <1>4. ASSUME Ordered(D, R, L, S, K, t) PROVE Ordered(D, R2, L2, S2, K, t)
    <2>1. ASSUME NEW q \in S2[y] PROVE K[q] < K[x]
      <3>1. K[y] < K[x] /\ K[x] \in Int /\ K[y] \in Int
        BY <1>2, <1>4 DEF Ordered
      <3>2. CASE q = y
        BY <3>1, <3>2
      <3>3. CASE q \in Below(D, S, R[x])
        BY <1>4, <3>3 DEF Ordered
      <3>4. CASE q \in Below(D, S, R[y])
        <4>1. K[q] < K[y] /\ K[q] \in Int
          BY <1>2, <1>4, <3>4 DEF Ordered
        <4> QED
          BY <3>1, <4>1
      <3> QED
        BY <1>1, <2>1, <3>2, <3>3, <3>4 DEF Regrouped
    <2>2. \A q \in Below(D, S, R[x]) : K[y] < K[q]
      BY <1>2, <1>4 DEF Ordered
    <2> QED
      BY <1>1, <1>4, <2>1, <2>2 DEF Ordered, Regrouped
  <1> QED
    BY <1>3, <1>4

-----------------------------------------------------------------------------
(* A new leaf z on the empty left link of u; for the other side L and R are*)
(* exchanged.                                                              *)
Grafted(D, L, R, u, z, L2, R2) ==
    /\ L2[z] \notin D \cup {z} /\ R2[z] \notin D \cup {z}
    /\ \A q \in D : /\ L[q] # z /\ R[q] # z
                    /\ L2[q] = IF q = u THEN z ELSE L[q]
                    /\ R2[q] = R[q]

GraftedSets(D, S, u, z) ==
    [p \in D \cup {z} |-> IF p = z THEN {z} ELSE IF u \in S[p] THEN S[p] \cup {z} ELSE S[p]]

(* What is below whom before and after it.                                 *)
WithLeaf(D, L, R, S, u, z, L2, R2, S2) ==
    /\ Below(D \cup {z}, S2, L2[z]) = {} /\ Below(D \cup {z}, S2, R2[z]) = {}
    /\ S2[z] = {z}
    /\ \A p \in D :
         /\ S2[p] = S[p] \cup (IF u \in S[p] THEN {z} ELSE {})
         /\ Below(D \cup {z}, S2, L2[p]) =
              Below(D, S, L[p]) \cup (IF p = u \/ u \in Below(D, S, L[p]) THEN {z} ELSE {})
         /\ Below(D \cup {z}, S2, R2[p]) =
              Below(D, S, R[p]) \cup (IF u \in Below(D, S, R[p]) THEN {z} ELSE {})

(* It is so after any graft.                                               *)
LEMMA GraftBelow ==
    ASSUME NEW D, NEW L, NEW R, NEW S, Nest(D, L, R, S),
           NEW u \in D, L[u] \notin D, NEW z, z \notin D, NEW L2, NEW R2,
           Grafted(D, L, R, u, z, L2, R2),
           NEW S2, S2 = GraftedSets(D, S, u, z)
    PROVE  WithLeaf(D, L, R, S, u, z, L2, R2, S2)
  <1>1. S2[z] = {z}
    BY DEF GraftedSets
  <1>2. \A p \in D : S2[p] = S[p] \cup (IF u \in S[p] THEN {z} ELSE {})
    BY DEF GraftedSets
  <1>3. ASSUME NEW p \in D
        PROVE  /\ Below(D \cup {z}, S2, L2[p]) =
                    Below(D, S, L[p]) \cup (IF p = u \/ u \in Below(D, S, L[p]) THEN {z} ELSE {})
               /\ Below(D \cup {z}, S2, R2[p]) =
                    Below(D, S, R[p]) \cup (IF u \in Below(D, S, R[p]) THEN {z} ELSE {})
    BY <1>1, <1>2 DEF Grafted, Below
  <1> QED
    BY <1>1, <1>2, <1>3 DEF Grafted, Below, WithLeaf

(* A tree with a new leaf is a tree.                                       *)
LEMMA GraftTree ==
    ASSUME NEW D, NEW L, NEW R, NEW S, NEW r, Tree(D, L, R, S, r),
           NEW u \in D, L[u] \notin D, NEW z, z \notin D, NEW L2, NEW R2,
           Grafted(D, L, R, u, z, L2, R2),
           NEW S2, S2 = GraftedSets(D, S, u, z)
    PROVE  Tree(D \cup {z}, L2, R2, S2, r)
  <1>1. Nest(D, L, R, S) /\ S \in [D -> SUBSET D] /\ r \in D /\ S[r] = D
    BY DEF Tree, Nest, Below
  <1>2. WithLeaf(D, L, R, S, u, z, L2, R2, S2)
    BY <1>1, GraftBelow
  <1>3. S2 \in [D \cup {z} -> SUBSET (D \cup {z})]
    BY <1>1 DEF GraftedSets
  <1>4. \A q : Below(D, S, q) \subseteq D
    BY <1>1 DEF Below
  <1>5. ASSUME NEW p \in D
        PROVE  /\ S2[p] = {p} \cup Below(D \cup {z}, S2, L2[p]) \cup Below(D \cup {z}, S2, R2[p])
               /\ p \notin Below(D \cup {z}, S2, L2[p]) /\ p \notin Below(D \cup {z}, S2, R2[p])
               /\ Below(D \cup {z}, S2, L2[p]) \cap Below(D \cup {z}, S2, R2[p]) = {}
    <2>1. /\ S[p] = {p} \cup Below(D, S, L[p]) \cup Below(D, S, R[p])
          /\ p \notin Below(D, S, L[p]) /\ p \notin Below(D, S, R[p])
          /\ Below(D, S, L[p]) \cap Below(D, S, R[p]) = {}
      BY <1>1 DEF Nest
    <2>2. z \notin Below(D, S, L[p]) /\ z \notin Below(D, S, R[p]) /\ p # z
      BY <1>4
    <2>7. /\ S2[p] = S[p] \cup (IF u \in S[p] THEN {z} ELSE {})
          /\ Below(D \cup {z}, S2, L2[p]) =
               Below(D, S, L[p]) \cup (IF p = u \/ u \in Below(D, S, L[p]) THEN {z} ELSE {})
          /\ Below(D \cup {z}, S2, R2[p]) =
               Below(D, S, R[p]) \cup (IF u \in Below(D, S, R[p]) THEN {z} ELSE {})
      BY <1>2 DEF WithLeaf
    <2>3. CASE p = u
      <3>1. /\ S2[p] = S[p] \cup {z}
            /\ Below(D \cup {z}, S2, L2[p]) = Below(D, S, L[p]) \cup {z}
            /\ Below(D \cup {z}, S2, R2[p]) = Below(D, S, R[p])
        BY <1>2, <2>1, <2>3 DEF WithLeaf
      <3> QED
        BY <2>1, <2>2, <3>1
    <2>4. CASE u \in Below(D, S, L[p])
      <3>1. u \in S[p] /\ u \notin Below(D, S, R[p])
        BY <2>1, <2>4
      <3>2. /\ S2[p] = S[p] \cup {z}
            /\ Below(D \cup {z}, S2, L2[p]) = Below(D, S, L[p]) \cup {z}
            /\ Below(D \cup {z}, S2, R2[p]) = Below(D, S, R[p])
        BY <2>4, <2>7, <3>1
      <3> QED
        BY <2>1, <2>2, <3>2
    <2>5. CASE u \in Below(D, S, R[p])
      <3>1. u \in S[p] /\ u \notin Below(D, S, L[p]) /\ p # u
        BY <2>1, <2>5
      <3>2. /\ S2[p] = S[p] \cup {z}
            /\ Below(D \cup {z}, S2, L2[p]) = Below(D, S, L[p])
            /\ Below(D \cup {z}, S2, R2[p]) = Below(D, S, R[p]) \cup {z}
        BY <2>5, <2>7, <3>1
      <3> QED
        BY <2>1, <2>2, <3>2
    <2>6. CASE u # p /\ u \notin Below(D, S, L[p]) /\ u \notin Below(D, S, R[p])
      BY <1>2, <2>1, <2>6 DEF WithLeaf
    <2> QED
      BY <2>3, <2>4, <2>5, <2>6
  <1>6. Below(D \cup {z}, S2, r) = D \cup {z}
    BY <1>1, <1>2 DEF WithLeaf, Below
  <1> QED
    BY <1>2, <1>3, <1>5, <1>6 DEF Tree, Nest, WithLeaf

(* A leaf whose key fits its place keeps the order.                        *)
LEMMA GraftOrder ==
    ASSUME NEW D, NEW L, NEW R, NEW S, Nest(D, L, R, S),
           NEW u \in D, L[u] \notin D, NEW z, z \notin D, NEW L2, NEW R2,
           Grafted(D, L, R, u, z, L2, R2),
           NEW S2, S2 = GraftedSets(D, S, u, z), NEW t,
           NEW K, NEW K2, \A p \in D : K2[p] = K[p],
           Ordered(D, L, R, S, K, t), K2[z] < K[u],
           \A p \in D : /\ u \in Below(D, S, L[p]) => K2[z] < K[p]
                        /\ u \in Below(D, S, R[p]) => K[p] < K2[z]
    PROVE  Ordered(D \cup {z}, L2, R2, S2, K2, t)
  <1>1. WithLeaf(D, L, R, S, u, z, L2, R2, S2)
    BY GraftBelow
  <1>2. \A q : Below(D, S, q) \subseteq D
    BY DEF Nest, Below
  <1>3. ASSUME NEW p \in D \cup {z}
        PROVE  /\ \A q \in Below(D \cup {z}, S2, L2[p]) : K2[q] < K2[p]
               /\ \A q \in Below(D \cup {z}, S2, R2[p]) :
                    K2[p] < K2[q] \/ (p = t /\ K2[p] = K2[q])
    <2>1. CASE p = z
      BY <1>1, <2>1 DEF WithLeaf
    <2>2. CASE p \in D
      <3>1. /\ \A q \in Below(D, S, L[p]) : K2[q] < K2[p]
            /\ \A q \in Below(D, S, R[p]) :
                 K2[p] < K2[q] \/ (p = t /\ K2[p] = K2[q])
        BY <1>2, <2>2 DEF Ordered
      <3>2. /\ z \in Below(D \cup {z}, S2, L2[p]) => K2[z] < K2[p]
            /\ z \in Below(D \cup {z}, S2, R2[p]) => K2[p] < K2[z]
        <4>1. /\ z \in Below(D \cup {z}, S2, L2[p]) => p = u \/ u \in Below(D, S, L[p])
              /\ z \in Below(D \cup {z}, S2, R2[p]) => u \in Below(D, S, R[p])
          BY <1>1, <1>2, <2>2 DEF WithLeaf
        <4> QED
          BY <2>2, <4>1
      <3>3. /\ Below(D \cup {z}, S2, L2[p]) \subseteq Below(D, S, L[p]) \cup {z}
            /\ Below(D \cup {z}, S2, R2[p]) \subseteq Below(D, S, R[p]) \cup {z}
        BY <1>1, <2>2 DEF WithLeaf
      <3> QED
        BY <3>1, <3>2, <3>3
    <2> QED
      BY <2>1, <2>2
  <1> QED
    BY <1>3 DEF Ordered

(* So it does on the other side.                                           *)
LEMMA GraftOrderRight ==
    ASSUME NEW D, NEW L, NEW R, NEW S, Nest(D, L, R, S),
           NEW u \in D, L[u] \notin D, NEW z, z \notin D, NEW L2, NEW R2,
           Grafted(D, L, R, u, z, L2, R2),
           NEW S2, S2 = GraftedSets(D, S, u, z), NEW t,
           NEW K, NEW K2, \A p \in D : K2[p] = K[p],
           Ordered(D, R, L, S, K, t), K[u] < K2[z],
           \A p \in D : /\ u \in Below(D, S, L[p]) => K[p] < K2[z]
                        /\ u \in Below(D, S, R[p]) => K2[z] < K[p]
    PROVE  Ordered(D \cup {z}, R2, L2, S2, K2, t)
  <1>1. WithLeaf(D, L, R, S, u, z, L2, R2, S2)
    BY GraftBelow
  <1>2. \A q : Below(D, S, q) \subseteq D
    BY DEF Nest, Below
  <1>3. ASSUME NEW p \in D \cup {z}
        PROVE  /\ \A q \in Below(D \cup {z}, S2, R2[p]) : K2[q] < K2[p]
               /\ \A q \in Below(D \cup {z}, S2, L2[p]) :
                    K2[p] < K2[q] \/ (p = t /\ K2[p] = K2[q])
    <2>1. CASE p = z
      BY <1>1, <2>1 DEF WithLeaf
    <2>2. CASE p \in D
      <3>1. /\ \A q \in Below(D, S, R[p]) : K2[q] < K2[p]
            /\ \A q \in Below(D, S, L[p]) :
                 K2[p] < K2[q] \/ (p = t /\ K2[p] = K2[q])
        BY <1>2, <2>2 DEF Ordered
      <3>2. /\ z \in Below(D \cup {z}, S2, R2[p]) => K2[z] < K2[p]
            /\ z \in Below(D \cup {z}, S2, L2[p]) => K2[p] < K2[z]
        <4>1. /\ z \in Below(D \cup {z}, S2, R2[p]) => u \in Below(D, S, R[p])
              /\ z \in Below(D \cup {z}, S2, L2[p]) => p = u \/ u \in Below(D, S, L[p])
          BY <1>1, <1>2, <2>2 DEF WithLeaf
        <4> QED
          BY <2>2, <4>1
      <3>3. /\ Below(D \cup {z}, S2, L2[p]) \subseteq Below(D, S, L[p]) \cup {z}
            /\ Below(D \cup {z}, S2, R2[p]) \subseteq Below(D, S, R[p]) \cup {z}
        BY <1>1, <2>2 DEF WithLeaf
      <3> QED
        BY <3>1, <3>2, <3>3
    <2> QED
      BY <2>1, <2>2
  <1> QED
    BY <1>3 DEF Ordered

-----------------------------------------------------------------------------
(* The node n, with nothing below it, is taken out.                        *)
Pruned(D, L, R, n, L2, R2) ==
    \A q \in D \ {n} :
      /\ L2[q] = L[q] \/ (L[q] = n /\ L2[q] \notin D)
      /\ R2[q] = R[q] \/ (R[q] = n /\ R2[q] \notin D)

Without(D, S, n) == [p \in D \ {n} |-> S[p] \ {n}]

(* The nodes of D2 have the same below them as before, but for n.          *)
Lessened(D, L, R, S, D2, n, L2, R2) ==
    \A p \in D2 :
      /\ Below(D \ {n}, Without(D, S, n), L2[p]) = Below(D, S, L[p]) \ {n}
      /\ Below(D \ {n}, Without(D, S, n), R2[p]) = Below(D, S, R[p]) \ {n}

(* What is below whom, then.                                               *)
LEMMA PruneBelow ==
    ASSUME NEW D, NEW L, NEW R, NEW S, Nest(D, L, R, S),
           NEW n \in D, L[n] \notin D, R[n] \notin D, NEW L2, NEW R2,
           Pruned(D, L, R, n, L2, R2)
    PROVE  Lessened(D, L, R, S, D \ {n}, n, L2, R2)
  <1>1. S[n] = {n}
    BY DEF Nest, Below
  <1>2. \A q \in D \ {n} : Without(D, S, n)[q] = S[q] \ {n}
    BY DEF Without
  <1> QED
    BY <1>1, <1>2 DEF Pruned, Below, Lessened

(* Without a node that has no children the rest is a tree.                 *)
LEMMA PruneTree ==
    ASSUME NEW D, NEW L, NEW R, NEW S, NEW r, Tree(D, L, R, S, r),
           NEW n \in D, L[n] \notin D, R[n] \notin D, NEW L2, NEW R2,
           Pruned(D, L, R, n, L2, R2), NEW r2, r = n \/ r2 = r
    PROVE  Tree(D \ {n}, L2, R2, Without(D, S, n), r2)
  <1>1. Nest(D, L, R, S) /\ r \in D /\ S[r] = D /\ S[n] = {n} /\ S \in [D -> SUBSET D]
    BY DEF Tree, Nest, Below
  <1>2. Without(D, S, n) \in [D \ {n} -> SUBSET (D \ {n})]
    BY <1>1 DEF Without
  <1>3. Lessened(D, L, R, S, D \ {n}, n, L2, R2)
    BY <1>1, PruneBelow
  <1>6. \A p \in D \ {n} : Without(D, S, n)[p] = S[p] \ {n}
    BY DEF Without
  <1>4. Below(D \ {n}, Without(D, S, n), r2) = D \ {n}
    <2>1. CASE r = n
      BY <1>1, <2>1 DEF Below
    <2>2. CASE r # n
      BY <1>1, <2>2 DEF Below, Without
    <2> QED
      BY <2>1, <2>2
  <1>5. ASSUME NEW p \in D \ {n}
        PROVE  /\ S[p] \ {n} = {p} \cup (Below(D, S, L[p]) \ {n}) \cup (Below(D, S, R[p]) \ {n})
               /\ p \notin Below(D, S, L[p]) \ {n} /\ p \notin Below(D, S, R[p]) \ {n}
               /\ (Below(D, S, L[p]) \ {n}) \cap (Below(D, S, R[p]) \ {n}) = {}
    BY <1>1 DEF Nest
  <1> QED
    <2>1. ASSUME NEW p \in D \ {n}
          PROVE  LET l == Below(D \ {n}, Without(D, S, n), L2[p])
                     k == Below(D \ {n}, Without(D, S, n), R2[p])
                 IN  /\ Without(D, S, n)[p] = {p} \cup l \cup k
                     /\ p \notin l /\ p \notin k /\ l \cap k = {}
      BY <1>3, <1>5, <1>6 DEF Lessened
    <2> QED
      BY <1>2, <1>4, <2>1 DEF Tree, Nest

-----------------------------------------------------------------------------
(* The node n takes over the links of its only child c, which is taken out.*)
Absorbed(D, L, R, n, c, L2, R2) ==
    /\ L2[n] = L[c] /\ R2[n] = R[c]
    /\ \A q \in D \ {n, c} : L2[q] = L[q] /\ R2[q] = R[q]

OnlyChild(D, L, R, n, c) ==
    c \in D /\ ((c = L[n] /\ R[n] \notin D) \/ (c = R[n] /\ L[n] \notin D))

(* What is below whom, then.                                               *)
Merged(D, L, R, S, n, c, L2, R2) ==
    /\ n # c
    /\ Lessened(D, L, R, S, D \ {n, c}, c, L2, R2)
    /\ Below(D \ {c}, Without(D, S, c), L2[n]) = Below(D, S, L[c])
    /\ Below(D \ {c}, Without(D, S, c), R2[n]) = Below(D, S, R[c])
    /\ S[n] = {n} \cup S[c]
    /\ S[c] = {c} \cup Below(D, S, L[c]) \cup Below(D, S, R[c])

(* It is so whenever a node absorbs its only child.                        *)
LEMMA AbsorbBelow ==
    ASSUME NEW D, NEW L, NEW R, NEW S, NEW r, IsFiniteSet(D), Tree(D, L, R, S, r),
           NEW n \in D, NEW c, OnlyChild(D, L, R, n, c), NEW L2, NEW R2,
           Absorbed(D, L, R, n, c, L2, R2)
    PROVE  Merged(D, L, R, S, n, c, L2, R2)
  <1>1. Nest(D, L, R, S) /\ c \in D /\ c \in {L[n], R[n]}
    BY DEF Tree, OnlyChild
  <1>2. n # c /\ S[n] = {n} \cup S[c] /\ n \notin S[c]
    BY <1>1 DEF Nest, Below, OnlyChild
  <1>3. \A p \in D \ {n, c} : L[p] # c /\ R[p] # c
    BY <1>1, OneParent
  <1>4. \A p \in D \ {c} : Without(D, S, c)[p] = S[p] \ {c}
    BY DEF Without
  <1>5. ASSUME NEW p \in D \ {n, c}
        PROVE  /\ Below(D \ {c}, Without(D, S, c), L2[p]) = Below(D, S, L[p]) \ {c}
               /\ Below(D \ {c}, Without(D, S, c), R2[p]) = Below(D, S, R[p]) \ {c}
    BY <1>3, <1>4 DEF Absorbed, Below
  <1>6. /\ S[c] = {c} \cup Below(D, S, L[c]) \cup Below(D, S, R[c])
        /\ c \notin Below(D, S, L[c]) /\ c \notin Below(D, S, R[c])
    BY <1>1 DEF Nest
  <1>7. /\ L[c] # c /\ R[c] # c
    BY <1>1 DEF Nest, Below
  <1>9. ASSUME NEW q, q \in {L[c], R[c]}
        PROVE  Below(D \ {c}, Without(D, S, c), q) = Below(D, S, q)
    BY <1>4, <1>6, <1>7, <1>9 DEF Below
  <1>8. /\ Below(D \ {c}, Without(D, S, c), L2[n]) = Below(D, S, L[c])
        /\ Below(D \ {c}, Without(D, S, c), R2[n]) = Below(D, S, R[c])
    BY <1>9 DEF Absorbed
  <1> QED
    BY <1>2, <1>5, <1>6, <1>8 DEF Merged, Lessened

(* A node that takes over the links of its only child leaves a tree.       *)
LEMMA AbsorbTree ==
    ASSUME NEW D, NEW L, NEW R, NEW S, NEW r, IsFiniteSet(D), Tree(D, L, R, S, r),
           NEW n \in D, NEW c, OnlyChild(D, L, R, n, c), NEW L2, NEW R2,
           Absorbed(D, L, R, n, c, L2, R2)
    PROVE  Tree(D \ {c}, L2, R2, Without(D, S, c), r)
  <1>1. /\ Nest(D, L, R, S) /\ S \in [D -> SUBSET D]
        /\ c \in D /\ r \in D /\ r # c /\ S[r] = D
    BY RootHasNoParent DEF Tree, Nest, OnlyChild, Below
  <1>2. Merged(D, L, R, S, n, c, L2, R2)
    BY AbsorbBelow
  <1>3. \A p \in D \ {c} : Without(D, S, c)[p] = S[p] \ {c}
    BY DEF Without
  <1>4. Without(D, S, c) \in [D \ {c} -> SUBSET (D \ {c})]
    BY <1>1 DEF Without
  <1>5. /\ n \notin S[c] /\ c \notin Below(D, S, L[c]) /\ c \notin Below(D, S, R[c])
        /\ Below(D, S, L[c]) \cap Below(D, S, R[c]) = {}
    BY <1>1 DEF Nest, Below, OnlyChild
  <1>6. ASSUME NEW p \in D \ {c}
        PROVE  LET l == Below(D \ {c}, Without(D, S, c), L2[p])
                   k == Below(D \ {c}, Without(D, S, c), R2[p])
               IN  /\ Without(D, S, c)[p] = {p} \cup l \cup k
                   /\ p \notin l /\ p \notin k /\ l \cap k = {}
    <2>1. CASE p = n
      BY <1>2, <1>3, <1>5, <2>1 DEF Merged
    <2>2. CASE p # n
      <3>1. /\ S[p] = {p} \cup Below(D, S, L[p]) \cup Below(D, S, R[p])
            /\ p \notin Below(D, S, L[p]) /\ p \notin Below(D, S, R[p])
            /\ Below(D, S, L[p]) \cap Below(D, S, R[p]) = {}
        BY <1>1 DEF Nest
      <3> QED
        BY <1>2, <1>3, <2>2, <3>1 DEF Merged, Lessened
    <2> QED
      BY <2>1, <2>2
  <1>7. Below(D \ {c}, Without(D, S, c), r) = D \ {c}
    BY <1>1, <1>3 DEF Below
  <1> QED
    BY <1>4, <1>6, <1>7 DEF Tree, Nest

-----------------------------------------------------------------------------
(* Two nodes with one key are t and one to its right.                      *)
LEMMA SameKey ==
    ASSUME NEW D, NEW L, NEW R, NEW S, NEW r, IsFiniteSet(D), Tree(D, L, R, S, r),
           NEW K \in [D -> Int], NEW t, Ordered(D, L, R, S, K, t),
           NEW p \in D, NEW q \in D, p # q, K[p] = K[q]
    PROVE  \/ p = t /\ q \in Below(D, S, R[t])
           \/ q = t /\ p \in Below(D, S, R[t])
  <1>1. Nest(D, L, R, S) /\ S \in [D -> SUBSET D]
    BY DEF Tree, Nest
  <1>2. PICK m \in D :
             /\ p \in S[m] /\ q \in S[m]
             /\ \/ m = p
                \/ m = q
                \/ p \in Below(D, S, L[m]) /\ q \in Below(D, S, R[m])
                \/ q \in Below(D, S, L[m]) /\ p \in Below(D, S, R[m])
    BY Meet
  <1>3. ASSUME NEW a \in D, NEW b \in D, a # b, K[a] = K[b], b \in S[a]
        PROVE  a = t /\ b \in Below(D, S, R[t])
    <2>1. b \in Below(D, S, L[a]) \/ b \in Below(D, S, R[a])
      BY <1>1, <1>3 DEF Nest
    <2> QED
      BY <1>3, <2>1 DEF Ordered
  <1>4. ASSUME NEW a \in D, NEW b \in D, K[a] = K[b],
               a \in Below(D, S, L[m]), b \in Below(D, S, R[m])
        PROVE  FALSE
    BY <1>4 DEF Ordered
  <1> QED
    BY <1>2, <1>3, <1>4

(* The one key that equals that of t is n's.                               *)
OneEqual(D, R, S, K, t, n) ==
    \A p \in D : p = t => \A q \in Below(D, S, R[p]) : K[p] = K[q] => q = n

(* Taking out the node n, which may be the one that t was excused for,     *)
(* keeps the order.                                                        *)
LEMMA PruneOrder ==
    ASSUME NEW D, NEW L, NEW R, NEW S, Nest(D, L, R, S),
           NEW n \in D, L[n] \notin D, R[n] \notin D, NEW L2, NEW R2,
           Pruned(D, L, R, n, L2, R2),
           NEW K, NEW K2, \A p \in D \ {n} : K2[p] = K[p],
           NEW t, NEW t2, Ordered(D, L, R, S, K, t),
           t2 = t \/ OneEqual(D, R, S, K, t, n)
    PROVE  Ordered(D \ {n}, L2, R2, Without(D, S, n), K2, t2)
  <1>1. Lessened(D, L, R, S, D \ {n}, n, L2, R2)
    BY PruneBelow
  <1>2. \A q : Below(D, S, q) \subseteq D
    BY DEF Nest, Below
  <1>3. ASSUME NEW p \in D \ {n}
        PROVE  /\ \A q \in Below(D, S, L[p]) \ {n} : K2[q] < K2[p]
               /\ \A q \in Below(D, S, R[p]) \ {n} :
                    K2[p] < K2[q] \/ (p = t2 /\ K2[p] = K2[q])
    BY <1>2 DEF Ordered, OneEqual
  <1> QED
    BY <1>1, <1>3 DEF Ordered, Lessened

(* So does taking over the only child's key.                               *)
LEMMA AbsorbOrder ==
    ASSUME NEW D, NEW L, NEW R, NEW S, NEW r, IsFiniteSet(D), Tree(D, L, R, S, r),
           NEW n \in D, NEW c, OnlyChild(D, L, R, n, c), NEW L2, NEW R2,
           Absorbed(D, L, R, n, c, L2, R2),
           NEW K \in [D -> Int], NEW K2, \A p \in D \ {n, c} : K2[p] = K[p], K2[n] = K[c],
           NEW t, NEW t2, Ordered(D, L, R, S, K, t), c # t,
           t2 = t \/ OneEqual(D, R, S, K, t, n)
    PROVE  Ordered(D \ {c}, L2, R2, Without(D, S, c), K2, t2)
  <1>1. Merged(D, L, R, S, n, c, L2, R2) /\ c \in D
    BY AbsorbBelow DEF OnlyChild
  <1>2. \A q : Below(D, S, q) \subseteq D
    BY DEF Tree, Nest, Below
  <1>3. ASSUME NEW p \in D \ {n, c}
        PROVE  /\ \A q \in Below(D \ {c}, Without(D, S, c), L2[p]) : K2[q] < K2[p]
               /\ \A q \in Below(D \ {c}, Without(D, S, c), R2[p]) :
                    K2[p] < K2[q] \/ (p = t2 /\ K2[p] = K2[q])
    <2>1. /\ Below(D \ {c}, Without(D, S, c), L2[p]) = Below(D, S, L[p]) \ {c}
          /\ Below(D \ {c}, Without(D, S, c), R2[p]) = Below(D, S, R[p]) \ {c}
      BY <1>1 DEF Merged, Lessened
    <2>2. ASSUME NEW b \in D, n \in S[b] PROVE c \in S[b]
      <3>1. S[n] \subseteq S[b] /\ c \in S[c] /\ S[c] \subseteq S[n]
        <4>1. Nest(D, L, R, S) /\ S[c] \subseteq S[n] /\ c \in S[c]
          BY <1>1 DEF Tree, Merged
        <4>2. S[n] \subseteq S[b]
          BY <2>2, <4>1, BelowBelow
        <4> QED
          BY <4>1, <4>2
      <3> QED
        BY <3>1
    <2>3. /\ n \in Below(D, S, L[p]) => c \in Below(D, S, L[p])
          /\ n \in Below(D, S, R[p]) => c \in Below(D, S, R[p])
      BY <2>2 DEF Below
    <2>4. ASSUME NEW q \in Below(D, S, L[p]) \ {c} PROVE K2[q] < K2[p]
      BY <1>2, <2>3 DEF Ordered
    <2>5. ASSUME NEW q \in Below(D, S, R[p]) \ {c}
          PROVE  K2[p] < K2[q] \/ (p = t2 /\ K2[p] = K2[q])
      <3>1. CASE q # n
        BY <1>2, <3>1 DEF Ordered, OneEqual
      <3>2. CASE q = n
        <4>1. c \in Below(D, S, R[p]) /\ K2[q] = K[c] /\ K2[p] = K[p] /\ c # n
          BY <1>1, <2>3, <2>5, <3>2 DEF Merged
        <4>2. K[p] < K[c] \/ (p = t /\ K[p] = K[c])
          BY <4>1 DEF Ordered
        <4> QED
          BY <4>1, <4>2 DEF OneEqual
      <3> QED
        BY <3>1, <3>2
    <2> QED
      BY <2>1, <2>4, <2>5
  <1>4. /\ \A q \in Below(D, S, L[c]) : q \in D \ {n, c}
        /\ \A q \in Below(D, S, R[c]) : q \in D \ {n, c}
    BY <1>1, <1>2 DEF Merged, Tree, Nest, Below, OnlyChild
  <1>5. /\ \A q \in Below(D \ {c}, Without(D, S, c), L2[n]) : K2[q] < K2[n]
        /\ \A q \in Below(D \ {c}, Without(D, S, c), R2[n]) :
             K2[n] < K2[q] \/ (n = t2 /\ K2[n] = K2[q])
    BY <1>1, <1>4 DEF Merged, Ordered, OneEqual
  <1> QED
    BY <1>3, <1>5 DEF Ordered

-----------------------------------------------------------------------------
HL(h) == [q \in DOMAIN h |-> h[q].left]
HR(h) == [q \in DOMAIN h |-> h[q].right]

Frame == [node : Address, at : {"left", "right"}]

(* The tree of the heap alone, with the waiting calls.                     *)
Settled(h, fs, r, S) ==
    /\ Tree(DOMAIN h, HL(h), HR(h), S, r)
    /\ Closed(DOMAIN h, HL(h), HR(h), r)
    /\ Stack(h, fs, r, S)

(* On the way down no link is out of date.                                 *)
LEMMA HandedLinks ==
    ASSUME NEW h, NEW fs \in Seq(Frame), NEW n, NEW r, Handed(h, fs, n, r)
    PROVE  LinksL(h, fs, n) = HL(h) /\ LinksR(h, fs, n) = HR(h) /\ Apex(fs, n, r) = r
  <1>1. CASE fs = <<>>
    BY <1>1 DEF Handed, LinksL, LinksR, HL, HR, Apex
  <1>2. CASE fs # <<>>
    <2>1. n = Link(h, fs[1]) /\ fs[1] \in Frame
      BY <1>2 DEF Handed
    <2>2. ASSUME NEW q \in DOMAIN h
          PROVE  LinksL(h, fs, n)[q] = HL(h)[q] /\ LinksR(h, fs, n)[q] = HR(h)[q]
      BY <1>2, <2>1 DEF LinksL, LinksR, HL, HR, Link, Frame
    <2>3. LinksL(h, fs, n) = HL(h) /\ LinksR(h, fs, n) = HR(h)
      BY <2>2 DEF LinksL, LinksR, HL, HR
    <2> QED
      BY <1>2, <2>3 DEF Apex
  <1> QED
    BY <1>1, <1>2

(* On the way down the shape is that of the heap itself.                   *)
LEMMA HandedSettled ==
    ASSUME NEW h, NEW fs \in Seq(Frame), NEW n, NEW r, NEW S, Handed(h, fs, n, r)
    PROVE  Shape(h, fs, n, r, S) <=> Settled(h, fs, r, S)
  <1>1. LinksL(h, fs, n) = HL(h) /\ LinksR(h, fs, n) = HR(h) /\ Apex(fs, n, r) = r
    BY HandedLinks
  <1> QED
    BY <1>1 DEF Shape, Settled

(* Sequences with an element in front, and without their first.            *)
LEMMA InFront ==
    ASSUME NEW T, NEW f \in T, NEW fs \in Seq(T)
    PROVE  /\ <<f>> \o fs \in Seq(T)
           /\ <<f>> \o fs # <<>>
           /\ Len(<<f>> \o fs) = Len(fs) + 1
           /\ (<<f>> \o fs)[1] = f
           /\ \A x \in 2..Len(fs) + 1 : (<<f>> \o fs)[x] = fs[x - 1]
  OBVIOUS

(* Without the first call.                                                 *)
LEMMA Popped ==
    ASSUME NEW T, NEW fs \in Seq(T), fs # <<>>
    PROVE  /\ Tail(fs) \in Seq(T)
           /\ Len(Tail(fs)) = Len(fs) - 1 /\ Len(fs) \in Nat \ {0}
           /\ \A x \in 1..Len(fs) - 1 : Tail(fs)[x] = fs[x + 1]
           /\ Tail(fs) = <<>> <=> Len(fs) = 1
  <1>1. /\ Tail(fs) \in Seq(T)
        /\ Len(Tail(fs)) = Len(fs) - 1 /\ Len(fs) \in Nat \ {0}
        /\ \A x \in 1..Len(fs) - 1 : Tail(fs)[x] = fs[x + 1]
    OBVIOUS
  <1>2. Tail(fs) = <<>> <=> Len(Tail(fs)) = 0
    BY <1>1, EmptySeq
  <1> QED
    BY <1>1, <1>2

(* A call for a node of the tree waits for the one on its link.            *)
LEMMA StackPush ==
    ASSUME NEW h, IsFiniteSet(DOMAIN h), NEW fs \in Seq(Frame), NEW r, NEW S,
           Settled(h, fs, r, S), NEW f \in Frame, f.node \in DOMAIN h,
           Handed(h, fs, f.node, r)
    PROVE  Settled(h, <<f>> \o fs, r, S)
  <1> DEFINE gs == <<f>> \o fs
             D == DOMAIN h
  <1>1. /\ gs \in Seq(Frame) /\ gs # <<>> /\ Len(gs) = Len(fs) + 1 /\ gs[1] = f
        /\ \A x \in 2..Len(fs) + 1 : gs[x] = fs[x - 1]
        /\ Len(fs) \in Nat
    BY InFront
  <1>2. Stack(h, fs, r, S) /\ Tree(D, HL(h), HR(h), S, r) /\ Nest(D, HL(h), HR(h), S)
    BY DEF Settled, Tree
  <1>3. fs # <<>> => f.node = Link(h, fs[1]) /\ fs[1] \in Frame /\ fs[1].node \in D
    BY <1>2 DEF Handed, Stack
  <1>4. fs = <<>> => f.node = r
    BY DEF Handed
  <1> HIDE DEF gs
  <1>5. \A x \in DOMAIN gs : gs[x].node \in D
    <2>1. ASSUME NEW x \in DOMAIN gs PROVE gs[x].node \in D
      <3>1. x = 1 \/ (x \in 2..Len(fs) + 1 /\ x - 1 \in DOMAIN fs)
        BY <1>1
      <3> QED
        BY <1>1, <1>2, <3>1 DEF Stack
    <2> QED
      BY <2>1
  <1>6. \A x \in 2..Len(gs) : Link(h, gs[x]) = gs[x - 1].node
    <2>1. ASSUME NEW x \in 2..Len(gs) PROVE Link(h, gs[x]) = gs[x - 1].node
      <3>1. CASE x = 2
        BY <1>1, <1>3, <3>1
      <3>2. CASE x # 2
        <4>1. x - 1 \in 2..Len(fs) /\ x \in 2..Len(fs) + 1 /\ x - 1 \in 2..Len(fs) + 1
          BY <1>1, <3>2
        <4> QED
          BY <1>1, <1>2, <4>1 DEF Stack
      <3> QED
        BY <3>1, <3>2
    <2> QED
      BY <2>1
  <1>7. gs[Len(gs)].node = r
    BY <1>1, <1>2, <1>4 DEF Stack
  <1>8. \A x, y \in DOMAIN gs : x < y => gs[y].node \notin S[gs[x].node]
    <2>1. fs # <<>> => fs[1].node \notin S[f.node] /\ S[f.node] \subseteq S[fs[1].node]
      <3>1. SUFFICES ASSUME fs # <<>>
                     PROVE  fs[1].node \notin S[f.node] /\ S[f.node] \subseteq S[fs[1].node]
        OBVIOUS
      <3>2. f.node \in {HL(h)[fs[1].node], HR(h)[fs[1].node]}
        BY <1>3, <3>1 DEF Link, HL, HR
      <3> QED
        BY <1>2, <1>3, <3>1, <3>2 DEF Nest, Below
    <2>2. ASSUME NEW y \in DOMAIN fs PROVE fs[y].node \notin S[f.node]
      <3>1. fs # <<>> /\ y \in Nat /\ 1 <= y /\ 1 \in DOMAIN fs
        OBVIOUS
      <3>2. CASE y = 1
        BY <2>1, <3>1, <3>2
      <3>3. CASE y # 1
        <4>1. fs[y].node \notin S[fs[1].node]
          BY <1>2, <3>1, <3>3 DEF Stack
        <4> QED
          BY <2>1, <3>1, <4>1
      <3> QED
        BY <3>2, <3>3
    <2>3. ASSUME NEW x \in DOMAIN gs, NEW y \in DOMAIN gs, x < y
          PROVE  gs[y].node \notin S[gs[x].node]
      <3>1. y \in 2..Len(fs) + 1 /\ gs[y] = fs[y - 1] /\ y - 1 \in DOMAIN fs
        BY <1>1, <2>3
      <3>2. CASE x = 1
        BY <1>1, <2>2, <3>1, <3>2
      <3>3. CASE x # 1
        <4>1. x \in 2..Len(fs) + 1 /\ x - 1 \in DOMAIN fs /\ gs[x] = fs[x - 1] /\ x - 1 < y - 1
          BY <1>1, <2>3, <3>3
        <4> QED
          BY <1>2, <3>1, <4>1 DEF Stack
      <3> QED
        BY <3>2, <3>3
    <2> QED
      BY <2>3
  <1>9. Stack(h, gs, r, S)
    BY <1>5, <1>6, <1>7, <1>8 DEF Stack
  <1> QED
    BY <1>9 DEF Settled, gs

(* The next call on the way down.                                          *)
LEMMA GoDown ==
    ASSUME NEW h, IsFiniteSet(DOMAIN h), NEW fs \in Seq(Frame), NEW n \in DOMAIN h,
           NEW r, NEW S, Shape(h, fs, n, r, S), Handed(h, fs, n, r),
           NEW f \in Frame, f.node = n
    PROVE  /\ Shape(h, <<f>> \o fs, Link(h, f), r, S)
           /\ Handed(h, <<f>> \o fs, Link(h, f), r)
  <1>1. Settled(h, <<f>> \o fs, r, S)
    BY HandedSettled, StackPush
  <1>2. <<f>> \o fs \in Seq(Frame) /\ <<f>> \o fs # <<>> /\ (<<f>> \o fs)[1] = f
    BY InFront
  <1>3. Handed(h, <<f>> \o fs, Link(h, f), r)
    BY <1>2 DEF Handed
  <1> QED
    BY <1>1, <1>2, <1>3, HandedSettled

-----------------------------------------------------------------------------
(* The heap g with the result of the running call stored in its link.      *)
Stored(h, fs, n, g) ==
    /\ DOMAIN g = DOMAIN h
    /\ \A q \in DOMAIN h : g[q].left = LinksL(h, fs, n)[q] /\ g[q].right = LinksR(h, fs, n)[q]

(* Its links are those that were seen with the running call.               *)
LEMMA StoredLinks ==
    ASSUME NEW h, NEW fs, NEW n, NEW g, Stored(h, fs, n, g)
    PROVE  HL(g) = LinksL(h, fs, n) /\ HR(g) = LinksR(h, fs, n) /\ DOMAIN g = DOMAIN h
  BY DEF Stored, HL, HR, LinksL, LinksR

(* The calls below the last are not of its node.                           *)
LEMMA OtherCalls ==
    ASSUME NEW h, NEW fs \in Seq(Frame), NEW r, NEW S, Stack(h, fs, r, S),
           S \in [DOMAIN h -> SUBSET DOMAIN h], \A p \in DOMAIN h : p \in S[p],
           NEW x \in 2..Len(fs)
    PROVE  fs[x].node \in DOMAIN h /\ fs[x].node \notin S[fs[1].node] /\ fs[x].node # fs[1].node
  BY DEF Stack

(* After it is stored the tree of the heap is whole.                       *)
LEMMA SettledStored ==
    ASSUME NEW h, NEW fs \in Seq(Frame), fs # <<>>, NEW n, NEW r, NEW S,
           Shape(h, fs, n, r, S), NEW g, Stored(h, fs, n, g)
    PROVE  Settled(g, fs, r, S)
  <1>1. HL(g) = LinksL(h, fs, n) /\ HR(g) = LinksR(h, fs, n) /\ DOMAIN g = DOMAIN h
    BY StoredLinks
  <1>2. /\ Tree(DOMAIN g, HL(g), HR(g), S, r) /\ Closed(DOMAIN g, HL(g), HR(g), r)
        /\ Stack(h, fs, r, S)
    BY <1>1 DEF Shape, Apex
  <1>3. ASSUME NEW x \in 2..Len(fs) PROVE Link(g, fs[x]) = Link(h, fs[x])
    <2>1. S \in [DOMAIN h -> SUBSET DOMAIN h] /\ \A p \in DOMAIN h : p \in S[p]
      BY <1>1, <1>2 DEF Tree, Nest
    <2>2. fs[x].node \in DOMAIN h /\ fs[x].node # fs[1].node
      BY <1>2, <2>1, OtherCalls
    <2> QED
      BY <1>1, <2>2 DEF Stored, Link, LinksL, LinksR
  <1> QED
    BY <1>1, <1>2, <1>3 DEF Settled, Stack

(* The last call's node is one of the tree.                                *)
LEMMA LastNode ==
    ASSUME NEW h, NEW fs \in Seq(Frame), fs # <<>>, NEW r, NEW S, Settled(h, fs, r, S)
    PROVE  fs[1].node \in DOMAIN h
  <1>1. 1 \in DOMAIN fs
    OBVIOUS
  <1> QED
    BY <1>1 DEF Settled, Stack

(* The parent of the last waiting call's node is the node of the one before*)
(* it, on the link that this one waits in.                                 *)
LEMMA ParentWaits ==
    ASSUME NEW h, IsFiniteSet(DOMAIN h), NEW fs \in Seq(Frame), fs # <<>>, NEW r, NEW S,
           Settled(h, fs, r, S), NEW q \in DOMAIN h
    PROVE  LET p == fs[1].node
               gs == Tail(fs)
           IN  /\ p \in DOMAIN h
               /\ h[q].left = p <=> gs # <<>> /\ gs[1].node = q /\ gs[1].at = "left"
               /\ h[q].right = p <=> gs # <<>> /\ gs[1].node = q /\ gs[1].at = "right"
  <1> DEFINE p == fs[1].node
             gs == Tail(fs)
             D == DOMAIN h
  <1>1. /\ gs \in Seq(Frame) /\ Len(fs) \in Nat \ {0}
        /\ \A x \in 1..Len(fs) - 1 : gs[x] = fs[x + 1]
        /\ gs = <<>> <=> Len(fs) = 1
    BY Popped
  <1>2. Tree(D, HL(h), HR(h), S, r) /\ Stack(h, fs, r, S)
    BY DEF Settled
  <1>3. p \in D
    BY <1>1, <1>2 DEF Stack
  <1>4. HL(h)[q] = h[q].left /\ HR(h)[q] = h[q].right
    BY DEF HL, HR
  <1>5. CASE gs = <<>>
    <2>1. p = r
      BY <1>1, <1>2, <1>5 DEF Stack
    <2>2. HL(h)[q] # r /\ HR(h)[q] # r
      BY <1>2, RootHasNoParent
    <2> QED
      BY <1>3, <1>4, <1>5, <2>1, <2>2
  <1>6. CASE gs # <<>>
    <2>1. 2 \in 2..Len(fs) /\ gs[1] = fs[2] /\ 2 \in DOMAIN fs /\ gs[1] \in Frame
      BY <1>1, <1>6
    <2>2. gs[1].node \in D /\ Link(h, gs[1]) = p
      BY <1>2, <2>1 DEF Stack
    <2>3. HL(h)[gs[1].node] = h[gs[1].node].left /\ HR(h)[gs[1].node] = h[gs[1].node].right
      BY <2>2 DEF HL, HR
    <2>4. p \in {HL(h)[gs[1].node], HR(h)[gs[1].node]}
      BY <2>2, <2>3 DEF Link
    <2>5. ASSUME p \in {HL(h)[q], HR(h)[q]} PROVE q = gs[1].node
      <3> HIDE DEF p, gs, D
      <3> QED
        BY <1>2, <1>3, <2>2, <2>4, <2>5, OneParent DEF D
    <2>6. ~(HL(h)[gs[1].node] = p /\ HR(h)[gs[1].node] = p)
      BY <1>2, <1>3, <2>2, OneLink DEF Tree
    <2>7. IF gs[1].at = "left" THEN HL(h)[gs[1].node] = p ELSE HR(h)[gs[1].node] = p
      BY <2>2, <2>3 DEF Link
    <2>8. gs[1].at \in {"left", "right"}
      BY <2>1 DEF Frame
    <2> HIDE DEF p, gs, D
    <2> QED
      BY <1>3, <1>4, <1>6, <2>4, <2>5, <2>6, <2>7, <2>8 DEF p, gs, D
  <1> QED
    BY <1>5, <1>6

(* The call that waited returns x, which takes the place of its node: L2   *)
(* and R2 are the links of the tree with x on the link of its parent.      *)
Replaced(h, h2, p, x, L2, R2) ==
    /\ DOMAIN h2 = DOMAIN h
    /\ L2 = [q \in DOMAIN h |-> IF h[q].left = p THEN x ELSE h2[q].left]
    /\ R2 = [q \in DOMAIN h |-> IF h[q].right = p THEN x ELSE h2[q].right]

(* The nodes that are not below p have the links they had.                 *)
SameAbove(h, h2, S, S2, p) ==
    \A q \in DOMAIN h :
      q \notin S[p] => /\ S2[q] = S[q]
                       /\ h2[q].left = h[q].left /\ h2[q].right = h[q].right

(* The subtree of the last call is replaced by x, which that call returns. *)
LEMMA HandOver ==
    ASSUME NEW h, IsFiniteSet(DOMAIN h), NEW fs \in Seq(Frame), fs # <<>>, NEW r, NEW S,
           Settled(h, fs, r, S), NEW h2, NEW x, NEW L2, NEW R2, NEW S2,
           Replaced(h, h2, fs[1].node, x, L2, R2), SameAbove(h, h2, S, S2, fs[1].node),
           Tree(DOMAIN h, L2, R2, S2, Instead(r, fs[1].node, x)),
           Closed(DOMAIN h, L2, R2, Instead(r, fs[1].node, x))
    PROVE  /\ Shape(h2, Tail(fs), x, r, S2)
           /\ LinksL(h2, Tail(fs), x) = L2 /\ LinksR(h2, Tail(fs), x) = R2
  <1> DEFINE p == fs[1].node
             gs == Tail(fs)
             D == DOMAIN h
  <1>1. /\ gs \in Seq(Frame) /\ Len(fs) \in Nat \ {0} /\ Len(gs) = Len(fs) - 1
        /\ \A i \in 1..Len(fs) - 1 : gs[i] = fs[i + 1]
        /\ gs = <<>> <=> Len(fs) = 1
    BY Popped
  <1>2. Tree(D, HL(h), HR(h), S, r) /\ Stack(h, fs, r, S) /\ DOMAIN h2 = D
    BY DEF Settled, Replaced
  <1>3. S \in [D -> SUBSET D] /\ \A q \in D : q \in S[q]
    BY <1>2 DEF Tree, Nest
  <1>4. ASSUME NEW q \in D
        PROVE  LinksL(h2, gs, x)[q] = L2[q] /\ LinksR(h2, gs, x)[q] = R2[q]
    <2>1. /\ h[q].left = p <=> gs # <<>> /\ gs[1].node = q /\ gs[1].at = "left"
          /\ h[q].right = p <=> gs # <<>> /\ gs[1].node = q /\ gs[1].at = "right"
      BY ParentWaits
    <2> HIDE DEF gs, p
    <2>2. /\ L2[q] = IF h[q].left = p THEN x ELSE h2[q].left
          /\ R2[q] = IF h[q].right = p THEN x ELSE h2[q].right
      BY DEF Replaced, p
    <2>3. /\ LinksL(h2, gs, x)[q] =
                 IF gs # <<>> /\ gs[1].node = q /\ gs[1].at = "left" THEN x ELSE h2[q].left
          /\ LinksR(h2, gs, x)[q] =
                 IF gs # <<>> /\ gs[1].node = q /\ gs[1].at = "right" THEN x ELSE h2[q].right
      BY <1>2 DEF LinksL, LinksR
    <2> QED
      BY <2>1, <2>2, <2>3
  <1>5. LinksL(h2, gs, x) = L2 /\ LinksR(h2, gs, x) = R2
    <2> HIDE DEF gs, p
    <2>1. /\ L2 = [q \in D |-> L2[q]] /\ R2 = [q \in D |-> R2[q]]
          /\ LinksL(h2, gs, x) = [q \in D |-> LinksL(h2, gs, x)[q]]
          /\ LinksR(h2, gs, x) = [q \in D |-> LinksR(h2, gs, x)[q]]
      BY <1>2 DEF Replaced, LinksL, LinksR
    <2> QED
      BY <1>4, <2>1
  <1>6. Apex(gs, x, r) = Instead(r, p, x)
    <2>1. CASE gs = <<>>
      BY <1>1, <1>2, <2>1 DEF Apex, Stack, Instead
    <2>2. CASE gs # <<>>
      <3>1. 2 \in DOMAIN fs /\ 1 \in DOMAIN fs /\ 2 \in 2..Len(fs)
        BY <1>1, <2>2
      <3>2. fs[2].node \in D /\ Link(h, fs[2]) = p
        BY <1>2, <3>1 DEF Stack
      <3>3. HL(h)[fs[2].node] # r /\ HR(h)[fs[2].node] # r
        BY <1>2, <3>2, RootHasNoParent
      <3>4. p # r
        BY <3>2, <3>3 DEF Link, HL, HR
      <3> QED
        BY <2>2, <3>4 DEF Apex, Instead
    <2> QED
      BY <2>1, <2>2
  <1>7. ASSUME NEW i \in DOMAIN gs
        PROVE  /\ i + 1 \in 2..Len(fs) /\ i + 1 \in DOMAIN fs /\ gs[i] = fs[i + 1]
               /\ i \in Nat
               /\ gs[i].node \in D
               /\ S2[gs[i].node] = S[gs[i].node]
               /\ Link(h2, gs[i]) = Link(h, gs[i])
    <2>1. i + 1 \in 2..Len(fs) /\ i + 1 \in DOMAIN fs /\ gs[i] = fs[i + 1] /\ i \in Nat
      BY <1>1
    <2>2. fs[i + 1].node \in DOMAIN h /\ fs[i + 1].node \notin S[fs[1].node]
      BY <1>2, <1>3, <2>1, OtherCalls
    <2> QED
      BY <2>1, <2>2 DEF SameAbove, Link
  <1>8. \A i \in 2..Len(gs) : Link(h2, gs[i]) = gs[i - 1].node
    <2>1. ASSUME NEW i \in 2..Len(gs) PROVE Link(h2, gs[i]) = gs[i - 1].node
      <3>1. i \in DOMAIN gs /\ i - 1 \in DOMAIN gs /\ i + 1 \in 2..Len(fs)
        BY <1>1
      <3>2. gs[i] = fs[i + 1] /\ Link(h2, gs[i]) = Link(h, gs[i])
        BY <1>7, <3>1
      <3>3. gs[i - 1] = fs[i - 1 + 1] /\ i - 1 + 1 = i /\ i + 1 - 1 = i
        BY <1>7, <3>1
      <3>4. Link(h, fs[i + 1]) = fs[i + 1 - 1].node
        BY <1>2, <3>1 DEF Stack
      <3> QED
        BY <3>2, <3>3, <3>4
    <2> QED
      BY <2>1
  <1>9. gs # <<>> => gs[Len(gs)].node = r
    <2>1. SUFFICES ASSUME gs # <<>> PROVE gs[Len(gs)].node = r
      OBVIOUS
    <2>2. Len(fs) - 1 \in 1..Len(fs) - 1 /\ Len(fs) - 1 + 1 = Len(fs)
      BY <1>1, <2>1
    <2> QED
      BY <1>1, <1>2, <2>2 DEF Stack
  <1>10. \A i, j \in DOMAIN gs : i < j => gs[j].node \notin S2[gs[i].node]
    <2>1. ASSUME NEW i \in DOMAIN gs, NEW j \in DOMAIN gs, i < j
          PROVE  gs[j].node \notin S2[gs[i].node]
      <3>1. /\ i + 1 \in DOMAIN fs /\ j + 1 \in DOMAIN fs /\ i + 1 < j + 1
            /\ gs[i] = fs[i + 1] /\ gs[j] = fs[j + 1] /\ S2[gs[i].node] = S[gs[i].node]
        BY <1>7, <2>1
      <3> QED
        BY <1>2, <3>1 DEF Stack
    <2> QED
      BY <2>1
  <1>11. Stack(h2, gs, r, S2)
    BY <1>2, <1>7, <1>8, <1>9, <1>10 DEF Stack
  <1> QED
    BY <1>2, <1>5, <1>6, <1>11 DEF Shape

(* A call that leaves the links as they are returns its node.              *)
LEMMA NodeUp ==
    ASSUME NEW h, IsFiniteSet(DOMAIN h), NEW fs \in Seq(Frame), fs # <<>>, NEW r, NEW S,
           Settled(h, fs, r, S), NEW h2, DOMAIN h2 = DOMAIN h,
           HL(h2) = HL(h), HR(h2) = HR(h)
    PROVE  /\ Shape(h2, Tail(fs), fs[1].node, r, S)
           /\ LinksL(h2, Tail(fs), fs[1].node) = HL(h)
           /\ LinksR(h2, Tail(fs), fs[1].node) = HR(h)
  <1>1. \A q \in DOMAIN h : h2[q].left = h[q].left /\ h2[q].right = h[q].right
    BY DEF HL, HR
  <1>2. Replaced(h, h2, fs[1].node, fs[1].node, HL(h), HR(h))
    BY <1>1 DEF Replaced, HL, HR
  <1>3. SameAbove(h, h2, S, S, fs[1].node)
    BY <1>1 DEF SameAbove
  <1>4. Instead(r, fs[1].node, fs[1].node) = r
    BY DEF Instead
  <1>5. /\ Tree(DOMAIN h, HL(h), HR(h), S, Instead(r, fs[1].node, fs[1].node))
        /\ Closed(DOMAIN h, HL(h), HR(h), Instead(r, fs[1].node, fs[1].node))
    BY <1>4 DEF Settled
  <1> QED
    BY <1>2, <1>3, <1>5, HandOver

-----------------------------------------------------------------------------
(* A rotation of the heap.  L and R are its links, or are them exchanged.  *)
Sides(h, L, R, h2, L2, R2) ==
    \/ L = HL(h) /\ R = HR(h) /\ L2 = HL(h2) /\ R2 = HR(h2)
    \/ L = HR(h) /\ R = HL(h) /\ L2 = HR(h2) /\ R2 = HL(h2)

(* The order survives, wherever the excused node is outside.               *)
StillOrdered(D, L, R, S, L2, R2, S2) ==
    \A K \in [D -> Int] : \A t :
      t \notin D /\ Ordered(D, L, R, S, K, t) => Ordered(D, L2, R2, S2, K, t)

(* A tree seen in the mirror is one.                                       *)
LEMMA Mirrored ==
    ASSUME NEW D, NEW L, NEW R, NEW S, NEW r
    PROVE  /\ Tree(D, L, R, S, r) => Tree(D, R, L, S, r)
           /\ Closed(D, L, R, r) => Closed(D, R, L, r)
  BY DEF Tree, Nest, Closed

(* A rotation leads out of the tree nowhere that it did not.               *)
LEMMA TurnClosed ==
    ASSUME NEW D, NEW L, NEW R, NEW r, Closed(D, L, R, r),
           NEW y \in D, NEW x \in D, NEW L2, NEW R2, Turned(D, L, R, y, x, L2, R2)
    PROVE  Closed(D, L2, R2, Instead(r, y, x))
  BY DEF Turned, Closed, Instead

(* The node p is turned, so that its child x takes its place: M and N are  *)
(* the links after it, A and B those with the parent's link to x.          *)
NodeTurn(D, L, R, M, N, p, x, A, B) ==
    /\ x \in D /\ x = L[p]
    /\ \A q \in D : /\ M[q] = IF q = p THEN R[x] ELSE L[q]
                    /\ N[q] = IF q = x THEN p ELSE R[q]
    /\ A = [q \in D |-> IF L[q] = p THEN x ELSE M[q]]
    /\ B = [q \in D |-> IF R[q] = p THEN x ELSE N[q]]

TurnedTree(D, L, R, S, A, B, S2, r2) ==
    /\ Tree(D, A, B, S2, r2) /\ Tree(D, B, A, S2, r2)
    /\ Closed(D, A, B, r2) /\ Closed(D, B, A, r2)
    /\ StillOrdered(D, L, R, S, A, B, S2) /\ StillOrdered(D, R, L, S, B, A, S2)

(* Any rotation.                                                           *)
LEMMA AnyTurn ==
    ASSUME NEW D, NEW L, NEW R, NEW S, NEW r, IsFiniteSet(D),
           Tree(D, L, R, S, r), Closed(D, L, R, r),
           NEW y \in D, NEW x \in D, x = L[y], NEW L2, NEW R2,
           Turned(D, L, R, y, x, L2, R2),
           NEW S2, S2 = TurnedSets(D, S, R, y, x)
    PROVE  TurnedTree(D, L, R, S, L2, R2, S2, Instead(r, y, x))
  <1>1. Tree(D, L2, R2, S2, Instead(r, y, x)) /\ Closed(D, L2, R2, Instead(r, y, x))
    BY TurnTree, TurnClosed
  <1>2. ASSUME NEW K \in [D -> Int], NEW t, t \notin D
        PROVE  /\ Ordered(D, L, R, S, K, t) => Ordered(D, L2, R2, S2, K, t)
               /\ Ordered(D, R, L, S, K, t) => Ordered(D, R2, L2, S2, K, t)
    BY <1>2, TurnOrder
  <1> QED
    BY <1>1, <1>2, Mirrored DEF TurnedTree, StillOrdered

(* It is one.                                                              *)
LEMMA NodeTurnTurns ==
    ASSUME NEW D, NEW L, NEW R, NEW S, NEW r, IsFiniteSet(D),
           Tree(D, L, R, S, r), Closed(D, L, R, r), NEW p \in D,
           NEW M, NEW N, NEW x, NEW A, NEW B, NodeTurn(D, L, R, M, N, p, x, A, B),
           NEW S2, S2 = TurnedSets(D, S, R, p, x)
    PROVE  /\ Turned(D, L, R, p, x, A, B)
           /\ TurnedTree(D, L, R, S, A, B, S2, Instead(r, p, x))
           /\ \A q \in D : q \notin S[p] => M[q] = L[q] /\ N[q] = R[q] /\ S2[q] = S[q]
  <1>1. x \in D /\ x = L[p]
    BY DEF NodeTurn
  <1>2. x # p /\ L[p] # p /\ R[p] # p /\ R[x] # p /\ x \in S[p] /\ p \in S[p]
    BY <1>1 DEF Tree, Nest, Below
  <1>3. Turned(D, L, R, p, x, A, B)
    BY <1>1, <1>2 DEF Turned, NodeTurn
  <1>4. \A q \in D : q \notin S[p] => M[q] = L[q] /\ N[q] = R[q] /\ S2[q] = S[q]
    BY <1>2 DEF NodeTurn, TurnedSets
  <1> QED
    BY <1>1, <1>3, <1>4, AnyTurn

(* The node of the last call is turned, its child x returned.              *)
LEMMA NodeTurned ==
    ASSUME NEW h, IsFiniteSet(DOMAIN h), NEW fs \in Seq(Frame), fs # <<>>, NEW r, NEW S,
           Settled(h, fs, r, S), NEW h2, DOMAIN h2 = DOMAIN h,
           NEW L, NEW R, NEW M, NEW N, Sides(h, L, R, h2, M, N),
           NEW x, NEW A, NEW B, NodeTurn(DOMAIN h, L, R, M, N, fs[1].node, x, A, B),
           NEW S2, S2 = TurnedSets(DOMAIN h, S, R, fs[1].node, x)
    PROVE  /\ Turned(DOMAIN h, L, R, fs[1].node, x, A, B)
           /\ Shape(h2, Tail(fs), x, r, S2)
           /\ StillOrdered(DOMAIN h, HL(h), HR(h), S,
                           LinksL(h2, Tail(fs), x), LinksR(h2, Tail(fs), x), S2)
           /\ \/ L = HL(h) /\ LinksL(h2, Tail(fs), x) = A /\ LinksR(h2, Tail(fs), x) = B
              \/ L = HR(h) /\ LinksL(h2, Tail(fs), x) = B /\ LinksR(h2, Tail(fs), x) = A
  <1>1. PICK p : p = fs[1].node
    OBVIOUS
  <1>2. PICK D : D = DOMAIN h
    OBVIOUS
  <1>3. Tree(D, HL(h), HR(h), S, r) /\ Closed(D, HL(h), HR(h), r) /\ Stack(h, fs, r, S)
    BY <1>2 DEF Settled
  <1>4. p \in D
    <2>1. 1 \in DOMAIN fs
      OBVIOUS
    <2> QED
      BY <1>1, <1>2, <1>3, <2>1 DEF Stack
  <1>5. /\ IsFiniteSet(D) /\ Tree(D, L, R, S, r) /\ Closed(D, L, R, r)
        /\ NodeTurn(D, L, R, M, N, p, x, A, B) /\ S2 = TurnedSets(D, S, R, p, x)
    BY <1>1, <1>2, <1>3, Mirrored DEF Sides
  <1>6. /\ Turned(D, L, R, p, x, A, B)
        /\ TurnedTree(D, L, R, S, A, B, S2, Instead(r, p, x))
        /\ \A q \in D : q \notin S[p] => M[q] = L[q] /\ N[q] = R[q] /\ S2[q] = S[q]
    BY <1>4, <1>5, NodeTurnTurns
  <1>7. SameAbove(h, h2, S, S2, p)
    <2>1. ASSUME NEW q \in D, M[q] = L[q], N[q] = R[q]
          PROVE  h2[q].left = h[q].left /\ h2[q].right = h[q].right
      BY <1>2, <2>1 DEF Sides, HL, HR
    <2> QED
      BY <1>2, <1>6, <2>1 DEF SameAbove
  <1>8. /\ A = [q \in D |-> IF L[q] = p THEN x ELSE M[q]]
        /\ B = [q \in D |-> IF R[q] = p THEN x ELSE N[q]]
    BY <1>5 DEF NodeTurn
  <1>9. CASE L = HL(h) /\ R = HR(h) /\ M = HL(h2) /\ N = HR(h2)
    <2>1. Replaced(h, h2, p, x, A, B)
      <3>1. \A q \in D : /\ L[q] = h[q].left /\ R[q] = h[q].right
                         /\ M[q] = h2[q].left /\ N[q] = h2[q].right
        BY <1>2, <1>9 DEF HL, HR
      <3> QED
        BY <1>2, <1>8, <3>1 DEF Replaced
    <2>2. /\ Shape(h2, Tail(fs), x, r, S2)
          /\ LinksL(h2, Tail(fs), x) = A /\ LinksR(h2, Tail(fs), x) = B
      <3>1. /\ Tree(DOMAIN h, A, B, S2, Instead(r, fs[1].node, x))
            /\ Closed(DOMAIN h, A, B, Instead(r, fs[1].node, x))
        BY <1>1, <1>2, <1>6 DEF TurnedTree
      <3>2. Replaced(h, h2, fs[1].node, x, A, B) /\ SameAbove(h, h2, S, S2, fs[1].node)
        BY <1>1, <1>7, <2>1
      <3> QED
        BY <3>1, <3>2, HandOver
    <2> QED
      BY <1>1, <1>2, <1>6, <1>9, <2>2 DEF TurnedTree
  <1>10. CASE L = HR(h) /\ R = HL(h) /\ M = HR(h2) /\ N = HL(h2)
    <2>1. Replaced(h, h2, p, x, B, A)
      <3>1. \A q \in D : /\ R[q] = h[q].left /\ L[q] = h[q].right
                         /\ N[q] = h2[q].left /\ M[q] = h2[q].right
        BY <1>2, <1>10 DEF HL, HR
      <3> QED
        BY <1>2, <1>8, <3>1 DEF Replaced
    <2>2. /\ Shape(h2, Tail(fs), x, r, S2)
          /\ LinksL(h2, Tail(fs), x) = B /\ LinksR(h2, Tail(fs), x) = A
      <3>1. /\ Tree(DOMAIN h, B, A, S2, Instead(r, fs[1].node, x))
            /\ Closed(DOMAIN h, B, A, Instead(r, fs[1].node, x))
        BY <1>1, <1>2, <1>6 DEF TurnedTree
      <3>2. Replaced(h, h2, fs[1].node, x, B, A) /\ SameAbove(h, h2, S, S2, fs[1].node)
        BY <1>1, <1>7, <2>1
      <3> QED
        BY <3>1, <3>2, HandOver
    <2> QED
      BY <1>1, <1>2, <1>6, <1>10, <2>2 DEF TurnedTree
  <1> QED
    BY <1>9, <1>10 DEF Sides

(* A child c of the last call's node is turned, and the node's link set.   *)
LEMMA ChildTurned ==
    ASSUME NEW h, IsFiniteSet(DOMAIN h), NEW fs \in Seq(Frame), fs # <<>>, NEW r, NEW S,
           Settled(h, fs, r, S), NEW h1, DOMAIN h1 = DOMAIN h,
           NEW L, NEW R, NEW A, NEW B, Sides(h, L, R, h1, A, B),
           NEW c \in DOMAIN h, c \in {HL(h)[fs[1].node], HR(h)[fs[1].node]},
           NEW y \in DOMAIN h, y = L[c], Turned(DOMAIN h, L, R, c, y, A, B),
           NEW S1, S1 = TurnedSets(DOMAIN h, S, R, c, y)
    PROVE  /\ Settled(h1, fs, r, S1)
           /\ StillOrdered(DOMAIN h, HL(h), HR(h), S, HL(h1), HR(h1), S1)
  <1>1. PICK p : p = fs[1].node
    OBVIOUS
  <1>2. PICK D : D = DOMAIN h
    OBVIOUS
  <1>3. Tree(D, HL(h), HR(h), S, r) /\ Closed(D, HL(h), HR(h), r) /\ Stack(h, fs, r, S)
    BY <1>2 DEF Settled
  <1>4. 1 \in DOMAIN fs /\ p \in D
    <2>1. 1 \in DOMAIN fs
      OBVIOUS
    <2> QED
      BY <1>1, <1>2, <1>3, <2>1 DEF Stack
  <1>5. /\ IsFiniteSet(D) /\ Tree(D, L, R, S, r) /\ Closed(D, L, R, r)
        /\ c \in D /\ y \in D /\ y = L[c] /\ Turned(D, L, R, c, y, A, B)
        /\ S1 = TurnedSets(D, S, R, c, y)
    BY <1>1, <1>2, <1>3, Mirrored DEF Sides
  <1>6. TurnedTree(D, L, R, S, A, B, S1, Instead(r, c, y))
    BY <1>5, AnyTurn
  <1>7. Instead(r, c, y) = r
    <2>1. c # r
      BY <1>1, <1>2, <1>3, <1>4, RootHasNoParent
    <2> QED
      BY <2>1 DEF Instead
  <1>8. /\ Tree(D, HL(h1), HR(h1), S1, r) /\ Closed(D, HL(h1), HR(h1), r)
        /\ StillOrdered(D, HL(h), HR(h), S, HL(h1), HR(h1), S1)
    BY <1>6, <1>7 DEF Sides, TurnedTree
  <1>9. c \in S[p] /\ y \in S[c] /\ p \notin S[c] /\ S[c] \subseteq S[p] /\ p \in S[p]
    <2>1. Nest(D, L, R, S) /\ Nest(D, HL(h), HR(h), S)
      BY <1>3, <1>5 DEF Tree
    <2>2. y \in S[c]
      BY <1>5, <2>1, ChildBelow
    <2>3. c \in D /\ c \in {HL(h)[p], HR(h)[p]}
      BY <1>1, <1>5
    <2> QED
      BY <1>4, <2>1, <2>2, <2>3, ChildBelow
  <1>10. S \in [D -> SUBSET D] /\ \A q \in D : q \in S[q]
    BY <1>3 DEF Tree, Nest
  <1>11. ASSUME NEW i \in 2..Len(fs)
         PROVE  /\ S1[fs[i].node] = S[fs[i].node]
                /\ Link(h1, fs[i]) = Link(h, fs[i])
    <2>1. fs[i].node \in D /\ fs[i].node \notin S[p]
      BY <1>1, <1>2, <1>3, <1>10, OtherCalls
    <2>2. PICK q \in D : q = fs[i].node
      BY <2>1
    <2>3. q # c /\ q # y /\ q \notin S[p]
      BY <1>9, <2>1, <2>2
    <2>4. L[q] # c /\ R[q] # c
      <3>1. q # p
        BY <1>9, <2>3
      <3>2. c \in {HL(h)[p], HR(h)[p]}
        BY <1>1
      <3>3. c \notin {HL(h)[q], HR(h)[q]}
        BY <1>3, <1>4, <1>5, <3>1, <3>2, OneParent
      <3> QED
        BY <3>3 DEF Sides
    <2>5. A[q] = L[q] /\ B[q] = R[q]
      BY <1>5, <2>3, <2>4 DEF Turned
    <2>6. h1[q].left = h[q].left /\ h1[q].right = h[q].right
      BY <1>2, <2>5 DEF Sides, HL, HR
    <2> QED
      BY <1>5, <2>2, <2>3, <2>6 DEF TurnedSets, Link
  <1>12. S1[p] = S[p]
    BY <1>4, <1>5, <1>9 DEF TurnedSets
  <1>13. ASSUME NEW i \in DOMAIN fs PROVE S1[fs[i].node] = S[fs[i].node]
    <2>1. i = 1 \/ i \in 2..Len(fs)
      OBVIOUS
    <2> QED
      BY <1>1, <1>11, <1>12, <2>1
  <1>14. Stack(h1, fs, r, S1)
    BY <1>3, <1>11, <1>13 DEF Stack
  <1> QED
    BY <1>2, <1>8, <1>14 DEF Settled

-----------------------------------------------------------------------------
(* What a rotation makes of the heights.                                   *)
TurnedHeights(h, L, R, y, x, h2) ==
    \A q \in DOMAIN h :
      h2[q].height = IF q = y THEN 1 + max(Ht(h, R[x]), Ht(h, R[y]))
                     ELSE IF q = x
                     THEN 1 + max(Ht(h, L[x]), 1 + max(Ht(h, R[x]), Ht(h, R[y])))
                     ELSE h[q].height

(* It does not disturb the balance of the nodes around it; the two that it *)
(* turns are balanced when the subtrees they get are even.                 *)
EvenAround(h, L, R, y, x, h2, A, B) ==
    /\ \A q \in DOMAIN h \ {x, y} :
         y \notin {L[q], R[q]} /\ AvlNode(h, L, R, q) => AvlNode(h2, A, B, q)
    /\ \A q \in DOMAIN h :
         AvlNode(h, L, R, q) =>
           /\ L[q] = y => Even(h2[q].height, h[y].height, Ht(h2, R[q]))
           /\ R[q] = y => Even(h2[q].height, Ht(h2, L[q]), h[y].height)
    /\ h2[y].height = 1 + max(Ht(h, R[x]), Ht(h, R[y]))
    /\ h2[x].height = 1 + max(Ht(h, L[x]), h2[y].height)
    /\ Ht(h, R[x]) - Ht(h, R[y]) \in -1..1 => AvlNode(h2, A, B, y)
    /\ Ht(h, L[x]) - h2[y].height \in -1..1 => AvlNode(h2, A, B, x)

(* So it is after any rotation.                                            *)
LEMMA TurnHeights ==
    ASSUME NEW h, IsFiniteSet(DOMAIN h), \A q \in DOMAIN h : h[q].height \in Nat,
           NEW L, NEW R, NEW S, NEW r, Tree(DOMAIN h, L, R, S, r),
           NEW y \in DOMAIN h, NEW x \in DOMAIN h, x = L[y], NEW A, NEW B,
           Turned(DOMAIN h, L, R, y, x, A, B),
           NEW h2, DOMAIN h2 = DOMAIN h, TurnedHeights(h, L, R, y, x, h2)
    PROVE  EvenAround(h, L, R, y, x, h2, A, B)
  <1>1. PICK D : D = DOMAIN h
    OBVIOUS
  <1>2. /\ IsFiniteSet(D) /\ Tree(D, L, R, S, r) /\ Nest(D, L, R, S)
        /\ x \in D /\ y \in D /\ Turned(D, L, R, y, x, A, B)
    BY <1>1 DEF Tree
  <1>3. /\ x # y /\ R[y] # x /\ R[y] # y
        /\ L[x] # x /\ R[x] # x /\ L[x] # y /\ R[x] # y
    BY <1>2 DEF Nest, Below
  <1>4. \A q \in D : q # y => L[q] # x /\ R[q] # x
    <2>1. ASSUME NEW q \in D, q # y, x \in {L[q], R[q]} PROVE FALSE
      BY <1>2, <2>1, OneParent
    <2> QED
      BY <2>1
  <1>5. \A c : c \notin {x, y} => Ht(h2, c) = Ht(h, c)
    BY <1>1 DEF Ht, TurnedHeights
  <1>6. ASSUME NEW q \in D \ {x, y}, y \notin {L[q], R[q]}, AvlNode(h, L, R, q)
        PROVE  AvlNode(h2, A, B, q)
    <2>1. A[q] = L[q] /\ B[q] = R[q]
      BY <1>2, <1>6 DEF Turned
    <2>2. Ht(h2, A[q]) = Ht(h, L[q]) /\ Ht(h2, B[q]) = Ht(h, R[q])
      BY <1>4, <1>5, <1>6, <2>1
    <2>3. h2[q].height = h[q].height
      BY <1>1, <1>6 DEF TurnedHeights
    <2> QED
      BY <1>6, <2>2, <2>3 DEF AvlNode
  <1>7. ASSUME NEW q \in D, AvlNode(h, L, R, q), y \in {L[q], R[q]}
        PROVE  /\ L[q] = y => Even(h2[q].height, h[y].height, Ht(h2, R[q]))
               /\ R[q] = y => Even(h2[q].height, Ht(h2, L[q]), h[y].height)
    <2>1. q # y /\ q # x
      BY <1>2, <1>3, <1>7 DEF Nest, Below
    <2>2. L[q] # x /\ R[q] # x
      BY <1>4, <2>1
    <2>3. ~(L[q] = y /\ R[q] = y)
      BY <1>2 DEF Nest, Below
    <2>4. Ht(h, y) = h[y].height /\ h2[q].height = h[q].height
      BY <1>1, <1>2, <2>1 DEF Ht, TurnedHeights
    <2> QED
      BY <1>5, <1>7, <2>2, <2>3, <2>4 DEF AvlNode
  <1>8. /\ h2[y].height = 1 + max(Ht(h, R[x]), Ht(h, R[y]))
        /\ h2[x].height = 1 + max(Ht(h, L[x]), h2[y].height)
    BY <1>3 DEF TurnedHeights
  <1>9. /\ A[y] = R[x] /\ B[y] = R[y] /\ A[x] = L[x] /\ B[x] = y
    BY <1>2, <1>3 DEF Turned
  <1>10. /\ Ht(h2, A[y]) = Ht(h, R[x]) /\ Ht(h2, B[y]) = Ht(h, R[y])
         /\ Ht(h2, A[x]) = Ht(h, L[x])
    BY <1>3, <1>5, <1>9
  <1>11. Ht(h2, B[x]) = h2[y].height
    BY <1>9 DEF Ht
  <1>12. Ht(h, R[x]) - Ht(h, R[y]) \in -1..1 => AvlNode(h2, A, B, y)
    BY <1>8, <1>10 DEF AvlNode, Even
  <1>13. Ht(h, L[x]) - h2[y].height \in -1..1 => AvlNode(h2, A, B, x)
    BY <1>8, <1>10, <1>11 DEF AvlNode, Even
  <1> QED
    BY <1>1, <1>6, <1>7, <1>8, <1>12, <1>13 DEF EvenAround

(* Balance is the same in the mirror.                                      *)
LEMMA EvenMirrored ==
    ASSUME NEW n, NEW a \in Int, NEW b \in Int
    PROVE  Even(n, a, b) <=> Even(n, b, a)
  BY DEF Even, max

-----------------------------------------------------------------------------
AvlHeap(h) ==
    /\ DOMAIN h \subseteq Address
    /\ h \in [DOMAIN h -> [key : Int, left : Pointer, right : Pointer, height : Nat]]

(* height reads the height of a node.                                      *)
LEMMA HeightRead ==
    ASSUME NEW h, AvlHeap(h), NEW p \in DOMAIN h \cup {NULL}
    PROVE  height(h, p) = Ht(h, p) /\ Ht(h, p) \in Nat
  BY TreeAssumption DEF height, Ht, AvlHeap

(* HeightSet sets the height of p and nothing else.                        *)
LEMMA HeightSetFields ==
    ASSUME NEW h, AvlHeap(h), NEW p \in DOMAIN h,
           h[p].left \in DOMAIN h \cup {NULL}, h[p].right \in DOMAIN h \cup {NULL}
    PROVE  LET h2 == HeightSet(h, p)
           IN  /\ AvlHeap(h2) /\ DOMAIN h2 = DOMAIN h
               /\ \A q \in DOMAIN h :
                    /\ h2[q].key = h[q].key
                    /\ h2[q].left = h[q].left /\ h2[q].right = h[q].right
                    /\ h2[q].height =
                         IF q = p THEN 1 + max(Ht(h, h[p].left), Ht(h, h[p].right))
                         ELSE h[q].height
  <1>1. /\ height(h, h[p].left) = Ht(h, h[p].left) /\ Ht(h, h[p].left) \in Nat
        /\ height(h, h[p].right) = Ht(h, h[p].right) /\ Ht(h, h[p].right) \in Nat
    BY HeightRead
  <1>2. PICK n \in Nat : n = max(Ht(h, h[p].left), Ht(h, h[p].right)) + 1
    BY <1>1 DEF max
  <1>3. HeightSet(h, p) = [h EXCEPT ![p].height = n]
    BY <1>1, <1>2 DEF HeightSet
  <1>4. n = 1 + max(Ht(h, h[p].left), Ht(h, h[p].right))
    BY <1>1, <1>2 DEF max
  <1> QED
    BY <1>2, <1>3, <1>4 DEF AvlHeap

(* Nothing but links and heights changes.                                  *)
SameKeys(h, h2) ==
    /\ AvlHeap(h2) /\ DOMAIN h2 = DOMAIN h
    /\ \A q \in DOMAIN h : h2[q].key = h[q].key

(* What rightRotate does to the nodes.                                     *)
LEMMA RightFields ==
    ASSUME NEW h, AvlHeap(h), NEW y \in DOMAIN h, NEW x \in DOMAIN h, x = h[y].left,
           x # y, h[x].left \notin {x, y}, h[x].right \notin {x, y}, h[y].right \notin {x, y},
           h[x].left \in DOMAIN h \cup {NULL}, h[x].right \in DOMAIN h \cup {NULL},
           h[y].right \in DOMAIN h \cup {NULL}
    PROVE  LET h2 == rightRotate(h, y).h
           IN  /\ rightRotate(h, y).p = x
               /\ SameKeys(h, h2)
               /\ \A q \in DOMAIN h :
                    /\ HL(h2)[q] = IF q = y THEN HR(h)[x] ELSE HL(h)[q]
                    /\ HR(h2)[q] = IF q = x THEN y ELSE HR(h)[q]
               /\ TurnedHeights(h, HL(h), HR(h), y, x, h2)
  <1> DEFINE t == [h EXCEPT ![x].right = y, ![y].left = h[x].right]
             g == HeightSet(t, y)
             h2 == HeightSet(g, x)
  <1>1. rightRotate(h, y) = [h |-> h2, p |-> x]
    BY DEF rightRotate
  <1>2. /\ AvlHeap(t) /\ DOMAIN t = DOMAIN h
        /\ \A q \in DOMAIN h :
             /\ t[q].key = h[q].key /\ t[q].height = h[q].height
             /\ t[q].left = IF q = y THEN h[x].right ELSE h[q].left
             /\ t[q].right = IF q = x THEN y ELSE h[q].right
    BY DEF AvlHeap, Pointer
  <1>3. \A c : Ht(t, c) = Ht(h, c)
    BY <1>2 DEF Ht
  <1> HIDE DEF t
  <1>4. /\ AvlHeap(g) /\ DOMAIN g = DOMAIN h
        /\ \A q \in DOMAIN h :
             /\ g[q].key = t[q].key
             /\ g[q].left = t[q].left /\ g[q].right = t[q].right
             /\ g[q].height = IF q = y THEN 1 + max(Ht(t, t[y].left), Ht(t, t[y].right))
                              ELSE t[q].height
    BY <1>2, HeightSetFields
  <1> HIDE DEF g
  <1>5. /\ AvlHeap(h2) /\ DOMAIN h2 = DOMAIN h
        /\ \A q \in DOMAIN h :
             /\ h2[q].key = g[q].key
             /\ h2[q].left = g[q].left /\ h2[q].right = g[q].right
             /\ h2[q].height = IF q = x THEN 1 + max(Ht(g, g[x].left), Ht(g, g[x].right))
                               ELSE g[q].height
    BY <1>2, <1>4, HeightSetFields
  <1> HIDE DEF h2
  <1>6. \A c : c # y => Ht(g, c) = Ht(h, c)
    BY <1>2, <1>3, <1>4 DEF Ht
  <1>7. g[x].left = h[x].left /\ g[x].right = y /\ t[y].left = h[x].right /\ t[y].right = h[y].right
    BY <1>2, <1>4
  <1>8. Ht(g, y) = 1 + max(Ht(h, h[x].right), Ht(h, h[y].right))
    BY <1>3, <1>4, <1>7 DEF Ht
  <1>9. Ht(g, h[x].left) = Ht(h, h[x].left)
    BY <1>6
  <1>10. TurnedHeights(h, HL(h), HR(h), y, x, h2)
    <2>1. /\ HL(h)[x] = h[x].left /\ HR(h)[x] = h[x].right /\ HR(h)[y] = h[y].right
      BY DEF HL, HR
    <2>2. ASSUME NEW q \in DOMAIN h, q # x, q # y PROVE h2[q].height = h[q].height
      BY <1>2, <1>4, <1>5, <2>2
    <2>3. h2[y].height = 1 + max(Ht(h, h[x].right), Ht(h, h[y].right))
      BY <1>3, <1>4, <1>5, <1>7
    <2>4. h2[x].height = 1 + max(Ht(h, h[x].left), 1 + max(Ht(h, h[x].right), Ht(h, h[y].right)))
      BY <1>5, <1>7, <1>8, <1>9
    <2> QED
      BY <2>1, <2>2, <2>3, <2>4 DEF TurnedHeights
  <1> QED
    BY <1>1, <1>2, <1>4, <1>5, <1>10 DEF HL, HR, SameKeys
(* max in the mirror.                                                      *)
LEMMA MaxMirrored ==
    ASSUME NEW a \in Int, NEW b \in Int
    PROVE  max(a, b) = max(b, a)
  BY DEF max

(* And leftRotate.                                                         *)
LEMMA LeftFields ==
    ASSUME NEW h, AvlHeap(h), NEW y \in DOMAIN h, NEW x \in DOMAIN h, x = h[y].right,
           x # y, h[x].right \notin {x, y}, h[x].left \notin {x, y}, h[y].left \notin {x, y},
           h[x].right \in DOMAIN h \cup {NULL}, h[x].left \in DOMAIN h \cup {NULL},
           h[y].left \in DOMAIN h \cup {NULL}
    PROVE  LET h2 == leftRotate(h, y).h
           IN  /\ leftRotate(h, y).p = x
               /\ SameKeys(h, h2)
               /\ \A q \in DOMAIN h :
                    /\ HR(h2)[q] = IF q = y THEN HL(h)[x] ELSE HR(h)[q]
                    /\ HL(h2)[q] = IF q = x THEN y ELSE HL(h)[q]
               /\ TurnedHeights(h, HR(h), HL(h), y, x, h2)
  <1> DEFINE t == [h EXCEPT ![x].left = y, ![y].right = h[x].left]
             g == HeightSet(t, y)
             h2 == HeightSet(g, x)
  <1>1. leftRotate(h, y) = [h |-> h2, p |-> x]
    BY DEF leftRotate
  <1>2. /\ AvlHeap(t) /\ DOMAIN t = DOMAIN h
        /\ \A q \in DOMAIN h :
             /\ t[q].key = h[q].key /\ t[q].height = h[q].height
             /\ t[q].right = IF q = y THEN h[x].left ELSE h[q].right
             /\ t[q].left = IF q = x THEN y ELSE h[q].left
    BY DEF AvlHeap, Pointer
  <1>3. \A c : Ht(t, c) = Ht(h, c)
    BY <1>2 DEF Ht
  <1> HIDE DEF t
  <1>4. /\ AvlHeap(g) /\ DOMAIN g = DOMAIN h
        /\ \A q \in DOMAIN h :
             /\ g[q].key = t[q].key
             /\ g[q].left = t[q].left /\ g[q].right = t[q].right
             /\ g[q].height = IF q = y THEN 1 + max(Ht(t, t[y].left), Ht(t, t[y].right))
                              ELSE t[q].height
    BY <1>2, HeightSetFields
  <1> HIDE DEF g
  <1>5. /\ AvlHeap(h2) /\ DOMAIN h2 = DOMAIN h
        /\ \A q \in DOMAIN h :
             /\ h2[q].key = g[q].key
             /\ h2[q].left = g[q].left /\ h2[q].right = g[q].right
             /\ h2[q].height = IF q = x THEN 1 + max(Ht(g, g[x].left), Ht(g, g[x].right))
                               ELSE g[q].height
    BY <1>2, <1>4, HeightSetFields
  <1> HIDE DEF h2
  <1>6. \A c : c # y => Ht(g, c) = Ht(h, c)
    BY <1>2, <1>3, <1>4 DEF Ht
  <1>7. g[x].right = h[x].right /\ g[x].left = y /\ t[y].right = h[x].left /\ t[y].left = h[y].left
    BY <1>2, <1>4
  <1>8. Ht(g, y) = 1 + max(Ht(h, h[x].left), Ht(h, h[y].left))
    <2>1. Ht(h, h[x].left) \in Nat /\ Ht(h, h[y].left) \in Nat
      BY HeightRead
    <2>2. Ht(g, y) = 1 + max(Ht(h, h[y].left), Ht(h, h[x].left))
      BY <1>3, <1>4, <1>7 DEF Ht
    <2> QED
      BY <2>1, <2>2, MaxMirrored
  <1>9. Ht(g, h[x].right) = Ht(h, h[x].right)
    BY <1>6
  <1>10. TurnedHeights(h, HR(h), HL(h), y, x, h2)
    <2>1. /\ HR(h)[x] = h[x].right /\ HL(h)[x] = h[x].left /\ HL(h)[y] = h[y].left
      BY DEF HL, HR
    <2>2. ASSUME NEW q \in DOMAIN h, q # x, q # y PROVE h2[q].height = h[q].height
      BY <1>2, <1>4, <1>5, <2>2
    <2>3. h2[y].height = 1 + max(Ht(h, h[x].left), Ht(h, h[y].left))
      BY <1>2, <1>4, <1>5, <1>8 DEF Ht
    <2>4. h2[x].height = 1 + max(Ht(h, h[x].right), 1 + max(Ht(h, h[x].left), Ht(h, h[y].left)))
      <3>1. Ht(g, h[x].right) \in Nat /\ Ht(g, y) \in Nat
        BY <1>2, <1>4, HeightRead
      <3>2. h2[x].height = 1 + max(Ht(g, y), Ht(g, h[x].right))
        BY <1>5, <1>7
      <3> QED
        BY <1>8, <1>9, <3>1, <3>2, MaxMirrored
    <2> QED
      BY <2>1, <2>2, <2>3, <2>4 DEF TurnedHeights
  <1> QED
    BY <1>1, <1>2, <1>4, <1>5, <1>10 DEF HL, HR, SameKeys

(* h2 is h with its node y turned.                                         *)
Rotation(h, L, R, y, x, h2, M, N) ==
    /\ Sides(h, L, R, h2, M, N)
    /\ SameKeys(h, h2)
    /\ x \in DOMAIN h /\ x = L[y]
    /\ \A q \in DOMAIN h : /\ M[q] = IF q = y THEN R[x] ELSE L[q]
                           /\ N[q] = IF q = x THEN y ELSE R[q]
    /\ TurnedHeights(h, L, R, y, x, h2)

(* The nodes that a rotation involves are all different.                   *)
LEMMA TurnApart ==
    ASSUME NEW D, NEW L, NEW R, NEW S, Nest(D, L, R, S),
           NEW y \in D, NEW x \in D, x = L[y]
    PROVE  x # y /\ L[x] \notin {x, y} /\ R[x] \notin {x, y} /\ R[y] \notin {x, y}
  BY DEF Nest, Below

(* rightRotate is such a rotation, ...                                     *)
LEMMA RightRotation ==
    ASSUME NEW h, AvlHeap(h), NEW S, NEW r, Tree(DOMAIN h, HL(h), HR(h), S, r),
           Closed(DOMAIN h, HL(h), HR(h), r),
           NEW y \in DOMAIN h, h[y].left \in DOMAIN h
    PROVE  LET h2 == rightRotate(h, y).h
           IN  /\ rightRotate(h, y).p = h[y].left
               /\ Rotation(h, HL(h), HR(h), y, h[y].left, h2, HL(h2), HR(h2))
  <1>1. PICK x \in DOMAIN h : x = h[y].left /\ x = HL(h)[y]
    BY DEF HL
  <1>2. x # y /\ HL(h)[x] \notin {x, y} /\ HR(h)[x] \notin {x, y} /\ HR(h)[y] \notin {x, y}
    <2>1. Nest(DOMAIN h, HL(h), HR(h), S)
      BY DEF Tree
    <2> QED
      BY <1>1, <2>1, TurnApart
  <1>3. \A q \in DOMAIN h : /\ HL(h)[q] = h[q].left /\ HR(h)[q] = h[q].right
                            /\ h[q].left \in DOMAIN h \cup {NULL}
                            /\ h[q].right \in DOMAIN h \cup {NULL}
    BY DEF HL, HR, Closed
  <1>4. /\ rightRotate(h, y).p = x
        /\ SameKeys(h, rightRotate(h, y).h)
        /\ \A q \in DOMAIN h :
             /\ HL(rightRotate(h, y).h)[q] = IF q = y THEN HR(h)[x] ELSE HL(h)[q]
             /\ HR(rightRotate(h, y).h)[q] = IF q = x THEN y ELSE HR(h)[q]
        /\ TurnedHeights(h, HL(h), HR(h), y, x, rightRotate(h, y).h)
    BY <1>1, <1>2, <1>3, RightFields
  <1> QED
    BY <1>1, <1>4 DEF Rotation, Sides

(* ... and leftRotate is its mirror image.                                 *)
LEMMA LeftRotation ==
    ASSUME NEW h, AvlHeap(h), NEW S, NEW r, Tree(DOMAIN h, HL(h), HR(h), S, r),
           Closed(DOMAIN h, HL(h), HR(h), r),
           NEW y \in DOMAIN h, h[y].right \in DOMAIN h
    PROVE  LET h2 == leftRotate(h, y).h
           IN  /\ leftRotate(h, y).p = h[y].right
               /\ Rotation(h, HR(h), HL(h), y, h[y].right, h2, HR(h2), HL(h2))
  <1>1. PICK x \in DOMAIN h : x = h[y].right /\ x = HR(h)[y]
    BY DEF HR
  <1>2. x # y /\ HR(h)[x] \notin {x, y} /\ HL(h)[x] \notin {x, y} /\ HL(h)[y] \notin {x, y}
    <2>1. Nest(DOMAIN h, HR(h), HL(h), S)
      BY Mirrored DEF Tree
    <2> QED
      BY <1>1, <2>1, TurnApart
  <1>3. \A q \in DOMAIN h : /\ HL(h)[q] = h[q].left /\ HR(h)[q] = h[q].right
                            /\ h[q].left \in DOMAIN h \cup {NULL}
                            /\ h[q].right \in DOMAIN h \cup {NULL}
    BY DEF HL, HR, Closed
  <1>4. /\ leftRotate(h, y).p = x
        /\ SameKeys(h, leftRotate(h, y).h)
        /\ \A q \in DOMAIN h :
             /\ HR(leftRotate(h, y).h)[q] = IF q = y THEN HL(h)[x] ELSE HR(h)[q]
             /\ HL(leftRotate(h, y).h)[q] = IF q = x THEN y ELSE HL(h)[q]
        /\ TurnedHeights(h, HR(h), HL(h), y, x, leftRotate(h, y).h)
    BY <1>1, <1>2, <1>3, LeftFields
  <1> QED
    BY <1>1, <1>4 DEF Rotation, Sides

-----------------------------------------------------------------------------
(* The last call has balanced its node: it returns x in a heap h2 where all*)
(* is even but for the link that x goes to, where the old height was even. *)
Balanced(h, fs, r, S, h2, x, S2) ==
    /\ SameKeys(h, h2) /\ x \in DOMAIN h
    /\ Shape(h2, Tail(fs), x, r, S2)
    /\ StillOrdered(DOMAIN h, HL(h), HR(h), S,
                    LinksL(h2, Tail(fs), x), LinksR(h2, Tail(fs), x), S2)
    /\ \A q \in DOMAIN h :
         \/ AvlNode(h2, LinksL(h2, Tail(fs), x), LinksR(h2, Tail(fs), x), q)
         \/ Tail(fs) # <<>> /\ q = Tail(fs)[1].node
    /\ Tail(fs) # <<>> => Slack(h2, Tail(fs)[1], x, h[fs[1].node].height)

(* A rotation that leaves both nodes even.                                 *)
EvenTurn(h, L, R, y, x) ==
    /\ \A q \in DOMAIN h \ {y, x} : AvlNode(h, HL(h), HR(h), q)
    /\ Ht(h, R[x]) - Ht(h, R[y]) \in -1..1
    /\ Ht(h, L[x]) - (1 + max(Ht(h, R[x]), Ht(h, R[y]))) \in -1..1

(* It does that.                                                           *)
LEMMA TurnedBalance ==
    ASSUME NEW h, AvlHeap(h), IsFiniteSet(DOMAIN h),
           NEW fs \in Seq(Frame), fs # <<>>, NEW r, NEW S, Settled(h, fs, r, S),
           NEW L, NEW R, NEW x, NEW h2, NEW M, NEW N, NEW p, p = fs[1].node,
           Rotation(h, L, R, p, x, h2, M, N), EvenTurn(h, L, R, p, x)
    PROVE  Balanced(h, fs, r, S, h2, x, TurnedSets(DOMAIN h, S, R, p, x))
  <1>1. p = fs[1].node /\ EvenTurn(h, L, R, p, x)
    OBVIOUS
  <1>2. PICK D : D = DOMAIN h
    OBVIOUS
  <1>3. PICK gs : gs = Tail(fs)
    OBVIOUS
  <1>4. /\ Tree(D, HL(h), HR(h), S, r) /\ Closed(D, HL(h), HR(h), r) /\ Tree(D, L, R, S, r)
        /\ p \in D
    BY <1>1, <1>2, Mirrored, ParentWaits DEF Settled, Rotation, Sides, Stack
  <1>5. PICK A, B : /\ A = [q \in D |-> IF L[q] = p THEN x ELSE M[q]]
                    /\ B = [q \in D |-> IF R[q] = p THEN x ELSE N[q]]
    OBVIOUS
  <1>6. /\ NodeTurn(D, L, R, M, N, p, x, A, B) /\ DOMAIN h2 = D /\ x \in D /\ x = L[p]
        /\ Sides(h, L, R, h2, M, N) /\ TurnedHeights(h, L, R, p, x, h2) /\ SameKeys(h, h2)
    BY <1>1, <1>2, <1>5 DEF NodeTurn, Rotation, SameKeys
  <1>7. PICK S2 : S2 = TurnedSets(D, S, R, p, x)
    OBVIOUS
  <1>8. /\ Turned(D, L, R, p, x, A, B)
        /\ Shape(h2, gs, x, r, S2)
        /\ StillOrdered(D, HL(h), HR(h), S, LinksL(h2, gs, x), LinksR(h2, gs, x), S2)
        /\ \/ L = HL(h) /\ LinksL(h2, gs, x) = A /\ LinksR(h2, gs, x) = B
           \/ L = HR(h) /\ LinksL(h2, gs, x) = B /\ LinksR(h2, gs, x) = A
    BY <1>1, <1>2, <1>3, <1>6, <1>7, NodeTurned
  <1>9. /\ \A q \in D \ {x, p} :
             p \notin {L[q], R[q]} /\ AvlNode(h, L, R, q) => AvlNode(h2, A, B, q)
        /\ \A q \in D :
             AvlNode(h, L, R, q) =>
               /\ L[q] = p => Even(h2[q].height, h[p].height, Ht(h2, R[q]))
               /\ R[q] = p => Even(h2[q].height, Ht(h2, L[q]), h[p].height)
        /\ h2[p].height = 1 + max(Ht(h, R[x]), Ht(h, R[p]))
        /\ h2[x].height = 1 + max(Ht(h, L[x]), h2[p].height)
        /\ Ht(h, R[x]) - Ht(h, R[p]) \in -1..1 => AvlNode(h2, A, B, p)
        /\ Ht(h, L[x]) - h2[p].height \in -1..1 => AvlNode(h2, A, B, x)
    <2>1. \A q \in DOMAIN h : h[q].height \in Nat
      BY DEF AvlHeap
    <2>2. /\ Tree(DOMAIN h, L, R, S, r) /\ p \in DOMAIN h /\ x \in DOMAIN h /\ x = L[p]
          /\ Turned(DOMAIN h, L, R, p, x, A, B)
          /\ DOMAIN h2 = DOMAIN h /\ TurnedHeights(h, L, R, p, x, h2)
      BY <1>2, <1>4, <1>6, <1>8
    <2>3. EvenAround(h, L, R, p, x, h2, A, B)
      BY <1>2, <2>1, <2>2, TurnHeights
    <2> QED
      BY <1>2, <2>3 DEF EvenAround
  <1>10. \A g, q : AvlHeap(g) => Ht(g, q) \in Nat
    BY DEF AvlHeap, Ht
  <1>11. \A q \in D : AvlNode(h, HL(h), HR(h), q) <=> AvlNode(h, L, R, q)
    <2>1. \A q : Ht(h, q) \in Int
      BY <1>10
    <2> QED
      BY <1>6, <2>1, EvenMirrored DEF Sides, AvlNode
  <1>12. \A q \in D : AvlNode(h2, A, B, q) =>
                        AvlNode(h2, LinksL(h2, gs, x), LinksR(h2, gs, x), q)
    <2>1. \A q : Ht(h2, q) \in Int
      BY <1>6, <1>10 DEF SameKeys
    <2> QED
      BY <1>8, <2>1, EvenMirrored DEF AvlNode
  <1>13. \A q \in D : /\ HL(h)[q] = p <=> gs # <<>> /\ gs[1].node = q /\ gs[1].at = "left"
                      /\ HR(h)[q] = p <=> gs # <<>> /\ gs[1].node = q /\ gs[1].at = "right"
    BY <1>1, <1>2, <1>3, ParentWaits DEF HL, HR
  <1>14. ASSUME NEW q \in D, ~(gs # <<>> /\ q = gs[1].node)
         PROVE  AvlNode(h2, LinksL(h2, gs, x), LinksR(h2, gs, x), q)
    <2>1. AvlNode(h2, A, B, q)
      <3>1. CASE q \in {p, x}
        BY <1>1, <1>9, <3>1 DEF EvenTurn
      <3>2. CASE q \notin {p, x}
        <4>1. p \notin {L[q], R[q]}
          BY <1>6, <1>13, <1>14 DEF Sides
        <4>2. AvlNode(h, L, R, q)
          BY <1>1, <1>2, <1>11, <3>2 DEF EvenTurn
        <4> QED
          BY <1>9, <3>2, <4>1, <4>2
      <3> QED
        BY <3>1, <3>2
    <2> QED
      BY <1>12, <2>1
  <1>15. ASSUME gs # <<>> PROVE Slack(h2, gs[1], x, h[p].height)
    <2>1. gs[1] \in Frame
      <3>1. gs \in Seq(Frame)
        BY <1>3, Popped
      <3> QED
        BY <1>15, <3>1
    <2>2. PICK q \in D : q = gs[1].node
      <3>1. gs \in Seq(Frame) /\ Stack(h2, gs, r, S2)
        BY <1>3, <1>8, Popped DEF Shape
      <3>2. 1 \in DOMAIN gs
        BY <1>15, <3>1
      <3> QED
        BY <1>6, <3>1, <3>2 DEF Stack
    <2>3. q \notin {p, x}
      <3>1. q # p /\ p \in {HL(h)[q], HR(h)[q]}
        BY <1>4, <1>13, <1>15, <2>1, <2>2, ChildBelow DEF Frame, Tree
      <3>2. x \in {HL(h)[p], HR(h)[p]} /\ Nest(D, HL(h), HR(h), S) /\ x \in D
        BY <1>4, <1>6 DEF Sides, Tree
      <3>3. p \in S[q] /\ q \notin S[p] /\ x \in S[p]
        BY <1>4, <3>1, <3>2, ChildBelow
      <3> QED
        BY <3>1, <3>3
    <2>4. AvlNode(h, L, R, q)
      BY <1>1, <1>2, <1>11, <2>3 DEF EvenTurn
    <2>5. M[q] = L[q] /\ N[q] = R[q]
      BY <1>6, <2>3 DEF NodeTurn
    <2>6. h2[q].left = HL(h)[q] /\ h2[q].right = HR(h)[q]
      BY <1>6, <2>5 DEF Sides, HL, HR
    <2>7. Even(h2[q].height, h[p].height, Ht(h2, IF gs[1].at = "left" THEN HR(h)[q] ELSE HL(h)[q]))
      <3>1. h[p].height \in Int /\ \A c : Ht(h2, c) \in Int
        <4>1. h[p].height \in Nat
          BY <1>2, <1>4 DEF AvlHeap
        <4>2. AvlHeap(h2)
          BY <1>6 DEF SameKeys
        <4> QED
          BY <1>10, <4>1, <4>2
      <3>2. CASE gs[1].at = "left"
        <4>1. HL(h)[q] = p
          BY <1>13, <1>15, <2>2, <3>2
        <4>2. \/ L[q] = p /\ R[q] = HR(h)[q]
              \/ R[q] = p /\ L[q] = HR(h)[q]
          BY <1>6, <4>1 DEF Sides
        <4>3. \/ Even(h2[q].height, h[p].height, Ht(h2, HR(h)[q]))
              \/ Even(h2[q].height, Ht(h2, HR(h)[q]), h[p].height)
          BY <1>9, <2>4, <4>2
        <4>4. Even(h2[q].height, h[p].height, Ht(h2, HR(h)[q]))
          BY <3>1, <4>3, EvenMirrored
        <4> QED
          BY <3>2, <4>4
      <3>3. CASE gs[1].at # "left"
        <4>1. HR(h)[q] = p
          BY <1>13, <1>15, <2>1, <2>2, <3>3 DEF Frame
        <4>2. \/ L[q] = p /\ R[q] = HL(h)[q]
              \/ R[q] = p /\ L[q] = HL(h)[q]
          BY <1>6, <4>1 DEF Sides
        <4>3. \/ Even(h2[q].height, h[p].height, Ht(h2, HL(h)[q]))
              \/ Even(h2[q].height, Ht(h2, HL(h)[q]), h[p].height)
          BY <1>9, <2>4, <4>2
        <4>4. Even(h2[q].height, h[p].height, Ht(h2, HL(h)[q]))
          BY <3>1, <4>3, EvenMirrored
        <4> QED
          BY <3>3, <4>4
      <3> QED
        BY <3>2, <3>3
    <2> QED
      BY <2>2, <2>6, <2>7 DEF Slack
  <1>16. Balanced(h, fs, r, S, h2, x, S2)
    BY <1>1, <1>2, <1>3, <1>6, <1>8, <1>14, <1>15 DEF Balanced
  <1> QED
    BY <1>1, <1>2, <1>7, <1>16

(* All nodes are even, but perhaps the last call's.                        *)
EvenElsewhere(h, p) == \A q \in DOMAIN h \ {p} : AvlNode(h, HL(h), HR(h), q)

(* Without a rotation.                                                     *)
LEMMA NoTurn ==
    ASSUME NEW h, AvlHeap(h), IsFiniteSet(DOMAIN h),
           NEW fs \in Seq(Frame), fs # <<>>, NEW r, NEW S, Settled(h, fs, r, S),
           NEW p, p = fs[1].node, EvenElsewhere(h, p),
           Ht(h, h[p].left) - Ht(h, h[p].right) \in -1..1,
           NEW h2, h2 = HeightSet(h, p)
    PROVE  /\ Balanced(h, fs, r, S, h2, p, S)
           /\ h2[p].height = 1 + max(Ht(h, h[p].left), Ht(h, h[p].right))
  <1>1. PICK D : D = DOMAIN h
    OBVIOUS
  <1>2. PICK gs : gs = Tail(fs)
    OBVIOUS
  <1>3. /\ Nest(D, HL(h), HR(h), S) /\ p \in D
        /\ h[p].left \in D \cup {NULL} /\ h[p].right \in D \cup {NULL}
    <2>1. p \in D
      BY <1>1, ParentWaits DEF Settled, Stack
    <2> QED
      BY <1>1, <2>1 DEF Settled, Closed, HL, HR, Tree
  <1>4. /\ AvlHeap(h2) /\ DOMAIN h2 = D
        /\ \A q \in D :
             /\ h2[q].key = h[q].key
             /\ h2[q].left = h[q].left /\ h2[q].right = h[q].right
             /\ h2[q].height =
                  IF q = p THEN 1 + max(Ht(h, h[p].left), Ht(h, h[p].right))
                  ELSE h[q].height
    BY <1>1, <1>3, HeightSetFields
  <1>5. HL(h2) = HL(h) /\ HR(h2) = HR(h)
    BY <1>1, <1>4 DEF HL, HR
  <1>6. /\ Shape(h2, gs, p, r, S)
        /\ LinksL(h2, gs, p) = HL(h) /\ LinksR(h2, gs, p) = HR(h)
    BY <1>1, <1>2, <1>4, <1>5, NodeUp
  <1>7. \A q \in D : /\ h[q].left = p <=> gs # <<>> /\ gs[1].node = q /\ gs[1].at = "left"
                     /\ h[q].right = p <=> gs # <<>> /\ gs[1].node = q /\ gs[1].at = "right"
    BY <1>1, <1>2, ParentWaits
  <1>8. \A c : c # p => Ht(h2, c) = Ht(h, c)
    BY <1>1, <1>4 DEF Ht
  <1>9. h[p].left # p /\ h[p].right # p
    <2>1. HL(h)[p] = h[p].left /\ HR(h)[p] = h[p].right
      BY <1>1, <1>3 DEF HL, HR
    <2> QED
      BY <1>3, <2>1, ChildBelow
  <1>10. ASSUME NEW q \in D, ~(gs # <<>> /\ q = gs[1].node)
         PROVE  AvlNode(h2, HL(h), HR(h), q)
    <2>1. HL(h)[q] = h[q].left /\ HR(h)[q] = h[q].right
      BY <1>1 DEF HL, HR
    <2>2. CASE q = p
      <3>1. Ht(h2, h[p].left) = Ht(h, h[p].left) /\ Ht(h2, h[p].right) = Ht(h, h[p].right)
        BY <1>8, <1>9
      <3> QED
        BY <1>4, <2>1, <2>2, <3>1 DEF AvlNode, Even
    <2>3. CASE q # p
      <3>1. h[q].left # p /\ h[q].right # p
        BY <1>7, <1>10
      <3>2. AvlNode(h, HL(h), HR(h), q)
        BY <1>1, <2>3 DEF EvenElsewhere
      <3> QED
        BY <1>4, <1>8, <2>1, <2>3, <3>1, <3>2 DEF AvlNode
    <2> QED
      BY <2>2, <2>3
  <1>11. ASSUME gs # <<>> PROVE Slack(h2, gs[1], p, h[p].height)
    <2>1. gs \in Seq(Frame) /\ 1 \in DOMAIN gs
      BY <1>2, <1>11, Popped
    <2>2. gs[1] \in Frame /\ gs[1].node \in D
      BY <1>4, <1>6, <2>1 DEF Shape, Stack
    <2>3. PICK q \in D : q = gs[1].node
      BY <2>2
    <2>4. q # p
      BY <1>7, <1>9, <1>11, <2>2, <2>3 DEF Frame
    <2>5. Even(h[q].height, Ht(h, h[q].left), Ht(h, h[q].right))
      BY <1>1, <2>4 DEF EvenElsewhere, AvlNode, HL, HR
    <2>6. Ht(h, p) = h[p].height
      BY <1>1, <1>3 DEF Ht
    <2>7. \A c : Ht(h, c) \in Int
      BY DEF AvlHeap, Ht
    <2>8. CASE gs[1].at = "left"
      <3>1. h[q].left = p /\ h[q].right # p
        BY <1>7, <1>11, <2>3, <2>8
      <3>2. Ht(h2, h2[q].right) = Ht(h, h[q].right) /\ h2[q].height = h[q].height
        BY <1>4, <1>8, <2>4, <3>1
      <3> QED
        BY <2>3, <2>5, <2>6, <2>8, <3>1, <3>2 DEF Slack
    <2>9. CASE gs[1].at # "left"
      <3>1. h[q].right = p /\ h[q].left # p
        BY <1>7, <1>11, <2>2, <2>3, <2>9 DEF Frame
      <3>2. Ht(h2, h2[q].left) = Ht(h, h[q].left) /\ h2[q].height = h[q].height
        BY <1>4, <1>8, <2>4, <3>1
      <3>3. Even(h[q].height, Ht(h, h[q].right), Ht(h, h[q].left))
        BY <2>5, <2>7, EvenMirrored
      <3> QED
        BY <2>3, <2>6, <2>9, <3>1, <3>2, <3>3 DEF Slack
    <2> QED
      BY <2>8, <2>9
  <1>12. StillOrdered(D, HL(h), HR(h), S, HL(h), HR(h), S)
    BY DEF StillOrdered
  <1>13. SameKeys(h, h2)
    BY <1>1, <1>4 DEF SameKeys
  <1>14. h[fs[1].node].height = h[p].height
    OBVIOUS
  <1>15. Balanced(h, fs, r, S, h2, p, S)
    BY <1>1, <1>2, <1>3, <1>6, <1>10, <1>11, <1>12, <1>13, <1>14 DEF Balanced
  <1> QED
    BY <1>3, <1>4, <1>15

(* The last call has balanced its node, whose higher child was c, and this *)
(* is the height of the result.                                            *)
Evened(h, fs, r, S, L, R, c, h2, x) ==
    /\ \E S2 : Balanced(h, fs, r, S, h2, x, S2)
    /\ h2[x].height =
         Ht(h, R[fs[1].node]) + (IF Ht(h, L[c]) = Ht(h, R[c]) THEN 3 ELSE 2)

(* A rotation is right when the higher child is not lower on the inside.   *)
LEMMA SingleTurn ==
    ASSUME NEW h, AvlHeap(h), IsFiniteSet(DOMAIN h),
           NEW fs \in Seq(Frame), fs # <<>>, NEW r, NEW S, Settled(h, fs, r, S),
           NEW p, p = fs[1].node, EvenElsewhere(h, p),
           NEW L, NEW R, NEW x, NEW h2, NEW M, NEW N, Rotation(h, L, R, p, x, h2, M, N),
           Ht(h, L[p]) = Ht(h, R[p]) + 2, Ht(h, L[x]) >= Ht(h, R[x])
    PROVE  Evened(h, fs, r, S, L, R, x, h2, x)
  <1>1. \A c : Ht(h, c) \in Nat
    BY DEF AvlHeap, Ht
  <1>2. x = L[p] /\ x \in DOMAIN h /\ Ht(h, x) = h[x].height
    BY DEF Rotation, Ht
  <1>3. x # p /\ p \in DOMAIN h
    <2>1. p \in DOMAIN h
      BY LastNode
    <2>2. Nest(DOMAIN h, HL(h), HR(h), S)
      BY DEF Settled, Tree
    <2> QED
      BY <1>2, <2>1, <2>2, ChildBelow DEF Rotation, Sides
  <1>4. Even(h[x].height, Ht(h, L[x]), Ht(h, R[x]))
    <2>1. Even(h[x].height, Ht(h, HL(h)[x]), Ht(h, HR(h)[x]))
      BY <1>2, <1>3 DEF EvenElsewhere, AvlNode
    <2>2. \/ HL(h)[x] = L[x] /\ HR(h)[x] = R[x]
          \/ HL(h)[x] = R[x] /\ HR(h)[x] = L[x]
      BY DEF Rotation, Sides
    <2> QED
      BY <1>1, <2>1, <2>2, EvenMirrored
  <1>5. PICK b \in Nat : b = Ht(h, R[p])
    BY <1>1
  <1>6. PICK m \in Nat : m = Ht(h, L[x])
    BY <1>1
  <1>7. PICK n \in Nat : n = Ht(h, R[x])
    BY <1>1
  <1>8. b + 2 = 1 + max(m, n) /\ m - n \in -1..1 /\ m >= n
    BY <1>2, <1>4, <1>5, <1>6, <1>7 DEF Even
  <1>9. m = b + 1 /\ (n = b \/ n = b + 1)
    BY <1>8 DEF max
  <1>10. n - b \in -1..1 /\ m - (1 + max(n, b)) \in -1..1
    BY <1>9 DEF max
  <1>11. 1 + max(m, 1 + max(n, b)) = b + (IF m = n THEN 3 ELSE 2)
    BY <1>9 DEF max
  <1>12. EvenTurn(h, L, R, p, x)
    BY <1>5, <1>6, <1>7, <1>10 DEF EvenTurn, EvenElsewhere
  <1>13. Balanced(h, fs, r, S, h2, x, TurnedSets(DOMAIN h, S, R, p, x))
    BY <1>12, TurnedBalance
  <1>14. h2[x].height = 1 + max(Ht(h, L[x]), 1 + max(Ht(h, R[x]), Ht(h, R[p])))
    BY <1>2, <1>3 DEF Rotation, TurnedHeights
  <1> QED
    BY <1>5, <1>6, <1>7, <1>11, <1>13, <1>14 DEF Evened

(* A heap whose child c of p is turned, y taking its place.                *)
ChildRotation(h, L, R, p, c, y, h1, L1, R1) ==
    /\ c \in DOMAIN h /\ c = L[p]
    /\ Sides(h, L, R, h1, L1, R1)
    /\ SameKeys(h, h1)
    /\ \E M, N : NodeTurn(DOMAIN h, R, L, M, N, c, y, R1, L1)
    /\ TurnedHeights(h, R, L, c, y, h1)

(* The tree after it.                                                      *)
ChildIsTurned(h, fs, r, S, L, R, c, y, h1, L1, R1) ==
    /\ y \in DOMAIN h /\ y = R[c] /\ Turned(DOMAIN h, R, L, c, y, R1, L1)
    /\ \E S1 : /\ Settled(h1, fs, r, S1)
               /\ StillOrdered(DOMAIN h, HL(h), HR(h), S, HL(h1), HR(h1), S1)

(* After the first half of a double rotation the tree is in order.         *)
LEMMA ChildSettled ==
    ASSUME NEW h, IsFiniteSet(DOMAIN h),
           NEW fs \in Seq(Frame), fs # <<>>, NEW r, NEW S, Settled(h, fs, r, S),
           NEW p, p = fs[1].node, NEW L, NEW R, NEW c, NEW y, NEW h1, NEW L1, NEW R1,
           ChildRotation(h, L, R, p, c, y, h1, L1, R1)
    PROVE  ChildIsTurned(h, fs, r, S, L, R, c, y, h1, L1, R1)
  <1>1. PICK D : D = DOMAIN h
    OBVIOUS
  <1>2. /\ c \in D /\ c = L[p] /\ Sides(h, L, R, h1, L1, R1)
        /\ AvlHeap(h1) /\ DOMAIN h1 = D /\ \A q \in D : h1[q].key = h[q].key
    BY <1>1 DEF ChildRotation, SameKeys
  <1>3. /\ Tree(D, HL(h), HR(h), S, r) /\ Closed(D, HL(h), HR(h), r)
        /\ Tree(D, R, L, S, r) /\ Closed(D, R, L, r) /\ Nest(D, R, L, S)
        /\ p \in D
    <2>1. p \in D
      BY <1>1, LastNode
    <2>2. Tree(D, HL(h), HR(h), S, r) /\ Closed(D, HL(h), HR(h), r)
      BY <1>1 DEF Settled
    <2>3. Tree(D, R, L, S, r) /\ Closed(D, R, L, r)
      BY <1>2, <2>2, Mirrored DEF Sides
    <2> QED
      BY <2>1, <2>2, <2>3 DEF Tree
  <1>4. PICK M1, N1 : NodeTurn(D, R, L, M1, N1, c, y, R1, L1)
    BY <1>1 DEF ChildRotation
  <1>5. y \in D /\ y = R[c]
    BY <1>4 DEF NodeTurn
  <1>6. Turned(D, R, L, c, y, R1, L1)
    BY <1>1, <1>2, <1>3, <1>4, NodeTurnTurns
  <1>7. PICK S1 : S1 = TurnedSets(D, S, L, c, y)
    OBVIOUS
  <1>8. /\ Settled(h1, fs, r, S1)
        /\ StillOrdered(D, HL(h), HR(h), S, HL(h1), HR(h1), S1)
    <2>1. Sides(h, R, L, h1, R1, L1) /\ c \in {HL(h)[fs[1].node], HR(h)[fs[1].node]}
      BY <1>2 DEF Sides
    <2>2. /\ DOMAIN h1 = DOMAIN h /\ c \in DOMAIN h /\ y \in DOMAIN h /\ y = R[c]
          /\ Turned(DOMAIN h, R, L, c, y, R1, L1)
          /\ S1 = TurnedSets(DOMAIN h, S, L, c, y)
      BY <1>1, <1>2, <1>5, <1>6, <1>7
    <2> QED
      BY <1>1, <2>1, <2>2, ChildTurned
  <1> QED
    BY <1>1, <1>5, <1>6, <1>8 DEF ChildIsTurned

(* Two of them are right when the higher child is lower on the inside.     *)
LEMMA DoubleTurn ==
    ASSUME NEW h, AvlHeap(h), IsFiniteSet(DOMAIN h),
           NEW fs \in Seq(Frame), fs # <<>>, NEW r, NEW S, Settled(h, fs, r, S),
           NEW p, p = fs[1].node, EvenElsewhere(h, p),
           NEW L, NEW R, NEW c, NEW y, NEW h1, NEW L1, NEW R1,
           ChildRotation(h, L, R, p, c, y, h1, L1, R1),
           NEW h2, NEW M, NEW N, Rotation(h1, L1, R1, p, y, h2, M, N),
           Ht(h, c) = Ht(h, R[p]) + 2, Ht(h, L[c]) < Ht(h, R[c])
    PROVE  Evened(h, fs, r, S, L, R, c, h2, y)
  <1>1. PICK D : D = DOMAIN h
    OBVIOUS
  <1>2. /\ c \in D /\ c = L[p] /\ Sides(h, L, R, h1, L1, R1)
        /\ AvlHeap(h1) /\ DOMAIN h1 = D /\ \A q \in D : h1[q].key = h[q].key
    BY <1>1 DEF ChildRotation, SameKeys
  <1>3. /\ Tree(D, HL(h), HR(h), S, r) /\ Closed(D, HL(h), HR(h), r)
        /\ Tree(D, R, L, S, r) /\ Closed(D, R, L, r) /\ Nest(D, R, L, S)
        /\ p \in D
    <2>1. p \in D
      BY <1>1, LastNode
    <2>2. Tree(D, HL(h), HR(h), S, r) /\ Closed(D, HL(h), HR(h), r)
      BY <1>1 DEF Settled
    <2>3. Tree(D, R, L, S, r) /\ Closed(D, R, L, r)
      BY <1>2, <2>2, Mirrored DEF Sides
    <2> QED
      BY <2>1, <2>2, <2>3 DEF Tree
  <1>4. /\ y \in D /\ y = R[c] /\ Turned(D, R, L, c, y, R1, L1)
        /\ \E S1 : /\ Settled(h1, fs, r, S1)
                   /\ StillOrdered(D, HL(h), HR(h), S, HL(h1), HR(h1), S1)
    <2>1. ChildIsTurned(h, fs, r, S, L, R, c, y, h1, L1, R1)
      BY ChildSettled
    <2> QED
      BY <1>1, <2>1 DEF ChildIsTurned
  <1>5. y \in D /\ y = R[c]
    BY <1>4
  <1>6. Turned(D, R, L, c, y, R1, L1)
    BY <1>4
  <1>8. PICK S1 : /\ Settled(h1, fs, r, S1)
                  /\ StillOrdered(D, HL(h), HR(h), S, HL(h1), HR(h1), S1)
    BY <1>4
  <1>9. EvenAround(h, R, L, c, y, h1, R1, L1)
    <2>1. \A q \in DOMAIN h : h[q].height \in Nat
      BY DEF AvlHeap
    <2>2. /\ Tree(DOMAIN h, R, L, S, r) /\ c \in DOMAIN h /\ y \in DOMAIN h /\ y = R[c]
          /\ Turned(DOMAIN h, R, L, c, y, R1, L1)
          /\ DOMAIN h1 = DOMAIN h /\ TurnedHeights(h, R, L, c, y, h1)
      BY <1>1, <1>2, <1>3, <1>5, <1>6 DEF ChildRotation
    <2> QED
      BY <2>1, <2>2, TurnHeights
  <1>10. /\ c # p /\ y # p /\ y # c /\ R[y] \notin {c, y} /\ L[y] \notin {c, y}
         /\ R[p] \notin {c, y} /\ L[c] \notin {c, y}
    <2>1. y # c /\ R[y] \notin {c, y} /\ L[y] \notin {c, y} /\ L[c] \notin {c, y}
      BY <1>2, <1>3, <1>5, TurnApart
    <2>2. p \notin S[c] /\ y \in S[c] /\ c \in S[c] /\ c # p
      BY <1>2, <1>3, <1>5, ChildBelow
    <2>3. R[p] # y
      <3>1. SUFFICES ASSUME R[p] = y PROVE FALSE
        OBVIOUS
      <3>2. IsFiniteSet(D) /\ c \in D /\ y \in {R[p], L[p]} /\ y \in {R[c], L[c]}
        BY <1>1, <1>2, <1>5, <3>1
      <3>3. p = c
        BY <1>3, <1>5, <3>2, OneParent
      <3> QED
        BY <2>2, <3>3
    <2>4. R[p] # c
      BY <1>2, <1>3, OneLink
    <2> QED
      BY <2>1, <2>2, <2>3, <2>4
  <1>11. \A g, q : AvlHeap(g) => Ht(g, q) \in Nat
    BY DEF AvlHeap, Ht
  <1>12. /\ \A q \in D : AvlNode(h, HL(h), HR(h), q) <=> AvlNode(h, R, L, q)
         /\ \A q \in D : AvlNode(h1, HL(h1), HR(h1), q) <=> AvlNode(h1, R1, L1, q)
    <2>1. \A q : Ht(h, q) \in Int /\ Ht(h1, q) \in Int
      BY <1>2, <1>11
    <2> QED
      BY <1>2, <2>1, EvenMirrored DEF Sides, AvlNode
  <1>13. PICK b \in Nat : b = Ht(h, R[p])
    BY <1>11
  <1>14. PICK c1, c2, y1, y2 \in Nat :
              /\ c1 = Ht(h, L[c]) /\ c2 = Ht(h, R[c])
              /\ y1 = Ht(h, L[y]) /\ y2 = Ht(h, R[y])
    BY <1>11
  <1>15. c1 = b /\ c2 = b + 1
    <2>1. AvlNode(h, R, L, c)
      BY <1>1, <1>2, <1>10, <1>12 DEF EvenElsewhere
    <2>2. h[c].height = b + 2
      BY <1>1, <1>2, <1>13 DEF Ht
    <2>3. b + 2 = 1 + max(c2, c1) /\ c2 - c1 \in -1..1 /\ c1 < c2
      BY <1>14, <2>1, <2>2 DEF AvlNode, Even
    <2> QED
      BY <2>3 DEF max
  <1>16. max(y2, y1) = b /\ y2 - y1 \in -1..1
    <2>1. AvlNode(h, R, L, y)
      BY <1>1, <1>5, <1>10, <1>12 DEF EvenElsewhere
    <2>2. h[y].height = b + 1
      BY <1>1, <1>5, <1>14, <1>15 DEF Ht
    <2>3. b + 1 = 1 + max(y2, y1) /\ y2 - y1 \in -1..1
      BY <1>14, <2>1, <2>2 DEF AvlNode, Even
    <2> QED
      BY <2>3 DEF max
  <1>17. (y1 = b \/ y1 = b - 1) /\ (y2 = b \/ y2 = b - 1)
    BY <1>16 DEF max
  <1>18. /\ Ht(h1, L1[p]) = Ht(h1, y) /\ L1[y] = c /\ R1[y] = R[y] /\ R1[p] = R[p]
         /\ Ht(h1, R[y]) = y2 /\ Ht(h1, R[p]) = b /\ Ht(h1, c) = b + 1
    <2>1. L1[y] = c /\ R1[y] = R[y] /\ R1[p] = R[p] /\ L1[p] = y
      BY <1>2, <1>3, <1>5, <1>6, <1>10 DEF Turned
    <2>2. \A q : q \notin {c, y} => Ht(h1, q) = Ht(h, q)
      BY <1>1, <1>2 DEF ChildRotation, TurnedHeights, Ht
    <2>3. h1[c].height = 1 + max(y1, c1)
      BY <1>9, <1>14 DEF EvenAround
    <2>4. Ht(h1, c) = b + 1
      BY <1>2, <1>15, <1>17, <2>3 DEF Ht, max
    <2> QED
      BY <1>10, <1>13, <1>14, <2>1, <2>2, <2>4
  <1>19. EvenTurn(h1, L1, R1, p, y)
    <2>1. ASSUME NEW q \in D, q # p, q # y PROVE AvlNode(h1, HL(h1), HR(h1), q)
      <3>1. CASE q = c
        <4>1. Ht(h, L[y]) - Ht(h, L[c]) \in -1..1
          BY <1>14, <1>15, <1>17
        <4>2. AvlNode(h1, R1, L1, c)
          BY <1>9, <4>1 DEF EvenAround
        <4> QED
          BY <1>12, <3>1, <4>2
      <3>2. CASE q # c
        <4>1. c \notin {R[q], L[q]}
          <5>1. c \in {R[q], L[q]} => p = q
            BY <1>1, <1>2, <1>3, OneParent
          <5> QED
            BY <2>1, <5>1
        <4>2. AvlNode(h, R, L, q)
          BY <1>1, <1>12, <2>1 DEF EvenElsewhere
        <4>3. AvlNode(h1, R1, L1, q)
          BY <1>1, <1>9, <2>1, <3>2, <4>1, <4>2 DEF EvenAround
        <4> QED
          BY <1>12, <4>3
      <3> QED
        BY <3>1, <3>2
    <2>2. y2 - b \in -1..1 /\ (b + 1) - (1 + max(y2, b)) \in -1..1
      BY <1>17 DEF max
    <2> QED
      BY <1>2, <1>18, <2>1, <2>2 DEF EvenTurn
  <1>20. PICK S2 : S2 = TurnedSets(DOMAIN h1, S1, R1, p, y)
    OBVIOUS
  <1>21. Balanced(h1, fs, r, S1, h2, y, S2)
    BY <1>1, <1>2, <1>8, <1>19, <1>20, TurnedBalance
  <1>22. h1[fs[1].node].height = h[fs[1].node].height
    BY <1>1, <1>3, <1>10 DEF ChildRotation, TurnedHeights
  <1>23. SameKeys(h, h2) /\ DOMAIN h2 = D
    BY <1>1, <1>2, <1>21 DEF Balanced, SameKeys
  <1>24. StillOrdered(D, HL(h), HR(h), S,
                      LinksL(h2, Tail(fs), y), LinksR(h2, Tail(fs), y), S2)
    BY <1>2, <1>8, <1>21 DEF Balanced, StillOrdered
  <1>25. Balanced(h, fs, r, S, h2, y, S2)
    BY <1>1, <1>2, <1>21, <1>22, <1>23, <1>24 DEF Balanced
  <1>26. h2[y].height = b + 2
    <2>1. h2[y].height = 1 + max(b + 1, 1 + max(y2, b))
      BY <1>2, <1>5, <1>10, <1>18 DEF Rotation, TurnedHeights
    <2> QED
      BY <1>17, <2>1 DEF max
  <1> QED
    BY <1>13, <1>14, <1>15, <1>25, <1>26 DEF Evened

-----------------------------------------------------------------------------
(* The same heap but for the height of p.                                  *)
SameButHeight(h, g, p) ==
    /\ SameKeys(h, g)
    /\ HL(g) = HL(h) /\ HR(g) = HR(h)
    /\ \A q \in DOMAIN h : q # p => g[q].height = h[q].height

(* A rotation of p sets that height.                                       *)
LEMMA RotationReset ==
    ASSUME NEW h, NEW g, NEW p, SameButHeight(h, g, p),
           NEW L, NEW R, NEW x, NEW h2, NEW M, NEW N, Rotation(g, L, R, p, x, h2, M, N),
           x # p, L[x] # p, R[x] # p, R[p] # p
    PROVE  Rotation(h, L, R, p, x, h2, M, N)
  <1>1. /\ DOMAIN g = DOMAIN h /\ HL(g) = HL(h) /\ HR(g) = HR(h)
        /\ \A q \in DOMAIN h : g[q].key = h[q].key
        /\ \A q \in DOMAIN h : q # p => g[q].height = h[q].height
    BY DEF SameButHeight, SameKeys
  <1>2. \A c : c # p => Ht(g, c) = Ht(h, c)
    BY <1>1 DEF Ht
  <1>3. TurnedHeights(h, L, R, p, x, h2)
    <2>1. TurnedHeights(g, L, R, p, x, h2)
      BY DEF Rotation
    <2>2. Ht(g, R[x]) = Ht(h, R[x]) /\ Ht(g, L[x]) = Ht(h, L[x]) /\ Ht(g, R[p]) = Ht(h, R[p])
      BY <1>2
    <2> QED
      BY <1>1, <2>1, <2>2 DEF TurnedHeights
  <1>4. SameKeys(h, h2)
    BY <1>1 DEF Rotation, SameKeys
  <1> QED
    BY <1>1, <1>3, <1>4 DEF Rotation, Sides

(* A rotation of its child does not look at it.                            *)
LEMMA ChildRotationReset ==
    ASSUME NEW h, AvlHeap(h), NEW g, NEW p \in DOMAIN h, SameButHeight(h, g, p),
           NEW L, NEW R, NEW c, NEW y, NEW h1, NEW L1, NEW R1,
           ChildRotation(g, L, R, p, c, y, h1, L1, R1),
           c # p, y # p, L[y] # p, R[y] # p, L[c] # p
    PROVE  \E h2 : /\ ChildRotation(h, L, R, p, c, y, h2, L1, R1)
                   /\ SameButHeight(h2, h1, p)
  <1>1. /\ DOMAIN g = DOMAIN h /\ HL(g) = HL(h) /\ HR(g) = HR(h)
        /\ \A q \in DOMAIN h : g[q].key = h[q].key
        /\ \A q \in DOMAIN h : q # p => g[q].height = h[q].height
    BY DEF SameButHeight, SameKeys
  <1>2. /\ AvlHeap(h1) /\ DOMAIN h1 = DOMAIN h /\ \A q \in DOMAIN h : h1[q].key = h[q].key
        /\ TurnedHeights(g, R, L, c, y, h1) /\ Sides(g, L, R, h1, L1, R1)
    BY <1>1 DEF ChildRotation, SameKeys
  <1>3. \A q : q # p => Ht(g, q) = Ht(h, q)
    BY <1>1 DEF Ht
  <1>4. PICK h2 : h2 = [h1 EXCEPT ![p].height = h[p].height]
    OBVIOUS
  <1>5. /\ AvlHeap(h2) /\ DOMAIN h2 = DOMAIN h
        /\ \A q \in DOMAIN h : /\ h2[q].key = h1[q].key
                               /\ h2[q].left = h1[q].left /\ h2[q].right = h1[q].right
                               /\ h2[q].height = IF q = p THEN h[p].height ELSE h1[q].height
    BY <1>2, <1>4 DEF AvlHeap
  <1>6. HL(h2) = HL(h1) /\ HR(h2) = HR(h1)
    BY <1>2, <1>5 DEF HL, HR
  <1>7. TurnedHeights(h, R, L, c, y, h2)
    <2>1. /\ Ht(g, L[y]) = Ht(h, L[y]) /\ Ht(g, R[y]) = Ht(h, R[y]) /\ Ht(g, L[c]) = Ht(h, L[c])
      BY <1>3
    <2>2. ASSUME NEW q \in DOMAIN h, q # p
          PROVE  h2[q].height = IF q = c THEN 1 + max(Ht(h, L[y]), Ht(h, L[c]))
                     ELSE IF q = y
                     THEN 1 + max(Ht(h, R[y]), 1 + max(Ht(h, L[y]), Ht(h, L[c])))
                     ELSE h[q].height
      BY <1>1, <1>2, <1>5, <2>1, <2>2 DEF TurnedHeights
    <2>3. h2[p].height = h[p].height
      BY <1>5
    <2> QED
      BY <2>2, <2>3 DEF TurnedHeights
  <1>8. ChildRotation(h, L, R, p, c, y, h2, L1, R1)
    <2>1. SameKeys(h, h2)
      BY <1>2, <1>5 DEF SameKeys
    <2>2. Sides(h, L, R, h2, L1, R1)
      BY <1>1, <1>2, <1>6 DEF Sides
    <2>3. c \in DOMAIN h /\ c = L[p] /\ \E M, N : NodeTurn(DOMAIN h, R, L, M, N, c, y, R1, L1)
      BY <1>1 DEF ChildRotation
    <2> QED
      BY <1>7, <2>1, <2>2, <2>3 DEF ChildRotation
  <1>9. SameButHeight(h2, h1, p)
    BY <1>2, <1>5, <1>6 DEF SameButHeight, SameKeys
  <1> QED
    BY <1>8, <1>9

(* The first half of a double rotation: the child is turned and linked.    *)
LinkedTo(g, M, N, p, y, h1, L1, R1) ==
    /\ SameKeys(g, h1)
    /\ \A q \in DOMAIN g : /\ h1[q].height = g[q].height
                           /\ L1[q] = IF q = p THEN y ELSE M[q]
                           /\ R1[q] = N[q]

(* A rotation of the child whose result is linked is such a first half.    *)
LEMMA ChildLinked ==
    ASSUME NEW h, IsFiniteSet(DOMAIN h), NEW S, NEW r, NEW L, NEW R,
           Tree(DOMAIN h, L, R, S, r), NEW p \in DOMAIN h,
           NEW c \in DOMAIN h, c = L[p], NEW y, NEW g, NEW M, NEW N,
           Rotation(h, R, L, c, y, g, N, M),
           NEW h1, NEW L1, NEW R1, Sides(h, L, R, h1, L1, R1),
           LinkedTo(g, M, N, p, y, h1, L1, R1)
    PROVE  ChildRotation(h, L, R, p, c, y, h1, L1, R1)
  <1>1. PICK D : D = DOMAIN h
    OBVIOUS
  <1>2. /\ DOMAIN g = D /\ DOMAIN h1 = D
        /\ \A q \in D : L1[q] = (IF q = p THEN y ELSE M[q]) /\ R1[q] = N[q]
    BY <1>1 DEF LinkedTo, SameKeys, Rotation
  <1>3. \A q \in D : (L[q] = c <=> q = p) /\ R[q] # c
    <2>1. ASSUME NEW q \in D, c \in {L[q], R[q]} PROVE q = p
      BY <1>1, <2>1, OneParent
    <2>2. R[p] # c
      BY OneLink DEF Tree
    <2> QED
      BY <1>1, <2>1, <2>2
  <1>4. L1 = [q \in D |-> L1[q]] /\ R1 = [q \in D |-> R1[q]]
    BY <1>2 DEF Sides, HL, HR
  <1>5. /\ R1 = [q \in D |-> IF R[q] = c THEN y ELSE N[q]]
        /\ L1 = [q \in D |-> IF L[q] = c THEN y ELSE M[q]]
    BY <1>3, <1>4, <1>2
  <1>6. NodeTurn(D, R, L, N, M, c, y, R1, L1)
    BY <1>1, <1>5 DEF NodeTurn, Rotation
  <1>7. TurnedHeights(h, R, L, c, y, h1)
    BY <1>1, <1>2 DEF Rotation, TurnedHeights, LinkedTo
  <1>8. SameKeys(h, h1)
    BY DEF Rotation, SameKeys, LinkedTo
  <1> QED
    BY <1>1, <1>6, <1>7, <1>8 DEF ChildRotation

(* getBalance compares the heights of the children.                        *)
LEMMA BalanceRead ==
    ASSUME NEW h, AvlHeap(h), NEW c \in DOMAIN h,
           h[c].left \in DOMAIN h \cup {NULL}, h[c].right \in DOMAIN h \cup {NULL}
    PROVE  getBalance(h, c) = Ht(h, h[c].left) - Ht(h, h[c].right)
  <1>1. c # NULL
    BY TreeAssumption DEF AvlHeap
  <1>2. /\ height(h, h[c].left) = Ht(h, h[c].left)
        /\ height(h, h[c].right) = Ht(h, h[c].right)
    BY HeightRead
  <1> QED
    BY <1>1, <1>2 DEF getBalance

(* The height of the last call's node does not matter to the tree.         *)
LEMMA HeightSetSettled ==
    ASSUME NEW h, AvlHeap(h), NEW fs \in Seq(Frame), fs # <<>>, NEW r, NEW S,
           Settled(h, fs, r, S), NEW p, p = fs[1].node
    PROVE  /\ SameButHeight(h, HeightSet(h, p), p)
           /\ Settled(HeightSet(h, p), fs, r, S)
  <1>1. p \in DOMAIN h
    BY LastNode
  <1>2. h[p].left \in DOMAIN h \cup {NULL} /\ h[p].right \in DOMAIN h \cup {NULL}
    BY <1>1 DEF Settled, Closed, HL, HR
  <1>3. PICK g : g = HeightSet(h, p)
    OBVIOUS
  <1>4. /\ AvlHeap(g) /\ DOMAIN g = DOMAIN h
        /\ \A q \in DOMAIN h :
             /\ g[q].key = h[q].key
             /\ g[q].left = h[q].left /\ g[q].right = h[q].right
             /\ g[q].height = IF q = p THEN 1 + max(Ht(h, h[p].left), Ht(h, h[p].right))
                              ELSE h[q].height
    BY <1>1, <1>2, <1>3, HeightSetFields
  <1>5. HL(g) = HL(h) /\ HR(g) = HR(h)
    BY <1>4 DEF HL, HR
  <1>6. SameButHeight(h, g, p)
    BY <1>4, <1>5 DEF SameButHeight, SameKeys
  <1>7. ASSUME NEW x \in DOMAIN fs PROVE Link(g, fs[x]) = Link(h, fs[x])
    <2>1. fs[x].node \in DOMAIN h
      BY DEF Settled, Stack
    <2> QED
      BY <1>4, <2>1 DEF Link
  <1>8. Settled(g, fs, r, S)
    BY <1>4, <1>5, <1>7 DEF Settled, Stack
  <1> QED
    BY <1>3, <1>6, <1>8

(* The left subtree is too high.                                           *)
LEMMA LeftTall ==
    ASSUME NEW h, AvlHeap(h), IsFiniteSet(DOMAIN h),
           NEW fs \in Seq(Frame), fs # <<>>, NEW r, NEW S, Settled(h, fs, r, S),
           NEW p, p = fs[1].node, EvenElsewhere(h, p),
           Ht(h, h[p].left) = Ht(h, h[p].right) + 2,
           NEW g, g = HeightSet(h, p), NEW c, c = h[p].left,
           NEW z, z = IF getBalance(g, c) >= 0 THEN rightRotate(g, p) ELSE leftRightRotate(g, p)
    PROVE  Evened(h, fs, r, S, HL(h), HR(h), c, z.h, z.p)
  <1>1. PICK D : D = DOMAIN h
    OBVIOUS
  <1>2. /\ SameButHeight(h, g, p) /\ Settled(g, fs, r, S)
        /\ AvlHeap(g) /\ DOMAIN g = D /\ p \in D
        /\ HL(g) = HL(h) /\ HR(g) = HR(h)
    BY <1>1, HeightSetSettled, LastNode DEF SameButHeight, SameKeys
  <1>3. \A k, q : AvlHeap(k) => Ht(k, q) \in Nat
    BY DEF AvlHeap, Ht
  <1>4. \A q \in D : /\ HL(h)[q] = h[q].left /\ HR(h)[q] = h[q].right
                     /\ g[q].left = h[q].left /\ g[q].right = h[q].right
                     /\ h[q].left \in D \cup {NULL} /\ h[q].right \in D \cup {NULL}
    <2>1. \A q \in D : /\ HL(h)[q] = h[q].left /\ HR(h)[q] = h[q].right
                       /\ HL(g)[q] = g[q].left /\ HR(g)[q] = g[q].right
      BY <1>1, <1>2 DEF HL, HR
    <2>2. \A q \in D : HL(h)[q] \in D \cup {NULL} /\ HR(h)[q] \in D \cup {NULL}
      BY <1>1 DEF Settled, Closed
    <2> QED
      BY <1>2, <2>1, <2>2
  <1>5. c \in D /\ Ht(h, c) = Ht(h, h[p].right) + 2
    <2>1. Ht(h, h[p].right) \in Nat
      BY <1>3
    <2>2. Ht(h, c) > 0
      BY <2>1
    <2> QED
      BY <1>1, <2>2 DEF Ht
  <1>6. /\ Tree(D, HL(h), HR(h), S, r) /\ Closed(D, HL(h), HR(h), r)
        /\ Nest(D, HL(h), HR(h), S)
    BY <1>1 DEF Settled, Tree
  <1>7. /\ c # p /\ HL(h)[c] \notin {c, p} /\ HR(h)[c] \notin {c, p} /\ HR(h)[p] \notin {c, p}
    BY <1>2, <1>4, <1>5, <1>6, TurnApart
  <1>8. getBalance(g, c) = Ht(h, h[c].left) - Ht(h, h[c].right)
    <2>1. \A q : q # p => Ht(g, q) = Ht(h, q)
      BY <1>1, <1>2 DEF SameButHeight, Ht
    <2>2. getBalance(g, c) = Ht(g, g[c].left) - Ht(g, g[c].right)
      BY <1>2, <1>4, <1>5, BalanceRead
    <2> QED
      BY <1>4, <1>5, <1>7, <2>1, <2>2
  <1>9. Ht(h, h[c].left) \in Nat /\ Ht(h, h[c].right) \in Nat
    BY <1>3
  <1>10. CASE getBalance(g, c) >= 0
    <2>1. PICK h2 : h2 = rightRotate(g, p).h
      OBVIOUS
    <2>2. rightRotate(g, p).p = c /\ Rotation(g, HL(h), HR(h), p, c, h2, HL(h2), HR(h2))
      BY <1>2, <1>4, <1>5, <1>6, <2>1, RightRotation
    <2>3. Rotation(h, HL(h), HR(h), p, c, h2, HL(h2), HR(h2))
      BY <1>2, <1>7, <2>2, RotationReset
    <2>4. /\ Ht(h, HL(h)[p]) = Ht(h, HR(h)[p]) + 2
          /\ Ht(h, HL(h)[c]) >= Ht(h, HR(h)[c])
      BY <1>2, <1>4, <1>5, <1>8, <1>9, <1>10
    <2>5. Evened(h, fs, r, S, HL(h), HR(h), c, h2, c)
      BY <2>3, <2>4, SingleTurn
    <2>6. z.h = h2 /\ z.p = c
      BY <1>10, <2>1, <2>2
    <2> QED
      BY <2>5, <2>6
  <1>11. CASE getBalance(g, c) < 0
    <2>1. PICK y : y = h[c].right
      OBVIOUS
    <2>2. Ht(h, h[c].left) < Ht(h, y) /\ y \in D
      <3>1. Ht(h, h[c].left) < Ht(h, y) /\ Ht(h, y) > 0
        BY <1>8, <1>9, <1>11, <2>1
      <3> QED
        BY <1>1, <3>1 DEF Ht
    <2>3. PICK k : k = leftRotate(g, c).h
      OBVIOUS
    <2>4. leftRotate(g, c).p = y /\ Rotation(g, HR(h), HL(h), c, y, k, HR(k), HL(k))
      BY <1>2, <1>4, <1>5, <1>6, <2>1, <2>2, <2>3, LeftRotation
    <2>5. PICK h1 : h1 = [k EXCEPT ![p].left = y]
      OBVIOUS
    <2>6. g[p].left = c
      BY <1>2, <1>4
    <2>7. z = rightRotate(h1, p)
      <3>1. ~(getBalance(g, c) >= 0)
        BY <1>8, <1>9, <1>11
      <3>2. z = leftRightRotate(g, p)
        BY <3>1
      <3>3. leftRightRotate(g, p) = rightRotate([k EXCEPT ![p].left = leftRotate(g, c).p], p)
        BY <2>3, <2>6 DEF leftRightRotate
      <3>4. leftRotate(g, c).p = y
        BY <2>4
      <3> QED
        BY <2>5, <3>2, <3>3, <3>4
    <2>8. /\ AvlHeap(k) /\ DOMAIN k = D
      BY <1>2, <2>4 DEF Rotation, SameKeys
    <2>9. /\ AvlHeap(h1) /\ DOMAIN h1 = D
          /\ \A q \in D : /\ h1[q].key = k[q].key /\ h1[q].height = k[q].height
                          /\ h1[q].left = IF q = p THEN y ELSE k[q].left
                          /\ h1[q].right = k[q].right
      <3>1. y \in Pointer
        BY <1>1, <2>2 DEF AvlHeap, Pointer
      <3>2. /\ D \subseteq Address /\ p \in D
            /\ k \in [D -> [key : Int, left : Pointer, right : Pointer, height : Nat]]
        BY <1>2, <2>8 DEF AvlHeap
      <3>3. h1 \in [D -> [key : Int, left : Pointer, right : Pointer, height : Nat]]
        BY <2>5, <3>1, <3>2
      <3>4. \A q \in D : /\ h1[q].key = k[q].key /\ h1[q].height = k[q].height
                         /\ h1[q].left = IF q = p THEN y ELSE k[q].left
                         /\ h1[q].right = k[q].right
        BY <2>5, <3>2
      <3>5. DOMAIN h1 = D
        BY <3>3
      <3> QED
        BY <3>2, <3>3, <3>4, <3>5 DEF AvlHeap
    <2>10. \A q \in D : /\ HL(h1)[q] = IF q = p THEN y ELSE HL(k)[q]
                        /\ HR(h1)[q] = HR(k)[q]
      <3>1. HL(h1) = [q \in D |-> h1[q].left] /\ HR(h1) = [q \in D |-> h1[q].right]
        BY <2>9 DEF HL, HR
      <3>2. HL(k) = [q \in D |-> k[q].left] /\ HR(k) = [q \in D |-> k[q].right]
        BY <2>8 DEF HL, HR
      <3>3. ASSUME NEW q \in D
            PROVE  /\ HL(h1)[q] = h1[q].left /\ HR(h1)[q] = h1[q].right
                   /\ HL(k)[q] = k[q].left /\ HR(k)[q] = k[q].right
        BY <3>1, <3>2
      <3> QED
        BY <2>9, <3>3
    <2>11. ChildRotation(g, HL(h), HR(h), p, c, y, h1, HL(h1), HR(h1))
      <3>1. LinkedTo(k, HL(k), HR(k), p, y, h1, HL(h1), HR(h1))
        <4>1. SameKeys(k, h1)
          BY <2>8, <2>9 DEF SameKeys
        <4> QED
          BY <2>8, <2>9, <2>10, <4>1 DEF LinkedTo
      <3>2. Sides(g, HL(h), HR(h), h1, HL(h1), HR(h1))
        BY <1>2 DEF Sides
      <3>3. IsFiniteSet(DOMAIN g) /\ Tree(DOMAIN g, HL(h), HR(h), S, r) /\ p \in DOMAIN g
            /\ c \in DOMAIN g /\ c = HL(h)[p]
        BY <1>1, <1>2, <1>4, <1>5, <1>6
      <3>4. Rotation(g, HR(h), HL(h), c, y, k, HR(k), HL(k))
        BY <1>2, <2>4
      <3> QED
        BY <3>1, <3>2, <3>3, <3>4, ChildLinked
    <2>12. PICK S1 : Settled(h1, fs, r, S1)
      <3>1. ChildIsTurned(g, fs, r, S, HL(h), HR(h), c, y, h1, HL(h1), HR(h1))
        BY <1>1, <1>2, <2>11, ChildSettled
      <3> QED
        BY <3>1 DEF ChildIsTurned
    <2>13. /\ Tree(D, HL(h1), HR(h1), S1, r) /\ Closed(D, HL(h1), HR(h1), r)
           /\ Nest(D, HL(h1), HR(h1), S1) /\ HL(h1)[p] = y /\ h1[p].left = y
      BY <1>2, <2>9, <2>10, <2>12 DEF Settled, Tree
    <2>14. PICK h2 : h2 = z.h
      OBVIOUS
    <2>15. z.p = y /\ Rotation(h1, HL(h1), HR(h1), p, y, h2, HL(h2), HR(h2))
      BY <1>2, <2>2, <2>7, <2>9, <2>13, <2>14, RightRotation
    <2>16. /\ y # p /\ HL(h1)[y] # p /\ HR(h1)[y] # p /\ HR(h1)[p] # p
      BY <1>2, <2>2, <2>13, TurnApart
    <2>17. HL(h)[y] # p /\ HR(h)[y] # p
      <3>1. y \in S[c] /\ p \notin S[c] /\ S[y] \subseteq S[c]
        <4>1. y = HR(h)[c] /\ c = HL(h)[p]
          BY <1>2, <1>4, <1>5, <2>1
        <4> QED
          BY <1>2, <1>5, <1>6, <2>2, <4>1, ChildBelow
      <3>2. \A q \in {HL(h)[y], HR(h)[y]} : q \in D => q \in S[y]
        BY <1>6, <2>2, ChildBelow
      <3> QED
        BY <1>2, <3>1, <3>2
    <2>18. PICK h3 : /\ ChildRotation(h, HL(h), HR(h), p, c, y, h3, HL(h1), HR(h1))
                     /\ SameButHeight(h3, h1, p)
      BY <1>1, <1>2, <1>7, <2>11, <2>16, <2>17, ChildRotationReset
    <2>19. Rotation(h3, HL(h1), HR(h1), p, y, h2, HL(h2), HR(h2))
      BY <2>15, <2>16, <2>18, RotationReset
    <2>20. /\ Ht(h, c) = Ht(h, HR(h)[p]) + 2 /\ Ht(h, HL(h)[c]) < Ht(h, HR(h)[c])
      BY <1>2, <1>4, <1>5, <2>1, <2>2
    <2>21. Evened(h, fs, r, S, HL(h), HR(h), c, h2, y)
      BY <2>18, <2>19, <2>20, DoubleTurn
    <2>22. z.p = y /\ z.h = h2
      BY <2>14, <2>15
    <2> QED
      BY <2>21, <2>22
  <1>12. getBalance(g, c) \in Int
    BY <1>8, <1>9
  <1> QED
    BY <1>10, <1>11, <1>12
(* The right subtree is too high.                                          *)
LEMMA RightTall ==
    ASSUME NEW h, AvlHeap(h), IsFiniteSet(DOMAIN h),
           NEW fs \in Seq(Frame), fs # <<>>, NEW r, NEW S, Settled(h, fs, r, S),
           NEW p, p = fs[1].node, EvenElsewhere(h, p),
           Ht(h, h[p].right) = Ht(h, h[p].left) + 2,
           NEW g, g = HeightSet(h, p), NEW c, c = h[p].right,
           NEW z, z = IF getBalance(g, c) <= 0 THEN leftRotate(g, p) ELSE rightLeftRotate(g, p)
    PROVE  Evened(h, fs, r, S, HR(h), HL(h), c, z.h, z.p)
  <1>1. PICK D : D = DOMAIN h
    OBVIOUS
  <1>2. /\ SameButHeight(h, g, p) /\ Settled(g, fs, r, S)
        /\ AvlHeap(g) /\ DOMAIN g = D /\ p \in D
        /\ HR(g) = HR(h) /\ HL(g) = HL(h)
    BY <1>1, HeightSetSettled, LastNode DEF SameButHeight, SameKeys
  <1>3. \A k, q : AvlHeap(k) => Ht(k, q) \in Nat
    BY DEF AvlHeap, Ht
  <1>4. \A q \in D : /\ HR(h)[q] = h[q].right /\ HL(h)[q] = h[q].left
                     /\ g[q].right = h[q].right /\ g[q].left = h[q].left
                     /\ h[q].right \in D \cup {NULL} /\ h[q].left \in D \cup {NULL}
    <2>1. \A q \in D : /\ HR(h)[q] = h[q].right /\ HL(h)[q] = h[q].left
                       /\ HR(g)[q] = g[q].right /\ HL(g)[q] = g[q].left
      BY <1>1, <1>2 DEF HL, HR
    <2>2. \A q \in D : HR(h)[q] \in D \cup {NULL} /\ HL(h)[q] \in D \cup {NULL}
      BY <1>1 DEF Settled, Closed
    <2> QED
      BY <1>2, <2>1, <2>2
  <1>5. c \in D /\ Ht(h, c) = Ht(h, h[p].left) + 2
    <2>1. Ht(h, h[p].left) \in Nat
      BY <1>3
    <2>2. Ht(h, c) > 0
      BY <2>1
    <2> QED
      BY <1>1, <2>2 DEF Ht
  <1>6. /\ Tree(D, HL(h), HR(h), S, r) /\ Closed(D, HL(h), HR(h), r)
        /\ Tree(D, HR(h), HL(h), S, r) /\ Nest(D, HR(h), HL(h), S)
    <2>1. Tree(D, HL(h), HR(h), S, r) /\ Closed(D, HL(h), HR(h), r)
      BY <1>1 DEF Settled
    <2> QED
      BY <2>1, Mirrored DEF Tree
  <1>7. /\ c # p /\ HR(h)[c] \notin {c, p} /\ HL(h)[c] \notin {c, p} /\ HL(h)[p] \notin {c, p}
    BY <1>2, <1>4, <1>5, <1>6, TurnApart
  <1>8. getBalance(g, c) = Ht(h, h[c].left) - Ht(h, h[c].right)
    <2>1. \A q : q # p => Ht(g, q) = Ht(h, q)
      BY <1>1, <1>2 DEF SameButHeight, Ht
    <2>2. getBalance(g, c) = Ht(g, g[c].left) - Ht(g, g[c].right)
      BY <1>2, <1>4, <1>5, BalanceRead
    <2> QED
      BY <1>4, <1>5, <1>7, <2>1, <2>2
  <1>9. Ht(h, h[c].right) \in Nat /\ Ht(h, h[c].left) \in Nat
    BY <1>3
  <1>10. CASE getBalance(g, c) <= 0
    <2>1. PICK h2 : h2 = leftRotate(g, p).h
      OBVIOUS
    <2>2. leftRotate(g, p).p = c /\ Rotation(g, HR(h), HL(h), p, c, h2, HR(h2), HL(h2))
      BY <1>2, <1>4, <1>5, <1>6, <2>1, LeftRotation
    <2>3. Rotation(h, HR(h), HL(h), p, c, h2, HR(h2), HL(h2))
      BY <1>2, <1>7, <2>2, RotationReset
    <2>4. /\ Ht(h, HR(h)[p]) = Ht(h, HL(h)[p]) + 2
          /\ Ht(h, HR(h)[c]) >= Ht(h, HL(h)[c])
      BY <1>2, <1>4, <1>5, <1>8, <1>9, <1>10
    <2>5. Evened(h, fs, r, S, HR(h), HL(h), c, h2, c)
      BY <2>3, <2>4, SingleTurn
    <2>6. z.h = h2 /\ z.p = c
      BY <1>10, <2>1, <2>2
    <2> QED
      BY <2>5, <2>6
  <1>11. CASE getBalance(g, c) > 0
    <2>1. PICK y : y = h[c].left
      OBVIOUS
    <2>2. Ht(h, h[c].right) < Ht(h, y) /\ y \in D
      <3>1. Ht(h, h[c].right) < Ht(h, y) /\ Ht(h, y) > 0
        BY <1>8, <1>9, <1>11, <2>1
      <3> QED
        BY <1>1, <3>1 DEF Ht
    <2>3. PICK k : k = rightRotate(g, c).h
      OBVIOUS
    <2>4. rightRotate(g, c).p = y /\ Rotation(g, HL(h), HR(h), c, y, k, HL(k), HR(k))
      BY <1>2, <1>4, <1>5, <1>6, <2>1, <2>2, <2>3, RightRotation
    <2>5. PICK h1 : h1 = [k EXCEPT ![p].right = y]
      OBVIOUS
    <2>6. g[p].right = c
      BY <1>2, <1>4
    <2>7. z = leftRotate(h1, p)
      <3>1. ~(getBalance(g, c) <= 0)
        BY <1>8, <1>9, <1>11
      <3>2. z = rightLeftRotate(g, p)
        BY <3>1
      <3>3. rightLeftRotate(g, p) = leftRotate([k EXCEPT ![p].right = rightRotate(g, c).p], p)
        BY <2>3, <2>6 DEF rightLeftRotate
      <3>4. rightRotate(g, c).p = y
        BY <2>4
      <3> QED
        BY <2>5, <3>2, <3>3, <3>4
    <2>8. /\ AvlHeap(k) /\ DOMAIN k = D
      BY <1>2, <2>4 DEF Rotation, SameKeys
    <2>9. /\ AvlHeap(h1) /\ DOMAIN h1 = D
          /\ \A q \in D : /\ h1[q].key = k[q].key /\ h1[q].height = k[q].height
                          /\ h1[q].right = IF q = p THEN y ELSE k[q].right
                          /\ h1[q].left = k[q].left
      <3>1. y \in Pointer
        BY <1>1, <2>2 DEF AvlHeap, Pointer
      <3>2. /\ D \subseteq Address /\ p \in D
            /\ k \in [D -> [key : Int, left : Pointer, right : Pointer, height : Nat]]
        BY <1>2, <2>8 DEF AvlHeap
      <3>3. h1 \in [D -> [key : Int, left : Pointer, right : Pointer, height : Nat]]
        BY <2>5, <3>1, <3>2
      <3>4. \A q \in D : /\ h1[q].key = k[q].key /\ h1[q].height = k[q].height
                         /\ h1[q].right = IF q = p THEN y ELSE k[q].right
                         /\ h1[q].left = k[q].left
        BY <2>5, <3>2
      <3>5. DOMAIN h1 = D
        BY <3>3
      <3> QED
        BY <3>2, <3>3, <3>4, <3>5 DEF AvlHeap
    <2>10. \A q \in D : /\ HR(h1)[q] = IF q = p THEN y ELSE HR(k)[q]
                        /\ HL(h1)[q] = HL(k)[q]
      <3>1. HR(h1) = [q \in D |-> h1[q].right] /\ HL(h1) = [q \in D |-> h1[q].left]
        BY <2>9 DEF HL, HR
      <3>2. HR(k) = [q \in D |-> k[q].right] /\ HL(k) = [q \in D |-> k[q].left]
        BY <2>8 DEF HL, HR
      <3>3. ASSUME NEW q \in D
            PROVE  /\ HR(h1)[q] = h1[q].right /\ HL(h1)[q] = h1[q].left
                   /\ HR(k)[q] = k[q].right /\ HL(k)[q] = k[q].left
        BY <3>1, <3>2
      <3> QED
        BY <2>9, <3>3
    <2>11. ChildRotation(g, HR(h), HL(h), p, c, y, h1, HR(h1), HL(h1))
      <3>1. LinkedTo(k, HR(k), HL(k), p, y, h1, HR(h1), HL(h1))
        <4>1. SameKeys(k, h1)
          BY <2>8, <2>9 DEF SameKeys
        <4> QED
          BY <2>8, <2>9, <2>10, <4>1 DEF LinkedTo
      <3>2. Sides(g, HR(h), HL(h), h1, HR(h1), HL(h1))
        BY <1>2 DEF Sides
      <3>3. IsFiniteSet(DOMAIN g) /\ Tree(DOMAIN g, HR(h), HL(h), S, r) /\ p \in DOMAIN g
            /\ c \in DOMAIN g /\ c = HR(h)[p]
        BY <1>1, <1>2, <1>4, <1>5, <1>6
      <3>4. Rotation(g, HL(h), HR(h), c, y, k, HL(k), HR(k))
        BY <1>2, <2>4
      <3> QED
        BY <3>1, <3>2, <3>3, <3>4, ChildLinked
    <2>12. PICK S1 : Settled(h1, fs, r, S1)
      <3>1. ChildIsTurned(g, fs, r, S, HR(h), HL(h), c, y, h1, HR(h1), HL(h1))
        BY <1>1, <1>2, <2>11, ChildSettled
      <3> QED
        BY <3>1 DEF ChildIsTurned
    <2>13. /\ Tree(D, HL(h1), HR(h1), S1, r) /\ Closed(D, HL(h1), HR(h1), r)
           /\ Nest(D, HR(h1), HL(h1), S1) /\ HR(h1)[p] = y /\ h1[p].right = y
      <3>1. Tree(D, HL(h1), HR(h1), S1, r) /\ Closed(D, HL(h1), HR(h1), r)
        BY <1>2, <2>9, <2>12 DEF Settled
      <3>2. Nest(D, HR(h1), HL(h1), S1)
        BY <3>1, Mirrored DEF Tree
      <3> QED
        BY <1>2, <2>9, <2>10, <3>1, <3>2
    <2>14. PICK h2 : h2 = z.h
      OBVIOUS
    <2>15. z.p = y /\ Rotation(h1, HR(h1), HL(h1), p, y, h2, HR(h2), HL(h2))
      BY <1>2, <2>2, <2>7, <2>9, <2>13, <2>14, LeftRotation
    <2>16. /\ y # p /\ HR(h1)[y] # p /\ HL(h1)[y] # p /\ HL(h1)[p] # p
      BY <1>2, <2>2, <2>13, TurnApart
    <2>17. HR(h)[y] # p /\ HL(h)[y] # p
      <3>1. y \in S[c] /\ p \notin S[c] /\ S[y] \subseteq S[c]
        <4>1. y = HL(h)[c] /\ c = HR(h)[p]
          BY <1>2, <1>4, <1>5, <2>1
        <4> QED
          BY <1>2, <1>5, <1>6, <2>2, <4>1, ChildBelow
      <3>2. \A q \in {HR(h)[y], HL(h)[y]} : q \in D => q \in S[y]
        BY <1>6, <2>2, ChildBelow
      <3> QED
        BY <1>2, <3>1, <3>2
    <2>18. PICK h3 : /\ ChildRotation(h, HR(h), HL(h), p, c, y, h3, HR(h1), HL(h1))
                     /\ SameButHeight(h3, h1, p)
      BY <1>1, <1>2, <1>7, <2>11, <2>16, <2>17, ChildRotationReset
    <2>19. Rotation(h3, HR(h1), HL(h1), p, y, h2, HR(h2), HL(h2))
      BY <2>15, <2>16, <2>18, RotationReset
    <2>20. /\ Ht(h, c) = Ht(h, HL(h)[p]) + 2 /\ Ht(h, HR(h)[c]) < Ht(h, HL(h)[c])
      BY <1>2, <1>4, <1>5, <2>1, <2>2
    <2>21. Evened(h, fs, r, S, HR(h), HL(h), c, h2, y)
      BY <2>18, <2>19, <2>20, DoubleTurn
    <2>22. z.p = y /\ z.h = h2
      BY <2>14, <2>15
    <2> QED
      BY <2>21, <2>22
  <1>12. getBalance(g, c) \in Int
    BY <1>8, <1>9
  <1> QED
    BY <1>10, <1>11, <1>12
-----------------------------------------------------------------------------
(* The rotations that the heights of p's subtrees and its child's balance  *)
(* ask for.                                                                *)
Turns(h, p, z) ==
    LET g == HeightSet(h, p)
        a == Ht(h, h[p].left)
        b == Ht(h, h[p].right)
    IN  /\ a = b + 2 =>
             z = IF getBalance(g, h[p].left) >= 0 THEN rightRotate(g, p)
                 ELSE leftRightRotate(g, p)
        /\ b = a + 2 =>
             z = IF getBalance(g, h[p].right) <= 0 THEN leftRotate(g, p)
                 ELSE rightLeftRotate(g, p)
        /\ a - b \in -1..1 => z = [h |-> g, p |-> p]

HigherChild(h, p) ==
    IF Ht(h, h[p].left) > Ht(h, h[p].right) THEN h[p].left ELSE h[p].right

(* The last call's node, with even subtrees that differ in height by two at*)
(* most, has become an even tree.                                          *)
Rebalanced(h, fs, r, S, z) ==
    LET p == fs[1].node
        a == Ht(h, h[p].left)
        b == Ht(h, h[p].right)
        c == HigherChild(h, p)
    IN  /\ \E S2 : Balanced(h, fs, r, S, z.h, z.p, S2)
        /\ z.h[z.p].height \in {max(a, b), 1 + max(a, b)}
        /\ a - b \in -1..1 =>
             z = [h |-> HeightSet(h, p), p |-> p] /\ z.h[z.p].height = 1 + max(a, b)
        /\ a - b \notin -1..1 /\ Ht(h, h[c].left) # Ht(h, h[c].right) =>
             z.h[z.p].height = max(a, b)

(* They do that.                                                           *)
LEMMA TurnsRebalance ==
    ASSUME NEW h, AvlHeap(h), IsFiniteSet(DOMAIN h),
           NEW fs \in Seq(Frame), fs # <<>>, NEW r, NEW S, Settled(h, fs, r, S),
           NEW p, p = fs[1].node, EvenElsewhere(h, p),
           Ht(h, h[p].left) - Ht(h, h[p].right) \in -2..2,
           NEW z, Turns(h, p, z)
    PROVE  Rebalanced(h, fs, r, S, z)
  <1>1. PICK g : g = HeightSet(h, p)
    OBVIOUS
  <1>2. PICK a \in Nat : a = Ht(h, h[p].left)
    BY DEF AvlHeap, Ht
  <1>3. PICK b \in Nat : b = Ht(h, h[p].right)
    BY DEF AvlHeap, Ht
  <1>4. p \in DOMAIN h /\ \A q \in DOMAIN h : HL(h)[q] = h[q].left /\ HR(h)[q] = h[q].right
    BY LastNode DEF HL, HR
  <1>5. CASE a - b \in -1..1
    <2>1. z = [h |-> g, p |-> p]
      BY <1>1, <1>2, <1>3, <1>5 DEF Turns
    <2>2. Balanced(h, fs, r, S, g, p, S) /\ g[p].height = 1 + max(a, b)
      BY <1>1, <1>2, <1>3, <1>5, NoTurn
    <2>3. z.h = g /\ z.p = p
      BY <2>1
    <2> QED
      BY <1>1, <1>2, <1>3, <1>5, <2>1, <2>2, <2>3 DEF Rebalanced
  <1>6. CASE a = b + 2
    <2>1. PICK c : c = h[p].left
      OBVIOUS
    <2>2. Evened(h, fs, r, S, HL(h), HR(h), c, z.h, z.p)
      <3>1. z = IF getBalance(g, c) >= 0 THEN rightRotate(g, p) ELSE leftRightRotate(g, p)
        BY <1>1, <1>2, <1>3, <1>6, <2>1 DEF Turns
      <3>2. Ht(h, h[p].left) = Ht(h, h[p].right) + 2
        BY <1>2, <1>3, <1>6
      <3> QED
        BY <1>1, <2>1, <3>1, <3>2, LeftTall
    <2>3. c \in DOMAIN h /\ HigherChild(h, p) = c
      BY <1>2, <1>3, <1>6, <2>1 DEF HigherChild, Ht
    <2>4. z.h[z.p].height = b + (IF Ht(h, h[c].left) = Ht(h, h[c].right) THEN 3 ELSE 2)
      BY <1>3, <1>4, <2>2, <2>3 DEF Evened
    <2>5. max(a, b) = b + 2 /\ a - b \notin -1..1
      BY <1>6 DEF max
    <2>6. /\ z.h[z.p].height \in {max(a, b), 1 + max(a, b)}
          /\ Ht(h, h[c].left) # Ht(h, h[c].right) => z.h[z.p].height = max(a, b)
      BY <2>4, <2>5
    <2>7. \E S2 : Balanced(h, fs, r, S, z.h, z.p, S2)
      BY <2>2 DEF Evened
    <2> QED
      BY <1>2, <1>3, <2>3, <2>5, <2>6, <2>7 DEF Rebalanced
  <1>7. CASE b = a + 2
    <2>1. PICK c : c = h[p].right
      OBVIOUS
    <2>2. Evened(h, fs, r, S, HR(h), HL(h), c, z.h, z.p)
      <3>1. z = IF getBalance(g, c) <= 0 THEN leftRotate(g, p) ELSE rightLeftRotate(g, p)
        BY <1>1, <1>2, <1>3, <1>7, <2>1 DEF Turns
      <3>2. Ht(h, h[p].right) = Ht(h, h[p].left) + 2
        BY <1>2, <1>3, <1>7
      <3> QED
        BY <1>1, <2>1, <3>1, <3>2, RightTall
    <2>3. c \in DOMAIN h /\ HigherChild(h, p) = c
      BY <1>2, <1>3, <1>7, <2>1 DEF HigherChild, Ht
    <2>4. z.h[z.p].height = a + (IF Ht(h, h[c].right) = Ht(h, h[c].left) THEN 3 ELSE 2)
      BY <1>2, <1>4, <2>2, <2>3 DEF Evened
    <2>5. max(a, b) = a + 2 /\ a - b \notin -1..1
      BY <1>7 DEF max
    <2>6. /\ z.h[z.p].height \in {max(a, b), 1 + max(a, b)}
          /\ Ht(h, h[c].left) # Ht(h, h[c].right) => z.h[z.p].height = max(a, b)
      BY <2>4, <2>5
    <2>7. \E S2 : Balanced(h, fs, r, S, z.h, z.p, S2)
      BY <2>2 DEF Evened
    <2> QED
      BY <1>2, <1>3, <2>3, <2>5, <2>6, <2>7 DEF Rebalanced
  <1>8. a - b \in -1..1 \/ a = b + 2 \/ b = a + 2
    BY <1>2, <1>3
  <1> QED
    BY <1>5, <1>6, <1>7, <1>8

(* After its own height is set a node reads its balance.                   *)
LEMMA OwnBalance ==
    ASSUME NEW h, AvlHeap(h), NEW fs \in Seq(Frame), fs # <<>>, NEW r, NEW S,
           Settled(h, fs, r, S), NEW p, p = fs[1].node
    PROVE  /\ getBalance(HeightSet(h, p), p) = Ht(h, h[p].left) - Ht(h, h[p].right)
           /\ HeightSet(h, p)[p].left = h[p].left /\ HeightSet(h, p)[p].right = h[p].right
           /\ Ht(h, h[p].left) \in Nat /\ Ht(h, h[p].right) \in Nat
  <1>1. PICK g : g = HeightSet(h, p)
    OBVIOUS
  <1>2. p \in DOMAIN h
    BY LastNode
  <1>3. /\ h[p].left \in DOMAIN h \cup {NULL} /\ h[p].right \in DOMAIN h \cup {NULL}
        /\ h[p].left # p /\ h[p].right # p
    <2>1. HL(h)[p] = h[p].left /\ HR(h)[p] = h[p].right
      BY <1>2 DEF HL, HR
    <2>2. Nest(DOMAIN h, HL(h), HR(h), S) /\ Closed(DOMAIN h, HL(h), HR(h), r)
      BY DEF Settled, Tree
    <2> QED
      BY <1>2, <2>1, <2>2, ChildBelow DEF Closed
  <1>4. /\ AvlHeap(g) /\ DOMAIN g = DOMAIN h
        /\ \A q \in DOMAIN h : /\ g[q].left = h[q].left /\ g[q].right = h[q].right
                               /\ q # p => g[q].height = h[q].height
    BY <1>1, <1>2, <1>3, HeightSetFields
  <1>5. getBalance(g, p) = Ht(g, g[p].left) - Ht(g, g[p].right)
    BY <1>2, <1>3, <1>4, BalanceRead
  <1>6. Ht(g, h[p].left) = Ht(h, h[p].left) /\ Ht(g, h[p].right) = Ht(h, h[p].right)
    BY <1>3, <1>4 DEF Ht
  <1>7. Ht(h, h[p].left) \in Nat /\ Ht(h, h[p].right) \in Nat
    BY DEF AvlHeap, Ht
  <1> QED
    BY <1>1, <1>2, <1>4, <1>5, <1>6, <1>7

(* The balance of a child, read after the node's height is set.            *)
LEMMA ChildBalance ==
    ASSUME NEW h, AvlHeap(h), NEW fs \in Seq(Frame), fs # <<>>, NEW r, NEW S,
           Settled(h, fs, r, S), NEW p, p = fs[1].node,
           NEW c \in DOMAIN h, c \in {h[p].left, h[p].right}
    PROVE  /\ getBalance(HeightSet(h, p), c) = Ht(h, h[c].left) - Ht(h, h[c].right)
           /\ HeightSet(h, p)[c].key = h[c].key
           /\ Ht(h, h[c].left) \in Nat /\ Ht(h, h[c].right) \in Nat
  <1>1. PICK g : g = HeightSet(h, p)
    OBVIOUS
  <1>2. p \in DOMAIN h /\ \A q \in DOMAIN h : HL(h)[q] = h[q].left /\ HR(h)[q] = h[q].right
    BY LastNode DEF HL, HR
  <1>3. Nest(DOMAIN h, HL(h), HR(h), S) /\ Closed(DOMAIN h, HL(h), HR(h), r)
    BY DEF Settled, Tree
  <1>4. /\ \A q \in DOMAIN h : /\ h[q].left \in DOMAIN h \cup {NULL}
                               /\ h[q].right \in DOMAIN h \cup {NULL}
        /\ h[c].left # p /\ h[c].right # p
    <2>1. \A q \in {h[c].left, h[c].right} : q \in DOMAIN h => q \in S[c]
      BY <1>2, <1>3, ChildBelow
    <2>2. p \notin S[c]
      BY <1>2, <1>3, ChildBelow
    <2> QED
      BY <1>2, <1>3, <2>1, <2>2 DEF Closed
  <1>5. /\ AvlHeap(g) /\ DOMAIN g = DOMAIN h
        /\ \A q \in DOMAIN h : /\ g[q].left = h[q].left /\ g[q].right = h[q].right
                               /\ g[q].key = h[q].key
                               /\ q # p => g[q].height = h[q].height
    BY <1>1, <1>2, <1>4, HeightSetFields
  <1>6. getBalance(g, c) = Ht(g, g[c].left) - Ht(g, g[c].right)
    BY <1>4, <1>5, BalanceRead
  <1>7. Ht(g, h[c].left) = Ht(h, h[c].left) /\ Ht(g, h[c].right) = Ht(h, h[c].right)
    BY <1>4, <1>5 DEF Ht
  <1>8. Ht(h, h[c].left) \in Nat /\ Ht(h, h[c].right) \in Nat
    BY DEF AvlHeap, Ht
  <1> QED
    BY <1>1, <1>5, <1>6, <1>7, <1>8

(* Deletion balances by the child's balance.                               *)
LEMMA DeleteTurns ==
    ASSUME NEW h, AvlHeap(h), NEW fs \in Seq(Frame), fs # <<>>, NEW r, NEW S,
           Settled(h, fs, r, S), NEW p, p = fs[1].node,
           Ht(h, h[p].left) - Ht(h, h[p].right) \in -2..2
    PROVE  Turns(h, p, BalancedAfterDelete(h, p))
  <1>1. PICK g : g = HeightSet(h, p)
    OBVIOUS
  <1>2. PICK a \in Nat : a = Ht(h, h[p].left)
    BY OwnBalance
  <1>3. PICK b \in Nat : b = Ht(h, h[p].right)
    BY OwnBalance
  <1>4. getBalance(g, p) = a - b /\ g[p].left = h[p].left /\ g[p].right = h[p].right
    BY <1>1, <1>2, <1>3, OwnBalance
  <1>5. PICK z : z = BalancedAfterDelete(h, p)
    OBVIOUS
  <1>6. z = CASE a - b > 1 /\ getBalance(g, h[p].left) >= 0    -> rightRotate(g, p)
              [] a - b > 1 /\ getBalance(g, h[p].left) < 0     -> leftRightRotate(g, p)
              [] a - b < -1 /\ getBalance(g, h[p].right) <= 0  -> leftRotate(g, p)
              [] a - b < -1 /\ getBalance(g, h[p].right) > 0   -> rightLeftRotate(g, p)
              [] OTHER                                         -> [h |-> g, p |-> p]
    BY <1>1, <1>4, <1>5 DEF BalancedAfterDelete
  <1>7. CASE a - b \in -1..1
    <2>1. z = [h |-> g, p |-> p]
      BY <1>6, <1>7
    <2> QED
      BY <1>1, <1>2, <1>3, <1>5, <1>7, <2>1 DEF Turns
  <1>8. CASE a = b + 2
    <2>1. PICK n \in Int : n = getBalance(g, h[p].left)
      <3>1. PICK c \in DOMAIN h : c = h[p].left
        BY <1>2, <1>8 DEF Ht
      <3>2. /\ getBalance(g, c) = Ht(h, h[c].left) - Ht(h, h[c].right)
            /\ Ht(h, h[c].left) \in Nat /\ Ht(h, h[c].right) \in Nat
        BY <1>1, <3>1, ChildBalance
      <3>3. getBalance(g, c) \in Int
        BY <3>2
      <3> QED
        BY <3>1, <3>3
    <2>2. z = IF n >= 0 THEN rightRotate(g, p) ELSE leftRightRotate(g, p)
      <3>1. CASE n >= 0
        <4>1. a - b > 1 /\ getBalance(g, h[p].left) >= 0 /\ ~(getBalance(g, h[p].left) < 0) /\ ~(a - b < -1)
          BY <1>8, <2>1, <3>1
        <4>2. z = rightRotate(g, p)
          BY <1>6, <4>1
        <4> QED
          BY <3>1, <4>2
      <3>2. CASE n < 0
        <4>1. a - b > 1 /\ ~(getBalance(g, h[p].left) >= 0) /\ getBalance(g, h[p].left) < 0 /\ ~(a - b < -1)
          BY <1>8, <2>1, <3>2
        <4>2. z = leftRightRotate(g, p)
          BY <1>6, <4>1
        <4> QED
          BY <3>2, <4>2
      <3> QED
        BY <3>1, <3>2
    <2> QED
      BY <1>1, <1>2, <1>3, <1>5, <1>8, <2>1, <2>2 DEF Turns
  <1>9. CASE b = a + 2
    <2>1. PICK n \in Int : n = getBalance(g, h[p].right)
      <3>1. PICK c \in DOMAIN h : c = h[p].right
        BY <1>3, <1>9 DEF Ht
      <3>2. /\ getBalance(g, c) = Ht(h, h[c].left) - Ht(h, h[c].right)
            /\ Ht(h, h[c].left) \in Nat /\ Ht(h, h[c].right) \in Nat
        BY <1>1, <3>1, ChildBalance
      <3>3. getBalance(g, c) \in Int
        BY <3>2
      <3> QED
        BY <3>1, <3>3
    <2>2. z = IF n <= 0 THEN leftRotate(g, p) ELSE rightLeftRotate(g, p)
      <3>1. CASE n <= 0
        <4>1. a - b < -1 /\ getBalance(g, h[p].right) <= 0 /\ ~(getBalance(g, h[p].right) > 0) /\ ~(a - b > 1)
          BY <1>9, <2>1, <3>1
        <4>2. z = leftRotate(g, p)
          BY <1>6, <4>1
        <4> QED
          BY <3>1, <4>2
      <3>2. CASE n > 0
        <4>1. a - b < -1 /\ ~(getBalance(g, h[p].right) <= 0) /\ getBalance(g, h[p].right) > 0 /\ ~(a - b > 1)
          BY <1>9, <2>1, <3>2
        <4>2. z = rightLeftRotate(g, p)
          BY <1>6, <4>1
        <4> QED
          BY <3>2, <4>2
      <3> QED
        BY <3>1, <3>2
    <2> QED
      BY <1>1, <1>2, <1>3, <1>5, <1>9, <2>1, <2>2 DEF Turns
  <1>10. a - b \in -1..1 \/ a = b + 2 \/ b = a + 2
    BY <1>2, <1>3
  <1> QED
    BY <1>5, <1>7, <1>8, <1>9, <1>10

(* Insertion does by the key: it is on the higher side of the child.       *)
KeyIsHigher(h, c, k) ==
    \/ k < h[c].key /\ Ht(h, h[c].left) > Ht(h, h[c].right)
    \/ k > h[c].key /\ Ht(h, h[c].left) < Ht(h, h[c].right)

(* The conditions of an insertion are right as well.                       *)
LEMMA InsertTurns ==
    ASSUME NEW h, AvlHeap(h), NEW fs \in Seq(Frame), fs # <<>>, NEW r, NEW S,
           Settled(h, fs, r, S), NEW p, p = fs[1].node,
           Ht(h, h[p].left) - Ht(h, h[p].right) \in -2..2, NEW k \in Int,
           Ht(h, h[p].left) = Ht(h, h[p].right) + 2 => KeyIsHigher(h, h[p].left, k),
           Ht(h, h[p].right) = Ht(h, h[p].left) + 2 => KeyIsHigher(h, h[p].right, k)
    PROVE  Turns(h, p, BalancedAfterInsert(h, p, k))
  <1>1. PICK g : g = HeightSet(h, p)
    OBVIOUS
  <1>2. PICK a \in Nat : a = Ht(h, h[p].left)
    BY OwnBalance
  <1>3. PICK b \in Nat : b = Ht(h, h[p].right)
    BY OwnBalance
  <1>4. getBalance(g, p) = a - b /\ g[p].left = h[p].left /\ g[p].right = h[p].right
    BY <1>1, <1>2, <1>3, OwnBalance
  <1>5. PICK z : z = BalancedAfterInsert(h, p, k)
    OBVIOUS
  <1>6. z = CASE a - b > 1 /\ k < g[h[p].left].key   -> rightRotate(g, p)
              [] a - b < -1 /\ k > g[h[p].right].key -> leftRotate(g, p)
              [] a - b > 1 /\ k > g[h[p].left].key   -> leftRightRotate(g, p)
              [] a - b < -1 /\ k < g[h[p].right].key -> rightLeftRotate(g, p)
              [] OTHER                               -> [h |-> g, p |-> p]
    BY <1>1, <1>4, <1>5 DEF BalancedAfterInsert
  <1>7. CASE a - b \in -1..1
    <2>1. z = [h |-> g, p |-> p]
      BY <1>6, <1>7
    <2> QED
      BY <1>1, <1>2, <1>3, <1>5, <1>7, <2>1 DEF Turns
  <1>8. CASE a = b + 2
    <2>1. PICK c \in DOMAIN h : c = h[p].left
      BY <1>2, <1>8 DEF Ht
    <2>2. /\ getBalance(g, c) \in Int /\ g[c].key \in Int
          /\ \/ k < g[c].key /\ getBalance(g, c) > 0
             \/ k > g[c].key /\ getBalance(g, c) < 0
      <3>1. /\ getBalance(g, c) = Ht(h, h[c].left) - Ht(h, h[c].right)
            /\ g[c].key = h[c].key
            /\ Ht(h, h[c].left) \in Nat /\ Ht(h, h[c].right) \in Nat
        BY <1>1, <2>1, ChildBalance
      <3>2. KeyIsHigher(h, c, k)
        BY <1>2, <1>3, <1>8, <2>1
      <3>3. h[c].key \in Int
        BY DEF AvlHeap
      <3>4. PICK u, v \in Nat : u = Ht(h, h[c].left) /\ v = Ht(h, h[c].right)
        BY <3>1
      <3>5. getBalance(g, c) = u - v /\ g[c].key = h[c].key
        BY <3>1, <3>4
      <3>6. (k < h[c].key /\ u > v) \/ (k > h[c].key /\ u < v)
        BY <3>2, <3>4 DEF KeyIsHigher
      <3> QED
        BY <3>3, <3>5, <3>6
    <2>4. PICK n, u \in Int : n = getBalance(g, c) /\ u = g[c].key
      BY <2>2
    <2>5. (k < u /\ n > 0) \/ (k > u /\ n < 0)
      BY <2>2, <2>4
    <2>3. z = IF n >= 0 THEN rightRotate(g, p) ELSE leftRightRotate(g, p)
      <3>1. CASE k < u /\ n > 0
        <4>1. a - b > 1 /\ k < g[h[p].left].key /\ ~(k > g[h[p].left].key) /\ ~(a - b < -1) /\ n >= 0
          BY <1>8, <2>1, <2>4, <3>1
        <4>2. z = rightRotate(g, p)
          BY <1>6, <4>1
        <4> QED
          BY <4>1, <4>2
      <3>2. CASE k > u /\ n < 0
        <4>1. a - b > 1 /\ ~(k < g[h[p].left].key) /\ k > g[h[p].left].key /\ ~(a - b < -1) /\ ~(n >= 0)
          BY <1>8, <2>1, <2>4, <3>2
        <4>2. z = leftRightRotate(g, p)
          BY <1>6, <4>1
        <4> QED
          BY <4>1, <4>2
      <3> QED
        BY <2>5, <3>1, <3>2
    <2> QED
      BY <1>1, <1>2, <1>3, <1>5, <1>8, <2>1, <2>3, <2>4 DEF Turns
  <1>9. CASE b = a + 2
    <2>1. PICK c \in DOMAIN h : c = h[p].right
      BY <1>3, <1>9 DEF Ht
    <2>2. /\ getBalance(g, c) \in Int /\ g[c].key \in Int
          /\ \/ k < g[c].key /\ getBalance(g, c) > 0
             \/ k > g[c].key /\ getBalance(g, c) < 0
      <3>1. /\ getBalance(g, c) = Ht(h, h[c].left) - Ht(h, h[c].right)
            /\ g[c].key = h[c].key
            /\ Ht(h, h[c].left) \in Nat /\ Ht(h, h[c].right) \in Nat
        BY <1>1, <2>1, ChildBalance
      <3>2. KeyIsHigher(h, c, k)
        BY <1>2, <1>3, <1>9, <2>1
      <3>3. h[c].key \in Int
        BY DEF AvlHeap
      <3>4. PICK u, v \in Nat : u = Ht(h, h[c].left) /\ v = Ht(h, h[c].right)
        BY <3>1
      <3>5. getBalance(g, c) = u - v /\ g[c].key = h[c].key
        BY <3>1, <3>4
      <3>6. (k < h[c].key /\ u > v) \/ (k > h[c].key /\ u < v)
        BY <3>2, <3>4 DEF KeyIsHigher
      <3> QED
        BY <3>3, <3>5, <3>6
    <2>4. PICK n, u \in Int : n = getBalance(g, c) /\ u = g[c].key
      BY <2>2
    <2>5. (k < u /\ n > 0) \/ (k > u /\ n < 0)
      BY <2>2, <2>4
    <2>3. z = IF n <= 0 THEN leftRotate(g, p) ELSE rightLeftRotate(g, p)
      <3>1. CASE k < u /\ n > 0
        <4>1. a - b < -1 /\ k < g[h[p].right].key /\ ~(k > g[h[p].right].key) /\ ~(a - b > 1) /\ ~(n <= 0)
          BY <1>9, <2>1, <2>4, <3>1
        <4>2. z = rightLeftRotate(g, p)
          BY <1>6, <4>1
        <4> QED
          BY <4>1, <4>2
      <3>2. CASE k > u /\ n < 0
        <4>1. a - b < -1 /\ ~(k < g[h[p].right].key) /\ k > g[h[p].right].key /\ ~(a - b > 1) /\ n <= 0
          BY <1>9, <2>1, <2>4, <3>2
        <4>2. z = leftRotate(g, p)
          BY <1>6, <4>1
        <4> QED
          BY <4>1, <4>2
      <3> QED
        BY <2>5, <3>1, <3>2
    <2> QED
      BY <1>1, <1>2, <1>3, <1>5, <1>9, <2>1, <2>3, <2>4 DEF Turns
  <1>10. a - b \in -1..1 \/ a = b + 2 \/ b = a + 2
    BY <1>2, <1>3
  <1> QED
    BY <1>5, <1>7, <1>8, <1>9, <1>10

-----------------------------------------------------------------------------
(* What the parts of the invariant say of the state.                       *)
LEMMA InvFacts ==
    ASSUME IInv
    PROVE  /\ IsFiniteSet(DOMAIN heap) /\ NULL \notin DOMAIN heap
           /\ DOMAIN heap \subseteq Address
           /\ program \in {"avl", "bst"}
           /\ pc # "deleteTree" => frames \in Seq(Frame)
           /\ program = "avl" => AvlHeap(heap)
           /\ \A p \in DOMAIN heap : /\ heap[p].key \in Int
                                     /\ heap[p].left \in Pointer
                                     /\ heap[p].right \in Pointer
           /\ KeysIn(heap) \in [DOMAIN heap -> Int]
  <1>1. TreeTypeOK
    BY DEF IInv
  <1>2. IsFiniteSet(DOMAIN heap) /\ NULL \notin DOMAIN heap /\ DOMAIN heap \subseteq Address
    BY <1>1, TreeAssumption, FS_Subset DEF TreeTypeOK
  <1>3. pc # "deleteTree" => frames \in Seq(Frame)
    <2>1. SUFFICES ASSUME pc # "deleteTree" PROVE frames \in Seq(Frame)
      OBVIOUS
    <2>2. {"left", "right"} \cup {} = {"left", "right"}
      OBVIOUS
    <2>3. frames \in Seq([node : Address, at : {"left", "right"} \cup {}])
      BY <1>1, <2>1 DEF TreeTypeOK
    <2> QED
      BY <2>2, <2>3 DEF Frame
  <1>4. program = "avl" => AvlHeap(heap)
    BY <1>1 DEF TreeTypeOK, NodeType, AvlHeap
  <1>5. \A p \in DOMAIN heap : /\ heap[p].key \in Int
                               /\ heap[p].left \in Pointer
                               /\ heap[p].right \in Pointer
    <2>1. ASSUME NEW p \in DOMAIN heap
          PROVE  heap[p].key \in Int /\ heap[p].left \in Pointer /\ heap[p].right \in Pointer
      <3>1. heap[p] \in NodeType
        BY <1>1 DEF TreeTypeOK
      <3>2. CASE program = "avl"
        BY <3>1, <3>2 DEF NodeType
      <3>3. CASE program # "avl"
        BY <3>1, <3>3 DEF NodeType
      <3> QED
        BY <3>2, <3>3
    <2> QED
      BY <2>1
  <1>6. KeysIn(heap) \in [DOMAIN heap -> Int]
    BY <1>5 DEF KeysIn
  <1>7. program \in {"avl", "bst"}
    BY <1>1 DEF TreeTypeOK
  <1> QED
    BY <1>2, <1>3, <1>4, <1>5, <1>6, <1>7

(* A call of main's starts at the root.                                    *)
LEMMA CallInsertKeeps ==
    ASSUME IInv, NEW k \in Int, CallInsert(k)
    PROVE  IInv'
  <1>1. /\ pc = "idle" /\ pc' = "insert" /\ key' = k /\ node' = root /\ frames = <<>>
        /\ program' = program /\ heap' = heap /\ root' = root /\ frames' = <<>>
        /\ p_current' = p_current /\ members' = members \cup {k}
    BY DEF CallInsert, MainCalls, IInv, TreeTypeOK
  <1>2. TreeTypeOK'
    BY <1>1 DEF IInv, TreeTypeOK, NodeType
  <1>3. PICK S, t : TreeKept(S) /\ KeysKept(S, t)
    BY <1>1 DEF IInv
  <1>4. TreeKept(S)'
    <2>1. Shape(heap, <<>>, root, root, S)
      BY <1>1, <1>3 DEF TreeKept
    <2>2. Handed(heap, <<>>, root, root)
      BY DEF Handed
    <2> QED
      BY <1>1, <2>1, <2>2 DEF TreeKept
  <1>5. KeysKept(S, NULL)'
    <2>1. InOrder(heap, <<>>, node, S, NULL) /\ t = NULL /\ Keys(heap) = members
      BY <1>1, <1>3 DEF KeysKept
    <2>2. InOrder(heap, <<>>, root, S, NULL)
      BY <2>1 DEF InOrder, LinksL, LinksR
    <2>3. FrameKeys(heap, <<>>, k) /\ SlotKeys(heap, <<>>, k, S)
      BY DEF FrameKeys, SlotKeys
    <2>4. Keys(heap) \cup {k} = members \cup {k}
      BY <2>1
    <2> QED
      BY <1>1, <2>2, <2>3, <2>4 DEF KeysKept
  <1>6. program = "avl" => HeightsKept'
    <2>1. SUFFICES ASSUME program = "avl" PROVE HeightsKept'
      OBVIOUS
    <2>2. HeightsKept
      BY <1>1, <2>1 DEF IInv
    <2>3. /\ LinksL(heap, <<>>, root) = LinksL(heap, <<>>, node)
          /\ LinksR(heap, <<>>, root) = LinksR(heap, <<>>, node)
      BY DEF LinksL, LinksR
    <2>4. \A p \in DOMAIN heap : AvlNode(heap, LinksL(heap, <<>>, node), LinksR(heap, <<>>, node), p)
      BY <1>1, <2>2 DEF HeightsKept
    <2> QED
      BY <1>1, <2>3, <2>4 DEF HeightsKept
  <1> QED
    BY <1>1, <1>2, <1>4, <1>5, <1>6 DEF IInv

(* A call for a deletion starts at the root too.                           *)
LEMMA CallDeleteKeeps ==
    ASSUME IInv, program = "avl", NEW k \in Int, CallDelete(k)
    PROVE  IInv'
  <1>1. /\ pc = "idle" /\ pc' = "delete" /\ key' = k /\ node' = root /\ frames = <<>>
        /\ program' = program /\ heap' = heap /\ root' = root /\ frames' = <<>>
        /\ p_current' = p_current /\ members' = members \ {k}
    BY DEF CallDelete, MainCalls, IInv, TreeTypeOK
  <1>2. TreeTypeOK'
    BY <1>1 DEF IInv, TreeTypeOK, NodeType
  <1>3. PICK S, t : TreeKept(S) /\ KeysKept(S, t)
    BY <1>1 DEF IInv
  <1>4. Shape(heap, <<>>, root, root, S)
    BY <1>1, <1>3 DEF TreeKept
  <1>5. TreeKept(S)'
    <2>1. Handed(heap, <<>>, root, root)
      BY DEF Handed
    <2> QED
      BY <1>1, <1>4, <2>1 DEF TreeKept
  <1>6. KeysKept(S, NULL)'
    <2>1. InOrder(heap, <<>>, node, S, NULL) /\ t = NULL /\ Keys(heap) = members
      BY <1>1, <1>3 DEF KeysKept
    <2>2. InOrder(heap, <<>>, root, S, NULL)
      BY <2>1 DEF InOrder, LinksL, LinksR
    <2>3. OnlyBelow(heap, root, k, S)
      BY <1>4 DEF OnlyBelow, Shape, Tree, Apex
    <2>4. Keys(heap) \ {k} = members \ {k}
      BY <2>1
    <2> QED
      BY <1>1, <2>2, <2>3, <2>4 DEF KeysKept
  <1>7. HeightsKept'
    <2>1. HeightsKept
      BY <1>1 DEF IInv
    <2>2. /\ LinksL(heap, <<>>, root) = LinksL(heap, <<>>, node)
          /\ LinksR(heap, <<>>, root) = LinksR(heap, <<>>, node)
      BY DEF LinksL, LinksR
    <2>3. \A p \in DOMAIN heap : AvlNode(heap, LinksL(heap, <<>>, node), LinksR(heap, <<>>, node), p)
      BY <1>1, <2>1 DEF HeightsKept
    <2> QED
      BY <1>1, <2>2, <2>3 DEF HeightsKept
  <1> QED
    BY <1>1, <1>2, <1>5, <1>6, <1>7 DEF IInv

(* The last waiting call's node has the height that it has with the tree   *)
(* that hangs there.                                                       *)
LEMMA SlackAsItIs ==
    ASSUME NEW h, AvlHeap(h), NEW fs \in Seq(Frame), fs # <<>>, NEW n, NEW r, NEW S,
           Settled(h, fs, r, S), Handed(h, fs, n, r), AvlNode(h, HL(h), HR(h), fs[1].node)
    PROVE  Slack(h, fs[1], n, Ht(h, n)) /\ Ht(h, n) \in Nat
  <1>1. PICK p : p = fs[1].node
    OBVIOUS
  <1>2. PICK f : f = fs[1]
    OBVIOUS
  <1>3. p \in DOMAIN h /\ f \in Frame /\ p = f.node
    BY <1>1, <1>2, LastNode
  <1>4. Even(h[p].height, Ht(h, h[p].left), Ht(h, h[p].right))
    BY <1>1, <1>3 DEF AvlNode, HL, HR
  <1>5. \A q : Ht(h, q) \in Nat
    BY DEF AvlHeap, Ht
  <1>6. n = IF f.at = "left" THEN h[p].left ELSE h[p].right
    BY <1>2, <1>3 DEF Handed, Link
  <1>7. CASE f.at = "left"
    BY <1>2, <1>3, <1>4, <1>5, <1>6, <1>7 DEF Slack
  <1>8. CASE f.at # "left"
    <2>1. Even(h[p].height, Ht(h, h[p].right), Ht(h, h[p].left))
      BY <1>4, <1>5, EvenMirrored
    <2> QED
      BY <1>2, <1>3, <1>5, <1>6, <1>8, <2>1 DEF Slack
  <1> QED
    BY <1>7, <1>8

(* On the way down the tree of the heap is whole and everywhere even.      *)
LEMMA DownFacts ==
    ASSUME IInv, pc \in {"insert", "delete", "minimum"},
           NEW S, NEW t, TreeKept(S), KeysKept(S, t)
    PROVE  /\ frames \in Seq(Frame)
           /\ Shape(heap, frames, node, root, S) /\ Handed(heap, frames, node, root)
           /\ Settled(heap, frames, root, S)
           /\ LinksL(heap, frames, node) = HL(heap) /\ LinksR(heap, frames, node) = HR(heap)
           /\ Ordered(DOMAIN heap, HL(heap), HR(heap), S, KeysIn(heap), t)
           /\ node \in DOMAIN heap \cup {NULL}
           /\ program = "avl" =>
                \A p \in DOMAIN heap : AvlNode(heap, HL(heap), HR(heap), p)
  <1>1. frames \in Seq(Frame)
    BY InvFacts
  <1>2. Shape(heap, frames, node, root, S) /\ Handed(heap, frames, node, root)
    BY DEF TreeKept
  <1>3. /\ LinksL(heap, frames, node) = HL(heap) /\ LinksR(heap, frames, node) = HR(heap)
        /\ Apex(frames, node, root) = root
    BY <1>1, <1>2, HandedLinks
  <1>4. Settled(heap, frames, root, S)
    BY <1>1, <1>2, HandedSettled
  <1>5. Ordered(DOMAIN heap, HL(heap), HR(heap), S, KeysIn(heap), t)
    BY <1>3 DEF KeysKept, InOrder
  <1>6. node \in DOMAIN heap \cup {NULL}
    <2>1. CASE frames = <<>>
      BY <1>2, <1>4, <2>1 DEF Handed, Settled, Closed
    <2>2. CASE frames # <<>>
      <3>1. frames[1].node \in DOMAIN heap
        BY <1>1, <1>4, <2>2, LastNode
      <3>2. PICK p \in DOMAIN heap : p = frames[1].node
        BY <3>1
      <3>3. heap[p].left \in DOMAIN heap \cup {NULL} /\ heap[p].right \in DOMAIN heap \cup {NULL}
        BY <1>4 DEF Settled, Closed, HL, HR
      <3>4. node \in {heap[p].left, heap[p].right}
        BY <1>2, <2>2, <3>2 DEF Handed, Link
      <3> QED
        BY <3>3, <3>4
    <2> QED
      BY <2>1, <2>2
  <1>7. program = "avl" => \A p \in DOMAIN heap : AvlNode(heap, HL(heap), HR(heap), p)
    BY <1>3 DEF IInv, HeightsKept
  <1> QED
    BY <1>1, <1>2, <1>3, <1>4, <1>5, <1>6, <1>7

(* The key is in the tree already.                                         *)
LEMMA KeyIsThereKeeps ==
    ASSUME IInv, KeyIsThere
    PROVE  IInv'
  <1>1. /\ pc = "insert" /\ pc' = "insertReturns" /\ key' = key /\ node' = node
        /\ program' = program /\ heap' = heap /\ root' = root /\ frames' = frames
        /\ p_current' = p_current /\ members' = members
        /\ node # NULL /\ key = heap[node].key
    BY DEF KeyIsThere
  <1>2. TreeTypeOK'
    BY <1>1 DEF IInv, TreeTypeOK, NodeType
  <1>3. PICK S, t : TreeKept(S) /\ KeysKept(S, t)
    BY <1>1 DEF IInv
  <1>4. /\ frames \in Seq(Frame)
        /\ Shape(heap, frames, node, root, S) /\ Handed(heap, frames, node, root)
        /\ Settled(heap, frames, root, S) /\ node \in DOMAIN heap
        /\ program = "avl" =>
             \A p \in DOMAIN heap : AvlNode(heap, HL(heap), HR(heap), p)
    BY <1>1, <1>3, DownFacts
  <1>5. TreeKept(S)'
    <2>1. frames = <<>> => root \in {NULL, node}
      BY <1>4 DEF Handed
    <2> QED
      BY <1>1, <1>4, <2>1 DEF TreeKept
  <1>6. KeysKept(S, t)'
    <2>1. /\ InOrder(heap, frames, node, S, t) /\ FrameKeys(heap, frames, key)
          /\ t = NULL /\ Keys(heap) \cup {key} = members
      BY <1>1, <1>3 DEF KeysKept
    <2>2. key \in Keys(heap)
      BY <1>1, <1>4 DEF Keys
    <2>3. Keys(heap) = members
      BY <2>1, <2>2
    <2> QED
      BY <1>1, <2>1, <2>3 DEF KeysKept
  <1>7. ASSUME program = "avl" PROVE HeightsKept'
    <2>1. HeightsKept /\ AvlHeap(heap)
      BY <1>1, <1>7, InvFacts DEF IInv
    <2>2. ASSUME frames # <<>>
          PROVE  \E old \in Nat : /\ Slack(heap, frames[1], node, old)
                                  /\ Ht(heap, node) \in {old, old + 1}
                                  /\ GrownAt(heap, node, key, old)
      <3>1. AvlNode(heap, HL(heap), HR(heap), frames[1].node)
        <4>1. frames[1].node \in DOMAIN heap
          BY <1>4, <2>2, LastNode
        <4> QED
          BY <1>4, <1>7, <4>1
      <3>2. Slack(heap, frames[1], node, Ht(heap, node)) /\ Ht(heap, node) \in Nat
        BY <1>4, <2>1, <2>2, <3>1, SlackAsItIs
      <3>3. GrownAt(heap, node, key, Ht(heap, node))
        BY <1>4, <3>2 DEF GrownAt, Ht
      <3> QED
        BY <3>2, <3>3
    <2> QED
      BY <1>1, <1>4, <2>1, <2>2 DEF HeightsKept
  <1> QED
    BY <1>1, <1>2, <1>3, <1>5, <1>6, <1>7 DEF IInv

(* Nor does a deletion of a key that is not there.                         *)
LEMMA KeyIsNotThereKeeps ==
    ASSUME IInv, program = "avl", KeyIsNotThere
    PROVE  IInv'
  <1>1. /\ pc = "delete" /\ pc' = "deleteReturns" /\ key' = key /\ node' = node
        /\ program' = program /\ heap' = heap /\ root' = root /\ frames' = frames
        /\ p_current' = p_current /\ members' = members
        /\ node = NULL
    BY DEF KeyIsNotThere
  <1>2. TreeTypeOK'
    BY <1>1 DEF IInv, TreeTypeOK, NodeType
  <1>3. PICK S, t : TreeKept(S) /\ KeysKept(S, t)
    BY <1>1 DEF IInv
  <1>4. /\ frames \in Seq(Frame)
        /\ Shape(heap, frames, node, root, S) /\ Handed(heap, frames, node, root)
        /\ Settled(heap, frames, root, S)
        /\ \A p \in DOMAIN heap : AvlNode(heap, HL(heap), HR(heap), p)
    BY <1>1, <1>3, DownFacts
  <1>5. TreeKept(S)'
    BY <1>1, <1>4 DEF TreeKept
  <1>6. KeysKept(S, NULL)'
    <2>1. Below(DOMAIN heap, S, node) = {}
      BY <1>1, InvFacts DEF Below
    <2>2. t = NULL /\ Keys(heap) \ {key} = members /\ OnlyBelow(heap, node, key, S)
      BY <1>1, <1>3, <2>1 DEF KeysKept, SuccessorBelow
    <2>3. key \notin Keys(heap)
      BY <2>1, <2>2 DEF Keys, OnlyBelow
    <2>4. Keys(heap) = members
      BY <2>2, <2>3
    <2>5. InOrder(heap, frames, node, S, NULL)
      BY <1>3, <2>2 DEF KeysKept
    <2> QED
      BY <1>1, <2>4, <2>5 DEF KeysKept
  <1>7. HeightsKept'
    <2>1. HeightsKept /\ AvlHeap(heap)
      BY <1>1, InvFacts DEF IInv
    <2>2. ASSUME frames # <<>>
          PROVE  \E old \in Nat : /\ Slack(heap, frames[1], node, old)
                                  /\ Ht(heap, node) \in {old, old - 1}
      <3>1. AvlNode(heap, HL(heap), HR(heap), frames[1].node)
        BY <1>4, <2>2, LastNode
      <3>2. Slack(heap, frames[1], node, Ht(heap, node)) /\ Ht(heap, node) \in Nat
        BY <1>4, <2>1, <2>2, <3>1, SlackAsItIs
      <3> QED
        BY <3>2
    <2> QED
      BY <1>1, <1>4, <2>1, <2>2 DEF HeightsKept
  <1> QED
    BY <1>1, <1>2, <1>3, <1>5, <1>6, <1>7 DEF IInv

(* Back in main the root is the last result.                               *)
LEMMA BackInMainKeeps ==
    ASSUME IInv, pc \in {"insertReturns", "deleteReturns"}, BackInMain(node)
    PROVE  IInv'
  <1>1. /\ pc' = "idle" /\ key' = key /\ node' = node /\ frames = <<>>
        /\ program' = program /\ heap' = heap /\ root' = node /\ frames' = <<>>
        /\ p_current' = p_current /\ members' = members
    BY DEF BackInMain
  <1>2. TreeTypeOK'
    BY <1>1 DEF IInv, TreeTypeOK, NodeType
  <1>3. PICK S, t : TreeKept(S) /\ KeysKept(S, t)
    BY DEF IInv
  <1>4. TreeKept(S)'
    <2>1. Shape(heap, <<>>, node, root, S)
      BY <1>1, <1>3 DEF TreeKept
    <2>2. Shape(heap, <<>>, node, node, S)
      BY <2>1 DEF Shape, Apex, Stack
    <2> QED
      BY <1>1, <2>2 DEF TreeKept
  <1>5. KeysKept(S, NULL)'
    <2>1. t = NULL /\ Keys(heap) = members /\ InOrder(heap, <<>>, node, S, NULL)
      BY <1>1, <1>3 DEF KeysKept
    <2> QED
      BY <1>1, <2>1 DEF KeysKept
  <1>6. program = "avl" => HeightsKept'
    <2>1. program = "avl" => HeightsKept
      BY DEF IInv
    <2> QED
      BY <1>1, <2>1 DEF HeightsKept
  <1> QED
    BY <1>1, <1>2, <1>4, <1>5, <1>6 DEF IInv

(* The other program keeps its first root, which is always the same one.   *)
LEMMA FirstRootKeeps ==
    ASSUME IInv, program = "bst", FirstRoot
    PROVE  IInv'
  <1>1. pc = "insertReturns" /\ frames = <<>>
    BY DEF FirstRoot, BackInMain
  <1>2. root \in {NULL, node}
    BY <1>1 DEF IInv, TreeKept
  <1>3. BackInMain(node)
    BY <1>2 DEF FirstRoot
  <1> QED
    BY <1>1, <1>3, BackInMainKeeps

(* Deletion of a node with two children looks for its successor.           *)
LEMMA CallMinValuenodeKeeps ==
    ASSUME IInv, program = "avl", CallMinValuenode
    PROVE  IInv'
  <1>1. /\ pc = "delete" /\ pc' = "minimum" /\ key' = key /\ node' = node
        /\ program' = program /\ heap' = heap /\ root' = root /\ frames' = frames
        /\ p_current' = heap[node].right /\ members' = members
        /\ node # NULL /\ heap[node].left # NULL /\ heap[node].right # NULL
        /\ key = heap[node].key
    BY DEF CallMinValuenode, Found
  <1>2. PICK S, t : TreeKept(S) /\ KeysKept(S, t)
    BY <1>1 DEF IInv
  <1>3. /\ frames \in Seq(Frame)
        /\ Shape(heap, frames, node, root, S) /\ Handed(heap, frames, node, root)
        /\ Settled(heap, frames, root, S) /\ node \in DOMAIN heap
        /\ LinksL(heap, frames, node) = HL(heap) /\ LinksR(heap, frames, node) = HR(heap)
        /\ Ordered(DOMAIN heap, HL(heap), HR(heap), S, KeysIn(heap), t)
        /\ \A p \in DOMAIN heap : AvlNode(heap, HL(heap), HR(heap), p)
    BY <1>1, <1>2, DownFacts
  <1>4. /\ Nest(DOMAIN heap, HL(heap), HR(heap), S)
        /\ heap[node].left \in DOMAIN heap /\ heap[node].right \in DOMAIN heap
        /\ HL(heap)[node] = heap[node].left /\ HR(heap)[node] = heap[node].right
    BY <1>1, <1>3 DEF Settled, Tree, Closed, HL, HR
  <1>5. TreeTypeOK'
    <2>1. heap[node].right \in Pointer
      BY <1>3, InvFacts
    <2> QED
      BY <1>1, <2>1 DEF IInv, TreeTypeOK, NodeType
  <1>6. TreeKept(S)'
    BY <1>1, <1>3 DEF TreeKept
  <1>7. KeysKept(S, t)'
    <2>1. ~SuccessorBelow(heap, node, key, S, t)
      <3>1. PICK q : q = heap[node].left
        OBVIOUS
      <3>2. q \in DOMAIN heap /\ q \in S[q] /\ q \in S[node]
        BY <1>3, <1>4, <3>1, ChildBelow
      <3>3. heap[q].key < heap[node].key
        BY <1>3, <1>4, <3>1, <3>2 DEF Ordered, KeysIn, Below
      <3>4. heap[q].key \in Int /\ heap[node].key \in Int
        BY <1>3, <3>2, InvFacts
      <3> QED
        BY <1>1, <1>3, <3>2, <3>3, <3>4 DEF SuccessorBelow, Below
    <2>2. t = NULL /\ Keys(heap) \ {key} = members /\ InOrder(heap, frames, node, S, t)
      BY <1>1, <1>2, <2>1 DEF KeysKept
    <2>3. heap[node].right \in S[heap[node].right]
      BY <1>4 DEF Nest
    <2> QED
      BY <1>1, <1>3, <1>4, <2>2, <2>3 DEF KeysKept
  <1>8. HeightsKept'
    BY <1>1, <1>3 DEF HeightsKept
  <1> QED
    BY <1>1, <1>5, <1>6, <1>7, <1>8 DEF IInv

(* What is below the successor that was found so far.                      *)
MinimumSoFar(h, n, c, S) ==
    /\ c \in S[h[n].right]
    /\ \A q \in S[h[n].right] : q \in S[c] \/ h[c].key < h[q].key

(* It goes on to the left.                                                 *)
LEMMA minValuenodeKeeps ==
    ASSUME IInv, program = "avl", minValuenode
    PROVE  IInv'
  <1>1. /\ pc = "minimum" /\ pc' = "minimum" /\ key' = key /\ node' = node
        /\ program' = program /\ heap' = heap /\ root' = root /\ frames' = frames
        /\ p_current' = heap[p_current].left /\ members' = members
        /\ heap[p_current].left # NULL
    BY DEF minValuenode
  <1>2. PICK S, t : TreeKept(S) /\ KeysKept(S, t)
    BY <1>1 DEF IInv
  <1>3. /\ frames \in Seq(Frame)
        /\ Shape(heap, frames, node, root, S) /\ Handed(heap, frames, node, root)
        /\ Settled(heap, frames, root, S)
        /\ Ordered(DOMAIN heap, HL(heap), HR(heap), S, KeysIn(heap), t)
        /\ \A p \in DOMAIN heap : AvlNode(heap, HL(heap), HR(heap), p)
    BY <1>1, <1>2, DownFacts
  <1>4. /\ t = NULL /\ Keys(heap) \ {key} = members /\ InOrder(heap, frames, node, S, t)
        /\ node \in DOMAIN heap /\ heap[node].key = key
        /\ heap[node].left \in DOMAIN heap /\ heap[node].right \in DOMAIN heap
        /\ MinimumSoFar(heap, node, p_current, S)
    BY <1>1, <1>2 DEF KeysKept, MinimumSoFar
  <1>5. PICK c : c = p_current
    OBVIOUS
  <1>6. PICK b : b = heap[c].left
    OBVIOUS
  <1>7. PICK D : D = DOMAIN heap
    OBVIOUS
  <1>8. PICK m : m = heap[node].right
    OBVIOUS
  <1>9. /\ IsFiniteSet(D) /\ Nest(D, HL(heap), HR(heap), S) /\ m \in D /\ S[m] \subseteq D
        /\ c \in S[m] /\ c \in D /\ b \in D /\ HL(heap)[c] = b /\ S[c] \subseteq S[m]
    <2>1. Nest(D, HL(heap), HR(heap), S) /\ IsFiniteSet(D)
      BY <1>3, <1>7, InvFacts DEF Settled, Tree
    <2>2. m \in D /\ S[m] \subseteq D /\ c \in S[m] /\ c \in D
      BY <1>4, <1>5, <1>7, <1>8, <2>1 DEF Nest, MinimumSoFar
    <2>3. b \in D /\ HL(heap)[c] = b
      BY <1>1, <1>3, <1>5, <1>6, <1>7, <2>2 DEF Settled, Closed, HL
    <2>4. S[c] \subseteq S[m]
      BY <2>1, <2>2, BelowBelow
    <2> QED
      BY <2>1, <2>2, <2>3, <2>4
  <1>10. b \in S[c] /\ S[b] \subseteq S[c] /\ b \in S[b]
    BY <1>9, ChildBelow
  <1>11. MinimumSoFar(heap, node, b, S)
    <2>1. b \in S[m]
      BY <1>9, <1>10
    <2>2. \A q \in D : heap[q].key \in Int
      BY <1>7, InvFacts
    <2>3. heap[b].key < heap[c].key
      BY <1>3, <1>7, <1>9, <1>10 DEF Ordered, KeysIn, Below
    <2>4. ASSUME NEW q \in S[m] PROVE q \in S[b] \/ heap[b].key < heap[q].key
      <3>1. q \in D /\ heap[q].key \in Int /\ heap[b].key \in Int /\ heap[c].key \in Int
        BY <1>9, <2>2
      <3>2. q \in S[c] \/ heap[c].key < heap[q].key
        BY <1>4, <1>5, <1>8 DEF MinimumSoFar
      <3>3. CASE q \in S[c]
        <4>1. q = c \/ q \in S[b] \/ q \in Below(D, S, HR(heap)[c])
          BY <1>9, <3>3 DEF Nest, Below
        <4>2. CASE q \in Below(D, S, HR(heap)[c])
          <5>1. heap[c].key < heap[q].key \/ c = t
            BY <1>3, <1>7, <1>9, <3>1, <4>2 DEF Ordered, KeysIn
          <5>2. c # t
            BY <1>4, <1>7, <1>9, InvFacts
          <5> QED
            BY <2>3, <3>1, <5>1, <5>2
        <4> QED
          BY <2>3, <4>1, <4>2
      <3>4. CASE heap[c].key < heap[q].key
        BY <2>3, <3>1, <3>4
      <3> QED
        BY <3>2, <3>3, <3>4
    <2> QED
      BY <1>8, <2>1, <2>4 DEF MinimumSoFar
  <1>12. TreeTypeOK'
    <2>1. b \in Pointer
      BY <1>7, <1>9, InvFacts DEF Pointer
    <2> QED
      BY <1>1, <1>5, <1>6, <2>1 DEF IInv, TreeTypeOK, NodeType
  <1>13. TreeKept(S)'
    BY <1>1, <1>3 DEF TreeKept
  <1>14. KeysKept(S, t)'
    BY <1>1, <1>4, <1>5, <1>6, <1>11 DEF KeysKept, MinimumSoFar
  <1>15. HeightsKept'
    <2>1. HeightsKept
      BY <1>1 DEF IInv
    <2> QED
      BY <1>1, <2>1 DEF HeightsKept
  <1> QED
    BY <1>1, <1>12, <1>13, <1>14, <1>15 DEF IInv

(* One level down: the waiting call's node has the key's way above it.     *)
LEMMA SlotPush ==
    ASSUME NEW h, IsFiniteSet(DOMAIN h), NEW fs \in Seq(Frame), NEW n \in DOMAIN h, NEW r,
           NEW S, Settled(h, fs, r, S), Handed(h, fs, n, r), NEW k,
           FrameKeys(h, fs, k), SlotKeys(h, fs, k, S), NEW f \in Frame, f.node = n
    PROVE  SlotKeys(h, <<f>> \o fs, k, S)
  <1>1. PICK D : D = DOMAIN h
    OBVIOUS
  <1>2. /\ Tree(D, HL(h), HR(h), S, r) /\ Nest(D, HL(h), HR(h), S) /\ IsFiniteSet(D)
        /\ Below(D, S, r) = D
        /\ \A q \in D : HL(h)[q] = h[q].left /\ HR(h)[q] = h[q].right
    BY <1>1 DEF Settled, Tree, HL, HR
  <1>3. ASSUME NEW p \in D, NEW c, c \in {h[p].left, h[p].right}, n \in Below(D, S, c)
        PROVE  IF c = h[p].left THEN k < h[p].key ELSE k > h[p].key
    <2>1. c \in D /\ n \in S[c] /\ c \in {HL(h)[p], HR(h)[p]}
      BY <1>2, <1>3 DEF Below
    <2>2. p \in S[p] /\ p \notin S[c] /\ S[c] \subseteq S[p]
      BY <1>2, <2>1, ChildBelow
    <2>3. n \in S[p] /\ n # p
      BY <2>1, <2>2
    <2>4. fs # <<>>
      <3>1. SUFFICES ASSUME fs = <<>> PROVE FALSE
        OBVIOUS
      <3>2. n = r
        BY <3>1 DEF Handed
      <3>3. p \in S[n]
        BY <1>1, <1>2, <3>2 DEF Below
      <3> QED
        BY <1>1, <1>2, <2>3, <3>3, NotBelowEachOther
    <2>5. PICK u \in D : u = fs[1].node
      BY <1>1, <2>4, LastNode
    <2>6. n \in {HL(h)[u], HR(h)[u]} /\ n = Link(h, fs[1])
      BY <1>2, <2>4, <2>5 DEF Handed, Link
    <2>7. u \in S[p] /\ n \in D
      BY <1>1, <1>2, <2>3, <2>6, ParentAbove
    <2>8. CASE u = p
      <3>1. 1 \in DOMAIN fs /\ fs[1] \in Frame
        BY <2>4
      <3>2. c = n
        <4>1. n # c => c \notin S[n] /\ n \notin S[c]
          <5>1. n # c => {n, c} = {HL(h)[p], HR(h)[p]}
            BY <2>1, <2>6, <2>8
          <5>2. Below(D, S, HL(h)[p]) \cap Below(D, S, HR(h)[p]) = {} /\ n \in S[n] /\ c \in S[c]
            BY <1>2, <2>1, <2>7 DEF Nest
          <5> QED
            BY <1>2, <2>1, <2>7, <5>1, <5>2 DEF Below
        <4> QED
          BY <2>1, <4>1
      <3>3. HL(h)[p] # HR(h)[p]
        BY <1>2, <2>1, OneLink
      <3>4. fs[1].at = "left" <=> c = h[p].left
        BY <1>2, <2>5, <2>6, <2>8, <3>1, <3>2, <3>3 DEF Link, Frame
      <3> QED
        BY <2>5, <2>8, <3>1, <3>4 DEF FrameKeys
    <2>9. CASE u # p
      <3>1. u \in Below(D, S, c)
        <4>1. n \in S[u]
          BY <1>2, <2>6, <2>7, ChildBelow
        <4>2. \A q \in {HL(h)[p], HR(h)[p]} : u \in Below(D, S, q) => n \in Below(D, S, q)
          BY <1>2, <4>1, BelowBelow DEF Below
        <4>3. u \in Below(D, S, HL(h)[p]) \/ u \in Below(D, S, HR(h)[p])
          BY <1>2, <2>7, <2>9 DEF Nest
        <4>4. Below(D, S, HL(h)[p]) \cap Below(D, S, HR(h)[p]) = {}
          BY <1>2 DEF Nest
        <4> QED
          BY <1>3, <2>1, <4>2, <4>3, <4>4
      <3> QED
        BY <1>1, <1>2, <1>3, <2>4, <2>5, <3>1 DEF SlotKeys
    <2> QED
      BY <2>8, <2>9
  <1>4. (<<f>> \o fs)[1] = f
    BY InFront
  <1>5. ASSUME NEW p \in D
        PROVE  /\ n \in Below(D, S, h[p].left) => k < h[p].key
               /\ n \in Below(D, S, h[p].right) => k > h[p].key
    <2>1. n \in Below(D, S, h[p].left) => k < h[p].key
      BY <1>3
    <2>2. n \in Below(D, S, h[p].right) => k > h[p].key
      <3>1. n \in Below(D, S, h[p].right) => h[p].right # h[p].left
        BY <1>2, OneLink DEF Below
      <3> QED
        BY <1>3, <3>1
    <2> QED
      BY <2>1, <2>2
  <1> QED
    BY <1>1, <1>4, <1>5 DEF SlotKeys

(* The way of the key.                                                     *)
OnTheWay(h, f, k) == IF f.at = "left" THEN k < h[f.node].key ELSE k > h[f.node].key

(* The way down so far went where the key asks for.                        *)
LEMMA FramePush ==
    ASSUME NEW h, NEW fs \in Seq(Frame), NEW k, FrameKeys(h, fs, k),
           NEW f \in Frame, OnTheWay(h, f, k)
    PROVE  FrameKeys(h, <<f>> \o fs, k)
  <1>1. /\ (<<f>> \o fs)[1] = f /\ \A x \in 2..Len(fs) + 1 : (<<f>> \o fs)[x] = fs[x - 1]
        /\ DOMAIN (<<f>> \o fs) = 1..Len(fs) + 1 /\ DOMAIN fs = 1..Len(fs) /\ Len(fs) \in Nat
    BY InFront
  <1>2. ASSUME NEW x \in 1..Len(fs) + 1
        PROVE  IF (<<f>> \o fs)[x].at = "left" THEN k < h[(<<f>> \o fs)[x].node].key
               ELSE k > h[(<<f>> \o fs)[x].node].key
    <2>1. CASE x = 1
      BY <1>1, <2>1 DEF OnTheWay
    <2>2. CASE x # 1
      <3>1. x \in 2..Len(fs) + 1 /\ x - 1 \in DOMAIN fs
        BY <1>1, <2>2
      <3> QED
        BY <1>1, <3>1 DEF FrameKeys
    <2> QED
      BY <2>1, <2>2
  <1> QED
    BY <1>1, <1>2 DEF FrameKeys

(* The key to be deleted is further down.                                  *)
LEMMA OnlyBelowChild ==
    ASSUME NEW h, NEW fs, NEW r, NEW S, Settled(h, fs, r, S), KeysIn(h) \in [DOMAIN h -> Int],
           NULL \notin DOMAIN h, Ordered(DOMAIN h, HL(h), HR(h), S, KeysIn(h), NULL),
           NEW n \in DOMAIN h, NEW k \in Int, OnlyBelow(h, n, k, S),
           NEW f, f.node = n, OnTheWay(h, f, k)
    PROVE  OnlyBelow(h, Link(h, f), k, S)
  <1>1. PICK D : D = DOMAIN h
    OBVIOUS
  <1>2. /\ Nest(D, HL(h), HR(h), S)
        /\ \A q \in D : /\ HL(h)[q] = h[q].left /\ HR(h)[q] = h[q].right
                        /\ h[q].key \in Int /\ KeysIn(h)[q] = h[q].key
    BY <1>1 DEF Settled, Tree, HL, HR, KeysIn
  <1>3. ASSUME NEW q \in D, h[q].key = k PROVE q \in Below(D, S, Link(h, f))
    <2>1. q \in S[n]
      BY <1>1, <1>3 DEF OnlyBelow, Below
    <2>2. q # n
      BY <1>1, <1>2, <1>3 DEF OnTheWay
    <2>3. q \in Below(D, S, h[n].left) \/ q \in Below(D, S, h[n].right)
      BY <1>1, <1>2, <2>1, <2>2 DEF Nest
    <2>4. /\ q \in Below(D, S, h[n].left) => h[q].key < h[n].key
          /\ q \in Below(D, S, h[n].right) => h[n].key < h[q].key
      BY <1>1, <1>2 DEF Ordered
    <2>5. h[n].key \in Int /\ h[q].key \in Int
      BY <1>1, <1>2
    <2> QED
      BY <1>3, <2>3, <2>4, <2>5 DEF OnTheWay, Link
  <1> QED
    BY <1>1, <1>3 DEF OnlyBelow

(* So is the successor, always to the left.                                *)
LEMMA SuccessorLeft ==
    ASSUME NEW h, NEW fs, NEW r, NEW S, IsFiniteSet(DOMAIN h),
           Settled(h, fs, r, S), KeysIn(h) \in [DOMAIN h -> Int],
           NEW t, Ordered(DOMAIN h, HL(h), HR(h), S, KeysIn(h), t),
           NEW n \in DOMAIN h, NEW k \in Int, SuccessorBelow(h, n, k, S, t),
           NEW f, f.node = n, OnTheWay(h, f, k)
    PROVE  SuccessorBelow(h, Link(h, f), k, S, t)
  <1>1. PICK D : D = DOMAIN h
    OBVIOUS
  <1>2. /\ Nest(D, HL(h), HR(h), S) /\ n \in D
        /\ \A q \in D : /\ HL(h)[q] = h[q].left /\ HR(h)[q] = h[q].right
                        /\ h[q].key \in Int /\ KeysIn(h)[q] = h[q].key
    BY <1>1 DEF Settled, Tree, HL, HR, KeysIn
  <1>3. /\ t \in D /\ h[t].key = k
        /\ S[n] \subseteq Below(D, S, h[t].right)
        /\ \A q \in S[n] : k <= h[q].key
        /\ \E q \in S[n] : h[q].key = k
    BY <1>1, <1>2 DEF SuccessorBelow, Below
  <1>4. n \in S[n] /\ S[n] \subseteq D
    BY <1>2 DEF Nest
  <1>5. k < h[n].key /\ Link(h, f) = h[n].left
    BY <1>2, <1>3, <1>4 DEF OnTheWay, Link
  <1>6. n # t
    BY <1>2, <1>3, <1>4 DEF Nest
  <1>7. Below(D, S, h[n].left) \subseteq S[n]
    BY <1>2 DEF Nest
  <1>8. PICK q \in S[n] : h[q].key = k
    BY <1>3
  <1>9. q \in Below(D, S, h[n].left)
    <2>1. q = n \/ q \in Below(D, S, h[n].left) \/ q \in Below(D, S, h[n].right)
      BY <1>2 DEF Nest
    <2>2. q \in Below(D, S, h[n].right) => h[n].key < h[q].key
      BY <1>1, <1>2, <1>4, <1>6 DEF Ordered
    <2>3. h[n].key \in Int
      BY <1>2
    <2> QED
      BY <1>5, <1>8, <2>1, <2>2, <2>3
  <1> QED
    BY <1>1, <1>3, <1>5, <1>7, <1>8, <1>9 DEF SuccessorBelow

(* One level down.                                                         *)
LEMMA DescendKeeps ==
    ASSUME IInv, pc \in {"insert", "delete"}, NEW f \in Frame, f.node = node,
           node # NULL, OnTheWay(heap, f, key),
           frames' = <<f>> \o frames, node' = Link(heap, f),
           UNCHANGED <<program, heap, root, members, pc, key, p_current>>
    PROVE  IInv'
  <1>1. /\ pc' = pc /\ key' = key /\ program' = program /\ heap' = heap /\ root' = root
        /\ p_current' = p_current /\ members' = members
    OBVIOUS
  <1>2. PICK S, t : TreeKept(S) /\ KeysKept(S, t)
    BY DEF IInv
  <1>3. /\ frames \in Seq(Frame)
        /\ Shape(heap, frames, node, root, S) /\ Handed(heap, frames, node, root)
        /\ Settled(heap, frames, root, S) /\ node \in DOMAIN heap
        /\ LinksL(heap, frames, node) = HL(heap) /\ LinksR(heap, frames, node) = HR(heap)
        /\ Ordered(DOMAIN heap, HL(heap), HR(heap), S, KeysIn(heap), t)
        /\ program = "avl" => \A p \in DOMAIN heap : AvlNode(heap, HL(heap), HR(heap), p)
    BY <1>2, DownFacts
  <1>4. PICK gs : gs = <<f>> \o frames
    OBVIOUS
  <1>5. PICK n : n = Link(heap, f)
    OBVIOUS
  <1>6. gs \in Seq(Frame) /\ Shape(heap, gs, n, root, S) /\ Handed(heap, gs, n, root)
    <2>1. gs \in Seq(Frame)
      BY <1>3, <1>4, InFront
    <2>2. IsFiniteSet(DOMAIN heap)
      BY InvFacts
    <2> QED
      BY <1>3, <1>4, <1>5, <2>1, <2>2, GoDown
  <1>7. LinksL(heap, gs, n) = HL(heap) /\ LinksR(heap, gs, n) = HR(heap)
    BY <1>6, HandedLinks
  <1>8. TreeTypeOK'
    <2>1. n \in Pointer
      BY <1>3, <1>5, InvFacts DEF Link
    <2>2. pc # "deleteTree" /\ pc # "idle"
      OBVIOUS
    <2>3. gs \in Seq([node : Address,
                      at : {"left", "right"} \cup IF pc = "deleteTree" THEN {"free"} ELSE {}])
      <3>1. {"left", "right"} \cup (IF pc = "deleteTree" THEN {"free"} ELSE {}) = {"left", "right"}
        BY <2>2
      <3> QED
        BY <1>6, <3>1 DEF Frame
    <2> QED
      BY <1>1, <1>4, <1>5, <2>1, <2>2, <2>3 DEF IInv, TreeTypeOK, NodeType
  <1>9. TreeKept(S)'
    BY <1>1, <1>4, <1>5, <1>6 DEF TreeKept
  <1>10. KeysKept(S, t)'
    <2>1. InOrder(heap, gs, n, S, t)
      BY <1>3, <1>7 DEF InOrder
    <2>2. /\ IsFiniteSet(DOMAIN heap) /\ KeysIn(heap) \in [DOMAIN heap -> Int]
          /\ NULL \notin DOMAIN heap /\ key \in Int
      BY InvFacts DEF IInv, TreeTypeOK
    <2>3. CASE pc = "insert"
      <3>1. /\ t = NULL /\ Keys(heap) \cup {key} = members
            /\ FrameKeys(heap, frames, key) /\ SlotKeys(heap, frames, key, S)
        BY <1>2, <2>3 DEF KeysKept
      <3>2. FrameKeys(heap, gs, key)
        BY <1>3, <1>4, <3>1, FramePush
      <3>3. SlotKeys(heap, gs, key, S)
        BY <1>3, <1>4, <2>2, <3>1, SlotPush
      <3> QED
        BY <1>1, <1>4, <1>5, <2>1, <2>3, <3>1, <3>2, <3>3 DEF KeysKept
    <2>4. CASE pc = "delete" /\ t = NULL /\ Keys(heap) \ {key} = members /\ OnlyBelow(heap, node, key, S)
      <3>1. OnlyBelow(heap, n, key, S)
        BY <1>3, <1>5, <2>2, <2>4, OnlyBelowChild
      <3> QED
        BY <1>1, <1>4, <1>5, <2>1, <2>4, <3>1 DEF KeysKept
    <2>5. CASE pc = "delete" /\ Keys(heap) = members /\ SuccessorBelow(heap, node, key, S, t)
      <3>1. SuccessorBelow(heap, n, key, S, t)
        BY <1>3, <1>5, <2>2, <2>5, SuccessorLeft
      <3> QED
        BY <1>1, <1>4, <1>5, <2>1, <2>5, <3>1 DEF KeysKept
    <2> QED
      BY <1>2, <2>3, <2>4, <2>5 DEF KeysKept
  <1>11. program = "avl" => HeightsKept'
    BY <1>1, <1>3, <1>4, <1>5, <1>7 DEF HeightsKept
  <1> QED
    BY <1>1, <1>8, <1>9, <1>10, <1>11 DEF IInv

(* To the left, ...                                                        *)
LEMMA SmallerKeeps ==
    ASSUME IInv, Smaller
    PROVE  IInv'
  <1>1. PICK f : f = [node |-> node, at |-> "left"]
    OBVIOUS
  <1>2. f.node = node /\ f.at = "left"
    BY <1>1
  <1>3. node \in DOMAIN heap
    <2>1. pc \in {"insert", "delete"} /\ node # NULL
      BY DEF Smaller
    <2>2. PICK S, t : TreeKept(S) /\ KeysKept(S, t)
      BY <2>1 DEF IInv
    <2> QED
      BY <2>1, <2>2, DownFacts
  <1>4. f \in Frame
    BY <1>1, <1>3, InvFacts DEF Frame
  <1>5. Link(heap, f) = heap[node].left /\ OnTheWay(heap, f, key)
    BY <1>2 DEF Link, OnTheWay, Smaller
  <1> QED
    BY <1>1, <1>2, <1>4, <1>5, DescendKeeps DEF Smaller, Descend

(* ... and to the right.                                                   *)
LEMMA GreaterKeeps ==
    ASSUME IInv, Greater
    PROVE  IInv'
  <1>1. PICK f : f = [node |-> node, at |-> "right"]
    OBVIOUS
  <1>2. f.node = node /\ f.at = "right"
    BY <1>1
  <1>3. node \in DOMAIN heap
    <2>1. pc \in {"insert", "delete"} /\ node # NULL
      BY DEF Greater
    <2>2. PICK S, t : TreeKept(S) /\ KeysKept(S, t)
      BY <2>1 DEF IInv
    <2> QED
      BY <2>1, <2>2, DownFacts
  <1>4. f \in Frame
    BY <1>1, <1>3, InvFacts DEF Frame
  <1>5. Link(heap, f) = heap[node].right /\ OnTheWay(heap, f, key)
    BY <1>2 DEF Link, OnTheWay, Greater
  <1> QED
    BY <1>1, <1>2, <1>4, <1>5, DescendKeeps DEF Greater, Descend

-----------------------------------------------------------------------------
(* The result of a call is stored in the link of the call that waited.     *)
BstHeap(h) ==
    /\ DOMAIN h \subseteq Address
    /\ h \in [DOMAIN h -> [key : Int, left : Pointer, right : Pointer]]

(* What storing a result changes in a tree without heights, ...            *)
LEMMA LinkedBst ==
    ASSUME NEW h, BstHeap(h), NEW fs \in Seq(Frame), fs # <<>>, fs[1].node \in DOMAIN h,
           NEW n \in Pointer
    PROVE  LET g == Linked(h, fs[1], n)
           IN  BstHeap(g) /\ Stored(h, fs, n, g) /\ KeysIn(g) = KeysIn(h)
  <1>1. PICK D : D = DOMAIN h
    OBVIOUS
  <1>2. PICK p \in D : p = fs[1].node
    BY <1>1
  <1>3. h \in [D -> [key : Int, left : Pointer, right : Pointer]]
    BY <1>1 DEF BstHeap
  <1>4. PICK g : g = Linked(h, fs[1], n)
    OBVIOUS
  <1>5. fs[1].at \in {"left", "right"}
    <2>1. fs[1] \in Frame
      OBVIOUS
    <2> QED
      BY <2>1 DEF Frame
  <1>6. CASE fs[1].at = "left"
    <2>1. g = [h EXCEPT ![p].left = n]
      BY <1>2, <1>4, <1>6 DEF Linked
    <2>2. g \in [D -> [key : Int, left : Pointer, right : Pointer]]
      BY <1>3, <2>1
    <2>3. \A q \in D : /\ g[q].left = (IF q = p THEN n ELSE h[q].left)
                       /\ g[q].right = h[q].right /\ g[q].key = h[q].key
      BY <1>3, <2>1
    <2>4. Stored(h, fs, n, g)
      BY <1>1, <1>2, <1>6, <2>2, <2>3 DEF Stored, LinksL, LinksR
    <2>5. BstHeap(g) /\ KeysIn(g) = KeysIn(h)
      BY <1>1, <2>2, <2>3 DEF BstHeap, KeysIn
    <2> QED
      BY <1>4, <2>4, <2>5
  <1>7. CASE fs[1].at = "right"
    <2>1. g = [h EXCEPT ![p].right = n]
      BY <1>2, <1>4, <1>7 DEF Linked
    <2>2. g \in [D -> [key : Int, left : Pointer, right : Pointer]]
      BY <1>3, <2>1
    <2>3. \A q \in D : /\ g[q].right = (IF q = p THEN n ELSE h[q].right)
                       /\ g[q].left = h[q].left /\ g[q].key = h[q].key
      BY <1>3, <2>1
    <2>4. Stored(h, fs, n, g)
      BY <1>1, <1>2, <1>7, <2>2, <2>3 DEF Stored, LinksL, LinksR
    <2>5. BstHeap(g) /\ KeysIn(g) = KeysIn(h)
      BY <1>1, <2>2, <2>3 DEF BstHeap, KeysIn
    <2> QED
      BY <1>4, <2>4, <2>5
  <1> QED
    BY <1>5, <1>6, <1>7

(* The calls that go on waiting went the key's way.                        *)
LEMMA FramePop ==
    ASSUME NEW h, NEW fs \in Seq(Frame), fs # <<>>, NEW k, FrameKeys(h, fs, k),
           \A x \in DOMAIN fs : fs[x].node \in DOMAIN h,
           NEW h2, \A q \in DOMAIN h : h2[q].key = h[q].key
    PROVE  FrameKeys(h2, Tail(fs), k)
  <1>1. /\ Tail(fs) \in Seq(Frame) /\ Len(Tail(fs)) = Len(fs) - 1 /\ Len(fs) \in Nat \ {0}
        /\ \A x \in 1..Len(fs) - 1 : Tail(fs)[x] = fs[x + 1]
    BY Popped
  <1>2. ASSUME NEW x \in DOMAIN Tail(fs)
        PROVE  IF Tail(fs)[x].at = "left" THEN k < h2[Tail(fs)[x].node].key
               ELSE k > h2[Tail(fs)[x].node].key
    <2>1. x \in 1..Len(fs) - 1 /\ x + 1 \in DOMAIN fs
      BY <1>1
    <2>2. PICK f : f = fs[x + 1] /\ f = Tail(fs)[x]
      BY <1>1, <2>1
    <2>3. IF f.at = "left" THEN k < h[f.node].key ELSE k > h[f.node].key
      BY <2>1, <2>2 DEF FrameKeys
    <2>4. h2[f.node].key = h[f.node].key
      BY <2>1, <2>2
    <2> QED
      BY <2>2, <2>3, <2>4
  <1> QED
    BY <1>2 DEF FrameKeys

(* What is known when a call returns to another one.                       *)
LEMMA ReturnFacts ==
    ASSUME IInv, pc \in {"insertReturns", "deleteReturns"}, frames # <<>>,
           NEW S, NEW t, TreeKept(S), KeysKept(S, t)
    PROVE  /\ frames \in Seq(Frame) /\ frames[1].node \in DOMAIN heap /\ frames[1] \in Frame
           /\ node \in Pointer /\ node \in DOMAIN heap \cup {NULL}
           /\ Shape(heap, frames, node, root, S)
           /\ Ordered(DOMAIN heap, LinksL(heap, frames, node), LinksR(heap, frames, node),
                      S, KeysIn(heap), NULL)
           /\ Keys(heap) = members /\ t = NULL
           /\ pc = "insertReturns" => FrameKeys(heap, frames, key)
           /\ \A x \in DOMAIN frames : frames[x].node \in DOMAIN heap
  <1>1. frames \in Seq(Frame) /\ 1 \in DOMAIN frames /\ frames[1] \in Frame
    <2>1. frames \in Seq(Frame)
      BY InvFacts
    <2> QED
      BY <2>1
  <1>2. Shape(heap, frames, node, root, S)
    BY DEF TreeKept
  <1>3. \A x \in DOMAIN frames : frames[x].node \in DOMAIN heap
    BY <1>2 DEF Shape, Stack
  <1>4. node \in DOMAIN heap \cup {NULL}
    <2>1. PICK p \in DOMAIN heap : p = frames[1].node
      BY <1>1, <1>3
    <2>2. frames[1].at \in {"left", "right"}
      BY <1>1 DEF Frame
    <2>3. node \in {LinksL(heap, frames, node)[p], LinksR(heap, frames, node)[p]}
      BY <2>1, <2>2 DEF LinksL, LinksR
    <2> QED
      BY <1>2, <2>1, <2>3 DEF Shape, Closed
  <1>5. node \in Pointer
    BY DEF IInv, TreeTypeOK
  <1>6. t = NULL /\ InOrder(heap, frames, node, S, NULL) /\ Keys(heap) = members
    BY DEF KeysKept
  <1>7. pc = "insertReturns" => FrameKeys(heap, frames, key)
    BY DEF KeysKept
  <1> QED
    BY <1>1, <1>2, <1>3, <1>4, <1>5, <1>6, <1>7 DEF InOrder

(* In the tree without balance that is all.                                *)
LEMMA InsertReturnsKeeps ==
    ASSUME IInv, program = "bst", InsertReturns
    PROVE  IInv'
  <1>1. /\ pc = "insertReturns" /\ frames # <<>> /\ pc' = pc /\ key' = key
        /\ program' = program /\ root' = root /\ p_current' = p_current /\ members' = members
        /\ heap' = Linked(heap, frames[1], node) /\ node' = frames[1].node
        /\ frames' = Tail(frames)
    BY DEF InsertReturns, ReturnWith
  <1>2. PICK S, t : TreeKept(S) /\ KeysKept(S, t)
    BY <1>1 DEF IInv
  <1>3. /\ frames \in Seq(Frame) /\ frames[1].node \in DOMAIN heap
        /\ node \in Pointer
        /\ Shape(heap, frames, node, root, S)
        /\ Ordered(DOMAIN heap, LinksL(heap, frames, node), LinksR(heap, frames, node),
                   S, KeysIn(heap), NULL)
        /\ Keys(heap) = members /\ t = NULL
        /\ FrameKeys(heap, frames, key)
        /\ \A x \in DOMAIN frames : frames[x].node \in DOMAIN heap
    BY <1>1, <1>2, ReturnFacts
  <1>4. PICK g : g = Linked(heap, frames[1], node)
    OBVIOUS
  <1>5. PICK p : p = frames[1].node
    OBVIOUS
  <1>6. PICK gs : gs = Tail(frames)
    OBVIOUS
  <1>7. BstHeap(heap)
    BY DEF IInv, TreeTypeOK, NodeType, BstHeap
  <1>8. BstHeap(g) /\ Stored(heap, frames, node, g) /\ KeysIn(g) = KeysIn(heap)
    BY <1>1, <1>3, <1>4, <1>7, LinkedBst
  <1>9. /\ HL(g) = LinksL(heap, frames, node) /\ HR(g) = LinksR(heap, frames, node)
        /\ DOMAIN g = DOMAIN heap
    BY <1>8, StoredLinks
  <1>10. Settled(g, frames, root, S) /\ IsFiniteSet(DOMAIN g)
    BY <1>1, <1>3, <1>8, <1>9, SettledStored, InvFacts
  <1>11. /\ Shape(g, gs, p, root, S)
         /\ LinksL(g, gs, p) = HL(g) /\ LinksR(g, gs, p) = HR(g)
    BY <1>1, <1>3, <1>5, <1>6, <1>10, NodeUp
  <1>12. gs \in Seq(Frame)
    BY <1>1, <1>3, <1>6, Popped
  <1>13. TreeTypeOK'
    <2>1. p \in Pointer
      BY <1>3, <1>5, InvFacts DEF Pointer
    <2>2. DOMAIN g \subseteq Address /\ g \in [DOMAIN g -> [key : Int, left : Pointer, right : Pointer]]
      BY <1>8 DEF BstHeap
    <2>3. gs \in Seq([node : Address, at : {"left", "right"} \cup {}])
      <3>1. {"left", "right"} \cup {} = {"left", "right"}
        OBVIOUS
      <3> QED
        BY <1>12, <3>1 DEF Frame
    <2> QED
      BY <1>1, <1>4, <1>5, <1>6, <2>1, <2>2, <2>3 DEF IInv, TreeTypeOK, NodeType
  <1>14. TreeKept(S)'
    <2>1. gs = <<>> => root = p
      <3>1. frames[Len(frames)].node = root
        BY <1>1, <1>3 DEF Shape, Stack
      <3>2. gs = <<>> => Len(frames) = 1
        BY <1>1, <1>3, <1>6, Popped
      <3> QED
        BY <1>5, <3>1, <3>2
    <2> QED
      BY <1>1, <1>4, <1>5, <1>6, <1>11, <2>1 DEF TreeKept
  <1>15. \A q \in DOMAIN heap : g[q].key = heap[q].key
    BY <1>8, <1>9 DEF KeysIn
  <1>16. KeysKept(S, NULL)'
    <2>1. InOrder(g, gs, p, S, NULL)
      BY <1>3, <1>8, <1>9, <1>11 DEF InOrder
    <2>2. Keys(g) = Keys(heap)
      BY <1>9, <1>15 DEF Keys
    <2>3. FrameKeys(g, gs, key)
      BY <1>1, <1>3, <1>6, <1>15, FramePop
    <2> QED
      BY <1>1, <1>3, <1>4, <1>5, <1>6, <2>1, <2>2, <2>3 DEF KeysKept
  <1> QED
    BY <1>1, <1>13, <1>14, <1>16 DEF IInv

(* ... and in one with heights.                                            *)
LEMMA LinkedAvl ==
    ASSUME NEW h, AvlHeap(h), NEW fs \in Seq(Frame), fs # <<>>, fs[1].node \in DOMAIN h,
           NEW n \in Pointer
    PROVE  LET g == Linked(h, fs[1], n)
           IN  /\ AvlHeap(g) /\ Stored(h, fs, n, g) /\ KeysIn(g) = KeysIn(h)
               /\ DOMAIN g = DOMAIN h
               /\ \A q \in DOMAIN h : g[q].height = h[q].height /\ g[q].key = h[q].key
  <1>1. PICK D : D = DOMAIN h
    OBVIOUS
  <1>2. PICK p \in D : p = fs[1].node
    BY <1>1
  <1>3. h \in [D -> [key : Int, left : Pointer, right : Pointer, height : Nat]]
    BY <1>1 DEF AvlHeap
  <1>4. PICK g : g = Linked(h, fs[1], n)
    OBVIOUS
  <1>5. fs[1].at \in {"left", "right"}
    <2>1. fs[1] \in Frame
      OBVIOUS
    <2> QED
      BY <2>1 DEF Frame
  <1>6. CASE fs[1].at = "left"
    <2>1. g = [h EXCEPT ![p].left = n]
      BY <1>2, <1>4, <1>6 DEF Linked
    <2>2. g \in [D -> [key : Int, left : Pointer, right : Pointer, height : Nat]]
      BY <1>3, <2>1
    <2>3. \A q \in D : /\ g[q].left = (IF q = p THEN n ELSE h[q].left)
                       /\ g[q].right = h[q].right /\ g[q].key = h[q].key
                       /\ g[q].height = h[q].height
      BY <1>3, <2>1
    <2>4. Stored(h, fs, n, g)
      BY <1>1, <1>2, <1>6, <2>2, <2>3 DEF Stored, LinksL, LinksR
    <2>5. AvlHeap(g) /\ KeysIn(g) = KeysIn(h) /\ DOMAIN g = DOMAIN h
      BY <1>1, <2>2, <2>3 DEF AvlHeap, KeysIn
    <2> QED
      BY <1>1, <1>4, <2>3, <2>4, <2>5
  <1>7. CASE fs[1].at = "right"
    <2>1. g = [h EXCEPT ![p].right = n]
      BY <1>2, <1>4, <1>7 DEF Linked
    <2>2. g \in [D -> [key : Int, left : Pointer, right : Pointer, height : Nat]]
      BY <1>3, <2>1
    <2>3. \A q \in D : /\ g[q].right = (IF q = p THEN n ELSE h[q].right)
                       /\ g[q].left = h[q].left /\ g[q].key = h[q].key
                       /\ g[q].height = h[q].height
      BY <1>3, <2>1
    <2>4. Stored(h, fs, n, g)
      BY <1>1, <1>2, <1>7, <2>2, <2>3 DEF Stored, LinksL, LinksR
    <2>5. AvlHeap(g) /\ KeysIn(g) = KeysIn(h) /\ DOMAIN g = DOMAIN h
      BY <1>1, <2>2, <2>3 DEF AvlHeap, KeysIn
    <2> QED
      BY <1>1, <1>4, <2>3, <2>4, <2>5
  <1> QED
    BY <1>5, <1>6, <1>7

(* The tree with the result stored: even but for the node it hangs on.     *)
LEMMA StoredFacts ==
    ASSUME IInv, program = "avl", pc \in {"insertReturns", "deleteReturns"}, frames # <<>>,
           NEW S, NEW t, TreeKept(S), KeysKept(S, t),
           NEW g, g = Linked(heap, frames[1], node)
    PROVE  /\ AvlHeap(g) /\ IsFiniteSet(DOMAIN g) /\ DOMAIN g = DOMAIN heap
           /\ \A q \in DOMAIN heap : g[q].height = heap[q].height /\ g[q].key = heap[q].key
           /\ Settled(g, frames, root, S)
           /\ EvenElsewhere(g, frames[1].node)
           /\ Ordered(DOMAIN g, HL(g), HR(g), S, KeysIn(g), NULL)
           /\ KeysIn(g) \in [DOMAIN g -> Int]
           /\ Link(g, frames[1]) = node
  <1>1. /\ frames \in Seq(Frame) /\ frames[1].node \in DOMAIN heap /\ frames[1] \in Frame
        /\ node \in Pointer
        /\ Shape(heap, frames, node, root, S)
        /\ Ordered(DOMAIN heap, LinksL(heap, frames, node), LinksR(heap, frames, node),
                   S, KeysIn(heap), NULL)
    BY ReturnFacts
  <1>2. /\ AvlHeap(heap) /\ IsFiniteSet(DOMAIN heap) /\ KeysIn(heap) \in [DOMAIN heap -> Int]
    BY InvFacts
  <1>3. /\ AvlHeap(g) /\ Stored(heap, frames, node, g) /\ KeysIn(g) = KeysIn(heap)
        /\ DOMAIN g = DOMAIN heap
        /\ \A q \in DOMAIN heap : g[q].height = heap[q].height /\ g[q].key = heap[q].key
    BY <1>1, <1>2, LinkedAvl
  <1>4. HL(g) = LinksL(heap, frames, node) /\ HR(g) = LinksR(heap, frames, node)
    BY <1>3, StoredLinks
  <1>5. Settled(g, frames, root, S)
    BY <1>1, <1>3, SettledStored
  <1>6. EvenElsewhere(g, frames[1].node)
    <2>1. \A q : Ht(g, q) = Ht(heap, q)
      BY <1>3 DEF Ht
    <2>2. HeightsKept
      BY DEF IInv
    <2>3. ASSUME NEW q \in DOMAIN g \ {frames[1].node}
          PROVE  AvlNode(g, HL(g), HR(g), q)
      <3>1. AvlNode(heap, HL(g), HR(g), q)
        BY <1>3, <1>4, <2>2 DEF HeightsKept
      <3> QED
        BY <1>3, <2>1, <3>1 DEF AvlNode
    <2> QED
      BY <2>3 DEF EvenElsewhere
  <1>7. Link(g, frames[1]) = node
    <2>1. PICK f : f = frames[1] /\ f \in Frame
      BY <1>1
    <2>2. g[f.node].left = LinksL(heap, frames, node)[f.node]
          /\ g[f.node].right = LinksR(heap, frames, node)[f.node]
      BY <1>1, <1>3, <2>1 DEF Stored
    <2> QED
      BY <1>1, <2>1, <2>2 DEF Link, LinksL, LinksR, Frame
  <1> QED
    BY <1>1, <1>2, <1>3, <1>4, <1>5, <1>6, <1>7

(* The height of a subtree that comes back balanced.                       *)
GoodHeight(h, x, old) ==
    /\ pc = "insertReturns" => h[x].height \in {old, old + 1} /\ GrownAt(h, x, key, old)
    /\ pc = "deleteReturns" => h[x].height \in {old, old - 1}

(* The call that waited has balanced its node and returns.                 *)
LEMMA BalancedKeeps ==
    ASSUME IInv, program = "avl", pc \in {"insertReturns", "deleteReturns"}, frames # <<>>,
           NEW S, NEW t, TreeKept(S), KeysKept(S, t),
           NEW g, g = Linked(heap, frames[1], node),
           NEW h2, NEW x, NEW S2, Balanced(g, frames, root, S, h2, x, S2),
           GoodHeight(h2, x, heap[frames[1].node].height),
           heap' = h2, node' = x, frames' = Tail(frames),
           UNCHANGED <<program, root, members, pc, key, p_current>>
    PROVE  IInv'
  <1>1. /\ pc' = pc /\ key' = key /\ program' = program /\ root' = root
        /\ p_current' = p_current /\ members' = members
    OBVIOUS
  <1>2. /\ frames \in Seq(Frame) /\ frames[1].node \in DOMAIN heap
        /\ Keys(heap) = members
        /\ pc = "insertReturns" => FrameKeys(heap, frames, key)
        /\ \A q \in DOMAIN frames : frames[q].node \in DOMAIN heap
    BY ReturnFacts
  <1>3. PICK D : D = DOMAIN heap
    OBVIOUS
  <1>4. /\ AvlHeap(g) /\ DOMAIN g = D
        /\ \A q \in D : g[q].height = heap[q].height /\ g[q].key = heap[q].key
        /\ Ordered(DOMAIN g, HL(g), HR(g), S, KeysIn(g), NULL)
        /\ KeysIn(g) \in [DOMAIN g -> Int]
    BY <1>3, StoredFacts
  <1>5. PICK gs : gs = Tail(frames)
    OBVIOUS
  <1>6. /\ AvlHeap(h2) /\ DOMAIN h2 = D /\ x \in D
        /\ \A q \in D : h2[q].key = g[q].key
        /\ Shape(h2, gs, x, root, S2)
        /\ StillOrdered(DOMAIN g, HL(g), HR(g), S, LinksL(h2, gs, x), LinksR(h2, gs, x), S2)
        /\ \A q \in D :
             \/ AvlNode(h2, LinksL(h2, gs, x), LinksR(h2, gs, x), q)
             \/ gs # <<>> /\ q = gs[1].node
        /\ gs # <<>> => Slack(h2, gs[1], x, g[frames[1].node].height)
    BY <1>4, <1>5 DEF Balanced, SameKeys
  <1>7. gs \in Seq(Frame)
    BY <1>2, <1>5, Popped
  <1>8. TreeTypeOK'
    <2>1. x \in Pointer
      BY <1>3, <1>6, InvFacts DEF Pointer
    <2>2. /\ DOMAIN h2 \subseteq Address
          /\ h2 \in [DOMAIN h2 -> [key : Int, left : Pointer, right : Pointer, height : Nat]]
      BY <1>6 DEF AvlHeap
    <2>3. gs \in Seq([node : Address, at : {"left", "right"} \cup {}])
      <3>1. {"left", "right"} \cup {} = {"left", "right"}
        OBVIOUS
      <3> QED
        BY <1>7, <3>1 DEF Frame
    <2> QED
      BY <1>1, <1>5, <2>1, <2>2, <2>3 DEF IInv, TreeTypeOK, NodeType
  <1>9. TreeKept(S2)'
    BY <1>1, <1>5, <1>6 DEF TreeKept
  <1>10. KeysKept(S2, NULL)'
    <2>1. InOrder(h2, gs, x, S2, NULL)
      <3>1. NULL \notin DOMAIN g
        BY <1>3, <1>4, InvFacts
      <3>2. Ordered(DOMAIN g, LinksL(h2, gs, x), LinksR(h2, gs, x), S2, KeysIn(g), NULL)
        BY <1>4, <1>6, <3>1 DEF StillOrdered
      <3>3. KeysIn(h2) = KeysIn(g)
        BY <1>4, <1>6 DEF KeysIn
      <3> QED
        BY <1>4, <1>6, <3>2, <3>3 DEF InOrder
    <2>2. Keys(h2) = Keys(heap)
      <3>1. \A q \in D : h2[q].key = heap[q].key
        BY <1>4, <1>6
      <3>2. Keys(h2) = {h2[q].key : q \in D} /\ Keys(heap) = {heap[q].key : q \in D}
        BY <1>3, <1>6 DEF Keys
      <3> QED
        BY <3>1, <3>2
    <2>3. pc = "insertReturns" => FrameKeys(h2, gs, key)
      <3>1. \A q \in DOMAIN heap : h2[q].key = heap[q].key
        BY <1>3, <1>4, <1>6
      <3> QED
        BY <1>2, <1>5, <3>1, FramePop
    <2> QED
      BY <1>1, <1>2, <1>5, <2>1, <2>2, <2>3 DEF KeysKept
  <1>11. HeightsKept'
    <2>1. PICK old : old = heap[frames[1].node].height
      OBVIOUS
    <2>2. old \in Nat
      BY <1>2, <2>1, InvFacts DEF AvlHeap
    <2>3. gs # <<>> => Slack(h2, gs[1], x, old)
      BY <1>2, <1>3, <1>4, <1>6, <2>1
    <2>4. Ht(h2, x) = h2[x].height
      BY <1>6 DEF Ht
    <2>5. /\ pc = "insertReturns" => Ht(h2, x) \in {old, old + 1} /\ GrownAt(h2, x, key, old)
          /\ pc = "deleteReturns" => Ht(h2, x) \in {old, old - 1}
      BY <2>1, <2>4 DEF GoodHeight
    <2> QED
      BY <1>1, <1>5, <1>6, <2>2, <2>3, <2>5 DEF HeightsKept
  <1> QED
    BY <1>1, <1>8, <1>9, <1>10, <1>11 DEF IInv

(* The heights below the node that the result hangs on: n, that of the     *)
(* result, and m; with old in the place of n the node was even.            *)
SlackHeights(g, f, H0, old, n, m) ==
    /\ H0 = 1 + max(old, m) /\ old - m \in -1..1
    /\ \/ /\ f.at = "left"
          /\ Ht(g, g[f.node].left) = n /\ Ht(g, g[f.node].right) = m
       \/ /\ f.at = "right"
          /\ Ht(g, g[f.node].left) = m /\ Ht(g, g[f.node].right) = n

(* A waiting call finds them when it stores its result.                    *)
LEMMA SlackIs ==
    ASSUME NEW h, AvlHeap(h), NEW fs \in Seq(Frame), fs # <<>>, fs[1].node \in DOMAIN h,
           NEW n \in Pointer, NEW old \in Nat, Slack(h, fs[1], n, old),
           NEW g, g = Linked(h, fs[1], n)
    PROVE  \E m \in Nat : SlackHeights(g, fs[1], h[fs[1].node].height, old, Ht(h, n), m)
  <1>1. PICK f : f = fs[1]
    OBVIOUS
  <1>2. f \in Frame
    BY <1>1
  <1>3. PICK p \in DOMAIN h : p = f.node
    BY <1>1
  <1>4. /\ DOMAIN g = DOMAIN h /\ \A q \in DOMAIN h : g[q].height = h[q].height
        /\ Stored(h, fs, n, g)
    BY LinkedAvl
  <1>5. \A q : Ht(g, q) = Ht(h, q)
    BY <1>4 DEF Ht
  <1>6. \A q : Ht(h, q) \in Nat
    BY DEF AvlHeap, Ht
  <1>7. /\ f.at = "left" => g[p].left = n /\ g[p].right = h[p].right
        /\ f.at # "left" => g[p].right = n /\ g[p].left = h[p].left /\ f.at = "right"
    <2>1. g[p].left = LinksL(h, fs, n)[p] /\ g[p].right = LinksR(h, fs, n)[p]
      BY <1>4 DEF Stored
    <2> QED
      BY <1>1, <1>2, <1>3, <2>1 DEF LinksL, LinksR, Frame
  <1>8. PICK m \in Nat : m = Ht(h, IF f.at = "left" THEN h[p].right ELSE h[p].left)
    BY <1>6
  <1>9. h[p].height = 1 + max(old, m) /\ old - m \in -1..1
    BY <1>1, <1>3, <1>8 DEF Slack, Even
  <1>10. SlackHeights(g, f, h[p].height, old, Ht(h, n), m)
    BY <1>3, <1>5, <1>7, <1>8, <1>9 DEF SlackHeights
  <1> QED
    BY <1>1, <1>3, <1>10

(* After a deletion below it the tree is as high as it was, or one less.   *)
LEMMA LowerByOne ==
    ASSUME NEW old \in Nat, NEW n \in Nat, NEW m \in Nat, NEW a \in Nat, NEW b \in Nat,
           old - m \in -1..1, n \in {old, old - 1},
           (a = n /\ b = m) \/ (a = m /\ b = n), NEW H0, H0 = 1 + max(old, m)
    PROVE  /\ H0 \in Nat
           /\ a - b \in -2..2
           /\ \A H \in {max(a, b), 1 + max(a, b)} :
                (a - b \in -1..1 => H = 1 + max(a, b))
                  => H \in {H0, H0 - 1}
  BY DEF max

(* A deletion returns: it has made the subtree lower by one at most.       *)
LEMMA DeletenodeReturnsKeeps ==
    ASSUME IInv, program = "avl", DeletenodeReturns
    PROVE  IInv'
  <1>1. /\ pc = "deleteReturns" /\ frames # <<>>
        /\ UNCHANGED <<program, root, members, pc, key, p_current>>
        /\ frames' = Tail(frames)
    BY DEF DeletenodeReturns, ReturnWith
  <1>2. PICK S, t : TreeKept(S) /\ KeysKept(S, t)
    BY <1>1 DEF IInv
  <1>3. PICK g : g = Linked(heap, frames[1], node)
    OBVIOUS
  <1>4. PICK p : p = frames[1].node
    OBVIOUS
  <1>5. PICK z : z = BalancedAfterDelete(g, p)
    OBVIOUS
  <1>6. heap' = z.h /\ node' = z.p
    BY <1>3, <1>4, <1>5 DEF DeletenodeReturns, ReturnWith
  <1>7. /\ frames \in Seq(Frame) /\ p \in DOMAIN heap /\ frames[1] \in Frame /\ node \in Pointer
    BY <1>1, <1>2, <1>4, ReturnFacts
  <1>8. /\ AvlHeap(g) /\ IsFiniteSet(DOMAIN g) /\ DOMAIN g = DOMAIN heap
        /\ Settled(g, frames, root, S) /\ EvenElsewhere(g, p)
    BY <1>1, <1>2, <1>3, <1>4, StoredFacts
  <1>9. PICK old \in Nat : Slack(heap, frames[1], node, old) /\ Ht(heap, node) \in {old, old - 1}
    BY <1>1 DEF IInv, HeightsKept
  <1>10. PICK m \in Nat : SlackHeights(g, frames[1], heap[p].height, old, Ht(heap, node), m)
    BY <1>1, <1>3, <1>4, <1>7, <1>9, SlackIs, InvFacts
  <1>11. PICK n \in Nat : n = Ht(heap, node)
    BY InvFacts DEF AvlHeap, Ht
  <1>12. PICK a \in Nat : a = Ht(g, g[p].left)
    BY <1>8 DEF AvlHeap, Ht
  <1>13. PICK b \in Nat : b = Ht(g, g[p].right)
    BY <1>8 DEF AvlHeap, Ht
  <1>14. PICK H0 : H0 = heap[p].height
    OBVIOUS
  <1>15. /\ a - b \in -2..2
         /\ \A H \in {max(a, b), 1 + max(a, b)} :
              (a - b \in -1..1 => H = 1 + max(a, b)) => H \in {H0, H0 - 1}
    <2>1. /\ H0 = 1 + max(old, m) /\ old - m \in -1..1
          /\ (a = n /\ b = m) \/ (a = m /\ b = n)
      BY <1>4, <1>10, <1>11, <1>12, <1>13, <1>14 DEF SlackHeights
    <2> QED
      BY <1>9, <1>11, <2>1, LowerByOne
  <1>16. Turns(g, p, z)
    BY <1>1, <1>4, <1>5, <1>7, <1>8, <1>12, <1>13, <1>15, DeleteTurns
  <1>17. Rebalanced(g, frames, root, S, z)
    BY <1>1, <1>4, <1>7, <1>8, <1>12, <1>13, <1>15, <1>16, TurnsRebalance
  <1>18. PICK S2 : Balanced(g, frames, root, S, z.h, z.p, S2)
    BY <1>17 DEF Rebalanced
  <1>19. /\ z.h[z.p].height \in {max(a, b), 1 + max(a, b)}
         /\ a - b \in -1..1 => z.h[z.p].height = 1 + max(a, b)
    BY <1>4, <1>12, <1>13, <1>17 DEF Rebalanced
  <1>20. GoodHeight(z.h, z.p, heap[p].height)
    <2>1. PICK H : H = z.h[z.p].height
      OBVIOUS
    <2>2. H \in {max(a, b), 1 + max(a, b)} /\ (a - b \in -1..1 => H = 1 + max(a, b))
      BY <1>19, <2>1
    <2>3. H \in {H0, H0 - 1}
      BY <1>15, <2>2
    <2>4. z.h[z.p].height \in {heap[p].height, heap[p].height - 1}
      BY <1>14, <2>1, <2>3
    <2> QED
      BY <1>1, <2>4 DEF GoodHeight
  <1> QED
    BY <1>1, <1>2, <1>3, <1>4, <1>6, <1>18, <1>20, BalancedKeeps

(* After an insertion below it, it is as high or one more, and has grown   *)
(* only where the subtree is the higher one now; it was one lower than     *)
(* that already when the two differ by two.                                *)
OneHigher(old, n, m, H0) ==
    /\ H0 \in Nat
    /\ n - m \in -2..2 /\ m - n \in -2..2 /\ m # n + 2
    /\ n = m + 2 => n = old + 1 /\ old # 0 /\ max(n, m) = H0 /\ max(m, n) = H0
    /\ n - m \in -1..1 =>
         /\ max(m, n) = max(n, m)
         /\ 1 + max(n, m) \in {H0, H0 + 1}
         /\ 1 + max(n, m) = H0 + 1 => n > m

(* An insertion makes a node higher by one at most.                        *)
LEMMA HigherByOne ==
    ASSUME NEW old \in Nat, NEW n \in Nat, NEW m \in Nat, NEW H0, H0 = 1 + max(old, m),
           old - m \in -1..1, n \in {old, old + 1}
    PROVE  OneHigher(old, n, m, H0)
  BY DEF max, OneHigher

(* The subtree has grown on the key's side.                                *)
LEMMA GrownAbove ==
    ASSUME NEW g, AvlHeap(g), NEW fs \in Seq(Frame), fs # <<>>, NEW r, NEW S,
           Settled(g, fs, r, S), NEW p, p = fs[1].node, NEW k, OnTheWay(g, fs[1], k),
           NEW n, NEW m, n \in Nat, m \in Nat, NEW H0 \in Nat, NEW old,
           SlackHeights(g, fs[1], H0, old, n, m),
           NEW h, h = HeightSet(g, p), h[p].height = H0 + 1 => n > m
    PROVE  GrownAt(h, p, k, H0)
  <1>1. p \in DOMAIN g
    BY LastNode
  <1>2. SameButHeight(g, h, p)
    BY HeightSetSettled
  <1>3. /\ DOMAIN h = DOMAIN g
        /\ \A q \in DOMAIN g : h[q].key = g[q].key /\ (q # p => h[q].height = g[q].height)
        /\ h[p].left = g[p].left /\ h[p].right = g[p].right
    <2>1. /\ DOMAIN h = DOMAIN g /\ HL(h) = HL(g) /\ HR(h) = HR(g)
          /\ \A q \in DOMAIN g : h[q].key = g[q].key /\ (q # p => h[q].height = g[q].height)
      BY <1>2 DEF SameButHeight, SameKeys
    <2> QED
      BY <1>1, <2>1 DEF HL, HR
  <1>4. g[p].left # p /\ g[p].right # p
    <2>1. HL(g)[p] = g[p].left /\ HR(g)[p] = g[p].right /\ Nest(DOMAIN g, HL(g), HR(g), S)
      BY <1>1 DEF HL, HR, Settled, Tree
    <2> QED
      BY <1>1, <2>1, ChildBelow
  <1>5. Ht(h, g[p].left) = Ht(g, g[p].left) /\ Ht(h, g[p].right) = Ht(g, g[p].right)
    BY <1>3, <1>4 DEF Ht
  <1>6. PICK f : f = fs[1]
    OBVIOUS
  <1>7. \/ /\ f.at = "left" /\ k < h[p].key
           /\ Ht(h, h[p].left) = n /\ Ht(h, h[p].right) = m
        \/ /\ f.at = "right" /\ k > h[p].key
           /\ Ht(h, h[p].left) = m /\ Ht(h, h[p].right) = n
    <2>1. p = f.node /\ SlackHeights(g, f, H0, old, n, m) /\ OnTheWay(g, f, k)
      BY <1>6
    <2> QED
      BY <1>1, <1>3, <1>5, <2>1 DEF SlackHeights, OnTheWay
  <1>8. h[p].height = H0 + 1 => n > m
    OBVIOUS
  <1> QED
    BY <1>7, <1>8 DEF GrownAt

(* A child that has grown is higher on the key's side.                     *)
LEMMA GrownBelow ==
    ASSUME NEW h, AvlHeap(h), NEW fs \in Seq(Frame), fs # <<>>, NEW r, NEW S,
           NEW g, NEW n, n \in DOMAIN h, Stored(h, fs, n, g), Settled(g, fs, r, S),
           \A q \in DOMAIN h : g[q].height = h[q].height /\ g[q].key = h[q].key,
           Link(g, fs[1]) = n,
           NEW k, NEW old, GrownAt(h, n, k, old), h[n].height = old + 1, old # 0
    PROVE  KeyIsHigher(g, n, k)
  <1>1. PICK f : f = fs[1]
    OBVIOUS
  <1>2. f.node \in DOMAIN g /\ DOMAIN g = DOMAIN h
    BY <1>1, LastNode DEF Stored
  <1>3. n # f.node
    <2>1. PICK p \in DOMAIN g : p = f.node
      BY <1>2
    <2>2. Nest(DOMAIN g, HL(g), HR(g), S) /\ n \in {HL(g)[p], HR(g)[p]}
      BY <1>1, <2>1 DEF Settled, Tree, HL, HR, Link
    <2> QED
      BY <1>2, <2>1, <2>2, ChildBelow
  <1>4. g[n].left = h[n].left /\ g[n].right = h[n].right
    BY <1>1, <1>3 DEF Stored, LinksL, LinksR
  <1>5. \A q : Ht(g, q) = Ht(h, q)
    BY <1>2 DEF Ht
  <1>6. \/ k < h[n].key /\ Ht(h, h[n].left) > Ht(h, h[n].right)
        \/ k > h[n].key /\ Ht(h, h[n].left) < Ht(h, h[n].right)
    BY DEF GrownAt
  <1> QED
    BY <1>4, <1>5, <1>6 DEF KeyIsHigher

(* An insertion returns: it has made the subtree higher by one at most.    *)
LEMMA InsertnodeReturnsKeeps ==
    ASSUME IInv, program = "avl", InsertnodeReturns
    PROVE  IInv'
  <1>1. /\ pc = "insertReturns" /\ frames # <<>>
        /\ UNCHANGED <<program, root, members, pc, key, p_current>>
        /\ frames' = Tail(frames) /\ key \in Int
    BY DEF InsertnodeReturns, ReturnWith, IInv, TreeTypeOK
  <1>2. PICK S, t : TreeKept(S) /\ KeysKept(S, t)
    BY <1>1 DEF IInv
  <1>3. PICK g : g = Linked(heap, frames[1], node)
    OBVIOUS
  <1>4. PICK p : p = frames[1].node
    OBVIOUS
  <1>5. PICK z : z = BalancedAfterInsert(g, p, key)
    OBVIOUS
  <1>6. heap' = z.h /\ node' = z.p
    BY <1>3, <1>4, <1>5 DEF InsertnodeReturns, ReturnWith
  <1>7. /\ frames \in Seq(Frame) /\ p \in DOMAIN heap /\ frames[1] \in Frame /\ node \in Pointer
        /\ FrameKeys(heap, frames, key)
    BY <1>1, <1>2, <1>4, ReturnFacts
  <1>8. /\ AvlHeap(g) /\ IsFiniteSet(DOMAIN g) /\ DOMAIN g = DOMAIN heap
        /\ \A q \in DOMAIN heap : g[q].height = heap[q].height /\ g[q].key = heap[q].key
        /\ Settled(g, frames, root, S) /\ EvenElsewhere(g, p) /\ Link(g, frames[1]) = node
    BY <1>1, <1>2, <1>3, <1>4, StoredFacts
  <1>9. /\ AvlHeap(heap) /\ Stored(heap, frames, node, g)
    BY <1>1, <1>3, <1>4, <1>7, LinkedAvl, InvFacts
  <1>10. PICK old \in Nat : /\ Slack(heap, frames[1], node, old)
                            /\ Ht(heap, node) \in {old, old + 1}
                            /\ GrownAt(heap, node, key, old)
                            /\ node \in DOMAIN heap
    BY <1>1 DEF IInv, HeightsKept
  <1>11. PICK m \in Nat : SlackHeights(g, frames[1], heap[p].height, old, Ht(heap, node), m)
    BY <1>1, <1>3, <1>4, <1>7, <1>9, <1>10, SlackIs
  <1>12. PICK n \in Nat : n = Ht(heap, node)
    BY <1>9 DEF AvlHeap, Ht
  <1>13. PICK a \in Nat : a = Ht(g, g[p].left)
    BY <1>8 DEF AvlHeap, Ht
  <1>14. PICK b \in Nat : b = Ht(g, g[p].right)
    BY <1>8 DEF AvlHeap, Ht
  <1>15. PICK H0 : H0 = heap[p].height
    OBVIOUS
  <1>16. /\ H0 = 1 + max(old, m) /\ old - m \in -1..1
         /\ \/ frames[1].at = "left" /\ a = n /\ b = m
            \/ frames[1].at = "right" /\ a = m /\ b = n
    BY <1>4, <1>11, <1>12, <1>13, <1>14, <1>15 DEF SlackHeights
  <1>OneHigher. OneHigher(old, n, m, H0)
    <2>1. n \in {old, old + 1}
      BY <1>10, <1>12
    <2>2. H0 = 1 + max(old, m) /\ old - m \in -1..1
      BY <1>16
    <2> QED
      BY <1>10, <1>11, <1>12, <2>1, <2>2, HigherByOne
  <1>17. /\ H0 \in Nat
         /\ n - m \in -2..2 /\ m - n \in -2..2 /\ m # n + 2
         /\ n = m + 2 => n = old + 1 /\ old # 0 /\ max(n, m) = H0 /\ max(m, n) = H0
         /\ n - m \in -1..1 =>
              /\ max(m, n) = max(n, m)
              /\ 1 + max(n, m) \in {H0, H0 + 1}
              /\ 1 + max(n, m) = H0 + 1 => n > m
    BY <1>OneHigher DEF OneHigher
  <1>18. n = m + 2 => KeyIsHigher(g, node, key)
    <2>1. SUFFICES ASSUME n = m + 2 PROVE KeyIsHigher(g, node, key)
      OBVIOUS
    <2>2. heap[node].height = old + 1 /\ old # 0
      BY <1>10, <1>12, <1>17, <2>1 DEF Ht
    <2> QED
      BY <1>1, <1>7, <1>8, <1>9, <1>10, <2>2, GrownBelow
  <1>19. /\ a = b + 2 => n = m + 2 /\ g[p].left = node
         /\ b = a + 2 => n = m + 2 /\ g[p].right = node
    <2>1. /\ frames[1].at = "left" => g[p].left = node
          /\ frames[1].at = "right" => g[p].right = node
      BY <1>4, <1>8 DEF Link
    <2>2. m # n + 2
      BY <1>17
    <2> QED
      BY <1>16, <2>1, <2>2
  <1>20. a - b \in -2..2
    BY <1>16, <1>17
  <1>21. Turns(g, p, z)
    <2>1. Ht(g, g[p].left) - Ht(g, g[p].right) \in -2..2
      BY <1>13, <1>14, <1>20
    <2>2. Ht(g, g[p].left) = Ht(g, g[p].right) + 2 => KeyIsHigher(g, g[p].left, key)
      BY <1>13, <1>14, <1>18, <1>19
    <2>3. Ht(g, g[p].right) = Ht(g, g[p].left) + 2 => KeyIsHigher(g, g[p].right, key)
      BY <1>13, <1>14, <1>18, <1>19
    <2> QED
      BY <1>1, <1>4, <1>5, <1>7, <1>8, <2>1, <2>2, <2>3, InsertTurns
  <1>22. Rebalanced(g, frames, root, S, z)
    BY <1>1, <1>4, <1>7, <1>8, <1>13, <1>14, <1>20, <1>21, TurnsRebalance
  <1>23. PICK S2 : Balanced(g, frames, root, S, z.h, z.p, S2)
    BY <1>22 DEF Rebalanced
  <1>24. GoodHeight(z.h, z.p, H0)
    <2>1. CASE a - b \in -1..1
      <3>1. PICK h : h = HeightSet(g, p)
        OBVIOUS
      <3>2. z = [h |-> h, p |-> p] /\ z.h[z.p].height = 1 + max(a, b)
        BY <1>4, <1>13, <1>14, <1>22, <2>1, <3>1 DEF Rebalanced
      <3>3. z.h = h /\ z.p = p
        BY <3>2
      <3>4. n - m \in -1..1 /\ 1 + max(a, b) = 1 + max(n, m)
        BY <1>16, <1>17, <2>1
      <3>5. h[p].height \in {H0, H0 + 1} /\ (h[p].height = H0 + 1 => n > m)
        BY <1>17, <3>2, <3>3, <3>4
      <3>6. OnTheWay(g, frames[1], key)
        <4>1. 1 \in DOMAIN frames
          BY <1>1, <1>7
        <4>2. IF frames[1].at = "left" THEN key < heap[frames[1].node].key
              ELSE key > heap[frames[1].node].key
          BY <1>7, <4>1 DEF FrameKeys
        <4> QED
          BY <1>4, <1>7, <1>8, <4>2 DEF OnTheWay
      <3>7. SlackHeights(g, frames[1], H0, old, n, m)
        BY <1>11, <1>12, <1>15
      <3>8. GrownAt(h, p, key, H0)
        BY <1>1, <1>4, <1>7, <1>8, <1>17, <3>1, <3>5, <3>6, <3>7, GrownAbove
      <3> QED
        BY <1>1, <3>3, <3>5, <3>8 DEF GoodHeight
    <2>2. CASE a - b \notin -1..1
      <3>1. a = b + 2 \/ b = a + 2
        BY <1>20, <2>2
      <3>2. n = m + 2 /\ KeyIsHigher(g, node, key)
        BY <1>18, <1>19, <3>1
      <3>3. HigherChild(g, p) = node
        BY <1>13, <1>14, <1>19, <3>1 DEF HigherChild
      <3>4. Ht(g, g[node].left) # Ht(g, g[node].right)
        <4>1. Ht(g, g[node].left) \in Nat /\ Ht(g, g[node].right) \in Nat
          BY <1>8 DEF AvlHeap, Ht
        <4> QED
          BY <3>2, <4>1 DEF KeyIsHigher
      <3>5. z.h[z.p].height = max(a, b)
        BY <1>4, <1>13, <1>14, <1>22, <2>2, <3>3, <3>4 DEF Rebalanced
      <3>6. z.h[z.p].height = H0
        BY <1>16, <1>17, <3>2, <3>5
      <3> QED
        BY <1>1, <1>17, <3>6 DEF GoodHeight, GrownAt
    <2> QED
      BY <2>1, <2>2
  <1> QED
    BY <1>1, <1>2, <1>3, <1>4, <1>6, <1>15, <1>23, <1>24, BalancedKeeps

-----------------------------------------------------------------------------
(* A new leaf hangs in the link that was empty.                            *)
Extended(h, h2, a, k) ==
    /\ a \notin DOMAIN h /\ a # NULL /\ DOMAIN h2 = DOMAIN h \cup {a}
    /\ \A q \in DOMAIN h : h2[q] = h[q]
    /\ h2[a].key = k /\ h2[a].left = NULL /\ h2[a].right = NULL

(* The calls that wait see the heap with the leaf as they saw it without.  *)
LEMMA StackGrafted ==
    ASSUME NEW h, NEW fs \in Seq(Frame), fs # <<>>, NEW r, NEW S,
           Nest(DOMAIN h, HL(h), HR(h), S), Stack(h, fs, r, S),
           NEW a, NEW k, NEW h2, Extended(h, h2, a, k),
           NEW u, NEW S2, S2 = GraftedSets(DOMAIN h, S, u, a)
    PROVE  Stack(h2, fs, r, S2)
  <1>1. \A x \in DOMAIN fs : fs[x].node \in DOMAIN h
    BY DEF Stack
  <1>2. \A x \in DOMAIN fs : fs[x].node \in DOMAIN h2
    BY <1>1 DEF Extended
  <1>3. ASSUME NEW x \in 2..Len(fs) PROVE Link(h2, fs[x]) = fs[x - 1].node
    <2>1. PICK f : f = fs[x]
      OBVIOUS
    <2>2. f.node \in DOMAIN h /\ Link(h, f) = fs[x - 1].node
      BY <1>1, <2>1 DEF Stack
    <2>3. h2[f.node] = h[f.node]
      BY <2>2 DEF Extended
    <2> QED
      BY <2>1, <2>2, <2>3 DEF Link
  <1>4. fs[Len(fs)].node = r
    BY DEF Stack
  <1>5. ASSUME NEW x \in DOMAIN fs, NEW y \in DOMAIN fs, x < y
        PROVE  fs[y].node \notin S2[fs[x].node]
    <2>1. PICK p : p = fs[x].node
      OBVIOUS
    <2>2. PICK q : q = fs[y].node
      OBVIOUS
    <2>3. p \in DOMAIN h /\ q \in DOMAIN h /\ q \notin S[p]
      BY <1>1, <1>5, <2>1, <2>2 DEF Stack
    <2>4. p # a /\ q # a
      BY <2>3 DEF Extended
    <2>5. q \notin S2[p]
      BY <2>3, <2>4 DEF GraftedSets
    <2> QED
      BY <2>1, <2>2, <2>5
  <1> QED
    BY <1>2, <1>3, <1>4, <1>5 DEF Stack

(* The empty tree becomes the leaf.                                        *)
LEMMA FirstLeaf ==
    ASSUME NEW h, NULL \notin DOMAIN h, NEW r, NEW S, Settled(h, <<>>, r, S),
           Handed(h, <<>>, NULL, r), NEW a, NEW k, NEW h2, Extended(h, h2, a, k)
    PROVE  \E S2 : Shape(h2, <<>>, a, r, S2) /\ InOrder(h2, <<>>, a, S2, NULL)
  <1>1. r = NULL /\ DOMAIN h = {}
    BY DEF Handed, Settled, Tree, Below
  <1>2. /\ DOMAIN h2 = {a} /\ h2[a].key = k /\ h2[a].left = NULL /\ h2[a].right = NULL
        /\ a # NULL
    BY <1>1 DEF Extended
  <1>3. PICK S2 : S2 = [p \in {a} |-> {a}]
    OBVIOUS
  <1>4. PICK L : L = LinksL(h2, <<>>, a)
    OBVIOUS
  <1>5. PICK R : R = LinksR(h2, <<>>, a)
    OBVIOUS
  <1>6. L[a] = NULL /\ R[a] = NULL
    BY <1>2, <1>4, <1>5 DEF LinksL, LinksR
  <1>7. Below({a}, S2, NULL) = {} /\ Below({a}, S2, a) = {a}
    BY <1>2, <1>3 DEF Below
  <1>8. Tree({a}, L, R, S2, a)
    BY <1>3, <1>6, <1>7 DEF Tree, Nest
  <1>9. Closed({a}, L, R, a)
    BY <1>6 DEF Closed
  <1>10. Ordered({a}, L, R, S2, KeysIn(h2), NULL)
    BY <1>6, <1>7 DEF Ordered
  <1>11. Stack(h2, <<>>, r, S2)
    BY DEF Stack
  <1> QED
    BY <1>2, <1>4, <1>5, <1>8, <1>9, <1>10, <1>11 DEF Shape, InOrder, Apex

(* Otherwise it hangs on the node of the last call that waits, on the side *)
(* of the key.                                                             *)
LEMMA LeafGrafted ==
    ASSUME NEW h, NULL \notin DOMAIN h, NEW r, NEW S,
           NEW fs \in Seq(Frame), fs # <<>>, Settled(h, fs, r, S), Handed(h, fs, NULL, r),
           NEW a, NEW k, FrameKeys(h, fs, k), SlotKeys(h, fs, k, S),
           Ordered(DOMAIN h, HL(h), HR(h), S, KeysIn(h), NULL),
           NEW h2, Extended(h, h2, a, k)
    PROVE  \E S2 : Shape(h2, fs, a, r, S2) /\ InOrder(h2, fs, a, S2, NULL)
  <1>1. PICK D : D = DOMAIN h
    OBVIOUS
  <1>2. PICK f : f = fs[1]
    OBVIOUS
  <1>3. PICK u \in D : u = f.node
    BY <1>1, <1>2, LastNode
  <1>4. PICK L : L = HL(h)
    OBVIOUS
  <1>5. PICK R : R = HR(h)
    OBVIOUS
  <1>6. PICK L2 : L2 = LinksL(h2, fs, a)
    OBVIOUS
  <1>7. PICK R2 : R2 = LinksR(h2, fs, a)
    OBVIOUS
  <1>8. PICK S2 : S2 = GraftedSets(D, S, u, a)
    OBVIOUS
  <1>9. PICK D2 : D2 = D \cup {a}
    OBVIOUS
  <1>10. /\ Tree(D, L, R, S, r) /\ Closed(D, L, R, r) /\ Stack(h, fs, r, S)
         /\ Nest(D, L, R, S) /\ Ordered(D, L, R, S, KeysIn(h), NULL)
    BY <1>1, <1>4, <1>5 DEF Settled, Tree
  <1>11. /\ a \notin D /\ a # NULL /\ NULL \notin D2 /\ DOMAIN h2 = D2
         /\ \A q \in D : h2[q] = h[q]
         /\ h2[a].key = k /\ h2[a].left = NULL /\ h2[a].right = NULL
    BY <1>1, <1>9 DEF Extended
  <1>12. /\ \A q \in D : L[q] = h[q].left /\ R[q] = h[q].right
         /\ \A q \in D : L[q] # a /\ R[q] # a
    BY <1>1, <1>4, <1>5, <1>10, <1>11 DEF HL, HR, Closed
  <1>13. PICK K : K = KeysIn(h)
    OBVIOUS
  <1>14. PICK K2 : K2 = KeysIn(h2)
    OBVIOUS
  <1>15. (\A q \in D : K2[q] = K[q] /\ K[q] = h[q].key) /\ K2[a] = k
    BY <1>1, <1>9, <1>11, <1>13, <1>14 DEF KeysIn
  <1>16. /\ f \in Frame
         /\ IF f.at = "left" THEN k < K[u] ELSE k > K[u]
    <2>1. 1 \in DOMAIN fs
      OBVIOUS
    <2>2. f \in Frame
      BY <1>2, <2>1
    <2>3. IF f.at = "left" THEN k < h[u].key ELSE k > h[u].key
      BY <1>2, <1>3, <2>1 DEF FrameKeys
    <2> QED
      BY <1>3, <1>15, <2>2, <2>3
  <1>17. \A p \in D : /\ u \in Below(D, S, L[p]) => k < K[p]
                      /\ u \in Below(D, S, R[p]) => k > K[p]
    BY <1>1, <1>2, <1>3, <1>12, <1>15 DEF SlotKeys
  <1>18. Closed(D2, L2, R2, r)
    <2>1. \A q \in D2 : L2[q] \in {a, h2[q].left} /\ R2[q] \in {a, h2[q].right}
      BY <1>6, <1>7, <1>9, <1>11 DEF LinksL, LinksR
    <2>2. r \in D2 \cup {NULL}
      BY <1>9, <1>10 DEF Closed
    <2>3. \A q \in D2 : h2[q].left \in D2 \cup {NULL} /\ h2[q].right \in D2 \cup {NULL}
      BY <1>9, <1>10, <1>11, <1>12 DEF Closed
    <2> QED
      BY <1>9, <2>1, <2>2, <2>3 DEF Closed
  <1>19. Stack(h2, fs, r, S2)
    BY <1>1, <1>4, <1>5, <1>8, <1>10, StackGrafted
  <1>20. Tree(D2, L2, R2, S2, r) /\ Ordered(D2, L2, R2, S2, K2, NULL)
    <2>1. CASE f.at = "left"
      <3>1. L[u] \notin D
        BY <1>1, <1>2, <1>3, <1>12, <2>1 DEF Handed, Link
      <3>2. Grafted(D, L, R, u, a, L2, R2)
        <4>1. \A q \in D2 : L2[q] = (IF q = u THEN a ELSE h2[q].left) /\ R2[q] = h2[q].right
          BY <1>2, <1>3, <1>6, <1>7, <1>9, <1>11, <2>1 DEF LinksL, LinksR
        <4> QED
          BY <1>3, <1>9, <1>11, <1>12, <4>1 DEF Grafted
      <3>3. Tree(D \cup {a}, L2, R2, S2, r)
        BY <1>8, <1>10, <1>11, <3>1, <3>2, GraftTree
      <3>4. K2[a] < K[u]
        BY <1>15, <1>16, <2>1
      <3>5. \A p \in D : /\ u \in Below(D, S, L[p]) => K2[a] < K[p]
                         /\ u \in Below(D, S, R[p]) => K[p] < K2[a]
        BY <1>15, <1>17
      <3>6. Ordered(D \cup {a}, L2, R2, S2, K2, NULL)
        BY <1>8, <1>10, <1>11, <1>13, <1>15, <3>1, <3>2, <3>4, <3>5, GraftOrder
      <3> QED
        BY <1>9, <3>3, <3>6
    <2>2. CASE f.at = "right"
      <3>1. R[u] \notin D
        BY <1>1, <1>2, <1>3, <1>12, <2>2 DEF Handed, Link
      <3>2. Grafted(D, R, L, u, a, R2, L2)
        <4>1. \A q \in D2 : R2[q] = (IF q = u THEN a ELSE h2[q].right) /\ L2[q] = h2[q].left
          BY <1>2, <1>3, <1>6, <1>7, <1>9, <1>11, <2>2 DEF LinksL, LinksR
        <4> QED
          BY <1>3, <1>9, <1>11, <1>12, <4>1 DEF Grafted
      <3>3. Tree(D, R, L, S, r) /\ Nest(D, R, L, S)
        BY <1>10, Mirrored DEF Tree
      <3>4. Tree(D \cup {a}, R2, L2, S2, r)
        BY <1>8, <1>11, <3>1, <3>2, <3>3, GraftTree
      <3>5. K[u] < K2[a]
        BY <1>15, <1>16, <2>2
      <3>6. \A p \in D : /\ u \in Below(D, S, R[p]) => K[p] < K2[a]
                         /\ u \in Below(D, S, L[p]) => K2[a] < K[p]
        BY <1>15, <1>17
      <3>7. Ordered(D \cup {a}, L2, R2, S2, K2, NULL)
        <4>1. Ordered(D, L, R, S, K, NULL)
          BY <1>10, <1>13
        <4>2. \A p \in D : K2[p] = K[p]
          BY <1>15
        <4> QED
          BY <1>8, <1>11, <3>1, <3>2, <3>3, <3>5, <3>6, <4>1, <4>2, GraftOrderRight
      <3> QED
        BY <1>9, <3>4, <3>7, Mirrored
    <2> QED
      BY <1>16, <2>1, <2>2 DEF Frame
  <1> QED
    BY <1>6, <1>7, <1>11, <1>14, <1>18, <1>19, <1>20 DEF Shape, InOrder, Apex

(* The new leaf has height 1 where there was nothing.                      *)
LEMMA LeafHeights ==
    ASSUME NEW h, AvlHeap(h), NULL \notin DOMAIN h, NEW r, NEW S,
           NEW fs \in Seq(Frame), Settled(h, fs, r, S), Handed(h, fs, NULL, r),
           \A p \in DOMAIN h : AvlNode(h, HL(h), HR(h), p),
           NEW a, NEW k, NEW h2, Extended(h, h2, a, k), h2[a].height = 1
    PROVE  /\ \A p \in DOMAIN h2 : \/ AvlNode(h2, LinksL(h2, fs, a), LinksR(h2, fs, a), p)
                                   \/ fs # <<>> /\ p = fs[1].node
           /\ fs # <<>> => \E old \in Nat : /\ Slack(h2, fs[1], a, old)
                                            /\ Ht(h2, a) \in {old, old + 1}
                                            /\ GrownAt(h2, a, k, old)
  <1>1. PICK D : D = DOMAIN h
    OBVIOUS
  <1>2. /\ a \notin D /\ a # NULL /\ DOMAIN h2 = D \cup {a} /\ NULL \notin D
        /\ \A q \in D : h2[q] = h[q]
        /\ h2[a].left = NULL /\ h2[a].right = NULL
    BY <1>1 DEF Extended
  <1>3. \A q \in D : h[q].left \in D \cup {NULL} /\ h[q].right \in D \cup {NULL}
    BY <1>1 DEF Settled, Closed, HL, HR
  <1>4. /\ \A q \in D \cup {NULL} : Ht(h2, q) = Ht(h, q)
        /\ Ht(h2, a) = 1 /\ Ht(h2, NULL) = 0 /\ Ht(h, NULL) = 0
    BY <1>1, <1>2 DEF Ht
  <1>5. fs # <<>> => fs[1].node \in D
    BY <1>1, LastNode
  <1>6. ASSUME NEW p \in D \cup {a}, fs # <<>> => p # fs[1].node
        PROVE  AvlNode(h2, LinksL(h2, fs, a), LinksR(h2, fs, a), p)
    <2>1. LinksL(h2, fs, a)[p] = h2[p].left /\ LinksR(h2, fs, a)[p] = h2[p].right
      BY <1>2, <1>6 DEF LinksL, LinksR
    <2>2. CASE p = a
      <3>1. Even(1, 0, 0)
        BY DEF Even, max
      <3> QED
        BY <1>2, <1>4, <2>1, <2>2, <3>1 DEF AvlNode
    <2>3. CASE p \in D
      <3>1. Even(h[p].height, Ht(h, h[p].left), Ht(h, h[p].right))
        BY <1>1, <2>3 DEF AvlNode, HL, HR
      <3>2. h2[p] = h[p] /\ h[p].left \in D \cup {NULL} /\ h[p].right \in D \cup {NULL}
        BY <1>2, <1>3, <2>3
      <3> QED
        BY <1>4, <2>1, <3>1, <3>2 DEF AvlNode
    <2> QED
      BY <2>2, <2>3
  <1>7. ASSUME fs # <<>>
        PROVE  \E old \in Nat : /\ Slack(h2, fs[1], a, old)
                                /\ Ht(h2, a) \in {old, old + 1}
                                /\ GrownAt(h2, a, k, old)
    <2>1. PICK f : f = fs[1]
      OBVIOUS
    <2>2. f.node \in D
      BY <1>5, <1>7, <2>1
    <2>3. Slack(h, f, NULL, 0)
      BY <1>1, <1>4, <1>7, <2>1, <2>2, SlackAsItIs
    <2>4. PICK p \in D : p = f.node
      BY <2>2
    <2>5. /\ h2[p] = h[p]
          /\ Ht(h2, h[p].left) = Ht(h, h[p].left) /\ Ht(h2, h[p].right) = Ht(h, h[p].right)
      BY <1>2, <1>3, <1>4
    <2>6. Slack(h2, f, a, 0)
      <3>1. CASE f.at = "left"
        BY <2>3, <2>4, <2>5, <3>1 DEF Slack
      <3>2. CASE f.at # "left"
        BY <2>3, <2>4, <2>5, <3>2 DEF Slack
      <3> QED
        BY <3>1, <3>2
    <2>7. GrownAt(h2, a, k, 0)
      BY DEF GrownAt
    <2> QED
      BY <1>4, <2>1, <2>6, <2>7
  <1> QED
    BY <1>2, <1>6, <1>7

(* malloc's answer becomes a leaf of the tree, whatever address it is.     *)
LEMMA NewLeafKeeps ==
    ASSUME IInv, NEW contents \in NodeType, NewLeaf(contents),
           contents.key = key, contents.left = NULL, contents.right = NULL,
           program = "avl" => contents.height = 1
    PROVE  IInv'
  <1>1. PICK a \in Address \ DOMAIN heap :
          /\ heap' = [q \in DOMAIN heap \cup {a} |-> IF q = a THEN contents ELSE heap[q]]
          /\ node' = a
    BY DEF NewLeaf
  <1>2. /\ pc = "insert" /\ pc' = "insertReturns" /\ key' = key /\ node = NULL
        /\ program' = program /\ root' = root /\ frames' = frames
        /\ p_current' = p_current /\ members' = members
    BY DEF NewLeaf
  <1>3. a # NULL /\ Extended(heap, heap', a, key)
    <2>1. a # NULL
      BY <1>1, TreeAssumption
    <2> QED
      BY <1>1, <2>1 DEF Extended
  <1>4. PICK S, t : TreeKept(S) /\ KeysKept(S, t)
    BY <1>2 DEF IInv
  <1>5. /\ frames \in Seq(Frame) /\ Settled(heap, frames, root, S)
        /\ Handed(heap, frames, NULL, root)
        /\ Ordered(DOMAIN heap, HL(heap), HR(heap), S, KeysIn(heap), t)
        /\ program = "avl" => \A p \in DOMAIN heap : AvlNode(heap, HL(heap), HR(heap), p)
    BY <1>2, <1>4, DownFacts
  <1>6. /\ NULL \notin DOMAIN heap
        /\ program = "avl" => AvlHeap(heap)
    BY InvFacts
  <1>7. /\ t = NULL /\ Keys(heap) \cup {key} = members
        /\ FrameKeys(heap, frames, key) /\ SlotKeys(heap, frames, key, S)
    BY <1>2, <1>4 DEF KeysKept
  <1>8. TreeTypeOK'
    <2>1. heap \in [DOMAIN heap -> NodeType] /\ DOMAIN heap \subseteq Address
      BY DEF IInv, TreeTypeOK
    <2>2. DOMAIN heap' = DOMAIN heap \cup {a} /\ \A q \in DOMAIN heap' : heap'[q] \in NodeType
      BY <1>1, <2>1
    <2>3. heap' = [q \in DOMAIN heap' |-> heap'[q]]
      BY <1>1
    <2>4. heap' \in [DOMAIN heap' -> NodeType] /\ DOMAIN heap' \subseteq Address
      BY <1>1, <2>1, <2>2, <2>3
    <2>5. a \in Pointer
      BY DEF Pointer
    <2>6. NodeType' = NodeType
      BY <1>2 DEF NodeType
    <2> QED
      BY <1>1, <1>2, <2>4, <2>5, <2>6 DEF IInv, TreeTypeOK
  <1>9. \E S2 : /\ Shape(heap', frames, a, root, S2)
                /\ InOrder(heap', frames, a, S2, NULL)
    <2>1. CASE frames = <<>>
      BY <1>3, <1>5, <1>6, <2>1, FirstLeaf
    <2>2. CASE frames # <<>>
      BY <1>3, <1>5, <1>6, <1>7, <2>2, LeafGrafted
    <2> QED
      BY <2>1, <2>2
  <1>10. PICK S2 : Shape(heap', frames, a, root, S2) /\ InOrder(heap', frames, a, S2, NULL)
    BY <1>9
  <1>11. TreeKept(S2)'
    <2>1. frames = <<>> => root = NULL
      BY <1>5 DEF Handed
    <2> QED
      BY <1>1, <1>2, <1>10, <2>1 DEF TreeKept
  <1>12. KeysKept(S2, NULL)'
    <2>1. Keys(heap') = members
      <3>1. \A q \in DOMAIN heap : heap'[q].key = heap[q].key
        BY <1>3 DEF Extended
      <3>2. heap'[a].key = key /\ DOMAIN heap' = DOMAIN heap \cup {a}
        BY <1>3 DEF Extended
      <3>3. Keys(heap') = Keys(heap) \cup {key}
        BY <3>1, <3>2 DEF Keys
      <3> QED
        BY <1>7, <3>3
    <2>2. FrameKeys(heap', frames, key)
      <3>1. \A x \in DOMAIN frames : frames[x].node \in DOMAIN heap
        BY <1>5 DEF Settled, Stack
      <3>2. \A q \in DOMAIN heap : heap'[q].key = heap[q].key
        BY <1>3 DEF Extended
      <3> QED
        BY <1>7, <3>1, <3>2 DEF FrameKeys
    <2> QED
      BY <1>1, <1>2, <1>10, <2>1, <2>2 DEF KeysKept
  <1>13. program = "avl" => HeightsKept'
    <2>1. SUFFICES ASSUME program = "avl" PROVE HeightsKept'
      OBVIOUS
    <2>2. heap'[a].height = 1
      BY <1>1, <2>1
    <2>3. /\ \A p \in DOMAIN heap' :
               \/ AvlNode(heap', LinksL(heap', frames, a), LinksR(heap', frames, a), p)
               \/ frames # <<>> /\ p = frames[1].node
          /\ frames # <<>> => \E old \in Nat : /\ Slack(heap', frames[1], a, old)
                                               /\ Ht(heap', a) \in {old, old + 1}
                                               /\ GrownAt(heap', a, key, old)
      BY <1>3, <1>5, <1>6, <2>1, <2>2, LeafHeights
    <2>4. a \in DOMAIN heap'
      BY <1>1
    <2> QED
      BY <1>1, <1>2, <2>3, <2>4 DEF HeightsKept
  <1> QED
    BY <1>2, <1>8, <1>11, <1>12, <1>13 DEF IInv

-----------------------------------------------------------------------------
(* Deletion of a node that has no child, or one.                           *)
(* Nothing but the last waiting call's link leads to the node of the       *)
(* running call, and no waiting call has a node below it.                  *)
LEMMA Hanging ==
    ASSUME NEW h, IsFiniteSet(DOMAIN h), DOMAIN h \subseteq Address, NEW fs \in Seq(Frame),
           NEW r, NEW S, Settled(h, fs, r, S), NEW n \in DOMAIN h, Handed(h, fs, n, r)
    PROVE  /\ \A q \in DOMAIN h :
                /\ h[q].left = n <=> fs # <<>> /\ fs[1].node = q /\ fs[1].at = "left"
                /\ h[q].right = n <=> fs # <<>> /\ fs[1].node = q /\ fs[1].at = "right"
           /\ \A x \in DOMAIN fs : fs[x].node \in DOMAIN h /\ fs[x].node \notin S[n]
  <1>1. PICK f \in Frame : f.node = n
    <2>1. [node |-> n, at |-> "left"] \in Frame
      BY DEF Frame
    <2> QED
      BY <2>1
  <1>2. PICK gs : gs = <<f>> \o fs
    OBVIOUS
  <1>3. /\ gs \in Seq(Frame) /\ gs # <<>> /\ Len(gs) = Len(fs) + 1 /\ gs[1] = f
        /\ \A x \in 2..Len(fs) + 1 : gs[x] = fs[x - 1]
    BY <1>2, InFront
  <1>4. Tail(gs) = fs
    BY <1>2
  <1>5. Settled(h, gs, r, S)
    BY <1>1, <1>2, StackPush
  <1>6. ASSUME NEW q \in DOMAIN h
        PROVE  /\ h[q].left = n <=> fs # <<>> /\ fs[1].node = q /\ fs[1].at = "left"
               /\ h[q].right = n <=> fs # <<>> /\ fs[1].node = q /\ fs[1].at = "right"
    <2>1. gs[1].node = n
      BY <1>1, <1>3
    <2> QED
      BY <1>3, <1>4, <1>5, <2>1, ParentWaits
  <1>7. ASSUME NEW x \in DOMAIN fs
        PROVE  fs[x].node \in DOMAIN h /\ fs[x].node \notin S[n]
    <2>1. x + 1 \in 2..Len(gs) /\ gs[x + 1] = fs[x]
      BY <1>3
    <2>2. /\ Stack(h, gs, r, S) /\ S \in [DOMAIN h -> SUBSET DOMAIN h]
          /\ \A p \in DOMAIN h : p \in S[p]
      BY <1>5 DEF Settled, Tree, Nest
    <2>3. PICK y \in 2..Len(gs) : y = x + 1
      BY <2>1
    <2>4. gs[y].node \in DOMAIN h /\ gs[y].node \notin S[gs[1].node]
      BY <1>3, <2>2, OtherCalls
    <2> QED
      BY <1>1, <1>3, <2>1, <2>3, <2>4
  <1> QED
    BY <1>6, <1>7

(* The node v is freed: no waiting call's node, nor one that it links.     *)
LEMMA StackWithout ==
    ASSUME NEW h, NEW fs \in Seq(Frame), NEW r, NEW S, Stack(h, fs, r, S),
           NEW v, NEW h2, DOMAIN h2 = DOMAIN h \ {v},
           \A x \in DOMAIN fs : fs[x].node # v /\ h2[fs[x].node] = h[fs[x].node]
    PROVE  Stack(h2, fs, r, Without(DOMAIN h, S, v))
  <1>1. \A x \in DOMAIN fs : fs[x].node \in DOMAIN h2
    BY DEF Stack
  <1>2. ASSUME NEW x \in 2..Len(fs) PROVE Link(h2, fs[x]) = fs[x - 1].node
    <2>1. x \in DOMAIN fs /\ Link(h, fs[x]) = fs[x - 1].node
      BY DEF Stack
    <2>2. h2[fs[x].node] = h[fs[x].node]
      BY <2>1
    <2> QED
      BY <2>1, <2>2 DEF Link
  <1>3. fs # <<>> => fs[Len(fs)].node = r
    BY DEF Stack
  <1>4. ASSUME NEW x \in DOMAIN fs, NEW y \in DOMAIN fs, x < y
        PROVE  fs[y].node \notin Without(DOMAIN h, S, v)[fs[x].node]
    <2>1. fs[y].node \notin S[fs[x].node]
      BY <1>4 DEF Stack
    <2>2. PICK p : p = fs[x].node
      OBVIOUS
    <2>3. p \in DOMAIN h \ {v}
      BY <1>1, <2>2
    <2> QED
      BY <2>1, <2>2, <2>3 DEF Without
  <1> QED
    BY <1>1, <1>2, <1>3, <1>4 DEF Stack

(* What is in the tree without the key.                                    *)
LEMMA KeysUnlinked ==
    ASSUME NEW h, IsFiniteSet(DOMAIN h), NULL \notin DOMAIN h, KeysIn(h) \in [DOMAIN h -> Int],
           NEW S, NEW r, Tree(DOMAIN h, HL(h), HR(h), S, r),
           NEW t, Ordered(DOMAIN h, HL(h), HR(h), S, KeysIn(h), t),
           NEW n \in DOMAIN h, NEW k, h[n].key = k, NEW M,
           \/ t = NULL /\ Keys(h) \ {k} = M
           \/ Keys(h) = M /\ SuccessorBelow(h, n, k, S, t)
    PROVE  /\ {h[p].key : p \in DOMAIN h \ {n}} = M
           /\ OneEqual(DOMAIN h, HR(h), S, KeysIn(h), t, n)
           /\ t \notin S[n]
  <1>1. PICK D : D = DOMAIN h
    OBVIOUS
  <1>2. /\ Nest(D, HL(h), HR(h), S) /\ \A q \in D : KeysIn(h)[q] = h[q].key
        /\ \A q \in D : HR(h)[q] = h[q].right
        /\ S \in [D -> SUBSET D] /\ n \in S[n] /\ Below(D, S, n) = S[n]
    BY <1>1 DEF Tree, Nest, KeysIn, HR, Below
  <1>3. CASE t = NULL /\ Keys(h) \ {k} = M
    <2>1. t \notin D
      BY <1>1, <1>3
    <2>2. ASSUME NEW q \in D, q # n PROVE h[q].key # k
      <3>1. KeysIn(h)[q] # KeysIn(h)[n]
        BY <1>1, <1>3, <2>1, <2>2, SameKey
      <3> QED
        BY <1>1, <1>2, <3>1
    <2>3. {h[p].key : p \in D \ {n}} = Keys(h) \ {k}
      BY <1>1, <2>2 DEF Keys
    <2> QED
      BY <1>1, <1>2, <1>3, <2>1, <2>3 DEF OneEqual
  <1>4. CASE Keys(h) = M /\ SuccessorBelow(h, n, k, S, t)
    <2>1. /\ t \in D /\ h[t].key = k /\ S[n] \subseteq Below(D, S, HR(h)[t])
      BY <1>1, <1>2, <1>4 DEF SuccessorBelow
    <2>2. t \notin Below(D, S, HR(h)[t])
      BY <1>2, <2>1 DEF Nest
    <2>3. t \notin S[n] /\ t # n
      BY <1>2, <2>1, <2>2
    <2>4. {h[p].key : p \in D \ {n}} = Keys(h)
      BY <1>1, <2>1, <2>3 DEF Keys
    <2>5. ASSUME NEW q \in Below(D, S, HR(h)[t]), KeysIn(h)[t] = KeysIn(h)[q], q # n
          PROVE  FALSE
      <3>1. q \in D /\ q # t
        BY <1>2, <2>2 DEF Below
      <3>2. KeysIn(h)[n] = KeysIn(h)[q]
        BY <1>1, <1>2, <2>1, <2>5
      <3> QED
        BY <1>1, <2>3, <2>5, <3>1, <3>2, SameKey
    <2> QED
      BY <1>1, <1>4, <2>3, <2>4, <2>5 DEF OneEqual
  <1> QED
    BY <1>3, <1>4

(* The node v is freed, that of the running call or its child.             *)
FreedAt(h, n, v, h2) ==
    /\ v \in DOMAIN h /\ v \in {n, h[n].left, h[n].right}
    /\ DOMAIN h2 = DOMAIN h \ {v}
    /\ \A q \in DOMAIN h \ {n, v} : h2[q] = h[q]

(* No other node links the two, and none of the waiting calls' is one.     *)
LEMMA LinksElsewhere ==
    ASSUME NEW h, IsFiniteSet(DOMAIN h), DOMAIN h \subseteq Address, NEW fs \in Seq(Frame),
           NEW r, NEW S, Settled(h, fs, r, S), NEW n \in DOMAIN h, Handed(h, fs, n, r),
           NEW v, NEW h2, FreedAt(h, n, v, h2)
    PROVE  /\ \A q \in DOMAIN h \ {n, v} :
                /\ h[q].left # v \/ v = n
                /\ h[q].right # v \/ v = n
                /\ h[q].left = n <=> fs # <<>> /\ fs[1].node = q /\ fs[1].at = "left"
                /\ h[q].right = n <=> fs # <<>> /\ fs[1].node = q /\ fs[1].at = "right"
           /\ \A x \in DOMAIN fs : fs[x].node \in DOMAIN h \ {n, v}
           /\ v \in S[n]
  <1>1. /\ \A q \in DOMAIN h :
             /\ h[q].left = n <=> fs # <<>> /\ fs[1].node = q /\ fs[1].at = "left"
             /\ h[q].right = n <=> fs # <<>> /\ fs[1].node = q /\ fs[1].at = "right"
        /\ \A x \in DOMAIN fs : fs[x].node \in DOMAIN h /\ fs[x].node \notin S[n]
    BY Hanging
  <1>2. PICK D : D = DOMAIN h
    OBVIOUS
  <1>3. /\ Tree(D, HL(h), HR(h), S, r) /\ Nest(D, HL(h), HR(h), S) /\ v \in D
        /\ \A q \in D : HL(h)[q] = h[q].left /\ HR(h)[q] = h[q].right
    BY <1>2 DEF Settled, Tree, HL, HR, FreedAt
  <1>4. v # n => v \in {HL(h)[n], HR(h)[n]}
    BY <1>2, <1>3 DEF FreedAt
  <1>5. v \in S[n] /\ n \in S[n]
    <2>1. CASE v = n
      BY <1>2, <1>3, <2>1 DEF Nest
    <2>2. CASE v # n
      BY <1>2, <1>3, <1>4, <2>2, ChildBelow
    <2> QED
      BY <2>1, <2>2
  <1>6. ASSUME NEW q \in D \ {n, v}, v # n PROVE h[q].left # v /\ h[q].right # v
    <2>1. SUFFICES ASSUME v \in {HL(h)[q], HR(h)[q]} PROVE FALSE
      BY <1>3
    <2>2. n = q
      BY <1>2, <1>3, <1>4, <1>6, <2>1, OneParent
    <2> QED
      BY <2>2
  <1>7. \A x \in DOMAIN fs : fs[x].node \in D \ {n, v}
    BY <1>1, <1>2, <1>5
  <1> QED
    BY <1>1, <1>2, <1>5, <1>6, <1>7

(* The other nodes have the heights that they had.                         *)
LEMMA HeightsWithout ==
    ASSUME NEW h, AvlHeap(h), NULL \notin DOMAIN h, IsFiniteSet(DOMAIN h),
           NEW fs \in Seq(Frame), NEW r, NEW S, Settled(h, fs, r, S),
           NEW n \in DOMAIN h, Handed(h, fs, n, r),
           \A p \in DOMAIN h : AvlNode(h, HL(h), HR(h), p),
           NEW v, NEW h2, FreedAt(h, n, v, h2), NEW x
    PROVE  /\ \A p \in DOMAIN h \ {n, v} :
                \/ AvlNode(h2, LinksL(h2, fs, x), LinksR(h2, fs, x), p)
                \/ fs # <<>> /\ p = fs[1].node
           /\ fs # <<>> => Slack(h2, fs[1], x, Ht(h, n))
  <1>1. PICK D : D = DOMAIN h
    OBVIOUS
  <1>2. /\ \A q \in D \ {n, v} :
             /\ h[q].left # v \/ v = n
             /\ h[q].right # v \/ v = n
             /\ h[q].left = n <=> fs # <<>> /\ fs[1].node = q /\ fs[1].at = "left"
             /\ h[q].right = n <=> fs # <<>> /\ fs[1].node = q /\ fs[1].at = "right"
        /\ \A y \in DOMAIN fs : fs[y].node \in D \ {n, v}
    BY <1>1, LinksElsewhere DEF AvlHeap
  <1>3. /\ DOMAIN h2 = D \ {v} /\ \A q \in D \ {n, v} : h2[q] = h[q]
    BY <1>1 DEF FreedAt
  <1>4. \A q : q \notin {n, v} => Ht(h2, q) = Ht(h, q)
    BY <1>1, <1>3 DEF Ht
  <1>5. ASSUME NEW p \in D \ {n, v}, ~(fs # <<>> /\ p = fs[1].node)
        PROVE  AvlNode(h2, LinksL(h2, fs, x), LinksR(h2, fs, x), p)
    <2>1. h[p].left \notin {n, v} /\ h[p].right \notin {n, v}
      BY <1>2, <1>5
    <2>2. Even(h[p].height, Ht(h, h[p].left), Ht(h, h[p].right))
      BY <1>1 DEF AvlNode, HL, HR
    <2>3. h2[p] = h[p] /\ p \in DOMAIN h2
      BY <1>3
    <2>4. LinksL(h2, fs, x)[p] = h[p].left /\ LinksR(h2, fs, x)[p] = h[p].right
      BY <1>5, <2>3 DEF LinksL, LinksR
    <2>5. Ht(h2, h[p].left) = Ht(h, h[p].left) /\ Ht(h2, h[p].right) = Ht(h, h[p].right)
      BY <1>4, <2>1
    <2> QED
      BY <2>2, <2>3, <2>4, <2>5 DEF AvlNode
  <1>6. ASSUME fs # <<>> PROVE Slack(h2, fs[1], x, Ht(h, n))
    <2>1. PICK f : f = fs[1]
      OBVIOUS
    <2>2. f \in Frame /\ 1 \in DOMAIN fs
      BY <1>6, <2>1
    <2>3. PICK p \in D \ {n, v} : p = f.node
      BY <1>2, <2>1, <2>2
    <2>4. h2[p] = h[p]
      BY <1>3
    <2>5. Slack(h, f, n, Ht(h, n))
      BY <1>1, <1>6, <2>1, <2>3, SlackAsItIs
    <2>6. CASE f.at = "left"
      <3>1. h[p].right \notin {n, v}
        BY <1>2, <2>1, <2>3, <2>6
      <3>2. Ht(h2, h[p].right) = Ht(h, h[p].right)
        BY <1>4, <3>1
      <3> QED
        BY <2>1, <2>3, <2>4, <2>5, <2>6, <3>2 DEF Slack
    <2>7. CASE f.at = "right"
      <3>1. h[p].left \notin {n, v}
        BY <1>2, <2>1, <2>3, <2>7
      <3>2. Ht(h2, h[p].left) = Ht(h, h[p].left)
        BY <1>4, <3>1
      <3> QED
        BY <2>1, <2>3, <2>4, <2>5, <2>7, <3>2 DEF Slack
    <2> QED
      BY <2>2, <2>6, <2>7 DEF Frame
  <1> QED
    BY <1>1, <1>5, <1>6

(* The tree without n, and x where n was.                                  *)
UnlinkedWell(h, fs, r, n, h2, x) ==
    /\ \E S2 : Shape(h2, fs, x, r, S2) /\ InOrder(h2, fs, x, S2, NULL)
    /\ AvlHeap(h2) /\ x \in DOMAIN h2 \cup {NULL}
    /\ Keys(h2) = {h[p].key : p \in DOMAIN h \ {n}}
    /\ \A p \in DOMAIN h2 : \/ AvlNode(h2, LinksL(h2, fs, x), LinksR(h2, fs, x), p)
                            \/ fs # <<>> /\ p = fs[1].node
    /\ fs # <<>> => \E old \in Nat : Slack(h2, fs[1], x, old) /\ Ht(h2, x) \in {old, old - 1}

(* What is known of the node to unlink.                                    *)
Unlinkable(h, fs, r, S, n, t) ==
    /\ AvlHeap(h) /\ NULL \notin DOMAIN h /\ IsFiniteSet(DOMAIN h)
    /\ Settled(h, fs, r, S) /\ n \in DOMAIN h /\ Handed(h, fs, n, r)
    /\ \A p \in DOMAIN h : AvlNode(h, HL(h), HR(h), p)
    /\ KeysIn(h) \in [DOMAIN h -> Int]
    /\ Ordered(DOMAIN h, HL(h), HR(h), S, KeysIn(h), t)
    /\ OneEqual(DOMAIN h, HR(h), S, KeysIn(h), t, n)
    /\ t \notin S[n]

(* A node without a child is freed.                                        *)
LEMMA LeafUnlinked ==
    ASSUME NEW h, NEW fs \in Seq(Frame), NEW r, NEW S, NEW n, NEW t,
           Unlinkable(h, fs, r, S, n, t), h[n].left = NULL, h[n].right = NULL
    PROVE  UnlinkedWell(h, fs, r, n, Freed(h, n), NULL)
  <1>1. PICK D : D = DOMAIN h
    OBVIOUS
  <1>2. PICK h2 : h2 = Freed(h, n)
    OBVIOUS
  <1>3. PICK L : L = HL(h)
    OBVIOUS
  <1>4. PICK R : R = HR(h)
    OBVIOUS
  <1>5. PICK L2 : L2 = LinksL(h2, fs, NULL)
    OBVIOUS
  <1>6. PICK R2 : R2 = LinksR(h2, fs, NULL)
    OBVIOUS
  <1>7. PICK r2 : r2 = Apex(fs, NULL, r)
    OBVIOUS
  <1>8. /\ AvlHeap(h) /\ NULL \notin D /\ IsFiniteSet(D) /\ Settled(h, fs, r, S)
        /\ Tree(D, L, R, S, r) /\ Nest(D, L, R, S) /\ Closed(D, L, R, r) /\ Stack(h, fs, r, S)
        /\ n \in D /\ Handed(h, fs, n, r) /\ DOMAIN h \subseteq Address
        /\ \A p \in DOMAIN h : AvlNode(h, HL(h), HR(h), p)
        /\ \A q \in D : L[q] = h[q].left /\ R[q] = h[q].right
        /\ Ordered(D, L, R, S, KeysIn(h), t)
        /\ OneEqual(D, R, S, KeysIn(h), t, n)
    BY <1>1, <1>3, <1>4 DEF Unlinkable, Settled, Tree, AvlHeap, HL, HR
  <1>9. DOMAIN h2 = D \ {n} /\ \A q \in D \ {n} : h2[q] = h[q]
    BY <1>1, <1>2 DEF Freed
  <1>10. FreedAt(h, n, n, h2)
    BY <1>1, <1>8, <1>9 DEF FreedAt
  <1>11. /\ \A q \in D \ {n} :
              /\ h[q].left = n <=> fs # <<>> /\ fs[1].node = q /\ fs[1].at = "left"
              /\ h[q].right = n <=> fs # <<>> /\ fs[1].node = q /\ fs[1].at = "right"
         /\ \A y \in DOMAIN fs : fs[y].node \in D \ {n}
    BY <1>1, <1>8, <1>10, LinksElsewhere
  <1>12. \A q \in D \ {n} : /\ L2[q] = (IF h[q].left = n THEN NULL ELSE h[q].left)
                            /\ R2[q] = (IF h[q].right = n THEN NULL ELSE h[q].right)
    BY <1>5, <1>6, <1>9, <1>11 DEF LinksL, LinksR
  <1>13. Pruned(D, L, R, n, L2, R2)
    BY <1>8, <1>12 DEF Pruned
  <1>14. L[n] \notin D /\ R[n] \notin D
    BY <1>8
  <1>15. fs # <<>> => r # n
    <2>1. SUFFICES ASSUME fs # <<>>, r = n PROVE FALSE
      OBVIOUS
    <2>2. 1 \in DOMAIN fs
      BY <2>1
    <2>3. PICK u \in D \ {n} : u = fs[1].node
      BY <1>11, <2>2
    <2>4. n = Link(h, fs[1])
      BY <1>8, <2>1 DEF Handed
    <2>5. n \in {L[u], R[u]}
      BY <1>8, <2>3, <2>4 DEF Link
    <2> QED
      BY <1>8, <2>1, <2>5, RootHasNoParent
  <1>16. /\ r = n \/ r2 = r
         /\ r2 \in (D \ {n}) \cup {NULL}
    <2>1. CASE fs = <<>>
      BY <1>7, <1>8, <2>1 DEF Handed, Apex
    <2>2. CASE fs # <<>>
      BY <1>7, <1>8, <1>15, <2>2 DEF Apex, Closed
    <2> QED
      BY <2>1, <2>2
  <1>17. PICK S2 : S2 = Without(D, S, n)
    OBVIOUS
  <1>18. Tree(D \ {n}, L2, R2, S2, r2)
    BY <1>8, <1>13, <1>14, <1>16, <1>17, PruneTree
  <1>19. Closed(D \ {n}, L2, R2, r2)
    BY <1>8, <1>12, <1>16 DEF Closed
  <1>20. Stack(h2, fs, r, S2)
    BY <1>1, <1>8, <1>9, <1>11, <1>17, StackWithout
  <1>21. PICK K : K = KeysIn(h)
    OBVIOUS
  <1>22. PICK K2 : K2 = KeysIn(h2)
    OBVIOUS
  <1>23. \A p \in D \ {n} : K2[p] = K[p]
    BY <1>1, <1>9, <1>21, <1>22 DEF KeysIn
  <1>24. Ordered(D \ {n}, L2, R2, S2, K2, NULL)
    <2>1. Nest(D, L, R, S) /\ n \in D /\ Ordered(D, L, R, S, K, t)
      BY <1>8, <1>21
    <2>2. OneEqual(D, R, S, K, t, n)
      BY <1>8, <1>21
    <2>3. Ordered(D \ {n}, L2, R2, Without(D, S, n), K2, NULL)
      BY <1>13, <1>14, <1>23, <2>1, <2>2, PruneOrder
    <2> QED
      BY <1>17, <2>3
  <1>25. Shape(h2, fs, NULL, r, S2) /\ InOrder(h2, fs, NULL, S2, NULL)
    BY <1>5, <1>6, <1>7, <1>9, <1>18, <1>19, <1>20, <1>22, <1>24 DEF Shape, InOrder
  <1>26. AvlHeap(h2)
    BY <1>1, <1>2, <1>8, <1>9 DEF AvlHeap, Freed
  <1>27. Keys(h2) = {h[p].key : p \in D \ {n}}
    BY <1>9 DEF Keys
  <1>28. /\ \A p \in D \ {n} : \/ AvlNode(h2, L2, R2, p)
                               \/ fs # <<>> /\ p = fs[1].node
         /\ fs # <<>> => Slack(h2, fs[1], NULL, Ht(h, n))
    BY <1>1, <1>5, <1>6, <1>8, <1>10, HeightsWithout
  <1>29. Ht(h, n) = 1 /\ Ht(h2, NULL) = 0
    <2>1. Even(h[n].height, Ht(h, NULL), Ht(h, NULL))
      BY <1>1, <1>8 DEF AvlNode, HL, HR
    <2>2. Ht(h, NULL) = 0 /\ Ht(h2, NULL) = 0
      BY <1>1, <1>8, <1>9 DEF Ht
    <2> QED
      BY <1>1, <1>8, <2>1, <2>2 DEF Even, max, Ht
  <1>30. fs # <<>> => \E old \in Nat : Slack(h2, fs[1], NULL, old) /\ Ht(h2, NULL) \in {old, old - 1}
    BY <1>28, <1>29
  <1> QED
    BY <1>1, <1>2, <1>5, <1>6, <1>9, <1>25, <1>26, <1>27, <1>28, <1>30 DEF UnlinkedWell

(* An only child of an even node is a leaf.                                *)
LEMMA OnlyChildIsLeaf ==
    ASSUME NEW h, AvlHeap(h), NULL \notin DOMAIN h, NEW r, Closed(DOMAIN h, HL(h), HR(h), r),
           \A p \in DOMAIN h : AvlNode(h, HL(h), HR(h), p),
           NEW n \in DOMAIN h, NEW c \in DOMAIN h,
           \/ h[n].left = c /\ h[n].right = NULL
           \/ h[n].left = NULL /\ h[n].right = c
    PROVE  h[c].left = NULL /\ h[c].right = NULL /\ h[n].height = 2
  <1>1. PICK D : D = DOMAIN h
    OBVIOUS
  <1>2. /\ Ht(h, NULL) = 0 /\ NULL \notin D /\ n \in D /\ c \in D
        /\ \A q \in D : Ht(h, q) = h[q].height /\ h[q].height \in Nat
        /\ \A q : Ht(h, q) \in Nat
    BY <1>1 DEF Ht, AvlHeap
  <1>3. \A q \in D : Even(h[q].height, Ht(h, h[q].left), Ht(h, h[q].right))
    BY <1>1 DEF AvlNode, HL, HR
  <1>4. \A q \in D : h[q].height >= 1
    BY <1>2, <1>3 DEF Even, max
  <1>5. h[c].height \in Nat /\ h[c].height >= 1 /\ h[n].height \in Nat
    BY <1>2, <1>4
  <1>6. h[c].height = 1 /\ h[n].height = 2
    <2>1. \/ Even(h[n].height, h[c].height, 0)
          \/ Even(h[n].height, 0, h[c].height)
      BY <1>2, <1>3
    <2> QED
      BY <1>5, <2>1 DEF Even, max
  <1>7. Ht(h, h[c].left) = 0 /\ Ht(h, h[c].right) = 0
    <2>1. PICK a \in Nat : a = Ht(h, h[c].left)
      BY <1>2
    <2>2. PICK b \in Nat : b = Ht(h, h[c].right)
      BY <1>2
    <2>3. Even(1, a, b)
      BY <1>2, <1>3, <1>6, <2>1, <2>2
    <2>4. a = 0 /\ b = 0
      BY <2>1, <2>2, <2>3 DEF Even, max
    <2> QED
      BY <2>1, <2>2, <2>4
  <1>8. h[c].left \in D \cup {NULL} /\ h[c].right \in D \cup {NULL}
    BY <1>1 DEF Closed, HL, HR
  <1> QED
    BY <1>2, <1>4, <1>6, <1>7, <1>8

(* It is copied into n and freed, and there is nothing to rotate.          *)
LEMMA ChildCopied ==
    ASSUME NEW h, AvlHeap(h), NULL \notin DOMAIN h, NEW n \in DOMAIN h,
           NEW c \in DOMAIN h, c # n, h[c].left = NULL, h[c].right = NULL,
           \/ h[n].left = c /\ h[n].right = NULL
           \/ h[n].left = NULL /\ h[n].right = c
    PROVE  LET z == Unlinked(h, n)
           IN  /\ z.p = n /\ AvlHeap(z.h) /\ DOMAIN z.h = DOMAIN h \ {c}
               /\ \A q \in DOMAIN h \ {n, c} : z.h[q] = h[q]
               /\ z.h[n].key = h[c].key /\ z.h[n].height = 1
               /\ z.h[n].left = NULL /\ z.h[n].right = NULL
  <1>1. PICK D : D = DOMAIN h
    OBVIOUS
  <1>2. PICK h1 : h1 = Freed([h EXCEPT ![n] = h[c]], c)
    OBVIOUS
  <1>3. /\ h \in [D -> [key : Int, left : Pointer, right : Pointer, height : Nat]]
        /\ D \subseteq Address /\ NULL \notin D /\ n \in D /\ c \in D
    BY <1>1 DEF AvlHeap
  <1>4. /\ DOMAIN h1 = D \ {c} /\ h1[n] = h[c]
        /\ \A q \in D \ {n, c} : h1[q] = h[q]
        /\ h1 \in [D \ {c} -> [key : Int, left : Pointer, right : Pointer, height : Nat]]
    BY <1>2, <1>3 DEF Freed
  <1>5. AvlHeap(h1)
    BY <1>3, <1>4 DEF AvlHeap
  <1>6. PICK h2 : h2 = HeightSet(h1, n)
    OBVIOUS
  <1>7. h1[n].left = NULL /\ h1[n].right = NULL /\ height(h1, NULL) = 0
    BY <1>4 DEF height
  <1>8. /\ h2 = [h1 EXCEPT ![n].height = 1]
    BY <1>6, <1>7 DEF HeightSet, max
  <1>9. /\ DOMAIN h2 = D \ {c} /\ AvlHeap(h2)
        /\ h2[n].key = h[c].key /\ h2[n].height = 1
        /\ h2[n].left = NULL /\ h2[n].right = NULL
        /\ \A q \in D \ {n, c} : h2[q] = h[q]
    <2>1. \A q \in D \ {n, c} : h2[q] = h1[q]
      BY <1>4, <1>8
    <2>2. /\ h2[n].key = h1[n].key /\ h2[n].height = 1
          /\ h2[n].left = h1[n].left /\ h2[n].right = h1[n].right
      BY <1>3, <1>4, <1>8
    <2>3. /\ DOMAIN h2 = D \ {c}
          /\ h2 \in [D \ {c} -> [key : Int, left : Pointer, right : Pointer, height : Nat]]
      BY <1>4, <1>8
    <2> QED
      BY <1>3, <1>4, <1>7, <2>1, <2>2, <2>3 DEF AvlHeap
  <1>10. getBalance(h2, n) = 0
    BY <1>3, <1>9 DEF getBalance, height
  <1>11. BalancedAfterDelete(h1, n) = [h |-> h2, p |-> n]
    BY <1>6, <1>10 DEF BalancedAfterDelete
  <1>12. Unlinked(h, n) = [h |-> h2, p |-> n]
    BY <1>2, <1>3, <1>11 DEF Unlinked
  <1> QED
    BY <1>1, <1>9, <1>12

(* A node with one child takes over the child's contents.                  *)
LEMMA ChildUnlinked ==
    ASSUME NEW h, NEW fs \in Seq(Frame), NEW r, NEW S, NEW n, NEW t,
           Unlinkable(h, fs, r, S, n, t), NEW c \in DOMAIN h,
           \/ h[n].left = c /\ h[n].right = NULL
           \/ h[n].left = NULL /\ h[n].right = c
    PROVE  UnlinkedWell(h, fs, r, n, Unlinked(h, n).h, n) /\ Unlinked(h, n).p = n
  <1>1. PICK D : D = DOMAIN h
    OBVIOUS
  <1>2. PICK h2 : h2 = Unlinked(h, n).h
    OBVIOUS
  <1>3. PICK L : L = HL(h)
    OBVIOUS
  <1>4. PICK R : R = HR(h)
    OBVIOUS
  <1>5. PICK L2 : L2 = LinksL(h2, fs, n)
    OBVIOUS
  <1>6. PICK R2 : R2 = LinksR(h2, fs, n)
    OBVIOUS
  <1>7. /\ AvlHeap(h) /\ NULL \notin D /\ IsFiniteSet(D) /\ Settled(h, fs, r, S)
        /\ Tree(D, L, R, S, r) /\ Nest(D, L, R, S) /\ Closed(D, L, R, r) /\ Stack(h, fs, r, S)
        /\ n \in D /\ Handed(h, fs, n, r) /\ DOMAIN h \subseteq Address /\ c \in D
        /\ \A p \in DOMAIN h : AvlNode(h, HL(h), HR(h), p)
        /\ \A q \in D : L[q] = h[q].left /\ R[q] = h[q].right
        /\ Ordered(D, L, R, S, KeysIn(h), t) /\ KeysIn(h) \in [D -> Int]
        /\ OneEqual(D, R, S, KeysIn(h), t, n) /\ t \notin S[n]
    BY <1>1, <1>3, <1>4 DEF Unlinkable, Settled, Tree, AvlHeap, HL, HR
  <1>8. /\ c \in {L[n], R[n]} /\ OnlyChild(D, L, R, n, c)
    BY <1>7 DEF OnlyChild
  <1>9. c # n /\ c \in S[n]
    BY <1>7, <1>8, ChildBelow
  <1>10. h[c].left = NULL /\ h[c].right = NULL /\ h[n].height = 2
    <2>1. Closed(DOMAIN h, HL(h), HR(h), r) /\ NULL \notin DOMAIN h /\ n \in DOMAIN h
      BY <1>1, <1>3, <1>4, <1>7
    <2> QED
      BY <1>7, <2>1, OnlyChildIsLeaf
  <1>11. /\ Unlinked(h, n).p = n /\ AvlHeap(h2) /\ DOMAIN h2 = D \ {c}
         /\ \A q \in D \ {n, c} : h2[q] = h[q]
         /\ h2[n].key = h[c].key /\ h2[n].height = 1
         /\ h2[n].left = NULL /\ h2[n].right = NULL
    BY <1>1, <1>2, <1>7, <1>9, <1>10, ChildCopied
  <1>12. FreedAt(h, n, c, h2)
    BY <1>1, <1>7, <1>11 DEF FreedAt
  <1>13. /\ \A q \in D \ {n, c} :
              /\ h[q].left # c /\ h[q].right # c
              /\ h[q].left = n <=> fs # <<>> /\ fs[1].node = q /\ fs[1].at = "left"
              /\ h[q].right = n <=> fs # <<>> /\ fs[1].node = q /\ fs[1].at = "right"
         /\ \A y \in DOMAIN fs : fs[y].node \in D \ {n, c}
    BY <1>1, <1>7, <1>9, <1>12, LinksElsewhere
  <1>14. \A q \in D \ {n, c} : L2[q] = h[q].left /\ R2[q] = h[q].right
    BY <1>5, <1>6, <1>11, <1>13 DEF LinksL, LinksR
  <1>15. L2[n] = NULL /\ R2[n] = NULL
    <2>1. fs # <<>> => fs[1].node # n
      BY <1>13
    <2> QED
      BY <1>5, <1>6, <1>7, <1>9, <1>11, <2>1 DEF LinksL, LinksR
  <1>16. Absorbed(D, L, R, n, c, L2, R2)
    BY <1>7, <1>10, <1>14, <1>15 DEF Absorbed
  <1>17. PICK S2 : S2 = Without(D, S, c)
    OBVIOUS
  <1>18. Tree(D \ {c}, L2, R2, S2, r)
    BY <1>7, <1>8, <1>16, <1>17, AbsorbTree
  <1>19. r # c
    BY <1>7, <1>8, RootHasNoParent
  <1>20. Closed(D \ {c}, L2, R2, r)
    BY <1>7, <1>13, <1>14, <1>15, <1>19 DEF Closed
  <1>21. Stack(h2, fs, r, S2)
    BY <1>1, <1>7, <1>11, <1>13, <1>17, StackWithout
  <1>22. Apex(fs, n, r) = r
    BY <1>7 DEF Apex, Handed
  <1>23. PICK K : K = KeysIn(h)
    OBVIOUS
  <1>24. PICK K2 : K2 = KeysIn(h2)
    OBVIOUS
  <1>25. (\A p \in D \ {n, c} : K2[p] = K[p]) /\ K2[n] = K[c]
    BY <1>1, <1>7, <1>9, <1>11, <1>23, <1>24 DEF KeysIn
  <1>26. Ordered(D \ {c}, L2, R2, S2, K2, NULL)
    <2>1. Ordered(D, L, R, S, K, t) /\ K \in [D -> Int] /\ OneEqual(D, R, S, K, t, n) /\ c # t
      BY <1>7, <1>9, <1>23
    <2>2. Ordered(D \ {c}, L2, R2, Without(D, S, c), K2, NULL)
      BY <1>7, <1>8, <1>16, <1>25, <2>1, AbsorbOrder
    <2> QED
      BY <1>17, <2>2
  <1>27. Shape(h2, fs, n, r, S2) /\ InOrder(h2, fs, n, S2, NULL)
    BY <1>5, <1>6, <1>11, <1>18, <1>20, <1>21, <1>22, <1>24, <1>26 DEF Shape, InOrder
  <1>28. Keys(h2) = {h[p].key : p \in D \ {n}}
    <2>1. Keys(h2) = {h2[p].key : p \in D \ {c}}
      BY <1>11 DEF Keys
    <2>2. ASSUME NEW k, k \in Keys(h2) PROVE k \in {h[p].key : p \in D \ {n}}
      <3>1. PICK p \in D \ {c} : k = h2[p].key
        BY <2>1, <2>2
      <3>2. CASE p = n
        BY <1>7, <1>9, <1>11, <3>1, <3>2
      <3>3. CASE p # n
        BY <1>11, <3>1, <3>3
      <3> QED
        BY <3>2, <3>3
    <2>3. ASSUME NEW p \in D \ {n} PROVE h[p].key \in Keys(h2)
      <3>1. CASE p = c
        BY <1>7, <1>9, <1>11, <2>1, <3>1
      <3>2. CASE p # c
        BY <1>11, <2>1, <3>2
      <3> QED
        BY <3>1, <3>2
    <2> QED
      BY <2>2, <2>3
  <1>29. /\ \A p \in D \ {n, c} : \/ AvlNode(h2, L2, R2, p)
                                  \/ fs # <<>> /\ p = fs[1].node
         /\ fs # <<>> => Slack(h2, fs[1], n, Ht(h, n))
    BY <1>1, <1>5, <1>6, <1>7, <1>12, HeightsWithout
  <1>30. AvlNode(h2, L2, R2, n)
    <2>1. Ht(h2, NULL) = 0
      BY <1>7, <1>11 DEF Ht
    <2>2. Even(1, 0, 0)
      BY DEF Even, max
    <2> QED
      BY <1>11, <1>15, <2>1, <2>2 DEF AvlNode
  <1>31. Ht(h, n) = 2 /\ Ht(h2, n) = 1
    BY <1>1, <1>7, <1>9, <1>10, <1>11 DEF Ht
  <1>32. \A p \in DOMAIN h2 : \/ AvlNode(h2, L2, R2, p)
                              \/ fs # <<>> /\ p = fs[1].node
    BY <1>11, <1>29, <1>30
  <1>33. fs # <<>> => \E old \in Nat : Slack(h2, fs[1], n, old) /\ Ht(h2, n) \in {old, old - 1}
    BY <1>29, <1>31
  <1> QED
    BY <1>1, <1>2, <1>5, <1>6, <1>7, <1>9, <1>11, <1>27, <1>28, <1>32, <1>33 DEF UnlinkedWell

(* Both ways to take a node out.                                           *)
LEMMA UnlinkKeeps ==
    ASSUME IInv, program = "avl", Unlink
    PROVE  IInv'
  <1>1. /\ pc = "delete" /\ pc' = "deleteReturns" /\ key' = key
        /\ program' = program /\ root' = root /\ frames' = frames
        /\ p_current' = p_current /\ members' = members
        /\ node # NULL /\ key = heap[node].key
        /\ NULL \in {heap[node].left, heap[node].right}
        /\ heap' = Unlinked(heap, node).h /\ node' = Unlinked(heap, node).p
    BY DEF Unlink, Found
  <1>2. PICK S, t : TreeKept(S) /\ KeysKept(S, t)
    BY <1>1 DEF IInv
  <1>3. /\ frames \in Seq(Frame) /\ Settled(heap, frames, root, S)
        /\ Handed(heap, frames, node, root) /\ node \in DOMAIN heap
        /\ Ordered(DOMAIN heap, HL(heap), HR(heap), S, KeysIn(heap), t)
        /\ \A p \in DOMAIN heap : AvlNode(heap, HL(heap), HR(heap), p)
    BY <1>1, <1>2, DownFacts
  <1>4. /\ AvlHeap(heap) /\ NULL \notin DOMAIN heap /\ IsFiniteSet(DOMAIN heap)
        /\ KeysIn(heap) \in [DOMAIN heap -> Int]
    BY InvFacts
  <1>5. /\ heap[node].left \in DOMAIN heap \cup {NULL}
        /\ heap[node].right \in DOMAIN heap \cup {NULL}
    BY <1>3 DEF Settled, Closed, HL, HR
  <1>6. \/ t = NULL /\ Keys(heap) \ {key} = members
        \/ Keys(heap) = members /\ SuccessorBelow(heap, node, key, S, t)
    BY <1>1, <1>2 DEF KeysKept
  <1>7. Tree(DOMAIN heap, HL(heap), HR(heap), S, root)
    BY <1>3 DEF Settled
  <1>8. /\ {heap[p].key : p \in DOMAIN heap \ {node}} = members
        /\ OneEqual(DOMAIN heap, HR(heap), S, KeysIn(heap), t, node)
        /\ t \notin S[node]
    BY <1>1, <1>3, <1>4, <1>6, <1>7, KeysUnlinked
  <1>9. Unlinkable(heap, frames, root, S, node, t)
    BY <1>3, <1>4, <1>8 DEF Unlinkable
  <1>10. UnlinkedWell(heap, frames, root, node, heap', node')
    <2>1. CASE heap[node].left = NULL /\ heap[node].right = NULL
      <3>1. Unlinked(heap, node) = [h |-> Freed(heap, node), p |-> NULL]
        BY <2>1 DEF Unlinked
      <3>2. heap' = Freed(heap, node) /\ node' = NULL
        BY <1>1, <3>1
      <3> QED
        BY <1>3, <1>9, <2>1, <3>2, LeafUnlinked
    <2>2. CASE heap[node].left # NULL \/ heap[node].right # NULL
      <3>1. PICK c \in DOMAIN heap : \/ heap[node].left = c /\ heap[node].right = NULL
                                     \/ heap[node].left = NULL /\ heap[node].right = c
        BY <1>1, <1>5, <2>2
      <3>2. /\ UnlinkedWell(heap, frames, root, node, Unlinked(heap, node).h, node)
            /\ Unlinked(heap, node).p = node
        BY <1>3, <1>9, <3>1, ChildUnlinked
      <3> QED
        BY <1>1, <3>2
    <2> QED
      BY <2>1, <2>2
  <1>11. TreeTypeOK'
    <2>1. AvlHeap(heap') /\ node' \in DOMAIN heap' \cup {NULL}
      BY <1>10 DEF UnlinkedWell
    <2>2. node' \in Pointer
      BY <2>1 DEF AvlHeap, Pointer
    <2>3. heap' \in [DOMAIN heap' -> NodeType'] /\ DOMAIN heap' \subseteq Address
      BY <1>1, <2>1 DEF AvlHeap, NodeType
    <2> QED
      BY <1>1, <2>2, <2>3 DEF IInv, TreeTypeOK
  <1>12. PICK S2 : Shape(heap', frames, node', root, S2) /\ InOrder(heap', frames, node', S2, NULL)
    BY <1>10 DEF UnlinkedWell
  <1>13. TreeKept(S2)'
    BY <1>1, <1>12 DEF TreeKept
  <1>14. KeysKept(S2, NULL)'
    <2>1. Keys(heap') = members
      BY <1>8, <1>10 DEF UnlinkedWell
    <2> QED
      BY <1>1, <1>12, <2>1 DEF KeysKept
  <1>15. HeightsKept'
    BY <1>1, <1>10 DEF UnlinkedWell, HeightsKept
  <1> QED
    BY <1>1, <1>11, <1>13, <1>14, <1>15 DEF IInv

-----------------------------------------------------------------------------
(* Deletion of a node with two children goes on with its successor.        *)
(* The key of c is in n too.                                               *)
CopiedTo(h, c, n, h2) ==
    /\ DOMAIN h2 = DOMAIN h /\ h2[n].key = h[c].key /\ h2[n].right = h[n].right
    /\ \A q \in DOMAIN h \ {n} : h2[q].key = h[q].key

(* The order and the shape with the successor's key in two places.         *)
LEMMA KeyCopied ==
    ASSUME NEW h, IsFiniteSet(DOMAIN h), NULL \notin DOMAIN h, KeysIn(h) \in [DOMAIN h -> Int],
           NEW S, NEW r, Tree(DOMAIN h, HL(h), HR(h), S, r),
           Ordered(DOMAIN h, HL(h), HR(h), S, KeysIn(h), NULL),
           NEW n \in DOMAIN h, h[n].left \in DOMAIN h, h[n].right \in DOMAIN h,
           NEW c, MinimumSoFar(h, n, c, S), h[c].left = NULL,
           NEW h2, CopiedTo(h, c, n, h2)
    PROVE  /\ Ordered(DOMAIN h, HL(h), HR(h), S, KeysIn(h2), n)
           /\ SuccessorBelow(h2, h[n].right, h[c].key, S, n)
           /\ Keys(h2) = {h[p].key : p \in DOMAIN h \ {n}}
  <1>1. PICK D : D = DOMAIN h
    OBVIOUS
  <1>2. PICK L : L = HL(h)
    OBVIOUS
  <1>3. PICK R : R = HR(h)
    OBVIOUS
  <1>4. PICK K : K = KeysIn(h)
    OBVIOUS
  <1>5. PICK K2 : K2 = KeysIn(h2)
    OBVIOUS
  <1>6. PICK m \in D : m = h[n].right
    BY <1>1
  <1>7. /\ IsFiniteSet(D) /\ NULL \notin D /\ K \in [D -> Int]
        /\ Nest(D, L, R, S) /\ Ordered(D, L, R, S, K, NULL)
        /\ \A q \in D : L[q] = h[q].left /\ R[q] = h[q].right
        /\ \A q \in D : K[q] = h[q].key
        /\ n \in D /\ R[n] = m
    BY <1>1, <1>2, <1>3, <1>4, <1>6 DEF Tree, HL, HR, KeysIn
  <1>8. /\ c \in S[m] /\ c \in D /\ S[m] \subseteq S[n] /\ n \notin S[m] /\ S[m] \subseteq D
        /\ n \in S[n] /\ m \in S[m]
    <2>1. c \in S[m]
      BY <1>6 DEF MinimumSoFar
    <2>2. S[m] \subseteq D
      BY <1>7 DEF Nest
    <2> QED
      BY <1>7, <2>1, <2>2, ChildBelow
  <1>9. c # n /\ Below(D, S, m) = S[m] /\ c \in S[n]
    BY <1>8 DEF Below
  <1>10. (\A q \in D \ {n} : K2[q] = K[q]) /\ K2[n] = K[c]
    BY <1>1, <1>5, <1>7, <1>8 DEF KeysIn, CopiedTo
  <1>11. \A q \in D : K[q] \in Int
    BY <1>7
  <1>12. \A q \in S[m] : q = c \/ K[c] < K[q]
    <2>1. ASSUME NEW q \in S[m], q # c PROVE K[c] < K[q]
      <3>1. q \in S[c] \/ K[c] < K[q]
        BY <1>6, <1>7, <1>8 DEF MinimumSoFar
      <3>2. CASE q \in S[c]
        <4>1. q \in Below(D, S, L[c]) \/ q \in Below(D, S, R[c])
          BY <1>7, <1>8, <2>1, <3>2 DEF Nest
        <4>2. Below(D, S, L[c]) = {}
          BY <1>7, <1>8 DEF Below
        <4> QED
          BY <1>7, <1>8, <4>1, <4>2 DEF Ordered
      <3> QED
        BY <3>1, <3>2
    <2> QED
      BY <2>1
  <1>13. K[n] < K[c]
    BY <1>7, <1>8, <1>9 DEF Ordered
  <1>14. ASSUME NEW x, n \in Below(D, S, x) PROVE c \in Below(D, S, x)
    <2>1. x \in D /\ n \in S[x]
      BY <1>14 DEF Below
    <2>2. S[n] \subseteq S[x]
      BY <1>7, <2>1, BelowBelow
    <2> QED
      BY <1>9, <2>1, <2>2 DEF Below
  <1>15. ASSUME NEW p \in D
         PROVE  /\ \A q \in Below(D, S, L[p]) : K2[q] < K2[p]
                /\ \A q \in Below(D, S, R[p]) :
                     K2[p] < K2[q] \/ (p = n /\ K2[p] = K2[q])
    <2>1. /\ \A q \in Below(D, S, L[p]) : q \in D /\ q # p /\ K[q] < K[p]
          /\ \A q \in Below(D, S, R[p]) : q \in D /\ q # p /\ K[p] < K[q]
      BY <1>7 DEF Ordered, Nest, Below
    <2>2. CASE p = n
      <3>1. ASSUME NEW q \in Below(D, S, L[n]) PROVE K2[q] < K2[n]
        <4>1. q \in D \ {n} /\ K[q] < K[n]
          BY <2>1, <2>2
        <4>2. K2[q] = K[q] /\ K2[n] = K[c]
          BY <1>10, <4>1
        <4>3. K[q] \in Int /\ K[n] \in Int /\ K[c] \in Int
          BY <1>7, <1>8, <1>11, <4>1
        <4> QED
          BY <1>13, <4>1, <4>2, <4>3
      <3>2. ASSUME NEW q \in Below(D, S, R[n]) PROVE K2[n] < K2[q] \/ K2[n] = K2[q]
        <4>1. q \in D \ {n} /\ q \in S[m]
          BY <1>7, <1>9, <2>1, <2>2
        <4> QED
          BY <1>10, <1>12, <4>1
      <3> QED
        BY <2>2, <3>1, <3>2
    <2>3. CASE p # n
      <3>1. ASSUME NEW q \in Below(D, S, L[p]) PROVE K2[q] < K2[p]
        <4>1. CASE q = n
          <5>1. c \in Below(D, S, L[p])
            BY <1>14, <4>1
          <5>2. K[c] < K[p]
            BY <2>1, <5>1
          <5> QED
            BY <1>10, <2>3, <4>1, <5>2
        <4>2. CASE q # n
          BY <1>10, <2>1, <2>3, <4>2
        <4> QED
          BY <4>1, <4>2
      <3>2. ASSUME NEW q \in Below(D, S, R[p]) PROVE K2[p] < K2[q]
        <4>1. CASE q = n
          <5>1. c \in Below(D, S, R[p])
            BY <1>14, <4>1
          <5>2. K[p] < K[c]
            BY <2>1, <5>1
          <5> QED
            BY <1>10, <2>3, <4>1, <5>2
        <4>2. CASE q # n
          BY <1>10, <2>1, <2>3, <4>2
        <4> QED
          BY <4>1, <4>2
      <3> QED
        BY <2>3, <3>1, <3>2
    <2> QED
      BY <2>2, <2>3
  <1>16. Ordered(D, L, R, S, K2, n)
    BY <1>15 DEF Ordered
  <1>17. SuccessorBelow(h2, m, h[c].key, S, n)
    <2>1. /\ n \in DOMAIN h2 /\ h2[n].key = h[c].key /\ DOMAIN h2 = D
          /\ Below(D, S, m) \subseteq Below(D, S, h2[n].right)
      BY <1>1, <1>6, <1>7 DEF CopiedTo
    <2>2. ASSUME NEW q \in Below(D, S, m) PROVE h[c].key <= h2[q].key
      <3>1. q \in D \ {n} /\ q \in S[m]
        BY <1>8, <1>9
      <3>2. h2[q].key = K[q] /\ h[c].key = K[c]
        BY <1>1, <1>7, <1>8, <3>1 DEF CopiedTo
      <3>3. K[q] \in Int /\ K[c] \in Int /\ (q = c \/ K[c] < K[q])
        BY <1>8, <1>11, <1>12, <3>1
      <3> QED
        BY <3>2, <3>3
    <2>3. c \in Below(D, S, m) /\ h2[c].key = h[c].key
      BY <1>1, <1>8, <1>9 DEF CopiedTo
    <2> QED
      BY <2>1, <2>2, <2>3 DEF SuccessorBelow
  <1>18. Keys(h2) = {h[p].key : p \in D \ {n}}
    <2>1. \A p \in D : \E q \in D \ {n} : h2[p].key = h[q].key
      BY <1>1, <1>8, <1>9 DEF CopiedTo
    <2>2. \A q \in D \ {n} : h2[q].key = h[q].key
      BY <1>1 DEF CopiedTo
    <2> QED
      BY <1>1, <2>1, <2>2 DEF Keys, CopiedTo
  <1> QED
    BY <1>1, <1>2, <1>3, <1>5, <1>6, <1>16, <1>17, <1>18

(* Only keys have changed.                                                 *)
LEMMA SameLinks ==
    ASSUME NEW h, NEW h2, DOMAIN h2 = DOMAIN h,
           \A q \in DOMAIN h : h2[q].left = h[q].left /\ h2[q].right = h[q].right,
           NEW fs \in Seq(Frame), NEW n, NEW r, NEW S, Shape(h, fs, n, r, S), Handed(h, fs, n, r)
    PROVE  /\ Shape(h2, fs, n, r, S) /\ Handed(h2, fs, n, r)
           /\ LinksL(h2, fs, n) = LinksL(h, fs, n) /\ LinksR(h2, fs, n) = LinksR(h, fs, n)
  <1>1. LinksL(h2, fs, n) = LinksL(h, fs, n) /\ LinksR(h2, fs, n) = LinksR(h, fs, n)
    BY DEF LinksL, LinksR
  <1>2. \A f : f.node \in DOMAIN h => Link(h2, f) = Link(h, f)
    BY DEF Link
  <1>3. \A x \in DOMAIN fs : fs[x].node \in DOMAIN h
    BY DEF Shape, Stack
  <1>4. Stack(h2, fs, r, S)
    <2>1. ASSUME NEW x \in 2..Len(fs) PROVE Link(h2, fs[x]) = fs[x - 1].node
      <3>1. Stack(h, fs, r, S)
        BY DEF Shape
      <3>2. Link(h, fs[x]) = fs[x - 1].node
        BY <3>1 DEF Stack
      <3>3. CASE fs[x].node \in DOMAIN h
        BY <1>2, <3>2, <3>3
      <3>4. fs[x].node \in DOMAIN h
        BY <1>3
      <3> QED
        BY <3>3, <3>4
    <2> QED
      BY <1>3, <2>1 DEF Shape, Stack
  <1>5. Handed(h2, fs, n, r)
    <2>1. CASE fs = <<>>
      BY <2>1 DEF Handed
    <2>2. CASE fs # <<>>
      <3>1. 1 \in DOMAIN fs
        BY <2>2
      <3> QED
        BY <1>2, <1>3, <2>2, <3>1 DEF Handed
    <2> QED
      BY <2>1, <2>2
  <1> QED
    BY <1>1, <1>4, <1>5 DEF Shape

(* The successor's key moves up, and its own node is the next to be        *)
(* deleted.                                                                *)
LEMMA DeleteSuccessorKeeps ==
    ASSUME IInv, program = "avl", DeleteSuccessor
    PROVE  IInv'
  <1>1. PICK n : n = node
    OBVIOUS
  <1>2. PICK c : c = p_current
    OBVIOUS
  <1>3. PICK f : f = [node |-> n, at |-> "right"]
    OBVIOUS
  <1>4. /\ pc = "minimum" /\ pc' = "delete" /\ key' = heap[c].key
        /\ heap[c].left = NULL
        /\ program' = program /\ root' = root /\ members' = members
        /\ p_current' = p_current /\ frames' = <<f>> \o frames
        /\ heap' = [heap EXCEPT ![n].key = heap[c].key]
        /\ node' = heap[n].right
    BY <1>1, <1>2, <1>3 DEF DeleteSuccessor, Descend
  <1>5. PICK S, t : TreeKept(S) /\ KeysKept(S, t)
    BY <1>4 DEF IInv
  <1>6. /\ frames \in Seq(Frame) /\ Settled(heap, frames, root, S)
        /\ Shape(heap, frames, n, root, S) /\ Handed(heap, frames, n, root)
        /\ Ordered(DOMAIN heap, HL(heap), HR(heap), S, KeysIn(heap), t)
        /\ \A p \in DOMAIN heap : AvlNode(heap, HL(heap), HR(heap), p)
    BY <1>1, <1>4, <1>5, DownFacts
  <1>7. /\ AvlHeap(heap) /\ NULL \notin DOMAIN heap /\ IsFiniteSet(DOMAIN heap)
        /\ KeysIn(heap) \in [DOMAIN heap -> Int] /\ DOMAIN heap \subseteq Address
    BY InvFacts
  <1>8. /\ t = NULL /\ Keys(heap) \ {key} = members
        /\ n \in DOMAIN heap /\ heap[n].key = key
        /\ heap[n].left \in DOMAIN heap /\ heap[n].right \in DOMAIN heap
        /\ MinimumSoFar(heap, n, c, S)
    BY <1>1, <1>2, <1>4, <1>5 DEF KeysKept, MinimumSoFar
  <1>9. Tree(DOMAIN heap, HL(heap), HR(heap), S, root)
    BY <1>6 DEF Settled
  <1>10. PICK m : m = heap[n].right
    OBVIOUS
  <1>11. PICK next \in Int : next = heap[c].key
    <2>1. c \in DOMAIN heap
      BY <1>8, <1>9 DEF MinimumSoFar, Tree, Nest
    <2> QED
      BY <2>1, InvFacts
  <1>12. PICK fs : fs = <<f>> \o frames
    OBVIOUS
  <1>13. f \in Frame /\ f.node = n /\ Link(heap, f) = m
    BY <1>3, <1>7, <1>8, <1>10 DEF Frame, Link
  <1>14. fs \in Seq(Frame) /\ Shape(heap, fs, m, root, S) /\ Handed(heap, fs, m, root)
    BY <1>6, <1>7, <1>8, <1>12, <1>13, GoDown, InFront
  <1>15. PICK h2 : h2 = heap'
    OBVIOUS
  <1>16. /\ DOMAIN h2 = DOMAIN heap /\ AvlHeap(h2) /\ h2[n].key = next
         /\ \A q \in DOMAIN heap \ {n} : h2[q].key = heap[q].key
         /\ \A q \in DOMAIN heap : /\ h2[q].left = heap[q].left /\ h2[q].right = heap[q].right
                                   /\ h2[q].height = heap[q].height
    <2>1. /\ h2 = [heap EXCEPT ![n].key = next]
          /\ heap \in [DOMAIN heap -> [key : Int, left : Pointer, right : Pointer, height : Nat]]
      BY <1>4, <1>7, <1>11, <1>15 DEF AvlHeap
    <2>2. /\ DOMAIN h2 = DOMAIN heap
          /\ h2 \in [DOMAIN heap -> [key : Int, left : Pointer, right : Pointer, height : Nat]]
      BY <2>1
    <2>3. /\ h2[n].key = next
          /\ \A q \in DOMAIN heap \ {n} : h2[q].key = heap[q].key
          /\ \A q \in DOMAIN heap : /\ h2[q].left = heap[q].left /\ h2[q].right = heap[q].right
                                    /\ h2[q].height = heap[q].height
      BY <1>8, <2>1
    <2> QED
      BY <1>7, <2>2, <2>3 DEF AvlHeap
  <1>17. /\ Shape(h2, fs, m, root, S) /\ Handed(h2, fs, m, root)
         /\ LinksL(h2, fs, m) = HL(heap) /\ LinksR(h2, fs, m) = HR(heap)
    <2>1. LinksL(heap, fs, m) = HL(heap) /\ LinksR(heap, fs, m) = HR(heap)
      BY <1>14, HandedLinks
    <2> QED
      BY <1>14, <1>16, <2>1, SameLinks
  <1>18. /\ Ordered(DOMAIN heap, HL(heap), HR(heap), S, KeysIn(h2), n)
         /\ SuccessorBelow(h2, m, next, S, n)
         /\ Keys(h2) = {heap[p].key : p \in DOMAIN heap \ {n}}
    <2>1. CopiedTo(heap, c, n, h2)
      BY <1>8, <1>11, <1>16 DEF CopiedTo
    <2>2. Ordered(DOMAIN heap, HL(heap), HR(heap), S, KeysIn(heap), NULL)
      BY <1>6, <1>8
    <2>3. /\ Ordered(DOMAIN heap, HL(heap), HR(heap), S, KeysIn(h2), n)
          /\ SuccessorBelow(h2, heap[n].right, heap[c].key, S, n)
          /\ Keys(h2) = {heap[p].key : p \in DOMAIN heap \ {n}}
      BY <1>4, <1>7, <1>8, <1>9, <2>1, <2>2, KeyCopied
    <2> QED
      BY <1>10, <1>11, <2>3
  <1>19. {heap[p].key : p \in DOMAIN heap \ {n}} = members
    BY <1>6, <1>7, <1>8, <1>9, KeysUnlinked
  <1>20. TreeTypeOK'
    <2>1. h2 \in [DOMAIN h2 -> NodeType'] /\ DOMAIN h2 \subseteq Address
      BY <1>4, <1>16 DEF AvlHeap, NodeType
    <2>2. m \in Pointer
      BY <1>7, <1>8, <1>10 DEF Pointer
    <2>3. frames' \in Seq([node : Address,
                           at : {"left", "right"} \cup IF pc' = "deleteTree" THEN {"free"} ELSE {}])
      <3>1. (IF pc' = "deleteTree" THEN {"free"} ELSE {}) = {}
        BY <1>4
      <3>2. {"left", "right"} \cup {} = {"left", "right"}
        OBVIOUS
      <3> QED
        BY <1>4, <1>12, <1>14, <3>1, <3>2 DEF Frame
    <2> QED
      BY <1>4, <1>10, <1>11, <1>15, <2>1, <2>2, <2>3 DEF IInv, TreeTypeOK
  <1>21. TreeKept(S)'
    BY <1>4, <1>10, <1>12, <1>15, <1>17 DEF TreeKept
  <1>22. KeysKept(S, n)'
    <2>1. InOrder(h2, fs, m, S, n)
      BY <1>16, <1>17, <1>18 DEF InOrder
    <2>2. Keys(h2) = members
      BY <1>18, <1>19
    <2> QED
      BY <1>4, <1>10, <1>11, <1>12, <1>15, <1>18, <2>1, <2>2 DEF KeysKept
  <1>23. HeightsKept'
    <2>1. \A p \in DOMAIN heap : AvlNode(h2, HL(heap), HR(heap), p)
      <3>1. \A q : Ht(h2, q) = Ht(heap, q)
        BY <1>16 DEF Ht
      <3> QED
        BY <1>6, <1>16, <3>1 DEF AvlNode
    <2> QED
      BY <1>4, <1>10, <1>12, <1>15, <1>16, <1>17, <2>1 DEF HeightsKept
  <1> QED
    BY <1>4, <1>20, <1>21, <1>22, <1>23 DEF IInv

-----------------------------------------------------------------------------
(* deleteTree.                                                             *)
FreeFrame == [node : Address, at : {"left", "right"} \cup {"free"}]

(* The last call goes on to its next step.                                 *)
LEMMA Resumed ==
    ASSUME NEW T, NEW fs \in Seq(T), fs # <<>>, NEW g \in T
    PROVE  /\ <<g>> \o Tail(fs) \in Seq(T) /\ <<g>> \o Tail(fs) # <<>>
           /\ Len(<<g>> \o Tail(fs)) = Len(fs)
           /\ (<<g>> \o Tail(fs))[1] = g
           /\ \A x \in 2..Len(fs) : (<<g>> \o Tail(fs))[x] = fs[x]
  <1>1. /\ Tail(fs) \in Seq(T) /\ Len(Tail(fs)) = Len(fs) - 1 /\ Len(fs) \in Nat \ {0}
        /\ \A x \in 1..Len(fs) - 1 : Tail(fs)[x] = fs[x + 1]
    BY Popped
  <1>2. PICK gs : gs = <<g>> \o Tail(fs)
    OBVIOUS
  <1>3. /\ gs \in Seq(T) /\ gs # <<>> /\ Len(gs) = Len(Tail(fs)) + 1 /\ gs[1] = g
        /\ \A x \in 2..Len(Tail(fs)) + 1 : gs[x] = Tail(fs)[x - 1]
    BY <1>1, <1>2, InFront
  <1>4. ASSUME NEW x \in 2..Len(fs) PROVE gs[x] = fs[x]
    <2>1. x - 1 \in 1..Len(fs) - 1 /\ gs[x] = Tail(fs)[x - 1]
      BY <1>1, <1>3
    <2>2. Tail(fs)[x - 1] = fs[(x - 1) + 1]
      BY <1>1, <2>1
    <2> QED
      BY <2>1, <2>2
  <1> QED
    BY <1>1, <1>2, <1>3, <1>4

(* Where a waiting call went.                                              *)
Entered(h, f) == IF f.at = "right" THEN h[f.node].left ELSE h[f.node].right

(* The calls of deleteTree while a tree is being freed; top says whether   *)
(* the last one runs or waits as well.                                     *)
FreeCalls(h, fs, S, top) ==
    /\ fs # <<>>
    /\ Tree(DOMAIN h, HL(h), HR(h), S, fs[Len(fs)].node)
    /\ \A x \in 1..Len(fs) : fs[x].node \in DOMAIN h
    /\ StillToFree(h, fs[1], top)
    /\ \A x \in 2..Len(fs) :
         StillToFree(h, fs[x], FALSE) /\ fs[x - 1].node = Entered(h, fs[x])
    /\ \A x, y \in 1..Len(fs) :
         x < y => fs[x].node \in S[fs[y].node] /\ fs[y].node \notin S[fs[x].node]
    /\ \A p \in DOMAIN h : \/ (Live(h, h[p].left) /\ Live(h, h[p].right))
                            \/ \E x \in 1..Len(fs) : fs[x].node = p

(* It is what the invariant says of them.                                  *)
LEMMA FreeingFacts ==
    ASSUME NEW h, NEW fs \in Seq(FreeFrame), NEW S
    PROVE  Freeing(h, fs, S) <=> FreeCalls(h, fs, S, TRUE)
  <1>1. DOMAIN fs = 1..Len(fs) /\ Len(fs) \in Nat
    OBVIOUS
  <1>2. ASSUME Freeing(h, fs, S) PROVE FreeCalls(h, fs, S, TRUE)
    <2>1. fs # <<>> /\ Len(fs) \in Nat \ {0}
      BY <1>1, <1>2 DEF Freeing
    <2>2. \A x \in 1..Len(fs) : fs[x].node \in DOMAIN h /\ StillToFree(h, fs[x], x = 1)
      BY <1>1, <1>2 DEF Freeing
    <2>3. StillToFree(h, fs[1], TRUE)
      <3>1. StillToFree(h, fs[1], 1 = 1)
        BY <2>1, <2>2
      <3> QED
        BY <3>1
    <2>4. ASSUME NEW x \in 2..Len(fs) PROVE StillToFree(h, fs[x], FALSE)
      <3>1. StillToFree(h, fs[x], x = 1) /\ (x = 1) = FALSE
        BY <2>1, <2>2
      <3> QED
        BY <3>1
    <2>5. \A x \in 2..Len(fs) : fs[x - 1].node = Entered(h, fs[x])
      BY <1>2 DEF Freeing, Entered
    <2> QED
      BY <1>1, <1>2, <2>1, <2>2, <2>3, <2>4, <2>5 DEF FreeCalls, Freeing, HL, HR
  <1>3. ASSUME FreeCalls(h, fs, S, TRUE) PROVE Freeing(h, fs, S)
    <2>1. ASSUME NEW x \in DOMAIN fs PROVE StillToFree(h, fs[x], x = 1)
      <3>1. CASE x = 1
        <4>1. (x = 1) = TRUE
          BY <3>1
        <4> QED
          BY <1>3, <3>1, <4>1 DEF FreeCalls
      <3>2. CASE x # 1
        <4>1. (x = 1) = FALSE /\ x \in 2..Len(fs)
          BY <1>1, <3>2
        <4> QED
          BY <1>3, <4>1 DEF FreeCalls
      <3> QED
        BY <3>1, <3>2
    <2>2. \A x \in 2..Len(fs) :
            fs[x - 1].node = IF fs[x].at = "right" THEN h[fs[x].node].left
                                                   ELSE h[fs[x].node].right
      BY <1>3 DEF FreeCalls, Entered
    <2> QED
      BY <1>1, <1>3, <2>1, <2>2 DEF FreeCalls, Freeing, HL, HR
  <1> QED
    BY <1>2, <1>3

(* The last call goes on.                                                  *)
LEMMA ResumeKeeps ==
    ASSUME NEW h, NEW fs \in Seq(FreeFrame), NEW S, FreeCalls(h, fs, S, TRUE),
           NEW g \in FreeFrame, g.node = fs[1].node, NEW top, StillToFree(h, g, top)
    PROVE  FreeCalls(h, <<g>> \o Tail(fs), S, top)
  <1>1. PICK gs : gs = <<g>> \o Tail(fs)
    OBVIOUS
  <1>2. /\ fs # <<>> /\ Len(fs) \in Nat \ {0}
        /\ Tree(DOMAIN h, HL(h), HR(h), S, fs[Len(fs)].node)
        /\ \A x \in 1..Len(fs) : fs[x].node \in DOMAIN h
        /\ \A x, y \in 1..Len(fs) :
             x < y => fs[x].node \in S[fs[y].node] /\ fs[y].node \notin S[fs[x].node]
    BY DEF FreeCalls
  <1>3. /\ \A x \in 2..Len(fs) :
             StillToFree(h, fs[x], FALSE) /\ fs[x - 1].node = Entered(h, fs[x])
        /\ \A p \in DOMAIN h : \/ (Live(h, h[p].left) /\ Live(h, h[p].right))
                               \/ \E x \in 1..Len(fs) : fs[x].node = p
    BY DEF FreeCalls
  <1>4. /\ gs \in Seq(FreeFrame) /\ gs # <<>> /\ Len(gs) = Len(fs) /\ gs[1] = g
        /\ \A x \in 2..Len(fs) : gs[x] = fs[x]
    BY <1>1, <1>2, Resumed
  <1>5. \A x \in 1..Len(fs) : gs[x].node = fs[x].node
    BY <1>2, <1>4
  <1>6. Tree(DOMAIN h, HL(h), HR(h), S, gs[Len(gs)].node)
    BY <1>2, <1>4, <1>5
  <1>7. \A x \in 1..Len(gs) : gs[x].node \in DOMAIN h
    BY <1>2, <1>4, <1>5
  <1>8. StillToFree(h, gs[1], top) /\ \A x \in 2..Len(gs) : StillToFree(h, gs[x], FALSE)
    BY <1>3, <1>4
  <1>9. ASSUME NEW x \in 2..Len(gs) PROVE gs[x - 1].node = Entered(h, gs[x])
    <2>1. x \in 2..Len(fs) /\ x - 1 \in 1..Len(fs)
      BY <1>2, <1>4
    <2>2. gs[x - 1].node = fs[x - 1].node
      BY <1>5, <2>1
    <2> QED
      BY <1>3, <1>4, <2>1, <2>2
  <1>10. \A x, y \in 1..Len(gs) :
           x < y => gs[x].node \in S[gs[y].node] /\ gs[y].node \notin S[gs[x].node]
    BY <1>2, <1>4, <1>5
  <1>11. \A p \in DOMAIN h : \/ (Live(h, h[p].left) /\ Live(h, h[p].right))
                             \/ \E x \in 1..Len(gs) : gs[x].node = p
    BY <1>3, <1>4, <1>5
  <1> QED
    <2>1. FreeCalls(h, gs, S, top)
      BY <1>4, <1>6, <1>7, <1>8, <1>9, <1>10, <1>11 DEF FreeCalls
    <2> QED
      BY <1>1, <2>1

(* A call for the child of the last call's node: it links nothing that was *)
(* freed, for no call has been there.                                      *)
LEMMA EnterKeeps ==
    ASSUME NEW h, IsFiniteSet(DOMAIN h), NEW gs \in Seq(FreeFrame), NEW S,
           FreeCalls(h, gs, S, FALSE),
           NEW f \in FreeFrame, f.node \in DOMAIN h, f.at = "left",
           f.node = Entered(h, gs[1])
    PROVE  FreeCalls(h, <<f>> \o gs, S, TRUE)
  <1>0. /\ gs # <<>> /\ Len(gs) \in Nat \ {0}
        /\ Tree(DOMAIN h, HL(h), HR(h), S, gs[Len(gs)].node)
        /\ \A x \in 1..Len(gs) : gs[x].node \in DOMAIN h
        /\ StillToFree(h, gs[1], FALSE)
        /\ \A x \in 2..Len(gs) :
             StillToFree(h, gs[x], FALSE) /\ gs[x - 1].node = Entered(h, gs[x])
        /\ \A x, y \in 1..Len(gs) :
             x < y => gs[x].node \in S[gs[y].node] /\ gs[y].node \notin S[gs[x].node]
        /\ \A p \in DOMAIN h : \/ (Live(h, h[p].left) /\ Live(h, h[p].right))
                                \/ \E x \in 1..Len(gs) : gs[x].node = p
    <2>1. gs # <<>> /\ StillToFree(h, gs[1], FALSE)
      BY DEF FreeCalls
    <2>2. Len(gs) \in Nat \ {0}
      BY <2>1
    <2>3. /\ Tree(DOMAIN h, HL(h), HR(h), S, gs[Len(gs)].node)
          /\ \A x \in 1..Len(gs) : gs[x].node \in DOMAIN h
          /\ \A x, y \in 1..Len(gs) :
               x < y => gs[x].node \in S[gs[y].node] /\ gs[y].node \notin S[gs[x].node]
      BY DEF FreeCalls
    <2>4. /\ \A x \in 2..Len(gs) :
               StillToFree(h, gs[x], FALSE) /\ gs[x - 1].node = Entered(h, gs[x])
          /\ \A p \in DOMAIN h : \/ (Live(h, h[p].left) /\ Live(h, h[p].right))
                                 \/ \E x \in 1..Len(gs) : gs[x].node = p
      BY DEF FreeCalls
    <2> QED
      BY <2>1, <2>2, <2>3, <2>4
  <1>1. PICK es : es = <<f>> \o gs
    OBVIOUS
  <1>2. /\ es \in Seq(FreeFrame) /\ es # <<>> /\ Len(es) = Len(gs) + 1 /\ es[1] = f
        /\ \A x \in 2..Len(gs) + 1 : es[x] = gs[x - 1]
        /\ Len(gs) \in Nat \ {0}
    BY <1>0, <1>1, InFront
  <1>3. PICK D : D = DOMAIN h
    OBVIOUS
  <1>4. PICK c \in D : c = f.node
    BY <1>3
  <1>5. PICK u \in D : u = gs[1].node
    BY <1>0, <1>2, <1>3
  <1>6. Nest(D, HL(h), HR(h), S) /\ c \in {HL(h)[u], HR(h)[u]}
    BY <1>0, <1>3, <1>4, <1>5 DEF Tree, HL, HR, Entered
  <1>7. c \in S[c] /\ c \in S[u] /\ u \notin S[c] /\ S[c] \subseteq S[u] /\ c # u
    BY <1>6, ChildBelow
  <1>8. ASSUME NEW x \in 1..Len(gs)
        PROVE  c \in S[gs[x].node] /\ gs[x].node \notin S[c]
    <2>1. CASE x = 1
      BY <1>5, <1>7, <2>1
    <2>2. CASE x # 1
      <3>1. u \in S[gs[x].node] /\ gs[x].node \notin S[u] /\ gs[x].node \in D
        <4>1. 1 \in 1..Len(gs) /\ 1 < x
          BY <1>2, <2>2
        <4> QED
          BY <1>0, <1>3, <1>5, <4>1
      <3>2. S[u] \subseteq S[gs[x].node]
        BY <1>3, <1>6, <3>1, BelowBelow
      <3> QED
        BY <1>7, <3>1, <3>2
    <2> QED
      BY <2>1, <2>2
  <1>9. Live(h, h[c].left) /\ Live(h, h[c].right)
    <2>1. \A x \in 1..Len(gs) : gs[x].node # c
      BY <1>7, <1>8
    <2> QED
      BY <1>0, <1>3, <2>1
  <1>10. Tree(DOMAIN h, HL(h), HR(h), S, es[Len(es)].node)
    <2>1. Len(es) \in 2..Len(gs) + 1 /\ es[Len(es)] = gs[Len(es) - 1] /\ Len(es) - 1 = Len(gs)
      BY <1>2
    <2> QED
      BY <1>0, <2>1
  <1>11. ASSUME NEW x \in 1..Len(es) PROVE es[x].node \in DOMAIN h
    <2>1. CASE x = 1
      BY <1>2, <2>1
    <2>2. CASE x # 1
      <3>1. x \in 2..Len(gs) + 1 /\ x - 1 \in 1..Len(gs)
        BY <1>2, <2>2
      <3> QED
        BY <1>0, <1>2, <3>1
    <2> QED
      BY <2>1, <2>2
  <1>12. StillToFree(h, es[1], TRUE)
    BY <1>2, <1>4, <1>9 DEF StillToFree
  <1>13. ASSUME NEW x \in 2..Len(es)
         PROVE  StillToFree(h, es[x], FALSE) /\ es[x - 1].node = Entered(h, es[x])
    <2>1. x \in 2..Len(gs) + 1 /\ x - 1 \in 1..Len(gs) /\ es[x] = gs[x - 1]
      BY <1>2
    <2>2. es[x - 1].node = Entered(h, gs[x - 1])
      <3>1. CASE x = 2
        BY <1>0, <1>2, <1>4, <3>1
      <3>2. CASE x # 2
        <4>1. x - 1 \in 2..Len(gs) + 1 /\ x - 1 \in 2..Len(gs)
          BY <1>2, <2>1, <3>2
        <4>2. es[x - 1] = gs[(x - 1) - 1]
          BY <1>2, <4>1
        <4> QED
          BY <1>0, <4>1, <4>2
      <3> QED
        BY <3>1, <3>2
    <2>3. StillToFree(h, gs[x - 1], FALSE)
      <3>1. CASE x = 2
        <4>1. x - 1 = 1
          BY <3>1
        <4> QED
          BY <1>0, <4>1
      <3>2. CASE x # 2
        <4>1. x - 1 \in 2..Len(gs)
          BY <1>2, <2>1, <3>2
        <4> QED
          BY <1>0, <4>1
      <3> QED
        BY <3>1, <3>2
    <2> QED
      BY <2>1, <2>2, <2>3
  <1>14. ASSUME NEW x \in 1..Len(es), NEW y \in 1..Len(es), x < y
         PROVE  es[x].node \in S[es[y].node] /\ es[y].node \notin S[es[x].node]
    <2>1. y \in 2..Len(gs) + 1 /\ y - 1 \in 1..Len(gs) /\ es[y] = gs[y - 1]
      BY <1>2, <1>14
    <2>2. CASE x = 1
      BY <1>2, <1>4, <1>8, <2>1, <2>2
    <2>3. CASE x # 1
      <3>1. x \in 2..Len(gs) + 1 /\ x - 1 \in 1..Len(gs) /\ es[x] = gs[x - 1] /\ x - 1 < y - 1
        BY <1>2, <1>14, <2>3
      <3> QED
        BY <1>0, <2>1, <3>1
    <2> QED
      BY <2>2, <2>3
  <1>15. ASSUME NEW p \in DOMAIN h, ~(Live(h, h[p].left) /\ Live(h, h[p].right))
         PROVE  \E x \in 1..Len(es) : es[x].node = p
    <2>1. PICK x \in 1..Len(gs) : gs[x].node = p
      BY <1>0, <1>15
    <2>2. x + 1 \in 2..Len(gs) + 1 /\ (x + 1) - 1 = x /\ x + 1 \in 1..Len(es)
      BY <1>2
    <2>3. es[x + 1] = gs[x]
      BY <1>2, <2>2
    <2> QED
      BY <2>1, <2>2, <2>3
  <1> QED
    <2>1. FreeCalls(h, es, S, TRUE)
      BY <1>2, <1>10, <1>11, <1>12, <1>13, <1>14, <1>15 DEF FreeCalls
    <2> QED
      BY <1>1, <2>1

(* What is known of the state while deleteTree runs.                       *)
LEMMA DeletingFacts ==
    ASSUME IInv, pc = "deleteTree"
    PROVE  /\ frames \in Seq(FreeFrame) /\ frames # <<>> /\ frames[1] \in FreeFrame
           /\ root = NULL /\ members = {}
           /\ \E S : FreeCalls(heap, frames, S, TRUE)
  <1>1. frames \in Seq(FreeFrame)
    BY DEF IInv, TreeTypeOK, FreeFrame
  <1>2. PICK S : Freeing(heap, frames, S)
    BY DEF IInv
  <1>3. FreeCalls(heap, frames, S, TRUE)
    BY <1>1, <1>2, FreeingFacts
  <1>4. frames # <<>> /\ frames[1] \in FreeFrame
    <2>1. frames # <<>>
      BY <1>3 DEF FreeCalls
    <2>2. 1 \in DOMAIN frames
      BY <1>1, <2>1
    <2> QED
      BY <1>1, <2>1, <2>2
  <1> QED
    BY <1>1, <1>3, <1>4 DEF IInv

(* Only the stack of deleteTree's calls has changed.                       *)
LEMMA FreeStepKeeps ==
    ASSUME IInv, pc = "deleteTree", NEW fs \in Seq(FreeFrame), NEW S,
           FreeCalls(heap, fs, S, TRUE), frames' = fs,
           UNCHANGED <<program, heap, root, members, pc, key, node, p_current>>
    PROVE  IInv'
  <1>1. Freeing(heap, fs, S)
    BY FreeingFacts
  <1>2. TreeTypeOK'
    BY DEF IInv, TreeTypeOK, NodeType, FreeFrame
  <1> QED
    BY <1>1, <1>2 DEF IInv

(* On to the left subtree, ...                                             *)
LEMMA FreeLeftKeeps ==
    ASSUME IInv, FreeLeft
    PROVE  IInv'
  <1>1. PICK f : f = frames[1]
    OBVIOUS
  <1>2. PICK g : g = [f EXCEPT !.at = "right"]
    OBVIOUS
  <1>3. PICK gs : gs = <<g>> \o Tail(frames)
    OBVIOUS
  <1>4. PICK c : c = heap[f.node].left
    OBVIOUS
  <1>5. /\ pc = "deleteTree" /\ f.at = "left" /\ frames' = Enter(c, gs)
        /\ UNCHANGED <<program, heap, root, members, pc, key, node, p_current>>
    BY <1>1, <1>2, <1>3, <1>4 DEF FreeLeft, At, Resume
  <1>6. frames \in Seq(FreeFrame) /\ frames # <<>> /\ f \in FreeFrame
    BY <1>1, <1>5, DeletingFacts
  <1>7. PICK S : FreeCalls(heap, frames, S, TRUE)
    BY <1>5, DeletingFacts
  <1>8. /\ IsFiniteSet(DOMAIN heap) /\ NULL \notin DOMAIN heap /\ DOMAIN heap \subseteq Address
    BY InvFacts
  <1>9. g \in FreeFrame /\ g.node = f.node /\ g.at = "right"
    BY <1>2, <1>6 DEF FreeFrame
  <1>10. gs \in Seq(FreeFrame) /\ gs[1] = g
    BY <1>3, <1>6, <1>9, Resumed
  <1>11. Live(heap, c) /\ Live(heap, heap[f.node].right)
    BY <1>1, <1>4, <1>5, <1>7 DEF FreeCalls, StillToFree
  <1>12. CASE c = NULL
    <2>1. StillToFree(heap, g, TRUE)
      BY <1>4, <1>8, <1>9, <1>11, <1>12 DEF StillToFree
    <2>2. FreeCalls(heap, gs, S, TRUE)
      BY <1>1, <1>3, <1>6, <1>7, <1>9, <2>1, ResumeKeeps
    <2>3. frames' = gs
      BY <1>5, <1>12 DEF Enter
    <2> QED
      BY <1>5, <1>10, <2>2, <2>3, FreeStepKeeps
  <1>13. CASE c \in DOMAIN heap
    <2>1. StillToFree(heap, g, FALSE)
      BY <1>9, <1>11 DEF StillToFree
    <2>2. FreeCalls(heap, gs, S, FALSE)
      BY <1>1, <1>3, <1>6, <1>7, <1>9, <2>1, ResumeKeeps
    <2>3. PICK e : e = [node |-> c, at |-> "left"]
      OBVIOUS
    <2>4. e \in FreeFrame /\ e.node = c /\ e.at = "left"
      BY <1>8, <1>13, <2>3 DEF FreeFrame
    <2>5. c = Entered(heap, gs[1])
      BY <1>4, <1>9, <1>10 DEF Entered
    <2>6. FreeCalls(heap, <<e>> \o gs, S, TRUE)
      BY <1>8, <1>10, <1>13, <2>2, <2>4, <2>5, EnterKeeps
    <2>7. frames' = <<e>> \o gs /\ <<e>> \o gs \in Seq(FreeFrame)
      <3>1. c # NULL
        BY <1>8, <1>13
      <3> QED
        BY <1>5, <1>10, <2>3, <2>4, <3>1, InFront DEF Enter
    <2> QED
      BY <1>5, <2>6, <2>7, FreeStepKeeps
  <1> QED
    BY <1>11, <1>12, <1>13 DEF Live

(* ... then to the right one, ...                                          *)
LEMMA FreeRightKeeps ==
    ASSUME IInv, FreeRight
    PROVE  IInv'
  <1>1. PICK f : f = frames[1]
    OBVIOUS
  <1>2. PICK g : g = [f EXCEPT !.at = "free"]
    OBVIOUS
  <1>3. PICK gs : gs = <<g>> \o Tail(frames)
    OBVIOUS
  <1>4. PICK c : c = heap[f.node].right
    OBVIOUS
  <1>5. /\ pc = "deleteTree" /\ f.at = "right" /\ frames' = Enter(c, gs)
        /\ UNCHANGED <<program, heap, root, members, pc, key, node, p_current>>
    BY <1>1, <1>2, <1>3, <1>4 DEF FreeRight, At, Resume
  <1>6. frames \in Seq(FreeFrame) /\ frames # <<>> /\ f \in FreeFrame
    BY <1>1, <1>5, DeletingFacts
  <1>7. PICK S : FreeCalls(heap, frames, S, TRUE)
    BY <1>5, DeletingFacts
  <1>8. /\ IsFiniteSet(DOMAIN heap) /\ NULL \notin DOMAIN heap /\ DOMAIN heap \subseteq Address
    BY InvFacts
  <1>9. g \in FreeFrame /\ g.node = f.node /\ g.at = "free"
    BY <1>2, <1>6 DEF FreeFrame
  <1>10. gs \in Seq(FreeFrame) /\ gs[1] = g
    BY <1>3, <1>6, <1>9, Resumed
  <1>11. heap[f.node].left \notin DOMAIN heap /\ Live(heap, c)
    BY <1>1, <1>4, <1>5, <1>7 DEF FreeCalls, StillToFree
  <1>12. CASE c = NULL
    <2>1. StillToFree(heap, g, TRUE)
      BY <1>4, <1>8, <1>9, <1>11, <1>12 DEF StillToFree
    <2>2. FreeCalls(heap, gs, S, TRUE)
      BY <1>1, <1>3, <1>6, <1>7, <1>9, <2>1, ResumeKeeps
    <2>3. frames' = gs
      BY <1>5, <1>12 DEF Enter
    <2> QED
      BY <1>5, <1>10, <2>2, <2>3, FreeStepKeeps
  <1>13. CASE c \in DOMAIN heap
    <2>1. StillToFree(heap, g, FALSE)
      BY <1>9, <1>11 DEF StillToFree
    <2>2. FreeCalls(heap, gs, S, FALSE)
      BY <1>1, <1>3, <1>6, <1>7, <1>9, <2>1, ResumeKeeps
    <2>3. PICK e : e = [node |-> c, at |-> "left"]
      OBVIOUS
    <2>4. e \in FreeFrame /\ e.node = c /\ e.at = "left"
      BY <1>8, <1>13, <2>3 DEF FreeFrame
    <2>5. c = Entered(heap, gs[1])
      BY <1>4, <1>9, <1>10 DEF Entered
    <2>6. FreeCalls(heap, <<e>> \o gs, S, TRUE)
      BY <1>8, <1>10, <1>13, <2>2, <2>4, <2>5, EnterKeeps
    <2>7. frames' = <<e>> \o gs /\ <<e>> \o gs \in Seq(FreeFrame)
      <3>1. c # NULL
        BY <1>8, <1>13
      <3> QED
        BY <1>5, <1>10, <2>3, <2>4, <3>1, InFront DEF Enter
    <2> QED
      BY <1>5, <2>6, <2>7, FreeStepKeeps
  <1> QED
    BY <1>11, <1>12, <1>13 DEF Live

(* main frees the whole tree.                                              *)
LEMMA FreeBeginsKeeps ==
    ASSUME IInv, FreeBegins
    PROVE  IInv'
  <1>1. PICK e : e = [node |-> root, at |-> "left"]
    OBVIOUS
  <1>2. /\ pc = "idle" /\ root # NULL /\ pc' = "deleteTree" /\ frames' = <<e>> \o <<>>
        /\ root' = NULL /\ members' = {}
        /\ UNCHANGED <<program, heap, key, node, p_current>>
    BY <1>1 DEF FreeBegins, Enter
  <1>3. PICK S, t : TreeKept(S) /\ KeysKept(S, t)
    BY <1>2 DEF IInv
  <1>4. Tree(DOMAIN heap, HL(heap), HR(heap), S, root) /\ Closed(DOMAIN heap, HL(heap), HR(heap), root)
    <2>1. Shape(heap, <<>>, root, root, S)
      BY <1>2, <1>3 DEF TreeKept
    <2>2. Handed(heap, <<>>, root, root) /\ <<>> \in Seq(Frame)
      BY DEF Handed
    <2>3. Settled(heap, <<>>, root, S)
      BY <2>1, <2>2, HandedSettled
    <2> QED
      BY <2>3 DEF Settled
  <1>5. PICK fs : fs = <<e>> \o <<>>
    OBVIOUS
  <1>6. root \in DOMAIN heap /\ DOMAIN heap \subseteq Address
    BY <1>2, <1>4, InvFacts DEF Closed
  <1>7. e \in FreeFrame /\ e.node = root /\ e.at = "left"
    BY <1>1, <1>6 DEF FreeFrame
  <1>8. fs \in Seq(FreeFrame) /\ fs # <<>> /\ Len(fs) = 1 /\ fs[1] = e
    <2>1. <<>> \in Seq(FreeFrame) /\ Len(<<>>) = 0
      OBVIOUS
    <2> QED
      BY <1>5, <1>7, <2>1, InFront
  <1>9. \A p \in DOMAIN heap : Live(heap, heap[p].left) /\ Live(heap, heap[p].right)
    BY <1>4 DEF Closed, HL, HR, Live
  <1>10. FreeCalls(heap, fs, S, TRUE)
    <2>1. StillToFree(heap, fs[1], TRUE)
      BY <1>6, <1>7, <1>8, <1>9 DEF StillToFree
    <2>2. Tree(DOMAIN heap, HL(heap), HR(heap), S, fs[Len(fs)].node)
      BY <1>4, <1>7, <1>8
    <2>3. \A x \in 1..Len(fs) : fs[x].node \in DOMAIN heap
      BY <1>6, <1>7, <1>8
    <2>4. \A x \in 2..Len(fs) : FALSE
      BY <1>8
    <2>5. \A x, y \in 1..Len(fs) : ~(x < y)
      BY <1>8
    <2> QED
      BY <1>8, <1>9, <2>1, <2>2, <2>3, <2>4, <2>5 DEF FreeCalls
  <1>11. Freeing(heap, fs, S)
    BY <1>8, <1>10, FreeingFacts
  <1>12. TreeTypeOK'
    <2>1. program = "avl" \/ program = "bst"
      BY InvFacts
    <2>2. fs \in Seq([node : Address, at : {"left", "right"} \cup {"free"}])
      BY <1>8 DEF FreeFrame
    <2>3. fs \in Seq([node : Address,
                      at : {"left", "right"} \cup IF pc' = "deleteTree" THEN {"free"} ELSE {}])
      BY <1>2, <2>2
    <2>4. NULL \in Pointer /\ frames' = fs
      BY <1>2, <1>5 DEF Pointer
    <2> QED
      BY <1>2, <2>3, <2>4 DEF IInv, TreeTypeOK, NodeType
  <1> QED
    BY <1>2, <1>5, <1>11, <1>12 DEF IInv

(* The last call's node is freed: its caller's link leads nowhere then, and*)
(* no other does.                                                          *)
LEMMA PopKeeps ==
    ASSUME NEW h, IsFiniteSet(DOMAIN h), NEW fs \in Seq(FreeFrame), NEW S,
           FreeCalls(h, fs, S, TRUE), fs[1].at = "free", Len(fs) # 1,
           NEW u \in DOMAIN h, u = fs[1].node
    PROVE  FreeCalls(Freed(h, u), Tail(fs), Without(DOMAIN h, S, u), TRUE)
  <1>0. /\ fs # <<>> /\ Len(fs) \in Nat /\ Len(fs) > 1
        /\ Tree(DOMAIN h, HL(h), HR(h), S, fs[Len(fs)].node)
        /\ \A x \in 1..Len(fs) : fs[x].node \in DOMAIN h
        /\ StillToFree(h, fs[1], TRUE)
    <2>1. fs # <<>> /\ StillToFree(h, fs[1], TRUE)
      BY DEF FreeCalls
    <2>2. Len(fs) \in Nat /\ Len(fs) > 1
      <3>1. Len(fs) \in Nat \ {0}
        BY <2>1, Popped
      <3>2. PICK n \in Nat : n = Len(fs)
        BY <3>1
      <3>3. n # 0 /\ n # 1
        BY <3>1, <3>2
      <3>4. n > 1
        BY <3>2, <3>3
      <3> QED
        BY <3>2, <3>4
    <2>3. /\ Tree(DOMAIN h, HL(h), HR(h), S, fs[Len(fs)].node)
          /\ \A x \in 1..Len(fs) : fs[x].node \in DOMAIN h
      BY DEF FreeCalls
    <2> QED
      BY <2>1, <2>2, <2>3
  <1>1. /\ \A x \in 2..Len(fs) :
             StillToFree(h, fs[x], FALSE) /\ fs[x - 1].node = Entered(h, fs[x])
        /\ \A x, y \in 1..Len(fs) :
             x < y => fs[x].node \in S[fs[y].node] /\ fs[y].node \notin S[fs[x].node]
        /\ \A p \in DOMAIN h : \/ (Live(h, h[p].left) /\ Live(h, h[p].right))
                                \/ \E x \in 1..Len(fs) : fs[x].node = p
    BY DEF FreeCalls
  <1>2. PICK D : D = DOMAIN h
    OBVIOUS
  <1>3. PICK h2 : h2 = Freed(h, u)
    OBVIOUS
  <1>4. PICK gs : gs = Tail(fs)
    OBVIOUS
  <1>5. PICK S2 : S2 = Without(D, S, u)
    OBVIOUS
  <1>6. /\ DOMAIN h2 = D \ {u}
        /\ \A p \in D \ {u} : h2[p] = h[p] /\ HL(h2)[p] = HL(h)[p] /\ HR(h2)[p] = HR(h)[p]
        /\ \A p \in D : HL(h)[p] = h[p].left /\ HR(h)[p] = h[p].right
    BY <1>2, <1>3 DEF Freed, HL, HR
  <1>7. /\ gs \in Seq(FreeFrame) /\ Len(gs) = Len(fs) - 1 /\ gs # <<>>
        /\ \A x \in 1..Len(gs) : gs[x] = fs[x + 1] /\ x + 1 \in 2..Len(fs)
    BY <1>0, <1>4, Popped
  <1>8. h[u].left \notin D /\ h[u].right \notin D
    BY <1>0, <1>2 DEF StillToFree
  <1>9. Nest(D, HL(h), HR(h), S) /\ u \in S[u]
    BY <1>0, <1>2 DEF Tree, Nest
  <1>10. ASSUME NEW x \in 2..Len(fs)
         PROVE  fs[x].node \in D \ {u} /\ fs[x] \in FreeFrame
    <2>1. x \in 1..Len(fs) /\ 1 \in 1..Len(fs) /\ 1 < x
      BY <1>0
    <2>2. fs[x].node \notin S[u]
      BY <1>1, <2>1
    <2>3. x \in DOMAIN fs
      BY <2>1
    <2> QED
      BY <1>0, <1>2, <1>9, <2>1, <2>2, <2>3
  <1>11. PICK g : g = fs[2]
    OBVIOUS
  <1>12. /\ g.node \in D \ {u} /\ g \in FreeFrame /\ u = Entered(h, g)
         /\ StillToFree(h, g, FALSE)
    <2>1. 2 \in 2..Len(fs) /\ 2 - 1 = 1
      BY <1>0
    <2> QED
      BY <1>1, <1>10, <1>11, <2>1
  <1>13. PICK r : r = fs[Len(fs)].node
    OBVIOUS
  <1>14. Tree(D, HL(h), HR(h), S, r)
    BY <1>0, <1>2, <1>13
  <1>15. u \in {HL(h)[g.node], HR(h)[g.node]}
    BY <1>6, <1>12 DEF Entered
  <1>16. ASSUME NEW p \in D, u \in {h[p].left, h[p].right} PROVE p = g.node
    <2>1. u \in {HL(h)[p], HR(h)[p]}
      BY <1>6, <1>16
    <2> QED
      BY <1>2, <1>12, <1>14, <1>15, <2>1, OneParent
  <1>17. Tree(DOMAIN h2, HL(h2), HR(h2), S2, gs[Len(gs)].node)
    <2>1. Pruned(D, HL(h), HR(h), u, HL(h2), HR(h2))
      BY <1>6 DEF Pruned
    <2>2. HL(h)[u] \notin D /\ HR(h)[u] \notin D
      BY <1>2, <1>6, <1>8
    <2>3. Tree(D \ {u}, HL(h2), HR(h2), S2, r)
      BY <1>2, <1>5, <1>14, <2>1, <2>2, PruneTree
    <2>4. gs[Len(gs)] = fs[Len(fs)]
      <3>1. Len(gs) \in 1..Len(gs) /\ Len(gs) + 1 = Len(fs)
        BY <1>0, <1>7
      <3> QED
        BY <1>7, <3>1
    <2> QED
      BY <1>6, <1>13, <2>3, <2>4
  <1>18. ASSUME NEW x \in 1..Len(gs) PROVE gs[x].node \in DOMAIN h2
    BY <1>6, <1>7, <1>10
  <1>19. StillToFree(h2, gs[1], TRUE)
    <2>1. gs[1] = g
      <3>1. 1 \in 1..Len(gs) /\ 1 + 1 = 2
        BY <1>0, <1>7
      <3> QED
        BY <1>7, <1>11, <3>1
    <2>2. h2[g.node] = h[g.node]
      BY <1>6, <1>12
    <2>3. g.at # "left"
      BY <1>12 DEF StillToFree
    <2>4. CASE g.at = "right"
      <3>1. h[g.node].left = u /\ Live(h, h[g.node].right)
        BY <1>12, <2>4 DEF Entered, StillToFree
      <3>2. h[g.node].right # u
        <4>1. u = HL(h)[g.node]
          BY <1>6, <1>12, <3>1
        <4>2. u # HR(h)[g.node]
          BY <1>2, <1>9, <1>12, <4>1, OneLink
        <4> QED
          BY <1>6, <1>12, <4>2
      <3>3. h2[g.node].left \notin DOMAIN h2 /\ Live(h2, h2[g.node].right)
        BY <1>2, <1>6, <2>2, <3>1, <3>2 DEF Live
      <3> QED
        BY <2>1, <2>4, <3>3 DEF StillToFree
    <2>5. CASE g.at = "free"
      <3>1. h[g.node].right = u /\ h[g.node].left \notin D
        BY <1>2, <1>12, <2>5 DEF Entered, StillToFree
      <3>2. h2[g.node].left \notin DOMAIN h2 /\ h2[g.node].right \notin DOMAIN h2
        BY <1>6, <2>2, <3>1
      <3> QED
        BY <2>1, <2>5, <3>2 DEF StillToFree
    <2> QED
      BY <1>12, <2>3, <2>4, <2>5 DEF FreeFrame
  <1>20. ASSUME NEW x \in 2..Len(gs)
         PROVE  StillToFree(h2, gs[x], FALSE) /\ gs[x - 1].node = Entered(h2, gs[x])
    <2>1. /\ x \in 1..Len(gs) /\ x - 1 \in 1..Len(gs) /\ x + 1 \in 2..Len(fs)
          /\ (x - 1) + 1 = x /\ (x + 1) - 1 = x /\ x \in 2..Len(fs)
          /\ 2 \in 1..Len(fs) /\ x + 1 \in 1..Len(fs) /\ 2 < x + 1
      BY <1>0, <1>7
    <2>2. PICK f : f = fs[x + 1]
      OBVIOUS
    <2>3. gs[x] = f /\ gs[x - 1] = fs[x] /\ f.node \in D \ {u} /\ f \in FreeFrame
      <3>1. gs[x] = f
        BY <1>7, <2>1, <2>2
      <3>2. gs[x - 1] = fs[(x - 1) + 1]
        BY <1>7, <2>1
      <3> QED
        BY <1>10, <2>1, <2>2, <3>1, <3>2
    <2>4. StillToFree(h, f, FALSE) /\ fs[x].node = Entered(h, f)
      <3>1. StillToFree(h, fs[x + 1], FALSE) /\ fs[(x + 1) - 1].node = Entered(h, fs[x + 1])
        BY <1>1, <2>1
      <3> QED
        BY <2>1, <2>2, <3>1
    <2>5. f.node # g.node
      <3>1. f.node \notin S[g.node]
        BY <1>1, <1>11, <2>1, <2>2
      <3>2. g.node \in S[g.node]
        BY <1>9, <1>12 DEF Nest
      <3> QED
        BY <3>1, <3>2
    <2>6. h2[f.node] = h[f.node] /\ h[f.node].left # u /\ h[f.node].right # u
      BY <1>6, <1>16, <2>3, <2>5
    <2>7. gs[x - 1].node = Entered(h2, gs[x])
      BY <2>3, <2>4, <2>6 DEF Entered
    <2>8. StillToFree(h2, f, FALSE)
      <3>1. CASE f.at = "left"
        BY <2>4, <3>1 DEF StillToFree
      <3>2. CASE f.at = "right"
        <4>1. Live(h, h[f.node].right)
          BY <2>4, <3>2 DEF StillToFree
        <4>2. Live(h2, h2[f.node].right)
          BY <1>2, <1>6, <2>6, <4>1 DEF Live
        <4> QED
          BY <3>2, <4>2 DEF StillToFree
      <3>3. CASE f.at = "free"
        <4>1. h[f.node].left \notin DOMAIN h
          BY <2>4, <3>3 DEF StillToFree
        <4>2. h2[f.node].left \notin DOMAIN h2
          BY <1>2, <1>6, <2>6, <4>1
        <4> QED
          BY <3>3, <4>2 DEF StillToFree
      <3> QED
        BY <2>3, <3>1, <3>2, <3>3 DEF FreeFrame
    <2> QED
      BY <2>3, <2>7, <2>8
  <1>21. ASSUME NEW x \in 1..Len(gs), NEW y \in 1..Len(gs), x < y
         PROVE  gs[x].node \in S2[gs[y].node] /\ gs[y].node \notin S2[gs[x].node]
    <2>1. /\ x + 1 \in 1..Len(fs) /\ y + 1 \in 1..Len(fs) /\ x + 1 < y + 1
          /\ gs[x] = fs[x + 1] /\ gs[y] = fs[y + 1]
      BY <1>0, <1>7, <1>21
    <2>2. gs[x].node \in S[gs[y].node] /\ gs[y].node \notin S[gs[x].node]
      BY <1>1, <2>1
    <2>3. gs[x].node \in D \ {u} /\ gs[y].node \in D \ {u}
      BY <1>6, <1>18
    <2>4. S2[gs[x].node] = S[gs[x].node] \ {u} /\ S2[gs[y].node] = S[gs[y].node] \ {u}
      BY <1>5, <2>3 DEF Without
    <2> QED
      BY <2>2, <2>3, <2>4
  <1>22. ASSUME NEW p \in DOMAIN h2
         PROVE  \/ (Live(h2, h2[p].left) /\ Live(h2, h2[p].right))
                \/ \E x \in 1..Len(gs) : gs[x].node = p
    <2>1. SUFFICES ASSUME \A x \in 1..Len(gs) : gs[x].node # p
                   PROVE  Live(h2, h2[p].left) /\ Live(h2, h2[p].right)
      OBVIOUS
    <2>2. ASSUME NEW x \in 1..Len(fs) PROVE fs[x].node # p
      <3>1. CASE x = 1
        BY <1>6, <3>1
      <3>2. CASE x # 1
        <4>1. x - 1 \in 1..Len(gs) /\ (x - 1) + 1 = x
          BY <1>0, <1>7, <3>2
        <4>2. gs[x - 1] = fs[x]
          BY <1>7, <4>1
        <4> QED
          BY <2>1, <4>1, <4>2
      <3> QED
        BY <3>1, <3>2
    <2>3. Live(h, h[p].left) /\ Live(h, h[p].right)
      BY <1>1, <1>2, <1>6, <2>2
    <2>4. p # g.node
      <3>1. 2 \in 1..Len(fs)
        BY <1>0
      <3> QED
        BY <1>11, <2>2, <3>1
    <2>5. h[p].left # u /\ h[p].right # u
      BY <1>6, <1>16, <2>4
    <2> QED
      BY <1>2, <1>6, <2>3, <2>5 DEF Live
  <1> QED
    <2>1. FreeCalls(h2, gs, S2, TRUE)
      BY <1>7, <1>17, <1>18, <1>19, <1>20, <1>21, <1>22 DEF FreeCalls
    <2> QED
      BY <1>2, <1>3, <1>4, <1>5, <2>1

(* ... and the node itself is freed; with the first call the tree is gone. *)
LEMMA FreeNodeKeeps ==
    ASSUME IInv, FreeNode
    PROVE  IInv'
  <1>1. PICK u : u = frames[1].node
    OBVIOUS
  <1>2. /\ pc = "deleteTree" /\ frames[1].at = "free" /\ heap' = Freed(heap, u)
        /\ frames' = Tail(frames)
        /\ Len(frames) = 1 => pc' = "idle"
        /\ Len(frames) # 1 => pc' = pc
        /\ UNCHANGED <<program, root, members, key, node, p_current>>
    BY <1>1 DEF FreeNode, At
  <1>3. frames \in Seq(FreeFrame) /\ frames # <<>> /\ root = NULL /\ members = {}
    BY <1>2, DeletingFacts
  <1>4. PICK S : FreeCalls(heap, frames, S, TRUE)
    BY <1>2, DeletingFacts
  <1>5. IsFiniteSet(DOMAIN heap) /\ NULL \notin DOMAIN heap
    BY InvFacts
  <1>6. PICK fs : fs = Tail(frames)
    OBVIOUS
  <1>7. /\ fs \in Seq(FreeFrame) /\ Len(frames) \in Nat \ {0}
        /\ fs = <<>> <=> Len(frames) = 1
    BY <1>3, <1>6, Popped
  <1>8. u \in DOMAIN heap /\ heap[u].left \notin DOMAIN heap /\ heap[u].right \notin DOMAIN heap
    <2>1. 1 \in 1..Len(frames)
      BY <1>7
    <2> QED
      BY <1>1, <1>2, <1>4, <2>1 DEF FreeCalls, StillToFree
  <1>9. /\ DOMAIN heap' = DOMAIN heap \ {u}
        /\ \A p \in DOMAIN heap' : heap'[p] = heap[p]
        /\ heap' = [p \in DOMAIN heap' |-> heap'[p]]
    BY <1>2 DEF Freed
  <1>10. /\ DOMAIN heap' \subseteq Address
         /\ heap' \in [DOMAIN heap' -> NodeType']
    <2>1. /\ heap \in [DOMAIN heap -> NodeType] /\ DOMAIN heap \subseteq Address
          /\ NodeType' = NodeType
      BY <1>2 DEF IInv, TreeTypeOK, NodeType
    <2>2. \A p \in DOMAIN heap' : heap'[p] \in NodeType
      BY <1>9, <2>1
    <2> QED
      BY <1>9, <2>1, <2>2
  <1>11. CASE Len(frames) = 1
    <2>1. pc' = "idle" /\ frames' = <<>> /\ root' = NULL /\ members' = {}
      BY <1>2, <1>3, <1>6, <1>7, <1>11
    <2>2. DOMAIN heap' = {}
      <3>1. Tree(DOMAIN heap, HL(heap), HR(heap), S, u)
        BY <1>1, <1>4, <1>11 DEF FreeCalls
      <3>2. S[u] = DOMAIN heap
        BY <1>8, <3>1 DEF Tree, Below
      <3>3. HL(heap)[u] \notin DOMAIN heap /\ HR(heap)[u] \notin DOMAIN heap
        BY <1>8 DEF HL, HR
      <3>4. S[u] = {u}
        BY <1>8, <3>1, <3>3 DEF Tree, Nest, Below
      <3> QED
        BY <1>9, <3>2, <3>4
    <2>3. TreeTypeOK'
      <3>1. <<>> \in Seq([node : Address,
                at : {"left", "right"} \cup IF pc' = "deleteTree" THEN {"free"} ELSE {}])
        OBVIOUS
      <3> QED
        BY <1>2, <1>10, <2>1, <3>1 DEF IInv, TreeTypeOK, Pointer
    <2>4. PICK Z : Z = [p \in {} |-> {}]
      OBVIOUS
    <2>5. TreeKept(Z)'
      <3>1. PICK L, R : L = LinksL(heap', <<>>, NULL) /\ R = LinksR(heap', <<>>, NULL)
        OBVIOUS
      <3>2. Tree({}, L, R, Z, NULL)
        BY <2>4 DEF Tree, Nest, Below
      <3>3. Closed({}, L, R, NULL)
        BY DEF Closed
      <3>4. Stack(heap', <<>>, NULL, Z)
        BY DEF Stack
      <3>5. Shape(heap', <<>>, NULL, NULL, Z)
        BY <2>2, <3>1, <3>2, <3>3, <3>4 DEF Shape, Apex
      <3> QED
        BY <2>1, <3>5 DEF TreeKept
    <2>6. KeysKept(Z, NULL)'
      <3>1. InOrder(heap', <<>>, node', Z, NULL)
        BY <2>2 DEF InOrder, Ordered
      <3>2. Keys(heap') = {}
        BY <2>2 DEF Keys
      <3> QED
        BY <2>1, <3>1, <3>2 DEF KeysKept
    <2>7. HeightsKept'
      BY <2>1, <2>2 DEF HeightsKept
    <2> QED
      BY <2>1, <2>3, <2>5, <2>6, <2>7 DEF IInv
  <1>12. CASE Len(frames) # 1
    <2>1. pc' = "deleteTree" /\ frames' = fs /\ root' = NULL /\ members' = {}
      BY <1>2, <1>3, <1>6, <1>12
    <2>2. FreeCalls(Freed(heap, u), Tail(frames), Without(DOMAIN heap, S, u), TRUE)
      BY <1>1, <1>2, <1>3, <1>4, <1>5, <1>8, <1>12, PopKeeps
    <2>3. PICK Z : FreeCalls(heap', fs, Z, TRUE)
      BY <1>2, <1>6, <2>2
    <2>4. Freeing(heap', fs, Z)
      BY <1>7, <2>3, FreeingFacts
    <2>5. TreeTypeOK'
      <3>1. fs \in Seq([node : Address,
                at : {"left", "right"} \cup IF pc' = "deleteTree" THEN {"free"} ELSE {}])
        <4>1. fs \in Seq([node : Address, at : {"left", "right"} \cup {"free"}])
          BY <1>7 DEF FreeFrame
        <4> QED
          BY <2>1, <4>1
      <3> QED
        BY <1>2, <1>10, <2>1, <3>1 DEF IInv, TreeTypeOK, Pointer
    <2> QED
      BY <2>1, <2>4, <2>5 DEF IInv
  <1> QED
    BY <1>11, <1>12

(* Nothing is allocated at first.                                          *)
LEMMA AtFirst ==
    ASSUME TreeInit
    PROVE  IInv
  <1>1. /\ program \in {"avl", "bst"} /\ heap = [a \in {} |-> NULL] /\ root = NULL
        /\ members = {} /\ pc = "idle" /\ key = 0 /\ node = NULL /\ p_current = NULL
        /\ frames = <<>>
    BY DEF TreeInit, NoTree
  <1>2. DOMAIN heap = {} /\ heap \in [DOMAIN heap -> NodeType]
    BY <1>1
  <1>3. TreeTypeOK
    <2>1. <<>> \in Seq([node : Address,
              at : {"left", "right"} \cup IF pc = "deleteTree" THEN {"free"} ELSE {}])
      OBVIOUS
    <2> QED
      BY <1>1, <1>2, <2>1 DEF TreeTypeOK, Pointer
  <1>4. PICK Z : Z = [p \in {} |-> {}]
    OBVIOUS
  <1>5. TreeKept(Z)
    <2>1. PICK L, R : L = LinksL(heap, <<>>, NULL) /\ R = LinksR(heap, <<>>, NULL)
      OBVIOUS
    <2>2. Tree({}, L, R, Z, NULL)
      BY <1>4 DEF Tree, Nest, Below
    <2>3. Closed({}, L, R, NULL)
      BY DEF Closed
    <2>4. Stack(heap, <<>>, NULL, Z)
      BY DEF Stack
    <2>5. Shape(heap, <<>>, NULL, NULL, Z)
      BY <1>2, <2>1, <2>2, <2>3, <2>4 DEF Shape, Apex
    <2> QED
      BY <1>1, <2>5 DEF TreeKept
  <1>6. KeysKept(Z, NULL)
    <2>1. InOrder(heap, <<>>, node, Z, NULL)
      BY <1>2 DEF InOrder, Ordered
    <2>2. Keys(heap) = {}
      BY <1>2 DEF Keys
    <2> QED
      BY <1>1, <2>1, <2>2 DEF KeysKept
  <1>7. HeightsKept
    BY <1>1, <1>2 DEF HeightsKept
  <1> QED
    BY <1>1, <1>3, <1>5, <1>6, <1>7 DEF IInv

-----------------------------------------------------------------------------
(* Each function of main's, step by step.                                  *)
LEMMA deleteTreeKeeps ==
    ASSUME IInv, deleteTree
    PROVE  IInv'
  <1>1. CASE FreeBegins
    BY <1>1, FreeBeginsKeeps
  <1>2. CASE FreeLeft
    BY <1>2, FreeLeftKeeps
  <1>3. CASE FreeRight
    BY <1>3, FreeRightKeeps
  <1>4. CASE FreeNode
    BY <1>4, FreeNodeKeeps
  <1> QED
    BY <1>1, <1>2, <1>3, <1>4 DEF deleteTree

(* What the two programs put into a new node.                              *)
LEMMA NewLeafOf ==
    ASSUME IInv
    PROVE  /\ program = "bst" => newNode(key) \in NodeType
           /\ program = "avl" => newnode(key) \in NodeType
  <1>1. key \in Int /\ NULL \in Pointer
    BY DEF IInv, TreeTypeOK, Pointer
  <1>2. program = "bst" => newNode(key) \in NodeType
    BY <1>1 DEF newNode, NodeType
  <1>3. program = "avl" => newnode(key) \in NodeType
    BY <1>1 DEF newnode, NodeType
  <1> QED
    BY <1>2, <1>3

(* A step of src/binary.c.                                                 *)
LEMMA BinaryKeeps ==
    ASSUME IInv, BinaryNext
    PROVE  IInv'
  <1>1. program = "bst"
    BY DEF BinaryNext
  <1>2. ASSUME NEW k \in UnbalancedKeys, CallInsert(k) PROVE IInv'
    <2>1. k \in Int
      BY TreeAssumption
    <2> QED
      BY <1>2, <2>1, CallInsertKeeps
  <1>3. CASE NewLeaf(newNode(key))
    <2>1. PICK contents : contents = newNode(key)
      OBVIOUS
    <2>2. contents \in NodeType /\ NewLeaf(contents)
      BY <1>1, <1>3, <2>1, NewLeafOf
    <2>3. contents.key = key /\ contents.left = NULL /\ contents.right = NULL
      BY <2>1 DEF newNode
    <2>4. program = "avl" => contents.height = 1
      BY <1>1
    <2> QED
      BY <2>2, <2>3, <2>4, NewLeafKeeps
  <1>4. CASE Smaller
    BY <1>4, SmallerKeeps
  <1>5. CASE Greater
    BY <1>5, GreaterKeeps
  <1>6. CASE KeyIsThere
    BY <1>6, KeyIsThereKeeps
  <1>7. CASE InsertReturns
    BY <1>1, <1>7, InsertReturnsKeeps
  <1>8. CASE FirstRoot
    BY <1>1, <1>8, FirstRootKeeps
  <1>9. CASE deleteTree
    BY <1>9, deleteTreeKeeps
  <1> QED
    BY <1>2, <1>3, <1>4, <1>5, <1>6, <1>7, <1>8, <1>9 DEF BinaryNext, insert

(* A step of src/balanced_tree.c.                                          *)
LEMMA AVLKeeps ==
    ASSUME IInv, AVLNext
    PROVE  IInv'
  <1>1. program = "avl"
    BY DEF AVLNext
  <1>2. ASSUME NEW k \in TreeKeys, CallInsert(k) \/ CallDelete(k) PROVE IInv'
    <2>1. k \in Int
      BY TreeAssumption
    <2> QED
      BY <1>1, <1>2, <2>1, CallInsertKeeps, CallDeleteKeeps
  <1>3. CASE NewLeaf(newnode(key))
    <2>1. PICK contents : contents = newnode(key)
      OBVIOUS
    <2>2. contents \in NodeType /\ NewLeaf(contents)
      BY <1>1, <1>3, <2>1, NewLeafOf
    <2>3. /\ contents.key = key /\ contents.left = NULL /\ contents.right = NULL
          /\ contents.height = 1
      BY <2>1 DEF newnode
    <2> QED
      BY <2>2, <2>3, NewLeafKeeps
  <1>4. CASE Smaller
    BY <1>4, SmallerKeeps
  <1>5. CASE Greater
    BY <1>5, GreaterKeeps
  <1>6. CASE KeyIsThere
    BY <1>6, KeyIsThereKeeps
  <1>7. CASE InsertnodeReturns
    BY <1>1, <1>7, InsertnodeReturnsKeeps
  <1>8. CASE KeyIsNotThere
    BY <1>1, <1>8, KeyIsNotThereKeeps
  <1>9. CASE Unlink
    BY <1>1, <1>9, UnlinkKeeps
  <1>10. CASE CallMinValuenode
    BY <1>1, <1>10, CallMinValuenodeKeeps
  <1>11. CASE minValuenode
    BY <1>1, <1>11, minValuenodeKeeps
  <1>12. CASE DeleteSuccessor
    BY <1>1, <1>12, DeleteSuccessorKeeps
  <1>13. CASE DeletenodeReturns
    BY <1>1, <1>13, DeletenodeReturnsKeeps
  <1>14. CASE NewRoot
    BY <1>14, BackInMainKeeps DEF NewRoot
  <1>15. CASE DeleteTree
    BY <1>15, deleteTreeKeeps DEF DeleteTree
  <1>16. CASE insertnode
    BY <1>3, <1>4, <1>5, <1>6, <1>7, <1>16 DEF insertnode
  <1>17. CASE deletenode
    BY <1>4, <1>5, <1>8, <1>9, <1>10, <1>11, <1>12, <1>13, <1>17 DEF deletenode
  <1> QED
    BY <1>2, <1>14, <1>15, <1>16, <1>17 DEF AVLNext

(* The invariant is inductive.                                             *)
THEOREM TreesInvariant == TreesSpec => []IInv
  <1>1. TreeInit => IInv
    BY AtFirst
  <1>2. IInv /\ [TreesNext]_treeVars => IInv'
    <2>1. SUFFICES ASSUME IInv, [TreesNext]_treeVars PROVE IInv'
      OBVIOUS
    <2>2. CASE BinaryNext
      BY <2>1, <2>2, BinaryKeeps
    <2>3. CASE AVLNext
      BY <2>1, <2>3, AVLKeeps
    <2>4. CASE UNCHANGED treeVars
      BY <2>1, <2>4 DEF treeVars, IInv, TreeTypeOK, NodeType, TreeKept, KeysKept,
         HeightsKept
    <2> QED
      BY <2>1, <2>2, <2>3, <2>4 DEF TreesNext
  <1> QED
    BY <1>1, <1>2, PTL DEF TreesSpec

-----------------------------------------------------------------------------
(* What the recursive functions of the property compute: there is only one *)
(* S with the nodes below each node, and only one function of the depths.  *)
LEMMA SubtreesAre ==
    ASSUME NEW h, IsFiniteSet(DOMAIN h), NEW S, Nest(DOMAIN h, HL(h), HR(h), S)
    PROVE  Subtrees(h) = S
  <1> DEFINE D == DOMAIN h
             P(s) == s = [p \in DOMAIN h |->
                           {p} \cup (IF h[p].left \in DOMAIN h THEN s[h[p].left] ELSE {})
                               \cup (IF h[p].right \in DOMAIN h THEN s[h[p].right] ELSE {})]
  <1>1. Subtrees(h) = CHOOSE s : P(s)
    BY Zenon DEF Subtrees
  <1>2. P(S)
    <2>1. /\ S = [p \in D |-> S[p]]
          /\ \A p \in D : S[p] = {p} \cup Below(D, S, HL(h)[p]) \cup Below(D, S, HR(h)[p])
      BY DEF Nest
    <2>2. \A p \in D : HL(h)[p] = h[p].left /\ HR(h)[p] = h[p].right
      BY DEF HL, HR
    <2>3. ASSUME NEW p \in D
          PROVE  S[p] = {p} \cup (IF h[p].left \in D THEN S[h[p].left] ELSE {})
                            \cup (IF h[p].right \in D THEN S[h[p].right] ELSE {})
      BY <2>1, <2>2 DEF Below
    <2> QED
      BY <2>1, <2>3
  <1>3. ASSUME NEW s, P(s) PROVE s = S
    <2> DEFINE B == {p \in D : s[p] # S[p]}
    <2>1. DOMAIN s = D /\ s = [p \in D |-> s[p]]
      BY <1>3
    <2>2. ASSUME B # {} PROVE FALSE
      <3>1. PICK p \in B : HL(h)[p] \notin B /\ HR(h)[p] \notin B
        <4>1. B \subseteq D
          OBVIOUS
        <4> HIDE DEF B, P
        <4> QED
          BY <2>2, <4>1, Deepest
      <3>2. HL(h)[p] = h[p].left /\ HR(h)[p] = h[p].right /\ p \in D
        BY DEF HL, HR
      <3>3. /\ h[p].left \in D => s[h[p].left] = S[h[p].left]
            /\ h[p].right \in D => s[h[p].right] = S[h[p].right]
        BY <3>1, <3>2
      <3>4. s[p] = {p} \cup (IF h[p].left \in D THEN s[h[p].left] ELSE {})
                       \cup (IF h[p].right \in D THEN s[h[p].right] ELSE {})
        BY <1>3, <3>2
      <3>5. S[p] = {p} \cup (IF h[p].left \in D THEN S[h[p].left] ELSE {})
                       \cup (IF h[p].right \in D THEN S[h[p].right] ELSE {})
        BY <1>2, <3>2
      <3>6. s[p] = S[p]
        BY <3>3, <3>4, <3>5
      <3> QED
        BY <3>1, <3>6
    <2>3. \A p \in D : s[p] = S[p]
      BY <2>2
    <2>4. S = [p \in D |-> S[p]]
      BY DEF Nest
    <2> QED
      BY <2>1, <2>3, <2>4
  <1> HIDE DEF P
  <1>4. P(CHOOSE s : P(s))
    BY <1>2, Zenon
  <1> QED
    BY <1>1, <1>3, <1>4

(* The depths are the heights, if each node's is right given its           *)
(* children's.                                                             *)
LEMMA DepthsAre ==
    ASSUME NEW h, IsFiniteSet(DOMAIN h), NEW S, Nest(DOMAIN h, HL(h), HR(h), S),
           \A p \in DOMAIN h : h[p].height = 1 + max(Ht(h, h[p].left), Ht(h, h[p].right))
    PROVE  \A q : Depth(h, q) = Ht(h, q)
  <1> DEFINE D == DOMAIN h
             H == [p \in DOMAIN h |-> h[p].height]
             P(d) == d = [p \in DOMAIN h |->
                           1 + max(IF h[p].left \in DOMAIN h THEN d[h[p].left] ELSE 0,
                                   IF h[p].right \in DOMAIN h THEN d[h[p].right] ELSE 0)]
  <1>1. Depths(h) = CHOOSE d : P(d)
    BY Zenon DEF Depths
  <1>2. ASSUME NEW p \in D
        PROVE  /\ (IF h[p].left \in D THEN H[h[p].left] ELSE 0) = Ht(h, h[p].left)
               /\ (IF h[p].right \in D THEN H[h[p].right] ELSE 0) = Ht(h, h[p].right)
               /\ H[p] = h[p].height
    BY DEF Ht
  <1>3. P(H)
    <2>1. ASSUME NEW p \in D
          PROVE  h[p].height =
                   1 + max(IF h[p].left \in D THEN H[h[p].left] ELSE 0,
                           IF h[p].right \in D THEN H[h[p].right] ELSE 0)
      <3>1. h[p].height = 1 + max(Ht(h, h[p].left), Ht(h, h[p].right))
        OBVIOUS
      <3> QED
        BY <1>2, <3>1
    <2> QED
      BY <2>1
  <1>4. ASSUME NEW d, P(d) PROVE d = H
    <2> DEFINE B == {p \in D : d[p] # H[p]}
    <2>1. DOMAIN d = D /\ d = [p \in D |-> d[p]]
      BY <1>4
    <2>2. ASSUME B # {} PROVE FALSE
      <3>1. PICK p \in B : HL(h)[p] \notin B /\ HR(h)[p] \notin B
        <4>1. B \subseteq D
          OBVIOUS
        <4> HIDE DEF B, P, H
        <4> QED
          BY <2>2, <4>1, Deepest
      <3>2. HL(h)[p] = h[p].left /\ HR(h)[p] = h[p].right /\ p \in D
        BY DEF HL, HR
      <3>3. /\ h[p].left \in D => d[h[p].left] = H[h[p].left]
            /\ h[p].right \in D => d[h[p].right] = H[h[p].right]
        BY <3>1, <3>2
      <3>4. d[p] = 1 + max(IF h[p].left \in D THEN d[h[p].left] ELSE 0,
                           IF h[p].right \in D THEN d[h[p].right] ELSE 0)
        BY <1>4, <3>2
      <3>5. H[p] = 1 + max(IF h[p].left \in D THEN H[h[p].left] ELSE 0,
                           IF h[p].right \in D THEN H[h[p].right] ELSE 0)
        BY <1>3, <3>2
      <3>6. d[p] = H[p]
        <4> HIDE DEF H
        <4> QED
          BY <3>3, <3>4, <3>5
      <3> QED
        BY <3>1, <3>6
    <2>3. \A p \in D : d[p] = H[p]
      BY <2>2
    <2> QED
      BY <2>1, <2>3
  <1>5. P(CHOOSE d : P(d))
    <2> HIDE DEF P
    <2> QED
      BY <1>3, Zenon
  <1>6. Depths(h) = H
    <2> HIDE DEF P, H
    <2> QED
      BY <1>1, <1>4, <1>5
  <1> QED
    BY <1>6 DEF Depth, Ht

(* So what the property calls the nodes below a pointer is what S has      *)
(* there.                                                                  *)
LEMMA NodesAre ==
    ASSUME NEW h, IsFiniteSet(DOMAIN h), NEW S, Nest(DOMAIN h, HL(h), HR(h), S)
    PROVE  \A q : Nodes(h, q) = Below(DOMAIN h, S, q)
  BY SubtreesAre DEF Nodes, Below

(* What the invariant says between calls, ...                              *)
LEMMA BetweenCalls ==
    ASSUME IInv, pc = "idle"
    PROVE  OrderedSet /\ (program = "avl" => HeightsExactAndBalanced)
           /\ root \in DOMAIN heap \cup {NULL} /\ DOMAIN heap = Nodes(heap, root)
           /\ frames = <<>>
  <1>1. PICK S, t : TreeKept(S) /\ KeysKept(S, t)
    BY DEF IInv
  <1>2. frames = <<>>
    BY DEF IInv, TreeTypeOK
  <1>3. /\ Nest(DOMAIN heap, HL(heap), HR(heap), S)
        /\ Below(DOMAIN heap, S, root) = DOMAIN heap
        /\ root \in DOMAIN heap \cup {NULL}
    <2>1. Shape(heap, <<>>, root, root, S)
      BY <1>1 DEF TreeKept
    <2>2. Handed(heap, <<>>, root, root) /\ <<>> \in Seq(Frame)
      BY DEF Handed
    <2>3. Settled(heap, <<>>, root, S)
      BY <2>1, <2>2, HandedSettled
    <2> QED
      BY <2>3 DEF Settled, Tree, Closed
  <1>4. IsFiniteSet(DOMAIN heap) /\ NULL \notin DOMAIN heap
    BY InvFacts
  <1>5. \A q : Nodes(heap, q) = Below(DOMAIN heap, S, q)
    BY <1>3, <1>4, NodesAre
  <1>6. /\ LinksL(heap, <<>>, node) = HL(heap) /\ LinksR(heap, <<>>, node) = HR(heap)
        /\ \A p \in DOMAIN heap : HL(heap)[p] = heap[p].left /\ HR(heap)[p] = heap[p].right
    BY DEF LinksL, LinksR, HL, HR
  <1>7. OrderedSet
    <2>1. InOrder(heap, <<>>, node, S, NULL) /\ Keys(heap) = members
      BY <1>1, <1>2 DEF KeysKept
    <2>2. Ordered(DOMAIN heap, HL(heap), HR(heap), S, KeysIn(heap), NULL)
      BY <1>6, <2>1 DEF InOrder
    <2>3. \A p \in DOMAIN heap : KeysIn(heap)[p] = heap[p].key /\ heap[p].key \in Int
      BY InvFacts DEF KeysIn
    <2>4. ASSUME NEW p \in DOMAIN heap
          PROVE  /\ \A q \in Nodes(heap, heap[p].left) : heap[q].key < heap[p].key
                 /\ \A q \in Nodes(heap, heap[p].right) : heap[q].key > heap[p].key
      <3>1. ASSUME NEW q \in Nodes(heap, heap[p].left) PROVE heap[q].key < heap[p].key
        <4>1. q \in Below(DOMAIN heap, S, HL(heap)[p])
          BY <1>5, <1>6
        <4>2. q \in DOMAIN heap
          BY <1>3, <4>1 DEF Nest, Below
        <4> QED
          BY <2>2, <2>3, <4>1, <4>2 DEF Ordered
      <3>2. ASSUME NEW q \in Nodes(heap, heap[p].right) PROVE heap[q].key > heap[p].key
        <4>1. q \in Below(DOMAIN heap, S, HR(heap)[p])
          BY <1>5, <1>6
        <4>2. q \in DOMAIN heap
          BY <1>3, <4>1 DEF Nest, Below
        <4>3. p # NULL
          BY <1>4
        <4>4. heap[p].key < heap[q].key
          BY <2>2, <2>3, <4>1, <4>2, <4>3 DEF Ordered
        <4> QED
          BY <2>3, <4>2, <4>4
      <3> QED
        BY <3>1, <3>2
    <2> QED
      BY <2>1, <2>4 DEF OrderedSet, Keys
  <1>8. ASSUME program = "avl" PROVE HeightsExactAndBalanced
    <2>1. \A p \in DOMAIN heap : AvlNode(heap, HL(heap), HR(heap), p)
      BY <1>2, <1>6, <1>8 DEF IInv, HeightsKept
    <2>2. ASSUME NEW p \in DOMAIN heap
          PROVE  /\ heap[p].height = 1 + max(Ht(heap, heap[p].left), Ht(heap, heap[p].right))
                 /\ Ht(heap, heap[p].left) - Ht(heap, heap[p].right) \in -1..1
      BY <1>6, <2>1 DEF AvlNode, Even
    <2>3. \A q : Depth(heap, q) = Ht(heap, q)
      BY <1>3, <1>4, <2>2, DepthsAre
    <2>4. \A p \in DOMAIN heap : heap[p].height = Ht(heap, p)
      BY DEF Ht
    <2> QED
      BY <2>2, <2>3, <2>4 DEF HeightsExactAndBalanced
  <1> QED
    BY <1>2, <1>3, <1>5, <1>7, <1>8

(* ... while calls wait for results, ...                                   *)
LEMMA DuringCalls ==
    ASSUME IInv, pc \notin {"idle", "deleteTree"}
    PROVE  /\ \A x \in DOMAIN frames : frames[x].node \in DOMAIN heap
           /\ node \in DOMAIN heap \cup {NULL}
           /\ pc = "minimum" => node \in DOMAIN heap /\ p_current \in DOMAIN heap
  <1>1. PICK S, t : TreeKept(S) /\ KeysKept(S, t)
    BY DEF IInv
  <1>2. Shape(heap, frames, node, root, S)
    BY <1>1 DEF TreeKept
  <1>3. \A x \in DOMAIN frames : frames[x].node \in DOMAIN heap
    BY <1>2 DEF Shape, Stack
  <1>4. frames \in Seq(Frame)
    BY InvFacts
  <1>5. node \in DOMAIN heap \cup {NULL}
    <2>1. CASE frames = <<>>
      BY <1>2, <2>1 DEF Shape, Closed, Apex
    <2>2. CASE frames # <<>>
      <3>1. 1 \in DOMAIN frames /\ frames[1] \in Frame
        <4>1. 1 \in DOMAIN frames
          BY <1>4, <2>2
        <4> QED
          BY <1>4, <4>1
      <3>2. frames[1].at = "left" \/ frames[1].at = "right"
        BY <3>1 DEF Frame
      <3>3. PICK p \in DOMAIN heap : p = frames[1].node
        BY <1>3, <3>1
      <3>4. /\ frames[1].at = "left" => LinksL(heap, frames, node)[p] = node
            /\ frames[1].at = "right" => LinksR(heap, frames, node)[p] = node
        BY <2>2, <3>3 DEF LinksL, LinksR
      <3> QED
        BY <1>2, <3>2, <3>4 DEF Shape, Closed
    <2> QED
      BY <2>1, <2>2
  <1>6. pc = "minimum" => node \in DOMAIN heap /\ p_current \in DOMAIN heap
    <2>1. SUFFICES ASSUME pc = "minimum"
                   PROVE  node \in DOMAIN heap /\ p_current \in DOMAIN heap
      OBVIOUS
    <2>2. /\ node \in DOMAIN heap /\ heap[node].right \in DOMAIN heap
          /\ p_current \in S[heap[node].right]
      BY <1>1, <2>1 DEF KeysKept
    <2>3. S \in [DOMAIN heap -> SUBSET DOMAIN heap]
      BY <1>2 DEF Shape, Tree, Nest
    <2> QED
      BY <2>2, <2>3
  <1> QED
    BY <1>3, <1>5, <1>6

(* ... and while the tree is freed.                                        *)
LEMMA DuringDelete ==
    ASSUME IInv, pc = "deleteTree"
    PROVE  /\ \A x \in DOMAIN frames : frames[x].node \in DOMAIN heap
           /\ DOMAIN heap = Nodes(heap, frames[Len(frames)].node)
           /\ \A x, y \in DOMAIN frames : x < y =>
                frames[x].node \in Nodes(heap, frames[y].node) \ {frames[y].node}
  <1>1. frames \in Seq(FreeFrame) /\ frames # <<>>
    BY DeletingFacts
  <1>2. PICK S : FreeCalls(heap, frames, S, TRUE)
    BY DeletingFacts
  <1>3. DOMAIN frames = 1..Len(frames) /\ Len(frames) \in Nat
    BY <1>1
  <1>4. /\ Tree(DOMAIN heap, HL(heap), HR(heap), S, frames[Len(frames)].node)
        /\ \A x \in 1..Len(frames) : frames[x].node \in DOMAIN heap
        /\ \A x, y \in 1..Len(frames) : x < y =>
             frames[x].node \in S[frames[y].node] /\ frames[y].node \notin S[frames[x].node]
    BY <1>2 DEF FreeCalls
  <1>5. \A q : Nodes(heap, q) = Below(DOMAIN heap, S, q)
    BY <1>4, InvFacts, NodesAre DEF Tree
  <1>6. DOMAIN heap = Nodes(heap, frames[Len(frames)].node)
    BY <1>4, <1>5 DEF Tree
  <1>7. \A p \in DOMAIN heap : p \in S[p]
    BY <1>4 DEF Tree, Nest
  <1>8. ASSUME NEW x \in 1..Len(frames), NEW y \in 1..Len(frames), x < y
        PROVE  frames[x].node \in Nodes(heap, frames[y].node) \ {frames[y].node}
    <2>1. /\ frames[x].node \in S[frames[y].node] /\ frames[y].node \notin S[frames[x].node]
          /\ frames[x].node \in DOMAIN heap /\ frames[y].node \in DOMAIN heap
      BY <1>4, <1>8
    <2> QED
      BY <1>5, <1>7, <2>1 DEF Below
  <1> QED
    BY <1>3, <1>4, <1>6, <1>8

(* Both search trees are ordered sets of the keys put in and not taken out,*)
(* with exactly their nodes allocated and each freed once, and the AVL tree*)
(* knows its heights and is balanced after any sequence of calls.          *)
THEOREM TreesAreSound == TreesSpec => []TreesSound
  <1>1. IInv => TreesSound
    <2>1. SUFFICES ASSUME IInv PROVE TreesSound
      OBVIOUS
    <2>2. CASE pc = "idle"
      <3>1. /\ OrderedSet /\ (program = "avl" => HeightsExactAndBalanced)
            /\ root \in DOMAIN heap \cup {NULL} /\ DOMAIN heap = Nodes(heap, root)
            /\ frames = <<>>
        BY <2>1, <2>2, BetweenCalls
      <3>2. \A x \in DOMAIN frames : frames[x].node \in DOMAIN heap
        BY <3>1
      <3> QED
        BY <2>2, <3>1, <3>2 DEF TreesSound, NothingLostOrFreedTwice
    <2>3. CASE pc = "deleteTree"
      <3>1. OrderedSet /\ HeightsExactAndBalanced
        BY <2>3 DEF OrderedSet, HeightsExactAndBalanced
      <3> QED
        BY <2>1, <2>3, <3>1, DuringDelete DEF TreesSound, NothingLostOrFreedTwice
    <2>4. CASE pc \notin {"idle", "deleteTree"}
      <3>1. OrderedSet /\ HeightsExactAndBalanced
        BY <2>4 DEF OrderedSet, HeightsExactAndBalanced
      <3> QED
        BY <2>1, <2>4, <3>1, DuringCalls DEF TreesSound, NothingLostOrFreedTwice
    <2> QED
      BY <2>2, <2>3, <2>4
  <1> QED
    BY <1>1, TreesInvariant, PTL
=============================================================================
