-------------------------- MODULE LinkedListProofs --------------------------
(***************************************************************************)
(* Theorems about LinkedList, for every finite set of nodes and any names  *)
(* and passwords: the chain and the cursor first, then that each call      *)
(* returns what the sequence of accounts says, and changes it just so.     *)
(***************************************************************************)
EXTENDS LinkedList, FiniteSetTheorems, SequenceTheorems, TLAPS

Cell == [account : Account, next : Node \cup {NULL}]

(* The allocated nodes of h are those of o, each once, linked in its order.*)
Chain(h, o) ==
    /\ DOMAIN h = {o[i] : i \in DOMAIN o}
    /\ \A i, j \in DOMAIN o : o[i] = o[j] => i = j
    /\ \A i \in DOMAIN o : h[o[i]].next = IF i = Len(o) THEN NULL ELSE o[i + 1]

(* The struct describes the list o.                                        *)
Ends(o) ==
    /\ nodecount = Len(o)
    /\ head = IF o = <<>> THEN NULL ELSE o[1]
    /\ tail = IF o = <<>> THEN NULL ELSE o[Len(o)]

(* The inductive invariant: a call that is not deletetarget has no p_prev. *)
ListInv ==
    /\ TypeOK
    /\ WellLinked
    /\ CursorSafe
    /\ pc # "deletetarget" => p_prev = NULL

-----------------------------------------------------------------------------
(* WellLinked in the two parts that the lemmas speak of.                   *)
LEMMA LinkedChain ==
    WellLinked <=> Chain(heap, order) /\ (pc # "destroylist" => Ends(order))
  BY DEF WellLinked, Chain, Ends, Allocated

(* What RemoveAt returns.                                                  *)
LEMMA Removed ==
    ASSUME NEW s \in Seq(Node), NEW p \in DOMAIN s
    PROVE  /\ RemoveAt(s, p) \in Seq(Node)
           /\ Len(RemoveAt(s, p)) = Len(s) - 1
           /\ DOMAIN RemoveAt(s, p) = 1..Len(s) - 1
           /\ \A i \in 1..Len(s) - 1 :
                 RemoveAt(s, p)[i] = IF i < p THEN s[i] ELSE s[i + 1]
  <1> DEFINE r == RemoveAt(s, p)
  <1>1. Len(s) \in Nat /\ DOMAIN s = 1..Len(s) /\ Len(s) - 1 \in Nat
    OBVIOUS
  <1>2. DOMAIN r = 1..Len(s) - 1
    BY DEF RemoveAt
  <1>3. \A i \in 1..Len(s) - 1 : r[i] = IF i < p THEN s[i] ELSE s[i + 1]
    BY DEF RemoveAt
  <1>4. \A i \in 1..Len(s) - 1 : r[i] \in Node
    BY <1>1, <1>3
  <1>5. r \in [1..Len(s) - 1 -> Node]
    BY <1>2, <1>4 DEF RemoveAt
  <1>6. r \in Seq(Node)
    BY <1>1, <1>5
  <1>7. Len(r) = Len(s) - 1
    <2>1. Len(r) \in Nat /\ DOMAIN r = 1..Len(r)
      BY <1>6
    <2>2. \A x \in Nat : x \in 1..Len(r) <=> x \in 1..Len(s) - 1
      BY <1>2, <2>1, Zenon
    <2> HIDE DEF r
    <2>3. \A x \in Nat : 1 <= x /\ x <= Len(r) <=> 1 <= x /\ x <= Len(s) - 1
      BY <2>1, <2>2, <1>1
    <2>4. Len(r) <= Len(s) - 1
      BY <2>1, <2>3, <1>1
    <2>5. Len(s) - 1 <= Len(r)
      BY <2>1, <2>3, <1>1
    <2>6. \A x, y \in Nat : x <= y /\ y <= x => x = y
      OBVIOUS
    <2> QED
      BY <1>1, <2>1, <2>4, <2>5, <2>6, Zenon
  <1> QED
    BY <1>2, <1>3, <1>6, <1>7

(* A list of distinct nodes is no longer than there are nodes.             *)
LEMMA LengthBounded ==
    ASSUME NEW o \in Seq(Node), \A i, j \in DOMAIN o : o[i] = o[j] => i = j
    PROVE  Len(o) \in 0..Cardinality(Node)
  <1>1. Len(o) \in Nat /\ o \in [1..Len(o) -> Node]
    OBVIOUS
  <1>2. IsFiniteSet(Node)
    BY NodeAssumption
  <1>3. Cardinality(Node) \in Nat
    BY <1>2, FS_CardinalityType
  <1>4. IsFiniteSet(1..Len(o)) /\ Cardinality(1..Len(o)) = Len(o)
    BY <1>1, FS_Interval
  <1>5. o \in Injection(1..Len(o), Node)
    BY <1>1 DEF Injection, IsInjective
  <1>6. Cardinality(1..Len(o)) <= Cardinality(Node)
    BY <1>2, <1>5, FS_Injection
  <1> QED
    BY <1>1, <1>3, <1>4, <1>6

-----------------------------------------------------------------------------
(* Taking the first node out of a list leaves a list.                      *)
LEMMA UnchainFirst ==
    ASSUME NEW o \in Seq(Node), o # <<>>, NEW h, Chain(h, o)
    PROVE  Chain(Without(h, o[1]), RemoveAt(o, 1))
  <1> DEFINE r == RemoveAt(o, 1)
             g == Without(h, o[1])
  <1>1. Len(o) \in Nat \ {0} /\ DOMAIN o = 1..Len(o) /\ 1 \in DOMAIN o
    OBVIOUS
  <1>2. /\ Len(r) = Len(o) - 1 /\ DOMAIN r = 1..Len(o) - 1
        /\ \A i \in 1..Len(o) - 1 : r[i] = o[i + 1]
    <2>1. /\ Len(r) = Len(o) - 1 /\ DOMAIN r = 1..Len(o) - 1
          /\ \A i \in 1..Len(o) - 1 : r[i] = IF i < 1 THEN o[i] ELSE o[i + 1]
      BY <1>1, Removed
    <2>2. \A i \in 1..Len(o) - 1 : ~(i < 1)
      BY <1>1
    <2> QED
      BY <2>1, <2>2
  <1>3. DOMAIN g = DOMAIN h \ {o[1]} /\ \A y \in DOMAIN g : g[y] = h[y]
    BY DEF Without
  <1>4. DOMAIN g = {r[i] : i \in DOMAIN r}
    <2>1. ASSUME NEW y \in DOMAIN g PROVE \E i \in DOMAIN r : y = r[i]
      <3>1. PICK i \in DOMAIN o : y = o[i]
        BY <1>3 DEF Chain
      <3>2. i # 1
        BY <1>3, <3>1
      <3>3. i - 1 \in DOMAIN r /\ r[i - 1] = y
        BY <1>1, <1>2, <3>1, <3>2
      <3> QED
        BY <3>3
    <2>2. ASSUME NEW i \in DOMAIN r PROVE r[i] \in DOMAIN g
      <3>1. i + 1 \in DOMAIN o /\ i + 1 # 1 /\ r[i] = o[i + 1]
        BY <1>1, <1>2
      <3>2. o[i + 1] # o[1] /\ o[i + 1] \in DOMAIN h
        BY <1>1, <3>1 DEF Chain
      <3> QED
        BY <1>3, <3>1, <3>2
    <2> QED
      BY <2>1, <2>2
  <1>5. ASSUME NEW i \in DOMAIN r, NEW j \in DOMAIN r, r[i] = r[j]
        PROVE  i = j
    <2>1. i + 1 \in DOMAIN o /\ j + 1 \in DOMAIN o /\ o[i + 1] = o[j + 1]
      BY <1>1, <1>2, <1>5
    <2>2. i + 1 = j + 1
      BY <2>1 DEF Chain
    <2> QED
      BY <1>1, <1>2, <2>2
  <1>6. ASSUME NEW i \in DOMAIN r
        PROVE  g[r[i]].next = IF i = Len(r) THEN NULL ELSE r[i + 1]
    <2>1. r[i] \in DOMAIN g
      BY <1>4
    <2>2. i + 1 \in DOMAIN o /\ r[i] = o[i + 1] /\ g[r[i]] = h[o[i + 1]]
      BY <1>1, <1>2, <1>3, <2>1
    <2>3. h[o[i + 1]].next = IF i + 1 = Len(o) THEN NULL ELSE o[i + 1 + 1]
      BY <2>2 DEF Chain
    <2>4. i # Len(r) => i + 1 \in 1..Len(o) - 1
      BY <1>1, <1>2
    <2> QED
      BY <1>1, <1>2, <2>2, <2>3, <2>4
  <1> QED
    BY <1>4, <1>5, <1>6 DEF Chain

(* So does linking the node before another one past it.                    *)
LEMMA Splice ==
    ASSUME NEW o \in Seq(Node), NEW p \in DOMAIN o, p # 1,
           NEW h, Chain(h, o), h \in [DOMAIN h -> Cell]
    PROVE  Chain(Without([h EXCEPT ![o[p - 1]].next = h[o[p]].next], o[p]),
                 RemoveAt(o, p))
  <1> DEFINE r == RemoveAt(o, p)
             h2 == [h EXCEPT ![o[p - 1]].next = h[o[p]].next]
             g == Without(h2, o[p])
  <1>1. /\ Len(o) \in Nat \ {0} /\ DOMAIN o = 1..Len(o)
        /\ p \in 1..Len(o) /\ p - 1 \in DOMAIN o
    OBVIOUS
  <1>2. /\ Len(r) = Len(o) - 1 /\ DOMAIN r = 1..Len(o) - 1
        /\ \A i \in 1..Len(o) - 1 : r[i] = IF i < p THEN o[i] ELSE o[i + 1]
    BY <1>1, Removed
  <1>3. DOMAIN g = DOMAIN h \ {o[p]} /\ \A y \in DOMAIN g : g[y] = h2[y]
    BY DEF Without
  <1>4. DOMAIN g = {r[i] : i \in DOMAIN r}
    <2>1. ASSUME NEW y \in DOMAIN g PROVE \E i \in DOMAIN r : y = r[i]
      <3>1. PICK i \in DOMAIN o : y = o[i]
        BY <1>3 DEF Chain
      <3>2. i # p
        BY <1>3, <3>1
      <3>3. CASE i < p
        BY <1>1, <1>2, <3>1, <3>3
      <3>4. CASE i > p
        <4>1. i - 1 \in DOMAIN r /\ r[i - 1] = o[i]
          BY <1>1, <1>2, <3>4
        <4> QED
          BY <3>1, <4>1
      <3> QED
        BY <1>1, <3>2, <3>3, <3>4
    <2>2. ASSUME NEW i \in DOMAIN r PROVE r[i] \in DOMAIN g
      <3>1. PICK j \in DOMAIN o : j # p /\ r[i] = o[j]
        BY <1>1, <1>2
      <3>2. o[j] # o[p] /\ o[j] \in DOMAIN h
        BY <1>1, <3>1 DEF Chain
      <3> QED
        BY <1>3, <3>1, <3>2
    <2> QED
      BY <2>1, <2>2
  <1>5. ASSUME NEW i \in DOMAIN r, NEW j \in DOMAIN r, r[i] = r[j]
        PROVE  i = j
    <2> DEFINE at(x) == IF x < p THEN x ELSE x + 1
    <2>1. at(i) \in DOMAIN o /\ at(j) \in DOMAIN o
          /\ r[i] = o[at(i)] /\ r[j] = o[at(j)]
      BY <1>1, <1>2
    <2>2. at(i) = at(j)
      BY <1>5, <2>1 DEF Chain
    <2> QED
      BY <1>1, <1>2, <2>2
  <1>6. ASSUME NEW i \in DOMAIN r
        PROVE  g[r[i]].next = IF i = Len(r) THEN NULL ELSE r[i + 1]
    <2>1. r[i] \in DOMAIN g /\ g[r[i]] = h2[r[i]] /\ r[i] \in DOMAIN h
      BY <1>3, <1>4
    <2>2. i \in 1..Len(o) - 1
      BY <1>2
    <2>3. CASE i = p - 1
      <3>1. r[i] = o[p - 1]
        BY <1>1, <1>2, <2>2, <2>3
      <3>2. h2[o[p - 1]].next = h[o[p]].next
        BY <2>1, <3>1 DEF Cell
      <3>3. h[o[p]].next = IF p = Len(o) THEN NULL ELSE o[p + 1]
        BY DEF Chain
      <3>4. i # Len(r) => r[i + 1] = o[p + 1]
        BY <1>1, <1>2, <2>3
      <3> QED
        BY <1>1, <1>2, <2>1, <2>3, <3>1, <3>2, <3>3, <3>4
    <2>4. CASE i < p - 1
      <3>1. r[i] = o[i] /\ i \in DOMAIN o /\ o[i] # o[p - 1]
        BY <1>1, <1>2, <2>2, <2>4 DEF Chain
      <3>2. h2[r[i]] = h[o[i]]
        BY <2>1, <3>1
      <3>3. h[o[i]].next = o[i + 1]
        BY <1>1, <2>4, <3>1 DEF Chain
      <3>4. i # Len(r) /\ r[i + 1] = o[i + 1]
        BY <1>1, <1>2, <2>4
      <3> QED
        BY <2>1, <3>2, <3>3, <3>4
    <2>5. CASE i > p - 1
      <3>1. r[i] = o[i + 1] /\ i + 1 \in DOMAIN o /\ o[i + 1] # o[p - 1]
        BY <1>1, <1>2, <2>2, <2>5 DEF Chain
      <3>2. h2[r[i]] = h[o[i + 1]]
        BY <2>1, <3>1
      <3>3. h[o[i + 1]].next = IF i + 1 = Len(o) THEN NULL ELSE o[i + 1 + 1]
        BY <3>1 DEF Chain
      <3>4. i # Len(r) => r[i + 1] = o[i + 1 + 1]
        BY <1>1, <1>2, <2>5
      <3> QED
        BY <1>1, <1>2, <2>1, <3>2, <3>3, <3>4
    <2> QED
      BY <1>1, <2>2, <2>3, <2>4, <2>5
  <1> QED
    BY <1>4, <1>5, <1>6 DEF Chain

(* Linking a new node behind the last one gives a list that ends with it.  *)
LEMMA LinkLast ==
    ASSUME NEW o \in Seq(Node), NEW h, Chain(h, o), h \in [DOMAIN h -> Cell],
           NEW x \in Node \ DOMAIN h, NEW c \in Cell, c.next = NULL,
           NEW h2, o = <<>> => h2 = h,
           o # <<>> => h2 = [h EXCEPT ![o[Len(o)]].next = x]
    PROVE  Chain(With(h2, x, c), Append(o, x))
  <1> DEFINE n == Len(o)
             r == Append(o, x)
             g == With(h2, x, c)
  <1>1. n \in Nat /\ DOMAIN o = 1..n /\ DOMAIN h2 = DOMAIN h
    OBVIOUS
  <1>2. /\ DOMAIN r = 1..n + 1 /\ Len(r) = n + 1 /\ r[n + 1] = x
        /\ \A i \in 1..n : r[i] = o[i]
    OBVIOUS
  <1>3. /\ DOMAIN g = DOMAIN h \cup {x} /\ g[x] = c
        /\ \A y \in DOMAIN h : g[y] = h2[y]
    BY <1>1 DEF With
  <1>4. \A i \in 1..n : o[i] \in DOMAIN h /\ o[i] # x
    BY <1>1 DEF Chain
  <1>5. DOMAIN g = {r[i] : i \in DOMAIN r}
    <2>1. \A y \in DOMAIN g : \E i \in DOMAIN r : y = r[i]
      BY <1>1, <1>2, <1>3 DEF Chain
    <2>2. \A i \in DOMAIN r : r[i] \in DOMAIN g
      BY <1>1, <1>2, <1>3, <1>4
    <2> QED
      BY <2>1, <2>2
  <1>6. \A i, j \in DOMAIN r : r[i] = r[j] => i = j
    BY <1>1, <1>2, <1>4 DEF Chain
  <1>7. ASSUME NEW i \in DOMAIN r
        PROVE  g[r[i]].next = IF i = Len(r) THEN NULL ELSE r[i + 1]
    <2>1. CASE i = n + 1
      BY <1>2, <1>3, <2>1
    <2>2. CASE i # n + 1
      <3>1. i \in 1..n /\ r[i] = o[i] /\ g[r[i]] = h2[o[i]] /\ n # 0
        BY <1>1, <1>2, <1>3, <1>4, <2>2
      <3>2. h2 = [h EXCEPT ![o[n]].next = x] /\ n \in 1..n
        BY <1>1, <3>1
      <3>3. CASE i = n
        <4>1. o[n] \in DOMAIN h /\ h[o[n]] \in Cell
          BY <1>4, <3>2
        <4>2. h2[o[n]].next = x
          BY <3>2, <4>1 DEF Cell
        <4>3. g[r[i]].next = x
          BY <3>1, <3>3, <4>2
        <4> HIDE DEF n, r, g
        <4>4. i # Len(r) /\ r[i + 1] = x
          BY <1>1, <1>2, <3>3
        <4> QED
          BY <4>3, <4>4
      <3>4. CASE i # n
        <4>1. o[i] # o[n]
          BY <1>1, <3>1, <3>2, <3>4 DEF Chain
        <4>2. h2[o[i]] = h[o[i]]
          BY <1>4, <3>1, <3>2, <4>1
        <4>3. h[o[i]].next = o[i + 1]
          BY <1>1, <3>1, <3>4 DEF Chain
        <4>4. i + 1 \in 1..n /\ i # Len(r)
          BY <1>1, <1>2, <3>1, <3>4
        <4> QED
          BY <1>2, <3>1, <4>2, <4>3, <4>4
      <3> QED
        BY <3>3, <3>4
    <2> QED
      BY <2>1, <2>2
  <1> QED
    BY <1>5, <1>6, <1>7 DEF Chain

-----------------------------------------------------------------------------
(* The list without the struct that points to it.                          *)
Shape ==
    /\ order \in Seq(Node)
    /\ DOMAIN heap \subseteq Node
    /\ heap \in [DOMAIN heap -> Cell]
    /\ Chain(heap, order)

Answers == [status : {"none", "absent", "removed"}]
           \cup [status : {"found"}, account : Account]

(* What the invariants say of the list, in those parts.                    *)
LEMMA ListFacts ==
    ASSUME TypeOK, WellLinked
    PROVE  Shape /\ (pc # "destroylist" => Ends(order))
  BY LinkedChain DEF TypeOK, Shape, Allocated, Cell

(* A call that leaves a list behind may return.                            *)
LEMMA Returned ==
    ASSUME NEW s \in Answers, Return(s), Shape', Ends(order)'
    PROVE  ListInv'
  <1>1. /\ pc' = "idle" /\ wanted' = NULL /\ current' = NULL
        /\ p_prev' = NULL /\ answer' = s
    BY DEF Return
  <1>2. Len(order') \in 0..Cardinality(Node)
    BY LengthBounded DEF Shape, Chain
  <1>3. head' \in Node \cup {NULL} /\ tail' \in Node \cup {NULL}
    <2>1. CASE order' = <<>>
      BY <2>1 DEF Ends
    <2>2. CASE order' # <<>>
      <3>1. order'[1] \in Node /\ order'[Len(order')] \in Node
        BY <2>2 DEF Shape
      <3> QED
        BY <2>2, <3>1 DEF Ends
    <2> QED
      BY <2>1, <2>2
  <1>4. nodecount' = Len(order')
    BY DEF Ends
  <1>5. TypeOK'
    BY <1>1, <1>2, <1>3, <1>4 DEF TypeOK, Shape, Allocated, Cell, Answers
  <1>6. WellLinked'
    BY DEF WellLinked, Shape, Chain, Ends, Allocated
  <1>7. CursorSafe'
    BY <1>1 DEF CursorSafe, Scans, Searches
  <1> QED
    BY <1>1, <1>5, <1>6, <1>7 DEF ListInv

(* A call that only looks at the list may return.                          *)
LEMMA LookedUp ==
    ASSUME ListInv, pc # "destroylist", NEW s \in Answers, Return(s),
           UNCHANGED <<struct, heap, order>>
    PROVE  ListInv'
  <1>1. Shape /\ Ends(order)
    BY ListFacts DEF ListInv
  <1>2. Shape' /\ Ends(order)'
    BY <1>1 DEF Shape, Ends, Chain, struct
  <1> QED
    BY <1>2, Returned

(* A step of a loop that leaves the list alone.                            *)
LEMMA Walked ==
    ASSUME ListInv, UNCHANGED <<struct, heap, answer, order>>,
           pc # "destroylist",
           pc' \in Scans \cup {"deletelast", "destroylist"},
           wanted' \in Account \cup [username : Name] \cup {NULL},
           current' \in Node \cup {NULL}, p_prev' \in Node \cup {NULL},
           CursorSafe', pc' # "deletetarget" => p_prev' = NULL
    PROVE  ListInv'
  <1>1. TypeOK'
    BY DEF ListInv, TypeOK, struct, Allocated
  <1>2. WellLinked'
    BY DEF ListInv, WellLinked, struct, Allocated
  <1> QED
    BY <1>1, <1>2 DEF ListInv

-----------------------------------------------------------------------------
(* The list starts empty.                                                  *)
LEMMA InitInv == Init => ListInv
  <1> SUFFICES ASSUME Init PROVE ListInv
    OBVIOUS
  <1> USE DEF Init
  <1>1. Cardinality(Node) \in Nat
    BY NodeAssumption, FS_CardinalityType
  <1>2. DOMAIN heap = {}
    OBVIOUS
  <1>3. TypeOK
    BY <1>1, <1>2 DEF TypeOK, Allocated, Status
  <1>4. WellLinked
    BY <1>2 DEF WellLinked, Allocated
  <1>5. CursorSafe
    BY DEF CursorSafe, Scans, Searches
  <1> QED
    BY <1>3, <1>4, <1>5 DEF ListInv

(* insertattail links the new node behind the last one.                    *)
LEMMA InsertInv ==
    ASSUME ListInv, NEW x \in Node, NEW a \in Account, InsertAtTail(x, a)
    PROVE  ListInv'
  <1> DEFINE c == [account |-> a, next |-> NULL]
             h2 == IF order = <<>> THEN heap
                   ELSE [heap EXCEPT ![order[Len(order)]].next = x]
  <1>1. Shape /\ Ends(order) /\ x \notin DOMAIN heap /\ c \in Cell
    BY ListFacts DEF ListInv, InsertAtTail, Cell
  <1>2. /\ Len(order) \in Nat /\ (nodecount = 0 <=> order = <<>>)
        /\ order # <<>> => tail = order[Len(order)]
    BY <1>1 DEF Shape, Ends
  <1>3. /\ heap' = With(h2, x, c) /\ tail' = x
        /\ head' = IF order = <<>> THEN x ELSE head
        /\ order' = Append(order, x) /\ nodecount' = nodecount + 1
    BY <1>2 DEF InsertAtTail, LinkAtTail
  <1>4. Chain(heap', order')
    BY <1>1, <1>3, LinkLast DEF Shape
  <1>5. h2 \in [DOMAIN heap -> Cell]
    <2>1. CASE order = <<>>
      BY <1>1, <2>1 DEF Shape
    <2>2. CASE order # <<>>
      BY <1>1, <2>2 DEF Shape, Cell
    <2> QED
      BY <2>1, <2>2
  <1>6. DOMAIN heap' = DOMAIN heap \cup {x} /\ heap' \in [DOMAIN heap' -> Cell]
    <2> HIDE DEF h2
    <2>1. heap' = [y \in DOMAIN heap \cup {x} |-> IF y = x THEN c ELSE h2[y]]
      BY <1>3, <1>5 DEF With
    <2>2. \A y \in DOMAIN heap \cup {x} : heap'[y] \in Cell
      BY <1>1, <1>5, <2>1
    <2> QED
      BY <2>1, <2>2
  <1>7. Shape'
    <2>1. order' \in Seq(Node)
      BY <1>1, <1>3 DEF Shape
    <2>2. DOMAIN heap' \subseteq Node
      BY <1>1, <1>6 DEF Shape
    <2> QED
      BY <1>4, <1>6, <2>1, <2>2 DEF Shape
  <1>8. Ends(order)'
    <2>1. /\ Len(order') = Len(order) + 1 /\ order'[Len(order) + 1] = x
          /\ order = <<>> => order'[1] = x
          /\ order # <<>> => order'[1] = order[1]
      BY <1>1, <1>3 DEF Shape
    <2>2. order' # <<>>
      BY <1>2, <2>1
    <2>3. /\ nodecount' = Len(order') /\ tail' = order'[Len(order')]
          /\ head' = order'[1]
      BY <1>1, <1>2, <1>3, <2>1 DEF Ends
    <2> QED
      BY <2>2, <2>3 DEF Ends
  <1>9. Return(Found(a)) /\ Found(a) \in Answers
    BY DEF InsertAtTail, Found, Answers
  <1> QED
    BY <1>7, <1>8, <1>9, Returned

(* deletefirst, also when deletetarget calls it.                           *)
LEMMA UnlinkedHead ==
    ASSUME TypeOK, WellLinked, pc # "destroylist", nodecount # 0, UnlinkHead
    PROVE  Shape' /\ Ends(order)'
  <1>1. Shape /\ Ends(order)
    BY ListFacts
  <1>2. /\ Len(order) \in Nat /\ order # <<>> /\ nodecount = Len(order)
        /\ head = order[1] /\ tail = order[Len(order)]
        /\ 1 \in DOMAIN order /\ DOMAIN order = 1..Len(order)
    BY <1>1 DEF Shape, Ends
  <1>3. /\ heap' = Without(heap, order[1]) /\ order' = RemoveAt(order, 1)
        /\ nodecount' = nodecount - 1
    BY <1>2 DEF UnlinkHead
  <1>4. Chain(heap', order')
    BY <1>1, <1>2, <1>3, UnchainFirst DEF Shape
  <1>5. /\ order' \in Seq(Node) /\ Len(order') = Len(order) - 1
        /\ \A i \in 1..Len(order) - 1 : order'[i] = IF i < 1 THEN order[i] ELSE order[i + 1]
    BY <1>1, <1>2, <1>3, Removed DEF Shape
  <1>6. DOMAIN heap' \subseteq DOMAIN heap /\ heap' \in [DOMAIN heap' -> Cell]
    BY <1>1, <1>3 DEF Without, Shape
  <1>7. Shape'
    BY <1>1, <1>4, <1>5, <1>6 DEF Shape
  <1>8. CASE nodecount = 1
    <2>1. head' = NULL /\ tail' = NULL
      BY <1>8 DEF UnlinkHead
    <2>2. order' = <<>>
      BY <1>2, <1>5, <1>8
    <2> QED
      BY <1>2, <1>3, <1>5, <1>7, <2>1, <2>2 DEF Ends
  <1>9. CASE nodecount # 1
    <2>1. head' = heap[head].next /\ tail' = tail
      BY <1>9 DEF UnlinkHead
    <2>2. Len(order) \in Nat /\ Len(order) >= 2
      BY <1>2, <1>9
    <2>3. heap[order[1]].next = order[2]
      BY <1>1, <1>2, <2>2 DEF Shape, Chain
    <2>4. order'[1] = order[2] /\ order'[Len(order) - 1] = order[Len(order)]
      BY <1>5, <2>2
    <2>5. order' # <<>>
      BY <1>5, <2>2
    <2>6. /\ nodecount' = Len(order')
          /\ head' = order'[1] /\ tail' = order'[Len(order')]
      BY <1>2, <1>3, <1>5, <2>1, <2>3, <2>4
    <2> QED
      BY <1>7, <2>5, <2>6 DEF Ends
  <1> QED
    BY <1>8, <1>9

(* deletefirst returns with the rest of the list.                          *)
LEMMA DeleteFirstInv == ListInv /\ DeleteFirst => ListInv'
  <1> SUFFICES ASSUME ListInv, DeleteFirst PROVE ListInv'
    OBVIOUS
  <1>1. Shape' /\ Ends(order)'
    BY UnlinkedHead DEF ListInv, DeleteFirst
  <1>2. Return(Status("removed")) /\ Status("removed") \in Answers
    BY DEF DeleteFirst, Status, Answers
  <1> QED
    BY <1>1, <1>2, Returned

(* deletetarget finds its target at the head.                              *)
LEMMA TargetIsHeadInv == ListInv /\ TargetIsHead => ListInv'
  <1> SUFFICES ASSUME ListInv, TargetIsHead PROVE ListInv'
    OBVIOUS
  <1>1. pc = "deletetarget" /\ current # NULL /\ UnlinkHead
    BY DEF TargetIsHead, Hit
  <1>2. nodecount # 0
    <2>1. order # <<>> /\ Ends(order) /\ order \in Seq(Node)
      BY <1>1, ListFacts DEF ListInv, CursorSafe, Scans, Shape
    <2> QED
      BY <2>1 DEF Ends
  <1>3. Shape' /\ Ends(order)'
    BY <1>1, <1>2, UnlinkedHead DEF ListInv
  <1>4. Return(Status("removed")) /\ Status("removed") \in Answers
    BY DEF TargetIsHead, Status, Answers
  <1> QED
    BY <1>3, <1>4, Returned

-----------------------------------------------------------------------------
(* deletelast: the loop stands before the tail.                            *)
LEMMA UnlinkTailInv == ListInv /\ UnlinkTail => ListInv'
  <1> SUFFICES ASSUME ListInv, UnlinkTail PROVE ListInv'
    OBVIOUS
  <1>1. Shape /\ Ends(order) /\ pc = "deletelast"
    BY ListFacts DEF ListInv, UnlinkTail
  <1> DEFINE n == Len(order)
  <1>2. PICK i \in DOMAIN order : current = order[i] /\ (i < n \/ n = 1)
    BY <1>1 DEF ListInv, CursorSafe
  <1>3. /\ n \in Nat \ {0} /\ DOMAIN order = 1..n /\ n \in DOMAIN order
        /\ i \in 1..n /\ order # <<>>
    BY <1>1, <1>2 DEF Shape
  <1>4. nodecount = n /\ head = order[1] /\ tail = order[n]
    BY <1>1, <1>3 DEF Ends
  <1>5. order' = RemoveAt(order, n) /\ nodecount' = nodecount - 1
    BY DEF UnlinkTail
  <1>6. /\ order' \in Seq(Node) /\ Len(order') = n - 1
        /\ \A j \in 1..n - 1 : order'[j] = IF j < n THEN order[j] ELSE order[j + 1]
    BY <1>1, <1>3, <1>5, Removed DEF Shape
  <1>7. Return(Status("removed")) /\ Status("removed") \in Answers
    BY DEF UnlinkTail, Status, Answers
  <1>8. CASE n = 1
    <2>1. /\ head' = NULL /\ tail' = NULL /\ heap' = Without(heap, order[1])
          /\ order' = RemoveAt(order, 1)
      BY <1>4, <1>5, <1>8 DEF UnlinkTail
    <2>2. Chain(heap', order')
      BY <1>1, <1>3, <2>1, UnchainFirst DEF Shape
    <2>3. DOMAIN heap' \subseteq DOMAIN heap /\ heap' \in [DOMAIN heap' -> Cell]
      BY <1>1, <2>1 DEF Without, Shape
    <2>4. Shape'
      BY <1>1, <1>6, <2>2, <2>3 DEF Shape
    <2>5. order' = <<>>
      BY <1>6, <1>8
    <2>6. Ends(order)'
      BY <1>4, <1>5, <1>6, <1>8, <2>1, <2>5 DEF Ends
    <2> QED
      BY <1>7, <2>4, <2>6, Returned
  <1>9. CASE n # 1
    <2>1. /\ tail' = current /\ head' = head
          /\ heap' = Without([heap EXCEPT ![current].next = NULL], tail)
          /\ heap[current].next = tail
      BY <1>4, <1>9 DEF UnlinkTail, BeforeTail
    <2>2. i = n - 1
      <3>1. heap[order[i]].next = order[i + 1] /\ i + 1 \in DOMAIN order
        BY <1>1, <1>2, <1>3, <1>9 DEF Shape, Chain
      <3>2. order[i + 1] = order[n]
        BY <1>2, <1>4, <2>1, <3>1
      <3>3. i + 1 = n
        BY <1>1, <1>3, <3>1, <3>2 DEF Shape, Chain
      <3> QED
        BY <1>3, <3>3
    <2>3. heap[order[n]].next = NULL
      BY <1>1, <1>3 DEF Shape, Chain
    <2>4. heap' = Without([heap EXCEPT ![order[n - 1]].next = heap[order[n]].next],
                          order[n])
      BY <1>2, <1>4, <2>1, <2>2, <2>3
    <2>5. Chain(heap', order')
      BY <1>1, <1>3, <1>5, <1>9, <2>4, Splice DEF Shape
    <2>6. DOMAIN heap' \subseteq DOMAIN heap /\ heap' \in [DOMAIN heap' -> Cell]
      <3> DEFINE h2 == [heap EXCEPT ![current].next = NULL]
      <3>1. h2 \in [DOMAIN heap -> Cell]
        BY <1>1 DEF Shape, Cell
      <3>2. heap' = [y \in DOMAIN heap \ {tail} |-> h2[y]]
        BY <2>1, <3>1 DEF Without
      <3> QED
        BY <3>1, <3>2
    <2>7. Shape'
      BY <1>1, <1>6, <2>5, <2>6 DEF Shape
    <2>8. order'[1] = order[1] /\ order'[n - 1] = order[n - 1]
      BY <1>3, <1>6, <1>9
    <2>9. order' # <<>>
      BY <1>3, <1>6, <1>9
    <2>10. /\ nodecount' = Len(order') /\ head' = order'[1]
           /\ tail' = order'[Len(order')]
      BY <1>2, <1>4, <1>5, <1>6, <2>1, <2>2, <2>8
    <2>11. Ends(order)'
      BY <2>9, <2>10 DEF Ends
    <2> QED
      BY <1>7, <2>7, <2>11, Returned
  <1> QED
    BY <1>8, <1>9

(* deletetarget: p_prev stands right behind the node to free.              *)
LEMMA TargetIsInsideInv == ListInv /\ TargetIsInside => ListInv'
  <1> SUFFICES ASSUME ListInv, TargetIsInside PROVE ListInv'
    OBVIOUS
  <1>1. /\ Shape /\ Ends(order) /\ pc = "deletetarget"
        /\ current # NULL /\ current # head /\ current # tail
    BY ListFacts DEF ListInv, TargetIsInside, Hit, IsTail
  <1> DEFINE n == Len(order)
  <1>2. PICK p \in DOMAIN order :
           /\ current = order[p]
           /\ p_prev = IF p = 1 THEN NULL ELSE order[p - 1]
    BY <1>1 DEF ListInv, CursorSafe, Scans
  <1>3. n \in Nat \ {0} /\ DOMAIN order = 1..n /\ p \in 1..n /\ order # <<>>
    BY <1>1, <1>2 DEF Shape
  <1>4. nodecount = n /\ head = order[1] /\ tail = order[n] /\ p # 1 /\ p # n
    BY <1>1, <1>2, <1>3 DEF Ends
  <1>5. /\ heap' = Without([heap EXCEPT ![p_prev].next = heap[current].next], current)
        /\ nodecount' = nodecount - 1 /\ head' = head /\ tail' = tail
        /\ order' = RemoveAt(order, CHOOSE q \in DOMAIN order : order[q] = current)
    BY DEF TargetIsInside
  <1>6. (CHOOSE q \in DOMAIN order : order[q] = current) = p
    <2>1. \A q \in DOMAIN order : order[q] = current => q = p
      BY <1>1, <1>2 DEF Shape, Chain
    <2> QED
      BY <1>2, <2>1
  <1>7. /\ order' \in Seq(Node) /\ Len(order') = n - 1
        /\ \A j \in 1..n - 1 : order'[j] = IF j < p THEN order[j] ELSE order[j + 1]
    BY <1>1, <1>5, <1>6, Removed DEF Shape
  <1>8. Chain(heap', order')
    BY <1>1, <1>2, <1>4, <1>5, <1>6, Splice DEF Shape
  <1>9. DOMAIN heap' \subseteq DOMAIN heap /\ heap' \in [DOMAIN heap' -> Cell]
    <2> DEFINE h2 == [heap EXCEPT ![p_prev].next = heap[current].next]
    <2>1. current \in DOMAIN heap
      BY <1>1, <1>2 DEF Shape, Chain
    <2>2. h2 \in [DOMAIN heap -> Cell]
      BY <1>1, <2>1 DEF Shape, Cell
    <2>3. heap' = [y \in DOMAIN heap \ {current} |-> h2[y]]
      BY <1>5, <2>2 DEF Without
    <2> QED
      BY <2>2, <2>3
  <1>10. Shape'
    BY <1>1, <1>7, <1>8, <1>9 DEF Shape
  <1>11. order'[1] = order[1] /\ order'[n - 1] = order[n] /\ order' # <<>>
    <2>1. 1 \in 1..n - 1 /\ n - 1 \in 1..n - 1 /\ 1 < p /\ ~(n - 1 < p)
      BY <1>3, <1>4
    <2> QED
      BY <1>3, <1>7, <2>1
  <1>12. Ends(order)'
    BY <1>4, <1>5, <1>7, <1>11 DEF Ends
  <1>13. Return(Status("removed")) /\ Status("removed") \in Answers
    BY DEF TargetIsInside, Status, Answers
  <1> QED
    BY <1>10, <1>12, <1>13, Returned

-----------------------------------------------------------------------------
(* A call enters its loop at the head.                                     *)
LEMMA EnterInv ==
    ASSUME ListInv,
           NEW f \in Scans \cup {"deletelast", "destroylist"},
           NEW a \in Account \cup [username : Name] \cup {NULL},
           f = "deletelast" => nodecount # 0, Enter(f, a)
    PROVE  ListInv'
  <1>1. Shape /\ Ends(order) /\ pc = "idle" /\ p_prev = NULL
    BY ListFacts DEF ListInv, Enter
  <1>2. /\ pc' = f /\ wanted' = a /\ current' = head /\ p_prev' = NULL
        /\ order' = order /\ tail' = tail
    BY <1>1 DEF Enter, struct
  <1>3. order # <<>> => /\ 1 \in DOMAIN order /\ head = order[1]
                        /\ Len(order) \in Nat \ {0}
    BY <1>1 DEF Shape, Ends
  <1>4. order = <<>> => head = NULL /\ nodecount = 0
    BY <1>1 DEF Ends
  <1>5. CursorSafe'
    <2>1. CASE order = <<>>
      BY <1>2, <1>4, <2>1 DEF CursorSafe, Scans, Searches
    <2>2. CASE order # <<>>
      <3>1. /\ 1 \in DOMAIN order' /\ current' = order'[1]
            /\ p_prev' = NULL /\ order' # <<>>
            /\ 1 < Len(order') \/ Len(order') = 1
        <4>1. \A x \in Nat \ {0} : 1 < x \/ x = 1
          OBVIOUS
        <4>2. 1 < Len(order) \/ Len(order) = 1
          BY <1>3, <2>2, <4>1, Zenon
        <4> QED
          BY <1>2, <1>3, <2>2, <4>2
      <3> QED
        BY <1>2, <3>1 DEF CursorSafe, Scans, Searches
    <2> QED
      BY <2>1, <2>2
  <1>6. current' \in Node \cup {NULL}
    BY <1>2 DEF ListInv, TypeOK
  <1>7. UNCHANGED <<struct, heap, answer, order>>
    BY DEF Enter
  <1> QED
    BY <1>1, <1>2, <1>5, <1>6, <1>7, Walked

(* delete_find and the two searches go on to the next node.                *)
LEMMA ScanNextInv == ListInv /\ ScanNext => ListInv'
  <1> SUFFICES ASSUME ListInv, ScanNext PROVE ListInv'
    OBVIOUS
  <1>1. /\ Shape /\ pc \in Scans /\ current # NULL
        /\ pc # "destroylist" /\ pc # "deletelast"
    BY ListFacts DEF ListInv, ScanNext, Miss, Scans, Searches
  <1>2. /\ UNCHANGED <<struct, heap, answer, order>> /\ pc' = pc /\ wanted' = wanted
        /\ current' = heap[current].next
        /\ p_prev' = IF pc = "deletetarget" THEN current ELSE NULL
    BY DEF ScanNext
  <1>3. PICK i \in DOMAIN order : current = order[i]
    BY <1>1 DEF ListInv, CursorSafe
  <1>4. /\ Len(order) \in Nat /\ DOMAIN order = 1..Len(order)
        /\ heap[current].next = IF i = Len(order) THEN NULL ELSE order[i + 1]
    BY <1>1, <1>3 DEF Shape, Chain
  <1>5. CursorSafe'
    <2>1. CASE i = Len(order)
      BY <1>1, <1>2, <1>4, <2>1 DEF CursorSafe
    <2>2. CASE i # Len(order)
      <3>1. /\ i + 1 \in DOMAIN order /\ i + 1 # 1 /\ (i + 1) - 1 = i
            /\ current' = order[i + 1]
        BY <1>2, <1>4, <2>2
      <3>2. pc' = "deletetarget" => p_prev' = order[(i + 1) - 1]
        BY <1>2, <1>3, <3>1
      <3>3. \E j \in DOMAIN order' :
               /\ current' = order'[j]
               /\ pc' = "deletetarget" =>
                    p_prev' = IF j = 1 THEN NULL ELSE order'[j - 1]
        BY <1>2, <3>1, <3>2
      <3> QED
        BY <1>1, <1>2, <3>3 DEF CursorSafe
    <2> QED
      BY <2>1, <2>2
  <1>6. current \in Node /\ current' \in Node \cup {NULL}
    <2>1. current \in DOMAIN heap
      BY <1>1, <1>3 DEF Shape, Chain
    <2> QED
      BY <1>1, <1>2, <2>1 DEF Shape, Cell
  <1>7. /\ wanted' \in Account \cup [username : Name] \cup {NULL}
        /\ p_prev' \in Node \cup {NULL}
        /\ pc' # "deletetarget" => p_prev' = NULL
    BY <1>2, <1>6 DEF ListInv, TypeOK
  <1> QED
    BY <1>1, <1>2, <1>5, <1>6, <1>7, Walked

(* A scan came to the end and returns.                                     *)
LEMMA ScanEndInv == ListInv /\ ScanEnd => ListInv'
  <1> SUFFICES ASSUME ListInv, ScanEnd PROVE ListInv'
    OBVIOUS
  <1> DEFINE s == Status(IF pc = "deletetarget" THEN "absent" ELSE "none")
  <1>1. s \in Answers /\ Return(s) /\ pc # "destroylist"
    BY DEF ScanEnd, Status, Answers, Scans, Searches
  <1>2. UNCHANGED <<struct, heap, order>>
    BY DEF ScanEnd
  <1> QED
    BY <1>1, <1>2, LookedUp

(* A search returns the account it stands on.                              *)
LEMMA FindReturnsInv == ListInv /\ FindReturns => ListInv'
  <1> SUFFICES ASSUME ListInv, FindReturns PROVE ListInv'
    OBVIOUS
  <1>1. /\ Shape /\ pc \in Searches /\ current # NULL
        /\ Return(Found(heap[current].account))
        /\ UNCHANGED <<struct, heap, order>>
    BY ListFacts DEF ListInv, FindReturns, Hit
  <1>2. current \in DOMAIN heap
    BY <1>1 DEF ListInv, CursorSafe, Scans, Shape, Chain
  <1>3. Found(heap[current].account) \in Answers
    BY <1>1, <1>2 DEF Shape, Cell, Found, Answers
  <1> QED
    BY <1>1, <1>3, LookedUp DEF Searches

(* deletetarget calls deletelast for the tail.                             *)
LEMMA TargetIsTailInv == ListInv /\ TargetIsTail => ListInv'
  <1> SUFFICES ASSUME ListInv, TargetIsTail PROVE ListInv'
    OBVIOUS
  <1>1. /\ Shape /\ Ends(order) /\ pc = "deletetarget" /\ current # NULL
        /\ UNCHANGED <<struct, heap, answer, order>> /\ wanted' = wanted
        /\ pc' = "deletelast" /\ current' = head /\ p_prev' = NULL
    BY ListFacts DEF ListInv, TargetIsTail, Hit
  <1>2. PICK i \in DOMAIN order : current = order[i]
    BY <1>1 DEF ListInv, CursorSafe, Scans
  <1>3. /\ order # <<>> /\ 1 \in DOMAIN order /\ head = order[1]
        /\ 1 < Len(order) \/ Len(order) = 1
    BY <1>1, <1>2 DEF Shape, Ends
  <1>4. CursorSafe'
    BY <1>1, <1>3 DEF CursorSafe, Scans, Searches
  <1>5. /\ wanted' \in Account \cup [username : Name] \cup {NULL}
        /\ current' \in Node \cup {NULL}
    BY <1>1 DEF ListInv, TypeOK
  <1> QED
    BY <1>1, <1>4, <1>5, Walked

(* deletelast's loop goes on as long as the tail is further on.            *)
LEMMA WalkToTailInv == ListInv /\ WalkToTail => ListInv'
  <1> SUFFICES ASSUME ListInv, WalkToTail PROVE ListInv'
    OBVIOUS
  <1>1. /\ Shape /\ Ends(order) /\ pc = "deletelast" /\ p_prev = NULL
        /\ UNCHANGED <<struct, heap, answer, order>> /\ wanted' = wanted
        /\ pc' = pc /\ current' = heap[current].next /\ p_prev' = p_prev
        /\ nodecount # 1 /\ heap[current].next # tail
    BY ListFacts DEF ListInv, WalkToTail, BeforeTail
  <1>2. PICK i \in DOMAIN order :
           current = order[i] /\ (i < Len(order) \/ Len(order) = 1)
    BY <1>1 DEF ListInv, CursorSafe
  <1>3. /\ Len(order) \in Nat \ {0} /\ DOMAIN order = 1..Len(order) /\ order # <<>>
        /\ Len(order) # 1 /\ tail = order[Len(order)]
    BY <1>1, <1>2 DEF Shape, Ends
  <1>4. /\ i + 1 \in DOMAIN order /\ heap[current].next = order[i + 1]
    BY <1>1, <1>2, <1>3 DEF Shape, Chain
  <1>5. i + 1 < Len(order)
    BY <1>1, <1>3, <1>4
  <1>6. CursorSafe'
    BY <1>1, <1>4, <1>5 DEF CursorSafe, Scans, Searches
  <1>7. /\ wanted' \in Account \cup [username : Name] \cup {NULL}
        /\ current' \in Node \cup {NULL}
    BY <1>1, <1>4 DEF ListInv, TypeOK, Shape
  <1> QED
    BY <1>1, <1>6, <1>7, Walked

(* destroylist frees the first node that is left.                          *)
LEMMA DestroyNodeInv == ListInv /\ DestroyNode => ListInv'
  <1> SUFFICES ASSUME ListInv, DestroyNode PROVE ListInv'
    OBVIOUS
  <1>1. /\ Shape /\ pc = "destroylist" /\ pc' = pc /\ current # NULL
        /\ current' = heap[current].next /\ heap' = Without(heap, current)
        /\ order' = RemoveAt(order, 1)
        /\ head' = head /\ tail' = tail /\ nodecount' = nodecount
        /\ wanted' = wanted /\ p_prev' = p_prev /\ answer' = answer
    BY ListFacts DEF ListInv, DestroyNode, struct
  <1>2. order # <<>> /\ current = order[1]
    BY <1>1 DEF ListInv, CursorSafe
  <1>3. /\ Len(order) \in Nat \ {0} /\ 1 \in DOMAIN order
        /\ DOMAIN order = 1..Len(order)
    BY <1>1, <1>2 DEF Shape
  <1>4. /\ order' \in Seq(Node) /\ Len(order') = Len(order) - 1
        /\ \A j \in 1..Len(order) - 1 :
              order'[j] = IF j < 1 THEN order[j] ELSE order[j + 1]
    BY <1>1, <1>3, Removed DEF Shape
  <1>5. Chain(heap', order')
    BY <1>1, <1>2, UnchainFirst DEF Shape
  <1>6. DOMAIN heap' \subseteq DOMAIN heap /\ heap' \in [DOMAIN heap' -> Cell]
    BY <1>1 DEF Without, Shape
  <1>7. heap[current].next = IF Len(order) = 1 THEN NULL ELSE order[1 + 1]
    BY <1>1, <1>2, <1>3 DEF Shape, Chain
  <1>8. current' = IF order' = <<>> THEN NULL ELSE order'[1]
    <2>1. CASE Len(order) = 1
      BY <1>1, <1>4, <1>7, <2>1
    <2>2. CASE Len(order) # 1
      <3>1. 1 \in 1..Len(order) - 1 /\ order' # <<>>
        BY <1>3, <1>4, <2>2
      <3>2. order'[1] = order[1 + 1]
        BY <1>4, <3>1
      <3> QED
        BY <1>1, <1>7, <2>2, <3>1, <3>2
    <2> QED
      BY <2>1, <2>2
  <1>9. current' \in Node \cup {NULL}
    <2>1. current \in DOMAIN heap
      BY <1>1, <1>2, <1>3 DEF Shape, Chain
    <2> QED
      BY <1>1, <2>1 DEF Shape, Cell
  <1>10. TypeOK'
    BY <1>1, <1>4, <1>6, <1>9 DEF ListInv, TypeOK, Allocated, Cell
  <1>11. WellLinked'
    BY <1>1, <1>5 DEF WellLinked, Chain, Allocated
  <1>12. CursorSafe'
    BY <1>1, <1>8 DEF CursorSafe, Scans, Searches
  <1> QED
    BY <1>1, <1>10, <1>11, <1>12 DEF ListInv

(* destroylist resets the struct when no node is left.                     *)
LEMMA DestroyEndsInv == ListInv /\ DestroyEnds => ListInv'
  <1> SUFFICES ASSUME ListInv, DestroyEnds PROVE ListInv'
    OBVIOUS
  <1>1. /\ Shape /\ pc = "destroylist" /\ current = NULL
        /\ head' = NULL /\ tail' = NULL /\ nodecount' = 0
        /\ heap' = heap /\ order' = order /\ Return(answer)
    BY ListFacts DEF ListInv, DestroyEnds, ResetStruct
  <1>2. order = <<>>
    <2>1. order # <<>> => order[1] \in Node
      BY <1>1 DEF Shape
    <2> QED
      BY <1>1, <2>1, NodeAssumption DEF ListInv, CursorSafe
  <1>3. Shape'
    BY <1>1 DEF Shape, Chain
  <1>4. Ends(order)'
    BY <1>1, <1>2 DEF Ends
  <1>5. answer \in Answers
    BY DEF ListInv, TypeOK, Answers
  <1> QED
    BY <1>1, <1>3, <1>4, <1>5, Returned

-----------------------------------------------------------------------------
(* A call that returns at once leaves the list alone.                      *)
LEMMA EmptyInv ==
    ASSUME ListInv, InsertFails \/ DeleteFromEmpty
    PROVE  ListInv'
  <1>1. /\ pc = "idle" /\ UNCHANGED <<struct, heap, order>>
        /\ Return(Status("none")) \/ Return(Status("absent"))
    BY DEF InsertFails, DeleteFromEmpty
  <1>2. Status("none") \in Answers /\ Status("absent") \in Answers
    BY DEF Status, Answers
  <1>3. CASE Return(Status("none"))
    BY <1>1, <1>2, <1>3, LookedUp
  <1>4. CASE Return(Status("absent"))
    BY <1>1, <1>2, <1>4, LookedUp
  <1> QED
    BY <1>1, <1>3, <1>4

(* Every call keeps the invariant.                                         *)
LEMMA CallInv == ListInv /\ Call => ListInv'
  <1> SUFFICES ASSUME ListInv, Call PROVE ListInv'
    OBVIOUS
  <1>1. CASE \E x \in Node, a \in Account : InsertAtTail(x, a)
    BY <1>1, InsertInv
  <1>2. CASE InsertFails \/ DeleteFromEmpty
    BY <1>2, EmptyInv
  <1>3. CASE DeleteFirst
    BY <1>3, DeleteFirstInv
  <1>4. CASE DeleteLast
    BY <1>4, EnterInv DEF DeleteLast
  <1>5. CASE \E u \in Name : Find(u) \/ DeleteTarget(u)
    <2>1. PICK u \in Name : Find(u) \/ DeleteTarget(u)
      BY <1>5
    <2>2. [username |-> u] \in [username : Name]
      OBVIOUS
    <2> QED
      BY <2>1, <2>2, EnterInv DEF Find, DeleteTarget, Scans, Searches
  <1>6. CASE \E a \in Account : FindWithPassword(a)
    BY <1>6, EnterInv DEF FindWithPassword, Scans, Searches
  <1>7. CASE DestroyList
    BY <1>7, EnterInv DEF DestroyList
  <1> QED
    BY <1>1, <1>2, <1>3, <1>4, <1>5, <1>6, <1>7 DEF Call

(* Every call and every step of a loop keeps the list and its cursors.     *)
THEOREM Invariance == Spec => []ListInv
  <1>1. ListInv /\ [Next]_vars => ListInv'
    <2> SUFFICES ASSUME ListInv, [Next]_vars PROVE ListInv'
      OBVIOUS
    <2>1. CASE Call
      BY <2>1, CallInv
    <2>2. CASE Step
      BY <2>2, ScanNextInv, ScanEndInv, FindReturnsInv, TargetIsHeadInv,
         TargetIsTailInv, TargetIsInsideInv, WalkToTailInv, UnlinkTailInv,
         DestroyNodeInv, DestroyEndsInv DEF Step
    <2>3. CASE UNCHANGED vars
      BY <2>3 DEF ListInv, TypeOK, WellLinked, CursorSafe, Allocated, vars,
         struct, locals
    <2> QED
      BY <2>1, <2>2, <2>3 DEF Next
  <1> QED
    BY InitInv, <1>1, PTL DEF Spec

(* Every variable keeps its type; nodecount is at most the nodes there are *)
(* and never negative.                                                     *)
THEOREM TypeCorrect == Spec => []TypeOK
  BY Invariance, PTL DEF ListInv

(* The allocated nodes are one list that the struct describes: no node is  *)
(* lost, linked twice or freed while it is linked.                         *)
THEOREM LinkedCorrect == Spec => []WellLinked
  BY Invariance, PTL DEF ListInv

(* No loop of the library holds a freed node or misses the tail.           *)
THEOREM CursorCorrect == Spec => []CursorSafe
  BY Invariance, PTL DEF ListInv

-----------------------------------------------------------------------------
(* The loop has gone past the node at place j.                             *)
Behind(j) == \A i \in DOMAIN order : order[i] = current => j < i

(* What the loops remember: each has its own arguments, a scan has passed  *)
(* only nodes that it does not look for, and deletetarget calls deletelast *)
(* when the tail alone has the name.                                       *)
ScanInv ==
    /\ pc \in {"idle", "destroylist"} => wanted = NULL
    /\ pc \in {"find", "deletetarget"} => wanted \in [username : Name]
    /\ pc = "find_with_password" => wanted \in Account
    /\ pc = "deletelast" => wanted \in [username : Name] \cup {NULL}
    /\ pc \in Scans =>
          \A j \in DOMAIN order : Behind(j) => ~Matches(order[j])
    /\ pc = "deletelast" /\ wanted # NULL =>
          \A j \in DOMAIN order : Matches(order[j]) <=> j = Len(order)

-----------------------------------------------------------------------------
(* The accounts of the nodes of o.                                         *)
AccountsIn(h, o) == [i \in DOMAIN o |-> h[o[i]].account]

(* A place in o is a place among the accounts.                             *)
LEMMA AccountsPlaces ==
    ASSUME NEW o \in Seq(Node), NEW h, h \in [DOMAIN h -> Cell],
           \A i \in DOMAIN o : o[i] \in DOMAIN h
    PROVE  /\ AccountsIn(h, o) \in Seq(Account)
           /\ Len(AccountsIn(h, o)) = Len(o)
           /\ DOMAIN AccountsIn(h, o) = 1..Len(o)
           /\ DOMAIN o = 1..Len(o)
           /\ Len(o) \in Nat
           /\ \A i \in 1..Len(o) : AccountsIn(h, o)[i] = h[o[i]].account
  <1> DEFINE s == AccountsIn(h, o)
  <1>1. Len(o) \in Nat /\ DOMAIN o = 1..Len(o)
    OBVIOUS
  <1>2. \A i \in 1..Len(o) : h[o[i]].account \in Account
    BY <1>1 DEF Cell
  <1>3. /\ s \in [1..Len(o) -> Account]
        /\ DOMAIN s = 1..Len(o)
        /\ \A i \in 1..Len(o) : s[i] = h[o[i]].account
    BY <1>1, <1>2 DEF AccountsIn
  <1> HIDE DEF s
  <1>4. s \in Seq(Account)
    BY <1>1, <1>3
  <1>5. Len(s) = Len(o)
    BY <1>1, <1>3, <1>4
  <1> QED
    BY <1>1, <1>3, <1>4, <1>5 DEF s

(* A node linked behind the others adds its account at the end.            *)
LEMMA AccountsAppended ==
    ASSUME NEW o \in Seq(Node), NEW x \in Node,
           NEW h, h \in [DOMAIN h -> Cell],
           NEW g, g \in [DOMAIN g -> Cell],
           x \in DOMAIN g,
           \A i \in DOMAIN o :
              /\ o[i] \in DOMAIN h
              /\ o[i] \in DOMAIN g
              /\ g[o[i]].account = h[o[i]].account
    PROVE  AccountsIn(g, Append(o, x)) = Append(AccountsIn(h, o), g[x].account)
  <1> DEFINE n == Len(o)
             ox == Append(o, x)
             s == AccountsIn(h, o)
             a == g[x].account
             sa == Append(s, a)
             t == AccountsIn(g, ox)
  <1>1. /\ s \in Seq(Account) /\ Len(s) = n /\ n \in Nat /\ DOMAIN o = 1..n
        /\ \A i \in 1..n : s[i] = h[o[i]].account
    BY AccountsPlaces
  <1>2. /\ ox \in Seq(Node) /\ Len(ox) = n + 1 /\ ox[n + 1] = x
        /\ \A i \in 1..n : ox[i] = o[i]
    BY AppendProperties
  <1>3. \A i \in DOMAIN ox : ox[i] \in DOMAIN g
    BY <1>1, <1>2
  <1>4. /\ t \in Seq(Account) /\ Len(t) = n + 1
        /\ \A i \in 1..n + 1 : t[i] = g[ox[i]].account
    <2> HIDE DEF ox, n
    <2>1. /\ AccountsIn(g, ox) \in Seq(Account) /\ Len(AccountsIn(g, ox)) = Len(ox)
          /\ \A i \in 1..Len(ox) : AccountsIn(g, ox)[i] = g[ox[i]].account
      BY <1>2, <1>3, AccountsPlaces
    <2> QED
      BY <1>2, <2>1
  <1>5. a \in Account
    BY DEF Cell
  <1>6. /\ sa \in Seq(Account) /\ Len(sa) = n + 1 /\ sa[n + 1] = a
        /\ \A i \in 1..n : sa[i] = s[i]
    <2> HIDE DEF s, a, n
    <2> QED
      BY <1>1, <1>5, AppendProperties
  <1> HIDE DEF sa, t, ox, s, a, n
  <1>7. \A i \in 1..n + 1 : t[i] = sa[i]
    <2>1. t[n + 1] = sa[n + 1]
      BY <1>1, <1>2, <1>4, <1>6 DEF a
    <2>2. \A i \in 1..n : t[i] = sa[i]
      BY <1>1, <1>2, <1>4, <1>6 DEF n
    <2> QED
      BY <1>1, <2>1, <2>2
  <1>8. t = sa
    BY <1>4, <1>6, <1>7, SeqEqual
  <1> QED
    BY <1>8 DEF t, sa, ox, s, a

(* A node taken out takes its account out.                                 *)
LEMMA AccountsRemoved ==
    ASSUME NEW o \in Seq(Node), NEW p \in DOMAIN o,
           NEW h, h \in [DOMAIN h -> Cell],
           NEW g, g \in [DOMAIN g -> Cell],
           \A i \in DOMAIN o : o[i] \in DOMAIN h,
           \A i \in DOMAIN o : i # p =>
              o[i] \in DOMAIN g /\ g[o[i]].account = h[o[i]].account
    PROVE  /\ p \in DOMAIN AccountsIn(h, o)
           /\ AccountsIn(g, RemoveAt(o, p)) = List!RemoveAt(AccountsIn(h, o), p)
  <1> DEFINE n == Len(o)
             r == RemoveAt(o, p)
             s == AccountsIn(h, o)
             t == AccountsIn(g, r)
             q == List!RemoveAt(s, p)
  <1>1. /\ s \in Seq(Account) /\ Len(s) = n /\ n \in Nat /\ DOMAIN o = 1..n
        /\ DOMAIN s = 1..n /\ \A i \in 1..n : s[i] = h[o[i]].account
    BY AccountsPlaces
  <1>2. /\ r \in Seq(Node) /\ Len(r) = n - 1 /\ DOMAIN r = 1..n - 1
        /\ \A i \in 1..n - 1 : r[i] = IF i < p THEN o[i] ELSE o[i + 1]
    BY Removed
  <1>3. \A i \in 1..n - 1 :
          /\ i \in DOMAIN o /\ i + 1 \in DOMAIN o
          /\ i < p => i # p
          /\ ~(i < p) => i + 1 # p
    BY <1>1
  <1> HIDE DEF n, r
  <1>4. \A i \in 1..n - 1 : r[i] \in DOMAIN g
    BY <1>2, <1>3
  <1>5. /\ t = [i \in 1..n - 1 |-> g[r[i]].account]
    BY <1>2 DEF AccountsIn
  <1>6. q = [i \in 1..n - 1 |-> IF i < p THEN s[i] ELSE s[i + 1]]
    BY <1>1 DEF List!RemoveAt
  <1>7. \A i \in 1..n - 1 : g[r[i]].account = IF i < p THEN s[i] ELSE s[i + 1]
    <2> SUFFICES ASSUME NEW i \in 1..n - 1
                 PROVE  g[r[i]].account = IF i < p THEN s[i] ELSE s[i + 1]
      OBVIOUS
    <2>1. CASE i < p
      BY <1>1, <1>2, <1>3, <2>1
    <2>2. CASE ~(i < p)
      BY <1>1, <1>2, <1>3, <2>2
    <2> QED
      BY <2>1, <2>2
  <1> QED
    BY <1>1, <1>5, <1>6, <1>7 DEF r

-----------------------------------------------------------------------------
(* The call that is under way in a function with such arguments.           *)
CallOf(f, w) ==
    LET g == IF f = "deletelast" /\ w # NULL THEN "deletetarget" ELSE f
    IN  CASE g = "find_with_password" ->
               [call |-> g, username |-> w.username, password |-> w.password]
          [] g \in {"find", "deletetarget"} ->
               [call |-> g, username |-> w.username]
          [] OTHER -> [call |-> g]

(* An account is what the arguments ask for.                               *)
Fits(f, w, a) ==
    /\ a.username = w.username
    /\ f = "find_with_password" => a.password = w.password

(* What AccountList is told of each call.                                *)
LEMMA CallCases ==
    ASSUME NEW w
    PROVE  /\ CallOf("idle", w) = [call |-> "idle"]
           /\ CallOf("destroylist", w) = [call |-> "destroylist"]
           /\ CallOf("find", w) = [call |-> "find", username |-> w.username]
           /\ CallOf("deletetarget", w) =
                 [call |-> "deletetarget", username |-> w.username]
           /\ CallOf("find_with_password", w) =
                 [call |-> "find_with_password", username |-> w.username,
                  password |-> w.password]
           /\ CallOf("deletelast", NULL) = [call |-> "deletelast"]
           /\ w # NULL => CallOf("deletelast", w) =
                 [call |-> "deletetarget", username |-> w.username]
  BY DEF CallOf

(* The refinement mapping, before and after a step.                        *)
LEMMA Mapped ==
    /\ Asked = CallOf(pc, wanted)
    /\ pc = "destroylist" => Accounts = <<>>
    /\ pc # "destroylist" => Accounts = AccountsIn(heap, order)
    /\ \A x : Matches(x) <=> Fits(pc, wanted, heap[x].account)
  BY DEF Asked, CallOf, Accounts, AccountsIn, Matches, Fits

(* The same after a step.                                                *)
LEMMA MappedNext ==
    /\ Asked' = CallOf(pc', wanted')
    /\ pc' = "destroylist" => Accounts' = <<>>
    /\ pc' # "destroylist" => Accounts' = AccountsIn(heap', order')
    /\ \A x : Matches(x)' <=> Fits(pc', wanted', heap'[x].account)
  BY DEF Asked, CallOf, Accounts, AccountsIn, Matches, Fits

(* AccountList seeks what the loops of the calls on a name look for.       *)
LEMMA SoughtFits ==
    ASSUME pc \in Scans \/ (pc = "deletelast" /\ wanted # NULL),
           NEW a \in Account
    PROVE  a \in List!Sought <=> Fits(pc, wanted, a)
  <1>1. List!Account = Account
    BY DEF List!Account, Account
  <1>2. a \in List!Sought <=>
          /\ a.username = Asked.username
          /\ Asked.call = "find_with_password" => a.password = Asked.password
    BY <1>1 DEF List!Sought
  <1>3. Asked = CallOf(pc, wanted)
    BY Mapped
  <1>4. CASE pc = "find"
    <2>1. Asked = [call |-> "find", username |-> wanted.username]
      BY <1>3, <1>4, CallCases
    <2> QED
      BY <1>2, <1>4, <2>1 DEF Fits
  <1>5. CASE pc = "deletetarget"
    <2>1. Asked = [call |-> "deletetarget", username |-> wanted.username]
      BY <1>3, <1>5, CallCases
    <2> QED
      BY <1>2, <1>5, <2>1 DEF Fits
  <1>6. CASE pc = "find_with_password"
    <2>1. Asked = [call |-> "find_with_password", username |-> wanted.username,
                  password |-> wanted.password]
      BY <1>3, <1>6, CallCases
    <2> QED
      BY <1>2, <1>6, <2>1 DEF Fits
  <1>7. CASE pc = "deletelast" /\ wanted # NULL
    <2>1. Asked = [call |-> "deletetarget", username |-> wanted.username]
      BY <1>3, <1>7, CallCases
    <2> QED
      BY <1>2, <1>7, <2>1 DEF Fits
  <1> QED
    BY <1>4, <1>5, <1>6, <1>7 DEF Scans, Searches

(* The list as the mapping sees it.                                        *)
LEMMA ListPlaces ==
    ASSUME ListInv, pc # "destroylist"
    PROVE  /\ Accounts \in Seq(Account)
           /\ Accounts = AccountsIn(heap, order)
           /\ Len(Accounts) = Len(order)
           /\ DOMAIN Accounts = 1..Len(order)
           /\ DOMAIN order = 1..Len(order)
           /\ Len(order) \in Nat
           /\ order \in Seq(Node)
           /\ heap \in [DOMAIN heap -> Cell]
           /\ \A i \in DOMAIN order :
                 order[i] \in DOMAIN heap /\ Accounts[i] = heap[order[i]].account
           /\ \A i, j \in DOMAIN order : order[i] = order[j] => i = j
           /\ nodecount = Len(order)
           /\ head = IF order = <<>> THEN NULL ELSE order[1]
           /\ tail = IF order = <<>> THEN NULL ELSE order[Len(order)]
  <1>1. Shape /\ Ends(order)
    BY ListFacts DEF ListInv
  <1>2. /\ order \in Seq(Node) /\ heap \in [DOMAIN heap -> Cell]
        /\ \A i \in DOMAIN order : order[i] \in DOMAIN heap
        /\ \A i, j \in DOMAIN order : order[i] = order[j] => i = j
    BY <1>1 DEF Shape, Chain
  <1>3. Accounts = AccountsIn(heap, order)
    BY Mapped
  <1>4. /\ AccountsIn(heap, order) \in Seq(Account)
        /\ Len(AccountsIn(heap, order)) = Len(order)
        /\ DOMAIN AccountsIn(heap, order) = 1..Len(order)
        /\ DOMAIN order = 1..Len(order)
        /\ Len(order) \in Nat
        /\ \A i \in 1..Len(order) : AccountsIn(heap, order)[i] = heap[order[i]].account
    BY <1>2, AccountsPlaces
  <1> QED
    BY <1>1, <1>2, <1>3, <1>4 DEF Ends

-----------------------------------------------------------------------------
(* A call that has returned, or a list that is being destroyed, looks for  *)
(* nothing.                                                                *)
LEMMA NothingWanted ==
    ASSUME pc' \in {"idle", "destroylist"}, wanted' = NULL
    PROVE  ScanInv'
  BY DEF ScanInv, Scans, Searches

(* A loop begins with nothing behind it.                                   *)
LEMMA EnterScan ==
    ASSUME ListInv,
           NEW f \in Scans \cup {"deletelast"}, NEW a, Enter(f, a),
           f \in {"find", "deletetarget"} => a \in [username : Name],
           f = "find_with_password" => a \in Account,
           f = "deletelast" => a = NULL
    PROVE  ScanInv'
  <1>1. /\ pc = "idle" /\ pc' = f /\ wanted' = a /\ current' = head
        /\ order' = order
    BY DEF Enter
  <1>2. ASSUME NEW j \in DOMAIN order, Behind(j)' PROVE FALSE
    <2>1. /\ DOMAIN order = 1..Len(order) /\ Len(order) \in Nat
          /\ head = IF order = <<>> THEN NULL ELSE order[1]
      BY <1>1, ListPlaces
    <2>2. 1 \in DOMAIN order /\ order # <<>>
      BY <2>1
    <2>3. j < 1
      BY <1>1, <1>2, <2>1, <2>2 DEF Behind
    <2> QED
      BY <2>1, <2>3
  <1> QED
    BY <1>1, <1>2 DEF ScanInv, Scans, Searches

(* A scan goes on behind a node that it does not look for.                 *)
LEMMA ScanNextScan ==
    ASSUME ListInv, ScanInv, ScanNext
    PROVE  ScanInv'
  <1>1. /\ pc \in Scans /\ current # NULL /\ ~Matches(current)
        /\ pc' = pc /\ wanted' = wanted /\ heap' = heap /\ order' = order
        /\ current' = heap[current].next
    BY DEF ScanNext, Miss
  <1>2. PICK i \in DOMAIN order : current = order[i]
    BY <1>1 DEF ListInv, CursorSafe
  <1>3. /\ DOMAIN order = 1..Len(order) /\ Len(order) \in Nat
        /\ \A k, l \in DOMAIN order : order[k] = order[l] => k = l
    BY <1>1, ListPlaces DEF Scans, Searches
  <1>4. heap[current].next = IF i = Len(order) THEN NULL ELSE order[i + 1]
    BY <1>2 DEF ListInv, WellLinked
  <1>5. ASSUME NEW j \in DOMAIN order, Behind(j)'
        PROVE  ~Matches(order[j])
    <2>1. j <= i
      <3>1. CASE i = Len(order)
        BY <1>3, <3>1
      <3>2. CASE i # Len(order)
        <4>1. i + 1 \in DOMAIN order
          BY <1>3, <3>2
        <4>2. j < i + 1
          BY <1>1, <1>4, <1>5, <3>2, <4>1 DEF Behind
        <4> QED
          BY <1>3, <4>2
      <3> QED
        BY <3>1, <3>2
    <2>2. CASE j = i
      BY <1>1, <1>2, <2>2
    <2>3. CASE j # i
      <3>1. j < i
        BY <1>3, <2>1, <2>3
      <3>2. Behind(j)
        BY <1>2, <1>3, <3>1 DEF Behind
      <3> QED
        BY <1>1, <3>2 DEF ScanInv
    <2> QED
      BY <2>2, <2>3
  <1>6. \A x : Matches(x)' <=> Matches(x)
    BY <1>1 DEF Matches
  <1>7. pc # "deletelast"
    BY <1>1 DEF Scans, Searches
  <1> QED
    BY <1>1, <1>5, <1>6, <1>7 DEF ScanInv

(* deletetarget passes to deletelast a list of which only the tail fits.   *)
LEMMA TargetIsTailScan ==
    ASSUME ListInv, ScanInv, TargetIsTail
    PROVE  ScanInv'
  <1>1. /\ pc = "deletetarget" /\ Matches(current) /\ current = tail
        /\ current # NULL
        /\ pc' = "deletelast" /\ wanted' = wanted /\ heap' = heap
        /\ order' = order
    BY DEF TargetIsTail, Hit, IsTail
  <1>2. /\ DOMAIN order = 1..Len(order) /\ Len(order) \in Nat
        /\ tail = IF order = <<>> THEN NULL ELSE order[Len(order)]
        /\ \A k, l \in DOMAIN order : order[k] = order[l] => k = l
    BY <1>1, ListPlaces
  <1>3. ASSUME NEW j \in DOMAIN order
        PROVE  Matches(order[j]) <=> j = Len(order)
    <2>1. order # <<>> /\ current = order[Len(order)] /\ Len(order) \in DOMAIN order
      BY <1>1, <1>2
    <2>2. j # Len(order) => Behind(j)
      BY <1>2, <2>1 DEF Behind
    <2> QED
      BY <1>1, <2>1, <2>2 DEF ScanInv, Scans
  <1>4. \A x : Matches(x)' <=> Matches(x)
    BY <1>1 DEF Matches
  <1> QED
    BY <1>1, <1>3, <1>4 DEF ScanInv, Scans, Searches

(* Every other step returns, or leaves what is looked for as it is.        *)
LEMMA ScanStep ==
    ASSUME ListInv, ScanInv, [Next]_vars
    PROVE  ScanInv'
  <1>1. CASE \/ \E x \in Node, a \in Account : InsertAtTail(x, a)
             \/ InsertFails \/ DeleteFirst \/ DeleteFromEmpty
             \/ ScanEnd \/ FindReturns \/ TargetIsHead \/ TargetIsInside
             \/ UnlinkTail \/ DestroyEnds
    <2>1. pc' = "idle" /\ wanted' = NULL
      BY <1>1 DEF InsertAtTail, InsertFails, DeleteFirst, DeleteFromEmpty, ScanEnd,
         FindReturns, TargetIsHead, TargetIsInside, UnlinkTail, DestroyEnds, Return
    <2> QED
      BY <2>1, NothingWanted
  <1>2. CASE DeleteLast
    BY <1>2, EnterScan DEF DeleteLast, Scans, Searches
  <1>3. CASE \E u \in Name : Find(u)
    <2>1. PICK u \in Name : Enter("find", [username |-> u])
      BY <1>3 DEF Find
    <2>2. [username |-> u] \in [username : Name]
      OBVIOUS
    <2> QED
      BY <2>1, <2>2, EnterScan DEF Scans, Searches
  <1>4. CASE \E u \in Name : DeleteTarget(u)
    <2>1. PICK u \in Name : Enter("deletetarget", [username |-> u])
      BY <1>4 DEF DeleteTarget
    <2>2. [username |-> u] \in [username : Name]
      OBVIOUS
    <2> QED
      BY <2>1, <2>2, EnterScan DEF Scans, Searches
  <1>5. CASE \E a \in Account : FindWithPassword(a)
    BY <1>5, EnterScan DEF FindWithPassword, Scans, Searches
  <1>6. CASE DestroyList
    BY <1>6, NothingWanted DEF DestroyList, Enter
  <1>7. CASE DestroyNode
    BY <1>7, NothingWanted DEF DestroyNode, ScanInv
  <1>8. CASE WalkToTail
    <2>1. /\ pc = "deletelast" /\ pc' = pc /\ wanted' = wanted /\ heap' = heap
          /\ order' = order
      BY <1>8 DEF WalkToTail
    <2>2. \A x : Matches(x)' <=> Matches(x)
      BY <2>1 DEF Matches
    <2> QED
      BY <2>1, <2>2 DEF ScanInv, Scans, Searches
  <1>9. CASE UNCHANGED vars
    BY <1>9 DEF ScanInv, Behind, Matches, vars, struct, locals
  <1> QED
    BY <1>1, <1>2, <1>3, <1>4, <1>5, <1>6, <1>7, <1>8, <1>9, ScanNextScan,
       TargetIsTailScan DEF Next, Call, Step

-----------------------------------------------------------------------------
(* No node is there at first, and no call under way.                       *)
LEMMA InitRefines == Init => ScanInv /\ List!Init
  <1> SUFFICES ASSUME Init PROVE ScanInv /\ List!Init
    OBVIOUS
  <1>1. /\ pc = "idle" /\ wanted = NULL /\ order = <<>>
        /\ answer = Status("none")
    BY DEF Init
  <1>2. ScanInv
    BY <1>1 DEF ScanInv, Scans, Searches
  <1>3. Asked = List!NoCall
    BY <1>1, Mapped, CallCases DEF List!NoCall
  <1>4. Accounts = <<>>
    BY <1>1 DEF Accounts
  <1> QED
    BY <1>1, <1>2, <1>3, <1>4 DEF List!Init, List!Status, Status

(* What Return does is what AccountList calls an answer.                   *)
LEMMA ReturnAnswers ==
    ASSUME NEW s, Return(s)
    PROVE  List!Answer(s) /\ pc' # "destroylist"
  <1>1. pc' = "idle" /\ answer' = s
    BY DEF Return
  <1>2. Asked' = List!NoCall
    BY <1>1, MappedNext, CallCases DEF List!NoCall
  <1> QED
    BY <1>1, <1>2 DEF List!Answer

(* Between the calls AccountList has none under way.                       *)
LEMMA IdleAsksNothing ==
    ASSUME pc = "idle"
    PROVE  Asked = List!NoCall /\ pc # "destroylist"
  BY Mapped, CallCases DEF List!NoCall

(* A list that is left as it is holds the same accounts.                   *)
LEMMA SameAccounts ==
    ASSUME pc # "destroylist", pc' # "destroylist", heap' = heap, order' = order
    PROVE  Accounts' = Accounts
  BY Mapped, MappedNext

(* A node taken out at place p takes the account there out.                *)
LEMMA AccountTakenOut ==
    ASSUME ListInv, pc # "destroylist", pc' # "destroylist",
           NEW p \in DOMAIN order, order' = RemoveAt(order, p),
           heap' \in [DOMAIN heap' -> Cell],
           \A i \in DOMAIN order : i # p =>
              /\ order[i] \in DOMAIN heap'
              /\ heap'[order[i]].account = heap[order[i]].account
    PROVE  p \in DOMAIN Accounts /\ Accounts' = List!RemoveAt(Accounts, p)
  <1>1. /\ order \in Seq(Node) /\ heap \in [DOMAIN heap -> Cell]
        /\ \A i \in DOMAIN order : order[i] \in DOMAIN heap
        /\ Accounts = AccountsIn(heap, order)
    BY ListPlaces
  <1>2. Accounts' = AccountsIn(heap', RemoveAt(order, p))
    BY MappedNext
  <1>3. /\ p \in DOMAIN AccountsIn(heap, order)
        /\ AccountsIn(heap', RemoveAt(order, p))
             = List!RemoveAt(AccountsIn(heap, order), p)
    BY <1>1, AccountsRemoved
  <1> QED
    BY <1>1, <1>2, <1>3

(* The scan has found the first account that is sought.                    *)
LEMMA HitIsFirst ==
    ASSUME ListInv, ScanInv, Hit
    PROVE  \E i \in DOMAIN order : current = order[i] /\ List!FirstAt(i)
  <1>1. pc \in Scans /\ current # NULL /\ Matches(current)
    BY DEF Hit
  <1>2. PICK i \in DOMAIN order : current = order[i]
    BY <1>1 DEF ListInv, CursorSafe
  <1>3. /\ DOMAIN order = 1..Len(order) /\ Len(order) \in Nat
        /\ DOMAIN Accounts = 1..Len(order)
        /\ Accounts \in Seq(Account)
        /\ \A j \in DOMAIN order : Accounts[j] = heap[order[j]].account
        /\ \A k, l \in DOMAIN order : order[k] = order[l] => k = l
    BY <1>1, ListPlaces DEF Scans, Searches
  <1>4. \A j \in DOMAIN order : Accounts[j] \in Account
    BY <1>3
  <1>5. ASSUME NEW j \in DOMAIN order
        PROVE  Accounts[j] \in List!Sought <=> Matches(order[j])
    BY <1>1, <1>3, <1>4, SoughtFits, Mapped
  <1>6. Accounts[i] \in List!Sought
    BY <1>1, <1>2, <1>5
  <1>7. ASSUME NEW j \in 1..i - 1
        PROVE  Accounts[j] \notin List!Sought
    <2>1. j \in DOMAIN order /\ j < i
      BY <1>3
    <2>2. Behind(j)
      BY <1>2, <1>3, <2>1 DEF Behind
    <2> QED
      BY <1>1, <1>5, <2>1, <2>2 DEF ScanInv
  <1>8. List!FirstAt(i)
    BY <1>3, <1>6, <1>7 DEF List!FirstAt
  <1> QED
    BY <1>2, <1>8

(* A scan that has come to the end has not found any.                      *)
LEMMA EndIsNone ==
    ASSUME ListInv, ScanInv, pc \in Scans, current = NULL
    PROVE  List!NoneSought
  <1>1. /\ DOMAIN order = 1..Len(order)
        /\ DOMAIN Accounts = 1..Len(order)
        /\ Accounts \in Seq(Account)
        /\ order \in Seq(Node)
        /\ \A j \in DOMAIN order : Accounts[j] = heap[order[j]].account
    BY ListPlaces DEF Scans, Searches
  <1>2. \A j \in DOMAIN order : Accounts[j] \in Account /\ order[j] # NULL
    BY <1>1, NodeAssumption
  <1>3. ASSUME NEW j \in DOMAIN order
        PROVE  Accounts[j] \notin List!Sought
    <2>1. Behind(j)
      BY <1>2 DEF Behind
    <2>2. ~Matches(order[j])
      BY <2>1 DEF ScanInv
    <2> QED
      BY <1>1, <1>2, <2>2, SoughtFits, Mapped
  <1> QED
    BY <1>1, <1>3 DEF List!NoneSought

-----------------------------------------------------------------------------
(* inserttail adds its account behind the others.                          *)
LEMMA InsertRefines ==
    ASSUME ListInv, ListInv', NEW x \in Node, NEW a \in Account, InsertAtTail(x, a)
    PROVE  List!Add(a)
  <1>1. /\ pc = "idle" /\ x \notin DOMAIN heap /\ LinkAtTail(x, a)
        /\ order' = Append(order, x) /\ Return(Found(a))
    BY DEF InsertAtTail
  <1>2. /\ order \in Seq(Node) /\ heap \in [DOMAIN heap -> Cell]
        /\ \A i \in DOMAIN order : order[i] \in DOMAIN heap
        /\ Accounts = AccountsIn(heap, order)
    BY <1>1, ListPlaces
  <1>3. heap' \in [DOMAIN heap' -> Cell]
    BY DEF ListInv, TypeOK, Allocated, Cell
  <1>4. /\ x \in DOMAIN heap' /\ heap'[x].account = a
        /\ \A z \in DOMAIN heap :
              z \in DOMAIN heap' /\ heap'[z].account = heap[z].account
    <2> DEFINE k == IF nodecount = 0 THEN heap ELSE [heap EXCEPT ![tail].next = x]
    <2>1. heap' = With(k, x, [account |-> a, next |-> NULL])
      BY <1>1 DEF LinkAtTail
    <2>2. /\ DOMAIN k = DOMAIN heap
          /\ \A z \in DOMAIN heap : k[z].account = heap[z].account
      BY <1>2 DEF Cell
    <2> HIDE DEF k
    <2>3. /\ DOMAIN heap' = DOMAIN heap \cup {x}
          /\ heap'[x] = [account |-> a, next |-> NULL]
          /\ \A z \in DOMAIN heap : heap'[z] = k[z]
      BY <1>1, <2>1, <2>2 DEF With
    <2> QED
      BY <2>2, <2>3
  <1>5. AccountsIn(heap', Append(order, x)) = Append(AccountsIn(heap, order), a)
    <2>1. \A i \in DOMAIN order :
             /\ order[i] \in DOMAIN heap
             /\ order[i] \in DOMAIN heap'
             /\ heap'[order[i]].account = heap[order[i]].account
      BY <1>2, <1>4
    <2>2. AccountsIn(heap', Append(order, x))
            = Append(AccountsIn(heap, order), heap'[x].account)
      BY <1>2, <1>3, <1>4, <2>1, AccountsAppended
    <2> QED
      BY <1>4, <2>2
  <1>6. List!Answer(Found(a)) /\ pc' # "destroylist"
    BY <1>1, ReturnAnswers
  <1>7. Accounts' = Append(Accounts, a)
    BY <1>1, <1>2, <1>5, <1>6, MappedNext
  <1>8. Asked = List!NoCall
    BY <1>1, IdleAsksNothing
  <1> QED
    BY <1>6, <1>7, <1>8 DEF List!Add, List!Found, Found

(* Unlinking the head takes the first account out.                         *)
LEMMA UnlinkHeadRefines ==
    ASSUME ListInv, ListInv', pc # "destroylist", pc' # "destroylist",
           nodecount # 0, UnlinkHead
    PROVE  1 \in DOMAIN Accounts /\ Accounts' = List!RemoveAt(Accounts, 1)
  <1>1. /\ DOMAIN order = 1..Len(order) /\ Len(order) \in Nat
        /\ nodecount = Len(order) /\ heap \in [DOMAIN heap -> Cell]
        /\ head = IF order = <<>> THEN NULL ELSE order[1]
        /\ \A i \in DOMAIN order : order[i] \in DOMAIN heap
        /\ \A k, l \in DOMAIN order : order[k] = order[l] => k = l
    BY ListPlaces
  <1>2. 1 \in DOMAIN order /\ head = order[1]
    BY <1>1
  <1>3. heap' = Without(heap, head) /\ order' = RemoveAt(order, 1)
    BY DEF UnlinkHead
  <1>4. heap' \in [DOMAIN heap' -> Cell]
    BY DEF ListInv, TypeOK, Allocated, Cell
  <1>5. \A z \in DOMAIN heap \ {head} :
           z \in DOMAIN heap' /\ heap'[z].account = heap[z].account
    BY <1>1, <1>3 DEF Without
  <1>6. \A i \in DOMAIN order : i # 1 =>
           /\ order[i] \in DOMAIN heap'
           /\ heap'[order[i]].account = heap[order[i]].account
    BY <1>1, <1>2, <1>5
  <1> QED
    BY <1>2, <1>3, <1>4, <1>6, AccountTakenOut

(* deletefirst removes the first account, or finds none.                   *)
LEMMA DeleteFirstRefines ==
    ASSUME ListInv, ListInv', DeleteFirst \/ DeleteFromEmpty
    PROVE  List!RemoveFirst
  <1>1. pc = "idle" /\ Asked = List!NoCall
    BY IdleAsksNothing DEF DeleteFirst, DeleteFromEmpty
  <1>2. /\ Len(Accounts) = Len(order) /\ nodecount = Len(order)
        /\ Accounts \in Seq(Account) /\ DOMAIN Accounts = 1..Len(order)
    BY <1>1, ListPlaces
  <1>3. CASE DeleteFirst
    <2>1. nodecount # 0 /\ UnlinkHead /\ Return(Status("removed"))
      BY <1>3 DEF DeleteFirst
    <2>2. List!Answer(Status("removed")) /\ pc' # "destroylist"
      BY <2>1, ReturnAnswers
    <2>3. Accounts # <<>> /\ Accounts' = List!RemoveAt(Accounts, 1)
      BY <1>1, <1>2, <2>1, <2>2, UnlinkHeadRefines
    <2> QED
      BY <1>1, <2>2, <2>3 DEF List!RemoveFirst, List!Status, Status
  <1>4. CASE DeleteFromEmpty
    <2>1. /\ nodecount = 0 /\ Return(Status("absent"))
          /\ heap' = heap /\ order' = order
      BY <1>4 DEF DeleteFromEmpty
    <2>2. List!Answer(Status("absent")) /\ pc' # "destroylist"
      BY <2>1, ReturnAnswers
    <2>3. Accounts = <<>>
      BY <1>2, <2>1
    <2>4. Accounts' = Accounts
      BY <1>1, <2>1, <2>2, SameAccounts
    <2> QED
      BY <1>1, <2>2, <2>3, <2>4 DEF List!RemoveFirst, List!Status, Status
  <1> QED
    BY <1>3, <1>4

(* Unlinking the tail takes the last account out: deletelast's own, or the *)
(* one that deletetarget looked for.                                       *)
LEMMA UnlinkTailRefines ==
    ASSUME ListInv, ListInv', ScanInv, UnlinkTail
    PROVE  List!RemoveLast \/ List!Remove
  <1> DEFINE n == Len(order)
  <1>1. /\ pc = "deletelast" /\ order' = RemoveAt(order, n)
        /\ Return(Status("removed"))
    BY DEF UnlinkTail
  <1>2. /\ DOMAIN order = 1..n /\ n \in Nat /\ nodecount = n
        /\ Accounts \in Seq(Account) /\ Len(Accounts) = n
        /\ DOMAIN Accounts = 1..n
        /\ heap \in [DOMAIN heap -> Cell]
        /\ tail = IF order = <<>> THEN NULL ELSE order[n]
        /\ \A i \in DOMAIN order : order[i] \in DOMAIN heap
        /\ \A i \in DOMAIN order : Accounts[i] = heap[order[i]].account
        /\ \A k, l \in DOMAIN order : order[k] = order[l] => k = l
    BY <1>1, ListPlaces
  <1>3. n \in DOMAIN order /\ tail = order[n]
    BY <1>1, <1>2 DEF ListInv, CursorSafe
  <1>4. heap' \in [DOMAIN heap' -> Cell]
    BY DEF ListInv, TypeOK, Allocated, Cell
  <1>5. \A z \in DOMAIN heap \ {tail} :
           z \in DOMAIN heap' /\ heap'[z].account = heap[z].account
    <2>1. CASE nodecount = 1
      BY <1>2, <2>1 DEF UnlinkTail, Without
    <2>2. CASE nodecount # 1
      <3>1. heap' = Without([heap EXCEPT ![current].next = NULL], tail)
        BY <2>2 DEF UnlinkTail
      <3> QED
        <4> DEFINE k == [heap EXCEPT ![current].next = NULL]
        <4>1. /\ DOMAIN k = DOMAIN heap
              /\ \A z \in DOMAIN heap : k[z].account = heap[z].account
          BY <1>2 DEF Cell
        <4>2. heap' = Without(k, tail)
          BY <3>1
        <4> HIDE DEF k
        <4> QED
          BY <4>1, <4>2 DEF Without
    <2> QED
      BY <2>1, <2>2
  <1>6. \A i \in DOMAIN order : i # n =>
           /\ order[i] \in DOMAIN heap'
           /\ heap'[order[i]].account = heap[order[i]].account
    BY <1>2, <1>3, <1>5
  <1>7. List!Answer(Status("removed")) /\ pc' # "destroylist"
    BY <1>1, ReturnAnswers
  <1>8. n \in DOMAIN Accounts /\ Accounts' = List!RemoveAt(Accounts, n)
    BY <1>1, <1>3, <1>4, <1>6, <1>7, AccountTakenOut
  <1>9. CASE wanted = NULL
    <2>1. Asked = [call |-> "deletelast"]
      BY <1>1, <1>9, Mapped, CallCases
    <2>2. Accounts # <<>> /\ n = Len(Accounts)
      BY <1>2, <1>8
    <2> QED
      BY <1>7, <1>8, <2>1, <2>2 DEF List!RemoveLast, List!Status, Status
  <1>10. CASE wanted # NULL
    <2>1. Asked = [call |-> "deletetarget", username |-> wanted.username]
      BY <1>1, <1>10, Mapped, CallCases
    <2>2. \A j \in DOMAIN order : Accounts[j] \in Account
      BY <1>2
    <2>3. ASSUME NEW j \in DOMAIN order
          PROVE  Accounts[j] \in List!Sought <=> j = n
      <3>1. Matches(order[j]) <=> j = n
        BY <1>1, <1>10 DEF ScanInv
      <3>2. Accounts[j] \in List!Sought <=> Fits(pc, wanted, Accounts[j])
        BY <1>1, <1>10, <2>2, SoughtFits
      <3> QED
        BY <1>2, <3>1, <3>2, Mapped
    <2>4. List!FirstAt(n)
      BY <1>2, <1>3, <2>3 DEF List!FirstAt
    <2> QED
      BY <1>7, <1>8, <2>1, <2>4 DEF List!Remove, List!Status, Status
  <1> QED
    BY <1>9, <1>10

(* deletetarget removes the first account of the name, wherever it stands. *)
LEMMA TargetRefines ==
    ASSUME ListInv, ListInv', ScanInv, TargetIsHead \/ TargetIsInside
    PROVE  List!Remove
  <1>1. pc = "deletetarget" /\ Hit /\ Return(Status("removed"))
    BY DEF TargetIsHead, TargetIsInside
  <1>2. PICK i \in DOMAIN order : current = order[i] /\ List!FirstAt(i)
    BY <1>1, HitIsFirst
  <1>3. /\ DOMAIN order = 1..Len(order) /\ Len(order) \in Nat
        /\ nodecount = Len(order)
        /\ heap \in [DOMAIN heap -> Cell]
        /\ head = IF order = <<>> THEN NULL ELSE order[1]
        /\ \A k \in DOMAIN order : order[k] \in DOMAIN heap
        /\ \A k, l \in DOMAIN order : order[k] = order[l] => k = l
    BY <1>1, ListPlaces
  <1>4. List!Answer(Status("removed")) /\ pc' # "destroylist"
    BY <1>1, ReturnAnswers
  <1>5. Accounts' = List!RemoveAt(Accounts, i)
    <2>1. CASE TargetIsHead
      <3>1. current = head /\ UnlinkHead
        BY <2>1 DEF TargetIsHead
      <3>2. 1 \in DOMAIN order /\ nodecount # 0 /\ head = order[1]
        BY <1>2, <1>3
      <3>3. i = 1
        BY <1>2, <1>3, <3>1, <3>2
      <3> QED
        BY <1>1, <1>4, <3>1, <3>2, <3>3, UnlinkHeadRefines
    <2>2. CASE TargetIsInside
      <3>1. /\ heap' = Without([heap EXCEPT ![p_prev].next = heap[current].next],
                               current)
            /\ order' = RemoveAt(order, CHOOSE p \in DOMAIN order : order[p] = current)
        BY <2>2 DEF TargetIsInside
      <3>2. (CHOOSE p \in DOMAIN order : order[p] = current) = i
        BY <1>2, <1>3
      <3>3. \A z \in DOMAIN heap \ {current} :
               z \in DOMAIN heap' /\ heap'[z].account = heap[z].account
        <4> DEFINE k == [heap EXCEPT ![p_prev].next = heap[current].next]
        <4>1. /\ DOMAIN k = DOMAIN heap
              /\ \A z \in DOMAIN heap : k[z].account = heap[z].account
          BY <1>3 DEF Cell
        <4>2. heap' = Without(k, current)
          BY <3>1
        <4> HIDE DEF k
        <4> QED
          BY <4>1, <4>2 DEF Without
      <3>4. \A k \in DOMAIN order : k # i =>
               /\ order[k] \in DOMAIN heap'
               /\ heap'[order[k]].account = heap[order[k]].account
        BY <1>2, <1>3, <3>3
      <3>5. heap' \in [DOMAIN heap' -> Cell]
        BY DEF ListInv, TypeOK, Allocated, Cell
      <3>6. order' = RemoveAt(order, i)
        BY <3>1, <3>2
      <3> QED
        BY <1>1, <1>4, <3>4, <3>5, <3>6, AccountTakenOut
    <2> QED
      BY <2>1, <2>2
  <1>6. Asked.call = "deletetarget"
    BY <1>1, Mapped, CallCases
  <1>7. i \in DOMAIN Accounts
    BY <1>2 DEF List!FirstAt
  <1> QED
    BY <1>2, <1>4, <1>5, <1>6, <1>7 DEF List!Remove, List!Status, Status

(* The searches return the first account that fits, deletetarget the lack  *)
(* of one as well.                                                         *)
LEMMA SearchRefines ==
    ASSUME ListInv, ScanInv, FindReturns \/ ScanEnd
    PROVE  List!Search \/ List!Remove
  <1>1. /\ pc \in Scans /\ pc # "destroylist"
        /\ heap' = heap /\ order' = order /\ pc' # "destroylist"
    BY DEF FindReturns, ScanEnd, Hit, Return, Scans, Searches
  <1>2. Accounts' = Accounts
    BY <1>1, SameAccounts
  <1>3. Asked.call = pc
    <2>1. Asked = CallOf(pc, wanted)
      BY Mapped
    <2>2. CASE pc = "find"
      BY <2>1, <2>2, CallCases
    <2>3. CASE pc = "find_with_password"
      BY <2>1, <2>3, CallCases
    <2>4. CASE pc = "deletetarget"
      BY <2>1, <2>4, CallCases
    <2> QED
      BY <1>1, <2>2, <2>3, <2>4 DEF Scans, Searches
  <1>4. CASE FindReturns
    <2>1. Hit /\ pc \in Searches /\ Return(Found(heap[current].account))
      BY <1>4 DEF FindReturns
    <2>2. PICK i \in DOMAIN order : current = order[i] /\ List!FirstAt(i)
      BY <2>1, HitIsFirst
    <2>3. heap[current].account = Accounts[i]
      BY <1>1, <2>2, ListPlaces
    <2>4. List!Answer(Found(Accounts[i]))
      BY <2>1, <2>3, ReturnAnswers
    <2>5. i \in DOMAIN Accounts
      BY <2>2 DEF List!FirstAt
    <2> QED
      BY <1>2, <1>3, <2>1, <2>2, <2>4, <2>5
      DEF List!Search, List!Found, Found, Searches
  <1>5. CASE ScanEnd
    <2>1. /\ current = NULL
          /\ Return(Status(IF pc = "deletetarget" THEN "absent" ELSE "none"))
      BY <1>5 DEF ScanEnd
    <2>2. List!NoneSought
      BY <1>1, <2>1, EndIsNone
    <2>3. List!Answer(Status(IF pc = "deletetarget" THEN "absent" ELSE "none"))
      BY <2>1, ReturnAnswers
    <2>4. CASE pc = "deletetarget"
      BY <1>2, <1>3, <2>2, <2>3, <2>4 DEF List!Remove, List!Status, Status
    <2>5. CASE pc # "deletetarget"
      BY <1>1, <1>2, <1>3, <2>2, <2>3, <2>5
      DEF List!Search, List!Status, Status, Scans, Searches
    <2> QED
      BY <2>4, <2>5
  <1> QED
    BY <1>4, <1>5

(* A call that enters a loop asks; destroylist's clears the list, and takes*)
(* the nodes out unseen.                                                   *)
LEMMA EnterRefines ==
    ASSUME NEW f \in Scans \cup {"deletelast"}, NEW a, Enter(f, a),
           CallOf(f, a) \in List!Calls
    PROVE  List!Ask(CallOf(f, a))
  <1>1. /\ pc = "idle" /\ pc' = f /\ wanted' = a /\ answer' = answer
        /\ heap' = heap /\ order' = order
    BY DEF Enter
  <1>2. Asked = List!NoCall /\ pc # "destroylist"
    BY <1>1, IdleAsksNothing
  <1>3. Asked' = CallOf(f, a)
    BY <1>1, MappedNext
  <1>4. pc' # "destroylist"
    BY <1>1 DEF Scans, Searches
  <1>5. Accounts' = Accounts
    BY <1>1, <1>2, <1>4, SameAccounts
  <1> QED
    BY <1>1, <1>2, <1>3, <1>5 DEF List!Ask

(* destroylist: the accounts are gone when it begins, the rest is memory.  *)
LEMMA DestroyRefines ==
    ASSUME ListInv, ListInv', ScanInv, DestroyList \/ DestroyNode \/ DestroyEnds
    PROVE  \/ List!BeginClear \/ List!EndClear
           \/ UNCHANGED <<Accounts, Asked, answer>>
  <1>1. CASE DestroyList
    <2>1. pc = "idle" /\ pc' = "destroylist" /\ answer' = answer
      BY <1>1 DEF DestroyList, Enter
    <2>2. Asked = List!NoCall
      BY <2>1, IdleAsksNothing
    <2>3. Accounts' = <<>> /\ Asked' = [call |-> "destroylist"]
      BY <2>1, MappedNext, CallCases
    <2> QED
      BY <2>1, <2>2, <2>3 DEF List!BeginClear
  <1>2. CASE DestroyNode
    <2>1. /\ pc = "destroylist" /\ pc' = pc /\ wanted' = wanted
          /\ answer' = answer
      BY <1>2 DEF DestroyNode
    <2> QED
      BY <2>1, Mapped, MappedNext
  <1>3. CASE DestroyEnds
    <2>1. /\ pc = "destroylist" /\ current = NULL /\ Return(answer)
          /\ order' = order
      BY <1>3 DEF DestroyEnds
    <2>2. Accounts = <<>> /\ Asked = [call |-> "destroylist"]
      BY <2>1, Mapped, CallCases
    <2>3. order = <<>>
      <3>1. order # <<>> => order[1] \in Node
        BY DEF ListInv, TypeOK
      <3> QED
        BY <2>1, <3>1, NodeAssumption DEF ListInv, CursorSafe
    <2>4. List!Answer(answer) /\ pc' # "destroylist"
      BY <2>1, ReturnAnswers
    <2>5. Accounts' = <<>>
      <3>1. AccountsIn(heap', <<>>) = <<>>
        BY DEF AccountsIn
      <3> QED
        BY <2>1, <2>3, <2>4, <3>1, MappedNext
    <2> QED
      BY <2>2, <2>4, <2>5 DEF List!EndClear
  <1> QED
    BY <1>1, <1>2, <1>3

(* Steps within a loop are not seen.                                       *)
LEMMA StepsUnseen ==
    ASSUME ScanInv, ScanNext \/ WalkToTail \/ TargetIsTail
    PROVE  UNCHANGED <<Accounts, Asked, answer>>
  <1>1. /\ heap' = heap /\ order' = order /\ answer' = answer
        /\ wanted' = wanted /\ pc # "destroylist" /\ pc' # "destroylist"
    BY DEF ScanNext, WalkToTail, TargetIsTail, Miss, Hit, Scans, Searches
  <1>2. Accounts' = Accounts
    BY <1>1, SameAccounts
  <1>3. Asked' = Asked
    <2>1. CASE TargetIsTail
      <3>1. pc = "deletetarget" /\ pc' = "deletelast" /\ wanted # NULL
        BY <2>1, NullAssumption DEF TargetIsTail, ScanInv
      <3> QED
        BY <1>1, <3>1, Mapped, MappedNext, CallCases
    <2>2. CASE pc' = pc
      BY <1>1, <2>2, Mapped, MappedNext
    <2> QED
      BY <2>1, <2>2 DEF ScanNext, WalkToTail
  <1> QED
    BY <1>1, <1>2, <1>3

(* Every step of the list is a step of AccountList or is not seen there.   *)
LEMMA StepRefines ==
    ASSUME ListInv, ListInv', ScanInv, [Next]_vars
    PROVE  [List!Next]_<<Accounts, Asked, answer>>
  <1> USE DEF List!Next
  <1>1. CASE \E x \in Node, a \in Account : InsertAtTail(x, a)
    <2>1. List!Account = Account
      BY DEF List!Account, Account
    <2> QED
      BY <1>1, <2>1, InsertRefines
  <1>2. CASE InsertFails
    <2>1. /\ pc = "idle" /\ Return(Status("none")) /\ heap' = heap
          /\ order' = order
      BY <1>2 DEF InsertFails
    <2>2. Asked = List!NoCall /\ List!Answer(Status("none"))
      BY <2>1, IdleAsksNothing, ReturnAnswers
    <2>3. Accounts' = Accounts
      BY <2>1, IdleAsksNothing, ReturnAnswers, SameAccounts
    <2> QED
      BY <2>2, <2>3 DEF List!Refuse, List!Status, Status
  <1>3. CASE DeleteFirst \/ DeleteFromEmpty
    BY <1>3, DeleteFirstRefines
  <1>4. CASE DeleteLast
    <2>1. Enter("deletelast", NULL)
      BY <1>4 DEF DeleteLast
    <2>2. CallOf("deletelast", NULL) \in List!Calls
      BY CallCases DEF List!Calls
    <2> QED
      BY <2>1, <2>2, EnterRefines
  <1>5. CASE \E u \in Name : Find(u) \/ DeleteTarget(u)
    <2>1. PICK u \in Name : Find(u) \/ DeleteTarget(u)
      BY <1>5
    <2> DEFINE w == [username |-> u]
    <2>2. w.username = u
      OBVIOUS
    <2> HIDE DEF w
    <2>3. CallOf("find", w) \in List!Calls /\ CallOf("deletetarget", w) \in List!Calls
      BY <2>2, CallCases DEF List!Calls
    <2>4. Enter("find", w) \/ Enter("deletetarget", w)
      BY <2>1 DEF Find, DeleteTarget, w
    <2> QED
      BY <2>3, <2>4, EnterRefines DEF Scans, Searches
  <1>6. CASE \E a \in Account : FindWithPassword(a)
    <2>1. PICK a \in Account : Enter("find_with_password", a)
      BY <1>6 DEF FindWithPassword
    <2>2. a.username \in Name /\ a.password \in Password
      BY DEF Account
    <2>3. CallOf("find_with_password", a) \in List!Calls
      <3>1. CallOf("find_with_password", a) =
              [call |-> "find_with_password", username |-> a.username,
               password |-> a.password]
        BY CallCases
      <3> QED
        BY <2>2, <3>1 DEF List!Calls
    <2> QED
      BY <2>1, <2>3, EnterRefines DEF Scans, Searches
  <1>7. CASE DestroyList \/ DestroyNode \/ DestroyEnds
    BY <1>7, DestroyRefines
  <1>8. CASE ScanNext \/ WalkToTail \/ TargetIsTail
    BY <1>8, StepsUnseen
  <1>9. CASE ScanEnd \/ FindReturns
    BY <1>9, SearchRefines
  <1>10. CASE TargetIsHead \/ TargetIsInside
    BY <1>10, TargetRefines
  <1>11. CASE UnlinkTail
    BY <1>11, UnlinkTailRefines
  <1>12. CASE UNCHANGED vars
    BY <1>12 DEF vars, struct, locals, Accounts, Asked
  <1> QED
    BY <1>1, <1>2, <1>3, <1>4, <1>5, <1>6, <1>7, <1>8, <1>9, <1>10, <1>11,
       <1>12 DEF Next, Call, Step

(* The list of src/library/linked_list.c, with its pointers, its counter   *)
(* and its loops, does what AccountList says: accounts are kept in order,  *)
(* the first that fits is found or removed, and a call ends with one answer*)
(* about the list as it was.                                               *)
THEOREM ListImplementsAccountList == Spec => ImplementsAccountList
  <1>1. Init => ScanInv /\ List!Init
    BY InitRefines
  <1>2. ListInv /\ ScanInv /\ [Next]_vars => ScanInv'
    BY ScanStep
  <1>3. ListInv /\ ListInv' /\ ScanInv /\ [Next]_vars
          => [List!Next]_<<Accounts, Asked, answer>>
    BY StepRefines
  <1> QED
    BY <1>1, <1>2, <1>3, Invariance, PTL
    DEF Spec, ImplementsAccountList, List!Spec, List!listVars
=============================================================================
