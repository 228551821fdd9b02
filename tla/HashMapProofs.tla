--------------------------- MODULE HashMapProofs ---------------------------
(***************************************************************************)
(* Theorems about HashMap, for every set of keys, any hash function into   *)
(* the buckets and any capacities.                                         *)
(***************************************************************************)
EXTENDS HashMap, Functions, TLAPS, FiniteSetTheorems

(* Load of a table below 3/4.                                              *)
Loaded(n, c) == 4 * n < 3 * c

(* The inductive invariant: no table is too full where an insertion may    *)
(* come next, and the new table is one.                                    *)
TableInv ==
    /\ TypeOK
    /\ pc = "idle" => Loaded(numOfElements, capacity)
    /\ pc = "merge" => Loaded(new.numOfElements, new.capacity)
    /\ pc # "idle" =>
          new = [capacity |-> new.capacity, numOfElements |-> new.numOfElements,
                 pp_arr |-> new.pp_arr]

-----------------------------------------------------------------------------
(* Pushing an entry onto its bucket keeps a table a table.                 *)
LEMMA PushTable ==
    ASSUME NEW c, NEW arr, Table(c, arr), NEW e \in Entry
    PROVE  Table(c, Push(arr, Hash(e.key, c), e))
  <1> DEFINE h == Hash(e.key, c)
  <1>1. c \in 1..MaxCapacity /\ arr \in [0..c - 1 -> Seq(Entry)]
    BY DEF Table
  <1>2. h \in 0..c - 1
    BY <1>1, HashAssumption DEF Entry
  <1>3. <<e>> \o arr[h] \in Seq(Entry)
    BY <1>1, <1>2
  <1> QED
    BY <1>1, <1>2, <1>3 DEF Table, Push

(* Pushing keeps every entry in the bucket of its key.                     *)
LEMMA PushInItsBucket ==
    ASSUME NEW c, NEW arr, Table(c, arr), NEW e \in Entry, InItsBucket(c, arr)
    PROVE  InItsBucket(c, Push(arr, Hash(e.key, c), e))
  <1> DEFINE h == Hash(e.key, c)
             arr2 == Push(arr, h, e)
  <1>1. c \in 1..MaxCapacity /\ arr \in [0..c - 1 -> Seq(Entry)]
    BY DEF Table
  <1>2. h \in 0..c - 1
    BY <1>1, HashAssumption DEF Entry
  <1> SUFFICES ASSUME NEW b \in 0..c - 1, NEW i \in DOMAIN arr2[b]
               PROVE  Hash(arr2[b][i].key, c) = b
    BY DEF InItsBucket
  <1>3. CASE b # h
    <2>1. arr2[b] = arr[b]
      BY <1>1, <1>3 DEF Push
    <2> QED
      BY <2>1 DEF InItsBucket
  <1>4. CASE b = h
    <2>1. arr2[b] = <<e>> \o arr[b] /\ arr[b] \in Seq(Entry)
      BY <1>1, <1>2, <1>4 DEF Push
    <2>2. CASE i = 1
      BY <2>1, <2>2, <1>4
    <2>3. CASE i # 1
      <3>1. i - 1 \in DOMAIN arr[b] /\ arr2[b][i] = arr[b][i - 1]
        BY <2>1, <2>3
      <3> QED
        BY <3>1 DEF InItsBucket
    <2> QED
      BY <2>2, <2>3
  <1> QED
    BY <1>3, <1>4

(* An empty table is a table with every entry in its bucket.               *)
LEMMA EmptyTable ==
    ASSUME NEW c \in 1..MaxCapacity
    PROVE  Table(c, Empty(c)) /\ InItsBucket(c, Empty(c))
  BY CapacityAssumption DEF Table, Empty, InItsBucket

(* Taking an entry out of a bucket keeps the others where they are.        *)
LEMMA RemoveFromBucket ==
    ASSUME NEW s \in Seq(Entry), NEW p \in DOMAIN s
    PROVE  /\ RemoveAt(s, p) \in Seq(Entry)
           /\ \A i \in DOMAIN RemoveAt(s, p) :
                 \E j \in DOMAIN s : RemoveAt(s, p)[i] = s[j]
  <1> DEFINE r == RemoveAt(s, p)
  <1>1. Len(s) \in Nat /\ DOMAIN s = 1..Len(s)
    OBVIOUS
  <1>2. DOMAIN r = 1..Len(s) - 1
    BY DEF RemoveAt
  <1>3. ASSUME NEW i \in DOMAIN r
        PROVE  \E j \in DOMAIN s : r[i] = s[j]
    <2>1. i \in DOMAIN s /\ i + 1 \in DOMAIN s
      BY <1>1, <1>2
    <2>2. r[i] = s[i] \/ r[i] = s[i + 1]
      BY <1>2 DEF RemoveAt
    <2> QED
      BY <2>1, <2>2
  <1>4. r \in [1..Len(s) - 1 -> Entry]
    <2>1. \A i \in 1..Len(s) - 1 : r[i] \in Entry
      BY <1>2, <1>3
    <2> QED
      BY <2>1 DEF RemoveAt
  <1>5. Len(s) - 1 \in Nat
    BY <1>1
  <1>6. r \in Seq(Entry)
    BY <1>4, <1>5
  <1> QED
    BY <1>3, <1>6

-----------------------------------------------------------------------------
(* The table starts empty and with room.                                   *)
LEMMA InitInv == Init => TableInv /\ Reachable
  <1> SUFFICES ASSUME Init PROVE TableInv /\ Reachable
    OBVIOUS
  <1> USE DEF Init
  <1>1. InitialCapacity \in 1..MaxCapacity /\ MaxCapacity \in Nat
    BY CapacityAssumption
  <1>2. Table(capacity, pp_arr) /\ InItsBucket(capacity, pp_arr)
    BY <1>1, EmptyTable
  <1>3. TypeOK
    BY <1>1, <1>2 DEF TypeOK, NoAnswer
  <1> QED
    BY <1>1, <1>2, <1>3 DEF TableInv, Loaded, Reachable

(* insert, up to the first step of the merge it may begin.                 *)
LEMMA InsertInv ==
    ASSUME TableInv, Reachable, NEW e \in Entry, Insert(e)
    PROVE  TableInv' /\ Reachable'
  <1> DEFINE n == numOfElements + 1
             arr == Push(pp_arr, Hash(e.key, capacity), e)
             two == Larger(capacity)
  <1>1. /\ TypeOK /\ Loaded(numOfElements, capacity) /\ pc = "idle"
        /\ Table(capacity, pp_arr) /\ capacity \in 1..MaxCapacity
        /\ numOfElements \in 0..capacity /\ MaxCapacity \in Nat
    BY CapacityAssumption DEF TableInv, TypeOK, Insert, Table
  <1>2. Table(capacity, arr) /\ InItsBucket(capacity, arr)
    BY <1>1, PushTable, PushInItsBucket DEF Reachable
  <1>3. n \in 0..capacity
    BY <1>1 DEF Loaded
  <1>4. /\ capacity' = capacity /\ numOfElements' = n /\ pp_arr' = arr
        /\ answer' = answer
    BY DEF Insert
  <1>5. CASE TooFull(n, capacity)
    <2>1. /\ new' = [capacity |-> two, numOfElements |-> 0, pp_arr |-> Empty(two)]
          /\ idx' = 0 /\ rest' = arr[0] /\ pc' = "merge" /\ two <= MaxCapacity
      BY <1>5 DEF Insert
    <2>2. two \in 1..MaxCapacity /\ two \in Nat
      BY <1>1, <2>1 DEF Larger
    <2>3. Table(two, Empty(two)) /\ InItsBucket(two, Empty(two))
      BY <2>2, EmptyTable
    <2>4. rest' \in Seq(Entry) /\ idx' \in 0..capacity - 1
      BY <1>1, <1>2, <2>1 DEF Table
    <2>5. TypeOK'
      BY <1>1, <1>2, <1>3, <1>4, <2>1, <2>2, <2>3, <2>4 DEF TypeOK
    <2>6. Reachable'
      BY <1>2, <1>4, <2>1, <2>3 DEF Reachable
    <2>7. Loaded(new'.numOfElements, new'.capacity)
      BY <2>1, <2>2 DEF Loaded
    <2> QED
      BY <2>1, <2>5, <2>6, <2>7 DEF TableInv
  <1>6. CASE ~TooFull(n, capacity)
    <2>1. new' = new /\ idx' = idx /\ rest' = rest /\ pc' = "idle"
      BY <1>1, <1>6 DEF Insert, merging
    <2>2. TypeOK'
      BY <1>1, <1>2, <1>3, <1>4, <2>1 DEF TypeOK
    <2>3. Loaded(n, capacity)
      BY <1>1, <1>3, <1>6 DEF Loaded, TooFull
    <2>4. Reachable'
      BY <1>2, <1>4, <2>1 DEF Reachable
    <2> QED
      BY <1>4, <2>1, <2>2, <2>3, <2>4 DEF TableInv
  <1> QED
    BY <1>5, <1>6

(* The insertion of an old entry into the new table.                       *)
LEMMA MergeEntryInv ==
    ASSUME TableInv, Reachable, MergeEntry
    PROVE  TableInv' /\ Reachable'
  <1> DEFINE e == Head(rest)
             arr == Push(new.pp_arr, NewBucket(e), e)
             n == new.numOfElements + 1
  <1>1. /\ TypeOK /\ pc = "merge" /\ rest # <<>> /\ rest \in Seq(Entry)
        /\ Table(new.capacity, new.pp_arr) /\ InItsBucket(new.capacity, new.pp_arr)
        /\ new.numOfElements \in 0..new.capacity
        /\ Loaded(new.numOfElements, new.capacity)
        /\ MaxCapacity \in Nat
    BY CapacityAssumption DEF TableInv, TypeOK, MergeEntry, Reachable
  <1>2. e \in Entry /\ Tail(rest) \in Seq(Entry)
    BY <1>1
  <1>3. Table(new.capacity, arr) /\ InItsBucket(new.capacity, arr)
    BY <1>1, <1>2, PushTable, PushInItsBucket DEF NewBucket
  <1>4. new.capacity \in 1..MaxCapacity
    BY <1>1 DEF Table
  <1>5. n \in 0..new.capacity
    BY <1>1, <1>4 DEF Loaded
  <1>6. new' = [capacity |-> new.capacity, numOfElements |-> n, pp_arr |-> arr]
    <2>1. new' = [new EXCEPT !.numOfElements = @ + 1,
                             !.pp_arr = Push(@, NewBucket(e), e)]
      BY DEF MergeEntry
    <2>2. new = [capacity |-> new.capacity, numOfElements |-> new.numOfElements,
                 pp_arr |-> new.pp_arr]
      BY <1>1 DEF TableInv
    <2> QED
      BY <2>1, <2>2
  <1>7. /\ capacity' = capacity /\ numOfElements' = numOfElements
        /\ pp_arr' = pp_arr /\ idx' = idx /\ answer' = answer
        /\ rest' = Tail(rest)
        /\ pc' = IF TooFull(n, new.capacity) THEN "nested" ELSE "merge"
    BY <1>6 DEF MergeEntry, table
  <1>8. TypeOK'
    BY <1>1, <1>2, <1>3, <1>5, <1>6, <1>7 DEF TypeOK
  <1>9. Reachable'
    BY <1>3, <1>6, <1>7 DEF Reachable
  <1>10. pc' = "merge" => Loaded(n, new.capacity)
    BY <1>4, <1>5, <1>7 DEF Loaded, TooFull
  <1> QED
    BY <1>6, <1>7, <1>8, <1>9, <1>10 DEF TableInv

(* The merge goes on with the old table's next bucket.                     *)
LEMMA MergeBucketInv ==
    ASSUME TableInv, Reachable, MergeBucket
    PROVE  TableInv' /\ Reachable'
  <1>1. /\ TypeOK /\ pc = "merge" /\ idx \in 0..capacity - 1
        /\ Table(capacity, pp_arr) /\ capacity \in 1..MaxCapacity
        /\ MaxCapacity \in Nat /\ idx # capacity - 1
    BY CapacityAssumption DEF TableInv, TypeOK, MergeBucket, Table, LastBucket
  <1>2. /\ capacity' = capacity /\ numOfElements' = numOfElements
        /\ pp_arr' = pp_arr /\ new' = new /\ pc' = pc /\ answer' = answer
        /\ idx' = idx + 1 /\ rest' = pp_arr[idx + 1]
    BY DEF MergeBucket, table
  <1>3. idx + 1 \in 0..capacity - 1
    BY <1>1
  <1>4. rest' \in Seq(Entry)
    BY <1>1, <1>2, <1>3 DEF Table
  <1>5. TypeOK'
    BY <1>1, <1>2, <1>3, <1>4 DEF TypeOK
  <1>6. Reachable'
    BY <1>2 DEF Reachable
  <1> QED
    BY <1>1, <1>2, <1>5, <1>6 DEF TableInv

(* The new table takes the place of the old one.                           *)
LEMMA MergeEndsInv ==
    ASSUME TableInv, Reachable, MergeEnds
    PROVE  TableInv' /\ Reachable'
  <1>1. /\ TypeOK /\ pc = "merge" /\ rest \in Seq(Entry)
        /\ Table(new.capacity, new.pp_arr) /\ InItsBucket(new.capacity, new.pp_arr)
        /\ new.numOfElements \in 0..new.capacity
        /\ Loaded(new.numOfElements, new.capacity)
        /\ MaxCapacity \in Nat
    BY CapacityAssumption DEF TableInv, TypeOK, MergeEnds, Reachable
  <1>2. new.capacity \in 1..MaxCapacity
    BY <1>1 DEF Table
  <1>3. /\ capacity' = new.capacity /\ numOfElements' = new.numOfElements
        /\ pp_arr' = new.pp_arr /\ idx' = 0 /\ pc' = "idle"
        /\ rest' = rest /\ answer' = answer
    BY DEF MergeEnds
  <1>4. TypeOK'
    BY <1>1, <1>2, <1>3 DEF TypeOK
  <1>5. Reachable'
    BY <1>1, <1>3 DEF Reachable
  <1> QED
    BY <1>1, <1>3, <1>4, <1>5 DEF TableInv

(* delete takes an entry out and moves none to another bucket.             *)
LEMMA DeleteInv ==
    ASSUME TableInv, Reachable, NEW k \in Strings, Delete(k)
    PROVE  TableInv' /\ Reachable'
  <1> DEFINE b == Hash(k, capacity)
  <1>1. /\ TypeOK /\ pc = "idle" /\ InItsBucket(capacity, pp_arr)
        /\ capacity \in 1..MaxCapacity
        /\ pp_arr \in [0..capacity - 1 -> Seq(Entry)]
    BY DEF TableInv, TypeOK, Delete, Table, Reachable
  <1>2. b \in 0..capacity - 1
    BY <1>1, HashAssumption
  <1>3. PICK i \in DOMAIN pp_arr[b] : pp_arr' = [pp_arr EXCEPT ![b] = RemoveAt(@, i)]
    BY DEF Delete
  <1>4. /\ capacity' = capacity /\ numOfElements' = numOfElements
        /\ new' = new /\ idx' = idx /\ rest' = rest /\ pc' = pc
        /\ answer' = answer
    BY DEF Delete, merging
  <1> DEFINE r == RemoveAt(pp_arr[b], i)
  <1>5. /\ r \in Seq(Entry)
        /\ \A x \in DOMAIN r : \E y \in DOMAIN pp_arr[b] : r[x] = pp_arr[b][y]
    BY <1>1, <1>2, RemoveFromBucket
  <1>6. Table(capacity, pp_arr')
    BY <1>1, <1>2, <1>3, <1>5 DEF Table
  <1>7. TypeOK'
    BY <1>1, <1>4, <1>6 DEF TypeOK
  <1>8. ASSUME NEW c \in 0..capacity - 1, NEW x \in DOMAIN pp_arr'[c]
        PROVE  Hash(pp_arr'[c][x].key, capacity) = c
    <2>1. CASE c = b
      <3>1. pp_arr'[c] = r
        BY <1>1, <1>2, <1>3, <2>1
      <3>2. PICK y \in DOMAIN pp_arr[b] : r[x] = pp_arr[b][y]
        BY <1>5, <3>1
      <3> QED
        BY <1>1, <1>2, <2>1, <3>1, <3>2 DEF InItsBucket
    <2>2. CASE c # b
      <3>1. pp_arr'[c] = pp_arr[c]
        BY <1>1, <1>3, <2>2
      <3> QED
        BY <1>1, <3>1 DEF InItsBucket
    <2> QED
      BY <2>1, <2>2
  <1>9. Reachable'
    BY <1>1, <1>4, <1>8 DEF Reachable, InItsBucket
  <1> QED
    BY <1>1, <1>4, <1>7, <1>9 DEF TableInv

(* search changes nothing but its answer.                                  *)
LEMMA SearchInv ==
    ASSUME TableInv, Reachable, NEW k \in Strings, NEW p \in Pointers, Search(k, p)
    PROVE  TableInv' /\ Reachable'
  <1> DEFINE b == Hash(k, capacity)
  <1>1. /\ TypeOK /\ capacity \in 1..MaxCapacity
        /\ pp_arr \in [0..capacity - 1 -> Seq(Entry)]
    BY DEF TableInv, TypeOK, Table
  <1>2. b \in 0..capacity - 1
    BY <1>1, HashAssumption
  <1>3. /\ capacity' = capacity /\ numOfElements' = numOfElements
        /\ pp_arr' = pp_arr /\ new' = new /\ idx' = idx /\ rest' = rest
        /\ pc' = pc
    BY DEF Search, table, merging
  <1>4. answer' \in [key : Strings, at : Pointers, value : Values \cup {NoData}]
    <2>1. CASE answer' = Answer(k, p, NoData)
      BY <2>1 DEF Answer
    <2>2. CASE \E i \in DOMAIN pp_arr[b] : answer' = Answer(k, p, pp_arr[b][i].value)
      <3>1. PICK i \in DOMAIN pp_arr[b] : answer' = Answer(k, p, pp_arr[b][i].value)
        BY <2>2
      <3>2. pp_arr[b][i] \in Entry
        BY <1>1, <1>2
      <3> QED
        BY <3>1, <3>2 DEF Answer, Entry
    <2> QED
      BY <2>1, <2>2 DEF Search
  <1>5. TypeOK'
    BY <1>1, <1>3, <1>4 DEF TypeOK
  <1>6. Reachable'
    BY <1>3 DEF Reachable
  <1> QED
    BY <1>3, <1>5, <1>6 DEF TableInv

(* The strengthening is inductive: growing, merging and the calls keep it. *)
THEOREM Invariance == Spec => [](TableInv /\ Reachable)
  <1>1. TableInv /\ Reachable /\ [Next]_vars => (TableInv /\ Reachable)'
    <2> SUFFICES ASSUME TableInv, Reachable, [Next]_vars
                 PROVE  TableInv' /\ Reachable'
      OBVIOUS
    <2>1. CASE \E e \in Entry : Insert(e)
      BY <2>1, InsertInv
    <2>2. CASE MergeEntry
      BY <2>2, MergeEntryInv
    <2>3. CASE MergeBucket
      BY <2>3, MergeBucketInv
    <2>4. CASE MergeEnds
      BY <2>4, MergeEndsInv
    <2>5. CASE \E k \in Strings : Delete(k)
      BY <2>5, DeleteInv
    <2>6. CASE \E k \in Strings, p \in Pointers : Search(k, p)
      BY <2>6, SearchInv
    <2>7. CASE UNCHANGED vars
      BY <2>7 DEF TableInv, Reachable, TypeOK, vars, table, merging
    <2> QED
      BY <2>1, <2>2, <2>3, <2>4, <2>5, <2>6, <2>7 DEF Next
  <1> QED
    BY InitInv, <1>1, PTL DEF Spec

(* Every variable of the table keeps its type, and the load never exceeds  *)
(* one entry for a bucket.                                                 *)
THEOREM TypeCorrect == Spec => []TypeOK
  BY Invariance, PTL DEF TableInv

(* Entries are where search and delete look for them, in any growth.       *)
THEOREM ReachableCorrect == Spec => []Reachable
  BY Invariance, PTL

(* insert returns a table whose load is below 3/4.                         *)
THEOREM LoadCorrect == Spec => []LoadBounded
  <1>1. TableInv => LoadBounded
    BY DEF TableInv, LoadBounded, Loaded
  <1> QED
    BY Invariance, <1>1, PTL

-----------------------------------------------------------------------------
(* The places that hold an entry: in a table of c buckets, and in the part *)
(* of the old one that the merge has still to copy.                        *)
Places(c, arr) == {q \in (0..c - 1) \X Nat : 1 <= q[2] /\ q[2] <= Len(arr[q[1]])}

ToCopy ==
    {q \in (idx..capacity - 1) \X Nat :
        1 <= q[2] /\ q[2] <= IF q[1] = idx THEN Len(rest) ELSE Len(pp_arr[q[1]])}

AtMost(S, n) == IsFiniteSet(S) /\ Cardinality(S) <= n

(* The new table has twice the buckets and counts what was copied, which,  *)
(* with what is to be copied, is no more than the old table has counted.   *)
Counted ==
    /\ AtMost(Places(capacity, pp_arr), numOfElements)
    /\ pc # "idle" =>
          /\ new.capacity = Larger(capacity)
          /\ AtMost(Places(new.capacity, new.pp_arr), new.numOfElements)
          /\ AtMost(ToCopy, numOfElements - new.numOfElements)
    /\ MergeNeverGrows

(* One more place, one less, and some of them.                             *)
LEMMA OneMorePlace ==
    ASSUME NEW S, NEW n \in Int, AtMost(S, n), NEW x
    PROVE  AtMost(S \cup {x}, n + 1)
  <1>1. IsFiniteSet(S) /\ Cardinality(S) \in Nat /\ Cardinality(S) <= n
    BY FS_CardinalityType DEF AtMost
  <1>2. /\ IsFiniteSet(S \cup {x})
        /\ Cardinality(S \cup {x}) = IF x \in S THEN Cardinality(S) ELSE Cardinality(S) + 1
    BY <1>1, FS_AddElement
  <1> QED
    BY <1>1, <1>2 DEF AtMost

(* One element less lowers the bound by one.                             *)
LEMMA OnePlaceLess ==
    ASSUME NEW S, NEW n \in Int, AtMost(S, n), NEW x \in S
    PROVE  AtMost(S \ {x}, n - 1) /\ 1 <= n
  <1>1. IsFiniteSet(S) /\ Cardinality(S) \in Nat /\ Cardinality(S) <= n
    BY FS_CardinalityType DEF AtMost
  <1>2. IsFiniteSet(S \ {x}) /\ Cardinality(S \ {x}) = Cardinality(S) - 1
    BY <1>1, FS_RemoveElement
  <1>3. Cardinality(S \ {x}) \in Nat
    BY <1>2, FS_CardinalityType
  <1> QED
    BY <1>1, <1>2, <1>3 DEF AtMost

(* A subset keeps the bound.                                             *)
LEMMA FewerPlaces ==
    ASSUME NEW S, NEW T, NEW n \in Int, AtMost(S, n), T \subseteq S
    PROVE  AtMost(T, n)
  <1>1. IsFiniteSet(S) /\ Cardinality(S) \in Nat /\ Cardinality(S) <= n
    BY FS_CardinalityType DEF AtMost
  <1>2. IsFiniteSet(T) /\ Cardinality(T) <= Cardinality(S) /\ Cardinality(T) \in Nat
    BY <1>1, FS_Subset, FS_CardinalityType
  <1> QED
    BY <1>1, <1>2 DEF AtMost

(* A pushed entry takes one place more.                                    *)
LEMMA PushPlaces ==
    ASSUME NEW c, NEW arr, Table(c, arr), NEW e \in Entry,
           NEW n \in Int, AtMost(Places(c, arr), n)
    PROVE  AtMost(Places(c, Push(arr, Hash(e.key, c), e)), n + 1)
  <1> DEFINE h == Hash(e.key, c)
             arr2 == Push(arr, h, e)
             x == <<h, Len(arr[h]) + 1>>
  <1>1. c \in 1..MaxCapacity /\ arr \in [0..c - 1 -> Seq(Entry)] /\ h \in 0..c - 1
    BY HashAssumption DEF Entry, Table
  <1>2. ASSUME NEW q \in Places(c, arr2)
        PROVE  q \in Places(c, arr) \cup {x}
    <2>1. q \in (0..c - 1) \X Nat /\ 1 <= q[2] /\ q[2] <= Len(arr2[q[1]])
      BY DEF Places
    <2>2. CASE q[1] # h
      <3>1. arr2[q[1]] = arr[q[1]]
        BY <1>1, <2>1, <2>2 DEF Push
      <3> QED
        BY <2>1, <3>1 DEF Places
    <2>3. CASE q[1] = h
      <3>1. arr2[h] = <<e>> \o arr[h] /\ arr[h] \in Seq(Entry)
        BY <1>1 DEF Push
      <3>2. Len(arr2[h]) = Len(arr[h]) + 1 /\ Len(arr[h]) \in Nat
        BY <3>1
      <3>3. q[2] <= Len(arr[h]) \/ q[2] = Len(arr[h]) + 1
        BY <2>1, <2>3, <3>2
      <3>4. CASE q[2] <= Len(arr[h])
        BY <2>1, <2>3, <3>4 DEF Places
      <3>5. CASE q[2] = Len(arr[h]) + 1
        BY <2>1, <2>3, <3>5
      <3> QED
        BY <3>3, <3>4, <3>5
    <2> QED
      BY <2>2, <2>3
  <1>3. AtMost(Places(c, arr) \cup {x}, n + 1)
    BY OneMorePlace
  <1>4. Places(c, arr2) \subseteq Places(c, arr) \cup {x} /\ n + 1 \in Int
    BY <1>2
  <1> HIDE DEF x, arr2
  <1>5. AtMost(Places(c, arr2), n + 1)
    BY <1>3, <1>4, FewerPlaces
  <1> QED
    BY <1>5 DEF arr2

(* An empty table has no place taken.                                      *)
LEMMA EmptyPlaces ==
    ASSUME NEW c \in 1..MaxCapacity
    PROVE  AtMost(Places(c, Empty(c)), 0)
  <1>1. Places(c, Empty(c)) = {}
    <2>1. ASSUME NEW q \in Places(c, Empty(c)) PROVE FALSE
      <3>1. q \in (0..c - 1) \X Nat /\ 1 <= q[2] /\ q[2] <= Len(Empty(c)[q[1]])
        BY DEF Places
      <3>2. Empty(c)[q[1]] = <<>>
        BY <3>1 DEF Empty
      <3> QED
        BY <3>1, <3>2
    <2> QED
      BY <2>1
  <1> QED
    BY <1>1, FS_EmptySet DEF AtMost

-----------------------------------------------------------------------------
(* The count starts at the empty table.                                    *)
LEMMA InitCounted == Init => Counted
  <1> SUFFICES ASSUME Init PROVE Counted
    OBVIOUS
  <1>1. AtMost(Places(capacity, pp_arr), numOfElements)
    BY CapacityAssumption, EmptyPlaces DEF Init
  <1> QED
    BY <1>1 DEF Init, Counted, MergeNeverGrows

(* insert counts its entry and, when it begins to merge, has all to copy.  *)
LEMMA InsertCounted ==
    ASSUME TableInv, Counted, NEW e \in Entry, Insert(e)
    PROVE  Counted'
  <1> DEFINE n == numOfElements + 1
             arr == Push(pp_arr, Hash(e.key, capacity), e)
             two == Larger(capacity)
  <1>1. /\ Table(capacity, pp_arr) /\ capacity \in 1..MaxCapacity
        /\ numOfElements \in Nat /\ MaxCapacity \in Nat
        /\ pc = "idle"
    BY CapacityAssumption DEF TableInv, TypeOK, Insert, Table
  <1>2. /\ capacity' = capacity /\ numOfElements' = n /\ pp_arr' = arr
    BY DEF Insert
  <1>3. AtMost(Places(capacity, arr), n)
    BY <1>1, PushPlaces DEF Counted
  <1>4. CASE TooFull(n, capacity)
    <2>1. /\ new' = [capacity |-> two, numOfElements |-> 0, pp_arr |-> Empty(two)]
          /\ idx' = 0 /\ rest' = arr[0] /\ pc' = "merge" /\ two <= MaxCapacity
      BY <1>4 DEF Insert
    <2>2. two \in 1..MaxCapacity
      BY <1>1, <2>1 DEF Larger
    <2>3. AtMost(Places(two, Empty(two)), 0)
      BY <2>2, EmptyPlaces
    <2>4. ToCopy' = Places(capacity, arr)
      <3>1. ToCopy' =
              {q \in (0..capacity - 1) \X Nat :
                 1 <= q[2] /\ q[2] <= IF q[1] = 0 THEN Len(arr[0]) ELSE Len(arr[q[1]])}
        BY <1>2, <2>1 DEF ToCopy
      <3> HIDE DEF arr
      <3> QED
        BY <3>1 DEF Places
    <2>5. AtMost(ToCopy', n - 0)
      BY <1>1, <1>3, <2>4
    <2>6. new'.capacity = two /\ new'.numOfElements = 0 /\ new'.pp_arr = Empty(two)
      BY <2>1
    <2> HIDE DEF arr, two, n
    <2> QED
      BY <1>2, <1>3, <2>1, <2>3, <2>5, <2>6 DEF Counted, MergeNeverGrows, two
  <1>5. CASE ~TooFull(n, capacity)
    <2>1. pc' = "idle"
      BY <1>1, <1>5 DEF Insert
    <2> QED
      BY <1>2, <1>3, <2>1 DEF Counted, MergeNeverGrows
  <1> QED
    BY <1>4, <1>5

(* One entry is copied: no more than the old table counted, and that is    *)
(* too few to fill one of twice the size.                                  *)
LEMMA MergeEntryCounted ==
    ASSUME TableInv, Counted, MergeEntry
    PROVE  Counted'
  <1> DEFINE e == Head(rest)
             arr == Push(new.pp_arr, Hash(e.key, new.capacity), e)
             n == new.numOfElements + 1
             x == <<idx, Len(rest)>>
  <1>1. /\ rest # <<>> /\ rest \in Seq(Entry) /\ pc = "merge"
        /\ Table(new.capacity, new.pp_arr) /\ new.numOfElements \in Nat
        /\ numOfElements \in 0..capacity /\ capacity \in 1..MaxCapacity
        /\ idx \in 0..capacity - 1 /\ MaxCapacity \in Nat
    BY CapacityAssumption DEF TableInv, TypeOK, MergeEntry, Table
  <1>2. /\ e \in Entry /\ Tail(rest) \in Seq(Entry)
        /\ Len(rest) \in Nat /\ Len(rest) >= 1 /\ Len(Tail(rest)) = Len(rest) - 1
    BY <1>1
  <1>3. /\ AtMost(Places(capacity, pp_arr), numOfElements)
        /\ new.capacity = 2 * capacity
        /\ AtMost(Places(new.capacity, new.pp_arr), new.numOfElements)
        /\ AtMost(ToCopy, numOfElements - new.numOfElements)
    BY <1>1 DEF Counted, Larger
  <1>4. AtMost(Places(new.capacity, arr), n)
    BY <1>1, <1>2, <1>3, PushPlaces
  <1>5. /\ new'.capacity = new.capacity /\ new'.numOfElements = n /\ new'.pp_arr = arr
    <2>1. new' = [new EXCEPT !.numOfElements = @ + 1,
                             !.pp_arr = Push(@, Hash(e.key, new.capacity), e)]
      BY DEF MergeEntry, NewBucket
    <2>2. new = [capacity |-> new.capacity, numOfElements |-> new.numOfElements,
                 pp_arr |-> new.pp_arr]
      BY <1>1 DEF TableInv
    <2> QED
      BY <2>1, <2>2
  <1>6. /\ capacity' = capacity /\ numOfElements' = numOfElements
        /\ pp_arr' = pp_arr /\ idx' = idx /\ rest' = Tail(rest)
        /\ pc' = IF TooFull(n, new.capacity) THEN "nested" ELSE "merge"
    BY <1>5 DEF MergeEntry, table
  <1>7. x \in ToCopy
    BY <1>1, <1>2 DEF ToCopy
  <1>8. /\ AtMost(ToCopy \ {x}, numOfElements - new.numOfElements - 1)
        /\ 1 <= numOfElements - new.numOfElements
    <2>1. numOfElements - new.numOfElements \in Int
      BY <1>1
    <2> HIDE DEF x
    <2> QED
      BY <1>3, <1>7, <2>1, OnePlaceLess
  <1>9. ToCopy' \subseteq ToCopy \ {x}
    <2>1. ASSUME NEW q \in ToCopy' PROVE q \in ToCopy \ {x}
      <3>1. /\ q \in (idx..capacity - 1) \X Nat /\ 1 <= q[2]
            /\ q[2] <= IF q[1] = idx THEN Len(rest) - 1 ELSE Len(pp_arr[q[1]])
        BY <1>2, <1>6 DEF ToCopy
      <3>2. q # x
        BY <1>2, <3>1
      <3>3. CASE q[1] = idx
        BY <1>2, <3>1, <3>2, <3>3 DEF ToCopy
      <3>4. CASE q[1] # idx
        BY <3>1, <3>2, <3>4 DEF ToCopy
      <3> QED
        BY <3>3, <3>4
    <2> QED
      BY <2>1
  <1>10. AtMost(ToCopy', numOfElements - n)
    <2>1. numOfElements - new.numOfElements - 1 \in Int
      BY <1>1
    <2>2. AtMost(ToCopy', numOfElements - new.numOfElements - 1)
      BY <1>8, <1>9, <2>1, FewerPlaces
    <2>3. numOfElements - new.numOfElements - 1 = numOfElements - n
      BY <1>1
    <2> QED
      BY <2>2, <2>3
  <1>11. ~TooFull(n, new.capacity)
    <2>1. n <= capacity /\ n \in Nat /\ capacity \in Nat /\ capacity >= 1
      BY <1>1, <1>8
    <2>2. ~(4 * n >= 3 * (2 * capacity))
      <3> HIDE DEF n
      <3> QED
        BY <2>1
    <2> QED
      BY <1>3, <2>2 DEF TooFull
  <1>12. pc' = "merge"
    BY <1>6, <1>11
  <1>13. new'.capacity = Larger(capacity)'
    BY <1>1, <1>5, <1>6 DEF Counted, Larger
  <1>14. AtMost(Places(new.capacity, new.pp_arr), new.numOfElements)'
    BY <1>4, <1>5
  <1>15. AtMost(Places(capacity, pp_arr), numOfElements)'
    BY <1>3, <1>6
  <1> HIDE DEF arr, n
  <1> QED
    BY <1>5, <1>6, <1>10, <1>12, <1>13, <1>14, <1>15 DEF Counted, MergeNeverGrows

(* What is to be copied does not depend on where the merge has got to      *)
(* between two buckets.                                                    *)
LEMMA MergeBucketCounted ==
    ASSUME TableInv, Counted, MergeBucket
    PROVE  Counted'
  <1>1. /\ rest = <<>> /\ pc = "merge" /\ numOfElements \in Nat
        /\ new.numOfElements \in Nat
        /\ idx \in 0..capacity - 1 /\ capacity \in Nat
    BY CapacityAssumption DEF TableInv, TypeOK, MergeBucket, Table
  <1>2. /\ capacity' = capacity /\ numOfElements' = numOfElements
        /\ pp_arr' = pp_arr /\ new' = new /\ pc' = pc
        /\ idx' = idx + 1 /\ rest' = pp_arr[idx + 1]
    BY DEF MergeBucket, table
  <1>3. ToCopy' \subseteq ToCopy
    <2>1. ASSUME NEW q \in ToCopy' PROVE q \in ToCopy
      <3>1. /\ q \in (idx + 1..capacity - 1) \X Nat /\ 1 <= q[2]
            /\ q[2] <= Len(pp_arr[q[1]])
        BY <1>2 DEF ToCopy
      <3>2. q[1] \in idx..capacity - 1 /\ q[1] # idx
        BY <1>1, <3>1
      <3> QED
        BY <3>1, <3>2 DEF ToCopy
    <2> QED
      BY <2>1
  <1>4. AtMost(ToCopy', numOfElements - new.numOfElements)
    <2>1. AtMost(ToCopy, numOfElements - new.numOfElements)
      BY <1>1 DEF Counted
    <2>2. numOfElements - new.numOfElements \in Int
      BY <1>1
    <2> QED
      BY <1>3, <2>1, <2>2, FewerPlaces
  <1> QED
    BY <1>1, <1>2, <1>4 DEF Counted, MergeNeverGrows

(* delete takes a place and leaves the count.                              *)
LEMMA DeleteCounted ==
    ASSUME TableInv, Counted, NEW k \in Strings, Delete(k)
    PROVE  Counted'
  <1> DEFINE b == Hash(k, capacity)
  <1>1. /\ pc = "idle" /\ capacity \in 1..MaxCapacity /\ numOfElements \in Nat
        /\ pp_arr \in [0..capacity - 1 -> Seq(Entry)]
    BY DEF TableInv, TypeOK, Delete, Table
  <1>2. b \in 0..capacity - 1
    BY <1>1, HashAssumption
  <1>3. PICK i \in DOMAIN pp_arr[b] : pp_arr' = [pp_arr EXCEPT ![b] = RemoveAt(@, i)]
    BY DEF Delete
  <1>4. capacity' = capacity /\ numOfElements' = numOfElements /\ pc' = pc
    BY DEF Delete
  <1> DEFINE r == RemoveAt(pp_arr[b], i)
  <1>5. pp_arr[b] \in Seq(Entry) /\ Len(pp_arr[b]) \in Nat /\ Len(pp_arr[b]) >= 1
    BY <1>1, <1>2, <1>3
  <1>6. Len(r) <= Len(pp_arr[b])
    <2>1. r \in Seq(Entry) /\ DOMAIN r = 1..Len(pp_arr[b]) - 1
      BY <1>5, RemoveFromBucket DEF RemoveAt
    <2>2. Len(r) \in Nat /\ DOMAIN r = 1..Len(r)
      BY <2>1
    <2> HIDE DEF r
    <2> QED
      BY <1>5, <2>1, <2>2
  <1>7. Places(capacity, pp_arr') \subseteq Places(capacity, pp_arr)
    <2>1. ASSUME NEW q \in Places(capacity, pp_arr')
          PROVE  q \in Places(capacity, pp_arr)
      <3>1. q \in (0..capacity - 1) \X Nat /\ 1 <= q[2] /\ q[2] <= Len(pp_arr'[q[1]])
        BY DEF Places
      <3>2. CASE q[1] # b
        <4>1. pp_arr'[q[1]] = pp_arr[q[1]]
          BY <1>1, <1>3, <3>1, <3>2
        <4> QED
          BY <3>1, <4>1 DEF Places
      <3>3. CASE q[1] = b
        <4>1. pp_arr'[b] = r
          BY <1>1, <1>2, <1>3
        <4>2. Len(r) \in Nat
          BY <1>5, RemoveFromBucket
        <4> HIDE DEF r
        <4>3. q[2] <= Len(pp_arr[b])
          BY <1>5, <1>6, <3>1, <3>3, <4>1, <4>2
        <4> QED
          BY <3>1, <3>3, <4>3 DEF Places
      <3> QED
        BY <3>2, <3>3
    <2> QED
      BY <2>1
  <1>8. AtMost(Places(capacity, pp_arr'), numOfElements)
    BY <1>1, <1>7, FewerPlaces DEF Counted
  <1> QED
    BY <1>1, <1>4, <1>8 DEF Counted, MergeNeverGrows

(* The count holds in every reachable state.                               *)
LEMMA CountedInvariance == Spec => []Counted
  <1>1. TableInv /\ Counted /\ [Next]_vars => Counted'
    <2> SUFFICES ASSUME TableInv, Counted, [Next]_vars PROVE Counted'
      OBVIOUS
    <2>1. CASE \E e \in Entry : Insert(e)
      BY <2>1, InsertCounted
    <2>2. CASE MergeEntry
      BY <2>2, MergeEntryCounted
    <2>3. CASE MergeBucket
      BY <2>3, MergeBucketCounted
    <2>4. CASE MergeEnds
      BY <2>4 DEF MergeEnds, Counted, MergeNeverGrows
    <2>5. CASE \E k \in Strings : Delete(k)
      BY <2>5, DeleteCounted
    <2>6. CASE \E k \in Strings, p \in Pointers : Search(k, p)
      BY <2>6 DEF Search, table, merging, Counted, MergeNeverGrows, ToCopy
    <2>7. CASE UNCHANGED vars
      BY <2>7 DEF vars, table, merging, Counted, MergeNeverGrows, ToCopy
    <2> QED
      BY <2>1, <2>2, <2>3, <2>4, <2>5, <2>6, <2>7 DEF Next
  <1> QED
    BY InitCounted, Invariance, <1>1, PTL DEF Spec

(* A merge, however many entries share a bucket or were deleted before it, *)
(* never makes the new table grow: what its insertions return can be       *)
(* ignored (src/hashtable.c:163-178).                                      *)
THEOREM MergeCorrect == Spec => []MergeNeverGrows
  <1>1. Counted => MergeNeverGrows
    BY DEF Counted
  <1> QED
    BY CountedInvariance, <1>1, PTL

-----------------------------------------------------------------------------
(* Where an entry stands in a table.                                       *)
PlacesOf(c, arr, e) == {q \in Places(c, arr) : arr[q[1]][q[2]] = e}

(* As many, if they have only moved.                                       *)
LEMMA MovedPlaces ==
    ASSUME NEW S, IsFiniteSet(S), NEW T, NEW f \in [S -> T],
           \A p, q \in S : f[p] = f[q] => p = q,
           \A q \in T : \E p \in S : f[p] = q
    PROVE  IsFiniteSet(T) /\ Cardinality(T) = Cardinality(S)
  <1>1. f \in Bijection(S, T)
    BY DEF Bijection, Injection, IsInjective, Surjection
  <1>2. ExistsBijection(S, T)
    BY <1>1 DEF ExistsBijection
  <1> QED
    BY <1>2, FS_Bijection

(* The places are pairs of a bucket and a position.                        *)
LEMMA PlaceAt ==
    ASSUME NEW c, NEW arr, NEW e
    PROVE  /\ \A b, k : <<b, k>> \in PlacesOf(c, arr, e) <=>
                          /\ b \in 0..c - 1 /\ k \in Nat
                          /\ 1 <= k /\ k <= Len(arr[b]) /\ arr[b][k] = e
           /\ \A q \in PlacesOf(c, arr, e) : \E b \in 0..c - 1, k \in Nat : q = <<b, k>>
  <1>1. \A q : q \in PlacesOf(c, arr, e) <=>
                 /\ q \in (0..c - 1) \X Nat
                 /\ 1 <= q[2] /\ q[2] <= Len(arr[q[1]]) /\ arr[q[1]][q[2]] = e
    BY DEF PlacesOf, Places
  <1>2. ASSUME NEW b, NEW k
        PROVE  <<b, k>> \in PlacesOf(c, arr, e) <=>
                 /\ b \in 0..c - 1 /\ k \in Nat
                 /\ 1 <= k /\ k <= Len(arr[b]) /\ arr[b][k] = e
    <2>1. <<b, k>>[1] = b /\ <<b, k>>[2] = k
      OBVIOUS
    <2>2. <<b, k>> \in (0..c - 1) \X Nat <=> b \in 0..c - 1 /\ k \in Nat
      OBVIOUS
    <2>3. <<b, k>> \in PlacesOf(c, arr, e) <=>
                 /\ <<b, k>> \in (0..c - 1) \X Nat
                 /\ 1 <= <<b, k>>[2] /\ <<b, k>>[2] <= Len(arr[<<b, k>>[1]])
                 /\ arr[<<b, k>>[1]][<<b, k>>[2]] = e
      BY <1>1, Zenon
    <2> QED
      BY <2>1, <2>2, <2>3
  <1>3. \A q \in PlacesOf(c, arr, e) : \E b \in 0..c - 1, k \in Nat : q = <<b, k>>
    BY <1>1
  <1> QED
    BY <1>2, <1>3

(* arr2 is arr with the entry e put into place i of bucket h, the others   *)
(* behind it moved by one.                                                 *)
PutInto(c, arr, arr2, h, i, e) ==
    /\ h \in 0..c - 1 /\ i \in Nat
    /\ arr[h] \in Seq(Entry) /\ arr2[h] \in Seq(Entry)
    /\ 1 <= i /\ i <= Len(arr2[h]) /\ Len(arr2[h]) = Len(arr[h]) + 1
    /\ arr2[h][i] = e
    /\ \A k \in Nat : 1 <= k /\ k <= Len(arr[h]) =>
                          arr[h][k] = arr2[h][IF k < i THEN k ELSE k + 1]
    /\ \A b \in 0..c - 1 : b # h => arr2[b] = arr[b]

(* That is one more place of e and as many of any other entry.             *)
LEMMA CountOneMore ==
    ASSUME NEW c, NEW arr, NEW arr2, NEW h, NEW i, NEW e, NEW x,
           PutInto(c, arr, arr2, h, i, e),
           IsFiniteSet(PlacesOf(c, arr, x))
    PROVE  /\ IsFiniteSet(PlacesOf(c, arr2, x))
           /\ Cardinality(PlacesOf(c, arr2, x)) =
                Cardinality(PlacesOf(c, arr, x)) + IF x = e THEN 1 ELSE 0
  <1> DEFINE S == PlacesOf(c, arr, x)
             U == PlacesOf(c, arr2, x)
             T == U \ {<<h, i>>}
             g(b, k) == IF b = h /\ k >= i THEN k + 1 ELSE k
             f == [q \in S |-> <<q[1], g(q[1], q[2])>>]
  <1> USE DEF PutInto
  <1>1. Len(arr[h]) \in Nat /\ Len(arr2[h]) \in Nat
    OBVIOUS
  <1>2. /\ \A b, k : <<b, k>> \in S <=> /\ b \in 0..c - 1 /\ k \in Nat
                                        /\ 1 <= k /\ k <= Len(arr[b]) /\ arr[b][k] = x
        /\ \A q \in S : \E b \in 0..c - 1, k \in Nat : q = <<b, k>>
    BY PlaceAt
  <1>3. /\ \A b, k : <<b, k>> \in U <=> /\ b \in 0..c - 1 /\ k \in Nat
                                        /\ 1 <= k /\ k <= Len(arr2[b]) /\ arr2[b][k] = x
        /\ \A q \in U : \E b \in 0..c - 1, k \in Nat : q = <<b, k>>
    BY PlaceAt
  <1>4. IsFiniteSet(S)
    OBVIOUS
  <1> HIDE DEF S, U
  <1>5. \A b, k : <<b, k>> \in S => f[<<b, k>>] = <<b, g(b, k)>>
    <2> SUFFICES ASSUME NEW b, NEW k, <<b, k>> \in S
                 PROVE  f[<<b, k>>] = <<b, g(b, k)>>
      OBVIOUS
    <2>1. <<b, k>>[1] = b /\ <<b, k>>[2] = k
      OBVIOUS
    <2>2. f[<<b, k>>] = <<<<b, k>>[1], g(<<b, k>>[1], <<b, k>>[2])>>
      BY Zenon
    <2> QED
      BY <2>1, <2>2, Zenon
  <1>6. \A q \in S : f[q] \in T
    <2> SUFFICES ASSUME NEW q \in S PROVE f[q] \in T
      OBVIOUS
    <2>1. PICK b \in 0..c - 1, k \in Nat : q = <<b, k>>
      BY <1>2
    <2>2. /\ 1 <= k /\ k <= Len(arr[b]) /\ arr[b][k] = x
      BY <1>2, <2>1
    <2>3. f[q] = <<b, g(b, k)>>
      BY <1>5, <2>1
    <2> HIDE DEF f
    <2>4. g(b, k) \in Nat /\ 1 <= g(b, k) /\ g(b, k) <= Len(arr2[b]) /\ arr2[b][g(b, k)] = x
      <3>1. CASE b = h
        BY <1>1, <2>2, <3>1
      <3>2. CASE b # h
        BY <2>2, <3>2
      <3> QED
        BY <3>1, <3>2
    <2>5. <<b, g(b, k)>> # <<h, i>>
      <3>1. b # h \/ g(b, k) # i
        OBVIOUS
      <3> HIDE DEF g
      <3> QED
        BY <3>1
    <2> HIDE DEF g
    <2>6. <<b, g(b, k)>> \in U
      BY <1>3, <2>4
    <2> QED
      BY <2>3, <2>5, <2>6
  <1>7. f \in [S -> T]
    <2> DEFINE v(q) == <<q[1], g(q[1], q[2])>>
    <2>1. \A q \in S : v(q) \in T
      <3>1. \A q \in S : f[q] = v(q)
        OBVIOUS
      <3> QED
        BY <1>6, <3>1
    <2>2. f = [q \in S |-> v(q)]
      OBVIOUS
    <2> HIDE DEF f, v, T
    <2> QED
      BY <2>1, <2>2
  <1>8. \A p, q \in S : f[p] = f[q] => p = q
    <2> SUFFICES ASSUME NEW p \in S, NEW q \in S, f[p] = f[q] PROVE p = q
      OBVIOUS
    <2>1. PICK b \in 0..c - 1, k \in Nat : p = <<b, k>>
      BY <1>2
    <2>2. PICK d \in 0..c - 1, l \in Nat : q = <<d, l>>
      BY <1>2
    <2>3. f[p] = <<b, g(b, k)>> /\ f[q] = <<d, g(d, l)>>
      BY <1>5, <2>1, <2>2
    <2> HIDE DEF f
    <2>4. b = d /\ g(b, k) = g(d, l)
      <3> HIDE DEF g
      <3>1. <<b, g(b, k)>> = <<d, g(d, l)>>
        BY <2>3
      <3> QED
        BY <3>1, Zenon
    <2>5. k = l
      BY <2>4
    <2> QED
      BY <2>1, <2>2, <2>4, <2>5
  <1>9. \A q \in T : \E p \in S : f[p] = q
    <2> SUFFICES ASSUME NEW q \in T PROVE \E p \in S : f[p] = q
      OBVIOUS
    <2>1. PICK b \in 0..c - 1, k \in Nat : q = <<b, k>>
      BY <1>3
    <2>2. 1 <= k /\ k <= Len(arr2[b]) /\ arr2[b][k] = x
      BY <1>3, <2>1
    <2>3. b # h \/ k # i
      BY <2>1
    <2> DEFINE j == IF b = h /\ k > i THEN k - 1 ELSE k
    <2>4. j \in Nat /\ 1 <= j /\ j <= Len(arr[b]) /\ arr[b][j] = x /\ g(b, j) = k
      <3>1. CASE b = h /\ k > i
        <4>1. /\ k - 1 \in Nat /\ 1 <= k - 1 /\ k - 1 <= Len(arr[h]) /\ ~(k - 1 < i)
              /\ k - 1 + 1 = k /\ j = k - 1
          BY <1>1, <2>2, <3>1
        <4>2. arr[h][k - 1] = arr2[h][IF k - 1 < i THEN k - 1 ELSE k - 1 + 1]
          BY <4>1
        <4>3. (IF k - 1 < i THEN k - 1 ELSE k - 1 + 1) = k
          BY <4>1
        <4>4. arr[h][k - 1] = arr2[h][k]
          BY <4>2, <4>3, Zenon
        <4> QED
          BY <2>2, <3>1, <4>1, <4>4
      <3>2. CASE b = h /\ k < i
        <4>1. k <= Len(arr[h]) /\ j = k /\ ~(k >= i)
          BY <1>1, <3>2
        <4>2. arr[h][k] = arr2[h][IF k < i THEN k ELSE k + 1]
          BY <2>2, <4>1
        <4>3. arr[h][k] = arr2[h][k]
          BY <3>2, <4>2
        <4> QED
          BY <2>2, <3>2, <4>1, <4>3
      <3>3. CASE b # h
        BY <2>2, <3>3
      <3> QED
        BY <2>3, <3>1, <3>2, <3>3
    <2> HIDE DEF j
    <2>5. <<b, j>> \in S
      BY <1>2, <2>4
    <2>6. f[<<b, j>>] = <<b, k>>
      BY <1>5, <2>4, <2>5
    <2> QED
      BY <2>1, <2>5, <2>6
  <1> HIDE DEF f, T
  <1>10. IsFiniteSet(T) /\ Cardinality(T) = Cardinality(S)
    BY <1>4, <1>7, <1>8, <1>9, MovedPlaces
  <1>11. <<h, i>> \notin T
    BY DEF T
  <1>12. Cardinality(S) \in Nat
    BY <1>4, FS_CardinalityType
  <1>13. CASE x = e
    <2>1. <<h, i>> \in U
      BY <1>3, <1>13
    <2>2. U = T \cup {<<h, i>>}
      BY <2>1 DEF T
    <2>3. IsFiniteSet(U) /\ Cardinality(U) = Cardinality(S) + 1
      BY <1>10, <1>11, <2>2, FS_AddElement
    <2> QED
      BY <1>13, <2>3 DEF S, U
  <1>14. CASE x # e
    <2>1. <<h, i>> \notin U
      BY <1>3, <1>14
    <2>2. U = T
      BY <2>1 DEF T
    <2>3. IsFiniteSet(U) /\ Cardinality(U) = Cardinality(S) + 0
      BY <1>10, <1>12, <2>2
    <2> QED
      BY <1>14, <2>3 DEF S, U
  <1> QED
    BY <1>13, <1>14

(* The places after the first n of bucket i.                               *)
Beyond(S, i, n) == {q \in S : q[1] > i \/ (q[1] = i /\ q[2] > n)}

(* The entries of bucket idx that the merge has copied, and the places of  *)
(* e that it has still to copy.                                            *)
Copied == Len(pp_arr[idx]) - Len(rest)
ToCopyOf(e) == Beyond(PlacesOf(capacity, pp_arr, e), idx, Copied)

(* Of every entry, what the new table holds and what is still to be copied *)
(* are together what the old table holds.                                  *)
Kept ==
    pc # "idle" =>
       /\ Len(rest) <= Len(pp_arr[idx])
       /\ \A k \in 1..Len(rest) : rest[k] = pp_arr[idx][Copied + k]
       /\ \A e \in Entry :
             Cardinality(PlacesOf(new.capacity, new.pp_arr, e))
               + Cardinality(ToCopyOf(e))
             = Cardinality(PlacesOf(capacity, pp_arr, e))

(* The places of one entry are finitely many, and counted by a number.     *)
LEMMA FinitePlaces ==
    ASSUME NEW c, NEW arr, NEW n \in Int, AtMost(Places(c, arr), n), NEW e
    PROVE  /\ IsFiniteSet(PlacesOf(c, arr, e))
           /\ Cardinality(PlacesOf(c, arr, e)) \in Nat
           /\ \A i, k : /\ IsFiniteSet(Beyond(PlacesOf(c, arr, e), i, k))
                        /\ Cardinality(Beyond(PlacesOf(c, arr, e), i, k)) \in Nat
  <1>1. IsFiniteSet(Places(c, arr))
    BY DEF AtMost
  <1>2. PlacesOf(c, arr, e) \subseteq Places(c, arr)
    BY DEF PlacesOf
  <1>3. IsFiniteSet(PlacesOf(c, arr, e))
    BY <1>1, <1>2, FS_Subset
  <1>4. \A i, k : Beyond(PlacesOf(c, arr, e), i, k) \subseteq PlacesOf(c, arr, e)
    BY DEF Beyond
  <1>5. \A i, k : IsFiniteSet(Beyond(PlacesOf(c, arr, e), i, k))
    BY <1>3, <1>4, FS_Subset
  <1> QED
    BY <1>3, <1>5, FS_CardinalityType

(* Which places lie beyond.                                                *)
LEMMA BeyondAt ==
    ASSUME NEW S, NEW i, NEW n, NEW b, NEW k
    PROVE  <<b, k>> \in Beyond(S, i, n) <=> /\ <<b, k>> \in S
                                            /\ b > i \/ (b = i /\ k > n)
  <1>1. <<b, k>>[1] = b /\ <<b, k>>[2] = k
    OBVIOUS
  <1>2. <<b, k>> \in Beyond(S, i, n) <=>
           /\ <<b, k>> \in S
           /\ <<b, k>>[1] > i \/ (<<b, k>>[1] = i /\ <<b, k>>[2] > n)
    BY DEF Beyond
  <1> QED
    BY <1>1, <1>2, Zenon

(* Pushing an entry at the head of its bucket is one more place of it.     *)
LEMMA CountPushed ==
    ASSUME NEW c, NEW arr, Table(c, arr), NEW e \in Entry, NEW x \in Entry,
           IsFiniteSet(PlacesOf(c, arr, x))
    PROVE  Cardinality(PlacesOf(c, Push(arr, Hash(e.key, c), e), x)) =
             Cardinality(PlacesOf(c, arr, x)) + IF x = e THEN 1 ELSE 0
  <1> DEFINE h == Hash(e.key, c)
             arr2 == Push(arr, h, e)
  <1>1. c \in 1..MaxCapacity /\ arr \in [0..c - 1 -> Seq(Entry)] /\ h \in 0..c - 1
    BY HashAssumption DEF Entry, Table
  <1>2. /\ arr2[h] = <<e>> \o arr[h] /\ arr[h] \in Seq(Entry)
        /\ \A b \in 0..c - 1 : b # h => arr2[b] = arr[b]
    BY <1>1 DEF Push
  <1> HIDE DEF h, arr2
  <1>3. /\ arr2[h] \in Seq(Entry) /\ Len(arr2[h]) = Len(arr[h]) + 1
        /\ 1 <= Len(arr2[h])
    BY <1>2
  <1>4. arr2[h][1] = e
    BY <1>2
  <1>5. \A k \in Nat : 1 <= k /\ k <= Len(arr[h]) =>
                          arr[h][k] = arr2[h][IF k < 1 THEN k ELSE k + 1]
    BY <1>2
  <1>6. PutInto(c, arr, arr2, h, 1, e)
    BY <1>1, <1>2, <1>3, <1>4, <1>5 DEF PutInto
  <1>7. Cardinality(PlacesOf(c, arr2, x)) =
          Cardinality(PlacesOf(c, arr, x)) + IF x = e THEN 1 ELSE 0
    BY <1>6, CountOneMore
  <1> QED
    BY <1>7 DEF h, arr2

-----------------------------------------------------------------------------
(* insert adds its entry to what the table holds.                          *)
LEMMA InsertCounts ==
    ASSUME TableInv, Counted, NEW e \in Entry, Insert(e), NEW x \in Entry
    PROVE  Cardinality(PlacesOf(capacity, pp_arr', x)) =
             Cardinality(PlacesOf(capacity, pp_arr, x)) + IF x = e THEN 1 ELSE 0
  <1>1. /\ Table(capacity, pp_arr) /\ numOfElements \in Int
        /\ AtMost(Places(capacity, pp_arr), numOfElements)
    BY DEF TableInv, TypeOK, Counted
  <1>2. pp_arr' = Push(pp_arr, Hash(e.key, capacity), e)
    BY DEF Insert
  <1>3. IsFiniteSet(PlacesOf(capacity, pp_arr, x))
    BY <1>1, FinitePlaces
  <1>4. Cardinality(PlacesOf(capacity, Push(pp_arr, Hash(e.key, capacity), e), x)) =
             Cardinality(PlacesOf(capacity, pp_arr, x)) + IF x = e THEN 1 ELSE 0
    BY <1>1, <1>3, CountPushed
  <1> QED
    BY <1>2, <1>4

(* A merge that begins has everything still to copy.                       *)
LEMMA InsertKept ==
    ASSUME TableInv, TableInv', Counted', NEW e \in Entry, Insert(e)
    PROVE  Kept'
  <1> SUFFICES ASSUME pc' # "idle" PROVE Kept'
    BY DEF Kept
  <1> DEFINE two == Larger(capacity)
  <1>1. /\ pc = "idle" /\ capacity' = capacity
        /\ new' = [capacity |-> two, numOfElements |-> 0, pp_arr |-> Empty(two)]
        /\ idx' = 0 /\ rest' = pp_arr'[0]
    BY DEF Insert
  <1>2. /\ Table(capacity, pp_arr') /\ Table(two, Empty(two))
        /\ numOfElements' \in Int
        /\ AtMost(Places(capacity, pp_arr'), numOfElements')
    BY <1>1 DEF TableInv, TypeOK, Counted
  <1>3. /\ pp_arr' \in [0..capacity - 1 -> Seq(Entry)] /\ capacity \in 1..MaxCapacity
        /\ pp_arr'[0] \in Seq(Entry) /\ two \in Nat /\ MaxCapacity \in Nat
    BY <1>2, CapacityAssumption DEF Table
  <1> HIDE DEF two
  <1>4. Copied' = 0
    BY <1>1, <1>3 DEF Copied
  <1>5. ASSUME NEW x \in Entry
        PROVE  /\ PlacesOf(two, Empty(two), x) = {}
               /\ Beyond(PlacesOf(capacity, pp_arr', x), 0, 0) = PlacesOf(capacity, pp_arr', x)
    <2>1. ASSUME NEW q \in PlacesOf(two, Empty(two), x) PROVE FALSE
      <3>1. PICK b \in 0..two - 1, k \in Nat :
               q = <<b, k>> /\ 1 <= k /\ k <= Len(Empty(two)[b])
        BY PlaceAt
      <3>2. Empty(two)[b] = <<>>
        BY DEF Empty
      <3> QED
        BY <3>1, <3>2
    <2>2. ASSUME NEW q \in PlacesOf(capacity, pp_arr', x)
          PROVE  q \in Beyond(PlacesOf(capacity, pp_arr', x), 0, 0)
      <3>1. PICK b \in 0..capacity - 1, k \in Nat : q = <<b, k>> /\ 1 <= k
        BY PlaceAt
      <3>2. b > 0 \/ (b = 0 /\ k > 0)
        BY <1>3, <3>1
      <3> QED
        BY <3>1, <3>2, BeyondAt
    <2> QED
      BY <2>1, <2>2 DEF Beyond
  <1>6. ASSUME NEW x \in Entry
        PROVE  Cardinality(PlacesOf(two, Empty(two), x))
                 + Cardinality(Beyond(PlacesOf(capacity, pp_arr', x), 0, 0))
               = Cardinality(PlacesOf(capacity, pp_arr', x))
    <2>1. Cardinality(PlacesOf(capacity, pp_arr', x)) \in Nat
      BY <1>2, FinitePlaces
    <2>2. Cardinality(PlacesOf(two, Empty(two), x)) = 0
      BY <1>5, FS_EmptySet
    <2> QED
      BY <1>5, <2>1, <2>2
  <1>7. new'.capacity = two /\ new'.pp_arr = Empty(two)
    BY <1>1
  <1> QED
    BY <1>1, <1>3, <1>4, <1>6, <1>7 DEF Kept, ToCopyOf

(* An entry copied is one more place in the new table and one less to copy.*)
LEMMA MergeEntryKept ==
    ASSUME TableInv, Counted, Kept, MergeEntry
    PROVE  Kept'
  <1> DEFINE e == Head(rest)
             y == <<idx, Copied + 1>>
  <1>1. /\ rest # <<>> /\ rest \in Seq(Entry) /\ pc = "merge"
        /\ Table(new.capacity, new.pp_arr) /\ new.numOfElements \in Int
        /\ Table(capacity, pp_arr) /\ numOfElements \in Int
        /\ idx \in 0..capacity - 1
        /\ AtMost(Places(capacity, pp_arr), numOfElements)
        /\ AtMost(Places(new.capacity, new.pp_arr), new.numOfElements)
        /\ capacity \in Nat
    BY CapacityAssumption DEF TableInv, TypeOK, MergeEntry, Counted, Table
  <1>2. /\ capacity' = capacity /\ pp_arr' = pp_arr /\ idx' = idx
        /\ rest' = Tail(rest) /\ new'.capacity = new.capacity
        /\ new'.pp_arr = Push(new.pp_arr, Hash(e.key, new.capacity), e)
    <2>1. new' = [new EXCEPT !.numOfElements = @ + 1,
                             !.pp_arr = Push(@, Hash(e.key, new.capacity), e)]
      BY DEF MergeEntry, NewBucket
    <2>2. new = [capacity |-> new.capacity, numOfElements |-> new.numOfElements,
                 pp_arr |-> new.pp_arr]
      BY <1>1 DEF TableInv
    <2>3. /\ new'.capacity = new.capacity
          /\ new'.pp_arr = Push(new.pp_arr, Hash(e.key, new.capacity), e)
      BY <2>1, <2>2
    <2> QED
      BY <2>3 DEF MergeEntry, table
  <1>3. /\ pp_arr[idx] \in Seq(Entry) /\ e \in Entry
        /\ Len(rest) \in Nat /\ Len(rest) >= 1 /\ Len(pp_arr[idx]) \in Nat
        /\ Len(Tail(rest)) = Len(rest) - 1
        /\ \A k \in 1..Len(rest) - 1 : Tail(rest)[k] = rest[k + 1]
    BY <1>1 DEF Table
  <1>4. /\ Len(rest) <= Len(pp_arr[idx])
        /\ \A k \in 1..Len(rest) : rest[k] = pp_arr[idx][Copied + k]
    BY <1>1 DEF Kept
  <1>5. /\ Copied \in Nat /\ Copied + 1 <= Len(pp_arr[idx]) /\ Copied' = Copied + 1
        /\ pp_arr[idx][Copied + 1] = e
    <2>1. Copied \in Nat /\ Copied + 1 <= Len(pp_arr[idx])
      BY <1>3, <1>4 DEF Copied
    <2>4. Copied' = Len(pp_arr[idx]) - (Len(rest) - 1)
      BY <1>2, <1>3 DEF Copied
    <2>5. Copied' = Copied + 1
      BY <1>3, <2>4 DEF Copied
    <2>2. 1 \in 1..Len(rest) /\ rest[1] = e
      BY <1>1, <1>3
    <2>3. rest[1] = pp_arr[idx][Copied + 1]
      BY <1>4, <2>2
    <2> QED
      BY <2>1, <2>2, <2>3, <2>5
  <1>6. ASSUME NEW k \in 1..Len(rest')
        PROVE  rest'[k] = pp_arr'[idx'][Copied' + k]
    <2>1. k + 1 \in 1..Len(rest) /\ k \in 1..Len(rest) - 1 /\ k \in Nat
      BY <1>2, <1>3
    <2>2. rest'[k] = pp_arr[idx][Copied + (k + 1)]
      BY <1>2, <1>3, <1>4, <2>1
    <2>3. Copied + (k + 1) = Copied' + k
      BY <1>5, <2>1
    <2> QED
      BY <1>2, <2>2, <2>3
  <1>7. ASSUME NEW x \in Entry
        PROVE  /\ y \in ToCopyOf(x) <=> x = e
               /\ ToCopyOf(x)' = ToCopyOf(x) \ {y}
    <2> DEFINE S == PlacesOf(capacity, pp_arr, x)
    <2>1. y \in S <=> x = e
      BY <1>1, <1>3, <1>5, PlaceAt
    <2>2. \A q \in S : \E b \in 0..capacity - 1, k \in Nat : q = <<b, k>>
      BY PlaceAt
    <2> HIDE DEF S
    <2>3. y \in Beyond(S, idx, Copied) <=> y \in S
      BY <1>5, BeyondAt
    <2>4. Beyond(S, idx, Copied + 1) = Beyond(S, idx, Copied) \ {y}
      <3>1. ASSUME NEW q \in S
            PROVE  q \in Beyond(S, idx, Copied + 1) <=>
                      q \in Beyond(S, idx, Copied) /\ q # y
        <4>1. PICK b \in 0..capacity - 1, k \in Nat : q = <<b, k>>
          BY <2>2
        <4>2. q # y <=> b # idx \/ k # Copied + 1
          <5> DEFINE m == Copied + 1
          <5> HIDE DEF m
          <5>1. <<b, k>> = <<idx, m>> <=> b = idx /\ k = m
            OBVIOUS
          <5> QED
            BY <4>1, <5>1 DEF m
        <4>3. (b > idx \/ (b = idx /\ k > Copied + 1)) <=>
                 (b > idx \/ (b = idx /\ k > Copied)) /\ (b # idx \/ k # Copied + 1)
          <5> DEFINE n == Copied
          <5>1. n \in Int /\ idx \in Int /\ b \in Int
            BY <1>1, <1>5
          <5> HIDE DEF n
          <5>2. (b > idx \/ (b = idx /\ k > n + 1)) <=>
                   (b > idx \/ (b = idx /\ k > n)) /\ (b # idx \/ k # n + 1)
            <6>1. CASE b = idx
              BY <5>1, <6>1
            <6>2. CASE b # idx
              BY <6>2
            <6> QED
              BY <6>1, <6>2
          <5> QED
            BY <5>2 DEF n
        <4> QED
          BY <4>1, <4>2, <4>3, BeyondAt
      <3>2. Beyond(S, idx, Copied + 1) \subseteq S /\ Beyond(S, idx, Copied) \subseteq S
        BY DEF Beyond
      <3> QED
        BY <3>1, <3>2
    <2> QED
      BY <1>2, <1>5, <2>1, <2>3, <2>4 DEF ToCopyOf, S
  <1> HIDE DEF y
  <1>8. ASSUME NEW x \in Entry
        PROVE  Cardinality(PlacesOf(new'.capacity, new'.pp_arr, x))
                 + Cardinality(ToCopyOf(x)')
               = Cardinality(PlacesOf(capacity', pp_arr', x))
    <2> DEFINE A == Cardinality(PlacesOf(new.capacity, new.pp_arr, x))
               B == Cardinality(ToCopyOf(x))
               C == Cardinality(PlacesOf(capacity, pp_arr, x))
    <2>1. A \in Nat /\ IsFiniteSet(PlacesOf(new.capacity, new.pp_arr, x))
      BY <1>1, FinitePlaces
    <2>2. B \in Nat /\ IsFiniteSet(ToCopyOf(x))
      BY <1>1, FinitePlaces DEF ToCopyOf
    <2>3. A + B = C
      BY <1>1 DEF Kept
    <2>4. Cardinality(PlacesOf(new'.capacity, new'.pp_arr, x)) = A + IF x = e THEN 1 ELSE 0
      BY <1>1, <1>2, <1>3, <2>1, CountPushed
    <2>5. Cardinality(ToCopyOf(x)') = B - IF x = e THEN 1 ELSE 0
      <3>1. CASE x = e
        BY <1>7, <2>2, <3>1, FS_RemoveElement
      <3>2. CASE x # e
        <4>1. ToCopyOf(x)' = ToCopyOf(x)
          BY <1>7, <3>2
        <4> QED
          BY <2>2, <3>2, <4>1
      <3> QED
        BY <3>1, <3>2
    <2>6. PlacesOf(capacity', pp_arr', x) = PlacesOf(capacity, pp_arr, x)
      BY <1>2
    <2> HIDE DEF A, B, e
    <2>7. (A + IF x = e THEN 1 ELSE 0) + (B - IF x = e THEN 1 ELSE 0) = A + B
      BY <2>1, <2>2
    <2> QED
      BY <2>3, <2>4, <2>5, <2>6, <2>7 DEF C
  <1>9. Len(rest') <= Len(pp_arr'[idx'])
    BY <1>2, <1>3, <1>4
  <1> QED
    BY <1>6, <1>8, <1>9 DEF Kept

(* What is to be copied lies in the next buckets.                          *)
LEMMA MergeBucketKept ==
    ASSUME TableInv, Kept, MergeBucket
    PROVE  Kept'
  <1>1. /\ rest = <<>> /\ pc = "merge" /\ idx \in 0..capacity - 1
        /\ idx + 1 \in 0..capacity - 1 /\ Table(capacity, pp_arr)
        /\ capacity \in Nat
    BY CapacityAssumption DEF TableInv, TypeOK, MergeBucket, Table, LastBucket
  <1>2. /\ capacity' = capacity /\ pp_arr' = pp_arr /\ new' = new
        /\ idx' = idx + 1 /\ rest' = pp_arr[idx + 1]
    BY DEF MergeBucket, table
  <1>3. /\ pp_arr[idx] \in Seq(Entry) /\ pp_arr[idx + 1] \in Seq(Entry)
        /\ Len(pp_arr[idx]) \in Nat /\ Len(pp_arr[idx + 1]) \in Nat
    BY <1>1 DEF Table
  <1>4. Copied = Len(pp_arr[idx]) /\ Copied' = 0
    BY <1>1, <1>2, <1>3 DEF Copied
  <1>5. \A k \in 1..Len(rest') : rest'[k] = pp_arr'[idx'][Copied' + k]
    BY <1>2, <1>4
  <1>6. ASSUME NEW x \in Entry PROVE ToCopyOf(x)' = ToCopyOf(x)
    <2> DEFINE S == PlacesOf(capacity, pp_arr, x)
    <2>1. \A b, k : <<b, k>> \in S => 1 <= k /\ k <= Len(pp_arr[b])
      BY PlaceAt
    <2>2. \A q \in S : \E b \in 0..capacity - 1, k \in Nat : q = <<b, k>>
      BY PlaceAt
    <2> HIDE DEF S
    <2>3. ASSUME NEW q \in S
          PROVE  q \in Beyond(S, idx + 1, 0) <=> q \in Beyond(S, idx, Copied)
      <3>1. PICK b \in 0..capacity - 1, k \in Nat : q = <<b, k>>
        BY <2>2
      <3>2. 1 <= k /\ k <= Len(pp_arr[b])
        BY <2>1, <3>1
      <3>3. (b > idx + 1 \/ (b = idx + 1 /\ k > 0)) <=>
               (b > idx \/ (b = idx /\ k > Len(pp_arr[idx])))
        <4>1. ~(b = idx /\ k > Len(pp_arr[idx]))
          BY <1>3, <3>2
        <4>2. (b > idx + 1 \/ (b = idx + 1 /\ k > 0)) <=> b > idx
          BY <1>1, <3>2
        <4> QED
          BY <4>1, <4>2
      <3> QED
        BY <1>4, <3>1, <3>3, BeyondAt
    <2>4. Beyond(S, idx + 1, 0) \subseteq S /\ Beyond(S, idx, Copied) \subseteq S
      BY DEF Beyond
    <2>5. Beyond(S, idx + 1, 0) = Beyond(S, idx, Copied)
      BY <2>3, <2>4
    <2> QED
      BY <1>2, <1>4, <2>5 DEF ToCopyOf, S
  <1>7. ASSUME NEW x \in Entry
        PROVE  Cardinality(PlacesOf(new'.capacity, new'.pp_arr, x))
                 + Cardinality(ToCopyOf(x)')
               = Cardinality(PlacesOf(capacity', pp_arr', x))
    BY <1>1, <1>2, <1>6 DEF Kept
  <1>8. Len(rest') <= Len(pp_arr'[idx'])
    BY <1>2, <1>3
  <1> QED
    BY <1>5, <1>7, <1>8 DEF Kept

(* At the end everything is copied: the new table holds what the old held. *)
LEMMA MergeEndsCounts ==
    ASSUME TableInv, Counted, Kept, MergeEnds, NEW x \in Entry
    PROVE  Cardinality(PlacesOf(capacity', pp_arr', x)) =
             Cardinality(PlacesOf(capacity, pp_arr, x))
  <1>1. /\ rest = <<>> /\ pc = "merge" /\ idx = capacity - 1
        /\ Table(capacity, pp_arr) /\ capacity \in 1..MaxCapacity
        /\ new.numOfElements \in Int
        /\ AtMost(Places(new.capacity, new.pp_arr), new.numOfElements)
    BY CapacityAssumption DEF TableInv, TypeOK, MergeEnds, Table, LastBucket, Counted
  <1>2. /\ capacity' = new.capacity /\ pp_arr' = new.pp_arr
    BY DEF MergeEnds
  <1>3. /\ pp_arr[idx] \in Seq(Entry) /\ Len(pp_arr[idx]) \in Nat
        /\ capacity \in Nat
    BY <1>1, CapacityAssumption DEF Table
  <1>4. Copied = Len(pp_arr[idx])
    BY <1>1, <1>3 DEF Copied
  <1>5. ToCopyOf(x) = {}
    <2>1. ASSUME NEW q \in ToCopyOf(x) PROVE FALSE
      <3>1. q \in PlacesOf(capacity, pp_arr, x)
        BY DEF ToCopyOf, Beyond
      <3>2. PICK b \in 0..capacity - 1, k \in Nat : q = <<b, k>>
        BY <3>1, PlaceAt
      <3>3. k <= Len(pp_arr[b])
        BY <3>1, <3>2, PlaceAt
      <3>4. b > idx \/ (b = idx /\ k > Copied)
        BY <3>2, BeyondAt DEF ToCopyOf
      <3> QED
        BY <1>1, <1>3, <1>4, <3>3, <3>4
    <2> QED
      BY <2>1
  <1>6. Cardinality(PlacesOf(new.capacity, new.pp_arr, x)) \in Nat
    BY <1>1, FinitePlaces
  <1>7. Cardinality(PlacesOf(new.capacity, new.pp_arr, x)) + Cardinality(ToCopyOf(x))
          = Cardinality(PlacesOf(capacity, pp_arr, x))
    BY <1>1 DEF Kept
  <1>8. Cardinality(ToCopyOf(x)) = 0
    BY <1>5, FS_EmptySet
  <1> QED
    BY <1>2, <1>6, <1>7, <1>8

(* delete takes one place of an entry with the key, if it finds one.       *)
LEMMA DeleteCounts ==
    ASSUME TableInv, Counted', NEW k \in Strings, Delete(k)
    PROVE  \E e \in Entry :
              /\ e.key = k
              /\ \A x \in Entry :
                    Cardinality(PlacesOf(capacity, pp_arr, x)) =
                      Cardinality(PlacesOf(capacity, pp_arr', x)) + IF x = e THEN 1 ELSE 0
  <1> DEFINE b == Hash(k, capacity)
  <1>1. /\ capacity \in 1..MaxCapacity /\ pp_arr \in [0..capacity - 1 -> Seq(Entry)]
        /\ b \in 0..capacity - 1
    BY HashAssumption DEF TableInv, TypeOK, Table
  <1>2. PICK i \in DOMAIN pp_arr[b] :
           /\ FirstOf(b, {e \in Entry : e.key = k}, i)
           /\ pp_arr' = [pp_arr EXCEPT ![b] = RemoveAt(@, i)]
    BY DEF Delete
  <1> DEFINE e == pp_arr[b][i]
             r == RemoveAt(pp_arr[b], i)
  <1>3. e \in Entry /\ e.key = k
    BY <1>2 DEF FirstOf
  <1>4. /\ pp_arr[b] \in Seq(Entry) /\ Len(pp_arr[b]) \in Nat
        /\ i \in Nat /\ 1 <= i /\ i <= Len(pp_arr[b])
    BY <1>1, <1>2
  <1>5. /\ r \in Seq(Entry) /\ DOMAIN r = 1..Len(pp_arr[b]) - 1
        /\ \A j \in 1..Len(pp_arr[b]) - 1 :
              r[j] = IF j < i THEN pp_arr[b][j] ELSE pp_arr[b][j + 1]
    BY <1>4, RemoveFromBucket DEF RemoveAt
  <1>6. pp_arr'[b] = r /\ \A d \in 0..capacity - 1 : d # b => pp_arr'[d] = pp_arr[d]
    BY <1>1, <1>2
  <1> HIDE DEF r, b
  <1>7. Len(r) \in Nat /\ Len(pp_arr[b]) = Len(r) + 1
    <2>1. Len(r) \in Nat /\ DOMAIN r = 1..Len(r)
      BY <1>5
    <2>2. 1..Len(r) = 1..Len(pp_arr[b]) - 1 /\ Len(pp_arr[b]) - 1 \in Nat
      BY <1>4, <1>5, <2>1
    <2>3. Len(r) = Len(pp_arr[b]) - 1
      BY <2>1, <2>2
    <2> QED
      BY <1>4, <2>3
  <1>8. \A j \in Nat : 1 <= j /\ j <= Len(r) =>
                          r[j] = pp_arr[b][IF j < i THEN j ELSE j + 1]
    BY <1>4, <1>5, <1>7
  <1>9. PutInto(capacity, pp_arr', pp_arr, b, i, e)
    BY <1>1, <1>4, <1>5, <1>6, <1>7, <1>8 DEF PutInto
  <1>10. ASSUME NEW x \in Entry
         PROVE  Cardinality(PlacesOf(capacity, pp_arr, x)) =
                  Cardinality(PlacesOf(capacity, pp_arr', x)) + IF x = e THEN 1 ELSE 0
    <2>1. /\ AtMost(Places(capacity, pp_arr'), numOfElements)
          /\ numOfElements \in Int
      BY DEF TableInv, TypeOK, Delete, Counted
    <2>2. IsFiniteSet(PlacesOf(capacity, pp_arr', x))
      BY <2>1, FinitePlaces
    <2> HIDE DEF e
    <2> QED
      BY <1>9, <2>2, CountOneMore
  <1> QED
    BY <1>3, <1>10

-----------------------------------------------------------------------------
(* The abstract bag counts places.                                         *)
LEMMA BagCounts ==
    ASSUME NEW c, NEW arr, Table(c, arr), NEW e
    PROVE  UNION {{<<b, i>> : i \in {j \in DOMAIN arr[b] : arr[b][j] = e}} :
                     b \in 0..c - 1}
             = PlacesOf(c, arr, e)
  <1> DEFINE U == UNION {{<<b, i>> : i \in {j \in DOMAIN arr[b] : arr[b][j] = e}} :
                            b \in 0..c - 1}
  <1>1. ASSUME NEW b \in 0..c - 1
        PROVE  /\ DOMAIN arr[b] = 1..Len(arr[b]) /\ Len(arr[b]) \in Nat
               /\ \A i : i \in DOMAIN arr[b] <=> i \in Nat /\ 1 <= i /\ i <= Len(arr[b])
    BY DEF Table
  <1>2. \A q \in U : \E b \in 0..c - 1 : \E i \in DOMAIN arr[b] :
                        q = <<b, i>> /\ arr[b][i] = e
    OBVIOUS
  <1>3. \A b \in 0..c - 1 : \A i \in DOMAIN arr[b] : arr[b][i] = e => <<b, i>> \in U
    OBVIOUS
  <1> HIDE DEF U
  <1>4. U \subseteq PlacesOf(c, arr, e)
    BY <1>1, <1>2, PlaceAt
  <1>5. ASSUME NEW q \in PlacesOf(c, arr, e) PROVE q \in U
    <2>1. PICK b \in 0..c - 1, k \in Nat : q = <<b, k>>
      BY PlaceAt
    <2>2. 1 <= k /\ k <= Len(arr[b]) /\ arr[b][k] = e
      BY <2>1, PlaceAt
    <2>3. k \in DOMAIN arr[b]
      BY <1>1, <2>2
    <2> QED
      BY <1>3, <2>1, <2>2, <2>3
  <1> QED
    BY <1>4, <1>5 DEF U

(* How often the table holds an entry.                                     *)
Held(c, arr) == [e \in Entry |-> Cardinality(PlacesOf(c, arr, e))]

Count == [e \in Entry |-> Cardinality(Occurrences(e))]

(* The bag is what the table holds, before a step and after it.            *)
LEMMA CountIsHeld == TypeOK => Count = Held(capacity, pp_arr)
  <1> SUFFICES ASSUME TypeOK PROVE Count = Held(capacity, pp_arr)
    OBVIOUS
  <1>1. \A e : Occurrences(e) = PlacesOf(capacity, pp_arr, e)
    BY BagCounts DEF TypeOK, Occurrences
  <1> QED
    BY <1>1 DEF Count, Held

(* The same after a step.                                                *)
LEMMA CountIsHeldNext == TypeOK' => Count' = Held(capacity', pp_arr')
  <1> SUFFICES ASSUME TypeOK' PROVE Count' = Held(capacity', pp_arr')
    OBVIOUS
  <1>1. Table(capacity', pp_arr')
    BY DEF TypeOK
  <1>2. \A e : Occurrences(e)' = PlacesOf(capacity', pp_arr', e)
    BY <1>1, BagCounts DEF Occurrences
  <1> QED
    BY <1>2 DEF Count, Held

(* Nothing is in the bag at the start.                                     *)
LEMMA InitRefines == Init => Kept /\ Bag!Init
  <1> SUFFICES ASSUME Init PROVE Kept /\ Bag!Init
    OBVIOUS
  <1>1. Kept
    BY DEF Init, Kept
  <1>2. capacity \in 1..MaxCapacity /\ pp_arr = Empty(capacity) /\ MaxCapacity \in Nat
    BY CapacityAssumption DEF Init
  <1>3. ASSUME NEW e \in Entry PROVE Occurrences(e) = {}
    <2>1. \A b \in 0..capacity - 1 : pp_arr[b] = <<>>
      BY <1>2 DEF Empty
    <2>2. \A b \in 0..capacity - 1 : DOMAIN pp_arr[b] = {}
      BY <2>1
    <2> QED
      BY <2>2 DEF Occurrences
  <1>4. Count = [e \in Entry |-> 0]
    BY <1>3, FS_EmptySet DEF Count
  <1>5. answer = [value |-> NoData]
    BY DEF Init, NoAnswer
  <1> QED
    BY <1>1, <1>4, <1>5
    DEF Bag!Init, Count, Entry, Bag!Entry, NoData, Bag!NoData

(* insert adds one entry.                                                  *)
LEMMA InsertRefines ==
    ASSUME TableInv, TableInv', Counted, NEW e \in Entry, Insert(e)
    PROVE  Bag!Insert(e)
  <1>1. Count = Held(capacity, pp_arr) /\ Count' = Held(capacity', pp_arr')
    BY CountIsHeld, CountIsHeldNext DEF TableInv
  <1>2. capacity' = capacity /\ answer' = answer
    BY DEF Insert
  <1>3. /\ numOfElements \in Int /\ AtMost(Places(capacity, pp_arr), numOfElements)
    BY DEF TableInv, TypeOK, Counted
  <1>4. ASSUME NEW x \in Entry
        PROVE  Held(capacity, pp_arr')[x] = IF x = e THEN Held(capacity, pp_arr)[e] + 1
                                            ELSE Held(capacity, pp_arr)[x]
    <2>1. Cardinality(PlacesOf(capacity, pp_arr, x)) \in Nat
      BY <1>3, FinitePlaces
    <2>2. Cardinality(PlacesOf(capacity, pp_arr', x)) =
             Cardinality(PlacesOf(capacity, pp_arr, x)) + IF x = e THEN 1 ELSE 0
      BY InsertCounts
    <2>3. /\ Held(capacity, pp_arr)[x] = Cardinality(PlacesOf(capacity, pp_arr, x))
          /\ Held(capacity, pp_arr')[x] = Cardinality(PlacesOf(capacity, pp_arr', x))
      BY DEF Held
    <2> QED
      BY <2>1, <2>2, <2>3
  <1>5. Held(capacity, pp_arr') = [Held(capacity, pp_arr) EXCEPT ![e] = @ + 1]
    BY <1>4 DEF Held
  <1>6. Count' = [Count EXCEPT ![e] = @ + 1]
    BY <1>1, <1>2, <1>5
  <1> QED
    BY <1>2, <1>6 DEF Bag!Insert, Count

(* delete takes one entry of that key.                                     *)
LEMMA DeleteRefines ==
    ASSUME TableInv, TableInv', Counted', NEW k \in Strings, Delete(k)
    PROVE  Bag!Delete(k)
  <1>1. Count = Held(capacity, pp_arr) /\ Count' = Held(capacity', pp_arr')
    BY CountIsHeld, CountIsHeldNext DEF TableInv
  <1>2. capacity' = capacity /\ numOfElements' = numOfElements /\ answer' = answer
    BY DEF Delete
  <1>3. /\ numOfElements \in Int /\ AtMost(Places(capacity, pp_arr'), numOfElements)
    BY <1>2 DEF TableInv, TypeOK, Counted
  <1>4. PICK e \in Entry :
           /\ e.key = k
           /\ \A x \in Entry :
                 Cardinality(PlacesOf(capacity, pp_arr, x)) =
                   Cardinality(PlacesOf(capacity, pp_arr', x)) + IF x = e THEN 1 ELSE 0
    BY DeleteCounts
  <1>5. ASSUME NEW x \in Entry
        PROVE  /\ Held(capacity, pp_arr')[x] = IF x = e THEN Held(capacity, pp_arr)[e] - 1
                                               ELSE Held(capacity, pp_arr)[x]
               /\ x = e => Held(capacity, pp_arr)[x] > 0
    <2>1. Cardinality(PlacesOf(capacity, pp_arr', x)) \in Nat
      BY <1>3, FinitePlaces
    <2>2. /\ Held(capacity, pp_arr)[x] = Cardinality(PlacesOf(capacity, pp_arr, x))
          /\ Held(capacity, pp_arr')[x] = Cardinality(PlacesOf(capacity, pp_arr', x))
      BY DEF Held
    <2> QED
      BY <1>4, <2>1, <2>2
  <1>6. /\ Held(capacity, pp_arr') = [Held(capacity, pp_arr) EXCEPT ![e] = @ - 1]
        /\ Held(capacity, pp_arr)[e] > 0
    BY <1>5 DEF Held
  <1>7. Count' = [Count EXCEPT ![e] = @ - 1] /\ Count[e] > 0
    BY <1>1, <1>2, <1>6
  <1> QED
    BY <1>2, <1>4, <1>7 DEF Bag!Delete, Count, Entry, Bag!Entry

(* search answers with an entry of the table under that pointer, or there  *)
(* is none, as entries stand where their keys hash to.                     *)
LEMMA SearchRefines ==
    ASSUME TableInv, TableInv', Reachable, Counted,
           NEW k \in Strings, NEW p \in Pointers, Search(k, p)
    PROVE  Bag!Search(k, p)
  <1> DEFINE b == Hash(k, capacity)
             same == {e \in Entry : SameKey(e, k, p)}
  <1>1. /\ capacity \in 1..MaxCapacity /\ pp_arr \in [0..capacity - 1 -> Seq(Entry)]
        /\ b \in 0..capacity - 1 /\ numOfElements \in Int
        /\ AtMost(Places(capacity, pp_arr), numOfElements)
        /\ InItsBucket(capacity, pp_arr)
    BY HashAssumption DEF TableInv, TypeOK, Table, Counted, Reachable
  <1>2. /\ Count = Held(capacity, pp_arr) /\ Count' = Held(capacity', pp_arr')
        /\ capacity' = capacity /\ pp_arr' = pp_arr
    BY CountIsHeld, CountIsHeldNext DEF TableInv, Search, table
  <1>3. Count' = Count
    BY <1>2
  <1>4. \A x \in Entry : Count[x] = Cardinality(PlacesOf(capacity, pp_arr, x))
    BY <1>2 DEF Held
  <1>5. CASE \E i \in DOMAIN pp_arr[b] :
                FirstOf(b, same, i) /\ answer' = Answer(k, p, pp_arr[b][i].value)
    <2>1. PICK i \in DOMAIN pp_arr[b] :
             FirstOf(b, same, i) /\ answer' = Answer(k, p, pp_arr[b][i].value)
      BY <1>5
    <2> DEFINE e == pp_arr[b][i]
    <2>2. e \in Entry /\ e.key = k /\ e.at = p
      BY <2>1 DEF FirstOf, SameKey
    <2>3. i \in Nat /\ 1 <= i /\ i <= Len(pp_arr[b])
      BY <1>1, <2>1
    <2>4. <<b, i>> \in PlacesOf(capacity, pp_arr, e)
      BY <1>1, <2>3, PlaceAt
    <2>5. Cardinality(PlacesOf(capacity, pp_arr, e)) > 0
      <3>1. IsFiniteSet(PlacesOf(capacity, pp_arr, e))
        BY <1>1, FinitePlaces
      <3>2. /\ Cardinality(PlacesOf(capacity, pp_arr, e)) \in Nat
            /\ Cardinality(PlacesOf(capacity, pp_arr, e)) = 0
                 <=> PlacesOf(capacity, pp_arr, e) = {}
        BY <3>1, FS_CardinalityType, FS_EmptySet
      <3> QED
        BY <2>4, <3>2
    <2>6. Count[e] > 0 /\ answer' = Answer(k, p, e.value)
      BY <1>4, <2>1, <2>2, <2>5
    <2> HIDE DEF e
    <2> QED
      BY <1>3, <2>2, <2>6
      DEF Bag!Search, Count, Entry, Bag!Entry, Answer, Bag!Answer
  <1>6. CASE /\ \A i \in DOMAIN pp_arr[b] : pp_arr[b][i] \notin same
             /\ answer' = Answer(k, p, NoData)
    <2>1. ASSUME NEW x \in Entry, x.key = k /\ x.at = p
          PROVE  Count[x] = 0
      <3>1. ASSUME NEW q \in PlacesOf(capacity, pp_arr, x) PROVE FALSE
        <4>1. PICK d \in 0..capacity - 1, j \in Nat : q = <<d, j>>
          BY PlaceAt
        <4>2. 1 <= j /\ j <= Len(pp_arr[d]) /\ pp_arr[d][j] = x
          BY <4>1, PlaceAt
        <4>3. j \in DOMAIN pp_arr[d]
          BY <1>1, <4>2
        <4>4. d = b
          BY <1>1, <2>1, <4>2, <4>3 DEF InItsBucket
        <4>5. x \in same
          BY <2>1 DEF SameKey
        <4> QED
          BY <1>6, <4>2, <4>3, <4>4, <4>5
      <3>2. PlacesOf(capacity, pp_arr, x) = {}
        BY <3>1
      <3> QED
        BY <1>4, <3>2, FS_EmptySet
    <2> QED
      BY <1>3, <1>6, <2>1
      DEF Bag!Search, Count, Entry, Bag!Entry, Answer, Bag!Answer, NoData, Bag!NoData
  <1> QED
    BY <1>5, <1>6 DEF Search

(* The merge is not seen from outside.                                     *)
LEMMA MergeRefines ==
    ASSUME TableInv, TableInv', Counted, Kept, MergeEntry \/ MergeBucket \/ MergeEnds
    PROVE  Count' = Count /\ answer' = answer
  <1>1. Count = Held(capacity, pp_arr) /\ Count' = Held(capacity', pp_arr')
    BY CountIsHeld, CountIsHeldNext DEF TableInv
  <1>2. CASE MergeEntry \/ MergeBucket
    <2>1. capacity' = capacity /\ pp_arr' = pp_arr /\ answer' = answer
      BY <1>2 DEF MergeEntry, MergeBucket, table
    <2> QED
      BY <1>1, <2>1
  <1>3. CASE MergeEnds
    <2>1. answer' = answer
      BY <1>3 DEF MergeEnds
    <2>2. \A x \in Entry : Cardinality(PlacesOf(capacity', pp_arr', x)) =
                             Cardinality(PlacesOf(capacity, pp_arr, x))
      BY <1>3, MergeEndsCounts
    <2> QED
      BY <1>1, <2>1, <2>2 DEF Held
  <1> QED
    BY <1>2, <1>3

(* Every step keeps the account of the merge.                              *)
LEMMA KeptStep ==
    TableInv /\ TableInv' /\ Counted /\ Counted' /\ Kept /\ [Next]_vars => Kept'
  <1> SUFFICES ASSUME TableInv, TableInv', Counted, Counted', Kept, [Next]_vars
               PROVE  Kept'
    OBVIOUS
  <1>1. CASE \E e \in Entry : Insert(e)
    BY <1>1, InsertKept
  <1>2. CASE MergeEntry
    BY <1>2, MergeEntryKept
  <1>3. CASE MergeBucket
    BY <1>3, MergeBucketKept
  <1>4. CASE MergeEnds
    BY <1>4 DEF MergeEnds, Kept
  <1>5. CASE \E k \in Strings : Delete(k) \/ \E p \in Pointers : Search(k, p)
    <2>1. pc' = "idle"
      BY <1>5 DEF Delete, Search
    <2> QED
      BY <2>1 DEF Kept
  <1>6. CASE UNCHANGED vars
    BY <1>6 DEF vars, table, merging, Kept, ToCopyOf, Copied
  <1> QED
    BY <1>1, <1>2, <1>3, <1>4, <1>5, <1>6 DEF Next

(* Every step of the table is a step of the bag or none.                   *)
LEMMA StepRefines ==
    TableInv /\ TableInv' /\ Reachable /\ Counted /\ Counted' /\ Kept /\ [Next]_vars
      => [Bag!Next]_<<Count, answer>>
  <1> SUFFICES ASSUME TableInv, TableInv', Reachable, Counted, Counted', Kept,
                      [Next]_vars
               PROVE  Bag!Next \/ (Count' = Count /\ answer' = answer)
    OBVIOUS
  <1>1. CASE \E e \in Entry : Insert(e)
    BY <1>1, InsertRefines DEF Bag!Next, Entry, Bag!Entry
  <1>2. CASE MergeEntry \/ MergeBucket \/ MergeEnds
    BY <1>2, MergeRefines
  <1>3. CASE \E k \in Strings : Delete(k)
    BY <1>3, DeleteRefines DEF Bag!Next
  <1>4. CASE \E k \in Strings, p \in Pointers : Search(k, p)
    BY <1>4, SearchRefines DEF Bag!Next
  <1>5. CASE UNCHANGED vars
    <2>1. capacity' = capacity /\ pp_arr' = pp_arr /\ answer' = answer
      BY <1>5 DEF vars, table
    <2> QED
      BY <2>1 DEF Count, Occurrences
  <1> QED
    BY <1>1, <1>2, <1>3, <1>4, <1>5 DEF Next

(* The table of src/hashtable.c, with its buckets and its growth, does what*)
(* EntryBag says: insert adds one entry, delete takes one of that key,     *)
(* search answers about entries under that pointer, and a merge, which     *)
(* moves every entry to another table, is not seen from outside.           *)
THEOREM TableImplementsEntryBag == Spec => ImplementsEntryBag
  <1>1. Init => Kept /\ Bag!Init
    BY InitRefines
  <1>2. TableInv /\ TableInv' /\ Counted /\ Counted' /\ Kept /\ [Next]_vars => Kept'
    BY KeptStep
  <1>3. TableInv /\ TableInv' /\ Reachable /\ Counted /\ Counted' /\ Kept /\ [Next]_vars
          => [Bag!Next]_<<Count, answer>>
    BY StepRefines
  <1> QED
    BY <1>1, <1>2, <1>3, Invariance, CountedInvariance, PTL
    DEF Spec, ImplementsEntryBag, Bag!Spec, Bag!bagVars, Count
=============================================================================
