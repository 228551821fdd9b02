------------------------------ MODULE HashMap ------------------------------
(***************************************************************************)
(* The hash table of src/hashtable.c: buckets of entries, newest first,    *)
(* and a table of twice the capacity into which every entry is inserted    *)
(* again when the load reaches 3/4.  That merge is one step per entry,     *)
(* because each of its insertions may itself find the new table too full.  *)
(*                                                                         *)
(* A key is a string and the pointer that the caller gave for it.          *)
(***************************************************************************)
EXTENDS Integers, Sequences, FiniteSets

CONSTANTS Strings,          \* the strings used as keys
          Pointers,         \* addresses where a copy of a string may stand
          Values,
          Hash(_, _),       \* hashFunction(string, capacity)
          InitialCapacity,  \* 2 in main
          MaxCapacity       \* bound: the table does not grow beyond

ASSUME CapacityAssumption ==
    /\ MaxCapacity \in Nat
    /\ InitialCapacity \in 1..MaxCapacity
ASSUME HashAssumption ==
    \A k \in Strings, c \in 1..MaxCapacity : Hash(k, c) \in 0..c - 1

VARIABLES capacity, numOfElements, pp_arr,  \* struct hashmap
          new,      \* hashtable_new, or the empty record
          pc,       \* "idle", "merge", or "nested": the new table grew, too
          idx,      \* merge_hashtable's idx
          rest,     \* the entries from its head on
          answer    \* the last search and what it returned

table   == <<capacity, numOfElements, pp_arr>>
merging == <<new, idx, rest>>
vars == <<table, merging, pc, answer>>

Entry == [key : Strings, at : Pointers, value : Values]
NoData == "Opps, no data found"
Answer(k, p, v) == [key |-> k, at |-> p, value |-> v]
NoAnswer == [value |-> NoData]
NoTable == [capacity |-> 0]

(* initializeHashMap                                                       *)
Empty(c) == [b \in 0..c - 1 |-> <<>>]

Init ==
    /\ capacity = InitialCapacity
    /\ numOfElements = 0
    /\ pp_arr = Empty(InitialCapacity)
    /\ new = NoTable
    /\ idx = 0
    /\ rest = <<>>
    /\ pc = "idle"
    /\ answer = NoAnswer

-----------------------------------------------------------------------------
(* Mutated form of TooFull: the table grows only once it is over-full.     *)
MoreThanFull(n, c) == n > c

(* Mutated form of TooFull: > in the place of >=.                          *)
OverThreeQuarters(n, c) == 4 * n > 3 * c

(* The float quotient is exact enough below 2^24 elements.                 *)
TooFull(n, c) == 4 * n >= 3 * c

(* Mutated form of Larger: a table of one bucket more.                     *)
OneMore(c) == c + 1

Larger(c) == c * 2

Push(arr, b, e) == [arr EXCEPT ![b] = <<e>> \o @]

(* insert: the entry goes to the head of its bucket; a full table makes a  *)
(* larger one and begins to merge.                                         *)
Insert(e) ==
    LET n   == numOfElements + 1
        arr == Push(pp_arr, Hash(e.key, capacity), e)
    IN  /\ pc = "idle"
        /\ TooFull(n, capacity) => Larger(capacity) <= MaxCapacity
        /\ numOfElements' = n
        /\ pp_arr' = arr
        /\ IF TooFull(n, capacity)
           THEN /\ new' = [capacity |-> Larger(capacity), numOfElements |-> 0,
                           pp_arr |-> Empty(Larger(capacity))]
                /\ idx' = 0
                /\ rest' = arr[0]
                /\ pc' = "merge"
           ELSE UNCHANGED <<merging, pc>>
        /\ UNCHANGED <<capacity, answer>>

(* Mutated form of NewBucket: the old table's bucket.                      *)
OldBucket(e) == Hash(e.key, capacity)

NewBucket(e) == Hash(e.key, new.capacity)

(* insert of an old entry into the new table.  What it returns is not used,*)
(* so if the new table grew here the merge would go on with a freed one.   *)
MergeEntry ==
    /\ pc = "merge"
    /\ rest # <<>>
    /\ new' = [new EXCEPT !.numOfElements = @ + 1,
                          !.pp_arr = Push(@, NewBucket(Head(rest)), Head(rest))]
    /\ rest' = Tail(rest)
    /\ pc' = IF TooFull(new'.numOfElements, new.capacity) THEN "nested" ELSE "merge"
    /\ UNCHANGED <<table, idx, answer>>

(* Mutated form of LastBucket: < capacity - 1 in the loop's condition.     *)
LastButOne == idx >= capacity - 2

LastBucket == idx = capacity - 1

MergeBucket ==
    /\ pc = "merge"
    /\ rest = <<>>
    /\ ~LastBucket
    /\ idx' = idx + 1
    /\ rest' = pp_arr[idx + 1]
    /\ UNCHANGED <<table, new, pc, answer>>

(* delete_list frees the old table and insert returns the new one.         *)
MergeEnds ==
    /\ pc = "merge"
    /\ rest = <<>>
    /\ LastBucket
    /\ capacity' = new.capacity
    /\ numOfElements' = new.numOfElements
    /\ pp_arr' = new.pp_arr
    /\ new' = NoTable
    /\ idx' = 0
    /\ pc' = "idle"
    /\ UNCHANGED <<rest, answer>>

-----------------------------------------------------------------------------
(* i is the place of the first entry of bucket b that is one of wanted.    *)
FirstOf(b, wanted, i) ==
    /\ i \in DOMAIN pp_arr[b]
    /\ pp_arr[b][i] \in wanted
    /\ \A j \in 1..i - 1 : pp_arr[b][j] \notin wanted

RemoveAt(s, p) ==
    [i \in 1..Len(s) - 1 |-> IF i < p THEN s[i] ELSE s[i + 1]]

(* delete compares with strcmp and does not count.                         *)
Delete(k) ==
    LET b == Hash(k, capacity)
        equal == {e \in Entry : e.key = k}
    IN  /\ pc = "idle"
        /\ \E i \in DOMAIN pp_arr[b] :
              /\ FirstOf(b, equal, i)
              /\ pp_arr' = [pp_arr EXCEPT ![b] = RemoveAt(@, i)]
        /\ UNCHANGED <<capacity, numOfElements, merging, pc, answer>>

(* search compares the pointers; equal pointers are equal strings.         *)
SameKey(e, k, p) == e.key = k /\ e.at = p

Search(k, p) ==
    LET b == Hash(k, capacity)
        same == {e \in Entry : SameKey(e, k, p)}
    IN  /\ pc = "idle"
        /\ \/ \E i \in DOMAIN pp_arr[b] :
                 FirstOf(b, same, i) /\ answer' = Answer(k, p, pp_arr[b][i].value)
           \/ /\ \A i \in DOMAIN pp_arr[b] : pp_arr[b][i] \notin same
              /\ answer' = Answer(k, p, NoData)
        /\ UNCHANGED <<table, merging, pc>>

Next ==
    \/ \E e \in Entry : Insert(e)
    \/ MergeEntry
    \/ MergeBucket
    \/ MergeEnds
    \/ \E k \in Strings : Delete(k) \/ \E p \in Pointers : Search(k, p)

Spec == Init /\ [][Next]_vars

-----------------------------------------------------------------------------
Table(c, arr) ==
    /\ c \in 1..MaxCapacity
    /\ arr \in [0..c - 1 -> Seq(Entry)]

(* Types of the variables.                                                 *)
TypeOK ==
    /\ Table(capacity, pp_arr)
    /\ numOfElements \in 0..capacity
    /\ pc \in {"idle", "merge", "nested"}
    /\ pc # "idle" => Table(new.capacity, new.pp_arr)
    /\ pc # "idle" => new.numOfElements \in 0..new.capacity
    /\ idx \in 0..capacity - 1
    /\ rest \in Seq(Entry)
    /\ \/ answer = NoAnswer
       \/ answer \in [key : Strings, at : Pointers, value : Values \cup {NoData}]

(* Every entry stands in the bucket its key hashes to, in the table in use *)
(* and in the one being filled: no entry gets out of reach by growing.     *)
InItsBucket(c, arr) ==
    \A b \in 0..c - 1 : \A i \in DOMAIN arr[b] : Hash(arr[b][i].key, c) = b
Reachable ==
    /\ InItsBucket(capacity, pp_arr)
    /\ pc # "idle" => InItsBucket(new.capacity, new.pp_arr)

(* Between the calls the load is below 3/4.                                *)
LoadBounded == pc = "idle" => 4 * numOfElements < 3 * capacity

(* The table that merge_hashtable fills never becomes too full itself, so  *)
(* ignoring what its insertions return loses nothing.                      *)
MergeNeverGrows == pc # "nested"

-----------------------------------------------------------------------------
(* The bag of the abstract table: how often an entry stands in the one in  *)
(* use.                                                                    *)
Occurrences(e) ==
    UNION {{<<b, i>> : i \in {j \in DOMAIN pp_arr[b] : pp_arr[b][j] = e}} :
             b \in 0..capacity - 1}

Bag == INSTANCE EntryBag
         WITH bag <- [e \in Entry |-> Cardinality(Occurrences(e))]

(* The table is a bag of entries: an insertion adds its entry, delete takes*)
(* one entry of that key or none, search answers with an entry inserted    *)
(* under that pointer, and growing the table neither loses nor doubles any *)
(* entry (merge_hashtable is a stutter).                                   *)
ImplementsEntryBag == Bag!Spec
=============================================================================
