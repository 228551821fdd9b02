------------------------------ MODULE EntryBag ------------------------------
(***************************************************************************)
(* What the hash table of src/hashtable.c promises: a bag of entries, with *)
(* no bucket, capacity or growth in sight.  insert adds an entry also when *)
(* its key is there, delete takes away one entry whose key reads the same, *)
(* search gives the value of an entry that was inserted under that pointer.*)
(***************************************************************************)
EXTENDS Integers

CONSTANTS Strings, Pointers, Values

VARIABLES bag, answer

bagVars == <<bag, answer>>

Entry == [key : Strings, at : Pointers, value : Values]
NoData == "Opps, no data found"
Answer(k, p, v) == [key |-> k, at |-> p, value |-> v]

Init ==
    /\ bag = [e \in Entry |-> 0]
    /\ answer = [value |-> NoData]

Insert(e) ==
    /\ bag' = [bag EXCEPT ![e] = @ + 1]
    /\ UNCHANGED answer

Delete(k) ==
    /\ \/ \E e \in Entry :
             /\ e.key = k /\ bag[e] > 0
             /\ bag' = [bag EXCEPT ![e] = @ - 1]
       \/ /\ \A e \in Entry : e.key = k => bag[e] = 0
          /\ UNCHANGED bag
    /\ UNCHANGED answer

Search(k, p) ==
    /\ \/ \E e \in Entry :
             /\ e.key = k /\ e.at = p /\ bag[e] > 0
             /\ answer' = Answer(k, p, e.value)
       \/ /\ \A e \in Entry : e.key = k /\ e.at = p => bag[e] = 0
          /\ answer' = Answer(k, p, NoData)
    /\ UNCHANGED bag

Next ==
    \/ \E e \in Entry : Insert(e)
    \/ \E k \in Strings : Delete(k) \/ \E p \in Pointers : Search(k, p)

Spec == Init /\ [][Next]_bagVars
=============================================================================
