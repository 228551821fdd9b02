----------------------------- MODULE MergeSort ------------------------------
(***************************************************************************)
(* merge_sort of src/mergesort.c on an array of any length, with its stack *)
(* of calls and the loops of merge one element at a time.                  *)
(*                                                                         *)
(* The program sorts ints.  Here an element also carries the index it came *)
(* from, which the code never sees: it tells equal keys apart.             *)
(***************************************************************************)
EXTENDS Integers, Sequences, FiniteSets

CONSTANTS N,      \* length of the array
          Keys    \* the ints in it

ASSUME NAssumption == N \in Nat /\ N > 0
ASSUME KeysAssumption == Keys \subseteq Int

Index == 0..N - 1
Elements == [key : Keys, from : Index]

VARIABLES values,   \* the array
          calls,    \* stack of merge_sort's calls, the running one first
          left,     \* the temporary arrays of the running merge
          right,
          i, j, k   \* its indices

merging == <<left, right, i, j, k>>
sortVars == <<values, calls, merging>>

(* at says what the call does next: "test" its bounds, sort the "right"    *)
(* half, "copy" the halves out, or "merge" them.                           *)
Call(start, end) == [start |-> start, end |-> end, at |-> "test"]

Init ==
    /\ \E keys \in [Index -> Keys] :
          values = [x \in Index |-> [key |-> keys[x], from |-> x]]
    /\ calls = <<Call(0, N - 1)>>
    /\ left = <<>>
    /\ right = <<>>
    /\ i = 0
    /\ j = 0
    /\ k = 0

Top == calls[1]
mid == Top.start + (Top.end - Top.start) \div 2
Return == calls' = Tail(calls)

(* The running call goes on to "at" and, until that returns, calls itself. *)
Recurse(start, end, at) ==
    calls' = <<Call(start, end), [Top EXCEPT !.at = at]>> \o Tail(calls)

-----------------------------------------------------------------------------
TestBounds ==
    /\ calls # <<>>
    /\ Top.at = "test"
    /\ \/ Top.start < Top.end /\ Recurse(Top.start, mid, "right")
       \/ Top.start >= Top.end /\ Return
    /\ UNCHANGED <<values, merging>>

SortRight ==
    /\ calls # <<>>
    /\ Top.at = "right"
    /\ Recurse(mid + 1, Top.end, "copy")
    /\ UNCHANGED <<values, merging>>

(* merge begins: the two loops that copy the halves.                       *)
CopyHalves ==
    /\ calls # <<>>
    /\ Top.at = "copy"
    /\ left' = [x \in 1..mid - Top.start + 1 |-> values[Top.start + x - 1]]
    /\ right' = [x \in 1..Top.end - mid |-> values[mid + x]]
    /\ i' = 0
    /\ j' = 0
    /\ k' = Top.start
    /\ calls' = [calls EXCEPT ![1].at = "merge"]
    /\ UNCHANGED values

Merging == calls # <<>> /\ Top.at = "merge"

(* Mutated form of LeftFirst: of two equal elements the right one is taken.*)
LeftFirstStrictly ==
    i < Len(left) /\ (j < Len(right) => left[i + 1].key < right[j + 1].key)

(* Which element comes next, in the loop over both halves and, once one of *)
(* them is used up, in the loops over what is left.                        *)
LeftFirst ==
    i < Len(left) /\ (j < Len(right) => left[i + 1].key <= right[j + 1].key)

TakeLeft ==
    /\ Merging
    /\ LeftFirst
    /\ values' = [values EXCEPT ![k] = left[i + 1]]
    /\ i' = i + 1
    /\ k' = k + 1
    /\ UNCHANGED <<calls, left, right, j>>

TakeRight ==
    /\ Merging
    /\ ~LeftFirst
    /\ j < Len(right)
    /\ values' = [values EXCEPT ![k] = right[j + 1]]
    /\ j' = j + 1
    /\ k' = k + 1
    /\ UNCHANGED <<calls, left, right, i>>

MergeReturns ==
    /\ Merging
    /\ i = Len(left)
    /\ j = Len(right)
    /\ Return
    /\ left' = <<>>
    /\ right' = <<>>
    /\ i' = 0
    /\ j' = 0
    /\ k' = 0
    /\ UNCHANGED values

Next ==
    \/ TestBounds \/ SortRight \/ CopyHalves
    \/ TakeLeft \/ TakeRight \/ MergeReturns

Spec == Init /\ [][Next]_sortVars

-----------------------------------------------------------------------------
(* Types, and the indices in their arrays.                                 *)
TypeOK ==
    /\ values \in [Index -> Elements]
    /\ calls \in Seq([start : Index, end : Index,
                      at : {"test", "right", "copy", "merge"}])
    /\ left \in Seq(Elements)
    /\ right \in Seq(Elements)
    /\ i \in 0..Len(left)
    /\ j \in 0..Len(right)
    /\ k \in 0..N

(* One element comes before another: by key, and equal keys in the order   *)
(* they came in.                                                           *)
Before(a, b) == a.key < b.key \/ (a.key = b.key /\ a.from < b.from)

SortedFrom(start, end) ==
    \A x, y \in start..end : x < y => Before(values[x], values[y])

(* What a call of merge_sort has done so far: before its last merge both   *)
(* halves are sorted, each made of the elements that were there.           *)
HalvesSorted ==
    \A c \in DOMAIN calls :
        LET f == calls[c]
            m == f.start + (f.end - f.start) \div 2
        IN  /\ f.at \in {"right", "copy"} /\ c = 1 => SortedFrom(f.start, m)
            /\ f.at = "copy" /\ c = 1 => SortedFrom(m + 1, f.end)
            /\ f.at = "copy" /\ c > 1 => SortedFrom(f.start, m)

(* A merge writes the array in order and never loses or doubles an element:*)
(* what is written and what still waits in the halves make up the segment. *)
MergeExact ==
    Merging =>
      /\ k = Top.start + i + j
      /\ SortedFrom(Top.start, k - 1)
      /\ Cardinality({values[x].from : x \in Top.start..k - 1}
                       \cup {left[x].from : x \in i + 1..Len(left)}
                       \cup {right[x].from : x \in j + 1..Len(right)})
           = Top.end - Top.start + 1

(* When merge_sort has returned, the array is sorted, holds every element  *)
(* that was there exactly once, and equal keys stand as they came.         *)
SortsStably ==
    calls = <<>> =>
      /\ SortedFrom(0, N - 1)
      /\ {values[x].from : x \in Index} = Index

(* merge_sort keeps its indices in bounds, sorts every half before it      *)
(* merges it, loses and doubles no element, and is stable.                 *)
SortSound == TypeOK /\ HalvesSorted /\ MergeExact /\ SortsStably
=============================================================================
