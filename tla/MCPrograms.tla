----------------------------- MODULE MCPrograms -----------------------------
(***************************************************************************)
(* The sequential code of the repository, each piece on inputs of its own. *)
(* The first state chooses which piece runs, so that the sizes add up and  *)
(* do not multiply; the variables of the others stay as they are.          *)
(***************************************************************************)
EXTENDS MergeSort, Trees

CONSTANTS FieldSize, Bytes, MaxData   \* of requests: field, bytes, how many

ASSUME RequestsAssumption ==
    FieldSize \in Nat \ {0} /\ Bytes \subseteq Nat /\ MaxData \in Nat

VARIABLES buffer, judged

requestVars == <<buffer, judged>>
allVars == <<treeVars, sortVars, requestVars>>

(* The library lets names through that are shorter than their fields, the  *)
(* older copy names that fill them.                                        *)
Library == INSTANCE Dispatch WITH MAX_NAME_SIZE <- FieldSize - 1
Older   == INSTANCE Dispatch WITH MAX_NAME_SIZE <- FieldSize

(* An opcode of each kind and one of none, lengths up to one too many, and *)
(* any bytes; and buffers that end within the header.                      *)
Bodies == UNION {[1..n -> Bytes] : n \in 0..MaxData}

Request(op, u, p, d) == <<op, u, p>> \o d

Headed ==
    {Request(op, u, p, d) :
        op \in {1, 4, 9, 13}, u \in 0..FieldSize + 1, p \in 0..FieldSize + 1,
        d \in Bodies}

Headless == {<<>>, <<1>>, <<9, 1>>}

Buffers == Headed \cup Headless

(* The array of a merge_sort that has returned.                            *)
NoSort ==
    /\ values = [x \in Index |-> [key |-> CHOOSE n \in Keys : TRUE, from |-> x]]
    /\ calls = <<>> /\ left = <<>> /\ right = <<>>
    /\ i = 0 /\ j = 0 /\ k = 0

ProgramsInit ==
    /\ NoTree
    /\ judged = FALSE
    /\ \/ program \in {"avl", "bst"} /\ NoSort /\ buffer = <<>>
       \/ program = "sort" /\ Init /\ buffer = <<>>
       \/ program = "request" /\ NoSort /\ buffer \in Buffers

StepTree ==
    program \in {"avl", "bst"} /\ TreesNext /\ UNCHANGED <<sortVars, requestVars>>

StepSort == program = "sort" /\ Next /\ UNCHANGED <<treeVars, requestVars>>

Judge ==
    /\ program = "request"
    /\ ~judged
    /\ judged' = TRUE
    /\ UNCHANGED <<treeVars, sortVars, buffer>>

Finished ==
    /\ \/ program = "sort" /\ calls = <<>>
       \/ program = "request" /\ judged
    /\ UNCHANGED allVars

ProgramsNext == StepTree \/ StepSort \/ Judge \/ Finished

ProgramsSpec == ProgramsInit /\ [][ProgramsNext]_allVars

(* A tree without its addresses.  Two trees that differ in them only behave*)
(* alike, and TLC looks at one of them.                                    *)
Shapes ==
    LET shape[p \in DOMAIN heap] ==
          LET Hanging(q) == IF q = NULL THEN <<>> ELSE <<shape[q]>>
          IN  [heap[p] EXCEPT !.left = Hanging(@), !.right = Hanging(@)]
    IN  shape

View ==
    IF pc = "idle"
    THEN <<program, IF root = NULL THEN <<>> ELSE <<Shapes[root]>>, members,
           Cardinality(DOMAIN heap), sortVars, requestVars>>
    ELSE <<allVars>>

(* Of the inputs to process_data exactly the well-formed ones with room    *)
(* for their terminators get past its checks, whatever bytes follow.       *)
ChecksExact ==
    program = "request" /\ judged =>
        Library!ExactFor(buffer) /\ Older!ExactFor(buffer)
=============================================================================
