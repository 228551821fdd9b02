----------------------------- MODULE LinkedList -----------------------------
(***************************************************************************)
(* The list of src/library/linked_list.c: accounts in nodes linked from    *)
(* head to tail.  A call that walks the list takes one step per node and   *)
(* so shows what it touches and when it ends; the other calls are one step.*)
(*                                                                         *)
(* heap holds the allocated nodes only, so a read of a freed node is an    *)
(* error.  Names and passwords are values of their own: the caller passes  *)
(* their lengths to strncpy, and they fit.  order is a history variable:   *)
(* the nodes from head to tail.  No guard reads it.                        *)
(***************************************************************************)
EXTENDS Integers, Sequences, FiniteSets

CONSTANTS Node,      \* addresses
          Name, Password,
          NULL       \* the null pointer

ASSUME NodeAssumption == NULL \notin Node /\ IsFiniteSet(Node)
ASSUME NullAssumption == NULL \notin [username : Name]

VARIABLES head, tail, nodecount,  \* struct linkedlist
          heap,     \* the nodes that were allocated and not freed
          pc,       \* the function whose loop is running, or "idle"
          wanted,   \* the arguments of that function
          current,  \* its local of that name
          p_prev,   \* deletetarget's local of that name
          answer,   \* what the last call to return gave back
          order     \* history: the nodes from head to tail

struct == <<head, tail, nodecount>>
locals == <<pc, wanted, current, p_prev>>
vars == <<struct, heap, locals, answer, order>>

Account == [username : Name, password : Password]
Found(a) == [status |-> "found", account |-> a]
Status(s) == [status |-> s]

Searches == {"find", "find_with_password"}
Scans    == Searches \cup {"deletetarget"}

Init ==
    /\ head = NULL
    /\ tail = NULL
    /\ nodecount = 0
    /\ heap = [x \in {} |-> NULL]
    /\ pc = "idle"
    /\ wanted = NULL
    /\ current = NULL
    /\ p_prev = NULL
    /\ answer = Status("none")
    /\ order = <<>>

-----------------------------------------------------------------------------
Without(h, x) == [y \in DOMAIN h \ {x} |-> h[y]]
With(h, x, v) == [y \in DOMAIN h \cup {x} |-> IF y = x THEN v ELSE h[y]]
RemoveAt(s, p) ==
    [i \in 1..Len(s) - 1 |-> IF i < p THEN s[i] ELSE s[i + 1]]

(* The call returns s, and its locals are gone.                            *)
Return(s) ==
    /\ answer' = s
    /\ pc' = "idle"
    /\ wanted' = NULL
    /\ current' = NULL
    /\ p_prev' = NULL

(* The call enters its loop at the head of the list.                       *)
Enter(f, a) ==
    /\ pc = "idle"
    /\ pc' = f
    /\ wanted' = a
    /\ current' = head
    /\ UNCHANGED <<struct, heap, p_prev, answer, order>>

(* Mutated form of LinkAtTail: tail does not follow.                       *)
LinkBehindHead(x, a) ==
    LET new == [account |-> a, next |-> NULL] IN
    /\ tail' = IF nodecount = 0 THEN x ELSE tail
    /\ head' = IF nodecount = 0 THEN x ELSE head
    /\ heap' = With(IF nodecount = 0 THEN heap
                    ELSE [heap EXCEPT ![tail].next = x], x, new)

LinkAtTail(x, a) ==
    LET new == [account |-> a, next |-> NULL] IN
    /\ tail' = x
    /\ IF nodecount = 0
       THEN /\ head' = x
            /\ heap' = With(heap, x, new)
       ELSE /\ heap' = With([heap EXCEPT ![tail].next = x], x, new)
            /\ UNCHANGED head

InsertAtTail(x, a) ==
    /\ pc = "idle"
    /\ x \in Node \ DOMAIN heap
    /\ LinkAtTail(x, a)
    /\ nodecount' = nodecount + 1
    /\ order' = Append(order, x)
    /\ Return(Found(a))

InsertFails ==
    /\ pc = "idle"
    /\ Return(Status("none"))
    /\ UNCHANGED <<struct, heap, order>>

-----------------------------------------------------------------------------
(* Mutated form of UnlinkHead: tail is left on the freed node.             *)
UnlinkHeadOnly ==
    /\ head' = heap[head].next
    /\ heap' = Without(heap, head)
    /\ nodecount' = nodecount - 1
    /\ order' = RemoveAt(order, 1)
    /\ UNCHANGED tail

(* deletefirst on a list that is not empty.                                *)
UnlinkHead ==
    /\ IF nodecount = 1
       THEN head' = NULL /\ tail' = NULL
       ELSE head' = heap[head].next /\ UNCHANGED tail
    /\ heap' = Without(heap, head)
    /\ nodecount' = nodecount - 1
    /\ order' = RemoveAt(order, 1)

DeleteFirst ==
    /\ pc = "idle"
    /\ nodecount # 0
    /\ UnlinkHead
    /\ Return(Status("removed"))

(* Mutated form of DeleteFromEmpty: the early return comes too late.       *)
DeleteFromEmptyCounted ==
    /\ pc = "idle"
    /\ nodecount = 0
    /\ nodecount' = nodecount - 1
    /\ Return(Status("absent"))
    /\ UNCHANGED <<head, tail, heap, order>>

DeleteFromEmpty ==
    /\ pc = "idle"
    /\ nodecount = 0
    /\ Return(Status("absent"))
    /\ UNCHANGED <<struct, heap, order>>

-----------------------------------------------------------------------------
DeleteLast == nodecount # 0 /\ Enter("deletelast", NULL)

(* Mutated form of BeforeTail: the loop stops a node late.                 *)
AtTail == nodecount = 1 \/ current = tail

(* The loop has found the node before the tail, or there is one node.      *)
BeforeTail == nodecount = 1 \/ heap[current].next = tail

WalkToTail ==
    /\ pc = "deletelast"
    /\ ~BeforeTail
    /\ current' = heap[current].next
    /\ UNCHANGED <<struct, heap, pc, wanted, p_prev, answer, order>>

UnlinkTail ==
    /\ pc = "deletelast"
    /\ BeforeTail
    /\ IF nodecount = 1
       THEN /\ head' = NULL
            /\ tail' = NULL
            /\ heap' = Without(heap, tail)
       ELSE /\ tail' = current
            /\ heap' = Without([heap EXCEPT ![current].next = NULL], tail)
            /\ UNCHANGED head
    /\ nodecount' = nodecount - 1
    /\ order' = RemoveAt(order, Len(order))
    /\ Return(Status("removed"))

-----------------------------------------------------------------------------
Find(u) == Enter("find", [username |-> u])
FindWithPassword(a) == Enter("find_with_password", a)
DeleteTarget(u) == Enter("deletetarget", [username |-> u])

(* Mutated form of Matches: find_with_password looks at the name only.     *)
MatchesName(x) == heap[x].account.username = wanted.username

Matches(x) ==
    /\ heap[x].account.username = wanted.username
    /\ pc = "find_with_password" =>
          heap[x].account.password = wanted.password

Hit  == pc \in Scans /\ current # NULL /\ Matches(current)
Miss == pc \in Scans /\ current # NULL /\ ~Matches(current)

(* Mutated form of ScanNext: the loop forgets to go on.                    *)
ScanStays ==
    /\ Miss
    /\ p_prev' = IF pc = "deletetarget" THEN current ELSE NULL
    /\ UNCHANGED <<struct, heap, pc, wanted, current, answer, order>>

ScanNext ==
    /\ Miss
    /\ current' = heap[current].next
    /\ p_prev' = IF pc = "deletetarget" THEN current ELSE NULL
    /\ UNCHANGED <<struct, heap, pc, wanted, answer, order>>

ScanEnd ==
    /\ pc \in Scans
    /\ current = NULL
    /\ Return(Status(IF pc = "deletetarget" THEN "absent" ELSE "none"))
    /\ UNCHANGED <<struct, heap, order>>

FindReturns ==
    /\ Hit
    /\ pc \in Searches
    /\ Return(Found(heap[current].account))
    /\ UNCHANGED <<struct, heap, order>>

TargetIsHead ==
    /\ Hit
    /\ pc = "deletetarget"
    /\ current = head
    /\ UnlinkHead
    /\ Return(Status("removed"))

(* Mutated form of IsTail: the case is left out.                           *)
TailNotSpecial == FALSE

IsTail == current = tail

(* deletetarget calls deletelast, whose loop starts at the head again;     *)
(* wanted still tells whose call it is.                                    *)
TargetIsTail ==
    /\ Hit
    /\ pc = "deletetarget"
    /\ current # head
    /\ IsTail
    /\ pc' = "deletelast"
    /\ current' = head
    /\ p_prev' = NULL
    /\ UNCHANGED <<struct, heap, wanted, answer, order>>

TargetIsInside ==
    /\ Hit
    /\ pc = "deletetarget"
    /\ current # head
    /\ ~IsTail
    /\ heap' = Without([heap EXCEPT ![p_prev].next = heap[current].next], current)
    /\ nodecount' = nodecount - 1
    /\ order' = RemoveAt(order, CHOOSE p \in DOMAIN order : order[p] = current)
    /\ Return(Status("removed"))
    /\ UNCHANGED <<head, tail>>

-----------------------------------------------------------------------------
DestroyList == Enter("destroylist", NULL)

DestroyNode ==
    /\ pc = "destroylist"
    /\ current # NULL
    /\ current' = heap[current].next
    /\ heap' = Without(heap, current)
    /\ order' = RemoveAt(order, 1)
    /\ UNCHANGED <<struct, pc, wanted, p_prev, answer>>

(* Mutated form of ResetStruct: only the pointers are reset.               *)
ResetPointers == head' = NULL /\ tail' = NULL /\ UNCHANGED nodecount

ResetStruct == head' = NULL /\ tail' = NULL /\ nodecount' = 0

DestroyEnds ==
    /\ pc = "destroylist"
    /\ current = NULL
    /\ ResetStruct
    /\ Return(answer)
    /\ UNCHANGED <<heap, order>>

-----------------------------------------------------------------------------
Call ==
    \/ \E x \in Node, a \in Account : InsertAtTail(x, a)
    \/ InsertFails
    \/ DeleteFirst
    \/ DeleteLast
    \/ DeleteFromEmpty
    \/ \E u \in Name : Find(u) \/ DeleteTarget(u)
    \/ \E a \in Account : FindWithPassword(a)
    \/ DestroyList

Step ==
    \/ ScanNext \/ ScanEnd \/ FindReturns
    \/ TargetIsHead \/ TargetIsTail \/ TargetIsInside
    \/ WalkToTail \/ UnlinkTail
    \/ DestroyNode \/ DestroyEnds

Next == Call \/ Step

Spec == Init /\ [][Next]_vars

(* A call that has begun runs on.                                          *)
FairSpec == Spec /\ WF_vars(Step)

-----------------------------------------------------------------------------
Allocated == DOMAIN heap

(* Types of the variables.                                                 *)
TypeOK ==
    /\ head \in Node \cup {NULL}
    /\ tail \in Node \cup {NULL}
    /\ nodecount \in 0..Cardinality(Node)
    /\ Allocated \subseteq Node
    /\ heap \in [Allocated -> [account : Account, next : Node \cup {NULL}]]
    /\ pc \in Scans \cup {"idle", "deletelast", "destroylist"}
    /\ wanted \in Account \cup [username : Name] \cup {NULL}
    /\ current \in Node \cup {NULL}
    /\ p_prev \in Node \cup {NULL}
    /\ answer \in [status : {"none", "absent", "removed"}]
                  \cup [status : {"found"}, account : Account]
    /\ order \in Seq(Node)

(* head, tail, nodecount and the next fields describe one list of all the  *)
(* allocated nodes: none is lost, freed while linked, or linked twice, and *)
(* the counter the functions branch on is its length.                      *)
WellLinked ==
    /\ Allocated = {order[i] : i \in DOMAIN order}
    /\ \A i, j \in DOMAIN order : order[i] = order[j] => i = j
    /\ \A i \in DOMAIN order :
          heap[order[i]].next = IF i = Len(order) THEN NULL ELSE order[i + 1]
    /\ pc # "destroylist" =>
          /\ nodecount = Len(order)
          /\ head = IF order = <<>> THEN NULL ELSE order[1]
          /\ tail = IF order = <<>> THEN NULL ELSE order[Len(order)]

(* A loop never holds a freed node: each scan stands on a node of the list *)
(* or past its end with p_prev right behind it, deletelast's stands before *)
(* the tail, destroylist's on the first node it has not freed.             *)
CursorSafe ==
    /\ pc \in Scans /\ current # NULL =>
          \E i \in DOMAIN order :
             /\ current = order[i]
             /\ pc = "deletetarget" =>
                  p_prev = IF i = 1 THEN NULL ELSE order[i - 1]
    /\ pc = "deletelast" =>
          \E i \in DOMAIN order :
             current = order[i] /\ (i < Len(order) \/ Len(order) = 1)
    /\ pc = "destroylist" =>
          current = IF order = <<>> THEN NULL ELSE order[1]

(* Every call returns: no loop runs past the node it looks for, or in a    *)
(* circle.                                                                 *)
CallsReturn == pc # "idle" ~> pc = "idle"

-----------------------------------------------------------------------------
(* The list implements AccountList.                                        *)
Accounts ==
    IF pc = "destroylist" THEN <<>>
    ELSE [i \in DOMAIN order |-> heap[order[i]].account]

(* The call under way; deletelast may run on behalf of deletetarget.       *)
Asked ==
    LET f == IF pc = "deletelast" /\ wanted # NULL THEN "deletetarget" ELSE pc
    IN  CASE f = "find_with_password" ->
               [call |-> f, username |-> wanted.username,
                password |-> wanted.password]
          [] f \in {"find", "deletetarget"} ->
               [call |-> f, username |-> wanted.username]
          [] OTHER -> [call |-> f]

List == INSTANCE AccountList WITH accounts <- Accounts, asked <- Asked

(* Calls add, remove and find what the sequence of accounts says: the      *)
(* first account of the name, or of the name and password, and no other.   *)
ImplementsAccountList == List!Spec
=============================================================================
