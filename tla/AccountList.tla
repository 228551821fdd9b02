---------------------------- MODULE AccountList ----------------------------
(***************************************************************************)
(* What the list of src/library/linked_list.c promises: a sequence of      *)
(* accounts that grows at its end, loses the first account of a name, its  *)
(* first or its last one, and is searched from the front.  No node, no     *)
(* pointer, no counter.  LinkedList is shown to implement it.              *)
(***************************************************************************)
EXTENDS Integers, Sequences

CONSTANTS Name, Password

VARIABLES accounts,  \* the accounts, oldest first
          asked,     \* the call that has not returned yet
          answer     \* what the last call to return gave back

listVars == <<accounts, asked, answer>>

Account == [username : Name, password : Password]

NoCall == [call |-> "idle"]
Found(a) == [status |-> "found", account |-> a]
Status(s) == [status |-> s]

RemoveAt(s, p) ==
    [i \in 1..Len(s) - 1 |-> IF i < p THEN s[i] ELSE s[i + 1]]

(* The accounts that a call is looking for.                                *)
Sought ==
    {a \in Account :
        /\ a.username = asked.username
        /\ asked.call = "find_with_password" => a.password = asked.password}

(* The place of the first account that is sought.                          *)
FirstAt(p) ==
    /\ p \in DOMAIN accounts
    /\ accounts[p] \in Sought
    /\ \A i \in 1..p - 1 : accounts[i] \notin Sought
NoneSought == \A i \in DOMAIN accounts : accounts[i] \notin Sought

Init ==
    /\ accounts = <<>>
    /\ asked = NoCall
    /\ answer = Status("none")

Calls ==
    [call : {"find", "deletetarget"}, username : Name]
        \cup [call : {"find_with_password"}, username : Name, password : Password]
        \cup [call : {"deletelast"}]

Ask(c) ==
    /\ asked = NoCall
    /\ asked' = c
    /\ UNCHANGED <<accounts, answer>>

Answer(s) == answer' = s /\ asked' = NoCall

Add(a) ==
    /\ asked = NoCall
    /\ accounts' = Append(accounts, a)
    /\ Answer(Found(a))

Refuse ==
    /\ asked = NoCall
    /\ Answer(Status("none"))
    /\ UNCHANGED accounts

RemoveFirst ==
    /\ asked = NoCall
    /\ IF accounts = <<>>
       THEN Answer(Status("absent")) /\ UNCHANGED accounts
       ELSE Answer(Status("removed")) /\ accounts' = RemoveAt(accounts, 1)

RemoveLast ==
    /\ asked.call = "deletelast"
    /\ accounts # <<>>
    /\ accounts' = RemoveAt(accounts, Len(accounts))
    /\ Answer(Status("removed"))

Remove ==
    /\ asked.call = "deletetarget"
    /\ \/ \E p \in DOMAIN accounts :
             /\ FirstAt(p)
             /\ accounts' = RemoveAt(accounts, p)
             /\ Answer(Status("removed"))
       \/ /\ NoneSought
          /\ Answer(Status("absent"))
          /\ UNCHANGED accounts

Search ==
    /\ asked.call \in {"find", "find_with_password"}
    /\ \/ \E p \in DOMAIN accounts : FirstAt(p) /\ Answer(Found(accounts[p]))
       \/ NoneSought /\ Answer(Status("none"))
    /\ UNCHANGED accounts

BeginClear ==
    /\ asked = NoCall
    /\ accounts' = <<>>
    /\ asked' = [call |-> "destroylist"]
    /\ UNCHANGED answer

EndClear ==
    /\ asked.call = "destroylist"
    /\ Answer(answer)
    /\ UNCHANGED accounts

Next ==
    \/ \E c \in Calls : Ask(c)
    \/ \E a \in Account : Add(a)
    \/ Refuse
    \/ RemoveFirst
    \/ RemoveLast
    \/ Remove
    \/ Search
    \/ BeginClear
    \/ EndClear

Spec == Init /\ [][Next]_listVars
=============================================================================
