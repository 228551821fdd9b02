--------------------------- MODULE RequestsProofs ---------------------------
(***************************************************************************)
(* Proofs about Requests, for any slots, connections, accounts, requests   *)
(* and pieces, and any number of sends.                                    *)
(***************************************************************************)
EXTENDS Requests, TLAPS, FiniteSetTheorems, SequenceTheorems

Jobs == Pool!Queued \cup running \cup discarded

(* The types of what the properties speak of.                              *)
Shape ==
    /\ idx \in 1..CONN_MAX
    /\ socket_fd \in [Slots -> Conn \cup {None}]
    /\ client_account \in [Slots -> Account \cup {None}]
    /\ logged_in \in [Account -> BOOLEAN]
    /\ tcp \in [Conn -> {"away", "waiting", "open", "hungup", "closed"}]
    /\ heard \in [Conn -> Nat]
    /\ queue \in Seq(Job)
    /\ running \subseteq Job
    /\ discarded \subseteq Job
    /\ answers \subseteq [asker : Conn, n : Nat, to : Conn \cup {None}]

(* The order of the ends: the pool, the lists, the table of clients; and   *)
(* with a list missing no buffer is ever looked at.                        *)
Ends ==
    /\ phase = "closed" => running = {}
    /\ pc \in {"cleanup", "done"} => phase = "closed"
    /\ lists \in {"loaded", "missing", "deleted"}
    /\ lists = "deleted" => pc \in {"cleanup", "done"}
    /\ lists = "missing" =>
         handler_value /\ queue = <<>> /\ running = {} /\ \A c \in Conn : heard[c] = 0

(* A slot that poll reported and the loop has not reached yet is taken.    *)
Snapshot ==
    pc \in {"accept", "scan"} =>
        \A i \in Slots : i \in ready /\ i >= idx => i \in Occupied

(* The slot of a job is its asker's until the asker has been closed.       *)
Owned ==
    \A x \in Pool!Queued \cup running :
        socket_fd[x.client] = x.asker \/ tcp[x.asker] = "closed"

(* AccountsReleased without its count.                                     *)
Held ==
    /\ \A i, j \in Slots :
          client_account[i] # None /\ client_account[i] = client_account[j] => i = j
    /\ \A a \in Account : logged_in[a] <=> \E i \in Slots : client_account[i] = a
    /\ \A i \in Slots \ Occupied :
          client_account[i] # None => \E x \in answers : x.to = None

(* No job stands in two places of the pool.                                *)
Apart ==
    /\ \A j, k \in DOMAIN queue : queue[j] = queue[k] => j = k
    /\ Pool!Queued \cap running = {}
    /\ Pool!Queued \cap discarded = {}
    /\ running \cap discarded = {}

(* Accounted without its count: fates are of buffers that were received,   *)
(* no buffer has two, and each has one.                                    *)
FatesOfHeard ==
    /\ \A a \in answers : a.n \in 1..heard[a.asker]
    /\ \A x \in Jobs : x.n \in 1..heard[x.asker]
    /\ \A c \in Conn : \A n \in Nat : <<c, n>> \in ignored => n \in 1..heard[c]

NotTwice ==
    /\ \A a, b \in answers : a.asker = b.asker /\ a.n = b.n => a = b
    /\ \A x, y \in Jobs : x.asker = y.asker /\ x.n = y.n => x = y
    /\ \A a \in answers : \A x \in Jobs : ~(a.asker = x.asker /\ a.n = x.n)
    /\ \A a \in answers : <<a.asker, a.n>> \notin ignored
    /\ \A x \in Jobs : <<x.asker, x.n>> \notin ignored

NotLost ==
    \A c \in Conn : \A n \in 1..heard[c] :
        \/ \E a \in answers : a.asker = c /\ a.n = n
        \/ \E x \in Jobs : x.asker = c /\ x.n = n
        \/ <<c, n>> \in ignored

Fated == Apart /\ FatesOfHeard /\ NotTwice /\ NotLost

(* The inductive invariant.                                                *)
IInv == Shape /\ Ends /\ Snapshot /\ Owned /\ Held /\ Fated /\ AnswersReachAsker

-----------------------------------------------------------------------------
(* Sequences: what is in one, and what Append, Head and Tail do to that.   *)
Entries(q) == {q[k] : k \in DOMAIN q}

EntriesOnce(q) == \A j, k \in DOMAIN q : q[j] = q[k] => j = k

(* A job at the end of the queue.                                          *)
LEMMA Appended ==
    ASSUME NEW S, NEW q \in Seq(S), NEW x \in S
    PROVE  /\ Append(q, x) \in Seq(S)
           /\ Entries(Append(q, x)) = Entries(q) \cup {x}
           /\ EntriesOnce(q) /\ x \notin Entries(q) => EntriesOnce(Append(q, x))
<1>1. /\ Append(q, x) \in Seq(S)
      /\ DOMAIN Append(q, x) = 1..Len(q) + 1
      /\ DOMAIN q = 1..Len(q) /\ Len(q) \in Nat
      /\ \A k \in 1..Len(q) : Append(q, x)[k] = q[k]
      /\ Append(q, x)[Len(q) + 1] = x
    OBVIOUS
<1>2. DOMAIN Append(q, x) = DOMAIN q \cup {Len(q) + 1}
    BY <1>1
<1>3. Entries(Append(q, x)) = Entries(q) \cup {x}
    BY <1>1, <1>2 DEF Entries
<1>4. EntriesOnce(q) /\ x \notin Entries(q) => EntriesOnce(Append(q, x))
    BY <1>1, <1>2 DEF Entries, EntriesOnce
<1>5. QED
    BY <1>1, <1>3, <1>4

(* A job taken from its head.                                              *)
LEMMA HeadTaken ==
    ASSUME NEW S, NEW q \in Seq(S), q # <<>>
    PROVE  /\ Head(q) \in S
           /\ Tail(q) \in Seq(S)
           /\ Entries(q) = {Head(q)} \cup Entries(Tail(q))
           /\ EntriesOnce(q) => EntriesOnce(Tail(q)) /\ Head(q) \notin Entries(Tail(q))
<1>1. /\ Len(q) \in Nat /\ Len(q) > 0
      /\ DOMAIN q = 1..Len(q)
      /\ Head(q) = q[1] /\ Head(q) \in S
      /\ Tail(q) \in Seq(S)
      /\ DOMAIN Tail(q) = 1..Len(q) - 1
      /\ \A k \in 1..Len(q) - 1 : Tail(q)[k] = q[k + 1]
    OBVIOUS
<1>2. \A k \in DOMAIN q : k = 1 \/ (k - 1 \in DOMAIN Tail(q) /\ Tail(q)[k - 1] = q[k])
    BY <1>1
<1>3. \A k \in DOMAIN Tail(q) : k + 1 \in DOMAIN q /\ k + 1 # 1 /\ Tail(q)[k] = q[k + 1]
    BY <1>1
<1>4. 1 \in DOMAIN q
    BY <1>1
<1>5. Entries(q) = {Head(q)} \cup Entries(Tail(q))
  <2>1. ASSUME NEW k \in DOMAIN q PROVE q[k] \in {Head(q)} \cup Entries(Tail(q))
      BY <1>1, <1>2 DEF Entries
  <2>2. ASSUME NEW k \in DOMAIN Tail(q) PROVE Tail(q)[k] \in Entries(q)
      BY <1>3 DEF Entries
  <2>3. Head(q) \in Entries(q)
      BY <1>1, <1>4 DEF Entries
  <2>4. QED
      BY <2>1, <2>2, <2>3 DEF Entries
<1>6. ASSUME EntriesOnce(q) PROVE EntriesOnce(Tail(q)) /\ Head(q) \notin Entries(Tail(q))
  <2>1. \A j, k \in DOMAIN Tail(q) : j + 1 = k + 1 => j = k
      BY <1>1
  <2>2. EntriesOnce(Tail(q))
      BY <1>3, <1>6, <2>1 DEF EntriesOnce
  <2>3. Head(q) \notin Entries(Tail(q))
      BY <1>1, <1>3, <1>4, <1>6 DEF EntriesOnce, Entries
  <2>4. QED
      BY <2>2, <2>3
<1>7. QED
    BY <1>1, <1>5, <1>6

(* The queue in these words.                                               *)
LEMMA QueueEntries ==
    /\ Pool!Queued = Entries(queue)
    /\ Pool!Queued' = Entries(queue')
    /\ Apart <=> /\ EntriesOnce(queue)
                 /\ Entries(queue) \cap running = {}
                 /\ Entries(queue) \cap discarded = {}
                 /\ running \cap discarded = {}
    /\ Apart' <=> /\ EntriesOnce(queue')
                  /\ Entries(queue') \cap running' = {}
                  /\ Entries(queue') \cap discarded' = {}
                  /\ running' \cap discarded' = {}
    BY DEF Pool!Queued, Entries, EntriesOnce, Apart

(* Nothing is received, waits or runs at the start.                        *)
LEMMA InitIInv == Init => IInv
<1> SUFFICES ASSUME Init PROVE IInv
    OBVIOUS
<1>1. queue = <<>> /\ running = {} /\ phase = "open" /\ discarded = {} /\ answers = {}
      /\ ignored = {} /\ pc = "poll" /\ Pool!Queued = {} /\ Jobs = {} /\ DOMAIN queue = {}
    BY DEF Init, Pool!Init, Pool!Queued, Jobs
<1>2. Shape
    BY <1>1, ServerAssumption DEF Init, Shape
<1>3. Ends /\ Snapshot /\ Owned /\ AnswersReachAsker
    BY <1>1 DEF Init, Ends, Snapshot, Owned, AnswersReachAsker
<1>4. Held
    BY <1>1, ServerAssumption DEF Init, Held
<1>5. Fated
    BY <1>1 DEF Init, Fated, Apart, FatesOfHeard, NotTwice, NotLost
<1>6. QED
    BY <1>2, <1>3, <1>4, <1>5 DEF IInv

-----------------------------------------------------------------------------
(* What ServeData(i) makes of the n-th buffer of connection c: a job, an   *)
(* answer, or nothing.                                                     *)
BecomesJob(i, c, n) ==
    /\ \E x \in Job : /\ x.client = i /\ x.asker = c /\ x.n = n
                      /\ Pool!Submit(x)
    /\ UNCHANGED <<answers, ignored>>

BecomesAnswer(c, n) ==
    /\ answers' = answers \cup {[asker |-> c, n |-> n, to |-> c]}
    /\ UNCHANGED <<poolVars, ignored>>

BecomesSilence(c, n) ==
    /\ ignored' = ignored \cup {<<c, n>>}
    /\ UNCHANGED <<poolVars, answers>>

(* Process has one of the three as its outcome.                            *)
LEMMA Outcomes ==
    ASSUME NEW i \in Slots, socket_fd[i] \in Conn, NEW n \in Nat, NEW buf,
           Process(i, n, buf)
    PROVE  \/ BecomesJob(i, socket_fd[i], n)
           \/ BecomesAnswer(socket_fd[i], n)
           \/ BecomesSilence(socket_fd[i], n)
<1> DEFINE x == Command(i, n, buf)
<1>1. x.client = i /\ x.asker = socket_fd[i] /\ x.n = n /\ x.opcode = opcode(buf)
    BY DEF Command
<1>2. opcode(buf) \in Nat => x \in Job
    BY DEF Command, Job
<1>3. \A op \in LoginOpcodes \cup UserDelOpcodes \cup LinkAddOpcodes : op \in Nat
    BY DEF LoginOpcodes, UserDelOpcodes, LinkAddOpcodes
<1>4. ASSUME sort_login_command(x) PROVE BecomesJob(i, socket_fd[i], n)
    BY <1>1, <1>2, <1>3, <1>4 DEF sort_login_command, BecomesJob
<1>5. ASSUME sort_user_del_command(x) PROVE BecomesJob(i, socket_fd[i], n)
    BY <1>1, <1>2, <1>3, <1>5 DEF sort_user_del_command, BecomesJob
<1>6. ASSUME sort_link_add_command(x) PROVE BecomesJob(i, socket_fd[i], n)
    BY <1>1, <1>2, <1>3, <1>6 DEF sort_link_add_command, BecomesJob
<1>7. ASSUME send_error(i, n) PROVE BecomesAnswer(socket_fd[i], n)
    BY <1>7 DEF send_error, Answer, BecomesAnswer
<1>8. ASSUME validate_type1_command(i, n, buf)
      PROVE  sort_login_command(x) \/ send_error(i, n)
    BY <1>8 DEF validate_type1_command
<1>9. ASSUME validate_type2_command(i, n, buf)
      PROVE  sort_user_del_command(x) \/ send_error(i, n)
    BY <1>9 DEF validate_type2_command
<1>10. ASSUME validate_type3_command(i, n, buf)
       PROVE  sort_link_add_command(x) \/ send_error(i, n)
    BY <1>10 DEF validate_type3_command
<1>11. ASSUME ignored' = ignored \cup {<<socket_fd[i], n>>}, UNCHANGED <<poolVars, answers>>
       PROVE  BecomesSilence(socket_fd[i], n)
    BY <1>11 DEF BecomesSilence
<1>12. QED
    BY <1>4, <1>5, <1>6, <1>7, <1>8, <1>9, <1>10, <1>11 DEF Process

(* A slot that the loop serves has a connection.                           *)
LEMMA Served ==
    ASSUME IInv, NEW i \in Slots, AtSlot(i), i \in ready
    PROVE  socket_fd[i] \in Conn
<1>1. pc = "scan" /\ i >= idx
    BY DEF AtSlot, IInv, Shape
<1>2. i \in Occupied
    BY <1>1 DEF IInv, Snapshot
<1>3. QED
    BY <1>2 DEF Occupied, IInv, Shape

(* A step that serves data has an outcome for the next buffer.             *)
LEMMA Received ==
    ASSUME IInv, NEW i \in Slots, ServeData(i)
    PROVE  LET c == socket_fd[i] IN
           /\ c \in Conn
           /\ heard[c] + 1 \in Nat
           /\ heard' = [heard EXCEPT ![c] = heard[c] + 1]
           /\ \/ BecomesJob(i, c, heard[c] + 1)
              \/ BecomesAnswer(c, heard[c] + 1)
              \/ BecomesSilence(c, heard[c] + 1)
<1> DEFINE c == socket_fd[i]
<1>1. c \in Conn
    BY Served DEF ServeData
<1>2. heard[c] + 1 \in Nat
    BY <1>1 DEF IInv, Shape
<1>3. heard' = [heard EXCEPT ![c] = heard[c] + 1]
    BY DEF ServeData
<1>4. PICK m \in 1..Len(inbox[c]) : Process(i, heard[c] + 1, Joined(SubSeq(inbox[c], 1, m)))
    BY DEF ServeData
<1>5. QED
    BY <1>1, <1>2, <1>3, <1>4, Outcomes

-----------------------------------------------------------------------------
(* What reset_socket does to a slot, and to no other.                      *)
LEMMA Reset ==
    ASSUME Shape, NEW i \in Slots, reset_socket(i)
    PROVE  /\ socket_fd' \in [Slots -> Conn \cup {None}]
           /\ client_account' \in [Slots -> Account \cup {None}]
           /\ logged_in' \in [Account -> BOOLEAN]
           /\ tcp' \in [Conn -> {"away", "waiting", "open", "hungup", "closed"}]
           /\ \A c \in Conn : tcp[c] = "closed" => tcp'[c] = "closed"
           /\ socket_fd[i] # None => tcp'[socket_fd[i]] = "closed"
           /\ socket_fd'[i] = None /\ client_account'[i] = None
           /\ \A j \in Slots \ {i} : /\ socket_fd'[j] = socket_fd[j]
                                     /\ client_account'[j] = client_account[j]
           /\ \A a \in Account :
                logged_in'[a] <=> logged_in[a] /\ client_account[i] # a
<1> USE DEF reset_socket
<1>1. /\ socket_fd' \in [Slots -> Conn \cup {None}]
      /\ client_account' \in [Slots -> Account \cup {None}]
      /\ socket_fd'[i] = None /\ client_account'[i] = None
      /\ \A j \in Slots \ {i} : /\ socket_fd'[j] = socket_fd[j]
                                /\ client_account'[j] = client_account[j]
    BY DEF Shape
<1>2. /\ tcp' \in [Conn -> {"away", "waiting", "open", "hungup", "closed"}]
      /\ \A c \in Conn : tcp[c] = "closed" => tcp'[c] = "closed"
    BY DEF Shape
<1>3. socket_fd[i] # None => tcp'[socket_fd[i]] = "closed"
    BY DEF Shape
<1>4. /\ logged_in' \in [Account -> BOOLEAN]
      /\ \A a \in Account : logged_in'[a] <=> logged_in[a] /\ client_account[i] # a
  <2>1. \A a \in Account : logged_in[a] \in BOOLEAN
      BY DEF Shape
  <2>2. QED
      BY <2>1, Zenon
<1>5. QED
    BY <1>1, <1>2, <1>3, <1>4

(* A step of check_for_timeouts resets a slot or leaves them all alone.    *)
LEMMA TimeoutResets ==
    ASSUME check_for_timeouts
    PROVE  (\E i \in Slots : reset_socket(i)) \/ UNCHANGED <<slotVars, tcp>>
    BY DEF check_for_timeouts, TimeoutsBegin, CheckSlot, TimeoutsEnd, netVars

(* What a new connection does to the slots: one free slot is taken, or     *)
(* none is free.                                                           *)
LEMMA Accepted ==
    ASSUME Shape, NEW c \in Conn, Accept(c)
    PROVE  /\ socket_fd' \in [Slots -> Conn \cup {None}]
           /\ \A i \in Slots : socket_fd[i] # None => socket_fd'[i] = socket_fd[i]
           /\ ready' \subseteq ready
           /\ tcp' \in [Conn -> {"away", "waiting", "open", "hungup", "closed"}]
           /\ \A d \in Conn : tcp[d] = "closed" => tcp'[d] = "closed"
<1>1. /\ tcp' \in [Conn -> {"away", "waiting", "open", "hungup", "closed"}]
      /\ \A d \in Conn : tcp[d] = "closed" => tcp'[d] = "closed"
    BY DEF Accept, Shape
<1>2. /\ socket_fd' \in [Slots -> Conn \cup {None}]
      /\ \A i \in Slots : socket_fd[i] # None => socket_fd'[i] = socket_fd[i]
      /\ ready' \subseteq ready
    BY DEF Accept, handle_new_connection, FirstFree, Occupied, Shape
<1>3. QED
    BY <1>1, <1>2

(* Types stay.                                                             *)
LEMMA ShapeStep == IInv /\ [Next]_vars => Shape'
<1> SUFFICES ASSUME IInv, [Next]_vars PROVE Shape'
    OBVIOUS
<1> USE DEF IInv, Shape
<1>1. ASSUME NEW c \in Conn, Accept(c) PROVE Shape'
    BY <1>1, Accepted DEF Accept, loopVars, slotVars, poolVars, netVars, fate
<1>2. ASSUME Poll PROVE Shape'
    BY <1>2, ServerAssumption DEF Poll, loopVars, slotVars, poolVars, netVars, fate
<1>3. ASSUME NEW i \in Slots, SkipSlot(i) \/ ServeData(i) \/ ServeGone(i) PROVE idx' \in 1..CONN_MAX
  <2>1. AtSlot(i) /\ idx' = idx + 1
      BY <1>3 DEF SkipSlot, ServeData, ServeGone, NextSlot
  <2>2. i = idx /\ idx # CONN_MAX
      BY <2>1 DEF AtSlot, ScanOver
  <2>3. QED
      BY <2>1, <2>2, ServerAssumption
<1>4. ASSUME NEW i \in Slots, SkipSlot(i) PROVE Shape'
    BY <1>3, <1>4 DEF SkipSlot, loopVars, slotVars, poolVars, netVars, fate
<1>5. ASSUME NEW i \in Slots, ServeGone(i) PROVE Shape'
    BY <1>3, <1>5, Reset DEF ServeGone, poolVars, fate
<1>6. ASSUME NEW i \in Slots, ServeData(i) PROVE Shape'
  <2> DEFINE c == socket_fd[i]
             n == heard[c] + 1
  <2>1. c \in Conn /\ n \in Nat /\ heard' = [heard EXCEPT ![c] = n]
      BY <1>6, Received
  <2>2. heard' \in [Conn -> Nat]
      BY <2>1
  <2>3. BecomesJob(i, c, n) \/ BecomesAnswer(c, n) \/ BecomesSilence(c, n)
      BY <1>6, Received
  <2>4. /\ queue' \in Seq(Job) /\ running' \subseteq Job
        /\ answers' \subseteq [asker : Conn, n : Nat, to : Conn \cup {None}]
    <3>1. CASE BecomesJob(i, c, n)
        BY <3>1, Appended DEF BecomesJob, Pool!Submit
    <3>2. CASE BecomesAnswer(c, n)
        BY <2>1, <3>2 DEF BecomesAnswer, poolVars
    <3>3. CASE BecomesSilence(c, n)
        BY <3>3 DEF BecomesSilence, poolVars
    <3>4. QED
        BY <2>3, <3>1, <3>2, <3>3
  <2>5. UNCHANGED <<slotVars, tcp, discarded>>
      BY <1>6 DEF ServeData
  <2>6. QED
      BY <1>3, <1>6, <2>2, <2>4, <2>5 DEF slotVars
<1>7. ASSUME check_for_timeouts PROVE Shape'
  <2>1. idx' \in 1..CONN_MAX
    <3>1. CASE TimeoutsBegin
        BY <3>1, ServerAssumption DEF TimeoutsBegin
    <3>2. ASSUME NEW i \in Slots, CheckSlot(i) PROVE idx' \in 1..CONN_MAX
        BY <3>2, ServerAssumption DEF CheckSlot, NextSlot, Slots
    <3>3. CASE TimeoutsEnd
        BY <3>3 DEF TimeoutsEnd
    <3>4. QED
        BY <1>7, <3>1, <3>2, <3>3 DEF check_for_timeouts
  <2>2. UNCHANGED <<poolVars, fate>>
      BY <1>7 DEF check_for_timeouts, TimeoutsBegin, CheckSlot, TimeoutsEnd
  <2>3. ASSUME NEW i \in Slots, reset_socket(i) PROVE Shape'
      BY <2>1, <2>2, <2>3, Reset DEF poolVars, fate
  <2>4. CASE UNCHANGED <<slotVars, tcp>>
      BY <2>1, <2>2, <2>4 DEF slotVars, poolVars, fate
  <2>5. QED
      BY <1>7, <2>3, <2>4, TimeoutResets
<1>8. ASSUME DestroyDiscards PROVE Shape'
    BY <1>8, HeadTaken DEF DestroyDiscards, Pool!Discard, loopVars, slotVars, netVars
<1>9. ASSUME DestroyBegins \/ DestroyEnds PROVE Shape'
    BY <1>9 DEF DestroyBegins, DestroyEnds, Pool!BeginClose, Pool!EndClose,
                loopVars, slotVars, netVars, fate
<1>10. ASSUME StartJob PROVE Shape'
    BY <1>10, HeadTaken DEF StartJob, Pool!Start, loopVars, slotVars, netVars, fate
<1>11. ASSUME NEW x \in running, FinishJob(x) PROVE Shape'
  <2>1. x \in Job
      OBVIOUS
  <2>2. answers' \subseteq [asker : Conn, n : Nat, to : Conn \cup {None}]
      BY <1>11, <2>1 DEF FinishJob, Answer, Job
  <2>3. /\ client_account' \in [Slots -> Account \cup {None}]
        /\ logged_in' \in [Account -> BOOLEAN]
      BY <1>11 DEF FinishJob, LogIn
  <2>4. QED
      BY <1>11, <2>2, <2>3 DEF FinishJob, Pool!Complete, netVars
<1>12. ASSUME cleanup_sockets PROVE Shape'
    BY <1>12 DEF cleanup_sockets, loopVars, slotVars, poolVars, fate
<1>13. ASSUME NEW c \in Conn, ClientStep(c) PROVE Shape'
    BY <1>13 DEF ClientStep, Connect, Send, HangUp, loopVars, slotVars, poolVars, fate
<1>14. ASSUME PollFails \/ ScanExit \/ DeleteMaps \/ Signal \/ UNCHANGED vars PROVE Shape'
    BY <1>14 DEF PollFails, ScanExit, DeleteMaps, Signal, vars,
                 loopVars, slotVars, poolVars, netVars, fate
<1>15. QED
    BY <1>1, <1>2, <1>4, <1>5, <1>6, <1>7, <1>8, <1>9, <1>10, <1>11, <1>12, <1>13, <1>14
    DEF Next, ServerStep, WorkerStep, Terminated

(* The ends come in their order.                                           *)
LEMMA EndsStep == IInv /\ [Next]_vars => Ends'
<1> SUFFICES ASSUME IInv, [Next]_vars PROVE Ends'
    OBVIOUS
<1> USE DEF IInv, Ends
<1>1. ASSUME NEW i \in Slots, ServeData(i) PROVE Ends'
  <2>1. lists # "missing" /\ pc = "scan" /\ UNCHANGED <<pc, lists>>
      BY <1>1 DEF ServeData, AtSlot, NextSlot
  <2>2. BecomesJob(i, socket_fd[i], heard[socket_fd[i]] + 1) \/ UNCHANGED poolVars
      BY <1>1, Received DEF BecomesAnswer, BecomesSilence
  <2>3. UNCHANGED <<running, phase>>
      BY <2>2 DEF BecomesJob, Pool!Submit, poolVars
  <2>4. QED
      BY <2>1, <2>3
<1>2. ASSUME DestroyBegins PROVE Ends'
    BY <1>2 DEF DestroyBegins, Pool!BeginClose, loopVars, fate
<1>3. ASSUME DestroyDiscards PROVE Ends'
    BY <1>3 DEF DestroyDiscards, Pool!Discard, loopVars
<1>4. ASSUME DestroyEnds PROVE Ends'
    BY <1>4 DEF DestroyEnds, Pool!EndClose, loopVars, fate
<1>5. ASSUME DeleteMaps PROVE Ends'
    BY <1>5 DEF DeleteMaps, Destroyed, poolVars, fate
<1>6. ASSUME StartJob PROVE Ends'
    BY <1>6 DEF StartJob, Pool!Start, loopVars, fate
<1>7. ASSUME NEW x \in running, FinishJob(x) PROVE Ends'
    BY <1>7 DEF FinishJob, Pool!Complete, loopVars
<1>8. ASSUME \/ Poll \/ PollFails \/ ScanExit \/ check_for_timeouts \/ Signal
             \/ (\E c \in Conn : Accept(c) \/ ClientStep(c))
             \/ (\E i \in Slots : SkipSlot(i) \/ ServeGone(i))
             \/ UNCHANGED vars
      PROVE  /\ UNCHANGED <<lists, queue, running, phase, heard>>
             /\ handler_value' = handler_value \/ handler_value' = TRUE
             /\ pc' = pc \/ pc' \in {"poll", "accept", "scan", "timeouts", "destroy"}
    BY <1>8 DEF Poll, PollFails, ScanExit, check_for_timeouts, TimeoutsBegin, CheckSlot,
                TimeoutsEnd, Signal, Accept, ClientStep, Connect, Send, HangUp, SkipSlot,
                ServeGone, NextSlot, vars, loopVars, poolVars, fate
<1>9. ASSUME \/ Poll \/ PollFails \/ ScanExit \/ check_for_timeouts \/ Signal
             \/ (\E c \in Conn : Accept(c) \/ ClientStep(c))
             \/ (\E i \in Slots : SkipSlot(i) \/ ServeGone(i))
             \/ UNCHANGED vars
      PROVE  pc \in {"cleanup", "done"} => pc' = pc
    BY <1>9 DEF Poll, PollFails, ScanExit, check_for_timeouts, TimeoutsBegin, CheckSlot,
                TimeoutsEnd, Signal, Accept, ClientStep, Serving, SkipSlot, ServeGone, AtSlot,
                vars
<1>10. ASSUME cleanup_sockets PROVE Ends'
    BY <1>10 DEF cleanup_sockets, loopVars, poolVars, fate
<1>11. QED
    BY <1>1, <1>2, <1>3, <1>4, <1>5, <1>6, <1>7, <1>8, <1>9, <1>10
    DEF Next, ServerStep, WorkerStep, Terminated

(* What poll reported stays so until the loop comes to it.                 *)
LEMMA SnapshotStep == IInv /\ [Next]_vars => Snapshot'
<1> SUFFICES ASSUME IInv, [Next]_vars PROVE Snapshot'
    OBVIOUS
<1> USE DEF IInv, Snapshot
<1>1. ASSUME NEW c \in Conn, Accept(c) PROVE Snapshot'
  <2>1. \A i \in Slots : socket_fd[i] # None => socket_fd'[i] = socket_fd[i]
      BY <1>1, Accepted
  <2>2. ready' \subseteq ready /\ pc = "accept" /\ idx' = idx
      BY <1>1, Accepted DEF Accept
  <2>3. QED
      BY <2>1, <2>2 DEF Occupied
<1>2. ASSUME Poll PROVE Snapshot'
  <2>1. UNCHANGED socket_fd
      BY <1>2 DEF Poll, slotVars
  <2>2. \A i \in Slots : i \in ready' => i \in Occupied
      BY <1>2, ServerAssumption DEF Poll, Slots
  <2>3. QED
      BY <2>1, <2>2 DEF Occupied
<1>3. ASSUME NEW i \in Slots, SkipSlot(i) \/ ServeData(i) PROVE Snapshot'
  <2>1. /\ pc = "scan" /\ idx' = idx + 1 /\ UNCHANGED <<ready, socket_fd>>
      BY <1>3 DEF SkipSlot, ServeData, AtSlot, NextSlot, loopVars, slotVars
  <2>2. \A j \in Slots : j >= idx + 1 => j >= idx
      BY ServerAssumption DEF Shape, Slots
  <2>3. QED
      BY <2>1, <2>2 DEF Occupied
<1>4. ASSUME NEW i \in Slots, ServeGone(i) PROVE Snapshot'
  <2>1. /\ pc = "scan" /\ idx = i /\ idx' = idx + 1 /\ UNCHANGED ready
      BY <1>4 DEF ServeGone, AtSlot, NextSlot
  <2>2. \A j \in Slots : j # i => socket_fd'[j] = socket_fd[j]
      BY <1>4, Reset DEF ServeGone
  <2>3. \A j \in Slots : j >= idx + 1 => j >= idx /\ j # idx
      BY ServerAssumption DEF Shape, Slots
  <2>4. QED
      BY <2>1, <2>2, <2>3 DEF Occupied
<1>5. ASSUME check_for_timeouts \/ PollFails \/ ScanExit \/ DeleteMaps \/ cleanup_sockets
      PROVE  Snapshot'
    BY <1>5 DEF check_for_timeouts, TimeoutsBegin, CheckSlot, TimeoutsEnd, NextSlot, PollFails,
                ScanExit, DeleteMaps, cleanup_sockets
<1>6. ASSUME \/ DestroyBegins \/ DestroyDiscards \/ DestroyEnds \/ Signal \/ StartJob
             \/ (\E x \in running : FinishJob(x))
             \/ (\E c \in Conn : ClientStep(c))
             \/ UNCHANGED vars
      PROVE  Snapshot'
  <2>1. UNCHANGED <<pc, idx, ready, socket_fd>>
      BY <1>6 DEF DestroyBegins, DestroyDiscards, DestroyEnds, Signal, StartJob, FinishJob,
                  ClientStep, Connect, Send, HangUp, vars, loopVars, slotVars
  <2>2. QED
      BY <2>1 DEF Occupied
<1>7. QED
    BY <1>1, <1>2, <1>3, <1>4, <1>5, <1>6 DEF Next, ServerStep, WorkerStep, Terminated

-----------------------------------------------------------------------------
(* Once closed, a connection stays closed.                                 *)
LEMMA ClosedForGood ==
    ASSUME IInv, [Next]_vars, NEW c \in Conn, tcp[c] = "closed"
    PROVE  tcp'[c] = "closed"
<1> USE DEF IInv, Shape
<1>1. ASSUME NEW d \in Conn, Accept(d) PROVE tcp'[c] = "closed"
    BY <1>1, Accepted
<1>2. ASSUME NEW i \in Slots, ServeGone(i) PROVE tcp'[c] = "closed"
    BY <1>2, Reset DEF ServeGone
<1>3. ASSUME check_for_timeouts PROVE tcp'[c] = "closed"
    BY <1>3, Reset, TimeoutResets
<1>4. ASSUME cleanup_sockets PROVE tcp'[c] = "closed"
    BY <1>4 DEF cleanup_sockets
<1>5. ASSUME NEW d \in Conn, ClientStep(d) PROVE tcp'[c] = "closed"
    BY <1>5 DEF ClientStep, Connect, Send, HangUp
<1>6. ASSUME \/ Poll \/ PollFails \/ ScanExit \/ DestroyBegins \/ DestroyDiscards
             \/ DestroyEnds \/ DeleteMaps \/ StartJob \/ Signal
             \/ (\E i \in Slots : SkipSlot(i) \/ ServeData(i))
             \/ (\E x \in running : FinishJob(x))
             \/ UNCHANGED vars
      PROVE  UNCHANGED tcp
    BY <1>6 DEF Poll, PollFails, ScanExit, DestroyBegins, DestroyDiscards, DestroyEnds,
                DeleteMaps, StartJob, Signal, SkipSlot, ServeData, FinishJob, vars, netVars
<1>7. QED
    BY <1>1, <1>2, <1>3, <1>4, <1>5, <1>6 DEF Next, ServerStep, WorkerStep, Terminated

(* A slot loses its connection only by closing it.                         *)
LEMMA LeftClosed ==
    ASSUME IInv, [Next]_vars, NEW i \in Slots, socket_fd[i] # None,
           socket_fd'[i] # socket_fd[i]
    PROVE  tcp'[socket_fd[i]] = "closed"
<1> USE DEF IInv
<1>1. ASSUME NEW d \in Conn, Accept(d) PROVE FALSE
    BY <1>1, Accepted
<1>2. ASSUME NEW j \in Slots, ServeGone(j) PROVE tcp'[socket_fd[i]] = "closed"
    BY <1>2, Reset DEF ServeGone
<1>3. ASSUME check_for_timeouts PROVE tcp'[socket_fd[i]] = "closed"
    BY <1>3, Reset, TimeoutResets DEF slotVars
<1>4. ASSUME \/ Poll \/ PollFails \/ ScanExit \/ DestroyBegins \/ DestroyDiscards
             \/ DestroyEnds \/ DeleteMaps \/ cleanup_sockets \/ StartJob \/ Signal
             \/ (\E j \in Slots : SkipSlot(j) \/ ServeData(j))
             \/ (\E x \in running : FinishJob(x))
             \/ (\E c \in Conn : ClientStep(c))
             \/ UNCHANGED vars
      PROVE  UNCHANGED socket_fd
    BY <1>4 DEF Poll, PollFails, ScanExit, DestroyBegins, DestroyDiscards, DestroyEnds,
                DeleteMaps, cleanup_sockets, StartJob, Signal, SkipSlot, ServeData, FinishJob,
                ClientStep, Connect, Send, HangUp, vars, slotVars
<1>5. QED
    BY <1>1, <1>2, <1>3, <1>4 DEF Next, ServerStep, WorkerStep, Terminated

(* A job that is new to the pool is its slot's.                            *)
LEMMA NewJob ==
    ASSUME IInv, [Next]_vars, NEW x \in Pool!Queued' \cup running',
           x \notin Pool!Queued \cup running
    PROVE  x \in Job /\ socket_fd'[x.client] = x.asker
<1> USE DEF IInv
<1>1. ASSUME NEW i \in Slots, ServeData(i) PROVE x \in Job /\ socket_fd'[x.client] = x.asker
  <2> DEFINE c == socket_fd[i]
             n == heard[c] + 1
  <2>1. BecomesJob(i, c, n) \/ UNCHANGED poolVars
      BY <1>1, Received DEF BecomesAnswer, BecomesSilence
  <2>2. UNCHANGED socket_fd
      BY <1>1 DEF ServeData, slotVars
  <2>3. CASE BecomesJob(i, c, n)
    <3>1. PICK y \in Job : y.client = i /\ y.asker = c /\ Pool!Submit(y)
        BY <2>3 DEF BecomesJob
    <3>2. x = y
        BY <3>1, Appended, QueueEntries DEF Pool!Submit, Shape
    <3>3. QED
        BY <2>2, <3>1, <3>2
  <2>4. CASE UNCHANGED poolVars
      BY <2>4, QueueEntries DEF poolVars
  <2>5. QED
      BY <2>1, <2>3, <2>4
<1>2. ASSUME DestroyDiscards PROVE FALSE
    BY <1>2, HeadTaken, QueueEntries DEF DestroyDiscards, Pool!Discard, Shape
<1>3. ASSUME StartJob PROVE FALSE
    BY <1>3, HeadTaken, QueueEntries DEF StartJob, Pool!Start, Shape
<1>4. ASSUME NEW y \in running, FinishJob(y) PROVE FALSE
    BY <1>4, QueueEntries DEF FinishJob, Pool!Complete
<1>5. ASSUME \/ Poll \/ PollFails \/ ScanExit \/ check_for_timeouts \/ DestroyBegins
             \/ DestroyEnds \/ DeleteMaps \/ cleanup_sockets \/ Signal
             \/ (\E c \in Conn : Accept(c) \/ ClientStep(c))
             \/ (\E j \in Slots : SkipSlot(j) \/ ServeGone(j))
             \/ UNCHANGED vars
      PROVE  UNCHANGED <<queue, running>>
    BY <1>5 DEF Poll, PollFails, ScanExit, check_for_timeouts, TimeoutsBegin, CheckSlot,
                TimeoutsEnd, DestroyBegins, DestroyEnds, DeleteMaps, cleanup_sockets, Signal,
                Accept, ClientStep, Connect, Send, HangUp, SkipSlot, ServeGone,
                Pool!BeginClose, Pool!EndClose, vars, poolVars
<1>6. QED
    BY <1>1, <1>2, <1>3, <1>4, <1>5, QueueEntries
    DEF Next, ServerStep, WorkerStep, Terminated

(* The jobs that wait or run are of their type.                            *)
LEMMA JobTypes ==
    ASSUME Shape, NEW x \in Pool!Queued \cup running
    PROVE  x \in Job /\ x.client \in Slots /\ x.asker \in Conn /\ x.n \in Nat
<1>1. x \in Job
    BY DEF Shape, Pool!Queued
<1>2. QED
    BY <1>1 DEF Job

(* A job's slot stays its asker's until the asker is closed.               *)
LEMMA OwnedStep == IInv /\ [Next]_vars => Owned'
<1> SUFFICES ASSUME IInv, [Next]_vars, NEW x \in Pool!Queued' \cup running'
             PROVE  socket_fd'[x.client] = x.asker \/ tcp'[x.asker] = "closed"
    BY DEF Owned
<1>1. CASE x \notin Pool!Queued \cup running
    BY <1>1, NewJob
<1>2. CASE x \in Pool!Queued \cup running
  <2>1. x.client \in Slots /\ x.asker \in Conn
      BY <1>2, JobTypes DEF IInv
  <2>2. CASE tcp[x.asker] = "closed"
      BY <2>1, <2>2, ClosedForGood
  <2>3. CASE socket_fd[x.client] = x.asker
      BY <2>1, <2>3, LeftClosed, ServerAssumption
  <2>4. QED
      BY <1>2, <2>2, <2>3 DEF IInv, Owned
<1>3. QED
    BY <1>1, <1>2

(* An answer goes to the slot's connection of the moment.                  *)
LEMMA ReachStep == IInv /\ [Next]_vars => AnswersReachAsker'
<1> SUFFICES ASSUME IInv, [Next]_vars, NEW a \in answers', a.to # a.asker
             PROVE  tcp'[a.asker] = "closed"
    BY DEF AnswersReachAsker
<1> USE DEF IInv
<1>1. CASE a \in answers
  <2>1. a.asker \in Conn /\ tcp[a.asker] = "closed"
      BY <1>1 DEF AnswersReachAsker, Shape
  <2>2. QED
      BY <2>1, ClosedForGood
<1>2. ASSUME NEW i \in Slots, ServeData(i), a \notin answers PROVE FALSE
  <2> DEFINE c == socket_fd[i]
             n == heard[c] + 1
  <2>1. BecomesAnswer(c, n) \/ UNCHANGED answers
      BY <1>2, Received DEF BecomesJob, BecomesSilence
  <2>2. a = [asker |-> c, n |-> n, to |-> c]
      BY <1>2, <2>1 DEF BecomesAnswer
  <2>3. QED
      BY <2>2
<1>3. ASSUME NEW x \in running, FinishJob(x), a \notin answers PROVE tcp'[a.asker] = "closed"
  <2>1. a = [asker |-> x.asker, n |-> x.n, to |-> socket_fd[x.client]]
      BY <1>3 DEF FinishJob, Answer
  <2>2. tcp[x.asker] = "closed"
      BY <2>1 DEF Owned
  <2>3. x.asker \in Conn
      BY JobTypes
  <2>4. QED
      BY <2>1, <2>2, <2>3, ClosedForGood
<1>4. ASSUME \/ Poll \/ PollFails \/ ScanExit \/ check_for_timeouts \/ DestroyBegins
             \/ DestroyDiscards \/ DestroyEnds \/ DeleteMaps \/ cleanup_sockets
             \/ StartJob \/ Signal
             \/ (\E c \in Conn : Accept(c) \/ ClientStep(c))
             \/ (\E j \in Slots : SkipSlot(j) \/ ServeGone(j))
             \/ UNCHANGED vars
      PROVE  UNCHANGED answers
    BY <1>4 DEF Poll, PollFails, ScanExit, check_for_timeouts, TimeoutsBegin, CheckSlot,
                TimeoutsEnd, DestroyBegins, DestroyDiscards, DestroyEnds, DeleteMaps,
                cleanup_sockets, StartJob, Signal, Accept, ClientStep, Connect, Send, HangUp,
                SkipSlot, ServeGone, vars, fate
<1>5. QED
    BY <1>1, <1>2, <1>3, <1>4 DEF Next, ServerStep, WorkerStep, Terminated

-----------------------------------------------------------------------------
(* Answers are never taken back.                                           *)
LEMMA AnswersStay == IInv /\ [Next]_vars => answers \subseteq answers'
<1> SUFFICES ASSUME IInv, [Next]_vars PROVE answers \subseteq answers'
    OBVIOUS
<1>1. ASSUME NEW i \in Slots, ServeData(i) PROVE answers \subseteq answers'
    BY <1>1, Received DEF BecomesJob, BecomesAnswer, BecomesSilence
<1>2. ASSUME NEW x \in running, FinishJob(x) PROVE answers \subseteq answers'
    BY <1>2 DEF FinishJob, Answer
<1>3. ASSUME \/ Poll \/ PollFails \/ ScanExit \/ check_for_timeouts \/ DestroyBegins
             \/ DestroyDiscards \/ DestroyEnds \/ DeleteMaps \/ cleanup_sockets
             \/ StartJob \/ Signal
             \/ (\E c \in Conn : Accept(c) \/ ClientStep(c))
             \/ (\E j \in Slots : SkipSlot(j) \/ ServeGone(j))
             \/ UNCHANGED vars
      PROVE  UNCHANGED answers
    BY <1>3 DEF Poll, PollFails, ScanExit, check_for_timeouts, TimeoutsBegin, CheckSlot,
                TimeoutsEnd, DestroyBegins, DestroyDiscards, DestroyEnds, DeleteMaps,
                cleanup_sockets, StartJob, Signal, Accept, ClientStep, Connect, Send, HangUp,
                SkipSlot, ServeGone, vars, fate
<1>4. QED
    BY <1>1, <1>2, <1>3 DEF Next, ServerStep, WorkerStep, Terminated

(* Closing a slot releases its account and no other.                      *)
LEMMA ResetHeld ==
    ASSUME IInv, NEW s \in Slots, reset_socket(s), answers \subseteq answers'
    PROVE  Held'
<1> USE DEF IInv
<1>1. /\ socket_fd'[s] = None /\ client_account'[s] = None
      /\ \A i \in Slots \ {s} : /\ socket_fd'[i] = socket_fd[i]
                                /\ client_account'[i] = client_account[i]
    BY Reset
<1>2. \A i, j \in Slots :
        client_account'[i] # None /\ client_account'[i] = client_account'[j] => i = j
    BY <1>1 DEF Held
<1>3. ASSUME NEW a \in Account
      PROVE  logged_in'[a] <=> \E i \in Slots : client_account'[i] = a
  <2>1. logged_in'[a] <=> logged_in[a] /\ client_account[s] # a
      BY Reset
  <2>2. logged_in[a] <=> \E i \in Slots : client_account[i] = a
      BY DEF Held
  <2>3. a # None
      BY ServerAssumption
  <2>4. (\E i \in Slots : client_account'[i] = a)
          <=> (\E i \in Slots : client_account[i] = a) /\ client_account[s] # a
      BY <1>1, <2>3 DEF Held
  <2>5. QED
      BY <2>1, <2>2, <2>4
<1>4. \A i \in Slots \ Occupied' :
        client_account'[i] # None => \E x \in answers' : x.to = None
    BY <1>1 DEF Held, Occupied
<1>5. QED
    BY <1>2, <1>3, <1>4 DEF Held

(* Accounts are held by one slot, and only while they are logged in.       *)
LEMMA HeldStep == IInv /\ [Next]_vars => Held'
<1> SUFFICES ASSUME IInv, [Next]_vars PROVE Held'
    OBVIOUS
<1> USE DEF IInv
<1>0. answers \subseteq answers'
    BY AnswersStay
<1>1. ASSUME NEW i \in Slots, ServeGone(i) PROVE Held'
    BY <1>0, <1>1, ResetHeld DEF ServeGone
<1>2. ASSUME check_for_timeouts PROVE Held'
  <2>1. CASE UNCHANGED <<slotVars, tcp>>
      BY <1>0, <2>1 DEF Held, Occupied, slotVars
  <2>2. QED
      BY <1>0, <1>2, <2>1, ResetHeld, TimeoutResets
<1>3. ASSUME NEW x \in running, FinishJob(x) PROVE Held'
  <2>1. x.client \in Slots
      BY JobTypes
  <2>2. UNCHANGED socket_fd
      BY <1>3 DEF FinishJob
  <2>3. CASE UNCHANGED <<client_account, logged_in>>
      BY <1>0, <2>2, <2>3 DEF Held, Occupied
  <2>4. ASSUME NEW a \in Account, LogIn(x.client, a) PROVE Held'
    <3>1. /\ ~logged_in[a] /\ client_account[x.client] = None
          /\ client_account' = [client_account EXCEPT ![x.client] = a]
          /\ logged_in' = [logged_in EXCEPT ![a] = TRUE]
        BY <2>4 DEF LogIn
    <3>2. /\ client_account'[x.client] = a
          /\ \A j \in Slots : j # x.client => client_account'[j] = client_account[j]
          /\ \A j \in Slots : client_account[j] # a
        BY <2>1, <3>1 DEF Shape, Held
    <3>3. \A j, k \in Slots :
            client_account'[j] # None /\ client_account'[j] = client_account'[k] => j = k
        BY <3>2 DEF Held
    <3>4. ASSUME NEW b \in Account
          PROVE  logged_in'[b] <=> \E j \in Slots : client_account'[j] = b
      <4>1. CASE b = a
        <5>1. logged_in'[b] = TRUE
            BY <3>1, <4>1 DEF Shape
        <5>2. QED
            BY <2>1, <3>2, <4>1, <5>1
      <4>2. CASE b # a
        <5>1. logged_in'[b] = logged_in[b]
            BY <3>1, <4>2 DEF Shape
        <5>2. logged_in[b] <=> \E j \in Slots : client_account[j] = b
            BY DEF Held
        <5>3. b # None
            BY ServerAssumption
        <5>4. (\E j \in Slots : client_account'[j] = b)
                <=> (\E j \in Slots : client_account[j] = b)
            BY <3>1, <3>2, <4>2, <5>3
        <5>5. QED
            BY <5>1, <5>2, <5>4
      <4>3. QED
          BY <4>1, <4>2
    <3>5. ASSUME NEW j \in Slots \ Occupied', client_account'[j] # None
          PROVE  \E y \in answers' : y.to = None
      <4>1. socket_fd[j] = None
          BY <2>2 DEF Occupied
      <4>2. CASE j = x.client
        <5>1. [asker |-> x.asker, n |-> x.n, to |-> None] \in answers'
            BY <1>3, <4>1, <4>2 DEF FinishJob, Answer
        <5>2. QED
            BY <5>1
      <4>3. CASE j # x.client
          BY <1>0, <3>2, <3>5, <4>1, <4>3 DEF Held, Occupied
      <4>4. QED
          BY <4>2, <4>3
    <3>6. QED
        BY <3>3, <3>4, <3>5 DEF Held
  <2>5. QED
      BY <1>3, <2>3, <2>4 DEF FinishJob
<1>4. ASSUME NEW c \in Conn, Accept(c) PROVE Held'
  <2>1. UNCHANGED <<client_account, logged_in>>
      BY <1>4 DEF Accept
  <2>2. \A i \in Slots : socket_fd[i] # None => socket_fd'[i] # None
      BY <1>4, Accepted
  <2>3. QED
      BY <1>0, <2>1, <2>2 DEF Held, Occupied
<1>5. ASSUME \/ Poll \/ PollFails \/ ScanExit \/ DestroyBegins \/ DestroyDiscards
             \/ DestroyEnds \/ DeleteMaps \/ cleanup_sockets \/ StartJob \/ Signal
             \/ (\E c \in Conn : ClientStep(c))
             \/ (\E j \in Slots : SkipSlot(j) \/ ServeData(j))
             \/ UNCHANGED vars
      PROVE  Held'
  <2>1. UNCHANGED slotVars
      BY <1>5 DEF Poll, PollFails, ScanExit, DestroyBegins, DestroyDiscards, DestroyEnds,
                  DeleteMaps, cleanup_sockets, StartJob, Signal, ClientStep, Connect, Send,
                  HangUp, SkipSlot, ServeData, vars
  <2>2. QED
      BY <1>0, <2>1 DEF slotVars, Held, Occupied
<1>6. QED
    BY <1>1, <1>2, <1>3, <1>4, <1>5 DEF Next, ServerStep, WorkerStep, Terminated

-----------------------------------------------------------------------------
(* What the fates are made of.                                             *)
LEMMA FateTypes ==
    ASSUME Shape
    PROVE  /\ \A a \in answers : a.asker \in Conn /\ a.n \in Nat
           /\ \A x \in Jobs : x \in Job /\ x.asker \in Conn /\ x.n \in Nat
           /\ \A c \in Conn : heard[c] \in Nat
<1>1. \A x \in Jobs : x \in Job
    BY DEF Shape, Jobs, Pool!Queued
<1>2. QED
    BY <1>1 DEF Shape, Job

(* One more job, answer or silence is the only fate of the buffer that was *)
(* received, and leaves the others alone.                                  *)
LEMMA OneMore ==
    ASSUME IInv, NEW c \in Conn, NEW n, n = heard[c] + 1,
           heard' = [heard EXCEPT ![c] = n],
           \/ /\ \E x \in Job : x.asker = c /\ x.n = n /\ Jobs' = Jobs \cup {x}
              /\ UNCHANGED <<answers, ignored>>
           \/ /\ \E a : a.asker = c /\ a.n = n /\ answers' = answers \cup {a}
              /\ UNCHANGED <<Jobs, ignored>>
           \/ /\ ignored' = ignored \cup {<<c, n>>}
              /\ UNCHANGED <<Jobs, answers>>
    PROVE  FatesOfHeard' /\ NotTwice' /\ NotLost'
<1> USE DEF IInv, Fated
<1>1. /\ \A a \in answers : a.asker \in Conn /\ a.n \in Nat
      /\ \A x \in Jobs : x.asker \in Conn /\ x.n \in Nat
      /\ \A d \in Conn : heard[d] \in Nat
    BY FateTypes
<1>2. heard'[c] = n /\ n \in Nat /\ n > 0 /\ \A d \in Conn : d # c => heard'[d] = heard[d]
    BY <1>1 DEF Shape
<1>3. \A d \in Conn : \A k : k \in 1..heard[d] => k \in 1..heard'[d] /\ ~(d = c /\ k = n)
    BY <1>1, <1>2
<1>4. \A d \in Conn : \A k \in 1..heard'[d] : k \in 1..heard[d] \/ (d = c /\ k = n)
    BY <1>1, <1>2
<1>5. n \in 1..heard'[c]
    BY <1>2
<1>6. /\ \A a \in answers : ~(a.asker = c /\ a.n = n)
      /\ \A x \in Jobs : ~(x.asker = c /\ x.n = n)
      /\ <<c, n>> \notin ignored
    BY <1>1, <1>2, <1>3 DEF FatesOfHeard
<1>7. CASE /\ \E x \in Job : x.asker = c /\ x.n = n /\ Jobs' = Jobs \cup {x}
           /\ UNCHANGED <<answers, ignored>>
  <2>1. PICK x \in Job : x.asker = c /\ x.n = n /\ Jobs' = Jobs \cup {x}
      BY <1>7
  <2>2. FatesOfHeard'
      BY <1>1, <1>3, <1>5, <1>7, <2>1 DEF FatesOfHeard
  <2>3. NotTwice'
      BY <1>6, <1>7, <2>1 DEF NotTwice
  <2>4. NotLost'
      BY <1>4, <1>7, <2>1 DEF NotLost
  <2>5. QED
      BY <2>2, <2>3, <2>4
<1>8. CASE /\ \E a : a.asker = c /\ a.n = n /\ answers' = answers \cup {a}
           /\ UNCHANGED <<Jobs, ignored>>
  <2>1. PICK a : a.asker = c /\ a.n = n /\ answers' = answers \cup {a}
      BY <1>8
  <2>2. FatesOfHeard'
      BY <1>1, <1>3, <1>5, <1>8, <2>1 DEF FatesOfHeard
  <2>3. NotTwice'
      BY <1>6, <1>8, <2>1 DEF NotTwice
  <2>4. NotLost'
      BY <1>4, <1>8, <2>1 DEF NotLost
  <2>5. QED
      BY <2>2, <2>3, <2>4
<1>9. CASE ignored' = ignored \cup {<<c, n>>} /\ UNCHANGED <<Jobs, answers>>
  <2>1. FatesOfHeard'
      BY <1>1, <1>3, <1>5, <1>9 DEF FatesOfHeard
  <2>2. NotTwice'
      BY <1>6, <1>9 DEF NotTwice
  <2>3. NotLost'
      BY <1>4, <1>9 DEF NotLost
  <2>4. QED
      BY <2>1, <2>2, <2>3
<1>10. QED
    BY <1>7, <1>8, <1>9

(* A job that moves inside the pool keeps every fate.                      *)
LEMMA Moved ==
    ASSUME Fated, UNCHANGED <<Jobs, answers, ignored, heard>>
    PROVE  FatesOfHeard' /\ NotTwice' /\ NotLost'
    BY DEF Fated, FatesOfHeard, NotTwice, NotLost

(* A job becomes its answer.                                               *)
LEMMA Finished ==
    ASSUME IInv, NEW x \in running, FinishJob(x)
    PROVE  Fated'
<1> USE DEF IInv, Fated
<1>1. /\ running' = running \ {x} /\ UNCHANGED <<queue, discarded, ignored, heard>>
      /\ answers' = answers \cup {[asker |-> x.asker, n |-> x.n, to |-> socket_fd[x.client]]}
    BY DEF FinishJob, Pool!Complete, Answer
<1>2. Pool!Queued' = Pool!Queued
    BY <1>1 DEF Pool!Queued
<1>3. x \notin Pool!Queued /\ x \notin discarded
    BY DEF Apart
<1>4. Jobs' = Jobs \ {x} /\ x \in Jobs
    BY <1>1, <1>2, <1>3 DEF Jobs
<1>5. Apart'
    BY <1>1, <1>2 DEF Apart
<1>6. PICK a : a.asker = x.asker /\ a.n = x.n /\ answers' = answers \cup {a}
    BY <1>1
<1>7. FatesOfHeard'
    BY <1>1, <1>4, <1>6 DEF FatesOfHeard
<1>8. NotTwice'
    BY <1>1, <1>4, <1>6 DEF NotTwice
<1>9. NotLost'
    BY <1>1, <1>4, <1>6 DEF NotLost
<1>10. QED
    BY <1>5, <1>7, <1>8, <1>9

(* Each buffer keeps its one fate.                                         *)
LEMMA FatedStep == IInv /\ [Next]_vars => Fated'
<1> SUFFICES ASSUME IInv, [Next]_vars PROVE Fated'
    OBVIOUS
<1> USE DEF IInv
<1>1. ASSUME NEW i \in Slots, ServeData(i) PROVE Fated'
  <2> DEFINE c == socket_fd[i]
             n == heard[c] + 1
  <2>1. c \in Conn /\ heard' = [heard EXCEPT ![c] = n] /\ discarded' = discarded
      BY <1>1, Received DEF ServeData
  <2>2. CASE BecomesJob(i, c, n)
    <3>1. PICK x \in Job : x.asker = c /\ x.n = n /\ Pool!Submit(x)
        BY <2>2 DEF BecomesJob
    <3>2. UNCHANGED <<running, answers, ignored>>
        BY <2>2, <3>1 DEF BecomesJob, Pool!Submit
    <3>3. /\ Entries(queue') = Entries(queue) \cup {x}
          /\ EntriesOnce(queue) /\ x \notin Entries(queue) => EntriesOnce(queue')
        BY <3>1, Appended DEF Pool!Submit, Shape
    <3>4. Jobs' = Jobs \cup {x}
        BY <2>1, <3>2, <3>3, QueueEntries DEF Jobs
    <3>5. x \notin Jobs
      <4>1. \A y \in Jobs : y.n \in 1..heard[y.asker]
          BY DEF Fated, FatesOfHeard
      <4>2. heard[c] \in Nat
          BY <2>1 DEF Shape
      <4>3. QED
          BY <3>1, <4>1, <4>2
    <3>6. Apart'
        BY <2>1, <3>2, <3>3, <3>5, QueueEntries DEF Fated, Jobs
    <3>7. FatesOfHeard' /\ NotTwice' /\ NotLost'
        BY <2>1, <3>1, <3>2, <3>4, OneMore
    <3>8. QED
        BY <3>6, <3>7 DEF Fated
  <2>3. ASSUME BecomesAnswer(c, n) \/ BecomesSilence(c, n) PROVE Fated'
    <3>1. UNCHANGED poolVars
        BY <2>3 DEF BecomesAnswer, BecomesSilence
    <3>2. UNCHANGED Jobs /\ Apart'
        BY <2>1, <3>1, QueueEntries DEF poolVars, Jobs, Fated
    <3>3. CASE BecomesAnswer(c, n)
      <4>1. \E a : a.asker = c /\ a.n = n /\ answers' = answers \cup {a}
        <5> DEFINE a == [asker |-> c, n |-> n, to |-> c]
        <5>1. a.asker = c /\ a.n = n
            OBVIOUS
        <5>2. answers' = answers \cup {a}
            BY <3>3 DEF BecomesAnswer
        <5>3. QED
            BY <5>1, <5>2
      <4>2. UNCHANGED ignored
          BY <3>3 DEF BecomesAnswer
      <4>3. FatesOfHeard' /\ NotTwice' /\ NotLost'
          BY <2>1, <3>2, <4>1, <4>2, OneMore
      <4>4. QED
          BY <3>2, <4>3 DEF Fated
    <3>4. CASE BecomesSilence(c, n)
      <4>1. ignored' = ignored \cup {<<c, n>>} /\ UNCHANGED answers
          BY <3>4 DEF BecomesSilence
      <4>2. FatesOfHeard' /\ NotTwice' /\ NotLost'
          BY <2>1, <3>2, <4>1, OneMore
      <4>3. QED
          BY <3>2, <4>2 DEF Fated
    <3>5. QED
        BY <2>3, <3>3, <3>4
  <2>4. QED
      BY <1>1, <2>2, <2>3, Received
<1>2. ASSUME DestroyDiscards PROVE Fated'
  <2>1. /\ queue # <<>> /\ queue' = Tail(queue) /\ discarded' = discarded \cup {Head(queue)}
        /\ UNCHANGED <<running, answers, ignored, heard>>
      BY <1>2 DEF DestroyDiscards, Pool!Discard
  <2>2. /\ Entries(queue) = {Head(queue)} \cup Entries(queue')
        /\ EntriesOnce(queue) =>
             EntriesOnce(queue') /\ Head(queue) \notin Entries(queue')
      BY <2>1, HeadTaken DEF Shape
  <2>3. UNCHANGED Jobs /\ Apart'
      BY <2>1, <2>2, QueueEntries DEF Jobs, Fated
  <2>4. QED
      BY <2>1, <2>3, Moved DEF Fated
<1>3. ASSUME StartJob PROVE Fated'
  <2>1. /\ queue # <<>> /\ queue' = Tail(queue) /\ running' = running \cup {Head(queue)}
        /\ UNCHANGED <<discarded, answers, ignored, heard>>
      BY <1>3 DEF StartJob, Pool!Start, fate
  <2>2. /\ Entries(queue) = {Head(queue)} \cup Entries(queue')
        /\ EntriesOnce(queue) =>
             EntriesOnce(queue') /\ Head(queue) \notin Entries(queue')
      BY <2>1, HeadTaken DEF Shape
  <2>3. UNCHANGED Jobs /\ Apart'
      BY <2>1, <2>2, QueueEntries DEF Jobs, Fated
  <2>4. QED
      BY <2>1, <2>3, Moved DEF Fated
<1>4. ASSUME NEW x \in running, FinishJob(x) PROVE Fated'
    BY <1>4, Finished
<1>5. ASSUME \/ Poll \/ PollFails \/ ScanExit \/ check_for_timeouts \/ DestroyBegins
             \/ DestroyEnds \/ DeleteMaps \/ cleanup_sockets \/ Signal
             \/ (\E c \in Conn : Accept(c) \/ ClientStep(c))
             \/ (\E j \in Slots : SkipSlot(j) \/ ServeGone(j))
             \/ UNCHANGED vars
      PROVE  Fated'
  <2>1. UNCHANGED <<queue, running, fate>>
      BY <1>5 DEF Poll, PollFails, ScanExit, check_for_timeouts, TimeoutsBegin, CheckSlot,
                  TimeoutsEnd, DestroyBegins, DestroyEnds, DeleteMaps, cleanup_sockets, Signal,
                  Accept, ClientStep, Connect, Send, HangUp, SkipSlot, ServeGone,
                  Pool!BeginClose, Pool!EndClose, vars, poolVars
  <2>2. UNCHANGED Jobs /\ Apart'
      BY <2>1, QueueEntries DEF fate, Jobs, Fated
  <2>3. QED
      BY <2>1, <2>2, Moved DEF fate, Fated
<1>6. QED
    BY <1>1, <1>2, <1>3, <1>4, <1>5 DEF Next, ServerStep, WorkerStep, Terminated

-----------------------------------------------------------------------------
(* The invariant holds always.                                             *)
LEMMA Invariance == Spec => []IInv
<1>1. IInv /\ [Next]_vars => IInv'
    BY ShapeStep, EndsStep, SnapshotStep, OwnedStep, HeldStep, FatedStep, ReachStep DEF IInv
<1>2. QED
    BY <1>1, InitIInv, PTL DEF Spec

(* What a job points to is not freed while it runs, and no job is ever     *)
(* made of a request while a list is missing (src/main.c:36-44, 56-62).    *)
THEOREM SharedDataSafe == Spec => []SharedDataAlive
<1>1. IInv => SharedDataAlive
    BY DEF IInv, Ends, SharedDataAlive
<1>2. QED
    BY <1>1, Invariance, PTL

(* Only the answer to a connection that the server has closed goes astray  *)
(* (the client pointer of src/processing.c:74).                            *)
THEOREM AnswersReach == Spec => []AnswersReachAsker
<1>1. IInv => AnswersReachAsker
    BY DEF IInv
<1>2. QED
    BY <1>1, Invariance, PTL

(* One slot at most holds an account, and the account is logged in just as *)
(* long (reset_socket, src/network_utils.c:140-156).                       *)
THEOREM AccountsCorrect == Spec => []AccountsReleased
<1>1. ASSUME IInv, NEW a \in Account
      PROVE  Cardinality({i \in Slots : client_account[i] = a})
               = IF logged_in[a] THEN 1 ELSE 0
  <2> DEFINE Holders == {i \in Slots : client_account[i] = a}
  <2>1. a # None
      BY ServerAssumption
  <2>2. logged_in[a] <=> \E i \in Slots : client_account[i] = a
      BY <1>1 DEF IInv, Held
  <2>3. CASE logged_in[a]
    <3>1. PICK i \in Slots : client_account[i] = a
        BY <2>2, <2>3
    <3>2. Holders = {i}
        BY <1>1, <2>1, <3>1 DEF IInv, Held
    <3>3. QED
        BY <2>3, <3>2, FS_Singleton
  <2>4. CASE ~logged_in[a]
    <3>1. Holders = {}
        BY <2>2, <2>4
    <3>2. QED
        BY <2>4, <3>1, FS_EmptySet
  <2>5. QED
      BY <2>3, <2>4
<1>2. IInv => AccountsReleased
    BY <1>1 DEF IInv, Held, AccountsReleased
<1>3. QED
    BY <1>2, Invariance, PTL

(* Every buffer that a recv took has exactly one fate (process_data,       *)
(* src/processing.c:248-279, and the pool behind it).                      *)
THEOREM FatesCorrect == Spec => []Accounted
<1>1. ASSUME IInv, NEW c \in Conn, NEW n \in 1..heard[c] + 1
      PROVE  Cardinality(Fates(c, n)) = IF n <= heard[c] THEN 1 ELSE 0
  <2> DEFINE A == {a \in answers : a.asker = c /\ a.n = n}
             J == {x \in Jobs : x.asker = c /\ x.n = n}
             I == {x \in ignored : x = <<c, n>>}
  <2>1. Fates(c, n) = A \cup J \cup I
      BY DEF Fates, Jobs
  <2>2. heard[c] \in Nat /\ n \in Nat
      BY <1>1 DEF IInv, Shape
  <2>3. FatesOfHeard /\ NotTwice /\ NotLost
      BY <1>1 DEF IInv, Fated
  <2>4. CASE n <= heard[c]
    <3>1. n \in 1..heard[c]
        BY <2>2, <2>4
    <3>2. \/ \E a \in answers : a.asker = c /\ a.n = n
          \/ \E x \in Jobs : x.asker = c /\ x.n = n
          \/ <<c, n>> \in ignored
        BY <2>3, <3>1 DEF NotLost
    <3>3. \E f : A \cup J \cup I = {f}
      <4>1. ASSUME NEW a \in answers, a.asker = c, a.n = n PROVE A \cup J \cup I = {a}
          BY <2>3, <4>1 DEF NotTwice
      <4>2. ASSUME NEW x \in Jobs, x.asker = c, x.n = n PROVE A \cup J \cup I = {x}
          BY <2>3, <4>2 DEF NotTwice
      <4>3. ASSUME <<c, n>> \in ignored PROVE A \cup J \cup I = {<<c, n>>}
          BY <2>3, <4>3 DEF NotTwice
      <4>4. QED
          BY <3>2, <4>1, <4>2, <4>3
    <3>4. QED
        BY <2>1, <2>4, <3>3, FS_Singleton
  <2>5. CASE ~(n <= heard[c])
    <3>1. n \notin 1..heard[c]
        BY <2>2, <2>5
    <3>2. A = {} /\ J = {} /\ I = {}
        BY <2>2, <2>3, <3>1 DEF FatesOfHeard
    <3>3. QED
        BY <2>1, <2>5, <3>2, FS_EmptySet
  <2>6. QED
      BY <2>4, <2>5
<1>2. IInv => Accounted
    BY <1>1 DEF Accounted
<1>3. QED
    BY <1>2, Invariance, PTL
=============================================================================
