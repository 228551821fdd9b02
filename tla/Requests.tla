------------------------------ MODULE Requests ------------------------------
(***************************************************************************)
(* A request's way through the server of src/: the poll loop of            *)
(* src/network_utils.c receives it, src/processing.c judges it and makes a *)
(* job of it, a worker of the thread pool answers it, and src/main.c ends  *)
(* them in turn.  Dispatch says what a buffer is worth and JobService what *)
(* the pool promises, which ThreadPool is shown to implement.              *)
(*                                                                         *)
(* A descriptor is named by the connection it belongs to; None is the 0 of *)
(* a free slot.  The process_*_command functions that the jobs run are not *)
(* in the repository: here one answers through command->client once, under *)
(* its mutex as send_error does, and a login may leave an account in it.   *)
(***************************************************************************)
EXTENDS Dispatch, FiniteSets

CONSTANTS CONN_MAX,   \* entries of fds and client_sockets
          Conn,       \* connections that are ever made
          Polite,     \* those whose clients send one request at a time, whole
          Account,    \* accounts of the list
          None,       \* no descriptor, no account: 0 and NULL
          Request,    \* whole requests, as buffers
          Burst,      \* what others send: one or more pieces in a row
          MaxSends    \* bound: sends of each client

ASSUME ServerAssumption ==
    /\ CONN_MAX \in Nat /\ CONN_MAX >= 2
    /\ MaxSends \in [Conn -> Nat]
    /\ Polite \subseteq Conn
    /\ None \notin Conn \cup Account
    /\ Request \subseteq Seq(Nat)
    /\ Burst \subseteq Seq(Seq(Nat))

Slots == 1..CONN_MAX - 1

(* A command: the slot its client pointer names, its opcode and, as        *)
(* history, who sent it and as which of its buffers.                       *)
Job == [client : Slots, opcode : Nat, asker : Conn, n : Nat]

VARIABLES
    pc, idx,            \* where main's thread is, the loop over the slots
    ready,              \* entries of fds with POLLIN, 0 the listening one
    fresh,              \* slots whose last_message_time is of this turn
    socket_fd,          \* of client_sockets[i]
    client_account,     \* of client_sockets[i]
    total_connections,
    handler_value,      \* not 0: SIGINT came, or a list could not be loaded
    lists,              \* the two lists: "loaded", "missing" or "deleted"
    logged_in,          \* of each account
    queue, running, phase,   \* the pool
    tcp, inbox, sent,   \* kernel: connections, unread pieces, sends so far
    heard,              \* history: buffers received from each connection
    answers, ignored, discarded   \* history: what became of them

slotVars == <<socket_fd, client_account, logged_in>>
poolVars == <<queue, running, phase>>
netVars  == <<tcp, inbox, sent>>
fate     == <<heard, answers, ignored, discarded>>
loopVars == <<ready, fresh, total_connections, handler_value, lists>>
vars == <<pc, idx, loopVars, slotVars, poolVars, netVars, fate>>

Pool == INSTANCE JobService

(* endless() goes on with a list missing, and only sets handler_value.     *)
Init ==
    /\ lists \in {"loaded", "missing"}
    /\ handler_value = (lists = "missing")
    /\ pc = "poll"
    /\ idx = 1
    /\ ready = {}
    /\ fresh = {}
    /\ socket_fd = [i \in Slots |-> None]
    /\ client_account = [i \in Slots |-> None]
    /\ total_connections = 0
    /\ logged_in = [a \in Account |-> FALSE]
    /\ Pool!Init
    /\ tcp = [c \in Conn |-> "away"]
    /\ inbox = [c \in Conn |-> <<>>]
    /\ sent = [c \in Conn |-> 0]
    /\ heard = [c \in Conn |-> 0]
    /\ answers = {}
    /\ ignored = {}
    /\ discarded = {}

Occupied == {i \in Slots : socket_fd[i] # None}

InSlot(c) == \E i \in Slots : socket_fd[i] = c

-----------------------------------------------------------------------------
(* The poll loop.                                                          *)
Readable(c) == inbox[c] # <<>> \/ tcp[c] = "hungup"

MayAccept(r) == 0 \in r /\ CONN_MAX > total_connections

Poll ==
    /\ pc = "poll"
    /\ ready' = {i \in Occupied : Readable(socket_fd[i])}
                  \cup {0 : c \in {d \in Conn : tcp[d] = "waiting"}}
    /\ pc' = IF MayAccept(ready') THEN "accept" ELSE "scan"
    /\ idx' = 1
    /\ UNCHANGED <<fresh, total_connections, handler_value, lists,
                   slotVars, poolVars, netVars, fate>>

(* A SIGINT, the first or a later one, finds poll waiting and ends it.     *)
PollFails ==
    /\ pc = "poll"
    /\ handler_value
    /\ pc' = "destroy"
    /\ UNCHANGED <<idx, loopVars, slotVars, poolVars, netVars, fate>>

(* Mutated form of FirstFree: the test of socket_fd is left out.           *)
FirstSlot(i) == i = 1

FirstFree(i) ==
    /\ i \in Slots \ Occupied
    /\ \A j \in Slots : j < i => j \in Occupied

(* The slot keeps the client_account it has.                               *)
handle_new_connection(c) ==
    \/ \E i \in Slots :
          /\ FirstFree(i)
          /\ socket_fd' = [socket_fd EXCEPT ![i] = c]
          /\ fresh' = fresh \cup {i}
          /\ ready' = ready \ {i}
    \/ /\ Occupied = Slots
       /\ UNCHANGED <<socket_fd, fresh, ready>>

Accept(c) ==
    /\ pc = "accept"
    /\ tcp[c] = "waiting"
    /\ tcp' = [tcp EXCEPT ![c] = "open"]
    /\ handle_new_connection(c)
    /\ total_connections' = total_connections + 1
    /\ pc' = "scan"
    /\ UNCHANGED <<idx, handler_value, lists, client_account, logged_in, poolVars,
                   inbox, sent, fate>>

(* Mutated form of ScanOver: the loop leaves out the last slot.            *)
ScanOverEarly == idx = CONN_MAX - 1

ScanOver == idx = CONN_MAX

(* The loop looks for a SIGINT before every slot.                          *)
AtSlot(i) == pc = "scan" /\ ~ScanOver /\ ~handler_value /\ idx = i

NextSlot == idx' = idx + 1 /\ UNCHANGED pc

(* The next poll overwrites revents; what was read in a turn is old then.  *)
EndOfTurn == ready' = {} /\ fresh' = {}

ScanExit ==
    /\ pc = "scan"
    /\ ~ScanOver
    /\ handler_value
    /\ pc' = "destroy"
    /\ EndOfTurn
    /\ UNCHANGED <<idx, total_connections, handler_value, lists, slotVars,
                   poolVars, netVars, fate>>

SkipSlot(i) ==
    /\ AtSlot(i)
    /\ i \notin ready
    /\ NextSlot
    /\ UNCHANGED <<loopVars, slotVars, poolVars, netVars, fate>>

-----------------------------------------------------------------------------
(* What process_data does with a buffer that came from slot i.             *)
Answer(i, asker, n) ==
    answers' = answers \cup {[asker |-> asker, n |-> n, to |-> socket_fd[i]]}

send_error(i, n) ==
    Answer(i, socket_fd[i], n) /\ UNCHANGED <<poolVars, ignored>>

Command(i, n, buf) ==
    [client |-> i, opcode |-> opcode(buf), asker |-> socket_fd[i], n |-> n]

(* The opcodes choose the function to run; the last branch of each, which  *)
(* frees the command, is for opcodes that are not sent there.              *)
sort_login_command(job) ==
    /\ job.opcode \in LoginOpcodes
    /\ Pool!Submit(job)
    /\ UNCHANGED <<answers, ignored>>

sort_user_del_command(job) ==
    /\ job.opcode \in UserDelOpcodes
    /\ Pool!Submit(job)
    /\ UNCHANGED <<answers, ignored>>

sort_link_add_command(job) ==
    /\ job.opcode \in LinkAddOpcodes
    /\ Pool!Submit(job)
    /\ UNCHANGED <<answers, ignored>>

validate_type1_command(i, n, buf) ==
    IF ValidLogin(buf) THEN sort_login_command(Command(i, n, buf))
    ELSE send_error(i, n)

validate_type2_command(i, n, buf) ==
    IF ValidUserDel(buf) THEN sort_user_del_command(Command(i, n, buf))
    ELSE send_error(i, n)

(* Mutated form of validate_type3_command: it goes on after send_error.    *)
ErrorFallsThrough(i, n, buf) ==
    IF ValidLinkAdd(buf) THEN sort_link_add_command(Command(i, n, buf))
    ELSE /\ Answer(i, socket_fd[i], n)
         /\ Pool!Submit(Command(i, n, buf))
         /\ UNCHANGED ignored

validate_type3_command(i, n, buf) ==
    IF ValidLinkAdd(buf) THEN sort_link_add_command(Command(i, n, buf))
    ELSE send_error(i, n)

Process(i, n, buf) ==
    \/ opcode(buf) \in LoginOpcodes /\ validate_type1_command(i, n, buf)
    \/ opcode(buf) \in UserDelOpcodes /\ validate_type2_command(i, n, buf)
    \/ opcode(buf) \in LinkAddOpcodes /\ validate_type3_command(i, n, buf)
    \/ /\ opcode(buf) \notin LoginOpcodes \cup UserDelOpcodes \cup LinkAddOpcodes
       /\ ignored' = ignored \cup {<<socket_fd[i], n>>}
       /\ UNCHANGED <<poolVars, answers>>

(* The pieces a recv takes together stand behind one another in the buffer.*)
Joined(s) ==
    LET f[m \in 0..Len(s)] == IF m = 0 THEN <<>> ELSE f[m - 1] \o s[m]
    IN  f[Len(s)]

ServeData(i) ==
    LET c == socket_fd[i] IN
    /\ AtSlot(i)
    /\ i \in ready
    /\ inbox[c] # <<>>
    /\ \E m \in 1..Len(inbox[c]) :
          /\ inbox' = [inbox EXCEPT ![c] = SubSeq(@, m + 1, Len(@))]
          /\ Process(i, heard[c] + 1, Joined(SubSeq(inbox[c], 1, m)))
    /\ heard' = [heard EXCEPT ![c] = @ + 1]
    /\ fresh' = fresh \cup {i}
    /\ NextSlot
    /\ UNCHANGED <<ready, total_connections, handler_value, lists, slotVars,
                   tcp, sent, discarded>>

(* Mutated form of reset_socket: the account is not logged out.            *)
ResetWithoutLogout(i) ==
    /\ tcp' = [tcp EXCEPT ![socket_fd[i]] = "closed"]
    /\ socket_fd' = [socket_fd EXCEPT ![i] = None]
    /\ client_account' = [client_account EXCEPT ![i] = None]
    /\ UNCHANGED logged_in

(* Close, log out, clear.                                                  *)
reset_socket(i) ==
    /\ tcp' = [tcp EXCEPT ![socket_fd[i]] = "closed"]
    /\ logged_in' = [a \in Account |-> logged_in[a] /\ client_account[i] # a]
    /\ socket_fd' = [socket_fd EXCEPT ![i] = None]
    /\ client_account' = [client_account EXCEPT ![i] = None]

(* recv finds nothing, because the client left.                            *)
ServeGone(i) ==
    /\ AtSlot(i)
    /\ i \in ready
    /\ inbox[socket_fd[i]] = <<>>
    /\ reset_socket(i)
    /\ total_connections' = total_connections - 1
    /\ NextSlot
    /\ UNCHANGED <<ready, fresh, handler_value, lists, poolVars, inbox, sent, fate>>

(* The end of a turn, slot by slot: any client that was not heard in it may*)
(* have been silent for too long.  Those that are booted stay counted in   *)
(* total_connections.                                                      *)
TimeoutsBegin ==
    /\ pc = "scan"
    /\ ScanOver
    /\ pc' = "timeouts"
    /\ idx' = 1
    /\ ready' = {}
    /\ UNCHANGED <<fresh, total_connections, handler_value, lists, slotVars,
                   poolVars, netVars, fate>>

CheckSlot(i) ==
    /\ pc = "timeouts"
    /\ idx = i
    /\ \/ i \in Occupied \ fresh /\ reset_socket(i)
       \/ UNCHANGED <<slotVars, tcp>>
    /\ NextSlot
    /\ UNCHANGED <<loopVars, poolVars, inbox, sent, fate>>

TimeoutsEnd ==
    /\ pc = "timeouts"
    /\ idx = CONN_MAX
    /\ pc' = "poll"
    /\ fresh' = {}
    /\ UNCHANGED <<idx, ready, total_connections, handler_value, lists, slotVars,
                   poolVars, netVars, fate>>

check_for_timeouts ==
    TimeoutsBegin \/ (\E i \in Slots : CheckSlot(i)) \/ TimeoutsEnd

-----------------------------------------------------------------------------
(* The end of endless(): tpool_destroy, delete_map, cleanup_sockets.       *)
DestroyBegins ==
    /\ pc = "destroy"
    /\ Pool!BeginClose
    /\ UNCHANGED <<pc, idx, loopVars, slotVars, netVars, fate>>

DestroyDiscards ==
    /\ Pool!Discard
    /\ discarded' = discarded \cup {Head(queue)}
    /\ UNCHANGED <<pc, idx, loopVars, slotVars, netVars, heard, answers, ignored>>

DestroyEnds ==
    /\ Pool!EndClose
    /\ UNCHANGED <<pc, idx, loopVars, slotVars, netVars, fate>>

(* Mutated form of Destroyed: tpool_destroy does not wait for the worker.  *)
DestroyedUnwaited == phase = "closing"

Destroyed == phase = "closed"

DeleteMaps ==
    /\ pc = "destroy"
    /\ Destroyed
    /\ lists' = IF lists = "loaded" THEN "deleted" ELSE lists
    /\ pc' = "cleanup"
    /\ UNCHANGED <<idx, ready, fresh, total_connections, handler_value, slotVars,
                   poolVars, netVars, fate>>

(* The descriptors of the slots are closed and the table is freed; what    *)
(* main's own variable says of the accounts is gone with the lists.        *)
cleanup_sockets ==
    /\ pc = "cleanup"
    /\ tcp' = [c \in Conn |-> IF InSlot(c) THEN "closed" ELSE tcp[c]]
    /\ pc' = "done"
    /\ UNCHANGED <<idx, loopVars, slotVars, poolVars, inbox, sent, fate>>

-----------------------------------------------------------------------------
(* The worker: tpool_create(1).                                            *)
StartJob ==
    /\ running = {}
    /\ Pool!Start
    /\ UNCHANGED <<pc, idx, loopVars, slotVars, netVars, fate>>

(* A login succeeds for an account that nobody is logged in to, from a slot*)
(* without one.                                                            *)
LogIn(i, a) ==
    /\ ~logged_in[a]
    /\ client_account[i] = None
    /\ logged_in' = [logged_in EXCEPT ![a] = TRUE]
    /\ client_account' = [client_account EXCEPT ![i] = a]

(* The job answers whoever has the slot now, and is done.                  *)
FinishJob(job) ==
    /\ Pool!Complete(job)
    /\ Answer(job.client, job.asker, job.n)
    /\ \/ UNCHANGED <<client_account, logged_in>>
       \/ job.opcode = 1 /\ \E a \in Account : LogIn(job.client, a)
    /\ UNCHANGED <<pc, idx, loopVars, socket_fd, netVars, heard, ignored, discarded>>

-----------------------------------------------------------------------------
(* SIGINT and the clients.  Once the poll loop is left, nothing looks at   *)
(* either of them any more.                                                *)
Serving == pc \in {"poll", "accept", "scan", "timeouts"}

Signal ==
    /\ Serving
    /\ handler_value' = TRUE
    /\ UNCHANGED <<pc, idx, ready, fresh, total_connections, lists, slotVars,
                   poolVars, netVars, fate>>

Connect(c) ==
    /\ tcp[c] = "away"
    /\ tcp' = [tcp EXCEPT ![c] = "waiting"]
    /\ UNCHANGED <<pc, idx, loopVars, slotVars, poolVars, inbox, sent, fate>>

AnswersFor(c) == {a \in answers : a.asker = c}

(* The answer to a request that c has sent has not been given.             *)
Unanswered(c) == sent[c] # Cardinality(AnswersFor(c))

Send(c, burst) ==
    /\ tcp[c] = "open"
    /\ sent[c] < MaxSends[c]
    /\ c \in Polite => ~Unanswered(c)
    /\ sent' = [sent EXCEPT ![c] = @ + 1]
    /\ inbox' = [inbox EXCEPT ![c] = @ \o burst]
    /\ UNCHANGED <<pc, idx, loopVars, slotVars, poolVars, tcp, fate>>

HangUp(c) ==
    /\ tcp[c] = "open"
    /\ tcp' = [tcp EXCEPT ![c] = "hungup"]
    /\ inbox' \in {inbox, [inbox EXCEPT ![c] = <<>>]}
    /\ UNCHANGED <<pc, idx, loopVars, slotVars, poolVars, sent, fate>>

Terminated == pc = "done" /\ UNCHANGED vars

-----------------------------------------------------------------------------
ServerStep ==
    \/ Poll \/ PollFails
    \/ \E c \in Conn : Accept(c)
    \/ ScanExit
    \/ \E i \in Slots : SkipSlot(i) \/ ServeData(i) \/ ServeGone(i)
    \/ check_for_timeouts
    \/ DestroyBegins \/ DestroyDiscards \/ DestroyEnds
    \/ DeleteMaps
    \/ cleanup_sockets

WorkerStep == StartJob \/ \E job \in running : FinishJob(job)

Whole == {<<r>> : r \in Request}

ClientStep(c) ==
    /\ Serving
    /\ \/ Connect(c)
       \/ \E burst \in IF c \in Polite THEN Whole ELSE Burst : Send(c, burst)
       \/ HangUp(c)

Next ==
    \/ ServerStep
    \/ WorkerStep
    \/ \E c \in Conn : ClientStep(c)
    \/ Signal
    \/ Terminated

Spec == Init /\ [][Next]_vars

(* Main's thread and the worker run; clients and SIGINT owe nothing.       *)
FairSpec == Spec /\ WF_vars(ServerStep) /\ WF_vars(WorkerStep)

-----------------------------------------------------------------------------
(* Every buffer that a recv took has exactly one fate: an answer, a job in *)
(* the queue, a job that runs, a job that tpool_destroy threw away, or     *)
(* silence for an unknown opcode.  No request is answered twice, answered  *)
(* and queued, or lost between the loop, the checks and the pool.          *)
Fates(c, n) ==
    {a \in answers : a.asker = c /\ a.n = n}
      \cup {x \in Pool!Queued \cup running \cup discarded : x.asker = c /\ x.n = n}
      \cup {x \in ignored : x = <<c, n>>}

Accounted ==
    \A c \in Conn : \A n \in 1..heard[c] + 1 :
        Cardinality(Fates(c, n)) = IF n <= heard[c] THEN 1 ELSE 0

(* "client that sent data" (src/processing.c:242) is who gets the answer,  *)
(* unless the server closed its connection before: only then a job finds   *)
(* the slot free, or taken by another client.                              *)
AnswersReachAsker ==
    \A a \in answers : a.to # a.asker => tcp[a.asker] = "closed"

(* While a job runs, the lists and the table of the clients that it points *)
(* to are there; and nothing is made a job of while a list is missing.     *)
SharedDataAlive ==
    /\ running # {} => lists = "loaded" /\ pc # "done"
    /\ lists = "missing" => \A c \in Conn : heard[c] = 0

(* An account is logged in exactly as long as one slot holds it, and a slot*)
(* without a client holds one only if a job came to it after its client    *)
(* had gone.                                                               *)
AccountsReleased ==
    /\ \A a \in Account :
         Cardinality({i \in Slots : client_account[i] = a})
           = IF logged_in[a] THEN 1 ELSE 0
    /\ \A i \in Slots \ Occupied :
         client_account[i] # None => \E x \in answers : x.to = None

(* A polite client with a slot gets its answer, or is closed, or the       *)
(* server stops.                                                           *)
EachAnswered ==
    \A c \in Polite :
        InSlot(c) /\ Unanswered(c) ~> ~InSlot(c) \/ ~Unanswered(c) \/ handler_value
=============================================================================
