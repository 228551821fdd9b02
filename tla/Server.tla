------------------------------- MODULE Server -------------------------------
(***************************************************************************)
(* The server loop of src/library/network_utils.c and its caller endless() *)
(* in src/library/main.c: one thread that polls, accepts at most one       *)
(* connection, serves every readable slot and boots silent clients, while  *)
(* clients connect, send and hang up, time passes and SIGINT arrives.      *)
(*                                                                         *)
(* The kernel gives out the lowest closed descriptor.  0, 1 and 2 are open *)
(* and the listening socket is ServerFd; fd 0 also stands in the tables for*)
(* "no descriptor", as in the code.  Bytes are counted in pieces that one  *)
(* send() delivered and one recv() may take together; what a request says  *)
(* is process_data's concern and not looked at here.                       *)
(***************************************************************************)
EXTENDS Integers, FiniteSets

CONSTANTS CONN_MAX,       \* entries of fds and client_sockets, 258 in the code
          TIMEOUT_LIMIT,  \* seconds of silence a client is allowed
          ServerFd,       \* descriptor of the listening socket
          MaxBacklog,     \* bound: connections waiting to be accepted
          MaxUnread,      \* bound: unread pieces in a socket
          Faults          \* whether accept, poll and calloc may fail

ASSUME ConnMaxAssumption == CONN_MAX \in Nat /\ CONN_MAX >= 2
ASSUME TimeoutAssumption == TIMEOUT_LIMIT \in Nat
ASSUME ServerFdAssumption == ServerFd \in Nat /\ ServerFd > 0
ASSUME BoundsAssumption ==
    MaxBacklog \in Nat /\ MaxUnread \in Nat /\ Faults \in BOOLEAN

Slots == 1..CONN_MAX - 1                        \* entry 0 is the listening socket
Fds   == ServerFd + 1..ServerFd + CONN_MAX + 1  \* bound: one more than ever open
Never == TIMEOUT_LIMIT + 1                      \* silence of a last_message_time of 0

VARIABLES
    socket_fd,          \* client_sockets[i].socket_fd, 0 for a free slot
    silent,             \* seconds since client_sockets[i].last_message_time
    poll_fd,            \* fds[i].fd, with events = POLLIN unless it is 0
    pollin,             \* fds[i].revents & POLLIN, entry 0 included
    total_connections,
    g_handler_value,    \* set by SIGINT
    pc,                 \* where the server's thread is
    idx,                \* index of the loop over the slots
    sock,               \* kernel: state of each descriptor
    unread,             \* kernel: pieces a recv on it would find
    listening,          \* kernel: the listening socket is open
    backlog             \* kernel: connections to accept

table  == <<socket_fd, silent, poll_fd, total_connections>>
kernel == <<sock, unread, listening, backlog>>
vars == <<table, pollin, g_handler_value, pc, idx, kernel>>

Init ==
    /\ socket_fd = [i \in Slots |-> 0]
    /\ silent = [i \in Slots |-> Never]
    /\ poll_fd = [i \in Slots |-> 0]
    /\ pollin = [i \in 0..CONN_MAX - 1 |-> FALSE]
    /\ total_connections = 0
    /\ g_handler_value = FALSE
    /\ pc = "poll"
    /\ idx = 1
    /\ sock = [f \in Fds |-> "closed"]
    /\ unread = [f \in Fds |-> 0]
    /\ listening = TRUE
    /\ backlog = 0

Open     == {f \in Fds : sock[f] # "closed"}
Occupied == {i \in Slots : socket_fd[i] # 0}
Orphans  == {f \in Open : \A i \in Slots : socket_fd[i] # f}

-----------------------------------------------------------------------------
(* Mutated form of Readable: any revents counts, POLLNVAL too.             *)
AnyEvent(f) == f # 0 /\ (f \notin Open \/ unread[f] > 0 \/ sock[f] = "hungup")

(* poll() reports the entries that have something to read or a hangup; a   *)
(* closed descriptor is reported as POLLNVAL, which nobody looks at.       *)
Readable(f) == f \in Open /\ (unread[f] > 0 \/ sock[f] = "hungup")

(* poll() also returns when POLL_RETURN_RATE is over.                      *)
Poll ==
    /\ pc = "poll"
    /\ pollin' = [i \in 0..CONN_MAX - 1 |->
                    IF i = 0 THEN backlog > 0 ELSE Readable(poll_fd[i])]
    /\ pc' = "accept"
    /\ UNCHANGED <<table, g_handler_value, idx, kernel>>

PollFails ==
    /\ Faults
    /\ pc = "poll"
    /\ listening' = FALSE
    /\ pc' = "exit"
    /\ UNCHANGED <<table, pollin, g_handler_value, idx, sock, unread, backlog>>

-----------------------------------------------------------------------------
(* The lowest closed descriptor.                                           *)
NextFd(f) ==
    /\ f \in Fds \ Open
    /\ \A e \in Fds : e < f => e \in Open

(* handle_new_connection puts the socket in the first free slot, if any.   *)
FirstFree(i) ==
    /\ i \in Slots \ Occupied
    /\ \A j \in Slots : j < i => j \in Occupied

HandleNewConnection(f) ==
    \/ \E i \in Slots :
          /\ FirstFree(i)
          /\ socket_fd' = [socket_fd EXCEPT ![i] = f]
          /\ silent' = [silent EXCEPT ![i] = 0]
          /\ poll_fd' = [poll_fd EXCEPT ![i] = f]
          /\ pollin' = [pollin EXCEPT ![i] = FALSE]
    \/ /\ Occupied = Slots
       /\ UNCHANGED <<socket_fd, silent, poll_fd, pollin>>

(* Mutated form of MayAccept: the bound on the connections is left out.    *)
MayAcceptAlways == pollin[0]

MayAccept == pollin[0] /\ CONN_MAX > total_connections

Accept ==
    /\ pc = "accept"
    /\ MayAccept
    /\ \E f \in Fds :
          /\ NextFd(f)
          /\ sock' = [sock EXCEPT ![f] = "open"]
          /\ unread' = [unread EXCEPT ![f] = 0]
          /\ HandleNewConnection(f)
    /\ backlog' = backlog - 1
    /\ total_connections' = total_connections + 1
    /\ pc' = "scan"
    /\ idx' = 1
    /\ UNCHANGED <<g_handler_value, listening>>

AcceptFails ==
    /\ Faults
    /\ pc = "accept"
    /\ MayAccept
    /\ pc' = "exit"
    /\ UNCHANGED <<table, pollin, g_handler_value, idx, kernel>>

AcceptNothing ==
    /\ pc = "accept"
    /\ ~MayAccept
    /\ pc' = "scan"
    /\ idx' = 1
    /\ UNCHANGED <<table, pollin, g_handler_value, kernel>>

-----------------------------------------------------------------------------
(* Mutated form of Interrupted: only poll() notices a SIGINT.              *)
NeverInterrupted == FALSE

(* The loop looks for a SIGINT before every slot.                          *)
Interrupted == g_handler_value

(* One turn of the loop over the slots.                                    *)
AtSlot(i) ==
    /\ pc = "scan"
    /\ idx = i
    /\ ~Interrupted

NextSlot == idx' = idx + 1 /\ UNCHANGED pc

ScanExit ==
    /\ pc = "scan"
    /\ idx \in Slots
    /\ Interrupted
    /\ pc' = "exit"
    /\ UNCHANGED <<table, pollin, g_handler_value, idx, kernel>>

ScanEnd ==
    /\ pc = "scan"
    /\ idx \notin Slots
    /\ pc' = "timeouts"
    /\ UNCHANGED <<table, pollin, g_handler_value, idx, kernel>>

SkipSlot(i) ==
    /\ AtSlot(i)
    /\ ~pollin[i]
    /\ NextSlot
    /\ UNCHANGED <<table, pollin, g_handler_value, kernel>>

(* Mutated form of CloseSlots: reset_socket without its close().           *)
ResetWithoutClose(S) ==
    /\ socket_fd' = [i \in Slots |-> IF i \in S THEN 0 ELSE socket_fd[i]]
    /\ silent' = [i \in Slots |-> IF i \in S THEN Never ELSE silent[i]]
    /\ UNCHANGED <<sock, unread, poll_fd, listening, backlog>>

(* Mutated form of CloseSlots: the socket_fd is not reset.                 *)
CloseWithoutReset(S) ==
    LET gone == {socket_fd[i] : i \in S} IN
    /\ sock' = [f \in Fds |-> IF f \in gone THEN "closed" ELSE sock[f]]
    /\ unread' = [f \in Fds |-> IF f \in gone THEN 0 ELSE unread[f]]
    /\ silent' = [i \in Slots |-> IF i \in S THEN Never ELSE silent[i]]
    /\ UNCHANGED <<socket_fd, poll_fd, listening, backlog>>

(* close() and reset_socket on a set of slots; fds keeps its entries.      *)
CloseSlots(S) ==
    LET gone == {socket_fd[i] : i \in S} IN
    /\ sock' = [f \in Fds |-> IF f \in gone THEN "closed" ELSE sock[f]]
    /\ unread' = [f \in Fds |-> IF f \in gone THEN 0 ELSE unread[f]]
    /\ socket_fd' = [i \in Slots |-> IF i \in S THEN 0 ELSE socket_fd[i]]
    /\ silent' = [i \in Slots |-> IF i \in S THEN Never ELSE silent[i]]
    /\ UNCHANGED <<poll_fd, listening, backlog>>

(* recv() finds n pieces and process_data gets them.                       *)
ServeData(i) ==
    /\ AtSlot(i)
    /\ pollin[i]
    /\ socket_fd[i] \in Open
    /\ \E n \in 1..unread[socket_fd[i]] :
          unread' = [unread EXCEPT ![socket_fd[i]] = @ - n]
    /\ silent' = [silent EXCEPT ![i] = 0]
    /\ NextSlot
    /\ UNCHANGED <<socket_fd, poll_fd, total_connections, pollin,
                   g_handler_value, sock, listening, backlog>>

(* recv() returns 0, or fails, also because the slot has no open socket.   *)
ServeGone(i) ==
    /\ AtSlot(i)
    /\ pollin[i]
    /\ \/ socket_fd[i] \notin Open
       \/ sock[socket_fd[i]] = "hungup" /\ unread[socket_fd[i]] = 0
    /\ CloseSlots({i})
    /\ total_connections' = total_connections - 1
    /\ NextSlot
    /\ UNCHANGED <<pollin, g_handler_value>>

(* No memory for the buffer: the socket is left for the next poll.         *)
ServeNoMemory(i) ==
    /\ Faults
    /\ AtSlot(i)
    /\ pollin[i]
    /\ NextSlot
    /\ UNCHANGED <<table, pollin, g_handler_value, kernel>>

-----------------------------------------------------------------------------
(* Mutated form of Expired: the test of socket_fd > 0 is left out.         *)
ExpiredOrFree == {i \in Slots : silent[i] > TIMEOUT_LIMIT}

(* Mutated form of Expired: >= in the place of >.                          *)
ExpiredEarly == {i \in Occupied : silent[i] >= TIMEOUT_LIMIT}

(* Mutated form of Expired: nobody is ever booted.                         *)
ExpiredNobody == {}

(* check_for_timeouts reads the time once for all slots.                   *)
Expired == {i \in Occupied : silent[i] > TIMEOUT_LIMIT}

(* Mutated form of CheckForTimeouts, and the code of src/network_utils.c:  *)
(* the booted clients stay counted.                                        *)
TimeoutsUncounted ==
    /\ pc = "timeouts"
    /\ CloseSlots(Expired)
    /\ pc' = "poll"
    /\ UNCHANGED <<total_connections, pollin, g_handler_value, idx>>

CheckForTimeouts ==
    /\ pc = "timeouts"
    /\ CloseSlots(Expired)
    /\ total_connections' = total_connections - Cardinality(Expired)
    /\ pc' = "poll"
    /\ UNCHANGED <<pollin, g_handler_value, idx>>

(* server() has returned; endless() calls cleanup_sockets, which closes    *)
(* every slot's descriptor and gives the table back: all slots are free.   *)
CleanupSockets ==
    /\ pc = "exit"
    /\ sock' = [f \in Fds |-> IF \E i \in Slots : socket_fd[i] = f
                              THEN "closed" ELSE sock[f]]
    /\ unread' = [f \in Fds |-> IF \E i \in Slots : socket_fd[i] = f
                                THEN 0 ELSE unread[f]]
    /\ socket_fd' = [i \in Slots |-> 0]
    /\ silent' = [i \in Slots |-> Never]
    /\ listening' = FALSE
    /\ pc' = "done"
    /\ UNCHANGED <<poll_fd, total_connections, pollin, g_handler_value, idx,
                   backlog>>

-----------------------------------------------------------------------------
(* The environment.  A signal that finds the thread inside poll() makes it *)
(* return -1; one that comes just before the call does not.                *)
Signal ==
    /\ pc \notin {"exit", "done"}
    /\ g_handler_value' = TRUE
    /\ \/ UNCHANGED <<pc, listening>>
       \/ pc = "poll" /\ pc' = "exit" /\ listening' = FALSE
    /\ UNCHANGED <<table, pollin, idx, sock, unread, backlog>>

Connect ==
    /\ listening
    /\ backlog < MaxBacklog
    /\ backlog' = backlog + 1
    /\ UNCHANGED <<table, pollin, g_handler_value, pc, idx, sock, unread, listening>>

Send(f) ==
    /\ sock[f] = "open"
    /\ unread[f] < MaxUnread
    /\ unread' = [unread EXCEPT ![f] = @ + 1]
    /\ UNCHANGED <<table, pollin, g_handler_value, pc, idx, sock, listening, backlog>>

(* A close leaves what was sent to be read; a reset takes it away.         *)
HangUp(f) ==
    /\ sock[f] = "open"
    /\ sock' = [sock EXCEPT ![f] = "hungup"]
    /\ \/ UNCHANGED unread
       \/ unread' = [unread EXCEPT ![f] = 0]
    /\ UNCHANGED <<table, pollin, g_handler_value, pc, idx, listening, backlog>>

(* A second passes; beyond the limit the exact age is not told apart.      *)
Tick ==
    /\ \E i \in Slots : silent[i] <= TIMEOUT_LIMIT
    /\ silent' = [i \in Slots |-> IF silent[i] <= TIMEOUT_LIMIT
                                  THEN silent[i] + 1 ELSE silent[i]]
    /\ UNCHANGED <<socket_fd, poll_fd, total_connections, pollin,
                   g_handler_value, pc, idx, kernel>>

Terminated == pc = "done" /\ UNCHANGED vars

-----------------------------------------------------------------------------
ServeSlot(i) == SkipSlot(i) \/ ServeData(i) \/ ServeGone(i) \/ ServeNoMemory(i)

ServerStep ==
    \/ Poll \/ PollFails
    \/ Accept \/ AcceptFails \/ AcceptNothing
    \/ ScanExit \/ ScanEnd
    \/ \E i \in Slots : ServeSlot(i)
    \/ CheckForTimeouts
    \/ CleanupSockets

Environment ==
    \/ Signal
    \/ Connect
    \/ \E f \in Fds : Send(f) \/ HangUp(f)
    \/ Tick

Next == ServerStep \/ Environment \/ Terminated

Spec == Init /\ [][Next]_vars

(* The thread runs and time passes; clients and SIGINT owe nothing.        *)
FairSpec == Spec /\ WF_vars(ServerStep) /\ WF_vars(Tick)

-----------------------------------------------------------------------------
(* Types of the variables.                                                 *)
TypeOK ==
    /\ socket_fd \in [Slots -> Fds \cup {0}]
    /\ silent \in [Slots -> 0..Never]
    /\ poll_fd \in [Slots -> Fds \cup {0}]
    /\ pollin \in [0..CONN_MAX - 1 -> BOOLEAN]
    /\ total_connections \in 0..CONN_MAX
    /\ g_handler_value \in BOOLEAN
    /\ pc \in {"poll", "accept", "scan", "timeouts", "exit", "done"}
    /\ idx \in 1..CONN_MAX
    /\ sock \in [Fds -> {"closed", "open", "hungup"}]
    /\ unread \in [Fds -> Nat]
    /\ listening \in BOOLEAN
    /\ backlog \in Nat

(* fds and client_sockets agree at every index: an occupied slot is polled *)
(* under its own open descriptor, no descriptor is in two slots, and the   *)
(* entry that reset_socket leaves behind in fds names a closed descriptor, *)
(* never one that was given out again to another client.                   *)
TablesAgree ==
    \A i \in Slots :
      /\ i \in Occupied => socket_fd[i] \in Open /\ poll_fd[i] = socket_fd[i]
      /\ i \notin Occupied => poll_fd[i] \notin Open
      /\ \A j \in Slots \ {i} : i \in Occupied => poll_fd[j] # socket_fd[i]

(* total_connections is the number of open connections.                    *)
CountExact == pc # "done" => total_connections = Cardinality(Open)

(* The loop calls recv only on a slot's open socket that has something to  *)
(* say: it neither fails on a freed slot nor blocks the whole server.      *)
NeverBlocksInRecv ==
    pc = "scan" /\ idx \in Slots /\ pollin[idx] => Readable(socket_fd[idx])

(* At most one accepted connection is without a slot: the one that came    *)
(* when all slots were taken, whose descriptor lies above all of theirs.   *)
(* What is open when the server has cleaned up is that one only.           *)
AtMostOneOrphan ==
    /\ Orphans \subseteq {ServerFd + CONN_MAX}
    /\ pc = "done" => ~listening /\ Open \subseteq Orphans

(* A connection whose client is there is closed only by its timeout or by  *)
(* the shutdown, never by what another client or slot does.                *)
NoWrongfulClose ==
    [][\A f \in Fds :
         sock[f] = "open" /\ sock'[f] = "closed" =>
             \/ pc = "exit"
             \/ \E i \in Slots : socket_fd[i] = f /\ silent[i] > TIMEOUT_LIMIT]_vars

(* "conditional triggered on new connection only + enough space to add new *)
(* connection": an accepted connection has a slot.  CONN_MAX connections   *)
(* are accepted, and there are CONN_MAX - 1 slots.                         *)
AcceptedHasSlot == Orphans = {}

(* A client that left frees its slot.                                      *)
HangUpReaped ==
    \A i \in Slots : i \in Occupied /\ sock[socket_fd[i]] = "hungup" ~> i \notin Occupied

(* A client in a slot sends or is booted.                                  *)
SilentIsBooted ==
    \A i \in Slots :
        i \in Occupied ~> i \notin Occupied \/ unread[socket_fd[i]] > 0

(* After SIGINT the server stops and cleans up.                            *)
ShutsDown == g_handler_value ~> pc = "done"
=============================================================================
