---------------------------- MODULE ServerProofs ----------------------------
(***************************************************************************)
(* Proofs about Server, for any number of slots, any time limit and any    *)
(* bounds on the environment.                                              *)
(***************************************************************************)
EXTENDS Server, TLAPS, FiniteSetTheorems

(* TypeOK without the range of total_connections, which needs CountExact.  *)
TypeShape ==
    /\ socket_fd \in [Slots -> Fds \cup {0}]
    /\ silent \in [Slots -> 0..Never]
    /\ poll_fd \in [Slots -> Fds \cup {0}]
    /\ pollin \in [0..CONN_MAX - 1 -> BOOLEAN]
    /\ total_connections \in Int
    /\ g_handler_value \in BOOLEAN
    /\ pc \in {"poll", "accept", "scan", "timeouts", "exit", "done"}
    /\ idx \in 1..CONN_MAX
    /\ sock \in [Fds -> {"closed", "open", "hungup"}]
    /\ unread \in [Fds -> Nat]
    /\ listening \in BOOLEAN
    /\ backlog \in Nat

(* The descriptor that only slot i ever holds, and the one above them all. *)
SlotFd(i) == ServerFd + i
TopFd     == ServerFd + CONN_MAX

(* Slot i holds SlotFd(i) or nothing, because accept gives the lowest      *)
(* closed descriptor and handle_new_connection takes the lowest free slot. *)
Pairing ==
    /\ \A i \in Slots :
          /\ socket_fd[i] \in {0, SlotFd(i)}
          /\ poll_fd[i] \in {0, SlotFd(i)}
          /\ i \in Occupied => poll_fd[i] = SlotFd(i)
          /\ i \in Occupied <=> SlotFd(i) \in Open
    /\ Open \subseteq ServerFd + 1..TopFd

(* What poll reported and the loop has not reached yet is still so.        *)
Reported(i) == i \in Occupied /\ Readable(SlotFd(i))
Snapshot ==
    /\ pc = "accept" => \A i \in Slots : pollin[i] => Reported(i)
    /\ pc = "scan" => \A i \in Slots : i >= idx /\ pollin[i] => Reported(i)
    /\ pc = "accept" /\ pollin[0] => backlog > 0
    /\ pc = "done" => ~listening /\ Occupied = {}

(* The inductive invariant.                                                *)
IInv == TypeShape /\ Pairing /\ Snapshot /\ CountExact

-----------------------------------------------------------------------------
(* Facts about the constants and the ranges built from them.               *)
LEMMA Ranges ==
    /\ CONN_MAX \in Nat /\ CONN_MAX >= 2 /\ ServerFd \in Nat /\ ServerFd > 0
    /\ Never \in Nat /\ Never > TIMEOUT_LIMIT /\ TIMEOUT_LIMIT \in Nat
    /\ \A i \in Slots : i \in Nat /\ i > 0 /\ i < CONN_MAX /\ i \in 0..CONN_MAX - 1
    /\ \A i \in Slots : SlotFd(i) \in Fds /\ SlotFd(i) # 0 /\ SlotFd(i) < TopFd
    /\ \A i, j \in Slots : SlotFd(i) = SlotFd(j) => i = j
    /\ TopFd \in Fds /\ 0 \notin Fds
    /\ \A f \in Fds : f \in Nat /\ (f < TopFd => \E i \in Slots : f = SlotFd(i))
<1> USE ConnMaxAssumption, ServerFdAssumption, TimeoutAssumption
    DEF Slots, Fds, SlotFd, TopFd, Never
<1>1. ASSUME NEW f \in Fds, f < TopFd PROVE \E i \in Slots : f = SlotFd(i)
  <2>1. f - ServerFd \in Slots /\ f = SlotFd(f - ServerFd)
      BY <1>1
  <2>2. QED
      BY <2>1
<1>2. QED
    BY <1>1

(* The open descriptors are finitely many.                                 *)
LEMMA OpenFinite ==
    /\ IsFiniteSet(Open)
    /\ Cardinality(Open) \in Nat
<1>1. ServerFd + 1 \in Int /\ ServerFd + CONN_MAX + 1 \in Int
    BY Ranges
<1>2. IsFiniteSet(Fds)
    BY <1>1, FS_Interval DEF Fds
<1>3. Open \in SUBSET Fds
    BY DEF Open
<1>4. IsFiniteSet(Open)
    BY <1>2, <1>3, FS_Subset
<1>5. QED
    BY <1>4, FS_CardinalityType

(* At the start nothing is open.                                           *)
LEMMA InitIInv == Init => IInv
<1> SUFFICES ASSUME Init PROVE IInv
    OBVIOUS
<1>1. TypeShape
  <2>1. /\ socket_fd \in [Slots -> Fds \cup {0}]
        /\ poll_fd \in [Slots -> Fds \cup {0}]
        /\ pollin \in [0..CONN_MAX - 1 -> BOOLEAN]
      BY DEF Init
  <2>2. silent \in [Slots -> 0..Never]
      BY Ranges DEF Init
  <2>3. /\ sock \in [Fds -> {"closed", "open", "hungup"}]
        /\ unread \in [Fds -> Nat]
      BY DEF Init
  <2>4. idx \in 1..CONN_MAX /\ total_connections \in Int
      BY Ranges DEF Init
  <2>5. QED
      BY <2>1, <2>2, <2>3, <2>4 DEF Init, TypeShape
<1>2. Open = {} /\ Occupied = {}
    BY DEF Init, Open, Occupied
<1>3. Pairing
    BY <1>2 DEF Init, Pairing
<1>4. Snapshot
    BY <1>2 DEF Init, Snapshot
<1>5. CountExact
    BY <1>2, FS_EmptySet DEF Init, CountExact
<1>6. QED
    BY <1>1, <1>3, <1>4, <1>5 DEF IInv

-----------------------------------------------------------------------------
(* Closing slots keeps the types.                                          *)
LEMMA CloseShape ==
    ASSUME TypeShape, NEW S, CloseSlots(S)
    PROVE  /\ socket_fd' \in [Slots -> Fds \cup {0}]
           /\ silent' \in [Slots -> 0..Never]
           /\ poll_fd' \in [Slots -> Fds \cup {0}]
           /\ sock' \in [Fds -> {"closed", "open", "hungup"}]
           /\ unread' \in [Fds -> Nat]
           /\ listening' \in BOOLEAN
           /\ backlog' \in Nat
<1>1. Never \in 0..Never
    BY Ranges
<1>2. QED
    BY <1>1 DEF CloseSlots, TypeShape

(* Every step keeps the types.                                             *)
LEMMA ShapeStep ==
    ASSUME TypeShape, Snapshot, [Next]_vars
    PROVE  TypeShape'
<1> USE DEF TypeShape, table, kernel
<1>0. 1 \in 1..CONN_MAX /\ Never \in 0..Never /\ 0 \in 0..Never
    BY Ranges
<1>1. CASE Poll
  <2>1. \A i \in 0..CONN_MAX - 1 :
            (IF i = 0 THEN backlog > 0 ELSE Readable(poll_fd[i])) \in BOOLEAN
    <3>1. (backlog > 0) \in BOOLEAN
        BY SMT
    <3>2. \A f : Readable(f) \in BOOLEAN
        BY Zenon DEF Readable
    <3>3. QED
        BY <3>1, <3>2, Zenon
  <2>2. pollin' \in [0..CONN_MAX - 1 -> BOOLEAN]
      BY <1>1, <2>1 DEF Poll
  <2>3. QED
      BY <1>1, <2>2 DEF Poll
<1>2. CASE PollFails
    BY <1>2 DEF PollFails
<1>3. CASE Accept
  <2>1. backlog' \in Nat
      BY <1>3 DEF Accept, MayAccept, Snapshot
  <2>2. PICK f \in Fds : /\ NextFd(f)
                         /\ sock' = [sock EXCEPT ![f] = "open"]
                         /\ unread' = [unread EXCEPT ![f] = 0]
                         /\ HandleNewConnection(f)
      BY <1>3 DEF Accept
  <2>3. /\ socket_fd' \in [Slots -> Fds \cup {0}]
        /\ silent' \in [Slots -> 0..Never]
        /\ poll_fd' \in [Slots -> Fds \cup {0}]
        /\ pollin' \in [0..CONN_MAX - 1 -> BOOLEAN]
    <3>1. CASE UNCHANGED <<socket_fd, silent, poll_fd, pollin>>
        BY <3>1
    <3>2. ASSUME NEW i \in Slots,
                 socket_fd' = [socket_fd EXCEPT ![i] = f],
                 silent' = [silent EXCEPT ![i] = 0],
                 poll_fd' = [poll_fd EXCEPT ![i] = f],
                 pollin' = [pollin EXCEPT ![i] = FALSE]
          PROVE  /\ socket_fd' \in [Slots -> Fds \cup {0}]
                 /\ silent' \in [Slots -> 0..Never]
                 /\ poll_fd' \in [Slots -> Fds \cup {0}]
                 /\ pollin' \in [0..CONN_MAX - 1 -> BOOLEAN]
        BY <1>0, <3>2
    <3>3. QED
        BY <2>2, <3>1, <3>2 DEF HandleNewConnection
  <2>4. QED
      BY <1>0, <1>3, <2>1, <2>2, <2>3 DEF Accept
<1>4. CASE AcceptFails
    BY <1>4 DEF AcceptFails
<1>5. CASE AcceptNothing
    BY <1>0, <1>5 DEF AcceptNothing
<1>6. CASE ScanExit
    BY <1>6 DEF ScanExit
<1>7. CASE ScanEnd
    BY <1>7 DEF ScanEnd
<1>8. ASSUME NEW i \in Slots, AtSlot(i), NextSlot PROVE idx' \in 1..CONN_MAX
    BY <1>8, Ranges DEF AtSlot, NextSlot
<1>9. ASSUME NEW i \in Slots, SkipSlot(i) PROVE TypeShape'
    BY <1>8, <1>9 DEF SkipSlot, NextSlot
<1>10. ASSUME NEW i \in Slots, ServeData(i) PROVE TypeShape'
  <2>1. PICK n \in 1..unread[socket_fd[i]] :
            unread' = [unread EXCEPT ![socket_fd[i]] = @ - n]
      BY <1>10 DEF ServeData
  <2>2. socket_fd[i] \in Fds
      BY <1>10 DEF ServeData, Open
  <2>3. unread[socket_fd[i]] - n \in Nat
      BY <2>1, <2>2
  <2>4. unread' \in [Fds -> Nat]
      BY <2>1, <2>2, <2>3
  <2>5. silent' \in [Slots -> 0..Never]
      BY <1>0, <1>10 DEF ServeData
  <2>6. QED
      BY <1>8, <1>10, <2>4, <2>5 DEF ServeData, NextSlot
<1>11. ASSUME NEW i \in Slots, ServeGone(i) PROVE TypeShape'
    BY <1>8, <1>11, CloseShape DEF ServeGone, NextSlot
<1>12. ASSUME NEW i \in Slots, ServeNoMemory(i) PROVE TypeShape'
    BY <1>8, <1>12 DEF ServeNoMemory, NextSlot
<1>13. CASE CheckForTimeouts
  <2>1. Cardinality(Expired) \in Int
    <3>1. Expired \in SUBSET Slots
        BY DEF Expired, Occupied
    <3>2. IsFiniteSet(Slots)
        BY Ranges, FS_Interval DEF Slots
    <3>3. QED
        BY <3>1, <3>2, FS_Subset, FS_CardinalityType
  <2>2. QED
      BY <1>13, <2>1, CloseShape DEF CheckForTimeouts
<1>14. CASE CleanupSockets
    BY <1>0, <1>14 DEF CleanupSockets
<1>15. CASE Signal
    BY <1>15 DEF Signal
<1>16. CASE Connect
    BY <1>16 DEF Connect
<1>17. ASSUME NEW f \in Fds, Send(f) PROVE TypeShape'
    BY <1>17 DEF Send
<1>18. ASSUME NEW f \in Fds, HangUp(f) PROVE TypeShape'
  <2>1. sock' \in [Fds -> {"closed", "open", "hungup"}]
      BY <1>18 DEF HangUp
  <2>2. unread' \in [Fds -> Nat]
      BY <1>18 DEF HangUp
  <2>3. QED
      BY <1>18, <2>1, <2>2 DEF HangUp
<1>19. CASE Tick
  <2>1. \A i \in Slots : silent[i] <= TIMEOUT_LIMIT => silent[i] + 1 \in 0..Never
      BY Ranges DEF Never
  <2>2. silent' \in [Slots -> 0..Never]
      BY <1>19, <2>1 DEF Tick
  <2>3. QED
      BY <1>19, <2>2 DEF Tick
<1>20. CASE UNCHANGED vars
    BY <1>20 DEF vars
<1>21. QED
    BY <1>1, <1>2, <1>3, <1>4, <1>5, <1>6, <1>7, <1>9, <1>10, <1>11, <1>12,
       <1>13, <1>14, <1>15, <1>16, <1>17, <1>18, <1>19, <1>20
    DEF Next, ServerStep, ServeSlot, Environment, Terminated

-----------------------------------------------------------------------------
(* Closing occupied slots closes their descriptors and no other.           *)
LEMMA CloseEffect ==
    ASSUME TypeShape, Pairing, NEW S \in SUBSET Occupied, CloseSlots(S)
    PROVE  /\ Pairing'
           /\ Open' = Open \ {SlotFd(i) : i \in S}
           /\ Occupied' = Occupied \ S
           /\ \A i \in Slots \ S : /\ sock'[SlotFd(i)] = sock[SlotFd(i)]
                                   /\ unread'[SlotFd(i)] = unread[SlotFd(i)]
<1> DEFINE gone == {SlotFd(i) : i \in S}
<1>1. S \subseteq Slots /\ \A i \in S : socket_fd[i] = SlotFd(i)
    BY DEF Occupied, Pairing
<1>2. {socket_fd[i] : i \in S} = gone
    BY <1>1
<1>3. sock' = [f \in Fds |-> IF f \in gone THEN "closed" ELSE sock[f]]
    BY <1>2 DEF CloseSlots
<1>4. unread' = [f \in Fds |-> IF f \in gone THEN 0 ELSE unread[f]]
    BY <1>2 DEF CloseSlots
<1>5. socket_fd' = [i \in Slots |-> IF i \in S THEN 0 ELSE socket_fd[i]]
    BY DEF CloseSlots
<1>6. Open' = Open \ gone
    BY <1>3 DEF Open
<1>7. Occupied' = Occupied \ S
    BY <1>5 DEF Occupied
<1>8. \A i \in Slots : SlotFd(i) \in gone <=> i \in S
    BY <1>1, Ranges
<1>9. \A i \in Slots \ S : /\ sock'[SlotFd(i)] = sock[SlotFd(i)]
                           /\ unread'[SlotFd(i)] = unread[SlotFd(i)]
    BY <1>3, <1>4, <1>8, Ranges
<1>10. poll_fd' = poll_fd
    BY DEF CloseSlots
<1>11. \A i \in Slots : socket_fd'[i] \in {0, SlotFd(i)}
    BY <1>5 DEF Pairing
<1>12. \A i \in Slots : i \in Occupied' <=> SlotFd(i) \in Open'
    BY <1>6, <1>7, <1>8 DEF Pairing
<1>13. Pairing'
    BY <1>6, <1>7, <1>10, <1>11, <1>12 DEF Pairing
<1>14. QED
    BY <1>6, <1>7, <1>9, <1>13

(* The descriptor accept returns belongs to the first free slot, or is the *)
(* one above all slots when there is none and the count lets it through.   *)
LEMMA AcceptedFd ==
    ASSUME TypeShape, Pairing, CountExact, pc = "accept", MayAccept,
           NEW f \in Fds, NextFd(f)
    PROVE  /\ \A i \in Slots : FirstFree(i) => f = SlotFd(i)
           /\ Occupied = Slots => f = TopFd
<1>1. f \notin Open /\ \A e \in Fds : e < f => e \in Open
    BY DEF NextFd
<1>2. f \in Nat /\ TopFd \in Nat /\ \A i \in Slots : SlotFd(i) \in Nat
    BY Ranges
<1>3. ASSUME NEW i \in Slots, FirstFree(i) PROVE f = SlotFd(i)
  <2>1. i \notin Occupied /\ \A j \in Slots : j < i => j \in Occupied
      BY <1>3 DEF FirstFree
  <2>2. SlotFd(i) \in Fds \ Open
      BY <2>1, Ranges DEF Pairing
  <2>3. ~(SlotFd(i) < f)
      BY <1>1, <2>2
  <2>4. ASSUME f < SlotFd(i) PROVE FALSE
    <3>1. f < TopFd
        BY <1>2, <2>4, Ranges
    <3>2. PICK j \in Slots : f = SlotFd(j)
        BY <3>1, Ranges
    <3>3. j < i
        BY <2>4, <3>2, Ranges DEF SlotFd
    <3>4. f \in Open
        BY <2>1, <3>2, <3>3 DEF Pairing
    <3>5. QED
        BY <1>1, <3>4
  <2>5. QED
      BY <1>2, <2>3, <2>4
<1>4. ASSUME Occupied = Slots PROVE f = TopFd
  <2>1. \A i \in Slots : SlotFd(i) \in Open
      BY <1>4 DEF Pairing
  <2>2. ASSUME TopFd \in Open PROVE FALSE
    <3>1. \A e \in ServerFd + 1..TopFd : e \in Open
      <4>1. ASSUME NEW e \in ServerFd + 1..TopFd, e # TopFd PROVE e \in Open
        <5>1. e \in Fds /\ e < TopFd
            BY <4>1, Ranges DEF Fds, TopFd
        <5>2. QED
            BY <2>1, <5>1, Ranges
      <4>2. QED
          BY <2>2, <4>1
    <3>2. Open = ServerFd + 1..TopFd
        BY <3>1 DEF Pairing
    <3>3. Cardinality(ServerFd + 1..TopFd) = CONN_MAX
      <4>1. ServerFd + 1 \in Int /\ TopFd \in Int /\ ~(ServerFd + 1 > TopFd)
            /\ TopFd - (ServerFd + 1) + 1 = CONN_MAX
          BY Ranges DEF TopFd
      <4>2. QED
          BY <4>1, FS_Interval
    <3>4. total_connections = CONN_MAX
        BY <3>2, <3>3 DEF CountExact
    <3>5. QED
        BY <3>4, Ranges DEF MayAccept
  <2>3. ~(TopFd < f)
      BY <1>1, <2>2, Ranges
  <2>4. ~(f < TopFd)
    <3>1. ASSUME f < TopFd PROVE FALSE
        BY <1>1, <2>1, <3>1, Ranges
    <3>2. QED
        BY <3>1
  <2>5. QED
      BY <1>2, <2>3, <2>4
<1>5. QED
    BY <1>3, <1>4

(* What an accepted connection changes.                                    *)
LEMMA AcceptEffect ==
    ASSUME TypeShape, Pairing, CountExact, Accept
    PROVE  /\ Pairing'
           /\ Cardinality(Open') = Cardinality(Open) + 1
           /\ \A i \in Occupied : Readable(SlotFd(i)) =>
                 i \in Occupied' /\ Readable(SlotFd(i))'
           /\ \A i \in Slots : pollin'[i] => pollin[i]
<1>1. pc = "accept" /\ MayAccept
    BY DEF Accept
<1>2. PICK f \in Fds : /\ NextFd(f)
                       /\ sock' = [sock EXCEPT ![f] = "open"]
                       /\ unread' = [unread EXCEPT ![f] = 0]
                       /\ HandleNewConnection(f)
    BY DEF Accept
<1>3. f \notin Open
    BY <1>2 DEF NextFd
<1>4. Open' = Open \cup {f}
    BY <1>2 DEF Open, TypeShape
<1>5. Cardinality(Open') = Cardinality(Open) + 1
    BY <1>3, <1>4, OpenFinite, FS_AddElement
<1>6. \A e \in Open : Readable(e) => Readable(e)'
    BY <1>2, <1>3, <1>4 DEF Readable, TypeShape, Open
<1>7. f \in ServerFd + 1..TopFd /\ f # 0
    BY <1>1, <1>2, AcceptedFd, Ranges DEF HandleNewConnection, SlotFd, TopFd, Fds
<1>8. ASSUME NEW i \in Slots, FirstFree(i),
             socket_fd' = [socket_fd EXCEPT ![i] = f],
             poll_fd' = [poll_fd EXCEPT ![i] = f],
             pollin' = [pollin EXCEPT ![i] = FALSE]
      PROVE  /\ Pairing'
             /\ Occupied \subseteq Occupied'
             /\ \A j \in Slots : pollin'[j] => pollin[j]
  <2>1. f = SlotFd(i)
      BY <1>1, <1>2, <1>8, AcceptedFd
  <2>2. Occupied' = Occupied \cup {i}
      BY <1>7, <1>8 DEF Occupied, TypeShape
  <2>3. \A j \in Slots : SlotFd(j) = f <=> j = i
      BY <2>1, Ranges
  <2>4. \A j \in Slots : j \in Occupied' <=> SlotFd(j) \in Open'
      BY <1>4, <2>2, <2>3 DEF Pairing
  <2>5. \A j \in Slots : /\ socket_fd'[j] \in {0, SlotFd(j)}
                         /\ poll_fd'[j] \in {0, SlotFd(j)}
                         /\ j \in Occupied' => poll_fd'[j] = SlotFd(j)
      BY <1>8, <2>1, <2>2 DEF Pairing, TypeShape
  <2>6. Open' \subseteq ServerFd + 1..TopFd
      BY <1>4, <1>7 DEF Pairing
  <2>7. \A j \in Slots : pollin'[j] => pollin[j]
      BY <1>8, Ranges DEF TypeShape
  <2>8. QED
      BY <2>2, <2>4, <2>5, <2>6, <2>7 DEF Pairing
<1>9. ASSUME Occupied = Slots, UNCHANGED <<socket_fd, silent, poll_fd, pollin>>
      PROVE  /\ Pairing'
             /\ Occupied \subseteq Occupied'
             /\ \A j \in Slots : pollin'[j] => pollin[j]
  <2>1. f = TopFd
      BY <1>1, <1>2, <1>9, AcceptedFd
  <2>2. Occupied' = Occupied
      BY <1>9 DEF Occupied
  <2>3. \A j \in Slots : j \in Occupied' <=> SlotFd(j) \in Open'
      BY <1>4, <1>9, <2>2 DEF Pairing
  <2>4. Open' \subseteq ServerFd + 1..TopFd
      BY <1>4, <1>7 DEF Pairing
  <2>5. QED
      BY <1>9, <2>2, <2>3, <2>4 DEF Pairing
<1>10. /\ Pairing'
       /\ Occupied \subseteq Occupied'
       /\ \A j \in Slots : pollin'[j] => pollin[j]
    BY <1>2, <1>8, <1>9 DEF HandleNewConnection
<1>11. \A i \in Occupied : SlotFd(i) \in Open
    BY DEF Pairing, Occupied
<1>12. QED
    BY <1>5, <1>6, <1>10, <1>11

-----------------------------------------------------------------------------
(* Steps that open and close nothing keep pairing and count.               *)
LEMMA QuietStep ==
    ASSUME Pairing, UNCHANGED <<socket_fd, poll_fd, sock>>
    PROVE  Pairing' /\ Open' = Open /\ Occupied' = Occupied
<1>1. Open' = Open /\ Occupied' = Occupied
    BY DEF Open, Occupied
<1>2. QED
    BY <1>1 DEF Pairing

(* Every step keeps pairing, snapshot and count.                           *)
LEMMA InvStep ==
    ASSUME IInv, [Next]_vars
    PROVE  Pairing' /\ Snapshot' /\ CountExact'
<1> USE DEF table, kernel
<1>0. TypeShape /\ Pairing /\ Snapshot /\ CountExact
    BY DEF IInv
<1>1. CASE Poll
  <2>1. Pairing' /\ Open' = Open /\ Occupied' = Occupied
      BY <1>0, <1>1, QuietStep DEF Poll
  <2>2. \A i \in Slots : pollin'[i] = Readable(poll_fd[i])
      BY <1>1, Ranges DEF Poll
  <2>3. \A i \in Slots : Readable(poll_fd[i]) => Reported(i)
    <3>1. \A i \in Slots : poll_fd[i] \in Open => poll_fd[i] = SlotFd(i)
        BY <1>0, Ranges DEF Pairing, Open
    <3>2. QED
        BY <1>0, <3>1 DEF Readable, Reported, Pairing
  <2>4. \A i \in Slots : Reported(i)' <=> Reported(i)
      BY <1>1, <2>1 DEF Poll, Reported, Readable
  <2>5. pollin'[0] => backlog' > 0
    <3>1. 0 \in 0..CONN_MAX - 1
        BY Ranges
    <3>2. QED
        BY <1>1, <3>1 DEF Poll
  <2>6. pc' = "accept" /\ total_connections' = total_connections
      BY <1>1 DEF Poll
  <2>7. QED
      BY <1>0, <1>1, <2>1, <2>2, <2>3, <2>4, <2>5, <2>6
      DEF Poll, Snapshot, CountExact
<1>2. CASE Accept
  <2>1. /\ Pairing'
        /\ Cardinality(Open') = Cardinality(Open) + 1
        /\ \A i \in Occupied : Readable(SlotFd(i)) =>
              i \in Occupied' /\ Readable(SlotFd(i))'
        /\ \A i \in Slots : pollin'[i] => pollin[i]
      BY <1>0, <1>2, AcceptEffect
  <2>2. pc = "accept" /\ pc' = "scan" /\ total_connections' = total_connections + 1
      BY <1>2 DEF Accept
  <2>3. \A i \in Slots : pollin'[i] => Reported(i)'
      BY <1>0, <2>1, <2>2 DEF Snapshot, Reported
  <2>4. QED
      BY <1>0, <2>1, <2>2, <2>3 DEF Snapshot, CountExact
<1>3. CASE AcceptNothing
  <2>1. Pairing' /\ Open' = Open /\ Occupied' = Occupied
      BY <1>0, <1>3, QuietStep DEF AcceptNothing
  <2>2. \A i \in Slots : Reported(i)' <=> Reported(i)
      BY <1>3, <2>1 DEF AcceptNothing, Reported, Readable
  <2>3. QED
      BY <1>0, <1>3, <2>1, <2>2 DEF AcceptNothing, Snapshot, CountExact
<1>4. CASE PollFails \/ AcceptFails \/ ScanExit \/ ScanEnd
  <2>1. UNCHANGED <<socket_fd, poll_fd, sock, total_connections>>
        /\ pc' \in {"exit", "timeouts"} /\ pc # "done"
      BY <1>4 DEF PollFails, AcceptFails, ScanExit, ScanEnd
  <2>2. Pairing' /\ Open' = Open /\ Occupied' = Occupied
      BY <1>0, <2>1, QuietStep
  <2>3. QED
      BY <1>0, <2>1, <2>2 DEF Snapshot, CountExact
<1>5. ASSUME NEW i \in Slots, SkipSlot(i) \/ ServeNoMemory(i)
      PROVE  Pairing' /\ Snapshot' /\ CountExact'
  <2>1. Pairing' /\ Open' = Open /\ Occupied' = Occupied
      BY <1>0, <1>5, QuietStep DEF SkipSlot, ServeNoMemory
  <2>2. \A j \in Slots : Reported(j)' <=> Reported(j)
      BY <1>5, <2>1 DEF SkipSlot, ServeNoMemory, Reported, Readable
  <2>3. /\ pc = "scan" /\ pc' = "scan" /\ idx = i /\ idx' = i + 1
        /\ UNCHANGED <<pollin, total_connections>>
      BY <1>5 DEF SkipSlot, ServeNoMemory, AtSlot, NextSlot
  <2>4. \A j \in Slots : j >= idx' => j >= idx
      BY <2>3, Ranges
  <2>5. QED
      BY <1>0, <2>1, <2>2, <2>3, <2>4 DEF Snapshot, CountExact
<1>6. ASSUME NEW i \in Slots, ServeData(i)
      PROVE  Pairing' /\ Snapshot' /\ CountExact'
  <2>1. Pairing' /\ Open' = Open /\ Occupied' = Occupied
      BY <1>0, <1>6, QuietStep DEF ServeData
  <2>2. /\ pc = "scan" /\ pc' = "scan" /\ idx = i /\ idx' = i + 1
        /\ UNCHANGED <<pollin, total_connections>>
      BY <1>6 DEF ServeData, AtSlot, NextSlot
  <2>3. socket_fd[i] = SlotFd(i)
      BY <1>0, <1>6, Ranges DEF ServeData, Pairing, Open
  <2>4. \A j \in Slots : j >= idx' => j >= idx /\ SlotFd(j) # SlotFd(i)
      BY <2>2, Ranges
  <2>5. \A j \in Slots : j >= idx' => unread'[SlotFd(j)] = unread[SlotFd(j)]
      BY <1>0, <1>6, <2>3, <2>4, Ranges DEF ServeData, TypeShape
  <2>6. \A j \in Slots : j >= idx' => (Reported(j)' <=> Reported(j))
      BY <1>6, <2>1, <2>5 DEF ServeData, Reported, Readable
  <2>7. QED
      BY <1>0, <2>1, <2>2, <2>4, <2>6 DEF Snapshot, CountExact
<1>7. ASSUME NEW i \in Slots, ServeGone(i)
      PROVE  Pairing' /\ Snapshot' /\ CountExact'
  <2>1. /\ pc = "scan" /\ pc' = "scan" /\ idx = i /\ idx' = i + 1
        /\ pollin[i] /\ pollin' = pollin
        /\ total_connections' = total_connections - 1
      BY <1>7 DEF ServeGone, AtSlot, NextSlot
  <2>2. i \in Occupied /\ CloseSlots({i})
      BY <1>0, <1>7, <2>1, Ranges DEF ServeGone, Snapshot, Reported
  <2>3. /\ Pairing'
        /\ Open' = Open \ {SlotFd(j) : j \in {i}}
        /\ Occupied' = Occupied \ {i}
        /\ \A j \in Slots \ {i} : /\ sock'[SlotFd(j)] = sock[SlotFd(j)]
                                  /\ unread'[SlotFd(j)] = unread[SlotFd(j)]
      BY <1>0, <2>2, CloseEffect
  <2>4. SlotFd(i) \in Open
      BY <1>0, <2>2 DEF Pairing
  <2>5. Cardinality(Open') = Cardinality(Open) - 1
    <3>1. Open' = Open \ {SlotFd(i)}
        BY <2>3
    <3>2. QED
        BY <2>4, <3>1, OpenFinite, FS_RemoveElement
  <2>6. \A j \in Slots : j >= idx' => j >= idx /\ j # i
      BY <2>1, Ranges
  <2>7. \A j \in Slots : j >= idx' /\ Reported(j) => Reported(j)'
    <3>1. \A j \in Slots \ {i} : j \in Occupied => SlotFd(j) \in Open'
        BY <1>0, <2>3 DEF Pairing
    <3>2. QED
        BY <2>3, <2>6, <3>1 DEF Reported, Readable
  <2>8. QED
      BY <1>0, <2>1, <2>3, <2>5, <2>6, <2>7 DEF Snapshot, CountExact
<1>8. CASE CheckForTimeouts
  <2>1. Expired \in SUBSET Occupied /\ CloseSlots(Expired)
      BY <1>8 DEF CheckForTimeouts, Expired
  <2>2. /\ Pairing'
        /\ Open' = Open \ {SlotFd(j) : j \in Expired}
      BY <1>0, <2>1, CloseEffect
  <2>3. Cardinality({SlotFd(j) : j \in Expired}) = Cardinality(Expired)
        /\ Cardinality(Expired) \in Nat
    <3>1. Expired \in SUBSET Slots
        BY DEF Expired, Occupied
    <3>2. IsFiniteSet(Expired) /\ Cardinality(Expired) \in Nat
      <4>1. 1 \in Int /\ CONN_MAX - 1 \in Int
          BY ConnMaxAssumption
      <4>2. IsFiniteSet(Slots)
          BY <4>1, FS_Interval DEF Slots
      <4>3. QED
          BY <3>1, <4>2, FS_Subset, FS_CardinalityType
    <3>3. DEFINE g == [j \in Expired |-> SlotFd(j)]
                 T == {SlotFd(j) : j \in Expired}
    <3>4. g \in Bijection(Expired, T)
        BY <3>1, Ranges DEF Bijection, Injection, Surjection, IsInjective
    <3>5. ExistsBijection(Expired, T)
        BY <3>4 DEF ExistsBijection
    <3>6. QED
        BY <3>2, <3>5, FS_Bijection
  <2>4. Open \cap {SlotFd(j) : j \in Expired} = {SlotFd(j) : j \in Expired}
      BY <1>0, <2>1 DEF Pairing, Occupied
  <2>5. Cardinality(Open') = Cardinality(Open) - Cardinality(Expired)
    <3>1. DEFINE T == {SlotFd(j) : j \in Expired}
    <3>2. /\ Open' = Open \ T
          /\ Open \cap T = T
          /\ Cardinality(T) = Cardinality(Expired)
        BY <2>2, <2>3, <2>4
    <3> HIDE DEF T
    <3>3. Cardinality(Open \ T) = Cardinality(Open) - Cardinality(Open \cap T)
        BY OpenFinite, FS_Difference
    <3>4. QED
        BY <3>2, <3>3
  <2>6. /\ pc = "timeouts" /\ pc' = "poll"
        /\ total_connections' = total_connections - Cardinality(Expired)
      BY <1>8 DEF CheckForTimeouts
  <2>7. QED
      BY <1>0, <2>2, <2>5, <2>6 DEF Snapshot, CountExact
<1>9. CASE CleanupSockets
  <2>1. Occupied' = {} /\ ~listening' /\ pc' = "done" /\ poll_fd' = poll_fd
      BY <1>9 DEF CleanupSockets, Occupied
  <2>2. \A f \in Fds : f \in Open' <=> f \in Open /\ \A i \in Slots : socket_fd[i] # f
      BY <1>9 DEF CleanupSockets, Open
  <2>3. \A i \in Slots : SlotFd(i) \notin Open'
    <3>1. ASSUME NEW i \in Slots, SlotFd(i) \in Open' PROVE FALSE
      <4>1. i \in Occupied /\ socket_fd[i] # SlotFd(i)
          BY <1>0, <2>2, <3>1, Ranges DEF Pairing
      <4>2. QED
          BY <1>0, <4>1 DEF Pairing, Occupied
    <3>2. QED
        BY <3>1
  <2>4. Open' \subseteq Open
      BY <2>2 DEF Open
  <2>5. Pairing'
    <3>1. \A i \in Slots : socket_fd'[i] = 0
        BY <1>9 DEF CleanupSockets
    <3>2. QED
        BY <1>0, <2>1, <2>3, <2>4, <3>1 DEF Pairing
  <2>6. QED
      BY <2>1, <2>5 DEF Snapshot, CountExact
<1>10. CASE Signal
  <2>1. Pairing' /\ Open' = Open /\ Occupied' = Occupied
      BY <1>0, <1>10, QuietStep DEF Signal
  <2>2. \A i \in Slots : Reported(i)' <=> Reported(i)
      BY <1>10, <2>1 DEF Signal, Reported, Readable
  <2>3. QED
      BY <1>0, <1>10, <2>1, <2>2 DEF Signal, Snapshot, CountExact
<1>11. CASE Connect
  <2>1. Pairing' /\ Open' = Open /\ Occupied' = Occupied
      BY <1>0, <1>11, QuietStep DEF Connect
  <2>2. \A i \in Slots : Reported(i)' <=> Reported(i)
      BY <1>11, <2>1 DEF Connect, Reported, Readable
  <2>3. QED
      BY <1>0, <1>11, <2>1, <2>2 DEF Connect, Snapshot, CountExact, TypeShape
<1>12. ASSUME NEW f \in Fds, Send(f) PROVE Pairing' /\ Snapshot' /\ CountExact'
  <2>1. Pairing' /\ Open' = Open /\ Occupied' = Occupied
      BY <1>0, <1>12, QuietStep DEF Send
  <2>2. \A e \in Fds : unread[e] > 0 => unread'[e] > 0
      BY <1>0, <1>12 DEF Send, TypeShape
  <2>3. \A i \in Slots : Reported(i) => Reported(i)'
      BY <1>12, <2>1, <2>2, Ranges DEF Send, Reported, Readable
  <2>4. QED
      BY <1>0, <1>12, <2>1, <2>3 DEF Send, Snapshot, CountExact
<1>13. ASSUME NEW f \in Fds, HangUp(f) PROVE Pairing' /\ Snapshot' /\ CountExact'
  <2>1. Open' = Open
      BY <1>0, <1>13 DEF HangUp, Open, TypeShape
  <2>2. Pairing' /\ Occupied' = Occupied
      BY <1>0, <1>13, <2>1 DEF HangUp, Pairing, Occupied
  <2>3. \A e \in Fds : Readable(e) => Readable(e)'
      BY <1>0, <1>13, <2>1 DEF HangUp, Readable, TypeShape
  <2>4. \A i \in Slots : Reported(i) => Reported(i)'
      BY <2>2, <2>3, Ranges DEF Reported
  <2>5. QED
      BY <1>0, <1>13, <2>1, <2>2, <2>4 DEF HangUp, Snapshot, CountExact
<1>14. CASE Tick \/ UNCHANGED vars
  <2>1. UNCHANGED <<socket_fd, poll_fd, sock, unread, pollin, pc, idx,
                    backlog, listening, total_connections>>
      BY <1>14 DEF Tick, vars
  <2>2. Pairing' /\ Open' = Open /\ Occupied' = Occupied
      BY <1>0, <2>1, QuietStep
  <2>3. \A i \in Slots : Reported(i)' <=> Reported(i)
      BY <2>1, <2>2 DEF Reported, Readable
  <2>4. QED
      BY <1>0, <2>1, <2>2, <2>3 DEF Snapshot, CountExact
<1>15. QED
    BY <1>1, <1>2, <1>3, <1>4, <1>5, <1>6, <1>7, <1>8, <1>9, <1>10, <1>11,
       <1>12, <1>13, <1>14
    DEF Next, ServerStep, ServeSlot, Environment, Terminated


-----------------------------------------------------------------------------
(* The inductive invariant holds in every reachable state.                 *)
THEOREM Invariance == Spec => []IInv
<1>1. Init => IInv
    BY InitIInv
<1>2. IInv /\ [Next]_vars => IInv'
    BY ShapeStep, InvStep DEF IInv
<1>3. QED
    BY <1>1, <1>2, PTL DEF Spec

(* There are at most CONN_MAX descriptors up to TopFd.                     *)
LEMMA AtMostConnMax ==
    ASSUME NEW O, O \subseteq ServerFd + 1..TopFd
    PROVE  Cardinality(O) \in 0..CONN_MAX
<1>1. /\ ServerFd + 1 \in Int /\ TopFd \in Int
      /\ TopFd - (ServerFd + 1) + 1 = CONN_MAX
      /\ ~(ServerFd + 1 > TopFd)
    BY Ranges DEF TopFd
<1>2. /\ IsFiniteSet(ServerFd + 1..TopFd)
      /\ Cardinality(ServerFd + 1..TopFd) = CONN_MAX
    BY <1>1, FS_Interval
<1>3. /\ IsFiniteSet(O)
      /\ Cardinality(O) <= CONN_MAX
    BY <1>2, FS_Subset
<1>4. Cardinality(O) \in Nat
    BY <1>3, FS_CardinalityType
<1>5. QED
    BY <1>3, <1>4, Ranges

(* The range of total_connections, also after the sockets are cleaned up.  *)
CountInRange == total_connections \in 0..CONN_MAX

(* Cleaning up leaves total_connections as it was.                         *)
LEMMA CountStep ==
    ASSUME IInv, IInv', CountInRange, [Next]_vars
    PROVE  CountInRange'
<1> USE DEF CountInRange
<1>1. CASE pc' # "done"
  <2>1. total_connections' = Cardinality(Open')
      BY <1>1 DEF IInv, CountExact
  <2>2. Open' \subseteq ServerFd + 1..TopFd
      BY DEF IInv, Pairing
  <2>3. QED
      BY <2>1, <2>2, AtMostConnMax
<1>2. CASE pc' = "done"
  <2>1. UNCHANGED total_connections
      BY <1>2 DEF Next, ServerStep, ServeSlot, Environment, Terminated, Poll,
         PollFails, Accept, AcceptFails, AcceptNothing, ScanExit, ScanEnd,
         AtSlot, NextSlot, SkipSlot, ServeData, ServeGone, ServeNoMemory,
         CheckForTimeouts, CleanupSockets, Signal, Connect, Send, HangUp, Tick,
         vars, table
  <2>2. QED
      BY <2>1
<1>3. QED
    BY <1>1, <1>2

(* Every variable of the server keeps its type; the counter neither wraps  *)
(* nor exceeds CONN_MAX.                                                   *)
THEOREM TypeCorrect == Spec => []TypeOK
<1>1. Init => CountInRange
    BY Ranges DEF Init, CountInRange
<1>2. IInv /\ IInv' /\ CountInRange /\ [Next]_vars => CountInRange'
    BY CountStep
<1>3. IInv /\ CountInRange => TypeOK
    BY DEF CountInRange, IInv, TypeShape, TypeOK
<1>4. QED
    BY <1>1, <1>2, <1>3, Invariance, PTL DEF Spec

(* fds and client_sockets agree at every index, for every CONN_MAX.        *)
THEOREM TablesCorrect == Spec => []TablesAgree
<1>1. IInv => TablesAgree
  <2> SUFFICES ASSUME IInv PROVE TablesAgree
      OBVIOUS
  <2> USE DEF IInv, Pairing
  <2>1. ASSUME NEW i \in Slots, i \in Occupied
        PROVE  socket_fd[i] = SlotFd(i) /\ poll_fd[i] = SlotFd(i) /\ SlotFd(i) \in Open
      BY <2>1 DEF Occupied
  <2>2. ASSUME NEW i \in Slots, i \notin Occupied
        PROVE  poll_fd[i] \notin Open
    <3>1. 0 \notin Open
        BY Ranges DEF Open
    <3>2. QED
        BY <2>2, <3>1
  <2>3. ASSUME NEW i \in Slots, i \in Occupied, NEW j \in Slots \ {i}
        PROVE  poll_fd[j] # socket_fd[i]
      BY <2>1, <2>3, Ranges
  <2>4. QED
      BY <2>1, <2>2, <2>3 DEF TablesAgree
<1>2. QED
    BY <1>1, Invariance, PTL

(* total_connections is the number of open connections.                    *)
THEOREM CountCorrect == Spec => []CountExact
<1>1. IInv => CountExact
    BY DEF IInv
<1>2. QED
    BY <1>1, Invariance, PTL

(* recv is called only on an open socket that has something to say.        *)
THEOREM RecvCorrect == Spec => []NeverBlocksInRecv
<1>1. IInv => NeverBlocksInRecv
  <2> SUFFICES ASSUME IInv, pc = "scan", idx \in Slots, pollin[idx]
               PROVE  Readable(socket_fd[idx])
      BY DEF NeverBlocksInRecv
  <2>1. Reported(idx)
      BY Ranges DEF IInv, Snapshot
  <2>2. socket_fd[idx] = SlotFd(idx)
      BY <2>1 DEF Reported, IInv, Pairing, Occupied
  <2>3. QED
      BY <2>1, <2>2 DEF Reported
<1>2. QED
    BY <1>1, Invariance, PTL

(* At most one connection is ever open without a slot.                     *)
THEOREM OrphanCorrect == Spec => []AtMostOneOrphan
<1>1. IInv => AtMostOneOrphan
  <2> SUFFICES ASSUME IInv PROVE AtMostOneOrphan
      OBVIOUS
  <2>1. ASSUME NEW f \in Orphans PROVE f = TopFd
    <3>1. f \in Fds /\ f \in Open /\ f <= TopFd /\ f \in Nat
        BY Ranges DEF Orphans, Open, IInv, Pairing, TopFd
    <3>2. ASSUME NEW i \in Slots, f = SlotFd(i) PROVE FALSE
      <4>1. i \in Occupied
          BY <3>1, <3>2 DEF IInv, Pairing
      <4>2. socket_fd[i] = f
          BY <3>2, <4>1 DEF IInv, Pairing, Occupied
      <4>3. QED
          BY <4>2 DEF Orphans
    <3>3. ~(f < TopFd)
        BY <3>1, <3>2, Ranges
    <3>4. QED
        BY <3>1, <3>3, Ranges DEF TopFd
  <2>2. ASSUME pc = "done" PROVE ~listening /\ Open \subseteq Orphans
    <3>1. ~listening /\ Occupied = {}
        BY <2>2 DEF IInv, Snapshot
    <3>2. \A f \in Open : \A i \in Slots : socket_fd[i] # f
        BY <3>1, Ranges DEF Occupied, Open
    <3>3. QED
        BY <3>1, <3>2 DEF Orphans
  <2>3. QED
      BY <2>1, <2>2 DEF AtMostOneOrphan, TopFd
<1>2. QED
    BY <1>1, Invariance, PTL

(* Only a timeout or the shutdown closes the connection of a client that   *)
(* is still there.                                                         *)
THEOREM CloseCorrect == Spec => NoWrongfulClose
<1>1. ASSUME IInv, [Next]_vars, NEW f \in Fds, sock[f] = "open", sock'[f] = "closed",
             pc # "exit"
      PROVE  \E i \in Slots : socket_fd[i] = f /\ silent[i] > TIMEOUT_LIMIT
  <2> USE <1>1
  <2>1. CASE CheckForTimeouts
    <3>1. \E i \in Expired : socket_fd[i] = f
        BY <2>1 DEF CheckForTimeouts, CloseSlots
    <3>2. QED
        BY <3>1 DEF Expired, Occupied
  <2>2. ASSUME NEW i \in Slots, ServeGone(i) PROVE FALSE
    <3>1. socket_fd[i] = f
        BY <2>2 DEF ServeGone, CloseSlots
    <3>2. f \in Open
        BY DEF Open
    <3>3. QED
        BY <2>2, <3>1, <3>2 DEF ServeGone
  <2>3. ASSUME Accept PROVE FALSE
      BY <2>3 DEF Accept, IInv, TypeShape
  <2>4. ASSUME NEW g \in Fds, HangUp(g) PROVE FALSE
      BY <2>4 DEF HangUp, IInv, TypeShape
  <2>5. CASE UNCHANGED sock
      BY <2>5
  <2>6. QED
      BY <2>1, <2>2, <2>3, <2>4, <2>5
      DEF Next, ServerStep, ServeSlot, Environment, Terminated, Poll, PollFails,
          AcceptFails, AcceptNothing, ScanExit, ScanEnd, SkipSlot, ServeData,
          ServeNoMemory, CleanupSockets, Signal, Connect, Send, Tick, vars, kernel
<1>2. IInv /\ [Next]_vars =>
        [\A f \in Fds :
           sock[f] = "open" /\ sock'[f] = "closed" =>
             \/ pc = "exit"
             \/ \E i \in Slots : socket_fd[i] = f /\ silent[i] > TIMEOUT_LIMIT]_vars
    BY <1>1
<1>3. QED
    BY <1>2, Invariance, PTL DEF Spec, NoWrongfulClose

=============================================================================
