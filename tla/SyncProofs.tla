----------------------------- MODULE SyncProofs -----------------------------
(***************************************************************************)
(* Proofs about Sync: the type invariant, the agreement of rooms and       *)
(* sockets, the authorisation of rooms, and that sessions whose upgrades   *)
(* do not overlap have no open connection the controller has lost.         *)
(***************************************************************************)
EXTENDS Sync, TLAPS

(***************************************************************************)
(* Types.                                                                  *)
(***************************************************************************)
\* The initial state has the right types.
LEMMA TypeInit == Init => TypeOK
BY SyncAssumption DEF Init, TypeOK, States, Rooms, UserRoom, VaultRoom, SidOf

\* What purgeSocket leaves behind has the right types, and no connection that
\* was opened becomes unopened.
LEMMA PurgeTypes ==
  ASSUME TypeOK, NEW S \in SUBSET Sids, PurgeSockets(S)
  PROVE  /\ state' \in [Conns -> States]
         /\ \A c \in Conns : state'[c] = "none" <=> state[c] = "none"
         /\ sockets' \in [Sids -> Conns \cup {NoConn}]
         /\ rooms' \in [Rooms -> SUBSET Sids]
BY DEF TypeOK, PurgeSockets, Closed, States

\* What changeRooms leaves behind has the right types.
LEMMA ChangeTypes ==
  ASSUME TypeOK, NEW s \in Sids, NEW new, ChangeRooms(s, new)
  PROVE  rooms' \in [Rooms -> SUBSET Sids]
BY DEF TypeOK, ChangeRooms

\* A connection keeps its session: tickets are never rebound.
Kept == \A c \in Conns : state[c] # "none" =>
          state'[c] # "none" /\ presented'[c] = presented[c] /\ SidOf(c)' = SidOf(c)

\* Every step keeps the types, and every opened connection its session.
LEMMA TypeStep == TypeOK /\ [Next]_vars => TypeOK' /\ Kept
<1> SUFFICES ASSUME TypeOK, [Next]_vars PROVE TypeOK' /\ Kept
  OBVIOUS
<1> USE SyncAssumption DEF TypeOK, Kept, SidOf
<1>1. ASSUME NEW c \in Conns, Connection(c) PROVE TypeOK' /\ Kept
  <2>1. ASSUME NEW t \in Tickets, Upgrade(c, t) PROVE TypeOK' /\ Kept
    BY <2>1 DEF Upgrade, States, tables, handlers
  <2>2. CASE PurgeExisting(c)
    BY <2>2 DEF PurgeExisting, Closed, States, tables, handlers
  <2>3. CASE Establish(c)
    BY <2>3 DEF Establish, Ready, ChangeRooms, States, tables, handlers
  <2>4. CASE HandshakeFails(c)
    BY <2>4 DEF HandshakeFails, States, tables, handlers
  <2>5. CASE PeerCloses(c)
    BY <2>5 DEF PeerCloses, States, tables, handlers
  <2> QED BY <1>1, <2>1, <2>2, <2>3, <2>4, <2>5 DEF Connection
<1>2. ASSUME NEW c \in Conns, RejectMessage(c) PROVE TypeOK' /\ Kept
  <2>1. state[c] # "none" /\ {SidOf(c)} \in SUBSET Sids
    BY <1>2 DEF RejectMessage, Listening
  <2> QED BY <1>2, <2>1, PurgeTypes DEF RejectMessage, tables, handlers
<1>3. ASSUME NEW c \in Conns, Message(c) PROVE TypeOK' /\ Kept
  <2>1. ASSUME NEW want \in SUBSET Vaults, AcceptSubscribe(c, want) PROVE TypeOK' /\ Kept
    BY <2>1 DEF AcceptSubscribe, Listening, tables, memory
  <2>2. ASSUME NEW t \in Tickets, ReceiveTicket(c, t) PROVE TypeOK' /\ Kept
    BY <2>2 DEF ReceiveTicket, Listening, tables, memory
  <2> QED BY <1>2, <1>3, <2>1, <2>2 DEF Message, ReceiveSubscribe
<1>4. ASSUME NEW h \in subscribing, NEW v \in h.todo, CheckVault(h, v) PROVE TypeOK' /\ Kept
  BY <1>4 DEF CheckVault, tables, memory
<1>5. ASSUME NEW h \in subscribing, ApplySubscriptions(h) PROVE TypeOK' /\ Kept
  <2>1. SidOf(h.conn) \in Sids
    OBVIOUS
  <2>2. rooms' \in [Rooms -> SUBSET Sids]
    BY <1>5, <2>1, ChangeTypes DEF ApplySubscriptions
  <2> QED BY <1>5, <2>2 DEF ApplySubscriptions, tables
<1>6. ASSUME NEW h \in revalidating, CheckTicket(h) PROVE TypeOK' /\ Kept
  <2>1. {SidOf(h.conn)} \in SUBSET Sids
    OBVIOUS
  <2>2. CASE PurgeSockets({SidOf(h.conn)})
    BY <1>6, <2>1, <2>2, PurgeTypes DEF CheckTicket, tables
  <2>3. CASE UNCHANGED <<state, sockets, rooms>>
    BY <1>6, <2>3 DEF CheckTicket, tables
  <2> QED BY <1>6, <2>2, <2>3 DEF CheckTicket
<1>7. ASSUME NEW s \in Sids, Request(s) PROVE TypeOK' /\ Kept
  <2>1. ASSUME NEW t \in Tickets, RequestTicket(s, t) PROVE TypeOK' /\ Kept
    BY <2>1 DEF RequestTicket, memory, handlers
  <2>2. CASE Logout(s)
    BY <2>2 DEF Logout, Emit, Event, memory, handlers
  <2>3. ASSUME NEW u \in Users, UpdateUser(s, u) PROVE TypeOK' /\ Kept
    BY <2>3 DEF UpdateUser, Emit, Event, tables, memory, handlers
  <2>4. ASSUME NEW u \in Users, DeleteUser(s, u) PROVE TypeOK' /\ Kept
    BY <2>4 DEF DeleteUser, Emit, Event, memory, handlers
  <2>5. ASSUME NEW v \in Vaults, NEW u \in Users, WriteVault(s, v, u) PROVE TypeOK' /\ Kept
    BY <2>5 DEF WriteVault, Emit, Event, memory, handlers
  <2>6. ASSUME NEW v \in Vaults, DeleteVault(s, v) PROVE TypeOK' /\ Kept
    BY <2>6 DEF DeleteVault, Emit, Event, memory, handlers
  <2> QED BY <1>7, <2>1, <2>2, <2>3, <2>4, <2>5, <2>6 DEF Request
<1>8. ASSUME NEW e \in pending, Dispatch(e) PROVE TypeOK' /\ Kept
  <2>1. ASSUME NEW S \in SUBSET Sids, PurgeSockets(S) PROVE TypeOK' /\ Kept
    BY <1>8, <2>1, PurgeTypes DEF Dispatch, tables, handlers
  <2>2. CASE e.type = "logout" /\ PurgeSockets({e.sid})
    BY <2>1, <2>2 DEF Event
  <2>3. CASE e.type = "user-delete" /\ PurgeSockets(SocketsOf(e.user))
    BY <2>1, <2>3 DEF SocketsOf
  <2>4. CASE e.type = "vault-delete" /\ DeleteRoom(VaultRoom(e.vault))
    BY <1>8, <2>4 DEF Dispatch, DeleteRoom, tables, handlers
  <2>5. CASE UNCHANGED <<state, sockets, rooms>>
    BY <1>8, <2>5 DEF Dispatch, tables, handlers
  <2> QED BY <1>8, <2>2, <2>3, <2>4, <2>5 DEF Dispatch
<1>9. CASE Crash
  BY <1>9 DEF Crash, States, tables
<1>10. CASE UNCHANGED vars
  BY <1>10 DEF vars, tables, memory, handlers
<1> QED BY <1>1, <1>3, <1>4, <1>5, <1>6, <1>7, <1>8, <1>9, <1>10 DEF Next

\* The type invariant of the sync server.
THEOREM TypeCorrect == Spec => []TypeOK
BY TypeInit, TypeStep, PTL DEF Spec

(***************************************************************************)
(* Rooms, sockets and connections.                                         *)
(***************************************************************************)
\* A handler has only ticked off vaults that the user of its connection owns, or
\* did until the vault was deleted.
ChecksAreOwned ==
  \A h \in subscribing : \A v \in (h.want \ h.todo) \ recycled : vaults[v] = UserOf[SidOf(h.conn)]

\* Without overlap, one upgrade of a session is in progress at a time, and while
\* it waits for its purge nothing else takes the place of the purged socket.
UpgradesAlone ==
  \A c \in Conns : state[c] \in {"validating", "replacing"} /\ ~overlapped[SidOf(c)] =>
    /\ \A d \in Conns : state[d] \in {"validating", "replacing"} /\ SidOf(d) = SidOf(c) => d = c
    /\ state[c] = "replacing" => sockets[SidOf(c)] = NoConn

IInv ==
  /\ TypeOK
  /\ RoomsAndSocketsAgree
  /\ RoomsAreAuthorised
  /\ ChecksAreOwned
  /\ OpenSocketIsTracked
  /\ UpgradesAlone

\* The ways in which a step changes what the controller keeps in memory.
Ends(c) ==
  /\ state' = [state EXCEPT ![c] = "closed"]
  /\ UNCHANGED <<presented, sockets, rooms>>

MemoryStep ==
  \/ UNCHANGED memory
  \/ \E c \in Conns, t \in Tickets : Upgrade(c, t)
  \/ \E c \in Conns : PurgeExisting(c)
  \/ \E c \in Conns : Establish(c)
  \/ \E c \in Conns : state[c] # "none" /\ Ends(c)
  \/ \E S \in SUBSET Sids : PurgeSockets(S) /\ UNCHANGED presented
  \/ \E h \in subscribing : ApplySubscriptions(h)
  \/ \E v \in Vaults : DeleteRoom(VaultRoom(v)) /\ UNCHANGED presented
  \/ Crash

\* Every step is one of them, and only an upgrade touches the history variable.
LEMMA MemorySteps ==
  ASSUME TypeOK, [Next]_vars
  PROVE  /\ MemoryStep
         /\ overlapped' = overlapped \/ \E c \in Conns, t \in Tickets : Upgrade(c, t)
<1>1. ASSUME NEW c \in Conns, RejectMessage(c)
      PROVE  MemoryStep /\ overlapped' = overlapped
  <2>1. {SidOf(c)} \in SUBSET Sids
    BY <1>1 DEF TypeOK, RejectMessage, Listening
  <2> QED BY <1>1, <2>1 DEF RejectMessage, MemoryStep
<1>2. ASSUME NEW c \in Conns, Connection(c) \/ Message(c)
      PROVE  /\ MemoryStep
             /\ overlapped' = overlapped \/ \E t \in Tickets : Upgrade(c, t)
  <2>1. CASE \E t \in Tickets : Upgrade(c, t)
    BY <2>1 DEF MemoryStep
  <2>2. CASE PurgeExisting(c) \/ Establish(c)
    BY <2>2 DEF MemoryStep, PurgeExisting, Establish
  <2>3. CASE HandshakeFails(c) \/ PeerCloses(c)
    BY <2>3 DEF MemoryStep, HandshakeFails, PeerCloses, Ends
  <2>4. CASE \E want \in SUBSET Vaults : AcceptSubscribe(c, want)
    BY <2>4 DEF MemoryStep, AcceptSubscribe
  <2>5. CASE \E t \in Tickets : ReceiveTicket(c, t)
    BY <2>5 DEF MemoryStep, ReceiveTicket
  <2> QED BY <1>1, <1>2, <2>1, <2>2, <2>3, <2>4, <2>5 DEF Connection, Message, ReceiveSubscribe
<1>3. ASSUME NEW h \in subscribing,
             (\E v \in h.todo : CheckVault(h, v)) \/ ApplySubscriptions(h)
      PROVE  MemoryStep /\ overlapped' = overlapped
  BY <1>3 DEF MemoryStep, CheckVault, ApplySubscriptions
<1>4. ASSUME NEW h \in revalidating, CheckTicket(h)
      PROVE  MemoryStep /\ overlapped' = overlapped
  <2>1. {SidOf(h.conn)} \in SUBSET Sids
    BY DEF TypeOK
  <2> QED BY <1>4, <2>1 DEF CheckTicket, MemoryStep, memory
<1>5. ASSUME NEW s \in Sids, Request(s)
      PROVE  MemoryStep /\ overlapped' = overlapped
  BY <1>5 DEF MemoryStep, Request, RequestTicket, Logout, UpdateUser, DeleteUser,
              WriteVault, DeleteVault
<1>6. ASSUME NEW e \in pending, Dispatch(e)
      PROVE  MemoryStep /\ overlapped' = overlapped
  <2>1. /\ e.type = "logout" => {e.sid} \in SUBSET Sids
        /\ e.type = "user-delete" => SocketsOf(e.user) \in SUBSET Sids
        /\ e.type = "vault-delete" => e.vault \in Vaults
    BY DEF TypeOK, Event, SocketsOf
  <2> QED BY <1>6, <2>1 DEF Dispatch, MemoryStep, memory
<1>7. CASE Crash
  BY <1>7 DEF Crash, MemoryStep
<1>8. CASE UNCHANGED vars
  BY <1>8 DEF vars, MemoryStep
<1> QED BY <1>2, <1>3, <1>4, <1>5, <1>6, <1>7, <1>8 DEF Next

\* Rooms of users and rooms of vaults are different rooms.
LEMMA RoomFacts ==
  /\ \A u \in Users : UserRoom(u) \in Rooms
  /\ \A v \in Vaults : VaultRoom(v) \in Rooms
  /\ \A u \in Users, v \in Vaults : UserRoom(u) # VaultRoom(v)
  /\ \A u, w \in Users : UserRoom(u) = UserRoom(w) => u = w
  /\ \A v, w \in Vaults : VaultRoom(v) = VaultRoom(w) => v = w
BY DEF Rooms, UserRoom, VaultRoom

\* Every step keeps rooms and sockets in agreement.
LEMMA AgreeStep ==
  ASSUME TypeOK, RoomsAndSocketsAgree, [Next]_vars
  PROVE  RoomsAndSocketsAgree'
<1>1. TypeOK' /\ Kept
  BY TypeStep
<1>2. MemoryStep
  BY MemorySteps
<1> USE <1>1, SyncAssumption DEF TypeOK, RoomsAndSocketsAgree, Registered, Kept
<1>3. CASE UNCHANGED memory
  BY <1>3 DEF memory, States
<1>4. ASSUME NEW c \in Conns, NEW t \in Tickets, Upgrade(c, t) PROVE RoomsAndSocketsAgree'
  BY <1>4 DEF Upgrade
<1>5. ASSUME NEW c \in Conns, PurgeExisting(c) PROVE RoomsAndSocketsAgree'
  BY <1>5 DEF PurgeExisting, Closed
<1>6. ASSUME NEW c \in Conns, Establish(c) PROVE RoomsAndSocketsAgree'
  BY <1>6 DEF Establish, Ready, ChangeRooms
<1>7. ASSUME NEW c \in Conns, state[c] # "none", Ends(c) PROVE RoomsAndSocketsAgree'
  BY <1>7 DEF Ends
<1>8. ASSUME NEW S \in SUBSET Sids, PurgeSockets(S), UNCHANGED presented
      PROVE  RoomsAndSocketsAgree'
  BY <1>8 DEF PurgeSockets, Closed
<1>9. ASSUME NEW h \in subscribing, ApplySubscriptions(h) PROVE RoomsAndSocketsAgree'
  BY <1>9 DEF ApplySubscriptions, ChangeRooms
<1>10. ASSUME NEW v \in Vaults, DeleteRoom(VaultRoom(v)), UNCHANGED presented
       PROVE  RoomsAndSocketsAgree'
  BY <1>10 DEF DeleteRoom
<1>11. CASE Crash
  BY <1>11 DEF Crash
<1> QED BY <1>2, <1>3, <1>4, <1>5, <1>6, <1>7, <1>8, <1>9, <1>10, <1>11 DEF MemoryStep

\* A vault that is not deleted keeps its owner, and a deleted one is remembered.
VaultsKept ==
  /\ recycled \subseteq recycled'
  /\ \A v \in Vaults \ recycled' : vaults[v] # Nobody => vaults'[v] = vaults[v]

\* Every step leaves a vault with its owner, or deletes it.
LEMMA VaultsStep ==
  ASSUME TypeOK, [Next]_vars
  PROVE  VaultsKept
<1> USE SyncAssumption DEF TypeOK, VaultsKept
<1>1. ASSUME NEW s \in Sids, NEW u \in Users, DeleteUser(s, u) PROVE VaultsKept
  BY <1>1 DEF DeleteUser
<1>2. ASSUME NEW s \in Sids, NEW v \in Vaults, NEW u \in Users, WriteVault(s, v, u) PROVE VaultsKept
  BY <1>2 DEF WriteVault
<1>3. ASSUME NEW s \in Sids, NEW v \in Vaults, DeleteVault(s, v) PROVE VaultsKept
  BY <1>3 DEF DeleteVault
<1>4. ASSUME UNCHANGED <<vaults, recycled>> PROVE VaultsKept
  BY <1>4
<1>5. ASSUME NEW s \in Sids, Request(s) PROVE VaultsKept
  <2>1. \A t \in Tickets : RequestTicket(s, t) => UNCHANGED <<vaults, recycled>>
    BY DEF RequestTicket
  <2>2. Logout(s) => UNCHANGED <<vaults, recycled>>
    BY DEF Logout
  <2>3. \A u \in Users : UpdateUser(s, u) => UNCHANGED <<vaults, recycled>>
    BY DEF UpdateUser, tables
  <2> QED BY <1>1, <1>2, <1>3, <1>4, <1>5, <2>1, <2>2, <2>3 DEF Request
<1>6. ASSUME NEW c \in Conns, Connection(c) \/ Message(c) PROVE UNCHANGED <<vaults, recycled>>
  BY <1>6 DEF Connection, Upgrade, PurgeExisting, Establish, HandshakeFails, PeerCloses,
     Message, RejectMessage, ReceiveSubscribe, AcceptSubscribe, ReceiveTicket, tables
<1>7. ASSUME NEW h \in subscribing, (\E v \in h.todo : CheckVault(h, v)) \/ ApplySubscriptions(h)
      PROVE  UNCHANGED <<vaults, recycled>>
  BY <1>7 DEF CheckVault, ApplySubscriptions, tables
<1>8. ASSUME NEW h \in revalidating, CheckTicket(h) PROVE UNCHANGED <<vaults, recycled>>
  BY <1>8 DEF CheckTicket, tables
<1>9. ASSUME NEW e \in pending, Dispatch(e) PROVE UNCHANGED <<vaults, recycled>>
  BY <1>9 DEF Dispatch, tables
<1>10. Crash \/ UNCHANGED vars => UNCHANGED <<vaults, recycled>>
  BY DEF Crash, vars, tables
<1> QED BY <1>4, <1>5, <1>6, <1>7, <1>8, <1>9, <1>10 DEF Next

\* Every step of a message handler leaves its ticked off vaults owned.
LEMMA ChecksStep ==
  ASSUME TypeOK, ChecksAreOwned, [Next]_vars
  PROVE  ChecksAreOwned'
<1>1. Kept /\ VaultsKept
  BY TypeStep, VaultsStep
<1> USE <1>1, SyncAssumption DEF ChecksAreOwned, TypeOK, Kept, VaultsKept
<1>2. ASSUME subscribing' \subseteq subscribing PROVE ChecksAreOwned'
  BY <1>2
<1>3. ASSUME NEW c \in Conns, NEW want \in SUBSET Vaults, AcceptSubscribe(c, want)
      PROVE  ChecksAreOwned'
  BY <1>3 DEF AcceptSubscribe
<1>4. ASSUME NEW h \in subscribing, NEW v \in h.todo, CheckVault(h, v)
      PROVE  ChecksAreOwned'
  <2>1. CASE subscribing' = subscribing \ {h}
    BY <1>2, <2>1
  <2>2. CASE /\ vaults[v] = UserOf[SidOf(h.conn)]
             /\ subscribing' = (subscribing \ {h}) \cup {[h EXCEPT !.todo = @ \ {v}]}
    BY <2>2
  <2> QED BY <1>4, <2>1, <2>2 DEF CheckVault
<1>5. \/ subscribing' \subseteq subscribing
      \/ \E c \in Conns, want \in SUBSET Vaults : AcceptSubscribe(c, want)
      \/ \E h \in subscribing : \E v \in h.todo : CheckVault(h, v)
  <2>1. ASSUME NEW c \in Conns, Connection(c) PROVE subscribing' = subscribing
    BY <2>1 DEF Connection, Upgrade, PurgeExisting, Establish, HandshakeFails, PeerCloses, handlers
  <2>2. ASSUME NEW c \in Conns, Message(c)
        PROVE  \/ subscribing' = subscribing
               \/ \E want \in SUBSET Vaults : AcceptSubscribe(c, want)
    BY <2>2 DEF Message, RejectMessage, ReceiveSubscribe, ReceiveTicket, handlers
  <2>3. ASSUME NEW s \in Sids, Request(s) PROVE subscribing' = subscribing
    BY <2>3 DEF Request, RequestTicket, Logout, UpdateUser, DeleteUser, WriteVault,
                DeleteVault, handlers
  <2>4. ASSUME NEW h \in subscribing, ApplySubscriptions(h) PROVE subscribing' \subseteq subscribing
    BY <2>4 DEF ApplySubscriptions
  <2>5. ASSUME NEW h \in revalidating, CheckTicket(h) PROVE subscribing' = subscribing
    BY <2>5 DEF CheckTicket
  <2>6. ASSUME NEW e \in pending, Dispatch(e) PROVE subscribing' = subscribing
    BY <2>6 DEF Dispatch, handlers
  <2>7. Crash \/ UNCHANGED vars => subscribing' \subseteq subscribing
    BY DEF Crash, vars, handlers
  <2> QED BY <2>1, <2>2, <2>3, <2>4, <2>5, <2>6, <2>7 DEF Next
<1> QED BY <1>2, <1>3, <1>4, <1>5

\* Every step leaves the rooms authorised.
LEMMA AuthorisedStep ==
  ASSUME TypeOK, ChecksAreOwned, RoomsAreAuthorised, [Next]_vars
  PROVE  RoomsAreAuthorised'
<1>1. MemoryStep /\ VaultsKept
  BY MemorySteps, VaultsStep
<1> USE <1>1, SyncAssumption, RoomFacts DEF TypeOK, RoomsAreAuthorised, VaultsKept
<1>2. ASSUME \A r \in Rooms : rooms'[r] \subseteq rooms[r] PROVE RoomsAreAuthorised'
  BY <1>2
<1>3. ASSUME NEW c \in Conns, Establish(c) PROVE RoomsAreAuthorised'
  <2>1. SidOf(c) \in Sids
    BY <1>3 DEF Establish, Ready
  <2>2. \A r \in Rooms : rooms'[r] \subseteq
          IF r = UserRoom(UserOf[SidOf(c)]) THEN rooms[r] \cup {SidOf(c)} ELSE rooms[r]
    BY <1>3 DEF Establish, ChangeRooms
  <2> QED BY <2>1, <2>2
<1>4. ASSUME NEW h \in subscribing, ApplySubscriptions(h) PROVE RoomsAreAuthorised'
  <2>1. SidOf(h.conn) \in Sids /\ \A v \in h.want : v \in Vaults /\ (v \notin recycled => vaults[v] = UserOf[SidOf(h.conn)])
    BY <1>4 DEF ApplySubscriptions, ChecksAreOwned
  <2>2. CASE UNCHANGED rooms
    BY <2>2, <1>2
  <2>3. CASE ChangeRooms(SidOf(h.conn), {VaultRoom(v) : v \in h.want})
    <3>1. \A r \in Rooms : rooms'[r] \subseteq
            IF \E v \in h.want : r = VaultRoom(v) THEN rooms[r] \cup {SidOf(h.conn)} ELSE rooms[r]
      BY <2>3 DEF ChangeRooms
    <3> QED BY <2>1, <3>1
  <2> QED BY <1>4, <2>2, <2>3 DEF ApplySubscriptions
<1>5. \/ UNCHANGED rooms
      \/ \E S : rooms' = [r \in Rooms |-> rooms[r] \ S]
      \/ \E r \in Rooms : rooms' = [rooms EXCEPT ![r] = {}]
      \/ \E c \in Conns : Establish(c)
      \/ \E h \in subscribing : ApplySubscriptions(h)
  <2>1. CASE \E c \in Conns : PurgeExisting(c)
    BY <2>1 DEF PurgeExisting
  <2>2. CASE \E S \in SUBSET Sids : PurgeSockets(S)
    BY <2>2 DEF PurgeSockets
  <2>3. CASE \E v \in Vaults : DeleteRoom(VaultRoom(v))
    BY <2>3 DEF DeleteRoom
  <2>4. CASE Crash
    <3>1. rooms' = [r \in Rooms |-> rooms[r] \ Sids]
      BY <2>4 DEF Crash
    <3> QED BY <3>1
  <2>5. CASE UNCHANGED rooms
    BY <2>5
  <2> QED BY <1>1, <2>1, <2>2, <2>3, <2>4, <2>5 DEF MemoryStep, memory, Upgrade, Ends
<1> QED BY <1>2, <1>3, <1>4, <1>5

\* Every step tracks the open sockets of sessions whose upgrades do not overlap.
LEMMA TrackedStep ==
  ASSUME TypeOK, RoomsAndSocketsAgree, OpenSocketIsTracked, UpgradesAlone, [Next]_vars
  PROVE  OpenSocketIsTracked' /\ UpgradesAlone'
<1>1. TypeOK' /\ Kept
  BY TypeStep
<1>2. /\ MemoryStep
      /\ overlapped' = overlapped \/ \E c \in Conns, t \in Tickets : Upgrade(c, t)
  BY MemorySteps
<1> USE <1>1, SyncAssumption DEF TypeOK, Kept, OpenSocketIsTracked, UpgradesAlone, RoomsAndSocketsAgree, Registered
<1>3. ASSUME NEW c \in Conns, NEW t \in Tickets, Upgrade(c, t)
      PROVE  OpenSocketIsTracked' /\ UpgradesAlone'
  <2>1. /\ state' = [state EXCEPT ![c] = "validating"] /\ state[c] = "none"
        /\ UNCHANGED sockets
        /\ SidOf(c)' = ticket[t] /\ ticket[t] \in Sids
    BY <1>3 DEF Upgrade, SidOf, tables
  <2>2. overlapped' = [overlapped EXCEPT ![ticket[t]] = @ \/ Upgrading(ticket[t]) # {}]
    BY <1>3 DEF Upgrade
  <2>3. \A s \in Sids : overlapped[s] => overlapped'[s]
    BY <2>1, <2>2
  <2>4. ~overlapped'[ticket[t]] => Upgrading(ticket[t]) = {}
    BY <2>1, <2>2
  <2>5. OpenSocketIsTracked'
    BY <2>1, <2>3
  <2>6. UpgradesAlone'
    BY <2>1, <2>3, <2>4 DEF Upgrading
  <2> QED BY <2>5, <2>6
<1>4. ASSUME NEW c \in Conns, PurgeExisting(c), overlapped' = overlapped
      PROVE  OpenSocketIsTracked' /\ UpgradesAlone'
  <2>1. OpenSocketIsTracked'
    BY <1>4 DEF PurgeExisting, Closed
  <2>2. UpgradesAlone'
    BY <1>4 DEF PurgeExisting, Closed
  <2> QED BY <2>1, <2>2
<1>5. ASSUME NEW c \in Conns, Establish(c), overlapped' = overlapped
      PROVE  OpenSocketIsTracked' /\ UpgradesAlone'
  <2>1. OpenSocketIsTracked'
    BY <1>5 DEF Establish, Ready
  <2>2. UpgradesAlone'
    BY <1>5 DEF Establish, Ready
  <2> QED BY <2>1, <2>2
<1>6. ASSUME NEW c \in Conns, state[c] # "none", Ends(c), overlapped' = overlapped
      PROVE  OpenSocketIsTracked' /\ UpgradesAlone'
  BY <1>6 DEF Ends
<1>7. ASSUME NEW S \in SUBSET Sids, PurgeSockets(S), UNCHANGED presented, overlapped' = overlapped
      PROVE  OpenSocketIsTracked' /\ UpgradesAlone'
  <2>1. OpenSocketIsTracked'
    BY <1>7 DEF PurgeSockets, Closed
  <2>2. UpgradesAlone'
    BY <1>7 DEF PurgeSockets, Closed
  <2> QED BY <2>1, <2>2
<1>8. ASSUME UNCHANGED <<state, sockets>>, overlapped' = overlapped
      PROVE  OpenSocketIsTracked' /\ UpgradesAlone'
  BY <1>8
<1>9. CASE Crash
  BY <1>9 DEF Crash
<1>10. UNCHANGED memory \/ (\E h \in subscribing : ApplySubscriptions(h))
         \/ (\E v \in Vaults : DeleteRoom(VaultRoom(v)))
         => UNCHANGED <<state, sockets>>
  BY DEF memory, ApplySubscriptions, DeleteRoom
<1> QED BY <1>2, <1>3, <1>4, <1>5, <1>6, <1>7, <1>8, <1>9, <1>10 DEF MemoryStep

\* The invariant holds at first.
LEMMA InitIInv == Init => IInv
<1> SUFFICES ASSUME Init PROVE IInv
  OBVIOUS
<1>1. TypeOK
  BY TypeInit
<1> QED BY <1>1, RoomFacts DEF Init, IInv, TypeOK, RoomsAndSocketsAgree, Registered, RoomsAreAuthorised,
          ChecksAreOwned, OpenSocketIsTracked, UpgradesAlone

\* The inductive invariant.
THEOREM Invariance == Spec => []IInv
<1>1. IInv /\ [Next]_vars => IInv'
  BY TypeStep, AgreeStep, AuthorisedStep, ChecksStep, TrackedStep DEF IInv
<1> QED BY InitIInv, <1>1, PTL DEF Spec

\* The socket store and the rooms agree (purgeSocket, changeRooms).
THEOREM RoomsAndSocketsAgreeHolds == Spec => []RoomsAndSocketsAgree
<1>1. IInv => RoomsAndSocketsAgree
  BY DEF IInv
<1> QED BY <1>1, Invariance, PTL

\* No session is ever in a room it has no right to (requestSubscriptions).
THEOREM RoomsAreAuthorisedHolds == Spec => []RoomsAreAuthorised
<1>1. IInv => RoomsAreAuthorised
  BY DEF IInv
<1> QED BY <1>1, Invariance, PTL

\* Without overlapping upgrades the controller knows every open connection.
THEOREM OpenSocketIsTrackedHolds == Spec => []OpenSocketIsTracked
<1>1. IInv => OpenSocketIsTracked
  BY DEF IInv
<1> QED BY <1>1, Invariance, PTL

(***************************************************************************)
(* Delivery of user events, with messages as the library hands them over.  *)
(***************************************************************************)
\* No handler ever starts, so every stored socket stays in the room of its user.
InUserRoom ==
  /\ subscribing = {}
  /\ \A s \in Sids : Registered(s) => s \in rooms[UserRoom(UserOf[s])]

\* Every step keeps every stored socket in the room of its user.
LEMMA UserRoomStep ==
  ASSUME FrameDelivery = "buffer", TypeOK, InUserRoom, [Next]_vars
  PROVE  InUserRoom'
<1>1. MemoryStep /\ TypeOK'
  BY MemorySteps, TypeStep
<1>2. subscribing' = {}
  BY DEF InUserRoom, Next, vars, handlers, Connection, Upgrade, PurgeExisting, Establish,
     HandshakeFails, PeerCloses, Message, RejectMessage, ReceiveSubscribe, AcceptSubscribe,
     ReceiveTicket, CheckTicket, Request, RequestTicket, Logout, UpdateUser, DeleteUser,
     WriteVault, DeleteVault, Dispatch, Crash
<1> USE <1>1, <1>2, SyncAssumption, RoomFacts DEF TypeOK, InUserRoom, Registered
<1>3. CASE UNCHANGED memory
  BY <1>3 DEF memory
<1>4. ASSUME NEW c \in Conns, NEW t \in Tickets, Upgrade(c, t) PROVE InUserRoom'
  BY <1>4 DEF Upgrade
<1>5. ASSUME NEW c \in Conns, PurgeExisting(c) PROVE InUserRoom'
  BY <1>5 DEF PurgeExisting
<1>6. ASSUME NEW c \in Conns, Establish(c) PROVE InUserRoom'
  BY <1>6 DEF Establish, Ready, ChangeRooms
<1>7. ASSUME NEW c \in Conns, Ends(c) PROVE InUserRoom'
  BY <1>7 DEF Ends
<1>8. ASSUME NEW S \in SUBSET Sids, PurgeSockets(S) PROVE InUserRoom'
  BY <1>8 DEF PurgeSockets
<1>9. ASSUME NEW v \in Vaults, DeleteRoom(VaultRoom(v)) PROVE InUserRoom'
  BY <1>9 DEF DeleteRoom
<1>10. CASE Crash
  BY <1>10 DEF Crash
<1> QED BY <1>1, <1>3, <1>4, <1>5, <1>6, <1>7, <1>8, <1>9, <1>10 DEF MemoryStep

\* As shipped, a user event reaches every stored socket of its user but the
\* origin's (sendEventToRoom).
THEOREM UserEventsReachEveryDeviceHolds ==
  ASSUME FrameDelivery = "buffer"
  PROVE  Spec => []UserEventsReachEveryDevice
<1>1. Init => InUserRoom
  BY SyncAssumption DEF Init, InUserRoom, Registered
<1>2. TypeOK /\ InUserRoom /\ [Next]_vars => InUserRoom'
  BY UserRoomStep
<1>3. TypeOK /\ InUserRoom => UserEventsReachEveryDevice
  BY SyncAssumption DEF InUserRoom, UserEventsReachEveryDevice, Recipients, Registered
<1> QED BY <1>1, <1>2, <1>3, TypeCorrect, PTL DEF Spec

(***************************************************************************)
(* The refinement: every step of Sync is a step of Switchboard.            *)
(***************************************************************************)
\* What Switchboard knows of the connections and of the events.
Lines  == {l \in Sids \X Conns : ~overlapped[l[1]] /\ OpenFor(l[1], l[2])}
Spent  == {c \in Conns : state[c] \in {"closing", "closed"}}
Orders == {<<e, Disconnected(e)>> : e \in disconnections}
KeptSids == {s \in Sids : ~overlapped[s]}

\* No connection is opened, and one that was opened can only have ended.
OnlyEnding ==
  \A c \in Conns :
    /\ state'[c] = "open" => state[c] = "open"
    /\ state[c] = "open" => state'[c] \in {"open", "closing", "closed"}
    /\ state[c] \in {"closing", "closed"} => state'[c] \in {"closing", "closed"}

\* Nothing but the establishment of an upgrade opens a connection, and nothing reopens
\* one.
LEMMA OnlyEndingStep ==
  ASSUME TypeOK, MemoryStep, \A c \in Conns : ~Establish(c)
  PROVE  OnlyEnding
<1> USE DEF TypeOK, OnlyEnding
<1>1. CASE UNCHANGED memory
  BY <1>1 DEF memory
<1>2. ASSUME NEW c \in Conns, NEW t \in Tickets, Upgrade(c, t) PROVE OnlyEnding
  BY <1>2 DEF Upgrade
<1>3. ASSUME NEW c \in Conns, PurgeExisting(c) PROVE OnlyEnding
  BY <1>3 DEF PurgeExisting, Closed
<1>4. ASSUME NEW c \in Conns, state[c] # "none", Ends(c) PROVE OnlyEnding
  BY <1>4 DEF Ends
<1>5. ASSUME NEW S \in SUBSET Sids, PurgeSockets(S) PROVE OnlyEnding
  BY <1>5 DEF PurgeSockets, Closed
<1>6. CASE UNCHANGED state
  BY <1>6
<1>7. CASE Crash
  BY <1>7 DEF Crash
<1> QED
  BY <1>1, <1>2, <1>3, <1>4, <1>5, <1>6, <1>7 DEF MemoryStep, ApplySubscriptions, DeleteRoom

\* Then the step hangs up what has ended, and leaves the other lines as they are.
LEMMA HangUpStep ==
  ASSUME TypeOK, Kept, OnlyEnding, overlapped' = overlapped
  PROVE  W!HangUp
<1>1. Spent \subseteq Spent'
  BY DEF Spent, OnlyEnding
<1>2. Lines' = {l \in Lines : l[2] \notin Spent'}
  <2>1. ASSUME NEW l \in Sids \X Conns
        PROVE  OpenFor(l[1], l[2])' <=> OpenFor(l[1], l[2]) /\ l[2] \notin Spent'
    <3>1. l[2] \in Conns
      OBVIOUS
    <3> QED
      BY <3>1 DEF OpenFor, Spent, OnlyEnding, Kept
  <2> QED
    BY <2>1 DEF Lines
<1>3. KeptSids' = KeptSids
  BY DEF KeptSids
<1> QED
  BY <1>1, <1>2, <1>3 DEF W!HangUp, Lines, Spent, KeptSids

\* How a step changes the events whose dispatch is to come.
LEMMA PendingSteps ==
  ASSUME [Next]_vars
  PROVE  \/ pending' = pending
         \/ UNCHANGED <<memory, overlapped>> /\ \E e : pending' = pending \cup {e}
         \/ \E e \in pending : Dispatch(e)
         \/ Crash
<1>1. ASSUME NEW c \in Conns, Connection(c) \/ Message(c) PROVE pending' = pending
  BY <1>1 DEF Connection, Message, Upgrade, PurgeExisting, Establish, HandshakeFails, PeerCloses,
              RejectMessage, ReceiveSubscribe, AcceptSubscribe, ReceiveTicket
<1>2. ASSUME NEW s \in Sids, Request(s)
      PROVE  \/ pending' = pending
             \/ UNCHANGED <<memory, overlapped>> /\ \E e : pending' = pending \cup {e}
  BY <1>2 DEF Request, RequestTicket, Logout, UpdateUser, DeleteUser, WriteVault, DeleteVault, Emit
<1>3. ASSUME NEW h, (\E v \in h.todo : CheckVault(h, v)) \/ ApplySubscriptions(h) \/ CheckTicket(h)
      PROVE  pending' = pending
  BY <1>3 DEF CheckVault, ApplySubscriptions, CheckTicket
<1>4. CASE UNCHANGED vars
  BY <1>4 DEF vars
<1> QED
  BY <1>1, <1>2, <1>3, <1>4 DEF Next

\* An event that joins the pending ones is an order, or not seen.
LEMMA OrderStep ==
  ASSUME UNCHANGED <<memory, overlapped>>, TypeOK, Kept,
         NEW e, pending' = pending \cup {e}
  PROVE  W!Next \/ UNCHANGED W!vars
<1>1. Spent' = Spent /\ KeptSids' = KeptSids
  BY DEF Spent, KeptSids, memory
<1>2. Lines' = Lines
  BY DEF Lines, OpenFor, Kept, memory
<1>3. CASE e.type \in {"logout", "user-delete"}
  <2>1. Orders' = Orders \cup {<<e, Disconnected(e)>>}
    BY <1>3 DEF Orders, disconnections
  <2> QED
    BY <1>1, <1>2, <2>1 DEF W!Next, W!Order, Orders, Lines, Spent, KeptSids
<1>4. CASE e.type \notin {"logout", "user-delete"}
  <2>1. Orders' = Orders
    BY <1>4 DEF Orders, disconnections
  <2> QED
    BY <1>1, <1>2, <2>1 DEF W!vars, Orders, Lines, Spent, KeptSids
<1> QED
  BY <1>3, <1>4

\* The dispatch of an event that disconnects leaves none of its sessions with a line:
\* what such a session has open is its stored socket, which is purged.
LEMMA DispatchStep ==
  ASSUME IInv, Kept, OnlyEnding, NEW e \in pending, Dispatch(e)
  PROVE  W!Next
<1>1. /\ overlapped' = overlapped /\ pending' = pending \ {e}
      /\ presented' = presented /\ ticket' = ticket
  BY DEF Dispatch, tables
<1>2. W!HangUp
  BY <1>1, HangUpStep DEF IInv
<1>3. CASE e.type \in {"logout", "user-delete"}
  <2>1. Orders' = Orders \ {<<e, Disconnected(e)>>} /\ <<e, Disconnected(e)>> \in Orders
    BY <1>1, <1>3 DEF Orders, disconnections
  <2>2. ASSUME NEW s \in Disconnected(e), s \in Sids, NEW c \in Conns, OpenFor(s, c)', ~overlapped[s]
        PROVE  FALSE
    <3>1. state[c] = "open" /\ SidOf(c) = s
      BY <1>1, <2>2 DEF OpenFor, OnlyEnding, SidOf
    <3>2. sockets[s] = c /\ c # NoConn
      BY <2>2, <3>1, SyncAssumption DEF IInv, OpenSocketIsTracked
    <3>3. CASE e.type = "logout"
      <4>1. s = e.sid /\ state' = Closed({sockets[x] : x \in {e.sid}})
        BY <3>3 DEF Dispatch, Disconnected, PurgeSockets
      <4> QED
        BY <2>2, <3>1, <3>2, <4>1 DEF Closed, OpenFor
    <3>4. CASE e.type = "user-delete"
      <4>1. s \in SocketsOf(e.user) /\ state' = Closed({sockets[x] : x \in SocketsOf(e.user)})
        BY <2>2, <3>2, <3>4 DEF Dispatch, Disconnected, PurgeSockets, SocketsOf
      <4> QED
        BY <2>2, <3>1, <3>2, <4>1 DEF Closed, OpenFor
    <3> QED
      BY <1>3, <3>3, <3>4
  <2>3. \A l \in Lines' : l[1] \notin Disconnected(e)
    BY <1>1, <2>2 DEF Lines
  <2>4. \E o \in Orders : W!Execute(o)
    BY <1>2, <2>1, <2>3 DEF W!Execute, Orders, Lines
  <2> QED
    BY <2>4 DEF W!Next, Orders
<1>4. CASE e.type \notin {"logout", "user-delete"}
  <2>1. Orders' = Orders
    BY <1>1, <1>4 DEF Orders, disconnections
  <2> QED
    BY <1>2, <2>1 DEF W!Next, Orders
<1> QED
  BY <1>3, <1>4

\* An upgrade that begins may take its session out of the contract.
LEMMA UpgradeStep ==
  ASSUME TypeOK, Kept, OnlyEnding, NEW c \in Conns, NEW t \in Tickets, Upgrade(c, t)
  PROVE  W!Next
<1> DEFINE s == ticket[t]
<1>1. /\ s \in Sids /\ state' = [state EXCEPT ![c] = "validating"] /\ state[c] = "none"
      /\ pending' = pending
      /\ overlapped' = [overlapped EXCEPT ![s] = @ \/ Upgrading(s) # {}]
  BY DEF Upgrade, TypeOK
<1>2. Orders' = Orders
  BY <1>1 DEF Orders, disconnections
<1> HIDE DEF s
<1>3. CASE overlapped' = overlapped
  BY <1>2, <1>3, HangUpStep DEF W!Next, Orders
<1>4. CASE overlapped' # overlapped
  <2>1. KeptSids' = KeptSids \ {s} /\ overlapped'[s] /\ \A x \in Sids \ {s} : overlapped'[x] = overlapped[x]
    BY <1>1, <1>4 DEF KeptSids, TypeOK
  <2>2. Spent' = Spent
    BY <1>1 DEF Spent, TypeOK
  <2>3. \A l \in Sids \X Conns : OpenFor(l[1], l[2])' <=> OpenFor(l[1], l[2])
    BY <1>1 DEF OpenFor, Kept, TypeOK
  <2>4. Lines' = {l \in Lines : l[1] # s}
    BY <2>1, <2>3 DEF Lines
  <2> QED
    BY <1>1, <1>2, <2>1, <2>2, <2>4 DEF W!Next, W!Leave, Orders, Lines, Spent, KeptSids
<1> QED
  BY <1>3, <1>4

\* The establishment of an upgrade gives its session the only line it has, unless the
\* session has left the contract.
LEMMA EstablishStep ==
  ASSUME IInv, Kept, NEW c \in Conns, Establish(c)
  PROVE  W!Next
<1> DEFINE s == SidOf(c)
<1>1. /\ Ready(c) /\ state' = [state EXCEPT ![c] = "open"]
      /\ UNCHANGED <<pending, overlapped>>
  BY DEF Establish
<1>2. state[c] \in {"validating", "replacing"} /\ s \in Sids /\ SidOf(c)' = s
  BY <1>1 DEF Ready, IInv, TypeOK, Kept
<1>3. Orders' = Orders /\ KeptSids' = KeptSids
  BY <1>1 DEF Orders, disconnections, KeptSids
<1>4. Spent' = Spent
  BY <1>1, <1>2 DEF Spent, IInv, TypeOK
<1>5. \A l \in Sids \X Conns : l[2] # c => (OpenFor(l[1], l[2])' <=> OpenFor(l[1], l[2]))
  BY <1>1 DEF OpenFor, Kept, IInv, TypeOK
<1>6. \A x \in Sids : ~OpenFor(x, c) /\ (OpenFor(x, c)' <=> x = s)
  BY <1>1, <1>2 DEF OpenFor, IInv, TypeOK
<1>7. CASE overlapped[s]
  <2> HIDE DEF s
  <2>1. Lines' = Lines
    BY <1>1, <1>5, <1>6, <1>7 DEF Lines
  <2>2. \A l \in Lines : l[2] \notin Spent
    BY DEF Lines, Spent, OpenFor
  <2>3. W!HangUp
    BY <1>3, <1>4, <2>1, <2>2 DEF W!HangUp, Lines, Spent, KeptSids
  <2> QED
    BY <1>3, <2>3 DEF W!Next, Orders
<1>8. CASE ~overlapped[s]
  <2>1. sockets[s] = NoConn
    BY <1>1, <1>2, <1>8 DEF Ready, IInv, UpgradesAlone
  <2>2. \A d \in Conns : ~OpenFor(s, d)
    BY <1>8, <2>1, SyncAssumption DEF OpenFor, IInv, OpenSocketIsTracked
  <2> HIDE DEF s
  <2>3. \A l \in Lines : l[1] # s /\ l[2] # c
    BY <1>6, <2>2 DEF Lines
  <2>4. Lines' = Lines \cup {<<s, c>>}
    BY <1>1, <1>2, <1>5, <1>6, <1>8 DEF Lines
  <2>5. c \notin Spent /\ s \in KeptSids
    BY <1>2, <1>8 DEF Spent, KeptSids
  <2>6. <<s, c>> \in Lines' /\ <<s, c>>[1] = s /\ <<s, c>>[2] = c
    BY <2>4
  <2>7. \E l \in Lines' : W!Connect(l[1], l[2])
    BY <1>3, <1>4, <2>3, <2>4, <2>5, <2>6 DEF W!Connect, Orders, Lines, Spent, KeptSids
  <2> QED
    BY <2>7 DEF W!Next, Lines
<1> QED
  BY <1>7, <1>8

\* A crash ends every connection there is.
LEMMA CrashStep ==
  ASSUME TypeOK, Kept, OnlyEnding, Crash
  PROVE  W!Next
<1>1. overlapped' = overlapped /\ pending' = {} /\ \A c \in Conns : state'[c] # "open"
  BY DEF Crash
<1>2. Lines' = {} /\ Orders' = {}
  BY <1>1 DEF Lines, OpenFor, Orders, disconnections
<1> QED
  BY <1>1, <1>2, HangUpStep DEF W!Next, W!Restart, Lines, Orders

\* Sync implements Switchboard: a session whose upgrades do not overlap has one line at
\* a time, and none once the event that disconnects it has been dispatched.
THEOREM SessionsHaveOneLineHolds == Spec => SessionsHaveOneLine
<1>1. Init => W!Init
  BY DEF Init, W!Init, OpenFor, disconnections
<1>2. IInv /\ [Next]_vars => [W!Next]_(W!vars)
  <2> SUFFICES ASSUME IInv, [Next]_vars PROVE W!Next \/ UNCHANGED W!vars
    OBVIOUS
  <2>1. TypeOK /\ Kept /\ MemoryStep
    BY TypeStep, MemorySteps DEF IInv
  <2>2. ASSUME NEW c \in Conns, Establish(c) PROVE W!Next
    BY <2>1, <2>2, EstablishStep
  <2>3. CASE \A c \in Conns : ~Establish(c)
    <3>1. OnlyEnding
      BY <2>1, <2>3, OnlyEndingStep
    <3>2. ASSUME NEW c \in Conns, NEW t \in Tickets, Upgrade(c, t) PROVE W!Next
      BY <2>1, <3>1, <3>2, UpgradeStep
    <3>3. CASE overlapped' = overlapped
      <4>1. ASSUME pending' = pending PROVE W!Next
        <5>1. Orders' = Orders
          BY <4>1 DEF Orders, disconnections
        <5> QED
          BY <2>1, <3>1, <3>3, <5>1, HangUpStep DEF W!Next, Orders
      <4>2. ASSUME UNCHANGED <<memory, overlapped>>, NEW e, pending' = pending \cup {e}
            PROVE  W!Next \/ UNCHANGED W!vars
        BY <2>1, <4>2, OrderStep
      <4>3. ASSUME NEW e \in pending, Dispatch(e) PROVE W!Next
        BY <2>1, <3>1, <4>3, DispatchStep
      <4>4. CASE Crash
        BY <2>1, <3>1, <4>4, CrashStep
      <4> QED
        BY <4>1, <4>2, <4>3, <4>4, PendingSteps
    <3> QED
      BY <2>1, <3>2, <3>3, MemorySteps
  <2> QED
    BY <2>2, <2>3
<1> QED
  BY <1>1, <1>2, Invariance, PTL DEF Spec, W!Spec, SessionsHaveOneLine
=============================================================================
