-------------------------------- MODULE Sync --------------------------------
(***************************************************************************)
(* The sync websocket server: SyncService (sync.service.ts) decides, and   *)
(* SyncWebsocketController (sync.websockets.ts) keeps the sockets and the  *)
(* rooms.  A session asks over HTTP for a connection ticket, opens a       *)
(* websocket with it, may subscribe to vaults, and receives the events     *)
(* other requests cause.                                                   *)
(*                                                                         *)
(* Everything runs on one event loop, so a piece of code without an await  *)
(* on I/O is one action.  What interleaves is what waits: an upgrade for   *)
(* its ticket and for the purge of the socket it replaces, a message       *)
(* handler for the database, and an event for the answer of the write that *)
(* caused it.  A room with no members is the same as no room.              *)
(***************************************************************************)
EXTENDS FiniteSets, Naturals

CONSTANTS
  Users, Sids, Vaults, Tickets, Conns,
  UserOf,         \* the user of each session
  FrameDelivery,  \* what the ws library hands to "message" listeners: as
                  \* shipped "buffer"; "object" is what the handler expects
  MaxHandlers,    \* bound on the message handlers in flight
  MaxPending,     \* bound on the events whose dispatch is to come
  NoTicket, NoConn,
  Nobody          \* the owner of a vault there is not

ASSUME SyncAssumption ==
  /\ UserOf \in [Sids -> Users]
  /\ FrameDelivery \in {"buffer", "object"}
  /\ MaxHandlers \in Nat /\ MaxPending \in Nat
  /\ NoConn \notin Conns /\ NoTicket \notin Tickets /\ NoTicket \notin Sids /\ Nobody \notin Users

VARIABLES
  users,         \* rows of the users table
  vaults,        \* the vaults table: the owner of each vault
  loggedIn,      \* history: the sessions that have not been logged out
  ticket,        \* data store: ticket -> the session it was made for
  state,         \* of each connection
  presented,     \* the ticket each connection was opened with
  sockets,       \* #sockets: session -> connection
  rooms,         \* #rooms: room -> sessions
  subscribing,   \* "subscribe" handlers waiting for the database
  revalidating,  \* "ticket" handlers waiting for the data store
  pending,       \* events whose write is done and whose dispatch is to come
  overlapped,    \* history: two upgrades of the session were once in progress together
  recycled       \* history: vaults that were deleted; clients choose the ids, and may
                 \* use one of these again

tables == <<users, vaults, loggedIn, ticket>>
memory == <<state, presented, sockets, rooms>>
handlers == <<subscribing, revalidating>>
vars == <<tables, memory, handlers, pending, overlapped, recycled>>

(***************************************************************************)
(* Data.                                                                   *)
(***************************************************************************)
UserRoom(u)  == <<"user", u>>
VaultRoom(v) == <<"vault", v>>
Rooms == {UserRoom(u) : u \in Users} \cup {VaultRoom(v) : v \in Vaults}

\* none: not used yet.  validating: waiting for the ticket.  replacing: waiting
\* for the purge of the socket it replaces.  closing: close() was called, the
\* peer may still be sending.  closed: gone.
States == {"none", "validating", "replacing", "open", "closing", "closed"}

\* sid is the session whose request caused the event; user is whose room it is sent
\* to, the account that was written or the owner of the vault that was.
Event == [type : {"logout"}, sid : Sids]
           \cup [type : {"user-update", "user-delete"}, user : Users, sid : Sids]
           \cup [type : {"vault-change", "vault-delete"}, vault : Vaults, user : Users, sid : Sids]

\* ws.connectionData is the content of the ticket.
SidOf(c) == ticket[presented[c]]

TypeOK ==
  /\ users \subseteq Users
  /\ vaults \in [Vaults -> Users \cup {Nobody}]
  /\ loggedIn \subseteq Sids
  /\ ticket \in [Tickets -> Sids \cup {NoTicket}]
  /\ state \in [Conns -> States]
  /\ presented \in [Conns -> Tickets \cup {NoTicket}]
  /\ \A c \in Conns : state[c] # "none" => presented[c] \in Tickets /\ SidOf(c) \in Sids
  /\ sockets \in [Sids -> Conns \cup {NoConn}]
  /\ rooms \in [Rooms -> SUBSET Sids]
  /\ subscribing \subseteq [conn : Conns, want : SUBSET Vaults, todo : SUBSET Vaults]
  /\ revalidating \subseteq [conn : Conns, ticket : Tickets]
  /\ \A h \in subscribing \cup revalidating : state[h.conn] # "none"
  /\ pending \subseteq Event
  /\ overlapped \in [Sids -> BOOLEAN]
  /\ recycled \subseteq Vaults

Init ==
  /\ users = Users /\ vaults = [v \in Vaults |-> Nobody]
  /\ loggedIn = Sids
  /\ ticket = [t \in Tickets |-> NoTicket]
  /\ state = [c \in Conns |-> "none"]
  /\ presented = [c \in Conns |-> NoTicket]
  /\ sockets = [s \in Sids |-> NoConn]
  /\ rooms = [r \in Rooms |-> {}]
  /\ subscribing = {} /\ revalidating = {}
  /\ pending = {}
  /\ overlapped = [s \in Sids |-> FALSE]
  /\ recycled = {}

(***************************************************************************)
(* The controller's operations on sockets and rooms.                       *)
(***************************************************************************)
\* The state of the connections after close() was called on those in C.
Closed(C) == [c \in Conns |-> IF c \in C /\ state[c] = "open" THEN "closing" ELSE state[c]]

\* Slip: the socket goes, its place in the rooms stays.
PurgeSocketsOnly(S) ==
  /\ sockets' = [s \in Sids |-> IF s \in S THEN NoConn ELSE sockets[s]]
  /\ state' = Closed({sockets[s] : s \in S})
  /\ UNCHANGED rooms

\* purgeSocket, for every session in S.
PurgeSockets(S) ==
  /\ rooms' = [r \in Rooms |-> rooms[r] \ S]
  /\ sockets' = [s \in Sids |-> IF s \in S THEN NoConn ELSE sockets[s]]
  /\ state' = Closed({sockets[s] : s \in S})

\* changeRooms, for a session that has a socket.
ChangeRooms(s, new) ==
  rooms' = [r \in Rooms |-> IF r \in new THEN rooms[r] \cup {s} ELSE rooms[r] \ {s}]

\* sendEventToRoom: the connections the event is written to.
Recipients(r, ignore) == {sockets[s] : s \in {t \in rooms[r] \ ignore : sockets[t] # NoConn}}

(***************************************************************************)
(* Opening a connection.                                                   *)
(***************************************************************************)
\* requestTicket.  The request was authenticated some awaits ago, and its session may
\* have been logged out since; so may that of any other request below.
RequestTicket(s, t) ==
  /\ ticket[t] = NoTicket
  /\ ticket' = [ticket EXCEPT ![t] = s]
  /\ UNCHANGED <<users, vaults, loggedIn, memory, handlers, pending, overlapped, recycled>>

\* The upgrades of a session in progress.
Upgrading(s) == {c \in Conns : state[c] \in {"validating", "replacing"} /\ SidOf(c) = s}

\* Slip: whatever is presented as a ticket will do.
UpgradeUnchecked(c, t) ==
  /\ state[c] = "none"
  /\ state' = [state EXCEPT ![c] = "validating"]
  /\ presented' = [presented EXCEPT ![c] = t]
  /\ UNCHANGED <<tables, sockets, rooms, handlers, pending, overlapped, recycled>>

\* handleServerUpgrade up to the read of the ticket.  A ticket is not consumed,
\* and the expiry it is stored with (milliseconds, as EXAT seconds) never comes.
Upgrade(c, t) ==
  /\ state[c] = "none" /\ ticket[t] # NoTicket
  /\ state' = [state EXCEPT ![c] = "validating"]
  /\ presented' = [presented EXCEPT ![c] = t]
  /\ overlapped' = [overlapped EXCEPT ![ticket[t]] = @ \/ Upgrading(ticket[t]) # {}]
  /\ UNCHANGED <<tables, sockets, rooms, handlers, pending, recycled>>

\* The ticket is there; the session has a socket, which is purged first.
PurgeExisting(c) ==
  /\ state[c] = "validating" /\ sockets[SidOf(c)] # NoConn
  /\ LET old == sockets[SidOf(c)]
     IN state' = [Closed({old}) EXCEPT ![c] = "replacing"]
  /\ rooms' = [r \in Rooms |-> rooms[r] \ {SidOf(c)}]
  /\ sockets' = [sockets EXCEPT ![SidOf(c)] = NoConn]
  /\ UNCHANGED <<tables, presented, handlers, pending, overlapped, recycled>>

\* Slip: the purge is not waited for, or not made.
ReadyAtOnce(c) == state[c] \in {"validating", "replacing"}

\* The upgrade has nothing to wait for any more.
Ready(c) == \/ state[c] = "replacing"
            \/ state[c] = "validating" /\ sockets[SidOf(c)] = NoConn

\* Slip: the new socket is left out of its initial rooms.
EstablishOutsideRooms(c) ==
  /\ Ready(c)
  /\ state' = [state EXCEPT ![c] = "open"]
  /\ sockets' = [sockets EXCEPT ![SidOf(c)] = c]
  /\ UNCHANGED <<tables, presented, rooms, handlers, pending, overlapped, recycled>>

\* wss.handleUpgrade and its callback: the socket is stored, whatever is stored
\* there by now, and joins the room of its user.
Establish(c) ==
  /\ Ready(c)
  /\ state' = [state EXCEPT ![c] = "open"]
  /\ sockets' = [sockets EXCEPT ![SidOf(c)] = c]
  /\ ChangeRooms(SidOf(c), {UserRoom(UserOf[SidOf(c)])})
  /\ UNCHANGED <<tables, presented, handlers, pending, overlapped, recycled>>

\* The data store does not answer, or handleUpgrade finds the client gone.
HandshakeFails(c) ==
  /\ state[c] \in {"validating", "replacing"}
  /\ state' = [state EXCEPT ![c] = "closed"]
  /\ UNCHANGED <<tables, presented, sockets, rooms, handlers, pending, overlapped, recycled>>

\* The peer ends the connection.  There is no "close" listener: the controller
\* keeps the socket and its rooms.
PeerCloses(c) ==
  /\ state[c] \in {"open", "closing"}
  /\ state' = [state EXCEPT ![c] = "closed"]
  /\ UNCHANGED <<tables, presented, sockets, rooms, handlers, pending, overlapped, recycled>>

(***************************************************************************)
(* Messages from the client.  A connection that is closing still delivers  *)
(* what its peer had sent.                                                 *)
(***************************************************************************)
Listening(c) == state[c] \in {"open", "closing"}

HandlersInFlight == Cardinality(subscribing) + Cardinality(revalidating)

\* safeParse fails: always for a Buffer, else for an unrecognised message.
RejectMessage(c) ==
  /\ Listening(c)
  /\ PurgeSockets({SidOf(c)})
  /\ UNCHANGED <<tables, presented, handlers, pending, overlapped, recycled>>

\* Two messages with the same content in flight on a connection count as one.
AcceptSubscribe(c, want) ==
  /\ FrameDelivery = "object" /\ Listening(c) /\ HandlersInFlight < MaxHandlers
  /\ subscribing' = subscribing \cup {[conn |-> c, want |-> want, todo |-> want]}
  /\ UNCHANGED <<tables, memory, revalidating, pending, overlapped, recycled>>

\* A well-formed "subscribe" message arrives.
ReceiveSubscribe(c, want) ==
  \/ AcceptSubscribe(c, want)
  \/ FrameDelivery = "buffer" /\ RejectMessage(c)

\* Slip: only the first vault of the message is looked at.
CheckFirstVaultOnly(h, v) ==
  /\ h \in subscribing /\ v \in h.todo
  /\ subscribing' = (subscribing \ {h}) \cup
       (IF vaults[v] = UserOf[SidOf(h.conn)]
          THEN {[h EXCEPT !.todo = {}]} ELSE {})
  /\ UNCHANGED <<tables, memory, revalidating, pending, overlapped, recycled>>

\* requestSubscriptions looks at one vault after the other; one that is missing
\* or owned by someone else ends it with an "error" event.
CheckVault(h, v) ==
  /\ h \in subscribing /\ v \in h.todo
  /\ subscribing' = (subscribing \ {h}) \cup
       (IF vaults[v] = UserOf[SidOf(h.conn)]
          THEN {[h EXCEPT !.todo = @ \ {v}]} ELSE {})
  /\ UNCHANGED <<tables, memory, revalidating, pending, overlapped, recycled>>

\* changeRooms, then the "ack" event.  The session may have no socket by now, or
\* another one than the message came from.
ApplySubscriptions(h) ==
  /\ h \in subscribing /\ h.todo = {}
  /\ subscribing' = subscribing \ {h}
  /\ IF sockets[SidOf(h.conn)] # NoConn
       THEN ChangeRooms(SidOf(h.conn), {VaultRoom(v) : v \in h.want})
       ELSE UNCHANGED rooms
  /\ UNCHANGED <<tables, state, presented, sockets, revalidating, pending, overlapped, recycled>>

ReceiveTicket(c, t) ==
  /\ FrameDelivery = "object" /\ Listening(c) /\ HandlersInFlight < MaxHandlers
  /\ revalidating' = revalidating \cup {[conn |-> c, ticket |-> t]}
  /\ UNCHANGED <<tables, memory, subscribing, pending, overlapped, recycled>>

\* validateTicket with the existing connection: an "ack", or the session's
\* socket is purged.
CheckTicket(h) ==
  /\ h \in revalidating
  /\ revalidating' = revalidating \ {h}
  /\ IF ticket[h.ticket] = SidOf(h.conn)
       THEN UNCHANGED <<state, sockets, rooms>>
       ELSE PurgeSockets({SidOf(h.conn)})
  /\ UNCHANGED <<tables, presented, subscribing, pending, overlapped, recycled>>

(***************************************************************************)
(* Writes by other requests, whose events are dispatched when the answer   *)
(* of the data store or the database arrives.  An administrator's session  *)
(* can act on any user's account and vaults, the access token of a deleted *)
(* user is honoured until it expires, and a request that was authenticated *)
(* before a logout goes on after it.                                       *)
(***************************************************************************)
\* Two equal events whose dispatch is to come count as one.
Emit(e) == Cardinality(pending) < MaxPending /\ pending' = pending \cup {e}

\* Slip: logout tells nobody.
LogoutSilently(s) ==
  /\ loggedIn' = loggedIn \ {s}
  /\ UNCHANGED <<users, vaults, ticket, memory, handlers, pending, overlapped, recycled>>

Logout(s) ==
  /\ loggedIn' = loggedIn \ {s}
  /\ Emit([type |-> "logout", sid |-> s])
  /\ UNCHANGED <<users, vaults, ticket, memory, handlers, overlapped, recycled>>

UpdateUser(s, u) ==
  /\ u \in users
  /\ Emit([type |-> "user-update", user |-> u, sid |-> s])
  /\ UNCHANGED <<tables, memory, handlers, overlapped, recycled>>

\* The vaults of the user go with the row, and without an event of their own.
DeleteUser(s, u) ==
  /\ u \in users
  /\ users' = users \ {u}
  /\ vaults' = [v \in Vaults |-> IF vaults[v] = u THEN Nobody ELSE vaults[v]]
  /\ recycled' = recycled \cup {v \in Vaults : vaults[v] = u}
  /\ Emit([type |-> "user-delete", user |-> u, sid |-> s])
  /\ UNCHANGED <<loggedIn, ticket, memory, handlers, overlapped>>

\* VaultsService.create, for any owner, and update, which leaves the owner alone.
WriteVault(s, v, u) ==
  /\ u \in users
  /\ vaults[v] \in {Nobody, u}
  /\ vaults' = [vaults EXCEPT ![v] = u]
  /\ Emit([type |-> "vault-change", vault |-> v, user |-> u, sid |-> s])
  /\ UNCHANGED <<users, loggedIn, ticket, memory, handlers, overlapped, recycled>>

\* The event names the owner found before the deletion, who is an earlier one when the
\* id has come back to somebody else in between.
DeleteVault(s, v) ==
  /\ vaults[v] # Nobody
  /\ vaults' = [vaults EXCEPT ![v] = Nobody]
  /\ recycled' = recycled \cup {v}
  /\ \E u \in Users :
       /\ u = vaults[v] \/ v \in recycled
       /\ Emit([type |-> "vault-delete", vault |-> v, user |-> u, sid |-> s])
  /\ UNCHANGED <<users, loggedIn, ticket, memory, handlers, overlapped>>

(***************************************************************************)
(* handleServerEvent and syncActionCallback.                               *)
(***************************************************************************)
\* Slip: the loop over the sockets ends with the first one it closes.
FirstSocketOf(u) ==
  LET S == {s \in Sids : sockets[s] # NoConn /\ UserOf[s] = u}
  IN IF S = {} THEN {} ELSE {CHOOSE s \in S : TRUE}

\* The sockets "disconnect-user" closes.
SocketsOf(u) == {s \in Sids : sockets[s] # NoConn /\ UserOf[s] = u}

DeleteRoom(r) == rooms' = [rooms EXCEPT ![r] = {}] /\ UNCHANGED <<state, sockets>>

\* Sending an event changes nothing here; "user-delete" goes on to disconnect
\* the user, which leaves the user's room empty for "delete-rooms".
Dispatch(e) ==
  /\ e \in pending
  /\ pending' = pending \ {e}
  /\ \/ e.type = "logout" /\ PurgeSockets({e.sid})
     \/ e.type = "user-delete" /\ PurgeSockets(SocketsOf(e.user))
     \/ e.type = "vault-delete" /\ DeleteRoom(VaultRoom(e.vault))
     \/ e.type \in {"user-update", "vault-change"} /\ UNCHANGED <<state, sockets, rooms>>
  /\ UNCHANGED <<tables, presented, handlers, overlapped, recycled>>

\* The process dies with everything it keeps in memory.
Crash ==
  /\ \E c \in Conns : state[c] \notin {"none", "closed"}
  /\ state' = [c \in Conns |-> IF state[c] = "none" THEN "none" ELSE "closed"]
  /\ sockets' = [s \in Sids |-> NoConn]
  /\ rooms' = [r \in Rooms |-> {}]
  /\ subscribing' = {} /\ revalidating' = {} /\ pending' = {}
  /\ UNCHANGED <<tables, presented, overlapped, recycled>>

Connection(c) ==
  \/ \E t \in Tickets : Upgrade(c, t)
  \/ PurgeExisting(c) \/ Establish(c) \/ HandshakeFails(c) \/ PeerCloses(c)

Message(c) ==
  \/ RejectMessage(c)
  \/ \E want \in SUBSET Vaults : ReceiveSubscribe(c, want)
  \/ \E t \in Tickets : ReceiveTicket(c, t)

Request(s) ==
  \/ \E t \in Tickets : RequestTicket(s, t)
  \/ Logout(s)
  \/ \E u \in Users : UpdateUser(s, u) \/ DeleteUser(s, u)
  \/ \E v \in Vaults : DeleteVault(s, v) \/ \E u \in Users : WriteVault(s, v, u)

Next ==
  \/ \E c \in Conns : Connection(c) \/ Message(c)
  \/ \E h \in subscribing : (\E v \in h.todo : CheckVault(h, v)) \/ ApplySubscriptions(h)
  \/ \E h \in revalidating : CheckTicket(h)
  \/ \E s \in Sids : Request(s)
  \/ \E e \in pending : Dispatch(e)
  \/ Crash

Spec == Init /\ [][Next]_vars

\* The answer to a write that was made arrives, or the process has died.
Fairness == \A e \in Event : WF_vars(Dispatch(e))

FairSpec == Spec /\ Fairness

(***************************************************************************)
(* Properties.                                                             *)
(***************************************************************************)
Registered(s) == sockets[s] # NoConn

\* The three places that know a session agree: whoever is in a room has a
\* socket, and the socket stored for a session was opened for that session and
\* has not been closed by the server (purgeSocket, changeRooms).
RoomsAndSocketsAgree ==
  /\ \A r \in Rooms : \A s \in rooms[r] : Registered(s)
  /\ \A s \in Sids : Registered(s) =>
       state[sockets[s]] \in {"open", "closed"} /\ SidOf(sockets[s]) = s

\* A session is only ever in the room of its own user and in the rooms of vaults
\* its user has, whatever was asked for and however long the answer took
\* (validateTicket, requestSubscriptions): unless the vault has been deleted since
\* it was checked, for then the id may by now be somebody else's.
RoomsAreAuthorised ==
  \A s \in Sids :
    /\ \A u \in Users : s \in rooms[UserRoom(u)] => u = UserOf[s]
    /\ \A v \in Vaults \ recycled : s \in rooms[VaultRoom(v)] => vaults[v] = UserOf[s]

\* As long as the upgrades of a session do not overlap, the only open connection
\* of the session is the one the controller has stored: none escapes logout
\* (handleServerUpgrade purges the old socket before it opens the new one).
OpenSocketIsTracked ==
  \A c \in Conns : state[c] = "open" /\ ~overlapped[SidOf(c)] => sockets[SidOf(c)] = c

\* Whenever an event comes to be sent to a user's room, every stored socket of
\* that user other than the origin's gets it, however the connections came and
\* went in between (sendEventToRoom).
UserEventsReachEveryDevice ==
  \A e \in pending : e.type # "logout" =>
    \A s \in Sids \ {e.sid} : Registered(s) /\ UserOf[s] = e.user =>
      sockets[s] \in Recipients(UserRoom(e.user), {e.sid})

\* A connection of the session s that was opened and not closed.
OpenFor(s, c) == state[c] = "open" /\ SidOf(c) = s

\* The events that disconnect, and the sessions they do it to.
disconnections == {e \in pending : e.type \in {"logout", "user-delete"}}
Disconnected(e) == IF e.type = "logout" THEN {e.sid} ELSE {s \in Sids : UserOf[s] = e.user}

W == INSTANCE Switchboard WITH
  Sessions <- Sids,
  kept     <- {s \in Sids : ~overlapped[s]},
  lines    <- {l \in Sids \X Conns : ~overlapped[l[1]] /\ OpenFor(l[1], l[2])},
  spent    <- {c \in Conns : state[c] \in {"closing", "closed"}},
  orders   <- {<<e, Disconnected(e)>> : e \in disconnections}

\* The controller implements Switchboard: as long as its upgrades do not overlap, a
\* session has one open connection at a time, and when the event of a logout or of an
\* account's deletion has been dispatched no session it is about has one, whichever
\* connections were replaced, refused or lost in between.
SessionsHaveOneLine == W!Spec

\* If a session is logged out, each connection it had open before is closed,
\* unless its upgrades overlapped.  (An upgrade that is still in progress, and
\* any later one with a ticket the session still has, is not.)
LogoutDisconnects ==
  \A s \in Sids, c \in Conns :
    <>(s \notin loggedIn) =>
      (s \in loggedIn /\ OpenFor(s, c) ~> state[c] # "open" \/ overlapped[s])

\* The same for every session of a user whose account is deleted.
DeletionDisconnects ==
  \A s \in Sids, c \in Conns :
    <>(UserOf[s] \notin users) =>
      (UserOf[s] \in users /\ OpenFor(s, c) ~> state[c] # "open" \/ overlapped[s])

(***************************************************************************)
(* What the documentation says (docs/server/reference-websocket.md).       *)
(***************************************************************************)
\* "There can only be one active websocket connection per session"
OneConnectionPerSession ==
  \A c, d \in Conns : state[c] = "open" /\ state[d] = "open" /\ c # d => SidOf(c) # SidOf(d)
=============================================================================
