------------------------------ MODULE Sessions ------------------------------
(***************************************************************************)
(* The token sessions of the server: TokenService (token.service.ts), the  *)
(* login, refresh and logout handlers of AuthService (auth.service.ts) and *)
(* the authentication guard of AccessControlService.                       *)
(*                                                                         *)
(* A session is a sid.  The data store (Redis) keeps, per sid, a counter   *)
(* `cid-<sid>` and possibly a blacklist entry `bl-<sid>`; a token pair is  *)
(* honoured while it has not expired, its sid is not blacklisted and its   *)
(* cid is the stored counter.  Handlers are async functions: every await   *)
(* on the data store or the database is a step of its own, and the         *)
(* handlers of concurrent requests interleave between the steps.           *)
(***************************************************************************)
EXTENDS Integers, FiniteSets

CONSTANTS
  Users,        \* user ids
  Sids,         \* the session ids createUUID can return
  Requests,     \* request slots: one handler runs in each at a time
  AccessLife,   \* seconds an access token lives (15 mins as shipped)
  RefreshLife,  \* seconds a refresh token lives (7 days as shipped)
  MsPerSecond,  \* Date.getTime() counts in milliseconds, EXAT in seconds
  MaxNow,       \* bound on the clock
  MaxCounter,   \* bound on a session's counter
  NoPair        \* the token of a slot in which no handler runs

ASSUME LifeAssumption ==
  /\ AccessLife \in Nat /\ RefreshLife \in Nat /\ MsPerSecond \in Nat
  /\ MaxNow \in Nat /\ MaxCounter \in Nat
  /\ 0 < AccessLife /\ AccessLife <= RefreshLife

VARIABLES
  now,        \* the time, in seconds
  users,      \* the rows of the users table
  counter,    \* data store: cid-<sid> -> counter value and expiry, val 0 when never set
  blacklist,  \* data store: bl-<sid> -> expiry of the entry, 0 when never set
  pairs,      \* every token pair the server has signed
  pc,         \* where the handler in a slot is
  op,         \* which handler it is
  tok,        \* the pair whose token was presented (login: the session being made)
  seen,       \* the counter value the handler goes on with
  orderly     \* history: no two rotations or logouts of the session overlapped,
              \* and no token of it expired in the middle of its own validation

vars == <<now, users, counter, blacklist, pairs, pc, op, tok, seen, orderly>>
store == <<counter, blacklist>>
locals == <<op, tok, seen>>

(***************************************************************************)
(* Data.                                                                   *)
(***************************************************************************)
\* A pair is what both its tokens carry; jsonwebtoken adds the time of signing
\* (iat) and derives exp from it.  Equal claims make equal tokens.
Pair == [sid : Sids, user : Users, cid : Nat, iat : Nat]

Ops == {"login", "refresh", "logout", "access"}

PCs == {"idle", "create", "blacklist", "counter", "user", "reread", "store",
        "sign", "ban", "granted"}

ASSUME NoPairAssumption == NoPair \notin Pair

AccessExp(p)  == p.iat + AccessLife
RefreshExp(p) == p.iat + RefreshLife
Exp(o, p)     == IF o = "access" THEN AccessExp(p) ELSE RefreshExp(p)

\* Slip: the time to expiry is subtracted.
ParseTokenExpirySubtracted == MsPerSecond * (now - RefreshLife)

\* Slip: the milliseconds are not there to hide the delay between SET and sign.
ParseTokenExpiryInSeconds == now + RefreshLife

\* _parseTokenExpiry: the expiry it returns is in milliseconds.
ParseTokenExpiry == MsPerSecond * (now + RefreshLife)

\* DataStoreService.getItem on the two keys: EXAT takes seconds.
Blacklisted(s)   == now < blacklist[s]
StoredCounter(s) == IF now < counter[s].exat THEN counter[s].val ELSE 0

\* What jsonwebtoken.verify and _validateCustomAuthClaims answer if nothing
\* moves between their steps.
Honoured(o, p) == /\ now < Exp(o, p)
                  /\ ~Blacklisted(p.sid)
                  /\ StoredCounter(p.sid) = p.cid

\* The handlers that write session state and present a token of s.
Open(s) == {r \in Requests : /\ pc[r] # "idle"
                             /\ op[r] \in {"refresh", "logout"}
                             /\ tok[r].sid = s}

Fresh(s) == /\ counter[s].val = 0
            /\ \A r \in Requests : pc[r] # "idle" => tok[r].sid # s

\* The handler in r goes on to l with the token it has, or returns.
Goto(r, l) == pc' = [pc EXCEPT ![r] = l] /\ UNCHANGED <<op, tok>>
Return(r)  == /\ pc' = [pc EXCEPT ![r] = "idle"]
              /\ op' = [op EXCEPT ![r] = "login"]
              /\ tok' = [tok EXCEPT ![r] = NoPair]
              /\ seen' = [seen EXCEPT ![r] = 0]
Start(r, l, o, p) == /\ pc[r] = "idle"
                     /\ pc' = [pc EXCEPT ![r] = l]
                     /\ op' = [op EXCEPT ![r] = o]
                     /\ tok' = [tok EXCEPT ![r] = p]

HandlersOK ==
  /\ pc \in [Requests -> PCs]
  /\ op \in [Requests -> Ops]
  /\ tok \in [Requests -> Pair \cup {NoPair}]
  /\ \A r \in Requests : pc[r] # "idle" => tok[r] \in Pair
  /\ seen \in [Requests -> Nat]

TypeOK ==
  /\ now \in Nat
  /\ users \subseteq Users
  /\ counter \in [Sids -> [val : Nat, exat : Nat]]
  /\ blacklist \in [Sids -> Nat]
  /\ pairs \subseteq Pair
  /\ orderly \in [Sids -> BOOLEAN]
  /\ HandlersOK

Init ==
  /\ now = 0
  /\ users = Users
  /\ counter = [s \in Sids |-> [val |-> 0, exat |-> 0]]
  /\ blacklist = [s \in Sids |-> 0]
  /\ pairs = {}
  /\ pc = [r \in Requests |-> "idle"]
  /\ op = [r \in Requests |-> "login"]
  /\ tok = [r \in Requests |-> NoPair]
  /\ seen = [r \in Requests |-> 0]
  /\ orderly = [s \in Sids |-> TRUE]

(***************************************************************************)
(* Login: look the user up and check the password, then createNewTokenPair *)
(***************************************************************************)
Login(r, u, s) ==
  /\ u \in users /\ Fresh(s)
  /\ Start(r, "create", "login", [sid |-> s, user |-> u, cid |-> 0, iat |-> now])
  /\ seen' = [seen EXCEPT ![r] = 1]
  /\ UNCHANGED <<now, users, store, pairs, orderly>>

\* _setSessionCounterId: SET cid-<sid> <n> EXAT <expiry>.
SetSessionCounterId(r) ==
  counter' = [counter EXCEPT ![tok[r].sid] =
                [val |-> seen[r], exat |-> ParseTokenExpiry]]

StoreCounter(r) ==
  /\ pc[r] \in {"create", "store"}
  /\ SetSessionCounterId(r)
  /\ Goto(r, "sign")
  /\ UNCHANGED <<now, users, blacklist, pairs, seen, orderly>>

\* _getTokenPair, and the response that carries the pair to the client.
Sign(r) ==
  /\ pc[r] = "sign"
  /\ pairs' = pairs \cup {[tok[r] EXCEPT !.cid = seen[r], !.iat = now]}
  /\ Return(r)
  /\ UNCHANGED <<now, users, store, orderly>>

(***************************************************************************)
(* Token validation, shared by refresh, logout and the access guard.       *)
(***************************************************************************)
\* jsonwebtoken.verify, before the first await: signature and expiry.
Present(r, o, p) ==
  /\ p \in pairs /\ now < Exp(o, p)
  /\ Start(r, "blacklist", o, p)
  /\ orderly' = [orderly EXCEPT ![p.sid] =
                   @ /\ (o \in {"refresh", "logout"} => Open(p.sid) = {})]
  /\ UNCHANGED <<now, users, store, pairs, seen>>

\* Slip: the blacklist is not consulted.
SkipBlacklist(r) ==
  /\ pc[r] = "blacklist"
  /\ Goto(r, "counter")
  /\ UNCHANGED <<now, users, store, pairs, seen, orderly>>

\* _isSessionBlacklisted
ReadBlacklist(r) ==
  /\ pc[r] = "blacklist"
  /\ IF Blacklisted(tok[r].sid)
       THEN Return(r)
       ELSE Goto(r, "counter") /\ UNCHANGED seen
  /\ UNCHANGED <<now, users, store, pairs, orderly>>

\* Where each handler goes on once its token is valid.
AfterValidation(o) == CASE o = "refresh" -> "user"
                        [] o = "logout"  -> "ban"
                        [] o = "access"  -> "granted"

\* The comparison of the token's cid with the stored counter.
ReadCounter(r) ==
  /\ pc[r] = "counter"
  /\ IF StoredCounter(tok[r].sid) = tok[r].cid
       THEN Goto(r, AfterValidation(op[r])) /\ UNCHANGED seen
       ELSE Return(r)
  /\ UNCHANGED <<now, users, store, pairs, orderly>>

(***************************************************************************)
(* Refresh, after validation: look the user up, then getRefreshedTokenPair *)
(***************************************************************************)
\* Slip: the token's own claim is trusted, the row is not looked up.
FindUserInToken(r) ==
  /\ pc[r] = "user"
  /\ Goto(r, "reread")
  /\ UNCHANGED <<now, users, store, pairs, seen, orderly>>

FindUser(r) ==
  /\ pc[r] = "user"
  /\ IF tok[r].user \in users
       THEN Goto(r, "reread") /\ UNCHANGED seen
       ELSE Return(r)
  /\ UNCHANGED <<now, users, store, pairs, orderly>>

\* Slip: the refreshed pair keeps the counter it was asked for with.
RereadCounterUnchanged(r) ==
  /\ pc[r] = "reread"
  /\ Goto(r, "store")
  /\ seen' = [seen EXCEPT ![r] = StoredCounter(tok[r].sid)]
  /\ UNCHANGED <<now, users, store, pairs, orderly>>

\* Slip: the counter alternates between two values, enough to tell the current
\* pair from the one before it.
RereadCounterAlternating(r) ==
  /\ pc[r] = "reread"
  /\ Goto(r, "store")
  /\ seen' = [seen EXCEPT ![r] = IF StoredCounter(tok[r].sid) = 1 THEN 2 ELSE 1]
  /\ UNCHANGED <<now, users, store, pairs, orderly>>

\* getRefreshedTokenPair reads the counter a second time.
RereadCounter(r) ==
  /\ pc[r] = "reread"
  /\ LET n == StoredCounter(tok[r].sid)
     IN /\ n < MaxCounter
        /\ IF n # 0
             THEN Goto(r, "store") /\ seen' = [seen EXCEPT ![r] = n + 1]
             ELSE Return(r)
  /\ UNCHANGED <<now, users, store, pairs, orderly>>

(***************************************************************************)
(* Logout, after validation: blacklistSession until the token's own exp.   *)
(***************************************************************************)
\* Slip: the entry lasts as long as an access token.
BanForAccessLife(r) ==
  /\ pc[r] = "ban"
  /\ blacklist' = [blacklist EXCEPT ![tok[r].sid] = AccessExp(tok[r])]
  /\ Return(r)
  /\ UNCHANGED <<now, users, counter, pairs, orderly>>

Ban(r) ==
  /\ pc[r] = "ban"
  /\ blacklist' = [blacklist EXCEPT ![tok[r].sid] = RefreshExp(tok[r])]
  /\ Return(r)
  /\ UNCHANGED <<now, users, counter, pairs, orderly>>

\* An authenticated request has been answered.
Complete(r) ==
  /\ pc[r] = "granted"
  /\ Return(r)
  /\ UNCHANGED <<now, users, store, pairs, orderly>>

\* The handler rejects because the data store or the database answers with an
\* error, or is gone because the process has died, which ends every handler: what
\* it has already written stays.
Fail(r) ==
  /\ pc[r] \notin {"idle", "granted"}
  /\ Return(r)
  /\ UNCHANGED <<now, users, store, pairs, orderly>>

(***************************************************************************)
(* The environment: account deletion and time.                             *)
(***************************************************************************)
\* UsersService.delete removes the row; nothing is done to the user's tokens.
DeleteUser(u) ==
  /\ u \in users
  /\ users' = users \ {u}
  /\ UNCHANGED <<now, store, pairs, pc, locals, orderly>>

\* A token being validated that the clock expires before both reads are done.
ExpiringInValidation(s) ==
  \E r \in Requests : /\ pc[r] \in {"blacklist", "counter"}
                      /\ tok[r].sid = s
                      /\ Exp(op[r], tok[r]) <= now + 1

Tick ==
  /\ now < MaxNow
  /\ now' = now + 1
  /\ orderly' = [s \in Sids |-> orderly[s] /\ ~ExpiringInValidation(s)]
  /\ UNCHANGED <<users, store, pairs, pc, locals>>

Handler(r) ==
  \/ StoreCounter(r) \/ Sign(r)
  \/ ReadBlacklist(r) \/ ReadCounter(r)
  \/ FindUser(r) \/ RereadCounter(r)
  \/ Ban(r) \/ Complete(r) \/ Fail(r)

Next ==
  \/ \E r \in Requests :
       \/ \E u \in Users, s \in Sids : Login(r, u, s)
       \/ \E o \in Ops \ {"login"}, p \in pairs : Present(r, o, p)
       \/ Handler(r)
  \/ \E u \in Users : DeleteUser(u)
  \/ Tick

Spec == Init /\ [][Next]_vars

(***************************************************************************)
(* Properties.                                                             *)
(***************************************************************************)
\* At most one refresh token of an orderly session is honoured at any time:
\* rotation leaves no second live copy (getRefreshedTokenPair).
OneLivePair ==
  \A s \in Sids : orderly[s] =>
    \A p, q \in pairs : /\ p.sid = s /\ q.sid = s
                        /\ Honoured("refresh", p) /\ Honoured("refresh", q)
                        => p = q

\* Once an orderly session has been logged out, none of its tokens is ever
\* honoured again, although the blacklist entry itself expires (logout writes
\* it with the expiry of the one token it was given).
LogoutIsFinal ==
  \A s \in Sids : orderly[s] /\ blacklist[s] # 0 =>
    \A p \in pairs : p.sid = s =>
      ~Honoured("refresh", p) /\ ~Honoured("access", p)

\* A logged out orderly session is never given another token pair: no refresh
\* that validated before the logout signs after it.
NoRefreshAfterLogout ==
  [][\A s \in Sids : orderly[s] /\ blacklist[s] # 0 =>
       {p \in pairs' : p.sid = s} = {p \in pairs : p.sid = s}]_vars

\* The stored counter of an orderly session never falls back, so a token that
\* was rotated away stays dead (the counter is read, then written: not an INCR).
CounterNeverFallsBack ==
  [][\A s \in Sids : orderly[s]' => counter'[s].val >= counter[s].val]_vars

\* Requests that act for u and are past the last check that u exists.
PastUserLookup(u) ==
  {r \in Requests : pc[r] \in {"create", "reread", "store", "sign"} /\ tok[r].user = u}

\* When a user has been deleted and the handlers that had already found the row
\* are through, the user's sessions are never extended again, whichever of the
\* still unexpired refresh tokens is presented.
DeletedUserStaysOut ==
  [][\A u \in Users \ users : PastUserLookup(u) = {} =>
       /\ PastUserLookup(u)' = {}
       /\ {p \in pairs' : p.user = u} = {p \in pairs : p.user = u}]_vars

\* The counter a token is compared with never expires before the token: the
\* data store cannot end a session early.
CounterOutlivesTokens ==
  \A p \in pairs : now < RefreshExp(p) => now < counter[p.sid].exat

\* What Rotation knows of the sessions: the refresh tokens of the orderly ones.
grantedTokens == {p \in pairs : orderly[p.sid]}

R == INSTANCE Rotation WITH
  Sessions <- Sids,
  kept     <- {s \in Sids : orderly[s]},
  ended    <- {s \in Sids : orderly[s] /\ blacklist[s] # 0},
  granted  <- grantedTokens,
  valid    <- {p \in grantedTokens : Honoured("refresh", p)}

\* The handlers implement Rotation: a refresh token is honoured from the moment it
\* is signed, and once it no longer is, because another was asked for, its time is
\* up or its session was logged out, it never is again, whatever expires in the
\* data store and whatever is stored after it.
TokensRotate == R!Spec

(***************************************************************************)
(* What the documentation says, without the restriction to orderly         *)
(* sessions.                                                               *)
(***************************************************************************)
\* docs/server/authentication.md: "if an attempt is made to re-use any previous
\* tokens, the counter ID will be old and therefore the request will be
\* rejected".  A pair is dead once a later generation has been issued.
OldTokensAreRejected ==
  \A p, q \in pairs : p.sid = q.sid /\ p.cid < q.cid => ~Honoured("refresh", p)

\* docs/server/authentication.md: after a logout "their tokens will be
\* blacklisted until they expire".
LoggedOutTokensAreBlacklisted ==
  \A p \in pairs : blacklist[p.sid] # 0 =>
    ~Honoured("refresh", p) /\ ~Honoured("access", p)
=============================================================================
