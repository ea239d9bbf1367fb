------------------------------- MODULE Client -------------------------------
(***************************************************************************)
(* The tokens of a device: ServerClient (server-client.ts) over            *)
(* SecretsStorage and GeneralStorage of the local package.  The access     *)
(* token is kept in memory, the refresh token in local storage, so that    *)
(* only the refresh token is left when the page is reloaded.               *)
(*                                                                         *)
(* Any number of calls of the client's methods run at once, and each await *)
(* lets the others go on.  fetch resolves with whatever the server         *)
(* answers, an error as well as a success, and rejects only when there is  *)
(* no answer: so the code never finds a response in an exception, and the  *)
(* branches for ACCESS_UNAUTHORIZED, in query and in refresh, never run.   *)
(***************************************************************************)
EXTENDS Naturals

CONSTANT Calls  \* slots: one call of a method runs in each at a time

VARIABLES
  access,   \* the access token in memory
  refresh,  \* the refresh token in local storage
  pc,       \* where the call in a slot is
  method,   \* which method it is
  device    \* history: what became of the last login or logout

vars == <<access, refresh, pc, method, device>>

\* missing: none, or deleted.  undefined: what an error answer has in the token's place.
Token == {"missing", "undefined", "token"}

\* refresh: about to call refresh.  refreshing: awaiting the server's answer to it.
\* saveRefresh: has saved the access token of the answer.  retry: about to send the query
\* again.  fetch: awaiting its answer.  login: awaiting that of a login; saveLogin: the
\* application has saved its access token.  logout: has found no refresh token.
PCs == {"idle", "refresh", "refreshing", "saveRefresh", "retry", "fetch",
        "login", "saveLogin", "logout"}

\* joining, in: by a login that no call that writes tokens overlapped.  leaving, out: by
\* a logout that no login overlapped, or opened without a stored token.  opened: the page
\* has been opened with a stored token, and no call has needed it yet.  unsettled: one
\* has, or calls have overlapped, or a refresh was asked for.
Stages == {"joining", "in", "leaving", "out", "opened", "unsettled"}

TypeOK ==
  /\ access \in Token
  /\ refresh \in Token
  /\ pc \in [Calls -> PCs]
  /\ method \in [Calls -> {"query", "refresh", "login", "logout"}]
  /\ device \in Stages

\* What a page finds that is opened.
Opened(stored) == IF stored = "token" THEN "opened" ELSE "out"

\* Any of the three may have been left in local storage.
Init ==
  /\ access = "missing"
  /\ refresh \in Token
  /\ pc = [c \in Calls |-> "idle"]
  /\ method = [c \in Calls |-> "query"]
  /\ device = Opened(refresh)

\* The page is reloaded, or closed and opened again: the memory is lost, with every call
\* under way.
Reload ==
  /\ access' = "missing"
  /\ pc' = [c \in Calls |-> "idle"]
  /\ device' = Opened(refresh)
  /\ UNCHANGED <<refresh, method>>

Start(c, m, l) ==
  /\ pc[c] = "idle"
  /\ pc' = [pc EXCEPT ![c] = l]
  /\ method' = [method EXCEPT ![c] = m]

Goto(c, from, to) ==
  /\ pc[c] = from
  /\ pc' = [pc EXCEPT ![c] = to]
  /\ UNCHANGED method

\* No call other than c is at one of the steps.
Alone(c, steps) == \A d \in Calls \ {c} : pc[d] \notin steps

Refreshing == {"refresh", "refreshing", "saveRefresh"}

(***************************************************************************)
(* query, and refresh, which it calls when there is no access token.       *)
(***************************************************************************)
\* Slip: a query refreshes first, whether there is a token or not.
QueryRefreshing(c) ==
  /\ Start(c, "query", "refresh")
  /\ UNCHANGED <<access, refresh, device>>

Query(c) ==
  /\ Start(c, "query", IF access = "token" THEN "fetch" ELSE "refresh")
  /\ UNCHANGED <<access, refresh, device>>

Refresh(c) ==
  /\ Start(c, "refresh", "refresh")
  /\ UNCHANGED <<access, refresh, device>>

\* Slip: what the load of a stored token yields, a promise, is stored in its place.
LoadRefreshTokenAsPromise == refresh' = IF refresh = "missing" THEN "missing" ELSE "promise"

\* loadRefreshToken: what saveRefreshToken has stored, a bare string, is not JSON; the
\* load removes it and yields null.  refresh does not wait for it and sends a promise,
\* which is {} in JSON.
LoadRefreshToken == refresh' = "missing"

SendRefresh(c) ==
  /\ Goto(c, "refresh", "refreshing")
  /\ LoadRefreshToken
  /\ device' = IF \/ device \in {"leaving", "out"}
                  \/ device # "opened" /\ method[c] = "query"
                 THEN device ELSE "unsettled"
  /\ UNCHANGED access

\* The server answers that the body is not valid, and the answer has no tokens.
AnswerRefresh(c) ==
  /\ Goto(c, "refreshing", "saveRefresh")
  /\ access' = "undefined"
  /\ UNCHANGED <<refresh, device>>

SaveRefresh(c) ==
  /\ Goto(c, "saveRefresh", IF method[c] = "query" THEN "retry" ELSE "idle")
  /\ refresh' = "undefined"
  /\ UNCHANGED <<access, device>>

\* Slip: the query that is sent again may refresh again.
RetryAnew(c) ==
  /\ Goto(c, "retry", IF access = "token" THEN "fetch" ELSE "refresh")
  /\ UNCHANGED <<access, refresh, device>>

\* With whatever access token there is, and without another refresh.
Retry(c) ==
  /\ Goto(c, "retry", "fetch")
  /\ UNCHANGED <<access, refresh, device>>

\* The server answers the query, or a fetch fails; either ends the call.
Settle(c) ==
  /\ \E l \in {"fetch", "refreshing", "login"} : Goto(c, l, "idle")
  /\ UNCHANGED <<access, refresh, device>>

(***************************************************************************)
(* login, the tokens of which the application saves, and logout.           *)
(***************************************************************************)
Login(c) ==
  /\ Start(c, "login", "login")
  /\ UNCHANGED <<access, refresh, device>>

SaveLoginAccess(c) ==
  /\ Goto(c, "login", "saveLogin")
  /\ access' = "token"
  /\ device' = IF Alone(c, Refreshing \cup {"logout"}) THEN "joining" ELSE "unsettled"
  /\ UNCHANGED refresh

SaveLoginRefresh(c) ==
  /\ Goto(c, "saveLogin", "idle")
  /\ refresh' = "token"
  /\ device' = IF device \in {"joining", "in"} THEN "in" ELSE "unsettled"
  /\ UNCHANGED access

\* loadRefreshToken yields null here too, so that the server is not told.
Logout(c) ==
  /\ Start(c, "logout", "logout")
  /\ LoadRefreshToken
  /\ device' = IF Alone(c, {"saveLogin"}) THEN "leaving" ELSE "unsettled"
  /\ UNCHANGED access

\* Slip: without a refresh token there is nothing to delete.
GiveUpLogout(c) ==
  /\ Goto(c, "logout", "idle")
  /\ device' = IF device \in {"leaving", "out"} THEN "out" ELSE "unsettled"
  /\ UNCHANGED <<access, refresh>>

DeleteAccessToken(c) ==
  /\ Goto(c, "logout", "idle")
  /\ access' = "missing"
  /\ device' = IF device \in {"leaving", "out"} THEN "out" ELSE "unsettled"
  /\ UNCHANGED refresh

Step(c) ==
  \/ SendRefresh(c)
  \/ AnswerRefresh(c)
  \/ SaveRefresh(c)
  \/ Retry(c)
  \/ Settle(c)
  \/ SaveLoginAccess(c)
  \/ SaveLoginRefresh(c)
  \/ DeleteAccessToken(c)

Next ==
  \/ \E c \in Calls : Query(c) \/ Refresh(c) \/ Login(c) \/ Logout(c) \/ Step(c)
  \/ Reload

\* The event loop runs what is due, and a fetch settles in the end.
Fairness == \A c \in Calls : WF_vars(Step(c))

Spec == Init /\ [][Next]_vars /\ Fairness

(***************************************************************************)
(* Properties.                                                             *)
(***************************************************************************)
\* In the page in which the login was made, only what was under way then, or a logout or
\* a refresh the application asks for later, costs the device its tokens: no number of
\* queries does.  A reload costs it the access token, and leaves the refresh token until
\* some call needs it; the first query does (SendRefresh), and is left without either.
LoginLasts ==
  /\ device = "in" => access = "token" /\ refresh = "token"
  /\ device = "opened" => refresh = "token"

\* A logout leaves no token of a login, a page opened without a stored token has none,
\* and nothing but another login brings one back, whatever queries and refreshes are
\* under way, and however often the page is reloaded.
LogoutLasts == device = "out" => access # "token" /\ refresh # "token"

\* A query that fails to refresh is not sent again and again: every call ends.
CallsSettle == \A c \in Calls : pc[c] # "idle" ~> pc[c] = "idle"

\* The most steps a call can still take, wherever it is.
StepsLeft ==
  [l \in PCs |->
     CASE l = "refresh" -> 5 [] l = "refreshing" -> 4 [] l = "saveRefresh" -> 3
       [] l \in {"retry", "login"} -> 2 [] l \in {"fetch", "saveLogin", "logout"} -> 1
       [] l = "idle" -> 0]

\* Why calls settle, of any number of them: whatever the others do to the tokens a call
\* looks at on its way, each of its steps brings it nearer to its end.
CallsAdvance ==
  [][\A c \in Calls : pc[c] # "idle" /\ pc'[c] # pc[c] =>
       StepsLeft[pc'[c]] < StepsLeft[pc[c]]]_vars
=============================================================================
