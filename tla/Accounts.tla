------------------------------ MODULE Accounts ------------------------------
(***************************************************************************)
(* User accounts, the verification of their addresses, and what access     *)
(* tokens say of them: UsersService with its database service, the email   *)
(* verification of AuthService, and the claims TokenService signs.  That a *)
(* session is good is the business of Sessions: here any token that has    *)
(* been signed may be presented, and the server may reject it.             *)
(*                                                                         *)
(* A handler reads a row, awaits something, and then signs or writes from  *)
(* what it has read; the row may have changed in between.                  *)
(***************************************************************************)
EXTENDS AccessControl, Naturals

CONSTANTS
  Requests,    \* request slots: one handler runs in each at a time
  Accounts,    \* the ids the database generates, each at most once
  Emails,      \* addresses
  MaxChanges,  \* bound on the changes made to rows
  MaxClock,    \* bound on the number of verifications begun
  NoRow,       \* an id there is no row of
  NoCall,      \* what a slot without a handler is doing
  NoEmail,     \* what a deletion changes the address to
  OldEmail     \* what an update of the name alone changes it to

ASSUME BoundsAssumption == MaxChanges \in Nat /\ MaxClock \in Nat
ASSUME EmailAssumption == NoEmail \notin Emails /\ OldEmail \notin Emails \cup {NoEmail}

VARIABLES
  account,    \* the users table
  used,       \* ids that have been generated
  clock,      \* the time at which the last verification began
  tokens,     \* claims of the access tokens that have been signed
  listeners,  \* accounts whose USER_CREATE listener is about to read their row
  mails,      \* verification mails that have been sent
  call,       \* the handler that runs in a slot
  changes,    \* history: the number of changes made to rows
  moved,      \* history: accounts whose address has been changed
  served      \* history: accounts an update or a deletion was executed for

history == <<moved, served>>
vars == <<account, used, clock, tokens, listeners, mails, call, changes, history>>

\* Times are counted by the verifications; 0 is NULL.
Row == [email : Emails, verifiedAt : Nat, firstVerifiedAt : Nat, role : Roles]

Claims == [id : Accounts, verified : BOOLEAN, role : Roles]

\* What a change asks for.
NewEmails == Emails \cup {NoEmail, OldEmail}

\* A verification token names the account only; to: the address it is mailed to.
Mail == [sub : Accounts, to : Emails]

\* insert: about to insert a user.  target: about to read the target of a change.
\* change: about to update or delete it.  verify: about to mark the account as verified,
\* having read whether there is a first verification to keep, at a time.  mail: about
\* to send a mail.  sign: about to sign an access token.  overtaken: history, the row
\* has changed since it was read.
Call ==
  [stage : {"insert"}, email : Emails]
    \cup [stage : {"target", "change"}, by : Accounts, user : Accounts,
          email : NewEmails]
    \cup [stage : {"verify"}, user : Accounts, keep : BOOLEAN, at : Nat]
    \cup [stage : {"mail"}, mail : Mail]
    \cup [stage : {"sign"}, claims : Claims, overtaken : BOOLEAN]

ASSUME NoRowAssumption == NoRow \notin Row
ASSUME NoCallAssumption == NoCall \notin Call

TypeOK ==
  /\ account \in [Accounts -> Row \cup {NoRow}]
  /\ used \subseteq Accounts
  /\ clock \in Nat
  /\ tokens \subseteq Claims
  /\ listeners \subseteq Accounts
  /\ mails \subseteq Mail
  /\ call \in [Requests -> Call \cup {NoCall}]
  /\ changes \in Nat
  /\ moved \subseteq Accounts
  /\ served \subseteq Accounts

\* The operator of the server has registered, been verified, and become administrator
\* by a change made in the database.
Init ==
  \E u \in Accounts, email \in Emails :
    /\ account = [v \in Accounts |->
                    IF v = u
                      THEN [email |-> email, verifiedAt |-> 1, firstVerifiedAt |-> 1, role |-> "admin"]
                      ELSE NoRow]
    /\ used = {u}
    /\ clock = 1
    /\ tokens = {}
    /\ listeners = {}
    /\ mails = {[sub |-> u, to |-> email]}
    /\ call = [r \in Requests |-> NoCall]
    /\ changes = 0
    /\ moved = {}
    /\ served = {}

Start(r, c) == call[r] = NoCall /\ call' = [call EXCEPT ![r] = c]

Return(r) == call' = [call EXCEPT ![r] = NoCall]

At(r, stage) == call[r] # NoCall /\ call[r].stage = stage

(***************************************************************************)
(* The table.                                                              *)
(***************************************************************************)
Exists(u) == account[u] # NoRow

\* email_unique
Free(email, u) == \A v \in Accounts \ {u} : Exists(v) => account[v].email # email

ClaimsOf(u, row) == [id |-> u, verified |-> row.verifiedAt # 0, role |-> row.role]

\* A change of the row of u overtakes what the handler in q is about to sign of it.
Overtake(q, u) ==
  IF At(q, "sign") THEN [call[q] EXCEPT !.overtaken = @ \/ call[q].claims.id = u] ELSE call[q]

\* A statement changes the row of u; the handler in r goes on as c.
Write(u, row, r, c) ==
  /\ changes < MaxChanges
  /\ changes' = changes + 1
  /\ account' = [account EXCEPT ![u] = row]
  /\ call' = [q \in Requests |-> IF q = r THEN c ELSE Overtake(q, u)]

(***************************************************************************)
(* Signing access tokens.                                                  *)
(***************************************************************************)
Signing(claims) == [stage |-> "sign", claims |-> claims, overtaken |-> FALSE]

\* The counter of the session has been stored (Sessions); the token is signed.
Sign(r) ==
  /\ At(r, "sign")
  /\ tokens' = tokens \cup {call[r].claims}
  /\ Return(r)
  /\ UNCHANGED <<account, used, clock, listeners, mails, changes, history>>

\* The password is checked against the row, and a token made from it.
Login(r, u) ==
  /\ Exists(u)
  /\ Start(r, Signing(ClaimsOf(u, account[u])))
  /\ UNCHANGED <<account, used, clock, tokens, listeners, mails, changes, history>>

\* Slip: the claims of the token presented are signed again.
RefreshClaims(r, t) ==
  /\ t \in tokens
  /\ Exists(t.id)
  /\ Start(r, Signing(t))
  /\ UNCHANGED <<account, used, clock, tokens, listeners, mails, changes, history>>

\* The user of the session is read again.
Refresh(r, t) ==
  /\ t \in tokens
  /\ Exists(t.id)
  /\ Start(r, Signing(ClaimsOf(t.id, account[t.id])))
  /\ UNCHANGED <<account, used, clock, tokens, listeners, mails, changes, history>>

(***************************************************************************)
(* Registration.                                                           *)
(***************************************************************************)
\* The settings allow it (Settings), and the password is being hashed.
Register(r, email) ==
  /\ Start(r, [stage |-> "insert", email |-> email])
  /\ UNCHANGED <<account, used, clock, tokens, listeners, mails, changes, history>>

\* The insert returns the row.  The listener of USER_CREATE runs on its own: dispatch
\* does not wait for it.
Insert(r, u) ==
  /\ At(r, "insert")
  /\ u \notin used
  /\ Free(call[r].email, u)
  /\ LET row == [email |-> call[r].email, verifiedAt |-> 0, firstVerifiedAt |-> 0, role |-> "user"] IN
       Write(u, row, r, Signing(ClaimsOf(u, row)))
  /\ used' = used \cup {u}
  /\ listeners' = listeners \cup {u}
  /\ UNCHANGED <<clock, tokens, mails, history>>

(***************************************************************************)
(* Updates and deletions.  The rules are checked against the claims of the *)
(* token alone, unless the account is somebody else's.                     *)
(***************************************************************************)
\* Slip: the rules are those for a verified requester, whoever asks.
ReceiveUnverified(r, t, u, email) ==
  /\ t \in tokens
  /\ Permitted([t EXCEPT !.verified = TRUE], "users", IF email = NoEmail THEN "delete" ELSE "update", u)
  /\ Start(r, [stage |-> IF ReadsTarget(t, u) THEN "target" ELSE "change",
               by |-> t.id, user |-> u, email |-> email])
  /\ UNCHANGED <<account, used, clock, tokens, listeners, mails, changes, history>>

Receive(r, t, u, email) ==
  /\ t \in tokens
  /\ Permitted(t, "users", IF email = NoEmail THEN "delete" ELSE "update", u)
  /\ Start(r, [stage |-> IF ReadsTarget(t, u) THEN "target" ELSE "change",
               by |-> t.id, user |-> u, email |-> email])
  /\ UNCHANGED <<account, used, clock, tokens, listeners, mails, changes, history>>

\* Slip: the row only has to be there.
ReadTargetUnverified(r) ==
  /\ At(r, "target")
  /\ Exists(call[r].user)
  /\ call' = [call EXCEPT ![r].stage = "change"]
  /\ UNCHANGED <<account, used, clock, tokens, listeners, mails, changes, history>>

ReadTarget(r) ==
  /\ At(r, "target")
  /\ Exists(call[r].user)
  /\ account[call[r].user].verifiedAt # 0
  /\ call' = [call EXCEPT ![r].stage = "change"]
  /\ UNCHANGED <<account, used, clock, tokens, listeners, mails, changes, history>>

\* Slip: an update without an address clears it.
UpdateUnguarded(r) ==
  /\ At(r, "change")
  /\ LET c == call[r] IN
       /\ Exists(c.user)
       /\ Free(c.email, c.user)
       /\ Write(c.user, [account[c.user] EXCEPT !.email = c.email, !.verifiedAt = 0], r, NoCall)
       /\ moved' = moved \cup {c.user}
       /\ served' = served \cup {c.by}
  /\ UNCHANGED <<used, clock, tokens, listeners, mails>>

\* A new address is unverified.
Update(r) ==
  /\ At(r, "change")
  /\ LET c == call[r] IN
       /\ c.email \in Emails
       /\ Exists(c.user)
       /\ Free(c.email, c.user)
       /\ Write(c.user, [account[c.user] EXCEPT !.email = c.email, !.verifiedAt = 0], r, NoCall)
       /\ moved' = moved \cup {c.user}
       /\ served' = served \cup {c.by}
  /\ UNCHANGED <<used, clock, tokens, listeners, mails>>

\* The name is changed, which nothing here depends on.
UpdateName(r) ==
  /\ At(r, "change")
  /\ LET c == call[r] IN
       /\ c.email = OldEmail
       /\ Exists(c.user)
       /\ served' = served \cup {c.by}
  /\ Return(r)
  /\ UNCHANGED <<account, used, clock, tokens, listeners, mails, changes, moved>>

Delete(r) ==
  /\ At(r, "change")
  /\ LET c == call[r] IN
       /\ c.email = NoEmail
       /\ Exists(c.user)
       /\ Write(c.user, NoRow, r, NoCall)
       /\ served' = served \cup {c.by}
  /\ UNCHANGED <<used, clock, tokens, listeners, mails, moved>>

(***************************************************************************)
(* Verification of the address.                                            *)
(***************************************************************************)
\* requestEmailVerification, up to the await of the mail server.
Mailing(r, u) ==
  /\ Exists(u)
  /\ account[u].verifiedAt = 0
  /\ Start(r, [stage |-> "mail", mail |-> [sub |-> u, to |-> account[u].email]])

\* By the listener of USER_CREATE: what it rejects with, nobody handles (Crash).
Listen(r, u) ==
  /\ u \in listeners
  /\ Mailing(r, u)
  /\ listeners' = listeners \ {u}
  /\ UNCHANGED <<account, used, clock, tokens, mails, changes, history>>

\* By request of the user, who need not be verified.
RequestEmailVerification(r, t) ==
  /\ t \in tokens
  /\ Mailing(r, t.id)
  /\ UNCHANGED <<account, used, clock, tokens, listeners, mails, changes, history>>

SendEmail(r) ==
  /\ At(r, "mail")
  /\ mails' = mails \cup {call[r].mail}
  /\ Return(r)
  /\ UNCHANGED <<account, used, clock, tokens, listeners, changes, history>>

\* Slip: the token may be one that was mailed to anybody.
BeginVerificationWithAny(r, t, m) ==
  /\ t \in tokens
  /\ m \in mails
  /\ Exists(t.id)
  /\ account[t.id].verifiedAt = 0
  /\ clock < MaxClock
  /\ clock' = clock + 1
  /\ Start(r, [stage |-> "verify", user |-> t.id,
               keep |-> account[t.id].firstVerifiedAt # 0, at |-> clock + 1])
  /\ UNCHANGED <<account, used, tokens, listeners, mails, changes, history>>

\* verifyEmail up to the update: the row is read, the token in the mail checked, and the
\* time taken.
BeginVerification(r, t, m) ==
  /\ t \in tokens
  /\ m \in mails
  /\ m.sub = t.id
  /\ Exists(t.id)
  /\ account[t.id].verifiedAt = 0
  /\ clock < MaxClock
  /\ clock' = clock + 1
  /\ Start(r, [stage |-> "verify", user |-> t.id,
               keep |-> account[t.id].firstVerifiedAt # 0, at |-> clock + 1])
  /\ UNCHANGED <<account, used, tokens, listeners, mails, changes, history>>

\* Slip: the first verification is never set.
VerifyUserAgain(r) ==
  /\ At(r, "verify")
  /\ LET c == call[r]
         row == [account[c.user] EXCEPT !.verifiedAt = c.at] IN
       /\ Exists(c.user)
       /\ Write(c.user, row, r, Signing(ClaimsOf(c.user, row)))
  /\ UNCHANGED <<used, clock, tokens, listeners, mails, history>>

\* verifyUser: the update goes by id, to whatever row there is by now.
VerifyUser(r) ==
  /\ At(r, "verify")
  /\ LET c == call[r]
         row == [account[c.user] EXCEPT !.verifiedAt = c.at,
                                        !.firstVerifiedAt = IF c.keep THEN @ ELSE c.at] IN
       /\ Exists(c.user)
       /\ Write(c.user, row, r, Signing(ClaimsOf(c.user, row)))
  /\ UNCHANGED <<used, clock, tokens, listeners, mails, history>>

(***************************************************************************)
(* Outside the handlers.                                                   *)
(***************************************************************************)
\* No handler changes a role; the operator does, in the database.
SetRole(u, role) ==
  /\ Exists(u)
  /\ account[u].role # role
  /\ changes < MaxChanges
  /\ changes' = changes + 1
  /\ account' = [account EXCEPT ![u].role = role]
  /\ call' = [q \in Requests |-> Overtake(q, u)]
  /\ UNCHANGED <<used, clock, tokens, listeners, mails, history>>

\* The handler answers with an error.
Fail(r) ==
  /\ call[r] # NoCall
  /\ Return(r)
  /\ UNCHANGED <<account, used, clock, tokens, listeners, mails, changes, history>>

\* The process ends with everything in it, as it does when the listener rejects.
Crash ==
  /\ listeners' = {}
  /\ call' = [r \in Requests |-> NoCall]
  /\ UNCHANGED <<account, used, clock, tokens, mails, changes, history>>

Next ==
  \/ \E r \in Requests :
       \/ Sign(r)
       \/ \E u \in Accounts : Login(r, u) \/ Insert(r, u) \/ Listen(r, u)
       \/ \E t \in tokens : Refresh(r, t) \/ RequestEmailVerification(r, t)
       \/ \E email \in Emails : Register(r, email)
       \/ \E t \in tokens, u \in Accounts, email \in NewEmails : Receive(r, t, u, email)
       \/ ReadTarget(r)
       \/ Update(r)
       \/ UpdateName(r)
       \/ Delete(r)
       \/ \E t \in tokens, m \in mails : BeginVerification(r, t, m)
       \/ SendEmail(r)
       \/ VerifyUser(r)
       \/ Fail(r)
  \/ \E u \in Accounts, role \in Roles : SetRole(u, role)
  \/ Crash

Spec == Init /\ [][Next]_vars

(***************************************************************************)
(* Properties.                                                             *)
(***************************************************************************)
\* Whoever's token it is and however the handlers overlap, an account is verified only
\* after a mail to its address, unless the address was changed: a token mailed to the
\* old address, or an update on its way, verifies the new one.
VerificationFollowsMail ==
  \A u \in Accounts \ moved :
    Exists(u) /\ account[u].verifiedAt # 0 => [sub |-> u, to |-> account[u].email] \in mails

\* docs/server/security.md: nobody can use the server before the account is verified.
\* Whatever account a change was executed for had been sent a mail before.
VerificationComesFirst == \A u \in served : \E m \in mails : m.sub = u

\* The two columns agree, though verifications overlap with changes of the address and
\* with each other: a verified account has a first verification, and none before it.
FirstVerificationIsFirst ==
  \A u \in Accounts :
    Exists(u) /\ account[u].verifiedAt # 0 => account[u].firstVerifiedAt \in 1..account[u].verifiedAt

\* Tokens outlive what they say; but one that is about to be signed, at a login, a
\* refresh, a registration or a verification, says what the row says now, unless the
\* row has changed since this handler read it.
NewTokensAreCurrent ==
  \A r \in Requests : At(r, "sign") /\ ~call[r].overtaken =>
    LET claims == call[r].claims
    IN Exists(claims.id) /\ claims = ClaimsOf(claims.id, account[claims.id])

\* However stale what it was admitted by, a change of an address or a deletion is only
\* ever executed for a holder of the account who was verified, or for an administrator
\* and an account that has been verified: the check of the claims, that of the row and
\* the statement are awaits apart, and the row may have been replaced or removed.
ChangesAreAuthorised ==
  [][\A u \in Accounts :
       Exists(u) /\ (Exists(u)' => account'[u].email # account[u].email) =>
         \/ \E t \in tokens : t.id = u /\ t.verified
         \/ /\ account[u].firstVerifiedAt # 0
            /\ \E t \in tokens : t.role = "admin" /\ t.verified]_vars
=============================================================================
