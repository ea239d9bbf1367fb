--------------------------- MODULE AccountsProofs ---------------------------
(***************************************************************************)
(* Theorems about Accounts, for any number of requests, accounts,          *)
(* addresses and changes.                                                  *)
(***************************************************************************)
EXTENDS Accounts, AccessControlProofs, TLAPS

(***************************************************************************)
(* Types.                                                                  *)
(***************************************************************************)
\* The kinds of calls, by their stage.
LEMMA CallKinds ==
  ASSUME NEW c \in Call
  PROVE  /\ c.stage = "insert" => c.email \in Emails
         /\ c.stage \in {"target", "change"} =>
              /\ c = [stage |-> c.stage, by |-> c.by, user |-> c.user, email |-> c.email]
              /\ c.by \in Accounts /\ c.user \in Accounts /\ c.email \in NewEmails
         /\ c.stage = "verify" => c.user \in Accounts /\ c.keep \in BOOLEAN /\ c.at \in Nat
         /\ c.stage = "mail" => c.mail \in Mail
         /\ c.stage = "sign" =>
              /\ c = [stage |-> "sign", claims |-> c.claims, overtaken |-> c.overtaken]
              /\ c.claims \in Claims /\ c.overtaken \in BOOLEAN
         /\ c.stage \in {"insert", "target", "change", "verify", "mail", "sign"}
BY DEF Call

\* The handler that is at a stage.
LEMMA AtCall ==
  ASSUME TypeOK, NEW r \in Requests, NEW stage, At(r, stage)
  PROVE  call[r] \in Call /\ call[r].stage = stage
BY DEF TypeOK, At

\* A handler that starts is a call of some kind.
LEMMA StartTypes ==
  ASSUME TypeOK, NEW r \in Requests, NEW c \in Call, Start(r, c)
  PROVE  call' \in [Requests -> Call \cup {NoCall}]
BY DEF Start, TypeOK

\* A handler that returns leaves its slot free.
LEMMA ReturnTypes ==
  ASSUME TypeOK, NEW r \in Requests, Return(r)
  PROVE  call' \in [Requests -> Call \cup {NoCall}]
BY DEF Return, TypeOK

\* The claims made of a row are those of a token, and say whether the row is verified.
LEMMA ClaimsTypes ==
  ASSUME NEW u \in Accounts, NEW row \in Row
  PROVE  /\ ClaimsOf(u, row) \in Claims
         /\ ClaimsOf(u, row).id = u
         /\ ClaimsOf(u, row).verified <=> row.verifiedAt # 0
         /\ Signing(ClaimsOf(u, row)) \in Call
         /\ Signing(ClaimsOf(u, row)).stage = "sign"
<1>1. ClaimsOf(u, row) \in Claims
  BY DEF ClaimsOf, Claims, Row
<1>2. Signing(ClaimsOf(u, row)) \in Call
  BY <1>1 DEF Signing, Call
<1> QED
  BY <1>1, <1>2 DEF ClaimsOf, Signing

\* A call that is overtaken is the same call still.
LEMMA OvertakeKeeps ==
  ASSUME TypeOK, NEW q \in Requests, NEW u \in Accounts
  PROVE  /\ Overtake(q, u) \in Call \cup {NoCall}
         /\ ~At(q, "sign") => Overtake(q, u) = call[q]
         /\ At(q, "sign") =>
              /\ Overtake(q, u).stage = "sign"
              /\ Overtake(q, u).claims = call[q].claims
              /\ ~Overtake(q, u).overtaken => ~call[q].overtaken /\ call[q].claims.id # u
<1>1. CASE ~At(q, "sign")
  BY <1>1 DEF Overtake, TypeOK
<1>2. CASE At(q, "sign")
  <2>1. PICK c \in Call : c = call[q] /\ c.stage = "sign"
    BY <1>2, AtCall
  <2>2. /\ c = [stage |-> "sign", claims |-> c.claims, overtaken |-> c.overtaken]
        /\ c.claims \in Claims /\ c.overtaken \in BOOLEAN
    BY <2>1, CallKinds
  <2>3. PICK b \in BOOLEAN : b = (c.overtaken \/ c.claims.id = u)
    BY <2>2
  <2>4. Overtake(q, u) = [c EXCEPT !.overtaken = b]
    BY <1>2, <2>1, <2>3 DEF Overtake
  <2>5. [c EXCEPT !.overtaken = b] = [stage |-> "sign", claims |-> c.claims, overtaken |-> b]
    BY <2>2
  <2>6. Overtake(q, u) = [stage |-> "sign", claims |-> c.claims, overtaken |-> b]
    BY <2>4, <2>5
  <2>7. Overtake(q, u) \in Call
    BY <2>2, <2>6 DEF Call
  <2>8. ~b => ~c.overtaken /\ c.claims.id # u
    BY <2>3
  <2> QED
    BY <1>2, <2>1, <2>6, <2>7, <2>8
<1> QED
  BY <1>1, <1>2

\* A statement leaves the table and the calls well typed.
LEMMA WriteTypes ==
  ASSUME TypeOK, NEW r \in Requests, NEW u \in Accounts, NEW row \in Row \cup {NoRow},
         NEW c \in Call \cup {NoCall}, Write(u, row, r, c)
  PROVE  /\ account' \in [Accounts -> Row \cup {NoRow}]
         /\ changes' \in Nat
         /\ call' \in [Requests -> Call \cup {NoCall}]
<1>1. call' \in [Requests -> Call \cup {NoCall}]
  BY OvertakeKeeps DEF Write
<1> QED
  BY <1>1 DEF Write, TypeOK

\* What a change of the account makes of its row.
LEMMA RowTypes ==
  ASSUME NEW row \in Row, NEW email \in Emails, NEW at \in Nat, NEW first \in Nat,
         NEW role \in Roles
  PROVE  /\ [row EXCEPT !.email = email, !.verifiedAt = 0] \in Row
         /\ [row EXCEPT !.verifiedAt = at, !.firstVerifiedAt = first] \in Row
         /\ [row EXCEPT !.role = role] \in Row
         /\ [email |-> email, verifiedAt |-> 0, firstVerifiedAt |-> 0, role |-> "user"] \in Row
BY DEF Row, Roles

\* The row VerifyUser writes for call c, which has read row.
Verified(row, c) ==
  [row EXCEPT !.verifiedAt = c.at,
              !.firstVerifiedAt = IF c.keep THEN row.firstVerifiedAt ELSE c.at]

\* The row that is written has the address it had and the times the call decided on.
LEMMA VerifiedTypes ==
  ASSUME NEW row \in Row, NEW c \in Call, c.stage = "verify"
  PROVE  /\ Verified(row, c) \in Row
         /\ Verified(row, c).email = row.email
         /\ Verified(row, c).verifiedAt = c.at
         /\ Verified(row, c).firstVerifiedAt = IF c.keep THEN row.firstVerifiedAt ELSE c.at
<1>1. c.keep \in BOOLEAN /\ c.at \in Nat
  BY CallKinds
<1> QED
  BY <1>1 DEF Verified, Row

\* The initial state is well typed.
LEMMA TypeInit == Init => TypeOK
BY DEF Init, TypeOK, Row, Roles, Mail

\* Every step keeps the types.
LEMMA TypeStep ==
  ASSUME TypeOK, [Next]_vars
  PROVE  TypeOK'
<1>1. CASE UNCHANGED vars
  BY <1>1 DEF TypeOK, vars, history
<1>2. ASSUME NEW r \in Requests, Sign(r)
      PROVE  TypeOK'
  <2>1. call[r].claims \in Claims
    BY <1>2, AtCall, CallKinds DEF Sign
  <2> QED
    BY <1>2, <2>1, ReturnTypes DEF TypeOK, Sign, history
<1>3. ASSUME NEW r \in Requests, NEW u \in Accounts, Login(r, u)
      PROVE  TypeOK'
  <2>1. Signing(ClaimsOf(u, account[u])) \in Call
    BY <1>3, ClaimsTypes DEF Login, Exists, TypeOK
  <2> QED
    BY <1>3, <2>1, StartTypes DEF TypeOK, Login, history
<1>4. ASSUME NEW r \in Requests, NEW t \in tokens, Refresh(r, t)
      PROVE  TypeOK'
  <2>1. t.id \in Accounts
    BY DEF TypeOK, Claims
  <2>2. Signing(ClaimsOf(t.id, account[t.id])) \in Call
    BY <1>4, <2>1, ClaimsTypes DEF Refresh, Exists, TypeOK
  <2> QED
    BY <1>4, <2>2, StartTypes DEF TypeOK, Refresh, history
<1>5. ASSUME NEW r \in Requests, NEW email \in Emails, Register(r, email)
      PROVE  TypeOK'
  <2>1. [stage |-> "insert", email |-> email] \in Call
    BY DEF Call
  <2> QED
    BY <1>5, <2>1, StartTypes DEF TypeOK, Register, history
<1>6. ASSUME NEW r \in Requests, NEW u \in Accounts, Insert(r, u)
      PROVE  TypeOK'
  <2> DEFINE row == [email |-> call[r].email, verifiedAt |-> 0, firstVerifiedAt |-> 0,
                     role |-> "user"]
  <2>1. row \in Row
    BY <1>6, AtCall, CallKinds DEF Insert, Row, Roles
  <2>2. Write(u, row, r, Signing(ClaimsOf(u, row)))
    BY <1>6 DEF Insert
  <2> HIDE DEF row
  <2>3. Signing(ClaimsOf(u, row)) \in Call
    BY <2>1, ClaimsTypes
  <2> QED
    BY <1>6, <2>1, <2>2, <2>3, WriteTypes DEF TypeOK, Insert, history
<1>7. ASSUME NEW r \in Requests, NEW t \in tokens, NEW u \in Accounts,
             NEW email \in NewEmails, Receive(r, t, u, email)
      PROVE  TypeOK'
  <2>1. t.id \in Accounts
    BY DEF TypeOK, Claims
  <2>2. [stage |-> IF ReadsTarget(t, u) THEN "target" ELSE "change",
         by |-> t.id, user |-> u, email |-> email] \in Call
    BY <2>1 DEF Call
  <2> QED
    BY <1>7, <2>2, StartTypes DEF TypeOK, Receive, history
<1>8. ASSUME NEW r \in Requests, ReadTarget(r)
      PROVE  TypeOK'
  <2>1. PICK c \in Call : c = call[r] /\ c.stage = "target"
    BY <1>8, AtCall DEF ReadTarget
  <2>2. [c EXCEPT !.stage = "change"]
          = [stage |-> "change", by |-> c.by, user |-> c.user, email |-> c.email]
    BY <2>1, CallKinds
  <2>3. [c EXCEPT !.stage = "change"] \in Call
    BY <2>1, <2>2, CallKinds DEF Call
  <2> QED
    BY <1>8, <2>1, <2>3 DEF TypeOK, ReadTarget, history
<1>9. ASSUME NEW r \in Requests, Update(r)
      PROVE  TypeOK'
  <2>1. PICK c \in Call : c = call[r] /\ c.stage = "change"
    BY <1>9, AtCall DEF Update
  <2>2. c.by \in Accounts /\ c.user \in Accounts /\ c.email \in Emails
    BY <1>9, <2>1, CallKinds DEF Update
  <2>3. [account[c.user] EXCEPT !.email = c.email, !.verifiedAt = 0] \in Row
    BY <1>9, <2>1, <2>2, RowTypes DEF Update, Exists, TypeOK, Roles
  <2> QED
    BY <1>9, <2>1, <2>2, <2>3, WriteTypes DEF TypeOK, Update
<1>10. ASSUME NEW r \in Requests, Delete(r)
       PROVE  TypeOK'
  <2>1. call[r].by \in Accounts /\ call[r].user \in Accounts
    BY <1>10, AtCall, CallKinds DEF Delete
  <2> QED
    BY <1>10, <2>1, WriteTypes DEF TypeOK, Delete
<1>11. ASSUME NEW r \in Requests, NEW u \in Accounts, Mailing(r, u)
       PROVE  call' \in [Requests -> Call \cup {NoCall}]
  <2>1. [sub |-> u, to |-> account[u].email] \in Mail
    BY <1>11 DEF Mailing, Exists, TypeOK, Row, Mail
  <2>2. [stage |-> "mail", mail |-> [sub |-> u, to |-> account[u].email]] \in Call
    BY <2>1 DEF Call
  <2> QED
    BY <1>11, <2>2, StartTypes DEF Mailing
<1>12. ASSUME NEW r \in Requests, NEW u \in Accounts, Listen(r, u)
       PROVE  TypeOK'
  BY <1>11, <1>12 DEF Listen, TypeOK, history
<1>13. ASSUME NEW r \in Requests, NEW t \in tokens, RequestEmailVerification(r, t)
       PROVE  TypeOK'
  BY <1>11, <1>13 DEF RequestEmailVerification, TypeOK, Claims, history
<1>14. ASSUME NEW r \in Requests, SendEmail(r)
       PROVE  TypeOK'
  <2>1. call[r].mail \in Mail
    BY <1>14, AtCall, CallKinds DEF SendEmail
  <2> QED
    BY <1>14, <2>1, ReturnTypes DEF TypeOK, SendEmail, history
<1>15. ASSUME NEW r \in Requests, NEW t \in tokens, NEW m \in mails, BeginVerification(r, t, m)
       PROVE  TypeOK'
  <2>1. t.id \in Accounts /\ clock + 1 \in Nat
    BY DEF TypeOK, Claims
  <2>2. [stage |-> "verify", user |-> t.id,
         keep |-> account[t.id].firstVerifiedAt # 0, at |-> clock + 1] \in Call
    BY <2>1 DEF Call
  <2> QED
    BY <1>15, <2>1, <2>2, StartTypes DEF TypeOK, BeginVerification, history
<1>16. ASSUME NEW r \in Requests, VerifyUser(r)
       PROVE  TypeOK'
  <2>1. PICK c \in Call : c = call[r] /\ c.stage = "verify" /\ c.user \in Accounts
    BY <1>16, AtCall, CallKinds DEF VerifyUser
  <2>2. account[c.user] \in Row
    BY <1>16, <2>1 DEF VerifyUser, Exists, TypeOK
  <2> DEFINE row == Verified(account[c.user], c)
  <2>3. row \in Row
    BY <2>1, <2>2, VerifiedTypes
  <2>4. Write(c.user, row, r, Signing(ClaimsOf(c.user, row)))
    BY <1>16, <2>1 DEF VerifyUser, Verified
  <2> HIDE DEF row
  <2>5. Signing(ClaimsOf(c.user, row)) \in Call
    BY <2>1, <2>3, ClaimsTypes
  <2> QED
    BY <1>16, <2>1, <2>3, <2>4, <2>5, WriteTypes DEF TypeOK, VerifyUser, history
<1>17. ASSUME NEW u \in Accounts, NEW role \in Roles, SetRole(u, role)
       PROVE  TypeOK'
  <2>1. [account[u] EXCEPT !.role = role] \in Row
    BY <1>17 DEF SetRole, Exists, TypeOK, Row
  <2>2. call' \in [Requests -> Call \cup {NoCall}]
    BY <1>17, OvertakeKeeps DEF SetRole
  <2> QED
    BY <1>17, <2>1, <2>2 DEF SetRole, TypeOK, history
<1>18. ASSUME NEW r \in Requests, Fail(r)
       PROVE  TypeOK'
  BY <1>18, ReturnTypes DEF Fail, TypeOK, history
<1>19. CASE Crash
  BY <1>19 DEF Crash, TypeOK, history
<1>20. ASSUME NEW r \in Requests, UpdateName(r)
       PROVE  TypeOK'
  <2>1. call[r].by \in Accounts
    BY <1>20, AtCall, CallKinds DEF UpdateName
  <2> QED
    BY <1>20, <2>1, ReturnTypes DEF UpdateName, TypeOK
<1> QED
  BY <1>1, <1>2, <1>3, <1>4, <1>5, <1>6, <1>7, <1>8, <1>9, <1>10, <1>12, <1>13, <1>14,
     <1>15, <1>16, <1>17, <1>18, <1>19, <1>20 DEF Next

\* Every variable of Accounts keeps its type.
THEOREM TypeCorrect == Spec => []TypeOK
BY TypeInit, TypeStep, PTL DEF Spec

(***************************************************************************)
(* What a step does to the calls, for the invariants below: whatever holds *)
(* of each call holds after it, but for the slot of the handler that runs. *)
(***************************************************************************)
\* A handler that starts or goes on as c, while the others stay as they are.
LEMMA OthersStay ==
  ASSUME TypeOK, NEW r \in Requests, NEW c \in Call \cup {NoCall},
         Start(r, c) \/ (Return(r) /\ c = NoCall)
  PROVE  /\ call'[r] = c
         /\ \A q \in Requests : q # r => call'[q] = call[q]
BY DEF TypeOK, Start, Return

\* The same of a statement, which may overtake the others.
LEMMA OthersOvertaken ==
  ASSUME TypeOK, NEW r \in Requests, NEW u, NEW row, NEW c, Write(u, row, r, c)
  PROVE  /\ call'[r] = c
         /\ \A q \in Requests : q # r => call'[q] = Overtake(q, u)
BY DEF Write

(***************************************************************************)
(* Nobody is verified without a mail.                                      *)
(***************************************************************************)
HasMail(u) == \E m \in mails : m.sub = u

\* What a call has been admitted for presupposes a mail.
Mailed(c) ==
  /\ c.stage \in {"target", "change"} => HasMail(c.by)
  /\ c.stage = "verify" => HasMail(c.user)
  /\ c.stage = "sign" /\ c.claims.verified => HasMail(c.claims.id)

MailInv ==
  /\ \A t \in tokens : t.verified => HasMail(t.id)
  /\ \A u \in Accounts : Exists(u) /\ account[u].verifiedAt # 0 => HasMail(u)
  /\ \A u \in served : HasMail(u)
  /\ \A r \in Requests : call[r] # NoCall => Mailed(call[r])

\* The mails and the rows a mail presupposes stay; a call that starts presupposes one.
LEMMA MailStarts ==
  ASSUME TypeOK, MailInv, NEW r \in Requests, NEW c \in Call \cup {NoCall},
         Start(r, c) \/ (Return(r) /\ c = NoCall),
         c # NoCall => Mailed(c), account' = account, mails \subseteq mails',
         \A v \in served' \ served : HasMail(v),
         \A t \in tokens' \ tokens : t.verified => HasMail(t.id)
  PROVE  MailInv'
<1>1. \A u : HasMail(u) => HasMail(u)'
  BY DEF HasMail
<1>2. \A k : Mailed(k) => Mailed(k)'
  BY <1>1 DEF Mailed
<1>3. \A q \in Requests : call'[q] # NoCall => Mailed(call[q])'
  BY <1>2, OthersStay DEF MailInv, Mailed
<1>4. \A t \in tokens' : t.verified => HasMail(t.id)'
  BY <1>1 DEF MailInv
<1> QED
  BY <1>1, <1>3, <1>4 DEF MailInv, Exists

\* A statement keeps the invariant if the row it writes presupposes no mail that is missing.
LEMMA MailWrites ==
  ASSUME TypeOK, MailInv, NEW r \in Requests, NEW u \in Accounts,
         NEW row \in Row \cup {NoRow}, NEW c \in Call \cup {NoCall}, Write(u, row, r, c),
         c # NoCall => Mailed(c), row # NoRow /\ row.verifiedAt # 0 => HasMail(u),
         mails' = mails, tokens' = tokens, \A v \in served' \ served : HasMail(v)
  PROVE  MailInv'
<1>1. \A v : HasMail(v) <=> HasMail(v)'
  BY DEF HasMail
<1>2. \A k : Mailed(k) => Mailed(k)'
  BY <1>1 DEF Mailed
<1>3. \A q \in Requests : call'[q] # NoCall => Mailed(call[q])'
  <2> SUFFICES ASSUME NEW q \in Requests, call'[q] # NoCall
               PROVE  Mailed(call'[q])
    BY <1>2
  <2>1. CASE q = r
    BY <2>1, OthersOvertaken
  <2>2. CASE q # r
    <3>1. call'[q] = Overtake(q, u)
      BY <2>2, OthersOvertaken
    <3>2. CASE At(q, "sign")
      BY <3>1, <3>2, OvertakeKeeps DEF MailInv, Mailed, At
    <3>3. CASE ~At(q, "sign")
      BY <3>1, <3>3, OvertakeKeeps DEF MailInv
    <3> QED
      BY <3>2, <3>3
  <2> QED
    BY <2>1, <2>2
<1>4. \A v \in Accounts : Exists(v)' /\ account'[v].verifiedAt # 0 => HasMail(v)
  BY DEF Write, Exists, TypeOK, MailInv
<1> QED
  BY <1>1, <1>3, <1>4 DEF MailInv, Exists

\* At first the only verified account, the administrator, has had its mail.
LEMMA MailInit == Init => MailInv
BY DEF Init, MailInv, HasMail, Exists

\* Every step keeps the invariant.
LEMMA MailStep ==
  ASSUME TypeOK, MailInv, [Next]_vars
  PROVE  MailInv'
<1>1. CASE UNCHANGED vars
  BY <1>1 DEF MailInv, Mailed, HasMail, Exists, vars, history
<1>2. ASSUME NEW r \in Requests, Sign(r)
      PROVE  MailInv'
  <2>1. Mailed(call[r]) /\ call[r].stage = "sign"
    BY <1>2, AtCall DEF Sign, MailInv, At
  <2> QED
    BY <1>2, <2>1, MailStarts DEF Sign, Mailed, history
<1>3. ASSUME NEW r \in Requests, NEW u \in Accounts, Exists(u),
             Start(r, Signing(ClaimsOf(u, account[u]))),
             UNCHANGED <<account, tokens, mails, served>>
      PROVE  MailInv'
  <2>1. account[u] \in Row
    BY <1>3 DEF Exists, TypeOK
  <2> DEFINE c == Signing(ClaimsOf(u, account[u]))
  <2>2. c \in Call /\ c.stage = "sign" /\ c.claims = ClaimsOf(u, account[u])
    BY <2>1, ClaimsTypes DEF Signing
  <2>3. Mailed(c)
    BY <1>3, <2>1, <2>2, ClaimsTypes DEF Mailed, MailInv
  <2> HIDE DEF c
  <2> QED
    BY <1>3, <2>2, <2>3, MailStarts DEF c
<1>4. ASSUME NEW r \in Requests, NEW u \in Accounts, Login(r, u)
      PROVE  MailInv'
  BY <1>3, <1>4 DEF Login, history
<1>5. ASSUME NEW r \in Requests, NEW t \in tokens, Refresh(r, t)
      PROVE  MailInv'
  BY <1>3, <1>5 DEF Refresh, TypeOK, Claims, history
<1>6. ASSUME NEW r \in Requests, NEW email \in Emails, Register(r, email)
      PROVE  MailInv'
  <2> DEFINE c == [stage |-> "insert", email |-> email]
  <2>1. c \in Call /\ Mailed(c)
    BY DEF Call, Mailed
  <2> HIDE DEF c
  <2> QED
    BY <1>6, <2>1, MailStarts DEF Register, c, history
<1>7. ASSUME NEW r \in Requests, NEW u \in Accounts, Insert(r, u)
      PROVE  MailInv'
  <2>1. PICK email \in Emails : email = call[r].email
    BY <1>7, AtCall, CallKinds DEF Insert
  <2> DEFINE row == [email |-> email, verifiedAt |-> 0, firstVerifiedAt |-> 0, role |-> "user"]
             c == Signing(ClaimsOf(u, row))
  <2>2. row \in Row /\ row.verifiedAt = 0
    BY DEF Row, Roles
  <2>3. Write(u, row, r, c)
    BY <1>7, <2>1 DEF Insert
  <2> HIDE DEF row
  <2>4. c \in Call /\ Mailed(c)
    BY <2>2, ClaimsTypes DEF Mailed, Signing
  <2> HIDE DEF c
  <2> QED
    BY <1>7, <2>2, <2>3, <2>4, MailWrites DEF Insert, history
<1>8. ASSUME NEW r \in Requests, NEW t \in tokens, NEW u \in Accounts,
             NEW email \in NewEmails, Receive(r, t, u, email)
      PROVE  MailInv'
  <2>1. t.id \in Accounts /\ HasMail(t.id)
    BY <1>8 DEF Receive, Permitted, MailInv, TypeOK, Claims
  <2> DEFINE c == [stage |-> IF ReadsTarget(t, u) THEN "target" ELSE "change",
                   by |-> t.id, user |-> u, email |-> email]
  <2>2. c \in Call /\ Mailed(c)
    BY <2>1 DEF Call, Mailed
  <2>3. Start(r, c)
    BY <1>8 DEF Receive
  <2> HIDE DEF c
  <2> QED
    BY <1>8, <2>2, <2>3, MailStarts DEF Receive, history
<1>9. ASSUME NEW r \in Requests, ReadTarget(r)
      PROVE  MailInv'
  <2>1. PICK c \in Call : c = call[r] /\ c.stage = "target" /\ Mailed(c)
    BY <1>9, AtCall DEF ReadTarget, MailInv, At
  <2>2. [c EXCEPT !.stage = "change"]
          = [stage |-> "change", by |-> c.by, user |-> c.user, email |-> c.email]
    BY <2>1, CallKinds
  <2>3. Mailed([c EXCEPT !.stage = "change"])
    BY <2>1, <2>2 DEF Mailed
  <2>4. call' = [call EXCEPT ![r] = [c EXCEPT !.stage = "change"]]
    BY <1>9, <2>1 DEF ReadTarget
  <2>5. \A u : HasMail(u) <=> HasMail(u)'
    BY <1>9 DEF ReadTarget, HasMail
  <2>6. \A k : Mailed(k) <=> Mailed(k)'
    BY <2>5 DEF Mailed
  <2>7. \A q \in Requests : call'[q] # NoCall => Mailed(call'[q])
    BY <2>3, <2>4 DEF MailInv, TypeOK
  <2>8. \A q \in Requests : call'[q] # NoCall => Mailed(call[q])'
    BY <2>6, <2>7
  <2> QED
    BY <1>9, <2>5, <2>8 DEF ReadTarget, MailInv, Exists, history
<1>10. ASSUME NEW r \in Requests, Update(r) \/ Delete(r)
       PROVE  MailInv'
  <2>1. PICK c \in Call : c = call[r] /\ c.stage = "change" /\ Mailed(c)
    BY <1>10, AtCall DEF Update, Delete, MailInv, At
  <2>2. c.by \in Accounts /\ c.user \in Accounts /\ HasMail(c.by)
    BY <2>1, CallKinds DEF Mailed
  <2>3. CASE Update(r)
    <3> DEFINE row == [account[c.user] EXCEPT !.email = c.email, !.verifiedAt = 0]
    <3>1. c.email \in Emails /\ account[c.user] \in Row
      BY <2>1, <2>2, <2>3, CallKinds DEF Update, Exists, TypeOK
    <3>2. row \in Row /\ row.verifiedAt = 0
      BY <3>1 DEF Row
    <3>3. Write(c.user, row, r, NoCall)
      BY <2>1, <2>3 DEF Update
    <3>4. served' = served \cup {c.by} /\ mails' = mails /\ tokens' = tokens
      BY <2>1, <2>3 DEF Update
    <3> HIDE DEF row
    <3> QED
      BY <2>2, <3>2, <3>3, <3>4, MailWrites
  <2>4. CASE Delete(r)
    <3>1. Write(c.user, NoRow, r, NoCall)
      BY <2>1, <2>4 DEF Delete
    <3>2. served' = served \cup {c.by} /\ mails' = mails /\ tokens' = tokens
      BY <2>1, <2>4 DEF Delete
    <3> QED
      BY <2>2, <3>1, <3>2, MailWrites
  <2> QED
    BY <1>10, <2>3, <2>4
<1>11. ASSUME NEW r \in Requests, NEW u \in Accounts, Mailing(r, u),
              UNCHANGED <<account, tokens, mails, served>>
       PROVE  MailInv'
  <2> DEFINE c == [stage |-> "mail", mail |-> [sub |-> u, to |-> account[u].email]]
  <2>1. c \in Call /\ Mailed(c)
    BY <1>11 DEF Mailing, Exists, TypeOK, Row, Mail, Call, Mailed
  <2> HIDE DEF c
  <2> QED
    BY <1>11, <2>1, MailStarts DEF Mailing, c
<1>12. ASSUME NEW r \in Requests, NEW u \in Accounts, Listen(r, u)
       PROVE  MailInv'
  BY <1>11, <1>12 DEF Listen, history
<1>13. ASSUME NEW r \in Requests, NEW t \in tokens, RequestEmailVerification(r, t)
       PROVE  MailInv'
  BY <1>11, <1>13 DEF RequestEmailVerification, TypeOK, Claims, history
<1>14. ASSUME NEW r \in Requests, SendEmail(r) \/ Fail(r)
       PROVE  MailInv'
  BY <1>14, MailStarts DEF SendEmail, Fail, history
<1>15. ASSUME NEW r \in Requests, NEW t \in tokens, NEW m \in mails, BeginVerification(r, t, m)
       PROVE  MailInv'
  <2> DEFINE c == [stage |-> "verify", user |-> t.id,
                   keep |-> account[t.id].firstVerifiedAt # 0, at |-> clock + 1]
  <2>1. t.id \in Accounts /\ HasMail(t.id)
    BY <1>15 DEF BeginVerification, HasMail, TypeOK, Claims
  <2>2. c \in Call /\ Mailed(c)
    BY <2>1 DEF Call, Mailed, TypeOK
  <2>3. Start(r, c)
    BY <1>15 DEF BeginVerification
  <2> HIDE DEF c
  <2> QED
    BY <1>15, <2>2, <2>3, MailStarts DEF BeginVerification, history
<1>16. ASSUME NEW r \in Requests, VerifyUser(r)
       PROVE  MailInv'
  <2>1. PICK c \in Call : c = call[r] /\ c.stage = "verify" /\ c.user \in Accounts /\ Mailed(c)
    BY <1>16, AtCall, CallKinds DEF VerifyUser, MailInv, At
  <2>2. HasMail(c.user) /\ account[c.user] \in Row
    BY <1>16, <2>1 DEF VerifyUser, Exists, TypeOK, Mailed
  <2> DEFINE row == Verified(account[c.user], c)
             k == Signing(ClaimsOf(c.user, row))
  <2>3. row \in Row
    BY <2>1, <2>2, VerifiedTypes
  <2>4. Write(c.user, row, r, k)
    BY <1>16, <2>1 DEF VerifyUser, Verified
  <2> HIDE DEF row
  <2>5. k \in Call /\ k.stage = "sign" /\ k.claims.id = c.user
    BY <2>1, <2>3, ClaimsTypes DEF Signing
  <2>6. Mailed(k)
    BY <2>2, <2>5 DEF Mailed
  <2> HIDE DEF k
  <2>7. UNCHANGED <<mails, tokens, served>>
    BY <1>16 DEF VerifyUser, history
  <2> QED
    BY <2>1, <2>2, <2>3, <2>4, <2>5, <2>6, <2>7, MailWrites
<1>17. ASSUME NEW u \in Accounts, NEW role \in Roles, SetRole(u, role)
       PROVE  MailInv'
  <2>1. \A v \in Accounts : /\ Exists(v)' <=> Exists(v)
                            /\ Exists(v) => account'[v].verifiedAt = account[v].verifiedAt
    BY <1>17, NoRowAssumption DEF SetRole, Exists, TypeOK, Row
  <2>2. \A v : HasMail(v) <=> HasMail(v)'
    BY <1>17 DEF SetRole, HasMail
  <2>3. \A k : Mailed(k) <=> Mailed(k)'
    BY <2>2 DEF Mailed
  <2>4. ASSUME NEW q \in Requests, call'[q] # NoCall
        PROVE  Mailed(call'[q])
    <3>1. call'[q] = Overtake(q, u)
      BY <1>17 DEF SetRole
    <3>2. CASE At(q, "sign")
      BY <3>1, <3>2, OvertakeKeeps DEF MailInv, Mailed, At
    <3>3. CASE ~At(q, "sign")
      BY <2>4, <3>1, <3>3, OvertakeKeeps DEF MailInv
    <3> QED
      BY <3>2, <3>3
  <2>5. \A q \in Requests : call'[q] # NoCall => Mailed(call[q])'
    BY <2>3, <2>4
  <2> QED
    BY <1>17, <2>1, <2>2, <2>5 DEF SetRole, MailInv, history
<1>18. CASE Crash
  BY <1>18 DEF Crash, MailInv, HasMail, Exists, history
<1>19. ASSUME NEW r \in Requests, UpdateName(r)
       PROVE  MailInv'
  <2>1. call[r].stage = "change" /\ Mailed(call[r])
    BY <1>19, AtCall DEF UpdateName, MailInv, At
  <2>2. HasMail(call[r].by)
    BY <2>1 DEF Mailed
  <2>3. served' = served \cup {call[r].by} /\ Return(r)
    BY <1>19 DEF UpdateName
  <2> QED
    BY <1>19, <2>2, <2>3, MailStarts DEF UpdateName
<1> QED
  BY <1>1, <1>2, <1>4, <1>5, <1>6, <1>7, <1>8, <1>9, <1>10, <1>12, <1>13, <1>14,
     <1>15, <1>16, <1>17, <1>18, <1>19 DEF Next

\* Whoever is verified, or has been admitted as such, was sent a mail.
LEMMA MailHolds == Spec => []MailInv
BY TypeCorrect, MailInit, MailStep, PTL DEF Spec

\* No update or deletion is executed for an account that has not been sent a mail, with
\* tokens of whatever age and handlers overlapping in any way.
THEOREM VerificationComesFirstHolds == Spec => []VerificationComesFirst
<1>1. MailInv => VerificationComesFirst
  BY DEF MailInv, HasMail, VerificationComesFirst
<1> QED
  BY <1>1, MailHolds, PTL

(***************************************************************************)
(* Mails go to the address of the account, as long as that is not changed. *)
(***************************************************************************)
\* m is for an account that has been made, and to its address unless that was changed.
WellAddressed(m) ==
  /\ m.sub \in used
  /\ m.sub \notin moved /\ Exists(m.sub) => m.to = account[m.sub].email

AddressInv ==
  /\ \A m \in mails : WellAddressed(m)
  /\ \A u \in Accounts : Exists(u) => u \in used
  /\ \A r \in Requests : At(r, "mail") => WellAddressed(call[r].mail)

\* At first the only mail went to the address of its account.
LEMMA AddressInit == Init => AddressInv
BY DEF Init, AddressInv, WellAddressed, Exists, At

\* A step after which accounts that have not been moved have the address they had.
LEMMA AddressKept ==
  ASSUME TypeOK, AddressInv, used \subseteq used', moved \subseteq moved',
         \A u \in used : Exists(u)' /\ u \notin moved' =>
            Exists(u) /\ account'[u].email = account[u].email,
         NEW m \in Mail, WellAddressed(m)
  PROVE  WellAddressed(m)'
BY DEF WellAddressed, Mail

\* Only Mailing brings a handler to the stage of a mail.
LEMMA AddressCalls ==
  ASSUME TypeOK, AddressInv, used \subseteq used', moved \subseteq moved',
         \A u \in used : Exists(u)' /\ u \notin moved' =>
            Exists(u) /\ account'[u].email = account[u].email,
         \A u \in Accounts : Exists(u)' => u \in used',
         \A m \in mails' \ mails : m \in Mail /\ WellAddressed(m),
         \A q \in Requests : At(q, "mail")' =>
            call'[q].mail \in Mail /\ WellAddressed(call'[q].mail)
  PROVE  AddressInv'
<1>1. \A m \in mails' : WellAddressed(m)'
  BY AddressKept DEF AddressInv, TypeOK
<1>2. \A q \in Requests : At(q, "mail")' => WellAddressed(call[q].mail)'
  <2> SUFFICES ASSUME NEW q \in Requests, At(q, "mail")'
               PROVE  WellAddressed(call[q].mail)'
    OBVIOUS
  <2>1. PICK m \in Mail : m = call'[q].mail /\ WellAddressed(m)
    OBVIOUS
  <2>2. WellAddressed(m)'
    BY <2>1, AddressKept
  <2> QED
    BY <2>1, <2>2 DEF WellAddressed
<1> QED
  BY <1>1, <1>2 DEF AddressInv

\* The three ways in which calls change, as to mails.
LEMMA StartsNoMail ==
  ASSUME TypeOK, AddressInv, NEW r \in Requests, NEW c \in Call \cup {NoCall},
         Start(r, c) \/ (Return(r) /\ c = NoCall),
         c = NoCall \/ c.stage # "mail" \/ (c.mail \in Mail /\ WellAddressed(c.mail))
  PROVE  \A q \in Requests : At(q, "mail")' =>
            call'[q].mail \in Mail /\ WellAddressed(call'[q].mail)
<1> SUFFICES ASSUME NEW q \in Requests, At(q, "mail")'
             PROVE  call'[q].mail \in Mail /\ WellAddressed(call'[q].mail)
  OBVIOUS
<1>1. CASE q = r
  BY <1>1, OthersStay DEF At
<1>2. CASE q # r
  <2>1. call'[q] = call[q] /\ At(q, "mail")
    BY <1>2, OthersStay DEF At
  <2> QED
    BY <2>1, AtCall, CallKinds DEF AddressInv
<1> QED
  BY <1>1, <1>2

\* A statement of a handler that is not about to mail leaves the mails on their way.
LEMMA OvertakesNoMail ==
  ASSUME TypeOK, AddressInv, NEW r \in Requests, NEW u \in Accounts,
         \A q \in Requests : q # r => call'[q] = Overtake(q, u), ~At(r, "mail")'
  PROVE  \A q \in Requests : At(q, "mail")' =>
            call'[q].mail \in Mail /\ WellAddressed(call'[q].mail)
<1> SUFFICES ASSUME NEW q \in Requests, At(q, "mail")'
             PROVE  call'[q].mail \in Mail /\ WellAddressed(call'[q].mail)
  OBVIOUS
<1>1. q # r /\ call'[q] = Overtake(q, u)
  OBVIOUS
<1>2. ~At(q, "sign")
  BY <1>1, OvertakeKeeps DEF At
<1>3. call'[q] = call[q] /\ At(q, "mail")
  BY <1>1, <1>2, OvertakeKeeps DEF At
<1> QED
  BY <1>3, AtCall, CallKinds DEF AddressInv

\* Every step keeps the invariant.
LEMMA AddressStep ==
  ASSUME TypeOK, AddressInv, [Next]_vars
  PROVE  AddressInv'
<1>1. CASE UNCHANGED vars
  BY <1>1 DEF AddressInv, WellAddressed, Exists, At, vars, history
<1>2. ASSUME NEW r \in Requests, NEW c \in Call \cup {NoCall},
             Start(r, c) \/ (Return(r) /\ c = NoCall),
             c = NoCall \/ c.stage # "mail" \/ (c.mail \in Mail /\ WellAddressed(c.mail)),
             UNCHANGED <<account, used, moved>>,
             \A m \in mails' \ mails : m \in Mail /\ WellAddressed(m)
      PROVE  AddressInv'
  <2>1. \A u \in Accounts : Exists(u)' <=> Exists(u)
    BY <1>2 DEF Exists
  <2>2. \A u \in used : u \in Accounts
    BY DEF TypeOK
  <2>3. \A q \in Requests : At(q, "mail")' =>
          call'[q].mail \in Mail /\ WellAddressed(call'[q].mail)
    BY <1>2, StartsNoMail
  <2> QED
    BY <1>2, <2>1, <2>2, <2>3, AddressCalls DEF AddressInv
<1>3. ASSUME NEW r \in Requests, NEW c \in Call, Start(r, c), c.stage # "mail",
             UNCHANGED <<account, used, mails, moved>>
      PROVE  AddressInv'
  BY <1>2, <1>3
<1>4. ASSUME NEW r \in Requests, NEW u \in Accounts, Login(r, u)
      PROVE  AddressInv'
  <2>1. Signing(ClaimsOf(u, account[u])) \in Call
        /\ Signing(ClaimsOf(u, account[u])).stage = "sign"
    BY <1>4, ClaimsTypes DEF Login, Exists, TypeOK
  <2> QED
    BY <1>3, <1>4, <2>1 DEF Login, history
<1>5. ASSUME NEW r \in Requests, NEW t \in tokens, Refresh(r, t)
      PROVE  AddressInv'
  <2>1. Signing(ClaimsOf(t.id, account[t.id])) \in Call
        /\ Signing(ClaimsOf(t.id, account[t.id])).stage = "sign"
    BY <1>5, ClaimsTypes DEF Refresh, Exists, TypeOK, Claims
  <2> QED
    BY <1>3, <1>5, <2>1 DEF Refresh, history
<1>6. ASSUME NEW r \in Requests, NEW email \in Emails, Register(r, email)
      PROVE  AddressInv'
  <2>1. [stage |-> "insert", email |-> email] \in Call
    BY DEF Call
  <2> QED
    BY <1>3, <1>6, <2>1 DEF Register, history
<1>7. ASSUME NEW r \in Requests, NEW t \in tokens, NEW u \in Accounts,
             NEW email \in NewEmails, Receive(r, t, u, email)
      PROVE  AddressInv'
  <2> DEFINE c == [stage |-> IF ReadsTarget(t, u) THEN "target" ELSE "change",
                   by |-> t.id, user |-> u, email |-> email]
  <2>1. c \in Call /\ c.stage # "mail"
    BY DEF Call, TypeOK, Claims
  <2>2. Start(r, c)
    BY <1>7 DEF Receive
  <2> HIDE DEF c
  <2> QED
    BY <1>3, <1>7, <2>1, <2>2 DEF Receive, history
<1>8. ASSUME NEW r \in Requests, NEW t \in tokens, NEW m \in mails, BeginVerification(r, t, m)
      PROVE  AddressInv'
  <2> DEFINE c == [stage |-> "verify", user |-> t.id,
                   keep |-> account[t.id].firstVerifiedAt # 0, at |-> clock + 1]
  <2>1. c \in Call /\ c.stage # "mail"
    BY DEF Call, TypeOK, Claims
  <2>2. Start(r, c)
    BY <1>8 DEF BeginVerification
  <2> HIDE DEF c
  <2> QED
    BY <1>3, <1>8, <2>1, <2>2 DEF BeginVerification, history
<1>9. ASSUME NEW r \in Requests, Sign(r) \/ UpdateName(r) \/ Fail(r)
      PROVE  AddressInv'
  BY <1>2, <1>9 DEF Sign, UpdateName, Fail, history
<1>10. ASSUME NEW r \in Requests, SendEmail(r)
       PROVE  AddressInv'
  <2>1. call[r].mail \in Mail /\ WellAddressed(call[r].mail)
    BY <1>10, AtCall, CallKinds DEF SendEmail, AddressInv
  <2>2. UNCHANGED <<account, used, moved>> /\ Return(r) /\ mails' = mails \cup {call[r].mail}
    BY <1>10 DEF SendEmail, history
  <2> QED
    BY <1>2, <2>1, <2>2
<1>11. ASSUME NEW r \in Requests, NEW u \in Accounts, Mailing(r, u),
              UNCHANGED <<account, used, mails, moved>>
       PROVE  AddressInv'
  <2> DEFINE m == [sub |-> u, to |-> account[u].email]
             c == [stage |-> "mail", mail |-> m]
  <2>1. m \in Mail /\ WellAddressed(m)
    BY <1>11 DEF Mailing, Exists, TypeOK, Row, Mail, WellAddressed, AddressInv
  <2> HIDE DEF m
  <2>2. c \in Call /\ c.mail = m
    BY <2>1 DEF Call
  <2>3. Start(r, c)
    BY <1>11 DEF Mailing, m
  <2> HIDE DEF c
  <2> QED
    BY <1>2, <1>11, <2>1, <2>2, <2>3
<1>12. ASSUME NEW r \in Requests, NEW u \in Accounts, Listen(r, u)
       PROVE  AddressInv'
  BY <1>11, <1>12 DEF Listen, history
<1>13. ASSUME NEW r \in Requests, NEW t \in tokens, RequestEmailVerification(r, t)
       PROVE  AddressInv'
  BY <1>11, <1>13 DEF RequestEmailVerification, TypeOK, Claims, history
<1>14. ASSUME NEW r \in Requests, ReadTarget(r)
       PROVE  AddressInv'
  <2>1. PICK c \in Call : c = call[r] /\ c.stage = "target"
    BY <1>14, AtCall DEF ReadTarget
  <2>2. [c EXCEPT !.stage = "change"]
          = [stage |-> "change", by |-> c.by, user |-> c.user, email |-> c.email]
    BY <2>1, CallKinds
  <2>3. call' = [call EXCEPT ![r] = [c EXCEPT !.stage = "change"]]
    BY <1>14, <2>1 DEF ReadTarget
  <2>4. \A q \in Requests : At(q, "mail")' => At(q, "mail") /\ call'[q] = call[q]
    BY <2>2, <2>3 DEF At, TypeOK
  <2>5. \A m : WellAddressed(m)' <=> WellAddressed(m)
    BY <1>14 DEF ReadTarget, WellAddressed, Exists, history
  <2>6. \A q \in Requests : At(q, "mail")' => WellAddressed(call[q].mail)'
    <3> SUFFICES ASSUME NEW q \in Requests, At(q, "mail")'
                 PROVE  WellAddressed(call[q].mail)'
      OBVIOUS
    <3>1. PICK m : m = call'[q].mail /\ WellAddressed(m)
      BY <2>4 DEF AddressInv
    <3> QED
      BY <2>5, <3>1 DEF WellAddressed
  <2> QED
    BY <1>14, <2>5, <2>6 DEF ReadTarget, AddressInv, Exists
<1>15. ASSUME NEW r \in Requests, NEW u \in Accounts, NEW row \in Row \cup {NoRow},
              NEW c \in Call \cup {NoCall}, Write(u, row, r, c), c = NoCall \/ c.stage = "sign",
              mails' = mails, used \subseteq used', moved \subseteq moved',
              row # NoRow => u \in used',
              row # NoRow /\ u \in used /\ u \notin moved' =>
                Exists(u) /\ row.email = account[u].email
       PROVE  AddressInv'
  <2>1. account' = [account EXCEPT ![u] = row] /\ call'[r] = c
        /\ \A q \in Requests : q # r => call'[q] = Overtake(q, u)
    BY <1>15, OthersOvertaken DEF Write
  <2>2. ~At(r, "mail")'
    BY <1>15, <2>1 DEF At
  <2>3. \A q \in Requests : At(q, "mail")' =>
          call'[q].mail \in Mail /\ WellAddressed(call'[q].mail)
    BY <2>1, <2>2, OvertakesNoMail
  <2>4. \A v \in used : Exists(v)' /\ v \notin moved' =>
          Exists(v) /\ account'[v].email = account[v].email
    BY <1>15, <2>1 DEF Exists, TypeOK
  <2>5. \A v \in Accounts : Exists(v)' => v \in used'
    BY <1>15, <2>1 DEF Exists, TypeOK, AddressInv
  <2> QED
    BY <1>15, <2>3, <2>4, <2>5, AddressCalls
<1>16. ASSUME NEW r \in Requests, NEW u \in Accounts, Insert(r, u)
       PROVE  AddressInv'
  <2>1. PICK email \in Emails : email = call[r].email
    BY <1>16, AtCall, CallKinds DEF Insert
  <2> DEFINE row == [email |-> email, verifiedAt |-> 0, firstVerifiedAt |-> 0, role |-> "user"]
             c == Signing(ClaimsOf(u, row))
  <2>2. row \in Row
    BY DEF Row, Roles
  <2>3. Write(u, row, r, c)
    BY <1>16, <2>1 DEF Insert
  <2>4. u \notin used /\ used' = used \cup {u} /\ UNCHANGED <<mails, moved>>
    BY <1>16 DEF Insert, history
  <2> HIDE DEF row
  <2>5. c \in Call /\ c.stage = "sign"
    BY <2>2, ClaimsTypes
  <2> HIDE DEF c
  <2> QED
    BY <1>15, <2>2, <2>3, <2>4, <2>5
<1>17. ASSUME NEW r \in Requests, Update(r)
       PROVE  AddressInv'
  <2>1. PICK c \in Call : c = call[r] /\ c.user \in Accounts /\ c.email \in Emails
    BY <1>17, AtCall, CallKinds DEF Update
  <2> DEFINE row == [account[c.user] EXCEPT !.email = c.email, !.verifiedAt = 0]
  <2>2. Exists(c.user) /\ account[c.user] \in Row
    BY <1>17, <2>1 DEF Update, Exists, TypeOK
  <2>3. row \in Row
    BY <2>1, <2>2 DEF Row
  <2>4. Write(c.user, row, r, NoCall) /\ moved' = moved \cup {c.user}
        /\ UNCHANGED <<mails, used>>
    BY <1>17, <2>1 DEF Update
  <2>5. c.user \in used
    BY <2>1, <2>2 DEF AddressInv
  <2> HIDE DEF row
  <2> QED
    BY <1>15, <2>1, <2>3, <2>4, <2>5
<1>18. ASSUME NEW r \in Requests, Delete(r)
       PROVE  AddressInv'
  <2>1. call[r].user \in Accounts
    BY <1>18, AtCall, CallKinds DEF Delete
  <2> QED
    BY <1>15, <1>18, <2>1 DEF Delete
<1>19. ASSUME NEW r \in Requests, VerifyUser(r)
       PROVE  AddressInv'
  <2>1. PICK c \in Call : c = call[r] /\ c.stage = "verify" /\ c.user \in Accounts
    BY <1>19, AtCall, CallKinds DEF VerifyUser
  <2>2. Exists(c.user) /\ account[c.user] \in Row
    BY <1>19, <2>1 DEF VerifyUser, Exists, TypeOK
  <2> DEFINE row == Verified(account[c.user], c)
             k == Signing(ClaimsOf(c.user, row))
  <2>3. row \in Row /\ row.email = account[c.user].email
    BY <2>1, <2>2, VerifiedTypes
  <2>4. Write(c.user, row, r, k)
    BY <1>19, <2>1 DEF VerifyUser, Verified
  <2> HIDE DEF row
  <2>5. k \in Call /\ k.stage = "sign"
    BY <2>1, <2>3, ClaimsTypes
  <2> HIDE DEF k
  <2>6. UNCHANGED <<mails, used, moved>> /\ c.user \in used
    BY <1>19, <2>1, <2>2 DEF VerifyUser, history, AddressInv
  <2> QED
    BY <1>15, <2>1, <2>2, <2>3, <2>4, <2>5, <2>6
<1>20. ASSUME NEW u \in Accounts, NEW role \in Roles, SetRole(u, role)
       PROVE  AddressInv'
  <2>1. \A v \in Accounts : /\ Exists(v)' <=> Exists(v)
                            /\ Exists(v) => account'[v].email = account[v].email
    BY <1>20, NoRowAssumption DEF SetRole, Exists, TypeOK, Row
  <2>2. \A q \in Requests : call'[q] = Overtake(q, u)
    BY <1>20 DEF SetRole
  <2>3. \A q \in Requests : At(q, "mail")' =>
          call'[q].mail \in Mail /\ WellAddressed(call'[q].mail)
    <3> SUFFICES ASSUME NEW q \in Requests, At(q, "mail")'
                 PROVE  call'[q].mail \in Mail /\ WellAddressed(call'[q].mail)
      OBVIOUS
    <3>1. ~At(q, "sign")
      BY <2>2, OvertakeKeeps DEF At
    <3>2. call'[q] = call[q] /\ At(q, "mail")
      BY <2>2, <3>1, OvertakeKeeps DEF At
    <3> QED
      BY <3>2, AtCall, CallKinds DEF AddressInv
  <2>4. \A v \in used : v \in Accounts
    BY DEF TypeOK
  <2>5. UNCHANGED <<mails, used, moved>>
    BY <1>20 DEF SetRole, history
  <2> QED
    BY <2>1, <2>3, <2>4, <2>5, AddressCalls DEF AddressInv
<1>21. CASE Crash
  BY <1>21 DEF Crash, AddressInv, WellAddressed, Exists, At, history
<1> QED
  BY <1>1, <1>4, <1>5, <1>6, <1>7, <1>8, <1>9, <1>10, <1>12, <1>13, <1>14, <1>16, <1>17,
     <1>18, <1>19, <1>20, <1>21 DEF Next

\* A verified account that kept its address has been sent a mail there.
THEOREM VerificationFollowsMailHolds == Spec => []VerificationFollowsMail
<1>1. TypeOK /\ MailInv /\ AddressInv => VerificationFollowsMail
  <2> SUFFICES ASSUME TypeOK, MailInv, AddressInv, NEW u \in Accounts \ moved, Exists(u),
                      account[u].verifiedAt # 0
               PROVE  [sub |-> u, to |-> account[u].email] \in mails
    BY DEF VerificationFollowsMail
  <2>1. PICK m \in mails : m.sub = u
    BY DEF MailInv, HasMail
  <2>2. m.to = account[u].email
    BY <2>1 DEF AddressInv, WellAddressed
  <2>3. m = [sub |-> u, to |-> account[u].email]
    BY <2>1, <2>2 DEF TypeOK, Mail
  <2> QED
    BY <2>3
<1>2. AddressInv /\ TypeOK /\ [Next]_vars => AddressInv'
  BY AddressStep
<1> QED
  BY <1>1, <1>2, TypeCorrect, MailHolds, AddressInit, PTL DEF Spec

(***************************************************************************)
(* Access tokens say what the row says when they are signed, unless the    *)
(* handler has been overtaken.                                             *)
(***************************************************************************)
Current(claims) == Exists(claims.id) /\ claims = ClaimsOf(claims.id, account[claims.id])

CurrentInv ==
  \A r \in Requests : At(r, "sign") /\ ~call[r].overtaken => Current(call[r].claims)

\* At first nothing is being signed.
LEMMA CurrentInit == Init => CurrentInv
BY DEF Init, CurrentInv, At

\* A handler that starts to sign has just read what it signs.
LEMMA CurrentStarts ==
  ASSUME TypeOK, CurrentInv, NEW r \in Requests, NEW c \in Call \cup {NoCall},
         Start(r, c) \/ (Return(r) /\ c = NoCall), account' = account,
         c = NoCall \/ c.stage # "sign" \/ Current(c.claims)
  PROVE  CurrentInv'
<1> SUFFICES ASSUME NEW q \in Requests, At(q, "sign")', ~call'[q].overtaken
             PROVE  Current(call[q].claims)'
  BY DEF CurrentInv
<1>1. Current(call'[q].claims)
  <2>1. CASE q = r
    BY <2>1, OthersStay DEF At
  <2>2. CASE q # r
    BY <2>2, OthersStay DEF At, CurrentInv
  <2> QED
    BY <2>1, <2>2
<1> QED
  BY <1>1 DEF Current, Exists

\* Whoever is not overtaken by the change of a row has read another.
LEMMA CurrentOvertakes ==
  ASSUME TypeOK, CurrentInv, NEW r, NEW u \in Accounts,
         \A q \in Requests : q # r => call'[q] = Overtake(q, u),
         \A v \in Accounts : v # u => account'[v] = account[v],
         r \in Requests /\ At(r, "sign")' => Current(call[r].claims)'
  PROVE  CurrentInv'
<1> SUFFICES ASSUME NEW q \in Requests, At(q, "sign")', ~call'[q].overtaken, q # r
             PROVE  Current(call[q].claims)'
  BY DEF CurrentInv
<1>1. call'[q] = Overtake(q, u)
  OBVIOUS
<1>2. At(q, "sign")
  BY <1>1, OvertakeKeeps DEF At
<1>3. /\ call'[q].claims = call[q].claims
      /\ ~call[q].overtaken /\ call[q].claims.id # u
  BY <1>1, <1>2, OvertakeKeeps
<1>4. call[q].claims.id \in Accounts
  BY <1>2, AtCall, CallKinds DEF Claims
<1>5. Current(call[q].claims)
  BY <1>2, <1>3 DEF CurrentInv
<1> QED
  BY <1>3, <1>4, <1>5 DEF Current, Exists

\* Every step keeps the invariant.
LEMMA CurrentStep ==
  ASSUME TypeOK, CurrentInv, [Next]_vars
  PROVE  CurrentInv'
<1>1. CASE UNCHANGED vars
  BY <1>1 DEF CurrentInv, Current, Exists, At, vars, history
<1>2. ASSUME NEW r \in Requests, NEW u \in Accounts, Exists(u),
             Start(r, Signing(ClaimsOf(u, account[u]))), account' = account
      PROVE  CurrentInv'
  <2>1. account[u] \in Row
    BY <1>2 DEF Exists, TypeOK
  <2> DEFINE c == Signing(ClaimsOf(u, account[u]))
  <2>2. c \in Call /\ c.claims = ClaimsOf(u, account[u]) /\ c.claims.id = u
    BY <2>1, ClaimsTypes DEF Signing
  <2>3. Current(c.claims)
    BY <1>2, <2>2 DEF Current
  <2> HIDE DEF c
  <2> QED
    BY <1>2, <2>2, <2>3, CurrentStarts DEF c
<1>3. ASSUME NEW r \in Requests, NEW u \in Accounts, Login(r, u)
      PROVE  CurrentInv'
  BY <1>2, <1>3 DEF Login
<1>4. ASSUME NEW r \in Requests, NEW t \in tokens, Refresh(r, t)
      PROVE  CurrentInv'
  BY <1>2, <1>4 DEF Refresh, TypeOK, Claims
<1>5. ASSUME NEW r \in Requests, NEW c \in Call, Start(r, c), account' = account,
             c.stage # "sign"
      PROVE  CurrentInv'
  BY <1>5, CurrentStarts
<1>6. ASSUME NEW r \in Requests, NEW email \in Emails, Register(r, email)
      PROVE  CurrentInv'
  <2>1. [stage |-> "insert", email |-> email] \in Call
    BY DEF Call
  <2> QED
    BY <1>5, <1>6, <2>1 DEF Register
<1>7. ASSUME NEW r \in Requests, NEW t \in tokens, NEW u \in Accounts,
             NEW email \in NewEmails, Receive(r, t, u, email)
      PROVE  CurrentInv'
  <2> DEFINE c == [stage |-> IF ReadsTarget(t, u) THEN "target" ELSE "change",
                   by |-> t.id, user |-> u, email |-> email]
  <2>1. c \in Call /\ c.stage # "sign"
    BY DEF Call, TypeOK, Claims
  <2>2. Start(r, c)
    BY <1>7 DEF Receive
  <2> HIDE DEF c
  <2> QED
    BY <1>5, <1>7, <2>1, <2>2 DEF Receive
<1>8. ASSUME NEW r \in Requests, NEW t \in tokens, NEW m \in mails, BeginVerification(r, t, m)
      PROVE  CurrentInv'
  <2> DEFINE c == [stage |-> "verify", user |-> t.id,
                   keep |-> account[t.id].firstVerifiedAt # 0, at |-> clock + 1]
  <2>1. c \in Call /\ c.stage # "sign"
    BY DEF Call, TypeOK, Claims
  <2>2. Start(r, c)
    BY <1>8 DEF BeginVerification
  <2> HIDE DEF c
  <2> QED
    BY <1>5, <1>8, <2>1, <2>2 DEF BeginVerification
<1>9. ASSUME NEW r \in Requests, Sign(r) \/ UpdateName(r) \/ SendEmail(r) \/ Fail(r)
      PROVE  CurrentInv'
  BY <1>9, CurrentStarts DEF Sign, UpdateName, SendEmail, Fail
<1>10. ASSUME NEW r \in Requests, NEW u \in Accounts, Mailing(r, u), account' = account
       PROVE  CurrentInv'
  <2> DEFINE c == [stage |-> "mail", mail |-> [sub |-> u, to |-> account[u].email]]
  <2>1. c \in Call /\ c.stage # "sign"
    BY <1>10 DEF Mailing, Exists, TypeOK, Row, Mail, Call
  <2>2. Start(r, c)
    BY <1>10 DEF Mailing
  <2> HIDE DEF c
  <2> QED
    BY <1>5, <1>10, <2>1, <2>2
<1>11. ASSUME NEW r \in Requests, NEW u \in Accounts, Listen(r, u)
       PROVE  CurrentInv'
  BY <1>10, <1>11 DEF Listen
<1>12. ASSUME NEW r \in Requests, NEW t \in tokens, RequestEmailVerification(r, t)
       PROVE  CurrentInv'
  BY <1>10, <1>12 DEF RequestEmailVerification, TypeOK, Claims
<1>13. ASSUME NEW r \in Requests, ReadTarget(r)
       PROVE  CurrentInv'
  <2>1. PICK c \in Call : c = call[r] /\ c.stage = "target"
    BY <1>13, AtCall DEF ReadTarget
  <2>2. [c EXCEPT !.stage = "change"].stage = "change"
    BY <2>1, CallKinds
  <2>3. call' = [call EXCEPT ![r] = [c EXCEPT !.stage = "change"]] /\ account' = account
    BY <1>13, <2>1 DEF ReadTarget
  <2>4. \A q \in Requests : At(q, "sign")' => At(q, "sign") /\ call'[q] = call[q]
    BY <2>2, <2>3 DEF At, TypeOK
  <2> QED
    BY <2>3, <2>4 DEF CurrentInv, Current, Exists
<1>14. ASSUME NEW r \in Requests, NEW u \in Accounts, NEW row \in Row,
              Write(u, row, r, Signing(ClaimsOf(u, row)))
       PROVE  CurrentInv'
  <2> DEFINE c == Signing(ClaimsOf(u, row))
  <2>1. c.claims = ClaimsOf(u, row) /\ c.claims.id = u
    BY ClaimsTypes DEF Signing
  <2>2. call'[r] = c /\ \A q \in Requests : q # r => call'[q] = Overtake(q, u)
    BY <1>14, OthersOvertaken
  <2>3. account' = [account EXCEPT ![u] = row] /\ account'[u] = row
    BY <1>14 DEF Write, TypeOK
  <2> HIDE DEF c
  <2>4. Current(call[r].claims)'
    BY <2>1, <2>2, <2>3, NoRowAssumption DEF Current, Exists
  <2>5. \A v \in Accounts : v # u => account'[v] = account[v]
    BY <2>3 DEF TypeOK
  <2> QED
    BY <2>2, <2>4, <2>5, CurrentOvertakes
<1>15. ASSUME NEW r \in Requests, NEW u \in Accounts, Insert(r, u)
       PROVE  CurrentInv'
  <2>1. PICK email \in Emails : email = call[r].email
    BY <1>15, AtCall, CallKinds DEF Insert
  <2> DEFINE row == [email |-> email, verifiedAt |-> 0, firstVerifiedAt |-> 0, role |-> "user"]
  <2>2. row \in Row
    BY DEF Row, Roles
  <2>3. Write(u, row, r, Signing(ClaimsOf(u, row)))
    BY <1>15, <2>1 DEF Insert
  <2> HIDE DEF row
  <2> QED
    BY <1>14, <2>2, <2>3
<1>16. ASSUME NEW r \in Requests, NEW u \in Accounts, NEW row, Write(u, row, r, NoCall)
       PROVE  CurrentInv'
  <2>1. call'[r] = NoCall /\ \A q \in Requests : q # r => call'[q] = Overtake(q, u)
    BY <1>16, OthersOvertaken
  <2>2. \A v \in Accounts : v # u => account'[v] = account[v]
    BY <1>16 DEF Write, TypeOK
  <2>3. ~At(r, "sign")'
    BY <2>1 DEF At
  <2> QED
    BY <2>1, <2>2, <2>3, CurrentOvertakes
<1>17. ASSUME NEW r \in Requests, Update(r) \/ Delete(r)
       PROVE  CurrentInv'
  <2>1. call[r].user \in Accounts
    BY <1>17, AtCall, CallKinds DEF Update, Delete
  <2> QED
    BY <1>16, <1>17, <2>1 DEF Update, Delete
<1>18. ASSUME NEW r \in Requests, VerifyUser(r)
       PROVE  CurrentInv'
  <2>1. PICK c \in Call : c = call[r] /\ c.stage = "verify" /\ c.user \in Accounts
    BY <1>18, AtCall, CallKinds DEF VerifyUser
  <2>2. account[c.user] \in Row
    BY <1>18, <2>1 DEF VerifyUser, Exists, TypeOK
  <2> DEFINE row == Verified(account[c.user], c)
  <2>3. row \in Row
    BY <2>1, <2>2, VerifiedTypes
  <2>4. Write(c.user, row, r, Signing(ClaimsOf(c.user, row)))
    BY <1>18, <2>1 DEF VerifyUser, Verified
  <2> HIDE DEF row
  <2> QED
    BY <1>14, <2>1, <2>3, <2>4
<1>19. ASSUME NEW u \in Accounts, NEW role \in Roles, SetRole(u, role)
       PROVE  CurrentInv'
  <2>1. PICK r : r \notin Requests
    BY NoSetContainsEverything
  <2>2. \A q \in Requests : call'[q] = Overtake(q, u)
    BY <1>19 DEF SetRole
  <2>3. \A v \in Accounts : v # u => account'[v] = account[v]
    BY <1>19 DEF SetRole, TypeOK
  <2> QED
    BY <2>1, <2>2, <2>3, CurrentOvertakes
<1>20. CASE Crash
  BY <1>20 DEF Crash, CurrentInv, At
<1> QED
  BY <1>1, <1>3, <1>4, <1>6, <1>7, <1>8, <1>9, <1>11, <1>12, <1>13, <1>15, <1>17, <1>18,
     <1>19, <1>20 DEF Next

\* A token that is being signed carries the role and the verification of the row as it
\* is, unless the row has changed since the handler read it.
THEOREM NewTokensAreCurrentHolds == Spec => []NewTokensAreCurrent
<1>1. TypeOK /\ CurrentInv /\ [Next]_vars => CurrentInv'
  BY CurrentStep
<1>2. CurrentInv => NewTokensAreCurrent
  BY DEF CurrentInv, Current, NewTokensAreCurrent
<1> QED
  BY <1>1, <1>2, TypeCorrect, CurrentInit, PTL DEF Spec

(***************************************************************************)
(* The first verification is the first: verifications are begun in the     *)
(* order of their times, and one that keeps a first verification began     *)
(* after every one that is going to set it.                                *)
(***************************************************************************)
\* A call may still set or keep the times of its account's row.
Timely(c) ==
  /\ c.user \in used /\ c.at \in 1..clock
  /\ c.keep /\ Exists(c.user) => account[c.user].firstVerifiedAt \in 1..(c.at - 1)

TimeInv ==
  /\ \A u \in Accounts : Exists(u) =>
       /\ u \in used
       /\ account[u].firstVerifiedAt \in 0..clock
       /\ account[u].verifiedAt # 0 => account[u].firstVerifiedAt \in 1..account[u].verifiedAt
  /\ \A q \in Requests : At(q, "verify") => Timely(call[q])
  /\ \A p, q \in Requests :
       At(p, "verify") /\ At(q, "verify") /\ call[p].user = call[q].user
         /\ ~call[p].keep /\ call[q].keep => call[p].at < call[q].at

\* The administrator was verified at one time only.
LEMMA TimeInit == Init => TimeInv
BY DEF Init, TimeInv, Exists, At

\* A step after which no call verifies that did not before, and which sets no times.
LEMMA TimeKept ==
  ASSUME TypeOK, TimeInv, used \subseteq used', clock' = clock,
         \A q \in Requests : At(q, "verify")' => At(q, "verify") /\ call'[q] = call[q],
         \A u \in Accounts : Exists(u)' =>
           \/ /\ Exists(u)
              /\ account'[u].firstVerifiedAt = account[u].firstVerifiedAt
              /\ account'[u].verifiedAt \in {0, account[u].verifiedAt}
           \/ /\ u \notin used /\ u \in used'
              /\ account'[u].firstVerifiedAt = 0 /\ account'[u].verifiedAt = 0
  PROVE  TimeInv'
<1>1. \A u \in Accounts : Exists(u)' =>
        /\ u \in used'
        /\ account'[u].firstVerifiedAt \in 0..clock'
        /\ account'[u].verifiedAt # 0 => account'[u].firstVerifiedAt \in 1..account'[u].verifiedAt
  BY DEF TimeInv, TypeOK
<1>2. ASSUME NEW q \in Requests, At(q, "verify")'
      PROVE  Timely(call[q])'
  <2>1. PICK c \in Call : c = call[q] /\ c = call'[q] /\ c.user \in Accounts /\ Timely(c)
    BY <1>2, AtCall, CallKinds DEF TimeInv
  <2>2. Exists(c.user)' =>
          Exists(c.user) /\ account'[c.user].firstVerifiedAt = account[c.user].firstVerifiedAt
    BY <2>1 DEF Timely
  <2>3. Timely(c)'
    BY <2>1, <2>2 DEF Timely
  <2> QED
    BY <2>1, <2>3 DEF Timely
<1>3. \A p, q \in Requests :
        At(p, "verify")' /\ At(q, "verify")' /\ call'[p].user = call'[q].user
          /\ ~call'[p].keep /\ call'[q].keep => call'[p].at < call'[q].at
  BY DEF TimeInv
<1>4. \A u \in Accounts : Exists(u)' =>
        /\ u \in used'
        /\ (account[u].firstVerifiedAt \in 0..clock)'
        /\ (account[u].verifiedAt # 0 => account[u].firstVerifiedAt \in 1..account[u].verifiedAt)'
  BY <1>1
<1> QED
  BY <1>2, <1>3, <1>4 DEF TimeInv

\* The calls that verify, after the start of one that does not and after a statement.
LEMMA StartsNoVerify ==
  ASSUME TypeOK, NEW r \in Requests, NEW c \in Call \cup {NoCall},
         Start(r, c) \/ (Return(r) /\ c = NoCall), c = NoCall \/ c.stage # "verify"
  PROVE  \A q \in Requests : At(q, "verify")' => At(q, "verify") /\ call'[q] = call[q]
BY OthersStay DEF At

\* A statement leaves the other calls that verify as they are.
LEMMA OvertakesNoVerify ==
  ASSUME TypeOK, NEW r, NEW u \in Accounts,
         \A q \in Requests : q # r => call'[q] = Overtake(q, u),
         r \in Requests => ~At(r, "verify")'
  PROVE  \A q \in Requests : At(q, "verify")' => At(q, "verify") /\ call'[q] = call[q]
<1> SUFFICES ASSUME NEW q \in Requests, At(q, "verify")'
             PROVE  At(q, "verify") /\ call'[q] = call[q]
  OBVIOUS
<1>1. q # r /\ call'[q] = Overtake(q, u)
  OBVIOUS
<1>2. ~At(q, "sign")
  BY <1>1, OvertakeKeeps DEF At
<1> QED
  BY <1>1, <1>2, OvertakeKeeps DEF At

\* A verification that begins has the latest time, and keeps what is there.
LEMMA BeginKeepsTime ==
  ASSUME TypeOK, TimeInv, NEW r \in Requests, NEW t \in tokens, NEW m \in mails,
         BeginVerification(r, t, m)
  PROVE  TimeInv'
<1>1. t.id \in Accounts /\ Exists(t.id) /\ account[t.id] \in Row
  BY DEF BeginVerification, Exists, TypeOK, Claims
<1>2. PICK c \in Call :
        /\ c.stage = "verify" /\ c.user = t.id /\ c.at = clock + 1 /\ c.keep \in BOOLEAN
        /\ c.keep <=> account[t.id].firstVerifiedAt # 0
        /\ Start(r, c)
  <2> DEFINE k == [stage |-> "verify", user |-> t.id,
                   keep |-> account[t.id].firstVerifiedAt # 0, at |-> clock + 1]
  <2>1. k \in Call
    BY <1>1 DEF Call, TypeOK
  <2>2. Start(r, k)
    BY DEF BeginVerification
  <2> QED
    BY <2>1, <2>2
<1>3. UNCHANGED <<account, used>> /\ clock' = clock + 1 /\ clock \in Nat
  BY DEF BeginVerification, TypeOK
<1>4. call'[r] = c /\ \A q \in Requests : q # r => call'[q] = call[q]
  BY <1>2, OthersStay
<1>5. \A u \in Accounts : Exists(u)' =>
        /\ u \in used'
        /\ (account[u].firstVerifiedAt \in 0..clock)'
        /\ (account[u].verifiedAt # 0 => account[u].firstVerifiedAt \in 1..account[u].verifiedAt)'
  BY <1>3 DEF TimeInv, Exists, TypeOK, Row
<1>6. ASSUME NEW q \in Requests, At(q, "verify")'
      PROVE  Timely(call[q])'
  <2>1. CASE q = r
    <3>1. Timely(c)'
      BY <1>1, <1>2, <1>3 DEF Timely, TimeInv, Exists, Row
    <3> QED
      BY <1>4, <2>1, <3>1 DEF Timely
  <2>2. CASE q # r
    <3>1. PICK k \in Call : k = call[q] /\ k = call'[q] /\ Timely(k)
      BY <1>4, <1>6, <2>2, AtCall DEF At, TimeInv, TypeOK
    <3>2. Timely(k)'
      BY <1>3, <3>1 DEF Timely, Exists
    <3> QED
      BY <3>1, <3>2 DEF Timely
  <2> QED
    BY <2>1, <2>2
<1>7. ASSUME NEW p \in Requests, NEW q \in Requests, At(p, "verify")', At(q, "verify")',
             call'[p].user = call'[q].user, ~call'[p].keep, call'[q].keep
      PROVE  call'[p].at < call'[q].at
  <2>1. CASE p = r
    <3>1. q # r
      BY <1>4, <1>7, <2>1
    <3>2. call'[q] = call[q] /\ At(q, "verify") /\ Timely(call[q])
      BY <1>4, <1>7, <3>1 DEF At, TimeInv
    <3>3. account[t.id].firstVerifiedAt # 0
      BY <1>1, <1>2, <1>4, <1>7, <2>1, <3>2 DEF Timely
    <3> QED
      BY <1>2, <1>4, <1>7, <2>1, <3>3
  <2>2. CASE p # r /\ q = r
    <3>1. call'[p] = call[p] /\ At(p, "verify") /\ Timely(call[p])
      BY <1>4, <1>7, <2>2 DEF At, TimeInv
    <3> QED
      BY <1>2, <1>3, <1>4, <2>2, <3>1 DEF Timely
  <2>3. CASE p # r /\ q # r
    BY <1>4, <1>7, <2>3 DEF At, TimeInv
  <2> QED
    BY <2>1, <2>2, <2>3
<1> QED
  BY <1>5, <1>6, <1>7 DEF TimeInv

\* A verification either keeps the first one, which began before it, or sets it, to a
\* time before that of every call that keeps it.
LEMMA VerifyKeepsTime ==
  ASSUME TypeOK, TimeInv, NEW r \in Requests, VerifyUser(r)
  PROVE  TimeInv'
<1>1. PICK c \in Call : c = call[r] /\ c.stage = "verify" /\ c.user \in Accounts
                      /\ c.keep \in BOOLEAN /\ c.at \in Nat /\ Timely(c)
  BY AtCall, CallKinds DEF VerifyUser, TimeInv
<1>2. Exists(c.user) /\ account[c.user] \in Row
  BY <1>1 DEF VerifyUser, Exists, TypeOK
<1>3. PICK row \in Row :
        /\ row.verifiedAt = c.at
        /\ row.firstVerifiedAt = IF c.keep THEN account[c.user].firstVerifiedAt ELSE c.at
        /\ Write(c.user, row, r, Signing(ClaimsOf(c.user, row)))
  <2> DEFINE v == Verified(account[c.user], c)
  <2>1. v \in Row /\ v.verifiedAt = c.at
        /\ v.firstVerifiedAt = IF c.keep THEN account[c.user].firstVerifiedAt ELSE c.at
    BY <1>1, <1>2, VerifiedTypes
  <2>2. Write(c.user, v, r, Signing(ClaimsOf(c.user, v)))
    BY <1>1 DEF VerifyUser, Verified
  <2> QED
    BY <2>1, <2>2
<1>4. /\ account'[c.user] = row
      /\ \A u \in Accounts : u # c.user => account'[u] = account[u]
  BY <1>1, <1>3 DEF Write, TypeOK
<1>5. UNCHANGED <<used, clock>> /\ clock \in Nat
  BY DEF VerifyUser, TypeOK
<1>6. \A q \in Requests : At(q, "verify")' => At(q, "verify") /\ call'[q] = call[q] /\ q # r
  <2>1. /\ call'[r].stage = "sign"
        /\ \A q \in Requests : q # r => call'[q] = Overtake(q, c.user)
    BY <1>1, <1>3, OthersOvertaken, ClaimsTypes
  <2>2. ~At(r, "verify")'
    BY <2>1 DEF At
  <2> QED
    BY <1>1, <2>1, <2>2, OvertakesNoVerify
<1>7. \A u \in Accounts : Exists(u)' => Exists(u)
  BY <1>2, <1>4 DEF Exists
<1>8. ASSUME NEW u \in Accounts, Exists(u)'
      PROVE  /\ u \in used'
             /\ (account[u].firstVerifiedAt \in 0..clock)'
             /\ (account[u].verifiedAt # 0
                    => account[u].firstVerifiedAt \in 1..account[u].verifiedAt)'
  <2>1. CASE u = c.user
    BY <1>1, <1>2, <1>3, <1>4, <1>5, <2>1 DEF TimeInv, Timely
  <2>2. CASE u # c.user
    BY <1>4, <1>5, <1>7, <1>8, <2>2 DEF TimeInv
  <2> QED
    BY <2>1, <2>2
<1>9. ASSUME NEW q \in Requests, At(q, "verify")'
      PROVE  Timely(call[q])'
  <2>1. PICK k \in Call : /\ k = call[q] /\ k = call'[q] /\ At(q, "verify") /\ Timely(k)
                         /\ k.keep \in BOOLEAN /\ k.user \in Accounts /\ k.at \in Nat
    BY <1>6, <1>9, AtCall, CallKinds DEF TimeInv
  <2>2. ASSUME k.user = c.user, k.keep
        PROVE  row.firstVerifiedAt \in 1..(k.at - 1)
    <3>1. CASE c.keep
      BY <1>2, <1>3, <2>1, <2>2, <3>1 DEF Timely
    <3>2. CASE ~c.keep
      <4>1. c.at < k.at
        BY <1>1, <2>1, <2>2, <3>2 DEF TimeInv, VerifyUser
      <4> QED
        BY <1>1, <1>3, <1>5, <2>1, <3>2, <4>1 DEF Timely
    <3> QED
      BY <1>1, <3>1, <3>2
  <2>3. Timely(k)'
    BY <1>4, <1>5, <1>7, <2>1, <2>2 DEF Timely
  <2> QED
    BY <2>1, <2>3 DEF Timely
<1>10. \A p, q \in Requests :
         At(p, "verify")' /\ At(q, "verify")' /\ call'[p].user = call'[q].user
           /\ ~call'[p].keep /\ call'[q].keep => call'[p].at < call'[q].at
  BY <1>6 DEF TimeInv
<1> QED
  BY <1>8, <1>9, <1>10 DEF TimeInv

\* Every step keeps the invariant.
LEMMA TimeStep ==
  ASSUME TypeOK, TimeInv, [Next]_vars
  PROVE  TimeInv'
<1>1. CASE UNCHANGED vars
  BY <1>1 DEF TimeInv, Timely, Exists, At, vars, history
<1>2. ASSUME NEW r \in Requests, NEW c \in Call \cup {NoCall},
             Start(r, c) \/ (Return(r) /\ c = NoCall), c = NoCall \/ c.stage # "verify",
             UNCHANGED <<account, used, clock>>
      PROVE  TimeInv'
  <2>1. \A q \in Requests : At(q, "verify")' => At(q, "verify") /\ call'[q] = call[q]
    BY <1>2, StartsNoVerify
  <2> QED
    BY <1>2, <2>1, TimeKept DEF Exists
<1>3. ASSUME NEW r \in Requests, NEW u \in Accounts, Login(r, u)
      PROVE  TimeInv'
  <2>1. Signing(ClaimsOf(u, account[u])) \in Call
        /\ Signing(ClaimsOf(u, account[u])).stage = "sign"
    BY <1>3, ClaimsTypes DEF Login, Exists, TypeOK
  <2> QED
    BY <1>2, <1>3, <2>1 DEF Login
<1>4. ASSUME NEW r \in Requests, NEW t \in tokens, Refresh(r, t)
      PROVE  TimeInv'
  <2>1. Signing(ClaimsOf(t.id, account[t.id])) \in Call
        /\ Signing(ClaimsOf(t.id, account[t.id])).stage = "sign"
    BY <1>4, ClaimsTypes DEF Refresh, Exists, TypeOK, Claims
  <2> QED
    BY <1>2, <1>4, <2>1 DEF Refresh
<1>5. ASSUME NEW r \in Requests, NEW email \in Emails, Register(r, email)
      PROVE  TimeInv'
  <2>1. [stage |-> "insert", email |-> email] \in Call
    BY DEF Call
  <2> QED
    BY <1>2, <1>5, <2>1 DEF Register
<1>6. ASSUME NEW r \in Requests, NEW t \in tokens, NEW u \in Accounts,
             NEW email \in NewEmails, Receive(r, t, u, email)
      PROVE  TimeInv'
  <2> DEFINE c == [stage |-> IF ReadsTarget(t, u) THEN "target" ELSE "change",
                   by |-> t.id, user |-> u, email |-> email]
  <2>1. c \in Call /\ c.stage # "verify"
    BY DEF Call, TypeOK, Claims
  <2>2. Start(r, c) /\ UNCHANGED <<account, used, clock>>
    BY <1>6 DEF Receive
  <2> HIDE DEF c
  <2> QED
    BY <1>2, <2>1, <2>2
<1>7. ASSUME NEW r \in Requests, Sign(r) \/ UpdateName(r) \/ SendEmail(r) \/ Fail(r)
      PROVE  TimeInv'
  BY <1>2, <1>7 DEF Sign, UpdateName, SendEmail, Fail
<1>8. ASSUME NEW r \in Requests, NEW u \in Accounts, Mailing(r, u),
             UNCHANGED <<account, used, clock>>
      PROVE  TimeInv'
  <2> DEFINE c == [stage |-> "mail", mail |-> [sub |-> u, to |-> account[u].email]]
  <2>1. c \in Call /\ c.stage # "verify"
    BY <1>8 DEF Mailing, Exists, TypeOK, Row, Mail, Call
  <2>2. Start(r, c)
    BY <1>8 DEF Mailing
  <2> HIDE DEF c
  <2> QED
    BY <1>2, <1>8, <2>1, <2>2
<1>9. ASSUME NEW r \in Requests, NEW u \in Accounts, Listen(r, u)
      PROVE  TimeInv'
  BY <1>8, <1>9 DEF Listen
<1>10. ASSUME NEW r \in Requests, NEW t \in tokens, RequestEmailVerification(r, t)
       PROVE  TimeInv'
  BY <1>8, <1>10 DEF RequestEmailVerification, TypeOK, Claims
<1>11. ASSUME NEW r \in Requests, ReadTarget(r)
       PROVE  TimeInv'
  <2>1. PICK c \in Call : c = call[r] /\ c.stage = "target"
    BY <1>11, AtCall DEF ReadTarget
  <2>2. [c EXCEPT !.stage = "change"].stage = "change"
    BY <2>1, CallKinds
  <2>3. call' = [call EXCEPT ![r] = [c EXCEPT !.stage = "change"]]
        /\ UNCHANGED <<account, used, clock>>
    BY <1>11, <2>1 DEF ReadTarget
  <2>4. \A q \in Requests : At(q, "verify")' => At(q, "verify") /\ call'[q] = call[q]
    BY <2>2, <2>3 DEF At, TypeOK
  <2> QED
    BY <2>3, <2>4, TimeKept DEF Exists
<1>12. ASSUME NEW r \in Requests, NEW u \in Accounts, Insert(r, u)
       PROVE  TimeInv'
  <2>1. PICK email \in Emails : email = call[r].email
    BY <1>12, AtCall, CallKinds DEF Insert
  <2>2. PICK row \in Row : /\ row.verifiedAt = 0 /\ row.firstVerifiedAt = 0
                          /\ Write(u, row, r, Signing(ClaimsOf(u, row)))
    <3> DEFINE new == [email |-> email, verifiedAt |-> 0, firstVerifiedAt |-> 0,
                       role |-> "user"]
    <3>1. new \in Row /\ new.verifiedAt = 0 /\ new.firstVerifiedAt = 0
      BY DEF Row, Roles
    <3>2. Write(u, new, r, Signing(ClaimsOf(u, new)))
      BY <1>12, <2>1 DEF Insert
    <3> QED
      BY <3>1, <3>2
  <2>3. /\ account'[u] = row
        /\ \A v \in Accounts : v # u => account'[v] = account[v]
    BY <2>2 DEF Write, TypeOK
  <2>4. /\ call'[r].stage = "sign"
        /\ \A q \in Requests : q # r => call'[q] = Overtake(q, u)
    BY <2>2, OthersOvertaken, ClaimsTypes
  <2>5. \A q \in Requests : At(q, "verify")' => At(q, "verify") /\ call'[q] = call[q]
    BY <2>4, OvertakesNoVerify DEF At
  <2>6. u \notin used /\ used' = used \cup {u} /\ clock' = clock
    BY <1>12 DEF Insert
  <2> QED
    BY <2>2, <2>3, <2>5, <2>6, TimeKept DEF Exists
<1>13. ASSUME NEW r \in Requests, Update(r)
       PROVE  TimeInv'
  <2>1. PICK c \in Call : c = call[r] /\ c.user \in Accounts /\ c.email \in Emails
    BY <1>13, AtCall, CallKinds DEF Update
  <2>2. Exists(c.user) /\ account[c.user] \in Row
    BY <1>13, <2>1 DEF Update, Exists, TypeOK
  <2>3. PICK row \in Row : /\ row.verifiedAt = 0
                          /\ row.firstVerifiedAt = account[c.user].firstVerifiedAt
                          /\ Write(c.user, row, r, NoCall)
    <3> DEFINE new == [account[c.user] EXCEPT !.email = c.email, !.verifiedAt = 0]
    <3>1. /\ new \in Row /\ new.verifiedAt = 0
          /\ new.firstVerifiedAt = account[c.user].firstVerifiedAt
      BY <2>1, <2>2 DEF Row
    <3>2. Write(c.user, new, r, NoCall)
      BY <1>13, <2>1 DEF Update
    <3> QED
      BY <3>1, <3>2
  <2>4. /\ account'[c.user] = row
        /\ \A v \in Accounts : v # c.user => account'[v] = account[v]
    BY <2>1, <2>3 DEF Write, TypeOK
  <2>5. call'[r] = NoCall /\ \A q \in Requests : q # r => call'[q] = Overtake(q, c.user)
    BY <2>3, OthersOvertaken
  <2>6. \A q \in Requests : At(q, "verify")' => At(q, "verify") /\ call'[q] = call[q]
    BY <2>1, <2>5, OvertakesNoVerify DEF At
  <2>7. UNCHANGED <<used, clock>>
    BY <1>13 DEF Update
  <2> QED
    BY <2>2, <2>3, <2>4, <2>6, <2>7, TimeKept DEF Exists
<1>14. ASSUME NEW r \in Requests, Delete(r)
       PROVE  TimeInv'
  <2>1. PICK c \in Call : c = call[r] /\ c.user \in Accounts
    BY <1>14, AtCall, CallKinds DEF Delete
  <2>2. Write(c.user, NoRow, r, NoCall) /\ UNCHANGED <<used, clock>>
    BY <1>14, <2>1 DEF Delete
  <2>3. /\ account'[c.user] = NoRow
        /\ \A v \in Accounts : v # c.user => account'[v] = account[v]
    BY <2>1, <2>2 DEF Write, TypeOK
  <2>4. call'[r] = NoCall /\ \A q \in Requests : q # r => call'[q] = Overtake(q, c.user)
    BY <2>2, OthersOvertaken
  <2>5. \A q \in Requests : At(q, "verify")' => At(q, "verify") /\ call'[q] = call[q]
    BY <2>1, <2>4, OvertakesNoVerify DEF At
  <2> QED
    BY <2>2, <2>3, <2>5, TimeKept DEF Exists
<1>15. ASSUME NEW u \in Accounts, NEW role \in Roles, SetRole(u, role)
       PROVE  TimeInv'
  <2>1. \A v \in Accounts : Exists(v)' =>
          /\ Exists(v)
          /\ account'[v].firstVerifiedAt = account[v].firstVerifiedAt
          /\ account'[v].verifiedAt = account[v].verifiedAt
    BY <1>15 DEF SetRole, Exists, TypeOK, Row
  <2>2. \A q \in Requests : At(q, "verify")' => At(q, "verify") /\ call'[q] = call[q]
    <3>1. PICK r : r \notin Requests
      BY NoSetContainsEverything
    <3>2. \A q \in Requests : call'[q] = Overtake(q, u)
      BY <1>15 DEF SetRole
    <3> QED
      BY <3>1, <3>2, OvertakesNoVerify
  <2>3. UNCHANGED <<used, clock>>
    BY <1>15 DEF SetRole
  <2> QED
    BY <2>1, <2>2, <2>3, TimeKept
<1>16. CASE Crash
  BY <1>16, TimeKept DEF Crash, Exists, At
<1> QED
  BY <1>1, <1>3, <1>4, <1>5, <1>6, <1>7, <1>9, <1>10, <1>11, <1>12, <1>13, <1>14, <1>15,
     <1>16, BeginKeepsTime, VerifyKeepsTime DEF Next

\* However verifications and changes of the address overlap, a verified account has a
\* first verification, and it is not later than the one in force.
THEOREM FirstVerificationIsFirstHolds == Spec => []FirstVerificationIsFirst
<1>1. TimeInv => FirstVerificationIsFirst
  BY DEF TimeInv, FirstVerificationIsFirst
<1>2. TypeOK /\ TimeInv /\ [Next]_vars => TimeInv'
  BY TimeStep
<1> QED
  BY <1>1, <1>2, TypeCorrect, TimeInit, PTL DEF Spec

(***************************************************************************)
(* Changes are authorised: what a call was admitted by stays true of the   *)
(* tokens that were signed and of the row, as long as there is the row.    *)
(***************************************************************************)
\* A verified holder of the account, and a verified administrator.
HolderOf(u) == \E t \in tokens : t.id = u /\ t.verified
Administrator == \E t \in tokens : t.role = "admin" /\ t.verified

\* The account has been verified, or is gone for good.
Confirmed(u) == u \in used /\ (Exists(u) => account[u].firstVerifiedAt # 0)

\* What the change or the deletion a call is about to make was admitted by.
Admitted(c) ==
  \/ HolderOf(c.user)
  \/ Administrator /\ (c.stage = "change" => Confirmed(c.user))

AdmissionInv ==
  \A q \in Requests : At(q, "target") \/ At(q, "change") => Admitted(call[q])

\* A verified account stays verified or goes; no id comes back.
LEMMA ConfirmedStays ==
  ASSUME TypeOK, TimeInv, [Next]_vars, NEW u \in Accounts, Confirmed(u)
  PROVE  Confirmed(u)'
<1>1. CASE UNCHANGED <<account, used>>
  BY <1>1 DEF Confirmed, Exists
<1>2. ASSUME NEW r \in Requests, NEW v \in Accounts, Insert(r, v)
      PROVE  Confirmed(u)'
  <2>1. v # u /\ used' = used \cup {v}
    BY <1>2 DEF Insert, Confirmed
  <2>2. account'[u] = account[u]
    BY <1>2, <2>1 DEF Insert, Write, TypeOK
  <2> QED
    BY <2>1, <2>2 DEF Confirmed, Exists
<1>3. ASSUME NEW r \in Requests, Update(r)
      PROVE  Confirmed(u)'
  <2>1. PICK c \in Call : c = call[r] /\ c.user \in Accounts /\ c.email \in Emails
    BY <1>3, AtCall, CallKinds DEF Update
  <2>2. Exists(c.user) /\ account[c.user] \in Row /\ used' = used
    BY <1>3, <2>1 DEF Update, Exists, TypeOK
  <2>3. account' = [account EXCEPT ![c.user] = [@ EXCEPT !.email = c.email, !.verifiedAt = 0]]
    BY <1>3, <2>1 DEF Update, Write, TypeOK
  <2> QED
    BY <2>1, <2>2, <2>3 DEF Confirmed, Exists, TypeOK, Row
<1>4. ASSUME NEW r \in Requests, Delete(r)
      PROVE  Confirmed(u)'
  BY <1>4 DEF Delete, Write, Confirmed, Exists, TypeOK
<1>5. ASSUME NEW r \in Requests, VerifyUser(r)
      PROVE  Confirmed(u)'
  <2>1. PICK c \in Call : c = call[r] /\ c.stage = "verify" /\ c.user \in Accounts /\ Timely(c)
    BY <1>5, AtCall, CallKinds DEF VerifyUser, TimeInv
  <2>2. Exists(c.user) /\ account[c.user] \in Row /\ used' = used
    BY <1>5, <2>1 DEF VerifyUser, Exists, TypeOK
  <2>3. account' = [account EXCEPT ![c.user] = Verified(account[c.user], c)]
    BY <1>5, <2>1 DEF VerifyUser, Write, Verified
  <2>4. Verified(account[c.user], c).firstVerifiedAt # 0
    BY <2>1, <2>2, VerifiedTypes DEF Timely, TypeOK
  <2> QED
    BY <2>1, <2>2, <2>3, <2>4 DEF Confirmed, Exists, TypeOK
<1>6. ASSUME NEW v \in Accounts, NEW role \in Roles, SetRole(v, role)
      PROVE  Confirmed(u)'
  BY <1>6 DEF SetRole, Confirmed, Exists, TypeOK, Row
<1> QED
  BY <1>1, <1>2, <1>3, <1>4, <1>5, <1>6
  DEF Next, Sign, Login, Listen, Mailing, Refresh, RequestEmailVerification, Register, Receive,
      ReadTarget, UpdateName, BeginVerification, SendEmail, Fail, Crash, vars

\* The tokens stay, so that what a call was admitted by stays true.
LEMMA AdmittedStays ==
  ASSUME TypeOK, TimeInv, [Next]_vars, NEW c \in Call, c.stage \in {"target", "change"}, Admitted(c)
  PROVE  Admitted(c)'
<1>1. tokens \subseteq tokens'
  BY DEF Next, Sign, Login, Insert, Listen, Refresh, RequestEmailVerification, Register, Receive,
         ReadTarget, Update, UpdateName, Delete, BeginVerification, SendEmail, VerifyUser, Fail,
         SetRole, Crash, vars
<1>2. c.user \in Accounts
  BY CallKinds
<1>3. Confirmed(c.user) => Confirmed(c.user)'
  BY <1>2, ConfirmedStays
<1> QED
  BY <1>1, <1>3 DEF Admitted, HolderOf, Administrator

\* A call that is admitted was before, or has been read to be, or has just come in.
LEMMA AdmissionSteps ==
  ASSUME TypeOK, [Next]_vars, NEW q \in Requests, At(q, "target")' \/ At(q, "change")'
  PROVE  \/ call'[q] = call[q]
         \/ ReadTarget(q)
         \/ \E t \in tokens, u \in Accounts, email \in NewEmails : Receive(q, t, u, email)
<1>1. CASE call' = call
  BY <1>1
<1>2. ASSUME NEW r \in Requests, NEW c \in Call \cup {NoCall}, Start(r, c) \/ (Return(r) /\ c = NoCall),
             c = NoCall \/ c.stage \notin {"target", "change"}
      PROVE  call'[q] = call[q]
  BY <1>2, OthersStay DEF At
<1>3. ASSUME NEW r \in Requests, NEW u \in Accounts, NEW row, NEW c, Write(u, row, r, c),
             c = NoCall \/ c.stage = "sign"
      PROVE  call'[q] = call[q]
  <2>1. q # r /\ call'[q] = Overtake(q, u)
    BY <1>3, OthersOvertaken DEF At
  <2> QED
    BY <2>1, OvertakeKeeps DEF At
<1>4. ASSUME NEW r \in Requests, NEW u \in Accounts, Exists(u), Start(r, Signing(ClaimsOf(u, account[u])))
      PROVE  call'[q] = call[q]
  BY <1>2, <1>4, ClaimsTypes DEF Exists, TypeOK
<1>5. ASSUME NEW r \in Requests, NEW u \in Accounts, Mailing(r, u)
      PROVE  call'[q] = call[q]
  <2> DEFINE c == [stage |-> "mail", mail |-> [sub |-> u, to |-> account[u].email]]
  <2>1. c \in Call /\ c.stage = "mail"
    BY <1>5 DEF Mailing, Exists, TypeOK, Row, Mail, Call
  <2>2. Start(r, c)
    BY <1>5 DEF Mailing
  <2> HIDE DEF c
  <2> QED
    BY <1>2, <2>1, <2>2
<1>6. ASSUME NEW r \in Requests, Sign(r) \/ UpdateName(r) \/ SendEmail(r) \/ Fail(r)
      PROVE  call'[q] = call[q]
  BY <1>2, <1>6 DEF Sign, UpdateName, SendEmail, Fail
<1>7. ASSUME NEW r \in Requests, NEW u \in Accounts, Login(r, u) \/ Insert(r, u) \/ Listen(r, u)
      PROVE  call'[q] = call[q]
  BY <1>3, <1>4, <1>5, <1>7 DEF Login, Insert, Listen, Signing
<1>8. ASSUME NEW r \in Requests, NEW t \in tokens, Refresh(r, t) \/ RequestEmailVerification(r, t)
      PROVE  call'[q] = call[q]
  BY <1>4, <1>5, <1>8 DEF Refresh, RequestEmailVerification, TypeOK, Claims
<1>9. ASSUME NEW r \in Requests, NEW email \in Emails, Register(r, email)
      PROVE  call'[q] = call[q]
  <2>1. [stage |-> "insert", email |-> email] \in Call
    BY DEF Call
  <2> QED
    BY <1>2, <1>9, <2>1 DEF Register
<1>10. ASSUME NEW r \in Requests, NEW t \in tokens, NEW u \in Accounts,
              NEW email \in NewEmails, Receive(r, t, u, email), r # q
       PROVE  call'[q] = call[q]
  BY <1>10 DEF Receive, Start, TypeOK
<1>11. ASSUME NEW r \in Requests, ReadTarget(r), r # q
       PROVE  call'[q] = call[q]
  BY <1>11 DEF ReadTarget, TypeOK
<1>12. ASSUME NEW r \in Requests, Update(r) \/ Delete(r) \/ VerifyUser(r)
       PROVE  call'[q] = call[q]
  <2>1. PICK c \in Call : c = call[r] /\ c.stage \in {"change", "verify"} /\ c.user \in Accounts
    BY <1>12, AtCall, CallKinds DEF Update, Delete, VerifyUser
  <2>2. \E row, k : Write(c.user, row, r, k) /\ (k = NoCall \/ k.stage = "sign")
    BY <1>12, <2>1 DEF Update, Delete, VerifyUser, Signing
  <2> QED
    BY <1>3, <2>1, <2>2
<1>13. ASSUME NEW r \in Requests, NEW t \in tokens, NEW m \in mails, BeginVerification(r, t, m)
       PROVE  call'[q] = call[q]
  <2> DEFINE c == [stage |-> "verify", user |-> t.id,
                   keep |-> account[t.id].firstVerifiedAt # 0, at |-> clock + 1]
  <2>1. c \in Call /\ c.stage = "verify"
    BY DEF Call, TypeOK, Claims
  <2>2. Start(r, c)
    BY <1>13 DEF BeginVerification
  <2> HIDE DEF c
  <2> QED
    BY <1>2, <2>1, <2>2
<1>14. ASSUME NEW u \in Accounts, NEW role \in Roles, SetRole(u, role)
       PROVE  call'[q] = call[q]
  <2>1. call'[q] = Overtake(q, u)
    BY <1>14 DEF SetRole
  <2> QED
    BY <2>1, OvertakeKeeps DEF At
<1>15. ~Crash
  BY DEF Crash, At
<1> QED
  BY <1>1, <1>6, <1>7, <1>8, <1>9, <1>10, <1>11, <1>12, <1>13, <1>14, <1>15 DEF Next, vars

\* A call that comes in is admitted by the claims of its token.
LEMMA ReceivedIsAdmitted ==
  ASSUME TypeOK, NEW q \in Requests, NEW t \in tokens, NEW u \in Accounts,
         NEW email \in NewEmails, Receive(q, t, u, email)
  PROVE  Admitted(call[q])'
<1>1. t \in Claims /\ t \in tokens'
  BY DEF TypeOK, Receive
<1>2. t.verified /\ (t.id = u \/ t.role = "admin")
  BY <1>1, OnlyAdministratorsActForOthers DEF Receive, Claims
<1>3. call'[q] = [stage |-> IF ReadsTarget(t, u) THEN "target" ELSE "change",
                  by |-> t.id, user |-> u, email |-> email]
  BY DEF Receive, Start, TypeOK
<1>4. CASE t.id = u
  BY <1>1, <1>2, <1>3, <1>4 DEF Admitted, HolderOf
<1>5. CASE t.id # u
  BY <1>1, <1>2, <1>3, <1>5 DEF Admitted, Administrator, ReadsTarget
<1> QED
  BY <1>4, <1>5

\* A target that was read is there and verified.
LEMMA ReadIsAdmitted ==
  ASSUME TypeOK, TimeInv, AdmissionInv, NEW q \in Requests, ReadTarget(q)
  PROVE  Admitted(call[q])'
<1>1. PICK c \in Call : c = call[q] /\ c.stage = "target" /\ c.user \in Accounts /\ Admitted(c)
  BY AtCall, CallKinds DEF ReadTarget, AdmissionInv
<1>2. call'[q].user = c.user
  <2>1. call'[q] = [c EXCEPT !.stage = "change"]
    BY <1>1 DEF ReadTarget, TypeOK
  <2>2. [c EXCEPT !.stage = "change"]
          = [stage |-> "change", by |-> c.by, user |-> c.user, email |-> c.email]
    BY <1>1, CallKinds
  <2> QED
    BY <2>1, <2>2
<1>3. Confirmed(c.user)
  BY <1>1 DEF ReadTarget, TimeInv, Confirmed
<1> QED
  BY <1>1, <1>2, <1>3 DEF ReadTarget, Admitted, HolderOf, Administrator, Confirmed, Exists

\* Every step keeps the invariant.
LEMMA AdmissionStep ==
  ASSUME TypeOK, TimeInv, AdmissionInv, [Next]_vars
  PROVE  AdmissionInv'
<1> SUFFICES ASSUME NEW q \in Requests, At(q, "target")' \/ At(q, "change")'
             PROVE  Admitted(call[q])'
  BY DEF AdmissionInv
<1>1. CASE call'[q] = call[q]
  <2>1. At(q, "target") \/ At(q, "change")
    BY <1>1 DEF At
  <2>2. PICK c \in Call : c = call[q] /\ c.stage \in {"target", "change"} /\ Admitted(c)
    BY <2>1, AtCall DEF AdmissionInv
  <2>3. Admitted(c)'
    BY <2>2, AdmittedStays
  <2> QED
    BY <1>1, <2>2, <2>3 DEF Admitted
<1>2. CASE ReadTarget(q)
  BY <1>2, ReadIsAdmitted
<1>3. ASSUME NEW t \in tokens, NEW u \in Accounts, NEW email \in NewEmails,
             Receive(q, t, u, email)
      PROVE  Admitted(call[q])'
  BY <1>3, ReceivedIsAdmitted
<1> QED
  BY <1>1, <1>2, <1>3, AdmissionSteps

\* A row that goes, or whose address changes, does so by the statement of an admitted call.
LEMMA ChangesAreAdmitted ==
  ASSUME TypeOK, TimeInv, AdmissionInv, Next, NEW u \in Accounts, Exists(u),
         Exists(u)' => account'[u].email # account[u].email
  PROVE  HolderOf(u) \/ (Administrator /\ Confirmed(u))
<1>1. account'[u] # account[u]
  BY DEF Exists
<1>2. ASSUME NEW r \in Requests, Update(r) \/ Delete(r)
      PROVE  HolderOf(u) \/ (Administrator /\ Confirmed(u))
  <2>1. PICK c \in Call : /\ c = call[r] /\ c.stage = "change" /\ c.user \in Accounts
                         /\ Admitted(c)
    BY <1>2, AtCall, CallKinds DEF Update, Delete, AdmissionInv
  <2>2. c.user = u
    BY <1>1, <1>2, <2>1 DEF Update, Delete, Write, TypeOK
  <2> QED
    BY <2>1, <2>2 DEF Admitted
<1>3. ASSUME NEW r \in Requests, NEW v \in Accounts, Insert(r, v)
      PROVE  FALSE
  <2>1. u # v
    BY <1>3 DEF Insert, TimeInv
  <2> QED
    BY <1>1, <1>3, <2>1 DEF Insert, Write, TypeOK
<1>4. ASSUME NEW r \in Requests, VerifyUser(r)
      PROVE  FALSE
  <2>1. PICK c \in Call : c = call[r] /\ c.stage = "verify" /\ c.user \in Accounts
    BY <1>4, AtCall, CallKinds DEF VerifyUser
  <2>2. Exists(c.user) /\ account[c.user] \in Row
    BY <1>4, <2>1 DEF VerifyUser, Exists, TypeOK
  <2>3. account' = [account EXCEPT ![c.user] = Verified(account[c.user], c)]
    BY <1>4, <2>1 DEF VerifyUser, Write, Verified
  <2>4. /\ Verified(account[c.user], c) \in Row
        /\ Verified(account[c.user], c).email = account[c.user].email
    BY <2>1, <2>2, VerifiedTypes
  <2> QED
    BY <1>1, <2>1, <2>3, <2>4, NoRowAssumption DEF TypeOK, Exists
<1>5. ASSUME NEW v \in Accounts, NEW role \in Roles, SetRole(v, role)
      PROVE  FALSE
  <2>1. /\ account' = [account EXCEPT ![v] = [account[v] EXCEPT !.role = role]]
        /\ account[v] \in Row
    BY <1>5 DEF SetRole, Exists, TypeOK
  <2>2. /\ [account[v] EXCEPT !.role = role] \in Row
        /\ [account[v] EXCEPT !.role = role].email = account[v].email
    BY <2>1 DEF Row
  <2> QED
    BY <1>1, <2>1, <2>2, NoRowAssumption DEF TypeOK, Exists
<1> QED
  BY <1>1, <1>2, <1>3, <1>4, <1>5
  DEF Next, Sign, Login, Listen, Mailing, Refresh, RequestEmailVerification, Register, Receive,
      ReadTarget, UpdateName, BeginVerification, SendEmail, Fail, Crash

\* Whatever the claims a change was admitted by have become since, and whatever else has
\* been written, it is executed for a verified holder of the account, or for an
\* administrator and an account that has been verified.
THEOREM ChangesAreAuthorisedHolds == Spec => ChangesAreAuthorised
<1>1. TypeOK /\ TimeInv /\ AdmissionInv /\ [Next]_vars =>
        [\A u \in Accounts : Exists(u) /\ (Exists(u)' => account'[u].email # account[u].email) =>
           \/ \E t \in tokens : t.id = u /\ t.verified
           \/ /\ account[u].firstVerifiedAt # 0
              /\ \E t \in tokens : t.role = "admin" /\ t.verified]_vars
  BY ChangesAreAdmitted DEF HolderOf, Administrator, Confirmed
<1>2. Init => AdmissionInv
  BY DEF Init, AdmissionInv, At
<1>3. TypeOK /\ TimeInv /\ [Next]_vars => TimeInv'
  BY TimeStep
<1>4. TypeOK /\ TimeInv /\ AdmissionInv /\ [Next]_vars => AdmissionInv'
  BY AdmissionStep
<1> QED
  BY <1>1, <1>2, <1>3, <1>4, TypeCorrect, TimeInit, PTL DEF Spec, ChangesAreAuthorised
=============================================================================
