--------------------------- MODULE SessionsProofs ---------------------------
(***************************************************************************)
(* Proofs about Sessions, for any users, session ids, request slots, token *)
(* lifetimes and bounds.  An orderly session is one whose rotations and    *)
(* logouts never overlapped and none of whose tokens expired while it was  *)
(* being validated; the invariant says what keeps such a session sound     *)
(* while every other session, and every read-only request, interleaves.    *)
(***************************************************************************)
EXTENDS Sessions, TLAPS

(***************************************************************************)
(* The inductive invariant.                                                *)
(***************************************************************************)
PairsOf(s) == {p \in pairs : p.sid = s}

\* The handlers that may write the counter, a pair or the blacklist of s.
Busy(s) == {r \in Requests : /\ pc[r] # "idle"
                             /\ op[r] \in {"login", "refresh", "logout"}
                             /\ tok[r].sid = s}

Writing == {"create", "user", "reread", "store", "sign", "ban"}

\* Which steps each handler goes through.
ControlInv ==
  \A r \in Requests :
    /\ op[r] = "login" => pc[r] \in {"idle", "create", "sign"}
    /\ op[r] = "refresh" => pc[r] \in {"blacklist", "counter", "user", "reread", "store", "sign"}
    /\ op[r] = "logout" => pc[r] \in {"blacklist", "counter", "ban"}
    /\ op[r] = "access" => pc[r] \in {"blacklist", "counter", "granted"}
    /\ op[r] = "login" /\ pc[r] # "idle" => seen[r] = 1

\* At most one handler writes the session, and the presented token was issued.
SoleWriter(s) ==
  /\ \A a, b \in Busy(s) : a = b
  /\ \A r \in Busy(s) : op[r] # "login" => tok[r] \in pairs

\* The generations issued are numbered up to the counter, one pair for each.
Generations(s) ==
  /\ \A p \in PairsOf(s) : p.cid >= 1 /\ p.cid <= counter[s].val
  /\ \A p, q \in PairsOf(s) : p.cid = q.cid => p = q

\* What a handler past validation knows about the counter still holds.
FreshKnowledge(s) ==
  \A r \in Busy(s) :
    /\ pc[r] = "create" => counter[s].val = 0
    /\ pc[r] \in {"user", "reread", "store", "ban"} => tok[r].cid = counter[s].val
    /\ pc[r] = "store" => seen[r] = counter[s].val + 1
    /\ pc[r] = "sign" => /\ seen[r] = counter[s].val
                         /\ \A p \in PairsOf(s) : p.cid < counter[s].val

\* A token in validation has not expired since it was verified.
Unexpired(s) ==
  \A r \in Requests : pc[r] \in {"blacklist", "counter"} /\ tok[r].sid = s
                        => now < Exp(op[r], tok[r])

\* A blacklisted session: its entry outlives the current pair, and no handler
\* is past the blacklist with the current generation.
Ended(s) ==
  blacklist[s] # 0 =>
    /\ counter[s].val # 0
    /\ \A p \in PairsOf(s) : p.cid = counter[s].val => RefreshExp(p) <= blacklist[s]
    /\ \A r \in Busy(s) : /\ pc[r] \notin Writing
                          /\ pc[r] = "counter" => tok[r].cid # counter[s].val

SessionInv(s) == orderly[s] => /\ SoleWriter(s)
                               /\ Generations(s)
                               /\ FreshKnowledge(s)
                               /\ Unexpired(s)
                               /\ Ended(s)

IInv == TypeOK /\ ControlInv /\ \A s \in Sids : SessionInv(s)

(***************************************************************************)
(* Type correctness.                                                       *)
(***************************************************************************)
\* Returning frees the slot.
LEMMA ReturnTypes ==
  ASSUME HandlersOK, ControlInv, NEW r \in Requests, Return(r)
  PROVE  HandlersOK' /\ ControlInv'
BY DEF HandlersOK, ControlInv, Return, PCs, Ops

\* Going on keeps the handler on its own path.
LEMMA GotoTypes ==
  ASSUME HandlersOK, ControlInv, NEW r \in Requests, pc[r] # "idle",
         NEW l \in PCs \ {"idle"}, Goto(r, l), seen' \in [Requests -> Nat],
         \A q \in Requests : q # r => seen'[q] = seen[q],
         \/ op[r] = "login" /\ l = "sign" /\ seen' = seen
         \/ op[r] = "refresh"
         \/ op[r] = "logout" /\ l \in {"counter", "ban"}
         \/ op[r] = "access" /\ l \in {"counter", "granted"},
         op[r] = "refresh" => l \in {"counter", "user", "reread", "store", "sign"}
  PROVE  HandlersOK' /\ ControlInv'
<1>1. HandlersOK'
  BY DEF HandlersOK, Goto
<1>2. ControlInv'
  BY DEF HandlersOK, ControlInv, Goto, PCs, Ops
<1> QED
  BY <1>1, <1>2

\* Starting a handler puts it at the first step of its path.
LEMMA StartTypes ==
  ASSUME HandlersOK, ControlInv, NEW r \in Requests,
         NEW l, NEW o \in Ops, NEW p \in Pair, Start(r, l, o, p),
         seen' \in [Requests -> Nat],
         \A q \in Requests : q # r => seen'[q] = seen[q],
         \/ l = "create" /\ o = "login" /\ seen'[r] = 1
         \/ l = "blacklist" /\ o # "login"
  PROVE  HandlersOK' /\ ControlInv'
<1>1. HandlersOK'
  BY DEF HandlersOK, Start, PCs, Ops
<1>2. ControlInv'
  BY DEF HandlersOK, ControlInv, Start, PCs, Ops
<1> QED
  BY <1>1, <1>2

\* Every variable keeps its type, and every handler its order of steps.
LEMMA TypeStep == TypeOK /\ ControlInv /\ [Next]_vars => TypeOK' /\ ControlInv'
<1> SUFFICES ASSUME TypeOK, ControlInv, [Next]_vars PROVE TypeOK' /\ ControlInv'
  OBVIOUS
<1> USE LifeAssumption
<1>0. HandlersOK
  BY DEF TypeOK
<1>1. ASSUME NEW r \in Requests, NEW u \in Users, NEW s \in Sids, Login(r, u, s)
      PROVE  TypeOK' /\ ControlInv'
  <2> DEFINE p == [sid |-> s, user |-> u, cid |-> 0, iat |-> now]
  <2>1. p \in Pair
    BY DEF Pair, TypeOK
  <2>2. /\ seen' \in [Requests -> Nat] /\ seen'[r] = 1
        /\ \A q \in Requests : q # r => seen'[q] = seen[q]
    BY <1>0, <1>1 DEF Login, HandlersOK
  <2>3. Start(r, "create", "login", p)
    BY <1>1 DEF Login
  <2>4. HandlersOK' /\ ControlInv'
    <3> HIDE DEF p
    <3> QED BY <1>0, <2>1, <2>2, <2>3, StartTypes DEF Ops
  <2> QED
    BY <1>1, <2>4 DEF Login, TypeOK, store
<1>2. ASSUME NEW r \in Requests, NEW o \in Ops \ {"login"}, NEW p \in pairs,
             Present(r, o, p)
      PROVE  TypeOK' /\ ControlInv'
  <2>1. p \in Pair /\ p.sid \in Sids
    BY DEF TypeOK, Pair
  <2>2. HandlersOK' /\ ControlInv'
    BY <1>0, <1>2, <2>1, StartTypes DEF Present, HandlersOK
  <2> QED
    BY <1>2, <2>1, <2>2 DEF Present, TypeOK, store
<1>3. ASSUME NEW r \in Requests, StoreCounter(r) PROVE TypeOK' /\ ControlInv'
  <2>1. tok[r].sid \in Sids /\ seen[r] \in Nat /\ ParseTokenExpiry \in Nat
    BY <1>0, <1>3 DEF StoreCounter, HandlersOK, Pair, TypeOK, ParseTokenExpiry
  <2>2. counter' \in [Sids -> [val : Nat, exat : Nat]]
    BY <1>3, <2>1 DEF StoreCounter, SetSessionCounterId, TypeOK
  <2>3. op[r] = "login" \/ op[r] = "refresh"
    BY <1>0, <1>3 DEF StoreCounter, ControlInv, HandlersOK, Ops
  <2>4. HandlersOK' /\ ControlInv'
    BY <1>0, <1>3, <2>3, GotoTypes DEF StoreCounter, HandlersOK, PCs
  <2> QED
    BY <1>3, <2>2, <2>4 DEF StoreCounter, TypeOK
<1>4. ASSUME NEW r \in Requests, Sign(r) PROVE TypeOK' /\ ControlInv'
  <2>1. [tok[r] EXCEPT !.cid = seen[r], !.iat = now] \in Pair
    BY <1>0, <1>4 DEF Sign, Pair, HandlersOK, TypeOK
  <2>2. HandlersOK' /\ ControlInv'
    BY <1>0, <1>4, ReturnTypes DEF Sign
  <2> QED
    BY <1>4, <2>1, <2>2 DEF Sign, TypeOK, store
<1>5. ASSUME NEW r \in Requests, ReadBlacklist(r) PROVE TypeOK' /\ ControlInv'
  <2>1. op[r] \in {"refresh", "logout", "access"}
    BY <1>0, <1>5 DEF ReadBlacklist, ControlInv, HandlersOK, Ops
  <2>2. HandlersOK' /\ ControlInv'
    BY <1>0, <1>5, <2>1, ReturnTypes, GotoTypes DEF ReadBlacklist, HandlersOK, PCs
  <2> QED
    BY <1>5, <2>2 DEF ReadBlacklist, TypeOK, store
<1>6. ASSUME NEW r \in Requests, ReadCounter(r) PROVE TypeOK' /\ ControlInv'
  <2>1. op[r] \in {"refresh", "logout", "access"}
    BY <1>0, <1>6 DEF ReadCounter, ControlInv, HandlersOK, Ops
  <2>2. /\ op[r] = "refresh" => AfterValidation(op[r]) = "user"
        /\ op[r] = "logout" => AfterValidation(op[r]) = "ban"
        /\ op[r] = "access" => AfterValidation(op[r]) = "granted"
    BY DEF AfterValidation
  <2>3. HandlersOK' /\ ControlInv'
    BY <1>0, <1>6, <2>1, <2>2, ReturnTypes, GotoTypes DEF ReadCounter, HandlersOK, PCs
  <2> QED
    BY <1>6, <2>3 DEF ReadCounter, TypeOK, store
<1>7. ASSUME NEW r \in Requests, FindUser(r) PROVE TypeOK' /\ ControlInv'
  <2>1. op[r] = "refresh"
    BY <1>0, <1>7 DEF FindUser, ControlInv, HandlersOK, Ops
  <2>2. HandlersOK' /\ ControlInv'
    BY <1>0, <1>7, <2>1, ReturnTypes, GotoTypes DEF FindUser, HandlersOK, PCs
  <2> QED
    BY <1>7, <2>2 DEF FindUser, TypeOK, store
<1>8. ASSUME NEW r \in Requests, RereadCounter(r) PROVE TypeOK' /\ ControlInv'
  <2>1. op[r] = "refresh" /\ tok[r].sid \in Sids
    BY <1>0, <1>8 DEF RereadCounter, ControlInv, HandlersOK, Ops, Pair
  <2>2. StoredCounter(tok[r].sid) \in Nat
    BY <2>1 DEF StoredCounter, TypeOK
  <2>3. HandlersOK' /\ ControlInv'
    BY <1>0, <1>8, <2>1, <2>2, ReturnTypes, GotoTypes DEF RereadCounter, HandlersOK, PCs
  <2> QED
    BY <1>8, <2>3 DEF RereadCounter, TypeOK, store
<1>9. ASSUME NEW r \in Requests, Ban(r) PROVE TypeOK' /\ ControlInv'
  <2>1. RefreshExp(tok[r]) \in Nat /\ tok[r].sid \in Sids
    BY <1>0, <1>9 DEF Ban, RefreshExp, Pair, HandlersOK
  <2>2. HandlersOK' /\ ControlInv'
    BY <1>0, <1>9, ReturnTypes DEF Ban
  <2> QED
    BY <1>9, <2>1, <2>2 DEF Ban, TypeOK
<1>10. ASSUME NEW r \in Requests, Complete(r) \/ Fail(r) PROVE TypeOK' /\ ControlInv'
  BY <1>0, <1>10, ReturnTypes DEF Complete, Fail, TypeOK, store
<1>11. ASSUME NEW u \in Users, DeleteUser(u) PROVE TypeOK' /\ ControlInv'
  BY <1>11 DEF DeleteUser, TypeOK, HandlersOK, ControlInv, store, locals
<1>12. CASE Tick
  BY <1>12 DEF Tick, TypeOK, HandlersOK, ControlInv, store, locals
<1>13. CASE UNCHANGED vars
  BY <1>13 DEF vars, TypeOK, HandlersOK, ControlInv
<1> QED
  BY <1>1, <1>2, <1>3, <1>4, <1>5, <1>6, <1>7, <1>8, <1>9, <1>10, <1>11,
     <1>12, <1>13 DEF Next, Handler

\* The initial state is well typed, and no handler is under way in it.
LEMMA TypeCorrectInit == Init => TypeOK /\ ControlInv
BY DEF Init, TypeOK, HandlersOK, ControlInv, PCs, Ops

\* Every reachable state is well typed, with every handler at a step of its own.
THEOREM TypeCorrect == Spec => [](TypeOK /\ ControlInv)
BY TypeCorrectInit, TypeStep, PTL DEF Spec

\* Which steps write the counters, and which the set of pairs.
LEMMA StepsOfPairs ==
  ASSUME Next
  PROVE  /\ counter' = counter \/ \E r \in Requests : StoreCounter(r)
         /\ pairs' = pairs \/ \E r \in Requests : Sign(r)
BY DEF Next, Handler, Login, Present, StoreCounter, Sign, ReadBlacklist, ReadCounter,
       FindUser, RereadCounter, Ban, Complete, Fail, DeleteUser, Tick, store

(***************************************************************************)
(* The invariant of an orderly session.                                    *)
(***************************************************************************)
\* What a step must leave alone for the invariant of s to carry over: handlers
\* may return, start or move as long as they do not hold a token of s.
Untouched(s) ==
  /\ orderly'[s] => orderly[s]
  /\ now' = now
  /\ counter'[s] = counter[s] /\ blacklist'[s] = blacklist[s]
  /\ pairs \subseteq pairs' /\ \A p \in pairs' : p.sid = s => p \in pairs
  /\ \A q \in Requests :
       \/ pc'[q] = "idle"
       \/ tok'[q].sid # s
       \/ pc'[q] = pc[q] /\ op'[q] = op[q] /\ tok'[q] = tok[q] /\ seen'[q] = seen[q]

\* A step that leaves s alone keeps the invariant of s.
LEMMA Frame ==
  ASSUME NEW s \in Sids, SessionInv(s), Untouched(s)
  PROVE  SessionInv(s)'
<1> SUFFICES ASSUME orderly'[s]
             PROVE  /\ SoleWriter(s)' /\ Generations(s)' /\ FreshKnowledge(s)'
                    /\ Unexpired(s)' /\ Ended(s)'
  BY DEF SessionInv
<1> USE DEF Untouched
<1>1. /\ SoleWriter(s) /\ Generations(s) /\ FreshKnowledge(s)
      /\ Unexpired(s) /\ Ended(s)
  BY DEF SessionInv
<1>2. PairsOf(s)' = PairsOf(s)
  BY DEF PairsOf
<1>3. \A q \in Busy(s)' : /\ q \in Busy(s)
                          /\ pc'[q] = pc[q] /\ op'[q] = op[q]
                          /\ tok'[q] = tok[q] /\ seen'[q] = seen[q]
  BY DEF Busy
<1>4. SoleWriter(s)'
  BY <1>1, <1>3 DEF SoleWriter
<1>5. Generations(s)'
  BY <1>1, <1>2 DEF Generations
<1>6. FreshKnowledge(s)'
  BY <1>1, <1>2, <1>3 DEF FreshKnowledge
<1>7. Unexpired(s)'
  BY <1>1 DEF Unexpired, Exp, AccessExp, RefreshExp
<1>8. Ended(s)'
  BY <1>1, <1>2, <1>3 DEF Ended, RefreshExp
<1> QED
  BY <1>4, <1>5, <1>6, <1>7, <1>8

\* A handler with a token of s goes on to l, having learnt what l relies on.
LEMMA Advance ==
  ASSUME HandlersOK, NEW s \in Sids, SessionInv(s), orderly[s],
         NEW r \in Requests, tok[r].sid = s, pc[r] # "idle",
         NEW l \in PCs \ {"idle", "create", "sign", "blacklist"}, Goto(r, l),
         UNCHANGED <<now, counter, blacklist, pairs, orderly>>,
         \A q \in Requests : q # r => seen'[q] = seen[q],
         l \in {"user", "reread", "store", "ban"} => tok[r].cid = counter[s].val,
         l = "store" => seen'[r] = counter[s].val + 1,
         l = "counter" => now < Exp(op[r], tok[r]),
         blacklist[s] # 0 /\ r \in Busy(s) =>
           l \notin Writing /\ (l = "counter" => tok[r].cid # counter[s].val)
  PROVE  SessionInv(s)'
<1>1. /\ SoleWriter(s) /\ Generations(s) /\ FreshKnowledge(s)
      /\ Unexpired(s) /\ Ended(s)
  BY DEF SessionInv
<1>2. Busy(s)' = Busy(s) /\ PairsOf(s)' = PairsOf(s)
  BY DEF Busy, PairsOf, Goto, HandlersOK
<1>3. pc'[r] = l /\ \A q \in Requests : q # r => pc'[q] = pc[q]
  BY DEF Goto, HandlersOK
<1>4. tok' = tok /\ op' = op
  BY DEF Goto
<1>5. SoleWriter(s)'
  BY <1>1, <1>2, <1>4 DEF SoleWriter
<1>6. Generations(s)'
  BY <1>1, <1>2 DEF Generations
<1>7. FreshKnowledge(s)'
  <2> SUFFICES ASSUME NEW q \in Busy(s)
               PROVE  /\ pc'[q] = "create" => counter'[s].val = 0
                      /\ pc'[q] \in {"user", "reread", "store", "ban"} =>
                            tok'[q].cid = counter'[s].val
                      /\ pc'[q] = "store" => seen'[q] = counter'[s].val + 1
                      /\ pc'[q] = "sign" =>
                           /\ seen'[q] = counter'[s].val
                           /\ \A p \in PairsOf(s)' : p.cid < counter'[s].val
    BY <1>2 DEF FreshKnowledge
  <2>1. CASE q = r
    BY <2>1, <1>3, <1>4
  <2>2. CASE q # r
    BY <2>2, <1>1, <1>2, <1>3, <1>4 DEF FreshKnowledge, Busy
  <2> QED
    BY <2>1, <2>2
<1>8. Unexpired(s)'
  BY <1>1, <1>3, <1>4 DEF Unexpired, Exp, AccessExp, RefreshExp
<1>9. Ended(s)'
  <2> SUFFICES ASSUME blacklist[s] # 0
               PROVE  /\ counter[s].val # 0
                      /\ \A p \in PairsOf(s) : p.cid = counter[s].val =>
                                                RefreshExp(p) <= blacklist[s]
                      /\ \A q \in Busy(s) :
                           /\ pc'[q] \notin Writing
                           /\ pc'[q] = "counter" => tok[q].cid # counter[s].val
    BY <1>2, <1>4 DEF Ended, RefreshExp
  <2> QED
    BY <1>1, <1>3 DEF Ended, Busy
<1> QED
  BY <1>5, <1>6, <1>7, <1>8, <1>9 DEF SessionInv

\* The invariant of every session holds on in every step.
LEMMA SessionStep ==
  ASSUME TypeOK, ControlInv, [Next]_vars, NEW s \in Sids, SessionInv(s)
  PROVE  SessionInv(s)'
<1> USE LifeAssumption
<1>0. HandlersOK /\ now \in Nat /\ blacklist[s] \in Nat /\ counter[s].val \in Nat
      /\ counter[s].exat \in Nat
  BY DEF TypeOK
<1>T. \A r \in Requests : pc[r] # "idle" =>
        /\ tok[r] \in Pair /\ tok[r].sid \in Sids /\ tok[r].cid \in Nat
        /\ tok[r].iat \in Nat
  BY <1>0 DEF HandlersOK, Pair
<1>P. \A p \in pairs : /\ p \in Pair /\ p.sid \in Sids /\ p.cid \in Nat
                       /\ p.iat \in Nat /\ RefreshExp(p) \in Nat /\ AccessExp(p) \in Nat
  BY DEF TypeOK, Pair, RefreshExp, AccessExp
<1>O. ASSUME orderly[s]
      PROVE /\ SoleWriter(s) /\ Generations(s) /\ FreshKnowledge(s)
            /\ Unexpired(s) /\ Ended(s)
  BY <1>O DEF SessionInv
\* A handler that returns and leaves the stored session alone.
<1>R. ASSUME NEW r \in Requests, Return(r),
             UNCHANGED <<now, counter, blacklist, pairs, orderly>>
      PROVE  SessionInv(s)'
  <2>1. Untouched(s)
    BY <1>R, <1>0 DEF Untouched, Return, HandlersOK
  <2> QED
    BY <2>1, Frame
\* A handler of another session.
<1>E. ASSUME NEW r \in Requests, tok[r].sid # s, tok' = tok,
             \A q \in Requests : q # r => pc'[q] = pc[q] /\ op'[q] = op[q] /\ seen'[q] = seen[q],
             UNCHANGED <<now, blacklist, pairs, orderly>>, counter'[s] = counter[s]
      PROVE  SessionInv(s)'
  <2>1. Untouched(s)
    BY <1>E DEF Untouched
  <2> QED
    BY <2>1, Frame
<1>1. ASSUME NEW r \in Requests, NEW u \in Users, NEW t \in Sids, Login(r, u, t)
      PROVE  SessionInv(s)'
  <2> DEFINE p == [sid |-> t, user |-> u, cid |-> 0, iat |-> now]
  <2>1. /\ pc[r] = "idle" /\ pc'[r] = "create" /\ op'[r] = "login"
        /\ tok'[r] = p /\ p.sid = t /\ seen'[r] = 1
        /\ \A q \in Requests : q # r => /\ pc'[q] = pc[q] /\ op'[q] = op[q]
                                        /\ tok'[q] = tok[q] /\ seen'[q] = seen[q]
        /\ UNCHANGED <<now, counter, blacklist, pairs, orderly>>
    BY <1>0, <1>1 DEF Login, Start, HandlersOK, store
  <2> HIDE DEF p
  <2>2. CASE t # s
    <3>1. Untouched(s)
      BY <2>1, <2>2 DEF Untouched
    <3> QED
      BY <3>1, Frame
  <2>3. CASE t = s
    <3>1. counter[s].val = 0 /\ \A q \in Requests : pc[q] # "idle" => tok[q].sid # s
      BY <1>1, <2>3 DEF Login, Fresh
    <3>2. Busy(s)' = {r}
      BY <2>1, <2>3, <3>1 DEF Busy
    <3>3. SUFFICES ASSUME orderly[s]
                   PROVE  /\ SoleWriter(s)' /\ Generations(s)' /\ FreshKnowledge(s)'
                          /\ Unexpired(s)' /\ Ended(s)'
      BY <2>1 DEF SessionInv
    <3>4. PairsOf(s) = {} /\ PairsOf(s)' = {}
      BY <1>O, <1>P, <2>1, <3>1, <3>3 DEF Generations, PairsOf
    <3>5. blacklist[s] = 0
      BY <1>O, <3>1, <3>3 DEF Ended
    <3> QED
      BY <2>1, <3>1, <3>2, <3>4, <3>5
      DEF SoleWriter, Generations, FreshKnowledge, Unexpired, Ended, Exp, AccessExp, RefreshExp
  <2> QED
    BY <2>2, <2>3
<1>2. ASSUME NEW r \in Requests, NEW o \in Ops \ {"login"}, NEW p \in pairs,
             Present(r, o, p)
      PROVE  SessionInv(s)'
  <2>1. /\ pc[r] = "idle" /\ pc'[r] = "blacklist" /\ op'[r] = o /\ tok'[r] = p
        /\ \A q \in Requests : q # r => /\ pc'[q] = pc[q] /\ op'[q] = op[q]
                                        /\ tok'[q] = tok[q]
        /\ UNCHANGED <<now, counter, blacklist, pairs, seen>>
        /\ now < Exp(o, p)
    BY <1>0, <1>2 DEF Present, Start, HandlersOK, store
  <2>2. /\ p.sid # s => orderly'[s] = orderly[s]
        /\ p.sid = s => orderly'[s] =
             (orderly[s] /\ (o \in {"refresh", "logout"} => Open(s) = {}))
    BY <1>2, <1>P DEF Present, TypeOK
  <2>3. CASE p.sid # s
    <3>1. Untouched(s)
      BY <2>1, <2>2, <2>3 DEF Untouched
    <3> QED
      BY <3>1, Frame
  <2>4. CASE p.sid = s
    <3>1. SUFFICES ASSUME orderly[s], o \in {"refresh", "logout"} => Open(s) = {}
                   PROVE  /\ SoleWriter(s)' /\ Generations(s)' /\ FreshKnowledge(s)'
                          /\ Unexpired(s)' /\ Ended(s)'
      BY <2>2, <2>4 DEF SessionInv
    <3>2. p \in PairsOf(s) /\ PairsOf(s)' = PairsOf(s)
      BY <2>1, <2>4 DEF PairsOf
    <3>3. \A q \in Busy(s) : op[q] # "login"
      <4> SUFFICES ASSUME NEW q \in Busy(s), op[q] = "login" PROVE FALSE
        OBVIOUS
      <4>1. pc[q] \in {"create", "sign"} /\ seen[q] = 1
        BY DEF Busy, ControlInv
      <4>2. p.cid >= 1 /\ p.cid <= counter[s].val
        BY <1>O, <3>1, <3>2 DEF Generations
      <4>3. pc[q] = "sign" => p.cid < 1
        BY <1>O, <3>1, <3>2, <4>1 DEF FreshKnowledge
      <4>4. pc[q] = "create" => counter[s].val = 0
        BY <1>O, <3>1 DEF FreshKnowledge
      <4> QED
        BY <1>0, <1>P, <4>1, <4>2, <4>3, <4>4
    <3>4. \A q \in Busy(s)' : q = r \/ (q \in Busy(s) /\ q # r)
      BY <2>1 DEF Busy
    <3>5. o \in {"refresh", "logout"} => Busy(s) = {}
      BY <3>1, <3>3 DEF Busy, Open
    <3>6. o = "access" => r \notin Busy(s)'
      BY <2>1 DEF Busy
    <3>7. SoleWriter(s)'
      <4>1. CASE o = "access"
        <5>1. \A q \in Busy(s)' : q \in Busy(s) /\ op'[q] = op[q] /\ tok'[q] = tok[q]
          BY <2>1, <3>4, <3>6, <4>1 DEF Busy
        <5> QED
          BY <1>O, <2>1, <3>1, <5>1 DEF SoleWriter
      <4>2. CASE o \in {"refresh", "logout"}
        <5>1. \A q \in Busy(s)' : q = r
          BY <3>4, <3>5, <4>2
        <5> QED
          BY <2>1, <5>1 DEF SoleWriter
      <4> QED
        BY <4>1, <4>2 DEF Ops
    <3>8. Generations(s)'
      BY <1>O, <2>1, <3>1, <3>2 DEF Generations
    <3>9. FreshKnowledge(s)'
      BY <1>O, <2>1, <3>1, <3>2, <3>4 DEF FreshKnowledge, Busy
    <3>10. Unexpired(s)'
      BY <1>O, <2>1, <3>1 DEF Unexpired, Exp, AccessExp, RefreshExp
    <3>11. Ended(s)'
      BY <1>O, <2>1, <3>1, <3>2, <3>4 DEF Ended, Busy, Writing, RefreshExp
    <3> QED
      BY <3>7, <3>8, <3>9, <3>10, <3>11
  <2> QED
    BY <2>3, <2>4
<1>3. ASSUME NEW r \in Requests, StoreCounter(r) PROVE SessionInv(s)'
  <2>1. /\ pc[r] \in {"create", "store"} /\ Goto(r, "sign")
        /\ pc' = [pc EXCEPT ![r] = "sign"] /\ tok' = tok /\ op' = op
        /\ UNCHANGED <<now, blacklist, pairs, seen, orderly>>
    BY <1>3 DEF StoreCounter, Goto
  <2>2. CASE tok[r].sid # s
    <3>1. counter'[s] = counter[s]
      BY <1>3, <2>2 DEF StoreCounter, SetSessionCounterId, TypeOK
    <3> QED
      BY <1>0, <1>E, <2>1, <2>2, <3>1 DEF HandlersOK
  <2>3. CASE tok[r].sid = s
    <3>1. counter'[s].val = seen[r]
      BY <1>3, <2>3 DEF StoreCounter, SetSessionCounterId, TypeOK
    <3>2. SUFFICES ASSUME orderly[s]
                   PROVE  /\ SoleWriter(s)' /\ Generations(s)' /\ FreshKnowledge(s)'
                          /\ Unexpired(s)' /\ Ended(s)'
      BY <2>1 DEF SessionInv
    <3>3. op[r] \in {"login", "refresh"} /\ (pc[r] = "create" => seen[r] = 1)
      BY <1>0, <2>1 DEF ControlInv, HandlersOK, Ops
    <3>4. r \in Busy(s) /\ Busy(s) = {r} /\ Busy(s)' = {r}
      BY <1>0, <1>O, <2>1, <2>3, <3>2, <3>3 DEF Busy, SoleWriter, HandlersOK
    <3>5. seen[r] = counter[s].val + 1
      BY <1>O, <2>1, <3>2, <3>3, <3>4 DEF FreshKnowledge
    <3>6. PairsOf(s)' = PairsOf(s) /\ pc'[r] = "sign"
      BY <1>0, <2>1 DEF PairsOf, HandlersOK
    <3>7. \A p \in PairsOf(s) : p.cid < counter'[s].val /\ p.cid >= 1 /\ p.cid \in Nat
      BY <1>O, <1>P, <1>0, <3>1, <3>2, <3>5 DEF Generations, PairsOf
    <3>8. blacklist[s] = 0
      BY <1>O, <2>1, <3>2, <3>4 DEF Ended, Writing
    <3>9. SoleWriter(s)'
      BY <1>O, <2>1, <3>2, <3>4 DEF SoleWriter
    <3>10. Generations(s)'
      BY <1>O, <1>0, <3>1, <3>2, <3>5, <3>6, <3>7 DEF Generations
    <3>11. FreshKnowledge(s)'
      BY <2>1, <3>1, <3>4, <3>6, <3>7 DEF FreshKnowledge
    <3>12. Unexpired(s)'
      BY <1>O, <1>0, <2>1, <3>2 DEF Unexpired, Exp, AccessExp, RefreshExp, HandlersOK
    <3>13. Ended(s)'
      BY <2>1, <3>8 DEF Ended
    <3> QED
      BY <3>9, <3>10, <3>11, <3>12, <3>13
  <2> QED
    BY <2>2, <2>3
<1>4. ASSUME NEW r \in Requests, Sign(r) PROVE SessionInv(s)'
  <2> DEFINE n == [tok[r] EXCEPT !.cid = seen[r], !.iat = now]
  <2>1. /\ pc[r] = "sign" /\ Return(r) /\ pairs' = pairs \cup {n}
        /\ UNCHANGED <<now, counter, blacklist, orderly>>
    BY <1>4 DEF Sign, store
  <2>2. n.sid = tok[r].sid /\ n.cid = seen[r]
    BY <1>T, <2>1 DEF Pair
  <2> HIDE DEF n
  <2>3. /\ pc'[r] = "idle"
        /\ \A q \in Requests : q # r => /\ pc'[q] = pc[q] /\ op'[q] = op[q]
                                        /\ tok'[q] = tok[q] /\ seen'[q] = seen[q]
    BY <1>0, <2>1 DEF Return, HandlersOK
  <2>4. CASE tok[r].sid # s
    <3>1. Untouched(s)
      BY <2>1, <2>2, <2>3, <2>4 DEF Untouched
    <3> QED
      BY <3>1, Frame
  <2>5. CASE tok[r].sid = s
    <3>1. SUFFICES ASSUME orderly[s]
                   PROVE  /\ SoleWriter(s)' /\ Generations(s)' /\ FreshKnowledge(s)'
                          /\ Unexpired(s)' /\ Ended(s)'
      BY <2>1 DEF SessionInv
    <3>2. op[r] \in {"login", "refresh"}
      BY <1>0, <2>1 DEF ControlInv, HandlersOK, Ops
    <3>3. r \in Busy(s) /\ Busy(s) = {r} /\ Busy(s)' = {}
      BY <1>O, <2>1, <2>3, <2>5, <3>1, <3>2 DEF Busy, SoleWriter
    <3>4. seen[r] = counter[s].val /\ \A p \in PairsOf(s) : p.cid < counter[s].val
      BY <1>O, <2>1, <3>1, <3>3 DEF FreshKnowledge
    <3>5. PairsOf(s)' = PairsOf(s) \cup {n}
      BY <2>1, <2>2, <2>5 DEF PairsOf
    <3>6. counter[s].val >= 1
      <4>1. CASE op[r] = "login"
        BY <2>1, <3>4, <4>1 DEF ControlInv
      <4>2. CASE op[r] = "refresh"
        <5>1. tok[r] \in PairsOf(s)
          BY <1>O, <2>5, <3>1, <3>3, <4>2 DEF SoleWriter, PairsOf
        <5> QED
          BY <1>O, <1>0, <1>P, <3>1, <5>1 DEF Generations, PairsOf
      <4> QED
        BY <3>2, <4>1, <4>2
    <3>7. blacklist[s] = 0
      BY <1>O, <2>1, <3>1, <3>3 DEF Ended, Writing
    <3>8. SoleWriter(s)' /\ FreshKnowledge(s)'
      BY <3>3 DEF SoleWriter, FreshKnowledge
    <3>9. Generations(s)'
      <4>1. \A p \in PairsOf(s) : p.cid \in Nat /\ p.cid # n.cid
        BY <1>0, <1>P, <2>2, <3>4 DEF PairsOf
      <4> QED
        BY <1>O, <1>0, <2>1, <2>2, <3>1, <3>4, <3>5, <3>6, <4>1 DEF Generations
    <3>10. Unexpired(s)'
      BY <1>O, <2>1, <2>3, <3>1 DEF Unexpired, Exp, AccessExp, RefreshExp
    <3>11. Ended(s)'
      BY <2>1, <3>7 DEF Ended
    <3> QED
      BY <3>8, <3>9, <3>10, <3>11
  <2> QED
    BY <2>4, <2>5
<1>5. ASSUME NEW r \in Requests, ReadBlacklist(r) PROVE SessionInv(s)'
  <2>1. /\ pc[r] = "blacklist"
        /\ UNCHANGED <<now, counter, blacklist, pairs, orderly>>
    BY <1>5 DEF ReadBlacklist, store
  <2>2. CASE Blacklisted(tok[r].sid)
    BY <1>5, <1>R, <2>1, <2>2 DEF ReadBlacklist
  <2>3. CASE ~Blacklisted(tok[r].sid)
    <3>1. Goto(r, "counter") /\ seen' = seen
      BY <1>5, <2>3 DEF ReadBlacklist
    <3>2. CASE tok[r].sid # s
      BY <1>0, <1>E, <2>1, <3>1, <3>2 DEF Goto, HandlersOK
    <3>3. CASE tok[r].sid = s
      <4>1. SUFFICES ASSUME orderly[s] PROVE SessionInv(s)'
        BY <2>1 DEF SessionInv
      <4>2. now < Exp(op[r], tok[r])
        BY <1>O, <2>1, <3>3, <4>1 DEF Unexpired
      <4>3. ASSUME blacklist[s] # 0, r \in Busy(s), tok[r].cid = counter[s].val
            PROVE  FALSE
        <5>1. op[r] # "login"
          BY <2>1 DEF ControlInv
        <5>2. tok[r] \in PairsOf(s)
          BY <1>O, <3>3, <4>1, <4>3, <5>1 DEF SoleWriter, PairsOf
        <5>3. RefreshExp(tok[r]) <= blacklist[s]
          BY <1>O, <4>1, <4>3, <5>2 DEF Ended
        <5>4. Exp(op[r], tok[r]) <= RefreshExp(tok[r]) /\ Exp(op[r], tok[r]) \in Nat
              /\ RefreshExp(tok[r]) \in Nat
          BY <1>T, <2>1 DEF Exp, AccessExp, RefreshExp
        <5> QED
          BY <1>0, <2>3, <3>3, <4>2, <5>3, <5>4 DEF Blacklisted
      <4> QED
        BY <1>0, <2>1, <3>1, <3>3, <4>1, <4>2, <4>3, Advance DEF Writing, PCs
    <3> QED
      BY <3>2, <3>3
  <2> QED
    BY <2>2, <2>3
<1>6. ASSUME NEW r \in Requests, ReadCounter(r) PROVE SessionInv(s)'
  <2>1. /\ pc[r] = "counter"
        /\ UNCHANGED <<now, counter, blacklist, pairs, orderly>>
    BY <1>6 DEF ReadCounter, store
  <2>2. CASE StoredCounter(tok[r].sid) # tok[r].cid
    BY <1>6, <1>R, <2>1, <2>2 DEF ReadCounter
  <2>3. CASE StoredCounter(tok[r].sid) = tok[r].cid
    <3> DEFINE l == AfterValidation(op[r])
    <3>1. Goto(r, l) /\ seen' = seen
      BY <1>6, <2>3 DEF ReadCounter
    <3>2. \/ op[r] = "refresh" /\ l = "user"
          \/ op[r] = "logout" /\ l = "ban"
          \/ op[r] = "access" /\ l = "granted"
      BY <1>0, <2>1 DEF ControlInv, HandlersOK, Ops, AfterValidation
    <3> HIDE DEF l
    <3>3. CASE tok[r].sid # s
      BY <1>0, <1>E, <2>1, <3>1, <3>3 DEF Goto, HandlersOK
    <3>4. CASE tok[r].sid = s
      <4>1. SUFFICES ASSUME orderly[s] PROVE SessionInv(s)'
        BY <2>1 DEF SessionInv
      <4>2. ASSUME op[r] # "access"
            PROVE  r \in Busy(s) /\ tok[r].cid = counter[s].val
        <5>1. r \in Busy(s) /\ op[r] # "login"
          BY <2>1, <3>2, <3>4, <4>2 DEF Busy
        <5>2. tok[r] \in PairsOf(s)
          BY <1>O, <3>4, <4>1, <5>1 DEF SoleWriter, PairsOf
        <5>3. tok[r].cid >= 1
          BY <1>O, <4>1, <5>2 DEF Generations
        <5> QED
          BY <2>3, <3>4, <5>1, <5>3 DEF StoredCounter
      <4>3. ASSUME blacklist[s] # 0, r \in Busy(s) PROVE l \notin Writing
        <5>1. op[r] # "access"
          BY <4>3 DEF Busy
        <5>2. tok[r].cid # counter[s].val
          BY <1>O, <2>1, <4>1, <4>3 DEF Ended
        <5> QED
          BY <4>2, <5>1, <5>2
      <4> QED
        BY <1>0, <2>1, <3>1, <3>2, <3>4, <4>1, <4>2, <4>3, Advance DEF PCs
    <3> QED
      BY <3>3, <3>4
  <2> QED
    BY <2>2, <2>3
<1>7. ASSUME NEW r \in Requests, FindUser(r) PROVE SessionInv(s)'
  <2>1. /\ pc[r] = "user" /\ op[r] = "refresh"
        /\ UNCHANGED <<now, counter, blacklist, pairs, orderly>>
    BY <1>0, <1>7 DEF FindUser, store, ControlInv, HandlersOK, Ops
  <2>2. CASE tok[r].user \notin users
    BY <1>7, <1>R, <2>1, <2>2 DEF FindUser
  <2>3. CASE tok[r].user \in users
    <3>1. Goto(r, "reread") /\ seen' = seen
      BY <1>7, <2>3 DEF FindUser
    <3>2. CASE tok[r].sid # s
      BY <1>0, <1>E, <2>1, <3>1, <3>2 DEF Goto, HandlersOK
    <3>3. CASE tok[r].sid = s
      <4>1. SUFFICES ASSUME orderly[s] PROVE SessionInv(s)'
        BY <2>1 DEF SessionInv
      <4>2. r \in Busy(s)
        BY <2>1, <3>3 DEF Busy
      <4>3. tok[r].cid = counter[s].val /\ blacklist[s] = 0
        BY <1>O, <2>1, <4>1, <4>2 DEF FreshKnowledge, Ended, Writing
      <4> QED
        BY <1>0, <2>1, <3>1, <3>3, <4>1, <4>3, Advance DEF PCs
    <3> QED
      BY <3>2, <3>3
  <2> QED
    BY <2>2, <2>3
<1>8. ASSUME NEW r \in Requests, RereadCounter(r) PROVE SessionInv(s)'
  <2> DEFINE n == StoredCounter(tok[r].sid)
  <2>1. /\ pc[r] = "reread" /\ op[r] = "refresh"
        /\ UNCHANGED <<now, counter, blacklist, pairs, orderly>>
    BY <1>0, <1>8 DEF RereadCounter, store, ControlInv, HandlersOK, Ops
  <2>2. CASE n = 0
    BY <1>8, <1>R, <2>1, <2>2 DEF RereadCounter
  <2>3. CASE n # 0
    <3>1. Goto(r, "store") /\ seen' = [seen EXCEPT ![r] = n + 1]
      BY <1>8, <2>3 DEF RereadCounter
    <3>2. CASE tok[r].sid # s
      BY <1>0, <1>E, <2>1, <3>1, <3>2 DEF Goto, HandlersOK
    <3>3. CASE tok[r].sid = s
      <4>1. SUFFICES ASSUME orderly[s] PROVE SessionInv(s)'
        BY <2>1 DEF SessionInv
      <4>2. r \in Busy(s)
        BY <2>1, <3>3 DEF Busy
      <4>3. tok[r].cid = counter[s].val /\ blacklist[s] = 0
        BY <1>O, <2>1, <4>1, <4>2 DEF FreshKnowledge, Ended, Writing
      <4>4. n = counter[s].val
        BY <2>3, <3>3 DEF StoredCounter
      <4>5. seen'[r] = counter[s].val + 1 /\ \A q \in Requests : q # r => seen'[q] = seen[q]
        BY <1>0, <3>1, <4>4 DEF HandlersOK
      <4> HIDE DEF n
      <4> QED
        BY <1>0, <2>1, <3>1, <3>3, <4>1, <4>3, <4>5, Advance DEF PCs
    <3> QED
      BY <3>2, <3>3
  <2> QED
    BY <2>2, <2>3
<1>9. ASSUME NEW r \in Requests, Ban(r) PROVE SessionInv(s)'
  <2>1. /\ pc[r] = "ban" /\ op[r] = "logout" /\ Return(r)
        /\ UNCHANGED <<now, counter, pairs, orderly>>
    BY <1>0, <1>9 DEF Ban, ControlInv, HandlersOK, Ops
  <2>2. CASE tok[r].sid # s
    <3>1. blacklist'[s] = blacklist[s]
      BY <1>9, <2>2 DEF Ban, TypeOK
    <3>2. Untouched(s)
      BY <1>0, <2>1, <3>1 DEF Untouched, Return, HandlersOK
    <3> QED
      BY <3>2, Frame
  <2>3. CASE tok[r].sid = s
    <3>1. blacklist'[s] = RefreshExp(tok[r])
      BY <1>9, <2>3 DEF Ban, TypeOK
    <3>2. SUFFICES ASSUME orderly[s]
                   PROVE  /\ SoleWriter(s)' /\ Generations(s)' /\ FreshKnowledge(s)'
                          /\ Unexpired(s)' /\ Ended(s)'
      BY <2>1 DEF SessionInv
    <3>3. /\ pc'[r] = "idle"
          /\ \A q \in Requests : q # r => /\ pc'[q] = pc[q] /\ op'[q] = op[q]
                                          /\ tok'[q] = tok[q] /\ seen'[q] = seen[q]
      BY <1>0, <2>1 DEF Return, HandlersOK
    <3>4. r \in Busy(s) /\ Busy(s) = {r} /\ Busy(s)' = {}
      BY <1>O, <2>1, <2>3, <3>2, <3>3 DEF Busy, SoleWriter
    <3>5. tok[r] \in PairsOf(s) /\ tok[r].cid = counter[s].val
      BY <1>O, <2>1, <2>3, <3>2, <3>4 DEF SoleWriter, FreshKnowledge, PairsOf
    <3>6. PairsOf(s)' = PairsOf(s)
      BY <2>1 DEF PairsOf
    <3>7. SoleWriter(s)' /\ FreshKnowledge(s)'
      BY <3>4 DEF SoleWriter, FreshKnowledge
    <3>8. Generations(s)'
      BY <1>O, <2>1, <3>2, <3>6 DEF Generations
    <3>9. Unexpired(s)'
      BY <1>O, <2>1, <3>2, <3>3 DEF Unexpired, Exp, AccessExp, RefreshExp
    <3>10. \A p \in PairsOf(s) : p.cid = counter[s].val => p = tok[r]
      BY <1>O, <3>2, <3>5 DEF Generations
    <3>11. RefreshExp(tok[r]) \in Nat
      BY <1>P, <3>5 DEF PairsOf
    <3>12. \A p \in PairsOf(s)' : p.cid = counter'[s].val => RefreshExp(p)' <= blacklist'[s]
      BY <2>1, <3>1, <3>6, <3>10, <3>11 DEF RefreshExp
    <3>13. counter'[s].val # 0
      BY <1>O, <1>P, <2>1, <3>2, <3>5 DEF Generations, PairsOf
    <3>14. Ended(s)'
      BY <3>4, <3>12, <3>13 DEF Ended
    <3> QED
      BY <3>7, <3>8, <3>9, <3>14
  <2> QED
    BY <2>2, <2>3
<1>10. ASSUME NEW r \in Requests, Complete(r) \/ Fail(r) PROVE SessionInv(s)'
  BY <1>10, <1>R DEF Complete, Fail, store
<1>11. ASSUME NEW u \in Users, DeleteUser(u) PROVE SessionInv(s)'
  <2>1. Untouched(s)
    BY <1>11 DEF Untouched, DeleteUser, store, locals
  <2> QED
    BY <2>1, Frame
<1>12. CASE Tick
  <2>1. /\ now' = now + 1 /\ UNCHANGED <<counter, blacklist, pairs, pc, op, tok, seen>>
        /\ orderly'[s] = (orderly[s] /\ ~ExpiringInValidation(s))
    BY <1>12 DEF Tick, store, locals
  <2>2. SUFFICES ASSUME orderly[s], ~ExpiringInValidation(s)
                 PROVE  /\ SoleWriter(s)' /\ Generations(s)' /\ FreshKnowledge(s)'
                        /\ Unexpired(s)' /\ Ended(s)'
    BY <2>1 DEF SessionInv
  <2>3. Busy(s)' = Busy(s) /\ PairsOf(s)' = PairsOf(s)
    BY <2>1 DEF Busy, PairsOf
  <2>4. SoleWriter(s)' /\ Generations(s)' /\ FreshKnowledge(s)' /\ Ended(s)'
    BY <1>O, <2>1, <2>2, <2>3
    DEF SoleWriter, Generations, FreshKnowledge, Ended, RefreshExp
  <2>5. \A r \in Requests : pc[r] \in {"blacklist", "counter"} /\ tok[r].sid = s
                               => now + 1 < Exp(op[r], tok[r])
    BY <1>0, <1>T, <2>2 DEF ExpiringInValidation, Exp, AccessExp, RefreshExp
  <2>6. Unexpired(s)'
    BY <2>1, <2>5 DEF Unexpired, Exp, AccessExp, RefreshExp
  <2> QED
    BY <2>4, <2>6
<1>13. CASE UNCHANGED vars
  <2>1. Untouched(s)
    BY <1>13 DEF Untouched, vars
  <2> QED
    BY <2>1, Frame
<1> QED
  BY <1>1, <1>2, <1>3, <1>4, <1>5, <1>6, <1>7, <1>8, <1>9, <1>10, <1>11,
     <1>12, <1>13 DEF Next, Handler

(***************************************************************************)
(* The theorems.                                                           *)
(***************************************************************************)
\* In every reachable state every orderly session satisfies its invariant.
THEOREM Invariance == Spec => []IInv
<1>1. Init => IInv
  <2> SUFFICES ASSUME Init PROVE \A s \in Sids : SessionInv(s)
    BY TypeCorrectInit DEF IInv
  <2> QED
    BY DEF Init, SessionInv, SoleWriter, Generations, FreshKnowledge, Unexpired,
           Ended, Busy, PairsOf
<1>2. IInv /\ [Next]_vars => IInv'
  BY TypeStep, SessionStep DEF IInv
<1> QED
  BY <1>1, <1>2, PTL DEF Spec

\* A token that is honoured is of the generation the counter names.
LEMMA HonouredIsCurrent ==
  ASSUME IInv, NEW s \in Sids, orderly[s], NEW p \in PairsOf(s), NEW o,
         Honoured(o, p)
  PROVE  p.cid = counter[s].val
BY DEF IInv, SessionInv, Generations, Honoured, StoredCounter, PairsOf

\* An orderly session never has two honoured refresh tokens, for any number of
\* requests in flight.
THEOREM OneLivePairHolds == Spec => []OneLivePair
<1>1. IInv => OneLivePair
  BY HonouredIsCurrent DEF OneLivePair, IInv, SessionInv, Generations, PairsOf
<1> QED
  BY <1>1, Invariance, PTL

\* No token of a logged out orderly session is ever honoured again.
THEOREM LogoutIsFinalHolds == Spec => []LogoutIsFinal
<1>1. IInv => LogoutIsFinal
  <2> SUFFICES ASSUME IInv, NEW s \in Sids, orderly[s], blacklist[s] # 0,
                      NEW p \in PairsOf(s), NEW o \in {"refresh", "access"},
                      Honoured(o, p)
               PROVE  FALSE
    BY DEF LogoutIsFinal, PairsOf
  <2>1. RefreshExp(p) <= blacklist[s]
    BY HonouredIsCurrent DEF IInv, SessionInv, Ended
  <2>2. /\ Exp(o, p) <= RefreshExp(p) /\ Exp(o, p) \in Nat /\ RefreshExp(p) \in Nat
        /\ now \in Nat /\ blacklist[s] \in Nat /\ p.sid = s
    BY LifeAssumption DEF IInv, TypeOK, PairsOf, Pair, Exp, AccessExp, RefreshExp
  <2> QED
    BY <2>1, <2>2 DEF Honoured, Blacklisted
<1> QED
  BY <1>1, Invariance, PTL

\* No step gives a logged out orderly session another pair.
THEOREM NoRefreshAfterLogoutHolds == Spec => NoRefreshAfterLogout
<1>1. IInv /\ [Next]_vars =>
        [\A s \in Sids : orderly[s] /\ blacklist[s] # 0 =>
           {p \in pairs' : p.sid = s} = {p \in pairs : p.sid = s}]_vars
  <2> SUFFICES ASSUME IInv, Next, NEW s \in Sids, orderly[s], blacklist[s] # 0
               PROVE  {p \in pairs' : p.sid = s} = {p \in pairs : p.sid = s}
    OBVIOUS
  <2>1. CASE pairs' = pairs
    BY <2>1
  <2>2. ASSUME NEW r \in Requests, Sign(r)
        PROVE  {p \in pairs' : p.sid = s} = {p \in pairs : p.sid = s}
    <3> DEFINE n == [tok[r] EXCEPT !.cid = seen[r], !.iat = now]
    <3>1. n.sid = tok[r].sid /\ pairs' = pairs \cup {n}
      BY <2>2 DEF Sign, IInv, TypeOK, HandlersOK, Pair
    <3> HIDE DEF n
    <3>2. tok[r].sid # s
      <4>1. op[r] \in {"login", "refresh"} /\ pc[r] = "sign"
        BY <2>2 DEF Sign, IInv, TypeOK, HandlersOK, ControlInv, Ops
      <4>2. tok[r].sid = s => r \in Busy(s)
        BY <4>1 DEF Busy
      <4> QED
        BY <4>1, <4>2 DEF IInv, SessionInv, Ended, Writing
    <3> QED
      BY <3>1, <3>2
  <2>3. \/ pairs' = pairs \/ \E r \in Requests : Sign(r)
    BY StepsOfPairs
  <2> QED
    BY <2>1, <2>2, <2>3
<1> QED
  BY <1>1, Invariance, PTL DEF Spec, NoRefreshAfterLogout

\* What a handler of an orderly session stores is the next generation.
LEMMA StoredIsNext ==
  ASSUME IInv, NEW r \in Requests, StoreCounter(r), NEW s \in Sids, tok[r].sid = s, orderly[s]
  PROVE  counter'[s].val = counter[s].val + 1
<1>1. pc[r] \in {"create", "store"}
  BY DEF StoreCounter
<1>2. r \in Busy(s) /\ (pc[r] = "create" => op[r] = "login")
  BY <1>1 DEF Busy, IInv, TypeOK, HandlersOK, ControlInv, Ops
<1>3. counter'[s].val = seen[r]
  BY DEF StoreCounter, SetSessionCounterId, IInv, TypeOK
<1>4. seen[r] = counter[s].val + 1
  BY <1>1, <1>2 DEF IInv, SessionInv, FreshKnowledge, ControlInv
<1> QED
  BY <1>3, <1>4

\* No step moves the counter of an orderly session backwards.
THEOREM CounterNeverFallsBackHolds == Spec => CounterNeverFallsBack
<1>1. IInv /\ [Next]_vars =>
        [\A s \in Sids : orderly[s]' => counter'[s].val >= counter[s].val]_vars
  <2> SUFFICES ASSUME IInv, Next, NEW s \in Sids, orderly'[s]
               PROVE  counter'[s].val >= counter[s].val
    OBVIOUS
  <2>1. counter[s].val \in Nat
    BY DEF IInv, TypeOK
  <2>2. CASE counter' = counter
    BY <2>1, <2>2
  <2>3. ASSUME NEW r \in Requests, StoreCounter(r)
        PROVE  counter'[s].val >= counter[s].val
    <3>1. CASE tok[r].sid # s
      BY <2>1, <2>3, <3>1 DEF StoreCounter, SetSessionCounterId, IInv, TypeOK
    <3>2. CASE tok[r].sid = s
      <4>1. orderly[s]
        BY <2>3 DEF StoreCounter
      <4> QED
        BY <2>1, <2>3, <3>2, <4>1, StoredIsNext
    <3> QED
      BY <3>1, <3>2
  <2>4. counter' = counter \/ \E r \in Requests : StoreCounter(r)
    BY StepsOfPairs
  <2> QED
    BY <2>2, <2>3, <2>4
<1> QED
  BY <1>1, Invariance, PTL DEF Spec, CounterNeverFallsBack

\* When no handler of a deleted user is past the lookup, none gets there again
\* and the user's pairs stay as they are.
THEOREM DeletedUserStaysOutHolds == Spec => DeletedUserStaysOut
<1>1. IInv /\ [Next]_vars =>
        [\A u \in Users \ users : PastUserLookup(u) = {} =>
           /\ PastUserLookup(u)' = {}
           /\ {p \in pairs' : p.user = u} = {p \in pairs : p.user = u}]_vars
  <2> SUFFICES ASSUME IInv, Next, NEW u \in Users \ users, PastUserLookup(u) = {}
               PROVE  /\ PastUserLookup(u)' = {}
                      /\ {p \in pairs' : p.user = u} = {p \in pairs : p.user = u}
    OBVIOUS
  <2>0. HandlersOK /\ ControlInv
    BY DEF IInv, TypeOK
  <2>1. {p \in pairs' : p.user = u} = {p \in pairs : p.user = u}
    <3>1. CASE pairs' = pairs
      BY <3>1
    <3>2. ASSUME NEW r \in Requests, Sign(r)
          PROVE  {p \in pairs' : p.user = u} = {p \in pairs : p.user = u}
      <4> DEFINE n == [tok[r] EXCEPT !.cid = seen[r], !.iat = now]
      <4>1. n.user = tok[r].user /\ pairs' = pairs \cup {n}
        BY <2>0, <3>2 DEF Sign, HandlersOK, Pair
      <4>2. tok[r].user # u
        BY <3>2 DEF Sign, PastUserLookup
      <4> HIDE DEF n
      <4> QED
        BY <4>1, <4>2
    <3> QED
      BY <3>1, <3>2, StepsOfPairs
  <2>2. ASSUME NEW q \in Requests, q \in PastUserLookup(u)' PROVE FALSE
    <3>1. pc'[q] \in {"create", "reread", "store", "sign"} /\ tok'[q].user = u
      BY <2>2 DEF PastUserLookup
    <3>2. ~(pc[q] \in {"create", "reread", "store", "sign"} /\ tok[q].user = u)
      BY DEF PastUserLookup
    <3>3. ASSUME NEW r \in Requests, NEW v \in Users, NEW t \in Sids, Login(r, v, t)
          PROVE  FALSE
      <4>1. v # u
        BY <3>3 DEF Login
      <4>2. tok'[r].user = v /\ \A x \in Requests : x # r => pc'[x] = pc[x] /\ tok'[x] = tok[x]
        BY <2>0, <3>3 DEF Login, Start, HandlersOK
      <4> QED
        BY <3>1, <3>2, <4>1, <4>2
    <3>4. ASSUME NEW r \in Requests, NEW o \in Ops \ {"login"}, NEW p \in pairs,
                 Present(r, o, p)
          PROVE  FALSE
      BY <2>0, <3>1, <3>2, <3>4 DEF Present, Start, HandlersOK
    <3>5. ASSUME NEW r \in Requests, StoreCounter(r) PROVE FALSE
      BY <2>0, <3>1, <3>2, <3>5 DEF StoreCounter, Goto, HandlersOK
    <3>6. ASSUME NEW r \in Requests, Return(r) PROVE FALSE
      BY <2>0, <3>1, <3>2, <3>6 DEF Return, HandlersOK
    <3>7. ASSUME NEW r \in Requests, ReadBlacklist(r) PROVE FALSE
      BY <2>0, <3>1, <3>2, <3>6, <3>7 DEF ReadBlacklist, Goto, HandlersOK
    <3>8. ASSUME NEW r \in Requests, ReadCounter(r) PROVE FALSE
      <4>1. op[r] \in {"refresh", "logout", "access"}
        BY <2>0, <3>8 DEF ReadCounter, ControlInv, HandlersOK, Ops
      <4>2. AfterValidation(op[r]) \in {"user", "ban", "granted"}
        BY <4>1 DEF AfterValidation
      <4> QED
        BY <2>0, <3>1, <3>2, <3>6, <3>8, <4>2 DEF ReadCounter, Goto, HandlersOK
    <3>9. ASSUME NEW r \in Requests, FindUser(r) PROVE FALSE
      <4>1. CASE tok[r].user \in users
        <5>1. tok' = tok /\ tok[r].user # u /\ \A x \in Requests : x # r => pc'[x] = pc[x]
          BY <2>0, <3>9, <4>1 DEF FindUser, Goto, HandlersOK
        <5> QED
          BY <3>1, <3>2, <5>1
      <4>2. CASE tok[r].user \notin users
        BY <3>6, <3>9, <4>2 DEF FindUser
      <4> QED
        BY <4>1, <4>2
    <3>10. ASSUME NEW r \in Requests, RereadCounter(r) PROVE FALSE
      BY <2>0, <3>1, <3>2, <3>6, <3>10 DEF RereadCounter, Goto, HandlersOK
    <3>11. ASSUME NEW r \in Requests,
                 Sign(r) \/ Ban(r) \/ Complete(r) \/ Fail(r)
          PROVE  FALSE
      BY <3>6, <3>11 DEF Sign, Ban, Complete, Fail
    <3>12. CASE \E v \in Users : DeleteUser(v)
      BY <3>1, <3>2, <3>12 DEF DeleteUser, locals
    <3>14. CASE Tick
      BY <3>1, <3>2, <3>14 DEF Tick, locals
    <3> QED
      BY <3>3, <3>4, <3>5, <3>7, <3>8, <3>9, <3>10, <3>11, <3>12, <3>14
      DEF Next, Handler
  <2>3. PastUserLookup(u)' = {}
    BY <2>2 DEF PastUserLookup
  <2> QED
    BY <2>1, <2>3
<1> QED
  BY <1>1, Invariance, PTL DEF Spec, DeletedUserStaysOut

(***************************************************************************)
(* The expiry of the counters.                                             *)
(***************************************************************************)
\* Whatever was stored last, in milliseconds, is beyond what the clock reaches in seconds.
CounterKept(s) == MsPerSecond * RefreshLife <= counter[s].exat

ExpiryInv ==
  /\ now <= MaxNow
  /\ \A p \in pairs : CounterKept(p.sid)
  /\ \A r \in Requests : pc[r] = "sign" => CounterKept(tok[r].sid)

\* A counter that is stored is kept, and the others are as before.
LEMMA StoredIsKept ==
  ASSUME TypeOK, NEW r \in Requests, StoreCounter(r)
  PROVE  /\ CounterKept(tok[r].sid)'
         /\ \A s \in Sids : CounterKept(s) => CounterKept(s)'
<1>1. tok[r] \in Pair /\ tok[r].sid \in Sids
  BY DEF TypeOK, HandlersOK, StoreCounter, Pair
<1>2. MsPerSecond * RefreshLife <= ParseTokenExpiry
  <2>1. /\ MsPerSecond \in Nat /\ RefreshLife \in Nat /\ now \in Nat
    BY LifeAssumption DEF TypeOK
  <2>2. MsPerSecond * now \in Nat
    BY <2>1
  <2>3. MsPerSecond * (now + RefreshLife) = MsPerSecond * now + MsPerSecond * RefreshLife
    BY <2>1
  <2>4. MsPerSecond * RefreshLife \in Nat
    BY <2>1
  <2> QED
    BY <2>2, <2>3, <2>4 DEF ParseTokenExpiry
<1>3. counter' = [counter EXCEPT ![tok[r].sid] = [val |-> seen[r], exat |-> ParseTokenExpiry]]
  BY DEF StoreCounter, SetSessionCounterId
<1>4. tok' = tok
  BY DEF StoreCounter, Goto
<1>5. counter'[tok[r].sid].exat = ParseTokenExpiry
  BY <1>1, <1>3 DEF TypeOK
<1>6. \A s \in Sids : s # tok[r].sid => counter'[s] = counter[s]
  BY <1>3 DEF TypeOK
<1> QED
  BY <1>2, <1>4, <1>5, <1>6 DEF CounterKept

\* A step that neither writes a counter nor lets a handler sign keeps the invariant.
LEMMA ExpiryFrame ==
  ASSUME ExpiryInv, counter' = counter, pairs' = pairs, now' <= MaxNow,
         \A r \in Requests : pc'[r] = "sign" => pc[r] = "sign" /\ tok'[r] = tok[r]
  PROVE  ExpiryInv'
BY DEF ExpiryInv, CounterKept

\* The clock stays within its bound, and what was signed keeps its counter.
LEMMA ExpiryStep == TypeOK /\ ControlInv /\ ExpiryInv /\ [Next]_vars => ExpiryInv'
<1> SUFFICES ASSUME TypeOK, ControlInv, ExpiryInv, [Next]_vars PROVE ExpiryInv'
  OBVIOUS
<1>0. HandlersOK /\ now <= MaxNow
  BY DEF TypeOK, ExpiryInv
<1>1. ASSUME NEW r \in Requests, Return(r), UNCHANGED <<now, counter, pairs>> PROVE ExpiryInv'
  BY <1>0, <1>1, ExpiryFrame DEF Return, HandlersOK
<1>2. ASSUME NEW r \in Requests, NEW l \in PCs \ {"sign"}, Goto(r, l),
             UNCHANGED <<now, counter, pairs>>
      PROVE  ExpiryInv'
  BY <1>0, <1>2, ExpiryFrame DEF Goto, HandlersOK
<1>3. ASSUME NEW r \in Requests, NEW l \in {"create", "blacklist"}, NEW o \in Ops, NEW p,
             Start(r, l, o, p), UNCHANGED <<now, counter, pairs>>
      PROVE  ExpiryInv'
  BY <1>0, <1>3, ExpiryFrame DEF Start, HandlersOK
<1>4. ASSUME NEW r \in Requests, StoreCounter(r) PROVE ExpiryInv'
  <2>1. /\ CounterKept(tok[r].sid)'
        /\ \A s \in Sids : CounterKept(s) => CounterKept(s)'
    BY <1>4, StoredIsKept
  <2>2. tok' = tok /\ pairs' = pairs /\ now' = now
    BY <1>4 DEF StoreCounter, Goto
  <2>3. \A q \in Requests : q # r => pc'[q] = pc[q]
    BY <1>0, <1>4 DEF StoreCounter, Goto, HandlersOK
  <2>4. \A p \in pairs : p.sid \in Sids
    BY DEF TypeOK, Pair
  <2>5. \A q \in Requests : pc[q] = "sign" => tok[q].sid \in Sids
    BY <1>0 DEF HandlersOK, Pair
  <2>6. \A p \in pairs : CounterKept(p.sid)'
    BY <2>1, <2>2, <2>4 DEF ExpiryInv
  <2>7. \A q \in Requests : q # r /\ pc[q] = "sign" => CounterKept(tok[q].sid)'
    BY <2>1, <2>2, <2>5 DEF ExpiryInv
  <2>8. \A q \in Requests : pc'[q] = "sign" => q = r \/ pc[q] = "sign"
    BY <2>3
  <2>9. \A q \in Requests : pc'[q] = "sign" => CounterKept(tok[q].sid)'
    BY <2>1, <2>7, <2>8
  <2> QED
    BY <1>0, <2>2, <2>6, <2>9 DEF ExpiryInv
<1>5. ASSUME NEW r \in Requests, Sign(r) PROVE ExpiryInv'
  <2> DEFINE n == [tok[r] EXCEPT !.cid = seen[r], !.iat = now]
  <2>1. pairs' = pairs \cup {n} /\ counter' = counter /\ now' = now
    BY <1>5 DEF Sign, store
  <2>2. n.sid = tok[r].sid /\ pc[r] = "sign"
    BY <1>0, <1>5 DEF Sign, HandlersOK, Pair
  <2>3. CounterKept(n.sid)
    BY <2>2 DEF ExpiryInv
  <2>4. \A q \in Requests : pc'[q] = "sign" => pc[q] = "sign" /\ tok'[q] = tok[q]
    BY <1>0, <1>5 DEF Sign, Return, HandlersOK
  <2> HIDE DEF n
  <2> QED
    BY <1>0, <2>1, <2>3, <2>4 DEF ExpiryInv, CounterKept
<1>6. ASSUME NEW r \in Requests, ReadCounter(r) PROVE ExpiryInv'
  <2>1. op[r] \in {"refresh", "logout", "access"}
    BY <1>0, <1>6 DEF ReadCounter, ControlInv, HandlersOK, Ops
  <2>2. AfterValidation(op[r]) \in PCs \ {"sign"}
    BY <2>1 DEF AfterValidation, PCs
  <2> QED
    BY <1>1, <1>2, <1>6, <2>2 DEF ReadCounter, store
<1>7. ASSUME NEW r \in Requests, ReadBlacklist(r) \/ FindUser(r) PROVE ExpiryInv'
  BY <1>1, <1>2, <1>7 DEF ReadBlacklist, FindUser, store, PCs
<1>8. ASSUME NEW r \in Requests, RereadCounter(r) PROVE ExpiryInv'
  BY <1>1, <1>2, <1>8 DEF RereadCounter, store, PCs
<1>9. ASSUME NEW r \in Requests, Ban(r) \/ Complete(r) \/ Fail(r) PROVE ExpiryInv'
  BY <1>1, <1>9 DEF Ban, Complete, Fail, store
<1>10. ASSUME NEW r \in Requests, NEW u \in Users, NEW s \in Sids, Login(r, u, s)
       PROVE  ExpiryInv'
  BY <1>3, <1>10 DEF Login, store, Ops
<1>11. ASSUME NEW r \in Requests, NEW o \in Ops \ {"login"}, NEW p \in pairs, Present(r, o, p)
       PROVE  ExpiryInv'
  BY <1>3, <1>11 DEF Present, store
<1>12. ASSUME NEW u \in Users, DeleteUser(u) PROVE ExpiryInv'
  BY <1>0, <1>12, ExpiryFrame DEF DeleteUser, store, locals
<1>13. CASE Tick
  <2>1. now' <= MaxNow
    BY <1>13, LifeAssumption DEF Tick, TypeOK
  <2> QED
    BY <1>13, <2>1, ExpiryFrame DEF Tick, store, locals
<1>14. CASE UNCHANGED vars
  BY <1>0, <1>14, ExpiryFrame DEF vars
<1> QED
  BY <1>4, <1>5, <1>6, <1>7, <1>8, <1>9, <1>10, <1>11, <1>12, <1>13, <1>14 DEF Next, Handler

\* As long as the clock, in seconds, is below what is stored as milliseconds, a counter
\* that is kept has not expired.
LEMMA KeptIsStored ==
  ASSUME MaxNow < MsPerSecond * RefreshLife, TypeOK, ExpiryInv, NEW s \in Sids, CounterKept(s)
  PROVE  now < counter[s].exat /\ StoredCounter(s) = counter[s].val
<1>1. /\ now \in Nat /\ MaxNow \in Nat /\ MsPerSecond * RefreshLife \in Nat
      /\ counter[s].exat \in Nat
  BY LifeAssumption DEF TypeOK
<1>2. now <= MaxNow /\ MsPerSecond * RefreshLife <= counter[s].exat
  BY DEF ExpiryInv, CounterKept
<1> QED
  BY <1>1, <1>2 DEF StoredCounter

\* What has been signed, or is about to be, has a counter that is kept.
LEMMA ExpiryInvariance == Spec => []ExpiryInv
<1>1. Init => ExpiryInv
  BY LifeAssumption DEF Init, ExpiryInv
<1> QED
  BY <1>1, TypeCorrect, ExpiryStep, PTL DEF Spec

\* A counter is stored with an expiry in milliseconds where seconds are meant: while the
\* clock, in seconds, is below that, no session ends before its tokens do, however long
\* a handler takes from the SET to the signature.
THEOREM CounterOutlivesTokensHolds ==
  ASSUME MaxNow < MsPerSecond * RefreshLife
  PROVE  Spec => []CounterOutlivesTokens
<1>1. TypeOK /\ ExpiryInv => CounterOutlivesTokens
  <2> SUFFICES ASSUME TypeOK, ExpiryInv, NEW p \in pairs PROVE now < counter[p.sid].exat
    BY DEF CounterOutlivesTokens
  <2>1. p.sid \in Sids /\ CounterKept(p.sid)
    BY DEF TypeOK, Pair, ExpiryInv
  <2> QED
    BY <2>1, KeptIsStored
<1> QED
  BY <1>1, TypeCorrect, ExpiryInvariance, PTL

(***************************************************************************)
(* The refinement: every step of Sessions is a step of Rotation.           *)
(***************************************************************************)
\* A session that is not orderly never is again, time does not go back, and only a
\* logout writes the blacklist.
LEMMA OrderStep ==
  ASSUME TypeOK, Next
  PROVE  /\ \A s \in Sids : orderly'[s] => orderly[s]
         /\ now <= now'
         /\ blacklist' = blacklist \/ \E r \in Requests : Ban(r)
<1>1. CASE Tick
  BY <1>1 DEF Tick, TypeOK, store
<1>2. ASSUME NEW r \in Requests, NEW o \in Ops \ {"login"}, NEW p \in pairs, Present(r, o, p)
      PROVE  (\A s \in Sids : orderly'[s] => orderly[s]) /\ now' = now /\ blacklist' = blacklist
  BY <1>2 DEF Present, TypeOK, store
<1>3. ~Tick /\ (\A r \in Requests, o \in Ops \ {"login"}, p \in pairs : ~Present(r, o, p)) =>
        /\ orderly' = orderly /\ now' = now
        /\ blacklist' = blacklist \/ \E r \in Requests : Ban(r)
  BY DEF Next, Handler, Login, StoreCounter, Sign, ReadBlacklist, ReadCounter,
         FindUser, RereadCounter, Ban, Complete, Fail, DeleteUser, store
<1>4. now \in Nat
  BY DEF TypeOK
<1> QED
  BY <1>1, <1>2, <1>3, <1>4

\* A token that is not honoured is not honoured after the step either: it may have
\* expired, be of an earlier generation, or belong to a session that was logged out.
LEMMA NothingComesBack ==
  ASSUME IInv, LogoutIsFinal', Next, NEW s \in Sids, orderly'[s],
         blacklist'[s] = blacklist[s], NEW p \in PairsOf(s), p \in pairs',
         Honoured("refresh", p)'
  PROVE  Honoured("refresh", p)
<1>1. /\ orderly[s] /\ now <= now' /\ now \in Nat /\ p.sid = s
      /\ p.cid \in Nat /\ p.iat \in Nat /\ counter[s].val \in Nat /\ counter[s].exat \in Nat
  BY OrderStep DEF IInv, TypeOK, PairsOf, Pair
<1>2. p.cid >= 1 /\ p.cid <= counter[s].val
  BY <1>1 DEF IInv, SessionInv, Generations
<1>3. /\ now' < RefreshExp(p)
      /\ now' < counter'[s].exat /\ p.cid = counter'[s].val
  BY <1>1, <1>2 DEF Honoured, Exp, RefreshExp, StoredCounter
<1>4. now' \in Int /\ now < RefreshExp(p)
  <2>1. now' = now \/ now' = now + 1
    BY DEF Next, Handler, Login, Present, StoreCounter, Sign, ReadBlacklist, ReadCounter,
           FindUser, RereadCounter, Ban, Complete, Fail, DeleteUser, Tick, store
  <2> QED
    BY <1>1, <1>3, <2>1, LifeAssumption DEF RefreshExp
<1>5. blacklist[s] = 0
  BY <1>1 DEF LogoutIsFinal
<1>6. counter'[s] = counter[s]
  <2>1. ASSUME NEW r \in Requests, StoreCounter(r) PROVE counter'[s] = counter[s]
    <3>1. tok[r].sid # s
      BY <1>1, <1>2, <1>3, <2>1, StoredIsNext
    <3> QED
      BY <2>1, <3>1 DEF StoreCounter, SetSessionCounterId, IInv, TypeOK
  <2> QED
    BY <2>1, StepsOfPairs
<1> QED
  BY <1>1, <1>3, <1>4, <1>5, <1>6 DEF Honoured, Exp, Blacklisted, StoredCounter

\* A step that grants and ends nothing lets tokens lapse, or is a stutter.
LEMMA LapseStep ==
  ASSUME IInv, LogoutIsFinal', Next,
         \A s \in Sids : orderly'[s] => blacklist'[s] = blacklist[s],
         \A p \in pairs' : orderly'[p.sid] => p \in pairs
  PROVE  R!Lapse
<1>1. /\ \A s \in Sids : orderly'[s] => orderly[s]
      /\ pairs \subseteq pairs'
      /\ \A p \in pairs : p.sid \in Sids
  BY OrderStep, StepsOfPairs DEF IInv, TypeOK, Pair, Sign
<1>2. grantedTokens' = {p \in grantedTokens : orderly'[p.sid]}
  BY <1>1 DEF grantedTokens
<1>3. \A p \in grantedTokens' : Honoured("refresh", p)' => Honoured("refresh", p)
  BY <1>1, NothingComesBack DEF grantedTokens, PairsOf
<1>4. {s \in Sids : orderly'[s] /\ blacklist'[s] # 0}
        = {s \in Sids : orderly[s] /\ blacklist[s] # 0} \cap {s \in Sids : orderly'[s]}
  BY <1>1
<1>5. {p \in grantedTokens : orderly'[p.sid]}
        = {t \in grantedTokens : t.sid \in {s \in Sids : orderly'[s]}}
  BY <1>1 DEF grantedTokens
<1> QED
  BY <1>1, <1>2, <1>3, <1>4, <1>5 DEF R!Lapse

\* Signing grants the pair, which is honoured at once.
LEMMA GrantStep ==
  ASSUME MaxNow < MsPerSecond * RefreshLife, IInv, ExpiryInv,
         NEW r \in Requests, Sign(r), orderly[tok[r].sid]
  PROVE  \E t \in grantedTokens' : R!Grant(t)
<1> DEFINE s == tok[r].sid
           n == [tok[r] EXCEPT !.cid = seen[r], !.iat = now]
<1>1. /\ pc[r] = "sign" /\ pairs' = pairs \cup {n}
      /\ UNCHANGED <<now, counter, blacklist, orderly>>
  BY DEF Sign, store
<1>2. /\ s \in Sids /\ orderly[s]
      /\ n.sid = s /\ n.cid = seen[r] /\ n.iat = now /\ now \in Nat
  BY <1>1 DEF IInv, TypeOK, HandlersOK, Pair
<1> HIDE DEF n, s
<1>3. r \in Busy(s)
  BY <1>1 DEF IInv, TypeOK, HandlersOK, ControlInv, Ops, Busy, s
<1>4. /\ seen[r] = counter[s].val /\ counter[s].val \in Nat
      /\ \A p \in PairsOf(s) : p.cid < counter[s].val /\ p.cid \in Nat
  BY <1>1, <1>2, <1>3 DEF IInv, SessionInv, FreshKnowledge, PairsOf, TypeOK, Pair
<1>5. blacklist[s] = 0
  BY <1>1, <1>2, <1>3 DEF IInv, SessionInv, Ended, Writing
<1>6. StoredCounter(s) = counter[s].val
  BY <1>1, <1>2, KeptIsStored DEF IInv, ExpiryInv, s
<1>7. n \notin pairs
  BY <1>2, <1>4 DEF PairsOf
<1>8. Honoured("refresh", n)
  BY <1>2, <1>4, <1>5, <1>6, LifeAssumption DEF Honoured, Exp, RefreshExp, Blacklisted
<1>9. \A p \in pairs : p.sid = s => ~Honoured("refresh", p)
  BY <1>2, <1>4, HonouredIsCurrent DEF PairsOf
<1>10. grantedTokens' = grantedTokens \cup {n}
  BY <1>1, <1>2 DEF grantedTokens
<1>11. \A p : Honoured("refresh", p)' <=> Honoured("refresh", p)
  BY <1>1 DEF Honoured, Exp, RefreshExp, Blacklisted, StoredCounter
<1>12. {p \in grantedTokens : Honoured("refresh", p)}'
         = {p \in grantedTokens : Honoured("refresh", p)} \cup {n}
  BY <1>8, <1>10, <1>11
<1>13. n \notin grantedTokens /\ n \in grantedTokens'
  BY <1>7, <1>10 DEF grantedTokens
<1>14. n.sid \in {x \in Sids : orderly[x]} \ {x \in Sids : orderly[x] /\ blacklist[x] # 0}
  BY <1>2, <1>5
<1>15. \A v \in {p \in grantedTokens : Honoured("refresh", p)} : v.sid # n.sid
  BY <1>2, <1>9 DEF grantedTokens
<1>16. R!Grant(n)
  BY <1>1, <1>10, <1>12, <1>13, <1>14, <1>15 DEF R!Grant
<1> QED
  BY <1>13, <1>16

\* The logout of an orderly session ends it, and it only.
LEMMA EndStep ==
  ASSUME IInv, LogoutIsFinal', NEW r \in Requests, Ban(r), orderly[tok[r].sid]
  PROVE  \E s \in Sids : R!End(s)
<1> DEFINE s == tok[r].sid
<1>1. /\ pc[r] = "ban" /\ UNCHANGED <<now, counter, pairs, orderly>>
      /\ blacklist' = [blacklist EXCEPT ![s] = RefreshExp(tok[r])]
  BY DEF Ban
<1>2. s \in Sids /\ orderly[s] /\ RefreshExp(tok[r]) \in Nat /\ RefreshExp(tok[r]) # 0
  BY <1>1, LifeAssumption DEF IInv, TypeOK, HandlersOK, Pair, RefreshExp
<1>3. r \in Busy(s)
  BY <1>1 DEF IInv, TypeOK, HandlersOK, ControlInv, Ops, Busy
<1>4. blacklist[s] = 0
  BY <1>1, <1>2, <1>3 DEF IInv, SessionInv, Ended, Writing
<1> HIDE DEF s
<1>5. /\ blacklist'[s] # 0
      /\ \A x \in Sids : x # s => blacklist'[x] = blacklist[x]
  BY <1>1, <1>2 DEF IInv, TypeOK
<1>6. grantedTokens' = grantedTokens /\ \A p \in grantedTokens : p.sid \in Sids /\ p \in pairs
  BY <1>1 DEF grantedTokens, IInv, TypeOK, Pair
<1>7. \A p \in grantedTokens : p.sid # s =>
        (Honoured("refresh", p)' <=> Honoured("refresh", p))
  BY <1>1, <1>5, <1>6 DEF Honoured, Exp, RefreshExp, Blacklisted, StoredCounter
<1>8. \A p \in grantedTokens : p.sid = s => ~Honoured("refresh", p)'
  BY <1>1, <1>2, <1>5, <1>6 DEF LogoutIsFinal
<1>9. {p \in grantedTokens : Honoured("refresh", p)}'
        = {v \in {p \in grantedTokens : Honoured("refresh", p)} : v.sid # s}
  BY <1>6, <1>7, <1>8
<1>10. {x \in Sids : orderly[x] /\ blacklist[x] # 0}'
         = {x \in Sids : orderly[x] /\ blacklist[x] # 0} \cup {s}
  BY <1>1, <1>2, <1>5
<1> QED
  BY <1>1, <1>2, <1>4, <1>6, <1>9, <1>10 DEF R!End

\* Sessions implements Rotation: the refresh tokens of an orderly session are honoured
\* one at a time, each from its signature on until it lapses for good, and none once
\* the session was logged out.
THEOREM SessionsRotate ==
  ASSUME MaxNow < MsPerSecond * RefreshLife
  PROVE  Spec => TokensRotate
<1>1. Init => R!Init
  BY DEF Init, R!Init, grantedTokens
<1>2. IInv /\ ExpiryInv /\ LogoutIsFinal' /\ [Next]_vars => [R!Next]_(R!vars)
  <2> SUFFICES ASSUME IInv, ExpiryInv, LogoutIsFinal', [Next]_vars
               PROVE  R!Next \/ UNCHANGED R!vars
    OBVIOUS
  <2>1. CASE UNCHANGED vars
    BY <2>1 DEF vars, R!vars, grantedTokens, Honoured, Exp, RefreshExp, Blacklisted, StoredCounter
  <2>2. CASE Next
    <3>1. ASSUME NEW r \in Requests, Sign(r) PROVE R!Next
      <4>1. CASE orderly[tok[r].sid]
        BY <3>1, <4>1, GrantStep DEF R!Next
      <4>2. CASE ~orderly[tok[r].sid]
        <5> DEFINE n == [tok[r] EXCEPT !.cid = seen[r], !.iat = now]
        <5>1. n.sid = tok[r].sid /\ pairs' = pairs \cup {n}
          BY <3>1 DEF Sign, IInv, TypeOK, HandlersOK, Pair
        <5> HIDE DEF n
        <5>2. UNCHANGED <<blacklist, orderly>>
          BY <3>1 DEF Sign, store
        <5> QED
          BY <2>2, <4>2, <5>1, <5>2, LapseStep DEF R!Next
      <4> QED
        BY <4>1, <4>2
    <3>2. ASSUME NEW r \in Requests, Ban(r) PROVE R!Next
      <4>1. CASE orderly[tok[r].sid]
        BY <3>2, <4>1, EndStep DEF R!Next
      <4>2. CASE ~orderly[tok[r].sid]
        <5>1. UNCHANGED <<pairs, orderly>>
          BY <3>2 DEF Ban
        <5>2. \A s \in Sids : orderly'[s] => blacklist'[s] = blacklist[s]
          BY <3>2, <4>2, <5>1 DEF Ban, IInv, TypeOK
        <5> QED
          BY <2>2, <5>1, <5>2, LapseStep DEF R!Next
      <4> QED
        BY <4>1, <4>2
    <3>3. CASE blacklist' = blacklist /\ pairs' = pairs
      BY <2>2, <3>3, LapseStep DEF R!Next
    <3> QED
      BY <2>2, <3>1, <3>2, <3>3, OrderStep, StepsOfPairs DEF IInv
  <2> QED
    BY <2>1, <2>2
<1> QED
  BY <1>1, <1>2, Invariance, ExpiryInvariance, LogoutIsFinalHolds, PTL
  DEF Spec, R!Spec, TokensRotate
=============================================================================
