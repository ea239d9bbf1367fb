---------------------------- MODULE ClientProofs ----------------------------
(***************************************************************************)
(* Theorems about Client, for any number of calls.                         *)
(***************************************************************************)
EXTENDS Client, TLAPS

\* Why a login lasts: the device is "joining" or "in" only while nothing is on its way
\* that would overwrite its tokens, and no query is about to refresh; and "opened" only
\* until the first call sends a refresh.
Joined ==
  /\ device \in {"joining", "in"} =>
       /\ access = "token"
       /\ \A c \in Calls : pc[c] \notin {"refreshing", "saveRefresh", "logout"}
       /\ \A c \in Calls : pc[c] = "refresh" => method[c] = "refresh"
  /\ device = "in" => refresh = "token"
  /\ device = "opened" =>
       /\ refresh = "token"
       /\ \A c \in Calls : pc[c] \notin {"refreshing", "saveRefresh"}

\* Why a logout lasts: nothing is on its way that would bring a token of a login back.
Left ==
  /\ device \in {"leaving", "out"} =>
       /\ refresh # "token"
       /\ \A c \in Calls : pc[c] # "saveLogin"
  /\ device = "out" => access # "token"

IInv == TypeOK /\ Joined /\ Left

\* The invariant holds at first.
LEMMA InitIInv == Init => IInv
BY DEF Init, Opened, IInv, TypeOK, Token, PCs, Stages, Joined, Left

\* Every step of a call keeps the invariant.
LEMMA IInvStep == IInv /\ [Next]_vars => IInv'
<1> SUFFICES ASSUME IInv, [Next]_vars
             PROVE  IInv'
  OBVIOUS
<1> USE DEF IInv, TypeOK, Token, PCs, Stages, Joined, Left
<1>1. CASE UNCHANGED vars
  BY <1>1 DEF vars
<1>2. ASSUME NEW c \in Calls, Query(c) \/ Refresh(c) \/ Login(c)
      PROVE  IInv'
  BY <1>2 DEF Query, Refresh, Login, Start
<1>3. ASSUME NEW c \in Calls, Logout(c)
      PROVE  IInv'
  BY <1>3 DEF Logout, Start, LoadRefreshToken, Alone
<1>4. ASSUME NEW c \in Calls, SendRefresh(c)
      PROVE  IInv'
  BY <1>4 DEF SendRefresh, Goto, LoadRefreshToken
<1>5. ASSUME NEW c \in Calls, AnswerRefresh(c)
      PROVE  IInv'
  BY <1>5 DEF AnswerRefresh, Goto
<1>6. ASSUME NEW c \in Calls, SaveRefresh(c)
      PROVE  IInv'
  BY <1>6 DEF SaveRefresh, Goto
<1>7. ASSUME NEW c \in Calls, Retry(c) \/ Settle(c)
      PROVE  IInv'
  BY <1>7 DEF Retry, Settle, Goto
<1>8. ASSUME NEW c \in Calls, SaveLoginAccess(c)
      PROVE  IInv'
  BY <1>8 DEF SaveLoginAccess, Goto, Alone, Refreshing
<1>9. ASSUME NEW c \in Calls, SaveLoginRefresh(c)
      PROVE  IInv'
  BY <1>9 DEF SaveLoginRefresh, Goto
<1>10. ASSUME NEW c \in Calls, DeleteAccessToken(c)
       PROVE  IInv'
  BY <1>10 DEF DeleteAccessToken, Goto
<1>11. CASE Reload
  BY <1>11 DEF Reload, Opened
<1> QED
  BY <1>1, <1>2, <1>3, <1>4, <1>5, <1>6, <1>7, <1>8, <1>9, <1>10, <1>11 DEF Next, Step

\* The inductive invariant of the tokens and the calls under way.
LEMMA Invariance == Spec => []IInv
BY InitIInv, IInvStep, PTL DEF Spec

\* Every variable of Client keeps its type.
THEOREM TypeCorrect == Spec => []TypeOK
BY Invariance, PTL DEF IInv

\* With any number of calls under way, a device that is in keeps both tokens of its
\* login until the page is reloaded, and a page that was opened with a refresh token
\* keeps that until a call sends a refresh or logs out.
THEOREM LoginLastsHolds == Spec => []LoginLasts
<1>1. IInv => LoginLasts
  BY DEF IInv, Joined, LoginLasts
<1> QED
  BY <1>1, Invariance, PTL

\* No call that is under way brings a token of a login back to a device that is out, and
\* no reload does.
THEOREM LogoutLastsHolds == Spec => []LogoutLasts
<1>1. IInv => LogoutLasts
  BY DEF IInv, Left, LogoutLasts
<1> QED
  BY <1>1, Invariance, PTL

\* The steps left at each place, as numbers.
LEMMA StepsLeftAt ==
  /\ StepsLeft["refresh"] = 5 /\ StepsLeft["refreshing"] = 4 /\ StepsLeft["saveRefresh"] = 3
  /\ StepsLeft["retry"] = 2 /\ StepsLeft["login"] = 2
  /\ StepsLeft["fetch"] = 1 /\ StepsLeft["saveLogin"] = 1 /\ StepsLeft["logout"] = 1
  /\ StepsLeft["idle"] = 0
BY DEF StepsLeft, PCs

\* A call that goes on comes nearer to its end, and the others stay where they are.
LEMMA GotoAdvances ==
  ASSUME TypeOK, NEW c \in Calls, NEW from \in PCs, NEW to \in PCs, Goto(c, from, to),
         StepsLeft[to] < StepsLeft[from], NEW d \in Calls, pc'[d] # pc[d]
  PROVE  StepsLeft[pc'[d]] < StepsLeft[pc[d]]
BY DEF Goto, TypeOK

\* Every step of a call brings it nearer to its end, with any number of calls under way:
\* none takes more than five, and no query refreshes twice.
THEOREM CallsAdvanceHolds == Spec => CallsAdvance
<1>1. TypeOK /\ [Next]_vars =>
        [\A c \in Calls : pc[c] # "idle" /\ pc'[c] # pc[c] => StepsLeft[pc'[c]] < StepsLeft[pc[c]]]_vars
  <2> SUFFICES ASSUME TypeOK, Next, NEW d \in Calls, pc[d] # "idle", pc'[d] # pc[d]
               PROVE  StepsLeft[pc'[d]] < StepsLeft[pc[d]]
    OBVIOUS
  <2>1. CASE Reload
    BY <2>1, StepsLeftAt DEF Reload, TypeOK, PCs
  <2>2. ASSUME NEW c \in Calls, NEW m, NEW l, Start(c, m, l)
        PROVE  FALSE
    BY <2>2 DEF Start, TypeOK
  <2>3. ASSUME NEW c \in Calls, Step(c)
        PROVE  \E from \in PCs, to \in PCs : Goto(c, from, to) /\ StepsLeft[to] < StepsLeft[from]
    <3>1. CASE SendRefresh(c) \/ AnswerRefresh(c) \/ Retry(c)
      BY <3>1, StepsLeftAt DEF SendRefresh, AnswerRefresh, Retry, PCs
    <3>2. CASE SaveRefresh(c)
      BY <3>2, StepsLeftAt DEF SaveRefresh, PCs
    <3>3. CASE Settle(c)
      BY <3>3, StepsLeftAt DEF Settle, PCs
    <3>4. CASE SaveLoginAccess(c) \/ SaveLoginRefresh(c) \/ DeleteAccessToken(c)
      BY <3>4, StepsLeftAt DEF SaveLoginAccess, SaveLoginRefresh, DeleteAccessToken, PCs
    <3> QED
      BY <2>3, <3>1, <3>2, <3>3, <3>4 DEF Step
  <2> QED
    BY <2>1, <2>2, <2>3, GotoAdvances DEF Next, Query, Refresh, Login, Logout
<1> QED
  BY <1>1, TypeCorrect, PTL DEF Spec, CallsAdvance
=============================================================================
