--------------------------- MODULE SettingsProofs ---------------------------
(***************************************************************************)
(* Proofs about Settings: replaced settings never come back, the table     *)
(* never empties, and registration needs an administrator.                 *)
(***************************************************************************)
EXTENDS Settings, TLAPS

\* The initial state has the right types.
LEMMA TypeInit == Init => TypeOK
<1> SUFFICES ASSUME Init PROVE TypeOK
  OBVIOUS
<1>1. victims \in [Requests -> SUBSET Row] /\ known \in [Requests -> SUBSET Row]
  BY DEF Init
<1>2. registered \in BOOLEAN /\ opened \in BOOLEAN
  BY DEF Init
<1> QED BY <1>1, <1>2 DEF Init, TypeOK, Ops, PCs

\* Every step keeps the types.
LEMMA TypeStep == TypeOK /\ [Next]_vars => TypeOK'
<1> SUFFICES ASSUME TypeOK, [Next]_vars PROVE TypeOK'
  OBVIOUS
<1> USE DEF TypeOK, PCs, Ops, Goto, Forget, history
<1>1. ASSUME NEW r \in Requests, NEW o \in {"info", "register"}, Request(r, o) PROVE TypeOK'
  BY <1>1 DEF Request
<1>2. ASSUME NEW r \in Requests, ReadSettings(r) PROVE TypeOK'
  BY <1>2 DEF ReadSettings, AfterSettings
<1>3. ASSUME NEW r \in Requests, NEW enabled \in BOOLEAN, NEW by \in {"admin", "default"},
             Begin(r, enabled, by), op' \in [Requests -> Ops]
      PROVE  TypeOK'
  BY <1>3 DEF Begin, Row
<1>4. ASSUME NEW r \in Requests, NEW enabled \in BOOLEAN, Update(r, enabled) PROVE TypeOK'
  BY <1>3, <1>4 DEF Update
<1>5. ASSUME NEW r \in Requests, Populate(r) PROVE TypeOK'
  BY <1>3, <1>5 DEF Populate
<1>6. ASSUME NEW r \in Requests, Sweep(r) PROVE TypeOK'
  BY <1>6 DEF Sweep, OlderRows
<1>7. ASSUME NEW r \in Requests, Commit(r) PROVE TypeOK'
  BY <1>7 DEF Commit, AfterSettings, Row
<1>8. ASSUME NEW r \in Requests, Abort(r) PROVE TypeOK'
  BY <1>8 DEF Abort
<1>9. ASSUME NEW r \in Requests, CreateUser(r) PROVE TypeOK'
  BY <1>9 DEF CreateUser
<1>10. CASE UNCHANGED vars
  BY <1>10 DEF vars
<1> QED BY <1>1, <1>2, <1>4, <1>5, <1>6, <1>7, <1>8, <1>9, <1>10 DEF Next

\* The type invariant of the settings.
THEOREM TypeCorrect == Spec => []TypeOK
BY TypeInit, TypeStep, PTL DEF Spec

(***************************************************************************)
(* The invariant.                                                          *)
(***************************************************************************)
\* created_at tells the rows apart, and is never in the future.
CreatedAt ==
  /\ \A x \in rows \cup superseded : x.at < clock
  /\ \A r \in Requests : Inserting(r) => row[r].at < clock
  /\ \A r \in Requests : Inserting(r) => row[r] \notin rows \cup superseded
  /\ \A r, q \in Requests : Inserting(r) /\ Inserting(q) /\ row[r] = row[q] => r = q
  /\ \A r, q \in Requests : Inserting(r) /\ Inserting(q) => row[r] \notin known[q]

\* Whatever was committed when an insert began is older than its row, and once
\* its trigger has run is gone or about to go.
KnownAreVictims ==
  \A r \in Requests :
    /\ Inserting(r) => \A x \in known[r] : x.at < row[r].at
    /\ pc[r] = "swept" => known[r] \cap rows \subseteq victims[r]

\* The rows a transaction will delete are older than the row it leaves.
VictimsAreOlder ==
  \A r \in Requests : pc[r] = "swept" => \A x \in victims[r] : x.at < row[r].at

\* No default row enables registration, and no handler is past the gate before
\* an administrator has opened it.
GateInv ==
  /\ \A x \in rows : x.enabled => opened
  /\ \A r \in Requests : Inserting(r) /\ row[r].enabled => row[r].by = "admin"
  /\ \A r \in Requests : pc[r] = "create" => opened
  /\ registered => opened

IInv ==
  /\ TypeOK
  /\ CreatedAt
  /\ KnownAreVictims
  /\ VictimsAreOlder
  /\ StaleSettingsAreGone
  /\ GateInv

\* The invariant holds at first.
LEMMA InitIInv == Init => IInv
<1> SUFFICES ASSUME Init PROVE IInv
  OBVIOUS
<1>1. TypeOK
  BY TypeInit
<1> QED BY <1>1 DEF Init, IInv, CreatedAt, KnownAreVictims, VictimsAreOlder,
          StaleSettingsAreGone, GateInv, Inserting

\* What the two kinds of insert have in common.
LEMMA BeginStep ==
  ASSUME IInv, TypeOK', NEW r \in Requests, NEW enabled \in BOOLEAN,
         NEW by \in {"admin", "default"}, enabled => by = "admin",
         ~Inserting(r), Begin(r, enabled, by)
  PROVE  IInv'
<1> USE DEF IInv, TypeOK, Begin, Goto, history, Inserting
<1>1. row'[r].at = clock /\ row'[r].enabled = enabled /\ row'[r].by = by
  OBVIOUS
<1>2. \A q \in Requests \ {r} : pc'[q] = pc[q] /\ row'[q] = row[q] /\ known'[q] = known[q]
  OBVIOUS
<1>3. pc'[r] = "inserted" /\ known'[r] = rows /\ rows' = rows
  OBVIOUS
<1>4. CreatedAt'
  <2>1. \A q \in Requests \ {r} : Inserting(q) =>
          row[q] # row'[r] /\ row[q] \notin rows /\ row'[r] \notin known[q] /\ row'[r] \notin rows
    BY <1>1 DEF CreatedAt, KnownAreVictims, Row
  <2> QED BY <1>1, <1>2, <1>3, <2>1 DEF CreatedAt, Row
<1>5. KnownAreVictims'
  BY <1>1, <1>2, <1>3 DEF CreatedAt, KnownAreVictims
<1>6. VictimsAreOlder'
  BY <1>2, <1>3 DEF VictimsAreOlder
<1>7. StaleSettingsAreGone' /\ GateInv'
  BY <1>1, <1>2, <1>3 DEF StaleSettingsAreGone, GateInv
<1> QED BY <1>4, <1>5, <1>6, <1>7

\* Every step keeps the invariant, and never empties the table.
LEMMA Step == IInv /\ [Next]_vars => IInv' /\ (rows # {} => rows' # {})
<1> SUFFICES ASSUME IInv, [Next]_vars PROVE IInv' /\ (rows # {} => rows' # {})
  OBVIOUS
<1>1. TypeOK /\ TypeOK'
  BY TypeStep DEF IInv
<1>2. ASSUME NEW r \in Requests, UNCHANGED <<clock, rows, row, victims, known, history, registered>>,
             NEW l \in {"idle", "read", "populate", "create"}, Goto(r, l), l = "create" => opened
      PROVE  IInv'
  BY <1>1, <1>2 DEF IInv, TypeOK, Goto, history, CreatedAt, KnownAreVictims, VictimsAreOlder,
                    StaleSettingsAreGone, GateInv, Inserting
<1>3. ASSUME NEW r \in Requests, NEW o \in {"info", "register"}, Request(r, o)
      PROVE  IInv' /\ rows' = rows
  BY <1>2, <1>3 DEF Request
<1>4. ASSUME NEW r \in Requests, ReadSettings(r)
      PROVE  IInv' /\ rows' = rows
  <2>1. ASSUME NEW x \in Oldest
        PROVE  /\ AfterSettings(op[r], x.enabled) \in {"idle", "create"}
               /\ AfterSettings(op[r], x.enabled) = "create" => opened
    BY <1>1 DEF Oldest, AfterSettings, IInv, GateInv
  <2> QED BY <1>2, <1>4, <2>1 DEF ReadSettings
<1>5. ASSUME NEW r \in Requests, (\E enabled \in BOOLEAN : Update(r, enabled)) \/ Populate(r)
      PROVE  IInv' /\ rows' = rows
  BY <1>1, <1>5, BeginStep DEF Update, Populate, Begin, Inserting
<1>6. ASSUME NEW r \in Requests, Sweep(r)
      PROVE  IInv' /\ rows' = rows
  <2> USE DEF Sweep, Goto, history, IInv, TypeOK, Inserting
  <2>1. \A q \in Requests : q # r => pc'[q] = pc[q] /\ victims'[q] = victims[q]
    BY <1>6
  <2>2. pc'[r] = "swept" /\ pc[r] = "inserted" /\ victims'[r] = OlderRows(row[r])
    BY <1>6
  <2>3. CreatedAt' /\ StaleSettingsAreGone' /\ GateInv'
    BY <1>6, <2>1, <2>2 DEF CreatedAt, StaleSettingsAreGone, GateInv
  <2>4. KnownAreVictims' /\ VictimsAreOlder'
    BY <1>6, <2>1, <2>2 DEF KnownAreVictims, VictimsAreOlder, OlderRows
  <2> QED BY <1>1, <1>6, <2>3, <2>4
<1>7. ASSUME NEW r \in Requests, Commit(r)
      PROVE  IInv' /\ rows' # {}
  <2> USE DEF Commit, Goto, Forget, IInv, TypeOK, Inserting
  <2>1. \A q \in Requests : q # r =>
          pc'[q] = pc[q] /\ row'[q] = row[q] /\ victims'[q] = victims[q] /\ known'[q] = known[q]
    BY <1>7
  <2>2. /\ pc[r] = "swept" /\ row[r] \in Row
        /\ pc'[r] \in {"idle", "create"}
        /\ pc'[r] = "create" => row[r].enabled
    BY <1>7 DEF AfterSettings
  <2>3. row[r] \notin victims[r]
    BY <1>1, <2>2 DEF VictimsAreOlder, Row
  <2>4. CreatedAt'
    <3>1. rows' \cup superseded' \subseteq rows \cup superseded \cup {row[r]} \cup known[r]
      BY <1>7
    <3>2. \A x \in known[r] : x.at < row[r].at /\ x \in Row
      BY <2>2 DEF KnownAreVictims
    <3>3. \A q \in Requests : Inserting(q)' => q # r /\ Inserting(q) /\ row'[q] = row[q]
      BY <2>1, <2>2
    <3>4. \A x \in rows' \cup superseded' : x.at < clock'
      BY <1>7, <2>2, <3>1, <3>2 DEF CreatedAt, Row
    <3> QED BY <1>7, <2>1, <2>2, <3>1, <3>2, <3>3, <3>4 DEF CreatedAt
  <2>5. KnownAreVictims' /\ VictimsAreOlder'
    BY <1>7, <2>1, <2>2 DEF KnownAreVictims, VictimsAreOlder, CreatedAt
  <2>6. StaleSettingsAreGone'
    BY <1>7, <2>2, <2>3 DEF StaleSettingsAreGone, KnownAreVictims, CreatedAt
  <2>7. GateInv'
    BY <1>7, <2>1, <2>2 DEF GateInv
  <2>8. rows' # {}
    BY <1>7, <2>3
  <2> QED BY <1>1, <2>4, <2>5, <2>6, <2>7, <2>8
<1>8. ASSUME NEW r \in Requests, Abort(r)
      PROVE  IInv' /\ rows' = rows
  <2>1. \A q \in Requests : q # r =>
          pc'[q] = pc[q] /\ row'[q] = row[q] /\ victims'[q] = victims[q] /\ known'[q] = known[q]
    BY <1>1, <1>8 DEF Abort, Goto, Forget, TypeOK
  <2>2. pc'[r] = "idle"
    BY <1>1, <1>8 DEF Abort, Goto, TypeOK
  <2> QED BY <1>1, <1>8, <2>1, <2>2 DEF Abort, history, IInv, CreatedAt, KnownAreVictims,
            VictimsAreOlder, StaleSettingsAreGone, GateInv, Inserting
<1>9. ASSUME NEW r \in Requests, CreateUser(r)
      PROVE  IInv' /\ rows' = rows
  <2>1. opened /\ opened' = opened
    BY <1>9 DEF CreateUser, history, IInv, GateInv
  <2>2. \A q \in Requests : pc'[q] = IF q = r THEN "idle" ELSE pc[q]
    BY <1>1, <1>9 DEF CreateUser, Goto, TypeOK
  <2> QED BY <1>1, <1>9, <2>1, <2>2 DEF CreateUser, history, IInv, CreatedAt, KnownAreVictims,
            VictimsAreOlder, StaleSettingsAreGone, GateInv, Inserting
<1>10. CASE UNCHANGED vars
  BY <1>1, <1>10 DEF vars, history, IInv, CreatedAt, KnownAreVictims, VictimsAreOlder,
                     StaleSettingsAreGone, GateInv, Inserting
<1> QED BY <1>3, <1>4, <1>5, <1>6, <1>7, <1>8, <1>9, <1>10 DEF Next, vars

\* The inductive invariant.
THEOREM Invariance == Spec => []IInv
<1>1. IInv /\ [Next]_vars => IInv'
  BY Step
<1> QED BY InitIInv, <1>1, PTL DEF Spec

\* Settings that an update has replaced never come back (delete_older_rows).
THEOREM StaleSettingsAreGoneHolds == Spec => []StaleSettingsAreGone
<1>1. IInv => StaleSettingsAreGone
  BY DEF IInv
<1> QED BY <1>1, Invariance, PTL

\* Nobody registers before an administrator has enabled it.
THEOREM RegistrationNeedsAdministratorHolds == Spec => []RegistrationNeedsAdministrator
<1>1. IInv => RegistrationNeedsAdministrator
  BY DEF IInv, GateInv, RegistrationNeedsAdministrator
<1> QED BY <1>1, Invariance, PTL

\* The table never empties.
THEOREM SettingsStayHolds == Spec => SettingsStay
<1>1. IInv /\ [Next]_vars => [rows # {} => rows' # {}]_vars
  BY Step
<1> QED BY <1>1, Invariance, PTL DEF Spec, SettingsStay

(***************************************************************************)
(* The refinement: every step of Settings is a step of RegularRegister.    *)
(***************************************************************************)
\* What the register knows of the transactions.
Writing == {r \in Requests : Inserting(r)}
Before == [r \in Requests |-> IF Inserting(r) THEN known[r] ELSE {}]

\* A step that commits nothing and leaves the transactions where they are is a stutter.
LEMMA Stutter ==
  ASSUME rows' = rows, superseded' = superseded,
         \A q \in Requests : /\ Inserting(q)' <=> Inserting(q)
                             /\ Inserting(q) => known'[q] = known[q]
  PROVE  UNCHANGED G!vars
BY DEF G!vars

\* A transaction that ends leaves the others as they are.
LEMMA LeaveStep ==
  ASSUME NEW r \in Requests, Inserting(r), ~Inserting(r)',
         \A q \in Requests \ {r} : /\ Inserting(q)' <=> Inserting(q)
                                   /\ known'[q] = known[q]
  PROVE  /\ r \in Writing /\ Writing' = Writing \ {r}
         /\ Before' = [Before EXCEPT ![r] = {}]
BY DEF Writing, Before

\* An insert begins a write, which finds what is committed.
LEMMA BeginRefines ==
  ASSUME TypeOK, NEW r \in Requests, NEW enabled, NEW by, ~Inserting(r), Begin(r, enabled, by)
  PROVE  G!Begin(r)
<1>1. /\ pc'[r] = "inserted" /\ known'[r] = rows
      /\ \A q \in Requests \ {r} : pc'[q] = pc[q] /\ known'[q] = known[q]
      /\ rows' = rows /\ superseded' = superseded
  BY DEF TypeOK, Begin, Goto, history
<1>2. Writing' = Writing \cup {r}
  BY <1>1 DEF Writing, Inserting
<1>3. Before' = [Before EXCEPT ![r] = rows]
  BY <1>1 DEF Before, Inserting
<1> QED
  BY <1>1, <1>2, <1>3 DEF G!Begin, Writing, Before

\* A commit ends the write: its row is new, it survives its own trigger, and what the
\* write found is gone.
LEMMA CommitRefines ==
  ASSUME IInv, NEW r \in Requests, Commit(r)
  PROVE  \E x \in rows' : G!End(r, x)
<1> DEFINE x == row[r]
<1>1. /\ pc[r] = "swept" /\ rows' = (rows \cup {x}) \ victims[r]
      /\ superseded' = superseded \cup known[r]
  BY DEF Commit
<1>2. pc'[r] \in {"idle", "create"}
  BY DEF Commit, Goto, AfterSettings, IInv, TypeOK
<1>3. \A q \in Requests \ {r} : pc'[q] = pc[q] /\ known'[q] = known[q]
  BY DEF Commit, Goto, Forget, IInv, TypeOK
<1>4. /\ x \in Row /\ x \notin rows \cup superseded /\ x \notin known[r]
      /\ x \notin victims[r]
  BY <1>1 DEF IInv, TypeOK, CreatedAt, VictimsAreOlder, Inserting, Row
<1>5. known[r] \cap rows \subseteq victims[r]
  BY <1>1 DEF IInv, KnownAreVictims
<1>6. x \in rows' /\ rows' \subseteq (rows \cup {x}) \ superseded'
  BY <1>1, <1>4, <1>5 DEF IInv, StaleSettingsAreGone
<1>7. /\ r \in Writing /\ Writing' = Writing \ {r}
      /\ Before' = [Before EXCEPT ![r] = {}] /\ Before[r] = known[r]
  BY <1>1, <1>2, <1>3, LeaveStep DEF Inserting, Before
<1> HIDE DEF x
<1> QED
  BY <1>1, <1>4, <1>6, <1>7 DEF G!End, G!Leave, Writing, Before

\* An abort is the cancellation of a write, or a stutter.
LEMMA AbortRefines ==
  ASSUME TypeOK, NEW r \in Requests, Abort(r)
  PROVE  G!Cancel(r) \/ UNCHANGED G!vars
<1>1. /\ pc'[r] = "idle" /\ rows' = rows /\ superseded' = superseded
      /\ \A q \in Requests \ {r} : pc'[q] = pc[q] /\ known'[q] = known[q]
  BY DEF TypeOK, Abort, Goto, Forget, history
<1>2. CASE Inserting(r)
  <2>1. /\ r \in Writing /\ Writing' = Writing \ {r} /\ Before' = [Before EXCEPT ![r] = {}]
    BY <1>1, <1>2, LeaveStep DEF Inserting
  <2> QED
    BY <1>1, <2>1 DEF G!Cancel, G!Leave, Writing, Before
<1>3. CASE ~Inserting(r)
  BY <1>1, <1>3, Stutter DEF Inserting
<1> QED
  BY <1>2, <1>3

\* Settings implements RegularRegister, for any number of overlapping requests.
THEOREM SettingsAreRegularHolds == Spec => SettingsAreRegular
<1>1. Init => G!Init
  BY DEF Init, G!Init, Inserting
<1>2. IInv /\ [Next]_vars => [G!Next]_(G!vars)
  <2> SUFFICES ASSUME IInv, [Next]_vars PROVE G!Next \/ UNCHANGED G!vars
    OBVIOUS
  <2>0. TypeOK
    BY DEF IInv
  <2>1. ASSUME NEW r \in Requests, NEW l, Goto(r, l), Inserting(r) <=> l \in {"inserted", "swept"},
               rows' = rows, superseded' = superseded, known' = known
        PROVE  UNCHANGED G!vars
    BY <2>0, <2>1, Stutter DEF TypeOK, Goto, Inserting
  <2>2. ASSUME NEW r \in Requests, NEW o, Request(r, o) \/ ReadSettings(r) PROVE UNCHANGED G!vars
    BY <2>1, <2>2 DEF Request, ReadSettings, AfterSettings, Inserting, history
  <2>3. ASSUME NEW r \in Requests, (\E enabled \in BOOLEAN : Update(r, enabled)) \/ Populate(r)
        PROVE  G!Next
    <3>1. \E enabled, by : Begin(r, enabled, by) /\ ~Inserting(r)
      BY <2>3 DEF Update, Populate, Inserting
    <3> QED
      BY <2>0, <3>1, BeginRefines DEF G!Next
  <2>4. ASSUME NEW r \in Requests, Sweep(r) PROVE UNCHANGED G!vars
    BY <2>1, <2>4 DEF Sweep, Inserting, history
  <2>5. ASSUME NEW r \in Requests, Commit(r) PROVE G!Next
    BY <2>5, CommitRefines DEF G!Next
  <2>6. ASSUME NEW r \in Requests, Abort(r) PROVE G!Next \/ UNCHANGED G!vars
    BY <2>0, <2>6, AbortRefines DEF G!Next
  <2>7. ASSUME NEW r \in Requests, CreateUser(r) PROVE UNCHANGED G!vars
    BY <2>1, <2>7 DEF CreateUser, Inserting, history
  <2>8. CASE UNCHANGED vars
    BY <2>8, Stutter DEF vars, history, Inserting
  <2> QED
    BY <2>2, <2>3, <2>4, <2>5, <2>6, <2>7, <2>8 DEF Next
<1> QED
  BY <1>1, <1>2, Invariance, PTL DEF Spec, G!Spec, SettingsAreRegular
=============================================================================
