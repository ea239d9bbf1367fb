------------------------------ MODULE Settings ------------------------------
(***************************************************************************)
(* The server settings and the registration they gate:                     *)
(* ServerManagementService (server.service.ts), its database service, the  *)
(* trigger on the settings table (000-v1-schema.sql), and                  *)
(* UsersService.create.                                                    *)
(*                                                                         *)
(* The settings are kept as rows: an update inserts a row, and a trigger   *)
(* deletes the rows created before it; a read takes the oldest row there   *)
(* is, and inserts a default row if there is none.  Each query runs in a   *)
(* transaction of its own on one of the pool's connections, so the inserts *)
(* of concurrent requests overlap: created_at is the time the transaction  *)
(* began, the trigger sees what is committed when it runs, and the others  *)
(* see nothing before the commit.                                          *)
(***************************************************************************)
EXTENDS Naturals

CONSTANTS
  Requests,  \* request slots: one handler runs in each at a time
  MaxClock,  \* bound on the number of inserts
  NoRow      \* the row of a slot that is inserting none

ASSUME ClockAssumption == MaxClock \in Nat

VARIABLES
  clock,       \* the database's clock, in which no two transactions begin together
  rows,        \* committed rows of the settings table
  pc,          \* where the handler in a slot is
  op,          \* which handler it is
  row,         \* the row its transaction inserts
  victims,     \* the rows its trigger deletes
  known,       \* history: the rows that were committed when its insert began
  superseded,  \* history: rows some insert committed after, having begun after them
  opened,      \* history: an administrator's update has enabled registration
  registered   \* a user account has been created

history == <<superseded, opened>>
vars == <<clock, rows, pc, op, row, victims, known, history, registered>>

Row == [at : Nat, enabled : BOOLEAN, by : {"admin", "default"}]

ASSUME NoRowAssumption == NoRow \notin Row

Ops == {"info", "register", "update"}

\* read: about to select.  populate: about to insert the default.  inserted: the
\* row is there, the trigger has not run.  swept: it has, the commit is to come.
\* create: the password is being hashed and the user inserted.
PCs == {"idle", "read", "populate", "inserted", "swept", "create"}

TypeOK ==
  /\ clock \in Nat
  /\ rows \subseteq Row
  /\ pc \in [Requests -> PCs]
  /\ op \in [Requests -> Ops]
  /\ row \in [Requests -> Row \cup {NoRow}]
  /\ \A r \in Requests : pc[r] \in {"inserted", "swept"} => row[r] \in Row
  /\ victims \in [Requests -> SUBSET Row]
  /\ known \in [Requests -> SUBSET Row]
  /\ superseded \subseteq Row
  /\ opened \in BOOLEAN
  /\ registered \in BOOLEAN

\* A new installation: the table is empty, and so far there are no accounts but
\* the administrator's.
Init ==
  /\ clock = 0
  /\ rows = {}
  /\ pc = [r \in Requests |-> "idle"]
  /\ op = [r \in Requests |-> "info"]
  /\ row = [r \in Requests |-> NoRow]
  /\ victims = [r \in Requests |-> {}]
  /\ known = [r \in Requests |-> {}]
  /\ superseded = {}
  /\ opened = FALSE
  /\ registered = FALSE

Goto(r, l) == pc' = [pc EXCEPT ![r] = l]

Forget(r) ==
  /\ row' = [row EXCEPT ![r] = NoRow]
  /\ victims' = [victims EXCEPT ![r] = {}]
  /\ known' = [known EXCEPT ![r] = {}]

(***************************************************************************)
(* Reading: ORDER BY created_at LIMIT 1.                                   *)
(***************************************************************************)
Oldest == {x \in rows : \A y \in rows : x.at <= y.at}

\* Where a handler goes on with the settings it was given.
AfterSettings(o, enabled) == IF o = "register" /\ enabled THEN "create" ELSE "idle"

\* getInfo, getSettings or UsersService.create asks for the settings.
Request(r, o) ==
  /\ pc[r] = "idle"
  /\ Goto(r, "read")
  /\ op' = [op EXCEPT ![r] = o]
  /\ UNCHANGED <<clock, rows, row, victims, known, history, registered>>

\* _UNSAFE_getSettings
ReadSettings(r) ==
  /\ pc[r] = "read"
  /\ \/ rows = {} /\ Goto(r, "populate")
     \/ \E x \in Oldest : Goto(r, AfterSettings(op[r], x.enabled))
  /\ UNCHANGED <<clock, rows, op, row, victims, known, history, registered>>

(***************************************************************************)
(* Writing: INSERT INTO settings.                                          *)
(***************************************************************************)
\* Slip: the row is not kept with the request that inserts it.
BeginNamelessly(r, enabled, by) ==
  /\ clock < MaxClock
  /\ clock' = clock + 1
  /\ Goto(r, "inserted")
  /\ known' = [known EXCEPT ![r] = rows]
  /\ UNCHANGED <<rows, row, victims, history, registered>>

Begin(r, enabled, by) ==
  /\ clock < MaxClock
  /\ clock' = clock + 1
  /\ Goto(r, "inserted")
  /\ row' = [row EXCEPT ![r] = [at |-> clock, enabled |-> enabled, by |-> by]]
  /\ known' = [known EXCEPT ![r] = rows]
  /\ UNCHANGED <<rows, victims, history, registered>>

\* updateSettings, for an authenticated administrator.
Update(r, enabled) ==
  /\ pc[r] = "idle"
  /\ op' = [op EXCEPT ![r] = "update"]
  /\ Begin(r, enabled, "admin")

\* Slip: a new server is open to everyone.
PopulateEnabled(r) ==
  /\ pc[r] = "populate"
  /\ Begin(r, TRUE, "default")
  /\ UNCHANGED op

\* The default for a table that was empty when it was read.
Populate(r) ==
  /\ pc[r] = "populate"
  /\ Begin(r, FALSE, "default")
  /\ UNCHANGED op

\* Slip: the row before is the only one there can be.
PreviousRow(x) == {y \in Oldest : y.at < x.at}

\* delete_older_rows: what its DELETE finds, the new row among the candidates.
OlderRows(x) == {y \in rows \cup {x} : y.at < x.at}

\* Slip: the older rows are deleted in a transaction of their own.
SweepAtOnce(r) ==
  /\ pc[r] = "inserted"
  /\ rows' = rows \ OlderRows(row[r])
  /\ Goto(r, "swept")
  /\ UNCHANGED <<clock, op, row, victims, known, history, registered>>

Sweep(r) ==
  /\ pc[r] = "inserted"
  /\ victims' = [victims EXCEPT ![r] = OlderRows(row[r])]
  /\ Goto(r, "swept")
  /\ UNCHANGED <<clock, rows, op, row, known, history, registered>>

Commit(r) ==
  /\ pc[r] = "swept"
  /\ rows' = (rows \cup {row[r]}) \ victims[r]
  /\ superseded' = superseded \cup known[r]
  /\ opened' = (opened \/ (row[r].enabled /\ row[r].by = "admin"))
  /\ Goto(r, AfterSettings(op[r], row[r].enabled))
  /\ Forget(r)
  /\ UNCHANGED <<clock, op, registered>>

\* Slip: what the trigger has deleted stays deleted.
AbortHalfway(r) ==
  /\ pc[r] # "idle"
  /\ rows' = rows \ victims[r]
  /\ Goto(r, "idle")
  /\ Forget(r)
  /\ UNCHANGED <<clock, op, history, registered>>

\* The query fails or the process dies: nothing of the transaction is left.
Abort(r) ==
  /\ pc[r] # "idle"
  /\ Goto(r, "idle")
  /\ Forget(r)
  /\ UNCHANGED <<clock, rows, op, history, registered>>

(***************************************************************************)
(* UsersService.create, once the settings allow it.                        *)
(***************************************************************************)
CreateUser(r) ==
  /\ pc[r] = "create"
  /\ registered' = TRUE
  /\ Goto(r, "idle")
  /\ UNCHANGED <<clock, rows, op, row, victims, known, history>>

Next ==
  \E r \in Requests :
    \/ \E o \in {"info", "register"} : Request(r, o)
    \/ ReadSettings(r)
    \/ \E enabled \in BOOLEAN : Update(r, enabled)
    \/ Populate(r) \/ Sweep(r) \/ Commit(r) \/ Abort(r)
    \/ CreateUser(r)

Spec == Init /\ [][Next]_vars

(***************************************************************************)
(* Properties.                                                             *)
(***************************************************************************)
\* Settings are never read that were already in force when an update began that
\* has since succeeded: although a read takes the oldest row and overlapping
\* inserts do not see each other, an update is never undone by what it replaced
\* (delete_older_rows, getSettings).
StaleSettingsAreGone == rows \cap superseded = {}

\* Once there are settings there always are some, whichever inserts overlap: the
\* default is populated at most while the installation is new.
SettingsStay == [][rows # {} => rows' # {}]_vars

\* Nobody registers on a server before an administrator has enabled it, however
\* the first requests race to populate the default (UsersService.create).
RegistrationNeedsAdministrator == registered => opened

\* The requests whose transaction is under way.
Inserting(r) == pc[r] \in {"inserted", "swept"}

G == INSTANCE RegularRegister WITH
  Writers  <- Requests,
  current  <- rows,
  replaced <- superseded,
  writing  <- {r \in Requests : Inserting(r)},
  before   <- [r \in Requests |-> IF Inserting(r) THEN known[r] ELSE {}]

\* The settings are a regular register, though they are kept as rows that a trigger
\* deletes: each update that succeeds is there when it ends and has replaced all
\* that was there when it began, for good, and one that fails leaves no trace.
SettingsAreRegular == G!Spec
=============================================================================
