------------------------------ MODULE Content -------------------------------
(***************************************************************************)
(* Vaults, the items in them and the versions of those: VaultsService and  *)
(* ItemsService with their database services, over the tables of           *)
(* 000-v1-schema.sql.                                                      *)
(*                                                                         *)
(* A request looks a row up, checks the rules against the owner it found,  *)
(* perhaps looks up more, and then executes its statements.  Every query   *)
(* is awaited, and none shares a transaction with another, so everything   *)
(* may have changed between two of them.  The ids of all rows are chosen   *)
(* by clients: ids of different tables may coincide, and the id of a       *)
(* deleted row may be used again.                                          *)
(***************************************************************************)
EXTENDS AccessControl, Naturals

CONSTANTS
  Requests,  \* request slots: one handler runs in each at a time
  Users,     \* the accounts there are at first, all of them verified
  Admins,    \* those with the role admin; the server never changes a role
  Ids,       \* the ids clients choose from, for rows of any table
  MaxRows,   \* bound on the number of rows inserted
  NoRow,     \* an id that a table has no row of
  NoCall,    \* what a slot without a handler is doing
  Nobody     \* the owner of what does not exist

ASSUME AdminsAssumption == Admins \subseteq Users
ASSUME MaxRowsAssumption == MaxRows \in Nat
ASSUME NobodyAssumption == Nobody \notin Users

VARIABLES
  users,     \* ids in the users table
  vaults,    \* vaults by id
  items,     \* items by id
  versions,  \* item versions by id
  call,      \* the handler that runs in a slot
  recycled,  \* history: the ids of rows that have been deleted
  inserted   \* history: how many rows have been inserted

vars == <<users, vaults, items, versions, call, recycled, inserted>>

(***************************************************************************)
(* Operations: what each of them may be refused for, by the permissions it *)
(* needs from the owner of the row it is about, and what it does then.     *)
(***************************************************************************)
Rights ==
  [createVault   |-> {<<"vaults", "create">>},
   getVault      |-> {<<"vaults", "retrieve">>},
   updateVault   |-> {<<"vaults", "update">>},
   deleteVault   |-> {<<"vaults", "delete">>},
   createItem    |-> {<<"vaults", "retrieve">>, <<"item", "create">>},
   getItem       |-> {<<"item", "retrieve">>},
   getItems      |-> {<<"vaults", "retrieve">>, <<"item", "retrieve">>},
   deleteItem    |-> {<<"item", "retrieve">>, <<"item-version", "delete">>},
   createVersion |-> {<<"item", "retrieve">>, <<"item-version", "create">>},
   getVersion    |-> {<<"item-version", "retrieve">>},
   deleteVersion |-> {<<"item-version", "retrieve">>, <<"item-version", "delete">>}]

\* The query a request makes once the rules have been checked.
First ==
  [createVault   |-> "insertVault",
   getVault      |-> "return",
   updateVault   |-> "updateVault",
   deleteVault   |-> "deleteVault",
   createItem    |-> "insertItem",
   getItem       |-> "return",
   getItems      |-> "countItems",
   deleteItem    |-> "markDeleted",
   createVersion |-> "insertVersion",
   getVersion    |-> "return",
   deleteVersion |-> "getItem"]

Ops == DOMAIN First

Queries ==
  {"target", "insertVault", "updateVault", "deleteVault", "insertItem", "countItems",
   "markDeleted", "deleteVersions", "insertVersion", "getItem", "updateVersion"}

\* The user context of an access token.  Verification comes and goes with the
\* address of an account, so there may be tokens with and without it.
RoleOf(u) == IF u \in Admins THEN "admin" ELSE "user"

Contexts == [id : Users, role : Roles, verified : BOOLEAN]

\* by: who calls.  at: the query that comes next.  then: what follows the read of the
\* target.  owner: the owner of the row the request is about, as looked up.  hit: the
\* first statement of deleteItem has found a row.
Call ==
  [by : Users, id : Ids, in : Ids, at : Queries, then : Queries \cup {"return"},
   owner : Users, itemOwner : Users \cup {Nobody}, hit : BOOLEAN]

ASSUME NoCallAssumption == NoCall \notin Call

\* deleted stands for deleted_at, and of a version also for the NULL in
\* protected_data, which the same statement sets.
Vault == [owner : Users, deleted : BOOLEAN]
Item == [vault : Ids]
Version == [item : Ids, deleted : BOOLEAN]

ASSUME NoRowAssumption == NoRow \notin Vault \cup Item \cup Version

TypeOK ==
  /\ users \subseteq Users
  /\ vaults \in [Ids -> Vault \cup {NoRow}]
  /\ items \in [Ids -> Item \cup {NoRow}]
  /\ versions \in [Ids -> Version \cup {NoRow}]
  /\ call \in [Requests -> Call \cup {NoCall}]
  /\ recycled \subseteq Ids
  /\ inserted \in Nat

Init ==
  /\ users = Users
  /\ vaults = [i \in Ids |-> NoRow]
  /\ items = [i \in Ids |-> NoRow]
  /\ versions = [i \in Ids |-> NoRow]
  /\ call = [r \in Requests |-> NoCall]
  /\ recycled = {}
  /\ inserted = 0

(***************************************************************************)
(* Looking up.  Items and versions are joined with the vault whose owner   *)
(* the rules are about.                                                    *)
(***************************************************************************)
VaultOwner(i) == IF vaults[i] = NoRow THEN Nobody ELSE vaults[i].owner
ItemOwner(i) == IF items[i] = NoRow THEN Nobody ELSE VaultOwner(items[i].vault)

VaultOwners(i) == {VaultOwner(i)} \ {Nobody}
ItemOwners(i) == {ItemOwner(i)} \ {Nobody}

\* The condition that should join a version with its item compares item_id with
\* itself: any item of the table will do, and the first row of the result counts.
VersionOwners(i) == IF versions[i] = NoRow THEN {} ELSE UNION {ItemOwners(j) : j \in Ids}

\* The owners the first lookup of a request may yield; none is a 404.  A new
\* vault names its owner itself.
OwnersFor(op, i, in) ==
  CASE op = "createVault" -> Users
    [] op \in {"getVault", "updateVault", "deleteVault", "getItems"} -> VaultOwners(i)
    [] op = "createItem" -> VaultOwners(in)
    [] op \in {"getItem", "deleteItem"} -> ItemOwners(i)
    [] op = "createVersion" -> ItemOwners(in)
    [] op \in {"getVersion", "deleteVersion"} -> VersionOwners(i)

(***************************************************************************)
(* The steps of a handler.                                                 *)
(***************************************************************************)
\* The handler c in r goes on with query q, or is done.
Continue(r, c, q) ==
  call' = [call EXCEPT ![r] = IF q = "return" THEN NoCall
                              ELSE [c EXCEPT !.at = q, !.then = "return"]]

\* The same, once the owners of the resources, as far as they are other users, have
\* been read.
ContinueChecked(r, c, reads, q) ==
  IF reads
    THEN call' = [call EXCEPT ![r] = [c EXCEPT !.at = "target", !.then = q]]
    ELSE Continue(r, c, q)

Return(r) == call' = [call EXCEPT ![r] = NoCall]

\* The handler in r is about to make query q.
At(r, q) == call[r] # NoCall /\ call[r].at = q

\* A handler whose request has just been looked up.
Received(ctx, i, in, o) ==
  [by |-> ctx.id, id |-> i, in |-> in, at |-> "target", then |-> "return", owner |-> o,
   itemOwner |-> Nobody, hit |-> FALSE]

\* Slip: the requester's permissions are looked at, not whose the resource is.
ReceiveAnyones(r, op, ctx, i, in) ==
  /\ call[r] = NoCall
  /\ ctx.role = RoleOf(ctx.id)
  /\ in # i => op \in {"createItem", "createVersion"}
  /\ \E o \in OwnersFor(op, i, in) :
       /\ \A right \in Rights[op] : Permitted(ctx, right[1], right[2], ctx.id)
       /\ Continue(r, Received(ctx, i, in, o), First[op])
  /\ UNCHANGED <<users, vaults, items, versions, recycled, inserted>>

\* A request with a valid access token arrives, and makes its first lookup.  The rules
\* are checked as soon as that has returned; only when the resources are somebody
\* else's is that user read before the request goes on.  A request for several ids
\* does to each what a request for one does.  Only an item or a version that is
\* created names the row it goes into.
Receive(r, op, ctx, i, in) ==
  /\ call[r] = NoCall
  /\ ctx.role = RoleOf(ctx.id)
  /\ in # i => op \in {"createItem", "createVersion"}
  /\ \E o \in OwnersFor(op, i, in) :
       /\ \A right \in Rights[op] : Permitted(ctx, right[1], right[2], o)
       /\ ContinueChecked(r, Received(ctx, i, in, o), ReadsTarget(ctx, o), First[op])
  /\ UNCHANGED <<users, vaults, items, versions, recycled, inserted>>

\* The target of the request is there.  Whether it is verified at this moment is left
\* open: if not, the request fails.  One read stands for the reads of several checks,
\* because an account that is gone does not come back.
ReadTarget(r) ==
  /\ At(r, "target")
  /\ {call[r].owner, call[r].itemOwner} \ {Nobody} \subseteq users \cup {call[r].by}
  /\ Continue(r, call[r], call[r].then)
  /\ UNCHANGED <<users, vaults, items, versions, recycled, inserted>>

\* deleteVersion looks for an item under the id of the version.
GetItem(r) ==
  /\ At(r, "getItem")
  /\ LET c == call[r]
         ctx == [id |-> c.by, role |-> RoleOf(c.by), verified |-> TRUE] IN
       \E o \in ItemOwners(c.id) :
         /\ Permitted(ctx, "item", "retrieve", o)
         /\ ContinueChecked(r, [c EXCEPT !.itemOwner = o],
                            ReadsTarget(ctx, o) \/ ReadsTarget(ctx, c.owner), "updateVersion")
  /\ UNCHANGED <<users, vaults, items, versions, recycled, inserted>>

\* The handler answers with an error, after a lookup or a check that fails or a
\* statement the database rejects; or the process dies.
Fail(r) ==
  /\ call[r] # NoCall
  /\ Return(r)
  /\ UNCHANGED <<users, vaults, items, versions, recycled, inserted>>

(***************************************************************************)
(* Statements.  Each is executed with the database's constraints: primary  *)
(* keys, foreign keys, and deletions that cascade.  A statement whose      *)
(* constraint does not hold is not executed, and Fail answers; so does it  *)
(* for "countItems", which the database always rejects (an ORDER BY beside *)
(* an aggregate).                                                          *)
(***************************************************************************)
Without(table, gone) == [i \in Ids |-> IF i \in gone THEN NoRow ELSE table[i]]

ItemsIn(gone) == {i \in Ids : items[i] # NoRow /\ items[i].vault \in gone}
VersionsOf(gone) == {i \in Ids : versions[i] # NoRow /\ versions[i].item \in gone}

\* Slip: the deletion does not cascade.
DropVaultsOnly(gone) ==
  /\ vaults' = Without(vaults, gone)
  /\ recycled' = recycled \cup gone
  /\ UNCHANGED <<items, versions>>

\* The vaults go, with their items and the versions of those.
DropVaults(gone) ==
  /\ vaults' = Without(vaults, gone)
  /\ items' = Without(items, ItemsIn(gone))
  /\ versions' = Without(versions, VersionsOf(ItemsIn(gone)))
  /\ recycled' = recycled \cup gone \cup ItemsIn(gone) \cup VersionsOf(ItemsIn(gone))

Inserts ==
  /\ inserted < MaxRows
  /\ inserted' = inserted + 1

\* Slip: the row gets the wrong one of the two owners.
InsertVaultUnowned(r) ==
  /\ At(r, "insertVault")
  /\ LET c == call[r] IN
       /\ vaults[c.id] = NoRow
       /\ c.owner \in users
       /\ vaults' = [vaults EXCEPT ![c.id] = [owner |-> c.itemOwner, deleted |-> FALSE]]
  /\ Inserts
  /\ Return(r)
  /\ UNCHANGED <<users, items, versions, recycled>>

InsertVault(r) ==
  /\ At(r, "insertVault")
  /\ LET c == call[r] IN
       /\ vaults[c.id] = NoRow
       /\ c.owner \in users
       /\ vaults' = [vaults EXCEPT ![c.id] = [owner |-> c.owner, deleted |-> FALSE]]
  /\ Inserts
  /\ Return(r)
  /\ UNCHANGED <<users, items, versions, recycled>>

\* Only the name, the key and the data of a vault can be updated, none of which is
\* modelled.
UpdateVault(r) ==
  /\ At(r, "updateVault")
  /\ vaults[call[r].id] # NoRow
  /\ Return(r)
  /\ UNCHANGED <<users, vaults, items, versions, recycled, inserted>>

DeleteVault(r) ==
  /\ At(r, "deleteVault")
  /\ vaults[call[r].id] # NoRow
  /\ DropVaults({call[r].id})
  /\ Return(r)
  /\ UNCHANGED <<users, inserted>>

InsertItem(r) ==
  /\ At(r, "insertItem")
  /\ LET c == call[r] IN
       /\ items[c.id] = NoRow
       /\ vaults[c.in] # NoRow
       /\ items' = [items EXCEPT ![c.id] = [vault |-> c.in]]
  /\ Inserts
  /\ Return(r)
  /\ UNCHANGED <<users, vaults, versions, recycled>>

\* The first statement of deleteItem updates the vaults table, with the id of the
\* item.
MarkDeleted(r) ==
  /\ At(r, "markDeleted")
  /\ LET i == call[r].id
         hit == vaults[i] # NoRow IN
       /\ vaults' = IF hit THEN [vaults EXCEPT ![i].deleted = TRUE] ELSE vaults
       /\ Continue(r, [call[r] EXCEPT !.hit = hit], "deleteVersions")
  /\ UNCHANGED <<users, items, versions, recycled, inserted>>

\* The second deletes the versions; the answer is 404 unless the first hit a row.
DeleteVersions(r) ==
  /\ At(r, "deleteVersions")
  /\ LET gone == VersionsOf({call[r].id}) IN
       /\ versions' = Without(versions, gone)
       /\ recycled' = recycled \cup gone
  /\ Return(r)
  /\ UNCHANGED <<users, vaults, items, inserted>>

InsertVersion(r) ==
  /\ At(r, "insertVersion")
  /\ LET c == call[r] IN
       /\ versions[c.id] = NoRow
       /\ items[c.in] # NoRow
       /\ versions' = [versions EXCEPT ![c.id] = [item |-> c.in, deleted |-> FALSE]]
  /\ Inserts
  /\ Return(r)
  /\ UNCHANGED <<users, vaults, items, recycled>>

\* A deleted version stays as a row without data.
UpdateVersion(r) ==
  /\ At(r, "updateVersion")
  /\ versions[call[r].id] # NoRow
  /\ versions' = [versions EXCEPT ![call[r].id].deleted = TRUE]
  /\ Return(r)
  /\ UNCHANGED <<users, vaults, items, recycled, inserted>>

\* An account is deleted (UsersService.delete), with everything it owns.  Handlers
\* that run for it go on, and its access tokens are good until they expire.
DeleteUser(u) ==
  /\ u \in users
  /\ users' = users \ {u}
  /\ DropVaults({i \in Ids : VaultOwner(i) = u})
  /\ UNCHANGED <<call, inserted>>

Next ==
  \/ \E r \in Requests, op \in Ops, ctx \in Contexts, i, in \in Ids : Receive(r, op, ctx, i, in)
  \/ \E r \in Requests :
       \/ ReadTarget(r)
       \/ GetItem(r)
       \/ InsertVault(r)
       \/ UpdateVault(r)
       \/ DeleteVault(r)
       \/ InsertItem(r)
       \/ MarkDeleted(r)
       \/ DeleteVersions(r)
       \/ InsertVersion(r)
       \/ UpdateVersion(r)
       \/ Fail(r)
  \/ \E u \in Users : DeleteUser(u)

Spec == Init /\ [][Next]_vars

(***************************************************************************)
(* Properties.                                                             *)
(***************************************************************************)
\* Whatever is deleted under a handler that has looked it up, nothing is left
\* without what it hangs from: a vault has an account, an item a vault, a version
\* an item.
ReferentialIntegrity ==
  \A i \in Ids :
    /\ vaults[i] # NoRow => vaults[i].owner \in users
    /\ items[i] # NoRow => vaults[items[i].vault] # NoRow
    /\ versions[i] # NoRow => items[versions[i].item] # NoRow

\* The things of Ownership, and whose they are.
Things == {"vault", "item", "version"} \X Ids

VersionOwner(i) == IF versions[i] = NoRow THEN Nobody ELSE ItemOwner(versions[i].item)

OwnerOf(t) ==
  CASE t[1] = "vault" -> VaultOwner(t[2])
    [] t[1] = "item" -> ItemOwner(t[2])
    [] t[1] = "version" -> VersionOwner(t[2])

belongings == {<<t, OwnerOf(t)>> : t \in {x \in Things : OwnerOf(x) # Nobody}}

O == INSTANCE Ownership WITH Owners <- Users

\* The tables implement Ownership: nothing in a vault, an item or the history of
\* one ever passes to another user, not by writes that overlap a deletion, nor by
\* an id that is used again after it.
ContentNeverChangesHands == O!Spec

\* The row a statement changes or deletes, or the one an insert hangs its row from.
\* Of deleteVersions it is the item, all versions of which go.
Target(c) ==
  <<CASE c.at \in {"insertVersion", "deleteVersions"} -> "item"
      [] c.at = "updateVersion" -> "version"
      [] OTHER -> "vault",
    IF c.at \in {"insertItem", "insertVersion"} THEN c.in ELSE c.id>>

\* That row is gone, or belongs to the requester, or the requester is an administrator,
\* unless the id of the row has been used before.
InOrder(c) ==
  \/ OwnerOf(Target(c)) \in {Nobody, c.by}
  \/ Target(c)[2] \in recycled
  \/ c.by \in Admins

\* The five statements that act on the row the rules were checked for.  The other two
\* do not: markDeleted updates the vault under the id of an item that was checked, and
\* updateVersion a version for which the owner of any item has answered.
OnCheckedRow == {"updateVault", "deleteVault", "insertItem", "insertVersion", "deleteVersions"}

\* The rules are checked against a row read some queries earlier, and everything may
\* have changed since; yet when a statement on the row that was checked is to be
\* executed, it is in order.  This leaves out markDeleted and updateVersion, which need
\* not be: see ScopesAreKept.
StatementsAreEntitled ==
  \A r \in Requests : (\E q \in OnCheckedRow : At(r, q)) => InOrder(call[r])

\* permissions.ts:19 of what a plain user is permitted: "Scopes limited to the current
\* user".  All seven statements that change, delete or add to something are in order.
\* Of deleteItem the first is not, when its item has the id of somebody else's vault; nor
\* is that of deleteVersion, when the requester owns some item and one that has the id of
\* the version.
ScopesAreKept ==
  \A r \in Requests :
    (\E q \in OnCheckedRow \cup {"markDeleted", "updateVersion"} : At(r, q)) => InOrder(call[r])
=============================================================================
