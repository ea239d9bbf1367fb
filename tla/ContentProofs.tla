--------------------------- MODULE ContentProofs ----------------------------
(***************************************************************************)
(* Theorems about Content, for any number of requests, users, ids and      *)
(* rows.                                                                   *)
(***************************************************************************)
EXTENDS Content, AccessControlProofs, TLAPS

(***************************************************************************)
(* Types.                                                                  *)
(***************************************************************************)
\* The operations by name.
LEMMA OpNames ==
  Ops = {"createVault", "getVault", "updateVault", "deleteVault", "createItem", "getItem",
         "getItems", "deleteItem", "createVersion", "getVersion", "deleteVersion"}
BY DEF Ops, First

\* What an operation does first is a query, or nothing.
LEMMA FirstTypes ==
  ASSUME NEW op \in Ops
  PROVE  First[op] \in Queries \cup {"return"}
BY OpNames DEF First, Queries

\* What Continue and ContinueChecked make of a slot is a call, or none.
LEMMA ContinueTypes ==
  ASSUME NEW r \in Requests, NEW c \in Call, NEW q \in Queries \cup {"return"}, TypeOK,
         NEW reads \in BOOLEAN,
         Continue(r, c, q) \/ ContinueChecked(r, c, reads, q)
  PROVE  call' \in [Requests -> Call \cup {NoCall}]
<1>1. q # "return" => [c EXCEPT !.at = q, !.then = "return"] \in Call
  BY DEF Call
<1>2. [c EXCEPT !.at = "target", !.then = q] \in Call
  BY DEF Call, Queries
<1>3. CASE Continue(r, c, q)
  BY <1>1, <1>3 DEF Continue, TypeOK
<1>4. CASE call' = [call EXCEPT ![r] = [c EXCEPT !.at = "target", !.then = q]]
  BY <1>2, <1>4 DEF TypeOK
<1> QED
  BY <1>3, <1>4 DEF ContinueChecked

\* A handler that returns leaves its slot free.
LEMMA ReturnTypes ==
  ASSUME NEW r \in Requests, TypeOK, Return(r)
  PROVE  call' \in [Requests -> Call \cup {NoCall}]
BY DEF Return, TypeOK

\* The owner a lookup finds is a user.
LEMMA OwnerTypes ==
  ASSUME TypeOK
  PROVE  /\ \A i \in Ids : VaultOwner(i) \in Users \cup {Nobody}
         /\ \A i \in Ids : ItemOwner(i) \in Users \cup {Nobody}
BY NoRowAssumption DEF TypeOK, VaultOwner, ItemOwner, Vault, Item

\* The owners the first lookup may yield are users.
LEMMA LookupTypes ==
  ASSUME TypeOK, NEW op \in Ops, NEW i \in Ids, NEW in \in Ids
  PROVE  OwnersFor(op, i, in) \subseteq Users
<1>1. VaultOwners(i) \subseteq Users /\ VaultOwners(in) \subseteq Users
  BY OwnerTypes DEF VaultOwners
<1>2. \A j \in Ids : ItemOwners(j) \subseteq Users
  BY OwnerTypes DEF ItemOwners
<1>3. VersionOwners(i) \subseteq Users
  BY <1>2 DEF VersionOwners
<1> QED
  BY <1>1, <1>2, <1>3, OpNames DEF OwnersFor

\* A deletion with its cascade leaves the tables well typed.
LEMMA DropTypes ==
  ASSUME TypeOK, NEW gone \in SUBSET Ids, DropVaults(gone)
  PROVE  /\ vaults' \in [Ids -> Vault \cup {NoRow}]
         /\ items' \in [Ids -> Item \cup {NoRow}]
         /\ versions' \in [Ids -> Version \cup {NoRow}]
         /\ recycled' \subseteq Ids
BY DEF TypeOK, DropVaults, Without, ItemsIn, VersionsOf

\* The handler that is about to make a query.
LEMMA AtCall ==
  ASSUME TypeOK, NEW r \in Requests, NEW q, At(r, q)
  PROVE  call[r] \in Call
BY DEF TypeOK, At

\* Every step keeps the types.
LEMMA TypeStep ==
  ASSUME TypeOK, [Next]_vars
  PROVE  TypeOK'
<1>1. CASE UNCHANGED vars
  BY <1>1 DEF TypeOK, vars
<1>2. ASSUME NEW r \in Requests, NEW op \in Ops, NEW ctx \in Contexts,
             NEW i \in Ids, NEW in \in Ids, Receive(r, op, ctx, i, in)
      PROVE  TypeOK'
  <2>1. PICK o \in OwnersFor(op, i, in) :
          ContinueChecked(r, Received(ctx, i, in, o), ReadsTarget(ctx, o), First[op])
    BY <1>2 DEF Receive
  <2>2. Received(ctx, i, in, o) \in Call
    BY LookupTypes DEF Received, Call, Contexts, Queries
  <2>3. call' \in [Requests -> Call \cup {NoCall}]
    BY <2>1, <2>2, FirstTypes, ContinueTypes DEF ReadsTarget
  <2> QED
    BY <1>2, <2>3 DEF TypeOK, Receive
<1>3. ASSUME NEW r \in Requests, ReadTarget(r)
      PROVE  TypeOK'
  <2>1. call[r] \in Call /\ call[r].then \in Queries \cup {"return"}
    BY <1>3, AtCall DEF ReadTarget, Call
  <2>2. call' \in [Requests -> Call \cup {NoCall}]
    BY <1>3, <2>1, ContinueTypes DEF ReadTarget
  <2> QED
    BY <1>3, <2>2 DEF TypeOK, ReadTarget
<1>4. ASSUME NEW r \in Requests, GetItem(r)
      PROVE  TypeOK'
  <2>1. call[r] \in Call /\ call[r].id \in Ids
    BY <1>4, AtCall DEF GetItem, Call
  <2>2. PICK o \in ItemOwners(call[r].id) :
          ContinueChecked(r, [call[r] EXCEPT !.itemOwner = o],
                          call[r].by # o \/ call[r].by # call[r].owner, "updateVersion")
    BY <1>4 DEF GetItem, ReadsTarget
  <2>3. [call[r] EXCEPT !.itemOwner = o] \in Call
    BY <2>1, OwnerTypes DEF Call, ItemOwners
  <2>4. call' \in [Requests -> Call \cup {NoCall}]
    BY <2>2, <2>3, ContinueTypes DEF Queries
  <2> QED
    BY <1>4, <2>4 DEF TypeOK, GetItem
<1>5. ASSUME NEW r \in Requests, InsertVault(r)
      PROVE  TypeOK'
  <2>1. call[r] \in Call /\ call[r].id \in Ids /\ call[r].owner \in Users
    BY <1>5, AtCall DEF InsertVault, Call
  <2>2. vaults' \in [Ids -> Vault \cup {NoRow}]
    BY <1>5, <2>1 DEF InsertVault, TypeOK, Vault
  <2> QED
    BY <1>5, <2>2, ReturnTypes DEF InsertVault, Inserts, TypeOK
<1>6. ASSUME NEW r \in Requests, UpdateVault(r)
      PROVE  TypeOK'
  BY <1>6, ReturnTypes DEF UpdateVault, TypeOK
<1>7. ASSUME NEW r \in Requests, DeleteVault(r)
      PROVE  TypeOK'
  <2>1. {call[r].id} \in SUBSET Ids
    BY <1>7, AtCall DEF DeleteVault, Call
  <2> QED
    BY <1>7, <2>1, DropTypes, ReturnTypes DEF DeleteVault, TypeOK
<1>8. ASSUME NEW r \in Requests, InsertItem(r)
      PROVE  TypeOK'
  <2>1. call[r] \in Call /\ call[r].id \in Ids /\ call[r].in \in Ids
    BY <1>8, AtCall DEF InsertItem, Call
  <2>2. items' \in [Ids -> Item \cup {NoRow}]
    BY <1>8, <2>1 DEF InsertItem, TypeOK, Item
  <2> QED
    BY <1>8, <2>2, ReturnTypes DEF InsertItem, Inserts, TypeOK
<1>9. ASSUME NEW r \in Requests, MarkDeleted(r)
      PROVE  TypeOK'
  <2>1. call[r] \in Call /\ call[r].id \in Ids
    BY <1>9, AtCall DEF MarkDeleted, Call
  <2>2. vaults' \in [Ids -> Vault \cup {NoRow}]
    <3>1. vaults[call[r].id] # NoRow
            => [vaults[call[r].id] EXCEPT !.deleted = TRUE] \in Vault
      BY <2>1 DEF TypeOK, Vault
    <3> QED
      BY <1>9, <2>1, <3>1 DEF MarkDeleted, TypeOK
  <2>3. [call[r] EXCEPT !.hit = (vaults[call[r].id] # NoRow)] \in Call
    BY <2>1 DEF Call
  <2>4. Continue(r, [call[r] EXCEPT !.hit = (vaults[call[r].id] # NoRow)], "deleteVersions")
    BY <1>9 DEF MarkDeleted
  <2>5. call' \in [Requests -> Call \cup {NoCall}]
    BY <2>3, <2>4, ContinueTypes DEF Queries
  <2> QED
    BY <1>9, <2>2, <2>5 DEF MarkDeleted, TypeOK
<1>10. ASSUME NEW r \in Requests, DeleteVersions(r)
       PROVE  TypeOK'
  BY <1>10, ReturnTypes DEF DeleteVersions, TypeOK, Without, VersionsOf
<1>11. ASSUME NEW r \in Requests, InsertVersion(r)
       PROVE  TypeOK'
  <2>1. call[r] \in Call /\ call[r].id \in Ids /\ call[r].in \in Ids
    BY <1>11, AtCall DEF InsertVersion, Call
  <2>2. versions' \in [Ids -> Version \cup {NoRow}]
    BY <1>11, <2>1 DEF InsertVersion, TypeOK, Version
  <2> QED
    BY <1>11, <2>2, ReturnTypes DEF InsertVersion, Inserts, TypeOK
<1>12. ASSUME NEW r \in Requests, UpdateVersion(r)
       PROVE  TypeOK'
  <2>1. call[r] \in Call /\ call[r].id \in Ids
    BY <1>12, AtCall DEF UpdateVersion, Call
  <2>2. [versions[call[r].id] EXCEPT !.deleted = TRUE] \in Version
    BY <1>12, <2>1 DEF UpdateVersion, TypeOK, Version
  <2>3. versions' \in [Ids -> Version \cup {NoRow}]
    BY <1>12, <2>1, <2>2 DEF UpdateVersion, TypeOK
  <2> QED
    BY <1>12, <2>3, ReturnTypes DEF UpdateVersion, TypeOK
<1>13. ASSUME NEW r \in Requests, Fail(r)
       PROVE  TypeOK'
  BY <1>13, ReturnTypes DEF Fail, TypeOK
<1>14. ASSUME NEW u \in Users, DeleteUser(u)
       PROVE  TypeOK'
  BY <1>14, DropTypes DEF DeleteUser, TypeOK
<1> QED
  BY <1>1, <1>2, <1>3, <1>4, <1>5, <1>6, <1>7, <1>8, <1>9, <1>10, <1>11, <1>12, <1>13,
     <1>14 DEF Next

\* Every table, call and history variable keeps its type.
THEOREM TypeCorrect == Spec => []TypeOK
<1>1. Init => TypeOK
  BY DEF Init, TypeOK
<1> QED
  BY <1>1, TypeStep, PTL DEF Spec

(***************************************************************************)
(* Referential integrity: every insert needs the row it hangs from at the  *)
(* moment it is executed, and every deletion takes what hangs from it.     *)
(***************************************************************************)
\* A deletion leaves no orphans when it takes the vaults of the users who go.
LEMMA DropKeepsIntegrity ==
  ASSUME TypeOK, ReferentialIntegrity, NEW gone \in SUBSET Ids, DropVaults(gone),
         users' \subseteq users,
         \A i \in Ids : vaults[i] # NoRow /\ vaults[i].owner \notin users' => i \in gone
  PROVE  ReferentialIntegrity'
<1> SUFFICES ASSUME NEW i \in Ids
             PROVE  /\ vaults'[i] # NoRow => vaults'[i].owner \in users'
                    /\ items'[i] # NoRow => vaults'[items'[i].vault] # NoRow
                    /\ versions'[i] # NoRow => items'[versions'[i].item] # NoRow
  BY DEF ReferentialIntegrity
<1>1. vaults'[i] # NoRow => vaults'[i].owner \in users'
  BY DEF DropVaults, Without
<1>2. items'[i] # NoRow => vaults'[items'[i].vault] # NoRow
  <2>1. items[i] # NoRow => items[i].vault \in Ids
    BY DEF TypeOK, Item
  <2> QED
    BY <2>1 DEF DropVaults, Without, ItemsIn, ReferentialIntegrity
<1>3. versions'[i] # NoRow => items'[versions'[i].item] # NoRow
  <2>1. versions[i] # NoRow => versions[i].item \in Ids
    BY DEF TypeOK, Version
  <2> QED
    BY <2>1 DEF DropVaults, Without, VersionsOf, ReferentialIntegrity
<1> QED
  BY <1>1, <1>2, <1>3

\* Every step keeps the integrity of the tables.
LEMMA IntegrityStep ==
  ASSUME TypeOK, ReferentialIntegrity, [Next]_vars
  PROVE  ReferentialIntegrity'
<1>1. CASE UNCHANGED <<users, vaults, items, versions>>
  BY <1>1 DEF ReferentialIntegrity
<1>2. ASSUME NEW r \in Requests, InsertVault(r)
      PROVE  ReferentialIntegrity'
  <2>1. call[r].id \in Ids
    BY <1>2, AtCall DEF InsertVault, Call
  <2> QED
    BY <1>2, <2>1, NoRowAssumption DEF InsertVault, ReferentialIntegrity, TypeOK, Item, Vault
<1>3. ASSUME NEW r \in Requests, DeleteVault(r)
      PROVE  ReferentialIntegrity'
  <2>1. {call[r].id} \in SUBSET Ids
    BY <1>3, AtCall DEF DeleteVault, Call
  <2> QED
    BY <1>3, <2>1, DropKeepsIntegrity DEF DeleteVault, ReferentialIntegrity
<1>4. ASSUME NEW r \in Requests, InsertItem(r)
      PROVE  ReferentialIntegrity'
  <2>1. call[r].id \in Ids /\ call[r].in \in Ids
    BY <1>4, AtCall DEF InsertItem, Call
  <2>2. [vault |-> call[r].in] # NoRow
    BY <2>1, NoRowAssumption DEF Item
  <2> QED
    BY <1>4, <2>1, <2>2 DEF InsertItem, ReferentialIntegrity, TypeOK, Version
<1>5. ASSUME NEW r \in Requests, MarkDeleted(r)
      PROVE  ReferentialIntegrity'
  <2>1. call[r].id \in Ids
    BY <1>5, AtCall DEF MarkDeleted, Call
  <2>2. \A i \in Ids : /\ vaults'[i] = NoRow <=> vaults[i] = NoRow
                       /\ vaults[i] # NoRow => vaults'[i].owner = vaults[i].owner
    <3>1. \A v \in Vault : [v EXCEPT !.deleted = TRUE] \in Vault
                          /\ [v EXCEPT !.deleted = TRUE].owner = v.owner
      BY DEF Vault
    <3> QED
      BY <1>5, <2>1, <3>1, NoRowAssumption DEF MarkDeleted, TypeOK
  <2> QED
    BY <1>5, <2>2 DEF MarkDeleted, ReferentialIntegrity, TypeOK, Item
<1>6. ASSUME NEW r \in Requests, DeleteVersions(r)
      PROVE  ReferentialIntegrity'
  BY <1>6 DEF DeleteVersions, Without, ReferentialIntegrity
<1>7. ASSUME NEW r \in Requests, InsertVersion(r)
      PROVE  ReferentialIntegrity'
  <2>1. call[r].id \in Ids /\ call[r].in \in Ids
    BY <1>7, AtCall DEF InsertVersion, Call
  <2> QED
    BY <1>7, <2>1 DEF InsertVersion, ReferentialIntegrity, TypeOK
<1>8. ASSUME NEW r \in Requests, UpdateVersion(r)
      PROVE  ReferentialIntegrity'
  <2>1. call[r].id \in Ids /\ versions[call[r].id] \in Version
    BY <1>8, AtCall DEF UpdateVersion, Call, TypeOK
  <2>2. [versions[call[r].id] EXCEPT !.deleted = TRUE].item = versions[call[r].id].item
    BY <2>1 DEF Version
  <2> QED
    BY <1>8, <2>1, <2>2 DEF UpdateVersion, ReferentialIntegrity, TypeOK
<1>9. ASSUME NEW u \in Users, DeleteUser(u)
      PROVE  ReferentialIntegrity'
  <2>1. \A i \in Ids : vaults[i] # NoRow /\ vaults[i].owner \notin users' => VaultOwner(i) = u
    BY <1>9 DEF DeleteUser, VaultOwner, ReferentialIntegrity
  <2> QED
    BY <1>9, <2>1, DropKeepsIntegrity DEF DeleteUser
<1>10. \/ UNCHANGED <<users, vaults, items, versions>>
       \/ \E r \in Requests : \/ InsertVault(r) \/ DeleteVault(r) \/ InsertItem(r)
                             \/ MarkDeleted(r) \/ DeleteVersions(r) \/ InsertVersion(r)
                             \/ UpdateVersion(r)
       \/ \E u \in Users : DeleteUser(u)
  BY DEF Next, vars, Receive, ReadTarget, GetItem, UpdateVault, Fail
<1> QED
  BY <1>1, <1>2, <1>3, <1>4, <1>5, <1>6, <1>7, <1>8, <1>9, <1>10

\* No statement leaves a row without the one it hangs from, whatever other requests
\* have deleted since it was looked up.
THEOREM IntegrityHolds == Spec => []ReferentialIntegrity
<1>1. Init => ReferentialIntegrity
  BY DEF Init, ReferentialIntegrity
<1>2. TypeOK /\ ReferentialIntegrity /\ [Next]_vars => ReferentialIntegrity'
  BY IntegrityStep
<1> QED
  BY <1>1, <1>2, TypeCorrect, PTL DEF Spec

(***************************************************************************)
(* What a step does to the owners of things.                               *)
(***************************************************************************)
\* The owner of each kind of thing, now and in the next state.
LEMMA OwnerOfKinds ==
  \A i \in Ids :
    /\ OwnerOf(<<"vault", i>>) = VaultOwner(i)
    /\ OwnerOf(<<"item", i>>) = ItemOwner(i)
    /\ OwnerOf(<<"version", i>>) = VersionOwner(i)
    /\ OwnerOf(<<"vault", i>>)' = VaultOwner(i)'
    /\ OwnerOf(<<"item", i>>)' = ItemOwner(i)'
    /\ OwnerOf(<<"version", i>>)' = VersionOwner(i)'
BY DEF OwnerOf

\* A thing is a vault, an item or a version.
LEMMA ThingKinds ==
  ASSUME NEW t \in Things
  PROVE  \E i \in Ids : t = <<"vault", i>> \/ t = <<"item", i>> \/ t = <<"version", i>>
BY DEF Things

\* Nothing has another owner than before, and what has none any more leaves its id
\* among the recycled ones.
Shrinks ==
  \A i \in Ids :
    /\ VaultOwner(i)' = VaultOwner(i) \/ (VaultOwner(i)' = Nobody /\ i \in recycled')
    /\ ItemOwner(i)' = ItemOwner(i) \/ (ItemOwner(i)' = Nobody /\ i \in recycled')
    /\ VersionOwner(i)' = VersionOwner(i) \/ VersionOwner(i)' = Nobody

\* One thing, which had no owner, has one; all others have the one they had.
Grows(x) ==
  /\ OwnerOf(x) = Nobody
  /\ OwnerOf(x)' \in Users
  /\ \A t \in Things : t # x => OwnerOf(t)' = OwnerOf(t)

\* A step that keeps the owners of vaults, and the items and versions as they are.
LEMMA SameOwners ==
  ASSUME TypeOK, items' = items, versions' = versions,
         \A i \in Ids : VaultOwner(i)' = VaultOwner(i)
  PROVE  Shrinks
<1> SUFFICES ASSUME NEW i \in Ids
             PROVE  ItemOwner(i)' = ItemOwner(i) /\ VersionOwner(i)' = VersionOwner(i)
  BY DEF Shrinks
<1>1. \A j \in Ids : ItemOwner(j)' = ItemOwner(j)
  BY DEF ItemOwner, TypeOK, Item
<1>2. VersionOwner(i)' = VersionOwner(i)
  BY <1>1 DEF VersionOwner, TypeOK, Version
<1> QED
  BY <1>1, <1>2

\* A deletion gives nothing a new owner.
LEMMA DropShrinks ==
  ASSUME TypeOK, ReferentialIntegrity, NEW gone \in SUBSET Ids, DropVaults(gone)
  PROVE  Shrinks
<1> SUFFICES ASSUME NEW i \in Ids
             PROVE  /\ VaultOwner(i)' = VaultOwner(i) \/ (VaultOwner(i)' = Nobody /\ i \in recycled')
                    /\ ItemOwner(i)' = ItemOwner(i) \/ (ItemOwner(i)' = Nobody /\ i \in recycled')
                    /\ VersionOwner(i)' = VersionOwner(i) \/ VersionOwner(i)' = Nobody
  BY DEF Shrinks
<1>1. \A j \in Ids : IF j \in gone THEN VaultOwner(j)' = Nobody /\ j \in recycled'
                     ELSE VaultOwner(j)' = VaultOwner(j)
  BY DEF DropVaults, Without, VaultOwner
<1>2. \A j \in Ids : IF j \in ItemsIn(gone) THEN ItemOwner(j)' = Nobody /\ j \in recycled'
                     ELSE ItemOwner(j)' = ItemOwner(j)
  <2> SUFFICES ASSUME NEW j \in Ids
               PROVE  IF j \in ItemsIn(gone) THEN ItemOwner(j)' = Nobody /\ j \in recycled'
                      ELSE ItemOwner(j)' = ItemOwner(j)
    OBVIOUS
  <2>1. items[j] # NoRow => items[j].vault \in Ids
    BY DEF TypeOK, Item
  <2>2. CASE j \in ItemsIn(gone)
    BY <2>2 DEF DropVaults, Without, ItemOwner
  <2>3. CASE j \notin ItemsIn(gone)
    <3>1. items'[j] = items[j]
      BY <2>3 DEF DropVaults, Without
    <3>2. items[j] # NoRow => items[j].vault \notin gone
      BY <2>3 DEF ItemsIn
    <3> QED
      BY <1>1, <2>1, <2>3, <3>1, <3>2 DEF ItemOwner
  <2> QED
    BY <2>2, <2>3
<1>3. VersionOwner(i)' = VersionOwner(i) \/ VersionOwner(i)' = Nobody
  <2>1. versions[i] # NoRow => versions[i].item \in Ids
    BY DEF TypeOK, Version
  <2>2. versions'[i] = versions[i] \/ versions'[i] = NoRow
    BY DEF DropVaults, Without
  <2> QED
    BY <1>2, <2>1, <2>2 DEF VersionOwner
<1> QED
  BY <1>1, <1>2, <1>3

\* A vault that is inserted had nothing hanging from it.
LEMMA InsertVaultGrows ==
  ASSUME TypeOK, ReferentialIntegrity, NEW r \in Requests, InsertVault(r)
  PROVE  \E x \in Things : Grows(x)
<1>1. PICK n \in Ids, u \in Users : n = call[r].id /\ u = call[r].owner
  BY AtCall DEF InsertVault, Call
<1> DEFINE row == [owner |-> u, deleted |-> FALSE]
<1>2. row \in Vault /\ row.owner = u
  BY <1>1 DEF Vault
<1>3. VaultOwner(n) = Nobody /\ VaultOwner(n)' = u
  <2>1. vaults[n] = NoRow /\ vaults' = [vaults EXCEPT ![n] = row]
    BY <1>1 DEF InsertVault
  <2>2. vaults'[n] = row
    BY <1>1, <2>1 DEF TypeOK
  <2>3. row # NoRow
    BY <1>2, NoRowAssumption
  <2> HIDE DEF row
  <2> QED
    BY <1>2, <2>1, <2>2, <2>3 DEF VaultOwner
<1>4. \A i \in Ids \ {n} : VaultOwner(i)' = VaultOwner(i)
  BY <1>1 DEF InsertVault, VaultOwner, TypeOK
<1>5. \A i \in Ids : ItemOwner(i)' = ItemOwner(i)
  <2> SUFFICES ASSUME NEW i \in Ids
               PROVE  ItemOwner(i)' = ItemOwner(i)
    OBVIOUS
  <2>1. items[i] # NoRow => items[i].vault \in Ids \ {n}
    BY <1>1 DEF TypeOK, Item, ReferentialIntegrity, InsertVault
  <2> QED
    BY <1>4, <2>1 DEF InsertVault, ItemOwner
<1>6. \A i \in Ids : VersionOwner(i)' = VersionOwner(i)
  BY <1>5 DEF InsertVault, VersionOwner, TypeOK, Version
<1>7. Grows(<<"vault", n>>)
  <2>1. \A t \in Things : t # <<"vault", n>> => OwnerOf(t)' = OwnerOf(t)
    <3> SUFFICES ASSUME NEW t \in Things, t # <<"vault", n>>
                 PROVE  OwnerOf(t)' = OwnerOf(t)
      OBVIOUS
    <3>1. PICK i \in Ids : t = <<"vault", i>> \/ t = <<"item", i>> \/ t = <<"version", i>>
      BY ThingKinds
    <3> QED
      BY <1>3, <1>4, <1>5, <1>6, <3>1, OwnerOfKinds
  <2> QED
    BY <1>1, <1>3, <1>4, <1>5, <1>6, <2>1, OwnerOfKinds DEF Grows
<1> QED
  BY <1>1, <1>7 DEF Things

\* An item that is inserted had nothing hanging from it.
LEMMA InsertItemGrows ==
  ASSUME TypeOK, ReferentialIntegrity, NEW r \in Requests, InsertItem(r)
  PROVE  \E x \in Things : Grows(x)
<1>1. PICK n \in Ids, m \in Ids : n = call[r].id /\ m = call[r].in
  BY AtCall DEF InsertItem, Call
<1> DEFINE row == [vault |-> m]
<1>2. row \in Item /\ row.vault = m
  BY <1>1 DEF Item
<1>3. \A i \in Ids : VaultOwner(i)' = VaultOwner(i)
  BY DEF InsertItem, VaultOwner
<1>4. VaultOwner(m) \in Users
  BY <1>1 DEF InsertItem, VaultOwner, TypeOK, Vault
<1>5. ItemOwner(n) = Nobody /\ ItemOwner(n)' = VaultOwner(m)
  <2>1. items[n] = NoRow /\ items' = [items EXCEPT ![n] = row]
    BY <1>1 DEF InsertItem
  <2>2. items'[n] = row
    BY <1>1, <2>1 DEF TypeOK
  <2>3. row # NoRow
    BY <1>2, NoRowAssumption
  <2> HIDE DEF row
  <2> QED
    BY <1>1, <1>2, <1>3, <2>1, <2>2, <2>3 DEF ItemOwner
<1>6. \A i \in Ids \ {n} : ItemOwner(i)' = ItemOwner(i)
  BY <1>1, <1>3 DEF InsertItem, ItemOwner, TypeOK, Item
<1>7. \A i \in Ids : VersionOwner(i)' = VersionOwner(i)
  <2> SUFFICES ASSUME NEW i \in Ids
               PROVE  VersionOwner(i)' = VersionOwner(i)
    OBVIOUS
  <2>1. versions[i] # NoRow => versions[i].item \in Ids \ {n}
    BY <1>1 DEF TypeOK, Version, ReferentialIntegrity, InsertItem
  <2> QED
    BY <1>6, <2>1 DEF InsertItem, VersionOwner
<1>8. Grows(<<"item", n>>)
  <2>1. \A t \in Things : t # <<"item", n>> => OwnerOf(t)' = OwnerOf(t)
    <3> SUFFICES ASSUME NEW t \in Things, t # <<"item", n>>
                 PROVE  OwnerOf(t)' = OwnerOf(t)
      OBVIOUS
    <3>1. PICK i \in Ids : t = <<"vault", i>> \/ t = <<"item", i>> \/ t = <<"version", i>>
      BY ThingKinds
    <3> QED
      BY <1>3, <1>4, <1>5, <1>6, <1>7, <3>1, OwnerOfKinds
  <2> QED
    BY <1>1, <1>3, <1>4, <1>5, <1>6, <1>7, <2>1, OwnerOfKinds DEF Grows
<1> QED
  BY <1>1, <1>8 DEF Things

\* A version that is inserted belongs to the owner of its item.
LEMMA InsertVersionGrows ==
  ASSUME TypeOK, ReferentialIntegrity, NEW r \in Requests, InsertVersion(r)
  PROVE  \E x \in Things : Grows(x)
<1>1. PICK n \in Ids, m \in Ids : n = call[r].id /\ m = call[r].in
  BY AtCall DEF InsertVersion, Call
<1> DEFINE row == [item |-> m, deleted |-> FALSE]
<1>2. row \in Version /\ row.item = m
  BY <1>1 DEF Version
<1>3. /\ \A i \in Ids : VaultOwner(i)' = VaultOwner(i)
      /\ \A i \in Ids : ItemOwner(i)' = ItemOwner(i)
  BY DEF InsertVersion, VaultOwner, ItemOwner
<1>4. ItemOwner(m) \in Users
  <2>1. items[m] \in Item
    BY <1>1 DEF InsertVersion, TypeOK
  <2>2. items[m].vault \in Ids
    BY <2>1 DEF Item
  <2> QED
    BY <1>1, <2>1, <2>2, NoRowAssumption
    DEF ItemOwner, VaultOwner, ReferentialIntegrity, TypeOK, Vault
<1>5. VersionOwner(n) = Nobody /\ VersionOwner(n)' = ItemOwner(m)
  <2>1. versions[n] = NoRow /\ versions' = [versions EXCEPT ![n] = row]
    BY <1>1 DEF InsertVersion
  <2>2. versions'[n] = row
    BY <1>1, <2>1 DEF TypeOK
  <2>3. row # NoRow
    BY <1>2, NoRowAssumption
  <2> HIDE DEF row
  <2> QED
    BY <1>1, <1>2, <1>3, <2>1, <2>2, <2>3 DEF VersionOwner
<1>6. \A i \in Ids \ {n} : VersionOwner(i)' = VersionOwner(i)
  BY <1>1, <1>3 DEF InsertVersion, VersionOwner, TypeOK, Version
<1>7. Grows(<<"version", n>>)
  <2>1. \A t \in Things : t # <<"version", n>> => OwnerOf(t)' = OwnerOf(t)
    <3> SUFFICES ASSUME NEW t \in Things, t # <<"version", n>>
                 PROVE  OwnerOf(t)' = OwnerOf(t)
      OBVIOUS
    <3>1. PICK i \in Ids : t = <<"vault", i>> \/ t = <<"item", i>> \/ t = <<"version", i>>
      BY ThingKinds
    <3> QED
      BY <1>3, <1>4, <1>5, <1>6, <3>1, OwnerOfKinds
  <2> QED
    BY <1>1, <1>3, <1>4, <1>5, <1>6, <2>1, OwnerOfKinds DEF Grows
<1> QED
  BY <1>1, <1>7 DEF Things

\* Every step either takes owners away or gives one to one thing.
LEMMA OwnersStep ==
  ASSUME TypeOK, ReferentialIntegrity, [Next]_vars
  PROVE  /\ recycled \subseteq recycled'
         /\ Shrinks \/ \E x \in Things : Grows(x)
<1>1. CASE UNCHANGED <<vaults, items, versions, recycled>>
  <2>1. \A i \in Ids : VaultOwner(i)' = VaultOwner(i)
    BY <1>1 DEF VaultOwner
  <2> QED
    BY <1>1, <2>1, SameOwners
<1>2. ASSUME NEW r \in Requests, InsertVault(r) \/ InsertItem(r) \/ InsertVersion(r)
      PROVE  (\E x \in Things : Grows(x)) /\ recycled' = recycled
  BY <1>2, InsertVaultGrows, InsertItemGrows, InsertVersionGrows
  DEF InsertVault, InsertItem, InsertVersion
<1>3. ASSUME NEW r \in Requests, DeleteVault(r)
      PROVE  Shrinks /\ recycled \subseteq recycled'
  <2>1. {call[r].id} \in SUBSET Ids
    BY <1>3, AtCall DEF DeleteVault, Call
  <2>2. DropVaults({call[r].id})
    BY <1>3 DEF DeleteVault
  <2> QED
    BY <2>1, <2>2, DropShrinks DEF DropVaults
<1>4. ASSUME NEW u \in Users, DeleteUser(u)
      PROVE  Shrinks /\ recycled \subseteq recycled'
  BY <1>4, DropShrinks DEF DeleteUser, DropVaults
<1>5. ASSUME NEW r \in Requests, MarkDeleted(r)
      PROVE  Shrinks /\ recycled' = recycled
  <2>1. PICK n \in Ids : n = call[r].id
    BY <1>5, AtCall DEF MarkDeleted, Call
  <2>2. \A v \in Vault : /\ [v EXCEPT !.deleted = TRUE] # NoRow
                        /\ [v EXCEPT !.deleted = TRUE].owner = v.owner
    <3>1. \A v \in Vault : /\ [v EXCEPT !.deleted = TRUE] \in Vault
                          /\ [v EXCEPT !.deleted = TRUE].owner = v.owner
      BY DEF Vault
    <3> QED
      BY <3>1, NoRowAssumption
  <2>3. vaults' = vaults
          \/ (vaults[n] # NoRow /\ vaults' = [vaults EXCEPT ![n] = [@ EXCEPT !.deleted = TRUE]])
    BY <1>5, <2>1 DEF MarkDeleted
  <2>4. \A i \in Ids : VaultOwner(i)' = VaultOwner(i)
    <3>1. CASE vaults' = vaults
      BY <3>1 DEF VaultOwner
    <3>2. CASE vaults[n] # NoRow
               /\ vaults' = [vaults EXCEPT ![n] = [@ EXCEPT !.deleted = TRUE]]
      <4>1. \A i \in Ids \ {n} : vaults'[i] = vaults[i]
        BY <3>2 DEF TypeOK
      <4>2. vaults[n] \in Vault /\ vaults'[n] = [vaults[n] EXCEPT !.deleted = TRUE]
        BY <3>2, <2>1 DEF TypeOK
      <4> QED
        BY <2>2, <3>2, <4>1, <4>2 DEF VaultOwner
    <3> QED
      BY <2>3, <3>1, <3>2
  <2> QED
    BY <1>5, <2>4, SameOwners DEF MarkDeleted
<1>6. ASSUME NEW r \in Requests, DeleteVersions(r)
      PROVE  Shrinks /\ recycled \subseteq recycled'
  <2>1. \A i \in Ids : VaultOwner(i)' = VaultOwner(i) /\ ItemOwner(i)' = ItemOwner(i)
    BY <1>6 DEF DeleteVersions, VaultOwner, ItemOwner
  <2>2. \A i \in Ids : versions'[i] = versions[i] \/ versions'[i] = NoRow
    BY <1>6 DEF DeleteVersions, Without
  <2>3. \A i \in Ids : versions[i] # NoRow => versions[i].item \in Ids
    BY DEF TypeOK, Version
  <2>4. \A i \in Ids : VersionOwner(i)' = VersionOwner(i) \/ VersionOwner(i)' = Nobody
    BY <2>1, <2>2, <2>3 DEF VersionOwner
  <2> QED
    BY <1>6, <2>1, <2>4 DEF DeleteVersions, Shrinks
<1>7. ASSUME NEW r \in Requests, UpdateVersion(r)
      PROVE  Shrinks /\ recycled' = recycled
  <2>1. PICK n \in Ids : n = call[r].id
    BY <1>7, AtCall DEF UpdateVersion, Call
  <2>2. \A i \in Ids : VaultOwner(i)' = VaultOwner(i) /\ ItemOwner(i)' = ItemOwner(i)
    BY <1>7 DEF UpdateVersion, VaultOwner, ItemOwner
  <2> DEFINE row == [versions[n] EXCEPT !.deleted = TRUE]
  <2>3. versions[n] \in Version /\ versions' = [versions EXCEPT ![n] = row]
    BY <1>7, <2>1 DEF UpdateVersion, TypeOK
  <2>4. row \in Version /\ row.item = versions[n].item
    BY <2>3 DEF Version
  <2>5. \A i \in Ids : i # n => VersionOwner(i)' = VersionOwner(i)
    BY <2>2, <2>3 DEF VersionOwner, TypeOK, Version
  <2>6. VersionOwner(n)' = VersionOwner(n)
    <3>1. versions'[n] = row /\ row # NoRow /\ versions[n] # NoRow
      BY <2>3, <2>4, NoRowAssumption DEF TypeOK
    <3>2. versions[n].item \in Ids
      BY <2>3 DEF Version
    <3> HIDE DEF row
    <3> QED
      BY <2>2, <2>4, <3>1, <3>2 DEF VersionOwner
  <2> QED
    BY <1>7, <2>2, <2>5, <2>6 DEF UpdateVersion, Shrinks
<1> QED
  BY <1>1, <1>2, <1>3, <1>4, <1>5, <1>6, <1>7
  DEF Next, vars, Receive, ReadTarget, GetItem, UpdateVault, Fail

(***************************************************************************)
(* The refinement: under belongings, every step of Content is a step of    *)
(* Ownership or a stutter.                                                 *)
(***************************************************************************)
\* A step that gives nothing a new owner is a Vanish, or a stutter.
LEMMA VanishStep ==
  ASSUME Shrinks
  PROVE  O!Vanish
<1>1. \A t \in Things : OwnerOf(t)' = OwnerOf(t) \/ OwnerOf(t)' = Nobody
  <2> SUFFICES ASSUME NEW t \in Things
               PROVE  OwnerOf(t)' = OwnerOf(t) \/ OwnerOf(t)' = Nobody
    OBVIOUS
  <2>1. PICK i \in Ids : t = <<"vault", i>> \/ t = <<"item", i>> \/ t = <<"version", i>>
    BY ThingKinds
  <2> QED
    BY <2>1, OwnerOfKinds DEF Shrinks
<1> QED
  BY <1>1 DEF O!Vanish, belongings

\* A step that gives one thing an owner is an Appear.
LEMMA AppearStep ==
  ASSUME NEW x \in Things, Grows(x)
  PROVE  \E u \in Users : O!Appear(x, u)
<1>1. PICK u \in Users : u = OwnerOf(x)'
  BY DEF Grows
<1>2. u # Nobody
  BY NobodyAssumption
<1>3. \A o \in Users : <<x, o>> \notin belongings
  BY DEF Grows, belongings
<1>4. belongings' \subseteq belongings \cup {<<x, u>>}
  BY <1>1 DEF Grows, belongings
<1>5. belongings \cup {<<x, u>>} \subseteq belongings'
  BY <1>1, <1>2 DEF Grows, belongings
<1> QED
  BY <1>3, <1>4, <1>5 DEF O!Appear

\* Content implements Ownership: what is in the tables belongs to one user for as long
\* as it is there.
THEOREM ContentIsOwned == Spec => ContentNeverChangesHands
<1>1. Init => O!Init
  <2> SUFFICES ASSUME Init, NEW t \in Things
               PROVE  OwnerOf(t) = Nobody
    BY DEF O!Init, belongings
  <2>1. \A i \in Ids : /\ VaultOwner(i) = Nobody
                       /\ ItemOwner(i) = Nobody
                       /\ VersionOwner(i) = Nobody
    BY DEF Init, VaultOwner, ItemOwner, VersionOwner
  <2>2. PICK i \in Ids : t = <<"vault", i>> \/ t = <<"item", i>> \/ t = <<"version", i>>
    BY ThingKinds
  <2> QED
    BY <2>1, <2>2, OwnerOfKinds
<1>2. TypeOK /\ ReferentialIntegrity /\ [Next]_vars => [O!Next]_belongings
  BY OwnersStep, VanishStep, AppearStep DEF O!Next
<1> QED
  BY <1>1, <1>2, TypeCorrect, IntegrityHolds, PTL DEF Spec, O!Spec, ContentNeverChangesHands

(***************************************************************************)
(* Entitlement.  What a call c has still to execute is about a row that    *)
(* belonged to the owner the rules were checked with, and still does, or   *)
(* whose id has been recycled since; and that owner is the requester,      *)
(* unless the requester is an administrator.                               *)
(***************************************************************************)
Settled(owner, o, i) == o = owner \/ i \in recycled

Entitlement(c, q) ==
  /\ q \in {"updateVault", "deleteVault"} => Settled(c.owner, VaultOwner(c.id), c.id)
  /\ q = "insertItem" => Settled(c.owner, VaultOwner(c.in), c.in)
  /\ q = "insertVersion" => Settled(c.owner, ItemOwner(c.in), c.in)
  /\ q \in {"markDeleted", "deleteVersions"} => Settled(c.owner, ItemOwner(c.id), c.id)

Entitled(c) ==
  /\ c.by = c.owner \/ c.by \in Admins
  /\ Entitlement(c, c.at)
  /\ Entitlement(c, c.then)

CallsEntitled == \A r \in Requests : call[r] # NoCall => Entitled(call[r])

\* Who is permitted anything of an account's rows is its holder or an administrator, in
\* the terms of Content.
LEMMA OnlyAdministrators ==
  ASSUME NEW ctx \in Contexts, ctx.role = RoleOf(ctx.id), NEW u,
         NEW resource, NEW action, Permitted(ctx, resource, action, u)
  PROVE  ctx.id = u \/ ctx.id \in Admins
BY OnlyAdministratorsActForOthers DEF RoleOf, Roles

\* Every operation needs some permission.
LEMMA RightsNeeded ==
  ASSUME NEW op \in Ops
  PROVE  \E right \in Rights[op] : TRUE
<1>1. op = "createVault" => <<"vaults", "create">> \in Rights[op]
  BY DEF Rights
<1>2. op \in {"getVault", "createItem", "getItems"} => <<"vaults", "retrieve">> \in Rights[op]
  BY DEF Rights
<1>3. op = "updateVault" => <<"vaults", "update">> \in Rights[op]
  BY DEF Rights
<1>4. op = "deleteVault" => <<"vaults", "delete">> \in Rights[op]
  BY DEF Rights
<1>5. op \in {"getItem", "deleteItem", "createVersion"} => <<"item", "retrieve">> \in Rights[op]
  BY DEF Rights
<1>6. op \in {"getVersion", "deleteVersion"} => <<"item-version", "retrieve">> \in Rights[op]
  BY DEF Rights
<1> QED
  BY <1>1, <1>2, <1>3, <1>4, <1>5, <1>6, OpNames

\* What has been settled stays so.
LEMMA SettledStays ==
  ASSUME TypeOK, ReferentialIntegrity, [Next]_vars, NEW owner \in Users, NEW i \in Ids
  PROVE  /\ Settled(owner, VaultOwner(i), i) => Settled(owner, VaultOwner(i), i)'
         /\ Settled(owner, ItemOwner(i), i) => Settled(owner, ItemOwner(i), i)'
<1>1. recycled \subseteq recycled'
  BY OwnersStep
<1>2. CASE Shrinks
  BY <1>1, <1>2 DEF Shrinks, Settled
<1>3. ASSUME NEW x \in Things, Grows(x)
      PROVE  /\ Settled(owner, VaultOwner(i), i) => Settled(owner, VaultOwner(i), i)'
             /\ Settled(owner, ItemOwner(i), i) => Settled(owner, ItemOwner(i), i)'
  <2>1. <<"vault", i>> \in Things /\ <<"item", i>> \in Things
    BY DEF Things
  <2>2. VaultOwner(i) = Nobody \/ VaultOwner(i)' = VaultOwner(i)
    BY <1>3, <2>1, OwnerOfKinds DEF Grows
  <2>3. ItemOwner(i) = Nobody \/ ItemOwner(i)' = ItemOwner(i)
    BY <1>3, <2>1, OwnerOfKinds DEF Grows
  <2> QED
    BY <1>1, <2>2, <2>3, NobodyAssumption DEF Settled
<1> QED
  BY <1>2, <1>3, OwnersStep

\* What a handler is entitled to, it stays entitled to.
LEMMA EntitlementStays ==
  ASSUME TypeOK, ReferentialIntegrity, [Next]_vars, NEW c \in Call, NEW q, Entitlement(c, q)
  PROVE  Entitlement(c, q)'
<1>1. c.owner \in Users /\ c.id \in Ids /\ c.in \in Ids
  BY DEF Call
<1>2. /\ Settled(c.owner, VaultOwner(c.id), c.id) => Settled(c.owner, VaultOwner(c.id), c.id)'
      /\ Settled(c.owner, VaultOwner(c.in), c.in) => Settled(c.owner, VaultOwner(c.in), c.in)'
      /\ Settled(c.owner, ItemOwner(c.id), c.id) => Settled(c.owner, ItemOwner(c.id), c.id)'
      /\ Settled(c.owner, ItemOwner(c.in), c.in) => Settled(c.owner, ItemOwner(c.in), c.in)'
  BY <1>1, SettledStays
<1> QED
  BY <1>2 DEF Entitlement

\* The first lookup settles what the request is about.
LEMMA ReceivedEntitled ==
  ASSUME TypeOK, NEW op \in Ops, NEW ctx \in Contexts, NEW i \in Ids, NEW in \in Ids,
         NEW o \in OwnersFor(op, i, in)
  PROVE  Entitlement(Received(ctx, i, in, o), First[op])
<1>1. op \in {"updateVault", "deleteVault"} => o = VaultOwner(i)
  BY DEF OwnersFor, VaultOwners
<1>2. op = "createItem" => o = VaultOwner(in)
  BY DEF OwnersFor, VaultOwners
<1>3. op = "createVersion" => o = ItemOwner(in)
  BY DEF OwnersFor, ItemOwners
<1>4. op = "deleteItem" => o = ItemOwner(i)
  BY DEF OwnersFor, ItemOwners
<1> QED
  BY <1>1, <1>2, <1>3, <1>4, OpNames DEF Entitlement, Settled, Received, First

\* At first there is no handler.
LEMMA EntitledInit == Init => CallsEntitled
BY DEF Init, CallsEntitled

\* What Continue and ContinueChecked make of an entitled call, and of one whose next
\* query follows from the checked ones.
LEMMA ContinueEntitled ==
  ASSUME TypeOK, ReferentialIntegrity, CallsEntitled, [Next]_vars,
         NEW r \in Requests, NEW c \in Call, NEW q \in Queries \cup {"return"},
         NEW reads \in BOOLEAN, c.by = c.owner \/ c.by \in Admins, Entitlement(c, q),
         Continue(r, c, q) \/ ContinueChecked(r, c, reads, q)
  PROVE  CallsEntitled'
<1>1. ASSUME NEW s \in Requests, s # r, call'[s] # NoCall
      PROVE  Entitled(call[s])'
  <2>1. call'[s] = call[s]
    BY <1>1 DEF TypeOK, Continue, ContinueChecked
  <2>2. PICK k \in Call : k = call[s]
    BY <1>1, <2>1 DEF TypeOK
  <2>3. Entitled(k)
    BY <1>1, <2>1, <2>2 DEF CallsEntitled
  <2>4. Entitlement(k, k.at)' /\ Entitlement(k, k.then)'
    BY <2>3, EntitlementStays DEF Entitled
  <2> QED
    BY <2>1, <2>2, <2>3, <2>4 DEF Entitled
<1>2. ASSUME call'[r] # NoCall
      PROVE  Entitled(call[r])'
  <2>1. PICK k \in Call : k = call'[r]
    BY <1>2, ContinueTypes
  <2>2. /\ k.by = c.by /\ k.owner = c.owner /\ k.id = c.id /\ k.in = c.in
        /\ \/ k.at = q /\ k.then = "return"
           \/ k.at = "target" /\ k.then = q
    <3>1. \/ k = [c EXCEPT !.at = q, !.then = "return"]
          \/ k = [c EXCEPT !.at = "target", !.then = q]
      BY <1>2, <2>1 DEF Continue, ContinueChecked, TypeOK
    <3>2. CASE k = [c EXCEPT !.at = q, !.then = "return"]
      BY <3>2 DEF Call
    <3>3. CASE k = [c EXCEPT !.at = "target", !.then = q]
      BY <3>3 DEF Call
    <3> QED
      BY <3>1, <3>2, <3>3
  <2>3. Entitlement(c, q)'
    BY EntitlementStays
  <2>4. Entitlement(k, q)'
    BY <2>2, <2>3 DEF Entitlement
  <2>5. Entitlement(k, "return")' /\ Entitlement(k, "target")'
    BY DEF Entitlement
  <2> QED
    BY <2>1, <2>2, <2>4, <2>5 DEF Entitled
<1> QED
  BY <1>1, <1>2 DEF CallsEntitled

\* The step of a handler that is done, or of no handler at all.
LEMMA OthersEntitled ==
  ASSUME TypeOK, ReferentialIntegrity, CallsEntitled, [Next]_vars,
         UNCHANGED call \/ \E r \in Requests : Return(r)
  PROVE  CallsEntitled'
<1> SUFFICES ASSUME NEW s \in Requests, call'[s] # NoCall
             PROVE  Entitled(call[s])'
  BY DEF CallsEntitled
<1>1. call'[s] = call[s]
  BY DEF TypeOK, Return
<1>2. PICK k \in Call : k = call[s]
  BY <1>1 DEF TypeOK
<1>3. Entitled(k)
  BY <1>1, <1>2 DEF CallsEntitled
<1>4. Entitlement(k, k.at)' /\ Entitlement(k, k.then)'
  BY <1>3, EntitlementStays DEF Entitled
<1> QED
  BY <1>1, <1>2, <1>3, <1>4 DEF Entitled

\* Every step keeps the entitlement of the handlers.
LEMMA EntitledStep ==
  ASSUME TypeOK, ReferentialIntegrity, CallsEntitled, [Next]_vars
  PROVE  CallsEntitled'
<1>1. ASSUME NEW r \in Requests, NEW op \in Ops, NEW ctx \in Contexts,
             NEW i \in Ids, NEW in \in Ids, Receive(r, op, ctx, i, in)
      PROVE  CallsEntitled'
  <2>1. PICK o \in OwnersFor(op, i, in) :
          /\ \A right \in Rights[op] : Permitted(ctx, right[1], right[2], o)
          /\ ContinueChecked(r, Received(ctx, i, in, o), ReadsTarget(ctx, o), First[op])
    BY <1>1 DEF Receive
  <2>2. Received(ctx, i, in, o) \in Call
    BY LookupTypes DEF Received, Call, Contexts, Queries
  <2>3. ctx.id = o \/ ctx.id \in Admins
    BY <1>1, <2>1, RightsNeeded, OnlyAdministrators DEF Receive
  <2>4. Entitlement(Received(ctx, i, in, o), First[op])
    BY ReceivedEntitled
  <2>5. Received(ctx, i, in, o).by = ctx.id /\ Received(ctx, i, in, o).owner = o
    BY DEF Received
  <2>6. ReadsTarget(ctx, o) \in BOOLEAN
    BY DEF ReadsTarget
  <2> QED
    BY <2>1, <2>2, <2>3, <2>4, <2>5, <2>6, FirstTypes, ContinueEntitled
<1>2. ASSUME NEW r \in Requests, ReadTarget(r)
      PROVE  CallsEntitled'
  <2>1. PICK c \in Call : c = call[r] /\ c.then \in Queries \cup {"return"} /\ Entitled(c)
    BY <1>2, AtCall DEF ReadTarget, Call, CallsEntitled, At
  <2>2. Continue(r, c, c.then) /\ FALSE \in BOOLEAN
    BY <1>2, <2>1 DEF ReadTarget
  <2> QED
    BY <2>1, <2>2, ContinueEntitled DEF Entitled
<1>3. ASSUME NEW r \in Requests, GetItem(r)
      PROVE  CallsEntitled'
  <2>1. PICK c \in Call : c = call[r] /\ c.id \in Ids /\ Entitled(c)
    BY <1>3, AtCall DEF GetItem, Call, CallsEntitled, At
  <2>2. PICK o \in ItemOwners(c.id) :
          ContinueChecked(r, [c EXCEPT !.itemOwner = o],
                          c.by # o \/ c.by # c.owner, "updateVersion")
    BY <1>3, <2>1 DEF GetItem, ReadsTarget
  <2>3. /\ [c EXCEPT !.itemOwner = o] \in Call
        /\ [c EXCEPT !.itemOwner = o].by = c.by
        /\ [c EXCEPT !.itemOwner = o].owner = c.owner
    BY <2>1, OwnerTypes DEF Call, ItemOwners
  <2>4. Entitlement([c EXCEPT !.itemOwner = o], "updateVersion")
    BY DEF Entitlement
  <2>5. (c.by # o \/ c.by # c.owner) \in BOOLEAN /\ "updateVersion" \in Queries
    BY DEF Queries
  <2> QED
    BY <2>1, <2>2, <2>3, <2>4, <2>5, ContinueEntitled DEF Entitled
<1>4. ASSUME NEW r \in Requests, MarkDeleted(r)
      PROVE  CallsEntitled'
  <2>1. PICK c \in Call : c = call[r] /\ c.at = "markDeleted" /\ Entitled(c)
    BY <1>4, AtCall DEF MarkDeleted, CallsEntitled, At
  <2>2. PICK hit \in BOOLEAN : Continue(r, [c EXCEPT !.hit = hit], "deleteVersions")
    BY <1>4, <2>1 DEF MarkDeleted
  <2>3. /\ [c EXCEPT !.hit = hit] \in Call
        /\ [c EXCEPT !.hit = hit].by = c.by
        /\ [c EXCEPT !.hit = hit].owner = c.owner
        /\ [c EXCEPT !.hit = hit].id = c.id
    BY DEF Call
  <2>4. Entitlement(c, "markDeleted")
    BY <2>1 DEF Entitled
  <2>5. Entitlement([c EXCEPT !.hit = hit], "deleteVersions")
    BY <2>3, <2>4 DEF Entitlement
  <2>6. "deleteVersions" \in Queries /\ FALSE \in BOOLEAN
    BY DEF Queries
  <2> QED
    BY <2>1, <2>2, <2>3, <2>5, <2>6, ContinueEntitled DEF Entitled
<1>5. CASE UNCHANGED call \/ \E r \in Requests : Return(r)
  BY <1>5, OthersEntitled
<1> QED
  BY <1>1, <1>2, <1>3, <1>4, <1>5
  DEF Next, vars, InsertVault, UpdateVault, DeleteVault, InsertItem, DeleteVersions,
      InsertVersion, UpdateVersion, Fail, DeleteUser

\* A statement on the row that was checked is in order when its handler is entitled.
LEMMA EntitledSuffices ==
  ASSUME TypeOK, CallsEntitled
  PROVE  StatementsAreEntitled
<1> SUFFICES ASSUME NEW r \in Requests,
                    NEW q \in OnCheckedRow,
                    At(r, q)
             PROVE  InOrder(call[r])
  BY DEF StatementsAreEntitled
<1>1. PICK c \in Call : c = call[r] /\ c.at = q /\ c.id \in Ids /\ c.in \in Ids /\ Entitled(c)
  BY AtCall DEF At, Call, CallsEntitled
<1>2. Entitlement(c, q) /\ (c.by = c.owner \/ c.by \in Admins)
  BY <1>1 DEF Entitled
<1>3. CASE q \in {"updateVault", "deleteVault"}
  <2>1. Target(c) = <<"vault", c.id>>
    BY <1>1, <1>3 DEF Target
  <2>2. OwnerOf(Target(c)) = VaultOwner(c.id) /\ Target(c)[2] = c.id
    <3>1. OwnerOf(Target(c)) = VaultOwner(c.id)
      BY <1>1, <2>1, OwnerOfKinds
    <3>2. Target(c)[2] = c.id
      BY <2>1
    <3> QED
      BY <3>1, <3>2
  <2>3. Settled(c.owner, VaultOwner(c.id), c.id)
    BY <1>2, <1>3 DEF Entitlement
  <2> QED
    BY <1>1, <1>2, <2>2, <2>3 DEF Settled, InOrder
<1>4. CASE q = "insertItem"
  <2>1. Target(c) = <<"vault", c.in>>
    BY <1>1, <1>4 DEF Target
  <2>2. OwnerOf(Target(c)) = VaultOwner(c.in) /\ Target(c)[2] = c.in
    <3>1. OwnerOf(Target(c)) = VaultOwner(c.in)
      BY <1>1, <2>1, OwnerOfKinds
    <3>2. Target(c)[2] = c.in
      BY <2>1
    <3> QED
      BY <3>1, <3>2
  <2>3. Settled(c.owner, VaultOwner(c.in), c.in)
    BY <1>2, <1>4 DEF Entitlement
  <2> QED
    BY <1>1, <1>2, <2>2, <2>3 DEF Settled, InOrder
<1>5. CASE q = "insertVersion"
  <2>1. Target(c) = <<"item", c.in>>
    BY <1>1, <1>5 DEF Target
  <2>2. OwnerOf(Target(c)) = ItemOwner(c.in) /\ Target(c)[2] = c.in
    <3>1. OwnerOf(Target(c)) = ItemOwner(c.in)
      BY <1>1, <2>1, OwnerOfKinds
    <3>2. Target(c)[2] = c.in
      BY <2>1
    <3> QED
      BY <3>1, <3>2
  <2>3. Settled(c.owner, ItemOwner(c.in), c.in)
    BY <1>2, <1>5 DEF Entitlement
  <2> QED
    BY <1>1, <1>2, <2>2, <2>3 DEF Settled, InOrder
<1>6. CASE q = "deleteVersions"
  <2>1. Target(c) = <<"item", c.id>>
    BY <1>1, <1>6 DEF Target
  <2>2. OwnerOf(Target(c)) = ItemOwner(c.id) /\ Target(c)[2] = c.id
    <3>1. OwnerOf(Target(c)) = ItemOwner(c.id)
      BY <1>1, <2>1, OwnerOfKinds
    <3>2. Target(c)[2] = c.id
      BY <2>1
    <3> QED
      BY <3>1, <3>2
  <2>3. Settled(c.owner, ItemOwner(c.id), c.id)
    BY <1>2, <1>6 DEF Entitlement
  <2> QED
    BY <1>1, <1>2, <2>2, <2>3 DEF Settled, InOrder
<1> QED
  BY <1>3, <1>4, <1>5, <1>6 DEF OnCheckedRow

\* Whatever happens between the check of the rules and a statement on the row that was
\* checked, the statement changes or adds to nothing of another user, except under an id
\* used before or at the request of an administrator.  Of markDeleted and updateVersion,
\* which act on a row that was not checked, this says nothing.
THEOREM StatementsEntitled == Spec => []StatementsAreEntitled
<1>1. TypeOK /\ ReferentialIntegrity /\ CallsEntitled /\ [Next]_vars => CallsEntitled'
  BY EntitledStep
<1>2. TypeOK /\ CallsEntitled => StatementsAreEntitled
  BY EntitledSuffices
<1> QED
  BY <1>1, <1>2, EntitledInit, TypeCorrect, IntegrityHolds, PTL DEF Spec
=============================================================================
