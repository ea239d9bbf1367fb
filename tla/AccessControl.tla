--------------------------- MODULE AccessControl ----------------------------
(***************************************************************************)
(* Who may do what to whose resources: the role table of the common        *)
(* package (schemas/auth/permissions.ts) and AccessControlService          *)
(* (access-control.service.ts).  A module without state: the handlers that *)
(* apply the rules extend it.                                              *)
(*                                                                         *)
(* A permission is a resource, an action on it, and the scope in which it  *)
(* holds: the requester's own resources, or everybody's.                   *)
(***************************************************************************)
Roles == {"user", "admin"}

Actions(resource) ==
  {"create", "retrieve", "delete"}
    \cup (IF resource \in {"vaults", "users"} THEN {"update"} ELSE {})

Permission(scope) ==
  UNION {{<<resource, action, scope>> : action \in Actions(resource)} :
           resource \in {"vaults", "item", "item-version", "users"}}

\* The permissions a role has of its own, and the roles it inherits from.
RolePermissions ==
  [user  |-> Permission("own"),
   admin |-> Permission("all")
               \cup {<<"server-settings", action, "all">> : action \in {"retrieve", "update"}}]

Inherits == [user |-> {}, admin |-> {"user"}]

\* The recursion of the code is one level deep.
ResolveRolePermissions ==
  [role \in Roles |->
     RolePermissions[role] \cup UNION {RolePermissions[base] : base \in Inherits[role]}]

(***************************************************************************)
(* validateAccessControlRules.  ctx is what the access token claims of the *)
(* requester: id, role and whether the account was verified.               *)
(***************************************************************************)
\* The rules up to the first await: claims only, no table is read.
Permitted(ctx, resource, action, target) ==
  /\ ctx.verified
  /\ \/ /\ <<resource, action, "own">> \in ResolveRolePermissions[ctx.role]
        /\ ctx.id = target
     \/ <<resource, action, "all">> \in ResolveRolePermissions[ctx.role]

\* Only then, and only for somebody else's resources, the target's row is read:
\* it has to be there and to be verified.
ReadsTarget(ctx, target) == ctx.id # target
=============================================================================
