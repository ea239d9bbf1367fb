------------------------ MODULE AccessControlProofs -------------------------
(***************************************************************************)
(* Theorems about AccessControl, for every requester, resource and target. *)
(***************************************************************************)
EXTENDS AccessControl, TLAPS

\* What each role may do, once its inheritance is resolved.
LEMMA RolesResolved ==
  /\ ResolveRolePermissions["user"] = Permission("own")
  /\ ResolveRolePermissions["admin"] = RolePermissions["admin"] \cup Permission("own")
<1>1. RolePermissions["user"] = Permission("own")
  BY DEF RolePermissions
<1>2. Inherits["user"] = {} /\ Inherits["admin"] = {"user"}
  BY DEF Inherits
<1> QED
  BY <1>1, <1>2 DEF ResolveRolePermissions, Roles

\* The scope of a permission, and what it is for.
LEMMA PermissionScope ==
  ASSUME NEW scope, NEW p \in Permission(scope)
  PROVE  p[3] = scope /\ p[1] # "server-settings"
BY DEF Permission

\* Whatever is permitted is permitted to a verified requester, and on somebody else's
\* resources to an administrator only (validateAccessControlRules).
THEOREM OnlyAdministratorsActForOthers ==
  ASSUME NEW ctx, ctx.role \in Roles, NEW resource, NEW action, NEW target,
         Permitted(ctx, resource, action, target)
  PROVE  ctx.verified /\ (ctx.id = target \/ ctx.role = "admin")
<1> SUFFICES ASSUME ctx.role = "user", <<resource, action, "all">> \in Permission("own")
             PROVE  FALSE
  BY RolesResolved DEF Permitted, Roles
<1> QED
  BY PermissionScope

\* Whatever a user is permitted of some target, an administrator is of every one: the two
\* lists of permissions, which the source writes out twice, do not drift apart.
THEOREM AdministratorsMayDoWhatUsersMay ==
  ASSUME NEW ctx, NEW admin, ctx.role = "user", admin.role = "admin", admin.verified,
         NEW resource, NEW action, NEW target, Permitted(ctx, resource, action, target),
         NEW other
  PROVE  Permitted(admin, resource, action, other)
<1>1. <<resource, action, "own">> \in Permission("own")
  <2>1. <<resource, action, "all">> \notin Permission("own")
    BY PermissionScope
  <2> QED
    BY <2>1, RolesResolved DEF Permitted
<1>2. <<resource, action, "all">> \in Permission("all")
  BY <1>1 DEF Permission
<1> QED
  BY <1>2, RolesResolved DEF Permitted, RolePermissions

\* The settings of the server are for verified administrators, by the role table alone:
\* nobody owns them.
THEOREM SettingsAreForAdministrators ==
  ASSUME NEW ctx, ctx.role \in Roles, NEW action, NEW target,
         Permitted(ctx, "server-settings", action, target)
  PROVE  ctx.verified /\ ctx.role = "admin" /\ action \in {"retrieve", "update"}
<1>1. \A scope, s : <<"server-settings", action, s>> \notin Permission(scope)
  BY PermissionScope
<1>2. ctx.role = "admin"
  BY <1>1, RolesResolved DEF Permitted, Roles
<1>3. \A s : <<"server-settings", action, s>> \in RolePermissions["admin"] => action \in {"retrieve", "update"}
  BY <1>1 DEF RolePermissions
<1> QED
  BY <1>1, <1>2, <1>3, RolesResolved DEF Permitted
=============================================================================
