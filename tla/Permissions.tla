---------------------------- MODULE Permissions ----------------------------
(***************************************************************************)
(* The role and permission vocabulary (modules/role) and the one resolver  *)
(* that turns a user document into the permission list of a token          *)
(* (auth.effectivePermissions).  Lists are sets here: their order and      *)
(* duplicates are never looked at by a gate.                               *)
(***************************************************************************)

PermAll == "*"

AllAssignablePermissions ==
    {"users:read", "users:write", "audit:read", "settings:manage"}

IsGrantablePermission(p) == p \in AllAssignablePermissions

\* uuid.Nil is the role of an account that registered itself.
RoleSlugs == {"admin", "user", "member", "nil"}

AssignableTenantRoles == {"user", "member"}

\* What EnsureRoles seeds; FindByID fails on the nil role, which grants nothing.
SystemRoles(role) ==
    CASE role = "admin" -> {PermAll}
      [] role \in AssignableTenantRoles -> {"users:read"}
      [] OTHER -> {}

\* The access fields of a user document.
Grant == [role : RoleSlugs,
          extra : SUBSET AllAssignablePermissions,
          revoked : SUBSET AllAssignablePermissions]

RegisteredGrant == [role |-> "nil", extra |-> {}, revoked |-> {}]

\* (role \cup extra) \ revoked, except that a wildcard is never subtracted from.
EffectivePermissions(rolePerms, extra, revoked) ==
    LET perms == rolePerms \cup extra
    IN  IF PermAll \in perms THEN perms ELSE perms \ revoked

GrantedBy(g) == EffectivePermissions(SystemRoles(g.role), g.extra, g.revoked)

\* validatePermissionGrant: known slugs only, and none in both lists.
ValidPermissionGrant(extra, revoked) ==
    /\ \A p \in extra \cup revoked : IsGrantablePermission(p)
    /\ extra \cap revoked = {}
=============================================================================
