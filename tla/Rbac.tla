-------------------------------- MODULE Rbac --------------------------------
(***************************************************************************)
(* Roles and permissions of LUMS accounts (server/security.py, the tables  *)
(* of migration 018, and their port server/postgres_rbac.py): how a        *)
(* selection of permissions is stored and what is effective afterwards.    *)
(*                                                                         *)
(* An account holds what its rows say:                                     *)
(*   legacy          user_permissions, before migration 018                *)
(*   base            the permissions of the role it is assigned            *)
(*   grants, denies  user_permission_overrides                             *)
(***************************************************************************)
EXTENDS Naturals, FiniteSets

CONSTANTS
  Permissions,   \* the permissions in use, of those LUMS knows
  Roles          \* the roles in use

PermissionNames ==
  {"clients.view", "software.view", "updates.view", "packages.search", "jobs.manage",
   "clients.manage", "users.manage", "permissions.manage", "backups.manage",
   "system.update", "infrastructure.manage", "alerts.view", "alerts.manage"}

RoleNames == {"viewer", "operator", "administrator"}

ASSUME PermissionsAssumption ==
  /\ Roles \subseteq RoleNames
  /\ Permissions \subseteq PermissionNames
  /\ {"clients.view", "users.manage", "permissions.manage"} \subseteq Permissions

\* ROLE_DEFAULT_PERMISSIONS, of the permissions in use.
RoleDefaults(role) ==
  CASE role = "viewer"   -> Permissions \cap {"clients.view", "software.view"}
    [] role = "operator" -> Permissions \cap {"clients.view", "software.view", "updates.view",
                                              "packages.search", "jobs.manage"}
    [] OTHER             -> Permissions \ {"permissions.manage"}

Dependencies(p) ==
  CASE p \in {"software.view", "updates.view", "packages.search", "clients.manage"} ->
         {"clients.view"}
    [] p = "jobs.manage" -> {"clients.view", "updates.view"}
    [] p \in {"permissions.manage", "system.update", "infrastructure.manage"} ->
         {"users.manage", "clients.view"}
    [] p = "alerts.manage" -> {"alerts.view"}
    [] OTHER -> {}

\* validate_permission_selection: every permission with what it depends on.
ValidSelection(S) == \A p \in S : Dependencies(p) \subseteq S

Selections == {S \in SUBSET Permissions : ValidSelection(S)}

\* _filter_permission_dependencies drops what lacks a dependency until nothing is
\* left to drop: the largest valid part of S.
Effective(S) == UNION {T \in Selections : T \subseteq S}

-----------------------------------------------------------------------------

\* _calculate_effective_permissions
RoleEffective(base, grants, denies) == Effective((base \cup grants) \ denies)

NoAccount == [legacy |-> {}, base |-> {}, grants |-> {}, denies |-> {}, role |-> "none"]

\* resolve_user_permissions; migration 018 is the switch.
Resolve(mode, account) ==
  IF mode = "legacy" THEN Effective(account.legacy)
  ELSE RoleEffective(account.base, account.grants, account.denies)

\* postgres_rbac.py knows the role tables only.
PgResolve(account) == RoleEffective(account.base, account.grants, account.denies)

\* store_user_permissions: the rows of the account are replaced, in the tables
\* that count; the others keep what they have.
Stored(mode, account, role, selected) ==
  IF mode = "legacy" THEN [account EXCEPT !.role = role, !.legacy = selected]
  ELSE [account EXCEPT !.role = role, !.base = RoleDefaults(role),
          !.grants = selected \ RoleDefaults(role),
          !.denies = RoleDefaults(role) \ selected]

PgStored(role, selected) ==
  [legacy |-> {}, role |-> role, base |-> RoleDefaults(role),
   grants |-> selected \ RoleDefaults(role), denies |-> RoleDefaults(role) \ selected]

\* What it takes to hand out permissions.
ManagerSet == {"permissions.manage", "users.manage", "clients.view"}

\* grant_initial_permission_manager
PgInitialManager(account) == [account EXCEPT !.grants = @ \cup {"permissions.manage"}]

=============================================================================
