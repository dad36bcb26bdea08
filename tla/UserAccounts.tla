---------------------------- MODULE UserAccounts ----------------------------
(***************************************************************************)
(* The administration of accounts (server/app.py, create_admin.py), the    *)
(* migration to custom roles (security_migration.py) and the first account *)
(* of a PostgreSQL installation (postgres_create_admin.py).                *)
(*                                                                         *)
(* login_required looks the actor up and reads the role and the overrides  *)
(* one SELECT after another, outside any transaction; the handler then     *)
(* does its work under BEGIN IMMEDIATE.  A request is carried by a thread: *)
(*   ReadRole, ReadOverrides   login_required                              *)
(*   CreateUser, UpdatePermissions, DeleteUser   the handler               *)
(* What was read may be stale, or a mixture, when the handler uses it.     *)
(* No handler disables an account: users.enabled is left out.              *)
(***************************************************************************)
EXTENDS Rbac

CONSTANTS
  Users,        \* accounts that may be created, and created again
  WebThreads    \* server threads

ASSUME UsersAssumption == IsFiniteSet(Users)

VARIABLES
  rbac,         \* "legacy" or "custom": whether migration 018 is recorded; "postgres"
  accounts,     \* the rows of every account
  asking        \* the request of every thread

usersVars == <<rbac, accounts, asking>>

Idle == [at |-> "idle"]

Exists(u) == accounts[u] # NoAccount

PermissionsOf(u) == Resolve(rbac, accounts[u])

\* count_active_user_managers and count_active_permission_managers count these.
UserManagers == {u \in Users : Exists(u) /\ "users.manage" \in PermissionsOf(u)}
PermissionManagers == {u \in Users : Exists(u) /\ ManagerSet \subseteq PermissionsOf(u)}

\* create_admin, on the command line.
CreateAdmin(u) ==
  /\ rbac # "postgres"
  /\ ~Exists(u)
  /\ accounts' = [accounts EXCEPT ![u] =
       Stored(rbac, NoAccount, "administrator", RoleDefaults("administrator"))]
  /\ UNCHANGED <<rbac, asking>>

-----------------------------------------------------------------------------
(* login_required, role_required *)

\* The user row and the role assignment are read.
ReadRole(t, actor, kind) ==
  /\ rbac # "postgres"
  /\ asking[t].at = "idle"
  /\ Exists(actor)
  /\ asking' = [asking EXCEPT ![t] =
       [at |-> "role", actor |-> actor, kind |-> kind, base |-> accounts[actor].base]]
  /\ UNCHANGED <<rbac, accounts>>

\* What resolve_user_permissions makes of the role read before and the overrides
\* of now, which are none when the account is gone.  (In legacy mode everything is
\* in one SELECT.)
Authorised(t) ==
  LET actor == accounts[asking[t].actor]
  IN Resolve(rbac, [actor EXCEPT !.base = asking[t].base])

\* The overrides are read; users.manage is demanded of every handler here.
ReadOverrides(t) ==
  /\ asking[t].at = "role"
  /\ asking' = [asking EXCEPT ![t] =
       IF "users.manage" \in Authorised(t)
       THEN [at |-> "view", actor |-> asking[t].actor, kind |-> asking[t].kind,
             delegates |-> "permissions.manage" \in Authorised(t)]
       ELSE Idle]
  /\ UNCHANGED <<rbac, accounts>>

Serving(t, kind) == asking[t].at = "view" /\ asking[t].kind = kind
Answer(t) == asking' = [asking EXCEPT ![t] = Idle]

-----------------------------------------------------------------------------
(* The handlers *)

\* create_user: permissions are handed out only by who may delegate.
CreateUser(t, u, role, selected) ==
  /\ Serving(t, "create")
  /\ selected # {} => asking[t].delegates
  /\ ~Exists(u)
  /\ accounts' = [accounts EXCEPT ![u] = Stored(rbac, NoAccount, role, selected)]
  /\ Answer(t)
  /\ UNCHANGED rbac

\* MUTANT: one manager more is thought to be left than there is.
MayLoseOffByOne(u, selected) ==
  /\ u \in UserManagers /\ "users.manage" \notin selected =>
       Cardinality(UserManagers) >= 1
  /\ u \in PermissionManagers /\ ~(ManagerSet \subseteq selected) =>
       Cardinality(PermissionManagers) >= 1

\* The checks of update_user_permissions and delete_user inside the transaction.
MayLose(u, selected) ==
  /\ u \in UserManagers /\ "users.manage" \notin selected =>
       Cardinality(UserManagers) > 1
  /\ u \in PermissionManagers /\ ~(ManagerSet \subseteq selected) =>
       Cardinality(PermissionManagers) > 1

\* update_user_permissions
UpdatePermissions(t, u, role, selected) ==
  /\ Serving(t, "update")
  /\ asking[t].delegates
  /\ Exists(u)
  /\ MayLose(u, selected)
  /\ accounts' = [accounts EXCEPT ![u] = Stored(rbac, @, role, selected)]
  /\ Answer(t)
  /\ UNCHANGED rbac

\* delete_user; the rows of the account go with it.
DeleteUser(t, u) ==
  /\ Serving(t, "delete")
  /\ u # asking[t].actor
  /\ Exists(u)
  /\ MayLose(u, {})
  /\ accounts' = [accounts EXCEPT ![u] = NoAccount]
  /\ Answer(t)
  /\ UNCHANGED rbac

\* Any refusal, or the worker dies: nothing is written.
Rejected(t) ==
  /\ asking[t].at # "idle"
  /\ Answer(t)
  /\ UNCHANGED <<rbac, accounts>>

-----------------------------------------------------------------------------
(* migrate_custom_rbac, before the server is started *)

\* Delegation without what it depends on is removed.
Cleaned(u) ==
  IF ManagerSet \subseteq accounts[u].legacy THEN accounts[u].legacy
  ELSE accounts[u].legacy \ {"permissions.manage"}

Eligible == {u \in Users : {"users.manage", "clients.view"} \subseteq accounts[u].legacy}

Delegates == {u \in Users : "permissions.manage" \in Cleaned(u)}

\* Each account gets a role with exactly its effective permissions, and no override.
Migrated(u, chosen) ==
  LET rows == IF u \in chosen THEN Cleaned(u) \cup {"permissions.manage"} ELSE Cleaned(u)
  IN IF Exists(u)
     THEN [accounts[u] EXCEPT !.legacy = rows, !.base = Effective(rows)]
     ELSE NoAccount

\* MUTANT: every account is given the default permissions of its role.
MigrateToDefaults ==
  /\ rbac = "legacy"
  /\ \A t \in WebThreads : asking[t].at = "idle"
  /\ Eligible # {}
  /\ accounts' = [u \in Users |->
       IF Exists(u)
       THEN [accounts[u] EXCEPT !.base = RoleDefaults(accounts[u].role)] ELSE NoAccount]
  /\ rbac' = "custom"
  /\ UNCHANGED asking

\* Nobody can be given the delegation: only the clean-up is committed.  Else
\* somebody has it, or one eligible account (the one with the least id) gets it.
Migrate018 ==
  /\ rbac = "legacy"
  /\ \A t \in WebThreads : asking[t].at = "idle"
  /\ \/ /\ Eligible = {}
        /\ accounts' = [u \in Users |-> [accounts[u] EXCEPT !.legacy = Cleaned(u)]]
        /\ UNCHANGED rbac
     \/ /\ Eligible # {}
        /\ \E chosen \in SUBSET Eligible :
             /\ IF Delegates = {} THEN \E u \in Users : chosen = {u} ELSE chosen = {}
             /\ accounts' = [u \in Users |-> Migrated(u, chosen)]
        /\ rbac' = "custom"
  /\ UNCHANGED asking

\* create_initial_admin: under the advisory lock, and only while there is nobody.
CreateInitialAdmin(u) ==
  /\ rbac = "postgres"
  /\ \A v \in Users : ~Exists(v)
  /\ accounts' = [accounts EXCEPT ![u] =
       PgInitialManager(PgStored("administrator", RoleDefaults("administrator")))]
  /\ UNCHANGED <<rbac, asking>>

-----------------------------------------------------------------------------

UsersInit ==
  /\ rbac \in {"legacy", "postgres"}
  /\ accounts = [u \in Users |-> NoAccount]
  /\ asking = [t \in WebThreads |-> Idle]

UsersNext ==
  \/ \E u \in Users : CreateAdmin(u) \/ CreateInitialAdmin(u)
  \/ \E t \in WebThreads, u \in Users :
       \/ \E kind \in {"create", "update", "delete"} : ReadRole(t, u, kind)
       \/ \E role \in Roles, selected \in Selections :
            CreateUser(t, u, role, selected) \/ UpdatePermissions(t, u, role, selected)
       \/ DeleteUser(t, u)
  \/ \E t \in WebThreads : ReadOverrides(t) \/ Rejected(t)
  \/ Migrate018

UsersSpec == UsersInit /\ [][UsersNext]_usersVars

-----------------------------------------------------------------------------
(* What is claimed *)

\* Somebody stays in charge: whatever administrators do to one another's accounts
\* at the same time, on whatever stale authorisation, as long as anybody may
\* manage users, or hand out permissions, somebody may afterwards.
SomebodyStaysInCharge ==
  [][/\ UserManagers # {} => UserManagers' # {}
     /\ PermissionManagers # {} => PermissionManagers' # {}]_usersVars

\* Rights are what was decided: the switch to custom roles changes nobody's
\* effective permissions except that one account may be given the delegation,
\* after it somebody has it, and a selection an administrator makes is exactly
\* what is effective, whatever role it is stored under.
RightsAreKept ==
  [][/\ rbac' # rbac =>
          /\ PermissionManagers' # {}
          /\ \A u \in Users :
               Resolve("custom", accounts'[u]) \ Resolve("legacy", accounts[u])
                 \subseteq {"permissions.manage"}
          /\ \A u \in Users :
               Resolve("legacy", accounts[u]) \subseteq Resolve("custom", accounts'[u])
     /\ \A u \in Users : accounts'[u] # accounts[u] =>
          \A t \in WebThreads, role \in Roles, selected \in Selections :
            UpdatePermissions(t, u, role, selected) => PermissionsOf(u)' = selected]_usersVars

=============================================================================
