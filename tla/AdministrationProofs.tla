------------------------ MODULE AdministrationProofs ------------------------
(***************************************************************************)
(* What the administration of accounts, topology, alerts and incidents     *)
(* keeps, and what logins keep.                                            *)
(*                                                                         *)
(* SomebodyStaysInCharge and RightsAreKept for any accounts, threads and   *)
(* permissions in use.  What is effective is the largest valid part of a   *)
(* set: the lemmas on Effective carry both.  The invariant says that an    *)
(* account has a role, and no override before migration 018.               *)
(*                                                                         *)
(* TopologyHolds for any clients, threads and numbers of nodes and         *)
(* relations.  It is not inductive: what PostgreSQL shows is as whole as   *)
(* the moment that was kept when the nodes were read.                      *)
(*                                                                         *)
(* AlertHistoryTells and RulesAreCurrent for any rules, alerts, requests   *)
(* and length of a history. Each handler either changes one rule or        *)
(* appends one status to one alert that may have it; the lemma on Moved    *)
(* carries the first. The second rests on the row locks: what a            *)
(* transaction has read of a rule is still its row, for locks that         *)
(* exclude one another are not held together.                              *)
(*                                                                         *)
(* LocksHold and SessionsAreCurrent, for any number of logins side by      *)
(* side. The invariant knows who is past its last look when a lock is      *)
(* set, and that the row of an account that is admitted stays as it is.    *)
(*                                                                         *)
(* HistoryTellsStatus and NothingIsRewritten for any incidents, evidence   *)
(* and findings: every operation writes rows whose history tells their     *)
(* status and that keep what the old ones say.                             *)
(***************************************************************************)
EXTENDS UserAccounts, Logins, Topology, Alerts, SocIncidentsProps, FiniteSetTheorems, SequenceTheorems, TLAPS

-----------------------------------------------------------------------------
(* Accounts *)

Accounts ==
  [legacy : SUBSET Permissions, base : SUBSET Permissions,
   grants : SUBSET Permissions, denies : SUBSET Permissions, role : RoleNames \cup {"none"}]

UsersTypeOK ==
  /\ rbac \in {"legacy", "custom", "postgres"}
  /\ accounts \in [Users -> Accounts]

HaveRoles == \A u \in Users : Exists(u) => accounts[u].role # "none"

NoOverridesYet ==
  rbac = "legacy" => \A u \in Users : accounts[u].grants = {} /\ accounts[u].denies = {}

AccountsInv == UsersTypeOK /\ HaveRoles /\ NoOverridesYet

-----------------------------------------------------------------------------
(* What is effective *)

LEMMA EffectiveWithin == ASSUME NEW S PROVE Effective(S) \subseteq S
  BY DEF Effective

LEMMA EffectiveContains ==
  ASSUME NEW S, NEW T \in Selections, T \subseteq S
  PROVE  T \subseteq Effective(S)
<1>1. T \in {V \in Selections : V \subseteq S}
  OBVIOUS
<1> QED
  BY <1>1, Zenon DEF Effective

LEMMA EffectiveOfValid == ASSUME NEW S \in Selections PROVE Effective(S) = S
<1>1. Effective(S) \subseteq S
  BY EffectiveWithin
<1>2. S \subseteq Effective(S)
  BY EffectiveContains
<1> QED
  BY <1>1, <1>2

\* Dropping what lacks a dependency leaves a valid selection.
LEMMA EffectiveIsValid == ASSUME NEW S PROVE Effective(S) \in Selections
<1>1. Effective(S) \subseteq Permissions
  BY DEF Effective, Selections
<1>2. ASSUME NEW p \in Effective(S) PROVE Dependencies(p) \subseteq Effective(S)
  <2>1. PICK T \in Selections : T \subseteq S /\ p \in T
    BY DEF Effective
  <2>2. Dependencies(p) \subseteq T
    BY <2>1 DEF Selections, ValidSelection
  <2>3. T \subseteq Effective(S)
    BY <2>1, EffectiveContains
  <2> QED
    BY <2>2, <2>3
<1> QED
  BY <1>1, <1>2 DEF Selections, ValidSelection

LEMMA ManagersAreValid == {"users.manage"} \in Selections /\ ManagerSet \in Selections
<1>1. Dependencies("users.manage") = {} /\ Dependencies("clients.view") = {}
  BY DEF Dependencies
<1>2. Dependencies("permissions.manage") = {"users.manage", "clients.view"}
  BY DEF Dependencies
<1> QED
  BY <1>1, <1>2, PermissionsAssumption DEF Selections, ValidSelection, ManagerSet

\* Nothing depends on the delegation.
LEMMA NothingNeedsDelegation ==
  ASSUME NEW p \in Permissions
  PROVE  "permissions.manage" \notin Dependencies(p)
  BY DEF Dependencies

LEMMA DefaultsInUse == ASSUME NEW role PROVE RoleDefaults(role) \subseteq Permissions
  BY DEF RoleDefaults

LEMMA StoredAre ==
  ASSUME NEW mode, NEW account \in Accounts, NEW role \in RoleNames,
         NEW selected \in SUBSET Permissions
  PROVE  /\ Stored(mode, account, role, selected) \in Accounts
         /\ Stored(mode, account, role, selected).role = role
         /\ mode = "legacy" =>
              /\ Stored(mode, account, role, selected).legacy = selected
              /\ Stored(mode, account, role, selected).grants = account.grants
              /\ Stored(mode, account, role, selected).denies = account.denies
         /\ mode # "legacy" =>
              (Stored(mode, account, role, selected).base
                 \cup Stored(mode, account, role, selected).grants)
                \ Stored(mode, account, role, selected).denies = selected
<1> DEFINE new == Stored(mode, account, role, selected)
<1>1. selected \subseteq Permissions /\ RoleDefaults(role) \subseteq Permissions
  BY DefaultsInUse
<1>2. CASE mode = "legacy"
  <2>1. new = [account EXCEPT !.role = role, !.legacy = selected]
    BY <1>2 DEF Stored
  <2> QED
    BY <1>1, <1>2, <2>1 DEF Accounts
<1>3. CASE mode # "legacy"
  <2>1. new = [account EXCEPT !.role = role, !.base = RoleDefaults(role),
                 !.grants = selected \ RoleDefaults(role),
                 !.denies = RoleDefaults(role) \ selected]
    BY <1>3 DEF Stored
  <2>2. /\ new \in Accounts /\ new.role = role /\ new.base = RoleDefaults(role)
        /\ new.grants = selected \ RoleDefaults(role)
        /\ new.denies = RoleDefaults(role) \ selected
    BY <1>1, <2>1 DEF Accounts
  <2>3. (new.base \cup new.grants) \ new.denies = selected
    BY <2>2
  <2> QED
    BY <1>3, <2>2, <2>3
<1> QED
  BY <1>2, <1>3

\* What is stored for a selection is effective as it was selected, in whatever tables.
LEMMA StoredIsEffective ==
  ASSUME NEW mode, NEW account \in Accounts, NEW role \in RoleNames, NEW selected \in Selections
  PROVE  Resolve(mode, Stored(mode, account, role, selected)) = selected
<1>1. selected \in SUBSET Permissions
  BY DEF Selections
<1>2. Effective(selected) = selected
  BY EffectiveOfValid
<1> QED
  BY <1>1, <1>2, StoredAre DEF Resolve, RoleEffective

-----------------------------------------------------------------------------
(* The migration *)

\* What an account may do under its role is what it could do, but for a delegation.
LEMMA MigrationKeepsRights ==
  ASSUME NEW L \in SUBSET Permissions, NEW C, NEW rows,
         C = IF ManagerSet \subseteq L THEN L ELSE L \ {"permissions.manage"},
         rows \in {C, C \cup {"permissions.manage"}}
  PROVE  /\ Effective(L) \subseteq Effective(rows)
         /\ Effective(rows) \ Effective(L) \subseteq {"permissions.manage"}
<1>1. Effective(L) \in Selections /\ Effective(L) \subseteq L
  BY EffectiveIsValid, EffectiveWithin
<1>2. Effective(L) \subseteq C
  <2>1. CASE ManagerSet \subseteq L
    BY <1>1, <2>1
  <2>2. CASE ~(ManagerSet \subseteq L)
    <3>1. Dependencies("permissions.manage") = {"users.manage", "clients.view"}
      BY DEF Dependencies
    <3>2. "permissions.manage" \in Effective(L) => ManagerSet \subseteq Effective(L)
      BY <1>1, <3>1 DEF Selections, ValidSelection, ManagerSet
    <3> QED
      BY <1>1, <2>2, <3>2
  <2> QED
    BY <2>1, <2>2
<1>3. Effective(L) \subseteq Effective(rows)
  BY <1>1, <1>2, EffectiveContains
<1>4. Effective(rows) \in Selections /\ Effective(rows) \subseteq rows
  BY EffectiveIsValid, EffectiveWithin
<1> DEFINE rest == Effective(rows) \ {"permissions.manage"}
<1>5. rest \in Selections
  <2>1. rest \subseteq Permissions
    BY <1>4 DEF Selections
  <2>2. \A p \in rest : Dependencies(p) \subseteq rest
    BY <1>4, <2>1, NothingNeedsDelegation DEF Selections, ValidSelection
  <2> QED
    BY <2>1, <2>2 DEF Selections, ValidSelection
<1>6. rest \subseteq L
  BY <1>4
<1>7. rest \subseteq Effective(L)
  BY <1>5, <1>6, EffectiveContains
<1> QED
  BY <1>3, <1>7

\* The rows that migration 018 makes the role of an account of.
Rows(u, chosen) ==
  IF u \in chosen THEN Cleaned(u) \cup {"permissions.manage"} ELSE Cleaned(u)

LEMMA MigratedAre ==
  ASSUME AccountsInv, rbac = "legacy", NEW u \in Users, NEW chosen
  PROVE  /\ Migrated(u, chosen) \in Accounts
         /\ Exists(u) => /\ Migrated(u, chosen) # NoAccount
                         /\ Migrated(u, chosen).role = accounts[u].role
                         /\ Resolve("custom", Migrated(u, chosen)) = Effective(Rows(u, chosen))
         /\ ~Exists(u) => Migrated(u, chosen) = NoAccount
<1> DEFINE rows == Rows(u, chosen)
           new == [accounts[u] EXCEPT !.legacy = rows, !.base = Effective(rows)]
<1>1. accounts[u] \in Accounts /\ NoAccount \in Accounts
  BY DEF AccountsInv, UsersTypeOK, NoAccount, Accounts
<1>2. Effective(rows) \subseteq Permissions /\ Effective(Effective(rows)) = Effective(rows)
  BY EffectiveIsValid, EffectiveOfValid DEF Selections
<1>3. rows \subseteq Permissions
  BY <1>1, PermissionsAssumption DEF Rows, Cleaned, Accounts
<1> HIDE DEF rows
<1>4. /\ new \in Accounts /\ new.role = accounts[u].role /\ new.base = Effective(rows)
      /\ new.grants = accounts[u].grants /\ new.denies = accounts[u].denies
  BY <1>1, <1>2, <1>3 DEF Accounts
<1>5. Exists(u) => Migrated(u, chosen) = new
  BY DEF Migrated, rows, Rows
<1>6. ~Exists(u) => Migrated(u, chosen) = NoAccount
  BY DEF Migrated
<1> HIDE DEF new
<1>7. ASSUME Exists(u)
      PROVE  new # NoAccount /\ Resolve("custom", new) = Effective(rows)
  <2>1. new.role # "none"
    BY <1>4, <1>7 DEF AccountsInv, HaveRoles
  <2>2. (new.base \cup new.grants) \ new.denies = Effective(rows)
    BY <1>4 DEF AccountsInv, NoOverridesYet
  <2> QED
    BY <1>2, <2>1, <2>2 DEF NoAccount, Resolve, RoleEffective
<1> QED
  BY <1>1, <1>4, <1>5, <1>6, <1>7 DEF rows

LEMMA MigrationStep ==
  ASSUME AccountsInv, Migrate018, rbac' # rbac
  PROVE  /\ PermissionManagers' # {}
         /\ \A u \in Users :
              /\ Resolve("legacy", accounts[u]) \subseteq Resolve("custom", accounts'[u])
              /\ Resolve("custom", accounts'[u]) \ Resolve("legacy", accounts[u])
                   \subseteq {"permissions.manage"}
<1>1. PICK chosen \in SUBSET Eligible :
        /\ IF Delegates = {} THEN \E u \in Users : chosen = {u} ELSE chosen = {}
        /\ accounts' = [u \in Users |-> Migrated(u, chosen)]
  BY DEF Migrate018
<1>2. rbac = "legacy" /\ rbac' = "custom"
  BY DEF Migrate018
<1>3. ASSUME NEW u \in Users
      PROVE  /\ Resolve("legacy", accounts[u]) \subseteq Resolve("custom", accounts'[u])
             /\ Resolve("custom", accounts'[u]) \ Resolve("legacy", accounts[u])
                  \subseteq {"permissions.manage"}
  <2>1. CASE Exists(u)
    <3>1. Resolve("custom", accounts'[u]) = Effective(Rows(u, chosen))
      BY <1>1, <1>2, <2>1, MigratedAre
    <3>2. accounts[u].legacy \in SUBSET Permissions
      BY DEF AccountsInv, UsersTypeOK, Accounts
    <3>3. Rows(u, chosen) \in {Cleaned(u), Cleaned(u) \cup {"permissions.manage"}}
      BY DEF Rows
    <3>4. /\ Effective(accounts[u].legacy) \subseteq Effective(Rows(u, chosen))
          /\ Effective(Rows(u, chosen)) \ Effective(accounts[u].legacy)
               \subseteq {"permissions.manage"}
      BY <3>2, <3>3, MigrationKeepsRights DEF Cleaned
    <3> QED
      BY <3>1, <3>4 DEF Resolve
  <2>2. CASE ~Exists(u)
    <3>1. accounts[u] = NoAccount /\ accounts'[u] = NoAccount
      BY <1>1, <1>2, <2>2, MigratedAre DEF Exists
    <3>2. Resolve("legacy", NoAccount) = {} /\ Resolve("custom", NoAccount) = {}
      BY EffectiveWithin DEF Resolve, RoleEffective, NoAccount
    <3> QED
      BY <3>1, <3>2
  <2> QED
    BY <2>1, <2>2
<1>4. PICK u \in Users : ManagerSet \subseteq Rows(u, chosen)
  <2>1. CASE Delegates = {}
    <3>1. PICK u \in Users : chosen = {u}
      BY <1>1, <2>1
    <3>2. {"users.manage", "clients.view"} \subseteq accounts[u].legacy
      BY <1>1, <3>1 DEF Eligible
    <3> QED
      BY <3>1, <3>2 DEF Rows, Cleaned, ManagerSet
  <2>2. CASE Delegates # {}
    <3>1. PICK u \in Users : "permissions.manage" \in Cleaned(u)
      BY <2>2 DEF Delegates
    <3> QED
      BY <3>1 DEF Cleaned, Rows
  <2> QED
    BY <2>1, <2>2
<1>5. Exists(u)
  <2>1. accounts[u].legacy # {}
    BY <1>1, <1>4 DEF Rows, Cleaned, Eligible, ManagerSet
  <2> QED
    BY <2>1 DEF Exists, NoAccount
<1>6. Resolve("custom", accounts'[u]) = Effective(Rows(u, chosen)) /\ accounts'[u] # NoAccount
  BY <1>1, <1>2, <1>5, MigratedAre
<1>7. ManagerSet \subseteq Effective(Rows(u, chosen))
  BY <1>4, ManagersAreValid, EffectiveContains
<1>8. u \in PermissionManagers'
  BY <1>2, <1>6, <1>7 DEF PermissionManagers, PermissionsOf, Exists
<1> QED
  BY <1>3, <1>8


-----------------------------------------------------------------------------
(* The steps *)

LEMMA InvStep == AccountsInv /\ [UsersNext]_usersVars => AccountsInv'
<1> SUFFICES ASSUME AccountsInv, [UsersNext]_usersVars PROVE AccountsInv'
  OBVIOUS
<1>1. NoAccount \in Accounts /\ NoAccount.grants = {} /\ NoAccount.denies = {}
  BY DEF NoAccount, Accounts
<1>2. ASSUME NEW u \in Users, NEW new \in Accounts,
             accounts' = [accounts EXCEPT ![u] = new], rbac' = rbac,
             new # NoAccount => new.role # "none",
             rbac = "legacy" => new.grants = {} /\ new.denies = {}
      PROVE  AccountsInv'
  BY <1>2 DEF AccountsInv, UsersTypeOK, HaveRoles, NoOverridesYet, Exists
<1>3. ASSUME NEW u \in Users, NEW account \in Accounts, NEW role \in RoleNames,
             NEW selected \in SUBSET Permissions,
             accounts' = [accounts EXCEPT ![u] = Stored(rbac, account, role, selected)],
             rbac' = rbac,
             rbac = "legacy" => account.grants = {} /\ account.denies = {}
      PROVE  AccountsInv'
  <2> DEFINE new == Stored(rbac, account, role, selected)
  <2>0. new \in Accounts
    BY StoredAre
  <2>1. new.role = role
    BY DEF Stored, Accounts
  <2>2. rbac = "legacy" => new.grants = {} /\ new.denies = {}
    BY <1>3, StoredAre
  <2>3. role # "none"
    BY DEF RoleNames
  <2> HIDE DEF new
  <2> QED
    BY <1>2, <1>3, <2>0, <2>1, <2>2, <2>3 DEF new
<1>4. ASSUME NEW u \in Users, CreateAdmin(u) PROVE AccountsInv'
  <2>1. RoleDefaults("administrator") \in SUBSET Permissions /\ "administrator" \in RoleNames
    BY DefaultsInUse DEF RoleNames
  <2> QED
    BY <1>1, <1>3, <1>4, <2>1 DEF CreateAdmin
<1>5. ASSUME NEW u \in Users, CreateInitialAdmin(u) PROVE AccountsInv'
  <2> DEFINE row == PgStored("administrator", RoleDefaults("administrator"))
             new == PgInitialManager(row)
  <2>1. rbac = "postgres" /\ rbac' = rbac /\ accounts' = [accounts EXCEPT ![u] = new]
    BY <1>5 DEF CreateInitialAdmin
  <2>2. new \in Accounts /\ new.role = "administrator"
    BY DefaultsInUse, PermissionsAssumption DEF PgStored, PgInitialManager, Accounts, RoleNames
  <2> HIDE DEF new
  <2> QED
    BY <1>2, <2>1, <2>2
<1>6. ASSUME NEW t \in WebThreads, NEW u \in Users, NEW role \in Roles, NEW selected \in Selections,
             CreateUser(t, u, role, selected)
      PROVE  AccountsInv'
  <2>1. selected \in SUBSET Permissions /\ role \in RoleNames
    BY PermissionsAssumption DEF Selections
  <2> QED
    BY <1>1, <1>3, <1>6, <2>1 DEF CreateUser
<1>7. ASSUME NEW t \in WebThreads, NEW u \in Users, NEW role \in Roles, NEW selected \in Selections,
             UpdatePermissions(t, u, role, selected)
      PROVE  AccountsInv'
  <2>1. accounts' = [accounts EXCEPT ![u] = Stored(rbac, accounts[u], role, selected)]
    BY <1>7 DEF UpdatePermissions
  <2>2. accounts[u] \in Accounts /\ role \in RoleNames /\ selected \in SUBSET Permissions
    BY PermissionsAssumption DEF AccountsInv, UsersTypeOK, Selections
  <2>3. rbac = "legacy" => accounts[u].grants = {} /\ accounts[u].denies = {}
    BY DEF AccountsInv, NoOverridesYet
  <2>4. rbac' = rbac
    BY <1>7 DEF UpdatePermissions
  <2> QED
    BY <1>3, <2>1, <2>2, <2>3, <2>4
<1>8. ASSUME NEW t \in WebThreads, NEW u \in Users, DeleteUser(t, u) PROVE AccountsInv'
  BY <1>1, <1>2, <1>8 DEF DeleteUser
<1>9. CASE Migrate018
  <2>1. rbac = "legacy"
    BY <1>9 DEF Migrate018
  <2>2. CASE rbac' = rbac
    <3>1. accounts' = [u \in Users |-> [accounts[u] EXCEPT !.legacy = Cleaned(u)]]
      BY <1>9, <2>1, <2>2 DEF Migrate018
    <3>2. ASSUME NEW u \in Users
          PROVE  /\ accounts'[u] \in Accounts /\ accounts'[u].role = accounts[u].role
                 /\ accounts'[u].grants = accounts[u].grants
                 /\ accounts'[u].denies = accounts[u].denies
                 /\ ~Exists(u) => accounts'[u] = NoAccount
      <4>1. accounts[u] \in Accounts
        BY DEF AccountsInv, UsersTypeOK
      <4>2. Cleaned(u) \in SUBSET Permissions
        BY <4>1 DEF Cleaned, Accounts
      <4>3. accounts'[u] = [accounts[u] EXCEPT !.legacy = Cleaned(u)]
        BY <3>1
      <4>4. ASSUME accounts[u] = NoAccount PROVE accounts'[u] = NoAccount
        BY <4>3, <4>4 DEF Cleaned, NoAccount
      <4> QED
        BY <4>1, <4>2, <4>3, <4>4 DEF Accounts, Exists
    <3> QED
      BY <2>2, <3>1, <3>2 DEF AccountsInv, UsersTypeOK, HaveRoles, NoOverridesYet, Exists
  <2>3. CASE rbac' # rbac
    <3>1. PICK chosen : accounts' = [u \in Users |-> Migrated(u, chosen)]
      BY <1>9, <2>3 DEF Migrate018
    <3>2. rbac' = "custom"
      BY <1>9, <2>3 DEF Migrate018
    <3> QED
      BY <2>1, <3>1, <3>2, MigratedAre DEF AccountsInv, UsersTypeOK, HaveRoles, NoOverridesYet, Exists
  <2> QED
    BY <2>2, <2>3
<1>10. CASE UNCHANGED <<rbac, accounts>>
  BY <1>10 DEF AccountsInv, UsersTypeOK, HaveRoles, NoOverridesYet, Exists
<1>11. UNCHANGED usersVars => UNCHANGED <<rbac, accounts>>
  BY DEF usersVars
<1> QED
  BY <1>4, <1>5, <1>6, <1>7, <1>8, <1>9, <1>10, <1>11
     DEF UsersNext, ReadRole, ReadOverrides, Rejected

\* What update_user_permissions stores for a selection is what is effective then.
LEMMA UpdateIsEffective ==
  ASSUME AccountsInv, NEW t \in WebThreads, NEW u \in Users, NEW role \in Roles, NEW selected \in Selections,
         UpdatePermissions(t, u, role, selected)
  PROVE  PermissionsOf(u)' = selected
<1>1. accounts'[u] = Stored(rbac, accounts[u], role, selected) /\ rbac' = rbac
  BY DEF UpdatePermissions, AccountsInv, UsersTypeOK
<1>2. accounts[u] \in Accounts /\ role \in RoleNames
  BY PermissionsAssumption DEF AccountsInv, UsersTypeOK
<1> QED
  BY <1>1, <1>2, StoredIsEffective DEF PermissionsOf

\* More than one is one besides.
LEMMA AnotherOne ==
  ASSUME NEW S \in SUBSET Users, NEW u, Cardinality(S) > 1
  PROVE  \E v \in S : v # u
<1>1. SUFFICES ASSUME S \subseteq {u} PROVE FALSE
  OBVIOUS
<1>2. IsFiniteSet({u}) /\ Cardinality({u}) = 1
  BY FS_Singleton
<1>3. Cardinality(S) \in Nat /\ Cardinality(S) <= 1
  BY <1>1, <1>2, FS_Subset, FS_CardinalityType
<1> QED
  BY <1>3

\* A step that changes the rows of u only leaves those in charge that are not u.
LEMMA OthersStay ==
  ASSUME AccountsInv, NEW u \in Users, rbac' = rbac, \A v \in Users \ {u} : accounts'[v] = accounts[v]
  PROVE  /\ UserManagers \ {u} \subseteq UserManagers'
         /\ PermissionManagers \ {u} \subseteq PermissionManagers'
  BY DEF UserManagers, PermissionManagers, PermissionsOf, Exists

\* So it may change u as far as MayLose allows.
LEMMA LosingLeavesSome ==
  ASSUME AccountsInv, NEW u \in Users, NEW selected,
         rbac' = rbac, \A v \in Users \ {u} : accounts'[v] = accounts[v],
         MayLose(u, selected),
         selected # {} => Exists(u)' /\ PermissionsOf(u)' = selected
  PROVE  /\ UserManagers # {} => UserManagers' # {}
         /\ PermissionManagers # {} => PermissionManagers' # {}
<1> DEFINE Kept(S) == \E v \in S : v # u
<1>1. UserManagers \in SUBSET Users /\ PermissionManagers \in SUBSET Users
  BY DEF UserManagers, PermissionManagers
<1>2. ASSUME UserManagers # {} PROVE UserManagers' # {}
  <2>1. CASE \E v \in UserManagers : v # u
    BY <2>1, OthersStay
  <2>2. CASE ~ \E v \in UserManagers : v # u
    <3>1. u \in UserManagers /\ ~(Cardinality(UserManagers) > 1)
      BY <1>1, <1>2, <2>2, AnotherOne
    <3>2. "users.manage" \in selected
      BY <3>1 DEF MayLose
    <3>3. u \in UserManagers'
      BY <3>2 DEF UserManagers
    <3> QED
      BY <3>3
  <2> QED
    BY <2>1, <2>2
<1>3. ASSUME PermissionManagers # {} PROVE PermissionManagers' # {}
  <2>1. CASE \E v \in PermissionManagers : v # u
    BY <2>1, OthersStay
  <2>2. CASE ~ \E v \in PermissionManagers : v # u
    <3>1. u \in PermissionManagers /\ ~(Cardinality(PermissionManagers) > 1)
      BY <1>1, <1>3, <2>2, AnotherOne
    <3>2. ManagerSet \subseteq selected /\ selected # {}
      BY <3>1 DEF MayLose, ManagerSet
    <3>3. u \in PermissionManagers'
      BY <3>2 DEF PermissionManagers
    <3> QED
      BY <3>3
  <2> QED
    BY <2>1, <2>2
<1> QED
  BY <1>2, <1>3

\* The clean-up that comes before migration 018 takes the delegation only from
\* those who cannot use it.
LEMMA CleaningLeaves ==
  ASSUME AccountsInv, Migrate018, rbac' = rbac
  PROVE  UserManagers \subseteq UserManagers' /\ PermissionManagers \subseteq PermissionManagers'
<1>1. /\ rbac = "legacy"
      /\ accounts' = [u \in Users |-> [accounts[u] EXCEPT !.legacy = Cleaned(u)]]
  BY DEF Migrate018
<1>2. ASSUME NEW u \in Users
      PROVE  /\ accounts'[u].legacy = Cleaned(u) /\ accounts'[u].role = accounts[u].role
             /\ Exists(u) => Exists(u)'
  <2>1. accounts[u] \in Accounts
    BY DEF AccountsInv, UsersTypeOK
  <2>2. accounts'[u].legacy = Cleaned(u) /\ accounts'[u].role = accounts[u].role
    BY <1>1, <2>1 DEF Accounts
  <2> QED
    BY <2>2 DEF Exists, NoAccount, AccountsInv, HaveRoles
<1>3. ASSUME NEW u \in Users PROVE PermissionsOf(u) \subseteq PermissionsOf(u)'
  <2>1. accounts[u].legacy \in SUBSET Permissions
    BY DEF AccountsInv, UsersTypeOK, Accounts
  <2> QED
    BY <1>1, <1>2, <2>1, MigrationKeepsRights DEF PermissionsOf, Resolve, Cleaned
<1> QED
  BY <1>2, <1>3 DEF UserManagers, PermissionManagers

\* Those who may hand out permissions may manage users.
LEMMA PermissionManagersManage ==
  /\ PermissionManagers \subseteq UserManagers
  /\ PermissionManagers' \subseteq UserManagers'
  BY DEF PermissionManagers, UserManagers, ManagerSet

-----------------------------------------------------------------------------

LEMMA AlwaysIInv == UsersSpec => []AccountsInv
<1>1. UsersInit => AccountsInv
  BY DEF UsersInit, AccountsInv, UsersTypeOK, HaveRoles, NoOverridesYet, Exists, NoAccount, Accounts
<1> QED
  BY <1>1, InvStep, PTL DEF UsersSpec

\* Somebody may always manage users and hand out permissions, whatever
\* administrators do to one another at the same time (app.py,
\* update_user_permissions and delete_user), for any number of them.
THEOREM SomebodyAlwaysInCharge == UsersSpec => SomebodyStaysInCharge
<1> DEFINE Stays ==
      /\ UserManagers # {} => UserManagers' # {}
      /\ PermissionManagers # {} => PermissionManagers' # {}
<1>1. AccountsInv /\ [UsersNext]_usersVars => [Stays]_usersVars
  <2> SUFFICES ASSUME AccountsInv, UsersNext PROVE Stays
    OBVIOUS
  <2>1. ASSUME NEW u \in Users, ~Exists(u), rbac' = rbac,
               \A v \in Users \ {u} : accounts'[v] = accounts[v]
        PROVE  Stays
    BY <2>1, OthersStay DEF UserManagers, PermissionManagers
  <2>2. ASSUME NEW u \in Users, CreateAdmin(u) PROVE Stays
    BY <2>1, <2>2 DEF CreateAdmin, AccountsInv, UsersTypeOK
  <2>3. ASSUME NEW u \in Users, CreateInitialAdmin(u) PROVE Stays
    BY <2>1, <2>3 DEF CreateInitialAdmin, AccountsInv, UsersTypeOK
  <2>4. ASSUME NEW t \in WebThreads, NEW u \in Users, NEW role, NEW selected,
               CreateUser(t, u, role, selected)
        PROVE  Stays
    BY <2>1, <2>4 DEF CreateUser, AccountsInv, UsersTypeOK
  <2>5. ASSUME NEW t \in WebThreads, NEW u \in Users, NEW role \in Roles,
               NEW selected \in Selections, UpdatePermissions(t, u, role, selected)
        PROVE  Stays
    <3>1. /\ MayLose(u, selected) /\ rbac' = rbac
          /\ \A v \in Users \ {u} : accounts'[v] = accounts[v]
          /\ accounts'[u] = Stored(rbac, accounts[u], role, selected)
      BY <2>5 DEF UpdatePermissions, AccountsInv, UsersTypeOK
    <3>2. Exists(u)'
      <4>0. accounts[u] \in Accounts /\ role \in RoleNames /\ selected \in SUBSET Permissions
        BY PermissionsAssumption DEF AccountsInv, UsersTypeOK, Selections
      <4>1. Stored(rbac, accounts[u], role, selected).role = role
        BY <4>0 DEF Stored, Accounts
      <4>2. role # "none"
        BY <4>0 DEF RoleNames
      <4> QED
        BY <3>1, <4>1, <4>2 DEF Exists, NoAccount
    <3>3. PermissionsOf(u)' = selected
      BY <2>5, UpdateIsEffective
    <3> QED
      BY <3>1, <3>2, <3>3, LosingLeavesSome
  <2>6. ASSUME NEW t \in WebThreads, NEW u \in Users, DeleteUser(t, u) PROVE Stays
    <3>1. /\ MayLose(u, {}) /\ rbac' = rbac
          /\ \A v \in Users \ {u} : accounts'[v] = accounts[v]
      BY <2>6 DEF DeleteUser, AccountsInv, UsersTypeOK
    <3> QED
      BY <3>1, LosingLeavesSome
  <2>7. CASE Migrate018
    <3>1. CASE rbac' = rbac
      BY <2>7, <3>1, CleaningLeaves
    <3>2. CASE rbac' # rbac
      BY <2>7, <3>2, MigrationStep, PermissionManagersManage
    <3> QED
      BY <3>1, <3>2
  <2>8. CASE UNCHANGED <<rbac, accounts>>
    BY <2>8 DEF UserManagers, PermissionManagers, PermissionsOf, Exists
  <2> QED
    BY <2>2, <2>3, <2>4, <2>5, <2>6, <2>7, <2>8
       DEF UsersNext, ReadRole, ReadOverrides, Rejected
<1> QED
  BY <1>1, AlwaysIInv, PTL DEF UsersSpec, SomebodyStaysInCharge

\* Migration 018 keeps what every account may do, and what an administrator selects
\* is what is effective (security.py, store_user_permissions and
\* resolve_user_permissions).
THEOREM RightsAlwaysKept == UsersSpec => RightsAreKept
<1> DEFINE Keeps ==
      /\ rbac' # rbac =>
           /\ PermissionManagers' # {}
           /\ \A u \in Users :
                Resolve("custom", accounts'[u]) \ Resolve("legacy", accounts[u])
                  \subseteq {"permissions.manage"}
           /\ \A u \in Users :
                Resolve("legacy", accounts[u]) \subseteq Resolve("custom", accounts'[u])
      /\ \A u \in Users : accounts'[u] # accounts[u] =>
           \A t \in WebThreads, role \in Roles, selected \in Selections :
             UpdatePermissions(t, u, role, selected) => PermissionsOf(u)' = selected
<1>1. AccountsInv /\ [UsersNext]_usersVars => [Keeps]_usersVars
  <2> SUFFICES ASSUME AccountsInv, UsersNext PROVE Keeps
    OBVIOUS
  <2>1. rbac' # rbac => Migrate018
    BY DEF UsersNext, CreateAdmin, CreateInitialAdmin, ReadRole, CreateUser, UpdatePermissions,
       DeleteUser, ReadOverrides, Rejected
  <2> QED
    BY <2>1, MigrationStep, UpdateIsEffective
<1> QED
  BY <1>1, AlwaysIInv, PTL DEF UsersSpec, RightsAreKept

-----------------------------------------------------------------------------
(* Topology *)

AllNodes == NodesIn(Nat)

\* Where an editor may be, and what it holds there.
Editors ==
  {Waiting}
    \cup [at : {"source", "target", "duplicate", "insert"}, from : AllNodes, to : AllNodes]
    \cup [at : {"relations"}, nodes : SUBSET Nat,
          moment : SUBSET [id : Nat, from : AllNodes, to : AllNodes]]

TopologyTypeOK ==
  /\ keeper \in {"sqlite", "postgres"}
  /\ nodes \subseteq Nat /\ madeNodes \in Nat /\ madeRelations \in Nat
  /\ relations \subseteq [id : Nat, from : AllNodes, to : AllNodes]
  /\ editors \in [TopologyThreads -> Editors]

\* Relations keep both ends.
EndsThere == \A r \in relations : Ends(r) \subseteq NodesIn(nodes)

\* PostgreSQL keeps no relation twice, by its unique indexes.
NoneTwice ==
  keeper = "postgres" => \A q, r \in relations : q.from = r.from /\ q.to = r.to => q = r

\* The moment a PostgreSQL reader has is whole, as what was shown last is.
MomentsWhole ==
  keeper = "postgres" =>
    /\ \A t \in TopologyThreads : editors[t].at = "relations" =>
         \A r \in editors[t].moment : Ends(r) \subseteq NodesIn(editors[t].nodes)
    /\ \A r \in shown.relations : Ends(r) \subseteq NodesIn(shown.nodes)

TopologyInv == TopologyTypeOK /\ EndsThere /\ NoneTwice /\ MomentsWhole

\* A larger set of nodes has more ends.
LEMMA MoreNodes ==
  ASSUME NEW S, NEW T, S \subseteq T
  PROVE  NodesIn(S) \subseteq NodesIn(T)
  BY DEF NodesIn

LEMMA TypeStep ==
  ASSUME TopologyTypeOK, [TopologyNext]_topologyVars
  PROVE  TopologyTypeOK'
<1> USE TopologyAssumption DEF TopologyTypeOK, Edit
<1>1. CASE CreateNode
  BY <1>1 DEF CreateNode
<1>2. ASSUME NEW n \in nodes, DeleteNode(n) PROVE TopologyTypeOK'
  BY <1>2 DEF DeleteNode, WithoutEnd
<1>3. ASSUME NEW r \in relations, DeleteRelation(r) PROVE TopologyTypeOK'
  BY <1>3 DEF DeleteRelation
<1>4. ASSUME NEW t \in TopologyThreads,
             NEW from \in NodesIn(1 .. MaxNodes), NEW to \in NodesIn(1 .. MaxNodes),
             AskForRelation(t, from, to)
      PROVE  TopologyTypeOK'
  <2>1. from \in AllNodes /\ to \in AllNodes
    BY DEF AllNodes, NodesIn
  <2> QED
    BY <1>4, <2>1 DEF AskForRelation, Editors
<1>5. ASSUME NEW t \in TopologyThreads, FindEnd(t) PROVE TopologyTypeOK'
  BY <1>5 DEF FindEnd, Editors, Waiting
<1>6. ASSUME NEW t \in TopologyThreads, FindDuplicate(t) PROVE TopologyTypeOK'
  BY <1>6 DEF FindDuplicate, Editors, Waiting
<1>7. ASSUME NEW t \in TopologyThreads, InsertRelation(t) PROVE TopologyTypeOK'
  <2>1. editors[t].from \in AllNodes /\ editors[t].to \in AllNodes
    BY <1>7 DEF InsertRelation, Editors, Waiting
  <2> QED
    BY <1>7, <2>1 DEF InsertRelation, Editors
<1>8. ASSUME NEW t \in TopologyThreads, ReadNodes(t) PROVE TopologyTypeOK'
  BY <1>8 DEF ReadNodes, Editors
<1>9. ASSUME NEW t \in TopologyThreads, ReadRelations(t) PROVE TopologyTypeOK'
  BY <1>9 DEF ReadRelations, Editors
<1>10. CASE UNCHANGED topologyVars
  BY <1>10 DEF topologyVars
<1> QED
  BY <1>1, <1>2, <1>3, <1>4, <1>5, <1>6, <1>7, <1>8, <1>9, <1>10 DEF TopologyNext

\* Relations keep their ends: a node goes with its relations, and the foreign keys
\* refuse a relation to a node that is gone.
LEMMA EndsStep ==
  ASSUME TopologyTypeOK, EndsThere, [TopologyNext]_topologyVars
  PROVE  EndsThere'
<1> USE DEF TopologyTypeOK, EndsThere, Ends
<1>1. CASE CreateNode
  <2>1. NodesIn(nodes) \subseteq NodesIn(nodes')
    BY <1>1, MoreNodes DEF CreateNode
  <2> QED
    BY <1>1, <2>1 DEF CreateNode
<1>2. ASSUME NEW n \in nodes, DeleteNode(n) PROVE EndsThere'
  <2> SUFFICES ASSUME NEW r \in relations', NEW e \in Ends(r) PROVE e \in NodesIn(nodes')
    OBVIOUS
  <2>1. r \in relations /\ e # Node(n)
    BY <1>2 DEF DeleteNode, WithoutEnd
  <2>2. e \in NodesIn(nodes)
    BY <2>1
  <2> QED
    BY <1>2, <2>1, <2>2 DEF DeleteNode, NodesIn, Node
<1>3. ASSUME NEW r \in relations, DeleteRelation(r) PROVE EndsThere'
  BY <1>3 DEF DeleteRelation
<1>4. ASSUME NEW t \in TopologyThreads, InsertRelation(t) PROVE EndsThere'
  BY <1>4 DEF InsertRelation, Accepted
<1> QED
  BY <1>1, <1>2, <1>3, <1>4 DEF TopologyNext, topologyVars, AskForRelation, FindEnd,
     FindDuplicate, ReadNodes, ReadRelations

LEMMA TwiceStep ==
  ASSUME TopologyTypeOK, NoneTwice, [TopologyNext]_topologyVars
  PROVE  NoneTwice'
<1> USE DEF NoneTwice
<1>1. ASSUME NEW n \in nodes, DeleteNode(n) PROVE NoneTwice'
  BY <1>1 DEF DeleteNode, WithoutEnd
<1>2. ASSUME NEW r \in relations, DeleteRelation(r) PROVE NoneTwice'
  BY <1>2 DEF DeleteRelation
<1>3. ASSUME NEW t \in TopologyThreads, InsertRelation(t) PROVE NoneTwice'
  BY <1>3 DEF InsertRelation, Accepted, Like
<1> QED
  BY <1>1, <1>2, <1>3 DEF TopologyNext, topologyVars, CreateNode, AskForRelation, FindEnd,
     FindDuplicate, ReadNodes, ReadRelations

\* A reader's moment is whole when it is taken, and is not changed until it is shown.
LEMMA MomentStep ==
  ASSUME TopologyTypeOK, EndsThere, MomentsWhole, [TopologyNext]_topologyVars
  PROVE  MomentsWhole'
<1> USE DEF TopologyTypeOK, MomentsWhole, Edit
<1>1. ASSUME NEW t \in TopologyThreads, ReadNodes(t) PROVE MomentsWhole'
  BY <1>1 DEF ReadNodes, EndsThere
<1>2. ASSUME NEW t \in TopologyThreads, ReadRelations(t) PROVE MomentsWhole'
  BY <1>2 DEF ReadRelations, RelationsRead, Waiting
<1>3. ASSUME NEW t \in TopologyThreads, FindEnd(t) PROVE MomentsWhole'
  BY <1>3 DEF FindEnd, Waiting, Editors
<1>4. ASSUME NEW t \in TopologyThreads, FindDuplicate(t) PROVE MomentsWhole'
  BY <1>4 DEF FindDuplicate, Waiting, Editors
<1>5. ASSUME NEW t \in TopologyThreads, InsertRelation(t) PROVE MomentsWhole'
  BY <1>5 DEF InsertRelation, Waiting
<1>6. ASSUME NEW t \in TopologyThreads, NEW from, NEW to, AskForRelation(t, from, to)
      PROVE  MomentsWhole'
  BY <1>6 DEF AskForRelation
<1> QED
  BY <1>1, <1>2, <1>3, <1>4, <1>5, <1>6 DEF TopologyNext, topologyVars, CreateNode,
     DeleteNode, DeleteRelation

\* Every relation has both ends at every moment; with PostgreSQL none is there
\* twice and none is shown without its ends (postgres_infrastructure.py and the
\* constraints of migrations/infrastructure_topology.py).
THEOREM TopologyAlwaysHolds == TopologySpec => []TopologyHolds
<1>1. TopologyInit => TopologyInv
  BY DEF TopologyInit, TopologyInv, TopologyTypeOK, EndsThere, NoneTwice, MomentsWhole, Editors, Waiting
<1>2. TopologyInv /\ [TopologyNext]_topologyVars => TopologyInv'
  BY TypeStep, EndsStep, TwiceStep, MomentStep DEF TopologyInv
<1>3. TopologyInv => TopologyHolds
  BY DEF TopologyInv, EndsThere, NoneTwice, MomentsWhole, TopologyHolds
<1> QED
  BY <1>1, <1>2, <1>3, PTL DEF TopologySpec

-----------------------------------------------------------------------------
(* Alerts *)

RuleRows == [severity : Severities, enabled : BOOLEAN]
AlertStatuses == Active \cup {"resolved"}
AlertRows == [rule : RuleIds, severity : Severities, status : AlertStatuses, escalations : Nat,
              history : Seq(AlertStatuses)]
Managers == [open : {TRUE}, rules : [RuleIds -> RuleRows \cup {NoRule}], active : SUBSET AlertIds]
Readings == [lock : {"update", "share"}, rule : RuleIds, row : RuleRows]

AlertsTypeOK ==
  /\ rules \in [RuleIds -> RuleRows \cup {NoRule}]
  /\ alerts \in [AlertIds -> AlertRows \cup {NoAlert}]
  /\ manager \in [AlertThreads -> Managers \cup {Closed}]
  /\ reading \in [AlertThreads -> Readings \cup {NoReading}]

Escalated(h) == {k \in 1..Len(h) : h[k] = "escalated"}

\* AlertHistoryTells of one alert, when the rules known are these.
Tells(alert, known) ==
  /\ alert.rule \in known
  /\ alert.status = IF alert.history = <<>> THEN "triggered" ELSE Last(alert.history)
  /\ alert.escalations = Cardinality(Escalated(alert.history))
  /\ \A k \in 1..(Len(alert.history) - 1) : alert.history[k] # "resolved"
  /\ \A k \in 1..(Len(alert.history) - 1) :
       ~(alert.history[k] = "acknowledged" /\ alert.history[k + 1] = "acknowledged")

AllTell == \A a \in AlertIds : alerts[a] # NoAlert => Tells(alerts[a], Known)

\* Only a request of SQLite has a manager.
ManagersOfSqlite == database = "postgres" => \A t \in AlertThreads : manager[t] = Closed

\* What a transaction of PostgreSQL has read is the rule as it still is, and enabled
\* when it is to raise an alert.
ReadingsAreCurrent ==
  \A t \in AlertThreads : reading[t] # NoReading =>
    /\ database = "postgres"
    /\ rules[reading[t].rule] = reading[t].row
    /\ reading[t].lock = "share" => reading[t].row.enabled

\* Only two that share a rule have both read it.
LocksExclude ==
  \A t, u \in AlertThreads :
    t # u /\ NoReading \notin {reading[t], reading[u]} /\ reading[t].rule = reading[u].rule
      => reading[t].lock = "share"

AlertsInv == AlertsTypeOK /\ AllTell /\ ManagersOfSqlite /\ ReadingsAreCurrent /\ LocksExclude

-----------------------------------------------------------------------------
(* Rows *)

LEMMA NoRows ==
  /\ NoRule \notin RuleRows /\ NoAlert \notin AlertRows /\ Closed \notin Managers
  /\ ~NoRule.enabled /\ ~Closed.open /\ NoAlert.status = "none"
  /\ NoReading \notin Readings /\ NoReading.lock = "none"
<1>0. NoReading.lock = "none" /\ NoReading \notin Readings
  BY DEF NoReading, Readings
<1>1. NoRule.severity \notin Severities
  BY DEF NoRule, Severities
<1>2. NoAlert.status = "none"
  BY DEF NoAlert
<1>3. ~NoRule.enabled /\ ~Closed.open
  BY Zenon DEF NoRule, Closed
<1>4. \A m \in Managers : m.open
  BY DEF Managers
<1> QED
  BY <1>0, <1>1, <1>2, <1>3, <1>4 DEF RuleRows, AlertRows, AlertStatuses, Active

LEMMA LoadedIs ==
  ASSUME AlertsTypeOK, NEW t \in AlertThreads, NEW r \in RuleIds
  PROVE  Loaded(t, r) \in RuleRows \cup {NoRule}
<1>1. CASE manager[t] \in Managers
  BY <1>1 DEF Loaded, Managers
<1>2. CASE manager[t] = Closed
  BY <1>2, NoRows DEF Loaded
<1> QED
  BY <1>1, <1>2 DEF AlertsTypeOK

LEMMA EditedIs ==
  ASSUME NEW rule \in RuleRows, NEW edit \in Edits
  PROVE  /\ Edited(rule, edit[1], edit[2]) \in RuleRows
         /\ \/ Edited(rule, edit[1], edit[2]).severity = rule.severity
            \/ Edited(rule, edit[1], edit[2]).enabled = rule.enabled
<1>1. CASE edit \in {"enabled"} \X BOOLEAN
  BY <1>1 DEF Edited, RuleRows
<1>2. CASE edit \in {"severity"} \X Severities
  BY <1>2 DEF Edited, RuleRows
<1> QED
  BY <1>1, <1>2 DEF Edits

LEMMA NewAlertIs ==
  ASSUME NEW r \in RuleIds, NEW rule \in RuleRows, NEW known, r \in known
  PROVE  /\ NewAlert(r, rule) \in AlertRows
         /\ NewAlert(r, rule).rule = r /\ NewAlert(r, rule).severity = rule.severity
         /\ Tells(NewAlert(r, rule), known)
<1> DEFINE n == NewAlert(r, rule)
<1>1. <<>> \in Seq(AlertStatuses) /\ Len(<<>>) = 0
  BY EmptySeq
<1>2. n.rule = r /\ n.severity = rule.severity /\ n.status = "triggered" /\ n.escalations = 0
      /\ n.history = <<>>
  BY DEF NewAlert
<1>3. n \in AlertRows
  BY <1>1 DEF NewAlert, AlertRows, AlertStatuses, Active, RuleRows
<1>4. Cardinality(Escalated(<<>>)) = 0
  <2>1. Escalated(<<>>) = {}
    BY <1>1 DEF Escalated
  <2> QED
    BY <2>1, FS_EmptySet
<1> HIDE DEF n
<1>5. Tells(n, known)
  BY <1>1, <1>2, <1>4 DEF Tells
<1> QED
  BY <1>2, <1>3, <1>5 DEF n

LEMMA EscalatedAppend ==
  ASSUME NEW h \in Seq(AlertStatuses), NEW s \in AlertStatuses
  PROVE  /\ Cardinality(Escalated(h)) \in Nat
         /\ Cardinality(Escalated(Append(h, s))) =
              IF s = "escalated" THEN Cardinality(Escalated(h)) + 1 ELSE Cardinality(Escalated(h))
<1> DEFINE g == Append(h, s)
<1>1. /\ Len(h) \in Nat /\ Len(g) = Len(h) + 1
      /\ \A k \in 1..Len(h) : g[k] = h[k]
      /\ g[Len(h) + 1] = s
  BY AppendProperties, LenProperties
<1> HIDE DEF g
<1>2. IsFiniteSet(Escalated(h))
  <2>1. IsFiniteSet(1..Len(h)) /\ Escalated(h) \subseteq 1..Len(h)
    BY <1>1, FS_Interval DEF Escalated
  <2> QED
    BY <2>1, FS_Subset
<1>3. Len(h) + 1 \notin Escalated(h)
  BY <1>1 DEF Escalated
<1>4. Escalated(g) = IF s = "escalated" THEN Escalated(h) \cup {Len(h) + 1} ELSE Escalated(h)
  BY <1>1 DEF Escalated
<1>5. /\ Cardinality(Escalated(h)) \in Nat
      /\ Cardinality(Escalated(h) \cup {Len(h) + 1}) = Cardinality(Escalated(h)) + 1
  BY <1>2, <1>3, FS_AddElement, FS_CardinalityType
<1> QED
  BY <1>4, <1>5 DEF g

\* An alert that moves tells of it, when it was not resolved and is not acknowledged twice.
LEMMA MovedIs ==
  ASSUME NEW alert \in AlertRows, NEW known, Tells(alert, known), NEW status \in AlertStatuses,
         alert.status \in Active, status = "acknowledged" => alert.status # "acknowledged"
  PROVE  Moved(alert, status) \in AlertRows /\ Tells(Moved(alert, status), known)
<1> DEFINE h == alert.history
           m == Moved(alert, status)
           g == Append(h, status)
<1>1. h \in Seq(AlertStatuses) /\ alert.escalations \in Nat
  BY DEF AlertRows
<1>2. /\ Len(h) \in Nat /\ Len(g) = Len(h) + 1 /\ g \in Seq(AlertStatuses)
      /\ \A k \in 1..Len(h) : g[k] = h[k]
      /\ g[Len(h) + 1] = status
  BY <1>1, AppendProperties, LenProperties
<1>3. /\ m \in AlertRows /\ m.rule = alert.rule /\ m.status = status /\ m.history = g
      /\ m.escalations = IF status = "escalated" THEN alert.escalations + 1 ELSE alert.escalations
  <2> DEFINE e == IF status = "escalated" THEN alert.escalations + 1 ELSE alert.escalations
  <2>1. m = [alert EXCEPT !.status = status, !.history = g, !.escalations = e]
    BY DEF Moved
  <2>2. e \in Nat
    BY <1>1
  <2> HIDE DEF m, g, e
  <2>3. m \in AlertRows /\ m.rule = alert.rule /\ m.status = status /\ m.history = g /\ m.escalations = e
    BY <1>2, <2>1, <2>2 DEF AlertRows
  <2> QED
    BY <2>3 DEF e
<1>4. m.escalations = Cardinality(Escalated(g))
  BY <1>1, <1>3, EscalatedAppend DEF Tells
<1>5. Len(h) # 0 => h[Len(h)] = alert.status
  <2>1. Len(h) # 0 => h # <<>>
    BY EmptySeq
  <2> QED
    BY <2>1 DEF Tells, Last
<1>6. g # <<>> /\ Last(g) = status
  <2> HIDE DEF g
  <2>1. Len(g) \in Nat /\ Len(g) # 0 /\ g[Len(g)] = status
    BY <1>2
  <2>2. g # <<>>
    BY <2>1, EmptySeq
  <2> QED
    BY <2>1, <2>2 DEF Last
<1> HIDE DEF g, m
<1>7. ASSUME NEW k \in 1..(Len(g) - 1)
      PROVE  g[k] # "resolved" /\ ~(g[k] = "acknowledged" /\ g[k + 1] = "acknowledged")
  <2>1. CASE k = Len(h)
    BY <1>2, <1>5, <2>1 DEF Active
  <2>2. CASE k # Len(h)
    <3>1. k \in 1..(Len(h) - 1) /\ g[k] = h[k] /\ g[k + 1] = h[k + 1]
      BY <1>2, <2>2
    <3> QED
      BY <3>1 DEF Tells
  <2> QED
    BY <2>1, <2>2
<1>8. Tells(m, known)
  BY <1>3, <1>4, <1>6, <1>7 DEF Tells
<1> QED
  BY <1>3, <1>8 DEF m

-----------------------------------------------------------------------------
(* Steps *)

\* What a request does to the rules, and what to the alerts.
RulesMove ==
  \/ UNCHANGED <<rules, alerts>>
  \/ \E r \in RuleIds :
       /\ UNCHANGED alerts
       /\ \/ \E rule \in RuleRows : rules' = [rules EXCEPT ![r] = rule]
          \/ ~Referenced(r) /\ rules' = [rules EXCEPT ![r] = NoRule]

AlertsMove ==
  /\ UNCHANGED rules
  /\ \E a \in AlertIds :
       \/ \E r \in Known : \E rule \in RuleRows :
            alerts[a] = NoAlert /\ alerts' = [alerts EXCEPT ![a] = NewAlert(r, rule)]
       \/ \E status \in AlertStatuses :
            /\ alerts[a].status \in Active
            /\ status = "acknowledged" => alerts[a].status # "acknowledged"
            /\ alerts' = [alerts EXCEPT ![a] = Moved(alerts[a], status)]

LEMMA RequestsMove ==
  ASSUME AlertsTypeOK, [AlertsNext]_alertVars
  PROVE  RulesMove \/ AlertsMove
<1>1. ASSUME NEW t \in AlertThreads, OpenManager(t) \/ SqliteRefuse(t)
      PROVE  RulesMove
  BY <1>1 DEF OpenManager, SqliteRefuse, RulesMove
<1>2. ASSUME NEW t \in AlertThreads, NEW r \in RuleIds, NEW s \in Severities, SqliteCreateRule(t, r, s)
      PROVE  RulesMove
  BY <1>2 DEF SqliteCreateRule, RulesMove, RuleRows
<1>3. ASSUME NEW t \in AlertThreads, NEW r \in RuleIds, NEW edit \in Edits, SqliteUpdateRule(t, r, edit)
      PROVE  RulesMove
  <2>1. Loaded(t, r) \in RuleRows
    BY <1>3, LoadedIs DEF SqliteUpdateRule
  <2> QED
    BY <1>3, <2>1, EditedIs DEF SqliteUpdateRule, RulesMove
<1>4. ASSUME NEW t \in AlertThreads, NEW r \in RuleIds, SqliteDeleteRule(t, r)
      PROVE  RulesMove
  BY <1>4 DEF SqliteDeleteRule, RulesMove
<1>5. ASSUME NEW t \in AlertThreads, NEW r \in RuleIds, NEW a \in AlertIds, SqliteTrigger(t, a, r)
      PROVE  AlertsMove
  <2>1. Loaded(t, r) \in RuleRows
    <3>1. Loaded(t, r) # NoRule
      BY <1>5, NoRows DEF SqliteTrigger
    <3> QED
      BY <3>1, LoadedIs
  <2> QED
    BY <1>5, <2>1 DEF SqliteTrigger, AlertsMove, Known
<1>6. ASSUME NEW t \in AlertThreads, NEW a \in AlertIds,
             SqliteAcknowledge(t, a) \/ SqliteResolve(t, a) \/ SqliteEscalate(t, a)
      PROVE  AlertsMove
  BY <1>6 DEF SqliteAcknowledge, SqliteResolve, SqliteEscalate, AlertsMove, MayMove, AlertStatuses, Active
<1>7. ASSUME NEW r \in RuleIds, NEW s \in Severities, PgCreateRule(r, s)
      PROVE  RulesMove
  BY <1>7 DEF PgCreateRule, RulesMove, RuleRows
<1>8. ASSUME NEW t \in AlertThreads, NEW edit \in Edits, PgUpdateRule(t, edit)
      PROVE  RulesMove
  <2>1. reading[t].rule \in RuleIds /\ reading[t].row \in RuleRows
    BY <1>8, NoRows DEF PgUpdateRule, AlertsTypeOK, Readings
  <2> QED
    BY <1>8, <2>1, EditedIs DEF PgUpdateRule, RulesMove
<1>9. ASSUME NEW r \in RuleIds, PgDeleteRule(r)
      PROVE  RulesMove
  BY <1>9 DEF PgDeleteRule, RulesMove
<1>10. ASSUME NEW t \in AlertThreads, NEW a \in AlertIds, PgTrigger(t, a)
       PROVE  AlertsMove
  <2>1. reading[t].rule \in Known /\ reading[t].row \in RuleRows
    BY <1>10, NoRows DEF PgTrigger, AlertsTypeOK, Readings, Known
  <2> QED
    BY <1>10, <2>1 DEF PgTrigger, AlertsMove
<1>11. ASSUME NEW a \in AlertIds, PgAcknowledge(a) \/ PgResolveAlert(a) \/ PgEscalate(a)
       PROVE  AlertsMove
  BY <1>11 DEF PgAcknowledge, PgResolveAlert, PgEscalate, AlertsMove, MayMove, AlertStatuses, Active
<1>12. CASE UNCHANGED alertVars
  BY <1>12 DEF alertVars, RulesMove
<1>13. ASSUME NEW t \in AlertThreads, PgRollBack(t) \/ \E r, lock : PgReadRule(t, r, lock)
       PROVE  RulesMove
  BY <1>13 DEF PgReadRule, PgRollBack, RulesMove
<1> HIDE DEF RulesMove, AlertsMove
<1> QED
  BY <1>1, <1>2, <1>3, <1>4, <1>5, <1>6, <1>7, <1>8, <1>9, <1>10, <1>11, <1>12, <1>13 DEF AlertsNext

LEMMA ManagersStay ==
  ASSUME AlertsTypeOK, ManagersOfSqlite, [AlertsNext]_alertVars
  PROVE  manager' \in [AlertThreads -> Managers \cup {Closed}] /\ ManagersOfSqlite' /\ database' = database
<1>1. manager \in [AlertThreads -> Managers \cup {Closed}]
  BY DEF AlertsTypeOK
<1>2. ASSUME NEW t \in AlertThreads, OpenManager(t)
      PROVE  manager' \in [AlertThreads -> Managers \cup {Closed}] /\ ManagersOfSqlite' /\ database' = database
  <2> DEFINE m == [open |-> TRUE, rules |-> rules, active |-> {a \in AlertIds : IsActive(a)}]
  <2>1. m \in Managers
    BY DEF Managers, AlertsTypeOK
  <2>2. manager' = [manager EXCEPT ![t] = m] /\ database = "sqlite" /\ database' = database
    BY <1>2 DEF OpenManager
  <2> HIDE DEF m
  <2> QED
    BY <1>1, <2>1, <2>2 DEF ManagersOfSqlite
<1>3. ASSUME NEW t \in AlertThreads, CloseManager(t), UNCHANGED database
      PROVE  manager' \in [AlertThreads -> Managers \cup {Closed}] /\ ManagersOfSqlite' /\ database' = database
  BY <1>1, <1>3 DEF CloseManager, ManagersOfSqlite
<1>4. ASSUME UNCHANGED <<manager, database>>
      PROVE  manager' \in [AlertThreads -> Managers \cup {Closed}] /\ ManagersOfSqlite' /\ database' = database
  BY <1>1, <1>4 DEF ManagersOfSqlite
<1> QED
  BY <1>2, <1>3, <1>4
  DEF AlertsNext, alertVars, SqliteCreateRule, SqliteUpdateRule, SqliteDeleteRule, SqliteTrigger,
      SqliteAcknowledge, SqliteResolve, SqliteEscalate, SqliteRefuse, PgCreateRule, PgUpdateRule,
      PgDeleteRule, PgTrigger, PgAcknowledge, PgResolveAlert, PgEscalate, PgReadRule, PgRollBack

LEMMA ReadingsStay ==
  ASSUME AlertsInv, [AlertsNext]_alertVars
  PROVE  /\ reading' \in [AlertThreads -> Readings \cup {NoReading}]
         /\ ReadingsAreCurrent' /\ LocksExclude'
<1> DEFINE Stay ==
      /\ reading' \in [AlertThreads -> Readings \cup {NoReading}]
      /\ ReadingsAreCurrent' /\ LocksExclude'
<1>1. /\ rules \in [RuleIds -> RuleRows \cup {NoRule}]
      /\ reading \in [AlertThreads -> Readings \cup {NoReading}]
      /\ ReadingsAreCurrent /\ LocksExclude /\ database' = database
      /\ \A t \in AlertThreads : reading[t] # NoReading => reading[t] \in Readings
  BY ManagersStay DEF AlertsInv, AlertsTypeOK
<1>2. ASSUME UNCHANGED <<rules, reading>>
      PROVE  Stay
  BY <1>1, <1>2 DEF ReadingsAreCurrent, LocksExclude
<1>3. ASSUME NEW t \in AlertThreads, EndReading(t),
             \A u \in AlertThreads : u # t /\ reading[u] # NoReading
               => rules'[reading[u].rule] = rules[reading[u].rule]
      PROVE  Stay
  BY <1>1, <1>3 DEF EndReading, ReadingsAreCurrent, LocksExclude
<1>4. ASSUME UNCHANGED reading,
             \A u \in AlertThreads : reading[u] # NoReading
               => rules'[reading[u].rule] = rules[reading[u].rule]
      PROVE  Stay
  BY <1>1, <1>4 DEF ReadingsAreCurrent, LocksExclude
<1>5. ASSUME NEW t \in AlertThreads, manager[t].open, UNCHANGED reading
      PROVE  Stay
  <2>1. database # "postgres"
    BY <1>5, NoRows DEF AlertsInv, ManagersOfSqlite
  <2>2. \A u \in AlertThreads : reading[u] = NoReading
    BY <1>1, <2>1 DEF ReadingsAreCurrent
  <2> QED
    BY <1>4, <1>5, <2>2
<1>6. ASSUME NEW t \in AlertThreads, NEW r \in RuleIds,
             \/ \E s \in Severities : SqliteCreateRule(t, r, s)
             \/ \E edit \in Edits : SqliteUpdateRule(t, r, edit)
             \/ SqliteDeleteRule(t, r)
      PROVE  Stay
  <2>1. manager[t].open
    BY <1>6, NoRows DEF SqliteCreateRule, SqliteUpdateRule, SqliteDeleteRule, Loaded
  <2> QED
    BY <1>5, <1>6, <2>1 DEF SqliteCreateRule, SqliteUpdateRule, SqliteDeleteRule
<1>7. ASSUME NEW r \in RuleIds, \E s \in Severities : PgCreateRule(r, s)
      PROVE  Stay
  <2>1. rules[r] = NoRule /\ \A q \in RuleIds : q # r => rules'[q] = rules[q]
    BY <1>1, <1>7 DEF PgCreateRule
  <2>2. ASSUME NEW u \in AlertThreads, reading[u] # NoReading
        PROVE  rules'[reading[u].rule] = rules[reading[u].rule]
    <3>1. reading[u].row \in RuleRows /\ reading[u].rule \in RuleIds
      BY <1>1, <2>2 DEF Readings
    <3>2. rules[reading[u].rule] = reading[u].row
      BY <1>1, <2>2 DEF ReadingsAreCurrent
    <3> QED
      BY <2>1, <3>1, <3>2, NoRows
  <2> QED
    BY <1>4, <1>7, <2>2 DEF PgCreateRule
<1>8. ASSUME NEW r \in RuleIds, PgDeleteRule(r)
      PROVE  Stay
  <2>1. \A q \in RuleIds : q # r => rules'[q] = rules[q]
    BY <1>1, <1>8 DEF PgDeleteRule
  <2>2. \A u \in AlertThreads : reading[u] # NoReading => reading[u].rule # r
    BY <1>8 DEF PgDeleteRule, InTheWay
  <2>3. \A u \in AlertThreads : reading[u] # NoReading => reading[u].rule \in RuleIds
    BY <1>1 DEF Readings
  <2> QED
    BY <1>4, <1>8, <2>1, <2>2, <2>3 DEF PgDeleteRule
<1>9. ASSUME NEW t \in AlertThreads, NEW edit \in Edits, PgUpdateRule(t, edit)
      PROVE  Stay
  <2>1. reading[t] # NoReading /\ reading[t].rule \in RuleIds /\ reading[t].lock = "update"
    BY <1>1, <1>9, NoRows DEF PgUpdateRule, Readings
  <2>2. \A u \in AlertThreads : u # t /\ reading[u] # NoReading => reading[u].rule # reading[t].rule
    <3>1. ASSUME NEW u \in AlertThreads, u # t, reading[u] # NoReading,
                 reading[u].rule = reading[t].rule
          PROVE  FALSE
      <4>1. reading[t].lock = "share"
        BY <1>1, <2>1, <3>1 DEF LocksExclude
      <4> QED
        BY <2>1, <4>1
    <3> QED
      BY <3>1
  <2>3. \A q \in RuleIds : q # reading[t].rule => rules'[q] = rules[q]
    BY <1>1, <1>9 DEF PgUpdateRule
  <2>4. \A u \in AlertThreads : reading[u] # NoReading => reading[u].rule \in RuleIds
    BY <1>1 DEF Readings
  <2>5. EndReading(t)
    BY <1>9 DEF PgUpdateRule
  <2> QED
    BY <1>3, <2>2, <2>3, <2>4, <2>5
<1>10. ASSUME NEW t \in AlertThreads, PgRollBack(t) \/ \E a \in AlertIds : PgTrigger(t, a)
       PROVE  Stay
  BY <1>3, <1>10 DEF PgRollBack, PgTrigger
<1>11. ASSUME NEW t \in AlertThreads, NEW r \in RuleIds, NEW lock \in {"update", "share"},
              PgReadRule(t, r, lock)
       PROVE  Stay
  <2> DEFINE new == [lock |-> lock, rule |-> r, row |-> rules[r]]
  <2>1. /\ database = "postgres" /\ rules[r] \in RuleRows /\ (lock = "share" => rules[r].enabled)
        /\ rules' = rules /\ reading' = [reading EXCEPT ![t] = new] /\ ~InTheWay(r, lock)
    BY <1>1, <1>11 DEF PgReadRule
  <2>2. new \in Readings /\ new.lock = lock /\ new.rule = r /\ new.row = rules[r]
    BY <2>1 DEF Readings
  <2> HIDE DEF new
  <2>3. /\ reading' \in [AlertThreads -> Readings \cup {NoReading}]
        /\ reading'[t] = new /\ \A u \in AlertThreads : u # t => reading'[u] = reading[u]
    BY <1>1, <2>1, <2>2
  <2>4. ReadingsAreCurrent'
    BY <1>1, <2>1, <2>2, <2>3 DEF ReadingsAreCurrent
  <2>5. ASSUME NEW u \in AlertThreads, reading[u] # NoReading, reading[u].rule = r
        PROVE  lock = "share" /\ reading[u].lock = "share"
    <3>1. "update" \notin {lock, reading[u].lock}
      BY <2>1, <2>5 DEF InTheWay
    <3>2. reading[u].lock \in {"update", "share"}
      BY <1>1, <2>5 DEF Readings
    <3> QED
      BY <3>1, <3>2
  <2>6. LocksExclude'
    <3>1. ASSUME NEW u \in AlertThreads, NEW v \in AlertThreads, u # v,
                 NoReading \notin {reading'[u], reading'[v]}, reading'[u].rule = reading'[v].rule
          PROVE  reading'[u].lock = "share"
      <4>1. CASE u = t
        <5>1. reading[v] # NoReading /\ reading[v].rule = r
          BY <2>2, <2>3, <3>1, <4>1
        <5> QED
          BY <2>2, <2>3, <2>5, <4>1, <5>1
      <4>2. CASE v = t
        <5>1. reading[u] # NoReading /\ reading[u].rule = r /\ reading'[u] = reading[u]
          BY <2>2, <2>3, <3>1, <4>2
        <5> QED
          BY <2>5, <5>1
      <4>3. CASE u # t /\ v # t
        BY <1>1, <2>3, <3>1, <4>3 DEF LocksExclude
      <4> QED
        BY <4>1, <4>2, <4>3
    <3> QED
      BY <3>1 DEF LocksExclude
  <2> QED
    BY <2>3, <2>4, <2>6
<1> HIDE DEF Stay
<1>12. UNCHANGED alertVars => Stay
  BY <1>2 DEF alertVars
<1>13. ASSUME NEW t \in AlertThreads, OpenManager(t) \/ SqliteRefuse(t)
       PROVE  Stay
  BY <1>2, <1>13 DEF OpenManager, SqliteRefuse
<1>14. ASSUME NEW t \in AlertThreads, NEW r \in RuleIds, NEW a \in AlertIds,
              SqliteTrigger(t, a, r)
       PROVE  Stay
  BY <1>2, <1>14 DEF SqliteTrigger
<1>15. ASSUME NEW a \in AlertIds, PgAcknowledge(a) \/ PgResolveAlert(a) \/ PgEscalate(a)
       PROVE  Stay
  BY <1>2, <1>15 DEF PgAcknowledge, PgResolveAlert, PgEscalate
<1>16. ASSUME NEW t \in AlertThreads, NEW a \in AlertIds,
              SqliteAcknowledge(t, a) \/ SqliteResolve(t, a) \/ SqliteEscalate(t, a)
       PROVE  Stay
  BY <1>2, <1>16 DEF SqliteAcknowledge, SqliteResolve, SqliteEscalate
<1>17. AlertsNext => Stay
  BY <1>6, <1>7, <1>8, <1>9, <1>10, <1>11, <1>13, <1>14, <1>15, <1>16 DEF AlertsNext
<1> QED
  BY <1>12, <1>17 DEF Stay

\* A rule that an alert is of is never deleted, so what was known for it stays known.
LEMMA RulesStay ==
  ASSUME AlertsInv, RulesMove
  PROVE  /\ rules' \in [RuleIds -> RuleRows \cup {NoRule}] /\ alerts' \in [AlertIds -> AlertRows \cup {NoAlert}]
         /\ AllTell'
<1>1. /\ rules \in [RuleIds -> RuleRows \cup {NoRule}]
      /\ alerts \in [AlertIds -> AlertRows \cup {NoAlert}] /\ alerts' = alerts
      /\ \A a \in AlertIds : alerts[a] # NoAlert => Tells(alerts[a], Known)
  BY DEF AlertsInv, AlertsTypeOK, RulesMove, AllTell
<1>2. rules' \in [RuleIds -> RuleRows \cup {NoRule}]
  BY <1>1 DEF RulesMove
<1>3. ASSUME NEW a \in AlertIds, alerts[a] # NoAlert
      PROVE  alerts[a].rule \in Known'
  <2>1. alerts[a].rule \in RuleIds /\ rules[alerts[a].rule] # NoRule /\ Referenced(alerts[a].rule)
    BY <1>1, <1>3, NoRows DEF Tells, Known, Referenced, AlertRows, AlertStatuses, Active
  <2>2. ASSUME NEW r \in RuleIds, NEW rule \in RuleRows, rules' = [rules EXCEPT ![r] = rule]
        PROVE  alerts[a].rule \in Known'
    BY <1>1, <2>1, <2>2, NoRows DEF Known
  <2>3. ASSUME NEW r \in RuleIds, ~Referenced(r), rules' = [rules EXCEPT ![r] = NoRule]
        PROVE  alerts[a].rule \in Known'
    <3>1. alerts[a].rule # r
      BY <2>1, <2>3
    <3> QED
      BY <1>1, <2>1, <2>3, <3>1 DEF Known
  <2> QED
    BY <2>1, <2>2, <2>3 DEF RulesMove, Known
<1>4. ASSUME NEW a \in AlertIds, alerts[a] # NoAlert
      PROVE  Tells(alerts[a], Known')
  BY <1>1, <1>3, <1>4 DEF Tells
<1> QED
  BY <1>1, <1>2, <1>4 DEF AllTell

LEMMA AlertsStay ==
  ASSUME AlertsInv, AlertsMove
  PROVE  /\ rules' \in [RuleIds -> RuleRows \cup {NoRule}] /\ alerts' \in [AlertIds -> AlertRows \cup {NoAlert}]
         /\ AllTell'
<1>1. /\ rules \in [RuleIds -> RuleRows \cup {NoRule}] /\ rules' = rules
      /\ alerts \in [AlertIds -> AlertRows \cup {NoAlert}]
      /\ \A a \in AlertIds : alerts[a] # NoAlert => Tells(alerts[a], Known)
  BY DEF AlertsInv, AlertsTypeOK, AlertsMove, AllTell
<1>2. Known' = Known
  BY <1>1 DEF Known
<1>3. PICK a \in AlertIds, alert \in AlertRows :
        Tells(alert, Known) /\ alerts' = [alerts EXCEPT ![a] = alert]
  <2>1. PICK a \in AlertIds :
       \/ \E r \in Known : \E rule \in RuleRows :
            alerts[a] = NoAlert /\ alerts' = [alerts EXCEPT ![a] = NewAlert(r, rule)]
       \/ \E status \in AlertStatuses :
            /\ alerts[a].status \in Active
            /\ status = "acknowledged" => alerts[a].status # "acknowledged"
            /\ alerts' = [alerts EXCEPT ![a] = Moved(alerts[a], status)]
    BY DEF AlertsMove
  <2>2. ASSUME NEW r \in Known, NEW rule \in RuleRows, alerts' = [alerts EXCEPT ![a] = NewAlert(r, rule)]
        PROVE  \E alert \in AlertRows : Tells(alert, Known) /\ alerts' = [alerts EXCEPT ![a] = alert]
    <3>1. r \in RuleIds
      BY DEF Known
    <3> QED
      BY <2>2, <3>1, NewAlertIs
  <2>3. ASSUME NEW status \in AlertStatuses, alerts[a].status \in Active,
               status = "acknowledged" => alerts[a].status # "acknowledged",
               alerts' = [alerts EXCEPT ![a] = Moved(alerts[a], status)]
        PROVE  \E alert \in AlertRows : Tells(alert, Known) /\ alerts' = [alerts EXCEPT ![a] = alert]
    <3>1. alerts[a] \in AlertRows /\ Tells(alerts[a], Known)
      BY <1>1, <2>3, NoRows DEF Active
    <3> QED
      BY <2>3, <3>1, MovedIs
  <2> QED
    BY <2>1, <2>2, <2>3
<1> QED
  BY <1>1, <1>2, <1>3 DEF AllTell

-----------------------------------------------------------------------------
(* The theorems *)

LEMMA AlertsStart ==
  ASSUME AlertsInit
  PROVE  AlertsInv
  BY DEF AlertsInit, AlertsInv, AlertsTypeOK, AllTell, ManagersOfSqlite, ReadingsAreCurrent,
         LocksExclude

LEMMA AlertsInvStays ==
  ASSUME AlertsInv, [AlertsNext]_alertVars
  PROVE  AlertsInv'
<1>1. RulesMove \/ AlertsMove
  BY RequestsMove DEF AlertsInv
<1>2. /\ rules' \in [RuleIds -> RuleRows \cup {NoRule}] /\ alerts' \in [AlertIds -> AlertRows \cup {NoAlert}]
      /\ AllTell'
  BY <1>1, RulesStay, AlertsStay
<1>3. manager' \in [AlertThreads -> Managers \cup {Closed}] /\ ManagersOfSqlite'
  BY ManagersStay DEF AlertsInv
<1>4. reading' \in [AlertThreads -> Readings \cup {NoReading}] /\ ReadingsAreCurrent' /\ LocksExclude'
  BY ReadingsStay
<1> QED
  BY <1>2, <1>3, <1>4 DEF AlertsInv, AlertsTypeOK

\* What an alert is always follows from its rows of alert_history, whichever requests
\* decided by state they had loaded before.
THEOREM HistoryTells == AlertsSpec => []AlertHistoryTells
<1>1. ASSUME AlertsInv
      PROVE  AlertHistoryTells
  BY <1>1 DEF AlertsInv, AllTell, Tells, Escalated, AlertHistoryTells
<1> QED
  BY <1>1, AlertsStart, AlertsInvStays, PTL DEF AlertsSpec

\* No step with PostgreSQL loses an edit of a rule or raises an alert by an older rule.
THEOREM RulesStayCurrent == AlertsSpec => RulesAreCurrent
<1> DEFINE
      EditsOne ==
        \A r \in RuleIds : NoRule \notin {rules[r], rules'[r]} =>
          rules'[r].severity = rules[r].severity \/ rules'[r].enabled = rules[r].enabled
      RaisedByRule ==
        \A a \in AlertIds : alerts[a] = NoAlert /\ alerts'[a] # NoAlert =>
          LET rule == rules[alerts'[a].rule]
          IN rule.enabled /\ alerts'[a].severity = rule.severity
<1>1. ASSUME AlertsInv, [AlertsNext]_alertVars, database = "postgres"
      PROVE  EditsOne /\ RaisedByRule
  <2>1. /\ rules \in [RuleIds -> RuleRows \cup {NoRule}]
        /\ alerts \in [AlertIds -> AlertRows \cup {NoAlert}]
        /\ \A t \in AlertThreads : ~manager[t].open /\ \A r \in RuleIds : Loaded(t, r) = NoRule
    BY <1>1, NoRows DEF AlertsInv, AlertsTypeOK, ManagersOfSqlite, Loaded
  <2>2. ASSUME UNCHANGED <<rules, alerts>>
        PROVE  EditsOne /\ RaisedByRule
    BY <2>2
  <2>0. ASSUME NEW t \in AlertThreads, reading[t].lock \in {"update", "share"}
        PROVE  /\ reading[t].rule \in RuleIds /\ reading[t].row \in RuleRows
               /\ rules[reading[t].rule] = reading[t].row
               /\ reading[t].lock = "share" => reading[t].row.enabled
    <3>1. reading[t] # NoReading /\ reading[t] \in Readings
      BY <1>1, <2>0, NoRows DEF AlertsInv, AlertsTypeOK
    <3> QED
      BY <1>1, <3>1 DEF AlertsInv, ReadingsAreCurrent, Readings
  <2>3. ASSUME NEW t \in AlertThreads, NEW edit \in Edits, PgUpdateRule(t, edit)
        PROVE  EditsOne /\ RaisedByRule
    <3> DEFINE r == reading[t].rule
    <3>1. /\ r \in RuleIds /\ rules[r] \in RuleRows
          /\ rules' = [rules EXCEPT ![r] = Edited(rules[r], edit[1], edit[2])]
          /\ alerts' = alerts
      BY <2>0, <2>3 DEF PgUpdateRule
    <3> HIDE DEF r
    <3>2. \/ Edited(rules[r], edit[1], edit[2]).severity = rules[r].severity
          \/ Edited(rules[r], edit[1], edit[2]).enabled = rules[r].enabled
      BY <3>1, EditedIs
    <3> QED
      BY <2>1, <3>1, <3>2
  <2>4. ASSUME NEW r \in RuleIds, NEW rule \in RuleRows \cup {NoRule}, NoRule \in {rules[r], rule},
               rules' = [rules EXCEPT ![r] = rule], alerts' = alerts
        PROVE  EditsOne /\ RaisedByRule
    BY <2>1, <2>4
  <2>5. ASSUME NEW t \in AlertThreads, NEW a \in AlertIds, PgTrigger(t, a)
        PROVE  EditsOne /\ RaisedByRule
    <3> DEFINE r == reading[t].rule
    <3>1. /\ r \in RuleIds /\ rules' = rules /\ rules[r].enabled
          /\ alerts' = [alerts EXCEPT ![a] = NewAlert(r, rules[r])]
      BY <2>0, <2>5 DEF PgTrigger
    <3> HIDE DEF r
    <3>2. NewAlert(r, rules[r]).rule = r /\ NewAlert(r, rules[r]).severity = rules[r].severity
      BY DEF NewAlert
    <3> QED
      BY <2>1, <3>1, <3>2
  <2>6. ASSUME NEW a \in AlertIds, NEW alert, alerts[a].status \in Active,
               alerts' = [alerts EXCEPT ![a] = alert], rules' = rules
        PROVE  EditsOne /\ RaisedByRule
    BY <2>1, <2>6, NoRows DEF Active
  <2>7. ASSUME NEW r \in RuleIds, NEW s \in Severities, PgCreateRule(r, s)
        PROVE  EditsOne /\ RaisedByRule
    BY <2>4, <2>7 DEF PgCreateRule, RuleRows
  <2>8. ASSUME NEW r \in RuleIds, PgDeleteRule(r)
        PROVE  EditsOne /\ RaisedByRule
    BY <2>4, <2>8 DEF PgDeleteRule
  <2>9. ASSUME NEW a \in AlertIds, PgAcknowledge(a) \/ PgResolveAlert(a) \/ PgEscalate(a)
        PROVE  EditsOne /\ RaisedByRule
    <3>1. \E alert : alerts' = [alerts EXCEPT ![a] = alert]
      BY <2>9 DEF PgAcknowledge, PgResolveAlert, PgEscalate
    <3>2. alerts[a].status \in Active /\ rules' = rules
      BY <2>9 DEF PgAcknowledge, PgResolveAlert, PgEscalate, MayMove, Active
    <3> HIDE DEF EditsOne, RaisedByRule
    <3> QED
      BY <2>6, <3>1, <3>2
  <2>10. ASSUME NEW t \in AlertThreads, NEW r \in RuleIds
         PROVE  /\ ~OpenManager(t) /\ ~SqliteRefuse(t)
                /\ \A s : ~SqliteCreateRule(t, r, s)
                /\ \A edit : ~SqliteUpdateRule(t, r, edit)
                /\ ~SqliteDeleteRule(t, r) /\ \A a : ~SqliteTrigger(t, a, r)
    <3>1. ~Loaded(t, r).enabled
      BY <2>1, NoRows
    <3> QED
      BY <1>1, <2>1, <3>1 DEF OpenManager, SqliteRefuse, SqliteCreateRule, SqliteUpdateRule, SqliteDeleteRule,
         SqliteTrigger
  <2>11. ASSUME NEW t \in AlertThreads
         PROVE  /\ ~OpenManager(t) /\ ~SqliteRefuse(t)
                /\ \A a : ~SqliteAcknowledge(t, a) /\ ~SqliteResolve(t, a) /\ ~SqliteEscalate(t, a)
    BY <1>1, <2>1 DEF OpenManager, SqliteRefuse, SqliteAcknowledge, SqliteResolve, SqliteEscalate, Holds
  <2>12. CASE UNCHANGED alertVars
    BY <2>2, <2>12 DEF alertVars
  <2>13. ASSUME NEW t \in AlertThreads, PgRollBack(t) \/ \E r, lock : PgReadRule(t, r, lock)
         PROVE  EditsOne /\ RaisedByRule
    BY <2>2, <2>13 DEF PgRollBack, PgReadRule
  <2> HIDE DEF EditsOne, RaisedByRule
  <2> QED
    BY <1>1, <2>3, <2>5, <2>7, <2>8, <2>9, <2>10, <2>11, <2>12, <2>13 DEF AlertsNext
<1>2. ASSUME AlertsInv, [AlertsNext]_alertVars
      PROVE  [database = "postgres" => EditsOne /\ RaisedByRule]_alertVars
  BY <1>1, <1>2
<1>3. AlertsInv /\ [AlertsNext]_alertVars => [database = "postgres" => EditsOne /\ RaisedByRule]_alertVars
  BY <1>2
<1> QED
  BY <1>3, AlertsStart, AlertsInvStays, PTL DEF AlertsSpec, RulesAreCurrent

-----------------------------------------------------------------------------
(* Logins *)

UserRows == [id : Nat, hash : {"dated", "current"}, enabled : BOOLEAN]
LoginLimits == [failed : Nat, active : BOOLEAN]

\* An attempt names a key once it has begun, and an account once it is looked up.
Attempts ==
  {NoAttempt}
    \cup [at : {"checked"}, key : LoginKeys, right : BOOLEAN]
    \cup [at : {"verified", "refused", "counting", "admitting"}, key : LoginKeys, id : Nat,
          hash : {"dated", "current"}]

LoginsTypeOK ==
  /\ backend \in {"sqlite", "postgres"}
  /\ users \in [LoginKeys -> UserRows]
  /\ limits \in [LoginKeys -> LoginLimits]
  /\ logins \in [LoginThreads -> Attempts]
  /\ sessions \in [LoginThreads -> Nat]
  /\ racing \in [LoginKeys -> SUBSET LoginThreads]

\* What an attempt knows, by where it is.
LEMMA AttemptAt ==
  ASSUME LoginsTypeOK, NEW t \in LoginThreads, logins[t].at # "idle"
  PROVE  /\ logins[t].key \in LoginKeys
         /\ logins[t].at # "checked" => logins[t].id \in Nat /\ logins[t].hash \in {"dated", "current"}
         /\ logins[t].at = "checked" => logins[t].right \in BOOLEAN
  BY DEF LoginsTypeOK, Attempts, NoAttempt

\* A failure counted is a limit again.
LEMMA CountedIsLimit ==
  ASSUME LoginsTypeOK, NEW k \in LoginKeys
  PROVE  Counted(limits[k]) \in LoginLimits
  BY DEF LoginsTypeOK, LoginLimits, Counted, Locks

\* The second look of an attempt, and what it becomes.
LEMMA LookEffect ==
  ASSUME LoginsTypeOK, NEW t \in LoginThreads, LookAgain(t)
  PROVE  /\ logins[t].at \in {"verified", "refused"} /\ AsOf(t) \in LoginKeys
         /\ logins'[t] \in Attempts /\ AsOf(t)' = AsOf(t)
         /\ logins'[t].id = logins[t].id /\ logins'[t].hash = logins[t].hash
         /\ logins'[t].at \in {"counting", "admitting"}
         /\ logins'[t].at = "admitting" =>
              Revalidated(t) /\ ~RowLocked(AsOf(t), logins[t].id)
<1>1. logins[t].at \in {"verified", "refused"}
  BY DEF LookAgain, InTransaction
<1>2. logins[t] \in [at : {"verified", "refused", "counting", "admitting"}, key : LoginKeys,
                     id : Nat, hash : {"dated", "current"}]
  BY <1>1 DEF LoginsTypeOK, Attempts, NoAttempt
<1>3. PICK verdict \in {"counting", "admitting"} :
        /\ logins' = [logins EXCEPT ![t].at = verdict]
        /\ verdict = "admitting" => logins[t].at = "verified" /\ Revalidated(t)
  BY DEF LookAgain
<1>4. logins'[t] = [logins[t] EXCEPT !.at = verdict]
  BY <1>3 DEF LoginsTypeOK
<1>5. logins'[t] \in Attempts /\ AsOf(t)' = AsOf(t) /\ logins'[t].id = logins[t].id
      /\ logins'[t].hash = logins[t].hash /\ logins'[t].at = verdict
  BY <1>2, <1>4 DEF Attempts, AsOf
<1>6. AsOf(t) \in LoginKeys
  BY <1>2 DEF AsOf
<1>7. logins[t].at = "verified" => ~RowLocked(AsOf(t), logins[t].id)
  BY DEF LookAgain, InTransaction
<1> QED
  BY <1>1, <1>3, <1>5, <1>6, <1>7

\* Every step keeps the types (postgres_login.py, app.py login).
LEMMA LoginsTypeStep == LoginsTypeOK /\ [LoginsNext]_loginVars => LoginsTypeOK'
<1> SUFFICES ASSUME LoginsTypeOK, [LoginsNext]_loginVars PROVE LoginsTypeOK'
  OBVIOUS
<1> USE LoginsAssumption DEF LoginsTypeOK
<1>1. ASSUME NEW k \in LoginKeys, CreateAccount(k) PROVE LoginsTypeOK'
  BY <1>1 DEF CreateAccount, UserRows
<1>2. ASSUME NEW k \in LoginKeys, DeleteAccount(k) PROVE LoginsTypeOK'
  BY <1>2 DEF DeleteAccount, UserRows
<1>3. ASSUME NEW k \in LoginKeys, LockExpires(k) PROVE LoginsTypeOK'
  BY <1>3 DEF LockExpires, LoginLimits
<1>4. ASSUME NEW t \in LoginThreads, NEW k \in LoginKeys, NEW right \in BOOLEAN,
             CheckLimit(t, k, right)
      PROVE  LoginsTypeOK'
  BY <1>4 DEF CheckLimit, Attempts
<1>5. ASSUME NEW t \in LoginThreads, VerifyPassword(t) PROVE LoginsTypeOK'
  <2>1. logins[t].key \in LoginKeys
    BY <1>5, AttemptAt DEF VerifyPassword
  <2>2. users[logins[t].key] \in UserRows
    BY <2>1
  <2>3. \A right : Verified(right) \in {"verified", "refused", "counting", "admitting"}
    BY DEF Verified
  <2>4. logins'[t] \in Attempts
    BY <1>5, <2>1, <2>2, <2>3 DEF VerifyPassword, AsOf, Attempts, UserRows
  <2> QED
    BY <1>5, <2>4 DEF VerifyPassword
<1>6. ASSUME NEW t \in LoginThreads, CountFailure(t) PROVE LoginsTypeOK'
  <2>1. logins[t].key \in LoginKeys
    BY <1>6, AttemptAt DEF CountFailure
  <2>2. Counted(limits[logins[t].key]) \in LoginLimits
    BY <2>1, CountedIsLimit
  <2>3. RacingAfter(t, logins[t].key) \in SUBSET LoginThreads
    BY DEF RacingAfter
  <2> QED
    BY <1>6, <2>1, <2>2, <2>3 DEF CountFailure, AsOf, EndsAttempt, Attempts
<1>7. ASSUME NEW t \in LoginThreads, Succeed(t) PROVE LoginsTypeOK'
  <2>1. logins[t].key \in LoginKeys /\ logins[t].id \in Nat
    BY <1>7, AttemptAt DEF Succeed
  <2>2. NoLimit \in LoginLimits
    BY DEF NoLimit, LoginLimits
  <2>3. users' \in [LoginKeys -> UserRows]
    BY <1>7, <2>1 DEF Succeed, AsOf, UserRows
  <2> QED
    BY <1>7, <2>1, <2>2, <2>3 DEF Succeed, AsOf, EndsAttempt, Attempts
<1>8. ASSUME NEW t \in LoginThreads, LookAgain(t) PROVE LoginsTypeOK'
  BY <1>8, LookEffect DEF LookAgain
<1>9. ASSUME NEW t \in LoginThreads, RefuseLocked(t) PROVE LoginsTypeOK'
  BY <1>9 DEF RefuseLocked, EndsAttempt, Attempts
<1>10. ASSUME NEW t \in LoginThreads, ServeSession(t) \/ Logout(t) PROVE LoginsTypeOK'
  BY <1>10 DEF ServeSession, Logout
<1>11. CASE UNCHANGED loginVars
  BY <1>11 DEF loginVars
<1> QED
  BY <1>1, <1>2, <1>3, <1>4, <1>5, <1>6, <1>7, <1>8, <1>9, <1>10, <1>11 DEF LoginsNext

-----------------------------------------------------------------------------

\* Whoever has looked for the last time looked before the lock that is active was set.
RacersKnown ==
  \A k \in LoginKeys, t \in LoginThreads :
    limits[k].active /\ PastLastLook(t) /\ AsOf(t) = k => t \in racing[k]

\* PostgreSQL: an account that is admitted is as it was verified, and its row is held
\* by one attempt.
RowsHeld ==
  backend = "postgres" =>
    /\ \A t \in LoginThreads : logins[t].at = "admitting" => Revalidated(t)
    /\ \A t, u \in LoginThreads :
         logins[t].at = "admitting" /\ logins[u].at = "admitting" /\ AsOf(t) = AsOf(u) => t = u

LoginsInv == LoginsTypeOK /\ RacersKnown /\ RowsHeld

\* The attempts that a step does not touch look no later than before.
LEMMA RacersStay ==
  ASSUME LoginsInv, [LoginsNext]_loginVars
  PROVE  RacersKnown'
<1> USE DEF LoginsInv
<1>1. LoginsTypeOK /\ RacersKnown
  OBVIOUS
<1>2. ASSUME NEW t \in LoginThreads, CountFailure(t) PROVE RacersKnown'
  <2>1. AsOf(t) \in LoginKeys
    BY <1>2, AttemptAt DEF CountFailure, AsOf
  <2>2. /\ logins' = [logins EXCEPT ![t] = NoAttempt] /\ backend' = backend
        /\ limits' = [limits EXCEPT ![AsOf(t)] = Counted(limits[AsOf(t)])]
        /\ racing' = [racing EXCEPT ![AsOf(t)] = RacingAfter(t, AsOf(t))]
    BY <1>2 DEF CountFailure, EndsAttempt
  <2>3. ASSUME NEW k \in LoginKeys, NEW u \in LoginThreads,
               limits'[k].active, PastLastLook(u)', AsOf(u)' = k
        PROVE  u \in racing'[k]
    <3>1. u # t
      BY <2>2, <2>3 DEF PastLastLook, NoAttempt, LoginsTypeOK
    <3>2. PastLastLook(u) /\ AsOf(u) = k
      BY <2>2, <2>3, <3>1 DEF PastLastLook, AsOf, LoginsTypeOK
    <3>3. CASE k # AsOf(t)
      BY <1>1, <2>2, <2>3, <3>2, <3>3 DEF RacersKnown, LoginsTypeOK
    <3>4. CASE k = AsOf(t)
      <4>1. Counted(limits[k]).active /\ racing'[k] = RacingAfter(t, k)
        BY <2>1, <2>2, <2>3, <3>4 DEF LoginsTypeOK
      <4>2. limits[k].active => u \in racing[k]
        BY <1>1, <3>2 DEF RacersKnown
      <4> QED
        BY <3>1, <3>2, <4>1, <4>2 DEF RacingAfter
    <3> QED
      BY <3>3, <3>4
  <2> QED
    BY <2>3 DEF RacersKnown
<1>3. ASSUME NEW t \in LoginThreads, Succeed(t) PROVE RacersKnown'
  <2>1. AsOf(t) \in LoginKeys
    BY <1>3, AttemptAt DEF Succeed, AsOf
  <2>2. /\ logins' = [logins EXCEPT ![t] = NoAttempt] /\ backend' = backend
        /\ limits' = [limits EXCEPT ![AsOf(t)] = NoLimit]
        /\ racing' = [racing EXCEPT ![AsOf(t)] = {}]
    BY <1>3 DEF Succeed, EndsAttempt
  <2>3. ASSUME NEW k \in LoginKeys, NEW u \in LoginThreads,
               limits'[k].active, PastLastLook(u)', AsOf(u)' = k
        PROVE  u \in racing'[k]
    <3>1. k # AsOf(t)
      BY <2>1, <2>2, <2>3 DEF NoLimit, LoginsTypeOK
    <3>2. u # t
      BY <2>2, <2>3 DEF PastLastLook, NoAttempt, LoginsTypeOK
    <3>3. PastLastLook(u) /\ AsOf(u) = k
      BY <2>2, <2>3, <3>2 DEF PastLastLook, AsOf, LoginsTypeOK
    <3> QED
      BY <1>1, <2>2, <2>3, <3>1, <3>3 DEF RacersKnown, LoginsTypeOK
  <2> QED
    BY <2>3 DEF RacersKnown
<1>4. ASSUME NEW j \in LoginKeys, LockExpires(j) PROVE RacersKnown'
  <2>1. ASSUME NEW k \in LoginKeys, limits'[k].active PROVE limits[k].active /\ racing'[k] = racing[k]
    BY <1>1, <1>4, <2>1 DEF LockExpires, LoginsTypeOK, LoginLimits
  <2>2. logins' = logins /\ backend' = backend
    BY <1>4 DEF LockExpires
  <2> QED
    BY <1>1, <2>1, <2>2 DEF RacersKnown, PastLastLook, AsOf
\* An attempt that looks finds no lock; one that had looked keeps its key.
<1>5. ASSUME NEW t \in LoginThreads, UNCHANGED <<backend, limits, racing>>,
             \A u \in LoginThreads \ {t} : logins'[u] = logins[u],
             PastLastLook(t)' =>
               ~limits[AsOf(t)'].active \/ (PastLastLook(t) /\ AsOf(t)' = AsOf(t))
      PROVE  RacersKnown'
  <2>1. ASSUME NEW k \in LoginKeys, NEW u \in LoginThreads,
               limits'[k].active, PastLastLook(u)', AsOf(u)' = k
        PROVE  u \in racing'[k]
    <3>1. PastLastLook(u) /\ AsOf(u) = k
      <4>1. CASE u = t
        BY <1>5, <2>1, <4>1
      <4>2. CASE u # t
        BY <1>5, <2>1, <4>2 DEF PastLastLook, AsOf
      <4> QED
        BY <4>1, <4>2
    <3> QED
      BY <1>1, <1>5, <2>1, <3>1 DEF RacersKnown
  <2> QED
    BY <2>1 DEF RacersKnown
<1>6. ASSUME NEW t \in LoginThreads, NEW k \in LoginKeys, NEW right \in BOOLEAN,
             CheckLimit(t, k, right)
      PROVE  RacersKnown'
  <2>1. /\ UNCHANGED <<backend, limits, racing>> /\ ~limits[k].active
        /\ logins' = [logins EXCEPT ![t] = [at |-> "checked", key |-> k, right |-> right]]
    BY <1>6 DEF CheckLimit
  <2>2. AsOf(t)' = k /\ \A u \in LoginThreads \ {t} : logins'[u] = logins[u]
    BY <1>1, <2>1 DEF AsOf, LoginsTypeOK
  <2> QED
    BY <1>5, <2>1, <2>2
<1>7. ASSUME NEW t \in LoginThreads, VerifyPassword(t) PROVE RacersKnown'
  <2>1. UNCHANGED <<backend, limits, racing>> /\ logins[t].at = "checked"
    BY <1>7 DEF VerifyPassword
  <2>2. PICK right \in BOOLEAN :
          logins' = [logins EXCEPT ![t] = [at |-> Verified(right), key |-> AsOf(t),
                       id |-> users[AsOf(t)].id, hash |-> users[AsOf(t)].hash]]
    <3>1. logins[t].key \in LoginKeys /\ logins[t].right \in BOOLEAN
      BY <1>1, <2>1, AttemptAt
    <3>2. (users[AsOf(t)].enabled /\ logins[t].right) \in BOOLEAN
      BY <1>1, <3>1 DEF AsOf, LoginsTypeOK, UserRows
    <3> QED
      BY <1>7, <3>2 DEF VerifyPassword
  <2>3. /\ AsOf(t)' = AsOf(t) /\ logins'[t].at = Verified(right)
        /\ \A u \in LoginThreads \ {t} : logins'[u] = logins[u]
    BY <1>1, <2>2 DEF AsOf, LoginsTypeOK
  <2>4. PastLastLook(t)' => PastLastLook(t)
    BY <1>1, <2>1, <2>3 DEF PastLastLook, Verified, LoginsTypeOK
  <2> QED
    BY <1>5, <2>1, <2>3, <2>4
<1>8. ASSUME NEW t \in LoginThreads, LookAgain(t) PROVE RacersKnown'
  <2>1. UNCHANGED <<backend, limits, racing>> /\ ~limits[AsOf(t)].active
    BY <1>8 DEF LookAgain, StillFree
  <2>2. AsOf(t)' = AsOf(t)
    BY <1>1, <1>8, LookEffect
  <2>3. \A u \in LoginThreads \ {t} : logins'[u] = logins[u]
    BY <1>1, <1>8 DEF LookAgain, LoginsTypeOK
  <2> QED
    BY <1>5, <2>1, <2>2, <2>3
<1>9. ASSUME NEW t \in LoginThreads, RefuseLocked(t) PROVE RacersKnown'
  <2>1. UNCHANGED <<backend, limits, racing>> /\ logins' = [logins EXCEPT ![t] = NoAttempt]
    BY <1>9 DEF RefuseLocked, EndsAttempt
  <2>2. ~PastLastLook(t)' /\ \A u \in LoginThreads \ {t} : logins'[u] = logins[u]
    BY <1>1, <2>1 DEF PastLastLook, NoAttempt, LoginsTypeOK
  <2> QED
    BY <1>5, <2>1, <2>2
<1>10. ASSUME UNCHANGED <<backend, limits, logins, racing>> PROVE RacersKnown'
  BY <1>1, <1>10 DEF RacersKnown, PastLastLook, AsOf
<1> QED
  BY <1>2, <1>3, <1>4, <1>6, <1>7, <1>8, <1>9, <1>10
  DEF LoginsNext, loginVars, CreateAccount, DeleteAccount, ServeSession, Logout

\* While a row is held nobody else takes, changes or deletes it.
LEMMA RowsStayHeld ==
  ASSUME LoginsInv, [LoginsNext]_loginVars
  PROVE  RowsHeld'
<1> SUFFICES ASSUME backend' = "postgres"
             PROVE  /\ \A t \in LoginThreads : logins'[t].at = "admitting" => Revalidated(t)'
                    /\ \A t, u \in LoginThreads :
                         logins'[t].at = "admitting" /\ logins'[u].at = "admitting"
                         /\ AsOf(t)' = AsOf(u)' => t = u
  BY DEF RowsHeld
<1>0. /\ backend = "postgres" /\ LoginsTypeOK
      /\ \A t \in LoginThreads : logins[t].at = "admitting" =>
           Revalidated(t) /\ AsOf(t) \in LoginKeys
      /\ \A t, u \in LoginThreads :
           logins[t].at = "admitting" /\ logins[u].at = "admitting" /\ AsOf(t) = AsOf(u) => t = u
  <2>1. backend = "postgres"
    BY DEF LoginsNext, loginVars, CreateAccount, DeleteAccount, LockExpires, CheckLimit,
       VerifyPassword, LookAgain, RefuseLocked, CountFailure, Succeed, ServeSession, Logout
  <2> QED
    BY <2>1, AttemptAt DEF LoginsInv, RowsHeld, AsOf
\* Who is admitted was so before, or has just looked; accounts that are admitted stay.
<1>1. ASSUME UNCHANGED users,
             \A t \in LoginThreads : logins'[t].at = "admitting" => logins'[t] = logins[t]
      PROVE  RowsHeld'
  BY <1>0, <1>1 DEF RowsHeld, Revalidated, AsOf
<1>2. ASSUME NEW t \in LoginThreads, UNCHANGED users, logins' = [logins EXCEPT ![t] = NoAttempt]
      PROVE  RowsHeld'
  <2>1. \A u \in LoginThreads : logins'[u].at = "admitting" => logins'[u] = logins[u]
    BY <1>0, <1>2 DEF NoAttempt, LoginsTypeOK
  <2> QED
    BY <1>1, <1>2, <2>1
<1>3. ASSUME NEW k \in LoginKeys, CreateAccount(k) PROVE RowsHeld'
  <2>1. \A t \in LoginThreads : logins[t].at = "admitting" => AsOf(t) # k
    BY <1>0, <1>3 DEF CreateAccount, Revalidated
  <2>2. logins' = logins /\ \A j \in LoginKeys \ {k} : users'[j] = users[j]
    BY <1>0, <1>3 DEF CreateAccount, LoginsTypeOK
  <2> QED
    BY <1>0, <2>1, <2>2 DEF RowsHeld, Revalidated, AsOf
<1>4. ASSUME NEW k \in LoginKeys, DeleteAccount(k) PROVE RowsHeld'
  <2>1. \A t \in LoginThreads : logins[t].at = "admitting" => AsOf(t) # k
    BY <1>0, <1>4 DEF DeleteAccount, Revalidated, RowLocked
  <2>2. logins' = logins /\ \A j \in LoginKeys \ {k} : users'[j] = users[j]
    BY <1>0, <1>4 DEF DeleteAccount, LoginsTypeOK
  <2> QED
    BY <1>0, <2>1, <2>2 DEF RowsHeld, Revalidated, AsOf
<1>5. ASSUME NEW t \in LoginThreads, Succeed(t) PROVE RowsHeld'
  <2>1. /\ logins[t].at = "admitting" /\ logins' = [logins EXCEPT ![t] = NoAttempt]
        /\ \A j \in LoginKeys \ {AsOf(t)} : users'[j] = users[j]
    BY <1>0, <1>5 DEF Succeed, EndsAttempt, LoginsTypeOK
  <2>2. ASSUME NEW u \in LoginThreads, logins'[u].at = "admitting"
        PROVE  logins'[u] = logins[u] /\ AsOf(u) # AsOf(t) /\ AsOf(u) \in LoginKeys
    <3>1. u # t /\ logins'[u] = logins[u]
      BY <1>0, <2>1, <2>2 DEF NoAttempt, LoginsTypeOK
    <3> QED
      BY <1>0, <2>1, <2>2, <3>1
  <2> QED
    BY <1>0, <2>1, <2>2 DEF RowsHeld, Revalidated, AsOf
<1>6. ASSUME NEW t \in LoginThreads, NEW k \in LoginKeys, NEW right \in BOOLEAN,
             CheckLimit(t, k, right)
      PROVE  RowsHeld'
  <2>1. \A u \in LoginThreads : logins'[u].at = "admitting" => logins'[u] = logins[u]
    BY <1>0, <1>6 DEF CheckLimit, LoginsTypeOK
  <2> QED
    BY <1>1, <1>6, <2>1 DEF CheckLimit
<1>7. ASSUME NEW t \in LoginThreads, VerifyPassword(t) PROVE RowsHeld'
  <2>1. \A right : Verified(right) # "admitting"
    BY <1>0 DEF Verified
  <2>2. \A u \in LoginThreads : logins'[u].at = "admitting" => logins'[u] = logins[u]
    BY <1>0, <1>7, <2>1 DEF VerifyPassword, LoginsTypeOK
  <2> QED
    BY <1>1, <1>7, <2>2 DEF VerifyPassword
<1>8. ASSUME NEW t \in LoginThreads, LookAgain(t) PROVE RowsHeld'
  <2>1. /\ users' = users /\ AsOf(t)' = AsOf(t)
        /\ logins'[t].id = logins[t].id /\ logins'[t].hash = logins[t].hash
        /\ logins'[t].at = "admitting" => Revalidated(t) /\ ~RowLocked(AsOf(t), logins[t].id)
    BY <1>0, <1>8, LookEffect DEF LookAgain
  <2>2. \A u \in LoginThreads \ {t} : logins'[u] = logins[u]
    BY <1>0, <1>8 DEF LookAgain, LoginsTypeOK
  <2>3. ASSUME NEW u \in LoginThreads, logins'[u].at = "admitting" PROVE Revalidated(u)'
    <3>1. CASE u = t
      BY <2>1, <2>3, <3>1 DEF Revalidated, AsOf
    <3>2. CASE u # t
      BY <1>0, <2>1, <2>2, <2>3, <3>2 DEF Revalidated, AsOf
    <3> QED
      BY <3>1, <3>2
  <2>4. ASSUME NEW u \in LoginThreads \ {t}, logins'[t].at = "admitting",
               logins'[u].at = "admitting", AsOf(u)' = AsOf(t)'
        PROVE  FALSE
    <3>1. logins[u].at = "admitting" /\ Revalidated(u) /\ AsOf(u) = AsOf(t) /\ Revalidated(t)
      BY <1>0, <2>1, <2>2, <2>4 DEF AsOf
    <3>2. logins[u].id = logins[t].id
      BY <3>1 DEF Revalidated
    <3> QED
      BY <1>0, <2>1, <2>4, <3>1, <3>2 DEF RowLocked
  <2>5. ASSUME NEW u \in LoginThreads \ {t}, NEW v \in LoginThreads \ {t},
               logins'[u].at = "admitting", logins'[v].at = "admitting", AsOf(u)' = AsOf(v)'
        PROVE  u = v
    BY <1>0, <2>2, <2>5 DEF AsOf
  <2> QED
    BY <2>3, <2>4, <2>5 DEF RowsHeld
<1>9. ASSUME UNCHANGED <<users, logins>> PROVE RowsHeld'
  BY <1>1, <1>9
<1>10. RowsHeld'
  BY <1>2, <1>3, <1>4, <1>5, <1>6, <1>7, <1>8, <1>9
  DEF LoginsNext, loginVars, CountFailure, RefuseLocked, EndsAttempt, LockExpires, ServeSession,
      Logout
<1> QED
  BY <1>10 DEF RowsHeld

LEMMA LoginsAlwaysInv == LoginsSpec => []LoginsInv
<1>1. LoginsInit => LoginsInv
  <2> SUFFICES ASSUME LoginsInit PROVE LoginsInv
    OBVIOUS
  <2>1. LoginsTypeOK
    BY DEF LoginsInit, LoginsTypeOK, UserRows, LoginLimits, Attempts, NoLimit
  <2>2. RacersKnown
    BY DEF LoginsInit, RacersKnown, NoLimit
  <2>3. RowsHeld
    BY DEF LoginsInit, RowsHeld, NoAttempt
  <2> QED
    BY <2>1, <2>2, <2>3 DEF LoginsInv
<1>2. LoginsInv /\ [LoginsNext]_loginVars => LoginsInv'
  BY LoginsTypeStep, RacersStay, RowsStayHeld DEF LoginsInv
<1> QED
  BY <1>1, <1>2, PTL DEF LoginsSpec

-----------------------------------------------------------------------------

\* Only the transaction that ends an attempt well begins a session, for the
\* account that was verified (authenticate_user, then login_user).
LEMMA OnlySucceedAdmits ==
  ASSUME LoginsTypeOK, LoginsNext, NEW t \in LoginThreads, Admitted(t)
  PROVE  Succeed(t) /\ sessions'[t] = logins[t].id
<1>1. ASSUME NEW u \in LoginThreads, Succeed(u) PROVE Succeed(t) /\ sessions'[t] = logins[t].id
  <2>1. u = t
    BY <1>1 DEF Succeed, Admitted, LoginsTypeOK
  <2> QED
    BY <1>1, <2>1 DEF Succeed, LoginsTypeOK
<1>2. ASSUME NEW u \in LoginThreads, ServeSession(u) \/ Logout(u) PROVE FALSE
  BY <1>2 DEF ServeSession, Logout, Admitted, LoginsTypeOK
<1> QED
  BY <1>1, <1>2 DEF LoginsNext, Admitted, CreateAccount, DeleteAccount, LockExpires,
     CheckLimit, VerifyPassword, CountFailure, LookAgain, RefuseLocked

\* A verdict is written by the transaction that counts a failure or admits.
LEMMA VerdictsAre ==
  ASSUME LoginsTypeOK, LoginsNext, NEW t \in LoginThreads, HasVerdict(t)
  PROVE  CountFailure(t) \/ Succeed(t)
<1>1. logins[t].at \in {"counting", "admitting"} /\ logins'[t] # logins[t]
  BY DEF HasVerdict
<1>2. ASSUME NEW u \in LoginThreads, u # t,
             \E attempt : logins' = [logins EXCEPT ![u] = attempt]
      PROVE  FALSE
  BY <1>1, <1>2 DEF LoginsTypeOK
<1>3. ASSUME NEW u \in LoginThreads, CountFailure(u) PROVE CountFailure(t)
  BY <1>2, <1>3 DEF CountFailure, EndsAttempt
<1>4. ASSUME NEW u \in LoginThreads, Succeed(u) PROVE Succeed(t)
  BY <1>2, <1>4 DEF Succeed, EndsAttempt
<1>5. ASSUME NEW u \in LoginThreads, RefuseLocked(u) PROVE FALSE
  BY <1>1, <1>2, <1>5 DEF RefuseLocked, EndsAttempt, InTransaction
<1>6. ASSUME NEW u \in LoginThreads, VerifyPassword(u) PROVE FALSE
  BY <1>1, <1>2, <1>6 DEF VerifyPassword
<1>7. ASSUME NEW u \in LoginThreads, LookAgain(u) PROVE FALSE
  BY <1>1, <1>7 DEF LookAgain, InTransaction, LoginsTypeOK
<1>8. ASSUME NEW u \in LoginThreads, NEW k \in LoginKeys, NEW right \in BOOLEAN,
             CheckLimit(u, k, right)
      PROVE  FALSE
  BY <1>1, <1>2, <1>8 DEF CheckLimit
<1> QED
  BY <1>1, <1>3, <1>4, <1>5, <1>6, <1>7, <1>8
  DEF LoginsNext, CreateAccount, DeleteAccount, LockExpires, ServeSession, Logout

\* A lock holds against every attempt that looks after it is set (postgres_login.py,
\* authenticate_user), for any number of them.
THEOREM LocksAlwaysHold == LoginsSpec => LocksHold
<1> DEFINE LockHolds ==
      \A t \in LoginThreads : HasVerdict(t) /\ limits[AsOf(t)].active =>
        t \in racing[AsOf(t)] /\ t \notin racing'[AsOf(t)]
<1>1. LoginsInv /\ [LoginsNext]_loginVars => [LockHolds]_loginVars
  <2> SUFFICES ASSUME LoginsInv, LoginsNext, NEW t \in LoginThreads, HasVerdict(t),
                      limits[AsOf(t)].active
               PROVE  t \in racing[AsOf(t)] /\ t \notin racing'[AsOf(t)]
    OBVIOUS
  <2>1. AsOf(t) \in LoginKeys /\ PastLastLook(t)
    BY AttemptAt DEF LoginsInv, HasVerdict, PastLastLook, AsOf
  <2>2. t \in racing[AsOf(t)]
    BY <2>1 DEF LoginsInv, RacersKnown
  <2> DEFINE k == AsOf(t)
  <2>0. racing \in [LoginKeys -> SUBSET LoginThreads]
    BY DEF LoginsInv, LoginsTypeOK
  <2>3. ASSUME NEW left, racing' = [racing EXCEPT ![k] = left], t \notin left
        PROVE  t \notin racing'[k]
    <3>1. k \in LoginKeys
      BY <2>1
    <3> HIDE DEF k
    <3> QED
      BY <2>0, <2>3, <3>1
  <2>4. t \notin racing'[k]
    <3>1. CASE CountFailure(t)
      <4>1. t \notin RacingAfter(t, k) /\ racing' = [racing EXCEPT ![k] = RacingAfter(t, k)]
        BY <3>1 DEF CountFailure, RacingAfter
      <4> QED
        BY <2>3, <4>1
    <3>2. CASE Succeed(t)
      <4>1. racing' = [racing EXCEPT ![k] = {}]
        BY <3>2 DEF Succeed
      <4> QED
        BY <2>3, <4>1
    <3> QED
      BY <3>1, <3>2, VerdictsAre DEF LoginsInv
  <2> QED
    BY <2>2, <2>4
<1> QED
  BY <1>1, LoginsAlwaysInv, PTL DEF LoginsSpec, LocksHold

\* With PostgreSQL a session is one of the account that is there when it begins.
THEOREM SessionsAlwaysCurrent == LoginsSpec => SessionsAreCurrent
<1> DEFINE Current ==
      backend = "postgres" =>
        \A t \in LoginThreads : Admitted(t) =>
          users[AsOf(t)].enabled /\ sessions'[t] = users[AsOf(t)].id
<1>1. LoginsInv /\ [LoginsNext]_loginVars => [Current]_loginVars
  <2> SUFFICES ASSUME LoginsInv, LoginsNext, backend = "postgres",
                      NEW t \in LoginThreads, Admitted(t)
               PROVE  users[AsOf(t)].enabled /\ sessions'[t] = users[AsOf(t)].id
    OBVIOUS
  <2>1. Succeed(t) /\ sessions'[t] = logins[t].id
    BY OnlySucceedAdmits DEF LoginsInv
  <2>2. Revalidated(t)
    BY <2>1 DEF Succeed, LoginsInv, RowsHeld
  <2> QED
    BY <2>1, <2>2 DEF Revalidated
<1> QED
  BY <1>1, LoginsAlwaysInv, PTL DEF LoginsSpec, SessionsAreCurrent

-----------------------------------------------------------------------------
(* Incidents *)

\* What joining evidence keeps, and what it is.
LEMMA JoinedKeeps ==
  ASSUME NEW known \in EvidenceRows, NEW new \in EvidenceRows
  PROVE  /\ Joined(known, new) \in EvidenceRows
         /\ DOMAIN known \subseteq DOMAIN Joined(known, new)
         /\ \A e \in DOMAIN known : Joined(known, new)[e] = known[e]
<1>1. PICK S \in SUBSET EvidenceIds : known \in [S -> Findings]
  BY DEF EvidenceRows
<1>2. PICK T \in SUBSET EvidenceIds : new \in [T -> Findings]
  BY DEF EvidenceRows
<1>3. Joined(known, new) \in [S \cup T -> Findings]
  BY <1>1, <1>2 DEF Joined
<1>4. S \cup T \in SUBSET EvidenceIds
  OBVIOUS
<1> QED
  BY <1>1, <1>2, <1>3, <1>4 DEF EvidenceRows, Joined

\* A history that tells a status.
RowTells(history, status) ==
  /\ history # <<>>
  /\ history[1] = [old |-> "none", new |-> "open"]
  /\ history[Len(history)].new = status
  /\ \A k \in 2..Len(history) :
       /\ history[k].old = history[k - 1].new
       /\ history[k].old = "resolved" => history[k].new = "open"
       /\ history[k].old # history[k].new

IncidentsInv == IncidentsTypeOK /\ HistoryTellsStatus

\* A row that is written fits its place and keeps what the old one says.
Keeps(old, new) ==
  /\ new.content = old.content /\ new.created = old.created
  /\ \A e \in DOMAIN old.evidence :
       e \in DOMAIN new.evidence /\ new.evidence[e] = old.evidence[e]
  /\ Len(new.history) >= Len(old.history)
  /\ \A k \in 1..Len(old.history) : new.history[k] = old.history[k]

Good(row) == row \in IncidentRow /\ RowTells(row.history, row.status)

LEMMA GoodRows ==
  IncidentsInv <=> Saved \subseteq IncidentIds /\ \A id \in Saved : Good(incidents[id])
  BY DEF IncidentsInv, IncidentsTypeOK, HistoryTellsStatus, Good, RowTells

LEMMA StoredIsGood ==
  ASSUME NEW incident \in NewIncidents
  PROVE  Good(StoredRow(incident))
<1>1. StoredRow(incident).history \in Seq(HistoryEntry)
  BY DEF StoredRow, HistoryEntry, Statuses
<1> QED
  BY <1>1 DEF StoredRow, NewIncidents, IncidentRow, Good, RowTells, Statuses

LEMMA MergedIsGood ==
  ASSUME IncidentsInv, NEW incident \in NewIncidents
  PROVE  /\ Good(Merged(incident))
         /\ incident.id \in Saved => Keeps(incidents[incident.id], Merged(incident))
<1>1. CASE incident.id \in Saved
  <2> DEFINE row == incidents[incident.id]
  <2>1. Good(row)
    BY <1>1, GoodRows
  <2>2. row.evidence \in EvidenceRows /\ incident.evidence \in EvidenceRows
    BY <2>1 DEF Good, IncidentRow, NewIncidents
  <2>3. Merged(incident) = [row EXCEPT !.evidence = Joined(row.evidence, incident.evidence)]
    BY <1>1 DEF Merged
  <2> HIDE DEF row
  <2> QED
    BY <2>1, <2>2, <2>3, JoinedKeeps DEF Good, IncidentRow, Keeps, row
<1>2. CASE incident.id \notin Saved
  BY <1>2, StoredIsGood DEF Merged
<1> QED
  BY <1>1, <1>2

LEMMA SaveManyStep ==
  ASSUME IncidentsInv, NEW batch \in SUBSET NewIncidents, SaveMany(batch)
  PROVE  /\ IncidentsInv'
         /\ \A id \in Saved : id \in Saved' /\ Keeps(incidents[id], incidents'[id])
<1>1. Saved' = Saved \cup {incident.id : incident \in batch}
  BY DEF SaveMany, Saved
<1>2. Saved' \subseteq IncidentIds
  BY <1>1 DEF IncidentsInv, IncidentsTypeOK, NewIncidents
<1>3. ASSUME NEW id \in Saved'
      PROVE  Good(incidents'[id]) /\ (id \in Saved => Keeps(incidents[id], incidents'[id]))
  <2>1. CASE \E incident \in batch : incident.id = id
    <3> DEFINE one == CHOOSE incident \in batch : incident.id = id
    <3>1. one \in batch /\ one.id = id
      BY <2>1
    <3>2. incidents'[id] = Merged(one)
      BY <1>1, <1>3, <2>1 DEF SaveMany
    <3> HIDE DEF one
    <3> QED
      BY <3>1, <3>2, MergedIsGood
  <2>2. CASE ~\E incident \in batch : incident.id = id
    <3>1. id \in Saved /\ incidents'[id] = incidents[id]
      BY <1>1, <1>3, <2>2 DEF SaveMany
    <3> QED
      BY <3>1, GoodRows DEF Keeps, Good, IncidentRow
  <2> QED
    BY <2>1, <2>2
<1> QED
  BY <1>1, <1>2, <1>3 DEF IncidentsInv, IncidentsTypeOK, HistoryTellsStatus, Good, RowTells

\* One row is replaced by a good one that keeps it.
LEMMA OneRow ==
  ASSUME IncidentsInv, NEW id \in Saved, NEW row, Good(row), Keeps(incidents[id], row),
         incidents' = [incidents EXCEPT ![id] = row]
  PROVE  /\ IncidentsInv'
         /\ \A i \in Saved : i \in Saved' /\ Keeps(incidents[i], incidents'[i])
<1>1. Saved' = Saved
  BY DEF Saved
<1>2. ASSUME NEW i \in Saved
      PROVE  Good(incidents'[i]) /\ Keeps(incidents[i], incidents'[i])
  BY GoodRows DEF Saved, Keeps, Good, IncidentRow
<1> QED
  BY <1>1, <1>2 DEF IncidentsInv, IncidentsTypeOK, HistoryTellsStatus, Good, RowTells

LEMMA AppendStep ==
  ASSUME IncidentsInv, NEW id \in IncidentIds, NEW evidence \in EvidenceRows, NEW at \in Times,
         AppendEvidence(id, evidence, at)
  PROVE  /\ IncidentsInv'
         /\ \A i \in Saved : i \in Saved' /\ Keeps(incidents[i], incidents'[i])
<1> DEFINE old == incidents[id]
           moved == IF DOMAIN evidence \subseteq DOMAIN old.evidence \/ at < old.updated
                    THEN old.updated ELSE at
           joined == Joined(old.evidence, evidence)
           row == [old EXCEPT !.evidence = joined, !.updated = moved]
<1>1. id \in Saved /\ incidents' = [incidents EXCEPT ![id] = row]
  BY DEF AppendEvidence
<1>2. Good(old) /\ old.evidence \in EvidenceRows
  BY <1>1, GoodRows DEF Good, IncidentRow
<1>3. moved \in Times
  BY <1>2 DEF Good, IncidentRow
<1>4. Good(row) /\ Keeps(old, row)
  <2>1. /\ joined \in EvidenceRows
        /\ \A e \in DOMAIN old.evidence : e \in DOMAIN joined /\ joined[e] = old.evidence[e]
    <3> HIDE DEF old
    <3> QED
      BY <1>2, JoinedKeeps
  <2> HIDE DEF old, moved, joined
  <2>2. Good(row)
    BY <1>2, <1>3, <2>1 DEF Good, IncidentRow
  <2>3. Keeps(old, row)
    BY <1>2, <2>1 DEF Keeps, Good, IncidentRow
  <2> QED
    BY <2>2, <2>3
<1> QED
  BY <1>1, <1>4, OneRow

LEMMA TransitionStep ==
  ASSUME IncidentsInv, NEW id \in IncidentIds, NEW new \in Statuses, NEW at \in Times,
         Transition(id, new, at)
  PROVE  /\ IncidentsInv'
         /\ \A i \in Saved : i \in Saved' /\ Keeps(incidents[i], incidents'[i])
<1> DEFINE old == incidents[id]
           entry == [old |-> old.status, new |-> new]
           row == [old EXCEPT !.status = new, !.updated = at, !.history = Append(old.history, entry)]
<1>1. id \in Saved /\ new \in Allowed(old.status) /\ incidents' = [incidents EXCEPT ![id] = row]
  BY DEF Transition
<1>2. Good(old)
  BY <1>1, GoodRows
<1>3. row \in IncidentRow
  <2>1. old \in IncidentRow /\ entry \in HistoryEntry
    BY <1>2 DEF Good, IncidentRow, HistoryEntry
  <2>2. Append(old.history, entry) \in Seq(HistoryEntry)
    BY <2>1 DEF IncidentRow
  <2> HIDE DEF old, entry
  <2> QED
    BY <2>1, <2>2 DEF IncidentRow
<1>4. /\ row.history[Len(row.history)] = entry /\ Len(row.history) = Len(old.history) + 1
      /\ \A k \in 1..Len(old.history) : row.history[k] = old.history[k]
      /\ row.status = new /\ old.history # <<>> /\ Len(old.history) \in Nat \ {0}
  BY <1>2 DEF Good, IncidentRow, RowTells
<1>5. old.status = "resolved" => new = "open"
  BY <1>1 DEF Allowed
<1>6. old.status # new
  BY <1>1, <1>2 DEF Allowed, Good, IncidentRow, Statuses
<1>7. RowTells(row.history, row.status)
  <2>1. row.history # <<>> /\ row.history[1] = [old |-> "none", new |-> "open"]
    BY <1>2, <1>3, <1>4 DEF Good, RowTells, IncidentRow
  <2>2. ASSUME NEW k \in 2..Len(row.history)
        PROVE  /\ row.history[k].old = row.history[k - 1].new
               /\ row.history[k].old = "resolved" => row.history[k].new = "open"
               /\ row.history[k].old # row.history[k].new
    <3>1. CASE k = Len(row.history)
      <4>1. row.history[k] = entry
        BY <3>1, <1>4
      <4>2. row.history[k - 1] = old.history[Len(old.history)]
        BY <3>1, <1>4
      <4> QED
        BY <4>1, <4>2, <1>2, <1>5, <1>6 DEF Good, RowTells
    <3>2. CASE k # Len(row.history)
      <4>1. k \in 2..Len(old.history)
        BY <3>2, <1>4
      <4>2. row.history[k] = old.history[k] /\ row.history[k - 1] = old.history[k - 1]
        BY <4>1, <1>4
      <4> QED
        BY <4>1, <4>2, <1>2 DEF Good, RowTells
    <3> QED
      BY <3>1, <3>2
  <2> QED
    BY <2>1, <2>2, <1>4 DEF RowTells
<1>8. Keeps(old, row)
  BY <1>2, <1>4 DEF Keeps, Good, IncidentRow
<1> QED
  BY <1>1, <1>3, <1>7, <1>8, OneRow DEF Good

\* Every step of the store keeps what it had (incident_store.py).
LEMMA IncidentsStep ==
  ASSUME IncidentsInv, IncidentsNext
  PROVE  /\ IncidentsInv'
         /\ \A i \in Saved : i \in Saved' /\ Keeps(incidents[i], incidents'[i])
<1>1. ASSUME NEW incident \in NewIncidents, SaveMany({incident})
      PROVE  /\ IncidentsInv'
             /\ \A i \in Saved : i \in Saved' /\ Keeps(incidents[i], incidents'[i])
  BY <1>1, SaveManyStep
<1>2. ASSUME NEW i \in NewIncidents, NEW j \in NewIncidents, SaveMany({i, j})
      PROVE  /\ IncidentsInv'
             /\ \A k \in Saved : k \in Saved' /\ Keeps(incidents[k], incidents'[k])
  BY <1>2, SaveManyStep
<1> QED
  BY <1>1, <1>2, AppendStep, TransitionStep DEF IncidentsNext

LEMMA AlwaysIncidentsInv == IncidentsSpec => []IncidentsInv
<1>1. IncidentsInit => IncidentsInv
  BY DEF IncidentsInit, IncidentsInv, IncidentsTypeOK, HistoryTellsStatus, Saved
<1>2. IncidentsInv /\ [IncidentsNext]_incidents => IncidentsInv'
  <2>1. IncidentsInv /\ IncidentsNext => IncidentsInv'
    BY IncidentsStep
  <2>2. IncidentsInv /\ UNCHANGED incidents => IncidentsInv'
    BY DEF IncidentsInv, IncidentsTypeOK, HistoryTellsStatus, Saved
  <2> QED
    BY <2>1, <2>2
<1> QED
  BY <1>1, <1>2, PTL DEF IncidentsSpec

\* The history of every incident tells how its status came about, for any
\* incidents, evidence and times (incident_store.py, incidents.py).
THEOREM HistoryAlwaysTells == IncidentsSpec => []HistoryTellsStatus
<1>1. IncidentsInv => HistoryTellsStatus
  BY DEF IncidentsInv
<1> QED
  BY <1>1, AlwaysIncidentsInv, PTL

\* Saving again, evidence and transitions never change what was saved before.
THEOREM NothingEverRewritten == IncidentsSpec => NothingIsRewritten
<1> DEFINE Kept ==
      \A id \in Saved :
        /\ id \in DOMAIN incidents'
        /\ incidents'[id].content = incidents[id].content
        /\ incidents'[id].created = incidents[id].created
        /\ \A e \in DOMAIN incidents[id].evidence :
             /\ e \in DOMAIN incidents'[id].evidence
             /\ incidents'[id].evidence[e] = incidents[id].evidence[e]
        /\ Len(incidents'[id].history) >= Len(incidents[id].history)
        /\ \A k \in 1..Len(incidents[id].history) :
             incidents'[id].history[k] = incidents[id].history[k]
<1>1. IncidentsInv /\ [IncidentsNext]_incidents => [Kept]_incidents
  BY IncidentsStep DEF Saved, Keeps
<1> QED
  BY <1>1, AlwaysIncidentsInv, PTL DEF IncidentsSpec, NothingIsRewritten

===============================================================================
