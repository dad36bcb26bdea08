--------------------------- MODULE StorageProofs ----------------------------
(***************************************************************************)
(* The storage of the server: the schema of PostgreSQL, the start of the   *)
(* container with SQLite, and backups and snapshots.                       *)
(*                                                                         *)
(* AppliesToKnownSchema for any number of runners, of any releases: one    *)
(* runner holds the lock, the history is a first part of the list, the     *)
(* schema is what that part makes, and what the runner that applies has read *)
(* and done is the whole history.                                          *)
(*                                                                         *)
(* SchemaIsReady and TakenStaysTaken for every database a release left: what *)
(* a start has passed is there, and a right can only have been taken once the *)
(* unit that gives it is recorded.                                         *)
(*                                                                         *)
(* DatabaseIsWhole and CopiesAreWhole for any pages, commits and copies: each *)
(* copy being made agrees, page by page, with one content the database had, *)
(* and a file archived while its signature stands is the file as it is.    *)
(***************************************************************************)
EXTENDS PgMigrations, Startup, Backups, TLAPS

-----------------------------------------------------------------------------
(* The schema of PostgreSQL *)

Texts == {"text", "other"}
RunStates == [at : {"idle", "waiting", "locked", "applying"}, applied : SUBSET Versions, next : Nat]

PgMigrationsTypeOK ==
  /\ ledger \in [Versions -> Texts \cup {"none"}]
  /\ lock \subseteq Runners
  /\ runner \in [Runners -> [release : Releases, run : RunStates]]

OneHolder == \A r, s \in lock : r = s
HoldersRun == \A r \in Runners : Run(r).at \in {"locked", "applying"} => r \in lock

FirstPart == \A v \in Recorded : \A w \in Versions : w <= v => w \in Recorded

MadeByVersions(V) == UNION {Migrations[v].makes : v \in V}
SchemaIsHistory == schema = MadeByVersions(Recorded)

KnowsHistory(r) ==
  /\ Recorded = Run(r).applied \cup {v \in Versions : v < Run(r).next}
  /\ \A v \in Recorded : Validates(r, v)

AppliersKnow == \A r \in Runners : Run(r).at = "applying" => KnowsHistory(r)

PgMigrationsInv ==
  PgMigrationsTypeOK /\ OneHolder /\ HoldersRun /\ FirstPart /\ SchemaIsHistory /\ AppliersKnow

-----------------------------------------------------------------------------
(* The list *)

LEMMA EightVersions == Versions = 1 .. 8
  BY DEF Versions, Migrations

LEMMA MigrationsAre ==
  /\ Migrations[1] = CoreSchema             /\ Migrations[2] = SecuritySchema
  /\ Migrations[3] = RbacSchema             /\ Migrations[4] = RbacSeed
  /\ Migrations[5] = InfrastructureTopology /\ Migrations[6] = TelemetrySchema
  /\ Migrations[7] = PackageSearches        /\ Migrations[8] = AlertsSchema
  BY DEF Migrations

\* No two migrations of the list make one table.
LEMMA MakeApart ==
  ASSUME NEW v \in Versions, NEW w \in Versions, v # w
  PROVE  Migrations[v].makes \cap Migrations[w].makes = {}
<1> USE MigrationsAre, EightVersions
        DEF CoreSchema, SecuritySchema, RbacSchema, RbacSeed, InfrastructureTopology,
            TelemetrySchema, PackageSearches, AlertsSchema, Migration
<1>1. CASE v = 1
  BY <1>1
<1>2. CASE v = 2
  BY <1>2
<1>3. CASE v = 3
  BY <1>3
<1>4. CASE v = 4
  BY <1>4
<1>5. CASE v = 5
  BY <1>5
<1>6. CASE v = 6
  BY <1>6
<1>7. CASE v = 7
  BY <1>7
<1>8. CASE v = 8
  BY <1>8
<1> QED
  BY <1>1, <1>2, <1>3, <1>4, <1>5, <1>6, <1>7, <1>8

\* What a migration refers to is made by those before it.
LEMMA NeedsComeFirst ==
  ASSUME NEW v \in Versions
  PROVE  Migrations[v].needs \subseteq MadeByVersions({w \in Versions : w < v})
<1> DEFINE before == {w \in Versions : w < v}
<1> USE MigrationsAre, EightVersions
        DEF CoreSchema, SecuritySchema, RbacSchema, RbacSeed, InfrastructureTopology,
            TelemetrySchema, PackageSearches, AlertsSchema, Migration
<1>1. CASE v \in {1, 2, 8}
  BY <1>1
<1>2. v > 1 => "clients" \in MadeByVersions(before)
  <2>1. 1 \in Versions /\ "clients" \in Migrations[1].makes
    OBVIOUS
  <2> QED
    BY <2>1 DEF MadeByVersions
<1>3. v > 2 => "users" \in MadeByVersions(before)
  <2>1. 2 \in Versions /\ "users" \in Migrations[2].makes
    OBVIOUS
  <2> QED
    BY <2>1 DEF MadeByVersions
<1>4. v > 3 => "roles" \in MadeByVersions(before)
  <2>1. 3 \in Versions /\ "roles" \in Migrations[3].makes
    OBVIOUS
  <2> QED
    BY <2>1 DEF MadeByVersions
<1>5. CASE v = 3
  BY <1>3, <1>5
<1>6. CASE v = 4
  <2>1. Migrations[v].needs = {"roles"}
    BY <1>6
  <2>2. "roles" \in MadeByVersions(before)
    BY <1>4, <1>6
  <2> QED
    BY <2>1, <2>2
<1>7. CASE v \in {5, 6, 7}
  <2>1. Migrations[v].needs \subseteq {"clients", "users"}
    BY <1>7
  <2>2. "clients" \in MadeByVersions(before)
    BY <1>2, <1>7
  <2>3. "users" \in MadeByVersions(before)
    BY <1>3, <1>7
  <2> SUFFICES ASSUME NEW t \in Migrations[v].needs PROVE t \in MadeByVersions(before)
    OBVIOUS
  <2>4. t = "clients" \/ t = "users"
    BY <2>1
  <2> QED
    BY <2>2, <2>3, <2>4
<1> QED
  BY <1>1, <1>5, <1>6, <1>7

-----------------------------------------------------------------------------

\* A runner that applies a migration stands right after the history, whose
\* statements all ran and whose tables are those of the list up to there.
LEMMA AppliesFits ==
  ASSUME PgMigrationsInv, NEW r \in Runners, NEW v \in Versions, Applies(r, v)
  PROVE  /\ Recorded = {w \in Versions : w < v}
         /\ Fits(v)
         /\ \A w \in Recorded : Validates(r, w)
<1>1. /\ Recorded = Run(r).applied \cup {w \in Versions : w < v}
      /\ v \notin Run(r).applied
      /\ \A w \in Recorded : Validates(r, w)
  BY DEF Applies, PgMigrationsInv, AppliersKnow, KnowsHistory
<1>2. v \notin Recorded
  BY <1>1, EightVersions
<1>3. \A w \in Recorded : w < v
  <2> SUFFICES ASSUME NEW w \in Recorded, ~(w < v) PROVE FALSE
    OBVIOUS
  <2>1. v <= w
    BY EightVersions DEF Recorded
  <2> QED
    BY <1>2, <2>1 DEF PgMigrationsInv, FirstPart
<1>4. Recorded = {w \in Versions : w < v}
  BY <1>1, <1>3 DEF Recorded
<1>5. Migrations[v].needs \subseteq schema
  BY <1>4, NeedsComeFirst DEF PgMigrationsInv, SchemaIsHistory
<1>6. Migrations[v].makes \cap schema = {}
  <2> SUFFICES ASSUME NEW t \in Migrations[v].makes, t \in schema PROVE FALSE
    OBVIOUS
  <2>1. PICK w \in Recorded : t \in Migrations[w].makes
    BY DEF PgMigrationsInv, SchemaIsHistory, MadeByVersions
  <2>2. w \in Versions /\ w # v
    BY <1>2 DEF Recorded
  <2> QED
    BY <2>1, <2>2, MakeApart
<1> QED
  BY <1>1, <1>4, <1>5, <1>6 DEF Fits

LEMMA TypeStep ==
  ASSUME PgMigrationsTypeOK, [PgMigrationsNext]_pgVars
  PROVE  PgMigrationsTypeOK'
<1> USE EightVersions DEF PgMigrationsTypeOK
<1>1. ASSUME NEW r \in Runners, NEW run \in RunStates, Go(r, run)
      PROVE  runner' \in [Runners -> [release : Releases, run : RunStates]]
  <2>1. [runner[r] EXCEPT !.run = run] \in [release : Releases, run : RunStates]
    OBVIOUS
  <2> QED
    BY <1>1, <2>1 DEF Go
<1>2. ASSUME NEW r \in Runners PROVE Run(r) \in RunStates
  BY DEF Run
<1>3. ASSUME NEW r \in Runners,
             StartRun(r) \/ Lock(r) \/ LoadHistory(r) \/ SkipApplied(r) \/ EndRun(r)
      PROVE  PgMigrationsTypeOK'
  <2>1. ledger' = ledger /\ lock' \subseteq Runners
    BY <1>3 DEF StartRun, Lock, LoadHistory, SkipApplied, EndRun
  <2>2. \E run \in RunStates : Go(r, run)
    <3>1. CASE StartRun(r)
      BY <3>1 DEF StartRun, Unstarted, RunStates
    <3>2. CASE Lock(r)
      BY <3>2 DEF Lock, Unstarted, RunStates
    <3>3. CASE LoadHistory(r)
      BY <3>3 DEF LoadHistory, Unstarted, RunStates, Recorded
    <3>4. CASE SkipApplied(r)
      BY <1>2, <3>4 DEF SkipApplied, RunStates
    <3>5. CASE EndRun(r)
      BY <3>5 DEF EndRun, Unstarted, RunStates
    <3> QED
      BY <1>3, <3>1, <3>2, <3>3, <3>4, <3>5
  <2> QED
    BY <1>1, <2>1, <2>2
<1>4. ASSUME NEW r \in Runners, Apply(r) PROVE PgMigrationsTypeOK'
  <2>1. ledger' \in [Versions -> Texts \cup {"none"}] /\ lock' = lock
    BY <1>4 DEF Apply, Text, Texts
  <2>2. [Run(r) EXCEPT !.next = @ + 1] \in RunStates
    BY <1>2 DEF RunStates
  <2>3. Go(r, [Run(r) EXCEPT !.next = @ + 1])
    BY <1>4 DEF Apply
  <2> QED
    BY <1>1, <2>1, <2>2, <2>3
<1>5. CASE UNCHANGED pgVars
  BY <1>5 DEF pgVars
<1> QED
  BY <1>3, <1>4, <1>5 DEF PgMigrationsNext

\* The lock is held by one runner, and by the one that works.
LEMMA LockStep ==
  ASSUME PgMigrationsTypeOK, OneHolder, HoldersRun, [PgMigrationsNext]_pgVars
  PROVE  OneHolder' /\ HoldersRun'
<1> USE DEF PgMigrationsTypeOK, OneHolder, HoldersRun, Run
<1>1. ASSUME NEW r \in Runners, NEW run, Go(r, run)
      PROVE  \A s \in Runners : runner'[s].run = IF s = r THEN run ELSE runner[s].run
  BY <1>1 DEF Go
<1>2. ASSUME NEW r \in Runners,
             StartRun(r) \/ Lock(r) \/ LoadHistory(r) \/ SkipApplied(r) \/ Apply(r) \/ EndRun(r)
      PROVE  OneHolder' /\ HoldersRun'
  <2>1. CASE StartRun(r)
    BY <1>1, <2>1 DEF StartRun, Unstarted
  <2>2. CASE Lock(r)
    BY <1>1, <2>2 DEF Lock, Free, Unstarted
  <2>3. CASE LoadHistory(r)
    BY <1>1, <2>3 DEF LoadHistory, Unstarted
  <2>4. CASE SkipApplied(r)
    BY <1>1, <2>4 DEF SkipApplied
  <2>5. CASE Apply(r)
    BY <1>1, <2>5 DEF Apply, Applies
  <2>6. CASE EndRun(r)
    BY <1>1, <2>6 DEF EndRun, Unstarted
  <2> QED
    BY <1>2, <2>1, <2>2, <2>3, <2>4, <2>5, <2>6
<1>3. CASE UNCHANGED pgVars
  BY <1>3 DEF pgVars
<1> QED
  BY <1>2, <1>3 DEF PgMigrationsNext

\* The history grows at its end, with the tables of the migration, and the runner
\* that makes it grow, alone in doing so, knows.
LEMMA HistoryStep ==
  ASSUME PgMigrationsInv, PgMigrationsTypeOK', [PgMigrationsNext]_pgVars
  PROVE  FirstPart' /\ SchemaIsHistory' /\ AppliersKnow'
<1> USE DEF PgMigrationsInv
<1>1. ASSUME NEW r \in Runners, NEW run, Go(r, run)
      PROVE  \A s \in Runners :
               /\ runner'[s].release = runner[s].release
               /\ runner'[s].run = IF s = r THEN run ELSE runner[s].run
  BY <1>1 DEF Go, PgMigrationsTypeOK
<1>2. ASSUME UNCHANGED <<ledger, schema>>,
             \A r \in Runners : Run(r)'.at = "applying" => KnowsHistory(r)'
      PROVE  FirstPart' /\ SchemaIsHistory' /\ AppliersKnow'
  BY <1>2 DEF FirstPart, SchemaIsHistory, AppliersKnow, Recorded
<1>3. ASSUME NEW r \in Runners, NEW run, Go(r, run), UNCHANGED <<ledger, schema>>,
             run.at = "applying" =>
               /\ Recorded = run.applied \cup {v \in Versions : v < run.next}
               /\ \A v \in Recorded : Validates(r, v)
      PROVE  FirstPart' /\ SchemaIsHistory' /\ AppliersKnow'
  BY <1>1, <1>2, <1>3 DEF Run, AppliersKnow, KnowsHistory, Recorded, Validates
<1>4. ASSUME NEW r \in Runners, StartRun(r) \/ Lock(r) \/ EndRun(r)
      PROVE  FirstPart' /\ SchemaIsHistory' /\ AppliersKnow'
  BY <1>3, <1>4 DEF StartRun, Lock, EndRun, Unstarted
<1>5. ASSUME NEW r \in Runners, LoadHistory(r)
      PROVE  FirstPart' /\ SchemaIsHistory' /\ AppliersKnow'
  <2>1. {v \in Versions : v < 1} = {}
    BY EightVersions
  <2> QED
    BY <1>3, <1>5, <2>1 DEF LoadHistory, Unstarted
<1>6. ASSUME NEW r \in Runners, SkipApplied(r)
      PROVE  FirstPart' /\ SchemaIsHistory' /\ AppliersKnow'
  <2> DEFINE run == [Run(r) EXCEPT !.next = @ + 1]
  <2>1. Run(r) \in RunStates /\ KnowsHistory(r) /\ Run(r).next \in Run(r).applied
    BY <1>6 DEF SkipApplied, AppliersKnow, PgMigrationsTypeOK, Run
  <2>2. run.applied = Run(r).applied /\ run.next = Run(r).next + 1
    BY <2>1 DEF RunStates
  <2>3. Recorded = run.applied \cup {v \in Versions : v < run.next}
    BY <2>1, <2>2, EightVersions DEF KnowsHistory, RunStates
  <2>4. \A v \in Recorded : Validates(r, v)
    BY <2>1 DEF KnowsHistory
  <2> HIDE DEF run
  <2> QED
    BY <1>3, <1>6, <2>3, <2>4 DEF SkipApplied, run
<1>7. ASSUME NEW r \in Runners, Apply(r)
      PROVE  FirstPart' /\ SchemaIsHistory' /\ AppliersKnow'
  <2>1. PICK v \in Versions :
          /\ Applies(r, v)
          /\ schema' = schema \cup Migrations[v].makes
          /\ ledger' = [ledger EXCEPT ![v] = Text(runner[r].release, v)]
          /\ Go(r, [Run(r) EXCEPT !.next = @ + 1])
    BY <1>7 DEF Apply
  <2>2. /\ Recorded = {w \in Versions : w < v}
        /\ \A w \in Recorded : Validates(r, w)
    BY <2>1, AppliesFits
  <2>3. Text(runner[r].release, v) # "none"
    BY DEF Text
  <2>4. Recorded' = Recorded \cup {v}
    BY <2>1, <2>3 DEF Recorded, PgMigrationsTypeOK
  <2>5. FirstPart'
    BY <2>2, <2>4, EightVersions DEF FirstPart
  <2>6. SchemaIsHistory'
    BY <2>1, <2>4 DEF SchemaIsHistory, MadeByVersions
  <2>7. /\ Run(r) \in RunStates /\ Run(r).next = v
        /\ v \in Registered(runner[r].release) /\ KnowsHistory(r)
    BY <2>1 DEF Applies, AppliersKnow, PgMigrationsTypeOK, Run
  <2>8. ASSUME NEW s \in Runners, Run(s)'.at = "applying" PROVE KnowsHistory(s)'
    <3>1. CASE s = r
      <4>1. /\ Run(r)'.applied = Run(r).applied /\ Run(r)'.next = v + 1
            /\ runner'[r].release = runner[r].release
        BY <1>1, <2>1, <2>7 DEF Run, RunStates
      <4>2. Recorded' = Run(r)'.applied \cup {w \in Versions : w < v + 1}
        BY <2>2, <2>4, <2>7, <4>1, EightVersions DEF KnowsHistory
      <4>3. \A w \in Recorded' : Validates(r, w)'
        BY <2>1, <2>2, <2>4, <2>7, <4>1 DEF Validates, PgMigrationsTypeOK
      <4> QED
        BY <3>1, <4>1, <4>2, <4>3 DEF KnowsHistory
    <3>2. CASE s # r
      <4>1. Run(s).at = "applying" /\ Run(r).at = "applying"
        BY <1>1, <2>1, <2>8, <3>2 DEF Run, Applies
      <4> QED
        BY <3>2, <4>1 DEF HoldersRun, OneHolder
    <3> QED
      BY <3>1, <3>2
  <2> QED
    BY <2>5, <2>6, <2>8 DEF AppliersKnow
<1>8. CASE UNCHANGED pgVars
  BY <1>2, <1>8 DEF pgVars, Run, AppliersKnow, KnowsHistory, Recorded, Validates
<1> QED
  BY <1>4, <1>5, <1>6, <1>7, <1>8 DEF PgMigrationsNext

\* Whatever runners of whatever releases do and die, a migration is applied to the
\* schema it was written for, after a history its runner knows
\* (migration_runner.py, run_migrations).
THEOREM AlwaysAppliesToKnownSchema == PgMigrationsSpec => []AppliesToKnownSchema
<1>1. PgMigrationsInit => PgMigrationsInv
  <2> SUFFICES ASSUME PgMigrationsInit PROVE PgMigrationsInv
    OBVIOUS
  <2>1. \A r \in Runners : runner[r].release \in Releases /\ runner[r].run = Unstarted
    BY DEF PgMigrationsInit
  <2>2. Unstarted \in RunStates
    BY DEF Unstarted, RunStates
  <2>3. runner \in [Runners -> [release : Releases, run : RunStates]]
    BY <2>2 DEF PgMigrationsInit
  <2>4. Recorded = {}
    BY DEF PgMigrationsInit, Recorded
  <2> QED
    BY <2>1, <2>3, <2>4 DEF PgMigrationsInit, PgMigrationsInv, PgMigrationsTypeOK, OneHolder, HoldersRun,
       FirstPart, SchemaIsHistory, MadeByVersions, AppliersKnow, Run, Unstarted
<1>2. PgMigrationsInv /\ [PgMigrationsNext]_pgVars => PgMigrationsInv'
  BY TypeStep, LockStep, HistoryStep DEF PgMigrationsInv
<1>3. PgMigrationsInv => AppliesToKnownSchema
  BY AppliesFits DEF AppliesToKnownSchema, Validates
<1> QED
  BY <1>1, <1>2, <1>3, PTL DEF PgMigrationsSpec

-----------------------------------------------------------------------------
(* The start of the container *)

(* The units, one by one *)

LEMMA UnitFields ==
  ASSUME NEW needs, NEW makes, NEW gives
  PROVE  /\ Unit(needs, makes, gives).needs = needs
         /\ Unit(needs, makes, gives).makes = makes
         /\ Unit(needs, makes, gives).gives = gives
         /\ Unmarked(Unit(needs, makes, gives)).needs = needs
         /\ Unmarked(Unit(needs, makes, gives)).makes = makes
         /\ Unmarked(Unit(needs, makes, gives)).gives = gives
         /\ Whole(Unit(needs, makes, gives)).needs = needs
         /\ Whole(Unit(needs, makes, gives)).makes = makes
         /\ Whole(Unit(needs, makes, gives)).gives = gives
         /\ Unmarked(Whole(Unit(needs, makes, gives))).needs = needs
         /\ Unmarked(Whole(Unit(needs, makes, gives))).makes = makes
         /\ Unmarked(Whole(Unit(needs, makes, gives))).gives = gives
  BY DEF Unit, Unmarked, Whole

LEMMA UnitMarked ==
  ASSUME NEW needs, NEW makes, NEW gives
  PROVE  Unit(needs, makes, gives).marked
  BY Zenon DEF Unit

LEMMA OrderIs ==
  /\ Len(Order) = 24
  /\ Order[1] = InitDb /\ Order[2] = SecurityTables /\ Order[3] = V001 /\ Order[4] = V002
  /\ Order[5] = V003 /\ Order[6] = V004 /\ Order[7] = V005 /\ Order[8] = V006
  /\ Order[9] = V007 /\ Order[10] = V009 /\ Order[11] = V010 /\ Order[12] = V011
  /\ Order[13] = V012 /\ Order[14] = V013 /\ Order[15] = V014 /\ Order[16] = V015
  /\ Order[17] = V016 /\ Order[18] = V017 /\ Order[19] = V018 /\ Order[20] = PackageManagement
  /\ Order[21] = LoginLimits /\ Order[22] = PackageSearchTable /\ Order[23] = SocStorage
  /\ Order[24] = SocWorker
  BY DEF Order

\* The tables that units need, and the units that make them.
LEMMA MakersAre ==
  /\ "clients" \in Order[1].makes /\ "update_jobs" \in Order[1].makes
  /\ "users" \in Order[2].makes
  /\ "role" \in Order[4].makes
  /\ "user_permissions" \in Order[5].makes
  /\ "client_telemetry" \in Order[10].makes
  /\ "soc_event_inbox" \in Order[23].makes
  BY OrderIs, UnitFields
  DEF InitDb, SecurityTables, V002, V003, V009, SocStorage, Tables

LEMMA NeedsAre ==
  /\ Order[1].needs = {} /\ Order[2].needs = {}
  /\ Order[3].needs = {"clients"} /\ Order[4].needs = {"users"}
  /\ Order[5].needs = {"users", "role"} /\ Order[6].needs = {"users"}
  /\ Order[7].needs = {"users", "role", "user_permissions"}
  /\ Order[8].needs = {"users"} /\ Order[9].needs = {"users"}
  /\ Order[10].needs = {"clients"} /\ Order[11].needs = {"client_telemetry"}
  /\ Order[12].needs = {"client_telemetry"} /\ Order[13].needs = {"clients"}
  /\ Order[14].needs = {"client_telemetry", "users"} /\ Order[15].needs = {"clients"}
  /\ Order[16].needs = {"users", "role", "user_permissions"}
  /\ Order[17].needs = {"users", "clients", "role", "user_permissions"}
  /\ Order[18].needs = {"users", "role", "user_permissions"}
  /\ Order[19].needs = {"users", "role", "user_permissions"}
  /\ Order[20].needs = {"update_jobs"} /\ Order[21].needs = {}
  /\ Order[22].needs = {"clients"} /\ Order[23].needs = {} /\ Order[24].needs = {"soc_event_inbox"}
  BY OrderIs, UnitFields
  DEF InitDb, SecurityTables, V001, V002, V003, V004, V005, V006, V007, V009, V010, V011, V012,
      V013, V014, V015, V016, V017, V018, PackageManagement, LoginLimits, PackageSearchTable,
      SocStorage, SocWorker, Tables, Grant

LEMMA GivesAre ==
  /\ Order[5].gives = BaseRights \cup LaterRights
  /\ Order[7].gives = {"backups.manage"} /\ Order[16].gives = {"system.update"}
  /\ Order[17].gives = {"infrastructure.manage"} /\ Order[18].gives = {"alerts.manage"}
  /\ \A i \in 1..24 \ {5, 7, 16, 17, 18} : Order[i].gives = {}
<1>1. /\ Order[5].gives = BaseRights \cup LaterRights
      /\ Order[7].gives = {"backups.manage"} /\ Order[16].gives = {"system.update"}
      /\ Order[17].gives = {"infrastructure.manage"} /\ Order[18].gives = {"alerts.manage"}
  BY OrderIs, UnitFields DEF V003, V005, V015, V016, V017, Grant
<1>2. /\ Order[1].gives = {} /\ Order[2].gives = {} /\ Order[3].gives = {} /\ Order[4].gives = {}
      /\ Order[6].gives = {} /\ Order[8].gives = {} /\ Order[9].gives = {} /\ Order[10].gives = {}
      /\ Order[11].gives = {} /\ Order[12].gives = {} /\ Order[13].gives = {} /\ Order[14].gives = {}
      /\ Order[15].gives = {} /\ Order[19].gives = {} /\ Order[20].gives = {} /\ Order[21].gives = {}
      /\ Order[22].gives = {} /\ Order[23].gives = {} /\ Order[24].gives = {}
  BY OrderIs, UnitFields
  DEF InitDb, SecurityTables, V001, V002, V004, V006, V007, V009, V010, V011, V012,
      V013, V014, V018, PackageManagement, LoginLimits, PackageSearchTable,
      SocStorage, SocWorker, Tables
<1> QED
  BY <1>1, <1>2

Givers == {5, 7, 16, 17, 18}

LEMMA GiversAreMarked == \A i \in Givers : Order[i].marked
<1>1. Order[5].marked /\ Order[7].marked /\ Order[16].marked /\ Order[17].marked /\ Order[18].marked
  BY OrderIs, UnitMarked DEF V003, V005, V015, V016, V017, Grant
<1> QED
  BY <1>1 DEF Givers

\* Migration 018 makes a table that no other unit needs.
LEMMA PendingIs == MayStayPending = {19}
<1>1. /\ "language" \in Order[8].makes /\ Order[19].makes = {"roles"}
  BY OrderIs, UnitFields DEF V006, V018, Tables
<1>2. \A i \in 1..24 \ {19} : "roles" \notin Order[i].makes
  <2>1. /\ "roles" \notin Order[1].makes /\ "roles" \notin Order[2].makes /\ "roles" \notin Order[3].makes
        /\ "roles" \notin Order[4].makes /\ "roles" \notin Order[5].makes /\ "roles" \notin Order[6].makes
        /\ "roles" \notin Order[7].makes /\ "roles" \notin Order[8].makes /\ "roles" \notin Order[9].makes
        /\ "roles" \notin Order[10].makes /\ "roles" \notin Order[11].makes /\ "roles" \notin Order[12].makes
    BY OrderIs, UnitFields
    DEF InitDb, SecurityTables, V001, V002, V003, V004, V005, V006, V007, V009, V010, V011,
        Tables, Grant
  <2>2. /\ "roles" \notin Order[13].makes /\ "roles" \notin Order[14].makes /\ "roles" \notin Order[15].makes
        /\ "roles" \notin Order[16].makes /\ "roles" \notin Order[17].makes /\ "roles" \notin Order[18].makes
        /\ "roles" \notin Order[20].makes /\ "roles" \notin Order[21].makes /\ "roles" \notin Order[22].makes
        /\ "roles" \notin Order[23].makes /\ "roles" \notin Order[24].makes
    BY OrderIs, UnitFields
    DEF V012, V013, V014, V015, V016, V017, PackageManagement, LoginLimits, PackageSearchTable,
        SocStorage, SocWorker, Tables, Grant
  <2> QED
    BY <2>1, <2>2
<1>3. \A i \in 1..24 : Order[i] = V018 <=> i = 19
  BY <1>1, <1>2, OrderIs
<1> QED
  BY <1>3, OrderIs DEF MayStayPending, Units

-----------------------------------------------------------------------------
(* The invariant *)

\* The tables of a marked unit are there, and so is all of what the start has passed.
Passed ==
  /\ at \in 0..25
  /\ recorded \subseteq 1..24
  /\ \A i \in recorded : Order[i].makes \subseteq tables
  /\ \A i \in 1..24 \ {19} : i < at =>
       Order[i].makes \subseteq tables /\ (Order[i].marked => i \in recorded)

\* What a right was taken from was given by units with their markers.
TakenFrom ==
  /\ taken \cap rights = {}
  /\ taken # {} => 5 \in recorded
  /\ "backups.manage" \in taken => 7 \in recorded
  /\ "system.update" \in taken => 16 \in recorded
  /\ "infrastructure.manage" \in taken => 17 \in recorded
  /\ "alerts.manage" \in taken => 18 \in recorded

StartupInv == Passed /\ TakenFrom

LEMMA UnitsAre == Units = 1..24 /\ ServerRuns = 25
  BY OrderIs DEF Units, ServerRuns

LEMMA StartupStarts ==
  ASSUME StartupInit
  PROVE  StartupInv
<1> DEFINE given == IF 5 \in recorded THEN BaseRights \cup GivenBy(recorded \ {5}) ELSE {}
<1>1. PICK last \in 0..24 :
        recorded = Marked(last) /\ tables = MadeBy(1..last) /\ taken = given \ rights
  BY OrderIs DEF StartupInit
<1>2. recorded \subseteq 1..last /\ at = 0
  BY <1>1 DEF Marked, StartupInit
<1>3. \A i \in 1..last : Order[i].makes \subseteq tables
  BY <1>1 DEF MadeBy
<1>4. Passed
  <2>1. recorded \subseteq 1..24 /\ \A i \in recorded : Order[i].makes \subseteq tables
    BY <1>2, <1>3
  <2> QED
    BY <1>2, <2>1 DEF Passed
<1>5. taken \cap rights = {}
  BY <1>1
<1>6. \A r \in taken : 5 \in recorded /\ (r \in BaseRights \/ \E i \in recorded \ {5} : r \in Order[i].gives)
  <2>1. taken \subseteq given
    BY <1>1
  <2>2. \A r \in GivenBy(recorded \ {5}) : \E i \in recorded \ {5} : r \in Order[i].gives
    BY DEF GivenBy
  <2>3. \A r \in given : 5 \in recorded /\ (r \in BaseRights \/ r \in GivenBy(recorded \ {5}))
    OBVIOUS
  <2> HIDE DEF given
  <2> QED
    BY <2>1, <2>2, <2>3
<1>7. \A i \in 1..24 \ {5} : \A r \in Order[i].gives :
        \/ i = 7 /\ r = "backups.manage"
        \/ i = 16 /\ r = "system.update"
        \/ i = 17 /\ r = "infrastructure.manage"
        \/ i = 18 /\ r = "alerts.manage"
  BY GivesAre
<1>8. ASSUME NEW r \in taken
      PROVE  \/ r \in BaseRights
             \/ 7 \in recorded /\ r = "backups.manage"
             \/ 16 \in recorded /\ r = "system.update"
             \/ 17 \in recorded /\ r = "infrastructure.manage"
             \/ 18 \in recorded /\ r = "alerts.manage"
  <2>1. CASE r \in BaseRights
    BY <2>1
  <2>2. ASSUME NEW i \in recorded \ {5}, r \in Order[i].gives
        PROVE  \/ 7 \in recorded /\ r = "backups.manage"
               \/ 16 \in recorded /\ r = "system.update"
               \/ 17 \in recorded /\ r = "infrastructure.manage"
               \/ 18 \in recorded /\ r = "alerts.manage"
    <3>1. i \in 1..24 \ {5}
      BY <1>2
    <3> QED
      BY <1>7, <2>2, <3>1
  <2> QED
    BY <1>6, <2>1, <2>2
<1>9. TakenFrom
  BY <1>5, <1>6, <1>8 DEF TakenFrom, BaseRights, LaterRights
<1> QED
  BY <1>4, <1>9 DEF StartupInv

LEMMA MarkedIs == Order[19].marked
<1>1. Order[19] = Whole(Unit({"users", "role", "user_permissions"}, {"roles"}, {}))
  BY OrderIs DEF V018, Tables
<1> QED
  BY <1>1 DEF Whole, Unit

LEMMA CommitEffect ==
  ASSUME StartupInv, NEW new, at \in 1..24, CommitUnit(new)
  PROVE  /\ at' = at + 1 /\ (Order[at].marked => at \notin recorded)
         /\ recorded' = IF Order[at].marked THEN recorded \cup {at} ELSE recorded
         /\ tables \subseteq tables' /\ Order[at].makes \subseteq tables'
         /\ rights' = new /\ taken' = (taken \cup rights) \ new
<1>1. at' = at + 1 /\ rights' = new /\ taken' = (taken \cup rights) \ new
  BY DEF CommitUnit, ChangeRights
<1>2. Order[at].marked => at \notin recorded
  BY DEF CommitUnit, Runs, Pending
<1>3. recorded' = IF Order[at].marked THEN recorded \cup {at} ELSE recorded
  BY DEF CommitUnit, Marker
<1>4. tables \subseteq tables' /\ Order[at].makes \subseteq tables'
  BY DEF CommitUnit, MayRecord
<1> QED
  BY <1>1, <1>2, <1>3, <1>4

\* What a unit commits: rights that it gives, or what 018 makes of the delegation.
LEMMA Commits ==
  ASSUME StartupInv, Record \/ RecordRbac
  PROVE  /\ at \in 1..24
         /\ \E new : /\ CommitUnit(new)
                     /\ \/ at # 19 /\ new = rights \cup Order[at].gives
                        \/ at = 19 /\ new = Cleaned
                        \/ at = 19 /\ MayDelegate /\ new = rights \cup {Delegation}
<1>1. CASE Record
  <2>1. at \in 1..24 /\ at # 19
    BY <1>1, UnitsAre, PendingIs DEF Record
  <2> QED
    BY <1>1, <2>1 DEF Record
<1>2. CASE RecordRbac
  <2>1. at = 19
    BY <1>2, PendingIs DEF RecordRbac
  <2>2. CASE CommitUnit(Cleaned)
    BY <2>1, <2>2
  <2>3. CASE MayDelegate /\ CommitUnit(rights \cup {Delegation})
    BY <2>1, <2>3
  <2> QED
    BY <1>2, <2>2, <2>3 DEF RecordRbac
<1> QED
  BY <1>1, <1>2

\* A step leaves everything that was defined and recorded; one unit is passed only with
\* its tables and its marker, or is 018.
LEMMA PassedStays ==
  ASSUME StartupInv, [StartupNext]_startupVars
  PROVE  Passed'
<1>1. Passed
  BY DEF StartupInv
<1>2. CASE Skip
  <2>1. at \in 1..24 /\ at \in recorded /\ at' = at + 1 /\ UNCHANGED <<tables, recorded>>
    BY <1>2, UnitsAre DEF Skip, Pending
  <2> QED
    BY <1>1, <2>1 DEF Passed
<1>3. CASE Record \/ RecordRbac
  <2>0. /\ at \in 1..24 /\ at' = at + 1
        /\ recorded' = IF Order[at].marked THEN recorded \cup {at} ELSE recorded
        /\ tables \subseteq tables' /\ Order[at].makes \subseteq tables'
    BY <1>3, Commits, CommitEffect
  <2>1. \A i \in recorded' : Order[i].makes \subseteq tables'
    BY <1>1, <2>0 DEF Passed
  <2>2. ASSUME NEW i \in 1..24 \ {19}, i < at'
        PROVE  Order[i].makes \subseteq tables' /\ (Order[i].marked => i \in recorded')
    <3>1. CASE i < at
      BY <1>1, <2>0, <3>1 DEF Passed
    <3>2. CASE i = at
      BY <2>0, <3>2
    <3> QED
      BY <2>0, <2>2, <3>1, <3>2
  <2>3. at' \in 0..25 /\ recorded' \subseteq 1..24
    <3>1. recorded' \subseteq recorded \cup {at}
      BY <2>0
    <3>2. recorded \subseteq 1..24
      BY <1>1 DEF Passed
    <3> QED
      BY <2>0, <3>1, <3>2
  <2> QED
    BY <2>1, <2>2, <2>3 DEF Passed
<1>4. CASE LeavePending
  <2>1. at = 19 /\ at' = 20 /\ UNCHANGED <<tables, recorded>>
    BY <1>4, PendingIs DEF LeavePending
  <2> QED
    BY <1>1, <2>1 DEF Passed
<1>5. CASE StopContainer \/ StartContainer
  <2>1. at' \in 0..1 /\ UNCHANGED <<tables, recorded>>
    BY <1>5 DEF StopContainer, StartContainer
  <2> QED
    BY <1>1, <2>1 DEF Passed
<1>6. ASSUME NEW d, Define(d)
      PROVE  Passed'
  <2>1. tables \subseteq tables' /\ UNCHANGED <<at, recorded>>
    BY <1>6 DEF Define
  <2> QED
    BY <1>1, <2>1 DEF Passed
<1>7. ASSUME UNCHANGED <<at, tables, recorded>>
      PROVE  Passed'
  BY <1>1, <1>7 DEF Passed
<1> QED
  BY <1>2, <1>3, <1>4, <1>5, <1>6, <1>7 DEF StartupNext, startupVars, SelectRights, SetEnabled

\* A unit that gives rights and runs for the first time gives none that was taken.
LEMMA GivesNothingTaken ==
  ASSUME Passed, TakenFrom, at \in 1..24, Order[at].marked => at \notin recorded
  PROVE  taken \cap Order[at].gives = {}
<1>1. CASE at \notin Givers
  BY <1>1, GivesAre DEF Givers
<1>2. CASE at \in Givers
  <2>1. at \notin recorded
    BY <1>2, GiversAreMarked
  <2>2. at = 5 => taken = {}
    BY <2>1 DEF TakenFrom
  <2>3. at = 7 => Order[at].gives = {"backups.manage"} /\ "backups.manage" \notin taken
    BY <2>1, GivesAre DEF TakenFrom
  <2>4. at = 16 => Order[at].gives = {"system.update"} /\ "system.update" \notin taken
    BY <2>1, GivesAre DEF TakenFrom
  <2>5. at = 17 => Order[at].gives = {"infrastructure.manage"} /\ "infrastructure.manage" \notin taken
    BY <2>1, GivesAre DEF TakenFrom
  <2>6. at = 18 => Order[at].gives = {"alerts.manage"} /\ "alerts.manage" \notin taken
    BY <2>1, GivesAre DEF TakenFrom
  <2> QED
    BY <1>2, <2>2, <2>3, <2>4, <2>5, <2>6 DEF Givers
<1> QED
  BY <1>1, <1>2

\* Only 018 and a delegate take rights: 018 the delegation, a delegate when the units
\* that give rights are recorded.
LEMMA TakenStays ==
  ASSUME StartupInv, [StartupNext]_startupVars
  PROVE  TakenFrom'
<1>1. Passed /\ TakenFrom
  BY DEF StartupInv
<1>2. Givers \subseteq 1..24 \ {19}
  BY DEF Givers
<1>3. ASSUME at > 18
      PROVE  Givers \subseteq recorded
  BY <1>1, <1>2, <1>3, GiversAreMarked DEF Passed, Givers
<1>4. ASSUME NEW new, taken' = (taken \cup rights) \ new, rights' = new, recorded \subseteq recorded',
             rights \subseteq new \/ Givers \subseteq recorded
      PROVE  TakenFrom'
  <2>1. taken' \cap rights' = {}
    BY <1>4
  <2>2. CASE rights \subseteq new
    <3>1. taken' \subseteq taken
      BY <1>4, <2>2
    <3> QED
      BY <1>1, <1>4, <2>1, <3>1 DEF TakenFrom
  <2>3. CASE Givers \subseteq recorded
    BY <1>4, <2>1, <2>3 DEF TakenFrom, Givers
  <2> QED
    BY <1>4, <2>2, <2>3
<1>5. CASE Record \/ RecordRbac
  <2>1. PICK new : /\ CommitUnit(new)
                   /\ \/ at # 19 /\ new = rights \cup Order[at].gives
                      \/ at = 19 /\ new = Cleaned
                      \/ at = 19 /\ MayDelegate /\ new = rights \cup {Delegation}
    BY <1>5, Commits
  <2>2. /\ rights' = new /\ taken' = (taken \cup rights) \ new /\ recorded \subseteq recorded'
    BY <1>5, <2>1, Commits, CommitEffect
  <2>3. rights \subseteq new \/ Givers \subseteq recorded
    <3>1. CASE at = 19
      BY <1>3, <3>1
    <3>2. CASE at # 19
      BY <2>1, <3>2
    <3> QED
      BY <3>1, <3>2
  <2> QED
    BY <1>4, <2>2, <2>3
<1>6. CASE LeavePending
  <2>1. at = 19 /\ rights' = Cleaned /\ taken' = (taken \cup rights) \ Cleaned /\ recorded' = recorded
    BY <1>6, PendingIs DEF LeavePending, ChangeRights
  <2> QED
    BY <1>3, <1>4, <2>1
<1>7. ASSUME NEW selected \in SUBSET Rights, SelectRights(selected)
      PROVE  TakenFrom'
  <2>1. /\ at = 25 /\ rights' = selected /\ taken' = (taken \cup rights) \ selected
        /\ recorded' = recorded
    BY <1>7, UnitsAre DEF SelectRights, ChangeRights
  <2> QED
    BY <1>3, <1>4, <2>1
<1>8. ASSUME UNCHANGED <<recorded, rights, taken>>
      PROVE  TakenFrom'
  BY <1>1, <1>8 DEF TakenFrom
<1> QED
  BY <1>5, <1>6, <1>7, <1>8
  DEF StartupNext, startupVars, Skip, StopContainer, StartContainer, SetEnabled, Define

-----------------------------------------------------------------------------
(* The theorems *)

LEMMA StartupStays ==
  ASSUME StartupInv, [StartupNext]_startupVars
  PROVE  StartupInv'
  BY PassedStays, TakenStays DEF StartupInv

\* However often the container's start is cut short, a unit runs with the tables it
\* needs, and a server that serves has all tables and markers but those of 018.
THEOREM SchemaGetsReady == StartupSpec => []SchemaIsReady
<1>1. ASSUME StartupInv
      PROVE  SchemaIsReady
  <2>1. Passed
    BY <1>1 DEF StartupInv
  <2>2. ASSUME at \in 1..24
        PROVE  Order[at].needs \subseteq tables
    <3>1. /\ at > 1 => {"clients", "update_jobs"} \subseteq tables
          /\ at > 2 => "users" \in tables
          /\ at > 4 => "role" \in tables
          /\ at > 5 => "user_permissions" \in tables
          /\ at > 10 => "client_telemetry" \in tables
          /\ at > 23 => "soc_event_inbox" \in tables
      BY <2>1, MakersAre DEF Passed
    <3>2. CASE at \in 1..6
      BY <3>1, <3>2, NeedsAre
    <3>3. CASE at \in 7..12
      BY <3>1, <3>3, NeedsAre
    <3>4. CASE at \in 13..18
      BY <3>1, <3>4, NeedsAre
    <3>5. CASE at \in 19..24
      BY <3>1, <3>5, NeedsAre
    <3> QED
      BY <2>2, <3>2, <3>3, <3>4, <3>5
  <2>3. ASSUME at = 25
        PROVE  /\ Marked(24) \ {19} \subseteq recorded
               /\ MadeBy(1..24 \ {19}) \subseteq tables
    BY <2>1, <2>3 DEF Passed, Marked, MadeBy
  <2> QED
    BY <2>2, <2>3, UnitsAre, OrderIs, PendingIs DEF SchemaIsReady
<1> QED
  BY <1>1, StartupStarts, StartupStays, PTL DEF StartupSpec

\* No start, of this release or of one that brings more units, gives a right back that
\* the administrator had and has no more, but 018 the delegation, when it is recorded.
THEOREM TakenRightsStayTaken == StartupSpec => TakenStaysTaken
<1> DEFINE Kept(r) == /\ r = Delegation /\ MayDelegate
                      /\ ~(MayStayPending \subseteq recorded) /\ MayStayPending \subseteq recorded'
<1>1. ASSUME StartupInv, [StartupNext]_startupVars, NEW r \in taken, at \in Units, r \in rights'
      PROVE  Kept(r)
  <2>1. Passed /\ TakenFrom /\ r \notin rights /\ at \in 1..24
    BY <1>1, UnitsAre DEF StartupInv, TakenFrom
  <2>2. CASE Record \/ RecordRbac
    <3>1. PICK new : /\ CommitUnit(new)
                     /\ \/ at # 19 /\ new = rights \cup Order[at].gives
                        \/ at = 19 /\ new = Cleaned
                        \/ at = 19 /\ MayDelegate /\ new = rights \cup {Delegation}
      BY <1>1, <2>2, Commits
    <3>2. /\ rights' = new /\ (Order[at].marked => at \notin recorded)
          /\ recorded' = IF Order[at].marked THEN recorded \cup {at} ELSE recorded
      BY <1>1, <2>1, <3>1, CommitEffect
    <3>3. r \in new
      BY <1>1, <3>2
    <3>4. CASE at # 19 /\ new = rights \cup Order[at].gives
      BY <1>1, <2>1, <3>2, <3>3, <3>4, GivesNothingTaken
    <3>5. CASE at = 19 /\ new = Cleaned
      BY <2>1, <3>3, <3>5 DEF Cleaned
    <3>6. CASE at = 19 /\ MayDelegate /\ new = rights \cup {Delegation}
      <4>1. r = Delegation
        BY <2>1, <3>3, <3>6
      <4>2. 19 \notin recorded /\ 19 \in recorded'
        BY <3>2, <3>6, MarkedIs
      <4> QED
        BY <3>6, <4>1, <4>2, PendingIs
    <3> QED
      BY <3>1, <3>4, <3>5, <3>6
  <2>3. CASE LeavePending
    BY <1>1, <2>1, <2>3 DEF LeavePending, ChangeRights, Cleaned
  <2>4. ASSUME NEW selected, SelectRights(selected)
        PROVE  FALSE
    BY <2>1, <2>4, UnitsAre DEF SelectRights
  <2>5. ASSUME rights' = rights
        PROVE  FALSE
    BY <1>1, <2>1, <2>5
  <2> HIDE DEF Kept
  <2> QED
    BY <1>1, <2>2, <2>3, <2>4, <2>5
    DEF StartupNext, startupVars, Skip, StopContainer, StartContainer, SetEnabled, Define
<1>2. StartupInv /\ [StartupNext]_startupVars =>
        [\A r \in taken : at \in Units /\ r \in rights' => Kept(r)]_startupVars
  <2> HIDE DEF Kept
  <2> QED
    BY <1>1
<1> QED
  BY <1>2, StartupStarts, StartupStays, PTL DEF StartupSpec, TakenStaysTaken

-----------------------------------------------------------------------------
(* Backups and snapshots *)

Files == [Pages -> Nat]
Frames == UNION {[S -> Nat] : S \in SUBSET Pages}
Logs == {NoLog} \cup {Log(frames) : frames \in Frames}
Archives == [main : Files, log : Logs]
BothFiles == {"main", "log"}

\* A copy that is not finished yet, or is: every page it has is as in whole.
Agrees(copy, whole) == \A p \in DOMAIN copy : copy[p] = whole[p]

DatabaseSound ==
  /\ main \in Files /\ log \in Logs /\ commits \in Nat /\ moments \subseteq Files
  /\ Content(main, log) \in moments

\* Pages copied since the last commit are of now; all that are kept are of one moment.
BackupSound ==
  /\ \/ backup = Pausing
     \/ /\ backup \in [at : {"copying"}, got : Frames, since : Nat]
        /\ service = "busy" /\ backup.since <= commits
        /\ backup.since = commits => Agrees(backup.got, Content(main, log))
        /\ \E whole \in moments : Agrees(backup.got, whole)
     \/ backup.at = "checked" /\ backup.got \in moments
  /\ backups \subseteq moments

\* While a restore runs the service is down and no log is beside the database.
RestoreSound ==
  \/ restore = Pausing
  \/ /\ restore \in [at : {"copying"}, from : Files, got : Frames]
     /\ service = "down" /\ log = NoLog
     /\ restore.from \in moments /\ Agrees(restore.got, restore.from)

\* An archived file that the signature calls unchanged is the file as it is now.
SnapshotSound ==
  /\ \/ snapshot = Pausing
     \/ /\ snapshot \in [at : {"signing", "main", "log", "comparing"}, signed : SUBSET BothFiles,
                         changed : SUBSET BothFiles, log : Logs, main : Frames]
        /\ snapshot.at # "signing" => snapshot.signed = BothFiles
        /\ snapshot.at \in {"log", "comparing"} /\ "main" \notin snapshot.changed =>
             snapshot.main = main
        /\ snapshot.at = "comparing" /\ "log" \notin snapshot.changed => snapshot.log = log
  /\ archives \subseteq Archives
  /\ \A a \in archives : Content(a.main, a.log) \in moments

VolumeSound ==
  \/ volume = Pausing
  \/ /\ volume \in [at : {"extracting", "published"}, from : Archives, main : Frames, log : Logs]
     /\ Content(volume.from.main, volume.from.log) \in moments
     /\ volume.at = "published" => Content(volume.main, volume.log) \in moments

BackupsInv == DatabaseSound /\ BackupSound /\ RestoreSound /\ SnapshotSound /\ VolumeSound

-----------------------------------------------------------------------------
(* Files and logs *)

LEMMA NothingIsFrames == Nothing \in Frames /\ DOMAIN Nothing = {}
<1>1. Nothing \in [{} -> Nat]
  BY DEF Nothing
<1> QED
  BY <1>1 DEF Frames

LEMMA FramesFields ==
  ASSUME NEW f \in Frames
  PROVE  DOMAIN f \subseteq Pages /\ \A p \in DOMAIN f : f[p] \in Nat
  BY DEF Frames

LEMMA FilesAreFrames == Files \subseteq Frames
  BY DEF Files, Frames

LEMMA OverFrames ==
  ASSUME NEW f \in Frames, NEW g \in Frames
  PROVE  /\ Over(f, g) \in Frames
         /\ DOMAIN Over(f, g) = DOMAIN f \cup DOMAIN g
         /\ \A p \in DOMAIN f \cup DOMAIN g :
              Over(f, g)[p] = IF p \in DOMAIN f THEN f[p] ELSE g[p]
<1>1. DOMAIN f \cup DOMAIN g \in SUBSET Pages
  BY FramesFields
<1>2. Over(f, g) \in [DOMAIN f \cup DOMAIN g -> Nat]
  BY FramesFields DEF Over
<1> QED
  BY <1>1, <1>2 DEF Over, Frames

LEMMA LogOf ==
  ASSUME NEW f \in Frames
  PROVE  /\ Log(f) \in Logs
         /\ Log(f).frames = f
         /\ Log(f).there
<1>1. Log(f) \in Logs
  BY DEF Logs
<1>2. Log(f).frames = f
  BY DEF Log
<1>3. Log(f).there
  BY Zenon DEF Log
<1> QED
  BY <1>1, <1>2, <1>3

LEMMA NoLogIs == NoLog \in Logs /\ NoLog.frames = Nothing /\ ~NoLog.there
<1>1. NoLog \in Logs
  BY DEF Logs
<1>2. NoLog.frames = Nothing
  BY DEF NoLog
<1>3. ~NoLog.there
  BY Zenon DEF NoLog
<1> QED
  BY <1>1, <1>2, <1>3

LEMMA LogFields ==
  ASSUME NEW l \in Logs
  PROVE  /\ l.frames \in Frames
         /\ l = NoLog \/ l = Log(l.frames)
         /\ l.there => l = Log(l.frames)
         /\ ~l.there => l = NoLog
<1>1. CASE l = NoLog
  BY <1>1, NoLogIs, NothingIsFrames
<1>2. ASSUME NEW f \in Frames, l = Log(f)
      PROVE  l.frames \in Frames /\ l.there /\ l = Log(l.frames)
  BY <1>2, LogOf
<1> QED
  BY <1>1, <1>2 DEF Logs

LEMMA ContentPages ==
  ASSUME NEW file \in Files, NEW l \in Logs
  PROVE  /\ Content(file, l) \in Files
         /\ \A p \in Pages :
              Content(file, l)[p] = IF p \in DOMAIN l.frames THEN l.frames[p] ELSE file[p]
<1>1. l.frames \in Frames /\ file \in Frames
  BY LogFields, FilesAreFrames
<1>2. DOMAIN l.frames \cup DOMAIN file = Pages
  BY <1>1, FramesFields DEF Files
<1>3. Content(file, l) = [p \in Pages |-> IF p \in DOMAIN l.frames THEN l.frames[p] ELSE file[p]]
  BY <1>2 DEF Content, Over
<1> QED
  BY <1>1, <1>3, FramesFields DEF Files

LEMMA ContentWithoutLog ==
  ASSUME NEW file \in Files
  PROVE  Content(file, NoLog) = file
<1>1. NoLog.frames = Nothing /\ NoLog \in Logs
  BY DEF NoLog, Logs
<1>2. \A p \in Pages : Content(file, NoLog)[p] = file[p]
  BY <1>1, ContentPages, NothingIsFrames
<1>3. Content(file, NoLog) \in Files
  BY <1>1, ContentPages
<1> QED
  BY <1>2, <1>3 DEF Files

\* A finished copy of a whole is the whole.
LEMMA FinishedCopy ==
  ASSUME NEW copy \in Frames, DOMAIN copy = Pages, NEW whole \in Files, Agrees(copy, whole)
  PROVE  copy = whole
<1>1. copy \in [Pages -> Nat]
  BY DEF Frames
<1> QED
  BY <1>1 DEF Agrees, Files

\* One page more.
LEMMA CopiedPage ==
  ASSUME NEW copy \in Frames, NEW whole \in Files, Agrees(copy, whole), NEW p \in Pages
  PROVE  /\ Over([q \in {p} |-> whole[p]], copy) \in Frames
         /\ Agrees(Over([q \in {p} |-> whole[p]], copy), whole)
<1> DEFINE one == [q \in {p} |-> whole[p]]
<1>1. one \in [{p} -> Nat] /\ {p} \in SUBSET Pages
  BY DEF Files
<1>2. one \in Frames /\ DOMAIN one = {p} /\ one[p] = whole[p]
  BY <1>1 DEF Frames
<1> HIDE DEF one
<1>3. /\ Over(one, copy) \in Frames
      /\ DOMAIN Over(one, copy) = DOMAIN one \cup DOMAIN copy
      /\ \A q \in DOMAIN one \cup DOMAIN copy :
           Over(one, copy)[q] = IF q \in DOMAIN one THEN one[q] ELSE copy[q]
  BY <1>2, OverFrames
<1>4. Agrees(Over(one, copy), whole)
  BY <1>2, <1>3 DEF Agrees
<1> QED
  BY <1>3, <1>4 DEF one

-----------------------------------------------------------------------------
(* The database *)

\* The steps that change the database, its log or the service.
DatabaseStep ==
  \/ Open \/ Close \/ StopService \/ Kill \/ StartService \/ BeginBackup \/ ReplaceDatabase
  \/ \E written \in SUBSET Pages \ {{}} : Commit(written)
  \/ \E p \in Pages : Checkpoint(p)

LEMMA OtherSteps ==
  ASSUME [BackupsNext]_backupVars
  PROVE  DatabaseStep \/ UNCHANGED databaseVars
  BY DEF BackupsNext, DatabaseStep, backupVars, databaseVars, CopyPages, CopyBack, FinishBackup,
         PublishBackup, DeleteBackup, BeginRestore, AbandonRestore, BeginSnapshot, ArchiveMain,
         ArchiveLog, PublishSnapshot, AbandonSnapshot, SignFile, ExtractFile, BeginExtraction,
         PublishVolume, AbandonExtraction

\* The database of a step: sound, with every moment it had; a new content only comes
\* with a commit or, while the service is down, with a restore.
DatabaseMoves ==
  /\ DatabaseSound'
  /\ moments \subseteq moments'
  /\ commits <= commits'
  /\ \/ commits # commits'
     \/ Content(main, log)' = Content(main, log)
     \/ service = "down"

LEMMA ContentUnchanged ==
  ASSUME DatabaseSound, UNCHANGED <<commits, moments>>, main' \in Files, log' \in Logs,
         Content(main', log') = Content(main, log)
  PROVE  DatabaseMoves
  BY DEF DatabaseSound, DatabaseMoves

LEMMA SameFrames ==
  ASSUME DatabaseSound, UNCHANGED <<main, commits, moments>>, log' = Log(log.frames)
  PROVE  DatabaseMoves
<1>1. log.frames \in Frames
  BY LogFields DEF DatabaseSound
<1>2. log' \in Logs /\ log'.frames = log.frames
  BY <1>1, LogOf
<1>3. Content(main', log') = Content(main, log)
  BY <1>2 DEF Content
<1> QED
  BY <1>2, <1>3, ContentUnchanged DEF DatabaseSound

LEMMA CommitMoves ==
  ASSUME DatabaseSound, NEW written \in SUBSET Pages, Commit(written)
  PROVE  DatabaseMoves
<1> DEFINE new == [p \in written |-> commits']
<1>1. commits' = commits + 1 /\ commits' \in Nat /\ commits \in Nat /\ main' = main
  BY DEF Commit, DatabaseSound
<1>2. new \in Frames
  <2>1. new \in [written -> Nat]
    BY <1>1
  <2> QED
    BY <2>1 DEF Frames
<1>3. log.frames \in Frames /\ log' = Log(Over(new, log.frames))
  BY LogFields DEF Commit, DatabaseSound
<1> HIDE DEF new
<1>4. log' \in Logs
  BY <1>2, <1>3, OverFrames, LogOf
<1>5. moments' = moments \cup {Content(main, log')}
  BY DEF Commit
<1>6. Content(main, log') \in Files
  BY <1>4, ContentPages DEF DatabaseSound
<1>7. DatabaseSound'
  BY <1>1, <1>4, <1>5, <1>6 DEF DatabaseSound
<1> QED
  BY <1>1, <1>5, <1>7 DEF DatabaseMoves

\* A page that the log has is read from the log, whatever the file holds.
LEMMA CheckpointMoves ==
  ASSUME DatabaseSound, NEW p \in Pages, Checkpoint(p)
  PROVE  DatabaseMoves
<1>1. /\ p \in DOMAIN log.frames /\ main' = [main EXCEPT ![p] = log.frames[p]]
      /\ UNCHANGED <<log, commits, moments>> /\ main \in Files /\ log \in Logs
  BY DEF Checkpoint, DatabaseSound
<1>2. log.frames[p] \in Nat
  BY <1>1, LogFields, FramesFields
<1>3. main' \in Files /\ \A q \in Pages : main'[q] = IF q = p THEN log.frames[p] ELSE main[q]
  BY <1>1, <1>2 DEF Files
<1>4. Content(main', log) \in Files /\ Content(main, log) \in Files
  BY <1>1, <1>3, ContentPages
<1>5. \A q \in Pages : Content(main', log)[q] = Content(main, log)[q]
  <2> SUFFICES ASSUME NEW q \in Pages
               PROVE  Content(main', log)[q] = Content(main, log)[q]
    OBVIOUS
  <2>1. /\ Content(main', log)[q] = IF q \in DOMAIN log.frames THEN log.frames[q] ELSE main'[q]
        /\ Content(main, log)[q] = IF q \in DOMAIN log.frames THEN log.frames[q] ELSE main[q]
    BY <1>1, <1>3, ContentPages
  <2> QED
    BY <1>1, <1>3, <2>1
<1>6. Content(main', log) = Content(main, log)
  BY <1>4, <1>5 DEF Files
<1> QED
  BY <1>1, <1>3, <1>6, ContentUnchanged

LEMMA CloseMoves ==
  ASSUME DatabaseSound, Close
  PROVE  DatabaseMoves
<1>1. main' = Content(main, log) /\ log' = NoLog /\ UNCHANGED <<commits, moments>>
  BY DEF Close
<1>2. Content(main, log) \in Files
  BY ContentPages DEF DatabaseSound
<1> QED
  BY <1>1, <1>2, ContentWithoutLog, NoLogIs, ContentUnchanged

LEMMA ReplaceMoves ==
  ASSUME DatabaseSound, RestoreSound, ReplaceDatabase
  PROVE  DatabaseMoves
<1>1. /\ restore.at = "copying" /\ DOMAIN restore.got = Pages /\ main' = restore.got
      /\ UNCHANGED <<log, commits, moments>>
  BY DEF ReplaceDatabase
<1>2. /\ restore.from \in Files /\ restore.got \in Frames
      /\ service = "down" /\ log = NoLog
      /\ restore.from \in moments /\ Agrees(restore.got, restore.from)
  BY <1>1 DEF RestoreSound, Pausing
<1>3. main' = restore.from
  BY <1>1, <1>2, FinishedCopy
<1>4. Content(main', log') = restore.from
  BY <1>1, <1>2, <1>3, ContentWithoutLog
<1>5. DatabaseSound'
  BY <1>1, <1>2, <1>3, <1>4 DEF DatabaseSound
<1> QED
  BY <1>1, <1>2, <1>5 DEF DatabaseMoves, DatabaseSound

LEMMA DatabaseNext ==
  ASSUME BackupsInv, [BackupsNext]_backupVars
  PROVE  DatabaseMoves
<1>1. DatabaseSound /\ RestoreSound
  BY DEF BackupsInv
<1>2. ASSUME UNCHANGED <<main, log, commits, moments>>
      PROVE  DatabaseMoves
  BY <1>1, <1>2, ContentUnchanged DEF DatabaseSound
<1>3. CASE Open \/ BeginBackup
  BY <1>1, <1>3, SameFrames DEF Open, BeginBackup
<1>4. CASE StopService \/ Kill \/ StartService
  BY <1>2, <1>4 DEF StopService, Kill, StartService
<1>5. CASE UNCHANGED databaseVars
  BY <1>2, <1>5 DEF databaseVars
<1> QED
  BY <1>1, <1>3, <1>4, <1>5, CommitMoves, CheckpointMoves, CloseMoves, ReplaceMoves, OtherSteps
  DEF DatabaseStep

-----------------------------------------------------------------------------
(* Backups *)

\* The steps that change a backup, or end the service that one is made from.
BackupStep ==
  \/ StopService \/ Kill \/ BeginBackup \/ FinishBackup \/ PublishBackup
  \/ \E p \in Pages : CopyPages(p)
  \/ \E file \in backups : DeleteBackup(file)

LEMMA OtherThanBackups ==
  ASSUME [BackupsNext]_backupVars
  PROVE  \/ BackupStep
         \/ UNCHANGED <<backup, backups>> /\ (backup.at = "copying" /\ service = "busy" => service' = "busy")
<1>1. CASE Close
  BY <1>1 DEF Close
<1> QED
  BY <1>1 DEF BackupsNext, BackupStep, backupVars, databaseVars, CopyBack, Open, StartService, Commit,
         Checkpoint, BeginRestore, ReplaceDatabase, AbandonRestore, BeginSnapshot, ArchiveMain,
         ArchiveLog, PublishSnapshot, AbandonSnapshot, SignFile, ExtractFile, BeginExtraction,
         PublishVolume, AbandonExtraction

LEMMA BackupKept ==
  ASSUME BackupsInv, DatabaseMoves, UNCHANGED backup, backups' \subseteq moments',
         backup.at = "copying" /\ service = "busy" => service' = "busy"
  PROVE  BackupSound'
<1>1. BackupSound /\ commits \in Nat /\ commits' \in Nat /\ moments \subseteq moments' /\ commits <= commits'
  BY DEF BackupsInv, DatabaseSound, DatabaseMoves
<1>2. CASE backup = Pausing
  BY <1>2 DEF BackupSound
<1>3. CASE backup.at = "checked" /\ backup.got \in moments
  BY <1>1, <1>3 DEF BackupSound
<1>4. CASE /\ backup \in [at : {"copying"}, got : Frames, since : Nat]
           /\ service = "busy" /\ backup.since <= commits
           /\ backup.since = commits => Agrees(backup.got, Content(main, log))
           /\ \E whole \in moments : Agrees(backup.got, whole)
  <2>1. service' = "busy" /\ backup.since <= commits'
    BY <1>1, <1>4
  <2>2. ASSUME backup.since = commits'
        PROVE  Agrees(backup.got, Content(main, log)')
    <3>1. commits = commits'
      BY <1>1, <1>4, <2>2
    <3> QED
      BY <1>4, <2>2, <3>1 DEF DatabaseMoves
  <2>3. \E whole \in moments' : Agrees(backup.got, whole)
    BY <1>1, <1>4
  <2>4. backup' = backup /\ Content(main, log)' = Content(main', log')
    BY DEF Content
  <2> QED
    BY <1>4, <2>1, <2>2, <2>3, <2>4 DEF BackupSound
<1> QED
  BY <1>1, <1>2, <1>3, <1>4 DEF BackupSound

LEMMA BackupBegins ==
  ASSUME BackupsInv, DatabaseMoves, BeginBackup
  PROVE  BackupSound'
<1>1. /\ service' = "busy" /\ commits' = commits /\ backups' = backups
      /\ backup' = [at |-> "copying", got |-> Nothing, since |-> commits]
  BY DEF BeginBackup
<1>2. /\ commits \in Nat /\ moments \subseteq moments' /\ Content(main', log') \in moments'
      /\ backups \subseteq moments
  BY DEF BackupsInv, DatabaseSound, DatabaseMoves, BackupSound
<1>3. \A whole : Agrees(Nothing, whole)
  BY NothingIsFrames DEF Agrees
<1>4. /\ backup' \in [at : {"copying"}, got : Frames, since : Nat]
      /\ backup'.got = Nothing /\ backup'.since <= commits'
  BY <1>1, <1>2, NothingIsFrames
<1> QED
  BY <1>1, <1>2, <1>3, <1>4 DEF BackupSound

LEMMA BackupCopies ==
  ASSUME BackupsInv, DatabaseMoves, NEW p \in Pages, CopyPages(p)
  PROVE  BackupSound'
<1> DEFINE whole == Content(main, log)
           got == Over([q \in {p} |-> whole[p]], StillCopied)
<1>1. /\ backup.at = "copying" /\ UNCHANGED <<service, main, log, commits, moments, backups>>
      /\ backup' = [backup EXCEPT !.got = got, !.since = commits]
  BY DEF CopyPages, databaseVars
<1>2. whole \in moments /\ whole \in Files /\ commits \in Nat /\ backups \subseteq moments
  BY DEF BackupsInv, DatabaseSound, BackupSound
<1>3. /\ backup \in [at : {"copying"}, got : Frames, since : Nat] /\ service = "busy"
      /\ backup.since = commits => Agrees(backup.got, whole)
  BY <1>1 DEF BackupsInv, BackupSound, Pausing
<1>4. StillCopied \in Frames /\ Agrees(StillCopied, whole)
  BY <1>3, NothingIsFrames DEF StillCopied, Agrees
<1>5. got \in Frames /\ Agrees(got, whole)
  <2> HIDE DEF whole
  <2> QED
    BY <1>2, <1>4, CopiedPage
<1>6. Content(main', log') = whole
  BY <1>1
<1> HIDE DEF got, whole
<1>7. /\ backup' \in [at : {"copying"}, got : Frames, since : Nat]
      /\ backup'.got = got /\ backup'.since = commits
  BY <1>1, <1>2, <1>3, <1>5
<1> QED
  BY <1>1, <1>2, <1>3, <1>5, <1>6, <1>7 DEF BackupSound

LEMMA BackupEnds ==
  ASSUME BackupsInv, DatabaseMoves, FinishBackup
  PROVE  BackupSound'
<1>1. /\ backup.at = "copying" /\ DOMAIN backup.got = Pages /\ UNCHANGED <<moments, backups>>
      /\ backup' = [at |-> "checked", got |-> backup.got]
  BY DEF FinishBackup, databaseVars
<1>2. /\ backup.got \in Frames /\ moments \subseteq Files /\ backups \subseteq moments
      /\ \E whole \in moments : Agrees(backup.got, whole)
  BY <1>1 DEF BackupsInv, BackupSound, DatabaseSound, Pausing
<1>3. backup.got \in moments
  BY <1>1, <1>2, FinishedCopy
<1> QED
  BY <1>1, <1>2, <1>3 DEF BackupSound

LEMMA BackupPublished ==
  ASSUME BackupsInv, DatabaseMoves, PublishBackup
  PROVE  BackupSound'
<1>1. backup.at = "checked" /\ backups' = backups \cup {backup.got} /\ backup' = Pausing
  BY DEF PublishBackup, Published
<1>2. backup.got \in moments /\ backups \subseteq moments /\ moments \subseteq moments'
  BY <1>1 DEF BackupsInv, BackupSound, DatabaseMoves, Pausing
<1> QED
  BY <1>1, <1>2 DEF BackupSound

LEMMA BackupNext ==
  ASSUME BackupsInv, DatabaseMoves, [BackupsNext]_backupVars
  PROVE  BackupSound'
<1>1. backups \subseteq moments /\ moments \subseteq moments'
  BY DEF BackupsInv, BackupSound, DatabaseMoves
<1>2. CASE StopService \/ Kill
  BY <1>1, <1>2 DEF StopService, Kill, BackupSound
<1>3. ASSUME NEW file \in backups, DeleteBackup(file)
      PROVE  BackupSound'
  BY <1>1, <1>3, BackupKept DEF DeleteBackup, databaseVars
<1>4. ASSUME UNCHANGED <<backup, backups>>,
             backup.at = "copying" /\ service = "busy" => service' = "busy"
      PROVE  BackupSound'
  BY <1>1, <1>4, BackupKept
<1> QED
  BY <1>2, <1>3, <1>4, BackupBegins, BackupCopies, BackupEnds, BackupPublished, OtherThanBackups
  DEF BackupStep

-----------------------------------------------------------------------------
(* Restores *)

RestoreStep ==
  \/ \E file \in backups : BeginRestore(file)
  \/ \E p \in Pages : CopyBack(p)
  \/ ReplaceDatabase \/ AbandonRestore

\* Nobody starts the service, or writes to a log, under a restore.
LEMMA OtherThanRestores ==
  ASSUME [BackupsNext]_backupVars
  PROVE  \/ RestoreStep
         \/ UNCHANGED restore /\ (restore.at = "copying" /\ service = "down" => UNCHANGED <<service, log>>)
  BY DEF BackupsNext, RestoreStep, backupVars, databaseVars, Open, Close, StopService, Kill,
         StartService, Commit, Checkpoint, BeginBackup, CopyPages, FinishBackup, PublishBackup,
         DeleteBackup, BeginSnapshot, ArchiveMain, ArchiveLog, PublishSnapshot, AbandonSnapshot,
         SignFile, ExtractFile, BeginExtraction, PublishVolume, AbandonExtraction

LEMMA RestoreCopies ==
  ASSUME BackupsInv, DatabaseMoves, NEW p \in Pages, CopyBack(p)
  PROVE  RestoreSound'
<1> DEFINE got == Over([q \in {p} |-> restore.from[p]], restore.got)
<1>1. /\ restore.at = "copying" /\ UNCHANGED <<service, log, moments>>
      /\ restore' = [restore EXCEPT !.got = got]
  BY DEF CopyBack, databaseVars
<1>2. /\ restore \in [at : {"copying"}, from : Files, got : Frames]
      /\ service = "down" /\ log = NoLog
      /\ restore.from \in moments /\ Agrees(restore.got, restore.from)
  BY <1>1 DEF BackupsInv, RestoreSound, Pausing
<1>3. got \in Frames /\ Agrees(got, restore.from)
  BY <1>2, CopiedPage
<1> HIDE DEF got
<1>4. /\ restore' \in [at : {"copying"}, from : Files, got : Frames]
      /\ restore'.got = got /\ restore'.from = restore.from
  BY <1>1, <1>2, <1>3
<1> QED
  BY <1>1, <1>2, <1>3, <1>4 DEF RestoreSound

LEMMA RestoreNext ==
  ASSUME BackupsInv, DatabaseMoves, [BackupsNext]_backupVars
  PROVE  RestoreSound'
<1>1. RestoreSound /\ moments \subseteq moments'
  BY DEF BackupsInv, DatabaseMoves
<1>2. ASSUME NEW file \in backups, BeginRestore(file)
      PROVE  RestoreSound'
  <2>1. /\ service = "down" /\ ~log.there /\ UNCHANGED <<service, log, moments>>
        /\ restore' = [at |-> "copying", from |-> file, got |-> Nothing]
    BY <1>2 DEF BeginRestore, LogAbsent, databaseVars
  <2>2. log = NoLog /\ file \in moments /\ file \in Files
    BY <2>1, LogFields DEF BackupsInv, BackupSound, DatabaseSound
  <2>3. Agrees(Nothing, file)
    BY NothingIsFrames DEF Agrees
  <2> QED
    BY <2>1, <2>2, <2>3, NothingIsFrames DEF RestoreSound
<1>3. CASE ReplaceDatabase \/ AbandonRestore
  BY <1>3 DEF ReplaceDatabase, AbandonRestore, RestoreSound
<1>4. ASSUME UNCHANGED restore, restore.at = "copying" /\ service = "down" => UNCHANGED <<service, log>>
      PROVE  RestoreSound'
  BY <1>1, <1>4 DEF RestoreSound
<1> QED
  BY <1>2, <1>3, <1>4, RestoreCopies, OtherThanRestores DEF RestoreStep

-----------------------------------------------------------------------------
(* Snapshots *)

SnapshotStep ==
  \/ BeginSnapshot \/ ArchiveMain \/ ArchiveLog \/ PublishSnapshot \/ AbandonSnapshot
  \/ \E f \in BothFiles : SignFile(f)

\* A step that changes a file is one of those after which the signature differs.
Noticed ==
  \/ UNCHANGED <<main, log, snapshot>>
  \/ \E files \in SUBSET BothFiles :
       /\ Changing(files)
       /\ main' = main \/ "main" \in files
       /\ log' = log \/ "log" \in files

LEMMA OtherThanSnapshots ==
  ASSUME DatabaseSound, [BackupsNext]_backupVars
  PROVE  \/ SnapshotStep /\ UNCHANGED <<main, log>>
         \/ Noticed /\ UNCHANGED archives
<1>1. CASE Open \/ BeginBackup
  <2>1. /\ log' = Log(log.frames) /\ UNCHANGED <<main, archives>>
        /\ IF log.there THEN UNCHANGED snapshot ELSE Changing({"log"})
    BY <1>1 DEF Open, BeginBackup
  <2>2. CASE log.there
    <3>1. log' = log
      BY <2>1, <2>2, LogFields DEF DatabaseSound
    <3> QED
      BY <2>1, <2>2, <3>1 DEF Noticed
  <2>3. CASE ~log.there
    BY <2>1, <2>3 DEF Noticed, BothFiles
  <2> QED
    BY <2>2, <2>3
<1>2. CASE Close
  BY <1>2 DEF Close, Noticed, BothFiles
<1>3. ASSUME NEW written, Commit(written)
      PROVE  Noticed /\ UNCHANGED archives
  BY <1>3 DEF Commit, Noticed, BothFiles
<1>4. ASSUME NEW p, Checkpoint(p)
      PROVE  Noticed /\ UNCHANGED archives
  BY <1>4 DEF Checkpoint, Noticed, BothFiles
<1>5. CASE ReplaceDatabase
  BY <1>5 DEF ReplaceDatabase, Noticed, BothFiles
<1>6. \/ Open \/ BeginBackup \/ Close \/ ReplaceDatabase
      \/ \E written : Commit(written)
      \/ \E p : Checkpoint(p)
      \/ UNCHANGED <<main, log, snapshot, archives>>
      \/ SnapshotStep /\ UNCHANGED <<main, log>>
  BY DEF BackupsNext, SnapshotStep, BothFiles, backupVars, databaseVars, StopService, Kill,
         StartService, CopyPages, FinishBackup, PublishBackup,
         DeleteBackup, BeginRestore, CopyBack, AbandonRestore, BeginSnapshot, ArchiveMain, ArchiveLog,
         PublishSnapshot, AbandonSnapshot, SignFile, ExtractFile, BeginExtraction, PublishVolume,
         AbandonExtraction
<1> QED
  BY <1>1, <1>2, <1>3, <1>4, <1>5, <1>6 DEF Noticed

Snapshots == [at : {"signing", "main", "log", "comparing"}, signed : SUBSET BothFiles,
              changed : SUBSET BothFiles, log : Logs, main : Frames]

LEMMA SnapshotNoticed ==
  ASSUME BackupsInv, DatabaseMoves, Noticed, UNCHANGED archives
  PROVE  SnapshotSound'
<1>1. SnapshotSound /\ moments \subseteq moments'
  BY DEF BackupsInv, DatabaseMoves
<1>2. CASE UNCHANGED <<main, log, snapshot>>
  BY <1>1, <1>2 DEF SnapshotSound
<1>3. ASSUME NEW files \in SUBSET BothFiles, Changing(files), main' = main \/ "main" \in files,
             log' = log \/ "log" \in files
      PROVE  SnapshotSound'
  <2>1. CASE snapshot = Pausing
    BY <1>1, <1>3, <2>1 DEF SnapshotSound, Changing, Pausing
  <2>2. CASE /\ snapshot \in Snapshots
             /\ snapshot.at # "signing" => snapshot.signed = BothFiles
             /\ snapshot.at \in {"log", "comparing"} /\ "main" \notin snapshot.changed =>
                  snapshot.main = main
             /\ snapshot.at = "comparing" /\ "log" \notin snapshot.changed => snapshot.log = log
    <3>1. snapshot' = [snapshot EXCEPT !.changed = @ \cup (files \cap snapshot.signed)]
      BY <1>3, <2>2 DEF Changing, Snapshots
    <3>2. /\ snapshot' \in Snapshots /\ snapshot'.at = snapshot.at
          /\ snapshot'.changed = snapshot.changed \cup (files \cap snapshot.signed)
          /\ snapshot'.signed = snapshot.signed
          /\ snapshot'.main = snapshot.main /\ snapshot'.log = snapshot.log
      BY <2>2, <3>1 DEF Snapshots
    <3>3. snapshot'.at \in {"log", "comparing"} /\ "main" \notin snapshot'.changed => snapshot'.main = main'
      BY <1>3, <2>2, <3>2
    <3>4. snapshot'.at = "comparing" /\ "log" \notin snapshot'.changed => snapshot'.log = log'
      BY <1>3, <2>2, <3>2
    <3> QED
      BY <1>1, <2>2, <3>2, <3>3, <3>4 DEF SnapshotSound, Snapshots
  <2> QED
    BY <1>1, <2>1, <2>2 DEF SnapshotSound, Snapshots
<1> QED
  BY <1>2, <1>3 DEF Noticed

LEMMA SnapshotMakes ==
  ASSUME BackupsInv, DatabaseMoves, SnapshotStep, UNCHANGED <<main, log>>
  PROVE  SnapshotSound'
<1>1. /\ SnapshotSound /\ moments \subseteq moments'
      /\ main \in Files /\ main \in Frames /\ log \in Logs /\ Content(main, log) \in moments
  BY FilesAreFrames DEF BackupsInv, DatabaseMoves, DatabaseSound
<1>2. CASE BeginSnapshot
  <2>1. snapshot' \in Snapshots /\ snapshot'.at = "signing"
    BY <1>2, NoLogIs, NothingIsFrames DEF BeginSnapshot, Snapshots
  <2> QED
    BY <1>1, <1>2, <2>1 DEF BeginSnapshot, SnapshotSound, Snapshots
<1>3. ASSUME NEW f \in BothFiles, SignFile(f)
      PROVE  SnapshotSound'
  <2>1. /\ snapshot.at = "signing" /\ f \notin snapshot.signed /\ UNCHANGED archives
        /\ snapshot' = [snapshot EXCEPT !.signed = snapshot.signed \cup {f},
                                        !.at = IF snapshot.signed = {} THEN snapshot.at ELSE "main"]
    BY <1>3 DEF SignFile
  <2>2. snapshot \in Snapshots
    BY <1>1, <2>1 DEF SnapshotSound, Snapshots, Pausing
  <2>3. /\ snapshot' \in Snapshots /\ snapshot'.signed = snapshot.signed \cup {f}
        /\ snapshot'.at = IF snapshot.signed = {} THEN "signing" ELSE "main"
    BY <2>1, <2>2 DEF Snapshots
  <2>4. snapshot.signed # {} => snapshot'.signed = BothFiles
    <3>1. snapshot.signed \subseteq BothFiles
      BY <2>2 DEF Snapshots
    <3> QED
      BY <1>3, <2>1, <2>3, <3>1 DEF BothFiles
  <2> QED
    BY <1>1, <2>1, <2>3, <2>4 DEF SnapshotSound, Snapshots
<1>4. CASE ArchiveMain
  <2>1. /\ snapshot.at = "main" /\ snapshot' = [snapshot EXCEPT !.main = main, !.at = "log"]
        /\ UNCHANGED archives
    BY <1>4 DEF ArchiveMain
  <2>2. snapshot \in Snapshots /\ snapshot.signed = BothFiles
    BY <1>1, <2>1 DEF SnapshotSound, Snapshots, Pausing
  <2>3. /\ snapshot' \in Snapshots /\ snapshot'.signed = BothFiles /\ snapshot'.at = "log"
        /\ snapshot'.main = main
    BY <1>1, <2>1, <2>2 DEF Snapshots
  <2> QED
    BY <1>1, <2>1, <2>3 DEF SnapshotSound, Snapshots
<1>5. CASE ArchiveLog
  <2>1. /\ snapshot.at = "log" /\ snapshot' = [snapshot EXCEPT !.log = log, !.at = "comparing"]
        /\ UNCHANGED archives
    BY <1>5 DEF ArchiveLog
  <2>2. /\ snapshot \in Snapshots /\ snapshot.signed = BothFiles
        /\ "main" \notin snapshot.changed => snapshot.main = main
    BY <1>1, <2>1 DEF SnapshotSound, Snapshots, Pausing
  <2>3. /\ snapshot' \in Snapshots /\ snapshot'.signed = BothFiles /\ snapshot'.at = "comparing"
        /\ snapshot'.main = snapshot.main /\ snapshot'.log = log /\ snapshot'.changed = snapshot.changed
    BY <1>1, <2>1, <2>2 DEF Snapshots
  <2> QED
    BY <1>1, <2>1, <2>2, <2>3 DEF SnapshotSound, Snapshots
<1>6. CASE PublishSnapshot
  <2>1. /\ snapshot.at = "comparing" /\ snapshot.changed = {} /\ snapshot' = Pausing
        /\ archives' = archives \cup {[main |-> snapshot.main, log |-> snapshot.log]}
    BY <1>6 DEF PublishSnapshot, Steady
  <2>2. snapshot.main = main /\ snapshot.log = log
    BY <1>1, <2>1 DEF SnapshotSound, Pausing
  <2> DEFINE made == [main |-> main, log |-> log]
  <2>3. made \in Archives /\ made.main = main /\ made.log = log /\ archives' = archives \cup {made}
    BY <1>1, <2>1, <2>2 DEF Archives
  <2> HIDE DEF made
  <2>4. archives' \subseteq Archives /\ \A a \in archives' : Content(a.main, a.log) \in moments'
    BY <1>1, <2>3 DEF SnapshotSound
  <2> QED
    BY <2>1, <2>4 DEF SnapshotSound
<1>7. CASE AbandonSnapshot
  BY <1>1, <1>7 DEF AbandonSnapshot, SnapshotSound
<1> QED
  BY <1>2, <1>3, <1>4, <1>5, <1>6, <1>7 DEF SnapshotStep

-----------------------------------------------------------------------------
(* Volumes *)

VolumeStep ==
  \/ \E a \in archives : BeginExtraction(a)
  \/ \E f \in BothFiles : ExtractFile(f)
  \/ PublishVolume \/ AbandonExtraction

LEMMA OtherThanVolumes ==
  ASSUME [BackupsNext]_backupVars
  PROVE  VolumeStep \/ UNCHANGED volume
  BY DEF BackupsNext, VolumeStep, BothFiles, backupVars, Open, Close, StopService, Kill,
         StartService, Commit, Checkpoint, BeginBackup, CopyPages, FinishBackup, PublishBackup,
         DeleteBackup, BeginRestore, CopyBack, ReplaceDatabase, AbandonRestore, BeginSnapshot,
         ArchiveMain, ArchiveLog, PublishSnapshot, AbandonSnapshot, SignFile

Volumes == [at : {"extracting", "published"}, from : Archives, main : Frames, log : Logs]

LEMMA VolumeNext ==
  ASSUME BackupsInv, DatabaseMoves, [BackupsNext]_backupVars
  PROVE  VolumeSound'
<1>1. /\ VolumeSound /\ SnapshotSound /\ moments \subseteq moments'
  BY DEF BackupsInv, DatabaseMoves
<1>2. ASSUME NEW a \in archives, BeginExtraction(a)
      PROVE  VolumeSound'
  <2>1. volume' = [at |-> "extracting", from |-> a, main |-> Nothing, log |-> NoLog]
    BY <1>2 DEF BeginExtraction
  <2>2. a \in Archives /\ Content(a.main, a.log) \in moments'
    BY <1>1 DEF SnapshotSound
  <2> QED
    BY <2>1, <2>2, NoLogIs, NothingIsFrames DEF VolumeSound
<1>3. ASSUME NEW f \in BothFiles, ExtractFile(f)
      PROVE  VolumeSound'
  <2>1. volume.at = "extracting" /\ volume' = [volume EXCEPT ![f] = volume.from[f]]
    BY <1>3 DEF ExtractFile
  <2>2. /\ volume \in Volumes
        /\ Content(volume.from.main, volume.from.log) \in moments
    BY <1>1, <2>1 DEF VolumeSound, Volumes, Pausing
  <2>3. volume.from.main \in Frames /\ volume.from.log \in Logs
    BY <2>2, FilesAreFrames DEF Volumes, Archives
  <2>4. volume' \in Volumes /\ volume'.at = "extracting" /\ volume'.from = volume.from
    <3>1. CASE f = "main"
      BY <2>1, <2>2, <2>3, <3>1 DEF Volumes
    <3>2. CASE f = "log"
      BY <2>1, <2>2, <2>3, <3>2 DEF Volumes
    <3> QED
      BY <3>1, <3>2 DEF BothFiles
  <2> QED
    BY <1>1, <2>2, <2>4 DEF VolumeSound, Volumes
<1>4. CASE PublishVolume
  <2>1. /\ volume.at = "extracting" /\ volume.main = volume.from.main /\ volume.log = volume.from.log
        /\ volume' = [volume EXCEPT !.at = "published"]
    BY <1>4 DEF PublishVolume, Extracted
  <2>2. /\ volume \in Volumes
        /\ Content(volume.from.main, volume.from.log) \in moments
    BY <1>1, <2>1 DEF VolumeSound, Volumes, Pausing
  <2>3. /\ volume' \in Volumes /\ volume'.from = volume.from
        /\ volume'.main = volume.from.main /\ volume'.log = volume.from.log
    BY <2>1, <2>2 DEF Volumes
  <2> QED
    BY <1>1, <2>2, <2>3 DEF VolumeSound, Volumes
<1>5. CASE AbandonExtraction
  BY <1>5 DEF AbandonExtraction, VolumeSound
<1>6. CASE UNCHANGED volume
  BY <1>1, <1>6 DEF VolumeSound
<1> QED
  BY <1>2, <1>3, <1>4, <1>5, <1>6, OtherThanVolumes DEF VolumeStep

-----------------------------------------------------------------------------
(* The theorems *)

LEMMA BackupsStart ==
  ASSUME BackupsInit
  PROVE  BackupsInv
<1>1. /\ main = [p \in Pages |-> 0] /\ log = NoLog /\ commits = 0 /\ moments = {main}
      /\ backup = Pausing /\ backups = {} /\ restore = Pausing
      /\ snapshot = Pausing /\ archives = {} /\ volume = Pausing
  BY DEF BackupsInit
<1>2. main \in Files
  BY <1>1 DEF Files
<1>3. DatabaseSound
  BY <1>1, <1>2, NoLogIs, ContentWithoutLog DEF DatabaseSound
<1> QED
  BY <1>1, <1>3 DEF BackupsInv, BackupSound, RestoreSound, SnapshotSound, VolumeSound

LEMMA BackupsStay ==
  ASSUME BackupsInv, [BackupsNext]_backupVars
  PROVE  BackupsInv'
<1>1. DatabaseMoves
  BY DatabaseNext
<1>2. DatabaseSound'
  BY <1>1 DEF DatabaseMoves
<1>3. SnapshotSound'
  BY <1>1, OtherThanSnapshots, SnapshotNoticed, SnapshotMakes DEF BackupsInv
<1> QED
  BY <1>1, <1>2, <1>3, BackupNext, RestoreNext, VolumeNext DEF BackupsInv

\* However the service is stopped, killed and restored over, the database with its log
\* is what it was after one commit, never a mixture of two.
THEOREM DatabaseStaysWhole == BackupsSpec => []DatabaseIsWhole
<1>1. BackupsInv => DatabaseIsWhole
  BY DEF BackupsInv, DatabaseSound, DatabaseIsWhole
<1> QED
  BY <1>1, BackupsStart, BackupsStay, PTL DEF BackupsSpec

\* Every published backup, every archived snapshot and every volume extracted from one
\* is what the database was after one commit.
THEOREM CopiesStayWhole == BackupsSpec => []CopiesAreWhole
<1>1. BackupsInv => CopiesAreWhole
  <2>1. SUFFICES ASSUME BackupsInv
                 PROVE  CopiesAreWhole
    OBVIOUS
  <2>2. backups \subseteq moments /\ \A a \in archives : Content(a.main, a.log) \in moments
    BY <2>1 DEF BackupsInv, BackupSound, SnapshotSound
  <2>3. volume.at = "published" => Content(volume.main, volume.log) \in moments
    BY <2>1 DEF BackupsInv, VolumeSound, Pausing
  <2> QED
    BY <2>2, <2>3 DEF CopiesAreWhole
<1> QED
  BY <1>1, BackupsStart, BackupsStay, PTL DEF BackupsSpec

=============================================================================
