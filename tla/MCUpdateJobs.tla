---------------------------- MODULE MCUpdateJobs ----------------------------
(***************************************************************************)
(* Three scenarios of the update-job store in one run:                     *)
(*   owners     two clients, one package, jobs of two kinds of action      *)
(*   packages   one client, one job on two packages, every handler         *)
(*   queue      one client, one package, two jobs, no checkpoints          *)
(***************************************************************************)
EXTENDS UpdateJobsProps, TLC

VARIABLE scenario    \* what this behaviour may use; it never changes

Scenario(clients, packages, actions, kinds, count) ==
  [clients : {S \in SUBSET Clients : Cardinality(S) = clients},
   packages : {S \in SUBSET Packages : Cardinality(S) = packages},
   actions : {actions}, kinds : {kinds}, count : {count}]

Owners == Scenario(2, 1, {"INSTALL_PACKAGE", "UPDATE_SYSTEM"},
                   {"create", "claim", "checkpoint", "result", "abandon"}, 1)
Package2 == Scenario(1, 2, {"UPDATE_PACKAGE", "UPDATE_SYSTEM"}, Kinds, 1)
Queue == Scenario(1, 1, {"INSTALL_PACKAGE"}, {"create", "claim", "result", "abandon"}, 2)

Scenarios == Owners \cup Package2 \cup Queue

InScenario(s, r) ==
  /\ r.kind \in s.kinds
  /\ r.client \in s.clients
  /\ r.kind = "create" => r.action \in s.actions /\ r.packages \subseteq s.packages
  /\ r.kind = "report" => r.updates \subseteq s.packages
  /\ r.kind = "checkpoint" => r.package \in s.packages
  /\ r.kind = "result" => DOMAIN r.results \subseteq s.packages \cup {NoPackage}
  /\ r.kind \notin {"create", "report"} => r.job <= s.count

RequestsOf == [s \in Scenarios |-> {r \in Requests : InScenario(s, r)}]

MCInit ==
  /\ Init
  /\ scenario \in Scenarios
  /\ \A c \in Clients :
       available[c] \subseteq IF c \in scenario.clients THEN scenario.packages ELSE {}

MCNext ==
  /\ \/ \E t \in Threads, r \in RequestsOf[scenario] : Arrive(t, r)
     \/ \E t \in Threads : Serve(t) \/ Die(t)
     \/ \E c \in scenario.clients : DisableClient(c)
  /\ Len(jobs') <= scenario.count
  /\ UNCHANGED scenario

MCSpec == MCInit /\ [][MCNext]_<<vars, scenario>>

\* The clients, the packages and the threads are interchangeable.
Symmetry == Permutations(Clients) \cup Permutations(Packages)
              \cup Permutations(Threads)

=============================================================================
