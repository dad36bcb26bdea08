---------------------------- MODULE JobLifecycle ----------------------------
(***************************************************************************)
(* What the update-job store promises to the operator, and no more: a job  *)
(* is created once, is handed out once, ends at most once, and the moment  *)
(* it ends is the moment the log of finished jobs receives its entry.      *)
(***************************************************************************)
EXTENDS Naturals, Sequences

CONSTANTS Jobs, Outcomes

VARIABLES phase, log

lifecycleVars == <<phase, log>>

Phases == {"absent", "pending", "running"} \cup Outcomes

Init ==
  /\ phase = [j \in Jobs |-> "absent"]
  /\ log = <<>>

Create(j) ==
  /\ phase[j] = "absent"
  /\ \A i \in Jobs : i < j => phase[i] # "absent"
  /\ phase' = [phase EXCEPT ![j] = "pending"]
  /\ UNCHANGED log

Start(j) ==
  /\ phase[j] = "pending"
  /\ phase' = [phase EXCEPT ![j] = "running"]
  /\ UNCHANGED log

Finish(j, outcome) ==
  /\ phase[j] = "running"
  /\ phase' = [phase EXCEPT ![j] = outcome]
  /\ log' = Append(log, [job |-> j, outcome |-> outcome])

Next ==
  \E j \in Jobs :
    \/ Create(j)
    \/ Start(j)
    \/ \E outcome \in Outcomes : Finish(j, outcome)

Spec == Init /\ [][Next]_lifecycleVars

=============================================================================
