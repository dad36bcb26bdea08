------------------------- MODULE SocEventLifecycle -------------------------
(***************************************************************************)
(* What the SOC promises of an event, without inbox, claims and workers:   *)
(* it is queued once, tried a bounded number of times, and either          *)
(* processed, or given up after the last try.                              *)
(***************************************************************************)
EXTENDS Naturals

CONSTANTS Keys, MaxTries

VARIABLES phase, tries

TypeOK ==
  /\ phase \in [Keys -> {"unknown", "queued", "processed", "given up"}]
  /\ tries \in [Keys -> 0..MaxTries]

Init ==
  /\ phase = [k \in Keys |-> "unknown"]
  /\ tries = [k \in Keys |-> 0]

Accept(k) ==
  phase[k] = "unknown" /\ phase'[k] = "queued" /\ tries'[k] = tries[k]

Try(k) ==
  /\ phase[k] = "queued" /\ tries[k] < MaxTries
  /\ phase'[k] = "queued" /\ tries'[k] = tries[k] + 1

Process(k) ==
  /\ phase[k] = "queued" /\ tries[k] > 0
  /\ phase'[k] = "processed" /\ tries'[k] = tries[k]

GiveUp(k) ==
  /\ phase[k] = "queued" /\ tries[k] = MaxTries
  /\ phase'[k] = "given up" /\ tries'[k] = tries[k]

Rests(k) == phase'[k] = phase[k] /\ tries'[k] = tries[k]

\* One step may move several events, each along its own path.
Next ==
  /\ phase' \in [Keys -> {"unknown", "queued", "processed", "given up"}]
  /\ tries' \in [Keys -> 0..MaxTries]
  /\ \A k \in Keys : Accept(k) \/ Try(k) \/ Process(k) \/ GiveUp(k) \/ Rests(k)

Spec == Init /\ [][Next]_<<phase, tries>>

=============================================================================
