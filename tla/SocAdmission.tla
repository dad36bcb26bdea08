---------------------------- MODULE SocAdmission ----------------------------
(***************************************************************************)
(* Admission of TLS connections at one component of the SOC                *)
(* (soc/admission.py): while a certificate revocation list (CRL) is        *)
(* active and in time connections are admitted, otherwise none are.  What  *)
(* time it is comes from a provider that is synchronised now and then      *)
(* (soc/trusted_time.py), and is carried on by the clock since boot.       *)
(*                                                                         *)
(* Time is counted in ticks, and UTC is zero at boot: real time is the     *)
(* value of `boottime'.  Every method holds the controller's lock; only    *)
(* the verifier of a recovery takes time, and every other call waits for   *)
(* it.  Signatures and issuers, which a validated list has for good, and   *)
(* the dates of the CA's own certificate are not part of the model.        *)
(***************************************************************************)
EXTENDS Integers, FiniteSetsExt

CONSTANTS
  Crls,            \* lists that exist: records of `this' and `next' update
  NoCrl,           \* no list
  MaxAge,          \* CRLPolicy: age at which a list is too old
  ClockSkew,       \* CRLPolicy: how far ahead a list may be issued
  Margin,          \* safety_margin before the end of a list
  ReadingAge,      \* observation_tolerance: how old a reading may be
  MaxSyncAge,      \* TrustedTimePolicy: how long a synchronisation serves
  Consistency,     \* TrustedTimePolicy: how far the wall clock may have drifted since
  SyncError,       \* TrustedTimePolicy: offset and uncertainty of a synchronisation
  WallErrors,      \* how wrong the wall clock may be, otherwise
  MaxClock         \* BOUND on ticks

ASSUME CrlsAssumption == NoCrl \notin Crls /\ Crls \subseteq [this : Int, next : Int]
ASSUME AdmissionLimitsAssumption ==
  {MaxAge, Margin, Consistency, SyncError} \subseteq Nat /\ WallErrors \subseteq Int

VARIABLES
  boottime,   \* the clock since boot, CLOCK_BOOTTIME
  provider,   \* its last synchronisation, the last reading, and whether it is to be trusted
  controller, \* AdmissionController, and when its process started
  admitted    \* the answer of admit_new_connection, for the moment

admissionVars == <<boottime, provider, controller, admitted>>

Started ==
  [started |-> boottime, state |-> "BLOCKED", active |-> NoCrl, deadline |-> 0,
   candidate |-> NoCrl, candidate_deadline |-> 0, verifying |-> FALSE]

AdmissionInit ==
  /\ boottime = 0
  /\ provider = [sync |-> [utc |-> 0, boot |-> 0], seen |-> [utc |-> 0, boot |-> 0], fit |-> TRUE]
  /\ controller = Started
  /\ admitted = FALSE

-----------------------------------------------------------------------------
(* Time *)

SyncAge == provider.seen.boot - provider.sync.boot

WallElapsed == provider.seen.utc - provider.sync.utc

\* validate_trusted_time.  `fit' says that the provider is synchronised,
\* authenticated and approved, with an offset and an uncertainty within limits.
Trusted ==
  /\ provider.fit
  /\ provider.sync.boot > controller.started
  /\ SyncAge \in 0..MaxSyncAge
  /\ WallElapsed >= 0
  /\ WallElapsed - SyncAge \in -Consistency..Consistency

\* _read_observation: a reading, brought forward to the local clock.
Readable == Trusted /\ boottime - provider.seen.boot \in 0..ReadingAge

EffectiveUtc == provider.seen.utc + (boottime - provider.seen.boot)

-----------------------------------------------------------------------------
(* A list in time *)

Latest(crl) == Min({crl.next, crl.this + MaxAge})

\* validate_direct_crl, as far as it is about time.
ValidCrl(crl) ==
  /\ crl.this <= EffectiveUtc + ClockSkew
  /\ EffectiveUtc <= crl.next
  /\ EffectiveUtc - crl.this <= MaxAge

Remaining(crl) == Latest(crl) - EffectiveUtc - Margin

Deadline(crl) == boottime + Remaining(crl)

Usable(crl) == Readable /\ ValidCrl(crl) /\ Remaining(crl) > 0

\* MUTANT: the deadline is computed anew.
RefreshedAnew == Deadline(controller.active)

\* _refresh_active_locked: a deadline is only ever brought forward.
Refreshed == Min({controller.deadline, Deadline(controller.active)})

StillActive ==
  /\ controller.active # NoCrl
  /\ Usable(controller.active)
  /\ boottime < Refreshed

-----------------------------------------------------------------------------
(* The controller *)

\* _block_locked: the active list is kept, to be looked at.
Blocked ==
  [controller EXCEPT !.state = "BLOCKED", !.deadline = 0, !.candidate = NoCrl,
                     !.candidate_deadline = 0, !.verifying = FALSE]

\* The state after a refresh: the one that is asked for, or BLOCKED.
RefreshedAs(state) ==
  IF StillActive
  THEN [controller EXCEPT !.state = state, !.deadline = Refreshed]
  ELSE Blocked

Unlocked == ~controller.verifying

Admitting == {"READY", "UPDATE_PENDING"}

AdmitNewConnection ==
  /\ Unlocked /\ controller.state \in Admitting
  /\ controller' = RefreshedAs(controller.state)
  /\ admitted' = StillActive
  /\ UNCHANGED <<boottime, provider>>

BeginUpdate ==
  /\ Unlocked /\ controller.state = "READY"
  /\ controller' = RefreshedAs("UPDATE_PENDING")
  /\ admitted' = FALSE
  /\ UNCHANGED <<boottime, provider>>

FailUpdate ==
  /\ Unlocked /\ controller.state = "UPDATE_PENDING"
  /\ controller' = RefreshedAs("READY")
  /\ admitted' = FALSE
  /\ UNCHANGED <<boottime, provider>>

\* A candidate that is refused during an update leaves the active list in force.
BeginRecovery(candidate) ==
  /\ Unlocked /\ controller.state \in {"BLOCKED", "UPDATE_PENDING"}
  /\ controller' =
       IF Usable(candidate)
       THEN [controller EXCEPT !.state = "RECOVERY", !.candidate = candidate,
                               !.candidate_deadline = Deadline(candidate)]
       ELSE IF controller.state = "UPDATE_PENDING" THEN RefreshedAs("READY") ELSE Blocked
  /\ admitted' = FALSE
  /\ UNCHANGED <<boottime, provider>>

\* complete_recovery calls the verifier, with the lock held ...
StartVerification ==
  /\ Unlocked /\ controller.state = "RECOVERY"
  /\ controller' = [controller EXCEPT !.verifying = TRUE]
  /\ admitted' = FALSE
  /\ UNCHANGED <<boottime, provider>>

\* ... and goes by its verdict and by the time it is then.
CompleteRecovery(verified) ==
  LET candidate == controller.candidate
      deadline  == Min({controller.candidate_deadline, Deadline(candidate)})
  IN /\ controller.verifying
     /\ controller' =
          IF verified /\ Usable(candidate) /\ boottime < deadline
          THEN [controller EXCEPT !.state = "READY", !.active = candidate, !.deadline = deadline,
                                  !.candidate = NoCrl, !.candidate_deadline = 0,
                                  !.verifying = FALSE]
          ELSE Blocked
     /\ admitted' = FALSE
     /\ UNCHANGED <<boottime, provider>>

RestartProcess ==
  /\ controller' = Started
  /\ admitted' = FALSE
  /\ UNCHANGED <<boottime, provider>>

-----------------------------------------------------------------------------
(* The world *)

BootTick ==
  /\ boottime < MaxClock
  /\ boottime' = boottime + 1
  /\ admitted' = FALSE
  /\ UNCHANGED <<provider, controller>>

\* The provider synchronises, and is then wrong by no more than it says ...
Synchronize ==
  \E e \in -SyncError..SyncError :
    LET reading == [utc |-> boottime + e, boot |-> boottime] IN
      /\ provider' = [provider EXCEPT !.sync = reading, !.seen = reading]
      /\ admitted' = FALSE
      /\ UNCHANGED <<boottime, controller>>

\* ... or reads the wall clock, which may have drifted or been set meanwhile.
ReadWallClock ==
  \E e \in WallErrors :
    /\ provider' = [provider EXCEPT !.seen = [utc |-> boottime + e, boot |-> boottime]]
    /\ admitted' = FALSE
    /\ UNCHANGED <<boottime, controller>>

ProviderChanges ==
  /\ provider' = [provider EXCEPT !.fit = ~@]
  /\ admitted' = FALSE
  /\ UNCHANGED <<boottime, controller>>

AdmissionNext ==
  \/ AdmitNewConnection
  \/ BeginUpdate
  \/ FailUpdate
  \/ \E crl \in Crls : BeginRecovery(crl)
  \/ StartVerification
  \/ \E verified \in BOOLEAN : CompleteRecovery(verified)
  \/ RestartProcess
  \/ BootTick
  \/ Synchronize
  \/ ReadWallClock
  \/ ProviderChanges

AdmissionSpec == AdmissionInit /\ [][AdmissionNext]_admissionVars

-----------------------------------------------------------------------------

\* A connection is admitted only before the real end of the list that is
\* active, less the margin and plus the most a trusted reading can be wrong.
\* The deadline is no later either, and nothing that is read afterwards puts it
\* off again: however old a reading is, however the wall clock is set back and
\* however long the verification of the list took.
AdmitsInTime ==
  [][LET end == Latest(controller'.active) - Margin + SyncError + Consistency IN
       /\ admitted' => boottime < end
       /\ controller'.state \in Admitting =>
            /\ controller'.deadline <= end
            /\ controller.state \in Admitting => controller'.deadline <= controller.deadline
    ]_admissionVars

=============================================================================
