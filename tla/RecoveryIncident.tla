-------------------------- MODULE RecoveryIncident --------------------------
(***************************************************************************)
(* What a fault is entitled to: at most MaxAttempts restarts of the        *)
(* services, then at most one reboot of the host, then a person is called; *)
(* and all of it again only after Klipper was ready in between.            *)
(* AutoRecovery implements this specification.                             *)
(***************************************************************************)
EXTENDS Naturals

CONSTANTS MaxAttempts,     \* restarts of the services
          RebootEnabled    \* whether the host may be rebooted

VARIABLES attempt, rebooted, gaveUp
vars == <<attempt, rebooted, gaveUp>>

Init == attempt = 0 /\ rebooted = FALSE /\ gaveUp = FALSE

Attempt ==
  /\ attempt < MaxAttempts /\ ~gaveUp
  /\ attempt' = attempt + 1
  /\ UNCHANGED <<rebooted, gaveUp>>

(* The restart was under way already and is not this attempt's. *)
Withdraw ==
  /\ attempt > 0 /\ ~gaveUp /\ ~rebooted
  /\ attempt' = attempt - 1
  /\ UNCHANGED <<rebooted, gaveUp>>

Reboot ==
  /\ RebootEnabled /\ attempt = MaxAttempts /\ ~rebooted /\ ~gaveUp
  /\ rebooted' = TRUE
  /\ UNCHANGED <<attempt, gaveUp>>

GiveUp ==
  /\ attempt = MaxAttempts /\ (RebootEnabled => rebooted)
  /\ gaveUp' = TRUE
  /\ UNCHANGED <<attempt, rebooted>>

Resolved == attempt' = 0 /\ rebooted' = FALSE /\ gaveUp' = FALSE

Next == Attempt \/ Withdraw \/ Reboot \/ GiveUp \/ Resolved

Spec == Init /\ [][Next]_vars
=============================================================================
