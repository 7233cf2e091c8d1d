------------------------------ MODULE Projector ------------------------------
(***************************************************************************)
(* The projector's part of auto_recovery.py: a loop looks at the serial    *)
(* link, resets its USB port once, then the hub once, then asks for a      *)
(* person; a record in the database outlives the process.                  *)
(***************************************************************************)
EXTENDS Host

VARIABLES
  hasHub,     \* projector_usb_hub_path is configured
  probing,    \* _projector_probe_started; the loop sleeps while the worker is idle
  down,       \* the serial link is
  seen,       \* link_error of the answer
  proj,       \* the record read
  stored,     \* the record in the database
  resets      \* how often port and hub were reset since the record was empty

linkVars == <<hasHub, probing, down>>
projectorVars == <<linkVars, seen, proj, stored, resets>>

Step == {"attempted", "hub_attempted", "gave_up"}
NoResets == [port |-> 0, hub |-> 0]

ProjectorInit ==
  /\ hasHub \in Among(BOOLEAN, "projector")
  /\ probing = FALSE /\ down = FALSE /\ seen = FALSE
  /\ proj = {} /\ stored = {}
  /\ resets = NoResets

ProjectorTypeOK ==
  /\ {hasHub, probing, down, seen} \subseteq BOOLEAN
  /\ proj \subseteq Step /\ stored \subseteq Step
  /\ resets \in [{"port", "hub"} -> Nat]
  /\ ~Idle("worker") => probing
-----------------------------------------------------------------------------
(* _on_klippy_ready *)
StartsProbe ==
  /\ klippy = "ready" /\ ~probing
  /\ probing' = TRUE
  /\ PrinterStays
  /\ UNCHANGED <<pc, left, hasHub, down, seen, proj, stored, resets>>

(* _projector_probe_loop *)
Wakes ==
  /\ probing /\ Idle("worker")
  /\ Goes("worker", "querying")
  /\ PrinterStays
  /\ UNCHANGED <<left, projectorVars>>

LinkAnswered ==
  /\ pc["worker"] = "querying"
  /\ IF klippy = "offline" THEN Goes("worker", "idle") /\ UNCHANGED seen
     ELSE Goes("worker", "loading") /\ seen' = down
  /\ PrinterStays
  /\ UNCHANGED <<left, linkVars, proj, stored, resets>>

(* What the next attempt is, given what was tried *)
Decision(tried) ==
  IF "attempted" \notin tried THEN "attempted"
  ELSE IF hasHub /\ "hub_attempted" \notin tried THEN "hub_attempted" ELSE "gave_up"

(* _check_projector_link, when it has the record *)
Loaded ==
  /\ pc["worker"] = "loading"
  /\ IF ~seen
     THEN IF stored \cap {"attempted", "hub_attempted"} # {}
          THEN proj' = {} /\ Goes("worker", "saving")
          ELSE proj' = stored /\ Goes("worker", "idle")
     ELSE IF printing \/ Decision(stored) \in stored
          THEN proj' = stored /\ Goes("worker", "idle")
          ELSE proj' = stored \cup {Decision(stored)} /\ Goes("worker", "saving")
  /\ PrinterStays
  /\ UNCHANGED <<left, linkVars, seen, stored, resets>>

(* Mutant: only the end of an outage, or of the attempts, is written. *)
EndSaved ==
  stored' = IF proj # {} /\ proj \subseteq {"attempted", "hub_attempted"} THEN stored ELSE proj
(* _save_state *)
Saved == stored' = proj

RecordSaved ==
  /\ pc["worker"] = "saving"
  /\ \/ /\ Saved
        /\ IF proj = {} \/ "gave_up" \in proj
           THEN Goes("worker", "idle") /\ resets' = (IF proj = {} THEN NoResets ELSE resets)
           ELSE /\ Goes("worker", "resetting")
                /\ LET what == IF "hub_attempted" \in proj THEN "hub" ELSE "port"
                   IN  resets' = [resets EXCEPT ![what] = @ + 1]
        /\ UNCHANGED left
     \/ Spends("failures") /\ Goes("worker", "idle") /\ UNCHANGED <<stored, resets>>
  /\ PrinterStays
  /\ UNCHANGED <<linkVars, seen, proj>>

(* _recycle_projector_port, _recycle_projector_hub: whether sudo failed or not. *)
(* The MCU may be on the hub, too.                                               *)
ResetDone ==
  /\ pc["worker"] = "resetting"
  /\ Goes("worker", "idle")
  /\ down' \in {down, FALSE}
  /\ \/ UNCHANGED klippy
     \/ "hub_attempted" \in proj /\ klippy = "ready" /\ klippy' = "shutdown"
  /\ UNCHANGED <<component, printing, left, hasHub, probing, seen, proj, stored, resets>>
-----------------------------------------------------------------------------
(* The link breaks or heals, a print begins or ends, Klippy comes or goes.   *)
ProjectorWorld ==
  /\ Spends("changes")
  /\ \/ down' = ~down /\ UNCHANGED <<printing, klippy>>
     \/ klippy = "ready" /\ printing' = ~printing /\ UNCHANGED <<down, klippy>>
     \/ klippy' \in {"ready", "offline"} \ {klippy} /\ printing' = FALSE /\ UNCHANGED down
  /\ UNCHANGED <<component, pc, hasHub, probing, seen, proj, stored, resets>>

(* Moonraker is restarted at any point; the reset of the USB port goes on.    *)
ProjectorCrash ==
  /\ probing /\ Spends("asks")
  /\ Goes("worker", "idle")
  /\ probing' = FALSE /\ seen' = FALSE /\ proj' = {}
  /\ PrinterStays
  /\ UNCHANGED <<hasHub, down, stored, resets>>
-----------------------------------------------------------------------------
Probes == LinkAnswered \/ Loaded \/ RecordSaved \/ ResetDone

ProjectorNext == StartsProbe \/ Wakes \/ Probes \/ ProjectorWorld \/ ProjectorCrash

ProjectorWorks(t) == t = "worker" /\ Probes

(* Port and hub are each reset at most once per recorded outage, and the hub *)
(* only after the port.                                                       *)
ProjectorResetOnce ==
  /\ resets.port <= 1 /\ resets.hub <= 1
  /\ resets.hub = 1 => resets.port = 1 \/ "attempted" \in stored
=============================================================================
