---------------------------- MODULE AutoRecovery ----------------------------
(***************************************************************************)
(* Recovery from MCU faults: auto_recovery.py with the restart job of      *)
(* printer_services.py.  Event handlers are tasks that share _mcu_lock and *)
(* a record in the database; the restart they start takes Moonraker down,  *)
(* so only the record survives.  A step is the code from one await to the  *)
(* next: the locks, the database, systemctl, sudo and the announcement of  *)
(* a reboot.                                                               *)
(***************************************************************************)
EXTENDS Naturals, Sequences

CONSTANTS
  Task,            \* event handlers that can be under way at once
  MaxAttempts,     \* mcu_recovery_max_attempts
  RebootEnabled,   \* mcu_recovery_reboot_enabled
  MaxFaults,       \* bound: how often a Klipper that was ready fails or is stopped
  MaxRequests      \* bound: restarts that users ask for: of all, of Klipper, of Moonraker

ASSUME MaxAttemptsAssumption == MaxAttempts \in Nat \ {0}
ASSUME RebootAssumption == RebootEnabled \in BOOLEAN
ASSUME BoundsAssumption == MaxFaults \in Nat /\ MaxRequests \in Nat

VARIABLES
  reliable,        \* systemctl, sudo and the restart script do not fail
  moonraker,       \* "up" or "down"
  klippy,          \* "ready", "fault", "deliberate" (M112, emergency stop), "off"
  connected,       \* klippy_connection has initialized this Klippy
  printing,        \* job_state says printing or paused
  mcu,             \* the record "mcu_recovery" of the database
  lock,            \* _mcu_lock: the owner, then the waiters
  pc, op, loaded,  \* of each task: where it is suspended, what it runs, the record it read
  recheck,         \* _mcu_recheck_pending
  restartLock,     \* printer_services' _restart_lock: who holds it
  request,         \* a user's request to restart all: where it is suspended
  job,             \* the unit biokalico-restart-all: "idle", "stopping", "starting"
  restarts, reboots,   \* history: done for this incident
  faults, requests     \* bounds

persistent == <<mcu, restarts, reboots>>
handlerVars == <<lock, pc, op, loaded, recheck>>
serviceVars == <<restartLock, request, job>>
klippyVars == <<klippy, connected, printing, faults>>
vars == <<reliable, moonraker, klippyVars, persistent, handlerVars, serviceVars, requests>>

Nobody == "nobody"
User == "user"
NoIncident == [attempt |-> 0, cooling |-> FALSE, gaveUp |-> FALSE, rebooted |-> FALSE]
Records == [attempt : 0..MaxAttempts, cooling : BOOLEAN, gaveUp : BOOLEAN, rebooted : BOOLEAN]
Triggering == {"trigger", "checking", "starting", "saveBack"}
Rebooting == {"announce", "rebooting"}
Saving == {"saveAttempt", "saveReboot", "saveGaveUp", "saveReset"}
PCs == {"idle", "wait", "load"} \cup Saving \cup Triggering \cup Rebooting

ASSUME TaskAssumption == Task \cap {Nobody, User} = {}

TypeOK ==
  /\ reliable \in BOOLEAN
  /\ moonraker \in {"up", "down"}
  /\ klippy \in {"ready", "fault", "deliberate", "off"}
  /\ connected \in BOOLEAN /\ printing \in BOOLEAN
  /\ mcu \in Records
  /\ lock \in Seq(Task)
  /\ pc \in [Task -> PCs]
  /\ op \in [Task -> {"recover", "ready"}]
  /\ loaded \in [Task -> Records]
  /\ recheck \in BOOLEAN
  /\ restartLock \in Task \cup {Nobody, User}
  /\ request \in {"idle", "checking", "starting"}
  /\ job \in {"idle", "stopping", "starting"}
  /\ restarts \in Nat /\ reboots \in Nat
  /\ faults \in 0..MaxFaults /\ requests \in 0..MaxRequests

Init ==
  /\ reliable \in BOOLEAN
  /\ moonraker = "up"
  /\ klippy = "off" /\ connected = FALSE /\ printing = FALSE
  /\ mcu = NoIncident
  /\ lock = <<>> /\ pc = [t \in Task |-> "idle"] /\ op = [t \in Task |-> "ready"]
  /\ loaded = [t \in Task |-> NoIncident]
  /\ recheck = FALSE
  /\ restartLock = Nobody /\ request = "idle" /\ job = "idle"
  /\ restarts = 0 /\ reboots = 0
  /\ faults = 0 /\ requests = 0
-----------------------------------------------------------------------------
(* A handler becomes a task that asks for the lock. *)
Spawn(t, o) ==
  /\ pc[t] = "idle"
  /\ pc' = [pc EXCEPT ![t] = "wait"]
  /\ op' = [op EXCEPT ![t] = o]
  /\ lock' = Append(lock, t)

Proceed(t, where) == pc' = [pc EXCEPT ![t] = where] /\ UNCHANGED lock
Return(t) == pc' = [pc EXCEPT ![t] = "idle"] /\ lock' = Tail(lock)

SameKlippy == UNCHANGED <<reliable, moonraker, klippyVars, requests>>

(* Mutant: the record is read and decided upon without the lock. *)
EnterUnlocked(t) ==
  /\ pc[t] = "wait"
  /\ IF op[t] = "recover" /\ (klippy = "deliberate" \/ printing)
     THEN Return(t) ELSE Proceed(t, "load")
  /\ UNCHANGED <<op, loaded, recheck, persistent, serviceVars>>
  /\ SameKlippy

(* With the lock: nothing is done about a deliberate shutdown or while a *)
(* print is active; otherwise the record is read.                        *)
Enter(t) ==
  /\ pc[t] = "wait" /\ lock # <<>> /\ Head(lock) = t
  /\ IF op[t] = "recover" /\ (klippy = "deliberate" \/ printing)
     THEN Return(t) ELSE Proceed(t, "load")
  /\ UNCHANGED <<op, loaded, recheck, persistent, serviceVars>>
  /\ SameKlippy

(* Mutant: one attempt too many. *)
DecideOneMore(t) ==
  /\ IF mcu.cooling THEN Return(t)
     ELSE IF mcu.attempt <= MaxAttempts THEN Proceed(t, "saveAttempt")
     ELSE IF RebootEnabled /\ ~mcu.rebooted THEN Proceed(t, "saveReboot")
     ELSE IF ~mcu.gaveUp THEN Proceed(t, "saveGaveUp")
     ELSE Return(t)
  /\ recheck' = (recheck \/ mcu.cooling)

(* Mutant: an attempt that is cooling down is left to the next event. *)
DecideWithoutRecheck(t) ==
  /\ IF mcu.cooling THEN Return(t)
     ELSE IF mcu.attempt < MaxAttempts THEN Proceed(t, "saveAttempt")
     ELSE IF RebootEnabled /\ ~mcu.rebooted THEN Proceed(t, "saveReboot")
     ELSE IF ~mcu.gaveUp THEN Proceed(t, "saveGaveUp")
     ELSE Return(t)
  /\ UNCHANGED recheck

(* _recover_from_shutdown_locked, from the record it read *)
Decide(t) ==
  /\ IF mcu.cooling THEN Return(t)
     ELSE IF mcu.attempt < MaxAttempts THEN Proceed(t, "saveAttempt")
     ELSE IF RebootEnabled /\ ~mcu.rebooted THEN Proceed(t, "saveReboot")
     ELSE IF ~mcu.gaveUp THEN Proceed(t, "saveGaveUp")
     ELSE Return(t)
  /\ recheck' = (recheck \/ mcu.cooling)

Loaded(t) ==
  /\ pc[t] = "load"
  /\ loaded' = [loaded EXCEPT ![t] = mcu]
  /\ IF op[t] = "recover" THEN Decide(t)
     ELSE /\ IF mcu.gaveUp \/ mcu.rebooted \/ mcu.attempt > 0
             THEN Proceed(t, "saveReset") ELSE Return(t)
          /\ UNCHANGED recheck
  /\ UNCHANGED <<op, persistent, serviceVars>>
  /\ SameKlippy

SameRun == UNCHANGED <<op, loaded, serviceVars>> /\ SameKlippy

(* Mutant: the attempt is counted by the one that reads the record next. *)
SaveAttemptUncounted(t) ==
  /\ pc[t] = "saveAttempt"
  /\ mcu' = [NoIncident EXCEPT !.attempt = loaded[t].attempt, !.cooling = TRUE]
  /\ Proceed(t, "trigger")
  /\ UNCHANGED <<restarts, reboots, recheck>>
  /\ SameRun

SaveAttempt(t) ==
  /\ pc[t] = "saveAttempt"
  /\ mcu' = [NoIncident EXCEPT !.attempt = loaded[t].attempt + 1, !.cooling = TRUE]
  /\ Proceed(t, "trigger")
  /\ UNCHANGED <<restarts, reboots, recheck>>
  /\ SameRun

SaveReboot(t) ==
  /\ pc[t] = "saveReboot"
  /\ mcu' = [loaded[t] EXCEPT !.rebooted = TRUE, !.cooling = TRUE]
  /\ Proceed(t, "announce")
  /\ UNCHANGED <<restarts, reboots, recheck>>
  /\ SameRun

SaveGaveUp(t) ==
  /\ pc[t] = "saveGaveUp"
  /\ mcu' = [loaded[t] EXCEPT !.gaveUp = TRUE]
  /\ Return(t)
  /\ UNCHANGED <<restarts, reboots, recheck>>
  /\ SameRun

(* Mutant: the attempts stay counted. *)
SaveResetFlags(t) ==
  /\ pc[t] = "saveReset"
  /\ mcu' = [NoIncident EXCEPT !.attempt = loaded[t].attempt]
  /\ restarts' = 0 /\ reboots' = 0
  /\ Return(t)
  /\ UNCHANGED recheck
  /\ SameRun

(* _on_klippy_ready ends the incident. *)
SaveReset(t) ==
  /\ pc[t] = "saveReset"
  /\ mcu' = NoIncident
  /\ restarts' = 0 /\ reboots' = 0
  /\ Return(t)
  /\ UNCHANGED recheck
  /\ SameRun

(* The restart was another's: the record is put back as it was. *)
SaveBack(t) ==
  /\ pc[t] = "saveBack"
  /\ mcu' = loaded[t]
  /\ recheck' = TRUE
  /\ Return(t)
  /\ UNCHANGED <<restarts, reboots>>
  /\ SameRun

(* The reboot's announcement has been delivered, or 30 s are over. *)
Announced(t) ==
  /\ pc[t] = "announce"
  /\ Proceed(t, "rebooting")
  /\ UNCHANGED <<recheck, persistent>>
  /\ SameRun

(* Everything in the memory of Moonraker is lost. *)
MoonrakerDies ==
  /\ moonraker' = "down"
  /\ connected' = FALSE
  /\ lock' = <<>> /\ pc' = [t \in Task |-> "idle"]
  /\ recheck' = FALSE
  /\ restartLock' = Nobody /\ request' = "idle"
  /\ UNCHANGED <<op, loaded>>

RebootHost(t) ==
  /\ pc[t] = "rebooting"
  /\ reboots' = reboots + 1
  /\ MoonrakerDies
  /\ klippy' = "off" /\ printing' = FALSE
  /\ job' = "idle"
  /\ UNCHANGED <<reliable, faults, requests, mcu, restarts>>

RebootFails(t) ==
  /\ pc[t] = "rebooting" /\ ~reliable
  /\ Return(t)
  /\ UNCHANGED <<recheck, persistent>>
  /\ SameRun
-----------------------------------------------------------------------------
(* printer_services: trigger_restart_all, called by a handler or a user *)

(* Mutant: no lock around the check and the start. *)
AcquireFree(who) == restartLock' = who

Acquire(who) == restartLock = Nobody /\ restartLock' = who
Running == job # "idle"
(* systemd refuses a second unit of that name. *)
StartJob == job = "idle" /\ job' = "stopping"

SameRecord == UNCHANGED <<op, loaded, persistent>> /\ SameKlippy

Trigger(t) ==
  /\ pc[t] = "trigger"
  /\ Acquire(t)
  /\ Proceed(t, "checking")
  /\ UNCHANGED <<request, job, recheck>>
  /\ SameRecord

(* systemctl is-active; what goes wrong counts as "not running". *)
Checked(t) ==
  /\ pc[t] = "checking"
  /\ \/ /\ Running
        /\ restartLock' = Nobody
        /\ Proceed(t, "saveBack")
     \/ /\ ~Running \/ ~reliable
        /\ Proceed(t, "starting")
        /\ UNCHANGED restartLock
  /\ UNCHANGED <<request, job, recheck>>
  /\ SameRecord

Started(t) ==
  /\ pc[t] = "starting"
  /\ StartJob
  /\ restarts' = restarts + 1
  /\ restartLock' = Nobody
  /\ Return(t)
  /\ UNCHANGED <<op, loaded, recheck, mcu, reboots, request>>
  /\ SameKlippy

(* The start raises: it is announced, and the attempt stays counted. *)
StartFails(t) ==
  /\ pc[t] = "starting" /\ ~reliable
  /\ restartLock' = Nobody
  /\ Return(t)
  /\ UNCHANGED <<request, job, recheck>>
  /\ SameRecord

UserRequests ==
  /\ moonraker = "up" /\ request = "idle" /\ requests < MaxRequests
  /\ Acquire(User)
  /\ request' = "checking"
  /\ requests' = requests + 1
  /\ UNCHANGED <<reliable, moonraker, klippyVars, persistent, handlerVars, job>>

UserChecked ==
  /\ request = "checking"
  /\ \/ Running /\ restartLock' = Nobody /\ request' = "idle"
     \/ (~Running \/ ~reliable) /\ request' = "starting" /\ UNCHANGED restartLock
  /\ UNCHANGED <<job, handlerVars, persistent>> /\ SameKlippy

UserStarted ==
  /\ request = "starting"
  /\ request' = "idle" /\ restartLock' = Nobody
  /\ StartJob \/ (~reliable /\ UNCHANGED job)
  /\ UNCHANGED <<handlerVars, persistent>> /\ SameKlippy

(* scripts/printer-services.sh --restart takes Klipper and Moonraker down. *)
JobStops ==
  /\ job = "stopping"
  /\ job' = "starting"
  /\ MoonrakerDies
  /\ klippy' = "off" /\ printing' = FALSE
  /\ UNCHANGED <<reliable, faults, requests, persistent>>

JobEnds ==
  /\ job = "starting" \/ (job = "stopping" /\ ~reliable)
  /\ job' = "idle"
  /\ UNCHANGED <<restartLock, request, handlerVars, persistent>> /\ SameKlippy
-----------------------------------------------------------------------------
(* Klipper, the print and Moonraker's own life *)

SameMemory == UNCHANGED <<reliable, moonraker, persistent, serviceVars, requests>>

(* It comes up ready or, while the fault lasts, in "error" or "shutdown". *)
KlippyStarts ==
  /\ klippy = "off" /\ job # "stopping"
  /\ klippy' \in {"ready", "fault"}
  /\ UNCHANGED <<connected, printing, faults, handlerVars>>
  /\ SameMemory

(* klippy_connection reports "klippy_started" with the state or "klippy_ready". *)
Connect ==
  /\ moonraker = "up" /\ ~connected /\ klippy # "off"
  /\ connected' = TRUE
  /\ \E t \in Task : Spawn(t, IF klippy = "ready" THEN "ready" ELSE "recover")
  /\ UNCHANGED <<klippy, printing, faults, loaded, recheck>>
  /\ SameMemory

(* A shutdown while connected is reported by "klippy_shutdown". *)
KlippyShutsDown ==
  /\ klippy = "ready" /\ faults < MaxFaults
  /\ klippy' \in {"fault", "deliberate"}
  /\ faults' = faults + 1
  /\ IF connected THEN \E t \in Task : Spawn(t, "recover") ELSE UNCHANGED <<pc, op, lock>>
  /\ UNCHANGED <<connected, printing, loaded, recheck>>
  /\ SameMemory

(* A user's RESTART or FIRMWARE_RESTART, or the end of the Klipper process. *)
KlippyRestarts ==
  /\ klippy # "off" /\ requests < MaxRequests
  /\ requests' = requests + 1
  /\ klippy' = "off" /\ connected' = FALSE /\ printing' = FALSE
  /\ UNCHANGED <<reliable, moonraker, persistent, serviceVars, faults, handlerVars>>

PrintStarts ==
  /\ klippy = "ready" /\ connected /\ ~printing /\ printing' = TRUE
  /\ UNCHANGED <<klippy, connected, faults, handlerVars>> /\ SameMemory

(* After a fault, too: the print's last status outlives it for a moment. *)
PrintEnds ==
  /\ printing /\ printing' = FALSE
  /\ UNCHANGED <<klippy, connected, faults, handlerVars>> /\ SameMemory

CooldownEnds ==
  /\ mcu.cooling
  /\ mcu' = [mcu EXCEPT !.cooling = FALSE]
  /\ UNCHANGED <<reliable, moonraker, klippyVars, restarts, reboots, handlerVars,
                 serviceVars, requests>>

RecheckFires ==
  /\ recheck /\ recheck' = FALSE
  /\ IF connected /\ klippy \in {"fault", "deliberate"}
     THEN \E t \in Task : Spawn(t, "recover") ELSE UNCHANGED <<pc, op, lock>>
  /\ UNCHANGED <<klippyVars, loaded>>
  /\ SameMemory

MoonrakerRestarts ==
  /\ moonraker = "up" /\ requests < MaxRequests
  /\ requests' = requests + 1
  /\ MoonrakerDies
  /\ UNCHANGED <<reliable, klippy, printing, faults, persistent, job>>

MoonrakerStarts ==
  /\ moonraker = "down" /\ job # "stopping"
  /\ moonraker' = "up"
  /\ UNCHANGED <<reliable, klippyVars, persistent, handlerVars, serviceVars, requests>>
-----------------------------------------------------------------------------
Recover(t) ==
  \/ Enter(t) \/ Loaded(t) \/ SaveAttempt(t) \/ SaveReboot(t) \/ SaveGaveUp(t)
  \/ SaveReset(t) \/ SaveBack(t) \/ Announced(t) \/ RebootHost(t)
  \/ Trigger(t) \/ Checked(t) \/ Started(t)
UserStep == UserChecked \/ UserStarted
JobStep == JobStops \/ JobEnds

Next ==
  \/ \E t \in Task : Recover(t) \/ RebootFails(t) \/ StartFails(t)
  \/ UserRequests \/ UserStep \/ JobStep
  \/ KlippyStarts \/ Connect \/ KlippyShutsDown \/ KlippyRestarts
  \/ PrintStarts \/ PrintEnds
  \/ CooldownEnds \/ RecheckFires \/ MoonrakerRestarts \/ MoonrakerStarts

Spec == Init /\ [][Next]_vars

(* Tasks, timers and the restart job run on; Klipper and Moonraker come up. *)
Fairness ==
  /\ \A t \in Task : WF_vars(Recover(t))
  /\ WF_vars(UserStep) /\ WF_vars(JobStep)
  /\ WF_vars(KlippyStarts) /\ WF_vars(Connect) /\ WF_vars(MoonrakerStarts)
  /\ WF_vars(CooldownEnds) /\ WF_vars(RecheckFires)

FairSpec == Spec /\ Fairness
-----------------------------------------------------------------------------
(* Properties *)

(* Per incident, no more restarts than configured and no more than one     *)
(* reboot are really done, although each takes down the process that is to *)
(* remember it: the record is written before the deed (l.273, l.301).      *)
AttemptsCapped ==
  /\ restarts <= mcu.attempt /\ mcu.attempt <= MaxAttempts
  /\ reboots <= 1 /\ (reboots > 0 => mcu.rebooted)

(* One restart of all services at a time, whoever asks for it, also while   *)
(* the job of a Moonraker that is gone still runs (printer_services.py:52). *)
RestartsExclusive ==
  reliable => \A t \in Task : (pc[t] = "starting" \/ request = "starting") => ~Running

(* The record goes through an incident as RecoveryIncident says, although    *)
(* shutdown, started, ready and recheck events overlap (l.111) and Moonraker *)
(* comes and goes.                                                           *)
Incident == INSTANCE RecoveryIncident WITH
  attempt <- mcu.attempt, rebooted <- mcu.rebooted, gaveUp <- mcu.gaveUp
ImplementsIncident == Incident!Spec

(* A fault that persists on a printer that does not print is handed to a *)
(* person in the end: after each attempt some event or recheck comes that *)
(* goes on from the record (l.230), whatever else happens in between.     *)
PersistentFaultGivesUp ==
  reliable /\ []~printing /\ <>[](klippy \in {"fault", "off"}) => <>[]mcu.gaveUp

(* A Klipper that stays ready ends the incident. *)
ReadyResolves ==
  reliable /\ <>[](klippy = "ready") =>
    <>[](mcu.attempt = 0 /\ ~mcu.gaveUp /\ ~mcu.rebooted)

(* docs/configuration.md:3318 says of the reboot that it never happens while *)
(* a print is running or paused.  Here: when it is ordered.                  *)
NeverRebootsPrint ==
  [][\A t \in Task : pc[t] = "announce" /\ pc'[t] = "rebooting" => ~printing]_vars
=============================================================================
