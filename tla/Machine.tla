------------------------------ MODULE Machine ------------------------------
(***************************************************************************)
(* machine.py: the InstallValidator, with the transaction of the            *)
(* configuration it changes, and the services of the machine.               *)
(***************************************************************************)
EXTENDS Host

(***************************************************************************)
(* The InstallValidator and the sudo requests of machine.py, with the      *)
(* transaction of confighelper.py's FileSourceWrapper: an old installation *)
(* gets a new service file, its configured folders become links in the     *)
(* data path, and the options that named them go; what needs a password    *)
(* waits for one.                                                           *)
(***************************************************************************)
VARIABLES
  phase,         \* of the process: "off", "starting", "up", "restarting"
  custom,        \* the unit has a name of its own, and so a data path of its own
  sudoFree,      \* sudo needs no password
  version,       \* validate_install.install_version in the database
  unitFile,      \* the service file on disk, and as it was at the start
  unitSeen,
  dataPath,      \* the data path to be: "none", "bare", "used"
  validator,     \* sc_enabled, cc_enabled, data_path_valid, _sudo_requested
  password,      \* _sudo_password
  sudoRequests,  \* sudo_requests holds the validator's
  sudoLock,      \* sudo_req_lock
  optionsOnDisk,        \* options in moonraker.conf
  inMemory,      \* options in raw_config_data
  restores,      \* backup of the FileSourceWrapper
  linked,        \* folders linked in the data path
  blocked,       \* folders that cannot be linked
  restartNeeded,   \* need_restart
  failedOnce     \* the configuration was checked and failed

unitVars == <<custom, sudoFree, version, unitFile, unitSeen, dataPath>>
askVars == <<password, sudoRequests, sudoLock>>
confVars == <<optionsOnDisk, inMemory, restores, linked, blocked, failedOnce>>
installVars == <<phase, unitVars, validator, askVars, confVars, restartNeeded>>

Option == {"config_path", "log_path"}
Fresh == [service |-> TRUE, config |-> TRUE, pathValid |-> TRUE, asked |-> FALSE]

InstallationInit ==
  /\ phase = "off" /\ version = 0 /\ unitFile = "old" /\ unitSeen = "old"
  /\ custom \in Among(BOOLEAN, "installation") /\ sudoFree \in Among(BOOLEAN, "installation")
  /\ dataPath = "none" /\ validator = Fresh
  /\ password = None /\ sudoRequests = FALSE /\ sudoLock = None
  /\ optionsOnDisk = Option /\ inMemory = {} /\ restores = None
  /\ linked = {} /\ blocked \in Among({{}, {"log_path"}}, "installation")
  /\ restartNeeded = FALSE /\ failedOnce = FALSE

InstallationTypeOK ==
  /\ phase \in {"off", "starting", "up", "restarting"}
  /\ {custom, sudoFree, sudoRequests, restartNeeded, failedOnce} \subseteq BOOLEAN
  /\ version \in {0, 1} /\ unitFile \in {"old", "new"} /\ unitSeen \in {"old", "new"}
  /\ dataPath \in {"none", "bare", "used"}
  /\ validator \in [service : BOOLEAN, config : BOOLEAN, pathValid : BOOLEAN, asked : BOOLEAN]
  /\ password \in {None, "right", "wrong"} /\ sudoLock \in Request \cup {None}
  /\ {optionsOnDisk, inMemory, linked, blocked} \subseteq SUBSET Option
  /\ restores \in SUBSET Option \cup {None}
  /\ \A t \in Request : (pc[t] \notin {"idle", "waiting"}) <=> sudoLock = t
-----------------------------------------------------------------------------
(* validation_init *)
InstallStarts ==
  /\ phase = "off"
  /\ phase' = IF version = 0 THEN "starting" ELSE "up"
  /\ IF version = 0 THEN Goes("init", "service") ELSE UNCHANGED pc
  /\ validator' = Fresh /\ unitSeen' = unitFile
  /\ inMemory' = optionsOnDisk /\ restores' = None /\ restartNeeded' = FALSE
  /\ PrinterStays
  /\ UNCHANGED <<left, custom, sudoFree, version, unitFile, dataPath, askVars, optionsOnDisk,
                 linked, blocked, failedOnce>>

(* perform_validation and _on_password_received, when a check has raised *)
ValidationFails(t) ==
  /\ Goes(t, "idle")
  /\ IF t = "init" THEN phase' = "up" /\ UNCHANGED <<sudoRequests, sudoLock>>
     ELSE sudoRequests' = TRUE /\ sudoLock' = None /\ UNCHANGED phase
-----------------------------------------------------------------------------
(* _check_service_file *)

ServiceChecked(t) ==
  /\ pc[t] = "service"
  /\ LET newPath == custom /\ validator.pathValid
     IN  IF ~validator.service \/ unitSeen = "new"
         THEN Goes(t, "config") /\ UNCHANGED <<phase, validator, dataPath, sudoRequests, sudoLock>>
         ELSE IF newPath /\ dataPath = "used"
         THEN ValidationFails(t) /\ UNCHANGED <<validator, dataPath>>
         ELSE /\ Goes(t, "sudo")
              /\ dataPath' = IF newPath /\ dataPath = "none" THEN "bare" ELSE dataPath
              /\ validator' = [validator EXCEPT !.pathValid = @ /\ ~custom]
              /\ UNCHANGED <<phase, sudoRequests, sudoLock>>
  /\ PrinterStays
  /\ UNCHANGED <<left, custom, sudoFree, version, unitFile, unitSeen, password, confVars,
                 restartNeeded>>

(* check_sudo_access, _request_sudo_access; the environment file is written. *)
SudoChecked(t) ==
  /\ pc[t] = "sudo"
  /\ IF sudoFree \/ password = "right"
     THEN /\ Goes(t, "copying")
          /\ validator' = [validator EXCEPT !.asked = FALSE]
          /\ dataPath' = IF custom THEN "used" ELSE dataPath
          /\ UNCHANGED <<phase, sudoRequests, sudoLock>>
     ELSE /\ Goes(t, "idle") /\ phase' = "up" /\ sudoLock' = None
          /\ sudoRequests' = TRUE
          /\ validator' = [validator EXCEPT !.asked = TRUE]
          /\ UNCHANGED dataPath
  /\ PrinterStays
  /\ UNCHANGED <<left, custom, sudoFree, version, unitFile, unitSeen, password, confVars,
                 restartNeeded>>

(* cp and daemon-reload, either of which may fail *)
UnitCopied(t) ==
  /\ pc[t] = "copying"
  /\ \/ /\ Goes(t, "config")
        /\ unitFile' = "new" /\ restartNeeded' = TRUE
        /\ validator' = [validator EXCEPT !.service = FALSE, !.pathValid = TRUE]
        /\ UNCHANGED <<left, phase, sudoRequests, sudoLock>>
     \/ /\ Spends("failures") /\ ValidationFails(t)
        /\ unitFile' \in {unitFile, "new"}
        /\ UNCHANGED <<validator, restartNeeded>>
  /\ PrinterStays
  /\ UNCHANGED <<custom, sudoFree, version, unitSeen, dataPath, password, confVars>>
-----------------------------------------------------------------------------
(* _check_configuration *)

(* backup_source; write_config copies the files in a thread. *)
ConfigChecked(t) ==
  /\ pc[t] = "config"
  /\ IF ~validator.config \/ ~validator.pathValid
     THEN Goes(t, "storing") /\ UNCHANGED restores
     ELSE Goes(t, "backing") /\ restores' = inMemory
  /\ PrinterStays
  /\ UNCHANGED <<left, phase, unitVars, validator, askVars, optionsOnDisk, inMemory, linked,
                 blocked, restartNeeded, failedOnce>>

(* remove_option, in memory *)
Removed(options) == inMemory' = inMemory \ options

(* Mutant: a folder that cannot be linked is passed over. *)
PassedOver == {}
(* _link_data_subfolder raises for what is in the way. *)
Conflicts == inMemory \cap blocked

(* Each option is removed when its folder is linked; cancel takes all back. *)
FoldersLinked(t) ==
  /\ pc[t] = "backing"
  /\ validator' = [validator EXCEPT !.config = FALSE]
  /\ IF Conflicts = {}
     THEN /\ Goes(t, "saving")
          /\ linked' = linked \cup (inMemory \ blocked) /\ Removed(Option)
          /\ UNCHANGED <<phase, sudoRequests, sudoLock, restores, failedOnce>>
     ELSE /\ ValidationFails(t)
          /\ \E done \in SUBSET (inMemory \ blocked) : linked' = linked \cup done
          /\ inMemory' = restores /\ restores' = None /\ failedOnce' = TRUE
  /\ PrinterStays
  /\ UNCHANGED <<left, unitVars, password, optionsOnDisk, blocked, restartNeeded>>

(* save *)
ConfigSaved(t) ==
  /\ pc[t] = "saving"
  /\ Goes(t, "storing")
  /\ optionsOnDisk' = inMemory /\ restores' = None
  /\ restartNeeded' = (restartNeeded \/ optionsOnDisk # inMemory)
  /\ PrinterStays
  /\ UNCHANGED <<left, phase, unitVars, validator, askVars, inMemory, linked, blocked, failedOnce>>

(* The version is stored; a request restarts the service, the start if need be. *)
VersionStored(t) ==
  /\ pc[t] = "storing"
  /\ Goes(t, "idle")
  /\ version' = 1
  /\ phase' = IF t # "init" \/ restartNeeded THEN "restarting" ELSE "up"
  /\ sudoLock' = IF t = "init" THEN sudoLock ELSE None
  /\ PrinterStays
  /\ UNCHANGED <<left, custom, sudoFree, unitFile, unitSeen, dataPath, validator, password,
                 sudoRequests, confVars, restartNeeded>>
-----------------------------------------------------------------------------
(* _set_sudo_password *)

SetSudoPassword(t) ==
  /\ Idle(t) /\ phase = "up" /\ Spends("asks")
  /\ Goes(t, "waiting")
  /\ PrinterStays
  /\ UNCHANGED installVars

PasswordSet(t) ==
  /\ pc[t] = "waiting" /\ sudoLock = None
  /\ Goes(t, "access")
  /\ sudoLock' = t
  /\ password' \in {"right", "wrong"}
  /\ PrinterStays
  /\ UNCHANGED <<left, phase, unitVars, validator, sudoRequests, confVars, restartNeeded>>

AccessChecked(t) ==
  /\ pc[t] = "access"
  /\ LET access == sudoFree \/ password = "right"
     IN  /\ password' = IF access THEN password ELSE None
         /\ IF access /\ sudoRequests
            THEN Goes(t, "service") /\ sudoRequests' = FALSE /\ UNCHANGED sudoLock
            ELSE Goes(t, "idle") /\ sudoLock' = None /\ UNCHANGED sudoRequests
  /\ PrinterStays
  /\ UNCHANGED <<left, phase, unitVars, validator, confVars, restartNeeded>>
-----------------------------------------------------------------------------
(* Someone takes away what blocks a folder. *)
Unblocked ==
  /\ blocked # {} /\ Spends("changes")
  /\ blocked' = {}
  /\ PrinterStays
  /\ UNCHANGED <<pc, phase, unitVars, validator, askVars, optionsOnDisk, inMemory, restores, linked,
                 restartNeeded, failedOnce>>

(* The process ends, as it asked for or at any point. *)
InstallEnds ==
  /\ phase # "off"
  /\ IF phase = "restarting" THEN UNCHANGED left ELSE Spends("changes")
  /\ phase' = "off"
  /\ pc' = [t \in Task |-> "idle"]
  /\ password' = None /\ sudoRequests' = FALSE /\ sudoLock' = None
  /\ inMemory' = {} /\ restores' = None
  /\ PrinterStays
  /\ UNCHANGED <<unitVars, validator, optionsOnDisk, linked, blocked, restartNeeded, failedOnce>>
-----------------------------------------------------------------------------
Validates(t) ==
  \/ ServiceChecked(t) \/ SudoChecked(t) \/ UnitCopied(t)
  \/ ConfigChecked(t) \/ FoldersLinked(t) \/ ConfigSaved(t) \/ VersionStored(t)

InstallationNext ==
  \/ InstallStarts
  \/ \E t \in Request \cup {"init"} : Validates(t)
  \/ \E t \in Request : SetSudoPassword(t) \/ PasswordSet(t) \/ AccessChecked(t)
  \/ Unblocked \/ InstallEnds

InstallationWorks(t) ==
  \/ t \in Request \cup {"init"} /\ Validates(t)
  \/ t \in Request /\ (PasswordSet(t) \/ AccessChecked(t))

(* An option that is gone from moonraker.conf has its folder linked, and an     *)
(* installation that counts as updated is; but for a configuration that failed   *)
(* under a password request, which machine.py:2077-2078 lets pass the next time. *)
InstallationTrue ==
  /\ Option \ optionsOnDisk \subseteq linked
  /\ version = 1 => unitFile = "new" /\ (optionsOnDisk = {} \/ failedOnce)
-----------------------------------------------------------------------------
(***************************************************************************)
(* The states of services, which systemd tells over D-Bus and the command   *)
(* lines of systemd and supervisord are polled for, and the requests that    *)
(* start, stop and restart them.  Moonraker is a service, too, and may run   *)
(* under another name than its own.                                          *)
(***************************************************************************)
VARIABLES
  provider,    \* the sys_provider
  ownUnit,     \* the service Moonraker runs as
  svcReal,     \* the states of services, "absent" where there is none
  svcSeen,     \* available_services, None for one that is not there
  svcTold,     \* what a client knows that asked once and listens
  svcListed,   \* units of _detect_active_services that it has not come to yet
  svcSignals,  \* properties-changed signals on their way
  svcHeard,    \* services it listens to
  busUp,       \* whether there is D-Bus
  polled,      \* the output of the command that is being polled
  unitName,    \* of moonraker_service_info, None where it has not been found
  svcAsked,    \* action and service of a request
  svcMissed,   \* services that changed between the list and the listening
  ownStopped   \* a request has stopped Moonraker

serviceVars == <<provider, ownUnit, svcReal, svcSeen, svcTold, svcListed, svcSignals, svcHeard,
                 busUp, polled, unitName, svcAsked, svcMissed, ownStopped>>

Providers == {"none", "systemd_cli", "systemd_dbus", "supervisord_cli"}
Service == {"klipper", "moonraker", "moonraker-1"}
(* ActiveState, or what _get_active_state makes of the words of supervisord *)
ActiveState == {"active", "inactive", "deactivating"}
NoAction == [action |-> "none", service |-> "klipper"]

(* None is no state. *)
ASSUME ServiceConstants == None \notin ActiveState \cup {"unknown", "absent"}

ServicesInit ==
  /\ provider \in Among(Providers, "services")
  /\ ownUnit \in Among({"moonraker", "moonraker-1"}, "services")
  /\ svcReal = [s \in Service |-> IF s \in {"klipper", ownUnit} THEN "active" ELSE "absent"]
  /\ svcSeen = [s \in Service |-> None] /\ svcTold = svcSeen
  /\ svcListed = {} /\ svcSignals = <<>> /\ svcHeard = {} /\ busUp = TRUE
  /\ polled = None /\ unitName = None /\ svcAsked = [t \in Request |-> NoAction]
  /\ svcMissed = {} /\ ownStopped = FALSE

ServicesTypeOK ==
  /\ provider \in Providers /\ ownUnit \in {"moonraker", "moonraker-1"}
  /\ svcReal \in [Service -> ActiveState \cup {"absent"}]
  /\ {svcSeen, svcTold} \subseteq [Service -> ActiveState \cup {"unknown", None}]
  /\ svcListed \subseteq Service /\ svcHeard \subseteq Service /\ svcMissed \subseteq Service
  /\ unitName \in Service \cup {None} /\ {busUp, ownStopped} \subseteq BOOLEAN
  /\ polled = None \/ polled \in [Service -> ActiveState \cup {"absent"}]
  /\ svcListed # {} => provider = "systemd_dbus"

Installed == {s \in Service : svcReal[s] # "absent"}
SvcRests == UNCHANGED <<provider, ownUnit, svcAsked>> /\ PrinterStays
-----------------------------------------------------------------------------
(* initialize *)

(* Without D-Bus nothing is tracked; a command that fails finds none. *)
ServicesStart ==
  /\ pc["init"] = "idle" /\ unitName = None /\ svcSeen = [s \in Service |-> None]
  /\ \A t \in Request : Idle(t)
  /\ \/ /\ Spends("failures")
        /\ busUp' = (provider # "systemd_dbus")
        /\ Goes("init", "who") /\ UNCHANGED <<svcSeen, svcTold, svcListed>>
     \/ /\ UNCHANGED <<left, busUp>>
        /\ CASE provider = "systemd_dbus" ->
                  /\ svcListed' = Installed /\ Goes("init", "list") /\ UNCHANGED <<svcSeen,
                                                                                   svcTold>>
             [] provider = "none" -> Goes("init", "who") /\ UNCHANGED <<svcSeen, svcTold,
                                                                        svcListed>>
             [] OTHER ->
                  /\ svcSeen' = [s \in Service |-> IF s \notin Installed THEN None
                                 ELSE IF provider = "systemd_cli" THEN "unknown" ELSE svcReal[s]]
                  /\ svcTold' = svcSeen' /\ Goes("init", "who") /\ UNCHANGED svcListed
  /\ SvcRests /\ UNCHANGED <<svcReal, svcSignals, svcHeard, polled, unitName, svcMissed,
                             ownStopped>>

(* _detect_active_services of SystemdDbusProvider: all units are in the list, *)
(* but the interface one listens by comes with an await for each.             *)
UnitListed ==
  /\ pc["init"] = "list" /\ svcListed \subseteq Installed
  /\ svcSeen' = [s \in Service |-> IF s \in svcListed THEN svcReal[s] ELSE None]
  /\ svcTold' = svcSeen'
  /\ Goes("init", "listen")
  /\ SvcRests
  /\ UNCHANGED <<left, svcReal, svcListed, svcSignals, svcHeard, busUp, polled, unitName, svcMissed,
                 ownStopped>>

UnitHeard ==
  /\ pc["init"] = "listen"
  /\ IF svcListed = {} THEN Goes("init", "who") /\ UNCHANGED <<svcHeard, svcListed>>
     ELSE \E s \in svcListed :
            svcHeard' = svcHeard \cup {s} /\ svcListed' = svcListed \ {s} /\ UNCHANGED pc
  /\ SvcRests
  /\ UNCHANGED <<left, svcReal, svcSeen, svcTold, svcSignals, busUp, polled, unitName, svcMissed,
                 ownStopped>>

(* extract_service_info of Moonraker: where it fails the unit stays unknown. *)
OwnUnitFound ==
  /\ pc["init"] = "who" /\ Goes("init", "idle")
  /\ \/ provider # "none" /\ busUp /\ unitName' = ownUnit /\ UNCHANGED left
     \/ (provider = "none" \/ ~busUp) /\ UNCHANGED <<unitName, left>>
     \/ Spends("failures") /\ UNCHANGED unitName
  /\ SvcRests
  /\ UNCHANGED <<svcReal, svcSeen, svcTold, svcListed, svcSignals, svcHeard, busUp, polled,
                 svcMissed, ownStopped>>
-----------------------------------------------------------------------------
(* What services do, and how it is told *)

(* Mutant: only the record is changed. *)
SeenOnly(seen) == UNCHANGED svcTold
(* service_state_changed is sent with the record. *)
SvcNotified(seen) == svcTold' = seen

SignalsOf(s) ==
  IF busUp /\ s \in svcHeard THEN Append(svcSignals, [service |-> s, state |-> svcReal'[s]])
  ELSE svcSignals

Becomes(s, state) ==
  /\ svcReal' = [svcReal EXCEPT ![s] = state]
  /\ svcSignals' = SignalsOf(s)
  /\ svcMissed' = IF s \in svcListed /\ svcSeen[s] # None THEN svcMissed \cup {s} ELSE svcMissed

ServiceChanges ==
  /\ \E s \in Installed, state \in ActiveState :
       /\ state # svcReal[s] /\ (state = "deactivating" => svcReal[s] = "active")
       /\ Becomes(s, state)
  /\ Spends("changes") /\ SvcRests
  /\ UNCHANGED <<pc, svcSeen, svcTold, svcListed, svcHeard, busUp, polled, unitName, ownStopped>>

(* _on_service_update *)
SignalCame ==
  /\ svcSignals # <<>>
  /\ LET m == Head(svcSignals) IN
       /\ svcSeen[m.service] # None
       /\ svcSeen' = [svcSeen EXCEPT ![m.service] = m.state]
       /\ IF svcSeen' = svcSeen THEN UNCHANGED svcTold ELSE SvcNotified(svcSeen')
  /\ svcSignals' = Tail(svcSignals)
  /\ SvcRests
  /\ UNCHANGED <<pc, left, svcReal, svcListed, svcHeard, busUp, polled, unitName, svcMissed,
                 ownStopped>>

(* D-Bus is lost, and nobody connects again. *)
BusLost ==
  /\ provider = "systemd_dbus" /\ busUp /\ Idle("init") /\ svcHeard # {} /\ Spends("failures")
  /\ busUp' = FALSE /\ svcSignals' = <<>>
  /\ SvcRests
  /\ UNCHANGED <<pc, svcReal, svcSeen, svcTold, svcListed, svcHeard, polled, unitName, svcMissed,
                 ownStopped>>

(* _update_service_status: the command runs, then its output is read. *)
Polls ==
  /\ provider \in {"systemd_cli", "supervisord_cli"} /\ Idle("timer") /\ Idle("init")
  /\ \E s \in Service : svcSeen[s] \notin {None, svcReal[s]}
  /\ Goes("timer", "polling") /\ polled' = svcReal
  /\ SvcRests
  /\ UNCHANGED <<left, svcReal, svcSeen, svcTold, svcListed, svcSignals, svcHeard, busUp, unitName,
                 svcMissed, ownStopped>>

PollRead ==
  /\ pc["timer"] = "polling" /\ Goes("timer", "idle") /\ polled' = None
  /\ \/ /\ svcSeen' = [s \in Service |-> IF svcSeen[s] = None THEN None ELSE polled[s]]
        /\ SvcNotified(svcSeen') /\ UNCHANGED left
     \/ Spends("failures") /\ UNCHANGED <<svcSeen, svcTold>>
  /\ SvcRests
  /\ UNCHANGED <<svcReal, svcListed, svcSignals, svcHeard, busUp, unitName, svcMissed, ownStopped>>
-----------------------------------------------------------------------------
(* _handle_service_request *)

(* Mutant: Moonraker runs under its own name. *)
MoonrakerOnly == "moonraker"
(* unit_name *)
OwnName == IF unitName = None THEN "moonraker" ELSE unitName

AskService(t) ==
  /\ Idle(t) /\ Idle("init") /\ \E s \in Service : svcSeen[s] # None
  /\ Spends("asks")
  /\ \E action \in {"start", "stop", "restart"}, s \in Service :
       /\ IF s = OwnName THEN action = "restart" ELSE svcSeen[s] # None
       /\ svcAsked' = [svcAsked EXCEPT ![t] = [action |-> action, service |-> s]]
  /\ Goes(t, "acting")
  /\ PrinterStays
  /\ UNCHANGED <<provider, ownUnit, svcReal, svcSeen, svcTold, svcListed, svcSignals, svcHeard,
                 busUp,
                 polled, unitName, svcMissed, ownStopped>>

(* do_service_action: it fails without D-Bus, or with the command. *)
ServiceActs(t) ==
  /\ pc[t] = "acting" /\ Goes(t, "idle")
  /\ LET a == svcAsked[t] IN
     \/ /\ provider = "systemd_dbus" => busUp
        /\ a.service \in Installed
        /\ Becomes(a.service, IF a.action = "stop" THEN "inactive" ELSE "active")
        /\ ownStopped' = (ownStopped \/ (a.action = "stop" /\ a.service = ownUnit))
        /\ UNCHANGED left
     \/ /\ IF a.service \notin Installed \/ (provider = "systemd_dbus" /\ ~busUp)
           THEN UNCHANGED left ELSE Spends("failures")
        /\ UNCHANGED <<svcReal, svcSignals, svcMissed, ownStopped>>
  /\ svcAsked' = [svcAsked EXCEPT ![t] = NoAction]
  /\ PrinterStays
  /\ UNCHANGED <<provider, ownUnit, svcSeen, svcTold, svcListed, svcHeard, busUp, polled, unitName>>

ServicesNext ==
  \/ ServicesStart \/ UnitListed \/ UnitHeard \/ OwnUnitFound \/ ServiceChanges \/ SignalCame
  \/ BusLost \/ Polls \/ PollRead
  \/ \E t \in Request : AskService(t) \/ ServiceActs(t)

ServicesWorks(t) ==
  \/ t = "init" /\ (UnitListed \/ UnitHeard \/ OwnUnitFound)
  \/ t = "event" /\ SignalCame
  \/ t = "timer" /\ (Polls \/ PollRead)
  \/ t \in Request /\ ServiceActs(t)

(* A client that listens knows what is recorded, and what is recorded is so   *)
(* once all signals have come.  One that changed between the list and the     *)
(* listening (machine.py:1286-1309), and all of them once D-Bus is lost, may  *)
(* be stale until they change again.                                          *)
ServicesAreKnown ==
  /\ svcTold = svcSeen
  /\ provider = "systemd_dbus" /\ busUp /\ svcSignals = <<>> =>
       \A s \in svcHeard \ svcMissed : svcSeen[s] = svcReal[s]

(* No request stops Moonraker, whatever name it runs under, if it is known. *)
NeverStopsItself == ownStopped => unitName = None
=============================================================================
