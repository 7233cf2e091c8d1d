------------------------------- MODULE Server -------------------------------
(***************************************************************************)
(* server.py and the backup of confighelper.py: a process launches servers *)
(* until one is told to terminate; a server loads and initializes its      *)
(* components, starts, and is stopped by requests, by components and by    *)
(* SIGTERM, which may overlap one another and the initialization.          *)
(***************************************************************************)
EXTENDS Host

VARIABLES
  process,       \* "none", "starting" or "waiting" in run_until_exit
  confFile,      \* what moonraker.conf is: "good", "odd" (with warnings), "bad"
  backup,        \* its backup, "torn" while or when cut off while written
  backupNewer,   \* no file of the configuration is newer than the backup
  backupKnown,   \* app_args["backup_config"], found when the process starts
  usesBackup,    \* app_args["is_backup_config"]
  loaded,        \* the configuration of the server
  warned,        \* warnings
  parts,         \* components: a core and an optional one
  running,       \* server_running
  portOpen,     \* HTTP and Unix socket
  handlesTerm,       \* the SIGTERM handler is set
  reason,        \* what a task in _stop_server was called with
  exitReason,    \* exit_reason, once app_running_evt is set
  stopMetStart     \* a stop has met a server that was still starting

fileVars == <<confFile, backup, backupNewer>>
launchVars == <<process, backupKnown, usesBackup>>
lifeVars ==
  <<loaded, warned, parts, running, portOpen, handlesTerm, reason, exitReason, stopMetStart>>
serverAllVars == <<fileVars, launchVars, lifeVars>>

Part == {"core", "optional"}
(* Tasks in _stop_server: of a request or a component, or of SIGTERM *)
Stopper == {"timer", "event"}

(* None is no configuration. *)
ASSUME ServerConstants == None \notin {"good", "odd", "bad", "torn"}

ServerInit ==
  /\ confFile = "good" /\ backup \in Among({None, "good"}, "server")
  /\ backupNewer = (backup # None)
  /\ process = "none" /\ backupKnown = FALSE /\ usesBackup = FALSE
  /\ loaded = None /\ warned = FALSE
  /\ parts = [p \in Part |-> "absent"]
  /\ running = FALSE /\ portOpen = FALSE /\ handlesTerm = FALSE
  /\ reason = [t \in Stopper |-> "restart"] /\ exitReason = None
  /\ stopMetStart = FALSE

ServerTypeOK ==
  /\ confFile \in {"good", "odd", "bad"}
  /\ backup \in {None, "good", "odd", "bad", "torn"}
  /\ loaded \in {None, "good", "odd", "bad"}
  /\ {backupNewer, backupKnown, usesBackup, warned, running, portOpen, handlesTerm, stopMetStart}
       \subseteq BOOLEAN
  /\ parts \in [Part -> {"absent", "loaded", "ready", "closed"}]
  /\ reason \in [Stopper -> {"restart", "terminate"}]
  /\ exitReason \in {None, "restart", "terminate"}
  /\ process \in {"none", "starting", "waiting"}
  /\ (process = "starting") <=> ~Idle("init")
  /\ usesBackup => backupKnown
  /\ (\E t \in Stopper : ~Idle(t)) => process # "none"
-----------------------------------------------------------------------------
(* main, launch_server *)

(* The process is there, without a server. *)
ServerGone ==
  /\ loaded' = None /\ warned' = FALSE
  /\ parts' = [p \in Part |-> "absent"]
  /\ running' = FALSE /\ portOpen' = FALSE /\ handlesTerm' = FALSE
  /\ exitReason' = None /\ stopMetStart' = FALSE
  /\ UNCHANGED reason

(* systemd starts Moonraker. *)
MainStarts ==
  /\ process = "none" /\ Spends("changes")
  /\ Goes("init", "main") /\ process' = "starting"
  /\ backupKnown' = (backup # None) /\ usesBackup' = FALSE
  /\ PrinterStays
  /\ UNCHANGED <<fileVars, lifeVars>>

(* load_components: an optional one that fails, which an odd configuration leads *)
(* to, is left out; a core one ends the launch.                                   *)
LoadedParts(conf) ==
  [core : {"loaded"}, optional : {"loaded"} \cup IF conf = "odd" THEN {"absent"} ELSE {}]

(* validate_config warns of what nobody has read; launch_server of the backup. *)
Warned(conf) == conf = "odd" \/ usesBackup

(* get_configuration, which fails for what cannot be parsed *)
Parsed == {IF usesBackup THEN backup ELSE confFile} \cap {"good", "odd"}

Launch ==
  /\ pc["init"] = "main"
  /\ \/ \E conf \in Parsed :
          /\ Goes("init", "core")
          /\ loaded' = conf /\ warned' = Warned(conf) /\ parts' \in LoadedParts(conf)
          /\ handlesTerm' = TRUE
          /\ UNCHANGED <<left, launchVars, running, portOpen, reason, exitReason, stopMetStart>>
     \/ /\ Parsed # {} /\ Spends("failures")
        /\ Goes("init", "idle") /\ process' = "none"
        /\ UNCHANGED <<backupKnown, usesBackup, lifeVars>>
     \/ /\ Parsed = {}
        /\ IF usesBackup \/ ~backupKnown
           THEN Goes("init", "idle") /\ process' = "none" /\ UNCHANGED usesBackup
           ELSE usesBackup' = TRUE /\ UNCHANGED <<pc, process>>
        /\ UNCHANGED <<left, backupKnown, lifeVars>>
  /\ PrinterStays
  /\ UNCHANGED fileVars
-----------------------------------------------------------------------------
(* server_init *)

(* _initialize_component; what fails keeps its place and will be closed. *)
PartInitialized(p, next) ==
  /\ pc["init"] = p
  /\ Goes("init", next)
  /\ IF parts[p] = "absent" THEN UNCHANGED <<left, warned, parts>>
     ELSE /\ parts' = [parts EXCEPT ![p] = "ready"]
          /\ \/ UNCHANGED <<left, warned>>
             \/ Spends("failures") /\ warned' = TRUE
  /\ PrinterStays
  /\ UNCHANGED <<fileVars, launchVars, loaded, running, portOpen, handlesTerm, reason,
                 exitReason, stopMetStart>>

(* Mutant: the files are copied. *)
CopyOfFile == confFile
(* create_backup writes the configuration that was parsed. *)
BackupContent == loaded

BackupBegins ==
  /\ pc["init"] = "backup"
  /\ IF warned \/ (backup # None /\ backupNewer)
     THEN Goes("init", "validating") /\ UNCHANGED <<backup, backupNewer>>
     ELSE Goes("init", "writing") /\ backup' = "torn" /\ backupNewer' = TRUE
  /\ PrinterStays
  /\ UNCHANGED <<left, confFile, launchVars, lifeVars>>

BackupWritten ==
  /\ pc["init"] = "writing"
  /\ Goes("init", "validating")
  /\ backup' = BackupContent /\ backupNewer' = TRUE
  /\ PrinterStays
  /\ UNCHANGED <<left, confFile, launchVars, lifeVars>>

(* validate_installation has the service restarted, or start_server follows. *)
Validated ==
  /\ pc["init"] = "validating"
  /\ \/ Goes("init", "socket") /\ UNCHANGED <<left, process>>
     \/ Goes("init", "idle") /\ process' = "waiting" /\ Spends("failures")
  /\ PrinterStays
  /\ UNCHANGED <<fileVars, backupKnown, usesBackup, lifeVars>>

StartServer ==
  /\ pc["init"] = "socket"
  /\ Goes("init", "idle") /\ process' = "waiting"
  /\ portOpen' = TRUE /\ running' = TRUE
  /\ PrinterStays
  /\ UNCHANGED <<left, fileVars, backupKnown, usesBackup, loaded, warned, parts, handlesTerm,
                 reason, exitReason, stopMetStart>>

(* run_until_exit is over: what still runs is cancelled with the loop. *)
WaitOver ==
  /\ process = "waiting" /\ exitReason # None
  /\ process' = IF exitReason = "restart" THEN "starting" ELSE "none"
  /\ pc' = [t \in Task |-> IF t = "init" /\ exitReason = "restart" THEN "main" ELSE "idle"]
  /\ usesBackup' = (usesBackup /\ exitReason = "terminate")
  /\ ServerGone
  /\ PrinterStays
  /\ UNCHANGED <<left, fileVars, backupKnown>>
-----------------------------------------------------------------------------
(* _stop_server *)

(* _handle_server_restart and restart, or SIGTERM *)
StopAsked(t) ==
  /\ Idle(t) /\ Spends("asks")
  /\ IF t = "event" THEN handlesTerm ELSE loaded # None
  /\ Goes(t, "exiting")
  /\ reason' = [reason EXCEPT ![t] = IF t = "event" THEN "terminate" ELSE "restart"]
  /\ running' = FALSE
  /\ stopMetStart' = (stopMetStart \/ process # "waiting")
  /\ PrinterStays
  /\ UNCHANGED <<fileVars, launchVars, loaded, warned, parts, portOpen, handlesTerm, exitReason>>

(* on_exit of each component, a pause, the application, the websockets *)
AppClosed(t) ==
  /\ pc[t] = "exiting"
  /\ Goes(t, "core") /\ portOpen' = FALSE
  /\ PrinterStays
  /\ UNCHANGED <<left, fileVars, launchVars, loaded, warned, parts, running, handlesTerm, reason,
                 exitReason, stopMetStart>>

(* Mutant: an exception in close ends the loop over the components. *)
NextAfterError == "finished"
(* The component after a core one that failed to close *)
NextToClose == "optional"

(* close of a component, that may fail; Klippy's connection is closed before. *)
PartClosed(t, p) ==
  /\ pc[t] = p
  /\ parts' = [parts EXCEPT ![p] = IF @ = "absent" THEN @ ELSE "closed"]
  /\ IF p = "optional" THEN Goes(t, "finished") /\ UNCHANGED left
     ELSE \/ Goes(t, "optional") /\ UNCHANGED left
          \/ Spends("failures") /\ Goes(t, NextToClose)
  /\ PrinterStays
  /\ UNCHANGED <<fileVars, launchVars, loaded, warned, running, portOpen, handlesTerm, reason,
                 exitReason, stopMetStart>>

StopEnds(t) ==
  /\ pc[t] = "finished"
  /\ Goes(t, "idle")
  /\ exitReason' = reason[t] /\ handlesTerm' = FALSE
  /\ PrinterStays
  /\ UNCHANGED <<left, fileVars, launchVars, loaded, warned, parts, running, portOpen, reason,
                 stopMetStart>>
-----------------------------------------------------------------------------
(* Somebody edits the configuration. *)
ConfEdited ==
  /\ Spends("changes")
  /\ confFile' \in {"good", "odd", "bad"} \ {confFile}
  /\ backupNewer' = FALSE
  /\ PrinterStays
  /\ UNCHANGED <<pc, backup, launchVars, lifeVars>>

(* A SIGTERM without a handler, or a crash *)
Killed ==
  /\ process # "none" /\ Spends("failures")
  /\ pc' = [t \in Task |-> "idle"] /\ process' = "none"
  /\ ServerGone
  /\ PrinterStays
  /\ UNCHANGED <<fileVars, backupKnown, usesBackup>>
-----------------------------------------------------------------------------
LaunchSteps ==
  \/ Launch \/ PartInitialized("core", "optional") \/ PartInitialized("optional", "backup")
  \/ BackupBegins \/ BackupWritten \/ Validated \/ StartServer \/ WaitOver
StopSteps(t) == AppClosed(t) \/ (\E p \in Part : PartClosed(t, p)) \/ StopEnds(t)

ServerNext ==
  \/ MainStarts \/ LaunchSteps
  \/ \E t \in Stopper : StopAsked(t) \/ StopSteps(t)
  \/ ConfEdited \/ Killed

ServerWorks(t) ==
  \/ t = "init" /\ LaunchSteps
  \/ t \in Stopper /\ StopSteps(t)

(* A server that has been stopped while it was up leaves nothing open for the *)
(* next one in the process, whatever fails to close and whoever else stops it. *)
ServerLeavesNothing ==
  (exitReason # None /\ process = "waiting" /\ ~stopMetStart) =>
    ~portOpen /\ \A p \in Part : parts[p] \in {"absent", "closed"}

(* The backup is of a configuration that a server has come up with.           *)
BackupHasWorked == backup # "bad"
=============================================================================
