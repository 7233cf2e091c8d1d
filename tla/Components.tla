----------------------------- MODULE Components -----------------------------
(***************************************************************************)
(* Components of Moonraker that share the event loop but no state, so that *)
(* a behaviour is about one of them: see module Host.                      *)
(***************************************************************************)
EXTENDS Spoolman, Power, Mqtt, Updates, Files, Timelapse, Firmware, Projector, Server,
        Machine, Announcements, SimplyPrint, Folders, Fields, Repository,
        PanelDue, ConfigFile, FileRequests, HttpClient, Packages, Hardware,
        Webcams, Sessions

vars == <<hostVars, spoolVars, powerVars, mqttVars, updateVars, filesVars, timelapseVars,
          firmwareVars, projectorVars, serverAllVars, installVars, announceVars, cloudVars,
          folderVars, swVars, fieldVars, gitVars, serviceVars, panelVars, configVars, reqVars,
          httpVars, packageVars, stripVars, buttonVars, webcamVars, sessionVars>>

Init ==
  /\ HostInit
  /\ SpoolmanInit /\ PowerInit /\ MqttInit /\ UpdatesInit
  /\ FilesInit /\ TimelapseInit /\ FirmwareInit /\ ProjectorInit
  /\ ServerInit /\ InstallationInit /\ AnnouncementsInit /\ SimplyPrintInit
  /\ FoldersInit /\ SwitchesInit /\ FieldsInit /\ RepositoryInit
  /\ ServicesInit /\ PanelDueInit /\ ConfigFileInit /\ FileRequestsInit
  /\ HttpClientInit /\ PackagesInit /\ StripsInit /\ ButtonsInit
  /\ WebcamsInit /\ SessionsInit

TypeOK ==
  /\ HostTypeOK
  /\ component = "spoolman" => SpoolmanTypeOK
  /\ component = "power" => PowerTypeOK
  /\ component = "mqtt" => MqttTypeOK
  /\ component = "updates" => UpdatesTypeOK
  /\ component = "files" => FilesTypeOK
  /\ component = "timelapse" => TimelapseTypeOK
  /\ component = "firmware" => FirmwareTypeOK
  /\ component = "projector" => ProjectorTypeOK
  /\ component = "server" => ServerTypeOK
  /\ component = "installation" => InstallationTypeOK
  /\ component = "announcements" => AnnouncementsTypeOK
  /\ component = "simplyprint" => SimplyPrintTypeOK
  /\ component = "folders" => FoldersTypeOK
  /\ component = "switches" => SwitchesTypeOK
  /\ component = "fields" => FieldsTypeOK
  /\ component = "repository" => RepositoryTypeOK
  /\ component = "services" => ServicesTypeOK
  /\ component = "paneldue" => PanelDueTypeOK
  /\ component = "configfile" => ConfigFileTypeOK
  /\ component = "filerequests" => FileRequestsTypeOK
  /\ component = "http" => HttpClientTypeOK
  /\ component = "packages" => PackagesTypeOK
  /\ component = "wled" => StripsTypeOK
  /\ component = "buttons" => ButtonsTypeOK
  /\ component = "webcams" => WebcamsTypeOK
  /\ component = "sessions" => SessionsTypeOK

(* The behaviour is about the named component, and what the others have stays. *)
About(name) ==
  /\ component = name /\ component' = name
  /\ IF name = "spoolman" THEN TRUE ELSE UNCHANGED spoolVars
  /\ IF name = "power" THEN TRUE ELSE UNCHANGED powerVars
  /\ IF name = "mqtt" THEN TRUE ELSE UNCHANGED mqttVars
  /\ IF name = "updates" THEN TRUE ELSE UNCHANGED updateVars
  /\ IF name = "files" THEN TRUE ELSE UNCHANGED filesVars
  /\ IF name = "timelapse" THEN TRUE ELSE UNCHANGED timelapseVars
  /\ IF name = "firmware" THEN TRUE ELSE UNCHANGED firmwareVars
  /\ IF name = "projector" THEN TRUE ELSE UNCHANGED projectorVars
  /\ IF name = "server" THEN TRUE ELSE UNCHANGED serverAllVars
  /\ IF name = "installation" THEN TRUE ELSE UNCHANGED installVars
  /\ IF name = "announcements" THEN TRUE ELSE UNCHANGED announceVars
  /\ IF name = "simplyprint" THEN TRUE ELSE UNCHANGED cloudVars
  /\ IF name = "folders" THEN TRUE ELSE UNCHANGED folderVars
  /\ IF name = "switches" THEN TRUE ELSE UNCHANGED swVars
  /\ IF name = "fields" THEN TRUE ELSE UNCHANGED fieldVars
  /\ IF name = "repository" THEN TRUE ELSE UNCHANGED gitVars
  /\ IF name = "services" THEN TRUE ELSE UNCHANGED serviceVars
  /\ IF name = "paneldue" THEN TRUE ELSE UNCHANGED panelVars
  /\ IF name = "configfile" THEN TRUE ELSE UNCHANGED configVars
  /\ IF name = "filerequests" THEN TRUE ELSE UNCHANGED reqVars
  /\ IF name = "http" THEN TRUE ELSE UNCHANGED httpVars
  /\ IF name = "packages" THEN TRUE ELSE UNCHANGED packageVars
  /\ IF name = "wled" THEN TRUE ELSE UNCHANGED stripVars
  /\ IF name = "buttons" THEN TRUE ELSE UNCHANGED buttonVars
  /\ IF name = "webcams" THEN TRUE ELSE UNCHANGED webcamVars
  /\ IF name = "sessions" THEN TRUE ELSE UNCHANGED sessionVars

Next ==
  \/ About("spoolman") /\ SpoolmanNext
  \/ About("power") /\ PowerNext
  \/ About("mqtt") /\ MqttNext
  \/ About("updates") /\ UpdatesNext
  \/ About("files") /\ FilesNext
  \/ About("timelapse") /\ TimelapseNext
  \/ About("firmware") /\ FirmwareNext
  \/ About("projector") /\ ProjectorNext
  \/ About("server") /\ ServerNext
  \/ About("installation") /\ InstallationNext
  \/ About("announcements") /\ AnnouncementsNext
  \/ About("simplyprint") /\ SimplyPrintNext
  \/ About("folders") /\ FoldersNext
  \/ About("switches") /\ SwitchesNext
  \/ About("fields") /\ FieldsNext
  \/ About("repository") /\ RepositoryNext
  \/ About("services") /\ ServicesNext
  \/ About("paneldue") /\ PanelDueNext
  \/ About("configfile") /\ ConfigFileNext
  \/ About("filerequests") /\ FileRequestsNext
  \/ About("http") /\ HttpClientNext
  \/ About("packages") /\ PackagesNext
  \/ About("wled") /\ StripsNext
  \/ About("buttons") /\ ButtonsNext
  \/ About("webcams") /\ WebcamsNext
  \/ About("sessions") /\ SessionsNext

(* Tasks of the event loop run on: none of them waits for what does not come,  *)
(* but what comes by itself, such as a timer, an answer or the end of a         *)
(* process, comes.                                                              *)
Fairness ==
  /\ \A t \in {"timer", "worker"} :
       WF_<<hostVars, spoolVars>>(component = "spoolman" /\ SpoolmanWorks(t))
  /\ WF_<<hostVars, powerVars>>(component = "power" /\ \E t \in Task : PowerWorks(t))
  /\ WF_<<hostVars, mqttVars>>(component = "mqtt" /\ \E t \in Task : MqttWorks(t))
  /\ WF_<<hostVars, updateVars>>(component = "updates" /\ \E t \in Task : UpdatesWorks(t))
  /\ WF_<<hostVars, filesVars>>(component = "files" /\ \E t \in Task : FilesWorks(t))
  /\ WF_<<hostVars, timelapseVars>>(component = "timelapse" /\ \E t \in Task : TimelapseWorks(t))
  /\ WF_<<hostVars, firmwareVars>>(component = "firmware" /\ \E t \in Task : FirmwareWorks(t))
  /\ WF_<<hostVars, projectorVars>>(component = "projector" /\ \E t \in Task : ProjectorWorks(t))
  /\ WF_<<hostVars, serverAllVars>>(component = "server" /\ \E t \in Task : ServerWorks(t))
  /\ WF_<<hostVars, installVars>>(component = "installation" /\ \E t \in Task : InstallationWorks(t))
  /\ WF_<<hostVars, announceVars>>(component = "announcements" /\ \E t \in Task : AnnouncementsWorks(t))
  /\ WF_<<hostVars, cloudVars>>(component = "simplyprint" /\ \E t \in Task : SimplyPrintWorks(t))
  /\ WF_<<hostVars, folderVars>>(component = "folders" /\ \E t \in Task : FoldersWorks(t))
  /\ WF_<<hostVars, swVars>>(component = "switches" /\ \E t \in Task : SwitchesWorks(t))
  /\ WF_<<hostVars, fieldVars>>(component = "fields" /\ \E t \in Task : FieldsWorks(t))
  /\ WF_<<hostVars, gitVars>>(component = "repository" /\ \E t \in Task : RepositoryWorks(t))
  /\ WF_<<hostVars, serviceVars>>(component = "services" /\ \E t \in Task : ServicesWorks(t))
  /\ WF_<<hostVars, panelVars>>(component = "paneldue" /\ \E t \in Task : PanelDueWorks(t))
  /\ WF_<<hostVars, configVars>>(component = "configfile" /\ \E t \in Task : ConfigFileWorks(t))
  /\ WF_<<hostVars, reqVars>>(component = "filerequests" /\ \E t \in Task : FileRequestsWorks(t))
  /\ WF_<<hostVars, httpVars>>(component = "http" /\ \E t \in Task : HttpClientWorks(t))
  /\ WF_<<hostVars, packageVars>>(component = "packages" /\ \E t \in Task : PackagesWorks(t))
  /\ WF_<<hostVars, stripVars>>(component = "wled" /\ \E t \in Task : StripsWorks(t))
  /\ WF_<<hostVars, buttonVars>>(component = "buttons" /\ \E t \in Task : ButtonsWorks(t))
  /\ WF_<<hostVars, webcamVars>>(component = "webcams" /\ \E t \in Task : WebcamsWorks(t))
  /\ WF_<<hostVars, sessionVars>>(component = "sessions" /\ \E t \in Task : SessionsWorks(t))

Spec == Init /\ [][Next]_vars
FairSpec == Spec /\ Fairness
-----------------------------------------------------------------------------
(* Every request, and every task of a timer, an event or the start, comes to   *)
(* its end: it gets the lock it waits for, its wait for an answer, an event or  *)
(* a process ends, whoever fails or comes first.  As what is asked is bounded,  *)
(* this is to say that all come to rest, again and again; but for the event     *)
(* loop that never gets control back (file_manager.py:2555-2588), a download     *)
(* whose disk is full (http_client.py:496-515), a transaction of which            *)
(* PackageKit says no more (system_deploy.py:352-366), and a request to the       *)
(* broker that was given no timeout and gets no answer (mqtt.py:746, 761).         *)
EveryTaskEnds ==
  []<>((\A t \in Task : Idle(t) \/ WaitsForEver(t)) \/ frozen \/ dl.stuck \/ TransactionLost)

(* What a component keeps of the world is so, as long as the world lets it know: *)
(* the job the cloud has been told of (simplyprint.py), the backup of the          *)
(* configuration (server.py), a repository that is called valid (git_deploy.py),    *)
(* the services (machine.py), what the panel shows (paneldue.py), the files in the   *)
(* database (file_manager.py), an answer that was kept (http_client.py), the          *)
(* packages that can be upgraded (system_deploy.py), the level of a button (gpio.py),  *)
(* a strip of lights (wled.py), the cameras (webcam.py), the user and its keys          *)
(* (authorization.py), what the broker is listened to for (mqtt.py), the state of a       *)
(* switch and the service that is bound to a device (power.py), the file of                *)
(* installation values (machine.py), the entries of the subscribed feeds                    *)
(* (announcements.py), the totals of an auxiliary field (history.py) and the files of        *)
(* the configuration (confighelper.py).                                                       *)
KeptIsTrue ==
  /\ component = "mqtt" => SubscriptionsMatch
  /\ component = "simplyprint" => CloudKnowsJobs
  /\ component = "server" => BackupHasWorked
  /\ component = "repository" => ValidIsPristine
  /\ component = "services" => ServicesAreKnown
  /\ component = "paneldue" => PanelKnowsPrinter
  /\ component = "filerequests" => EntriesCurrent
  /\ component = "http" => AnswersAreCurrent
  /\ component = "packages" => ListedCanBeUpgraded
  /\ component = "wled" => StripAsSaid
  /\ component = "buttons" => EventsTakeTurns
  /\ component = "webcams" => WebcamsAreStored
  /\ component = "sessions" => SessionsAreKept
  /\ component = "power" => ServiceFollows
  /\ component = "switches" => SwitchKnown
  /\ component = "installation" => InstallationTrue
  /\ component = "announcements" => AnnouncementsTrue
  /\ component = "fields" => TotalsAddUp
  /\ component = "configfile" => ConfigMatchesFiles

(* A component follows what it watches: the tree of watched directories, whatever *)
(* is moved, removed and made in it (file_manager.py), and what a sensor reads       *)
(* during a job, of which an auxiliary field is the sum, the extremes or the last      *)
(* (history.py).                                                                        *)
FollowsTheWorld ==
  /\ component = "folders" => FoldersFollowed
  /\ component = "fields" => FieldIsDescribed

(* What must be done once, or for the one who asked, is done so by several       *)
(* tasks, after a failure or a restart, and what was begun is undone: a recovery  *)
(* resets the firmware once (auto_recovery.py), a file that was sent is started    *)
(* once and a setup code shown once (simplyprint.py), a server that stopped left   *)
(* nothing running (server.py), an update leaves no work behind (git_deploy.py)    *)
(* and nothing to upgrade (system_deploy.py), Moonraker does not stop itself        *)
(* (machine.py), a dialog is answered before its macro runs (paneldue.py), what is   *)
(* printed is what was asked for (file_manager.py), a download is whole                *)
(* (http_client.py), a template has its own event (button.py).                          *)
DoneOnce ==
  /\ component = "projector" => ProjectorResetOnce
  /\ component = "simplyprint" => SentFileStartsOnce /\ SetupShownOnce
  /\ component = "server" => ServerLeavesNothing
  /\ component = "repository" => UpdateKeepsWork
  /\ component = "services" => NeverStopsItself
  /\ component = "paneldue" => PanelServed
  /\ component = "filerequests" => PrintedAsAsked
  /\ component = "http" => DownloadIsWhole
  /\ component = "packages" => UpdateUpgradesAll
  /\ component = "buttons" => TemplateHasItsEvent
=============================================================================
