----------------------------- MODULE SimplyPrint -----------------------------
(***************************************************************************)
(* simplyprint.py, in three parts that share little: what the cloud is      *)
(* told of the printer's state and of jobs while its websocket comes and    *)
(* goes; the files it sends to be printed; the announcement of its setup.   *)
(***************************************************************************)
EXTENDS Host

VARIABLES
  cloudPlan,     \* the part this behaviour is about: "jobs", "files", "setup"
  cloudLink,     \* ws and connected: "down", "open", "up"
  torn,          \* the websocket is broken, and read_message has not said so yet
  spState,       \* cache.state
  cloudState,    \* the state the cloud was told last
  cloudJob,      \* what Klippy does
  hasJob,        \* cache.job_info has something
  missed,        \* missed_job_events
  told,          \* job events that have reached the cloud
  lossy,         \* one was written to a broken websocket
  pendingFile,   \* pending_file; each task downloads a file of its own
  demanded,      \* tasks of file demands
  autoStart,     \* start, of a file demand
  timesStarted,  \* how often a download was started
  setupId,       \* announcement_id and temp_short_setup_id in the database
  shownSetups,   \* setup announcements that there are
  setupMutex,    \* announce_mutex
  setupWanted    \* the code a task is to announce, or "complete"

tellVars == <<cloudLink, torn, cloudState, missed, told, lossy>>
jobVars == <<spState, cloudJob, hasJob>>
sendFileVars == <<pendingFile, demanded, autoStart, timesStarted>>
setupVars == <<setupId, shownSetups, setupMutex, setupWanted>>
cloudVars == <<cloudPlan, tellVars, jobVars, sendFileVars, setupVars>>

ShortId == {"code1", "code2", "code3"}
Demandable == {"printing", "paused"}

SimplyPrintInit ==
  /\ cloudPlan \in Among({"jobs", "files", "setup"}, "simplyprint")
  /\ cloudLink = (IF cloudPlan = "jobs" THEN "down" ELSE "up") /\ torn = FALSE
  /\ spState = "operational" /\ cloudState = "operational"
  /\ cloudJob = "none" /\ hasJob = FALSE
  /\ missed = <<>> /\ told = <<>> /\ lossy = FALSE
  /\ pendingFile = None /\ demanded = {} /\ autoStart = {} /\ timesStarted = [t \in Request |-> 0]
  /\ setupId \in Among({None, "code1"}, "simplyprint") /\ shownSetups = {setupId} \ {None}
  /\ setupMutex = None /\ setupWanted = [t \in Request |-> None]

SimplyPrintTypeOK ==
  /\ cloudLink \in {"down", "open", "up"} /\ {torn, hasJob, lossy} \subseteq BOOLEAN
  /\ {spState, cloudState} \subseteq
       {"operational", "printing", "pausing", "paused", "resuming", "cancelling", "offline"}
  /\ cloudJob \in {"none", "printing", "paused"}
  /\ \A s \in {missed, told} : \A i \in 1..Len(s) : s[i] \in {"started", "current", "ended"}
  /\ pendingFile \in Request \cup {None}
  /\ autoStart \subseteq demanded /\ demanded \subseteq Request
  /\ timesStarted \in [Request -> Nat]
  /\ setupId \in ShortId \cup {None} /\ shownSetups \subseteq ShortId
  /\ setupMutex \in Request \cup {None}
  /\ setupWanted \in [Request -> ShortId \cup {"complete", None}]
  /\ cloudLink # "up" => cloudPlan = "jobs"
  /\ missed # <<>> => cloudLink # "up"
-----------------------------------------------------------------------------
(* send_sp, of a state and of job events *)

(* notify_ready wakes the tasks that wait for print_ready_event. *)
Woken(p) == [t \in Task |-> IF p[t] = "waiting" THEN "woken" ELSE p[t]]

(* _update_state; when the state is "operational", downloads wake. *)
UpdatesState(new, p) ==
  /\ spState' = new
  /\ cloudState' = IF new # spState /\ cloudLink = "up" /\ ~torn THEN new ELSE cloudState
  /\ pc' = IF new # spState /\ new = "operational" THEN Woken(p) ELSE p

SendsJobEvents(events) ==
  /\ missed' = IF cloudLink = "up" THEN missed ELSE missed \o events
  /\ told' = IF cloudLink = "up" /\ ~torn THEN told \o events ELSE told
  /\ lossy' = (lossy \/ (cloudLink = "up" /\ torn /\ events # <<>>))
  /\ UNCHANGED <<cloudLink, torn>>

(* Mutant: a job that ends is taken to be known. *)
EndOnly == <<"ended">>
(* _check_job_started *)
EndEvents == IF hasJob THEN <<"ended">> ELSE <<"started", "ended">>

(* _on_print_started, _on_print_paused, _on_print_resumed, the three ends   *)
PrintStarted(p) ==
  /\ cloudJob' = "printing" /\ hasJob' = TRUE
  /\ UpdatesState("printing", p) /\ SendsJobEvents(<<"started">>)

JobState(next) ==
  /\ IF next = "none"
     THEN UpdatesState("operational", pc) /\ hasJob' = FALSE /\ SendsJobEvents(EndEvents)
     ELSE UpdatesState(next, pc) /\ UNCHANGED hasJob /\ SendsJobEvents(<<>>)
  /\ cloudJob' = next

JobChanges ==
  /\ cloudPlan # "setup" /\ klippy = "ready" /\ Spends("changes")
  /\ \/ cloudJob = "none" /\ PrintStarted(pc)
     \/ cloudJob = "printing" /\ JobState("paused")
     \/ cloudJob = "paused" /\ JobState("printing")
     \/ cloudJob # "none" /\ JobState("none")
  /\ PrinterStays
  /\ UNCHANGED <<cloudPlan, sendFileVars, setupVars>>

(* Klippy's socket drops, and is there again; a job may have ended meanwhile.*)
(* One that is paused then passes for none (simplyprint.py:528-532).        *)
CloudKlippyDrops ==
  /\ cloudPlan = "jobs" /\ klippy = "ready" /\ Spends("changes")
  /\ klippy' = "offline"
  /\ UpdatesState("offline", pc) /\ SendsJobEvents(<<>>)
  /\ hasJob' = FALSE
  /\ UNCHANGED <<component, printing, cloudPlan, cloudJob, sendFileVars, setupVars>>

CloudKlippyReady ==
  /\ klippy = "offline" /\ klippy' = "ready"
  /\ cloudJob' \in {"none", "printing", "paused"}
  /\ UpdatesState(IF cloudJob' = "printing" THEN "printing" ELSE "operational", pc)
  /\ SendsJobEvents(IF cloudJob' = "printing" THEN <<"current">> ELSE <<>>)
  /\ hasJob' = (cloudJob' = "printing")
  /\ UNCHANGED <<component, printing, left, cloudPlan, sendFileVars, setupVars>>

(* _request_print_action *)
PrintDemand(t) ==
  /\ cloudPlan = "jobs" /\ Idle(t) /\ klippy = "ready" /\ spState \in Demandable /\ Spends("asks")
  /\ \/ UpdatesState(IF spState = "printing" THEN "pausing" ELSE "resuming",
                     [pc EXCEPT ![t] = "acting"])
     \/ UpdatesState("cancelling", [pc EXCEPT ![t] = "acting"])
  /\ SendsJobEvents(<<>>)
  /\ PrinterStays
  /\ UNCHANGED <<cloudPlan, cloudJob, hasJob, sendFileVars, setupVars>>

(* What fails has the state taken from Klippy's, whatever the job does. *)
PrintDemandDone(t) ==
  /\ pc[t] = "acting"
  /\ \/ Goes(t, "idle") /\ UNCHANGED <<left, spState, tellVars>>
     \/ /\ IF klippy = "ready" THEN Spends("failures") ELSE UNCHANGED left
        /\ UpdatesState(IF klippy = "ready" THEN "operational" ELSE "offline",
                        [pc EXCEPT ![t] = "idle"])
        /\ SendsJobEvents(<<>>)
  /\ PrinterStays
  /\ UNCHANGED <<cloudPlan, cloudJob, hasJob, sendFileVars, setupVars>>
-----------------------------------------------------------------------------
(* _connect, _read_messages, _process_message *)

CloudConnects ==
  /\ cloudLink = "down"
  /\ cloudLink' = "open" /\ torn' = FALSE
  /\ PrinterStays
  /\ UNCHANGED <<pc, left, cloudPlan, cloudState, missed, told, lossy, jobVars, sendFileVars,
                 setupVars>>

(* Mutant: what was missed is sent, and kept. *)
KeptMissed == missed
(* missed_job_events after _push_initial_state *)
MissedAfterPush == <<>>

(* The cloud says "connected". *)
CloudGreets ==
  /\ cloudLink = "open" /\ ~torn
  /\ cloudLink' = "up" /\ cloudState' = spState
  /\ told' = told \o missed /\ missed' = MissedAfterPush
  /\ PrinterStays
  /\ UNCHANGED <<pc, left, cloudPlan, torn, lossy, jobVars, sendFileVars, setupVars>>

WebsocketBreaks ==
  /\ cloudPlan = "jobs" /\ cloudLink # "down" /\ ~torn /\ Spends("failures")
  /\ torn' = TRUE
  /\ PrinterStays
  /\ UNCHANGED <<pc, cloudPlan, cloudLink, cloudState, missed, told, lossy, jobVars, sendFileVars,
                 setupVars>>

CloseRead ==
  /\ torn /\ cloudLink # "down"
  /\ cloudLink' = "down" /\ torn' = FALSE
  /\ PrinterStays
  /\ UNCHANGED <<pc, left, cloudPlan, cloudState, missed, told, lossy, jobVars, sendFileVars,
                 setupVars>>
-----------------------------------------------------------------------------
(* PrintHandler *)

KeepsTelling == UNCHANGED <<jobVars, tellVars>>

FileDemand(t) ==
  /\ cloudPlan = "files" /\ t \notin demanded /\ Spends("asks")
  /\ Goes(t, "downloading")
  /\ demanded' = demanded \cup {t} /\ autoStart' \in {autoStart, autoStart \cup {t}}
  /\ KeepsTelling /\ PrinterStays
  /\ UNCHANGED <<cloudPlan, pendingFile, timesStarted, setupVars>>

Downloaded(t) ==
  /\ pc[t] = "downloading"
  /\ \/ Goes(t, IF spState = "operational" /\ t \in autoStart THEN "printing" ELSE "storing")
        /\ UNCHANGED left
     \/ Goes(t, "idle") /\ Spends("failures")
  /\ KeepsTelling /\ PrinterStays
  /\ UNCHANGED <<cloudPlan, sendFileVars, setupVars>>

CountsStart(f) == timesStarted' = [timesStarted EXCEPT ![f] = @ + 1]

(* finalize_upload starts the print, if it was to and can *)
UploadFinal(t) ==
  /\ \/ /\ pc[t] = "printing" /\ cloudJob = "none"
        /\ PrintStarted([pc EXCEPT ![t] = "idle"])
        /\ CountsStart(t) /\ pendingFile' = None
     \/ /\ pc[t] = "storing" \/ (pc[t] = "printing" /\ cloudJob # "none")
        /\ Goes(t, IF t \in autoStart THEN "waiting" ELSE "checking")
        /\ pendingFile' = t
        /\ KeepsTelling /\ UNCHANGED timesStarted
  /\ PrinterStays
  /\ UNCHANGED <<left, cloudPlan, demanded, autoStart, setupVars>>

(* _check_can_print: "ready", or it waits until the printer is *)
CanPrintChecked(t) ==
  /\ pc[t] = "checking"
  /\ Goes(t, IF cloudJob = "none" THEN "idle" ELSE "waiting")
  /\ KeepsTelling /\ PrinterStays
  /\ UNCHANGED <<left, cloudPlan, sendFileVars, setupVars>>

(* Mutant: the file is pending until the print has started. *)
StillPending == pendingFile
(* What start_print leaves in pending_file before it awaits *)
AfterTaken == None

TakesPending(t) ==
  IF pendingFile = None THEN Goes(t, "idle") /\ UNCHANGED <<pendingFile, timesStarted>>
  ELSE /\ Goes(t, "starting")
       /\ CountsStart(pendingFile) /\ pendingFile' = AfterTaken

(* The wait is over, or times out, which forgets whatever is pending. *)
WaitsNoMore(t) ==
  /\ \/ /\ pc[t] = "woken"
        /\ IF t \in autoStart THEN TakesPending(t)
           ELSE Goes(t, "idle") /\ UNCHANGED <<pendingFile, timesStarted>>
     \/ pc[t] = "waiting" /\ Goes(t, "idle") /\ pendingFile' = None /\ UNCHANGED timesStarted
  /\ KeepsTelling /\ PrinterStays
  /\ UNCHANGED <<left, cloudPlan, demanded, autoStart, setupVars>>

StartDemand ==
  /\ cloudPlan = "files" /\ Idle("event") /\ spState = "operational" /\ Spends("asks")
  /\ TakesPending("event")
  /\ KeepsTelling /\ PrinterStays
  /\ UNCHANGED <<cloudPlan, demanded, autoStart, setupVars>>

(* Klippy starts it or refuses to *)
StartAnswered(t) ==
  /\ pc[t] = "starting"
  /\ IF cloudJob = "none" THEN PrintStarted([pc EXCEPT ![t] = "idle"])
     ELSE Goes(t, "idle") /\ KeepsTelling
  /\ PrinterStays
  /\ UNCHANGED <<left, cloudPlan, sendFileVars, setupVars>>
-----------------------------------------------------------------------------
(* _announce_setup, for a new token or a printer in setup, and *)
(* _remove_setup_announcement, when it is complete              *)
SetupMessage(t) ==
  /\ cloudPlan = "setup" /\ Idle(t) /\ Spends("asks")
  /\ Goes(t, "locking")
  /\ \E what \in ShortId \cup {"complete"} : setupWanted' = [setupWanted EXCEPT ![t] = what]
  /\ KeepsTelling /\ PrinterStays
  /\ UNCHANGED <<cloudPlan, sendFileVars, setupId, shownSetups, setupMutex>>

(* Mutant: there is no mutex. *)
NoMutex == TRUE
MutexFree == setupMutex = None

(* An announcement that is there is removed, which is awaited. *)
SetupTaken(t) ==
  /\ pc[t] = "locking" /\ MutexFree
  /\ LET complete == setupWanted[t] = "complete"
     IN  IF setupId = None
         THEN /\ Goes(t, "idle")
              /\ setupId' = IF complete THEN None ELSE setupWanted[t]
              /\ shownSetups' = (shownSetups \cup {setupId'}) \ {None}
              /\ UNCHANGED setupMutex
         ELSE IF setupId = setupWanted[t] THEN Goes(t, "idle") /\ UNCHANGED setupVars
         ELSE /\ Goes(t, "removing") /\ setupMutex' = t
              /\ shownSetups' = shownSetups \ {setupId}
              /\ setupId' = IF complete THEN None ELSE setupId
  /\ UNCHANGED setupWanted
  /\ KeepsTelling /\ PrinterStays
  /\ UNCHANGED <<left, cloudPlan, sendFileVars>>

SetupShown(t) ==
  /\ pc[t] = "removing"
  /\ Goes(t, "idle") /\ setupMutex' = None
  /\ IF setupWanted[t] = "complete" THEN UNCHANGED <<setupId, shownSetups>>
     ELSE setupId' = setupWanted[t] /\ shownSetups' = shownSetups \cup {setupId'}
  /\ UNCHANGED setupWanted
  /\ KeepsTelling /\ PrinterStays
  /\ UNCHANGED <<left, cloudPlan, sendFileVars>>
-----------------------------------------------------------------------------
CloudLinkSteps == CloudConnects \/ CloudGreets \/ CloseRead
CloudSteps(t) ==
  \/ PrintDemandDone(t)
  \/ Downloaded(t) \/ UploadFinal(t) \/ CanPrintChecked(t) \/ WaitsNoMore(t) \/ StartAnswered(t)
  \/ SetupTaken(t) \/ SetupShown(t)

SimplyPrintNext ==
  \/ JobChanges \/ CloudKlippyDrops \/ CloudKlippyReady \/ CloudLinkSteps \/ WebsocketBreaks
  \/ StartDemand \/ StartAnswered("event")
  \/ \E t \in Request : PrintDemand(t) \/ FileDemand(t) \/ SetupMessage(t) \/ CloudSteps(t)

SimplyPrintWorks(t) ==
  \/ t = "worker" /\ CloudLinkSteps
  \/ t = "event" /\ StartAnswered(t)
  \/ t \in Request /\ CloudSteps(t)

(* While its websocket holds, the cloud is told of each end of a job once and*)
(* after its start, missed or not; and of the state.                        *)
CloudKnowsJobs ==
  LET all == told \o missed
  IN  /\ ~lossy => \A i \in DOMAIN all : all[i] = "ended" => i > 1 /\ all[i - 1] # "ended"
      /\ cloudLink = "up" /\ ~torn => cloudState = spState

(* A file that was sent is started once, by whoever may start it.           *)
SentFileStartsOnce == \A f \in Request : timesStarted[f] <= 1

(* There is at most the setup announcement that will be removed.            *)
SetupShownOnce == setupMutex = None => shownSetups \subseteq {setupId}
=============================================================================
