------------------------------ MODULE JobQueue ------------------------------
(***************************************************************************)
(* The print queue of moonraker/components/job_queue.py: a set of          *)
(* coroutines on one event loop that share queue_state, pause_requested,   *)
(* the queued jobs and an asyncio.Lock.  A coroutine runs undisturbed      *)
(* between two awaits, so an action is the code from one await to the      *)
(* next.  The awaits are the lock, the print_stats query, the transition   *)
(* gcode, wait_started and the start request.                              *)
(***************************************************************************)
EXTENDS Naturals, Sequences, FiniteSets

CONSTANTS
  Caller,     \* tasks running an API request or an event handler
  Popper,     \* timers armed for _pop_job, and the tasks they become
  Job,        \* identities of queue entries (QueuedJob.job_id)
  None,       \* Python's None
  Configs     \* the values of the [job_queue] section to consider

ASSUME TasksDistinct == Caller \cap Popper = {} /\ None \notin Caller \cup Popper \cup Job
ASSUME ConfigsAssumption ==
  Configs \subseteq [automatic : BOOLEAN, gcode : BOOLEAN, loadOnStart : BOOLEAN]

VARIABLES
  config,          \* the options this server was started with
  keys, before,    \* queued_jobs: its entries, and <<a, b>> when a comes before b
  queueState,      \* queue_state
  pauseRequested,  \* pause_requested
  handle,          \* pop_queue_handle: the armed popper, or None
  lock,            \* self.lock: the owner, then the waiters in order of arrival
  pc,              \* where each task is suspended
  op,              \* what each task runs
  saved,           \* has_requested_pause of a shutdown handler
  picked,          \* uid of each running _pop_job
  printer,         \* what print_stats says: "idle", "busy" (printing or paused), "down"
  printing,        \* the queue entry Klipper is printing, or None
  jobActive,       \* job_state's last event is STARTED, RESUMED or PAUSED
  pausedMeanwhile  \* history: pause_queue was entered since the running pop was admitted

queueVars == <<keys, before>>
taskVars == <<lock, pc, op, saved, picked>>
stateVars == <<queueState, pauseRequested, handle>>
klippyVars == <<printer, printing, jobActive>>
vars == <<config, queueVars, taskVars, stateVars, klippyVars, pausedMeanwhile>>

Task == Caller \cup Popper
PopOps == {"pop", "popNoTransition"}
Requests == {"add", "delete", "jump", "pause", "start"}
Events == {"ready", "shutdown", "complete", "abort"}
Ops == {"none"} \cup PopOps \cup Requests \cup Events
QueueStates == {"paused", "ready", "loading", "starting"}

(* Suspension points.  Up to "wait" the task does not hold the lock. *)
Querying == {"query", "canPrint", "cannotPrint"}
Starting == {"start", "started", "lost"}
Critical == Querying \cup {"gcode"} \cup Starting
Loading(p) == pc[p] \in Querying \cup {"gcode"}
PCs == {"idle", "timer", "run", "wait"} \cup Critical

TypeOK ==
  /\ config \in Configs
  /\ keys \subseteq Job
  /\ before \subseteq Job \X Job
  /\ queueState \in QueueStates
  /\ pauseRequested \in BOOLEAN
  /\ handle \in Popper \cup {None}
  /\ lock \in Seq(Task)
  /\ pc \in [Task -> PCs]
  /\ op \in [Task -> Ops]
  /\ saved \in [Caller -> BOOLEAN]
  /\ picked \in [Popper -> Job \cup {None}]
  /\ printer \in {"idle", "busy", "down"}
  /\ printing \in Job \cup {None}
  /\ jobActive \in BOOLEAN
  /\ pausedMeanwhile \in BOOLEAN

Init ==
  /\ config \in Configs
  /\ keys = {} /\ before = {}
  /\ queueState = "paused"
  /\ pauseRequested = FALSE
  /\ handle = None
  /\ lock = <<>>
  /\ pc = [t \in Task |-> "idle"]
  /\ op = [t \in Task |-> "none"]
  /\ saved = [t \in Caller |-> FALSE]
  /\ picked = [p \in Popper |-> None]
  /\ printer = "down" /\ printing = None /\ jobActive = FALSE
  /\ pausedMeanwhile = FALSE

-----------------------------------------------------------------------------
(* asyncio.Lock.  A task that finds the lock free runs on without yielding; *)
(* otherwise it queues up, and the head of the queue is the next to run.    *)
(* An idle caller stands for a request that has just arrived: it runs its   *)
(* operation at once, up to its first await.                                *)

Arrives(t, o) ==
  \/ pc[t] = "idle" /\ o \in Requests
  \/ pc[t] = "run" /\ op[t] = o
Resumes(t, o) == pc[t] = "wait" /\ op[t] = o /\ lock # <<>> /\ Head(lock) = t
Enters(t, o) == (lock = <<>> /\ Arrives(t, o)) \/ Resumes(t, o)

Blocks(t, o) ==
  /\ Arrives(t, o)
  /\ lock # <<>>
  /\ lock' = Append(lock, t)
  /\ pc' = [pc EXCEPT ![t] = "wait"]
  /\ op' = [op EXCEPT ![t] = o]

Hold(t) == lock' = IF lock = <<>> THEN <<t>> ELSE lock
Release(t) == lock' = IF lock = <<>> THEN lock ELSE Tail(lock)

(* Leave the critical section and end the task. *)
Return(t) ==
  /\ Release(t)
  /\ pc' = [pc EXCEPT ![t] = "idle"]
  /\ op' = [op EXCEPT ![t] = "none"]

(* queued_jobs is a dict: in insertion order, keys unique. *)
Orders(S) == {r \in SUBSET (S \X S) :
                /\ \A a \in S : <<a, a>> \notin r
                /\ \A a, b \in S : a # b => (<<a, b>> \in r <=> <<b, a>> \notin r)
                /\ \A a, b, c \in S : <<a, b>> \in r /\ <<b, c>> \in r => <<a, c>> \in r}
IsFirst(j) == j \in keys /\ \A k \in keys \ {j} : <<j, k>> \in before
Discard(gone) == keys' = keys \ gone /\ before' = before \cap (keys' \X keys')

(* delay_callback(..., self._pop_job): a timer that becomes a task. *)
Arm(t, p, kind) ==
  /\ pc[p] = "idle"
  /\ queueState' = "loading"
  /\ handle' = p
  /\ Release(t)
  /\ pc' = [pc EXCEPT ![t] = "idle", ![p] = "timer"]
  /\ op' = [op EXCEPT ![t] = "none", ![p] = kind]

SameKlippy == UNCHANGED <<config, klippyVars>>
SameQueue == UNCHANGED queueVars

-----------------------------------------------------------------------------
(* Requests and event handlers.  Each starts as a task in "run"; one that    *)
(* finds the lock taken waits for it first.                                  *)

(* An event's handler becomes a task.  The number of callers bounds what is  *)
(* in flight; what may arm a timer is admitted only while a spare Popper is  *)
(* left for everything that may.                                             *)
MayArm == {"start", "ready", "complete"}
SpareTimer ==
  Cardinality({t \in Caller : pc[t] # "idle" /\ op[t] \in MayArm})
    < Cardinality({p \in Popper : pc[p] = "idle"})
Spawn(t, o) ==
  /\ pc[t] = "idle"
  /\ o \in MayArm => SpareTimer
  /\ pc' = [pc EXCEPT ![t] = "run"]
  /\ op' = [op EXCEPT ![t] = o]

Wait(t) ==
  /\ \E o \in (Requests \cup Events) \ {"pause", "shutdown"} :
        /\ Blocks(t, o)
        /\ pc[t] = "idle" /\ o \in MayArm => SpareTimer
  /\ UNCHANGED <<saved, picked, stateVars, pausedMeanwhile>>
  /\ SameQueue /\ SameKlippy

(* queue_job.  A file that does not exist raises before anything changes. *)
(* A new entry is told apart from the one being printed.                  *)
QueueJob(t) ==
  /\ Enters(t, "add")
  /\ \/ /\ \E reset \in BOOLEAN : \E new \in SUBSET (Job \ {printing}) : \E order \in Orders(new) :
             IF reset THEN keys' = new /\ before' = order
             ELSE /\ new \cap keys = {}
                  /\ keys' = keys \cup new
                  /\ before' = before \cup order \cup (keys \X new)
        /\ queueState' = IF config.automatic /\ ~pauseRequested /\ jobActive
                         THEN "ready" ELSE queueState
     \/ UNCHANGED <<queueVars, queueState>>
  /\ Return(t)
  /\ UNCHANGED <<saved, picked, pauseRequested, handle, pausedMeanwhile>>
  /\ SameKlippy

DeleteJob(t) ==
  /\ Enters(t, "delete")
  /\ \E gone \in SUBSET Job : Discard(gone)
  /\ Return(t)
  /\ UNCHANGED <<saved, picked, stateVars, pausedMeanwhile>>
  /\ SameKlippy

(* Mutant: the queue is reordered without the lock. *)
JumpUnlocked(t) ==
  /\ Arrives(t, "jump")
  /\ \E j \in keys : before' = (before \ (keys \X {j})) \cup ({j} \X (keys \ {j}))
  /\ UNCHANGED keys
  /\ UNCHANGED <<taskVars, stateVars, pausedMeanwhile>>
  /\ SameKlippy

(* _handle_jump; an unknown id is refused. *)
Jump(t) ==
  /\ Enters(t, "jump")
  /\ \/ \E j \in keys :
          before' = (before \ (keys \X {j})) \cup ({j} \X (keys \ {j}))
     \/ UNCHANGED before
  /\ UNCHANGED keys
  /\ Return(t)
  /\ UNCHANGED <<saved, picked, stateVars, pausedMeanwhile>>
  /\ SameKlippy

(* Mutant: the state is left for the owner of the lock to change. *)
PauseLater(t, o) ==
  /\ Arrives(t, o)
  /\ queueState' = IF lock = <<>> THEN "paused" ELSE queueState
  /\ pausedMeanwhile' = \E p \in Popper : Loading(p)
  /\ handle' = None
  /\ LET cancelled == {p \in Popper : p = handle /\ pc[p] = "timer"}
         ended == IF lock = <<>> THEN cancelled \cup {t} ELSE cancelled
     IN  /\ pc' = [u \in Task |-> IF u \in ended THEN "idle"
                                 ELSE IF u = t THEN "wait" ELSE pc[u]]
         /\ op' = [u \in Task |-> IF u \in ended THEN "none"
                                 ELSE IF u = t THEN o ELSE op[u]]
  /\ lock' = IF lock = <<>> THEN lock ELSE Append(lock, t)
  /\ UNCHANGED <<saved, pauseRequested, picked>>
  /\ SameQueue /\ SameKlippy

(* pause_queue up to its await: the state changes and the timer is cancelled *)
(* before the lock is asked for.  A timer that has fired is out of reach.    *)
PauseNow(t, o) ==
  /\ Arrives(t, o)
  /\ queueState' = "paused"
  /\ pausedMeanwhile' = \E p \in Popper : Loading(p)
  /\ handle' = None
  /\ LET cancelled == {p \in Popper : p = handle /\ pc[p] = "timer"}
         ended == IF lock = <<>> THEN cancelled \cup {t} ELSE cancelled
     IN  /\ pc' = [u \in Task |-> IF u \in ended THEN "idle"
                                 ELSE IF u = t THEN "wait" ELSE pc[u]]
         /\ op' = [u \in Task |-> IF u \in ended THEN "none"
                                 ELSE IF u = t THEN o ELSE op[u]]
  /\ IF lock = <<>>
     THEN /\ pauseRequested' = (o = "pause" \/ pauseRequested)
          /\ UNCHANGED <<lock, saved>>
     ELSE /\ lock' = Append(lock, t)
          /\ saved' = [saved EXCEPT ![t] = o = "shutdown" /\ pauseRequested]
          /\ UNCHANGED pauseRequested
  /\ UNCHANGED picked
  /\ SameQueue /\ SameKlippy

(* ... and once it has the lock.  _handle_shutdown puts back the flag it *)
(* read before it waited.                                                *)
PauseDone(t, o) ==
  /\ Resumes(t, o)
  /\ pauseRequested' = (o = "pause" \/ saved[t])
  /\ saved' = [saved EXCEPT ![t] = FALSE]
  /\ Return(t)
  /\ UNCHANGED <<picked, queueState, handle, pausedMeanwhile>>
  /\ SameQueue /\ SameKlippy

(* start_queue: pause_requested is cleared first; only a queue that is ready *)
(* or paused and holds a job asks Klippy whether it can print.               *)
StartQueue(t) ==
  /\ Enters(t, "start")
  /\ pc[t] = "idle" => SpareTimer
  /\ pauseRequested' = FALSE
  /\ IF queueState \in {"ready", "paused"} /\ keys # {}
     THEN /\ Hold(t)
          /\ pc' = [pc EXCEPT ![t] = "query"]
          /\ op' = [op EXCEPT ![t] = "start"]
          /\ UNCHANGED queueState
     ELSE /\ Return(t)
          /\ queueState' = IF queueState = "ready" THEN "paused" ELSE queueState
  /\ UNCHANGED <<saved, picked, handle, pausedMeanwhile>>
  /\ SameQueue /\ SameKlippy

StartQueueAnswered(t) ==
  /\ op[t] = "start"
  /\ \/ /\ pc[t] = "canPrint"
        /\ \E p \in Popper : Arm(t, p, "popNoTransition")
     \/ /\ pc[t] = "cannotPrint"
        /\ queueState' = IF config.automatic THEN "ready" ELSE "paused"
        /\ Return(t)
        /\ UNCHANGED handle
  /\ UNCHANGED <<saved, picked, pauseRequested, pausedMeanwhile>>
  /\ SameQueue /\ SameKlippy

(* _handle_ready, and _on_job_complete: load the next job. *)
LoadNext(t, o, wanted, kind) ==
  /\ Enters(t, o)
  /\ IF wanted
     THEN \E p \in Popper : Arm(t, p, kind)
     ELSE Return(t) /\ UNCHANGED <<queueState, handle>>
  /\ UNCHANGED <<saved, picked, pauseRequested, pausedMeanwhile>>
  /\ SameQueue /\ SameKlippy

HandleReady(t) ==
  LoadNext(t, "ready",
           config.loadOnStart /\ keys # {} /\ queueState \in {"ready", "paused"},
           "popNoTransition")

OnJobComplete(t) ==
  LoadNext(t, "complete", config.automatic /\ keys # {} /\ queueState = "ready", "pop")

OnJobAbort(t) ==
  /\ Enters(t, "abort")
  /\ queueState' = IF keys # {} THEN "paused" ELSE queueState
  /\ Return(t)
  /\ UNCHANGED <<saved, picked, pauseRequested, handle, pausedMeanwhile>>
  /\ SameQueue /\ SameKlippy

-----------------------------------------------------------------------------
(* _pop_job *)

TimerFires(p) ==
  /\ pc[p] = "timer"
  /\ pc' = [pc EXCEPT ![p] = "run"]
  /\ UNCHANGED <<lock, op, saved, picked, stateVars, pausedMeanwhile>>
  /\ SameQueue /\ SameKlippy

(* The handle is dropped before the lock is asked for. *)
PopWait(p) ==
  /\ Blocks(p, op[p])
  /\ handle' = None
  /\ UNCHANGED <<saved, picked, queueState, pauseRequested, pausedMeanwhile>>
  /\ SameQueue /\ SameKlippy

(* Mutant: a failed load is reported by a state of its own. *)
PopFailsToError(p) ==
  /\ queueState' = "error"
  /\ picked' = [picked EXCEPT ![p] = None]
  /\ pausedMeanwhile' = FALSE
  /\ Return(p)

(* A paused or empty queue ends it; otherwise the first job is picked and    *)
(* Klippy is asked whether it can print.                                     *)
PopAdmitted(p) ==
  /\ Enters(p, op[p])
  /\ handle' = IF pc[p] = "run" THEN None ELSE handle
  /\ IF queueState = "paused" \/ keys = {}
     THEN /\ queueState' = "paused"
          /\ Return(p)
          /\ UNCHANGED <<picked, pausedMeanwhile>>
     ELSE /\ \E j \in Job : IsFirst(j) /\ picked' = [picked EXCEPT ![p] = j]
          /\ Hold(p)
          /\ pc' = [pc EXCEPT ![p] = "query"]
          /\ pausedMeanwhile' = FALSE
          /\ UNCHANGED <<op, queueState>>
  /\ UNCHANGED <<saved, pauseRequested>>
  /\ SameQueue /\ SameKlippy

PopFails(p) ==
  /\ queueState' = "paused"
  /\ picked' = [picked EXCEPT ![p] = None]
  /\ pausedMeanwhile' = FALSE
  /\ Return(p)

PopStarts(p) ==
  /\ queueState' = "starting"
  /\ pc' = [pc EXCEPT ![p] = "start"]
  /\ UNCHANGED <<picked, lock, op, pausedMeanwhile>>

(* Mutant: the state is not looked at again. *)
NotRechecked == queueState # "ready"

(* The queue is looked at again after each await: a pause shows as a state *)
(* other than "loading".                                                   *)
StillLoading == queueState = "loading"

PopAnswered(p) ==
  /\ pc[p] \in {"canPrint", "cannotPrint"}
  /\ IF pc[p] = "cannotPrint" \/ ~StillLoading THEN PopFails(p)
     ELSE IF config.gcode /\ op[p] = "pop"
     THEN /\ pc' = [pc EXCEPT ![p] = "gcode"]
          /\ UNCHANGED <<queueState, picked, lock, op, pausedMeanwhile>>
     ELSE PopStarts(p)
  /\ UNCHANGED <<saved, pauseRequested, handle>>
  /\ SameQueue /\ SameKlippy

(* The transition gcode was run, or failed. *)
PopTransitioned(p) ==
  /\ pc[p] = "gcode"
  /\ IF StillLoading THEN PopFails(p) \/ (printer # "down" /\ PopStarts(p)) ELSE PopFails(p)
  /\ UNCHANGED <<saved, pauseRequested, handle>>
  /\ SameQueue /\ SameKlippy

(* Mutant: the entry is taken off only if nobody paused the start. *)
PopStartedKeepsPaused(p) ==
  /\ pc[p] = "started"
  /\ IF queueState = "starting" THEN Discard({picked[p]}) ELSE SameQueue
  /\ queueState' = IF queueState # "starting" THEN queueState
                   ELSE IF keys' # {} /\ config.automatic THEN "ready" ELSE "paused"
  /\ picked' = [picked EXCEPT ![p] = None]
  /\ Return(p)
  /\ UNCHANGED <<saved, pauseRequested, handle, pausedMeanwhile>>
  /\ SameKlippy

(* start_print waits for Klippy's connection task, whatever wait_started     *)
(* returns, and sends SDCARD_PRINT_FILE.  While Klippy is not ready the wait *)
(* may also end in TimeoutError (20 s) or in CancelledError (the connection  *)
(* is closed and its task cancelled): neither is a server.error, so nothing  *)
(* puts queue_state back.                                                    *)
PopWaitRaises(p) ==
  /\ pc[p] = "start" /\ printer = "down"
  /\ picked' = [picked EXCEPT ![p] = None]
  /\ Return(p)
  /\ UNCHANGED <<saved, stateVars, pausedMeanwhile>>
  /\ SameQueue /\ SameKlippy

PopStarted(p) ==
  /\ pc[p] = "started"
  /\ Discard({picked[p]})
  /\ queueState' = IF queueState # "starting" THEN queueState
                   ELSE IF keys' # {} /\ config.automatic THEN "ready" ELSE "paused"
  /\ picked' = [picked EXCEPT ![p] = None]
  /\ Return(p)
  /\ UNCHANGED <<saved, pauseRequested, handle, pausedMeanwhile>>
  /\ SameKlippy

(* Refused while printing, when the file is gone or Klippy is down; or the *)
(* print began and the connection was lost before the reply came.          *)
PopRefused(p) ==
  /\ pc[p] \in {"start", "lost"}
  /\ PopFails(p)
  /\ UNCHANGED <<saved, pauseRequested, handle>>
  /\ SameQueue /\ SameKlippy

PopJob(p) ==
  \/ PopWait(p) \/ PopAdmitted(p) \/ PopAnswered(p) \/ PopTransitioned(p)
  \/ PopWaitRaises(p) \/ PopStarted(p) \/ PopRefused(p)

-----------------------------------------------------------------------------
(* Klipper, as the queue sees it through klippy_apis and job_state.          *)

(* print_stats.state is neither printing nor paused, or the query failed. A  *)
(* Klippy that is down may still answer while it is shut down.               *)
CheckCanPrint(t) ==
  /\ pc[t] = "query"
  /\ \/ printer # "busy" /\ pc' = [pc EXCEPT ![t] = "canPrint"]
     \/ printer # "idle" /\ pc' = [pc EXCEPT ![t] = "cannotPrint"]
  /\ UNCHANGED <<lock, op, saved, picked, stateVars, pausedMeanwhile>>
  /\ SameQueue /\ SameKlippy

StartPrint(p) ==
  /\ pc[p] = "start"
  /\ printer = "idle"
  /\ printer' = "busy"
  /\ printing' = picked[p]
  /\ pc' = [pc EXCEPT ![p] = "started"]
  /\ UNCHANGED <<config, jobActive, lock, op, saved, picked, stateVars, pausedMeanwhile>>
  /\ SameQueue

SameTasks == UNCHANGED <<config, queueVars, lock, saved, picked, stateVars, pausedMeanwhile>>

(* A print begun at the printer or by another client, and the end of one. *)
PrintByOther ==
  /\ printer = "idle" /\ printer' = "busy"
  /\ UNCHANGED <<printing, jobActive, pc, op>> /\ SameTasks

PrintEnds ==
  /\ printer = "busy" /\ printer' = "idle"
  /\ printing' = None
  /\ UNCHANGED <<jobActive, pc, op>> /\ SameTasks

(* Klippy shuts down, with the event, or its connection is lost, without.    *)
(* A reply that was under way is lost either way.                            *)
KlippyDown ==
  /\ printer # "down"
  /\ printer' = "down"
  /\ printing' = None
  /\ LET lose(t) == IF pc[t] = "started" THEN "lost" ELSE pc[t]
     IN  \/ /\ pc' = [t \in Task |-> lose(t)]
            /\ UNCHANGED op
         \/ \E c \in Caller :
              /\ pc[c] = "idle"
              /\ pc' = [t \in Task |-> IF t = c THEN "run" ELSE lose(t)]
              /\ op' = [op EXCEPT ![c] = "shutdown"]
  /\ UNCHANGED jobActive /\ SameTasks

KlippyReady ==
  /\ printer = "down"
  /\ printer' = "idle"
  /\ \E t \in Caller : Spawn(t, "ready")
  /\ UNCHANGED <<printing, jobActive>> /\ SameTasks

(* job_state sees the change: a print that ended is COMPLETE, or was aborted; *)
(* _on_job_complete returns at once unless automatic_transition is set.  A    *)
(* lost connection sets ERROR without an event.                               *)
JobStateChanged ==
  /\ jobActive # (printer = "busy")
  /\ jobActive' = ~jobActive
  /\ \/ /\ jobActive
        /\ \E t \in Caller :
             \/ printer = "idle" /\ config.automatic /\ Spawn(t, "complete")
             \/ Spawn(t, "abort")
     \/ /\ jobActive => printer = "down" \/ ~config.automatic
        /\ UNCHANGED <<pc, op>>
  /\ UNCHANGED <<printer, printing>> /\ SameTasks

-----------------------------------------------------------------------------
CallerStep(t) ==
  \/ Wait(t) \/ QueueJob(t) \/ DeleteJob(t) \/ Jump(t)
  \/ \E o \in {"pause", "shutdown"} : PauseNow(t, o) \/ PauseDone(t, o)
  \/ StartQueue(t) \/ StartQueueAnswered(t)
  \/ HandleReady(t) \/ OnJobComplete(t) \/ OnJobAbort(t)

Next ==
  \/ \E t \in Caller : CallerStep(t) \/ CheckCanPrint(t)
  \/ \E p \in Popper : TimerFires(p) \/ PopJob(p) \/ CheckCanPrint(p) \/ StartPrint(p)
  \/ PrintByOther \/ PrintEnds \/ KlippyDown \/ KlippyReady \/ JobStateChanged

Spec == Init /\ [][Next]_vars
-----------------------------------------------------------------------------
(* Properties *)

(* A load that was paused never starts its print: once pause_queue has been  *)
(* entered, the pop under way finds at its next look (l.126, l.134) that the *)
(* state is not "loading", although a start, a resume or a job event may     *)
(* have come in the meantime and may be waiting to set it back.              *)
PausedLoadNeverStarts ==
  [][\A p \in Popper : Loading(p) /\ pausedMeanwhile => pc'[p] # "start"]_vars

(* "loading" is a promise that something will load: while the queue says so  *)
(* there is a timer or a task of _pop_job that is still going to look at it. *)
LoadingHasPop ==
  queueState = "loading" =>
    \E p \in Popper : pc[p] \in {"timer", "run", "wait"} \/ Loading(p)

(* The entry Klipper is printing has left the queue, or the reply that will *)
(* take it off has not been read yet: no edit of the queue, and no second   *)
(* pop, can leave it there to be printed again.                             *)
PrintedEntryLeaves ==
  printing # None =>
    \/ printing \notin keys
    \/ \E p \in Popper : picked[p] = printing /\ pc[p] = "started"

(* The lock, the awaits under it and the re-checks after them implement a    *)
(* queue whose head is handed over in peace (PrintQueue).                    *)
BeingLoaded ==
  IF \E p \in Popper : Loading(p) \/ pc[p] \in Starting
  THEN picked[CHOOSE p \in Popper : Loading(p) \/ pc[p] \in Starting] ELSE None
Abstract == INSTANCE PrintQueue WITH loading <- BeingLoaded
ImplementsPrintQueue == Abstract!Spec

(* docs/external_api/job_queue.md:271 says that a pause request sets the     *)
(* queue state to paused; here: whoever gets its answer finds it paused.     *)
PauseTakesEffect ==
  [][\A t \in Caller : op[t] = "pause" /\ pc[t] = "wait" /\ pc'[t] = "idle"
       => queueState' = "paused"]_vars
=============================================================================
