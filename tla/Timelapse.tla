------------------------------ MODULE Timelapse ------------------------------
(***************************************************************************)
(* timelapse.py: a directory of frames for each print, captured one at a   *)
(* time, rendered to a video when the print ends, on request, or when      *)
(* Klippy becomes ready and directories are left over; Moonraker may be    *)
(* killed in between.  All prints are of one gcode file.                   *)
(***************************************************************************)
EXTENDS Host

CONSTANTS MaxJobs  \* a bound

ASSUME TimelapseConstants == MaxJobs \in Nat

VARIABLES
  dirs,           \* tmp_dir, in the order of start_time: files by number, completed
  currentJob,     \* current_job
  lastState,      \* last_print_state: active or not
  listening,      \* Klippy sends updates of print_stats
  answer,         \* what the subscription found
  captureQueue,   \* capture_lock: its holder, and those who wait
  shot,           \* the capture under way, and whether its job is current_job still
  rendering,      \* render_running, with the directory and its frames
  leftOver,       \* the directories _recover_jobs has left, in the order of their names
  autoRenders,    \* the directory that _end_job wants rendered
  home, videos,   \* history: the directory of each frame that was captured; frames in videos
  overlapped      \* history: directories rendered, or taken up again, during a capture of them

captureVars == <<captureQueue, shot>>
renderVars == <<rendering, leftOver, autoRenders>>
frameVars == <<home, videos, overlapped>>
timelapseVars == <<dirs, currentJob, lastState, listening, answer, captureVars, renderVars, frameVars>>

Job == DOMAIN dirs
NoDir == [there |-> FALSE, completed |-> FALSE, files |-> <<>>]
NewDir == [NoDir EXCEPT !.there = TRUE]
NoShot == [dir |-> 0, number |-> 0, own |-> FALSE]
NoRender == [dir |-> 0, dupe |-> 0, frames |-> {}]
NoJobYet == [dir |-> 0, framecount |-> 0]

TimelapseInit ==
  /\ dirs = <<>> /\ currentJob = NoJobYet
  /\ lastState = FALSE /\ listening = TRUE /\ answer = FALSE
  /\ captureQueue = <<>> /\ shot = NoShot
  /\ rendering = NoRender /\ leftOver = {} /\ autoRenders = 0
  /\ home = <<>> /\ videos = {} /\ overlapped = {}

TimelapseTypeOK ==
  /\ Len(dirs) <= MaxJobs
  /\ \A d \in Job : /\ {dirs[d].there, dirs[d].completed} \subseteq BOOLEAN
                   /\ dirs[d].files \in [DOMAIN dirs[d].files -> DOMAIN home]
  /\ currentJob \in [dir : {0} \cup Job, framecount : Nat]
  /\ {lastState, listening, answer} \subseteq BOOLEAN
  /\ rendering.dir \in {0} \cup Job /\ rendering.frames \subseteq DOMAIN home
  /\ rendering.dir # 0 <=> (\E t \in Task : pc[t] = "rendering")
  /\ shot.dir # 0 <=> (\E t \in Task : pc[t] = "capturing")
  /\ videos \subseteq DOMAIN home /\ overlapped \subseteq Job

Exists(d) == d # 0 /\ dirs[d].there
(* _job_frames, by number *)
Frames(d) == IF Exists(d) THEN DOMAIN dirs[d].files ELSE {}

(* The files with number k written, or removed *)
WithFile(files, k, n) == [i \in DOMAIN files \cup {k} |-> IF i = k THEN n ELSE files[i]]
WithoutFile(files, k) == [i \in DOMAIN files \ {k} |-> files[i]]
-----------------------------------------------------------------------------
(* Jobs *)

(* Another current_job: a capture under way counts for the old one. *)
SetJob(job) ==
  /\ currentJob' = job
  /\ shot' = [shot EXCEPT !.own = FALSE]

(* _start_job: the directory of a job that never finished stays. *)
StartJob ==
  /\ Len(dirs) < MaxJobs
  /\ dirs' = Append(dirs, NewDir)
  /\ SetJob([dir |-> Len(dirs'), framecount |-> 0])

(* _end_job, by what autorender is set to at present *)
EndJob(autorender) ==
  /\ IF currentJob = NoJobYet THEN UNCHANGED <<pc, dirs, autoRenders>>
     ELSE IF autorender
     THEN Goes("timer", "render") /\ autoRenders' = currentJob.dir /\ UNCHANGED dirs
     ELSE /\ dirs' = IF Exists(currentJob.dir)
                     THEN [dirs EXCEPT ![currentJob.dir].completed = TRUE] ELSE dirs
          /\ UNCHANGED <<pc, autoRenders>>
  /\ SetJob(NoJobYet)

(* _handle_status_update, for a print that ends, or begins with its file's    *)
(* name or without                                                             *)
PrintStateChanges(named, autorender) ==
  /\ Spends("changes")
  /\ printing' = ~printing
  /\ IF ~listening \/ lastState = printing'
     THEN UNCHANGED <<pc, dirs, currentJob, shot, autoRenders, lastState>>
     ELSE /\ lastState' = printing'
          /\ IF printing THEN Idle("timer") /\ EndJob(autorender)
             ELSE IF named THEN StartJob /\ UNCHANGED <<pc, autoRenders>>
             ELSE /\ Goes("event", "querying")
                  /\ UNCHANGED <<dirs, currentJob, shot, autoRenders>>
  /\ UNCHANGED <<component, klippy, listening, answer, captureQueue, rendering, leftOver, frameVars>>

(* The name is known; the print may have ended meanwhile. *)
NameKnown ==
  /\ pc["event"] = "querying"
  /\ Goes("event", "idle")
  /\ StartJob
  /\ PrinterStays
  /\ UNCHANGED <<left, lastState, listening, answer, captureQueue, renderVars, frameVars>>
-----------------------------------------------------------------------------
(* klippy_ready *)

(* Klippy restarts, and queries fail; or Moonraker connects to it again. *)
ReadyAgain(restarts) ==
  /\ Idle("init")
  /\ Spends("changes")
  /\ pc' = [pc EXCEPT !["init"] = "subscribing", !["event"] = IF restarts THEN "idle" ELSE @]
  /\ printing' = (printing /\ ~restarts)
  /\ listening' = FALSE
  /\ UNCHANGED <<component, klippy, dirs, currentJob, lastState, answer, captureVars, renderVars,
                 frameVars>>

PrintStatsSubscribed ==
  /\ pc["init"] = "subscribing"
  /\ Goes("init", "subscribed")
  /\ listening' = TRUE /\ answer' = printing
  /\ PrinterStays
  /\ UNCHANGED <<left, dirs, currentJob, lastState, captureVars, renderVars, frameVars>>

(* The answer may be older than an update. *)
StateTaken ==
  /\ pc["init"] = "subscribed"
  /\ Goes("init", "reconciling")
  /\ lastState' = answer
  /\ PrinterStays
  /\ UNCHANGED <<left, dirs, currentJob, listening, answer, captureVars, renderVars, frameVars>>

LiveDirs == {d \in Job : printing /\ dirs[d].there /\ ~dirs[d].completed}

(* Mutant: frames of a job that goes on are counted anew. *)
CountedAnew(d) == 0
(* The frames there are *)
FrameCount(d) == Cardinality(Frames(d))

Met(d, other) == IF d = other THEN overlapped \cup {d} ELSE overlapped

(* _reconcile_tmp_dir: the live job with the latest start is taken up, where no *)
(* job is current.  The others are rendered, the directory of a job that is     *)
(* current already included.                                                    *)
Resumes(d) ==
  /\ currentJob = NoJobYet /\ d \in LiveDirs /\ \A e \in LiveDirs : e <= d
  /\ SetJob([dir |-> d, framecount |-> FrameCount(d)])
  /\ overlapped' = Met(d, shot.dir)

Reconciled ==
  /\ pc["init"] = "reconciling"
  /\ Idle("worker")
  /\ \/ \E d \in Job : Resumes(d)
     \/ (currentJob # NoJobYet \/ LiveDirs = {}) /\ UNCHANGED <<currentJob, shot, overlapped>>
  /\ leftOver' = {d \in Job : dirs[d].there /\ ~dirs[d].completed
                             /\ ~(currentJob = NoJobYet /\ d = currentJob'.dir)}
  /\ pc' = [pc EXCEPT !["init"] = "idle", !["worker"] = IF leftOver' = {} THEN "idle" ELSE "render"]
  /\ PrinterStays
  /\ UNCHANGED <<left, dirs, lastState, listening, answer, captureQueue, rendering, autoRenders,
                 home, videos>>
-----------------------------------------------------------------------------
(* Capturing *)

(* timelapse_newframe, after the delay *)
NewFrame(t) ==
  /\ Idle(t) /\ Spends("asks")
  /\ Goes(t, "waiting")
  /\ captureQueue' = Append(captureQueue, t)
  /\ PrinterStays
  /\ UNCHANGED <<dirs, currentJob, lastState, listening, answer, shot, renderVars, frameVars>>

EndsCapture(t) == Goes(t, "idle") /\ captureQueue' = Tail(captureQueue)

(* _capture_frame up to curl *)
BeginsCapture(t) ==
  /\ pc[t] = "waiting" /\ captureQueue[1] = t
  /\ IF currentJob = NoJobYet THEN EndsCapture(t) /\ UNCHANGED <<shot, overlapped>>
     ELSE /\ Goes(t, "capturing")
          /\ overlapped' = Met(currentJob.dir, rendering.dir)
          /\ shot' = [dir |-> currentJob.dir, number |-> currentJob.framecount + 1, own |-> TRUE]
          /\ UNCHANGED captureQueue
  /\ PrinterStays
  /\ UNCHANGED <<left, dirs, currentJob, lastState, listening, answer, renderVars, home, videos>>

Captured(t) ==
  /\ pc[t] = "capturing" /\ dirs[shot.dir].there
  /\ home' = Append(home, shot.dir)
  /\ dirs' = [dirs EXCEPT ![shot.dir].files = WithFile(@, shot.number, Len(home'))]
  /\ currentJob' = IF shot.own THEN [currentJob EXCEPT !.framecount = @ + 1] ELSE currentJob
  /\ shot' = NoShot
  /\ EndsCapture(t)
  /\ PrinterStays
  /\ UNCHANGED <<left, lastState, listening, answer, renderVars, videos, overlapped>>

(* Whatever bears the name of the frame is removed. *)
CaptureFails(t) ==
  /\ pc[t] = "capturing"
  /\ IF dirs[shot.dir].there
     THEN Spends("failures") /\ dirs' = [dirs EXCEPT ![shot.dir].files = WithoutFile(@, shot.number)]
     ELSE UNCHANGED <<left, dirs>>
  /\ shot' = NoShot
  /\ EndsCapture(t)
  /\ PrinterStays
  /\ UNCHANGED <<currentJob, lastState, listening, answer, renderVars, frameVars>>
-----------------------------------------------------------------------------
(* Rendering *)

(* _handle_render_request, timelapse_render: the current job's directory, or  *)
(* the one that changed last                                                    *)
AskRender(t, d) ==
  /\ Idle(t) /\ Exists(d)
  /\ currentJob # NoJobYet => d = currentJob.dir
  /\ Idle("timer")
  /\ Spends("asks")
  /\ Goes("timer", "render") /\ autoRenders' = d
  /\ PrinterStays
  /\ UNCHANGED <<dirs, currentJob, lastState, listening, answer, captureVars, rendering, leftOver, frameVars>>

RenderOf(t, d) ==
  IF t = "timer" THEN d = autoRenders ELSE d \in leftOver /\ \A e \in leftOver : d <= e

(* _recover_jobs goes on to its next directory. *)
EndsRender(t, d) ==
  /\ leftOver' = IF t = "worker" THEN leftOver \ {d} ELSE leftOver
  /\ autoRenders' = IF t = "timer" THEN 0 ELSE autoRenders
  /\ Goes(t, IF t = "worker" /\ leftOver' # {} THEN "render" ELSE "idle")

(* The last frame is copied to the number after it. *)
LastFrameCopied(d, last, dupe) ==
  /\ last \in Frames(d) /\ \A k \in Frames(d) : k <= last
  /\ dirs' = [dirs EXCEPT ![d].files = WithFile(@, dupe, dirs[d].files[last])]
  /\ rendering' = [dir |-> d, dupe |-> dupe, frames |-> {dirs[d].files[k] : k \in Frames(d)}]

(* _render_job up to ffmpeg: skipped when another one runs *)
BeginsRender(t, d) ==
  /\ pc[t] = "render" /\ RenderOf(t, d)
  /\ IF rendering # NoRender THEN EndsRender(t, d) /\ UNCHANGED <<dirs, rendering, overlapped>>
     ELSE IF Frames(d) = {}
     THEN EndsRender(t, d) /\ dirs' = [dirs EXCEPT ![d] = NoDir] /\ UNCHANGED <<rendering, overlapped>>
     ELSE /\ \E last \in Frames(d) : LastFrameCopied(d, last, Cardinality(Frames(d)) + 1)
          /\ Goes(t, "rendering")
          /\ overlapped' = Met(d, shot.dir)
          /\ UNCHANGED <<leftOver, autoRenders>>
  /\ PrinterStays
  /\ UNCHANGED <<left, currentJob, lastState, listening, answer, captureVars, home, videos>>

(* The directory goes when there is a video; the job is over, even if it prints. *)
Rendered(t) ==
  LET d == rendering.dir IN
  /\ pc[t] = "rendering"
  /\ videos' = videos \cup rendering.frames
  /\ dirs' = [dirs EXCEPT ![d] = NoDir]
  /\ IF currentJob.dir = d THEN SetJob(NoJobYet) ELSE UNCHANGED <<currentJob, shot>>
  /\ rendering' = NoRender
  /\ EndsRender(t, d)
  /\ PrinterStays
  /\ UNCHANGED <<left, lastState, listening, answer, captureQueue, home, overlapped>>

RenderFails(t) ==
  LET d == rendering.dir IN
  /\ pc[t] = "rendering"
  /\ Spends("failures")
  /\ dirs' = [dirs EXCEPT ![d].files = WithoutFile(@, rendering.dupe)]
  /\ IF currentJob.dir = d THEN SetJob(NoJobYet) ELSE UNCHANGED <<currentJob, shot>>
  /\ rendering' = NoRender
  /\ EndsRender(t, d)
  /\ PrinterStays
  /\ UNCHANGED <<lastState, listening, answer, captureQueue, frameVars>>

(* Moonraker is killed, and will find Klippy again. *)
TimelapseKilled ==
  /\ Spends("failures")
  /\ pc' = [t \in Task |-> "idle"]
  /\ currentJob' = NoJobYet /\ lastState' = FALSE /\ listening' = FALSE /\ answer' = FALSE
  /\ captureQueue' = <<>> /\ shot' = NoShot
  /\ rendering' = NoRender /\ leftOver' = {} /\ autoRenders' = 0
  /\ PrinterStays
  /\ UNCHANGED <<dirs, frameVars>>
-----------------------------------------------------------------------------
Captures(t) == t \in Request /\ (BeginsCapture(t) \/ Captured(t) \/ CaptureFails(t))
Renders(t) ==
  t \in {"timer", "worker"} /\ (Rendered(t) \/ RenderFails(t) \/ \E d \in Job : BeginsRender(t, d))
Recovers == PrintStatsSubscribed \/ StateTaken \/ Reconciled

TimelapseNext ==
  \/ \E b, autorender \in BOOLEAN : PrintStateChanges(b, autorender) \/ ReadyAgain(b)
  \/ NameKnown \/ Recovers \/ TimelapseKilled
  \/ \E t \in Request : NewFrame(t) \/ Captures(t) \/ \E d \in Job : AskRender(t, d)
  \/ \E t \in Task : Renders(t)

TimelapseWorks(t) ==
  \/ Captures(t) \/ Renders(t)
  \/ t = "event" /\ NameKnown
  \/ t = "init" /\ Recovers
-----------------------------------------------------------------------------
(* A frame that was captured is in a video or still on the disk, whatever is   *)
(* interrupted, fails or is taken up again; unless its directory was rendered  *)
(* during a capture, which takes the number of the duplicate and goes with the *)
(* directory, or was taken up again during one, which the count then misses    *)
(* (timelapse.py:250-288, :437-475, :558-567, :616-642).                        *)
FramesKept ==
  \A n \in DOMAIN home :
    home[n] \in overlapped \/ n \in videos \/ \E k \in Frames(home[n]) : dirs[home[n]].files[k] = n
=============================================================================
