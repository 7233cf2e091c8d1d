------------------------------- MODULE Firmware -------------------------------
(***************************************************************************)
(* firmware_build.py: one build, or build and flash, at a time; a driver   *)
(* process asks before it flashes, a request may cancel it.  And run and   *)
(* cancel of shell_command.py, by which that process lives and dies.       *)
(***************************************************************************)
EXTENDS Host

VARIABLES
  jobLock,    \* job_lock, job_active
  wish,       \* what a request wants built: "build" or "flash"
  action,     \* job_action
  approval,   \* flash_approval_file: none, without a decision, or the decision
  command,    \* current_cmd: there is one, cancelled, its process
  driver,     \* the process: "none", "building", "asking", "flashing", "gone"
  line,       \* its question has not been read
  signalled   \* it got a SIGTERM

processVars == <<driver, line, signalled>>
firmwareVars == <<jobLock, wish, action, approval, command, processVars>>

NoCommand == [there |-> FALSE, cancelled |-> FALSE, proc |-> FALSE]
NewCommand == [NoCommand EXCEPT !.there = TRUE]

FirmwareInit ==
  /\ jobLock = FALSE /\ action = "build" /\ approval = "none"
  /\ wish = [t \in Request |-> "build"]
  /\ command = NoCommand
  /\ driver = "none" /\ line = FALSE /\ signalled = FALSE

(* The lock is held by the task of the job and nobody else, a decision is of   *)
(* the job that asked for it, and without one nothing is flashed.               *)
FirmwareTypeOK ==
  /\ wish \in [Request -> {"build", "flash"}] /\ action \in {"build", "flash"}
  /\ jobLock <=> ~Idle("worker")
  /\ approval \in {"none", "open", "ok", "abort"}
  /\ (approval # "none") <=> (jobLock /\ action = "flash")
  /\ (driver # "none") <=> command.proc
  /\ driver \in {"none", "building", "asking", "flashing", "gone"}
  /\ driver = "flashing" => approval = "ok"
  /\ line \in BOOLEAN /\ signalled \in BOOLEAN
-----------------------------------------------------------------------------
(* _handle_build, _handle_build_and_flash: the targets are loaded by a thread. *)
AskBuild(t, what) ==
  /\ Idle(t) /\ Spends("asks")
  /\ Goes(t, "loading")
  /\ wish' = [wish EXCEPT ![t] = what]
  /\ PrinterStays
  /\ UNCHANGED <<jobLock, action, approval, command, processVars>>

(* Mutant: what fails before there is a task keeps the lock. *)
KeepsLock == UNCHANGED <<action, approval, command>> /\ jobLock' = TRUE
(* The except branch of _start_job *)
GivesUp == UNCHANGED <<jobLock, action, approval, command>>

StartsJob(t) ==
  /\ pc[t] = "loading"
  /\ IF (wish[t] = "flash" /\ printing) \/ jobLock
     THEN Goes(t, "idle") /\ UNCHANGED <<left, jobLock, action, approval, command>>
     ELSE \/ /\ pc' = [pc EXCEPT ![t] = "idle", !["worker"] = "created"]
             /\ jobLock' = TRUE /\ action' = wish[t] /\ command' = NewCommand
             /\ approval' = IF wish[t] = "flash" THEN "open" ELSE "none"
             /\ UNCHANGED left
          \/ Spends("failures") /\ Goes(t, "idle") /\ GivesUp
  /\ PrinterStays
  /\ UNCHANGED <<wish, processVars>>
-----------------------------------------------------------------------------
(* _run_job, ShellCommand.run *)

(* _reset_command_data: a cancellation up to here is forgotten. *)
RunBegins ==
  /\ pc["worker"] = "created"
  /\ Goes("worker", "spawning")
  /\ command' = NewCommand
  /\ PrinterStays
  /\ UNCHANGED <<left, jobLock, wish, action, approval, processVars>>

JobOver ==
  /\ Goes("worker", "idle")
  /\ jobLock' = FALSE /\ approval' = "none" /\ command' = NoCommand
  /\ driver' = "none" /\ line' = FALSE /\ signalled' = FALSE
  /\ PrinterStays
  /\ UNCHANGED <<wish, action>>

Spawned ==
  /\ pc["worker"] = "spawning"
  /\ \/ /\ Goes("worker", "running")
        /\ command' = [command EXCEPT !.proc = TRUE] /\ driver' = "building"
        /\ PrinterStays
        /\ UNCHANGED <<left, jobLock, wish, action, approval, line, signalled>>
     \/ Spends("failures") /\ JobOver

JobEnds == pc["worker"] = "running" /\ driver = "gone" /\ JobOver /\ UNCHANGED left

(* _handle_output: the decision, which may fail to be written *)
QuestionRead ==
  /\ line /\ line' = FALSE
  /\ \/ approval' = (IF printing THEN "abort" ELSE "ok") /\ UNCHANGED left
     \/ Spends("failures") /\ UNCHANGED approval
  /\ PrinterStays
  /\ UNCHANGED <<pc, jobLock, wish, action, command, driver, signalled>>
-----------------------------------------------------------------------------
(* The driver: it ends with its work or an error, at "abort", without a decision *)
(* after a while, and, when it can, at a SIGTERM.                                 *)
DriverRuns ==
  /\ \/ driver = "building" /\ action = "flash" /\ driver' = "asking" /\ line' = TRUE
     \/ driver = "asking" /\ approval = "ok" /\ driver' = "flashing" /\ UNCHANGED line
     \/ driver \in {"building", "asking", "flashing"} /\ driver' = "gone" /\ UNCHANGED line
  /\ PrinterStays
  /\ UNCHANGED <<pc, left, jobLock, wish, action, approval, command, signalled>>
-----------------------------------------------------------------------------
(* _handle_cancel; close, by which the stop of the server cancels what runs *)
Cancels(t) ==
  /\ Idle(t) /\ command.there
  /\ IF t = "event" THEN Spends("failures") /\ pc["worker"] \in {"spawning", "running"}
     ELSE Spends("asks")
  /\ command' = [command EXCEPT !.cancelled = TRUE]
  /\ IF command.cancelled \/ ~command.proc THEN UNCHANGED <<pc, signalled>>
     ELSE Goes(t, "terminating") /\ signalled' = TRUE
  /\ PrinterStays
  /\ UNCHANGED <<jobLock, wish, action, approval, driver, line>>

(* After two seconds it is killed. *)
Kills(t) ==
  /\ pc[t] = "terminating" /\ signalled
  /\ driver' = "gone"
  /\ PrinterStays
  /\ UNCHANGED <<pc, left, jobLock, wish, action, approval, command, line, signalled>>

Cancelled(t) ==
  /\ pc[t] = "terminating"
  /\ driver = "gone" \/ ~signalled
  /\ Goes(t, "idle")
  /\ PrinterStays
  /\ UNCHANGED <<left, jobLock, wish, action, approval, command, processVars>>

PrintBeginsOrEnds ==
  /\ Spends("changes")
  /\ printing' = ~printing
  /\ UNCHANGED <<component, klippy, pc, firmwareVars>>
-----------------------------------------------------------------------------
RunsJob == RunBegins \/ Spawned \/ JobEnds
EndsCancel(t) == Kills(t) \/ Cancelled(t)

FirmwareNext ==
  \/ \E t \in Request, what \in {"build", "flash"} : AskBuild(t, what)
  \/ \E t \in Request : StartsJob(t)
  \/ \E t \in Request \cup {"event"} : Cancels(t) \/ EndsCancel(t)
  \/ RunsJob \/ QuestionRead \/ DriverRuns \/ PrintBeginsOrEnds

FirmwareWorks(t) ==
  \/ t \in Request /\ StartsJob(t)
  \/ EndsCancel(t)
  \/ t = "worker" /\ RunsJob
  \/ t = "init" /\ DriverRuns
  \/ t = "timer" /\ QuestionRead
=============================================================================
