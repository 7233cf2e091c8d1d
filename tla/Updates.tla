------------------------------ MODULE Updates ------------------------------
(***************************************************************************)
(* update_manager: requests that update, refresh, roll back or recover     *)
(* software take turns by cmd_request_lock; a git repository or a release  *)
(* from GitHub goes through download, dependencies, detection of its state *)
(* and restart, each of which may fail or be cut off by a crash.  What is  *)
(* known of an application is in memory and, when saved, in the database.  *)
(***************************************************************************)
EXTENDS Host

CONSTANTS
  Order,     \* applications, in the order of a full update
  IsGit,     \* those that are git repositories; the others are releases
  Managed,   \* managed_services of each
  LastVersion

App == {Order[i] : i \in DOMAIN Order}
Version == 0..LastVersion
MaybeVersion == Version \cup {None}

(* Klipper itself is always among the applications. *)
ASSUME UpdatesConstants ==
  /\ Order \in Seq(App) /\ "klipper" \in App
  /\ LastVersion \in Nat /\ None \notin Version

VARIABLES
  disk, remote,    \* the version installed, None for a broken one; the newest there is
  known, saved,    \* current, upstream, is_valid and rollback version; what the database has
  cmdQueue,        \* cmd_request_lock: its holder, and those who wait
  cmd,             \* what a task does, with the applications it has left
  updating,        \* cur_update_app, "full" for a full update
  pendingRestarts, \* pending_service_restarts
  identified,      \* klippy_identified_evt: "none", "clear", "set"
  refreshed,       \* initial_refresh_complete
  prior, settled   \* history: the version before the last update; where nothing failed since

repoVars == <<disk, remote, known, saved>>
historyVars == <<prior, settled>>
updateVars == <<repoVars, cmdQueue, cmd, updating, pendingRestarts, identified, refreshed,
                historyVars>>

Nothing == [cur |-> None, up |-> None, valid |-> FALSE, rb |-> None]
NoCmd == [what |-> "none", todo |-> <<>>, changed |-> FALSE]

UpdatesInit ==
  /\ disk = [a \in App |-> 0] /\ prior = [a \in App |-> 0]
  /\ remote = [a \in App |-> IF a \in IsGit THEN LastVersion ELSE 0]
  /\ known = [a \in App |-> [cur |-> 0, up |-> 0, valid |-> TRUE, rb |-> 0]]
  /\ saved = known
  /\ settled = App
  /\ cmdQueue = <<>> /\ cmd = [t \in Task |-> NoCmd]
  /\ updating = None /\ pendingRestarts = {} /\ identified = "none" /\ refreshed = FALSE

UpdatesTypeOK ==
  /\ {disk, prior} \subseteq [App -> MaybeVersion] /\ remote \in [App -> Version]
  /\ {known, saved} \subseteq
       [App -> [cur : MaybeVersion, up : MaybeVersion, valid : BOOLEAN, rb : MaybeVersion]]
  /\ updating \in App \cup {None, "full", "other"} /\ settled \subseteq App
  /\ pendingRestarts \subseteq UNION {Managed[a] : a \in App}
  /\ identified \in {"none", "clear", "set"} /\ refreshed \in BOOLEAN
  /\ \A t \in Task : (\E i \in DOMAIN cmdQueue : cmdQueue[i] = t) <=> ~Idle(t)
  /\ updating # None => cmdQueue # <<>>

Holder(t, place) == pc[t] = place /\ cmdQueue # <<>> /\ Head(cmdQueue) = t
Target(t) == Head(cmd[t].todo)
-----------------------------------------------------------------------------
(* Requests: what is looked at before the lock *)

Queues(t, what, todo) ==
  /\ Idle(t)
  /\ Goes(t, "waiting")
  /\ cmdQueue' = Append(cmdQueue, t)
  /\ cmd' = [cmd EXCEPT ![t] = [what |-> what, todo |-> todo, changed |-> FALSE]]
  /\ UNCHANGED <<repoVars, updating, pendingRestarts, refreshed, historyVars>>

(* _handle_update_request for one application *)
AskUpdate(t, a) ==
  /\ ~printing /\ updating \notin {a, "full"}
  /\ Spends("asks")
  /\ Queues(t, "update", <<a>>)
  /\ PrinterStays /\ UNCHANGED identified

(* _handle_full_update_request, whose own endpoint does not look at the print *)
AskFull(t) ==
  /\ Spends("asks")
  /\ Queues(t, "full", Order)
  /\ PrinterStays /\ UNCHANGED identified

(* _handle_refresh_request, and _handle_status_request with a refresh *)
AskRefresh(t) ==
  /\ updating = None /\ ~printing /\ refreshed
  /\ Spends("asks")
  /\ Queues(t, "refresh", Order)
  /\ PrinterStays /\ UNCHANGED identified

(* _handle_rollback *)
AskRollback(t, a) ==
  /\ ~printing
  /\ Spends("asks")
  /\ Queues(t, "rollback", <<a>>)
  /\ PrinterStays /\ UNCHANGED identified

(* _handle_repo_recovery, soft *)
AskRecovery(t, a) ==
  /\ ~printing /\ a \in IsGit
  /\ Spends("asks")
  /\ Queues(t, "recover", <<a>>)
  /\ PrinterStays /\ UNCHANGED identified

(* _handle_auto_refresh: the first one, and one within the window later *)
AutoRefresh ==
  /\ IF refreshed THEN ~printing /\ Spends("changes") ELSE UNCHANGED left
  /\ Queues("timer", "refresh", Order)
  /\ PrinterStays /\ UNCHANGED identified

(* _set_klipper_repo, for a Klippy that runs from where it did or elsewhere *)
KlippyIdentified(moved) ==
  /\ Spends("changes")
  /\ identified' = IF identified = "none" THEN "none" ELSE "set"
  /\ IF moved THEN Queues("worker", "replace", <<"klipper">>)
     ELSE UNCHANGED <<pc, cmdQueue, cmd, repoVars, updating, pendingRestarts, refreshed, historyVars>>
  /\ PrinterStays

PrintMeanwhile ==
  /\ ~printing
  /\ Spends("changes")
  /\ printing' = TRUE
  /\ UNCHANGED <<component, klippy, pc, updateVars>>

Released(a) ==
  /\ remote[a] < LastVersion
  /\ Spends("changes")
  /\ remote' = [remote EXCEPT ![a] = @ + 1]
  /\ PrinterStays
  /\ UNCHANGED <<pc, disk, known, saved, cmdQueue, cmd, updating, pendingRestarts, identified,
                 refreshed, historyVars>>
-----------------------------------------------------------------------------
(* Under the lock *)

(* set_update_info *)
Label(t) == CASE cmd[t].what = "update" -> Target(t)
              [] cmd[t].what = "full" -> "full"
              [] cmd[t].what \in {"rollback", "recover"} -> "other"
              [] OTHER -> None

(* The end of a command, done or failed: clear_update_info *)
Finishes(t) ==
  /\ Goes(t, "idle")
  /\ cmdQueue' = Tail(cmdQueue)
  /\ cmd' = [cmd EXCEPT ![t] = NoCmd]
  /\ updating' = None /\ pendingRestarts' = {}
  /\ refreshed' = (refreshed \/ t = "timer")

(* On to the next application; a full update waits for Klippy before that. *)
NextApp(t, changed) ==
  IF cmd[t].what = "full" /\ Target(t) = "klipper" /\ (changed \/ "klipper" \in pendingRestarts)
  THEN /\ Goes(t, "identify")
       /\ pendingRestarts' = pendingRestarts \ {"klipper"}
       /\ updating' = Label(t)
       /\ UNCHANGED <<cmdQueue, cmd, refreshed>>
  ELSE IF Len(cmd[t].todo) = 1 THEN Finishes(t)
  ELSE /\ Goes(t, "next")
       /\ cmd' = [cmd EXCEPT ![t].todo = Tail(@)]
       /\ updating' = Label(t)
       /\ UNCHANGED <<cmdQueue, pendingRestarts, refreshed>>

StartsWork(t, place) ==
  Goes(t, place) /\ updating' = Label(t) /\ UNCHANGED <<cmdQueue, cmd, pendingRestarts, refreshed>>

(* The lock is taken, or the next application is due; then GitDeploy.update,   *)
(* NetDeploy.update, rollback and recover up to the first wait.                *)
Starts(t) ==
  LET a == Target(t)
      k == known[a]
  IN /\ Holder(t, "waiting") \/ Holder(t, "next")
     /\ CASE cmd[t].what \in {"refresh", "replace"} -> StartsWork(t, "refresh")
          [] cmd[t].what = "recover" -> StartsWork(t, "pull")
          [] cmd[t].what = "rollback" ->
               IF k.rb \in {None, k.cur} \/ (a \notin IsGit /\ ~k.valid)
               THEN Finishes(t) ELSE StartsWork(t, "pull")
          [] OTHER ->
               IF ~k.valid THEN Finishes(t)
               ELSE IF k.cur = k.up THEN NextApp(t, FALSE)
               ELSE StartsWork(t, "pull")
     /\ IF cmd[t].what = "replace"
        THEN known' = [known EXCEPT ![a] = Nothing] /\ saved' = [saved EXCEPT ![a] = Nothing]
        ELSE UNCHANGED <<known, saved>>
     /\ identified' = IF cmd[t].what = "full" /\ a = "klipper" THEN "clear" ELSE identified
     /\ PrinterStays
     /\ UNCHANGED <<left, disk, remote, historyVars>>

(* The version that is to be installed: a pull takes what the remote has now. *)
Wanted(t) ==
  LET a == Target(t) IN
  CASE cmd[t].what = "rollback" -> known[a].rb
    [] cmd[t].what = "recover" -> IF known[a].cur # None THEN known[a].cur ELSE remote[a]
    [] OTHER -> IF a \in IsGit THEN remote[a] ELSE known[a].up

(* Mutant: what is given up by a rollback can be rolled back to. *)
AlwaysCurrent(t) == known[Target(t)].cur
(* set_rollback_state is for updates only. *)
RollbackState(t) ==
  IF cmd[t].what \in {"update", "full"} THEN known[Target(t)].cur ELSE known[Target(t)].rb

(* _pull_repo, GitRepo.rollback, reset; a release is downloaded and unpacked. *)
Pulled(t) ==
  LET a == Target(t)
      isUpdate == cmd[t].what \in {"update", "full"}
  IN /\ Holder(t, "pull")
     /\ disk' = [disk EXCEPT ![a] = Wanted(t)]
     /\ known' = IF a \in IsGit THEN [known EXCEPT ![a].rb = RollbackState(t)] ELSE known
     /\ prior' = IF isUpdate THEN [prior EXCEPT ![a] = disk[a]] ELSE prior
     /\ Goes(t, IF cmd[t].what = "recover" THEN "state" ELSE "deps")
     /\ PrinterStays
     /\ UNCHANGED <<left, remote, saved, cmdQueue, cmd, updating, pendingRestarts, identified,
                    refreshed, settled>>

(* A command that failed may have done its work, or a part of it: a release   *)
(* is removed before the new one is unpacked.                                  *)
PullFails(t) ==
  LET a == Target(t) IN
  /\ Holder(t, "pull")
  /\ Spends("failures")
  /\ disk' \in {disk, [disk EXCEPT ![a] = IF a \in IsGit THEN Wanted(t) ELSE None]}
  /\ \/ UNCHANGED <<known, saved>>
     \/ /\ a \in IsGit
        /\ known' = [known EXCEPT ![a].valid = FALSE]
        /\ saved' = [saved EXCEPT ![a] = known'[a]]
  /\ settled' = settled \ {a}
  /\ Finishes(t)
  /\ PrinterStays
  /\ UNCHANGED <<remote, identified, prior>>

(* _update_dependencies; then a release is validated and saved.  One that is  *)
(* not valid keeps the rollback version from before.                           *)
DepsDone(t) ==
  LET a == Target(t)
      checked(valid) == [known[a] EXCEPT !.cur = disk[a], !.valid = valid,
                                         !.rb = IF valid THEN RollbackState(t) ELSE @]
  IN /\ Holder(t, "deps")
     /\ \/ a \in IsGit /\ UNCHANGED <<left, known, settled>>
        \/ a \notin IsGit /\ known' = [known EXCEPT ![a] = checked(TRUE)] /\ UNCHANGED <<left, settled>>
        \/ /\ a \notin IsGit /\ Spends("failures")
           /\ known' = [known EXCEPT ![a] = checked(FALSE)] /\ settled' = settled \ {a}
     /\ IF a \in IsGit THEN UNCHANGED saved ELSE saved' = [saved EXCEPT ![a] = known'[a]]
     /\ Goes(t, IF a \in IsGit /\ cmd[t].what # "recover" THEN "state" ELSE "restart")
     /\ PrinterStays
     /\ UNCHANGED <<disk, remote, cmdQueue, cmd, updating, pendingRestarts, identified, refreshed,
                    prior>>

DepsFail(t) ==
  /\ Holder(t, "deps")
  /\ Spends("failures")
  /\ settled' = settled \ {Target(t)}
  /\ Finishes(t)
  /\ PrinterStays
  /\ UNCHANGED <<repoVars, identified, prior>>

(* What refresh_repo_state finds *)
Detected(a) == [known[a] EXCEPT !.cur = disk[a], !.up = remote[a], !.valid = TRUE,
                                !.rb = IF @ = None THEN disk[a] ELSE @]
Undetected(a) == [known[a] EXCEPT !.cur = None, !.up = None, !.valid = FALSE]

(* _update_repo_state after a change; a recovery forgets the rollback version *)
(* once the state is saved.                                                    *)
StateKnown(t) ==
  LET a == Target(t)
      recovers == cmd[t].what = "recover"
  IN /\ Holder(t, "state")
     /\ saved' = [saved EXCEPT ![a] = Detected(a)]
     /\ known' = [known EXCEPT ![a] = IF recovers THEN [Detected(a) EXCEPT !.rb = disk[a]]
                                      ELSE Detected(a)]
     /\ prior' = IF recovers THEN [prior EXCEPT ![a] = disk[a]] ELSE prior
     /\ settled' = IF recovers THEN settled \cup {a} ELSE settled
     /\ Goes(t, IF recovers THEN "deps" ELSE "restart")
     /\ PrinterStays
     /\ UNCHANGED <<left, disk, remote, cmdQueue, cmd, updating, pendingRestarts, identified, refreshed>>

StateUnknown(t) ==
  LET a == Target(t) IN
  /\ Holder(t, "state")
  /\ Spends("failures")
  /\ known' = [known EXCEPT ![a] = Undetected(a)]
  /\ saved' = [saved EXCEPT ![a] = Undetected(a)]
  /\ settled' = settled \ {a}
  /\ Finishes(t)
  /\ PrinterStays
  /\ UNCHANGED <<disk, remote, identified, prior>>

(* restart_service: in a full update the services of others wait. *)
Restarted(t) ==
  LET a == Target(t)
      later == IF cmd[t].what = "full" THEN Managed[a] \ {a} ELSE {}
  IN /\ Holder(t, "restart")
     /\ IF later = {} THEN NextApp(t, TRUE)
        ELSE IF Len(cmd[t].todo) = 1 THEN Finishes(t)
        ELSE /\ Goes(t, "next") /\ cmd' = [cmd EXCEPT ![t].todo = Tail(@)]
             /\ pendingRestarts' = pendingRestarts \cup later
             /\ UNCHANGED <<cmdQueue, updating, refreshed>>
     /\ PrinterStays
     /\ UNCHANGED <<left, repoVars, identified, historyVars>>

(* Klippy is back, or 120 seconds are over. *)
WaitIsOver == identified \in {"set", "clear"}

Waited(t) ==
  /\ Holder(t, "identify")
  /\ WaitIsOver
  /\ identified' = "none"
  /\ IF Len(cmd[t].todo) = 1 THEN Finishes(t)
     ELSE /\ Goes(t, "next")
          /\ cmd' = [cmd EXCEPT ![t].todo = Tail(@)]
          /\ UNCHANGED <<cmdQueue, updating, pendingRestarts, refreshed>>
  /\ PrinterStays
  /\ UNCHANGED <<left, repoVars, historyVars>>

(* What a refresh that fails leaves: of a release perhaps what it was. *)
Lost(a) == IF a \in IsGit THEN {Undetected(a)} ELSE {known[a], [known[a] EXCEPT !.valid = FALSE]}

(* refresh: a failure is logged, and saved. *)
RepoRefreshed(t) ==
  LET a == Target(t)
      found == IF disk[a] = None THEN [known[a] EXCEPT !.valid = FALSE, !.up = remote[a]]
               ELSE Detected(a)
  IN /\ Holder(t, "refresh")
     /\ \/ /\ known' = [known EXCEPT ![a] = found]
           /\ prior' = IF known[a].rb = None THEN [prior EXCEPT ![a] = disk[a]] ELSE prior
           /\ settled' = IF known[a].rb = None /\ disk[a] # None THEN settled \cup {a} ELSE settled
           /\ UNCHANGED left
        \/ /\ Spends("failures")
           /\ \E lost \in Lost(a) : known' = [known EXCEPT ![a] = lost]
           /\ settled' = IF known[a].rb = None THEN settled \ {a} ELSE settled
           /\ UNCHANGED prior
     /\ saved' = [saved EXCEPT ![a] = known'[a]]
     /\ NextApp(t, FALSE)
     /\ PrinterStays
     /\ UNCHANGED <<disk, remote, identified>>

(* Moonraker is killed and starts again; a pull may have got anywhere. *)
Crash ==
  LET busy == {a \in App : \E t \in Task : Holder(t, pc[t]) /\ a = Target(t)
                                           /\ pc[t] \in {"pull", "deps", "state", "refresh"}}
  IN /\ Spends("failures")
     /\ pc' = [t \in Task |-> "idle"]
     /\ \E t \in Task :
          disk' = IF Holder(t, "pull")
                  THEN [disk EXCEPT ![Target(t)] = IF @ = Wanted(t) \/ Target(t) \in IsGit
                                                   THEN Wanted(t) ELSE None]
                  ELSE disk
     /\ known' = saved
     /\ settled' = {a \in settled \ busy : saved[a].rb = known[a].rb}
     /\ cmdQueue' = <<>> /\ cmd' = [t \in Task |-> NoCmd]
     /\ updating' = None /\ pendingRestarts' = {} /\ identified' = "none" /\ refreshed' = FALSE
     /\ PrinterStays
     /\ UNCHANGED <<remote, saved, prior>>
-----------------------------------------------------------------------------
UpdateCommand(t) ==
  \/ Starts(t) \/ Pulled(t) \/ PullFails(t) \/ DepsDone(t) \/ DepsFail(t)
  \/ StateKnown(t) \/ StateUnknown(t) \/ Restarted(t) \/ Waited(t) \/ RepoRefreshed(t)

UpdatesNext ==
  \/ \E t \in Request, a \in App : AskUpdate(t, a) \/ AskRollback(t, a) \/ AskRecovery(t, a)
  \/ \E t \in Request : AskFull(t) \/ AskRefresh(t)
  \/ AutoRefresh \/ PrintMeanwhile \/ Crash
  \/ \E moved \in BOOLEAN : KlippyIdentified(moved)
  \/ \E a \in App : Released(a)
  \/ \E t \in Task : UpdateCommand(t)

UpdatesWorks(t) ==
  \/ UpdateCommand(t)
  \/ t = "timer" /\ ~refreshed /\ AutoRefresh
-----------------------------------------------------------------------------
(* When no command runs, the rollback version of an application is the one    *)
(* that was installed before its last update, unless a command on it failed   *)
(* or was cut off and it has not been recovered since.  (An update after a     *)
(* rollback, a recovery, a refresh or a full update, a Klippy that moves, a    *)
(* restart: git_deploy.py:163-188, :969-995, net_deploy.py:454-461.)           *)
RollbackIsPrevious ==
  cmdQueue = <<>> => \A a \in settled : known[a].rb = prior[a]
=============================================================================
