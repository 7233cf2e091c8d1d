------------------------------ MODULE History ------------------------------
(***************************************************************************)
(* history.py over the database: the current job, its row, the total of    *)
(* jobs, and request_lock.  Handlers of print events run as tasks and wait *)
(* for the lock; a handler that starts a job while one is current finishes *)
(* that one first and then queues for the lock again.                      *)
(***************************************************************************)
EXTENDS Database

VARIABLES
  events,            \* how many of those happened
  nextPrint,         \* how many prints were started
  reqLock,           \* request_lock: the owner, then the waiters
  current, currentId,
  total,             \* job_totals["total_jobs"]
  counted            \* history: how often a print was added to the total

jobVars == <<current, currentId, total, counted>>
eventVars == <<events, nextPrint>>
vars == <<databaseVars, eventVars, reqLock, jobVars>>

Endings == {"completed", "error", "cancelled"}
NoJob == [print |-> None, status |-> None]
Status == Endings \cup {"in_progress", "klippy_shutdown", "klippy_disconnect", "server_exit",
                        "interrupted"}
Row == [print : PrintNo, status : Status, boot : 1..MaxBoots]
Places == {"idle", "lock", "closing", "insert", "delete", "drop", "compact", "backup", "restore",
           "addRow", "addCommit", "finishRow", "finishCommit", "addTotal", "totalCommit", "undo",
           "deleteRows", "deleteCommit", "read", "resetDelete", "resetInsert", "resetCommit",
           "resetUndo", "count", "mark", "markCommit", "unmark", "stop"}
Content == [rows : UNION {[S -> Row] : S \in SUBSET Id}, total : Nat \cup {None}, unsafe : Nat,
            items : SUBSET Key]

TypeOK ==
  /\ life \in {"down", "boot", "up", "exit", "closing"} /\ boots \in 0..MaxBoots
  /\ budget \in Budgets
  /\ requests \in 0..budget.requests /\ failures \in 0..budget.failures /\ events \in 0..budget.events
  /\ pc \in [Tasks -> Places]
  /\ \A t \in Task : arg[t].print \in PrintNo \cup {None} /\ arg[t].id \in Id \cup {None}
  /\ commands \in Seq(Tasks) /\ reqLock \in Seq(Tasks) /\ backupLock \in Seq(Task)
  /\ view \in Content /\ disk \in Content /\ backup \in Content \cup {None}
  /\ {open, hung, listed, restored, marked, overwritten} \subseteq BOOLEAN
  /\ unsafeCount \in Nat /\ unclean \in Nat /\ total \in Nat
  /\ printing \in PrintNo \cup {None}
  /\ nextPrint \in 0..budget.prints
  /\ current \in [print : PrintNo, status : Status] \cup {NoJob}
  /\ currentId \in Id \cup {None}
  /\ counted \in [PrintNo -> Nat]

Init ==
  /\ budget \in Budgets
  /\ life = "down" /\ boots = 0 /\ requests = 0 /\ failures = 0 /\ events = 0
  /\ pc = [t \in Tasks |-> "idle"] /\ arg = [t \in Tasks |-> NoArg]
  /\ commands = <<>> /\ reqLock = <<>> /\ backupLock = <<>>
  /\ view = Empty /\ disk = Empty /\ open = FALSE
  /\ hung = FALSE /\ listed = FALSE /\ restored = FALSE /\ backup = None
  /\ unsafeCount = 0 /\ marked = FALSE /\ unclean = 0 /\ overwritten = FALSE
  /\ printing = None /\ nextPrint = 0
  /\ current = NoJob /\ currentId = None /\ total = 0
  /\ counted = [p \in PrintNo |-> 0]

(* What the steps of a task that waited for a command leave alone. *)
InCommand == UNCHANGED <<processVars, requests, hung, listed, archiveVars, shutdownVars, printing, eventVars>>
(* A statement may fail: nothing is executed and the task is told so. *)
Fails == failures < budget.failures /\ failures' = failures + 1 /\ UNCHANGED contentVars
Works(content) == Executes(content) /\ UNCHANGED failures
Succeeds == UNCHANGED failures

HoldsLock(t) == pc[t] = "lock" /\ reqLock # <<>> /\ Head(reqLock) = t
Release == reqLock' = Tail(reqLock)
RowOf(job) == [print |-> job.print, status |-> job.status, boot |-> boots]
(* REPLACE INTO the table: the row of the current job under id *)
WithRow(id) ==
  [view EXCEPT !.rows = [i \in DOMAIN view.rows \cup {id} |->
                           IF i = id THEN RowOf(current) ELSE view.rows[i]]]
NewId == IF DOMAIN view.rows = {} THEN 1
         ELSE 1 + CHOOSE i \in DOMAIN view.rows : \A j \in DOMAIN view.rows : i >= j
-----------------------------------------------------------------------------
(* Print events.  Each handler is a new task; then says what it does under the *)
(* lock: "add" a job, finish it ("end"), or finish it and then add ("replace") *)

ForJob(print, status, then) == [NoArg EXCEPT !.print = print, !.status = status, !.then = then]

Handler(a) ==
  /\ Serving
  /\ Begins("lock", a)
  /\ reqLock' = Append(reqLock, IdleTask)
  /\ UNCHANGED <<processVars, requests, failures, contentVars, hung, listed, archiveVars, shutdownVars,
                 jobVars>>

(* _on_job_state_changed, JobEvent.STARTED: from idle, or in place of a print *)
(* that was paused                                                            *)
PrintStarts ==
  /\ nextPrint < budget.prints
  /\ nextPrint' = nextPrint + 1 /\ printing' = nextPrint + 1
  /\ Handler(ForJob(nextPrint + 1, "cancelled", IF current = NoJob THEN "add" ELSE "replace"))
  /\ UNCHANGED events

(* COMPLETE, ERROR, CANCELLED *)
PrintEnds == \E s \in budget.endings :
  /\ printing # None
  /\ printing' = None
  /\ Handler(ForJob(printing, s, "end"))
  /\ UNCHANGED eventVars

(* _handle_shutdown: klippy_shutdown, the print's own event may follow; *)
(* _handle_disconnect: job_state sends no event for the print.          *)
KlippyLost == \E s \in {"klippy_shutdown", "klippy_disconnect"} :
  /\ events < budget.events /\ events' = events + 1
  /\ printing' = IF s = "klippy_disconnect" THEN None ELSE printing
  /\ Handler(ForJob(None, s, "end"))
  /\ UNCHANGED nextPrint
-----------------------------------------------------------------------------
(* add_job *)

AddBegins(t) ==
  /\ HoldsLock(t) /\ arg[t].then = "add"
  /\ current' = [print |-> arg[t].print, status |-> "in_progress"]
  /\ currentId' = None
  /\ Asks(t, "addRow")
  /\ UNCHANGED <<arg, reqLock, contentVars, failures, total, counted>> /\ InCommand

(* save_job: REPLACE of a row without an id takes a new one. *)
RowAdded(t) ==
  /\ Answered(t, "addRow")
  /\ \/ /\ NewId \in Id
        /\ Works(WithRow(NewId))
        /\ arg' = [arg EXCEPT ![t].id = NewId]
        /\ GoesOn(t, "addCommit")
     \/ Fails /\ GoesOn(t, "undo") /\ UNCHANGED arg
  /\ UNCHANGED <<reqLock, jobVars>> /\ InCommand

(* The transaction commits; the id is the job's from here on. *)
AddCommitted(t) ==
  /\ Answered(t, "addCommit")
  /\ Commits /\ Succeeds
  /\ currentId' = arg[t].id
  /\ Ends(t) /\ Release
  /\ UNCHANGED <<current, total, counted>> /\ InCommand

(* A failed transaction is rolled back; the handler ends with the exception. *)
Undone(t) ==
  /\ Answered(t, "undo")
  /\ RollsBack /\ Succeeds
  /\ IF t = Main THEN Leaves(t, "closing") /\ UNCHANGED arg ELSE Ends(t)
  /\ Release
  /\ UNCHANGED jobVars /\ InCommand
-----------------------------------------------------------------------------
(* finish_job *)

(* What follows finish_job in the task that called it: nothing, add_job, which *)
(* waits for the lock again, or, in on_exit, the end of the server.            *)
AfterFinish(t) ==
  \/ arg[t].then = "end" /\ pc' = [pc EXCEPT ![t] = "idle"] /\ arg' = [arg EXCEPT ![t] = NoArg]
     /\ Release
  \/ arg[t].then = "replace" /\ pc' = [pc EXCEPT ![t] = "lock"]
     /\ arg' = [arg EXCEPT ![t].then = "add"]
     /\ reqLock' = Append(Tail(reqLock), t)
  \/ arg[t].then = "close" /\ pc' = [pc EXCEPT ![t] = "closing"] /\ UNCHANGED arg
     /\ Release

Finishes(t) == HoldsLock(t) /\ arg[t].then \in {"end", "replace", "close"}

(* Mutant: the early return leaves the lock taken. *)
NothingToFinishLocked(t) ==
  /\ Finishes(t)
  /\ currentId = None
  /\ current' = NoJob /\ currentId' = None
  /\ pc' = [pc EXCEPT ![t] = "idle"] /\ arg' = [arg EXCEPT ![t] = NoArg]
  /\ UNCHANGED <<reqLock, commands, contentVars, failures, total, counted>> /\ InCommand

(* No job, or one that was never saved *)
NothingToFinish(t) ==
  /\ Finishes(t)
  /\ currentId = None
  /\ current' = NoJob /\ currentId' = None
  /\ AfterFinish(t)
  /\ UNCHANGED <<commands, contentVars, failures, total, counted>> /\ InCommand

FinishBegins(t) ==
  /\ Finishes(t)
  /\ currentId # None
  /\ current' = [current EXCEPT !.status = arg[t].status]
  /\ Asks(t, "finishRow")
  /\ UNCHANGED <<arg, reqLock, contentVars, failures, currentId, total, counted>> /\ InCommand

(* save_job: REPLACE puts the row back if it was deleted. *)
RowFinished(t) ==
  /\ Answered(t, "finishRow")
  /\ \/ /\ Works(WithRow(currentId))
        /\ GoesOn(t, "finishCommit")
     \/ Fails /\ GoesOn(t, "undo")
  /\ UNCHANGED <<arg, reqLock, jobVars>> /\ InCommand

(* _update_job_totals: counted in memory, then written *)
FinishCommitted(t) ==
  /\ Answered(t, "finishCommit")
  /\ Commits /\ Succeeds
  /\ total' = total + 1
  /\ counted' = [counted EXCEPT ![current.print] = @ + 1]
  /\ GoesOn(t, "addTotal")
  /\ UNCHANGED <<arg, reqLock, current, currentId>> /\ InCommand

TotalWritten(t) ==
  /\ Answered(t, "addTotal")
  /\ \/ Works([view EXCEPT !.total = total]) /\ GoesOn(t, "totalCommit")
     \/ Fails /\ GoesOn(t, "undo")
  /\ UNCHANGED <<arg, reqLock, jobVars>> /\ InCommand

(* Mutant: the job stays the current one. *)
TotalCommittedOnly(t) ==
  /\ Answered(t, "totalCommit")
  /\ Commits /\ Succeeds
  /\ AfterFinish(t)
  /\ commands' = Tail(commands)
  /\ UNCHANGED jobVars /\ InCommand

(* "finished" is sent and the job is no longer current. *)
TotalCommitted(t) ==
  /\ Answered(t, "totalCommit")
  /\ Commits /\ Succeeds
  /\ current' = NoJob /\ currentId' = None
  /\ AfterFinish(t)
  /\ commands' = Tail(commands)
  /\ UNCHANGED <<total, counted>> /\ InCommand
-----------------------------------------------------------------------------
(* Requests *)

Request(kind, place, a) ==
  /\ Requested(kind)
  /\ Begins(place, a)
  /\ reqLock' = IF place = "lock" THEN Append(reqLock, IdleTask) ELSE reqLock
  /\ UNCHANGED <<processVars, failures, contentVars, hung, listed, archiveVars, shutdownVars, printing,
                 eventVars>>

OnRow(id, then) == [NoArg EXCEPT !.id = id, !.then = then]

(* _handle_job_request: DELETE of one job or of all, of an id that is no *)
(* number, and the requests that read, _handle_jobs_list among them       *)
HistoryRequest ==
  /\ \/ \E i \in Id \cup {None} : Request("deleteRows", "lock", OnRow(i, "deleteRows"))
     \/ \E kind \in {"undo", "read"} : Request(kind, "lock", OnRow(None, kind))
  /\ UNCHANGED jobVars

RequestBegins(t) ==
  /\ HoldsLock(t) /\ arg[t].then \in {"deleteRows", "undo", "read"}
  /\ Asks(t, arg[t].then)
  /\ UNCHANGED <<arg, reqLock, contentVars, failures, jobVars>> /\ InCommand

RowsDeleted(t) ==
  /\ Answered(t, "deleteRows")
  /\ LET kept == IF arg[t].id = None THEN {} ELSE DOMAIN view.rows \ {arg[t].id}
     IN Works([view EXCEPT !.rows = [i \in kept |-> view.rows[i]]])
  /\ GoesOn(t, "deleteCommit")
  /\ UNCHANGED <<arg, reqLock, jobVars>> /\ InCommand

DeleteCommitted(t) ==
  /\ Answered(t, "deleteCommit")
  /\ Commits /\ Succeeds /\ Ends(t) /\ Release
  /\ UNCHANGED jobVars /\ InCommand

JobsRead(t) ==
  /\ Answered(t, "read")
  /\ Succeeds /\ Ends(t) /\ Release
  /\ UNCHANGED <<contentVars, jobVars>> /\ InCommand

(* Mutant: the total is set to what the table holds after the DELETE. *)
ResetTotalsToNothing ==
  /\ current = NoJob
  /\ Request("reset", "resetDelete", NoArg)
  /\ total' = None
  /\ UNCHANGED <<current, currentId, counted>>

(* _handle_job_total_reset: refused while a job is current, without the lock *)
ResetTotals ==
  /\ current = NoJob
  /\ Request("reset", "resetDelete", NoArg)
  /\ total' = 0
  /\ UNCHANGED <<current, currentId, counted>>

ResetDeleted(t) ==
  /\ Answered(t, "resetDelete")
  /\ Works([view EXCEPT !.total = None])
  /\ GoesOn(t, "resetInsert")
  /\ UNCHANGED <<arg, reqLock, jobVars>> /\ InCommand

(* INSERT finds the rows that somebody's rollback has brought back. *)
ResetInserted(t) ==
  /\ Answered(t, "resetInsert")
  /\ \/ /\ view.total = None
        /\ Works([view EXCEPT !.total = 0])
        /\ GoesOn(t, "resetCommit")
     \/ /\ view.total # None
        /\ Works(view)
        /\ GoesOn(t, "resetUndo")
  /\ UNCHANGED <<arg, reqLock, jobVars>> /\ InCommand

ResetEnds(t) ==
  /\ \/ Answered(t, "resetCommit") /\ Commits
     \/ Answered(t, "resetUndo") /\ RollsBack
  /\ Succeeds /\ Ends(t)
  /\ UNCHANGED <<reqLock, jobVars>> /\ InCommand
-----------------------------------------------------------------------------
(* The life of the process *)

(* component_init of the database: this life counts as unsafe until it is closed. *)
Counted ==
  /\ Answered(Main, "count")
  /\ CommitsAt([view EXCEPT !.unsafe = unsafeCount + 1])
  /\ marked' = TRUE
  /\ GoesOn(Main, "mark")
  /\ UNCHANGED <<processVars, requests, failures, arg, hung, listed, archiveVars, unsafeCount, unclean,
                 overwritten, printing, eventVars, reqLock, jobVars>>

(* Mutant: the update is not committed. *)
InterruptedUncommitted ==
  /\ Answered(Main, "mark")
  /\ total' = IF view.total = None THEN 0 ELSE view.total
  /\ Executes([view EXCEPT !.rows = [i \in DOMAIN @ |->
                 IF @[i].status = "in_progress" THEN [@[i] EXCEPT !.status = "interrupted"] ELSE @[i]]])
  /\ Leaves(Main, "idle") /\ life' = "up"
  /\ UNCHANGED <<boots, budget, requests, failures, arg, hung, listed, archiveVars, shutdownVars, printing,
                 eventVars, reqLock, current, currentId, counted>>

(* Mutant: whatever was not completed was interrupted. *)
InterruptedUnlessComplete ==
  /\ Answered(Main, "mark")
  /\ total' = IF view.total = None THEN 0 ELSE view.total
  /\ Executes([view EXCEPT !.rows = [i \in DOMAIN @ |->
                 IF @[i].status # "completed" THEN [@[i] EXCEPT !.status = "interrupted"] ELSE @[i]]])
  /\ GoesOn(Main, "markCommit")
  /\ UNCHANGED <<life, boots, budget, requests, failures, arg, hung, listed, archiveVars, shutdownVars,
                 printing, eventVars, reqLock, current, currentId, counted>>

(* component_init of the history: the totals, and jobs that were in progress *)
InterruptedMarked ==
  /\ Answered(Main, "mark")
  /\ total' = IF view.total = None THEN 0 ELSE view.total
  /\ LET running == {i \in DOMAIN view.rows : view.rows[i].status = "in_progress"}
     IN IF running = {}
        THEN Leaves(Main, "idle") /\ life' = "up" /\ UNCHANGED contentVars
        ELSE /\ Executes([view EXCEPT !.rows = [i \in DOMAIN @ |->
                            IF i \in running THEN [@[i] EXCEPT !.status = "interrupted"] ELSE @[i]]])
             /\ GoesOn(Main, "markCommit")
             /\ UNCHANGED life
  /\ UNCHANGED <<boots, budget, requests, failures, arg, hung, listed, archiveVars, shutdownVars, printing,
                 eventVars, reqLock, current, currentId, counted>>

MarkCommitted ==
  /\ Answered(Main, "markCommit")
  /\ Commits
  /\ Leaves(Main, "idle") /\ life' = "up"
  /\ UNCHANGED <<boots, budget, requests, failures, arg, hung, listed, archiveVars, shutdownVars, printing,
                 eventVars, reqLock, jobVars>>

(* _stop_server: on_exit finishes the current job. *)
Stop ==
  /\ life = "up"
  /\ life' = "exit"
  /\ IF current = NoJob
     THEN pc' = [pc EXCEPT ![Main] = "closing"] /\ UNCHANGED <<arg, reqLock>>
     ELSE /\ pc' = [pc EXCEPT ![Main] = "lock"]
          /\ arg' = [arg EXCEPT ![Main] = ForJob(None, "server_exit", "close")]
          /\ reqLock' = Append(reqLock, Main)
  /\ UNCHANGED <<boots, budget, requests, failures, commands, contentVars, hung, listed, archiveVars,
                 shutdownVars, printing, eventVars, jobVars>>

(* The process is gone with all that it kept in memory; an open transaction *)
(* is rolled back by whoever opens the file next.                           *)
ProcessGone ==
  /\ life' = "down"
  /\ pc' = [t \in Tasks |-> "idle"] /\ arg' = [t \in Tasks |-> NoArg]
  /\ commands' = <<>> /\ reqLock' = <<>> /\ backupLock' = <<>>
  /\ RollsBack
  /\ hung' = FALSE /\ listed' = FALSE /\ restored' = FALSE /\ unsafeCount' = 0
  /\ current' = NoJob /\ currentId' = None /\ total' = 0
  /\ marked' = FALSE
  /\ UNCHANGED <<boots, budget, requests, failures, backup, overwritten, printing, eventVars, counted>>

(* stop: the thread ends; commands behind this one are never taken. *)
Stopped == Answered(Main, "stop") /\ ProcessGone /\ UNCHANGED unclean

(* The process is killed or the host loses power. *)
Crash ==
  /\ life # "down" /\ boots < MaxBoots
  /\ ProcessGone
  /\ unclean' = IF marked THEN unclean + 1 ELSE unclean
-----------------------------------------------------------------------------
OfDatabase == UNCHANGED <<eventVars, reqLock, jobVars>>

Turn(t) ==
  \/ ItemInserted(t) /\ OfDatabase
  \/ ItemDeleted(t) /\ OfDatabase
  \/ NamespaceDropped(t) /\ OfDatabase
  \/ ArchiveBegins(t) /\ OfDatabase
  \/ Compacted(t) /\ OfDatabase
  \/ BackedUp(t) /\ OfDatabase
  \/ Restored(t) /\ OfDatabase
  \/ AddBegins(t) \/ RowAdded(t) \/ AddCommitted(t)
  \/ RequestBegins(t) \/ RowsDeleted(t) \/ DeleteCommitted(t) \/ JobsRead(t)
  \/ ResetDeleted(t) \/ ResetInserted(t) \/ ResetEnds(t)

Finishing(t) ==
  \/ NothingToFinish(t) \/ FinishBegins(t) \/ RowFinished(t) \/ FinishCommitted(t)
  \/ TotalWritten(t) \/ TotalCommitted(t) \/ Undone(t)

Starting == (Boot /\ OfDatabase) \/ Counted \/ InterruptedMarked \/ MarkCommitted
Closing == (CloseDatabase /\ OfDatabase) \/ (Unmarked /\ OfDatabase) \/ Stopped

Next ==
  \/ \E t \in Task : Turn(t)
  \/ \E t \in Tasks : Finishing(t)
  \/ Starting \/ Stop \/ Closing \/ Crash
  \/ PrintStarts \/ PrintEnds \/ KlippyLost
  \/ (PostItem \/ DeleteItem) /\ OfDatabase
  \/ \E place \in {"compact", "backup", "restore"} : RequestArchive(place) /\ OfDatabase
  \/ HistoryRequest \/ ResetTotals

Spec == Init /\ [][Next]_vars

(* The thread and the event loop go on while they can. *)
Fairness ==
  /\ \A t \in Task : WF_vars(Turn(t))
  /\ \A t \in Tasks : WF_vars(Finishing(t))
  /\ WF_vars(Closing)
FairSpec == Spec /\ Fairness
-----------------------------------------------------------------------------
(* A print is added to the totals at most once, whoever finishes its job -    *)
(* its own event, a shutdown, a lost connection, the next start, the exit -    *)
(* and in whatever order they come to the lock; unless a statement failed,    *)
(* which leaves the job current and counted.                                  *)
JobCountedOnce == failures = 0 => \A p \in PrintNo : counted[p] <= 1

(* A job that has ended in the history stays as it is until somebody deletes  *)
(* it or a backup is restored: no later event, no other job under the same    *)
(* id and no rollback changes it.                                             *)
FinishedRowsStay ==
  [][(failures = 0 /\ ~restored') =>
       \A i \in DOMAIN disk.rows \cap DOMAIN disk'.rows :
          disk.rows[i].status # "in_progress" => disk'.rows[i] = disk.rows[i]]_vars

(* Moonraker that has started has no job of an earlier life in progress,       *)
(* whenever that life was ended, until a backup is restored.                   *)
InterruptedFound ==
  (life \in {"up", "exit", "closing"} /\ ~restored) =>
    \A i \in DOMAIN disk.rows :
       disk.rows[i].status = "in_progress" => disk.rows[i].boot = boots

(* The count of unsafe shutdowns on the disk is the number of lives that       *)
(* ended without close(), and one more while a life has not closed; a restored *)
(* database keeps the count it came with, from which the lives after it count. *)
(* RestoredCountStays is about the restores for which this does not hold.      *)
UnsafeShutdownsCounted == ~overwritten => disk.unsafe = unclean + (IF marked THEN 1 ELSE 0)

(* A namespace with items is listed, however deletions, which are two          *)
(* commands, and insertions interleave; a restore may bring another one.       *)
NamespaceListed == (life # "down" /\ ~restored) => (view.items # {} => listed)

(* A request or handler that is under way comes to its end, whatever it waits  *)
(* for; unless Moonraker stops or the thread hangs in a backup.                *)
EveryTaskEnds == \A t \in Task : (pc[t] # "idle") ~> (pc[t] = "idle" \/ hung)

(* docs/external_api/database.md: the backup request creates a backup.  The    *)
(* command comes to an end.                                                    *)
BackupReturns == \A t \in Task : (pc[t] = "backup") ~> (pc[t] # "backup")

(* database.py:695, in close(): "Don't overwrite unsafe shutdowns on a          *)
(* restored database".  From a restore to the end of the life the count on the *)
(* disk is the one that came with the backup.                                  *)
RestoredCountStays == restored => disk.unsafe = unclean
=============================================================================
