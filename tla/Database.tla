------------------------------ MODULE Database ------------------------------
(***************************************************************************)
(* database.py: one thread with one SQLite connection takes commands from  *)
(* a queue; a transaction of a task is several commands, and nothing keeps *)
(* the commands of others out of it.  The content is what the history      *)
(* keeps (rows of jobs, the total), the count of unsafe shutdowns, and one *)
(* namespace of items.  The event loop resumes tasks in the order in which *)
(* the thread answers them, so that running a command and resuming its     *)
(* task is one step.                                                       *)
(***************************************************************************)
EXTENDS Naturals, Sequences, TLC

CONSTANTS
  Task,         \* requests and event handlers
  Main,         \* the task that starts and stops the server
  None,         \* nothing
  Id,           \* row ids of the job table
  PrintNo,      \* prints, numbered
  Key,          \* keys of the namespace of items
  Budgets,      \* how many API requests, of which kinds, failing statements
                \* (disk full, file locked), prints and losses of Klippy a
                \* behaviour may have
  MaxBoots      \* lives of Moonraker

ASSUME DatabaseConstants ==
  /\ Main \notin Task
  /\ Id \subseteq Nat \ {0} /\ \A S \in (SUBSET Id) \ {{}} : \E i \in S : \A j \in S : i >= j
  /\ PrintNo \subseteq Nat \ {0} /\ \A p \in PrintNo : 1..p \subseteq PrintNo
  /\ None \notin Id \cup PrintNo \cup Key \cup Nat \cup {"add", "replace", "end", "close"}
  /\ MaxBoots \in Nat
  /\ Budgets \subseteq [requests : Nat, kinds : SUBSET STRING, failures : Nat, prints : PrintNo \cup {0},
                        endings : SUBSET {"completed", "error", "cancelled"}, events : Nat]

VARIABLES
  life,            \* "down", "boot", "up", "exit" (on_exit), "closing"
  boots,           \* how often Moonraker was started
  budget, requests, failures,
  pc,              \* where a task is: the command or the lock it waits for
  arg,             \* a task's print, id, status, key and what follows it
  commands,        \* command_queue: the tasks whose commands wait
  view, open,      \* what the connection sees; a transaction is open
  disk,            \* what is committed
  hung,            \* the thread is in a call that does not return
  listed,          \* the namespace is in _namespaces
  restored, backup,
  backupLock,
  unsafeCount,     \* unsafe_shutdowns
  printing,        \* the print Klipper works on, or none
  marked, unclean, \* history: this life is counted as unsafe; lives that were
  overwritten      \* history: a restored count was written over by close()

processVars == <<life, boots, budget>>
contentVars == <<view, open, disk>>
shutdownVars == <<unsafeCount, marked, unclean, overwritten>>
archiveVars == <<restored, backup, backupLock>>
databaseVars == <<processVars, requests, failures, pc, arg, commands, contentVars, hung,
                  listed, archiveVars, shutdownVars, printing>>

Tasks == Task \cup {Main}
Serving == life \in {"up", "exit"}
NoArg == [print |-> None, id |-> None, status |-> None, key |-> None, then |-> None]

(* What the database holds when it is created. *)
Empty == [rows |-> <<>>, total |-> None, unsafe |-> 0, items |-> {}]

Idle == {t \in Task : pc[t] = "idle"}
IdleTask == CHOOSE t \in Idle : TRUE

Requested(kind) ==
  /\ Serving
  /\ kind \in budget.kinds /\ requests < budget.requests
  /\ requests' = requests + 1

(* A new task runs up to its first await; a is what it carries. *)
Begins(place, a) ==
  /\ Idle # {}
  /\ pc' = [pc EXCEPT ![IdleTask] = place]
  /\ arg' = [arg EXCEPT ![IdleTask] = a]
  /\ commands' = IF place = "lock" THEN commands ELSE Append(commands, IdleTask)

(* execute_db_function of a task that is not waiting for a command *)
Asks(t, place) ==
  /\ pc' = [pc EXCEPT ![t] = place]
  /\ commands' = Append(commands, t)

(* run: the thread has taken t's command *)
Answered(t, place) == ~hung /\ commands # <<>> /\ Head(commands) = t /\ pc[t] = place

(* The task goes on to its next command, to wait for a lock, or ends. *)
GoesOn(t, place) ==
  /\ pc' = [pc EXCEPT ![t] = place]
  /\ commands' = Append(Tail(commands), t)
Leaves(t, place) ==
  /\ pc' = [pc EXCEPT ![t] = place]
  /\ commands' = Tail(commands)
Ends(t) ==
  /\ Leaves(t, "idle")
  /\ arg' = [arg EXCEPT ![t] = NoArg]

(* sql_execute, sql_executemany: an implicit BEGIN, no commit *)
Executes(content) == view' = content /\ open' = TRUE /\ UNCHANGED disk
(* sql_commit *)
Commits == disk' = view /\ open' = FALSE /\ UNCHANGED view
(* sql_rollback *)
RollsBack == view' = disk /\ open' = FALSE /\ UNCHANGED disk
(* `with conn:` commits whatever is open on the connection. *)
CommitsAt(content) == view' = content /\ disk' = content /\ open' = FALSE
-----------------------------------------------------------------------------
(* Items of a namespace: _handle_item_request *)

PostItem == \E k \in Key :
  /\ Requested("insert")
  /\ Begins("insert", [NoArg EXCEPT !.key = k])
  /\ UNCHANGED <<processVars, failures, contentVars, hung, listed, archiveVars, shutdownVars, printing>>

(* insert_item, _insert_record *)
ItemInserted(t) ==
  /\ Answered(t, "insert")
  /\ CommitsAt([view EXCEPT !.items = @ \cup {arg[t].key}])
  /\ listed' = TRUE
  /\ Ends(t)
  /\ UNCHANGED <<processVars, requests, failures, hung, archiveVars, shutdownVars, printing>>

DeleteItem == \E k \in Key :
  /\ Requested("delete")
  /\ Begins("delete", [NoArg EXCEPT !.key = k])
  /\ UNCHANGED <<processVars, failures, contentVars, hung, listed, archiveVars, shutdownVars, printing>>

(* delete_item; a key that is not there is an error *)
ItemDeleted(t) ==
  /\ Answered(t, "delete")
  /\ \/ /\ arg[t].key \notin view.items
        /\ Ends(t)
        /\ UNCHANGED contentVars
     \/ /\ arg[t].key \in view.items
        /\ CommitsAt([view EXCEPT !.items = @ \ {arg[t].key}])
        /\ GoesOn(t, "drop")
        /\ UNCHANGED arg
  /\ UNCHANGED <<processVars, requests, failures, hung, listed, archiveVars, shutdownVars, printing>>

(* Mutant: the namespace whose record was deleted is dropped unseen. *)
NamespaceDroppedUnseen(t) ==
  /\ Answered(t, "drop")
  /\ listed' = FALSE
  /\ Ends(t)
  /\ UNCHANGED <<processVars, requests, failures, contentVars, hung, archiveVars, shutdownVars, printing>>

(* drop_empty_namespace *)
NamespaceDropped(t) ==
  /\ Answered(t, "drop")
  /\ listed' = (listed /\ view.items # {})
  /\ Ends(t)
  /\ UNCHANGED <<processVars, requests, failures, contentVars, hung, archiveVars, shutdownVars, printing>>
-----------------------------------------------------------------------------
(* Compact, backup and restore, one at a time under backup_lock.  Compact and *)
(* restore ask whether Klipper prints before they wait for the lock.          *)

RequestArchive(place) ==
  /\ Requested(place)
  /\ place \in {"compact", "restore"} => printing = None
  /\ Begins("lock", [NoArg EXCEPT !.then = place])
  /\ backupLock' = Append(backupLock, IdleTask)
  /\ UNCHANGED <<processVars, failures, contentVars, hung, listed, restored, backup, shutdownVars,
                 printing>>

(* The lock is t's; a backup is refused while Klipper prints. *)
ArchiveBegins(t) ==
  /\ pc[t] = "lock" /\ arg[t].then \in {"compact", "backup", "restore"}
  /\ backupLock # <<>> /\ Head(backupLock) = t
  /\ \/ /\ arg[t].then = "backup" /\ printing # None
        /\ pc' = [pc EXCEPT ![t] = "idle"]
        /\ arg' = [arg EXCEPT ![t] = NoArg]
        /\ backupLock' = Tail(backupLock)
        /\ UNCHANGED commands
     \/ /\ ~(arg[t].then = "backup" /\ printing # None)
        /\ Asks(t, arg[t].then)
        /\ UNCHANGED <<arg, backupLock>>
  /\ UNCHANGED <<processVars, requests, failures, contentVars, hung, listed, restored, backup,
                 shutdownVars, printing>>

(* compact_database: VACUUM keeps the content, and fails in a transaction. *)
Compacted(t) ==
  /\ Answered(t, "compact")
  /\ Ends(t)
  /\ backupLock' = Tail(backupLock)
  /\ UNCHANGED <<processVars, requests, failures, contentVars, hung, listed, restored, backup,
                 shutdownVars, printing>>

(* backup_database: refused when restored.  While the connection itself has *)
(* a transaction open, sqlite3's backup() finds its source busy and tries   *)
(* again, in the thread that would have to run the commit.                  *)
BackedUp(t) ==
  /\ Answered(t, "backup")
  /\ \/ /\ ~restored /\ open
        /\ hung' = TRUE
        /\ UNCHANGED <<pc, arg, commands, backup, backupLock>>
     \/ /\ restored \/ ~open
        /\ backup' = IF restored THEN backup ELSE view
        /\ Ends(t)
        /\ backupLock' = Tail(backupLock)
        /\ UNCHANGED hung
  /\ UNCHANGED <<processVars, requests, failures, contentVars, listed, restored, shutdownVars, printing>>

(* restore_database: fails when there is no file, when it was done already, *)
(* and when the connection has a transaction open; else server.restart(.1)  *)
Restored(t) ==
  /\ Answered(t, "restore")
  /\ \/ /\ restored \/ open \/ backup = None
        /\ UNCHANGED <<contentVars, restored, marked, unclean, overwritten>>
     \/ /\ ~restored /\ ~open /\ backup # None
        /\ CommitsAt(backup)
        /\ restored' = TRUE
        /\ marked' = FALSE
        /\ unclean' = backup.unsafe
        /\ overwritten' = FALSE
  /\ Ends(t)
  /\ backupLock' = Tail(backupLock)
  /\ UNCHANGED <<processVars, requests, failures, hung, listed, backup, unsafeCount, printing>>
-----------------------------------------------------------------------------
(* The life of the process *)

(* __init__: unsafe_shutdowns is read; component_init starts the thread. *)
Boot ==
  /\ life = "down" /\ boots < MaxBoots
  /\ life' = "boot"
  /\ boots' = boots + 1
  /\ unsafeCount' = disk.unsafe
  /\ listed' = (disk.items # {})
  /\ pc' = [pc EXCEPT ![Main] = "count"]
  /\ commands' = <<Main>>
  /\ UNCHANGED <<budget, requests, failures, arg, contentVars, hung, archiveVars, marked, unclean, overwritten,
                 printing>>

(* close: what Main does after the other components were told to exit *)
CloseDatabase ==
  /\ pc[Main] = "closing"
  /\ life' = "closing"
  /\ Asks(Main, IF restored THEN "stop" ELSE "unmark")
  /\ UNCHANGED <<boots, budget, requests, failures, arg, contentVars, hung, listed, archiveVars, shutdownVars,
                 printing>>

(* Mutant: the count is written and not committed. *)
UnmarkedUncommitted ==
  /\ Answered(Main, "unmark")
  /\ Executes([view EXCEPT !.unsafe = unsafeCount])
  /\ marked' = FALSE
  /\ overwritten' = (overwritten \/ restored)
  /\ GoesOn(Main, "stop")
  /\ UNCHANGED <<processVars, requests, failures, arg, hung, listed, archiveVars, unsafeCount, unclean,
                 printing>>

(* The count is written as it was at the start: close() looked whether the   *)
(* database was restored, and a restore that was queued then came before.    *)
Unmarked ==
  /\ Answered(Main, "unmark")
  /\ CommitsAt([view EXCEPT !.unsafe = unsafeCount])
  /\ marked' = FALSE
  /\ overwritten' = (overwritten \/ restored)
  /\ GoesOn(Main, "stop")
  /\ UNCHANGED <<processVars, requests, failures, arg, hung, listed, archiveVars, unsafeCount, unclean,
                 printing>>
=============================================================================
