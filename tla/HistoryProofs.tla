--------------------------- MODULE HistoryProofs ---------------------------
(***************************************************************************)
(* What the history and the database keep, for any number of tasks,        *)
(* prints, rows, keys, lives and requests.  Everything rests on who holds   *)
(* request_lock: the commands of a transaction are under it, though others  *)
(* may commit or roll back what it has written so far.                      *)
(***************************************************************************)
EXTENDS History, TLAPS

Archive == {"compact", "backup", "restore"}
Then == Archive \cup {"add", "replace", "end", "close", "deleteRows", "undo", "read"}
Arg == [print : PrintNo \cup {None}, id : Id \cup {None}, status : Status \cup {None},
        key : Key \cup {None}, then : Then \cup {None}]
Job == [print : PrintNo, status : Status]

(* Places of a task under request_lock, and of these the ones in add_job and *)
(* in finish_job                                                             *)
Adding == {"addRow", "addCommit"}
Counting == {"addTotal", "totalCommit"}
FinishPlaces == {"finishRow", "finishCommit"} \cup Counting
Owned == Adding \cup FinishPlaces \cup {"undo", "deleteRows", "deleteCommit", "read"}

BudgetTypes ==
  /\ budget \in Budgets /\ boots \in 0..MaxBoots
  /\ requests \in 0..budget.requests /\ failures \in 0..budget.failures /\ events \in 0..budget.events
  /\ nextPrint \in 0..budget.prints
  /\ printing \in PrintNo \cup {None}

TaskTypes ==
  /\ pc \in [Tasks -> Places] /\ arg \in [Tasks -> Arg]
  /\ commands \in Seq(Tasks) /\ reqLock \in Seq(Tasks) /\ backupLock \in Seq(Task)

ContentTypes ==
  /\ view \in Content /\ disk \in Content /\ backup \in Content \cup {None}
  /\ open \in BOOLEAN /\ hung \in BOOLEAN /\ listed \in BOOLEAN
  /\ restored \in BOOLEAN /\ marked \in BOOLEAN /\ overwritten \in BOOLEAN
  /\ unsafeCount \in Nat /\ unclean \in Nat

JobTypes ==
  /\ total \in Nat /\ counted \in [PrintNo -> Nat]
  /\ current \in Job \cup {NoJob} /\ currentId \in Id \cup {None}

ArgOK == \A t \in Tasks :
  /\ arg[t].then \in {"add", "replace"} => arg[t].print \in PrintNo
  /\ arg[t].then \in {"end", "replace", "close"} => arg[t].status \in Status
  /\ pc[t] = "insert" => arg[t].key \in Key

(* Whoever is at a place under a lock is the first of those who wait for it. *)
LockOK ==
  /\ \A t \in Tasks : pc[t] \in Owned => reqLock # <<>> /\ Head(reqLock) = t
  /\ \A t \in Task : pc[t] \in Archive => backupLock # <<>> /\ Head(backupLock) = t

(* There is a job where one is written, and none before Moonraker has started. *)
CurrentOK ==
  /\ currentId # None => current # NoJob
  /\ \A t \in Tasks : pc[t] \in Adding =>
       current # NoJob /\ current.status = "in_progress" /\ currentId = None
  /\ \A t \in Tasks : pc[t] \in FinishPlaces => currentId # None
  /\ life \in {"down", "boot"} => currentId = None

(* Where the starting and stopping task is, and that there are no others *)
(* before Moonraker has started.                                         *)
MainOK ==
  /\ life \in {"down", "boot", "up", "exit", "closing"}
  /\ life \in {"down", "up"} => pc[Main] = "idle"
  /\ life = "boot" => pc[Main] \in {"count", "mark", "markCommit"}
  /\ life = "exit" =>
       \/ pc[Main] = "closing"
       \/ pc[Main] \in FinishPlaces \cup {"lock", "undo"} /\ arg[Main].then = "close"
  /\ life = "closing" => pc[Main] \in {"unmark", "stop"}
  /\ life \in {"down", "boot"} => \A t \in Task : pc[t] = "idle"
  /\ life # "down" => boots > 0

Types == BudgetTypes /\ TaskTypes /\ ContentTypes /\ JobTypes /\ ArgOK /\ LockOK /\ CurrentOK /\ MainOK

(* What is not part of a transaction of several commands is on the disk. *)
UnsafeInv ==
  /\ view.unsafe = disk.unsafe
  /\ UnsafeShutdownsCounted
  /\ life \in {"down", "boot"} => ~restored
  /\ life = "down" \/ restored \/ pc[Main] \in {"count", "stop"} => ~marked
  /\ life # "down" /\ ~restored /\ ~overwritten => unsafeCount = unclean

ItemsInv == view.items = disk.items /\ NamespaceListed

(* The rows that were left in progress, while they are looked for and after *)
Running(rows) == {i \in DOMAIN rows : rows[i].status = "in_progress"}
OfThisLife(rows) == \A i \in Running(rows) : rows[i].boot = boots
InterruptedInv ==
  /\ pc[Main] \in {"count", "mark"} \/ life = "down" => view = disk
  /\ pc[Main] = "markCommit" => Running(view.rows) = {}
  /\ life \in {"up", "exit", "closing"} /\ ~restored => OfThisLife(view.rows) /\ OfThisLife(disk.rows)

(* A task that will make its print the current job.  Its print is its own *)
(* and was not counted.                                                   *)
Pending(t) == arg[t].then \in {"add", "replace"} /\ pc[t] \in {"lock"} \cup FinishPlaces
Uncounted ==
  /\ \A p \in PrintNo : counted[p] <= 1 /\ (p > nextPrint => counted[p] = 0)
  /\ current # NoJob => current.print <= nextPrint
  /\ current # NoJob /\ (\A t \in Tasks : pc[t] \notin Counting) => counted[current.print] = 0
  /\ \A t \in Tasks : Pending(t) =>
       /\ arg[t].print \in 1..nextPrint /\ counted[arg[t].print] = 0
       /\ arg[t].print # current.print
  /\ \A t, u \in Tasks : Pending(t) /\ Pending(u) /\ arg[t].print = arg[u].print => t = u
CountedInv == failures = 0 => Uncounted

(* A row that is finished on the disk is what is seen; rows are missing from *)
(* what is seen only while a deletion waits for its commit; the row of the   *)
(* current job is in progress until it is finished.                          *)
RowOpen(i) ==
  /\ i \in DOMAIN view.rows => view.rows[i].status = "in_progress"
  /\ i \in DOMAIN disk.rows => disk.rows[i].status = "in_progress"
RowsKept ==
  /\ \A i \in DOMAIN disk.rows \cap DOMAIN view.rows :
       disk.rows[i].status # "in_progress" => view.rows[i] = disk.rows[i]
  /\ (\A t \in Tasks : pc[t] # "deleteCommit") => DOMAIN disk.rows \subseteq DOMAIN view.rows
  /\ \A t \in Tasks : pc[t] = "addCommit" => RowOpen(arg[t].id)
  /\ currentId # None /\ (\A t \in Tasks : pc[t] \notin {"finishCommit"} \cup Counting) =>
       RowOpen(currentId)
RowsInv == failures = 0 /\ ~restored => RowsKept

IInv == Types /\ UnsafeInv /\ ItemsInv /\ InterruptedInv /\ CountedInv /\ RowsInv
-----------------------------------------------------------------------------
(* Sequences of tasks *)

LEMMA AppendHead ==
  ASSUME NEW S, NEW q \in Seq(S), NEW x \in S
  PROVE  /\ Append(q, x) \in Seq(S)
         /\ q # <<>> => Append(q, x) # <<>> /\ Head(Append(q, x)) = Head(q)
OBVIOUS

LEMMA TailType ==
  ASSUME NEW S, NEW q \in Seq(S), q # <<>>
  PROVE  Tail(q) \in Seq(S)
OBVIOUS

LEMMA BudgetFacts ==
  ASSUME NEW b \in Budgets
  PROVE  /\ b.requests \in Nat /\ b.failures \in Nat /\ b.events \in Nat
         /\ b.prints \in PrintNo \cup {0} /\ b.prints \in Nat
         /\ b.endings \subseteq Endings
<1>1. b \in [requests : Nat, kinds : SUBSET STRING, failures : Nat, prints : PrintNo \cup {0},
             endings : SUBSET {"completed", "error", "cancelled"}, events : Nat]
  BY DatabaseConstants
<1>2. PrintNo \subseteq Nat
  BY DatabaseConstants
<1>3. b.requests \in Nat /\ b.failures \in Nat /\ b.events \in Nat
  BY <1>1
<1>4. b.prints \in PrintNo \cup {0}
  BY <1>1
<1>6. b.prints \in Nat
  <2>1. \A x \in PrintNo \cup {0} : x \in Nat
    BY <1>2
  <2> QED BY <1>4, <2>1, Zenon
<1>5. b.endings \subseteq {"completed", "error", "cancelled"}
  BY <1>1
<1> QED BY <1>3, <1>4, <1>5, <1>6 DEF Endings
-----------------------------------------------------------------------------
(* Tasks that begin *)

BeginsTask(t, place, a) ==
  /\ Serving /\ t \in Task /\ pc[t] = "idle"
  /\ place \in {"lock", "insert", "delete", "resetDelete"} /\ a \in Arg
  /\ pc' = [pc EXCEPT ![t] = place] /\ arg' = [arg EXCEPT ![t] = a]
  /\ commands' \in {commands, Append(commands, t)}
  /\ reqLock' \in {reqLock, Append(reqLock, t)}
  /\ backupLock' \in {backupLock, Append(backupLock, t)}
  /\ UNCHANGED <<processVars, failures, contentVars, hung, listed, restored, backup, shutdownVars,
                 current, currentId, counted>>
  /\ total' \in {total, 0}
  /\ IF a.then \in {"add", "replace"}
     THEN a.print = nextPrint + 1 /\ nextPrint' = nextPrint + 1
     ELSE nextPrint' = nextPrint
  /\ a.then \in {"add", "replace"} => a.print \in PrintNo
  /\ a.then \in {"end", "replace", "close"} => a.status \in Status
  /\ place = "insert" => a.key \in Key

NewTask ==
  \/ (PostItem \/ DeleteItem \/ \E place \in Archive : RequestArchive(place)) /\ OfDatabase
  \/ HistoryRequest \/ ResetTotals \/ PrintStarts \/ PrintEnds \/ KlippyLost

LEMMA IdleFacts ==
  ASSUME Idle # {}
  PROVE  IdleTask \in Task /\ pc[IdleTask] = "idle"
BY DEF Idle, IdleTask

LEMMA NoArgType == NoArg \in Arg
BY DEF NoArg, Arg

LEMMA ForJobType ==
  ASSUME NEW p \in PrintNo \cup {None}, NEW s \in Status, NEW then \in Then
  PROVE  /\ ForJob(p, s, then) \in Arg /\ ForJob(p, s, then).print = p
         /\ ForJob(p, s, then).status = s /\ ForJob(p, s, then).then = then
BY DEF ForJob, NoArg, Arg

LEMMA NextPrintType ==
  ASSUME BudgetTypes, nextPrint < budget.prints
  PROVE  nextPrint + 1 \in PrintNo /\ nextPrint + 1 \in 0..budget.prints
<1>1. budget.prints \in Nat /\ budget.prints \in PrintNo \cup {0} /\ nextPrint \in Nat
  BY BudgetFacts DEF BudgetTypes
<1>2. budget.prints \in PrintNo
  BY <1>1
<1>3. 1..budget.prints \subseteq PrintNo
  BY <1>2, DatabaseConstants
<1> QED BY <1>1, <1>3

LEMMA ItemBegins ==
  ASSUME Types, PostItem \/ DeleteItem, UNCHANGED <<eventVars, reqLock, jobVars>>
  PROVE  BudgetTypes' /\ \E t, place, a : BeginsTask(t, place, a)
<1>1. PICK k \in Key, place \in {"insert", "delete"} :
        /\ Requested(place) /\ Begins(place, [NoArg EXCEPT !.key = k])
        /\ UNCHANGED <<processVars, failures, contentVars, hung, listed, archiveVars, shutdownVars,
                       printing>>
  BY DEF PostItem, DeleteItem
<1>2. /\ [NoArg EXCEPT !.key = k] \in Arg /\ [NoArg EXCEPT !.key = k].then = None
      /\ [NoArg EXCEPT !.key = k].key = k
  BY DEF NoArg, Arg
<1>3. None \notin {"add", "replace", "end", "close"}
  BY DatabaseConstants
<1>4. BeginsTask(IdleTask, place, [NoArg EXCEPT !.key = k])
  BY <1>1, <1>2, <1>3, IdleFacts
     DEF Requested, Begins, BeginsTask, archiveVars, jobVars, eventVars
<1>5. BudgetTypes'
  BY <1>1, BudgetFacts DEF Types, BudgetTypes, Requested, processVars, eventVars
<1> QED BY <1>4, <1>5

LEMMA ArchiveRequested ==
  ASSUME Types, NEW place \in Archive, RequestArchive(place), UNCHANGED <<eventVars, reqLock, jobVars>>
  PROVE  BudgetTypes' /\ \E t, p, a : BeginsTask(t, p, a)
<1>1. [NoArg EXCEPT !.then = place] \in Arg /\ [NoArg EXCEPT !.then = place].then = place
  BY DEF NoArg, Arg, Then
<1>2. BeginsTask(IdleTask, "lock", [NoArg EXCEPT !.then = place])
  BY <1>1, IdleFacts
     DEF RequestArchive, Requested, Begins, BeginsTask, jobVars, eventVars, Archive
<1>3. BudgetTypes'
  BY BudgetFacts DEF RequestArchive, Types, BudgetTypes, Requested, processVars, eventVars
<1> QED BY <1>2, <1>3

LEMMA RequestBegun ==
  ASSUME Types, NEW kind, NEW place \in {"lock", "resetDelete"}, NEW a \in Arg,
         Request(kind, place, a), a.then \notin {"add", "replace", "end", "close"},
         UNCHANGED <<current, currentId, counted>>, total' \in {total, 0}
  PROVE  BudgetTypes' /\ \E t, p, b : BeginsTask(t, p, b)
<1>1. BeginsTask(IdleTask, place, a)
  BY IdleFacts DEF Request, Requested, Begins, BeginsTask, archiveVars, eventVars
<1>2. BudgetTypes'
  BY BudgetFacts DEF Request, Types, BudgetTypes, Requested, processVars, eventVars
<1> QED BY <1>1, <1>2

LEMMA HistoryBegins ==
  ASSUME Types, HistoryRequest \/ ResetTotals
  PROVE  BudgetTypes' /\ \E t, place, a : BeginsTask(t, place, a)
<1>0. None \notin {"add", "replace", "end", "close"}
  BY DatabaseConstants
<1>1. CASE HistoryRequest
  <2>1. PICK i \in Id \cup {None}, kind \in {"deleteRows", "undo", "read"} :
          Request(kind, "lock", OnRow(i, kind))
    BY <1>1 DEF HistoryRequest
  <2>2. OnRow(i, kind) \in Arg /\ OnRow(i, kind).then = kind
    BY DEF OnRow, NoArg, Arg, Then
  <2>3. UNCHANGED jobVars
    BY <1>1 DEF HistoryRequest
  <2> QED BY <2>1, <2>2, <2>3, RequestBegun DEF jobVars
<1>2. CASE ResetTotals
  <2>1. Request("reset", "resetDelete", NoArg) /\ total' = 0
        /\ UNCHANGED <<current, currentId, counted>>
    BY <1>2 DEF ResetTotals
  <2>2. NoArg.then = None
    BY DEF NoArg
  <2> QED BY <1>0, <2>1, <2>2, NoArgType, RequestBegun
<1> QED BY <1>1, <1>2

LEMMA HandlerBegins ==
  ASSUME Types, NEW a \in Arg, Handler(a),
         IF a.then \in {"add", "replace"}
         THEN a.print = nextPrint + 1 /\ nextPrint' = nextPrint + 1
         ELSE nextPrint' = nextPrint,
         a.then \in {"add", "replace"} => a.print \in PrintNo, a.status \in Status
  PROVE  \E t, place, b : BeginsTask(t, place, b)
<1>1. BeginsTask(IdleTask, "lock", a)
  BY IdleFacts DEF Handler, Begins, BeginsTask, archiveVars, jobVars
<1> QED BY <1>1

LEMMA EventBegins ==
  ASSUME Types, PrintStarts \/ PrintEnds \/ KlippyLost
  PROVE  BudgetTypes' /\ \E t, place, a : BeginsTask(t, place, a)
<1>1. CASE PrintStarts
  <2>1. nextPrint + 1 \in PrintNo /\ nextPrint + 1 \in 0..budget.prints
    BY <1>1, NextPrintType DEF PrintStarts, Types
  <2>2. PICK then \in {"add", "replace"} : Handler(ForJob(nextPrint + 1, "cancelled", then))
    BY <1>1 DEF PrintStarts
  <2>3. nextPrint' = nextPrint + 1 /\ printing' = nextPrint + 1 /\ events' = events
    BY <1>1 DEF PrintStarts
  <2>4. \E t, place, a : BeginsTask(t, place, a)
    <3> DEFINE a == ForJob(nextPrint + 1, "cancelled", then)
    <3>1. a \in Arg /\ a.print = nextPrint + 1 /\ a.then = then /\ a.status \in Status
      BY <2>1, ForJobType DEF Status, Endings, Then
    <3> HIDE DEF a
    <3>2. Handler(a)
      BY <2>2 DEF a
    <3> QED BY <2>1, <2>2, <2>3, <3>1, <3>2, HandlerBegins
  <2>5. UNCHANGED <<budget, boots, requests, failures>>
    BY <2>2 DEF Handler, processVars
  <2> QED BY <2>1, <2>3, <2>4, <2>5 DEF Types, BudgetTypes
<1>2. CASE PrintEnds
  <2>1. PICK s \in budget.endings : Handler(ForJob(printing, s, "end"))
    BY <1>2 DEF PrintEnds
  <2>2. printing' = None /\ UNCHANGED <<events, nextPrint>>
    BY <1>2 DEF PrintEnds, eventVars
  <2>3. s \in Status /\ printing \in PrintNo \cup {None}
    BY BudgetFacts DEF Types, BudgetTypes, Status
  <2>4. \E t, place, a : BeginsTask(t, place, a)
    <3> DEFINE a == ForJob(printing, s, "end")
    <3>1. a \in Arg /\ a.then = "end" /\ a.status \in Status
      BY <2>3, ForJobType DEF Then
    <3> HIDE DEF a
    <3>2. Handler(a)
      BY <2>1 DEF a
    <3> QED BY <2>2, <3>1, <3>2, HandlerBegins
  <2>5. UNCHANGED <<budget, boots, requests, failures>>
    BY <2>1 DEF Handler, processVars
  <2> QED BY <2>2, <2>4, <2>5 DEF Types, BudgetTypes
<1>3. CASE KlippyLost
  <2>1. PICK s \in {"klippy_shutdown", "klippy_disconnect"} :
          /\ events < budget.events /\ events' = events + 1
          /\ printing' = IF s = "klippy_disconnect" THEN None ELSE printing
          /\ Handler(ForJob(None, s, "end"))
          /\ UNCHANGED nextPrint
    BY <1>3 DEF KlippyLost
  <2>2. \E t, place, a : BeginsTask(t, place, a)
    <3> DEFINE a == ForJob(None, s, "end")
    <3>1. a \in Arg /\ a.then = "end" /\ a.status \in Status
      BY ForJobType DEF Then, Status
    <3> HIDE DEF a
    <3>2. Handler(a)
      BY <2>1 DEF a
    <3> QED BY <2>1, <3>1, <3>2, HandlerBegins
  <2>3. UNCHANGED <<budget, boots, requests, failures>>
    BY <2>1 DEF Handler, processVars
  <2>4. events + 1 \in 0..budget.events
    BY <2>1, BudgetFacts DEF Types, BudgetTypes
  <2> QED BY <2>1, <2>2, <2>3, <2>4 DEF Types, BudgetTypes
<1> QED BY <1>1, <1>2, <1>3

LEMMA NewTaskFacts ==
  ASSUME Types, NewTask
  PROVE  BudgetTypes' /\ \E t, place, a : BeginsTask(t, place, a)
BY ItemBegins, ArchiveRequested, HistoryBegins, EventBegins DEF NewTask, OfDatabase

LEMMA BeginsTypes ==
  ASSUME Types, NEW t, NEW place, NEW a, BeginsTask(t, place, a), BudgetTypes'
  PROVE  Types'
<1>1. t \in Tasks /\ t # Main /\ place \in Places /\ place \notin Owned \cup Archive
  BY DatabaseConstants DEF BeginsTask, Tasks, Places, Owned, Archive, Adding, FinishPlaces, Counting
<1>2. TaskTypes'
  <2>1. TaskTypes
    BY DEF Types
  <2>2. pc' \in [Tasks -> Places] /\ arg' \in [Tasks -> Arg]
    BY <1>1, <2>1 DEF TaskTypes, BeginsTask
  <2>3. Append(commands, t) \in Seq(Tasks) /\ Append(reqLock, t) \in Seq(Tasks)
    BY <1>1, <2>1, AppendHead DEF TaskTypes
  <2>4. Append(backupLock, t) \in Seq(Task)
    BY <2>1, AppendHead DEF TaskTypes, BeginsTask
  <2> QED BY <2>1, <2>2, <2>3, <2>4 DEF TaskTypes, BeginsTask
<1>3. ContentTypes' /\ JobTypes'
  BY DEF Types, ContentTypes, JobTypes, BeginsTask, contentVars, shutdownVars
<1>4. \A u \in Tasks : /\ u # t => pc'[u] = pc[u] /\ arg'[u] = arg[u]
                       /\ pc'[t] = place /\ arg'[t] = a
  BY <1>1 DEF Types, TaskTypes, BeginsTask
<1>5. ArgOK'
  BY <1>4 DEF Types, ArgOK, BeginsTask
<1>6. LockOK'
  <2>1. reqLock # <<>> => reqLock' # <<>> /\ Head(reqLock') = Head(reqLock)
    <3>1. reqLock \in Seq(Tasks)
      BY DEF Types, TaskTypes
    <3> QED BY <1>1, <3>1, AppendHead DEF BeginsTask
  <2>2. backupLock # <<>> => backupLock' # <<>> /\ Head(backupLock') = Head(backupLock)
    <3>1. backupLock \in Seq(Task) /\ t \in Task
      BY DEF Types, TaskTypes, BeginsTask
    <3> QED BY <3>1, AppendHead DEF BeginsTask
  <2>3. \A u \in Task : u \in Tasks
    BY DEF Tasks
  <2> QED BY <1>1, <1>4, <2>1, <2>2, <2>3 DEF Types, LockOK
<1>7. CurrentOK'
  <2>1. UNCHANGED <<current, currentId, life>> /\ place \notin Adding \cup FinishPlaces
    BY <1>1 DEF BeginsTask, Owned, processVars
  <2> QED BY <1>4, <2>1 DEF Types, CurrentOK
<1>8. MainOK'
  <2>1. UNCHANGED <<life, boots>> /\ life \notin {"down", "boot"}
    BY DEF BeginsTask, processVars, Serving
  <2>2. Main \in Tasks
    BY DEF Tasks
  <2>3. pc'[Main] = pc[Main] /\ arg'[Main] = arg[Main]
    BY <1>1, <1>4, <2>2
  <2> QED BY <2>1, <2>3 DEF Types, MainOK
<1> QED BY <1>2, <1>3, <1>5, <1>6, <1>7, <1>8 DEF Types
-----------------------------------------------------------------------------
(* Tasks that go on *)

(* t goes from one place to the next, within a lock it holds, into one or *)
(* out of it.                                                              *)
TaskMoves(t, to) ==
  /\ to \in Places \ {"insert"} /\ pc[t] # "idle"
  /\ pc' = [pc EXCEPT ![t] = to]
  /\ \/ arg' \in {arg, [arg EXCEPT ![t] = NoArg]}
     \/ to = "lock" /\ arg[t].then = "replace" /\ arg' = [arg EXCEPT ![t].then = "add"]
     \/ NewId \in Id /\ arg' = [arg EXCEPT ![t].id = NewId]
  /\ \/ commands' \in {commands, Append(commands, t)}
     \/ commands # <<>> /\ commands' \in {Tail(commands), Append(Tail(commands), t)}
  /\ \/ reqLock' = reqLock /\ (to \in Owned => pc[t] \in Owned \/ HoldsLock(t))
     \/ /\ reqLock' \in {Tail(reqLock), Append(Tail(reqLock), t)}
        /\ to \notin Owned /\ (pc[t] \in Owned \/ HoldsLock(t))
  /\ \/ /\ backupLock' = backupLock
        /\ to \in Archive => t \in Task /\ backupLock # <<>> /\ Head(backupLock) = t
     \/ /\ backupLock' = Tail(backupLock)
        /\ to \notin Archive /\ t \in Task /\ backupLock # <<>> /\ Head(backupLock) = t

LEMMA OwnerIsFirst ==
  ASSUME LockOK, NEW t \in Tasks, pc[t] \in Owned \/ HoldsLock(t)
  PROVE  reqLock # <<>> /\ Head(reqLock) = t /\ \A u \in Tasks : pc[u] \in Owned => u = t
BY DEF LockOK, HoldsLock

LEMMA MovesTypes ==
  ASSUME Types, NEW t \in Tasks, NEW to, TaskMoves(t, to)
  PROVE  TaskTypes' /\ ArgOK' /\ LockOK'
<1>1. TaskTypes /\ LockOK /\ ArgOK
  BY DEF Types
<1>2. pc' \in [Tasks -> Places] /\ pc'[t] = to /\ \A u \in Tasks : u # t => pc'[u] = pc[u]
  BY <1>1 DEF TaskMoves, TaskTypes
<1>0. pc'[t] # "insert"
  BY <1>2 DEF TaskMoves
<1>3. arg' \in [Tasks -> Arg] /\ ArgOK'
  <2>1. arg \in [Tasks -> Arg]
    BY <1>1 DEF TaskTypes
  <2>2. CASE arg' = arg
    BY <1>0, <1>1, <1>2, <2>1, <2>2 DEF ArgOK
  <2>3. CASE arg' = [arg EXCEPT ![t] = NoArg]
    <3>1. arg'[t] = NoArg /\ \A u \in Tasks : u # t => arg'[u] = arg[u]
      BY <2>1, <2>3
    <3>2. NoArg.then \notin {"add", "replace", "end", "close"}
      BY DatabaseConstants DEF NoArg
    <3> QED BY <1>0, <1>1, <1>2, <2>1, <2>3, <3>1, <3>2, NoArgType DEF ArgOK
  <2>4. CASE arg[t].then = "replace" /\ arg' = [arg EXCEPT ![t].then = "add"]
    <3>1. \A u \in Tasks : /\ u # t => arg'[u] = arg[u]
                           /\ arg'[t] = [arg[t] EXCEPT !.then = "add"]
      BY <2>1, <2>4
    <3>2. arg[t] \in Arg
      BY <2>1
    <3>3. /\ [arg[t] EXCEPT !.then = "add"] \in Arg
          /\ [arg[t] EXCEPT !.then = "add"].print = arg[t].print
          /\ [arg[t] EXCEPT !.then = "add"].then = "add"
      BY <3>2 DEF Arg, Then
    <3>4. arg' \in [Tasks -> Arg]
      BY <2>1, <2>4, <3>3
    <3> QED BY <1>0, <1>1, <1>2, <2>4, <3>1, <3>3, <3>4 DEF ArgOK
  <2>5. CASE NewId \in Id /\ arg' = [arg EXCEPT ![t].id = NewId]
    <3> DEFINE i == NewId
    <3>0. i \in Id /\ arg' = [arg EXCEPT ![t].id = i]
      BY <2>5
    <3> HIDE DEF i
    <3>1. \A u \in Tasks : /\ u # t => arg'[u] = arg[u]
                           /\ arg'[t] = [arg[t] EXCEPT !.id = i]
      BY <2>1, <3>0
    <3>2. arg[t] \in Arg
      BY <2>1
    <3>3. /\ [arg[t] EXCEPT !.id = i] \in Arg
          /\ [arg[t] EXCEPT !.id = i].print = arg[t].print
          /\ [arg[t] EXCEPT !.id = i].status = arg[t].status
          /\ [arg[t] EXCEPT !.id = i].then = arg[t].then
      BY <3>0, <3>2 DEF Arg
    <3>4. arg' \in [Tasks -> Arg]
      BY <2>1, <3>0, <3>3
    <3> QED BY <1>0, <1>1, <1>2, <3>1, <3>3, <3>4 DEF ArgOK
  <2> QED BY <2>2, <2>3, <2>4, <2>5 DEF TaskMoves
<1>4. commands' \in Seq(Tasks)
  <2>1. commands \in Seq(Tasks)
    BY <1>1 DEF TaskTypes
  <2>2. CASE commands' \in {commands, Append(commands, t)}
    BY <2>1, <2>2
  <2>3. CASE commands # <<>> /\ commands' \in {Tail(commands), Append(Tail(commands), t)}
    <3>1. Tail(commands) \in Seq(Tasks)
      BY <2>1, <2>3
    <3> QED BY <2>3, <3>1
  <2> QED BY <2>2, <2>3 DEF TaskMoves
<1>5. reqLock' \in Seq(Tasks)
  <2>1. CASE reqLock' = reqLock
    BY <1>1, <2>1 DEF TaskTypes
  <2>2. CASE /\ reqLock' \in {Tail(reqLock), Append(Tail(reqLock), t)}
             /\ pc[t] \in Owned \/ HoldsLock(t)
    <3>1. reqLock # <<>> /\ reqLock \in Seq(Tasks)
      BY <1>1, <2>2, OwnerIsFirst DEF TaskTypes
    <3> QED BY <2>2, <3>1
  <2> QED BY <2>1, <2>2 DEF TaskMoves
<1>6. backupLock' \in Seq(Task)
  <2>1. backupLock \in Seq(Task)
    BY <1>1 DEF TaskTypes
  <2>2. CASE backupLock' = backupLock
    BY <2>1, <2>2
  <2>3. CASE backupLock' = Tail(backupLock) /\ backupLock # <<>>
    BY <2>1, <2>3
  <2> QED BY <2>2, <2>3 DEF TaskMoves
<1>7. \A u \in Tasks : pc'[u] \in Owned => reqLock' # <<>> /\ Head(reqLock') = u
  <2>1. CASE reqLock' = reqLock /\ (to \in Owned => pc[t] \in Owned \/ HoldsLock(t))
    BY <1>1, <1>2, <2>1, OwnerIsFirst DEF LockOK
  <2>2. CASE to \notin Owned /\ (pc[t] \in Owned \/ HoldsLock(t))
    BY <1>1, <1>2, <2>2, OwnerIsFirst
  <2> QED BY <2>1, <2>2 DEF TaskMoves
<1>8. \A u \in Task : pc'[u] \in Archive => backupLock' # <<>> /\ Head(backupLock') = u
  <2>0. Task \subseteq Tasks
    BY DEF Tasks
  <2>1. CASE /\ backupLock' = backupLock
             /\ to \in Archive => t \in Task /\ backupLock # <<>> /\ Head(backupLock) = t
    BY <1>1, <1>2, <2>0, <2>1 DEF LockOK
  <2>2. CASE to \notin Archive /\ t \in Task /\ backupLock # <<>> /\ Head(backupLock) = t
    BY <1>1, <1>2, <2>0, <2>2 DEF LockOK
  <2> QED BY <2>1, <2>2 DEF TaskMoves
<1> QED BY <1>2, <1>3, <1>4, <1>5, <1>6, <1>7, <1>8 DEF TaskTypes, LockOK

(* What a step of a task on the database or the history leaves alone *)
Framed == UNCHANGED <<life, boots, budget, requests, printing, events, nextPrint, unsafeCount>>

MovesOn(t) ==
  \/ \E to : TaskMoves(t, to)
  \/ UNCHANGED <<pc, arg, commands, reqLock, backupLock>>

DatabaseTurn(t) ==
  /\ \/ ItemInserted(t) \/ ItemDeleted(t) \/ NamespaceDropped(t) \/ ArchiveBegins(t)
     \/ Compacted(t) \/ BackedUp(t) \/ Restored(t)
  /\ OfDatabase

HistoryTurn(t) ==
  \/ AddBegins(t) \/ RowAdded(t) \/ AddCommitted(t)
  \/ RequestBegins(t) \/ RowsDeleted(t) \/ DeleteCommitted(t) \/ JobsRead(t)
  \/ ResetDeleted(t) \/ ResetInserted(t) \/ ResetEnds(t)

LEMMA DatabaseMoves ==
  ASSUME Types, NEW t \in Task, DatabaseTurn(t)
  PROVE  MovesOn(t) /\ Framed /\ UNCHANGED <<failures, jobVars>>
<1>0. LockOK
  BY DEF Types
<1>1. Framed /\ UNCHANGED <<failures, reqLock, jobVars>>
  BY DEF DatabaseTurn, OfDatabase, Framed, eventVars, ItemInserted, ItemDeleted, NamespaceDropped,
         ArchiveBegins, Compacted, BackedUp, Restored, processVars, shutdownVars
<1>2. CASE ItemInserted(t)
  <2>1. TaskMoves(t, "idle")
    BY <1>1, <1>2 DEF ItemInserted, Answered, Ends, Leaves, TaskMoves, archiveVars, Places, Owned,
                      Adding, FinishPlaces, Counting, Archive
  <2> QED BY <1>1, <2>1 DEF MovesOn
<1>3. CASE ItemDeleted(t)
  <2>1. TaskMoves(t, "idle") \/ TaskMoves(t, "drop")
    BY <1>1, <1>3 DEF ItemDeleted, Answered, Ends, Leaves, GoesOn, TaskMoves, archiveVars, Places, Owned,
                      Adding, FinishPlaces, Counting, Archive
  <2> QED BY <1>1, <2>1 DEF MovesOn
<1>4. CASE NamespaceDropped(t)
  <2>1. TaskMoves(t, "idle")
    BY <1>1, <1>4 DEF NamespaceDropped, Answered, Ends, Leaves, TaskMoves, archiveVars, Places, Owned,
                      Adding, FinishPlaces, Counting, Archive
  <2> QED BY <1>1, <2>1 DEF MovesOn
<1>5. CASE ArchiveBegins(t)
  <2>1. TaskMoves(t, "idle") \/ TaskMoves(t, arg[t].then)
    BY <1>1, <1>5 DEF ArchiveBegins, Asks, TaskMoves, Places, Owned, Adding, FinishPlaces, Counting,
                      Archive
  <2> QED BY <1>1, <2>1 DEF MovesOn
<1>6. CASE Compacted(t) \/ BackedUp(t) \/ Restored(t)
  <2>1. pc[t] \in Archive /\ commands # <<>>
    BY <1>6 DEF Compacted, BackedUp, Restored, Answered, Archive
  <2>2. backupLock # <<>> /\ Head(backupLock) = t
    BY <1>0, <2>1 DEF LockOK
  <2>3. \/ Ends(t) /\ backupLock' = Tail(backupLock)
        \/ UNCHANGED <<pc, arg, commands, backupLock>>
    BY <1>6 DEF Compacted, BackedUp, Restored
  <2>4. ASSUME Ends(t), backupLock' = Tail(backupLock)
        PROVE  TaskMoves(t, "idle")
    BY <1>1, <2>1, <2>2, <2>4 DEF Ends, Leaves, TaskMoves, Places, Owned, Adding, FinishPlaces, Counting,
                                  Archive
  <2> QED BY <1>1, <2>3, <2>4 DEF MovesOn
<1> QED BY <1>1, <1>2, <1>3, <1>4, <1>5, <1>6 DEF DatabaseTurn

LEMMA HistoryMoves ==
  ASSUME Types, NEW t \in Task, HistoryTurn(t)
  PROVE  MovesOn(t)
<1>0. LockOK
  BY DEF Types
<1>1. backupLock' = backupLock
  BY DEF HistoryTurn, InCommand, archiveVars, AddBegins, RowAdded, AddCommitted, RequestBegins,
         RowsDeleted, DeleteCommitted, JobsRead, ResetDeleted, ResetInserted, ResetEnds
<1> USE DEF TaskMoves, Places, Owned, Adding, FinishPlaces, Counting, Archive
<1>2. CASE AddBegins(t)
  <2>1. TaskMoves(t, "addRow")
    BY <1>1, <1>2 DEF AddBegins, Asks, HoldsLock
  <2> QED BY <2>1 DEF MovesOn
<1>3. CASE RowAdded(t)
  <2>1. TaskMoves(t, "addCommit") \/ TaskMoves(t, "undo")
    BY <1>1, <1>3 DEF RowAdded, Answered, GoesOn
  <2> QED BY <2>1 DEF MovesOn
<1>4. CASE RequestBegins(t)
  <2>1. TaskMoves(t, arg[t].then)
    BY <1>1, <1>4 DEF RequestBegins, Asks, HoldsLock
  <2> QED BY <2>1 DEF MovesOn
<1>5. CASE AddCommitted(t) \/ DeleteCommitted(t) \/ JobsRead(t)
  <2>1. TaskMoves(t, "idle")
    BY <1>1, <1>5 DEF AddCommitted, DeleteCommitted, JobsRead, Answered, Ends, Leaves, Release
  <2> QED BY <2>1 DEF MovesOn
<1>6. CASE RowsDeleted(t)
  <2>1. TaskMoves(t, "deleteCommit")
    BY <1>1, <1>6 DEF RowsDeleted, Answered, GoesOn
  <2> QED BY <2>1 DEF MovesOn
<1>7. CASE ResetDeleted(t) \/ ResetInserted(t)
  <2>1. \E to \in {"resetInsert", "resetCommit", "resetUndo"} : TaskMoves(t, to)
    BY <1>1, <1>7 DEF ResetDeleted, ResetInserted, Answered, GoesOn
  <2> QED BY <2>1 DEF MovesOn
<1>8. CASE ResetEnds(t)
  <2>1. TaskMoves(t, "idle")
    BY <1>1, <1>8 DEF ResetEnds, Answered, Ends, Leaves
  <2> QED BY <2>1 DEF MovesOn
<1> QED BY <1>2, <1>3, <1>4, <1>5, <1>6, <1>7, <1>8 DEF HistoryTurn

LEMMA FinishingMoves ==
  ASSUME Types, NEW t \in Tasks, Finishing(t)
  PROVE  MovesOn(t)
<1>1. backupLock' = backupLock
  BY DEF Finishing, InCommand, archiveVars, NothingToFinish, FinishBegins, RowFinished, FinishCommitted,
         TotalWritten, TotalCommitted, Undone
<1> USE DEF TaskMoves, Places, Owned, Adding, FinishPlaces, Counting, Archive
<1>2. ASSUME AfterFinish(t), HoldsLock(t) \/ pc[t] = "totalCommit",
             (commands # <<>> /\ commands' = Tail(commands)) \/ commands' = commands
      PROVE  \E to \in {"idle", "lock", "closing"} : TaskMoves(t, to)
  BY <1>1, <1>2 DEF AfterFinish, Release, HoldsLock
<1>3. CASE NothingToFinish(t)
  <2>1. \E to \in {"idle", "lock", "closing"} : TaskMoves(t, to)
    BY <1>2, <1>3 DEF NothingToFinish, Finishes
  <2> QED BY <2>1 DEF MovesOn
<1>4. CASE TotalCommitted(t)
  <2>1. \E to \in {"idle", "lock", "closing"} : TaskMoves(t, to)
    BY <1>2, <1>4 DEF TotalCommitted, Answered
  <2> QED BY <2>1 DEF MovesOn
<1>5. CASE FinishBegins(t)
  <2>1. TaskMoves(t, "finishRow")
    BY <1>1, <1>5 DEF FinishBegins, Finishes, Asks, HoldsLock
  <2> QED BY <2>1 DEF MovesOn
<1>6. CASE RowFinished(t) \/ FinishCommitted(t) \/ TotalWritten(t)
  <2>1. \E to \in {"finishCommit", "addTotal", "totalCommit", "undo"} : TaskMoves(t, to)
    BY <1>1, <1>6 DEF RowFinished, FinishCommitted, TotalWritten, Answered, GoesOn
  <2> QED BY <2>1 DEF MovesOn
<1>7. CASE Undone(t)
  <2>1. TaskMoves(t, "idle") \/ TaskMoves(t, "closing")
    BY <1>1, <1>7 DEF Undone, Answered, Ends, Leaves, Release
  <2> QED BY <2>1 DEF MovesOn
<1> QED BY <1>3, <1>4, <1>5, <1>6, <1>7 DEF Finishing

-----------------------------------------------------------------------------
(* What a step writes *)

Rows == UNION {[S -> Row] : S \in SUBSET Id}

ContentKept ==
  /\ view' \in Content /\ disk' \in Content /\ open' \in BOOLEAN
  /\ view'.unsafe \in {view.unsafe, disk.unsafe} /\ disk'.unsafe \in {view.unsafe, disk.unsafe}
  /\ view'.items \in {view.items, disk.items} /\ disk'.items \in {view.items, disk.items}

(* A commit, a rollback, or a statement that is not about the rows *)
RowsShift ==
  \/ view'.rows = view.rows /\ disk'.rows \in {view.rows, disk.rows}
  \/ view'.rows = disk.rows /\ disk'.rows = disk.rows
RowWritten(id) ==
  /\ id \in Id /\ current \in Job /\ boots \in 1..MaxBoots
  /\ disk'.rows = disk.rows
  /\ view'.rows = [i \in DOMAIN view.rows \cup {id} |->
                     IF i = id THEN RowOf(current) ELSE view.rows[i]]
RowsDropped(kept) ==
  /\ kept \subseteq DOMAIN view.rows
  /\ disk'.rows = disk.rows
  /\ view'.rows = [i \in kept |-> view.rows[i]]

LEMMA RowsFacts ==
  ASSUME NEW r \in Rows
  PROVE  DOMAIN r \subseteq Id /\ \A i \in DOMAIN r : r[i] \in Row
BY DEF Rows

LEMMA ContentFacts ==
  ASSUME NEW c \in Content
  PROVE  /\ c.rows \in Rows /\ c.total \in Nat \cup {None} /\ c.unsafe \in Nat
         /\ c.items \in SUBSET Key
         /\ \A r \in Rows :
              /\ [c EXCEPT !.rows = r] \in Content /\ [c EXCEPT !.rows = r].rows = r
              /\ [c EXCEPT !.rows = r].unsafe = c.unsafe /\ [c EXCEPT !.rows = r].items = c.items
         /\ \A n \in Nat \cup {None} :
              /\ [c EXCEPT !.total = n] \in Content /\ [c EXCEPT !.total = n].rows = c.rows
              /\ [c EXCEPT !.total = n].unsafe = c.unsafe
              /\ [c EXCEPT !.total = n].items = c.items
         /\ \A n \in Nat :
              /\ [c EXCEPT !.unsafe = n] \in Content /\ [c EXCEPT !.unsafe = n].rows = c.rows
              /\ [c EXCEPT !.unsafe = n].unsafe = n /\ [c EXCEPT !.unsafe = n].items = c.items
         /\ \A s \in SUBSET Key :
              /\ [c EXCEPT !.items = s] \in Content /\ [c EXCEPT !.items = s].rows = c.rows
              /\ [c EXCEPT !.items = s].unsafe = c.unsafe /\ [c EXCEPT !.items = s].items = s
<1>1. c \in [rows : Rows, total : Nat \cup {None}, unsafe : Nat, items : SUBSET Key]
  BY DEF Content, Rows
<1>2. Content = [rows : Rows, total : Nat \cup {None}, unsafe : Nat, items : SUBSET Key]
  BY DEF Content, Rows
<1> QED BY <1>1, <1>2

LEMMA Shifted ==
  ASSUME ContentTypes,
         \/ Commits \/ RollsBack \/ UNCHANGED contentVars \/ Executes(view)
         \/ \E n \in Nat \cup {None} : Executes([view EXCEPT !.total = n])
  PROVE  ContentKept /\ RowsShift
<1>1. view \in Content /\ disk \in Content /\ open \in BOOLEAN
  BY DEF ContentTypes
<1>2. CASE Commits \/ RollsBack \/ UNCHANGED contentVars \/ Executes(view)
  BY <1>1, <1>2 DEF Commits, RollsBack, Executes, contentVars, ContentKept, RowsShift
<1>3. CASE \E n \in Nat \cup {None} : Executes([view EXCEPT !.total = n])
  <2>1. PICK n \in Nat \cup {None} : Executes([view EXCEPT !.total = n])
    BY <1>3
  <2>2. view' \in Content /\ view'.rows = view.rows /\ view'.unsafe = view.unsafe
        /\ view'.items = view.items
    BY <1>1, <2>1, ContentFacts DEF Executes
  <2> QED BY <1>1, <2>1, <2>2 DEF Executes, ContentKept, RowsShift
<1> QED BY <1>2, <1>3

LEMMA RowType ==
  ASSUME current \in Job, boots \in 1..MaxBoots
  PROVE  RowOf(current) \in Row /\ RowOf(current).boot = boots
         /\ RowOf(current).status = current.status
BY DEF RowOf, Row, Job, Status

LEMMA Written ==
  ASSUME ContentTypes, NEW id \in Id, current \in Job, boots \in 1..MaxBoots, Executes(WithRow(id))
  PROVE  ContentKept /\ RowWritten(id)
<1>1. view \in Content /\ disk \in Content
  BY DEF ContentTypes
<1>2. PICK r : r = [i \in DOMAIN view.rows \cup {id} |->
                      IF i = id THEN RowOf(current) ELSE view.rows[i]]
  OBVIOUS
<1>3. view.rows \in Rows
  BY <1>1, ContentFacts
<1>4. r \in Rows
  <2>1. DOMAIN view.rows \subseteq Id /\ \A i \in DOMAIN view.rows : view.rows[i] \in Row
    BY <1>3, RowsFacts
  <2>2. PICK S \in SUBSET Id : S = DOMAIN view.rows \cup {id}
    BY <2>1
  <2>3. r \in [S -> Row]
    BY <1>2, <2>1, <2>2, RowType
  <2> QED BY <2>3 DEF Rows
<1>5. view' = [view EXCEPT !.rows = r] /\ disk' = disk /\ open' = TRUE
  BY <1>2 DEF Executes, WithRow
<1>6. view' \in Content /\ view'.rows = r /\ view'.unsafe = view.unsafe /\ view'.items = view.items
  BY <1>1, <1>4, <1>5, ContentFacts
<1> QED BY <1>1, <1>2, <1>5, <1>6 DEF ContentKept, RowWritten

LEMMA Dropped ==
  ASSUME ContentTypes, NEW kept, kept \subseteq DOMAIN view.rows,
         Executes([view EXCEPT !.rows = [i \in kept |-> view.rows[i]]])
  PROVE  ContentKept /\ RowsDropped(kept)
<1>1. view \in Content /\ disk \in Content
  BY DEF ContentTypes
<1>2. PICK r : r = [i \in kept |-> view.rows[i]]
  OBVIOUS
<1>3. view.rows \in Rows
  BY <1>1, ContentFacts
<1>4. r \in Rows
  <2>1. kept \in SUBSET Id /\ \A i \in kept : view.rows[i] \in Row
    BY <1>3, RowsFacts
  <2>2. r \in [kept -> Row]
    BY <1>2, <2>1
  <2> QED BY <2>1, <2>2 DEF Rows
<1>5. view' = [view EXCEPT !.rows = r] /\ disk' = disk /\ open' = TRUE
  BY <1>2 DEF Executes
<1>6. view' \in Content /\ view'.rows = r /\ view'.unsafe = view.unsafe /\ view'.items = view.items
  BY <1>1, <1>4, <1>5, ContentFacts
<1> QED BY <1>1, <1>2, <1>5, <1>6 DEF ContentKept, RowsDropped

-----------------------------------------------------------------------------
(* What the steps of the history change, beside where the task is *)

Failing == failures < budget.failures /\ failures' = failures + 1

(* The current job, its id and the totals, step by step *)
HistoryStep(t) ==
  /\ InCommand
  /\ UNCHANGED failures \/ Failing
  /\ ContentKept

LEMMA Begun ==
  ASSUME Types, NEW t \in Tasks, pc[t] # "idle", t \in Task \/ life \in {"up", "exit", "closing"}
  PROVE  boots \in 1..MaxBoots /\ life \in {"up", "exit", "closing"}
<1>1. life \in {"up", "exit", "closing"}
  BY DEF Types, MainOK
<1> QED BY <1>1, DatabaseConstants DEF Types, MainOK, BudgetTypes

LEMMA AddingSteps ==
  ASSUME Types, NEW t \in Task, AddBegins(t) \/ RowAdded(t) \/ AddCommitted(t)
  PROVE  /\ HistoryStep(t)
         /\ RowsShift \/ (RowAdded(t) /\ NewId \in Id /\ RowWritten(NewId) /\ UNCHANGED failures)
<1>1. ContentTypes
  BY DEF Types
<1>2. CASE AddBegins(t)
  BY <1>1, <1>2, Shifted DEF AddBegins, HistoryStep
<1>3. CASE RowAdded(t)
  <2>1. CASE NewId \in Id /\ Works(WithRow(NewId))
    <3>1. t \in Tasks /\ pc[t] = "addRow"
      BY <1>3 DEF RowAdded, Answered, Tasks
    <3>2. boots \in 1..MaxBoots
      BY <3>1, Begun
    <3>3. current \in Job
      BY <3>1 DEF Types, JobTypes, CurrentOK, Adding
    <3>4. ContentKept /\ RowWritten(NewId)
      BY <1>1, <2>1, <3>2, <3>3, Written DEF Works
    <3> QED BY <1>3, <2>1, <3>4 DEF HistoryStep, RowAdded, Works
  <2>2. CASE Fails
    BY <1>1, <1>3, <2>2, Shifted DEF Fails, HistoryStep, Failing, RowAdded
  <2> QED BY <1>3, <2>1, <2>2 DEF RowAdded
<1>4. CASE AddCommitted(t)
  BY <1>1, <1>4, Shifted DEF AddCommitted, HistoryStep, Succeeds
<1> QED BY <1>2, <1>3, <1>4

LEMMA RequestSteps ==
  ASSUME Types, NEW t \in Task,
         \/ RequestBegins(t) \/ RowsDeleted(t) \/ DeleteCommitted(t) \/ JobsRead(t)
         \/ ResetDeleted(t) \/ ResetInserted(t) \/ ResetEnds(t)
  PROVE  /\ HistoryStep(t) /\ UNCHANGED <<jobVars, failures>>
         /\ RowsShift \/ (RowsDeleted(t) /\ \E kept : RowsDropped(kept))
<1>1. ContentTypes
  BY DEF Types
<1>2. CASE RowsDeleted(t)
  <2>1. PICK kept \in SUBSET DOMAIN view.rows :
          Works([view EXCEPT !.rows = [i \in kept |-> view.rows[i]]])
    BY <1>2 DEF RowsDeleted
  <2>2. ContentKept /\ RowsDropped(kept)
    BY <1>1, <2>1, Dropped DEF Works
  <2> QED BY <1>2, <2>1, <2>2 DEF RowsDeleted, HistoryStep, Works
<1>3. CASE RequestBegins(t) \/ DeleteCommitted(t) \/ JobsRead(t) \/ ResetEnds(t)
  <2>1. Commits \/ RollsBack \/ UNCHANGED contentVars
    BY <1>3 DEF RequestBegins, DeleteCommitted, JobsRead, ResetEnds
  <2> QED BY <1>1, <1>3, <2>1, Shifted
          DEF RequestBegins, DeleteCommitted, JobsRead, ResetEnds, HistoryStep, Succeeds
<1>4. CASE ResetDeleted(t) \/ ResetInserted(t)
  <2>1. Executes(view) \/ \E n \in Nat \cup {None} : Executes([view EXCEPT !.total = n])
    BY <1>4 DEF ResetDeleted, ResetInserted, Works
  <2>2. InCommand /\ UNCHANGED <<jobVars, failures>>
    BY <1>4 DEF ResetDeleted, ResetInserted, Works
  <2> QED BY <1>1, <2>1, <2>2, Shifted DEF HistoryStep
<1> QED BY <1>2, <1>3, <1>4

LEMMA FinishingSteps ==
  ASSUME Types, NEW t \in Tasks, Finishing(t)
  PROVE  /\ HistoryStep(t)
         /\ RowsShift \/ (RowFinished(t) /\ RowWritten(currentId))
<1>1. ContentTypes
  BY DEF Types
<1>2. CASE NothingToFinish(t) \/ FinishBegins(t) \/ FinishCommitted(t) \/ TotalCommitted(t) \/ Undone(t)
  <2>1. Commits \/ RollsBack \/ UNCHANGED contentVars
    BY <1>2 DEF NothingToFinish, FinishBegins, FinishCommitted, TotalCommitted, Undone
  <2>2. InCommand /\ UNCHANGED failures
    BY <1>2 DEF NothingToFinish, FinishBegins, FinishCommitted, TotalCommitted, Undone, Succeeds
  <2> QED BY <1>1, <2>1, <2>2, Shifted DEF HistoryStep
<1>3. CASE RowFinished(t)
  <2>1. CASE Works(WithRow(currentId))
    <3>1. pc[t] = "finishRow"
      BY <1>3 DEF RowFinished, Answered
    <3>2. boots \in 1..MaxBoots
      <4>1. t \in Task \/ life \in {"up", "exit", "closing"}
        BY <3>1 DEF Tasks, Types, MainOK
      <4> QED BY <3>1, <4>1, Begun
    <3>3. currentId \in Id /\ current \in Job
      BY <3>1 DEF Types, JobTypes, CurrentOK, FinishPlaces
    <3>4. ContentKept /\ RowWritten(currentId)
      BY <1>1, <2>1, <3>2, <3>3, Written DEF Works
    <3> QED BY <1>3, <2>1, <3>4 DEF HistoryStep, RowFinished, Works
  <2>2. CASE Fails
    BY <1>1, <1>3, <2>2, Shifted DEF Fails, HistoryStep, Failing, RowFinished
  <2> QED BY <1>3, <2>1, <2>2 DEF RowFinished
<1>4. CASE TotalWritten(t)
  <2>1. CASE Works([view EXCEPT !.total = total])
    <3>1. total \in Nat \cup {None}
      BY DEF Types, JobTypes
    <3> QED BY <1>1, <1>4, <2>1, <3>1, Shifted DEF Works, HistoryStep, TotalWritten
  <2>2. CASE Fails
    BY <1>1, <1>4, <2>2, Shifted DEF Fails, HistoryStep, Failing, TotalWritten
  <2> QED BY <1>4, <2>1, <2>2 DEF TotalWritten
<1> QED BY <1>2, <1>3, <1>4 DEF Finishing

LEMMA AddingJob ==
  ASSUME Types, NEW t \in Task, AddBegins(t) \/ RowAdded(t) \/ AddCommitted(t)
  PROVE  JobTypes'
<1>1. arg[t] \in Arg /\ JobTypes
  BY DEF Types, TaskTypes, Tasks
<1>2. CASE AddBegins(t)
  <2>1. arg[t].print \in PrintNo /\ "in_progress" \in Status
    BY <1>2 DEF AddBegins, Types, ArgOK, Tasks, Status
  <2> QED BY <1>1, <1>2, <2>1 DEF AddBegins, JobTypes, Job
<1>3. CASE RowAdded(t)
  BY <1>1, <1>3 DEF RowAdded, JobTypes, jobVars
<1>4. CASE AddCommitted(t)
  <2>1. arg[t].id \in Id \cup {None}
    BY <1>1 DEF Arg
  <2> QED BY <1>1, <1>4, <2>1 DEF AddCommitted, JobTypes
<1> QED BY <1>2, <1>3, <1>4

LEMMA FinishingJob ==
  ASSUME Types, NEW t \in Tasks, Finishing(t)
  PROVE  JobTypes'
<1>1. arg[t] \in Arg /\ JobTypes
  BY DEF Types, TaskTypes
<1>2. CASE NothingToFinish(t) \/ TotalCommitted(t)
  BY <1>1, <1>2 DEF NothingToFinish, TotalCommitted, JobTypes
<1>3. CASE RowFinished(t) \/ TotalWritten(t) \/ Undone(t)
  BY <1>1, <1>3 DEF RowFinished, TotalWritten, Undone, JobTypes, jobVars
<1>4. CASE FinishBegins(t)
  <2>1. arg[t].status \in Status /\ current \in Job
    BY <1>1, <1>4 DEF FinishBegins, Finishes, Types, ArgOK, CurrentOK, JobTypes
  <2>2. [current EXCEPT !.status = arg[t].status] \in Job
    BY <2>1 DEF Job
  <2> QED BY <1>1, <1>4, <2>2 DEF FinishBegins, JobTypes
<1>5. CASE FinishCommitted(t)
  <2>1. current \in Job
    BY <1>1, <1>5 DEF FinishCommitted, Answered, Types, CurrentOK, JobTypes, FinishPlaces
  <2>2. current.print \in PrintNo
    BY <2>1 DEF Job
  <2>3. counted' \in [PrintNo -> Nat]
    <3>1. counted' = [counted EXCEPT ![current.print] = counted[current.print] + 1]
      BY <1>5 DEF FinishCommitted
    <3>2. counted[current.print] + 1 \in Nat
      BY <1>1, <2>2 DEF JobTypes
    <3> QED BY <1>1, <2>2, <3>1, <3>2 DEF JobTypes
  <2> QED BY <1>1, <1>5, <2>3 DEF FinishCommitted, JobTypes
<1> QED BY <1>2, <1>3, <1>4, <1>5 DEF Finishing

(* Where the job and its id stay as they are, and t comes to no place that *)
(* needs more of them.                                                     *)
LEMMA CurrentStays ==
  ASSUME Types, NEW t \in Tasks, NEW to, pc' = [pc EXCEPT ![t] = to],
         UNCHANGED <<life, current, currentId>>,
         to \in Adding => pc[t] \in Adding, to \in FinishPlaces => pc[t] \in FinishPlaces
  PROVE  CurrentOK'
<1>1. pc'[t] = to /\ \A u \in Tasks : u # t => pc'[u] = pc[u]
  BY DEF Types, TaskTypes
<1> QED BY <1>1 DEF Types, CurrentOK

(* Whoever holds the lock may change them. *)
LEMMA CurrentChanges ==
  ASSUME Types, NEW t \in Tasks, NEW to, pc' = [pc EXCEPT ![t] = to],
         pc[t] \in Owned \/ HoldsLock(t), life' = life, life \notin {"down", "boot"},
         currentId' # None => current' # NoJob,
         to \in Adding => current' # NoJob /\ current'.status = "in_progress" /\ currentId' = None,
         to \in FinishPlaces => currentId' # None
  PROVE  CurrentOK'
<1>1. pc'[t] = to /\ \A u \in Tasks : u # t => pc'[u] = pc[u]
  BY DEF Types, TaskTypes
<1>2. \A u \in Tasks : u # t => pc[u] \notin Owned
  BY OwnerIsFirst DEF Types
<1>3. Adding \cup FinishPlaces \subseteq Owned
  BY DEF Owned
<1> QED BY <1>1, <1>2, <1>3 DEF CurrentOK

LEMMA AddingCurrent ==
  ASSUME Types, NEW t \in Task, AddBegins(t) \/ RowAdded(t) \/ AddCommitted(t)
  PROVE  CurrentOK'
<1>0. t \in Tasks
  BY DEF Tasks
<1>1. pc[t] # "idle" /\ (pc[t] \in Owned \/ HoldsLock(t))
  BY DEF AddBegins, RowAdded, AddCommitted, HoldsLock, Answered, Owned, Adding
<1>2. life \in {"up", "exit", "closing"}
  BY <1>0, <1>1, Begun
<1>3. life' = life
  BY DEF AddBegins, RowAdded, AddCommitted, InCommand, processVars
<1>4. CASE AddBegins(t)
  <2>1. arg[t].print \in PrintNo /\ None \notin PrintNo
    BY <1>0, <1>4, DatabaseConstants DEF AddBegins, Types, ArgOK
  <2>2. current' = [print |-> arg[t].print, status |-> "in_progress"] /\ currentId' = None
    BY <1>4 DEF AddBegins
  <2>3. current' # NoJob /\ current'.status = "in_progress"
    BY <2>1, <2>2 DEF NoJob
  <2>4. pc' = [pc EXCEPT ![t] = "addRow"]
    BY <1>4 DEF AddBegins, Asks
  <2> QED BY <1>0, <1>1, <1>2, <1>3, <2>2, <2>3, <2>4, CurrentChanges DEF FinishPlaces, Counting
<1>5. CASE RowAdded(t)
  <2>1. \E to \in {"addCommit", "undo"} : pc' = [pc EXCEPT ![t] = to]
    BY <1>5 DEF RowAdded, GoesOn
  <2>2. pc[t] = "addRow" /\ UNCHANGED <<current, currentId>>
    BY <1>5 DEF RowAdded, Answered, jobVars
  <2> QED BY <1>0, <1>3, <2>1, <2>2, CurrentStays DEF Adding, FinishPlaces, Counting
<1>6. CASE AddCommitted(t)
  <2>1. current # NoJob /\ current' = current
    BY <1>0, <1>6 DEF AddCommitted, Answered, Types, CurrentOK, Adding
  <2>2. pc' = [pc EXCEPT ![t] = "idle"]
    BY <1>6 DEF AddCommitted, Ends, Leaves
  <2> QED BY <1>0, <1>1, <1>2, <1>3, <2>1, <2>2, CurrentChanges DEF Adding, FinishPlaces, Counting
<1> QED BY <1>4, <1>5, <1>6

LEMMA FinishingStarts ==
  ASSUME Types, NEW t \in Tasks, Finishing(t)
  PROVE  /\ pc[t] # "idle" /\ (pc[t] \in Owned \/ HoldsLock(t))
         /\ boots \in 1..MaxBoots /\ life \in {"up", "exit", "closing"}
         /\ t = Main => life = "exit" /\ (arg[Main].then = "close" \/ pc[Main] = "undo")
<1>1. \/ pc[t] \in FinishPlaces \cup {"undo"}
      \/ HoldsLock(t) /\ arg[t].then \in {"end", "replace", "close"}
  BY DEF Finishing, NothingToFinish, FinishBegins, RowFinished, FinishCommitted, TotalWritten,
         TotalCommitted, Undone, Finishes, Answered, FinishPlaces, Counting
<1>2. pc[t] \in FinishPlaces \cup {"undo", "lock"}
  BY <1>1 DEF HoldsLock
<1>3. t = Main => life = "exit" /\ (arg[Main].then = "close" \/ pc[Main] = "undo")
  BY <1>2 DEF Types, MainOK, FinishPlaces, Counting
<1>4. pc[t] # "idle" /\ (pc[t] \in Owned \/ HoldsLock(t))
  BY <1>1, <1>2 DEF FinishPlaces, Counting, Owned
<1>5. t \in Task \/ life \in {"up", "exit", "closing"}
  BY <1>3 DEF Tasks
<1> QED BY <1>3, <1>4, <1>5, Begun

LEMMA FinishingCurrent ==
  ASSUME Types, NEW t \in Tasks, Finishing(t)
  PROVE  CurrentOK'
<1>1. /\ pc[t] # "idle" /\ (pc[t] \in Owned \/ HoldsLock(t))
      /\ life \in {"up", "exit", "closing"}
  BY FinishingStarts
<1>3. life' = life
  BY FinishingSteps DEF HistoryStep, InCommand, processVars
<1>4. CASE NothingToFinish(t) \/ TotalCommitted(t)
  <2>1. \E to \in {"idle", "lock", "closing"} : pc' = [pc EXCEPT ![t] = to]
    BY <1>4 DEF NothingToFinish, TotalCommitted, AfterFinish
  <2>2. currentId' = None
    BY <1>4 DEF NothingToFinish, TotalCommitted
  <2> QED BY <1>1, <1>3, <2>1, <2>2, CurrentChanges DEF Adding, FinishPlaces, Counting
<1>5. CASE FinishBegins(t)
  <2>1. currentId # None /\ currentId' = currentId /\ pc' = [pc EXCEPT ![t] = "finishRow"]
    BY <1>5 DEF FinishBegins, Asks
  <2>2. current \in Job /\ None \notin PrintNo
    BY <2>1, DatabaseConstants DEF Types, CurrentOK, JobTypes
  <2>3. current' # NoJob
    BY <1>5, <2>2 DEF FinishBegins, Job, NoJob
  <2> QED BY <1>1, <1>3, <2>1, <2>3, CurrentChanges DEF Adding
<1>6. CASE RowFinished(t) \/ FinishCommitted(t) \/ TotalWritten(t) \/ Undone(t)
  <2>1. \E to \in {"finishCommit", "addTotal", "totalCommit", "undo", "idle", "closing"} :
          /\ pc' = [pc EXCEPT ![t] = to]
          /\ to \in FinishPlaces => pc[t] \in FinishPlaces
    BY <1>6 DEF RowFinished, FinishCommitted, TotalWritten, Undone, GoesOn, Ends, Leaves, Answered,
                FinishPlaces, Counting
  <2>2. UNCHANGED <<current, currentId>>
    BY <1>6 DEF RowFinished, FinishCommitted, TotalWritten, Undone, jobVars
  <2> QED BY <1>3, <2>1, <2>2, CurrentStays DEF Adding
<1> QED BY <1>4, <1>5, <1>6 DEF Finishing

LEMMA OthersCurrent ==
  ASSUME Types, NEW t \in Task, UNCHANGED <<life, current, currentId>>,
         \/ DatabaseTurn(t)
         \/ RequestBegins(t) \/ RowsDeleted(t) \/ DeleteCommitted(t) \/ JobsRead(t)
         \/ ResetDeleted(t) \/ ResetInserted(t) \/ ResetEnds(t)
  PROVE  CurrentOK'
<1>1. CASE pc' = pc
  BY <1>1 DEF Types, CurrentOK
<1>2. CASE \E to \in {"idle", "drop", "compact", "backup", "restore", "deleteRows", "undo", "read",
                      "deleteCommit", "resetInsert", "resetCommit", "resetUndo"} :
             pc' = [pc EXCEPT ![t] = to]
  BY <1>2, CurrentStays DEF Tasks, Adding, FinishPlaces, Counting
<1> QED
  BY <1>1, <1>2 DEF DatabaseTurn, ItemInserted, ItemDeleted, NamespaceDropped, ArchiveBegins, Compacted,
     BackedUp, Restored, RequestBegins, RowsDeleted, DeleteCommitted, JobsRead, ResetDeleted,
     ResetInserted, ResetEnds, Asks, Ends, Leaves, GoesOn

-----------------------------------------------------------------------------
(* Types, step by step *)

LEMMA MovesOnTypes ==
  ASSUME Types, NEW t \in Tasks, MovesOn(t)
  PROVE  TaskTypes' /\ ArgOK' /\ LockOK'
<1>1. CASE \E to : TaskMoves(t, to)
  BY <1>1, MovesTypes
<1>2. CASE UNCHANGED <<pc, arg, commands, reqLock, backupLock>>
  BY <1>2 DEF Types, TaskTypes, ArgOK, LockOK
<1> QED BY <1>1, <1>2 DEF MovesOn

LEMMA FrameTypes ==
  ASSUME Types, Framed, UNCHANGED failures \/ Failing
  PROVE  BudgetTypes'
<1>1. failures' \in 0..budget.failures
  BY BudgetFacts DEF Types, BudgetTypes, Failing
<1> QED BY <1>1 DEF Types, BudgetTypes, Framed

LEMMA HistoryFrame ==
  ASSUME Types, NEW t, HistoryStep(t)
  PROVE  Framed /\ BudgetTypes' /\ ContentTypes'
<1>1. Framed
  BY DEF HistoryStep, InCommand, Framed, processVars, shutdownVars, eventVars
<1>2. BudgetTypes'
  BY <1>1, FrameTypes DEF HistoryStep
<1>3. ContentTypes'
  BY DEF HistoryStep, ContentKept, InCommand, Types, ContentTypes, archiveVars, shutdownVars
<1> QED BY <1>1, <1>2, <1>3

(* The main task is where it was when another one has moved. *)
LEMMA OthersMain ==
  ASSUME Types, NEW t \in Task, MovesOn(t), UNCHANGED <<life, boots>>, pc[t] # "idle"
  PROVE  MainOK' /\ pc'[Main] = pc[Main] /\ arg'[Main] = arg[Main]
<1>1. t # Main /\ t \in Tasks /\ Main \in Tasks
  BY DatabaseConstants DEF Tasks
<1>2. pc'[Main] = pc[Main] /\ arg'[Main] = arg[Main]
  BY <1>1 DEF MovesOn, TaskMoves, Types, TaskTypes
<1>3. life \notin {"down", "boot"}
  BY <1>1, Begun
<1> QED BY <1>2, <1>3 DEF Types, MainOK

LEMMA DatabaseStarts ==
  ASSUME NEW t \in Task, DatabaseTurn(t)
  PROVE  pc[t] # "idle"
BY DEF DatabaseTurn, ItemInserted, ItemDeleted, NamespaceDropped, ArchiveBegins, Compacted, BackedUp,
       Restored, Answered

LEMMA HistoryStarts ==
  ASSUME NEW t \in Task, HistoryTurn(t)
  PROVE  pc[t] # "idle"
BY DEF HistoryTurn, AddBegins, RowAdded, AddCommitted, RequestBegins, RowsDeleted, DeleteCommitted,
       JobsRead, ResetDeleted, ResetInserted, ResetEnds, Answered, HoldsLock

(* What a step of the database writes *)
ItemsWritten(s) ==
  /\ s \in SUBSET Key
  /\ view' = [view EXCEPT !.items = s] /\ disk' = [view EXCEPT !.items = s] /\ open' = FALSE

LEMMA DatabaseContent ==
  ASSUME Types, NEW t \in Task, DatabaseTurn(t)
  PROVE  \/ /\ UNCHANGED <<contentVars, restored, marked, unclean, overwritten>>
            /\ listed' = listed \/ (NamespaceDropped(t) /\ listed' = (listed /\ view.items # {}))
            /\ backup' \in {backup, view}
         \/ /\ UNCHANGED <<restored, marked, unclean, overwritten, backup>>
            /\ \E s \in SUBSET Key :
                 /\ ItemsWritten(s)
                 /\ listed' = TRUE \/ (listed' = listed /\ s \subseteq view.items)
         \/ /\ restored' = TRUE /\ marked' = FALSE /\ backup \in Content /\ unclean' = backup.unsafe
            /\ overwritten' = FALSE /\ view' = backup /\ disk' = backup /\ open' = FALSE /\ UNCHANGED <<listed, backup>>
<1>0. view \in Content /\ backup \in Content \cup {None} /\ arg[t] \in Arg
  BY DEF Types, ContentTypes, TaskTypes, Tasks
<1>1. view.items \in SUBSET Key
  BY <1>0, ContentFacts
<1>2. CASE ItemInserted(t)
  <2>1. arg[t].key \in Key
    BY <1>2 DEF ItemInserted, Answered, Types, ArgOK, Tasks
  <2>2. view.items \cup {arg[t].key} \in SUBSET Key
    BY <1>1, <2>1
  <2>3. ItemsWritten(view.items \cup {arg[t].key})
    BY <1>2, <2>2 DEF ItemInserted, CommitsAt, ItemsWritten
  <2> QED BY <1>2, <2>2, <2>3 DEF ItemInserted, archiveVars, shutdownVars
<1>3. CASE ItemDeleted(t)
  <2>1. CASE UNCHANGED contentVars
    BY <1>3, <2>1 DEF ItemDeleted, archiveVars, shutdownVars
  <2>2. CASE CommitsAt([view EXCEPT !.items = @ \ {arg[t].key}])
    <3>1. ItemsWritten(view.items \ {arg[t].key})
      BY <1>1, <2>2 DEF CommitsAt, ItemsWritten
    <3>2. UNCHANGED <<restored, marked, unclean, overwritten, backup, listed>>
      BY <1>3 DEF ItemDeleted, archiveVars, shutdownVars
    <3> QED BY <1>1, <3>1, <3>2
  <2> QED BY <1>3, <2>1, <2>2 DEF ItemDeleted
<1>4. CASE NamespaceDropped(t)
  BY <1>4 DEF NamespaceDropped, archiveVars, shutdownVars
<1>5. CASE ArchiveBegins(t) \/ Compacted(t)
  BY <1>5 DEF ArchiveBegins, Compacted, shutdownVars
<1>6. CASE BackedUp(t)
  BY <1>6 DEF BackedUp, shutdownVars
<1>7. CASE Restored(t)
  BY <1>0, <1>7 DEF Restored, CommitsAt
<1> QED BY <1>2, <1>3, <1>4, <1>5, <1>6, <1>7 DEF DatabaseTurn

LEMMA DatabaseTurnTypes ==
  ASSUME Types, NEW t \in Task, DatabaseTurn(t)
  PROVE  Types'
<1>1. t \in Tasks
  BY DEF Tasks
<1>2. MovesOn(t) /\ Framed /\ UNCHANGED <<failures, jobVars>>
  BY DatabaseMoves
<1>3. TaskTypes' /\ ArgOK' /\ LockOK' /\ BudgetTypes' /\ MainOK'
  BY <1>1, <1>2, MovesOnTypes, FrameTypes, OthersMain, DatabaseStarts DEF Framed
<1>4. JobTypes' /\ CurrentOK'
  BY <1>2, OthersCurrent DEF Framed, jobVars, Types, JobTypes
<1>5. ContentTypes'
  <2>1. ContentTypes
    BY DEF Types
  <2>2. hung' \in BOOLEAN /\ unsafeCount' = unsafeCount
    <3>1. hung' \in {hung, TRUE}
      BY DEF DatabaseTurn, ItemInserted, ItemDeleted, NamespaceDropped, ArchiveBegins, Compacted,
             BackedUp, Restored
    <3> QED BY <1>2, <2>1, <3>1 DEF ContentTypes, Framed
  <2>3. CASE /\ UNCHANGED <<restored, marked, unclean, overwritten, backup>>
             /\ \E s \in SUBSET Key :
                  /\ ItemsWritten(s)
                  /\ listed' = TRUE \/ (listed' = listed /\ s \subseteq view.items)
    <3>1. PICK s \in SUBSET Key : ItemsWritten(s) /\ listed' \in {listed, TRUE}
      BY <2>3
    <3>2. view' \in Content /\ disk' \in Content /\ open' \in BOOLEAN
      BY <2>1, <3>1, ContentFacts DEF ItemsWritten, ContentTypes
    <3>3. listed' \in BOOLEAN
      BY <2>1, <3>1 DEF ContentTypes
    <3> QED BY <2>1, <2>2, <2>3, <3>2, <3>3 DEF ContentTypes
  <2>4. CASE /\ UNCHANGED <<contentVars, restored, marked, unclean, overwritten>>
             /\ listed' = listed \/ (NamespaceDropped(t) /\ listed' = (listed /\ view.items # {}))
             /\ backup' \in {backup, view}
    <3>1. listed' \in BOOLEAN
      BY <2>1, <2>4 DEF ContentTypes
    <3>2. backup' \in Content \cup {None}
      BY <2>1, <2>4 DEF ContentTypes
    <3> QED BY <2>1, <2>2, <2>4, <3>1, <3>2 DEF ContentTypes, contentVars
  <2>5. CASE /\ restored' = TRUE /\ marked' = FALSE /\ backup \in Content /\ unclean' = backup.unsafe
             /\ overwritten' = FALSE /\ view' = backup /\ disk' = backup /\ open' = FALSE /\ UNCHANGED <<listed, backup>>
    BY <2>1, <2>2, <2>5, ContentFacts DEF ContentTypes
  <2> QED BY <2>3, <2>4, <2>5, DatabaseContent
<1> QED BY <1>3, <1>4, <1>5 DEF Types

LEMMA HistoryTurnTypes ==
  ASSUME Types, NEW t \in Task, HistoryTurn(t)
  PROVE  Types'
<1>1. t \in Tasks
  BY DEF Tasks
<1>2. HistoryStep(t)
  BY AddingSteps, RequestSteps DEF HistoryTurn
<1>3. Framed /\ BudgetTypes' /\ ContentTypes'
  BY <1>2, HistoryFrame
<1>4. TaskTypes' /\ ArgOK' /\ LockOK' /\ MainOK'
  BY <1>1, <1>3, HistoryMoves, MovesOnTypes, OthersMain, HistoryStarts DEF Framed
<1>5. JobTypes' /\ CurrentOK'
  <2>1. CASE AddBegins(t) \/ RowAdded(t) \/ AddCommitted(t)
    BY <2>1, AddingJob, AddingCurrent
  <2>2. CASE \/ RequestBegins(t) \/ RowsDeleted(t) \/ DeleteCommitted(t) \/ JobsRead(t)
             \/ ResetDeleted(t) \/ ResetInserted(t) \/ ResetEnds(t)
    <3>1. UNCHANGED jobVars
      BY <2>2, RequestSteps
    <3> QED BY <1>3, <2>2, <3>1, OthersCurrent DEF Framed, jobVars, Types, JobTypes
  <2> QED BY <2>1, <2>2 DEF HistoryTurn
<1> QED BY <1>3, <1>4, <1>5 DEF Types

(* Where the main task comes to in finish_job of on_exit *)
LEMMA MainFinishes ==
  ASSUME Types, Finishing(Main)
  PROVE  \/ pc'[Main] = "closing"
         \/ pc'[Main] \in FinishPlaces \cup {"undo"} /\ arg'[Main].then = "close"
<1>1. pc \in [Tasks -> Places] /\ Main \in Tasks
  BY DEF Types, TaskTypes, Tasks
<1>2. life = "exit" /\ (arg[Main].then = "close" \/ pc[Main] = "undo")
  BY <1>1, FinishingStarts
<1>3. CASE NothingToFinish(Main) \/ TotalCommitted(Main)
  <2>1. AfterFinish(Main) /\ arg[Main].then = "close"
    BY <1>2, <1>3 DEF NothingToFinish, TotalCommitted, HoldsLock, Finishes, Answered
  <2> QED BY <1>1, <2>1 DEF AfterFinish
<1>4. CASE FinishBegins(Main) \/ RowFinished(Main) \/ FinishCommitted(Main) \/ TotalWritten(Main)
  <2>1. arg' = arg /\ pc[Main] # "undo"
    BY <1>4 DEF FinishBegins, RowFinished, FinishCommitted, TotalWritten, Finishes, HoldsLock, Answered
  <2>2. pc'[Main] \in FinishPlaces \cup {"undo"}
    BY <1>1, <1>4 DEF FinishBegins, RowFinished, FinishCommitted, TotalWritten, Asks, GoesOn,
                      FinishPlaces, Counting
  <2> QED BY <1>2, <2>1, <2>2
<1>5. CASE Undone(Main)
  BY <1>1, <1>5 DEF Undone, Leaves
<1> QED BY <1>3, <1>4, <1>5, FinishingStarts DEF Finishing

LEMMA FinishingTypes ==
  ASSUME Types, NEW t \in Tasks, Finishing(t)
  PROVE  Types'
<1>1. Framed /\ BudgetTypes' /\ ContentTypes'
  BY FinishingSteps, HistoryFrame
<1>2. TaskTypes' /\ ArgOK' /\ LockOK' /\ JobTypes' /\ CurrentOK'
  BY FinishingMoves, MovesOnTypes, FinishingJob, FinishingCurrent
<1>3. MainOK'
  <2>1. CASE t \in Task
    BY <1>1, <2>1, FinishingMoves, FinishingStarts, OthersMain DEF Framed
  <2>2. CASE t = Main
    <3>1. life = "exit" /\ life' = life /\ boots' = boots /\ boots > 0
      BY <1>1, <2>2, FinishingStarts DEF Framed, Types, MainOK
    <3> QED BY <2>2, <3>1, MainFinishes DEF MainOK
  <2> QED BY <2>1, <2>2 DEF Tasks
<1> QED BY <1>1, <1>2, <1>3 DEF Types

-----------------------------------------------------------------------------
(* The steps of the main task, and the end of the process *)

LEMMA MainAt ==
  ASSUME Types
  PROVE  /\ pc[Main] \in {"count", "mark", "markCommit"} => life = "boot"
         /\ pc[Main] = "closing" => life = "exit"
         /\ pc[Main] \in {"unmark", "stop"} => life = "closing"
BY DEF Types, MainOK, FinishPlaces, Counting

(* The rows that are marked interrupted *)
MarkedRows(rows) ==
  [i \in DOMAIN rows |->
     IF i \in Running(rows) THEN [rows[i] EXCEPT !.status = "interrupted"] ELSE rows[i]]

LEMMA MarkedRowsFacts ==
  ASSUME NEW r \in Rows
  PROVE  /\ MarkedRows(r) \in Rows /\ Running(MarkedRows(r)) = {}
         /\ DOMAIN MarkedRows(r) = DOMAIN r
         /\ \A i \in DOMAIN r : r[i].status # "in_progress" => MarkedRows(r)[i] = r[i]
<1>1. DOMAIN r \subseteq Id /\ \A i \in DOMAIN r : r[i] \in Row
  BY RowsFacts
<1>2. \A x \in Row : /\ [x EXCEPT !.status = "interrupted"] \in Row
                     /\ [x EXCEPT !.status = "interrupted"].status = "interrupted"
  BY DEF Row, Status
<1>3. PICK S \in SUBSET Id : S = DOMAIN r
  BY <1>1
<1>4. MarkedRows(r) \in [S -> Row]
  BY <1>1, <1>2, <1>3 DEF MarkedRows
<1>5. DOMAIN MarkedRows(r) = DOMAIN r
  BY DEF MarkedRows
<1>6. \A i \in DOMAIN r : /\ MarkedRows(r)[i].status # "in_progress"
                          /\ r[i].status # "in_progress" => MarkedRows(r)[i] = r[i]
  BY <1>1, <1>2 DEF MarkedRows, Running
<1>7. Running(MarkedRows(r)) = {}
  BY <1>5, <1>6 DEF Running
<1> QED BY <1>4, <1>5, <1>6, <1>7 DEF Rows

LEMMA InterruptedFacts ==
  ASSUME Types, InterruptedMarked
  PROVE  /\ pc[Main] = "mark" /\ commands # <<>> /\ life = "boot"
         /\ total' \in Nat
         /\ \/ /\ Running(view.rows) = {} /\ UNCHANGED contentVars
               /\ Leaves(Main, "idle") /\ life' = "up"
            \/ /\ view' \in Content /\ view'.rows = MarkedRows(view.rows)
               /\ view'.unsafe = view.unsafe /\ view'.items = view.items
               /\ open' = TRUE /\ disk' = disk
               /\ GoesOn(Main, "markCommit") /\ life' = life
         /\ UNCHANGED <<boots, budget, requests, failures, arg, hung, listed, archiveVars, shutdownVars,
                        printing, eventVars, reqLock, current, currentId, counted>>
<1>0. view \in Content
  BY DEF Types, ContentTypes
<1>1. view.rows \in Rows /\ view.total \in Nat \cup {None}
  BY <1>0, ContentFacts
<1>2. pc[Main] = "mark" /\ commands # <<>> /\ life = "boot"
  BY MainAt DEF InterruptedMarked, Answered
<1>3. total' \in Nat
  BY <1>1 DEF InterruptedMarked
<1>4. CASE Running(view.rows) = {}
  BY <1>2, <1>3, <1>4 DEF InterruptedMarked, Running
<1>5. CASE Running(view.rows) # {}
  <2>1. /\ Executes([view EXCEPT !.rows = MarkedRows(view.rows)])
        /\ GoesOn(Main, "markCommit") /\ life' = life
    BY <1>5 DEF InterruptedMarked, Running, MarkedRows
  <2>2. PICK r \in Rows : r = MarkedRows(view.rows)
    BY <1>1, MarkedRowsFacts
  <2>3. view' = [view EXCEPT !.rows = r] /\ open' = TRUE /\ disk' = disk
    BY <2>1, <2>2 DEF Executes
  <2>4. view' \in Content /\ view'.rows = r /\ view'.unsafe = view.unsafe /\ view'.items = view.items
    BY <1>0, <2>3, ContentFacts
  <2> QED BY <1>2, <1>3, <2>1, <2>2, <2>3, <2>4 DEF InterruptedMarked
<1> QED BY <1>4, <1>5

(* A step of the main task that waits for no lock and no job *)
LEMMA MainMoves ==
  ASSUME Types, NEW to \in Places \ (Owned \cup {"insert"}), pc' = [pc EXCEPT ![Main] = to],
         commands' \in {<<Main>>, commands, Append(commands, Main)} \/
           (commands # <<>> /\ commands' \in {Tail(commands), Append(Tail(commands), Main)}),
         UNCHANGED <<backupLock, current, currentId>>,
         UNCHANGED <<arg, reqLock>> \/
           (/\ arg' = [arg EXCEPT ![Main] = ForJob(None, "server_exit", "close")]
            /\ reqLock' = Append(reqLock, Main))
  PROVE  /\ TaskTypes' /\ ArgOK' /\ LockOK'
         /\ \A t \in Task : pc'[t] = pc[t]
         /\ pc'[Main] = to
         /\ (life' \in {"down", "boot"} => life \in {"down", "boot"}) => CurrentOK'
<1>0. Main \in Tasks /\ Main \notin Task /\ Task \subseteq Tasks
  BY DatabaseConstants DEF Tasks
<1>1. TaskTypes /\ ArgOK /\ LockOK /\ CurrentOK
  BY DEF Types
<1>2. pc' \in [Tasks -> Places] /\ pc'[Main] = to /\ \A t \in Tasks : t # Main => pc'[t] = pc[t]
  BY <1>0, <1>1 DEF TaskTypes
<1>3. arg' \in [Tasks -> Arg] /\ ArgOK'
  <2>1. CASE arg' = arg
    BY <1>0, <1>1, <1>2, <2>1 DEF TaskTypes, ArgOK
  <2>2. CASE arg' = [arg EXCEPT ![Main] = ForJob(None, "server_exit", "close")]
    <3> DEFINE a == ForJob(None, "server_exit", "close")
    <3>0. "server_exit" \in Status /\ "close" \in Then /\ None \in PrintNo \cup {None}
      BY DEF Status, Then
    <3>1. a \in Arg /\ a.then = "close" /\ a.status \in Status
      BY <3>0, ForJobType
    <3> HIDE DEF a
    <3>2. /\ arg' \in [Tasks -> Arg] /\ arg'[Main] = a
          /\ \A t \in Tasks : t # Main => arg'[t] = arg[t]
      BY <1>0, <1>1, <2>2, <3>1 DEF TaskTypes, a
    <3> QED BY <1>0, <1>1, <1>2, <3>1, <3>2 DEF ArgOK
  <2> QED BY <2>1, <2>2
<1>4. commands' \in Seq(Tasks)
  <2>1. commands \in Seq(Tasks) /\ <<Main>> \in Seq(Tasks)
    BY <1>0, <1>1 DEF TaskTypes
  <2>2. commands # <<>> => Tail(commands) \in Seq(Tasks)
    BY <2>1, TailType
  <2>3. CASE commands' \in {<<Main>>, commands, Append(commands, Main)}
    <3>1. Append(commands, Main) \in Seq(Tasks)
      BY <1>0, <2>1, AppendHead
    <3> QED BY <2>1, <2>3, <3>1
  <2>4. CASE commands # <<>> /\ commands' \in {Tail(commands), Append(Tail(commands), Main)}
    BY <1>0, <2>2, <2>4
  <2> QED BY <2>3, <2>4
<1>5. reqLock' \in Seq(Tasks) /\ (reqLock # <<>> => reqLock' # <<>> /\ Head(reqLock') = Head(reqLock))
  <2>1. reqLock \in Seq(Tasks)
    BY <1>1 DEF TaskTypes
  <2>2. /\ Append(reqLock, Main) \in Seq(Tasks)
        /\ reqLock # <<>> => /\ Append(reqLock, Main) # <<>>
                             /\ Head(Append(reqLock, Main)) = Head(reqLock)
    BY <1>0, <2>1, AppendHead
  <2>3. reqLock' \in {reqLock, Append(reqLock, Main)}
    OBVIOUS
  <2> QED BY <2>1, <2>2, <2>3
<1>6. LockOK'
  <2>1. Owned \cap Archive = {} /\ Main \notin Task
    BY <1>0 DEF Owned, Archive, Adding, FinishPlaces, Counting
  <2> QED BY <1>0, <1>1, <1>2, <1>5 DEF LockOK
<1>7. (life' \in {"down", "boot"} => life \in {"down", "boot"}) => CurrentOK'
  BY <1>1, <1>2 DEF CurrentOK, Owned
<1> QED BY <1>0, <1>1, <1>2, <1>3, <1>4, <1>5, <1>6, <1>7 DEF TaskTypes

LEMMA GoneTypes ==
  ASSUME Types, ProcessGone, unclean' \in Nat
  PROVE  Types'
<1>1. /\ pc' = [t \in Tasks |-> "idle"] /\ arg' = [t \in Tasks |-> NoArg]
      /\ commands' = <<>> /\ reqLock' = <<>> /\ backupLock' = <<>>
  BY DEF ProcessGone
<1>2. \A t \in Tasks : pc'[t] = "idle" /\ arg'[t] = NoArg
  BY <1>1
<1>3. Main \in Tasks /\ Task \subseteq Tasks
  BY DEF Tasks
<1>4. TaskTypes'
  BY <1>1, NoArgType DEF TaskTypes, Places
<1>5. ArgOK'
  BY <1>2, DatabaseConstants DEF ArgOK, NoArg
<1>6. LockOK'
  BY <1>2, <1>3 DEF LockOK, Owned, Archive, Adding, FinishPlaces, Counting
<1>7. BudgetTypes'
  BY DEF ProcessGone, Types, BudgetTypes, eventVars
<1>8. ContentTypes'
  BY DEF ProcessGone, Types, ContentTypes, RollsBack
<1>9. JobTypes' /\ CurrentOK'
  BY <1>2 DEF ProcessGone, Types, JobTypes, CurrentOK, Adding, FinishPlaces, Counting
<1>10. MainOK'
  BY <1>2, <1>3 DEF ProcessGone, MainOK
<1> QED BY <1>4, <1>5, <1>6, <1>7, <1>8, <1>9, <1>10 DEF Types

LEMMA BootTypes ==
  ASSUME Types, Boot, OfDatabase
  PROVE  Types'
<1>0. disk \in Content
  BY DEF Types, ContentTypes
<1>1. pc' = [pc EXCEPT ![Main] = "count"] /\ "count" \in Places \ (Owned \cup {"insert"})
  BY DEF Boot, Places, Owned, Adding, FinishPlaces, Counting
<1>2. UNCHANGED <<backupLock, current, currentId, arg, reqLock>> /\ commands' = <<Main>>
  BY DEF Boot, OfDatabase, jobVars, archiveVars
<1>3. life = "down" /\ life' = "boot" /\ boots' = boots + 1 /\ boots < MaxBoots
  BY DEF Boot
<1>4. /\ TaskTypes' /\ ArgOK' /\ LockOK' /\ CurrentOK' /\ pc'[Main] = "count"
      /\ \A t \in Task : pc'[t] = pc[t]
  BY <1>1, <1>2, <1>3, MainMoves
<1>5. BudgetTypes'
  BY <1>3, DatabaseConstants DEF Boot, OfDatabase, eventVars, Types, BudgetTypes
<1>6. ContentTypes'
  BY <1>0, ContentFacts DEF Boot, Types, ContentTypes, contentVars, archiveVars
<1>7. JobTypes'
  BY DEF OfDatabase, jobVars, Types, JobTypes
<1>8. MainOK'
  BY <1>3, <1>4, DatabaseConstants DEF Types, MainOK, BudgetTypes
<1> QED BY <1>4, <1>5, <1>6, <1>7, <1>8 DEF Types

LEMMA CountedTypes ==
  ASSUME Types, Counted
  PROVE  Types' /\ view'.rows = view.rows /\ view'.items = view.items
         /\ view'.unsafe = unsafeCount + 1 /\ disk' = view'
<1>0. view \in Content /\ unsafeCount + 1 \in Nat
  BY DEF Types, ContentTypes
<1>1. pc[Main] = "count" /\ commands # <<>> /\ GoesOn(Main, "mark") /\ life = "boot"
  BY MainAt DEF Counted, Answered
<1>2. "mark" \in Places \ (Owned \cup {"insert"})
  BY DEF Places, Owned, Adding, FinishPlaces, Counting
<1>3. UNCHANGED <<backupLock, current, currentId, arg, reqLock, life, boots, total, counted>>
  BY DEF Counted, jobVars, archiveVars, processVars
<1>4. /\ TaskTypes' /\ ArgOK' /\ LockOK' /\ CurrentOK' /\ pc'[Main] = "mark"
      /\ \A t \in Task : pc'[t] = pc[t]
  BY <1>1, <1>2, <1>3, MainMoves DEF GoesOn
<1>5. BudgetTypes'
  BY DEF Counted, processVars, eventVars, Types, BudgetTypes
<1>6. view' = [view EXCEPT !.unsafe = unsafeCount + 1] /\ disk' = view' /\ open' = FALSE
  BY DEF Counted, CommitsAt
<1>7. /\ view' \in Content /\ view'.rows = view.rows /\ view'.items = view.items
      /\ view'.unsafe = unsafeCount + 1
  BY <1>0, <1>6, ContentFacts
<1>8. ContentTypes'
  BY <1>6, <1>7 DEF Counted, Types, ContentTypes, archiveVars
<1>9. JobTypes'
  BY <1>3 DEF Types, JobTypes
<1>10. MainOK'
  BY <1>1, <1>3, <1>4 DEF Types, MainOK
<1> QED BY <1>4, <1>5, <1>6, <1>7, <1>8, <1>9, <1>10 DEF Types

LEMMA InterruptedTypes ==
  ASSUME Types, InterruptedMarked
  PROVE  Types'
<1>0. view \in Content /\ disk \in Content
  BY DEF Types, ContentTypes
<1>1. "idle" \in Places \ (Owned \cup {"insert"}) /\ "markCommit" \in Places \ (Owned \cup {"insert"})
  BY DEF Places, Owned, Adding, FinishPlaces, Counting
<1>2. /\ UNCHANGED <<boots, budget, requests, failures, arg, hung, listed, archiveVars, shutdownVars,
                     printing, eventVars, reqLock, current, currentId, counted>>
      /\ life = "boot" /\ commands # <<>> /\ total' \in Nat
  BY InterruptedFacts
<1>3. PICK to \in {"idle", "markCommit"} :
        /\ pc' = [pc EXCEPT ![Main] = to]
        /\ commands' \in {Tail(commands), Append(Tail(commands), Main)}
        /\ life' = IF to = "idle" THEN "up" ELSE life
  BY InterruptedFacts DEF Leaves, GoesOn
<1>4. /\ TaskTypes' /\ ArgOK' /\ LockOK' /\ CurrentOK' /\ pc'[Main] = to
      /\ \A t \in Task : pc'[t] = pc[t]
  BY <1>1, <1>2, <1>3, MainMoves DEF archiveVars
<1>5. BudgetTypes'
  BY <1>2 DEF eventVars, Types, BudgetTypes
<1>6. ContentTypes'
  <2>1. view' \in Content /\ disk' \in Content /\ open' \in BOOLEAN
    BY <1>0, InterruptedFacts DEF contentVars, Types, ContentTypes
  <2> QED BY <1>2, <2>1 DEF Types, ContentTypes, archiveVars, shutdownVars
<1>7. JobTypes'
  BY <1>2 DEF Types, JobTypes
<1>8. MainOK'
  BY <1>2, <1>3, <1>4 DEF Types, MainOK
<1> QED BY <1>4, <1>5, <1>6, <1>7, <1>8 DEF Types

LEMMA MarkTypes ==
  ASSUME Types, MarkCommitted
  PROVE  Types'
<1>1. "idle" \in Places \ (Owned \cup {"insert"})
  BY DEF Places, Owned, Adding, FinishPlaces, Counting
<1>2. commands # <<>> /\ life = "boot" /\ life' = "up" /\ Leaves(Main, "idle")
  BY MainAt DEF MarkCommitted, Answered
<1>3. UNCHANGED <<arg, backupLock, reqLock, current, currentId>>
  BY DEF MarkCommitted, archiveVars, jobVars
<1>4. /\ TaskTypes' /\ ArgOK' /\ LockOK' /\ CurrentOK' /\ pc'[Main] = "idle"
      /\ \A t \in Task : pc'[t] = pc[t]
  BY <1>1, <1>2, <1>3, MainMoves DEF Leaves
<1>5. BudgetTypes' /\ JobTypes'
  BY DEF MarkCommitted, eventVars, jobVars, Types, BudgetTypes, JobTypes
<1>6. ContentTypes'
  BY DEF MarkCommitted, Commits, Types, ContentTypes, archiveVars, shutdownVars
<1>7. MainOK'
  BY <1>2, <1>4 DEF MarkCommitted, Types, MainOK
<1> QED BY <1>4, <1>5, <1>6, <1>7 DEF Types

LEMMA StopTypes ==
  ASSUME Types, Stop
  PROVE  Types'
<1>1. PICK to \in {"closing", "lock"} :
        /\ pc' = [pc EXCEPT ![Main] = to]
        /\ IF to = "closing" THEN UNCHANGED <<arg, reqLock>>
           ELSE /\ arg' = [arg EXCEPT ![Main] = ForJob(None, "server_exit", "close")]
                /\ reqLock' = Append(reqLock, Main)
  BY DEF Stop
<1>2. to \in Places \ (Owned \cup {"insert"})
  BY DEF Places, Owned, Adding, FinishPlaces, Counting
<1>3. life = "up" /\ life' = "exit" /\ boots' = boots
  BY DEF Stop
<1>4. UNCHANGED <<commands, backupLock, current, currentId>>
  BY DEF Stop, archiveVars, jobVars
<1>5. /\ TaskTypes' /\ ArgOK' /\ LockOK' /\ CurrentOK' /\ pc'[Main] = to
      /\ \A t \in Task : pc'[t] = pc[t]
  BY <1>1, <1>2, <1>3, <1>4, MainMoves
<1>6. BudgetTypes' /\ JobTypes'
  BY DEF Stop, eventVars, jobVars, Types, BudgetTypes, JobTypes
<1>7. ContentTypes'
  BY DEF Stop, contentVars, Types, ContentTypes, archiveVars, shutdownVars
<1>8. to = "lock" => arg'[Main].then = "close"
  <2>1. ForJob(None, "server_exit", "close").then = "close"
    BY DEF ForJob, NoArg
  <2>2. arg \in [Tasks -> Arg] /\ Main \in Tasks
    BY DEF Types, TaskTypes, Tasks
  <2> QED BY <1>1, <2>1, <2>2
<1>9. MainOK'
  BY <1>1, <1>3, <1>5, <1>8 DEF Types, MainOK
<1> QED BY <1>5, <1>6, <1>7, <1>9 DEF Types

LEMMA ClosingTypes ==
  ASSUME Types, CloseDatabase \/ Unmarked, OfDatabase
  PROVE  /\ Types' /\ view'.rows = view.rows /\ view'.items = view.items
         /\ CloseDatabase => UNCHANGED contentVars
         /\ Unmarked => view'.unsafe = unsafeCount /\ disk' = view'
<1>0. view \in Content /\ unsafeCount \in Nat
  BY DEF Types, ContentTypes
<1>1. PICK to \in {"unmark", "stop"} :
        /\ pc' = [pc EXCEPT ![Main] = to]
        /\ \/ commands' = Append(commands, Main)
           \/ commands # <<>> /\ commands' = Append(Tail(commands), Main)
  BY DEF CloseDatabase, Unmarked, Asks, GoesOn, Answered
<1>2. to \in Places \ (Owned \cup {"insert"})
  BY DEF Places, Owned, Adding, FinishPlaces, Counting
<1>3. life \in {"exit", "closing"} /\ life' = "closing" /\ boots' = boots
  BY MainAt DEF CloseDatabase, Unmarked, Answered, processVars
<1>4. UNCHANGED <<arg, backupLock, reqLock, current, currentId>>
  BY DEF CloseDatabase, Unmarked, archiveVars, jobVars, OfDatabase
<1>5. /\ TaskTypes' /\ ArgOK' /\ LockOK' /\ CurrentOK' /\ pc'[Main] = to
      /\ \A t \in Task : pc'[t] = pc[t]
  BY <1>1, <1>2, <1>3, <1>4, MainMoves
<1>6. BudgetTypes' /\ JobTypes'
  BY DEF CloseDatabase, Unmarked, processVars, OfDatabase, eventVars, jobVars, Types, BudgetTypes,
         JobTypes
<1>7. CASE CloseDatabase
  <2>1. UNCHANGED contentVars /\ ContentTypes'
    BY <1>7 DEF CloseDatabase, contentVars, Types, ContentTypes, archiveVars, shutdownVars
  <2>2. MainOK'
    BY <1>3, <1>5 DEF Types, MainOK
  <2>3. view' = view /\ ~Unmarked
    BY <1>7, <2>1 DEF contentVars, CloseDatabase, Unmarked, Answered
  <2> QED BY <1>5, <1>6, <2>1, <2>2, <2>3 DEF Types
<1>8. CASE Unmarked
  <2>1. view' = [view EXCEPT !.unsafe = unsafeCount] /\ disk' = view' /\ open' = FALSE
    BY <1>8 DEF Unmarked, CommitsAt
  <2>2. /\ view' \in Content /\ view'.rows = view.rows /\ view'.items = view.items
        /\ view'.unsafe = unsafeCount
    BY <1>0, <2>1, ContentFacts
  <2>3. ContentTypes'
    BY <1>0, <1>8, <2>1, <2>2 DEF Unmarked, Types, ContentTypes, archiveVars
  <2>4. MainOK'
    BY <1>3, <1>5 DEF Types, MainOK
  <2>5. ~CloseDatabase
    BY <1>8 DEF CloseDatabase, Unmarked, Answered
  <2> QED BY <1>5, <1>6, <2>1, <2>2, <2>3, <2>4, <2>5 DEF Types
<1> QED BY <1>7, <1>8

LEMMA EndTypes ==
  ASSUME Types, Stopped \/ Crash
  PROVE  Types'
<1>1. ProcessGone
  BY DEF Stopped, Crash
<1>2. unclean' \in Nat
  BY DEF Stopped, Crash, Types, ContentTypes
<1> QED BY <1>1, <1>2, GoneTypes

LEMMA InitTypes == Init => Types
<1> SUFFICES ASSUME Init PROVE Types
  OBVIOUS
<1>1. \A t \in Tasks : pc[t] = "idle" /\ arg[t] = NoArg
  BY DEF Init
<1>2. Main \in Tasks /\ Task \subseteq Tasks
  BY DEF Tasks
<1>3. BudgetTypes
  BY BudgetFacts, DatabaseConstants DEF Init, BudgetTypes
<1>4. TaskTypes
  BY NoArgType DEF Init, TaskTypes, Places
<1>5. ContentTypes
  <2>1. <<>> \in Rows
    <3>1. <<>> \in [{} -> Row] /\ {} \in SUBSET Id
      OBVIOUS
    <3> QED BY <3>1 DEF Rows
  <2>2. Empty \in [rows : Rows, total : Nat \cup {None}, unsafe : Nat, items : SUBSET Key]
    BY <2>1 DEF Empty
  <2>3. Empty \in Content
    BY <2>2 DEF Content, Rows
  <2> QED BY <2>3 DEF Init, ContentTypes
<1>6. JobTypes /\ CurrentOK
  BY <1>1 DEF Init, JobTypes, CurrentOK, Adding, FinishPlaces, Counting
<1>7. ArgOK
  BY <1>1, DatabaseConstants DEF ArgOK, NoArg
<1>8. LockOK
  BY <1>1, <1>2 DEF LockOK, Owned, Archive, Adding, FinishPlaces, Counting
<1>9. MainOK
  BY <1>1, <1>2 DEF Init, MainOK
<1> QED BY <1>3, <1>4, <1>5, <1>6, <1>7, <1>8, <1>9 DEF Types

(* The steps, in the groups in which they are proved *)
LEMMA NextCases ==
  ASSUME Next
  PROVE  \/ \E t \in Task : DatabaseTurn(t) \/ HistoryTurn(t)
         \/ \E t \in Tasks : Finishing(t)
         \/ NewTask
         \/ Boot /\ OfDatabase
         \/ Counted \/ InterruptedMarked \/ MarkCommitted \/ Stop
         \/ (CloseDatabase \/ Unmarked) /\ OfDatabase
         \/ Stopped \/ Crash
<1>1. CASE \E t \in Task : Turn(t)
  BY <1>1 DEF Turn, DatabaseTurn, HistoryTurn
<1>2. CASE Starting \/ Closing
  BY <1>2 DEF Starting, Closing
<1>3. CASE \/ PrintStarts \/ PrintEnds \/ KlippyLost \/ HistoryRequest \/ ResetTotals
           \/ (PostItem \/ DeleteItem) /\ OfDatabase
           \/ \E place \in {"compact", "backup", "restore"} : RequestArchive(place) /\ OfDatabase
  BY <1>3 DEF NewTask, Archive
<1> QED BY <1>1, <1>2, <1>3 DEF Next

LEMMA NextTypes ==
  ASSUME Types, [Next]_vars
  PROVE  Types'
<1>1. ASSUME NEW t \in Task, DatabaseTurn(t) \/ HistoryTurn(t)
      PROVE  Types'
  BY <1>1, DatabaseTurnTypes, HistoryTurnTypes
<1>2. ASSUME NEW t \in Tasks, Finishing(t)
      PROVE  Types'
  BY <1>2, FinishingTypes
<1>3. CASE NewTask
  BY <1>3, NewTaskFacts, BeginsTypes
<1>4. CASE Boot /\ OfDatabase
  BY <1>4, BootTypes
<1>5. CASE Counted \/ InterruptedMarked \/ MarkCommitted \/ Stop
  BY <1>5, CountedTypes, InterruptedTypes, MarkTypes, StopTypes
<1>6. CASE (CloseDatabase \/ Unmarked) /\ OfDatabase
  BY <1>6, ClosingTypes
<1>7. CASE Stopped \/ Crash
  BY <1>7, EndTypes
<1>8. CASE UNCHANGED vars
  BY <1>8 DEF vars, databaseVars, processVars, contentVars, archiveVars, shutdownVars, eventVars,
              jobVars,
              Types, BudgetTypes, TaskTypes, ContentTypes, JobTypes, ArgOK, LockOK, CurrentOK, MainOK
<1> QED BY <1>1, <1>2, <1>3, <1>4, <1>5, <1>6, <1>7, <1>8, NextCases

-----------------------------------------------------------------------------
(* The steps of the history under the locks, seen from the main task *)

LEMMA HistoryActs ==
  ASSUME Types, NEW t \in Tasks, (t \in Task /\ HistoryTurn(t)) \/ Finishing(t)
  PROVE  /\ InCommand /\ ContentKept
         /\ RowsShift \/ (\E id : RowWritten(id)) \/ (\E kept : RowsDropped(kept))
         /\ life \in {"up", "exit", "closing"} /\ UNCHANGED <<life, boots>>
         /\ pc'[Main] = pc[Main] \/ pc'[Main] \notin {"count", "mark", "markCommit", "stop"}
<1>1. CASE t \in Task /\ HistoryTurn(t)
  <2>1. HistoryStep(t)
    BY <1>1, AddingSteps, RequestSteps DEF HistoryTurn
  <2>2. RowsShift \/ (\E id : RowWritten(id)) \/ (\E kept : RowsDropped(kept))
    BY <1>1, AddingSteps, RequestSteps DEF HistoryTurn
  <2>3. pc[t] # "idle" /\ life \in {"up", "exit", "closing"}
    BY <1>1, HistoryStarts, Begun
  <2>4. Framed
    BY <2>1, HistoryFrame
  <2>5. pc'[Main] = pc[Main]
    BY <1>1, <2>3, <2>4, HistoryMoves, OthersMain DEF Framed
  <2> QED BY <2>1, <2>2, <2>3, <2>4, <2>5 DEF HistoryStep, Framed
<1>2. CASE Finishing(t)
  <2>1. HistoryStep(t) /\ (RowsShift \/ \E id : RowWritten(id))
    BY <1>2, FinishingSteps
  <2>2. Framed
    BY <2>1, HistoryFrame
  <2>3. pc[t] # "idle" /\ life \in {"up", "exit", "closing"} /\ (t = Main => life = "exit")
    BY <1>2, FinishingStarts
  <2>4. pc'[Main] = pc[Main] \/ pc'[Main] \notin {"count", "mark", "markCommit", "stop"}
    <3>1. CASE t \in Task
      BY <1>2, <2>2, <2>3, <3>1, FinishingMoves, OthersMain DEF Framed
    <3>2. CASE t = Main
      BY <1>2, <3>2, MainFinishes DEF FinishPlaces, Counting
    <3> QED BY <3>1, <3>2 DEF Tasks
  <2> QED BY <2>1, <2>2, <2>3, <2>4 DEF HistoryStep, Framed
<1> QED BY <1>1, <1>2

LEMMA NewTaskActs ==
  ASSUME Types, NewTask
  PROVE  /\ UNCHANGED <<life, boots, failures, contentVars, hung, listed, restored, backup, shutdownVars,
                        current, currentId, counted>>
         /\ pc'[Main] = pc[Main] /\ life \in {"up", "exit"}
<1>1. PICK t, place, a : BeginsTask(t, place, a)
  BY NewTaskFacts
<1>2. t # Main /\ Main \in Tasks
  BY <1>1, DatabaseConstants DEF BeginsTask, Tasks
<1> QED BY <1>1, <1>2 DEF BeginsTask, Types, TaskTypes, processVars, Serving

LEMMA DatabaseActs ==
  ASSUME Types, NEW t \in Task, DatabaseTurn(t)
  PROVE  /\ life \in {"up", "exit", "closing"}
         /\ UNCHANGED <<life, boots, failures, unsafeCount, nextPrint, jobVars>>
         /\ pc'[Main] = pc[Main]
<1>1. MovesOn(t) /\ Framed /\ UNCHANGED <<failures, jobVars>>
  BY DatabaseMoves
<1> QED BY <1>1, DatabaseStarts, OthersMain, Begun DEF Framed, Tasks
-----------------------------------------------------------------------------
(* The count of unsafe shutdowns *)

LEMMA UnsafeStays ==
  ASSUME UnsafeInv, UNCHANGED <<life, restored, marked, unclean, overwritten, unsafeCount>>,
         view'.unsafe \in {view.unsafe, disk.unsafe}, disk'.unsafe \in {view.unsafe, disk.unsafe},
         pc'[Main] \in {"count", "stop"} => pc[Main] \in {"count", "stop"}
  PROVE  UnsafeInv'
BY DEF UnsafeInv, UnsafeShutdownsCounted

LEMMA UnsafeStep ==
  ASSUME Types, UnsafeInv, [Next]_vars
  PROVE  UnsafeInv'
<1>0. /\ view \in Content /\ disk \in Content
      /\ unclean \in Nat /\ unsafeCount \in Nat /\ marked \in BOOLEAN /\ restored \in BOOLEAN
      /\ overwritten \in BOOLEAN
  BY DEF Types, ContentTypes
<1>1. ASSUME NEW t \in Task, DatabaseTurn(t)
      PROVE  UnsafeInv'
  <2>1. /\ UNCHANGED <<life, unsafeCount>> /\ pc'[Main] = pc[Main]
        /\ life \in {"up", "exit", "closing"}
    BY <1>1, DatabaseActs
  <2>2. CASE UNCHANGED <<contentVars, restored, marked, unclean, overwritten>>
    BY <2>1, <2>2, UnsafeStays DEF contentVars
  <2>3. CASE UNCHANGED <<restored, marked, unclean, overwritten>> /\ \E s \in SUBSET Key : ItemsWritten(s)
    <3>1. view'.unsafe = view.unsafe /\ disk'.unsafe = view.unsafe
      BY <1>0, <2>3, ContentFacts DEF ItemsWritten
    <3> QED BY <2>1, <2>3, <3>1, UnsafeStays
  <2>4. CASE restored' = TRUE /\ marked' = FALSE /\ backup \in Content /\ unclean' = backup.unsafe
             /\ overwritten' = FALSE /\ view' = backup /\ disk' = backup
    BY <2>1, <2>4, ContentFacts DEF UnsafeInv, UnsafeShutdownsCounted
  <2> QED BY <1>1, <2>2, <2>3, <2>4, DatabaseContent
<1>2. ASSUME NEW t \in Tasks, (t \in Task /\ HistoryTurn(t)) \/ Finishing(t)
      PROVE  UnsafeInv'
  <2>1. UNCHANGED <<restored, marked, unclean, overwritten, unsafeCount, life>>
    BY <1>2, HistoryActs DEF InCommand, archiveVars, shutdownVars
  <2> QED BY <1>2, <2>1, HistoryActs, UnsafeStays DEF ContentKept
<1>3. CASE NewTask
  BY <1>3, NewTaskActs, UnsafeStays DEF contentVars, shutdownVars
<1>4. CASE Boot /\ OfDatabase
  <2>1. pc'[Main] = "count"
    BY <1>4 DEF Boot, Types, TaskTypes, Tasks
  <2> QED BY <1>0, <1>4, <2>1 DEF Boot, contentVars, archiveVars, UnsafeInv, UnsafeShutdownsCounted
<1>5. CASE Counted
  <2>1. pc[Main] = "count" /\ life = "boot" /\ pc'[Main] = "mark"
    BY <1>5, MainAt DEF Counted, Answered, GoesOn, Types, TaskTypes, Tasks
  <2>2. /\ UNCHANGED <<life, restored, unclean, overwritten, unsafeCount>> /\ marked' = TRUE
        /\ view'.unsafe = unsafeCount + 1 /\ disk' = view'
    BY <1>5, CountedTypes DEF Counted, processVars, archiveVars
  <2> QED BY <1>0, <2>1, <2>2 DEF UnsafeInv, UnsafeShutdownsCounted
<1>6. CASE InterruptedMarked
  <2>1. /\ UNCHANGED <<restored, marked, unclean, overwritten, unsafeCount>> /\ life = "boot" /\ pc[Main] = "mark"
        /\ view'.unsafe = view.unsafe /\ disk' = disk
    BY <1>6, InterruptedFacts DEF archiveVars, shutdownVars, contentVars
  <2>2. pc'[Main] \in {"idle", "markCommit"} /\ life' \in {"up", "boot"}
    BY <1>6, InterruptedFacts DEF Leaves, GoesOn, Types, TaskTypes, Tasks
  <2> QED BY <2>1, <2>2 DEF UnsafeInv, UnsafeShutdownsCounted
<1>7. CASE MarkCommitted
  <2>1. /\ UNCHANGED <<restored, marked, unclean, overwritten, unsafeCount>> /\ life = "boot" /\ life' = "up"
        /\ view' = view /\ disk' = view /\ pc'[Main] = "idle"
    BY <1>7, MainAt DEF MarkCommitted, Answered, Commits, archiveVars, shutdownVars, Leaves, Types,
                        TaskTypes, Tasks
  <2> QED BY <2>1 DEF UnsafeInv, UnsafeShutdownsCounted
<1>8. CASE Stop
  <2>1. /\ UNCHANGED <<restored, marked, unclean, overwritten, unsafeCount, view, disk>>
        /\ life = "up" /\ life' = "exit" /\ pc'[Main] \in {"closing", "lock"}
    BY <1>8 DEF Stop, archiveVars, shutdownVars, contentVars, Types, TaskTypes, Tasks
  <2> QED BY <2>1 DEF UnsafeInv, UnsafeShutdownsCounted
<1>9. CASE CloseDatabase /\ OfDatabase
  <2>1. /\ UNCHANGED <<restored, marked, unclean, overwritten, unsafeCount, view, disk>>
        /\ life = "exit" /\ life' = "closing"
        /\ pc'[Main] = IF restored THEN "stop" ELSE "unmark"
    BY <1>9, MainAt DEF CloseDatabase, archiveVars, shutdownVars, contentVars, Asks, Types, TaskTypes,
                        Tasks
  <2> QED BY <2>1 DEF UnsafeInv, UnsafeShutdownsCounted
<1>10. CASE Unmarked /\ OfDatabase
  <2>1. /\ UNCHANGED <<restored, unsafeCount, life>> /\ marked' = FALSE /\ life = "closing"
        /\ unclean' = unclean /\ overwritten' = (overwritten \/ restored)
        /\ view'.unsafe = unsafeCount /\ disk' = view'
    <3>1. life = "closing"
      BY <1>10, MainAt DEF Unmarked, Answered
    <3>2. view'.unsafe = unsafeCount /\ disk' = view'
      BY <1>10, ClosingTypes
    <3>3. overwritten' = (overwritten \/ restored)
      BY <1>10, Zenon DEF Unmarked
    <3> QED BY <1>10, <3>1, <3>2, <3>3 DEF Unmarked, archiveVars, processVars
  <2> QED BY <1>0, <2>1 DEF UnsafeInv, UnsafeShutdownsCounted
<1>11. CASE Stopped \/ Crash
  <2>1. /\ ProcessGone
        /\ \/ unclean' = unclean /\ pc[Main] = "stop"
           \/ unclean' = IF marked THEN unclean + 1 ELSE unclean
    BY <1>11 DEF Stopped, Crash, Answered
  <2>2. /\ view' = disk /\ disk' = disk /\ marked' = FALSE /\ life' = "down" /\ restored' = FALSE
        /\ overwritten' = overwritten
    BY <2>1 DEF ProcessGone, RollsBack
  <2> QED BY <1>0, <2>1, <2>2 DEF UnsafeInv, UnsafeShutdownsCounted
<1>12. CASE UNCHANGED vars
  BY <1>12 DEF vars, databaseVars, processVars, contentVars, archiveVars, shutdownVars, UnsafeInv,
               UnsafeShutdownsCounted
<1> QED BY <1>1, <1>2, <1>3, <1>4, <1>5, <1>6, <1>7, <1>8, <1>9, <1>10, <1>11, <1>12, NextCases DEF Tasks

-----------------------------------------------------------------------------
(* The items of the namespace *)

LEMMA ItemsStay ==
  ASSUME ItemsInv, view'.items \in {view.items, disk.items}, disk'.items \in {view.items, disk.items},
         (life' # "down" /\ ~restored') => (life # "down" /\ ~restored), listed' = listed
  PROVE  ItemsInv'
BY DEF ItemsInv, NamespaceListed

LEMMA ItemsStep ==
  ASSUME Types, ItemsInv, [Next]_vars
  PROVE  ItemsInv'
<1>0. view \in Content /\ disk \in Content
  BY DEF Types, ContentTypes
<1>1. ASSUME NEW t \in Task, DatabaseTurn(t)
      PROVE  ItemsInv'
  <2>1. UNCHANGED life
    BY <1>1, DatabaseActs
  <2>2. CASE /\ UNCHANGED <<contentVars, restored>>
             /\ listed' = listed \/ listed' = (listed /\ view.items # {})
    BY <2>1, <2>2 DEF contentVars, ItemsInv, NamespaceListed
  <2>3. CASE /\ UNCHANGED restored
             /\ \E s \in SUBSET Key :
                  /\ ItemsWritten(s)
                  /\ listed' = TRUE \/ (listed' = listed /\ s \subseteq view.items)
    <3>1. PICK s \in SUBSET Key : /\ ItemsWritten(s)
                                  /\ listed' = TRUE \/ (listed' = listed /\ s \subseteq view.items)
      BY <2>3
    <3>2. view'.items = s /\ disk'.items = s
      BY <1>0, <3>1, ContentFacts DEF ItemsWritten
    <3> QED BY <2>1, <2>3, <3>1, <3>2 DEF ItemsInv, NamespaceListed
  <2>4. CASE restored' = TRUE /\ view' = backup /\ disk' = backup
    BY <2>4 DEF ItemsInv, NamespaceListed
  <2> QED BY <1>1, <2>2, <2>3, <2>4, DatabaseContent
<1>2. ASSUME NEW t \in Tasks, (t \in Task /\ HistoryTurn(t)) \/ Finishing(t)
      PROVE  ItemsInv'
  <2>1. UNCHANGED <<restored, listed, life>>
    BY <1>2, HistoryActs DEF InCommand, archiveVars
  <2> QED BY <1>2, <2>1, HistoryActs, ItemsStay DEF ContentKept
<1>3. CASE NewTask
  BY <1>3, NewTaskActs, ItemsStay DEF contentVars
<1>4. CASE Boot /\ OfDatabase
  BY <1>4 DEF Boot, contentVars, ItemsInv, NamespaceListed
<1>5. CASE Counted
  <2>1. life = "boot" /\ UNCHANGED <<life, restored, listed>>
    BY <1>5, MainAt DEF Counted, Answered, processVars, archiveVars
  <2> QED BY <1>5, <2>1, CountedTypes, ItemsStay
<1>6. CASE InterruptedMarked
  <2>1. UNCHANGED <<restored, listed>> /\ life = "boot" /\ view'.items = view.items /\ disk' = disk
    BY <1>6, InterruptedFacts DEF archiveVars, contentVars
  <2> QED BY <2>1, ItemsStay
<1>7. CASE MarkCommitted
  <2>1. UNCHANGED <<restored, listed, view>> /\ life = "boot" /\ disk' = view
    BY <1>7, MainAt DEF MarkCommitted, Answered, Commits, archiveVars
  <2> QED BY <2>1, ItemsStay
<1>8. CASE Stop
  <2>1. UNCHANGED <<restored, listed, view, disk>> /\ life = "up"
    BY <1>8 DEF Stop, archiveVars, contentVars
  <2> QED BY <2>1, ItemsStay
<1>9. CASE (CloseDatabase \/ Unmarked) /\ OfDatabase
  <2>1. /\ UNCHANGED <<restored, listed>> /\ life \in {"exit", "closing"}
        /\ view'.items = view.items /\ disk'.items \in {view.items, disk.items}
    BY <1>9, MainAt, ClosingTypes DEF CloseDatabase, Unmarked, Answered, archiveVars, contentVars
  <2> QED BY <2>1, ItemsStay
<1>10. CASE Stopped \/ Crash
  <2>1. view' = disk /\ disk' = disk /\ life' = "down"
    BY <1>10 DEF Stopped, Crash, ProcessGone, RollsBack
  <2> QED BY <2>1 DEF ItemsInv, NamespaceListed
<1>11. CASE UNCHANGED vars
  BY <1>11, ItemsStay DEF vars, databaseVars, processVars, contentVars, archiveVars
<1> QED BY <1>1, <1>2, <1>3, <1>4, <1>5, <1>6, <1>7, <1>8, <1>9, <1>10, <1>11, NextCases DEF Tasks
-----------------------------------------------------------------------------
(* The jobs that were in progress when an earlier life ended *)

(* What others than a start write keeps the rows in progress of this life. *)
LEMMA RowsOfThisLife ==
  ASSUME RowsShift \/ (\E id : RowWritten(id)) \/ (\E kept : RowsDropped(kept)),
         OfThisLife(view.rows), OfThisLife(disk.rows), UNCHANGED boots
  PROVE  OfThisLife(view.rows)' /\ OfThisLife(disk.rows)'
<1>1. CASE RowsShift
  BY <1>1 DEF RowsShift, OfThisLife, Running
<1>2. CASE \E id : RowWritten(id)
  <2>1. PICK id : RowWritten(id)
    BY <1>2
  <2>2. RowOf(current).boot = boots
    BY DEF RowOf
  <2>3. \A i \in DOMAIN view'.rows : \/ view'.rows[i].boot = boots
                                     \/ i \in DOMAIN view.rows /\ view'.rows[i] = view.rows[i]
    BY <2>1, <2>2 DEF RowWritten
  <2> QED BY <2>1, <2>3 DEF RowWritten, OfThisLife, Running
<1>3. CASE \E kept : RowsDropped(kept)
  <2>1. PICK kept : RowsDropped(kept)
    BY <1>3
  <2>2. \A i \in DOMAIN view'.rows : i \in DOMAIN view.rows /\ view'.rows[i] = view.rows[i]
    BY <2>1 DEF RowsDropped
  <2> QED BY <2>1, <2>2 DEF RowsDropped, OfThisLife, Running
<1> QED BY <1>1, <1>2, <1>3

LEMMA InterruptedStays ==
  ASSUME Types, InterruptedInv, life \in {"up", "exit", "closing"}, life' \in {"up", "exit", "closing"},
         UNCHANGED boots, pc'[Main] \notin {"count", "mark", "markCommit"}, ~restored' => ~restored,
         RowsShift \/ (\E id : RowWritten(id)) \/ (\E kept : RowsDropped(kept))
  PROVE  InterruptedInv'
BY RowsOfThisLife DEF InterruptedInv

LEMMA InterruptedStep ==
  ASSUME Types, InterruptedInv, [Next]_vars
  PROVE  InterruptedInv'
<1>0. view \in Content /\ disk \in Content
  BY DEF Types, ContentTypes
<1>1. Types'
  BY NextTypes
<1>2. life' \in {"up", "exit", "closing"} => pc'[Main] \notin {"count", "mark", "markCommit"}
  BY <1>1, MainAt DEF Types, MainOK, FinishPlaces, Counting
<1>3. ASSUME NEW t \in Task, DatabaseTurn(t)
      PROVE  InterruptedInv'
  <2>1. UNCHANGED <<life, boots>> /\ life \in {"up", "exit", "closing"}
    BY <1>3, DatabaseActs
  <2>2. CASE UNCHANGED <<contentVars, restored>>
    BY <1>2, <2>1, <2>2, InterruptedStays DEF contentVars, RowsShift
  <2>3. CASE UNCHANGED restored /\ \E s \in SUBSET Key : ItemsWritten(s)
    <3>1. view'.rows = view.rows /\ disk'.rows = view.rows
      BY <1>0, <2>3, ContentFacts DEF ItemsWritten
    <3> QED BY <1>2, <2>1, <2>3, <3>1, InterruptedStays DEF RowsShift
  <2>4. CASE restored' = TRUE
    BY <1>2, <2>1, <2>4 DEF InterruptedInv
  <2> QED BY <1>3, <2>2, <2>3, <2>4, DatabaseContent
<1>4. ASSUME NEW t \in Tasks, (t \in Task /\ HistoryTurn(t)) \/ Finishing(t)
      PROVE  InterruptedInv'
  <2>1. UNCHANGED restored
    BY <1>4, HistoryActs DEF InCommand, archiveVars
  <2> QED BY <1>2, <1>4, <2>1, HistoryActs, InterruptedStays
<1>5. CASE NewTask
  BY <1>2, <1>5, NewTaskActs, InterruptedStays DEF contentVars, RowsShift
<1>6. CASE Boot /\ OfDatabase
  <2>1. pc'[Main] = "count" /\ life' = "boot" /\ life = "down" /\ UNCHANGED <<view, disk>>
    BY <1>6 DEF Boot, contentVars, Types, TaskTypes, Tasks
  <2> QED BY <2>1 DEF InterruptedInv
<1>7. CASE Counted
  <2>1. pc'[Main] = "mark" /\ life = "boot" /\ life' = life
    BY <1>7, MainAt DEF Counted, Answered, processVars, GoesOn, Types, TaskTypes, Tasks
  <2> QED BY <1>7, <2>1, CountedTypes DEF InterruptedInv
<1>8. CASE InterruptedMarked
  <2>1. view = disk /\ disk' = disk
    BY <1>8, InterruptedFacts DEF InterruptedInv, contentVars
  <2>2. CASE Running(view.rows) = {} /\ UNCHANGED contentVars /\ Leaves(Main, "idle") /\ life' = "up"
    <3>1. pc'[Main] = "idle"
      BY <2>2 DEF Leaves, Types, TaskTypes, Tasks
    <3> QED BY <2>1, <2>2, <3>1 DEF InterruptedInv, OfThisLife, contentVars
  <2>3. CASE view'.rows = MarkedRows(view.rows) /\ GoesOn(Main, "markCommit") /\ life' = life
    <3>1. pc'[Main] = "markCommit" /\ life' = "boot"
      BY <1>8, <2>3, InterruptedFacts DEF GoesOn, Types, TaskTypes, Tasks
    <3>2. Running(view'.rows) = {}
      BY <1>0, <2>3, ContentFacts, MarkedRowsFacts
    <3> QED BY <3>1, <3>2 DEF InterruptedInv
  <2> QED BY <1>8, <2>2, <2>3, InterruptedFacts
<1>9. CASE MarkCommitted
  <2>1. /\ pc[Main] = "markCommit" /\ view' = view /\ disk' = view
        /\ pc'[Main] = "idle" /\ life' = "up"
    BY <1>9 DEF MarkCommitted, Answered, Commits, Leaves, Types, TaskTypes, Tasks
  <2> QED BY <2>1 DEF InterruptedInv, OfThisLife
<1>10. CASE Stop
  <2>1. UNCHANGED <<restored, boots, view, disk>> /\ life = "up" /\ life' = "exit"
    BY <1>10 DEF Stop, archiveVars, contentVars
  <2> QED BY <1>2, <2>1, InterruptedStays DEF RowsShift
<1>11. CASE (CloseDatabase \/ Unmarked) /\ OfDatabase
  <2>1. /\ UNCHANGED <<restored, boots>> /\ life \in {"exit", "closing"} /\ life' = "closing"
        /\ view'.rows = view.rows /\ disk'.rows \in {view.rows, disk.rows}
    BY <1>11, MainAt, ClosingTypes DEF CloseDatabase, Unmarked, Answered, archiveVars, contentVars,
                                       processVars
  <2> QED BY <1>2, <2>1, InterruptedStays DEF RowsShift
<1>12. CASE Stopped \/ Crash
  <2>1. view' = disk /\ disk' = disk /\ life' = "down" /\ pc'[Main] = "idle"
    BY <1>12 DEF Stopped, Crash, ProcessGone, RollsBack, Tasks
  <2> QED BY <2>1 DEF InterruptedInv
<1>13. CASE UNCHANGED vars
  BY <1>13 DEF vars, databaseVars, processVars, contentVars, archiveVars, InterruptedInv, OfThisLife
<1> QED BY <1>3, <1>4, <1>5, <1>6, <1>7, <1>8, <1>9, <1>10, <1>11, <1>12, <1>13, NextCases DEF Tasks

-----------------------------------------------------------------------------
(* How often a print is counted *)

PendingStays == \A u \in Tasks : Pending(u)' => Pending(u) /\ arg'[u].print = arg[u].print

LEMMA OthersStay ==
  ASSUME Types, NEW t \in Tasks, MovesOn(t)
  PROVE  \A u \in Tasks : u # t => pc'[u] = pc[u] /\ arg'[u] = arg[u]
BY DEF MovesOn, TaskMoves, Types, TaskTypes

LEMMA PrintFacts ==
  ASSUME Types
  PROVE  /\ nextPrint \in Nat /\ PrintNo \subseteq Nat /\ None \notin PrintNo /\ None \notin Nat
         /\ \A p \in PrintNo : counted[p] \in Nat
         /\ current # NoJob => current.print \in PrintNo /\ current \in Job
         /\ NoJob.print = None
         /\ failures \in Nat
<1>1. budget.prints \in Nat /\ budget.failures \in Nat
  BY BudgetFacts DEF Types, BudgetTypes
<1>2. nextPrint \in Nat /\ failures \in Nat
  BY <1>1 DEF Types, BudgetTypes
<1> QED BY <1>2, DatabaseConstants DEF Types, JobTypes, Job, NoJob

LEMMA UncountedStays ==
  ASSUME Uncounted, PendingStays, UNCHANGED <<counted, nextPrint>>,
         current' # NoJob => current # NoJob, current'.print = current.print,
         (\A u \in Tasks : pc'[u] \notin Counting) => (\A u \in Tasks : pc[u] \notin Counting)
  PROVE  Uncounted'
BY DEF Uncounted, PendingStays

LEMMA UncountedEnds ==
  ASSUME Types, Uncounted, PendingStays, UNCHANGED <<counted, nextPrint>>, current' = NoJob
  PROVE  Uncounted'
<1>1. \A u \in Tasks : Pending(u)' =>
        /\ Pending(u) /\ arg'[u].print = arg[u].print
        /\ arg'[u].print \in 1..nextPrint' /\ counted'[arg'[u].print] = 0
        /\ arg'[u].print # current'.print
  BY PrintFacts DEF Uncounted, PendingStays
<1>2. \A u, v \in Tasks : Pending(u)' /\ Pending(v)' /\ arg'[u].print = arg'[v].print => u = v
  BY <1>1 DEF Uncounted
<1> QED BY <1>1, <1>2 DEF Uncounted

(* A step of a task that is neither pending nor counting, before and after *)
LEMMA UncountedQuiet ==
  ASSUME Types, Uncounted, NEW t \in Tasks, MovesOn(t), UNCHANGED <<counted, nextPrint, current>>,
         \/ pc[t] \notin Counting /\ pc'[t] \notin {"lock"} \cup FinishPlaces
         \/ UNCHANGED <<pc, arg>>
  PROVE  Uncounted'
<1>1. \A u \in Tasks : u # t => pc'[u] = pc[u] /\ arg'[u] = arg[u]
  BY OthersStay
<1>2. PendingStays
  BY <1>1 DEF PendingStays, Pending
<1>3. (\A u \in Tasks : pc'[u] \notin Counting) => (\A u \in Tasks : pc[u] \notin Counting)
  BY <1>1
<1> QED BY <1>2, <1>3, UncountedStays

LEMMA DatabaseUncounted ==
  ASSUME Types, Uncounted, NEW t \in Task, DatabaseTurn(t)
  PROVE  Uncounted'
<1>1. MovesOn(t) /\ UNCHANGED <<counted, nextPrint, current>> /\ t \in Tasks
  BY DatabaseMoves DEF Framed, jobVars, Tasks
<1>2. pc \in [Tasks -> Places]
  BY DEF Types, TaskTypes
<1>3. \/ pc[t] \notin Counting /\ pc'[t] \notin {"lock"} \cup FinishPlaces
      \/ UNCHANGED <<pc, arg>>
  BY <1>1, <1>2 DEF DatabaseTurn, ItemInserted, ItemDeleted, NamespaceDropped, ArchiveBegins, Compacted,
                    BackedUp, Restored, Asks, Ends, Leaves, GoesOn, Answered, Counting, FinishPlaces
<1> QED BY <1>1, <1>3, UncountedQuiet

LEMMA AddBeginsUncounted ==
  ASSUME Types, Uncounted, NEW t \in Task, AddBegins(t)
  PROVE  Uncounted'
<1>0. t \in Tasks
  BY DEF Tasks
<1>1. /\ pc[t] = "lock" /\ arg[t].then = "add" /\ pc'[t] = "addRow" /\ arg' = arg
      /\ UNCHANGED <<counted, nextPrint>>
      /\ current' = [print |-> arg[t].print, status |-> "in_progress"]
  BY <1>0 DEF AddBegins, HoldsLock, Asks, InCommand, eventVars, Types, TaskTypes
<1>2. \A u \in Tasks : u # t => pc'[u] = pc[u] /\ arg'[u] = arg[u]
  BY <1>0, OthersStay, HistoryMoves DEF HistoryTurn
<1>3. Pending(t)
  BY <1>1 DEF Pending
<1>4. /\ arg[t].print \in 1..nextPrint /\ counted[arg[t].print] = 0
      /\ current'.print = arg[t].print
  BY <1>0, <1>1, <1>3 DEF Uncounted
<1>5. \A u \in Tasks : Pending(u)' => u # t /\ Pending(u) /\ arg'[u].print = arg[u].print
  BY <1>0, <1>1, <1>2 DEF Pending, FinishPlaces, Counting
<1>6. \A u \in Tasks : Pending(u)' => arg'[u].print # current'.print
  BY <1>0, <1>3, <1>4, <1>5 DEF Uncounted
<1>7. current'.print <= nextPrint'
  BY <1>1, <1>4, PrintFacts
<1>8. \A u \in Tasks : Pending(u)' => arg'[u].print \in 1..nextPrint' /\ counted'[arg'[u].print] = 0
  BY <1>1, <1>5 DEF Uncounted
<1>9. \A u, v \in Tasks : Pending(u)' /\ Pending(v)' /\ arg'[u].print = arg'[v].print => u = v
  BY <1>5 DEF Uncounted
<1> QED BY <1>1, <1>4, <1>6, <1>7, <1>8, <1>9 DEF Uncounted

LEMMA HistoryUncounted ==
  ASSUME Types, Uncounted, NEW t \in Task, HistoryTurn(t), failures' = 0
  PROVE  Uncounted'
<1>0. t \in Tasks /\ MovesOn(t) /\ UNCHANGED nextPrint /\ pc \in [Tasks -> Places]
  BY HistoryMoves, HistoryFrame, AddingSteps, RequestSteps DEF Tasks, HistoryTurn, Framed, Types,
         TaskTypes
<1>1. CASE AddBegins(t)
  BY <1>1, AddBeginsUncounted
<1>2. CASE RowAdded(t) \/ AddCommitted(t)
  <2>1. /\ UNCHANGED <<counted, current>>
        /\ pc[t] \notin Counting /\ pc'[t] \notin {"lock"} \cup FinishPlaces
    BY <1>0, <1>2 DEF RowAdded, AddCommitted, Answered, GoesOn, Ends, Leaves, jobVars, Counting,
                      FinishPlaces
  <2> QED BY <1>0, <2>1, UncountedQuiet
<1>3. CASE \/ RequestBegins(t) \/ RowsDeleted(t) \/ DeleteCommitted(t) \/ JobsRead(t)
           \/ ResetDeleted(t) \/ ResetInserted(t) \/ ResetEnds(t)
  <2>1. UNCHANGED <<counted, current>>
    BY <1>3, RequestSteps DEF jobVars
  <2>2. pc[t] \notin Counting /\ pc'[t] \notin {"lock"} \cup FinishPlaces
    BY <1>0, <1>3 DEF RequestBegins, RowsDeleted, DeleteCommitted, JobsRead, ResetDeleted, ResetInserted,
                      ResetEnds, HoldsLock, Asks, Answered, GoesOn, Ends, Leaves, Counting, FinishPlaces
  <2> QED BY <1>0, <2>1, <2>2, UncountedQuiet
<1> QED BY <1>1, <1>2, <1>3 DEF HistoryTurn

LEMMA CommittedUncounted ==
  ASSUME Types, Uncounted, NEW t \in Tasks, FinishCommitted(t)
  PROVE  Uncounted'
<1>0. /\ pc[t] = "finishCommit" /\ pc'[t] = "addTotal" /\ arg' = arg
      /\ UNCHANGED <<nextPrint, current>>
      /\ counted' = [counted EXCEPT ![current.print] = counted[current.print] + 1]
  BY DEF FinishCommitted, Answered, GoesOn, InCommand, eventVars, Types, TaskTypes
<1>1. current # NoJob /\ current.print \in PrintNo
  <2>1. currentId # None
    BY <1>0 DEF Types, CurrentOK, FinishPlaces
  <2> QED BY <2>1, PrintFacts DEF Types, CurrentOK
<1>2. \A u \in Tasks : u # t => pc'[u] = pc[u] /\ pc[u] \notin Counting
  <2>1. \A u \in Tasks : u # t => pc'[u] = pc[u]
    BY OthersStay, FinishingMoves DEF Finishing
  <2>2. \A u \in Tasks : pc[u] \in Owned => u = t
    BY <1>0, OwnerIsFirst DEF Types, Owned, FinishPlaces
  <2> QED BY <2>1, <2>2 DEF Owned, FinishPlaces
<1>3. counted[current.print] = 0
  BY <1>0, <1>1, <1>2 DEF Uncounted, Counting
<1>4. /\ counted'[current.print] = 1
      /\ \A p \in PrintNo : p # current.print => counted'[p] = counted[p]
  BY <1>0, <1>1, <1>3 DEF Types, JobTypes
<1>5. \A p \in PrintNo : counted'[p] <= 1 /\ (p > nextPrint' => counted'[p] = 0)
  BY <1>0, <1>1, <1>4, PrintFacts DEF Uncounted
<1>6. \A u \in Tasks : Pending(u)' => Pending(u)
  BY <1>0, <1>2 DEF Pending, FinishPlaces, Counting
<1>7. \A u \in Tasks : Pending(u) => arg[u].print \in PrintNo
  BY DEF Pending, Types, ArgOK
<1>8. \A u \in Tasks : Pending(u)' =>
        /\ arg'[u].print \in 1..nextPrint' /\ counted'[arg'[u].print] = 0
        /\ arg'[u].print # current'.print
  BY <1>0, <1>4, <1>6, <1>7 DEF Uncounted
<1>9. \A u, v \in Tasks : Pending(u)' /\ Pending(v)' /\ arg'[u].print = arg'[v].print => u = v
  BY <1>0, <1>6 DEF Uncounted
<1>10. pc'[t] \in Counting
  BY <1>0 DEF Counting
<1>11. current'.print <= nextPrint'
  BY <1>0, <1>1 DEF Uncounted
<1> QED BY <1>5, <1>8, <1>9, <1>10, <1>11 DEF Uncounted

LEMMA FinishingUncounted ==
  ASSUME Types, Uncounted, NEW t \in Tasks, Finishing(t), failures' = 0
  PROVE  Uncounted'
<1>0. MovesOn(t) /\ UNCHANGED nextPrint /\ pc \in [Tasks -> Places] /\ arg \in [Tasks -> Arg]
  BY FinishingMoves, HistoryFrame, FinishingSteps DEF Framed, Types, TaskTypes
<1>1. \A u \in Tasks : u # t => pc'[u] = pc[u] /\ arg'[u] = arg[u]
  BY <1>0, OthersStay
<1>2. ~Failing
  BY PrintFacts DEF Failing
<1>3. CASE NothingToFinish(t) \/ TotalCommitted(t)
  <2>1. /\ AfterFinish(t) /\ current' = NoJob /\ UNCHANGED counted
        /\ pc[t] \in {"lock", "totalCommit"}
    BY <1>3 DEF NothingToFinish, TotalCommitted, Finishes, HoldsLock, Answered
  <2>2. \/ pc'[t] \in {"idle", "closing"}
        \/ /\ arg[t].then = "replace" /\ pc'[t] = "lock"
           /\ arg'[t].print = arg[t].print
    <3>1. arg[t] \in Arg
      BY <1>0
    <3> QED BY <1>0, <2>1, <3>1 DEF AfterFinish, Arg
  <2>3. PendingStays
    BY <1>1, <2>1, <2>2 DEF PendingStays, Pending, FinishPlaces, Counting
  <2> QED BY <1>0, <2>1, <2>3, UncountedEnds
<1>4. CASE FinishBegins(t)
  <2>1. /\ current # NoJob /\ current \in Job
        /\ current' = [current EXCEPT !.status = arg[t].status]
        /\ pc[t] = "lock" /\ pc'[t] = "finishRow" /\ UNCHANGED <<arg, counted>>
    BY <1>0, <1>4, PrintFacts DEF FinishBegins, Finishes, HoldsLock, Asks, Types, CurrentOK
  <2>2. current'.print = current.print
    BY <2>1 DEF Job
  <2>3. PendingStays
    BY <1>1, <2>1 DEF PendingStays, Pending, FinishPlaces, Counting
  <2>4. (\A u \in Tasks : pc'[u] \notin Counting) => (\A u \in Tasks : pc[u] \notin Counting)
    BY <1>1, <2>1 DEF Counting
  <2> QED BY <1>0, <2>1, <2>2, <2>3, <2>4, UncountedStays
<1>5. CASE RowFinished(t) \/ TotalWritten(t)
  <2>1. /\ \/ pc[t] = "finishRow" /\ pc'[t] = "finishCommit"
           \/ pc[t] = "addTotal" /\ pc'[t] = "totalCommit"
        /\ UNCHANGED <<arg, counted, current>>
    BY <1>0, <1>2, <1>5
       DEF RowFinished, TotalWritten, Answered, Works, Fails, Failing, GoesOn, jobVars
  <2>2. PendingStays
    BY <1>1, <2>1 DEF PendingStays, Pending, FinishPlaces, Counting
  <2>3. (\A u \in Tasks : pc'[u] \notin Counting) => (\A u \in Tasks : pc[u] \notin Counting)
    BY <1>1, <2>1 DEF Counting
  <2> QED BY <1>0, <2>1, <2>2, <2>3, UncountedStays
<1>6. CASE FinishCommitted(t)
  BY <1>6, CommittedUncounted
<1>7. CASE Undone(t)
  <2>1. UNCHANGED <<counted, current>> /\ pc[t] = "undo" /\ pc'[t] \in {"idle", "closing"}
    BY <1>0, <1>7 DEF Undone, Answered, Ends, Leaves, jobVars
  <2> QED BY <1>0, <2>1, UncountedQuiet DEF Counting, FinishPlaces
<1> QED BY <1>3, <1>4, <1>5, <1>6, <1>7 DEF Finishing

LEMMA BeginsUncounted ==
  ASSUME Types, Uncounted, NEW t, NEW place, NEW a, BeginsTask(t, place, a)
  PROVE  Uncounted'
<1>0. /\ t \in Tasks /\ pc[t] = "idle" /\ UNCHANGED <<counted, current>>
      /\ pc'[t] = place /\ arg'[t] = a /\ place \notin FinishPlaces
      /\ \A u \in Tasks : u # t => pc'[u] = pc[u] /\ arg'[u] = arg[u]
  BY DEF BeginsTask, Tasks, Types, TaskTypes, FinishPlaces, Counting
<1>1. (\A u \in Tasks : pc'[u] \notin Counting) => (\A u \in Tasks : pc[u] \notin Counting)
  BY <1>0 DEF Counting
<1>2. \A u \in Tasks : Pending(u)' /\ u # t => Pending(u) /\ arg'[u].print = arg[u].print
  BY <1>0 DEF Pending
<1>3. CASE a.then \notin {"add", "replace"}
  <2>1. UNCHANGED nextPrint
    BY <1>3 DEF BeginsTask
  <2>2. PendingStays
    BY <1>0, <1>2, <1>3 DEF PendingStays, Pending
  <2> QED BY <1>0, <1>1, <2>1, <2>2, UncountedStays
<1>4. CASE a.then \in {"add", "replace"}
  <2>1. a.print = nextPrint + 1 /\ nextPrint' = nextPrint + 1 /\ a.print \in PrintNo
    BY <1>4 DEF BeginsTask
  <2>2. counted[a.print] = 0 /\ nextPrint \in Nat
    BY <2>1, PrintFacts DEF Uncounted
  <2>3. \A p \in PrintNo : counted'[p] <= 1 /\ (p > nextPrint' => counted'[p] = 0)
    BY <1>0, <2>1, <2>2, PrintFacts DEF Uncounted
  <2>4. current' # NoJob => current'.print \in Nat /\ current'.print <= nextPrint
    BY <1>0, PrintFacts DEF Uncounted
  <2>5. a.print # current'.print
    BY <1>0, <2>1, <2>2, <2>4, PrintFacts
  <2>6. \A u \in Tasks : Pending(u)' =>
          /\ arg'[u].print \in 1..nextPrint' /\ counted'[arg'[u].print] = 0
          /\ arg'[u].print # current'.print
          /\ u # t => arg'[u].print # a.print
    <3> SUFFICES ASSUME NEW u \in Tasks, Pending(u)'
                 PROVE  /\ arg'[u].print \in 1..nextPrint' /\ counted'[arg'[u].print] = 0
                        /\ arg'[u].print # current'.print
                        /\ u # t => arg'[u].print # a.print
      OBVIOUS
    <3>1. CASE u = t
      BY <1>0, <2>1, <2>2, <2>5, <3>1
    <3>2. CASE u # t
      <4>1. /\ arg'[u].print = arg[u].print /\ arg[u].print \in 1..nextPrint
            /\ counted[arg[u].print] = 0 /\ arg[u].print # current.print
        BY <1>2, <3>2 DEF Uncounted
      <4> QED BY <1>0, <2>1, <2>2, <4>1
    <3> QED BY <3>1, <3>2
  <2>7. \A u, v \in Tasks : Pending(u)' /\ Pending(v)' /\ arg'[u].print = arg'[v].print => u = v
    <3> SUFFICES ASSUME NEW u \in Tasks, NEW v \in Tasks, Pending(u)', Pending(v)',
                        arg'[u].print = arg'[v].print
                 PROVE  u = v
      OBVIOUS
    <3>1. CASE u # t /\ v # t
      BY <1>2, <3>1 DEF Uncounted
    <3>2. CASE u = t \/ v = t
      BY <1>0, <2>6, <3>2
    <3> QED BY <3>1, <3>2
  <2>8. current' # NoJob => current'.print <= nextPrint'
    BY <2>1, <2>2, <2>4
  <2>9. current' # NoJob /\ (\A u \in Tasks : pc'[u] \notin Counting) => counted'[current'.print] = 0
    BY <1>0, <1>1 DEF Uncounted
  <2> QED BY <2>3, <2>6, <2>7, <2>8, <2>9 DEF Uncounted
<1> QED BY <1>3, <1>4

LEMMA CountedStep ==
  ASSUME Types, CountedInv, [Next]_vars
  PROVE  CountedInv'
<1> SUFFICES ASSUME failures' = 0
             PROVE  Uncounted'
  BY DEF CountedInv
<1>0. failures \in Nat /\ Main \in Tasks /\ pc \in [Tasks -> Places]
  BY PrintFacts DEF Tasks, Types, TaskTypes
<1>1. ASSUME NEW t \in Task, DatabaseTurn(t) \/ HistoryTurn(t)
      PROVE  Uncounted'
  <2>1. UNCHANGED failures \/ Failing
    BY <1>1, DatabaseMoves, AddingSteps, RequestSteps DEF HistoryTurn, HistoryStep
  <2>2. Uncounted
    BY <1>0, <2>1 DEF CountedInv, Failing
  <2> QED BY <1>1, <2>2, DatabaseUncounted, HistoryUncounted
<1>2. ASSUME NEW t \in Tasks, Finishing(t)
      PROVE  Uncounted'
  <2>1. UNCHANGED failures \/ Failing
    BY <1>2, FinishingSteps DEF HistoryStep
  <2>2. Uncounted
    BY <1>0, <2>1 DEF CountedInv, Failing
  <2> QED BY <1>2, <2>2, FinishingUncounted
<1>3. CASE NewTask
  <2>1. PICK t, place, a : BeginsTask(t, place, a)
    BY <1>3, NewTaskFacts
  <2>2. Uncounted
    BY <2>1 DEF BeginsTask, CountedInv
  <2> QED BY <2>1, <2>2, BeginsUncounted
<1>4. CASE \/ Boot /\ OfDatabase
           \/ Counted \/ InterruptedMarked \/ MarkCommitted \/ Stop
           \/ (CloseDatabase \/ Unmarked) /\ OfDatabase
  <2>1. UNCHANGED <<failures, counted, nextPrint, current>>
    BY <1>4 DEF Boot, OfDatabase, Counted, InterruptedMarked, MarkCommitted, Stop, CloseDatabase,
                Unmarked, jobVars, eventVars
  <2>2. Uncounted
    BY <2>1 DEF CountedInv
  <2>3. PICK to \in {"count", "mark", "idle", "markCommit", "closing", "lock", "unmark", "stop"} :
          /\ pc' = [pc EXCEPT ![Main] = to]
          /\ \/ arg' = arg
             \/ arg' = [arg EXCEPT ![Main] = ForJob(None, "server_exit", "close")]
          /\ to = "lock" => arg' = [arg EXCEPT ![Main] = ForJob(None, "server_exit", "close")]
    BY <1>4 DEF Boot, Counted, InterruptedMarked, MarkCommitted, Stop, CloseDatabase, Unmarked, GoesOn,
                Leaves, Asks
  <2>4. pc[Main] \notin Counting
    <3>1. \/ life \in {"down", "boot", "up"}
          \/ pc[Main] \in {"closing", "unmark"}
      BY <1>4, MainAt DEF Boot, Counted, InterruptedMarked, MarkCommitted, Stop, CloseDatabase, Unmarked,
                          Answered
    <3> QED BY <3>1 DEF Types, MainOK, Counting
  <2>5. /\ pc'[Main] = to
        /\ \A u \in Tasks : u # Main => pc'[u] = pc[u] /\ arg'[u] = arg[u]
    BY <1>0, <2>3 DEF Types, TaskTypes
  <2>6. ~Pending(Main)'
    <3>1. to = "lock" => arg'[Main].then = "close"
      <4>1. ForJob(None, "server_exit", "close").then = "close"
        BY DEF ForJob, NoArg
      <4> QED BY <1>0, <2>3, <4>1 DEF Types, TaskTypes
    <3> QED BY <2>5, <3>1 DEF Pending, FinishPlaces, Counting
  <2>7. PendingStays
    BY <2>5, <2>6 DEF PendingStays, Pending
  <2>8. (\A u \in Tasks : pc'[u] \notin Counting) => (\A u \in Tasks : pc[u] \notin Counting)
    BY <2>4, <2>5
  <2> QED BY <2>1, <2>2, <2>7, <2>8, UncountedStays
<1>5. CASE Stopped \/ Crash
  <2>1. /\ pc' = [t \in Tasks |-> "idle"] /\ current' = NoJob
        /\ UNCHANGED <<failures, counted, nextPrint>>
    BY <1>5 DEF Stopped, Crash, ProcessGone, eventVars
  <2>2. PendingStays
    BY <2>1 DEF PendingStays, Pending, FinishPlaces, Counting
  <2>3. Uncounted
    BY <2>1 DEF CountedInv
  <2> QED BY <2>1, <2>2, <2>3, UncountedEnds
<1>6. CASE UNCHANGED vars
  BY <1>6 DEF vars, databaseVars, eventVars, jobVars, CountedInv, Uncounted, Pending
<1> QED BY <1>1, <1>2, <1>3, <1>4, <1>5, <1>6, NextCases

-----------------------------------------------------------------------------
(* The rows that are finished *)

FinishedStay ==
  \A i \in DOMAIN disk.rows \cap DOMAIN disk'.rows :
     disk.rows[i].status # "in_progress" => disk'.rows[i] = disk.rows[i]

AtFinish == {"finishCommit"} \cup Counting
Deleting == \E t \in Tasks : pc[t] = "deleteCommit"

(* Nobody comes to be about to commit a row; the job with an id is the one *)
(* that was, or the one whose row waits for its commit.                    *)
SameAdding ==
  \A t \in Tasks : pc'[t] = "addCommit" => pc[t] = "addCommit" /\ arg'[t].id = arg[t].id
SameJob ==
  currentId' # None /\ (\A t \in Tasks : pc'[t] \notin AtFinish) =>
    \/ currentId' = currentId /\ (\A t \in Tasks : pc[t] \notin AtFinish)
    \/ \E t \in Tasks : pc[t] = "addCommit" /\ currentId' = arg[t].id

(* A commit or a rollback of whoever it is, or a statement on something else *)
LEMMA ShiftKeeps ==
  ASSUME RowsKept, RowsShift, SameAdding, SameJob,
         (Deleting => Deleting') \/ disk'.rows = view'.rows
  PROVE  RowsKept' /\ FinishedStay
<1>1. FinishedStay
  BY DEF RowsShift, RowsKept, FinishedStay
<1>2. \A i \in DOMAIN disk'.rows \cap DOMAIN view'.rows :
        disk'.rows[i].status # "in_progress" => view'.rows[i] = disk'.rows[i]
  BY DEF RowsShift, RowsKept
<1>3. (\A t \in Tasks : pc'[t] # "deleteCommit") => DOMAIN disk'.rows \subseteq DOMAIN view'.rows
  BY DEF RowsShift, RowsKept, Deleting
<1>4. ASSUME NEW i, RowOpen(i)
      PROVE  /\ i \in DOMAIN view'.rows => view'.rows[i].status = "in_progress"
             /\ i \in DOMAIN disk'.rows => disk'.rows[i].status = "in_progress"
  BY <1>4 DEF RowsShift, RowOpen
<1>5. \A t \in Tasks : pc'[t] = "addCommit" => RowOpen(arg[t].id) /\ arg'[t].id = arg[t].id
  BY DEF RowsKept, SameAdding
<1>6. currentId' # None /\ (\A t \in Tasks : pc'[t] \notin AtFinish) => RowOpen(currentId')
  BY DEF RowsKept, SameJob, AtFinish
<1>7. \A t \in Tasks : pc'[t] = "addCommit" => RowOpen(arg[t].id)'
  BY <1>4, <1>5 DEF RowOpen
<1>8. currentId' # None /\ (\A t \in Tasks : pc'[t] \notin AtFinish) => RowOpen(currentId)'
  BY <1>4, <1>6 DEF RowOpen
<1> QED BY <1>1, <1>2, <1>3, <1>7, <1>8 DEF RowsKept, AtFinish

(* The same for a step of t that adds, deletes and finishes no row *)
LEMMA QuietKeeps ==
  ASSUME RowsKept, RowsShift, NEW t \in Tasks,
         \A u \in Tasks : u # t => pc'[u] = pc[u] /\ arg'[u] = arg[u],
         currentId' \in {currentId, None},
         \/ pc'[t] # "addCommit" /\ pc[t] \notin AtFinish \cup {"deleteCommit"}
         \/ UNCHANGED <<pc, arg>>
  PROVE  RowsKept' /\ FinishedStay
<1>1. SameAdding
  BY DEF SameAdding
<1>2. SameJob
  BY DEF SameJob
<1>3. Deleting => Deleting'
  BY DEF Deleting
<1> QED BY <1>1, <1>2, <1>3, ShiftKeeps

LEMMA DatabaseKeeps ==
  ASSUME Types, RowsKept, NEW t \in Task, DatabaseTurn(t), ~restored, ~restored'
  PROVE  RowsKept' /\ FinishedStay
<1>1. MovesOn(t) /\ UNCHANGED currentId /\ t \in Tasks /\ pc \in [Tasks -> Places]
  BY DatabaseMoves DEF jobVars, Tasks, Types, TaskTypes
<1>2. RowsShift
  <2>1. view \in Content
    BY DEF Types, ContentTypes
  <2>2. CASE UNCHANGED contentVars
    BY <2>2 DEF contentVars, RowsShift
  <2>3. CASE \E s \in SUBSET Key : ItemsWritten(s)
    BY <2>1, <2>3, ContentFacts DEF ItemsWritten, RowsShift
  <2> QED BY <2>2, <2>3, DatabaseContent
<1>3. \/ pc'[t] # "addCommit" /\ pc[t] \notin AtFinish \cup {"deleteCommit"}
      \/ UNCHANGED <<pc, arg>>
  BY <1>1 DEF DatabaseTurn, ItemInserted, ItemDeleted, NamespaceDropped, ArchiveBegins, Compacted,
              BackedUp, Restored, Asks, Ends, Leaves, GoesOn, Answered, AtFinish, Counting
<1> QED BY <1>1, <1>2, <1>3, OthersStay, QuietKeeps

(* A new row has an id that no row has. *)
LEMMA NewIdFacts ==
  ASSUME Types
  PROVE  NewId \notin DOMAIN view.rows
<1>1. DOMAIN view.rows \subseteq Id
  BY ContentFacts, RowsFacts DEF Types, ContentTypes
<1>2. CASE DOMAIN view.rows = {}
  BY <1>2
<1>3. CASE DOMAIN view.rows # {}
  <2>1. \E i \in DOMAIN view.rows : \A j \in DOMAIN view.rows : i >= j
    BY <1>1, <1>3, DatabaseConstants
  <2> DEFINE last == CHOOSE i \in DOMAIN view.rows : \A j \in DOMAIN view.rows : i >= j
  <2>2. last \in DOMAIN view.rows /\ \A j \in DOMAIN view.rows : last >= j
    BY <2>1
  <2>3. last \in Nat /\ \A j \in DOMAIN view.rows : j \in Nat
    BY <1>1, <2>2, DatabaseConstants
  <2>4. NewId = 1 + last
    BY <1>3 DEF NewId
  <2> HIDE DEF last
  <2> QED BY <2>2, <2>3, <2>4
<1> QED BY <1>2, <1>3

LEMMA RowAddedKeeps ==
  ASSUME Types, RowsKept, NEW t \in Task, RowAdded(t), NewId \in Id, RowWritten(NewId), failures' = 0
  PROVE  RowsKept' /\ FinishedStay
<1> DEFINE id == NewId
<1>0. t \in Tasks /\ pc[t] = "addRow" /\ pc \in [Tasks -> Places] /\ arg \in [Tasks -> Arg]
  BY DEF RowAdded, Answered, Tasks, Types, TaskTypes
<1>1. \A u \in Tasks : u # t => pc[u] \notin Owned /\ pc'[u] = pc[u] /\ arg'[u] = arg[u]
  BY <1>0, OthersStay, HistoryMoves, OwnerIsFirst DEF HistoryTurn, Types, Owned, Adding
<1>2. currentId' = None
  BY <1>0 DEF RowAdded, jobVars, Types, CurrentOK, Adding
<1>3. pc'[t] = "addCommit" => arg'[t].id = id
  <2>1. CASE arg' = [arg EXCEPT ![t].id = NewId]
    <3>1. arg'[t] = [arg[t] EXCEPT !.id = id] /\ arg[t] \in Arg
      BY <1>0, <2>1
    <3> QED BY <3>1 DEF Arg
  <2>2. CASE GoesOn(t, "undo")
    BY <1>0, <2>2 DEF GoesOn
  <2> QED BY <2>1, <2>2 DEF RowAdded
<1>4. RowOf(current).status = "in_progress"
  BY <1>0 DEF RowOf, Types, CurrentOK, Adding
<1>5. id \notin DOMAIN view.rows
  BY NewIdFacts
<1>6. DOMAIN disk.rows \subseteq DOMAIN view.rows
  BY <1>0, <1>1 DEF RowsKept, Owned
<1>7. RowWritten(id)
  OBVIOUS
<1> HIDE DEF id
<1>8. /\ disk'.rows = disk.rows /\ DOMAIN view'.rows = DOMAIN view.rows \cup {id}
      /\ view'.rows[id] = RowOf(current) /\ \A i \in DOMAIN view.rows : view'.rows[i] = view.rows[i]
  BY <1>5, <1>7 DEF RowWritten
<1>9. id \notin DOMAIN disk.rows
  BY <1>5, <1>6
<1>10. FinishedStay
  BY <1>8 DEF FinishedStay
<1>11. \A i \in DOMAIN disk'.rows \cap DOMAIN view'.rows :
         disk'.rows[i].status # "in_progress" => view'.rows[i] = disk'.rows[i]
  BY <1>8, <1>9 DEF RowsKept
<1>12. \A u \in Tasks : pc'[u] = "addCommit" => RowOpen(arg[u].id)'
  BY <1>1, <1>3, <1>4, <1>8, <1>9 DEF RowOpen, Owned, Adding
<1> QED BY <1>2, <1>6, <1>8, <1>10, <1>11, <1>12 DEF RowsKept

LEMMA RowsDeletedKeeps ==
  ASSUME Types, RowsKept, NEW t \in Task, RowsDeleted(t), NEW kept, RowsDropped(kept)
  PROVE  RowsKept' /\ FinishedStay
<1>0. t \in Tasks /\ pc[t] = "deleteRows" /\ pc'[t] = "deleteCommit" /\ UNCHANGED <<arg, currentId>>
  BY DEF RowsDeleted, Answered, GoesOn, Tasks, jobVars, Types, TaskTypes
<1>1. \A u \in Tasks : u # t => pc[u] \notin Owned /\ pc'[u] = pc[u]
  BY <1>0, OthersStay, HistoryMoves, OwnerIsFirst DEF HistoryTurn, Types, Owned
<1>2. /\ disk'.rows = disk.rows /\ DOMAIN view'.rows = kept /\ kept \subseteq DOMAIN view.rows
      /\ \A i \in kept : view'.rows[i] = view.rows[i]
  BY DEF RowsDropped
<1>3. FinishedStay
  BY <1>2 DEF FinishedStay
<1>4. \A i \in DOMAIN disk'.rows \cap DOMAIN view'.rows :
        disk'.rows[i].status # "in_progress" => view'.rows[i] = disk'.rows[i]
  BY <1>2 DEF RowsKept
<1>5. \A u \in Tasks : pc'[u] # "addCommit"
  BY <1>0, <1>1 DEF Owned, Adding
<1>6. currentId' # None => RowOpen(currentId)'
  <2>1. \A u \in Tasks : pc[u] \notin AtFinish
    BY <1>0, <1>1 DEF Owned, FinishPlaces, AtFinish, Counting
  <2>2. currentId # None => RowOpen(currentId)
    BY <2>1 DEF RowsKept, AtFinish
  <2> QED BY <1>0, <1>2, <2>2 DEF RowOpen
<1> QED BY <1>0, <1>3, <1>4, <1>5, <1>6 DEF RowsKept

LEMMA RowFinishedKeeps ==
  ASSUME Types, RowsKept, NEW t \in Tasks, RowFinished(t), RowWritten(currentId), failures' = 0
  PROVE  RowsKept' /\ FinishedStay
<1>0. /\ pc[t] = "finishRow" /\ pc'[t] = "finishCommit" /\ UNCHANGED <<arg, currentId>>
  BY PrintFacts DEF RowFinished, Answered, Fails, GoesOn, jobVars, Types, TaskTypes
<1>1. \A u \in Tasks : u # t => pc[u] \notin Owned /\ pc'[u] = pc[u]
  BY <1>0, OthersStay, FinishingMoves, OwnerIsFirst DEF Finishing, Types, Owned, FinishPlaces
<1>2. currentId # None
  BY <1>0 DEF Types, CurrentOK, FinishPlaces
<1>3. RowOpen(currentId)
  BY <1>0, <1>1, <1>2 DEF RowsKept, Owned, FinishPlaces, Counting
<1>4. /\ disk'.rows = disk.rows /\ DOMAIN view'.rows = DOMAIN view.rows \cup {currentId}
      /\ \A i \in DOMAIN view.rows : i # currentId => view'.rows[i] = view.rows[i]
  BY DEF RowWritten
<1>5. FinishedStay
  BY <1>4 DEF FinishedStay
<1>6. \A i \in DOMAIN disk'.rows \cap DOMAIN view'.rows :
        disk'.rows[i].status # "in_progress" => view'.rows[i] = disk'.rows[i]
  BY <1>3, <1>4 DEF RowsKept, RowOpen
<1>7. DOMAIN disk'.rows \subseteq DOMAIN view'.rows
  BY <1>0, <1>1, <1>4 DEF RowsKept, Owned
<1>8. \A u \in Tasks : pc'[u] # "addCommit"
  BY <1>0, <1>1 DEF Owned, Adding
<1> QED BY <1>0, <1>5, <1>6, <1>7, <1>8 DEF RowsKept

LEMMA HistoryKeeps ==
  ASSUME Types, RowsKept, NEW t \in Task, HistoryTurn(t), failures' = 0
  PROVE  RowsKept' /\ FinishedStay
<1>0. t \in Tasks /\ pc \in [Tasks -> Places]
  BY DEF Tasks, Types, TaskTypes
<1>1. \A u \in Tasks : u # t => pc'[u] = pc[u] /\ arg'[u] = arg[u]
  BY <1>0, OthersStay, HistoryMoves
<1>2. CASE RowAdded(t) /\ NewId \in Id /\ RowWritten(NewId)
  BY <1>2, RowAddedKeeps
<1>3. CASE RowsDeleted(t) /\ \E kept : RowsDropped(kept)
  BY <1>3, RowsDeletedKeeps
<1>4. ASSUME RowAdded(t), RowsShift
      PROVE  pc'[t] # "addCommit" \/ (RowAdded(t) /\ NewId \in Id /\ RowWritten(NewId))
  <2>1. CASE NewId \in Id /\ Works(WithRow(NewId))
    <3>1. pc[t] = "addRow" /\ ContentTypes
      BY <1>4 DEF RowAdded, Answered, Types
    <3>2. boots \in 1..MaxBoots /\ current \in Job
      BY <1>0, <3>1, Begun DEF Types, JobTypes, CurrentOK, Adding
    <3> QED BY <1>4, <2>1, <3>1, <3>2, Written DEF Works
  <2>2. CASE GoesOn(t, "undo")
    BY <1>0, <2>2 DEF GoesOn
  <2> QED BY <1>4, <2>1, <2>2 DEF RowAdded
<1>5. CASE RowsShift /\ (AddBegins(t) \/ RowAdded(t) \/ RequestBegins(t) \/ RowsDeleted(t) \/ JobsRead(t)
                         \/ ResetDeleted(t) \/ ResetInserted(t) \/ ResetEnds(t))
  <2>1. currentId' \in {currentId, None}
    BY <1>5 DEF AddBegins, RowAdded, RequestBegins, RowsDeleted, JobsRead, ResetDeleted, ResetInserted,
                ResetEnds, jobVars
  <2>2. pc[t] \notin AtFinish \cup {"deleteCommit"}
    BY <1>5 DEF AddBegins, RowAdded, RequestBegins, RowsDeleted, JobsRead, ResetDeleted, ResetInserted,
                ResetEnds, HoldsLock, Answered, AtFinish, Counting
  <2>3. ~RowAdded(t) => pc'[t] # "addCommit"
    BY <1>0, <1>5 DEF AddBegins, RequestBegins, RowsDeleted, JobsRead, ResetDeleted, ResetInserted,
                      ResetEnds, Asks, GoesOn, Ends, Leaves
  <2> QED BY <1>0, <1>1, <1>2, <1>4, <1>5, <2>1, <2>2, <2>3, QuietKeeps
<1>6. CASE AddCommitted(t)
  <2>1. /\ pc[t] = "addCommit" /\ currentId' = arg[t].id /\ pc'[t] = "idle" /\ Commits
    BY <1>0, <1>6 DEF AddCommitted, Answered, Ends, Leaves
  <2>2. RowsShift /\ disk'.rows = view'.rows
    BY <2>1 DEF Commits, RowsShift
  <2>3. SameAdding /\ SameJob
    BY <1>0, <1>1, <2>1 DEF SameAdding, SameJob
  <2> QED BY <2>2, <2>3, ShiftKeeps
<1>7. CASE DeleteCommitted(t)
  <2>1. /\ pc[t] = "deleteCommit" /\ currentId' = currentId /\ pc'[t] = "idle" /\ Commits
    BY <1>0, <1>7 DEF DeleteCommitted, Answered, Ends, Leaves, jobVars
  <2>2. RowsShift /\ disk'.rows = view'.rows
    BY <2>1 DEF Commits, RowsShift
  <2>3. SameAdding /\ SameJob
    BY <1>0, <1>1, <2>1 DEF SameAdding, SameJob, AtFinish, Counting
  <2> QED BY <2>2, <2>3, ShiftKeeps
<1>8. \/ RowsShift \/ (RowAdded(t) /\ NewId \in Id /\ RowWritten(NewId))
      \/ RowsDeleted(t) /\ \E kept : RowsDropped(kept)
  BY AddingSteps, RequestSteps DEF HistoryTurn
<1> QED BY <1>2, <1>3, <1>5, <1>6, <1>7, <1>8 DEF HistoryTurn

LEMMA FinishingKeeps ==
  ASSUME Types, RowsKept, NEW t \in Tasks, Finishing(t), failures' = 0
  PROVE  RowsKept' /\ FinishedStay
<1>0. pc \in [Tasks -> Places]
  BY DEF Types, TaskTypes
<1>1. \A u \in Tasks : u # t => pc'[u] = pc[u] /\ arg'[u] = arg[u]
  BY OthersStay, FinishingMoves
<1>2. CASE RowFinished(t) /\ RowWritten(currentId)
  BY <1>2, RowFinishedKeeps
<1>3. CASE RowsShift /\ (NothingToFinish(t) \/ TotalCommitted(t))
  <2>1. currentId' = None /\ pc'[t] \notin {"addCommit", "deleteCommit"} /\ pc[t] # "deleteCommit"
    BY <1>0, <1>3 DEF NothingToFinish, TotalCommitted, AfterFinish, Finishes, HoldsLock, Answered
  <2>2. SameAdding /\ SameJob /\ (Deleting => Deleting')
    BY <1>1, <2>1 DEF SameAdding, SameJob, Deleting
  <2> QED BY <1>3, <2>2, ShiftKeeps
<1>4. CASE RowsShift /\ (FinishBegins(t) \/ Undone(t))
  <2>1. currentId' = currentId /\ pc'[t] # "addCommit" /\ pc[t] \notin AtFinish \cup {"deleteCommit"}
    BY <1>0, <1>4 DEF FinishBegins, Undone, Asks, Leaves, Ends, Finishes, HoldsLock, Answered, AtFinish,
                      Counting, jobVars
  <2> QED BY <1>1, <1>4, <2>1, QuietKeeps
<1>5. CASE RowsShift /\ (RowFinished(t) \/ FinishCommitted(t) \/ TotalWritten(t))
  <2>1. pc'[t] \in AtFinish /\ pc'[t] \notin {"addCommit", "deleteCommit"} /\ pc[t] # "deleteCommit"
    BY <1>0, <1>5, PrintFacts DEF RowFinished, FinishCommitted, TotalWritten, Fails, GoesOn, Answered,
                                  AtFinish, Counting
  <2>2. SameAdding /\ SameJob /\ (Deleting => Deleting')
    BY <1>1, <2>1 DEF SameAdding, SameJob, Deleting
  <2> QED BY <1>5, <2>2, ShiftKeeps
<1>6. RowsShift \/ (RowFinished(t) /\ RowWritten(currentId))
  BY FinishingSteps
<1> QED BY <1>2, <1>3, <1>4, <1>5, <1>6 DEF Finishing

(* A step of the main task before or after everything under the locks *)
LEMMA MainKeeps ==
  ASSUME Types, RowsKept, RowsShift, NEW to, to # "addCommit", pc' = [pc EXCEPT ![Main] = to],
         pc[Main] \notin AtFinish \cup {"deleteCommit"}, UNCHANGED currentId,
         \A u \in Task : arg'[u] = arg[u]
  PROVE  RowsKept' /\ FinishedStay
<1>1. /\ Main \in Tasks /\ pc'[Main] = to
      /\ \A u \in Tasks : u # Main => pc'[u] = pc[u] /\ arg'[u] = arg[u]
  BY DEF Tasks, Types, TaskTypes
<1> QED BY <1>1, QuietKeeps

LEMMA InterruptedKeeps ==
  ASSUME Types, RowsKept, InterruptedMarked
  PROVE  RowsKept' /\ FinishedStay
<1>0. /\ life = "boot" /\ UNCHANGED <<currentId, arg>> /\ Main \in Tasks /\ pc[Main] = "mark"
      /\ view.rows \in Rows /\ pc \in [Tasks -> Places]
  BY InterruptedFacts, ContentFacts DEF Tasks, Types, TaskTypes, ContentTypes
<1>1. CASE UNCHANGED contentVars /\ Leaves(Main, "idle")
  <2>1. RowsShift /\ pc' = [pc EXCEPT ![Main] = "idle"]
    BY <1>1 DEF contentVars, RowsShift, Leaves
  <2> QED BY <1>0, <2>1, MainKeeps DEF AtFinish, Counting
<1>2. CASE view'.rows = MarkedRows(view.rows) /\ disk' = disk /\ GoesOn(Main, "markCommit")
  <2>1. \A u \in Tasks : pc[u] \notin {"addCommit", "deleteCommit"} /\ pc'[u] # "addCommit"
    BY <1>0, <1>2 DEF GoesOn, Tasks, Types, MainOK
  <2>2. currentId' = None
    BY <1>0 DEF Types, CurrentOK
  <2>3. /\ DOMAIN view'.rows = DOMAIN view.rows
        /\ \A i \in DOMAIN view.rows :
             view.rows[i].status # "in_progress" => view'.rows[i] = view.rows[i]
    BY <1>0, <1>2, MarkedRowsFacts
  <2>4. \A i \in DOMAIN disk'.rows \cap DOMAIN view'.rows :
          disk'.rows[i].status # "in_progress" => view'.rows[i] = disk'.rows[i]
    BY <1>2, <2>3 DEF RowsKept
  <2>5. FinishedStay
    BY <1>2 DEF FinishedStay
  <2> QED BY <1>2, <2>1, <2>2, <2>3, <2>4, <2>5 DEF RowsKept
<1> QED BY <1>1, <1>2, InterruptedFacts DEF contentVars

(* What every step does to the rows while no statement has failed and nothing *)
(* was restored in this life                                                  *)
LEMMA RowsStep ==
  ASSUME Types, RowsInv, [Next]_vars
  PROVE  /\ RowsInv'
         /\ failures = 0 /\ ~restored' => FinishedStay
<1>0. /\ failures \in Nat /\ Main \in Tasks /\ pc \in [Tasks -> Places] /\ arg \in [Tasks -> Arg]
      /\ view \in Content
  BY PrintFacts DEF Tasks, Types, TaskTypes, ContentTypes
<1>1. ASSUME NEW t \in Task, DatabaseTurn(t)
      PROVE  /\ RowsInv'
             /\ failures = 0 /\ ~restored' => FinishedStay
  <2>1. UNCHANGED failures /\ (restored => restored')
    BY <1>1, DatabaseActs, DatabaseContent
  <2> QED BY <1>1, <2>1, DatabaseKeeps DEF RowsInv
<1>2. ASSUME NEW t \in Tasks, (t \in Task /\ HistoryTurn(t)) \/ Finishing(t)
      PROVE  /\ RowsInv'
             /\ failures = 0 /\ ~restored' => FinishedStay
  <2>1. (UNCHANGED failures \/ Failing) /\ UNCHANGED restored
    BY <1>2, AddingSteps, RequestSteps, FinishingSteps
       DEF HistoryTurn, HistoryStep, InCommand, archiveVars
  <2>2. CASE failures' = 0
    <3>1. failures = 0
      BY <1>0, <2>1, <2>2 DEF Failing
    <3> QED BY <1>2, <2>1, <2>2, <3>1, HistoryKeeps, FinishingKeeps DEF RowsInv
  <2>3. CASE failures' # 0
    <3>1. failures = 0 => Failing
      BY <2>1, <2>3
    <3>2. Failing => disk' = disk
      <4>1. ASSUME Failing
            PROVE  UNCHANGED contentVars
        BY <1>0, <1>2, <4>1
           DEF Failing, HistoryTurn, Finishing, AddBegins, RowAdded, AddCommitted, RequestBegins,
               RowsDeleted,
               DeleteCommitted, JobsRead, ResetDeleted, ResetInserted, ResetEnds, NothingToFinish,
               FinishBegins, RowFinished, FinishCommitted, TotalWritten, TotalCommitted, Undone, Works,
                      Fails, Succeeds
      <4> QED BY <4>1 DEF contentVars
    <3> QED BY <2>3, <3>1, <3>2 DEF RowsInv, FinishedStay
  <2> QED BY <2>2, <2>3
<1>3. CASE NewTask
  <2>1. PICK t, place, a : BeginsTask(t, place, a)
    BY <1>3, NewTaskFacts
  <2>2. /\ t \in Tasks /\ pc[t] = "idle" /\ pc'[t] = place
        /\ \A u \in Tasks : u # t => pc'[u] = pc[u] /\ arg'[u] = arg[u]
    BY <1>0, <2>1 DEF BeginsTask, Tasks
  <2>3. RowsShift /\ UNCHANGED <<currentId, failures, restored>>
    BY <2>1 DEF BeginsTask, contentVars, RowsShift
  <2>4. place # "addCommit"
    BY <2>1 DEF BeginsTask
  <2> QED BY <2>2, <2>3, <2>4, QuietKeeps DEF RowsInv, AtFinish, Counting
<1>4. CASE \/ Boot /\ OfDatabase
           \/ Counted \/ MarkCommitted \/ Stop
           \/ (CloseDatabase \/ Unmarked) /\ OfDatabase
  <2>1. UNCHANGED <<failures, restored, currentId>>
    BY <1>4 DEF Boot, OfDatabase, Counted, MarkCommitted, Stop, CloseDatabase, Unmarked, jobVars,
                archiveVars
  <2>2. PICK to \in {"count", "mark", "idle", "closing", "lock", "unmark", "stop"} :
          /\ pc' = [pc EXCEPT ![Main] = to]
          /\ \/ arg' = arg
             \/ arg' = [arg EXCEPT ![Main] = ForJob(None, "server_exit", "close")]
    BY <1>4 DEF Boot, Counted, MarkCommitted, Stop, CloseDatabase, Unmarked, GoesOn, Leaves, Asks
  <2>3. pc[Main] \notin AtFinish \cup {"deleteCommit"}
    <3>1. \/ life \in {"down", "boot", "up"}
          \/ pc[Main] \in {"closing", "unmark"}
      BY <1>4, MainAt DEF Boot, Counted, MarkCommitted, Stop, CloseDatabase, Unmarked, Answered
    <3> QED BY <3>1 DEF Types, MainOK, AtFinish, Counting
  <2>4. RowsShift
    <3>1. CASE Counted
      BY <3>1, CountedTypes DEF RowsShift
    <3>2. CASE (CloseDatabase \/ Unmarked) /\ OfDatabase
      BY <3>2, ClosingTypes DEF RowsShift, contentVars
    <3>3. CASE Boot \/ MarkCommitted \/ Stop
      BY <3>3 DEF Boot, MarkCommitted, Stop, Commits, contentVars, RowsShift
    <3> QED BY <1>4, <3>1, <3>2, <3>3
  <2>5. \A u \in Task : arg'[u] = arg[u]
    BY <1>0, <2>2, DatabaseConstants DEF Tasks
  <2> QED BY <2>1, <2>2, <2>3, <2>4, <2>5, MainKeeps DEF RowsInv
<1>5. CASE InterruptedMarked
  <2>1. UNCHANGED <<failures, restored>>
    BY <1>5, InterruptedFacts DEF archiveVars
  <2> QED BY <1>5, <2>1, InterruptedKeeps DEF RowsInv
<1>6. CASE Stopped \/ Crash
  <2>1. /\ view' = disk /\ disk' = disk /\ currentId' = None /\ pc' = [t \in Tasks |-> "idle"]
    BY <1>6 DEF Stopped, Crash, ProcessGone, RollsBack
  <2> QED BY <2>1 DEF RowsInv, RowsKept, FinishedStay
<1>7. CASE UNCHANGED vars
  BY <1>7 DEF vars, databaseVars, processVars, contentVars, archiveVars, eventVars, jobVars, RowsInv,
              RowsKept, RowOpen, FinishedStay
<1> QED BY <1>1, <1>2, <1>3, <1>4, <1>5, <1>6, <1>7, NextCases DEF Tasks
-----------------------------------------------------------------------------
LEMMA InitInv == Init => IInv
<1> SUFFICES ASSUME Init PROVE IInv
  OBVIOUS
<1>1. Types
  BY InitTypes
<1>2. \A t \in Tasks : pc[t] = "idle" /\ arg[t] = NoArg
  BY DEF Init
<1>3. None \notin {"add", "replace"} /\ PrintNo \subseteq Nat
  BY DatabaseConstants
<1>4. UnsafeInv /\ ItemsInv
  BY DEF Init, UnsafeInv, UnsafeShutdownsCounted, ItemsInv, NamespaceListed, Empty
<1>5. InterruptedInv
  BY <1>2 DEF Init, InterruptedInv, Tasks
<1>6. CountedInv
  BY <1>2, <1>3 DEF Init, CountedInv, Uncounted, Pending, NoArg
<1>7. RowsInv
  BY <1>2 DEF Init, RowsInv, RowsKept
<1> QED BY <1>1, <1>4, <1>5, <1>6, <1>7 DEF IInv

LEMMA NextInv == IInv /\ [Next]_vars => IInv'
BY NextTypes, UnsafeStep, ItemsStep, InterruptedStep, CountedStep, RowsStep DEF IInv

LEMMA Inductive == Spec => []IInv
BY InitInv, NextInv, PTL DEF Spec

(* Everything the database and the history keep has its type: sequence of       *)
(* commands, locks and their waiters, rows and job, in every life of Moonraker. *)
THEOREM TypeCorrect == Spec => []TypeOK
<1>1. ASSUME IInv
      PROVE  TypeOK
  <2>1. Types
    BY <1>1 DEF IInv
  <2>2. \A t \in Task : arg[t].print \in PrintNo \cup {None} /\ arg[t].id \in Id \cup {None}
    BY <2>1 DEF Types, TaskTypes, Tasks, Arg
  <2>3. {open, hung, listed, restored, marked, overwritten} \subseteq BOOLEAN
    BY <2>1 DEF Types, ContentTypes
  <2>4. current \in [print : PrintNo, status : Status] \cup {NoJob}
    BY <2>1 DEF Types, JobTypes, Job
  <2>5. life \in {"down", "boot", "up", "exit", "closing"}
    BY <2>1 DEF Types, MainOK
  <2> QED BY <2>1, <2>2, <2>3, <2>4, <2>5 DEF Types, BudgetTypes, TaskTypes, ContentTypes, JobTypes,
                                              TypeOK
<1> QED BY <1>1, Inductive, PTL

(* history.py, finish_job and its callers: whoever comes to the lock first, a *)
(* print is added to the totals at most once as long as no statement failed.  *)
THEOREM CountedOnce == Spec => []JobCountedOnce
<1>1. IInv => JobCountedOnce
  BY DEF IInv, CountedInv, Uncounted, JobCountedOnce
<1> QED BY <1>1, Inductive, PTL

(* history.py, component_init: once Moonraker has started, jobs that are in *)
(* progress on the disk are its own, until a backup is restored.            *)
THEOREM NoneLeftInProgress == Spec => []InterruptedFound
<1>1. IInv => InterruptedFound
  BY DEF IInv, InterruptedInv, InterruptedFound, OfThisLife, Running
<1> QED BY <1>1, Inductive, PTL

(* database.py, component_init and close: the count of unsafe shutdowns on the *)
(* disk is right through crashes, stops and restores, until a restore is       *)
(* written over by the close() that had looked before it.                      *)
THEOREM UnsafeCounted == Spec => []UnsafeShutdownsCounted
<1>1. IInv => UnsafeShutdownsCounted
  BY DEF IInv, UnsafeInv
<1> QED BY <1>1, Inductive, PTL

(* database.py, insert_item and drop_empty_namespace: a namespace that holds *)
(* items is listed, in every order of the commands of several requests.      *)
THEOREM NamespaceFound == Spec => []NamespaceListed
<1>1. IInv => NamespaceListed
  BY DEF IInv, ItemsInv
<1> QED BY <1>1, Inductive, PTL

(* history.py, save_job and its transactions: a finished job's row on the disk *)
(* is changed by no event, no later job and nobody's commit or rollback.       *)
THEOREM RowsStay == Spec => FinishedRowsStay
<1>1. IInv /\ [Next]_vars =>
        [(failures = 0 /\ ~restored') =>
           \A i \in DOMAIN disk.rows \cap DOMAIN disk'.rows :
              disk.rows[i].status # "in_progress" => disk'.rows[i] = disk.rows[i]]_vars
  BY RowsStep DEF IInv, FinishedStay
<1> QED BY <1>1, Inductive, PTL DEF Spec, FinishedRowsStay
=============================================================================
