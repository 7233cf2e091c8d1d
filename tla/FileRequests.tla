---------------------------- MODULE FileRequests ----------------------------
(***************************************************************************)
(* file_manager.py without a file system observer: requests that change     *)
(* files and directories, one at a time, partly in threads, keep the         *)
(* metadata of gcode files up to date themselves, must leave the file that   *)
(* is printed alone, and start or queue the print of an upload.               *)
(***************************************************************************)
EXTENDS Host

VARIABLES
  tree,        \* the version of each file, 0 where there is none
  folders,     \* directories of the gcodes root
  versions,    \* files written so far
  entries,     \* metadata: the version an entry is of, 0 for none
  turns,       \* sync_lock: its holder, and those who wait
  request,     \* what a request is to do
  mayStart,    \* can_start of _finish_gcode_upload
  queuesPrints,    \* configuration: queue_gcode_uploads
  printed,      \* the file of print_stats and its version when the print began
  toPrint, given,   \* uploads to be printed, and prints that were started or queued for them
  declined,    \* uploads to be printed that were answered to be neither
  slipped      \* one of the cases named below has happened

reqVars == <<tree, folders, versions, entries, turns, request, mayStart, queuesPrints, printed,
             toPrint, given, declined, slipped>>

GcodeDir == {"sub", "new"}
GcodePath == {"a", "sub/a", "new/a"}
Path == GcodePath \cup {"config/a"}
Parent(p) == IF p = "sub/a" THEN {"sub"} ELSE IF p = "new/a" THEN {"new"} ELSE {}

NoRequest == [what |-> "none", path |-> "a", to |-> "a", print |-> FALSE]
Asked ==
  [what : {"upload"}, path : {"a"}, to : {"a", "sub/a"}, print : BOOLEAN]
    \cup [what : {"delete"}, path : {"a", "sub/a"}, to : {"a"}, print : {FALSE}]
    \cup [what : {"move", "copy"}, path : {"a", "sub/a"}, to : {"a", "config/a"}, print : {FALSE}]
    \cup [what : {"move"}, path : {"config/a"}, to : {"a"}, print : {FALSE}]
    \cup [what : {"create_dir", "delete_dir", "force_delete", "move_dir", "copy_dir"},
          path : {"sub/a"}, to : {"new/a"}, print : {FALSE}]
    \cup [what : {"zip"}, path : {"a"}, to : {"config/a"}, print : {FALSE}]

NoPrint == [path |-> "a", version |-> 0]

FileRequestsInit ==
  /\ tree = [p \in Path |-> IF p = "new/a" THEN 0 ELSE 1]
  /\ folders = {"sub"} /\ versions = 1 /\ entries = [tree EXCEPT !["config/a"] = 0]
  /\ turns = <<>> /\ request = [t \in Request |-> NoRequest] /\ mayStart = FALSE
  /\ printed = NoPrint /\ queuesPrints \in Among(BOOLEAN, "filerequests")
  /\ toPrint = 0 /\ given = 0 /\ declined = 0 /\ slipped = FALSE

FileRequestsTypeOK ==
  /\ tree \in [Path -> 0..versions] /\ entries \in [Path -> 0..versions]
  /\ folders \subseteq GcodeDir /\ versions \in Nat
  /\ request \in [Request -> Asked \cup {NoRequest}]
  /\ {mayStart, queuesPrints, slipped} \subseteq BOOLEAN
  /\ given \in 0..(toPrint + 1) /\ declined \in 0..toPrint
  /\ printed \in [path : GcodePath, version : 0..versions]
  /\ \A t \in Request : ~Idle(t) <=> \E i \in DOMAIN turns : turns[i] = t

IsFile(p) == tree[p] # 0
CanHold(p) == Parent(p) \subseteq folders
HoldsTurn(t) == turns # <<>> /\ Head(turns) = t
HasTurn(t) == HoldsTurn(t) /\ pc[t] = "asked"
ReqRests == UNCHANGED <<component, klippy>>
storedVars == <<tree, folders, versions, entries>>
outcomeVars == <<queuesPrints, given, declined>>
printVars == <<mayStart, printed, printing, toPrint, outcomeVars>>

AsksFile(t) ==
  /\ Idle(t) /\ Spends("asks")
  /\ turns' = Append(turns, t) /\ Goes(t, "waiting")
  /\ UNCHANGED <<storedVars, printVars, request, slipped>> /\ ReqRests

(* What it is to do matters when its turn has come. *)
TurnCame(t) ==
  /\ HoldsTurn(t) /\ pc[t] = "waiting" /\ Goes(t, "asked")
  /\ \E r \in Asked : request' = [request EXCEPT ![t] = r]
  /\ UNCHANGED <<left, turns, storedVars, printVars, slipped>> /\ ReqRests

(* The lock is released, and the answer sent. *)
EndsRequest(t) ==
  turns' = Tail(turns) /\ Goes(t, "idle") /\ request' = [request EXCEPT ![t] = NoRequest]
ThenWaits(t, place) == Goes(t, place) /\ UNCHANGED <<turns, request>>
-----------------------------------------------------------------------------
(* What a request checks, and does, before it first waits *)

(* _handle_operation_check *)
InUse(p) == printing /\ printed.path = p

(* Mutant: only the destination is checked. *)
ToUntouched(r) == ~(IsFile(r.to) /\ InUse(r.to))
(* A file that is printed is neither moved nor replaced. *)
Untouched(r) ==
  /\ IsFile(r.to) => ~InUse(r.to)
  /\ r.what \in {"move", "move_dir"} => ~InUse(r.path)

Allowed(r) ==
  CASE r.what = "upload" -> ~InUse(r.to)
    [] r.what = "delete" -> IsFile(r.path) /\ ~InUse(r.path)
    [] r.what = "create_dir" -> "new" \notin folders
    [] r.what = "delete_dir" -> "sub" \in folders /\ ~IsFile("sub/a")
    [] r.what = "force_delete" -> "sub" \in folders /\ ~InUse("sub/a")
    [] r.what \in {"move", "copy"} -> IsFile(r.path) /\ CanHold(r.to) /\ Untouched(r)
    [] r.what \in {"move_dir", "copy_dir"} ->
         "sub" \in folders /\ "new" \notin folders /\ Untouched(r)
    [] r.what = "zip" -> TRUE

FileRefused(t) ==
  /\ HasTurn(t) /\ ~Allowed(request[t]) /\ EndsRequest(t)
  /\ UNCHANGED <<left, storedVars, printVars, slipped>> /\ ReqRests

(* remove_file_metadata, remove_directory_metadata *)
Cleared(p) == [entries EXCEPT ![p] = 0]

(* delete_file and _handle_directory_request *)
RemovedAtOnce(t) ==
  /\ HasTurn(t) /\ Allowed(request[t]) /\ EndsRequest(t)
  /\ LET r == request[t] IN
     \/ /\ r.what = "delete"
        /\ tree' = [tree EXCEPT ![r.path] = 0] /\ entries' = Cleared(r.path)
        /\ UNCHANGED folders
     \/ /\ r.what = "create_dir"
        /\ folders' = folders \cup {"new"} /\ UNCHANGED <<tree, entries>>
     \/ /\ r.what = "delete_dir"
        /\ folders' = folders \ {"sub"} /\ entries' = Cleared("sub/a")
        /\ UNCHANGED tree
  /\ UNCHANGED <<left, versions, printVars, slipped>> /\ ReqRests

ThreadStarts(t) ==
  /\ HasTurn(t) /\ Allowed(request[t]) /\ ThenWaits(t, "thread")
  /\ request[t].what \in {"force_delete", "move", "copy", "move_dir", "copy_dir", "zip"}
  /\ UNCHANGED <<left, storedVars, printVars, slipped>> /\ ReqRests

(* _finish_gcode_upload and _process_uploaded_file *)
UploadPlaced(t) ==
  /\ HasTurn(t) /\ request[t].what = "upload" /\ Allowed(request[t])
  /\ \/ /\ versions' = versions + 1
        /\ tree' = [tree EXCEPT ![request[t].to] = versions']
        /\ folders' = folders \cup Parent(request[t].to)
        /\ mayStart' = ~printing /\ toPrint' = toPrint + (IF request[t].print THEN 1 ELSE 0)
        /\ ThenWaits(t, "metadata") /\ UNCHANGED left
     \/ /\ Spends("failures") /\ EndsRequest(t)
        /\ UNCHANGED <<versions, tree, folders, mayStart, toPrint>>
  /\ UNCHANGED <<entries, printed, printing, outcomeVars, slipped>> /\ ReqRests
-----------------------------------------------------------------------------
(* What the thread has done, and what is done then *)

(* Mutant: the entry stays where it is. *)
StaysBehind(from, to) == entries
(* move_file_metadata, move_directory_metadata; out of the root it is cleared, *)
(* and what comes without an entry has none that it replaces.                  *)
EntriesMoved(from, to) ==
  [p \in Path |-> IF p = from THEN 0
                  ELSE IF p # to THEN entries[p]
                  ELSE IF {from, to} \subseteq GcodePath THEN entries[from] ELSE 0]
(* on_item_move, on_item_copy: what has no entry is parsed. *)
FileMovedBy(t) ==
  /\ HoldsTurn(t) /\ pc[t] = "thread"
  /\ request[t].what \in {"move", "move_dir", "copy", "copy_dir"}
  /\ LET r == request[t]   moves == r.what \in {"move", "move_dir"} IN
       /\ tree' = [p \in Path |-> IF p = r.to THEN tree[r.path]
                                  ELSE IF p = r.path /\ moves THEN 0 ELSE tree[p]]
       /\ folders' = IF r.what \notin {"move_dir", "copy_dir"} THEN folders
                     ELSE (folders \cup {"new"}) \ (IF moves THEN {"sub"} ELSE {})
       /\ entries' = IF moves THEN EntriesMoved(r.path, r.to) ELSE entries
       /\ IF r.to \in GcodePath /\ (~moves \/ entries'[r.to] = 0) /\ tree'[r.to] # 0
          THEN ThenWaits(t, "metadata") ELSE EndsRequest(t)
  /\ UNCHANGED <<left, versions, printVars, slipped>> /\ ReqRests

FolderRemoved(t) ==
  /\ HoldsTurn(t) /\ pc[t] = "thread" /\ request[t].what = "force_delete" /\ EndsRequest(t)
  /\ tree' = [tree EXCEPT !["sub/a"] = 0] /\ folders' = folders \ {"sub"}
  /\ entries' = Cleared("sub/a")
  /\ UNCHANGED <<left, versions, printVars, slipped>> /\ ReqRests

Zipped(t) ==
  /\ HoldsTurn(t) /\ pc[t] = "thread" /\ request[t].what = "zip" /\ EndsRequest(t)
  /\ versions' = versions + 1 /\ tree' = [tree EXCEPT !["config/a"] = versions']
  /\ UNCHANGED <<left, folders, entries, printVars, slipped>> /\ ReqRests

(* One that fails has changed nothing, or removed part of a directory. *)
ThreadFails(t) ==
  /\ HoldsTurn(t) /\ pc[t] = "thread" /\ Spends("failures") /\ EndsRequest(t)
  /\ \/ UNCHANGED <<tree, slipped>>
     \/ /\ request[t].what = "force_delete"
        /\ tree' = [tree EXCEPT !["sub/a"] = 0] /\ slipped' = TRUE
  /\ UNCHANGED <<folders, versions, entries, printVars>> /\ ReqRests

-----------------------------------------------------------------------------
(* The print of an upload *)

(* Mutant: it is not queued. *)
EndsAnyway(t) == EndsRequest(t) /\ declined' = declined + 1
(* A print that is not started is queued, where the configuration asks for *)
(* it; else the answer says that it was neither.                           *)
QueuedInstead(t) ==
  \/ queuesPrints /\ ThenWaits(t, "queueing") /\ UNCHANGED declined
  \/ ~queuesPrints /\ EndsRequest(t) /\ declined' = declined + 1

(* parse_metadata and the wait for it: its failure leaves no entry. *)
MetadataParsed(t) ==
  /\ HoldsTurn(t) /\ pc[t] = "metadata"
  /\ LET p == request[t].to IN
       \/ entries' = [entries EXCEPT ![p] = tree[p]] /\ UNCHANGED left
       \/ entries' = Cleared(p) /\ Spends("failures")
  /\ IF ~(request[t].what = "upload" /\ request[t].print) THEN EndsRequest(t) /\ UNCHANGED declined
     ELSE IF mayStart THEN ThenWaits(t, "starting") /\ UNCHANGED declined
     ELSE QueuedInstead(t)
  /\ UNCHANGED <<tree, folders, versions, mayStart, queuesPrints, printed, printing, toPrint, given,
                 slipped>> /\ ReqRests

(* An answer that is lost is taken for a failure. *)
UploadStarts(t) ==
  /\ HoldsTurn(t) /\ pc[t] = "starting"
  /\ \/ /\ ~printing /\ IsFile(request[t].to) /\ printing' = TRUE
        /\ printed' = [path |-> request[t].to, version |-> tree[request[t].to]]
        /\ given' = given + 1
        /\ \/ EndsRequest(t) /\ UNCHANGED <<left, declined, slipped>>
           \/ Spends("failures") /\ slipped' = TRUE /\ QueuedInstead(t)
     \/ /\ IF printing THEN UNCHANGED left ELSE Spends("failures")
        /\ QueuedInstead(t)
        /\ UNCHANGED <<printing, printed, given, slipped>>
  /\ UNCHANGED <<storedVars, mayStart, queuesPrints, toPrint>> /\ ReqRests

UploadQueued(t) ==
  /\ HoldsTurn(t) /\ pc[t] = "queueing" /\ EndsRequest(t)
  /\ given' = IF slipped THEN given ELSE given + 1
  /\ UNCHANGED <<left, storedVars, mayStart, queuesPrints, printed, printing, toPrint, declined,
                 slipped>> /\ ReqRests

OtherPrint ==
  /\ ~printing /\ Spends("changes") /\ printing' = TRUE
  /\ \E p \in GcodePath : IsFile(p) /\ printed' = [path |-> p, version |-> tree[p]]
  /\ slipped' = (slipped \/ \E t \in Request : pc[t] = "thread")
  /\ UNCHANGED <<pc, storedVars, turns, request, mayStart, toPrint, outcomeVars>> /\ ReqRests

PrintEnds ==
  /\ printing /\ printing' = FALSE /\ printed' = NoPrint
  /\ UNCHANGED <<pc, left, storedVars, turns, request, mayStart, toPrint, outcomeVars, slipped>>
  /\ ReqRests

FileRequestsNext ==
  \/ \E t \in Request :
       \/ AsksFile(t) \/ TurnCame(t) \/ FileRefused(t) \/ RemovedAtOnce(t)
       \/ ThreadStarts(t) \/ UploadPlaced(t)
       \/ FileMovedBy(t) \/ FolderRemoved(t) \/ Zipped(t) \/ ThreadFails(t) \/ MetadataParsed(t)
       \/ UploadStarts(t) \/ UploadQueued(t)
  \/ OtherPrint \/ PrintEnds

FileRequestsWorks(t) ==
  /\ t \in Request
  /\ \/ TurnCame(t) \/ FileRefused(t) \/ RemovedAtOnce(t) \/ ThreadStarts(t)
     \/ UploadPlaced(t) \/ FileMovedBy(t)
     \/ FolderRemoved(t) \/ Zipped(t) \/ MetadataParsed(t) \/ UploadStarts(t) \/ UploadQueued(t)

(* Between requests an entry is of the file as it is, but after a directory was  *)
(* removed in part (file_manager.py:523-526).                                     *)
EntriesCurrent ==
  turns = <<>> /\ ~slipped => \A p \in GcodePath : entries[p] \in {0, tree[p]}

(* The file that is printed is the one that was printed, unless its print began    *)
(* while a thread was changing it (file_manager.py:519-525, 632-633); an upload to *)
(* be printed is either started or queued, but for an answer that was lost (920),   *)
(* or answered to be neither, which with queue_gcode_uploads never happens (924).    *)
PrintedAsAsked ==
  ~slipped =>
    /\ printing => tree[printed.path] = printed.version
    /\ turns = <<>> => given + declined = toPrint
    /\ queuesPrints => declined = 0
=============================================================================
