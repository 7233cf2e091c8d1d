-------------------------------- MODULE Files --------------------------------
(***************************************************************************)
(* file_manager.py: gcode files in one directory that requests, uploads    *)
(* and other programs change, the inotify observer that reads of it later, *)
(* and the metadata of each file, which one task extracts by running a     *)
(* script.  Requests take turns by the NotifySyncLock.                     *)
(***************************************************************************)
EXTENDS Host, SequencesExt

CONSTANT File

ASSUME FilesConstants == IsFiniteSet(File) /\ None \notin File

VARIABLES
  onDisk, newest,      \* content of each file; the number of contents written so far
  events,              \* inotify: what has not been read
  syncQueue, fileOp,   \* sync_lock: its holder, and those who wait; what a request is to do
  meta,                \* metadata: the content (size and time) an entry is of
  jobs, read,          \* pending_requests; what the script has read
  deletes,             \* pending_deleted_children, until its timer
  notices, handling,   \* pending_coroutines, processing_gcode_files
  frozen,              \* the event loop never gets control back
  overtaken            \* history: changed again before the last change was dealt with

fsVars == <<onDisk, newest, overtaken>>
storageVars == <<meta, jobs, read>>
observerVars == <<deletes, notices, handling>>
filesVars == <<fsVars, events, syncQueue, fileOp, storageVars, observerVars, frozen>>

Absent == <<>>
NoOp == [what |-> "none", file |-> None, to |-> None]

(* At the start, initialize() scans the files for those that were written     *)
(* while Moonraker was down.                                                   *)
FilesInit ==
  /\ \E stale \in Among(SUBSET File, "files") :
       /\ onDisk = [f \in File |-> <<f, IF f \in stale THEN 1 ELSE 0>>]
       /\ jobs = SetToSeq({[file |-> f, info |-> <<f, 1>>] : f \in stale})
  /\ newest = 1 /\ meta = [f \in File |-> <<f, 0>>]
  /\ events = <<>> /\ syncQueue = <<>> /\ fileOp = [t \in Request |-> NoOp]
  /\ read = Absent
  /\ deletes = {} /\ notices = <<>> /\ handling = {}
  /\ frozen = FALSE /\ overtaken = {}

Content == (File \X (0..newest)) \cup {Absent}
FilesTypeOK ==
  /\ newest \in Nat /\ onDisk \in [File -> Content] /\ meta \in [File -> Content]
  /\ read \in Content
  /\ deletes \subseteq File /\ handling \subseteq File /\ overtaken \subseteq File
  /\ deletes # {} <=> ~Idle("timer")
  /\ \A i, j \in DOMAIN jobs : jobs[i].file = jobs[j].file => i = j
  /\ pc["worker"] \in {"idle", "extracting"} /\ pc["event"] \in {"idle", "parsing", "parsed"}
  /\ Idle("worker") \/ jobs # <<>>
  /\ \A t \in Request : (\E i \in DOMAIN syncQueue : syncQueue[i] = t) <=> ~Idle(t)
  /\ frozen \in BOOLEAN

Pending(f) == \E i \in DOMAIN jobs : jobs[i].file = f
ToNotify(f) == \E i \in DOMAIN notices : f \in {notices[i].file, notices[i].from}
Unread(f) == \E i \in DOMAIN events : f \in {events[i].file, events[i].from}
Unsettled(f) == Pending(f) \/ ToNotify(f) \/ Unread(f) \/ f \in deletes
-----------------------------------------------------------------------------
(* The file system *)

Happens(kind, f, from) == events' = Append(events, [kind |-> kind, file |-> f, from |-> from])
Alters(S) == overtaken' = overtaken \cup {f \in S : Pending(f)}

Writes(kind, f) ==
  /\ newest' = newest + 1
  /\ onDisk' = [onDisk EXCEPT ![f] = <<f, newest'>>]
  /\ Happens(kind, f, None) /\ Alters({f})

Deletes(f) ==
  /\ onDisk' = [onDisk EXCEPT ![f] = Absent]
  /\ Happens("delete", f, None) /\ Alters({f})
  /\ UNCHANGED newest

Renames(f, g) ==
  /\ onDisk' = [onDisk EXCEPT ![g] = onDisk[f], ![f] = Absent]
  /\ Happens("move", g, f)
  /\ overtaken' = overtaken \cup {x \in {f, g} : Pending(x)} \cup (IF Unsettled(f) \/ f \in overtaken THEN {g} ELSE {})
  /\ UNCHANGED newest

(* copy2 keeps the time. *)
Duplicates(f, g) ==
  /\ onDisk' = [onDisk EXCEPT ![g] = onDisk[f]]
  /\ Happens("write", g, None) /\ Alters({g})
  /\ UNCHANGED newest

(* Other programs *)
Meddles ==
  /\ Spends("changes")
  /\ \/ \E f \in File : Writes("write", f)
     \/ \E f \in File : onDisk[f] # Absent /\ Deletes(f)
     \/ \E f, g \in File : f # g /\ onDisk[f] # Absent /\ Renames(f, g)
  /\ PrinterStays
  /\ UNCHANGED <<pc, syncQueue, fileOp, storageVars, observerVars, frozen>>
-----------------------------------------------------------------------------
(* MetadataStorage *)

(* parse_metadata, whose event is set at once unless there is work to wait for *)
MustWait(f, info) == Pending(f) \/ meta[f] # info
ParseMetadata(t, f, info) ==
  /\ jobs' = IF Pending(f) THEN jobs ELSE Append(jobs, [file |-> f, info |-> info])
  /\ Goes(t, "parsing")

(* _process_metadata_update: a request whose data has become valid is looked  *)
(* at again and again, and nothing else runs.  Else the script starts to read. *)
ProcessesNext ==
  /\ Idle("worker") /\ jobs # <<>>
  /\ IF meta[jobs[1].file] = jobs[1].info THEN frozen' = TRUE /\ UNCHANGED <<pc, read>>
     ELSE /\ Goes("worker", "extracting") /\ read' = onDisk[jobs[1].file]
          /\ UNCHANGED frozen
  /\ PrinterStays
  /\ UNCHANGED <<left, fsVars, events, syncQueue, fileOp, meta, jobs, observerVars>>

(* The request is done, with an entry of content c: all that wait for it go on. *)
Stored(c) ==
  LET f == jobs[1].file
      waits(t) == pc[t] = "parsing" /\ f = IF t = "event" THEN notices[1].file ELSE fileOp[t].file
  IN /\ meta' = [meta EXCEPT ![f] = c]
     /\ jobs' = Tail(jobs)
     /\ read' = Absent
     /\ pc' = [t \in Task |-> IF t = "worker" THEN "idle" ELSE IF waits(t) THEN "parsed" ELSE pc[t]]

(* A script that fails three times leaves an entry with size and time only.    *)
(* Its end takes several turns of the event loop, which reads inotify in each. *)
Extracted ==
  /\ pc["worker"] = "extracting" /\ events = <<>>
  /\ IF read = Absent THEN Stored(jobs[1].info) /\ UNCHANGED left
     ELSE \/ Stored(read) /\ UNCHANGED left
          \/ Stored(jobs[1].info) /\ Spends("changes")
  /\ PrinterStays
  /\ UNCHANGED <<fsVars, events, syncQueue, fileOp, observerVars, frozen>>

(* clear_metadata *)
Without(S) == [f \in File |-> IF f \in S THEN Absent ELSE meta[f]]
-----------------------------------------------------------------------------
(* InotifyObserver *)

(* queue_gcode_notification *)
Queued(n) == notices' = Append(notices, n)

(* Mutant: the deletes that are dealt with stay scheduled. *)
FlushedTwice == UNCHANGED <<deletes, pc>>
(* flush_delete; the metadata goes now: see Without(deletes) *)
Flushed == deletes' = {} /\ Goes("timer", "idle")

FileDeleted(f) ==
  /\ deletes' = deletes \cup {f}
  /\ Goes("timer", "scheduled")
  /\ UNCHANGED <<meta, notices, handling>>

(* A written file, or one moved in, after flush_delete; what the script itself *)
(* writes is not for need_create_notify.                                        *)
FileWritten(f) ==
  /\ Flushed /\ meta' = Without(deletes)
  /\ IF Pending(f) /\ f \in handling THEN UNCHANGED <<notices, handling>>
     ELSE /\ Queued([file |-> f, from |-> None, parse |-> TRUE])
          /\ handling' = handling \cup {f}

(* try_move_metadata: an entry that is overwritten goes, moved one or not. *)
FileMoved(f, g) ==
  /\ Flushed
  /\ meta' = [Without(deletes) EXCEPT ![f] = Absent, ![g] = Without(deletes)[f]]
  /\ Queued([file |-> g, from |-> f, parse |-> Without(deletes)[f] = Absent])
  /\ UNCHANGED handling

(* _handle_inotify_read *)
ReadsEvent ==
  /\ events # <<>>
  /\ events' = Tail(events)
  /\ LET e == events[1] IN
       CASE e.kind = "delete" -> FileDeleted(e.file)
         [] e.kind = "write" -> FileWritten(e.file)
         [] e.kind = "move" -> FileMoved(e.from, e.file)
  /\ PrinterStays
  /\ UNCHANGED <<left, fsVars, syncQueue, fileOp, jobs, read, frozen>>

(* _finish_delete_child *)
DeletesExpire ==
  /\ pc["timer"] = "scheduled"
  /\ Goes("timer", "idle")
  /\ meta' = Without(deletes)
  /\ deletes' = {}
  /\ PrinterStays
  /\ UNCHANGED <<left, fsVars, events, syncQueue, fileOp, jobs, read, notices, handling, frozen>>

(* _process_gcode_notifications: the notification is sent, or waits for an *)
(* entry that is extracted.                                                 *)
Sent(n) ==
  /\ Goes("event", "idle")
  /\ notices' = Tail(notices)
  /\ handling' = IF n.from = None THEN handling \ {n.file} ELSE handling
  /\ UNCHANGED jobs

Notifies ==
  LET n == notices[1]
      waits == n.parse /\ onDisk[n.file] # Absent /\ MustWait(n.file, onDisk[n.file])
  IN /\ notices # <<>>
     /\ \/ Idle("event") /\ waits /\ ParseMetadata("event", n.file, onDisk[n.file])
                          /\ UNCHANGED <<notices, handling>>
        \/ (pc["event"] = "parsed" \/ (Idle("event") /\ ~waits)) /\ Sent(n)
     /\ PrinterStays
     /\ UNCHANGED <<left, fsVars, events, syncQueue, fileOp, meta, read, deletes, frozen>>
-----------------------------------------------------------------------------
(* Requests *)

AskFiles(t, what, f, g) ==
  /\ Idle(t) /\ Spends("asks")
  /\ f # g /\ (what \in {"move", "copy"} <=> g # None)
  /\ Goes(t, "waiting")
  /\ syncQueue' = Append(syncQueue, t)
  /\ fileOp' = [fileOp EXCEPT ![t] = [what |-> what, file |-> f, to |-> g]]
  /\ PrinterStays
  /\ UNCHANGED <<fsVars, events, storageVars, observerVars, frozen>>

HoldsSync(t, place) == pc[t] = place /\ syncQueue[1] = t
Answers(t) ==
  /\ Goes(t, "idle")
  /\ syncQueue' = Tail(syncQueue)
  /\ fileOp' = [fileOp EXCEPT ![t] = NoOp]
StaysIn(t, place) == Goes(t, place) /\ UNCHANGED <<syncQueue, fileOp>>
NothingOnDisk == UNCHANGED <<fsVars, events>>

(* finalize_upload, delete_file, _handle_metascan_request, _handle_file_move_copy *)
Serves(t) ==
  LET op == fileOp[t]
      f == op.file
  IN /\ HoldsSync(t, "waiting")
     /\ IF op.what = "upload"
        THEN /\ Writes("write", f)
             /\ ParseMetadata(t, f, onDisk'[f])
             /\ UNCHANGED <<syncQueue, fileOp, meta>>
        ELSE IF onDisk[f] = Absent THEN Answers(t) /\ NothingOnDisk /\ UNCHANGED <<meta, jobs>>
        ELSE IF op.what = "delete" THEN Answers(t) /\ Deletes(f) /\ UNCHANGED <<meta, jobs>>
        ELSE /\ StaysIn(t, IF op.what = "scan" THEN "scanning" ELSE "copying")
             /\ meta' = IF op.what = "scan" THEN Without({f}) ELSE meta
             /\ NothingOnDisk /\ UNCHANGED jobs
     /\ PrinterStays
     /\ UNCHANGED <<left, read, observerVars, frozen>>

(* The thread moves or copies; then wait_inotify_event *)
Copies(t) ==
  LET op == fileOp[t] IN
  /\ HoldsSync(t, "copying")
  /\ IF onDisk[op.file] = Absent THEN Answers(t) /\ NothingOnDisk
     ELSE /\ IF op.what = "move" THEN Renames(op.file, op.to) ELSE Duplicates(op.file, op.to)
          /\ StaysIn(t, "syncing")
  /\ PrinterStays
  /\ UNCHANGED <<left, storageVars, observerVars, frozen>>

(* The thumbnails are gone. *)
Scans(t) ==
  LET f == fileOp[t].file IN
  /\ HoldsSync(t, "scanning")
  /\ IF onDisk[f] = Absent THEN Answers(t) /\ UNCHANGED jobs
     ELSE ParseMetadata(t, f, onDisk[f]) /\ UNCHANGED <<syncQueue, fileOp>>
  /\ PrinterStays
  /\ UNCHANGED <<left, fsVars, events, meta, read, observerVars, frozen>>

(* The metadata is there; the event has come, or a timeout. *)
Served(t) ==
  /\ HoldsSync(t, "parsed") \/ HoldsSync(t, "syncing")
  /\ Answers(t)
  /\ PrinterStays
  /\ UNCHANGED <<left, fsVars, events, storageVars, observerVars, frozen>>
-----------------------------------------------------------------------------
FileRequest(t) == t \in Request /\ (Serves(t) \/ Copies(t) \/ Scans(t) \/ Served(t))
Extraction == ProcessesNext \/ Extracted

FilesNext ==
  /\ ~frozen
  /\ \/ \E t \in Request, f \in File, g \in File \cup {None},
           what \in {"upload", "delete", "scan", "move", "copy"} : AskFiles(t, what, f, g)
     \/ \E t \in Request : FileRequest(t)
     \/ Meddles \/ ReadsEvent \/ DeletesExpire \/ Notifies \/ Extraction

FilesWorks(t) ==
  /\ ~frozen
  /\ \/ FileRequest(t)
     \/ t = "worker" /\ Extraction
     \/ t = "event" /\ Notifies
     \/ t = "timer" /\ DeletesExpire
     \/ t = "init" /\ ReadsEvent
-----------------------------------------------------------------------------
(* When nothing is left to be read, extracted, notified or removed that is     *)
(* about a file, and no request works on it, its metadata is that of what is   *)
(* on the disk, and a file that is gone has none; but for a file that changed   *)
(* again while its metadata was extracted or, when it was renamed, before its   *)
(* last change was dealt with.  (file_manager.py:1321-1347, :1516-1533,         *)
(* :2083-2228, :2532-2588: a delete is delayed, and flushed by what follows it.) *)
MetadataCurrent ==
  \A f \in File \ overtaken :
    ~Unsettled(f) /\ (\A t \in Request : fileOp[t].file # f) => meta[f] = onDisk[f]
=============================================================================
