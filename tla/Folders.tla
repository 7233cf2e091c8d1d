------------------------------- MODULE Folders -------------------------------
(***************************************************************************)
(* How the inotify observer of file_manager.py follows the directories of  *)
(* a root, here one without metadata: a node for each that it watches, the *)
(* events of moves that come in two halves, and the timers that gather     *)
(* what happens to a directory into one notification.                      *)
(***************************************************************************)
EXTENDS Host

VARIABLES
  folderAt,   \* the directories there are: the one they are in, and their name
  folderNode, \* nodes by directory: parent_node, name, whether child_nodes of
              \* the parent has it, and whether inotify watches it
  creating,   \* the create_node event of a node, "running", "stopped" or not
  scanned,    \* is_processing_metadata
  removed,    \* pending_deleted_children of a node, while delete_child runs
  halfMoves,  \* pending_moves
  openFile,   \* a file that is being written in a directory
  fileEvent,  \* pending_file_events, of that file
  unseen,     \* events that were not read
  shown,      \* the directories clients know of from notifications
  confused    \* a name was taken, or a directory back, before its removal was notified

folderVars == <<folderAt, folderNode, creating, scanned, removed, halfMoves, openFile,
                fileEvent, unseen, shown, confused>>

Folder == {"d1", "d2", "d3"}
FolderName == {"a", "b"}
FolderHolder == Folder \cup {"root"}

Nowhere == [in |-> "gone", name |-> "a"]
Unwatched == [parent |-> "root", name |-> "a", listed |-> FALSE, watched |-> FALSE]

RealPath[i \in FolderHolder \cup {"gone", "outside"}] ==
  IF i \notin Folder THEN <<i>> ELSE Append(RealPath[folderAt[i].in], folderAt[i].name)
(* get_path *)
NodePath[i \in FolderHolder] ==
  IF i = "root" THEN <<i>> ELSE Append(NodePath[folderNode[i].parent], folderNode[i].name)

Inside(i) == i = "root" \/ RealPath[i][1] = "root"
RealPaths == {RealPath[i] : i \in {j \in Folder : Inside(j)}}
Beneath(path, p) == Len(path) <= Len(p) /\ SubSeq(p, 1, Len(path)) = path
Listed(i) == folderNode[i].listed /\ folderNode[i].watched
ChildOf(nodes, p, n) == {i \in Folder : nodes[i].parent = p /\ nodes[i].name = n /\ nodes[i].listed}
NodesBelow(i) == {j \in Folder : folderNode[j].listed /\ Beneath(NodePath[i], NodePath[j])}

FoldersInit ==
  /\ folderAt \in Among(
       {[i \in Folder |-> Nowhere],
        [i \in Folder |-> CASE i = "d1" -> [in |-> "root", name |-> "a"]
                            [] i = "d2" -> [in |-> "d1", name |-> "a"]
                            [] i = "d3" -> [in |-> "root", name |-> "b"]],
        [i \in Folder |-> CASE i = "d1" -> [in |-> "outside", name |-> "a"]
                            [] i = "d2" -> [in |-> "d1", name |-> "a"]
                            [] OTHER -> Nowhere]}, "folders")
  /\ folderNode = [i \in Folder |->
       IF Inside(i) THEN [parent |-> folderAt[i].in, name |-> folderAt[i].name,
                          listed |-> TRUE, watched |-> TRUE] ELSE Unwatched]
  /\ creating = [i \in Folder |-> "none"] /\ scanned = {}
  /\ removed = [i \in FolderHolder |-> {}] /\ halfMoves = {}
  /\ openFile = "none" /\ fileEvent = "none"
  /\ unseen = <<>> /\ shown = RealPaths
  /\ confused = FALSE

FoldersTypeOK ==
  /\ DOMAIN folderAt = Folder /\ DOMAIN folderNode = Folder
  /\ creating \in [Folder -> {"none", "running", "stopped"}] /\ scanned \subseteq Folder
  /\ removed \in [FolderHolder -> SUBSET FolderName]
  /\ \A m \in halfMoves : m.from \in FolderHolder /\ m.moved \in Folder
  /\ {openFile, fileEvent} \subseteq Folder \cup {"none"}
  /\ \A p \in shown : p[1] = "root"
  /\ confused \in BOOLEAN
-----------------------------------------------------------------------------
(* Notifications.  Clients list what is in a directory they are told of.    *)
TellsDeleted(s, path) == {p \in s : ~Beneath(path, p)}
TellsCreated(s, path) == TellsDeleted(s, path) \cup {p \in RealPaths : Beneath(path, p)}
(* notify_filelist_changed says nothing of what is not there. *)
TellsMoved(s, from, to) ==
  IF to \in RealPaths THEN TellsCreated(TellsDeleted(s, from), to) ELSE s

(* _finish_delete_child *)
TellsRemoved(s, p) == {q \in s : \A n \in removed[p] : ~Beneath(Append(NodePath[p], n), q)}

(* add_watch: the directory at a path, if it is not watched yet *)
ToWatch(path) == {i \in Folder : RealPath[i] = path /\ ~folderNode[i].watched}
At(p, n) == [parent |-> p, name |-> n, listed |-> TRUE, watched |-> TRUE]

(* search_pending_event("create_node"), the nearest node that has it *)
Above[i \in FolderHolder] == IF i = "root" THEN {} ELSE {i} \cup Above[folderNode[i].parent]
PendingNode(i) ==
  LET found == {j \in Above[i] : creating[j] # "none"}
  IN  {j \in found : \A k \in found : Len(NodePath[k]) <= Len(NodePath[j])}

(* reset_event and stop_event *)
Timed(i, state) ==
  [j \in Folder |-> IF j \in PendingNode(i) THEN state ELSE creating[j]]
-----------------------------------------------------------------------------
(* What happens to directories, not faster than the observer reads of it.   *)
(* inotify says what happens in those it watches; both halves of a move     *)
(* come together.                                                           *)
Sees(p) == p = "root" \/ (p \in Folder /\ folderNode[p].watched)
Event(kind, p, n, i) ==
  IF Sees(p) THEN <<[kind |-> kind, in |-> p, name |-> n, moved |-> i, was |-> folderAt[i]]>>
  ELSE <<>>
Taken(p, n) == \E i \in Folder : folderAt[i].in = p /\ folderAt[i].name = n
FolderExists(i) == folderAt[i].in # "gone"
EmptyDir(i) == \A j \in Folder : folderAt[j].in # i

AltersFolder(i, place, events) ==
  /\ folderAt' = [folderAt EXCEPT ![i] = place]
  /\ unseen' = unseen \o events

MakesDir(i) ==
  /\ ~FolderExists(i) /\ ~folderNode[i].watched /\ EmptyDir(i)
  /\ \A k \in DOMAIN unseen : unseen[k].moved # i
  /\ \E p \in FolderHolder, n \in FolderName :
       /\ p # i /\ Inside(p) /\ Len(RealPath[p]) < 3 /\ ~Taken(p, n)
       /\ AltersFolder(i, [in |-> p, name |-> n], Event("create", p, n, i))

RemovesDir(i) ==
  /\ FolderExists(i) /\ EmptyDir(i) /\ Inside(i) /\ openFile # i
  /\ AltersFolder(i, Nowhere, Event("delete", folderAt[i].in, folderAt[i].name, i))

MovesDir(i) ==
  /\ FolderExists(i)
  /\ \E p \in FolderHolder \cup {"outside"}, n \in FolderName :
       /\ IF p = "outside" THEN n = "a"
          ELSE ~Taken(p, n) /\ Inside(p) /\ ~Beneath(RealPath[i], RealPath[p])
       /\ Inside(i) \/ p # "outside"
       /\ p # "root" => EmptyDir(i)
       /\ AltersFolder(i, [in |-> p, name |-> n],
                 Event("from", folderAt[i].in, folderAt[i].name, i)
                   \o Event(IF Sees(folderAt[i].in) THEN "to" ELSE "create", p, n, i))

OpensFile(i) ==
  /\ openFile = "none" /\ FolderExists(i) /\ Inside(i)
  /\ openFile' = i /\ UNCHANGED folderAt
  /\ unseen' = unseen \o Event("file", i, "a", i)

ClosesFile ==
  /\ openFile # "none" /\ openFile' = "none"
  /\ UNCHANGED <<component, klippy, printing, left, folderAt, folderNode, creating, scanned,
                 removed, halfMoves, fileEvent, shown, confused>>
  /\ unseen' = unseen \o Event("written", openFile, "a", openFile)

FolderChanges ==
  /\ unseen = <<>> /\ ~confused /\ Spends("changes")
  /\ \E i \in Folder : \/ (MakesDir(i) \/ RemovesDir(i) \/ MovesDir(i)) /\ UNCHANGED openFile
                       \/ OpensFile(i)
  /\ UNCHANGED <<folderNode, creating, scanned, removed, halfMoves, fileEvent, shown, confused>>
-----------------------------------------------------------------------------
(* _process_dir_event *)

(* create_child_node.  A directory that is gone or watched already is left. *)
CreatesChild(e, p, n) ==
  /\ shown' = TellsRemoved(shown, p)
  /\ removed' = [removed EXCEPT ![p] = {}]
  /\ LET new == IF ChildOf(folderNode, p, n) # {} THEN {} ELSE ToWatch(Append(NodePath[p], n))
     IN  /\ folderNode' = [i \in Folder |-> IF i \in new THEN At(p, n) ELSE folderNode[i]]
         /\ creating' = IF new = {} THEN creating
                        ELSE IF PendingNode(p) = {}
                        THEN [i \in Folder |-> IF i \in new THEN "running" ELSE creating[i]]
                        ELSE Timed(p, "running")
  /\ confused' = (confused \/ \E m \in halfMoves : (m.from = p /\ m.name = n) \/ m.moved = e.moved)
  /\ UNCHANGED <<scanned, halfMoves>>

(* schedule_child_delete *)
RemovesChild(p, n) ==
  LET gone == ChildOf(folderNode, p, n)
  IN  /\ folderNode' = [i \in Folder |-> IF i \in gone THEN Unwatched ELSE folderNode[i]]
      /\ removed' = [i \in FolderHolder |-> IF i \in gone THEN {}
                                      ELSE IF i = p /\ gone # {} THEN removed[p] \cup {n}
                                      ELSE removed[i]]
      /\ creating' = [i \in Folder |-> IF i \in gone THEN "none" ELSE creating[i]]
      /\ UNCHANGED <<scanned, halfMoves, shown, confused>>

HalfMove(i, p, n) == [moved |-> i, from |-> p, name |-> n]
HalfMoved(e) ==
  /\ halfMoves' = IF ChildOf(folderNode, e.in, e.name) = {} THEN halfMoves
                  ELSE halfMoves \cup {HalfMove(e.moved, e.in, e.name)}
  /\ UNCHANGED <<folderNode, creating, scanned, removed, shown, confused>>

(* add_child_node takes the place of a child of that name. *)
Replaced(nodes, p, n, i) ==
  [j \in Folder |-> IF j \in ChildOf(nodes, p, n) THEN [nodes[j] EXCEPT !.listed = FALSE]
                    ELSE nodes[j]]

(* move_child_node flushes what is deleted where the node was, and not      *)
(* where it goes.                                                           *)
MovesChild(e, m) ==
  LET moving == ChildOf(folderNode, m.from, m.name)
      flushed == TellsRemoved(shown, m.from)
  IN  /\ halfMoves' = halfMoves \ {m}
      /\ removed' = [removed EXCEPT ![m.from] = {}]
      /\ folderNode' =
           [i \in Folder |->
              IF i \in moving THEN [folderNode[i] EXCEPT !.parent = e.in, !.name = e.name]
              ELSE Replaced(folderNode, e.in, e.name, i)[i]]
      /\ shown' = IF moving = {} THEN flushed
                  ELSE TellsMoved(flushed, Append(NodePath[m.from], m.name),
                                  Append(NodePath[e.in], e.name))
      /\ confused' = (confused \/ e.name \in removed'[e.in]
                           \/ \E k \in halfMoves' : k.from = e.in /\ k.name = e.name)
      /\ UNCHANGED <<creating, scanned>>

DirEvent(e) ==
  /\ \/ e.kind = "create" /\ CreatesChild(e, e.in, e.name)
     \/ e.kind = "delete" /\ RemovesChild(e.in, e.name)
     \/ e.kind = "from" /\ HalfMoved(e)
     \/ /\ e.kind = "to"
        /\ LET known == {m \in halfMoves : m = HalfMove(e.moved, e.was.in, e.was.name)}
           IN  IF known = {} THEN CreatesChild(e, e.in, e.name)
               ELSE \E m \in known : MovesChild(e, m)
  /\ UNCHANGED fileEvent

(* schedule_file_event and complete_file_write *)
FileInFolder(e) ==
  /\ \/ /\ e.kind = "file" /\ fileEvent' = e.in
        /\ creating' = Timed(e.in, "stopped")
        /\ UNCHANGED <<removed, shown>>
     \/ /\ e.kind = "written" /\ fileEvent' = "none"
        /\ shown' = TellsRemoved(shown, e.in) /\ removed' = [removed EXCEPT ![e.in] = {}]
        /\ creating' = IF fileEvent = e.in /\ Above[e.in] \cap scanned = {}
                       THEN Timed(e.in, "running") ELSE creating
  /\ UNCHANGED <<folderNode, scanned, halfMoves, confused>>

ReadsFolderEvent ==
  /\ unseen # <<>>
  /\ unseen' = Tail(unseen)
  /\ LET e == Head(unseen)
     IN  IF ~Sees(e.in) THEN UNCHANGED <<folderNode, creating, scanned, removed, halfMoves,
                                         fileEvent,
                                        shown, confused>>
         ELSE DirEvent(e) \/ FileInFolder(e)
  /\ UNCHANGED <<component, klippy, printing, left, folderAt, openFile>>
-----------------------------------------------------------------------------
(* The timers *)

(* scan_node goes by paths. *)
ParentNode(j) ==
  LET there == {k \in Folder : folderNode[k].listed /\ NodePath[k] = RealPath[folderAt[j].in]}
  IN  IF there = {} THEN folderAt[j].in ELSE CHOOSE k \in there : TRUE
(* Mutant: what came with a directory is not looked for. *)
OnlyItself(i, j) == FALSE
Unscanned(i, j) ==
  /\ ~folderNode[j].watched /\ Inside(j) /\ Beneath(NodePath[i], RealPath[j])
  /\ ChildOf(folderNode, ParentNode(j), folderAt[j].name) = {}

Misplaced(j) == Inside(j) /\ folderNode[j].watched /\ NodePath[j] # RealPath[j]

(* _finish_create_node.  A path that is not there any more raises, and the  *)
(* node remains in processing.  scan_node makes nodes of what is beneath.   *)
FolderCreated(i) ==
  /\ creating[i] = "running" /\ folderNode[i].watched
  /\ creating' = [creating EXCEPT ![i] = "none"]
  /\ IF NodePath[i] \notin RealPaths
     THEN scanned' = scanned \cup {i} /\ UNCHANGED <<folderNode, shown, confused>>
     ELSE /\ folderNode' =
               [j \in Folder |-> IF Unscanned(i, j) THEN At(ParentNode(j), folderAt[j].name)
                                 ELSE folderNode[j]]
          /\ shown' = TellsCreated(shown, NodePath[i])
          /\ confused' = (confused \/ \E j \in Folder :
                                      Misplaced(j) /\ Beneath(NodePath[i], RealPath[j]))
          /\ UNCHANGED scanned
  /\ UNCHANGED <<removed, halfMoves>>

ChildrenDeleted(p) ==
  /\ removed[p] # {}
  /\ shown' = TellsRemoved(shown, p)
  /\ removed' = [removed EXCEPT ![p] = {}]
  /\ UNCHANGED <<folderNode, creating, scanned, halfMoves, confused>>

(* _handle_move_timeout, of a directory that was moved out *)
MoveTimesOut(m) ==
  /\ m \in halfMoves
  /\ \A k \in DOMAIN unseen : unseen[k].moved = m.moved => unseen[k].kind # "to"
  /\ halfMoves' = halfMoves \ {m}
  /\ LET gone == UNION {NodesBelow(i) : i \in ChildOf(folderNode, m.from, m.name)}
     IN  /\ folderNode' = [i \in Folder |-> IF i \in gone THEN Unwatched ELSE folderNode[i]]
         /\ creating' = [i \in Folder |-> IF i \in gone THEN "none" ELSE creating[i]]
         /\ removed' = [i \in FolderHolder |-> IF i \in gone THEN {} ELSE removed[i]]
         /\ shown' = IF gone = {} THEN shown
                     ELSE TellsDeleted(shown, Append(NodePath[m.from], m.name))
  /\ UNCHANGED <<scanned, confused>>

FolderTimers ==
  /\ \/ \E i \in Folder : FolderCreated(i)
     \/ \E p \in FolderHolder : ChildrenDeleted(p)
     \/ \E m \in halfMoves : MoveTimesOut(m)
  /\ UNCHANGED <<component, klippy, printing, left, folderAt, openFile, fileEvent, unseen>>
-----------------------------------------------------------------------------
Observing ==
  \/ unseen # <<>> \/ halfMoves # {} \/ openFile # "none"
  \/ \E i \in Folder : creating[i] # "none" \/ removed[i] # {}
  \/ removed["root"] # {}

ObserverSteps == ReadsFolderEvent \/ FolderTimers \/ ClosesFile

FoldersNext ==
  /\ \/ FolderChanges /\ UNCHANGED <<component, klippy, printing>>
     \/ ObserverSteps
  /\ pc' = [pc EXCEPT !["worker"] = IF Observing' THEN "observing" ELSE "idle"]

FoldersWorks(t) ==
  /\ t = "worker" /\ ObserverSteps
  /\ pc' = [pc EXCEPT !["worker"] = IF Observing' THEN "observing" ELSE "idle"]

(* Once it is at rest, the observer watches the directories there are, by   *)
(* their names, and clients know them.                                      *)
FoldersFollowed ==
  pc["worker"] = "idle" /\ ~confused /\ scanned = {} =>
    /\ \A i \in Folder : Inside(i) <=> Listed(i)
    /\ \A i \in Folder : Inside(i) => NodePath[i] = RealPath[i]
    /\ shown = RealPaths
=============================================================================
