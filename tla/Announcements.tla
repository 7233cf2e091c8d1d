--------------------------- MODULE Announcements ---------------------------
(***************************************************************************)
(* announcements.py: a feed that clients subscribe to and remove, its       *)
(* entries in the database with the map of their ids in memory, and the     *)
(* entries that were dismissed and wake up again.  The timer and most       *)
(* requests hold request_lock; those about feeds, the components' own       *)
(* announcements and the wake timers do not.                                *)
(***************************************************************************)
EXTENDS Host

VARIABLES
  upstream,       \* the version of the feed; its only item is named after it
  feedOn,         \* subscriptions has the feed
  feedStored,     \* stored_feeds has it
  etag,           \* of the feed's object
  etagStored,     \* in the database
  rows,           \* entries in the database: None, "shown", "asleep", "dismissed"
  mapped,         \* entry_id_map
  strays,         \* entries in the database under a key that no id is mapped to
  annHandles,        \* dismiss_handles
  announceLock,   \* request_lock
  annTask,        \* the etag or answer a task goes on with
  annEntry,       \* the entry, or entries, a task has read
  detached,       \* tasks that fetch for an object which is no longer subscribed
  polls,          \* update_timer is running
  looping,        \* the subscriptions when the timer began to go through them
  unread          \* the etag is of entries that were not taken with it

annFeedVars == <<feedOn, feedStored, etag, etagStored, unread>>
annRowVars == <<rows, mapped, strays, annHandles>>
annTaskVars == <<annTask, annEntry, detached>>
announceVars ==
  <<upstream, annFeedVars, annRowVars, announceLock, annTaskVars, polls, looping>>

FeedVersion == {1, 2}
Own == 0                          \* an announcement of a component
Entry == FeedVersion \cup {Own}
NotModified == 0
NoEntry == [id |-> Own, how |-> "shown", row |-> None, gone |-> {}]
AnnTasks == Request \cup {"timer"}

ASSUME AnnouncementConstants ==
  None \notin {"shown", "asleep", "dismissed"} /\ None \notin FeedVersion \cup {NotModified}

AnnouncementsInit ==
  /\ upstream = 1 /\ feedOn = FALSE /\ feedStored = FALSE
  /\ etag = None /\ etagStored = None /\ unread = FALSE
  /\ rows = [e \in Entry |-> IF e = Own THEN "shown" ELSE None] /\ mapped = {Own}
  /\ strays = {} /\ annHandles = {}
  /\ announceLock = None
  /\ annTask = [t \in Task |-> None] /\ annEntry = [t \in Task |-> NoEntry] /\ detached = {}
  /\ polls = TRUE /\ looping = FALSE

AnnouncementsTypeOK ==
  /\ upstream \in FeedVersion
  /\ {feedOn, feedStored, polls, looping, unread} \subseteq BOOLEAN
  /\ {etag, etagStored} \subseteq FeedVersion \cup {None}
  /\ rows \in [Entry -> {None, "shown", "asleep", "dismissed"}]
  /\ {mapped, strays, annHandles} \subseteq SUBSET Entry
  /\ announceLock \in AnnTasks \cup {None}
  /\ detached \subseteq Task
  /\ feedStored => feedOn \/ \E t \in Request : pc[t] = "pruning"
  /\ announceLock # None => pc[announceLock] \notin {"idle", "queued"}
-----------------------------------------------------------------------------
(* A task reads something; it goes on with what the database or the server said. *)
Reads(t, where, what) ==
  Goes(t, where) /\ annTask' = [annTask EXCEPT ![t] = what] /\ UNCHANGED annEntry
ReadsEntry(t, where, what) ==
  Goes(t, where) /\ annEntry' = [annEntry EXCEPT ![t] = what] /\ UNCHANGED annTask
Stops(t) ==
  /\ Goes(t, "idle")
  /\ annTask' = [annTask EXCEPT ![t] = None] /\ annEntry' = [annEntry EXCEPT ![t] = NoEntry]
AnnUnlocked(t) == announceLock' = IF announceLock = t THEN None ELSE announceLock

(* _handle_update_timer, and the requests that wait for request_lock *)
PollDue ==
  /\ polls /\ Idle("timer") /\ Spends("changes")
  /\ Goes("timer", "queued")
  /\ PrinterStays
  /\ UNCHANGED announceVars

AskAnnouncements(t) ==
  /\ Idle(t) /\ Spends("asks")
  /\ \/ feedOn /\ Reads(t, "queued", None)
     \/ \E e \in mapped, how \in {"asleep", "dismissed"} :
          ReadsEntry(t, "queued", [NoEntry EXCEPT !.id = e, !.how = how])
  /\ PrinterStays
  /\ UNCHANGED <<upstream, annFeedVars, annRowVars, announceLock, detached, polls, looping>>

(* The timer's loop looks at the feeds of the configuration first. *)
AnnTaken(t) ==
  /\ pc[t] = "queued" /\ announceLock = None
  /\ IF t = "timer"
     THEN Reads(t, "others", None) /\ announceLock' = t /\ looping' = feedOn
     ELSE /\ UNCHANGED looping
          /\ LET e == annEntry[t].id
                 update == annEntry[t] = NoEntry
             IN  IF update /\ feedOn THEN Reads(t, "sent", etag) /\ announceLock' = t
                 ELSE IF ~update /\ e \in mapped
                 THEN /\ ReadsEntry(t, "dismissing", [annEntry[t] EXCEPT !.row = rows[e]])
                      /\ announceLock' = t
                 ELSE Stops(t) /\ UNCHANGED announceLock
  /\ PrinterStays
  /\ UNCHANGED <<left, upstream, annFeedVars, annRowVars, detached, polls>>

(* subscriptions has changed: RuntimeError, and the timer will not run again.  *)
LoopBreaks ==
  /\ Stops("timer") /\ AnnUnlocked("timer") /\ polls' = FALSE

OthersUpdated ==
  /\ pc["timer"] = "others"
  /\ IF looping # feedOn THEN LoopBreaks
     ELSE /\ IF feedOn THEN Reads("timer", "sent", etag) /\ UNCHANGED announceLock
             ELSE Stops("timer") /\ AnnUnlocked("timer")
          /\ UNCHANGED polls
  /\ PrinterStays
  /\ UNCHANGED <<left, upstream, annFeedVars, annRowVars, detached, looping>>
-----------------------------------------------------------------------------
(* _fetch_moonlight, _parse_xml *)

FeedAnswers(t) ==
  /\ pc[t] = "sent"
  /\ \/ Reads(t, "answered", IF annTask[t] = upstream THEN NotModified ELSE upstream)
        /\ UNCHANGED left
     \/ Spends("failures") /\ Reads(t, "answered", NotModified)
  /\ PrinterStays
  /\ UNCHANGED <<upstream, annFeedVars, annRowVars, announceLock, detached, polls, looping>>

(* Mutant: an item that is known already does not count as valid. *)
OnlyNew(v) == {v} \ mapped
(* The ids that prune_by_prefix leaves *)
ValidIds(v) == {v}

TakesEntries(v) ==
  LET gone == (mapped \cap FeedVersion) \ ValidIds(v)
  IN  /\ mapped' = (mapped \cup {v}) \ gone
      /\ rows' = [e \in Entry |-> IF e \in gone THEN None
                                  ELSE IF e = v /\ v \notin mapped THEN "shown" ELSE rows[e]]

(* What follows update_entries: the loop goes on, the request is answered, or  *)
(* the new feed is stored.                                                      *)
FeedUpdated(t) ==
  /\ detached' = detached \ {t}
  /\ AnnUnlocked(t) /\ Stops(t)
  /\ polls' = (polls /\ (t = "timer" => looping = feedOn))
  /\ feedStored' = (feedStored \/ (t \in Request /\ announceLock # t))

AnswerTaken(t) ==
  /\ pc[t] = "answered"
  /\ IF annTask[t] = NotModified
     THEN FeedUpdated(t) /\ UNCHANGED <<left, etag, etagStored, rows, mapped, unread>>
     ELSE /\ etag' = IF t \in detached THEN etag ELSE annTask[t]
          /\ etagStored' = annTask[t]
          /\ \/ TakesEntries(annTask[t]) /\ FeedUpdated(t)
                /\ unread' = (t \in detached /\ (unread \/ (feedOn /\ annTask[t] # etag)))
                /\ UNCHANGED left
             \/ (* It is not XML: the exception ends the request, or the timer. *)
                /\ Spends("failures")
                /\ Stops(t) /\ AnnUnlocked(t) /\ detached' = detached \ {t}
                /\ polls' = (polls /\ t # "timer") /\ unread' = TRUE
                /\ UNCHANGED <<rows, mapped, feedStored>>
  /\ PrinterStays
  /\ UNCHANGED <<upstream, feedOn, strays, annHandles, looping>>
-----------------------------------------------------------------------------
(* _handle_feed_request; a feed that was removed left its etag. *)

AddFeed(t) ==
  /\ Idle(t) /\ Spends("asks") /\ ~feedOn
  /\ feedOn' = TRUE /\ etag' = None /\ unread' = (etagStored # None)
  /\ Reads(t, "initializing", etagStored)
  /\ PrinterStays
  /\ UNCHANGED <<upstream, feedStored, etagStored, annRowVars, announceLock, detached, polls,
                 looping>>

FeedInitialized(t) ==
  /\ pc[t] = "initializing"
  /\ etag' = IF t \in detached THEN etag ELSE annTask[t]
  /\ Goes(t, "sent")
  /\ PrinterStays
  /\ UNCHANGED <<left, upstream, feedOn, feedStored, etagStored, unread, annRowVars, announceLock,
                 annTaskVars, polls, looping>>

RemoveFeed(t) ==
  /\ Idle(t) /\ Spends("asks") /\ feedStored
  /\ feedStored' = FALSE /\ feedOn' = FALSE
  /\ detached' = detached \cup {u \in AnnTasks : pc[u] \in {"initializing", "sent", "answered"}}
  /\ ReadsEntry(t, "pruning", [NoEntry EXCEPT !.gone = {e \in FeedVersion : rows[e] # None}])
  /\ PrinterStays
  /\ UNCHANGED <<upstream, etag, etagStored, unread, annRowVars, announceLock, polls, looping>>

(* prune_by_feed *)
FeedPruned(t) ==
  /\ pc[t] = "pruning"
  /\ Stops(t)
  /\ LET gone == annEntry[t].gone \cap mapped
     IN  /\ mapped' = mapped \ gone
         /\ rows' = [e \in Entry |-> IF e \in gone THEN None ELSE rows[e]]
         /\ unread' = (unread \/ (feedOn /\ gone # {}))
  /\ PrinterStays
  /\ UNCHANGED <<left, upstream, feedOn, feedStored, etag, etagStored, strays, annHandles,
                 announceLock, detached, polls,
                 looping>>
-----------------------------------------------------------------------------
(* An entry that was read is written back; if it is gone, it is back, unmapped. *)
WritesBack(e, now) ==
  IF e \in mapped THEN rows' = [rows EXCEPT ![e] = now] /\ UNCHANGED strays
  ELSE strays' = strays \cup {e} /\ UNCHANGED rows

(* dismiss_entry *)
EntryDismissed(t) ==
  /\ pc[t] = "dismissing"
  /\ Stops(t) /\ AnnUnlocked(t)
  /\ LET e == annEntry[t].id
     IN  IF annEntry[t].row # "shown" THEN UNCHANGED annRowVars
         ELSE /\ WritesBack(e, annEntry[t].how)
              /\ annHandles' = annHandles \cup IF annEntry[t].how = "asleep" THEN {e} ELSE {}
              /\ UNCHANGED mapped
  /\ PrinterStays
  /\ UNCHANGED <<left, upstream, annFeedVars, detached, polls, looping>>

(* _wake_dismissed *)
WakeDue ==
  /\ Idle("worker")
  /\ \E e \in annHandles :
       /\ annHandles' = annHandles \ {e}
       /\ IF rows[e] = None /\ e \notin strays THEN UNCHANGED <<pc, annTask, annEntry>>
          ELSE ReadsEntry("worker", "waking", [NoEntry EXCEPT !.id = e, !.row = rows[e]])
  /\ PrinterStays
  /\ UNCHANGED <<left, upstream, annFeedVars, rows, mapped, strays, announceLock, detached, polls,
                 looping>>

EntryWoken ==
  /\ pc["worker"] = "waking"
  /\ Stops("worker")
  /\ IF annEntry["worker"].row = "shown" THEN UNCHANGED <<rows, strays>>
     ELSE WritesBack(annEntry["worker"].id, "shown")
  /\ PrinterStays
  /\ UNCHANGED <<left, upstream, annFeedVars, mapped, annHandles, announceLock, detached, polls,
                 looping>>

(* add_internal_announcement, remove_announcement *)
OwnChanges ==
  /\ Spends("changes")
  /\ IF Own \in mapped
     THEN mapped' = mapped \ {Own} /\ rows' = [rows EXCEPT ![Own] = None]
     ELSE mapped' = mapped \cup {Own} /\ rows' = [rows EXCEPT ![Own] = "shown"]
  /\ PrinterStays
  /\ UNCHANGED <<pc, upstream, annFeedVars, strays, annHandles, announceLock, annTaskVars,
                 polls, looping>>
-----------------------------------------------------------------------------
(* A new version at the feed's server *)
FeedWritten ==
  /\ upstream = 1 /\ Spends("changes") /\ upstream' = 2
  /\ PrinterStays
  /\ UNCHANGED <<pc, annFeedVars, annRowVars, announceLock, annTaskVars, polls, looping>>

(* initialize, after a crash that may have come between etag and entries.  What *)
(* is near its wake time is shown at once.                                       *)
AnnouncementsRestart ==
  /\ Spends("failures")
  /\ pc' = [t \in Task |-> "idle"]
  /\ \/ UNCHANGED etagStored /\ unread' = (unread \/ etag # etagStored)
     \/ \E t \in AnnTasks : pc[t] = "answered" /\ annTask[t] \in FeedVersion
                            /\ etagStored' = annTask[t] /\ unread' = TRUE
  /\ feedOn' = feedStored /\ etag' = etagStored'
  /\ \E near \in {{}, Entry} :
       rows' = [e \in Entry |-> IF rows[e] = None /\ e \in strays THEN "dismissed"
                                ELSE IF rows[e] = "asleep" /\ e \in near THEN "shown" ELSE rows[e]]
  /\ mapped' = {e \in Entry : rows'[e] # None} /\ annHandles' = {e \in Entry : rows'[e] = "asleep"}
  /\ strays' = strays \cap {e \in Entry : rows[e] # None}
  /\ announceLock' = None /\ annTask' = [t \in Task |-> None]
  /\ annEntry' = [t \in Task |-> NoEntry] /\ detached' = {}
  /\ polls' = TRUE /\ looping' = FALSE
  /\ PrinterStays
  /\ UNCHANGED <<upstream, feedStored>>
-----------------------------------------------------------------------------
AnnounceSteps(t) ==
  \/ AnnTaken(t) \/ FeedAnswers(t) \/ AnswerTaken(t)
  \/ FeedInitialized(t) \/ FeedPruned(t) \/ EntryDismissed(t)
WakeSteps == WakeDue \/ EntryWoken

AnnouncementsNext ==
  \/ PollDue \/ OthersUpdated \/ WakeSteps \/ OwnChanges \/ FeedWritten \/ AnnouncementsRestart
  \/ \E t \in AnnTasks : AnnounceSteps(t)
  \/ \E t \in Request : AskAnnouncements(t) \/ AddFeed(t) \/ RemoveFeed(t)

AnnouncementsWorks(t) ==
  \/ t = "timer" /\ OthersUpdated
  \/ t \in AnnTasks /\ AnnounceSteps(t)
  \/ t = "worker" /\ WakeSteps

(* What the feed will not send again, because its etag is current, is there:   *)
(* but for a feed that was removed and added again, or an item that could not   *)
(* be read.  And a known id has its entry.                                       *)
AnnouncementsTrue ==
  /\ feedOn /\ etag = upstream /\ ~unread => upstream \in mapped
  /\ \A e \in mapped : rows[e] # None
=============================================================================
