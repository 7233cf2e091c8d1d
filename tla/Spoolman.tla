------------------------------ MODULE Spoolman ------------------------------
(***************************************************************************)
(* spoolman.py: filament that Klippy's position reports as used is added   *)
(* up for the active spool and sent to the Spoolman server by a FlexTimer  *)
(* (eventloop.py), while the websocket comes and goes, spools are chosen   *)
(* or deleted and requests fail, with or without having taken effect.      *)
(***************************************************************************)
EXTENDS Host

CONSTANTS Spool, MaxPos

ASSUME SpoolmanConstants == Spool # {} /\ None \notin Spool /\ MaxPos \in Nat

VARIABLES
  spoolId,                 \* spool_id
  lastPos, highestPos,     \* _last_epos, _highest_epos
  pending,                 \* pending_reports; 0 stands for no entry
  taken,                   \* pending_reports of the report under way, not answered
  connected,               \* ws_connected
  timer,                   \* FlexTimer: running, armed; its task is pc["timer"]
  checked,                 \* the spool that _check_spool_deleted asks about
  closing,                 \* is_closing
  spools, charged, news,   \* server: its spools, their use, events not yet read
  pos, top, used,          \* Klippy's extruder, and what each spool really gave
  doubled,                 \* charged by a request whose reply was lost
  misjudged                \* the spools whose use the known flaws may have lost

countVars == <<lastPos, highestPos, pos, top, used>>
serverVars == <<spools, charged, news, doubled>>
spoolVars == <<spoolId, countVars, pending, taken, connected, timer, checked,
               closing, serverVars, misjudged>>

NoUse == [s \in Spool |-> 0]

SpoolmanInit ==
  /\ spoolId = CHOOSE s \in Spool : TRUE
  /\ lastPos = 0 /\ highestPos = 0 /\ pos = 0 /\ top = 0
  /\ pending = NoUse /\ taken = NoUse /\ used = NoUse
  /\ charged = NoUse /\ doubled = NoUse
  /\ connected = FALSE /\ closing = FALSE
  /\ timer = [running |-> FALSE, armed |-> FALSE]
  /\ checked = None
  /\ spools = Spool /\ news = {} /\ misjudged = {}

SpoolmanTypeOK ==
  /\ spoolId \in Spool \cup {None} /\ checked \in Spool \cup {None}
  /\ {lastPos, highestPos, pos, top} \subseteq 0..MaxPos
  /\ \A f \in {pending, taken, used, charged, doubled} : f \in [Spool -> Nat]
  /\ connected \in BOOLEAN /\ closing \in BOOLEAN
  /\ timer \in [running : BOOLEAN, armed : BOOLEAN]
  /\ spools \subseteq Spool /\ news \subseteq Spool /\ misjudged \subseteq Spool
  /\ timer.armed => timer.running /\ Idle("timer")

-----------------------------------------------------------------------------
(* FlexTimer *)

(* Mutant: a start while the callback runs is lost. *)
StartedUnlessBusy ==
  IF timer.running \/ ~Idle("timer") THEN timer ELSE [running |-> TRUE, armed |-> TRUE]
(* start: while its callback runs, the end of the callback arms it *)
Started ==
  IF timer.running THEN timer
  ELSE [running |-> TRUE, armed |-> Idle("timer")]
Stopped == [running |-> FALSE, armed |-> FALSE]

Fires ==
  /\ timer.armed
  /\ timer' = [timer EXCEPT !.armed = FALSE]
  /\ Goes("timer", "scheduled")
  /\ PrinterStays
  /\ UNCHANGED <<left, spoolId, countVars, pending, taken, connected, checked, closing,
                 serverVars, misjudged>>

(* The callback has returned: _call_wrapper arms the timer again. *)
CallbackReturns ==
  /\ Goes("timer", "idle")
  /\ timer' = [timer EXCEPT !.armed = timer.running]
-----------------------------------------------------------------------------
(* Counting *)

(* set_active_spool; Klippy's position is what a new spool should count from *)
Activate(s) ==
  IF spoolId = s THEN UNCHANGED <<spoolId, highestPos, top, misjudged>>
  ELSE /\ spoolId' = s
       /\ highestPos' = lastPos
       /\ top' = pos
       /\ misjudged' = IF lastPos = pos \/ s = None THEN misjudged ELSE misjudged \cup {s}

ChooseSpool(s) ==
  /\ Spends("asks")
  /\ Activate(s)
  /\ PrinterStays
  /\ UNCHANGED <<pc, lastPos, pos, used, pending, taken, connected, timer, checked,
                 closing, serverVars>>

(* _handle_klippy_ready: a restarted Klippy at position p; _last_epos is not set *)
KlippyReady(p) ==
  /\ Spends("changes")
  /\ pos' = p /\ top' = p /\ highestPos' = p
  /\ PrinterStays
  /\ UNCHANGED <<pc, spoolId, lastPos, used, pending, taken, connected, timer, checked,
                 closing, serverVars, misjudged>>

Plus(f, s, n) == [f EXCEPT ![s] = @ + n]

(* What a status update with position p counts *)
Counted(p) == IF p > highestPos THEN p - highestPos ELSE 0

Higher(p, q) == IF p > q THEN p ELSE q

(* _handle_status_update, for a move of the extruder *)
StatusUpdate(p) ==
  /\ p # pos /\ p <= pos + 1
  /\ Spends("changes")
  /\ pos' = p /\ lastPos' = p
  /\ top' = Higher(p, top)
  /\ highestPos' = Higher(p, highestPos)
  /\ IF spoolId = None THEN UNCHANGED <<pending, used>>
     ELSE /\ pending' = Plus(pending, spoolId, Counted(p))
          /\ used' = Plus(used, spoolId, Higher(p, top) - top)
  /\ PrinterStays
  /\ UNCHANGED <<pc, spoolId, taken, connected, timer, checked, closing, serverVars, misjudged>>

(* The same, for a change to another extruder at position p *)
ExtruderChanges(p) ==
  /\ Spends("changes")
  /\ pos' = p /\ lastPos' = p /\ highestPos' = p /\ top' = p
  /\ PrinterStays
  /\ UNCHANGED <<pc, spoolId, used, pending, taken, connected, timer, checked, closing,
                 serverVars, misjudged>>
-----------------------------------------------------------------------------
(* report_extrusion *)

InFlight == CHOOSE s \in Spool : taken[s] > 0

ReportBegins ==
  /\ pc["timer"] = "scheduled"
  /\ IF ~timer.running
     THEN Goes("timer", "idle") /\ UNCHANGED <<timer, pending, taken>>
     ELSE IF ~connected \/ pending = NoUse
     THEN CallbackReturns /\ UNCHANGED <<pending, taken>>
     ELSE /\ taken' = pending /\ pending' = NoUse
          /\ Goes("timer", "sending")
          /\ UNCHANGED timer
  /\ PrinterStays
  /\ UNCHANGED <<left, spoolId, countVars, connected, checked, closing, serverVars, misjudged>>

(* The report of the spool in flight has been dealt with: on to the next one, *)
(* which is kept for later when the websocket is gone.                         *)
OnToNext(pend) ==
  LET rest == [taken EXCEPT ![InFlight] = 0]
  IN IF rest = NoUse \/ ~connected
     THEN /\ taken' = NoUse
          /\ pending' = [s \in Spool |-> pend[s] + rest[s]]
          /\ CallbackReturns
     ELSE /\ taken' = rest /\ pending' = pend
          /\ UNCHANGED <<pc, timer>>

Used ==
  /\ pc["timer"] = "sending" /\ InFlight \in spools
  /\ charged' = Plus(charged, InFlight, taken[InFlight])
  /\ OnToNext(pending)
  /\ PrinterStays
  /\ UNCHANGED <<left, spoolId, countVars, connected, checked, closing, spools, news, doubled,
                 misjudged>>

(* Mutant: a report that failed is dropped. *)
MissedDropped == pending
(* A report that failed is added to what has been counted meanwhile. *)
Missed == Plus(pending, InFlight, taken[InFlight])

(* An error, or a reply that did not come though the server counted the use *)
UseFails(effective) ==
  /\ pc["timer"] = "sending"
  /\ Spends("failures")
  /\ effective => InFlight \in spools
  /\ charged' = IF effective THEN Plus(charged, InFlight, taken[InFlight]) ELSE charged
  /\ doubled' = IF effective THEN Plus(doubled, InFlight, taken[InFlight]) ELSE doubled
  /\ OnToNext(Missed)
  /\ PrinterStays
  /\ UNCHANGED <<spoolId, countVars, connected, checked, closing, spools, news, misjudged>>

NotFound ==
  /\ pc["timer"] = "sending" /\ InFlight \notin spools
  /\ IF InFlight = spoolId THEN Activate(None)
     ELSE UNCHANGED <<spoolId, highestPos, top, misjudged>>
  /\ OnToNext([pending EXCEPT ![InFlight] = 0])
  /\ PrinterStays
  /\ UNCHANGED <<left, lastPos, pos, used, connected, checked, closing, serverVars>>
-----------------------------------------------------------------------------
(* The websocket *)

Connected ==
  /\ ~connected /\ ~closing
  /\ Spends("changes")
  /\ connected' = TRUE /\ timer' = Started
  /\ IF spoolId # None THEN Goes("worker", "scheduled") /\ checked' = None
     ELSE UNCHANGED <<pc, checked>>
  /\ PrinterStays
  /\ UNCHANGED <<spoolId, countVars, pending, taken, closing, serverVars, misjudged>>

(* read_message returns None *)
Disconnected ==
  /\ connected
  /\ IF closing THEN UNCHANGED left ELSE Spends("failures")
  /\ connected' = FALSE /\ timer' = Stopped
  /\ news' = {}
  /\ PrinterStays
  /\ UNCHANGED <<pc, spoolId, countVars, pending, taken, checked, closing, spools, charged,
                 doubled, misjudged>>

DeletedOnServer(s) ==
  /\ s \in spools
  /\ Spends("changes")
  /\ spools' = spools \ {s}
  /\ news' = IF connected THEN news \cup {s} ELSE news
  /\ PrinterStays
  /\ UNCHANGED <<pc, spoolId, countVars, pending, taken, connected, timer, checked, closing,
                 charged, doubled, misjudged>>

(* Both users pop what is pending for the *active* spool. *)
ForgetActive ==
  /\ pending' = [s \in Spool |-> IF s = spoolId THEN 0 ELSE pending[s]]
  /\ spoolId' = None
  /\ IF spoolId = None THEN UNCHANGED <<highestPos, top>>
     ELSE (highestPos' = lastPos /\ top' = pos)

(* _decode_message *)
DeletionRead(s) ==
  /\ s \in news
  /\ news' = news \ {s}
  /\ IF s = spoolId THEN ForgetActive ELSE UNCHANGED <<spoolId, highestPos, top, pending>>
  /\ PrinterStays
  /\ UNCHANGED <<pc, left, lastPos, pos, used, taken, connected, timer, checked, closing,
                 spools, charged, doubled, misjudged>>

(* _check_spool_deleted; a cancelled one is replaced in Connected *)
CheckAsks ==
  /\ pc["worker"] = "scheduled"
  /\ checked' = spoolId
  /\ Goes("worker", IF spoolId = None THEN "idle" ELSE "asking")
  /\ PrinterStays
  /\ UNCHANGED <<left, spoolId, countVars, pending, taken, connected, timer, closing,
                 serverVars, misjudged>>

(* The active spool may be another by now: it is the one that is dropped. *)
CheckAnswered ==
  /\ pc["worker"] = "asking"
  /\ Goes("worker", "idle")
  /\ checked' = None
  /\ IF checked \in spools THEN UNCHANGED <<spoolId, highestPos, top, pending, misjudged>>
     ELSE /\ ForgetActive
          /\ misjudged' = IF spoolId \in {checked, None} THEN misjudged
                          ELSE misjudged \cup {spoolId}
  /\ PrinterStays
  /\ UNCHANGED <<left, lastPos, pos, used, taken, connected, timer, closing, serverVars>>

(* close cancels the check. *)
Close ==
  /\ ~closing
  /\ Spends("failures")
  /\ closing' = TRUE
  /\ timer' = Stopped
  /\ Goes("worker", "idle") /\ checked' = None
  /\ PrinterStays
  /\ UNCHANGED <<spoolId, countVars, pending, taken, connected, serverVars, misjudged>>
-----------------------------------------------------------------------------
SpoolmanReports == ReportBegins \/ Used \/ NotFound \/ (\E e \in BOOLEAN : UseFails(e))
SpoolmanChecks == CheckAsks \/ CheckAnswered

SpoolmanNext ==
  \/ \E s \in Spool \cup {None} : ChooseSpool(s)
  \/ \E p \in 0..MaxPos : KlippyReady(p) \/ StatusUpdate(p) \/ ExtruderChanges(p)
  \/ \E s \in Spool : DeletedOnServer(s) \/ DeletionRead(s)
  \/ Fires \/ SpoolmanReports \/ SpoolmanChecks
  \/ Connected \/ Disconnected \/ Close

SpoolmanWorks(t) ==
  \/ t = "timer" /\ (Fires \/ SpoolmanReports)
  \/ t = "worker" /\ SpoolmanChecks
-----------------------------------------------------------------------------
(* Filament that a spool gave is with the server, about to be sent or waits   *)
(* to be sent, and nothing is charged twice except by a request whose reply   *)
(* was lost; of a deleted spool nothing is claimed.  (Reports that swap       *)
(* pending_reports while use is counted, fail and are merged, a websocket     *)
(* that drops half-way, spools that change meanwhile.)                        *)
UsageCounted ==
  \A s \in spools \ misjudged :
    charged[s] + pending[s] + taken[s] = used[s] + doubled[s]

(* As long as the websocket is up and the server is not being stopped, use    *)
(* that was counted is reported.  (FlexTimer.start and stop around a running  *)
(* callback: eventloop.py:169-222.)                                           *)
UsageReported ==
  []<>((pending = NoUse /\ taken = NoUse) \/ ~connected \/ closing)
=============================================================================
