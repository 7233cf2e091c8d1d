------------------------------ MODULE PanelDue ------------------------------
(***************************************************************************)
(* paneldue.py: a display on a serial line (async_serial.py) that asks for  *)
(* the printer's state, has G-code and files handled, and shows a dialog    *)
(* before a macro that must be confirmed is run.                            *)
(***************************************************************************)
EXTENDS Host

VARIABLES
  lineUp,       \* whether the serial port is open
  fromPanel,    \* lines that have come from the panel, or are coming
  toPanel,      \* send_buffer
  inHand,       \* what _do_send is writing, None when nothing
  screen,       \* what the panel shows of the printer, None after it was off
  dialog,       \* the macro whose dialog the panel shows, or None
  confirmed,    \* confirmed_gcode
  gcQueue,      \* gc_queue and, first, the script that runs
  gqBusy,       \* gq_busy
  commandQueue,     \* command_queue and, first, the command that runs
  cqBusy,       \* cq_busy
  panelJob,          \* print_stats and idle_timeout of the subscription cache
  panelReady, panelShutdown, lastPrinterState,
  readyOvertaken,    \* Klippy changed while _process_klippy_ready was running
  mixed,        \* messages have left in another order, or two dialogs were asked at a time
  tries         \* retries

lineVars == <<lineUp, fromPanel, toPanel, inHand, screen, dialog, mixed>>
queueVars == <<confirmed, gcQueue, gqBusy, commandQueue, cqBusy>>
stateVars == <<panelJob, panelReady, panelShutdown, lastPrinterState, readyOvertaken, tries>>
panelVars == <<lineVars, queueVars, stateVars>>

MaxTries == 2   \* 10 in the code
Macros == {"CALIBRATE", "RESTART"}   \* confirmed_macros
Status == {"O", "S", "P", "R", "A", "D", "I"}
Line == [kind : {"status", "delete", "gcode", "stop", "cancel"}, macro : {None}]
          \cup [kind : {"macro", "ok"}, macro : Macros]
Message == [kind : {"status"}, what : Status] \cup [kind : {"dialog"}, what : Macros]

(* None is no message. *)
ASSUME PanelConstants == None \notin Message

PanelDueInit ==
  /\ lineUp = FALSE /\ fromPanel = <<>> /\ toPanel = <<>> /\ inHand = None
  /\ screen = None /\ dialog = None /\ mixed = FALSE
  /\ confirmed = None /\ gcQueue = <<>> /\ gqBusy = FALSE /\ commandQueue = <<>> /\ cqBusy = FALSE
  /\ panelJob = "printing"
  /\ panelReady = TRUE /\ panelShutdown = FALSE /\ lastPrinterState = "O" /\ readyOvertaken = FALSE
  /\ tries = MaxTries

PanelDueTypeOK ==
  /\ \A i \in 1..Len(fromPanel) : fromPanel[i] \in Line
  /\ \A i \in 1..Len(toPanel) : toPanel[i] \in Message
  /\ inHand \in Message \cup {None} /\ screen \in Status \cup {None}
  /\ {dialog, confirmed} \subseteq Macros \cup {None}
  /\ panelJob \in {"standby", "printing", "pausing", "paused"} /\ lastPrinterState \in Status
  /\ {lineUp, mixed, gqBusy, cqBusy, panelReady, panelShutdown, readyOvertaken} \subseteq BOOLEAN
  /\ tries \in 0..MaxTries
-----------------------------------------------------------------------------
(* The serial line *)

(* AsyncSerialConnection.open: run_serial tries again until it works. *)
LineOpens ==
  /\ ~lineUp /\ inHand = None /\ fromPanel = <<>> /\ lineUp' = TRUE /\ screen' = "O"
  /\ UNCHANGED <<pc, left, fromPanel, toPanel, inHand, dialog, mixed, queueVars, stateVars>>
  /\ PrinterStays

(* close: what is not written is given up; lines that have come are still read. *)
LineLost ==
  /\ lineUp /\ Spends("failures")
  /\ lineUp' = FALSE /\ toPanel' = <<>> /\ screen' = None /\ dialog' = None
  /\ \E n \in 0..Len(fromPanel) : fromPanel' = SubSeq(fromPanel, 1, n)
  /\ UNCHANGED <<pc, inHand, mixed, queueVars, stateVars>> /\ PrinterStays

(* write_response: without a line it is lost. *)
PanelWrites(messages) == toPanel' = IF lineUp THEN toPanel \o messages ELSE toPanel

Shows(message) ==
  IF message.kind = "status" THEN screen' = message.what /\ UNCHANGED dialog
  ELSE dialog' = message.what /\ UNCHANGED screen

(* _do_send takes the message that came last; a write that blocks is tried again. *)
PanelSending ==
  /\ inHand = None /\ toPanel # <<>>
  /\ \/ Shows(toPanel[Len(toPanel)]) /\ UNCHANGED <<inHand, left>>
     \/ Spends("failures") /\ inHand' = toPanel[Len(toPanel)] /\ UNCHANGED <<screen, dialog>>
  /\ toPanel' = SubSeq(toPanel, 1, Len(toPanel) - 1)
  /\ mixed' = (mixed \/ toPanel' # <<>>)
  /\ UNCHANGED <<pc, lineUp, fromPanel, queueVars, stateVars>> /\ PrinterStays

(* A line that is closed by then ends the sending. *)
SendEnds ==
  /\ inHand # None /\ inHand' = None
  /\ IF lineUp THEN Shows(inHand) ELSE UNCHANGED <<screen, dialog>>
  /\ UNCHANGED <<pc, left, lineUp, fromPanel, toPanel, mixed, queueVars, stateVars>>
  /\ PrinterStays

(* The panel: its dialog is answered before anything else is asked. *)
PanelSends ==
  /\ lineUp
  /\ \E line \in Line :
       /\ fromPanel' = Append(fromPanel, line)
       /\ IF line.kind \in {"ok", "cancel"}
          THEN /\ dialog # None /\ dialog' = None /\ UNCHANGED left
               /\ line.kind = "ok" => line.macro = dialog
          ELSE dialog = None /\ Spends("asks") /\ UNCHANGED dialog
  /\ UNCHANGED <<pc, lineUp, toPanel, inHand, screen, mixed, queueVars, stateVars>>
  /\ PrinterStays
-----------------------------------------------------------------------------
(* process_line *)

(* Scripts carry the dialog they were confirmed by. *)
Script(name, by) == [script |-> name, by |-> by]
QueuesGcode(entries) ==
  /\ gcQueue' = gcQueue \o entries
  /\ gqBusy' = (gqBusy \/ entries # <<>>)
  /\ IF entries # <<>> /\ ~gqBusy THEN Goes("worker", "gcode") ELSE UNCHANGED pc

QueuesCommand(command) ==
  /\ commandQueue' = Append(commandQueue, command)
  /\ cqBusy' = TRUE
  /\ IF ~cqBusy THEN Goes("timer", "command") ELSE UNCHANGED pc

(* Mutant: the macro is run at once, too. *)
AtOnce(macro) == <<Script(macro, None)>>
(* _prepare_M98: what is left to run after _create_confirmation. *)
UntilConfirmed(macro) == <<>>

(* A dialog that has not been answered, or whose answer has not come. *)
DialogOpen ==
  \/ dialog # None
  \/ inHand # None /\ inHand.kind = "dialog"
  \/ \E i \in 1..Len(toPanel) : toPanel[i].kind = "dialog"
  \/ \E i \in 1..Len(fromPanel) : fromPanel[i].kind = "ok"

LineRead ==
  /\ fromPanel # <<>> /\ fromPanel' = Tail(fromPanel)
  /\ LET line == Head(fromPanel) IN
     CASE line.kind \in {"status", "delete"} ->
            /\ QueuesCommand(line.kind)
            /\ UNCHANGED <<left, klippy, confirmed, gcQueue, gqBusy, toPanel, mixed>>
       [] line.kind = "gcode" ->
            /\ \/ QueuesGcode(<<Script("G28", None)>>) /\ UNCHANGED left
               \/ Spends("failures") /\ UNCHANGED <<pc, gcQueue, gqBusy>>   \* a wrong checksum
            /\ UNCHANGED <<klippy, confirmed, commandQueue, cqBusy, toPanel, mixed>>
       [] line.kind = "stop" ->
            /\ klippy' = IF klippy = "ready" THEN "shutdown" ELSE klippy
            /\ UNCHANGED <<pc, left, queueVars, toPanel, mixed>>
       [] line.kind = "macro" ->
            /\ PanelWrites(<<[kind |-> "dialog", what |-> line.macro]>>)
            /\ confirmed' = line.macro
            /\ mixed' = (mixed \/ DialogOpen)
            /\ QueuesGcode(UntilConfirmed(line.macro))
            /\ UNCHANGED <<left, klippy, commandQueue, cqBusy>>
       [] line.kind = "ok" ->
            /\ QueuesGcode(IF confirmed = None THEN <<>> ELSE <<Script(confirmed, line.macro)>>)
            /\ confirmed' = None
            /\ UNCHANGED <<left, klippy, commandQueue, cqBusy, toPanel, mixed>>
       [] OTHER -> UNCHANGED <<pc, left, klippy, queueVars, toPanel, mixed>>
  /\ IF klippy' # klippy
     THEN panelShutdown' = TRUE /\ readyOvertaken' = (readyOvertaken \/ ~Idle("event"))
     ELSE UNCHANGED <<panelShutdown, readyOvertaken>>
  /\ UNCHANGED <<component, printing, lineUp, inHand, screen, dialog, panelJob, panelReady,
                 lastPrinterState,
                 tries>>

(* Mutant: an error ends the task. *)
StillBusy(worked) == IF worked THEN Tail(gcQueue) # <<>> ELSE gqBusy
(* _process_gcode_queue goes on after an error. *)
MoreGcode(worked) == Tail(gcQueue) # <<>>

(* The script comes back; one that Klippy cannot run, or restarts it, fails at once. *)
GcodeRun ==
  /\ pc["worker"] = "gcode"
  /\ \E worked \in IF klippy = "ready" THEN BOOLEAN ELSE {FALSE} :
       /\ IF ~worked /\ klippy = "ready" THEN Spends("failures") ELSE UNCHANGED left
       /\ gqBusy' = MoreGcode(worked)
       /\ Goes("worker", IF worked \/ gqBusy' THEN IF Tail(gcQueue) = <<>> THEN "idle" ELSE "gcode"
                         ELSE "idle")
  /\ gcQueue' = Tail(gcQueue)
  /\ UNCHANGED <<lineVars, confirmed, commandQueue, cqBusy, stateVars>> /\ PrinterStays

(* _get_printer_status *)
PrinterStatus ==
  CASE panelShutdown -> "S"
    [] panelJob = "printing" /\ ~panelShutdown -> IF lastPrinterState = "A" THEN "R" ELSE "P"
    [] panelJob = "pausing" /\ ~panelShutdown -> IF lastPrinterState = "A" THEN "A" ELSE "D"
    [] panelJob = "paused" /\ ~panelShutdown -> "A"
    [] panelJob = "standby" /\ ~panelShutdown -> "I"

(* M408, which takes note of what it has answered. *)
PanelAnswered ==
  /\ lastPrinterState' = IF panelReady THEN PrinterStatus ELSE "O"
  /\ PanelWrites(<<[kind |-> "status", what |-> lastPrinterState']>>)

(* _process_command_queue: M408 answers, M30 has waited for a file's deletion. *)
CommandRun ==
  /\ pc["timer"] = "command"
  /\ IF Head(commandQueue) = "status" THEN PanelAnswered
     ELSE UNCHANGED <<lastPrinterState, toPanel>>
  /\ commandQueue' = Tail(commandQueue)
  /\ cqBusy' = (commandQueue' # <<>>)
  /\ Goes("timer", IF commandQueue' = <<>> THEN "idle" ELSE "command")
  /\ UNCHANGED <<left, lineUp, fromPanel, inHand, screen, dialog, mixed, confirmed, gcQueue,
                 gqBusy, panelJob, panelReady, panelShutdown, readyOvertaken, tries>>
  /\ PrinterStays
-----------------------------------------------------------------------------
(* Klippy *)

PanelJobChanges ==
  /\ klippy = "ready" /\ Spends("changes")
  /\ \E next \in {"standby", "printing", "pausing", "paused"} :
       /\ <<panelJob, next>> \in {<<"standby", "printing">>, <<"printing", "pausing">>,
                             <<"printing", "standby">>, <<"pausing", "paused">>,
                             <<"paused", "printing">>, <<"paused", "standby">>}
       /\ panelJob' = next
  /\ UNCHANGED <<pc, lineVars, queueVars, panelReady, panelShutdown, lastPrinterState,
                 readyOvertaken, tries>>
  /\ PrinterStays

(* _process_klippy_shutdown *)
PanelShutdown ==
  /\ klippy = "ready" /\ Spends("changes") /\ klippy' = "shutdown"
  /\ panelShutdown' = TRUE /\ readyOvertaken' = ~Idle("event")
  /\ UNCHANGED <<component, printing, pc, lineVars, queueVars, panelJob, panelReady,
                 lastPrinterState, tries>>

(* Mutant: the panel is told when it asks. *)
ToldWhenAsked == UNCHANGED toPanel
(* _process_klippy_disconnect writes at once. *)
PrinterIsOff == PanelWrites(<<[kind |-> "status", what |-> "O"]>>)

PanelDisconnect ==
  /\ klippy # "offline" /\ Spends("changes") /\ klippy' = "offline"
  /\ PrinterIsOff
  /\ lastPrinterState' = "O" /\ panelReady' = FALSE /\ panelShutdown' = FALSE
  /\ readyOvertaken' = ~Idle("event") /\ panelJob' = "standby"
  /\ UNCHANGED <<component, printing, pc, lineUp, fromPanel, inHand, screen, dialog, mixed,
                 queueVars, tries>>

PanelReady ==
  /\ klippy = "offline" /\ Idle("event") /\ klippy' = "ready"
  /\ Goes("event", "info") /\ tries' = MaxTries /\ readyOvertaken' = FALSE
  /\ UNCHANGED <<component, printing, left, lineVars, queueVars, panelJob, panelReady,
                 panelShutdown,
                 lastPrinterState>>

(* _process_klippy_ready: its requests are tried again, its subscription is not; *)
(* the end is the same whether that has worked.                                  *)
InfoCame ==
  /\ pc["event"] = "info"
  /\ \/ klippy # "offline" /\ Goes("event", "subscribing") /\ UNCHANGED <<left, tries>>
     \/ /\ IF klippy = "offline" THEN UNCHANGED left ELSE Spends("failures")
        /\ tries' = tries - 1
        /\ Goes("event", IF tries = 1 THEN "idle" ELSE "info")
  /\ UNCHANGED <<lineVars, queueVars, panelJob, panelReady, panelShutdown, lastPrinterState,
                 readyOvertaken>>
  /\ PrinterStays

PanelSubscribed ==
  /\ pc["event"] = "subscribing" /\ Goes("event", "idle")
  /\ panelShutdown' = FALSE /\ panelReady' = TRUE
  /\ UNCHANGED <<left, lineVars, queueVars, panelJob, lastPrinterState, readyOvertaken,
                 tries>> /\ PrinterStays

PanelDueNext ==
  \/ LineOpens \/ LineLost \/ PanelSending \/ SendEnds \/ PanelSends \/ LineRead
  \/ GcodeRun \/ CommandRun
  \/ PanelJobChanges \/ PanelShutdown \/ PanelDisconnect \/ PanelReady
  \/ InfoCame \/ PanelSubscribed

PanelDueWorks(t) ==
  \/ t = "init" /\ (LineOpens \/ LineRead)
  \/ t = "worker" /\ GcodeRun
  \/ t = "timer" /\ (CommandRun \/ PanelSending \/ SendEnds)
  \/ t = "event" /\ (InfoCame \/ PanelSubscribed)

(* What is queued has a task that works on it, and what must be confirmed is run *)
(* once the dialog of it has been: two dialogs at a time may be mistaken for one *)
(* another, as the answer does not say which it is to (paneldue.py:412-417).     *)
PanelServed ==
  /\ gcQueue # <<>> => ~Idle("worker")
  /\ commandQueue # <<>> => ~Idle("timer")
  /\ ~mixed => \A i \in 1..Len(gcQueue) :
                 gcQueue[i].script \in Macros => gcQueue[i].by = gcQueue[i].script

(* The panel shows that the printer is off, and the state it is told is Klippy's, *)
(* but where Klippy went while _process_klippy_ready was at work, which then      *)
(* takes it for ready (paneldue.py:214-219), or where messages left in reverse    *)
(* (async_serial.py:134).                                                         *)
PanelKnowsPrinter ==
  /\ ~readyOvertaken /\ Idle("event") /\ panelReady =>
       klippy # "offline" /\ (panelShutdown <=> klippy = "shutdown")
  /\ ~readyOvertaken /\ ~mixed /\ klippy = "offline" /\ toPanel = <<>> /\ inHand = None =>
       screen \in {"O", None}
=============================================================================
