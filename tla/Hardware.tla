------------------------------ MODULE Hardware ------------------------------
(***************************************************************************)
(* What is wired to the machine: strips of lights (wled.py), and buttons     *)
(* (gpio.py, button.py).                                                     *)
(***************************************************************************)
EXTENDS Host

(***************************************************************************)
(* wled.py: what Moonraker says of a strip of lights and what it shows.  A   *)
(* request changes what is said at once, and its command waits for those      *)
(* before it; a command has all pixels or only those that changed.             *)
(***************************************************************************)

VARIABLES
  stripPreset0, \* initial_preset, None for the initial colors
  stripUp,      \* initialize has come to its end
  strip,        \* onoff, preset, brightness, _chain_data, send_full_chain_data
  stripTodo,    \* what a request has still to do
  stripQueue,   \* commands that wait for request_mutex, the first has it
  lights,       \* what the strip shows
  stripLost,    \* a command got lost, which is not noticed
  stripRepeated \* a command was repeated after a later one

stripVars == <<stripPreset0, stripUp, strip, stripTodo, stripQueue, lights, stripLost,
               stripRepeated>>

Pixel == {1, 2}
Color == {"initial", "red"}
StripAsk == {"on", "preset", "off", "toggle", "dim", "all", "pixel", "hold"}
All(color) == [p \in Pixel |-> color]
NoPixels == [p \in {} |-> "initial"]
(* What a command does not say of brightness, of the preset *)
Same == "same"
Command(on, preset, bright, pixels) ==
  [on |-> on, preset |-> preset, bright |-> bright, pixels |-> pixels]

StripsInit ==
  /\ stripPreset0 \in Among({"none", "party"}, "wled")
  /\ stripUp = FALSE
  /\ strip = [on |-> FALSE, preset |-> stripPreset0, bright |-> "unknown", chain |-> All("initial"),
              full |-> TRUE]
  /\ stripTodo = [t \in Task |-> <<>>] /\ stripQueue = <<>>
  /\ lights = [on |-> FALSE, preset |-> "none", bright |-> "other", pixels |-> All("other")]
  /\ stripLost = FALSE /\ stripRepeated = FALSE

StripsTypeOK ==
  /\ {stripUp, stripLost, stripRepeated, strip.on, strip.full, lights.on} \subseteq BOOLEAN
  /\ {strip.preset, lights.preset} \subseteq {"none", "party"}
  /\ strip.bright \in {"unknown", "full", "dim"} /\ strip.chain \in [Pixel -> Color]
  /\ \A i, j \in DOMAIN stripQueue : i # j => stripQueue[i].task # stripQueue[j].task
  /\ \A t \in Task : pc[t] = "sending" <=> \E i \in DOMAIN stripQueue : stripQueue[i].task = t

StripRests == UNCHANGED stripPreset0 /\ PrinterStays
SendsInTurn(t, command) == stripQueue' = Append(stripQueue, [task |-> t, command |-> command])
-----------------------------------------------------------------------------
(* Commands: what is said, and what is sent *)

(* Mutant: what was sent before is taken to be there. *)
OnlyTheChange == strip.full
(* send_full_chain_data, after wled_off and wled_on *)
NeedsAll == TRUE

TurnsOn(t, preset) ==
  /\ strip' = [strip EXCEPT !.on = TRUE, !.full = NeedsAll, !.preset = preset,
                            !.bright = "unknown"]
  /\ SendsInTurn(t, Command("on", preset, Same, NoPixels))

TurnsOff(t) ==
  /\ strip' = [strip EXCEPT !.on = FALSE, !.full = NeedsAll]
  /\ SendsInTurn(t, Command("off", Same, Same, NoPixels))

(* set_wled of a pixel, 0 for all, with TRANSMIT=1: all in one color, all there is, or one pixel. *)
Colors(t, chain, index, s) ==
  LET bright == IF s.bright = "unknown" THEN "full" ELSE s.bright IN
  /\ strip' = [s EXCEPT !.chain = chain, !.preset = "none", !.bright = bright, !.full = FALSE]
  /\ SendsInTurn(t, Command("on", "none", bright,
                       IF index = 0 \/ s.full THEN chain ELSE [p \in {index} |-> chain[p]]))

(* _set_initial_state *)
InitialState(t) ==
  IF stripPreset0 # "none"
  THEN /\ strip' = [strip EXCEPT !.on = TRUE, !.full = TRUE, !.preset = stripPreset0,
                                 !.bright = "unknown", !.chain = All("initial")]
       /\ SendsInTurn(t, Command("on", stripPreset0, Same, NoPixels))
  ELSE Colors(t, All("initial"), 0,
              [strip EXCEPT !.on = TRUE, !.full = TRUE, !.bright = "full"])

(* wled_control: only of a strip that is on *)
Controls(t) ==
  /\ strip' = [strip EXCEPT !.bright = "dim"]
  /\ SendsInTurn(t, Command("same", Same, "dim", NoPixels))

NothingSent == UNCHANGED <<strip, stripQueue>>

(* One step of _process_request, of set_wled_state or of set_wled; TRANSMIT=0  *)
(* only keeps the color, and control of a strip that is off does nothing.       *)
Does(t, ask) ==
  CASE ask = "on" \/ (ask = "toggle" /\ ~strip.on) -> InitialState(t) /\ Goes(t, "sending")
    [] ask = "preset" -> TurnsOn(t, "party") /\ Goes(t, "sending")
    [] ask \in {"off", "toggle"} -> TurnsOff(t) /\ Goes(t, "sending")
    [] ask = "dim" /\ strip.on -> Controls(t) /\ Goes(t, "sending")
    [] ask = "dim" -> NothingSent /\ Goes(t, "next")
    [] ask = "all" -> Colors(t, All("red"), 0, strip) /\ Goes(t, "sending")
    [] ask = "pixel" ->
         Colors(t, [strip.chain EXCEPT ![1] = "red"], 1, strip) /\ Goes(t, "sending")
    [] OTHER ->
         /\ strip' = [strip EXCEPT !.chain[2] = "red", !.full = TRUE]
         /\ Goes(t, "next") /\ UNCHANGED stripQueue
-----------------------------------------------------------------------------
(* component_init: a strip that does not answer ends it, and is not asked again *)

StripsStart ==
  /\ Idle("init") /\ ~stripUp /\ stripTodo["init"] = <<>>
  /\ \/ /\ InitialState("init") /\ Goes("init", "sending") /\ UNCHANGED <<left, stripTodo>>
     \/ /\ Spends("failures") /\ stripTodo' = [stripTodo EXCEPT !["init"] = <<"failed">>]
        /\ UNCHANGED <<pc, strip, stripQueue>>
  /\ StripRests /\ UNCHANGED <<stripUp, lights, stripLost, stripRepeated>>

AskStrip(t) ==
  /\ stripUp /\ Idle(t) /\ Spends("asks")
  /\ \E first \in StripAsk, second \in {"nothing", "dim"} :
       /\ second = "dim" => first \in {"on", "preset", "off"}
       /\ stripTodo' = [stripTodo EXCEPT ![t] = IF second = "dim" THEN <<first, second>>
                                                ELSE <<first>>]
  /\ Goes(t, "next")
  /\ StripRests /\ UNCHANGED <<stripUp, strip, stripQueue, lights, stripLost, stripRepeated>>

NextStep(t) ==
  /\ pc[t] = "next"
  /\ IF stripTodo[t] = <<>> THEN Goes(t, "idle") /\ NothingSent /\ UNCHANGED stripTodo
     ELSE Does(t, Head(stripTodo[t])) /\ stripTodo' = [stripTodo EXCEPT ![t] = Tail(@)]
  /\ StripRests /\ UNCHANGED <<left, stripUp, lights, stripLost, stripRepeated>>
-----------------------------------------------------------------------------
(* The strip, and what comes after a command *)

Or(said, value) == IF said = Same THEN value ELSE said

(* A strip that is turned off, or on with a preset, loses single pixels. *)
ShowsCommand(c) ==
  [on |-> IF c.on = "same" THEN lights.on ELSE c.on = "on",
   preset |-> Or(c.preset, lights.preset),
   bright |-> IF c.preset = "party" THEN "other" ELSE Or(c.bright, lights.bright),
   pixels |-> [p \in Pixel |-> IF p \in DOMAIN c.pixels THEN c.pixels[p]
                               ELSE IF c.on = "off" \/ c.preset = "party" THEN "other"
                               ELSE lights.pixels[p]]]

(* Colors of a strip that was off when they had been sent are sent again. *)
SentAgain(c) == c.pixels # NoPixels /\ ~strip.on

(* send_wled_command_impl: a failure is in a response nobody looks at. *)
CommandSent ==
  /\ stripQueue # <<>>
  /\ LET t == Head(stripQueue).task
         c == Head(stripQueue).command
         rest == Tail(stripQueue)
         again == SentAgain(c) IN
       /\ \/ lights' = ShowsCommand(c) /\ UNCHANGED <<left, stripLost>>
          \/ Spends("failures") /\ stripLost' = TRUE /\ UNCHANGED lights
       /\ IF again
          THEN /\ stripQueue' = Append(rest, Head(stripQueue))
               /\ strip' = [strip EXCEPT !.on = TRUE]
               /\ stripRepeated' = (stripRepeated \/ rest # <<>>)
               /\ UNCHANGED <<pc, stripUp>>
          ELSE /\ stripQueue' = rest /\ UNCHANGED <<strip, stripRepeated>>
               /\ Goes(t, IF t = "init" THEN "idle" ELSE "next")
               /\ stripUp' = (stripUp \/ t = "init")
  /\ StripRests /\ UNCHANGED stripTodo

StripsNext ==
  \/ StripsStart \/ CommandSent
  \/ \E t \in Request : AskStrip(t) \/ NextStep(t)

StripsWorks(t) ==
  \/ t = "init" /\ (StripsStart \/ CommandSent)
  \/ t \in Request /\ (NextStep(t) \/ CommandSent)

(* A strip shows what is said of it once all commands are sent, whichever       *)
(* requests were under way together: whether it is on, its preset, its            *)
(* brightness where it is known, and every pixel where no color is held back.       *)
(* But a command that is lost is not noticed (wled.py:299-310), and the second       *)
(* sending of colors may undo a later request (wled.py:270-279).                      *)
StripAsSaid ==
  stripUp /\ stripQueue = <<>> /\ ~stripLost /\ ~stripRepeated =>
    /\ lights.on = strip.on
    /\ lights.preset = strip.preset
    /\ strip.bright # "unknown" => lights.bright = strip.bright
    /\ strip.preset = "none" /\ ~strip.full => lights.pixels = strip.chain
-----------------------------------------------------------------------------
(***************************************************************************)
(* gpio.py and button.py: the edges of a pin are debounced, and what is left  *)
(* of them runs a template of its own, one at a time in the context they all   *)
(* share.                                                                       *)
(***************************************************************************)

VARIABLES
  pin,         \* the level of the pin
  edges,       \* edges the kernel has queued
  gpio,        \* value, started and error_count of the GpioEvent
  debounced,   \* last_value of the debounce task
  btnCalls,    \* events the callback has been run with, the first one first
  btnTask,     \* the event of a task of _on_gpio_event
  btnHolder,   \* who holds the mutex
  btnWaiting,  \* who waits for it, in order
  btnContext,  \* context['event'], and notification_sent
  btnSent,     \* notifications of a task
  edgeLost     \* an edge was not seen

buttonVars == <<pin, edges, gpio, debounced, btnCalls, btnTask, btnHolder, btnWaiting, btnContext,
                btnSent, edgeLost>>

MaxErrors == 2 \* MAX_ERRORS
ButtonTask == Request \cup {"event", "worker"}
NoEvent == 2

ButtonsInit ==
  /\ pin = 0 /\ edges = <<>>
  /\ gpio = [value |-> 0, started |-> FALSE, errors |-> 0]
  /\ debounced = 0 /\ btnCalls = <<>>
  /\ btnTask = [t \in ButtonTask |-> NoEvent] /\ btnHolder = None /\ btnWaiting = <<>>
  /\ btnContext = [pressed |-> 0, sent |-> FALSE] /\ btnSent = [t \in ButtonTask |-> 0]
  /\ edgeLost = FALSE

ButtonsTypeOK ==
  /\ {pin, gpio.value, debounced} \subseteq 0..1
  /\ {gpio.started, btnContext.sent, edgeLost} \subseteq BOOLEAN /\ gpio.errors \in 0..MaxErrors
  /\ edges \in Seq(0..1) /\ btnCalls \in Seq(0..1)
  /\ btnHolder \in ButtonTask \cup {None}
  /\ \A t \in ButtonTask : pc[t] = "waiting" <=> \E i \in DOMAIN btnWaiting : btnWaiting[i] = t

TasksKept == UNCHANGED <<btnTask, btnHolder, btnWaiting, btnContext, btnSent>>
-----------------------------------------------------------------------------
(* The pin, and GpioEvent *)

PinMoves ==
  /\ pin' = 1 - pin
  /\ \/ Spends("changes") /\ edges' = Append(edges, 1 - pin) /\ UNCHANGED edgeLost
     \/ Spends("failures") /\ edgeLost' = TRUE /\ UNCHANGED edges
  /\ PrinterStays /\ TasksKept /\ UNCHANGED <<pc, gpio, debounced, btnCalls>>

(* start: edges of before are still there. *)
GpioStarts ==
  /\ ~gpio.started /\ gpio.errors < MaxErrors
  /\ gpio' = [gpio EXCEPT !.value = pin, !.started = TRUE]
  /\ btnContext' = [btnContext EXCEPT !.pressed = pin]
  /\ PrinterStays
  /\ UNCHANGED <<pc, left, pin, edges, debounced, btnCalls, btnTask, btnHolder, btnWaiting, btnSent,
                 edgeLost>>

(* _increment_error: the event is stopped, and a debounce with it. *)
TooMany(value) ==
  IF gpio.errors + 1 = MaxErrors
  THEN gpio' = [value |-> value, started |-> FALSE, errors |-> MaxErrors] /\ Goes("timer", "idle")
  ELSE gpio' = [gpio EXCEPT !.value = value, !.errors = @ + 1] /\ UNCHANGED pc

(* _on_event_trigger *)
EdgeRead ==
  /\ gpio.started /\ edges # <<>>
  /\ LET value == Head(edges) IN
       IF Idle("timer")
       THEN /\ gpio' = [gpio EXCEPT !.value = value] /\ debounced' = gpio.value
            /\ Goes("timer", "debounce")
       ELSE TooMany(value) /\ UNCHANGED debounced
  /\ edges' = Tail(edges)
  /\ PrinterStays /\ TasksKept /\ UNCHANGED <<left, pin, btnCalls, edgeLost>>

(* The errors are forgotten after a while. *)
ErrorsReset ==
  /\ gpio.started /\ gpio.errors > 0 /\ Idle("timer")
  /\ gpio' = [gpio EXCEPT !.errors = 0]
  /\ PrinterStays /\ TasksKept
  /\ UNCHANGED <<pc, left, pin, edges, debounced, btnCalls, edgeLost>>

(* Mutant: the debounce ends as it began. *)
AnyEdge == TRUE
(* _debounce: what the pin has come to is not what it was. *)
ValueChanged == debounced # gpio.value

(* _run_callback: a task of _on_gpio_event; one that comes too early after the *)
(* one before, or for which there is no template, ends there.                    *)
DebounceEnds ==
  /\ pc["timer"] = "debounce"
  /\ IF ~ValueChanged THEN Goes("timer", "idle") /\ UNCHANGED <<btnCalls, btnTask>>
     ELSE /\ btnCalls' = Append(btnCalls, gpio.value)
          /\ \/ Goes("timer", "idle") /\ UNCHANGED btnTask
             \/ \E t \in ButtonTask :
                  /\ Idle(t) /\ pc' = [pc EXCEPT ![t] = "called", !["timer"] = "idle"]
                  /\ btnTask' = [btnTask EXCEPT ![t] = gpio.value]
  /\ PrinterStays
  /\ UNCHANGED <<left, pin, edges, gpio, debounced, btnHolder, btnWaiting, btnContext, btnSent,
                 edgeLost>>
-----------------------------------------------------------------------------
(* GpioButton._on_gpio_event *)

ButtonKept == UNCHANGED <<left, pin, edges, gpio, debounced, btnCalls, btnTask, edgeLost>>

(* Mutant: the event is put there when it comes. *)
OfTheNewest(t) == btnContext' = [pressed |-> btnTask[t], sent |-> FALSE]
(* Before the mutex is got the context is that of another template. *)
ContextKept(t) == UNCHANGED btnContext

(* The tasks begin in the order they were made in. *)
WaitsForMutex(t) ==
  /\ pc[t] = "called"
  /\ btnWaiting' = Append(btnWaiting, t) /\ Goes(t, "waiting")
  /\ ContextKept(t)
  /\ PrinterStays /\ ButtonKept /\ UNCHANGED <<btnHolder, btnSent>>

TemplateBegins(t) ==
  /\ pc[t] = "waiting" /\ btnHolder = None /\ Head(btnWaiting) = t
  /\ btnHolder' = t /\ btnWaiting' = Tail(btnWaiting)
  /\ btnContext' = [pressed |-> btnTask[t], sent |-> FALSE]
  /\ btnSent' = [btnSent EXCEPT ![t] = 0]
  /\ Goes(t, "rendering")
  /\ PrinterStays /\ ButtonKept

(* _send_notification, of which a template may be full *)
TemplateNotifies(t) ==
  /\ pc[t] = "rendering" /\ ~btnContext.sent
  /\ btnContext' = [btnContext EXCEPT !.sent = TRUE]
  /\ btnSent' = [btnSent EXCEPT ![t] = @ + 1]
  /\ PrinterStays /\ ButtonKept /\ UNCHANGED <<pc, btnHolder, btnWaiting>>

TemplateEnds(t) ==
  /\ pc[t] = "rendering"
  /\ btnHolder' = None /\ Goes(t, "idle")
  /\ btnTask' = [btnTask EXCEPT ![t] = NoEvent] /\ btnSent' = [btnSent EXCEPT ![t] = 0]
  /\ PrinterStays
  /\ UNCHANGED <<left, pin, edges, gpio, debounced, btnCalls, btnWaiting, btnContext, edgeLost>>

ButtonsNext ==
  \/ PinMoves \/ GpioStarts \/ EdgeRead \/ ErrorsReset \/ DebounceEnds
  \/ \E t \in ButtonTask : \/ WaitsForMutex(t) \/ TemplateBegins(t) \/ TemplateNotifies(t)
                           \/ TemplateEnds(t)

ButtonsWorks(t) ==
  \/ t = "timer" /\ DebounceEnds
  \/ t = "init" /\ (GpioStarts \/ EdgeRead)
  \/ t \in ButtonTask /\ (WaitsForMutex(t) \/ TemplateBegins(t) \/ TemplateEnds(t))

(* Presses and releases take turns, whatever bounces between them, and once     *)
(* all edges are read and the last one is debounced the last of them is what      *)
(* the pin is at: but for a pin that was stopped for its errors and an edge the     *)
(* kernel lost.                                                                     *)
EventsTakeTurns ==
  /\ \A i \in 1..Len(btnCalls) - 1 : btnCalls[i] # btnCalls[i + 1]
  /\ gpio.started /\ edges = <<>> /\ Idle("timer") /\ btnCalls # <<>> /\ ~edgeLost =>
       btnCalls[Len(btnCalls)] = pin

(* A template sees the event it is run for, though others have come since, and  *)
(* sends at most one notification.                                                *)
TemplateHasItsEvent ==
  \A t \in ButtonTask :
    pc[t] = "rendering" => btnContext.pressed = btnTask[t] /\ btnSent[t] <= 1
=============================================================================
