------------------------------- MODULE Power -------------------------------
(***************************************************************************)
(* power.py: one power device (GPIO, RF, HTTP or a Klipper object) and     *)
(* those who switch it: requests, its timer, a Klippy shutdown, the poll,  *)
(* its initialization.  They take turns by request_lock; what is awaited   *)
(* under the lock is a device or Klippy, then systemd for a bound service. *)
(* Then the switches that are elsewhere: what a switch that is reached over *)
(* MQTT, or by HTTP, says of itself and when, and what Moonraker keeps of it. *)
(***************************************************************************)
EXTENDS Host

CONSTANT Devices   \* configurations, one of which a behaviour is about

VARIABLES
  device,          \* the configuration
  state,           \* state
  queue,           \* request_lock: its holder, and those who wait
  job,             \* what a task is to do, and what it found
  plug, service,   \* the real switch; the bound service
  switchOff,       \* timer_handle
  shutdownTimer,   \* shutdown_timer_handle
  needRestart, restartDue,  \* need_scheduled_restart, the delayed FIRMWARE_RESTART
  isShutdown,      \* is_shutdown of a Klipper device
  due, asked,      \* history: a shutdown's "off" is under way; since then "on" was wanted
  synced           \* history: the state was last changed by a request

restartVars == <<needRestart, restartDue>>
timerVars == <<switchOff, shutdownTimer>>
powerVars == <<device, state, queue, job, plug, service, timerVars, restartVars,
               isShutdown, due, asked, synced>>

OnOff == {"on", "off"}
NoJob == [req |-> "status", force |-> FALSE, base |-> "init"]
Is(kinds) == device.kind \in kinds

PowerInit ==
  /\ device \in Among(Devices, "power")
  /\ state = "init" /\ job = [t \in Task |-> NoJob]
  /\ queue = IF device.kind = "klipper" THEN <<>> ELSE <<"init">>
  /\ plug = "off" /\ service = "off"
  /\ switchOff = FALSE /\ shutdownTimer = FALSE
  /\ needRestart = FALSE /\ restartDue = FALSE /\ isShutdown = FALSE
  /\ due = FALSE /\ asked = FALSE /\ synced = FALSE

PowerTypeOK ==
  /\ device \in Devices
  /\ state \in OnOff \cup {"init", "error"} /\ plug \in OnOff /\ service \in OnOff
  /\ \A t \in Task : job[t].req \in OnOff \cup {"toggle", "status", "notify"}
  /\ {switchOff, shutdownTimer, needRestart, restartDue, isShutdown, due, asked, synced}
       \subseteq BOOLEAN
  /\ \A i, j \in DOMAIN queue : queue[i] = queue[j] => i = j
  /\ \A t \in Task \ {"init"} :
       (\E i \in DOMAIN queue : queue[i] = t) <=> pc[t] \notin {"idle", "begin"}

Wants(t, place, r, f) ==
  /\ Goes(t, place)
  /\ job' = [job EXCEPT ![t] = [req |-> r, force |-> f, base |-> "init"]]
Holds(t, place) == pc[t] = place /\ queue # <<>> /\ Head(queue) = t
(* The state changes otherwise than by a request that switched. *)
Found(s) == state' = s /\ synced' = (synced /\ s = state)
-----------------------------------------------------------------------------
(* Who switches *)

(* _handle_single_power_request, a batch, on_when_job_queued, set_device_power *)
Ask(t, r, f) ==
  /\ Idle(t) /\ (f => device.locked)
  /\ Spends("asks")
  /\ Wants(t, "begin", r, f)
  /\ asked' = (asked \/ r \in {"on", "toggle"})
  /\ PrinterStays
  /\ UNCHANGED <<device, state, queue, plug, service, timerVars, restartVars, isShutdown, due, synced>>

TimerExpires ==
  /\ switchOff /\ Idle("timer")
  /\ switchOff' = FALSE
  /\ Wants("timer", "begin", "off", FALSE)
  /\ PrinterStays
  /\ UNCHANGED <<left, device, state, queue, plug, service, shutdownTimer, restartVars, isShutdown,
                 due, asked, synced>>

(* _power_off_on_shutdown, from its timer *)
ShutdownTimerExpires ==
  /\ shutdownTimer /\ Idle("event")
  /\ shutdownTimer' = FALSE
  /\ IF klippy = "shutdown" THEN Wants("event", "begin", "off", FALSE) ELSE UNCHANGED <<pc, job>>
  /\ PrinterStays
  /\ UNCHANGED <<left, device, state, queue, plug, service, switchOff, restartVars, isShutdown,
                 due, asked, synced>>

(* _poll_device *)
Poll ==
  /\ Is({"http"}) /\ state # "init" /\ Idle("worker")
  /\ Spends("changes")
  /\ Wants("worker", "begin", "status", FALSE)
  /\ PrinterStays
  /\ UNCHANGED <<device, state, queue, plug, service, timerVars, restartVars, isShutdown, due,
                 asked, synced>>

-----------------------------------------------------------------------------
(* process_request *)

(* Mutant: nobody waits for a device that works on a request. *)
IgnoredWhenBusy == queue # <<>>
(* A device that is being initialized may keep its lock for ever. *)
Ignored == state = "init" /\ queue # <<>>

Begin(t) ==
  /\ pc[t] = "begin"
  /\ IF Ignored /\ job[t].req # "notify"
     THEN /\ Goes(t, "idle") /\ UNCHANGED queue
          /\ job' = [job EXCEPT ![t] = NoJob]
          /\ due' = (due /\ ~(t = "event" /\ state = "init"))
     ELSE Goes(t, "waiting") /\ queue' = Append(queue, t) /\ UNCHANGED <<job, due>>
  /\ PrinterStays
  /\ UNCHANGED <<left, device, state, plug, service, timerVars, restartVars, isShutdown,
                 asked, synced>>

Release(t) ==
  /\ Goes(t, "idle") /\ queue' = Tail(queue)
  /\ job' = [job EXCEPT ![t] = NoJob]

(* The end of process_power_changed, which is not for the initial state *)
RestartKlipper(t, s) ==
  /\ Release(t)
  /\ IF s = "on" /\ device.restart /\ t # "init"
     THEN /\ needRestart' = (klippy = "offline")
          /\ restartDue' = (restartDue \/ klippy = "shutdown")
     ELSE UNCHANGED restartVars

(* Mutant: the bound service is left as it is. *)
ChangedAlone(t, s) == RestartKlipper(t, s)
(* process_power_changed *)
Changed(t, s) ==
  IF device.service /\ s \in OnOff
  THEN /\ Goes(t, "service") /\ UNCHANGED <<queue, restartVars>>
       /\ job' = [job EXCEPT ![t].req = s]
  ELSE RestartKlipper(t, s)

(* A change that was not made by this request *)
Noticed(t, s) ==
  IF device.restrict THEN Release(t) /\ UNCHANGED restartVars ELSE Changed(t, s)

ServiceSwitched(t) ==
  /\ Holds(t, "service")
  /\ \/ service' = job[t].req /\ UNCHANGED <<left, synced>>
     \/ Spends("failures") /\ synced' = FALSE /\ UNCHANGED service
  /\ RestartKlipper(t, state)
  /\ PrinterStays
  /\ UNCHANGED <<device, state, plug, timerVars, isShutdown, due, asked>>

(* set_power of a GPIO or RF device, which do not wait; an RF device leaves *)
(* its old timer running, and the handle of the new one takes its place.    *)
SwitchNow(t, r) ==
  \/ /\ state' = r /\ plug' = r /\ synced' = TRUE
     /\ switchOff' = ((r = "on" /\ device.timer) \/ (Is({"rf"}) /\ switchOff))
     /\ Changed(t, r)
     /\ UNCHANGED <<left, due>>
  \/ /\ Spends("failures")
     /\ state' = "error" /\ synced' = FALSE
     /\ switchOff' = (Is({"rf"}) /\ switchOff)
     /\ Release(t)
     /\ due' = (due /\ t # "event")
     /\ UNCHANGED <<plug, restartVars>>

(* The rest of process_request, once the state is known to be s *)
Decide(t, s, was) ==
  LET r == IF job[t].req = "toggle" THEN IF s = "off" THEN "on" ELSE "off" ELSE job[t].req
      stays == Found(s) /\ UNCHANGED <<left, plug, switchOff, due>>
  IN IF r \in {"status", s}
     THEN /\ stays
          /\ IF was = s THEN Release(t) /\ UNCHANGED restartVars ELSE Noticed(t, s)
     ELSE IF (device.locked /\ printing /\ ~job[t].force) \/ isShutdown
     THEN stays /\ Release(t) /\ UNCHANGED restartVars
     ELSE IF Is({"gpio", "rf"}) THEN SwitchNow(t, r)
     ELSE /\ Found(s)
          /\ Goes(t, "switching") /\ job' = [job EXCEPT ![t].req = r]
          /\ switchOff' = FALSE
          /\ UNCHANGED <<left, queue, plug, restartVars, due>>

(* The lock is taken; refresh_status asks an HTTP device, or Klippy after an error. *)
Refreshes == Is({"http"}) \/ (Is({"klipper"}) /\ state = "error" /\ ~isShutdown)

Takes(t) ==
  /\ Holds(t, "waiting")
  /\ IF job[t].req = "notify"
     THEN Noticed(t, state) /\ UNCHANGED <<left, state, synced, plug, switchOff, due>>
     ELSE IF Refreshes
     THEN /\ Goes(t, "refreshing") /\ job' = [job EXCEPT ![t].base = state]
          /\ UNCHANGED <<left, state, synced, queue, plug, switchOff, restartVars, due>>
     ELSE Decide(t, state, state)
  /\ PrinterStays
  /\ UNCHANGED <<device, service, shutdownTimer, isShutdown, asked>>

Reachable == Is({"http"}) \/ klippy = "ready"

Refreshed(t) ==
  /\ Holds(t, "refreshing")
  /\ \/ Reachable /\ Decide(t, plug, job[t].base)
     \/ /\ IF Reachable THEN May("failures") ELSE TRUE
        /\ Decide(t, "error", job[t].base)
  /\ PrinterStays
  /\ UNCHANGED <<device, service, shutdownTimer, isShutdown, asked>>

(* The end of set_power of an HTTP or Klipper device: a status update came, *)
(* or the call failed, with or without effect.                               *)
Switched(t) ==
  /\ Holds(t, "switching")
  /\ \/ /\ Reachable
        /\ state' = job[t].req /\ plug' = job[t].req /\ synced' = TRUE
        /\ switchOff' = (Is({"klipper"}) /\ device.timer /\ job[t].req = "on")
        /\ Changed(t, job[t].req)
        /\ UNCHANGED <<left, due>>
     \/ /\ IF Reachable THEN Spends("failures") ELSE UNCHANGED left
        /\ plug' \in {plug, IF Reachable THEN job[t].req ELSE plug}
        /\ state' = "error" /\ synced' = FALSE
        /\ due' = (due /\ t # "event")
        /\ Release(t)
        /\ UNCHANGED <<switchOff, restartVars>>
  /\ PrinterStays
  /\ UNCHANGED <<device, service, shutdownTimer, isShutdown, asked>>
-----------------------------------------------------------------------------
(* Initialization: init_state, or _handle_ready of a Klipper device *)

Subscribed ==
  /\ pc["init"] = "subscribe"
  /\ IF klippy = "offline"
     THEN Found("error") /\ Goes("init", "idle") /\ UNCHANGED <<queue, job>>
     ELSE /\ Goes("init", "waiting") /\ queue' = Append(queue, "init")
          /\ job' = [job EXCEPT !["init"].base = plug]
          /\ UNCHANGED <<state, synced>>
  /\ PrinterStays
  /\ UNCHANGED <<left, device, plug, service, timerVars, restartVars, isShutdown, due, asked>>

(* What is known of the device: an HTTP device is asked until it answers.  *)
(* A Klipper device's answer to the subscription may be old by now.        *)
FirstState ==
  IF Is({"http"}) THEN plug
  ELSE IF Is({"klipper"}) THEN job["init"].base
  ELSE IF device.initial = None THEN "off" ELSE device.initial

(* set_power may fail in init_state of a GPIO or RF device, which goes on. *)
SettingFails ==
  /\ Is({"gpio", "rf"}) /\ Spends("failures")
  /\ state' = "error" /\ synced' = FALSE
  /\ Release("init")
  /\ UNCHANGED <<plug, switchOff, restartVars>>

(* _set_initial_state; the task has no place until it waits for the device *)
InitialStateSet ==
  LET s == FirstState IN
  /\ Found(s)
  /\ IF Is({"gpio", "rf"})
     THEN plug' = s /\ switchOff' = (s = "on" /\ device.timer)
     ELSE UNCHANGED <<plug, switchOff>>
  /\ IF device.initial = None \/ (device.initial # s /\ isShutdown)
     THEN Release("init") /\ UNCHANGED restartVars
     ELSE IF device.initial = s THEN Changed("init", s)
     ELSE /\ Goes("init", "switching")
          /\ job' = [job EXCEPT !["init"].req = device.initial]
          /\ UNCHANGED <<queue, restartVars>>
  /\ UNCHANGED left

Initialized ==
  /\ queue # <<>> /\ Head(queue) = "init" /\ pc["init"] \in {"idle", "waiting"}
  /\ SettingFails \/ InitialStateSet
  /\ PrinterStays
  /\ UNCHANGED <<device, service, shutdownTimer, isShutdown, due, asked>>
-----------------------------------------------------------------------------
(* Klippy and the world *)

(* process_klippy_shutdown *)
KlippyShutdown ==
  /\ klippy = "ready" /\ Idle("event")
  /\ Spends("changes")
  /\ klippy' = "shutdown" /\ printing' = FALSE
  /\ IF Is({"klipper"})
     THEN /\ isShutdown' = TRUE /\ Found("error") /\ switchOff' = FALSE
          /\ UNCHANGED <<shutdownTimer, due, asked>>
          /\ IF state \in OnOff /\ queue = <<>> /\ Idle("worker")
             THEN Wants("worker", "begin", "notify", FALSE) ELSE UNCHANGED <<pc, job>>
     ELSE /\ shutdownTimer' = (device.offShutdown = "delayed")
          /\ due' = (device.offShutdown # "no")
          /\ asked' = \E t \in Task : pc[t] # "idle" /\ job[t].req \in {"on", "toggle"}
          /\ IF device.offShutdown = "now" THEN Wants("event", "begin", "off", FALSE)
             ELSE UNCHANGED <<pc, job>>
          /\ UNCHANGED <<isShutdown, state, synced, switchOff>>
  /\ UNCHANGED <<component, device, queue, plug, service, restartVars>>

(* A FIRMWARE_RESTART, an error or a stop; _handle_disconnect *)
KlippyGone ==
  /\ klippy' = "offline" /\ printing' = FALSE /\ due' = FALSE
  /\ IF ~Is({"klipper"}) THEN UNCHANGED <<pc, job, state, synced, switchOff, isShutdown>>
     ELSE /\ isShutdown' = FALSE /\ Found("init") /\ switchOff' = FALSE
          /\ IF state \notin {"init"} /\ queue = <<>> /\ Idle("worker")
             THEN Wants("worker", "begin", "notify", FALSE) ELSE UNCHANGED <<pc, job>>
  /\ UNCHANGED <<component, device, queue, plug, service, shutdownTimer, asked>>

KlippyDrops ==
  /\ klippy # "offline"
  /\ Spends("changes")
  /\ KlippyGone
  /\ UNCHANGED restartVars

FirmwareRestart ==
  /\ restartDue
  /\ restartDue' = FALSE
  /\ IF klippy = "offline" THEN UNCHANGED <<component, klippy, printing, pc, due, device, state, queue,
                                            job, plug, service, timerVars, isShutdown, asked, synced>>
     ELSE KlippyGone
  /\ UNCHANGED <<left, needRestart>>

(* klippy_started, and klippy_ready *)
KlippyStarts(k) ==
  /\ klippy = "offline" /\ k \in {"ready", "shutdown"}
  /\ Spends("changes")
  /\ klippy' = k
  /\ needRestart' = FALSE
  /\ restartDue' = (restartDue \/ (needRestart /\ k # "ready"))
  /\ IF Is({"klipper"}) /\ k = "ready" /\ Idle("init") THEN Goes("init", "subscribe") ELSE UNCHANGED pc
  /\ UNCHANGED <<component, printing, device, state, queue, job, plug, service, timerVars,
                 isShutdown, due, asked, synced>>

PrintStarts ==
  /\ klippy = "ready" /\ ~printing
  /\ Spends("changes")
  /\ printing' = TRUE
  /\ UNCHANGED <<component, klippy, pc, powerVars>>

(* The device's own button, or gcode; a Klipper object tells of it at once. *)
Pressed ==
  /\ Is({"http", "klipper"}) /\ (Is({"klipper"}) => klippy = "ready")
  /\ Spends("changes")
  /\ plug' = IF plug = "on" THEN "off" ELSE "on"
  /\ asked' = TRUE
  /\ IF Is({"http"}) THEN UNCHANGED <<state, synced, pc, job>>
     ELSE /\ Found(plug')
          /\ IF state \notin {plug', "init"} /\ queue = <<>> /\ Idle("worker")
             THEN Wants("worker", "begin", "notify", FALSE) ELSE UNCHANGED <<pc, job>>
  /\ PrinterStays
  /\ UNCHANGED <<device, queue, service, timerVars, restartVars, isShutdown, due>>
-----------------------------------------------------------------------------
PowerRequest(t) ==
  Begin(t) \/ Takes(t) \/ Refreshed(t) \/ Switched(t) \/ ServiceSwitched(t)

PowerNext ==
  \/ \E t \in Task : PowerRequest(t)
  \/ \E t \in Request, r \in OnOff \cup {"toggle"}, f \in BOOLEAN : Ask(t, r, f)
  \/ TimerExpires \/ ShutdownTimerExpires \/ Poll
  \/ Subscribed \/ Initialized
  \/ KlippyShutdown \/ KlippyDrops \/ FirmwareRestart \/ PrintStarts \/ Pressed
  \/ \E k \in {"ready", "shutdown"} : KlippyStarts(k)

PowerWorks(t) ==
  \/ PowerRequest(t)
  \/ t = "timer" /\ TimerExpires
  \/ t = "event" /\ ShutdownTimerExpires
  \/ t = "init" /\ (Subscribed \/ Initialized)
-----------------------------------------------------------------------------
(* A device with off_when_shutdown is off some time after Klippy shut down,   *)
(* unless Klippy comes back, somebody wants it on, or the device fails or is   *)
(* still being initialized.  (The request waits for the lock behind others,   *)
(* power.py:309-318 and :374-420.)                                             *)
PoweredOffAfterShutdown ==
  (due /\ klippy = "shutdown") ~>
    (plug = "off" \/ ~due \/ klippy # "shutdown" \/ asked)

(* When nobody works on the device, the bound service runs exactly if the      *)
(* device is on, once a request has switched it and nothing but requests has   *)
(* since.  (Requests that cross while systemd is awaited: power.py:290-307.)   *)
ServiceFollows ==
  device.service /\ synced /\ queue = <<>> /\ state \in OnOff => service = state
-----------------------------------------------------------------------------
(* Switches that are reached over MQTT or by HTTP *)

VARIABLES
  switchKind,  \* "mqtt", "tplink", "tasmota" ...
  hasTimer,    \* timer, which delays what switches it off
  hasQuery,    \* it has a query_topic
  mustQuery,   \* query_after_command, which counts only with a query_topic
  retained,    \* the broker keeps its last state
  swState,     \* state
  wired,       \* whether it is on
  counting,    \* it will go off
  swQueue,     \* tasks with request_lock, the first has it
  swWanted,    \* what a task is to make it
  future,      \* query_response
  brokerUp,    \* mqtt.is_connected()
  orders,      \* what is on its way to the switch
  reports,     \* its state on its way to Moonraker
  crossed,     \* two reports came before the one who waited had gone on
  fooled       \* history: "on" is what was heard last, and the switch was counting down

swVars == <<switchKind, hasTimer, hasQuery, mustQuery, retained, swState, wired, counting, swQueue,
            swWanted, future, brokerUp, orders, reports, crossed, fooled>>

Positions == {"on", "off"}
(* What they do when they were switched: SmartThings and HomeSeer assume    *)
(* that it was done, as TPLinkSmartPlug does; HomeAssistant asks after      *)
(* status_delay, which is taken to be enough; the others read the answer,   *)
(* UHubCtl that of a command.                                               *)
Assuming == {"smartthings", "tplink"}
Asking == {"homeassistant"}
Reading == {"hue", "tasmota", "shelly"}
Running == {"uhubctl"}
Kinds == Assuming \cup Asking \cup Reading \cup Running \cup {"mqtt"}

SwitchesInit ==
  /\ switchKind \in Among(Kinds, "switches")
  /\ hasTimer \in Among(IF switchKind \in {"tplink", "tasmota", "shelly"} THEN BOOLEAN ELSE {FALSE},
                      "switches")
  /\ hasQuery \in Among(IF switchKind = "mqtt" THEN BOOLEAN ELSE {FALSE}, "switches")
  /\ mustQuery \in Among(IF hasQuery THEN BOOLEAN ELSE {FALSE}, "switches")
  /\ retained \in Among(IF switchKind = "mqtt" THEN BOOLEAN ELSE {FALSE}, "switches")
  /\ wired = "off" /\ swState = (IF switchKind = "mqtt" THEN "init" ELSE wired)
  /\ counting = FALSE
  /\ swQueue = <<>> /\ swWanted = [t \in Task |-> "status"]
  /\ future = "none" /\ brokerUp = FALSE
  /\ orders = <<>> /\ reports = <<>> /\ crossed = FALSE /\ fooled = FALSE

SwitchesTypeOK ==
  /\ switchKind \in Kinds
  /\ {hasTimer, hasQuery, mustQuery, retained, counting, brokerUp, crossed, fooled} \subseteq BOOLEAN
  /\ swState \in Positions \cup {"init", "error"} /\ wired \in Positions
  /\ \A k \in 1..Len(swQueue) : swQueue[k] \in Task
  /\ swWanted \in [Task -> Positions \cup {"status"}]
  /\ future \in Positions \cup {"none", "waiting", "failed"}
  /\ \A k \in 1..Len(orders) : orders[k] \in Positions \cup {"query"}
  /\ \A k \in 1..Len(reports) : reports[k] \in Positions
-----------------------------------------------------------------------------
(* request_lock *)
Locks(t) == swQueue' = Append(swQueue, t) /\ Goes(t, "locking")
HasLock(t) == swQueue # <<>> /\ Head(swQueue) = t
Unlocks(t) == swQueue' = Tail(swQueue) /\ Goes(t, "idle")
Keeps(t, place) == Goes(t, place) /\ UNCHANGED swQueue

SameDevice == UNCHANGED <<switchKind, hasTimer, hasQuery, mustQuery, retained>>
NoBroker == UNCHANGED <<future, brokerUp, orders, reports, crossed>>

(* process_request, and _poll_device *)
AskSwitch(t) ==
  /\ Idle(t) /\ Spends("asks")
  /\ IF swState = "init" /\ swQueue # <<>> THEN UNCHANGED <<pc, swQueue, swWanted>>
     ELSE /\ Locks(t)
          /\ \E r \in (IF t = "timer" THEN {"status"} ELSE Positions) :
               swWanted' = [swWanted EXCEPT ![t] = r]
  /\ SameDevice /\ NoBroker /\ PrinterStays /\ UNCHANGED <<swState, wired, counting, fooled>>

(* _notify_external_change only tells. *)
ExternalTold ==
  /\ HasLock("worker") /\ pc["worker"] = "locking" /\ Unlocks("worker")
  /\ SameDevice /\ NoBroker /\ PrinterStays
  /\ UNCHANGED <<left, swState, wired, counting, swWanted, fooled>>
-----------------------------------------------------------------------------
(* Devices that answer, over HTTP, a socket or a command *)

(* _send_status_request: a Shelly tells that it counts down. *)
StatusSays == IF switchKind = "shelly" /\ counting THEN "off" ELSE wired

(* What a switch does when it is switched.  An "on" is the bare command: of a *)
(* Shelly switch it ends the count-down, the others go on counting.            *)
Delays(to) == hasTimer /\ to = "off"
Obeys(to) ==
  /\ wired' = IF ~Delays(to) THEN to ELSE IF switchKind = "shelly" THEN "on" ELSE wired
  /\ counting' = (Delays(to) \/ (to = "on" /\ counting /\ switchKind # "shelly"))
(* An "off" of TPLink is two commands, of which the first ends the count-down. *)
HalfObeys == UNCHANGED wired /\ counting' \in {counting, counting /\ switchKind # "tplink"}

AnswerSays(to) == IF switchKind \in Assuming \/ Delays(to) THEN to ELSE wired'

(* What process_request compares *)
Decided(t, known) == swWanted[t] # "status" /\ swWanted[t] # known

(* What is to be done once the state is known *)
GoesOn(t, known) ==
  IF Decided(t, known) THEN Keeps(t, "setting") ELSE Unlocks(t)

StatusAnswered(t) ==
  /\ switchKind # "mqtt" /\ HasLock(t) /\ pc[t] = "locking"
  /\ \/ swState' = StatusSays /\ UNCHANGED left
     \/ swState' = "error" /\ Spends("failures")
  /\ fooled' = (counting /\ swState' = "on")
  /\ GoesOn(t, swState')
  /\ SameDevice /\ NoBroker /\ PrinterStays /\ UNCHANGED <<wired, counting, swWanted>>

SwitchAnswered(t) ==
  /\ switchKind # "mqtt" /\ HasLock(t) /\ pc[t] = "setting"
  /\ \/ Obeys(swWanted[t]) /\ swState' = AnswerSays(swWanted[t]) /\ UNCHANGED left
     \/ /\ swState' = "error" /\ Spends("failures")
        /\ Obeys(swWanted[t]) \/ HalfObeys
  /\ fooled' = (counting' /\ swState' = "on")
  /\ Unlocks(t)
  /\ SameDevice /\ NoBroker /\ PrinterStays /\ UNCHANGED swWanted

CountedDown ==
  /\ counting /\ counting' = FALSE /\ wired' = "off"
  /\ SameDevice /\ NoBroker /\ PrinterStays
  /\ UNCHANGED <<pc, left, swState, swQueue, swWanted, fooled>>
-----------------------------------------------------------------------------
(* MQTTDevice *)

SwitchStays == UNCHANGED <<wired, counting, fooled>>

(* A request is sent, and waited for. *)
SendsOrders(what) == future' = "waiting" /\ orders' = orders \o what
Query(asks) == IF asks THEN <<"query">> ELSE <<>>

(* refresh_status and set_power, up to what they wait for *)
SetsPower(t, known) ==
  IF ~Decided(t, known) \/ ~brokerUp THEN Unlocks(t) /\ future' = "none" /\ UNCHANGED orders
  ELSE Keeps(t, "setting") /\ SendsOrders(<<swWanted[t]>> \o Query(mustQuery))

MqttTurn(t) ==
  /\ switchKind = "mqtt" /\ t \notin {"event", "init", "worker"} /\ HasLock(t) /\ pc[t] = "locking"
  /\ IF ~hasQuery \/ (~mustQuery /\ swState \in Positions) THEN SetsPower(t, swState)
     ELSE IF brokerUp THEN Keeps(t, "refreshing") /\ SendsOrders(Query(TRUE))
     ELSE Unlocks(t) /\ UNCHANGED <<future, orders>>
  /\ SameDevice /\ SwitchStays /\ PrinterStays
  /\ UNCHANGED <<left, swState, swWanted, brokerUp, reports, crossed>>

MqttAnswered(t) ==
  /\ t \notin {"init"} /\ pc[t] \in {"refreshing", "setting"}
  /\ switchKind = "mqtt"
  /\ \/ pc[t] = "refreshing" /\ future \in Positions /\ UNCHANGED swState /\ SetsPower(t, swState)
     \/ pc[t] = "refreshing" /\ future \notin Positions
        /\ swState' = "error" /\ SetsPower(t, swState')
     \/ /\ pc[t] = "setting" /\ swState' = IF future \in Positions THEN future ELSE "error"
        /\ Unlocks(t) /\ future' = "none" /\ UNCHANGED orders
  /\ IF future = "waiting" THEN Spends("failures") ELSE UNCHANGED left
  /\ SameDevice /\ SwitchStays /\ PrinterStays
  /\ UNCHANGED <<swWanted, brokerUp, reports, crossed>>

(* The switch does what it is sent, and reports; or is switched by hand. *)
Reports(s) == reports' = Append(reports, s)
OrderDone ==
  /\ orders # <<>> /\ orders' = Tail(orders)
  /\ wired' = IF Head(orders) = "query" THEN wired ELSE Head(orders)
  /\ Reports(wired')
  /\ SameDevice /\ PrinterStays
  /\ UNCHANGED <<pc, left, counting, swState, swQueue, swWanted, future, brokerUp, crossed,
                 fooled>>

ByHand ==
  /\ switchKind = "mqtt" /\ Spends("changes")
  /\ wired' \in Positions \ {wired} /\ counting' = FALSE
  /\ IF brokerUp THEN Reports(wired') ELSE UNCHANGED reports
  /\ SameDevice /\ PrinterStays
  /\ UNCHANGED <<pc, swState, swQueue, swWanted, future, brokerUp, orders, crossed, fooled>>

(* _on_state_update *)
StateReported ==
  /\ reports # <<>> /\ reports' = Tail(reports)
  /\ swState' = Head(reports)
  /\ future' = IF future = "waiting" THEN Head(reports) ELSE future
  /\ crossed' = (crossed \/ future \in Positions)
  /\ IF swQueue = <<>> /\ swState' # swState /\ Idle("worker") THEN Locks("worker")
     ELSE UNCHANGED <<pc, swQueue>>
  /\ SameDevice /\ SwitchStays /\ PrinterStays
  /\ UNCHANGED <<left, swWanted, brokerUp, orders>>

(* The connection goes and comes.  With a state that is retained, the       *)
(* subscription is answered at once.                                        *)
BrokerLost ==
  /\ brokerUp /\ Idle("event") /\ Spends("failures")
  /\ brokerUp' = FALSE /\ orders' = <<>> /\ reports' = <<>>
  /\ future' = IF future = "waiting" THEN "failed" ELSE future
  /\ Locks("event")
  /\ SameDevice /\ SwitchStays /\ PrinterStays /\ UNCHANGED <<swState, swWanted, crossed>>

BrokerFound ==
  /\ switchKind = "mqtt" /\ ~brokerUp /\ Idle("init")
  /\ brokerUp' = TRUE
  /\ reports' = IF retained THEN <<wired>> ELSE <<>>
  /\ Locks("init")
  /\ SameDevice /\ SwitchStays /\ PrinterStays
  /\ UNCHANGED <<left, swState, swWanted, future, orders, crossed>>

(* Mutant: a switch that cannot be reached keeps its state. *)
KeptState == swState
(* _on_mqtt_disconnected *)
AfterLoss == "error"
BrokerLossNoted ==
  /\ HasLock("event") /\ pc["event"] = "locking" /\ Unlocks("event")
  /\ swState' = AfterLoss
  /\ SameDevice /\ SwitchStays /\ NoBroker /\ PrinterStays /\ UNCHANGED <<left, swWanted>>

(* _on_mqtt_connected *)
FirstQuery ==
  /\ HasLock("init") /\ pc["init"] = "locking"
  /\ IF swState \in Positions THEN Unlocks("init") /\ UNCHANGED <<swState, future, orders>>
     ELSE IF brokerUp THEN Keeps("init", "querying") /\ swState' = "init" /\ SendsOrders(Query(hasQuery))
     ELSE Unlocks("init") /\ swState' = "error" /\ future' = "none" /\ UNCHANGED orders
  /\ SameDevice /\ SwitchStays /\ PrinterStays
  /\ UNCHANGED <<left, swWanted, brokerUp, reports, crossed>>

FirstReport ==
  /\ pc["init"] = "querying"
  /\ \/ future \in Positions /\ UNCHANGED swState
     \/ (future = "failed" \/ ~hasQuery) /\ future \notin Positions /\ swState' = "error"
  /\ Unlocks("init") /\ future' = "none"
  /\ SameDevice /\ SwitchStays /\ PrinterStays
  /\ UNCHANGED <<left, swWanted, brokerUp, orders, reports, crossed>>
-----------------------------------------------------------------------------
SwitchTasks == Request \cup {"timer"}
SwitchWorld == CountedDown \/ OrderDone \/ BrokerFound
SwitchSteps ==
  \/ ExternalTold \/ StateReported \/ BrokerLossNoted \/ FirstQuery \/ FirstReport
  \/ \E t \in SwitchTasks :
       StatusAnswered(t) \/ SwitchAnswered(t) \/ MqttTurn(t) \/ MqttAnswered(t)

SwitchesNext ==
  \/ SwitchWorld \/ SwitchSteps \/ ByHand \/ BrokerLost
  \/ \E t \in SwitchTasks : AskSwitch(t)

SwitchesWorks(t) == t = "worker" /\ (SwitchWorld \/ SwitchSteps)

(* When nobody asks and nothing is on its way, what is known of a switch is *)
(* so, or what it counts down to.  But a TPLink or Tasmota switch that counts  *)
(* down to off passes for on when it is asked (power.py:1042, 1085), and an    *)
(* "on" does not stop it (:1050, :1067), so that it goes off and nobody sees   *)
(* it: such a switch is `fooled' until it is heard of again.                    *)
SwitchKnown ==
  (/\ swQueue = <<>> /\ reports = <<>> /\ orders = <<>> /\ swState \in Positions /\ ~fooled
   /\ switchKind = "mqtt" => brokerUp /\ ~crossed)
  => swState = IF counting THEN "off" ELSE wired
=============================================================================
