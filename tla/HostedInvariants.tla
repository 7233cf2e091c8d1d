-------------------------- MODULE HostedInvariants --------------------------
(***************************************************************************)
(* Inductive invariants of components whose state module Components relates *)
(* to the world, and whose work it says is done once.                        *)
(***************************************************************************)
EXTENDS Projector, Hardware, SimplyPrint, Server, Machine, Packages, PanelDue, HttpClient,
        FileRequests, Repository, Webcams, Sessions, Mqtt, FiniteSetTheorems, SequenceTheorems, TLAPS

(***************************************************************************)
(* Projector: a reset is on record before it is done.                      *)
(***************************************************************************)
ProjectorOK ==
  /\ DOMAIN pc = Task
  /\ resets \in [{"port", "hub"} -> Nat]
  /\ stored # {} => "attempted" \in stored
  /\ resets["port"] <= IF "attempted" \in stored THEN 1 ELSE 0
  /\ resets["hub"] <= IF "hub_attempted" \in stored THEN 1 ELSE 0
  /\ pc["worker"] = "saving" =>
       proj = {} \/ (proj = stored \cup {Decision(stored)} /\ Decision(stored) \notin stored)

LEMMA ProjectorBegins ==
  ASSUME HostInit, ProjectorInit
  PROVE  ProjectorOK
<1>1. pc["worker"] = "idle" /\ DOMAIN pc = Task
  BY DEF HostInit, Task, Background
<1> QED BY <1>1 DEF ProjectorInit, ProjectorOK, NoResets

LEMMA ProjectorResets ==
  ASSUME ProjectorOK
  PROVE  ProjectorResetOnce
BY DEF ProjectorOK, ProjectorResetOnce

(* What is saved is the end of the outage, or the next attempt. *)
LEMMA RecordSavedKeeps ==
  ASSUME ProjectorOK, RecordSaved
  PROVE  ProjectorOK'
<1>1. DOMAIN pc' = Task /\ "worker" \in Task
  BY DEF RecordSaved, Goes, ProjectorOK, Task, Background
<1>2. pc'["worker"] # "saving"
  BY <1>1 DEF RecordSaved, Goes, ProjectorOK
<1>3. CASE UNCHANGED <<stored, resets>>
  BY <1>1, <1>2, <1>3 DEF ProjectorOK
<1>4. CASE proj = {} /\ stored' = {} /\ resets' = NoResets
  BY <1>1, <1>2, <1>4 DEF ProjectorOK, NoResets
<1>5. CASE /\ proj # {} /\ stored' = proj
           /\ \/ "gave_up" \in proj /\ resets' = resets
              \/ /\ "gave_up" \notin proj
                 /\ resets' = [resets EXCEPT ![IF "hub_attempted" \in proj THEN "hub" ELSE "port"] = @ + 1]
  <2>1. proj = stored \cup {Decision(stored)} /\ Decision(stored) \notin stored
    BY <1>5 DEF RecordSaved, ProjectorOK
  <2>2. CASE resets' = resets
    BY <1>1, <1>2, <1>5, <2>1, <2>2 DEF ProjectorOK, Decision
  <2>3. CASE Decision(stored) = "attempted"
    BY <1>1, <1>2, <1>5, <2>1, <2>3 DEF ProjectorOK, Decision
  <2>4. CASE Decision(stored) = "hub_attempted"
    BY <1>1, <1>2, <1>5, <2>1, <2>4 DEF ProjectorOK, Decision
  <2> QED BY <1>5, <2>1, <2>2, <2>3, <2>4 DEF Decision
<1> QED BY <1>3, <1>4, <1>5 DEF RecordSaved, Saved

LEMMA ProjectorKeeps ==
  ASSUME ProjectorOK, ProjectorNext
  PROVE  ProjectorOK'
<1>1. "worker" \in Task
  BY DEF Task, Background
<1>2. ASSUME DOMAIN pc' = Task, UNCHANGED <<stored, resets>>, pc'["worker"] # "saving"
      PROVE  ProjectorOK'
  BY <1>2 DEF ProjectorOK
<1>3. CASE StartsProbe \/ ProjectorWorld
  BY <1>3 DEF StartsProbe, ProjectorWorld, ProjectorOK, Decision
<1>4. CASE Wakes \/ LinkAnswered \/ ResetDone \/ ProjectorCrash
  BY <1>1, <1>2, <1>4 DEF Wakes, LinkAnswered, ResetDone, ProjectorCrash, Goes, projectorVars, ProjectorOK
<1>5. CASE Loaded
  BY <1>1, <1>5 DEF Loaded, Goes, linkVars, ProjectorOK, Decision
<1> QED BY <1>3, <1>4, <1>5, RecordSavedKeeps DEF ProjectorNext, Probes
-----------------------------------------------------------------------------
(***************************************************************************)
(* Buttons: who renders holds the mutex, and the context is that of its own  *)
(* event; the pin is what its last edge says.                                 *)
(***************************************************************************)
ButtonTypes ==
  /\ DOMAIN pc = Task
  /\ pin \in 0..1 /\ edges \in Seq(0..1) /\ btnCalls \in Seq(0..1)
  /\ gpio \in [value : 0..1, started : BOOLEAN, errors : Nat]
  /\ btnContext \in [pressed : 0..NoEvent, sent : BOOLEAN]
  /\ btnTask \in [ButtonTask -> 0..NoEvent] /\ btnSent \in [ButtonTask -> Nat]

(* It is started once: what was stopped for its errors is not started again. *)
NotYetStarted ==
  ~gpio.started /\ gpio.errors < MaxErrors =>
    btnCalls = <<>> /\ Idle("timer") /\ \A t \in ButtonTask : Idle(t)

LastEdge ==
  ~edgeLost =>
    /\ edges # <<>> => edges[Len(edges)] = pin
    /\ edges = <<>> /\ gpio.started => gpio.value = pin

LastCall ==
  btnCalls # <<>> /\ gpio.started =>
    btnCalls[Len(btnCalls)] = IF Idle("timer") THEN gpio.value ELSE debounced

RendersTemplate(t) ==
  pc[t] = "rendering" =>
    /\ btnHolder = t /\ btnContext.pressed = btnTask[t]
    /\ btnSent[t] <= IF btnContext.sent THEN 1 ELSE 0

ButtonsOK ==
  /\ ButtonTypes /\ NotYetStarted /\ LastEdge /\ LastCall
  /\ pc["timer"] \in {"idle", "debounce"}
  /\ pc["timer"] = "debounce" => gpio.started
  /\ \A i \in 1..Len(btnCalls) - 1 : btnCalls[i] # btnCalls[i + 1]
  /\ \A t \in ButtonTask : RendersTemplate(t)

LEMMA ButtonTaskNames ==
  /\ ButtonTask \subseteq Task /\ None \notin ButtonTask
  /\ "timer" \in Task /\ "timer" \notin ButtonTask
BY HostConstants DEF ButtonTask, Task, Background

LEMMA ButtonsBegin ==
  ASSUME HostInit, ButtonsInit
  PROVE  ButtonsOK
<1>1. /\ DOMAIN pc = Task /\ \A t \in Task : pc[t] = "idle"
      /\ gpio = [value |-> 0, started |-> FALSE, errors |-> 0]
      /\ pin = 0 /\ edges = <<>> /\ btnCalls = <<>>
  BY DEF HostInit, ButtonsInit
<1>2. ButtonTypes
  BY <1>1 DEF ButtonTypes, ButtonsInit, NoEvent
<1>3. NotYetStarted /\ LastEdge /\ LastCall
  BY <1>1, ButtonTaskNames DEF NotYetStarted, LastEdge, LastCall, Idle
<1> QED BY <1>1, <1>2, <1>3, ButtonTaskNames DEF ButtonsOK, RendersTemplate

LEMMA ButtonsServe ==
  ASSUME ButtonsOK
  PROVE  TemplateHasItsEvent /\ EventsTakeTurns
<1>1. ASSUME NEW t \in ButtonTask, pc[t] = "rendering"
      PROVE  btnContext.pressed = btnTask[t] /\ btnSent[t] <= 1
  BY <1>1 DEF ButtonsOK, RendersTemplate, ButtonTypes
<1>2. EventsTakeTurns
  BY DEF EventsTakeTurns, ButtonsOK, LastEdge, LastCall, Idle
<1> QED BY <1>1, <1>2 DEF TemplateHasItsEvent

LEMMA PinKeeps ==
  ASSUME ButtonsOK, PinMoves \/ GpioStarts \/ ErrorsReset
  PROVE  ButtonsOK'
<1>1. CASE PinMoves
  <2>1. pin' \in 0..1 /\ UNCHANGED <<pc, gpio, debounced, btnCalls, btnTask, btnHolder, btnContext, btnSent>>
    BY <1>1 DEF PinMoves, TasksKept, ButtonsOK, ButtonTypes
  <2>2. edges' \in Seq(0..1) /\ LastEdge'
    <3>1. CASE edges' = Append(edges, 1 - pin) /\ UNCHANGED edgeLost
      <4>1. edges \in Seq(0..1) /\ 1 - pin \in 0..1
        BY DEF ButtonsOK, ButtonTypes
      <4>2. edges' \in Seq(0..1) /\ edges' # <<>> /\ edges'[Len(edges')] = 1 - pin
        BY <3>1, <4>1
      <4> QED BY <4>2, <1>1 DEF LastEdge, PinMoves
    <3>2. CASE edgeLost' = TRUE /\ UNCHANGED edges
      BY <3>2 DEF LastEdge, ButtonsOK, ButtonTypes
    <3> QED BY <1>1, <3>1, <3>2 DEF PinMoves
  <2> QED BY <2>1, <2>2 DEF ButtonsOK, ButtonTypes, NotYetStarted, LastCall, RendersTemplate, Idle
<1>2. CASE GpioStarts
  <2>1. /\ \A t \in ButtonTask : pc[t] = "idle"
        /\ pc["timer"] = "idle" /\ btnCalls = <<>>
    BY <1>2 DEF GpioStarts, ButtonsOK, NotYetStarted, Idle
  <2>2. /\ gpio' = [gpio EXCEPT !.value = pin, !.started = TRUE]
        /\ btnContext' = [btnContext EXCEPT !.pressed = pin]
        /\ UNCHANGED <<pc, pin, edges, debounced, btnCalls, btnTask, btnHolder, btnSent, edgeLost>>
    BY <1>2 DEF GpioStarts
  <2>3. gpio' \in [value : 0..1, started : BOOLEAN, errors : Nat] /\ gpio'.value = pin /\ gpio'.started
    BY <2>2 DEF ButtonsOK, ButtonTypes
  <2>4. btnContext' \in [pressed : 0..NoEvent, sent : BOOLEAN]
    BY <2>2 DEF ButtonsOK, ButtonTypes, NoEvent
  <2>5. ButtonTypes'
    BY <2>2, <2>3, <2>4 DEF ButtonsOK, ButtonTypes
  <2> QED BY <2>1, <2>2, <2>3, <2>5 DEF ButtonsOK, NotYetStarted, LastEdge, LastCall, RendersTemplate, Idle
<1>3. CASE ErrorsReset
  <2>1. /\ gpio.started /\ gpio' = [gpio EXCEPT !.errors = 0]
        /\ UNCHANGED <<pc, pin, edges, debounced, btnCalls, btnTask, btnHolder, btnContext, btnSent, edgeLost>>
    BY <1>3 DEF ErrorsReset, TasksKept
  <2>2. ButtonTypes' /\ gpio'.value = gpio.value /\ gpio'.started
    BY <2>1 DEF ButtonsOK, ButtonTypes
  <2> QED BY <2>1, <2>2 DEF ButtonsOK, NotYetStarted, LastEdge, LastCall, RendersTemplate, Idle
<1> QED BY <1>1, <1>2, <1>3

LEMMA EdgeReadKeeps ==
  ASSUME ButtonsOK, EdgeRead
  PROVE  ButtonsOK'
<1>1. /\ gpio.started /\ edges # <<>> /\ edges' = Tail(edges)
      /\ UNCHANGED <<pin, btnCalls, edgeLost, btnTask, btnHolder, btnContext, btnSent>>
  BY DEF EdgeRead, TasksKept
<1>2. edges \in Seq(0..1) /\ Len(edges) > 0 /\ Head(edges) \in 0..1 /\ edges' \in Seq(0..1)
  BY <1>1 DEF ButtonsOK, ButtonTypes
<1>3. /\ edges' # <<>> => edges'[Len(edges')] = edges[Len(edges)]
      /\ edges' = <<>> => Head(edges) = edges[Len(edges)]
  <2>1. Len(edges') = Len(edges) - 1 /\ \A i \in 1..Len(edges') : edges'[i] = edges[i + 1]
    BY <1>1, <1>2
  <2>2. Head(edges) = edges[1]
    BY <1>2
  <2> QED BY <1>2, <2>1, <2>2
<1>4. \A t \in ButtonTask : pc'[t] = pc[t]
  BY ButtonTaskNames DEF EdgeRead, TooMany, Goes, ButtonsOK, ButtonTypes
<1>5. /\ gpio' \in [value : 0..1, started : BOOLEAN, errors : Nat] /\ DOMAIN pc' = Task
      /\ gpio'.value = Head(edges)
      /\ pc'["timer"] = IF gpio'.started THEN "debounce" ELSE "idle"
      /\ ~gpio'.started => gpio'.errors = MaxErrors
      /\ debounced' = IF Idle("timer") THEN gpio.value ELSE debounced
  <2>1. CASE Idle("timer")
    BY <1>1, <1>2, <2>1, ButtonTaskNames DEF EdgeRead, Goes, Idle, ButtonsOK, ButtonTypes
  <2>2. CASE ~Idle("timer") /\ gpio.errors + 1 = MaxErrors
    <3>1. gpio' = [value |-> Head(edges), started |-> FALSE, errors |-> MaxErrors]
      BY <2>2 DEF EdgeRead, TooMany
    <3> QED BY <1>1, <1>2, <2>2, <3>1, ButtonTaskNames
            DEF EdgeRead, TooMany, Goes, Idle, ButtonsOK, ButtonTypes, MaxErrors
  <2>3. CASE ~Idle("timer") /\ gpio.errors + 1 # MaxErrors
    <3>1. gpio' = [gpio EXCEPT !.value = Head(edges), !.errors = @ + 1] /\ UNCHANGED <<pc, debounced>>
      BY <2>3 DEF EdgeRead, TooMany
    <3>2. gpio' \in [value : 0..1, started : BOOLEAN, errors : Nat] /\ gpio'.value = Head(edges)
          /\ gpio'.started
      <4>1. gpio \in [value : 0..1, started : BOOLEAN, errors : Nat] /\ gpio.errors + 1 \in Nat
        BY DEF ButtonsOK, ButtonTypes
      <4>2. gpio' = [value |-> Head(edges), started |-> gpio.started, errors |-> gpio.errors + 1]
        BY <3>1, <4>1
      <4> QED BY <1>1, <1>2, <4>1, <4>2
    <3> QED BY <2>3, <3>1, <3>2 DEF Idle, ButtonsOK, ButtonTypes
  <2> QED BY <2>1, <2>2, <2>3
<1>6. ButtonTypes'
  BY <1>1, <1>2, <1>5 DEF ButtonsOK, ButtonTypes
<1>7. NotYetStarted' /\ LastEdge'
  BY <1>1, <1>3, <1>5 DEF ButtonsOK, ButtonTypes, NotYetStarted, LastEdge, MaxErrors
<1>8. LastCall'
  BY <1>1, <1>5 DEF ButtonsOK, LastCall, Idle
<1> QED BY <1>1, <1>4, <1>5, <1>6, <1>7, <1>8 DEF ButtonsOK, RendersTemplate

LEMMA DebounceEndsKeeps ==
  ASSUME ButtonsOK, DebounceEnds
  PROVE  ButtonsOK'
<1>1. /\ pc["timer"] = "debounce" /\ gpio.started
      /\ UNCHANGED <<pin, edges, gpio, debounced, btnHolder, btnContext, btnSent, edgeLost>>
  BY DEF DebounceEnds, ButtonsOK
<1>2. /\ DOMAIN pc' = Task /\ pc'["timer"] = "idle"
      /\ \A t \in ButtonTask : pc'[t] = pc[t] \/ pc'[t] = "called"
  BY ButtonTaskNames DEF DebounceEnds, Goes, ButtonsOK, ButtonTypes
<1>3. /\ btnTask' \in [ButtonTask -> 0..NoEvent]
      /\ \A t \in ButtonTask : pc'[t] = "rendering" => btnTask'[t] = btnTask[t]
  <2>1. btnTask \in [ButtonTask -> 0..NoEvent] /\ gpio.value \in 0..NoEvent
    BY DEF ButtonsOK, ButtonTypes, NoEvent
  <2>2. CASE btnTask' = btnTask
    BY <2>1, <2>2
  <2>3. CASE \E t \in ButtonTask : /\ pc' = [pc EXCEPT ![t] = "called", !["timer"] = "idle"]
                                  /\ btnTask' = [btnTask EXCEPT ![t] = gpio.value]
    BY <2>1, <2>3, ButtonTaskNames DEF ButtonsOK, ButtonTypes
  <2> QED BY <2>2, <2>3 DEF DebounceEnds
<1>4. btnCalls \in Seq(0..1) /\ gpio.value \in 0..1
  BY DEF ButtonsOK, ButtonTypes
<1>5. \/ btnCalls' = btnCalls /\ debounced = gpio.value
      \/ btnCalls' = Append(btnCalls, gpio.value) /\ debounced # gpio.value
  BY DEF DebounceEnds, ValueChanged
<1>6. btnCalls # <<>> => btnCalls[Len(btnCalls)] = debounced
  BY <1>1 DEF ButtonsOK, LastCall, Idle
<1>7. /\ btnCalls' \in Seq(0..1)
      /\ btnCalls' # <<>> => btnCalls'[Len(btnCalls')] = gpio.value
      /\ \A i \in 1..Len(btnCalls') - 1 : btnCalls'[i] # btnCalls'[i + 1]
  <2>1. CASE btnCalls' = btnCalls /\ debounced = gpio.value
    BY <1>4, <1>6, <2>1 DEF ButtonsOK
  <2>2. CASE btnCalls' = Append(btnCalls, gpio.value) /\ debounced # gpio.value
    <3>1. /\ btnCalls' \in Seq(0..1) /\ Len(btnCalls') = Len(btnCalls) + 1
          /\ btnCalls'[Len(btnCalls')] = gpio.value
          /\ \A i \in 1..Len(btnCalls) : btnCalls'[i] = btnCalls[i]
      BY <1>4, <2>2
    <3>2. ASSUME NEW i \in 1..Len(btnCalls) PROVE btnCalls'[i] # btnCalls'[i + 1]
      <4>1. CASE i = Len(btnCalls)
        <5>1. btnCalls # <<>>
          BY <1>4, <4>1
        <5> QED BY <1>6, <2>2, <3>1, <4>1, <5>1
      <4>2. CASE i # Len(btnCalls)
        BY <1>4, <3>1, <4>2 DEF ButtonsOK
      <4> QED BY <4>1, <4>2
    <3> QED BY <1>4, <3>1, <3>2
  <2> QED BY <1>5, <2>1, <2>2
<1>8. ButtonTypes' /\ NotYetStarted' /\ LastEdge' /\ LastCall'
  BY <1>1, <1>2, <1>3, <1>7 DEF ButtonsOK, ButtonTypes, NotYetStarted, LastEdge, LastCall, Idle
<1> QED BY <1>1, <1>2, <1>3, <1>7, <1>8 DEF ButtonsOK, RendersTemplate

LEMMA TemplateKeeps ==
  ASSUME ButtonsOK, NEW t \in ButtonTask,
         WaitsForMutex(t) \/ TemplateBegins(t) \/ TemplateNotifies(t) \/ TemplateEnds(t)
  PROVE  ButtonsOK'
<1>1. UNCHANGED <<pin, edges, gpio, debounced, btnCalls, edgeLost>>
  BY DEF WaitsForMutex, TemplateBegins, TemplateNotifies, TemplateEnds, ButtonKept
<1>2. /\ DOMAIN pc' = Task /\ pc'["timer"] = pc["timer"] /\ pc[t] # "idle"
      /\ \A s \in ButtonTask \ {t} : pc'[s] = pc[s]
  BY ButtonTaskNames DEF WaitsForMutex, TemplateBegins, TemplateNotifies, TemplateEnds, Goes, ButtonsOK, ButtonTypes
<1>3. gpio.started \/ gpio.errors >= MaxErrors
  BY <1>2 DEF ButtonsOK, NotYetStarted, Idle, ButtonTypes, MaxErrors
<1>4. ButtonTypes'
  <2>1. btnTask' \in [ButtonTask -> 0..NoEvent]
    BY DEF WaitsForMutex, TemplateBegins, TemplateNotifies, TemplateEnds, ButtonKept, ButtonsOK,
           ButtonTypes, NoEvent
  <2>2. btnSent' \in [ButtonTask -> Nat]
    <3>1. btnSent \in [ButtonTask -> Nat] /\ btnSent[t] + 1 \in Nat
      BY DEF ButtonsOK, ButtonTypes
    <3>2. \/ btnSent' = btnSent \/ btnSent' = [btnSent EXCEPT ![t] = 0]
          \/ btnSent' = [btnSent EXCEPT ![t] = btnSent[t] + 1]
      BY DEF WaitsForMutex, TemplateBegins, TemplateNotifies, TemplateEnds
    <3> QED BY <3>1, <3>2
  <2>3. btnContext' \in [pressed : 0..NoEvent, sent : BOOLEAN]
    <3>1. btnContext \in [pressed : 0..NoEvent, sent : BOOLEAN] /\ btnTask[t] \in 0..NoEvent
      BY DEF ButtonsOK, ButtonTypes
    <3>2. \/ btnContext' = btnContext \/ btnContext' = [pressed |-> btnTask[t], sent |-> FALSE]
          \/ btnContext' = [btnContext EXCEPT !.sent = TRUE]
      BY <3>1 DEF WaitsForMutex, TemplateBegins, TemplateNotifies, TemplateEnds, ContextKept
    <3>3. [btnContext EXCEPT !.sent = TRUE] \in [pressed : 0..NoEvent, sent : BOOLEAN]
      BY <3>1
    <3>4. [pressed |-> btnTask[t], sent |-> FALSE] \in [pressed : 0..NoEvent, sent : BOOLEAN]
      BY <3>1
    <3> QED BY <3>1, <3>2, <3>3, <3>4
  <2> QED BY <1>1, <1>2, <2>1, <2>2, <2>3 DEF ButtonsOK, ButtonTypes
<1>5. NotYetStarted' /\ LastEdge' /\ LastCall'
  BY <1>1, <1>2, <1>3 DEF ButtonsOK, ButtonTypes, NotYetStarted, LastEdge, LastCall, Idle, MaxErrors
<1>6. ASSUME NEW s \in ButtonTask PROVE RendersTemplate(s)'
  <2>1. CASE WaitsForMutex(t)
    BY <1>2, <2>1, ButtonTaskNames DEF WaitsForMutex, Goes, ContextKept, ButtonKept, ButtonsOK, ButtonTypes, RendersTemplate
  <2>2. CASE TemplateBegins(t)
    BY <1>2, <2>2, ButtonTaskNames DEF TemplateBegins, Goes, ButtonKept, ButtonsOK, ButtonTypes, RendersTemplate
  <2>3. CASE TemplateNotifies(t)
    BY <1>2, <2>3, ButtonTaskNames DEF TemplateNotifies, ButtonKept, ButtonsOK, ButtonTypes, RendersTemplate
  <2>4. CASE TemplateEnds(t)
    BY <1>2, <2>4, ButtonTaskNames DEF TemplateEnds, Goes, ButtonsOK, ButtonTypes, RendersTemplate
  <2> QED BY <2>1, <2>2, <2>3, <2>4
<1> QED BY <1>1, <1>2, <1>4, <1>5, <1>6 DEF ButtonsOK

LEMMA ButtonsKeep ==
  ASSUME ButtonsOK, ButtonsNext
  PROVE  ButtonsOK'
BY PinKeeps, EdgeReadKeeps, DebounceEndsKeeps, TemplateKeeps DEF ButtonsNext
-----------------------------------------------------------------------------
(***************************************************************************)
(* SimplyPrint, each of its three parts.                                   *)
(***************************************************************************)
JobEvent == {"started", "current", "ended"}

(* Each end follows something else, and what is under way is not ended. *)
TellsJobs(all, under) ==
  /\ \A i \in 1..Len(all) : all[i] = "ended" => i > 1 /\ all[i - 1] # "ended"
  /\ under => all # <<>> /\ all[Len(all)] # "ended"

CloudOK ==
  /\ told \in Seq(JobEvent) /\ missed \in Seq(JobEvent)
  /\ cloudLink \in {"down", "open", "up"} /\ {torn, hasJob, lossy} \subseteq BOOLEAN
  /\ cloudLink = "up" => missed = <<>>
  /\ ~lossy => TellsJobs(told \o missed, hasJob)
  /\ cloudLink = "up" /\ ~torn => cloudState = spState

SentForIt(f) == pc[f] \in {"downloading", "printing", "storing"}

SentFileOK(f) ==
  /\ timesStarted[f] <= 1
  /\ f \notin demanded \/ SentForIt(f) \/ pendingFile = f => timesStarted[f] = 0
  /\ SentForIt(f) \/ pendingFile = f => f \in demanded
  /\ pendingFile = f => ~SentForIt(f)

SendFilesOK ==
  /\ timesStarted \in [Request -> Nat] /\ pendingFile \in Request \cup {None}
  /\ \A f \in Request : SentFileOK(f)

SetupOK ==
  /\ \A t \in Request : pc[t] = "removing" => setupMutex = t
  /\ setupMutex = None => shownSetups \subseteq {setupId}
  /\ setupMutex # None => shownSetups = {}

SimplyPrintOK == DOMAIN pc = Task /\ CloudOK /\ SendFilesOK /\ SetupOK

LEMMA SimplyPrintBegins ==
  ASSUME HostInit, SimplyPrintInit
  PROVE  SimplyPrintOK
<1>1. /\ DOMAIN pc = Task /\ \A t \in Request : pc[t] = "idle" /\ t # None
  BY HostConstants DEF HostInit, Task
<1>2. CloudOK
  <2>1. told = <<>> /\ missed = <<>> /\ <<>> \in Seq(JobEvent) /\ Len(<<>> \o <<>>) = 0
    BY DEF SimplyPrintInit
  <2>2. TellsJobs(told \o missed, hasJob)
    BY <2>1 DEF SimplyPrintInit, TellsJobs
  <2> QED BY <2>1, <2>2 DEF SimplyPrintInit, CloudOK
<1>3. SendFilesOK
  BY <1>1 DEF SimplyPrintInit, SendFilesOK, SentFileOK, SentForIt
<1>4. SetupOK
  BY <1>1 DEF SimplyPrintInit, SetupOK
<1> QED BY <1>1, <1>2, <1>3, <1>4 DEF SimplyPrintOK

LEMMA SimplyPrintServes ==
  ASSUME SimplyPrintOK
  PROVE  SentFileStartsOnce /\ SetupShownOnce /\ CloudKnowsJobs
<1>1. SentFileStartsOnce /\ SetupShownOnce
  BY DEF SimplyPrintOK, SendFilesOK, SentFileOK, SetupOK, SentFileStartsOnce, SetupShownOnce
<1>2. told \o missed \in Seq(JobEvent)
  BY DEF SimplyPrintOK, CloudOK
<1>3. DOMAIN (told \o missed) = 1..Len(told \o missed)
  BY <1>2
<1>4. CloudKnowsJobs
  BY <1>3 DEF CloudKnowsJobs, SimplyPrintOK, CloudOK, TellsJobs
<1> QED BY <1>1, <1>4

(* What is told of a job that begins, or ends. *)
LEMMA TellsMore ==
  ASSUME NEW all \in Seq(JobEvent), NEW under \in BOOLEAN, TellsJobs(all, under)
  PROVE  /\ TellsJobs(all \o <<"started">>, TRUE)
         /\ TellsJobs(all \o <<"current">>, TRUE)
         /\ TellsJobs(all \o <<>>, under) /\ TellsJobs(all \o <<>>, FALSE)
         /\ TellsJobs(all \o (IF under THEN <<"ended">> ELSE <<"started", "ended">>), FALSE)
<1>1. all \o <<>> = all
  OBVIOUS
<1>2. ASSUME NEW e \in {"started", "current"} PROVE TellsJobs(all \o <<e>>, TRUE)
  <2>1. /\ Len(all \o <<e>>) = Len(all) + 1 /\ (all \o <<e>>)[Len(all) + 1] = e
        /\ \A i \in 1..Len(all) : (all \o <<e>>)[i] = all[i]
    OBVIOUS
  <2> QED BY <2>1 DEF TellsJobs
<1>3. ASSUME under PROVE TellsJobs(all \o <<"ended">>, FALSE)
  <2>1. /\ Len(all \o <<"ended">>) = Len(all) + 1 /\ (all \o <<"ended">>)[Len(all) + 1] = "ended"
        /\ \A i \in 1..Len(all) : (all \o <<"ended">>)[i] = all[i]
    OBVIOUS
  <2>2. Len(all) > 0 /\ all[Len(all)] # "ended"
    BY <1>3 DEF TellsJobs
  <2> QED BY <2>1, <2>2 DEF TellsJobs
<1>4. TellsJobs(all \o <<"started", "ended">>, FALSE)
  <2> DEFINE more == all \o <<"started", "ended">>
  <2>1. /\ Len(more) = Len(all) + 2
        /\ more[Len(all) + 1] = "started" /\ more[Len(all) + 2] = "ended"
        /\ \A i \in 1..Len(all) : more[i] = all[i]
    OBVIOUS
  <2> QED BY <2>1 DEF TellsJobs
<1> QED BY <1>1, <1>2, <1>3, <1>4 DEF TellsJobs

(* Events of which the first are sent already, or are missed, too. *)
LEMMA TellingKeeps ==
  ASSUME CloudOK, NEW events, SendsJobEvents(events),
         \/ events = <<"started">> /\ hasJob' = TRUE
         \/ events = <<"current">> /\ hasJob' = TRUE
         \/ events = <<>> /\ hasJob' \in {hasJob, FALSE}
         \/ events = EndEvents /\ hasJob' = FALSE,
         cloudLink = "up" /\ ~torn => cloudState' = spState'
  PROVE  CloudOK'
<1>1. events \in Seq(JobEvent)
  <2>1. /\ <<>> \in Seq(JobEvent) /\ <<"started">> \in Seq(JobEvent) /\ <<"current">> \in Seq(JobEvent)
        /\ <<"ended">> \in Seq(JobEvent) /\ <<"started", "ended">> \in Seq(JobEvent)
    BY DEF JobEvent
  <2> QED BY <2>1 DEF EndEvents
<1>2. hasJob' \in BOOLEAN /\ lossy' \in BOOLEAN /\ UNCHANGED <<cloudLink, torn>>
  BY DEF CloudOK, SendsJobEvents
<1>3. CASE lossy'
  BY <1>1, <1>2, <1>3 DEF CloudOK, SendsJobEvents
<1>4. CASE ~lossy'
  <2>1. told \in Seq(JobEvent) /\ missed \in Seq(JobEvent) /\ ~lossy
        /\ TellsJobs(told \o missed, hasJob)
    BY <1>4 DEF CloudOK, SendsJobEvents
  <2>2. told \o missed \in Seq(JobEvent) /\ (told \o missed) \o events = told \o (missed \o events)
    BY <1>1, <2>1, ConcatAssociative
  <2>3. TellsJobs((told \o missed) \o events, hasJob')
    BY <2>1, <2>2, TellsMore DEF EndEvents, CloudOK
  <2>4. told' \o missed' = (told \o missed) \o events /\ (cloudLink = "up" => missed' = <<>>)
    <3>1. CASE cloudLink # "up"
      BY <2>2, <3>1 DEF SendsJobEvents
    <3>2. CASE cloudLink = "up" /\ ~torn
      <4>1. missed = <<>> /\ missed' = <<>> /\ told' = told \o events
        BY <3>2 DEF SendsJobEvents, CloudOK
      <4> QED BY <1>1, <2>1, <4>1
    <3>3. CASE cloudLink = "up" /\ torn
      <4>1. missed = <<>> /\ missed' = <<>> /\ told' = told /\ events = <<>>
        BY <1>4, <3>3 DEF SendsJobEvents, CloudOK
      <4> QED BY <2>1, <4>1
    <3> QED BY <3>1, <3>2, <3>3 DEF CloudOK
  <2>5. told' \in Seq(JobEvent) /\ missed' \in Seq(JobEvent)
    BY <1>1, <2>1 DEF SendsJobEvents
  <2> QED BY <1>2, <2>3, <2>4, <2>5 DEF CloudOK
<1> QED BY <1>3, <1>4

LEMMA StateTold ==
  ASSUME CloudOK, NEW new, NEW p, UpdatesState(new, p)
  PROVE  cloudLink = "up" /\ ~torn => cloudState' = spState'
BY DEF CloudOK, UpdatesState

LEMMA CloudRests ==
  ASSUME CloudOK, UNCHANGED <<jobVars, tellVars>>
  PROVE  CloudOK'
BY DEF CloudOK, jobVars, tellVars

(* A wait that is over is not yet another place. *)
LEMMA WokenKeeps ==
  ASSUME NEW new, NEW p, DOMAIN p = Task, UpdatesState(new, p)
  PROVE  /\ DOMAIN pc' = Task
         /\ \A t \in Task : pc'[t] = p[t] \/ (p[t] = "waiting" /\ pc'[t] = "woken")
BY DEF UpdatesState, Woken

(* Who moves, and where to, when no file or setup is concerned *)
LEMMA OtherFilesKeep ==
  ASSUME SendFilesOK, SetupOK, UNCHANGED <<sendFileVars, setupVars>>,
         \A t \in Request : SentForIt(t)' => SentForIt(t),
         \A t \in Request : pc'[t] = "removing" => pc[t] = "removing"
  PROVE  SendFilesOK' /\ SetupOK'
BY DEF SendFilesOK, SentFileOK, SetupOK, sendFileVars, setupVars

LEMMA JobsKeep ==
  ASSUME SimplyPrintOK, JobChanges \/ CloudKlippyDrops \/ CloudKlippyReady
  PROVE  SimplyPrintOK'
<1>1. UNCHANGED <<sendFileVars, setupVars>>
  BY DEF JobChanges, CloudKlippyDrops, CloudKlippyReady
<1>2. /\ DOMAIN pc' = Task
      /\ \A t \in Task : pc'[t] = pc[t] \/ (pc[t] = "waiting" /\ pc'[t] = "woken")
  BY WokenKeeps DEF SimplyPrintOK, JobChanges, CloudKlippyDrops, CloudKlippyReady, PrintStarted, JobState
<1>3. CloudOK'
  <2>1. CASE JobChanges
    <3>1. CASE PrintStarted(pc)
      BY <3>1, TellingKeeps, StateTold DEF SimplyPrintOK, PrintStarted
    <3>2. ASSUME NEW next, JobState(next) PROVE CloudOK'
      BY <3>2, TellingKeeps, StateTold DEF SimplyPrintOK, JobState
    <3> QED BY <2>1, <3>1, <3>2 DEF JobChanges
  <2>2. CASE CloudKlippyDrops
    BY <2>2, TellingKeeps, StateTold DEF SimplyPrintOK, CloudKlippyDrops
  <2>3. CASE CloudKlippyReady
    <3>1. SendsJobEvents(IF cloudJob' = "printing" THEN <<"current">> ELSE <<>>)
          /\ hasJob' = (cloudJob' = "printing")
      BY <2>3 DEF CloudKlippyReady
    <3>2. cloudLink = "up" /\ ~torn => cloudState' = spState'
      BY <2>3, StateTold DEF SimplyPrintOK, CloudKlippyReady
    <3> QED BY <3>1, <3>2, TellingKeeps DEF SimplyPrintOK
  <2> QED BY <2>1, <2>2, <2>3
<1>4. Request \subseteq Task
  BY DEF Task
<1>5. SendFilesOK' /\ SetupOK'
  BY <1>1, <1>2, <1>4, OtherFilesKeep DEF SimplyPrintOK, SentForIt
<1> QED BY <1>2, <1>3, <1>5 DEF SimplyPrintOK

LEMMA DemandsKeep ==
  ASSUME SimplyPrintOK, NEW t \in Request, PrintDemand(t) \/ PrintDemandDone(t)
  PROVE  SimplyPrintOK'
<1>1. UNCHANGED <<sendFileVars, setupVars, hasJob>> /\ t \in Task
  BY DEF PrintDemand, PrintDemandDone, Task
<1>2. /\ DOMAIN pc' = Task
      /\ pc'[t] \in {"acting", "idle"}
      /\ \A s \in Task \ {t} : pc'[s] = pc[s] \/ (pc[s] = "waiting" /\ pc'[s] = "woken")
  <2>1. ASSUME NEW new, NEW place \in {"acting", "idle"}, UpdatesState(new, [pc EXCEPT ![t] = place])
        PROVE  /\ DOMAIN pc' = Task /\ pc'[t] = place
               /\ \A s \in Task \ {t} : pc'[s] = pc[s] \/ (pc[s] = "waiting" /\ pc'[s] = "woken")
    <3>1. PICK p : p = [pc EXCEPT ![t] = place]
      OBVIOUS
    <3>2. DOMAIN p = Task /\ p[t] = place /\ \A s \in Task \ {t} : p[s] = pc[s]
      BY <1>1, <3>1 DEF SimplyPrintOK
    <3>3. UpdatesState(new, p)
      BY <2>1, <3>1
    <3> QED BY <1>1, <3>2, <3>3, WokenKeeps
  <2>2. CASE Goes(t, "idle")
    BY <1>1, <2>2 DEF Goes, SimplyPrintOK
  <2> QED BY <2>1, <2>2 DEF PrintDemand, PrintDemandDone
<1>3. CloudOK'
  <2>1. CASE SendsJobEvents(<<>>)
    <3>1. cloudLink = "up" /\ ~torn => cloudState' = spState'
      <4>1. ASSUME NEW new, NEW p, UpdatesState(new, p) PROVE cloudLink = "up" /\ ~torn => cloudState' = spState'
        BY <4>1, StateTold DEF SimplyPrintOK
      <4>2. CASE UNCHANGED <<spState, tellVars>>
        BY <4>2 DEF SimplyPrintOK, CloudOK, tellVars
      <4> QED BY <4>1, <4>2 DEF PrintDemand, PrintDemandDone
    <3> QED BY <1>1, <2>1, <3>1, TellingKeeps DEF SimplyPrintOK
  <2>2. CASE UNCHANGED <<spState, tellVars>>
    BY <1>1, <2>2 DEF SimplyPrintOK, CloudOK, tellVars
  <2> QED BY <2>1, <2>2 DEF PrintDemand, PrintDemandDone
<1>4. Request \subseteq Task
  BY DEF Task
<1>5. SendFilesOK' /\ SetupOK'
  BY <1>1, <1>2, <1>4, OtherFilesKeep DEF SimplyPrintOK, SentForIt
<1> QED BY <1>2, <1>3, <1>5 DEF SimplyPrintOK

LEMMA LinkKeeps ==
  ASSUME SimplyPrintOK, CloudLinkSteps \/ WebsocketBreaks
  PROVE  SimplyPrintOK'
<1>1. UNCHANGED <<pc, jobVars, sendFileVars, setupVars>>
  BY DEF CloudLinkSteps, CloudConnects, CloudGreets, CloseRead, WebsocketBreaks
<1>2. CloudOK'
  <2>1. CASE CloudGreets
    <3>1. told' = told \o missed /\ missed' = <<>> /\ told \in Seq(JobEvent) /\ missed \in Seq(JobEvent)
      BY <2>1 DEF CloudGreets, MissedAfterPush, SimplyPrintOK, CloudOK
    <3>2. told' \in Seq(JobEvent) /\ told' \o missed' = told \o missed
      BY <3>1
    <3> QED BY <2>1, <1>1, <3>1, <3>2 DEF CloudGreets, SimplyPrintOK, CloudOK, jobVars
  <2>2. CASE CloudConnects \/ CloseRead \/ WebsocketBreaks
    BY <2>2, <1>1 DEF CloudConnects, CloseRead, WebsocketBreaks, SimplyPrintOK, CloudOK, jobVars
  <2> QED BY <2>1, <2>2 DEF CloudLinkSteps
<1>3. SendFilesOK' /\ SetupOK'
  BY <1>1, OtherFilesKeep DEF SimplyPrintOK, SentForIt
<1> QED BY <1>1, <1>2, <1>3 DEF SimplyPrintOK

(* One task moves, and no setup is concerned. *)
LEMMA FilesKeepSetup ==
  ASSUME SimplyPrintOK, UNCHANGED setupVars,
         \A t \in Request : pc'[t] = "removing" => pc[t] = "removing"
  PROVE  SetupOK'
BY DEF SimplyPrintOK, SetupOK, setupVars

LEMMA SendingKeeps ==
  ASSUME SimplyPrintOK, NEW t \in Request,
         FileDemand(t) \/ Downloaded(t) \/ CanPrintChecked(t)
  PROVE  SimplyPrintOK'
<1>1. t \in Task /\ Request \subseteq Task /\ t # None
  BY HostConstants DEF Task
<1>2. /\ DOMAIN pc' = Task /\ UNCHANGED <<setupVars, pendingFile, timesStarted, jobVars, tellVars>>
      /\ \A s \in Task \ {t} : pc'[s] = pc[s]
  BY <1>1 DEF FileDemand, Downloaded, CanPrintChecked, Goes, SimplyPrintOK, KeepsTelling, sendFileVars
<1>3. CloudOK'
  BY <1>2, CloudRests DEF SimplyPrintOK
<1>4. pc'[t] # "removing"
  BY <1>1 DEF FileDemand, Downloaded, CanPrintChecked, Goes, SimplyPrintOK
<1>5. SetupOK'
  BY <1>1, <1>2, <1>4, FilesKeepSetup
<1>6. SendFilesOK'
  <2>1. CASE FileDemand(t)
    <3>1. t \notin demanded /\ demanded' = demanded \cup {t} /\ pc'[t] = "downloading"
      BY <1>1, <2>1 DEF FileDemand, Goes, SimplyPrintOK
    <3> QED BY <1>1, <1>2, <3>1 DEF SimplyPrintOK, SendFilesOK, SentFileOK, SentForIt
  <2>2. CASE Downloaded(t)
    <3>1. demanded' = demanded /\ SentForIt(t)
      BY <2>2 DEF Downloaded, sendFileVars, SentForIt
    <3> QED BY <1>1, <1>2, <3>1 DEF SimplyPrintOK, SendFilesOK, SentFileOK, SentForIt
  <2>3. CASE CanPrintChecked(t)
    <3>1. demanded' = demanded /\ pc'[t] \in {"idle", "waiting"}
      BY <1>1, <2>3 DEF CanPrintChecked, Goes, SimplyPrintOK, sendFileVars
    <3> QED BY <1>1, <1>2, <3>1 DEF SimplyPrintOK, SendFilesOK, SentFileOK, SentForIt
  <2> QED BY <2>1, <2>2, <2>3
<1> QED BY <1>2, <1>3, <1>5, <1>6 DEF SimplyPrintOK

LEMMA UploadFinalKeeps ==
  ASSUME SimplyPrintOK, NEW t \in Request, UploadFinal(t)
  PROVE  SimplyPrintOK'
<1>1. t \in Task /\ Request \subseteq Task /\ None \notin Request
  BY HostConstants DEF Task
<1>2. UNCHANGED <<setupVars, demanded>> /\ SentForIt(t)
  BY DEF UploadFinal, SentForIt
<1>3. CASE /\ PrintStarted([pc EXCEPT ![t] = "idle"])
           /\ CountsStart(t) /\ pendingFile' = None
  <2>1. /\ DOMAIN pc' = Task /\ pc'[t] = "idle"
        /\ \A s \in Task \ {t} : pc'[s] = pc[s]
    BY <1>1, <1>3 DEF PrintStarted, UpdatesState, SimplyPrintOK
  <2>2. CloudOK'
    BY <1>3, TellingKeeps, StateTold DEF SimplyPrintOK, PrintStarted
  <2>3. SendFilesOK'
    <3>1. timesStarted[t] = 0 /\ t \in demanded
      BY <1>2 DEF SimplyPrintOK, SendFilesOK, SentFileOK
    <3>2. /\ timesStarted' \in [Request -> Nat] /\ timesStarted'[t] = 1
          /\ \A s \in Request \ {t} : timesStarted'[s] = timesStarted[s]
      BY <1>3, <3>1 DEF SimplyPrintOK, SendFilesOK, CountsStart
    <3>3. SentFileOK(t)'
      BY <1>1, <1>2, <1>3, <2>1, <3>1, <3>2 DEF SentFileOK, SentForIt
    <3>4. ASSUME NEW s \in Request \ {t} PROVE SentFileOK(s)'
      <4>1. UNCHANGED <<pc[s], timesStarted[s], demanded>> /\ pendingFile' # s /\ SentFileOK(s)
        BY <1>1, <1>2, <1>3, <2>1, <3>2, <3>4 DEF SimplyPrintOK, SendFilesOK
      <4> QED BY <4>1 DEF SentFileOK, SentForIt
    <3> QED BY <1>3, <3>2, <3>3, <3>4 DEF SendFilesOK
  <2>4. SetupOK'
    BY <1>1, <1>2, <2>1, FilesKeepSetup
  <2> QED BY <2>1, <2>2, <2>3, <2>4 DEF SimplyPrintOK
<1>4. CASE /\ Goes(t, IF t \in autoStart THEN "waiting" ELSE "checking")
           /\ pendingFile' = t /\ KeepsTelling /\ UNCHANGED timesStarted
  <2>1. /\ DOMAIN pc' = Task /\ pc'[t] \in {"waiting", "checking"}
        /\ \A s \in Task \ {t} : pc'[s] = pc[s]
    BY <1>1, <1>4 DEF Goes, SimplyPrintOK
  <2>2. CloudOK'
    BY <1>4, CloudRests DEF SimplyPrintOK, KeepsTelling
  <2>3. SendFilesOK'
    BY <1>1, <1>2, <1>4, <2>1 DEF SimplyPrintOK, SendFilesOK, SentFileOK, SentForIt
  <2>4. SetupOK'
    BY <1>1, <1>2, <2>1, FilesKeepSetup
  <2> QED BY <2>1, <2>2, <2>3, <2>4 DEF SimplyPrintOK
<1> QED BY <1>3, <1>4 DEF UploadFinal

(* Who starts what is pending, or forgets it *)
LEMMA PendingTakenKeeps ==
  ASSUME SimplyPrintOK, NEW t \in Request \cup {"event"},
         WaitsNoMore(t) \/ (t = "event" /\ StartDemand)
  PROVE  SimplyPrintOK'
<1>1. t \in Task /\ Request \subseteq Task /\ None \notin Request /\ "event" \notin Request
  BY HostConstants DEF Task, Background
<1>2. /\ DOMAIN pc' = Task /\ UNCHANGED <<setupVars, demanded, jobVars, tellVars>>
      /\ \A s \in Task \ {t} : pc'[s] = pc[s]
      /\ pc'[t] \in {"idle", "starting"}
  BY <1>1 DEF WaitsNoMore, StartDemand, TakesPending, Goes, SimplyPrintOK, KeepsTelling
<1>3. CloudOK'
  BY <1>2, CloudRests DEF SimplyPrintOK
<1>4. SetupOK'
  BY <1>1, <1>2, FilesKeepSetup
<1>5. \/ UNCHANGED <<pendingFile, timesStarted>>
      \/ pendingFile' = None /\ UNCHANGED timesStarted
      \/ pendingFile # None /\ CountsStart(pendingFile) /\ pendingFile' = None
  BY DEF WaitsNoMore, StartDemand, TakesPending, AfterTaken
<1>6. SendFilesOK'
  BY <1>1, <1>2, <1>5 DEF SimplyPrintOK, SendFilesOK, SentFileOK, SentForIt, CountsStart
<1> QED BY <1>2, <1>3, <1>4, <1>6 DEF SimplyPrintOK

LEMMA StartAnsweredKeeps ==
  ASSUME SimplyPrintOK, NEW t \in Request \cup {"event"}, StartAnswered(t)
  PROVE  SimplyPrintOK'
<1>1. t \in Task /\ Request \subseteq Task
  BY DEF Task, Background
<1>2. UNCHANGED <<sendFileVars, setupVars>>
  BY DEF StartAnswered
<1>3. /\ DOMAIN pc' = Task /\ pc'[t] = "idle"
      /\ \A s \in Task \ {t} : pc'[s] = pc[s]
  BY <1>1 DEF StartAnswered, PrintStarted, UpdatesState, Goes, SimplyPrintOK
<1>4. CloudOK'
  BY TellingKeeps, StateTold, CloudRests DEF SimplyPrintOK, StartAnswered, PrintStarted, KeepsTelling
<1>5. SendFilesOK' /\ SetupOK'
  BY <1>1, <1>2, <1>3, OtherFilesKeep DEF SimplyPrintOK, SentForIt
<1> QED BY <1>3, <1>4, <1>5 DEF SimplyPrintOK

LEMMA SetupKeeps ==
  ASSUME SimplyPrintOK, NEW t \in Request, SetupMessage(t) \/ SetupTaken(t) \/ SetupShown(t)
  PROVE  SimplyPrintOK'
<1>1. t \in Task /\ Request \subseteq Task /\ t # None
  BY HostConstants DEF Task
<1>2. /\ DOMAIN pc' = Task /\ UNCHANGED <<sendFileVars, jobVars, tellVars>>
      /\ \A s \in Task \ {t} : pc'[s] = pc[s]
      /\ pc'[t] \in {"locking", "removing", "idle"}
  BY <1>1 DEF SetupMessage, SetupTaken, SetupShown, Goes, SimplyPrintOK, KeepsTelling
<1>3. CloudOK'
  BY <1>2, CloudRests DEF SimplyPrintOK
<1>4. SendFilesOK'
  BY <1>1, <1>2 DEF SimplyPrintOK, SendFilesOK, SentFileOK, SentForIt, sendFileVars
<1>5. SetupOK'
  <2>1. CASE SetupMessage(t)
    <3>1. pc'[t] = "locking" /\ UNCHANGED <<setupId, shownSetups, setupMutex>>
      BY <1>1, <2>1 DEF SetupMessage, Goes, SimplyPrintOK
    <3> QED BY <1>1, <1>2, <3>1 DEF SimplyPrintOK, SetupOK
  <2>2. CASE SetupTaken(t)
    <3>1. setupMutex = None /\ shownSetups \subseteq {setupId}
          /\ \A s \in Request : pc[s] # "removing"
      BY <1>1, <2>2, HostConstants DEF SetupTaken, MutexFree, SimplyPrintOK, SetupOK
    <3>2. CASE setupId = None
      <4>1. /\ pc'[t] = "idle" /\ setupMutex' = None
            /\ shownSetups' = (shownSetups \cup {setupId'}) \ {None}
        BY <1>1, <2>2, <3>1, <3>2 DEF SetupTaken, Goes, SimplyPrintOK
      <4> QED BY <1>1, <1>2, <3>1, <3>2, <4>1 DEF SetupOK
    <3>3. CASE setupId # None /\ setupId = setupWanted[t]
      BY <1>1, <1>2, <2>2, <3>1, <3>3 DEF SetupTaken, Goes, SimplyPrintOK, SetupOK, setupVars
    <3>4. CASE setupId # None /\ setupId # setupWanted[t]
      <4>1. /\ pc'[t] = "removing" /\ setupMutex' = t /\ shownSetups' = shownSetups \ {setupId}
        BY <1>1, <2>2, <3>4 DEF SetupTaken, Goes, SimplyPrintOK
      <4> QED BY <1>1, <1>2, <3>1, <4>1 DEF SetupOK
    <3> QED BY <3>2, <3>3, <3>4
  <2>3. CASE SetupShown(t)
    <3>1. setupMutex = t /\ shownSetups = {} /\ \A s \in Request \ {t} : pc[s] # "removing"
      BY <1>1, <2>3 DEF SetupShown, SimplyPrintOK, SetupOK
    <3>2. pc'[t] = "idle" /\ setupMutex' = None /\ shownSetups' \subseteq {setupId'}
      BY <1>1, <2>3, <3>1 DEF SetupShown, Goes, SimplyPrintOK
    <3> QED BY <1>1, <1>2, <3>1, <3>2 DEF SetupOK
  <2> QED BY <2>1, <2>2, <2>3
<1> QED BY <1>2, <1>3, <1>4, <1>5 DEF SimplyPrintOK

LEMMA SimplyPrintKeeps ==
  ASSUME SimplyPrintOK, SimplyPrintNext
  PROVE  SimplyPrintOK'
<1>1. Request \subseteq Request \cup {"event"} /\ "event" \in Request \cup {"event"}
  OBVIOUS
<1> QED BY <1>1, JobsKeep, DemandsKeep, LinkKeeps, SendingKeeps, UploadFinalKeeps, PendingTakenKeeps,
           StartAnsweredKeeps, SetupKeeps DEF SimplyPrintNext, CloudSteps
-----------------------------------------------------------------------------
(***************************************************************************)
(* Server: a stop that met a server that was up has it to itself.          *)
(***************************************************************************)
LaunchOK ==
  /\ process = "waiting" => pc["init"] = "idle"
  /\ pc["init"] # "idle" => process = "starting"
  /\ backup # "bad" /\ loaded # "bad"

(* One of the tasks that stop it is at work, or one is through. *)
Stopping == exitReason # None \/ \E t \in Stopper : pc[t] # "idle"
NotRunning(p) == parts[p] \in {"absent", "closed"}

StopOK(t) ==
  /\ pc[t] \in {"core", "optional", "finished"} => ~portOpen
  /\ pc[t] \in {"optional", "finished"} => NotRunning("core")
  /\ pc[t] = "finished" => NotRunning("optional")

LivesOK ==
  ~stopMetStart =>
    /\ Stopping => process = "waiting"
    /\ \A t \in Stopper : StopOK(t)
    /\ exitReason # None => ~portOpen /\ \A p \in Part : NotRunning(p)

ServerOK == DOMAIN pc = Task /\ DOMAIN parts = Part /\ LaunchOK /\ LivesOK

LEMMA StopperTasks ==
  Stopper \subseteq Task /\ "init" \in Task /\ "init" \notin Stopper
BY DEF Stopper, Task, Background

LEMMA ServerBegins ==
  ASSUME HostInit, ServerInit, component = "server"
  PROVE  ServerOK
<1>1. DOMAIN pc = Task /\ \A t \in Task : pc[t] = "idle"
  BY DEF HostInit
<1>2. backup # "bad" /\ loaded # "bad"
  BY ServerConstants DEF ServerInit, Among
<1> QED BY <1>1, <1>2, StopperTasks DEF ServerInit, ServerOK, LaunchOK, LivesOK, Stopping, StopOK

LEMMA ServerServes ==
  ASSUME ServerOK
  PROVE  ServerLeavesNothing /\ BackupHasWorked
BY DEF ServerOK, LaunchOK, LivesOK, NotRunning, ServerLeavesNothing, BackupHasWorked

(* No server: what the process begins, or ends, with. *)
LEMMA GoneKeeps ==
  ASSUME ServerOK, ServerGone, DOMAIN pc' = Task, backup' = backup,
         \A t \in Stopper : pc'[t] = "idle",
         process' \in {"none", "starting"}, pc'["init"] # "idle" => process' = "starting"
  PROVE  ServerOK'
<1>1. exitReason' = None /\ ~stopMetStart' /\ DOMAIN parts' = Part /\ loaded' # "bad"
  BY ServerConstants DEF ServerGone
<1> QED BY <1>1 DEF ServerOK, LaunchOK, LivesOK, Stopping, StopOK

LEMMA LifeEndsKeeps ==
  ASSUME ServerOK, WaitOver \/ Killed
  PROVE  ServerOK'
<1>1. DOMAIN pc' = Task /\ \A t \in Stopper : pc'[t] = "idle"
  BY StopperTasks DEF WaitOver, Killed
<1>2. process' \in {"none", "starting"} /\ (pc'["init"] # "idle" => process' = "starting")
  BY StopperTasks DEF WaitOver, Killed
<1> QED BY <1>1, <1>2, GoneKeeps DEF WaitOver, Killed, fileVars

(* A launch: it is not with one that stops what was up. *)
LEMMA LaunchKeeps ==
  ASSUME ServerOK, DOMAIN pc' = Task, DOMAIN parts' = Part,
         \A t \in Stopper : pc'[t] = pc[t],
         UNCHANGED <<exitReason, stopMetStart>>, process # "waiting",
         process' = "waiting" => pc'["init"] = "idle",
         pc'["init"] # "idle" => process' = "starting",
         backup' # "bad", loaded' # "bad"
  PROVE  ServerOK'
<1>1. ~stopMetStart => ~Stopping
  BY DEF ServerOK, LivesOK
<1>2. LivesOK'
  BY <1>1 DEF LivesOK, Stopping, StopOK
<1> QED BY <1>2 DEF ServerOK, LaunchOK

LEMMA LaunchStepsKeep ==
  ASSUME ServerOK, MainStarts \/ (LaunchSteps /\ ~WaitOver)
  PROVE  ServerOK'
<1>1. process # "waiting" /\ backup # "bad" /\ loaded # "bad"
  BY DEF ServerOK, LaunchOK, MainStarts, LaunchSteps, Launch, PartInitialized, BackupBegins,
         BackupWritten, Validated, StartServer
<1>2. DOMAIN pc' = Task /\ \A t \in Stopper : pc'[t] = pc[t]
  BY StopperTasks DEF ServerOK, MainStarts, LaunchSteps, Launch, PartInitialized, BackupBegins,
         BackupWritten, Validated, StartServer, Goes
<1>3. UNCHANGED <<exitReason, stopMetStart>>
  BY DEF MainStarts, LaunchSteps, Launch, PartInitialized, BackupBegins,
         BackupWritten, Validated, StartServer, lifeVars
<1>4. DOMAIN parts' = Part
  BY DEF ServerOK, MainStarts, LaunchSteps, Launch, LoadedParts, PartInitialized, BackupBegins,
         BackupWritten, Validated, StartServer, lifeVars, Part
<1>5. backup' # "bad" /\ loaded' # "bad"
  BY <1>1, ServerConstants DEF MainStarts, LaunchSteps, Launch, Parsed, PartInitialized, BackupBegins,
         BackupWritten, BackupContent, Validated, StartServer, lifeVars, fileVars
<1>6. /\ process' = "waiting" => pc'["init"] = "idle"
      /\ pc'["init"] # "idle" => process' = "starting"
  <2>1. CASE MainStarts
    BY <2>1, StopperTasks DEF MainStarts, Goes, ServerOK
  <2>2. CASE LaunchSteps /\ ~WaitOver
    <3>1. pc["init"] # "idle" /\ process = "starting"
      BY <2>2 DEF LaunchSteps, Launch, PartInitialized, BackupBegins,
         BackupWritten, Validated, StartServer, ServerOK, LaunchOK
    <3>2. CASE Launch
      BY <3>1, <3>2, StopperTasks DEF Launch, Goes, ServerOK, launchVars
    <3>3. CASE PartInitialized("core", "optional") \/ PartInitialized("optional", "backup")
      BY <3>1, <3>3, StopperTasks DEF PartInitialized, Goes, ServerOK, launchVars
    <3>4. CASE BackupBegins \/ BackupWritten \/ Validated \/ StartServer
      BY <3>1, <3>4, StopperTasks DEF BackupBegins, BackupWritten, Validated, StartServer, Goes, ServerOK, launchVars
    <3> QED BY <2>2, <3>2, <3>3, <3>4 DEF LaunchSteps
  <2> QED BY <2>1, <2>2
<1> QED BY <1>1, <1>2, <1>3, <1>4, <1>5, <1>6, LaunchKeeps

LEMMA StopKeeps ==
  ASSUME ServerOK, NEW t \in Stopper, StopAsked(t) \/ StopSteps(t)
  PROVE  ServerOK'
<1>1. /\ DOMAIN pc' = Task /\ pc'["init"] = pc["init"]
      /\ \A s \in Stopper \ {t} : pc'[s] = pc[s]
  BY StopperTasks DEF ServerOK, StopAsked, StopSteps, AppClosed, PartClosed, StopEnds, Goes
<1>2. UNCHANGED <<process, backup, loaded>>
  BY DEF StopAsked, StopSteps, AppClosed, PartClosed, StopEnds, fileVars, launchVars
<1>3. LaunchOK'
  BY <1>1, <1>2 DEF ServerOK, LaunchOK
<1>4. DOMAIN parts' = Part
  BY DEF ServerOK, StopAsked, StopSteps, AppClosed, PartClosed, StopEnds
<1>5. LivesOK'
  <2> SUFFICES ASSUME ~stopMetStart' PROVE LivesOK'
    BY DEF LivesOK
  <2>1. ~stopMetStart /\ process = "waiting" /\ process' = "waiting"
    <3>1. CASE StopAsked(t)
      BY <1>2, <3>1 DEF StopAsked, ServerOK, LivesOK
    <3>2. CASE StopSteps(t)
      <4>1. pc[t] # "idle" /\ stopMetStart' = stopMetStart
        BY <3>2 DEF StopSteps, AppClosed, PartClosed, StopEnds, Part
      <4> QED BY <1>2, <4>1 DEF ServerOK, LivesOK, Stopping
    <3> QED BY <3>1, <3>2
  <2>2. \A s \in Stopper : StopOK(s)
    BY <2>1 DEF ServerOK, LivesOK
  <2>3. exitReason # None => ~portOpen /\ \A p \in Part : NotRunning(p)
    BY <2>1 DEF ServerOK, LivesOK
  <2>4. CASE StopAsked(t)
    <3>1. UNCHANGED <<portOpen, parts, exitReason>> /\ pc'[t] = "exiting"
      BY <2>4, StopperTasks DEF StopAsked, Goes, ServerOK
    <3> QED BY <1>1, <2>1, <2>2, <2>3, <3>1 DEF LivesOK, StopOK, NotRunning
  <2>5. CASE AppClosed(t)
    <3>1. UNCHANGED <<parts, exitReason>> /\ ~portOpen' /\ pc'[t] = "core"
      BY <2>5, StopperTasks DEF AppClosed, Goes, ServerOK
    <3> QED BY <1>1, <2>1, <2>2, <2>3, <3>1 DEF LivesOK, StopOK, NotRunning
  <2>6. ASSUME NEW p \in Part, PartClosed(t, p) PROVE LivesOK'
    <3>1. /\ UNCHANGED <<portOpen, exitReason>> /\ pc[t] = p
          /\ pc'[t] = IF p = "optional" THEN "finished" ELSE "optional"
          /\ parts' = [parts EXCEPT ![p] = IF @ = "absent" THEN @ ELSE "closed"]
      BY <2>6, StopperTasks DEF PartClosed, Goes, NextToClose, ServerOK
    <3>2. NotRunning(p)' /\ \A q \in Part : NotRunning(q) => NotRunning(q)'
      BY <3>1 DEF NotRunning, ServerOK
    <3>3. ~portOpen' /\ (p = "optional" => NotRunning("core")) /\ Part = {"core", "optional"}
      BY <2>2, <3>1 DEF StopOK, Part
    <3>4. ASSUME NEW s \in Stopper PROVE StopOK(s)'
      BY <1>1, <2>2, <3>1, <3>2, <3>3 DEF StopOK
    <3> QED BY <2>1, <2>3, <3>1, <3>2, <3>4 DEF LivesOK
  <2>7. CASE StopEnds(t)
    <3>1. UNCHANGED <<portOpen, parts>> /\ pc'[t] = "idle" /\ pc[t] = "finished"
      BY <2>7, StopperTasks DEF StopEnds, Goes, ServerOK
    <3>2. ~portOpen /\ \A p \in Part : NotRunning(p)
      BY <2>2, <3>1 DEF StopOK, Part
    <3> QED BY <1>1, <2>1, <2>2, <3>1, <3>2 DEF LivesOK, StopOK, NotRunning
  <2> QED BY <2>4, <2>5, <2>6, <2>7 DEF StopSteps
<1> QED BY <1>1, <1>3, <1>4, <1>5 DEF ServerOK

LEMMA ServerKeeps ==
  ASSUME ServerOK, ServerNext
  PROVE  ServerOK'
<1>1. CASE ConfEdited
  BY <1>1 DEF ConfEdited, launchVars, lifeVars, ServerOK, LaunchOK, LivesOK, Stopping, StopOK, NotRunning
<1> QED BY <1>1, LifeEndsKeeps, LaunchStepsKeep, StopKeeps DEF ServerNext, LaunchSteps
-----------------------------------------------------------------------------
(***************************************************************************)
(* Services: who acts on Moonraker's own unit does not know it, and what is  *)
(* recorded of a service it listens to is its last signal away from true.      *)
(***************************************************************************)
SomethingSeen == \E s \in Service : svcSeen[s] # None

ServiceTypes ==
  /\ DOMAIN pc = Task
  /\ svcReal \in [Service -> ActiveState \cup {"absent"}]
  /\ svcTold = svcSeen /\ DOMAIN svcSeen = Service
  /\ svcHeard \subseteq Service
  /\ svcSignals \in Seq([service : Service, state : ActiveState])
  /\ DOMAIN svcAsked = Request

ActsOK(t) ==
  pc[t] # "idle" =>
    /\ pc["init"] = "idle" /\ SomethingSeen
    /\ svcAsked[t].action = "stop" /\ svcAsked[t].service = ownUnit => unitName = None

OwnUnitOK ==
  /\ unitName \in {None, ownUnit}
  /\ \A t \in Request : ActsOK(t)
  /\ ownStopped => pc["init"] = "idle" /\ SomethingSeen /\ unitName = None
  /\ pc["timer"] \in {"idle", "polling"}
  /\ pc["timer"] = "polling" =>
       /\ SomethingSeen /\ provider # "systemd_dbus"
       /\ polled \in [Service -> ActiveState \cup {"absent"}]

(* The last signal on its way of a service, or its record, says what it is. *)
SaysLast(s) ==
  IF \E i \in 1..Len(svcSignals) : svcSignals[i].service = s
  THEN \E i \in 1..Len(svcSignals) :
         /\ svcSignals[i].service = s /\ svcSignals[i].state = svcReal[s]
         /\ \A j \in i + 1..Len(svcSignals) : svcSignals[j].service # s
  ELSE svcSeen[s] = svcReal[s]

Listens == pc["init"] = "listen"

HearsOK ==
  /\ \A i \in 1..Len(svcSignals) : svcSignals[i].service \in svcHeard
  /\ \A s \in svcHeard : svcSeen[s] # None
  /\ Listens => \A s \in svcListed \cap Service : svcSeen[s] # None
  /\ pc["init"] \in {"list", "listen"} => svcListed \cap svcHeard = {} /\ svcListed \subseteq Service
  /\ pc["init"] = "list" => \A s \in Service : svcSeen[s] = None
  /\ busUp /\ Listens => \A s \in svcListed \ svcMissed : svcSeen[s] = svcReal[s]
  /\ busUp => \A s \in svcHeard \ svcMissed : SaysLast(s)
  /\ pc["init"] \notin {"list", "listen"} => svcListed = {}
  /\ provider # "systemd_dbus" => svcHeard = {} /\ pc["init"] \notin {"list", "listen"}

ServicesOK == ServiceTypes /\ OwnUnitOK /\ HearsOK

LEMMA ServicesBegin ==
  ASSUME HostInit, ServicesInit, component = "services"
  PROVE  ServicesOK
<1>1. /\ DOMAIN pc = Task /\ \A t \in Task : pc[t] = "idle"
      /\ Request \subseteq Task /\ "init" \in Task /\ "timer" \in Task
  BY DEF HostInit, Task, Background
<1>2. ServiceTypes
  BY <1>1 DEF ServiceTypes, ServicesInit, ActiveState
<1>3. OwnUnitOK
  BY <1>1 DEF OwnUnitOK, ActsOK, ServicesInit
<1>4. HearsOK
  BY <1>1 DEF HearsOK, Listens, ServicesInit
<1> QED BY <1>2, <1>3, <1>4 DEF ServicesOK

LEMMA ServicesServe ==
  ASSUME ServicesOK
  PROVE  NeverStopsItself /\ ServicesAreKnown
<1>1. NeverStopsItself
  BY DEF ServicesOK, OwnUnitOK, NeverStopsItself
<1>2. ServicesAreKnown
  <2>1. svcTold = svcSeen
    BY DEF ServicesOK, ServiceTypes
  <2>2. ASSUME busUp, svcSignals = <<>>, NEW s \in svcHeard \ svcMissed PROVE svcSeen[s] = svcReal[s]
    BY <2>2 DEF ServicesOK, HearsOK, SaysLast
  <2> QED BY <2>1, <2>2 DEF ServicesAreKnown
<1> QED BY <1>1, <1>2

LEMMA ServiceTasks ==
  /\ Request \subseteq Task /\ "init" \in Task /\ "timer" \in Task
  /\ "init" \notin Request /\ "timer" \notin Request
BY HostConstants DEF Task, Background

(* What listening needs of the record, the signals and the services. *)
LEMMA HearingSame ==
  ASSUME HearsOK, busUp' => busUp, pc'["init"] = pc["init"],
         UNCHANGED <<svcReal, svcSeen, svcListed, svcHeard, svcMissed, provider>>,
         svcSignals' = svcSignals \/ (~busUp' /\ svcSignals' = <<>>)
  PROVE  HearsOK'
<1>1. \A s : busUp' => (SaysLast(s)' <=> SaysLast(s))
  BY DEF SaysLast
<1> QED BY <1>1 DEF HearsOK, Listens

LEMMA ServicesStartKeeps ==
  ASSUME ServicesOK, ServicesStart
  PROVE  ServicesOK'
<1>1. /\ ~SomethingSeen /\ DOMAIN svcSeen = Service
      /\ \A t \in Request : pc[t] = "idle"
      /\ pc["timer"] = "idle" /\ ~ownStopped
  BY DEF ServicesStart, SomethingSeen, ServicesOK, ServiceTypes, OwnUnitOK, Idle
<1>2. svcHeard = {} /\ svcSignals = <<>> /\ svcListed = {}
  <2>1. svcHeard = {} /\ svcListed = {}
    BY <1>1 DEF ServicesOK, ServiceTypes, HearsOK, SomethingSeen, ServicesStart
  <2>2. svcSignals \in Seq([service : Service, state : ActiveState])
    BY DEF ServicesOK, ServiceTypes
  <2>3. \A i \in 1..Len(svcSignals) : FALSE
    BY <2>1 DEF ServicesOK, HearsOK
  <2> QED BY <2>1, <2>2, <2>3
<1>3. /\ DOMAIN pc' = Task /\ pc'["init"] \in {"who", "list"}
      /\ \A t \in Task \ {"init"} : pc'[t] = pc[t]
  BY ServiceTasks DEF ServicesStart, Goes, ServicesOK, ServiceTypes
<1>4. UNCHANGED <<svcReal, svcSignals, svcHeard, polled, unitName, svcMissed, ownStopped, svcAsked, ownUnit, provider>>
  BY DEF ServicesStart, SvcRests
<1>5. DOMAIN svcSeen' = Service /\ svcTold' = svcSeen'
  BY DEF ServicesStart, ServicesOK, ServiceTypes
<1>6. ServiceTypes'
  BY <1>3, <1>4, <1>5 DEF ServicesOK, ServiceTypes
<1>7. OwnUnitOK'
  BY <1>1, <1>3, <1>4, ServiceTasks DEF ServicesOK, OwnUnitOK, ActsOK
<1>8. HearsOK'
  <2>1. CASE pc'["init"] = "who"
    <3>1. svcListed' = {}
      BY <1>2, <2>1, ServiceTasks DEF ServicesStart, Goes, ServicesOK, ServiceTypes
    <3> QED BY <1>2, <1>4, <2>1, <3>1 DEF HearsOK, Listens
  <2>2. CASE pc'["init"] = "list"
    <3>1. svcListed' = Installed /\ svcSeen' = svcSeen /\ provider = "systemd_dbus"
      BY <2>2, ServiceTasks DEF ServicesStart, Goes, ServicesOK, ServiceTypes
    <3>2. Installed \subseteq Service
      BY DEF Installed
    <3> QED BY <1>1, <1>2, <1>4, <2>2, <3>1, <3>2 DEF HearsOK, Listens, SomethingSeen
  <2> QED BY <1>3, <2>1, <2>2
<1> QED BY <1>6, <1>7, <1>8 DEF ServicesOK

LEMMA ListingKeeps ==
  ASSUME ServicesOK, UnitListed \/ UnitHeard \/ OwnUnitFound
  PROVE  ServicesOK'
<1>1. /\ pc["init"] \in {"list", "listen", "who"}
      /\ \A t \in Request : pc[t] = "idle"
      /\ ~ownStopped
  BY DEF UnitListed, UnitHeard, OwnUnitFound, ServicesOK, OwnUnitOK, ActsOK
<1>2. /\ DOMAIN pc' = Task /\ \A t \in Task \ {"init"} : pc'[t] = pc[t]
  BY ServiceTasks DEF UnitListed, UnitHeard, OwnUnitFound, Goes, ServicesOK, ServiceTypes
<1>3. UNCHANGED <<svcReal, svcSignals, busUp, polled, svcMissed, ownStopped, svcAsked, ownUnit, provider>>
  BY DEF UnitListed, UnitHeard, OwnUnitFound, SvcRests
<1>4. /\ svcTold' = svcSeen' /\ DOMAIN svcSeen' = Service
      /\ \A s \in Service : svcSeen[s] # None => svcSeen'[s] # None
  BY DEF UnitListed, UnitHeard, OwnUnitFound, ServicesOK, ServiceTypes, HearsOK
<1>5. ServiceTypes'
  BY <1>2, <1>3, <1>4 DEF UnitListed, UnitHeard, OwnUnitFound, ServicesOK, ServiceTypes, HearsOK
<1>6. OwnUnitOK'
  BY <1>1, <1>2, <1>3, <1>4, ServiceTasks
     DEF UnitListed, UnitHeard, OwnUnitFound, ServicesOK, OwnUnitOK, ActsOK, SomethingSeen
<1>7. HearsOK'
  <2>1. CASE UnitListed
    <3>1. /\ svcHeard = {} /\ svcHeard' = {} /\ svcListed' = svcListed /\ svcListed \subseteq Installed
          /\ pc'["init"] = "listen" /\ provider = "systemd_dbus"
          /\ svcSeen' = [s \in Service |-> IF s \in svcListed THEN svcReal[s] ELSE None]
      BY <2>1, ServiceTasks DEF UnitListed, Goes, ServicesOK, ServiceTypes, HearsOK
    <3>2. \A s \in svcListed : s \in Service /\ svcReal[s] # None /\ svcSeen'[s] = svcReal[s]
      BY <3>1, ServiceConstants DEF Installed, ServicesOK, ServiceTypes
    <3>3. \A i \in 1..Len(svcSignals) : FALSE
      BY <3>1 DEF ServicesOK, HearsOK
    <3> QED BY <1>3, <3>1, <3>2, <3>3 DEF HearsOK, Listens
  <2>2. CASE UnitHeard /\ svcListed = {}
    <3>1. UNCHANGED <<svcHeard, svcListed, svcSeen>> /\ pc'["init"] = "who"
      BY <2>2, ServiceTasks DEF UnitHeard, Goes, ServicesOK, ServiceTypes
    <3>2. \A s : SaysLast(s)' <=> SaysLast(s)
      BY <1>3, <3>1 DEF SaysLast
    <3> QED BY <1>3, <2>2, <3>1, <3>2 DEF ServicesOK, HearsOK, Listens
  <2>3. CASE UnitHeard /\ svcListed # {}
    <3>1. PICK s \in svcListed : svcHeard' = svcHeard \cup {s} /\ svcListed' = svcListed \ {s} /\ UNCHANGED pc
      BY <2>3 DEF UnitHeard
    <3>2. /\ svcSeen' = svcSeen /\ s \in Service /\ s \notin svcHeard /\ Listens /\ svcSeen[s] # None
          /\ \A i \in 1..Len(svcSignals) : svcSignals[i].service # s
      BY <2>3, <3>1 DEF UnitHeard, ServicesOK, HearsOK, Listens
    <3>3. \A x : SaysLast(x)' <=> SaysLast(x)
      BY <1>3, <3>2 DEF SaysLast
    <3>4. busUp /\ s \notin svcMissed => SaysLast(s)
      BY <3>1, <3>2 DEF SaysLast, ServicesOK, HearsOK
    <3>5. pc'["init"] = "listen" /\ pc["init"] = "listen"
      BY <3>1, <3>2 DEF Listens
    <3> QED BY <1>3, <3>1, <3>2, <3>3, <3>4, <3>5 DEF ServicesOK, HearsOK, Listens
  <2>4. CASE OwnUnitFound
    <3>1. UNCHANGED <<svcHeard, svcListed, svcSeen>> /\ pc'["init"] = "idle" /\ pc["init"] = "who"
      BY <2>4, ServiceTasks DEF OwnUnitFound, Goes, ServicesOK, ServiceTypes
    <3>2. \A s : SaysLast(s)' <=> SaysLast(s)
      BY <1>3, <3>1 DEF SaysLast
    <3> QED BY <1>3, <3>1, <3>2 DEF ServicesOK, HearsOK, Listens
  <2> QED BY <2>1, <2>2, <2>3, <2>4
<1> QED BY <1>5, <1>6, <1>7 DEF ServicesOK

(* A service that becomes something else, by itself or for a request. *)
LEMMA BecomesKeeps ==
  ASSUME ServicesOK, NEW s \in Installed, NEW state \in ActiveState, Becomes(s, state),
         UNCHANGED <<svcSeen, svcListed, svcHeard, busUp, provider>>, pc'["init"] = pc["init"]
  PROVE  /\ HearsOK' /\ svcReal' \in [Service -> ActiveState \cup {"absent"}]
         /\ svcSignals' \in Seq([service : Service, state : ActiveState])
<1>1. /\ s \in Service /\ svcReal' = [svcReal EXCEPT ![s] = state]
      /\ svcReal \in [Service -> ActiveState \cup {"absent"}]
      /\ svcSignals \in Seq([service : Service, state : ActiveState])
      /\ svcHeard \subseteq Service
  BY DEF Installed, Becomes, ServicesOK, ServiceTypes
<1>2. svcReal' \in [Service -> ActiveState \cup {"absent"}] /\ svcReal'[s] = state
  BY <1>1
<1>3. CASE busUp /\ s \in svcHeard
  <2> DEFINE m == [service |-> s, state |-> state]
  <2>1. svcSignals' = Append(svcSignals, m) /\ m \in [service : Service, state : ActiveState]
    BY <1>1, <1>2, <1>3 DEF Becomes, SignalsOf
  <2>2. /\ svcSignals' \in Seq([service : Service, state : ActiveState])
        /\ Len(svcSignals') = Len(svcSignals) + 1 /\ svcSignals'[Len(svcSignals')] = m
        /\ \A i \in 1..Len(svcSignals) : svcSignals'[i] = svcSignals[i]
        /\ Len(svcSignals) \in Nat
    BY <1>1, <2>1
  <2>3. s \notin svcListed \/ pc["init"] \notin {"list", "listen"}
    BY <1>3 DEF ServicesOK, HearsOK
  <2>4. svcMissed \subseteq svcMissed'
    BY DEF Becomes
  <2>5. SaysLast(s)'
    BY <1>2, <2>2 DEF SaysLast
  <2>6. ASSUME NEW x \in svcHeard \ svcMissed, x # s PROVE SaysLast(x)'
    <3>1. SaysLast(x) /\ svcReal'[x] = svcReal[x]
      BY <1>1, <1>3, <2>6 DEF ServicesOK, HearsOK
    <3>2. CASE \E i \in 1..Len(svcSignals) : svcSignals[i].service = x
      <4>1. PICK i \in 1..Len(svcSignals) :
              /\ svcSignals[i].service = x /\ svcSignals[i].state = svcReal[x]
              /\ \A j \in i + 1..Len(svcSignals) : svcSignals[j].service # x
        BY <3>1, <3>2 DEF SaysLast
      <4>2. i \in 1..Len(svcSignals') /\ svcSignals'[i] = svcSignals[i]
        BY <2>2
      <4>3. \A j \in i + 1..Len(svcSignals') : svcSignals'[j].service # x
        BY <2>2, <2>6, <4>1
      <4> QED BY <3>1, <4>1, <4>2, <4>3 DEF SaysLast
    <3>3. CASE ~\E i \in 1..Len(svcSignals) : svcSignals[i].service = x
      <4>1. ~\E i \in 1..Len(svcSignals') : svcSignals'[i].service = x
        BY <2>2, <2>6, <3>3
      <4> QED BY <3>1, <3>3, <4>1 DEF SaysLast
    <3> QED BY <3>2, <3>3
  <2>7. \A i \in 1..Len(svcSignals') : svcSignals'[i].service \in svcHeard
    BY <1>3, <2>2 DEF ServicesOK, HearsOK
  <2>8. \A x \in svcListed \ svcMissed' : pc["init"] \in {"list", "listen"} => svcReal'[x] = svcReal[x]
    BY <1>1, <2>3 DEF ServicesOK, HearsOK
  <2> HIDE DEF m
  <2> QED BY <1>2, <2>2, <2>4, <2>5, <2>6, <2>7, <2>8 DEF ServicesOK, HearsOK, Listens
<1>4. CASE ~(busUp /\ s \in svcHeard)
  <2>1. svcSignals' = svcSignals
    BY <1>4 DEF Becomes, SignalsOf
  <2>2. ASSUME busUp, NEW x \in svcHeard \ svcMissed PROVE SaysLast(x)'
    <3>1. SaysLast(x) /\ svcReal'[x] = svcReal[x]
      BY <1>1, <1>4, <2>2 DEF ServicesOK, HearsOK
    <3> QED BY <2>1, <3>1 DEF SaysLast
  <2>3. svcMissed \subseteq svcMissed'
    BY DEF Becomes
  <2>4. ASSUME Listens, NEW x \in svcListed \ svcMissed' PROVE svcReal'[x] = svcReal[x]
    <3>1. svcSeen[x] # None /\ x \in Service
      BY <2>4 DEF ServicesOK, HearsOK, Listens
    <3> QED BY <1>1, <2>4, <3>1 DEF Becomes
  <2> QED BY <1>1, <1>2, <2>1, <2>2, <2>3, <2>4 DEF ServicesOK, HearsOK, Listens
<1> QED BY <1>2, <1>3, <1>4

LEMMA SignalKeeps ==
  ASSUME ServicesOK, SignalCame
  PROVE  ServicesOK'
<1> DEFINE m == Head(svcSignals)
<1>1. /\ svcSignals # <<>> /\ svcSignals' = Tail(svcSignals)
      /\ svcSeen' = [svcSeen EXCEPT ![m.service] = m.state] /\ svcSeen[m.service] # None
      /\ UNCHANGED <<pc, svcReal, svcListed, svcHeard, busUp, polled, unitName, svcMissed, ownStopped,
                     svcAsked, ownUnit, provider>>
      /\ svcTold' = svcSeen'
  BY DEF SignalCame, SvcRests, SvcNotified, ServicesOK, ServiceTypes
<1>2. svcSignals \in Seq([service : Service, state : ActiveState]) /\ DOMAIN svcSeen = Service
  BY DEF ServicesOK, ServiceTypes
<1>3. /\ Len(svcSignals) \in Nat \ {0} /\ m = svcSignals[1] /\ m \in [service : Service, state : ActiveState]
      /\ svcSignals' \in Seq([service : Service, state : ActiveState])
      /\ Len(svcSignals') = Len(svcSignals) - 1
      /\ \A i \in 1..Len(svcSignals') : svcSignals'[i] = svcSignals[i + 1]
  <2>1. ASSUME NEW S, svcSignals \in Seq(S)
        PROVE  /\ Len(svcSignals) \in Nat \ {0} /\ m = svcSignals[1] /\ m \in S
               /\ svcSignals' \in Seq(S) /\ Len(svcSignals') = Len(svcSignals) - 1
               /\ \A i \in 1..Len(svcSignals') : svcSignals'[i] = svcSignals[i + 1]
    BY <1>1, <2>1
  <2> QED BY <1>2, <2>1
<1>4. m.service \in Service /\ m.state # None /\ m.service \in svcHeard
  BY <1>3, ServiceConstants DEF ServicesOK, HearsOK
<1>5. /\ DOMAIN svcSeen' = Service /\ svcSeen'[m.service] = m.state
      /\ \A s \in Service \ {m.service} : svcSeen'[s] = svcSeen[s]
  BY <1>1, <1>2, <1>4
<1> HIDE DEF m
<1>6. \A s \in Service : svcSeen[s] # None => svcSeen'[s] # None
  BY <1>4, <1>5
<1>7. ServiceTypes'
  BY <1>1, <1>3, <1>5 DEF ServicesOK, ServiceTypes
<1>8. OwnUnitOK'
  BY <1>1, <1>6 DEF ServicesOK, OwnUnitOK, ActsOK, SomethingSeen
<1>9. ASSUME NEW s \in svcHeard \ svcMissed, SaysLast(s) PROVE SaysLast(s)'
  <2>0. s \in Service
    BY DEF ServicesOK, ServiceTypes
  <2>1. CASE \E i \in 1..Len(svcSignals) : svcSignals[i].service = s
    <3>1. PICK i \in 1..Len(svcSignals) :
            /\ svcSignals[i].service = s /\ svcSignals[i].state = svcReal[s]
            /\ \A j \in i + 1..Len(svcSignals) : svcSignals[j].service # s
      BY <1>9, <2>1 DEF SaysLast
    <3>2. CASE i = 1
      <4>1. ~\E k \in 1..Len(svcSignals') : svcSignals'[k].service = s
        BY <1>3, <3>1, <3>2
      <4> QED BY <1>1, <1>3, <1>5, <3>1, <3>2, <4>1 DEF SaysLast
    <3>3. CASE i # 1
      <4>1. /\ i - 1 \in 1..Len(svcSignals') /\ svcSignals'[i - 1] = svcSignals[i]
            /\ \A j \in (i - 1) + 1..Len(svcSignals') : svcSignals'[j].service # s
        <5>1. i - 1 \in 1..Len(svcSignals') /\ svcSignals'[i - 1] = svcSignals[i]
          BY <1>3, <3>1, <3>3
        <5>2. ASSUME NEW j \in (i - 1) + 1..Len(svcSignals') PROVE svcSignals'[j].service # s
          <6>1. j + 1 \in i + 1..Len(svcSignals) /\ svcSignals'[j] = svcSignals[j + 1]
            BY <1>3, <3>1, <3>3, <5>2
          <6> QED BY <3>1, <6>1
        <5> QED BY <5>1, <5>2
      <4> QED BY <1>1, <3>1, <4>1 DEF SaysLast
    <3> QED BY <3>2, <3>3
  <2>2. CASE ~\E i \in 1..Len(svcSignals) : svcSignals[i].service = s
    <3>1. ~\E k \in 1..Len(svcSignals') : svcSignals'[k].service = s
      BY <1>3, <2>2
    <3>2. s # m.service
      BY <1>3, <2>2
    <3> QED BY <1>1, <1>5, <1>9, <2>0, <2>2, <3>1, <3>2 DEF SaysLast
  <2> QED BY <2>1, <2>2
<1>10. HearsOK'
  <2>1. \A i \in 1..Len(svcSignals') : svcSignals'[i].service \in svcHeard
    BY <1>3 DEF ServicesOK, HearsOK
  <2>2. pc["init"] \in {"list", "listen"} => m.service \notin svcListed
    BY <1>4 DEF ServicesOK, HearsOK
  <2>3. pc["init"] # "list"
    BY <1>4 DEF ServicesOK, HearsOK
  <2>4. svcHeard \subseteq Service
    BY DEF ServicesOK, ServiceTypes
  <2> QED BY <1>1, <1>5, <1>6, <1>9, <2>1, <2>2, <2>3, <2>4 DEF ServicesOK, HearsOK, Listens
<1> QED BY <1>7, <1>8, <1>10 DEF ServicesOK

LEMMA PollsKeep ==
  ASSUME ServicesOK, BusLost \/ Polls \/ PollRead
  PROVE  ServicesOK'
<1>1. /\ UNCHANGED <<svcReal, svcListed, svcHeard, unitName, svcMissed, ownStopped, svcAsked, ownUnit, provider>>
      /\ busUp' => busUp
  BY DEF BusLost, Polls, PollRead, SvcRests
<1>2. /\ DOMAIN pc' = Task /\ \A t \in Task \ {"timer"} : pc'[t] = pc[t]
  BY ServiceTasks DEF BusLost, Polls, PollRead, Goes, ServicesOK, ServiceTypes
<1>3. CASE BusLost
  <2>1. UNCHANGED <<pc, svcSeen, svcTold, polled>> /\ svcSignals' = <<>> /\ ~busUp'
    BY <1>3 DEF BusLost
  <2>2. ServiceTypes' /\ OwnUnitOK'
    BY <1>1, <1>2, <2>1 DEF ServicesOK, ServiceTypes, OwnUnitOK, ActsOK, SomethingSeen
  <2>3. HearsOK'
    BY <1>1, <2>1, HearingSame DEF ServicesOK
  <2> QED BY <2>2, <2>3 DEF ServicesOK
<1>4. CASE Polls
  <2>1. /\ UNCHANGED <<svcSeen, svcTold, svcSignals, busUp>> /\ polled' = svcReal
        /\ pc'["timer"] = "polling" /\ SomethingSeen /\ provider # "systemd_dbus"
    BY <1>4, ServiceTasks DEF Polls, Goes, SomethingSeen, ServicesOK, ServiceTypes
  <2>2. ServiceTypes'
    BY <1>1, <1>2, <2>1 DEF ServicesOK, ServiceTypes
  <2>3. OwnUnitOK'
    BY <1>1, <1>2, <2>1, <2>2, ServiceTasks DEF ServicesOK, ServiceTypes, OwnUnitOK, ActsOK, SomethingSeen
  <2>4. HearsOK'
    BY <1>1, <1>2, <2>1, ServiceTasks, HearingSame DEF ServicesOK
  <2> QED BY <2>2, <2>3, <2>4 DEF ServicesOK
<1>5. CASE PollRead
  <2>1. /\ UNCHANGED <<svcSignals, busUp>> /\ pc'["timer"] = "idle"
        /\ polled \in [Service -> ActiveState \cup {"absent"}]
    BY <1>5, ServiceTasks DEF PollRead, Goes, ServicesOK, ServiceTypes, OwnUnitOK
  <2>2. CASE UNCHANGED <<svcSeen, svcTold>>
    <3>1. ServiceTypes' /\ OwnUnitOK'
      BY <1>1, <1>2, <2>1, <2>2, ServiceTasks DEF ServicesOK, ServiceTypes, OwnUnitOK, ActsOK, SomethingSeen
    <3>2. HearsOK'
      BY <1>1, <1>2, <2>1, <2>2, ServiceTasks, HearingSame DEF ServicesOK
    <3> QED BY <3>1, <3>2 DEF ServicesOK
  <2>3. CASE svcTold' = svcSeen' /\ svcSeen' = [s \in Service |-> IF svcSeen[s] = None THEN None ELSE polled[s]]
    <3>1. \A s \in Service : svcSeen'[s] = None <=> svcSeen[s] = None
      BY <2>1, <2>3, ServiceConstants
    <3>2. ServiceTypes'
      BY <1>1, <1>2, <2>1, <2>3 DEF ServicesOK, ServiceTypes
    <3>3. OwnUnitOK'
      BY <1>1, <1>2, <2>1, <3>1, ServiceTasks DEF ServicesOK, OwnUnitOK, ActsOK, SomethingSeen
    <3>4. HearsOK'
      <4>1. svcHeard = {} /\ pc["init"] \notin {"list", "listen"}
        BY <1>5 DEF PollRead, ServicesOK, OwnUnitOK, HearsOK
      <4> QED BY <1>1, <1>2, <2>1, <4>1, ServiceTasks DEF ServicesOK, HearsOK, Listens
    <3> QED BY <3>2, <3>3, <3>4 DEF ServicesOK
  <2> QED BY <1>5, <2>2, <2>3 DEF PollRead, SvcNotified
<1> QED BY <1>3, <1>4, <1>5

LEMMA ActsKeep ==
  ASSUME ServicesOK, NEW t \in Request, AskService(t) \/ ServiceActs(t)
  PROVE  ServicesOK'
<1>1. /\ DOMAIN pc' = Task /\ \A s \in Task \ {t} : pc'[s] = pc[s]
      /\ UNCHANGED <<svcSeen, svcTold, svcListed, svcHeard, busUp, polled, unitName, ownUnit, provider>>
      /\ DOMAIN svcAsked' = Request /\ \A s \in Request \ {t} : svcAsked'[s] = svcAsked[s]
  BY ServiceTasks DEF AskService, ServiceActs, Goes, ServicesOK, ServiceTypes
<1>2. pc'["init"] = pc["init"] /\ pc'["timer"] = pc["timer"]
  BY <1>1, ServiceTasks
<1>3. CASE AskService(t)
  <2>1. UNCHANGED <<svcReal, svcSignals, svcMissed, ownStopped>> /\ SomethingSeen /\ pc["init"] = "idle"
    BY <1>3 DEF AskService, SomethingSeen, Idle
  <2>2. svcAsked'[t].action = "stop" /\ svcAsked'[t].service = ownUnit => unitName = None
    <3>1. PICK action \in {"start", "stop", "restart"}, s \in Service :
            /\ IF s = OwnName THEN action = "restart" ELSE svcSeen[s] # None
            /\ svcAsked' = [svcAsked EXCEPT ![t] = [action |-> action, service |-> s]]
      BY <1>3 DEF AskService
    <3>2. svcAsked'[t].action = action /\ svcAsked'[t].service = s
      BY <3>1 DEF ServicesOK, ServiceTypes
    <3> QED BY <3>1, <3>2 DEF OwnName, ServicesOK, OwnUnitOK
  <2>3. OwnUnitOK'
    BY <1>1, <1>2, <2>1, <2>2, ServiceTasks DEF ServicesOK, OwnUnitOK, ActsOK, SomethingSeen
  <2>4. ServiceTypes' /\ HearsOK'
    BY <1>1, <1>2, <2>1, HearingSame DEF ServicesOK, ServiceTypes
  <2> QED BY <2>3, <2>4 DEF ServicesOK
<1>4. CASE ServiceActs(t)
  <2>1. /\ pc'[t] = "idle" /\ SomethingSeen /\ pc["init"] = "idle"
        /\ svcAsked[t].action = "stop" /\ svcAsked[t].service = ownUnit => unitName = None
    BY <1>4, ServiceTasks DEF ServiceActs, Goes, ServicesOK, ServiceTypes, OwnUnitOK, ActsOK
  <2>2. CASE UNCHANGED <<svcReal, svcSignals, svcMissed, ownStopped>>
    <3>1. ServiceTypes' /\ HearsOK'
      BY <1>1, <1>2, <2>2, HearingSame DEF ServicesOK, ServiceTypes
    <3>2. OwnUnitOK'
      BY <1>1, <1>2, <2>1, <2>2, ServiceTasks DEF ServicesOK, OwnUnitOK, ActsOK, SomethingSeen
    <3> QED BY <3>1, <3>2 DEF ServicesOK
  <2>3. CASE /\ svcAsked[t].service \in Installed
             /\ Becomes(svcAsked[t].service, IF svcAsked[t].action = "stop" THEN "inactive" ELSE "active")
             /\ ownStopped' = (ownStopped \/ (svcAsked[t].action = "stop" /\ svcAsked[t].service = ownUnit))
    <3>1. PICK state \in ActiveState : Becomes(svcAsked[t].service, state)
      BY <2>3 DEF ActiveState
    <3>2. ServiceTypes' /\ HearsOK'
      BY <1>1, <1>2, <2>3, <3>1, BecomesKeeps DEF ServicesOK, ServiceTypes
    <3>3. OwnUnitOK'
      BY <1>1, <1>2, <2>1, <2>3, ServiceTasks DEF ServicesOK, OwnUnitOK, ActsOK, SomethingSeen
    <3> QED BY <3>2, <3>3 DEF ServicesOK
  <2> QED BY <1>4, <2>2, <2>3 DEF ServiceActs
<1> QED BY <1>3, <1>4

LEMMA ServicesKeep ==
  ASSUME ServicesOK, ServicesNext
  PROVE  ServicesOK'
<1>1. CASE ServiceChanges
  <2>1. PICK s \in Installed, state \in ActiveState : Becomes(s, state)
    BY <1>1 DEF ServiceChanges
  <2>2. UNCHANGED <<pc, svcSeen, svcTold, svcListed, svcHeard, busUp, polled, unitName, ownStopped,
                    svcAsked, ownUnit, provider>>
    BY <1>1 DEF ServiceChanges, SvcRests
  <2>3. ServiceTypes' /\ HearsOK'
    BY <2>1, <2>2, BecomesKeeps DEF ServicesOK, ServiceTypes
  <2>4. OwnUnitOK'
    BY <2>2 DEF ServicesOK, OwnUnitOK, ActsOK, SomethingSeen
  <2> QED BY <2>3, <2>4 DEF ServicesOK
<1> QED BY <1>1, ServicesStartKeeps, ListingKeeps, SignalKeeps, PollsKeep, ActsKeep DEF ServicesNext
-----------------------------------------------------------------------------
(***************************************************************************)
(* Packages: who holds the lock is at a step, and a transaction that is over  *)
(* has all that PackageKit said of it.                                          *)
(***************************************************************************)
Transaction ==
  [step : PackageSteps, role : PackageSteps \cup {"unknown"},
   result : SUBSET (Package \cup WantedPackages), future : {"open", "done", "failed"}]

PackageTypes ==
  /\ DOMAIN pc = Task /\ DOMAIN pkgJob = PackageTask
  /\ pkgOld \subseteq Package /\ pkgIndexed \subseteq pkgOld
  /\ pkgProvider \in {"unset", "packagekit", "apt", "none"}
  /\ tx = None \/ tx \in Transaction

JobOK(t) ==
  /\ pc[t] # "idle" => pkgProvider # "unset"
  /\ pc[t] \in PackageSteps => pkgHolder = t
  /\ pc[t] \in PackageSteps \cup {"waiting"} => pkgJob[t] \in {"refresh", "update", "install"}
  /\ pc[t] \in {"resolve", "install"} => pkgJob[t] = "install"
  /\ pc[t] \in {"choose", "upgrade"} => pkgJob[t] = "update"
  /\ pc[t] = "upgrade" => pkgIndexed \subseteq pkgIds

(* The signals of a transaction come in order, and its end last. *)
SignalOK(i) ==
  /\ txSignals[i].name = "finished" => i = Len(txSignals)
  /\ txSignals[i].name = "role" => i = 1 /\ txSignals[i].value = tx.step
  /\ txSignals[i].name = "finished" => txSignals[i].value \in BOOLEAN
  /\ txSignals[i].name = "package" => txSignals[i].value \in Package \cup WantedPackages
  /\ txSignals[i].name \in {"role", "package", "finished"}

Success == Signal("finished", TRUE)
Succeeds == \E i \in 1..Len(txSignals) : txSignals[i] = Success
Coming == {txSignals[i].value : i \in {j \in 1..Len(txSignals) : txSignals[j].name = "package"}}

TransactionSignals ==
  [name : {"role", "package", "finished"},
   value : BOOLEAN \cup PackageSteps \cup Package \cup WantedPackages]

TransactionOK ==
  /\ pc["worker"] \in {"idle", "creating", "calling"}
  /\ pc["worker"] # "idle" => tx # None
  /\ txSignals # <<>> => tx # None
  /\ txSignals \in Seq(TransactionSignals)
  /\ tx # None =>
       /\ pkgProvider = "packagekit" /\ pkgHolder \in PackageTask /\ pc[pkgHolder] = tx.step
       /\ \A i \in 1..Len(txSignals) : SignalOK(i)
       /\ txSignals # <<>> /\ txSignals[1].name # "role" => tx.role = tx.step
       /\ pc["worker"] = "creating" => tx = NewTransaction(tx.step) /\ txSignals = <<>>
       /\ tx.future = "done" => txSignals = <<>>
       /\ tx.step = "upgrade" /\ (tx.future = "done" \/ Succeeds) => pkgIndexed = {}
       /\ tx.step \in {"list", "choose"} =>
            /\ tx.future = "done" => tx.result = pkgIndexed
            /\ Succeeds => tx.result \cup Coming = pkgIndexed

(* What was upgraded is listed only while that is not over. *)
Upgrades == tx # None /\ tx.step = "upgrade" /\ pc["worker"] # "creating"
ListOK ==
  /\ ~pkgHalf /\ ~Upgrades => pkgStored \subseteq pkgIndexed
  /\ pkgProvider # "unset" => pkgAvail = pkgStored

PackagesOK ==
  /\ PackageTypes /\ TransactionOK /\ ListOK /\ pkgLeft = {}
  /\ \A t \in PackageTask : JobOK(t)

LEMMA PackageTasks ==
  /\ PackageTask \subseteq Task /\ None \notin PackageTask
  /\ "worker" \in Task /\ "worker" \notin PackageTask
BY HostConstants DEF PackageTask, Task, Background

LEMMA PackagesBegin ==
  ASSUME HostInit, PackagesInit
  PROVE  PackagesOK
<1>1. /\ DOMAIN pc = Task /\ \A t \in Task : pc[t] = "idle"
      /\ tx = None /\ txSignals = <<>> /\ pkgStored = {} /\ pkgIndexed = {} /\ pkgLeft = {}
      /\ pkgProvider = "unset" /\ pkgOld = {"libc"} /\ DOMAIN pkgJob = PackageTask
  BY DEF HostInit, PackagesInit
<1>2. PackageTypes
  BY <1>1 DEF PackageTypes, Package
<1>3. TransactionOK
  BY <1>1, PackageTasks DEF TransactionOK
<1>4. \A t \in PackageTask : JobOK(t)
  BY <1>1, PackageTasks DEF JobOK, PackageSteps
<1> QED BY <1>1, <1>2, <1>3, <1>4 DEF PackagesOK, ListOK

LEMMA PackagesServe ==
  ASSUME PackagesOK
  PROVE  UpdateUpgradesAll /\ ListedCanBeUpgraded
<1>1. pkgHolder = None => tx = None
  BY PackageTasks DEF PackagesOK, TransactionOK
<1> QED BY <1>1 DEF PackagesOK, ListOK, Upgrades, UpdateUpgradesAll, ListedCanBeUpgraded

(* Without a transaction, before and after *)
LEMMA NoTransaction ==
  ASSUME tx' = None, txSignals' = <<>>, pc'["worker"] = "idle"
  PROVE  TransactionOK' /\ ~Upgrades'
BY DEF TransactionOK, Upgrades

(* Others wait while one is at a step. *)
LEMMA OneAtAStep ==
  ASSUME PackagesOK, NEW t \in PackageTask, pc[t] \in PackageSteps
  PROVE  /\ pkgHolder = t /\ \A s \in PackageTask \ {t} : pc[s] \notin PackageSteps
         /\ tx # None => pc[t] = tx.step
BY DEF PackagesOK, JobOK, TransactionOK

LEMMA StepDoneKeeps ==
  ASSUME PackagesOK, NEW t \in PackageTask, pc[t] \in PackageSteps, NEW result,
         StepDone(t, result), ListedAnew(t), tx' = None, txSignals' = <<>>, pc["worker"] = "idle",
         pkgProvider' = pkgProvider, pkgOld' \subseteq Package, pkgIndexed' \subseteq pkgOld',
         pc[t] \in {"list", "choose"} => result = pkgIndexed',
         pc[t] = "upgrade" => pkgIndexed' = {},
         pc[t] # "upgrade" /\ ~pkgHalf => pkgStored \subseteq pkgIndexed'
  PROVE  PackagesOK'
<1>1. /\ DOMAIN pc' = Task /\ pc'["worker"] = "idle" /\ \A s \in PackageTask \ {t} : pc'[s] = pc[s]
      /\ DOMAIN pkgJob' = PackageTask /\ \A s \in PackageTask \ {t} : pkgJob'[s] = pkgJob[s]
  BY PackageTasks DEF StepDone, Goes, PackageJobEnds, PackagesOK, PackageTypes
<1>2. pkgHolder = t /\ \A s \in PackageTask \ {t} : pc[s] \notin PackageSteps
  BY OneAtAStep
<1>3. PackageTypes' /\ TransactionOK' /\ ~Upgrades'
  BY <1>1, NoTransaction DEF PackagesOK, PackageTypes
<1>4. pkgProvider # "unset" /\ pkgAvail = pkgStored /\ pkgLeft = {} /\ t \in Task
      /\ pkgJob[t] \in {"refresh", "update", "install"}
      /\ (pc[t] \in {"resolve", "install"} => pkgJob[t] = "install")
      /\ (pc[t] \in {"choose", "upgrade"} => pkgJob[t] = "update")
  <2>1. pc[t] # "idle"
    BY DEF PackageSteps
  <2> QED BY <2>1, PackageTasks DEF PackagesOK, JobOK, ListOK
<1>5. ASSUME PackageJobEnds(t) PROVE \A s \in PackageTask : JobOK(s)'
  <2>1. pc'[t] = "idle"
    BY <1>4, <1>5 DEF PackageJobEnds, Goes, PackagesOK, PackageTypes
  <2> QED BY <1>1, <1>2, <1>4, <2>1 DEF PackagesOK, JobOK, PackageSteps
<1>6. CASE pc[t] = "cache"
  <2>1. /\ pkgJob[t] = "refresh" => pc'[t] = "list"
        /\ pkgJob[t] = "update" => pc'[t] = "choose"
        /\ pkgJob[t] \notin {"refresh", "update"} => pc'[t] = "resolve"
        /\ NothingSaved /\ UNCHANGED <<pkgHolder, pkgJob, pkgIds, pkgLeft>>
    BY <1>4, <1>6 DEF StepDone, Goes, PackagesOK, PackageTypes
  <2>2. ListOK'
    BY <1>6, <2>1 DEF ListedAnew, NothingSaved, PackagesOK, ListOK
  <2>3. JobOK(t)'
    BY <1>2, <1>4, <2>1 DEF JobOK, PackageSteps
  <2>4. ASSUME NEW s \in PackageTask \ {t} PROVE JobOK(s)'
    BY <1>1, <1>2, <2>1 DEF PackagesOK, JobOK, PackageSteps
  <2> QED BY <1>3, <1>4, <2>1, <2>2, <2>3, <2>4 DEF PackagesOK
<1>7. CASE pc[t] = "list"
  <2>1. SavesPackages(result) /\ PackageJobEnds(t) /\ UNCHANGED pkgLeft
    BY <1>7 DEF StepDone
  <2> QED BY <1>3, <1>4, <1>5, <1>7, <2>1 DEF SavesPackages, PackagesOK, ListOK
<1>8. CASE pc[t] \in {"choose", "resolve"} /\ result # {}
  <2>1. /\ pc'[t] = (IF pc[t] = "choose" THEN "upgrade" ELSE "install")
        /\ pkgIds' = result /\ NothingSaved /\ UNCHANGED <<pkgHolder, pkgJob, pkgLeft>>
    BY <1>4, <1>8 DEF StepDone, Goes, PackagesOK, PackageTypes
  <2>2. ListOK'
    BY <1>8, <2>1 DEF ListedAnew, NothingSaved, PackagesOK, ListOK
  <2>3. JobOK(t)'
    BY <1>2, <1>4, <1>8, <2>1 DEF JobOK, PackageSteps
  <2>4. ASSUME NEW s \in PackageTask \ {t} PROVE JobOK(s)'
    BY <1>1, <1>2, <2>1 DEF PackagesOK, JobOK, PackageSteps
  <2> QED BY <1>3, <1>4, <2>1, <2>2, <2>3, <2>4 DEF PackagesOK
<1>9. CASE pc[t] \notin {"cache", "list"} /\ ~(pc[t] \in {"choose", "resolve"} /\ result # {})
  <2>1. CASE pkgJob[t] = "install"
    <3>1. PackageJobEnds(t) /\ NothingSaved /\ UNCHANGED pkgLeft /\ pc[t] # "upgrade"
      BY <1>4, <1>9, <2>1 DEF StepDone
    <3> QED BY <1>3, <1>4, <1>5, <1>9, <3>1 DEF PackagesOK, ListOK, NothingSaved, ListedAnew
  <2>2. CASE pkgJob[t] # "install"
    <3>1. SavesPackages({}) /\ PackageJobEnds(t) /\ pkgLeft' = pkgIndexed'
      BY <1>9, <2>2 DEF StepDone, ListAfterUpdate
    <3>2. pkgIndexed' = {}
      BY <1>4, <1>9, <2>2 DEF PackageSteps
    <3> QED BY <1>3, <1>4, <1>5, <3>1, <3>2 DEF PackagesOK, ListOK, SavesPackages
  <2> QED BY <2>1, <2>2
<1> QED BY <1>6, <1>7, <1>8, <1>9

LEMMA JobFailsKeeps ==
  ASSUME PackagesOK, NEW t \in PackageTask, pc[t] \in PackageSteps,
         JobFails(t), tx' = None, txSignals' = <<>>, pc["worker"] = "idle",
         pkgProvider' = pkgProvider, pkgOld' \subseteq Package, pkgIndexed' \subseteq pkgOld',
         pc[t] # "upgrade" => pkgIndexed' = pkgIndexed
  PROVE  PackagesOK'
<1>1. /\ DOMAIN pc' = Task /\ pc'["worker"] = "idle" /\ \A s \in PackageTask \ {t} : pc'[s] = pc[s]
      /\ pc'[t] = "idle"
      /\ DOMAIN pkgJob' = PackageTask /\ \A s \in PackageTask \ {t} : pkgJob'[s] = pkgJob[s]
  BY PackageTasks DEF JobFails, Goes, PackageJobEnds, PackagesOK, PackageTypes
<1>2. pkgHolder = t /\ (\A s \in PackageTask \ {t} : pc[s] \notin PackageSteps)
      /\ (tx # None => pc[t] = tx.step)
  BY OneAtAStep
<1>3. PackageTypes' /\ TransactionOK' /\ ~Upgrades'
  BY <1>1, NoTransaction DEF PackagesOK, PackageTypes
<1>4. pkgProvider # "unset" /\ pkgAvail = pkgStored /\ pkgLeft' = {}
  BY DEF PackagesOK, JobOK, ListOK, PackageSteps, JobFails
<1>5. pkgStored' = pkgStored /\ pkgAvail' = pkgAvail
  BY <1>4 DEF JobFails, SavesPackages, NothingSaved
<1>6. ListOK'
  <2>1. CASE pc[t] = "upgrade"
    BY <1>4, <1>5, <2>1 DEF JobFails, ListOK
  <2>2. CASE pc[t] # "upgrade"
    <3>1. ~Upgrades
      BY <1>2, <2>2 DEF Upgrades
    <3> QED BY <1>4, <1>5, <2>2, <3>1 DEF JobFails, ListOK, PackagesOK
  <2> QED BY <2>1, <2>2
<1>7. \A s \in PackageTask : JobOK(s)'
  BY <1>1, <1>2, <1>4 DEF PackagesOK, JobOK, PackageSteps
<1> QED BY <1>3, <1>4, <1>6, <1>7 DEF PackagesOK

LEMMA CommandsKeep ==
  ASSUME PackagesOK, NEW t \in PackageTask, AptRuns(t) \/ NoProvider(t)
  PROVE  PackagesOK'
<1>1. /\ pc[t] \in PackageSteps /\ pkgProvider \in {"apt", "none"}
      /\ UNCHANGED <<pkgProvider, tx, txSignals>>
  BY DEF AptRuns, NoProvider
<1>2. tx = None /\ txSignals = <<>> /\ pc["worker"] = "idle"
  BY <1>1 DEF PackagesOK, TransactionOK
<1>3. pkgOld \subseteq Package /\ pkgIndexed \subseteq pkgOld /\ ~Upgrades
  BY <1>2 DEF PackagesOK, PackageTypes, Upgrades
<1>4. CASE Effect(pc[t]) /\ StepDone(t, Answer(pc[t])) /\ ListedAnew(t)
  <2>1. pkgOld' \subseteq Package /\ pkgIndexed' \subseteq pkgOld'
    BY <1>3, <1>4 DEF Effect
  <2>2. pc[t] = "upgrade" => pkgIndexed' = {}
    BY <1>4 DEF Effect, PackagesOK, JobOK
  <2>3. pc[t] \in {"list", "choose"} => Answer(pc[t]) = pkgIndexed'
    BY <1>4 DEF Effect, Answer
  <2>4. pc[t] # "upgrade" /\ ~pkgHalf => pkgStored \subseteq pkgIndexed'
    BY <1>3, <1>4 DEF Effect, PackagesOK, ListOK
  <2> QED BY <1>1, <1>2, <1>4, <2>1, <2>2, <2>3, <2>4, StepDoneKeeps
<1>5. CASE JobFails(t) /\ (WorldKept \/ HalfEffect(pc[t]))
  <2>1. pkgOld' \subseteq Package /\ pkgIndexed' \subseteq pkgOld'
    BY <1>3, <1>5 DEF HalfEffect, WorldKept
  <2>2. pc[t] # "upgrade" => pkgIndexed' = pkgIndexed
    BY <1>5 DEF HalfEffect, WorldKept
  <2> QED BY <1>1, <1>2, <1>5, <2>1, <2>2, JobFailsKeeps
<1> QED BY <1>4, <1>5 DEF AptRuns, NoProvider

(* A transaction without one at a step that is not there. *)
LEMMA TransactionOverKeeps ==
  ASSUME PackagesOK, NEW t \in PackageTask, TransactionOver(t)
  PROVE  PackagesOK'
<1>1. /\ pc[t] \in PackageSteps /\ tx # None /\ pc["worker"] = "idle"
      /\ tx' = None /\ txSignals' = <<>> /\ UNCHANGED <<pkgProvider, pkgOld, pkgIndexed>>
  BY DEF TransactionOver, Idle, WorldKept
<1>2. pkgOld \subseteq Package /\ pkgIndexed \subseteq pkgOld /\ pc[t] = tx.step
  BY <1>1, OneAtAStep DEF PackagesOK, PackageTypes
<1>3. CASE tx.future = "done" /\ StepDone(t, tx.result) /\ ListedAnew(t)
  <2>1. /\ pc[t] \in {"list", "choose"} => tx.result = pkgIndexed'
        /\ pc[t] = "upgrade" => pkgIndexed' = {}
    BY <1>1, <1>2, <1>3 DEF PackagesOK, TransactionOK
  <2>2. pc[t] # "upgrade" /\ ~pkgHalf => pkgStored \subseteq pkgIndexed'
    BY <1>1, <1>2 DEF PackagesOK, ListOK, Upgrades
  <2> QED BY <1>1, <1>2, <1>3, <2>1, <2>2, StepDoneKeeps
<1>4. CASE JobFails(t)
  BY <1>1, <1>2, <1>4, JobFailsKeeps
<1> QED BY <1>3, <1>4 DEF TransactionOver

LEMMA AskingKeeps ==
  ASSUME PackagesOK, NEW t \in PackageTask, AskPackages(t) \/ LockIsGot(t)
  PROVE  PackagesOK'
<1>1. /\ DOMAIN pc' = Task /\ pc'["worker"] = pc["worker"]
      /\ \A s \in PackageTask \ {t} : pc'[s] = pc[s]
      /\ DOMAIN pkgJob' = PackageTask /\ \A s \in PackageTask \ {t} : pkgJob'[s] = pkgJob[s]
      /\ UNCHANGED <<pkgOld, pkgIndexed, pkgProvider, pkgAvail, pkgStored, pkgIds, tx, txSignals,
                     pkgHalf, pkgLeft>>
      /\ pc[t] \in {"idle", "waiting"}
  BY PackageTasks DEF AskPackages, LockIsGot, Goes, Idle, WorldKept, PackagesOK, PackageTypes
<1>2. PackageTypes' /\ (\A s \in PackageTask : pkgProvider # "unset")
  BY <1>1 DEF PackagesOK, PackageTypes, JobOK, AskPackages, LockIsGot
<1>3. tx # None => pkgHolder # None /\ pkgHolder # t /\ pkgHolder' = pkgHolder
  <2>1. ASSUME tx # None PROVE pkgHolder \in PackageTask /\ pc[pkgHolder] \in PackageSteps
    BY <2>1 DEF PackagesOK, TransactionOK, PackageTypes, Transaction
  <2> QED BY <1>1, <2>1, PackageTasks DEF AskPackages, LockIsGot, PackageSteps
<1>4. TransactionOK'
  <2>1. TransactionOK /\ (tx # None => pc'[pkgHolder'] = pc[pkgHolder] /\ pkgHolder' = pkgHolder)
    BY <1>1, <1>3 DEF PackagesOK, TransactionOK
  <2>2. (Succeeds' <=> Succeeds) /\ Coming' = Coming
    BY <1>1 DEF Succeeds, Coming
  <2>3. (\A i \in 1..Len(txSignals) : SignalOK(i)) => \A i \in 1..Len(txSignals') : SignalOK(i)'
    BY <1>1 DEF SignalOK
  <2> QED BY <1>1, <2>1, <2>2, <2>3 DEF TransactionOK
<1>5. ListOK'
  BY <1>1 DEF PackagesOK, ListOK, Upgrades
<1>6. ASSUME NEW s \in PackageTask PROVE JobOK(s)'
  <2>1. CASE AskPackages(t)
    <3>1. pkgHolder' = pkgHolder /\ pc'[t] = "waiting" /\ pkgJob'[t] \in {"refresh", "update", "install"}
      BY <2>1, PackageTasks DEF AskPackages, Goes, PackagesOK, PackageTypes
    <3> QED BY <1>1, <1>2, <3>1 DEF PackagesOK, JobOK, PackageSteps
  <2>2. CASE LockIsGot(t)
    <3>1. pkgHolder = None /\ \A x \in PackageTask : pc[x] \notin PackageSteps
      BY <2>2, PackageTasks DEF LockIsGot, PackagesOK, JobOK
    <3>2. \/ pc'[t] = "idle"
          \/ pc'[t] \in {"cache", "list"} /\ pkgHolder' = t /\ pkgJob' = pkgJob
      BY <2>2, PackageTasks DEF LockIsGot, Goes, PackagesOK, PackageTypes
    <3>3. pkgJob[t] \in {"refresh", "update", "install"}
      BY <2>2 DEF LockIsGot, PackagesOK, JobOK
    <3> QED BY <1>1, <1>2, <3>1, <3>2, <3>3 DEF PackagesOK, JobOK, PackageSteps
  <2> QED BY <2>1, <2>2
<1> QED BY <1>1, <1>2, <1>4, <1>5, <1>6 DEF PackagesOK

LEMMA TransactionRunsKeeps ==
  ASSUME PackagesOK, NEW t \in PackageTask, TransactionRuns(t)
  PROVE  PackagesOK'
<1>1. /\ pkgProvider = "packagekit" /\ pc[t] \in PackageSteps /\ tx = None
      /\ tx' = NewTransaction(pc[t]) /\ txSignals' = <<>>
      /\ UNCHANGED <<pkgOld, pkgIndexed, pkgProvider, pkgAvail, pkgStored, pkgJob, pkgHolder, pkgIds,
                     pkgHalf, pkgLeft>>
  BY DEF TransactionRuns, WorldKept
<1>2. /\ DOMAIN pc' = Task /\ pc'["worker"] = "creating"
      /\ \A s \in PackageTask : pc'[s] = pc[s]
  BY PackageTasks DEF TransactionRuns, Goes, PackagesOK, PackageTypes
<1>3. tx' \in Transaction /\ tx' # None /\ tx'.step = pc[t] /\ tx'.future = "open"
  BY <1>1, PackagesConstants DEF NewTransaction, Transaction
<1>4. PackageTypes'
  BY <1>1, <1>2, <1>3 DEF PackagesOK, PackageTypes
<1>5. pkgHolder = t
  BY <1>1, OneAtAStep
<1>6. TransactionOK'
  BY <1>1, <1>2, <1>3, <1>5 DEF TransactionOK, Succeeds
<1>7. ListOK'
  BY <1>1, <1>2 DEF PackagesOK, ListOK, Upgrades
<1> QED BY <1>1, <1>2, <1>4, <1>6, <1>7 DEF PackagesOK, JobOK

(* The packages of an answer are signalled, each once. *)
LEMMA SignalsAreThere ==
  ASSUME NEW S, IsFiniteSet(S)
  PROVE  /\ SignalsOfPackages(S) \in Seq({Signal("package", p) : p \in S})
         /\ {SignalsOfPackages(S)[i] : i \in 1..Len(SignalsOfPackages(S))} = {Signal("package", p) : p \in S}
<1> DEFINE n == Cardinality(S)
           T == {Signal("package", p) : p \in S}
<1>1. n \in Nat /\ ExistsBijection(1..n, S)
  BY FS_CardinalityType
<1>2. PICK f \in [1..n -> S] : \A p \in S : \E i \in 1..n : f[i] = p
  BY <1>1 DEF ExistsBijection, Bijection, Surjection
<1>3. PICK g : g = [i \in 1..n |-> Signal("package", f[i])]
  OBVIOUS
<1>4. g \in [1..n -> T]
  BY <1>2, <1>3
<1>5. {g[i] : i \in DOMAIN g} = T
  BY <1>2, <1>3
<1>6. /\ SignalsOfPackages(S) \in [1..n -> T]
      /\ {SignalsOfPackages(S)[i] : i \in DOMAIN SignalsOfPackages(S)} = T
  BY <1>4, <1>5 DEF SignalsOfPackages
<1> HIDE DEF n, T
<1>7. SignalsOfPackages(S) \in Seq(T) /\ DOMAIN SignalsOfPackages(S) = 1..Len(SignalsOfPackages(S))
  BY <1>1, <1>6
<1> QED BY <1>6, <1>7 DEF T

LEMMA PackagesAreFew ==
  /\ IsFiniteSet(Package) /\ IsFiniteSet(WantedPackages)
  /\ \A S \in SUBSET Package : IsFiniteSet(S)
<1>1. IsFiniteSet({"libc"})
  BY FS_EmptySet, FS_AddElement, {"libc"} = {} \cup {"libc"}
<1>2. IsFiniteSet({"libc"} \cup {"tools"})
  BY <1>1, FS_AddElement
<1>3. IsFiniteSet({} \cup {"deps"})
  BY FS_EmptySet, FS_AddElement
<1>4. Package = {"libc"} \cup {"tools"} /\ WantedPackages = {} \cup {"deps"}
  BY DEF Package, WantedPackages
<1> QED BY <1>2, <1>3, <1>4, FS_Subset

LEMMA Signals ==
  /\ \A name, value : Signal(name, value).name = name /\ Signal(name, value).value = value
  /\ \A b \in BOOLEAN : Signal("finished", b).value \in BOOLEAN
                      /\ Signal("finished", b) \in TransactionSignals
  /\ \A step \in PackageSteps : Signal("role", step) \in TransactionSignals
  /\ \A p \in Package \cup WantedPackages : Signal("package", p) \in TransactionSignals
BY DEF Signal, TransactionSignals

LEMMA EndSignals ==
  /\ Signal("finished", TRUE) # Signal("finished", FALSE)
  /\ \A value : Signal("role", value) # Signal("finished", TRUE)
  /\ \A x \in TransactionSignals : x.name = "finished" /\ x.value \in BOOLEAN =>
       x \in {Signal("finished", TRUE), Signal("finished", FALSE)}
<1>1. Signal("finished", TRUE) # Signal("finished", FALSE)
  <2>1. Signal("finished", TRUE).value = TRUE /\ Signal("finished", FALSE).value = FALSE
    BY Signals
  <2> QED BY <2>1
<1>2. ASSUME NEW value PROVE Signal("role", value) # Signal("finished", TRUE)
  <2>1. Signal("role", value).name = "role" /\ Signal("finished", TRUE).name = "finished"
    BY Signals
  <2> QED BY <2>1
<1>3. ASSUME NEW x \in TransactionSignals, x.name = "finished", x.value \in BOOLEAN
      PROVE  x \in {Signal("finished", TRUE), Signal("finished", FALSE)}
  <2>1. x = [name |-> x.name, value |-> x.value]
    BY DEF TransactionSignals
  <2>2. x = Signal("finished", x.value)
    BY <1>3, <2>1, Zenon DEF Signal
  <2>3. x.value = TRUE \/ x.value = FALSE
    BY <1>3, Zenon
  <2> QED BY <2>2, <2>3, Zenon
<1> QED BY <1>1, <1>2, <1>3

(* A sequence between two more *)
LEMMA Between ==
  ASSUME NEW M, NEW a \in M, NEW b \in M, NEW q \in Seq(M)
  PROVE  LET s == <<a>> \o q \o <<b>> IN
         /\ s \in Seq(M) /\ Len(s) = Len(q) + 2 /\ Len(q) \in Nat
         /\ s[1] = a /\ s[Len(q) + 2] = b
         /\ \A i \in 1..Len(q) : s[i + 1] = q[i]
OBVIOUS

(* What a transaction that has come to its end signals *)
LEMMA SignalsOfSuccess ==
  ASSUME NEW step \in PackageSteps, NEW S \in SUBSET (Package \cup WantedPackages), IsFiniteSet(S),
         NEW end \in TransactionSignals, end.name = "finished", end.value \in BOOLEAN,
         txSignals' = <<Signal("role", step)>> \o SignalsOfPackages(S) \o <<end>>,
         tx'.step = step
  PROVE  /\ txSignals' \in Seq(TransactionSignals)
         /\ \A i \in 1..Len(txSignals') : SignalOK(i)'
         /\ txSignals' # <<>> /\ txSignals'[1].name = "role"
         /\ Coming' = S
<1> DEFINE q == SignalsOfPackages(S)
           s == <<Signal("role", step)>> \o q \o <<end>>
           M == TransactionSignals
           T == {Signal("package", p) : p \in S}
<1>1. q \in Seq(T) /\ {q[i] : i \in 1..Len(q)} = T
  BY SignalsAreThere
<1>2. /\ Signal("role", step) \in M /\ end \in M
      /\ T \subseteq M
  BY Signals
<1>0a. \A x \in T : x.name = "package" /\ x.value \in S
  BY Signals
<1>0b. \A p \in S : Signal("package", p) \in T
  OBVIOUS
<1> HIDE DEF T, M
<1>3. q \in Seq(M)
  BY <1>1, <1>2
<1> HIDE DEF q
<1>4. s \in Seq(M) /\ Len(s) = Len(q) + 2 /\ Len(q) \in Nat
      /\ s[1] = Signal("role", step) /\ s[Len(q) + 2] = end
      /\ \A i \in 1..Len(q) : s[i + 1] = q[i]
  BY <1>2, <1>3, Between
<1>5. \A i \in 1..Len(q) : q[i] \in T
  BY <1>1
<1>6. \A i \in 1..Len(s) : i = 1 \/ i = Len(s) \/ (i - 1 \in 1..Len(q) /\ s[i] = q[i - 1])
  <2>1. ASSUME NEW i \in 1..Len(s), i # 1, i # Len(s)
        PROVE  i - 1 \in 1..Len(q) /\ s[i] = q[i - 1]
    <3>1. i - 1 \in 1..Len(q) /\ (i - 1) + 1 = i
      BY <1>4, <2>1
    <3> QED BY <1>4, <3>1
  <2> QED BY <2>1
<1>7. \A i \in 1..Len(s) : \/ i = 1 /\ s[i] = Signal("role", step)
                           \/ i = Len(s) /\ s[i] = end
                           \/ s[i] \in T /\ i # 1
  BY <1>4, <1>5, <1>6
<1>8. \A i \in 1..Len(s) : s[i].name = "package" => s[i].value \in S
  BY <1>7, <1>0a, Signals
<1>9. ASSUME NEW p \in S PROVE \E i \in 1..Len(s) : s[i].name = "package" /\ s[i].value = p
  <2>1. PICK i \in 1..Len(q) : q[i] = Signal("package", p)
    BY <1>1, <1>9, <1>0b
  <2>2. i + 1 \in 1..Len(s) /\ s[i + 1] = Signal("package", p)
    BY <1>4, <2>1
  <2> QED BY <2>2, Signals
<1>10. txSignals' = s
  BY DEF q
<1> HIDE DEF s
<1>11. Coming' = S
  BY <1>8, <1>9, <1>10 DEF Coming
<1>12. ASSUME NEW i \in 1..Len(s) PROVE SignalOK(i)'
  <2>1. CASE i = 1 /\ s[i] = Signal("role", step)
    BY <1>4, <1>10, <2>1, Signals DEF SignalOK
  <2>2. CASE i = Len(s) /\ s[i] = end
    BY <1>4, <1>10, <2>2, Signals DEF SignalOK
  <2>3. CASE s[i] \in T
    BY <1>10, <1>0a, <2>3 DEF SignalOK
  <2> QED BY <1>7, <2>1, <2>2, <2>3
<1>13. txSignals' \in Seq(TransactionSignals)
  BY <1>4, <1>10 DEF M
<1>14. txSignals'[1].name = "role" /\ txSignals' # <<>>
  BY <1>4, <1>10, Signals
<1> QED BY <1>10, <1>11, <1>12, <1>13, <1>14

(* Its call is made: all its signals, or the first of them, are on their way. *)
LEMMA TransactionCalledKeeps ==
  ASSUME PackagesOK, TransactionCalled
  PROVE  PackagesOK'
<1> DEFINE step == tx.step
<1>1. /\ pc["worker"] = "creating" /\ tx # None /\ tx = NewTransaction(step) /\ txSignals = <<>>
      /\ step \in PackageSteps /\ tx \in Transaction
      /\ pkgHolder \in PackageTask /\ pc[pkgHolder] = step /\ pkgProvider = "packagekit"
  BY DEF PackagesOK, TransactionOK, PackageTypes, Transaction, TransactionCalled
<1>2. /\ DOMAIN pc' = Task /\ pc'["worker"] = "calling" /\ \A t \in PackageTask : pc'[t] = pc[t]
      /\ UNCHANGED <<pkgProvider, pkgAvail, pkgStored, pkgJob, pkgHolder, pkgIds, tx, pkgHalf, pkgLeft>>
  BY PackageTasks DEF TransactionCalled, Goes, PackagesOK, PackageTypes
<1>3. step = "upgrade" => pkgIndexed \subseteq pkgIds
  BY <1>1 DEF PackagesOK, JobOK
<1>4. pkgOld' \subseteq Package /\ pkgIndexed' \subseteq pkgOld'
      /\ (step # "upgrade" => pkgIndexed \subseteq pkgIndexed')
      /\ (step = "upgrade" => pkgIndexed' \subseteq pkgIndexed)
  BY DEF TransactionCalled, Effect, HalfEffect, WorldKept, PackagesOK, PackageTypes
<1>5. PackageTypes'
  BY <1>2, <1>4 DEF PackagesOK, PackageTypes
<1>6. ListOK'
  <2>1. ~Upgrades
    BY <1>1 DEF Upgrades
  <2>2. step # "upgrade" \/ Upgrades'
    BY <1>1, <1>2 DEF Upgrades
  <2> QED BY <1>2, <1>4, <2>1, <2>2 DEF PackagesOK, ListOK
<1>7. \A t \in PackageTask : JobOK(t)'
  <2>1. ASSUME NEW t \in PackageTask, pc[t] = "upgrade" PROVE pkgIndexed' \subseteq pkgIds
    <3>1. step = "upgrade"
      BY <1>1, <2>1, OneAtAStep DEF PackageSteps
    <3> QED BY <1>3, <1>4, <3>1
  <2> QED BY <1>2, <2>1 DEF PackagesOK, JobOK
<1>8. TransactionOK'
  <2>1. tx.future = "open" /\ tx.result = {} /\ tx'.step = step /\ tx' # None
    BY <1>1, <1>2 DEF NewTransaction
  <2>2. CASE Effect(step) /\ txSignals' = <<Signal("role", step)>> \o SignalsOfPackages(Answer(step))
                                            \o <<Signal("finished", TRUE)>>
    <3>1. Answer(step) \in SUBSET (Package \cup WantedPackages) /\ IsFiniteSet(Answer(step))
      BY PackagesAreFew, FS_EmptySet DEF Answer, PackagesOK, PackageTypes
    <3>2. /\ txSignals' \in Seq(TransactionSignals)
          /\ \A i \in 1..Len(txSignals') : SignalOK(i)'
          /\ txSignals' # <<>> /\ txSignals'[1].name = "role"
          /\ Coming' = Answer(step)
      <4> DEFINE end == Signal("finished", TRUE)
      <4>1. end \in TransactionSignals /\ end.name = "finished" /\ end.value \in BOOLEAN
        BY Signals
      <4>2. txSignals' = <<Signal("role", step)>> \o SignalsOfPackages(Answer(step)) \o <<end>>
        BY <2>2
      <4> HIDE DEF end, step
      <4> QED BY <1>1, <2>1, <3>1, <4>1, <4>2, SignalsOfSuccess
    <3>3. /\ step = "upgrade" => pkgIndexed' = {}
          /\ step \in {"list", "choose"} => Answer(step) = pkgIndexed'
      BY <1>3, <2>2 DEF Effect, Answer
    <3> QED BY <1>1, <1>2, <2>1, <3>2, <3>3 DEF TransactionOK
  <2>3. CASE txSignals' = <<Signal("role", step)>> \o <<Signal("finished", FALSE)>>
    <3> DEFINE end == Signal("finished", FALSE)
    <3>0. end \in TransactionSignals /\ txSignals' = <<Signal("role", step)>> \o <<end>>
      BY <2>3, Signals
    <3> HIDE DEF end
    <3>1. /\ Len(txSignals') = 2 /\ txSignals'[1] = Signal("role", step) /\ txSignals'[2] = end
          /\ txSignals' \in Seq(TransactionSignals)
      BY <1>1, <3>0, Signals
    <3> USE DEF end
    <3>2. ~Succeeds' /\ \A i \in 1..Len(txSignals') : SignalOK(i)'
      <4>0. txSignals'[1] # Success /\ txSignals'[2] # Success
        BY <3>1, EndSignals DEF Success
      <4>1. ~Succeeds'
        <5> HIDE DEF end
        <5> QED BY <3>1, <4>0 DEF Succeeds
      <4>2. end.name = "finished" /\ end.value \in BOOLEAN
        BY Signals
      <4>3. SignalOK(1)'
        BY <2>1, <3>1, Signals DEF SignalOK
      <4> HIDE DEF end
      <4>4. SignalOK(2)'
        BY <2>1, <3>1, <4>2 DEF SignalOK
      <4> QED BY <3>1, <4>1, <4>3, <4>4
    <3> QED BY <1>1, <1>2, <2>1, <3>1, <3>2, Signals DEF TransactionOK
  <2>4. CASE txSignals' = <<Signal("role", step)>>
    <3>1. /\ Len(txSignals') = 1 /\ txSignals'[1] = Signal("role", step)
          /\ txSignals' \in Seq(TransactionSignals)
      BY <1>1, <2>4, Signals
    <3>2. ~Succeeds' /\ \A i \in 1..Len(txSignals') : SignalOK(i)'
      <4>1. txSignals'[1] # Success
        BY <3>1, EndSignals DEF Success
      <4> QED BY <2>1, <3>1, <4>1, Signals DEF Succeeds, SignalOK
    <3> QED BY <1>1, <1>2, <2>1, <3>1, <3>2 DEF TransactionOK, Signal
  <2> QED BY <2>2, <2>3, <2>4 DEF TransactionCalled
<1> QED BY <1>2, <1>5, <1>6, <1>7, <1>8 DEF PackagesOK

LEMMA CallEndsKeeps ==
  ASSUME PackagesOK, CallEnds
  PROVE  PackagesOK'
<1>1. /\ tx # None /\ tx \in Transaction /\ pc["worker"] \in {"creating", "calling"}
      /\ UNCHANGED <<pkgOld, pkgIndexed, pkgProvider, pkgAvail, pkgStored, pkgJob, pkgHolder, pkgIds,
                     txSignals, pkgHalf, pkgLeft>>
  BY DEF CallEnds, WorldKept, PackagesOK, PackageTypes, TransactionOK
<1>2. /\ DOMAIN pc' = Task /\ pc'["worker"] = "idle" /\ \A t \in PackageTask : pc'[t] = pc[t]
  BY PackageTasks DEF CallEnds, Goes, PackagesOK, PackageTypes
<1>3. /\ tx' \in Transaction /\ tx'.step = tx.step /\ tx'.role = tx.role /\ tx'.result = tx.result
      /\ tx'.future = "done" => tx.future = "done"
  BY <1>1 DEF CallEnds, Fails, Transaction
<1>4. tx' # None
  BY <1>3, PackagesConstants DEF Transaction
<1>5. (Succeeds' <=> Succeeds) /\ Coming' = Coming
  BY <1>1 DEF Succeeds, Coming
<1>6. TransactionOK'
  BY <1>1, <1>2, <1>3, <1>4, <1>5 DEF PackagesOK, TransactionOK, SignalOK
<1>7. ListOK'
  BY <1>1, <1>2, <1>3, <1>4 DEF PackagesOK, ListOK, Upgrades
<1> QED BY <1>1, <1>2, <1>3, <1>6, <1>7 DEF PackagesOK, PackageTypes, JobOK

LEMMA TransactionSignalKeeps ==
  ASSUME PackagesOK, TransactionSignal
  PROVE  PackagesOK'
<1> DEFINE s == Head(txSignals)
           M == TransactionSignals
           n == Len(txSignals)
<1>1. /\ tx # None /\ tx \in Transaction /\ txSignals # <<>> /\ txSignals \in Seq(M)
      /\ \A i \in 1..n : SignalOK(i)
      /\ UNCHANGED <<pc, pkgOld, pkgIndexed, pkgProvider, pkgAvail, pkgStored, pkgJob, pkgHolder, pkgIds,
                     pkgHalf, pkgLeft>>
      /\ txSignals' = Tail(txSignals)
  BY DEF TransactionSignal, WorldKept, PackagesOK, PackageTypes, TransactionOK
<1>2. /\ n \in Nat \ {0} /\ s = txSignals[1] /\ s \in M /\ SignalOK(1)
      /\ txSignals' \in Seq(M) /\ Len(txSignals') = n - 1
      /\ \A i \in 1..(n - 1) : txSignals'[i] = txSignals[i + 1]
  BY <1>1
<1>3. /\ s.name = "finished" => n = 1 /\ s.value \in BOOLEAN
      /\ s.name = "role" => s.value = tx.step
      /\ s.name = "package" => s.value \in Package \cup WantedPackages
  BY <1>2 DEF SignalOK
<1>4. tx'.future = "done" => tx.future = "done" \/ (s.name = "finished" /\ s = Signal("finished", TRUE))
  <2>1. s.name = "finished" /\ s # Signal("finished", FALSE) => s = Signal("finished", TRUE)
    BY <1>2, <1>3, EndSignals
  <2> QED BY <1>1, <2>1 DEF TransactionSignal, IsOver, Transaction
<1>5. /\ tx' \in Transaction /\ tx'.step = tx.step
      /\ tx'.role = (IF s.name = "role" THEN tx.step ELSE tx.role)
      /\ tx'.result = (IF s.name = "package" /\ tx'.role \in RolesWithPackages
                       THEN tx.result \cup {s.value} ELSE tx.result)
  BY <1>1, <1>3 DEF TransactionSignal, RoleAfter, Transaction
<1>6. tx' # None
  BY <1>5, PackagesConstants DEF Transaction
<1>7. ASSUME NEW i \in 1..Len(txSignals') PROVE SignalOK(i)' /\ txSignals'[i].name # "role"
  <2>1. i + 1 \in 1..n /\ txSignals'[i] = txSignals[i + 1] /\ SignalOK(i + 1) /\ i + 1 # 1
    BY <1>1, <1>2
  <2> QED BY <1>2, <1>5, <2>1 DEF SignalOK
<1>8. txSignals[1].name # "role" => tx.role = tx.step
  BY <1>1 DEF PackagesOK, TransactionOK
<1>9. tx'.role = tx.step
  BY <1>2, <1>5, <1>8
<1>10. Succeeds' => Succeeds
  <2>1. ASSUME NEW i \in 1..Len(txSignals') PROVE i + 1 \in 1..n /\ txSignals'[i] = txSignals[i + 1]
    BY <1>2
  <2> QED BY <2>1 DEF Succeeds
<1>11. s = Signal("finished", TRUE) => Succeeds
  <2>1. s = Success => Succeeds
    BY <1>2 DEF Succeeds
  <2> QED BY <2>1, Zenon DEF Success
<1>12. Coming = Coming' \cup (IF s.name = "package" THEN {s.value} ELSE {})
  <2>1. ASSUME NEW v \in Coming PROVE v \in Coming' \cup (IF s.name = "package" THEN {s.value} ELSE {})
    <3>1. PICK i \in 1..n : txSignals[i].name = "package" /\ txSignals[i].value = v
      BY <2>1 DEF Coming
    <3>2. CASE i = 1
      BY <1>2, <3>1, <3>2
    <3>3. CASE i # 1
      <4>1. i - 1 \in 1..(n - 1) /\ (i - 1) + 1 = i
        BY <1>2, <3>3
      <4>2. txSignals'[i - 1] = txSignals[i] /\ i - 1 \in 1..Len(txSignals')
        BY <1>2, <4>1
      <4> QED BY <3>1, <4>2 DEF Coming
    <3> QED BY <3>2, <3>3
  <2>2. ASSUME NEW v \in Coming' PROVE v \in Coming
    <3>1. PICK i \in 1..Len(txSignals') : txSignals'[i].name = "package" /\ txSignals'[i].value = v
      BY <2>2 DEF Coming
    <3>2. i + 1 \in 1..n /\ txSignals'[i] = txSignals[i + 1]
      BY <1>2
    <3> QED BY <3>1, <3>2 DEF Coming
  <2>3. s.name = "package" => s.value \in Coming
    BY <1>2 DEF Coming
  <2> QED BY <2>1, <2>2, <2>3
<1>13. tx.future # "done" /\ pc["worker"] # "creating"
  BY <1>1 DEF PackagesOK, TransactionOK
<1>14. tx'.future = "done" => txSignals' = <<>> /\ Succeeds /\ Coming' = {}
  <2>1. tx'.future = "done" => s.name = "finished" /\ Succeeds
    BY <1>4, <1>11, <1>13
  <2>2. s.name = "finished" => Len(txSignals') = 0
    BY <1>2, <1>3
  <2>3. Len(txSignals') = 0 => txSignals' = <<>> /\ Coming' = {}
    <3> HIDE DEF M, s, n
    <3>1. Len(txSignals') = 0 => txSignals' = <<>> /\ 1..Len(txSignals') = {}
      BY <1>2
    <3>2. ASSUME Len(txSignals') = 0, NEW v \in Coming' PROVE FALSE
      <4>1. PICK i \in 1..Len(txSignals') : TRUE
        BY <3>2 DEF Coming
      <4> QED BY <3>1, <3>2, <4>1
    <3>3. Len(txSignals') = 0 => Coming' = {}
      BY <3>2
    <3> QED BY <3>1, <3>3
  <2> QED BY <2>1, <2>2, <2>3
<1>15. tx.step \in {"list", "choose"} => tx'.result \cup Coming' = tx.result \cup Coming
  BY <1>5, <1>9, <1>12 DEF RolesWithPackages
<1>16. /\ pkgProvider = "packagekit" /\ pkgHolder \in PackageTask /\ pc[pkgHolder] = tx.step
       /\ tx.step = "upgrade" /\ Succeeds => pkgIndexed = {}
       /\ tx.step \in {"list", "choose"} /\ Succeeds => tx.result \cup Coming = pkgIndexed
       /\ pc["worker"] \in {"idle", "creating", "calling"}
  BY <1>1 DEF PackagesOK, TransactionOK
<1> HIDE DEF s, M, n
<1>17. tx.step \in {"list", "choose"} => /\ tx'.future = "done" => tx'.result = pkgIndexed'
                                         /\ Succeeds' => tx'.result \cup Coming' = pkgIndexed'
  BY <1>1, <1>10, <1>14, <1>15, <1>16
<1>18. TransactionOK'
  BY <1>1, <1>2, <1>5, <1>6, <1>7, <1>9, <1>10, <1>13, <1>14, <1>16, <1>17 DEF TransactionOK, M
<1>19. PackageTypes' /\ ListOK' /\ pkgLeft' = {}
  BY <1>1, <1>5, <1>6 DEF PackagesOK, PackageTypes, ListOK, Upgrades
<1> QED BY <1>1, <1>18, <1>19 DEF PackagesOK, JobOK

LEMMA PackagesStartKeeps ==
  ASSUME PackagesOK, PackagesStart
  PROVE  PackagesOK'
<1>1. /\ pkgProvider = "unset" /\ pkgProvider' \in {"packagekit", "apt", "none"}
      /\ pkgAvail' = pkgStored
      /\ UNCHANGED <<pc, pkgOld, pkgIndexed, pkgStored, pkgJob, pkgHolder, pkgIds, tx, txSignals,
                     pkgHalf, pkgLeft>>
  BY DEF PackagesStart, WorldKept, FallbackProviders
<1>2. tx = None /\ txSignals = <<>> /\ pc["worker"] = "idle"
  BY <1>1 DEF PackagesOK, TransactionOK
<1>3. TransactionOK' /\ ~Upgrades' /\ ~Upgrades
  BY <1>1, <1>2, NoTransaction DEF Upgrades
<1> QED BY <1>1, <1>3 DEF PackagesOK, PackageTypes, ListOK, JobOK

LEMMA PackagesChangeKeeps ==
  ASSUME PackagesOK, PackagesChange
  PROVE  PackagesOK'
<1>1. /\ pkgOld' \subseteq Package /\ pkgIndexed \subseteq pkgOld'
      /\ UNCHANGED <<pc, pkgIndexed, pkgProvider, pkgAvail, pkgStored, pkgJob, pkgHolder, pkgIds, tx,
                     txSignals, pkgHalf, pkgLeft>>
  BY DEF PackagesChange, PackagesOK, PackageTypes
<1>2. TransactionOK'
  BY <1>1 DEF PackagesOK, TransactionOK, SignalOK, Succeeds, Coming
<1> QED BY <1>1, <1>2 DEF PackagesOK, PackageTypes, ListOK, Upgrades, JobOK

LEMMA PackagesCrashKeeps ==
  ASSUME PackagesOK, PackagesCrash
  PROVE  PackagesOK'
<1>1. /\ tx' = None /\ txSignals' = <<>> /\ DOMAIN pc' = Task /\ pkgProvider' = "unset"
      /\ pkgHalf' = (pkgHalf \/ Upgrades) /\ DOMAIN pkgJob' = PackageTask
      /\ UNCHANGED <<pkgOld, pkgIndexed, pkgStored, pkgLeft>>
  BY DEF PackagesCrash, WorldKept, Upgrades
<1>2. \A t \in Task : pc'[t] = "idle"
  BY DEF PackagesCrash
<1>3. TransactionOK' /\ ~Upgrades'
  BY <1>1, <1>2, PackageTasks, NoTransaction
<1>4. \A t \in PackageTask : JobOK(t)'
  BY <1>2, PackageTasks DEF JobOK, PackageSteps
<1> QED BY <1>1, <1>3, <1>4 DEF PackagesOK, PackageTypes, ListOK

LEMMA PackagesKeep ==
  ASSUME PackagesOK, PackagesNext
  PROVE  PackagesOK'
BY PackagesStartKeeps, TransactionCalledKeeps, CallEndsKeeps, TransactionSignalKeeps,
   PackagesChangeKeeps, PackagesCrashKeeps, AskingKeeps, CommandsKeep, TransactionRunsKeeps,
   TransactionOverKeeps DEF PackagesNext
-----------------------------------------------------------------------------
(***************************************************************************)
(* The panel: one dialog at a time, each queue with its task, and what the  *)
(* panel is told last.                                                        *)
(***************************************************************************)
PanelScripts == [script : Macros \cup {"G28"}, by : Macros \cup {None}]

PanelTypes ==
  /\ panelJob \in {"standby", "printing", "pausing", "paused"}
  /\ DOMAIN pc = Task /\ klippy \in {"offline", "ready", "shutdown"}
  /\ fromPanel \in Seq(Line) /\ toPanel \in Seq(Message) /\ inHand \in Message \cup {None}
  /\ dialog \in Macros \cup {None} /\ confirmed \in Macros \cup {None}
  /\ gcQueue \in Seq(PanelScripts) /\ commandQueue \in Seq({"status", "delete"})

PanelQueues ==
  /\ gqBusy <=> gcQueue # <<>>
  /\ pc["worker"] = IF gcQueue # <<>> THEN "gcode" ELSE "idle"
  /\ cqBusy <=> commandQueue # <<>>
  /\ pc["timer"] = IF commandQueue # <<>> THEN "command" ELSE "idle"

InHandAsks == inHand # None /\ inHand.kind = "dialog"
NoneToCome == \A i \in 1..Len(toPanel) : toPanel[i].kind # "dialog"
NoneToRead == \A i \in 1..Len(fromPanel) : fromPanel[i].kind # "ok"

OneDialog ==
  /\ dialog # None => dialog = confirmed /\ ~InHandAsks /\ NoneToCome /\ NoneToRead
  /\ InHandAsks => inHand.what = confirmed /\ NoneToCome /\ NoneToRead
  /\ \A i \in 1..Len(toPanel) : toPanel[i].kind = "dialog" =>
       /\ toPanel[i].what = confirmed /\ NoneToRead
       /\ \A j \in 1..Len(toPanel) : toPanel[j].kind = "dialog" => j = i
  /\ \A i \in 1..Len(fromPanel) : fromPanel[i].kind = "ok" =>
       /\ fromPanel[i].macro = confirmed
       /\ \A j \in 1..Len(fromPanel) : fromPanel[j].kind = "ok" => j = i

Confirmed ==
  \A i \in 1..Len(gcQueue) : gcQueue[i].script \in Macros => gcQueue[i].by = gcQueue[i].script

PanelState ==
  /\ klippy = "offline" => ~panelShutdown
  /\ ~readyOvertaken /\ ~Idle("event") => klippy = "ready" /\ ~panelShutdown
  /\ ~readyOvertaken /\ Idle("event") /\ panelReady =>
       klippy # "offline" /\ (panelShutdown <=> klippy = "shutdown")

(* The last the panel is told of the printer *)
NoStatus == \A i \in 1..Len(toPanel) : toPanel[i].kind # "status"
SaysOff ==
  /\ \A i \in 1..Len(toPanel) :
       toPanel[i].kind = "status" /\ (\A j \in 1..Len(toPanel) : j > i => toPanel[j].kind # "status")
         => toPanel[i].what = "O"
  /\ NoStatus => IF lineUp /\ inHand # None /\ inHand.kind = "status" THEN inHand.what = "O"
                 ELSE screen \in {"O", None}

PanelScreen ==
  /\ ~lineUp => toPanel = <<>> /\ screen = None
  /\ klippy = "offline" /\ ~readyOvertaken /\ ~mixed => SaysOff

PanelOK ==
  /\ PanelTypes /\ PanelQueues /\ PanelState /\ PanelScreen
  /\ ~mixed => OneDialog /\ Confirmed

LEMMA PanelBegins ==
  ASSUME HostInit, PanelDueInit
  PROVE  PanelOK
<1>1. /\ DOMAIN pc = Task /\ \A t \in Task : pc[t] = "idle"
      /\ klippy = "ready" /\ {"worker", "timer", "event"} \subseteq Task
  BY DEF HostInit, Task, Background
<1>2. PanelTypes
  BY <1>1 DEF PanelDueInit, PanelTypes
<1>3. PanelQueues /\ PanelState /\ PanelScreen
  BY <1>1 DEF PanelDueInit, PanelQueues, PanelState, PanelScreen, Idle
<1>4. OneDialog /\ Confirmed
  BY DEF PanelDueInit, OneDialog, Confirmed, InHandAsks, NoneToCome, NoneToRead
<1> QED BY <1>2, <1>3, <1>4 DEF PanelOK

LEMMA PanelServes ==
  ASSUME PanelOK
  PROVE  PanelServed /\ PanelKnowsPrinter
<1>1. toPanel = <<>> => NoStatus
  BY DEF NoStatus
<1>2. PanelServed
  BY DEF PanelOK, PanelQueues, Confirmed, PanelServed, Idle
<1>3. PanelKnowsPrinter
  BY <1>1 DEF PanelOK, PanelState, PanelScreen, SaysOff, PanelKnowsPrinter
<1> QED BY <1>2, <1>3

(* What is not told changes nothing. *)
LEMMA PanelFrame ==
  ASSUME PanelOK, UNCHANGED panelVars
  PROVE  /\ pc' = pc => PanelQueues'
         /\ klippy' = klippy => PanelScreen'
         /\ ~mixed => OneDialog' /\ Confirmed'
         /\ DOMAIN pc' = Task /\ klippy' \in {"offline", "ready", "shutdown"} => PanelTypes'
         /\ pc' = pc /\ klippy' = klippy => PanelOK'
<1> USE DEF panelVars, lineVars, queueVars, stateVars
<1>1. pc' = pc => PanelQueues'
  BY DEF PanelOK, PanelQueues
<1>2. klippy' = klippy => PanelScreen'
  BY DEF PanelOK, PanelScreen, SaysOff, NoStatus
<1>3. ~mixed => OneDialog' /\ Confirmed'
  BY DEF PanelOK, OneDialog, Confirmed, InHandAsks, NoneToCome, NoneToRead
<1>4. DOMAIN pc' = Task /\ klippy' \in {"offline", "ready", "shutdown"} => PanelTypes'
  BY DEF PanelOK, PanelTypes
<1>5. pc' = pc /\ klippy' = klippy => PanelState'
  BY DEF PanelOK, PanelState, Idle
<1> QED BY <1>1, <1>2, <1>3, <1>4, <1>5 DEF PanelOK, PanelTypes

LEMMA LineOpensKeeps ==
  ASSUME PanelOK, LineOpens
  PROVE  PanelOK'
<1> USE DEF LineOpens, queueVars, stateVars, PrinterStays
<1>1. PanelTypes'
  BY DEF PanelOK, PanelTypes
<1>2. PanelQueues' /\ PanelState'
  BY DEF PanelOK, PanelQueues, PanelState, Idle
<1>3. PanelScreen'
  BY DEF PanelOK, PanelScreen, SaysOff, NoStatus
<1>4. ~mixed => OneDialog' /\ Confirmed'
  BY DEF PanelOK, OneDialog, Confirmed, InHandAsks, NoneToCome, NoneToRead
<1> QED BY <1>1, <1>2, <1>3, <1>4 DEF PanelOK

LEMMA LineLostKeeps ==
  ASSUME PanelOK, LineLost
  PROVE  PanelOK'
<1> USE DEF LineLost, queueVars, stateVars, PrinterStays
<1>1. PICK n \in 0..Len(fromPanel) : fromPanel' = SubSeq(fromPanel, 1, n)
  OBVIOUS
<1>2. /\ fromPanel \in Seq(Line) /\ fromPanel' \in Seq(Line) /\ Len(fromPanel') = n /\ Len(fromPanel) \in Nat
      /\ \A i \in 1..n : i \in 1..Len(fromPanel) /\ fromPanel'[i] = fromPanel[i]
  BY <1>1 DEF PanelOK, PanelTypes
<1>3. PanelTypes'
  BY <1>2 DEF PanelOK, PanelTypes
<1>4. PanelQueues' /\ PanelState'
  BY DEF PanelOK, PanelQueues, PanelState, Idle
<1>5. PanelScreen'
  BY DEF PanelOK, PanelScreen, SaysOff, NoStatus
<1>6. ASSUME ~mixed PROVE OneDialog' /\ Confirmed'
  <2>1. NoneToRead => NoneToRead'
    BY <1>2 DEF NoneToRead
  <2>2. OneDialog /\ Confirmed
    BY <1>6 DEF PanelOK
  <2>3. \A i \in 1..Len(fromPanel') : fromPanel'[i].kind = "ok" =>
          /\ fromPanel'[i].macro = confirmed
          /\ \A j \in 1..Len(fromPanel') : fromPanel'[j].kind = "ok" => j = i
    BY <1>2, <2>2 DEF OneDialog
  <2>4. Confirmed'
    BY <2>2 DEF Confirmed
  <2> QED BY <2>1, <2>2, <2>3, <2>4 DEF OneDialog, InHandAsks, NoneToCome
<1> QED BY <1>3, <1>4, <1>5, <1>6 DEF PanelOK

LEMMA AllButTheLast ==
  ASSUME NEW S, NEW s \in Seq(S), s # <<>>
  PROVE  LET n == Len(s)   t == SubSeq(s, 1, n - 1) IN
         /\ n \in Nat \ {0} /\ s[n] \in S /\ t \in Seq(S) /\ Len(t) = n - 1
         /\ t = <<>> => n = 1
<1> DEFINE n == Len(s)
           t == SubSeq(s, 1, n - 1)
<1>1. n \in Nat \ {0} /\ s[n] \in S
  OBVIOUS
<1>2. t \in Seq(S) /\ Len(t) = n - 1
  <2>1. \A k \in 0..Len(s) : SubSeq(s, 1, k) \in Seq(S) /\ Len(SubSeq(s, 1, k)) = k
    OBVIOUS
  <2>2. n - 1 \in 0..Len(s)
    BY <1>1
  <2> QED BY <2>1, <2>2
<1>3. \A x : x = <<>> => Len(x) = 0
  OBVIOUS
<1> HIDE DEF t, n
<1>4. t = <<>> => n = 1
  BY <1>1, <1>2, <1>3
<1> QED BY <1>1, <1>2, <1>4 DEF n, t

LEMMA PanelSendingKeeps ==
  ASSUME PanelOK, PanelSending
  PROVE  PanelOK'
<1> DEFINE n == Len(toPanel)
           m == toPanel[n]
<1> USE DEF PanelSending, queueVars, stateVars, PrinterStays
<1>1. /\ n \in Nat \ {0} /\ toPanel \in Seq(Message) /\ m \in Message /\ toPanel' \in Seq(Message)
      /\ m # None /\ Len(toPanel') = n - 1 /\ (toPanel' = <<>> => n = 1)
  BY AllButTheLast, PanelConstants DEF PanelOK, PanelTypes
<1>2. (m.kind = "status" /\ m.what \in Status) \/ (m.kind = "dialog" /\ m.what \in Macros)
  BY <1>1 DEF Message
<1>3. /\ UNCHANGED <<pc, klippy, panelJob, fromPanel, lineUp, confirmed, gcQueue, gqBusy, commandQueue, cqBusy,
                     panelReady, panelShutdown, readyOvertaken>>
      /\ inHand = None /\ mixed' = (mixed \/ toPanel' # <<>>)
      /\ \/ inHand' = None /\ Shows(m)
         \/ inHand' = m /\ UNCHANGED <<screen, dialog>>
  OBVIOUS
<1>4. lineUp
  BY <1>1 DEF PanelOK, PanelScreen
<1> HIDE DEF PanelSending
<1>5. PanelTypes'
  BY <1>1, <1>2, <1>3 DEF PanelOK, PanelTypes, Shows
<1>6. PanelQueues' /\ PanelState'
  BY <1>3 DEF PanelOK, PanelQueues, PanelState, Idle
<1>7. ASSUME ~mixed' PROVE ~mixed /\ toPanel' = <<>> /\ n = 1 /\ toPanel[1] = m
  <2>1. ~mixed /\ toPanel' = <<>>
    BY <1>3, <1>7
  <2>2. n = 1
    BY <1>1, <2>1
  <2> QED BY <2>1, <2>2
<1>8. PanelScreen'
  <2>1. ASSUME klippy = "offline", ~readyOvertaken, ~mixed' PROVE SaysOff'
    <3>1. SaysOff /\ toPanel' = <<>> /\ n = 1 /\ toPanel[1] = m
      BY <1>7, <2>1 DEF PanelOK, PanelScreen
    <3>2. m.kind = "status" => m.what = "O"
      BY <3>1 DEF SaysOff
    <3>3. m.kind # "status" => screen \in {"O", None}
      BY <1>3, <3>1 DEF SaysOff, NoStatus
    <3> HIDE DEF m, n
    <3>4. inHand' # None /\ inHand'.kind = "status" => inHand'.what = "O"
      BY <1>3, <3>2
    <3>5. ~(inHand' # None /\ inHand'.kind = "status") => screen' \in {"O", None}
      BY <1>1, <1>2, <1>3, <3>2, <3>3 DEF Shows
    <3>6. ~\E i \in 1..Len(toPanel') : TRUE
      BY <3>1
    <3>7. (IF lineUp /\ inHand # None /\ inHand.kind = "status" THEN inHand.what = "O"
           ELSE screen \in {"O", None})'
      BY <3>4, <3>5, <1>3, <1>4
    <3> QED BY <3>6, <3>7, Zenon DEF SaysOff
  <2> QED BY <1>3, <1>4, <2>1 DEF PanelScreen
<1>9. ASSUME ~mixed' PROVE OneDialog' /\ Confirmed'
  <2>1. OneDialog /\ Confirmed /\ toPanel' = <<>> /\ n = 1 /\ toPanel[1] = m
    BY <1>7, <1>9 DEF PanelOK
  <2>2. m.kind = "dialog" => m.what = confirmed /\ NoneToRead /\ dialog = None
    BY <2>1 DEF OneDialog, NoneToCome
  <2>3. (NoneToRead' <=> NoneToRead) /\ NoneToCome' /\ Confirmed'
    BY <1>3, <2>1 DEF NoneToRead, NoneToCome, Confirmed
  <2> HIDE DEF m, n
  <2>4. /\ dialog' # None => dialog' = confirmed /\ ~InHandAsks' /\ NoneToRead
        /\ InHandAsks' => inHand'.what = confirmed /\ NoneToRead
    BY <1>2, <1>3, <2>1, <2>2 DEF OneDialog, InHandAsks, Shows
  <2> QED BY <1>3, <2>1, <2>3, <2>4 DEF OneDialog
<1> QED BY <1>5, <1>6, <1>8, <1>9 DEF PanelOK

LEMMA SendEndsKeeps ==
  ASSUME PanelOK, SendEnds
  PROVE  PanelOK'
<1> USE DEF SendEnds, queueVars, stateVars, PrinterStays
<1>1. inHand \in Message /\ inHand' = None
  BY DEF PanelOK, PanelTypes
<1>2. (inHand.kind = "status" /\ inHand.what \in Status) \/ (inHand.kind = "dialog" /\ inHand.what \in Macros)
  BY <1>1 DEF Message
<1>3. PanelTypes'
  BY <1>1, <1>2 DEF PanelOK, PanelTypes, Shows
<1>4. PanelQueues' /\ PanelState'
  BY DEF PanelOK, PanelQueues, PanelState, Idle
<1>5. PanelScreen'
  BY <1>1, <1>2 DEF PanelOK, PanelScreen, SaysOff, NoStatus, Shows
<1>6. ASSUME ~mixed PROVE OneDialog' /\ Confirmed'
  <2>1. OneDialog /\ Confirmed
    BY <1>6 DEF PanelOK
  <2>2. (NoneToRead' <=> NoneToRead) /\ (NoneToCome' <=> NoneToCome) /\ Confirmed' /\ ~InHandAsks'
    BY <1>1, <2>1 DEF NoneToRead, NoneToCome, Confirmed, InHandAsks
  <2>3. dialog' # None => dialog' = confirmed /\ NoneToCome /\ NoneToRead
    BY <1>1, <1>2, <2>1 DEF OneDialog, InHandAsks, Shows
  <2>4. \A i \in 1..Len(toPanel) : toPanel[i].kind = "dialog" =>
          /\ toPanel[i].what = confirmed /\ NoneToRead
          /\ \A j \in 1..Len(toPanel) : toPanel[j].kind = "dialog" => j = i
    BY <2>1 DEF OneDialog
  <2>5. \A i \in 1..Len(fromPanel) : fromPanel[i].kind = "ok" =>
          /\ fromPanel[i].macro = confirmed
          /\ \A j \in 1..Len(fromPanel) : fromPanel[j].kind = "ok" => j = i
    BY <2>1 DEF OneDialog
  <2> QED BY <2>2, <2>3, <2>4, <2>5 DEF OneDialog
<1> QED BY <1>3, <1>4, <1>5, <1>6 DEF PanelOK

LEMMA PanelSendsKeeps ==
  ASSUME PanelOK, PanelSends
  PROVE  PanelOK'
<1>1. PICK line \in Line :
        /\ fromPanel' = Append(fromPanel, line)
        /\ IF line.kind \in {"ok", "cancel"}
           THEN /\ dialog # None /\ dialog' = None /\ UNCHANGED left
                /\ line.kind = "ok" => line.macro = dialog
           ELSE dialog = None /\ Spends("asks") /\ UNCHANGED dialog
  BY DEF PanelSends
<1>2. UNCHANGED <<pc, lineUp, toPanel, inHand, screen, mixed, queueVars, stateVars, component, klippy, printing>>
  BY DEF PanelSends, PrinterStays
<1> USE DEF queueVars, stateVars
<1>3. /\ fromPanel \in Seq(Line) /\ fromPanel' \in Seq(Line) /\ Len(fromPanel') = Len(fromPanel) + 1
      /\ Len(fromPanel) \in Nat /\ fromPanel'[Len(fromPanel) + 1] = line
      /\ \A i \in 1..Len(fromPanel) : fromPanel'[i] = fromPanel[i]
  BY <1>1 DEF PanelOK, PanelTypes
<1>4. PanelTypes'
  BY <1>1, <1>2, <1>3 DEF PanelOK, PanelTypes
<1>5. PanelQueues' /\ PanelState'
  BY <1>2 DEF PanelOK, PanelQueues, PanelState, Idle
<1>6. PanelScreen'
  BY <1>2 DEF PanelOK, PanelScreen, SaysOff, NoStatus
<1>7. ASSUME ~mixed PROVE OneDialog' /\ Confirmed'
  <2>1. OneDialog /\ Confirmed'
    BY <1>2, <1>7 DEF PanelOK, Confirmed
  <2>2. (NoneToCome' <=> NoneToCome) /\ (InHandAsks' <=> InHandAsks) /\ confirmed' = confirmed
    BY <1>2 DEF NoneToCome, InHandAsks
  <2>3. line.kind # "ok" => (NoneToRead' <=> NoneToRead)
    BY <1>3 DEF NoneToRead
  <2>4. CASE line.kind = "ok"
    <3>1. line.macro = confirmed /\ ~InHandAsks /\ NoneToCome /\ NoneToRead /\ dialog' = None
      BY <1>1, <2>1, <2>4 DEF OneDialog
    <3>2. \A i \in 1..Len(fromPanel') : fromPanel'[i].kind = "ok" => i = Len(fromPanel) + 1
      BY <1>3, <3>1 DEF NoneToRead
    <3>3. \A i \in 1..Len(toPanel') : toPanel'[i].kind # "dialog"
      BY <2>2, <3>1 DEF NoneToCome
    <3>4. \A i \in 1..Len(fromPanel') : fromPanel'[i].kind = "ok" =>
            /\ fromPanel'[i].macro = confirmed'
            /\ \A j \in 1..Len(fromPanel') : fromPanel'[j].kind = "ok" => j = i
      BY <1>3, <2>2, <3>1, <3>2
    <3>5. ~InHandAsks' /\ ~(dialog' # None)
      BY <2>2, <3>1
    <3> QED BY <2>1, <3>3, <3>4, <3>5, Zenon DEF OneDialog
  <2>5. CASE line.kind # "ok"
    <3>1. dialog' # None => dialog = dialog'
      BY <1>1
    <3>2. \A i \in 1..Len(fromPanel') : fromPanel'[i].kind = "ok" =>
            i \in 1..Len(fromPanel) /\ fromPanel'[i] = fromPanel[i]
      BY <1>3, <2>5
    <3>3. \A i \in 1..Len(fromPanel') : fromPanel'[i].kind = "ok" =>
            /\ fromPanel'[i].macro = confirmed
            /\ \A j \in 1..Len(fromPanel') : fromPanel'[j].kind = "ok" => j = i
      BY <2>1, <3>2 DEF OneDialog
    <3> QED BY <1>2, <2>1, <2>2, <2>3, <2>5, <3>1, <3>3 DEF OneDialog
  <2> QED BY <2>1, <2>4, <2>5
<1> QED BY <1>2, <1>4, <1>5, <1>6, <1>7 DEF PanelOK

(* Queues: what is put into one, and what is taken out *)
LEMMA QueuesGcodeKeeps ==
  ASSUME PanelOK, NEW scripts \in Seq(PanelScripts), QueuesGcode(scripts),
         UNCHANGED <<commandQueue, cqBusy>>
  PROVE  /\ PanelQueues' /\ DOMAIN pc' = Task /\ gcQueue' \in Seq(PanelScripts)
         /\ pc'["event"] = pc["event"]
         /\ Confirmed /\ (\A i \in 1..Len(scripts) :
                            scripts[i].script \in Macros => scripts[i].by = scripts[i].script)
              => Confirmed'
<1>1. /\ gcQueue \in Seq(PanelScripts) /\ gcQueue' = gcQueue \o scripts
      /\ DOMAIN pc = Task /\ {"worker", "timer", "event"} \subseteq Task
  BY DEF PanelOK, PanelTypes, QueuesGcode, Task, Background
<1>2. /\ gcQueue' \in Seq(PanelScripts) /\ (gcQueue' # <<>> <=> gcQueue # <<>> \/ scripts # <<>>)
      /\ Len(gcQueue') = Len(gcQueue) + Len(scripts)
      /\ Len(gcQueue) \in Nat /\ Len(scripts) \in Nat
      /\ \A i \in 1..Len(gcQueue) : gcQueue'[i] = gcQueue[i]
      /\ \A i \in 1..Len(scripts) : gcQueue'[Len(gcQueue) + i] = scripts[i]
  BY <1>1
<1>3. /\ pc' = (IF scripts # <<>> /\ ~gqBusy THEN [pc EXCEPT !["worker"] = "gcode"] ELSE pc)
      /\ gqBusy' = (gqBusy \/ scripts # <<>>)
  BY DEF QueuesGcode, Goes
<1>4. DOMAIN pc' = Task /\ pc'["event"] = pc["event"] /\ pc'["timer"] = pc["timer"]
      /\ pc'["worker"] = (IF scripts # <<>> /\ ~gqBusy THEN "gcode" ELSE pc["worker"])
  BY <1>1, <1>3
<1>5. PanelQueues'
  BY <1>2, <1>3, <1>4 DEF PanelOK, PanelQueues
<1>6. ASSUME Confirmed, \A i \in 1..Len(scripts) :
                          scripts[i].script \in Macros => scripts[i].by = scripts[i].script
      PROVE Confirmed'
  <2>1. ASSUME NEW i \in 1..Len(gcQueue')
        PROVE  gcQueue'[i].script \in Macros => gcQueue'[i].by = gcQueue'[i].script
    <3>1. CASE i \in 1..Len(gcQueue)
      BY <1>2, <1>6, <3>1 DEF Confirmed
    <3>2. CASE i \notin 1..Len(gcQueue)
      <4>1. i - Len(gcQueue) \in 1..Len(scripts) /\ Len(gcQueue) + (i - Len(gcQueue)) = i
        BY <1>2, <3>2
      <4> QED BY <1>2, <1>6, <4>1
    <3> QED BY <3>1, <3>2
  <2> QED BY <2>1 DEF Confirmed
<1> QED BY <1>2, <1>4, <1>5, <1>6

LEMMA QueuesCommandKeeps ==
  ASSUME PanelOK, NEW command \in {"status", "delete"}, QueuesCommand(command),
         UNCHANGED <<gcQueue, gqBusy>>
  PROVE  /\ PanelQueues' /\ DOMAIN pc' = Task /\ commandQueue' \in Seq({"status", "delete"})
         /\ pc'["event"] = pc["event"]
<1>1. /\ commandQueue \in Seq({"status", "delete"})
      /\ commandQueue' = Append(commandQueue, command) /\ cqBusy' = TRUE
      /\ DOMAIN pc = Task /\ {"worker", "timer", "event"} \subseteq Task
  BY DEF PanelOK, PanelTypes, QueuesCommand, Task, Background
<1>2. commandQueue' \in Seq({"status", "delete"}) /\ commandQueue' # <<>>
  BY <1>1
<1>3. DOMAIN pc' = Task /\ pc'["event"] = pc["event"] /\ pc'["worker"] = pc["worker"]
      /\ pc'["timer"] = (IF ~cqBusy THEN "command" ELSE pc["timer"])
  BY <1>1 DEF QueuesCommand, Goes
<1> QED BY <1>1, <1>2, <1>3 DEF PanelOK, PanelQueues

LEMMA GcodeRunKeeps ==
  ASSUME PanelOK, GcodeRun
  PROVE  PanelOK'
<1>1. /\ pc["worker"] = "gcode" /\ gcQueue' = Tail(gcQueue)
      /\ gqBusy' = (gcQueue' # <<>>)
      /\ Goes("worker", IF gcQueue' = <<>> THEN "idle" ELSE "gcode")
  BY DEF GcodeRun, MoreGcode
<1>2. UNCHANGED <<lineVars, confirmed, commandQueue, cqBusy, stateVars, component, klippy, printing>>
  BY DEF GcodeRun, PrinterStays
<1>3. /\ gcQueue \in Seq(PanelScripts) /\ gcQueue # <<>>
      /\ DOMAIN pc = Task /\ {"worker", "timer", "event"} \subseteq Task
  BY <1>1 DEF PanelOK, PanelTypes, PanelQueues, Task, Background
<1>4. /\ gcQueue' \in Seq(PanelScripts) /\ Len(gcQueue') = Len(gcQueue) - 1 /\ Len(gcQueue) \in Nat
      /\ \A i \in 1..Len(gcQueue') : gcQueue'[i] = gcQueue[i + 1]
  BY <1>1, <1>3
<1>5. DOMAIN pc' = Task /\ pc'["event"] = pc["event"] /\ pc'["timer"] = pc["timer"]
      /\ pc'["worker"] = (IF gcQueue' = <<>> THEN "idle" ELSE "gcode")
  BY <1>1, <1>3 DEF Goes
<1> USE DEF lineVars, stateVars
<1>6. PanelTypes'
  BY <1>2, <1>4, <1>5 DEF PanelOK, PanelTypes
<1>7. PanelQueues' /\ PanelState'
  BY <1>1, <1>2, <1>5 DEF PanelOK, PanelQueues, PanelState, Idle
<1>8. PanelScreen'
  BY <1>2 DEF PanelOK, PanelScreen, SaysOff, NoStatus
<1>9. ASSUME ~mixed PROVE OneDialog' /\ Confirmed'
  <2>1. OneDialog' /\ Confirmed
    BY <1>2, <1>9 DEF PanelOK, OneDialog, InHandAsks, NoneToCome, NoneToRead
  <2>2. \A i \in 1..Len(gcQueue') : i + 1 \in 1..Len(gcQueue)
    BY <1>4
  <2> QED BY <1>4, <2>1, <2>2 DEF Confirmed
<1> QED BY <1>2, <1>6, <1>7, <1>8, <1>9 DEF PanelOK

(* What the panel is told: a status "O", or a dialog. *)
LEMMA ToldKeepsSaysOff ==
  ASSUME PanelTypes, NEW m \in Message, toPanel' = Append(toPanel, m), SaysOff,
         m.kind = "status" => m.what = "O", UNCHANGED <<lineUp, inHand, screen>>
  PROVE  SaysOff'
<1>1. /\ toPanel \in Seq(Message) /\ Len(toPanel) \in Nat /\ Len(toPanel') = Len(toPanel) + 1
      /\ toPanel'[Len(toPanel) + 1] = m
      /\ \A i \in 1..Len(toPanel) : toPanel'[i] = toPanel[i] /\ i \in 1..Len(toPanel')
      /\ Len(toPanel) + 1 \in 1..Len(toPanel')
      /\ \A i \in 1..Len(toPanel') : i \in 1..Len(toPanel) \/ i = Len(toPanel) + 1
  BY DEF PanelTypes
<1>2. ASSUME NEW i \in 1..Len(toPanel'), toPanel'[i].kind = "status",
             \A j \in 1..Len(toPanel') : j > i => toPanel'[j].kind # "status"
      PROVE  toPanel'[i].what = "O"
  <2>1. CASE i = Len(toPanel) + 1
    BY <1>1, <1>2, <2>1
  <2>2. CASE i \in 1..Len(toPanel)
    <3>1. \A j \in 1..Len(toPanel) : j > i => toPanel[j].kind # "status"
      BY <1>1, <1>2
    <3> QED BY <1>1, <1>2, <2>2, <3>1 DEF SaysOff
  <2> QED BY <1>1, <2>1, <2>2
<1>3. NoStatus' => NoStatus
  BY <1>1 DEF NoStatus
<1> QED BY <1>2, <1>3 DEF SaysOff

LEMMA OffIsTold ==
  ASSUME PanelTypes, toPanel' = Append(toPanel, [kind |-> "status", what |-> "O"])
  PROVE  SaysOff'
<1> DEFINE m == [kind |-> "status", what |-> "O"]
<1>1. /\ toPanel \in Seq(Message) /\ Len(toPanel) \in Nat /\ Len(toPanel') = Len(toPanel) + 1
      /\ toPanel'[Len(toPanel) + 1] = m /\ Len(toPanel) + 1 \in 1..Len(toPanel')
      /\ \A i \in 1..Len(toPanel') : i = Len(toPanel) + 1 \/ Len(toPanel) + 1 > i
  BY DEF PanelTypes
<1>2. m.kind = "status" /\ m.what = "O"
  OBVIOUS
<1> HIDE DEF m
<1>3. ~NoStatus'
  BY <1>1, <1>2 DEF NoStatus
<1> QED BY <1>1, <1>2, <1>3 DEF SaysOff

LEMMA CommandRunKeeps ==
  ASSUME PanelOK, CommandRun
  PROVE  PanelOK'
<1>1. /\ pc["timer"] = "command" /\ commandQueue' = Tail(commandQueue)
      /\ cqBusy' = (commandQueue' # <<>>)
      /\ Goes("timer", IF commandQueue' = <<>> THEN "idle" ELSE "command")
  BY DEF CommandRun
<1>2. UNCHANGED <<lineUp, fromPanel, inHand, screen, dialog, mixed, confirmed, gcQueue,
                  gqBusy, panelReady, panelShutdown, readyOvertaken, klippy>>
  BY DEF CommandRun, PrinterStays
<1>0. panelJob' = panelJob
  BY DEF CommandRun
<1>3. /\ commandQueue \in Seq({"status", "delete"}) /\ commandQueue # <<>>
      /\ DOMAIN pc = Task /\ {"worker", "timer", "event"} \subseteq Task
  BY <1>1 DEF PanelOK, PanelTypes, PanelQueues, Task, Background
<1>4. commandQueue' \in Seq({"status", "delete"})
  BY <1>1, <1>3
<1>5. DOMAIN pc' = Task /\ pc'["event"] = pc["event"] /\ pc'["worker"] = pc["worker"]
      /\ pc'["timer"] = (IF commandQueue' = <<>> THEN "idle" ELSE "command")
  BY <1>1, <1>3 DEF Goes
<1>6. \/ toPanel' = toPanel
      \/ /\ lineUp /\ toPanel' = Append(toPanel, [kind |-> "status", what |-> lastPrinterState'])
         /\ lastPrinterState' = IF panelReady THEN PrinterStatus ELSE "O"
  <2>1. \A x : toPanel \o <<x>> = Append(toPanel, x)
    BY DEF PanelOK, PanelTypes
  <2> QED BY <2>1 DEF CommandRun, PanelAnswered, PanelWrites
<1>7. /\ PrinterStatus \in Status
      /\ [kind |-> "status", what |-> PrinterStatus] \in Message
      /\ [kind |-> "status", what |-> "O"] \in Message
  <2>1. PrinterStatus \in Status
    BY DEF PrinterStatus, Status, PanelOK, PanelTypes
  <2> QED BY <2>1 DEF Message, Status
<1>8. PanelTypes'
  <2>1. toPanel' \in Seq(Message)
    <3>1. toPanel \in Seq(Message)
      BY DEF PanelOK, PanelTypes
    <3>2. \A m \in Message : Append(toPanel, m) \in Seq(Message)
      BY <3>1
    <3> QED BY <1>6, <1>7, <3>1, <3>2
  <2> QED BY <1>0, <1>2, <1>4, <1>5, <2>1 DEF PanelOK, PanelTypes
<1>9. PanelQueues' /\ PanelState'
  BY <1>1, <1>2, <1>5 DEF PanelOK, PanelQueues, PanelState, Idle
<1>10. PanelScreen'
  <2>1. ASSUME klippy = "offline", ~readyOvertaken, ~mixed PROVE SaysOff'
    <3>1. SaysOff /\ ~panelReady
      BY <2>1 DEF PanelOK, PanelScreen, PanelState
    <3>2. CASE toPanel' = toPanel
      BY <1>2, <3>1, <3>2 DEF SaysOff, NoStatus
    <3>3. CASE toPanel' # toPanel
      BY <1>2, <1>6, <3>1, <3>3, OffIsTold DEF PanelOK
    <3> QED BY <3>2, <3>3
  <2> QED BY <1>2, <1>6, <2>1 DEF PanelOK, PanelScreen
<1>11. ASSUME ~mixed PROVE OneDialog' /\ Confirmed'
  <2>1. OneDialog /\ Confirmed'
    BY <1>2, <1>11 DEF PanelOK, Confirmed
  <2>2. \A i \in 1..Len(toPanel') : toPanel'[i].kind = "dialog" =>
          i \in 1..Len(toPanel) /\ toPanel'[i] = toPanel[i]
    <3>1. CASE toPanel' = toPanel
      BY <3>1
    <3>2. CASE toPanel' = Append(toPanel, [kind |-> "status", what |-> lastPrinterState'])
      BY <3>2 DEF PanelOK, PanelTypes
    <3> QED BY <1>6, <3>1, <3>2
  <2>3. NoneToCome => NoneToCome'
    BY <2>2 DEF NoneToCome
  <2>4. (NoneToRead' <=> NoneToRead) /\ (InHandAsks' <=> InHandAsks)
    BY <1>2 DEF NoneToRead, InHandAsks
  <2> QED BY <1>2, <2>1, <2>2, <2>3, <2>4 DEF OneDialog
<1> QED BY <1>2, <1>8, <1>9, <1>10, <1>11 DEF PanelOK

LEMMA PanelKlippyKeeps ==
  ASSUME PanelOK, PanelShutdown \/ PanelDisconnect \/ PanelReady \/ PanelJobChanges
  PROVE  PanelOK'
<1>1. UNCHANGED <<lineUp, fromPanel, inHand, screen, dialog, mixed, queueVars>>
  BY DEF PanelShutdown, PanelDisconnect, PanelReady, PanelJobChanges, lineVars
<1> USE DEF queueVars
<1>2. /\ DOMAIN pc = Task /\ {"worker", "timer", "event"} \subseteq Task
      /\ [kind |-> "status", what |-> "O"] \in Message
      /\ \A x : toPanel \o <<x>> = Append(toPanel, x)
  BY DEF PanelOK, PanelTypes, Task, Background, Message, Status
<1>3. /\ \/ toPanel' = toPanel
         \/ lineUp /\ toPanel' = Append(toPanel, [kind |-> "status", what |-> "O"])
      /\ klippy' = "offline" /\ klippy # "offline" /\ lineUp =>
           toPanel' = Append(toPanel, [kind |-> "status", what |-> "O"])
  BY <1>2 DEF PanelShutdown, PanelDisconnect, PanelReady, PanelJobChanges, lineVars, PrinterIsOff,
              PanelWrites, PrinterStays
<1>4. /\ DOMAIN pc' = Task /\ klippy' \in {"offline", "ready", "shutdown"}
      /\ pc'["worker"] = pc["worker"] /\ pc'["timer"] = pc["timer"]
  BY <1>2 DEF PanelShutdown, PanelDisconnect, PanelReady, PanelJobChanges, PrinterStays, Goes,
              PanelOK, PanelTypes
<1>0. panelJob' \in {"standby", "printing", "pausing", "paused"}
  BY DEF PanelShutdown, PanelDisconnect, PanelReady, PanelJobChanges, PanelOK, PanelTypes
<1>5. PanelTypes'
  <2>1. toPanel' \in Seq(Message)
    <3>1. toPanel \in Seq(Message)
      BY DEF PanelOK, PanelTypes
    <3>2. \A m \in Message : Append(toPanel, m) \in Seq(Message)
      BY <3>1
    <3> QED BY <1>2, <1>3, <3>1, <3>2
  <2> QED BY <1>0, <1>1, <1>4, <2>1 DEF PanelOK, PanelTypes
<1>6. PanelQueues'
  BY <1>1, <1>4 DEF PanelOK, PanelQueues
<1>7. PanelState'
  <2>1. CASE PanelShutdown
    BY <2>1 DEF PanelShutdown, PanelOK, PanelState, Idle
  <2>2. CASE PanelDisconnect
    BY <2>2 DEF PanelDisconnect, PanelOK, PanelState, Idle
  <2>3. CASE PanelReady
    <3>1. pc'["event"] = "info"
      BY <1>2, <2>3 DEF PanelReady, Goes
    <3> QED BY <2>3, <3>1 DEF PanelReady, PanelOK, PanelState, Idle
  <2>4. CASE PanelJobChanges
    BY <2>4 DEF PanelJobChanges, PanelOK, PanelState, Idle, PrinterStays
  <2> QED BY <2>1, <2>2, <2>3, <2>4
<1>8. PanelScreen'
  <2>1. ~lineUp => toPanel' = <<>> /\ screen' = None
    BY <1>1, <1>3 DEF PanelOK, PanelScreen
  <2>2. ASSUME klippy' = "offline", ~readyOvertaken', ~mixed PROVE SaysOff'
    <3>1. CASE toPanel' = Append(toPanel, [kind |-> "status", what |-> "O"])
      BY <3>1, OffIsTold DEF PanelOK
    <3>2. CASE toPanel' = toPanel
      <4>1. CASE klippy # "offline"
        <5>1. ~lineUp /\ toPanel' = <<>> /\ screen' = None
          <6>1. toPanel \in Seq(Message) /\ Append(toPanel, [kind |-> "status", what |-> "O"]) # toPanel
            BY <1>2 DEF PanelOK, PanelTypes
          <6> QED BY <1>3, <2>1, <2>2, <3>2, <4>1, <6>1
        <5> QED BY <1>1, <5>1 DEF SaysOff
      <4>2. CASE klippy = "offline"
        <5>1. readyOvertaken' = readyOvertaken
          BY <2>2, <4>2 DEF PanelShutdown, PanelDisconnect, PanelReady, PanelJobChanges, stateVars
        <5> QED BY <1>1, <2>2, <3>2, <4>2, <5>1 DEF PanelOK, PanelScreen, SaysOff, NoStatus
      <4> QED BY <4>1, <4>2
    <3> QED BY <1>3, <3>1, <3>2
  <2> QED BY <1>1, <2>1, <2>2 DEF PanelScreen
<1>9. ASSUME ~mixed PROVE OneDialog' /\ Confirmed'
  <2>1. OneDialog /\ Confirmed'
    BY <1>1, <1>9 DEF PanelOK, Confirmed
  <2>2. \A i \in 1..Len(toPanel') : toPanel'[i].kind = "dialog" =>
          i \in 1..Len(toPanel) /\ toPanel'[i] = toPanel[i]
    <3>1. CASE toPanel' = toPanel
      BY <3>1
    <3>2. CASE toPanel' = Append(toPanel, [kind |-> "status", what |-> "O"])
      BY <3>2 DEF PanelOK, PanelTypes
    <3> QED BY <1>3, <3>1, <3>2
  <2>3. NoneToCome => NoneToCome'
    BY <2>2 DEF NoneToCome
  <2>4. (NoneToRead' <=> NoneToRead) /\ (InHandAsks' <=> InHandAsks)
    BY <1>1 DEF NoneToRead, InHandAsks
  <2> QED BY <1>1, <2>1, <2>2, <2>3, <2>4 DEF OneDialog
<1> QED BY <1>1, <1>5, <1>6, <1>7, <1>8, <1>9 DEF PanelOK

LEMMA PanelInfoKeeps ==
  ASSUME PanelOK, InfoCame \/ PanelSubscribed
  PROVE  PanelOK'
<1>1. UNCHANGED <<lineVars, queueVars, klippy, readyOvertaken>>
  BY DEF InfoCame, PanelSubscribed, PrinterStays
<1> USE DEF lineVars, queueVars
<1>2. DOMAIN pc = Task /\ {"worker", "timer", "event"} \subseteq Task
  BY DEF PanelOK, PanelTypes, Task, Background
<1>3. /\ DOMAIN pc' = Task /\ pc'["worker"] = pc["worker"] /\ pc'["timer"] = pc["timer"]
  BY <1>2 DEF InfoCame, PanelSubscribed, Goes
<1>0. panelJob' = panelJob
  BY DEF InfoCame, PanelSubscribed
<1>4. PanelTypes' /\ PanelQueues' /\ PanelScreen'
  BY <1>0, <1>1, <1>3 DEF PanelOK, PanelTypes, PanelQueues, PanelScreen, SaysOff, NoStatus
<1>5. PanelState'
  <2>1. ~Idle("event")
    BY DEF InfoCame, PanelSubscribed, Idle
  <2>2. CASE InfoCame
    BY <1>1, <2>1, <2>2 DEF InfoCame, PanelOK, PanelState
  <2>3. CASE PanelSubscribed
    <3>1. pc'["event"] = "idle"
      BY <1>2, <2>3 DEF PanelSubscribed, Goes
    <3> QED BY <1>1, <2>1, <2>3, <3>1 DEF PanelSubscribed, PanelOK, PanelState, Idle
  <2> QED BY <2>2, <2>3
<1>6. ~mixed => OneDialog' /\ Confirmed'
  BY <1>1 DEF PanelOK, OneDialog, Confirmed, InHandAsks, NoneToCome, NoneToRead
<1> QED BY <1>1, <1>4, <1>5, <1>6 DEF PanelOK

(* A line is read. *)
LEMMA LineCases ==
  ASSUME LineRead
  PROVE  LET line == Head(fromPanel) IN
         /\ fromPanel # <<>> /\ fromPanel' = Tail(fromPanel)
         /\ UNCHANGED <<lineUp, inHand, screen, dialog, panelJob, panelReady>>
         /\ \/ /\ line.kind \in {"status", "delete"} /\ QueuesCommand(line.kind)
               /\ UNCHANGED <<klippy, confirmed, gcQueue, gqBusy, toPanel, mixed>>
            \/ /\ line.kind # "ok"
               /\ \/ QueuesGcode(<<Script("G28", None)>>)
                  \/ UNCHANGED <<pc, gcQueue, gqBusy>>
               /\ klippy' = klippy \/ (klippy = "ready" /\ klippy' = "shutdown")
               /\ UNCHANGED <<confirmed, commandQueue, cqBusy, toPanel, mixed>>
            \/ /\ line.kind = "macro"
               /\ PanelWrites(<<[kind |-> "dialog", what |-> line.macro]>>)
               /\ confirmed' = line.macro
               /\ mixed' = (mixed \/ DialogOpen)
               /\ QueuesGcode(UntilConfirmed(line.macro))
               /\ UNCHANGED <<klippy, commandQueue, cqBusy>>
            \/ /\ line.kind = "ok"
               /\ QueuesGcode(IF confirmed = None THEN <<>> ELSE <<Script(confirmed, line.macro)>>)
               /\ confirmed' = None
               /\ UNCHANGED <<klippy, commandQueue, cqBusy, toPanel, mixed>>
         /\ IF klippy' # klippy
            THEN panelShutdown' = TRUE /\ readyOvertaken' = (readyOvertaken \/ ~Idle("event"))
            ELSE UNCHANGED <<panelShutdown, readyOvertaken>>
<1> DEFINE line == Head(fromPanel)
<1>1. CASE line.kind \in {"status", "delete"}
  BY <1>1 DEF LineRead
<1>2. CASE line.kind = "gcode"
  BY <1>2 DEF LineRead
<1>3. CASE line.kind = "stop"
  BY <1>3 DEF LineRead, queueVars
<1>4. CASE line.kind = "macro"
  BY <1>4 DEF LineRead
<1>5. CASE line.kind = "ok"
  BY <1>5 DEF LineRead
<1>6. CASE line.kind \notin {"status", "delete", "gcode", "stop", "macro", "ok"}
  BY <1>6 DEF LineRead, queueVars
<1> QED BY <1>1, <1>2, <1>3, <1>4, <1>5, <1>6

(* What is read and queued leaves the dialogs that are open, but for its own. *)
LEMMA LineReadKeeps ==
  ASSUME PanelOK, LineRead
  PROVE  PanelOK'
<1> DEFINE line == Head(fromPanel)
<1>1. /\ fromPanel # <<>> /\ fromPanel' = Tail(fromPanel)
      /\ UNCHANGED <<lineUp, inHand, screen, dialog, panelJob, panelReady>>
      /\ IF klippy' # klippy
         THEN panelShutdown' = TRUE /\ readyOvertaken' = (readyOvertaken \/ ~Idle("event"))
         ELSE UNCHANGED <<panelShutdown, readyOvertaken>>
      /\ klippy' = klippy \/ (klippy = "ready" /\ klippy' = "shutdown")
  BY LineCases
<1>2. /\ fromPanel \in Seq(Line) /\ line \in Line /\ line = fromPanel[1]
      /\ fromPanel' \in Seq(Line) /\ Len(fromPanel') = Len(fromPanel) - 1
      /\ Len(fromPanel) \in Nat \ {0}
      /\ \A i \in 1..Len(fromPanel') : fromPanel'[i] = fromPanel[i + 1] /\ i + 1 \in 1..Len(fromPanel)
  BY <1>1 DEF PanelOK, PanelTypes
<1>3. /\ line.kind \in {"ok", "macro"} => line.macro \in Macros
      /\ line.kind = "macro" => [kind |-> "dialog", what |-> line.macro] \in Message
  BY <1>2 DEF Line, Message
<1>4. /\ Script("G28", None) \in PanelScripts /\ "G28" \notin Macros
      /\ \A m \in Macros : Script(m, m) \in PanelScripts
      /\ \A m, n : Script(m, n).script = m /\ Script(m, n).by = n
      /\ \A m \in Macros : line.kind = "ok" => Script(m, line.macro) \in PanelScripts
  BY <1>3 DEF Script, PanelScripts, Macros
<1> HIDE DEF line
<1>5. \/ /\ line.kind \in {"status", "delete"} /\ QueuesCommand(line.kind)
         /\ UNCHANGED <<klippy, confirmed, gcQueue, gqBusy, toPanel, mixed>>
      \/ /\ line.kind # "ok"
         /\ \/ QueuesGcode(<<Script("G28", None)>>)
            \/ UNCHANGED <<pc, gcQueue, gqBusy>>
         /\ UNCHANGED <<confirmed, commandQueue, cqBusy, toPanel, mixed>>
      \/ /\ line.kind = "macro"
         /\ PanelWrites(<<[kind |-> "dialog", what |-> line.macro]>>)
         /\ confirmed' = line.macro
         /\ mixed' = (mixed \/ DialogOpen)
         /\ QueuesGcode(<<>>)
         /\ UNCHANGED <<klippy, commandQueue, cqBusy>>
      \/ /\ line.kind = "ok"
         /\ QueuesGcode(IF confirmed = None THEN <<>> ELSE <<Script(confirmed, line.macro)>>)
         /\ confirmed' = None
         /\ UNCHANGED <<klippy, commandQueue, cqBusy, toPanel, mixed>>
  BY LineCases DEF line, UntilConfirmed
<1>6. /\ PanelQueues' /\ DOMAIN pc' = Task /\ pc'["event"] = pc["event"]
      /\ gcQueue' \in Seq(PanelScripts) /\ commandQueue' \in Seq({"status", "delete"})
      /\ ~mixed' => Confirmed'
  <2>0. PanelTypes /\ PanelQueues /\ (~mixed => Confirmed /\ OneDialog)
    BY DEF PanelOK
  <2>1. CASE QueuesCommand(line.kind) /\ line.kind \in {"status", "delete"} /\ UNCHANGED <<gcQueue, gqBusy, mixed>>
    BY <2>0, <2>1, QueuesCommandKeeps DEF PanelTypes, Confirmed
  <2>2. CASE UNCHANGED <<pc, gcQueue, gqBusy, commandQueue, cqBusy, mixed>>
    BY <2>0, <2>2 DEF PanelTypes, PanelQueues, Confirmed
  <2>3. CASE QueuesGcode(<<Script("G28", None)>>) /\ UNCHANGED <<commandQueue, cqBusy, mixed>>
    <3>1. /\ <<Script("G28", None)>> \in Seq(PanelScripts)
          /\ \A i \in 1..Len(<<Script("G28", None)>>) : <<Script("G28", None)>>[i].script \notin Macros
      BY <1>4
    <3> QED BY <2>0, <2>3, <3>1, QueuesGcodeKeeps DEF PanelTypes
  <2>4. CASE QueuesGcode(<<>>) /\ UNCHANGED <<commandQueue, cqBusy>> /\ (~mixed' => ~mixed)
    <3>1. <<>> \in Seq(PanelScripts) /\ \A i \in 1..Len(<<>>) : FALSE
      OBVIOUS
    <3> QED BY <2>0, <2>4, <3>1, QueuesGcodeKeeps DEF PanelTypes
  <2>5. CASE /\ line.kind = "ok" /\ confirmed # None /\ QueuesGcode(<<Script(confirmed, line.macro)>>)
             /\ UNCHANGED <<commandQueue, cqBusy, mixed>>
    <3>1. <<Script(confirmed, line.macro)>> \in Seq(PanelScripts)
      BY <1>4, <2>0, <2>5 DEF PanelTypes
    <3>2. ~mixed => line.macro = confirmed
      BY <1>2, <2>0, <2>5 DEF OneDialog
    <3>3. ~mixed => \A i \in 1..Len(<<Script(confirmed, line.macro)>>) :
                      <<Script(confirmed, line.macro)>>[i].by = <<Script(confirmed, line.macro)>>[i].script
      BY <1>4, <3>2
    <3> QED BY <2>0, <2>5, <3>1, <3>3, QueuesGcodeKeeps DEF PanelTypes
  <2>6. mixed' = (mixed \/ DialogOpen) => (~mixed' => ~mixed)
    BY Zenon
  <2> QED BY <1>5, <2>1, <2>2, <2>3, <2>4, <2>5, <2>6
<1>7. \/ toPanel' = toPanel
      \/ /\ lineUp /\ line.kind = "macro" /\ confirmed' = line.macro
         /\ toPanel' = Append(toPanel, [kind |-> "dialog", what |-> line.macro])
  <2>1. \A x : toPanel \o <<x>> = Append(toPanel, x)
    BY DEF PanelOK, PanelTypes
  <2> QED BY <1>5, <2>1 DEF PanelWrites
<1>8. PanelTypes'
  <2>1. toPanel' \in Seq(Message)
    <3>1. toPanel \in Seq(Message)
      BY DEF PanelOK, PanelTypes
    <3>2. \A m \in Message : Append(toPanel, m) \in Seq(Message)
      BY <3>1
    <3> QED BY <1>3, <1>7, <3>1, <3>2
  <2>2. confirmed' \in Macros \cup {None}
    BY <1>3, <1>5 DEF PanelOK, PanelTypes
  <2> QED BY <1>1, <1>2, <1>6, <2>1, <2>2 DEF PanelOK, PanelTypes
<1>9. PanelState'
  BY <1>1, <1>6 DEF PanelOK, PanelState, Idle
<1>10. PanelScreen'
  <2>1. ~lineUp => toPanel' = <<>> /\ screen' = None
    BY <1>1, <1>7 DEF PanelOK, PanelScreen
  <2>2. ASSUME klippy' = "offline", ~readyOvertaken', ~mixed' PROVE SaysOff'
    <3>1. klippy = "offline" /\ ~readyOvertaken
      BY <1>1, <2>2
    <3>5. ~mixed
      BY <1>5, <2>2, Zenon
    <3>2. SaysOff /\ PanelTypes
      BY <3>1, <3>5 DEF PanelOK, PanelScreen
    <3>3. CASE toPanel' = toPanel
      BY <1>1, <3>2, <3>3 DEF SaysOff, NoStatus
    <3>4. CASE line.kind = "macro" /\ toPanel' = Append(toPanel, [kind |-> "dialog", what |-> line.macro])
      <4>1. [kind |-> "dialog", what |-> line.macro].kind # "status"
        OBVIOUS
      <4> QED BY <1>1, <1>3, <3>2, <3>4, <4>1, ToldKeepsSaysOff
    <3> QED BY <1>7, <3>3, <3>4
  <2> QED BY <1>1, <2>1, <2>2 DEF PanelScreen
<1>11. ASSUME ~mixed' PROVE OneDialog'
  <2>1. ~mixed /\ OneDialog
    <3>1. ~mixed
      BY <1>5, <1>11, Zenon
    <3> QED BY <3>1 DEF PanelOK
  <2>2. (NoneToRead => NoneToRead') /\ (InHandAsks' <=> InHandAsks)
    BY <1>1, <1>2 DEF NoneToRead, InHandAsks
  <2>3. \A i \in 1..Len(fromPanel') : fromPanel'[i].kind = "ok" =>
            /\ fromPanel'[i].macro = confirmed
            /\ \A j \in 1..Len(fromPanel') : fromPanel'[j].kind = "ok" => j = i
    <3>1. \A i \in 1..Len(fromPanel') : i + 1 \in 1..Len(fromPanel) /\ fromPanel'[i] = fromPanel[i + 1]
      BY <1>2
    <3>2. \A i \in 1..Len(fromPanel) : fromPanel[i].kind = "ok" =>
              /\ fromPanel[i].macro = confirmed
              /\ \A j \in 1..Len(fromPanel) : fromPanel[j].kind = "ok" => j = i
      BY <2>1 DEF OneDialog
    <3> QED BY <3>1, <3>2
  <2>4. CASE confirmed' = confirmed /\ toPanel' = toPanel
    <3>1. NoneToCome' <=> NoneToCome
      BY <2>4 DEF NoneToCome
    <3> QED BY <1>1, <2>1, <2>2, <2>3, <2>4, <3>1 DEF OneDialog
  <2>5. CASE line.kind = "ok"
    <3>1. ~NoneToRead /\ toPanel' = toPanel
      BY <1>2, <1>7, <2>5 DEF NoneToRead
    <3>2. dialog = None /\ ~InHandAsks /\ NoneToCome'
      BY <2>1, <3>1 DEF OneDialog, NoneToCome
    <3>3. NoneToRead'
      <4>1. ASSUME NEW i \in 1..Len(fromPanel'), fromPanel'[i].kind = "ok" PROVE FALSE
        <5>1. i + 1 \in 1..Len(fromPanel) /\ fromPanel[i + 1].kind = "ok" /\ 1 \in 1..Len(fromPanel)
              /\ fromPanel[1].kind = "ok" /\ i + 1 # 1
          BY <1>2, <2>5, <4>1
        <5> QED BY <2>1, <5>1 DEF OneDialog
      <4> QED BY <4>1 DEF NoneToRead
    <3> QED BY <1>1, <2>2, <3>2, <3>3 DEF OneDialog, NoneToCome, NoneToRead
  <2>6. CASE line.kind = "macro" /\ confirmed' = line.macro /\ mixed' = (mixed \/ DialogOpen)
    <3>1. ~DialogOpen
      BY <1>11, <2>6
    <3>2. dialog = None /\ ~InHandAsks /\ NoneToCome /\ NoneToRead
      BY <3>1 DEF DialogOpen, InHandAsks, NoneToCome, NoneToRead
    <3>3. NoneToRead' /\ ~InHandAsks' /\ dialog' = None
      BY <1>1, <2>2, <3>2
    <3>4. \A i \in 1..Len(toPanel') : toPanel'[i].kind = "dialog" =>
            i = Len(toPanel') /\ toPanel'[i].what = confirmed'
      <4>1. CASE toPanel' = toPanel
        BY <3>2, <4>1 DEF NoneToCome
      <4>2. CASE toPanel' = Append(toPanel, [kind |-> "dialog", what |-> line.macro])
        BY <2>6, <3>2, <4>2 DEF NoneToCome, PanelOK, PanelTypes
      <4> QED BY <1>7, <4>1, <4>2
    <3> QED BY <3>3, <3>4 DEF OneDialog, NoneToRead
  <2> QED BY <1>5, <2>4, <2>5, <2>6
<1> QED BY <1>6, <1>8, <1>9, <1>10, <1>11 DEF PanelOK

LEMMA PanelKeeps ==
  ASSUME PanelOK, PanelDueNext
  PROVE  PanelOK'
BY LineOpensKeeps, LineLostKeeps, PanelSendingKeeps, SendEndsKeeps, PanelSendsKeeps, LineReadKeeps,
   GcodeRunKeeps, CommandRunKeeps, PanelKlippyKeeps, PanelInfoKeeps DEF PanelDueNext
-----------------------------------------------------------------------------
(***************************************************************************)
(* Requests over HTTP: what is kept of an address and what is on its way,    *)
(* and a download's file, buffer and what is still to come.                    *)
(***************************************************************************)
Chunk == [version : 0..MaxVersion, chunk : 1..MaxChunks]
Download ==
  [tries : 0..MaxAttempts, chunks : Seq(Chunk), buffer : Seq(Chunk), file : Seq(Chunk),
   opened : BOOLEAN, busy : BOOLEAN, fetched : {None, "whole", "failed"}, done : BOOLEAN,
   stuck : BOOLEAN]
HttpRequest ==
  [query : {"a", "b"}, caches : BOOLEAN, tries : 0..MaxAttempts, cached : HttpEntry \cup {None},
   since : 0..MaxVersion]

HttpTypes ==
  /\ DOMAIN pc = Task /\ srvVersion \in 0..MaxVersion
  /\ httpAsk \in [Request -> HttpRequest]
  /\ DOMAIN httpReply = Request /\ DOMAIN httpResult = Request
  /\ dl \in Download

(* An entry has the version of its content, and none of it is of tomorrow. *)
EntryOK(entry) ==
  /\ entry \in HttpEntry /\ entry.version <= srvVersion
  /\ IF entry.content = Empty THEN entry.version = 0
     ELSE entry.content.version = entry.version /\ entry.content.query = entry.query

ReplyOK(t) ==
  LET ask == httpAsk[t]   code == httpReply[t].code   heard == httpReply[t].content IN
  /\ code \in {200, 304, 404, 500}
  /\ code # 500 => heard \in ask.since..srvVersion /\ heard \in 0..MaxVersion
  /\ code = 304 => /\ ask.cached # None /\ ask.cached.version = heard
                   /\ srvTells = "modified" \/ ask.cached.query = ask.query

ResultOK(t) ==
  LET r == httpResult[t] IN
  r # None /\ r.code # 500 =>
    IF r.content = Empty THEN httpAsk[t].since = 0
    ELSE /\ r.content.version \in httpAsk[t].since..srvVersion
         /\ r.content.query = httpAsk[t].query \/ srvTells = "modified"
         /\ r.content.wrong => r.code # 200

AnswersOK ==
  /\ respCache # None => EntryOK(respCache)
  /\ \A t \in Request :
       /\ httpAsk[t].since <= srvVersion
       /\ httpAsk[t].cached # None => EntryOK(httpAsk[t].cached)
       /\ pc[t] = "answered" => ReplyOK(t)
       /\ ResultOK(t)

(* What is in the file, in the buffer and still to come is one answer. *)
Parts == (IF dl.opened THEN dl.file ELSE <<>>) \o dl.buffer \o dl.chunks
OneAnswer == \E v \in 0..MaxVersion : Parts = [i \in 1..MaxChunks |-> [version |-> v, chunk |-> i]]

AtDownload(t) == pc[t] \in {"fetching", "closing"}

DownloadOK ==
  /\ pc["worker"] \in {"idle", "opening", "writing"}
  /\ ~dl.stuck => (dl.busy <=> pc["worker"] # "idle")
  /\ dl.stuck => dl.busy /\ pc["worker"] = "idle"
  /\ pc["worker"] = "opening" => ~dl.opened
  /\ pc["worker"] = "writing" => dl.opened
  /\ pc["worker"] # "idle" => dl.buffer # <<>>
  /\ ~dl.busy => dl.buffer = <<>>
  /\ dl.tries = 0 => ~dl.busy
  /\ dl.done => dl.tries = 0 /\ \E v \in 0..MaxVersion :
                  dl.file = [i \in 1..MaxChunks |-> [version |-> v, chunk |-> i]]
  /\ \A t \in Request : AtDownload(t) =>
       /\ dl.tries # 0 /\ \A s \in Request : AtDownload(s) => s = t
       /\ pc[t] = "fetching" /\ ~dl.stuck => OneAnswer
       /\ pc[t] = "closing" /\ ~dl.stuck /\ dl.fetched = "whole" => OneAnswer /\ dl.chunks = <<>>
       /\ pc[t] = "closing" => dl.fetched \in {"whole", "failed"}

HttpOK == HttpTypes /\ AnswersOK /\ DownloadOK

LEMMA HttpTasks == "worker" \in Task /\ "worker" \notin Request /\ Request \subseteq Task
BY HostConstants DEF Task, Background

LEMMA HttpBegins ==
  ASSUME HostInit, HttpClientInit
  PROVE  HttpOK
<1>1. /\ DOMAIN pc = Task /\ \A t \in Task : pc[t] = "idle"
      /\ srvVersion = 0 /\ httpAsk = [t \in Request |-> NoAsk]
      /\ httpReply = [t \in Request |-> None] /\ httpResult = [t \in Request |-> None]
      /\ dl = NoDownload
  BY DEF HostInit, HttpClientInit
<1>2. NoAsk \in HttpRequest /\ NoAsk.since = 0 /\ NoAsk.cached = None
  BY DEF NoAsk, HttpRequest, MaxAttempts, MaxVersion
<1>3. NoDownload \in Download
  BY DEF NoDownload, Download, MaxAttempts, Chunk
<1>4. HttpTypes
  BY <1>1, <1>2, <1>3 DEF HttpTypes, MaxVersion
<1>5. AnswersOK
  <2> DEFINE entry == [content |-> Empty, query |-> "a", version |-> 0]
  <2>1. EntryOK(entry)
    BY <1>1 DEF EntryOK, HttpEntry, HttpContent, Empty, MaxVersion
  <2>2. respCache \in {None, entry}
    <3>1. (CHOOSE x \in {None, entry} : TRUE) \in {None, entry}
      OBVIOUS
    <3> HIDE DEF entry
    <3> QED BY <3>1 DEF HttpClientInit, Among, entry
  <2> QED BY <1>1, <1>2, <2>1, <2>2, HttpTasks DEF AnswersOK, ResultOK
<1>6. DownloadOK
  BY <1>1, HttpTasks DEF DownloadOK, NoDownload, AtDownload
<1> QED BY <1>4, <1>5, <1>6 DEF HttpOK

LEMMA HttpServes ==
  ASSUME HttpOK
  PROVE  AnswersAreCurrent /\ DownloadIsWhole
<1>1. AnswersAreCurrent
  BY DEF HttpOK, AnswersOK, ResultOK, AnswersAreCurrent
<1>2. ASSUME dl.done PROVE /\ Len(dl.file) = MaxChunks
                           /\ \A i \in 1..MaxChunks : /\ dl.file[i].chunk = i
                                                      /\ dl.file[i].version = dl.file[1].version
  <2>1. PICK v \in 0..MaxVersion : dl.file = [i \in 1..MaxChunks |-> [version |-> v, chunk |-> i]]
    BY <1>2 DEF HttpOK, DownloadOK
  <2>2. dl.file \in Seq(Chunk)
    BY DEF HttpOK, HttpTypes, Download
  <2>3. Len(dl.file) \in Nat /\ 1..Len(dl.file) = 1..MaxChunks
    BY <2>1, <2>2, LenProperties
  <2> QED BY <2>1, <2>3 DEF MaxChunks
<1> QED BY <1>1, <1>2 DEF DownloadIsWhole

(* What leaves one half of it as it is *)
LEMMA DownloadFrame ==
  ASSUME HttpOK, UNCHANGED dl, pc'["worker"] = pc["worker"],
         \A t \in Request : AtDownload(t)' => pc'[t] = pc[t]
  PROVE  DownloadOK'
<1>1. OneAnswer' <=> OneAnswer
  BY DEF OneAnswer, Parts
<1> QED BY <1>1 DEF HttpOK, DownloadOK, AtDownload

LEMMA AnswersFrame ==
  ASSUME HttpOK, UNCHANGED <<srvVersion, srvTells, respCache, httpAsk, httpReply, httpResult>>,
         \A t \in Request : pc'[t] = "answered" => pc[t] = "answered"
  PROVE  AnswersOK'
BY DEF HttpOK, AnswersOK, EntryOK, ReplyOK, ResultOK

LEMMA HttpAskedKeeps ==
  ASSUME HttpOK, NEW t \in Request, HttpAsked(t)
  PROVE  HttpOK'
<1> USE DEF HttpRests
<1>1. PICK query \in {"a", "b"}, caches \in BOOLEAN, attempts \in 1..MaxAttempts :
        httpAsk' = [httpAsk EXCEPT ![t] =
                     [query |-> query, caches |-> caches, tries |-> attempts, since |-> srvVersion,
                      cached |-> IF caches THEN respCache ELSE None]]
  <2>1. (IF May("failures") THEN 1..MaxAttempts ELSE {1}) \subseteq 1..MaxAttempts
    BY DEF MaxAttempts
  <2> QED BY <2>1 DEF HttpAsked
<1>2. /\ httpResult[t] = None
      /\ UNCHANGED <<srvVersion, srvTells, respCache, httpReply, httpResult, dl>>
      /\ DOMAIN pc' = Task /\ pc'[t] = "sent" /\ \A s \in Task \ {t} : pc'[s] = pc[s]
  BY HttpTasks DEF HttpAsked, Goes, HttpOK, HttpTypes
<1>3. /\ httpAsk'[t] \in HttpRequest /\ httpAsk'[t].since = srvVersion
      /\ httpAsk'[t].cached \in {respCache, None}
      /\ \A s \in Request \ {t} : httpAsk'[s] = httpAsk[s]
      /\ httpAsk' \in [Request -> HttpRequest]
  <2>1. respCache \in HttpEntry \cup {None}
    BY DEF HttpOK, AnswersOK, EntryOK
  <2>2. (IF caches THEN respCache ELSE None) \in HttpEntry \cup {None}
    BY <2>1
  <2>3. [query |-> query, caches |-> caches, tries |-> attempts, since |-> srvVersion,
                      cached |-> IF caches THEN respCache ELSE None] \in HttpRequest
    BY <1>1, <2>2 DEF HttpRequest, HttpOK, HttpTypes, MaxAttempts
  <2> QED BY <1>1, <2>3 DEF HttpOK, HttpTypes
<1>4. HttpTypes'
  BY <1>2, <1>3 DEF HttpOK, HttpTypes
<1>5. DownloadOK'
  BY <1>2, HttpTasks, DownloadFrame DEF AtDownload
<1>6. AnswersOK'
  <2>1. respCache' # None => EntryOK(respCache)'
    BY <1>2 DEF HttpOK, AnswersOK, EntryOK
  <2>2. ASSUME NEW s \in Request
        PROVE  /\ httpAsk'[s].since <= srvVersion'
               /\ httpAsk'[s].cached # None => EntryOK(httpAsk[s].cached)'
               /\ pc'[s] = "answered" => ReplyOK(s)'
               /\ ResultOK(s)'
    <3>1. CASE s = t
      BY <1>2, <1>3, <3>1 DEF HttpOK, HttpTypes, AnswersOK, EntryOK, ResultOK, MaxVersion
    <3>2. CASE s # t
      <4>1. pc'[s] = pc[s]
        BY <1>2, <3>2, HttpTasks
      <4> QED BY <1>2, <1>3, <3>2, <4>1 DEF HttpOK, AnswersOK, EntryOK, ReplyOK, ResultOK
    <3> QED BY <3>1, <3>2
  <2> QED BY <2>1, <2>2 DEF AnswersOK
<1> QED BY <1>4, <1>5, <1>6 DEF HttpOK

LEMMA ServerAnswersKeeps ==
  ASSUME HttpOK, NEW t \in Request, ServerAnswers(t)
  PROVE  HttpOK'
<1> USE DEF HttpRests
<1>1. \/ /\ httpReply' = [httpReply EXCEPT ![t] = Returned(304, srvVersion)]
         /\ StillTheSame(httpAsk[t])
      \/ \E code \in {200, 404} : httpReply' = [httpReply EXCEPT ![t] = Returned(code, srvVersion)]
      \/ httpReply' = [httpReply EXCEPT ![t] = Returned(500, 0)]
  BY DEF ServerAnswers, ServerSays
<1>2. /\ UNCHANGED <<srvVersion, srvTells, respCache, httpAsk, httpResult, dl>>
      /\ DOMAIN pc' = Task /\ pc'[t] = "answered" /\ \A s \in Task \ {t} : pc'[s] = pc[s]
  BY HttpTasks DEF ServerAnswers, Goes, HttpOK, HttpTypes
<1>3. DOMAIN httpReply' = Request /\ \A s \in Request \ {t} : httpReply'[s] = httpReply[s]
  BY <1>1 DEF HttpOK, HttpTypes
<1>4. HttpTypes'
  BY <1>2, <1>3 DEF HttpOK, HttpTypes
<1>5. DownloadOK'
  BY <1>2, HttpTasks, DownloadFrame DEF AtDownload
<1>6. ReplyOK(t)'
  <2>1. /\ httpAsk[t].since <= srvVersion /\ httpAsk[t].since \in 0..MaxVersion
        /\ srvVersion \in 0..MaxVersion
    BY DEF HttpOK, HttpTypes, AnswersOK, HttpRequest
  <2>2. \/ httpReply'[t] = Returned(304, srvVersion) /\ StillTheSame(httpAsk[t])
        \/ \E code \in {200, 404} : httpReply'[t] = Returned(code, srvVersion)
        \/ httpReply'[t] = Returned(500, 0)
    BY <1>1 DEF HttpOK, HttpTypes
  <2> QED BY <1>2, <2>1, <2>2 DEF ReplyOK, Returned, StillTheSame, MaxVersion
<1>7. AnswersOK'
  <2>1. ASSUME NEW s \in Request \ {t}, pc'[s] = "answered" PROVE ReplyOK(s)'
    BY <1>2, <1>3, <2>1, HttpTasks DEF HttpOK, AnswersOK, ReplyOK
  <2> QED BY <1>2, <1>6, <2>1 DEF HttpOK, AnswersOK, EntryOK, ResultOK
<1> QED BY <1>4, <1>5, <1>7 DEF HttpOK

LEMMA AnswerCameKeeps ==
  ASSUME HttpOK, NEW t \in Request, AnswerCame(t)
  PROVE  HttpOK'
<1> USE DEF HttpRests
<1> DEFINE ask == httpAsk[t]
           code == httpReply[t].code
           heard == httpReply[t].content
           content == CASE code = 304 -> KeptThen(ask)
                        [] code = 500 -> Empty
                        [] OTHER -> [query |-> ask.query, version |-> heard, wrong |-> code = 404]
           asked == [ask EXCEPT !.tries = 0, !.cached = None, !.caches = FALSE]
<1>1. /\ UNCHANGED <<srvVersion, srvTells, dl>> /\ pc[t] = "answered"
      /\ httpReply' = [httpReply EXCEPT ![t] = None]
      /\ \/ /\ ask.tries > 1
            /\ httpAsk' = [httpAsk EXCEPT ![t].tries = @ - 1]
            /\ Goes(t, "sent") /\ UNCHANGED <<respCache, httpResult>>
         \/ /\ httpResult' = [httpResult EXCEPT ![t] = Returned(code, content)]
            /\ respCache' = KeptAfter(ask, code, content, heard)
            /\ httpAsk' = [httpAsk EXCEPT ![t] = asked]
            /\ Goes(t, "idle")
  BY DEF AnswerCame
<1>2. /\ ask \in HttpRequest /\ ask.since <= srvVersion
      /\ ask.cached # None => EntryOK(ask.cached)
      /\ ReplyOK(t) /\ ask.since \in Nat /\ srvVersion \in 0..MaxVersion
  BY <1>1 DEF HttpOK, HttpTypes, AnswersOK, HttpRequest, MaxVersion
<1>3. asked \in HttpRequest /\ asked.since = ask.since /\ asked.query = ask.query /\ asked.cached = None
  <2> DEFINE never == FALSE
             none == None
             zero == 0
  <2>1. /\ never \in BOOLEAN /\ none = None
        /\ asked = [ask EXCEPT !.tries = zero, !.cached = none, !.caches = never]
    OBVIOUS
  <2>2. zero \in 0..MaxAttempts /\ none \in HttpEntry \cup {None}
    BY DEF MaxAttempts
  <2>3. ask \in HttpRequest
    BY <1>2
  <2> HIDE DEF asked, ask, never, none, zero, content, heard, code
  <2>4. asked \in HttpRequest /\ asked.cached = none /\ asked.since = ask.since /\ asked.query = ask.query
    BY ONLY <2>1, <2>2, <2>3 DEF HttpRequest
  <2> QED BY <2>1, <2>4
<1>4. /\ code = 304 => content = ask.cached.content
      /\ code \in {200, 404} =>
           content = [query |-> ask.query, version |-> heard, wrong |-> code = 404]
      /\ code = 304 => ask.cached # None
  BY <1>2 DEF ReplyOK, KeptThen
<1>5. ask.tries > 1 => [ask EXCEPT !.tries = @ - 1] \in HttpRequest
  <2> HIDE DEF ask, asked, content, heard, code
  <2>1. ask.tries > 1 => ask.tries - 1 \in 0..MaxAttempts
    BY <1>2 DEF HttpRequest, MaxAttempts
  <2> QED BY <1>2, <2>1 DEF HttpRequest
<1> HIDE DEF content, asked
<1>6. /\ DOMAIN pc' = Task /\ pc'[t] \in {"sent", "idle"} /\ \A s \in Task \ {t} : pc'[s] = pc[s]
  BY <1>1, HttpTasks DEF Goes, HttpOK, HttpTypes
<1>7. /\ DOMAIN httpReply' = Request /\ DOMAIN httpResult' = Request
      /\ httpAsk' \in [Request -> HttpRequest]
      /\ \A s \in Request \ {t} : /\ httpReply'[s] = httpReply[s] /\ httpAsk'[s] = httpAsk[s]
                                  /\ httpResult'[s] = httpResult[s]
      /\ httpAsk'[t].since = ask.since /\ httpAsk'[t].query = ask.query
      /\ httpAsk'[t].cached \in {None, ask.cached}
  <2>1. CASE ask.tries > 1 /\ httpAsk' = [httpAsk EXCEPT ![t].tries = @ - 1] /\ httpResult' = httpResult
    <3>1. httpAsk' = [httpAsk EXCEPT ![t] = [ask EXCEPT !.tries = @ - 1]]
      BY <2>1
    <3> QED BY <1>1, <1>2, <1>5, <2>1, <3>1 DEF HttpOK, HttpTypes, HttpRequest
  <2>2. CASE /\ httpResult' = [httpResult EXCEPT ![t] = Returned(code, content)]
             /\ httpAsk' = [httpAsk EXCEPT ![t] = asked]
    BY <1>1, <1>3, <2>2 DEF HttpOK, HttpTypes
  <2> QED BY <1>1, <2>1, <2>2
<1>8. HttpTypes'
  BY <1>1, <1>6, <1>7 DEF HttpOK, HttpTypes
<1>9. DownloadOK'
  BY <1>1, <1>6, HttpTasks, DownloadFrame DEF AtDownload
<1>10. \A entry : EntryOK(entry)' <=> EntryOK(entry)
  BY <1>1 DEF EntryOK
<1>11. ResultOK(t)'
  <2>1. CASE httpResult' = httpResult
    BY <1>1, <1>7, <2>1 DEF HttpOK, AnswersOK, ResultOK
  <2>2. CASE httpResult' = [httpResult EXCEPT ![t] = Returned(code, content)]
    <3>1. httpResult'[t].code = code /\ httpResult'[t].content = content
      BY <2>2 DEF HttpOK, HttpTypes, Returned
    <3>2. CASE code = 304
      <4>1. /\ EntryOK(ask.cached) /\ ask.cached.version = heard /\ content = ask.cached.content
            /\ srvTells = "modified" \/ ask.cached.query = ask.query
            /\ code # 200
            /\ heard \in ask.since..srvVersion
        BY <1>2, <1>4, <3>2 DEF ReplyOK
      <4> HIDE DEF ask, code, heard
      <4> QED BY <1>1, <1>2, <1>7, <3>1, <4>1 DEF ResultOK, EntryOK
    <3>3. CASE code \in {200, 404}
      <4>1. /\ content = [query |-> ask.query, version |-> heard, wrong |-> code = 404]
            /\ heard \in ask.since..srvVersion /\ ask.query \in {"a", "b"}
        BY <1>2, <1>4, <3>3 DEF ReplyOK, HttpRequest
      <4>2. /\ content # Empty /\ content.version = heard /\ content.query = ask.query
            /\ content.wrong => code # 200
        <5>1. /\ content.query = ask.query /\ Empty.query = "none" /\ content.version = heard
              /\ content.wrong <=> code = 404
          BY <4>1 DEF Empty
        <5> QED BY <4>1, <5>1
      <4> HIDE DEF ask, code, heard
      <4> QED BY <1>1, <1>7, <3>1, <4>1, <4>2 DEF ResultOK
    <3>4. CASE code = 500
      BY <3>1, <3>4 DEF ResultOK
    <3> QED BY <1>2, <3>2, <3>3, <3>4 DEF ReplyOK
  <2> QED BY <1>1, <2>1, <2>2
<1>12. respCache' # None => EntryOK(respCache')
  <2>1. CASE respCache' = respCache
    BY <2>1 DEF HttpOK, AnswersOK
  <2>2. CASE respCache' = KeptAfter(ask, code, content, heard) /\ respCache' # None
    <3>1. /\ code # 500
          /\ respCache' = [content |-> content, version |-> heard,
                           query |-> IF code = 304 THEN ask.cached.query ELSE ask.query]
      BY <2>2 DEF KeptAfter
    <3>2. heard \in ask.since..srvVersion /\ heard \in 0..MaxVersion /\ heard <= srvVersion
      BY <1>2, <3>1 DEF ReplyOK, MaxVersion
    <3>3. CASE code = 304
      <4>1. /\ EntryOK(ask.cached) /\ ask.cached.version = heard /\ content = ask.cached.content
        BY <1>2, <1>4, <3>3 DEF ReplyOK
      <4>2. respCache' = ask.cached
        BY <3>1, <3>3, <4>1 DEF EntryOK, HttpEntry
      <4> QED BY <4>1, <4>2
    <3>4. CASE code \in {200, 404}
      <4>1. /\ content = [query |-> ask.query, version |-> heard, wrong |-> code = 404]
            /\ ask.query \in {"a", "b"} /\ (code = 404) \in BOOLEAN
        BY <1>2, <1>4, <3>4 DEF ReplyOK, HttpRequest
      <4>2. content \in HttpContent /\ content # Empty /\ content.version = heard /\ content.query = ask.query
        <5>1. content.query = ask.query /\ Empty.query = "none" /\ content.version = heard
          BY <4>1 DEF Empty
        <5> QED BY <3>2, <4>1, <5>1 DEF HttpContent
      <4>3. respCache' = [content |-> content, version |-> heard, query |-> ask.query]
        BY <3>1, <3>4
      <4> HIDE DEF ask, code, heard
      <4> QED BY <3>2, <4>1, <4>2, <4>3 DEF EntryOK, HttpEntry
    <3> QED BY <1>2, <3>1, <3>3, <3>4 DEF ReplyOK
  <2> QED BY <1>1, <2>1, <2>2
<1> HIDE DEF ask, code, heard
<1>13. AnswersOK'
  <2>1. ASSUME NEW s \in Request
        PROVE  /\ httpAsk'[s].since <= srvVersion'
               /\ httpAsk'[s].cached # None => EntryOK(httpAsk[s].cached)'
               /\ pc'[s] = "answered" => ReplyOK(s)'
               /\ ResultOK(s)'
    <3>1. CASE s = t
      BY <1>1, <1>2, <1>6, <1>7, <1>10, <1>11, <3>1
    <3>2. CASE s # t
      <4>1. pc'[s] = pc[s]
        BY <1>6, <3>2, HttpTasks
      <4> QED BY <1>1, <1>7, <3>2, <4>1 DEF HttpOK, AnswersOK, EntryOK, ReplyOK, ResultOK
    <3> QED BY <3>1, <3>2
  <2>2. respCache' # None => EntryOK(respCache)'
    BY <1>10, <1>12
  <2> QED BY <2>1, <2>2 DEF AnswersOK
<1> QED BY <1>8, <1>9, <1>13 DEF HttpOK

LEMMA ServerChangesKeeps ==
  ASSUME HttpOK, ServerChanges
  PROVE  HttpOK'
<1>1. /\ srvVersion' = srvVersion + 1 /\ srvVersion < MaxVersion /\ srvVersion \in 0..MaxVersion
      /\ UNCHANGED <<srvTells, pc, respCache, httpAsk, httpReply, httpResult, dl>>
  BY DEF ServerChanges, HttpRests, HttpOK, HttpTypes
<1>2. HttpTypes'
  BY <1>1 DEF HttpOK, HttpTypes, MaxVersion
<1>3. DownloadOK'
  BY <1>1, DownloadFrame
<1>4. \A entry : EntryOK(entry) => EntryOK(entry)'
  BY <1>1 DEF EntryOK, HttpEntry, MaxVersion
<1>5. ASSUME NEW t \in Request
      PROVE  /\ httpAsk'[t].since <= srvVersion'
             /\ pc'[t] = "answered" => ReplyOK(t)'
             /\ ResultOK(t)'
  <2>1. httpAsk[t].since \in 0..MaxVersion /\ httpAsk[t].since <= srvVersion
    BY DEF HttpOK, HttpTypes, HttpRequest, AnswersOK
  <2>2. \A v : v \in httpAsk[t].since..srvVersion => v \in httpAsk[t].since..(srvVersion + 1)
    BY <1>1, <2>1 DEF MaxVersion
  <2> QED BY <1>1, <2>1, <2>2 DEF HttpOK, AnswersOK, ReplyOK, ResultOK, MaxVersion
<1> QED BY <1>1, <1>2, <1>3, <1>4, <1>5 DEF HttpOK, AnswersOK

LEMMA GithubKeeps ==
  ASSUME HttpOK, NEW t \in Request, GithubAsked(t) \/ GithubAnswers(t) \/ LimitRead(t)
  PROVE  HttpOK'
<1>1. UNCHANGED <<srvVersion, srvTells, respCache, httpAsk, httpResult, dl>>
  BY DEF GithubAsked, GithubAnswers, LimitRead, HttpRests
<1>2. /\ DOMAIN pc' = Task /\ pc'[t] \in {"sent", "limited", "idle"}
      /\ \A s \in Task \ {t} : pc'[s] = pc[s]
  BY HttpTasks DEF GithubAsked, GithubAnswers, LimitRead, Goes, HttpOK, HttpTypes
<1>3. DOMAIN httpReply' = Request /\ \A s \in Request \ {t} : httpReply'[s] = httpReply[s]
  BY DEF GithubAsked, GithubAnswers, LimitRead, HttpOK, HttpTypes
<1>4. HttpTypes'
  BY <1>1, <1>2, <1>3 DEF HttpOK, HttpTypes
<1>5. DownloadOK'
  BY <1>1, <1>2, HttpTasks, DownloadFrame DEF AtDownload
<1>6. ASSUME NEW s \in Request, pc'[s] = "answered" PROVE ReplyOK(s)'
  <2>1. s # t
    BY <1>2, <1>6
  <2> QED BY <1>1, <1>2, <1>3, <1>6, <2>1, HttpTasks DEF HttpOK, AnswersOK, ReplyOK
<1>7. AnswersOK'
  BY <1>1, <1>6 DEF HttpOK, AnswersOK, EntryOK, ResultOK
<1> QED BY <1>4, <1>5, <1>7 DEF HttpOK

LEMMA LimitResetKeeps ==
  ASSUME HttpOK, LimitReset
  PROVE  HttpOK'
<1>1. UNCHANGED <<pc, srvVersion, srvTells, respCache, httpAsk, httpReply, httpResult, dl>>
  BY DEF LimitReset, HttpRests
<1> QED BY <1>1, DownloadFrame, AnswersFrame DEF HttpOK, HttpTypes

(* The first of one sequence becomes the last of another. *)
LEMMA MovesOver ==
  ASSUME NEW S, NEW a \in Seq(S), NEW b \in Seq(S), NEW c \in Seq(S), c # <<>>
  PROVE  a \o b \o c = a \o Append(b, Head(c)) \o Tail(c)
<1> DEFINE h == Head(c)
<1>1. h \in S /\ Tail(c) \in Seq(S) /\ <<h>> \in Seq(S)
  BY HeadTailProperties
<1>2. Append(b, h) = b \o <<h>>
  BY <1>1, AppendIsConcat
<1>3. <<h>> \o Tail(c) = c
  OBVIOUS
<1> HIDE DEF h
<1>4. a \o (b \o <<h>>) = (a \o b) \o <<h>> /\ a \o b \in Seq(S)
  BY <1>1, ConcatAssociative, ConcatProperties
<1>5. ((a \o b) \o <<h>>) \o Tail(c) = (a \o b) \o (<<h>> \o Tail(c))
  BY <1>1, <1>4, ConcatAssociative
<1> QED BY <1>2, <1>3, <1>4, <1>5 DEF h

LEMMA MovesToFile ==
  ASSUME NEW S, NEW a \in Seq(S), NEW b \in Seq(S), NEW c \in Seq(S), b # <<>>
  PROVE  a \o b \o c = Append(a, Head(b)) \o Tail(b) \o c
<1> DEFINE h == Head(b)
<1>1. h \in S /\ Tail(b) \in Seq(S) /\ <<h>> \in Seq(S)
  BY HeadTailProperties
<1>2. Append(a, h) = a \o <<h>>
  BY <1>1, AppendIsConcat
<1>3. <<h>> \o Tail(b) = b
  OBVIOUS
<1> HIDE DEF h
<1>4. (a \o <<h>>) \o Tail(b) = a \o (<<h>> \o Tail(b))
  BY <1>1, ConcatAssociative
<1> QED BY <1>2, <1>3, <1>4 DEF h

LEMMA AnAttempt ==
  ASSUME HttpOK, NEW attempts \in 1..MaxAttempts, dl' = Attempt(attempts), srvVersion' = srvVersion
  PROVE  /\ dl' \in Download /\ OneAnswer' /\ dl'.tries = attempts
         /\ ~dl'.busy /\ ~dl'.stuck /\ ~dl'.opened /\ ~dl'.done /\ dl'.buffer = <<>>
<1> DEFINE all(v) == [i \in 1..MaxChunks |-> [version |-> v, chunk |-> i]]
<1>1. srvVersion \in 0..MaxVersion /\ dl.file \in Seq(Chunk)
  BY DEF HttpOK, HttpTypes, Download
<1>2. all(srvVersion) \in [1..MaxChunks -> Chunk] /\ MaxChunks \in Nat
  BY <1>1 DEF Chunk, MaxChunks
<1>3. all(srvVersion) \in Seq(Chunk) /\ <<>> \in Seq(Chunk)
  BY <1>2, SeqDef
<1>4. dl' = [tries |-> attempts, chunks |-> all(srvVersion), buffer |-> <<>>, file |-> dl.file,
             opened |-> FALSE, busy |-> FALSE, fetched |-> None, done |-> FALSE, stuck |-> FALSE]
  BY DEF Attempt, NoDownload
<1> HIDE DEF all
<1>5. /\ dl' \in Download /\ dl'.chunks = all(srvVersion) /\ dl'.tries = attempts
      /\ ~dl'.busy /\ ~dl'.stuck /\ ~dl'.opened /\ ~dl'.done /\ dl'.buffer = <<>>
  BY <1>1, <1>3, <1>4 DEF Download, MaxAttempts
<1>6. <<>> \o <<>> = <<>> /\ <<>> \o all(srvVersion) = all(srvVersion)
  BY <1>3, ConcatEmptySeq
<1>7. Parts' = all(srvVersion)
  BY <1>5, <1>6 DEF Parts
<1> QED BY <1>1, <1>5, <1>7 DEF OneAnswer, all

LEMMA DownloadAskedKeeps ==
  ASSUME HttpOK, NEW t \in Request, DownloadAsked(t)
  PROVE  HttpOK'
<1>1. PICK attempts \in 1..MaxAttempts : dl' = Attempt(attempts)
  BY DEF DownloadAsked
<1>2. /\ UNCHANGED <<srvVersion, srvTells, respCache, httpAsk, httpReply, httpResult>>
      /\ dl.tries = 0 /\ ~dl.done
      /\ DOMAIN pc' = Task /\ pc'[t] = "fetching" /\ \A s \in Task \ {t} : pc'[s] = pc[s]
  BY HttpTasks DEF DownloadAsked, Goes, HttpOK, HttpTypes, HttpRests
<1>3. /\ dl' \in Download /\ OneAnswer' /\ dl'.tries = attempts
      /\ ~dl'.busy /\ ~dl'.stuck /\ ~dl'.opened /\ ~dl'.done /\ dl'.buffer = <<>>
  BY <1>1, <1>2, AnAttempt
<1>4. HttpTypes'
  BY <1>2, <1>3 DEF HttpOK, HttpTypes
<1>5. AnswersOK'
  BY <1>2, HttpTasks, AnswersFrame
<1>6. DownloadOK'
  <2>1. pc'["worker"] = "idle"
    BY <1>2, HttpTasks DEF HttpOK, DownloadOK
  <2>2. \A s \in Request : AtDownload(s)' <=> s = t
    BY <1>2, HttpTasks DEF HttpOK, DownloadOK, AtDownload
  <2> QED BY <1>2, <1>3, <2>1, <2>2 DEF DownloadOK, MaxAttempts
<1> QED BY <1>4, <1>5, <1>6 DEF HttpOK

LEMMA ChunkCameKeeps ==
  ASSUME HttpOK, NEW t \in Request, ChunkCame(t)
  PROVE  HttpOK'
<1>1. /\ UNCHANGED <<srvVersion, srvTells, respCache, httpAsk, httpReply, httpResult>>
      /\ pc[t] = "fetching" /\ dl.chunks # <<>>
      /\ dl' = [dl EXCEPT !.chunks = Tail(@), !.buffer = Append(@, Head(dl.chunks)), !.busy = TRUE]
      /\ DOMAIN pc' = Task /\ \A s \in Request : pc'[s] = pc[s]
      /\ pc'["worker"] = (IF dl.busy THEN pc["worker"] ELSE IF dl.opened THEN "writing" ELSE "opening")
  BY HttpTasks DEF ChunkCame, Goes, HttpOK, HttpTypes, HttpRests
<1>2. dl \in Download /\ dl.chunks \in Seq(Chunk) /\ dl.buffer \in Seq(Chunk) /\ dl.file \in Seq(Chunk)
  BY DEF HttpOK, HttpTypes, Download
<1>3. /\ Head(dl.chunks) \in Chunk /\ Tail(dl.chunks) \in Seq(Chunk)
      /\ Append(dl.buffer, Head(dl.chunks)) \in Seq(Chunk)
      /\ Append(dl.buffer, Head(dl.chunks)) # <<>>
  BY <1>1, <1>2, HeadTailProperties, AppendProperties
<1>4. /\ dl' \in Download /\ dl'.chunks = Tail(dl.chunks)
      /\ dl'.buffer = Append(dl.buffer, Head(dl.chunks)) /\ dl'.busy
      /\ dl'.tries = dl.tries /\ dl'.file = dl.file /\ dl'.opened = dl.opened /\ dl'.done = dl.done
      /\ dl'.stuck = dl.stuck /\ dl'.fetched = dl.fetched
  BY <1>1, <1>2, <1>3 DEF Download
<1>5. HttpTypes' /\ AnswersOK'
  BY <1>1, <1>4, AnswersFrame DEF HttpOK, HttpTypes
<1>6. Parts' = Parts
  <2> DEFINE written == IF dl.opened THEN dl.file ELSE <<>>
  <2>1. written \in Seq(Chunk)
    BY <1>2
  <2>2. Parts = written \o dl.buffer \o dl.chunks
    BY DEF Parts
  <2>3. Parts' = written \o Append(dl.buffer, Head(dl.chunks)) \o Tail(dl.chunks)
    BY <1>4 DEF Parts
  <2> HIDE DEF written
  <2>4. written \o dl.buffer \o dl.chunks = written \o Append(dl.buffer, Head(dl.chunks)) \o Tail(dl.chunks)
    <3> DEFINE b == dl.buffer
               c == dl.chunks
    <3>1. b \in Seq(Chunk) /\ c \in Seq(Chunk) /\ c # <<>>
      BY <1>1, <1>2
    <3> HIDE DEF b, c
    <3>2. written \o b \o c = written \o Append(b, Head(c)) \o Tail(c)
      BY <2>1, <3>1, MovesOver
    <3> QED BY <3>2 DEF b, c
  <2> QED BY <2>2, <2>3, <2>4
<1>7. OneAnswer' <=> OneAnswer
  BY <1>6 DEF OneAnswer
<1>8. AtDownload(t) /\ dl.tries # 0
  BY <1>1 DEF HttpOK, DownloadOK, AtDownload
<1>9. \A s \in Request : AtDownload(s)' => s = t /\ pc'[s] = "fetching"
  BY <1>1, <1>8 DEF HttpOK, DownloadOK, AtDownload
<1>10. DownloadOK'
  BY <1>1, <1>3, <1>4, <1>7, <1>8, <1>9 DEF HttpOK, DownloadOK
<1> QED BY <1>5, <1>10 DEF HttpOK

LEMMA FetchEndsKeeps ==
  ASSUME HttpOK, NEW t \in Request, FetchEnds(t)
  PROVE  HttpOK'
<1>1. /\ UNCHANGED <<srvVersion, srvTells, respCache, httpAsk, httpReply, httpResult>>
      /\ pc[t] = "fetching"
      /\ \/ dl.chunks = <<>> /\ dl' = [dl EXCEPT !.fetched = "whole"]
         \/ dl' = [dl EXCEPT !.fetched = "failed", !.chunks = <<>>]
      /\ DOMAIN pc' = Task /\ pc'[t] = "closing" /\ \A s \in Task \ {t} : pc'[s] = pc[s]
  BY HttpTasks DEF FetchEnds, Goes, HttpOK, HttpTypes, HttpRests
<1>2. dl \in Download /\ <<>> \in Seq(Chunk)
  BY DEF HttpOK, HttpTypes
<1>3. /\ dl' \in Download
      /\ \/ dl.chunks = <<>> /\ dl'.chunks = <<>> /\ dl'.fetched = "whole"
         \/ dl'.chunks = <<>> /\ dl'.fetched = "failed"
      /\ dl'.buffer = dl.buffer /\ dl'.busy = dl.busy
      /\ dl'.tries = dl.tries /\ dl'.file = dl.file /\ dl'.opened = dl.opened /\ dl'.done = dl.done
      /\ dl'.stuck = dl.stuck
  BY <1>1, <1>2 DEF Download
<1>4. HttpTypes'
  BY <1>1, <1>3 DEF HttpOK, HttpTypes
<1>5. AnswersOK'
  BY <1>1, HttpTasks, AnswersFrame
<1>6. dl'.fetched = "whole" => Parts' = Parts /\ (OneAnswer' <=> OneAnswer)
  <2>1. dl'.fetched = "whole" => dl'.chunks = dl.chunks
    BY <1>3
  <2>2. dl'.fetched = "whole" => Parts' = Parts
    BY <1>3, <2>1 DEF Parts
  <2> QED BY <2>2 DEF OneAnswer
<1>7. AtDownload(t) /\ dl.tries # 0 /\ (~dl.stuck => OneAnswer)
      /\ \A s \in Request : AtDownload(s)' => s = t
  BY <1>1, HttpTasks DEF HttpOK, DownloadOK, AtDownload
<1>8. pc'["worker"] = pc["worker"]
  BY <1>1, HttpTasks
<1>9. DownloadOK'
  BY <1>1, <1>3, <1>6, <1>7, <1>8 DEF HttpOK, DownloadOK
<1> QED BY <1>4, <1>5, <1>9 DEF HttpOK

LEMMA WorkerKeeps ==
  ASSUME HttpOK, FileOpened \/ ChunkWritten
  PROVE  HttpOK'
<1> DEFINE tail == Tail(dl.buffer)
<1>1. /\ UNCHANGED <<srvVersion, srvTells, respCache, httpAsk, httpReply, httpResult>>
      /\ DOMAIN pc' = Task /\ \A s \in Request : pc'[s] = pc[s]
      /\ \/ /\ pc["worker"] = "opening" /\ pc'["worker"] = "writing"
            /\ dl' = [dl EXCEPT !.opened = TRUE, !.file = <<>>]
         \/ /\ pc["worker"] \in {"opening", "writing"} /\ pc'["worker"] = "idle"
            /\ dl' = [dl EXCEPT !.stuck = TRUE]
         \/ /\ pc["worker"] = "writing"
            /\ pc'["worker"] = (IF Len(dl.buffer) > 1 THEN "writing" ELSE "idle")
            /\ dl' = [dl EXCEPT !.file = Append(@, Head(dl.buffer)), !.buffer = tail,
                                !.busy = Len(dl.buffer) > 1]
  BY HttpTasks DEF FileOpened, ChunkWritten, Goes, HttpOK, HttpTypes, HttpRests, Truncated
<1>2. dl \in Download /\ dl.chunks \in Seq(Chunk) /\ dl.buffer \in Seq(Chunk) /\ dl.file \in Seq(Chunk)
  BY DEF HttpOK, HttpTypes, Download
<1>3. AnswersOK'
  BY <1>1, AnswersFrame
<1>4. /\ ~dl.stuck /\ dl.busy /\ dl.tries # 0
      /\ pc["worker"] = "opening" => ~dl.opened
      /\ pc["worker"] = "writing" => dl.opened
      /\ pc["worker"] # "idle" => dl.buffer # <<>>
      /\ \A s \in Request : AtDownload(s)' <=> AtDownload(s)
  BY <1>1 DEF HttpOK, DownloadOK, AtDownload
<1>5. ~dl.done
  BY <1>4 DEF HttpOK, DownloadOK
<1>6. CASE /\ pc["worker"] = "opening" /\ pc'["worker"] = "writing"
           /\ dl' = [dl EXCEPT !.opened = TRUE, !.file = <<>>]
  <2>0. <<>> \in Seq(Chunk)
    OBVIOUS
  <2>1. /\ dl' \in Download /\ dl'.opened /\ dl'.file = <<>> /\ dl'.buffer = dl.buffer
        /\ dl'.busy = dl.busy /\ dl'.tries = dl.tries /\ dl'.chunks = dl.chunks /\ ~dl'.done
        /\ ~dl'.stuck /\ dl'.fetched = dl.fetched
    <3> DEFINE always == TRUE
               none == <<>>
    <3>1. /\ always \in BOOLEAN /\ none \in Seq(Chunk) /\ always /\ none = <<>>
          /\ dl' = [dl EXCEPT !.opened = always, !.file = none]
      BY <1>6, <2>0
    <3>2. ~dl.stuck /\ ~dl.done
      BY <1>4, <1>5
    <3> HIDE DEF always, none
    <3>3. /\ dl' \in Download /\ dl'.opened = always /\ dl'.file = none /\ dl'.buffer = dl.buffer
          /\ dl'.busy = dl.busy /\ dl'.tries = dl.tries /\ dl'.chunks = dl.chunks
          /\ dl'.done = dl.done /\ dl'.stuck = dl.stuck /\ dl'.fetched = dl.fetched
      BY ONLY <1>2, <3>1 DEF Download
    <3> QED BY <3>1, <3>2, <3>3
  <2>2. Parts' = Parts /\ (OneAnswer' <=> OneAnswer)
    <3>1. ~dl.opened
      BY <1>4, <1>6
    <3>2. Parts = <<>> \o dl.buffer \o dl.chunks /\ Parts' = <<>> \o dl.buffer \o dl.chunks
      BY <2>1, <3>1 DEF Parts
    <3> QED BY <3>2 DEF OneAnswer
  <2>3. dl.buffer # <<>>
    BY <1>4 DEF HttpOK, DownloadOK
  <2>4. DownloadOK'
    BY <1>1, <1>4, <1>6, <2>1, <2>2, <2>3 DEF HttpOK, DownloadOK
  <2> QED BY <1>1, <1>3, <2>1, <2>4 DEF HttpOK, HttpTypes
<1>7. CASE /\ pc["worker"] \in {"opening", "writing"} /\ pc'["worker"] = "idle"
           /\ dl' = [dl EXCEPT !.stuck = TRUE]
  <2>1. /\ dl' \in Download /\ dl'.stuck /\ dl'.busy /\ dl'.tries = dl.tries /\ ~dl'.done
        /\ dl'.fetched = dl.fetched
    BY <1>2, <1>4, <1>5, <1>7 DEF Download
  <2>2. DownloadOK'
    BY <1>1, <1>4, <1>7, <2>1 DEF HttpOK, DownloadOK
  <2> QED BY <1>1, <1>3, <2>1, <2>2 DEF HttpOK, HttpTypes
<1>8. CASE /\ pc["worker"] = "writing"
           /\ pc'["worker"] = (IF Len(dl.buffer) > 1 THEN "writing" ELSE "idle")
           /\ dl' = [dl EXCEPT !.file = Append(@, Head(dl.buffer)), !.buffer = tail,
                               !.busy = Len(dl.buffer) > 1]
  <2>1. /\ Head(dl.buffer) \in Chunk /\ tail \in Seq(Chunk)
        /\ Append(dl.file, Head(dl.buffer)) \in Seq(Chunk)
        /\ Len(dl.buffer) \in Nat \ {0} /\ Len(tail) = Len(dl.buffer) - 1
    BY <1>2, <1>4, <1>8, HeadTailProperties, AppendProperties, LenProperties, EmptySeq
  <2>2. tail = <<>> <=> ~(Len(dl.buffer) > 1)
    <3> HIDE DEF tail
    <3> QED BY <2>1, EmptySeq
  <2>3. Parts = Append(dl.file, Head(dl.buffer)) \o tail \o dl.chunks
    <3> DEFINE a == dl.file
               b == dl.buffer
               c == dl.chunks
    <3>1. a \in Seq(Chunk) /\ b \in Seq(Chunk) /\ c \in Seq(Chunk) /\ b # <<>>
      BY <1>2, <1>4, <1>8
    <3>2. Parts = a \o b \o c
      BY <1>4, <1>8 DEF Parts
    <3> HIDE DEF a, b, c
    <3>3. a \o b \o c = Append(a, Head(b)) \o Tail(b) \o c
      BY <3>1, MovesToFile
    <3> QED BY <3>2, <3>3 DEF a, b, c
  <2> HIDE DEF tail
  <2>4. (Len(dl.buffer) > 1) \in BOOLEAN
    OBVIOUS
  <2>5. /\ dl' \in Download /\ dl'.opened /\ dl'.file = Append(dl.file, Head(dl.buffer))
        /\ dl'.buffer = tail /\ (dl'.busy <=> tail # <<>>) /\ dl'.tries = dl.tries
        /\ dl'.chunks = dl.chunks /\ ~dl'.done /\ ~dl'.stuck /\ dl'.fetched = dl.fetched
    BY <1>2, <1>4, <1>5, <1>8, <2>1, <2>2, <2>4 DEF Download
  <2>6. Parts' = Parts /\ (OneAnswer' <=> OneAnswer)
    <3>1. Parts' = Append(dl.file, Head(dl.buffer)) \o tail \o dl.chunks
      BY <2>5 DEF Parts
    <3>2. Parts' = Parts
      BY <2>3, <3>1
    <3> QED BY <3>2 DEF OneAnswer
  <2>7. DownloadOK'
    BY <1>1, <1>4, <1>8, <2>2, <2>5, <2>6 DEF HttpOK, DownloadOK
  <2> QED BY <1>1, <1>3, <2>5, <2>7 DEF HttpOK, HttpTypes
<1> QED BY <1>1, <1>6, <1>7, <1>8

LEMMA DownloadClosedKeeps ==
  ASSUME HttpOK, NEW t \in Request, DownloadClosed(t)
  PROVE  HttpOK'
<1>1. /\ UNCHANGED <<srvVersion, srvTells, respCache, httpAsk, httpReply, httpResult>>
      /\ pc[t] = "closing" /\ ~dl.busy
      /\ \/ /\ dl.fetched = "whole" /\ dl' = [dl EXCEPT !.done = TRUE, !.tries = 0] /\ Goes(t, "idle")
         \/ /\ dl.fetched # "whole" /\ dl.tries > 1
            /\ dl' = Attempt(dl.tries - 1) /\ Goes(t, "fetching")
         \/ dl.fetched # "whole" /\ dl' = [NoDownload EXCEPT !.file = dl.file] /\ Goes(t, "idle")
  BY DEF DownloadClosed, AllWritten, HttpRests
<1>2. /\ DOMAIN pc' = Task /\ \A s \in Task \ {t} : pc'[s] = pc[s]
      /\ pc'["worker"] = pc["worker"] /\ pc'[t] \in {"idle", "fetching"}
  BY <1>1, HttpTasks DEF Goes, HttpOK, HttpTypes
<1>3. /\ dl \in Download /\ dl.file \in Seq(Chunk) /\ dl.tries \in 0..MaxAttempts
      /\ AtDownload(t) /\ dl.tries # 0 /\ ~dl.done
  BY <1>1 DEF HttpOK, HttpTypes, Download, DownloadOK, AtDownload
<1>4. AnswersOK'
  BY <1>1, <1>2, HttpTasks, AnswersFrame
<1>5. /\ ~dl.stuck /\ dl.buffer = <<>> /\ pc["worker"] = "idle"
      /\ \A s \in Request : AtDownload(s)' => s = t
  BY <1>1, <1>2, <1>3, HttpTasks DEF HttpOK, DownloadOK, AtDownload
<1>6. CASE dl.fetched = "whole" /\ dl' = [dl EXCEPT !.done = TRUE, !.tries = 0] /\ Goes(t, "idle")
  <2>1. OneAnswer /\ dl.chunks = <<>>
    BY <1>1, <1>3, <1>5, <1>6 DEF HttpOK, DownloadOK
  <2>2. PICK v \in 0..MaxVersion : Parts = [i \in 1..MaxChunks |-> [version |-> v, chunk |-> i]]
    BY <2>1 DEF OneAnswer
  <2>3. \A s \in Seq(Chunk) : s \o <<>> \o <<>> = s
    BY ConcatEmptySeq
  <2>4. <<>> \in Seq(Chunk)
    OBVIOUS
  <2>5. dl.opened
    <3>1. ASSUME ~dl.opened PROVE FALSE
      <4>1. Parts = <<>>
        BY <1>5, <2>1, <2>3, <2>4, <3>1 DEF Parts
      <4>2. DOMAIN Parts = 1..MaxChunks
        BY <2>2
      <4> QED BY <4>1, <4>2 DEF MaxChunks
    <3> QED BY <3>1
  <2>6. dl.file = [i \in 1..MaxChunks |-> [version |-> v, chunk |-> i]]
    BY <1>3, <1>5, <2>1, <2>2, <2>3, <2>5 DEF Parts
  <2>7. /\ dl' \in Download /\ dl'.done /\ dl'.tries = 0 /\ dl'.file = dl.file /\ ~dl'.busy
        /\ ~dl'.stuck /\ dl'.buffer = <<>> /\ dl'.opened
    <3> DEFINE always == TRUE
               zero == 0
    <3>1. /\ always \in BOOLEAN /\ always /\ zero \in 0..MaxAttempts /\ zero = 0
          /\ dl' = [dl EXCEPT !.done = always, !.tries = zero]
      BY <1>6 DEF MaxAttempts
    <3> HIDE DEF always, zero
    <3>2. /\ dl' \in Download /\ dl'.done = always /\ dl'.tries = zero /\ dl'.file = dl.file
          /\ dl'.busy = dl.busy /\ dl'.stuck = dl.stuck /\ dl'.buffer = dl.buffer
          /\ dl'.opened = dl.opened
      BY ONLY <1>3, <3>1 DEF Download
    <3> QED BY <1>1, <1>5, <2>5, <3>1, <3>2
  <2>8. \A s \in Request : ~AtDownload(s)'
    <3>1. pc'[t] = "idle"
      BY <1>6, HttpTasks DEF Goes, HttpOK, HttpTypes
    <3> QED BY <1>5, <3>1 DEF AtDownload
  <2>9. DownloadOK'
    BY <1>2, <1>5, <2>6, <2>7, <2>8 DEF DownloadOK
  <2> QED BY <1>1, <1>2, <1>4, <2>7, <2>9 DEF HttpOK, HttpTypes
<1>7. CASE dl.tries > 1 /\ dl' = Attempt(dl.tries - 1) /\ Goes(t, "fetching")
  <2>1. dl.tries - 1 \in 1..MaxAttempts
    BY <1>3, <1>7 DEF MaxAttempts
  <2>2. /\ dl' \in Download /\ OneAnswer' /\ dl'.tries = dl.tries - 1
        /\ ~dl'.busy /\ ~dl'.stuck /\ ~dl'.opened /\ ~dl'.done /\ dl'.buffer = <<>>
    BY <1>1, <1>7, <2>1, AnAttempt
  <2>3. pc'[t] = "fetching"
    BY <1>7, HttpTasks DEF Goes, HttpOK, HttpTypes
  <2>4. DownloadOK'
    BY <1>2, <1>5, <2>1, <2>2, <2>3 DEF DownloadOK, MaxAttempts
  <2> QED BY <1>1, <1>2, <1>4, <2>2, <2>4 DEF HttpOK, HttpTypes
<1>8. CASE dl' = [NoDownload EXCEPT !.file = dl.file] /\ Goes(t, "idle")
  <2>0. <<>> \in Seq(Chunk)
    OBVIOUS
  <2>1. /\ dl' \in Download /\ ~dl'.done /\ dl'.tries = 0 /\ ~dl'.busy
        /\ ~dl'.stuck /\ dl'.buffer = <<>> /\ ~dl'.opened
    <3> DEFINE zero == 0
    <3>1. zero = 0 /\ zero \in 0..MaxAttempts
      BY DEF MaxAttempts
    <3>2. dl' = [tries |-> zero, chunks |-> <<>>, buffer |-> <<>>, file |-> dl.file,
                 opened |-> FALSE, busy |-> FALSE, fetched |-> None, done |-> FALSE, stuck |-> FALSE]
      BY <1>8 DEF NoDownload
    <3> HIDE DEF zero
    <3>3. dl' \in Download
      BY ONLY <1>3, <2>0, <3>1, <3>2 DEF Download
    <3>4. /\ ~dl'.done /\ dl'.tries = zero /\ ~dl'.busy
          /\ ~dl'.stuck /\ dl'.buffer = <<>> /\ ~dl'.opened
      BY ONLY <3>2
    <3> QED BY <3>1, <3>3, <3>4
  <2>2. \A s \in Request : ~AtDownload(s)'
    <3>1. pc'[t] = "idle"
      BY <1>8, HttpTasks DEF Goes, HttpOK, HttpTypes
    <3> QED BY <1>5, <3>1 DEF AtDownload
  <2>3. DownloadOK'
    BY <1>2, <1>5, <2>1, <2>2 DEF DownloadOK
  <2> QED BY <1>1, <1>2, <1>4, <2>1, <2>3 DEF HttpOK, HttpTypes
<1> QED BY <1>1, <1>6, <1>7, <1>8

LEMMA HttpKeeps ==
  ASSUME HttpOK, HttpClientNext
  PROVE  HttpOK'
BY ServerChangesKeeps, LimitResetKeeps, WorkerKeeps, HttpAskedKeeps, ServerAnswersKeeps,
   AnswerCameKeeps, GithubKeeps, DownloadAskedKeeps, ChunkCameKeeps, FetchEndsKeeps,
   DownloadClosedKeeps DEF HttpClientNext
-----------------------------------------------------------------------------
(***************************************************************************)
(* Requests for files: who has the turn, what he is to do with it, and what  *)
(* he has made sure of before he waited.                                     *)
(***************************************************************************)
Doing(t) == pc[t] \notin {"idle", "waiting"}
MovesOrCopies == {"move", "move_dir", "copy", "copy_dir"}

TurnsOK ==
  /\ DOMAIN pc = Task /\ turns \in Seq(Request)
  /\ request \in [Request -> Asked \cup {NoRequest}]
  /\ \A t \in Request :
       /\ pc[t] \in {"idle", "waiting", "asked", "thread", "metadata", "starting", "queueing"}
       /\ Doing(t) => HoldsTurn(t) /\ request[t] \in Asked
       /\ pc[t] = "thread" => request[t].what \in MovesOrCopies \cup {"force_delete", "zip"}
       /\ pc[t] = "metadata" => request[t].to \in GcodePath
       /\ pc[t] \in {"starting", "queueing"} => request[t].what = "upload" /\ request[t].print

RequestTypes ==
  /\ tree \in [Path -> Nat] /\ entries \in [Path -> Nat] /\ versions \in Nat
  /\ toPrint \in Nat /\ given \in Nat /\ declined \in Nat
  /\ {mayStart, slipped, printing, queuesPrints} \subseteq BOOLEAN
  /\ ~slipped /\ queuesPrints => declined = 0

(* What a request's thread changes is not what is printed. *)
ThreadOK(t) ==
  LET r == request[t] IN
  /\ ~slipped /\ printing =>
       /\ r.what \in MovesOrCopies => printed.path # r.to
       /\ r.what \in {"move", "move_dir"} => printed.path # r.path
       /\ r.what = "force_delete" => printed.path # "sub/a"
  /\ r.what = "copy" => tree[r.path] # 0
  /\ r.what \in {"move_dir", "copy_dir"} => "new" \notin folders

PrintedOK ==
  ~slipped /\ printing =>
    printed.path \in GcodePath /\ printed.version # 0 /\ tree[printed.path] = printed.version

Parsing(p) == \E t \in Request : pc[t] = "metadata" /\ request[t].to = p
StoredOK ==
  /\ tree["new/a"] # 0 => "new" \in folders
  /\ ~slipped => \A p \in GcodePath : entries[p] \in {0, tree[p]} \/ Parsing(p)

(* A print is owed for an upload that has been placed and is not started. *)
Owes(t) == pc[t] \in {"metadata", "starting", "queueing"} /\ request[t].print
OwedOK == ~slipped => toPrint = given + declined + (IF \E t \in Request : Owes(t) THEN 1 ELSE 0)

AllRequestsOK ==
  /\ TurnsOK /\ RequestTypes /\ PrintedOK /\ StoredOK /\ OwedOK
  /\ \A t \in Request : pc[t] = "thread" => ThreadOK(t)

LEMMA FileRequestsBegin ==
  ASSUME HostInit, FileRequestsInit
  PROVE  AllRequestsOK
<1>1. DOMAIN pc = Task /\ \A t \in Task : pc[t] = "idle"
  BY DEF HostInit
<1>2. Request \subseteq Task /\ ~printing
  BY DEF Task, HostInit
<1>3. TurnsOK
  BY <1>1, <1>2 DEF FileRequestsInit, TurnsOK, Doing
<1>4. \A p \in Path : tree[p] \in Nat /\ (p \in GcodePath => entries[p] = tree[p]) /\ entries[p] \in Nat
  BY DEF FileRequestsInit, Path, GcodePath
<1>5. RequestTypes /\ tree["new/a"] = 0
  <2>1. queuesPrints \in BOOLEAN
    <3>1. (CHOOSE x \in BOOLEAN : TRUE) \in BOOLEAN
      OBVIOUS
    <3> QED BY <3>1 DEF FileRequestsInit, Among
  <2> QED BY <1>4, <2>1 DEF FileRequestsInit, RequestTypes, HostInit, Path, GcodePath
<1>6. StoredOK /\ PrintedOK
  BY <1>2, <1>4, <1>5 DEF StoredOK, PrintedOK, Path
<1>7. OwedOK /\ \A t \in Request : pc[t] = "thread" => ThreadOK(t)
  BY <1>1, <1>2 DEF FileRequestsInit, OwedOK, Owes
<1> QED BY <1>3, <1>5, <1>6, <1>7 DEF AllRequestsOK

LEMMA FileRequestsServe ==
  ASSUME AllRequestsOK
  PROVE  PrintedAsAsked /\ EntriesCurrent
<1>1. turns = <<>> => \A t \in Request : ~Doing(t)
  BY DEF AllRequestsOK, TurnsOK, HoldsTurn
<1>2. turns = <<>> => \A t \in Request : ~Owes(t)
  BY <1>1 DEF Owes, Doing
<1>3. turns = <<>> => \A p : ~Parsing(p)
  BY <1>1 DEF Parsing, Doing
<1>4. PrintedAsAsked
  BY <1>2 DEF AllRequestsOK, PrintedOK, OwedOK, RequestTypes, PrintedAsAsked
<1>5. EntriesCurrent
  BY <1>3 DEF AllRequestsOK, StoredOK, EntriesCurrent
<1> QED BY <1>4, <1>5

LEMMA AskedFacts ==
  ASSUME NEW r \in Asked
  PROVE  /\ r.path \in Path /\ r.to \in Path /\ r.print \in BOOLEAN
         /\ r.print => r.what = "upload"
         /\ r.what = "upload" => r.to \in {"a", "sub/a"}
         /\ r.what = "delete" => r.path \in {"a", "sub/a"}
         /\ r.what \in {"move_dir", "copy_dir"} => r.path = "sub/a" /\ r.to = "new/a"
         /\ r.what \in {"move", "copy"} => r.to \in {"a", "config/a"} /\ r.path # "new/a"
BY DEF Asked, Path, GcodePath

(* The one that holds the turn is the only one that does something. *)
LEMMA OneTurn ==
  ASSUME AllRequestsOK, NEW t \in Request, HoldsTurn(t)
  PROVE  /\ Tail(turns) \in Seq(Request)
         /\ \A s \in Request : Doing(s) => s = t
BY DEF AllRequestsOK, TurnsOK, HoldsTurn

LEMMA TurnEnds ==
  ASSUME AllRequestsOK, NEW t \in Request, HoldsTurn(t), EndsRequest(t)
  PROVE  /\ TurnsOK'
         /\ \A s \in Request : ~Doing(s)'
<1>1. Tail(turns) \in Seq(Request) /\ \A s \in Request : Doing(s) => s = t
  BY OneTurn
<1>2. /\ DOMAIN pc' = Task /\ pc'[t] = "idle" /\ \A s \in Request \ {t} : pc'[s] = pc[s]
      /\ turns' = Tail(turns) /\ request' = [request EXCEPT ![t] = NoRequest]
  BY DEF EndsRequest, Goes, AllRequestsOK, TurnsOK, Task
<1>3. \A s \in Request : ~Doing(s)' /\ pc'[s] \in {"idle", "waiting"}
  BY <1>1, <1>2 DEF Doing, AllRequestsOK, TurnsOK
<1>4. request' \in [Request -> Asked \cup {NoRequest}]
  BY <1>2 DEF AllRequestsOK, TurnsOK
<1>5. TurnsOK'
  BY <1>1, <1>2, <1>3, <1>4 DEF TurnsOK, Doing
<1> QED BY <1>3, <1>5

(* He goes on to another place. *)
LEMMA TurnGoesOn ==
  ASSUME AllRequestsOK, NEW t \in Request, HasTurn(t) \/ (HoldsTurn(t) /\ Doing(t)),
         NEW place \in {"thread", "metadata", "starting", "queueing"}, ThenWaits(t, place),
         place = "thread" => request[t].what \in MovesOrCopies \cup {"force_delete", "zip"},
         place = "metadata" => request[t].to \in GcodePath,
         place \in {"starting", "queueing"} => request[t].what = "upload" /\ request[t].print
  PROVE  /\ TurnsOK' /\ pc'[t] = place /\ request[t] \in Asked
         /\ \A s \in Request : Doing(s)' => s = t
<1>1. HoldsTurn(t) /\ \A s \in Request : Doing(s) => s = t
  BY OneTurn DEF HasTurn
<1>2. /\ DOMAIN pc' = Task /\ pc'[t] = place /\ \A s \in Request \ {t} : pc'[s] = pc[s]
      /\ turns' = turns /\ request' = request
  BY DEF ThenWaits, Goes, AllRequestsOK, TurnsOK, Task
<1>3. request[t] \in Asked
  BY DEF HasTurn, AllRequestsOK, TurnsOK, Doing
<1>4. \A s \in Request \ {t} : pc'[s] \in {"idle", "waiting"}
  BY <1>1, <1>2 DEF Doing, AllRequestsOK, TurnsOK
<1>5. TurnsOK'
  BY <1>1, <1>2, <1>3, <1>4 DEF AllRequestsOK, TurnsOK, Doing, HoldsTurn
<1> QED BY <1>2, <1>3, <1>4, <1>5 DEF Doing

(* Steps that change neither a file nor a print *)
LEMMA FileRequestsFrame ==
  ASSUME AllRequestsOK, TurnsOK', UNCHANGED <<storedVars, printVars, slipped>>,
         \A s \in Request : /\ pc'[s] = "thread" => pc[s] = "thread" /\ request'[s] = request[s]
                            /\ pc'[s] \in {"metadata", "starting", "queueing"} <=>
                                 pc[s] \in {"metadata", "starting", "queueing"}
                            /\ pc'[s] \in {"metadata", "starting", "queueing"} =>
                                 pc'[s] = pc[s] /\ request'[s] = request[s]
  PROVE  AllRequestsOK'
<1>1. \A p \in GcodePath : Parsing(p) => Parsing(p)'
  BY DEF Parsing
<1>2. \A t \in Request : Owes(t)' <=> Owes(t)
  BY DEF Owes
<1>3. RequestTypes' /\ PrintedOK'
  BY DEF AllRequestsOK, RequestTypes, PrintedOK, storedVars, printVars, outcomeVars
<1>4. StoredOK'
  BY <1>1 DEF AllRequestsOK, StoredOK, storedVars
<1>5. OwedOK'
  BY <1>2 DEF AllRequestsOK, OwedOK, printVars, outcomeVars
<1>6. \A t \in Request : pc'[t] = "thread" => ThreadOK(t)'
  BY DEF AllRequestsOK, ThreadOK, storedVars, printVars, outcomeVars
<1> QED BY <1>3, <1>4, <1>5, <1>6 DEF AllRequestsOK

LEMMA AsksFileKeeps ==
  ASSUME AllRequestsOK, NEW t \in Request, AsksFile(t)
  PROVE  AllRequestsOK'
<1>1. /\ pc[t] = "idle" /\ DOMAIN pc' = Task /\ pc'[t] = "waiting" /\ turns' = Append(turns, t)
      /\ \A s \in Request \ {t} : pc'[s] = pc[s]
      /\ UNCHANGED <<storedVars, printVars, request, slipped>>
  BY DEF AsksFile, Idle, Goes, AllRequestsOK, TurnsOK, Task
<1>2. turns' \in Seq(Request) /\ (turns # <<>> => turns' # <<>> /\ Head(turns') = Head(turns))
  BY <1>1, AppendProperties DEF AllRequestsOK, TurnsOK
<1>3. TurnsOK'
  BY <1>1, <1>2 DEF AllRequestsOK, TurnsOK, Doing, HoldsTurn
<1> QED BY <1>1, <1>3, FileRequestsFrame

LEMMA TurnCameKeeps ==
  ASSUME AllRequestsOK, NEW t \in Request, TurnCame(t)
  PROVE  AllRequestsOK'
<1>1. PICK r \in Asked : request' = [request EXCEPT ![t] = r]
  BY DEF TurnCame
<1>2. /\ pc[t] = "waiting" /\ HoldsTurn(t) /\ DOMAIN pc' = Task /\ pc'[t] = "asked"
      /\ \A s \in Request \ {t} : pc'[s] = pc[s] /\ request'[s] = request[s]
      /\ request' \in [Request -> Asked \cup {NoRequest}] /\ request'[t] \in Asked
      /\ UNCHANGED <<storedVars, printVars, turns, slipped>>
  BY <1>1 DEF TurnCame, Goes, AllRequestsOK, TurnsOK, Task
<1>3. TurnsOK'
  BY <1>2 DEF AllRequestsOK, TurnsOK, Doing, HoldsTurn
<1> QED BY <1>2, <1>3, FileRequestsFrame

LEMMA FileRefusedKeeps ==
  ASSUME AllRequestsOK, NEW t \in Request, FileRefused(t)
  PROVE  AllRequestsOK'
<1>1. /\ HoldsTurn(t) /\ EndsRequest(t) /\ pc[t] = "asked"
      /\ UNCHANGED <<storedVars, printVars, slipped>>
  BY DEF FileRefused, HasTurn
<1>2. TurnsOK' /\ \A s \in Request : ~Doing(s)'
  BY <1>1, TurnEnds
<1>3. \A s \in Request : Doing(s) => s = t
  BY <1>1, OneTurn
<1>4. \A s \in Request : pc'[s] \in {"idle", "waiting"} /\ (pc[s] \in {"idle", "waiting", "asked"})
  BY <1>1, <1>2, <1>3 DEF Doing
<1> QED BY <1>1, <1>2, <1>4, FileRequestsFrame

LEMMA AllowedFacts ==
  ASSUME NEW r \in Asked, Allowed(r)
  PROVE  /\ r.what = "upload" => ~InUse(r.to)
         /\ r.what = "delete" => ~InUse(r.path)
         /\ r.what = "force_delete" => ~InUse("sub/a")
         /\ r.what \in MovesOrCopies => Untouched(r)
         /\ r.what = "copy" => IsFile(r.path)
         /\ r.what \in {"move_dir", "copy_dir"} => "new" \notin folders
<1>1. r.what = "upload" => ~InUse(r.to)
  BY DEF Allowed
<1>2. r.what = "delete" => ~InUse(r.path)
  BY DEF Allowed
<1>3. r.what = "force_delete" => ~InUse("sub/a")
  BY DEF Allowed
<1>4. r.what \in {"move", "copy"} => Untouched(r) /\ IsFile(r.path)
  BY DEF Allowed
<1>5. r.what \in {"move_dir", "copy_dir"} => Untouched(r) /\ "new" \notin folders
  BY DEF Allowed
<1> QED BY <1>1, <1>2, <1>3, <1>4, <1>5 DEF MovesOrCopies

(* With the one that has the turn in no thread, only what is stored and    *)
(* printed matters.                                                         *)
LEMMA TurnEndsKeeps ==
  ASSUME AllRequestsOK, NEW t \in Request, HoldsTurn(t), EndsRequest(t), RequestTypes', PrintedOK',
         tree'["new/a"] # 0 => "new" \in folders',
         ~slipped' => /\ \A p \in GcodePath : entries'[p] \in {0, tree'[p]}
                      /\ toPrint' = given' + declined'
  PROVE  AllRequestsOK'
<1>1. TurnsOK' /\ \A s \in Request : ~Doing(s)'
  BY TurnEnds
<1>2. \A s \in Request : pc'[s] # "thread" /\ ~Owes(s)'
  BY <1>1 DEF Doing, Owes
<1>3. OwedOK'
  <2>1. given' + declined' \in Nat /\ slipped' \in BOOLEAN
    <3>1. given' \in Nat /\ declined' \in Nat /\ slipped' \in BOOLEAN
      BY DEF RequestTypes
    <3>2. \A m, n \in Nat : m + n \in Nat
      OBVIOUS
    <3> QED BY <3>1, <3>2, Zenon
  <2>2. (IF \E s \in Request : Owes(s)' THEN 1 ELSE 0) = 0
    BY <1>2
  <2>3. ~slipped' => toPrint' = given' + declined'
    OBVIOUS
  <2>4. given' + declined' = given' + declined' + 0
    <3>1. \A n \in Nat : n = n + 0
      OBVIOUS
    <3> QED BY <2>1, <3>1, Zenon
  <2>5. ~slipped' => toPrint' = given' + declined' + 0
    BY <2>3, <2>4, Zenon
  <2> QED BY <2>2, <2>5 DEF OwedOK
<1>4. StoredOK'
  BY DEF StoredOK
<1> QED BY <1>1, <1>2, <1>3, <1>4 DEF AllRequestsOK

(* Nothing is parsed or owed while the one that has the turn does neither. *)
LEMMA Settled ==
  ASSUME AllRequestsOK, NEW t \in Request, HoldsTurn(t), pc[t] \in {"asked", "thread"}
  PROVE  ~slipped => /\ \A p \in GcodePath : entries[p] \in {0, tree[p]}
                     /\ toPrint = given + declined
<1>1. \A s \in Request : Doing(s) => s = t
  BY OneTurn
<1>2. \A s \in Request : pc[s] \notin {"metadata", "starting", "queueing"}
  BY <1>1 DEF Doing
<1>3. \A p \in GcodePath : ~Parsing(p)
  BY <1>2 DEF Parsing
<1>4. \A s \in Request : ~Owes(s)
  BY <1>2 DEF Owes
<1> QED BY <1>3, <1>4 DEF AllRequestsOK, StoredOK, OwedOK, RequestTypes

LEMMA RemovedAtOnceKeeps ==
  ASSUME AllRequestsOK, NEW t \in Request, RemovedAtOnce(t)
  PROVE  AllRequestsOK'
<1> DEFINE r == request[t]
<1>1. /\ HoldsTurn(t) /\ pc[t] = "asked" /\ EndsRequest(t) /\ Allowed(r)
      /\ UNCHANGED <<versions, printVars, slipped>>
      /\ \/ /\ r.what = "delete" /\ tree' = [tree EXCEPT ![r.path] = 0]
            /\ entries' = [entries EXCEPT ![r.path] = 0] /\ UNCHANGED folders
         \/ folders' = folders \cup {"new"} /\ UNCHANGED <<tree, entries>>
         \/ /\ folders' = folders \ {"sub"} /\ entries' = [entries EXCEPT !["sub/a"] = 0]
            /\ UNCHANGED tree
  BY DEF RemovedAtOnce, HasTurn, Cleared
<1>2. r \in Asked /\ tree \in [Path -> Nat] /\ entries \in [Path -> Nat]
  BY <1>1 DEF AllRequestsOK, TurnsOK, Doing, RequestTypes
<1>3. r.path \in Path /\ (r.what = "delete" => r.path \in {"a", "sub/a"} /\ ~InUse(r.path))
  BY <1>1, <1>2, AskedFacts, AllowedFacts
<1>4. ~slipped => /\ \A p \in GcodePath : entries[p] \in {0, tree[p]}
                  /\ toPrint = given + declined
  BY <1>1, Settled
<1>5. "sub/a" \in Path /\ GcodePath \subseteq Path /\ "new/a" \in GcodePath
  BY DEF Path, GcodePath
<1> HIDE DEF r
<1>6. RequestTypes'
  BY <1>1, <1>2, <1>3, <1>5 DEF AllRequestsOK, RequestTypes, printVars, outcomeVars
<1>7. PrintedOK'
  BY <1>1, <1>2, <1>3, <1>5 DEF AllRequestsOK, PrintedOK, printVars, outcomeVars, InUse
<1>8. ~slipped' => /\ \A p \in GcodePath : entries'[p] \in {0, tree'[p]}
                   /\ toPrint' = given' + declined'
  BY <1>1, <1>2, <1>3, <1>4, <1>5 DEF printVars, outcomeVars
<1>9. tree'["new/a"] # 0 => "new" \in folders'
  BY <1>1, <1>2, <1>3, <1>5 DEF AllRequestsOK, StoredOK
<1> QED BY <1>1, <1>6, <1>7, <1>8, <1>9, TurnEndsKeeps

LEMMA ThreadStartsKeeps ==
  ASSUME AllRequestsOK, NEW t \in Request, ThreadStarts(t)
  PROVE  AllRequestsOK'
<1> DEFINE r == request[t]
<1>1. /\ HasTurn(t) /\ HoldsTurn(t) /\ pc[t] = "asked" /\ ThenWaits(t, "thread") /\ Allowed(r)
      /\ r.what \in MovesOrCopies \cup {"force_delete", "zip"}
      /\ UNCHANGED <<storedVars, printVars, slipped>> /\ request' = request
  BY DEF ThreadStarts, HasTurn, ThenWaits, MovesOrCopies
<1>2. /\ TurnsOK' /\ pc'[t] = "thread" /\ r \in Asked
      /\ \A s \in Request : Doing(s)' => s = t
  BY <1>1, TurnGoesOn
<1>3. ~slipped => /\ \A p \in GcodePath : entries[p] \in {0, tree[p]}
                  /\ toPrint = given + declined
  BY <1>1, Settled
<1>4. ThreadOK(t)'
  <2>1. /\ r.what = "force_delete" => ~InUse("sub/a")
        /\ r.what \in MovesOrCopies => Untouched(r)
        /\ r.what = "copy" => IsFile(r.path)
        /\ r.what \in {"move_dir", "copy_dir"} => "new" \notin folders
    BY <1>1, <1>2, AllowedFacts
  <2>2. ~slipped /\ printing => tree[printed.path] # 0
    BY DEF AllRequestsOK, PrintedOK
  <2> HIDE DEF r
  <2>3. /\ ~slipped /\ printing =>
             /\ r.what \in MovesOrCopies => printed.path # r.to
             /\ r.what \in {"move", "move_dir"} => printed.path # r.path
             /\ r.what = "force_delete" => printed.path # "sub/a"
        /\ r.what = "copy" => tree[r.path] # 0
    BY <2>1, <2>2 DEF Untouched, InUse, IsFile, MovesOrCopies
  <2> QED BY <1>1, <2>1, <2>3 DEF ThreadOK, storedVars, printVars, outcomeVars, r
<1>5. \A s \in Request : pc'[s] = "thread" => s = t
  BY <1>2 DEF Doing
<1>6. \A s \in Request : ~Owes(s)'
  BY <1>2 DEF Owes, Doing
<1>7. OwedOK' /\ StoredOK' /\ RequestTypes' /\ PrintedOK'
  BY <1>1, <1>3, <1>6 DEF AllRequestsOK, OwedOK, StoredOK, RequestTypes, PrintedOK, storedVars, printVars, outcomeVars
<1> QED BY <1>2, <1>4, <1>5, <1>7 DEF AllRequestsOK

LEMMA UploadPlacedKeeps ==
  ASSUME AllRequestsOK, NEW t \in Request, UploadPlaced(t)
  PROVE  AllRequestsOK'
<1> DEFINE r == request[t]
<1>1. /\ HasTurn(t) /\ HoldsTurn(t) /\ pc[t] = "asked" /\ r.what = "upload" /\ Allowed(r)
      /\ UNCHANGED <<entries, printed, printing, outcomeVars, slipped>>
      /\ \/ /\ versions' = versions + 1 /\ tree' = [tree EXCEPT ![r.to] = versions']
            /\ folders' = folders \cup Parent(r.to)
            /\ mayStart' = ~printing /\ toPrint' = toPrint + (IF r.print THEN 1 ELSE 0)
            /\ ThenWaits(t, "metadata")
         \/ EndsRequest(t) /\ UNCHANGED <<versions, tree, folders, mayStart, toPrint>>
  BY DEF UploadPlaced, HasTurn
<1>2. r \in Asked /\ tree \in [Path -> Nat] /\ versions \in Nat /\ toPrint \in Nat
  BY <1>1 DEF AllRequestsOK, TurnsOK, Doing, RequestTypes
<1>3. r.to \in {"a", "sub/a"} /\ r.print \in BOOLEAN /\ ~InUse(r.to)
  BY <1>1, <1>2, AskedFacts, AllowedFacts
<1>4. ~slipped => /\ \A p \in GcodePath : entries[p] \in {0, tree[p]}
                  /\ toPrint = given + declined
  BY <1>1, Settled
<1>5. CASE EndsRequest(t) /\ UNCHANGED <<versions, tree, folders, mayStart, toPrint>>
  <2>1. RequestTypes' /\ PrintedOK' /\ (tree'["new/a"] # 0 => "new" \in folders')
    BY <1>1, <1>5 DEF AllRequestsOK, RequestTypes, PrintedOK, StoredOK, outcomeVars
  <2>2. ~slipped' => /\ \A p \in GcodePath : entries'[p] \in {0, tree'[p]}
                     /\ toPrint' = given' + declined'
    BY <1>1, <1>4, <1>5 DEF outcomeVars
  <2> QED BY <1>1, <1>5, <2>1, <2>2, TurnEndsKeeps
<1>6. CASE /\ versions' = versions + 1 /\ tree' = [tree EXCEPT ![r.to] = versions']
           /\ folders' = folders \cup Parent(r.to)
           /\ mayStart' = ~printing /\ toPrint' = toPrint + (IF r.print THEN 1 ELSE 0)
           /\ ThenWaits(t, "metadata")
  <2>1. r.to \in GcodePath /\ request' = request
    BY <1>3, <1>6 DEF GcodePath, ThenWaits
  <2>2. /\ TurnsOK' /\ pc'[t] = "metadata"
        /\ \A s \in Request : Doing(s)' => s = t
    BY <1>1, <1>6, <2>1, TurnGoesOn
  <2>3. \A s \in Request : pc'[s] # "thread" /\ (Owes(s)' <=> s = t /\ r.print)
    BY <1>3, <2>1, <2>2 DEF Doing, Owes
  <2>4. toPrint' \in Nat /\ versions' \in Nat /\ versions' # 0 /\ mayStart' \in BOOLEAN
    BY <1>2, <1>3, <1>6
  <2>5. tree' \in [Path -> Nat] /\ GcodePath \subseteq Path
    BY <1>2, <1>6, <2>4 DEF Path
  <2>6. RequestTypes'
    BY <1>1, <2>4, <2>5 DEF AllRequestsOK, RequestTypes, outcomeVars
  <2>7. \A p \in Path : p # r.to => tree'[p] = tree[p]
    BY <1>2, <1>6
  <2>8. PrintedOK'
    BY <1>1, <1>3, <2>5, <2>7 DEF AllRequestsOK, PrintedOK, InUse
  <2>9. StoredOK'
    <3>1. \A p : p = r.to => Parsing(p)'
      BY <2>1, <2>2 DEF Parsing
    <3>2. tree'["new/a"] = tree["new/a"] /\ folders \subseteq folders'
      BY <1>3, <1>6, <2>5, <2>7 DEF GcodePath
    <3>3. slipped' = slipped /\ slipped \in BOOLEAN /\ \A p \in GcodePath : entries'[p] = entries[p]
      BY <1>1 DEF AllRequestsOK, RequestTypes
    <3> HIDE DEF r
    <3> QED BY <1>4, <2>5, <2>7, <3>1, <3>2, <3>3 DEF AllRequestsOK, StoredOK
  <2>10. OwedOK'
    <3>1. (\E s \in Request : Owes(s)') <=> r.print
      BY <2>3
    <3>2. slipped' = slipped /\ given' = given /\ declined' = declined
      BY <1>1 DEF outcomeVars
    <3> QED BY <1>2, <1>3, <1>4, <1>6, <3>1, <3>2 DEF OwedOK
  <2> QED BY <2>2, <2>3, <2>6, <2>8, <2>9, <2>10 DEF AllRequestsOK
<1> QED BY <1>1, <1>5, <1>6

LEMMA FileMovedByKeeps ==
  ASSUME AllRequestsOK, NEW t \in Request, FileMovedBy(t)
  PROVE  AllRequestsOK'
<1> DEFINE r == request[t]
           moves == r.what \in {"move", "move_dir"}
<1>1. /\ HoldsTurn(t) /\ pc[t] = "thread" /\ r.what \in MovesOrCopies
      /\ UNCHANGED <<versions, printVars, slipped>>
      /\ tree' = [p \in Path |-> IF p = r.to THEN tree[r.path]
                                 ELSE IF p = r.path /\ moves THEN 0 ELSE tree[p]]
      /\ folders' = IF r.what \notin {"move_dir", "copy_dir"} THEN folders
                    ELSE (folders \cup {"new"}) \ (IF moves THEN {"sub"} ELSE {})
      /\ entries' = IF moves THEN EntriesMoved(r.path, r.to) ELSE entries
      /\ IF r.to \in GcodePath /\ (~moves \/ entries'[r.to] = 0) /\ tree'[r.to] # 0
         THEN ThenWaits(t, "metadata") ELSE EndsRequest(t)
  BY DEF FileMovedBy, MovesOrCopies
<1>2. r \in Asked /\ tree \in [Path -> Nat] /\ entries \in [Path -> Nat] /\ ThreadOK(t)
  BY <1>1 DEF AllRequestsOK, TurnsOK, Doing, RequestTypes
<1>3. /\ r.path \in Path /\ r.to \in Path /\ (r.print => r.what = "upload") /\ r.print \in BOOLEAN
      /\ r.what \in {"move_dir", "copy_dir"} => r.path = "sub/a" /\ r.to = "new/a"
      /\ r.what \in {"move", "copy"} => r.to \in {"a", "config/a"} /\ r.path # "new/a"
  BY <1>2, AskedFacts
<1>4. ~slipped => /\ \A p \in GcodePath : entries[p] \in {0, tree[p]}
                  /\ toPrint = given + declined
  BY <1>1, Settled
<1>5. GcodePath \subseteq Path /\ "new/a" \in GcodePath
  BY DEF Path, GcodePath
<1>6. /\ ~slipped /\ printing => /\ printed.path # r.to
                                 /\ moves => printed.path # r.path
      /\ r.what = "copy" => tree[r.path] # 0
      /\ r.what = "copy_dir" => "new" \notin folders
  BY <1>1, <1>2 DEF ThreadOK
<1>7. (tree["new/a"] # 0 => "new" \in folders) /\ slipped \in BOOLEAN
  BY DEF AllRequestsOK, StoredOK, RequestTypes
<1> HIDE DEF r
<1>8. tree' \in [Path -> Nat] /\ entries' \in [Path -> Nat]
  BY <1>1, <1>2, <1>3 DEF EntriesMoved
<1>9. RequestTypes'
  BY <1>1, <1>8 DEF AllRequestsOK, RequestTypes, printVars, outcomeVars
<1>10. PrintedOK'
  BY <1>1, <1>5, <1>6 DEF AllRequestsOK, PrintedOK, printVars, outcomeVars
<1>11. tree'["new/a"] # 0 => "new" \in folders'
  BY <1>1, <1>3, <1>5, <1>7 DEF MovesOrCopies
<1>12. ~slipped => \A p \in GcodePath : p # r.to => entries'[p] \in {0, tree'[p]}
  BY <1>1, <1>3, <1>4, <1>5 DEF EntriesMoved
<1>13. ASSUME ~slipped, r.to \in GcodePath
       PROVE  entries'[r.to] \in {0, tree'[r.to]} \/ (~moves /\ tree'[r.to] # 0)
  <2>0. \A p \in GcodePath : entries[p] \in {0, tree[p]}
    BY <1>4, <1>13
  <2>1. CASE moves
    <3>1. entries'[r.to] = IF r.to = r.path THEN 0
                           ELSE IF {r.path, r.to} \subseteq GcodePath THEN entries[r.path] ELSE 0
      BY <1>1, <1>3, <2>1 DEF EntriesMoved
    <3>2. tree'[r.to] = tree[r.path]
      BY <1>1, <1>3
    <3> QED BY <1>13, <2>0, <3>1, <3>2
  <2>2. CASE r.what = "copy"
    BY <1>1, <1>3, <1>6, <2>2
  <2>3. CASE r.what = "copy_dir"
    <3>1. tree["new/a"] = 0 /\ r.to = "new/a"
      BY <1>3, <1>6, <1>7, <2>3
    <3>2. entries["new/a"] = 0
      BY <1>5, <2>0, <3>1
    <3>3. ~moves
      BY <2>3
    <3>4. entries' = entries
      BY <1>1, <3>3
    <3> QED BY <3>1, <3>2, <3>4
  <2> QED BY <1>1, <2>1, <2>2, <2>3 DEF MovesOrCopies
<1>14. slipped' = slipped /\ toPrint' = toPrint /\ given' = given /\ declined' = declined
  BY <1>1 DEF printVars, outcomeVars
<1> HIDE DEF moves
<1>15. CASE r.to \in GcodePath /\ (~moves \/ entries'[r.to] = 0) /\ tree'[r.to] # 0
  <2>1. ThenWaits(t, "metadata") /\ request' = request /\ Doing(t)
    BY <1>1, <1>15 DEF ThenWaits, Doing
  <2>2. /\ TurnsOK' /\ pc'[t] = "metadata"
        /\ \A s \in Request : Doing(s)' => s = t
    BY <1>1, <1>15, <2>1, TurnGoesOn DEF r
  <2>3. \A s \in Request : pc'[s] # "thread" /\ ~Owes(s)'
    <3>1. ~r.print
      BY <1>1, <1>3 DEF MovesOrCopies
    <3> QED BY <2>1, <2>2, <3>1 DEF Doing, Owes, r
  <2>4. \A p : p = r.to => Parsing(p)'
    BY <2>1, <2>2 DEF Parsing, r
  <2>5. StoredOK'
    BY <1>7, <1>11, <1>12, <1>14, <2>4 DEF StoredOK
  <2>6. OwedOK'
    <3>1. ~(\E s \in Request : Owes(s)')
      BY <2>3
    <3>2. given \in Nat /\ declined \in Nat
      BY DEF AllRequestsOK, RequestTypes
    <3> QED BY <1>4, <1>14, <3>1, <3>2 DEF OwedOK
  <2> QED BY <1>9, <1>10, <2>2, <2>3, <2>5, <2>6 DEF AllRequestsOK
<1>16. CASE ~(r.to \in GcodePath /\ (~moves \/ entries'[r.to] = 0) /\ tree'[r.to] # 0)
  <2>1. EndsRequest(t)
    BY <1>1, <1>16
  <2>2. ~slipped' => /\ \A p \in GcodePath : entries'[p] \in {0, tree'[p]}
                     /\ toPrint' = given' + declined'
    BY <1>4, <1>12, <1>13, <1>14, <1>16
  <2> QED BY <1>1, <1>9, <1>10, <1>11, <2>1, <2>2, TurnEndsKeeps
<1> QED BY <1>15, <1>16

LEMMA ThreadEndsKeeps ==
  ASSUME AllRequestsOK, NEW t \in Request, FolderRemoved(t) \/ Zipped(t) \/ ThreadFails(t)
  PROVE  AllRequestsOK'
<1>1. /\ HoldsTurn(t) /\ pc[t] = "thread" /\ EndsRequest(t) /\ UNCHANGED printVars
      /\ \/ /\ request[t].what = "force_delete" /\ tree' = [tree EXCEPT !["sub/a"] = 0]
            /\ entries' = [entries EXCEPT !["sub/a"] = 0]
            /\ folders' = folders \ {"sub"} /\ UNCHANGED <<versions, slipped>>
         \/ /\ versions' = versions + 1 /\ tree' = [tree EXCEPT !["config/a"] = versions']
            /\ UNCHANGED <<folders, entries, slipped>>
         \/ UNCHANGED <<storedVars, slipped>>
         \/ /\ tree' = [tree EXCEPT !["sub/a"] = 0] /\ slipped' = TRUE
            /\ UNCHANGED <<folders, versions, entries>>
  BY DEF FolderRemoved, Zipped, ThreadFails, Cleared, storedVars
<1>2. /\ tree \in [Path -> Nat] /\ entries \in [Path -> Nat] /\ versions \in Nat
      /\ tree["new/a"] # 0 => "new" \in folders
      /\ ~slipped /\ printing /\ request[t].what = "force_delete" => printed.path # "sub/a"
  BY <1>1 DEF AllRequestsOK, RequestTypes, StoredOK, ThreadOK
<1>3. ~slipped => /\ \A p \in GcodePath : entries[p] \in {0, tree[p]}
                  /\ toPrint = given + declined
  BY <1>1, Settled
<1>4. GcodePath \subseteq Path /\ {"new/a", "sub/a"} \subseteq GcodePath /\ "config/a" \in Path \ GcodePath
  BY DEF Path, GcodePath
<1>5. RequestTypes'
  <2>1. versions' \in Nat
    BY <1>1, <1>2 DEF storedVars
  <2>2. tree' \in [Path -> Nat] /\ entries' \in [Path -> Nat]
    BY <1>1, <1>2, <1>4, <2>1 DEF storedVars
  <2>3. slipped' \in BOOLEAN
    BY <1>1 DEF AllRequestsOK, RequestTypes
  <2> QED BY <1>1, <2>1, <2>2, <2>3 DEF AllRequestsOK, RequestTypes, printVars, outcomeVars
<1>6. PrintedOK'
  BY <1>1, <1>2, <1>4 DEF AllRequestsOK, PrintedOK, printVars, outcomeVars, storedVars
<1>7. tree'["new/a"] # 0 => "new" \in folders'
  BY <1>1, <1>2, <1>4 DEF storedVars
<1>8. ~slipped' => /\ \A p \in GcodePath : entries'[p] \in {0, tree'[p]}
                   /\ toPrint' = given' + declined'
  BY <1>1, <1>2, <1>3, <1>4 DEF storedVars, printVars, outcomeVars
<1> QED BY <1>1, <1>5, <1>6, <1>7, <1>8, TurnEndsKeeps

LEMMA MetadataParsedKeeps ==
  ASSUME AllRequestsOK, NEW t \in Request, MetadataParsed(t)
  PROVE  AllRequestsOK'
<1> DEFINE r == request[t]
           upload == r.what = "upload" /\ r.print
<1>1. /\ HoldsTurn(t) /\ pc[t] = "metadata"
      /\ UNCHANGED <<tree, folders, versions, mayStart, queuesPrints, printed, printing, toPrint, given,
                     slipped>>
      /\ entries' = [entries EXCEPT ![r.to] = tree[r.to]] \/ entries' = [entries EXCEPT ![r.to] = 0]
      /\ \/ ~upload /\ EndsRequest(t) /\ declined' = declined
         \/ upload /\ declined' = declined /\ \E p \in {"starting", "queueing"} : ThenWaits(t, p)
         \/ upload /\ ~queuesPrints /\ EndsRequest(t) /\ declined' = declined + 1
  BY DEF MetadataParsed, Cleared, QueuedInstead
<1>2. /\ r \in Asked /\ r.to \in GcodePath /\ tree \in [Path -> Nat] /\ entries \in [Path -> Nat]
      /\ tree["new/a"] # 0 => "new" \in folders
      /\ given \in Nat /\ declined \in Nat /\ queuesPrints \in BOOLEAN /\ slipped \in BOOLEAN
  BY <1>1 DEF AllRequestsOK, TurnsOK, Doing, RequestTypes, StoredOK
<1>3. GcodePath \subseteq Path
  BY DEF Path
<1>4. \A s \in Request : Doing(s) => s = t
  BY <1>1, OneTurn
<1>5. (r.print => r.what = "upload") /\ r.print \in BOOLEAN
  BY <1>2, AskedFacts
<1>6. \A p \in GcodePath : p # r.to => ~Parsing(p)
  BY <1>4 DEF Parsing, Doing
<1>7. (\E s \in Request : Owes(s)) <=> upload
  <2>1. \A s \in Request : Owes(s) <=> s = t /\ r.print
    BY <1>1, <1>4, <1>5 DEF Owes, Doing
  <2> QED BY <1>5, <2>1
<1>8. declined' \in Nat /\ (~slipped /\ queuesPrints => declined' = 0)
  BY <1>1, <1>2 DEF AllRequestsOK, RequestTypes
<1> HIDE DEF r
<1>9. RequestTypes' /\ PrintedOK'
  BY <1>1, <1>2, <1>3, <1>8 DEF AllRequestsOK, RequestTypes, PrintedOK
<1>10. ~slipped' => \A p \in GcodePath : entries'[p] \in {0, tree'[p]}
  BY <1>1, <1>2, <1>3, <1>6 DEF AllRequestsOK, StoredOK
<1>11. tree'["new/a"] # 0 => "new" \in folders'
  BY <1>1, <1>2
<1>12. ~slipped => toPrint = given + declined + (IF upload THEN 1 ELSE 0)
  BY <1>7 DEF AllRequestsOK, OwedOK
<1>13. CASE upload /\ declined' = declined /\ \E p \in {"starting", "queueing"} : ThenWaits(t, p)
  <2>0. PICK next \in {"starting", "queueing"} : ThenWaits(t, next)
    BY <1>13
  <2>1. ThenWaits(t, next) /\ request' = request /\ Doing(t)
    BY <1>1, <2>0 DEF ThenWaits, Doing
  <2>2. /\ TurnsOK' /\ pc'[t] = next
        /\ \A s \in Request : Doing(s)' => s = t
    BY <1>1, <1>13, <2>1, TurnGoesOn DEF r
  <2>3. Owes(t)' /\ \A s \in Request : pc'[s] # "thread"
    BY <1>13, <2>1, <2>2 DEF Owes, Doing, r
  <2>4. OwedOK'
    <3>1. \E s \in Request : Owes(s)'
      BY <2>3
    <3> QED BY <1>1, <1>12, <1>13, <3>1 DEF OwedOK
  <2>5. StoredOK'
    BY <1>10, <1>11 DEF StoredOK
  <2> QED BY <1>9, <2>2, <2>3, <2>4, <2>5 DEF AllRequestsOK
<1>14. CASE EndsRequest(t) /\ declined' = declined + (IF upload THEN 1 ELSE 0)
  <2>1. ~slipped' => toPrint' = given' + declined'
    BY <1>1, <1>2, <1>12, <1>14
  <2> QED BY <1>1, <1>9, <1>10, <1>11, <1>14, <2>1, TurnEndsKeeps
<1> QED BY <1>1, <1>2, <1>13, <1>14

LEMMA UploadPrintsKeeps ==
  ASSUME AllRequestsOK, NEW t \in Request, UploadStarts(t) \/ UploadQueued(t)
  PROVE  AllRequestsOK'
<1> DEFINE r == request[t]
<1>1. /\ HoldsTurn(t) /\ pc[t] \in {"starting", "queueing"}
      /\ UNCHANGED <<storedVars, mayStart, queuesPrints, toPrint>>
      /\ \/ /\ ~printing /\ IsFile(r.to) /\ printing' = TRUE
            /\ printed' = [path |-> r.to, version |-> tree[r.to]]
            /\ given' = given + 1
            /\ \/ EndsRequest(t) /\ slipped' = slipped /\ declined' = declined
               \/ slipped' = TRUE /\ QueuedInstead(t)
         \/ QueuedInstead(t) /\ UNCHANGED <<printing, printed, given, slipped>>
         \/ /\ EndsRequest(t) /\ given' = (IF slipped THEN given ELSE given + 1)
            /\ UNCHANGED <<printing, printed, declined, slipped>>
  BY DEF UploadStarts, UploadQueued
<1>0. \/ EndsRequest(t) /\ declined' = declined
      \/ ThenWaits(t, "queueing") /\ declined' = declined
      \/ EndsRequest(t) /\ ~queuesPrints /\ declined' = declined + 1
  BY <1>1 DEF QueuedInstead
<1>2. /\ r \in Asked /\ r.what = "upload" /\ r.print /\ tree \in [Path -> Nat]
      /\ tree["new/a"] # 0 => "new" \in folders
      /\ given \in Nat /\ declined \in Nat /\ queuesPrints \in BOOLEAN
  BY <1>1 DEF AllRequestsOK, TurnsOK, Doing, RequestTypes, StoredOK
<1>3. r.to \in GcodePath /\ GcodePath \subseteq Path
  BY <1>2, AskedFacts DEF Path, GcodePath
<1>4. \A s \in Request : Doing(s) => s = t
  BY <1>1, OneTurn DEF HasTurn
<1>5. Doing(t) /\ Owes(t) /\ \A p : ~Parsing(p)
  BY <1>1, <1>2, <1>4 DEF Parsing, Doing, Owes
<1>6. ~slipped => /\ \A p \in GcodePath : entries[p] \in {0, tree[p]}
                  /\ toPrint = given + declined + 1
  BY <1>5 DEF AllRequestsOK, StoredOK, OwedOK
<1> HIDE DEF r
<1>7. RequestTypes'
  <2>0. slipped \in BOOLEAN /\ printing \in BOOLEAN
    BY DEF AllRequestsOK, RequestTypes
  <2>1. given' \in Nat /\ printing' \in BOOLEAN /\ slipped' \in BOOLEAN
    <3>1. given' \in {given, given + 1}
      BY <1>1
    <3>2. (printing' = printing \/ printing' = TRUE) /\ (slipped' = slipped \/ slipped' = TRUE)
      BY <1>1, Zenon
    <3>3. printing' \in BOOLEAN /\ slipped' \in BOOLEAN
      BY <2>0, <3>2, Zenon
    <3>4. given' \in Nat
      BY <1>2, <3>1
    <3> QED BY <3>3, <3>4
  <2>2. declined' \in Nat /\ (~slipped' /\ queuesPrints => declined' = 0)
    <3>1. ~slipped' => ~slipped
      BY <1>1, <2>0, <2>1
    <3> QED BY <1>0, <1>2, <3>1 DEF AllRequestsOK, RequestTypes
  <2> QED BY <1>1, <2>1, <2>2 DEF AllRequestsOK, RequestTypes, storedVars
<1>8. PrintedOK'
  <2>1. slipped \in BOOLEAN /\ slipped' \in BOOLEAN /\ tree' = tree
    BY <1>1, <1>7 DEF AllRequestsOK, RequestTypes, storedVars
  <2>2. CASE IsFile(r.to) /\ printed' = [path |-> r.to, version |-> tree[r.to]]
    BY <1>3, <2>1, <2>2 DEF PrintedOK, IsFile
  <2>3. CASE UNCHANGED <<printing, printed, slipped>>
    BY <2>1, <2>3 DEF AllRequestsOK, PrintedOK
  <2> QED BY <1>1, <2>2, <2>3
<1>9. tree' = tree /\ entries' = entries /\ folders' = folders /\ toPrint' = toPrint
  BY <1>1 DEF storedVars
<1>10. CASE EndsRequest(t) /\ (~slipped' => ~slipped /\ given' + declined' = given + declined + 1)
  BY <1>1, <1>2, <1>6, <1>7, <1>8, <1>9, <1>10, TurnEndsKeeps
<1>11. CASE ThenWaits(t, "queueing") /\ declined' = declined /\ (slipped' \/ (given' = given /\ ~slipped))
  <2>1. request' = request
    BY <1>11 DEF ThenWaits
  <2>2. /\ TurnsOK' /\ pc'[t] = "queueing"
        /\ \A s \in Request : Doing(s)' => s = t
    BY <1>1, <1>2, <1>5, <1>11, TurnGoesOn DEF r
  <2>3. Owes(t)' /\ \A s \in Request : pc'[s] # "thread"
    BY <1>2, <2>1, <2>2 DEF Owes, Doing, r
  <2>4. OwedOK'
    <3>1. \E s \in Request : Owes(s)'
      BY <2>3
    <3> QED BY <1>2, <1>6, <1>9, <1>11, <3>1 DEF OwedOK
  <2>5. StoredOK'
    BY <1>2, <1>6, <1>9, <1>11 DEF StoredOK
  <2> QED BY <1>7, <1>8, <2>2, <2>3, <2>4, <2>5 DEF AllRequestsOK
<1>12. slipped \in BOOLEAN
  BY DEF AllRequestsOK, RequestTypes
<1>13. \/ slipped'
       \/ /\ ~slipped
          /\ \/ EndsRequest(t) /\ given' = given + 1 /\ declined' = declined
             \/ QueuedInstead(t) /\ given' = given
  BY <1>1, <1>12
<1>14. ~slipped' => \/ EndsRequest(t) /\ ~slipped /\ given' + declined' = given + declined + 1
                    \/ ThenWaits(t, "queueing") /\ declined' = declined /\ given' = given /\ ~slipped
  BY <1>2, <1>13 DEF QueuedInstead
<1> QED BY <1>0, <1>10, <1>11, <1>14

LEMMA PrinterKeeps ==
  ASSUME AllRequestsOK, OtherPrint \/ PrintEnds
  PROVE  AllRequestsOK'
<1>1. /\ UNCHANGED <<pc, storedVars, turns, request, mayStart, toPrint, outcomeVars>>
      /\ \/ /\ ~printing /\ printing'
            /\ \E p \in GcodePath : IsFile(p) /\ printed' = [path |-> p, version |-> tree[p]]
            /\ slipped' = (slipped \/ \E t \in Request : pc[t] = "thread")
         \/ printing' = FALSE /\ slipped' = slipped
  BY DEF OtherPrint, PrintEnds
<1>2. printing' \in BOOLEAN /\ slipped' \in BOOLEAN /\ (~slipped' => ~slipped)
  <2>1. slipped \in BOOLEAN
    BY DEF AllRequestsOK, RequestTypes
  <2>2. printing' \in BOOLEAN
    BY DEF OtherPrint, PrintEnds
  <2>3. slipped' \in BOOLEAN
    BY <1>1, <2>1, Zenon
  <2>4. ~slipped' => ~slipped
    BY <1>1, Zenon
  <2> QED BY <2>2, <2>3, <2>4
<1>3. TurnsOK'
  BY <1>1 DEF AllRequestsOK, TurnsOK, Doing, HoldsTurn
<1>4. RequestTypes'
  BY <1>1, <1>2 DEF AllRequestsOK, RequestTypes, storedVars, outcomeVars
<1>5. PrintedOK'
  BY <1>1 DEF PrintedOK, IsFile, storedVars
<1>6. StoredOK'
  BY <1>1, <1>2 DEF AllRequestsOK, StoredOK, Parsing, storedVars
<1>7. OwedOK'
  BY <1>1, <1>2 DEF AllRequestsOK, OwedOK, Owes, outcomeVars
<1>8. ASSUME NEW t \in Request, pc'[t] = "thread" PROVE ThreadOK(t)'
  <2>1. pc[t] = "thread" /\ ThreadOK(t)
    BY <1>1, <1>8 DEF AllRequestsOK
  <2>2. printing' => slipped'
    BY <1>1, <2>1
  <2> QED BY <1>1, <2>1, <2>2 DEF ThreadOK, storedVars
<1> QED BY <1>3, <1>4, <1>5, <1>6, <1>7, <1>8 DEF AllRequestsOK

LEMMA FileRequestsKeep ==
  ASSUME AllRequestsOK, FileRequestsNext
  PROVE  AllRequestsOK'
BY AsksFileKeeps, TurnCameKeeps, FileRefusedKeeps, RemovedAtOnceKeeps, ThreadStartsKeeps,
   UploadPlacedKeeps, FileMovedByKeeps, ThreadEndsKeeps, MetadataParsedKeeps, UploadPrintsKeeps,
   PrinterKeeps DEF FileRequestsNext

(* A step of none of its variables changes nothing. *)
LEMMA FileRequestsStutter ==
  ASSUME AllRequestsOK, UNCHANGED <<pc, printing, reqVars>>
  PROVE  AllRequestsOK'
<1>1. UNCHANGED <<storedVars, printVars, slipped, turns, request, pc>>
  BY DEF reqVars, storedVars, printVars, outcomeVars
<1>2. TurnsOK'
  BY <1>1 DEF AllRequestsOK, TurnsOK, Doing, HoldsTurn
<1> QED BY <1>1, <1>2, FileRequestsFrame
-----------------------------------------------------------------------------
(***************************************************************************)
(* Git repositories: what a refresh has found out so far is so, as long as   *)
(* nobody else has worked in it and no command has given up; what counts as   *)
(* valid is pristine until a request moves HEAD and fails.                    *)
(***************************************************************************)
AsFound == ~touched /\ ~repoMisjudged
Pristine ==
  repoKnown.current = HeadCommit /\ ~HeadCommit.own /\ detachedAt = None /\ ~edited

RepoPlaces ==
  {"idle", "status", "branch", "fetch", "diverged", "head", "log", "pull_fetch", "pull", "depend",
   "recover", "clone", "rollback"}

KnownOK ==
  /\ {touched, repoMisjudged, halfDone, lostWork, edited, isValid} \subseteq BOOLEAN
  /\ DOMAIN repoKnown = {"repo", "branch", "remote", "current", "upstream", "dirty", "detached",
                         "diverged", "corrupt"}
  /\ {repoKnown.detached, repoKnown.diverged, repoKnown.dirty} \subseteq BOOLEAN

(* What each stage of a refresh has found out *)
StagesOK ==
  /\ pc["worker"] \in {"fetch", "diverged", "head", "log"} /\ ~touched =>
       (repoKnown.detached <=> detachedAt # None)
  /\ pc["worker"] \in {"head", "log"} /\ AsFound /\ ~repoKnown.detached /\ ~repoKnown.diverged =>
       Precedes(HeadCommit, Commit(tracking))
  /\ pc["worker"] = "log" /\ AsFound =>
       repoKnown.current = HeadCommit /\ repoKnown.dirty = edited

RepositoryOK ==
  /\ DOMAIN pc = Task /\ pc["worker"] \in RepoPlaces
  /\ KnownOK /\ StagesOK
  /\ isValid /\ AsFound /\ ~halfDone => Pristine
  /\ pc["worker"] \in {"pull_fetch", "pull"} => isValid
  /\ pc["worker"] \in {"status", "branch", "fetch", "diverged", "head", "log"} => ~isValid
  /\ ~lostWork

LEMMA WorkerIsTask == "worker" \in Task
BY DEF Task, Background

LEMMA RepositoryBegins ==
  ASSUME HostInit, RepositoryInit
  PROVE  RepositoryOK
<1>1. DOMAIN pc = Task /\ pc["worker"] = "idle"
  BY WorkerIsTask DEF HostInit
<1>2. KnownOK
  BY DEF RepositoryInit, KnownOK
<1>3. Pristine
  BY DEF RepositoryInit, Pristine, HeadCommit, Commit
<1> QED BY <1>1, <1>2, <1>3 DEF RepositoryInit, RepositoryOK, StagesOK, RepoPlaces

LEMMA RepositoryServes ==
  ASSUME RepositoryOK
  PROVE  UpdateKeepsWork /\ ValidIsPristine
BY DEF RepositoryOK, UpdateKeepsWork, ValidIsPristine, AsFound, Pristine

(* The worker goes from one place to another. *)
LEMMA GoesThere ==
  ASSUME RepositoryOK, NEW place \in RepoPlaces, Goes("worker", place)
  PROVE  DOMAIN pc' = Task /\ pc'["worker"] = place
BY WorkerIsTask DEF Goes, RepositoryOK

(* Where a request is over, or goes on outside a refresh *)
LEMMA OutOfRefresh ==
  ASSUME RepositoryOK, KnownOK', ~lostWork',
         NEW place \in {"idle", "depend", "recover", "clone", "rollback"},
         Goes("worker", place), isValid' /\ AsFound' /\ ~halfDone' => Pristine'
  PROVE  RepositoryOK'
<1>1. DOMAIN pc' = Task /\ pc'["worker"] = place
  BY GoesThere DEF RepoPlaces
<1>2. StagesOK'
  BY <1>1 DEF StagesOK
<1> QED BY <1>1, <1>2 DEF RepositoryOK, RepoPlaces

(* A refresh begins, or goes on: nothing counts as valid. *)
LEMMA InRefresh ==
  ASSUME RepositoryOK, KnownOK', ~lostWork', ~isValid', StagesOK',
         NEW place \in {"status", "branch", "fetch", "diverged", "head", "log"},
         Goes("worker", place)
  PROVE  RepositoryOK'
<1>1. DOMAIN pc' = Task /\ pc'["worker"] = place
  BY GoesThere DEF RepoPlaces
<1> QED BY <1>1 DEF RepositoryOK, RepoPlaces

LEMMA RefreshBeginsKeeps ==
  ASSUME RepositoryOK, KnownOK', ~lostWork', RefreshBegins("status")
  PROVE  RepositoryOK'
<1>1. Goes("worker", "status") /\ ~isValid'
  BY DEF RefreshBegins
<1>2. pc'["worker"] = "status"
  BY <1>1, GoesThere DEF RepoPlaces
<1>3. StagesOK'
  BY <1>2 DEF StagesOK
<1> QED BY <1>1, <1>3, InRefresh

LEMMA RepoAskedKeeps ==
  ASSUME RepositoryOK, RepoAsked
  PROVE  RepositoryOK'
<1>1. PICK what \in {"refresh", "update", "recover", "clone", "rollback"} :
        /\ what = "update" => isValid
        /\ Goes("worker", CASE what = "refresh" -> "status" [] what = "update" -> "pull_fetch"
                            [] OTHER -> what)
        /\ touched' = (IF what = "refresh" THEN FALSE ELSE touched)
        /\ repoMisjudged' = (IF what = "refresh" THEN FALSE ELSE repoMisjudged)
        /\ isValid' = (isValid /\ what # "refresh")
  BY DEF RepoAsked
<1>2. UNCHANGED <<master, detachedAt, edited, tracking, repoKnown, halfDone, lostWork>>
  BY DEF RepoAsked, KeepsTree, treeVars
<1>3. CASE what = "refresh"
  <2>1. RefreshBegins("status")
    <3>1. Goes("worker", "status") /\ touched' = FALSE /\ repoMisjudged' = FALSE
      BY <1>1, <1>3
    <3>2. isValid' = FALSE
      BY <1>1, <1>3, Zenon
    <3> QED BY <3>1, <3>2 DEF RefreshBegins
  <2>2. KnownOK' /\ ~lostWork'
    BY <1>2, <2>1 DEF RepositoryOK, KnownOK, RefreshBegins
  <2> QED BY <2>1, <2>2, RefreshBeginsKeeps
<1>4. CASE what # "refresh"
  <2>1. touched' = touched /\ repoMisjudged' = repoMisjudged /\ isValid' = isValid
    <3>1. isValid \in BOOLEAN
      BY DEF RepositoryOK, KnownOK
    <3> QED BY <1>1, <1>4, <3>1
  <2>2. KnownOK' /\ ~lostWork' /\ (isValid' /\ AsFound' /\ ~halfDone' => Pristine')
    BY <1>2, <2>1 DEF RepositoryOK, KnownOK, AsFound, Pristine, HeadCommit
  <2>3. CASE what = "update"
    <3>1. Goes("worker", "pull_fetch") /\ isValid
      BY <1>1, <2>3
    <3>2. DOMAIN pc' = Task /\ pc'["worker"] = "pull_fetch"
      BY <3>1, GoesThere DEF RepoPlaces
    <3>3. StagesOK'
      BY <3>2 DEF StagesOK
    <3> QED BY <2>1, <2>2, <3>1, <3>2, <3>3 DEF RepositoryOK, RepoPlaces
  <2>4. CASE what \in {"recover", "clone", "rollback"}
    <3>1. Goes("worker", what)
      BY <1>1, <2>4
    <3> QED BY <2>2, <2>4, <3>1, OutOfRefresh
  <2> QED BY <1>4, <2>3, <2>4
<1> QED BY <1>3, <1>4

(* What keeps the tree and what is known of it, and ends the request. *)
LEMMA RepoEndsKeeps ==
  ASSUME RepositoryOK, Goes("worker", "idle"), KnownOK', UNCHANGED <<isValid, touched, halfDone, lostWork>>,
         repoMisjudged => repoMisjudged',
         isValid /\ Pristine => Pristine'
  PROVE  RepositoryOK'
<1>1. isValid' /\ AsFound' /\ ~halfDone' => Pristine'
  BY DEF RepositoryOK, AsFound
<1>2. ~lostWork'
  BY DEF RepositoryOK
<1> QED BY <1>1, <1>2, OutOfRefresh

LEMMA StatusReadKeeps ==
  ASSUME RepositoryOK, StatusRead
  PROVE  RepositoryOK'
<1>1. /\ pc["worker"] = "status" /\ UNCHANGED <<isValid, touched, halfDone, repoMisjudged, lostWork>>
      /\ edited' = edited
      /\ Goes("worker", "branch") \/ Goes("worker", "idle")
  BY DEF StatusRead, RepoAt, GitStep, RefreshRaised, KeepsTree, treeVars, ghostRepoVars
<1>2. /\ DOMAIN repoKnown' = DOMAIN repoKnown /\ repoKnown'.detached = repoKnown.detached
      /\ repoKnown'.diverged = repoKnown.diverged
      /\ repoKnown'.dirty = repoKnown.dirty \/ repoKnown'.dirty = FALSE
  BY DEF StatusRead, RepositoryOK, KnownOK
<1>3. KnownOK' /\ ~isValid' /\ ~isValid /\ ~lostWork'
  BY <1>1, <1>2 DEF RepositoryOK, KnownOK
<1>4. CASE Goes("worker", "branch")
  <2>1. pc'["worker"] = "branch"
    BY <1>4, GoesThere DEF RepoPlaces
  <2>2. StagesOK'
    BY <2>1 DEF StagesOK
  <2> QED BY <1>3, <1>4, <2>2, InRefresh
<1>5. CASE Goes("worker", "idle")
  BY <1>1, <1>3, <1>5, RepoEndsKeeps
<1> QED BY <1>1, <1>4, <1>5

LEMMA CommandFailsKeeps ==
  ASSUME RepositoryOK, NEW place, CommandFails(place) \/ GitPullFails
  PROVE  RepositoryOK'
<1>1. Goes("worker", "idle")
      /\ UNCHANGED <<repoKnown, isValid, touched, halfDone, repoMisjudged, lostWork,
                     master, detachedAt, edited>>
  BY DEF CommandFails, GitPullFails, RefreshRaised, KeepsTree, treeVars, ghostRepoVars
<1>2. KnownOK' /\ (Pristine => Pristine')
  BY <1>1 DEF RepositoryOK, KnownOK, Pristine, HeadCommit
<1> QED BY <1>1, <1>2, RepoEndsKeeps

LEMMA BranchFoundKeeps ==
  ASSUME RepositoryOK, BranchFound
  PROVE  RepositoryOK'
<1>1. /\ pc["worker"] = "branch" /\ repoKnown' = Branched(repoKnown)
      /\ UNCHANGED <<isValid, touched, halfDone, repoMisjudged, lostWork, master, detachedAt, edited>>
      /\ Goes("worker", "fetch") \/ Goes("worker", "idle")
  BY DEF BranchFound, RepoAt, GitStep, RefreshRaised, KeepsTree, treeVars, ghostRepoVars
<1>2. /\ DOMAIN repoKnown' = DOMAIN repoKnown /\ repoKnown'.dirty = repoKnown.dirty
      /\ repoKnown'.diverged = repoKnown.diverged /\ repoKnown'.current = repoKnown.current
      /\ repoKnown'.detached = (detachedAt # None)
  BY <1>1 DEF Branched, RepositoryOK, KnownOK
<1>3. KnownOK' /\ ~isValid' /\ ~isValid /\ ~lostWork'
  BY <1>1, <1>2 DEF RepositoryOK, KnownOK
<1>4. CASE Goes("worker", "fetch")
  <2>1. pc'["worker"] = "fetch"
    BY <1>4, GoesThere DEF RepoPlaces
  <2>2. StagesOK'
    BY <1>1, <1>2, <2>1 DEF StagesOK
  <2> QED BY <1>3, <1>4, <2>2, InRefresh
<1>5. CASE Goes("worker", "idle")
  BY <1>1, <1>3, <1>5, RepoEndsKeeps
<1> QED BY <1>1, <1>4, <1>5

LEMMA RemoteFetchedKeeps ==
  ASSUME RepositoryOK, RemoteFetched
  PROVE  RepositoryOK'
<1>1. /\ pc["worker"] = "fetch" /\ Goes("worker", "diverged")
      /\ UNCHANGED <<repoKnown, isValid, touched, halfDone, repoMisjudged, lostWork, detachedAt, edited>>
  BY DEF RemoteFetched, RepoAt, GitStep, KeepsTree, treeVars, ghostRepoVars
<1>2. KnownOK' /\ ~isValid' /\ ~lostWork'
  BY <1>1 DEF RepositoryOK, KnownOK
<1>3. pc'["worker"] = "diverged"
  BY <1>1, GoesThere DEF RepoPlaces
<1>4. StagesOK'
  BY <1>1, <1>3 DEF RepositoryOK, StagesOK
<1> QED BY <1>1, <1>2, <1>4, InRefresh

LEMMA DivergenceFoundKeeps ==
  ASSUME RepositoryOK, DivergenceFound
  PROVE  RepositoryOK'
<1>1. PICK d \in BOOLEAN : Diverges(d) /\ repoKnown' = [repoKnown EXCEPT !.diverged = d]
  BY DEF DivergenceFound
<1>2. /\ pc["worker"] = "diverged" /\ Goes("worker", "head")
      /\ UNCHANGED <<isValid, touched, halfDone, lostWork, master, detachedAt, edited, tracking>>
  BY DEF DivergenceFound, RepoAt, KeepsTree, treeVars
<1>3. /\ DOMAIN repoKnown' = DOMAIN repoKnown /\ repoKnown'.dirty = repoKnown.dirty
      /\ repoKnown'.diverged = d /\ repoKnown'.detached = repoKnown.detached
  BY <1>1 DEF RepositoryOK, KnownOK
<1>4. /\ repoMisjudged' = repoMisjudged \/ repoMisjudged' = TRUE
      /\ ~repoMisjudged' /\ ~repoKnown.detached /\ ~d => Precedes(HeadCommit, Commit(tracking))
  <2>1. CASE repoKnown.detached
    BY <1>1, <2>1 DEF Diverges
  <2>2. CASE ~repoKnown.detached
    <3>1. \/ (~d) = Precedes(HeadCommit, Commit(tracking)) /\ repoMisjudged' = repoMisjudged
          \/ repoMisjudged' = TRUE
      BY <1>1, <2>2 DEF Diverges, IsAncestor
    <3> QED BY <2>2, <3>1
  <2> QED BY <2>1, <2>2
<1>5. KnownOK' /\ ~isValid' /\ ~lostWork'
  BY <1>2, <1>3, <1>4 DEF RepositoryOK, KnownOK
<1>6. pc'["worker"] = "head" /\ HeadCommit' = HeadCommit
  BY <1>2, GoesThere DEF RepoPlaces, HeadCommit
<1>7. StagesOK'
  <2>1. ~touched' => (repoKnown'.detached <=> detachedAt' # None)
    BY <1>2, <1>3 DEF RepositoryOK, StagesOK
  <2>2. AsFound' /\ ~repoKnown'.detached /\ ~repoKnown'.diverged => Precedes(HeadCommit', Commit(tracking'))
    BY <1>2, <1>3, <1>4, <1>6 DEF AsFound
  <2> QED BY <1>6, <2>1, <2>2 DEF StagesOK, Precedes, Commit
<1> QED BY <1>2, <1>5, <1>7, InRefresh

LEMMA HeadFoundKeeps ==
  ASSUME RepositoryOK, HeadFound
  PROVE  RepositoryOK'
<1>1. /\ pc["worker"] = "head" /\ Goes("worker", "log")
      /\ UNCHANGED <<isValid, touched, halfDone, repoMisjudged, lostWork, master, detachedAt, edited, tracking>>
      /\ repoKnown' = [repoKnown EXCEPT !.current = HeadCommit, !.upstream = UpstreamOf(HeadCommit),
                                        !.dirty = edited]
  BY DEF HeadFound, RepoAt, GitStep, KeepsTree, treeVars, ghostRepoVars
<1> DEFINE upstream == UpstreamOf(HeadCommit)
<1> HIDE DEF upstream
<1>2. /\ DOMAIN repoKnown' = DOMAIN repoKnown /\ repoKnown'.dirty = edited
      /\ repoKnown'.diverged = repoKnown.diverged /\ repoKnown'.detached = repoKnown.detached
      /\ repoKnown'.current = HeadCommit
  BY <1>1 DEF RepositoryOK, KnownOK
<1>3. KnownOK' /\ ~isValid' /\ ~lostWork'
  BY <1>1, <1>2 DEF RepositoryOK, KnownOK
<1>4. pc'["worker"] = "log" /\ HeadCommit' = HeadCommit
  BY <1>1, GoesThere DEF RepoPlaces, HeadCommit
<1>5. AsFound' <=> AsFound
  BY <1>1 DEF AsFound
<1>6. StagesOK'
  <2>1. ~touched' => (repoKnown'.detached <=> detachedAt' # None)
    BY <1>1, <1>2 DEF RepositoryOK, StagesOK
  <2>2. AsFound' /\ ~repoKnown'.detached /\ ~repoKnown'.diverged => Precedes(HeadCommit', Commit(tracking'))
    BY <1>1, <1>2, <1>4, <1>5 DEF RepositoryOK, StagesOK
  <2> QED BY <1>1, <1>2, <1>4, <2>1, <2>2 DEF StagesOK
<1> QED BY <1>1, <1>3, <1>6, InRefresh

LEMMA RefreshEndsKeeps ==
  ASSUME RepositoryOK, RefreshEnds
  PROVE  RepositoryOK'
<1>1. /\ pc["worker"] = "log" /\ Goes("worker", "idle")
      /\ repoKnown' = [repoKnown EXCEPT !.corrupt = FALSE] /\ isValid' = Valid(repoKnown')
      /\ halfDone' = FALSE
      /\ UNCHANGED <<touched, repoMisjudged, lostWork, master, detachedAt, edited, tracking>>
  BY DEF RefreshEnds, RepoAt, GitStep, KeepsTree, treeVars
<1>2. /\ DOMAIN repoKnown' = DOMAIN repoKnown /\ repoKnown'.dirty = repoKnown.dirty
      /\ repoKnown'.diverged = repoKnown.diverged /\ repoKnown'.detached = repoKnown.detached
      /\ repoKnown'.current = repoKnown.current
  BY <1>1 DEF RepositoryOK, KnownOK
<1>3. isValid' \in BOOLEAN /\ (isValid' => ~repoKnown.diverged /\ ~repoKnown.dirty /\ ~repoKnown.detached)
  BY <1>1, <1>2 DEF Valid
<1>4. KnownOK' /\ ~lostWork'
  BY <1>1, <1>2, <1>3 DEF RepositoryOK, KnownOK
<1>5. ASSUME isValid', AsFound' PROVE Pristine'
  <2>1. AsFound /\ ~touched
    BY <1>1, <1>5 DEF AsFound
  <2>2. detachedAt = None /\ Precedes(HeadCommit, Commit(tracking)) /\ repoKnown.current = HeadCommit
        /\ ~edited
    BY <1>1, <1>3, <1>5, <2>1 DEF RepositoryOK, StagesOK, KnownOK
  <2>3. ~HeadCommit.own
    BY <2>2 DEF Precedes, Commit
  <2> QED BY <1>1, <1>2, <2>2, <2>3 DEF Pristine, HeadCommit
<1> QED BY <1>1, <1>4, <1>5, OutOfRefresh

LEMMA PullFetchesKeeps ==
  ASSUME RepositoryOK, PullFetches
  PROVE  RepositoryOK'
<1>1. /\ pc["worker"] = "pull_fetch"
      /\ UNCHANGED <<master, detachedAt, edited, touched, halfDone, repoMisjudged, lostWork>>
      /\ \/ Goes("worker", "pull") /\ UNCHANGED <<repoKnown, isValid>>
         \/ /\ Goes("worker", "idle")
            /\ repoKnown' = [repoKnown EXCEPT !.corrupt = @ \/ damaged]
            /\ isValid' = (isValid /\ ~repoKnown'.corrupt)
  BY DEF PullFetches, RepoAt, GitStep, RefreshRaised, ghostRepoVars
<1>2. HeadCommit' = HeadCommit /\ isValid /\ (isValid /\ AsFound /\ ~halfDone => Pristine) /\ ~lostWork
  BY <1>1 DEF HeadCommit, RepositoryOK
<1>3. CASE Goes("worker", "pull") /\ UNCHANGED <<repoKnown, isValid>>
  <2>1. pc'["worker"] = "pull" /\ DOMAIN pc' = Task
    BY <1>3, GoesThere DEF RepoPlaces
  <2>2. StagesOK' /\ KnownOK'
    BY <1>1, <1>3, <2>1 DEF StagesOK, RepositoryOK, KnownOK
  <2>3. isValid' /\ AsFound' /\ ~halfDone' => Pristine'
    BY <1>1, <1>2, <1>3 DEF AsFound, Pristine
  <2> QED BY <1>1, <1>2, <1>3, <2>1, <2>2, <2>3 DEF RepositoryOK, RepoPlaces
<1>4. CASE /\ Goes("worker", "idle")
           /\ repoKnown' = [repoKnown EXCEPT !.corrupt = @ \/ damaged]
           /\ isValid' = (isValid /\ ~repoKnown'.corrupt)
  <2>1. /\ DOMAIN repoKnown' = DOMAIN repoKnown /\ repoKnown'.dirty = repoKnown.dirty
        /\ repoKnown'.diverged = repoKnown.diverged /\ repoKnown'.detached = repoKnown.detached
        /\ repoKnown'.current = repoKnown.current
    BY <1>4 DEF RepositoryOK, KnownOK
  <2>2. isValid' \in BOOLEAN
    BY <1>4
  <2>3. KnownOK'
    BY <1>1, <2>1, <2>2 DEF RepositoryOK, KnownOK
  <2>4. isValid' /\ AsFound' /\ ~halfDone' => Pristine'
    BY <1>1, <1>2, <2>1 DEF AsFound, Pristine
  <2>5. ~lostWork'
    BY <1>1, <1>2
  <2> QED BY <1>4, <2>3, <2>4, <2>5, OutOfRefresh
<1> QED BY <1>1, <1>3, <1>4

LEMMA GitPulledKeeps ==
  ASSUME RepositoryOK, GitPulled
  PROVE  RepositoryOK'
<1>1. PICK d \in BOOLEAN :
        /\ Diverges(d)
        /\ \/ /\ d /\ HeadMoves(GitTarget) /\ edited' = FALSE
              /\ lostWork' = (lostWork \/ ((HeadCommit.own \/ edited)
                                           /\ ~touched /\ ~repoMisjudged /\ ~halfDone))
              /\ Goes("worker", "depend") /\ halfDone' = TRUE
           \/ /\ UNCHANGED <<edited, lostWork>> /\ Goes("worker", "depend") /\ halfDone' = TRUE
           \/ Goes("worker", "idle") /\ UNCHANGED <<master, detachedAt, edited, halfDone, lostWork>>
  BY DEF GitPulled, RefreshRaised
<1>2. /\ pc["worker"] = "pull" /\ UNCHANGED <<repoKnown, isValid, touched>>
  BY DEF GitPulled, RepoAt
<1>3. repoMisjudged' = repoMisjudged \/ repoMisjudged' = TRUE
  <2>1. CASE repoKnown.detached
    BY <1>1, <2>1 DEF Diverges
  <2>2. CASE ~repoKnown.detached
    BY <1>1, <2>2 DEF Diverges, IsAncestor
  <2> QED BY <2>1, <2>2
<1>4. AsFound /\ ~halfDone => ~HeadCommit.own /\ ~edited
  BY <1>2 DEF RepositoryOK, Pristine
<1>5. ~lostWork'
  <2>1. ~lostWork
    BY DEF RepositoryOK
  <2>2. ~((HeadCommit.own \/ edited) /\ ~touched /\ ~repoMisjudged /\ ~halfDone)
    BY <1>4, Zenon DEF AsFound
  <2>3. lostWork' = lostWork \/ lostWork' = FALSE
    BY <1>1, <2>1, <2>2
  <2> QED BY <2>1, <2>3
<1>6. KnownOK'
  BY <1>1, <1>2, <1>3, <1>5 DEF RepositoryOK, KnownOK
<1>7. isValid' /\ AsFound' /\ ~halfDone' => Pristine'
  BY <1>1, <1>2, <1>3 DEF RepositoryOK, AsFound, Pristine, HeadCommit
<1>8. Goes("worker", "depend") \/ Goes("worker", "idle")
  BY <1>1
<1> QED BY <1>5, <1>6, <1>7, <1>8, OutOfRefresh

LEMMA DependedKeeps ==
  ASSUME RepositoryOK, Depended
  PROVE  RepositoryOK'
<1>1. /\ UNCHANGED <<repoKnown, halfDone, lostWork, master, detachedAt, edited>>
      /\ \/ RefreshBegins("status")
         \/ Goes("worker", "idle") /\ UNCHANGED <<isValid, touched, repoMisjudged>>
  BY DEF Depended, RefreshRaised, KeepsTree, treeVars
<1>2. CASE RefreshBegins("status")
  <2>1. KnownOK' /\ ~lostWork'
    BY <1>1, <1>2 DEF RepositoryOK, KnownOK, RefreshBegins
  <2> QED BY <1>2, <2>1, RefreshBeginsKeeps
<1>3. CASE Goes("worker", "idle") /\ UNCHANGED <<isValid, touched, repoMisjudged>>
  <2>1. KnownOK' /\ (Pristine => Pristine')
    BY <1>1, <1>3 DEF RepositoryOK, KnownOK, Pristine, HeadCommit
  <2> QED BY <1>1, <1>3, <2>1, RepoEndsKeeps
<1> QED BY <1>1, <1>2, <1>3

LEMMA GitRecoversKeeps ==
  ASSUME RepositoryOK, GitRecovers
  PROVE  RepositoryOK'
<1> DEFINE ref == RecoveryRef(Commit(tracking), FALSE)
<1>1. ResetWorks(ref) \/ ResetFails(ref)
  BY Zenon DEF GitRecovers
<1> HIDE DEF ref
<1>2. lostWork' = lostWork
  BY DEF GitRecovers
<1>3. CASE ResetWorks(ref)
  <2>1. /\ RefreshBegins("status") /\ edited' = FALSE /\ halfDone' = TRUE
        /\ repoKnown' = [repoKnown EXCEPT !.corrupt = FALSE]
    BY <1>3 DEF ResetWorks
  <2>2. /\ DOMAIN repoKnown' = DOMAIN repoKnown /\ repoKnown'.dirty = repoKnown.dirty
        /\ repoKnown'.diverged = repoKnown.diverged /\ repoKnown'.detached = repoKnown.detached
    BY <2>1 DEF RepositoryOK, KnownOK
  <2>3. KnownOK' /\ ~lostWork'
    BY <1>2, <2>1, <2>2 DEF RepositoryOK, KnownOK, RefreshBegins
  <2> QED BY <2>1, <2>3, RefreshBeginsKeeps
<1>4. CASE ResetFails(ref)
  <2>1. /\ Goes("worker", "idle") /\ UNCHANGED <<master, repoKnown, isValid, touched, repoMisjudged>>
        /\ edited' \in {edited, FALSE}
        /\ halfDone' = (halfDone \/ detachedAt' # detachedAt)
    BY <1>4 DEF ResetFails, RefreshRaised
  <2>2. halfDone' \in BOOLEAN /\ (~halfDone' => ~halfDone /\ detachedAt' = detachedAt)
    <3>1. halfDone \in BOOLEAN
      BY DEF RepositoryOK, KnownOK
    <3> QED BY <2>1, <3>1, Zenon
  <2>3. KnownOK' /\ ~lostWork'
    BY <1>2, <2>1, <2>2 DEF RepositoryOK, KnownOK
  <2>4. isValid' /\ AsFound' /\ ~halfDone' => Pristine'
    BY <2>1, <2>2 DEF RepositoryOK, AsFound, Pristine, HeadCommit
  <2> QED BY <2>1, <2>3, <2>4, OutOfRefresh
<1> QED BY <1>1, <1>3, <1>4

LEMMA ClonesKeeps ==
  ASSUME RepositoryOK, Clones
  PROVE  RepositoryOK'
<1>1. /\ lostWork' = lostWork
      /\ \/ /\ edited' = FALSE /\ halfDone' = TRUE
            /\ repoKnown' = [repoKnown EXCEPT !.corrupt = FALSE, !.repo = TRUE]
            /\ \/ Goes("worker", "idle") /\ UNCHANGED <<isValid, touched, repoMisjudged>>
               \/ RefreshBegins("status")
         \/ /\ Goes("worker", "idle")
            /\ UNCHANGED <<master, detachedAt, edited, repoKnown, isValid, touched, repoMisjudged, halfDone>>
  BY Zenon DEF Clones, RefreshRaised, KeepsTree, treeVars
<1>2. /\ DOMAIN repoKnown' = DOMAIN repoKnown /\ repoKnown'.dirty = repoKnown.dirty
      /\ repoKnown'.diverged = repoKnown.diverged /\ repoKnown'.detached = repoKnown.detached
  BY <1>1 DEF RepositoryOK, KnownOK
<1>3. KnownOK' /\ ~lostWork'
  BY <1>1, <1>2 DEF RepositoryOK, KnownOK, RefreshBegins
<1>4. CASE RefreshBegins("status")
  BY <1>3, <1>4, RefreshBeginsKeeps
<1>5. CASE Goes("worker", "idle") /\ halfDone' = TRUE
  <2>1. isValid' /\ AsFound' /\ ~halfDone' => Pristine'
    BY <1>5
  <2> QED BY <1>3, <1>5, <2>1, OutOfRefresh
<1>6. CASE /\ Goes("worker", "idle")
           /\ UNCHANGED <<master, detachedAt, edited, repoKnown, isValid, touched, repoMisjudged, halfDone>>
  <2>1. Pristine => Pristine'
    BY <1>6 DEF Pristine, HeadCommit
  <2> QED BY <1>1, <1>3, <1>6, <2>1, RepoEndsKeeps
<1> QED BY <1>1, <1>4, <1>5, <1>6, Zenon

LEMMA RollsBackKeeps ==
  ASSUME RepositoryOK, RollsBack
  PROVE  RepositoryOK'
<1>1. /\ UNCHANGED <<repoKnown, isValid, touched, repoMisjudged, lostWork>>
      /\ \/ edited' = FALSE /\ halfDone' = TRUE /\ Goes("worker", "depend")
         \/ edited' = edited /\ halfDone' = TRUE /\ Goes("worker", "idle")
         \/ Goes("worker", "idle") /\ UNCHANGED <<master, detachedAt, edited, halfDone>>
  BY DEF RollsBack, GitStep, RefreshRaised
<1>2. KnownOK' /\ ~lostWork'
  BY <1>1 DEF RepositoryOK, KnownOK
<1>3. isValid' /\ AsFound' /\ ~halfDone' => Pristine'
  BY <1>1 DEF RepositoryOK, AsFound, Pristine, HeadCommit
<1> QED BY <1>1, <1>2, <1>3, OutOfRefresh

LEMMA WorkedKeeps ==
  ASSUME RepositoryOK, Worked
  PROVE  RepositoryOK'
<1>1. /\ touched' = TRUE /\ edited' \in {edited, TRUE}
      /\ UNCHANGED <<pc, repoKnown, isValid, halfDone, repoMisjudged, lostWork>>
  BY DEF Worked
<1>2. KnownOK' /\ ~AsFound'
  BY <1>1 DEF RepositoryOK, KnownOK, AsFound
<1>3. StagesOK'
  BY <1>1, <1>2 DEF StagesOK
<1> QED BY <1>1, <1>2, <1>3 DEF RepositoryOK

LEMMA RepositoryKeeps ==
  ASSUME RepositoryOK, RepositoryNext
  PROVE  RepositoryOK'
BY RepoAskedKeeps, StatusReadKeeps, BranchFoundKeeps, RemoteFetchedKeeps, DivergenceFoundKeeps,
   HeadFoundKeeps, RefreshEndsKeeps, PullFetchesKeeps, GitPulledKeeps, CommandFailsKeeps,
   DependedKeeps, GitRecoversKeeps, ClonesKeeps, RollsBackKeeps, WorkedKeeps DEF RepositoryNext

LEMMA RepositoryStutter ==
  ASSUME RepositoryOK, UNCHANGED <<pc, gitVars>>
  PROVE  RepositoryOK'
BY DEF RepositoryOK, KnownOK, StagesOK, AsFound, Pristine, HeadCommit, Precedes, Commit, gitVars,
       treeVars, ghostRepoVars

(***************************************************************************)
(* Webcams: a camera is as its row will be when the thread has done its     *)
(* work.                                                                    *)
(***************************************************************************)
CamWrite == [uid : CamUid, by : Request \cup {None}, row : Rows \cup {None}]

WebcamTypes ==
  /\ DOMAIN pc = Task /\ DOMAIN camWaits = Request
  /\ {camConfig, camUp, camTorn} \subseteq BOOLEAN /\ camHidden \subseteq CamUid
  /\ cams \in [CamName -> Cams \cup {None}]
  /\ camRows \in [CamUid -> Rows \cup {None}]
  /\ camWrites \in Seq(CamWrite)

(* The row of u is, or is going to be, this one. *)
RowWillBe(u, row) ==
  IF \E i \in 1..Len(camWrites) : camWrites[i].uid = u
  THEN \E i \in 1..Len(camWrites) :
         /\ camWrites[i].uid = u /\ camWrites[i].row = row
         /\ \A j \in i + 1..Len(camWrites) : camWrites[j].uid # u
  ELSE camRows[u] = row

CamOK(n) ==
  cams[n] # None =>
    /\ cams[n].name = n
    /\ cams[n].source = "database" => cams[n].uid \in CamUid
    /\ \A m \in CamName : cams[m] # None /\ cams[m].uid = cams[n].uid => m = n

CamStored(u) ==
  /\ \A n \in CamName : cams[n] # None /\ cams[n].uid = u =>
       RowWillBe(u, [name |-> n, data |-> cams[n].data])
  /\ (\A n \in CamName : cams[n] # None => cams[n].uid # u) => RowWillBe(u, None)

WebcamsOK ==
  /\ WebcamTypes
  /\ \A n \in CamName : CamOK(n)
  /\ camUp /\ ~camTorn => \A u \in CamUid \ camHidden : CamStored(u)
  /\ \A t \in Request : pc[t] = "saving" <=> camWaits[t] # 0

LEMMA CamFields ==
  \A n \in CamName, u \in CamUid, d \in CamData, s \in {"database", "config"} :
       /\ Camera(n, u, d, s) \in Cams /\ Camera(n, u, d, s).uid = u /\ Camera(n, u, d, s).name = n
       /\ Camera(n, u, d, s).data = d /\ Camera(n, u, d, s).source = s
       /\ Camera(n, u, d, s) # None
BY WebcamConstants DEF Cams, Camera

LEMMA CamTypes ==
  /\ Configured \in Cams /\ Configured.uid = 0 /\ Configured.name = "front" /\ Configured # None
  /\ Configured.source = "config"
  /\ \A n \in CamName, d \in CamData : [name |-> n, data |-> d] \in Rows /\ [name |-> n, data |-> d] # None
  /\ 0 \notin CamUid /\ CamUid \subseteq Nat
BY WebcamConstants DEF Configured, Cams, Camera, CamName, CamUid, CamData, Rows

LEMMA WebcamsBegin ==
  ASSUME HostInit, WebcamsInit, component = "webcams"
  PROVE  WebcamsOK
<1>1. /\ DOMAIN pc = Task /\ (\A t \in Task : pc[t] = "idle") /\ Request \subseteq Task
      /\ camConfig \in BOOLEAN /\ cams = [n \in CamName |-> None] /\ camRows = [u \in CamUid |-> None]
      /\ camWrites = <<>> /\ camWaits = [t \in Request |-> 0] /\ camUp = FALSE
      /\ camHidden = {} /\ camTorn = FALSE
  BY DEF HostInit, WebcamsInit, Among, Task
<1>2. WebcamTypes
  <2>1. camUp \in BOOLEAN /\ camTorn \in BOOLEAN /\ DOMAIN camWaits = Request /\ camHidden \subseteq CamUid
    BY <1>1
  <2>2. cams \in [CamName -> Cams \cup {None}] /\ camRows \in [CamUid -> Rows \cup {None}]
    BY <1>1
  <2>3. camWrites \in Seq(CamWrite)
    BY <1>1
  <2> QED BY <1>1, <2>1, <2>2, <2>3 DEF WebcamTypes
<1> QED BY <1>1, <1>2 DEF WebcamsOK, CamOK

LEMMA WebcamsServe ==
  ASSUME WebcamsOK
  PROVE  WebcamsAreStored /\ WebcamsTypeOK
<1>1. \A u : camWrites = <<>> => \A row : RowWillBe(u, row) <=> camRows[u] = row
  BY DEF RowWillBe
<1>2. /\ \A m, n \in Known : cams[m].name = m /\ (cams[m].uid = cams[n].uid => m = n)
  BY DEF WebcamsOK, CamOK, Known
<1>3. ASSUME camUp, camWrites = <<>>, ~camTorn, NEW u \in CamUid \ camHidden
      PROVE  IF camRows[u] = None THEN u \notin Uids
             ELSE \E n \in Known : /\ cams[n].uid = u /\ camRows[u].name = n
                                   /\ camRows[u].data = cams[n].data
  <2>1. CamStored(u) /\ WebcamTypes
    BY <1>3 DEF WebcamsOK
  <2>2. CASE \A n \in CamName : cams[n] # None => cams[n].uid # u
    BY <1>1, <1>3, <2>1, <2>2 DEF CamStored, Uids, Known
  <2>3. CASE \E n \in CamName : cams[n] # None /\ cams[n].uid = u
    <3>1. PICK n \in CamName : cams[n] # None /\ cams[n].uid = u
      BY <2>3
    <3>2. camRows[u] = [name |-> n, data |-> cams[n].data]
      BY <1>1, <1>3, <2>1, <3>1 DEF CamStored
    <3>3. cams[n].data \in CamData
      BY <2>1, <3>1 DEF WebcamTypes, Cams
    <3>4. camRows[u] # None /\ camRows[u].name = n /\ camRows[u].data = cams[n].data
      BY <3>2, <3>3, CamTypes
    <3> QED BY <3>1, <3>4 DEF Known
  <2> QED BY <2>2, <2>3
<1>4. WebcamsAreStored
  BY <1>2, <1>3 DEF WebcamsAreStored
<1>5. WebcamsTypeOK
  BY DEF WebcamsTypeOK, WebcamsOK, WebcamTypes
<1> QED BY <1>4, <1>5

(* A write goes to the end of the queue. *)
LEMMA WriteQueued ==
  ASSUME WebcamTypes, NEW w \in CamWrite, camWrites' = Append(camWrites, w), camRows' = camRows
  PROVE  /\ camWrites' \in Seq(CamWrite)
         /\ RowWillBe(w.uid, w.row)'
         /\ \A u, row : u # w.uid /\ RowWillBe(u, row) => RowWillBe(u, row)'
<1>1. /\ camWrites \in Seq(CamWrite) /\ Len(camWrites) \in Nat
      /\ camWrites' \in Seq(CamWrite) /\ Len(camWrites') = Len(camWrites) + 1
      /\ \A i \in 1..Len(camWrites) : camWrites'[i] = camWrites[i]
      /\ camWrites'[Len(camWrites) + 1] = w
  BY DEF WebcamTypes
<1>2. RowWillBe(w.uid, w.row)'
  <2> DEFINE n == Len(camWrites')
  <2>1. n \in 1..Len(camWrites') /\ camWrites'[n] = w /\ n + 1..Len(camWrites') = {}
    BY <1>1
  <2> QED BY <2>1 DEF RowWillBe
<1>3. ASSUME NEW u, NEW row, u # w.uid, RowWillBe(u, row) PROVE RowWillBe(u, row)'
  <2>1. CASE \E i \in 1..Len(camWrites) : camWrites[i].uid = u
    <3>1. PICK i \in 1..Len(camWrites) :
            /\ camWrites[i].uid = u /\ camWrites[i].row = row
            /\ \A j \in i + 1..Len(camWrites) : camWrites[j].uid # u
      BY <1>3, <2>1 DEF RowWillBe
    <3>2. i \in 1..Len(camWrites') /\ \A j \in i + 1..Len(camWrites') : camWrites'[j].uid # u
      BY <1>1, <1>3, <3>1
    <3> QED BY <1>1, <3>1, <3>2 DEF RowWillBe
  <2>2. CASE ~\E i \in 1..Len(camWrites) : camWrites[i].uid = u
    <3>1. ~\E i \in 1..Len(camWrites') : camWrites'[i].uid = u
      BY <1>1, <1>3, <2>2
    <3> QED BY <1>3, <2>2, <3>1 DEF RowWillBe
  <2> QED BY <2>1, <2>2
<1> QED BY <1>1, <1>2, <1>3

(* The first write is done. *)
LEMMA WriteDone ==
  ASSUME WebcamTypes, camWrites # <<>>, camWrites' = Tail(camWrites),
         camRows' = [camRows EXCEPT ![Head(camWrites).uid] = Head(camWrites).row],
         NEW u \in CamUid, NEW row, RowWillBe(u, row)
  PROVE  RowWillBe(u, row)'
<1> DEFINE w == Head(camWrites)
<1>1. /\ Len(camWrites) \in Nat \ {0} /\ w = camWrites[1] /\ w \in CamWrite
      /\ Len(camWrites') = Len(camWrites) - 1
      /\ \A i \in 1..Len(camWrites') : camWrites'[i] = camWrites[i + 1] /\ i + 1 \in 1..Len(camWrites)
  BY DEF WebcamTypes
<1>2. camRows'[u] = IF u = w.uid THEN w.row ELSE camRows[u]
  BY DEF WebcamTypes
<1> HIDE DEF w
<1>3. CASE \E i \in 1..Len(camWrites) : camWrites[i].uid = u
  <2>1. PICK i \in 1..Len(camWrites) :
          /\ camWrites[i].uid = u /\ camWrites[i].row = row
          /\ \A j \in i + 1..Len(camWrites) : camWrites[j].uid # u
    BY <1>3 DEF RowWillBe
  <2>2. CASE i = 1
    <3>1. ~\E j \in 1..Len(camWrites') : camWrites'[j].uid = u
      BY <1>1, <2>1, <2>2
    <3>2. camRows'[u] = row
      BY <1>1, <1>2, <2>1, <2>2
    <3> QED BY <3>1, <3>2 DEF RowWillBe
  <2>3. CASE i # 1
    <3>1. /\ i - 1 \in 1..Len(camWrites') /\ camWrites'[i - 1] = camWrites[i]
          /\ \A j \in i - 1 + 1..Len(camWrites') : camWrites'[j].uid # u
      BY <1>1, <2>1, <2>3
    <3> QED BY <2>1, <3>1 DEF RowWillBe
  <2> QED BY <2>2, <2>3
<1>4. CASE ~\E i \in 1..Len(camWrites) : camWrites[i].uid = u
  <2>1. ~\E i \in 1..Len(camWrites') : camWrites'[i].uid = u
    BY <1>1, <1>4
  <2>2. camRows'[u] = row
    BY <1>1, <1>2, <1>4 DEF RowWillBe
  <2> QED BY <2>1, <2>2 DEF RowWillBe
<1> QED BY <1>3, <1>4

LEMMA WebcamsStartKeeps ==
  ASSUME WebcamsOK, WebcamsStart
  PROVE  WebcamsOK'
<1> DEFINE admitted == RowsTaken
           Of(n) == CHOOSE u \in admitted : camRows[u].name = n
<1>1. /\ camUp' /\ ~camTorn' /\ camWrites = <<>> /\ camTorn' \in BOOLEAN /\ camUp' \in BOOLEAN
      /\ camHidden' = {u \in CamUid \ admitted : camRows[u] # None}
      /\ UNCHANGED <<pc, camConfig, camRows, camWrites, camWaits>>
  BY Zenon DEF WebcamsStart
<1>2. cams' = [n \in CamName |->
            IF camConfig /\ n = Configured.name THEN Configured
            ELSE IF \E u \in admitted : camRows[u].name = n
                 THEN Camera(n, Of(n), camRows[Of(n)].data, "database")
                 ELSE None]
  BY Zenon DEF WebcamsStart
<1>3. \A u \in admitted : /\ u \in CamUid /\ camRows[u] \in Rows /\ camRows[u] # None
                       /\ camRows[u].name \in CamName /\ camRows[u].data \in CamData
                       /\ ~(camConfig /\ camRows[u].name = Configured.name)
                       /\ \A v \in admitted : v < u => camRows[v].name # camRows[u].name
  BY DEF RowsTaken, WebcamsOK, WebcamTypes, Rows
<1>4. ASSUME NEW u \in admitted, NEW v \in admitted, camRows[u].name = camRows[v].name PROVE u = v
  <2>1. u \in Nat /\ v \in Nat
    BY <1>3, CamTypes
  <2>2. ~(u < v) /\ ~(v < u)
    BY <1>3, <1>4
  <2> QED BY <2>1, <2>2
<1> HIDE DEF admitted
<1>5. \A n \in CamName : (\E u \in admitted : camRows[u].name = n) => Of(n) \in admitted /\ camRows[Of(n)].name = n
  OBVIOUS
<1> HIDE DEF Of
<1>6. ASSUME NEW n \in CamName
      PROVE  \/ cams'[n] = Configured /\ n = Configured.name
             \/ /\ Of(n) \in admitted /\ camRows[Of(n)].name = n
                /\ cams'[n] = Camera(n, Of(n), camRows[Of(n)].data, "database")
             \/ cams'[n] = None /\ ~\E u \in admitted : camRows[u].name = n
  BY <1>2, <1>5
<1>0. ASSUME NEW n \in CamName, cams'[n] # None
      PROVE  /\ cams'[n].name = n
             /\ \/ cams'[n].uid = 0 /\ n = Configured.name /\ cams'[n].source = "config"
                \/ cams'[n].uid \in admitted /\ camRows[cams'[n].uid].name = n
  <2>1. CASE cams'[n] = Configured /\ n = Configured.name
    BY <2>1, CamTypes
  <2>2. CASE /\ Of(n) \in admitted /\ camRows[Of(n)].name = n
             /\ cams'[n] = Camera(n, Of(n), camRows[Of(n)].data, "database")
    <3>1. Of(n) \in CamUid /\ camRows[Of(n)].data \in CamData
      BY <1>3, <2>2
    <3>2. cams'[n].uid = Of(n) /\ cams'[n].name = n
      BY <2>2, <3>1, CamFields
    <3> QED BY <2>2, <3>2
  <2> QED BY <1>0, <1>6, <2>1, <2>2
<1>7. \A u \in admitted : cams'[camRows[u].name] = Camera(camRows[u].name, u, camRows[u].data, "database")
  BY <1>2, <1>3, <1>4, <1>5
<1>8. ASSUME NEW n \in CamName PROVE cams'[n] \in Cams \cup {None}
  <2>1. CASE /\ Of(n) \in admitted
             /\ cams'[n] = Camera(n, Of(n), camRows[Of(n)].data, "database")
    <3>1. Of(n) \in CamUid /\ camRows[Of(n)].data \in CamData
      BY <1>3, <2>1
    <3> QED BY <2>1, <3>1, CamFields
  <2> QED BY <1>6, <2>1, CamTypes
<1>9. WebcamTypes'
  <2>1. cams' \in [CamName -> Cams \cup {None}]
    BY <1>2, <1>8
  <2> QED BY <1>1, <2>1 DEF WebcamsOK, WebcamTypes
<1>10. ASSUME NEW n \in CamName PROVE CamOK(n)'
  <2>1. ASSUME cams'[n] # None, NEW m \in CamName, cams'[m] # None, cams'[m].uid = cams'[n].uid
        PROVE  m = n
    BY <1>0, <1>3, <2>1, CamTypes
  <2> QED BY <1>0, <1>3, <2>1 DEF CamOK
<1>11. ASSUME NEW u \in CamUid \ camHidden' PROVE CamStored(u)'
  <2>0. \A row : RowWillBe(u, row)' <=> camRows[u] = row
    BY <1>1 DEF RowWillBe
  <2>1. CASE u \in admitted
    <3>1. cams'[camRows[u].name] # None /\ cams'[camRows[u].name].uid = u
      BY <1>3, <1>7, <2>1, CamFields
    <3>2. \A n \in CamName : cams'[n] # None /\ cams'[n].uid = u => n = camRows[u].name
      BY <1>10, <3>1, <1>3, <2>1 DEF CamOK
    <3>3. cams'[camRows[u].name].data = camRows[u].data
      BY <1>3, <1>7, <2>1, CamFields
    <3>4. camRows[u] = [name |-> camRows[u].name, data |-> camRows[u].data]
      BY <1>3, <2>1 DEF Rows
    <3> QED BY <1>3, <2>0, <2>1, <3>1, <3>2, <3>3, <3>4 DEF CamStored
  <2>2. CASE u \notin admitted
    <3>1. camRows[u] = None
      BY <1>1, <2>2
    <3>2. ASSUME NEW n \in CamName, cams'[n] # None PROVE cams'[n].uid # u
      BY <1>0, <2>2, <3>2, CamTypes
    <3> QED BY <2>0, <3>1, <3>2 DEF CamStored
  <2> QED BY <2>1, <2>2
<1> QED BY <1>1, <1>9, <1>10, <1>11 DEF WebcamsOK

(* A camera, new or changed, is put in the place of the one with its uid. *)
LEMMA SavesKeeps ==
  ASSUME WebcamsOK, NEW t \in Request, NEW cam \in Cams, NEW others \in [CamName -> Cams \cup {None}],
         cam.uid \in CamUid, cam.name \in CamName, cam.data \in CamData, Idle(t),
         Saves(t, cam, others), CamKept, camTorn' = camTorn,
         \A n \in CamName : others[n] # None => others[n] = cams[n],
         \A n \in CamName : n # cam.name /\ others[n] # None => others[n].uid # cam.uid,
         \A n \in CamName : cams[n] # None /\ cams[n].uid # cam.uid => n # cam.name /\ others[n] = cams[n]
  PROVE  WebcamsOK'
<1> DEFINE row == [name |-> cam.name, data |-> cam.data]
           w == [uid |-> cam.uid, by |-> t, row |-> row]
<1>0. t \in Task /\ row \in Rows /\ w \in CamWrite /\ w.uid = cam.uid /\ w.row = row /\ cam # None
      /\ cam.uid # 0
  BY WebcamConstants, CamTypes DEF CamWrite, Rows, Task, Cams
<1>1. /\ cams' = [others EXCEPT ![cam.name] = cam]
      /\ camWrites' = Append(camWrites, w) /\ camWaits' = [camWaits EXCEPT ![t] = cam.uid]
      /\ pc' = [pc EXCEPT ![t] = "saving"]
      /\ UNCHANGED <<camConfig, camRows, camUp, camHidden, camTorn>>
  BY DEF Saves, CamKept, Goes
<1> HIDE DEF w
<1>2. /\ camWrites' \in Seq(CamWrite) /\ RowWillBe(cam.uid, row)'
      /\ \A u, r : u # cam.uid /\ RowWillBe(u, r) => RowWillBe(u, r)'
  BY <1>0, <1>1, WriteQueued DEF WebcamsOK
<1> HIDE DEF row
<1>3. cams' \in [CamName -> Cams \cup {None}] /\ cams'[cam.name] = cam
      /\ \A n \in CamName : n # cam.name => cams'[n] = others[n]
  BY <1>1
<1>4. WebcamTypes'
  BY <1>1, <1>2, <1>3 DEF WebcamsOK, WebcamTypes
<1>5. ASSUME NEW n \in CamName PROVE CamOK(n)'
  BY <1>0, <1>3 DEF CamOK, WebcamsOK
<1>6. ASSUME camUp', ~camTorn', NEW u \in CamUid \ camHidden' PROVE CamStored(u)'
  <2>1. CamStored(u)
    BY <1>1, <1>6 DEF WebcamsOK
  <2>2. CASE u = cam.uid
    BY <1>0, <1>2, <1>3, <2>2 DEF CamStored, row
  <2>3. CASE u # cam.uid
    <3>1. ASSUME NEW n \in CamName, cams'[n] # None, cams'[n].uid = u,
                 NEW r, r = [name |-> n, data |-> cams'[n].data]
          PROVE  RowWillBe(u, r)'
      <4>1. cams'[n] = cams[n]
        BY <1>3, <2>3, <3>1
      <4>2. RowWillBe(u, [name |-> n, data |-> cams[n].data])
        BY <2>1, <3>1, <4>1 DEF CamStored
      <4> QED BY <1>2, <2>3, <3>1, <4>1, <4>2
    <3>2. ASSUME \A n \in CamName : cams'[n] # None => cams'[n].uid # u
          PROVE  RowWillBe(u, None)'
      <4>1. \A n \in CamName : cams[n] # None => cams[n].uid # u
        BY <1>3, <2>3, <3>2
      <4> QED BY <1>2, <2>1, <2>3, <4>1 DEF CamStored
    <3> QED BY <3>1, <3>2 DEF CamStored, RowWillBe
  <2> QED BY <2>2, <2>3
<1>7. \A s \in Request : pc'[s] = "saving" <=> camWaits'[s] # 0
  BY <1>0, <1>1 DEF WebcamsOK, WebcamTypes
<1> QED BY <1>4, <1>5, <1>6, <1>7 DEF WebcamsOK

LEMMA CamAddedKeeps ==
  ASSUME WebcamsOK, NEW t \in Request, CamAdded(t)
  PROVE  WebcamsOK'
<1>1. PICK n \in CamName \ Known, u \in CamUid, data \in CamData \ {"refused"} :
        /\ u \notin Uids /\ Saves(t, Camera(n, u, data, "database"), cams)
  BY DEF CamAdded
<1>2. Idle(t) /\ CamKept /\ camTorn' = camTorn
  BY DEF CamAdded
<1>3. PICK cam : cam = Camera(n, u, data, "database")
  OBVIOUS
<1>4. cam \in Cams /\ cam.uid = u /\ cam.name = n /\ cam.data = data
  BY <1>1, <1>3, CamFields
<1>5. cams \in [CamName -> Cams \cup {None}] /\ cams[n] = None
      /\ \A m \in CamName : cams[m] # None => cams[m].uid # u
  BY <1>1 DEF WebcamsOK, WebcamTypes, Known, Uids
<1>6. Saves(t, cam, cams)
  BY <1>1, <1>3
<1> QED BY <1>1, <1>2, <1>4, <1>5, <1>6, SavesKeeps

LEMMA CamUpdatedKeeps ==
  ASSUME WebcamsOK, NEW t \in Request, CamUpdated(t)
  PROVE  WebcamsOK'
<1>1. PICK old \in Known, name \in CamName, data \in CamData :
       LET others == IF name = old THEN cams ELSE WithoutName(old)
           cam == [cams[old] EXCEPT !.name = name, !.data = data] IN
       /\ cams[old].source = "database" /\ (name # old => name \notin Known)
       /\ \/ Saves(t, cam, others) /\ UNCHANGED camTorn
          \/ /\ cams' = IF name = old THEN [cams EXCEPT ![old].data = data] ELSE others
             /\ camTorn' = TRUE /\ UNCHANGED <<pc, camWrites, camWaits>>
  BY Zenon DEF CamUpdated
<1> DEFINE others == IF name = old THEN cams ELSE WithoutName(old)
           cam == [cams[old] EXCEPT !.name = name, !.data = data]
<1>2. Idle(t) /\ CamKept
  BY DEF CamUpdated
<1>3. /\ old \in CamName /\ cams[old] \in Cams /\ cams[old] # None /\ cams[old].uid \in CamUid
      /\ cams[old].name = old /\ cams \in [CamName -> Cams \cup {None}]
      /\ \A m \in CamName : cams[m] # None /\ cams[m].uid = cams[old].uid => m = old
  BY <1>1 DEF WebcamsOK, WebcamTypes, CamOK, Known
<1>4. cam \in Cams /\ cam.uid = cams[old].uid /\ cam.name = name /\ cam.data = data
      /\ cam.source = cams[old].source
  BY <1>3 DEF Cams
<1>5. others \in [CamName -> Cams \cup {None}]
      /\ \A n \in CamName : others[n] = IF n = old /\ name # old THEN None ELSE cams[n]
  BY <1>3 DEF WithoutName
<1>6. CASE Saves(t, cam, others) /\ UNCHANGED camTorn
  <2> HIDE DEF cam, others
  <2>1. name # old => cams[name] = None
    BY <1>1 DEF Known
  <2> QED BY <1>2, <1>3, <1>4, <1>5, <1>6, <2>1, SavesKeeps
<1>7. CASE /\ cams' = IF name = old THEN [cams EXCEPT ![old].data = data] ELSE others
           /\ camTorn' = TRUE /\ UNCHANGED <<pc, camWrites, camWaits>>
  <2>1. camTorn' /\ camTorn' \in BOOLEAN /\ UNCHANGED <<pc, camWrites, camWaits, camConfig, camRows, camUp, camHidden>>
    BY <1>2, <1>7 DEF CamKept
  <2>2. CASE name # old
    <3>1. cams' \in [CamName -> Cams \cup {None}] /\ \A n \in CamName : cams'[n] = None \/ cams'[n] = cams[n]
      BY <1>5, <1>7, <2>2
    <3>2. WebcamTypes'
      BY <2>1, <3>1 DEF WebcamsOK, WebcamTypes
    <3>3. \A n \in CamName : CamOK(n)'
      BY <3>1 DEF WebcamsOK, CamOK
    <3> QED BY <2>1, <3>2, <3>3 DEF WebcamsOK
  <2>3. CASE name = old
    <3>0. cams' = [cams EXCEPT ![old] = [cams[old] EXCEPT !.data = data]]
      BY <1>7, <2>3
    <3>1. PICK new : new = [cams[old] EXCEPT !.data = data]
      OBVIOUS
    <3>2. /\ new \in Cams /\ new.name = cams[old].name /\ new.uid = cams[old].uid
          /\ new.source = cams[old].source
      BY <1>3, <3>1 DEF Cams
    <3>3. cams' \in [CamName -> Cams \cup {None}] /\ cams'[old] = new
          /\ \A n \in CamName \ {old} : cams'[n] = cams[n]
      BY <1>3, <3>0, <3>1, <3>2
    <3>4. WebcamTypes'
      BY <2>1, <3>3 DEF WebcamsOK, WebcamTypes
    <3>5. \A n \in CamName : CamOK(n)'
      BY <1>3, <3>2, <3>3 DEF WebcamsOK, CamOK
    <3> QED BY <2>1, <3>4, <3>5 DEF WebcamsOK
  <2> QED BY <2>2, <2>3
<1> QED BY <1>1, <1>6, <1>7, Zenon

LEMMA CamDeletedKeeps ==
  ASSUME WebcamsOK, NEW t \in Request, CamDeleted(t)
  PROVE  WebcamsOK'
<1>1. PICK n \in Known :
       /\ cams[n].source = "database"
       /\ cams' = [cams EXCEPT ![n] = None]
       /\ camWrites' = Append(camWrites, [uid |-> cams[n].uid, by |-> None, row |-> None])
  BY DEF CamDeleted
<1>2. UNCHANGED <<camConfig, camRows, camUp, camHidden, pc, camWaits, camTorn>>
  BY DEF CamDeleted, CamKept
<1>3. n \in CamName /\ cams[n] # None /\ cams[n].uid \in CamUid
      /\ \A m \in CamName : cams[m] # None /\ cams[m].uid = cams[n].uid => m = n
  BY <1>1 DEF WebcamsOK, CamOK, Known
<1>4. PICK w : w = [uid |-> cams[n].uid, by |-> None, row |-> None]
  OBVIOUS
<1>5. w \in CamWrite /\ w.uid = cams[n].uid /\ w.row = None
  BY <1>3, <1>4 DEF CamWrite
<1>6. /\ camWrites' \in Seq(CamWrite)
      /\ \A u, r : u = cams[n].uid /\ r = None => RowWillBe(u, r)'
      /\ \A u, r : u # cams[n].uid /\ RowWillBe(u, r) => RowWillBe(u, r)'
  <2>1. /\ camWrites' \in Seq(CamWrite) /\ RowWillBe(w.uid, w.row)'
        /\ \A u, r : u # w.uid /\ RowWillBe(u, r) => RowWillBe(u, r)'
    BY <1>1, <1>2, <1>4, <1>5, WriteQueued DEF WebcamsOK
  <2> QED BY <1>5, <2>1
<1>7. cams' \in [CamName -> Cams \cup {None}] /\ cams'[n] = None
      /\ \A m \in CamName \ {n} : cams'[m] = cams[m]
  BY <1>1, <1>3 DEF WebcamsOK, WebcamTypes
<1>8. WebcamTypes'
  BY <1>2, <1>6, <1>7 DEF WebcamsOK, WebcamTypes
<1>9. \A m \in CamName : CamOK(m)'
  BY <1>7 DEF WebcamsOK, CamOK
<1>10. ASSUME camUp', ~camTorn', NEW u \in CamUid \ camHidden' PROVE CamStored(u)'
  <2>1. CamStored(u)
    BY <1>2, <1>10 DEF WebcamsOK
  <2>2. ASSUME NEW m \in CamName, cams'[m] # None, cams'[m].uid = u,
               NEW r, r = [name |-> m, data |-> cams'[m].data]
        PROVE  RowWillBe(u, r)'
    <3>1. m # n /\ cams'[m] = cams[m] /\ u # cams[n].uid
      BY <1>3, <1>7, <2>2
    <3>2. RowWillBe(u, [name |-> m, data |-> cams[m].data])
      BY <2>1, <2>2, <3>1 DEF CamStored
    <3> QED BY <1>6, <2>2, <3>1, <3>2
  <2>3. ASSUME \A m \in CamName : cams'[m] # None => cams'[m].uid # u PROVE RowWillBe(u, None)'
    <3>1. CASE u = cams[n].uid
      BY <1>6, <3>1
    <3>2. CASE u # cams[n].uid
      <4>1. \A m \in CamName : cams[m] # None => cams[m].uid # u
        BY <1>7, <2>3, <3>2
      <4> QED BY <1>6, <2>1, <3>2, <4>1 DEF CamStored
    <3> QED BY <3>1, <3>2
  <2> QED BY <2>2, <2>3 DEF CamStored, RowWillBe
<1> QED BY <1>2, <1>8, <1>9, <1>10 DEF WebcamsOK

LEMMA CamWrittenKeeps ==
  ASSUME WebcamsOK, CamWritten
  PROVE  WebcamsOK'
<1> DEFINE w == Head(camWrites)
<1>1. /\ camWrites # <<>> /\ camWrites' = Tail(camWrites)
      /\ UNCHANGED <<camConfig, cams, camUp, camHidden>>
      /\ \/ camRows' = [camRows EXCEPT ![w.uid] = w.row] /\ camTorn' = camTorn
         \/ camTorn' = TRUE /\ camRows' = camRows
      /\ \/ /\ w.by \in Request /\ camWaits[w.by] # 0
            /\ Goes(w.by, "idle") /\ camWaits' = [camWaits EXCEPT ![w.by] = 0]
         \/ UNCHANGED <<pc, camWaits>>
  BY DEF CamWritten
<1>2. camWrites' \in Seq(CamWrite) /\ w \in CamWrite /\ Request \subseteq Task
  BY <1>1 DEF WebcamsOK, WebcamTypes, Task
<1>3. \A t \in Request : pc'[t] = "saving" <=> camWaits'[t] # 0
  BY <1>1, <1>2 DEF WebcamsOK, WebcamTypes, Goes
<1>4. DOMAIN pc' = Task /\ DOMAIN camWaits' = Request
  BY <1>1, <1>2 DEF WebcamsOK, WebcamTypes, Goes
<1>5. camRows' \in [CamUid -> Rows \cup {None}] /\ camTorn' \in BOOLEAN
  BY <1>1, <1>2 DEF WebcamsOK, WebcamTypes, CamWrite
<1>6. WebcamTypes'
  BY <1>1, <1>2, <1>4, <1>5 DEF WebcamsOK, WebcamTypes
<1>7. \A n \in CamName : CamOK(n)'
  BY <1>1 DEF WebcamsOK, CamOK
<1>8. ASSUME camUp', ~camTorn', NEW u \in CamUid \ camHidden' PROVE CamStored(u)'
  <2>0. camTorn' # TRUE /\ camTorn' = camTorn
    BY <1>1, <1>8, Zenon
  <2>1. CamStored(u)
    <3>1. camUp /\ u \in CamUid \ camHidden
      BY <1>1, <1>8
    <3>2. ~camTorn
      BY <1>8, <2>0, Zenon
    <3> QED BY <3>1, <3>2 DEF WebcamsOK
  <2>2. camRows' = [camRows EXCEPT ![w.uid] = w.row]
    BY <1>1, <2>0, Zenon
  <2>3. \A r : RowWillBe(u, r) => RowWillBe(u, r)'
    BY <1>1, <2>2, <1>8, WriteDone DEF WebcamsOK
  <2>4. cams' = cams
    BY <1>1
  <2>5. ASSUME NEW n \in CamName, cams'[n] # None, cams'[n].uid = u,
               NEW r, r = [name |-> n, data |-> cams'[n].data]
        PROVE  RowWillBe(u, r)'
    <3>1. RowWillBe(u, [name |-> n, data |-> cams[n].data])
      BY <2>1, <2>4, <2>5 DEF CamStored
    <3> QED BY <2>3, <2>4, <2>5, <3>1
  <2>6. ASSUME \A n \in CamName : cams'[n] # None => cams'[n].uid # u PROVE RowWillBe(u, None)'
    BY <2>1, <2>3, <2>4, <2>6 DEF CamStored
  <2> QED BY <2>5, <2>6 DEF CamStored, RowWillBe
<1> QED BY <1>3, <1>6, <1>7, <1>8 DEF WebcamsOK

LEMMA WebcamsCrashKeeps ==
  ASSUME WebcamsOK, WebcamsCrash
  PROVE  WebcamsOK'
<1>1. /\ ~camUp' /\ camUp' \in BOOLEAN /\ cams' = [n \in CamName |-> None] /\ camWrites' = <<>>
      /\ camWaits' = [t \in Request |-> 0] /\ pc' = [t \in Task |-> "idle"]
      /\ camConfig' \in BOOLEAN /\ camHidden' = {} /\ UNCHANGED <<camRows, camTorn>>
      /\ Request \subseteq Task
  BY Zenon DEF WebcamsCrash, Task
<1>2. cams' \in [CamName -> Cams \cup {None}]
  BY <1>1
<1>3. WebcamTypes'
  BY <1>1, <1>2 DEF WebcamsOK, WebcamTypes
<1> QED BY <1>1, <1>3 DEF WebcamsOK, CamOK

LEMMA WebcamsKeep ==
  ASSUME WebcamsOK, WebcamsNext
  PROVE  WebcamsOK'
BY WebcamsStartKeeps, CamAddedKeeps, CamUpdatedKeeps, CamDeletedKeeps, CamWrittenKeeps,
   WebcamsCrashKeeps DEF WebcamsNext

LEMMA WebcamsRest ==
  ASSUME WebcamsOK, UNCHANGED <<pc, webcamVars>>
  PROVE  WebcamsOK'
BY DEF WebcamsOK, WebcamTypes, CamOK, CamStored, RowWillBe, webcamVars

(***************************************************************************)
(* Sessions: what the thread of the database has still to do makes the rows *)
(* what they are in memory; a key is published when its row is committed.   *)
(***************************************************************************)
AuthUsers == [password : Password \cup {0}, key : Nat]
AuthPuts == AuthUsers \cup Nat \cup AuthRows
AuthCommands == [by : Task, do : {"put", "commit", "rollback"},
                 what : {"user", "api", "all", None}, put : AuthPuts]
AuthReplies == [by : Task, ok : BOOLEAN]
AuthQueue == 1..Len(authCommands)
AuthHeard == 1..Len(authDone)

PutIsGood(c) ==
  c.do = "put" => /\ c.what \in {"user", "api", "all"}
                  /\ c.what = "user" => c.put \in AuthUsers /\ c.put.key <= lastKey
                  /\ c.what = "api" => c.put \in Nat
                  /\ c.what = "all" => c.put \in AuthRows /\ c.put.user.key <= lastKey

SessionTypes ==
  /\ DOMAIN pc = Task /\ DOMAIN authTask = Task
  /\ sessionUp \in BOOLEAN /\ authTorn \in BOOLEAN /\ configured \in Password
  /\ account \in AuthUsers /\ apiKey \in Nat /\ lastKey \in Nat
  /\ authSeen \in AuthRows /\ authDisk \in AuthRows
  /\ account.key <= lastKey /\ authSeen.user.key <= lastKey /\ authDisk.user.key <= lastKey
  /\ published \subseteq 1..lastKey /\ tokens \subseteq 1..lastKey
  /\ authCommands \in Seq(AuthCommands) /\ authDone \in Seq(AuthReplies)
  /\ \A i \in AuthQueue : PutIsGood(authCommands[i])
  /\ \A t \in Task : authTask[t].key \in 0..lastKey

UserPut(c) == c.do = "put" /\ c.what = "user"
ApiPut(c) == c.do = "put" /\ c.what = "api"
NoUserPut == \A i \in AuthQueue : ~UserPut(authCommands[i])
LastUserPut(i) == UserPut(authCommands[i]) /\ \A j \in AuthQueue : j > i => ~UserPut(authCommands[j])
NoApiPut == \A i \in AuthQueue : ~ApiPut(authCommands[i])
LastApiPut(i) == ApiPut(authCommands[i]) /\ \A j \in AuthQueue : j > i => ~ApiPut(authCommands[j])

(* The row of the user, and that of the API key, will be as they are in memory. *)
UserWillBe ==
  \/ NoUserPut /\ authSeen.user = account
  \/ \E i \in AuthQueue : LastUserPut(i) /\ authCommands[i].put = account
ApiWillBe ==
  \/ NoApiPut /\ authSeen.api = apiKey
  \/ \E i \in AuthQueue : LastApiPut(i) /\ authCommands[i].put = apiKey

(* A task waits for one command, or has one answer. *)
AuthPlace(do) == IF do = "put" THEN "saving" ELSE IF do = "commit" THEN "committing" ELSE "failing"
OneCommandEach ==
  /\ \A i, j \in AuthQueue : authCommands[i].by = authCommands[j].by => i = j
  /\ \A i, j \in AuthHeard : authDone[i].by = authDone[j].by => i = j
  /\ \A i \in AuthQueue, j \in AuthHeard : authCommands[i].by # authDone[j].by
  /\ \A i \in AuthQueue : /\ authCommands[i].by \in Request /\ (authCommands[i].do = "put" => authCommands[i].what # "all")
                          /\ pc[authCommands[i].by] = AuthPlace(authCommands[i].do)
  /\ \A i \in AuthHeard : /\ authDone[i].by \in Request
                          /\ pc[authDone[i].by] \in {"saving", "committing", "failing"}

(* What is not committed is about to be. *)
CommitComes ==
  \/ authSeen = authDisk
  \/ \E i \in AuthHeard : pc[authDone[i].by] = "saving"
  \/ \E i \in AuthQueue : authCommands[i].do = "commit"

(* The key of a login is the user's: nothing is put after it. *)
LoginOK(t) ==
  authTask[t].for = "login" /\ authTask[t].key = account.key /\ account.key # 0 =>
    /\ NoUserPut \/ \E i \in AuthQueue : authCommands[i].by = t /\ LastUserPut(i)
    /\ pc[t] = "committing" /\ (\A i \in AuthQueue : authCommands[i].by # t) => authDisk.user = account

PublishedOK == published \ outlived # {} => authDisk.user = account /\ NoUserPut

NothingTorn ==
  /\ \A i \in AuthHeard : authDone[i].ok
  /\ \A i \in AuthQueue : authCommands[i].do # "rollback"
  /\ UserWillBe /\ ApiWillBe /\ CommitComes /\ ~authSeen.others /\ ~authDisk.others
  /\ \A t \in Request : LoginOK(t)
  /\ PublishedOK

SessionsServing ==
  /\ \A t \in Task \ Request : pc[t] = "idle"
  /\ OneCommandEach
  /\ ~authTorn => NothingTorn

SessionsDown ==
  /\ \A t \in Task : pc[t] = "idle"
  /\ authCommands = <<>> /\ authDone = <<>> /\ authSeen = authDisk
  /\ published = {} /\ (~authTorn => served \ outlived \subseteq {authDisk.user.key})

AuthMemory == [user |-> account, api |-> apiKey, others |-> FALSE]
SessionsStarting ==
  /\ \A t \in Task \ {"init"} : pc[t] = "idle"
  /\ ~authTorn /\ published = {account.key} \ {0}
  /\ served \ outlived \subseteq {account.key} /\ served \ outlived \subseteq {authDisk.user.key}
  /\ authTask["init"].for = "start"
  /\ \/ /\ pc["init"] = "saving" /\ authDone = <<>> /\ Len(authCommands) = 1
        /\ authCommands[1].do = "put" /\ authCommands[1].what = "all"
        /\ authCommands[1].put = AuthMemory /\ authCommands[1].by = "init"
     \/ /\ pc["init"] = "committing" /\ authDone = <<>> /\ Len(authCommands) = 1
        /\ authCommands[1].do = "commit" /\ authCommands[1].by = "init" /\ authSeen = AuthMemory
     \/ /\ pc["init"] \in {"saving", "committing"} /\ authCommands = <<>> /\ Len(authDone) = 1
        /\ authDone[1].by = "init" /\ authDone[1].ok /\ authSeen = AuthMemory
        /\ pc["init"] = "committing" => authDisk = AuthMemory

(* Of keys, one-shot tokens and addresses *)
KeysOK ==
  /\ published \ outlived \subseteq {account.key}
  /\ served \subseteq 1..lastKey
  /\ sessionUp => served \ outlived \subseteq published
OneshotsOK == oneshots \cap oneshotsUsed = {}
TrustOK ==
  /\ trustedUser => trust = "address" \/ (trust = "domain" /\ vouched)
  /\ nameOf = "ours" => vouched
  /\ trust \in {"none", "address", "domain"}
  /\ \A t \in Task : pc[t] = "naming" => trust = "domain"

(* Who logs in has a key. *)
LoginsHaveKeys == \A t \in Task : pc[t] # "idle" /\ authTask[t].for = "login" => authTask[t].key # 0

SessionsOK ==
  /\ SessionTypes /\ KeysOK /\ OneshotsOK /\ TrustOK /\ LoginsHaveKeys
  /\ sessionUp => SessionsServing
  /\ ~sessionUp => IF pc["init"] = "idle" THEN SessionsDown ELSE SessionsStarting

LEMMA SessionTasks ==
  /\ Request \subseteq Task /\ "init" \in Task /\ "worker" \in Task
  /\ "init" \notin Request /\ "worker" \notin Request
BY HostConstants DEF Task, Background

LEMMA SessionsBegin ==
  ASSUME HostInit, SessionsInit, component = "sessions"
  PROVE  SessionsOK
<1>1. /\ DOMAIN pc = Task /\ (\A t \in Task : pc[t] = "idle") /\ authTask = [t \in Task |-> NoSave]
      /\ sessionUp = FALSE /\ authTorn = FALSE /\ configured = 1
      /\ account = NoAccount /\ apiKey = 0 /\ lastKey = 0 /\ published = {} /\ tokens = {}
      /\ authDisk = [user |-> NoAccount, api |-> 0, others |-> TRUE] /\ authSeen = authDisk
      /\ authCommands = <<>> /\ authDone = <<>>
      /\ served = {} /\ outlived = {} /\ oneshots = {} /\ oneshotsUsed = {}
      /\ trustedUser = FALSE /\ nameOf = "unknown" /\ trust \in {"none", "address", "domain"}
  BY Zenon DEF HostInit, SessionsInit, Among
<1>2. NoAccount \in AuthUsers /\ NoAccount.key = 0 /\ NoSave.key = 0
  BY DEF NoAccount, NoSave, AuthUsers, Password
<1>3. \A a \in AuthUsers, n \in Nat, b \in BOOLEAN :
        LET r == [user |-> a, api |-> n, others |-> b] IN r \in AuthRows /\ r.user = a
  BY DEF AuthRows, AuthUsers
<1>4. authDisk \in AuthRows /\ authDisk.user = NoAccount
  BY <1>1, <1>2, <1>3
<1>5. SessionTypes
  <2>1. authCommands \in Seq(AuthCommands) /\ authDone \in Seq(AuthReplies) /\ Len(authCommands) = 0
    BY <1>1
  <2>2. \A t \in Task : authTask[t].key = 0
    BY <1>1, <1>2
  <2>3. sessionUp \in BOOLEAN /\ authTorn \in BOOLEAN
    BY <1>1, Zenon
  <2>4. configured \in Password /\ \A i \in AuthQueue : PutIsGood(authCommands[i])
    BY <1>1, <2>1 DEF AuthQueue, Password
  <2> QED BY <1>1, <1>2, <1>4, <2>1, <2>2, <2>3, <2>4 DEF SessionTypes
<1>6. KeysOK /\ OneshotsOK /\ TrustOK
  BY <1>1, <1>2 DEF KeysOK, OneshotsOK, TrustOK
<1>7. SessionsDown
  BY <1>1 DEF SessionsDown
<1> QED BY <1>1, <1>5, <1>6, <1>7, SessionTasks DEF SessionsOK, LoginsHaveKeys

LEMMA SessionsServe ==
  ASSUME SessionsOK
  PROVE  SessionsAreKept
<1>1. ASSUME sessionUp, ~authTorn, \A t \in Task : Idle(t)
      PROVE  authDisk = [user |-> account, api |-> apiKey, others |-> FALSE]
  <2>1. SessionTypes /\ OneCommandEach /\ NothingTorn
    BY <1>1 DEF SessionsOK, SessionsServing
  <2>2. AuthQueue = {}
    <3>1. \A i \in AuthQueue : pc[authCommands[i].by] = "idle"
      BY <1>1, <2>1, SessionTasks DEF OneCommandEach, Idle
    <3> QED BY <2>1, <3>1 DEF OneCommandEach, AuthPlace
  <2>3. \A i \in AuthHeard : FALSE
    <3>1. \A i \in AuthHeard : pc[authDone[i].by] = "idle"
      BY <1>1, <2>1, SessionTasks DEF OneCommandEach, Idle
    <3> QED BY <2>1, <3>1 DEF OneCommandEach
  <2>4. authSeen.user = account /\ authSeen.api = apiKey /\ authSeen = authDisk /\ ~authDisk.others
    BY <2>1, <2>2, <2>3 DEF NothingTorn, UserWillBe, ApiWillBe, CommitComes
  <2>5. authDisk \in AuthRows
    BY <2>1 DEF SessionTypes
  <2> QED BY <2>4, <2>5 DEF AuthRows
<1> QED BY <1>1 DEF SessionsOK, SessionsAreKept, KeysOK, OneshotsOK, TrustOK

(* Where a task goes that has no command and no answer *)
AuthTaskAside(t) ==
  \/ pc'[t] = pc[t] /\ authTask'[t] = authTask[t]
  \/ /\ t \in Request /\ pc[t] \in {"idle", "naming"} /\ pc'[t] \in {"idle", "naming"}
     /\ authTask'[t].for # "login" \/ (pc'[t] = "idle" /\ authTask'[t].key = 0)

LEMMA ServingFrame ==
  ASSUME SessionTypes, SessionsServing,
         UNCHANGED <<account, apiKey, authStore, authTorn, published, outlived>>,
         \A t \in Task : AuthTaskAside(t)
  PROVE  SessionsServing'
<1>1. /\ UNCHANGED <<account, apiKey, authSeen, authDisk, authCommands, authDone, authTorn,
                     published, outlived>>
      /\ AuthQueue' = AuthQueue /\ AuthHeard' = AuthHeard
  BY DEF authStore, AuthQueue, AuthHeard
<1>2. \A t \in Task \ Request : pc'[t] = "idle"
  BY DEF SessionsServing, AuthTaskAside
<1>3. OneCommandEach'
  <2>1. ASSUME NEW t \in Request, pc[t] \in {"saving", "committing", "failing"} PROVE pc'[t] = pc[t]
    BY <2>1, SessionTasks DEF AuthTaskAside
  <2>2. \A do : AuthPlace(do) \in {"saving", "committing", "failing"}
    BY DEF AuthPlace
  <2> QED BY <1>1, <2>1, <2>2 DEF OneCommandEach, SessionsServing
<1>4. ASSUME ~authTorn PROVE NothingTorn'
  <2>0. NothingTorn /\ OneCommandEach
    BY <1>4 DEF SessionsServing
  <2>1. /\ NoUserPut' <=> NoUserPut
        /\ \A i : LastUserPut(i)' <=> LastUserPut(i)
        /\ UserWillBe' /\ ApiWillBe'
    BY <1>1, <2>0 DEF NothingTorn, UserWillBe, ApiWillBe, NoUserPut, LastUserPut, NoApiPut, LastApiPut
  <2>2. CommitComes'
    <3>1. ASSUME NEW i \in AuthHeard, pc[authDone[i].by] = "saving" PROVE pc'[authDone[i].by] = "saving"
      BY <2>0, <3>1, SessionTasks DEF AuthTaskAside, OneCommandEach
    <3> QED BY <1>1, <2>0, <3>1 DEF NothingTorn, CommitComes
  <2>3. ASSUME NEW t \in Request PROVE LoginOK(t)'
    BY <1>1, <2>0, <2>1, <2>3, SessionTasks DEF NothingTorn, LoginOK, AuthTaskAside
  <2>4. PublishedOK'
    BY <1>1, <2>0, <2>1 DEF NothingTorn, PublishedOK
  <2> QED BY <1>1, <2>0, <2>1, <2>2, <2>3, <2>4 DEF NothingTorn
<1> QED BY <1>1, <1>2, <1>3, <1>4 DEF SessionsServing

LEMMA SessionsFrame ==
  ASSUME SessionsOK, SessionTypes', KeysOK', OneshotsOK', TrustOK',
         UNCHANGED <<sessionUp, account, apiKey, authStore, authTorn, published, outlived>>,
         ~sessionUp => served' = served /\ \A t \in Task : pc'[t] = pc[t] /\ authTask'[t] = authTask[t],
         \A t \in Task : AuthTaskAside(t)
  PROVE  SessionsOK'
<1>1. /\ UNCHANGED <<sessionUp, account, apiKey, authSeen, authDisk, authCommands, authDone,
                     authTorn, published, outlived>>
  BY DEF authStore
<1>2. sessionUp => SessionsServing'
  BY ServingFrame DEF SessionsOK
<1>3. ASSUME ~sessionUp PROVE IF pc'["init"] = "idle" THEN SessionsDown' ELSE SessionsStarting'
  <2>1. pc'["init"] = pc["init"] /\ authTask'["init"] = authTask["init"]
    BY <1>3, SessionTasks
  <2>2. SessionsDown => SessionsDown'
    BY <1>1, <1>3 DEF SessionsDown
  <2>3. SessionsStarting => SessionsStarting'
    BY <1>1, <1>3, <2>1 DEF SessionsStarting, AuthMemory
  <2> QED BY <1>3, <2>1, <2>2, <2>3 DEF SessionsOK
<1>4. LoginsHaveKeys'
  BY DEF SessionsOK, LoginsHaveKeys, AuthTaskAside
<1> QED BY <1>1, <1>2, <1>3, <1>4 DEF SessionsOK

(* What concerns neither keys nor rows *)
LEMMA AddressTypes ==
  ASSUME SessionTypes, AddressKept, DOMAIN pc' = Task, DOMAIN authTask' = Task,
         \A t \in Task : authTask'[t] = authTask[t] \/ authTask'[t].key = 0
  PROVE  SessionTypes'
<1>1. /\ UNCHANGED <<sessionUp, configured, account, apiKey, lastKey, published, authSeen, authDisk,
                     authCommands, authDone, tokens, authTorn>>
      /\ AuthQueue' = AuthQueue
  BY DEF AddressKept, authMemory, authStore, AuthQueue
<1>2. \A i \in AuthQueue : PutIsGood(authCommands[i])'
  BY <1>1 DEF SessionTypes, PutIsGood
<1>3. \A t \in Task : authTask'[t].key \in 0..lastKey'
  BY <1>1 DEF SessionTypes
<1> QED BY <1>1, <1>2, <1>3 DEF SessionTypes

LEMMA AddressKeeps ==
  ASSUME SessionsOK, AddressKept, TrustOK', DOMAIN pc' = Task, DOMAIN authTask' = Task,
         \A t \in Task : authTask'[t] = authTask[t] \/ authTask'[t].key = 0,
         ~sessionUp => \A t \in Task : pc'[t] = pc[t] /\ authTask'[t] = authTask[t],
         \A t \in Task : AuthTaskAside(t)
  PROVE  SessionsOK'
<1>1. SessionTypes'
  BY AddressTypes DEF SessionsOK
<1>2. KeysOK' /\ OneshotsOK'
  BY DEF SessionsOK, KeysOK, OneshotsOK, AddressKept, authMemory, authStore
<1>3. /\ UNCHANGED <<sessionUp, account, apiKey, authStore, authTorn, published, outlived>>
      /\ served' = served
  BY DEF AddressKept, authMemory
<1> QED BY <1>1, <1>2, <1>3, SessionsFrame

LEMMA LooksUpKeeps ==
  ASSUME SessionsOK, NEW t \in Request, NEW for, sessionUp, Idle(t), for # "login", trust = "domain",
         LooksUp(t, for), AddressKept, UNCHANGED <<nameOf, vouched>>
  PROVE  SessionsOK'
<1>1. /\ pc' = [pc EXCEPT ![t] = "naming"] /\ trustedUser' = trustedUser /\ trust' = trust
      /\ authTask' = [authTask EXCEPT ![t] = [for |-> for, key |-> 0]]
      /\ t \in Task /\ DOMAIN pc = Task /\ DOMAIN authTask = Task /\ pc[t] = "idle"
  BY SessionTasks DEF LooksUp, Goes, AddressKept, SessionsOK, SessionTypes, Idle
<1>2. authTask'[t].key = 0 /\ authTask'[t].for = for /\ pc'[t] = "naming"
  <2>1. authTask'[t] = [for |-> for, key |-> 0] /\ pc'[t] = "naming"
    BY <1>1
  <2> QED BY <2>1
<1>3. \A s \in Task : s # t => pc'[s] = pc[s] /\ authTask'[s] = authTask[s]
  BY <1>1
<1>4. DOMAIN pc' = Task /\ DOMAIN authTask' = Task
  BY <1>1
<1>5. TrustOK'
  BY <1>1, <1>2, <1>3 DEF SessionsOK, TrustOK
<1>6. \A s \in Task : AuthTaskAside(s)
  BY <1>1, <1>2, <1>3 DEF AuthTaskAside
<1> QED BY <1>2, <1>3, <1>4, <1>5, <1>6, AddressKeeps

LEMMA AddressStepsKeep ==
  ASSUME SessionsOK, NEW t \in Request,
         RequestByAddress(t) \/ OriginChecked(t) \/ NameAnswered(t)
  PROVE  SessionsOK'
<1>0. /\ t \in Task /\ DOMAIN pc = Task /\ DOMAIN authTask = Task /\ trust \in {"none", "address", "domain"}
      /\ TrustOK
  BY SessionTasks DEF SessionsOK, SessionTypes, TrustOK
<1>1. CASE RequestByAddress(t)
  <2>1. CASE AddressTrusted
    <3>1. /\ UNCHANGED <<pc, authTask, nameOf, vouched, trust>> /\ AddressKept /\ trust # "none"
          /\ trustedUser' /\ AddressAuthorized
      BY <1>1, <2>1 DEF RequestByAddress, AddressTrusted, AddressKept
    <3>2. TrustOK'
      BY <1>0, <3>1 DEF TrustOK, AddressAuthorized
    <3> QED BY <1>0, <3>1, <3>2, AddressKeeps DEF AuthTaskAside
  <2>2. CASE ~AddressTrusted
    BY <1>1, <2>2, LooksUpKeeps DEF RequestByAddress
  <2> QED BY <2>1, <2>2
<1>2. CASE OriginChecked(t)
  BY <1>2, LooksUpKeeps DEF OriginChecked
<1>3. CASE NameAnswered(t)
  <2>1. /\ pc' = [pc EXCEPT ![t] = "idle"] /\ authTask' = [authTask EXCEPT ![t] = NoSave]
        /\ pc[t] = "naming" /\ AddressKept /\ trust' = trust
    BY <1>3 DEF NameAnswered, Goes, AddressKept
  <2>8. /\ nameOf' = "ours" => vouched'
        /\ vouched => vouched'
        /\ trustedUser' => trustedUser \/ vouched'
    <3>1. CASE UNCHANGED <<nameOf, trustedUser, vouched>>
      BY <1>0, <3>1 DEF TrustOK
    <3>2. CASE /\ vouched' = (vouched \/ nameOf' = "ours")
               /\ trustedUser' = (trustedUser \/ (nameOf' = "ours" /\ authTask[t].for = "request"))
      BY <3>2, Zenon
    <3> QED BY <1>3, <3>1, <3>2, Zenon DEF NameAnswered
  <2>2. authTask'[t].key = 0 /\ pc'[t] = "idle"
    BY <1>0, <2>1 DEF NoSave
  <2>3. \A s \in Task : s # t => pc'[s] = pc[s] /\ authTask'[s] = authTask[s]
    BY <1>0, <2>1
  <2>4. trust = "domain" /\ sessionUp
    BY <1>0, <2>1, SessionTasks DEF TrustOK, SessionsOK, SessionsDown, SessionsStarting
  <2>5. TrustOK'
    BY <1>0, <2>1, <2>2, <2>3, <2>4, <2>8 DEF TrustOK
  <2>6. \A s \in Task : AuthTaskAside(s)
    BY <1>0, <2>1, <2>2, <2>3 DEF AuthTaskAside
  <2>7. DOMAIN pc' = Task /\ DOMAIN authTask' = Task
    BY <1>0, <2>1
  <2> QED BY <2>1, <2>2, <2>3, <2>4, <2>5, <2>6, <2>7, AddressKeeps
<1> QED BY <1>1, <1>2, <1>3

LEMMA AddressPrunedKeeps ==
  ASSUME SessionsOK, AddressPruned
  PROVE  SessionsOK'
<1>00. DOMAIN pc = Task /\ DOMAIN authTask = Task /\ TrustOK
  BY DEF SessionsOK, SessionTypes
<1>1. /\ UNCHANGED <<pc, authTask, trust>> /\ AddressKept
      /\ trustedUser' \in {trustedUser, FALSE} /\ nameOf' \in {nameOf, "unknown"}
      /\ vouched' = (vouched /\ (trustedUser' \/ nameOf' # "unknown"))
  BY Zenon DEF AddressPruned, AddressKept
<1>3. (trustedUser' => trustedUser) /\ (nameOf' = "ours" => nameOf = "ours")
  <2>1. trustedUser' => trustedUser
    BY <1>1, Zenon
  <2>2. nameOf' = "ours" => nameOf = "ours"
    BY <1>1
  <2> QED BY <2>1, <2>2
<1>4. vouched /\ (trustedUser' \/ nameOf' = "ours") => vouched'
  <2>1. nameOf' = "ours" => nameOf' # "unknown"
    OBVIOUS
  <2> QED BY <1>1, <2>1, Zenon
<1>2. TrustOK'
  BY <1>00, <1>1, <1>3, <1>4 DEF TrustOK
<1> QED BY <1>00, <1>1, <1>2, AddressKeeps DEF AuthTaskAside

(* Tokens are used, and one-shot tokens given and used. *)
LEMMA TokensKeep ==
  ASSUME SessionsOK,
         TokenAccepted \/ TokenRefreshed \/ PasswordEdited \/ \E t \in Request : OneshotGiven(t) \/ OneshotPopped(t)
  PROVE  SessionsOK'
<1>1. /\ UNCHANGED <<pc, authTask, sessionUp, account, apiKey, lastKey, published, authSeen, authDisk,
                     authCommands, authDone, authTorn, outlived, trust, nameOf, trustedUser, vouched>>
      /\ ~sessionUp => served' = served
      /\ configured \in Password => configured' \in Password
      /\ tokens \subseteq 1..lastKey => tokens' \subseteq 1..lastKey
      /\ served \subseteq 1..lastKey => served' \subseteq 1..lastKey
      /\ sessionUp /\ served \ outlived \subseteq published => served' \ outlived \subseteq published
      /\ oneshots \cap oneshotsUsed = {} => oneshots' \cap oneshotsUsed' = {}
  <2>0. /\ account.key # 0 => account.key \in 1..lastKey
        /\ tokens \subseteq 1..lastKey
    BY DEF SessionsOK, SessionTypes, AuthUsers
  <2>1. CASE TokenAccepted
    BY <2>0, <2>1 DEF TokenAccepted, TokenIsGood, authMemory, authStore, authClients, trustVars
  <2>2. CASE TokenRefreshed
    BY <2>0, <2>2 DEF TokenRefreshed, authMemory, authStore, trustVars
  <2>3. CASE PasswordEdited
    BY <2>3 DEF PasswordEdited, authMemory, authStore, authClients, trustVars, Password
  <2>4. CASE \E t \in Request : OneshotGiven(t) \/ OneshotPopped(t)
    BY <2>4 DEF OneshotGiven, OneshotPopped, OneshotKept, authMemory, authStore, trustVars
  <2> QED BY <2>1, <2>2, <2>3, <2>4
<1>2. SessionTypes'
  BY <1>1 DEF SessionsOK, SessionTypes, PutIsGood, AuthQueue
<1>3. KeysOK' /\ OneshotsOK' /\ TrustOK'
  BY <1>1 DEF SessionsOK, KeysOK, OneshotsOK, TrustOK
<1> QED BY <1>1, <1>2, <1>3, SessionsFrame DEF AuthTaskAside, authStore

(* A put goes to the end of the queue. *)
LEMMA CommandQueued ==
  ASSUME SessionTypes, NEW c \in AuthCommands, authCommands' = Append(authCommands, c)
  PROVE  /\ authCommands' \in Seq(AuthCommands) /\ AuthQueue \subseteq Nat
         /\ \E n \in Nat : /\ AuthQueue' = AuthQueue \cup {n} /\ authCommands'[n] = c
                           /\ \A i \in AuthQueue : authCommands'[i] = authCommands[i] /\ i < n
<1>1. /\ authCommands \in Seq(AuthCommands) /\ Len(authCommands) \in Nat
      /\ authCommands' \in Seq(AuthCommands) /\ Len(authCommands') = Len(authCommands) + 1
      /\ \A i \in AuthQueue : authCommands'[i] = authCommands[i]
      /\ authCommands'[Len(authCommands) + 1] = c
  BY DEF SessionTypes, AuthQueue
<1>2. PICK n \in Nat : n = Len(authCommands) + 1
  BY <1>1
<1>3. AuthQueue' = AuthQueue \cup {n} /\ AuthQueue \subseteq Nat /\ \A i \in AuthQueue : i < n
  BY <1>1, <1>2 DEF AuthQueue
<1> QED BY <1>1, <1>2, <1>3

LEMMA PutKeeps ==
  ASSUME SessionTypes, SessionsServing, NEW t \in Request, pc[t] = "idle", NEW c \in AuthCommands, NEW a,
         c.by = t, c.do = "put", authCommands' = Append(authCommands, c),
         pc' = [pc EXCEPT ![t] = "saving"], authTask' = [authTask EXCEPT ![t] = a],
         UNCHANGED <<authSeen, authDisk, authDone, authTorn>>,
         \/ /\ c.what = "user" /\ c.put = account' /\ apiKey' = apiKey /\ published' \ outlived' = {}
            /\ account'.key = 0 \/ account'.key = lastKey + 1
         \/ /\ c.what = "api" /\ c.put = apiKey' /\ a.for # "login"
            /\ UNCHANGED <<account, published, outlived>>
  PROVE  SessionsServing'
<1>0. PICK n \in Nat : /\ AuthQueue' = AuthQueue \cup {n} /\ authCommands'[n] = c
                     /\ \A i \in AuthQueue : authCommands'[i] = authCommands[i] /\ i < n
  BY CommandQueued
<1>1. /\ AuthQueue' = AuthQueue \cup {n} /\ n \notin AuthQueue /\ AuthQueue \subseteq Nat
      /\ \A i \in AuthQueue : authCommands'[i] = authCommands[i] /\ i < n /\ ~(n < i)
      /\ authCommands'[n] = c /\ n \in AuthQueue' /\ ~(n < n)
      /\ AuthHeard' = AuthHeard /\ authDone' = authDone
  BY <1>0, CommandQueued DEF AuthHeard, AuthQueue
<1>2. /\ t \in Task /\ pc'[t] = "saving" /\ authTask'[t] = a
      /\ \A s \in Task : s # t => pc'[s] = pc[s] /\ authTask'[s] = authTask[s]
  BY SessionTasks DEF SessionTypes
<1>3. \A s \in Task \ Request : pc'[s] = "idle"
  BY <1>2 DEF SessionsServing
<1>4. (\A i \in AuthQueue : authCommands[i].by # t) /\ (\A i \in AuthHeard : authDone[i].by # t)
  BY DEF SessionsServing, OneCommandEach, AuthPlace
<1>7. OneCommandEach /\ c.what # "all"
  BY DEF SessionsServing
<1>8. /\ \A i, j \in AuthQueue : authCommands[i].by = authCommands[j].by => i = j
      /\ \A i \in AuthQueue, j \in AuthHeard : authCommands[i].by # authDone[j].by
  BY <1>7 DEF OneCommandEach
<1>9. \A i \in AuthQueue : authCommands'[i].by = authCommands[i].by
  BY <1>1
<1>10. authCommands'[n].by = t
  BY <1>1
<1>5. OneCommandEach'
  <2>1. ASSUME NEW i \in AuthQueue', NEW j \in AuthQueue', authCommands'[i].by = authCommands'[j].by
        PROVE  i = j
    <3>1. CASE i \in AuthQueue /\ j \in AuthQueue
      BY <1>8, <1>9, <2>1, <3>1
    <3>2. CASE i = n \/ j = n
      BY <1>1, <1>4, <1>9, <1>10, <2>1, <3>2
    <3> QED BY <1>1, <3>1, <3>2
  <2>2. ASSUME NEW i \in AuthQueue', NEW j \in AuthHeard' PROVE authCommands'[i].by # authDone'[j].by
    <3>1. CASE i = n
      BY <1>1, <1>4, <3>1
    <3>2. CASE i \in AuthQueue
      BY <1>1, <1>8, <1>9, <3>2
    <3> QED BY <1>1, <3>1, <3>2
  <2>3. \A i \in AuthQueue' : /\ authCommands'[i].by \in Request /\ (authCommands'[i].do = "put" => authCommands'[i].what # "all")
                              /\ pc'[authCommands'[i].by] = AuthPlace(authCommands'[i].do)
    <3>1. pc'[c.by] = AuthPlace(c.do)
      BY <1>2 DEF AuthPlace
    <3>2. ASSUME NEW i \in AuthQueue
          PROVE  /\ authCommands'[i].by \in Request /\ (authCommands'[i].do = "put" => authCommands'[i].what # "all")
                 /\ pc'[authCommands'[i].by] = AuthPlace(authCommands'[i].do)
      <4>1. authCommands'[i] = authCommands[i] /\ authCommands[i].by # t /\ authCommands[i].by \in Task
        BY <1>1, <1>4, <1>7, SessionTasks DEF OneCommandEach
      <4>2. pc'[authCommands[i].by] = pc[authCommands[i].by]
        BY <1>2, <4>1
      <4> QED BY <1>7, <4>1, <4>2 DEF OneCommandEach
    <3> QED BY <1>1, <1>7, <3>1, <3>2
  <2>4. \A i \in AuthHeard' : /\ authDone'[i].by \in Request
                              /\ pc'[authDone'[i].by] \in {"saving", "committing", "failing"}
    BY <1>1, <1>2, <1>4, <1>7, SessionTasks DEF OneCommandEach
  <2>5. \A i, j \in AuthHeard' : authDone'[i].by = authDone'[j].by => i = j
    BY <1>1, <1>7 DEF OneCommandEach
  <2> QED BY <2>1, <2>2, <2>3, <2>4, <2>5 DEF OneCommandEach
<1>6. ASSUME ~authTorn PROVE NothingTorn'
  <2>0. NothingTorn
    BY <1>6 DEF SessionsServing
  <2>1. CommitComes'
    <3>1. ASSUME NEW i \in AuthHeard, pc[authDone[i].by] = "saving" PROVE pc'[authDone[i].by] = "saving"
      BY <1>2, <1>4, <3>1, SessionTasks DEF SessionsServing, OneCommandEach
    <3> QED BY <1>1, <2>0, <3>1 DEF NothingTorn, CommitComes
  <2>2. \A i \in AuthQueue' : authCommands'[i].do # "rollback"
    BY <1>1, <2>0 DEF NothingTorn
  <2>3. CASE c.what = "user"
    <3>1. LastUserPut(n)' /\ authCommands'[n].put = account'
      BY <1>1, <2>3 DEF LastUserPut, UserPut
    <3>2. UserWillBe'
      BY <1>1, <3>1 DEF UserWillBe
    <3>3. ApiWillBe'
      <4>1. /\ NoApiPut => NoApiPut'
            /\ \A i \in AuthQueue : LastApiPut(i) => LastApiPut(i)'
        <5>1. ~ApiPut(authCommands'[n])
          BY <1>1, <2>3 DEF ApiPut
        <5>2. NoApiPut => NoApiPut'
          BY <1>1, <5>1 DEF NoApiPut
        <5>3. ASSUME NEW i \in AuthQueue, LastApiPut(i) PROVE LastApiPut(i)'
          BY <1>1, <5>1, <5>3 DEF LastApiPut
        <5> QED BY <5>2, <5>3
      <4> QED BY <1>1, <2>0, <2>3, <4>1 DEF NothingTorn, ApiWillBe
    <3>4. ASSUME NEW s \in Request PROVE LoginOK(s)'
      <4>1. CASE s = t
        BY <1>1, <1>2, <3>1, <4>1 DEF LoginOK
      <4>2. CASE s # t
        <5>1. authTask'[s].key \in 0..lastKey /\ lastKey \in Nat
          BY <1>2, <4>2, SessionTasks DEF SessionTypes
        <5>2. ~(authTask'[s].key = account'.key /\ account'.key # 0)
          BY <2>3, <5>1
        <5> QED BY <5>2 DEF LoginOK
      <4> QED BY <4>1, <4>2
    <3> QED BY <1>1, <2>0, <2>1, <2>2, <2>3, <3>2, <3>3, <3>4 DEF NothingTorn, PublishedOK
  <2>4. CASE c.what = "api"
    <3>0. /\ UNCHANGED <<account, published, outlived>> /\ c.put = apiKey' /\ a.for # "login"
      BY <2>4
    <3>1. /\ NoUserPut => NoUserPut'
          /\ \A i \in AuthQueue : LastUserPut(i) => LastUserPut(i)'
      <4>1. ~UserPut(authCommands'[n])
        BY <1>1, <2>4 DEF UserPut
      <4>2. NoUserPut => NoUserPut'
        BY <1>1, <4>1 DEF NoUserPut
      <4>3. ASSUME NEW i \in AuthQueue, LastUserPut(i) PROVE LastUserPut(i)'
        BY <1>1, <4>1, <4>3 DEF LastUserPut
      <4> QED BY <4>2, <4>3
    <3>2. UserWillBe'
      BY <1>1, <2>0, <3>0, <3>1 DEF NothingTorn, UserWillBe
    <3>3. LastApiPut(n)' /\ authCommands'[n].put = apiKey'
      BY <1>1, <2>4 DEF LastApiPut, ApiPut
    <3>4. ASSUME NEW s \in Request PROVE LoginOK(s)'
      <4>1. CASE s = t
        BY <1>2, <3>0, <4>1 DEF LoginOK
      <4>2. CASE s # t
        <5>1. LoginOK(s) /\ pc'[s] = pc[s] /\ authTask'[s] = authTask[s]
          BY <1>2, <2>0, <4>2, SessionTasks DEF NothingTorn
        <5>2. (\A i \in AuthQueue' : authCommands'[i].by # s) => \A i \in AuthQueue : authCommands[i].by # s
          BY <1>1
        <5>3. \A i \in AuthQueue : authCommands[i].by = s => i \in AuthQueue' /\ authCommands'[i].by = s
          BY <1>1
        <5> QED BY <3>0, <3>1, <5>1, <5>2, <5>3 DEF LoginOK
      <4> QED BY <4>1, <4>2
    <3>5. PublishedOK'
      BY <1>1, <2>0, <3>0, <3>1 DEF NothingTorn, PublishedOK
    <3> QED BY <1>1, <2>0, <2>1, <2>2, <3>2, <3>3, <3>4, <3>5 DEF NothingTorn, ApiWillBe
  <2> QED BY <2>3, <2>4
<1> QED BY <1>3, <1>5, <1>6 DEF SessionsServing

LEMMA UserKeySet ==
  ASSUME NEW a \in AuthUsers, NEW k \in Nat
  PROVE  [a EXCEPT !.key = k] \in AuthUsers /\ [a EXCEPT !.key = k].key = k
BY DEF AuthUsers

LEMMA SavesUserKeeps ==
  ASSUME SessionsOK, sessionUp, NEW t \in Request, Idle(t),
         NEW what \in {"user", "api"}, NEW put, NEW for, NEW key, SavesUser(t, what, put, for, key),
         account' \in AuthUsers, apiKey' \in Nat, lastKey' \in {lastKey, lastKey + 1},
         account'.key <= lastKey', key \in 0..lastKey', for = "login" => key # 0,
         UNCHANGED <<sessionUp, configured, authSeen, authDisk, authDone, authTorn, outlived, tokens,
                     oneshots, oneshotsUsed, trust, nameOf, trustedUser, vouched>>,
         published' \subseteq published, served' \subseteq served, served' \ outlived \subseteq published',
         \/ /\ what = "user" /\ put = account' /\ apiKey' = apiKey /\ published' \ outlived = {}
            /\ account'.key = 0 \/ account'.key = lastKey + 1
         \/ /\ what = "api" /\ put = apiKey' /\ for # "login"
            /\ UNCHANGED <<account, published>>
  PROVE  SessionsOK'
<1> DEFINE c == [by |-> t, do |-> "put", what |-> what, put |-> put]
           a == [for |-> for, key |-> key]
<1>1. /\ c.by = t /\ c.do = "put" /\ c.what = what /\ c.put = put /\ c \in AuthCommands
      /\ a.for = for /\ a.key = key
  BY SessionTasks DEF AuthCommands, AuthPuts
<1>2. /\ pc' = [pc EXCEPT ![t] = "saving"] /\ authTask' = [authTask EXCEPT ![t] = a]
      /\ authCommands' = Append(authCommands, c)
  BY DEF SavesUser, Goes
<1> HIDE DEF c, a
<1>3. /\ SessionTypes /\ SessionsServing /\ pc[t] = "idle" /\ t \in Task
      /\ lastKey \in Nat /\ lastKey' \in Nat /\ lastKey <= lastKey'
  BY SessionTasks DEF SessionsOK, SessionTypes, Idle
<1>4. SessionsServing'
  BY <1>1, <1>2, <1>3, PutKeeps
<1>5. PICK n \in Nat : /\ AuthQueue' = AuthQueue \cup {n} /\ authCommands'[n] = c
                       /\ \A i \in AuthQueue : authCommands'[i] = authCommands[i]
  BY <1>1, <1>2, <1>3, CommandQueued
<1>6. SessionTypes'
  <2>1. authCommands' \in Seq(AuthCommands) /\ authDone' \in Seq(AuthReplies)
    BY <1>1, <1>2, <1>3, CommandQueued DEF SessionTypes
  <2>2. ASSUME NEW i \in AuthQueue' PROVE PutIsGood(authCommands[i])'
    <3>1. CASE i = n
      BY <1>1, <1>3, <1>5, <3>1 DEF PutIsGood
    <3>2. CASE i \in AuthQueue
      <4>1. PutIsGood(authCommands[i]) /\ authCommands'[i] = authCommands[i]
        BY <1>3, <1>5, <3>2 DEF SessionTypes
      <4>2. \A k \in Nat : k <= lastKey => k <= lastKey'
        BY <1>3
      <4> QED BY <4>1, <4>2 DEF PutIsGood, AuthUsers, AuthRows
    <3> QED BY <1>5, <3>1, <3>2
  <2>3. \A s \in Task : authTask'[s].key \in 0..lastKey'
    BY <1>1, <1>2, <1>3 DEF SessionTypes
  <2>4. authSeen'.user.key <= lastKey' /\ authDisk'.user.key <= lastKey'
    BY <1>3 DEF SessionTypes, AuthRows
  <2>5. published' \subseteq 1..lastKey' /\ tokens' \subseteq 1..lastKey'
    BY <1>3 DEF SessionTypes
  <2>6. DOMAIN pc' = Task /\ DOMAIN authTask' = Task
    BY <1>2, <1>3 DEF SessionTypes
  <2> QED BY <1>3, <2>1, <2>2, <2>3, <2>4, <2>5, <2>6 DEF SessionTypes
<1>7. KeysOK'
  <2>1. served' \subseteq 1..lastKey'
    BY <1>3 DEF SessionsOK, KeysOK
  <2> QED BY <2>1 DEF SessionsOK, KeysOK
<1>8. OneshotsOK'
  BY DEF SessionsOK, OneshotsOK
<1>9. TrustOK'
  BY <1>2, <1>3 DEF SessionsOK, SessionTypes, TrustOK
<1>10. LoginsHaveKeys'
  BY <1>1, <1>2, <1>3 DEF SessionsOK, SessionTypes, LoginsHaveKeys
<1> QED BY <1>4, <1>6, <1>7, <1>8, <1>9, <1>10 DEF SessionsOK

LEMMA AsksKeep ==
  ASSUME SessionsOK, NEW t \in Request, LoginBegins(t) \/ LogoutBegins(t) \/ ApiKeyRenewed(t)
  PROVE  SessionsOK'
<1>0. /\ SessionTypes /\ KeysOK /\ account \in AuthUsers /\ apiKey \in Nat /\ lastKey \in Nat
      /\ published \subseteq 1..lastKey /\ account.key \in Nat /\ account.key <= lastKey
  BY DEF SessionsOK, SessionTypes, AuthUsers
<1>1. CASE LoginBegins(t)
  <2>0. /\ sessionUp /\ Idle(t)
        /\ UNCHANGED <<sessionUp, configured, apiKey, published, authSeen, authDisk, authDone, authTorn,
                       outlived, served, oneshots, oneshotsUsed, trust, nameOf, trustedUser, vouched>>
    BY <1>1 DEF LoginBegins, trustVars
  <2>1. CASE /\ UNCHANGED <<pc, account, lastKey, authCommands, authTask>>
             /\ (tokens' \in {tokens, tokens \cup {account.key}} /\ account.key # 0) \/ tokens' = tokens
    <3>1. tokens' \subseteq 1..lastKey'
      <4>1. tokens \subseteq 1..lastKey
        BY <1>0 DEF SessionTypes
      <4>2. account.key # 0 => account.key \in 1..lastKey
        BY <1>0
      <4>3. tokens' = tokens \/ (tokens' = tokens \cup {account.key} /\ account.key # 0)
        BY <2>1
      <4> QED BY <2>1, <4>1, <4>2, <4>3
    <3>2. SessionTypes'
      BY <1>0, <2>0, <2>1, <3>1 DEF SessionTypes, PutIsGood, AuthQueue
    <3>3. KeysOK' /\ OneshotsOK' /\ TrustOK'
      BY <2>0, <2>1 DEF SessionsOK, KeysOK, OneshotsOK, TrustOK
    <3> QED BY <2>0, <2>1, <3>2, <3>3, SessionsFrame DEF AuthTaskAside, authStore
  <2>2. CASE /\ account.key = 0 /\ lastKey' = lastKey + 1
             /\ account' = [account EXCEPT !.key = lastKey'] /\ tokens' = tokens
             /\ SavesUser(t, "user", account', "login", lastKey')
    <3>1. account' \in AuthUsers /\ account'.key = lastKey + 1 /\ lastKey' \in Nat
      BY <1>0, <2>2, UserKeySet
    <3>2. published \ outlived = {}
      BY <1>0, <2>2 DEF KeysOK
    <3>3. served' \ outlived \subseteq published'
      BY <1>0, <2>0 DEF KeysOK
    <3>4. lastKey' \in 0..lastKey' /\ lastKey' # 0
      BY <1>0, <2>2
    <3> QED BY <1>0, <2>0, <2>2, <3>1, <3>2, <3>3, <3>4, SavesUserKeeps
  <2> QED BY <1>1, <2>1, <2>2 DEF LoginBegins, KeyTaken, HasToken
<1>2. CASE LogoutBegins(t)
  <2>0. /\ sessionUp /\ Idle(t)
        /\ account' = [account EXCEPT !.key = 0] /\ SavesUser(t, "user", account', "logout", 0)
        /\ published' = published \ {account.key} /\ served' = served \ {account.key}
        /\ UNCHANGED <<sessionUp, configured, apiKey, lastKey, authSeen, authDisk, authDone, authTorn,
                       outlived, tokens, oneshots, oneshotsUsed, trust, nameOf, trustedUser, vouched>>
    BY <1>2 DEF LogoutBegins, authClients, trustVars
  <2>1. account' \in AuthUsers /\ account'.key = 0
    BY <1>0, <2>0, UserKeySet
  <2>2. published' \ outlived = {} /\ served' \ outlived \subseteq published'
    BY <1>0, <2>0 DEF KeysOK
  <2> QED BY <1>0, <2>0, <2>1, <2>2, SavesUserKeeps
<1>3. CASE ApiKeyRenewed(t)
  <2>0. /\ sessionUp /\ Idle(t) /\ lastKey' = lastKey + 1 /\ apiKey' = lastKey'
        /\ SavesUser(t, "api", apiKey', "api", 0)
        /\ UNCHANGED <<sessionUp, configured, account, published, authSeen, authDisk, authDone, authTorn,
                       outlived, served, tokens, oneshots, oneshotsUsed, trust, nameOf, trustedUser, vouched>>
    BY <1>3 DEF ApiKeyRenewed, authClients, trustVars
  <2>1. served' \ outlived \subseteq published' /\ account'.key <= lastKey'
    BY <1>0, <2>0 DEF KeysOK
  <2> QED BY <1>0, <2>0, <2>1, SavesUserKeeps
<1> QED BY <1>1, <1>2, <1>3

(* The thread does the first command. *)
LEMMA CommandTaken ==
  ASSUME SessionTypes, authCommands # <<>>, authCommands' = Tail(authCommands)
  PROVE  /\ authCommands' \in Seq(AuthCommands) /\ authCommands[1] \in AuthCommands
         /\ 1 \in AuthQueue /\ Head(authCommands) = authCommands[1] /\ AuthQueue \subseteq Nat
         /\ \A i \in AuthQueue' : i \in Nat /\ i + 1 \in AuthQueue /\ authCommands'[i] = authCommands[i + 1]
         /\ \A i \in AuthQueue : i # 1 => /\ i - 1 \in AuthQueue' /\ authCommands'[i - 1] = authCommands[i]
         /\ Len(authCommands') = Len(authCommands) - 1
<1>1. authCommands \in Seq(AuthCommands) /\ Len(authCommands) \in Nat \ {0}
  BY DEF SessionTypes
<1> QED BY <1>1 DEF AuthQueue

LEMMA ReplyGiven ==
  ASSUME SessionTypes, NEW r \in AuthReplies, authDone' = Append(authDone, r)
  PROVE  /\ authDone' \in Seq(AuthReplies)
         /\ \E n \in Nat : /\ AuthHeard' = AuthHeard \cup {n} /\ authDone'[n] = r /\ n \notin AuthHeard
                           /\ \A i \in AuthHeard : authDone'[i] = authDone[i]
<1>1. /\ authDone \in Seq(AuthReplies) /\ Len(authDone) \in Nat
      /\ authDone' \in Seq(AuthReplies) /\ Len(authDone') = Len(authDone) + 1
      /\ \A i \in AuthHeard : authDone'[i] = authDone[i]
      /\ authDone'[Len(authDone) + 1] = r
  BY DEF SessionTypes, AuthHeard
<1>2. PICK n \in Nat : n = Len(authDone) + 1
  BY <1>1
<1>3. AuthHeard' = AuthHeard \cup {n} /\ n \notin AuthHeard
  BY <1>1, <1>2 DEF AuthHeard
<1> QED BY <1>1, <1>2, <1>3

(* The command of a task is done, and it has its answer. *)
LEMMA OneEachMoves ==
  ASSUME SessionTypes, OneCommandEach, authCommands # <<>>, authCommands' = Tail(authCommands),
         NEW r \in AuthReplies, r.by = authCommands[1].by, authDone' = Append(authDone, r), pc' = pc
  PROVE  OneCommandEach'
<1>1. PICK n \in Nat : /\ AuthHeard' = AuthHeard \cup {n} /\ authDone'[n] = r /\ n \notin AuthHeard
                       /\ \A i \in AuthHeard : authDone'[i] = authDone[i]
  BY ReplyGiven
<1>2. /\ 1 \in AuthQueue /\ AuthQueue \subseteq Nat
      /\ \A i \in AuthQueue' : i \in Nat /\ i + 1 \in AuthQueue /\ authCommands'[i] = authCommands[i + 1]
  BY CommandTaken
<1>3. /\ \A i, j \in AuthQueue : authCommands[i].by = authCommands[j].by => i = j
      /\ \A i, j \in AuthHeard : authDone[i].by = authDone[j].by => i = j
      /\ \A i \in AuthQueue, j \in AuthHeard : authCommands[i].by # authDone[j].by
  BY DEF OneCommandEach
<1>4. ASSUME NEW i \in AuthQueue', NEW j \in AuthQueue', authCommands'[i].by = authCommands'[j].by
      PROVE  i = j
  <2>1. /\ i \in Nat /\ i + 1 \in AuthQueue /\ j \in Nat /\ j + 1 \in AuthQueue
        /\ authCommands[i + 1].by = authCommands[j + 1].by
    BY <1>2, <1>4
  <2>2. i + 1 = j + 1
    BY <1>3, <2>1
  <2> QED BY <2>1, <2>2
<1>5. ASSUME NEW i \in AuthQueue' PROVE authCommands'[i].by # r.by
  <2>1. i + 1 \in AuthQueue /\ i + 1 # 1 /\ authCommands'[i] = authCommands[i + 1]
    <3>1. i \in 1..Len(authCommands')
      BY DEF AuthQueue
    <3> QED BY <1>2, <3>1
  <2> QED BY <1>2, <1>3, <2>1
<1>6. ASSUME NEW i \in AuthQueue', NEW j \in AuthHeard' PROVE authCommands'[i].by # authDone'[j].by
  <2>1. CASE j = n
    BY <1>1, <1>5, <2>1
  <2>2. CASE j \in AuthHeard
    <3>1. i + 1 \in AuthQueue /\ authCommands'[i].by = authCommands[i + 1].by
      BY <1>2
    <3>2. authDone'[j].by = authDone[j].by
      BY <1>1, <2>2
    <3>3. authCommands[i + 1].by # authDone[j].by
      BY <1>3, <2>2, <3>1
    <3> QED BY <3>1, <3>2, <3>3
  <2> QED BY <1>1, <2>1, <2>2
<1>7. ASSUME NEW i \in AuthHeard', NEW j \in AuthHeard', authDone'[i].by = authDone'[j].by
      PROVE  i = j
  <2>1. CASE i \in AuthHeard /\ j \in AuthHeard
    <3>1. authDone[i].by = authDone[j].by
      BY <1>1, <1>7, <2>1
    <3> QED BY <1>3, <2>1, <3>1
  <2>2. CASE i = n /\ j = n
    BY <2>2
  <2>3. CASE (i = n /\ j \in AuthHeard) \/ (j = n /\ i \in AuthHeard)
    <3>1. \A k \in AuthHeard : authDone'[k].by # r.by
      <4>1. \A k \in AuthHeard : authCommands[1].by # authDone[k].by
        BY <1>2, <1>3
      <4> QED BY <1>1, <4>1
    <3>2. authDone'[n].by = r.by
      BY <1>1
    <3> QED BY <1>7, <2>3, <3>1, <3>2
  <2> QED BY <1>1, <2>1, <2>2, <2>3
<1>8. ASSUME NEW i \in AuthQueue'
      PROVE  /\ authCommands'[i].by \in Request /\ (authCommands'[i].do = "put" => authCommands'[i].what # "all")
             /\ pc'[authCommands'[i].by] = AuthPlace(authCommands'[i].do)
  <2>1. i + 1 \in AuthQueue /\ authCommands'[i] = authCommands[i + 1]
    BY <1>2
  <2> QED BY <2>1 DEF OneCommandEach
<1>9. ASSUME NEW i \in AuthHeard'
      PROVE  authDone'[i].by \in Request /\ pc'[authDone'[i].by] \in {"saving", "committing", "failing"}
  <2>1. CASE i = n
    <3>1. r.by \in Request /\ pc[r.by] = AuthPlace(authCommands[1].do)
      BY <1>2 DEF OneCommandEach
    <3> QED BY <1>1, <2>1, <3>1 DEF AuthPlace
  <2>2. CASE i \in AuthHeard
    BY <1>1, <2>2 DEF OneCommandEach
  <2> QED BY <1>1, <2>1, <2>2
<1> QED BY <1>4, <1>6, <1>7, <1>8, <1>9 DEF OneCommandEach

(* What a command does to the rows that the connection sees, and to the file *)
AuthDoes(c) ==
  /\ authSeen' = CASE c.do = "put" /\ c.what # "all" -> [authSeen EXCEPT ![c.what] = c.put]
                   [] c.do = "put" /\ c.what = "all" -> c.put
                   [] c.do = "rollback" -> authDisk
                   [] OTHER -> authSeen
  /\ authDisk' = IF c.do = "commit" THEN authSeen ELSE authDisk

LEMMA RowPut ==
  ASSUME SessionTypes, NEW c \in AuthCommands, AuthDoes(c), PutIsGood(c)
  PROVE  /\ c.do # "commit" => authDisk' = authDisk
         /\ c.do = "commit" => authDisk' = authSeen /\ authSeen' = authSeen
         /\ c.do = "put" /\ c.what = "all" => authSeen' = c.put
         /\ UserPut(c) => /\ authSeen'.user = c.put /\ UNCHANGED <<authSeen.api, authSeen.others>>
         /\ ApiPut(c) => /\ authSeen'.api = c.put /\ UNCHANGED <<authSeen.user, authSeen.others>>
         /\ authSeen' \in AuthRows /\ authSeen'.user.key <= lastKey
         /\ authDisk' \in AuthRows /\ authDisk'.user.key <= lastKey
<1>0. /\ authSeen \in AuthRows /\ authDisk \in AuthRows
      /\ authSeen.user.key <= lastKey /\ authDisk.user.key <= lastKey
  BY DEF SessionTypes
<1>1. CASE UserPut(c)
  <2>1. authSeen' = [authSeen EXCEPT !["user"] = c.put] /\ authDisk' = authDisk
    BY <1>1 DEF AuthDoes, UserPut
  <2>2. c.put \in AuthUsers /\ c.put.key <= lastKey
    BY <1>1 DEF UserPut, PutIsGood
  <2>3. authSeen'.user = c.put /\ UNCHANGED <<authSeen.api, authSeen.others>> /\ authSeen' \in AuthRows
    BY <1>0, <2>1, <2>2 DEF AuthRows, AuthUsers
  <2> QED BY <1>0, <1>1, <2>1, <2>2, <2>3 DEF UserPut, ApiPut
<1>2. CASE ApiPut(c)
  <2>1. authSeen' = [authSeen EXCEPT !["api"] = c.put] /\ authDisk' = authDisk
    BY <1>2 DEF AuthDoes, ApiPut
  <2>2. c.put \in Nat
    BY <1>2 DEF ApiPut, PutIsGood
  <2>3. authSeen'.api = c.put /\ UNCHANGED <<authSeen.user, authSeen.others>> /\ authSeen' \in AuthRows
    BY <1>0, <2>1, <2>2 DEF AuthRows
  <2> QED BY <1>0, <1>2, <2>1, <2>2, <2>3 DEF UserPut, ApiPut
<1>3. CASE c.do = "put" /\ c.what = "all"
  <2>1. authSeen' = c.put /\ authDisk' = authDisk
    BY <1>3 DEF AuthDoes
  <2>2. c.put \in AuthRows /\ c.put.user.key <= lastKey
    BY <1>3 DEF PutIsGood
  <2> QED BY <1>0, <1>3, <2>1, <2>2 DEF UserPut, ApiPut
<1>4. CASE c.do = "commit"
  BY <1>0, <1>4 DEF AuthDoes, UserPut, ApiPut
<1>5. CASE c.do = "rollback"
  BY <1>0, <1>5 DEF AuthDoes, UserPut, ApiPut
<1>6. c.do \in {"put", "commit", "rollback"}
  BY DEF AuthCommands
<1> QED BY <1>1, <1>2, <1>3, <1>4, <1>5, <1>6 DEF UserPut, ApiPut, PutIsGood

(* Nothing has failed: the rows will be as in memory after a command, too. *)
LEMMA NothingTornMoves ==
  ASSUME SessionTypes, OneCommandEach, NothingTorn, authCommands # <<>>, authCommands' = Tail(authCommands),
         NEW r \in AuthReplies, r.by = authCommands[1].by, r.ok, authDone' = Append(authDone, r),
         AuthDoes(authCommands[1]),
         UNCHANGED <<pc, account, apiKey, authTask, published, outlived>>
  PROVE  NothingTorn'
<1> DEFINE c == authCommands[1]
<1>1. PICK n \in Nat : /\ AuthHeard' = AuthHeard \cup {n} /\ authDone'[n] = r /\ n \notin AuthHeard
                       /\ \A i \in AuthHeard : authDone'[i] = authDone[i]
  BY ReplyGiven
<1>2. /\ c \in AuthCommands /\ 1 \in AuthQueue /\ AuthQueue \subseteq Nat
      /\ \A i \in AuthQueue' : i \in Nat /\ i + 1 \in AuthQueue /\ authCommands'[i] = authCommands[i + 1]
      /\ \A i \in AuthQueue : i # 1 => i - 1 \in AuthQueue' /\ authCommands'[i - 1] = authCommands[i]
  BY CommandTaken
<1>3. PutIsGood(c) /\ c.do # "rollback" /\ (c.do = "put" => c.what # "all") /\ pc[c.by] = AuthPlace(c.do) /\ c.by \in Request
  BY <1>2 DEF SessionTypes, NothingTorn, OneCommandEach
<1>4. AuthDoes(c) /\ r.by = c.by /\ c.do \in {"put", "commit"}
  BY <1>2, <1>3 DEF AuthCommands
<1> HIDE DEF c
<1>5. \/ UserPut(c) /\ ~ApiPut(c)
      \/ ApiPut(c) /\ ~UserPut(c)
      \/ c.do = "commit" /\ ~UserPut(c) /\ ~ApiPut(c)
  <2>1. CASE c.do = "put"
    <3>1. c.what \in {"user", "api"}
      BY <1>3, <2>1 DEF PutIsGood
    <3> QED BY <2>1, <3>1 DEF UserPut, ApiPut
  <2>2. CASE c.do = "commit"
    BY <2>2 DEF UserPut, ApiPut
  <2> QED BY <1>4, <2>1, <2>2
<1>6. /\ c.do # "commit" => authDisk' = authDisk
      /\ c.do = "commit" => authDisk' = authSeen /\ authSeen' = authSeen
      /\ UserPut(c) => /\ authSeen'.user = c.put /\ UNCHANGED <<authSeen.api, authSeen.others>>
      /\ ApiPut(c) => /\ authSeen'.api = c.put /\ UNCHANGED <<authSeen.user, authSeen.others>>
  BY <1>2, <1>3, <1>4, RowPut
<1>7. /\ NoUserPut => NoUserPut' /\ ~UserPut(c)
      /\ NoApiPut => NoApiPut' /\ ~ApiPut(c)
  BY <1>2 DEF NoUserPut, NoApiPut, c
<1>8. ASSUME NEW i \in AuthQueue, LastUserPut(i)
      PROVE  IF i = 1 THEN NoUserPut' /\ UserPut(c)
             ELSE i - 1 \in AuthQueue' /\ authCommands'[i - 1] = authCommands[i] /\ LastUserPut(i - 1)'
  <2>1. ASSUME NEW j \in AuthQueue', j + 1 > i PROVE ~UserPut(authCommands'[j])
    <3>1. j + 1 \in AuthQueue /\ authCommands'[j] = authCommands[j + 1]
      BY <1>2
    <3> QED BY <1>8, <2>1, <3>1 DEF LastUserPut
  <2>2. CASE i = 1
    <3>1. \A j \in AuthQueue' : j + 1 > 1
      BY DEF AuthQueue
    <3> QED BY <1>8, <2>1, <2>2, <3>1 DEF NoUserPut, LastUserPut, c
  <2>3. CASE i # 1
    <3>1. i - 1 \in AuthQueue' /\ authCommands'[i - 1] = authCommands[i]
      BY <1>2, <2>3
    <3>2. \A j \in AuthQueue' : j > i - 1 => j + 1 > i
      BY <1>2
    <3>3. UserPut(authCommands'[i - 1]) /\ \A j \in AuthQueue' : j > i - 1 => ~UserPut(authCommands'[j])
      BY <1>8, <2>1, <3>1, <3>2 DEF LastUserPut
    <3> QED BY <2>3, <3>1, <3>3 DEF LastUserPut
  <2> QED BY <2>2, <2>3
<1>9. ASSUME NEW i \in AuthQueue, LastApiPut(i)
      PROVE  IF i = 1 THEN NoApiPut' /\ ApiPut(c)
             ELSE i - 1 \in AuthQueue' /\ authCommands'[i - 1] = authCommands[i] /\ LastApiPut(i - 1)'
  <2>1. ASSUME NEW j \in AuthQueue', j + 1 > i PROVE ~ApiPut(authCommands'[j])
    <3>1. j + 1 \in AuthQueue /\ authCommands'[j] = authCommands[j + 1]
      BY <1>2
    <3> QED BY <1>9, <2>1, <3>1 DEF LastApiPut
  <2>2. CASE i = 1
    <3>1. \A j \in AuthQueue' : j + 1 > 1
      BY DEF AuthQueue
    <3> QED BY <1>9, <2>1, <2>2, <3>1 DEF NoApiPut, LastApiPut, c
  <2>3. CASE i # 1
    <3>1. i - 1 \in AuthQueue' /\ authCommands'[i - 1] = authCommands[i]
      BY <1>2, <2>3
    <3>2. \A j \in AuthQueue' : j > i - 1 => j + 1 > i
      BY <1>2
    <3>3. ApiPut(authCommands'[i - 1]) /\ \A j \in AuthQueue' : j > i - 1 => ~ApiPut(authCommands'[j])
      BY <1>9, <2>1, <3>1, <3>2 DEF LastApiPut
    <3> QED BY <2>3, <3>1, <3>3 DEF LastApiPut
  <2> QED BY <2>2, <2>3
<1>10. UserWillBe'
  <2>1. CASE NoUserPut /\ authSeen.user = account
    BY <1>5, <1>6, <1>7, <2>1 DEF UserWillBe
  <2>2. CASE \E i \in AuthQueue : LastUserPut(i) /\ authCommands[i].put = account
    <3>1. PICK i \in AuthQueue : LastUserPut(i) /\ authCommands[i].put = account
      BY <2>2
    <3>2. CASE i = 1
      BY <1>6, <1>8, <3>1, <3>2 DEF UserWillBe, c
    <3>3. CASE i # 1
      BY <1>8, <3>1, <3>3 DEF UserWillBe
    <3> QED BY <3>2, <3>3
  <2> QED BY <2>1, <2>2 DEF NothingTorn, UserWillBe
<1>11. ApiWillBe'
  <2>1. CASE NoApiPut /\ authSeen.api = apiKey
    BY <1>5, <1>6, <1>7, <2>1 DEF ApiWillBe
  <2>2. CASE \E i \in AuthQueue : LastApiPut(i) /\ authCommands[i].put = apiKey
    <3>1. PICK i \in AuthQueue : LastApiPut(i) /\ authCommands[i].put = apiKey
      BY <2>2
    <3>2. CASE i = 1
      BY <1>6, <1>9, <3>1, <3>2 DEF ApiWillBe, c
    <3>3. CASE i # 1
      BY <1>9, <3>1, <3>3 DEF ApiWillBe
    <3> QED BY <3>2, <3>3
  <2> QED BY <2>1, <2>2 DEF NothingTorn, ApiWillBe
<1>12. CommitComes'
  <2>1. CASE c.do = "commit"
    BY <1>6, <2>1 DEF CommitComes
  <2>2. CASE c.do = "put"
    <3>1. n \in AuthHeard' /\ authDone'[n].by = c.by
      BY <1>1, <1>4
    <3>2. pc'[c.by] = "saving"
      BY <1>3, <2>2 DEF AuthPlace
    <3> QED BY <3>1, <3>2 DEF CommitComes
  <2> QED BY <1>4, <2>1, <2>2
<1>13. ~authSeen'.others /\ ~authDisk'.others
  BY <1>4, <1>5, <1>6 DEF NothingTorn
<1>14. /\ \A i \in AuthHeard' : authDone'[i].ok
       /\ \A i \in AuthQueue' : authCommands'[i].do # "rollback"
  <2>1. \A i \in AuthHeard' : authDone'[i].ok
    BY <1>1 DEF NothingTorn
  <2>2. ASSUME NEW i \in AuthQueue' PROVE authCommands'[i].do # "rollback"
    <3>1. i + 1 \in AuthQueue /\ authCommands'[i] = authCommands[i + 1]
      BY <1>2
    <3> QED BY <3>1 DEF NothingTorn
  <2> QED BY <2>1, <2>2
<1>15. ASSUME NEW t \in Request PROVE LoginOK(t)'
  <2> SUFFICES ASSUME authTask[t].for = "login", authTask[t].key = account.key, account.key # 0
               PROVE  /\ NoUserPut' \/ \E i \in AuthQueue' : authCommands'[i].by = t /\ LastUserPut(i)'
                      /\ pc[t] = "committing" /\ (\A i \in AuthQueue' : authCommands'[i].by # t) =>
                           authDisk'.user = account
    BY DEF LoginOK
  <2>0. LoginOK(t)
    BY DEF NothingTorn
  <2>1. NoUserPut' \/ \E i \in AuthQueue' : authCommands'[i].by = t /\ LastUserPut(i)'
    <3>1. CASE NoUserPut
      BY <1>7, <3>1
    <3>2. CASE \E i \in AuthQueue : authCommands[i].by = t /\ LastUserPut(i)
      BY <1>8, <3>2
    <3> QED BY <2>0, <3>1, <3>2 DEF LoginOK
  <2>2. ASSUME pc[t] = "committing", \A i \in AuthQueue' : authCommands'[i].by # t
        PROVE  authDisk'.user = account
    <3>1. ASSUME NEW i \in AuthQueue, authCommands[i].by = t PROVE i = 1 /\ authCommands[i].do = "commit"
      BY <1>2, <2>2, <3>1 DEF OneCommandEach, AuthPlace
    <3>2. NoUserPut
      <4>1. ASSUME NEW i \in AuthQueue, authCommands[i].by = t PROVE ~LastUserPut(i)
        BY <3>1, <4>1 DEF LastUserPut, UserPut
      <4> QED BY <2>0, <4>1 DEF LoginOK
    <3>3. authSeen.user = account
      BY <3>2 DEF NothingTorn, UserWillBe, NoUserPut, LastUserPut
    <3>4. CASE c.do = "commit"
      BY <1>6, <3>3, <3>4
    <3>5. CASE c.do # "commit"
      <4>1. \A i \in AuthQueue : authCommands[i].by # t
        BY <3>1, <3>5 DEF c
      <4> QED BY <1>6, <2>0, <2>2, <3>5, <4>1 DEF LoginOK
    <3> QED BY <3>4, <3>5
  <2> QED BY <2>1, <2>2
<1>16. PublishedOK'
  <2>1. ASSUME published \ outlived # {} PROVE authDisk'.user = account /\ NoUserPut'
    <3>1. authDisk.user = account /\ NoUserPut
      BY <2>1 DEF NothingTorn, PublishedOK
    <3>2. authSeen.user = account
      BY <3>1 DEF NothingTorn, UserWillBe, NoUserPut, LastUserPut
    <3> QED BY <1>6, <1>7, <3>1, <3>2
  <2> QED BY <2>1 DEF PublishedOK
<1> QED BY <1>10, <1>11, <1>12, <1>13, <1>14, <1>15, <1>16 DEF NothingTorn

LEMMA ThreadKeeps ==
  ASSUME SessionsOK, AuthThreadWorks
  PROVE  SessionsOK'
<1> DEFINE c == Head(authCommands)
           Reply(ok) == [by |-> c.by, ok |-> ok]
<1>1. /\ authCommands # <<>> /\ authCommands' = Tail(authCommands)
      /\ UNCHANGED <<pc, sessionUp, configured, account, apiKey, lastKey, published, authTask, tokens,
                     oneshots, oneshotsUsed, trust, nameOf, trustedUser, vouched, served, outlived>>
  BY DEF AuthThreadWorks, authMemory, authClients, trustVars
<1>2. \/ authDone' = Append(authDone, Reply(TRUE)) /\ AuthDoes(c) /\ authTorn' = authTorn
      \/ /\ authDone' = Append(authDone, Reply(FALSE)) /\ c.by \in Request /\ c.do # "rollback"
         /\ authTorn' = TRUE /\ UNCHANGED <<authSeen, authDisk>>
  BY DEF AuthThreadWorks, AuthDoes
<1>3. /\ SessionTypes /\ authCommands' \in Seq(AuthCommands) /\ c = authCommands[1] /\ c \in AuthCommands
      /\ 1 \in AuthQueue /\ Len(authCommands') = Len(authCommands) - 1
      /\ \A i \in AuthQueue' : i \in Nat /\ i + 1 \in AuthQueue /\ authCommands'[i] = authCommands[i + 1]
  BY <1>1, CommandTaken DEF SessionsOK
<1>4. \A b \in BOOLEAN : Reply(b) \in AuthReplies /\ Reply(b).by = c.by /\ Reply(b).ok = b
  BY <1>3 DEF AuthReplies, AuthCommands
<1> HIDE DEF Reply
<1>5. PICK r \in AuthReplies :
        /\ authDone' = Append(authDone, r) /\ r.by = c.by
        /\ \/ AuthDoes(c) /\ authTorn' = authTorn /\ r.ok
           \/ c.by \in Request /\ authTorn' /\ authTorn' \in BOOLEAN /\ UNCHANGED <<authSeen, authDisk>>
  BY <1>2, <1>4, Zenon
<1> HIDE DEF c
<1>6. PutIsGood(c)
  BY <1>3 DEF SessionTypes
<1>7. SessionTypes'
  <2>1. /\ authSeen' \in AuthRows /\ authSeen'.user.key <= lastKey
        /\ authDisk' \in AuthRows /\ authDisk'.user.key <= lastKey
        /\ authTorn' \in BOOLEAN
    <3>1. CASE AuthDoes(c) /\ authTorn' = authTorn
      BY <1>3, <1>6, <3>1, RowPut DEF SessionTypes
    <3> QED BY <1>3, <1>5, <3>1 DEF SessionTypes
  <2>2. authDone' \in Seq(AuthReplies)
    BY <1>3, <1>5, ReplyGiven
  <2>3. ASSUME NEW i \in AuthQueue' PROVE PutIsGood(authCommands[i])'
    <3>1. authCommands'[i] = authCommands[i + 1] /\ PutIsGood(authCommands[i + 1])
      BY <1>3 DEF SessionTypes
    <3> QED BY <1>1, <3>1 DEF PutIsGood
  <2> QED BY <1>1, <1>3, <2>1, <2>2, <2>3 DEF SessionTypes
<1>8. KeysOK' /\ OneshotsOK' /\ TrustOK' /\ LoginsHaveKeys'
  BY <1>1 DEF SessionsOK, KeysOK, OneshotsOK, TrustOK, LoginsHaveKeys
<1>9. ASSUME sessionUp PROVE SessionsServing'
  <2>1. SessionsServing /\ OneCommandEach
    BY <1>9 DEF SessionsOK, SessionsServing
  <2>2. OneCommandEach'
    BY <1>1, <1>3, <1>5, <2>1, OneEachMoves
  <2>3. ASSUME ~authTorn' PROVE NothingTorn'
    <3>1. AuthDoes(c) /\ authTorn' = authTorn /\ r.ok
      BY <1>5, <2>3
    <3>2. NothingTorn
      BY <2>1, <2>3, <3>1 DEF SessionsServing
    <3> QED BY <1>1, <1>3, <1>5, <2>1, <3>1, <3>2, NothingTornMoves
  <2> QED BY <1>1, <2>1, <2>2, <2>3 DEF SessionsServing
<1>10. ASSUME ~sessionUp PROVE pc["init"] # "idle" /\ SessionsStarting'
  <2>1. SessionsStarting /\ pc["init"] # "idle"
    BY <1>1, <1>10 DEF SessionsOK, SessionsDown
  <2>2. Len(authCommands) = 1 /\ authDone = <<>> /\ c.by = "init"
    BY <1>1, <1>3, <2>1 DEF SessionsStarting
  <2>3. /\ authCommands' = <<>> /\ Len(authDone') = 1 /\ authDone'[1] = r
        /\ AuthDoes(c) /\ authTorn' = authTorn /\ r.ok /\ r.by = "init"
    BY <1>3, <1>5, <2>2, SessionTasks
  <2>4. authSeen' = AuthMemory' /\ (pc["init"] = "committing" => authDisk' = AuthMemory')
        /\ authDisk'.user.key \in {account.key, authDisk.user.key} /\ pc["init"] \in {"saving", "committing"}
    <3>1. CASE pc["init"] = "saving"
      <4>1. c.do = "put" /\ c.what = "all" /\ c.put = AuthMemory
        BY <1>3, <2>1, <2>2, <3>1 DEF SessionsStarting
      <4>2. authSeen' = AuthMemory /\ authDisk' = authDisk
        BY <1>3, <1>6, <2>3, <4>1, RowPut
      <4> QED BY <1>1, <3>1, <4>2 DEF AuthMemory
    <3>2. CASE pc["init"] = "committing"
      <4>1. c.do = "commit" /\ authSeen = AuthMemory
        BY <1>1, <1>3, <2>1, <2>2, <3>2 DEF SessionsStarting
      <4>2. authSeen' = AuthMemory /\ authDisk' = AuthMemory
        BY <1>3, <1>6, <2>3, <4>1, RowPut
      <4>3. AuthMemory.user = account
        BY DEF AuthMemory
      <4> QED BY <1>1, <3>2, <4>2, <4>3 DEF AuthMemory
    <3> QED BY <2>1, <3>1, <3>2 DEF SessionsStarting
  <2>5. served \ outlived \subseteq {authDisk'.user.key}
    BY <2>1, <2>4 DEF SessionsStarting
  <2> QED BY <1>1, <2>1, <2>3, <2>4, <2>5 DEF SessionsStarting
<1> QED BY <1>1, <1>7, <1>8, <1>9, <1>10 DEF SessionsOK

LEMMA ReplyTaken ==
  ASSUME SessionTypes, authDone # <<>>, authDone' = Tail(authDone)
  PROVE  /\ authDone' \in Seq(AuthReplies) /\ authDone[1] \in AuthReplies
         /\ 1 \in AuthHeard /\ Head(authDone) = authDone[1] /\ AuthHeard \subseteq Nat
         /\ \A i \in AuthHeard' : i \in Nat /\ i + 1 # 1 /\ i + 1 \in AuthHeard /\ authDone'[i] = authDone[i + 1]
         /\ \A i \in AuthHeard : i # 1 => i - 1 \in AuthHeard' /\ authDone'[i - 1] = authDone[i]
         /\ Len(authDone') = Len(authDone) - 1
<1>1. authDone \in Seq(AuthReplies) /\ Len(authDone) \in Nat \ {0}
  BY DEF SessionTypes
<1> QED BY <1>1 DEF AuthHeard

(* A task has heard of its command, and gives another, or none and ends. *)
LEMMA OneEachHeard ==
  ASSUME SessionTypes, OneCommandEach, authDone # <<>>, authDone' = Tail(authDone),
         NEW t \in Request, authDone[1].by = t, DOMAIN pc' = Task,
         \A s \in Task : s # t => pc'[s] = pc[s],
         \/ authCommands' = authCommands
         \/ \E c \in AuthCommands : /\ authCommands' = Append(authCommands, c) /\ c.by = t
                                    /\ c.do # "put" /\ pc'[t] = AuthPlace(c.do)
  PROVE  OneCommandEach'
<1>1. /\ 1 \in AuthHeard /\ AuthHeard \subseteq Nat
      /\ \A i \in AuthHeard' : i \in Nat /\ i + 1 # 1 /\ i + 1 \in AuthHeard /\ authDone'[i] = authDone[i + 1]
  BY ReplyTaken
<1>2. /\ \A i, j \in AuthQueue : authCommands[i].by = authCommands[j].by => i = j
      /\ \A i, j \in AuthHeard : authDone[i].by = authDone[j].by => i = j
      /\ \A i \in AuthQueue, j \in AuthHeard : authCommands[i].by # authDone[j].by
  BY DEF OneCommandEach
<1>3. ASSUME NEW i \in AuthHeard'
      PROVE  /\ authDone'[i].by # t /\ authDone'[i].by \in Request
             /\ pc'[authDone'[i].by] \in {"saving", "committing", "failing"}
  <2>1. i \in Nat /\ i + 1 # 1 /\ i + 1 \in AuthHeard /\ authDone'[i] = authDone[i + 1]
    BY <1>1
  <2>2. authDone[i + 1].by # t
    BY <1>1, <1>2, <2>1
  <2>3. authDone[i + 1].by \in Request /\ pc[authDone[i + 1].by] \in {"saving", "committing", "failing"}
    BY <2>1 DEF OneCommandEach
  <2> QED BY <2>1, <2>2, <2>3, SessionTasks
<1>4. ASSUME NEW i \in AuthHeard', NEW j \in AuthHeard', authDone'[i].by = authDone'[j].by
      PROVE  i = j
  <2>1. /\ i \in Nat /\ i + 1 \in AuthHeard /\ j \in Nat /\ j + 1 \in AuthHeard
        /\ authDone[i + 1].by = authDone[j + 1].by
    BY <1>1, <1>4
  <2>2. i + 1 = j + 1
    BY <1>2, <2>1
  <2> QED BY <2>1, <2>2
<1>5. ASSUME NEW i \in AuthQueue
      PROVE  /\ authCommands[i].by # t /\ authCommands[i].by \in Request /\ (authCommands[i].do = "put" => authCommands[i].what # "all")
             /\ pc'[authCommands[i].by] = AuthPlace(authCommands[i].do)
             /\ \A j \in AuthHeard' : authCommands[i].by # authDone'[j].by
  <2>1. authCommands[i].by # t
    BY <1>1, <1>2
  <2>2. /\ authCommands[i].by \in Request /\ (authCommands[i].do = "put" => authCommands[i].what # "all")
        /\ pc[authCommands[i].by] = AuthPlace(authCommands[i].do)
    BY DEF OneCommandEach
  <2>3. ASSUME NEW j \in AuthHeard' PROVE authCommands[i].by # authDone'[j].by
    <3>1. j + 1 \in AuthHeard /\ authDone'[j] = authDone[j + 1]
      BY <1>1
    <3>2. authCommands[i].by # authDone[j + 1].by
      BY <1>2, <3>1
    <3> QED BY <3>1, <3>2
  <2> QED BY <2>1, <2>2, <2>3, SessionTasks
<1>6. CASE authCommands' = authCommands
  <2>1. AuthQueue' = AuthQueue
    BY <1>6 DEF AuthQueue
  <2>2. /\ \A i, j \in AuthQueue' : authCommands'[i].by = authCommands'[j].by => i = j
        /\ \A i \in AuthQueue', j \in AuthHeard' : authCommands'[i].by # authDone'[j].by
        /\ \A i \in AuthQueue' : /\ authCommands'[i].by \in Request /\ (authCommands'[i].do = "put" => authCommands'[i].what # "all")
                                 /\ pc'[authCommands'[i].by] = AuthPlace(authCommands'[i].do)
    BY <1>2, <1>5, <1>6, <2>1
  <2> QED BY <1>3, <1>4, <2>2 DEF OneCommandEach
<1>7. CASE \E c \in AuthCommands : /\ authCommands' = Append(authCommands, c) /\ c.by = t
                                   /\ c.do # "put" /\ pc'[t] = AuthPlace(c.do)
  <2>1. PICK c \in AuthCommands : /\ authCommands' = Append(authCommands, c) /\ c.by = t
                                  /\ c.do # "put" /\ pc'[t] = AuthPlace(c.do)
    BY <1>7
  <2>2. PICK n \in Nat : /\ AuthQueue' = AuthQueue \cup {n} /\ authCommands'[n] = c
                         /\ \A i \in AuthQueue : authCommands'[i] = authCommands[i]
    BY <2>1, CommandQueued
  <2>3. ASSUME NEW i \in AuthQueue', NEW j \in AuthQueue', authCommands'[i].by = authCommands'[j].by
        PROVE  i = j
    <3>1. CASE i \in AuthQueue /\ j \in AuthQueue
      <4>1. authCommands[i].by = authCommands[j].by
        BY <2>2, <2>3, <3>1
      <4> QED BY <1>2, <3>1, <4>1
    <3>2. CASE i = n /\ j = n
      BY <3>2
    <3>3. CASE (i = n /\ j \in AuthQueue) \/ (j = n /\ i \in AuthQueue)
      <4>1. \A k \in AuthQueue : authCommands'[k].by # t
        BY <1>5, <2>2
      <4>2. authCommands'[n].by = t
        BY <2>1, <2>2
      <4> QED BY <2>3, <3>3, <4>1, <4>2
    <3> QED BY <2>2, <3>1, <3>2, <3>3
  <2>4. ASSUME NEW i \in AuthQueue'
        PROVE  /\ authCommands'[i].by \in Request /\ (authCommands'[i].do = "put" => authCommands'[i].what # "all")
               /\ pc'[authCommands'[i].by] = AuthPlace(authCommands'[i].do)
               /\ \A j \in AuthHeard' : authCommands'[i].by # authDone'[j].by
    <3>1. CASE i = n
      BY <1>3, <2>1, <2>2, <3>1
    <3>2. CASE i \in AuthQueue
      <4>1. authCommands'[i] = authCommands[i]
        BY <2>2, <3>2
      <4>2. /\ authCommands[i].by \in Request /\ (authCommands[i].do = "put" => authCommands[i].what # "all")
            /\ pc'[authCommands[i].by] = AuthPlace(authCommands[i].do)
            /\ \A j \in AuthHeard' : authCommands[i].by # authDone'[j].by
        BY <1>5, <3>2
      <4> QED BY <4>1, <4>2
    <3> QED BY <2>2, <3>1, <3>2
  <2> QED BY <1>3, <1>4, <2>3, <2>4 DEF OneCommandEach
<1> QED BY <1>6, <1>7

(* Nothing has failed, and a task has heard so. *)
LEMMA NothingTornHeard ==
  ASSUME SessionTypes, OneCommandEach, NothingTorn, authDone # <<>>, authDone' = Tail(authDone),
         NEW t \in Request, authDone[1].by = t, DOMAIN pc' = Task,
         \A s \in Task : s # t => pc'[s] = pc[s] /\ authTask'[s] = authTask[s],
         UNCHANGED <<account, apiKey, authSeen, authDisk>>,
         \/ /\ pc[t] = "saving" /\ pc'[t] = "committing" /\ authTask'[t] = authTask[t]
            /\ UNCHANGED <<published, outlived>>
            /\ \E c \in AuthCommands : /\ authCommands' = Append(authCommands, c) /\ c.by = t /\ c.do = "commit"
         \/ /\ pc[t] # "saving" /\ authCommands' = authCommands /\ pc'[t] = "idle" /\ authTask'[t] = NoSave
            /\ \/ published' \ outlived' \subseteq published \ outlived
               \/ /\ pc[t] = "committing" /\ authTask[t].for = "login" /\ account.key # 0
                  /\ authTask[t].key = account.key
  PROVE  NothingTorn'
<1>1. /\ 1 \in AuthHeard /\ AuthHeard \subseteq Nat
      /\ \A i \in AuthHeard' : i \in Nat /\ i + 1 # 1 /\ i + 1 \in AuthHeard /\ authDone'[i] = authDone[i + 1]
      /\ \A i \in AuthHeard : i # 1 => i - 1 \in AuthHeard' /\ authDone'[i - 1] = authDone[i]
  BY ReplyTaken
<1>2. \A i \in AuthQueue : authCommands[i].by # t
  BY <1>1 DEF OneCommandEach
<1>3. \A i \in AuthHeard' : authDone'[i].ok
  BY <1>1 DEF NothingTorn
<1>4. ASSUME NEW i \in AuthHeard, i # 1 PROVE authDone[i].by # t /\ authDone[i].by \in Task
  BY <1>1, <1>4, SessionTasks DEF OneCommandEach
<1>5. CASE authCommands' = authCommands
  <2>0. AuthQueue' = AuthQueue
    BY <1>5 DEF AuthQueue
  <2>1. /\ NoUserPut' <=> NoUserPut
        /\ \A i : LastUserPut(i)' <=> LastUserPut(i)
        /\ NoApiPut' <=> NoApiPut
        /\ \A i : LastApiPut(i)' <=> LastApiPut(i)
    BY <1>5, <2>0 DEF NoUserPut, LastUserPut, NoApiPut, LastApiPut
  <2>2. UserWillBe' /\ ApiWillBe'
    BY <1>5, <2>0, <2>1 DEF NothingTorn, UserWillBe, ApiWillBe
  <2>3. pc[t] # "saving"
    <3>1. ASSUME NEW c \in AuthCommands PROVE authCommands # Append(authCommands, c)
      <4>1. authCommands \in Seq(AuthCommands) /\ Len(Append(authCommands, c)) = Len(authCommands) + 1
        BY DEF SessionTypes
      <4> QED BY <4>1
    <3> QED BY <1>5, <3>1
  <2>4. CommitComes'
    <3>1. ASSUME NEW i \in AuthHeard, pc[authDone[i].by] = "saving"
          PROVE  i - 1 \in AuthHeard' /\ pc'[authDone'[i - 1].by] = "saving"
      <4>1. i # 1
        BY <2>3, <3>1
      <4> QED BY <1>1, <1>4, <3>1, <4>1
    <3>2. CASE authSeen = authDisk
      BY <3>2 DEF CommitComes
    <3>3. CASE \E i \in AuthQueue : authCommands[i].do = "commit"
      BY <1>5, <2>0, <3>3 DEF CommitComes
    <3> QED BY <3>1, <3>2, <3>3 DEF NothingTorn, CommitComes
  <2>5. ASSUME NEW s \in Request PROVE LoginOK(s)'
    <3>1. CASE s = t
      <4>1. authTask'[s].key = 0
        BY <2>3, <3>1 DEF NoSave
      <4> QED BY <4>1 DEF LoginOK
    <3>2. CASE s # t
      <4>1. LoginOK(s) /\ pc'[s] = pc[s] /\ authTask'[s] = authTask[s]
        BY <3>2, SessionTasks DEF NothingTorn
      <4> QED BY <1>5, <2>0, <2>1, <4>1 DEF LoginOK
    <3> QED BY <3>1, <3>2
  <2>6. PublishedOK'
    <3>1. ASSUME published \ outlived # {} PROVE PublishedOK'
      BY <2>1, <3>1 DEF NothingTorn, PublishedOK
    <3>2. CASE /\ pc[t] = "committing" /\ authTask[t].for = "login" /\ account.key # 0
               /\ authTask[t].key = account.key
      <4>1. LoginOK(t)
        BY DEF NothingTorn
      <4>2. authDisk.user = account /\ NoUserPut
        BY <1>2, <3>2, <4>1 DEF LoginOK
      <4> QED BY <2>1, <4>2 DEF PublishedOK
    <3>3. CASE published' \ outlived' \subseteq published \ outlived
      BY <3>1, <3>3 DEF PublishedOK
    <3> QED BY <2>3, <3>2, <3>3
  <2>7. (\A i \in AuthQueue' : authCommands'[i].do # "rollback") /\ ~authSeen'.others /\ ~authDisk'.others
    BY <1>5, <2>0 DEF NothingTorn
  <2> QED BY <1>3, <2>2, <2>4, <2>5, <2>6, <2>7 DEF NothingTorn
<1>6. CASE /\ pc'[t] = "committing" /\ authTask'[t] = authTask[t]
           /\ UNCHANGED <<published, outlived>>
           /\ \E c \in AuthCommands : /\ authCommands' = Append(authCommands, c) /\ c.by = t /\ c.do = "commit"
  <2>1. PICK c \in AuthCommands : /\ authCommands' = Append(authCommands, c) /\ c.by = t /\ c.do = "commit"
    BY <1>6
  <2>2. PICK n \in Nat : /\ AuthQueue' = AuthQueue \cup {n} /\ authCommands'[n] = c
                         /\ \A i \in AuthQueue : authCommands'[i] = authCommands[i] /\ i < n
    BY <2>1, CommandQueued
  <2>3. ~UserPut(c) /\ ~ApiPut(c)
    BY <2>1 DEF UserPut, ApiPut
  <2>4. /\ NoUserPut => NoUserPut'
        /\ NoApiPut => NoApiPut'
    BY <2>2, <2>3 DEF NoUserPut, NoApiPut
  <2>5. ASSUME NEW i \in AuthQueue, LastUserPut(i) PROVE LastUserPut(i)'
    BY <2>2, <2>3, <2>5 DEF LastUserPut
  <2>6. ASSUME NEW i \in AuthQueue, LastApiPut(i) PROVE LastApiPut(i)'
    BY <2>2, <2>3, <2>6 DEF LastApiPut
  <2>7. UserWillBe' /\ ApiWillBe'
    BY <2>2, <2>4, <2>5, <2>6 DEF NothingTorn, UserWillBe, ApiWillBe
  <2>8. CommitComes'
    BY <2>1, <2>2 DEF CommitComes
  <2>9. ASSUME NEW s \in Request PROVE LoginOK(s)'
    <3>1. LoginOK(s) /\ authTask'[s] = authTask[s]
      BY <1>6, SessionTasks DEF NothingTorn
    <3>2. (NoUserPut \/ \E i \in AuthQueue : authCommands[i].by = s /\ LastUserPut(i)) =>
            NoUserPut' \/ \E i \in AuthQueue' : authCommands'[i].by = s /\ LastUserPut(i)'
      BY <2>2, <2>4, <2>5
    <3>3. pc'[s] = "committing" /\ (\A i \in AuthQueue' : authCommands'[i].by # s) =>
            pc[s] = "committing" /\ \A i \in AuthQueue : authCommands[i].by # s
      <4>1. CASE s = t
        <5>1. n \in AuthQueue' /\ authCommands'[n].by = s
          BY <2>1, <2>2, <4>1
        <5> QED BY <5>1
      <4>2. CASE s # t
        BY <2>2, <4>2, SessionTasks
      <4> QED BY <4>1, <4>2
    <3> QED BY <3>1, <3>2, <3>3 DEF LoginOK
  <2>10. PublishedOK'
    BY <1>6, <2>4 DEF NothingTorn, PublishedOK
  <2>11. (\A i \in AuthQueue' : authCommands'[i].do # "rollback") /\ ~authSeen'.others /\ ~authDisk'.others
    BY <2>1, <2>2 DEF NothingTorn
  <2> QED BY <1>3, <2>7, <2>8, <2>9, <2>10, <2>11 DEF NothingTorn
<1> QED BY <1>5, <1>6

LEMMA SaveAnsweredKeeps ==
  ASSUME SessionsOK, NEW t \in Request \cup {"init"}, SaveAnswered(t)
  PROVE  SessionsOK'
<1> DEFINE ok == Head(authDone).ok
           do == IF ok THEN "commit" ELSE "rollback"
           c == [by |-> t, do |-> do, what |-> None, put |-> 0]
<1>1. /\ authDone # <<>> /\ authDone' = Tail(authDone) /\ Head(authDone).by = t /\ t \in Task
      /\ UNCHANGED <<configured, account, apiKey, lastKey, authSeen, authDisk, oneshots, oneshotsUsed,
                     trust, nameOf, trustedUser, vouched, authTorn, served>>
      /\ sessionUp' = (sessionUp \/ (t = "init" /\ pc[t] = "committing"))
  BY SessionTasks DEF SaveAnswered, trustVars
<1>2. /\ SessionTypes /\ authDone' \in Seq(AuthReplies) /\ authDone[1].by = t /\ authDone[1].ok = ok
      /\ 1 \in AuthHeard /\ DOMAIN pc = Task /\ DOMAIN authTask = Task /\ ok \in BOOLEAN
      /\ sessionUp \in BOOLEAN /\ Len(authDone') = Len(authDone) - 1
  BY <1>1, ReplyTaken DEF SessionsOK, SessionTypes, AuthReplies
<1>3. /\ c \in AuthCommands /\ c.by = t /\ c.do = do /\ do \in {"commit", "rollback"}
      /\ (do = "commit") <=> ok
  BY <1>1 DEF AuthCommands, AuthPuts
<1>4. ASSUME pc[t] = "saving"
      PROVE  /\ pc' = [pc EXCEPT ![t] = AuthPlace(do)] /\ authCommands' = Append(authCommands, c)
             /\ UNCHANGED <<authTask, published, outlived, tokens>>
  BY <1>1, <1>4 DEF SaveAnswered, Goes, AuthCommand, AuthPlace
<1>5. ASSUME pc[t] # "saving"
      PROVE  /\ pc' = [pc EXCEPT ![t] = "idle"] /\ authCommands' = authCommands
             /\ authTask' = [authTask EXCEPT ![t] = NoSave]
             /\ \/ /\ pc[t] = "committing" /\ authTask[t].for = "login"
                   /\ KeyPublished(authTask[t].key) /\ tokens' = tokens \cup {authTask[t].key}
                \/ UNCHANGED <<published, outlived, tokens>>
  BY <1>1, <1>5 DEF SaveAnswered, SaveEnds, Goes, HasToken
<1> HIDE DEF c, ok, do
<1>6. /\ \A s \in Task : s # t => pc'[s] = pc[s] /\ authTask'[s] = authTask[s]
      /\ pc[t] = "saving" => pc'[t] = AuthPlace(do) /\ authTask'[t] = authTask[t]
      /\ pc[t] # "saving" => pc'[t] = "idle" /\ authTask'[t] = NoSave
      /\ DOMAIN pc' = Task /\ DOMAIN authTask' = Task
  BY <1>1, <1>2, <1>4, <1>5
<1>7. NoSave.key = 0 /\ NoSave.for = None
  BY DEF NoSave
<1>8. sessionUp => t \in Request
  BY <1>2 DEF SessionsOK, SessionsServing, OneCommandEach
<1>20. ASSUME pc[t] # "saving", authTask[t].for = "login", pc[t] = "committing"
       PROVE  sessionUp /\ pc[t] # "idle" /\ authTask[t].key \in 1..lastKey /\ t \in Request
  (* An init's save is no login, and a login has a key. *)
  <2>1. sessionUp
    <3>1. CASE ~sessionUp
      <4>1. pc["init"] # "idle" /\ SessionsStarting
        BY <1>1, <1>20, <3>1 DEF SessionsOK, SessionsDown
      <4>2. t = "init"
        BY <1>1, <1>20, <4>1 DEF SessionsStarting
      <4> QED BY <1>20, <4>1, <4>2 DEF SessionsStarting
    <3> QED BY <3>1
  <2>2. authTask[t].key \in 0..lastKey /\ authTask[t].key # 0 /\ lastKey \in Nat
    BY <1>1, <1>2, <1>20 DEF SessionTypes, SessionsOK, LoginsHaveKeys
  <2> QED BY <1>8, <1>20, <2>1, <2>2
<1>9. SessionTypes'
  <2>1. authCommands' \in Seq(AuthCommands) /\ \A i \in AuthQueue' : PutIsGood(authCommands[i])'
    <3>1. CASE pc[t] = "saving"
      <4>1. PICK n \in Nat : /\ AuthQueue' = AuthQueue \cup {n} /\ authCommands'[n] = c
                             /\ \A i \in AuthQueue : authCommands'[i] = authCommands[i]
        BY <1>2, <1>3, <1>4, <3>1, CommandQueued
      <4>2. authCommands' \in Seq(AuthCommands)
        BY <1>2, <1>3, <1>4, <3>1, CommandQueued
      <4>3. ASSUME NEW i \in AuthQueue' PROVE PutIsGood(authCommands[i])'
        <5>1. CASE i = n
          <6>1. authCommands'[i].do # "put"
            BY <1>3, <4>1, <5>1
          <6> QED BY <6>1 DEF PutIsGood
        <5>2. CASE i \in AuthQueue
          <6>1. PutIsGood(authCommands[i]) /\ authCommands'[i] = authCommands[i]
            BY <1>2, <4>1, <5>2 DEF SessionTypes
          <6> QED BY <1>1, <6>1 DEF PutIsGood
        <5> QED BY <4>1, <5>1, <5>2
      <4> QED BY <4>2, <4>3
    <3>2. CASE pc[t] # "saving"
      BY <1>1, <1>2, <1>5, <3>2 DEF SessionTypes, PutIsGood, AuthQueue
    <3> QED BY <3>1, <3>2
  <2>2. published' \subseteq 1..lastKey /\ tokens' \subseteq 1..lastKey
    <3>1. CASE pc[t] = "saving"
      BY <1>2, <1>4, <3>1 DEF SessionTypes
    <3>2. CASE pc[t] # "saving"
      BY <1>2, <1>5, <1>20, <3>2 DEF SessionTypes, KeyPublished
    <3> QED BY <3>1, <3>2
  <2>3. \A s \in Task : authTask'[s].key \in 0..lastKey
    BY <1>2, <1>6, <1>7 DEF SessionTypes
  <2>4. sessionUp' \in BOOLEAN
    BY <1>1, Zenon
  <2> QED BY <1>1, <1>2, <1>6, <2>1, <2>2, <2>3, <2>4 DEF SessionTypes
<1>10. /\ published \subseteq published' /\ outlived \subseteq outlived'
       /\ \/ published' \ outlived' \subseteq published \ outlived
          \/ /\ published' \ outlived' \subseteq (published \ outlived) \cup {account.key}
             /\ pc[t] = "committing" /\ authTask[t].for = "login" /\ account.key # 0
             /\ authTask[t].key = account.key
  <2>1. CASE UNCHANGED <<published, outlived>>
    BY <2>1
  <2>2. CASE pc[t] # "saving" /\ pc[t] = "committing" /\ authTask[t].for = "login" /\ KeyPublished(authTask[t].key)
    BY <1>20, <2>2 DEF KeyPublished
  <2> QED BY <1>4, <1>5, <2>1, <2>2
<1>11. OneshotsOK' /\ TrustOK' /\ LoginsHaveKeys'
  <2>1. AuthPlace(do) \notin {"idle", "naming"}
    BY <1>3 DEF AuthPlace
  <2>2. OneshotsOK'
    BY <1>1 DEF SessionsOK, OneshotsOK
  <2>3. TrustOK'
    BY <1>1, <1>6, <2>1 DEF SessionsOK, TrustOK
  <2>4. LoginsHaveKeys'
    BY <1>6, <2>1 DEF SessionsOK, LoginsHaveKeys
  <2> QED BY <2>2, <2>3, <2>4
<1>12. CASE sessionUp
  <2>1. t \in Request /\ sessionUp' /\ SessionsServing /\ OneCommandEach
    BY <1>1, <1>8, <1>12 DEF SessionsOK, SessionsServing
  <2>2. KeysOK'
    BY <1>1, <1>10, <1>12 DEF SessionsOK, KeysOK
  <2>3. OneCommandEach'
    <3>1. CASE pc[t] = "saving"
      <4>1. c.do # "put" /\ pc'[t] = AuthPlace(c.do)
        BY <1>3, <1>6, <3>1
      <4> QED BY <1>1, <1>2, <1>3, <1>4, <1>6, <2>1, <3>1, <4>1, OneEachHeard
    <3>2. CASE pc[t] # "saving"
      BY <1>1, <1>2, <1>5, <1>6, <2>1, <3>2, OneEachHeard
    <3> QED BY <3>1, <3>2
  <2>4. ASSUME ~authTorn PROVE NothingTorn'
    <3>0. NothingTorn /\ ok
      BY <1>2, <2>1, <2>4 DEF SessionsServing, NothingTorn
    <3>1. CASE pc[t] = "saving"
      <4>1. pc'[t] = "committing" /\ c.do = "commit"
        BY <1>3, <1>6, <3>0, <3>1 DEF AuthPlace
      <4> QED BY <1>1, <1>2, <1>3, <1>4, <1>6, <2>1, <3>0, <3>1, <4>1, NothingTornHeard
    <3>2. CASE pc[t] # "saving"
      BY <1>1, <1>2, <1>5, <1>6, <1>10, <2>1, <3>0, <3>2, NothingTornHeard
    <3> QED BY <3>1, <3>2
  <2>5. \A s \in Task \ Request : pc'[s] = "idle"
    BY <1>6, <2>1 DEF SessionsServing
  <2> QED BY <1>1, <1>9, <1>11, <2>1, <2>2, <2>3, <2>4, <2>5 DEF SessionsOK, SessionsServing
<1>13. CASE ~sessionUp
  <2>1. SessionsStarting /\ pc["init"] # "idle"
    BY <1>1, <1>13 DEF SessionsOK, SessionsDown
  <2>2. /\ t = "init" /\ Len(authDone) = 1 /\ authCommands = <<>> /\ ok /\ authSeen = AuthMemory
        /\ pc[t] \in {"saving", "committing"} /\ (pc[t] = "committing" => authDisk = AuthMemory)
        /\ authTask[t].for = "start"
    BY <1>1, <1>2, <2>1 DEF SessionsStarting
  <2>3. authDone' = <<>> /\ UNCHANGED <<published, outlived, tokens>> /\ AuthMemory' = AuthMemory
    <3>1. authDone' = <<>>
      BY <1>2, <2>2
    <3>2. UNCHANGED <<published, outlived, tokens>>
      BY <1>4, <1>5, <2>2
    <3> QED BY <1>1, <3>1, <3>2 DEF AuthMemory
  <2>4. CASE pc[t] = "saving"
    <3>0. do = "commit" /\ AuthPlace(do) = "committing"
      BY <1>3, <2>2 DEF AuthPlace
    <3>4. Len(authCommands') = 1 /\ authCommands'[1] = c
      BY <1>3, <1>4, <2>2, <2>4
    <3>5. ~sessionUp'
      BY <1>1, <1>13, <2>4, Zenon
    <3>1. /\ pc'["init"] = "committing" /\ authTask'["init"] = authTask["init"]
          /\ Len(authCommands') = 1 /\ authCommands'[1] = c /\ c.do = "commit" /\ c.by = "init" /\ ~sessionUp'
      BY <1>3, <1>6, <2>2, <2>4, <3>0, <3>4, <3>5
    <3>2. SessionsStarting'
      BY <1>1, <1>6, <2>1, <2>2, <2>3, <3>1 DEF SessionsStarting
    <3>3. KeysOK'
      BY <1>1, <2>3, <3>1 DEF SessionsOK, KeysOK
    <3> QED BY <1>9, <1>11, <3>1, <3>2, <3>3 DEF SessionsOK
  <2>5. CASE pc[t] = "committing"
    <3>1. /\ pc'["init"] = "idle" /\ authCommands' = <<>> /\ sessionUp' /\ \A s \in Task : pc'[s] = "idle"
      BY <1>1, <1>5, <1>6, <2>1, <2>2, <2>5 DEF SessionsStarting
    <3>2. AuthQueue' = {} /\ AuthHeard' = {}
      BY <2>3, <3>1 DEF AuthQueue, AuthHeard
    <3>3. OneCommandEach'
      BY <3>2 DEF OneCommandEach
    <3>4. authSeen'.user = account' /\ authSeen'.api = apiKey' /\ ~authSeen'.others
          /\ authDisk' = authSeen' /\ authDisk'.user = account'
      BY <1>1, <2>2, <2>5 DEF AuthMemory
    <3>5. NothingTorn'
      BY <3>1, <3>2, <3>4, SessionTasks DEF NothingTorn, UserWillBe, ApiWillBe, NoUserPut, NoApiPut, CommitComes,
         LoginOK, PublishedOK
    <3>6. KeysOK'
      <4>1. served \ outlived \subseteq published
        BY <2>1 DEF SessionsStarting, SessionsOK, KeysOK
      <4> QED BY <1>1, <2>3, <4>1 DEF SessionsOK, KeysOK
    <3> QED BY <1>9, <1>11, <3>1, <3>3, <3>5, <3>6 DEF SessionsOK, SessionsServing
  <2> QED BY <2>2, <2>4, <2>5
<1> QED BY <1>2, <1>12, <1>13

(* component_init: the key of the database is published, and all is written anew. *)
LEMMA SessionsStartKeeps ==
  ASSUME SessionsOK, SessionsStart
  PROVE  SessionsOK'
<1> DEFINE put == [user |-> account', api |-> apiKey', others |-> FALSE]
           c == [by |-> "init", do |-> "put", what |-> "all", put |-> put]
           a == [for |-> "start", key |-> 0]
<1>1. /\ ~sessionUp /\ pc["init"] = "idle"
      /\ published' = {account'.key} \ {0}
      /\ served' = (IF authTorn \/ PasswordChanged(authDisk) THEN {} ELSE served) /\ authTorn' = FALSE
      /\ UNCHANGED <<sessionUp, configured, authSeen, authDisk, authDone, tokens, oneshots, oneshotsUsed,
                     trust, nameOf, trustedUser, vouched, outlived>>
      /\ pc' = [pc EXCEPT !["init"] = "saving"] /\ authTask' = [authTask EXCEPT !["init"] = a]
      /\ authCommands' = Append(authCommands, c)
  BY DEF SessionsStart, Idle, authClients, trustVars, AllSaved, SavesUser, Goes
<1>2. /\ apiKey' = (IF authDisk.api = 0 THEN lastKey + 1 ELSE authDisk.api)
      /\ lastKey' = (IF authDisk.api = 0 THEN apiKey' ELSE lastKey)
      /\ account' = [password |-> configured,
                     key |-> IF PasswordChanged(authDisk) THEN 0 ELSE authDisk.user.key]
  BY DEF SessionsStart, ApiKeyLoaded
<1>3. SessionTypes /\ SessionsDown /\ authDisk \in AuthRows /\ lastKey \in Nat /\ configured \in Password
      /\ authDisk.user.key <= lastKey /\ authDisk.user.key \in Nat /\ authDisk.api \in Nat
  BY <1>1 DEF SessionsOK, SessionTypes, AuthRows
<1>4. /\ account' \in AuthUsers /\ account'.key \in {0, authDisk.user.key}
      /\ PasswordChanged(authDisk) \/ account'.key = authDisk.user.key
  <2>1. \A k \in Nat : LET r == [password |-> configured, key |-> k]
                       IN  r \in AuthUsers /\ r.key = k
    BY <1>3 DEF AuthUsers
  <2>2. PICK k \in Nat : /\ k = (IF PasswordChanged(authDisk) THEN 0 ELSE authDisk.user.key)
                         /\ account' = [password |-> configured, key |-> k]
    BY <1>2, <1>3
  <2> QED BY <2>1, <2>2
<1>5. /\ apiKey' \in Nat /\ lastKey' \in Nat /\ lastKey <= lastKey' /\ account'.key <= lastKey'
      /\ authDisk.user.key <= lastKey' /\ account'.key \in Nat
  BY <1>2, <1>3, <1>4
<1>6. put \in AuthRows /\ put.user = account' /\ put = AuthMemory'
  <2>1. \A b \in BOOLEAN : LET r == [user |-> account', api |-> apiKey', others |-> b]
                           IN r \in AuthRows /\ r.user = account'
    BY <1>4, <1>5 DEF AuthRows, AuthUsers
  <2>2. put \in AuthRows /\ put.user = account'
    BY <2>1, Zenon
  <2> QED BY <2>2 DEF AuthMemory
<1> HIDE DEF put
<1>7. c \in AuthCommands /\ c.by = "init" /\ c.do = "put" /\ c.what = "all" /\ c.put = put
  BY <1>6, SessionTasks DEF AuthCommands, AuthPuts
<1>8. a.for = "start" /\ a.key = 0
  OBVIOUS
<1> HIDE DEF c, a
<1>9. /\ authCommands = <<>> /\ authDone' = <<>> /\ Len(authCommands') = 1 /\ authCommands'[1] = c
      /\ authCommands' \in Seq(AuthCommands) /\ AuthQueue' = {1}
  <2>1. authCommands = <<>> /\ authDone' = <<>>
    BY <1>1, <1>3 DEF SessionsDown
  <2>2. authCommands' = <<c>>
    BY <1>1, <2>1
  <2> QED BY <1>7, <2>1, <2>2 DEF AuthQueue
<1>10. /\ pc'["init"] = "saving" /\ authTask'["init"] = a /\ DOMAIN pc' = Task /\ DOMAIN authTask' = Task
       /\ \A s \in Task : s # "init" => pc'[s] = pc[s] /\ authTask'[s] = authTask[s]
  BY <1>1, <1>3, SessionTasks DEF SessionTypes
<1>11. SessionTypes'
  <2>1. \A i \in AuthQueue' : PutIsGood(authCommands[i])'
    BY <1>5, <1>6, <1>7, <1>9 DEF PutIsGood
  <2>2. \A s \in Task : authTask'[s].key \in 0..lastKey'
    BY <1>3, <1>5, <1>8, <1>10 DEF SessionTypes
  <2>3. authTorn' \in BOOLEAN /\ sessionUp' \in BOOLEAN
    BY <1>1, <1>3, Zenon DEF SessionTypes
  <2>4. published' \subseteq 1..lastKey' /\ tokens' \subseteq 1..lastKey'
    BY <1>1, <1>3, <1>5 DEF SessionTypes
  <2>5. authSeen' \in AuthRows /\ authDisk' \in AuthRows
        /\ authSeen'.user.key <= lastKey' /\ authDisk'.user.key <= lastKey'
    BY <1>1, <1>3, <1>5 DEF SessionsDown
  <2>6. authDone' \in Seq(AuthReplies)
    BY <1>9
  <2> QED BY <1>1, <1>3, <1>4, <1>5, <1>9, <1>10, <2>1, <2>2, <2>3, <2>4, <2>5, <2>6 DEF SessionTypes
<1>12. served' \ outlived \subseteq {account'.key} /\ served' \ outlived \subseteq {authDisk.user.key}
       /\ served' \subseteq served
  BY <1>1, <1>3, <1>4 DEF SessionsDown
<1>13. KeysOK'
  <2>1. served' \subseteq 1..lastKey'
    BY <1>3, <1>5, <1>12 DEF SessionsOK, KeysOK
  <2>2. ~sessionUp'
    BY <1>1, Zenon
  <2> QED BY <1>1, <2>1, <2>2 DEF KeysOK
<1>14. OneshotsOK' /\ TrustOK' /\ LoginsHaveKeys'
  <2>1. TrustOK'
    BY <1>1, <1>10 DEF SessionsOK, TrustOK
  <2>2. LoginsHaveKeys'
    BY <1>8, <1>10 DEF SessionsOK, LoginsHaveKeys
  <2> QED BY <1>1, <2>1, <2>2 DEF SessionsOK, OneshotsOK
<1>15. SessionsStarting'
  <2>1. \A t \in Task \ {"init"} : pc'[t] = "idle"
    BY <1>3, <1>10 DEF SessionsDown
  <2>2. ~authTorn'
    BY <1>1, Zenon
  <2> QED BY <1>1, <1>6, <1>7, <1>8, <1>9, <1>10, <1>12, <2>1, <2>2 DEF SessionsStarting
<1>16. ~sessionUp' /\ pc'["init"] # "idle"
  BY <1>1, <1>10, Zenon
<1> QED BY <1>11, <1>13, <1>14, <1>15, <1>16 DEF SessionsOK

LEMMA SessionsCrashKeeps ==
  ASSUME SessionsOK, SessionsCrash
  PROVE  SessionsOK'
<1>1. /\ sessionUp' = FALSE /\ pc' = [t \in Task |-> "idle"] /\ authTask' = [t \in Task |-> NoSave]
      /\ account' = NoAccount /\ apiKey' = 0 /\ published' = {}
      /\ authSeen' = authDisk /\ authCommands' = <<>> /\ authDone' = <<>> /\ oneshots' = {}
      /\ nameOf' = "unknown" /\ trustedUser' = FALSE
      /\ UNCHANGED <<trust, configured, lastKey, authDisk, tokens, authTorn, served, outlived>>
  BY DEF SessionsCrash
<1>2. NoAccount \in AuthUsers /\ NoAccount.key = 0 /\ NoSave.key = 0
  BY DEF NoAccount, NoSave, AuthUsers, Password
<1>3. SessionTypes'
  <2>1. authCommands' \in Seq(AuthCommands) /\ authDone' \in Seq(AuthReplies) /\ AuthQueue' = {}
    BY <1>1 DEF AuthQueue
  <2>2. sessionUp' \in BOOLEAN /\ authTorn' \in BOOLEAN
    BY <1>1, Zenon DEF SessionsOK, SessionTypes
  <2>3. \A t \in Task : authTask'[t].key \in 0..lastKey'
    BY <1>1, <1>2 DEF SessionsOK, SessionTypes
  <2>4. apiKey' \in Nat /\ account'.key <= lastKey'
    BY <1>1, <1>2 DEF SessionsOK, SessionTypes
  <2>5. DOMAIN pc' = Task /\ DOMAIN authTask' = Task
    BY <1>1
  <2> QED BY <1>1, <1>2, <2>1, <2>2, <2>3, <2>4, <2>5 DEF SessionsOK, SessionTypes
<1>4. ~sessionUp' /\ \A t \in Task : pc'[t] = "idle"
  BY <1>1
<1>5. KeysOK' /\ OneshotsOK' /\ TrustOK' /\ LoginsHaveKeys'
  <2>1. KeysOK'
    BY <1>1, <1>4 DEF SessionsOK, KeysOK
  <2>2. OneshotsOK' /\ LoginsHaveKeys'
    BY <1>1, <1>4 DEF OneshotsOK, LoginsHaveKeys
  <2>3. ~trustedUser'
    BY <1>1, Zenon
  <2>4. TrustOK'
    BY <1>1, <1>4, <2>3 DEF SessionsOK, TrustOK
  <2> QED BY <2>1, <2>2, <2>4
<1>6. ~authTorn => served \ outlived \subseteq {authDisk.user.key}
  <2>1. CASE sessionUp
    <3>1. ASSUME ~authTorn, served \ outlived # {} PROVE served \ outlived \subseteq {authDisk.user.key}
      <4>1. NothingTorn /\ KeysOK /\ served \ outlived \subseteq published \ outlived
        BY <2>1, <3>1 DEF SessionsOK, SessionsServing, KeysOK
      <4>2. authDisk.user = account
        BY <3>1, <4>1 DEF NothingTorn, PublishedOK
      <4> QED BY <4>1, <4>2 DEF KeysOK
    <3> QED BY <3>1
  <2>2. CASE ~sessionUp
    BY <2>2 DEF SessionsOK, SessionsDown, SessionsStarting
  <2> QED BY <2>1, <2>2
<1>7. SessionsDown'
  BY <1>1, <1>4, <1>6 DEF SessionsDown
<1> QED BY <1>3, <1>4, <1>5, <1>7, SessionTasks DEF SessionsOK

LEMMA SessionsKeep ==
  ASSUME SessionsOK, SessionsNext
  PROVE  SessionsOK'
<1>1. CASE AuthThreadWorks
  BY <1>1, ThreadKeeps
<1>2. CASE SessionsStart \/ SessionsCrash
  BY <1>2, SessionsStartKeeps, SessionsCrashKeeps
<1>3. CASE PasswordEdited \/ TokenAccepted \/ TokenRefreshed \/ \E t \in Request : OneshotGiven(t) \/ OneshotPopped(t)
  BY <1>3, TokensKeep
<1>4. CASE \E t \in Request : RequestByAddress(t) \/ OriginChecked(t) \/ NameAnswered(t)
  BY <1>4, AddressStepsKeep
<1>5. CASE \E t \in Request : LoginBegins(t) \/ LogoutBegins(t) \/ ApiKeyRenewed(t)
  BY <1>5, AsksKeep
<1>6. CASE \E t \in Request \cup {"init"} : SaveAnswered(t)
  BY <1>6, SaveAnsweredKeeps
<1>7. CASE AddressPruned
  BY <1>7, AddressPrunedKeeps
<1> QED BY <1>1, <1>2, <1>3, <1>4, <1>5, <1>6, <1>7 DEF SessionsNext

LEMMA SessionsRest ==
  ASSUME SessionsOK, UNCHANGED <<pc, sessionVars>>
  PROVE  SessionsOK'
<1>1. UNCHANGED <<pc, authTask, sessionUp, configured, account, apiKey, lastKey, published, authSeen, authDisk,
                  authCommands, authDone, authTorn, tokens, oneshots, oneshotsUsed, outlived, served, trust,
                  nameOf, trustedUser, vouched>>
  BY DEF sessionVars, authMemory, authStore, authClients, trustVars
<1>2. SessionTypes'
  BY <1>1 DEF SessionsOK, SessionTypes, PutIsGood, AuthQueue
<1>3. KeysOK' /\ OneshotsOK' /\ TrustOK'
  BY <1>1 DEF SessionsOK, KeysOK, OneshotsOK, TrustOK
<1> QED BY <1>1, <1>2, <1>3, SessionsFrame DEF AuthTaskAside, authStore

(***************************************************************************)
(* MQTT: when the broker has read what is on its way, it has the levels of  *)
(* the topics somebody listens to.                                           *)
(***************************************************************************)
Packets == [op : {"subscribe", "unsubscribe", "publish"}, levels : [Topic -> 0..2], by : SUBSET Request]

Concerns(packet, p) == packet.levels[p] # 0
Makes(packet, p) == IF packet.op = "subscribe" THEN packet.levels[p] ELSE 0
LastAbout(w, i, p) == Concerns(w[i], p) /\ \A j \in 1..Len(w) : j > i => ~Concerns(w[j], p)

(* The level of p at the broker when it has read w, from b *)
LevelWillBe(w, b, p, v) ==
  \/ (\A i \in 1..Len(w) : ~Concerns(w[i], p)) /\ b[p] = v
  \/ \E i \in 1..Len(w) : LastAbout(w, i, p) /\ Makes(w[i], p) = v

LevelAsked(p) == IF handles[p] = {} THEN 0 ELSE qos[p] + 1

MqttTypes ==
  /\ DOMAIN pc = Task
  /\ handles \in [Topic -> SUBSET Owner] /\ qos \in [Topic -> Qos]
  /\ wire \in Seq(Packets) /\ brokerQos \in [Topic -> 0..2]
  /\ listens \in [Request -> Topic \cup {None}]
  /\ link \in {"down", "connecting", "up", "closed"} /\ wanted \subseteq Request

ListenersOK ==
  \A t \in Request, p \in Topic : t \in handles[p] => listens[t] = p /\ pc[t] # "idle"

MqttOK ==
  /\ MqttTypes /\ ListenersOK
  /\ reconnects => link = "down" /\ pc["event"] # "leaving"
  /\ link = "down" => \A p \in Topic : brokerQos[p] = 0
  /\ link = "connecting" => \A p \in Topic : LevelWillBe(wire, brokerQos, p, 0)
  /\ link = "up" => \A p \in Topic : LevelWillBe(wire, brokerQos, p, LevelAsked(p))

LEMMA MqttBegin ==
  ASSUME HostInit, MqttInit, component = "mqtt"
  PROVE  MqttOK
<1>0. pc["event"] = "idle"
  BY DEF HostInit, Task, Background
<1>1. /\ DOMAIN pc = Task /\ link = "down" /\ wire = <<>> /\ brokerQos = [p \in Topic |-> 0]
      /\ handles = [p \in Topic |-> IF p = ApiTopic THEN {None} ELSE {}] /\ qos = [p \in Topic |-> 0]
      /\ listens = [t \in Request |-> None] /\ wanted = {}
  BY DEF HostInit, MqttInit, SubscribedFromStart
<1>2. handles \in [Topic -> SUBSET Owner] /\ qos \in [Topic -> Qos]
  BY <1>1 DEF Owner, Qos
<1>3. MqttTypes
  BY <1>1, <1>2 DEF MqttTypes
<1>4. ListenersOK
  BY <1>1, HostConstants DEF ListenersOK
<1> QED BY <1>0, <1>1, <1>3, <1>4 DEF MqttOK

LEMMA MqttServes ==
  ASSUME MqttOK
  PROVE  SubscriptionsMatch
<1>1. ASSUME link = "up", wire = <<>>, NEW p \in Topic PROVE brokerQos[p] = LevelAsked(p)
  <2>1. 1..Len(wire) = {}
    BY <1>1
  <2> QED BY <1>1, <2>1 DEF MqttOK, LevelWillBe
<1> QED BY <1>1 DEF SubscriptionsMatch, LevelAsked

(* A packet goes to the end. *)
LEMMA PacketSent ==
  ASSUME NEW w \in Seq(Packets), NEW k \in Packets, NEW b, NEW p
  PROVE  /\ Append(w, k) \in Seq(Packets)
         /\ Concerns(k, p) => LevelWillBe(Append(w, k), b, p, Makes(k, p))
         /\ \A v : ~Concerns(k, p) /\ LevelWillBe(w, b, p, v) => LevelWillBe(Append(w, k), b, p, v)
<1> DEFINE x == Append(w, k)
           n == Len(w) + 1
<1>1. /\ Len(w) \in Nat /\ x \in Seq(Packets) /\ Len(x) = n
      /\ \A i \in 1..Len(w) : x[i] = w[i]
      /\ x[n] = k
  OBVIOUS
<1>2. n \in 1..Len(x) /\ \A i \in 1..Len(x) : i \in 1..Len(w) \/ i = n
  BY <1>1
<1>3. \A i \in 1..Len(w) : i \in 1..Len(x) /\ i < n
  BY <1>1
<1> HIDE DEF x
<1>4. ASSUME Concerns(k, p) PROVE LevelWillBe(x, b, p, Makes(k, p))
  <2>1. \A j \in 1..Len(x) : ~(j > n)
    BY <1>1
  <2>2. LastAbout(x, n, p)
    BY <1>1, <1>4, <2>1 DEF LastAbout
  <2> QED BY <1>1, <1>2, <2>2 DEF LevelWillBe
<1>5. ASSUME NEW v, ~Concerns(k, p), LevelWillBe(w, b, p, v) PROVE LevelWillBe(x, b, p, v)
  <2>1. ~Concerns(x[n], p)
    BY <1>1, <1>5
  <2>2. CASE (\A i \in 1..Len(w) : ~Concerns(w[i], p)) /\ b[p] = v
    BY <1>1, <1>2, <2>1, <2>2 DEF LevelWillBe
  <2>3. CASE \E i \in 1..Len(w) : LastAbout(w, i, p) /\ Makes(w[i], p) = v
    <3>1. PICK i \in 1..Len(w) : LastAbout(w, i, p) /\ Makes(w[i], p) = v
      BY <2>3
    <3>2. ASSUME NEW j \in 1..Len(x), j > i PROVE ~Concerns(x[j], p)
      BY <1>1, <1>2, <2>1, <3>1, <3>2 DEF LastAbout
    <3>3. x[i] = w[i] /\ i \in 1..Len(x)
      BY <1>1, <1>3
    <3>4. LastAbout(x, i, p)
      BY <3>1, <3>2, <3>3 DEF LastAbout
    <3> QED BY <3>1, <3>3, <3>4 DEF LevelWillBe
  <2> QED BY <1>5, <2>2, <2>3 DEF LevelWillBe
<1> QED BY <1>1, <1>4, <1>5 DEF x

(* The broker reads the first packet. *)
LEMMA PacketRead ==
  ASSUME NEW w \in Seq(Packets), w # <<>>, NEW b, NEW c, NEW p, NEW v,
         c[p] = IF Concerns(Head(w), p) THEN Makes(Head(w), p) ELSE b[p],
         LevelWillBe(w, b, p, v)
  PROVE  LevelWillBe(Tail(w), c, p, v)
<1> DEFINE x == Tail(w)
<1>1. /\ Len(w) \in Nat \ {0} /\ Len(x) = Len(w) - 1 /\ Head(w) = w[1]
      /\ \A i \in 1..Len(x) : i + 1 \in 1..Len(w) /\ x[i] = w[i + 1] /\ i + 1 > 1
  OBVIOUS
<1> HIDE DEF x
<1>2. CASE (\A i \in 1..Len(w) : ~Concerns(w[i], p)) /\ b[p] = v
  <2>1. c[p] = v
    BY <1>1, <1>2
  <2>2. \A i \in 1..Len(x) : ~Concerns(x[i], p)
    BY <1>1, <1>2
  <2> QED BY <2>1, <2>2 DEF LevelWillBe, x
<1>3. CASE \E i \in 1..Len(w) : LastAbout(w, i, p) /\ Makes(w[i], p) = v
  <2>1. PICK i \in 1..Len(w) : LastAbout(w, i, p) /\ Makes(w[i], p) = v
    BY <1>3
  <2>2. CASE i = 1
    <3>1. c[p] = v
      BY <1>1, <2>1, <2>2 DEF LastAbout
    <3>2. \A j \in 1..Len(x) : ~Concerns(x[j], p)
      BY <1>1, <2>1, <2>2 DEF LastAbout
    <3> QED BY <3>1, <3>2 DEF LevelWillBe, x
  <2>3. CASE i # 1
    <3>1. i - 1 \in 1..Len(x) /\ (i - 1) + 1 = i
      BY <1>1, <2>3
    <3>2. x[i - 1] = w[i]
      BY <1>1, <3>1
    <3>3. ASSUME NEW j \in 1..Len(x), j > i - 1 PROVE ~Concerns(x[j], p)
      <4>1. j + 1 \in 1..Len(w) /\ x[j] = w[j + 1] /\ j + 1 > i
        BY <1>1, <3>3
      <4> QED BY <2>1, <4>1 DEF LastAbout
    <3>4. LastAbout(x, i - 1, p)
      BY <2>1, <3>2, <3>3 DEF LastAbout
    <3> QED BY <2>1, <3>1, <3>2, <3>4 DEF LevelWillBe, x
  <2> QED BY <2>2, <2>3
<1> QED BY <1>2, <1>3 DEF LevelWillBe

(* Who waits for an acknowledgement makes no difference. *)
LEMMA PacketsAlike ==
  ASSUME NEW w \in Seq(Packets), NEW x \in Seq(Packets), Len(x) = Len(w),
         \A i \in 1..Len(w) : x[i].op = w[i].op /\ x[i].levels = w[i].levels,
         NEW b, NEW p, NEW v, LevelWillBe(w, b, p, v)
  PROVE  LevelWillBe(x, b, p, v)
<1>1. \A i \in 1..Len(w) : (Concerns(x[i], p) <=> Concerns(w[i], p)) /\ Makes(x[i], p) = Makes(w[i], p)
  BY DEF Concerns, Makes
<1>2. \A i \in 1..Len(w) : LastAbout(w, i, p) => LastAbout(x, i, p)
  BY <1>1 DEF LastAbout
<1> QED BY <1>1, <1>2 DEF LevelWillBe

(* Where the packets go, and what they ask for, is all that matters. *)
LEMMA LevelsStay ==
  ASSUME MqttOK, DOMAIN pc' = Task, \A t \in Task : pc[t] # "idle" => pc'[t] # "idle",
         pc'["event"] = pc["event"],
         UNCHANGED <<link, reconnects, topicVars, brokerVars, listens, wanted>>
  PROVE  MqttOK'
<1>1. UNCHANGED <<link, reconnects, handles, qos, wire, brokerQos, listens, wanted>>
  BY DEF topicVars, brokerVars
<1>2. MqttTypes'
  BY <1>1 DEF MqttOK, MqttTypes
<1>3. ListenersOK'
  BY <1>1 DEF MqttOK, ListenersOK, Task
<1>4. (link = "connecting" => \A p \in Topic : LevelWillBe(wire, brokerQos, p, 0))'
  BY <1>1 DEF MqttOK, LevelWillBe, LastAbout
<1>5. (link = "up" => \A p \in Topic : LevelWillBe(wire, brokerQos, p, LevelAsked(p)))'
  <2>1. \A p \in Topic : LevelAsked(p)' = LevelAsked(p)
    BY <1>1 DEF LevelAsked
  <2> QED BY <1>1, <2>1 DEF MqttOK, LevelWillBe, LastAbout
<1> QED BY <1>1, <1>2, <1>3, <1>4, <1>5 DEF MqttOK

(* Packets of the three kinds *)
LEMMA PublicationsPacket ==
  ASSUME NEW S \in SUBSET Request
  PROVE  Publications(S) \in Packets /\ \A p \in Topic : ~Concerns(Publications(S), p)
BY DEF Publications, Packets, NoLevels, Concerns

LEMMA SubscriptionPacket ==
  ASSUME NEW levels \in [Topic -> 0..2]
  PROVE  /\ Subscription(levels) \in Packets
         /\ \A p \in Topic : /\ Concerns(Subscription(levels), p) <=> levels[p] # 0
                            /\ Makes(Subscription(levels), p) = levels[p]
BY DEF Subscription, Packets, Concerns, Makes

LEMMA UnsubscriptionPacket ==
  ASSUME NEW p \in Topic
  PROVE  /\ Unsubscription(p) \in Packets
         /\ Concerns(Unsubscription(p), p) /\ Makes(Unsubscription(p), p) = 0
         /\ \A x \in Topic \ {p} : ~Concerns(Unsubscription(p), x)
<1> DEFINE levels == [NoLevels EXCEPT ![p] = 1]
<1>1. levels \in [Topic -> 0..2] /\ levels[p] = 1 /\ \A x \in Topic \ {p} : levels[x] = 0
  BY DEF NoLevels
<1>2. Unsubscription(p) = [op |-> "unsubscribe", levels |-> levels, by |-> {}]
  BY DEF Unsubscription
<1> HIDE DEF levels
<1> QED BY <1>1, <1>2 DEF Packets, Concerns, Makes

(* A request that asks subscribes where the broker does not know the level. *)
LEMMA SubscribeKeeps ==
  ASSUME MqttOK, NEW t \in Request, NEW p \in Topic, NEW q \in Qos, Idle(t), Subscribe(t, p, q),
         DOMAIN pc' = Task, pc'[t] # "idle", \A u \in Task \ {t} : pc'[u] = pc[u],
         NEW w, w = wire \o SubscribePacket(p, q)
  PROVE  /\ handles' \in [Topic -> SUBSET Owner] /\ qos' \in [Topic -> Qos]
         /\ listens' \in [Request -> Topic \cup {None}] /\ ListenersOK'
         /\ w \in Seq(Packets)
         /\ link # "up" => w = wire
         /\ link = "up" => \A x \in Topic : LevelWillBe(w, brokerQos, x, LevelAsked(x)')
<1>1. /\ handles \in [Topic -> SUBSET Owner] /\ qos \in [Topic -> Qos]
      /\ wire \in Seq(Packets) /\ listens \in [Request -> Topic \cup {None}] /\ pc[t] = "idle"
  BY DEF MqttOK, MqttTypes, Idle
<1>2. /\ handles' = [handles EXCEPT ![p] = @ \cup {t}]
      /\ qos' = [qos EXCEPT ![p] = LevelWith(p, q)]
      /\ listens' = [listens EXCEPT ![t] = p]
  BY DEF Subscribe
<1> DEFINE level == LevelWith(p, q)
<1>3. level \in Qos /\ level + 1 \in 0..2 /\ level + 1 # 0
  BY <1>1 DEF LevelWith, Larger, Qos
<1>4. handles' \in [Topic -> SUBSET Owner] /\ listens' \in [Request -> Topic \cup {None}]
  BY <1>1, <1>2 DEF Owner
<1>5. qos' \in [Topic -> Qos]
  BY <1>1, <1>2, <1>3
<1>6. ListenersOK'
  <2>1. \A x \in Topic : t \notin handles[x]
    BY <1>1 DEF MqttOK, ListenersOK
  <2>2. ASSUME NEW u \in Request, NEW x \in Topic, u \in handles'[x]
        PROVE  listens'[u] = x /\ pc'[u] # "idle"
    <3>1. CASE u = t
      BY <1>1, <1>2, <2>1, <2>2, <3>1
    <3>2. CASE u # t
      <4>1. u \in handles[x]
        BY <1>1, <1>2, <2>2, <3>2
      <4>2. u \in Task
        BY DEF Task
      <4> QED BY <1>1, <1>2, <3>2, <4>1, <4>2 DEF MqttOK, ListenersOK
    <3> QED BY <3>1, <3>2
  <2> QED BY <2>2 DEF ListenersOK
<1>7. LevelAsked(p)' = level + 1 /\ \A x \in Topic \ {p} : LevelAsked(x)' = LevelAsked(x)
  <2>1. handles'[p] # {} /\ qos'[p] = level
    BY <1>1, <1>2
  <2>2. \A x \in Topic \ {p} : handles'[x] = handles[x] /\ qos'[x] = qos[x]
    BY <1>1, <1>2
  <2> QED BY <2>1, <2>2 DEF LevelAsked
<1>8. CASE link = "up" /\ (handles[p] = {} \/ q > qos[p])
  <2> DEFINE levels == [NoLevels EXCEPT ![p] = level + 1]
  <2>1. levels \in [Topic -> 0..2] /\ levels[p] = level + 1 /\ \A x \in Topic \ {p} : levels[x] = 0
    BY <1>3 DEF NoLevels
  <2>2. SubscribePacket(p, q) = <<Subscription(levels)>>
    BY <1>8 DEF SubscribePacket
  <2> HIDE DEF levels, level
  <2>3. /\ Subscription(levels) \in Packets
        /\ Concerns(Subscription(levels), p) /\ Makes(Subscription(levels), p) = level + 1
        /\ \A x \in Topic \ {p} : ~Concerns(Subscription(levels), x)
    BY <1>3, <2>1, SubscriptionPacket
  <2>4. w = Append(wire, Subscription(levels))
    BY <1>1, <2>2, <2>3, AppendIsConcat
  <2>5. w \in Seq(Packets)
    BY <1>1, <2>3, <2>4
  <2>6. LevelWillBe(w, brokerQos, p, level + 1)
    BY <1>1, <2>3, <2>4, PacketSent
  <2>7. ASSUME NEW x \in Topic \ {p} PROVE LevelWillBe(w, brokerQos, x, LevelAsked(x))
    <3>1. LevelWillBe(wire, brokerQos, x, LevelAsked(x))
      BY <1>8 DEF MqttOK
    <3>2. /\ Subscription(levels) \in Packets /\ ~Concerns(Subscription(levels), x)
          /\ wire \in Seq(Packets)
      BY <1>1, <2>3
    <3>3. \A v : LevelWillBe(wire, brokerQos, x, v)
                  => LevelWillBe(Append(wire, Subscription(levels)), brokerQos, x, v)
      BY <3>2, PacketSent
    <3> QED BY <2>4, <3>1, <3>3
  <2>8. ASSUME NEW x \in Topic PROVE LevelWillBe(w, brokerQos, x, LevelAsked(x)')
    BY <1>7, <2>6, <2>7
  <2> QED BY <1>4, <1>5, <1>6, <1>8, <2>5, <2>8
<1>9. CASE ~(link = "up" /\ (handles[p] = {} \/ q > qos[p]))
  <2>1. SubscribePacket(p, q) = <<>>
    BY <1>9 DEF SubscribePacket
  <2>2. w = wire
    BY <1>1, <2>1
  <2>3. ASSUME link = "up", NEW x \in Topic PROVE LevelWillBe(w, brokerQos, x, LevelAsked(x)')
    <3>1. LevelWillBe(wire, brokerQos, x, LevelAsked(x))
      BY <2>3 DEF MqttOK
    <3>2. CASE x = p
      <4>1. handles[p] # {} /\ ~(q > qos[p])
        BY <1>9, <2>3
      <4>2. level = qos[p]
        BY <1>1, <4>1 DEF LevelWith, Larger, Qos
      <4>3. LevelAsked(p) = level + 1
        BY <4>1, <4>2 DEF LevelAsked
      <4> HIDE DEF level
      <4> QED BY <1>7, <2>2, <3>1, <3>2, <4>3
    <3>3. CASE x # p
      BY <1>7, <2>2, <3>1, <3>3
    <3> QED BY <3>2, <3>3
  <2> QED BY <1>1, <1>4, <1>5, <1>6, <2>2, <2>3
<1> QED BY <1>8, <1>9

(* The parts of the invariant, one by one *)
LEMMA MqttParts ==
  ASSUME DOMAIN pc' = Task, handles' \in [Topic -> SUBSET Owner], qos' \in [Topic -> Qos],
         wire' \in Seq(Packets), brokerQos' \in [Topic -> 0..2],
         listens' \in [Request -> Topic \cup {None}],
         link' \in {"down", "connecting", "up", "closed"}, wanted' \subseteq Request,
         ListenersOK',
         reconnects' => link' = "down" /\ pc'["event"] # "leaving",
         link' = "down" => \A p \in Topic : brokerQos'[p] = 0,
         link' = "connecting" => \A p \in Topic : LevelWillBe(wire', brokerQos', p, 0),
         link' = "up" => \A p \in Topic : LevelWillBe(wire', brokerQos', p, LevelAsked(p)')
  PROVE  MqttOK'
BY DEF MqttOK, MqttTypes, LevelWillBe, LastAbout, LevelAsked

(* A publication goes after what is on its way. *)
LEMMA PublicationSent ==
  ASSUME NEW w \in Seq(Packets), NEW S \in SUBSET Request
  PROVE  /\ w \o <<Publications(S)>> \in Seq(Packets)
         /\ \A b, v : \A p \in Topic :
              LevelWillBe(w, b, p, v) => LevelWillBe(w \o <<Publications(S)>>, b, p, v)
<1>1. Publications(S) \in Packets /\ \A p \in Topic : ~Concerns(Publications(S), p)
  BY PublicationsPacket
<1>2. w \o <<Publications(S)>> = Append(w, Publications(S))
  BY <1>1, AppendIsConcat
<1>3. Append(w, Publications(S)) \in Seq(Packets)
  BY <1>1
<1>4. ASSUME NEW b, NEW v, NEW p \in Topic, LevelWillBe(w, b, p, v)
      PROVE  LevelWillBe(Append(w, Publications(S)), b, p, v)
  BY <1>1, <1>4, PacketSent
<1> QED BY <1>2, <1>3, <1>4

LEMMA AskSubscribeKeeps ==
  ASSUME MqttOK, NEW t \in Request, NEW p \in Topic, NEW q \in Qos, AskSubscribe(t, p, q)
  PROVE  MqttOK'
<1>1. /\ Idle(t) /\ Subscribe(t, p, q) /\ Sends(SubscribePacket(p, q)) /\ pc' = [pc EXCEPT ![t] = "waiting"]
      /\ link' = link /\ reconnects' = reconnects /\ brokerQos' = brokerQos /\ wanted' = wanted
  BY DEF AskSubscribe, Goes
<1>2. DOMAIN pc = Task /\ t \in Task /\ wire \in Seq(Packets)
  BY DEF MqttOK, MqttTypes, Task
<1>3. DOMAIN pc' = Task /\ pc'[t] # "idle" /\ \A u \in Task \ {t} : pc'[u] = pc[u]
  BY <1>1, <1>2
<1>. pc'["event"] = pc["event"]
  BY <1>3, HostConstants DEF Task, Background
<1> DEFINE w == wire \o SubscribePacket(p, q)
<1>4. /\ handles' \in [Topic -> SUBSET Owner] /\ qos' \in [Topic -> Qos]
      /\ listens' \in [Request -> Topic \cup {None}] /\ ListenersOK'
      /\ w \in Seq(Packets)
      /\ link # "up" => w = wire
      /\ link = "up" => \A x \in Topic : LevelWillBe(w, brokerQos, x, LevelAsked(x)')
  BY <1>1, <1>3, SubscribeKeeps
<1>5. wire' = IF NoSocket THEN wire ELSE w
  BY <1>1 DEF Sends
<1> HIDE DEF w
<1>6. wire' = w
  BY <1>4, <1>5 DEF NoSocket
<1> QED BY <1>1, <1>3, <1>4, <1>6, MqttParts DEF MqttOK, MqttTypes

LEMMA AskPublishKeeps ==
  ASSUME MqttOK, NEW t \in Request, AskPublish(t)
  PROVE  MqttOK'
<1>1. /\ Idle(t) /\ Publishes(t, 1, <<>>)
      /\ UNCHANGED <<link, reconnects, handles, qos, brokerQos, listens>>
  BY DEF AskPublish, topicVars
<1>2. DOMAIN pc = Task /\ t \in Task /\ wire \in Seq(Packets) /\ wanted \subseteq Request
  BY DEF MqttOK, MqttTypes, Task
<1>3. /\ wire' = IF NoSocket THEN wire ELSE wire \o (<<>> \o <<Publications({t})>>)
      /\ wanted' = wanted \cup {t} /\ pc' = [pc EXCEPT ![t] = "acking"]
  BY <1>1 DEF Publishes, Sends, Goes
<1>4. DOMAIN pc' = Task /\ \A u \in Task : pc[u] # "idle" => pc'[u] # "idle"
  BY <1>2, <1>3
<1>. pc'["event"] = pc["event"]
  BY <1>2, <1>3, HostConstants DEF Task, Background
<1>5. <<>> \o <<Publications({t})>> = <<Publications({t})>>
  OBVIOUS
<1>6. wire' \in Seq(Packets) /\ \A b, v : \A p \in Topic : LevelWillBe(wire, b, p, v) => LevelWillBe(wire', b, p, v)
  <2>1. CASE NoSocket
    BY <1>2, <1>3, <2>1
  <2>2. CASE ~NoSocket
    <3>1. wire' = wire \o <<Publications({t})>>
      BY <1>3, <1>5, <2>2
    <3> QED BY <1>2, <3>1, PublicationSent
  <2> QED BY <2>1, <2>2
<1>7. ListenersOK'
  BY <1>1, <1>4 DEF MqttOK, ListenersOK, Task
<1>8. \A p \in Topic : LevelAsked(p)' = LevelAsked(p)
  BY <1>1 DEF LevelAsked
<1>9. link' = "connecting" => \A p \in Topic : LevelWillBe(wire', brokerQos', p, 0)
  BY <1>1, <1>6 DEF MqttOK
<1>10. link' = "up" => \A p \in Topic : LevelWillBe(wire', brokerQos', p, LevelAsked(p)')
  BY <1>1, <1>6, <1>8 DEF MqttOK
<1>11. wanted' \subseteq Request
  BY <1>2, <1>3
<1> QED BY <1>1, <1>4, <1>6, <1>7, <1>9, <1>10, <1>11, MqttParts DEF MqttOK, MqttTypes

LEMMA AskResponseKeeps ==
  ASSUME MqttOK, NEW t \in Request, NEW p \in Topic, NEW q \in Qos, AskResponse(t, p, q)
  PROVE  MqttOK'
<1>1. /\ Idle(t) /\ Subscribe(t, p, q) /\ Publishes(t, q, SubscribePacket(p, q))
      /\ link' = link /\ reconnects' = reconnects /\ brokerQos' = brokerQos
  BY DEF AskResponse
<1>2. DOMAIN pc = Task /\ t \in Task /\ wire \in Seq(Packets) /\ wanted \subseteq Request
  BY DEF MqttOK, MqttTypes, Task
<1>3. /\ wire' = IF NoSocket THEN wire ELSE wire \o (SubscribePacket(p, q) \o <<Publications({t})>>)
      /\ wanted' = IF q > 0 THEN wanted \cup {t} ELSE wanted
      /\ pc' = [pc EXCEPT ![t] = IF q > 0 THEN "acking" ELSE "waiting"]
  BY <1>1 DEF Publishes, Sends, Goes
<1>4. DOMAIN pc' = Task /\ pc'[t] # "idle" /\ \A u \in Task \ {t} : pc'[u] = pc[u]
  BY <1>2, <1>3
<1>. pc'["event"] = pc["event"]
  BY <1>4, HostConstants DEF Task, Background
<1> DEFINE k == SubscribePacket(p, q)
           w == wire \o k
<1>5. /\ handles' \in [Topic -> SUBSET Owner] /\ qos' \in [Topic -> Qos]
      /\ listens' \in [Request -> Topic \cup {None}] /\ ListenersOK'
      /\ w \in Seq(Packets)
      /\ link # "up" => w = wire
      /\ link = "up" => \A x \in Topic : LevelWillBe(w, brokerQos, x, LevelAsked(x)')
  BY <1>1, <1>4, SubscribeKeeps
<1>6. wire \o (k \o <<Publications({t})>>) = w \o <<Publications({t})>>
  <2>1. \E y : k = <<>> \/ k = <<y>>
    BY DEF SubscribePacket
  <2> QED BY <1>2, <2>1
<1> HIDE DEF k, w
<1>7. CASE NoSocket
  <2>1. wire' = wire /\ link' # "up" /\ link' # "connecting"
    BY <1>1, <1>3, <1>7 DEF NoSocket
  <2> QED BY <1>1, <1>2, <1>3, <1>4, <1>5, <2>1, MqttParts DEF MqttOK, MqttTypes
<1>8. CASE ~NoSocket
  <2>1. wire' = w \o <<Publications({t})>>
    BY <1>3, <1>6, <1>8 DEF k
  <2>2. wire' \in Seq(Packets) /\ \A b, v : \A x \in Topic : LevelWillBe(w, b, x, v) => LevelWillBe(wire', b, x, v)
    BY <1>5, <2>1, PublicationSent
  <2>3. link' = "connecting" => \A x \in Topic : LevelWillBe(wire', brokerQos', x, 0)
    BY <1>1, <1>5, <2>2 DEF MqttOK
  <2>4. link' = "up" => \A x \in Topic : LevelWillBe(wire', brokerQos', x, LevelAsked(x)')
    BY <1>1, <1>5, <2>2
  <2>5. wanted' \subseteq Request
    BY <1>2, <1>3
  <2> QED BY <1>1, <1>4, <1>5, <2>2, <2>3, <2>4, <2>5, MqttParts DEF MqttOK, MqttTypes
<1> QED BY <1>7, <1>8

(* The end of a request: nobody waits for its acknowledgement, and the broker  *)
(* hears when nobody is left to listen.                                         *)
LEMMA EndKeeps ==
  ASSUME MqttOK, NEW t \in Request, Ends(t), UNCHANGED <<link, reconnects, brokerQos>>
  PROVE  MqttOK'
<1>0. PICK p : p = listens[t]
  OBVIOUS
<1> DEFINE last == p # None /\ handles[p] = {t}
           unacked == [i \in DOMAIN wire |-> [wire[i] EXCEPT !.by = @ \ {t}]]
<1>1. /\ pc' = [pc EXCEPT ![t] = "idle"]
      /\ handles' = [x \in Topic |-> handles[x] \ {t}]
      /\ qos' = IF last THEN [qos EXCEPT ![p] = 0] ELSE qos
      /\ wire' = IF last /\ ~NoSocket THEN Append(unacked, Unsubscription(p)) ELSE unacked
      /\ listens' = [listens EXCEPT ![t] = None] /\ wanted' = wanted \ {t}
  BY <1>0 DEF Ends, Goes
<1>2. /\ DOMAIN pc = Task /\ t \in Task /\ wire \in Seq(Packets) /\ wanted \subseteq Request
      /\ handles \in [Topic -> SUBSET Owner] /\ qos \in [Topic -> Qos]
      /\ listens \in [Request -> Topic \cup {None}]
  BY DEF MqttOK, MqttTypes, Task
<1>3. DOMAIN pc' = Task /\ \A u \in Task \ {t} : pc'[u] = pc[u]
  BY <1>1, <1>2
<1>. pc'["event"] = pc["event"]
  BY <1>3, HostConstants DEF Task, Background
<1>4. unacked \in Seq(Packets) /\ Len(unacked) = Len(wire)
  <2>1. \A i \in DOMAIN wire : wire[i] \in Packets
    BY <1>2
  <2>2. \A k \in Packets : [k EXCEPT !.by = @ \ {t}] \in Packets
    BY DEF Packets
  <2>3. \A i \in DOMAIN wire : unacked[i] \in Packets
    BY <2>1, <2>2
  <2>4. DOMAIN wire = 1..Len(wire) /\ Len(wire) \in Nat
    BY <1>2
  <2> QED BY <2>3, <2>4
<1>5. \A i \in 1..Len(wire) : unacked[i].op = wire[i].op /\ unacked[i].levels = wire[i].levels
  <2>1. \A i \in DOMAIN wire : wire[i] \in Packets
    BY <1>2
  <2>2. \A k \in Packets : [k EXCEPT !.by = @ \ {t}].op = k.op /\ [k EXCEPT !.by = @ \ {t}].levels = k.levels
    BY DEF Packets
  <2>3. DOMAIN wire = 1..Len(wire)
    BY <1>2
  <2> QED BY <2>1, <2>2, <2>3
<1> HIDE DEF unacked
<1>6. \A b, v : \A x \in Topic : LevelWillBe(wire, b, x, v) => LevelWillBe(unacked, b, x, v)
  BY <1>2, <1>4, <1>5, PacketsAlike
<1>7. p \in Topic \cup {None}
  BY <1>0, <1>2
<1>8. /\ handles' \in [Topic -> SUBSET Owner] /\ listens' \in [Request -> Topic \cup {None}]
      /\ wanted' \subseteq Request
  BY <1>1, <1>2
<1>9. qos' \in [Topic -> Qos]
  <2>1. 0 \in Qos
    BY DEF Qos
  <2> HIDE DEF last
  <2> QED BY <1>1, <1>2, <2>1
<1>10. ListenersOK'
  <2>1. ASSUME NEW u \in Request, NEW x \in Topic, u \in handles'[x]
        PROVE  listens'[u] = x /\ pc'[u] # "idle"
    <3>1. u # t /\ u \in handles[x] /\ u \in Task
      BY <1>1, <2>1 DEF Task
    <3>2. listens[u] = x /\ pc[u] # "idle"
      BY <3>1 DEF MqttOK, ListenersOK
    <3> QED BY <1>1, <1>2, <1>3, <3>1, <3>2
  <2> QED BY <2>1 DEF ListenersOK
<1>11. \A x \in Topic : x # p => LevelAsked(x)' = LevelAsked(x)
  <2>1. ASSUME NEW x \in Topic, x # p PROVE handles'[x] = handles[x] /\ qos'[x] = qos[x]
    <3>1. t \notin handles[x]
      BY <1>0, <2>1 DEF MqttOK, ListenersOK
    <3>2. handles'[x] = handles[x]
      BY <1>1, <3>1
    <3>3. qos'[x] = qos[x]
      BY <1>1, <1>2, <2>1
    <3> QED BY <3>2, <3>3
  <2> QED BY <2>1 DEF LevelAsked
<1>12. CASE last
  <2>1. p \in Topic /\ LevelAsked(p)' = 0
    <3>1. p \in Topic
      BY <1>7, <1>12
    <3>2. handles'[p] = {}
      BY <1>1, <1>12, <3>1
    <3> QED BY <3>1, <3>2 DEF LevelAsked
  <2>2. CASE NoSocket
    <3>1. wire' = unacked /\ link' # "up" /\ link' # "connecting"
      BY <1>1, <2>2 DEF NoSocket
    <3> QED BY <1>3, <1>4, <1>8, <1>9, <1>10, <3>1, MqttParts DEF MqttOK, MqttTypes
  <2>3. CASE ~NoSocket
    <3> DEFINE k == Unsubscription(p)
    <3>1. wire' = Append(unacked, k)
      BY <1>1, <1>12, <2>3
    <3>2. k \in Packets /\ Concerns(k, p) /\ Makes(k, p) = 0 /\ \A x \in Topic \ {p} : ~Concerns(k, x)
      BY <2>1, UnsubscriptionPacket
    <3> HIDE DEF k
    <3>3. wire' \in Seq(Packets) /\ \A b : LevelWillBe(wire', b, p, 0)
      BY <1>4, <3>1, <3>2, PacketSent
    <3>4. ASSUME NEW b, NEW v, NEW x \in Topic \ {p}, LevelWillBe(wire, b, x, v) PROVE LevelWillBe(wire', b, x, v)
      <4>1. LevelWillBe(unacked, b, x, v)
        BY <1>6, <3>4
      <4> QED BY <1>4, <3>1, <3>2, <4>1, PacketSent
    <3>5. link' = "connecting" => \A x \in Topic : LevelWillBe(wire', brokerQos', x, 0)
      BY <3>3, <3>4 DEF MqttOK
    <3>6. link' = "up" => \A x \in Topic : LevelWillBe(wire', brokerQos', x, LevelAsked(x)')
      BY <1>11, <2>1, <3>3, <3>4 DEF MqttOK
    <3> QED BY <1>3, <1>8, <1>9, <1>10, <3>3, <3>5, <3>6, MqttParts DEF MqttOK, MqttTypes
  <2> QED BY <2>2, <2>3
<1>13. CASE ~last
  <2>1. wire' = unacked
    BY <1>1, <1>13
  <2>2. \A x \in Topic : LevelAsked(x)' = LevelAsked(x)
    <3>1. ASSUME p \in Topic PROVE LevelAsked(p)' = LevelAsked(p)
      <4>1. handles[p] # {t}
        BY <1>13, <3>1, MqttConstants
      <4>2. handles'[p] = handles[p] \ {t} /\ qos'[p] = qos[p]
        BY <1>1, <1>13, <3>1
      <4>3. handles'[p] = {} <=> handles[p] = {}
        BY <4>1, <4>2
      <4> QED BY <4>2, <4>3 DEF LevelAsked
    <3> QED BY <1>11, <3>1
  <2>3. link' = "connecting" => \A x \in Topic : LevelWillBe(wire', brokerQos', x, 0)
    BY <1>6, <2>1 DEF MqttOK
  <2>4. link' = "up" => \A x \in Topic : LevelWillBe(wire', brokerQos', x, LevelAsked(x)')
    BY <1>6, <2>1, <2>2 DEF MqttOK
  <2> QED BY <1>3, <1>4, <1>8, <1>9, <1>10, <2>1, <2>3, <2>4, MqttParts DEF MqttOK, MqttTypes
<1> QED BY <1>12, <1>13

LEMMA ConnectionKeeps ==
  ASSUME MqttOK, Reconnects \/ Connects \/ Drops \/ Closes \/ Closed
  PROVE  MqttOK'
<1>1. /\ DOMAIN pc = Task /\ wire \in Seq(Packets) /\ wanted \subseteq Request
      /\ handles \in [Topic -> SUBSET Owner] /\ qos \in [Topic -> Qos]
      /\ listens \in [Request -> Topic \cup {None}] /\ brokerQos \in [Topic -> 0..2]
      /\ link \in {"down", "connecting", "up", "closed"} /\ (reconnects => (link = "down" /\ pc["event"] # "leaving"))
      /\ ListenersOK
  BY DEF MqttOK, MqttTypes
<1>2. NoLevels \in [Topic -> 0..2] /\ <<>> \in Seq(Packets) /\ \A p \in Topic : NoLevels[p] = 0
  BY DEF NoLevels
<1>3. ASSUME UNCHANGED <<handles, qos>> PROVE \A p \in Topic : LevelAsked(p)' = LevelAsked(p)
  BY <1>3 DEF LevelAsked
<1>4. ASSUME UNCHANGED <<handles, listens>>, \A t \in Request : pc'[t] = pc[t] PROVE ListenersOK'
  BY <1>1, <1>4 DEF ListenersOK
<1>5. ASSUME Reconnects PROVE MqttOK'
  <2>1. /\ reconnects /\ link' = "connecting" /\ wire' = <<>>
        /\ UNCHANGED <<pc, handles, qos, brokerQos, listens, wanted>>
    BY <1>5 DEF Reconnects, SocketTaken, PacketsForgotten, topicVars, requestVars
  <2>2. ~reconnects'
    BY <1>5 DEF Reconnects
  <2>3. \A p \in Topic : brokerQos'[p] = 0
    BY <1>1, <2>1 DEF MqttOK
  <2>4. 1..Len(wire') = {}
    BY <2>1
  <2>5. \A p \in Topic : LevelWillBe(wire', brokerQos', p, 0)
    BY <2>3, <2>4 DEF LevelWillBe
  <2>6. ListenersOK'
    BY <1>4, <2>1
  <2> QED BY <1>1, <1>2, <2>1, <2>2, <2>5, <2>6, MqttParts
<1>6. ASSUME Connects PROVE MqttOK'
  <2> DEFINE levels == [p \in Topic |-> IF p \in Listened THEN qos[p] + 1 ELSE 0]
             w == IF Listened = {} THEN wire ELSE wire \o <<Subscription(levels)>>
  <2>1. /\ link = "connecting" /\ link' = "up" /\ wire' = wire \o SentOnConnect
        /\ UNCHANGED <<pc, reconnects, handles, qos, brokerQos, listens, wanted>>
    BY <1>6 DEF Connects, topicVars, requestVars
  <2>2. levels \in [Topic -> 0..2] /\ \A p \in Topic : levels[p] = LevelAsked(p)
    BY <1>1 DEF Listened, LevelAsked, Qos
  <2>3. /\ Subscription(levels) \in Packets
        /\ \A p \in Topic : /\ Concerns(Subscription(levels), p) <=> levels[p] # 0
                           /\ Makes(Subscription(levels), p) = levels[p]
    BY <2>2, SubscriptionPacket
  <2>4. \A p \in Topic : LevelWillBe(wire, brokerQos, p, 0)
    BY <2>1 DEF MqttOK
  <2>5. wire' = w \o <<Publications(wanted)>>
    <3>1. SentOnConnect = (IF Listened = {} THEN <<>> ELSE <<Subscription(levels)>>) \o <<Publications(wanted)>>
      BY DEF SentOnConnect
    <3> HIDE DEF levels
    <3> QED BY <1>1, <2>1, <3>1
  <2> HIDE DEF levels
  <2>6. w \in Seq(Packets) /\ \A p \in Topic : LevelWillBe(w, brokerQos, p, LevelAsked(p))
    <3>1. CASE Listened = {}
      <4>1. \A p \in Topic : LevelAsked(p) = 0
        BY <3>1 DEF Listened, LevelAsked
      <4> QED BY <1>1, <2>4, <3>1, <4>1
    <3>2. CASE Listened # {}
      <4>1. w = Append(wire, Subscription(levels))
        BY <1>1, <2>3, <3>2, AppendIsConcat
      <4>2. ASSUME NEW p \in Topic PROVE LevelWillBe(w, brokerQos, p, LevelAsked(p))
        <5>1. CASE levels[p] = 0
          BY <1>1, <2>2, <2>3, <2>4, <4>1, <5>1, PacketSent
        <5>2. CASE levels[p] # 0
          BY <1>1, <2>2, <2>3, <4>1, <5>2, PacketSent
        <5> QED BY <5>1, <5>2
      <4> QED BY <1>1, <2>3, <4>1, <4>2
    <3> QED BY <3>1, <3>2
  <2> HIDE DEF w
  <2>7. wire' \in Seq(Packets) /\ \A b, v : \A p \in Topic : LevelWillBe(w, b, p, v) => LevelWillBe(wire', b, p, v)
    BY <1>1, <2>5, <2>6, PublicationSent
  <2>8. \A p \in Topic : LevelAsked(p)' = LevelAsked(p)
    BY <1>3, <2>1
  <2>9. \A p \in Topic : LevelWillBe(wire', brokerQos', p, LevelAsked(p)')
    BY <2>1, <2>6, <2>7, <2>8
  <2>10. ListenersOK'
    BY <1>4, <2>1
  <2>11. ~reconnects'
    BY <1>1, <2>1
  <2> QED BY <1>1, <2>1, <2>7, <2>9, <2>10, <2>11, MqttParts
<1>7. ASSUME Drops PROVE MqttOK'
  <2>1. /\ link' = "down" /\ wire' = <<>> /\ brokerQos' = NoLevels
        /\ UNCHANGED <<pc, handles, qos, listens, wanted>>
    BY <1>7 DEF Drops, topicVars, requestVars
  <2>3. reconnects' => pc'["event"] # "leaving"
    BY <1>7, Zenon DEF Drops, Idle
  <2>2. ListenersOK'
    BY <1>4, <2>1
  <2> QED BY <1>1, <1>2, <2>1, <2>2, <2>3, MqttParts
<1>8. ASSUME Closes PROVE MqttOK'
  <2>1. /\ link' = link \/ (link = "down" /\ link' = "closed")
        /\ UNCHANGED <<handles, qos, wire, brokerQos, listens, wanted>>
    <3>1. UNCHANGED <<handles, qos, wire, brokerQos, listens, wanted>>
      BY <1>8 DEF Closes, topicVars, brokerVars, requestVars
    <3>2. IF link = "up" THEN link' = link ELSE link' = IF link = "down" THEN "closed" ELSE link
      BY <1>8, Zenon DEF Closes
    <3>3. CASE link = "up" \/ link # "down"
      BY <3>1, <3>2, <3>3
    <3>4. CASE link # "up" /\ link = "down"
      BY <3>1, <3>2, <3>4
    <3> QED BY <3>3, <3>4
  <2>2. ~reconnects'
    BY <1>8 DEF Closes
  <2>3. DOMAIN pc' = Task /\ \A t \in Request : pc'[t] = pc[t]
    <3>1. pc' = pc \/ pc' = [pc EXCEPT !["event"] = "leaving"]
      BY <1>8 DEF Closes, Goes
    <3> QED BY <1>1, <3>1, HostConstants DEF Background, Task
  <2>4. ListenersOK'
    BY <1>4, <2>1, <2>3
  <2>5. \A p \in Topic : LevelAsked(p)' = LevelAsked(p)
    BY <1>3, <2>1
  <2>6. link' = "connecting" => \A p \in Topic : LevelWillBe(wire', brokerQos', p, 0)
    BY <2>1 DEF MqttOK
  <2>7. link' = "up" => \A p \in Topic : LevelWillBe(wire', brokerQos', p, LevelAsked(p)')
    BY <2>1, <2>5 DEF MqttOK
  <2>8. link' = "down" => \A p \in Topic : brokerQos'[p] = 0
    BY <2>1 DEF MqttOK
  <2> QED BY <1>1, <2>1, <2>2, <2>3, <2>4, <2>6, <2>7, <2>8, MqttParts
<1>9. ASSUME Closed PROVE MqttOK'
  <2>1. /\ pc' = [pc EXCEPT !["event"] = "idle"] /\ pc["event"] = "leaving"
        /\ link' = "closed" /\ wire' = <<>> /\ brokerQos' = NoLevels
        /\ UNCHANGED <<reconnects, handles, qos, listens, wanted>>
    BY <1>9 DEF Closed, Goes, topicVars, requestVars
  <2>2. DOMAIN pc' = Task /\ \A t \in Request : pc'[t] = pc[t]
    BY <1>1, <2>1, HostConstants DEF Background, Task
  <2>3. ListenersOK'
    BY <1>4, <2>1, <2>2
  <2>4. ~reconnects'
    BY <1>1, <2>1
  <2> QED BY <1>1, <1>2, <2>1, <2>2, <2>3, <2>4, MqttParts
<1> QED BY <1>5, <1>6, <1>7, <1>8, <1>9

LEMMA BrokerKeeps ==
  ASSUME MqttOK, BrokerReads \/ \E p \in Topic : BrokerSends(p)
  PROVE  MqttOK'
<1>1. CASE BrokerReads
  <2> DEFINE k == Head(wire)
  <2>1. /\ link = "up" /\ wire # <<>> /\ wire' = Tail(wire)
        /\ brokerQos' = [p \in Topic |->
             IF k.levels[p] = 0 THEN brokerQos[p]
             ELSE IF k.op = "subscribe" THEN k.levels[p] ELSE 0]
        /\ wanted' = wanted \ k.by
        /\ UNCHANGED <<pc, link, reconnects, handles, qos, listens>>
    BY <1>1 DEF BrokerReads, topicVars
  <2>2. /\ DOMAIN pc = Task /\ wire \in Seq(Packets) /\ wanted \subseteq Request
        /\ handles \in [Topic -> SUBSET Owner] /\ qos \in [Topic -> Qos]
        /\ listens \in [Request -> Topic \cup {None}] /\ brokerQos \in [Topic -> 0..2]
        /\ ListenersOK
    BY DEF MqttOK, MqttTypes
  <2>3. k \in Packets /\ wire' \in Seq(Packets)
    BY <2>1, <2>2
  <2>4. k.levels \in [Topic -> 0..2]
    BY <2>3 DEF Packets
  <2>5. brokerQos' \in [Topic -> 0..2]
    <3> HIDE DEF k
    <3> QED BY <2>1, <2>2, <2>4
  <2>6. ASSUME NEW p \in Topic PROVE brokerQos'[p] = IF Concerns(k, p) THEN Makes(k, p) ELSE brokerQos[p]
    <3> HIDE DEF k
    <3> QED BY <2>1 DEF Concerns, Makes
  <2>7. ASSUME NEW p \in Topic, NEW v, LevelWillBe(wire, brokerQos, p, v)
        PROVE  LevelWillBe(wire', brokerQos', p, v)
    BY <2>1, <2>2, <2>6, <2>7, PacketRead
  <2>8. \A p \in Topic : LevelAsked(p)' = LevelAsked(p)
    BY <2>1 DEF LevelAsked
  <2>9. \A p \in Topic : LevelWillBe(wire', brokerQos', p, LevelAsked(p)')
    BY <2>1, <2>7, <2>8 DEF MqttOK
  <2>10. ListenersOK'
    BY <2>1, <2>2 DEF ListenersOK
  <2>11. wanted' \subseteq Request
    BY <2>1, <2>2
  <2>12. ~reconnects'
    BY <2>1 DEF MqttOK
  <2> QED BY <2>1, <2>2, <2>3, <2>5, <2>9, <2>10, <2>11, <2>12, MqttParts
<1>2. ASSUME NEW p \in Topic, BrokerSends(p) PROVE MqttOK'
  <2>1. UNCHANGED <<pc, link, reconnects, topicVars, brokerVars, listens, wanted>>
    BY <1>2 DEF BrokerSends
  <2> QED BY <2>1, LevelsStay DEF MqttOK, MqttTypes
<1> QED BY <1>1, <1>2

LEMMA MqttRequestKeeps ==
  ASSUME MqttOK, NEW t \in Request, MqttRequest(t)
  PROVE  MqttOK'
<1>1. CASE Acknowledged(t)
  <2>1. UNCHANGED <<link, reconnects, brokerQos>> /\ pc[t] = "acking"
    BY <1>1 DEF Acknowledged
  <2>2. CASE listens[t] = None
    <3>1. Ends(t)
      BY <1>1, <2>2 DEF Acknowledged
    <3> QED BY <2>1, <3>1, EndKeeps
  <2>3. CASE listens[t] # None
    <3>1. Goes(t, "waiting") /\ UNCHANGED <<topicVars, wire, requestVars>>
      BY <1>1, <2>3 DEF Acknowledged
    <3>2. pc' = [pc EXCEPT ![t] = "waiting"] /\ UNCHANGED <<listens, wanted, brokerVars>>
      BY <2>1, <3>1 DEF Goes, requestVars, brokerVars
    <3>3. DOMAIN pc = Task
      BY DEF MqttOK, MqttTypes
    <3>4. DOMAIN pc' = Task /\ \A u \in Task : pc[u] # "idle" => pc'[u] # "idle"
      BY <3>2, <3>3
    <3>5. pc'["event"] = pc["event"]
      BY <3>2, <3>3, HostConstants DEF Task, Background
    <3> QED BY <2>1, <3>1, <3>2, <3>4, <3>5, LevelsStay
  <2> QED BY <2>2, <2>3
<1>2. CASE Callback(t)
  <2>1. UNCHANGED <<pc, link, reconnects, topicVars, brokerVars, listens, wanted>>
    BY <1>2 DEF Callback
  <2> QED BY <2>1, LevelsStay DEF MqttOK, MqttTypes
<1>3. CASE Answered(t) \/ TimesOut(t)
  <2>1. Ends(t) /\ UNCHANGED <<link, reconnects, brokerQos>>
    BY <1>3 DEF Answered, TimesOut
  <2> QED BY <2>1, EndKeeps
<1> QED BY <1>1, <1>2, <1>3 DEF MqttRequest

LEMMA MqttKeep ==
  ASSUME MqttOK, MqttNext
  PROVE  MqttOK'
BY AskSubscribeKeeps, AskResponseKeeps, AskPublishKeeps, MqttRequestKeeps, ConnectionKeeps, BrokerKeeps
   DEF MqttNext

LEMMA MqttRest ==
  ASSUME MqttOK, UNCHANGED <<pc, mqttVars>>
  PROVE  MqttOK'
<1>1. UNCHANGED <<link, reconnects, topicVars, brokerVars, listens, wanted>>
  BY DEF mqttVars, requestVars
<1> QED BY <1>1, LevelsStay DEF MqttOK, MqttTypes
=============================================================================
