-------------------------- MODULE KlippyConnection --------------------------
(***************************************************************************)
(* Moonraker's connection to Klippy, klippy_connection.py: the task that   *)
(* connects and initializes, the closing of a lost connection and the      *)
(* reconnect, the requests waiting for an answer, the subscriptions with   *)
(* their lock and cache, and the status updates that run as tasks of their *)
(* own.  A step is the code from one await to the next.                    *)
(***************************************************************************)
EXTENDS Naturals, Sequences, FiniteSets

CONSTANTS
  Client,       \* API clients: each has at most one request under way
  Conn,         \* the connecting task, as one that sends requests
  MaxSessions   \* how often Klippy is started

ASSUME ConnIsNoClient == Conn \notin Client
ASSUME MaxSessionsAssumption == MaxSessions \in Nat

VARIABLES
  running,            \* server.is_running()
  klippy,             \* Klippy's own state, or "off"
  sessions,           \* how often Klippy was started
  link,               \* Klippy holds its end of the socket
  asked,              \* whose requests Klippy has and did not answer
  hookState,          \* the state Klippy last reported to its webhooks subscriber
  writer, closing,    \* writer is not None; closing
  closer,             \* close(): "none", "wait" for the mutex, "event": the handlers run
  conn,               \* where the connecting task is suspended; "none": it is done
  infoState,          \* the state in the reply to info
  startupState,       \* startup_state
  kstate,             \* _state
  identified, initializing, started, methodsRegistered,
  pending,            \* pending_requests
  req,                \* the request of each sender and its future
  subLock,            \* subscription_lock: the owner, then the waiters
  subs, cached,       \* subscriptions; webhooks.state in subscription_cache
  updates,            \* tasks of _process_status_update that have not run
  announced           \* history: events sent for this connection

klippyVars == <<klippy, sessions, link, asked, hookState>>
flagVars == <<identified, initializing, started, methodsRegistered>>
socketVars == <<writer, closing, closer>>
localVars == <<infoState, startupState>>
subVars == <<subLock, subs, cached>>
vars == <<running, klippyVars, socketVars, conn, localVars, kstate, flagVars,
          pending, req, subVars, updates, announced>>

Sender == Client \cup {Conn}
KlippyStates == {"startup", "ready", "error", "shutdown"}
Phases == {"none", "opening", "service", "sleep", "info", "identify", "endpoints",
           "webhooks", "outputs", "started", "methods", "ready"}
(* A request waits for the subscription lock, or its future is pending, *)
(* failed, or has a result: one with webhooks.state, or another.        *)
Requests == {"idle", "lock", "sent", "failed", "done"} \cup KlippyStates
Events == {"identified", "started", "ready", "shutdown"}

TypeOK ==
  /\ running \in BOOLEAN
  /\ klippy \in KlippyStates \cup {"off"}
  /\ sessions \in 0..MaxSessions
  /\ link \in BOOLEAN
  /\ asked \subseteq Sender
  /\ hookState \in KlippyStates \cup {"none"}
  /\ writer \in BOOLEAN /\ closing \in BOOLEAN
  /\ closer \in {"none", "wait", "event"}
  /\ conn \in Phases
  /\ infoState \in KlippyStates /\ startupState \in KlippyStates
  /\ kstate \in KlippyStates \cup {"disconnected"}
  /\ identified \in BOOLEAN /\ initializing \in BOOLEAN
  /\ started \in BOOLEAN /\ methodsRegistered \in BOOLEAN
  /\ pending \subseteq Sender
  /\ req \in [Sender -> Requests]
  /\ subLock \in Seq(Sender)
  /\ subs \subseteq Sender
  /\ cached \in KlippyStates \cup {"none"}
  /\ updates \in Seq(KlippyStates)
  /\ announced \subseteq Events

Init ==
  /\ running = TRUE
  /\ klippy = "off" /\ sessions = 0 /\ link = FALSE /\ asked = {} /\ hookState = "none"
  /\ writer = FALSE /\ closing = FALSE /\ closer = "none"
  /\ conn = "opening"
  /\ infoState = "startup" /\ startupState = "startup"
  /\ kstate = "disconnected"
  /\ identified = FALSE /\ initializing = FALSE
  /\ started = FALSE /\ methodsRegistered = FALSE
  /\ pending = {} /\ req = [r \in Sender |-> "idle"]
  /\ subLock = <<>> /\ subs = {} /\ cached = "none"
  /\ updates = <<>>
  /\ announced = {}

IsConnected == writer /\ ~closing
Answered(r) == req[r] \notin {"idle", "lock", "sent"}
Initializes == conn \in Phases \ {"none", "opening", "service"}
(* Mutant: the mutex is given back before the initialization. *)
HoldsMutexToConnect == conn \in {"opening", "service"} /\ closer # "event"

(* The mutex: the task holds it from its first step to its last; the one *)
(* that a closing connection creates waits until close() is through.     *)
HoldsMutex == conn # "none" /\ closer # "event"
(* Whatever is ready to run does so before a sleep of INIT_TIME is over. *)
Settled == updates = <<>> /\ \A c \in Client : ~Answered(c)
-----------------------------------------------------------------------------
(* Requests *)

(* Mutant: a request that cannot be written is dropped without an answer. *)
SendOrForget(r) ==
  IF IsConnected
  THEN /\ req' = [req EXCEPT ![r] = "sent"]
       /\ pending' = pending \cup {r}
       /\ asked' = IF link THEN asked \cup {r} ELSE asked
  ELSE /\ req' = [req EXCEPT ![r] = "sent"]
       /\ pending' = pending \cup {r}
       /\ UNCHANGED asked

(* _request_standard and _write_request: without a connection the future *)
(* fails at once.  What is written to a dead socket is not answered.     *)
Send(r) ==
  IF IsConnected
  THEN /\ req' = [req EXCEPT ![r] = "sent"]
       /\ pending' = pending \cup {r}
       /\ asked' = IF link THEN asked \cup {r} ELSE asked
  ELSE /\ req' = [req EXCEPT ![r] = "failed"]
       /\ UNCHANGED <<pending, asked>>

(* _request_subscripton up to its request: take the lock, or wait for it; *)
(* the subscription the sender has is dropped.                            *)
Subscribe(r) ==
  IF subLock = <<>>
  THEN /\ subLock' = <<r>>
       /\ subs' = subs \ {r}
       /\ Send(r)
  ELSE /\ subLock' = Append(subLock, r)
       /\ req' = [req EXCEPT ![r] = "lock"]
       /\ UNCHANGED <<subs, pending, asked>>

(* Mutant: Klippy's shutdown is announced whenever it is seen. *)
ApplyUndeferred(s) ==
  /\ kstate' = s
  /\ announced' = IF s = "shutdown" /\ kstate # "shutdown"
                  THEN announced \cup {"shutdown"} ELSE announced

(* _process_status_update of a webhooks state *)
Apply(s) ==
  /\ kstate' = s
  /\ announced' = IF s = "shutdown" /\ ~initializing /\ kstate # "shutdown"
                  THEN announced \cup {"shutdown"} ELSE announced

(* _request_subscripton once it is answered: a reply that differs from the *)
(* cache is pushed as an update, the cache follows the reply.              *)
SubscriptionAnswered(r) ==
  /\ IF req[r] \in KlippyStates
     THEN /\ cached' = req[r]
          /\ IF cached \notin {"none", req[r]} THEN Apply(req[r])
             ELSE UNCHANGED <<kstate, announced>>
     ELSE /\ cached' = IF req[r] = "done" THEN "none" ELSE cached
          /\ UNCHANGED <<kstate, announced>>
  /\ subs' = IF req[r] = "failed" THEN subs ELSE subs \cup {r}
  /\ subLock' = Tail(subLock)

(* A cancelled task leaves the lock, or those who wait for it. *)
Leaves(r) ==
  IF \E i \in 1..Len(subLock) : subLock[i] = r
  THEN LET i == CHOOSE i \in 1..Len(subLock) : subLock[i] = r
       IN  subLock' = [j \in 1..(Len(subLock) - 1) |-> subLock[IF j < i THEN j ELSE j + 1]]
  ELSE UNCHANGED subLock

SameSocket == UNCHANGED <<running, klippy, sessions, link, socketVars>>
SameInit == UNCHANGED <<conn, localVars, flagVars>>

ClientRequest(c) ==
  /\ req[c] = "idle" /\ IsConnected
  /\ \/ Send(c) /\ UNCHANGED <<subLock, subs>>
     \/ Subscribe(c)
  /\ UNCHANGED <<hookState, kstate, cached, updates, announced>>
  /\ SameSocket /\ SameInit

(* The lock is passed on; is_connected was looked at before the wait. *)
LockAcquired(r) ==
  /\ req[r] = "lock" /\ subLock # <<>> /\ Head(subLock) = r
  /\ subs' = subs \ {r}
  /\ Send(r)
  /\ UNCHANGED <<subLock, hookState, kstate, cached, updates, announced>>
  /\ SameSocket /\ SameInit

ClientAnswered(c) ==
  /\ Answered(c)
  /\ IF subLock # <<>> /\ Head(subLock) = c THEN SubscriptionAnswered(c)
     ELSE UNCHANGED <<subVars, kstate, announced>>
  /\ req' = [req EXCEPT ![c] = "idle"]
  /\ UNCHANGED <<asked, hookState, pending, updates>>
  /\ SameSocket /\ SameInit

(* KlippyRequest.wait: a subscription is given up after 20 s.  Klippy may *)
(* still have taken it.                                                   *)
SubscriptionTimesOut(r) ==
  /\ subLock # <<>> /\ Head(subLock) = r /\ req[r] = "sent"
  /\ req' = [req EXCEPT ![r] = "failed"]
  /\ pending' = pending \ {r}
  /\ asked' = asked \ {r}
  /\ hookState' \in {hookState} \cup
       (IF r \in asked /\ (r = Conn \/ Conn \in subs) THEN {klippy} ELSE {})
  /\ UNCHANGED <<subVars, kstate, updates, announced>>
  /\ SameSocket /\ SameInit

RemoveSubscription(c) ==
  /\ c \in subs
  /\ subs' = subs \ {c}
  /\ UNCHANGED <<asked, hookState, kstate, pending, req, subLock, cached, updates, announced>>
  /\ SameSocket /\ SameInit

(* A status update runs as a task, even if the connection has been closed. *)
RunUpdate ==
  /\ updates # <<>>
  /\ updates' = Tail(updates)
  /\ cached' = Head(updates)
  /\ Apply(Head(updates))
  /\ UNCHANGED <<asked, hookState, pending, req, subLock, subs>>
  /\ SameSocket /\ SameInit
-----------------------------------------------------------------------------
(* _do_connect and _init_klippy_connection *)

SameRequests == UNCHANGED <<asked, pending, req>>
SameKlippy == UNCHANGED <<klippy, sessions, link, hookState>>

(* The socket exists and accepts the connection. *)
Open ==
  /\ conn = "opening" /\ closer = "none" /\ Settled
  /\ running /\ klippy # "off"
  /\ writer' = TRUE
  /\ link' = TRUE /\ asked' = {} /\ hookState' = "none"
  /\ conn' = "service"
  /\ UNCHANGED <<running, klippy, sessions, closing, closer, localVars, kstate, flagVars,
                 pending, req, subVars, updates, announced>>

(* Mutant: the task ends in a phase of its own. *)
GiveUpAsClosed ==
  /\ conn = "opening" /\ closer = "none" /\ ~running
  /\ conn' = "closed"
  /\ UNCHANGED <<running, socketVars, localVars, kstate, flagVars, subVars, updates, announced>>
  /\ SameRequests /\ SameKlippy

GiveUp ==
  /\ conn = "opening" /\ closer = "none" /\ ~running
  /\ conn' = "none"
  /\ UNCHANGED <<running, socketVars, localVars, kstate, flagVars, subVars, updates, announced>>
  /\ SameRequests /\ SameKlippy

(* The service is known; from here on the socket is read. *)
InitBegins ==
  /\ conn = "service"
  /\ identified' = FALSE /\ started' = FALSE
  /\ initializing' = TRUE /\ methodsRegistered' = FALSE
  /\ kstate' = "startup"
  /\ conn' = IF running THEN "sleep" ELSE "none"
  /\ UNCHANGED <<running, socketVars, localVars, subVars, updates, announced>>
  /\ SameRequests /\ SameKlippy

(* The Conn task goes on with its next request, at another phase. *)
Request(phase) == conn' = phase /\ Send(Conn)

RequestInfo ==
  /\ conn = "sleep" /\ Settled
  /\ Request("info")
  /\ UNCHANGED <<running, socketVars, localVars, kstate, flagVars, subVars, updates, announced>>
  /\ SameKlippy

(* The end of one turn of the loop in _init_klippy_connection. *)
TryAgain ==
  /\ conn' = IF IsConnected /\ running THEN "sleep" ELSE "none"
  /\ initializing' = IF IsConnected THEN initializing ELSE FALSE
  /\ req' = [req EXCEPT ![Conn] = "idle"]
  /\ UNCHANGED <<pending, asked, subLock, subs>>

SetState(s) ==
  /\ kstate' = s
  /\ IF s = "startup" THEN TryAgain
     ELSE /\ conn' = "webhooks"
          /\ Subscribe(Conn)
          /\ UNCHANGED initializing

(* _check_ready *)
InfoAnswered ==
  /\ conn = "info" /\ Answered(Conn)
  /\ IF req[Conn] = "failed"
     THEN TryAgain /\ UNCHANGED <<kstate, identified, infoState, announced>>
     ELSE /\ infoState' = req[Conn]
          /\ IF identified
             THEN SetState(req[Conn]) /\ UNCHANGED <<identified, announced>>
             ELSE /\ identified' = TRUE
                  /\ announced' = announced \cup {"identified"}
                  /\ conn' = "identify"
                  /\ req' = [req EXCEPT ![Conn] = "idle"]
                  /\ UNCHANGED <<kstate, initializing, pending, asked, subLock, subs>>
  /\ UNCHANGED <<running, socketVars, startupState, started, methodsRegistered, cached, updates>>
  /\ SameKlippy

IdentifiedHandled ==
  /\ conn = "identify"
  /\ Request("endpoints")
  /\ UNCHANGED <<running, socketVars, localVars, kstate, flagVars, subVars, updates, announced>>
  /\ SameKlippy

EndpointsAnswered ==
  /\ conn = "endpoints" /\ Answered(Conn)
  /\ SetState(infoState)
  /\ UNCHANGED <<running, socketVars, localVars, identified, started, methodsRegistered,
                 cached, updates, announced>>
  /\ SameKlippy

(* What a failed subscription, or one without a reply, lacks is logged only. *)
WebhooksAnswered ==
  /\ conn = "webhooks" /\ Answered(Conn)
  /\ SubscriptionAnswered(Conn)
  /\ Request("outputs")
  /\ UNCHANGED <<running, socketVars, localVars, flagVars, updates>>
  /\ SameKlippy

(* The gcode output and the remaining endpoints; then "klippy_started". *)
OutputsAnswered ==
  /\ conn = "outputs" /\ Answered(Conn)
  /\ startupState' = kstate
  /\ announced' = announced \cup {"started"}
  /\ conn' = "started"
  /\ req' = [req EXCEPT ![Conn] = "idle"]
  /\ UNCHANGED <<running, socketVars, infoState, kstate, flagVars, pending, asked, subVars, updates>>
  /\ SameKlippy

Finish == conn' = "none" /\ initializing' = FALSE

StartedHandled ==
  /\ conn = "started"
  /\ started' = TRUE
  /\ IF kstate # "ready"
     THEN /\ announced' = IF kstate = "shutdown" /\ startupState # "shutdown"
                          THEN announced \cup {"shutdown"} ELSE announced
          /\ Finish
          /\ SameRequests
     ELSE /\ Request("methods")
          /\ UNCHANGED <<announced, initializing>>
  /\ UNCHANGED <<running, socketVars, localVars, kstate, identified, methodsRegistered,
                 subVars, updates>>
  /\ SameKlippy

(* The requirements and the registration of remote methods. *)
MethodsAnswered ==
  /\ conn = "methods" /\ Answered(Conn)
  /\ methodsRegistered' = TRUE
  /\ req' = [req EXCEPT ![Conn] = "idle"]
  /\ IF kstate = "ready"
     THEN /\ announced' = announced \cup {"ready"}
          /\ conn' = "ready"
          /\ UNCHANGED initializing
     ELSE Finish /\ UNCHANGED announced
  /\ UNCHANGED <<running, socketVars, localVars, kstate, identified, started,
                 pending, asked, subVars, updates>>
  /\ SameKlippy

ReadyHandled ==
  /\ conn = "ready"
  /\ announced' = IF kstate = "shutdown" THEN announced \cup {"shutdown"} ELSE announced
  /\ Finish
  /\ UNCHANGED <<running, socketVars, localVars, kstate, identified, started,
                 methodsRegistered, subVars, updates>>
  /\ SameRequests /\ SameKlippy
-----------------------------------------------------------------------------
(* close *)

(* The end of the stream, a failed write, or the server stops.  The task is  *)
(* cancelled at its await and leaves its locks; before Python 3.12 wait_for  *)
(* swallows the cancellation if the reply it waits for has just arrived.     *)
CloseBegins ==
  /\ ~closing
  /\ (writer /\ ~link) \/ (~running /\ (writer \/ conn # "none"))
  /\ closing' = TRUE
  /\ closer' = "wait"
  /\ \/ /\ conn' = "none"
        /\ req' = [req EXCEPT ![Conn] = "idle"]
        /\ pending' = pending \ {Conn}
        /\ asked' = asked \ {Conn}
        /\ Leaves(Conn)
     \/ /\ Answered(Conn)
        /\ UNCHANGED <<conn, req, pending, asked, subLock>>
  /\ UNCHANGED <<running, writer, localVars, kstate, flagVars, subs, cached, updates, announced>>
  /\ SameKlippy

(* Mutant: the connection is taken down without the mutex. *)
ConnectionClosedUnlocked ==
  /\ closer = "wait"
  /\ writer' = FALSE
  /\ link' = FALSE /\ asked' = {} /\ hookState' = "none"
  /\ identified' = FALSE /\ initializing' = FALSE
  /\ started' = FALSE /\ methodsRegistered' = FALSE
  /\ kstate' = "disconnected"
  /\ req' = [r \in Sender |-> IF req[r] = "sent" THEN "failed" ELSE req[r]]
  /\ pending' = {}
  /\ subs' = {} /\ cached' = "none"
  /\ announced' = {}
  /\ closer' = "event"
  /\ UNCHANGED <<running, klippy, sessions, closing, conn, localVars, subLock, updates>>

(* _on_connection_closed, up to the "klippy_disconnect" event *)
ConnectionClosed ==
  /\ closer = "wait" /\ ~HoldsMutex /\ writer
  /\ writer' = FALSE
  /\ link' = FALSE /\ asked' = {} /\ hookState' = "none"
  /\ identified' = FALSE /\ initializing' = FALSE
  /\ started' = FALSE /\ methodsRegistered' = FALSE
  /\ kstate' = "disconnected"
  /\ req' = [r \in Sender |-> IF req[r] = "sent" THEN "failed" ELSE req[r]]
  /\ pending' = {}
  /\ subs' = {} /\ cached' = "none"
  /\ announced' = {}
  /\ closer' = "event"
  /\ UNCHANGED <<running, klippy, sessions, closing, conn, localVars, subLock, updates>>

(* Mutant: closing is left set. *)
DisconnectHandledOnce ==
  /\ closer = "event"
  /\ closer' = "none"
  /\ conn' = IF running THEN "opening" ELSE conn
  /\ UNCHANGED <<running, writer, closing, localVars, kstate, flagVars, subVars, updates, announced>>
  /\ SameRequests /\ SameKlippy

(* The handlers are through: reconnect. *)
DisconnectHandled ==
  /\ closer = "event"
  /\ closer' = "none" /\ closing' = FALSE
  /\ conn' = IF running THEN "opening" ELSE conn
  /\ UNCHANGED <<running, writer, localVars, kstate, flagVars, subVars, updates, announced>>
  /\ SameRequests /\ SameKlippy

NothingToClose ==
  /\ closer = "wait" /\ ~HoldsMutex /\ ~writer
  /\ closer' = "none" /\ closing' = FALSE
  /\ UNCHANGED <<running, writer, conn, localVars, kstate, flagVars, subVars, updates, announced>>
  /\ SameRequests /\ SameKlippy

StopServer ==
  /\ running /\ running' = FALSE
  /\ UNCHANGED <<klippyVars, socketVars, conn, localVars, kstate, flagVars, pending, req,
                 subVars, updates, announced>>
-----------------------------------------------------------------------------
(* Klippy, the other process *)

SameMoonraker ==
  UNCHANGED <<running, socketVars, conn, localVars, kstate, flagVars, subVars, announced>>

KlippyStarts ==
  /\ klippy = "off" /\ sessions < MaxSessions
  /\ klippy' = "startup" /\ sessions' = sessions + 1
  /\ UNCHANGED <<link, asked, hookState, pending, req, updates>>
  /\ SameMoonraker

KlippyChanges ==
  /\ \/ klippy = "startup" /\ klippy' \in {"ready", "error", "shutdown"}
     \/ klippy = "ready" /\ klippy' = "shutdown"
  /\ UNCHANGED <<sessions, link, asked, hookState, pending, req, updates>>
  /\ SameMoonraker

(* Klippy ends, or restarts itself: either way the socket is closed. *)
KlippyExits ==
  /\ klippy # "off"
  /\ klippy' = "off"
  /\ link' = FALSE /\ asked' = {} /\ hookState' = "none"
  /\ UNCHANGED <<sessions, pending, req, updates>>
  /\ SameMoonraker

Readable == link /\ writer /\ ~closing /\ conn # "service"

(* The reply to a request is read; updates read before it have run.  The *)
(* reply to info, and to a subscription that includes webhooks, has the  *)
(* state.  info may fail while Klippy starts.                            *)
Answer(r) ==
  /\ Readable /\ r \in asked /\ updates = <<>>
  /\ asked' = asked \ {r}
  /\ pending' = pending \ {r}
  /\ LET subscription == subLock # <<>> /\ Head(subLock) = r
         webhooks == subscription /\ (r = Conn \/ Conn \in subs)
         stateful == webhooks \/ (r = Conn /\ conn = "info")
     IN  /\ \/ req' = [req EXCEPT ![r] = IF stateful THEN klippy ELSE "done"]
            \/ r = Conn /\ conn = "info" /\ klippy = "startup"
               /\ req' = [req EXCEPT ![r] = "failed"]
         /\ hookState' = IF webhooks THEN klippy ELSE hookState
  /\ UNCHANGED <<klippy, sessions, link, updates>>
  /\ SameMoonraker

(* Klippy reports what changed since the last report. *)
Notify ==
  /\ Readable /\ hookState \notin {"none", klippy}
  /\ hookState' = klippy
  /\ updates' = Append(updates, klippy)
  /\ UNCHANGED <<klippy, sessions, link, asked, pending, req>>
  /\ SameMoonraker
-----------------------------------------------------------------------------
ConnStep ==
  \/ Open \/ GiveUp \/ InitBegins \/ RequestInfo \/ InfoAnswered \/ IdentifiedHandled
  \/ EndpointsAnswered \/ WebhooksAnswered \/ OutputsAnswered \/ StartedHandled
  \/ MethodsAnswered \/ ReadyHandled
CloseStep == CloseBegins \/ ConnectionClosed \/ DisconnectHandled \/ NothingToClose

Next ==
  \/ ConnStep \/ CloseStep \/ StopServer \/ RunUpdate
  \/ KlippyStarts \/ KlippyChanges \/ KlippyExits \/ Notify
  \/ \E r \in Sender : Answer(r) \/ LockAcquired(r) \/ SubscriptionTimesOut(r)
  \/ \E c \in Client : ClientRequest(c) \/ ClientAnswered(c) \/ RemoveSubscription(c)

Spec == Init /\ [][Next]_vars

(* asyncio runs whatever is ready, and a sleep ends however busy the loop is *)
(* (Settled comes and goes while clients ask); Klippy answers while it lives. *)
Fairness ==
  /\ SF_vars(Open) /\ SF_vars(RequestInfo)
  /\ WF_vars(ConnStep) /\ WF_vars(CloseStep) /\ WF_vars(RunUpdate) /\ WF_vars(Notify)
  /\ \A r \in Sender : WF_vars(LockAcquired(r)) /\ WF_vars(Answer(r))
  /\ \A r \in Sender : WF_vars(SubscriptionTimesOut(r))
  /\ \A c \in Client : WF_vars(ClientAnswered(c))

FairSpec == Spec /\ Fairness
-----------------------------------------------------------------------------
(* Properties *)

(* Once a connection is down, nothing of its initialization is left over,  *)
(* although the task may have survived its cancellation and gone on, and no *)
(* request waits on it: each was in pending_requests, where the closing     *)
(* finds it, whenever it was sent (l.711, l.775, l.801).                    *)
ClosedMeansReset ==
  ~writer => /\ ~identified /\ ~started /\ ~methodsRegistered
             /\ ~Initializes
             /\ \A r \in Sender : req[r] # "sent"

(* While the connection lasts, nobody is told of a shutdown before          *)
(* "klippy_started": one that comes earlier is left to the init routine.    *)
ShutdownFollowsStarted ==
  [][writer /\ "shutdown" \in announced' \ announced => "started" \in announced']_vars

(* Listeners are told of connections one after the other, and of each in *)
(* order.                                                                *)
Told ==
  IF "ready" \in announced THEN "ready"
  ELSE IF "started" \in announced THEN "started"
  ELSE IF "identified" \in announced THEN "identified" ELSE "off"
Lifecycle == INSTANCE KlippyLifecycle WITH phase <- Told
ImplementsLifecycle == Lifecycle!Spec

(* A Klippy that stays up is connected to and initialized, however the     *)
(* connections before it ended.                                            *)
Reconnects ==
  <>[](running /\ klippy \in {"ready", "error", "shutdown"}) => <>[]started

(* Every request returns, answered or refused. *)
EveryRequestReturns == \A c \in Client : req[c] # "idle" ~> req[c] = "idle"

(* klippy_connection.py:589 says of a shutdown received during the          *)
(* initialization that the event is deferred, and the init routine will     *)
(* handle it.  Here: once that routine is through, either the event was     *)
(* sent or Klippy was announced as shut down from the start.                *)
DeferredShutdownHandled ==
  started /\ conn = "none" /\ IsConnected /\ kstate = "shutdown" =>
    "shutdown" \in announced \/ startupState = "shutdown"

(* docs/external_api/server.md:57 says that klippy_state is Klippy's        *)
(* current state.  Here: once initialized and with nothing left to read.    *)
StateIsCurrent ==
  started /\ conn = "none" /\ IsConnected /\ link /\ updates = <<>>
    /\ hookState = klippy /\ (\A r \in Sender : req[r] = "idle")
  => kstate = klippy
=============================================================================
