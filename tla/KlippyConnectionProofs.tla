----------------------- MODULE KlippyConnectionProofs -----------------------
(***************************************************************************)
(* The safety of the connection to Klippy for any number of clients and    *)
(* sessions.  The task that initializes a connection is past its opening    *)
(* only while there is a writer, and no connection is taken down before it   *)
(* ends; until it has subscribed, Klippy reports nothing.  From these two     *)
(* follow what is reset, what is told, and in which order.                     *)
(***************************************************************************)
EXTENDS KlippyConnection, TLAPS

(* Klippy lives while its end of the socket does, and is asked only then. *)
LinkOK ==
  /\ link => klippy # "off"
  /\ asked # {} => link

(* Whom Klippy is to answer still waits for it; the connecting task has a *)
(* request only where it waits for one.                                    *)
AskedOK ==
  /\ \A r \in asked : req[r] = "sent"
  /\ conn \notin {"info", "endpoints", "webhooks", "outputs", "methods"} => req[Conn] = "idle"

(* The connecting task is past its opening only with a writer; handlers of a *)
(* lost connection run, and a new one is opened, without.                     *)
SocketOK ==
  /\ conn \notin {"none", "opening"} => writer
  /\ conn = "opening" \/ closer = "event" => ~writer
  /\ closer = "event" => conn = "none"

(* The connecting task is once at the subscription lock while it subscribes, *)
(* else never, and waits unless it is first.                                  *)
LockOK ==
  /\ conn = "webhooks" => \E i \in 1..Len(subLock) : subLock[i] = Conn
  /\ \A i \in 1..Len(subLock) :
       subLock[i] = Conn => conn = "webhooks" /\ (i = 1 \/ req[Conn] = "lock")
  /\ \A i, j \in 1..Len(subLock) : subLock[i] = Conn /\ subLock[j] = Conn => i = j

(* While it initializes, the flag is set and there is a state; the answer to *)
(* info is one.                                                               *)
InitOK ==
  /\ Initializes => initializing /\ kstate # "disconnected"
  /\ conn = "info" => req[Conn] \in {"sent", "failed"} \cup KlippyStates

(* Without a writer nothing of a connection is left. *)
ClosedOK ==
  ~writer => /\ ~identified /\ ~started /\ ~methodsRegistered
             /\ \A r \in Sender : req[r] # "sent"
             /\ Conn \notin subs

(* What was announced, by where the connecting task is. *)
ToldOK ==
  /\ identified <=> "identified" \in announced
  /\ conn = "service" => ~identified
  /\ conn \in {"identify", "endpoints", "webhooks", "outputs"} => identified
  /\ \/ conn \in {"service", "sleep", "info", "identify", "endpoints", "webhooks", "outputs"}
     \/ ~writer
     => "started" \notin announced
  /\ "ready" \in announced => "started" \in announced
  /\ conn \in {"started", "methods", "ready"} => "started" \in announced
  /\ conn \in {"started", "methods"} => "ready" \notin announced

(* The connecting task has not subscribed to webhooks, or never will. *)
Unsubscribed ==
  /\ writer /\ "started" \notin announced
  /\ ~initializing \/ conn \in {"service", "sleep", "info", "identify", "endpoints"}

(* Until then Klippy reports no state, and no client is told of one. *)
QuietOK ==
  Unsubscribed =>
    /\ updates = <<>> /\ hookState = "none" /\ Conn \notin subs
    /\ \A c \in Client : req[c] \notin KlippyStates

IInv ==
  /\ TypeOK /\ LinkOK /\ AskedOK /\ SocketOK
  /\ LockOK /\ InitOK /\ ClosedOK /\ ToldOK /\ QuietOK

LEMMA InitIInv == Init => IInv
<1> SUFFICES ASSUME Init PROVE IInv
  OBVIOUS
<1>1. req \in [Sender -> Requests] /\ subLock \in Seq(Sender) /\ updates \in Seq(KlippyStates)
  BY DEF Init, Requests
<1>2. sessions \in 0..MaxSessions
  BY MaxSessionsAssumption DEF Init
<1>3. TypeOK
  BY <1>1, <1>2 DEF Init, TypeOK, KlippyStates, Phases
<1>4. LinkOK /\ AskedOK /\ SocketOK /\ LockOK /\ InitOK
  BY DEF AskedOK, LinkOK, SocketOK, LockOK, InitOK, Initializes, Sender, Init
<1>5. ClosedOK /\ ToldOK /\ QuietOK
  BY DEF ClosedOK, ToldOK, QuietOK, Sender, KlippyStates, Init
<1>6. QED
  BY <1>3, <1>4, <1>5 DEF IInv

(* What a client or the other process does to its request *)
RequestStep(r) == Answer(r) \/ LockAcquired(r) \/ SubscriptionTimesOut(r)
ClientStep(c) == ClientRequest(c) \/ ClientAnswered(c) \/ RemoveSubscription(c)
KlippyStep == KlippyStarts \/ KlippyChanges \/ KlippyExits \/ Notify
-----------------------------------------------------------------------------
(* Types *)

WorldTypes ==
  /\ running \in BOOLEAN /\ klippy \in KlippyStates \cup {"off"} /\ sessions \in 0..MaxSessions
  /\ link \in BOOLEAN /\ hookState \in KlippyStates \cup {"none"}
FlagTypes ==
  /\ writer \in BOOLEAN /\ closing \in BOOLEAN
  /\ identified \in BOOLEAN /\ initializing \in BOOLEAN
  /\ started \in BOOLEAN /\ methodsRegistered \in BOOLEAN
PhaseTypes ==
  /\ closer \in {"none", "wait", "event"} /\ conn \in Phases
  /\ infoState \in KlippyStates /\ startupState \in KlippyStates
  /\ kstate \in KlippyStates \cup {"disconnected"}
  /\ announced \subseteq Events
RequestTypes == asked \subseteq Sender /\ pending \subseteq Sender /\ req \in [Sender -> Requests]
SubTypes ==
  /\ subLock \in Seq(Sender) /\ subs \subseteq Sender
  /\ cached \in KlippyStates \cup {"none"} /\ updates \in Seq(KlippyStates)

LEMMA TypeParts == TypeOK <=> WorldTypes /\ FlagTypes /\ PhaseTypes /\ RequestTypes /\ SubTypes
BY DEF TypeOK, WorldTypes, FlagTypes, PhaseTypes, RequestTypes, SubTypes

LEMMA SendTypes ==
  ASSUME RequestTypes, NEW r \in Sender, Send(r)
  PROVE  RequestTypes'
BY DEF RequestTypes, Send, Requests, KlippyStates

LEMMA SubscribeTypes ==
  ASSUME RequestTypes, SubTypes, NEW r \in Sender, Subscribe(r), UNCHANGED <<cached, updates>>
  PROVE  RequestTypes' /\ SubTypes'
<1>1. RequestTypes'
  BY SendTypes DEF Subscribe, RequestTypes, Requests, KlippyStates
<1>2. subLock' \in Seq(Sender)
  <2>1. CASE subLock = <<>>
    <3>1. subLock' = <<r>>
      BY <2>1 DEF Subscribe
    <3>2. QED
      BY <3>1
  <2>2. CASE subLock # <<>>
    <3>1. subLock' = Append(subLock, r)
      BY <2>2 DEF Subscribe
    <3>2. QED
      BY <3>1 DEF SubTypes
  <2>3. QED
    BY <2>1, <2>2
<1>3. subs' \subseteq Sender
  BY DEF Subscribe, SubTypes
<1>4. QED
  BY <1>1, <1>2, <1>3 DEF SubTypes

LEMMA AnsweredTypes ==
  ASSUME TypeOK, NEW r \in Sender, SubscriptionAnswered(r)
  PROVE  /\ kstate' \in KlippyStates \cup {"disconnected"}
         /\ announced' \subseteq Events
         /\ cached' \in KlippyStates \cup {"none"}
         /\ subs' \subseteq Sender
<1>1. \/ kstate' \in KlippyStates /\ announced' \in {announced, announced \cup {"shutdown"}}
      \/ UNCHANGED <<kstate, announced>>
  BY DEF SubscriptionAnswered, Apply
<1>2. cached' \in KlippyStates \cup {"none"}
  BY DEF SubscriptionAnswered, TypeOK
<1>3. subs' \subseteq Sender
  BY DEF SubscriptionAnswered, TypeOK
<1>4. QED
  BY <1>1, <1>2, <1>3 DEF TypeOK, Events

LEMMA TailTypes ==
  ASSUME NEW S, NEW s \in Seq(S), s # <<>>
  PROVE  Tail(s) \in Seq(S) /\ Head(s) \in S
OBVIOUS

LEMMA LeavesTypes ==
  ASSUME subLock \in Seq(Sender), Leaves(Conn)
  PROVE  subLock' \in Seq(Sender)
<1>1. CASE \E i \in 1..Len(subLock) : subLock[i] = Conn
  <2> DEFINE i == CHOOSE i \in 1..Len(subLock) : subLock[i] = Conn
             n == Len(subLock)
  <2>1. n \in Nat \ {0} /\ i \in 1..n /\ subLock' = [j \in 1..(n - 1) |-> subLock[IF j < i THEN j ELSE j + 1]]
    BY <1>1 DEF Leaves
  <2> HIDE DEF i, n
  <2>2. \A j \in 1..n : subLock[j] \in Sender
    BY DEF n
  <2>3. \A j \in 1..(n - 1) : (IF j < i THEN j ELSE j + 1) \in 1..n
    BY <2>1
  <2>4. subLock' \in [1..(n - 1) -> Sender] /\ n - 1 \in Nat
    BY <2>1, <2>2, <2>3
  <2>5. QED
    BY <2>4
<1>2. QED
  BY <1>1 DEF Leaves


LEMMA NextWorldTypes == IInv /\ [Next]_vars => WorldTypes'
<1> SUFFICES ASSUME IInv, [Next]_vars PROVE WorldTypes'
  OBVIOUS
<1>1. CASE ConnStep
  <2>1. CASE Open
    BY <2>1 DEF IInv, Open, TypeOK, WorldTypes
  <2>2. CASE GiveUp
    BY <2>2 DEF IInv, GiveUp, SameKlippy, TypeOK, WorldTypes
  <2>3. CASE InitBegins
    BY <2>3 DEF IInv, InitBegins, SameKlippy, TypeOK, WorldTypes
  <2>4. CASE RequestInfo
    BY <2>4 DEF IInv, RequestInfo, SameKlippy, TypeOK, WorldTypes
  <2>5. CASE InfoAnswered
    BY <2>5 DEF IInv, InfoAnswered, SameKlippy, TypeOK, WorldTypes
  <2>6. CASE IdentifiedHandled
    BY <2>6 DEF IInv, IdentifiedHandled, SameKlippy, TypeOK, WorldTypes
  <2>7. CASE EndpointsAnswered
    BY <2>7 DEF IInv, EndpointsAnswered, SameKlippy, TypeOK, WorldTypes
  <2>8. CASE WebhooksAnswered
    BY <2>8 DEF IInv, WebhooksAnswered, SameKlippy, TypeOK, WorldTypes
  <2>9. CASE OutputsAnswered
    BY <2>9 DEF IInv, OutputsAnswered, SameKlippy, TypeOK, WorldTypes
  <2>10. CASE StartedHandled
    BY <2>10 DEF IInv, StartedHandled, SameKlippy, TypeOK, WorldTypes
  <2>11. CASE MethodsAnswered
    BY <2>11 DEF IInv, MethodsAnswered, SameKlippy, TypeOK, WorldTypes
  <2>12. CASE ReadyHandled
    BY <2>12 DEF IInv, ReadyHandled, SameKlippy, TypeOK, WorldTypes
  <2>13. QED
    BY <1>1, <2>1, <2>2, <2>3, <2>4, <2>5, <2>6, <2>7, <2>8, <2>9, <2>10, <2>11, <2>12 DEF ConnStep
<1>2. CASE CloseStep
  BY <1>2, ConnIsNoClient, MaxSessionsAssumption
  DEF IInv, CloseStep, CloseBegins, ConnectionClosed, DisconnectHandled, NothingToClose,
      SameKlippy, SameRequests, localVars, flagVars, subVars, TypeOK, AskedOK, LinkOK, SocketOK,
      LockOK, InitOK, ClosedOK, ToldOK, QuietOK, Unsubscribed, Initializes, Answered,
      HoldsMutex, Phases, Sender, Leaves, KlippyStates, Requests, Events, WorldTypes
<1>3. CASE StopServer \/ RunUpdate
  BY <1>3, ConnIsNoClient, MaxSessionsAssumption
  DEF IInv, StopServer, RunUpdate, SameSocket, SameInit, klippyVars, socketVars, localVars,
      flagVars, subVars, Apply, TypeOK, AskedOK, LinkOK, SocketOK, LockOK, InitOK, ClosedOK,
      ToldOK, QuietOK, Unsubscribed, Initializes, Phases, Sender, KlippyStates, Requests,
      Events, WorldTypes
<1>4. CASE KlippyStep
  <2>1. CASE KlippyStarts
    BY <2>1, MaxSessionsAssumption
    DEF IInv, KlippyStarts, SameMoonraker, TypeOK, KlippyStates, WorldTypes
  <2>2. CASE KlippyChanges
    BY <2>2 DEF IInv, KlippyChanges, SameMoonraker, TypeOK, KlippyStates, WorldTypes
  <2>3. CASE KlippyExits
    BY <2>3, ConnIsNoClient, MaxSessionsAssumption
    DEF IInv, KlippyExits, SameMoonraker, socketVars, localVars, flagVars, subVars, TypeOK,
        AskedOK, LinkOK, SocketOK, LockOK, InitOK, ClosedOK, ToldOK, QuietOK, Unsubscribed,
        Initializes, Phases, Sender, KlippyStates, Requests, Events, WorldTypes
  <2>4. CASE Notify
    BY <2>4 DEF IInv, Notify, SameMoonraker, TypeOK, LinkOK, Readable, WorldTypes
  <2>5. QED
    BY <1>4, <2>1, <2>2, <2>3, <2>4 DEF KlippyStep
<1>5. ASSUME NEW r \in Sender, RequestStep(r) PROVE WorldTypes'
  BY <1>5
  DEF IInv, RequestStep, Answer, LockAcquired, SubscriptionTimesOut, SameSocket, SameMoonraker,
      TypeOK, LinkOK, WorldTypes
<1>6. ASSUME NEW c \in Client, ClientStep(c) PROVE WorldTypes'
  BY <1>6
  DEF IInv, ClientStep, ClientRequest, ClientAnswered, RemoveSubscription, SameSocket, TypeOK,
      WorldTypes
<1>7. CASE UNCHANGED vars
  BY <1>7 DEF IInv, vars, klippyVars, TypeOK, WorldTypes
<1>8. QED
  BY <1>1, <1>2, <1>3, <1>4, <1>5, <1>6, <1>7 DEF Next, KlippyStep, RequestStep, ClientStep

LEMMA NextFlagTypes == IInv /\ [Next]_vars => FlagTypes'
<1> SUFFICES ASSUME IInv, [Next]_vars PROVE FlagTypes'
  OBVIOUS
<1>1. CASE ConnStep
  <2>1. CASE Open
    BY <2>1 DEF IInv, Open, flagVars, TypeOK, FlagTypes
  <2>2. CASE GiveUp
    BY <2>2 DEF IInv, GiveUp, socketVars, flagVars, TypeOK, FlagTypes
  <2>3. CASE InitBegins
    BY <2>3, ConnIsNoClient
    DEF IInv, InitBegins, SameKlippy, SameRequests, socketVars, localVars, subVars, TypeOK,
        AskedOK, LinkOK, SocketOK, LockOK, InitOK, ClosedOK, ToldOK, QuietOK, Unsubscribed,
        Initializes, Phases, Sender, KlippyStates, Requests, Events, FlagTypes
  <2>4. CASE RequestInfo
    BY <2>4 DEF IInv, RequestInfo, socketVars, flagVars, TypeOK, FlagTypes
  <2>5. CASE InfoAnswered
    BY <2>5, ConnIsNoClient
    DEF IInv, InfoAnswered, SameKlippy, socketVars, Send, TryAgain, SetState, Subscribe,
        IsConnected, TypeOK, AskedOK, LinkOK, SocketOK, LockOK, InitOK, ClosedOK, ToldOK,
        QuietOK, Unsubscribed, Initializes, Answered, Phases, Sender, KlippyStates, Requests,
        Events, FlagTypes
  <2>6. CASE IdentifiedHandled
    BY <2>6 DEF IInv, IdentifiedHandled, socketVars, flagVars, TypeOK, FlagTypes
  <2>7. CASE EndpointsAnswered
    BY <2>7, ConnIsNoClient
    DEF IInv, EndpointsAnswered, SameKlippy, socketVars, localVars, Send, TryAgain, SetState,
        Subscribe, IsConnected, TypeOK, AskedOK, LinkOK, SocketOK, LockOK, InitOK, ClosedOK,
        ToldOK, QuietOK, Unsubscribed, Initializes, Answered, Phases, Sender, KlippyStates,
        Requests, Events, FlagTypes
  <2>8. CASE WebhooksAnswered
    BY <2>8 DEF IInv, WebhooksAnswered, socketVars, flagVars, TypeOK, FlagTypes
  <2>9. CASE OutputsAnswered
    BY <2>9 DEF IInv, OutputsAnswered, socketVars, flagVars, TypeOK, FlagTypes
  <2>10. CASE StartedHandled
    BY <2>10, ConnIsNoClient
    DEF IInv, StartedHandled, SameKlippy, SameRequests, socketVars, localVars, subVars, Request,
        Send, Finish, IsConnected, TypeOK, AskedOK, LinkOK, SocketOK, LockOK, InitOK, ClosedOK,
        ToldOK, QuietOK, Unsubscribed, Initializes, Phases, Sender, KlippyStates, Requests,
        Events, FlagTypes
  <2>11. CASE MethodsAnswered
    BY <2>11, ConnIsNoClient
    DEF IInv, MethodsAnswered, SameKlippy, socketVars, localVars, subVars, Finish, TypeOK,
        AskedOK, LinkOK, SocketOK, LockOK, InitOK, ClosedOK, ToldOK, QuietOK, Unsubscribed,
        Initializes, Answered, Phases, Sender, KlippyStates, Requests, Events, FlagTypes
  <2>12. CASE ReadyHandled
    BY <2>12, ConnIsNoClient
    DEF IInv, ReadyHandled, SameKlippy, SameRequests, socketVars, localVars, subVars, Finish,
        TypeOK, AskedOK, LinkOK, SocketOK, LockOK, InitOK, ClosedOK, ToldOK, QuietOK,
        Unsubscribed, Initializes, Phases, Sender, KlippyStates, Requests, Events, FlagTypes
  <2>13. QED
    BY <1>1, <2>1, <2>2, <2>3, <2>4, <2>5, <2>6, <2>7, <2>8, <2>9, <2>10, <2>11, <2>12 DEF ConnStep
<1>2. CASE CloseStep
  BY <1>2, ConnIsNoClient
  DEF IInv, CloseStep, CloseBegins, ConnectionClosed, DisconnectHandled, NothingToClose,
      SameKlippy, SameRequests, localVars, flagVars, subVars, TypeOK, AskedOK, LinkOK, SocketOK,
      LockOK, InitOK, ClosedOK, ToldOK, QuietOK, Unsubscribed, Initializes, Answered,
      HoldsMutex, Phases, Sender, Leaves, KlippyStates, Requests, Events, FlagTypes
<1>3. CASE StopServer \/ RunUpdate
  BY <1>3
  DEF IInv, StopServer, RunUpdate, SameSocket, SameInit, socketVars, flagVars, TypeOK, FlagTypes
<1>4. CASE KlippyStep
  BY <1>4
  DEF IInv, KlippyStep, KlippyStarts, KlippyChanges, KlippyExits, Notify, SameMoonraker,
      socketVars, flagVars, TypeOK, FlagTypes
<1>5. ASSUME NEW r \in Sender, RequestStep(r) PROVE FlagTypes'
  BY <1>5
  DEF IInv, RequestStep, Answer, LockAcquired, SubscriptionTimesOut, SameSocket, SameInit,
      SameMoonraker, socketVars, flagVars, TypeOK, FlagTypes
<1>6. ASSUME NEW c \in Client, ClientStep(c) PROVE FlagTypes'
  BY <1>6
  DEF IInv, ClientStep, ClientRequest, ClientAnswered, RemoveSubscription, SameSocket, SameInit,
      socketVars, flagVars, TypeOK, FlagTypes
<1>7. CASE UNCHANGED vars
  BY <1>7 DEF IInv, vars, socketVars, flagVars, TypeOK, FlagTypes
<1>8. QED
  BY <1>1, <1>2, <1>3, <1>4, <1>5, <1>6, <1>7 DEF Next, KlippyStep, RequestStep, ClientStep

LEMMA NextPhaseTypes == IInv /\ [Next]_vars => PhaseTypes'
<1> SUFFICES ASSUME IInv, [Next]_vars PROVE PhaseTypes'
  OBVIOUS
<1>1. CASE ConnStep
  <2>1. CASE Open
    BY <2>1 DEF IInv, Open, localVars, TypeOK, Phases, PhaseTypes
  <2>2. CASE GiveUp
    BY <2>2 DEF IInv, GiveUp, socketVars, localVars, TypeOK, Phases, PhaseTypes
  <2>3. CASE InitBegins
    BY <2>3
    DEF IInv, InitBegins, socketVars, localVars, TypeOK, Phases, KlippyStates, PhaseTypes
  <2>4. CASE RequestInfo
    BY <2>4 DEF IInv, RequestInfo, socketVars, localVars, Request, TypeOK, Phases, PhaseTypes
  <2>5. CASE InfoAnswered
    <3>1. conn' \in Phases
      BY <2>5 DEF InfoAnswered, TryAgain, SetState, Phases
    <3>2. infoState' \in KlippyStates /\ kstate' \in KlippyStates \cup {"disconnected"}
      <4>1. req[Conn] \in {"failed"} \cup KlippyStates
        BY <2>5 DEF InfoAnswered, Answered, IInv, InitOK
      <4>2. QED
        BY <2>5, <4>1 DEF InfoAnswered, SetState, IInv, TypeOK, KlippyStates
    <3>3. announced' \subseteq Events
      BY <2>5 DEF InfoAnswered, IInv, TypeOK, Events
    <3>4. QED
      BY <2>5, <3>1, <3>2, <3>3 DEF InfoAnswered, socketVars, IInv, TypeOK, PhaseTypes
  <2>6. CASE IdentifiedHandled
    BY <2>6
    DEF IInv, IdentifiedHandled, socketVars, localVars, Request, TypeOK, Phases, PhaseTypes
  <2>7. CASE EndpointsAnswered
    BY <2>7, ConnIsNoClient, AnsweredTypes, TailTypes
    DEF IInv, EndpointsAnswered, SameKlippy, socketVars, localVars, Send, TryAgain, SetState,
        Subscribe, IsConnected, TypeOK, AskedOK, LinkOK, SocketOK, LockOK, InitOK, ClosedOK,
        ToldOK, QuietOK, Unsubscribed, Initializes, Answered, Phases, Sender, KlippyStates,
        Requests, Events, PhaseTypes
  <2>8. CASE WebhooksAnswered
    BY <2>8, ConnIsNoClient, AnsweredTypes, TailTypes
    DEF IInv, WebhooksAnswered, SameKlippy, socketVars, localVars, flagVars, Request, Send,
        Apply, SubscriptionAnswered, IsConnected, TypeOK, AskedOK, LinkOK, SocketOK, LockOK,
        InitOK, ClosedOK, ToldOK, QuietOK, Unsubscribed, Initializes, Answered, Phases, Sender,
        KlippyStates, Requests, Events, PhaseTypes
  <2>9. CASE OutputsAnswered
    BY <2>9
    DEF IInv, OutputsAnswered, socketVars, TypeOK, InitOK, Initializes, Phases, Events,
        PhaseTypes
  <2>10. CASE StartedHandled
    <3>1. conn' \in Phases
      BY <2>10 DEF StartedHandled, Finish, Request, Phases
    <3>2. announced' \subseteq Events
      BY <2>10 DEF StartedHandled, IInv, TypeOK, Events
    <3>3. QED
      BY <2>10, <3>1, <3>2 DEF StartedHandled, socketVars, localVars, IInv, TypeOK, PhaseTypes
  <2>11. CASE MethodsAnswered
    <3>1. conn' \in Phases
      BY <2>11 DEF MethodsAnswered, Finish, Phases
    <3>2. announced' \subseteq Events
      BY <2>11 DEF MethodsAnswered, IInv, TypeOK, Events
    <3>3. QED
      BY <2>11, <3>1, <3>2 DEF MethodsAnswered, socketVars, localVars, IInv, TypeOK, PhaseTypes
  <2>12. CASE ReadyHandled
    BY <2>12
    DEF IInv, ReadyHandled, socketVars, localVars, Finish, TypeOK, Phases, Events, PhaseTypes
  <2>13. QED
    BY <1>1, <2>1, <2>2, <2>3, <2>4, <2>5, <2>6, <2>7, <2>8, <2>9, <2>10, <2>11, <2>12 DEF ConnStep
<1>2. CASE CloseStep
  BY <1>2
  DEF IInv, CloseStep, CloseBegins, ConnectionClosed, DisconnectHandled, NothingToClose,
      localVars, TypeOK, Phases, Leaves, PhaseTypes
<1>3. CASE StopServer \/ RunUpdate
  <2>1. CASE StopServer
    BY <2>1 DEF StopServer, socketVars, localVars, IInv, TypeOK, PhaseTypes
  <2>2. CASE RunUpdate
    <3>1. Head(updates) \in KlippyStates
      BY <2>2 DEF RunUpdate, IInv, TypeOK
    <3>2. kstate' \in KlippyStates \cup {"disconnected"} /\ announced' \subseteq Events
      BY <2>2, <3>1 DEF RunUpdate, Apply, IInv, TypeOK, Events
    <3>3. QED
      BY <2>2, <3>2 DEF RunUpdate, SameSocket, SameInit, socketVars, localVars, IInv, TypeOK, PhaseTypes
  <2>3. QED
    BY <1>3, <2>1, <2>2
<1>4. CASE KlippyStep
  <2>1. CASE KlippyStarts
    BY <2>1 DEF KlippyStarts, SameMoonraker, socketVars, localVars, IInv, TypeOK, PhaseTypes
  <2>2. CASE KlippyChanges
    BY <2>2 DEF KlippyChanges, SameMoonraker, socketVars, localVars, IInv, TypeOK, PhaseTypes
  <2>3. CASE KlippyExits
    BY <2>3 DEF KlippyExits, SameMoonraker, socketVars, localVars, IInv, TypeOK, PhaseTypes
  <2>4. CASE Notify
    BY <2>4 DEF Notify, SameMoonraker, socketVars, localVars, IInv, TypeOK, PhaseTypes
  <2>5. QED
    BY <1>4, <2>1, <2>2, <2>3, <2>4 DEF KlippyStep
<1>5. ASSUME NEW r \in Sender, RequestStep(r) PROVE PhaseTypes'
  <2>1. CASE Answer(r)
    BY <2>1 DEF Answer, SameMoonraker, socketVars, localVars, IInv, TypeOK, PhaseTypes
  <2>2. CASE LockAcquired(r)
    BY <2>2 DEF LockAcquired, SameSocket, SameInit, socketVars, localVars, IInv, TypeOK, PhaseTypes
  <2>3. CASE SubscriptionTimesOut(r)
    BY <2>3 DEF SubscriptionTimesOut, SameSocket, SameInit, socketVars, localVars, IInv, TypeOK, PhaseTypes
  <2>4. QED
    BY <1>5, <2>1, <2>2, <2>3 DEF RequestStep
<1>6. ASSUME NEW c \in Client, ClientStep(c) PROVE PhaseTypes'
  <2>1. CASE ClientRequest(c)
    BY <2>1
    DEF IInv, ClientRequest, SameSocket, SameInit, socketVars, localVars, TypeOK, PhaseTypes
  <2>2. CASE ClientAnswered(c)
    <3>1. kstate' \in KlippyStates \cup {"disconnected"} /\ announced' \subseteq Events
      BY <2>2, AnsweredTypes DEF ClientAnswered, Sender, IInv, TypeOK
    <3>2. QED
      BY <2>2, <3>1 DEF ClientAnswered, SameSocket, SameInit, socketVars, localVars, IInv, TypeOK,
                     PhaseTypes
  <2>3. CASE RemoveSubscription(c)
    BY <2>3
    DEF IInv, RemoveSubscription, SameSocket, SameInit, socketVars, localVars, TypeOK,
        PhaseTypes
  <2>4. QED
    BY <1>6, <2>1, <2>2, <2>3 DEF ClientStep
<1>7. CASE UNCHANGED vars
  BY <1>7 DEF IInv, vars, socketVars, localVars, TypeOK, PhaseTypes
<1>8. QED
  BY <1>1, <1>2, <1>3, <1>4, <1>5, <1>6, <1>7 DEF Next, KlippyStep, RequestStep, ClientStep

LEMMA NextRequestTypes == IInv /\ [Next]_vars => RequestTypes'
<1> SUFFICES ASSUME IInv, [Next]_vars PROVE RequestTypes'
  OBVIOUS
<1>1. CASE ConnStep
  <2>1. CASE Open
    BY <2>1 DEF IInv, Open, TypeOK, RequestTypes
  <2>2. CASE GiveUp
    BY <2>2 DEF IInv, GiveUp, SameRequests, TypeOK, RequestTypes
  <2>3. CASE InitBegins
    BY <2>3 DEF IInv, InitBegins, SameRequests, TypeOK, RequestTypes
  <2>4. CASE RequestInfo
    BY <2>4 DEF IInv, RequestInfo, Request, Send, TypeOK, Sender, Requests, RequestTypes
  <2>5. CASE InfoAnswered
    <3>1. CASE Subscribe(Conn)
      BY <2>5, <3>1, SubscribeTypes DEF InfoAnswered, Sender, IInv, TypeOK, RequestTypes, SubTypes
    <3>2. CASE ~Subscribe(Conn)
      BY <2>5, <3>2 DEF InfoAnswered, SetState, TryAgain, IInv, TypeOK, RequestTypes, Requests
    <3>3. QED
      BY <3>1, <3>2
  <2>6. CASE IdentifiedHandled
    BY <2>6 DEF IInv, IdentifiedHandled, Request, Send, TypeOK, Sender, Requests, RequestTypes
  <2>7. CASE EndpointsAnswered
    <3>1. CASE Subscribe(Conn)
      BY <2>7, <3>1, SubscribeTypes DEF EndpointsAnswered, Sender, IInv, TypeOK, RequestTypes, SubTypes
    <3>2. CASE ~Subscribe(Conn)
      BY <2>7, <3>2 DEF EndpointsAnswered, SetState, TryAgain, IInv, TypeOK, RequestTypes, Requests
    <3>3. QED
      BY <3>1, <3>2
  <2>8. CASE WebhooksAnswered
    BY <2>8 DEF IInv, WebhooksAnswered, Request, Send, TypeOK, Sender, Requests, RequestTypes
  <2>9. CASE OutputsAnswered
    BY <2>9 DEF IInv, OutputsAnswered, TypeOK, Sender, Requests, RequestTypes
  <2>10. CASE StartedHandled
    <3>1. Send(Conn) \/ UNCHANGED <<asked, pending, req>>
      BY <2>10 DEF StartedHandled, SameRequests, Request
    <3>2. QED
      BY <3>1, SendTypes DEF IInv, TypeOK, RequestTypes, Sender
  <2>11. CASE MethodsAnswered
    BY <2>11 DEF IInv, MethodsAnswered, TypeOK, Sender, Requests, RequestTypes
  <2>12. CASE ReadyHandled
    BY <2>12 DEF IInv, ReadyHandled, SameRequests, TypeOK, RequestTypes
  <2>13. QED
    BY <1>1, <2>1, <2>2, <2>3, <2>4, <2>5, <2>6, <2>7, <2>8, <2>9, <2>10, <2>11, <2>12 DEF ConnStep
<1>2. CASE CloseStep
  BY <1>2
  DEF IInv, CloseStep, CloseBegins, ConnectionClosed, DisconnectHandled, NothingToClose,
      SameRequests, TypeOK, Requests, RequestTypes
<1>3. CASE StopServer \/ RunUpdate
  BY <1>3 DEF IInv, StopServer, RunUpdate, klippyVars, TypeOK, RequestTypes
<1>4. CASE KlippyStep
  <2>1. CASE KlippyStarts
    BY <2>1 DEF IInv, KlippyStarts, TypeOK, RequestTypes
  <2>2. CASE KlippyChanges
    BY <2>2 DEF IInv, KlippyChanges, TypeOK, RequestTypes
  <2>3. CASE KlippyExits
    BY <2>3 DEF IInv, KlippyExits, TypeOK, RequestTypes
  <2>4. CASE Notify
    BY <2>4 DEF IInv, Notify, TypeOK, RequestTypes
  <2>5. QED
    BY <1>4, <2>1, <2>2, <2>3, <2>4 DEF KlippyStep
<1>5. ASSUME NEW r \in Sender, RequestStep(r) PROVE RequestTypes'
  <2>1. CASE Answer(r)
    BY <2>1 DEF IInv, Answer, TypeOK, LinkOK, Requests, RequestTypes
  <2>2. CASE LockAcquired(r)
    BY <2>2 DEF IInv, LockAcquired, Send, TypeOK, Requests, RequestTypes
  <2>3. CASE SubscriptionTimesOut(r)
    BY <2>3 DEF IInv, SubscriptionTimesOut, TypeOK, Requests, RequestTypes
  <2>4. QED
    BY <1>5, <2>1, <2>2, <2>3 DEF RequestStep
<1>6. ASSUME NEW c \in Client, ClientStep(c) PROVE RequestTypes'
  <2>1. CASE ClientRequest(c)
    BY <2>1
    DEF IInv, ClientRequest, Send, Subscribe, TypeOK, QuietOK, Sender, Requests, RequestTypes
  <2>2. CASE ClientAnswered(c)
    BY <2>2 DEF IInv, ClientAnswered, TypeOK, Sender, Requests, RequestTypes
  <2>3. CASE RemoveSubscription(c)
    BY <2>3 DEF IInv, RemoveSubscription, TypeOK, RequestTypes
  <2>4. QED
    BY <1>6, <2>1, <2>2, <2>3 DEF ClientStep
<1>7. CASE UNCHANGED vars
  BY <1>7 DEF IInv, vars, klippyVars, TypeOK, RequestTypes
<1>8. QED
  BY <1>1, <1>2, <1>3, <1>4, <1>5, <1>6, <1>7 DEF Next, KlippyStep, RequestStep, ClientStep

LEMMA NextSubTypes == IInv /\ [Next]_vars => SubTypes'
<1> SUFFICES ASSUME IInv, [Next]_vars PROVE SubTypes'
  OBVIOUS
<1>1. CASE ConnStep
  <2>1. CASE Open
    BY <2>1 DEF IInv, Open, subVars, TypeOK, SubTypes
  <2>2. CASE GiveUp
    BY <2>2 DEF IInv, GiveUp, subVars, TypeOK, SubTypes
  <2>3. CASE InitBegins
    BY <2>3 DEF IInv, InitBegins, subVars, TypeOK, SubTypes
  <2>4. CASE RequestInfo
    BY <2>4 DEF IInv, RequestInfo, subVars, TypeOK, SubTypes
  <2>5. CASE InfoAnswered
    <3>1. CASE Subscribe(Conn)
      BY <2>5, <3>1, SubscribeTypes DEF InfoAnswered, Sender, IInv, TypeOK, RequestTypes, SubTypes
    <3>2. CASE ~Subscribe(Conn)
      BY <2>5, <3>2 DEF InfoAnswered, SetState, TryAgain, IInv, TypeOK, SubTypes
    <3>3. QED
      BY <3>1, <3>2
  <2>6. CASE IdentifiedHandled
    BY <2>6 DEF IInv, IdentifiedHandled, subVars, TypeOK, SubTypes
  <2>7. CASE EndpointsAnswered
    <3>1. CASE Subscribe(Conn)
      BY <2>7, <3>1, SubscribeTypes DEF EndpointsAnswered, Sender, IInv, TypeOK, RequestTypes, SubTypes
    <3>2. CASE ~Subscribe(Conn)
      BY <2>7, <3>2 DEF EndpointsAnswered, SetState, TryAgain, IInv, TypeOK, SubTypes
    <3>3. QED
      BY <3>1, <3>2
  <2>8. CASE WebhooksAnswered
    BY <2>8 DEF IInv, WebhooksAnswered, SubscriptionAnswered, TypeOK, LockOK, SubTypes
  <2>9. CASE OutputsAnswered
    BY <2>9 DEF IInv, OutputsAnswered, subVars, TypeOK, SubTypes
  <2>10. CASE StartedHandled
    BY <2>10 DEF IInv, StartedHandled, subVars, TypeOK, SubTypes
  <2>11. CASE MethodsAnswered
    BY <2>11 DEF IInv, MethodsAnswered, subVars, TypeOK, SubTypes
  <2>12. CASE ReadyHandled
    BY <2>12 DEF IInv, ReadyHandled, subVars, TypeOK, SubTypes
  <2>13. QED
    BY <1>1, <2>1, <2>2, <2>3, <2>4, <2>5, <2>6, <2>7, <2>8, <2>9, <2>10, <2>11, <2>12 DEF ConnStep
<1>2. CASE CloseStep
  <2>1. CASE CloseBegins
    BY <2>1, LeavesTypes DEF IInv, CloseBegins, TypeOK, SubTypes
  <2>2. CASE ConnectionClosed
    BY <2>2 DEF IInv, ConnectionClosed, TypeOK, SubTypes
  <2>3. CASE DisconnectHandled
    BY <2>3 DEF IInv, DisconnectHandled, subVars, TypeOK, SubTypes
  <2>4. CASE NothingToClose
    BY <2>4 DEF IInv, NothingToClose, subVars, TypeOK, SubTypes
  <2>5. QED
    BY <1>2, <2>1, <2>2, <2>3, <2>4 DEF CloseStep
<1>3. CASE StopServer \/ RunUpdate
  <2>1. CASE StopServer
    BY <2>1 DEF IInv, StopServer, subVars, TypeOK, SubTypes
  <2>2. CASE RunUpdate
    BY <2>2 DEF IInv, RunUpdate, TypeOK, SubTypes
  <2>3. QED
    BY <1>3, <2>1, <2>2
<1>4. CASE KlippyStep
  <2>1. CASE KlippyStarts
    BY <2>1 DEF IInv, KlippyStarts, SameMoonraker, subVars, TypeOK, SubTypes
  <2>2. CASE KlippyChanges
    BY <2>2 DEF IInv, KlippyChanges, SameMoonraker, subVars, TypeOK, SubTypes
  <2>3. CASE KlippyExits
    BY <2>3 DEF IInv, KlippyExits, SameMoonraker, subVars, TypeOK, SubTypes
  <2>4. CASE Notify
    BY <2>4 DEF IInv, Notify, SameMoonraker, subVars, TypeOK, LinkOK, Readable, SubTypes
  <2>5. QED
    BY <1>4, <2>1, <2>2, <2>3, <2>4 DEF KlippyStep
<1>5. ASSUME NEW r \in Sender, RequestStep(r) PROVE SubTypes'
  <2>1. CASE Answer(r)
    BY <2>1 DEF IInv, Answer, SameMoonraker, subVars, TypeOK, SubTypes
  <2>2. CASE LockAcquired(r)
    BY <2>2 DEF IInv, LockAcquired, TypeOK, SubTypes
  <2>3. CASE SubscriptionTimesOut(r)
    BY <2>3 DEF IInv, SubscriptionTimesOut, subVars, TypeOK, SubTypes
  <2>4. QED
    BY <1>5, <2>1, <2>2, <2>3 DEF RequestStep
<1>6. ASSUME NEW c \in Client, ClientStep(c) PROVE SubTypes'
  <2>1. CASE ClientRequest(c)
    <3>1. CASE Subscribe(c)
      BY <2>1, <3>1, SubscribeTypes DEF ClientRequest, IInv, TypeOK, RequestTypes, SubTypes, Sender
    <3>2. CASE UNCHANGED <<subLock, subs>>
      BY <2>1, <3>2 DEF ClientRequest, IInv, TypeOK, SubTypes
    <3>3. QED
      BY <2>1, <3>1, <3>2 DEF ClientRequest
  <2>2. CASE ClientAnswered(c)
    <3>1. CASE subLock # <<>> /\ Head(subLock) = c
      <4>1. subs' \subseteq Sender /\ cached' \in KlippyStates \cup {"none"}
        BY <2>2, <3>1, AnsweredTypes DEF ClientAnswered, IInv, Sender
      <4>2. subLock' = Tail(subLock)
        BY <2>2, <3>1 DEF ClientAnswered, SubscriptionAnswered
      <4>3. QED
        BY <2>2, <3>1, <4>1, <4>2, TailTypes DEF ClientAnswered, IInv, TypeOK, SubTypes
    <3>2. CASE ~(subLock # <<>> /\ Head(subLock) = c)
      BY <2>2, <3>2 DEF ClientAnswered, subVars, IInv, TypeOK, SubTypes
    <3>3. QED
      BY <3>1, <3>2
  <2>3. CASE RemoveSubscription(c)
    BY <2>3 DEF IInv, RemoveSubscription, TypeOK, SubTypes
  <2>4. QED
    BY <1>6, <2>1, <2>2, <2>3 DEF ClientStep
<1>7. CASE UNCHANGED vars
  BY <1>7 DEF IInv, vars, subVars, TypeOK, SubTypes
<1>8. QED
  BY <1>1, <1>2, <1>3, <1>4, <1>5, <1>6, <1>7 DEF Next, KlippyStep, RequestStep, ClientStep

LEMMA NextTypeOK == IInv /\ [Next]_vars => TypeOK'
<1> SUFFICES ASSUME IInv, [Next]_vars PROVE TypeOK'
  OBVIOUS
<1>1. WorldTypes' /\ FlagTypes' /\ PhaseTypes' /\ RequestTypes' /\ SubTypes'
  BY NextWorldTypes, NextFlagTypes, NextPhaseTypes, NextRequestTypes, NextSubTypes
<1>2. QED
  BY <1>1 DEF TypeOK, WorldTypes, FlagTypes, PhaseTypes, RequestTypes, SubTypes


LEMMA NextLinkOK == IInv /\ [Next]_vars => LinkOK'
<1> SUFFICES ASSUME IInv, [Next]_vars PROVE LinkOK'
  OBVIOUS
<1>1. CASE ConnStep
  <2>1. CASE Open
    BY <2>1 DEF Open, LinkOK
  <2>2. CASE GiveUp
    BY <2>2 DEF IInv, GiveUp, SameKlippy, SameRequests, LinkOK
  <2>3. CASE InitBegins
    BY <2>3 DEF IInv, InitBegins, SameKlippy, SameRequests, LinkOK
  <2>4. CASE RequestInfo
    BY <2>4 DEF IInv, RequestInfo, SameKlippy, Request, Send, LinkOK
  <2>5. CASE InfoAnswered
    BY <2>5, ConnIsNoClient
    DEF IInv, InfoAnswered, SameKlippy, socketVars, Send, TryAgain, SetState, Subscribe,
        IsConnected, TypeOK, AskedOK, LinkOK, SocketOK, LockOK, InitOK, ClosedOK, ToldOK,
        QuietOK, Unsubscribed, Initializes, Answered, Phases, Sender, KlippyStates, Requests,
        Events
  <2>6. CASE IdentifiedHandled
    BY <2>6 DEF IInv, IdentifiedHandled, SameKlippy, Request, Send, LinkOK
  <2>7. CASE EndpointsAnswered
    BY <2>7, ConnIsNoClient
    DEF IInv, EndpointsAnswered, SameKlippy, socketVars, localVars, Send, TryAgain, SetState,
        Subscribe, IsConnected, TypeOK, AskedOK, LinkOK, SocketOK, LockOK, InitOK, ClosedOK,
        ToldOK, QuietOK, Unsubscribed, Initializes, Answered, Phases, Sender, KlippyStates,
        Requests, Events
  <2>8. CASE WebhooksAnswered
    BY <2>8 DEF IInv, WebhooksAnswered, SameKlippy, Request, Send, LinkOK
  <2>9. CASE OutputsAnswered
    BY <2>9 DEF IInv, OutputsAnswered, SameKlippy, LinkOK
  <2>10. CASE StartedHandled
    BY <2>10, ConnIsNoClient
    DEF IInv, StartedHandled, SameKlippy, SameRequests, socketVars, localVars, subVars, Request,
        Send, Finish, IsConnected, TypeOK, AskedOK, LinkOK, SocketOK, LockOK, InitOK, ClosedOK,
        ToldOK, QuietOK, Unsubscribed, Initializes, Phases, Sender, KlippyStates, Requests,
        Events
  <2>11. CASE MethodsAnswered
    BY <2>11 DEF IInv, MethodsAnswered, SameKlippy, LinkOK
  <2>12. CASE ReadyHandled
    BY <2>12 DEF IInv, ReadyHandled, SameKlippy, SameRequests, LinkOK
  <2>13. QED
    BY <1>1, <2>1, <2>2, <2>3, <2>4, <2>5, <2>6, <2>7, <2>8, <2>9, <2>10, <2>11, <2>12 DEF ConnStep
<1>2. CASE CloseStep
  BY <1>2
  DEF IInv, CloseStep, CloseBegins, ConnectionClosed, DisconnectHandled, NothingToClose,
      SameKlippy, SameRequests, LinkOK
<1>3. CASE StopServer \/ RunUpdate
  BY <1>3 DEF IInv, StopServer, RunUpdate, SameSocket, klippyVars, LinkOK
<1>4. CASE KlippyStep
  BY <1>4 DEF IInv, KlippyStep, KlippyStarts, KlippyChanges, KlippyExits, Notify, LinkOK
<1>5. ASSUME NEW r \in Sender, RequestStep(r) PROVE LinkOK'
  BY <1>5
  DEF IInv, RequestStep, Answer, LockAcquired, SubscriptionTimesOut, SameSocket, Send, LinkOK
<1>6. ASSUME NEW c \in Client, ClientStep(c) PROVE LinkOK'
  BY <1>6
  DEF IInv, ClientStep, ClientRequest, ClientAnswered, RemoveSubscription, SameSocket, Send,
      Subscribe, LinkOK
<1>7. CASE UNCHANGED vars
  BY <1>7 DEF IInv, vars, klippyVars, LinkOK
<1>8. QED
  BY <1>1, <1>2, <1>3, <1>4, <1>5, <1>6, <1>7 DEF Next, KlippyStep, RequestStep, ClientStep


LEMMA NextAskedOK == IInv /\ [Next]_vars => AskedOK'
<1> SUFFICES ASSUME IInv, [Next]_vars PROVE AskedOK'
  OBVIOUS
<1>1. CASE ConnStep
  <2>1. CASE Open
    BY <2>1 DEF IInv, Open, AskedOK
  <2>2. CASE GiveUp
    BY <2>2 DEF IInv, GiveUp, SameRequests, AskedOK
  <2>3. CASE InitBegins
    BY <2>3 DEF IInv, InitBegins, SameRequests, AskedOK
  <2>4. CASE RequestInfo
    <3>1. Conn \notin asked /\ Conn \in Sender
      BY <2>4 DEF RequestInfo, IInv, AskedOK, Sender
    <3>2. \A r \in asked' : req'[r] = "sent"
      BY <2>4, <3>1 DEF RequestInfo, Request, Send, IInv, TypeOK, AskedOK
    <3>3. QED
      BY <2>4, <3>2 DEF RequestInfo, Request, AskedOK
  <2>5. CASE InfoAnswered
    <3>1. Conn \notin asked /\ Conn \in Sender
      BY <2>5 DEF InfoAnswered, Answered, IInv, AskedOK, Sender
    <3>2. CASE conn' = "webhooks" /\ Subscribe(Conn)
      BY <3>1, <3>2 DEF Subscribe, Send, IInv, TypeOK, AskedOK
    <3>3. CASE UNCHANGED asked /\ req' = [req EXCEPT ![Conn] = "idle"]
      BY <3>1, <3>3 DEF IInv, TypeOK, AskedOK
    <3>4. QED
      BY <2>5, <3>2, <3>3 DEF InfoAnswered, SetState, TryAgain
  <2>6. CASE IdentifiedHandled
    <3>1. Conn \notin asked /\ Conn \in Sender
      BY <2>6 DEF IdentifiedHandled, IInv, AskedOK, Sender
    <3>2. \A r \in asked' : req'[r] = "sent"
      BY <2>6, <3>1 DEF IdentifiedHandled, Request, Send, IInv, TypeOK, AskedOK
    <3>3. QED
      BY <2>6, <3>2 DEF IdentifiedHandled, Request, AskedOK
  <2>7. CASE EndpointsAnswered
    <3>1. Conn \notin asked /\ Conn \in Sender
      BY <2>7 DEF EndpointsAnswered, Answered, IInv, AskedOK, Sender
    <3>2. CASE conn' = "webhooks" /\ Subscribe(Conn)
      BY <3>1, <3>2 DEF Subscribe, Send, IInv, TypeOK, AskedOK
    <3>3. CASE UNCHANGED asked /\ req' = [req EXCEPT ![Conn] = "idle"]
      BY <3>1, <3>3 DEF IInv, TypeOK, AskedOK
    <3>4. QED
      BY <2>7, <3>2, <3>3 DEF EndpointsAnswered, SetState, TryAgain
  <2>8. CASE WebhooksAnswered
    BY <2>8 DEF IInv, WebhooksAnswered, Request, Send, TypeOK, AskedOK, Answered, Sender
  <2>9. CASE OutputsAnswered
    BY <2>9 DEF IInv, OutputsAnswered, TypeOK, AskedOK, Answered, Sender
  <2>10. CASE StartedHandled
    <3>1. Conn \notin asked /\ Conn \in Sender /\ req[Conn] = "idle"
      BY <2>10 DEF StartedHandled, IInv, AskedOK, Sender
    <3>2. CASE UNCHANGED <<asked, req>>
      BY <3>1, <3>2 DEF IInv, AskedOK
    <3>3. CASE Request("methods")
      BY <3>1, <3>3 DEF Request, Send, IInv, TypeOK, AskedOK
    <3>4. QED
      BY <2>10, <3>2, <3>3 DEF StartedHandled, SameRequests
  <2>11. CASE MethodsAnswered
    BY <2>11 DEF IInv, MethodsAnswered, TypeOK, AskedOK, Answered, Sender
  <2>12. CASE ReadyHandled
    BY <2>12 DEF IInv, ReadyHandled, SameRequests, AskedOK
  <2>13. QED
    BY <1>1, <2>1, <2>2, <2>3, <2>4, <2>5, <2>6, <2>7, <2>8, <2>9, <2>10, <2>11, <2>12 DEF ConnStep
<1>2. CASE CloseStep
  <2>1. CASE CloseBegins
    BY <2>1 DEF IInv, CloseBegins, TypeOK, AskedOK, Sender
  <2>2. CASE ConnectionClosed
    BY <2>2 DEF IInv, ConnectionClosed, AskedOK, Sender
  <2>3. CASE DisconnectHandled
    BY <2>3 DEF IInv, DisconnectHandled, SameRequests, AskedOK, SocketOK
  <2>4. CASE NothingToClose
    BY <2>4 DEF IInv, NothingToClose, SameRequests, AskedOK
  <2>5. QED
    BY <1>2, <2>1, <2>2, <2>3, <2>4 DEF CloseStep
<1>3. CASE StopServer \/ RunUpdate
  BY <1>3 DEF IInv, StopServer, RunUpdate, SameInit, klippyVars, AskedOK
<1>4. CASE KlippyStep
  BY <1>4
  DEF IInv, KlippyStep, KlippyStarts, KlippyChanges, KlippyExits, Notify, SameMoonraker, AskedOK
<1>5. ASSUME NEW r \in Sender, RequestStep(r) PROVE AskedOK'
  <2>1. CASE Answer(r)
    BY <2>1 DEF IInv, Answer, SameMoonraker, TypeOK, AskedOK, Sender
  <2>2. CASE LockAcquired(r)
    BY <2>2 DEF IInv, LockAcquired, SameInit, Send, TypeOK, AskedOK, Sender
  <2>3. CASE SubscriptionTimesOut(r)
    BY <2>3 DEF IInv, SubscriptionTimesOut, SameInit, AskedOK
  <2>4. QED
    BY <1>5, <2>1, <2>2, <2>3 DEF RequestStep
<1>6. ASSUME NEW c \in Client, ClientStep(c) PROVE AskedOK'
  <2>1. CASE ClientRequest(c)
    BY <2>1, ConnIsNoClient
    DEF IInv, ClientRequest, SameInit, Send, Subscribe, TypeOK, AskedOK, Sender
  <2>2. CASE ClientAnswered(c)
    BY <2>2 DEF IInv, ClientAnswered, SameInit, AskedOK, Answered
  <2>3. CASE RemoveSubscription(c)
    BY <2>3 DEF IInv, RemoveSubscription, SameInit, AskedOK
  <2>4. QED
    BY <1>6, <2>1, <2>2, <2>3 DEF ClientStep
<1>7. CASE UNCHANGED vars
  BY <1>7 DEF IInv, vars, klippyVars, AskedOK
<1>8. QED
  BY <1>1, <1>2, <1>3, <1>4, <1>5, <1>6, <1>7 DEF Next, KlippyStep, RequestStep, ClientStep

LEMMA NextSocketOK == IInv /\ [Next]_vars => SocketOK'
<1> SUFFICES ASSUME IInv, [Next]_vars PROVE SocketOK'
  OBVIOUS
<1>1. CASE ConnStep
  BY <1>1, ConnIsNoClient
  DEF IInv, ConnStep, Open, GiveUp, InitBegins, RequestInfo, InfoAnswered, IdentifiedHandled,
      EndpointsAnswered, WebhooksAnswered, OutputsAnswered, StartedHandled, MethodsAnswered,
      ReadyHandled, SameKlippy, SameRequests, socketVars, localVars, flagVars, subVars, Request,
      Send, TryAgain, SetState, Subscribe, Finish, Apply, SubscriptionAnswered, IsConnected,
      TypeOK, AskedOK, LinkOK, SocketOK, LockOK, InitOK, ClosedOK, ToldOK, QuietOK,
      Unsubscribed, Initializes, Answered, Phases, Sender, Settled, KlippyStates, Requests,
      Events
<1>2. CASE CloseStep
  BY <1>2
  DEF IInv, CloseStep, CloseBegins, ConnectionClosed, DisconnectHandled, NothingToClose,
      SocketOK, HoldsMutex
<1>3. CASE StopServer \/ RunUpdate
  BY <1>3 DEF IInv, StopServer, RunUpdate, SameSocket, SameInit, socketVars, SocketOK
<1>4. CASE KlippyStep
  BY <1>4
  DEF IInv, KlippyStep, KlippyStarts, KlippyChanges, KlippyExits, Notify, SameMoonraker,
      socketVars, SocketOK
<1>5. ASSUME NEW r \in Sender, RequestStep(r) PROVE SocketOK'
  BY <1>5
  DEF IInv, RequestStep, Answer, LockAcquired, SubscriptionTimesOut, SameSocket, SameInit,
      SameMoonraker, socketVars, SocketOK
<1>6. ASSUME NEW c \in Client, ClientStep(c) PROVE SocketOK'
  BY <1>6
  DEF IInv, ClientStep, ClientRequest, ClientAnswered, RemoveSubscription, SameSocket, SameInit,
      socketVars, SocketOK
<1>7. CASE UNCHANGED vars
  BY <1>7 DEF IInv, vars, socketVars, SocketOK
<1>8. QED
  BY <1>1, <1>2, <1>3, <1>4, <1>5, <1>6, <1>7 DEF Next, KlippyStep, RequestStep, ClientStep

(* How the queue of the lock changes: the connecting task joins it, a client *)
(* does, a client at its head leaves, and the task leaves wherever it is.     *)
LEMMA ConnJoins ==
  ASSUME TypeOK, \A i \in 1..Len(subLock) : subLock[i] # Conn, Subscribe(Conn), conn' = "webhooks"
  PROVE  LockOK'
<1>1. CASE subLock = <<>>
  <2>1. subLock' = <<Conn>>
    BY <1>1 DEF Subscribe
  <2>2. Len(subLock') = 1 /\ subLock'[1] = Conn
    BY <2>1
  <2>3. QED
    BY <2>2 DEF LockOK
<1>2. CASE subLock # <<>>
  <2>1. subLock' = Append(subLock, Conn) /\ req' = [req EXCEPT ![Conn] = "lock"]
    BY <1>2 DEF Subscribe
  <2>2. req'[Conn] = "lock"
    BY <2>1 DEF TypeOK, Sender
  <2>3. /\ Len(subLock') = Len(subLock) + 1 /\ Len(subLock) \in Nat
        /\ subLock'[Len(subLock) + 1] = Conn
        /\ \A i \in 1..Len(subLock) : subLock'[i] = subLock[i]
    BY <2>1 DEF TypeOK
  <2>4. \A i \in 1..Len(subLock') : i # Len(subLock) + 1 => subLock'[i] # Conn
    BY <2>3
  <2>5. \E i \in 1..Len(subLock') : subLock'[i] = Conn
    BY <2>3
  <2>6. \A i, j \in 1..Len(subLock') : subLock'[i] = Conn /\ subLock'[j] = Conn => i = j
    BY <2>4
  <2>7. QED
    BY <2>2, <2>5, <2>6 DEF LockOK
<1>3. QED
  BY <1>1, <1>2

LEMMA ClientJoins ==
  ASSUME TypeOK, LockOK, NEW c \in Client, subLock' = Append(subLock, c),
         UNCHANGED conn, req'[Conn] = req[Conn]
  PROVE  LockOK'
<1>1. /\ Len(subLock') = Len(subLock) + 1 /\ Len(subLock) \in Nat
      /\ subLock'[Len(subLock) + 1] = c /\ c # Conn
      /\ \A i \in 1..Len(subLock) : subLock'[i] = subLock[i]
  BY ConnIsNoClient DEF TypeOK
<1>2. \A i \in 1..Len(subLock') :
        subLock'[i] = Conn => i \in 1..Len(subLock) /\ subLock[i] = Conn
  BY <1>1
<1>3. conn = "webhooks" => \E i \in 1..Len(subLock') : subLock'[i] = Conn
  BY <1>1 DEF LockOK
<1>4. QED
  BY <1>2, <1>3 DEF LockOK

LEMMA HeadLeaves ==
  ASSUME TypeOK, LockOK, subLock # <<>>, Head(subLock) # Conn, subLock' = Tail(subLock),
         UNCHANGED conn, req'[Conn] = req[Conn]
  PROVE  LockOK'
<1>1. /\ Len(subLock') = Len(subLock) - 1 /\ Len(subLock) \in Nat \ {0}
      /\ \A i \in 1..Len(subLock') : subLock'[i] = subLock[i + 1]
      /\ subLock[1] # Conn
  BY DEF TypeOK
<1>2. \A i \in 1..Len(subLock') :
        subLock'[i] = Conn => i + 1 \in 1..Len(subLock) /\ subLock[i + 1] = Conn
  BY <1>1
<1>3. ASSUME conn = "webhooks" PROVE \E i \in 1..Len(subLock') : subLock'[i] = Conn
  <2>1. PICK i \in 1..Len(subLock) : subLock[i] = Conn
    BY <1>3 DEF LockOK
  <2>2. i # 1 /\ i - 1 \in 1..Len(subLock') /\ subLock'[i - 1] = Conn
    BY <1>1, <2>1
  <2>3. QED
    BY <2>2
<1>4. \A i \in 1..Len(subLock') : subLock'[i] = Conn => conn = "webhooks" /\ req[Conn] = "lock"
  BY <1>1, <1>2 DEF LockOK
<1>5. \A i, j \in 1..Len(subLock') : subLock'[i] = Conn /\ subLock'[j] = Conn => i = j
  <2>1. TAKE i, j \in 1..Len(subLock')
  <2>2. HAVE subLock'[i] = Conn /\ subLock'[j] = Conn
  <2>3. i + 1 = j + 1
    BY <1>2, <2>2 DEF LockOK
  <2>4. QED
    BY <1>1, <2>3
<1>6. QED
  BY <1>3, <1>4, <1>5 DEF LockOK

LEMMA LeavesOnce ==
  ASSUME TypeOK, LockOK, Leaves(Conn)
  PROVE  \A i \in 1..Len(subLock') : subLock'[i] # Conn
<1>1. CASE \E i \in 1..Len(subLock) : subLock[i] = Conn
  <2> DEFINE i == CHOOSE i \in 1..Len(subLock) : subLock[i] = Conn
             n == Len(subLock)
  <2>1. n \in Nat \ {0} /\ i \in 1..n /\ subLock[i] = Conn
    BY <1>1 DEF TypeOK
  <2>2. subLock' = [j \in 1..(n - 1) |-> subLock[IF j < i THEN j ELSE j + 1]]
    BY <1>1 DEF Leaves
  <2>3. \A j \in 1..n : subLock[j] = Conn => j = i
    BY <2>1 DEF LockOK
  <2> HIDE DEF i, n
  <2>4. \A j \in 1..(n - 1) : (IF j < i THEN j ELSE j + 1) \in 1..n \ {i}
    BY <2>1
  <2>5. \A j \in 1..(n - 1) : subLock'[j] # Conn
    BY <2>2, <2>3, <2>4
  <2>6. Len(subLock') = n - 1
    BY <2>1, <2>2
  <2>7. QED
    BY <2>5, <2>6
<1>2. QED
  BY <1>1 DEF Leaves


LEMMA NextLockOK == IInv /\ [Next]_vars => LockOK'
<1> SUFFICES ASSUME IInv, [Next]_vars PROVE LockOK'
  OBVIOUS
<1>1. CASE ConnStep
  <2>1. CASE Open
    BY <2>1 DEF IInv, Open, subVars, LockOK
  <2>2. CASE GiveUp
    BY <2>2 DEF IInv, GiveUp, subVars, LockOK
  <2>3. CASE InitBegins
    BY <2>3 DEF IInv, InitBegins, subVars, LockOK
  <2>4. CASE RequestInfo
    BY <2>4 DEF IInv, RequestInfo, subVars, Request, LockOK
  <2>5. CASE InfoAnswered
    <3>1. \A i \in 1..Len(subLock) : subLock[i] # Conn
      BY <2>5 DEF InfoAnswered, IInv, LockOK
    <3>2. CASE conn' = "webhooks"
      BY <2>5, <3>1, <3>2, ConnJoins DEF InfoAnswered, SetState, TryAgain, IInv
    <3>3. CASE conn' # "webhooks"
      BY <2>5, <3>1, <3>3 DEF InfoAnswered, SetState, TryAgain, LockOK
    <3>4. QED
      BY <3>2, <3>3
  <2>6. CASE IdentifiedHandled
    BY <2>6 DEF IInv, IdentifiedHandled, subVars, Request, LockOK
  <2>7. CASE EndpointsAnswered
    <3>1. \A i \in 1..Len(subLock) : subLock[i] # Conn
      BY <2>7 DEF EndpointsAnswered, IInv, LockOK
    <3>2. CASE conn' = "webhooks"
      BY <2>7, <3>1, <3>2, ConnJoins DEF EndpointsAnswered, SetState, TryAgain, IInv
    <3>3. CASE conn' # "webhooks"
      BY <2>7, <3>1, <3>3 DEF EndpointsAnswered, SetState, TryAgain, LockOK
    <3>4. QED
      BY <3>2, <3>3
  <2>8. CASE WebhooksAnswered
    BY <2>8 DEF IInv, WebhooksAnswered, Request, SubscriptionAnswered, LockOK, Answered
  <2>9. CASE OutputsAnswered
    BY <2>9 DEF IInv, OutputsAnswered, subVars, LockOK
  <2>10. CASE StartedHandled
    BY <2>10, ConnIsNoClient
    DEF IInv, StartedHandled, SameKlippy, SameRequests, socketVars, localVars, subVars, Request,
        Send, Finish, IsConnected, TypeOK, AskedOK, LinkOK, SocketOK, LockOK, InitOK, ClosedOK,
        ToldOK, QuietOK, Unsubscribed, Initializes, Phases, Sender, KlippyStates, Requests,
        Events
  <2>11. CASE MethodsAnswered
    BY <2>11, ConnIsNoClient
    DEF IInv, MethodsAnswered, SameKlippy, socketVars, localVars, subVars, Finish, TypeOK,
        AskedOK, LinkOK, SocketOK, LockOK, InitOK, ClosedOK, ToldOK, QuietOK, Unsubscribed,
        Initializes, Answered, Phases, Sender, KlippyStates, Requests, Events
  <2>12. CASE ReadyHandled
    BY <2>12 DEF IInv, ReadyHandled, subVars, Finish, LockOK
  <2>13. QED
    BY <1>1, <2>1, <2>2, <2>3, <2>4, <2>5, <2>6, <2>7, <2>8, <2>9, <2>10, <2>11, <2>12 DEF ConnStep
<1>2. CASE CloseStep
  <2>1. CASE CloseBegins
    <3>1. CASE conn' = "none" /\ Leaves(Conn)
      BY <3>1, LeavesOnce DEF IInv, LockOK
    <3>2. CASE UNCHANGED <<conn, req, subLock>>
      BY <3>2 DEF IInv, LockOK
    <3>3. QED
      BY <2>1, <3>1, <3>2 DEF CloseBegins
  <2>2. CASE ConnectionClosed
    BY <2>2 DEF IInv, ConnectionClosed, LockOK, Sender
  <2>3. CASE DisconnectHandled
    BY <2>3 DEF IInv, DisconnectHandled, subVars, SocketOK, LockOK
  <2>4. CASE NothingToClose
    BY <2>4 DEF IInv, NothingToClose, subVars, LockOK, HoldsMutex
  <2>5. QED
    BY <1>2, <2>1, <2>2, <2>3, <2>4 DEF CloseStep
<1>3. CASE StopServer \/ RunUpdate
  BY <1>3 DEF IInv, StopServer, RunUpdate, SameInit, subVars, LockOK
<1>4. CASE KlippyStep
  BY <1>4
  DEF IInv, KlippyStep, KlippyStarts, KlippyChanges, KlippyExits, Notify, SameMoonraker,
      subVars, LockOK
<1>5. ASSUME NEW r \in Sender, RequestStep(r) PROVE LockOK'
  <2>1. CASE Answer(r)
    <3>1. UNCHANGED <<conn, subLock>>
      BY <2>1 DEF Answer, SameMoonraker, subVars
    <3>2. r \in asked /\ \E s : req' = [req EXCEPT ![r] = s]
      BY <2>1 DEF Answer
    <3>3. req[Conn] = "lock" => req'[Conn] = "lock"
      BY <3>2 DEF IInv, AskedOK, TypeOK
    <3>4. QED
      BY <3>1, <3>3 DEF IInv, LockOK
  <2>2. CASE LockAcquired(r)
    BY <2>2 DEF IInv, LockAcquired, SameInit, Send, TypeOK, LockOK
  <2>3. CASE SubscriptionTimesOut(r)
    BY <2>3 DEF IInv, SubscriptionTimesOut, SameInit, subVars, LockOK
  <2>4. QED
    BY <1>5, <2>1, <2>2, <2>3 DEF RequestStep
<1>6. ASSUME NEW c \in Client, ClientStep(c) PROVE LockOK'
  <2>1. CASE ClientRequest(c)
    <3>1. UNCHANGED conn /\ req'[Conn] = req[Conn]
      BY <2>1, ConnIsNoClient DEF ClientRequest, Send, Subscribe, SameInit, IInv, TypeOK, Sender
    <3>2. CASE UNCHANGED subLock
      BY <3>1, <3>2 DEF IInv, LockOK
    <3>3. CASE Subscribe(c)
      <4>1. Append(<<>>, c) = <<c>>
        OBVIOUS
      <4>2. subLock' = Append(subLock, c)
        BY <3>3, <4>1 DEF Subscribe
      <4>3. QED
        BY <3>1, <4>2, ClientJoins DEF IInv
    <3>4. QED
      BY <2>1, <3>2, <3>3 DEF ClientRequest
  <2>2. CASE ClientAnswered(c)
    <3>1. UNCHANGED conn /\ req'[Conn] = req[Conn]
      BY <2>2, ConnIsNoClient DEF ClientAnswered, SameInit, IInv, TypeOK, Sender
    <3>2. CASE subLock # <<>> /\ Head(subLock) = c
      BY <2>2, <3>1, <3>2, HeadLeaves, ConnIsNoClient
      DEF ClientAnswered, SubscriptionAnswered, IInv
    <3>3. CASE ~(subLock # <<>> /\ Head(subLock) = c)
      BY <2>2, <3>1, <3>3 DEF ClientAnswered, subVars, IInv, LockOK
    <3>4. QED
      BY <3>2, <3>3
  <2>3. CASE RemoveSubscription(c)
    BY <2>3 DEF IInv, RemoveSubscription, SameInit, LockOK
  <2>4. QED
    BY <1>6, <2>1, <2>2, <2>3 DEF ClientStep
<1>7. CASE UNCHANGED vars
  BY <1>7 DEF IInv, vars, subVars, LockOK
<1>8. QED
  BY <1>1, <1>2, <1>3, <1>4, <1>5, <1>6, <1>7 DEF Next, KlippyStep, RequestStep, ClientStep

LEMMA NextInitOK == IInv /\ [Next]_vars => InitOK'
<1> SUFFICES ASSUME IInv, [Next]_vars PROVE InitOK'
  OBVIOUS
<1>1. CASE ConnStep
  <2>1. CASE Open
    BY <2>1 DEF Open, InitOK, Initializes
  <2>2. CASE GiveUp
    BY <2>2 DEF GiveUp, InitOK, Initializes
  <2>3. CASE InitBegins
    BY <2>3 DEF InitBegins, InitOK
  <2>4. CASE RequestInfo
    BY <2>4 DEF IInv, RequestInfo, flagVars, Request, Send, TypeOK, InitOK, Initializes, Sender
  <2>5. CASE InfoAnswered
    BY <2>5, ConnIsNoClient
    DEF IInv, InfoAnswered, SameKlippy, socketVars, Send, TryAgain, SetState, Subscribe,
        IsConnected, TypeOK, AskedOK, LinkOK, SocketOK, LockOK, InitOK, ClosedOK, ToldOK,
        QuietOK, Unsubscribed, Initializes, Answered, Phases, Sender, KlippyStates, Requests,
        Events
  <2>6. CASE IdentifiedHandled
    BY <2>6 DEF IInv, IdentifiedHandled, flagVars, Request, InitOK, Initializes, Phases
  <2>7. CASE EndpointsAnswered
    BY <2>7, ConnIsNoClient
    DEF IInv, EndpointsAnswered, SameKlippy, socketVars, localVars, Send, TryAgain, SetState,
        Subscribe, IsConnected, TypeOK, AskedOK, LinkOK, SocketOK, LockOK, InitOK, ClosedOK,
        ToldOK, QuietOK, Unsubscribed, Initializes, Answered, Phases, Sender, KlippyStates,
        Requests, Events
  <2>8. CASE WebhooksAnswered
    BY <2>8
    DEF IInv, WebhooksAnswered, flagVars, Request, Apply, SubscriptionAnswered, InitOK,
        Initializes, Phases, KlippyStates
  <2>9. CASE OutputsAnswered
    BY <2>9 DEF IInv, OutputsAnswered, flagVars, InitOK, Initializes, Phases
  <2>10. CASE StartedHandled
    BY <2>10, ConnIsNoClient
    DEF IInv, StartedHandled, SameKlippy, SameRequests, socketVars, localVars, subVars, Request,
        Send, Finish, IsConnected, TypeOK, AskedOK, LinkOK, SocketOK, LockOK, InitOK, ClosedOK,
        ToldOK, QuietOK, Unsubscribed, Initializes, Phases, Sender, KlippyStates, Requests,
        Events
  <2>11. CASE MethodsAnswered
    BY <2>11, ConnIsNoClient
    DEF IInv, MethodsAnswered, SameKlippy, socketVars, localVars, subVars, Finish, TypeOK,
        AskedOK, LinkOK, SocketOK, LockOK, InitOK, ClosedOK, ToldOK, QuietOK, Unsubscribed,
        Initializes, Answered, Phases, Sender, KlippyStates, Requests, Events
  <2>12. CASE ReadyHandled
    BY <2>12 DEF ReadyHandled, Finish, InitOK, Initializes
  <2>13. QED
    BY <1>1, <2>1, <2>2, <2>3, <2>4, <2>5, <2>6, <2>7, <2>8, <2>9, <2>10, <2>11, <2>12 DEF ConnStep
<1>2. CASE CloseStep
  BY <1>2
  DEF IInv, CloseStep, CloseBegins, ConnectionClosed, DisconnectHandled, NothingToClose,
      flagVars, SocketOK, InitOK, Initializes, HoldsMutex
<1>3. CASE StopServer \/ RunUpdate
  BY <1>3
  DEF IInv, StopServer, RunUpdate, SameInit, flagVars, Apply, TypeOK, InitOK, Initializes,
      KlippyStates
<1>4. CASE KlippyStep
  BY <1>4
  DEF IInv, KlippyStep, KlippyStarts, KlippyChanges, KlippyExits, Notify, SameMoonraker,
      flagVars, InitOK, Initializes
<1>5. ASSUME NEW r \in Sender, RequestStep(r) PROVE InitOK'
  BY <1>5
  DEF IInv, RequestStep, Answer, LockAcquired, SubscriptionTimesOut, SameInit, SameMoonraker,
      flagVars, Send, TypeOK, LinkOK, InitOK, Initializes, Sender
<1>6. ASSUME NEW c \in Client, ClientStep(c) PROVE InitOK'
  BY <1>6, ConnIsNoClient
  DEF IInv, ClientStep, ClientRequest, ClientAnswered, RemoveSubscription, SameInit, flagVars,
      Send, Subscribe, Apply, SubscriptionAnswered, TypeOK, InitOK, Initializes, Sender,
      KlippyStates
<1>7. CASE UNCHANGED vars
  BY <1>7 DEF IInv, vars, flagVars, InitOK, Initializes
<1>8. QED
  BY <1>1, <1>2, <1>3, <1>4, <1>5, <1>6, <1>7 DEF Next, KlippyStep, RequestStep, ClientStep

LEMMA NextClosedOK == IInv /\ [Next]_vars => ClosedOK'
<1> SUFFICES ASSUME IInv, [Next]_vars PROVE ClosedOK'
  OBVIOUS
<1>1. CASE ConnStep
  BY <1>1, ConnIsNoClient
  DEF IInv, ConnStep, Open, GiveUp, InitBegins, RequestInfo, InfoAnswered, IdentifiedHandled,
      EndpointsAnswered, WebhooksAnswered, OutputsAnswered, StartedHandled, MethodsAnswered,
      ReadyHandled, SameKlippy, SameRequests, socketVars, localVars, flagVars, subVars, Request,
      Send, TryAgain, SetState, Subscribe, Finish, Apply, SubscriptionAnswered, IsConnected,
      TypeOK, AskedOK, LinkOK, SocketOK, LockOK, InitOK, ClosedOK, ToldOK, QuietOK,
      Unsubscribed, Initializes, Answered, Phases, Sender, Settled, KlippyStates, Requests,
      Events
<1>2. CASE CloseStep
  BY <1>2
  DEF IInv, CloseStep, CloseBegins, ConnectionClosed, DisconnectHandled, NothingToClose,
      SameRequests, flagVars, subVars, TypeOK, ClosedOK
<1>3. CASE StopServer \/ RunUpdate
  BY <1>3
  DEF IInv, StopServer, RunUpdate, SameSocket, SameInit, socketVars, flagVars, subVars, ClosedOK
<1>4. CASE KlippyStep
  BY <1>4
  DEF IInv, KlippyStep, KlippyStarts, KlippyChanges, KlippyExits, Notify, SameMoonraker,
      socketVars, flagVars, subVars, ClosedOK
<1>5. ASSUME NEW r \in Sender, RequestStep(r) PROVE ClosedOK'
  BY <1>5
  DEF IInv, RequestStep, Answer, LockAcquired, SubscriptionTimesOut, SameSocket, SameInit,
      SameMoonraker, socketVars, flagVars, Send, IsConnected, TypeOK, ClosedOK, Readable
<1>6. ASSUME NEW c \in Client, ClientStep(c) PROVE ClosedOK'
  BY <1>6, ConnIsNoClient
  DEF IInv, ClientStep, ClientRequest, ClientAnswered, RemoveSubscription, SameSocket, SameInit,
      socketVars, flagVars, subVars, SubscriptionAnswered, IsConnected, TypeOK, ClosedOK
<1>7. CASE UNCHANGED vars
  BY <1>7 DEF IInv, vars, socketVars, flagVars, subVars, ClosedOK
<1>8. QED
  BY <1>1, <1>2, <1>3, <1>4, <1>5, <1>6, <1>7 DEF Next, KlippyStep, RequestStep, ClientStep

LEMMA NextToldOK == IInv /\ [Next]_vars => ToldOK'
<1> SUFFICES ASSUME IInv, [Next]_vars PROVE ToldOK'
  OBVIOUS
<1>1. CASE ConnStep
  <2>1. CASE Open
    BY <2>1 DEF IInv, Open, flagVars, SocketOK, ClosedOK, ToldOK
  <2>2. CASE GiveUp
    BY <2>2 DEF IInv, GiveUp, flagVars, SocketOK, ToldOK
  <2>3. CASE InitBegins
    <3>1. ~identified' /\ "identified" \notin announced'
      BY <2>3 DEF InitBegins, IInv, ToldOK
    <3>2. QED
      BY <2>3, <3>1 DEF InitBegins, IInv, ToldOK
  <2>4. CASE RequestInfo
    BY <2>4 DEF IInv, RequestInfo, flagVars, Request, ToldOK
  <2>5. CASE InfoAnswered
    <3>1. "started" \notin announced /\ "ready" \notin announced /\ writer
      BY <2>5 DEF InfoAnswered, IInv, ToldOK, SocketOK
    <3>2. UNCHANGED writer /\ conn' \in {"sleep", "none", "webhooks", "identify"}
      BY <2>5 DEF InfoAnswered, TryAgain, SetState, socketVars
    <3>3. CASE UNCHANGED <<identified, announced>>
      <4>1. conn' # "identify" /\ (conn' = "webhooks" => identified)
        BY <2>5, <3>3 DEF InfoAnswered, TryAgain, SetState
      <4>2. QED
        BY <3>1, <3>2, <3>3, <4>1 DEF IInv, ToldOK
    <3>4. CASE identified' /\ announced' = announced \cup {"identified"}
      BY <3>1, <3>2, <3>4 DEF ToldOK
    <3>5. QED
      BY <2>5, <3>3, <3>4 DEF InfoAnswered
  <2>6. CASE IdentifiedHandled
    BY <2>6 DEF IInv, IdentifiedHandled, flagVars, Request, ToldOK
  <2>7. CASE EndpointsAnswered
    BY <2>7, ConnIsNoClient
    DEF IInv, EndpointsAnswered, SameKlippy, socketVars, localVars, Send, TryAgain, SetState,
        Subscribe, IsConnected, TypeOK, AskedOK, LinkOK, SocketOK, LockOK, InitOK, ClosedOK,
        ToldOK, QuietOK, Unsubscribed, Initializes, Answered, Phases, Sender, KlippyStates,
        Requests, Events
  <2>8. CASE WebhooksAnswered
    BY <2>8 DEF IInv, WebhooksAnswered, flagVars, Request, Apply, SubscriptionAnswered, ToldOK
  <2>9. CASE OutputsAnswered
    BY <2>9 DEF IInv, OutputsAnswered, socketVars, flagVars, ClosedOK, ToldOK
  <2>10. CASE StartedHandled
    <3>1. announced' \in {announced, announced \cup {"shutdown"}}
      BY <2>10 DEF StartedHandled
    <3>2. conn' \in {"none", "methods"} /\ UNCHANGED <<writer, identified>>
      BY <2>10 DEF StartedHandled, Finish, Request, socketVars
    <3>3. writer /\ "started" \in announced /\ "ready" \notin announced
      BY <2>10 DEF StartedHandled, IInv, ToldOK, SocketOK
    <3>4. QED
      BY <3>1, <3>2, <3>3 DEF IInv, ToldOK
  <2>11. CASE MethodsAnswered
    <3>1. \/ announced' = announced /\ conn' = "none"
          \/ announced' = announced \cup {"ready"} /\ conn' = "ready"
      BY <2>11 DEF MethodsAnswered, Finish
    <3>2. writer /\ UNCHANGED <<writer, identified>>
      BY <2>11 DEF MethodsAnswered, socketVars, IInv, SocketOK
    <3>3. "started" \in announced
      BY <2>11 DEF MethodsAnswered, IInv, ToldOK
    <3>4. QED
      BY <3>1, <3>2, <3>3 DEF IInv, ToldOK
  <2>12. CASE ReadyHandled
    BY <2>12 DEF IInv, ReadyHandled, socketVars, Finish, ToldOK
  <2>13. QED
    BY <1>1, <2>1, <2>2, <2>3, <2>4, <2>5, <2>6, <2>7, <2>8, <2>9, <2>10, <2>11, <2>12 DEF ConnStep
<1>2. CASE CloseStep
  BY <1>2
  DEF IInv, CloseStep, CloseBegins, ConnectionClosed, DisconnectHandled, NothingToClose,
      flagVars, ToldOK, HoldsMutex
<1>3. CASE StopServer \/ RunUpdate
  BY <1>3
  DEF IInv, StopServer, RunUpdate, SameSocket, SameInit, socketVars, flagVars, Apply, ToldOK
<1>4. CASE KlippyStep
  BY <1>4
  DEF IInv, KlippyStep, KlippyStarts, KlippyChanges, KlippyExits, Notify, SameMoonraker,
      socketVars, flagVars, ToldOK
<1>5. ASSUME NEW r \in Sender, RequestStep(r) PROVE ToldOK'
  BY <1>5
  DEF IInv, RequestStep, Answer, LockAcquired, SubscriptionTimesOut, SameSocket, SameInit,
      SameMoonraker, socketVars, flagVars, ToldOK
<1>6. ASSUME NEW c \in Client, ClientStep(c) PROVE ToldOK'
  BY <1>6
  DEF IInv, ClientStep, ClientRequest, ClientAnswered, RemoveSubscription, SameSocket, SameInit,
      socketVars, flagVars, Apply, SubscriptionAnswered, ToldOK
<1>7. CASE UNCHANGED vars
  BY <1>7 DEF IInv, vars, socketVars, flagVars, ToldOK
<1>8. QED
  BY <1>1, <1>2, <1>3, <1>4, <1>5, <1>6, <1>7 DEF Next, KlippyStep, RequestStep, ClientStep

LEMMA NextQuietOK == IInv /\ [Next]_vars => QuietOK'
<1> SUFFICES ASSUME IInv, [Next]_vars PROVE QuietOK'
  OBVIOUS
<1>1. CASE ConnStep
  <2>1. CASE Open
    BY <2>1
    DEF IInv, Open, subVars, SocketOK, ClosedOK, QuietOK, Answered, Settled, KlippyStates
  <2>2. CASE GiveUp
    BY <2>2 DEF IInv, GiveUp, socketVars, SocketOK, QuietOK, Unsubscribed
  <2>3. CASE InitBegins
    BY <2>3
    DEF IInv, InitBegins, SameKlippy, SameRequests, subVars, SocketOK, QuietOK, Unsubscribed
  <2>4. CASE RequestInfo
    BY <2>4, ConnIsNoClient
    DEF IInv, RequestInfo, SameKlippy, subVars, Request, Send, TypeOK, SocketOK, QuietOK,
        Unsubscribed, Sender
  <2>5. CASE InfoAnswered
    BY <2>5, ConnIsNoClient
    DEF IInv, InfoAnswered, SameKlippy, socketVars, Send, TryAgain, SetState, Subscribe,
        IsConnected, TypeOK, AskedOK, LinkOK, SocketOK, LockOK, InitOK, ClosedOK, ToldOK,
        QuietOK, Unsubscribed, Initializes, Answered, Phases, Sender, KlippyStates, Requests,
        Events
  <2>6. CASE IdentifiedHandled
    BY <2>6, ConnIsNoClient
    DEF IInv, IdentifiedHandled, SameKlippy, subVars, Request, Send, TypeOK, ClosedOK, ToldOK,
        QuietOK, Unsubscribed, Sender
  <2>7. CASE EndpointsAnswered
    BY <2>7, ConnIsNoClient
    DEF IInv, EndpointsAnswered, SameKlippy, socketVars, localVars, Send, TryAgain, SetState,
        Subscribe, IsConnected, TypeOK, AskedOK, LinkOK, SocketOK, LockOK, InitOK, ClosedOK,
        ToldOK, QuietOK, Unsubscribed, Initializes, Answered, Phases, Sender, KlippyStates,
        Requests, Events
  <2>8. CASE WebhooksAnswered
    BY <2>8
    DEF IInv, WebhooksAnswered, flagVars, Request, InitOK, QuietOK, Unsubscribed, Initializes,
        Phases
  <2>9. CASE OutputsAnswered
    BY <2>9 DEF OutputsAnswered, QuietOK, Unsubscribed
  <2>10. CASE StartedHandled
    BY <2>10, ConnIsNoClient
    DEF IInv, StartedHandled, SameKlippy, SameRequests, socketVars, localVars, subVars, Request,
        Send, Finish, IsConnected, TypeOK, AskedOK, LinkOK, SocketOK, LockOK, InitOK, ClosedOK,
        ToldOK, QuietOK, Unsubscribed, Initializes, Phases, Sender, KlippyStates, Requests,
        Events
  <2>11. CASE MethodsAnswered
    BY <2>11, ConnIsNoClient
    DEF IInv, MethodsAnswered, SameKlippy, socketVars, localVars, subVars, Finish, TypeOK,
        AskedOK, LinkOK, SocketOK, LockOK, InitOK, ClosedOK, ToldOK, QuietOK, Unsubscribed,
        Initializes, Answered, Phases, Sender, KlippyStates, Requests, Events
  <2>12. CASE ReadyHandled
    BY <2>12 DEF IInv, ReadyHandled, ToldOK, QuietOK, Unsubscribed
  <2>13. QED
    BY <1>1, <2>1, <2>2, <2>3, <2>4, <2>5, <2>6, <2>7, <2>8, <2>9, <2>10, <2>11, <2>12 DEF ConnStep
<1>2. CASE CloseStep
  BY <1>2, ConnIsNoClient
  DEF IInv, CloseStep, CloseBegins, ConnectionClosed, DisconnectHandled, NothingToClose,
      SameKlippy, SameRequests, localVars, flagVars, subVars, TypeOK, AskedOK, LinkOK, SocketOK,
      LockOK, InitOK, ClosedOK, ToldOK, QuietOK, Unsubscribed, Initializes, Answered,
      HoldsMutex, Phases, Sender, Leaves, KlippyStates, Requests, Events
<1>3. CASE StopServer \/ RunUpdate
  BY <1>3, ConnIsNoClient
  DEF IInv, StopServer, RunUpdate, SameSocket, SameInit, klippyVars, socketVars, localVars,
      flagVars, subVars, Apply, TypeOK, AskedOK, LinkOK, SocketOK, LockOK, InitOK, ClosedOK,
      ToldOK, QuietOK, Unsubscribed, Initializes, Phases, Sender, KlippyStates, Requests, Events
<1>4. CASE KlippyStep
  BY <1>4, ConnIsNoClient
  DEF IInv, KlippyStep, KlippyStarts, KlippyChanges, KlippyExits, Notify, SameMoonraker,
      socketVars, localVars, flagVars, subVars, TypeOK, AskedOK, LinkOK, SocketOK, LockOK,
      InitOK, ClosedOK, ToldOK, QuietOK, Unsubscribed, Initializes, Phases, Sender, Readable,
      KlippyStates, Requests, Events
<1>5. ASSUME NEW r \in Sender, RequestStep(r) PROVE QuietOK'
  <2>1. CASE Answer(r)
    BY <2>1, ConnIsNoClient
    DEF IInv, Answer, SameMoonraker, flagVars, subVars, TypeOK, LockOK, InitOK, QuietOK,
        Unsubscribed, Initializes, Sender, Readable, KlippyStates
  <2>2. CASE LockAcquired(r)
    BY <2>2
    DEF IInv, LockAcquired, SameSocket, SameInit, socketVars, flagVars, Send, TypeOK, QuietOK,
        Unsubscribed, Sender, KlippyStates
  <2>3. CASE SubscriptionTimesOut(r)
    BY <2>3
    DEF IInv, SubscriptionTimesOut, SameInit, flagVars, subVars, LockOK, InitOK, ClosedOK,
        QuietOK, Unsubscribed, Initializes, Phases, KlippyStates
  <2>4. QED
    BY <1>5, <2>1, <2>2, <2>3 DEF RequestStep
<1>6. ASSUME NEW c \in Client, ClientStep(c) PROVE QuietOK'
  <2>1. CASE ClientRequest(c)
    BY <2>1
    DEF IInv, ClientRequest, SameInit, flagVars, Send, Subscribe, IsConnected, TypeOK, QuietOK,
        Unsubscribed, Sender, KlippyStates
  <2>2. CASE ClientAnswered(c)
    BY <2>2, ConnIsNoClient
    DEF IInv, ClientAnswered, SameSocket, SameInit, socketVars, flagVars, subVars, Apply,
        SubscriptionAnswered, QuietOK, Unsubscribed, KlippyStates
  <2>3. CASE RemoveSubscription(c)
    BY <2>3
    DEF IInv, RemoveSubscription, SameSocket, SameInit, socketVars, flagVars, QuietOK,
        Unsubscribed
  <2>4. QED
    BY <1>6, <2>1, <2>2, <2>3 DEF ClientStep
<1>7. CASE UNCHANGED vars
  BY <1>7 DEF IInv, vars, klippyVars, socketVars, flagVars, subVars, QuietOK, Unsubscribed
<1>8. QED
  BY <1>1, <1>2, <1>3, <1>4, <1>5, <1>6, <1>7 DEF Next, KlippyStep, RequestStep, ClientStep

LEMMA InductiveInvariant == Spec => []IInv
<1>1. IInv /\ [Next]_vars => IInv'
  BY NextTypeOK, NextLinkOK, NextAskedOK, NextSocketOK, NextLockOK, NextInitOK, NextClosedOK,
     NextToldOK, NextQuietOK DEF IInv
<1>2. QED
  BY InitIInv, <1>1, PTL DEF Spec
-----------------------------------------------------------------------------
(* Theorems *)

(* Every variable of the connection keeps its type, whatever the interleaving *)
(* of the connecting task, the closing, the clients and Klippy.                *)
THEOREM TypeCorrect == Spec => []TypeOK
BY InductiveInvariant, PTL DEF IInv

(* With the connection down, nothing is identified, started or registered, no *)
(* initialization goes on, and no request waits: what _on_connection_closed    *)
(* resets stays so although a cancelled task may have gone on (l.775-812).     *)
THEOREM ClosedLeavesNothing == Spec => []ClosedMeansReset
<1>1. IInv => ClosedMeansReset
  BY DEF IInv, SocketOK, ClosedOK, ClosedMeansReset, Initializes, Phases
<1>2. QED
  BY <1>1, InductiveInvariant, PTL

(* As long as a connection lasts, no listener is told of a shutdown before it *)
(* is told that Klippy has started: _process_status_update defers the event    *)
(* while the connection is initialized (l.586-595).                            *)
THEOREM ShutdownAfterStarted == Spec => ShutdownFollowsStarted
<1>1. ASSUME IInv, [Next]_vars, writer, "shutdown" \in announced' \ announced
      PROVE  "started" \in announced'
  <2>1. CASE ConnStep
    <3>1. CASE Open
      BY <1>1, <3>1 DEF Open
    <3>2. CASE GiveUp
      BY <1>1, <3>2 DEF GiveUp
    <3>3. CASE InitBegins
      BY <1>1, <3>3 DEF InitBegins
    <3>4. CASE RequestInfo
      BY <1>1, <3>4 DEF RequestInfo
    <3>5. CASE InfoAnswered
      <4>1. announced' \in {announced, announced \cup {"identified"}}
        BY <3>5 DEF InfoAnswered
      <4>2. QED
        BY <1>1, <4>1
    <3>6. CASE IdentifiedHandled
      BY <1>1, <3>6 DEF IdentifiedHandled
    <3>7. CASE EndpointsAnswered
      BY <1>1, <3>7 DEF EndpointsAnswered
    <3>8. CASE WebhooksAnswered
      BY <1>1, <3>8
      DEF IInv, Apply, SubscriptionAnswered, InitOK, Initializes, Phases, WebhooksAnswered
    <3>9. CASE OutputsAnswered
      BY <3>9 DEF OutputsAnswered
    <3>10. CASE StartedHandled
      <4>1. "started" \in announced /\ announced \subseteq announced'
        BY <1>1, <3>10 DEF StartedHandled, IInv, ToldOK
      <4>2. QED
        BY <4>1
    <3>11. CASE MethodsAnswered
      <4>1. "started" \in announced /\ announced \subseteq announced'
        BY <1>1, <3>11 DEF MethodsAnswered, IInv, ToldOK
      <4>2. QED
        BY <4>1
    <3>12. CASE ReadyHandled
      BY <1>1, <3>12 DEF IInv, ToldOK, ReadyHandled
    <3>13. QED
      BY <2>1, <3>1, <3>2, <3>3, <3>4, <3>5, <3>6, <3>7, <3>8, <3>9, <3>10, <3>11, <3>12 DEF ConnStep
  <2>2. CASE CloseStep
    BY <1>1, <2>2
    DEF IInv, SameKlippy, SameRequests, localVars, flagVars, subVars, TypeOK, AskedOK, LinkOK,
        SocketOK, LockOK, InitOK, ClosedOK, ToldOK, QuietOK, Unsubscribed, Initializes,
        Answered, HoldsMutex, Phases, Sender, Leaves, KlippyStates, Requests, Events, CloseStep,
        CloseBegins, ConnectionClosed, DisconnectHandled, NothingToClose
  <2>3. CASE StopServer \/ RunUpdate
    BY <1>1, <2>3
    DEF IInv, SameSocket, SameInit, klippyVars, socketVars, localVars, flagVars, subVars, Apply,
        TypeOK, AskedOK, LinkOK, SocketOK, LockOK, InitOK, ClosedOK, ToldOK, QuietOK,
        Unsubscribed, Initializes, Phases, Sender, KlippyStates, Requests, Events, StopServer,
        RunUpdate
  <2>4. CASE KlippyStep
    BY <1>1, <2>4
    DEF IInv, SameMoonraker, socketVars, localVars, flagVars, subVars, TypeOK, AskedOK, LinkOK,
        SocketOK, LockOK, InitOK, ClosedOK, ToldOK, QuietOK, Unsubscribed, Initializes, Phases,
        Sender, Readable, KlippyStates, Requests, Events, KlippyStep, KlippyStarts,
        KlippyChanges, KlippyExits, Notify
  <2>5. ASSUME NEW r \in Sender, RequestStep(r) PROVE "started" \in announced'
    BY <1>1, <2>5
    DEF IInv, SameSocket, SameInit, SameMoonraker, socketVars, localVars, flagVars, subVars,
        Send, IsConnected, TypeOK, AskedOK, LinkOK, SocketOK, LockOK, InitOK, ClosedOK, ToldOK,
        QuietOK, Unsubscribed, Initializes, Phases, Sender, Readable, KlippyStates, Requests,
        Events, RequestStep, Answer, LockAcquired, SubscriptionTimesOut
  <2>6. ASSUME NEW c \in Client, ClientStep(c) PROVE "started" \in announced'
    BY <1>1, <2>6
    DEF IInv, SameSocket, SameInit, socketVars, localVars, flagVars, subVars, Send, Subscribe,
        Apply, SubscriptionAnswered, IsConnected, TypeOK, AskedOK, LinkOK, SocketOK, LockOK,
        InitOK, ClosedOK, ToldOK, QuietOK, Unsubscribed, Initializes, Answered, Phases, Sender,
        KlippyStates, Requests, Events, ClientStep, ClientRequest, ClientAnswered,
        RemoveSubscription
  <2>7. CASE UNCHANGED vars
    BY <1>1, <2>7 DEF vars
  <2>8. QED
    BY <1>1, <2>1, <2>2, <2>3, <2>4, <2>5, <2>6, <2>7 DEF Next, KlippyStep, RequestStep, ClientStep
<1>2. IInv /\ [Next]_vars
      => [writer /\ "shutdown" \in announced' \ announced => "started" \in announced']_vars
  BY <1>1
<1>3. QED
  BY <1>2, InductiveInvariant, PTL DEF Spec, ShutdownFollowsStarted

(* What a step tells the listeners *)
Tells ==
  \/ announced' \in {announced, announced \cup {"shutdown"}} \/ announced' = {}
  \/ conn = "info" /\ ~identified /\ announced' = announced \cup {"identified"}
  \/ conn = "outputs" /\ announced' = announced \cup {"started"}
  \/ conn = "methods" /\ announced' = announced \cup {"ready"}

LEMMA NextTells == [Next]_vars => Tells
<1> SUFFICES ASSUME [Next]_vars PROVE Tells
  OBVIOUS
<1>1. CASE ConnStep
  <2>1. CASE Open
    BY <2>1 DEF Tells, Open
  <2>2. CASE GiveUp
    BY <2>2 DEF Tells, GiveUp
  <2>3. CASE InitBegins
    BY <2>3 DEF Tells, InitBegins
  <2>4. CASE RequestInfo
    BY <2>4 DEF Tells, RequestInfo
  <2>5. CASE InfoAnswered
    BY <2>5
    DEF IInv, SameKlippy, socketVars, Send, TryAgain, SetState, Subscribe, IsConnected, TypeOK,
        AskedOK, LinkOK, SocketOK, LockOK, InitOK, ClosedOK, ToldOK, QuietOK, Unsubscribed,
        Initializes, Answered, Phases, Sender, KlippyStates, Requests, Events, Tells,
        InfoAnswered
  <2>6. CASE IdentifiedHandled
    BY <2>6 DEF Tells, IdentifiedHandled
  <2>7. CASE EndpointsAnswered
    BY <2>7 DEF Tells, EndpointsAnswered
  <2>8. CASE WebhooksAnswered
    BY <2>8 DEF Apply, SubscriptionAnswered, Tells, WebhooksAnswered
  <2>9. CASE OutputsAnswered
    BY <2>9 DEF Tells, OutputsAnswered
  <2>10. CASE StartedHandled
    BY <2>10 DEF Tells, StartedHandled
  <2>11. CASE MethodsAnswered
    BY <2>11 DEF Tells, MethodsAnswered
  <2>12. CASE ReadyHandled
    BY <2>12 DEF Tells, ReadyHandled
  <2>13. QED
    BY <1>1, <2>1, <2>2, <2>3, <2>4, <2>5, <2>6, <2>7, <2>8, <2>9, <2>10, <2>11, <2>12 DEF ConnStep
<1>2. CASE CloseStep
  BY <1>2 DEF Tells, CloseStep, CloseBegins, ConnectionClosed, DisconnectHandled, NothingToClose
<1>3. CASE StopServer \/ RunUpdate
  BY <1>3 DEF Apply, Tells, StopServer, RunUpdate
<1>4. CASE KlippyStep
  BY <1>4 DEF SameMoonraker, Tells, KlippyStep, KlippyStarts, KlippyChanges, KlippyExits, Notify
<1>5. ASSUME NEW r \in Sender, RequestStep(r) PROVE Tells
  BY <1>5 DEF SameMoonraker, Tells, RequestStep, Answer, LockAcquired, SubscriptionTimesOut
<1>6. ASSUME NEW c \in Client, ClientStep(c) PROVE Tells
  BY <1>6
  DEF Apply, SubscriptionAnswered, Tells, ClientStep, ClientRequest, ClientAnswered,
      RemoveSubscription
<1>7. CASE UNCHANGED vars
  BY <1>7 DEF Tells, vars
<1>8. QED
  BY <1>1, <1>2, <1>3, <1>4, <1>5, <1>6, <1>7 DEF Next, KlippyStep, RequestStep, ClientStep

(* Listeners hear of one connection after the other, and of each that it was *)
(* identified, has started and is ready, in this order: whatever the          *)
(* connecting task and the closing do is a step of KlippyLifecycle.            *)
THEOREM ListenersToldInOrder == Spec => ImplementsLifecycle
<1>1. Init => Lifecycle!Init
  BY DEF Init, Lifecycle!Init, Told
<1>2. IInv /\ [Next]_vars => [Lifecycle!Next]_Told
  <2> SUFFICES ASSUME IInv, Tells PROVE [Lifecycle!Next]_Told
    BY NextTells
  <2> USE DEF Told, IInv, ToldOK
  <2>1. CASE announced' \in {announced, announced \cup {"shutdown"}}
    BY <2>1
  <2>2. CASE announced' = {}
    BY <2>2 DEF Lifecycle!Next, Lifecycle!Disconnected
  <2>3. CASE conn = "info" /\ ~identified /\ announced' = announced \cup {"identified"}
    BY <2>3 DEF Lifecycle!Next, Lifecycle!Identified
  <2>4. CASE conn = "outputs" /\ announced' = announced \cup {"started"}
    BY <2>4 DEF Lifecycle!Next, Lifecycle!Started
  <2>5. CASE conn = "methods" /\ announced' = announced \cup {"ready"}
    BY <2>5 DEF Lifecycle!Next, Lifecycle!Ready
  <2>6. QED
    BY <2>1, <2>2, <2>3, <2>4, <2>5 DEF Tells
<1>3. QED
  BY <1>1, <1>2, InductiveInvariant, PTL DEF Spec, ImplementsLifecycle, Lifecycle!Spec

====
