---------------------------- MODULE Connections ----------------------------
(***************************************************************************)
(* common.py, websockets.py and extensions.py: connections by websocket    *)
(* and by the Unix socket, the queue and the writing task of each, agents  *)
(* with their methods, and calls that wait for an agent's response.  A     *)
(* message that arrives is handled by a task of its own, which may run     *)
(* after the connection is closed.  Then the bridges, which pass a         *)
(* websocket through to a Klippy connection of their own, and the end of   *)
(* the server, which closes both.                                          *)
(***************************************************************************)
EXTENDS Naturals, Sequences, FiniteSets, TLC

CONSTANTS
  Web, Unix,     \* connections of either kind
  Bridge,        \* websockets that are passed through to Klippy
  Name, Method,  \* names of agents, remote methods they register
  CallNo,        \* calls to agents
  None,
  Plans,         \* what a behaviour may contain: see TypeOK
  AwaitsClients  \* Server.wait_closed waits for connections (Python 3.12 on)

Conn == Web \cup Unix

ASSUME ConnectionsConstants ==
  /\ Web \cap Unix = {} /\ Bridge \cap Conn = {}
  /\ None \notin Conn \cup Name \cup Bridge \cup CallNo \cup {"event", "reply", "error", "method"}
  /\ AwaitsClients \in BOOLEAN
  /\ Plans \subseteq [conns : SUBSET Conn, bridges : SUBSET Bridge, messages : Nat, kinds : SUBSET STRING,
                     leaves : SUBSET (Conn \cup Bridge), stops : BOOLEAN]

VARIABLES
  plan,                \* which connections there are, how many messages, of which kinds
  server,              \* the server's life, up to "stopped"
  conn,                \* a connection, by what is closed of it
  peer,                \* the other end is there
  asked,               \* close_socket was called
  inbox,               \* tasks of _process_message that have not run
  buf, writer, out,    \* message_buf, its task, the message it writes
  identity, name,      \* client_data
  late,                \* history: identified, or registered a method, when gone already
  agents, methods, remote,  \* agents, agent_methods, remote_methods
  call,                \* calls to agents and the futures they wait for
  clients,             \* clients of the WebsocketManager
  bridge, toKlippy, link, bridgeBusy  \* bridges, what they send on, their Klippy connections

bridgeVars == <<bridge, toKlippy, link, bridgeBusy>>
agentVars == <<identity, name, late, agents, methods, remote>>
queueVars == <<buf, writer, out>>
socketVars == <<conn, peer, asked, clients>>
vars == <<plan, server, socketVars, inbox, queueVars, agentVars, call, bridgeVars>>

(* is_closed *)
IsClosed(c) == conn[c] \notin {"none", "open"}
Waits(k) == call[k].future \in {"queued", "sent"}
(* Mutant: calls that are not written yet are forgotten. *)
WrittenCallsTo(c) == {k \in CallNo : call[k].future = "sent" /\ call[k].agent = c}
(* pending_responses *)
CallsTo(c) == {k \in CallNo : Waits(k) /\ call[k].agent = c}
Others(c) == clients \ {c}
NoCall == [future |-> "none", agent |-> None, caller |-> None]
NewCall == CHOOSE k \in CallNo : call[k] = NoCall
-----------------------------------------------------------------------------
(* The queue of a connection *)

(* queue_message, for a sequence of messages to each connection *)
Queue(msgs) ==
  /\ buf' = [c \in Conn |-> buf[c] \o msgs[c]]
  /\ writer' = [c \in Conn |-> IF writer[c] = "none" /\ msgs[c] # <<>> THEN "start" ELSE writer[c]]
  /\ UNCHANGED out

To(S, msg) == [c \in Conn |-> IF c \in S THEN <<msg>> ELSE <<>>]
Both(f, g) == [c \in Conn |-> f[c] \o g[c]]

(* _write_messages: its next turn, with what is left of the buffer *)
NextMessage(c, rest) ==
  IF rest = <<>>
  THEN /\ writer' = [writer EXCEPT ![c] = "none"]
       /\ out' = [out EXCEPT ![c] = None]
       /\ buf' = [buf EXCEPT ![c] = <<>>]
  ELSE /\ writer' = [writer EXCEPT ![c] = "writing"]
       /\ out' = [out EXCEPT ![c] = Head(rest)]
       /\ buf' = [buf EXCEPT ![c] = Tail(rest)]

WriterStarts(c) ==
  /\ writer[c] = "start"
  /\ NextMessage(c, IF IsClosed(c) THEN <<>> ELSE buf[c])
  /\ UNCHANGED <<plan, server, socketVars, inbox, agentVars, call, bridgeVars>>

(* The message is sent; is_closed is not looked at before the next one. *)
Written(c) ==
  /\ writer[c] = "writing"
  /\ conn[c] = "open" /\ peer[c]
  /\ call' = IF out[c] \in CallNo /\ Waits(out[c])
             THEN [call EXCEPT ![out[c]].future = "sent"] ELSE call
  /\ NextMessage(c, buf[c])
  /\ UNCHANGED <<plan, server, socketVars, inbox, agentVars, bridgeVars>>

(* Mutant: an error ends the task without giving the queue free. *)
WriteFailsBusy(c) ==
  /\ writer[c] = "writing"
  /\ ~peer[c] \/ c \in asked \/ IsClosed(c)
  /\ \/ /\ c \in Web
        /\ conn' = [conn EXCEPT ![c] = IF @ = "open" THEN "broken" ELSE @]
        /\ UNCHANGED queueVars
     \/ /\ c \in Unix /\ IsClosed(c)
        /\ NextMessage(c, buf[c])
        /\ UNCHANGED conn
     \/ /\ c \in Unix /\ ~IsClosed(c)
        /\ conn' = [conn EXCEPT ![c] = "closing"]
        /\ writer' = [writer EXCEPT ![c] = "closing"]
        /\ UNCHANGED <<buf, out>>
  /\ UNCHANGED <<plan, server, peer, asked, clients, inbox, agentVars, call, bridgeVars>>

(* WebSocket.write_to_socket drops the buffer; UnixSocketClient's waits for *)
(* _on_close, which is nothing when another one is under way.               *)
WriteFails(c) ==
  /\ writer[c] = "writing"
  /\ ~peer[c] \/ c \in asked \/ IsClosed(c)
  /\ \/ /\ c \in Web
        /\ conn' = [conn EXCEPT ![c] = IF @ = "open" THEN "broken" ELSE @]
        /\ NextMessage(c, <<>>)
     \/ /\ c \in Unix /\ IsClosed(c)
        /\ NextMessage(c, buf[c])
        /\ UNCHANGED conn
     \/ /\ c \in Unix /\ ~IsClosed(c)
        /\ conn' = [conn EXCEPT ![c] = "closing"]
        /\ writer' = [writer EXCEPT ![c] = "closing"]
        /\ UNCHANGED <<buf, out>>
  /\ UNCHANGED <<plan, server, peer, asked, clients, inbox, agentVars, call, bridgeVars>>
-----------------------------------------------------------------------------
(* Opening and closing *)

(* Mutant: the manager is not told of a Unix client. *)
ConnectUnlisted(c) ==
  /\ conn[c] = "none" /\ c \in plan.conns
  /\ server \in {"up", "exit"} \/ (c \in Unix /\ server \in {"waiting", "klippy"})
  /\ conn' = [conn EXCEPT ![c] = "open"]
  /\ peer' = [peer EXCEPT ![c] = TRUE]
  /\ clients' = IF c \in Web THEN clients \cup {c} ELSE clients
  /\ UNCHANGED <<plan, server, asked, inbox, queueVars, agentVars, call, bridgeVars>>

(* open and UnixSocketClient.__init__, add_client *)
Connect(c) ==
  /\ conn[c] = "none" /\ c \in plan.conns
  /\ server \in {"up", "exit"} \/ (c \in Unix /\ server \in {"waiting", "klippy"})
  /\ conn' = [conn EXCEPT ![c] = "open"]
  /\ peer' = [peer EXCEPT ![c] = TRUE]
  /\ clients' = clients \cup {c}
  /\ UNCHANGED <<plan, server, asked, inbox, queueVars, agentVars, call, bridgeVars>>

PeerLeaves(c) ==
  /\ c \in plan.leaves /\ peer[c]
  /\ peer' = [peer EXCEPT ![c] = FALSE]
  /\ UNCHANGED <<plan, server, conn, asked, clients, inbox, queueVars, agentVars, call, bridgeVars>>

(* remove_agent, which looks the name up *)
RemoveAgent(c) ==
  IF identity[c] = "agent" /\ agents[name[c]] # None
  THEN /\ agents' = [agents EXCEPT ![name[c]] = None]
       /\ remote' = [m \in Method |-> IF m \in methods[c] THEN None ELSE remote[m]]
       /\ methods' = [methods EXCEPT ![c] = {}]
  ELSE UNCHANGED <<agents, remote, methods>>

(* The rest of on_close and of _on_close: the buffer is dropped, calls fail, *)
(* the agent and the client are removed, the other clients are told.         *)
Closed(c) ==
  /\ conn' = [conn EXCEPT ![c] = "gone"]
  /\ call' = [k \in CallNo |-> IF k \in CallsTo(c) THEN [call[k] EXCEPT !.future = "failed"] ELSE call[k]]
  /\ RemoveAgent(c)
  /\ clients' = Others(c)
  /\ LET told == IF identity[c] = "agent" /\ agents[name[c]] # None THEN Others(c) ELSE {} IN
     /\ buf' = [d \in Conn |-> IF d = c THEN <<>> ELSE buf[d] \o To(told, "event")[d]]
     /\ writer' = [d \in Conn |-> CASE d = c /\ writer[c] = "closing" -> "none"
                                    [] d \in told /\ writer[d] = "none" -> "start"
                                    [] OTHER -> writer[d]]
     /\ out' = IF writer[c] = "closing" THEN [out EXCEPT ![c] = None] ELSE out
  /\ UNCHANGED <<plan, server, peer, asked, inbox, identity, name, late, bridgeVars>>

(* WebSocket.on_close *)
WebClosed(c) ==
  /\ c \in Web /\ conn[c] \in {"open", "broken"}
  /\ ~peer[c] \/ c \in asked
  /\ Closed(c)

(* Mutant: close_socket leaves the closing to the reader. *)
UnixCloseByReader(c) ==
  /\ c \in Unix /\ conn[c] = "open"
  /\ ~peer[c]
  /\ conn' = [conn EXCEPT ![c] = "closing"]
  /\ UNCHANGED <<plan, server, peer, asked, clients, inbox, queueVars, agentVars, call, bridgeVars>>

(* _on_close from the reader or from close_socket, up to wait_closed *)
UnixCloseBegins(c) ==
  /\ c \in Unix /\ conn[c] = "open"
  /\ ~peer[c] \/ c \in asked
  /\ conn' = [conn EXCEPT ![c] = "closing"]
  /\ UNCHANGED <<plan, server, peer, asked, clients, inbox, queueVars, agentVars, call, bridgeVars>>

(* The transport was closing already: nothing is awaited. *)
UnixClosedAtOnce(c) ==
  /\ c \in Unix /\ conn[c] = "open" /\ ~peer[c]
  /\ Closed(c)

UnixClosed(c) ==
  /\ c \in Unix /\ conn[c] = "closing"
  /\ Closed(c)
-----------------------------------------------------------------------------
(* Messages of the peer: on_message and _read_messages create a task each. *)

Responses(c) == {k \in CallNo : call[k].agent = c /\ call[k].future = "sent"}
Messages(c) ==
  [kind : {"identify"}, name : Name \cup {None}] \cup [kind : {"register"}, method : Method]
    \cup [kind : {"call"}, name : Name] \cup [kind : {"event"}]
    \cup [kind : {"response"}, call : Responses(c)]
CallsArriving == {d \in Conn : \E i \in 1..Len(inbox[d]) : inbox[d][i].kind = "call"}

Receive(c) == \E msg \in Messages(c) :
  /\ conn[c] = "open" /\ peer[c]
  /\ msg.kind \in plan.kinds
  /\ msg.kind # "response" => plan.messages > 0
  /\ plan' = IF msg.kind = "response" THEN plan ELSE [plan EXCEPT !.messages = @ - 1]
  /\ msg.kind = "response" => \A i \in 1..Len(inbox[c]) : inbox[c][i] # msg
  /\ msg.kind = "call" => CallsArriving = {} /\ \E k \in CallNo : call[k] = NoCall
  /\ inbox' = [inbox EXCEPT ![c] = Append(@, msg)]
  /\ UNCHANGED <<server, socketVars, queueVars, agentVars, call, bridgeVars>>

(* The task of the oldest message; it runs up to its reply. *)
Handles(c, kind) ==
  /\ inbox[c] # <<>> /\ Head(inbox[c]).kind = kind
  /\ inbox' = [inbox EXCEPT ![c] = Tail(@)]

Refused(c) == UNCHANGED agentVars /\ Queue(To({c}, "error"))

(* Mutant: the type of a connection that is refused as an agent stays. *)
IdentifyKeepsType(c) == LET n == Head(inbox[c]).name IN
  /\ Handles(c, "identify")
  /\ \/ identity[c] # "unknown" /\ Refused(c)
     \/ /\ identity[c] = "unknown"
        /\ name' = [name EXCEPT ![c] = n]
        /\ identity' = [identity EXCEPT ![c] = IF n = None THEN "client" ELSE "agent"]
        /\ IF n # None /\ agents[n] = None
           THEN /\ agents' = [agents EXCEPT ![n] = c]
                /\ late' = IF conn[c] = "gone" THEN late \cup {c} ELSE late
                /\ Queue(Both(To(Others(c), "event"), To({c}, "reply")))
           ELSE /\ Queue(To({c}, "reply"))
                /\ UNCHANGED <<agents, late>>
        /\ UNCHANGED <<methods, remote>>
  /\ UNCHANGED <<plan, server, socketVars, call, bridgeVars>>

(* _handle_identify and register_agent: whoever has given its data cannot   *)
(* give it again; an agent whose name is taken is left without a type.      *)
Identify(c) == LET n == Head(inbox[c]).name IN
  /\ Handles(c, "identify")
  /\ \/ identity[c] # "unknown" /\ Refused(c)
     \/ /\ identity[c] = "unknown" /\ n = None
        /\ identity' = [identity EXCEPT ![c] = "client"]
        /\ Queue(To({c}, "reply"))
        /\ UNCHANGED <<name, late, agents, methods, remote>>
     \/ /\ identity[c] = "unknown" /\ n # None
        /\ name' = [name EXCEPT ![c] = n]
        /\ IF agents[n] # None
           THEN /\ identity' = [identity EXCEPT ![c] = "refused"]
                /\ Queue(To({c}, "error"))
                /\ UNCHANGED <<late, agents, methods, remote>>
           ELSE /\ identity' = [identity EXCEPT ![c] = "agent"]
                /\ agents' = [agents EXCEPT ![n] = c]
                /\ late' = IF conn[c] = "gone" THEN late \cup {c} ELSE late
                /\ Queue(Both(To(Others(c), "event"), To({c}, "reply")))
                /\ UNCHANGED <<methods, remote>>
  /\ UNCHANGED <<plan, server, socketVars, call, bridgeVars>>

(* register_method_from_agent: only agents, and each method once *)
MayRegister(c, m) == identity[c] = "agent" /\ remote[m] = None

(* _register_agent_method *)
RegisterMethod(c) == LET m == Head(inbox[c]).method IN
  /\ Handles(c, "register")
  /\ \/ /\ MayRegister(c, m)
        /\ remote' = [remote EXCEPT ![m] = c]
        /\ methods' = [methods EXCEPT ![c] = @ \cup {m}]
        /\ late' = IF conn[c] = "gone" THEN late \cup {c} ELSE late
        /\ Queue(To({c}, "reply"))
        /\ UNCHANGED <<identity, name, agents>>
     \/ ~MayRegister(c, m) /\ Refused(c)
  /\ UNCHANGED <<plan, server, socketVars, call, bridgeVars>>

(* _handle_call_agent and call_method_with_response *)
CallAgent(c) == LET n == Head(inbox[c]).name IN
  /\ Handles(c, "call")
  /\ \/ /\ agents[n] = None
        /\ Queue(To({c}, "error"))
        /\ UNCHANGED call
     \/ /\ agents[n] # None
        /\ call' = [call EXCEPT ![NewCall] = [future |-> "queued", agent |-> agents[n], caller |-> c]]
        /\ Queue(To({agents[n]}, NewCall))
  /\ UNCHANGED <<plan, server, socketVars, agentVars, bridgeVars>>

(* _handle_agent_event *)
AgentEvent(c) ==
  /\ Handles(c, "event")
  /\ Queue(IF identity[c] = "agent" THEN Both(To(Others(c), "event"), To({c}, "reply"))
           ELSE To({c}, "error"))
  /\ UNCHANGED <<plan, server, socketVars, agentVars, call, bridgeVars>>

(* process_response and resolve_pending_response *)
Response(c) == LET k == Head(inbox[c]).call IN
  /\ Handles(c, "response")
  /\ call' = IF k \in CallsTo(c) THEN [call EXCEPT ![k].future = "answered"] ELSE call
  /\ UNCHANGED <<plan, server, socketVars, queueVars, agentVars, bridgeVars>>

(* The caller's task goes on: its request is answered, with what the agent *)
(* said or with the error.                                                 *)
CallReturns(k) ==
  /\ call[k].future \in {"answered", "failed"}
  /\ call' = [call EXCEPT ![k].future = "done"]
  /\ Queue(To({call[k].caller}, "reply"))
  /\ UNCHANGED <<plan, server, socketVars, inbox, agentVars, bridgeVars>>

(* Klippy calls a remote method: _process_command, _execute_method, call_method *)
KlippyCalls(m) ==
  /\ remote[m] # None /\ "method" \in plan.kinds /\ plan.messages > 0
  /\ plan' = [plan EXCEPT !.messages = @ - 1]
  /\ Queue(To({remote[m]}, "method"))
  /\ UNCHANGED <<server, socketVars, inbox, agentVars, call, bridgeVars>>
-----------------------------------------------------------------------------
Futures == {"none", "queued", "sent", "answered", "failed", "done"}
Held == {"event", "reply", "error", "method"} \cup CallNo

TypeOK ==
  /\ plan \in [conns : SUBSET Conn, bridges : SUBSET Bridge, messages : Nat, kinds : SUBSET STRING,
               leaves : SUBSET (Conn \cup Bridge), stops : BOOLEAN]
  /\ server \in {"up", "exit", "waiting", "klippy", "extensions", "stopped"}
  /\ conn \in [Conn -> {"none", "open", "broken", "closing", "gone"}]
  /\ peer \in [Conn -> BOOLEAN] /\ asked \subseteq Conn
  /\ \A c \in Conn : \A i \in 1..Len(buf[c]) : buf[c][i] \in Held
  /\ writer \in [Conn -> {"none", "start", "writing", "closing"}]
  /\ \A c \in Conn : out[c] \in Held <=> writer[c] \in {"writing", "closing"}
  /\ identity \in [Conn -> {"unknown", "client", "agent", "refused"}]
  /\ name \in [Conn -> Name \cup {None}]
  /\ late \subseteq Conn
  /\ agents \in [Name -> Conn \cup {None}]
  /\ methods \in [Conn -> SUBSET Method]
  /\ remote \in [Method -> Conn \cup {None}]
  /\ call \in [CallNo -> [future : Futures, agent : Conn \cup {None}, caller : Conn \cup {None}]]
  /\ clients = {c \in Conn : conn[c] \notin {"none", "gone"}}
  /\ bridge \in [Bridge -> {"none", "open", "closing", "refused", "gone"}]
  /\ link \in [Bridge -> {"none", "open", "lost", "closed"}]
  /\ toKlippy \in [Bridge -> Nat]
  /\ bridgeBusy \in [Bridge -> {"none", "start", "writing"}]

Init ==
  /\ plan \in Plans
  /\ server = "up"
  /\ conn = [c \in Conn |-> "none"] /\ peer = [c \in Conn |-> FALSE]
  /\ asked = {} /\ clients = {}
  /\ inbox = [c \in Conn |-> <<>>] /\ buf = [c \in Conn |-> <<>>]
  /\ writer = [c \in Conn |-> "none"] /\ out = [c \in Conn |-> None]
  /\ identity = [c \in Conn |-> "unknown"] /\ name = [c \in Conn |-> None] /\ late = {}
  /\ agents = [n \in Name |-> None]
  /\ methods = [c \in Conn |-> {}] /\ remote = [m \in Method |-> None]
  /\ call = [k \in CallNo |-> NoCall]
  /\ bridge = [b \in Bridge |-> "none"] /\ link = [b \in Bridge |-> "none"]
  /\ toKlippy = [b \in Bridge |-> 0] /\ bridgeBusy = [b \in Bridge |-> "none"]
-----------------------------------------------------------------------------
(* Bridges *)

connectionVars == <<socketVars, inbox, queueVars, agentVars, call>>
Live == {b \in Bridge : bridge[b] \in {"open", "closing"}}

(* prepare has opened the Klippy connection.  A handshake that is refused   *)
(* (check_origin) leaves that connection to Klippy.                         *)
BridgeOpens(b) ==
  /\ bridge[b] = "none" /\ b \in plan.bridges /\ server \in {"up", "exit"}
  /\ link' = [link EXCEPT ![b] = "open"]
  /\ bridge' \in {[bridge EXCEPT ![b] = "open"], [bridge EXCEPT ![b] = "refused"]}
  /\ UNCHANGED <<plan, server, connectionVars, toKlippy, bridgeBusy>>

(* BridgeSocket.on_message *)
BridgeMessage(b) ==
  /\ bridge[b] = "open" /\ plan.messages > 0
  /\ plan' = [plan EXCEPT !.messages = @ - 1]
  /\ toKlippy' = [toKlippy EXCEPT ![b] = @ + 1]
  /\ bridgeBusy' = [bridgeBusy EXCEPT ![b] = IF @ = "none" THEN "start" ELSE @]
  /\ UNCHANGED <<server, connectionVars, bridge, link>>

(* _write_klippy_messages: its next turn *)
NextToKlippy(b) ==
  IF toKlippy[b] = 0 \/ link[b] = "closed" \/ bridge[b] = "gone"
  THEN /\ bridgeBusy' = [bridgeBusy EXCEPT ![b] = "none"]
       /\ UNCHANGED toKlippy
  ELSE /\ bridgeBusy' = [bridgeBusy EXCEPT ![b] = "writing"]
       /\ toKlippy' = [toKlippy EXCEPT ![b] = @ - 1]

BridgeWriterStarts(b) ==
  /\ bridgeBusy[b] = "start"
  /\ NextToKlippy(b)
  /\ UNCHANGED <<plan, server, connectionVars, bridge, link>>

BridgeWritten(b) ==
  /\ bridgeBusy[b] = "writing" /\ link[b] = "open"
  /\ NextToKlippy(b)
  /\ UNCHANGED <<plan, server, connectionVars, bridge, link>>

(* The loop is left with what the buffer holds; on_close drops it. *)
BridgeWriteFails(b) ==
  /\ bridgeBusy[b] = "writing" /\ link[b] # "open"
  /\ bridge' = [bridge EXCEPT ![b] = IF @ = "open" THEN "closing" ELSE @]
  /\ bridgeBusy' = [bridgeBusy EXCEPT ![b] = "none"]
  /\ UNCHANGED <<plan, server, connectionVars, toKlippy, link>>

KlippyDrops(b) ==
  /\ link[b] = "open" /\ b \in plan.leaves
  /\ link' = [link EXCEPT ![b] = "lost"]
  /\ UNCHANGED <<plan, server, connectionVars, bridge, toKlippy, bridgeBusy>>

(* _read_unix_stream at the end of the stream *)
KlippyStreamEnds(b) ==
  /\ link[b] = "lost" /\ bridge[b] = "open"
  /\ bridge' = [bridge EXCEPT ![b] = "closing"]
  /\ UNCHANGED <<plan, server, connectionVars, toKlippy, link, bridgeBusy>>

(* BridgeSocket.on_close *)
BridgeClosed(b) ==
  /\ bridge[b] = "closing" \/ (bridge[b] = "open" /\ b \in plan.leaves)
  /\ bridge' = [bridge EXCEPT ![b] = "gone"]
  /\ link' = [link EXCEPT ![b] = "closed"]
  /\ toKlippy' = [toKlippy EXCEPT ![b] = 0]
  /\ UNCHANGED <<plan, server, connectionVars, bridgeBusy>>
-----------------------------------------------------------------------------
(* _stop_server *)

(* restart, SIGTERM: on_exit of the components, 100 ms, application.close *)
Stop ==
  /\ server = "up" /\ plan.stops
  /\ server' = "exit"
  /\ UNCHANGED <<plan, connectionVars, bridgeVars>>

(* WebsocketManager.close: nothing is done when there are no clients. *)
CloseBegins ==
  /\ server = "exit"
  /\ IF clients = {}
     THEN server' = "klippy" /\ UNCHANGED <<asked, bridge>>
     ELSE /\ server' = "waiting"
          /\ asked' = clients
          /\ bridge' = [b \in Bridge |-> IF bridge[b] = "open" THEN "closing" ELSE bridge[b]]
  /\ UNCHANGED <<plan, conn, peer, clients, inbox, queueVars, agentVars, call, toKlippy, link, bridgeBusy>>

(* closed_event, or its two seconds *)
CloseEnds ==
  /\ server = "waiting"
  /\ server' = "klippy"
  /\ UNCHANGED <<plan, connectionVars, bridgeVars>>

(* klippy_connection is closed, then component by component: ExtensionManager *)
(* stops to listen ...                                                       *)
KlippyClosed ==
  /\ server = "klippy"
  /\ server' = "extensions"
  /\ UNCHANGED <<plan, connectionVars, bridgeVars>>

(* ... and waits for its server, which may mean for its clients. *)
ExtensionsClosed ==
  /\ server = "extensions"
  /\ AwaitsClients => \A c \in Unix : conn[c] \in {"none", "gone"}
  /\ server' = "stopped"
  /\ UNCHANGED <<plan, connectionVars, bridgeVars>>
-----------------------------------------------------------------------------
MessageTask(c) ==
  \/ Identify(c) \/ RegisterMethod(c) \/ CallAgent(c) \/ AgentEvent(c) \/ Response(c)
ConnectionTask(c) ==
  \/ MessageTask(c) \/ WriterStarts(c) \/ Written(c) \/ WriteFails(c)
  \/ WebClosed(c) \/ UnixCloseBegins(c) \/ UnixClosedAtOnce(c) \/ UnixClosed(c)
BridgeTask(b) ==
  \/ BridgeWriterStarts(b) \/ BridgeWritten(b) \/ BridgeWriteFails(b) \/ KlippyStreamEnds(b)
ServerTask == CloseBegins \/ CloseEnds \/ KlippyClosed \/ ExtensionsClosed

Next ==
  \/ \E c \in Conn : Connect(c) \/ PeerLeaves(c) \/ Receive(c) \/ ConnectionTask(c)
  \/ \E k \in CallNo : CallReturns(k)
  \/ \E m \in Method : KlippyCalls(m)
  \/ \E b \in Bridge : BridgeOpens(b) \/ BridgeMessage(b) \/ KlippyDrops(b) \/ BridgeClosed(b) \/ BridgeTask(b)
  \/ Stop \/ ServerTask

Spec == Init /\ [][Next]_vars

(* The event loop runs the tasks that are ready; a socket that was told to  *)
(* close, or whose peer is gone, is reported as closed; a peer that stays   *)
(* reads what is written to it.  A connection has finitely many tasks, so   *)
(* that fairness to each would say no more.                                 *)
Fairness ==
  /\ \A c \in Conn : WF_vars(ConnectionTask(c))
  /\ WF_vars(\E k \in CallNo : CallReturns(k))
  /\ \A b \in Bridge : WF_vars(BridgeTask(b) \/ (bridge[b] = "closing" /\ BridgeClosed(b)))
  /\ WF_vars(ServerTask)
FairSpec == Spec /\ Fairness
-----------------------------------------------------------------------------
(* An identified agent is found under its name as long as its connection is *)
(* there; and but for requests of a connection that are handled only after  *)
(* its on_close, names lead to nobody who is gone, and remote methods to    *)
(* agents that are registered (register_agent, remove_agent): refused and   *)
(* closing connections of the same name do not disturb it.                  *)
AgentsReachable ==
  /\ \A c \in Conn : identity[c] = "agent" /\ conn[c] # "gone" => agents[name[c]] = c
  /\ \A n \in Name : agents[n] # None =>
       identity[agents[n]] = "agent" /\ (conn[agents[n]] = "gone" => agents[n] \in late)
  /\ \A m \in Method : remote[m] # None =>
       /\ m \in methods[remote[m]]
       /\ agents[name[remote[m]]] = remote[m] \/ remote[m] \in late

(* A call that waits for an agent whose connection closes ends, also one    *)
(* made while _on_close waits for the writer.                               *)
CallsEnd ==
  \A k \in CallNo : \A c \in Conn :
    (Waits(k) /\ call[k].agent = c /\ conn[c] \in {"broken", "closing"}) ~> ~Waits(k)

(* What is queued for a connection or for Klippy does not stay in its       *)
(* buffer: it is written, or dropped with the connection (queue_message,    *)
(* klippy_queue_busy).                                                      *)
EveryMessageLeaves ==
  /\ \A c \in Conn : (buf[c] # <<>>) ~> (buf[c] = <<>>)
  /\ \A b \in Bridge : (toKlippy[b] > 0) ~> (toKlippy[b] = 0)

(* A bridge ends with its Klippy connection, and the other way round. *)
BridgesEnd ==
  \A b \in Bridge : (bridge[b] # "refused" /\ (bridge[b] = "gone" \/ link[b] = "lost"))
                      ~> (bridge[b] = "gone" /\ link[b] = "closed")

(* What depends on a connection ends with it: the calls to an agent, whatever  *)
(* else waits while it closes, and each of the two ends of a bridge.            *)
EndsWithItsPeer == CallsEnd /\ BridgesEnd

(* A server that stops comes to its end, unless a client of the Unix socket *)
(* that nobody asked to leave stays: one that came after close().           *)
ServerStops ==
  (server = "exit") ~> \/ server = "stopped"
                       \/ \E c \in Unix \ asked : conn[c] = "open" /\ server = "extensions"
=============================================================================
