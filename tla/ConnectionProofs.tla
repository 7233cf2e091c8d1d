-------------------------- MODULE ConnectionProofs --------------------------
(***************************************************************************)
(* The type of Connections and the reachability of agents, for any number  *)
(* of connections, names, methods, calls and bridges and for any plans.    *)
(***************************************************************************)
EXTENDS Connections, TLAPS

Plan == [conns : SUBSET Conn, bridges : SUBSET Bridge, messages : Nat, kinds : SUBSET STRING,
         leaves : SUBSET (Conn \cup Bridge), stops : BOOLEAN]
Call == [future : Futures, agent : Conn \cup {None}, caller : Conn \cup {None}]
Message ==
  [kind : {"identify"}, name : Name \cup {None}] \cup [kind : {"register"}, method : Method]
    \cup [kind : {"call"}, name : Name] \cup [kind : {"event"}]
    \cup [kind : {"response"}, call : CallNo]

(* The queues, with what TypeOK says of their parts *)
QueuesOK ==
  /\ buf \in [Conn -> Seq(Held)]
  /\ writer \in [Conn -> {"none", "start", "writing", "closing"}]
  /\ out \in [Conn -> Held \cup {None}]
  /\ \A c \in Conn : out[c] # None <=> writer[c] \in {"writing", "closing"}

AgentTypes ==
  /\ identity \in [Conn -> {"unknown", "client", "agent", "refused"}]
  /\ name \in [Conn -> Name \cup {None}]
  /\ late \subseteq Conn
  /\ agents \in [Name -> Conn \cup {None}]
  /\ methods \in [Conn -> SUBSET Method]
  /\ remote \in [Method -> Conn \cup {None}]

SocketTypes ==
  /\ conn \in [Conn -> {"none", "open", "broken", "closing", "gone"}]
  /\ peer \in [Conn -> BOOLEAN] /\ asked \subseteq Conn
  /\ clients = {c \in Conn : conn[c] \notin {"none", "gone"}}

BridgeTypes ==
  /\ bridge \in [Bridge -> {"none", "open", "closing", "refused", "gone"}]
  /\ link \in [Bridge -> {"none", "open", "lost", "closed"}]
  /\ toKlippy \in [Bridge -> Nat]
  /\ bridgeBusy \in [Bridge -> {"none", "start", "writing"}]

IsCall(c, i) == i \in 1..Len(inbox[c]) /\ inbox[c][i].kind = "call"
Free == \E k \in CallNo : call[k] = NoCall

(* A call that has arrived is the only one, and one of CallNo is left for it. *)
CallsOK ==
  /\ inbox \in [Conn -> Seq(Message)]
  /\ call \in [CallNo -> Call]
  /\ \A c, d \in Conn : \A i, j \in Nat : IsCall(c, i) /\ IsCall(d, j) => c = d /\ i = j
  /\ \A c \in Conn : \A i \in Nat : IsCall(c, i) => Free

TypeInv ==
  /\ plan \in Plan
  /\ server \in {"up", "exit", "waiting", "klippy", "extensions", "stopped"}
  /\ SocketTypes
  /\ QueuesOK
  /\ AgentTypes
  /\ CallsOK
  /\ BridgeTypes

(* AgentsReachable, and that who is registered, or has a method registered, *)
(* is an agent and registered under its own name: this is what is left      *)
(* untouched when another connection identifies itself or closes.           *)
AgentsInv ==
  /\ \A c \in Conn : identity[c] = "agent" => name[c] \in Name
  /\ \A c \in Conn : identity[c] = "agent" /\ conn[c] # "gone" => agents[name[c]] = c
  /\ \A n \in Name : agents[n] # None =>
       /\ identity[agents[n]] = "agent" /\ name[agents[n]] = n
       /\ conn[agents[n]] = "gone" => agents[n] \in late
  /\ \A m \in Method : remote[m] # None =>
       /\ identity[remote[m]] = "agent" /\ m \in methods[remote[m]]
       /\ agents[name[remote[m]]] = remote[m] \/ remote[m] \in late

(* Of a connection that is not there yet nobody knows. *)
AbsentOK ==
  \A c \in Conn : conn[c] = "none" =>
    /\ inbox[c] = <<>> /\ writer[c] = "none" /\ identity[c] = "unknown"
    /\ \A k \in CallNo : call[k].caller # c

IInv == TypeInv /\ AbsentOK /\ AgentsInv
-----------------------------------------------------------------------------
(* Queues *)

LEMMA NoneNotHeld == None \notin Held
BY ConnectionsConstants DEF Held

LEMMA ToType ==
  ASSUME NEW S, NEW msg \in Held
  PROVE  To(S, msg) \in [Conn -> Seq(Held)]
BY DEF To

LEMMA BothType ==
  ASSUME NEW f \in [Conn -> Seq(Held)], NEW g \in [Conn -> Seq(Held)]
  PROVE  Both(f, g) \in [Conn -> Seq(Held)]
<1> DEFINE h(c) == f[c] \o g[c]
<1>1. \A c \in Conn : h(c) \in Seq(Held)
  <2> TAKE c \in Conn
  <2>1. f[c] \in Seq(Held) /\ g[c] \in Seq(Held)
    OBVIOUS
  <2> QED BY <2>1
<1> QED BY <1>1 DEF Both

LEMMA QueueType ==
  ASSUME QueuesOK, NEW msgs \in [Conn -> Seq(Held)], Queue(msgs)
  PROVE  QueuesOK'
<1>1. buf' \in [Conn -> Seq(Held)]
  <2>1. \A c \in Conn : buf[c] \o msgs[c] \in Seq(Held)
    <3> TAKE c \in Conn
    <3>1. buf[c] \in Seq(Held) /\ msgs[c] \in Seq(Held)
      BY DEF QueuesOK
    <3> QED BY <3>1
  <2> QED BY <2>1 DEF Queue
<1>2. /\ writer' \in [Conn -> {"none", "start", "writing", "closing"}]
      /\ \A c \in Conn : writer'[c] \in {"writing", "closing"} <=> writer[c] \in {"writing", "closing"}
  BY DEF Queue, QueuesOK
<1> QED BY <1>1, <1>2 DEF Queue, QueuesOK

LEMMA NextMessageType ==
  ASSUME QueuesOK, NEW c \in Conn, NEW rest \in Seq(Held), NextMessage(c, rest)
  PROVE  QueuesOK'
<1>1. CASE rest = <<>>
  <2>1. writer' = [writer EXCEPT ![c] = "none"] /\ out' = [out EXCEPT ![c] = None]
        /\ buf' = [buf EXCEPT ![c] = <<>>]
    BY <1>1 DEF NextMessage
  <2> QED BY <2>1 DEF QueuesOK
<1>2. CASE rest # <<>>
  <2>1. writer' = [writer EXCEPT ![c] = "writing"] /\ out' = [out EXCEPT ![c] = Head(rest)]
        /\ buf' = [buf EXCEPT ![c] = Tail(rest)]
    BY <1>2 DEF NextMessage
  <2>2. Head(rest) \in Held /\ Tail(rest) \in Seq(Held)
    BY <1>2
  <2> QED BY <2>1, <2>2, NoneNotHeld DEF QueuesOK
<1> QED BY <1>1, <1>2
-----------------------------------------------------------------------------
(* Messages and calls *)

LEMMA NoCallType == NoCall \in Call
BY DEF NoCall, Call, Futures

(* Steps that take no message and use no call *)
LEMMA CallsKept ==
  ASSUME CallsOK, inbox' = inbox, call' \in [CallNo -> Call],
         \A k \in CallNo : call[k] = NoCall => call'[k] = NoCall
  PROVE  CallsOK'
<1>1. Free => Free'
  BY DEF Free, NoCall
<1>2. \A c, i : IsCall(c, i)' <=> IsCall(c, i)
  BY DEF IsCall
<1> QED BY <1>1, <1>2 DEF CallsOK

LEMMA HandledType ==
  ASSUME CallsOK, NEW c \in Conn, NEW kind, Handles(c, kind)
  PROVE  /\ inbox' \in [Conn -> Seq(Message)]
         /\ Head(inbox[c]) \in Message /\ Head(inbox[c]).kind = kind
         /\ \A d \in Conn : \A i \in Nat : IsCall(d, i)' => IsCall(d, IF d = c THEN i + 1 ELSE i)
         /\ kind = "call" => IsCall(c, 1)
<1> DEFINE s == inbox[c]
<1>1. s \in Seq(Message) /\ s # <<>> /\ inbox' = [inbox EXCEPT ![c] = Tail(s)] /\ Head(s).kind = kind
  BY DEF CallsOK, Handles
<1>2. inbox \in [Conn -> Seq(Message)]
  BY DEF CallsOK
<1> HIDE DEF s
<1>3. Tail(s) \in Seq(Message) /\ Head(s) \in Message /\ Len(Tail(s)) = Len(s) - 1
      /\ Len(s) \in Nat \ {0} /\ Head(s) = s[1]
  BY <1>1
<1>4. \A i \in 1..Len(Tail(s)) : Tail(s)[i] = s[i + 1] /\ i + 1 \in 1..Len(s)
  BY <1>1, <1>3
<1>5. inbox' \in [Conn -> Seq(Message)]
  BY <1>1, <1>2, <1>3
<1>6. ASSUME NEW d \in Conn, NEW i \in Nat, IsCall(d, i)'
      PROVE  IsCall(d, IF d = c THEN i + 1 ELSE i)
  <2>1. CASE d = c
    <3>1. inbox'[c] = Tail(s)
      BY <1>1, <1>2
    <3>2. i \in 1..Len(Tail(s)) /\ Tail(s)[i].kind = "call"
      BY <1>6, <2>1, <3>1 DEF IsCall
    <3>3. i + 1 \in 1..Len(s) /\ s[i + 1].kind = "call"
      BY <3>2, <1>4
    <3> QED BY <3>3, <2>1 DEF IsCall, s
  <2>2. CASE d # c
    BY <1>1, <1>2, <1>6, <2>2 DEF IsCall
  <2> QED BY <2>1, <2>2
<1>7. kind = "call" => IsCall(c, 1)
  BY <1>1, <1>3 DEF IsCall, s
<1> QED BY <1>1, <1>3, <1>5, <1>6, <1>7 DEF s

(* A task that runs: what it leaves of CallsOK *)
LEMMA CallsHandled ==
  ASSUME CallsOK, NEW c \in Conn, NEW kind, Handles(c, kind), call' \in [CallNo -> Call],
         kind # "call" => \A k \in CallNo : call[k] = NoCall => call'[k] = NoCall
  PROVE  CallsOK'
<1>1. /\ inbox' \in [Conn -> Seq(Message)]
      /\ \A d \in Conn : \A i \in Nat : IsCall(d, i)' => IsCall(d, IF d = c THEN i + 1 ELSE i)
      /\ kind = "call" => IsCall(c, 1)
  BY HandledType
<1>2. ASSUME NEW d \in Conn, NEW e \in Conn, NEW i \in Nat, NEW j \in Nat, IsCall(d, i)', IsCall(e, j)'
      PROVE  d = e /\ i = j
  <2>1. IsCall(d, IF d = c THEN i + 1 ELSE i) /\ IsCall(e, IF e = c THEN j + 1 ELSE j)
    BY <1>1, <1>2
  <2>2. \A p, q \in Nat : IsCall(d, p) /\ IsCall(e, q) => d = e /\ p = q
    BY DEF CallsOK
  <2> QED BY <2>1, <2>2
<1>3. ASSUME NEW d \in Conn, NEW i \in Nat, IsCall(d, i)'
      PROVE  Free'
  <2>0. i >= 1
    BY <1>3 DEF IsCall
  <2>1. IsCall(d, IF d = c THEN i + 1 ELSE i)
    BY <1>1, <1>3
  <2>2. kind # "call"
    <3> SUFFICES ASSUME kind = "call" PROVE FALSE
      OBVIOUS
    <3>1. IsCall(c, 1)
      BY <1>1
    <3>2. \A p, q \in Nat : IsCall(d, p) /\ IsCall(c, q) => d = c /\ p = q
      BY DEF CallsOK
    <3> QED BY <2>0, <2>1, <3>1, <3>2
  <2>3. Free
    <3>1. \A p \in Nat : IsCall(d, p) => Free
      BY DEF CallsOK
    <3> QED BY <2>1, <3>1
  <2> QED BY <2>2, <2>3 DEF Free, NoCall
<1> QED BY <1>1, <1>2, <1>3 DEF CallsOK
-----------------------------------------------------------------------------
(* Types: the writing task, and the end of a connection *)

LEMMA WriterStartsType ==
  ASSUME TypeInv, NEW c \in Conn, WriterStarts(c)
  PROVE  TypeInv'
<1>1. PICK rest : rest \in Seq(Held) /\ NextMessage(c, rest)
  <2>1. buf[c] \in Seq(Held) /\ <<>> \in Seq(Held)
    BY DEF TypeInv, QueuesOK
  <2>2. NextMessage(c, IF IsClosed(c) THEN <<>> ELSE buf[c])
    BY DEF WriterStarts
  <2> QED BY <2>1, <2>2, Zenon
<1>2. QueuesOK'
  BY <1>1, NextMessageType DEF TypeInv
<1>3. UNCHANGED <<plan, server, socketVars, inbox, agentVars, call, bridgeVars>>
  BY DEF WriterStarts
<1>4. CallsOK'
  BY <1>3, CallsKept DEF TypeInv, CallsOK
<1> QED BY <1>2, <1>3, <1>4
     DEF TypeInv, socketVars, agentVars, bridgeVars, SocketTypes, AgentTypes, BridgeTypes

LEMMA WrittenType ==
  ASSUME TypeInv, NEW c \in Conn, Written(c)
  PROVE  TypeInv'
<1>1. buf[c] \in Seq(Held) /\ NextMessage(c, buf[c])
  BY DEF Written, TypeInv, QueuesOK
<1>2. QueuesOK'
  BY <1>1, NextMessageType DEF TypeInv
<1>3. UNCHANGED <<plan, server, socketVars, inbox, agentVars, bridgeVars>>
  BY DEF Written
<1>4. call' \in [CallNo -> Call] /\ \A k \in CallNo : call[k] = NoCall => call'[k] = NoCall
  <2>1. call \in [CallNo -> Call]
    BY DEF TypeInv, CallsOK
  <2>2. call' = call \/ \E k \in CallNo : Waits(k) /\ call' = [call EXCEPT ![k].future = "sent"]
    BY DEF Written
  <2> QED BY <2>1, <2>2 DEF Call, Futures, Waits, NoCall
<1>5. CallsOK'
  BY <1>3, <1>4, CallsKept DEF TypeInv
<1> QED BY <1>2, <1>3, <1>5
     DEF TypeInv, socketVars, agentVars, bridgeVars, SocketTypes, AgentTypes, BridgeTypes

LEMMA WriteFailsType ==
  ASSUME TypeInv, AbsentOK, NEW c \in Conn, WriteFails(c)
  PROVE  TypeInv'
<1>1. UNCHANGED <<plan, server, peer, asked, clients, inbox, agentVars, call, bridgeVars>>
  BY DEF WriteFails
<1>2. SocketTypes'
  <2>1. conn' = conn \/ (conn[c] = "open" /\ conn' \in {[conn EXCEPT ![c] = "broken"],
                                                        [conn EXCEPT ![c] = "closing"]})
    <3>1. conn \in [Conn -> {"none", "open", "broken", "closing", "gone"}]
      BY DEF TypeInv, SocketTypes
    <3>2. CASE conn' = [conn EXCEPT ![c] = IF @ = "open" THEN "broken" ELSE @]
      BY <3>1, <3>2
    <3>3. CASE UNCHANGED conn
      BY <3>3
    <3>4. CASE ~IsClosed(c) /\ writer[c] = "writing" /\ conn' = [conn EXCEPT ![c] = "closing"]
      <4>1. conn[c] # "none"
        BY <3>4 DEF AbsentOK
      <4> QED BY <3>1, <3>4, <4>1 DEF IsClosed
    <3> QED BY <3>2, <3>3, <3>4 DEF WriteFails
  <2> QED BY <1>1, <2>1 DEF TypeInv, SocketTypes
<1>3. QueuesOK'
  <2>1. CASE NextMessage(c, <<>>) \/ NextMessage(c, buf[c])
    <3>1. <<>> \in Seq(Held) /\ buf[c] \in Seq(Held) /\ QueuesOK
      BY DEF TypeInv, QueuesOK
    <3> QED BY <2>1, <3>1, NextMessageType
  <2>2. CASE writer' = [writer EXCEPT ![c] = "closing"] /\ UNCHANGED <<buf, out>>
    BY <2>2 DEF WriteFails, TypeInv, QueuesOK
  <2> QED BY <2>1, <2>2 DEF WriteFails
<1>4. CallsOK'
  BY <1>1, CallsKept DEF TypeInv, CallsOK
<1> QED BY <1>1, <1>2, <1>3, <1>4 DEF TypeInv, agentVars, bridgeVars, AgentTypes, BridgeTypes

LEMMA RemoveAgentType ==
  ASSUME AgentTypes, NEW c \in Conn, RemoveAgent(c), UNCHANGED <<identity, name, late>>
  PROVE  AgentTypes'
<1>1. CASE /\ agents' = [agents EXCEPT ![name[c]] = None]
           /\ remote' = [m \in Method |-> IF m \in methods[c] THEN None ELSE remote[m]]
           /\ methods' = [methods EXCEPT ![c] = {}]
  BY <1>1 DEF AgentTypes
<1>2. CASE UNCHANGED <<agents, remote, methods>>
  BY <1>2 DEF AgentTypes
<1> QED BY <1>1, <1>2 DEF RemoveAgent

LEMMA ClosedType ==
  ASSUME TypeInv, NEW c \in Conn, Closed(c)
  PROVE  TypeInv'
<1>1. UNCHANGED <<plan, server, peer, asked, inbox, identity, name, late, bridgeVars>>
  BY DEF Closed
<1>2. SocketTypes'
  BY <1>1 DEF Closed, Others, TypeInv, SocketTypes
<1>3. AgentTypes'
  BY <1>1, RemoveAgentType DEF Closed, TypeInv
<1>4. CallsOK'
  <2>1. call \in [CallNo -> Call]
    BY DEF TypeInv, CallsOK
  <2>2. call' = [k \in CallNo |-> IF k \in CallsTo(c) THEN [call[k] EXCEPT !.future = "failed"]
                                  ELSE call[k]]
    BY DEF Closed
  <2>3. \A k \in CallNo : call'[k] \in Call /\ (call[k] = NoCall => call'[k] = NoCall)
    BY <2>1, <2>2 DEF CallsTo, Waits, Call, Futures, NoCall
  <2>4. call' \in [CallNo -> Call]
    BY <2>2, <2>3
  <2> QED BY <1>1, <2>3, <2>4, CallsKept DEF TypeInv
<1>5. QueuesOK'
  <2>1. PICK told : /\ c \notin told
                    /\ buf' = [d \in Conn |-> IF d = c THEN <<>> ELSE buf[d] \o To(told, "event")[d]]
                    /\ writer' = [d \in Conn |-> CASE d = c /\ writer[c] = "closing" -> "none"
                                                 [] d \in told /\ writer[d] = "none" -> "start"
                                                 [] OTHER -> writer[d]]
                    /\ out' = IF writer[c] = "closing" THEN [out EXCEPT ![c] = None] ELSE out
    BY DEF Closed, Others
  <2>2. QueuesOK
    BY DEF TypeInv
  <2>3. To(told, "event") \in [Conn -> Seq(Held)]
    BY ToType DEF Held
  <2>4. \A d \in Conn : buf[d] \o To(told, "event")[d] \in Seq(Held)
    <3> TAKE d \in Conn
    <3>1. buf[d] \in Seq(Held) /\ To(told, "event")[d] \in Seq(Held)
      BY <2>2, <2>3 DEF QueuesOK
    <3> QED BY <3>1
  <2>5. buf' \in [Conn -> Seq(Held)]
    BY <2>1, <2>4
  <2>6. writer' \in [Conn -> {"none", "start", "writing", "closing"}] /\ out' \in [Conn -> Held \cup {None}]
    BY <2>1, <2>2 DEF QueuesOK
  <2>7. \A d \in Conn : out'[d] # None <=> writer'[d] \in {"writing", "closing"}
    <3> TAKE d \in Conn
    <3>1. CASE d = c /\ writer[c] = "closing"
      BY <2>1, <2>2, <3>1 DEF QueuesOK
    <3>2. CASE ~(d = c /\ writer[c] = "closing")
      <4>1. out'[d] = out[d]
        BY <2>1, <2>2, <3>2 DEF QueuesOK
      <4>2. writer'[d] \in {"writing", "closing"} <=> writer[d] \in {"writing", "closing"}
        BY <2>1, <2>2, <3>2 DEF QueuesOK
      <4> QED BY <2>2, <4>1, <4>2 DEF QueuesOK
    <3> QED BY <3>1, <3>2
  <2> QED BY <2>5, <2>6, <2>7 DEF QueuesOK
<1> QED BY <1>1, <1>2, <1>3, <1>4, <1>5 DEF TypeInv, bridgeVars, BridgeTypes
-----------------------------------------------------------------------------
(* Types: the tasks of messages, and calls that return *)

LEMMA HandledRest ==
  ASSUME TypeInv, NEW c \in Conn, NEW kind, Handles(c, kind),
         UNCHANGED <<plan, server, socketVars, bridgeVars>>,
         QueuesOK', AgentTypes', call' \in [CallNo -> Call],
         kind # "call" => \A k \in CallNo : call[k] = NoCall => call'[k] = NoCall
  PROVE  TypeInv'
<1>1. CallsOK'
  BY CallsHandled DEF TypeInv
<1> QED BY <1>1 DEF TypeInv, socketVars, bridgeVars, SocketTypes, BridgeTypes

LEMMA RefusedType ==
  ASSUME TypeInv, NEW c \in Conn, Refused(c)
  PROVE  QueuesOK' /\ AgentTypes'
<1>1. QueuesOK'
  BY ToType, QueueType DEF Refused, Held, TypeInv
<1> QED BY <1>1 DEF Refused, TypeInv, AgentTypes, agentVars

LEMMA AnsweredType ==
  ASSUME TypeInv, NEW S, NEW msg \in Held, Queue(To(S, msg))
  PROVE  QueuesOK'
BY ToType, QueueType DEF TypeInv

LEMMA ToldType ==
  ASSUME TypeInv, NEW S, NEW T, Queue(Both(To(S, "event"), To(T, "reply")))
  PROVE  QueuesOK'
<1>1. To(S, "event") \in [Conn -> Seq(Held)] /\ To(T, "reply") \in [Conn -> Seq(Held)]
  BY ToType DEF Held
<1>2. Both(To(S, "event"), To(T, "reply")) \in [Conn -> Seq(Held)]
  BY <1>1, BothType
<1> QED BY <1>2, QueueType DEF TypeInv

LEMMA IdentifyType ==
  ASSUME TypeInv, NEW c \in Conn, Identify(c)
  PROVE  TypeInv'
<1> DEFINE n == Head(inbox[c]).name
<1>1. Handles(c, "identify") /\ UNCHANGED <<plan, server, socketVars, call, bridgeVars>>
  BY DEF Identify
<1>2. n \in Name \cup {None}
  <2>1. Head(inbox[c]) \in Message /\ Head(inbox[c]).kind = "identify"
    BY <1>1, HandledType DEF TypeInv
  <2> QED BY <2>1 DEF Message
<1>3. QueuesOK' /\ AgentTypes'
  <2>0. "reply" \in Held /\ "error" \in Held
    BY DEF Held
  <2>1. CASE Refused(c)
    BY <2>1, RefusedType
  <2>2. CASE /\ identity' = [identity EXCEPT ![c] = "client"]
             /\ Queue(To({c}, "reply"))
             /\ UNCHANGED <<name, late, agents, methods, remote>>
    <3>1. QueuesOK'
      BY <2>0, <2>2, AnsweredType
    <3> QED BY <2>2, <3>1 DEF TypeInv, AgentTypes
  <2>3. CASE /\ n # None
             /\ name' = [name EXCEPT ![c] = n]
             /\ identity' = [identity EXCEPT ![c] = "refused"]
             /\ Queue(To({c}, "error"))
             /\ UNCHANGED <<late, agents, methods, remote>>
    <3>1. QueuesOK'
      BY <2>0, <2>3, AnsweredType
    <3> HIDE DEF n
    <3> QED BY <1>2, <2>3, <3>1 DEF TypeInv, AgentTypes
  <2>4. CASE /\ n # None
             /\ name' = [name EXCEPT ![c] = n]
             /\ identity' = [identity EXCEPT ![c] = "agent"]
             /\ agents' = [agents EXCEPT ![n] = c]
             /\ late' = IF conn[c] = "gone" THEN late \cup {c} ELSE late
             /\ Queue(Both(To(Others(c), "event"), To({c}, "reply")))
             /\ UNCHANGED <<methods, remote>>
    <3>1. QueuesOK'
      BY <2>4, ToldType
    <3> HIDE DEF n
    <3> QED BY <1>2, <2>4, <3>1 DEF TypeInv, AgentTypes
  <2> QED BY <2>1, <2>2, <2>3, <2>4 DEF Identify
<1>4. call' \in [CallNo -> Call] /\ \A k \in CallNo : call[k] = NoCall => call'[k] = NoCall
  BY <1>1 DEF TypeInv, CallsOK
<1> QED BY <1>1, <1>3, <1>4, HandledRest

LEMMA RegisterMethodType ==
  ASSUME TypeInv, NEW c \in Conn, RegisterMethod(c)
  PROVE  TypeInv'
<1> DEFINE m == Head(inbox[c]).method
<1>1. Handles(c, "register") /\ UNCHANGED <<plan, server, socketVars, call, bridgeVars>>
  BY DEF RegisterMethod
<1>2. m \in Method
  <2>1. Head(inbox[c]) \in Message /\ Head(inbox[c]).kind = "register"
    BY <1>1, HandledType DEF TypeInv
  <2> QED BY <2>1 DEF Message
<1>3. QueuesOK' /\ AgentTypes'
  <2>1. CASE Refused(c)
    BY <2>1, RefusedType
  <2>2. CASE /\ remote' = [remote EXCEPT ![m] = c]
             /\ methods' = [methods EXCEPT ![c] = @ \cup {m}]
             /\ late' = IF conn[c] = "gone" THEN late \cup {c} ELSE late
             /\ Queue(To({c}, "reply"))
             /\ UNCHANGED <<identity, name, agents>>
    <3>1. QueuesOK'
      BY <2>2, AnsweredType DEF Held
    <3> HIDE DEF m
    <3> QED BY <1>2, <2>2, <3>1 DEF TypeInv, AgentTypes
  <2> QED BY <2>1, <2>2 DEF RegisterMethod
<1>4. call' \in [CallNo -> Call] /\ \A k \in CallNo : call[k] = NoCall => call'[k] = NoCall
  BY <1>1 DEF TypeInv, CallsOK
<1> QED BY <1>1, <1>3, <1>4, HandledRest

LEMMA NewCallFree ==
  ASSUME CallsOK, NEW c \in Conn, Handles(c, "call")
  PROVE  NewCall \in CallNo /\ call[NewCall] = NoCall
<1>1. IsCall(c, 1)
  BY HandledType
<1>2. Free
  BY <1>1 DEF CallsOK
<1> QED BY <1>2 DEF Free, NewCall

LEMMA CallAgentType ==
  ASSUME TypeInv, NEW c \in Conn, CallAgent(c)
  PROVE  TypeInv'
<1> DEFINE n == Head(inbox[c]).name
<1>1. Handles(c, "call") /\ UNCHANGED <<plan, server, socketVars, agentVars, bridgeVars>>
  BY DEF CallAgent
<1>2. n \in Name
  <2>1. Head(inbox[c]) \in Message /\ Head(inbox[c]).kind = "call"
    BY <1>1, HandledType DEF TypeInv
  <2> QED BY <2>1 DEF Message
<1>3. QueuesOK' /\ call' \in [CallNo -> Call]
  <2>1. CASE Queue(To({c}, "error")) /\ UNCHANGED call
    BY <2>1, AnsweredType DEF Held, TypeInv, CallsOK
  <2>2. CASE /\ agents[n] # None
             /\ call' = [call EXCEPT ![NewCall] =
                           [future |-> "queued", agent |-> agents[n], caller |-> c]]
             /\ Queue(To({agents[n]}, NewCall))
    <3>1. NewCall \in CallNo /\ agents[n] \in Conn
      BY <1>1, <1>2, <2>2, NewCallFree DEF TypeInv, AgentTypes
    <3>2. QueuesOK'
      BY <2>2, <3>1, AnsweredType DEF Held
    <3>3. [future |-> "queued", agent |-> agents[n], caller |-> c] \in Call
      BY <3>1 DEF Call, Futures
    <3> QED BY <2>2, <3>2, <3>3 DEF TypeInv, CallsOK
  <2> QED BY <2>1, <2>2 DEF CallAgent
<1>4. AgentTypes'
  BY <1>1 DEF TypeInv, AgentTypes, agentVars
<1> QED BY <1>1, <1>3, <1>4, HandledRest

LEMMA AgentEventType ==
  ASSUME TypeInv, NEW c \in Conn, AgentEvent(c)
  PROVE  TypeInv'
<1>1. Handles(c, "event") /\ UNCHANGED <<plan, server, socketVars, agentVars, call, bridgeVars>>
  BY DEF AgentEvent
<1>2. QueuesOK'
  <2>1. CASE Queue(Both(To(Others(c), "event"), To({c}, "reply")))
    BY <2>1, ToldType
  <2>2. CASE Queue(To({c}, "error"))
    BY <2>2, AnsweredType DEF Held
  <2> QED BY <2>1, <2>2 DEF AgentEvent
<1>3. AgentTypes' /\ call' \in [CallNo -> Call] /\ \A k \in CallNo : call[k] = NoCall => call'[k] = NoCall
  BY <1>1 DEF TypeInv, AgentTypes, agentVars, CallsOK
<1> QED BY <1>1, <1>2, <1>3, HandledRest

LEMMA ResponseType ==
  ASSUME TypeInv, NEW c \in Conn, Response(c)
  PROVE  TypeInv'
<1>1. /\ Handles(c, "response")
      /\ UNCHANGED <<plan, server, socketVars, queueVars, agentVars, bridgeVars>>
  BY DEF Response
<1>2. call' \in [CallNo -> Call] /\ \A k \in CallNo : call[k] = NoCall => call'[k] = NoCall
  <2>1. call \in [CallNo -> Call]
    BY DEF TypeInv, CallsOK
  <2>2. call' = call \/ \E k \in CallNo : Waits(k) /\ call' = [call EXCEPT ![k].future = "answered"]
    BY DEF Response, CallsTo
  <2> QED BY <2>1, <2>2 DEF Call, Futures, Waits, NoCall
<1>3. QueuesOK' /\ AgentTypes'
  BY <1>1 DEF TypeInv, QueuesOK, AgentTypes, queueVars, agentVars
<1> QED BY <1>1, <1>2, <1>3, HandledRest

LEMMA CallReturnsType ==
  ASSUME TypeInv, NEW k \in CallNo, CallReturns(k)
  PROVE  TypeInv'
<1>1. UNCHANGED <<plan, server, socketVars, inbox, agentVars, bridgeVars>>
  BY DEF CallReturns
<1>2. QueuesOK'
  BY AnsweredType DEF CallReturns, Held
<1>3. call' \in [CallNo -> Call] /\ \A j \in CallNo : call[j] = NoCall => call'[j] = NoCall
  <2>1. call \in [CallNo -> Call] /\ call[k].future # "none"
        /\ call' = [call EXCEPT ![k].future = "done"]
    BY DEF CallReturns, TypeInv, CallsOK
  <2>2. call'[k] \in Call /\ call[k] # NoCall
    BY <2>1 DEF Call, Futures, NoCall
  <2> QED BY <2>1, <2>2
<1>4. CallsOK'
  BY <1>1, <1>3, CallsKept DEF TypeInv
<1> QED BY <1>1, <1>2, <1>4
     DEF TypeInv, socketVars, agentVars, bridgeVars, SocketTypes, AgentTypes, BridgeTypes

LEMMA ReceiveType ==
  ASSUME TypeInv, NEW c \in Conn, Receive(c)
  PROVE  TypeInv'
<1>1. PICK msg \in Messages(c) :
         /\ msg.kind # "response" => plan.messages > 0
         /\ plan' = IF msg.kind = "response" THEN plan ELSE [plan EXCEPT !.messages = @ - 1]
         /\ msg.kind = "call" => CallsArriving = {} /\ \E k \in CallNo : call[k] = NoCall
         /\ inbox' = [inbox EXCEPT ![c] = Append(@, msg)]
         /\ UNCHANGED <<server, socketVars, queueVars, agentVars, call, bridgeVars>>
  BY DEF Receive
<1>2. msg \in Message
  BY DEF Messages, Message, Responses
<1>3. plan' \in Plan
  BY <1>1 DEF TypeInv, Plan
<1>4. inbox \in [Conn -> Seq(Message)]
  BY DEF TypeInv, CallsOK
<1> DEFINE s == inbox[c]
<1>5. s \in Seq(Message) /\ inbox' = [inbox EXCEPT ![c] = Append(s, msg)]
  BY <1>1, <1>4
<1>6. inbox' \in [Conn -> Seq(Message)]
  <2> HIDE DEF s
  <2>1. Append(s, msg) \in Seq(Message)
    BY <1>2, <1>5
  <2> QED BY <1>4, <1>5, <2>1
<1>7. ASSUME NEW d \in Conn, NEW i \in Nat, IsCall(d, i)'
      PROVE  IsCall(d, i) \/ (d = c /\ i = Len(s) + 1 /\ msg.kind = "call")
  <2>1. CASE d # c
    BY <1>4, <1>5, <1>7, <2>1 DEF IsCall
  <2>2. CASE d = c
    <3>1. inbox'[c] = Append(s, msg)
      BY <1>4, <1>5
    <3>2. i \in 1..Len(Append(s, msg)) /\ Append(s, msg)[i].kind = "call"
      BY <1>7, <2>2, <3>1 DEF IsCall
    <3> HIDE DEF s
    <3>3. /\ Len(Append(s, msg)) = Len(s) + 1 /\ Len(s) \in Nat
          /\ Append(s, msg)[Len(s) + 1] = msg
          /\ \A p \in 1..Len(s) : Append(s, msg)[p] = s[p]
      BY <1>2, <1>5
    <3>4. (i = Len(s) + 1 /\ msg.kind = "call") \/ (i \in 1..Len(s) /\ s[i].kind = "call")
      BY <3>2, <3>3
    <3> QED BY <2>2, <3>4 DEF IsCall, s
  <2> QED BY <2>1, <2>2
<1>8. msg.kind = "call" => Free /\ \A d \in Conn : \A i \in Nat : ~IsCall(d, i)
  BY <1>1 DEF CallsArriving, IsCall, Free
<1>9. Free' <=> Free
  BY <1>1 DEF Free, NoCall
<1>10. /\ \A d, e \in Conn : \A i, j \in Nat : IsCall(d, i) /\ IsCall(e, j) => d = e /\ i = j
       /\ \A d \in Conn : \A i \in Nat : IsCall(d, i) => Free
  BY DEF TypeInv, CallsOK
<1>11. \A d, e \in Conn : \A i, j \in Nat : IsCall(d, i)' /\ IsCall(e, j)' => d = e /\ i = j
  BY <1>7, <1>8, <1>10
<1>12. \A d \in Conn : \A i \in Nat : IsCall(d, i)' => Free'
  BY <1>7, <1>8, <1>9, <1>10
<1>13. CallsOK'
  BY <1>1, <1>6, <1>11, <1>12 DEF CallsOK, TypeInv
<1> QED BY <1>1, <1>3, <1>13 DEF TypeInv, socketVars, queueVars, agentVars, bridgeVars,
                                SocketTypes, QueuesOK, AgentTypes, BridgeTypes
-----------------------------------------------------------------------------
(* Types: every step *)

LEMMA TypeInit == Init => TypeInv
<1> SUFFICES ASSUME Init PROVE TypeInv
  OBVIOUS
<1>1. plan \in Plan
  BY ConnectionsConstants DEF Init, Plan
<1>2. SocketTypes /\ AgentTypes /\ BridgeTypes
  BY DEF Init, SocketTypes, AgentTypes, BridgeTypes
<1>3. QueuesOK
  BY NoneNotHeld DEF Init, QueuesOK
<1>4. CallsOK
  <2>1. \A c \in Conn : \A i \in Nat : ~IsCall(c, i)
    BY DEF Init, IsCall
  <2> QED BY <2>1, NoCallType DEF Init, CallsOK
<1> QED BY <1>1, <1>2, <1>3, <1>4 DEF Init, TypeInv

LEMMA SocketStepType ==
  ASSUME TypeInv, NEW c \in Conn,
         Connect(c) \/ PeerLeaves(c) \/ UnixCloseBegins(c)
  PROVE  TypeInv'
<1>1. UNCHANGED <<plan, server, asked, inbox, queueVars, agentVars, call, bridgeVars>>
  BY DEF Connect, PeerLeaves, UnixCloseBegins
<1>2. SocketTypes'
  <2>1. CASE Connect(c)
    BY <2>1 DEF Connect, TypeInv, SocketTypes
  <2>2. CASE PeerLeaves(c)
    BY <2>2 DEF PeerLeaves, TypeInv, SocketTypes
  <2>3. CASE UnixCloseBegins(c)
    BY <2>3 DEF UnixCloseBegins, TypeInv, SocketTypes
  <2> QED BY <2>1, <2>2, <2>3
<1>3. CallsOK'
  BY <1>1, CallsKept DEF TypeInv, CallsOK
<1> QED BY <1>1, <1>2, <1>3 DEF TypeInv, queueVars, agentVars, bridgeVars, QueuesOK, AgentTypes, BridgeTypes

LEMMA KlippyCallsType ==
  ASSUME TypeInv, NEW m \in Method, KlippyCalls(m)
  PROVE  TypeInv'
<1>1. UNCHANGED <<server, socketVars, inbox, agentVars, call, bridgeVars>>
  BY DEF KlippyCalls
<1>2. plan' \in Plan
  BY DEF KlippyCalls, TypeInv, Plan
<1>3. QueuesOK'
  BY AnsweredType DEF KlippyCalls, Held
<1>4. CallsOK'
  BY <1>1, CallsKept DEF TypeInv, CallsOK
<1> QED BY <1>1, <1>2, <1>3, <1>4
     DEF TypeInv, socketVars, agentVars, bridgeVars, SocketTypes, AgentTypes, BridgeTypes

LEMMA BridgeStepType ==
  ASSUME TypeInv, NEW b \in Bridge,
         BridgeOpens(b) \/ BridgeMessage(b) \/ KlippyDrops(b) \/ BridgeClosed(b) \/ BridgeTask(b)
  PROVE  TypeInv'
<1>1. UNCHANGED <<server, connectionVars>>
  BY DEF BridgeOpens, BridgeMessage, KlippyDrops, BridgeClosed, BridgeTask, BridgeWriterStarts,
         BridgeWritten, BridgeWriteFails, KlippyStreamEnds
<1>2. plan' \in Plan
  <2>1. plan' = plan \/ (plan.messages > 0 /\ plan' = [plan EXCEPT !.messages = @ - 1])
    BY DEF BridgeOpens, BridgeMessage, KlippyDrops, BridgeClosed, BridgeTask, BridgeWriterStarts,
           BridgeWritten, BridgeWriteFails, KlippyStreamEnds
  <2> QED BY <2>1 DEF TypeInv, Plan
<1>3. BridgeTypes'
  <2> USE DEF TypeInv, BridgeTypes
  <2>1. CASE BridgeOpens(b)
    BY <2>1 DEF BridgeOpens
  <2>2. CASE BridgeMessage(b)
    BY <2>2 DEF BridgeMessage
  <2>3. CASE KlippyDrops(b)
    BY <2>3 DEF KlippyDrops
  <2>4. CASE BridgeClosed(b)
    BY <2>4 DEF BridgeClosed
  <2>5. CASE BridgeWriterStarts(b)
    BY <2>5 DEF BridgeWriterStarts, NextToKlippy
  <2>6. CASE BridgeWritten(b)
    BY <2>6 DEF BridgeWritten, NextToKlippy
  <2>7. CASE BridgeWriteFails(b)
    BY <2>7 DEF BridgeWriteFails
  <2>8. CASE KlippyStreamEnds(b)
    BY <2>8 DEF KlippyStreamEnds
  <2> QED BY <2>1, <2>2, <2>3, <2>4, <2>5, <2>6, <2>7, <2>8 DEF BridgeTask
<1>4. inbox' = inbox /\ call' = call /\ UNCHANGED <<socketVars, queueVars, agentVars>>
  BY <1>1 DEF connectionVars
<1>5. CallsOK'
  BY <1>4, CallsKept DEF TypeInv, CallsOK
<1> QED BY <1>1, <1>2, <1>3, <1>4, <1>5
     DEF TypeInv, socketVars, queueVars, agentVars, SocketTypes, QueuesOK, AgentTypes

LEMMA ServerStepType ==
  ASSUME TypeInv, Stop \/ ServerTask
  PROVE  TypeInv'
<1>1. UNCHANGED <<plan, conn, peer, clients, inbox, queueVars, agentVars, call, toKlippy, link,
                  bridgeBusy>>
  BY DEF Stop, ServerTask, CloseBegins, CloseEnds, KlippyClosed, ExtensionsClosed, connectionVars,
         socketVars, bridgeVars
<1>2. /\ server' \in {"exit", "waiting", "klippy", "extensions", "stopped"}
      /\ asked' = asked \/ asked' = clients
      /\ \/ bridge' = bridge
         \/ bridge' = [b \in Bridge |-> IF bridge[b] = "open" THEN "closing" ELSE bridge[b]]
  BY DEF Stop, ServerTask, CloseBegins, CloseEnds, KlippyClosed, ExtensionsClosed, connectionVars,
         socketVars, bridgeVars
<1>3. SocketTypes' /\ BridgeTypes'
  BY <1>1, <1>2 DEF TypeInv, SocketTypes, BridgeTypes
<1>4. CallsOK'
  BY <1>1, CallsKept DEF TypeInv, CallsOK
<1> QED BY <1>1, <1>2, <1>3, <1>4 DEF TypeInv, queueVars, agentVars, QueuesOK, AgentTypes

LEMMA TypeStep ==
  ASSUME TypeInv, AbsentOK, [Next]_vars
  PROVE  TypeInv'
<1>1. ASSUME NEW c \in Conn, MessageTask(c)
      PROVE  TypeInv'
  BY <1>1, IdentifyType, RegisterMethodType, CallAgentType, AgentEventType, ResponseType DEF MessageTask
<1>2. ASSUME NEW c \in Conn, WebClosed(c) \/ UnixClosedAtOnce(c) \/ UnixClosed(c)
      PROVE  TypeInv'
  BY <1>2, ClosedType DEF WebClosed, UnixClosedAtOnce, UnixClosed
<1>3. ASSUME NEW c \in Conn, Connect(c) \/ PeerLeaves(c) \/ Receive(c) \/ ConnectionTask(c)
      PROVE  TypeInv'
  BY <1>1, <1>2, <1>3, SocketStepType, ReceiveType, WriterStartsType, WrittenType, WriteFailsType
     DEF ConnectionTask
<1>4. CASE UNCHANGED vars
  <2>1. UNCHANGED <<plan, server, socketVars, inbox, queueVars, agentVars, call, bridgeVars>>
    BY <1>4 DEF vars
  <2>2. CallsOK'
    BY <2>1, CallsKept DEF TypeInv, CallsOK
  <2> QED BY <2>1, <2>2 DEF TypeInv, socketVars, queueVars, agentVars, bridgeVars,
                            SocketTypes, QueuesOK, AgentTypes, BridgeTypes
<1> QED BY <1>3, <1>4, CallReturnsType, KlippyCallsType, BridgeStepType, ServerStepType DEF Next
-----------------------------------------------------------------------------
(* Connections that are not there *)

LEMMA AbsentKept ==
  ASSUME AbsentOK,
         \A d \in Conn : conn'[d] = "none" =>
           /\ conn[d] = "none" /\ inbox'[d] = inbox[d]
           /\ writer'[d] = writer[d] /\ identity'[d] = identity[d]
           /\ \A k \in CallNo : call'[k].caller = d => call[k].caller = d
  PROVE  AbsentOK'
BY DEF AbsentOK

(* What is queued leaves the writers of the others alone. *)
LEMMA QueueOthers ==
  ASSUME QueuesOK, NEW msgs, Queue(msgs), NEW d \in Conn, msgs[d] = <<>>
  PROVE  writer'[d] = writer[d]
BY DEF Queue, QueuesOK

LEMMA ToOthers ==
  ASSUME NEW S, NEW T, NEW msg, NEW other, NEW d \in Conn, d \notin S, d \notin T
  PROVE  To(S, msg)[d] = <<>> /\ Both(To(S, msg), To(T, other))[d] = <<>>
<1>1. To(S, msg)[d] = <<>> /\ To(T, other)[d] = <<>>
  BY DEF To
<1>2. Both(To(S, msg), To(T, other))[d] = To(S, msg)[d] \o To(T, other)[d]
  BY DEF Both
<1> QED BY <1>1, <1>2

LEMMA TaskPresent ==
  ASSUME IInv, NEW c \in Conn, NEW kind, Handles(c, kind)
  PROVE  conn[c] # "none"
BY DEF IInv, AbsentOK, Handles

LEMMA AbsentHandled ==
  ASSUME IInv, NEW c \in Conn, NEW kind, Handles(c, kind), UNCHANGED socketVars,
         \A d \in Conn : d # c /\ conn[d] = "none" =>
           /\ writer'[d] = writer[d] /\ identity'[d] = identity[d]
           /\ \A k \in CallNo : call'[k].caller = d => call[k].caller = d
  PROVE  AbsentOK'
<1>1. conn[c] # "none" /\ conn' = conn
  BY TaskPresent DEF socketVars
<1>2. \A d \in Conn : d # c => inbox'[d] = inbox[d]
  BY DEF Handles, IInv, TypeInv, CallsOK
<1> QED BY <1>1, <1>2, AbsentKept DEF IInv

LEMMA ClientsPresent ==
  ASSUME IInv, NEW c, NEW d \in Others(c)
  PROVE  d \in Conn /\ conn[d] # "none"
BY DEF IInv, TypeInv, SocketTypes, Others

LEMMA RefusedAbsent ==
  ASSUME IInv, NEW c \in Conn, Refused(c), NEW d \in Conn, d # c
  PROVE  writer'[d] = writer[d] /\ identity'[d] = identity[d]
<1>1. To({c}, "error")[d] = <<>>
  BY DEF To
<1> QED BY <1>1, QueueOthers DEF Refused, IInv, TypeInv, agentVars

LEMMA IdentifyAbsent ==
  ASSUME IInv, NEW c \in Conn, Identify(c)
  PROVE  AbsentOK'
<1>1. Handles(c, "identify") /\ UNCHANGED socketVars /\ call' = call
  BY DEF Identify
<1>2. ASSUME NEW d \in Conn, d # c, conn[d] = "none"
      PROVE  writer'[d] = writer[d] /\ identity'[d] = identity[d]
  <2>0. QueuesOK /\ identity \in [Conn -> {"unknown", "client", "agent", "refused"}]
    BY DEF IInv, TypeInv, AgentTypes
  <2>1. CASE Refused(c)
    BY <1>2, <2>1, RefusedAbsent
  <2>2. CASE \E v : identity' = [identity EXCEPT ![c] = v]
    <3>1. identity'[d] = identity[d]
      BY <1>2, <2>0, <2>2
    <3>2. d \notin Others(c) /\ d \notin {c}
      BY <1>2, ClientsPresent
    <3>3. PICK msgs : Queue(msgs) /\ msgs \in {To({c}, "reply"), To({c}, "error"),
                                               Both(To(Others(c), "event"), To({c}, "reply"))}
      BY DEF Identify, Refused
    <3>4. /\ To({c}, "reply")[d] = <<>> /\ To({c}, "error")[d] = <<>>
          /\ Both(To(Others(c), "event"), To({c}, "reply"))[d] = <<>>
      BY <3>2, ToOthers
    <3>5. msgs[d] = <<>>
      BY <3>3, <3>4
    <3> QED BY <2>0, <3>1, <3>3, <3>5, QueueOthers
  <2> QED BY <2>1, <2>2 DEF Identify
<1> QED BY <1>1, <1>2, AbsentHandled

LEMMA RegisterMethodAbsent ==
  ASSUME IInv, NEW c \in Conn, RegisterMethod(c)
  PROVE  AbsentOK'
<1>1. Handles(c, "register") /\ UNCHANGED socketVars /\ call' = call
  BY DEF RegisterMethod
<1>2. ASSUME NEW d \in Conn, d # c, conn[d] = "none"
      PROVE  writer'[d] = writer[d] /\ identity'[d] = identity[d]
  <2>1. CASE Refused(c)
    BY <1>2, <2>1, RefusedAbsent
  <2>2. CASE Queue(To({c}, "reply")) /\ UNCHANGED identity
    <3>1. To({c}, "reply")[d] = <<>>
      BY <1>2 DEF To
    <3> QED BY <2>2, <3>1, QueueOthers DEF IInv, TypeInv
  <2> QED BY <2>1, <2>2 DEF RegisterMethod
<1> QED BY <1>1, <1>2, AbsentHandled

LEMMA CallAgentAbsent ==
  ASSUME IInv, NEW c \in Conn, CallAgent(c)
  PROVE  AbsentOK'
<1> DEFINE n == Head(inbox[c]).name
<1>1. Handles(c, "call") /\ UNCHANGED socketVars /\ UNCHANGED identity
  BY DEF CallAgent, agentVars
<1>2. n \in Name
  <2>1. Head(inbox[c]) \in Message /\ Head(inbox[c]).kind = "call"
    BY <1>1, HandledType DEF IInv, TypeInv
  <2> QED BY <2>1 DEF Message
<1>3. ASSUME NEW d \in Conn, d # c, conn[d] = "none"
      PROVE  /\ writer'[d] = writer[d]
             /\ \A k \in CallNo : call'[k].caller = d => call[k].caller = d
  <2>1. CASE Queue(To({c}, "error")) /\ UNCHANGED call
    <3>1. To({c}, "error")[d] = <<>>
      BY <1>3 DEF To
    <3> QED BY <2>1, <3>1, QueueOthers DEF IInv, TypeInv
  <2>2. CASE /\ agents[n] # None
             /\ call' = [call EXCEPT ![NewCall] =
                           [future |-> "queued", agent |-> agents[n], caller |-> c]]
             /\ Queue(To({agents[n]}, NewCall))
    <3>1. identity[agents[n]] = "agent"
      BY <1>2, <2>2 DEF IInv, AgentsInv
    <3>2. agents[n] # d
      BY <1>3, <3>1 DEF IInv, AbsentOK
    <3>3. To({agents[n]}, NewCall)[d] = <<>>
      BY <3>2 DEF To
    <3>4. writer'[d] = writer[d]
      BY <2>2, <3>3, QueueOthers DEF IInv, TypeInv
    <3>5. call \in [CallNo -> Call]
      BY DEF IInv, TypeInv, CallsOK
    <3> QED BY <1>3, <2>2, <3>4, <3>5
  <2> QED BY <2>1, <2>2 DEF CallAgent
<1> QED BY <1>1, <1>3, AbsentHandled

LEMMA AgentEventAbsent ==
  ASSUME IInv, NEW c \in Conn, AgentEvent(c)
  PROVE  AbsentOK'
<1>1. Handles(c, "event") /\ UNCHANGED socketVars /\ UNCHANGED <<identity, call>>
  BY DEF AgentEvent, agentVars
<1>2. ASSUME NEW d \in Conn, d # c, conn[d] = "none"
      PROVE  writer'[d] = writer[d]
  <2>1. d \notin Others(c) /\ d \notin {c}
    BY <1>2, ClientsPresent
  <2>2. To({c}, "error")[d] = <<>> /\ Both(To(Others(c), "event"), To({c}, "reply"))[d] = <<>>
    BY <2>1, ToOthers
  <2> QED BY <2>2, QueueOthers DEF AgentEvent, IInv, TypeInv
<1> QED BY <1>1, <1>2, AbsentHandled

LEMMA ResponseAbsent ==
  ASSUME IInv, NEW c \in Conn, Response(c)
  PROVE  AbsentOK'
<1>1. Handles(c, "response") /\ UNCHANGED socketVars /\ UNCHANGED <<identity, writer>>
  BY DEF Response, agentVars, queueVars
<1>2. \A k \in CallNo : call'[k].caller = call[k].caller
  BY DEF Response, IInv, TypeInv, CallsOK, Call
<1> QED BY <1>1, <1>2, AbsentHandled

LEMMA WriterAbsent ==
  ASSUME IInv, NEW c \in Conn, WriterStarts(c) \/ Written(c) \/ WriteFails(c)
  PROVE  AbsentOK'
<1>1. conn[c] # "none"
  BY DEF IInv, AbsentOK, WriterStarts, Written, WriteFails
<1>2. UNCHANGED <<inbox, identity>>
  BY DEF WriterStarts, Written, WriteFails, agentVars
<1>3. \A k \in CallNo : call'[k].caller = call[k].caller
  BY DEF WriterStarts, Written, WriteFails, IInv, TypeInv, CallsOK, Call
<1>4. \A d \in Conn : d # c => writer'[d] = writer[d]
  BY DEF WriterStarts, Written, WriteFails, NextMessage, queueVars, IInv, TypeInv, QueuesOK
<1>5. \A d \in Conn : conn'[d] = "none" => conn[d] = "none"
  BY DEF WriterStarts, Written, WriteFails, socketVars, IInv, TypeInv, SocketTypes
<1>6. conn'[c] # "none"
  BY <1>1 DEF WriterStarts, Written, WriteFails, socketVars, IInv, TypeInv, SocketTypes
<1> QED BY <1>2, <1>3, <1>4, <1>5, <1>6, AbsentKept DEF IInv

LEMMA ClosedAbsent ==
  ASSUME IInv, NEW c \in Conn, Closed(c)
  PROVE  AbsentOK'
<1>1. UNCHANGED <<inbox, identity>> /\ conn' = [conn EXCEPT ![c] = "gone"]
  BY DEF Closed
<1>2. \A k \in CallNo : call'[k].caller = call[k].caller
  BY DEF Closed, IInv, TypeInv, CallsOK, Call
<1>3. ASSUME NEW d \in Conn, conn'[d] = "none"
      PROVE  conn[d] = "none" /\ writer'[d] = writer[d]
  <2>1. d # c /\ conn[d] = "none"
    BY <1>1, <1>3 DEF IInv, TypeInv, SocketTypes
  <2>2. d \notin Others(c)
    BY <2>1, ClientsPresent
  <2> QED BY <2>1, <2>2 DEF Closed, IInv, TypeInv, QueuesOK
<1> QED BY <1>1, <1>2, <1>3, AbsentKept DEF IInv

LEMMA CallReturnsAbsent ==
  ASSUME IInv, NEW k \in CallNo, CallReturns(k)
  PROVE  AbsentOK'
<1>1. UNCHANGED <<inbox, identity, conn>>
  BY DEF CallReturns, agentVars, socketVars
<1>2. \A j \in CallNo : call'[j].caller = call[j].caller
  BY DEF CallReturns, IInv, TypeInv, CallsOK, Call
<1>3. ASSUME NEW d \in Conn, conn[d] = "none"
      PROVE  writer'[d] = writer[d]
  <2>1. call[k].caller # d
    BY <1>3 DEF IInv, AbsentOK
  <2>2. To({call[k].caller}, "reply")[d] = <<>>
    BY <2>1 DEF To
  <2> QED BY <2>2, QueueOthers DEF CallReturns, IInv, TypeInv
<1> QED BY <1>1, <1>2, <1>3, AbsentKept DEF IInv

LEMMA KlippyCallsAbsent ==
  ASSUME IInv, NEW m \in Method, KlippyCalls(m)
  PROVE  AbsentOK'
<1>1. UNCHANGED <<inbox, identity, conn, call>>
  BY DEF KlippyCalls, agentVars, socketVars
<1>2. ASSUME NEW d \in Conn, conn[d] = "none"
      PROVE  writer'[d] = writer[d]
  <2>1. remote[m] # d
    BY <1>2 DEF KlippyCalls, IInv, AbsentOK, AgentsInv
  <2>2. To({remote[m]}, "method")[d] = <<>>
    BY <2>1 DEF To
  <2> QED BY <2>2, QueueOthers DEF KlippyCalls, IInv, TypeInv
<1> QED BY <1>1, <1>2, AbsentKept DEF IInv

LEMMA AbsentStep ==
  ASSUME IInv, [Next]_vars
  PROVE  AbsentOK'
<1>1. ASSUME NEW c \in Conn, MessageTask(c)
      PROVE  AbsentOK'
  BY <1>1, IdentifyAbsent, RegisterMethodAbsent, CallAgentAbsent, AgentEventAbsent, ResponseAbsent
     DEF MessageTask
<1>2. ASSUME NEW c \in Conn, WebClosed(c) \/ UnixClosedAtOnce(c) \/ UnixClosed(c)
      PROVE  AbsentOK'
  BY <1>2, ClosedAbsent DEF WebClosed, UnixClosedAtOnce, UnixClosed
<1>3. ASSUME NEW c \in Conn, Connect(c) \/ PeerLeaves(c) \/ UnixCloseBegins(c)
      PROVE  AbsentOK'
  <2>1. UNCHANGED <<inbox, writer, identity, call>>
    BY <1>3 DEF Connect, PeerLeaves, UnixCloseBegins, queueVars, agentVars
  <2>2. \A d \in Conn : conn'[d] = "none" => conn[d] = "none"
    BY <1>3 DEF Connect, PeerLeaves, UnixCloseBegins, IInv, TypeInv, SocketTypes
  <2> QED BY <2>1, <2>2, AbsentKept DEF IInv
<1>4. ASSUME NEW c \in Conn, Receive(c)
      PROVE  AbsentOK'
  <2>1. UNCHANGED <<conn, writer, identity, call>> /\ conn[c] = "open"
    BY <1>4 DEF Receive, queueVars, agentVars, socketVars
  <2>2. \A d \in Conn : d # c => inbox'[d] = inbox[d]
    BY <1>4 DEF Receive, IInv, TypeInv, CallsOK
  <2> QED BY <2>1, <2>2, AbsentKept DEF IInv
<1>5. ASSUME UNCHANGED <<conn, inbox, writer, identity, call>>
      PROVE  AbsentOK'
  BY <1>5, AbsentKept DEF IInv
<1>6. ASSUME NEW b \in Bridge,
             BridgeOpens(b) \/ BridgeMessage(b) \/ KlippyDrops(b) \/ BridgeClosed(b) \/ BridgeTask(b)
      PROVE  AbsentOK'
  BY <1>5, <1>6
     DEF BridgeOpens, BridgeMessage, KlippyDrops, BridgeClosed, BridgeTask, BridgeWriterStarts,
         BridgeWritten, BridgeWriteFails, KlippyStreamEnds, connectionVars, socketVars, queueVars,
         agentVars
<1>7. ASSUME Stop \/ ServerTask
      PROVE  AbsentOK'
  BY <1>5, <1>7
     DEF Stop, ServerTask, CloseBegins, CloseEnds, KlippyClosed, ExtensionsClosed, connectionVars,
         socketVars, queueVars, agentVars
<1>8. CASE UNCHANGED vars
  BY <1>5, <1>8 DEF vars, socketVars, queueVars, agentVars
<1>9. ASSUME NEW c \in Conn, Connect(c) \/ PeerLeaves(c) \/ Receive(c) \/ ConnectionTask(c)
      PROVE  AbsentOK'
  BY <1>1, <1>2, <1>3, <1>4, <1>9, WriterAbsent DEF ConnectionTask
<1> QED BY <1>6, <1>7, <1>8, <1>9, CallReturnsAbsent, KlippyCallsAbsent DEF Next
-----------------------------------------------------------------------------
(* Agents *)

LEMMA AgentsSame ==
  ASSUME AgentTypes, AgentsInv, UNCHANGED agentVars,
         \A c \in Conn : conn'[c] = "gone" <=> conn[c] = "gone"
  PROVE  AgentsInv'
<1>1. UNCHANGED <<identity, name, late, agents, methods, remote>>
  BY DEF agentVars
<1>2. \A n \in Name : agents[n] # None => agents[n] \in Conn
  BY DEF AgentTypes
<1> QED BY <1>1, <1>2 DEF AgentsInv

(* A connection that gets a name or a type had none, so that nobody is *)
(* registered under it.                                                 *)
LEMMA IdentifyAgents ==
  ASSUME IInv, NEW c \in Conn, Identify(c)
  PROVE  AgentsInv'
<1> DEFINE n == Head(inbox[c]).name
<1>1. Handles(c, "identify") /\ conn' = conn
  BY DEF Identify, socketVars
<1>2. n \in Name \cup {None}
  <2>1. Head(inbox[c]) \in Message /\ Head(inbox[c]).kind = "identify"
    BY <1>1, HandledType DEF IInv, TypeInv
  <2> QED BY <2>1 DEF Message
<1>3. AgentTypes /\ AgentsInv
  BY DEF IInv, TypeInv
<1>4. None \notin Conn /\ None \notin Name
  BY ConnectionsConstants
<1>5. CASE Refused(c)
  BY <1>1, <1>3, <1>5, AgentsSame DEF Refused
<1>6. CASE /\ identity[c] = "unknown"
           /\ identity' = [identity EXCEPT ![c] = "client"]
           /\ UNCHANGED <<name, late, agents, methods, remote>>
  <2>1. \A d \in Conn : d # c => identity'[d] = identity[d]
    BY <1>3, <1>6 DEF AgentTypes
  <2>2. \A p \in Name : agents[p] # None => agents[p] # c /\ agents[p] \in Conn
    BY <1>3, <1>6 DEF AgentTypes, AgentsInv
  <2>3. \A m \in Method : remote[m] # None => remote[m] # c /\ remote[m] \in Conn
    BY <1>3, <1>6 DEF AgentTypes, AgentsInv
  <2>4. identity'[c] = "client"
    BY <1>3, <1>6 DEF AgentTypes
  <2> QED BY <1>1, <1>3, <1>6, <2>1, <2>2, <2>3, <2>4 DEF AgentsInv
<1>7. CASE /\ identity[c] = "unknown" /\ n # None
           /\ name' = [name EXCEPT ![c] = n]
           /\ identity' = [identity EXCEPT ![c] = "refused"]
           /\ UNCHANGED <<late, agents, methods, remote>>
  <2> HIDE DEF n
  <2>1. \A d \in Conn : d # c => identity'[d] = identity[d] /\ name'[d] = name[d]
    BY <1>3, <1>7 DEF AgentTypes
  <2>2. \A p \in Name : agents[p] # None => agents[p] # c /\ agents[p] \in Conn
    BY <1>3, <1>7 DEF AgentTypes, AgentsInv
  <2>3. \A m \in Method : remote[m] # None => remote[m] # c /\ remote[m] \in Conn
    BY <1>3, <1>7 DEF AgentTypes, AgentsInv
  <2>4. identity'[c] = "refused"
    BY <1>3, <1>7 DEF AgentTypes
  <2> QED BY <1>1, <1>3, <1>7, <2>1, <2>2, <2>3, <2>4 DEF AgentsInv
<1>8. CASE /\ identity[c] = "unknown" /\ n # None /\ agents[n] = None
           /\ name' = [name EXCEPT ![c] = n]
           /\ identity' = [identity EXCEPT ![c] = "agent"]
           /\ agents' = [agents EXCEPT ![n] = c]
           /\ late' = IF conn[c] = "gone" THEN late \cup {c} ELSE late
           /\ UNCHANGED <<methods, remote>>
  <2> HIDE DEF n
  <2>0. n \in Name
    BY <1>2, <1>8
  <2>1. \A d \in Conn : d # c => identity'[d] = identity[d] /\ name'[d] = name[d]
    BY <1>3, <1>8 DEF AgentTypes
  <2>2. /\ \A p \in Name : p # n => agents'[p] = agents[p]
        /\ agents'[n] = c /\ name'[c] = n /\ identity'[c] = "agent"
    BY <1>3, <1>8, <2>0 DEF AgentTypes
  <2>3. \A p \in Name : agents[p] # None => agents[p] # c /\ agents[p] \in Conn
    BY <1>3, <1>8 DEF AgentTypes, AgentsInv
  <2>4. \A m \in Method : remote[m] # None => remote[m] # c /\ remote[m] \in Conn
    BY <1>3, <1>8 DEF AgentTypes, AgentsInv
  <2>5. late \subseteq late' /\ (conn[c] = "gone" => c \in late')
    BY <1>8
  <2>6. ASSUME NEW d \in Conn, identity'[d] = "agent"
        PROVE  name'[d] \in Name /\ (conn'[d] # "gone" => agents'[name'[d]] = d)
    <3>1. CASE d = c
      BY <2>0, <2>2, <3>1
    <3>2. CASE d # c
      <4>1. /\ identity[d] = "agent" /\ name'[d] = name[d] /\ name[d] \in Name
            /\ conn[d] # "gone" => agents[name[d]] = d
        BY <1>3, <2>1, <2>6, <3>2 DEF AgentsInv
      <4>2. conn[d] # "gone" => name[d] # n
        BY <1>4, <1>8, <4>1
      <4> QED BY <1>1, <2>2, <4>1, <4>2
    <3> QED BY <3>1, <3>2
  <2>7. ASSUME NEW p \in Name, agents'[p] # None
        PROVE  /\ identity'[agents'[p]] = "agent" /\ name'[agents'[p]] = p
               /\ conn'[agents'[p]] = "gone" => agents'[p] \in late'
    <3>1. CASE p = n
      BY <1>1, <2>2, <2>5, <3>1
    <3>2. CASE p # n
      <4>1. agents'[p] = agents[p] /\ agents[p] # c /\ agents[p] \in Conn
        BY <2>2, <2>3, <2>7, <3>2
      <4>2. /\ identity[agents[p]] = "agent" /\ name[agents[p]] = p
            /\ conn[agents[p]] = "gone" => agents[p] \in late
        BY <1>3, <2>7, <4>1 DEF AgentsInv
      <4> QED BY <1>1, <2>1, <2>5, <4>1, <4>2
    <3> QED BY <3>1, <3>2
  <2>8. ASSUME NEW m \in Method, remote'[m] # None
        PROVE  /\ identity'[remote'[m]] = "agent" /\ m \in methods'[remote'[m]]
               /\ agents'[name'[remote'[m]]] = remote'[m] \/ remote'[m] \in late'
    <3>1. remote' = remote /\ methods' = methods /\ remote[m] # c /\ remote[m] \in Conn
      BY <1>8, <2>4, <2>8
    <3>2. /\ identity[remote[m]] = "agent" /\ m \in methods[remote[m]]
          /\ agents[name[remote[m]]] = remote[m] \/ remote[m] \in late
          /\ name[remote[m]] \in Name
      BY <1>3, <2>8, <3>1 DEF AgentsInv
    <3>3. agents[name[remote[m]]] = remote[m] => name[remote[m]] # n
      BY <1>4, <1>8, <3>1
    <3> QED BY <2>1, <2>2, <2>5, <3>1, <3>2, <3>3
  <2> QED BY <2>6, <2>7, <2>8 DEF AgentsInv
<1> QED BY <1>5, <1>6, <1>7, <1>8 DEF Identify

LEMMA RegisterMethodAgents ==
  ASSUME IInv, NEW c \in Conn, RegisterMethod(c)
  PROVE  AgentsInv'
<1> DEFINE m == Head(inbox[c]).method
<1>1. Handles(c, "register") /\ conn' = conn
  BY DEF RegisterMethod, socketVars
<1>2. m \in Method
  <2>1. Head(inbox[c]) \in Message /\ Head(inbox[c]).kind = "register"
    BY <1>1, HandledType DEF IInv, TypeInv
  <2> QED BY <2>1 DEF Message
<1>3. AgentTypes /\ AgentsInv
  BY DEF IInv, TypeInv
<1>4. CASE Refused(c)
  BY <1>1, <1>3, <1>4, AgentsSame DEF Refused
<1>5. CASE /\ MayRegister(c, m)
           /\ remote' = [remote EXCEPT ![m] = c]
           /\ methods' = [methods EXCEPT ![c] = @ \cup {m}]
           /\ late' = IF conn[c] = "gone" THEN late \cup {c} ELSE late
           /\ UNCHANGED <<identity, name, agents>>
  <2> HIDE DEF m
  <2>1. /\ remote'[m] = c /\ \A p \in Method : p # m => remote'[p] = remote[p]
        /\ m \in methods'[c] /\ \A d \in Conn : methods[d] \subseteq methods'[d]
        /\ late \subseteq late'
    BY <1>2, <1>3, <1>5 DEF AgentTypes
  <2>2. identity[c] = "agent" /\ (agents[name[c]] = c \/ c \in late')
    BY <1>3, <1>5 DEF MayRegister, AgentsInv
  <2>3. \A p \in Method : remote[p] # None => remote[p] \in Conn
    BY <1>3 DEF AgentTypes
  <2>4. ASSUME NEW p \in Method, remote'[p] # None
        PROVE  /\ identity'[remote'[p]] = "agent" /\ p \in methods'[remote'[p]]
               /\ agents'[name'[remote'[p]]] = remote'[p] \/ remote'[p] \in late'
    <3>1. CASE p = m
      BY <1>5, <2>1, <2>2, <3>1
    <3>2. CASE p # m
      <4>1. remote'[p] = remote[p] /\ remote[p] \in Conn
        BY <2>1, <2>3, <2>4, <3>2
      <4>2. /\ identity[remote[p]] = "agent" /\ p \in methods[remote[p]]
            /\ agents[name[remote[p]]] = remote[p] \/ remote[p] \in late
        BY <1>3, <2>4, <4>1 DEF AgentsInv
      <4> QED BY <1>5, <2>1, <4>1, <4>2
    <3> QED BY <3>1, <3>2
  <2>5. \A q \in Name : agents[q] # None => (conn[agents[q]] = "gone" => agents[q] \in late')
    BY <1>3, <2>1 DEF AgentsInv
  <2> QED BY <1>1, <1>3, <1>5, <2>4, <2>5 DEF AgentsInv
<1> QED BY <1>4, <1>5 DEF RegisterMethod

(* Whoever closes and is an agent is the one under its name: it takes with *)
(* it its entry and its methods, and those of nobody else.                 *)
LEMMA ClosedAgents ==
  ASSUME IInv, NEW c \in Conn, conn[c] # "gone", Closed(c)
  PROVE  AgentsInv'
<1>1. AgentTypes /\ AgentsInv
  BY DEF IInv, TypeInv
<1>2. /\ UNCHANGED <<identity, name, late>> /\ conn' = [conn EXCEPT ![c] = "gone"] /\ RemoveAgent(c)
  BY DEF Closed
<1>3. conn'[c] = "gone" /\ \A d \in Conn : d # c => conn'[d] = conn[d]
  BY <1>2 DEF IInv, TypeInv, SocketTypes
<1>4. None \notin Conn
  BY ConnectionsConstants
<1>5. CASE identity[c] # "agent"
  <2>1. UNCHANGED <<agents, remote, methods>>
    BY <1>2, <1>5 DEF RemoveAgent
  <2>2. \A n \in Name : agents[n] # None => agents[n] # c /\ agents[n] \in Conn
    BY <1>1, <1>5 DEF AgentTypes, AgentsInv
  <2> QED BY <1>1, <1>2, <1>3, <1>5, <2>1, <2>2 DEF AgentsInv
<1>6. CASE identity[c] = "agent"
  <2>1. name[c] \in Name /\ agents[name[c]] = c
    BY <1>1, <1>6 DEF AgentsInv
  <2>2. /\ agents' = [agents EXCEPT ![name[c]] = None]
        /\ remote' = [m \in Method |-> IF m \in methods[c] THEN None ELSE remote[m]]
        /\ methods' = [methods EXCEPT ![c] = {}]
    BY <1>2, <1>4, <1>6, <2>1 DEF RemoveAgent
  <2>3. /\ agents'[name[c]] = None
        /\ \A n \in Name : n # name[c] => agents'[n] = agents[n]
        /\ \A d \in Conn : d # c => methods'[d] = methods[d]
        /\ \A m \in Method : remote'[m] # None => remote'[m] = remote[m] /\ m \notin methods[c]
    BY <1>1, <2>1, <2>2 DEF AgentTypes
  <2>4. \A n \in Name : agents[n] # None /\ n # name[c] => agents[n] # c /\ agents[n] \in Conn
    BY <1>1 DEF AgentTypes, AgentsInv
  <2>5. ASSUME NEW d \in Conn, identity'[d] = "agent"
        PROVE  name'[d] \in Name /\ (conn'[d] # "gone" => agents'[name'[d]] = d)
    <3>1. name[d] \in Name /\ (conn[d] # "gone" => agents[name[d]] = d)
      BY <1>1, <1>2, <2>5 DEF AgentsInv
    <3>2. d # c /\ conn[d] # "gone" => name[d] # name[c]
      BY <2>1, <3>1
    <3> QED BY <1>2, <1>3, <2>3, <3>1, <3>2
  <2>6. ASSUME NEW n \in Name, agents'[n] # None
        PROVE  /\ identity'[agents'[n]] = "agent" /\ name'[agents'[n]] = n
               /\ conn'[agents'[n]] = "gone" => agents'[n] \in late'
    <3>1. n # name[c] /\ agents'[n] = agents[n] /\ agents[n] # c /\ agents[n] \in Conn
      BY <2>3, <2>4, <2>6
    <3>2. /\ identity[agents[n]] = "agent" /\ name[agents[n]] = n
          /\ conn[agents[n]] = "gone" => agents[n] \in late
      BY <1>1, <2>6, <3>1 DEF AgentsInv
    <3> QED BY <1>2, <1>3, <3>1, <3>2
  <2>7. ASSUME NEW m \in Method, remote'[m] # None
        PROVE  /\ identity'[remote'[m]] = "agent" /\ m \in methods'[remote'[m]]
               /\ agents'[name'[remote'[m]]] = remote'[m] \/ remote'[m] \in late'
    <3>1. remote'[m] = remote[m] /\ m \notin methods[c] /\ remote[m] \in Conn
      BY <1>1, <2>3, <2>7 DEF AgentTypes
    <3>2. /\ identity[remote[m]] = "agent" /\ m \in methods[remote[m]]
          /\ agents[name[remote[m]]] = remote[m] \/ remote[m] \in late
          /\ name[remote[m]] \in Name
      BY <1>1, <2>7, <3>1 DEF AgentsInv
    <3>3. remote[m] # c
      BY <3>1, <3>2
    <3>4. agents[name[remote[m]]] = remote[m] => name[remote[m]] # name[c]
      BY <2>1, <3>3
    <3> QED BY <1>2, <2>3, <3>1, <3>2, <3>3, <3>4
  <2> QED BY <2>5, <2>6, <2>7 DEF AgentsInv
<1> QED BY <1>5, <1>6

LEMMA AgentsStep ==
  ASSUME IInv, [Next]_vars
  PROVE  AgentsInv'
<1>1. ASSUME UNCHANGED agentVars, \A c \in Conn : conn'[c] = "gone" <=> conn[c] = "gone"
      PROVE  AgentsInv'
  BY <1>1, AgentsSame DEF IInv, TypeInv
<1>2. ASSUME UNCHANGED <<conn, agentVars>>
      PROVE  AgentsInv'
  BY <1>1, <1>2
<1>3. ASSUME NEW c \in Conn, MessageTask(c)
      PROVE  AgentsInv'
  BY <1>2, <1>3, IdentifyAgents, RegisterMethodAgents
     DEF MessageTask, CallAgent, AgentEvent, Response, socketVars
<1>4. ASSUME NEW c \in Conn, WebClosed(c) \/ UnixClosedAtOnce(c) \/ UnixClosed(c)
      PROVE  AgentsInv'
  BY <1>4, ClosedAgents DEF WebClosed, UnixClosedAtOnce, UnixClosed
<1>5. ASSUME NEW c \in Conn,
             \/ Connect(c) \/ PeerLeaves(c) \/ Receive(c) \/ UnixCloseBegins(c)
             \/ WriterStarts(c) \/ Written(c) \/ WriteFails(c)
      PROVE  AgentsInv'
  <2>1. UNCHANGED agentVars
    BY <1>5 DEF Connect, PeerLeaves, Receive, UnixCloseBegins, WriterStarts, Written, WriteFails
  <2>2. conn \in [Conn -> {"none", "open", "broken", "closing", "gone"}]
    BY DEF IInv, TypeInv, SocketTypes
  <2>3. CASE conn' = conn
    BY <1>1, <2>1, <2>3
  <2>4. CASE \E v \in {"open", "broken", "closing"} :
               conn[c] # "gone" /\ conn' = [conn EXCEPT ![c] = v]
    <3>1. \A d \in Conn : conn'[d] = "gone" <=> conn[d] = "gone"
      BY <2>2, <2>4
    <3> QED BY <1>1, <2>1, <3>1
  <2>5. CASE conn' = [conn EXCEPT ![c] = IF @ = "open" THEN "broken" ELSE @]
    <3>1. \A d \in Conn : conn'[d] = "gone" <=> conn[d] = "gone"
      BY <2>2, <2>5
    <3> QED BY <1>1, <2>1, <3>1
  <2> QED BY <1>5, <2>3, <2>4, <2>5
          DEF Connect, PeerLeaves, Receive, UnixCloseBegins, WriterStarts, Written, WriteFails,
              socketVars, IsClosed
<1>6. ASSUME NEW c \in Conn, Connect(c) \/ PeerLeaves(c) \/ Receive(c) \/ ConnectionTask(c)
      PROVE  AgentsInv'
  BY <1>3, <1>4, <1>5, <1>6 DEF ConnectionTask
<1>7. ASSUME NEW b \in Bridge,
             BridgeOpens(b) \/ BridgeMessage(b) \/ KlippyDrops(b) \/ BridgeClosed(b) \/ BridgeTask(b)
      PROVE  AgentsInv'
  BY <1>2, <1>7
     DEF BridgeOpens, BridgeMessage, KlippyDrops, BridgeClosed, BridgeTask, BridgeWriterStarts,
         BridgeWritten, BridgeWriteFails, KlippyStreamEnds, connectionVars, socketVars
<1>8. ASSUME Stop \/ ServerTask
      PROVE  AgentsInv'
  BY <1>2, <1>8
     DEF Stop, ServerTask, CloseBegins, CloseEnds, KlippyClosed, ExtensionsClosed, connectionVars,
         socketVars
<1>9. ASSUME NEW k \in CallNo, CallReturns(k)
      PROVE  AgentsInv'
  BY <1>2, <1>9 DEF CallReturns, socketVars
<1>10. ASSUME NEW m \in Method, KlippyCalls(m)
       PROVE  AgentsInv'
  BY <1>2, <1>10 DEF KlippyCalls, socketVars
<1>11. CASE UNCHANGED vars
  BY <1>2, <1>11 DEF vars, socketVars
<1> QED BY <1>6, <1>7, <1>8, <1>9, <1>10, <1>11 DEF Next
-----------------------------------------------------------------------------
LEMMA Inductive == Spec => []IInv
<1>1. Init => IInv
  <2> SUFFICES ASSUME Init PROVE IInv
    OBVIOUS
  <2>1. TypeInv
    BY TypeInit
  <2>2. AbsentOK
    BY ConnectionsConstants DEF Init, AbsentOK, NoCall
  <2>3. AgentsInv
    BY DEF Init, AgentsInv
  <2> QED BY <2>1, <2>2, <2>3 DEF IInv
<1>2. IInv /\ [Next]_vars => IInv'
  BY TypeStep, AbsentStep, AgentsStep DEF IInv
<1> QED BY <1>1, <1>2, PTL DEF Spec

(* The state of connections, queues, agents, calls and bridges is always of *)
(* its type: the clients of the manager are those that are connected, and a *)
(* connection has a message in hand exactly while its task writes or closes *)
(* (WebsocketManager, _write_messages).                                     *)
THEOREM TypeCorrect == Spec => []TypeOK
<1>1. IInv => TypeOK
  <2> SUFFICES ASSUME IInv PROVE TypeOK
    OBVIOUS
  <2>1. \A c \in Conn : \A i \in 1..Len(buf[c]) : buf[c][i] \in Held
    <3> TAKE c \in Conn
    <3>1. buf[c] \in Seq(Held)
      BY DEF IInv, TypeInv, QueuesOK
    <3> QED BY <3>1
  <2>2. \A c \in Conn : out[c] \in Held <=> writer[c] \in {"writing", "closing"}
    BY NoneNotHeld DEF IInv, TypeInv, QueuesOK
  <2> QED BY <2>1, <2>2 DEF IInv, TypeInv, TypeOK, Plan, SocketTypes, QueuesOK, AgentTypes,
                            CallsOK, Call, BridgeTypes
<1> QED BY <1>1, Inductive, PTL

(* An identified agent is found under its name as long as its connection is *)
(* there, whoever else comes, is refused and leaves under the same name;    *)
(* names lead to nobody who is gone and remote methods only to registered   *)
(* agents, but for requests handled after on_close (register_agent,         *)
(* remove_agent, register_method_from_agent).                               *)
THEOREM AgentsFound == Spec => []AgentsReachable
<1>1. IInv => AgentsReachable
  BY DEF IInv, AgentsInv, AgentsReachable
<1> QED BY <1>1, Inductive, PTL
=============================================================================
