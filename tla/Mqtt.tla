-------------------------------- MODULE Mqtt --------------------------------
(***************************************************************************)
(* mqtt.py: one connection to a broker that is made again when it drops,   *)
(* topics with the handles of those who listen, requests that subscribe,   *)
(* publish or publish and wait for a response, with timeouts; the end, by  *)
(* close.  The broker forgets the subscriptions of a connection that is    *)
(* gone.  default_qos is what it is by default, 0.                         *)
(***************************************************************************)
EXTENDS Host

CONSTANTS Topic, ApiTopic   \* ApiTopic, of all topics, is subscribed from the start

ASSUME MqttConstants == ApiTopic \in Topic /\ None \notin Topic

Owner == Request \cup {None}     \* None listens to the API topic
Qos == 0..1

VARIABLES
  link,          \* the socket: "down", "connecting" up to CONNACK, "up"; "closed" by close
  reconnects,    \* connect_task runs
  handles, qos,  \* subscribed_topics: who listens, the level asked of the broker
  wire,          \* packets on their way to the broker
  brokerQos,     \* the broker's subscriptions, 0 for none, else the level + 1
  listens, wanted,  \* a request's topic; its publication needs an acknowledgement
  answers,       \* a request's future: "no", "called" (the callback is a task), "set"
  patient        \* requests without a timeout, as they are by default

brokerVars == <<wire, brokerQos>>
topicVars == <<handles, qos>>
requestVars == <<listens, wanted, answers, patient>>
mqttVars == <<link, reconnects, topicVars, brokerVars, requestVars>>

(* __init__: nothing is subscribed to but the topic of the API. *)
SubscribedFromStart ==
  /\ handles = [p \in Topic |-> IF p = ApiTopic THEN {None} ELSE {}]
  /\ qos = [p \in Topic |-> 0]

MqttInit ==
  /\ link = "down" /\ reconnects = TRUE
  /\ SubscribedFromStart
  /\ wire = <<>> /\ brokerQos = [p \in Topic |-> 0]
  /\ listens = [t \in Request |-> None] /\ wanted = {}
  /\ answers = [t \in Request |-> "no"] /\ patient = {}

MqttTypeOK ==
  /\ link \in {"down", "connecting", "up", "closed"} /\ reconnects \in BOOLEAN
  /\ handles \in [Topic -> SUBSET Owner] /\ qos \in [Topic -> Qos]
  /\ \A i \in DOMAIN wire : wire[i].levels \in [Topic -> 0..2] /\ wire[i].by \subseteq Request
  /\ brokerQos \in [Topic -> 0..2]
  /\ {wanted, patient} \subseteq SUBSET Request /\ \A t \in Request : answers[t] \in {"no", "called", "set"}
  /\ reconnects => link = "down"

NoLevels == [p \in Topic |-> 0]
Subscription(levels) == [op |-> "subscribe", levels |-> levels, by |-> {}]
Unsubscription(p) == [op |-> "unsubscribe", levels |-> [NoLevels EXCEPT ![p] = 1], by |-> {}]
Publications(S) == [op |-> "publish", levels |-> NoLevels, by |-> S]
NoSocket == link \in {"down", "closed"}
(* paho sends what it can as soon as it has a socket. *)
Sends(packets) == wire' = IF NoSocket THEN wire ELSE wire \o packets
-----------------------------------------------------------------------------
(* Requests *)

Larger(a, b) == IF a > b THEN a ELSE b
LevelWith(p, q) == IF handles[p] = {} THEN q ELSE Larger(q, qos[p])

(* subscribe_topic: the broker is asked when it does not know the level. *)
Subscribe(t, p, q) ==
  /\ handles' = [handles EXCEPT ![p] = @ \cup {t}]
  /\ qos' = [qos EXCEPT ![p] = LevelWith(p, q)]
  /\ listens' = [listens EXCEPT ![t] = p]
SubscribePacket(p, q) ==
  IF link = "up" /\ (handles[p] = {} \/ q > qos[p])
  THEN <<Subscription([NoLevels EXCEPT ![p] = LevelWith(p, q) + 1])>> ELSE <<>>

(* unsubscribe, and the end of the request *)
Ends(t) ==
  LET p == listens[t]
      last == p # None /\ handles[p] = {t}
      unacked == [i \in DOMAIN wire |-> [wire[i] EXCEPT !.by = @ \ {t}]]
  IN /\ Goes(t, "idle")
     /\ handles' = [x \in Topic |-> handles[x] \ {t}]
     /\ qos' = IF last THEN [qos EXCEPT ![p] = 0] ELSE qos
     /\ wire' = IF last /\ ~NoSocket THEN Append(unacked, Unsubscription(p)) ELSE unacked
     /\ listens' = [listens EXCEPT ![t] = None]
     /\ wanted' = wanted \ {t}
     /\ answers' = [answers EXCEPT ![t] = "no"]
     /\ patient' = patient \ {t}

(* The timeout of a request is optional. *)
MayWait(t) == patient' \in {patient, patient \cup {t}}

(* _handle_subscription_request *)
AskSubscribe(t, p, q) ==
  /\ Idle(t)
  /\ Spends("asks")
  /\ Subscribe(t, p, q)
  /\ Sends(SubscribePacket(p, q))
  /\ Goes(t, "waiting") /\ MayWait(t)
  /\ PrinterStays
  /\ UNCHANGED <<link, reconnects, brokerQos, wanted, answers>>

(* publish_topic, after the packets before: a level above 0 is waited for, and *)
(* paho keeps it for the next connection; without one level 0 is an error.      *)
Publishes(t, q, before) ==
  /\ q > 0 \/ ~NoSocket
  /\ Sends(before \o <<Publications({t})>>)
  /\ wanted' = IF q > 0 THEN wanted \cup {t} ELSE wanted
  /\ Goes(t, IF q > 0 THEN "acking" ELSE "waiting")

(* _handle_publish_request, for a level above 0 *)
AskPublish(t) ==
  /\ Idle(t)
  /\ Spends("asks")
  /\ Publishes(t, 1, <<>>) /\ MayWait(t)
  /\ PrinterStays
  /\ UNCHANGED <<link, reconnects, topicVars, brokerQos, listens, answers>>

(* publish_topic_with_response; the response comes by topic p *)
AskResponse(t, p, q) ==
  /\ Idle(t)
  /\ Spends("asks")
  /\ Subscribe(t, p, q)
  /\ Publishes(t, q, SubscribePacket(p, q)) /\ MayWait(t)
  /\ PrinterStays
  /\ UNCHANGED <<link, reconnects, brokerQos, answers>>

Acknowledged(t) ==
  /\ pc[t] = "acking" /\ t \notin wanted
  /\ IF listens[t] = None THEN Ends(t)
     ELSE Goes(t, "waiting") /\ UNCHANGED <<topicVars, wire, requestVars>>
  /\ PrinterStays
  /\ UNCHANGED <<left, link, reconnects, brokerQos>>

(* _on_message made the callback a task. *)
Callback(t) ==
  /\ answers[t] = "called"
  /\ answers' = [answers EXCEPT ![t] = "set"]
  /\ PrinterStays
  /\ UNCHANGED <<pc, left, link, reconnects, topicVars, brokerVars, listens, wanted, patient>>

Answered(t) ==
  /\ pc[t] = "waiting" /\ answers[t] = "set"
  /\ Ends(t)
  /\ PrinterStays
  /\ UNCHANGED <<left, link, reconnects, brokerQos>>

(* Mutant: only the response has a timeout, the acknowledgement before it none. *)
TimesOutOfResponse(t) ==
  /\ pc[t] = "waiting" /\ t \notin patient
  /\ Ends(t)
  /\ PrinterStays
  /\ UNCHANGED <<left, link, reconnects, brokerQos>>
(* The timeout, or the exception that close sets *)
TimesOut(t) ==
  /\ pc[t] \in {"acking", "waiting"} /\ t \notin patient
  /\ Ends(t)
  /\ PrinterStays
  /\ UNCHANGED <<left, link, reconnects, brokerQos>>
-----------------------------------------------------------------------------
(* The connection *)

(* ExtPahoClient._v2_reconnect: packets that were not sent are gone. *)
PacketsForgotten == wire' = <<>>

(* ExtPahoClient.reconnect: a socket, over which CONNECT goes *)
SocketTaken == link' = "connecting" /\ PacketsForgotten

(* _do_reconnect, until there is a socket *)
Reconnects ==
  /\ reconnects
  /\ reconnects' = FALSE
  /\ SocketTaken
  /\ PrinterStays
  /\ UNCHANGED <<pc, left, topicVars, brokerQos, requestVars>>

Listened == {p \in Topic : handles[p] # {}}
(* Mutant: the broker is taken to remember what it was asked for. *)
NothingAgain == <<>>
(* _on_connect asks for every topic; paho sends publications again that were  *)
(* not acknowledged.                                                           *)
SentOnConnect ==
  (IF Listened = {} THEN <<>>
   ELSE <<Subscription([p \in Topic |-> IF p \in Listened THEN qos[p] + 1 ELSE 0])>>)
  \o <<Publications(wanted)>>

Connects ==
  /\ link = "connecting"
  /\ link' = "up"
  /\ wire' = wire \o SentOnConnect
  /\ PrinterStays
  /\ UNCHANGED <<pc, left, reconnects, topicVars, brokerQos, requestVars>>

(* _on_disconnect: nobody connects again when it comes before CONNACK, or when *)
(* close waits for it.                                                           *)
Drops ==
  /\ ~NoSocket
  /\ Spends("failures")
  /\ link' = "down"
  /\ reconnects' = (link = "up" /\ Idle("event"))
  /\ wire' = <<>> /\ brokerQos' = NoLevels
  /\ PrinterStays
  /\ UNCHANGED <<pc, topicVars, requestVars>>
(* close: nobody tries to connect any more; when there is a connection, the    *)
(* broker is told of the end, ...                                                *)
Closes ==
  /\ Idle("event") /\ link # "closed" /\ Spends("failures")
  /\ reconnects' = FALSE
  /\ IF link = "up" THEN Goes("event", "leaving") /\ UNCHANGED link
     ELSE link' = (IF link = "down" THEN "closed" ELSE link) /\ UNCHANGED pc
  /\ PrinterStays
  /\ UNCHANGED <<topicVars, brokerVars, requestVars>>

(* ... and has two seconds.  Whoever waits for an acknowledgement or a response *)
(* gets an error, as after a timeout.                                             *)
Closed ==
  /\ pc["event"] = "leaving" /\ Goes("event", "idle")
  /\ link' = "closed" /\ wire' = <<>> /\ brokerQos' = NoLevels
  /\ patient' = {}
  /\ PrinterStays
  /\ UNCHANGED <<left, reconnects, topicVars, listens, wanted, answers>>
-----------------------------------------------------------------------------
(* The broker *)

BrokerReads ==
  LET packet == Head(wire) IN
  /\ link = "up" /\ wire # <<>>
  /\ wire' = Tail(wire)
  /\ brokerQos' = [p \in Topic |->
       IF packet.levels[p] = 0 THEN brokerQos[p]
       ELSE IF packet.op = "subscribe" THEN packet.levels[p] ELSE 0]
  /\ wanted' = wanted \ packet.by
  /\ PrinterStays
  /\ UNCHANGED <<pc, left, link, reconnects, topicVars, listens, answers, patient>>

(* A message on topic p; _on_message *)
BrokerSends(p) ==
  /\ link = "up" /\ brokerQos[p] > 0
  /\ Spends("changes")
  /\ answers' = [t \in Request |->
       IF t \in handles[p] /\ answers[t] = "no" THEN "called" ELSE answers[t]]
  /\ PrinterStays
  /\ UNCHANGED <<pc, link, reconnects, topicVars, brokerVars, listens, wanted, patient>>
-----------------------------------------------------------------------------
MqttRequest(t) == t \in Request /\ (Acknowledged(t) \/ Callback(t) \/ Answered(t) \/ TimesOut(t))

MqttNext ==
  \/ \E t \in Request, p \in Topic, q \in Qos : AskSubscribe(t, p, q) \/ AskResponse(t, p, q)
  \/ \E t \in Request : AskPublish(t) \/ MqttRequest(t)
  \/ Reconnects \/ Connects \/ Drops \/ Closes \/ Closed \/ BrokerReads
  \/ \E p \in Topic : BrokerSends(p)

MqttWorks(t) ==
  \/ MqttRequest(t)
  \/ t = "init" /\ (Reconnects \/ Connects)
  \/ t = "event" /\ Closed
  \/ t = "worker" /\ BrokerReads

(* Without a timeout it waits for a message that need not come, or for the     *)
(* acknowledgement of a broker to which nobody connects any more (mqtt.py:715,  *)
(* 746, 761, 850-851).                                                           *)
WaitsForEver(t) ==
  /\ component = "mqtt" /\ t \in patient
  /\ \/ pc[t] = "waiting" /\ answers[t] = "no"
     \/ pc[t] = "acking" /\ t \in wanted /\ NoSocket /\ ~reconnects
-----------------------------------------------------------------------------
(* Once the broker has read what was sent over a connection, it is subscribed *)
(* to exactly the topics somebody listens to, at the level asked for.          *)
(* (Requests that subscribe and leave while the connection drops, is made and *)
(* not yet acknowledged: mqtt.py:617-669, :512-525.)                           *)
SubscriptionsMatch ==
  link = "up" /\ wire = <<>> =>
    \A p \in Topic : brokerQos[p] = IF handles[p] = {} THEN 0 ELSE qos[p] + 1
=============================================================================
