----------------------------- MODULE MqttBroker -----------------------------
(***************************************************************************)
(* The MQTT broker both IoT tools connect to (test.mosquitto.org:1883,     *)
(* mqtt_publisher.py line 15, data_visualizer.py line 24): an external     *)
(* collaborator, modelled by the MQTT 3.1.1 rules the tools rely on.       *)
(*                                                                         *)
(*  - paho's mqtt.Client(CLIENT_ID) asks for a clean session: when a       *)
(*    connection ends, the broker forgets the client's subscriptions and   *)
(*    the QoS 0 messages queued for it.                                    *)
(*  - QoS 0 (the default of both tools): a message travels at most once;   *)
(*    messages on one connection arrive in the order they were sent.       *)
(*  - A retained message is stored per topic and sent to a client when it  *)
(*    subscribes with a matching filter, in an order the broker chooses.   *)
(*  - A client whose filters overlap ("#" and "data") gets one copy or one *)
(*    per matching filter, depending on the broker's configuration.        *)
(*                                                                         *)
(* Topics and filters are written without the common prefix                *)
(* "lab/iot/sensor/".  A message is a record: the topic, the sample it     *)
(* carries (0 for a payload from another client of the public broker) and *)
(* what its "time" field holds.                                            *)
(***************************************************************************)
EXTENDS Naturals, Sequences, SequencesExt, FiniteSets

CONSTANTS Count,      \* samples the publisher sends (its -c argument)
          MaxDrops,   \* bound on the connections that break
          Foreign     \* payloads other clients publish under the prefix

Clients == {"pub", "viz"}

Topics == {"temperature", "humidity", "data", "status", "command"}

Samples == 1..Count

TimeFields == {"num", "bad"}   \* a number, or what fromtimestamp rejects

Msgs == [topic : Topics, sample : 0..Count, time : TimeFields]

NoMsg == [topic |-> "none", sample |-> 0, time |-> "num"]

ASSUME Count \in Nat /\ MaxDrops \in Nat /\ Foreign \subseteq Msgs

VARIABLES conn,       \* client -> whether its socket to the broker is open
          subs,       \* client -> the filters of its current session
          out,        \* client -> messages the broker has sent, not yet read
          wire,       \* messages the publisher has written, not yet routed
          retained,   \* topic -> the retained message, or NoMsg
          drops,      \* connections that have broken so far
          foreignLeft \* foreign payloads not yet published

brokerVars == <<conn, subs, out, wire, retained, drops, foreignLeft>>

Matches(f, t) == f = "#" \/ f = t

BrokerInit ==
    /\ conn = [c \in Clients |-> FALSE]
    /\ subs = [c \in Clients |-> {}]
    /\ out = [c \in Clients |-> <<>>]
    /\ wire = <<>>
    /\ retained = [t \in Topics |-> NoMsg]
    /\ drops = 0
    /\ foreignLeft = Foreign

\* The copies of m the broker queues for client c: none when no filter of
\* its session matches, else one, or one per matching filter.
CopiesFor(c, m) ==
    LET n == Cardinality({f \in subs[c] : Matches(f, m.topic)})
    IN  IF n = 0 THEN {<<>>} ELSE {<<m>>, [i \in 1..n |-> m]}

\* The broker routes message m to every session, and keeps it if retained.
Route(m, retain) ==
    /\ \E copies \in [Clients -> UNION {CopiesFor(c, m) : c \in Clients}] :
          /\ \A c \in Clients : copies[c] \in CopiesFor(c, m)
          /\ out' = [c \in Clients |-> out[c] \o copies[c]]
    /\ retained' = IF retain THEN [retained EXCEPT ![m.topic] = m] ELSE retained

\* SUBSCRIBE of filter f by client c: the session gets the filter and the
\* retained messages that match it, in some order.
Subscribe(c, f) ==
    /\ subs' = [subs EXCEPT ![c] = @ \cup {f}]
    /\ \E s \in SetToSeqs({retained[t] : t \in {u \in Topics : Matches(f, u) /\ retained[u] # NoMsg}}) :
          out' = [out EXCEPT ![c] = @ \o s]

\* The connection of client c breaks: the clean session ends.
DropSession(c) ==
    /\ conn' = [conn EXCEPT ![c] = FALSE]
    /\ subs' = [subs EXCEPT ![c] = {}]
    /\ out' = [out EXCEPT ![c] = <<>>]

-----------------------------------------------------------------------------
\* The broker reads the next PUBLISH the publisher wrote and routes it.
\* The retain flag travels with the message; the publisher passes its -r.
BrokerRoute(retain) ==
    /\ wire # <<>>
    /\ Route(Head(wire), retain)
    /\ wire' = Tail(wire)
    /\ UNCHANGED <<conn, subs, drops, foreignLeft>>

\* Another client of the public broker publishes under the prefix.
ForeignPublish ==
    /\ \E m \in foreignLeft :
          /\ Route(m, FALSE)
          /\ foreignLeft' = foreignLeft \ {m}
    /\ UNCHANGED <<conn, subs, wire, drops>>

=============================================================================
