---------------------------- MODULE IoTPipeline ----------------------------
(***************************************************************************)
(* The two IoT tools of lab5-2-iot-sensor-rtos/tools run together against  *)
(* one broker: mqtt_publisher.py publishes every sample under              *)
(* "lab/iot/sensor/", data_visualizer.py subscribes to "lab/iot/sensor/#"  *)
(* and plots what arrives.  Other clients of the public broker may         *)
(* publish under the same prefix.                                          *)
(***************************************************************************)
EXTENDS Naturals, Sequences, SequencesExt, MqttPublisher, DataVisualizer

\* History: for a pair <<sample, topic>> reported published while the
\* visualizer's session held "#", the number of broken connections at that
\* moment; NotShown otherwise.
VARIABLE okAt

NotShown == -1

\* the <<sample, topic>> pairs the publisher sends
SentPairs == Samples \X {"temperature", "humidity", "data"}

vars == <<brokerVars, pubVars, vizVars, okAt>>

Init == BrokerInit /\ PubInit /\ VizInit
        /\ okAt = [p \in SentPairs |-> NotShown]

PubPublishRecorded ==
    /\ PubPublish
    /\ okAt' = [p \in DOMAIN okAt |->
                  IF p \in pubOk' \ pubOk /\ "#" \in subs["viz"] THEN drops ELSE okAt[p]]

PubStep ==
    \/ PubConnect \/ PubSubscribe \/ PubInterrupt \/ PubClose
    \/ PubDrop \/ PubReconnect \/ PubOnMessage

VizStep ==
    \/ VizConnect \/ VizOnConnect \/ VizDrop \/ VizReconnect
    \/ VizTake \/ VizAppend \/ VizAppendTimestamp
    \/ PlotStart \/ PlotRead \/ VizWindowClosed \/ VizFinally

\* Both programs have ended and the broker has nothing left to route.
Terminated ==
    /\ pubPc = "done" /\ vizPc = "done" /\ wire = <<>>
    /\ UNCHANGED vars

Next ==
    \/ PubPublishRecorded /\ UNCHANGED vizVars
    \/ PubStep /\ UNCHANGED <<vizVars, okAt>>
    \/ VizStep /\ UNCHANGED <<pubVars, okAt>>
    \/ BrokerRoute(pubRetain) /\ UNCHANGED <<pubVars, vizVars, okAt>>
    \/ ForeignPublish /\ UNCHANGED <<pubVars, vizVars, okAt>>
    \/ Terminated

(* Fairness: main() of each tool, both paho network threads, the broker    *)
(* and the animation timer keep running.  Ctrl+C, closing the window,      *)
(* broken connections and other clients are the environment's choice and  *)
(* get none.                                                               *)
Fairness ==
    /\ WF_vars(PubPublishRecorded /\ UNCHANGED vizVars)
    /\ WF_vars(PubConnect /\ UNCHANGED <<vizVars, okAt>>)
    /\ WF_vars(PubSubscribe /\ UNCHANGED <<vizVars, okAt>>)
    /\ WF_vars(PubClose /\ UNCHANGED <<vizVars, okAt>>)
    /\ WF_vars(PubReconnect /\ UNCHANGED <<vizVars, okAt>>)
    /\ WF_vars(PubOnMessage /\ UNCHANGED <<vizVars, okAt>>)
    /\ WF_vars(VizConnect /\ UNCHANGED <<pubVars, okAt>>)
    /\ WF_vars(VizOnConnect /\ UNCHANGED <<pubVars, okAt>>)
    /\ WF_vars(VizReconnect /\ UNCHANGED <<pubVars, okAt>>)
    /\ WF_vars(VizTake /\ UNCHANGED <<pubVars, okAt>>)
    /\ WF_vars(VizAppend /\ UNCHANGED <<pubVars, okAt>>)
    /\ WF_vars(VizAppendTimestamp /\ UNCHANGED <<pubVars, okAt>>)
    /\ WF_vars(PlotStart /\ UNCHANGED <<pubVars, okAt>>)
    /\ WF_vars(PlotRead /\ UNCHANGED <<pubVars, okAt>>)
    /\ WF_vars(VizFinally /\ UNCHANGED <<pubVars, okAt>>)
    /\ WF_vars(BrokerRoute(pubRetain) /\ UNCHANGED <<pubVars, vizVars, okAt>>)

Spec == Init /\ [][Next]_vars /\ Fairness

-----------------------------------------------------------------------------
TypeOK ==
    /\ conn \in [Clients -> BOOLEAN]
    /\ subs \in [Clients -> SUBSET ({"#"} \cup Topics)]
    /\ \A c \in Clients : out[c] \in Seq(Msgs)
    /\ wire \in Seq(Msgs)
    /\ drops \in 0..MaxDrops
    /\ pubPc \in {"connect", "publish", "subscribe", "listen", "close", "done"}
    /\ pubOk \subseteq SentPairs
    /\ vizPc \in {"init", "show", "closing", "done"}
    /\ vizThread \in {"idle", "temperature", "humidity", "timestamps"}
    /\ \A b \in DOMAIN buffer : buffer[b] \in Seq(0..Count) /\ Len(buffer[b]) <= BufferLen
    /\ plotStep \in 0..3
    /\ okAt \in [SentPairs -> {NotShown} \cup 0..MaxDrops]

(* update_plot never hands matplotlib x and y data, or tick positions and  *)
(* labels, of different lengths: the length it reads from a deque is the   *)
(* length of the contents it reads next.                                   *)
PlotLengthsAgree == ~plotBad

(* Every time the visualizer's network thread has (re)connected, its       *)
(* session ends up subscribed to "#" again, unless the connection breaks  *)
(* or the program stops first: on_connect subscribes on every CONNACK.     *)
VizResubscribes ==
    [](conn["viz"] /\ vizLoop ~> subs["viz"] = {"#"} \/ ~conn["viz"] \/ ~vizLoop)

(* The same for the publisher in --mode subscribe/both: once it listens,   *)
(* its session holds the four filters whenever it is connected.            *)
PubResubscribes ==
    [](conn["pub"] /\ pubPc = "listen"
         ~> subs["pub"] = Range(PubFilters) \/ ~conn["pub"] \/ pubPc # "listen")

(* In --mode both, main() subscribes only after its publishing loop, so  *)
(* the only samples of its own that reach the publisher's on_message are  *)
(* the retained ones the broker sends on SUBSCRIBE: with --retain, the    *)
(* message kept for that topic, and without it none at all, through any   *)
(* broken connection and reconnect.                                       *)
PubEchoOnlyRetained ==
    \A i \in DOMAIN out["pub"] :
        out["pub"][i].sample > 0 => pubRetain /\ out["pub"][i] = retained[out["pub"][i].topic]

(* A sample the publisher reports as published ("Published to ...") while *)
(* the visualizer is subscribed reaches on_message and the deques, unless  *)
(* a connection breaks afterwards or the window is closed first: the      *)
(* broker, both network threads and on_message lose nothing on their own. *)
PublishedIsDisplayed ==
    \A p \in SentPairs :
        [](okAt[p] # NotShown
             ~> \/ \E i \in DOMAIN vizGot : <<vizGot[i].sample, vizGot[i].topic>> = p
                \/ drops > okAt[p]
                \/ vizPc \in {"closing", "done"})

-----------------------------------------------------------------------------
(* Refinement: the publisher's publish loop and the visualizer's complete  *)
(* on_message calls, seen through QoS 0.  sent is every publish attempted, *)
(* in loop order (a failed one is a lost message); delivered is what       *)
(* on_message appended for the publisher (sample > 0), in order.           *)
PubIndex(m) == (m.sample - 1) * Len(PubTopics) + CHOOSE j \in 1..Len(PubTopics) : PubTopics[j] = m.topic

Attempted == (pubI - 1) * Len(PubTopics) + (pubJ - 1)

SentSeq == [k \in 1..Attempted |->
              [topic |-> PubTopics[((k - 1) % Len(PubTopics)) + 1],
               sample |-> (k - 1) \div Len(PubTopics) + 1, time |-> "num"]]

DeliveredSeq == SelectSeq(vizGot, LAMBDA m : m.sample # 0)

Chan == INSTANCE LossyChannel WITH
            Items <- Msgs,
            sent <- SentSeq,
            delivered <- DeliveredSeq,
            next <- IF DeliveredSeq = <<>> THEN 1 ELSE PubIndex(Last(DeliveredSeq)) + 1

(* The visualizer's plot is fed what MQTT QoS 0 promises: the publisher's  *)
(* samples, each at most once and in the order they were published, with   *)
(* losses only.  It rests on one filter per session ("#" in on_connect),   *)
(* the broker keeping one connection's order, and one callback at a time.  *)
DeliveryRefinesChannel == Chan!ChanSpec

=============================================================================
