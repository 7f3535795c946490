---------------------------- MODULE MqttPublisher ----------------------------
(***************************************************************************)
(* lab5-2-iot-sensor-rtos/tools/mqtt_publisher.py: main() on the main      *)
(* thread and the paho network loop started by loop_start().               *)
(*                                                                         *)
(* pubPc is main()'s place: "connect", "publish" (the for loop over the    *)
(* samples and, inside it, over the three topics), "subscribe" (the loop   *)
(* over the four filters), "listen" (the while True: sleep(1) loop that    *)
(* only Ctrl+C ends), "close" (loop_stop and disconnect), "done".          *)
(* A sample's data is the model value of its number; json.dumps is left    *)
(* out, every sample carries a numeric "time".                             *)
(***************************************************************************)
EXTENDS Naturals, Sequences, MqttBroker

CONSTANTS PubModes,   \* the --mode values of the run
          RetainFlags \* the --retain values of the run

\* the topics of one sample, in the order of the list at lines 113-117
PubTopics == <<"temperature", "humidity", "data">>

\* the filters subscribed at lines 130-135
PubFilters == <<"#", "data", "status", "command">>

VARIABLES pubMode,    \* args.mode
          pubRetain,  \* args.retain
          pubPc,      \* main()'s place
          pubI,       \* the sample of the for loop (i + 1)
          pubJ,       \* the index of the topic in the inner loop
          pubK,       \* the index of the filter in the subscribe loop
          pubOk       \* <<sample, topic>> pairs reported "Published to"

pubVars == <<pubMode, pubRetain, pubPc, pubI, pubJ, pubK, pubOk>>

PubInit ==
    /\ pubMode \in PubModes
    /\ pubRetain \in RetainFlags
    /\ pubPc = "connect"
    /\ pubI = 1 /\ pubJ = 1 /\ pubK = 1
    /\ pubOk = {}

\* where main() goes after the publishing loop
AfterPublish == IF pubMode \in {"subscribe", "both"} THEN "subscribe" ELSE "close"

\* client.connect(BROKER, PORT, 60), loop_start(), time.sleep(1).  connect
\* raises when the broker cannot be reached: the except prints the error and
\* finally finds the client not connected.
PubConnect ==
    /\ pubPc = "connect"
    /\ \/ /\ conn' = [conn EXCEPT !["pub"] = TRUE]
          /\ pubPc' = IF pubMode \in {"publish", "both"} THEN "publish" ELSE AfterPublish
       \/ /\ pubPc' = "done"
          /\ UNCHANGED conn
    /\ UNCHANGED <<subs, out, wire, retained, drops, foreignLeft,
                   pubMode, pubRetain, pubI, pubJ, pubK, pubOk>>

\* publish_single_message without the result[0] == 0 test: "Published to"
\* is printed whatever publish returned
PubPublishNoRcCheck ==
    /\ pubPc = "publish"
    /\ LET m == [topic |-> PubTopics[pubJ], sample |-> pubI, time |-> "num"]
       IN  /\ wire' = IF conn["pub"] THEN Append(wire, m) ELSE wire
           /\ pubOk' = pubOk \cup {<<pubI, PubTopics[pubJ]>>}
    /\ IF pubJ < Len(PubTopics)
       THEN /\ pubJ' = pubJ + 1 /\ UNCHANGED <<pubI, pubPc>>
       ELSE /\ pubJ' = 1
            /\ pubI' = pubI + 1
            /\ pubPc' = IF pubI = Count THEN AfterPublish ELSE "publish"
    /\ UNCHANGED <<conn, subs, out, retained, drops, foreignLeft,
                   pubMode, pubRetain, pubK>>

\* One publish_single_message(client, topic, data, qos, retain) of the
\* inner loop.  client.publish returns MQTT_ERR_NO_CONN while the loop
\* thread has no socket (the message is lost and "Failed to publish" is
\* printed); otherwise the PUBLISH is written to the socket and rc is 0.
PubPublish ==
    /\ pubPc = "publish"
    /\ LET m == [topic |-> PubTopics[pubJ], sample |-> pubI, time |-> "num"]
       IN  IF conn["pub"]
           THEN /\ wire' = Append(wire, m)
                /\ pubOk' = pubOk \cup {<<pubI, PubTopics[pubJ]>>}
           ELSE UNCHANGED <<wire, pubOk>>
    /\ IF pubJ < Len(PubTopics)
       THEN /\ pubJ' = pubJ + 1 /\ UNCHANGED <<pubI, pubPc>>
       ELSE /\ pubJ' = 1
            /\ pubI' = pubI + 1
            /\ pubPc' = IF pubI = Count THEN AfterPublish ELSE "publish"
    /\ UNCHANGED <<conn, subs, out, retained, drops, foreignLeft,
                   pubMode, pubRetain, pubK>>

\* subscribe_topic with the SUBSCRIBE taking effect at the broker ahead of
\* PUBLISH packets written before it on the same socket
PubSubscribeUnordered ==
    /\ pubPc = "subscribe"
    /\ IF conn["pub"]
       THEN Subscribe("pub", PubFilters[pubK])
       ELSE UNCHANGED <<subs, out>>
    /\ pubK' = pubK + 1
    /\ pubPc' = IF pubK = Len(PubFilters) THEN "listen" ELSE "subscribe"
    /\ UNCHANGED <<conn, wire, retained, drops, foreignLeft,
                   pubMode, pubRetain, pubI, pubJ, pubOk>>

\* One subscribe_topic(client, topic, qos) of the subscribe loop; like
\* publish, it fails with MQTT_ERR_NO_CONN while there is no socket.
\* The SUBSCRIBE is written to the socket behind the PUBLISH packets of the
\* loop above, and the broker reads a connection's packets in order: the
\* subscription takes effect once those are routed (wire = <<>>).  A
\* break in between loses them all, as PubDrop does.
PubSubscribe ==
    /\ pubPc = "subscribe"
    /\ IF conn["pub"]
       THEN wire = <<>> /\ Subscribe("pub", PubFilters[pubK])
       ELSE UNCHANGED <<subs, out>>
    /\ pubK' = pubK + 1
    /\ pubPc' = IF pubK = Len(PubFilters) THEN "listen" ELSE "subscribe"
    /\ UNCHANGED <<conn, wire, retained, drops, foreignLeft,
                   pubMode, pubRetain, pubI, pubJ, pubOk>>

\* Ctrl+C ends the while True: time.sleep(1) loop.
PubInterrupt ==
    /\ pubPc = "listen"
    /\ pubPc' = "close"
    /\ UNCHANGED <<brokerVars, pubMode, pubRetain, pubI, pubJ, pubK, pubOk>>

\* client.loop_stop(); client.disconnect().  The PUBLISH packets already
\* written reach the broker ahead of DISCONNECT; the finally clause finds
\* the client disconnected.
PubClose ==
    /\ pubPc = "close"
    /\ DropSession("pub")
    /\ pubPc' = "done"
    /\ UNCHANGED <<wire, retained, drops, foreignLeft,
                   pubMode, pubRetain, pubI, pubJ, pubK, pubOk>>

-----------------------------------------------------------------------------
(* The paho network thread, between loop_start() and loop_stop().          *)
LoopRunning == pubPc \in {"publish", "subscribe", "listen", "close"}

\* The connection breaks: the socket is closed, the PUBLISH packets not yet
\* read by the broker are lost, the clean session ends.
PubDrop ==
    /\ LoopRunning /\ conn["pub"] /\ drops < MaxDrops
    /\ DropSession("pub")
    /\ wire' = <<>>
    /\ drops' = drops + 1
    /\ UNCHANGED <<retained, foreignLeft, pubVars>>

\* The loop thread reconnects; on_connect (lines 21-27) only prints.
PubReconnect ==
    /\ LoopRunning /\ ~conn["pub"]
    /\ conn' = [conn EXCEPT !["pub"] = TRUE]
    /\ UNCHANGED <<subs, out, wire, retained, drops, foreignLeft, pubVars>>

\* on_message (lines 33-35) prints the message it is handed.
PubOnMessage ==
    /\ LoopRunning /\ conn["pub"] /\ out["pub"] # <<>>
    /\ out' = [out EXCEPT !["pub"] = Tail(@)]
    /\ UNCHANGED <<conn, subs, wire, retained, drops, foreignLeft, pubVars>>

=============================================================================
