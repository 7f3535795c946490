--------------------------- MODULE DataVisualizer ---------------------------
(***************************************************************************)
(* lab5-2-iot-sensor-rtos/tools/data_visualizer.py: three threads share    *)
(* the module-level data_buffer of three deque(maxlen=100).                *)
(*  - main(): connect, loop_start(), plt.show() until the window is        *)
(*    closed, then the finally clause (loop_stop, disconnect, save).       *)
(*  - the paho network thread: reconnects, on_connect (subscribes "#"),    *)
(*    on_message (three appends, one after another).                       *)
(*  - the GUI thread: FuncAnimation calls update_plot every second while   *)
(*    the window is open; it reads each deque's length and its contents in *)
(*    two separate steps.                                                  *)
(* Python switches threads between bytecodes, so every append and every    *)
(* read of a deque that a check depends on is a step of its own.  A deque  *)
(* entry is the number of the sample it came from.                         *)
(***************************************************************************)
EXTENDS Naturals, Sequences, MqttBroker

CONSTANTS BufferLen,  \* deque maxlen (100 in the code)
          SaveFlags   \* the --save values of the run

Buffers == <<"temperature", "humidity", "timestamps">>

VARIABLES vizSave,    \* args.save
          vizPc,      \* main(): "init", "show", "closing", "done"
          vizLoop,    \* the network thread runs (loop_start .. loop_stop)
          vizNeedSub, \* CONNACK arrived, on_connect not yet run
          vizThread,  \* on_message: "idle" or the deque it appends to next
          vizMsg,     \* the message on_message is handling
          buffer,     \* data_buffer
          vizGot,     \* messages on_message appended completely, in order
          plotStep,   \* update_plot: 0 between frames, else its next read
          plotX,      \* the length update_plot read
          plotBad,    \* some update_plot passed data of unequal lengths
          saved       \* the buffers written by --save, or <<>>

vizVars == <<vizSave, vizPc, vizLoop, vizNeedSub, vizThread, vizMsg, buffer,
             vizGot, plotStep, plotX, plotBad, saved>>

VizInit ==
    /\ vizSave \in SaveFlags
    /\ vizPc = "init" /\ vizLoop = FALSE /\ vizNeedSub = FALSE
    /\ vizThread = "idle" /\ vizMsg = NoMsg
    /\ buffer = [b \in {"temperature", "humidity", "timestamps"} |-> <<>>]
    /\ vizGot = <<>>
    /\ plotStep = 0 /\ plotX = 0 /\ plotBad = FALSE
    /\ saved = <<>>

\* a deque created without maxlen
DequeAppendNoLimit(d, x) == Append(d, x)

\* deque.append with maxlen: the oldest entry falls out of a full deque
DequeAppend(d, x) == IF Len(d) = BufferLen THEN Append(Tail(d), x) ELSE Append(d, x)

\* client.connect(args.broker, args.port, 60); loop_start(); plt.show().
\* A connect that raises goes to the except and the finally clause.
VizConnect ==
    /\ vizPc = "init"
    /\ \/ /\ conn' = [conn EXCEPT !["viz"] = TRUE]
          /\ vizLoop' = TRUE /\ vizNeedSub' = TRUE
          /\ vizPc' = "show"
       \/ /\ vizPc' = "closing"
          /\ UNCHANGED <<conn, vizLoop, vizNeedSub>>
    /\ UNCHANGED <<subs, out, wire, retained, drops, foreignLeft, vizSave, vizThread,
                   vizMsg, buffer, vizGot, plotStep, plotX, plotBad, saved>>

\* on_connect subscribing args.topic (-t lab/iot/sensor/data) as well as
\* TOPIC: the session holds two filters that match the same messages
VizOnConnectTwice ==
    /\ vizLoop /\ conn["viz"] /\ vizNeedSub /\ vizThread = "idle"
    /\ subs' = [subs EXCEPT !["viz"] = @ \cup {"#", "data"}]
    /\ vizNeedSub' = FALSE
    /\ UNCHANGED <<conn, out, wire, retained, drops, foreignLeft, vizSave, vizPc, vizLoop,
                   vizThread, vizMsg, buffer, vizGot, plotStep, plotX, plotBad, saved>>

\* on_connect with rc == 0: client.subscribe(TOPIC), TOPIC = "lab/iot/sensor/#"
\* (args.topic is parsed but not used).  Callbacks run one at a time.
VizOnConnect ==
    /\ vizLoop /\ conn["viz"] /\ vizNeedSub /\ vizThread = "idle"
    /\ Subscribe("viz", "#")
    /\ vizNeedSub' = FALSE
    /\ UNCHANGED <<conn, wire, retained, drops, foreignLeft, vizSave, vizPc, vizLoop,
                   vizThread, vizMsg, buffer, vizGot, plotStep, plotX, plotBad, saved>>

\* The connection breaks; the clean session ends.
VizDrop ==
    /\ vizLoop /\ conn["viz"] /\ drops < MaxDrops
    /\ DropSession("viz")
    /\ drops' = drops + 1
    /\ vizNeedSub' = FALSE
    /\ UNCHANGED <<wire, retained, foreignLeft, vizSave, vizPc, vizLoop, vizThread,
                   vizMsg, buffer, vizGot, plotStep, plotX, plotBad, saved>>

\* a reconnect after which on_connect is not run again (the subscription
\* made once, as mqtt_publisher.py does)
VizReconnectNoResubscribe ==
    /\ vizLoop /\ ~conn["viz"]
    /\ conn' = [conn EXCEPT !["viz"] = TRUE]
    /\ vizNeedSub' = FALSE
    /\ UNCHANGED <<subs, out, wire, retained, drops, foreignLeft, vizSave, vizPc, vizLoop,
                   vizThread, vizMsg, buffer, vizGot, plotStep, plotX, plotBad, saved>>

\* The network thread reconnects; CONNACK will run on_connect again.
VizReconnect ==
    /\ vizLoop /\ ~conn["viz"]
    /\ conn' = [conn EXCEPT !["viz"] = TRUE]
    /\ vizNeedSub' = TRUE
    /\ UNCHANGED <<subs, out, wire, retained, drops, foreignLeft, vizSave, vizPc, vizLoop,
                   vizThread, vizMsg, buffer, vizGot, plotStep, plotX, plotBad, saved>>

-----------------------------------------------------------------------------
(* on_message, lines 59-81: json.loads, then                               *)
(*   data_buffer['temperature'].append(temp)                                *)
(*   data_buffer['humidity'].append(humi)                                   *)
(*   data_buffer['timestamps'].append(datetime.fromtimestamp(timestamp)...) *)
(* fromtimestamp raises for a "time" that is not a number of range; the    *)
(* except clause prints the error after the first two appends were made.   *)
VizTake ==
    /\ vizLoop /\ vizThread = "idle" /\ out["viz"] # <<>>
    /\ vizMsg' = Head(out["viz"])
    /\ out' = [out EXCEPT !["viz"] = Tail(@)]
    /\ vizThread' = "temperature"
    /\ UNCHANGED <<conn, subs, wire, retained, drops, foreignLeft, vizSave, vizPc, vizLoop,
                   vizNeedSub, buffer, vizGot, plotStep, plotX, plotBad, saved>>

VizAppend ==
    /\ vizThread \in {"temperature", "humidity"}
    /\ buffer' = [buffer EXCEPT ![vizThread] = DequeAppend(@, vizMsg.sample)]
    /\ vizThread' = IF vizThread = "temperature" THEN "humidity" ELSE "timestamps"
    /\ UNCHANGED <<brokerVars, vizSave, vizPc, vizLoop, vizNeedSub, vizMsg, vizGot,
                   plotStep, plotX, plotBad, saved>>

VizAppendTimestamp ==
    /\ vizThread = "timestamps"
    /\ IF vizMsg.time = "num"
       THEN /\ buffer' = [buffer EXCEPT !["timestamps"] = DequeAppend(@, vizMsg.sample)]
            /\ vizGot' = Append(vizGot, vizMsg)
       ELSE UNCHANGED <<buffer, vizGot>>
    /\ vizThread' = "idle"
    /\ UNCHANGED <<brokerVars, vizSave, vizPc, vizLoop, vizNeedSub, vizMsg,
                   plotStep, plotX, plotBad, saved>>

-----------------------------------------------------------------------------
(* update_plot, lines 83-116, on the GUI thread while the window is open:  *)
(* temp_line.set_data(range(len(temperature)), list(temperature)), the     *)
(* same for humidity, then set_xticks(range(len(timestamps))) and          *)
(* set_xticklabels(timestamps).  For each deque its length is read, then   *)
(* its contents.  A frame with no timestamps does nothing.  plotStep 1..3  *)
(* is the read of the contents of Buffers[plotStep] still to come; the     *)
(* contents of one deque and the length of the next are read in one step,  *)
(* as they touch different deques and no check relates them.               *)
PlotStart ==
    /\ vizPc = "show" /\ plotStep = 0 /\ buffer["timestamps"] # <<>>
    /\ plotX' = Len(buffer["temperature"])
    /\ plotStep' = 1
    /\ UNCHANGED <<brokerVars, vizSave, vizPc, vizLoop, vizNeedSub, vizThread, vizMsg,
                   buffer, vizGot, plotBad, saved>>

PlotRead ==
    /\ plotStep \in 1..3
    /\ plotBad' = (plotBad \/ plotX # Len(buffer[Buffers[plotStep]]))
    /\ plotX' = IF plotStep = 3 THEN 0 ELSE Len(buffer[Buffers[plotStep + 1]])
    /\ plotStep' = IF plotStep = 3 THEN 0 ELSE plotStep + 1
    /\ UNCHANGED <<brokerVars, vizSave, vizPc, vizLoop, vizNeedSub, vizThread, vizMsg,
                   buffer, vizGot, saved>>

\* The user closes the window: plt.show() returns between two frames.
VizWindowClosed ==
    /\ vizPc = "show" /\ plotStep = 0
    /\ vizPc' = "closing"
    /\ UNCHANGED <<brokerVars, vizSave, vizLoop, vizNeedSub, vizThread, vizMsg,
                   buffer, vizGot, plotStep, plotX, plotBad, saved>>

\* finally: loop_stop() joins the network thread after its callback,
\* disconnect(), and with --save and some timestamps json.dump of the
\* three deques.
VizFinally ==
    /\ vizPc = "closing" /\ vizThread = "idle"
    /\ DropSession("viz")
    /\ vizLoop' = FALSE /\ vizNeedSub' = FALSE
    /\ saved' = IF vizSave /\ buffer["timestamps"] # <<>> THEN buffer ELSE saved
    /\ vizPc' = "done"
    /\ UNCHANGED <<wire, retained, drops, foreignLeft, vizSave, vizThread, vizMsg,
                   buffer, vizGot, plotStep, plotX, plotBad>>

=============================================================================
