---------------------------- MODULE LossyChannel ----------------------------
(***************************************************************************)
(* What MQTT QoS 0 promises one publisher and one subscriber: at most once *)
(* delivery, in order.  The receiver gets a subsequence of what was sent:  *)
(* any message may be lost, none is duplicated, none overtakes another.    *)
(***************************************************************************)
EXTENDS Naturals, Sequences

CONSTANT Items        \* the messages

VARIABLES sent,       \* the messages sent so far, in order
          delivered,  \* the messages delivered so far, in order
          next        \* the first index of sent that may still be delivered

chanVars == <<sent, delivered, next>>

ChanInit == sent = <<>> /\ delivered = <<>> /\ next = 1

Send == \E d \in Items : sent' = Append(sent, d) /\ UNCHANGED <<delivered, next>>

\* deliver the k-th message sent; those between next and k are lost
Deliver ==
    \E k \in next..Len(sent) :
        /\ delivered' = Append(delivered, sent[k])
        /\ next' = k + 1
        /\ UNCHANGED sent

ChanSpec == ChanInit /\ [][Send \/ Deliver]_chanVars

=============================================================================
