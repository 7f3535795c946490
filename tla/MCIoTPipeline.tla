--------------------------- MODULE MCIoTPipeline ---------------------------
(* Model values for IoTPipeline: another client of the public broker     *)
(* sends one payload on "data", with a numeric "time" or with one that     *)
(* datetime.fromtimestamp rejects.                                         *)
EXTENDS IoTPipeline

MCGoodForeign == {[topic |-> "data", sample |-> 0, time |-> "num"]}

MCBadForeign == {[topic |-> "data", sample |-> 0, time |-> "bad"]}

=============================================================================
