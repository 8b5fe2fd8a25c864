---------------------------- MODULE MCPreprocess ----------------------------
(***************************************************************************)
(* Livox messages of a few points for Preprocess, one after the other: the    *)
(* points' times are in order and less than OneMs apart, and at most one       *)
(* point of a message is noise (its tag says so).                              *)
(***************************************************************************)
EXTENDS Preprocess

VARIABLE msg

MsgInit == msg = <<>>

\* The first point's time is 0: a message's times are counted from it.
Times == IF msg = <<>> THEN {0} ELSE {msg[Len(msg)].time + d : d \in 0 .. OneMs - 1}

Measure(tag) ==
  /\ Len(msg) < 5
  /\ \E at \in {"p", "q"}, time \in Times :
       msg' = Append(msg, [at |-> at, line |-> 0, tag |-> tag, time |-> time])

Point == Measure(CHOOSE tag \in Returns : TRUE)
Noise == (\A i \in DOMAIN msg : msg[i].tag \in Returns) /\ Measure(2)

MsgNext == Point \/ Noise

MsgSpec == MsgInit /\ [][MsgNext]_msg

-----------------------------------------------------------------------------
\* "give the exact time curvature of each point, from CustomPoint's offset_time"
\* (preprocess.cpp:96-98): every point that is kept carries its own time.
EachPointKeepsItsTime == TimesKept(msg)
=============================================================================
