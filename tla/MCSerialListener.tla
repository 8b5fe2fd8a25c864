-------------------------- MODULE MCSerialListener --------------------------
(***************************************************************************)
(* A small instance of SerialListener: four frames of different lengths, a *)
(* payload that looks like a head, and a line that loses or garbles up to  *)
(* two bytes anywhere, or one burst of bytes.                              *)
(***************************************************************************)
EXTENDS SerialListener, TLC

(* Frames of 9, 5, 6 and 5 bytes.  Byte 4, the payload of the first, looks *)
(* like a head that announces 12 bytes, into the third; the second has a   *)
(* cmd_id that nothing was registered for.                                 *)
MCStream ==
  [len |-> (1 :> 5) @@ (4 :> 8) @@ (10 :> 1) @@ (15 :> 2) @@ (21 :> 1),
   frames |-> {1, 10, 15, 21}, handled |-> {1, 15, 21}, end |-> 25]

MCStreamLen == MCStream.end
MCHeadLen == MCStream.len
MCFrames == MCStream.frames
MCHandled == MCStream.handled

(* What arrives when the bytes of L are lost and those of G are garbled.   *)
Lost == -1

Arriving(L, G) ==
  SelectSeq([b \in 1 .. MCStreamLen |->
               IF b \in L THEN Lost ELSE IF b \in G THEN Noise ELSE b],
            LAMBDA b : b # Lost)

(* At most two faults anywhere.                                            *)
FaultSets == {{}} \union {{a, b} : a, b \in 1 .. MCStreamLen}

Bursts == {a .. b : a, b \in 1 .. MCStreamLen} \ {{}}

MCLines ==
  UNION {{Arriving(L, F \ L) : L \in SUBSET F} : F \in FaultSets}
    \union {Arriving(F, {}) : F \in Bursts}
    \union {Arriving({}, F) : F \in Bursts}
=============================================================================
