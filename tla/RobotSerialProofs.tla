------------------------- MODULE RobotSerialProofs --------------------------
(***************************************************************************)
(* Theorems about RobotSerial, for every watchdog threshold, queue depth   *)
(* and number of frames and commands.                                      *)
(***************************************************************************)
EXTENDS RobotSerial, TLAPS

(* What the queue of a KEEP_LAST subscription holds after a command.       *)
LEMMA QueueBounded ==
  ASSUME NEW q \in Seq({Record, GoTo}), Len(q) <= QueueDepth, NEW c \in {Record, GoTo}
  PROVE  LET kept == Append(IF Len(q) = QueueDepth THEN Tail(q) ELSE q, c)
         IN kept \in Seq({Record, GoTo}) /\ Len(kept) <= QueueDepth
<1> DEFINE rest == IF Len(q) = QueueDepth THEN Tail(q) ELSE q
<1>1. Len(q) \in Nat /\ QueueDepth \in Nat \ {0}
  BY SerialAssumption
<1>2. rest \in Seq({Record, GoTo}) /\ Len(rest) < QueueDepth
  <2>1. CASE Len(q) = QueueDepth
    <3>1. q # <<>>
      BY <1>1, <2>1
    <3>2. Tail(q) \in Seq({Record, GoTo}) /\ Len(Tail(q)) = Len(q) - 1
      BY <3>1
    <3> QED BY <1>1, <2>1, <3>2
  <2>2. CASE Len(q) # QueueDepth
    BY <1>1, <2>2
  <2> QED BY <2>1, <2>2
<1>3. Append(rest, c) \in Seq({Record, GoTo}) /\ Len(Append(rest, c)) = Len(rest) + 1
  BY <1>2
<1> QED BY <1>1, <1>2, <1>3

LEMMA QueueTail ==
  ASSUME NEW q \in Seq({Record, GoTo}), Len(q) <= QueueDepth, q # <<>>
  PROVE  Tail(q) \in Seq({Record, GoTo}) /\ Len(Tail(q)) <= QueueDepth
<1>1. Tail(q) \in Seq({Record, GoTo}) /\ Len(Tail(q)) = Len(q) - 1 /\ Len(q) \in Nat
  OBVIOUS
<1> QED BY <1>1, SerialAssumption

(* The types that do not concern the queue or the positions.               *)
ScalarsOK ==
  /\ up \in {"running", "watchdog", "readError"}
  /\ dog \in Nat /\ loaded \in Nat /\ quiet \in Nat
  /\ sample \in Nat /\ sent \in Nat
  /\ reader \in {"idle", "x", "y", "dog"}
  /\ exec \in {"idle", "timer", "check", "record"}

PositionsOK ==
  /\ posX \in 0 .. sample /\ posY \in 0 .. sample
  /\ recX \in 0 .. sample /\ recY \in 0 .. sample
  /\ selfPos \in (0 .. sample) \X (0 .. sample)

QueueOK == queue \in Seq({Record, GoTo}) /\ Len(queue) <= QueueDepth

LEMMA ScalarsStep ==
  ASSUME ScalarsOK, [Next]_vars
  PROVE  ScalarsOK'
<1> USE DEF ScalarsOK
<1>1. CASE Reader
  BY <1>1 DEF Reader, StateFrame, PositionFrame, StoreX, StoreY, PositionReset,
       ReadError, Terminate, ResetDog, process
<1>2. CASE Timer
  BY <1>2 DEF Timer, TimerLoad, TimerStore, TimerCheck, Terminate
<1>3. CASE Commands
  BY <1>3 DEF Commands, RecordX, RecordY, PublishRecorded, process
<1>4. CASE Respawn
  BY <1>4 DEF Respawn
<1>5. ASSUME NEW c \in {Record, GoTo}, PublishCommand(c) PROVE ScalarsOK'
  BY <1>5 DEF PublishCommand, process
<1>6. CASE UNCHANGED vars
  BY <1>6 DEF vars, process
<1> QED BY <1>1, <1>2, <1>3, <1>4, <1>5, <1>6 DEF Next

LEMMA PositionsStep ==
  ASSUME ScalarsOK, PositionsOK, [Next]_vars
  PROVE  PositionsOK'
<1>0. sample \in Nat
  BY DEF ScalarsOK
<1> USE DEF PositionsOK
<1>1. CASE StoreX \/ StoreY
  BY <1>0, <1>1 DEF StoreX, StoreY
<1>2. CASE PositionFrame
  <2>1. sample' = sample + 1 /\ UNCHANGED <<posX, posY, recX, recY, selfPos>>
    BY <1>2 DEF PositionFrame
  <2>2. 0 .. sample \subseteq 0 .. sample'
    BY <1>0, <2>1
  <2> QED BY <2>1, <2>2
<1>3. CASE RecordX \/ RecordY \/ PublishRecorded
  BY <1>3 DEF RecordX, RecordY, PublishRecorded, process
<1>4. CASE Respawn
  BY <1>0, <1>4 DEF Respawn
<1>5. CASE UNCHANGED <<posX, posY, recX, recY, selfPos, sample>>
  BY <1>5
<1>6. ASSUME NEW c \in {Record, GoTo}, PublishCommand(c)
      PROVE  UNCHANGED <<posX, posY, recX, recY, selfPos, sample>>
  BY <1>6 DEF PublishCommand, process
<1>7. CASE StateFrame \/ PositionReset \/ ReadError \/ Timer \/ UNCHANGED vars
  <2>1. UNCHANGED <<posX, posY, recX, recY, selfPos, sample>>
    BY <1>7 DEF StateFrame, PositionReset, ReadError, Timer, TimerLoad, TimerStore,
                TimerCheck, vars, process
  <2> QED BY <1>5, <2>1
<1> QED BY <1>1, <1>2, <1>3, <1>4, <1>5, <1>6, <1>7 DEF Next, Reader, Commands

LEMMA QueueStep ==
  ASSUME QueueOK, [Next]_vars
  PROVE  QueueOK'
<1>0. <<>> \in Seq({Record, GoTo}) /\ Len(<<>>) <= QueueDepth
  BY SerialAssumption
<1>1. CASE queue' = queue \/ queue' = <<>>
  BY <1>0, <1>1 DEF QueueOK
<1>2. CASE queue # <<>> /\ queue' = Tail(queue)
  BY <1>2, QueueTail DEF QueueOK
<1>3. ASSUME NEW c \in {Record, GoTo}, PublishCommand(c) PROVE QueueOK'
  <2>1. \/ queue' = <<>>
        \/ queue' = Append(IF Len(queue) = QueueDepth THEN Tail(queue) ELSE queue, c)
    BY <1>3 DEF PublishCommand
  <2> QED BY <1>0, <2>1, QueueBounded DEF QueueOK
<1>4. CASE Reader \/ Timer \/ Respawn \/ UNCHANGED vars
  BY <1>1, <1>4 DEF Reader, StateFrame, PositionFrame, StoreX, StoreY, PositionReset,
       ReadError, Terminate, Timer, TimerLoad, TimerStore, TimerCheck, Respawn, vars
<1>5. CASE Commands
  BY <1>1, <1>2, <1>5 DEF Commands, RecordX, RecordY, PublishRecorded
<1> QED BY <1>3, <1>4, <1>5 DEF Next

(* Every reachable state has its types; the command queue never outgrows   *)
(* its depth.                                                              *)
THEOREM TypeCorrect == Spec => []TypeOK
<1>1. Init => ScalarsOK /\ PositionsOK /\ QueueOK
  BY SerialAssumption DEF Init, ScalarsOK, PositionsOK, QueueOK
<1>2. /\ ScalarsOK /\ PositionsOK /\ QueueOK /\ [Next]_vars
      => ScalarsOK' /\ PositionsOK' /\ QueueOK'
  BY ScalarsStep, PositionsStep, QueueStep
<1>3. ScalarsOK /\ PositionsOK /\ QueueOK <=> TypeOK
  BY Zenon DEF ScalarsOK, PositionsOK, QueueOK, TypeOK
<1> QED BY <1>1, <1>2, <1>3, PTL DEF Spec

-----------------------------------------------------------------------------
(* The counter is never behind the silence: a reset that falls between the *)
(* load and the store of the timer is overwritten with a larger value.     *)
CountsSilence ==
  up = "running" =>
    /\ exec # "timer" => dog >= quiet
    /\ exec \in {"timer", "check"} => loaded + 1 >= quiet
    /\ exec \in {"idle", "record"} => quiet <= Threshold

LEMMA CountStep ==
  ASSUME TypeOK, CountsSilence, [Next]_vars
  PROVE  CountsSilence'
<1>0. dog \in Nat /\ loaded \in Nat /\ quiet \in Nat /\ Threshold \in Nat
  BY SerialAssumption DEF TypeOK
<1>1. CASE Reader
  BY <1>0, <1>1 DEF CountsSilence, Reader, StateFrame, PositionFrame, StoreX, StoreY,
       PositionReset, ReadError, Terminate, ResetDog, process
<1>2. CASE TimerLoad
  BY <1>0, <1>2 DEF CountsSilence, TimerLoad
<1>3. CASE TimerStore
  BY <1>0, <1>3 DEF CountsSilence, TimerStore
<1>4. CASE TimerCheck
  BY <1>0, <1>4 DEF CountsSilence, TimerCheck, Terminate
<1>5. CASE Commands
  BY <1>0, <1>5 DEF CountsSilence, Commands, RecordX, RecordY, PublishRecorded, process
<1>6. CASE Respawn
  BY <1>0, <1>6 DEF CountsSilence, Respawn
<1>7. ASSUME NEW c \in {Record, GoTo}, PublishCommand(c) PROVE CountsSilence'
  BY <1>7 DEF CountsSilence, PublishCommand, process
<1>8. CASE UNCHANGED vars
  BY <1>8 DEF CountsSilence, vars, process
<1> QED BY <1>1, <1>2, <1>3, <1>4, <1>5, <1>6, <1>7, <1>8 DEF Next, Timer

(* The watchdog overlooks no silence, however the unsynchronised resets    *)
(* and the increment interleave.                                           *)
THEOREM SilenceIsDetected == Spec => []SilenceDetected
<1>1. Init => CountsSilence
  BY SerialAssumption DEF Init, CountsSilence
<1>2. TypeOK /\ CountsSilence /\ [Next]_vars => CountsSilence'
  BY CountStep
<1>3. CountsSilence => SilenceDetected
  BY DEF CountsSilence, SilenceDetected
<1> QED BY <1>1, <1>2, <1>3, TypeCorrect, PTL DEF Spec

-----------------------------------------------------------------------------
(* Before its first store a report is newer than both coordinates.         *)
ReportNewer == up = "running" /\ reader = "x" => posX < sample

LEMMA PositionStep ==
  ASSUME TypeOK, PositionWhole, ReportNewer, [Next]_vars
  PROVE  PositionWhole' /\ ReportNewer'
<1>0. sample \in Nat /\ posX \in 0 .. sample /\ posY \in 0 .. sample
  BY DEF TypeOK
<1> USE DEF PositionWhole, ReportNewer
<1>1. CASE Reader
  BY <1>0, <1>1 DEF Reader, StateFrame, PositionFrame, StoreX, StoreY, PositionReset,
       ReadError, Terminate, process
<1>2. CASE Timer
  BY <1>2 DEF Timer, TimerLoad, TimerStore, TimerCheck, Terminate
<1>3. CASE Commands
  BY <1>3 DEF Commands, RecordX, RecordY, PublishRecorded, process
<1>4. CASE Respawn
  BY <1>4 DEF Respawn
<1>5. ASSUME NEW c \in {Record, GoTo}, PublishCommand(c)
      PROVE  PositionWhole' /\ ReportNewer'
  BY <1>5 DEF PublishCommand, process
<1>6. CASE UNCHANGED vars
  BY <1>6 DEF vars, process
<1> QED BY <1>1, <1>2, <1>3, <1>4, <1>5, <1>6 DEF Next

(* Outside the two stores of the 0x0607 callback the position is one the   *)
(* C board reported.                                                       *)
THEOREM PositionIsWhole == Spec => []PositionWhole
<1>1. Init => PositionWhole /\ ReportNewer
  BY DEF Init, PositionWhole, ReportNewer
<1>2. TypeOK /\ PositionWhole /\ ReportNewer /\ [Next]_vars
      => PositionWhole' /\ ReportNewer'
  BY PositionStep
<1> QED BY <1>1, <1>2, TypeCorrect, PTL DEF Spec
=============================================================================
