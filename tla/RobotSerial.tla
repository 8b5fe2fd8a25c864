---------------------------- MODULE RobotSerial ----------------------------
(***************************************************************************)
(* The robot_serial node: the link to the C board with its watchdog.       *)
(*                                                                         *)
(* Two threads share plain (not atomic, not locked) members: the read      *)
(* thread runs the frame callbacks, the executor thread runs the watchdog  *)
(* timer and the topic callbacks.  Each load and each store of a shared    *)
(* member is a step of its own.  When the watchdog bites or a read fails   *)
(* the process terminates and the launch file starts it again.             *)
(***************************************************************************)
EXTENDS Naturals, Sequences

CONSTANTS
  Threshold,    (* dog_threshold_                                          *)
  MaxSamples,   (* bound on the positions the C board reports              *)
  MaxCommands,  (* bound on the navigation commands published              *)
  QueueDepth    (* KEEP_LAST depth of the navigation command subscription  *)

ASSUME SerialAssumption ==
  /\ Threshold \in Nat
  /\ MaxSamples \in Nat
  /\ MaxCommands \in Nat
  /\ QueueDepth \in Nat \ {0}

Record == 1
GoTo == 2

VARIABLES
  up,         (* "running", or how the process ended                       *)
  dog,        (* dog_cnt_                                                  *)
  posX, posY, (* current_robot_x_, _y_: the number of the position report  *)
              (* the coordinate came with; 0 before the first one          *)
  recX, recY, (* recorded_position_x_, _y_                                 *)
  reader,     (* where the read thread is                                  *)
  exec,       (* where the executor thread is                              *)
  loaded,     (* the value dog_cnt_++ loaded                               *)
  queue,      (* navigation commands waiting for the executor              *)
  sample,     (* position reports received                                 *)
  sent,       (* navigation commands published on the topic                *)
  selfPos,    (* the last message on /SelfPosition                         *)
  quiet       (* watchdog periods begun since a callback last reset dog    *)

process == <<dog, posX, posY, recX, recY, reader, exec, loaded, quiet>>
vars == <<up, process, queue, sample, sent, selfPos>>

(* The constructor has run and has just started the read thread.           *)
Init ==
  /\ up = "running"
  /\ dog = 0 /\ loaded = 0 /\ quiet = 0
  /\ posX = 0 /\ posY = 0 /\ recX = 0 /\ recY = 0
  /\ reader = "idle" /\ exec = "idle"
  /\ queue = <<>> /\ sample = 0 /\ sent = 0 /\ selfPos = <<0, 0>>

-----------------------------------------------------------------------------
(* The read thread.                                                        *)

ResetDog == dog' = 0 /\ quiet' = 0

(* A 0x0606 frame.                                                         *)
StateFrame ==
  /\ up = "running" /\ reader = "idle"
  /\ ResetDog
  /\ UNCHANGED <<up, posX, posY, recX, recY, reader, exec, loaded, queue, sample, sent, selfPos>>

(* A 0x0607 frame: publish it, store x, store y, reset the watchdog.       *)
PositionFrame ==
  /\ up = "running" /\ reader = "idle" /\ sample < MaxSamples
  /\ sample' = sample + 1
  /\ reader' = "x"
  /\ UNCHANGED <<up, dog, posX, posY, recX, recY, exec, loaded, quiet, queue, sent, selfPos>>

StoreX ==
  /\ up = "running" /\ reader = "x"
  /\ posX' = sample
  /\ reader' = "y"
  /\ UNCHANGED <<up, dog, posY, recX, recY, exec, loaded, quiet, queue, sample, sent, selfPos>>

(* Variant: y is stored from the report before.                            *)
StoreYStale ==
  /\ up = "running" /\ reader = "y"
  /\ reader' = "dog"
  /\ UNCHANGED <<up, dog, posX, posY, recX, recY, exec, loaded, quiet, queue, sample, sent, selfPos>>

StoreY ==
  /\ up = "running" /\ reader = "y"
  /\ posY' = sample
  /\ reader' = "dog"
  /\ UNCHANGED <<up, dog, posX, recX, recY, exec, loaded, quiet, queue, sample, sent, selfPos>>

PositionReset ==
  /\ up = "running" /\ reader = "dog"
  /\ ResetDog
  /\ reader' = "idle"
  /\ UNCHANGED <<up, posX, posY, recX, recY, exec, loaded, queue, sample, sent, selfPos>>

Terminate(cause) ==
  /\ up' = cause
  /\ queue' = <<>>

(* readBytes fails: the exception leaves the read thread.                  *)
ReadError ==
  /\ up = "running" /\ reader = "idle"
  /\ Terminate("readError")
  /\ UNCHANGED <<process, sample, sent, selfPos>>

-----------------------------------------------------------------------------
(* The executor thread.                                                    *)

(* The timer fires: the load of dog_cnt_++.                                *)
TimerLoad ==
  /\ up = "running" /\ exec = "idle"
  /\ loaded' = dog
  /\ quiet' = quiet + 1
  /\ exec' = "timer"
  /\ UNCHANGED <<up, dog, posX, posY, recX, recY, reader, queue, sample, sent, selfPos>>

(* Its store.  The comparison that follows uses the value just computed or *)
(* loads the member again.                                                 *)
TimerStore ==
  /\ up = "running" /\ exec = "timer"
  /\ dog' = loaded + 1
  /\ exec' = "check"
  /\ UNCHANGED <<up, posX, posY, recX, recY, reader, loaded, quiet, queue, sample, sent, selfPos>>

(* Variant: the watchdog waits one period more.                            *)
TimerCheckLate ==
  /\ up = "running" /\ exec = "check"
  /\ \/ dog > Threshold + 1 /\ Terminate("watchdog") /\ UNCHANGED exec
     \/ dog <= Threshold + 1 /\ exec' = "idle" /\ UNCHANGED <<up, queue>>
  /\ UNCHANGED <<dog, posX, posY, recX, recY, reader, loaded, quiet, sample, sent, selfPos>>

(* The comparison with dog_threshold_ and the bare throw.                  *)
TimerCheck ==
  /\ up = "running" /\ exec = "check"
  /\ \E value \in {loaded + 1, dog} :
       \/ /\ value > Threshold
          /\ Terminate("watchdog")
          /\ UNCHANGED exec
       \/ /\ value <= Threshold
          /\ exec' = "idle"
          /\ UNCHANGED <<up, queue>>
  /\ UNCHANGED <<dog, posX, posY, recX, recY, reader, loaded, quiet, sample, sent, selfPos>>

(* Somebody publishes a command; a full queue gives up its oldest.         *)
PublishCommand(c) ==
  /\ sent < MaxCommands
  /\ sent' = sent + 1
  /\ queue' = IF up # "running" THEN <<>>
              ELSE Append(IF Len(queue) = QueueDepth THEN Tail(queue) ELSE queue, c)
  /\ UNCHANGED <<up, process, sample, selfPos>>

(* navigationCommandCallback: record x, then y ...                         *)
RecordX ==
  /\ up = "running" /\ exec = "idle" /\ queue # <<>> /\ Head(queue) = Record
  /\ queue' = Tail(queue)
  /\ recX' = posX
  /\ exec' = "record"
  /\ UNCHANGED <<up, dog, posX, posY, recY, reader, loaded, quiet, sample, sent, selfPos>>

RecordY ==
  /\ up = "running" /\ exec = "record"
  /\ recY' = posY
  /\ exec' = "idle"
  /\ UNCHANGED <<up, dog, posX, posY, recX, reader, loaded, quiet, queue, sample, sent, selfPos>>

(* ... or publish what was recorded, whether anything was or not.          *)
PublishRecorded ==
  /\ up = "running" /\ exec = "idle" /\ queue # <<>> /\ Head(queue) = GoTo
  /\ queue' = Tail(queue)
  /\ selfPos' = <<recX, recY>>
  /\ UNCHANGED <<up, process, sample, sent>>

(* Variant: nothing starts the process again.                              *)
NoRespawn == up # "running" /\ up' = up /\ FALSE

(* respawn=True of serial.launch.py.  A process that cannot open the port  *)
(* (serial_pro.h:52) ends before it does anything else and is started      *)
(* again: a stutter.                                                       *)
Respawn ==
  /\ up # "running"
  /\ up' = "running"
  /\ dog' = 0 /\ loaded' = 0 /\ quiet' = 0
  /\ posX' = 0 /\ posY' = 0 /\ recX' = 0 /\ recY' = 0
  /\ reader' = "idle" /\ exec' = "idle"
  /\ UNCHANGED <<queue, sample, sent, selfPos>>

-----------------------------------------------------------------------------
Reader == StateFrame \/ PositionFrame \/ StoreX \/ StoreY \/ PositionReset \/ ReadError

Timer == TimerLoad \/ TimerStore \/ TimerCheck

Commands == RecordX \/ RecordY \/ PublishRecorded

Next ==
  \/ Reader \/ Timer \/ Commands \/ Respawn
  \/ \E c \in {Record, GoTo} : PublishCommand(c)

Spec == Init /\ [][Next]_vars

(* The timer is due again and again, the executor finishes a callback it   *)
(* began, and the launch system starts a process that died until one finds *)
(* the port.                                                               *)
FairSpec == Spec /\ WF_vars(Timer) /\ WF_vars(RecordY) /\ WF_vars(Respawn)

-----------------------------------------------------------------------------
TypeOK ==
  /\ up \in {"running", "watchdog", "readError"}
  /\ dog \in Nat /\ loaded \in Nat /\ quiet \in Nat
  /\ sample \in Nat /\ sent \in Nat
  /\ posX \in 0 .. sample /\ posY \in 0 .. sample
  /\ recX \in 0 .. sample /\ recY \in 0 .. sample
  /\ reader \in {"idle", "x", "y", "dog"}
  /\ exec \in {"idle", "timer", "check", "record"}
  /\ queue \in Seq({Record, GoTo}) /\ Len(queue) <= QueueDepth
  /\ selfPos \in (0 .. sample) \X (0 .. sample)

(* The watchdog never overlooks a silence: however its increment and the   *)
(* resets interleave, a process that gets on with its work has begun at    *)
(* most Threshold periods since the last frame.                            *)
SilenceDetected ==
  up = "running" /\ exec \in {"idle", "record"} => quiet <= Threshold

(* A new position is not mixed with an old one once its callback is over,  *)
(* and while it runs the two coordinates are one report apart.             *)
PositionWhole ==
  up = "running" =>
    IF reader = "y" THEN posX = sample /\ posY < sample
    ELSE posX = posY

(* A silence ends: with data from the C board or with a new process.       *)
SilenceEnds == quiet > 0 ~> quiet = 0

(* What the watchdog logs before it terminates the process: no data came   *)
(* from the C board for a long time, that is for Threshold periods.        *)
BitesOnlyAfterSilence ==
  [][up = "running" /\ up' = "watchdog" => quiet > Threshold]_vars

(* What the record branch says it does: record the current position.  A    *)
(* recorded position is one the robot was at.                              *)
RecordedIsAPosition == exec = "idle" => recX = recY
=============================================================================
