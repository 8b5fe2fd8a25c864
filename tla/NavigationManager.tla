------------------------- MODULE NavigationManager -------------------------
(***************************************************************************)
(* The navigation_manager node: it turns the commands of the lower board   *)
(* into NavigateToPose goals.                                              *)
(*                                                                         *)
(* One executor thread takes the commands from a queue and fires the       *)
(* 100 ms timer that looks the robot's position up.  Sending a goal waits  *)
(* up to five seconds for the action server with that thread blocked.      *)
(* Positions are numbered in the order the robot passes them, so that the  *)
(* number also tells how old a stored position is; 0 is the origin, the    *)
(* value the members start with.                                           *)
(***************************************************************************)
EXTENDS Naturals, Sequences, SequencesExt

CONSTANTS
  MaxCommands,  (* bound on the commands published                         *)
  MaxMoves,     (* bound on the transforms that arrive                     *)
  QueueDepth    (* KEEP_LAST depth of the command subscription             *)

ASSUME ManagerAssumption ==
  /\ MaxCommands \in Nat
  /\ MaxMoves \in Nat
  /\ QueueDepth \in Nat \ {0}

(* The values of NavigationCommand.command.                                *)
Record == 1
GoToRecorded == 2
GoToTarget == 3
Commands == {Record, GoToRecorded, GoToTarget}

Origin == 0
Target == MaxMoves + 1  (* the target point, which no transform equals     *)

VARIABLES
  log,         (* the commands published so far, oldest first              *)
  queue,       (* the numbers in log of those waiting in the subscription  *)
  tf,          (* the newest transform in the buffer, 0 when there is none *)
  position,    (* current_robot_x_, _y_, _z_                               *)
  recorded,    (* recorded_position_x_, _y_, _z_                           *)
  hasRecorded, (* has_recorded_position_                                   *)
  sending,     (* the goal sendNavigationGoal waits with, or NoGoal        *)
  server,      (* whether the navigate_to_pose server is there             *)
  sent,        (* the goals sent: the command's number and where to        *)
  taken,       (* the numbers of the commands whose callback has run       *)
  anchors      (* the positions the record commands stored, by number      *)

node == <<position, recorded, hasRecorded, sending, sent>>
outside == <<log, tf, server>>
vars == <<node, outside, queue, taken, anchors>>

NoGoal == [number |-> 0, to |-> Origin]
Goal(n, p) == [number |-> n, to |-> p]

Init ==
  /\ log = <<>> /\ queue = <<>>
  /\ tf = 0 /\ position = Origin /\ recorded = Origin /\ hasRecorded = FALSE
  /\ sending = NoGoal /\ server \in BOOLEAN
  /\ sent = <<>> /\ taken = {} /\ anchors = <<>>

-----------------------------------------------------------------------------
(* Outside the node.                                                       *)

(* Variant: the queue has no limit.                                        *)
KeepAll(q, e) == Append(q, e)

(* Variant: a full queue refuses the new element.                          *)
KeepFirst(q, e) == IF Len(q) < QueueDepth THEN Append(q, e) ELSE q

(* KEEP_LAST: a full queue loses its oldest element.                       *)
KeepLast(q, e) == IF Len(q) < QueueDepth THEN Append(q, e) ELSE Append(Tail(q), e)

Publish(c) ==
  /\ Len(log) < MaxCommands
  /\ log' = Append(log, c)
  /\ queue' = KeepLast(queue, Len(log) + 1)
  /\ anchors' = Append(anchors, Origin)
  /\ UNCHANGED <<node, tf, server, taken>>

(* The transform listener has a thread of its own.                         *)
Move ==
  /\ tf < MaxMoves
  /\ tf' = tf + 1
  /\ UNCHANGED <<node, log, server, queue, taken, anchors>>

ServerChanges ==
  /\ server' = ~server
  /\ UNCHANGED <<node, log, tf, queue, taken, anchors>>

-----------------------------------------------------------------------------
(* The executor thread.                                                    *)

Free == sending = NoGoal

(* updateDistanceInfo: a lookup that throws keeps the old position, and    *)
(* the distance from it is published all the same.                         *)
UpdateDistanceInfo ==
  /\ Free
  /\ position' \in {position} \union {p \in {tf} : p > 0}
  /\ UNCHANGED <<outside, recorded, hasRecorded, sending, sent, queue, taken, anchors>>

Take(n, c) ==
  /\ Free
  /\ queue # <<>> /\ n = Head(queue) /\ log[n] = c
  /\ queue' = Tail(queue)
  /\ taken' = taken \union {n}

RecordPosition(n) ==
  /\ Take(n, Record)
  /\ recorded' = position
  /\ hasRecorded' = TRUE
  /\ anchors' = [anchors EXCEPT ![n] = position]
  /\ UNCHANGED <<outside, position, sending, sent>>

(* Variant: the goal is where the robot is, not where it was.              *)
NavigateToPosition(n) ==
  /\ Take(n, GoToRecorded)
  /\ sending' = IF hasRecorded THEN Goal(n, position) ELSE NoGoal
  /\ UNCHANGED <<outside, position, recorded, hasRecorded, sent, anchors>>

(* Without a recorded position the command only warns.                     *)
NavigateToRecorded(n) ==
  /\ Take(n, GoToRecorded)
  /\ sending' = IF hasRecorded THEN Goal(n, recorded) ELSE NoGoal
  /\ UNCHANGED <<outside, position, recorded, hasRecorded, sent, anchors>>

NavigateToTarget(n) ==
  /\ Take(n, GoToTarget)
  /\ sending' = Goal(n, Target)
  /\ UNCHANGED <<outside, position, recorded, hasRecorded, sent, anchors>>

(* wait_for_action_server returned true: async_send_goal.                  *)
SendGoal ==
  /\ ~Free /\ server
  /\ sent' = Append(sent, sending)
  /\ sending' = NoGoal
  /\ UNCHANGED <<outside, position, recorded, hasRecorded, queue, taken, anchors>>

(* Variant: the wait has no timeout.                                       *)
GiveUpNever == FALSE /\ UNCHANGED vars

(* It returned false after five seconds: the goal is dropped.              *)
GiveUp ==
  /\ ~Free /\ ~server
  /\ sending' = NoGoal
  /\ UNCHANGED <<outside, position, recorded, hasRecorded, sent, queue, taken, anchors>>

-----------------------------------------------------------------------------
Callback ==
  \/ \E n \in 1 .. MaxCommands :
       RecordPosition(n) \/ NavigateToRecorded(n) \/ NavigateToTarget(n)
  \/ SendGoal \/ GiveUp

Next ==
  \/ (\E c \in Commands : Publish(c)) \/ Move \/ ServerChanges
  \/ UpdateDistanceInfo \/ Callback

Spec == Init /\ [][Next]_vars

(* The executor goes on as long as a command or a wait is at hand.         *)
FairSpec == Spec /\ WF_vars(Callback)

-----------------------------------------------------------------------------
CommandNumbers == 1 .. MaxCommands
Positions == 0 .. MaxMoves
GoalRecords == [number : CommandNumbers, to : Positions \union {Target}]

TypeOK ==
  /\ log \in Seq(Commands)
  /\ queue \in Seq(CommandNumbers) /\ Len(queue) <= QueueDepth
  /\ tf \in Positions /\ position \in Positions /\ recorded \in Positions
  /\ hasRecorded \in BOOLEAN /\ server \in BOOLEAN
  /\ sending \in GoalRecords \union {NoGoal}
  /\ sent \in Seq(GoalRecords)
  /\ taken \subseteq CommandNumbers
  /\ anchors \in Seq(Positions)

(* Every goal sent is of a later command than the one before it, and goes  *)
(* where that command says: to the target, or to the anchor stored by the  *)
(* last record command before it, those the full queue lost apart.         *)
GoesToLatestAnchor ==
  /\ \A i \in 1 .. Len(sent) - 1 : sent[i].number < sent[i + 1].number
  /\ \A i \in 1 .. Len(sent) :
       LET n == sent[i].number
       IN \/ log[n] = GoToTarget /\ sent[i].to = Target
          \/ /\ log[n] = GoToRecorded
             /\ \E r \in taken :
                  /\ r < n /\ log[r] = Record /\ anchors[r] = sent[i].to
                  /\ \A m \in r + 1 .. n - 1 : log[m] = Record => m \notin taken

(* A command is lost only to QueueDepth newer ones: however long the       *)
(* executor was blocked, the newest command is still carried out.          *)
LatestNotLost ==
  \A n \in 1 .. Len(log) :
    n + QueueDepth > Len(log) => n \in taken \/ Contains(queue, n)

\* A command is carried out as it was meant when it was given: goals go to the anchor recorded
\* last, and a burst costs the oldest commands only (navigate_callback, the queue's depth).
CommandsCarriedOut == TypeOK /\ GoesToLatestAnchor /\ LatestNotLost

(* A missing server delays the commands behind the one that waits for it,  *)
(* and blocks none for ever.                                               *)
CommandsServed == queue # <<>> ~> queue = <<>>

(* What the code says command 1 does: the current position is recorded.    *)
RecordedIsAPosition == hasRecorded => recorded # Origin
=============================================================================
