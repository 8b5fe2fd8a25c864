------------------------------ MODULE Behaviors ------------------------------
(***************************************************************************)
(* robot_behaviors: the BehaviorServer lifecycle node with its one         *)
(* behavior, keep_away_from_obstacles, a TimedBehavior.                    *)
(*                                                                         *)
(* The node's executor runs the lifecycle callbacks, the action server's   *)
(* handlers and the point cloud callback; the action server runs execute() *)
(* on a worker thread.  Both touch point_cloud_ without a lock.  The       *)
(* action server belongs to nav2 and is modelled from how this code uses   *)
(* it.  Of a point cloud the model keeps whether it is empty and whether   *)
(* its nearest point is too near.                                          *)
(***************************************************************************)
EXTENDS Naturals

CONSTANT MaxGoals  (* bound on the goals clients send                      *)

ASSUME GoalsAssumption == MaxGoals \in Nat

Goals == 1 .. MaxGoals
NoGoal == 0

Clouds == {"empty", "near", "far"}
Torn == "torn"  (* point_cloud_ while it is being assigned                 *)

VARIABLES
  life,         (* the lifecycle state, or the deactivation step reached   *)
  pubActive,    (* whether vel_pub_ is activated                           *)
  serverActive, (* server_active_                                          *)
  stopping,     (* stop_execution_                                         *)
  enabled,      (* enabled_                                                *)
  current, pending, preempt,  (* the action server's handles and request   *)
  status,       (* the status of every goal, as its client sees it         *)
  worker,       (* where the worker thread is                              *)
  cloud,        (* point_cloud_                                            *)
  seen,         (* what the worker read from it in this cycle              *)
  cmd           (* the last velocity on cmd_vel                            *)

lifeVars == <<life, pubActive, serverActive, stopping, enabled>>
serverVars == <<current, pending, preempt, status>>
vars == <<lifeVars, serverVars, worker, cloud, seen, cmd>>

Init ==
  /\ life = "unconfigured"
  /\ pubActive = FALSE /\ serverActive = FALSE /\ stopping = FALSE /\ enabled = FALSE
  /\ current = NoGoal /\ pending = NoGoal /\ preempt = FALSE
  /\ status = [g \in Goals |-> "new"]
  /\ worker = "idle" /\ cloud = "empty" /\ seen = "empty" /\ cmd = "none"

IsActive(g) == g # NoGoal /\ status[g] \in {"executing", "canceling"}

(* terminate(): a goal being cancelled ends canceled, any other aborted.   *)
Terminated(G) ==
  [g \in Goals |->
     IF g \notin G \/ ~IsActive(g) THEN status[g]
     ELSE IF status[g] = "canceling" THEN "canceled" ELSE "aborted"]

-----------------------------------------------------------------------------
(* Lifecycle callbacks, on the executor thread.                            *)

BetweenCallbacks == cloud # Torn

(* A plugin that cannot be created leaves the node unconfigured.           *)
Configure ==
  /\ BetweenCallbacks /\ life = "unconfigured"
  /\ life' = "inactive"
  /\ cloud' = "empty"
  /\ UNCHANGED <<pubActive, serverActive, stopping, enabled, serverVars, worker, seen, cmd>>

Activate ==
  /\ BetweenCallbacks /\ life = "inactive"
  /\ life' = "active"
  /\ pubActive' = TRUE
  /\ serverActive' = TRUE /\ stopping' = FALSE
  /\ enabled' = TRUE
  /\ UNCHANGED <<serverVars, worker, cloud, seen, cmd>>

(* deactivate(): the publisher first, then the server, which blocks until  *)
(* its worker is gone, then enabled_.                                      *)
DeactivatePublisher ==
  /\ BetweenCallbacks /\ life = "active"
  /\ life' = "stopServer"
  /\ pubActive' = FALSE
  /\ UNCHANGED <<serverActive, stopping, enabled, serverVars, worker, cloud, seen, cmd>>

(* Variant: enabled_ is cleared before the worker is gone.                 *)
DeactivateServerEarly ==
  /\ life = "stopServer"
  /\ life' = "stopping"
  /\ serverActive' = FALSE /\ stopping' = TRUE
  /\ enabled' = FALSE
  /\ UNCHANGED <<pubActive, serverVars, worker, cloud, seen, cmd>>

DeactivateServer ==
  /\ life = "stopServer"
  /\ life' = "stopping"
  /\ serverActive' = FALSE /\ stopping' = TRUE
  /\ UNCHANGED <<pubActive, enabled, serverVars, worker, cloud, seen, cmd>>

Deactivated ==
  /\ life = "stopping" /\ worker = "idle"
  /\ life' = "inactive"
  /\ enabled' = FALSE
  /\ UNCHANGED <<pubActive, serverActive, stopping, serverVars, worker, cloud, seen, cmd>>

Cleanup ==
  /\ BetweenCallbacks /\ life = "inactive" /\ worker = "idle"
  /\ life' = "unconfigured"
  /\ stopping' = FALSE
  /\ status' = Terminated({current, pending})
  /\ current' = NoGoal /\ pending' = NoGoal /\ preempt' = FALSE
  /\ UNCHANGED <<pubActive, serverActive, enabled, worker, cloud, seen, cmd>>

(* on_shutdown only logs.                                                  *)
Shutdown ==
  /\ BetweenCallbacks /\ life \in {"unconfigured", "inactive", "active"}
  /\ life' = "finalized"
  /\ UNCHANGED <<pubActive, serverActive, stopping, enabled, serverVars, worker, cloud, seen, cmd>>

-----------------------------------------------------------------------------
(* The other callbacks of the executor thread.                             *)

ExecutorFree == BetweenCallbacks /\ life \in {"inactive", "active", "finalized"}

(* point_callback: the assignment begins and ends.                         *)
PointsArrive ==
  /\ ExecutorFree
  /\ cloud' = Torn
  /\ UNCHANGED <<lifeVars, serverVars, worker, seen, cmd>>

PointsAssigned ==
  /\ cloud = Torn /\ life # "crashed"
  /\ cloud' \in Clouds
  /\ UNCHANGED <<lifeVars, serverVars, worker, seen, cmd>>

NextGoal(g) == status[g] = "new" /\ \A h \in 1 .. g - 1 : status[h] # "new"

RejectGoal(g) ==
  /\ ExecutorFree /\ NextGoal(g) /\ ~serverActive
  /\ status' = [status EXCEPT ![g] = "rejected"]
  /\ UNCHANGED <<lifeVars, current, pending, preempt, worker, cloud, seen, cmd>>

AcceptGoal(g) ==
  /\ ExecutorFree /\ NextGoal(g) /\ serverActive
  /\ status' = [Terminated({pending}) EXCEPT ![g] = "executing"]
  /\ \/ /\ IsActive(current) \/ worker # "idle"
        /\ pending' = g /\ preempt' = TRUE
        /\ UNCHANGED <<current, worker>>
     \/ /\ ~IsActive(current) /\ worker = "idle"
        /\ current' = g /\ pending' = NoGoal
        /\ preempt' = (preempt /\ ~IsActive(pending))
        /\ worker' = "work"
  /\ UNCHANGED <<lifeVars, cloud, seen, cmd>>

CancelGoal(g) ==
  /\ ExecutorFree /\ status[g] = "executing"
  /\ status' = [status EXCEPT ![g] = "canceling"]
  /\ UNCHANGED <<lifeVars, current, pending, preempt, worker, cloud, seen, cmd>>

-----------------------------------------------------------------------------
(* The worker thread.                                                      *)

Goto(from, to) == life # "crashed" /\ worker = from /\ worker' = to

(* The loop condition of the server's work().                              *)
Work ==
  /\ Goto("work", IF ~stopping /\ IsActive(current) THEN "execute" ELSE "leave")
  /\ UNCHANGED <<lifeVars, serverVars, cloud, seen, cmd>>

(* execute(): a request while disabled is ignored.                         *)
Execute ==
  /\ Goto("execute", IF enabled THEN "onRun" ELSE "returned")
  /\ UNCHANGED <<lifeVars, serverVars, cloud, seen, cmd>>

(* What a read of point_cloud_ can find; in the middle of an assignment,   *)
(* anything.                                                               *)
Readable == IF cloud = Torn THEN Clouds ELSE {cloud}

(* ... or the end of the process.                                          *)
TornRead ==
  /\ worker \in {"onRun", "onCycleUpdate"} /\ cloud = Torn /\ life # "crashed"
  /\ life' = "crashed"
  /\ UNCHANGED <<pubActive, serverActive, stopping, enabled, serverVars, worker, cloud, seen, cmd>>

(* Variant: execution goes on after the initial checks failed.             *)
OnRunGoesOn ==
  /\ Goto("onRun", "checkCancel")
  /\ \E c \in Readable :
       IF c = "empty"
       THEN status' = Terminated({current}) /\ current' = NoGoal
       ELSE UNCHANGED <<status, current>>
  /\ UNCHANGED <<lifeVars, pending, preempt, cloud, seen, cmd>>

(* onRun: with no points the goal is given up.                             *)
OnRun ==
  /\ worker = "onRun"
  /\ \E c \in Readable :
       \/ /\ c # "empty"
          /\ Goto("onRun", "checkCancel")
          /\ UNCHANGED <<status, current>>
       \/ /\ c = "empty"
          /\ Goto("onRun", "returned")
          /\ status' = Terminated({current}) /\ current' = NoGoal
  /\ UNCHANGED <<lifeVars, pending, preempt, cloud, seen, cmd>>

(* is_cancel_requested: the pending goal's, when there is one.             *)
CancelRequested ==
  LET g == IF pending # NoGoal THEN pending ELSE current
  IN current # NoGoal /\ status[g] = "canceling"

CheckCancel ==
  /\ Goto("checkCancel", IF CancelRequested THEN "stopCanceled" ELSE "checkPreempt")
  /\ UNCHANGED <<lifeVars, serverVars, cloud, seen, cmd>>

CheckPreempt ==
  /\ Goto("checkPreempt", IF preempt THEN "stopPreempted" ELSE "onCycleUpdate")
  /\ UNCHANGED <<lifeVars, serverVars, cloud, seen, cmd>>

(* A deactivated publisher drops what it is given.                         *)
PublishVelocity(v) == cmd' = IF pubActive THEN v ELSE cmd

StopRobot ==
  /\ \/ Goto("stopCanceled", "cancel")
     \/ Goto("stopPreempted", "abort")
  /\ PublishVelocity("stop")
  /\ UNCHANGED <<lifeVars, serverVars, cloud, seen>>

(* Variant: the goal that waits is dropped without an outcome.             *)
CancelCurrent ==
  /\ Goto("cancel", "returned")
  /\ status' = Terminated({current})
  /\ current' = NoGoal /\ pending' = NoGoal /\ preempt' = FALSE
  /\ UNCHANGED <<lifeVars, cloud, seen, cmd>>

(* terminate_all.                                                          *)
Cancel ==
  /\ Goto("cancel", "returned")
  /\ status' = Terminated({current, pending})
  /\ current' = NoGoal /\ pending' = NoGoal /\ preempt' = FALSE
  /\ UNCHANGED <<lifeVars, cloud, seen, cmd>>

(* terminate_current, for a preemption.                                    *)
Abort ==
  /\ Goto("abort", "returned")
  /\ status' = Terminated({current})
  /\ current' = NoGoal
  /\ UNCHANGED <<lifeVars, pending, preempt, cloud, seen, cmd>>

(* Variant: the cloud is used as it stands.                                *)
OnCycleUpdateUnread ==
  /\ seen' = cloud
  /\ PublishVelocity(IF seen' = "near" THEN "move" ELSE "stop")
  /\ Goto("onCycleUpdate", "succeed")
  /\ UNCHANGED <<lifeVars, serverVars, cloud>>

(* Variant: the cycles go on while an obstacle is near.                    *)
OnCycleUpdateRunning ==
  /\ worker = "onCycleUpdate"
  /\ seen' \in Readable
  /\ PublishVelocity(IF seen' = "near" THEN "move" ELSE "stop")
  /\ Goto("onCycleUpdate", IF seen' = "near" THEN "checkCancel" ELSE "succeed")
  /\ UNCHANGED <<lifeVars, serverVars, cloud>>

(* onCycleUpdate: away from the nearest point when it is too near, or a    *)
(* stop, and done after this cycle either way.                             *)
OnCycleUpdate ==
  /\ seen' \in Readable
  /\ PublishVelocity(IF seen' = "near" THEN "move" ELSE "stop")
  /\ Goto("onCycleUpdate", "succeed")
  /\ UNCHANGED <<lifeVars, serverVars, cloud>>

(* succeeded_current.                                                      *)
Succeed ==
  /\ Goto("succeed", "returned")
  /\ status' = IF IsActive(current) THEN [status EXCEPT ![current] = "succeeded"] ELSE status
  /\ current' = NoGoal
  /\ UNCHANGED <<lifeVars, pending, preempt, cloud, seen, cmd>>

(* Back in work(): stop, go on with the pending goal, or leave.  A goal    *)
(* that execute() left without a result is terminated.                     *)
Returned ==
  /\ \/ /\ stopping
        /\ Goto("returned", "leave")
        /\ status' = Terminated({current, pending})
        /\ current' = NoGoal /\ pending' = NoGoal /\ preempt' = FALSE
     \/ /\ ~stopping /\ IsActive(pending)
        /\ Goto("returned", "work")
        /\ status' = Terminated({current})
        /\ current' = pending /\ pending' = NoGoal /\ preempt' = FALSE
     \/ /\ ~stopping /\ ~IsActive(pending)
        /\ Goto("returned", "leave")
        /\ status' = Terminated({current})
        /\ current' = NoGoal
        /\ UNCHANGED <<pending, preempt>>
  /\ UNCHANGED <<lifeVars, cloud, seen, cmd>>

Leave ==
  /\ Goto("leave", "idle")
  /\ UNCHANGED <<lifeVars, serverVars, cloud, seen, cmd>>

-----------------------------------------------------------------------------
Lifecycle ==
  \/ Configure \/ Activate \/ DeactivatePublisher \/ DeactivateServer
  \/ Deactivated \/ Cleanup \/ Shutdown

Callbacks ==
  \/ PointsArrive \/ PointsAssigned
  \/ \E g \in Goals : RejectGoal(g) \/ AcceptGoal(g) \/ CancelGoal(g)

WorkerStep ==
  \/ Work \/ Execute \/ OnRun \/ CheckCancel \/ CheckPreempt \/ StopRobot
  \/ Cancel \/ Abort \/ OnCycleUpdate \/ Succeed \/ Returned \/ Leave

Next == Lifecycle \/ Callbacks \/ WorkerStep \/ TornRead

Spec == Init /\ [][Next]_vars

(* A worker that can go on does.                                           *)
FairSpec == Spec /\ WF_vars(WorkerStep)

-----------------------------------------------------------------------------
Ended == {"rejected", "succeeded", "aborted", "canceled"}

TypeOK ==
  /\ life \in {"unconfigured", "inactive", "active", "stopServer", "stopping",
               "finalized", "crashed"}
  /\ {pubActive, serverActive, stopping, enabled, preempt} \subseteq BOOLEAN
  /\ current \in Goals \union {NoGoal} /\ pending \in Goals \union {NoGoal}
  /\ status \in [Goals -> {"new", "executing", "canceling"} \union Ended]
  /\ worker \in {"idle", "work", "execute", "onRun", "checkCancel", "checkPreempt",
                 "stopCanceled", "stopPreempted", "cancel", "abort",
                 "onCycleUpdate", "succeed", "returned", "leave"}
  /\ cloud \in Clouds \union {Torn} /\ seen \in Clouds
  /\ cmd \in {"none", "stop", "move"}

(* The robot is only ever told to move for a goal that is executing, and   *)
(* never by a node that was deactivated.                                   *)
MotionHasGoal ==
  [][cmd' # cmd => /\ IsActive(current)
                   /\ life \notin {"unconfigured", "inactive"}]_vars

(* The "Called while inactive" branch of execute() is never taken: a goal  *)
(* the server accepted finds the behavior enabled, also when it is picked  *)
(* up in the middle of a deactivation.                                     *)
AcceptedFindsEnabled == worker = "execute" => enabled

\* The behavior's state keeps its types, and what it accepts it can execute (timed_behavior's
\* onActivate, onDeactivate).
BehaviorInv == TypeOK /\ AcceptedFindsEnabled

Server == INSTANCE ActionServer WITH serving <- current, waiting <- pending

(* The behavior's server keeps what ActionServer promises although its     *)
(* goals end in five places: no accepted goal is forgotten, one outcome    *)
(* each, and success only for the goal that execute() ran for.             *)
ServerKeepsPromise == Server!Spec

(* Once execute() runs for a goal, the goal is answered, through           *)
(* preemption, cancellation, deactivation and whatever the point cloud     *)
(* does, unless a torn read ends the process.  (A goal accepted just       *)
(* before a deactivation may not get that far.)                            *)
EveryGoalAnswered ==
  \A g \in Goals :
    worker = "execute" /\ current = g
      ~> status[g] \in Ended \/ life = "crashed"

(* What timed_behavior.hpp says of stopRobot: it stops the robot.          *)
StopRobotStops ==
  [][(worker \in {"stopCanceled", "stopPreempted"} /\ worker' # worker)
       => cmd' # "move"]_vars

(* What keep_away_from_obstacles.hpp says of the cycles: they run until    *)
(* the task is done, the robot away from the obstacle.                     *)
SucceededIsClear ==
  [][\A g \in Goals :
       status[g] # "succeeded" /\ status'[g] = "succeeded"
         => ~(seen = "near" /\ cloud = "near")]_vars
=============================================================================
