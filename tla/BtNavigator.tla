---------------------------- MODULE BtNavigator ----------------------------
(***************************************************************************)
(* robot_bt_navigator: a lifecycle node with two navigators, "poses" and   *)
(* "pose", each behind an action server of its own, and the NavigatorMuxer *)
(* they share.                                                             *)
(*                                                                         *)
(* Threads: the executor of the node runs the lifecycle callbacks and the  *)
(* goal, cancel and accepted handlers of both servers; each server starts  *)
(* a worker thread for a goal, which calls onGoalReceived, ticks the tree, *)
(* calls onLoop and onPreempt, and calls onCompletion.  The two workers    *)
(* and the executor interleave.  The action server and the tree engine     *)
(* belong to nav2 and are modelled from how this code uses them.           *)
(***************************************************************************)
EXTENDS Naturals

CONSTANTS
  MaxGoals,     (* bound on the goals clients send                         *)
  Trees,        (* behaviour tree files a goal may name; "" is no name     *)
  BadTrees,     (* those that cannot be loaded                             *)
  EndlessTrees, (* those that run until they are halted or fail            *)
  DefaultTree   (* default_nav_to_pose_bt_xml and its twin                 *)

ASSUME TreesAssumption ==
  /\ MaxGoals \in Nat
  /\ "" \in Trees
  /\ BadTrees \subseteq Trees \ {""}
  /\ EndlessTrees \subseteq Trees \ {""}
  /\ DefaultTree \notin {""} \union BadTrees

Navs == {"poses", "pose"}
Goals == 1 .. MaxGoals
NoGoal == 0
NoTree == "none"

VARIABLES
  life,      (* the lifecycle state, the deactivation step in progress, or *)
             (* crashed: nothing is said of what follows                   *)
  active,    (* server_active_ of each action server                       *)
  stopping,  (* stop_execution_ of each action server                      *)
  current,   (* the goal of current_handle_                                *)
  pending,   (* the goal of pending_handle_                                *)
  preempt,   (* preempt_requested_                                         *)
  worker,    (* where each worker thread is                                *)
  looked,    (* the pending goal onPreempt was called with                 *)
  rc,        (* what the last tick of the tree returned                    *)
  tree,      (* getCurrentBTFilename()                                     *)
  target,    (* the goal whose pose is on the blackboard                   *)
  muxer,     (* NavigatorMuxer::current_navigator_                         *)
  goals      (* what the clients asked for and the status they see         *)

lifeVars == <<life, active, stopping>>
navVars == <<worker, looked, rc, tree, target, muxer>>
serverVars == <<current, pending, preempt, goals>>
vars == <<lifeVars, navVars, serverVars>>

IsActive(g) == g # NoGoal /\ goals[g].status \in {"executing", "canceling"}

(* terminate(): a goal the client is cancelling ends canceled, any other   *)
(* aborted.                                                                *)
Terminated(G) ==
  [g \in Goals |->
     IF g \in G /\ IsActive(g)
     THEN [goals[g] EXCEPT !.status =
             IF @ = "canceling" THEN "canceled" ELSE "aborted"]
     ELSE goals[g]]

Init ==
  /\ life = "unconfigured"
  /\ active = [n \in Navs |-> FALSE]
  /\ stopping = [n \in Navs |-> FALSE]
  /\ current = [n \in Navs |-> NoGoal]
  /\ pending = [n \in Navs |-> NoGoal]
  /\ preempt = [n \in Navs |-> FALSE]
  /\ worker = [n \in Navs |-> "idle"]
  /\ looked = [n \in Navs |-> NoGoal]
  /\ rc = [n \in Navs |-> "running"]
  /\ tree = [n \in Navs |-> NoTree]
  /\ target = [n \in Navs |-> NoGoal]
  /\ muxer = ""
  /\ goals = [g \in Goals |-> [nav |-> "pose", tree |-> "", status |-> "new"]]

-----------------------------------------------------------------------------
(* Lifecycle callbacks, on the executor thread.                            *)

(* Both navigators get a new action server.                                *)
Configure ==
  /\ life = "unconfigured"
  /\ life' = "inactive"
  /\ UNCHANGED <<active, stopping, navVars, serverVars>>

(* Variant: the pose navigator is activated first.                         *)
ActivatePoseFirst ==
  /\ life = "inactive"
  /\ \E loaded \in {{}, {"pose"}, Navs} :
       /\ life' = IF loaded = Navs THEN "active" ELSE "inactive"
       /\ active' = [n \in Navs |-> active[n] \/ n \in loaded]
       /\ stopping' = [n \in Navs |-> stopping[n] /\ n \notin loaded]
       /\ tree' = [n \in Navs |-> IF n \in loaded THEN DefaultTree ELSE tree[n]]
  /\ UNCHANGED <<worker, looked, rc, target, muxer, serverVars>>

(* The poses navigator first; when its default tree does not load the      *)
(* other is not tried, and when the other's does not, the poses server     *)
(* stays active in a node that stays inactive.                             *)
Activate ==
  /\ life = "inactive"
  /\ \E loaded \in {{}, {"poses"}, Navs} :
       /\ life' = IF loaded = Navs THEN "active" ELSE "inactive"
       /\ active' = [n \in Navs |-> active[n] \/ n \in loaded]
       /\ stopping' = [n \in Navs |-> stopping[n] /\ n \notin loaded]
       /\ tree' = [n \in Navs |-> IF n \in loaded THEN DefaultTree ELSE tree[n]]
  /\ UNCHANGED <<worker, looked, rc, target, muxer, serverVars>>

StopServer(n) ==
  /\ active' = [active EXCEPT ![n] = FALSE]
  /\ stopping' = [stopping EXCEPT ![n] = TRUE]

(* on_deactivate blocks the executor until the worker of the poses server  *)
(* is gone, then until that of the pose server is.                         *)
Deactivate ==
  /\ life = "active"
  /\ life' = "stopPoses"
  /\ StopServer("poses")
  /\ UNCHANGED <<navVars, serverVars>>

PosesStopped ==
  /\ life = "stopPoses" /\ worker["poses"] = "idle"
  /\ life' = "stopPose"
  /\ StopServer("pose")
  /\ UNCHANGED <<navVars, serverVars>>

PoseStopped ==
  /\ life = "stopPose" /\ worker["pose"] = "idle"
  /\ life' = "inactive"
  /\ UNCHANGED <<active, stopping, navVars, serverVars>>

(* The servers and their handles go.  After an activation that failed half *)
(* way the poses server may have a worker, which is left with a server     *)
(* that no longer exists: undefined behaviour, here a crash.               *)
Cleanup ==
  /\ life = "inactive"
  /\ \/ /\ \A n \in Navs : worker[n] = "idle"
        /\ life' = "unconfigured"
        /\ active' = [n \in Navs |-> FALSE]
        /\ stopping' = [n \in Navs |-> FALSE]
        /\ current' = [n \in Navs |-> NoGoal]
        /\ pending' = [n \in Navs |-> NoGoal]
        /\ preempt' = [n \in Navs |-> FALSE]
        /\ tree' = [n \in Navs |-> NoTree]
        /\ target' = [n \in Navs |-> NoGoal]
        /\ goals' = Terminated({current[n] : n \in Navs} \union {pending[n] : n \in Navs})
        /\ UNCHANGED <<worker, looked, rc, muxer>>
     \/ /\ \E n \in Navs : worker[n] # "idle"
        /\ life' = "crashed"
        /\ UNCHANGED <<active, stopping, navVars, serverVars>>

(* on_shutdown only logs: the servers stay as they are.                    *)
Shutdown ==
  /\ life \in {"unconfigured", "inactive", "active"}
  /\ life' = "finalized"
  /\ UNCHANGED <<active, stopping, navVars, serverVars>>

-----------------------------------------------------------------------------
(* The action server's handlers, on the executor thread.                   *)

ExecutorFree == life \notin {"stopPoses", "stopPose", "crashed"}

(* A goal for navigator n, from an action client or, for "pose" with no    *)
(* tree named, from the goal_pose topic.                                   *)
Asked(g, n, t, s) ==
  [Terminated({pending[n]}) EXCEPT ![g] = [nav |-> n, tree |-> t, status |-> s]]

NextGoal(g) == goals[g].status = "new" /\ \A h \in 1 .. g - 1 : goals[h].status # "new"

(* Nothing is kept of a goal that is rejected.                             *)
RejectGoal(g, n) ==
  /\ ExecutorFree /\ NextGoal(g) /\ ~active[n]
  /\ goals' = [goals EXCEPT ![g].status = "rejected"]
  /\ UNCHANGED <<lifeVars, navVars, current, pending, preempt>>

(* With a goal in execution, or the worker not gone yet, the new goal      *)
(* replaces the pending one; otherwise a new worker starts with it.        *)
AcceptGoal(g, n, t) ==
  /\ ExecutorFree /\ NextGoal(g) /\ active[n]
  /\ goals' = Asked(g, n, t, "executing")
  /\ \/ /\ IsActive(current[n]) \/ worker[n] # "idle"
        /\ pending' = [pending EXCEPT ![n] = g]
        /\ preempt' = [preempt EXCEPT ![n] = TRUE]
        /\ UNCHANGED <<current, worker>>
     \/ /\ ~IsActive(current[n]) /\ worker[n] = "idle"
        /\ pending' = [pending EXCEPT ![n] = NoGoal]
        /\ preempt' = [preempt EXCEPT ![n] = @ /\ ~IsActive(pending[n])]
        /\ current' = [current EXCEPT ![n] = g]
        /\ worker' = [worker EXCEPT ![n] = "work"]
  /\ UNCHANGED <<lifeVars, looked, rc, tree, target, muxer>>

(* Variant: a goal that ended can still be cancelled.                      *)
CancelAnyGoal(g) ==
  /\ ExecutorFree /\ goals[g].status # "new"
  /\ goals' = [goals EXCEPT ![g].status = "canceling"]
  /\ UNCHANGED <<lifeVars, navVars, current, pending, preempt>>

CancelGoal(g) ==
  /\ ExecutorFree /\ goals[g].status = "executing"
  /\ goals' = [goals EXCEPT ![g].status = "canceling"]
  /\ UNCHANGED <<lifeVars, navVars, current, pending, preempt>>

-----------------------------------------------------------------------------
(* The worker thread of navigator n.                                       *)

Goto(n, from, to) ==
  life # "crashed" /\ worker[n] = from /\ worker' = [worker EXCEPT ![n] = to]

(* The loop condition of the server's work().                              *)
Work(n) ==
  /\ Goto(n, "work", IF ~stopping[n] /\ IsActive(current[n]) THEN "check" ELSE "leave")
  /\ UNCHANGED <<lifeVars, looked, rc, tree, target, muxer, serverVars>>

(* onGoalReceived: isNavigating().                                         *)
CheckMuxer(n) ==
  /\ Goto(n, "check", IF muxer = "" THEN "load" ELSE "refuse")
  /\ UNCHANGED <<lifeVars, looked, rc, tree, target, muxer, serverVars>>

(* loadBehaviorTree: no name stands for the default tree.                  *)
TreeOf(t) == IF t = "" THEN DefaultTree ELSE t

Requested(n) == TreeOf(goals[current[n]].tree)

(* Variant: the file name is taken over before it is known to load.        *)
GoalReceivedUnloaded(n) ==
  /\ Goto(n, "load", IF Requested(n) \in BadTrees THEN "refuse" ELSE "start")
  /\ tree' = [tree EXCEPT ![n] = Requested(n)]
  /\ target' = [target EXCEPT ![n] = current[n]]
  /\ UNCHANGED <<lifeVars, looked, rc, muxer, serverVars>>

(* goalReceived: the tree is loaded and initializeGoalPose(s) puts the     *)
(* goal on the blackboard.                                                 *)
GoalReceived(n) ==
  /\ worker[n] = "load"
  /\ \/ /\ Requested(n) \in BadTrees
        /\ Goto(n, "load", "refuse")
        /\ UNCHANGED <<tree, target>>
     \/ /\ Requested(n) \notin BadTrees
        /\ Goto(n, "load", "start")
        /\ tree' = [tree EXCEPT ![n] = Requested(n)]
        /\ target' = [target EXCEPT ![n] = current[n]]
  /\ UNCHANGED <<lifeVars, looked, rc, muxer, serverVars>>

(* startNavigating: taken over even when another navigator holds it.       *)
StartNavigating(n) ==
  /\ Goto(n, "start", "tick")
  /\ muxer' = n
  /\ UNCHANGED <<lifeVars, looked, rc, tree, target, serverVars>>

(* The engine stops the tree when its server is inactive or the client     *)
(* cancels: the pending goal when there is one, else the current one.      *)
CancelRequested(n) ==
  \/ ~active[n]
  \/ LET g == IF pending[n] # NoGoal THEN pending[n] ELSE current[n]
     IN g # NoGoal /\ goals[g].status = "canceling"

Halt(n) ==
  /\ CancelRequested(n)
  /\ Goto(n, "tick", "complete")
  /\ rc' = [rc EXCEPT ![n] = "canceled"]
  /\ UNCHANGED <<lifeVars, looked, tree, target, muxer, serverVars>>

Tick(n, r) ==
  /\ ~CancelRequested(n)
  /\ Goto(n, "tick", "loop")
  /\ rc' = [rc EXCEPT ![n] = r]
  /\ UNCHANGED <<lifeVars, looked, tree, target, muxer, serverVars>>

AfterLoop(n) == IF rc[n] = "running" THEN "tick" ELSE "complete"

(* The engine's onLoop, also after the last tick: when a preemption is     *)
(* requested onPreempt is called with the goal that is pending now.        *)
Loop(n) ==
  /\ Goto(n, "loop", IF preempt[n] THEN "preempt" ELSE AfterLoop(n))
  /\ looked' = [looked EXCEPT ![n] = IF preempt[n] THEN pending[n] ELSE @]
  /\ UNCHANGED <<lifeVars, rc, tree, target, muxer, serverVars>>

SameTree(n, g) ==
  \/ goals[g].tree = tree[n]
  \/ goals[g].tree = "" /\ tree[n] = DefaultTree

(* onPreempt decides on the goal it was called with and then accepts or    *)
(* terminates the goal that is pending by now.                             *)
AcceptPending(n) ==
  /\ goals' = Terminated({current[n]})
  /\ current' = [current EXCEPT ![n] = pending[n]]
  /\ pending' = [pending EXCEPT ![n] = NoGoal]
  /\ preempt' = [preempt EXCEPT ![n] = FALSE]

(* Variant: the new goal's pose is not put on the blackboard.              *)
PreemptBlindly(n) ==
  /\ Goto(n, "preempt", AfterLoop(n))
  /\ \/ SameTree(n, looked[n]) /\ AcceptPending(n)
     \/ /\ ~SameTree(n, looked[n])
        /\ goals' = Terminated({pending[n]})
        /\ pending' = [pending EXCEPT ![n] = NoGoal]
        /\ preempt' = [preempt EXCEPT ![n] = FALSE]
        /\ UNCHANGED current
  /\ looked' = [looked EXCEPT ![n] = NoGoal]
  /\ UNCHANGED <<lifeVars, rc, tree, target, muxer>>

(* acceptPendingGoal and initializeGoalPose(s), or terminatePendingGoal.   *)
Preempt(n) ==
  /\ Goto(n, "preempt", AfterLoop(n))
  /\ \/ /\ SameTree(n, looked[n])
        /\ AcceptPending(n)
        /\ target' = [target EXCEPT ![n] = pending[n]]
     \/ /\ ~SameTree(n, looked[n])
        /\ goals' = Terminated({pending[n]})
        /\ pending' = [pending EXCEPT ![n] = NoGoal]
        /\ preempt' = [preempt EXCEPT ![n] = FALSE]
        /\ UNCHANGED <<current, target>>
  /\ looked' = [looked EXCEPT ![n] = NoGoal]
  /\ UNCHANGED <<lifeVars, rc, tree, muxer>>

(* Variant: the muxer is given back only by a goal that succeeded.         *)
CompletionOnSuccess(n) ==
  /\ Goto(n, "complete", "result")
  /\ muxer' = IF muxer = n /\ rc[n] = "success" THEN "" ELSE muxer
  /\ UNCHANGED <<lifeVars, looked, rc, tree, target, serverVars>>

(* onCompletion: stopNavigating, which leaves the muxer to another name.   *)
Completion(n) ==
  /\ Goto(n, "complete", "result")
  /\ muxer' = IF muxer = n THEN "" ELSE muxer
  /\ UNCHANGED <<lifeVars, looked, rc, tree, target, serverVars>>

(* succeeded_current, terminate_current or terminate_all.                  *)
Result(n) ==
  /\ Goto(n, "result", "after")
  /\ \/ /\ rc[n] = "success"
        /\ goals' = [goals EXCEPT ![current[n]].status = "succeeded"]
        /\ UNCHANGED <<pending, preempt>>
     \/ /\ rc[n] = "failure"
        /\ goals' = Terminated({current[n]})
        /\ UNCHANGED <<pending, preempt>>
     \/ /\ rc[n] = "canceled"
        /\ goals' = Terminated({current[n], pending[n]})
        /\ pending' = [pending EXCEPT ![n] = NoGoal]
        /\ preempt' = [preempt EXCEPT ![n] = FALSE]
  /\ current' = [current EXCEPT ![n] = NoGoal]
  /\ rc' = [rc EXCEPT ![n] = "running"]
  /\ UNCHANGED <<lifeVars, looked, tree, target, muxer>>

(* onGoalReceived returned false: terminate_current.                       *)
Refuse(n) ==
  /\ Goto(n, "refuse", "after")
  /\ goals' = Terminated({current[n]})
  /\ current' = [current EXCEPT ![n] = NoGoal]
  /\ UNCHANGED <<lifeVars, looked, rc, tree, target, muxer, pending, preempt>>

(* Back in work(): stop, go on with the pending goal, or leave.            *)
After(n) ==
  /\ \/ /\ stopping[n]
        /\ Goto(n, "after", "leave")
        /\ goals' = Terminated({current[n], pending[n]})
        /\ current' = [current EXCEPT ![n] = NoGoal]
        /\ pending' = [pending EXCEPT ![n] = NoGoal]
        /\ preempt' = [preempt EXCEPT ![n] = FALSE]
     \/ /\ ~stopping[n] /\ pending[n] # NoGoal
        /\ Goto(n, "after", "work")
        /\ AcceptPending(n)
     \/ /\ ~stopping[n] /\ pending[n] = NoGoal
        /\ Goto(n, "after", "leave")
        /\ UNCHANGED serverVars
  /\ UNCHANGED <<lifeVars, looked, rc, tree, target, muxer>>

(* The worker thread ends; until then the server counts as running.        *)
Leave(n) ==
  /\ Goto(n, "leave", "idle")
  /\ UNCHANGED <<lifeVars, looked, rc, tree, target, muxer, serverVars>>

-----------------------------------------------------------------------------
Lifecycle ==
  \/ Configure \/ Activate \/ Deactivate \/ PosesStopped \/ PoseStopped
  \/ Cleanup \/ Shutdown

Clients ==
  \E g \in Goals :
    \/ \E n \in Navs : RejectGoal(g, n) \/ \E t \in Trees : AcceptGoal(g, n, t)
    \/ CancelGoal(g)

WorkerStep(n) ==
  \/ Work(n) \/ CheckMuxer(n) \/ GoalReceived(n) \/ StartNavigating(n)
  \/ Halt(n) \/ (\E r \in {"running", "success", "failure"} : Tick(n, r))
  \/ Loop(n) \/ Preempt(n) \/ Completion(n) \/ Result(n) \/ Refuse(n)
  \/ After(n) \/ Leave(n)

Next == Lifecycle \/ Clients \/ \E n \in Navs : WorkerStep(n)

(* A tree with a limited number_of_retries comes to a result.  One that    *)
(* keeps following a moving pose (follow_point.xml) need not.              *)
TreeEnds(n) ==
  tree[n] \notin EndlessTrees /\ \E r \in {"success", "failure"} : Tick(n, r)

(* A worker that can go on does, a tree that is ticked over and over and   *)
(* is not endless ends, and so does a deactivation once it can.            *)
Fairness ==
  /\ \A n \in Navs : WF_vars(WorkerStep(n))
  /\ \A n \in Navs : SF_vars(TreeEnds(n))
  /\ WF_vars(PosesStopped \/ PoseStopped)

Spec == Init /\ [][Next]_vars
FairSpec == Spec /\ Fairness

-----------------------------------------------------------------------------
Running == {"tick", "loop", "preempt", "complete"}

TypeOK ==
  /\ life \in {"unconfigured", "inactive", "active", "stopPoses", "stopPose", "finalized", "crashed"}
  /\ active \in [Navs -> BOOLEAN]
  /\ stopping \in [Navs -> BOOLEAN]
  /\ current \in [Navs -> Goals \union {NoGoal}]
  /\ pending \in [Navs -> Goals \union {NoGoal}]
  /\ preempt \in [Navs -> BOOLEAN]
  /\ worker \in [Navs -> Running \union {"idle", "work", "check", "load", "refuse",
                                         "start", "result", "after", "leave"}]
  /\ looked \in [Navs -> Goals \union {NoGoal}]
  /\ rc \in [Navs -> {"running", "success", "failure", "canceled"}]
  /\ tree \in [Navs -> (Trees \ BadTrees) \union {DefaultTree, NoTree}]
  /\ target \in [Navs -> Goals \union {NoGoal}]
  /\ muxer \in Navs \union {""}
  /\ goals \in [Goals -> [nav : Navs, tree : Trees,
                          status : {"new", "rejected", "executing", "canceling",
                                    "succeeded", "aborted", "canceled"}]]

(* The muxer is never left taken: whoever it names is executing a goal and *)
(* will give it back, even after the two workers took it over each other.  *)
MuxerHeldByRunner == \A n \in Navs : muxer = n => worker[n] \in Running

(* The pose the tree drives to is that of the goal whose client is told of *)
(* the outcome, through every preemption.                                  *)
TargetIsCurrentGoal ==
  \A n \in Navs :
    worker[n] \in Running \union {"start"} =>
      current[n] # NoGoal /\ target[n] = current[n]

(* A server never holds two workers' worth of state: a preemption is only  *)
(* requested with a live pending goal, and no goal is current and pending  *)
(* at once or for the navigator it was not sent to.                        *)
HandlesConsistent ==
  \A n \in Navs :
    /\ worker[n] # "idle" /\ preempt[n] => IsActive(pending[n])
    /\ pending[n] # NoGoal => IsActive(pending[n]) /\ goals[pending[n]].nav = n
    /\ current[n] # NoGoal => IsActive(current[n]) /\ goals[current[n]].nav = n
    /\ current[n] # NoGoal => current[n] # pending[n]

(* A client sees one outcome: a goal that ended keeps its status.          *)
OutcomeFinal ==
  [][\A g \in Goals :
       goals[g].status \in {"rejected", "succeeded", "aborted", "canceled"}
         => goals'[g].status = goals[g].status]_vars

(* The pose navigator's action server, as its own clients see it.  The     *)
(* other's is the same code.                                               *)
StatusAtPose == [g \in Goals |-> IF goals[g].nav = "pose" THEN goals[g].status ELSE "new"]

PoseServer ==
  INSTANCE ActionServer WITH
    status <- StatusAtPose, serving <- current["pose"], waiting <- pending["pose"]

(* The server keeps what ActionServer promises, through preemptions,       *)
(* cancellations and deactivations at any point and whatever the other     *)
(* navigator does: no accepted goal is forgotten, one outcome each, and    *)
(* success only for the goal served.                                       *)
ServerKeepsPromise == PoseServer!Spec

(* A node that is not active serves no NavigateToPose goal: the order of   *)
(* the activations lets a failed one leave only the poses server active.   *)
PoseServerNeedsActivation ==
  life \in {"unconfigured", "inactive"} => ~active["pose"]

\* The lifecycle never opens the pose server without the others, and nothing outgrows its types
\* (on_activate, on_deactivate of bt_navigator.cpp).
LifecycleInv == TypeOK /\ PoseServerNeedsActivation

(* The muxer becomes free again, but for an endless tree whose server is   *)
(* active: once that server is stopped, its tree gives the muxer back, too *)
(* (onCompletion of navigator.hpp, through preemptions, cancellations and  *)
(* take-overs by the other navigator).                                     *)
MuxerEventuallyFree ==
  /\ muxer # "" ~> \/ muxer = "" \/ life = "crashed"
                   \/ muxer # "" /\ tree[muxer] \in EndlessTrees
  /\ \A n \in Navs :
       muxer = n /\ ~active[n] ~> muxer # n \/ active[n] \/ life = "crashed"

(* What navigator.hpp says of the muxer: only a single plugin is processed *)
(* at a time.                                                              *)
SingleNavigator == ~ \A n \in Navs : worker[n] \in Running

(* What onPreempt says: a pending goal is accepted if it requests the tree *)
(* that the current goal is executing.                                     *)
PreemptKeepsTree ==
  [][\A n \in Navs :
       worker[n] = "preempt" /\ current'[n] # current[n]
         => TreeOf(goals'[current'[n]].tree) = tree[n]]_vars
=============================================================================
