---------------------------- MODULE BehaviorsProofs ----------------------------
(***************************************************************************)
(* Proofs about the behavior server, for every number of goals: the worker *)
(* has a live goal wherever it may move the robot, what the server accepts *)
(* the behavior executes, and the server keeps what ActionServer promises. *)
(***************************************************************************)
EXTENDS Behaviors, TLAPS

\* Where execute() has a goal to answer.
Busy == {"execute", "onRun", "checkCancel", "checkPreempt", "stopCanceled", "stopPreempted",
         "cancel", "abort", "onCycleUpdate", "succeed"}

\* The handles of the server: live goals, never the same one twice.
HandlesInv ==
  /\ current # NoGoal => IsActive(current)
  /\ pending # NoGoal => IsActive(pending)
  /\ current # NoGoal => current # pending
  /\ preempt => pending # NoGoal
  /\ worker \in Busy => current # NoGoal

\* The server is open only while the behavior is enabled, and the worker is gone before either it
\* is disabled or the node inactive.
EnabledInv ==
  /\ serverActive => enabled /\ life \notin {"unconfigured", "inactive", "stopping"}
  /\ worker # "idle" => enabled /\ life \notin {"unconfigured", "inactive"}

IInv == TypeOK /\ HandlesInv /\ EnabledInv

-----------------------------------------------------------------------------
Statuses == {"new", "executing", "canceling"} \union Ended

\* Terminating goals ends those that are live and touches nothing else.
LEMMA TerminatedGoals ==
  ASSUME TypeOK, NEW G
  PROVE  /\ Terminated(G) \in [Goals -> Statuses]
         /\ \A g \in Goals : g \notin G => Terminated(G)[g] = status[g]
BY DEF TypeOK, Terminated, Statuses, Ended

\* Initially nothing runs and nothing is asked for.
LEMMA InitHolds == Init => IInv
<1> SUFFICES ASSUME Init PROVE IInv
  OBVIOUS
<1>1. TypeOK
  BY DEF Init, TypeOK, Clouds, Ended
<1>2. HandlesInv
  BY DEF Init, HandlesInv, Busy
<1>3. EnabledInv
  BY DEF Init, EnabledInv
<1> QED BY <1>1, <1>2, <1>3 DEF IInv

\* The lifecycle's steps keep the types.
LEMMA LifecycleTyped == TypeOK /\ Lifecycle => TypeOK'
<1> SUFFICES ASSUME TypeOK, Lifecycle PROVE TypeOK'
  OBVIOUS
<1>1. CASE Cleanup
  <2>1. status' \in [Goals -> Statuses]
    BY <1>1, TerminatedGoals DEF Cleanup
  <2> QED BY <1>1, <2>1 DEF TypeOK, Cleanup, Statuses
<1>2. CASE Configure \/ Activate \/ DeactivatePublisher \/ DeactivateServer \/ Deactivated \/ Shutdown
  BY <1>2 DEF TypeOK, Configure, Activate, DeactivatePublisher, DeactivateServer, Deactivated,
              Shutdown, serverVars, Clouds
<1> QED BY <1>1, <1>2 DEF Lifecycle

\* So do the executor's other callbacks.
LEMMA CallbacksTyped == TypeOK /\ Callbacks => TypeOK'
<1> SUFFICES ASSUME TypeOK, Callbacks PROVE TypeOK'
  OBVIOUS
<1>1. CASE PointsArrive \/ PointsAssigned
  BY <1>1 DEF TypeOK, PointsArrive, PointsAssigned, lifeVars, serverVars
<1>2. ASSUME NEW g \in Goals, RejectGoal(g) PROVE TypeOK'
  BY <1>2 DEF TypeOK, RejectGoal, lifeVars, Ended
<1>3. ASSUME NEW g \in Goals, AcceptGoal(g) PROVE TypeOK'
  <2>1. status' \in [Goals -> Statuses]
    BY <1>3, TerminatedGoals DEF AcceptGoal, Statuses
  <2>2. preempt' \in BOOLEAN
    <3>1. preempt' = TRUE \/ preempt' = (preempt /\ ~IsActive(pending))
      BY <1>3, Zenon DEF AcceptGoal
    <3> QED BY <3>1, Zenon
  <2> QED BY <1>3, <2>1, <2>2 DEF TypeOK, AcceptGoal, lifeVars, Statuses
<1>4. ASSUME NEW g \in Goals, CancelGoal(g) PROVE TypeOK'
  BY <1>4 DEF TypeOK, CancelGoal, lifeVars, Ended
<1> QED BY <1>1, <1>2, <1>3, <1>4 DEF Callbacks

\* So does the worker.
LEMMA WorkerTyped == TypeOK /\ (WorkerStep \/ TornRead) => TypeOK'
<1> SUFFICES ASSUME TypeOK, WorkerStep \/ TornRead PROVE TypeOK'
  OBVIOUS
<1> USE DEF lifeVars, serverVars, Goto
<1>1. CASE Work \/ Execute \/ CheckCancel \/ CheckPreempt \/ Leave \/ TornRead
  BY <1>1 DEF TypeOK, Work, Execute, CheckCancel, CheckPreempt, Leave, TornRead
<1>2. CASE StopRobot
  BY <1>2 DEF TypeOK, StopRobot, PublishVelocity
<1>3. CASE OnCycleUpdate
  <2>1. seen' \in Clouds
    BY <1>3 DEF OnCycleUpdate, Readable, TypeOK
  <2> QED BY <1>3, <2>1 DEF TypeOK, OnCycleUpdate, PublishVelocity
<1>4. CASE OnRun \/ Cancel \/ Abort \/ Returned
  <2>1. status' \in [Goals -> Statuses]
    <3>1. status' = status \/ \E G : status' = Terminated(G)
      BY <1>4 DEF OnRun, Cancel, Abort, Returned
    <3> QED BY <3>1, TerminatedGoals DEF TypeOK, Statuses
  <2> QED BY <1>4, <2>1 DEF TypeOK, OnRun, Cancel, Abort, Returned, Statuses
<1>5. CASE Succeed
  <2>1. status' \in [Goals -> Statuses]
    BY <1>5 DEF TypeOK, Succeed, Statuses, Ended
  <2> QED BY <1>5, <2>1 DEF TypeOK, Succeed, Statuses
<1> QED BY <1>1, <1>2, <1>3, <1>4, <1>5 DEF WorkerStep

-----------------------------------------------------------------------------
\* A goal nobody has asked for is in nobody's hands.
LEMMA NewIsFree ==
  ASSUME HandlesInv, NEW g \in Goals, status[g] = "new"
  PROVE  g \notin {current, pending} /\ g # NoGoal
<1>1. g # NoGoal
  BY DEF Goals, NoGoal
<1> QED BY <1>1 DEF HandlesInv, IsActive

\* The handlers take a goal in hand when they accept it and end the one it replaces.
LEMMA CallbacksHandles == TypeOK /\ HandlesInv /\ (Lifecycle \/ Callbacks) => HandlesInv'
<1> SUFFICES ASSUME TypeOK, HandlesInv, Lifecycle \/ Callbacks PROVE HandlesInv'
  OBVIOUS
<1>1. CASE UNCHANGED <<serverVars, worker>>
  BY <1>1 DEF serverVars, HandlesInv, IsActive
<1>2. CASE Cleanup
  BY <1>2 DEF Cleanup, HandlesInv, Busy
<1>3. ASSUME NEW g \in Goals, RejectGoal(g) PROVE HandlesInv'
  <2>1. status[g] = "new" /\ status' = [status EXCEPT ![g] = "rejected"]
    BY <1>3 DEF RejectGoal, NextGoal
  <2>2. g \notin {current, pending}
    BY <2>1, NewIsFree
  <2> QED BY <1>3, <2>1, <2>2 DEF RejectGoal, HandlesInv, IsActive, TypeOK
<1>4. ASSUME NEW g \in Goals, CancelGoal(g) PROVE HandlesInv'
  BY <1>4 DEF CancelGoal, HandlesInv, IsActive, TypeOK
<1>5. ASSUME NEW g \in Goals, AcceptGoal(g) PROVE HandlesInv'
  <2>1. status[g] = "new" /\ status' = [Terminated({pending}) EXCEPT ![g] = "executing"]
    BY <1>5 DEF AcceptGoal, NextGoal
  <2>2. g \notin {current, pending} /\ g # NoGoal
    BY <2>1, NewIsFree
  <2>3. status'[g] = "executing" /\ \A h \in Goals \ {g, pending} : status'[h] = status[h]
    BY <2>1, TerminatedGoals
  <2>4. current # NoGoal => current \in Goals \ {g, pending}
    BY <2>2 DEF TypeOK, HandlesInv
  <2>5. CASE /\ pending' = g /\ preempt' = TRUE
             /\ UNCHANGED <<current, worker>>
    BY <2>2, <2>3, <2>4, <2>5 DEF HandlesInv, IsActive
  <2>6. CASE /\ ~IsActive(current)
             /\ current' = g /\ pending' = NoGoal
             /\ preempt' = (preempt /\ ~IsActive(pending))
             /\ worker' = "work"
    <3>1. ~preempt'
      BY <2>6, Zenon DEF HandlesInv
    <3> QED BY <2>2, <2>3, <2>6, <3>1 DEF HandlesInv, IsActive
  <2> QED BY <1>5, <2>5, <2>6, Zenon DEF AcceptGoal
<1> QED BY <1>1, <1>2, <1>3, <1>4, <1>5
        DEF Lifecycle, Configure, Activate, DeactivatePublisher, DeactivateServer, Deactivated,
            Shutdown, Callbacks, PointsArrive, PointsAssigned

\* The worker comes to each of its places with what it needs there and lets go of what it ends.
LEMMA WorkerHandles == TypeOK /\ HandlesInv /\ (WorkerStep \/ TornRead) => HandlesInv'
<1> SUFFICES ASSUME TypeOK, HandlesInv, WorkerStep \/ TornRead PROVE HandlesInv'
  OBVIOUS
<1>1. CASE UNCHANGED serverVars /\ (worker' \in Busy => worker \in Busy)
  BY <1>1 DEF serverVars, HandlesInv, IsActive
<1>2. CASE Work
  BY <1>2 DEF Work, Goto, serverVars, HandlesInv, IsActive, Busy
<1>3. CASE current' = NoGoal /\ worker' \notin Busy /\ status' = Terminated({current})
             /\ UNCHANGED <<pending, preempt>>
  <2>1. pending # NoGoal => status'[pending] = status[pending]
    <3>1. pending # NoGoal => pending \in Goals /\ pending # current
      BY DEF TypeOK, HandlesInv
    <3> QED BY <1>3, <3>1, TerminatedGoals
  <2> QED BY <1>3, <2>1 DEF HandlesInv, IsActive
<1>4. CASE OnRun
  BY <1>1, <1>3, <1>4 DEF OnRun, Goto, Busy, serverVars
<1>5. CASE Cancel
  BY <1>5 DEF Cancel, Goto, HandlesInv, Busy
<1>6. CASE Abort
  BY <1>3, <1>6 DEF Abort, Goto, Busy
<1>7. CASE Succeed
  <2>1. current # NoGoal /\ IsActive(current)
    BY <1>7 DEF Succeed, Goto, HandlesInv, Busy
  <2>2. pending # NoGoal => status'[pending] = status[pending]
    <3>1. pending # NoGoal => pending \in Goals /\ pending # current
      BY DEF TypeOK, HandlesInv
    <3> QED BY <1>7, <2>1, <3>1 DEF Succeed, TypeOK
  <2> QED BY <1>7, <2>2 DEF Succeed, Goto, HandlesInv, IsActive, Busy
<1>8. CASE Returned
  <2>1. CASE current' = NoGoal /\ pending' = NoGoal /\ preempt' = FALSE /\ worker' = "leave"
    BY <2>1 DEF HandlesInv, Busy
  <2>2. CASE /\ IsActive(pending) /\ worker' = "work"
             /\ status' = Terminated({current})
             /\ current' = pending /\ pending' = NoGoal /\ preempt' = FALSE
    <3>1. pending \in Goals /\ pending # current /\ pending # NoGoal
      BY <2>2 DEF TypeOK, HandlesInv, IsActive
    <3>2. status'[pending] = status[pending]
      BY <2>2, <3>1, TerminatedGoals
    <3> QED BY <2>2, <3>2 DEF HandlesInv, IsActive, Busy
  <2> QED BY <1>3, <1>8, <2>1, <2>2 DEF Returned, Goto, Busy
<1> QED BY <1>1, <1>2, <1>4, <1>5, <1>6, <1>7, <1>8
        DEF WorkerStep, TornRead, Execute, CheckCancel, CheckPreempt, StopRobot, OnCycleUpdate, Leave,
            Goto, Busy

\* The behavior is enabled before its server opens, and disabled after the last worker is gone.
LEMMA EnabledKept == EnabledInv /\ Next => EnabledInv'
<1> SUFFICES ASSUME EnabledInv, Next PROVE EnabledInv'
  OBVIOUS
<1> USE DEF EnabledInv, lifeVars
<1>1. CASE Lifecycle
  BY <1>1 DEF Lifecycle, Configure, Activate, DeactivatePublisher, DeactivateServer, Deactivated,
              Cleanup, Shutdown
<1>2. CASE Callbacks
  BY <1>2 DEF Callbacks, PointsArrive, PointsAssigned, RejectGoal, AcceptGoal, CancelGoal
<1>3. CASE WorkerStep
  BY <1>3 DEF WorkerStep, Work, Execute, OnRun, CheckCancel, CheckPreempt, StopRobot, Cancel, Abort,
              OnCycleUpdate, Succeed, Returned, Leave, Goto
<1>4. CASE TornRead
  BY <1>4 DEF TornRead
<1> QED BY <1>1, <1>2, <1>3, <1>4 DEF Next

\* No step of the executor or of the worker breaks the invariant.
LEMMA StepKeeps == IInv /\ [Next]_vars => IInv'
<1> SUFFICES ASSUME IInv, [Next]_vars PROVE IInv'
  OBVIOUS
<1>1. TypeOK /\ HandlesInv /\ EnabledInv
  BY DEF IInv
<1>2. CASE UNCHANGED vars
  BY <1>1, <1>2 DEF vars, lifeVars, serverVars, TypeOK, HandlesInv, EnabledInv, IsActive, IInv
<1>3. CASE Next
  <2>1. TypeOK' /\ HandlesInv'
    BY <1>1, <1>3, LifecycleTyped, CallbacksTyped, WorkerTyped, CallbacksHandles, WorkerHandles
       DEF Next
  <2> QED BY <1>1, <1>3, <2>1, EnabledKept DEF IInv
<1> QED BY <1>2, <1>3

\* The invariant holds in every reachable state.
LEMMA Invariant == Spec => []IInv
BY InitHolds, StepKeeps, PTL DEF Spec

-----------------------------------------------------------------------------
(* Results.                                                                *)

\* Types, and that execute() never meets a goal its server accepted while it is disabled, in the
\* middle of a deactivation either (timed_behavior's onActivate, onDeactivate and execute).
THEOREM AcceptedIsExecuted == Spec => []BehaviorInv
<1>1. IInv => BehaviorInv
  BY DEF IInv, EnabledInv, BehaviorInv, AcceptedFindsEnabled
<1> QED BY <1>1, Invariant, PTL

\* Whatever the point cloud, the clients and the lifecycle do meanwhile, the robot is only told to
\* move or to stop while a goal is executing, and never by an inactive node (publishVelocity).
THEOREM MotionIsForAGoal == Spec => MotionHasGoal
<1>1. IInv /\ [Next]_vars =>
        [cmd' # cmd => IsActive(current) /\ life \notin {"unconfigured", "inactive"}]_vars
  <2> SUFFICES ASSUME IInv, Next, cmd' # cmd
               PROVE  IsActive(current) /\ life \notin {"unconfigured", "inactive"}
    BY DEF vars
  <2>1. StopRobot \/ OnCycleUpdate
    BY DEF Next, lifeVars, Lifecycle, Configure, Activate, DeactivatePublisher, DeactivateServer,
           Deactivated, Cleanup, Shutdown, Callbacks, PointsArrive, PointsAssigned, RejectGoal,
           AcceptGoal, CancelGoal, WorkerStep, Work, Execute, OnRun, CheckCancel, CheckPreempt,
           Cancel, Abort, Succeed, Returned, Leave, TornRead
  <2>2. worker \in Busy /\ worker # "idle"
    BY <2>1 DEF StopRobot, OnCycleUpdate, Goto, Busy
  <2> QED BY <2>2 DEF IInv, HandlesInv, EnabledInv
<1> QED BY <1>1, Invariant, PTL DEF Spec, MotionHasGoal

-----------------------------------------------------------------------------
(* The server implements ActionServer.                                     *)

\* What its clients see given up is what is terminated.
LEMMA GivenUpIsTerminated == ASSUME NEW G PROVE Terminated(G) = Server!GivenUp(G)
BY DEF Terminated, Server!GivenUp, Server!Goals, Server!Live, Goals, IsActive, NoGoal

\* One goal, two or none: the server may give up all it has.
LEMMA AllGivenUp ==
  ASSUME TypeOK, status' = Terminated({current, pending}), current' = NoGoal, pending' = NoGoal
  PROVE  Server!Next
<1> USE GivenUpIsTerminated DEF Server!Next, Server!None, NoGoal
<1>1. NoGoal \notin Server!Live
  BY DEF Server!Live, Server!Goals
<1>2. CASE current = NoGoal /\ pending = NoGoal
  <2>1. Terminated({current, pending}) = status
    BY <1>2 DEF Terminated, IsActive, TypeOK
  <2> QED BY <1>2, <2>1 DEF Server!Unseen, Server!serverVars
<1>3. CASE current # NoGoal /\ pending = NoGoal
  <2>1. Server!GivenUp({current, pending}) = Server!GivenUp({current})
    BY <1>1, <1>3 DEF Server!GivenUp
  <2> QED BY <1>3, <2>1 DEF Server!GiveUpServed
<1>4. CASE current = NoGoal /\ pending # NoGoal
  <2>1. Server!GivenUp({current, pending}) = Server!GivenUp({pending})
    BY <1>1, <1>4 DEF Server!GivenUp
  <2> QED BY <1>4, <2>1 DEF Server!GiveUpWaiting
<1>5. CASE current # NoGoal /\ pending # NoGoal
  BY <1>5 DEF Server!GiveUpAll
<1> QED BY <1>2, <1>3, <1>4, <1>5

\* The server gives up the goal it serves, when there is one.
LEMMA CurrentGivenUp ==
  ASSUME TypeOK, status' = Terminated({current}), current' = NoGoal, UNCHANGED pending
  PROVE  Server!Next
<1> USE DEF Server!Next, Server!None, NoGoal
<1>1. CASE current = NoGoal
  <2>1. Terminated({current}) = status
    BY <1>1 DEF Terminated, IsActive, TypeOK
  <2> QED BY <1>1, <2>1 DEF Server!Unseen, Server!serverVars
<1>2. CASE current # NoGoal
  BY <1>2, GivenUpIsTerminated DEF Server!GiveUpServed
<1> QED BY <1>1, <1>2

\* The executor's steps are the promise's.
LEMMA CallbacksImplement == TypeOK /\ HandlesInv /\ (Lifecycle \/ Callbacks) => Server!Next
<1> SUFFICES ASSUME TypeOK, HandlesInv, Lifecycle \/ Callbacks PROVE Server!Next
  OBVIOUS
<1> USE DEF Server!Goals, Goals
<1>1. CASE UNCHANGED serverVars
  BY <1>1 DEF serverVars, Server!Next, Server!Unseen, Server!serverVars
<1>2. CASE Cleanup
  BY <1>2, AllGivenUp DEF Cleanup
<1>3. ASSUME NEW g \in Goals, RejectGoal(g) PROVE Server!Next
  BY <1>3 DEF RejectGoal, NextGoal, Server!Next, Server!Reject
<1>4. ASSUME NEW g \in Goals, CancelGoal(g) PROVE Server!Next
  BY <1>4 DEF CancelGoal, Server!Next, Server!AskToCancel
<1>5. ASSUME NEW g \in Goals, AcceptGoal(g) PROVE Server!Next
  <2>1. status[g] = "new" /\ status' = [Server!GivenUp({pending}) EXCEPT ![g] = "executing"]
    BY <1>5, GivenUpIsTerminated DEF AcceptGoal, NextGoal
  <2>2. \/ pending' = g /\ UNCHANGED current
        \/ ~IsActive(current) /\ current' = g /\ pending' = NoGoal
    BY <1>5, Zenon DEF AcceptGoal
  <2>3. Server!Accept(g)
    BY <2>1, <2>2 DEF HandlesInv, Server!Accept, Server!None, NoGoal
  <2> QED BY <2>3 DEF Server!Next
<1> QED BY <1>1, <1>2, <1>3, <1>4, <1>5
        DEF Lifecycle, Configure, Activate, DeactivatePublisher, DeactivateServer, Deactivated,
            Shutdown, Callbacks, PointsArrive, PointsAssigned

\* So are the worker's.
LEMMA WorkerImplements == TypeOK /\ HandlesInv /\ (WorkerStep \/ TornRead) => Server!Next
<1> SUFFICES ASSUME TypeOK, HandlesInv, WorkerStep \/ TornRead PROVE Server!Next
  OBVIOUS
<1>1. CASE UNCHANGED <<status, current, pending>>
  BY <1>1 DEF Server!Next, Server!Unseen, Server!serverVars
<1>2. CASE OnRun \/ Abort \/ Cancel
  BY <1>1, <1>2, CurrentGivenUp, AllGivenUp DEF OnRun, Abort, Cancel
<1>3. CASE Succeed
  <2>1. current # NoGoal /\ IsActive(current)
    BY <1>3 DEF Succeed, Goto, HandlesInv, Busy
  <2> QED BY <1>3, <2>1 DEF Succeed, Server!Next, Server!Succeed, Server!None, NoGoal
<1>4. CASE Returned
  <2>1. CASE IsActive(pending) /\ status' = Terminated({current}) /\ current' = pending /\ pending' = NoGoal
    BY <2>1, GivenUpIsTerminated DEF IsActive, Server!Next, Server!TakeOver, Server!None, NoGoal
  <2> QED BY <1>4, <2>1, AllGivenUp, CurrentGivenUp DEF Returned
<1> QED BY <1>1, <1>2, <1>3, <1>4
        DEF WorkerStep, TornRead, Work, Execute, CheckCancel, CheckPreempt, StopRobot, OnCycleUpdate,
            Leave, serverVars

\* The clients of the behavior get what ActionServer promises although their goals end in five
\* places: each accepted goal is in the server's hands until its one outcome, and only the goal
\* execute() ran for succeeds (execute, stopRobot and the server's terminate calls).
THEOREM KeepsPromise == Spec => ServerKeepsPromise
<1>1. Init => Server!Init
  BY DEF Init, Server!Init, Server!Goals, Server!None, Goals, NoGoal
<1>2. IInv /\ [Next]_vars => [Server!Next]_(Server!serverVars)
  <2> SUFFICES ASSUME IInv, [Next]_vars PROVE Server!Next
    BY DEF Server!serverVars
  <2>1. CASE UNCHANGED vars
    BY <2>1 DEF vars, serverVars, Server!Next, Server!Unseen, Server!serverVars
  <2> QED BY <2>1, CallbacksImplement, WorkerImplements DEF IInv, Next
<1> QED BY <1>1, <1>2, Invariant, PTL DEF Spec, ServerKeepsPromise, Server!Spec

\* The promise by itself: all its live goals are in the server's hands, each once.
InHand ==
  /\ status = [g \in Server!Goals |-> status[g]]
  /\ Server!NothingOrphaned
  /\ current # NoGoal => current # pending

\* No step that keeps the promise forgets a goal.
LEMMA InHandKept == InHand /\ Server!Next => InHand'
<1> SUFFICES ASSUME InHand, Server!Next PROVE InHand'
  OBVIOUS
<1> USE DEF Server!Goals, Server!None, NoGoal, InHand, Server!NothingOrphaned, Server!Live
<1>1. {current, pending} \subseteq Server!Goals \union {NoGoal}
  OBVIOUS
<1>2. CASE Server!Unseen
  BY <1>2 DEF Server!Unseen, Server!serverVars
<1>3. ASSUME NEW g \in Server!Goals, Server!Reject(g) \/ Server!AskToCancel(g) PROVE InHand'
  BY <1>3 DEF Server!Reject, Server!AskToCancel
<1>4. ASSUME NEW G
      PROVE  /\ Server!GivenUp(G) = [g \in Server!Goals |-> Server!GivenUp(G)[g]]
             /\ \A g \in Server!Goals :
                  Server!GivenUp(G)[g] \in {"executing", "canceling"} <=> g \in Server!Live \ G
  BY DEF Server!GivenUp
<1>5. CASE Server!Succeed
  BY <1>1, <1>5 DEF Server!Succeed
<1>6. ASSUME NEW G, status' = Server!GivenUp(G)
      PROVE  Server!Live' = Server!Live \ G /\ status' = [g \in Server!Goals |-> status'[g]]
  BY <1>4, <1>6
<1> HIDE DEF Server!Live
<1>7. ASSUME NEW g \in Server!Goals, Server!Accept(g) PROVE InHand'
  <2> DEFINE K == Server!GivenUp({pending})
  <2>1. status' = [K EXCEPT ![g] = "executing"] /\ status[g] = "new"
    BY <1>7 DEF Server!Accept
  <2>2. /\ K = [h \in Server!Goals |-> K[h]]
        /\ \A h \in Server!Goals :
             K[h] \in {"executing", "canceling"} <=> h \in Server!Live \ {pending}
    BY <1>4
  <2> HIDE DEF K
  <2>3. g \notin Server!Live
    BY <2>1 DEF Server!Live
  <2>4. status' = [h \in Server!Goals |-> status'[h]]
    BY <2>1, <2>2
  <2>5. \A h \in Server!Goals :
          status'[h] \in {"executing", "canceling"} <=> h = g \/ h \in Server!Live \ {pending}
    BY <2>1, <2>2
  <2>6. Server!Live' = (Server!Live \ {pending}) \union {g}
    BY <2>5 DEF Server!Live
  <2> QED BY <1>1, <1>7, <2>3, <2>4, <2>6 DEF Server!Accept
<1>8. CASE Server!GiveUpServed
  <2>1. Server!Live' = Server!Live \ {current} /\ status' = [g \in Server!Goals |-> status'[g]]
    BY <1>6, <1>8 DEF Server!GiveUpServed
  <2> QED BY <1>1, <1>8, <2>1 DEF Server!GiveUpServed
<1>9. CASE Server!GiveUpWaiting
  <2>1. Server!Live' = Server!Live \ {pending} /\ status' = [g \in Server!Goals |-> status'[g]]
    BY <1>6, <1>9 DEF Server!GiveUpWaiting
  <2> QED BY <1>1, <1>9, <2>1 DEF Server!GiveUpWaiting
<1>10. CASE Server!GiveUpAll
  <2>1. /\ Server!Live' = Server!Live \ {current, pending}
        /\ status' = [g \in Server!Goals |-> status'[g]]
    BY <1>6, <1>10 DEF Server!GiveUpAll
  <2> QED BY <1>1, <1>10, <2>1 DEF Server!GiveUpAll
<1>11. CASE Server!TakeOver
  <2>1. Server!Live' = Server!Live \ {current} /\ status' = [g \in Server!Goals |-> status'[g]]
    BY <1>6, <1>11 DEF Server!TakeOver
  <2> QED BY <1>1, <1>11, <2>1 DEF Server!TakeOver
<1> QED BY <1>2, <1>3, <1>5, <1>7, <1>8, <1>9, <1>10, <1>11 DEF Server!Next

\* No accepted goal is out of the server's hands before its client has an outcome, and nothing
\* that was answered stays in them: a property of the promise, and so of whatever keeps it.
THEOREM NothingIsOrphaned == Spec => []Server!NothingOrphaned
<1>1. Server!Init => InHand
  BY DEF Server!Init, InHand, Server!NothingOrphaned, Server!Live, Server!None, NoGoal
<1>2. InHand /\ [Server!Next]_(Server!serverVars) => InHand'
  <2>1. InHand /\ UNCHANGED Server!serverVars => InHand'
    BY DEF InHand, Server!serverVars, Server!NothingOrphaned, Server!Live
  <2> QED BY <2>1, InHandKept
<1>3. InHand => Server!NothingOrphaned
  BY DEF InHand
<1> QED BY <1>1, <1>2, <1>3, KeepsPromise, PTL DEF ServerKeepsPromise, Server!Spec
=============================================================================
