--------------------------- MODULE BtNavigatorProofs ---------------------------
(***************************************************************************)
(* Proofs about the two navigators, for every number of goals and every    *)
(* set of trees: the handles of the action servers hold live goals of      *)
(* their own navigator, the tree drives to the goal that is answered, the  *)
(* muxer is given back, and the pose navigator's server keeps what         *)
(* ActionServer promises.                                                  *)
(***************************************************************************)
EXTENDS BtNavigator, TLAPS

\* Where a worker has a goal in hand.
Busy == Running \union {"check", "load", "refuse", "start", "result"}

\* The handles of a server: what is current or pending is live and was sent to this navigator, no
\* goal is both, and a preemption is requested for a pending goal only.
ServerInv(n) ==
  /\ pending[n] # NoGoal => IsActive(pending[n]) /\ goals[pending[n]].nav = n
  /\ current[n] # NoGoal => IsActive(current[n]) /\ goals[current[n]].nav = n
  /\ current[n] # NoGoal => current[n] # pending[n]
  /\ preempt[n] => pending[n] # NoGoal

\* The worker of a navigator: it works for the current goal, whose pose is on the blackboard, and
\* the muxer names it only while it runs the tree.
WorkerInv(n) ==
  /\ worker[n] \in Busy => current[n] # NoGoal
  /\ worker[n] = "preempt" => preempt[n]
  /\ worker[n] \in Running \union {"start"} => target[n] = current[n]
  /\ muxer = n => worker[n] \in Running

\* A goal nobody has asked for yet counts as one for the pose navigator.
FreshAtPose == \A g \in Goals : goals[g].status = "new" => goals[g].nav = "pose"

\* The pose server is only ever active between an activation of both and its own stop.
ActivationInv == life \in {"unconfigured", "inactive", "stopPose"} => ~active["pose"]

IInv ==
  /\ TypeOK
  /\ \A n \in Navs : ServerInv(n)
  /\ \A n \in Navs : WorkerInv(n)
  /\ FreshAtPose
  /\ ActivationInv

-----------------------------------------------------------------------------
(* Types.                                                                  *)

Asks == [nav : Navs, tree : Trees,
         status : {"new", "rejected", "executing", "canceling", "succeeded", "aborted", "canceled"}]

\* Terminating goals ends those that are live and touches nothing else.
LEMMA TerminatedGoals ==
  ASSUME TypeOK, NEW G
  PROVE  /\ Terminated(G) \in [Goals -> Asks]
         /\ \A g \in Goals :
              /\ Terminated(G)[g].nav = goals[g].nav
              /\ Terminated(G)[g].tree = goals[g].tree
              /\ g \in G /\ IsActive(g) =>
                   Terminated(G)[g].status =
                     IF goals[g].status = "canceling" THEN "canceled" ELSE "aborted"
              /\ g \notin G \/ ~IsActive(g) => Terminated(G)[g] = goals[g]
<1>1. goals \in [Goals -> Asks]
  BY DEF TypeOK, Asks
<1>2. ASSUME NEW g \in Goals
      PROVE  /\ Terminated(G)[g] \in Asks
             /\ Terminated(G)[g].nav = goals[g].nav
             /\ Terminated(G)[g].tree = goals[g].tree
             /\ g \in G /\ IsActive(g) =>
                  Terminated(G)[g].status =
                    IF goals[g].status = "canceling" THEN "canceled" ELSE "aborted"
             /\ g \notin G \/ ~IsActive(g) => Terminated(G)[g] = goals[g]
  <2>1. goals[g] \in Asks
    BY <1>1
  <2>2. CASE g \in G /\ IsActive(g)
    BY <2>1, <2>2 DEF Terminated, Asks
  <2>3. CASE ~(g \in G /\ IsActive(g))
    BY <2>1, <2>3 DEF Terminated
  <2> QED BY <2>2, <2>3
<1>3. Terminated(G) \in [Goals -> Asks]
  BY <1>2 DEF Terminated
<1> QED BY <1>2, <1>3

\* Initially nothing is asked for and nothing runs.
LEMMA InitHolds == Init => IInv
<1> SUFFICES ASSUME Init PROVE IInv
  OBVIOUS
<1>1. TypeOK
  BY TreesAssumption DEF Init, TypeOK, Navs, Running, Asks
<1>2. \A n \in Navs : ServerInv(n)
  BY DEF Init, ServerInv
<1>3. \A n \in Navs : WorkerInv(n)
  BY DEF Init, WorkerInv, Navs, Busy, Running
<1>4. FreshAtPose /\ ActivationInv
  BY DEF Init, FreshAtPose, ActivationInv, Navs
<1> QED BY <1>1, <1>2, <1>3, <1>4 DEF IInv

\* Setting the status of one goal.
WithStatus(g, s) == [goals EXCEPT ![g].status = s]

LEMMA StatusSet ==
  ASSUME TypeOK, NEW g, NEW s \in {"rejected", "executing", "canceling", "succeeded"}
  PROVE  /\ WithStatus(g, s) \in [Goals -> Asks]
         /\ \A h \in Goals :
              /\ WithStatus(g, s)[h].nav = goals[h].nav
              /\ WithStatus(g, s)[h].tree = goals[h].tree
              /\ h = g => WithStatus(g, s)[h].status = s
              /\ h # g => WithStatus(g, s)[h] = goals[h]
<1>1. goals \in [Goals -> Asks]
  BY DEF TypeOK, Asks
<1>2. ASSUME NEW h \in Goals
      PROVE  /\ WithStatus(g, s)[h] \in Asks
             /\ WithStatus(g, s)[h].nav = goals[h].nav
             /\ WithStatus(g, s)[h].tree = goals[h].tree
             /\ h = g => WithStatus(g, s)[h].status = s
             /\ h # g => WithStatus(g, s)[h] = goals[h]
  <2>1. goals[h] \in Asks
    BY <1>1
  <2>2. CASE h = g
    BY <1>1, <2>1, <2>2 DEF WithStatus, Asks
  <2>3. CASE h # g
    BY <1>1, <2>1, <2>3 DEF WithStatus
  <2> QED BY <2>2, <2>3
<1>3. WithStatus(g, s) \in [Goals -> Asks]
  BY <1>1, <1>2 DEF WithStatus
<1> QED BY <1>2, <1>3

\* The lifecycle's steps keep the types.
LEMMA LifecycleTyped == TypeOK /\ Lifecycle => TypeOK'
<1> SUFFICES ASSUME TypeOK, Lifecycle PROVE TypeOK'
  OBVIOUS
<1> USE DEF lifeVars, navVars, serverVars, Navs
<1>1. CASE Configure
  BY <1>1 DEF TypeOK, Configure
<1>2. CASE Activate
  <2>1. PICK loaded \in {{}, {"poses"}, Navs} :
          /\ active' = [n \in Navs |-> active[n] \/ n \in loaded]
          /\ stopping' = [n \in Navs |-> stopping[n] /\ n \notin loaded]
          /\ tree' = [n \in Navs |-> IF n \in loaded THEN DefaultTree ELSE tree[n]]
    BY <1>2 DEF Activate
  <2>2. active' \in [Navs -> BOOLEAN] /\ stopping' \in [Navs -> BOOLEAN]
    BY <2>1
  <2>3. tree' \in [Navs -> (Trees \ BadTrees) \union {DefaultTree, NoTree}]
    BY <2>1 DEF TypeOK
  <2> QED BY <1>2, <2>2, <2>3 DEF TypeOK, Activate
<1>3. CASE Deactivate
  BY <1>3 DEF TypeOK, Deactivate, StopServer
<1>4. CASE PosesStopped
  BY <1>4 DEF TypeOK, PosesStopped, StopServer
<1>5. CASE PoseStopped
  BY <1>5 DEF TypeOK, PoseStopped
<1>6. CASE Cleanup
  <2>1. CASE \E n \in Navs : worker[n] # "idle"
    <3>1. life' = "crashed" /\ UNCHANGED <<active, stopping, navVars, serverVars>>
      BY <1>6, <2>1 DEF Cleanup
    <3> QED BY <3>1 DEF TypeOK
  <2>2. CASE \A n \in Navs : worker[n] = "idle"
    <3>1. /\ life' = "unconfigured"
          /\ active' = [n \in Navs |-> FALSE] /\ stopping' = [n \in Navs |-> FALSE]
          /\ current' = [n \in Navs |-> NoGoal] /\ pending' = [n \in Navs |-> NoGoal]
          /\ preempt' = [n \in Navs |-> FALSE] /\ tree' = [n \in Navs |-> NoTree]
          /\ target' = [n \in Navs |-> NoGoal]
          /\ \E G : goals' = Terminated(G)
          /\ UNCHANGED <<worker, looked, rc, muxer>>
      BY <1>6, <2>2 DEF Cleanup
    <3>2. goals' \in [Goals -> Asks]
      BY <3>1, TerminatedGoals
    <3> QED BY <3>1, <3>2 DEF TypeOK, Asks
  <2> QED BY <2>1, <2>2
<1>7. CASE Shutdown
  BY <1>7 DEF TypeOK, Shutdown
<1> QED BY <1>1, <1>2, <1>3, <1>4, <1>5, <1>6, <1>7 DEF Lifecycle

\* So do the handlers of the servers.
LEMMA ClientsTyped == TypeOK /\ Clients => TypeOK'
<1> SUFFICES ASSUME TypeOK, Clients PROVE TypeOK'
  OBVIOUS
<1> USE DEF lifeVars, navVars
<1>1. ASSUME NEW g \in Goals, NEW n \in Navs, RejectGoal(g, n) PROVE TypeOK'
  <2>1. goals' \in [Goals -> Asks]
    <3>1. goals' = WithStatus(g, "rejected")
      BY <1>1 DEF RejectGoal, WithStatus
    <3> QED BY <3>1, StatusSet
  <2> QED BY <1>1, <2>1 DEF TypeOK, RejectGoal, Asks
<1>2. ASSUME NEW g \in Goals, NEW n \in Navs, NEW t \in Trees, AcceptGoal(g, n, t) PROVE TypeOK'
  <2>1. goals' \in [Goals -> Asks]
    <3>1. Terminated({pending[n]}) \in [Goals -> Asks]
      BY TerminatedGoals
    <3>2. [nav |-> n, tree |-> t, status |-> "executing"] \in Asks
      BY DEF Asks
    <3> QED BY <1>2, <3>1, <3>2 DEF AcceptGoal, Asked
  <2>2. preempt' \in [Navs -> BOOLEAN]
    <3>1. \/ preempt' = [preempt EXCEPT ![n] = TRUE]
          \/ preempt' = [preempt EXCEPT ![n] = preempt[n] /\ ~IsActive(pending[n])]
      BY <1>2, Zenon DEF AcceptGoal
    <3>2. (preempt[n] /\ ~IsActive(pending[n])) \in BOOLEAN
      OBVIOUS
    <3>3. \E b \in BOOLEAN : preempt' = [preempt EXCEPT ![n] = b]
      BY <3>1, <3>2, Zenon
    <3> QED BY <3>3 DEF TypeOK
  <2>3. /\ current' \in [Navs -> Goals \union {NoGoal}]
        /\ pending' \in [Navs -> Goals \union {NoGoal}]
        /\ worker' \in [Navs -> Running \union {"idle", "work", "check", "load", "refuse",
                                               "start", "result", "after", "leave"}]
    <3>1. \/ pending' = [pending EXCEPT ![n] = g] /\ UNCHANGED <<current, worker>>
          \/ /\ pending' = [pending EXCEPT ![n] = NoGoal]
             /\ current' = [current EXCEPT ![n] = g]
             /\ worker' = [worker EXCEPT ![n] = "work"]
      BY <1>2, Zenon DEF AcceptGoal
    <3>2. CASE pending' = [pending EXCEPT ![n] = g] /\ UNCHANGED <<current, worker>>
      BY <3>2 DEF TypeOK
    <3>3. CASE /\ pending' = [pending EXCEPT ![n] = NoGoal]
               /\ current' = [current EXCEPT ![n] = g]
               /\ worker' = [worker EXCEPT ![n] = "work"]
      BY <3>3 DEF TypeOK
    <3> QED BY <3>1, <3>2, <3>3
  <2> QED BY <1>2, <2>1, <2>2, <2>3 DEF TypeOK, AcceptGoal, Asks
<1>3. ASSUME NEW g \in Goals, CancelGoal(g) PROVE TypeOK'
  <2>1. goals' \in [Goals -> Asks]
    <3>1. goals' = WithStatus(g, "canceling")
      BY <1>3 DEF CancelGoal, WithStatus
    <3> QED BY <3>1, StatusSet
  <2> QED BY <1>3, <2>1 DEF TypeOK, CancelGoal, Asks
<1> QED BY <1>1, <1>2, <1>3 DEF Clients

\* So do the workers; a tree that is taken over is one that loads.
LEMMA WorkersTyped ==
  ASSUME TypeOK, NEW n \in Navs, WorkerInv(n), WorkerStep(n)
  PROVE  TypeOK'
<1> USE DEF lifeVars, serverVars, Goto, Running
<1>1. CASE Work(n)
  BY <1>1 DEF TypeOK, Work
<1>2. CASE CheckMuxer(n)
  BY <1>2 DEF TypeOK, CheckMuxer
<1>3. CASE GoalReceived(n)
  <2>1. current[n] \in Goals
    BY <1>3 DEF TypeOK, GoalReceived, WorkerInv, Busy
  <2>2. Requested(n) \in Trees \union {DefaultTree}
    BY <2>1 DEF TypeOK, Requested, TreeOf
  <2>3. tree' \in [Navs -> (Trees \ BadTrees) \union {DefaultTree, NoTree}]
    BY <1>3, <2>2, ZenonT(40) DEF TypeOK, GoalReceived
  <2>4. target' \in [Navs -> Goals \union {NoGoal}]
    BY <1>3, <2>1 DEF TypeOK, GoalReceived
  <2> QED BY <1>3, <2>3, <2>4, ZenonT(40) DEF TypeOK, GoalReceived
<1>4. CASE StartNavigating(n)
  BY <1>4 DEF TypeOK, StartNavigating
<1>5. CASE Halt(n)
  BY <1>5 DEF TypeOK, Halt
<1>6. ASSUME NEW r \in {"running", "success", "failure"}, Tick(n, r) PROVE TypeOK'
  BY <1>6 DEF TypeOK, Tick
<1>7. CASE Loop(n)
  BY <1>7 DEF TypeOK, Loop, AfterLoop
<1>8. CASE Preempt(n)
  <2>1. goals' \in [Goals -> Asks]
    BY <1>8, TerminatedGoals DEF Preempt, AcceptPending
  <2>2. /\ current' \in [Navs -> Goals \union {NoGoal}]
        /\ pending' \in [Navs -> Goals \union {NoGoal}]
        /\ target' \in [Navs -> Goals \union {NoGoal}]
    BY <1>8, ZenonT(40) DEF TypeOK, Preempt, AcceptPending
  <2>3. preempt' \in [Navs -> BOOLEAN]
    BY <1>8 DEF TypeOK, Preempt, AcceptPending
  <2> QED BY <1>8, <2>1, <2>2, <2>3 DEF TypeOK, Preempt, AfterLoop, Asks
<1>9. CASE Completion(n)
  BY <1>9 DEF TypeOK, Completion
<1>10. CASE Result(n)
  <2>1. goals' \in [Goals -> Asks]
    <3>1. CASE goals' = WithStatus(current[n], "succeeded")
      BY <3>1, StatusSet
    <3>2. CASE \E G : goals' = Terminated(G)
      BY <3>2, TerminatedGoals
    <3> QED BY <1>10, <3>1, <3>2 DEF Result, WithStatus
  <2> QED BY <1>10, <2>1 DEF TypeOK, Result, Asks
<1>11. CASE Refuse(n)
  <2>1. goals' \in [Goals -> Asks]
    BY <1>11, TerminatedGoals DEF Refuse
  <2> QED BY <1>11, <2>1 DEF TypeOK, Refuse, Asks
<1>12. CASE After(n)
  <2>1. goals' \in [Goals -> Asks]
    <3>1. goals \in [Goals -> Asks]
      BY DEF TypeOK, Asks
    <3> QED BY <1>12, <3>1, TerminatedGoals DEF After, AcceptPending
  <2> QED BY <1>12, <2>1 DEF TypeOK, After, AcceptPending, Asks
<1>13. CASE Leave(n)
  BY <1>13 DEF TypeOK, Leave
<1> QED BY <1>1, <1>2, <1>3, <1>4, <1>5, <1>6, <1>7, <1>8, <1>9, <1>10, <1>11, <1>12, <1>13
        DEF WorkerStep

-----------------------------------------------------------------------------
(* The handles.                                                            *)

\* What a handle holds is a goal or nothing.
LEMMA HandleTypes ==
  ASSUME TypeOK, NEW n \in Navs
  PROVE  /\ current[n] \in Goals \union {NoGoal} /\ pending[n] \in Goals \union {NoGoal}
         /\ {current[n], pending[n]} \ {NoGoal} \subseteq Goals
<1>1. current[n] \in Goals \union {NoGoal} /\ pending[n] \in Goals \union {NoGoal}
  BY DEF TypeOK
<1> QED BY <1>1

\* A goal nobody has asked for is in nobody's hands.
LEMMA NewIsFree ==
  ASSUME TypeOK, NEW n \in Navs, ServerInv(n), NEW g \in Goals, goals[g].status = "new"
  PROVE  g \notin {current[n], pending[n]}
<1>1. g # NoGoal
  BY DEF Goals, NoGoal
<1> QED BY <1>1 DEF ServerInv, IsActive

\* The handles of a navigator stay as they are, and the goals in them live.
LEMMA HandlesKept ==
  ASSUME NEW n \in Navs, ServerInv(n),
         current'[n] = current[n], pending'[n] = pending[n], preempt'[n] = preempt[n],
         \A g \in {current[n], pending[n]} \ {NoGoal} :
           goals'[g].nav = goals[g].nav /\ goals'[g].status \in {"executing", "canceling"}
  PROVE  ServerInv(n)'
BY DEF ServerInv, IsActive

\* Goals of one navigator are none of the other's.
LEMMA HandlesApart ==
  ASSUME NEW n \in Navs, NEW m \in Navs \ {n}, ServerInv(n), ServerInv(m)
  PROVE  {current[n], pending[n]} \cap {current[m], pending[m]} \subseteq {NoGoal}
BY DEF ServerInv

\* A step of navigator n that ends only goals of its own keeps the other's handles.
LEMMA OtherHandles ==
  ASSUME TypeOK, NEW n \in Navs, NEW m \in Navs \ {n}, ServerInv(n), ServerInv(m),
         NEW G \in SUBSET {current[n], pending[n]}, goals' = Terminated(G),
         current'[m] = current[m], pending'[m] = pending[m], preempt'[m] = preempt[m]
  PROVE  ServerInv(m)'
<1>1. {current[m], pending[m]} \ {NoGoal} \subseteq Goals
  BY HandleTypes
<1>2. ASSUME NEW g \in {current[m], pending[m]} \ {NoGoal}
      PROVE  goals'[g].nav = goals[g].nav /\ goals'[g].status \in {"executing", "canceling"}
  <2>1. g \in Goals /\ g \notin G
    BY <1>1, <1>2, HandlesApart
  <2>2. goals'[g] = goals[g]
    BY <2>1, TerminatedGoals
  <2> QED BY <1>2, <2>2 DEF ServerInv, IsActive
<1> QED BY <1>2, HandlesKept

\* A cleanup lets go of every goal it ends; the other lifecycle steps end none.
LEMMA LifecycleHandles ==
  ASSUME TypeOK, \A n \in Navs : ServerInv(n), Lifecycle
  PROVE  \A n \in Navs : ServerInv(n)'
<1>1. CASE UNCHANGED serverVars
  BY <1>1 DEF serverVars, ServerInv, IsActive
<1>2. CASE Cleanup /\ ~UNCHANGED serverVars
  <2>1. /\ current' = [n \in Navs |-> NoGoal] /\ pending' = [n \in Navs |-> NoGoal]
        /\ preempt' = [n \in Navs |-> FALSE]
    BY <1>2 DEF Cleanup
  <2> QED BY <2>1 DEF ServerInv
<1> QED BY <1>1, <1>2 DEF Lifecycle, Configure, Activate, Deactivate, PosesStopped, PoseStopped, Shutdown

\* A goal is taken in hand when it is accepted, and the one it replaces is ended.
LEMMA ClientsHandles ==
  ASSUME TypeOK, \A n \in Navs : ServerInv(n), Clients
  PROVE  \A n \in Navs : ServerInv(n)'
<1>1. ASSUME NEW g \in Goals, NEW n \in Navs, RejectGoal(g, n), NEW m \in Navs
      PROVE  ServerInv(m)'
  <2>1. goals' = WithStatus(g, "rejected") /\ UNCHANGED <<current, pending, preempt>>
    BY <1>1 DEF RejectGoal, WithStatus
  <2>2. goals[g].status = "new"
    BY <1>1 DEF RejectGoal, NextGoal
  <2>3. {current[m], pending[m]} \ {NoGoal} \subseteq Goals \ {g}
    BY <2>2, HandleTypes, NewIsFree
  <2>4. \A h \in {current[m], pending[m]} \ {NoGoal} :
          goals'[h].nav = goals[h].nav /\ goals'[h].status \in {"executing", "canceling"}
    BY <2>1, <2>3, StatusSet DEF ServerInv, IsActive
  <2> QED BY <2>1, <2>4, HandlesKept
<1>2. ASSUME NEW g \in Goals, CancelGoal(g), NEW m \in Navs
      PROVE  ServerInv(m)'
  <2>1. goals' = WithStatus(g, "canceling") /\ UNCHANGED <<current, pending, preempt>>
    BY <1>2 DEF CancelGoal, WithStatus
  <2>2. {current[m], pending[m]} \ {NoGoal} \subseteq Goals
    BY HandleTypes
  <2>3. \A h \in {current[m], pending[m]} \ {NoGoal} :
          goals'[h].nav = goals[h].nav /\ goals'[h].status \in {"executing", "canceling"}
    BY <2>1, <2>2, StatusSet DEF ServerInv, IsActive
  <2> QED BY <2>1, <2>3, HandlesKept
<1>3. ASSUME NEW g \in Goals, NEW n \in Navs, NEW t \in Trees, AcceptGoal(g, n, t), NEW m \in Navs
      PROVE  ServerInv(m)'
  <2>1. goals[g].status = "new" /\ goals' = Asked(g, n, t, "executing")
    BY <1>3 DEF AcceptGoal, NextGoal
  <2>2. /\ goals'[g].nav = n /\ goals'[g].status = "executing"
        /\ \A h \in Goals \ {g} : goals'[h] = Terminated({pending[n]})[h]
    BY <2>1, TerminatedGoals DEF Asked
  <2>3. {current[m], pending[m]} \ {NoGoal} \subseteq Goals \ {g}
    BY <2>1, HandleTypes, NewIsFree
  <2>4. \A h \in {current[m], pending[m]} \ {NoGoal, pending[n]} : goals'[h] = goals[h]
    BY <2>2, <2>3, TerminatedGoals
  <2>5. CASE m # n
    <3>1. current'[m] = current[m] /\ pending'[m] = pending[m] /\ preempt'[m] = preempt[m]
      BY <1>3, <2>5 DEF AcceptGoal, TypeOK
    <3>2. pending[n] \notin {current[m], pending[m]} \ {NoGoal}
      BY <2>5, HandlesApart
    <3> QED BY <2>4, <3>1, <3>2, HandlesKept DEF ServerInv, IsActive
  <2>6. CASE m = n /\ pending' = [pending EXCEPT ![n] = g] /\ UNCHANGED current
    <3>1. pending'[n] = g /\ current'[n] = current[n]
      BY <2>6 DEF TypeOK
    <3>2. current[n] # NoGoal => goals'[current[n]] = goals[current[n]]
      BY <2>4, <2>6 DEF ServerInv
    <3> QED BY <2>2, <2>3, <2>6, <3>1, <3>2 DEF ServerInv, IsActive, NoGoal, Goals
  <2>7. CASE m = n /\ pending' = [pending EXCEPT ![n] = NoGoal] /\ current' = [current EXCEPT ![n] = g]
    <3>1. pending'[n] = NoGoal /\ current'[n] = g
      BY <2>7 DEF TypeOK
    <3>2. ~preempt'[n]
      <4>1. g # NoGoal
        BY DEF Goals, NoGoal
      <4>2. preempt' = [preempt EXCEPT ![n] = preempt[n] /\ ~IsActive(pending[n])]
        <5>1. pending'[n] = NoGoal
          BY <3>1
        <5> QED BY <1>3, <4>1, <5>1 DEF AcceptGoal, TypeOK
      <4>3. ~(preempt[n] /\ ~IsActive(pending[n]))
        BY DEF ServerInv
      <4> QED BY <4>2, <4>3, Zenon DEF TypeOK
    <3> QED BY <2>2, <2>7, <3>1, <3>2 DEF ServerInv, IsActive, NoGoal, Goals
  <2> QED BY <1>3, <2>5, <2>6, <2>7 DEF AcceptGoal
<1> QED BY <1>1, <1>2, <1>3 DEF Clients

\* A step of a worker that takes no goal in hand and lets none go.
LEMMA HandlesUntouched ==
  ASSUME \A n \in Navs : ServerInv(n), UNCHANGED serverVars
  PROVE  \A n \in Navs : ServerInv(n)'
BY DEF serverVars, ServerInv, IsActive

\* Navigator n lets go of everything, and all it had is ended.
LEMMA HandlesEmptied ==
  ASSUME NEW n \in Navs, current'[n] = NoGoal, pending'[n] = NoGoal, preempt'[n] = FALSE
  PROVE  ServerInv(n)'
BY DEF ServerInv

\* The pending goal takes over from the current one.
LEMMA PendingAccepted ==
  ASSUME TypeOK, NEW n \in Navs, \A m \in Navs : ServerInv(m), AcceptPending(n), pending[n] # NoGoal,
         NEW m \in Navs
  PROVE  ServerInv(m)'
<1>1. CASE m = n
  <2>1. /\ current'[n] = pending[n] /\ pending'[n] = NoGoal /\ preempt'[n] = FALSE
    BY DEF AcceptPending, TypeOK
  <2>2. pending[n] \in Goals /\ pending[n] # current[n]
    BY HandleTypes DEF ServerInv
  <2>3. goals'[pending[n]] = goals[pending[n]]
    BY <2>2, TerminatedGoals DEF AcceptPending
  <2> QED BY <1>1, <2>1, <2>3 DEF ServerInv, IsActive
<1>2. CASE m # n
  <2>1. current'[m] = current[m] /\ pending'[m] = pending[m] /\ preempt'[m] = preempt[m]
    BY <1>2 DEF AcceptPending, TypeOK
  <2> QED BY <1>2, <2>1, OtherHandles DEF AcceptPending
<1> QED BY <1>1, <1>2

\* The pending goal is given up.
LEMMA PendingDropped ==
  ASSUME TypeOK, NEW n \in Navs, \A m \in Navs : ServerInv(m),
         goals' = Terminated({pending[n]}), UNCHANGED current,
         pending' = [pending EXCEPT ![n] = NoGoal], preempt' = [preempt EXCEPT ![n] = FALSE],
         NEW m \in Navs
  PROVE  ServerInv(m)'
<1>1. CASE m = n
  <2>1. current'[n] = current[n] /\ pending'[n] = NoGoal /\ preempt'[n] = FALSE
    BY DEF TypeOK
  <2>2. current[n] # NoGoal => goals'[current[n]] = goals[current[n]]
    BY HandleTypes, TerminatedGoals DEF ServerInv
  <2> QED BY <1>1, <2>1, <2>2 DEF ServerInv, IsActive
<1>2. CASE m # n
  <2>1. current'[m] = current[m] /\ pending'[m] = pending[m] /\ preempt'[m] = preempt[m]
    BY <1>2 DEF TypeOK
  <2> QED BY <1>2, <2>1, OtherHandles
<1> QED BY <1>1, <1>2

\* The current goal is given up.
LEMMA CurrentDropped ==
  ASSUME TypeOK, NEW n \in Navs, \A m \in Navs : ServerInv(m),
         goals' = Terminated({current[n]}), UNCHANGED <<pending, preempt>>,
         current' = [current EXCEPT ![n] = NoGoal],
         NEW m \in Navs
  PROVE  ServerInv(m)'
<1>1. CASE m = n
  <2>1. current'[n] = NoGoal /\ pending'[n] = pending[n] /\ preempt'[n] = preempt[n]
    BY DEF TypeOK
  <2>2. pending[n] # NoGoal => goals'[pending[n]] = goals[pending[n]]
    BY HandleTypes, TerminatedGoals DEF ServerInv
  <2> QED BY <1>1, <2>1, <2>2 DEF ServerInv, IsActive
<1>2. CASE m # n
  <2>1. current'[m] = current[m] /\ pending'[m] = pending[m] /\ preempt'[m] = preempt[m]
    BY <1>2 DEF TypeOK
  <2> QED BY <1>2, <2>1, OtherHandles
<1> QED BY <1>1, <1>2

\* Both goals of a server are given up.
LEMMA AllDropped ==
  ASSUME TypeOK, NEW n \in Navs, \A m \in Navs : ServerInv(m),
         goals' = Terminated({current[n], pending[n]}),
         current' = [current EXCEPT ![n] = NoGoal],
         pending' = [pending EXCEPT ![n] = NoGoal], preempt' = [preempt EXCEPT ![n] = FALSE],
         NEW m \in Navs
  PROVE  ServerInv(m)'
<1>1. CASE m = n
  <2>1. current'[n] = NoGoal /\ pending'[n] = NoGoal /\ preempt'[n] = FALSE
    BY DEF TypeOK
  <2> QED BY <1>1, <2>1, HandlesEmptied
<1>2. CASE m # n
  <2>1. current'[m] = current[m] /\ pending'[m] = pending[m] /\ preempt'[m] = preempt[m]
    BY <1>2 DEF TypeOK
  <2> QED BY <1>2, <2>1, OtherHandles
<1> QED BY <1>1, <1>2

\* The current goal succeeds.
LEMMA CurrentSucceeded ==
  ASSUME TypeOK, NEW n \in Navs, \A m \in Navs : ServerInv(m), current[n] # NoGoal,
         goals' = WithStatus(current[n], "succeeded"), UNCHANGED <<pending, preempt>>,
         current' = [current EXCEPT ![n] = NoGoal],
         NEW m \in Navs
  PROVE  ServerInv(m)'
<1>1. CASE m = n
  <2>1. current'[n] = NoGoal /\ pending'[n] = pending[n] /\ preempt'[n] = preempt[n]
    BY DEF TypeOK
  <2>2. pending[n] # NoGoal => goals'[pending[n]] = goals[pending[n]]
    BY HandleTypes, StatusSet DEF ServerInv
  <2> QED BY <1>1, <2>1, <2>2 DEF ServerInv, IsActive
<1>2. CASE m # n
  <2>1. current'[m] = current[m] /\ pending'[m] = pending[m] /\ preempt'[m] = preempt[m]
    BY <1>2 DEF TypeOK
  <2>2. \A g \in {current[m], pending[m]} \ {NoGoal} : g \in Goals /\ g # current[n]
    BY <1>2, HandleTypes, HandlesApart
  <2>3. \A g \in {current[m], pending[m]} \ {NoGoal} : goals'[g] = goals[g]
    BY <2>2, StatusSet
  <2> QED BY <2>1, <2>3, HandlesKept DEF ServerInv, IsActive
<1> QED BY <1>1, <1>2

\* Whatever a worker ends it lets go of, and it keeps hold of everything else.
LEMMA WorkersHandles ==
  ASSUME TypeOK, \A m \in Navs : ServerInv(m), NEW n \in Navs, WorkerInv(n), WorkerStep(n),
         NEW m \in Navs
  PROVE  ServerInv(m)'
<1>1. CASE UNCHANGED serverVars
  BY <1>1, HandlesUntouched
<1>2. CASE Preempt(n)
  <2>1. pending[n] # NoGoal
    BY <1>2 DEF Preempt, Goto, WorkerInv, ServerInv
  <2> QED BY <1>2, <2>1, PendingAccepted, PendingDropped DEF Preempt
<1>3. CASE Result(n)
  <2>1. current[n] # NoGoal
    BY <1>3 DEF Result, Goto, WorkerInv, Busy
  <2> QED BY <1>3, <2>1, CurrentSucceeded, CurrentDropped, AllDropped DEF Result, WithStatus
<1>4. CASE Refuse(n)
  BY <1>4, CurrentDropped DEF Refuse
<1>5. CASE After(n)
  BY <1>5, <1>1, AllDropped, PendingAccepted DEF After
<1> QED BY <1>1, <1>2, <1>3, <1>4, <1>5
        DEF WorkerStep, Work, CheckMuxer, GoalReceived, StartNavigating, Halt, Tick, Loop,
            Completion, Leave

-----------------------------------------------------------------------------
(* The workers.                                                            *)

\* The worker of a navigator stays as it is, with its goal and its place on the blackboard.
LEMMA WorkerKept ==
  ASSUME NEW n \in Navs, WorkerInv(n),
         worker'[n] = worker[n], current'[n] = current[n], target'[n] = target[n],
         preempt[n] => preempt'[n], muxer' = muxer \/ muxer' # n
  PROVE  WorkerInv(n)'
BY DEF WorkerInv, Busy, Running

\* The lifecycle's steps leave the workers alone, but for a cleanup, when there are none.
LEMMA LifecycleWorkers ==
  ASSUME TypeOK, \A n \in Navs : WorkerInv(n), Lifecycle, NEW n \in Navs
  PROVE  WorkerInv(n)'
<1>1. CASE UNCHANGED <<worker, current, target, preempt, muxer>>
  BY <1>1 DEF WorkerInv
<1>2. CASE Cleanup /\ ~UNCHANGED <<worker, current, target, preempt, muxer>>
  <2>1. worker[n] = "idle" /\ UNCHANGED <<worker, muxer>>
    BY <1>2 DEF Cleanup, navVars, serverVars
  <2> QED BY <2>1 DEF WorkerInv, Busy, Running
<1> QED BY <1>1, <1>2
        DEF Lifecycle, Configure, Activate, Deactivate, PosesStopped, PoseStopped, Shutdown,
            navVars, serverVars

\* The handlers start a worker with a goal and never take the goal of one that runs.
LEMMA ClientsWorkers ==
  ASSUME TypeOK, \A n \in Navs : ServerInv(n), \A n \in Navs : WorkerInv(n), Clients, NEW m \in Navs
  PROVE  WorkerInv(m)'
<1>1. CASE UNCHANGED <<worker, current, target, preempt, muxer>>
  BY <1>1 DEF WorkerInv
<1>2. ASSUME NEW g \in Goals, NEW n \in Navs, NEW t \in Trees, AcceptGoal(g, n, t)
      PROVE  WorkerInv(m)'
  <2>1. UNCHANGED <<target, muxer>>
    BY <1>2 DEF AcceptGoal
  <2>2. CASE m # n
    <3>1. worker'[m] = worker[m] /\ current'[m] = current[m] /\ preempt'[m] = preempt[m]
      BY <1>2, <2>2 DEF AcceptGoal, TypeOK
    <3> QED BY <2>1, <3>1, WorkerKept
  <2>3. CASE m = n /\ preempt' = [preempt EXCEPT ![n] = TRUE] /\ UNCHANGED <<current, worker>>
    BY <2>1, <2>3, WorkerKept DEF TypeOK
  <2>4. CASE m = n /\ worker[n] = "idle" /\ worker' = [worker EXCEPT ![n] = "work"]
    <3>1. worker'[n] = "work"
      BY <2>4 DEF TypeOK
    <3> QED BY <2>1, <2>4, <3>1 DEF WorkerInv, Busy, Running
  <2> QED BY <1>2, <2>2, <2>3, <2>4 DEF AcceptGoal
<1> QED BY <1>1, <1>2 DEF Clients, RejectGoal, CancelGoal, navVars

\* A worker comes to each of its places with what it needs there.
LEMMA WorkersWorkers ==
  ASSUME TypeOK, \A m \in Navs : ServerInv(m), \A m \in Navs : WorkerInv(m),
         NEW n \in Navs, WorkerStep(n), NEW m \in Navs
  PROVE  WorkerInv(m)'
<1> USE DEF WorkerInv, Busy, Running, TypeOK, Goto, serverVars
<1>1. CASE Work(n)
  BY <1>1 DEF Work, IsActive
<1>2. CASE CheckMuxer(n)
  BY <1>2 DEF CheckMuxer
<1>3. CASE GoalReceived(n)
  <2>1. CASE m # n
    BY <1>3, <2>1, WorkerKept, ZenonT(40) DEF GoalReceived
  <2>2. CASE m = n /\ worker'[n] = "refuse" /\ UNCHANGED <<current, muxer>>
    BY <1>3, <2>2 DEF GoalReceived
  <2>3. CASE m = n /\ worker'[n] = "start" /\ UNCHANGED <<current, muxer>> /\ target'[n] = current[n]
    BY <1>3, <2>3 DEF GoalReceived
  <2> QED BY <1>3, <2>1, <2>2, <2>3, ZenonT(40) DEF GoalReceived
<1>4. CASE StartNavigating(n)
  BY <1>4 DEF StartNavigating
<1>5. CASE Halt(n)
  BY <1>5 DEF Halt
<1>6. ASSUME NEW r \in {"running", "success", "failure"}, Tick(n, r) PROVE WorkerInv(m)'
  BY <1>6 DEF Tick
<1>7. CASE Loop(n)
  BY <1>7 DEF Loop, AfterLoop
<1>8. CASE Preempt(n)
  <2>1. CASE m # n
    BY <1>8, <2>1, WorkerKept, ZenonT(40) DEF Preempt, AcceptPending
  <2>2. CASE m = n
    <3>1. pending[n] # NoGoal /\ current[n] # NoGoal /\ target[n] = current[n]
      BY <1>8 DEF Preempt, ServerInv
    <3>2. worker'[n] \in {"tick", "complete"} /\ UNCHANGED muxer
      BY <1>8 DEF Preempt, AfterLoop
    <3>3. target'[n] = current'[n] /\ current'[n] # NoGoal
      <4>1. \/ /\ current' = [current EXCEPT ![n] = pending[n]]
               /\ target' = [target EXCEPT ![n] = pending[n]]
            \/ UNCHANGED <<current, target>>
        BY <1>8 DEF Preempt, AcceptPending
      <4>2. CASE UNCHANGED <<current, target>>
        BY <3>1, <4>2
      <4>3. CASE /\ current' = [current EXCEPT ![n] = pending[n]]
                 /\ target' = [target EXCEPT ![n] = pending[n]]
        <5>1. current'[n] = pending[n] /\ target'[n] = pending[n]
          BY <4>3
        <5> QED BY <3>1, <5>1
      <4> QED BY <4>1, <4>2, <4>3
    <3> QED BY <2>2, <3>2, <3>3
  <2> QED BY <2>1, <2>2
<1>9. CASE Completion(n)
  <2>1. CASE m # n
    <3>1. muxer' = muxer \/ muxer' # m
      BY <1>9, <2>1 DEF Completion, Navs
    <3> QED BY <1>9, <2>1, <3>1, WorkerKept DEF Completion
  <2>2. CASE m = n
    <3>1. worker'[n] = "result" /\ muxer' # n /\ current'[n] = current[n] /\ worker[n] \in Busy
      BY <1>9 DEF Completion, Navs
    <3> QED BY <2>2, <3>1
  <2> QED BY <2>1, <2>2
<1>10. CASE Result(n)
  BY <1>10 DEF Result
<1>11. CASE Refuse(n)
  BY <1>11 DEF Refuse
<1>12. CASE After(n)
  BY <1>12, ZenonT(40) DEF After, AcceptPending
<1>13. CASE Leave(n)
  BY <1>13 DEF Leave
<1> QED BY <1>1, <1>2, <1>3, <1>4, <1>5, <1>6, <1>7, <1>8, <1>9, <1>10, <1>11, <1>12, <1>13
        DEF WorkerStep

-----------------------------------------------------------------------------
(* The invariant.                                                          *)

\* Every step says of each goal whether it is asked for, and changes the navigator of none but the
\* one that is; the others' statuses only go on from where they are.
LEMMA GoalsStep ==
  ASSUME TypeOK, \A m \in Navs : ServerInv(m), \A m \in Navs : WorkerInv(m), [Next]_vars,
         NEW g \in Goals
  PROVE  \/ goals'[g] = goals[g]
         \/ goals[g].status = "new" /\ goals'[g].status \in {"rejected", "executing"}
              /\ (goals'[g].status = "rejected" => goals'[g].nav = goals[g].nav)
         \/ /\ IsActive(g) /\ goals'[g].nav = goals[g].nav
            /\ goals'[g].status \in {"canceling", "succeeded", "aborted", "canceled"}
<1> DEFINE Goes == \/ goals'[g] = goals[g]
                   \/ goals[g].status = "new" /\ goals'[g].status \in {"rejected", "executing"}
                        /\ (goals'[g].status = "rejected" => goals'[g].nav = goals[g].nav)
                   \/ /\ IsActive(g) /\ goals'[g].nav = goals[g].nav
                      /\ goals'[g].status \in {"canceling", "succeeded", "aborted", "canceled"}
<1>1. CASE UNCHANGED goals
  BY <1>1
<1>2. CASE \E G : goals' = Terminated(G)
  <2>1. PICK G : goals' = Terminated(G)
    BY <1>2
  <2>2. CASE g \in G /\ IsActive(g)
    BY <2>1, <2>2, TerminatedGoals
  <2>3. CASE ~(g \in G /\ IsActive(g))
    BY <2>1, <2>3, TerminatedGoals
  <2> QED BY <2>2, <2>3
<1>3. ASSUME NEW h \in Goals, NEW n \in Navs, RejectGoal(h, n) PROVE Goes
  <2>1. goals' = WithStatus(h, "rejected") /\ goals[h].status = "new"
    BY <1>3 DEF RejectGoal, NextGoal, WithStatus
  <2> QED BY <2>1, StatusSet
<1>4. ASSUME NEW h \in Goals, CancelGoal(h) PROVE Goes
  <2>1. goals' = WithStatus(h, "canceling") /\ goals[h].status = "executing"
    BY <1>4 DEF CancelGoal, WithStatus
  <2>2. IsActive(h)
    BY <2>1 DEF IsActive, Goals, NoGoal
  <2> QED BY <2>1, <2>2, StatusSet
<1>5. ASSUME NEW h \in Goals, NEW n \in Navs, NEW t \in Trees, AcceptGoal(h, n, t) PROVE Goes
  <2>1. goals[h].status = "new" /\ goals' = [Terminated({pending[n]}) EXCEPT ![h] =
                                              [nav |-> n, tree |-> t, status |-> "executing"]]
    BY <1>5 DEF AcceptGoal, NextGoal, Asked
  <2>2. CASE g = h
    BY <2>1, <2>2, TerminatedGoals
  <2>3. CASE g # h
    <3>1. goals'[g] = Terminated({pending[n]})[g]
      BY <2>1, <2>3, TerminatedGoals
    <3> QED BY <3>1, TerminatedGoals
  <2> QED BY <2>2, <2>3
<1>6. ASSUME NEW n \in Navs, Result(n) PROVE Goes
  <2>1. CASE goals' = WithStatus(current[n], "succeeded")
    <3>1. current[n] # NoGoal
      BY <1>6 DEF Result, Goto, WorkerInv, Busy
    <3>2. IsActive(current[n])
      BY <3>1 DEF ServerInv
    <3> QED BY <2>1, <3>2, StatusSet
  <2> QED BY <1>2, <1>6, <2>1 DEF Result, WithStatus
<1>7. ASSUME NEW n \in Navs, WorkerStep(n) PROVE Goes
  BY <1>1, <1>2, <1>6, <1>7
     DEF WorkerStep, Work, CheckMuxer, GoalReceived, StartNavigating, Halt, Tick, Loop, Preempt,
         AcceptPending, Completion, Refuse, After, Leave, serverVars
<1>8. CASE Lifecycle
  BY <1>1, <1>2, <1>8
     DEF Lifecycle, Configure, Activate, Deactivate, PosesStopped, PoseStopped, Cleanup, Shutdown,
         serverVars
<1> QED BY <1>1, <1>3, <1>4, <1>5, <1>7, <1>8 DEF Next, Clients, vars, serverVars

\* The pose server is activated last and with the node, and is stopped before the node is inactive.
LEMMA ActivationKept == TypeOK /\ ActivationInv /\ [Next]_vars => ActivationInv'
<1> SUFFICES ASSUME TypeOK, ActivationInv, [Next]_vars PROVE ActivationInv'
  OBVIOUS
<1>1. CASE UNCHANGED <<life, active>>
  BY <1>1 DEF ActivationInv
<1>2. CASE Lifecycle
  <2> USE DEF ActivationInv, TypeOK, Navs, lifeVars
  <2>1. CASE Activate
    BY <2>1 DEF Activate
  <2>2. CASE Deactivate \/ PosesStopped
    BY <2>2 DEF Deactivate, PosesStopped, StopServer
  <2> QED BY <1>2, <2>1, <2>2 DEF Lifecycle, Configure, PoseStopped, Cleanup, Shutdown
<1> QED BY <1>1, <1>2
        DEF Next, vars, lifeVars, Clients, RejectGoal, AcceptGoal, CancelGoal, WorkerStep, Work,
            CheckMuxer, GoalReceived, StartNavigating, Halt, Tick, Loop, Preempt, Completion, Result,
            Refuse, After, Leave

\* No step of the executor or of a worker breaks the invariant.
LEMMA StepKeeps == IInv /\ [Next]_vars => IInv'
<1> SUFFICES ASSUME IInv, [Next]_vars PROVE IInv'
  OBVIOUS
<1>1. /\ TypeOK /\ FreshAtPose /\ ActivationInv
      /\ \A n \in Navs : ServerInv(n)
      /\ \A n \in Navs : WorkerInv(n)
  BY DEF IInv
<1>2. CASE UNCHANGED vars
  <2>1. TypeOK'
    BY <1>1, <1>2 DEF vars, lifeVars, navVars, serverVars, TypeOK
  <2>2. \A n \in Navs : ServerInv(n)' /\ WorkerInv(n)'
    BY <1>1, <1>2 DEF vars, lifeVars, navVars, serverVars, ServerInv, WorkerInv, IsActive
  <2> QED BY <1>1, <1>2, <2>1, <2>2, ActivationKept DEF vars, serverVars, FreshAtPose, IInv
<1>3. CASE Next
  <2>1. TypeOK'
    BY <1>1, <1>3, LifecycleTyped, ClientsTyped, WorkersTyped DEF Next
  <2>2. ASSUME NEW n \in Navs PROVE ServerInv(n)'
    BY <1>1, <1>3, LifecycleHandles, ClientsHandles, WorkersHandles DEF Next
  <2>3. ASSUME NEW n \in Navs PROVE WorkerInv(n)'
    BY <1>1, <1>3, LifecycleWorkers, ClientsWorkers, WorkersWorkers DEF Next
  <2>4. FreshAtPose'
    BY <1>1, <1>3, GoalsStep DEF FreshAtPose, IsActive
  <2> QED BY <1>1, <1>3, <2>1, <2>2, <2>3, <2>4, ActivationKept DEF IInv
<1> QED BY <1>2, <1>3

\* The invariant holds in every reachable state.
LEMMA Invariant == Spec => []IInv
BY InitHolds, StepKeeps, PTL DEF Spec

-----------------------------------------------------------------------------
(* Results.                                                                *)

\* Whatever the lifecycle, the clients and the two workers do in whatever order, the muxer never
\* names a navigator that is not running its tree and will not give it back (NavigatorMuxer's
\* startNavigating and stopNavigating).
THEOREM MuxerIsHeldByRunner == Spec => []MuxerHeldByRunner
<1>1. IInv => MuxerHeldByRunner
  BY DEF IInv, WorkerInv, MuxerHeldByRunner
<1> QED BY <1>1, Invariant, PTL

\* Through any number of preemptions the pose on the blackboard is that of the goal whose client
\* is told of the outcome (onPreempt, initializeGoalPose).
THEOREM TargetIsTheCurrentGoal == Spec => []TargetIsCurrentGoal
<1>1. IInv => TargetIsCurrentGoal
  BY DEF IInv, WorkerInv, TargetIsCurrentGoal, Busy
<1> QED BY <1>1, Invariant, PTL

\* A server's handles hold live goals of its own navigator only, never one goal in both, and
\* accept_pending_goal finds a pending goal whenever the worker is to preempt.
THEOREM HandlesAreConsistent == Spec => []HandlesConsistent
<1>1. IInv => HandlesConsistent
  BY DEF IInv, ServerInv, HandlesConsistent
<1> QED BY <1>1, Invariant, PTL

\* Types, and that a node that is not active has no active pose server however often activations
\* fail halfway (on_activate, on_deactivate).
THEOREM LifecycleIsOrderly == Spec => []LifecycleInv
<1>1. IInv => LifecycleInv
  BY DEF IInv, ActivationInv, LifecycleInv, PoseServerNeedsActivation
<1> QED BY <1>1, Invariant, PTL

\* A goal that was rejected or has ended keeps its status: no handle to it is left through which
\* terminate_current or terminate_all could answer a second time.
THEOREM OutcomesAreFinal == Spec => OutcomeFinal
<1>1. IInv /\ [Next]_vars =>
        [\A g \in Goals :
           goals[g].status \in {"rejected", "succeeded", "aborted", "canceled"}
             => goals'[g].status = goals[g].status]_vars
  BY GoalsStep DEF IInv, IsActive
<1> QED BY <1>1, Invariant, PTL DEF Spec, OutcomeFinal

-----------------------------------------------------------------------------
(* The pose navigator's server implements ActionServer.                    *)

\* When goals are terminated, its clients see those given up that are among the pose navigator's.
LEMMA GivenUpAtPose ==
  ASSUME TypeOK, NEW G, NEW H, goals' = Terminated(G),
         \A g \in Goals : IsActive(g) /\ goals[g].nav = "pose" => (g \in G <=> g \in H)
  PROVE  StatusAtPose' = PoseServer!GivenUp(H)
<1>1. ASSUME NEW g \in Goals
      PROVE  StatusAtPose'[g] = PoseServer!GivenUp(H)[g]
  <2>1. StatusAtPose'[g] = IF goals'[g].nav = "pose" THEN goals'[g].status ELSE "new"
    BY DEF StatusAtPose
  <2>2. StatusAtPose[g] = IF goals[g].nav = "pose" THEN goals[g].status ELSE "new"
    BY DEF StatusAtPose
  <2>3. g \in PoseServer!Live <=> IsActive(g) /\ goals[g].nav = "pose"
    BY <2>2 DEF PoseServer!Live, PoseServer!Goals, IsActive, Goals, NoGoal
  <2>4. PoseServer!GivenUp(H)[g] =
          IF g \notin H \cap PoseServer!Live THEN StatusAtPose[g]
          ELSE IF StatusAtPose[g] = "canceling" THEN "canceled" ELSE "aborted"
    BY DEF PoseServer!GivenUp, PoseServer!Goals, Goals
  <2>5. CASE g \in PoseServer!Live /\ g \in H
    <3>1. g \in G /\ IsActive(g) /\ goals[g].nav = "pose"
      BY <2>3, <2>5
    <3>2. /\ goals'[g].nav = "pose"
          /\ goals'[g].status = IF goals[g].status = "canceling" THEN "canceled" ELSE "aborted"
      BY <3>1, TerminatedGoals
    <3> QED BY <2>1, <2>2, <2>4, <2>5, <3>1, <3>2
  <2>6. CASE ~(g \in PoseServer!Live /\ g \in H)
    <3>1. PoseServer!GivenUp(H)[g] = StatusAtPose[g]
      BY <2>4, <2>6
    <3>2. CASE goals[g].nav = "pose"
      <4>1. goals'[g] = goals[g]
        BY <2>3, <2>6, <3>2, TerminatedGoals
      <4> QED BY <2>1, <2>2, <3>1, <4>1
    <3>3. CASE goals[g].nav # "pose"
      <4>1. goals'[g].nav = goals[g].nav
        BY TerminatedGoals
      <4> QED BY <2>1, <2>2, <3>1, <3>3, <4>1
    <3> QED BY <3>2, <3>3
  <2> QED BY <2>5, <2>6
<1> QED BY <1>1 DEF StatusAtPose, PoseServer!GivenUp, PoseServer!Goals, Goals

\* Its clients see nothing of goals that stay as they are or are the other navigator's.
LEMMA UnseenAtPose ==
  ASSUME TypeOK, UNCHANGED <<current["pose"], pending["pose"]>>,
         \A g \in Goals : \/ goals'[g] = goals[g]
                          \/ goals'[g].nav # "pose" /\ goals[g].nav # "pose"
                          \/ goals'[g].nav # "pose" /\ goals[g].status = "new"
  PROVE  PoseServer!Unseen
<1>1. StatusAtPose' = StatusAtPose
  BY DEF StatusAtPose
<1> QED BY <1>1 DEF PoseServer!Unseen, PoseServer!serverVars

\* The goals in the hands of the poses server are none of the pose navigator's.
LEMMA ElsewhereUnseen ==
  ASSUME TypeOK, ServerInv("poses"), NEW G \in SUBSET {current["poses"], pending["poses"]},
         goals' = Terminated(G), UNCHANGED <<current["pose"], pending["pose"]>>
  PROVE  PoseServer!Unseen
<1>1. ASSUME NEW g \in Goals
      PROVE  \/ goals'[g] = goals[g]
             \/ goals'[g].nav # "pose" /\ goals[g].nav # "pose"
  <2>1. CASE g \in G
    <3>1. goals[g].nav = "poses"
      BY <2>1 DEF ServerInv, Goals, NoGoal
    <3> QED BY <3>1, TerminatedGoals
  <2>2. CASE g \notin G
    BY <2>2, TerminatedGoals
  <2> QED BY <2>1, <2>2
<1> QED BY <1>1, UnseenAtPose

\* Whatever the pose server has in hand, one goal, two or none, it may give up all of it.
LEMMA AllGivenUp ==
  ASSUME TypeOK, StatusAtPose' = PoseServer!GivenUp({current["pose"], pending["pose"]}),
         current'["pose"] = NoGoal, pending'["pose"] = NoGoal
  PROVE  PoseServer!Next
<1> USE DEF PoseServer!Next
<1>1. NoGoal \notin PoseServer!Live
  BY DEF NoGoal, PoseServer!Live, PoseServer!Goals
<1>2. CASE current["pose"] = NoGoal /\ pending["pose"] = NoGoal
  <2>1. PoseServer!GivenUp({current["pose"], pending["pose"]}) = StatusAtPose
    BY <1>1, <1>2 DEF PoseServer!GivenUp, StatusAtPose, PoseServer!Goals, Goals
  <2> QED BY <1>2, <2>1 DEF PoseServer!Unseen, PoseServer!serverVars
<1>3. CASE current["pose"] # NoGoal /\ pending["pose"] = NoGoal
  <2>1. PoseServer!GivenUp({current["pose"], pending["pose"]})
          = PoseServer!GivenUp({current["pose"]})
    BY <1>1, <1>3 DEF PoseServer!GivenUp
  <2> QED BY <1>3, <2>1 DEF PoseServer!GiveUpServed, PoseServer!None, NoGoal
<1>4. CASE current["pose"] = NoGoal /\ pending["pose"] # NoGoal
  <2>1. PoseServer!GivenUp({current["pose"], pending["pose"]})
          = PoseServer!GivenUp({pending["pose"]})
    BY <1>1, <1>4 DEF PoseServer!GivenUp
  <2> QED BY <1>4, <2>1 DEF PoseServer!GiveUpWaiting, PoseServer!None, NoGoal
<1>5. CASE current["pose"] # NoGoal /\ pending["pose"] # NoGoal
  BY <1>5 DEF PoseServer!GiveUpAll, PoseServer!None, NoGoal
<1> QED BY <1>2, <1>3, <1>4, <1>5

\* The pending goal takes over when a goal is preempted and when its server goes on with it.
LEMMA TakesOver ==
  ASSUME TypeOK, AcceptPending("pose"), pending["pose"] # NoGoal
  PROVE  PoseServer!Next
<1>1. StatusAtPose' = PoseServer!GivenUp({current["pose"]})
  BY GivenUpAtPose DEF AcceptPending
<1>2. current'["pose"] = pending["pose"] /\ pending'["pose"] = NoGoal
  BY DEF AcceptPending, TypeOK, Navs
<1> QED BY <1>1, <1>2 DEF PoseServer!Next, PoseServer!TakeOver, PoseServer!None, NoGoal

-----------------------------------------------------------------------------
\* The handlers accept, reject and cancel goals of the pose navigator as the promise has it.
LEMMA ClientsImplement ==
  ASSUME TypeOK, \A n \in Navs : ServerInv(n), FreshAtPose, Clients
  PROVE  PoseServer!Next
<1> USE DEF PoseServer!Next
<1> DEFINE St(g) == IF goals[g].nav = "pose" THEN goals[g].status ELSE "new"
<1>0. /\ StatusAtPose = [g \in Goals |-> St(g)]
      /\ StatusAtPose' = [g \in Goals |-> St(g)']
      /\ PoseServer!Goals = Goals
  BY DEF StatusAtPose, PoseServer!Goals, Goals
<1>1. ASSUME NEW g \in Goals, NEW n \in Navs, RejectGoal(g, n) PROVE PoseServer!Next
  <2>1. goals' = WithStatus(g, "rejected") /\ UNCHANGED <<current, pending>>
    BY <1>1 DEF RejectGoal, WithStatus
  <2>2. goals[g].status = "new" /\ goals[g].nav = "pose"
    BY <1>1 DEF RejectGoal, NextGoal, FreshAtPose
  <2>3. \A h \in Goals : St(h)' = IF h = g THEN "rejected" ELSE St(h)
    BY <2>1, <2>2, StatusSet
  <2>4. StatusAtPose' = [StatusAtPose EXCEPT ![g] = "rejected"]
    BY <1>0, <2>3
  <2>5. StatusAtPose[g] = "new"
    BY <1>0, <2>2
  <2> QED BY <1>0, <2>1, <2>4, <2>5 DEF PoseServer!Reject
<1>2. ASSUME NEW g \in Goals, CancelGoal(g) PROVE PoseServer!Next
  <2>1. goals' = WithStatus(g, "canceling") /\ UNCHANGED <<current, pending>>
    BY <1>2 DEF CancelGoal, WithStatus
  <2>2. goals[g].status = "executing"
    BY <1>2 DEF CancelGoal
  <2>3. CASE goals[g].nav = "pose"
    <3>1. \A h \in Goals : St(h)' = IF h = g THEN "canceling" ELSE St(h)
      BY <2>1, <2>3, StatusSet
    <3>2. StatusAtPose' = [StatusAtPose EXCEPT ![g] = "canceling"]
      BY <1>0, <3>1
    <3>3. StatusAtPose[g] = "executing"
      BY <1>0, <2>2, <2>3
    <3> QED BY <1>0, <2>1, <3>2, <3>3 DEF PoseServer!AskToCancel
  <2>4. CASE goals[g].nav # "pose"
    BY <2>1, <2>4, StatusSet, UnseenAtPose
  <2> QED BY <2>3, <2>4
<1>3. ASSUME NEW g \in Goals, NEW n \in Navs, NEW t \in Trees, AcceptGoal(g, n, t)
      PROVE  PoseServer!Next
  <2>1. goals[g].status = "new" /\ goals[g].nav = "pose" /\ goals' = Asked(g, n, t, "executing")
    BY <1>3 DEF AcceptGoal, NextGoal, FreshAtPose
  <2>2. /\ goals'[g].nav = n /\ goals'[g].status = "executing"
        /\ \A h \in Goals \ {g} : goals'[h] = Terminated({pending[n]})[h]
    BY <2>1, TerminatedGoals DEF Asked
  <2>3. CASE n = "pose"
    <3>1. ASSUME NEW h \in Goals
          PROVE  St(h)' = IF h = g THEN "executing" ELSE PoseServer!GivenUp({pending["pose"]})[h]
      <4>1. CASE h = g
        BY <2>2, <2>3, <4>1
      <4>2. CASE h # g
        <5>1. goals'[h] = Terminated({pending["pose"]})[h]
          BY <2>2, <2>3, <4>2
        <5>2. /\ goals'[h].nav = goals[h].nav
              /\ h = pending["pose"] /\ IsActive(h) =>
                   goals'[h].status = IF goals[h].status = "canceling" THEN "canceled" ELSE "aborted"
              /\ h # pending["pose"] \/ ~IsActive(h) => goals'[h] = goals[h]
          BY <5>1, TerminatedGoals
        <5>3. h \in PoseServer!Live <=> IsActive(h) /\ goals[h].nav = "pose"
          BY <1>0 DEF PoseServer!Live, IsActive, Goals, NoGoal
        <5>4. PoseServer!GivenUp({pending["pose"]})[h] =
                IF ~(h = pending["pose"] /\ h \in PoseServer!Live) THEN St(h)
                ELSE IF St(h) = "canceling" THEN "canceled" ELSE "aborted"
          BY <1>0 DEF PoseServer!GivenUp
        <5> HIDE DEF St
        <5>5. St(h)' = IF goals'[h].nav = "pose" THEN goals'[h].status ELSE "new"
          BY DEF St
        <5>6. St(h) = IF goals[h].nav = "pose" THEN goals[h].status ELSE "new"
          BY DEF St
        <5> QED BY <4>2, <5>2, <5>3, <5>4, <5>5, <5>6
      <4> QED BY <4>1, <4>2
    <3>2. StatusAtPose' = [PoseServer!GivenUp({pending["pose"]}) EXCEPT ![g] = "executing"]
      BY <1>0, <3>1 DEF PoseServer!GivenUp
    <3>3. StatusAtPose[g] = "new"
      BY <1>0, <2>1
    <3>4. \/ pending'["pose"] = g /\ current'["pose"] = current["pose"]
          \/ pending'["pose"] = NoGoal /\ current'["pose"] = g /\ ~IsActive(current["pose"])
      BY <1>3, <2>3 DEF AcceptGoal, TypeOK, Navs
    <3>5. ~IsActive(current["pose"]) => current["pose"] = NoGoal
      BY DEF ServerInv, Navs
    <3> QED BY <1>0, <3>2, <3>3, <3>4, <3>5 DEF PoseServer!Accept, PoseServer!None, NoGoal
  <2>4. CASE n = "poses"
    <3>1. UNCHANGED <<current["pose"], pending["pose"]>>
      BY <1>3, <2>4, ZenonT(40) DEF AcceptGoal, TypeOK, Navs
    <3>2. ASSUME NEW h \in Goals
          PROVE  \/ goals'[h] = goals[h]
                 \/ goals'[h].nav # "pose" /\ goals[h].nav # "pose"
                 \/ goals'[h].nav # "pose" /\ goals[h].status = "new"
      <4>1. CASE h = g
        BY <2>1, <2>2, <2>4, <4>1
      <4>2. CASE h # g /\ h = pending["poses"]
        <5>1. goals[h].nav = "poses"
          BY <4>2 DEF ServerInv, Navs, Goals, NoGoal
        <5> QED BY <2>2, <4>2, <5>1, TerminatedGoals
      <4>3. CASE h # g /\ h # pending["poses"]
        BY <2>2, <2>4, <4>3, TerminatedGoals
      <4> QED BY <4>1, <4>2, <4>3
    <3> QED BY <3>1, <3>2, UnseenAtPose
  <2> QED BY <2>3, <2>4 DEF Navs
<1> QED BY <1>1, <1>2, <1>3 DEF Clients

\* So does the worker of the pose navigator with the goals it has in hand.
LEMMA WorkerImplements ==
  ASSUME TypeOK, ServerInv("pose"), WorkerInv("pose"), WorkerStep("pose")
  PROVE  PoseServer!Next
<1>1. CASE UNCHANGED serverVars
  <2>1. PoseServer!Unseen
    BY <1>1, UnseenAtPose DEF serverVars
  <2> QED BY <2>1 DEF PoseServer!Next
<1>2. CASE Preempt("pose")
  <2>1. pending["pose"] # NoGoal
    BY <1>2 DEF Preempt, Goto, WorkerInv, ServerInv
  <2>2. CASE AcceptPending("pose")
    BY <2>1, <2>2, TakesOver
  <2>3. CASE /\ goals' = Terminated({pending["pose"]})
             /\ pending' = [pending EXCEPT !["pose"] = NoGoal]
             /\ UNCHANGED current
    <3>1. StatusAtPose' = PoseServer!GivenUp({pending["pose"]})
      BY <2>3, GivenUpAtPose
    <3>2. pending'["pose"] = NoGoal
      BY <2>3 DEF TypeOK, Navs
    <3> QED BY <2>1, <2>3, <3>1, <3>2
            DEF PoseServer!Next, PoseServer!GiveUpWaiting, PoseServer!None, NoGoal
  <2> QED BY <1>2, <2>2, <2>3 DEF Preempt
<1>3. ASSUME goals' = Terminated({current["pose"]}), UNCHANGED pending,
             current' = [current EXCEPT !["pose"] = NoGoal], current["pose"] # NoGoal
      PROVE  PoseServer!Next
  <2>1. StatusAtPose' = PoseServer!GivenUp({current["pose"]})
    BY <1>3, GivenUpAtPose
  <2>2. current'["pose"] = NoGoal
    BY <1>3 DEF TypeOK, Navs
  <2> QED BY <1>3, <2>1, <2>2
          DEF PoseServer!Next, PoseServer!GiveUpServed, PoseServer!None, NoGoal
<1>4. ASSUME goals' = Terminated({current["pose"], pending["pose"]}),
             current' = [current EXCEPT !["pose"] = NoGoal],
             pending' = [pending EXCEPT !["pose"] = NoGoal]
      PROVE  PoseServer!Next
  <2>1. StatusAtPose' = PoseServer!GivenUp({current["pose"], pending["pose"]})
    BY <1>4, GivenUpAtPose
  <2>2. current'["pose"] = NoGoal /\ pending'["pose"] = NoGoal
    BY <1>4 DEF TypeOK, Navs
  <2> QED BY <2>1, <2>2, AllGivenUp
<1>5. CASE Result("pose")
  <2>1. current["pose"] # NoGoal
    BY <1>5 DEF Result, Goto, WorkerInv, Busy
  <2>2. current' = [current EXCEPT !["pose"] = NoGoal]
    BY <1>5 DEF Result
  <2>3. CASE goals' = WithStatus(current["pose"], "succeeded") /\ UNCHANGED pending
    <3>1. IsActive(current["pose"]) /\ goals[current["pose"]].nav = "pose"
      BY <2>1 DEF ServerInv
    <3>2. current["pose"] \in Goals
      BY <2>1 DEF TypeOK, Navs
    <3>3. ASSUME NEW h \in Goals
          PROVE  StatusAtPose'[h] = IF h = current["pose"] THEN "succeeded" ELSE StatusAtPose[h]
      BY <2>3, <3>1, StatusSet DEF StatusAtPose
    <3>4. StatusAtPose' = [StatusAtPose EXCEPT ![current["pose"]] = "succeeded"]
      BY <3>3 DEF StatusAtPose
    <3>5. current'["pose"] = NoGoal
      BY <2>2 DEF TypeOK, Navs
    <3> QED BY <2>1, <2>3, <3>4, <3>5
            DEF PoseServer!Next, PoseServer!Succeed, PoseServer!None, NoGoal
  <2> QED BY <1>3, <1>4, <1>5, <2>1, <2>2, <2>3 DEF Result, WithStatus
<1>6. CASE Refuse("pose")
  <2>1. current["pose"] # NoGoal
    BY <1>6 DEF Refuse, Goto, WorkerInv, Busy
  <2> QED BY <1>3, <1>6, <2>1 DEF Refuse
<1>7. CASE After("pose")
  BY <1>1, <1>4, <1>7, TakesOver DEF After
<1> QED BY <1>1, <1>2, <1>5, <1>6, <1>7
        DEF WorkerStep, Work, CheckMuxer, GoalReceived, StartNavigating, Halt, Tick, Loop,
            Completion, Leave

\* What the other worker does with its goals is none of the pose navigator's clients' business.
LEMMA OtherWorkerUnseen ==
  ASSUME TypeOK, ServerInv("poses"), WorkerInv("poses"), WorkerStep("poses")
  PROVE  PoseServer!Unseen
<1>1. CASE UNCHANGED serverVars
  BY <1>1, UnseenAtPose DEF serverVars
<1>2. CASE Preempt("poses") \/ Refuse("poses") \/ After("poses")
  <2>1. UNCHANGED <<current["pose"], pending["pose"]>>
    <3>1. \/ current' = [current EXCEPT !["poses"] = NoGoal] \/ UNCHANGED current
          \/ current' = [current EXCEPT !["poses"] = pending["poses"]]
      BY <1>2 DEF Preempt, Refuse, After, AcceptPending, serverVars
    <3>2. pending' = [pending EXCEPT !["poses"] = NoGoal] \/ UNCHANGED pending
      BY <1>2 DEF Preempt, Refuse, After, AcceptPending, serverVars
    <3> QED BY <3>1, <3>2 DEF TypeOK, Navs
  <2>2. UNCHANGED goals
          \/ \E G \in SUBSET {current["poses"], pending["poses"]} : goals' = Terminated(G)
    BY <1>2 DEF Preempt, Refuse, After, AcceptPending, serverVars
  <2> QED BY <2>1, <2>2, ElsewhereUnseen, UnseenAtPose
<1>3. CASE Result("poses")
  <2>1. UNCHANGED <<current["pose"], pending["pose"]>>
    BY <1>3 DEF Result, TypeOK, Navs
  <2>2. CASE goals' = WithStatus(current["poses"], "succeeded")
    <3>1. goals[current["poses"]].nav = "poses"
      BY <1>3 DEF Result, Goto, WorkerInv, Busy, ServerInv
    <3> QED BY <2>1, <2>2, <3>1, StatusSet, UnseenAtPose
  <2>3. CASE \E G \in SUBSET {current["poses"], pending["poses"]} : goals' = Terminated(G)
    BY <2>1, <2>3, ElsewhereUnseen
  <2> QED BY <1>3, <2>2, <2>3 DEF Result, WithStatus
<1> QED BY <1>1, <1>2, <1>3
        DEF WorkerStep, Work, CheckMuxer, GoalReceived, StartNavigating, Halt, Tick, Loop,
            Completion, Leave

\* A cleanup answers every goal the two servers still have.
LEMMA LifecycleImplements ==
  ASSUME TypeOK, \A n \in Navs : ServerInv(n), Lifecycle
  PROVE  PoseServer!Next
<1>1. CASE UNCHANGED serverVars
  <2>1. PoseServer!Unseen
    BY <1>1, UnseenAtPose DEF serverVars
  <2> QED BY <2>1 DEF PoseServer!Next
<1>2. CASE Cleanup /\ ~UNCHANGED serverVars
  <2> DEFINE G == {current[n] : n \in Navs} \union {pending[n] : n \in Navs}
             H == {current["pose"], pending["pose"]}
  <2>1. ASSUME NEW g \in Goals, goals[g].nav = "pose" PROVE g \in G <=> g \in H
    <3>1. g # NoGoal
      BY DEF Goals, NoGoal
    <3>2. g \notin {current["poses"], pending["poses"]}
      BY <2>1, <3>1 DEF ServerInv, Navs
    <3> QED BY <3>2 DEF Navs
  <2>2. goals' = Terminated(G)
    BY <1>2 DEF Cleanup
  <2>3. StatusAtPose' = PoseServer!GivenUp(H)
    <3> HIDE DEF G, H
    <3> QED BY <2>1, <2>2, GivenUpAtPose
  <2>4. current'["pose"] = NoGoal /\ pending'["pose"] = NoGoal
    BY <1>2 DEF Cleanup, Navs
  <2> QED BY <2>3, <2>4, AllGivenUp
<1> QED BY <1>1, <1>2 DEF Lifecycle, Configure, Activate, Deactivate, PosesStopped, PoseStopped, Shutdown

\* The clients of the pose navigator get what ActionServer promises, through preemptions,
\* cancellations, deactivations and cleanups at any point and whatever the other navigator does:
\* each accepted goal is in the server's hands until it has its one outcome, and only the goal that
\* is served succeeds (nav2's SimpleActionServer as bt_navigator.cpp and the engine drive it).
THEOREM KeepsPromise == Spec => ServerKeepsPromise
<1>1. Init => PoseServer!Init
  <2> SUFFICES ASSUME Init PROVE PoseServer!Init
    OBVIOUS
  <2>1. StatusAtPose = [g \in PoseServer!Goals |-> "new"]
    <3>1. \A g \in Goals : goals[g].status = "new"
      BY DEF Init
    <3> QED BY <3>1 DEF StatusAtPose, PoseServer!Goals, Goals
  <2>2. current["pose"] = NoGoal /\ pending["pose"] = NoGoal
    BY DEF Init, Navs
  <2> QED BY <2>1, <2>2 DEF PoseServer!Init, PoseServer!None, NoGoal
<1>2. IInv /\ [Next]_vars => [PoseServer!Next]_(PoseServer!serverVars)
  <2> SUFFICES ASSUME IInv, [Next]_vars PROVE PoseServer!Next
    BY DEF PoseServer!serverVars
  <2>1. /\ TypeOK /\ FreshAtPose
        /\ \A n \in Navs : ServerInv(n)
        /\ \A n \in Navs : WorkerInv(n)
    BY DEF IInv
  <2>2. CASE UNCHANGED vars
    <3>1. PoseServer!Unseen
      BY <2>1, <2>2, UnseenAtPose DEF vars, serverVars
    <3> QED BY <3>1 DEF PoseServer!Next
  <2>3. CASE \E n \in Navs : WorkerStep(n)
    <3>1. CASE WorkerStep("pose")
      BY <2>1, <3>1, WorkerImplements DEF Navs
    <3>2. CASE WorkerStep("poses")
      <4>1. PoseServer!Unseen
        BY <2>1, <3>2, OtherWorkerUnseen DEF Navs
      <4> QED BY <4>1 DEF PoseServer!Next
    <3> QED BY <2>3, <3>1, <3>2 DEF Navs
  <2> QED BY <2>1, <2>2, <2>3, ClientsImplement, LifecycleImplements DEF Next
<1> QED BY <1>1, <1>2, Invariant, PTL DEF Spec, ServerKeepsPromise, PoseServer!Spec
=============================================================================
