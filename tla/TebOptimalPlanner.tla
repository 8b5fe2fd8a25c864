-------------------------- MODULE TebOptimalPlanner --------------------------
(***************************************************************************)
(* The optimal planner (TebOptimalPlanner): it keeps a band from one cycle   *)
(* to the next, resizes it, and has the optimizer move its free poses and    *)
(* times; what the optimizer is given is in module TebGraph.  The optimizer  *)
(* (g2o) is external: it may move poses, change times, and fail.             *)
(***************************************************************************)
EXTENDS TimedElasticBand

CONSTANTS
  MinSamples, MaxSamples,            \* min_samples, max_samples
  DtRef, DtHysteresis,
  Fast,                              \* ~include_dynamic_obstacles
  OuterIterations,                   \* no_outer_iterations
  ReinitDist,                        \* force_reinit_new_goal_dist
  Starts, Goals,                     \* robot positions and goals of a cycle
  Durations,                         \* times the optimizer may give an interval
  Places,                            \* places it may move a pose to
  MaxPlans                           \* bound: cycles of a behaviour

VARIABLES
  band,         \* teb_
  velGoalFixed, \* vel_goal_.first
  optimized,    \* optimized_
  iteration,    \* outer iterations left in this cycle
  start, goal,  \* ends of the plan of this cycle
  outcome,      \* what optimizeTEB returned, or why it stopped
  plans

planVars == <<band, velGoalFixed, optimized, iteration, start, goal, outcome, plans>>

Limits == [ref |-> DtRef, hysteresis |-> DtHysteresis]

PlanInit ==
  /\ band = NoBand
  /\ velGoalFixed = TRUE
  /\ optimized = FALSE
  /\ iteration = 0
  /\ start = 0
  /\ goal = 0
  /\ outcome = "none"
  /\ plans = 0

\* The two ways to initialise: from the poses of a plan, here the ends and the middle, or from the
\* ends alone.
Initialised(s, g) == {InitFromPlan(<<s, average(s, g), g>>, MinSamples), InitToGoal(s, g, 0, MinSamples)}

\* plan: a band whose goal has not moved too far is pruned, otherwise a new one is made.
plan ==
  /\ iteration = 0
  /\ plans < MaxPlans
  /\ plans' = plans + 1
  /\ \E s \in Starts, g \in Goals :
       /\ s < g
       /\ start' = s /\ goal' = g
       /\ \/ /\ isInit(band) /\ Distance(g, BackPose(band)) < ReinitDist
             /\ band' = updateAndPruneTEB(band, s, g, MinSamples)
          \/ /\ ~(isInit(band) /\ Distance(g, BackPose(band)) < ReinitDist)
             /\ band' \in Initialised(s, g)
  /\ velGoalFixed' \in BOOLEAN
  /\ iteration' = OuterIterations
  /\ outcome' = "running"
  /\ UNCHANGED optimized

\* What the optimizer makes of a band: it moves a free pose or changes a time.
Improved(b) ==
  {[b EXCEPT !.dts[i] = dt] : i \in DOMAIN b.dts, dt \in Durations}
  \cup {[b EXCEPT !.poses[j] = p] : j \in 2..(sizePoses(b) - 1), p \in Places}

\* One outer iteration of optimizeTEB: resize, build the graph, optimize, clear the graph.  It fails
\* when the optimizer does or the greatest speed is next to none, and at once when the optimization
\* is not activated.
optimizeTEB ==
  /\ iteration > 0
  /\ LET resized == autoResize(band, Limits, MinSamples, MaxSamples, Fast)
     IN \/ /\ sizePoses(resized) < MinSamples
           /\ band' = resized
           /\ iteration' = 0 /\ outcome' = "refused"
           /\ optimized' = (iteration < OuterIterations)
        \/ /\ sizePoses(resized) >= MinSamples
           /\ band' \in Improved(resized)
           /\ optimized' = TRUE
           /\ iteration' = iteration - 1
           /\ outcome' = IF iteration = 1 THEN "planned" ELSE "running"
        \/ /\ sizePoses(resized) >= MinSamples
           /\ band' = resized
           /\ iteration' = 0 /\ outcome' = "failed"
           /\ optimized' = (iteration < OuterIterations)
        \/ /\ iteration = OuterIterations
           /\ iteration' = 0 /\ outcome' = "failed"
           /\ UNCHANGED <<band, optimized>>
  /\ UNCHANGED <<velGoalFixed, start, goal, plans>>

\* The caller drops the band after a failure (clearPlanner).
clearPlanner ==
  /\ outcome \in {"failed", "refused"}
  /\ band' = NoBand /\ outcome' = "none"
  /\ UNCHANGED <<velGoalFixed, optimized, iteration, start, goal, plans>>

PlanNext == plan \/ optimizeTEB \/ clearPlanner

-----------------------------------------------------------------------------
(* The velocity command and the profile of a band.                          *)

\* getVelocityCommand: how far ahead the pose lies whose velocity is commanded, and the time to it.
TimeUpTo(b, k) == LET Add(sum, i) == sum + b.dts[i] IN Walk(Add, 0, k)

LookAhead(b, wanted) ==
  LET most == Max({1, Min({wanted, sizePoses(b) - 1})})
      enough == {k \in 1..most : TimeUpTo(b, k) >= DtRef * most}
  IN IF enough = {} THEN most ELSE Min(enough)

getVelocityCommand(b, wanted) ==
  IF sizePoses(b) < 2 \/ TimeUpTo(b, LookAhead(b, wanted)) <= 0 THEN <<0, 1>>
  ELSE <<b.poses[LookAhead(b, wanted) + 1] - b.poses[1], TimeUpTo(b, LookAhead(b, wanted))>>

\* getVelocityProfile: n + 1 velocities for n poses; getFullTrajectory: the pose times.
extractVelocity(b, i) == IF b.dts[i] = 0 THEN <<0, 1>> ELSE <<b.poses[i + 1] - b.poses[i], b.dts[i]>>
getVelocityProfile(b, first, last) ==
  <<first>> \o [i \in DOMAIN b.dts |-> extractVelocity(b, i)] \o <<last>>
getFullTrajectory(b) == [i \in DOMAIN b.poses |-> [at |-> b.poses[i], time |-> TimeUpTo(b, i - 1)]]

\* isTrajectoryFeasible: the points that are checked.  Ways longer than the inscribed radius get
\* points in between; positions are multiplied by the number of parts.
CheckedParts(b, i, radius) ==
  LET d == Distance(b.poses[i], b.poses[i + 1])
  IN IF d > radius THEN (d + radius - 1) \div radius ELSE 1

LastChecked(b, lookAhead, distance) ==
  LET n == sizePoses(b)
      ahead == IF lookAhead < 0 \/ lookAhead >= n THEN n ELSE lookAhead + 1
      far == {i \in 2..n : Distance(b.poses[1], b.poses[i]) > distance}
  IN IF distance > 0 /\ far # {} THEN Min(far) - 1 ELSE ahead

-----------------------------------------------------------------------------
(* Properties.                                                              *)

\* The optimizer is never handed a band with fewer poses than min_samples, however the band was
\* made, pruned and resized before: optimizeGraph's own test never refuses (optimizeGraph).
NeverTooFewSamples == outcome # "refused"

\* While a cycle runs and when it has planned, the band leads from the robot to the goal of this
\* cycle's plan, with a time for each of its ways (plan, updateAndPruneTEB, autoResize).
BandLeadsToGoal ==
  outcome \in {"running", "planned"} =>
    WellFormed(band) /\ Head(band.poses) = start /\ BackPose(band) = goal

\* A band that is kept for a new cycle loses samples at its beginning only: between the new ends
\* are poses the old band had there, in their order and up to its last but one
\* (updateAndPruneTEB).
WarmStartKeepsRest ==
  [][plans' # plans /\ isInit(band) /\ Distance(goal', BackPose(band)) < ReinitDist
       => LET old == SubSeq(band.poses, 2, sizePoses(band) - 1)
              new == SubSeq(band'.poses, 2, sizePoses(band') - 1)
          IN IsSuffix(new, old)]_planVars
=============================================================================
