-------------------------- MODULE TebLocalPlanner --------------------------
(***************************************************************************)
(* The controller plugin TebLocalPlannerROS.  computeVelocityCommands runs  *)
(* on the controller server's action thread, one step per stretch of code   *)
(* between two points where the callbacks of the executor thread (custom    *)
(* obstacles, custom via-points, speed limit, parameters) can come between. *)
(* Only the optimisation holds the configuration mutex, and of those        *)
(* callbacks only the parameter one takes it.                               *)
(*                                                                          *)
(* The world is a line: a pose is a whole number and the robot faces        *)
(* upwards.  What the planner (HomotopyPlanner, or one band) answers is any *)
(* of its outcomes.  Durations since the last failure and since the last    *)
(* oscillation are flags that time may clear.                               *)
(***************************************************************************)
EXTENDS Integers, Sequences, SequencesExt, FiniteSetsExt

CONSTANTS
  Plans, Poses,   \* the global plans, nonempty sequences of poses, and the poses of the robot
  Threshold,      \* 85 % of half the local costmap
  Lookahead,      \* max_global_plan_lookahead_dist, 0 for none
  PruneDist,      \* global_plan_prune_distance
  Configs,        \* parameters and inputs, see ConfigType
  Lethals,        \* the sets of lethal cells of the costmap
  MapSize,        \* cells of the costmap
  Behind,         \* costmap_obstacles_behind_robot_dist
  Velocities,     \* of obstacles
  ObstacleMsgs,   \* obstacle messages: sequences of [points, vel]
  ViaMsgs,        \* via-point messages: sequences of poses
  RawCommands,    \* what the optimised band asks for: [x, y, w]
  SpeedLimits,    \* speed limits that may be set: [kind, value]
  Wheelbase,      \* wheelbase
  BufferLength,   \* measurements kept by the FailureDetector
  MaxFails,       \* bound: no_infeasible_plans_ is counted up to this
  MaxEvents       \* bound: callbacks of the executor thread

ConfigType ==
  [converter    : BOOLEAN,     \* a costmap converter is configured
   custom       : BOOLEAN,     \* custom obstacles and via-points are published
   limits       : BOOLEAN,     \* speed limits and parameters are changed
   oscillation  : BOOLEAN,     \* oscillation_recovery
   hcp          : BOOLEAN,     \* enable_homotopy_class_planning
   proportional : BOOLEAN,     \* use_proportional_saturation
   sep          : Nat,         \* global_plan_viapoint_sep
   car          : BOOLEAN,     \* cmd_angle_instead_rotvel
   radius       : Nat,         \* 95 % of min_turning_radius
   max          : Nat,         \* max_vel_x as configured
   side         : Nat,         \* max_vel_y
   back         : Int,         \* max_vel_x_backwards
   turn         : Nat,         \* max_vel_theta
   base         : Nat,         \* max_vel_x of TebConfig's constructor, kept in base_max_vel_x
   unset        : SUBSET Int,  \* what may lie in base_max_vel_x_backwards and base_max_vel_y
   settings     : SUBSET Nat,  \* what the parameter max_vel_x may be set to
   plans        : SUBSET Plans,        \* bounds of this instance: the inputs it gets
   poses        : SUBSET Poses,
   commands     : SUBSET RawCommands]

ASSUME ParameterAssumption ==
  /\ Configs \subseteq ConfigType
  /\ Plans \subseteq Seq(Int) \ {<<>>} /\ Poses \subseteq Int
  /\ RawCommands \subseteq [x : Int, y : Int, w : Int]
  /\ SpeedLimits \subseteq [kind : {"none", "percentage", "absolute"}, value : Nat]
  /\ \A limit \in SpeedLimits : limit.kind = "percentage" => limit.value <= 100
  /\ Wheelbase \in Nat
  /\ ObstacleMsgs \subseteq Seq([points : Nat, vel : Velocities])
  /\ \A lethal \in Lethals : lethal \subseteq Nat
  /\ {Threshold, Lookahead, PruneDist, MapSize, Behind, BufferLength, MaxFails, MaxEvents} \subseteq Nat

VARIABLES
  config,             \* the parameters that never change here
  sep, max_vel,       \* global_plan_viapoint_sep, max_vel_x
  base_max_vel,       \* base_max_vel_x, base_max_vel_x_backwards, base_max_vel_y
  stage,              \* the next step of computeVelocityCommands
  robot, robot_turn,  \* robot_pose_, the sign of robot_vel_.angular.z
  global_plan,
  transformed, goal_idx,
  via_points, custom_via_points_active,
  custom_obstacle_msg, obstacles,
  no_infeasible_plans, recently_infeasible,
  last_cmd, buffer,   \* last_cmd_, the signs the FailureDetector keeps
  recently_oscillated, last_preferred_rotdir,
  planner_rotdir,     \* the direction the planner's bands were last told; without a band, none
  planner_clear,      \* the planner holds no band
  events,             \* callbacks so far (bound)
  last_plan,          \* history: the plan set last
  last_via,           \* history: the custom via-points accepted last
  configured,         \* history: max_vel_x as the file or the last parameter gave it
  last_limit          \* history: the speed limit set last since then

limits == <<sep, max_vel, base_max_vel, configured, last_limit>>
plan == <<global_plan, last_plan>>
vias == <<via_points, custom_via_points_active, last_via>>
rotation == <<recently_oscillated, last_preferred_rotdir, planner_rotdir, buffer>>
failures == <<no_infeasible_plans, recently_infeasible, last_cmd, planner_clear>>
controllerVars == <<config, limits, stage, robot, robot_turn, plan, transformed, goal_idx, vias,
          custom_obstacle_msg, obstacles, failures, rotation, events>>

Zero == [x |-> <<0, 1>>, y |-> <<0, 1>>, w |-> <<0, 1>>]
NoLimit == [kind |-> "none", value |-> 0]
Static == "static"                        \* the velocity of an obstacle nobody gave one

ControllerInit ==
  /\ config \in Configs
  /\ sep = config.sep /\ max_vel = config.max /\ configured = config.max /\ last_limit = NoLimit
  /\ base_max_vel \in [x : {config.base}, back : config.unset, y : config.unset]
  /\ stage = "idle" /\ robot = 0 /\ robot_turn = 0
  /\ global_plan = <<>> /\ last_plan = <<>>
  /\ transformed = <<>> /\ goal_idx = 0
  /\ via_points = <<>> /\ custom_via_points_active = FALSE /\ last_via = <<>>
  /\ custom_obstacle_msg = <<>> /\ obstacles = <<>>
  /\ no_infeasible_plans = 0 /\ recently_infeasible = TRUE
  /\ last_cmd = Zero /\ buffer = <<>>
  /\ recently_oscillated = TRUE /\ last_preferred_rotdir = 0 /\ planner_rotdir = 0
  /\ planner_clear = TRUE /\ events = 0

-----------------------------------------------------------------------------
(* The plan.                                                               *)

Distance(a, b) == IF a > b THEN a - b ELSE b - a

\* Variant: the pose the robot is at goes too.
PrunedThrough(p, r) ==
  LET near == {i \in DOMAIN p : Distance(p[i], r) < PruneDist}
  IN IF near = {} THEN p ELSE SubSeq(p, Min(near) + 1, Len(p))

\* pruneGlobalPlan: what lies before the first pose near the robot goes; when no pose is near the
\* loop ends with erase_end still at the beginning, and nothing does.
Pruned(p, r) ==
  LET near == {i \in DOMAIN p : Distance(p[i], r) < PruneDist}
  IN IF near = {} THEN p ELSE SubSeq(p, Min(near), Len(p))

\* transformGlobalPlan: the search for the nearest pose stops at the border of the costmap, and
\* where the plan leaves the robot's own position again.
Searched(p, r) ==
  LET stops == {j \in DOMAIN p : \/ Distance(p[j], r) > Threshold
                                 \/ Distance(p[j], r) > 0 /\ \E k \in 1..(j - 1) : p[k] = r}
  IN IF stops = {} THEN DOMAIN p ELSE 1..(Min(stops) - 1)

Nearest(p, r) ==
  CHOOSE i \in Searched(p, r) :
    \A j \in Searched(p, r) : \/ Distance(p[i], r) < Distance(p[j], r)
                              \/ Distance(p[i], r) = Distance(p[j], r) /\ i <= j

Length(p, i, e) ==
  MapThenSumSet(LAMBDA k : IF k = 1 THEN 0 ELSE Distance(p[k - 1], p[k]), i..e)

\* From the nearest pose up to the first one outside the threshold or beyond the look-ahead, that
\* one included; the last pose of the whole plan when nothing is in reach.
LastInReach(p, r, i) ==
  Min({e \in i..Len(p) : \/ e = Len(p) \/ Distance(p[e], r) > Threshold
                         \/ Lookahead > 0 /\ Length(p, i, e) > Lookahead})

Transformed(p, r) ==
  IF Searched(p, r) = {} THEN [plan |-> <<Last(p)>>, goal |-> Len(p) - 1]
  ELSE LET i == Nearest(p, r)
           e == LastInReach(p, r, i)
       IN [plan |-> SubSeq(p, i, e), goal |-> e - 1]

setPlan(p) ==
  /\ stage = "idle"                   \* the same thread as computeVelocityCommands
  /\ global_plan' = p /\ last_plan' = p
  /\ UNCHANGED <<config, limits, stage, robot, robot_turn, transformed, goal_idx, vias,
                 custom_obstacle_msg, obstacles, failures, rotation, events>>

\* The head of computeVelocityCommands.  An empty plan, or a transform that is missing, ends it
\* with an exception that is not counted as an infeasible plan.
Begin(r, turn) ==
  /\ stage = "idle"
  /\ robot' = r /\ robot_turn' = turn
  /\ global_plan' = Pruned(global_plan, r)
  /\ IF global_plan' = <<>>
     THEN UNCHANGED <<stage, transformed, goal_idx>>
     ELSE /\ transformed' = Transformed(global_plan', r).plan
          /\ goal_idx' = Transformed(global_plan', r).goal
          /\ stage' = IF custom_via_points_active THEN "backup" ELSE "via"
  /\ UNCHANGED <<config, limits, last_plan, vias, custom_obstacle_msg, obstacles, failures,
                 rotation, events>>

NoTransform ==
  /\ stage = "idle" /\ global_plan # <<>>
  /\ \E r \in config.poses : global_plan' \in {global_plan, Pruned(global_plan, r)}
  /\ UNCHANGED <<config, limits, stage, robot, robot_turn, last_plan, transformed, goal_idx, vias,
                 custom_obstacle_msg, obstacles, failures, rotation, events>>

-----------------------------------------------------------------------------
(* Via-points.                                                             *)

\* Every pose at least the separation away from the one taken before it.
Separated(p, separation) ==
  LET Take(acc, i) == IF Distance(p[acc.prev], p[i]) < separation THEN acc
                      ELSE [prev |-> i, out |-> Append(acc.out, p[i])]
  IN IF separation = 0 THEN <<>>
     ELSE FoldLeft(Take, [prev |-> 1, out |-> <<>>], [k \in 1..(Len(p) - 1) |-> k + 1]).out

\* The flag was read before; the container is cleared without via_point_mutex_.
updateViaPointsContainer ==
  /\ stage = "via" /\ stage' = "backup"
  /\ via_points' = Separated(transformed, sep)
  /\ UNCHANGED <<config, limits, robot, robot_turn, plan, transformed, goal_idx,
                 custom_via_points_active, last_via, custom_obstacle_msg, obstacles, failures,
                 rotation, events>>

customViaPointsCB(points) ==
  /\ config.custom /\ events < MaxEvents /\ events' = events + 1
  /\ IF sep > 0
     THEN custom_via_points_active' = FALSE /\ UNCHANGED <<via_points, last_via>>
     ELSE /\ via_points' = points /\ last_via' = points
          /\ custom_via_points_active' = (points # <<>>)
  /\ UNCHANGED <<config, limits, stage, robot, robot_turn, plan, transformed, goal_idx,
                 custom_obstacle_msg, obstacles, failures, rotation>>

-----------------------------------------------------------------------------
(* Backup modes.                                                           *)

Sign(x) == IF x > 0 THEN 1 ELSE IF x < 0 THEN -1 ELSE 0
SignOf(q) == Sign(q[1])
Sum_(s) == FoldLeft(LAMBDA acc, x : acc + x, 0, s)
Abs(x) == IF x < 0 THEN -x ELSE x

\* FailureDetector::update: a circular buffer of normalised velocities, here their signs.
Measured(b, cmd) ==
  LET c == Append(b, [v |-> SignOf(cmd.x), omega |-> SignOf(cmd.w)])
  IN IF BufferLength = 0 THEN b ELSE IF Len(c) > BufferLength THEN Tail(c) ELSE c

\* FailureDetector::detect: on average it neither drives nor turns (the thresholds are 0.1, and a
\* mean of signs is a multiple of 1/n), and the turning changed its sign twice.
Oscillating(b) ==
  /\ BufferLength > 0 /\ Len(b) >= BufferLength \div 2
  /\ 10 * Abs(Sum_([i \in DOMAIN b |-> b[i].v])) < Len(b)
  /\ 10 * Abs(Sum_([i \in DOMAIN b |-> b[i].omega])) < Len(b)
  /\ Quantify(2..Len(b), LAMBDA i : b[i].omega # b[i - 1].omega) > 1

\* The shorter horizon: only when the goal's index is below that of the last transformed pose.
Shortened(p, goal) ==
  LET cut == IF no_infeasible_plans > 9 THEN (goal \div 2) \div 2 ELSE goal \div 2
  IN IF /\ goal < Len(p) - 1
        /\ no_infeasible_plans > 0 \/ recently_infeasible
        /\ Len(p) - cut - 1 > 0 /\ goal - cut >= 0
     THEN [plan |-> SubSeq(p, 1, Len(p) - cut - 1), goal |-> goal - cut]
     ELSE [plan |-> p, goal |-> goal]

\* Variant: the end of the recovery is not passed on.
ResolvesHere(seen) ==
  IF seen
  THEN LET dir == IF recently_oscillated THEN last_preferred_rotdir
                  ELSE IF robot_turn > 0 THEN 1 ELSE -1
       IN /\ last_preferred_rotdir' = dir
          /\ planner_rotdir' = IF config.hcp /\ planner_clear THEN 0 ELSE dir
          /\ recently_oscillated' = TRUE
  ELSE IF ~recently_oscillated /\ last_preferred_rotdir # 0
  THEN last_preferred_rotdir' = 0 /\ UNCHANGED <<planner_rotdir, recently_oscillated>>
  ELSE UNCHANGED <<last_preferred_rotdir, planner_rotdir, recently_oscillated>>

Resolves(seen) ==
  IF seen
  THEN LET dir == IF recently_oscillated THEN last_preferred_rotdir
                  ELSE IF robot_turn > 0 THEN 1 ELSE -1
       IN /\ last_preferred_rotdir' = dir
          /\ planner_rotdir' = IF config.hcp /\ planner_clear THEN 0 ELSE dir
          /\ recently_oscillated' = TRUE
  ELSE IF ~recently_oscillated /\ last_preferred_rotdir # 0
  THEN last_preferred_rotdir' = 0 /\ planner_rotdir' = 0 /\ UNCHANGED recently_oscillated
  ELSE UNCHANGED <<last_preferred_rotdir, planner_rotdir, recently_oscillated>>

configureBackupModes ==
  /\ stage = "backup" /\ stage' = "obstacles"
  /\ transformed' = Shortened(transformed, goal_idx).plan
  /\ goal_idx' = Shortened(transformed, goal_idx).goal
  /\ IF config.oscillation
     THEN buffer' = Measured(buffer, last_cmd) /\ Resolves(Oscillating(buffer'))
     ELSE UNCHANGED rotation
  /\ UNCHANGED <<config, limits, robot, robot_turn, plan, vias, custom_obstacle_msg, obstacles,
                 failures, events>>

\* Time passes beyond shrink_horizon_min_duration or oscillation_recovery_min_duration.
FailureFades ==
  /\ recently_infeasible /\ recently_infeasible' = FALSE
  /\ UNCHANGED <<config, limits, stage, robot, robot_turn, plan, transformed, goal_idx, vias,
                 custom_obstacle_msg, obstacles, no_infeasible_plans, last_cmd, planner_clear,
                 rotation, events>>

OscillationFades ==
  /\ recently_oscillated /\ recently_oscillated' = FALSE
  /\ UNCHANGED <<config, limits, stage, robot, robot_turn, plan, transformed, goal_idx, vias,
                 custom_obstacle_msg, obstacles, failures, buffer, last_preferred_rotdir,
                 planner_rotdir, events>>

-----------------------------------------------------------------------------
(* Obstacles.                                                              *)

\* updateObstacleContainerWithCostmap: lethal cells as points, the last cell of the map and those
\* far behind the robot left out.
CostmapObstacles(lethal) ==
  LET seen == {c \in lethal : c < MapSize - 1 /\ ~(c < robot /\ robot - c > Behind)}
  IN [i \in 1..Cardinality(seen) |-> [points |-> 1, vel |-> Static, own |-> Static]]

\* updateObstacleContainerWithCostmapConverter: a message without vertices adds no obstacle, and
\* its velocity is given to the obstacle before it.
SetLastVelocity(out, vel) ==
  IF out = <<>> THEN out ELSE [out EXCEPT ![Len(out)].vel = vel]

Convert(out, m) ==
  SetLastVelocity(IF m.points = 0 THEN out
                  ELSE Append(out, [points |-> m.points, vel |-> Static, own |-> m.vel]),
                  m.vel)

Converted(msgs) ==
  LET out[n \in 0 .. Len(msgs)] == IF n = 0 THEN <<>> ELSE Convert(out[n - 1], msgs[n])
  IN out[Len(msgs)]

\* Variant: the custom obstacles are added as those of the converter.
WithCustomUnskipped(out0, msgs) ==
  LET out[n \in 0 .. Len(msgs)] == IF n = 0 THEN out0 ELSE Convert(out[n - 1], msgs[n])
  IN out[Len(msgs)]

\* updateObstacleContainerWithCustomObstacles, under custom_obst_mutex_: an empty message is skipped
\* with its velocity.
AddCustom(out, m) == IF m.points = 0 THEN out ELSE Convert(out, m)

WithCustom(out0, msgs) ==
  LET out[n \in 0 .. Len(msgs)] == IF n = 0 THEN out0 ELSE AddCustom(out[n - 1], msgs[n])
  IN out[Len(msgs)]

customObstacleCB(msg) ==
  /\ config.custom /\ events < MaxEvents /\ events' = events + 1
  /\ custom_obstacle_msg' = msg
  /\ UNCHANGED <<config, limits, stage, robot, robot_turn, plan, transformed, goal_idx, vias,
                 obstacles, failures, rotation>>

\* The container is cleared and filled again; then the configuration mutex is taken.
UpdateObstacles ==
  /\ stage = "obstacles" /\ stage' = "plan"
  /\ \/ /\ config.converter
        /\ \E msgs \in ObstacleMsgs :
             /\ \A i \in DOMAIN msgs : msgs[i].points > 0     \* no converter sends an empty one
             /\ obstacles' = WithCustom(Converted(msgs), custom_obstacle_msg)
     \/ /\ ~config.converter
        /\ \E lethal \in Lethals :
             obstacles' = WithCustom(CostmapObstacles(lethal), custom_obstacle_msg)
  /\ UNCHANGED <<config, limits, robot, robot_turn, plan, transformed, goal_idx, vias,
                 custom_obstacle_msg, failures, rotation, events>>

-----------------------------------------------------------------------------
(* Planning and the command.                                               *)

\* What only lives until the planner has it.
Locals == transformed' = <<>> /\ goal_idx' = 0 /\ robot' = 0 /\ robot_turn' = 0 /\ obstacles' = <<>>

\* Every failure clears the planner, counts, and is remembered as a command to stand still.
Fail ==
  /\ stage' = "idle"
  /\ planner_clear' = TRUE
  /\ planner_rotdir' = IF config.hcp THEN 0 ELSE planner_rotdir      \* the bands held it
  /\ no_infeasible_plans' = Min({no_infeasible_plans + 1, MaxFails})
  /\ recently_infeasible' = TRUE
  /\ last_cmd' = Zero

\* plan() fails, or the trajectory has diverged.
PlanFails ==
  /\ stage = "plan" /\ Fail /\ Locals
  /\ UNCHANGED <<config, limits, plan, vias, custom_obstacle_msg, recently_oscillated,
                 last_preferred_rotdir, buffer, events>>

Plan ==
  /\ stage = "plan" /\ stage' = "command" /\ planner_clear' = FALSE /\ Locals
  /\ UNCHANGED <<config, limits, plan, vias, custom_obstacle_msg, no_infeasible_plans,
                 recently_infeasible, last_cmd, rotation, events>>

\* The trajectory is not feasible, has no command, or its steering angle is not finite.
CommandFails ==
  /\ stage = "command" /\ Fail
  /\ UNCHANGED <<config, limits, robot, robot_turn, plan, transformed, goal_idx, vias,
                 custom_obstacle_msg, obstacles, recently_oscillated, last_preferred_rotdir,
                 buffer, events>>

\* saturateVelocity, as fractions <<numerator, denominator>>: each component by its own ratio, or
\* all by the smallest.  Driving backwards is not limited when max_vel_x_backwards is not positive.
RatioX(x) ==
  IF x > max_vel THEN <<max_vel, x>>
  ELSE IF config.back > 0 /\ x < -config.back THEN <<config.back, -x>> ELSE <<1, 1>>
RatioOf(v, limit) == IF Abs(v) > limit THEN <<limit, Abs(v)>> ELSE <<1, 1>>
Smaller(p, q) == IF p[1] * q[2] <= q[1] * p[2] THEN p ELSE q
Scaled(x, ratio) == <<x * ratio[1], ratio[2]>>

Saturated(raw) ==
  LET rx == RatioX(raw.x)
      ry == RatioOf(raw.y, config.side)
      rw == RatioOf(raw.w, config.turn)
      r  == Smaller(Smaller(rx, ry), rw)
  IN IF config.proportional
     THEN [x |-> Scaled(raw.x, r), y |-> Scaled(raw.y, r), w |-> Scaled(raw.w, r)]
     ELSE [x |-> Scaled(raw.x, rx), y |-> Scaled(raw.y, ry), w |-> Scaled(raw.w, rw)]

\* convertTransRotVelToSteeringAngle, of which the tangent: the wheelbase by the radius, which is
\* not below 95 % of min_turning_radius; no angle for a turn on the spot.
Steering(x, w) ==
  LET n == x[1] * w[2]
      d == w[1] * x[2]
      side == Sign(n) * Sign(d)
  IN IF n = 0 \/ d = 0 THEN <<0, 1>>
     ELSE IF Abs(n) < config.radius * Abs(d) THEN <<side * Wheelbase, config.radius>>
     ELSE <<side * Wheelbase * Abs(d), Abs(n)>>

Command(raw) ==
  /\ stage = "command" /\ stage' = "idle"
  /\ LET c == Saturated(raw)
     IN last_cmd' = IF config.car THEN [c EXCEPT !.w = Steering(c.x, c.w)] ELSE c
  /\ no_infeasible_plans' = 0
  /\ UNCHANGED <<config, limits, robot, robot_turn, plan, transformed, goal_idx, vias,
                 custom_obstacle_msg, obstacles, recently_infeasible, planner_clear, rotation,
                 events>>

-----------------------------------------------------------------------------
(* Changes of the configuration.                                           *)

\* A velocity in the proportion of part to whole, in whole units.
InProportion(velocity, part, whole) == (velocity * part) \div whole
Slowed(base, part, whole) ==
  [base EXCEPT !.back = InProportion(@, part, whole), !.y = InProportion(@, part, whole)]
Fastest(base) == Max({base.x, base.back, base.y})

LimitArrives(limit) ==
  /\ config.limits /\ events < MaxEvents /\ events' = events + 1
  /\ last_limit' = limit
  /\ UNCHANGED <<config, sep, configured, stage, robot, robot_turn, plan, transformed, goal_idx,
                 vias, custom_obstacle_msg, obstacles, failures, rotation>>

\* Variant: a percentage of the velocity in force.
setSpeedLimitAgain(limit) ==
  /\ LimitArrives(limit)
  /\ \/ /\ limit.kind = "none" /\ max_vel' = base_max_vel.x /\ UNCHANGED base_max_vel
     \/ /\ limit.kind = "percentage"
        /\ max_vel' = InProportion(max_vel, limit.value, 100)
        /\ base_max_vel' = Slowed(base_max_vel, limit.value, 100)
     \/ limit.kind = "absolute" /\ UNCHANGED <<max_vel, base_max_vel>>

\* No lock.  Of the velocities in force only max_vel_x is set; of the base velocities the others
\* are scaled, the one of turning too, which nothing reads.  An absolute limit that is not below
\* the fastest base velocity changes nothing.
setSpeedLimit(limit) ==
  /\ LimitArrives(limit)
  /\ \/ /\ limit.kind = "none" /\ max_vel' = base_max_vel.x /\ UNCHANGED base_max_vel
     \/ /\ limit.kind = "percentage"
        /\ max_vel' = InProportion(base_max_vel.x, limit.value, 100)
        /\ base_max_vel' = Slowed(base_max_vel, limit.value, 100)
     \/ /\ limit.kind = "absolute" /\ limit.value < Fastest(base_max_vel)
        /\ max_vel' = InProportion(base_max_vel.x, limit.value, Fastest(base_max_vel))
        /\ base_max_vel' = Slowed(base_max_vel, limit.value, Fastest(base_max_vel))
     \/ /\ limit.kind = "absolute" /\ ~(limit.value < Fastest(base_max_vel))
        /\ UNCHANGED <<max_vel, base_max_vel>>

\* TebConfig::dynamicParametersCallback for the velocities and global_plan_viapoint_sep: it waits
\* for the configuration mutex, which the planning steps hold.  max_vel_x_backwards and max_vel_y
\* are set to what they are.
dynamicParametersCallback ==
  /\ config.limits /\ events < MaxEvents /\ events' = events + 1
  /\ stage \notin {"plan", "command"}
  /\ \/ \E v \in config.settings :
          /\ max_vel' = v /\ base_max_vel' = [base_max_vel EXCEPT !.x = v] /\ UNCHANGED sep
          /\ configured' = v /\ last_limit' = NoLimit
     \/ /\ base_max_vel' \in {[base_max_vel EXCEPT !.back = config.back],
                              [base_max_vel EXCEPT !.y = config.side]}
        /\ UNCHANGED <<sep, max_vel, configured, last_limit>>
     \/ /\ sep' = (IF sep = 0 THEN 1 ELSE 0)
        /\ UNCHANGED <<max_vel, base_max_vel, configured, last_limit>>
  /\ UNCHANGED <<config, stage, robot, robot_turn, plan, transformed, goal_idx, vias,
                 custom_obstacle_msg, obstacles, failures, rotation>>

-----------------------------------------------------------------------------
Cycle ==
  \/ \E r \in config.poses, turn \in {-1, 1} : Begin(r, turn)
  \/ NoTransform
  \/ updateViaPointsContainer \/ configureBackupModes \/ UpdateObstacles
  \/ PlanFails \/ Plan \/ CommandFails
  \/ \E raw \in config.commands : Command(raw)

Callback ==
  \/ \E points \in ViaMsgs : customViaPointsCB(points)
  \/ \E msg \in ObstacleMsgs : customObstacleCB(msg)
  \/ \E limit \in SpeedLimits : setSpeedLimit(limit)
  \/ dynamicParametersCallback

ControllerNext ==
  \/ \E p \in config.plans : setPlan(p)
  \/ Cycle \/ Callback
  \/ FailureFades \/ OscillationFades

-----------------------------------------------------------------------------
(* Properties.                                                             *)

\* Whatever is pruned, the plan keeps the goal it was set with and is a tail of that plan; what
\* the planner gets is a stretch of it whose last pose goal_idx names, the index by which the
\* goal's orientation is estimated (teb_local_planner_ros.cpp:648-890).
PlanKeepsGoal ==
  /\ IsSuffix(global_plan, last_plan)
  /\ last_plan # <<>> => global_plan # <<>>
  /\ stage \in {"via", "backup", "obstacles", "plan"} =>
       /\ goal_idx + 1 \in DOMAIN global_plan
       /\ Last(transformed) = global_plan[goal_idx + 1]
       /\ IsSuffix(transformed, SubSeq(global_plan, 1, goal_idx + 1))

\* An obstacle moves with the velocity of the message it came from, though the velocity is given
\* to whatever obstacle is last in the container (teb_local_planner_ros.cpp:495-616).
ObstaclesHaveOwnVelocity == \A i \in DOMAIN obstacles : obstacles[i].vel = obstacles[i].own

\* What the last speed limit leaves of the configured velocity.
Allowed ==
  IF last_limit.kind = "percentage" THEN InProportion(configured, last_limit.value, 100)
  ELSE IF last_limit.kind = "absolute" THEN Min({configured, last_limit.value}) ELSE configured

\* Once base_max_vel_x holds the configured velocity: a command drives forward no faster than the
\* configured velocity and the last speed limit allow, whatever limits and parameters came before
\* and whether they came between planning and command; and no earlier limit is left, a command that
\* velocity and percentage allow goes out as it is (setSpeedLimit, teb_local_planner_ros.cpp:1040).
LastLimitGoverns(raw) ==
  base_max_vel.x = configured =>
    /\ last_cmd'.x[1] <= Allowed * last_cmd'.x[2]
    /\ /\ last_limit.kind # "absolute" /\ raw.x <= Allowed /\ (config.back > 0 => raw.x >= -config.back)
       /\ Abs(raw.y) <= config.side /\ Abs(raw.w) <= config.turn
       => /\ last_cmd'.x = <<raw.x, 1>> /\ last_cmd'.y = <<raw.y, 1>>
          /\ ~config.car => last_cmd'.w = <<raw.w, 1>>

\* Strafing, driving backwards where it is limited, and turning keep their limits, a car turns in
\* no smaller circle than it can, and proportional scaling keeps the direction and, but for a car,
\* the curvature (teb_local_planner_ros.cpp:893-948).
CommandSaturated(raw) ==
  LET x == last_cmd'.x
      y == last_cmd'.y
      w == last_cmd'.w
  IN /\ Abs(y[1]) <= config.side * y[2]
     /\ config.back > 0 => -x[1] <= config.back * x[2]
     /\ ~config.car => Abs(w[1]) <= config.turn * w[2]
     /\ config.car => Abs(w[1]) * config.radius <= Wheelbase * w[2]
     /\ config.proportional => x[1] * raw.y * y[2] = y[1] * raw.x * x[2]
     /\ config.proportional /\ ~config.car => x[1] * raw.w * w[2] = w[1] * raw.x * x[2]

\* Each command keeps every limit that governs it, forwards the last speed limit of the messages
\* and parameters so far (computeVelocityCommands, setSpeedLimit, dynamicParametersCallback).
CommandWithinLimits ==
  [][\A raw \in config.commands :
       Command(raw) => LastLimitGoverns(raw) /\ CommandSaturated(raw)]_controllerVars

\* A preferred turning direction does not outlive the oscillation it was meant for: once none is
\* detected any more the planner is told so (teb_local_planner_ros.cpp:1013-1034).
PreferenceExpires ==
  (<>[](global_plan # <<>> /\ ~Oscillating(buffer))) => <>[](planner_rotdir = 0)

\* base_max_vel_x is the velocity "before speed limit is applied" (teb_config.h:103), and lifting
\* a limit restores the "default value" (teb_local_planner_ros.cpp:1044).
LiftedLimitRestores == [][setSpeedLimit(NoLimit) => max_vel' = configured]_controllerVars

\* "Max velocities are being changed in the same proportion" (teb_local_planner_ros.cpp:1062): what
\* is left of strafing is the part that is left of driving.
LimitsInProportion ==
  [][\A raw \in config.commands :
       Command(raw) => Abs(last_cmd'.y[1]) * configured <= config.side * max_vel * last_cmd'.y[2]]_controllerVars

\* An absolute speed limit is one (teb_local_planner_ros.cpp:1057): no command is faster.
AbsoluteLimitBinds ==
  [][\A raw \in config.commands :
       Command(raw) /\ last_limit.kind = "absolute"
         => last_cmd'.x[1] <= last_limit.value * last_cmd'.x[2]]_controllerVars

\* custom_via_points_active_ tells that valid via-points were received
\* (teb_local_planner_ros.h:395); the container then holds them.
ActiveViaPointsKept == custom_via_points_active => via_points = last_via

\* The configuration does not change between planning and command
\* (teb_local_planner_ros.cpp:345).
LimitsSteadyWhilePlanning == [][stage = "command" => UNCHANGED limits]_controllerVars

\* With shrink_horizon_backup the horizon is shorter after an infeasible plan
\* (teb_config.cpp:144).
HorizonShrinks ==
  [][configureBackupModes /\ no_infeasible_plans > 0 /\ Len(transformed) > 2
       => Len(transformed') < Len(transformed)]_controllerVars
=============================================================================
