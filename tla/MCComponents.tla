----------------------------- MODULE MCComponents -----------------------------
(***************************************************************************)
(* The components that have a thread of their own and share nothing,       *)
(* checked in one run: every initial state names a component, and only     *)
(* that one takes steps.  To the ones of Components come the map of        *)
(* Point-LIO and the algorithms without a state; these are given an input, *)
(* each from the set named for it below.                                   *)
(***************************************************************************)
EXTENDS Components, TLC

VARIABLES
  part,                                                        \* the component that runs
  chosen, input,                                               \* an algorithm's input
  tree, bag, added, deleted, removed, cached, localMap, needrm, lidar, ops

inputVars == <<chosen, input>>
areaVars == <<area, points, writing, at, content, file, clicks, faults>>
trackVars == <<image, mapOrigin, grids, fg, tracks, nextId, published, changes, still, tick>>
parameterVars ==
  <<nodeValues, config, base, model_name, members, robot_model, warned, loaded, sets>>
pointVars == <<tree, bag, added, deleted, removed, cached, localMap, needrm, lidar, ops>>
bandVars == <<band, velGoalFixed, optimized, iteration, start, goal, outcome, plans>>
layerVars == <<origin, master, below, costmap, last, need_recalculation, cycles>>

ConfiguredCounts == <<2, 2, 2, 2, 4, 4, 4, 4, 4, 4, 4, 4>>           \* config_dynamic_modifier.yaml

Map == INSTANCE PointMap WITH
  Points <- {<<-9, 1, 2>>, <<-5, 3, 1>>, <<1, 2, 4>>, <<2, -3, 3>>, <<3, -1, -4>>, <<6, 4, -2>>},
  Scans <- {<< <<-9, 1, 2>> >>, << <<-5, 3, 1>>, <<-9, 1, 2>> >>,
            << <<1, 2, 4>>, <<2, -3, 3>> >>, << <<6, 4, -2>>, <<3, -1, -4>> >>},
  First <- {<<-5, 3, 1>>, <<1, 2, 4>>, <<2, -3, 3>>, <<3, -1, -4>>, <<6, 4, -2>>},
  Positions <- {<<0, 0, 0>>, <<-1, 0, 0>>, <<-8, 0, 0>>},
  Boxes <- {<< <<-9, -9, -9>>, <<2, 9, 9>> >>, << <<1, -4, -4>>, <<4, 6, 6>> >>},
  Queries <- {<<0, 0, 0>>, <<2, 3, 4>>, <<-5, 4, 1>>},
  Neighbours <- 2, Reach2 <- 45, MinUnbalanced <- 3, DeletePart <- 50, BalancePart <- 60,
  FilterSize <- 4, CubeLen <- 20, DetRange <- 4, Threshold2 <- 3, MaxOps <- 5
Band == INSTANCE TimedElasticBand
Matcher == INSTANCE Assignment WITH Forbidden <- 999
Problem == INSTANCE TebGraph WITH Force2 <- 2, Cutoff2 <- 5, PosesAffected <- 4
Cost == INSTANCE TebEdges
Shape == INSTANCE ObstacleGeometry
Converter == INSTANCE CostmapToPolygons WITH
  MaxDistance <- 1, MinPts <- 2, MaxPts <- 4, Separation2 <- 1, Depth <- 1, InlierDistance2 <- 0,
  InBetween2 <- 1, MinInliers <- 3, RemainingOutliers <- 2
Scan == INSTANCE Preprocess WITH
  Body <- {"body"}, Origin <- "body", N_SCANS <- 1, Returns <- {1}, point_filter_num <- 1,
  OneMs <- 3, Turn <- 6
MapFile == INSTANCE Pcd2Pgm WITH
  map_resolution <- 2, height_threshold <- 1,
  Thresholds <- [x |-> <<0, 9>>, y |-> <<0, 9>>, z |-> <<0, 9>>]

-----------------------------------------------------------------------------
(* Inputs of the algorithms.                                                 *)

SeqsOf(S, n) == UNION {[1 .. k -> S] : k \in 0 .. n}

\* Distances between up to three tracks and three detections.
Matrices == UNION {[(1 .. r) \X (1 .. c) -> {0, 1, 4}] : r \in 1 .. 3, c \in 0 .. 3}

\* Bands by their time differences, and straight plans with a turn back.  The robot of sentry.yaml
\* (3 m/s, 8 m/s^2) reaches full speed in 30 units of time; a fifth of a second is 16 of them.
Intervals == UNION {[1 .. n -> {16, 32, 48, 64, 96, 128, 256}] : n \in 1 .. 4}
Plans == UNION {[1 .. n -> {0, 32, 128, 192}] : n \in 1 .. 4}
Rise == 30
Standing == 16
BandOf(dts) ==
  [poses |-> [i \in 1 .. Len(dts) + 1 |-> FoldLeft(+, 0, SubSeq(dts, 1, i - 1))], dts |-> dts]

\* Straight bands, obstacles and via points around them.
Place == (0 .. 4) \X {0, 1, 2, 4}
GraphBase ==
  [obstacle |-> TRUE, legacy |-> FALSE, dynamic |-> FALSE, via |-> TRUE, ordered |-> FALSE,
   velStart |-> TRUE, velGoal |-> TRUE, shortest |-> TRUE, carlike |-> FALSE, prefer |-> "none",
   ratio |-> TRUE]
GraphConfigs ==
  {GraphBase, [GraphBase EXCEPT !.legacy = TRUE], [GraphBase EXCEPT !.dynamic = TRUE],
   [GraphBase EXCEPT !.ordered = TRUE, !.prefer = "left"],
   [GraphBase EXCEPT !.carlike = TRUE, !.obstacle = FALSE, !.velStart = FALSE, !.velGoal = FALSE]}
Around ==
  [obs : {<<>>} \cup [1 .. 1 -> [at : Place, dynamic : BOOLEAN]]
           \cup [1 .. 2 -> [at : {0, 2, 3} \X {0, 1, 4}, dynamic : BOOLEAN]],
   via : {<<>>, << <<1, 2>> >>}]
  \cup [obs : {<<>>}, via : UNION {[1 .. n -> (0 .. 4) \X {2}] : n \in 1 .. 3}]
GraphInputs ==
  [c : GraphConfigs, p : {[i \in 1 .. n |-> <<i - 1, 2>>] : n \in 2 .. 5}, around : Around]

\* Two poses of a motion, with a speed and a time.
EdgeConfig ==
  [exact_arc_length |-> FALSE, max_vel_x |-> 100, max_vel_x_backwards |-> 50, max_vel_y |-> 0,
   max_vel_theta |-> 100, acc_lim_x |-> 100, acc_lim_y |-> 50, acc_lim_theta |-> 50, eps |-> 10,
   min_turning_radius |-> 1, min_obstacle_dist |-> 3, exponent |-> 1, inflation_dist |-> 5,
   dynamic_obstacle_inflation_dist |-> 4, lower |-> 1, upper |-> 4]
EdgeConfigs ==
  {EdgeConfig, [EdgeConfig EXCEPT !.exact_arc_length = TRUE, !.exponent = 2, !.eps = 1]}
Pose == {<<x, y, h>> : x \in 0 .. 2, y \in 0 .. 2, h \in 0 .. 3}
Motions == [p : Pose, q : Pose, k : -3 .. 3, t : 1 .. 2]

\* Two shapes, or a shape and a point: points, segments and triangles on a small lattice.
Lattice == {<<x, y>> : x \in 0 .. 2, y \in 0 .. 1}
Shapes ==
  {<< <<1, 0>> >>, << <<2, 1>> >>}
  \cup {w \in UNION {[1 .. n -> Lattice] : n \in {2, 3}} : \A i, j \in DOMAIN w : i # j => w[i] # w[j]}
ShapePairs == [v : Shapes, r : Shapes] \cup [v : Shapes, p : Lattice, d : 0 .. 2]

\* Maps of three by three cells.
Occupied == SUBSET ((0 .. 2) \X (0 .. 2)) \ {{}}

\* Messages of a Livox lidar whose points are good, of a spinning one, and sorted times.
Moves == [1 .. 5 -> {"p", "q", "body"} \X (0 .. 2)]
LivoxOf(moves) ==
  [i \in DOMAIN moves |->
     [at |-> moves[i][1], line |-> 0, tag |-> 1,
      time |-> FoldLeft(LAMBDA s, m : s + m[2], 0, SubSeq(moves, 1, i))]]
Sweeps == [1 .. 5 -> {0} \X (-2 .. 3)] \cup [1 .. 4 -> {0, 1} \X (-2 .. 3)]
SpunOf(sweep) ==
  [i \in DOMAIN sweep |-> [ring |-> sweep[i][1], yaw |-> sweep[i][2], time |-> 0, range |-> 1]]
Messages ==
  [livox : Moves, spun : {<<>>}, times : {<<>>}] \cup [livox : {<<>>}, spun : Sweeps, times : {<<>>}]
  \cup [livox : {<<>>}, spun : {<<>>}, times : [1 .. 5 -> 0 .. 3]]

\* Clouds of three points, steep or flat; and hills of five cells inside a border.
P(x, y, z, s) == [x |-> x, y |-> y, z |-> z, steep |-> s]
Hills == [{<<5, 5>>, <<3, 3>>, <<3, 5>>, <<1, 3>>, <<5, 3>>} -> 0 .. 2]
CloudOf(hill) ==
  <<P(0, 0, 1, FALSE), P(9, 9, 1, FALSE)>>
  \o [k \in 1 .. 5 |-> LET top == << <<5, 5>>, <<3, 3>>, <<3, 5>>, <<1, 3>>, <<5, 3>> >>[k]
                      IN P(top[1], top[2], hill[top], FALSE)]
  \o <<P(0, 0, 0, FALSE)>>
Clouds ==
  {<<a, b, c>> : a, b, c \in {P(x, y, 1, s) : x \in 0 .. 2, y \in 0 .. 4, s \in BOOLEAN}}
  \cup {CloudOf(hill) : hill \in Hills}

Algorithms ==
  {"assignment", "resize", "initialise", "graph", "edges", "shapes", "converter", "messages",
   "clouds"}
Inputs(algorithm) ==
  CASE algorithm = "assignment" -> Matrices
    [] algorithm = "resize" -> Intervals
    [] algorithm = "initialise" -> Plans
    [] algorithm = "graph" -> GraphInputs
    [] algorithm = "edges" -> Motions
    [] algorithm = "shapes" -> ShapePairs
    [] algorithm = "converter" -> Occupied \X {"polygons", "ransac"}
    [] algorithm = "messages" -> Messages
    [] algorithm = "clouds" -> Clouds

-----------------------------------------------------------------------------
PartsInit ==
  /\ part \in Algorithms
       \cup {"commands", "areas", "tracker", "parameters", "map", "port", "planner", "layer"}
  /\ chosen = FALSE /\ input = <<>>
  /\ Init /\ (part # "commands" => server)
  /\ Modifier!Init /\ Tracker!Init /\ image = {} /\ Map!MapInit /\ SerInit /\ Planner!PlanInit
  /\ Layer!LayerInit
  /\ IF part = "parameters" THEN Parameter!Init
     ELSE /\ nodeValues = {} /\ config = {} /\ base = {} /\ model_name = {} /\ members = {}
          /\ robot_model = {} /\ warned = {} /\ loaded = FALSE /\ sets = {}

Navigating ==
  /\ part = "commands" /\ Next
  /\ UNCHANGED <<part, inputVars, areaVars, trackVars, parameterVars, pointVars, serVars, bandVars, layerVars>>

Clicking ==
  /\ part = "areas" /\ Modifier!Next
  /\ UNCHANGED <<part, vars, inputVars, trackVars, parameterVars, pointVars, serVars, bandVars, layerVars>>

Tracking ==
  /\ part = "tracker" /\ Tracker!DynamicNext
  /\ UNCHANGED <<part, vars, inputVars, areaVars, parameterVars, pointVars, serVars, bandVars, layerVars>>

Parameters_ ==
  /\ part = "parameters" /\ Parameter!ConfigNext
  /\ UNCHANGED <<part, vars, inputVars, areaVars, trackVars, pointVars, serVars, bandVars, layerVars>>

Mapping ==
  /\ part = "map" /\ Map!MapNext
  /\ UNCHANGED <<part, vars, inputVars, areaVars, trackVars, parameterVars, serVars, bandVars, layerVars>>

Reading ==
  /\ part = "port" /\ SerNext
  /\ UNCHANGED <<part, vars, inputVars, areaVars, trackVars, parameterVars, pointVars, bandVars, layerVars>>

Planning ==
  /\ part = "planner" /\ Planner!PlanNext
  /\ UNCHANGED <<part, vars, inputVars, areaVars, trackVars, parameterVars, pointVars, serVars, layerVars>>

Layering ==
  /\ part = "layer" /\ Layer!LayerNext
  /\ UNCHANGED <<part, vars, inputVars, areaVars, trackVars, parameterVars, pointVars, serVars, bandVars>>

Choosing ==
  /\ part \in Algorithms /\ ~chosen
  /\ chosen' = TRUE
  /\ input' \in Inputs(part)
  /\ UNCHANGED <<part, vars, areaVars, trackVars, parameterVars, pointVars, serVars, bandVars, layerVars>>

PartsNext ==
  Navigating \/ Clicking \/ Tracking \/ Parameters_ \/ Mapping \/ Reading \/ Planning \/ Layering
  \/ Choosing

\* Fairness is that of the navigation manager's executor; nothing else here has to go on.
PartsSpec ==
  /\ PartsInit
  /\ [][PartsNext]_<<part, vars, inputVars, areaVars, trackVars, parameterVars, pointVars, serVars,
                    bandVars, layerVars>>
  /\ WF_vars(Callback)

-----------------------------------------------------------------------------
(* Properties beside those of Components.                                    *)

Runs(component) == part = component
Chose(algorithm) == part = algorithm /\ chosen

\* After any sequence of builds, additions, deletions and searches the tree holds exactly the
\* points of a plain set of them, finds the nearest ones, and loses none that it reports
\* (KD_TREE's sequential operations as laserMapping calls them).
MapIsTheReference == Runs("map") => Map!MapExact /\ Map!SearchExact /\ Map!NothingLost

\* The optimisation problem is about the band: resizing and initialising a band keep its ends, its
\* order and its time, no way of a new band is driven faster than the robot can be or, on a path,
\* can become, the edges join poses, times, obstacles and via points that exist, every pose is
\* pushed by the obstacle nearest to it, and costs and their derivatives agree and grow with what
\* they punish (TimedElasticBand, TebOptimalPlanner's AddEdges*, the g2o edges).
ProblemSound ==
  /\ Chose("resize") =>
       \A m \in {1, 3}, M \in {4, 8} :
         Band!ResizeSound(BandOf(input), [ref |-> 48, hysteresis |-> 16], m, M)
  /\ Chose("initialise") =>
       \A m \in {2, 3, 5} :
         /\ Band!InitSound(Band!InitFromPlan(input, m), Head(input), input[Len(input)], m)
         /\ \A step \in {0, 48} :
              Band!InitSound(Band!InitToGoal(Head(input), input[Len(input)], step, m),
                             Head(input), input[Len(input)], m)
         /\ Len(input) > 1 =>
              LET b == Band!InitFromPath(input, Rise, Standing, m)
              IN Band!InitSound(b, Head(input), input[Len(input)], m) /\ Band!PathSound(b, input, Rise)
  /\ Chose("graph") =>
       /\ Problem!GraphInBand(input.c, input.p, input.around.obs, input.around.via, 2)
       /\ Problem!NearestPushes(input.c, input.p, input.around.obs, 2)
  /\ Chose("edges") =>
       LET p == input.p   q == input.q   k == input.k   t == input.t
       IN /\ Cost!KinematicsSound(p, q)
          /\ Cost!JacobianSound(p, q)
          /\ Cost!PosesSound(p, q, q[3])
          /\ Cost!PenaltySound(q[1] - p[1] + k, - p[2], q[2], t - 1)
          /\ \A c \in EdgeConfigs :
               /\ Cost!MotionsSound(c, p, k, q[1] - 1, t, 1 + q[2], 100 * (q[3] - 1))
               /\ Cost!NearerIsDearer(c, p, q, t, k + 2)

\* What is made of the sensors' data says what the data said.  A world at rest has nothing that
\* moves, and blobs go to tracks by an optimal assignment (the background subtractor,
\* AssignmentProblemSolver); distances and collisions of shapes agree with each other, and the
\* shapes cover the cells they were made of (obstacles.h, costmap_to_polygons); points carry the
\* time they were measured at, and equal times are grouped together (Preprocess); the obstacles of
\* a map file are those of the cloud, on both sides of a step (pcd2pgm).
PerceptionSound ==
  /\ Runs("tracker") => Tracker!StillIsBackground
  /\ Chose("assignment") =>
       LET R == {i[1] : i \in DOMAIN input}
           C == {i[2] : i \in DOMAIN input}
       IN /\ Matcher!OptimalIsOptimal(input, R, C)
          /\ \A greedy \in {Matcher!assignmentsuboptimal1(input, R, C),
                           Matcher!assignmentsuboptimal2(input, R, C)} :
               Matcher!GreedyIsMaximal(input, R, C, greedy)
  /\ Chose("shapes") =>
       IF "p" \in DOMAIN input
         THEN Shape!CollisionSound(input.v, input.p, input.d)
         ELSE /\ Shape!DistanceSound(input.v, input.r)
              /\ Len(input.v) = 1 /\ Len(input.r) = 2 =>
                   \A d \in 0 .. 2 :
                     Shape!IntersectionSound(Shape!CircularObstacle(input.v[1], d, <<0, 0>>),
                                             input.r[1], input.r[2], d)
  /\ Chose("converter") =>
       LET cells == Converter!CellsOf(input[1], 3, 3)
       IN /\ Converter!ClustersSound(cells)
          /\ Converter!HullsSound(cells)
          /\ Converter!EdgesDoNotCross(cells)
          /\ \A result \in Converter!compute(input[2], cells) :
               Converter!CellsCovered(input[2], cells, result)
  /\ Chose("messages") =>
       /\ Scan!SmoothTimesKept(LivoxOf(input.livox))
       /\ Scan!SweepTimed(SpunOf(input.spun))
       /\ Scan!GroupsSound(input.times)
  /\ Chose("clouds") =>
       LET cloud == MapFile!passThroughFilter(input)
       IN MapFile!ObstaclesReadBack(cloud) /\ MapFile!StepsAreTwoSided(cloud)
=============================================================================
