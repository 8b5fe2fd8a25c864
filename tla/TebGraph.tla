------------------------------- MODULE TebGraph -------------------------------
(***************************************************************************)
(* The graph of cost terms that the optimal planner builds for a band       *)
(* (TebOptimalPlanner::buildGraph).  Poses and times are named by their     *)
(* place in the band, from one; an edge names the poses, the times and the  *)
(* obstacle or via point that it ties together, and the factor its weight   *)
(* is multiplied with.  All poses face along (1, 0).                        *)
(***************************************************************************)
EXTENDS PlaneGeometry, SequencesExt, FiniteSetsExt

CONSTANTS
  Force2, Cutoff2,     \* squared distances: min_obstacle_dist times the two factors of the association
  PosesAffected        \* obstacle_poses_affected

\* poses is the sequence of the band's points, obs that of the obstacles, via that of the via points.
Edge(type, ps, ts, of, factor) == [type |-> type, poses |-> ps, times |-> ts, of |-> of, factor |-> factor]
Along(n, edge(_)) == [i \in 1..n |-> edge(i)]
Dist2(poses, i, o) == Norm2(Minus(o.at, poses[i]))

-----------------------------------------------------------------------------
(* Obstacles.                                                               *)

\* The obstacles in reach of pose i on one side, in their order; dynamic ones have edges of their own.
Considered(c, obs) == {k \in DOMAIN obs : ~(c.dynamic /\ obs[k].dynamic)}
OnLeft(poses, i, o) == Cross2d(<<1, 0>>, o.at) > 0

\* What the code means: the side as seen from the pose.
OnLeftOf(poses, i, o) == Cross2d(<<1, 0>>, Minus(o.at, poses[i])) > 0

\* Variant: of the obstacles in reach only the one looked at last is kept.
AssociatedOne(c, poses, obs, i) ==
  LET forced == {k \in Considered(c, obs) : Dist2(poses, i, obs[k]) < Force2}
      inReach == {k \in Considered(c, obs) \ forced : Dist2(poses, i, obs[k]) <= Cutoff2}
  IN SelectSeq([k \in DOMAIN obs |-> k], LAMBDA k : k \in forced)
       \o (IF inReach = {} THEN <<>> ELSE <<Max(inReach)>>)

\* The obstacles tied to pose i: all that are very near, then the nearest on the left and on the
\* right up to the cutoff, the first of those at the same distance.
Associated(c, poses, obs, i) ==
  LET forced == {k \in Considered(c, obs) : Dist2(poses, i, obs[k]) < Force2}
      inReach == {k \in Considered(c, obs) \ forced : Dist2(poses, i, obs[k]) <= Cutoff2}
      Nearest(S) == {Min({k \in S : \A l \in S : Dist2(poses, i, obs[k]) <= Dist2(poses, i, obs[l])}) :
                       x \in IF S = {} THEN {} ELSE {1}}
      left == {k \in inReach : OnLeft(poses, i, obs[k])}
  IN SelectSeq([k \in DOMAIN obs |-> k], LAMBDA k : k \in forced)
       \o SetToSeq(Nearest(left)) \o SetToSeq(Nearest(inReach \ left))

\* AddEdgesObstacles: every pose but the first and the last.
AddEdgesObstacles(c, poses, obs, factor) ==
  FlattenSeq([n \in 1..(Len(poses) - 2) |->
    LET near == Associated(c, poses, obs, n + 1)
    IN [k \in DOMAIN near |-> Edge("obstacle", <<n + 1>>, <<>>, near[k], factor)]])

\* findClosestTrajectoryPose, from pose begin on; 0 when there is none from there on.
Closest(poses, point, begin) ==
  LET from == {i \in DOMAIN poses : i >= begin}
      D(i) == Norm2(Minus(point, poses[i]))
  IN IF from = {} THEN 0 ELSE Min({i \in from : \A j \in from : D(i) <= D(j)})

\* AddEdgesObstaclesLegacy: the pose closest to each obstacle and its neighbours, of which the first
\* on either side is that pose again.
AddEdgesObstaclesLegacy(c, poses, obs, factor) ==
  LET n == Len(poses)
      Index(k) == IF PosesAffected >= n THEN n \div 2 + 1 ELSE Closest(poses, obs[k].at, 1)
      Of(k) ==
        LET near == FlattenSeq([m \in 1..(PosesAffected \div 2) |->
                      SelectSeq(<<Index(k) + m - 1, Index(k) - m + 1>>, LAMBDA i : i \in 1..n)])
        IN IF Index(k) <= 2 \/ Index(k) > n - 1 THEN <<>>
           ELSE [m \in DOMAIN near |-> Edge("obstacle", <<near[m]>>, <<>>, k, factor)]
      First(k) == IF Of(k) = <<>> THEN <<>> ELSE <<Edge("obstacle", <<Index(k)>>, <<>>, k, factor)>>
  IN FlattenSeq([k \in DOMAIN obs |-> IF k \in Considered(c, obs) THEN First(k) \o Of(k) ELSE <<>>])

\* AddEdgesDynamicObstacles: called without the factor.
AddEdgesDynamicObstacles(poses, obs) ==
  FlattenSeq([k \in DOMAIN obs |->
    IF obs[k].dynamic THEN Along(Len(poses) - 2, LAMBDA i : Edge("dynamic obstacle", <<i + 1>>, <<>>, k, 1))
    ELSE <<>>])

\* AddEdgesVelocityObstacleRatio: each pose with what it was associated with, the first one too, if
\* the association was made at all.
AddEdgesVelocityObstacleRatio(c, poses, obs) ==
  FlattenSeq([i \in 1..(Len(poses) - 1) |->
    LET near == IF c.obstacle /\ ~c.legacy THEN Associated(c, poses, obs, i) ELSE <<>>
    IN [k \in DOMAIN near |-> Edge("velocity obstacle ratio", <<i, i + 1>>, <<i>>, near[k], 1)]])

-----------------------------------------------------------------------------
(* Via points.                                                              *)

\* The pose a via point is tied to: the closest from the given pose on, but neither the last nor,
\* when they are ordered, the first; 0 when it is left out.
ViaPose(c, poses, point, begin) ==
  LET closest == Closest(poses, point, begin)
      index == IF closest > Len(poses) - 1 THEN Len(poses) - 1 ELSE closest
  IN IF index >= 2 THEN index ELSE IF c.ordered THEN 2 ELSE 0

\* AddEdgesViaPoints: with ordered via points the search for the next one begins two poses on, and
\* at the second pose again when there was none to find.
AddEdgesViaPoints(c, poses, via) ==
  LET Add(acc, k) ==
        LET index == ViaPose(c, poses, via[k], acc.begin)
            closest == Closest(poses, via[k], acc.begin)
        IN [edges |-> IF index = 0 THEN acc.edges
                      ELSE Append(acc.edges, Edge("via point", <<index>>, <<>>, k, 1)),
            begin |-> IF c.ordered THEN closest + 2 ELSE acc.begin]
  IN IF Len(poses) < 3 THEN <<>>
     ELSE FoldLeft(Add, [edges |-> <<>>, begin |-> 1], [k \in DOMAIN via |-> k]).edges

-----------------------------------------------------------------------------
(* The cost terms of the band itself.                                       *)

AddEdgesVelocity(poses) ==
  Along(Len(poses) - 1, LAMBDA i : Edge("velocity", <<i, i + 1>>, <<i>>, 0, 1))

\* The first and the last acceleration when the velocity there is given.
AddEdgesAcceleration(c, poses) ==
  LET n == Len(poses)
  IN (IF c.velStart THEN <<Edge("acceleration start", <<1, 2>>, <<1>>, 0, 1)>> ELSE <<>>)
     \o Along(n - 2, LAMBDA i : Edge("acceleration", <<i, i + 1, i + 2>>, <<i, i + 1>>, 0, 1))
     \o (IF c.velGoal THEN <<Edge("acceleration goal", <<n - 1, n>>, <<n - 1>>, 0, 1)>> ELSE <<>>)

AddEdgesTimeOptimal(poses) == Along(Len(poses) - 1, LAMBDA i : Edge("time", <<>>, <<i>>, 0, 1))
AddEdgesShortestPath(poses) == Along(Len(poses) - 1, LAMBDA i : Edge("shortest path", <<i, i + 1>>, <<>>, 0, 1))
AddEdgesKinematicsDiffDrive(poses) ==
  Along(Len(poses) - 1, LAMBDA i : Edge("kinematics diff drive", <<i, i + 1>>, <<>>, 0, 1))
AddEdgesKinematicsCarlike(poses) ==
  Along(Len(poses) - 1, LAMBDA i : Edge("kinematics carlike", <<i, i + 1>>, <<>>, 0, 1))
AddEdgesPreferRotDir(c, poses) ==
  IF c.prefer = "none" THEN <<>>
  ELSE Along(Min({3, Len(poses) - 1}), LAMBDA i : Edge("prefer rotdir", <<i, i + 1>>, <<>>, 0, 1))

\* buildGraph.  A cost term whose weight is zero has no edges: c says which have one.
buildGraph(c, poses, obs, via, factor) ==
  (IF ~c.obstacle THEN <<>>
   ELSE IF c.legacy THEN AddEdgesObstaclesLegacy(c, poses, obs, factor)
   ELSE AddEdgesObstacles(c, poses, obs, factor))
  \o (IF c.dynamic /\ c.obstacle THEN AddEdgesDynamicObstacles(poses, obs) ELSE <<>>)
  \o (IF c.via THEN AddEdgesViaPoints(c, poses, via) ELSE <<>>)
  \o AddEdgesVelocity(poses) \o AddEdgesAcceleration(c, poses) \o AddEdgesTimeOptimal(poses)
  \o (IF c.shortest THEN AddEdgesShortestPath(poses) ELSE <<>>)
  \o (IF c.carlike THEN AddEdgesKinematicsCarlike(poses) ELSE AddEdgesKinematicsDiffDrive(poses))
  \o AddEdgesPreferRotDir(c, poses)
  \o (IF c.ratio THEN AddEdgesVelocityObstacleRatio(c, poses, obs) ELSE <<>>)

-----------------------------------------------------------------------------
(* Properties of the graph, for every configuration and surroundings.       *)

Of(graph, type) == {graph[k] : k \in {n \in DOMAIN graph : graph[n].type = type}}

\* What an edge of a type can be about: an obstacle, a via point, or nothing.
Named(type, obs, via) ==
  IF type \in {"obstacle", "dynamic obstacle", "velocity obstacle ratio"} THEN DOMAIN obs
  ELSE IF type = "via point" THEN DOMAIN via ELSE {0}

\* No edge reaches beyond the band, and every obstacle or via point named exists.
GraphInBand(c, poses, obs, via, factor) ==
  LET graph == buildGraph(c, poses, obs, via, factor)
  IN \A k \in DOMAIN graph :
       /\ ToSet(graph[k].poses) \subseteq DOMAIN poses
       /\ ToSet(graph[k].times) \subseteq 1..(Len(poses) - 1)
       /\ graph[k].of \in Named(graph[k].type, obs, via)

\* The obstacle that is nearest to a pose that can move is among those that push it away, unless it
\* lies beyond the cutoff (AddEdgesObstacles).
NearestPushes(c, poses, obs, factor) ==
  \A i \in 2..(Len(poses) - 1), k \in Considered(c, obs) :
    /\ Dist2(poses, i, obs[k]) <= Cutoff2
    /\ \A l \in Considered(c, obs) \ {k} : Dist2(poses, i, obs[k]) < Dist2(poses, i, obs[l])
    => Edge("obstacle", <<i>>, <<>>, k, factor) \in Of(AddEdgesObstacles(c, poses, obs, factor), "obstacle")

\* The nearest obstacle on either side of a pose pushes it away ("determine side (left or right) and
\* assign obstacle if closer than the previous one", optimal_planner.cpp:525).  It need not: the side
\* is that of the origin.
BothSidesPush(c, poses, obs, factor) ==
  \A i \in 2..(Len(poses) - 1), left \in BOOLEAN :
    LET side == {k \in Considered(c, obs) : /\ Dist2(poses, i, obs[k]) <= Cutoff2
                                             /\ OnLeftOf(poses, i, obs[k]) = left}
    IN side # {} =>
         \E k \in side : /\ \A l \in side : Dist2(poses, i, obs[k]) <= Dist2(poses, i, obs[l])
                         /\ Edge("obstacle", <<i>>, <<>>, k, factor)
                              \in Of(AddEdgesObstacles(c, poses, obs, factor), "obstacle")

\* Ordered via points are tied to the band in their order ("If true, the planner adheres to the order
\* of via-points in the storage container", teb_config.h:87).  A via point that finds no pose left
\* starts the search at the second pose again.
ViaPointsInOrder(c, poses, via) ==
  LET edges == AddEdgesViaPoints(c, poses, via)
  IN c.ordered => \A j, k \in DOMAIN edges : j < k => edges[j].poses[1] <= edges[k].poses[1]

\* No cost term is added twice.  The legacy association adds that of the closest pose three times.
NoEdgeTwice(c, poses, obs, via, factor) ==
  LET graph == buildGraph(c, poses, obs, via, factor)
  IN \A j, k \in DOMAIN graph : j # k => graph[j] # graph[k]
=============================================================================
