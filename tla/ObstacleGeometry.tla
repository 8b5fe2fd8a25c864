--------------------------- MODULE ObstacleGeometry ---------------------------
(***************************************************************************)
(* Obstacles and footprints of the local planner and the distances between  *)
(* them (distance_calculations.h, obstacles.h, obstacles.cpp,                *)
(* robot_footprint_model.h).  A shape is the sequence of its vertices: one   *)
(* for a point, two for a line.  A distance is [gap, less]: the root of the  *)
(* fraction gap, minus the radius less.  Robots head for quarters.           *)
(***************************************************************************)
EXTENDS PlaneGeometry
LOCAL INSTANCE FiniteSetsExt

Huge == <<1, 0>>                         \* HUGE_VAL

\* The edges of a polygon: beyond two vertices the last is joined to the first.
EdgesUnclosed(v) == {<<v[i], v[i + 1]>> : i \in 1..Len(v) - 1}          \* variant: it is not
EdgesOf(v) ==
  {<<v[i], v[i + 1]>> : i \in 1..Len(v) - 1} \cup (IF Len(v) > 2 THEN {<<v[Len(v)], v[1]>>} ELSE {})

\* check_line_segments_intersection_2d: parallel lines never meet.  A zero numerator has no sign of
\* its own, so lines that touch at an end meet or not by the direction they are drawn in.
Meets(a, b, c, d) ==
  LET one == Minus(b, a)  two == Minus(d, c)  aux == Minus(a, c)
      denom == Cross2d(one, two)
      s == Cross2d(one, aux)
      t == Cross2d(two, aux)
      Beyond(n) == ((n < 0) <=> (denom > 0)) \/ ((n > denom) <=> (denom > 0))
  IN denom # 0 /\ ~Beyond(s) /\ ~Beyond(t)

SegmentToSegment(a, b, c, d) ==
  IF Meets(a, b, c, d) THEN Whole(0)
  ELSE LeastOf({ToSegment(a, c, d), ToSegment(b, c, d), ToSegment(c, a, b), ToSegment(d, a, b)})

PointToPolygon(p, v) ==
  IF Len(v) = 1 THEN Whole(Norm2(Minus(p, v[1])))
  ELSE LeastOf({Huge} \cup {ToSegment(p, e[1], e[2]) : e \in EdgesOf(v)})

SegmentToPolygon(a, b, v) ==
  IF Len(v) = 1 THEN ToSegment(v[1], a, b)
  ELSE LeastOf({Huge} \cup {SegmentToSegment(a, b, e[1], e[2]) : e \in EdgesOf(v)})

PolygonToPolygon(v, w) ==
  IF Len(v) = 1 THEN PointToPolygon(v[1], w)
  ELSE LeastOf({Huge} \cup {SegmentToPolygon(e[1], e[2], w) : e \in EdgesOf(v)})

-----------------------------------------------------------------------------
(* Obstacles: vertices at, a radius that is taken off every distance, whether a  *)
(* distance equal to the one to keep collides, and whether a line is tested by   *)
(* its nearest point, at the distance to keep, or by crossing.                   *)

Gap(gap, less) == [gap |-> gap, less |-> less]
Closer(d, m) == m + d.less > 0 /\ Less(d.gap, Whole((m + d.less) * (m + d.less)))
AsClose(d, m) == m + d.less >= 0 /\ Leq(d.gap, Whole((m + d.less) * (m + d.less)))

\* fixPolygonClosure: a last vertex equal to the first is dropped.
fixPolygonClosure(v) == IF Len(v) >= 2 /\ v[1] = v[Len(v)] THEN SubSeq(v, 1, Len(v) - 1) ELSE v

CircularObstacle(p, r, vel) ==
  [kind |-> "point", at |-> <<p>>, radius |-> r, velocity |-> vel, closed |-> FALSE, nearest |-> TRUE]
PointObstacle(p, vel) ==
  [kind |-> "point", at |-> <<p>>, radius |-> 0, velocity |-> vel, closed |-> FALSE, nearest |-> TRUE]
PillObstacle(a, b, r, vel) ==
  [kind |-> "line", at |-> <<a, b>>, radius |-> r, velocity |-> vel, closed |-> TRUE, nearest |-> FALSE]
LineObstacle(a, b, vel) ==
  [kind |-> "line", at |-> <<a, b>>, radius |-> 0, velocity |-> vel, closed |-> TRUE, nearest |-> FALSE]
PolygonObstacle(v, vel) ==
  LET w == fixPolygonClosure(v)
  IN [kind |-> "polygon", at |-> w, radius |-> 0, velocity |-> vel, closed |-> Len(w) = 2, nearest |-> FALSE]

\* getMinimumDistance to a shape s of the robot: a robot's polygon is compared edge by edge first.
getMinimumDistance(o, s) ==
  Gap(CASE o.kind = "point" ->
             (IF Len(s) = 2 THEN ToSegment(o.at[1], s[1], s[2]) ELSE PointToPolygon(o.at[1], s))
        [] o.kind = "line" ->
             (CASE Len(s) = 1 -> ToSegment(s[1], o.at[1], o.at[2])
                [] Len(s) = 2 -> SegmentToSegment(o.at[1], o.at[2], s[1], s[2])
                [] OTHER -> SegmentToPolygon(o.at[1], o.at[2], s))
        [] o.kind = "polygon" ->
             (CASE Len(s) = 1 -> PointToPolygon(s[1], o.at)
                [] Len(s) = 2 -> SegmentToPolygon(s[1], s[2], o.at)
                [] OTHER -> PolygonToPolygon(s, o.at)),
      o.radius)

\* The obstacle t later at its constant velocity (predictVertices).
Predicted(o, t) ==
  [o EXCEPT !.at = [i \in DOMAIN o.at |-> <<o.at[i][1] + t * o.velocity[1], o.at[i][2] + t * o.velocity[2]>>]]
getMinimumSpatioTemporalDistance(o, s, t) == getMinimumDistance(Predicted(o, t), s)

\* checkCollision of a point: ray casting decides first for a polygon.
RayInside(p, v) ==
  LET Crossed == {e \in EdgesOf(v) :
        /\ (e[2][2] > p[2]) # (e[1][2] > p[2])
        /\ LET h == e[1][2] - e[2][2]       \* the height of the edge, from its later vertex
               n == (e[1][1] - e[2][1]) * (p[2] - e[2][2])
           IN IF h > 0 THEN (p[1] - e[2][1]) * h < n ELSE (p[1] - e[2][1]) * h > n}
  IN Cardinality(Crossed) % 2 = 1
checkCollision(o, p, d) ==
  LET m == getMinimumDistance(o, <<p>>)
  IN IF o.closed THEN AsClose(m, d)
     ELSE (o.kind = "polygon" /\ RayInside(p, o.at)) \/ ((o.kind = "point" \/ d # 0) /\ Closer(m, d))

\* checkLineIntersection: only points and circles keep the distance.
checkLineIntersection(o, a, b, d) ==
  IF o.nearest THEN Closer(Gap(ToSegment(o.at[1], a, b), o.radius), d)
  ELSE \E e \in EdgesOf(o.at) : Meets(a, b, e[1], e[2])

\* calcCentroid, as <<x, y, denominator>>: of an area, or of the longest stretch when there is none.
Swept(e) == Cross2d(e[1], e[2])
AreaCentroid(E, v) ==
  LET A6 == 3 * MapThenSumSet(Swept, E)
      X(e) == (e[1][1] + e[2][1]) * Swept(e)
      Y(e) == (e[1][2] + e[2][2]) * Swept(e)
  IN IF A6 # 0 THEN <<MapThenSumSet(X, E), MapThenSumSet(Y, E), A6>>
     ELSE LET Length2(k) == Norm2(Minus(v[k[2]], v[k[1]]))
              Pairs == (DOMAIN v) \X (DOMAIN v)
              k == CHOOSE k \in Pairs : \A l \in Pairs : Length2(k) >= Length2(l)
          IN <<v[k[1]][1] + v[k[2]][1], v[k[1]][2] + v[k[2]][2], 2>>
CentroidUnclosed(v) == AreaCentroid(EdgesUnclosed(v), v)     \* variant: the last edge is left out
calcCentroid(v) ==
  CASE Len(v) = 1 -> <<v[1][1], v[1][2], 1>>
    [] Len(v) = 2 -> <<v[1][1] + v[2][1], v[1][2] + v[2][2], 2>>
    [] OTHER -> AreaCentroid(EdgesOf(v), v)

-----------------------------------------------------------------------------
(* Footprints: circles <<offset ahead, radius>> or a shape, with the inscribed    *)
(* radius squared.                                                               *)

PointFootprint == [circles |-> {<<0, 0>>}, at |-> <<>>, inscribed |-> Whole(0)]
CircularFootprint(r) == [circles |-> {<<0, r>>}, at |-> <<>>, inscribed |-> Whole(r * r)]
Smaller(x, y) == IF x < y THEN x ELSE y
TwoCirclesFootprint(front, r, rear, rear_r) ==
  LET least == Smaller(Smaller(rear + rear_r, front + r), Smaller(rear_r, r))
  IN [circles |-> {<<front, r>>, <<-rear, rear_r>>}, at |-> <<>>, inscribed |-> Whole(least * least)]
LineFootprint(a, b) == [circles |-> {}, at |-> <<a, b>>, inscribed |-> Whole(0)]
PolygonFootprint(v) ==
  [circles |-> {}, at |-> v, inscribed |-> IF Len(v) <= 2 THEN Whole(0) ELSE PointToPolygon(<<0, 0>>, v)]

\* transformToWorld, for the heading's quarter.
Quarter(p, q) ==
  CASE q = 0 -> p [] q = 1 -> <<-p[2], p[1]>> [] q = 2 -> <<-p[1], -p[2]>> [] q = 3 -> <<p[2], -p[1]>>
InWorld(pose, v) ==
  [i \in DOMAIN v |-> <<pose[1] + Quarter(v[i], pose[3])[1], pose[2] + Quarter(v[i], pose[3])[2]>>]

\* calculateDistance, as the set of distances the smallest of which counts.
calculateDistance(f, pose, o) ==
  LET Of(v, r) == LET d == getMinimumDistance(o, InWorld(pose, v)) IN Gap(d.gap, d.less + r)
  IN IF f.circles # {} THEN {Of(<<<<c[1], 0>>>>, c[2]) : c \in f.circles} ELSE {Of(f.at, 0)}
estimateSpatioTemporalDistance(f, pose, o, t) == calculateDistance(f, pose, Predicted(o, t))

-----------------------------------------------------------------------------
(* Properties, of the inputs a run enumerates.                              *)

\* Reference: segments have a point in common, told by the side each end lies on.
Side(o, a, b) == LET c == Cross(o, a, b) IN IF c > 0 THEN 1 ELSE IF c < 0 THEN -1 ELSE 0
On(p, a, b) == Cross(a, b, p) = 0 /\ Between(p, a, b) /\ (a = b => p = a)
Touch(a, b, c, d) ==
  \/ Side(a, b, c) * Side(a, b, d) < 0 /\ Side(c, d, a) * Side(c, d, b) < 0
  \/ On(c, a, b) \/ On(d, a, b) \/ On(a, c, d) \/ On(b, c, d)
OutlineOf(v) == IF Len(v) = 1 THEN {<<v[1], v[1]>>} ELSE EdgesOf(v)
Turned(v) == Tail(v) \o <<v[1]>>
Reversed(v) == [i \in DOMAIN v |-> v[Len(v) + 1 - i]]

\* The distance of a robot's shape to an obstacle is zero exactly when their outlines touch, and it
\* depends neither on which of the two is the obstacle nor on where and which way round a polygon
\* starts, although the crossing test depends on the direction of every edge.
DistanceSound(v, r) ==
  LET Made(s) == CASE Len(s) = 1 -> PointObstacle(s[1], <<0, 0>>)
                   [] Len(s) = 2 -> LineObstacle(s[1], s[2], <<0, 0>>)
                   [] OTHER -> PolygonObstacle(s, <<0, 0>>)
      D(at, s) == getMinimumDistance(Made(at), s).gap
      d == D(v, r)
  IN /\ Equal(d, Whole(0)) <=> \E e \in OutlineOf(v), g \in OutlineOf(r) : Touch(e[1], e[2], g[1], g[2])
     /\ Equal(d, D(r, v)) /\ Equal(d, D(Reversed(v), r)) /\ Equal(d, D(v, Reversed(r)))
     /\ Len(v) > 2 => Equal(d, D(Turned(v), r)) /\ Equal(d, D(v \o <<v[1]>>, r))

\* A polygon claims every point inside it and no point farther from it than the distance to keep, and
\* its centroid is one of its own points: a roadmap places its keypoints beside it.
Convex(v) == Len(v) > 2 /\ \A i \in DOMAIN v : \A j \in (DOMAIN v) \ {i, (i % Len(v)) + 1} :
               Cross(v[i], v[(i % Len(v)) + 1], v[j]) > 0
CollisionSound(v, p, d) ==
  LET o == PolygonObstacle(v, <<0, 0>>)
      Left(q, k) == \A e \in EdgesOf(v) : Cross2d(Minus(e[2], e[1]), <<q[1] - k * e[1][1], q[2] - k * e[1][2]>>) > 0
      c == calcCentroid(v)
  IN Convex(v) =>
       /\ Left(p, 1) => checkCollision(o, p, d)
       /\ checkCollision(o, p, d) => \A e \in EdgesOf(v) : Cross(e[1], e[2], p) >= 0 \/ Closer(getMinimumDistance(o, <<p>>), d)
       /\ c[3] > 0 /\ Left(<<c[1], c[2]>>, c[3])

\* The collision test of a line against an obstacle agrees with the distance to the line.  It does
\* for points and circles; lines, pills and polygons ignore the distance to keep, and miss touching
\* ends (distance_calculations.h:111).
IntersectionSound(o, a, b, d) == checkLineIntersection(o, a, b, d) <=> Closer(getMinimumDistance(o, <<a, b>>), d)

\* What lies within the inscribed radius around the robot belongs to it ("Compute the inscribed
\* radius of the footprint model", robot_footprint_model.h:361).  Two circles far apart leave it bare.
InscribedIsCovered(f, p) ==
  Less(Whole(Norm2(p)), f.inscribed)
    => \E d \in calculateDistance(f, <<0, 0, 0>>, PointObstacle(p, <<0, 0>>)) : AsClose(d, 0)
=============================================================================
