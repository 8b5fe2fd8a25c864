------------------------------- MODULE TebEdges -------------------------------
(***************************************************************************)
(* The cost terms of the planner's graph (g2o_types): what an edge charges   *)
(* for poses and time differences, and the group operations on poses         *)
(* (pose_se2.h).  A pose is <<x, y, q>> and heads for quarter q; a rate is a  *)
(* fraction <<numerator, denominator>> of hundredths, an error is multiplied *)
(* by its rate's denominator.  c is the configuration the edges read.        *)
(***************************************************************************)
EXTENDS PlaneGeometry

\* g2o::normalize_theta: half a turn to the left counts as one to the right.
Normalized(q) == ((q + 2) % 4) - 2
Heading(q) == CASE q % 4 = 0 -> <<1, 0>> [] q % 4 = 1 -> <<0, 1>> [] q % 4 = 2 -> <<-1, 0>> [] q % 4 = 3 -> <<0, -1>>
Step(p, q) == <<q[1] - p[1], q[2] - p[2]>>
Turn(p, q) == Normalized(q[3] - p[3])

\* setToOriginImpl and oplusImpl of the vertices: the time difference may become negative.
plus(p, u) == <<p[1] + u[1], p[2] + u[2], Normalized(p[3] + u[3])>>
minus(p, u) == <<p[1] - u[1], p[2] - u[2], Normalized(p[3] - u[3])>>
scale(p, k) == <<k * p[1], k * p[2], Normalized(k * p[3])>>
rotateGlobal(p, q) ==
  LET h == Heading(q) IN <<h[1] * p[1] - h[2] * p[2], h[2] * p[1] + h[1] * p[2], Normalized(p[3] + q)>>

-----------------------------------------------------------------------------
(* Penalties.                                                               *)

penaltyTwice(x, a, b, eps) ==                 \* variant: the margin is taken from one side twice
  IF x < a THEN a - x ELSE IF x <= b - 2 * eps THEN 0 ELSE x - (b - 2 * eps)
penaltyBoundToInterval(x, a, b, eps) ==
  IF x < a + eps THEN (a + eps) - x ELSE IF x <= b - eps THEN 0 ELSE x - (b - eps)
penaltyBoundFromBelow(x, a, eps) == IF x >= a + eps THEN 0 ELSE (a + eps) - x
penaltyBoundToIntervalDerivative(x, a, b, eps) == IF x < a + eps THEN -1 ELSE IF x <= b - eps THEN 0 ELSE 1
penaltyBoundFromBelowDerivative(x, a, eps) == IF x >= a + eps THEN 0 ELSE -1

Charged(r, a, b, eps) == penaltyBoundToInterval(r[1], a * r[2], b * r[2], eps * r[2])

-----------------------------------------------------------------------------
(* Rates of a motion from p to q within time t.                             *)

Signum(x) == IF x > 0 THEN 1 ELSE IF x < 0 THEN -1 ELSE 0
Length(d) == CHOOSE n \in 0..(Norm2(d) + 1) : n * n <= Norm2(d) /\ Norm2(d) < (n + 1) * (n + 1)

\* The chord, or the arc over it, in hundredths; fast_sigmoid keeps little but the sign of the
\* direction of travel, and nothing of a motion square to the heading.
Travel(c, p, q) ==
  LET arc == IF ~c.exact_arc_length THEN 100 ELSE CASE Turn(p, q) = 0 -> 100 [] Turn(p, q) = -2 -> 157 [] OTHER -> 111
  IN Signum(Dot(Step(p, q), Heading(p[3]))) * arc * Length(Step(p, q))

Forward(p, q) == 100 * Dot(Step(p, q), Heading(p[3]))
Sideward(p, q) == 100 * Cross2d(Heading(p[3]), Step(p, q))
Rotation(p, q) == 100 * Turn(p, q)

\* Between two motions, and between a measured rate v and a motion at the start or the goal.
Gained(n1, t1, n2, t2) == <<2 * (n2 * t1 - n1 * t2), t1 * t2 * (t1 + t2)>>
GainedFirst(v, n, t) == <<n - v * t, t * t>>
GainedLast(n, t, v) == <<v * t - n, t * t>>

-----------------------------------------------------------------------------
(* Edges: the errors of each.                                               *)

EdgeVelocity(c, p, q, t) ==
  <<Charged(<<Travel(c, p, q), t>>, -c.max_vel_x_backwards, c.max_vel_x, c.eps),
    Charged(<<Rotation(p, q), t>>, -c.max_vel_theta, c.max_vel_theta, c.eps)>>

EdgeVelocityHolonomic(c, p, q, t) ==
  <<Charged(<<Forward(p, q), t>>, -c.max_vel_x_backwards, c.max_vel_x, c.eps),
    Charged(<<Sideward(p, q), t>>, -c.max_vel_y, c.max_vel_y, 0),
    Charged(<<Rotation(p, q), t>>, -c.max_vel_theta, c.max_vel_theta, c.eps)>>

EdgeAcceleration(c, p, q, r, t1, t2) ==
  <<Charged(Gained(Travel(c, p, q), t1, Travel(c, q, r), t2), -c.acc_lim_x, c.acc_lim_x, c.eps),
    Charged(Gained(Rotation(p, q), t1, Rotation(q, r), t2), -c.acc_lim_theta, c.acc_lim_theta, c.eps)>>
EdgeAccelerationStart(c, v, w, p, q, t) ==
  <<Charged(GainedFirst(v, Travel(c, p, q), t), -c.acc_lim_x, c.acc_lim_x, c.eps),
    Charged(GainedFirst(w, Rotation(p, q), t), -c.acc_lim_theta, c.acc_lim_theta, c.eps)>>
EdgeAccelerationGoal(c, p, q, t, v, w) ==
  <<Charged(GainedLast(Travel(c, p, q), t, v), -c.acc_lim_x, c.acc_lim_x, c.eps),
    Charged(GainedLast(Rotation(p, q), t, w), -c.acc_lim_theta, c.acc_lim_theta, c.eps)>>

EdgeAccelerationHolonomic(c, p, q, r, t1, t2) ==
  <<Charged(Gained(Forward(p, q), t1, Forward(q, r), t2), -c.acc_lim_x, c.acc_lim_x, c.eps),
    Charged(Gained(Sideward(p, q), t1, Sideward(q, r), t2), -c.acc_lim_y, c.acc_lim_y, c.eps),
    Charged(Gained(Rotation(p, q), t1, Rotation(q, r), t2), -c.acc_lim_theta, c.acc_lim_theta, c.eps)>>
EdgeAccelerationHolonomicStart(c, v, w, p, q, t) ==
  <<Charged(GainedFirst(v[1], Forward(p, q), t), -c.acc_lim_x, c.acc_lim_x, c.eps),
    Charged(GainedFirst(v[2], Sideward(p, q), t), -c.acc_lim_y, c.acc_lim_y, c.eps),
    Charged(GainedFirst(w, Rotation(p, q), t), -c.acc_lim_theta, c.acc_lim_theta, c.eps)>>
EdgeAccelerationHolonomicGoal(c, p, q, t, v, w) ==
  <<Charged(GainedLast(Forward(p, q), t, v[1]), -c.acc_lim_x, c.acc_lim_x, c.eps),
    Charged(GainedLast(Sideward(p, q), t, v[2]), -c.acc_lim_y, c.acc_lim_y, c.eps),
    Charged(GainedLast(Rotation(p, q), t, w), -c.acc_lim_theta, c.acc_lim_theta, c.eps)>>

\* The mean heading must point along the chord.  Two opposite headings have none.
Absolute(x) == IF x < 0 THEN -x ELSE x
MeanHeading(p, q) == <<Heading(p[3])[1] + Heading(q[3])[1], Heading(p[3])[2] + Heading(q[3])[2]>>
Skew(p, q) == Absolute(Cross2d(MeanHeading(p, q), Step(p, q)))
EdgeKinematicsDiffDrive(p, q) ==
  <<Skew(p, q), penaltyBoundFromBelow(Dot(Step(p, q), Heading(p[3])), 0, 0)>>

\* linearizeOplus for the coordinates of p: rows by error, columns by x and y.
JacobianUnsigned(p, q) ==                         \* variant: the absolute value is forgotten
  LET m == MeanHeading(p, q) h == Heading(p[3])
      drive == penaltyBoundFromBelowDerivative(Dot(Step(p, q), h), 0, 0)
  IN <<<<m[2], -m[1]>>, <<-h[1] * drive, -h[2] * drive>>>>
Jacobian(p, q) ==
  LET m == MeanHeading(p, q)
      h == Heading(p[3])
      drive == penaltyBoundFromBelowDerivative(Dot(Step(p, q), h), 0, 0)
      side == Signum(Cross2d(m, Step(p, q)))
  IN <<<<m[2] * side, -m[1] * side>>, <<-h[1] * drive, -h[2] * drive>>>>

\* The radius squared, of an arc through both poses, against min_turning_radius; or the chord by the
\* angle, at 157 hundredths a quarter.
EdgeKinematicsCarlike(c, p, q) ==
  LET n2 == Norm2(Step(p, q))
      quarters == Absolute(Turn(p, q))
      r2 == IF c.exact_arc_length THEN <<n2, 2 * quarters>> ELSE <<n2 * 10000, 157 * 157 * quarters * quarters>>
  IN <<Skew(p, q), IF quarters = 0 \/ Leq(Whole(c.min_turning_radius * c.min_turning_radius), r2) THEN 0 ELSE 1>>

EdgePreferRotDir(p, q, dir) == penaltyBoundFromBelow(dir * Turn(p, q), 0, 0)
EdgeTimeOptimal(t) == t
EdgeShortestPath(p, q) == Length(Step(p, q))
EdgeViaPoint(p, v) == Length(Minus(v, <<p[1], p[2]>>))

\* Obstacle edges charge a distance d; an exponent other than one bends the cost, here multiplied by
\* the distance to keep, which is positive.
EdgeObstacle(c, d) ==
  LET e == penaltyBoundFromBelow(d, c.min_obstacle_dist, c.eps)
  IN IF c.exponent = 1 THEN e * c.min_obstacle_dist ELSE e * e
EdgeInflatedObstacle(c, d) == <<EdgeObstacle(c, d), penaltyBoundFromBelow(d, c.inflation_dist, 0)>>
EdgeDynamicObstacle(c, d) ==
  <<penaltyBoundFromBelow(d, c.min_obstacle_dist, c.eps), penaltyBoundFromBelow(d, c.dynamic_obstacle_inflation_dist, 0)>>

\* The share of the velocity that is allowed at distance d of an obstacle; without eps.
Share(c, d) ==
  IF d < c.lower THEN <<0, 1>> ELSE IF d > c.upper THEN <<1, 1>> ELSE <<d - c.lower, c.upper - c.lower>>
EdgeVelocityObstacleRatio(c, p, q, t, d) ==
  LET s == Share(c, d)
      Bounded(n, limit) == penaltyBoundToInterval(n * s[2], -limit * s[1] * t, limit * s[1] * t, 0)
  IN <<Bounded(Travel(c, p, q), c.max_vel_x), Bounded(Rotation(p, q), c.max_vel_theta)>>

-----------------------------------------------------------------------------
(* Properties, of the inputs a run enumerates.                              *)

Free(e) == \A i \in DOMAIN e : e[i] = 0
Costlier(e, f) == \A i \in DOMAIN e : e[i] >= f[i]

\* A penalty is convex, nothing inside its bounds, and its derivative lies between its slopes:
\* the optimizer relies on all three.  Twice the margin fits in the bounds, which is what
\* checkParameters (teb_config.cpp:805) warns of.
PenaltySound(x, a, b, eps) ==
  LET P(y) == penaltyBoundToInterval(y, a, b, eps)
      slope == penaltyBoundToIntervalDerivative(x, a, b, eps)
  IN a + eps <= b - eps =>
       /\ P(x) = 0 <=> a + eps <= x /\ x <= b - eps
       /\ P(x - 1) + P(x + 1) >= 2 * P(x)
       /\ P(x) - P(x - 1) <= slope /\ slope <= P(x + 1) - P(x)

\* A motion is free of the kinematic charge exactly when it goes ahead along the mean of its two
\* headings, on a straight line or a quarter circle; half a turn is left out, see below.
Ahead(p, q) ==
  LET m == MeanHeading(p, q)
      unit == IF Turn(p, q) = 0 THEN Heading(p[3]) ELSE m
  IN \E k \in 0..3 : Step(p, q) = <<k * unit[1], k * unit[2]>>
KinematicsSound(p, q) == Turn(p, q) # -2 => (Free(EdgeKinematicsDiffDrive(p, q)) <=> Ahead(p, q))

\* So it does with half a turn ("satisfying the non-holonomic kinematics of a differential drive
\* mobile robot", edge_kinematics.h:58).  Opposite headings cancel, and any step is free.
HalfTurnsSound(p, q) == Free(EdgeKinematicsDiffDrive(p, q)) => Ahead(p, q)

\* The hard-coded Jacobian is the change of the error when a pose moves by one, wherever the sign of
\* the error stays.
JacobianSound(p, q) ==
  \A i \in 1..2 :
    LET moved == [p EXCEPT ![i] = @ + 1]
        e == EdgeKinematicsDiffDrive(p, q)
        f == EdgeKinematicsDiffDrive(moved, q)
    IN \A k \in 1..2 : e[k] > 0 /\ f[k] > 0 /\ e[k] + f[k] > 2 => Jacobian(p, q)[k][i] = f[k] - e[k]

\* A band and the band driven backwards in time are charged alike, at its start as at its goal; and
\* a motion along the heading costs a robot that can move sideways what it costs one that cannot.
MotionsSound(c, p, k1, k2, t1, t2, v) ==
  LET h == Heading(p[3])
      q == <<p[1] + k1 * h[1], p[2] + k1 * h[2], p[3]>>
      r == <<q[1] + k2 * h[1], q[2] + k2 * h[2], p[3]>>
  IN /\ EdgeAcceleration(c, p, q, r, t1, t2) = EdgeAcceleration(c, r, q, p, t2, t1)
     /\ EdgeAccelerationStart(c, v, 0, p, q, t1) = EdgeAccelerationGoal(c, q, p, t1, -v, 0)
     /\ EdgeAccelerationHolonomicStart(c, <<v, 0>>, 0, p, q, t1)
          = EdgeAccelerationHolonomicGoal(c, q, p, t1, <<-v, 0>>, 0)
     /\ LET a == EdgeAccelerationHolonomic(c, p, q, r, t1, t2) b == EdgeAcceleration(c, p, q, r, t1, t2)
        IN a[1] = b[1] /\ a[2] = 0 /\ a[3] = b[2]
     /\ LET a == EdgeVelocityHolonomic(c, p, q, t1) b == EdgeVelocity(c, p, q, t1)
        IN a[1] = b[1] /\ a[2] = 0 /\ a[3] = b[2]
     /\ v = 100 * k1 /\ t1 = 1 => Free(EdgeAccelerationStart([c EXCEPT !.eps = 0], v, 0, p, q, t1))

\* The nearer an obstacle, the dearer: each obstacle edge, and the velocity allowed beside it.
NearerIsDearer(c, p, q, t, d) ==
  /\ Costlier(EdgeInflatedObstacle(c, d), EdgeInflatedObstacle(c, d + 1))
  /\ Costlier(EdgeDynamicObstacle(c, d), EdgeDynamicObstacle(c, d + 1))
  /\ Free(EdgeVelocityObstacleRatio(c, p, q, t, d)) => Free(EdgeVelocityObstacleRatio(c, p, q, t, d + 1))

\* Poses form a group whatever quarter they head for, and turning the plane turns sums: bands are
\* averaged, split and moved by these operations.
PosesSound(p, q, k) ==
  /\ minus(plus(p, q), q) = [p EXCEPT ![3] = Normalized(@)]
  /\ rotateGlobal(plus(p, [q EXCEPT ![3] = 0]), k) = plus(rotateGlobal(p, k), [rotateGlobal(q, k) EXCEPT ![3] = 0])
  /\ rotateGlobal(rotateGlobal(p, k), 4 - k) = [p EXCEPT ![3] = Normalized(@)]

\* The cost of an obstacle is at most the distance to keep ("The max possible value before weighting
\* is min_obstacle_dist", edge_obstacle.h:231), and an exponent never raises it.  The margin does.
ObstacleCostBounded(c, d) == d >= 0 => EdgeObstacle(c, d) <= c.min_obstacle_dist * c.min_obstacle_dist
=============================================================================
