---------------------------- MODULE PlaneGeometry ----------------------------
(***************************************************************************)
(* Points of the plane with whole coordinates, and squared distances as     *)
(* fractions <<numerator, denominator>> with a positive denominator: the    *)
(* helpers that the converters (misc.h) and the planner                     *)
(* (distance_calculations.h, misc.h) share.                                 *)
(***************************************************************************)
EXTENDS Integers, Sequences, FiniteSets

Minus(p, q) == <<p[1] - q[1], p[2] - q[2]>>
Dot(p, q) == p[1] * q[1] + p[2] * q[2]
Cross2d(p, q) == p[1] * q[2] - q[1] * p[2]
Norm2(p) == Dot(p, p)

\* cross(O, A, B): positive when B lies left of the line from O through A.
Cross(o, a, b) == Cross2d(Minus(a, o), Minus(b, o))

Leq(q, r) == q[1] * r[2] <= r[1] * q[2]
Less(q, r) == q[1] * r[2] < r[1] * q[2]
Equal(q, r) == q[1] * r[2] = r[1] * q[2]
Whole(n) == <<n, 1>>
LeastOf(S) == CHOOSE q \in S : \A r \in S : Leq(q, r)

\* Variant: the line is taken to be endless.
ToLine(p, a, b) ==
  IF a = b THEN Whole(Norm2(Minus(p, a)))
  ELSE <<Cross(a, b, p) * Cross(a, b, p), Norm2(Minus(b, a))>>

\* computeSquaredDistanceToLineSegment: u is where the foot of the perpendicular falls.
ToSegment(p, a, b) ==
  LET d == Minus(b, a)
      u == Dot(Minus(p, a), d)           \* times |d|^2
  IN IF u <= 0 THEN Whole(Norm2(Minus(p, a)))
     ELSE IF u >= Norm2(d) THEN Whole(Norm2(Minus(p, b)))
     ELSE <<Cross(a, b, p) * Cross(a, b, p), Norm2(d)>>

\* is_inbetween
Between(p, a, b) == LET u == Dot(Minus(p, a), Minus(b, a)) IN 0 <= u /\ u <= Norm2(Minus(b, a))
=============================================================================
