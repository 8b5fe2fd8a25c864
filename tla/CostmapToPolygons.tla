-------------------------- MODULE CostmapToPolygons --------------------------
(***************************************************************************)
(* What the costmap converters compute from the occupied cells: clusters by *)
(* DBSCAN, then a convex hull, a concave hull, or lines for each cluster.   *)
(* A polygon is a sequence of points, a cluster a sequence of cells; cells  *)
(* have whole coordinates and distances are given squared.                  *)
(***************************************************************************)
EXTENDS PlaneGeometry, SequencesExt, FiniteSetsExt

CONSTANTS
  MaxDistance,           \* cluster_max_distance
  MinPts, MaxPts,        \* cluster_min_pts, cluster_max_pts
  Separation2,           \* convex_hull_min_pt_separation, squared
  Depth,                 \* concave_hull_depth
  InlierDistance2,       \* ransac_inlier_distance or support_pts_max_dist, squared
  InBetween2,            \* support_pts_max_dist_inbetween, squared
  MinInliers,            \* ransac_min_inliers, min_support_pts
  RemainingOutliers      \* ransac_remainig_outliers

-----------------------------------------------------------------------------
(* Clusters.                                                               *)

Offsets == << <<-1, -1>>, <<0, -1>>, <<1, -1>>, <<-1, 0>>, <<0, 0>>, <<1, 0>>,
              <<-1, 1>>, <<0, 1>>, <<1, 1>> >>
LookupCell(p) == <<p[1] \div MaxDistance, p[2] \div MaxDistance>>

\* The neighbours of a cell in the order of the lookup: nine lookup cells, then insertion.
regionQuery(cells, i) ==
  LET In(o) == SelectSeq([k \in DOMAIN cells |-> k],
                 LAMBDA k : /\ k # i
                            /\ Minus(LookupCell(cells[k]), LookupCell(cells[i])) = o
                            /\ Norm2(Minus(cells[k], cells[i])) <= MaxDistance * MaxDistance)
  IN FlattenSeq([n \in 1..9 |-> In(Offsets[n])])

\* Variant: the limit on a cluster's size drops its last neighbours.
RECURSIVE GrownOnce(_, _, _, _)
GrownOnce(cells, visited, cluster, neighbors) ==
  IF neighbors = <<>> THEN [visited |-> visited, cluster |-> cluster]
  ELSE LET k == Head(neighbors) IN
       GrownOnce(cells, visited \cup {k}, cluster, Tail(neighbors))

\* The inner loop of dbScan: the list of neighbours grows while it is walked.  A neighbour that has
\* too few neighbours of its own is marked as visited and goes nowhere.
RECURSIVE Grown(_, _, _, _)
Grown(cells, visited, cluster, neighbors) ==
  IF neighbors = <<>> \/ Len(cluster) = MaxPts THEN [visited |-> visited, cluster |-> cluster]
  ELSE LET k == Head(neighbors)
           further == regionQuery(cells, k)
       IN IF k \in visited THEN Grown(cells, visited, cluster, Tail(neighbors))
          ELSE IF Len(further) >= MinPts
          THEN Grown(cells, visited \cup {k}, Append(cluster, cells[k]), Tail(neighbors) \o further)
          ELSE Grown(cells, visited \cup {k}, cluster, Tail(neighbors))

\* The first cluster is the noise.
dbScan(cells) ==
  LET Visit(acc, i) ==
        LET neighbors == regionQuery(cells, i)
            grown == Grown(cells, acc.visited \cup {i}, <<cells[i]>>, neighbors)
        IN IF i \in acc.visited THEN acc
           ELSE IF Len(neighbors) < MinPts
           THEN [visited |-> acc.visited \cup {i},
                 clusters |-> [acc.clusters EXCEPT ![1] = Append(@, cells[i])]]
           ELSE [visited |-> grown.visited, clusters |-> Append(acc.clusters, grown.cluster)]
  IN FoldLeft(Visit, [visited |-> {}, clusters |-> << <<>> >>], [i \in DOMAIN cells |-> i]).clusters

-----------------------------------------------------------------------------
(* Hulls.                                                                  *)

Sorted(cluster) ==
  SortSeq(cluster, LAMBDA p, q : p[1] < q[1] \/ (p[1] = q[1] /\ p[2] < q[2]))

\* Points are popped off the stack, above its bottom, until p lies left of its top edge.
RECURSIVE Popped(_, _, _)
Popped(stack, bottom, p) ==
  IF Len(stack) > bottom /\ Cross(stack[Len(stack) - 1], Last(stack), p) <= 0
  THEN Popped(Front(stack), bottom, p) ELSE stack
Push(stack, bottom, p) == Append(Popped(stack, bottom, p), p)

\* Andrew's monotone chain, the last point equal to the first.
MonotoneChain(cluster) ==
  LET s == Sorted(cluster)
      lower == FoldLeft(LAMBDA h, p : Push(h, 1, p), <<>>, s)
      bottom == Len(lower)
  IN FoldLeft(LAMBDA h, p : Push(h, bottom, p), lower, Reverse(Front(s)))

\* convexHull2: the extreme columns first, then the two chains between them.
HullOf(cluster) ==
  LET s == Sorted(cluster)
      first == {i \in DOMAIN s : s[i][1] = s[1][1]}
      last  == {i \in DOMAIN s : s[i][1] = s[Len(s)][1]}
      minmax == Max(first)
      maxmin == Min(last)
      lower == FoldLeft(LAMBDA h, i : IF Cross(s[1], s[maxmin], s[i]) >= 0 /\ i < maxmin THEN h
                                      ELSE Push(h, 1, s[i]),
                        <<s[1]>>, [k \in 1..(maxmin - minmax) |-> minmax + k])
      right == IF maxmin # Len(s) THEN Append(lower, s[Len(s)]) ELSE lower
      upper == FoldLeft(LAMBDA h, i : IF Cross(s[Len(s)], s[minmax], s[i]) >= 0 /\ i > minmax THEN h
                                      ELSE Push(h, Len(right), s[i]),
                        right, [k \in 1..(maxmin - minmax) |-> maxmin - k])
  IN IF minmax = Len(s)
     THEN IF s[1][2] # s[minmax][2] THEN <<s[1], s[minmax], s[1]>> ELSE <<s[1], s[1]>>
     ELSE IF minmax # 1 THEN Append(upper, s[1]) ELSE upper

\* douglasPeucker: the point furthest from the line splits it, unless it is near enough.
RECURSIVE douglasPeucker(_)
douglasPeucker(points) ==
  LET far == {i \in 2..(Len(points) - 1) :
                \A k \in 2..(Len(points) - 1) :
                  LET di == ToSegment(points[i], points[1], Last(points))
                      dk == ToSegment(points[k], points[1], Last(points))
                  IN Less(dk, di) \/ (Equal(dk, di) /\ i <= k)}
      m == CHOOSE i \in far : TRUE
  IN IF Len(points) <= 2 THEN points
     ELSE IF Less(ToSegment(points[m], points[1], Last(points)), Whole(Separation2))
     THEN <<points[1], Last(points)>>
     ELSE douglasPeucker(SubSeq(points, 1, m))
            \o Tail(douglasPeucker(SubSeq(points, m, Len(points))))

simplifyPolygon(polygon) ==
  IF Len(polygon) <= (IF Len(polygon) > 1 /\ polygon[1] = Last(polygon) THEN 4 ELSE 3)
  THEN polygon ELSE douglasPeucker(polygon)

convexHull(cluster) == simplifyPolygon(MonotoneChain(cluster))

\* A column of cells returns before it would be simplified.
convexHull2(cluster) ==
  IF \A i \in DOMAIN cluster : cluster[i][1] = cluster[1][1]
  THEN HullOf(cluster) ELSE simplifyPolygon(HullOf(cluster))

-----------------------------------------------------------------------------
(* Concave hulls.                                                          *)

\* checkLineIntersection: both parameters strictly inside, parallel lines never.
Crosses(a, b, c, d) ==
  LET e == Minus(b, a)
      f == Minus(d, c)
      w == Minus(a, c)
      det == Cross2d(e, f)
      Inside(n) == IF det > 0 THEN 0 < n /\ n < det ELSE det < n /\ n < 0
  IN det # 0 /\ Inside(Cross2d(e, w)) /\ Inside(Cross2d(f, w))

IntersectsHull(hull, v1, v2, a, b) ==
  \E i \in 1..(Len(hull) - 2) :
    ~(v1 = hull[i] /\ v2 = hull[i + 1]) /\ Crosses(a, b, hull[i], hull[i + 1])

\* Variant: points that another edge is nearer to are not skipped.
NearestOfAll(v1, v2, cluster, hull) ==
  LET inner == Range(cluster) \ Range(hull)
      Gap(p) == ToSegment(p, v1, v2)
  IN SelectSeq(cluster, LAMBDA p : p \in inner /\ \A q \in inner : Leq(Gap(p), Gap(q)))

\* findNearestInnerPoint: of the points off the hull that no edge is nearer to than this one, the
\* nearest to it; the first in the list is taken.
findNearestInnerPoint(v1, v2, cluster, hull) ==
  LET Gap(p) == ToSegment(p, v1, v2)
      inner == {p \in Range(cluster) \ Range(hull) :
                  \A j \in 1..(Len(hull) - 1) : Leq(Gap(p), ToSegment(p, hull[j], hull[j + 1]))}
  IN SelectSeq(cluster, LAMBDA p : p \in inner /\ \A q \in inner : Leq(Gap(p), Gap(q)))

\* concaveHull: an edge that is long for the distance of its point bends to it, and its first
\* half is looked at again.
RECURSIVE Concave(_, _, _)
Concave(hull, i, cluster) ==
  LET v1 == hull[i]
      v2 == hull[i + 1]
      nearest == findNearestInnerPoint(v1, v2, cluster, hull)
      p  == nearest[1]
      dd == Min({Norm2(Minus(p, v1)), Norm2(Minus(p, v2))})
  IN IF i >= Len(hull) THEN hull
     ELSE IF /\ nearest # <<>> /\ dd > 0
             /\ Norm2(Minus(v1, v2)) > Depth * Depth * dd
             /\ ~IntersectsHull(hull, v1, v2, v1, p) /\ ~IntersectsHull(hull, v1, v2, p, v2)
     THEN Concave(InsertAt(hull, i + 1, p), i, cluster)
     ELSE Concave(hull, i + 1, cluster)

concaveHull(cluster) == Concave(convexHull2(cluster), 1, Sorted(cluster))

-----------------------------------------------------------------------------
(* Lines.                                                                  *)

isInlier(p, a, b) == Between(p, a, b) /\ Leq(ToSegment(p, a, b), Whole(InlierDistance2))
Inliers(cluster, a, b) == {i \in DOMAIN cluster : isInlier(cluster[i], a, b)}
Without(cluster, S) == [i \in DOMAIN cluster |-> IF i \in S THEN <<>> ELSE <<cluster[i]>>]
Points(cluster) == [i \in DOMAIN cluster |-> <<cluster[i]>>]

\* lineRansac tries random pairs and keeps the best of them: any pair may be that one.
lineRansac(cluster) ==
  IF Len(cluster) < 2 \/ Len(cluster) < MinInliers THEN {}
  ELSE {pair \in (DOMAIN cluster) \X (DOMAIN cluster) :
          /\ pair[1] # pair[2]
          /\ Cardinality(Inliers(cluster, cluster[pair[1]], cluster[pair[2]])) >= MinInliers}

\* The results of CostmapToLinesDBSRANSAC for a cluster: lines while there are enough points, then
\* the remaining points.  Stopping early stands for a sample without a good pair.
RECURSIVE RansacLines(_)
RansacLines(cluster) ==
  {Points(cluster)} \cup
  IF Len(cluster) <= RemainingOutliers THEN {}
  ELSE UNION { LET a == cluster[pair[1]]
                   b == cluster[pair[2]]
                   outliers == FlattenSeq(Without(cluster, Inliers(cluster, a, b)))
               IN {<< <<a, b>> >> \o rest : rest \in RansacLines(outliers)}
             : pair \in lineRansac(cluster) }

\* extractPointsAndLines: along each edge of the hull its support points become a line, or single
\* points when they are too few or have a gap; either way they leave the cluster.  They are read
\* and erased from the last of the sorted list to the first, so that an index is right only while
\* that order is the order of the indices.  An index past the end is left out.
EraseAll(cluster, indices) ==
  FoldRight(LAMBDA k, left : IF k > Len(left.cluster) THEN left
              ELSE [cluster |-> RemoveAt(left.cluster, k),
                    points |-> Append(left.points, <<left.cluster[k]>>)],
            indices, [cluster |-> cluster, points |-> <<>>])

SupportPoints(cluster, a, b) ==
  LET d == Minus(b, a)
      all == SelectSeq([k \in DOMAIN cluster |-> k], LAMBDA k : k \in Inliers(cluster, a, b))
      Before(p, q) == IF d[1] * d[1] >= d[2] * d[2]
                      THEN p[1] < q[1] \/ (p[1] = q[1] /\ p[2] < q[2])
                      ELSE p[2] < q[2] \/ (p[2] = q[2] /\ p[1] < q[1])
  IN IF InBetween2 # 0 /\ Len(all) >= MinInliers + 2
     THEN SortSeq(all, LAMBDA i, k : Before(cluster[i], cluster[k])) ELSE all

IsLine(cluster, support) ==
  InBetween2 # 0 =>
    /\ Len(support) >= MinInliers + 2
    /\ \A k \in 2..Len(support) :
         Norm2(Minus(cluster[support[k]], cluster[support[k - 1]])) <= InBetween2

extractPointsAndLines(cluster, polygon) ==
  LET Edge(acc, i) ==
        LET a == polygon[i]
            b == polygon[i + 1]
            support == SupportPoints(acc.cluster, a, b)
            left == EraseAll(acc.cluster, support)
        IN IF IsLine(acc.cluster, support)
           THEN [cluster |-> left.cluster, out |-> Append(acc.out, <<a, b>>)]
           ELSE [cluster |-> left.cluster, out |-> acc.out \o left.points]
      end == FoldLeft(Edge, [cluster |-> Sorted(cluster), out |-> <<>>],
                      [i \in 1..(Len(polygon) - 1) |-> i])
  IN IF Len(polygon) < 2 THEN <<polygon>> ELSE end.out \o Points(end.cluster)

-----------------------------------------------------------------------------
(* compute() of the four converters: all polygons they may publish.        *)

Converters == {"polygons", "concave", "ransac", "lines"}

OfCluster(kind, cluster) ==
  CASE kind = "polygons" -> { <<convexHull2(cluster)>> }
    [] kind = "concave"  -> { <<concaveHull(cluster)>> }
    [] kind = "ransac"   -> RansacLines(cluster)
    [] kind = "lines"    -> { extractPointsAndLines(cluster, convexHull2(cluster)) }

RECURSIVE Together(_, _)
Together(kind, clusters) ==
  IF clusters = <<>> THEN {<<>>}
  ELSE {x \o y : x \in OfCluster(kind, Head(clusters)), y \in Together(kind, Tail(clusters))}

compute(kind, cells) ==
  LET clusters == dbScan(cells)
  IN {out \o Points(clusters[1]) : out \in Together(kind, Tail(clusters))}

-----------------------------------------------------------------------------
(* What the results should be.                                             *)

\* The point is inside the polygon or no further from its boundary than the distance.
Inside(p, polygon) ==
  Len(polygon) > 3 /\ \A i \in 1..(Len(polygon) - 1) : Cross(polygon[i], polygon[i + 1], p) >= 0
Near(p, polygon, d2) ==
  IF Len(polygon) = 1 THEN Norm2(Minus(p, polygon[1])) <= d2
  ELSE \E i \in 1..(Len(polygon) - 1) : Leq(ToSegment(p, polygon[i], polygon[i + 1]), Whole(d2))

Covered(p, polygons, d2) ==
  \E i \in DOMAIN polygons : Near(p, polygons[i], d2) \/ Inside(p, polygons[i])

\* Fewer neighbours than a cell of a cluster has: such a cell may be left out.
Sparse(cells, i) == Len(regionQuery(cells, i)) < MinPts

\* The cells of a costmap, columns first, in the order updateCostmap2D meets them.
CellsOf(S, width, height) ==
  SelectSeq([k \in 1..(width * height) |-> <<(k - 1) \div height, (k - 1) % height>>],
            LAMBDA p : p \in S)

\* Clusters are disjoint, within their size, and chains of neighbours; what is in none of them has
\* few neighbours.
ClustersSound(cells) ==
  LET c == dbScan(cells)
      In(k) == Range(c[k])
  IN /\ \A k, l \in DOMAIN c : k # l => In(k) \cap In(l) = {}
     /\ \A k \in 2..Len(c) :
          /\ Len(c[k]) <= MaxPts /\ Cardinality(In(k)) = Len(c[k])
          /\ \A n \in 2..Len(c[k]) : \E m \in 1..(n - 1) :
               Norm2(Minus(c[k][n], c[k][m])) <= MaxDistance * MaxDistance
     /\ \A i \in DOMAIN cells : Sparse(cells, i) \/ \E k \in 2..Len(c) : cells[i] \in In(k)

\* A hull turns left at every corner and holds the whole cluster; both algorithms agree; what the
\* simplification leaves out is near its edges; the concave hull keeps those corners and adds
\* each point once, and only points that are cells.
HullsSound(cells) ==
  LET h == HullOf(cells)
      corners == Front(h)
      simple == convexHull2(cells)
      concave == concaveHull(cells)
      Corner(k) == corners[((k - 1) % Len(corners)) + 1]
  IN /\ \A p \in Range(cells) : Near(p, h, 0) \/ Inside(p, h)
     /\ Len(h) > 3 => \A k \in DOMAIN corners : Cross(Corner(k), Corner(k + 1), Corner(k + 2)) > 0
     /\ Range(h) \subseteq Range(cells)
     /\ Len(h) > 3 => Range(MonotoneChain(cells)) = Range(h)
     /\ Range(simple) \subseteq Range(h) /\ \A p \in Range(h) : Near(p, simple, Separation2)
     /\ Range(simple) \subseteq Range(concave) /\ Range(concave) \subseteq Range(cells)
     /\ Len(concave) - Len(simple) = Cardinality(Range(concave) \ Range(simple))

\* Every cell of the costmap is within the tolerance of a polygon, whatever the converter, unless
\* it has few neighbours; the concave hulls and the lines along hulls are looked at on their own.
CellsCovered(kind, cells, polygons) ==
  \A i \in DOMAIN cells :
    Sparse(cells, i) \/ Covered(cells[i], polygons, Max({Separation2, InlierDistance2}))
\* What is erased along an edge of the hull are its support points
\* (costmap_to_lines_convex_hull.cpp:238, "otherwise indices are not valid after erasing elements").
SupportErased(cells) ==
  LET cluster == Sorted(cells)
      hull == convexHull2(cells)
  IN \A i \in 1..(Len(hull) - 1) :
       LET support == SupportPoints(cluster, hull[i], hull[i + 1])
       IN EraseAll(cluster, support).cluster = FlattenSeq(Without(cluster, Range(support)))

\* The edges of a concave hull do not cross (costmap_to_polygons_concave.cpp:147, "Check that new
\* candidate edge will not intersect existing edges").
EdgesDoNotCross(cells) ==
  LET h == concaveHull(cells)
  IN \A i, j \in 1..(Len(h) - 1) : ~Crosses(h[i], h[i + 1], h[j], h[j + 1])
=============================================================================
