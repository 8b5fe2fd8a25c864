------------------------------- MODULE Pcd2Pgm -------------------------------
(***************************************************************************)
(* pcd2pgm: a recorded point cloud becomes the occupancy grid, and the image  *)
(* file, that the navigation loads.  A point has its coordinates in units of  *)
(* a fraction of a cell and says whether the plane through its neighbours is  *)
(* steep (the normals are the point cloud library's); the outlier filters,    *)
(* the library's too, come before.                                            *)
(***************************************************************************)
EXTENDS Integers, Sequences, FiniteSets

CONSTANTS
  map_resolution,       \* units of a cell
  height_threshold,
  Thresholds            \* the filter's limits: the least and the greatest x, y and z

\* passThroughFilter.
passThroughFilter(cloud) ==
  SelectSeq(cloud, LAMBDA p : /\ Thresholds.x[1] <= p.x /\ p.x <= Thresholds.x[2]
                              /\ Thresholds.y[1] <= p.y /\ p.y <= Thresholds.y[2]
                              /\ Thresholds.z[1] <= p.z /\ p.z <= Thresholds.z[2])

Least(S) == CHOOSE v \in S : \A w \in S : v <= w
Greatest(S) == CHOOSE v \in S : \A w \in S : w <= v

\* The corners: of all points but the last one, which the loops leave out.
Info(cloud) ==
  LET xs == {cloud[k].x : k \in 1 .. Len(cloud) - 1}
      ys == {cloud[k].y : k \in 1 .. Len(cloud) - 1}
  IN [x_min |-> Least(xs), y_min |-> Least(ys),
      width |-> (Greatest(xs) - Least(xs)) \div map_resolution,
      height |-> (Greatest(ys) - Least(ys)) \div map_resolution]

\* A conversion to int, towards zero.
Truncated(v) == IF v < 0 THEN -((-v) \div map_resolution) ELSE v \div map_resolution

CellOf(info, p) == <<Truncated(p.x - info.x_min), Truncated(p.y - info.y_min)>>

\* The cells the loops write: without the top row.  The height is unsigned, so that no row at all
\* leaves no bound on them.
Inside(info, c) ==
  /\ 0 <= c[1] /\ c[1] < info.width
  /\ 0 <= c[2] /\ (info.height = 0 \/ c[2] < info.height - 1)

Cells(info) == (0 .. info.width - 1) \X (0 .. info.height - 1)

\* The points that fall on cell c, by their numbers.
Falling(cloud, info, c) ==
  {k \in 1 .. Len(cloud) : CellOf(info, cloud[k]) = c /\ Inside(info, c)}

\* convertPointToMapByPoint: the last point of a cell decides.
ByPoint(cloud) ==
  LET info == Info(cloud)
  IN [c \in Cells(info) |->
        LET on == Falling(cloud, info, c)
        IN IF on # {} /\ cloud[Greatest(on)].steep THEN 100 ELSE 0]

\* convertPointToMapByNormal: any steep point does.
ByNormal(cloud) ==
  LET info == Info(cloud)
  IN [c \in Cells(info) |-> IF \E k \in Falling(cloud, info, c) : cloud[k].steep THEN 100 ELSE 0]

\* convertPointToMapByHeight: the greatest height on every cell, at least 0; occupied where it
\* differs from a neighbour's, but not at the border.
HeightMap(cloud) ==
  LET info == Info(cloud)
  IN [c \in Cells(info) |-> Greatest({0} \cup {cloud[k].z : k \in Falling(cloud, info, c)})]

\* Variant: three of the neighbours are looked at.
ThreeNeighbours(c) == {<<c[1] - 1, c[2]>>, <<c[1], c[2] - 1>>, <<c[1], c[2] + 1>>}
Neighbours(c) == {<<c[1] - 1, c[2]>>, <<c[1] + 1, c[2]>>, <<c[1], c[2] - 1>>, <<c[1], c[2] + 1>>}

Differs(h, c, d) == h[c] - h[d] > height_threshold \/ h[d] - h[c] > height_threshold
Interior(info, c) == c[1] \in 1 .. info.width - 2 /\ c[2] \in 1 .. info.height - 2

ByHeight(cloud) ==
  LET info == Info(cloud)
      h == HeightMap(cloud)
  IN [c \in Cells(info) |->
        IF Interior(info, c) /\ \E d \in Neighbours(c) : Differs(h, c, d) THEN 100 ELSE 0]

\* saveMap: rows from the top, 0 for occupied.  100 * 2.55 is a little less than 255.
\* Variant: rows from the bottom.
ImageUnflipped(info, data) ==
  [rc \in (0 .. info.height - 1) \X (0 .. info.width - 1) |->
     IF data[<<rc[2], rc[1]>>] = 100 THEN 0 ELSE 254]
Image(info, data) ==
  [rc \in (0 .. info.height - 1) \X (0 .. info.width - 1) |->
     IF data[<<rc[2], info.height - rc[1] - 1>>] = 100 THEN 0 ELSE 254]

\* The map server reads the image back with the origin and resolution of the YAML file: whether the
\* cell at a position is occupied, or it is outside of the map.
ReadBack(info, image, x, y) ==
  LET i == (x - info.x_min) \div map_resolution
      j == (y - info.y_min) \div map_resolution
  IN IF i \notin 0 .. info.width - 1 \/ j \notin 0 .. info.height - 1 THEN "outside"
     ELSE IF image[<<info.height - j - 1, i>>] = 0 THEN "occupied" ELSE "free"

-----------------------------------------------------------------------------
(* Properties, of a cloud with two points and a cell at least.                *)

\* saveMap refuses a map without cells, and the loops are bounded when there is a row.
Convertible(cloud) ==
  Len(cloud) >= 2 /\ LET info == Info(cloud) IN info.width > 0 /\ info.height > 0

\* The file says where the obstacles are: read back at the position of a steep point the map is not
\* free, unless the point is in the top row or the last one; and where it is occupied there is a
\* steep point on that cell, or the last one.
ObstaclesReadBack(cloud) ==
  Convertible(cloud) =>
    LET info == Info(cloud)
        image == Image(info, ByNormal(cloud))
        top == info.y_min + (info.height - 1) * map_resolution
        InCell(k, x, y) == /\ x <= cloud[k].x /\ cloud[k].x < x + map_resolution
                           /\ y <= cloud[k].y /\ cloud[k].y < y + map_resolution
    IN /\ \A k \in 1 .. Len(cloud) - 1 :
            cloud[k].steep /\ cloud[k].y < top =>
              ReadBack(info, image, cloud[k].x, cloud[k].y) # "free"
       /\ \A c \in Cells(info) :
            LET x == info.x_min + c[1] * map_resolution
                y == info.y_min + c[2] * map_resolution
            IN ReadBack(info, image, x, y) = "occupied" =>
                 \E k \in 1 .. Len(cloud) : cloud[k].steep /\ (InCell(k, x, y) \/ k = Len(cloud))

\* By height a step between two cells is marked on both its sides, except on the map's border.
StepsAreTwoSided(cloud) ==
  Convertible(cloud) =>
    LET info == Info(cloud)
        data == ByHeight(cloud)
        h == HeightMap(cloud)
    IN \A c, d \in Cells(info) :
         /\ Interior(info, c) /\ Interior(info, d)
         /\ c[1] - d[1] \in {-1, 0, 1} /\ c[2] - d[2] \in {-1, 0, 1}
         /\ (c[1] = d[1]) # (c[2] = d[2])
         /\ Differs(h, c, d)
         => data[c] = 100 /\ data[d] = 100

\* What pcd2pgm.cpp:276-286 says of the methods by points and normals: a cell with a steep point is an
\* obstacle.  By points a later flat point on the cell clears it.
SteepIsOccupied(cloud) ==
  Convertible(cloud) =>
    \A c \in Cells(Info(cloud)) : ByNormal(cloud)[c] = 100 => ByPoint(cloud)[c] = 100
=============================================================================
