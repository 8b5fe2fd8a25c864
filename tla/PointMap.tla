------------------------------ MODULE PointMap ------------------------------
(***************************************************************************)
(* The map of Point-LIO: a k-d tree that the mapping node adds points to,  *)
(* searches, and cuts back to the local map around the robot               *)
(* (ikd_Tree.cpp, laserMapping.cpp:441-502 and 827-869).  The tree is here *)
(* as the mapping thread uses it, with lazy deletion, pushing down and     *)
(* rebuilding; the thread that rebuilds large parts is module IkdTree, and *)
(* a part stays below its size here.  A reference map, the set `bag` of    *)
(* the points the tree should hold, is kept beside it.                     *)
(*                                                                         *)
(* Points are triples; no two points of Points share a coordinate, so that *)
(* nth_element has one outcome.  Downsampling is left out: Add_Points      *)
(* never turns it on (`downsample_on && false`, ikd_Tree.cpp:487).         *)
(***************************************************************************)
EXTENDS Integers, Sequences, FiniteSets
LOCAL INSTANCE FiniteSetsExt
LOCAL INSTANCE SequencesExt

CONSTANTS
    Points,        \* the points the lidar can see
    Scans,         \* the sequences of points one scan may bring
    First,         \* the points the tree is first built of
    Positions,     \* the positions of the lidar
    Boxes,         \* boxes <<lowest corner, highest corner>> deleted directly
    Queries,       \* where the nearest points are searched for
    Neighbours,    \* k_nearest
    Reach2,        \* square of max_dist of a search
    MinUnbalanced, \* Minimal_Unbalanced_Tree_Size
    DeletePart,    \* delete_criterion_param, in percent
    BalancePart,   \* balance_criterion_param, in percent
    FilterSize,    \* filter_size_map_min
    CubeLen,       \* cube_len
    DetRange,      \* DET_RANGE
    Threshold2,    \* twice MOV_THRESHOLD
    MaxOps         \* bound: operations on the map

VARIABLES
    tree,     \* Root_Node
    bag,      \* the reference: the points that should be in the map
    added,    \* how many points were put into the tree
    deleted,  \* how many points the deletions took out (boxes return the count)
    removed,  \* how many points are in Points_deleted
    cached,   \* how many points acquire_removed_points handed out
    localMap, \* LocalMap_Points, or <<>> before Localmap_Initialized
    needrm,   \* cub_needrm
    lidar,    \* pos_LiD, the position of the lidar
    ops

mapVars == <<tree, bag, added, deleted, removed, cached, localMap, needrm, lidar, ops>>

Axes == 1..3
Infinity == 1000000
Square(x) == x * x

-----------------------------------------------------------------------------
(* Boxes *)

\* A box holds its lower faces and not its upper ones.
InBox(p, box) == \A a \in Axes : box[1][a] <= p[a] /\ box[2][a] > p[a]
Apart(n, box) == \E a \in Axes : box[2][a] <= n.lo[a] \/ box[1][a] > n.hi[a]
Within(n, box) == \A a \in Axes : box[1][a] <= n.lo[a] /\ box[2][a] > n.hi[a]

calc_dist(p, q) == MapThenSumSet(LAMBDA a : Square(p[a] - q[a]), Axes)

\* Square of the distance from p to the box of node n.
calc_box_dist(n, p) ==
    IF n.size = 0 THEN Infinity
    ELSE MapThenSumSet(LAMBDA a : IF p[a] < n.lo[a] THEN Square(p[a] - n.lo[a])
                                  ELSE IF p[a] > n.hi[a] THEN Square(p[a] - n.hi[a])
                                  ELSE 0, Axes)

-----------------------------------------------------------------------------
(* Nodes *)

Nil == [size |-> 0]
IsNode(n) == n.size > 0
Sons(n) == {s \in {n.left, n.right} : IsNode(s)}

\* A node whose sons have changed: its counts, and the box of what it holds;
\* parts that are deleted widen the box only where everything is.
Update(n) ==
    LET gone  == n.dead /\ \A s \in Sons(n) : s.gone
        parts == {s \in Sons(n) : gone \/ ~s.gone}
        own   == IF gone \/ ~n.dead THEN {n.point} ELSE {}
        low   == own \cup {s.lo : s \in parts}
        high  == own \cup {s.hi : s \in parts}
    IN  [n EXCEPT !.gone = gone,
                  !.size = 1 + MapThenSumSet(LAMBDA s : s.size, Sons(n)),
                  !.invalid = MapThenSumSet(LAMBDA s : s.invalid, Sons(n))
                              + (IF n.dead THEN 1 ELSE 0),
                  !.lo = [a \in Axes |-> Min({p[a] : p \in low})] \o <<>>,
                  !.hi = [a \in Axes |-> Max({p[a] : p \in high})] \o <<>>]

NewNode(p, axis, left, right) ==
    Update([point |-> p, axis |-> axis, left |-> left, right |-> right,
            dead |-> FALSE, gone |-> FALSE, size |-> 1, invalid |-> 0,
            lo |-> p, hi |-> p, toLeft |-> FALSE, toRight |-> FALSE])

\* Variant: what is pushed down marks the sons and not what is below them.
Push_DownOnce(n) ==
    LET pushed(s) == [s EXCEPT !.gone = n.gone, !.dead = n.gone,
                               !.invalid = IF n.gone THEN s.size ELSE 0]
    IN  [n EXCEPT !.left = IF n.toLeft /\ IsNode(@) THEN pushed(@) ELSE @,
                  !.toLeft = @ /\ ~IsNode(n.left),
                  !.right = IF n.toRight /\ IsNode(@) THEN pushed(@) ELSE @,
                  !.toRight = @ /\ ~IsNode(n.right)]

\* A deletion marked here is handed to the sons; towards a missing son the
\* mark stays.
Push_Down(n) ==
    LET pushed(s) == [s EXCEPT !.gone = n.gone, !.dead = n.gone,
                               !.invalid = IF n.gone THEN s.size ELSE 0,
                               !.toLeft = TRUE, !.toRight = TRUE]
    IN  [n EXCEPT !.left = IF n.toLeft /\ IsNode(@) THEN pushed(@) ELSE @,
                  !.toLeft = @ /\ ~IsNode(n.left),
                  !.right = IF n.toRight /\ IsNode(@) THEN pushed(@) ELSE @,
                  !.toRight = @ /\ ~IsNode(n.right)]

\* The live points of a tree.
RECURSIVE flatten(_)
flatten(t) ==
    IF ~IsNode(t) THEN {}
    ELSE LET n == Push_Down(t)
         IN  (IF n.dead THEN {} ELSE {n.point}) \cup flatten(n.left) \cup flatten(n.right)

Spread(S, a) == Max({p[a] : p \in S}) - Min({p[a] : p \in S})

\* The tree is split at the median of its longest side; the first of equal
\* sides.
RECURSIVE BuildTree(_)
BuildTree(S) ==
    IF S = {} THEN Nil
    ELSE LET axis  == CHOOSE a \in Axes :
                        \A b \in Axes : Spread(S, a) > Spread(S, b)
                                        \/ (Spread(S, a) = Spread(S, b) /\ a <= b)
             Below(p) == {q \in S : q[axis] < p[axis]}
             pivot == CHOOSE p \in S : Cardinality(Below(p)) = (Cardinality(S) - 1) \div 2
         IN  NewNode(pivot, axis, BuildTree(Below(pivot)),
                     BuildTree(S \ (Below(pivot) \cup {pivot})))

\* A tree large enough is rebuilt where too many of its points are deleted or
\* one son is too heavy.
Criterion_Check(n) ==
    LET son == IF IsNode(n.left) THEN n.left ELSE n.right
    IN  /\ n.size > MinUnbalanced
        /\ \/ n.invalid * 100 > DeletePart * n.size
           \/ son.size * 100 > BalancePart * (n.size - 1)
           \/ son.size * 100 < (100 - BalancePart) * (n.size - 1)

\* What an operation hands back: the tree, the points it counted, and the dead
\* points its rebuilding moved to Points_deleted.
Outcome(t, count, moved) == [tree |-> t, count |-> count, moved |-> moved]

\* Variant: the dead points of a part that is rebuilt are dropped.
RebuiltForgetful(n, count, moved) ==
    IF Criterion_Check(n) THEN Outcome(BuildTree(flatten(n)), count, moved)
    ELSE Outcome(n, count, moved)

\* The end of every operation at a node: Rebuild where the criterion asks.
Rebuilt(n, count, moved) ==
    IF Criterion_Check(n)
    THEN LET live == flatten(n)
         IN  Outcome(BuildTree(live), count, moved + n.size - Cardinality(live))
    ELSE Outcome(n, count, moved)

\* Which son a point belongs to.
GoesLeft(n, p) == p[n.axis] < n.point[n.axis]

-----------------------------------------------------------------------------
(* Adding and deleting *)

RECURSIVE Add_by_point(_, _, _)
Add_by_point(t, p, fatherAxis) ==
    IF ~IsNode(t) THEN Outcome(NewNode(p, (fatherAxis % 3) + 1, Nil, Nil), 1, 0)
    ELSE LET n == Push_Down(t)
             left == GoesLeft(n, p)
             below == Add_by_point(IF left THEN n.left ELSE n.right, p, n.axis)
             grown == IF left THEN [n EXCEPT !.left = below.tree]
                              ELSE [n EXCEPT !.right = below.tree]
         IN  Rebuilt(Update(grown), 1, below.moved)

RECURSIVE Delete_by_range(_, _)
Delete_by_range(t, box) ==
    IF ~IsNode(t) \/ (IsNode(t) /\ t.gone) THEN Outcome(t, 0, 0)
    ELSE LET n == Push_Down(t)
             own == ~n.dead /\ InBox(n.point, box)
             left == Delete_by_range(n.left, box)
             right == Delete_by_range(n.right, box)
         IN  IF Apart(n, box) THEN Outcome(n, 0, 0)
             ELSE IF Within(n, box)
             THEN Outcome([n EXCEPT !.gone = TRUE, !.dead = TRUE, !.invalid = n.size,
                                    !.toLeft = TRUE, !.toRight = TRUE],
                          n.size - n.invalid, 0)
             ELSE Rebuilt(Update([n EXCEPT !.dead = @ \/ own, !.left = left.tree,
                                           !.right = right.tree]),
                          (IF own THEN 1 ELSE 0) + left.count + right.count,
                          left.moved + right.moved)

\* The node that holds the point is left without Update and without Rebuild.
RECURSIVE Delete_by_point(_, _)
Delete_by_point(t, p) ==
    IF ~IsNode(t) \/ (IsNode(t) /\ t.gone) THEN Outcome(t, 0, 0)
    ELSE LET n == Push_Down(t)
             left == GoesLeft(n, p)
             below == Delete_by_point(IF left THEN n.left ELSE n.right, p)
         IN  IF n.point = p /\ ~n.dead
             THEN Outcome([n EXCEPT !.dead = TRUE, !.invalid = @ + 1,
                                    !.gone = n.invalid + 1 = n.size], 1, 0)
             ELSE Rebuilt(Update(IF left THEN [n EXCEPT !.left = below.tree]
                                 ELSE [n EXCEPT !.right = below.tree]),
                          below.count, below.moved)

\* An operation repeated over a list, as the public functions do.
Repeated(Operation(_, _), start, list) ==
    FoldLeft(LAMBDA done, x : LET next == Operation(done.tree, x)
                              IN  Outcome(next.tree, done.count + next.count,
                                          done.moved + next.moved),
             Outcome(start, 0, 0), list)

Add_Points(t, list) == Repeated(LAMBDA s, p : Add_by_point(s, p, s.axis), t, list)
Delete_Points(t, list) == Repeated(Delete_by_point, t, list)
Delete_Point_Boxes(t, list) == Repeated(Delete_by_range, t, list)

-----------------------------------------------------------------------------
(* Searching.  The heap is a sequence of the points found, nearest first.  *)

Farthest(q, p) == calc_dist(Last(q), p)

\* The points of q with one more, nearest first, no more than Neighbours.
Pushed(q, x, p) ==
    LET kept   == IF Len(q) >= Neighbours THEN Front(q) ELSE q
        nearer == SelectSeq(kept, LAMBDA y : calc_dist(y, p) <= calc_dist(x, p))
    IN  nearer \o <<x>> \o SubSeq(kept, Len(nearer) + 1, Len(kept))

\* A part is worth a look while the heap has room or may hold something farther.
Worth(heap, s, p) == Len(heap) < Neighbours \/ calc_box_dist(s, p) < Farthest(heap, p)
Collected(n, p, q) ==
    IF ~n.dead /\ calc_dist(n.point, p) <= Reach2
       /\ (Len(q) < Neighbours \/ calc_dist(n.point, p) < Farthest(q, p))
    THEN Pushed(q, n.point, p) ELSE q

\* The nearer son is searched first, and the other one unless the heap is
\* full of points nearer than it.
RECURSIVE Search(_, _, _)
Visited(s, p, q) == IF Worth(q, s, p) THEN Search(s, p, q) ELSE q
BothVisited(n, p, q) ==
    IF \/ calc_box_dist(n.left, p) <= calc_box_dist(n.right, p)
       \/ ~(Worth(q, n.left, p) /\ Worth(q, n.right, p))
    THEN Visited(n.right, p, Visited(n.left, p, q))
    ELSE Visited(n.left, p, Visited(n.right, p, q))
Search(t, p, q) ==
    IF ~IsNode(t) \/ (IsNode(t) /\ (t.gone \/ calc_box_dist(t, p) > Reach2)) THEN q
    ELSE LET n == Push_Down(t)
         IN  BothVisited(n, p, Collected(n, p, q))

Nearest_Search(t, p) == Search(t, p, <<>>)

RECURSIVE Search_by_range(_, _)
Search_by_range(t, box) ==
    IF ~IsNode(t) THEN {}
    ELSE LET n == Push_Down(t)
         IN  IF Apart(n, box) THEN {}
             ELSE IF Within(n, box) THEN flatten(n)
             ELSE {x \in {n.point} : InBox(x, box) /\ ~n.dead}
                  \cup Search_by_range(n.left, box) \cup Search_by_range(n.right, box)

\* Lengths are doubled so that the centre of a box is whole; the comparisons
\* of square roots are those of the code, squared.
RECURSIVE Search_by_radius(_, _, _)
Search_by_radius(t, p, radius) ==
    IF ~IsNode(t) THEN {}
    ELSE LET n == Push_Down(t)
             far2 == MapThenSumSet(LAMBDA a : Square(n.lo[a] + n.hi[a] - 2 * p[a]), Axes)
             half2 == MapThenSumSet(LAMBDA a : Square(n.hi[a] - n.lo[a]), Axes)
             reach2 == Square(2 * radius)
             beyond == far2 - reach2 - half2
             inner == reach2 - far2 - half2
         IN  IF beyond > 0 /\ Square(beyond) > 4 * reach2 * half2 THEN {}
             ELSE IF inner >= 0 /\ Square(inner) >= 4 * far2 * half2 THEN flatten(n)
             ELSE {x \in {n.point} : ~n.dead /\ calc_dist(x, p) <= Square(radius)}
                  \cup Search_by_radius(n.left, p, radius)
                  \cup Search_by_radius(n.right, p, radius)

-----------------------------------------------------------------------------
(* The mapping node *)

\* Which points of a scan go into the map, and in which order: first those
\* whose grid cell is still empty, then those with nothing near their cell.
\* All of them are looked up before one is added.
Mid2(x) == (x \div FilterSize) * FilterSize * 2 + FilterSize
FromCentre2(y, x, a) == LET d == 2 * y[a] - Mid2(x[a]) IN IF d < 0 THEN -d ELSE d
Lonely(near, x) ==
    near = <<>> \/ \E a \in Axes : FromCentre2(near[1], x, a) * 1000 > 1732 * FilterSize
Taken(near, x) ==
    \E i \in DOMAIN near : \A a \in Axes : FromCentre2(near[i], x, a) < FilterSize
Wanted(near, x) == ~Lonely(near, x) /\ ~Taken(near, x)
Downsampled(t, scan) ==
    SelectSeq(scan, LAMBDA x : Wanted(Nearest_Search(t, x), x))
    \o SelectSeq(scan, LAMBDA x : Lonely(Nearest_Search(t, x), x))

\* One step: the tree of an outcome replaces the old one.
Applied(outcome) ==
    /\ ops < MaxOps
    /\ ops' = ops + 1
    /\ tree' = outcome.tree
    /\ removed' = removed + outcome.moved

\* A scan is added: new points in the range of the lidar.
map_incremental(scan) ==
    /\ \A p \in ToSet(scan) : \A a \in Axes : p[a] - lidar[a] \in -DetRange..DetRange
    /\ ToSet(scan) \cap bag = {}
    /\ \E new \in {Downsampled(tree, scan)} :
           /\ Applied(Add_Points(tree, new))
           /\ bag' = bag \cup ToSet(new)
           /\ added' = added + Len(new)
    /\ UNCHANGED <<deleted, cached, localMap, needrm, lidar>>

\* The user deletes points one by one.
DeleteThese(list) ==
    LET done == Delete_Points(tree, list)
    IN  /\ Applied(done)
        /\ bag' = bag \ ToSet(list)
        /\ deleted' = deleted + done.count
        /\ UNCHANGED <<added, cached, localMap, needrm, lidar>>

\* The user deletes a box.
DeleteBoxes(boxes) ==
    LET done == Delete_Point_Boxes(tree, boxes)
    IN  /\ Applied(done)
        /\ bag' = {p \in bag : \A i \in DOMAIN boxes : ~InBox(p, boxes[i])}
        /\ deleted' = deleted + done.count
        /\ UNCHANGED <<added, cached, localMap, needrm, lidar>>

\* The local map follows the lidar: when it comes too near a side, the map is
\* moved and what falls out on the other side is deleted.  Points_deleted is
\* handed out before.  cub_needrm is only shrunk, never cleared.
Moved == Max({((CubeLen - Threshold2 * DetRange) * 9) \div 20,
              (DetRange * (Threshold2 - 2)) \div 2})
TooNear(d) == 2 * (IF d < 0 THEN -d ELSE d) <= Threshold2 * DetRange
Shift(box, a, d) == [i \in 1..2 |-> [box[i] EXCEPT ![a] = @ + d]] \o <<>>
lasermap_fov_segment(at) ==
    LET low(a) == TooNear(at[a] - localMap[1][a])
        high(a) == TooNear(at[a] - localMap[2][a])
        \* the box left behind on each axis, and the box after all moves
        behind(a) == IF low(a) THEN <<[localMap EXCEPT ![1][a] = localMap[2][a] - Moved]>>
                     ELSE IF high(a) THEN <<[localMap EXCEPT ![2][a] = localMap[1][a] + Moved]>>
                     ELSE <<>>
        boxes == needrm \o behind(1) \o behind(2) \o behind(3)
        box   == FoldLeft(LAMBDA b, a : Shift(b, a, IF low(a) THEN -Moved
                                                    ELSE IF high(a) THEN Moved ELSE 0),
                          localMap, <<1, 2, 3>>)
        done  == Delete_Point_Boxes(tree, boxes)
    IN  /\ ops < MaxOps
        /\ lidar' = at
        /\ \/ /\ localMap = <<>>
              /\ localMap' = << [a \in Axes |-> at[a] - CubeLen \div 2] \o <<>>,
                                [a \in Axes |-> at[a] + CubeLen \div 2] \o <<>> >>
              /\ ops' = ops + 1
              /\ UNCHANGED <<tree, bag, added, deleted, removed, cached, needrm>>
           \/ /\ localMap # <<>>
              /\ \E a \in Axes : low(a) \/ high(a)
              /\ localMap' = box
              /\ needrm' = boxes
              /\ ops' = ops + 1
              /\ cached' = cached + removed
              /\ removed' = done.moved
              /\ tree' = done.tree
              /\ bag' = {p \in bag : \A i \in DOMAIN boxes : ~InBox(p, boxes[i])}
              /\ deleted' = deleted + done.count
              /\ UNCHANGED added
           \/ /\ localMap # <<>>
              /\ ~\E a \in Axes : low(a) \/ high(a)
              /\ lidar # at
              /\ UNCHANGED <<tree, bag, added, deleted, removed, cached, localMap, needrm, ops>>

MapInit ==
    /\ tree = BuildTree(First)
    /\ bag = First
    /\ added = Cardinality(First)
    /\ deleted = 0 /\ removed = 0 /\ cached = 0
    /\ localMap = <<>> /\ needrm = <<>> /\ lidar = <<0, 0, 0>>
    /\ ops = 0

MapNext ==
    \/ \E scan \in Scans : IsNode(tree) /\ map_incremental(scan)
    \/ \E p \in Points : DeleteThese(<<p>>)
    \/ \E box \in Boxes : DeleteBoxes(<<box>>)
    \/ \E at \in Positions : lasermap_fov_segment(at)

MapSpec == MapInit /\ [][MapNext]_mapVars

-----------------------------------------------------------------------------
(* Properties *)

\* Every node's box holds the live points below it.
RECURSIVE BoxesCover(_)
BoxesCover(t) ==
    IsNode(t) =>
        LET n == Push_Down(t)
        IN  /\ \A p \in flatten(n) : \A a \in Axes : n.lo[a] <= p[a] /\ p[a] <= n.hi[a]
            /\ BoxesCover(n.left) /\ BoxesCover(n.right)

\* However additions, lazy deletions and rebuilding follow each other, the
\* tree holds the points of the reference map, its counts agree with them
\* (size() - invalid, ikd_Tree.cpp:137), and a box never leaves one out.
MapExact ==
    /\ flatten(tree) = bag
    /\ IsNode(tree) => tree.size - tree.invalid = Cardinality(bag)
    /\ BoxesCover(tree)

\* The searches leave no subtree out that holds an answer and return no point
\* that was deleted: the nearest points are the nearest ones of the reference
\* map, and box and radius searches agree with it (ikd_Tree.cpp:1064-1335).
SearchExact ==
    /\ \A p \in Queries :
         LET near == Nearest_Search(tree, p)
             inReach == {x \in bag : calc_dist(x, p) <= Reach2}
         IN  /\ ToSet(near) \subseteq inReach
             /\ Cardinality(ToSet(near)) = Len(near)
             /\ Len(near) = Min({Neighbours, Cardinality(inReach)})
             /\ \A x \in inReach \ ToSet(near), i \in DOMAIN near :
                  calc_dist(near[i], p) <= calc_dist(x, p)
             /\ \A i, j \in DOMAIN near : i < j => calc_dist(near[i], p) <= calc_dist(near[j], p)
    /\ \A box \in Boxes : Search_by_range(tree, box) = {x \in bag : InBox(x, box)}
    /\ \A p \in Queries, radius \in 1..3 :
         Search_by_radius(tree, p, radius) = {x \in bag : calc_dist(x, p) <= Square(radius)}

\* No point is lost or counted twice: what was added is in the map or was
\* counted by a deletion, and what was deleted is still in the tree, in
\* Points_deleted, or handed out (ikd_Tree.cpp:664, laserMapping.cpp:441).
NothingLost ==
    /\ added = Cardinality(bag) + deleted
    /\ deleted = removed + cached + (IF IsNode(tree) THEN tree.invalid ELSE 0)

\* Moving the local map deletes only what lies outside it ("delete the far
\* points", laserMapping.cpp:452).
LocalMapKept ==
    [][localMap' # localMap /\ localMap # <<>> =>
         \A p \in bag : InBox(p, localMap') => p \in bag']_mapVars
=============================================================================
