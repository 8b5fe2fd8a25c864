--------------------------- MODULE DynamicObstacles ---------------------------
(***************************************************************************)
(* The converter that finds moving obstacles in the costmap                 *)
(* (CostmapToDynamicObstacles): a background subtractor with a fast and a   *)
(* slow filter, a blob detector, and a tracker that keeps the identity of   *)
(* the blobs.  The map is one row of cells; whatever the map's own thread   *)
(* writes into it is seen at once, for the converter wraps the map's array  *)
(* and copies nothing.                                                      *)
(***************************************************************************)
EXTENDS Assignment

CONSTANTS
  Width,               \* cells of the row
  AlphaFast, AlphaSlow, Beta,          \* learning rates and weight of a cell against its neighbours, in %
  MinOccupancy, MinSeparation, MaxNeighbors,
  Border,              \* cells at either end that are never foreground
  MorphSize, MinArea, MaxArea,
  DistThresh, MaxSkipped,
  Images,              \* the maps considered, each a set of occupied cells
  MaxChanges           \* bound: the map changes so often

VARIABLES
  image,      \* the occupied cells of the map, in its own frame
  origin,     \* the cell of the world the map's first cell lies on
  grids,      \* occupancy_grid_fast_ and _slow_, and the shift they are for
  fg,         \* fg_mask_
  tracks,     \* the tracker's tracks, oldest first
  nextId,     \* NextTrackID
  published,  \* obstacles_
  changes, still,    \* changes of the map so far; frames since the world last changed
  tick        \* turns with every frame, so that every frame is a step

dynamicVars == <<image, origin, grids, fg, tracks, nextId, published, changes, still, tick>>

Cells == 1..Width
Lethal == 254
\* A row of cells is a sequence; appending nothing has TLC work out its elements once.
Row(f) == f \o <<>>
Frame == Row([c \in Cells |-> IF c \in image THEN Lethal ELSE 0])
Weighted(f, g, percent) ==
  Row([c \in Cells |-> (f[c] * percent + g[c] * (100 - percent) + 50) \div 100])

-----------------------------------------------------------------------------
(* BackgroundSubtractor.                                                    *)

\* transformToCurrentFrame: the grids follow the map, and what comes in at the edge is empty.
transformToCurrentFrame(g, shift) ==
  Row([c \in Cells |-> IF c + shift \in Cells THEN g[c + shift] ELSE 0])

\* The box filter over three cells, the edge cells repeated.
NeighborMean(g) ==
  LET At(c) == g[IF c < 1 THEN 1 ELSE IF c > Width THEN Width ELSE c]
  IN Row([c \in Cells |-> (At(c - 1) + At(c) + At(c + 1) + 1) \div 3])

Near(c) == {n \in Cells : n - c \in (-MorphSize)..MorphSize}
Dilated(S) == {c \in Cells : Near(c) \cap S # {}}
Eroded(S) == {c \in Cells : Near(c) \subseteq S}

\* Variant: the grids stay where they are when the map moves.
Unshifted ==
  IF grids.state = "aliased" THEN [fast |-> Frame, slow |-> Frame]
  ELSE [fast |-> grids.fast, slow |-> grids.slow]

\* The first frame only makes both grids an alias of the map's array; it is read when the second
\* frame comes, with what is in it then.
Shifted ==
  LET shift == origin - grids.origin
  IN IF grids.state = "aliased"
     THEN [fast |-> transformToCurrentFrame(Frame, shift), slow |-> transformToCurrentFrame(Frame, shift)]
     ELSE [fast |-> transformToCurrentFrame(grids.fast, shift),
           slow |-> transformToCurrentFrame(grids.slow, shift)]

\* Both filters, then the three conditions a moving cell meets.
Filtered ==
  LET shifted == Shifted
      nearSlow == NeighborMean(shifted.slow)
      fast0 == Weighted(Weighted(Frame, shifted.fast, AlphaFast), NeighborMean(shifted.fast), Beta)
      slow  == Weighted(Weighted(Frame, shifted.slow, AlphaSlow), nearSlow, Beta)
      fast  == Row([c \in Cells |-> IF fast0[c] > MinOccupancy THEN fast0[c] ELSE 0])
      moving == {c \in Cells : /\ fast[c] - slow[c] > MinSeparation
                               /\ nearSlow[c] <= MaxNeighbors
                               /\ c \in (1 + Border)..(Width - Border)}
  IN [fast |-> fast, slow |-> slow, mask |-> Eroded(Dilated(Dilated(moving)))]

-----------------------------------------------------------------------------
(* BlobDetector: one threshold, so blobs are never merged across thresholds. *)

\* The runs of foreground cells, from the left.
Runs(mask) ==
  LET starts == {c \in mask : c - 1 \notin mask}
      End(c) == Max({n \in mask : c <= n /\ c..n \subseteq mask})
      list == InOrder(starts, Width)
  IN Row([k \in DOMAIN list |-> list[k]..End(list[k])])

\* Blobs of a fitting area, each at twice the middle of its cells.
Blobs(mask) ==
  LET runs == Runs(mask)
      Fitting == {i \in DOMAIN runs : Cardinality(runs[i]) >= MinArea /\ Cardinality(runs[i]) < MaxArea}
      fit == InOrder(Fitting, Len(runs))
  IN [k \in DOMAIN fit |-> [at |-> Min(runs[fit[k]]) + Max(runs[fit[k]]), contour |-> runs[fit[k]]]]

-----------------------------------------------------------------------------
(* CTracker.  The Kalman filter is taken to trust its measurements: the      *)
(* estimate is the measurement, and without one the track moves on.          *)

Abs(n) == IF n < 0 THEN -n ELSE n
CalcDist(track, blob) == Abs(track.at - blob.at)
NewTrack(blob, id) == [id |-> id, skipped |-> 0, at |-> blob.at, velocity |-> 0, contour |-> blob.contour]

\* KF.Update and CTrack::Update
Corrected(track, blob) ==
  [track EXCEPT !.skipped = 0, !.velocity = blob.at - track.at, !.at = blob.at,
                !.contour = blob.contour]
Extrapolated(track) == [track EXCEPT !.at = @ + track.velocity]

\* Variant: a track without a detection in a frame without any is left alone.
MatchedIfAny(old, blobs) ==
  IF blobs = <<>> THEN [i \in DOMAIN old |-> [blob |-> 0, track |-> old[i]]]
  ELSE LET d == [e \in (DOMAIN old) \X (DOMAIN blobs) |-> CalcDist(old[e[1]], blobs[e[2]])]
           assignment == assignmentoptimal(d, DOMAIN old, DOMAIN blobs)
       IN [i \in DOMAIN old |-> [blob |-> assignment[i], track |-> old[i]]]

\* Variant: a pair that is too far apart counts as skipped and is kept all the same.
CleanedCounting(old, d, assignment) ==
  LET TooFar(i) == assignment[i] # 0 /\ d[<<i, assignment[i]>>] > DistThresh
  IN Row([i \in DOMAIN old |->
            [blob |-> assignment[i],
             track |-> IF TooFar(i) THEN [old[i] EXCEPT !.skipped = 1]
                       ELSE IF assignment[i] = 0 THEN [old[i] EXCEPT !.skipped = @ + 1]
                       ELSE old[i]]])

\* A pair that is too far apart is dissolved, and the track's count of skipped frames becomes one.
Cleaned(old, d, assignment) ==
  LET TooFar(i) == assignment[i] # 0 /\ d[<<i, assignment[i]>>] > DistThresh
  IN Row([i \in DOMAIN old |->
            [blob |-> IF TooFar(i) THEN 0 ELSE assignment[i],
             track |-> IF TooFar(i) THEN [old[i] EXCEPT !.skipped = 1]
                       ELSE IF assignment[i] = 0 THEN [old[i] EXCEPT !.skipped = @ + 1]
                       ELSE old[i]]])
Matched(old, blobs) ==
  LET d == [e \in (DOMAIN old) \X (DOMAIN blobs) |-> CalcDist(old[e[1]], blobs[e[2]])]
  IN Cleaned(old, d, assignmentoptimal(d, DOMAIN old, DOMAIN blobs))

\* The places of the tracks that remain.
Remaining(matched) ==
  InOrder({i \in DOMAIN matched : matched[i].track.skipped <= MaxSkipped}, Len(matched))

\* Variant: the assignments are not erased with the tracks they belong to.
KeptApart(matched) ==
  LET at == Remaining(matched)
  IN [i \in DOMAIN at |-> [matched[at[i]] EXCEPT !.blob = matched[i].blob]]

Kept(matched) == LET at == Remaining(matched) IN [i \in DOMAIN at |-> matched[at[i]]]

\* CTracker::Update.  Detections that no remaining track has start one; without any track all do,
\* and then each is assigned to its own.
Tracked(kept, id, blobs) ==
  LET new == InOrder({j \in DOMAIN blobs : \A i \in DOMAIN kept : kept[i].blob # j}, Len(blobs))
      updated == [i \in DOMAIN kept |->
                    IF kept[i].blob # 0 THEN Corrected(kept[i].track, blobs[kept[i].blob])
                    ELSE Extrapolated(kept[i].track)]
  IN [tracks |-> updated \o [k \in DOMAIN new |-> NewTrack(blobs[new[k]], id + k - 1)],
      nextId |-> id + Len(new)]
Update(old, id, blobs) == Tracked(Kept(Matched(old, blobs)), id, blobs)

-----------------------------------------------------------------------------
(* The converter.                                                           *)

Settled == 6      \* frames after which a world that no longer changes counts as still

Init ==
  /\ image \in Images
  /\ origin = 0
  /\ grids = [state |-> "empty", origin |-> 0]
  /\ fg = {}
  /\ tracks = <<>>
  /\ nextId = 0
  /\ published = {}
  /\ changes = 0
  /\ still = 0
  /\ tick = FALSE

\* The costmap's own thread: obstacles move, appear and disappear, and the window moves along.
MapChanges ==
  /\ changes < MaxChanges
  /\ changes' = changes + 1
  /\ \E next \in Images, step \in {0, 1} :
       /\ image' = next
       /\ origin' = origin + step
       /\ still' = IF next = {c - step : c \in image} THEN still ELSE 0
  /\ UNCHANGED <<grids, fg, tracks, nextId, published, tick>>

\* compute's first half on the first frame: nothing to compare with, and nothing published.
FirstFrame ==
  /\ grids.state = "empty"
  /\ grids' = [state |-> "aliased", origin |-> origin]
  /\ still' = IF still < Settled THEN still + 1 ELSE still
  /\ tick' = ~tick
  /\ UNCHANGED <<image, origin, fg, tracks, nextId, published, changes>>

\* compute: foreground, blobs, tracks; published are the tracked contours and what the foreground
\* leaves of the map.
compute ==
  /\ grids.state # "empty"
  /\ \E filtered \in {Filtered} : \E updated \in {Update(tracks, nextId, Blobs(filtered.mask))} :
        /\ grids' = [state |-> "own", origin |-> origin, fast |-> filtered.fast, slow |-> filtered.slow]
        /\ fg' = filtered.mask
        /\ tracks' = updated.tracks
        /\ nextId' = updated.nextId
        /\ published' = {[id |-> updated.tracks[i].id, cells |-> updated.tracks[i].contour] :
                           i \in DOMAIN updated.tracks}
                        \cup {[id |-> -1, cells |-> {c}] : c \in image \ filtered.mask}
  /\ still' = IF still < Settled THEN still + 1 ELSE still
  /\ tick' = ~tick
  /\ UNCHANGED <<image, origin, changes>>

DynamicNext == MapChanges \/ FirstFrame \/ compute

\* The worker's timer goes on: one of the two halves is always enabled, so frames keep coming.
DynamicSpec ==
  Init /\ [][DynamicNext]_dynamicVars /\ []<><<FirstFrame \/ compute>>_dynamicVars

-----------------------------------------------------------------------------
(* Properties.                                                              *)

\* Every blob of the last frame belongs to exactly one track, and every track that says it was
\* seen in that frame stands on a blob of its own (CTracker::Update keeps tracks and assignment
\* in step while it erases from both).
BlobsHaveTracks ==
  \A k \in DOMAIN Blobs(fg) :
    Cardinality({i \in DOMAIN tracks : tracks[i].skipped = 0 /\ tracks[i].contour = Blobs(fg)[k].contour}) = 1

\* A track never jumps further than the threshold: it either takes a detection in reach or moves
\* on as it moved before (CTracker::Update's cleaning of the assignment).
TracksDoNotJump ==
  [][\A i \in DOMAIN tracks, j \in DOMAIN tracks' :
       tracks'[j].id = tracks[i].id
         => \/ Abs(tracks'[j].at - tracks[i].at) <= DistThresh
            \/ tracks'[j].at = tracks[i].at + tracks[i].velocity]_dynamicVars

\* Once the world has stood still for a while nothing in it is taken for moving, even while the
\* window moves over it (BackgroundSubtractor::apply and transformToCurrentFrame).
StillIsBackground == still = Settled => fg = {}

\* Every obstacle that is tracked is given up some time after it has stopped or gone: the map no
\* longer changes, so in the end there are no tracks (max_allowed_skipped_frames).
TracksEnd == <>[](tracks = <<>>)

\* Every occupied cell is part of a published obstacle.  It is not: foreground that makes no blob
\* of a fitting size is taken out of the static obstacles and tracked by nobody
\* (costmap_to_dynamic_obstacles.cpp:173).
OccupiedIsPublished == still >= 2 => \A c \in image : \E o \in published : c \in o.cells

\* An object that is in reach of a track's detection keeps its identity (Ctracker.h:78: pairs
\* further apart than the threshold are not considered in the assignment).  They are, and can
\* take the nearer one's place.
FarPairsIgnored ==
  grids.state # "empty" =>
  \A i \in DOMAIN tracks, k \in DOMAIN Blobs(Filtered.mask) :
    /\ CalcDist(tracks[i], Blobs(Filtered.mask)[k]) <= DistThresh
    /\ \A j \in (DOMAIN tracks) \ {i} : CalcDist(tracks[j], Blobs(Filtered.mask)[k]) > DistThresh
    /\ \A l \in (DOMAIN Blobs(Filtered.mask)) \ {k} : CalcDist(tracks[i], Blobs(Filtered.mask)[l]) > DistThresh
    => Matched(tracks, Blobs(Filtered.mask))[i].blob = k
=============================================================================
