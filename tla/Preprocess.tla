----------------------------- MODULE Preprocess -----------------------------
(***************************************************************************)
(* What Point-LIO does to a lidar message before it estimates motion from  *)
(* it: the clouds of two lidars are put together (laserMapping.cpp:        *)
(* 1635-1745), the points worth using are chosen and given their time in   *)
(* the scan (preprocess.cpp:43-384), and points of one time are grouped    *)
(* (common_lib.h:113-140).                                                 *)
(*                                                                         *)
(* A place is a member of a small set; Body is the set of places within    *)
(* the rectangle of the robot itself, the origin among them.  Times are    *)
(* counted in the step of 0.004166667 ms.  The feature extraction          *)
(* (give_feature, preprocess.cpp:386-815) is called by nothing.            *)
(***************************************************************************)
EXTENDS Integers, Sequences, FiniteSets
LOCAL INSTANCE SequencesExt
LOCAL INSTANCE FiniteSetsExt

CONSTANTS
    Body,             \* places on the robot
    Origin,           \* the place of a point that was never written
    N_SCANS,          \* scan_line
    Returns,          \* the tags of a good first or second return
    point_filter_num,
    OneMs,            \* one millisecond, in time steps
    Turn              \* a full turn of a spinning lidar

-----------------------------------------------------------------------------
(* Livox: points [at, line, tag, time], in the order of the message *)

\* A merged message: the points of one lidar after those of the other, under
\* the stamp of the second.
point_merge(one, two) == one \o two

\* The points that are written to pl_full.  The first point of a message is
\* never looked at.
Chosen(msg) ==
    LET Good(i) == msg[i].line < N_SCANS /\ msg[i].tag \in Returns
    IN  {i \in 2..Len(msg) :
            Good(i) /\ Cardinality({j \in 2..i : Good(j)}) % point_filter_num = 0}

Near(a, b) == a - b < OneMs /\ b - a < OneMs

\* Variant: a time is held against the time of the message's point before it.
CurvatureOfMessage(msg) ==
    LET time[i \in 1..Len(msg)] ==
            IF i \notin Chosen(msg) THEN 0
            ELSE IF Near(msg[i].time, msg[i-1].time) THEN msg[i-1].time
            ELSE time[i-1] + 1
    IN  time

\* The time given to each point of pl_full: its own, unless it is a millisecond
\* or more from that of the entry before, which is 0 when that point was not
\* chosen.
Curvature(msg) ==
    LET time[i \in 1..Len(msg)] ==
            IF i \notin Chosen(msg) THEN 0
            ELSE IF Near(msg[i].time, time[i-1]) THEN msg[i].time
            ELSE time[i-1] + 1
    IN  time

\* The points handed on: those that moved since the entry before and are not on
\* the robot.
Surface(msg) ==
    LET Place(i) == IF i \in Chosen(msg) THEN msg[i].at ELSE Origin
    IN  SelectSeq([i \in 1..Len(msg) |-> i] \o <<>>,
                  LAMBDA i : /\ i \in Chosen(msg)
                             /\ Place(i) # Place(i - 1)
                             /\ Place(i) \notin Body)

avia_handler(msg) ==
    LET surf == Surface(msg)
    IN  [k \in DOMAIN surf |-> [of |-> surf[k], at |-> msg[surf[k]].at,
                                time |-> Curvature(msg)[surf[k]]]] \o <<>>

-----------------------------------------------------------------------------
(* Spinning lidars: points [ring, yaw, time, range], the range compared with
   the blind radius: -1 nearer, 0 on it, 1 farther *)

OnRing(pts, i) == {j \in 1..i-1 : pts[j].ring = pts[i].ring}

\* Variant: the turn is not counted when the lidar has gone past the yaw it
\* began with.
SpinTimeUnwrapped(pts) ==
    LET time[i \in 1..Len(pts)] ==
            IF OnRing(pts, i) = {} THEN 0
            ELSE LET turned == pts[Min(OnRing(pts, i))].yaw - pts[i].yaw
                 IN  IF turned >= 0 THEN turned ELSE turned + Turn
    IN  time

\* Without times in the message a point's time is how far its ring has turned
\* since its first point.  A time lower than the one before is a turn later.
SpinTime(pts) ==
    LET time[i \in 1..Len(pts)] ==
            IF OnRing(pts, i) = {} THEN 0
            ELSE LET turned == pts[Min(OnRing(pts, i))].yaw - pts[i].yaw
                     within == IF turned >= 0 THEN turned ELSE turned + Turn
                 IN  IF within < time[Max(OnRing(pts, i))] THEN within + Turn ELSE within
    IN  time

\* The times of a message count when its last point has one.
given_offset_time(pts) == pts[Len(pts)].time > 0

\* velodyne_handler and hesai_handler: `origin` is what the message's times are
\* counted from, 0 or the first point's time.  The first point of a ring is
\* dropped when the times come from the turning.
Spun(pts, origin) ==
    LET given == given_offset_time(pts)
        taken == SelectSeq([i \in 1..Len(pts) |-> i] \o <<>>,
                           LAMBDA i : /\ given \/ OnRing(pts, i) # {}
                                      /\ (i - 1) % point_filter_num = 0
                                      /\ pts[i].range > 0)
    IN  [k \in DOMAIN taken |->
            [of |-> taken[k],
             time |-> IF given THEN pts[taken[k]].time - origin
                      ELSE SpinTime(pts)[taken[k]]]] \o <<>>

velodyne_handler(pts) == IF pts = <<>> THEN <<>> ELSE Spun(pts, 0)
hesai_handler(pts) == IF pts = <<>> THEN <<>> ELSE Spun(pts, pts[1].time)

oust64_handler(pts) ==
    LET taken == SelectSeq([i \in 1..Len(pts) |-> i] \o <<>>,
                           LAMBDA i : (i - 1) % point_filter_num = 0 /\ pts[i].range >= 0)
    IN  [k \in DOMAIN taken |-> [of |-> taken[k], time |-> pts[taken[k]].time]] \o <<>>

-----------------------------------------------------------------------------
(* Points of one time *)

\* Variant: the last run is counted short of its last point.
time_compressingShort(times) ==
    LET steps == {i \in 1..Len(times)-1 : times[i+1] > times[i]}
        ends == SetToSortSeq(steps, <)
        runs == [k \in DOMAIN ends |-> IF k = 1 THEN ends[1] ELSE ends[k] - ends[k-1]]
        open == Len(times) - 1 - (IF steps = {} THEN 0 ELSE Max(steps))
    IN  Append(runs, Max({1, open}))

\* How many points each time has, in a cloud sorted by time.  Of no points at
\* all it still counts one.
time_compressing(times) ==
    LET steps == {i \in 1..Len(times)-1 : times[i+1] > times[i]}
        ends == SetToSortSeq(steps, <)
        runs == [k \in DOMAIN ends |-> IF k = 1 THEN ends[1] ELSE ends[k] - ends[k-1]]
        open == Len(times) - 1 - (IF steps = {} THEN 0 ELSE Max(steps))
    IN  Append(runs, IF open <= 0 THEN 1 ELSE open + 1)

-----------------------------------------------------------------------------
(* Properties *)

\* In a Livox message whose points are all good and close in time, every point
\* handed on has its own time, and the points handed on are those off the robot
\* (preprocess.cpp:116-148).
SmoothTimesKept(msg) ==
    (/\ point_filter_num = 1
     /\ Chosen(msg) = 2..Len(msg)
     /\ \A i \in 2..Len(msg) : Near(msg[i].time, IF i = 2 THEN 0 ELSE msg[i-1].time))
    => LET surf == avia_handler(msg)
       IN  /\ \A k \in DOMAIN surf : surf[k].time = msg[surf[k].of].time
           /\ \A i \in 2..Len(msg) : msg[i].at \notin Body /\ msg[i].at # msg[i-1].at
                                     => \E k \in DOMAIN surf : surf[k].of = i

\* The times computed from the turning are how far the ring has turned, as long
\* as it turns one way and less than twice round (preprocess.cpp:245-268).
SweepTimed(pts) ==
    LET Step(i, j) == (pts[i].yaw - pts[j].yaw + Turn) % Turn
        turned[i \in 1..Len(pts)] ==
            IF OnRing(pts, i) = {} THEN 0
            ELSE turned[Max(OnRing(pts, i))] + Step(Max(OnRing(pts, i)), i)
    IN  (pts # <<>> /\ ~given_offset_time(pts) /\ \A i \in 1..Len(pts) : turned[i] < 2 * Turn)
        => LET out == velodyne_handler(pts)
           IN  \A k \in DOMAIN out : out[k].time = turned[out[k].of]

\* The groups are the points of one time each: they use up the cloud, a group
\* holds one time, and the next a later one (common_lib.h:113).
GroupsSound(times) ==
    LET counts == time_compressing(times)
        \* the last point of each group, as the loop over time_seq finds it
        at[k \in 0..Len(counts)] == IF k = 0 THEN 0 ELSE at[k-1] + counts[k]
        sorted == \A i \in 1..Len(times)-1 : times[i] <= times[i+1]
    IN  (times # <<>> /\ sorted) =>
            /\ at[Len(counts)] = Len(times)
            /\ \A k \in 1..Len(counts) :
                 /\ \A i \in at[k-1]+1..at[k] : times[i] = times[at[k]]
                 /\ k < Len(counts) => times[at[k]] < times[at[k+1]]

\* A point handed on has the time its message gives it: "give each point its
\* exact time from the CustomPoint's offset_time" (preprocess.cpp:97).
TimesKept(msg) ==
    LET surf == avia_handler(msg)
    IN  \A k \in DOMAIN surf : surf[k].time = msg[surf[k].of].time
=============================================================================
