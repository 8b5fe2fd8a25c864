--------------------------- MODULE TimedElasticBand ---------------------------
(***************************************************************************)
(* The timed elastic band (TimedElasticBand): poses and the times between   *)
(* them, its initialisation from a plan, its pruning as the robot moves and *)
(* its resizing.  The poses lie on a line and headings are left out; the    *)
(* robot's limit is one unit of way per unit of time, and lengths are given *)
(* in units fine enough to be halved.  The release build that the package   *)
(* sets leaves assertions out: a time of zero is added like any other.      *)
(***************************************************************************)
EXTENDS Loops, SequencesExt, FiniteSetsExt

NoBand == [poses |-> <<>>, dts |-> <<>>]
isInit(b) == b.dts # <<>> /\ b.poses # <<>>
sizePoses(b) == Len(b.poses)
sizeTimeDiffs(b) == Len(b.dts)
BackPose(b) == Last(b.poses)
Distance(p, q) == IF p < q THEN q - p ELSE p - q
average(p, q) == (p + q) \div 2
estimateDeltaT(start, end) == Distance(start, end)
getSumOfAllTimeDiffs(b) == FoldLeft(LAMBDA sum, dt : sum + dt, 0, b.dts)

addPose(b, pose) == [b EXCEPT !.poses = Append(@, pose)]
\* A pose with the time that leads to it is refused when there is no pose to come from.
addPoseAndTimeDiff(b, pose, dt) ==
  IF sizePoses(b) # sizeTimeDiffs(b)
  THEN [poses |-> Append(b.poses, pose), dts |-> Append(b.dts, dt)] ELSE b

-----------------------------------------------------------------------------
(* Initialisation.  The goal is added last; before it, points half way to    *)
(* the goal until there are enough.                                         *)

Filled(b0, goal, minSamples) ==
  LET Halve(b, k) ==
        LET next == average(BackPose(b), goal)
        IN IF sizePoses(b) < minSamples - 1
           THEN addPoseAndTimeDiff(b, next, estimateDeltaT(BackPose(b), next)) ELSE b
  IN Walk(Halve, b0, minSamples)

WithGoal(b, goal) == addPoseAndTimeDiff(b, goal, estimateDeltaT(BackPose(b), goal))

\* initTrajectoryToGoal(plan)
InitFromPlan(plan, minSamples) ==
  LET Add(b, i) ==
        IF i \in 2..(Len(plan) - 1)
        THEN addPoseAndTimeDiff(b, plan[i], estimateDeltaT(BackPose(b), plan[i])) ELSE b
  IN WithGoal(Filled(Walk(Add, addPose(NoBand, Head(plan)), Len(plan)), Last(plan), minSamples),
              Last(plan))

\* initTrajectoryToGoal(start, goal, diststep): a step that ends on the goal is not taken.
InitToGoal(start, goal, diststep, minSamples) ==
  LET way == Distance(start, goal)
      whole == IF diststep = 0 THEN 0 ELSE way \div diststep
      steps == IF diststep # 0 /\ way % diststep = 0 /\ whole > 0 THEN whole - 1 ELSE whole
      At(i) == IF goal < start THEN start - i * diststep ELSE start + i * diststep
      Add(b, i) == addPoseAndTimeDiff(b, At(i), diststep)
  IN WithGoal(Filled(Walk(Add, addPose(NoBand, start), steps), goal, minSamples), goal)

\* The points half way to the goal when the time that is left is halved with every point.
Bisected(b0, goal, timestep0, minSamples) ==
  LET Halve(p, k) ==
        LET half == p.timestep \div 2
        IN IF sizePoses(p.band) < minSamples - 1
           THEN [band |-> addPoseAndTimeDiff(p.band, average(BackPose(p.band), goal), half), timestep |-> half]
           ELSE p
      end == Walk(Halve, [band |-> b0, timestep |-> timestep0], minSamples)
  IN addPoseAndTimeDiff(end.band, goal, end.timestep)

\* The time of a way at constant acceleration from rest, rounded up; full speed is reached after
\* the time rise.
accelerating(way, rise) == Min({t \in 0..(rise + way) : t * t >= 2 * rise * way})

\* initTrajectoryToGoal(path): the path of a graph search.  A way takes as long as it does at full
\* speed or with full acceleration, whichever is longer; one of no length takes the time standing
\* (a fifth of a second), except the last.
InitFromPath(path, rise, standing, minSamples) ==
  LET timestep(p, q) == Max({Distance(p, q), accelerating(Distance(p, q), rise)})
      Add(b, i) == IF i \in 2..(Len(path) - 1)
                   THEN addPoseAndTimeDiff(b, path[i], IF path[i] = BackPose(b) THEN standing
                                                       ELSE timestep(BackPose(b), path[i])) ELSE b
      b0 == Walk(Add, addPose(NoBand, Head(path)), Len(path))
  IN Bisected(b0, Last(path), timestep(BackPose(b0), Last(path)), minSamples)

-----------------------------------------------------------------------------
(* Pruning and resizing.                                                    *)

\* updateAndPruneTEB: passed poses go, as many as leave minSamples and at most ten, as long as the
\* next one is nearer to the new start; then the ends are replaced.
Lookahead(b, minSamples) == Min({sizePoses(b) - minSamples, 10})
NearestIdx(b, start, minSamples) ==
  LET D(i) == Distance(start, b.poses[i + 1])
      good == {k \in 0..Lookahead(b, minSamples) : \A i \in 1..k : D(i) < D(i - 1)}
  IN IF good = {} THEN 0 ELSE Max(good)

\* Variant: the nearest pose is looked for without regard to the minimum.
PruneFreely(b, start, goal, minSamples) ==
  LET D(i) == Distance(start, b.poses[i + 1])
      k == Max({n \in 0..(sizePoses(b) - 2) : \A i \in 1..n : D(i) < D(i - 1)})
      pruned == [poses |-> <<Head(b.poses)>> \o SubSeq(b.poses, k + 2, sizePoses(b)),
                 dts |-> <<Head(b.dts)>> \o SubSeq(b.dts, k + 2, sizeTimeDiffs(b))]
  IN [pruned EXCEPT !.poses = ReplaceAt(ReplaceAt(@, 1, start), Len(@), goal)]

updateAndPruneTEB(b, start, goal, minSamples) ==
  LET k == NearestIdx(b, start, minSamples)
      pruned == [poses |-> <<Head(b.poses)>> \o SubSeq(b.poses, k + 2, sizePoses(b)),
                 dts |-> <<Head(b.dts)>> \o SubSeq(b.dts, k + 2, sizeTimeDiffs(b))]
  IN [pruned EXCEPT !.poses = ReplaceAt(ReplaceAt(@, 1, start), Len(@), goal)]

\* Variant: the new sample gets the whole time, and so does the old one.
SplitPoses(b, i) ==
  [poses |-> InsertAt(b.poses, i + 1, average(b.poses[i], b.poses[i + 1])),
   dts |-> InsertAt(b.dts, i + 1, b.dts[i] \div 2)]

\* A sample between poses i and i + 1; its two halves of the time.
Split(b, i) ==
  [poses |-> InsertAt(b.poses, i + 1, average(b.poses[i], b.poses[i + 1])),
   dts |-> InsertAt(ReplaceAt(b.dts, i, b.dts[i] \div 2), i + 1, b.dts[i] \div 2)]

\* The time goes to the next interval, or, for the last interval, to the one before; the first and
\* the last pose are never removed.
Merged(b, i) ==
  IF i < sizeTimeDiffs(b)
  THEN [poses |-> RemoveAt(b.poses, i + 1), dts |-> RemoveAt(ReplaceAt(b.dts, i + 1, b.dts[i + 1] + b.dts[i]), i)]
  ELSE [poses |-> RemoveAt(b.poses, i), dts |-> RemoveAt(ReplaceAt(b.dts, i - 1, b.dts[i - 1] + b.dts[i]), i)]

\* One walk along the band, which may grow while it is walked along.
Walked(b0, lim, minSamples, maxSamples) ==
  LET Visit(b, i) ==
        IF i > sizeTimeDiffs(b) THEN b
        ELSE IF b.dts[i] > lim.ref + lim.hysteresis /\ sizeTimeDiffs(b) < maxSamples THEN Split(b, i)
        ELSE IF b.dts[i] < lim.ref - lim.hysteresis /\ sizeTimeDiffs(b) > minSamples THEN Merged(b, i)
        ELSE b
  IN Walk(Visit, b0, sizeTimeDiffs(b0) + maxSamples)

\* autoResize: walks until one changes nothing, at most a hundred of them, and one in fast mode.
autoResize(b0, lim, minSamples, maxSamples, fast) ==
  LET Again(p, rep) ==
        IF ~p.modified THEN p
        ELSE LET next == Walked(p.band, lim, minSamples, maxSamples)
             IN [band |-> next, modified |-> next # p.band]
  IN Walk(Again, [band |-> b0, modified |-> TRUE], IF fast THEN 1 ELSE 100).band

-----------------------------------------------------------------------------
(* What the operations promise.                                             *)

WellFormed(b) == sizePoses(b) = sizeTimeDiffs(b) + 1

\* However the band is initialised it has enough samples, runs from start to goal, and on no way is
\* the robot faster than it can be.
InitSound(b, start, goal, minSamples) ==
  /\ WellFormed(b) /\ sizePoses(b) >= minSamples
  /\ Head(b.poses) = start /\ BackPose(b) = goal
  /\ \A i \in DOMAIN b.dts : b.dts[i] >= Distance(b.poses[i], b.poses[i + 1])

\* On a path's own ways, all but the one to the goal, which may have been bisected, the robot does
\* not accelerate faster than it can either, and no time is zero.
PathSound(b, path, rise) ==
  \A i \in 1..(Len(path) - 2) :
    b.dts[i] > 0 /\ b.dts[i] * b.dts[i] >= 2 * rise * Distance(path[i], path[i + 1])

\* Every time is positive ("Adding a timediff requires a positive dt", timed_elastic_band.cpp:101).
\* Not for a plan that names a pose twice.
TimesPositive(b) == \A i \in DOMAIN b.dts : b.dts[i] > 0

\* Resizing keeps the ends and the time, stays within the limits on the samples, and ends with every
\* interval within the hysteresis unless those limits forbid it.
ResizeSound(b, lim, minSamples, maxSamples) ==
  LET r == autoResize(b, lim, minSamples, maxSamples, FALSE)
  IN /\ WellFormed(r)
     /\ Head(r.poses) = Head(b.poses) /\ BackPose(r) = BackPose(b)
     /\ getSumOfAllTimeDiffs(r) = getSumOfAllTimeDiffs(b)
     /\ sizeTimeDiffs(r) >= Min({minSamples, sizeTimeDiffs(b)})
     /\ sizeTimeDiffs(r) <= Max({maxSamples, sizeTimeDiffs(b)})
     /\ \A i \in DOMAIN r.dts : /\ r.dts[i] <= lim.ref + lim.hysteresis \/ sizeTimeDiffs(r) >= maxSamples
                                /\ r.dts[i] >= lim.ref - lim.hysteresis \/ sizeTimeDiffs(r) <= minSamples
=============================================================================
