--------------------------- MODULE IkdTreeProofs ---------------------------
(***************************************************************************)
(* Proofs about the rebuild protocol of the k-d tree: for every set of     *)
(* points and every number of updates, searches and updates of a part and  *)
(* the copy and the swap of that part exclude one another.                 *)
(***************************************************************************)
EXTENDS IkdTree, TLAPS

\* Where the rebuild thread holds the counter at -1, and where it is between
\* Start and Release.
Stopped == {"flatten", "swap", "resume"}
Holding == {"stop", "flatten", "stopAgain", "swap", "resume", "release"}
Finished == {"idle", "lower", "free"}

\* The counter counts the one search of the LIO thread or the rebuild thread.
CounterCounts ==
    /\ searches = 1 <=> lio = "visitCounted"
    /\ searches = -1 <=> rebuilder \in Stopped

\* Rebuild_Ptr is set while the thread works on the part, until the swap.
PtrWhileRebuilding == rebuilder \notin Finished \cup {"resume", "release"} => rebuildPtr

\* The unlocked path is taken without a rebuild, or once the part is swapped.
DirectIsSafe ==
    (lio \in {"direct", "visit"} \/ (lio = "compare" /\ seen # node))
        => (rebuildPtr => rebuilder \in {"resume", "release"})

\* working_flag_mutex is held by whom it says.
MutexHeld ==
    ~lapse => /\ working = "lio" <=> lio \in {"locked", "log"}
              /\ working = "rebuild" <=> rebuilder \in Holding

\* What waits for or holds that mutex is an update.
LockedIsUpdate == lio \in {"lock", "locked", "log"} => op \in Updates

IInv == TypeOK /\ CounterCounts /\ PtrWhileRebuilding /\ DirectIsSafe /\ MutexHeld /\ LockedIsUpdate

\* Adding a point or deleting a box yields a part again.
LEMMA ApplyTyped ==
    ASSUME NEW p \in [Points -> Nat], NEW o \in Updates
    PROVE  Apply(p, o) \in [Points -> Nat]
<1>1. CASE o.kind = "add"
    BY <1>1 DEF Apply, Updates
<1>2. CASE o.kind # "add"
    BY <1>2 DEF Apply
<1> QED BY <1>1, <1>2

\* Initially everything is idle and free.
LEMMA InitHolds == Init => IInv
<1> SUFFICES ASSUME Init PROVE IInv
    OBVIOUS
<1> USE BoundsAssumption DEF Init, Empty, Stopped, Holding, Finished
<1>1. TypeOK
    <2>1. /\ rebuildPtr \in BOOLEAN /\ rebuildFlag \in BOOLEAN /\ ptrLocked \in BOOLEAN
          /\ oldFreed \in BOOLEAN /\ crashed \in BOOLEAN /\ lapse \in BOOLEAN
        BY Zenon
    <2>2. logger \in Seq(Updates)
        OBVIOUS
    <2>3. Empty \in [Points -> Nat]
        OBVIOUS
    <2> QED BY <2>1, <2>2, <2>3 DEF TypeOK, Search
<1>2. CounterCounts
    BY DEF CounterCounts
<1>3. PtrWhileRebuilding
    BY DEF PtrWhileRebuilding
<1>4. DirectIsSafe
    BY DEF DirectIsSafe
<1>5. MutexHeld
    BY DEF MutexHeld
<1>6. LockedIsUpdate
    BY DEF LockedIsUpdate
<1> QED BY <1>1, <1>2, <1>3, <1>4, <1>5, <1>6 DEF IInv

\* No step of either thread breaks the invariant.
LEMMA StepKeeps == IInv /\ [Next]_vars => IInv'
<1> SUFFICES ASSUME IInv, [Next]_vars PROVE IInv'
    OBVIOUS
<1> USE DEF IInv, TypeOK, CounterCounts, PtrWhileRebuilding, DirectIsSafe, MutexHeld,
    LockedIsUpdate, Stopped, Holding, Finished
<1>search. Search \notin Updates
    BY DEF Search, Updates
<1>0. ASSUME NEW o \in Updates, BeginUpdate(o) PROVE IInv'
    <2>1. TypeOK'
        BY <1>0, BoundsAssumption DEF BeginUpdate, flags, tree, history
    <2>2. CounterCounts'
        BY <1>0, BoundsAssumption DEF BeginUpdate, flags, tree, history
    <2>3. PtrWhileRebuilding'
        BY <1>0, BoundsAssumption DEF BeginUpdate, flags, tree, history
    <2>4. DirectIsSafe'
        BY <1>0, BoundsAssumption DEF BeginUpdate, flags, tree, history
    <2>5. MutexHeld'
        BY <1>0, BoundsAssumption DEF BeginUpdate, flags, tree, history
    <2>6. LockedIsUpdate'
        BY <1>0, BoundsAssumption DEF BeginUpdate, flags, tree, history
    <2> QED BY <2>1, <2>2, <2>3, <2>4, <2>5, <2>6
<1>1. CASE BeginSearch
    BY <1>1 DEF BeginSearch, flags, tree, lioVars, history
<1>2. CASE Check
    BY <1>2 DEF Check, flags, tree, lioVars, history
<1>3. CASE ReadSon
    BY <1>3 DEF ReadSon, flags, tree, lioVars, history
<1>4. CASE Compare
    <2>1. TypeOK'
        <3>1. /\ rebuildPtr' = rebuildPtr /\ rebuildFlag' = rebuildFlag /\ ptrLocked' = ptrLocked
              /\ oldFreed' = oldFreed /\ lapse' = lapse
            BY <1>4 DEF Compare, flags, tree, lioVars, history
        <3>2. crashed' \in BOOLEAN
            <4>1. CASE rebuildPtr
                BY <1>4, <4>1, Zenon DEF Compare, flags, tree, lioVars, history
            <4>2. CASE ~rebuildPtr
                BY <1>4, <4>2, Zenon DEF Compare, flags, tree, lioVars, history
            <4> QED BY <4>1, <4>2
        <3>3. lio' \in {"compare", "direct", "enter", "lock"}
            BY <1>4 DEF Compare, flags, tree, lioVars, history
        <3> QED BY <1>4, <3>1, <3>2, <3>3 DEF Compare, flags, tree, lioVars, history
    <2>2. CounterCounts'
        BY <1>4 DEF Compare, flags, tree, lioVars, history
    <2>3. PtrWhileRebuilding'
        BY <1>4 DEF Compare, flags, tree, lioVars, history
    <2>4. DirectIsSafe'
        BY <1>4 DEF Compare, flags, tree, lioVars, history
    <2>5. MutexHeld'
        BY <1>4 DEF Compare, flags, tree, lioVars, history
    <2>6. LockedIsUpdate'
        BY <1>4 DEF Compare, flags, tree, lioVars, history
    <2> QED BY <2>1, <2>2, <2>3, <2>4, <2>5, <2>6
<1>5. CASE UpdateDirectly
    <2>1. op \in Updates
        BY <1>5 DEF UpdateDirectly
    <2>2. part' \in [Points -> Nat] /\ wanted' \in [Points -> Nat]
        BY <1>5, <2>1, ApplyTyped DEF UpdateDirectly
    <2>3. CASE UNCHANGED <<rebuildPtr, crashed>>
        BY <1>5, <2>1, <2>2, <2>3 DEF UpdateDirectly
    <2>4. CASE ~ptrLocked /\ part' # Empty /\ rebuildPtr' = TRUE /\ crashed' = crashed
        <3>1. /\ rebuildPtr' \in BOOLEAN /\ crashed' \in BOOLEAN
            BY <2>4, Zenon
        <3> QED BY <1>5, <2>1, <2>2, <2>4, <3>1 DEF UpdateDirectly
    <2>5. CASE ResetPtr
        BY <1>5, <2>1, <2>2, <2>5 DEF UpdateDirectly, ResetPtr
    <2> QED BY <1>5, <2>3, <2>4, <2>5 DEF UpdateDirectly
<1>6. CASE LockWorking
    BY <1>6 DEF LockWorking, flags, tree, lioVars, history
<1>7. CASE UpdateLocked
    <2>1. op \in Updates
        BY <1>7 DEF UpdateLocked
    <2>2. part' \in [Points -> Nat] /\ wanted' \in [Points -> Nat]
        BY <1>7, <2>1, ApplyTyped DEF UpdateLocked
    <2>3. CASE UNCHANGED <<rebuildPtr, crashed>>
        BY <1>7, <2>1, <2>2, <2>3 DEF UpdateLocked
    <2>4. CASE ResetPtr
        BY <1>7, <2>1, <2>2, <2>4 DEF UpdateLocked, ResetPtr
    <2> QED BY <1>7, <2>3, <2>4 DEF UpdateLocked
<1>8. CASE LogAndUnlock
    BY <1>8 DEF LogAndUnlock, flags, tree, lioVars, history
<1>9. CASE UpdateFather
    BY <1>9 DEF UpdateFather, flags, tree, lioVars, history
<1>10. CASE Dereference
    BY <1>10 DEF Dereference, flags, tree, lioVars, history
<1>11. CASE SearchDirectly
    BY <1>11 DEF SearchDirectly, flags, tree, lioVars, history
<1>12. CASE EnterSearch
    BY <1>12 DEF EnterSearch, flags, tree, lioVars, history
<1>13. CASE LeaveSearch
    BY <1>13 DEF LeaveSearch, flags, tree, lioVars, history
<1>14. CASE Start
    BY <1>14 DEF Start, flags, tree, lioVars, history
<1>15. CASE StopSearches
    BY <1>15 DEF StopSearches, flags, tree, lioVars, history
<1>16. CASE Flatten
    <2>1. TypeOK'
        BY <1>16 DEF Flatten, flags, tree, lioVars, history
    <2>2. CounterCounts'
        BY <1>16 DEF Flatten, flags, tree, lioVars, history
    <2>3. PtrWhileRebuilding'
        BY <1>16 DEF Flatten, flags, tree, lioVars, history
    <2>4. DirectIsSafe'
        BY <1>16 DEF Flatten, flags, tree, lioVars, history
    <2>5. MutexHeld'
        BY <1>16 DEF Flatten, flags, tree, lioVars, history
    <2>6. LockedIsUpdate'
        BY <1>16 DEF Flatten, flags, tree, lioVars, history
    <2> QED BY <2>1, <2>2, <2>3, <2>4, <2>5, <2>6
<1>17. CASE Replay
    <2>1. Head(logger) \in Updates /\ Tail(logger) \in Seq(Updates)
        BY <1>17 DEF Replay
    <2>2. fresh' \in [Points -> Nat]
        BY <1>17, <2>1, ApplyTyped DEF Replay
    <2> QED BY <1>17, <2>1, <2>2 DEF Replay, lioVars, history
<1>18. CASE EndDrain
    BY <1>18 DEF EndDrain, flags, tree, lioVars, history
<1>19. CASE Swap
    <2>1. TypeOK'
        <3>1. /\ rebuildPtr' \in BOOLEAN /\ rebuildFlag' \in BOOLEAN /\ ptrLocked' \in BOOLEAN
              /\ oldFreed' \in BOOLEAN /\ crashed' \in BOOLEAN /\ lapse' \in BOOLEAN
            BY <1>19, Zenon DEF Swap, flags, tree, lioVars, history
        <3> QED BY <1>19, <3>1 DEF Swap, flags, tree, lioVars, history
    <2>2. CounterCounts'
        BY <1>19 DEF Swap, flags, tree, lioVars, history
    <2>3. PtrWhileRebuilding'
        BY <1>19 DEF Swap, flags, tree, lioVars, history
    <2>4. DirectIsSafe'
        BY <1>19 DEF Swap, flags, tree, lioVars, history
    <2>5. MutexHeld'
        BY <1>19 DEF Swap, flags, tree, lioVars, history
    <2>6. LockedIsUpdate'
        BY <1>19 DEF Swap, flags, tree, lioVars, history
    <2> QED BY <2>1, <2>2, <2>3, <2>4, <2>5, <2>6
<1>20. CASE ResumeSearches
    BY <1>20 DEF ResumeSearches, flags, tree, lioVars, history
<1>21. CASE Release
    <2>1. TypeOK'
        BY <1>21, ZenonT(40) DEF Release, flags, tree, lioVars, history
    <2>2. CounterCounts'
        BY <1>21 DEF Release, flags, tree, lioVars, history
    <2>3. PtrWhileRebuilding'
        BY <1>21 DEF Release, flags, tree, lioVars, history
    <2>4. DirectIsSafe'
        BY <1>21 DEF Release, flags, tree, lioVars, history
    <2>5. MutexHeld'
        BY <1>21 DEF Release, flags, tree, lioVars, history
    <2>6. LockedIsUpdate'
        BY <1>21 DEF Release, flags, tree, lioVars, history
    <2> QED BY <2>1, <2>2, <2>3, <2>4, <2>5, <2>6
<1>22. CASE LowerFlag
    <2>1. TypeOK'
        <3>1. /\ rebuildPtr' \in BOOLEAN /\ rebuildFlag' \in BOOLEAN /\ ptrLocked' \in BOOLEAN
              /\ oldFreed' \in BOOLEAN /\ crashed' \in BOOLEAN /\ lapse' \in BOOLEAN
            BY <1>22, Zenon DEF LowerFlag, flags, tree, lioVars, history
        <3> QED BY <1>22, <3>1 DEF LowerFlag, flags, tree, lioVars, history
    <2>2. CounterCounts'
        BY <1>22 DEF LowerFlag, flags, tree, lioVars, history
    <2>3. PtrWhileRebuilding'
        BY <1>22 DEF LowerFlag, flags, tree, lioVars, history
    <2>4. DirectIsSafe'
        BY <1>22 DEF LowerFlag, flags, tree, lioVars, history
    <2>5. MutexHeld'
        BY <1>22 DEF LowerFlag, flags, tree, lioVars, history
    <2>6. LockedIsUpdate'
        BY <1>22 DEF LowerFlag, flags, tree, lioVars, history
    <2> QED BY <2>1, <2>2, <2>3, <2>4, <2>5, <2>6
<1>23. CASE FreeOld
    <2>1. TypeOK'
        BY <1>23, ZenonT(40) DEF FreeOld, flags, tree, lioVars, history
    <2>2. CounterCounts'
        BY <1>23 DEF FreeOld, flags, tree, lioVars, history
    <2>3. PtrWhileRebuilding'
        BY <1>23 DEF FreeOld, flags, tree, lioVars, history
    <2>4. DirectIsSafe'
        BY <1>23 DEF FreeOld, flags, tree, lioVars, history
    <2>5. MutexHeld'
        BY <1>23 DEF FreeOld, flags, tree, lioVars, history
    <2>6. LockedIsUpdate'
        BY <1>23 DEF FreeOld, flags, tree, lioVars, history
    <2> QED BY <2>1, <2>2, <2>3, <2>4, <2>5, <2>6
<1>24. CASE UNCHANGED vars
    BY <1>24 DEF vars, flags, tree, lioVars, history
<1> QED
    BY <1>0, <1>1, <1>2, <1>3, <1>4, <1>5, <1>6, <1>7, <1>8, <1>9, <1>10, <1>11, <1>12,
       <1>13, <1>14, <1>15, <1>16, <1>17, <1>18, <1>19, <1>20, <1>21, <1>22, <1>23, <1>24
       DEF Next, LioBegins, LioGoesOn, RebuildGoesOn, Dead

\* The invariant holds in every reachable state.
LEMMA Invariant == Spec => []IInv
BY InitHolds, StepKeeps, PTL DEF Spec

----------------------------------------------------------------------------
(* That a rebuild loses no update: the copy, with the log run on it, is    *)
(* the part.  The log is run by a function of its length, not a recursive  *)
(* operator, so that each step of it is a fact of its own.                 *)

Parts == [Points -> Nat]

\* g[i] is what the first i entries of the log l make of the part f; all
\* of them make p.
Leads(g, f, l, p) ==
    /\ g \in [0 .. Len(l) -> Parts]
    /\ g[0] = f /\ g[Len(l)] = p
    /\ \A i \in 1 .. Len(l) : g[i] = Apply(g[i - 1], l[i])

Yields(f, l, p) == \E g : Leads(g, f, l, p)

\* The log, with the update that is performed and not yet logged.
Pending == IF lio = "log" THEN Append(logger, op) ELSE logger

LogComplete ==
    /\ rebuildFlag <=> rebuilder \notin {"idle", "free"}
    /\ ~lapse => /\ part = wanted
                 /\ rebuilder \in {"idle", "stop", "flatten"} => logger = <<>>
                 /\ rebuilder = "drain" => Yields(fresh, Pending, part)
                 /\ rebuilder \in {"stopAgain", "swap"} => fresh = part

\* An empty log leaves the part as it is.
LEMMA YieldsEmpty == ASSUME NEW p \in Parts PROVE Yields(p, <<>>, p)
<1> DEFINE g == [i \in 0 .. 0 |-> p]
<1>1. Leads(g, p, <<>>, p)
    BY DEF Leads
<1> QED BY <1>1 DEF Yields

\* And nothing else comes of it.
LEMMA EmptyYields == ASSUME NEW f, NEW p, Yields(f, <<>>, p) PROVE f = p
BY DEF Yields, Leads

\* One more update, logged at the end, is performed last.
LEMMA YieldsAppend ==
    ASSUME NEW f, NEW l \in Seq(Updates), NEW p \in Parts, NEW o \in Updates, Yields(f, l, p)
    PROVE  Yields(f, Append(l, o), Apply(p, o))
<1>1. PICK g : Leads(g, f, l, p)
    BY DEF Yields
<1> DEFINE n == Len(l)
           m == Append(l, o)
           h == [i \in 0 .. n + 1 |-> IF i = n + 1 THEN Apply(p, o) ELSE g[i]]
<1>2. n \in Nat /\ Len(m) = n + 1 /\ m[n + 1] = o /\ \A i \in 1 .. n : m[i] = l[i]
    OBVIOUS
<1>3. Apply(p, o) \in Parts
    BY ApplyTyped DEF Parts
<1>4. g \in [0 .. n -> Parts] /\ g[0] = f /\ g[n] = p
    BY <1>1 DEF Leads
<1>5. \A i \in 1 .. n : g[i] = Apply(g[i - 1], l[i])
    BY <1>1 DEF Leads
<1> HIDE DEF n, m
<1>6. h \in [0 .. Len(m) -> Parts] /\ h[0] = f /\ h[Len(m)] = Apply(p, o)
    BY <1>2, <1>3, <1>4
<1>7. ASSUME NEW i \in 1 .. Len(m) PROVE h[i] = Apply(h[i - 1], m[i])
    <2>1. CASE i = n + 1
        <3>1. h[i] = Apply(p, o) /\ h[i - 1] = g[n]
            BY <1>2, <2>1
        <3> QED BY <1>2, <1>4, <2>1, <3>1
    <2>2. CASE i # n + 1
        <3>1. i \in 1 .. n /\ i - 1 \in 0 .. n /\ i - 1 # n + 1
            BY <1>2, <2>2
        <3>2. h[i] = g[i] /\ h[i - 1] = g[i - 1]
            BY <1>2, <3>1
        <3> QED BY <1>2, <1>5, <3>1, <3>2
    <2> QED BY <2>1, <2>2
<1>8. Leads(h, f, m, Apply(p, o))
    BY <1>6, <1>7 DEF Leads
<1> QED BY <1>8 DEF Yields, m

\* The first entry can be performed ahead of the others.
LEMMA YieldsTail ==
    ASSUME NEW f, NEW l \in Seq(Updates), l # <<>>, NEW p, Yields(f, l, p)
    PROVE  Yields(Apply(f, Head(l)), Tail(l), p)
<1>1. PICK g : Leads(g, f, l, p)
    BY DEF Yields
<1> DEFINE n == Len(l)
           m == Tail(l)
           h == [i \in 0 .. n - 1 |-> g[i + 1]]
<1>2. n \in Nat /\ n >= 1 /\ Len(m) = n - 1 /\ \A i \in 1 .. n - 1 : m[i] = l[i + 1]
    OBVIOUS
<1>3. l[1] = Head(l)
    OBVIOUS
<1>4. g \in [0 .. n -> Parts] /\ g[0] = f /\ g[n] = p
    BY <1>1 DEF Leads
<1>5. \A i \in 1 .. n : g[i] = Apply(g[i - 1], l[i])
    BY <1>1 DEF Leads
<1> HIDE DEF n, m
<1>6. h[0] = g[1] /\ g[1] = Apply(g[0], l[1])
    <2>1. 1 \in 1 .. n /\ 0 \in 0 .. n - 1 /\ 1 - 1 = 0 /\ 0 + 1 = 1
        BY <1>2
    <2>2. g[1] = Apply(g[1 - 1], l[1])
        BY <1>5, <2>1
    <2> QED BY <2>1, <2>2
<1>7. h \in [0 .. Len(m) -> Parts] /\ h[Len(m)] = p
    BY <1>2, <1>4
<1>8. ASSUME NEW i \in 1 .. Len(m) PROVE h[i] = Apply(h[i - 1], m[i])
    <2>1. i \in 0 .. n - 1 /\ i - 1 \in 0 .. n - 1 /\ i + 1 \in 1 .. n /\ (i + 1) - 1 = i
          /\ (i - 1) + 1 = i
        BY <1>2
    <2>2. h[i] = g[i + 1] /\ h[i - 1] = g[i] /\ m[i] = l[i + 1]
        BY <1>2, <2>1
    <2>3. g[i + 1] = Apply(g[(i + 1) - 1], l[i + 1])
        BY <1>5, <2>1
    <2> QED BY <2>1, <2>2, <2>3
<1>9. Leads(h, Apply(f, Head(l)), m, p)
    BY <1>3, <1>4, <1>6, <1>7, <1>8 DEF Leads
<1> QED BY <1>9 DEF Yields, m

----------------------------------------------------------------------------
\* What the log says of the copy depends on the variables of Pending alone.
LEMMA LogFrame ==
    ASSUME LogComplete, Pending' = Pending,
           UNCHANGED <<fresh, part, wanted, rebuilder, rebuildFlag, logger, lapse>>
    PROVE  LogComplete'
BY DEF LogComplete

\* No step of either thread loses an update of the part under rebuild.
LEMMA LogKeeps == IInv /\ LogComplete /\ [Next]_vars => LogComplete'
<1> SUFFICES ASSUME IInv, LogComplete, [Next]_vars PROVE LogComplete'
    OBVIOUS
<1> USE DEF IInv, TypeOK, CounterCounts, PtrWhileRebuilding, DirectIsSafe, MutexHeld,
    LockedIsUpdate, Stopped, Holding, Finished, LogComplete, Pending
<1>0. ASSUME NEW o \in Updates, BeginUpdate(o) PROVE LogComplete'
    BY <1>0, LogFrame DEF BeginUpdate, flags, tree, history
<1>1. CASE BeginSearch
    BY <1>1, LogFrame DEF BeginSearch, flags, tree, history
<1>2. CASE Check
    BY <1>2, LogFrame DEF Check, flags, tree, history
<1>3. CASE ReadSon
    BY <1>3, LogFrame DEF ReadSon, flags, tree, history
<1>4. CASE Compare
    BY <1>4, LogFrame DEF Compare, flags, tree, history
<1>5. CASE UpdateDirectly
    BY <1>5 DEF UpdateDirectly, flags, tree, lioVars, history
<1>6. CASE LockWorking
    BY <1>6, LogFrame DEF LockWorking, flags, tree, history
<1>7. CASE UpdateLocked
    <2>1. op \in Updates /\ rebuilder' = rebuilder /\ fresh' = fresh /\ lapse' = lapse
          /\ rebuildFlag' = rebuildFlag /\ logger' = logger /\ part' = Apply(part, op)
          /\ wanted' = Apply(wanted, op) /\ Pending' = Append(logger, op)
        BY <1>7 DEF UpdateLocked
    <2>2. ASSUME ~lapse, rebuilder = "drain"
          PROVE  Yields(fresh, Append(logger, op), Apply(part, op))
        <3>1. Yields(fresh, logger, part)
            BY <1>7, <2>2 DEF UpdateLocked
        <3> QED BY <2>1, <3>1, YieldsAppend DEF Parts
    <2>3. ~lapse => rebuilder \notin Holding
        BY <1>7 DEF UpdateLocked
    <2> QED BY <2>1, <2>2, <2>3
<1>8. CASE LogAndUnlock
    BY <1>8 DEF LogAndUnlock, flags, tree, lioVars, history
<1>9. CASE UpdateFather
    BY <1>9, LogFrame DEF UpdateFather, flags, tree, history
<1>10. CASE Dereference
    BY <1>10, LogFrame DEF Dereference, flags, tree, history
<1>11. CASE SearchDirectly
    BY <1>11, LogFrame DEF SearchDirectly, flags, tree, history
<1>12. CASE EnterSearch
    BY <1>12, LogFrame DEF EnterSearch, flags, tree, history
<1>13. CASE LeaveSearch
    BY <1>13, LogFrame DEF LeaveSearch, flags, tree, history
<1>14. CASE Start
    BY <1>14 DEF Start, flags, tree, lioVars, history
<1>15. CASE StopSearches
    BY <1>15 DEF StopSearches, flags, tree, lioVars, history
<1>16. CASE Flatten
    <2>1. ASSUME ~lapse'
          PROVE  rebuilder' = "drain" /\ ~lapse /\ part' = wanted' /\ Yields(fresh', Pending', part')
        <3>1. rebuilder' = "drain" /\ ~lapse
            BY <1>16, <2>1, Zenon DEF Flatten
        <3>2. part' = part /\ fresh' = part /\ wanted' = wanted
            BY <1>16 DEF Flatten
        <3>3. Pending' = <<>>
            BY <1>16, <3>1 DEF Flatten, flags, tree, lioVars, history
        <3>4. Yields(part, <<>>, part)
            BY YieldsEmpty DEF Parts
        <3> QED BY <3>1, <3>2, <3>3, <3>4
    <2>2. rebuildFlag' = rebuildFlag /\ rebuildFlag /\ rebuilder' \in {"drain", "stopAgain"}
        BY <1>16 DEF Flatten, flags
    <2> QED BY <2>1, <2>2
<1>17. CASE Replay
    <2>1. rebuilder = "drain" /\ rebuilder' = rebuilder /\ lapse' = lapse /\ part' = part
          /\ wanted' = wanted /\ rebuildFlag' = rebuildFlag
          /\ fresh' = Apply(fresh, Head(logger)) /\ logger # <<>> /\ logger' = Tail(logger)
        BY <1>17 DEF Replay, history
    <2>2. ASSUME ~lapse PROVE Yields(fresh', Pending', part')
        <3>1. lio # "log" /\ lio' = lio
            BY <1>17, <2>2 DEF Replay, lioVars
        <3>2. Yields(fresh, logger, part)
            BY <2>1, <2>2, <3>1
        <3>3. Yields(Apply(fresh, Head(logger)), Tail(logger), part)
            BY <2>1, <3>2, YieldsTail
        <3>4. Pending' = Tail(logger)
            BY <2>1, <3>1
        <3> QED BY <2>1, <3>3, <3>4
    <2> QED BY <2>1, <2>2
<1>18. CASE EndDrain
    <2>1. ASSUME ~lapse PROVE fresh = part
        <3>1. Pending = <<>> /\ rebuilder = "drain"
            BY <1>18, <2>1 DEF EndDrain
        <3>2. Yields(fresh, <<>>, part)
            BY <2>1, <3>1
        <3> QED BY <3>2, EmptyYields
    <2> QED BY <1>18, <2>1 DEF EndDrain, flags, tree, lioVars, history
<1>19. CASE Swap
    BY <1>19 DEF Swap, flags, tree, lioVars, history
<1>20. CASE ResumeSearches
    BY <1>20 DEF ResumeSearches, flags, tree, lioVars, history
<1>21. CASE Release
    BY <1>21 DEF Release, flags, tree, lioVars, history
<1>22. CASE LowerFlag
    BY <1>22 DEF LowerFlag, flags, tree, lioVars, history
<1>23. CASE FreeOld
    BY <1>23 DEF FreeOld, flags, tree, lioVars, history
<1>24. CASE UNCHANGED vars
    BY <1>24, LogFrame DEF vars
<1> QED
    BY <1>0, <1>1, <1>2, <1>3, <1>4, <1>5, <1>6, <1>7, <1>8, <1>9, <1>10, <1>11, <1>12,
       <1>13, <1>14, <1>15, <1>16, <1>17, <1>18, <1>19, <1>20, <1>21, <1>22, <1>23, <1>24
       DEF Next, LioBegins, LioGoesOn, RebuildGoesOn, Dead

\* Initially nothing is logged and the part is what is wanted.
LEMMA LogInitial == Init => LogComplete
BY DEF Init, LogComplete

\* Every reachable state has its types: the counter never counts below -1,
\* and what is logged and replayed are updates.
THEOREM TypeCorrect == Spec => []TypeOK
<1>1. IInv => TypeOK
    BY DEF IInv
<1> QED BY Invariant, <1>1, PTL

\* No search is inside the part while it is flattened or taken out, for any
\* number of searches: the unlocked reads of Rebuild_Ptr are no gap in it.
THEOREM SearchesAreExcluded == Spec => []SearchesExcluded
<1>1. IInv => SearchesExcluded
    BY DEF IInv, TypeOK, CounterCounts, PtrWhileRebuilding, DirectIsSafe, SearchesExcluded,
       Stopped, Finished
<1> QED BY Invariant, <1>1, PTL

\* Updates of the part and its copy or swap exclude one another as long as no
\* copy was empty.
THEOREM UpdatesAreExcluded == Spec => []UpdatesExcluded
<1>1. IInv => UpdatesExcluded
    BY DEF IInv, TypeOK, MutexHeld, UpdatesExcluded, Holding
<1> QED BY Invariant, <1>1, PTL

\* Searches and updates of the LIO thread keep out of a part that is copied or
\* swapped: both exclusions together.
THEOREM PartIsExclusive == Spec => []PartExclusive
<1>1. SearchesExcluded /\ UpdatesExcluded => PartExclusive
    BY DEF PartExclusive
<1> QED BY SearchesAreExcluded, UpdatesAreExcluded, <1>1, PTL

\* A rebuild loses no update of the part and performs none twice, whatever the
\* LIO thread does meanwhile, unless a copy was empty or an earlier rebuild
\* left entries in the log.
THEOREM PartIsPreserved == Spec => []RebuildPreservesPart
<1>1. LogComplete => RebuildPreservesPart
    BY DEF LogComplete, RebuildPreservesPart
<1> QED BY Invariant, LogInitial, LogKeeps, <1>1, PTL DEF Spec
=============================================================================
