----------------------------- MODULE TebProofs -----------------------------
(***************************************************************************)
(* Proofs about the two halves of teb_local_planner.                        *)
(*                                                                          *)
(* HomotopyClassPlanner, for any signatures, costs and limits: the list of  *)
(* bands and the list of their classes stay in step, the bands are          *)
(* alternatives, and a command comes from the band that was found feasible  *)
(* in the same cycle.                                                       *)
(*                                                                          *)
(* The controller, for any plans, costmaps, messages and limits, with and   *)
(* without the worker of a costmap converter: the plan keeps its goal       *)
(* through every cut, obstacles move as their own messages say, and a       *)
(* command respects the limits in force.                                    *)
(***************************************************************************)
EXTENDS HomotopyPlanner, TebControl, SequenceTheorems, FiniteSetTheorems, WellFoundedInduction,
        TLAPS

Bands == [id : Ids, class : Signatures, cost : Nat, optimized : BOOLEAN]
Entries == [class : Signatures, lock : BOOLEAN]

\* A list of bands, each there once.
Good(bands) ==
  /\ bands \in Seq(Bands)
  /\ \A i, j \in 1 .. Len(bands) : bands[i].id = bands[j].id => i = j

\* The class at a place is the signature of the band at that place.
Paired(bands, classes) ==
  /\ Len(classes) = Len(bands)
  /\ \A i \in 1 .. Len(bands) : classes[i].class = bands[i].class

InClass(bands, c) == {i \in 1 .. Len(bands) : bands[i].class = c}

\* Only the best class has more than one band, and not too many.
Few(bands, best) ==
  \A c \in Classes :
    Cardinality(InClass(bands, c)) > 1 =>
      c = best /\ Cardinality(InClass(bands, c)) <= MaxInBestClass

TypesInv ==
  /\ pc \in {"idle", "renew", "drop", "initial", "explore", "optimize", "select", "diverged",
             "feasible", "command"}
  /\ Good(tebs) /\ Len(tebs) <= MaxClasses
  /\ equivalence_classes \in Seq(Entries)
  /\ {best_teb, last_best_teb, initial_plan_teb} \subseteq Ids \cup {Null}
  /\ {best_teb_eq_class, initial_plan_eq_class} \subseteq Signatures
  /\ lost \in BOOLEAN

\* What the two properties take.
PlannerInv ==
  /\ TypesInv
  /\ ~lost => Paired(tebs, equivalence_classes)
  /\ pc \in {"drop", "initial", "explore", "optimize", "select"} /\ ~lost =>
       Few(tebs, best_teb_eq_class)
  /\ pc = "command" => Holds(tebs, best_teb) /\ checked = best_teb

-----------------------------------------------------------------------------
(* Numbers, folds *)

\* A set of natural numbers has a smallest member.
LEMMA HasSmallest ==
  ASSUME NEW T, T \subseteq Nat, T # {}
  PROVE  \E x \in T : \A y \in T : x <= y
<1>1. \E x \in T : \A y \in T : ~ (<<y, x>> \in OpToRel(<, Nat))
  BY NatLessThanWellFounded, WFMin
<1>2. \A x, y \in T : y < x => <<y, x>> \in OpToRel(<, Nat)
  BY DEF OpToRel
<1>3. \A x, y \in T : ~(y < x) => x <= y
  OBVIOUS
<1> QED BY <1>1, <1>2, <1>3

\* Induction, for a set: what holds of 0 and of the successor of whatever it holds of, holds up
\* to L.
LEMMA UpTo ==
  ASSUME NEW L \in Nat, NEW S, 0 \in S, \A n \in 0 .. L : n \in S /\ n < L => n + 1 \in S
  PROVE  0 .. L \subseteq S
<1>1. SUFFICES ASSUME (0 .. L) \ S # {} PROVE FALSE
  OBVIOUS
<1>2. PICK x \in (0 .. L) \ S : \A y \in (0 .. L) \ S : x <= y
  <2> DEFINE T == (0 .. L) \ S
  <2>1. T \subseteq Nat
    OBVIOUS
  <2> HIDE DEF T
  <2>2. T # {}
    BY <1>1 DEF T
  <2>3. \E x \in T : \A y \in T : x <= y
    BY <2>1, <2>2, HasSmallest
  <2> QED BY <2>3 DEF T
<1>3. x # 0 /\ x - 1 \in 0 .. L /\ x - 1 < L
  BY <1>2
<1>4. x - 1 \in S
  BY <1>2, <1>3
<1> QED BY <1>2, <1>3, <1>4

\* What a loop has done after each of its L turns, when it starts from a.
IsRun(g, L, A, a, turns) ==
  g \in [0 .. L -> A] /\ g[0] = a /\ \A n \in 1 .. L : g[n] = turns[<<n, g[n - 1]>>]

\* A loop has a result after each of its turns.
LEMMA LoopRuns ==
  ASSUME NEW L \in Nat, NEW A, NEW a \in A, NEW turns \in [(1 .. L) \X A -> A]
  PROVE  \E g : IsRun(g, L, A, a, turns)
<1> DEFINE Runs(n) == {g \in [0 .. n -> A] :
                         g[0] = a /\ \A k \in 1 .. n : g[k] = turns[<<k, g[k - 1]>>]}
           S == {n \in 0 .. L : Runs(n) # {}}
<1>1. 0 \in S
  <2>1. [k \in 0 .. 0 |-> a] \in Runs(0)
    OBVIOUS
  <2> QED BY <2>1
<1>2. ASSUME NEW n \in 0 .. L, n \in S, n < L
      PROVE  n + 1 \in S
  <2> SUFFICES Runs(n + 1) # {}
    BY <1>2
  <2>1. PICK g \in Runs(n) : TRUE
    BY <1>2
  <2> DEFINE h == [k \in 0 .. n + 1 |-> IF k <= n THEN g[k] ELSE turns[<<n + 1, g[n]>>]]
  <2>2. g \in [0 .. n -> A] /\ g[n] \in A /\ turns[<<n + 1, g[n]>>] \in A
    BY <1>2, <2>1
  <2>3. h \in [0 .. n + 1 -> A]
    BY <2>2
  <2>4. \A k \in 1 .. n + 1 : h[k] = turns[<<k, h[k - 1]>>]
    <3> TAKE k \in 1 .. n + 1
    <3>1. CASE k <= n
      BY <2>1, <3>1
    <3>2. CASE k = n + 1
      <4>1. k - 1 = n /\ h[n + 1] = turns[<<n + 1, g[n]>>] /\ h[n] = g[n]
        BY <1>2, <3>2
      <4> HIDE DEF h
      <4> QED BY <3>2, <4>1
    <3> QED BY <3>1, <3>2
  <2>5. h[0] = a
    BY <2>1
  <2>6. h \in Runs(n + 1)
    BY <2>3, <2>4, <2>5
  <2> QED BY <2>6
<1> HIDE DEF S
<1>3. 0 .. L \subseteq S
  BY <1>1, <1>2, UpTo
<1>4. L \in S
  BY <1>3
<1> QED BY <1>4 DEF S, IsRun

\* How the loop of renewAndAnalyzeOldTebs ends, if each turn leaves what is in A.
IsKept(kept, bands, best, A) ==
  /\ kept \in [0 .. Len(bands) -> A]
  /\ kept[0] = [bands |-> <<>>, classes |-> <<>>]
  /\ \A n \in 1 .. Len(bands) : kept[n] = Keep(kept[n - 1], bands[n], best)

LEMMA KeptRuns ==
  ASSUME NEW bands \in Seq(Bands), NEW best, NEW A, [bands |-> <<>>, classes |-> <<>>] \in A,
         \A acc \in A : \A i \in 1 .. Len(bands) : Keep(acc, bands[i], best) \in A
  PROVE  \E kept : IsKept(kept, bands, best, A) /\ Kept(bands, best) = kept[Len(bands)]
<1> DEFINE turns == [p \in (1 .. Len(bands)) \X A |-> Keep(p[2], bands[p[1]], best)]
           IsLoop(g) == g = [n \in 0 .. Len(bands) |->
                               IF n = 0 THEN [bands |-> <<>>, classes |-> <<>>]
                               ELSE Keep(g[n - 1], bands[n], best)]
           kept == CHOOSE g : IsLoop(g)
<1>1. Kept(bands, best) = kept[Len(bands)]
  BY DEF Kept
<1>2. Len(bands) \in Nat /\ turns \in [(1 .. Len(bands)) \X A -> A]
  OBVIOUS
<1> DEFINE none == [bands |-> <<>>, classes |-> <<>>]
<1> HIDE DEF turns, none
<1>3. none \in A
  BY DEF none
<1>4. PICK g : IsRun(g, Len(bands), A, none, turns)
  BY <1>2, <1>3, LoopRuns
<1>5. \A n \in 1 .. Len(bands) : g[n - 1] \in A /\ g[n] = Keep(g[n - 1], bands[n], best)
  <2>1. \A n \in 1 .. Len(bands) : n - 1 \in 0 .. Len(bands)
    BY <1>2
  <2>2. \A n \in 1 .. Len(bands) : g[n - 1] \in A
    BY <1>4, <2>1 DEF IsRun
  <2>3. \A n \in 1 .. Len(bands), acc \in A : turns[<<n, acc>>] = Keep(acc, bands[n], best)
    BY DEF turns
  <2> QED BY <1>4, <2>2, <2>3 DEF IsRun
<1>6. IsLoop(kept)
  <2>1. IsLoop(g)
    BY <1>2, <1>4, <1>5 DEF none, IsRun
  <2> HIDE DEF IsLoop
  <2> QED BY <2>1
<1> HIDE DEF kept
<1>7. kept[0] = none /\ \A n \in 1 .. Len(bands) : kept[n] = Keep(kept[n - 1], bands[n], best)
  BY <1>2, <1>6 DEF none
<1> DEFINE S == {n \in 0 .. Len(bands) : kept[n] = g[n]}
<1>8. 0 \in S /\ \A n \in 0 .. Len(bands) : n \in S /\ n < Len(bands) => n + 1 \in S
  <2>1. \A n \in 0 .. Len(bands) : n < Len(bands) =>
          n + 1 \in 1 .. Len(bands) /\ (n + 1) - 1 = n
    BY <1>2
  <2> QED BY <1>2, <1>4, <1>5, <1>7, <2>1 DEF IsRun
<1> HIDE DEF S
<1>9. 0 .. Len(bands) \subseteq S
  BY <1>2, <1>8, UpTo
<1>10. kept = g
  BY <1>4, <1>6, <1>9 DEF S, IsRun
<1> HIDE DEF IsLoop
<1>11. IsKept(kept, bands, best, A)
  BY <1>4, <1>5, <1>10 DEF none, IsRun, IsKept
<1> QED BY <1>1, <1>11

\* How the loop of deletePlansDetouringBackwards ends, if each turn leaves what is in A.
LEMMA DetouredRuns ==
  ASSUME NEW A, NEW kept \in A, kept.bands \in Seq(Bands), NEW detours,
         \A acc \in A : \A i \in 1 .. Len(kept.bands) : Detour(acc, kept.bands[i], detours) \in A
  PROVE  Detoured(kept, detours) \in A
<1> DEFINE L == Len(kept.bands)
           turns == [p \in (1 .. L) \X A |-> Detour(p[2], kept.bands[p[1]], detours)]
           IsLoop(g) == g = [n \in 0 .. L |->
                               IF n = 0 THEN kept ELSE Detour(g[n - 1], kept.bands[n], detours)]
           left == CHOOSE g : IsLoop(g)
<1>1. Detoured(kept, detours) = left[L]
  BY DEF Detoured
<1>2. L \in Nat /\ turns \in [(1 .. L) \X A -> A]
  OBVIOUS
<1> HIDE DEF turns, L
<1>3. PICK g : IsRun(g, L, A, kept, turns)
  BY <1>2, LoopRuns
<1>4. \A n \in 1 .. L : g[n - 1] \in A /\ g[n] = Detour(g[n - 1], kept.bands[n], detours)
  <2>1. \A n \in 1 .. L : n - 1 \in 0 .. L
    BY <1>2
  <2>2. \A n \in 1 .. L : g[n - 1] \in A
    BY <1>3, <2>1 DEF IsRun
  <2>3. \A n \in 1 .. L, acc \in A : turns[<<n, acc>>] = Detour(acc, kept.bands[n], detours)
    BY DEF turns
  <2> QED BY <1>3, <2>2, <2>3 DEF IsRun
<1>5. IsLoop(left)
  <2>1. IsLoop(g)
    BY <1>2, <1>3, <1>4 DEF IsRun
  <2> HIDE DEF IsLoop
  <2> QED BY <2>1
<1> HIDE DEF left
<1>6. left[0] = kept /\ \A n \in 1 .. L : left[n] = Detour(left[n - 1], kept.bands[n], detours)
  BY <1>2, <1>5
<1> DEFINE S == {n \in 0 .. L : left[n] = g[n]}
<1>7. 0 \in S /\ \A n \in 0 .. L : n \in S /\ n < L => n + 1 \in S
  <2>1. \A n \in 0 .. L : n < L => n + 1 \in 1 .. L /\ (n + 1) - 1 = n
    BY <1>2
  <2> QED BY <1>2, <1>3, <1>4, <1>6, <2>1 DEF IsRun
<1> HIDE DEF S
<1>8. 0 .. L \subseteq S
  BY <1>2, <1>7, UpTo
<1>9. L \in 0 .. L
  BY <1>2
<1> QED BY <1>1, <1>3, <1>8, <1>9 DEF S, IsRun

-----------------------------------------------------------------------------
(* What leaves bands and what adds one *)

\* The members of t are members of s, each from a place of its own.
Picks(t, s, f) ==
  /\ f \in [1 .. Len(t) -> 1 .. Len(s)]
  /\ \A i, j \in 1 .. Len(t) : f[i] = f[j] => i = j
  /\ \A i \in 1 .. Len(t) : t[i] = s[f[i]]

\* Alternatives stay alternatives when some are left out (Good, Few).
LEMMA PicksAreGood ==
  ASSUME NEW s, Good(s), NEW t \in Seq(Bands), NEW f, Picks(t, s, f)
  PROVE  /\ Good(t) /\ Len(t) <= Len(s)
         /\ \A best : Few(s, best) => Few(t, best)
<1>1. Len(s) \in Nat /\ Len(t) \in Nat /\ \A i \in 1 .. Len(s) : s[i] \in Bands
  BY DEF Good
<1>2. Good(t)
  <2> SUFFICES ASSUME NEW i \in 1 .. Len(t), NEW j \in 1 .. Len(t), t[i].id = t[j].id
               PROVE  i = j
    BY DEF Good
  <2>1. f[i] \in 1 .. Len(s) /\ f[j] \in 1 .. Len(s) /\ t[i] = s[f[i]] /\ t[j] = s[f[j]]
    BY DEF Picks
  <2>2. s[f[i]].id = s[f[j]].id
    BY <2>1
  <2>3. f[i] = f[j]
    BY <2>1, <2>2 DEF Good
  <2> QED BY <2>3 DEF Picks
<1>3. ASSUME NEW S, NEW T \in SUBSET (1 .. Len(t)), S \subseteq 1 .. Len(s), \A i \in T : f[i] \in S
      PROVE  /\ IsFiniteSet(S) /\ IsFiniteSet(T) /\ Cardinality(T) <= Cardinality(S)
             /\ Cardinality(S) \in Nat /\ Cardinality(T) \in Nat
  <2> DEFINE h == [i \in T |-> f[i]]
  <2>1. h \in [T -> S] /\ \A i, j \in T : h[i] = h[j] => i = j
    BY <1>3 DEF Picks
  <2>2. h \in Injection(T, S)
    BY <2>1 DEF Injection, IsInjective
  <2>3. IsFiniteSet(1 .. Len(s)) /\ IsFiniteSet(1 .. Len(t))
    BY <1>1, FS_Interval
  <2>4. IsFiniteSet(S) /\ IsFiniteSet(T)
    BY <1>3, <2>3, FS_Subset
  <2> HIDE DEF h
  <2> QED BY <2>2, <2>4, FS_Injection, FS_CardinalityType
<1>4. Len(t) <= Len(s)
  <2>1. \A i \in 1 .. Len(t) : f[i] \in 1 .. Len(s)
    BY DEF Picks
  <2>2. Cardinality(1 .. Len(t)) <= Cardinality(1 .. Len(s))
    BY <1>3, <2>1
  <2>3. \A n \in Nat : Cardinality(1 .. n) = n
    BY FS_Interval
  <2> QED BY <1>1, <2>2, <2>3
<1>5. ASSUME NEW best, Few(s, best), NEW c \in Classes, Cardinality(InClass(t, c)) > 1
      PROVE  c = best /\ Cardinality(InClass(t, c)) <= MaxInBestClass
  <2>1. /\ InClass(t, c) \in SUBSET (1 .. Len(t)) /\ InClass(s, c) \subseteq 1 .. Len(s)
        /\ \A i \in InClass(t, c) : f[i] \in InClass(s, c)
    BY DEF InClass, Picks
  <2>2. /\ Cardinality(InClass(t, c)) <= Cardinality(InClass(s, c))
        /\ Cardinality(InClass(s, c)) \in Nat /\ Cardinality(InClass(t, c)) \in Nat
    BY <1>3, <2>1
  <2>3. c = best /\ Cardinality(InClass(s, c)) <= MaxInBestClass
    BY <1>5, <2>2 DEF Few
  <2> QED BY <2>2, <2>3, PlannerAssumption
<1> QED BY <1>2, <1>4, <1>5 DEF Few

\* The place an entry of Without(s, i) comes from.
Skips(n, i) == [j \in 1 .. n |-> IF j < i THEN j ELSE j + 1]

\* Without(s, i) has the other entries, in their order.
LEMMA WithoutIs ==
  ASSUME NEW X, NEW s \in Seq(X), NEW i \in 1 .. Len(s)
  PROVE  /\ Without(s, i) \in Seq(X) /\ Len(Without(s, i)) = Len(s) - 1
         /\ Picks(Without(s, i), s, Skips(Len(s) - 1, i))
<1> DEFINE l == SubSeq(s, 1, i - 1)
           r == SubSeq(s, i + 1, Len(s))
<1>1. Len(s) \in Nat /\ \A j \in 1 .. Len(s) : s[j] \in X
  OBVIOUS
<1>2. l \in Seq(X) /\ Len(l) = i - 1 /\ \A j \in 1 .. i - 1 : l[j] = s[j]
  BY <1>1, SubSeqProperties
<1>3. r \in Seq(X) /\ Len(r) = Len(s) - i /\ \A j \in 1 .. Len(s) - i : r[j] = s[i + j]
  BY <1>1, SubSeqProperties
<1> HIDE DEF l, r
<1>4. Without(s, i) = l \o r
  BY DEF Without, l, r
<1>5. /\ l \o r \in Seq(X) /\ Len(l \o r) = Len(s) - 1
      /\ \A j \in 1 .. Len(s) - 1 : (l \o r)[j] = IF j < i THEN l[j] ELSE r[j - (i - 1)]
  <2>1. /\ l \o r \in Seq(X) /\ Len(l \o r) = Len(l) + Len(r)
        /\ \A j \in 1 .. Len(l) + Len(r) :
             (l \o r)[j] = IF j <= Len(l) THEN l[j] ELSE r[j - Len(l)]
    BY <1>2, <1>3, ConcatProperties
  <2> QED BY <1>1, <1>2, <1>3, <2>1
<1>6. \A j \in 1 .. Len(s) - 1 : (l \o r)[j] = s[Skips(Len(s) - 1, i)[j]]
  BY <1>1, <1>2, <1>3, <1>5 DEF Skips
<1>7. /\ Skips(Len(s) - 1, i) \in [1 .. Len(s) - 1 -> 1 .. Len(s)]
      /\ \A j, k \in 1 .. Len(s) - 1 : Skips(Len(s) - 1, i)[j] = Skips(Len(s) - 1, i)[k] => j = k
  BY <1>1 DEF Skips
<1> QED BY <1>4, <1>5, <1>6, <1>7 DEF Picks

\* removeTeb leaves the other bands with the classes they had.
LEMMA RemovedIs ==
  ASSUME NEW bands, Good(bands), NEW classes \in Seq(Entries), NEW id
  PROVE  LET left == Removed(bands, classes, id)
         IN  /\ Good(left.bands) /\ Len(left.bands) <= Len(bands)
             /\ left.classes \in Seq(Entries)
             /\ Paired(bands, classes) => Paired(left.bands, left.classes)
             /\ \A best : Few(bands, best) => Few(left.bands, best)
<1> DEFINE left == Removed(bands, classes, id)
           i == CHOOSE k \in DOMAIN bands : bands[k].id = id
<1>1. bands \in Seq(Bands) /\ DOMAIN bands = 1 .. Len(bands) /\ Len(bands) \in Nat
  BY DEF Good
<1>2. CASE Len(bands) # Len(classes) \/ ~Holds(bands, id)
  <2>1. left.bands = bands /\ left.classes = classes
    BY <1>2 DEF Removed
  <2> QED BY <1>1, <2>1 DEF Good
<1>3. CASE Len(bands) = Len(classes) /\ Holds(bands, id)
  <2>1. left.bands = Without(bands, i) /\ left.classes = Without(classes, i)
    BY <1>3 DEF Removed
  <2>2. i \in 1 .. Len(bands)
    BY <1>1, <1>3 DEF Holds, Range
  <2> HIDE DEF i
  <2>3. /\ left.bands \in Seq(Bands) /\ Len(left.bands) = Len(bands) - 1
        /\ Picks(left.bands, bands, Skips(Len(bands) - 1, i))
    <3> HIDE DEF left
    <3> QED BY <1>1, <2>1, <2>2, WithoutIs
  <2>4. /\ left.classes \in Seq(Entries) /\ Len(left.classes) = Len(bands) - 1
        /\ Picks(left.classes, classes, Skips(Len(bands) - 1, i))
    <3> HIDE DEF left
    <3> QED BY <1>1, <1>3, <2>1, <2>2, WithoutIs
  <2>5. Paired(bands, classes) => Paired(left.bands, left.classes)
    <3> SUFFICES ASSUME Paired(bands, classes) PROVE Paired(left.bands, left.classes)
      OBVIOUS
    <3> HIDE DEF left
    <3>1. \A j \in 1 .. Len(bands) - 1 :
            left.bands[j].class = bands[Skips(Len(bands) - 1, i)[j]].class
              /\ left.classes[j].class = classes[Skips(Len(bands) - 1, i)[j]].class
              /\ Skips(Len(bands) - 1, i)[j] \in 1 .. Len(bands)
      BY <1>3, <2>3, <2>4 DEF Picks
    <3> QED BY <2>3, <2>4, <3>1 DEF Paired
  <2>6. /\ Good(left.bands) /\ Len(left.bands) <= Len(bands)
        /\ \A best : Few(bands, best) => Few(left.bands, best)
    <3> HIDE DEF left
    <3> QED BY <2>3, PicksAreGood
  <2> QED BY <2>4, <2>5, <2>6
<1> QED BY <1>2, <1>3

\* numTebsInClass counts the bands of a class, when the lists are in step.
LEMMA NumTebsIs ==
  ASSUME NEW bands, NEW classes \in Seq(Entries), Paired(bands, classes), NEW c, c # Invalid
  PROVE  numTebsInClass(classes, c) = Cardinality(InClass(bands, c))
<1>1. DOMAIN classes = 1 .. Len(bands)
  BY DEF Paired
<1>2. \A i \in 1 .. Len(bands) : classes[i].class = bands[i].class
  BY DEF Paired
<1>3. {i \in DOMAIN classes : isEqual(c, ClassAt(classes, i))} = InClass(bands, c)
  BY <1>1, <1>2 DEF InClass, isEqual, ClassAt
<1> QED BY <1>3 DEF numTebsInClass

\* A band is added with its class if addEquivalenceClassIfNew takes the class.
LEMMA AddedIs ==
  ASSUME NEW bands, Good(bands), NEW classes \in Seq(Entries), NEW b \in Bands, NEW e \in Entries,
         \A i \in 1 .. Len(bands) : bands[i].id # b.id
  PROVE  /\ Good(Append(bands, b)) /\ Len(Append(bands, b)) = Len(bands) + 1
         /\ Append(classes, e) \in Seq(Entries)
         /\ Paired(bands, classes) /\ e.class = b.class =>
              Paired(Append(bands, b), Append(classes, e))
         /\ \A best :
              Paired(bands, classes) /\ Few(bands, best) /\ AddsClass(classes, b.class, best)
              => Few(Append(bands, b), best)
<1> DEFINE longer == Append(bands, b)
           listed == Append(classes, e)
<1>1. bands \in Seq(Bands) /\ Len(bands) \in Nat
  BY DEF Good
<1>2. /\ longer \in Seq(Bands) /\ Len(longer) = Len(bands) + 1
      /\ \A i \in 1 .. Len(bands) : longer[i] = bands[i]
      /\ longer[Len(bands) + 1] = b
  BY <1>1, AppendProperties
<1>3. /\ listed \in Seq(Entries) /\ Len(listed) = Len(classes) + 1
      /\ \A i \in 1 .. Len(classes) : listed[i] = classes[i]
      /\ listed[Len(classes) + 1] = e
  BY AppendProperties
<1> HIDE DEF longer, listed
<1>4. \A i \in 1 .. Len(bands) + 1 : i \in 1 .. Len(bands) \/ i = Len(bands) + 1
  BY <1>1
<1>5. Good(longer)
  <2>1. ASSUME NEW i \in 1 .. Len(bands) + 1, NEW j \in 1 .. Len(bands) + 1,
               longer[i].id = longer[j].id
        PROVE  i = j
    BY <1>2, <1>4, <2>1 DEF Good
  <2> QED BY <1>2, <2>1 DEF Good
<1>6. ASSUME Paired(bands, classes), e.class = b.class
      PROVE  Paired(longer, listed)
  BY <1>2, <1>3, <1>4, <1>6 DEF Paired
<1>7. ASSUME NEW best, Paired(bands, classes), Few(bands, best), AddsClass(classes, b.class, best),
             NEW c \in Classes, Cardinality(InClass(longer, c)) > 1
      PROVE  c = best /\ Cardinality(InClass(longer, c)) <= MaxInBestClass
  <2>1. b.class # Invalid /\ c # Invalid
    BY <1>7, PlannerAssumption DEF AddsClass
  <2>2. IsFiniteSet(InClass(bands, c)) /\ Cardinality(InClass(bands, c)) \in Nat
    <3>1. InClass(bands, c) \in SUBSET (1 .. Len(bands)) /\ IsFiniteSet(1 .. Len(bands))
      BY <1>1, FS_Interval DEF InClass
    <3> QED BY <3>1, FS_Subset, FS_CardinalityType
  <2>3. CASE c # b.class
    <3>1. InClass(longer, c) = InClass(bands, c)
      BY <1>1, <1>2, <1>4, <2>3 DEF InClass
    <3> QED BY <1>7, <3>1 DEF Few
  <2>4. CASE c = b.class
    <3>1. InClass(longer, c) = InClass(bands, c) \cup {Len(bands) + 1}
      BY <1>1, <1>2, <1>4, <2>4 DEF InClass
    <3>2. Len(bands) + 1 \notin InClass(bands, c)
      BY <1>1 DEF InClass
    <3>3. Cardinality(InClass(longer, c)) = Cardinality(InClass(bands, c)) + 1
      BY <2>2, <3>1, <3>2, FS_AddElement
    <3>4. numTebsInClass(classes, c) = Cardinality(InClass(bands, c))
      BY <1>7, <2>1, NumTebsIs
    <3>5. hasEquivalenceClass(classes, c)
      BY <1>7, <2>2, <3>3, <3>4 DEF hasEquivalenceClass
    <3>6. c = best /\ numTebsInClass(classes, c) < MaxInBestClass
      BY <1>7, <2>4, <3>5 DEF AddsClass, isEqual
    <3> QED BY <2>2, <3>3, <3>4, <3>6, PlannerAssumption
  <2> QED BY <2>3, <2>4
<1>8. \A best : Paired(bands, classes) /\ Few(bands, best) /\ AddsClass(classes, b.class, best)
        => Few(longer, best)
  BY <1>7 DEF Few
<1> QED BY <1>2, <1>3, <1>5, <1>6, <1>8 DEF longer, listed

\* There is always a name for one more band.
LEMMA NewBandIs ==
  ASSUME TypesInv, Len(tebs) < MaxClasses, NEW c \in Signatures
  PROVE  /\ NewBand(c) \in Bands /\ NewBand(c).class = c
         /\ \A i \in 1 .. Len(tebs) : tebs[i].id # NewBand(c).id
<1> DEFINE used == {b.id : b \in Range(tebs)} \cup {best_teb, last_best_teb, initial_plan_teb}
           free == Ids \ used
           Held(x) == {i \in 1 .. Len(tebs) : tebs[i].id = x}
           place == [x \in Ids |-> IF Held(x) # {} THEN CHOOSE i \in Held(x) : TRUE
                                   ELSE IF x = best_teb THEN Len(tebs) + 1
                                   ELSE IF x = last_best_teb THEN Len(tebs) + 2 ELSE Len(tebs) + 3]
<1>1. tebs \in Seq(Bands) /\ Len(tebs) \in Nat /\ MaxClasses \in Nat /\ DOMAIN tebs = 1 .. Len(tebs)
  BY PlannerAssumption DEF TypesInv, Good
<1>2. free # {}
  <2>1. SUFFICES ASSUME Ids \subseteq used PROVE FALSE
    OBVIOUS
  <2>2. \A x \in Ids : Held(x) # {} \/ x \in {best_teb, last_best_teb, initial_plan_teb}
    BY <1>1, <2>1 DEF Range
  <2>3. \A x \in Ids : Held(x) # {} => place[x] \in 1 .. Len(tebs) /\ tebs[place[x]].id = x
    OBVIOUS
  <2>4. \A x \in Ids : Held(x) = {} =>
          \/ x = best_teb /\ place[x] = Len(tebs) + 1
          \/ x = last_best_teb /\ place[x] = Len(tebs) + 2
          \/ x = initial_plan_teb /\ place[x] = Len(tebs) + 3
    BY <2>2
  <2> HIDE DEF place
  <2>5. place \in [Ids -> 1 .. Len(tebs) + 3]
    <3>1. \A x \in Ids : place[x] \in 1 .. Len(tebs) + 3
      BY <1>1, <2>3, <2>4
    <3> QED BY <3>1 DEF place
  <2>6. \A x, y \in Ids : place[x] = place[y] => x = y
    BY <1>1, <2>3, <2>4
  <2>7. /\ IsFiniteSet(Ids) /\ IsFiniteSet(1 .. Len(tebs) + 3)
        /\ Cardinality(1 .. Len(tebs) + 3) < Cardinality(Ids)
    <3>1. \A n \in Nat : IsFiniteSet(1 .. n) /\ Cardinality(1 .. n) = n
      BY FS_Interval
    <3> QED BY <1>1, <3>1 DEF Ids
  <2> QED BY <2>5, <2>6, <2>7, FS_PigeonHole
<1>3. free \subseteq Nat
  BY DEF Ids
<1> DEFINE i == CHOOSE j \in free : \A k \in free : j <= k
<1>4. i \in free
  <2> HIDE DEF free
  <2> QED BY <1>2, <1>3, HasSmallest
<1>5. NewBand(c) = [id |-> i, class |-> c, cost |-> HugeVal, optimized |-> FALSE]
  BY DEF NewBand
<1> HIDE DEF i
<1>6. i \in Ids /\ \A j \in 1 .. Len(tebs) : tebs[j].id # i
  BY <1>1, <1>4 DEF Range
<1> QED BY <1>5, <1>6 DEF Bands, HugeVal

-----------------------------------------------------------------------------
(* renewAndAnalyzeOldTebs *)

\* Resigned keeps the bands, each there once, and puts the best one first.
LEMMA ResignedIs ==
  ASSUME Good(tebs), NEW sig \in [DOMAIN tebs -> Signatures]
  PROVE  /\ Good(Resigned(sig)) /\ Len(Resigned(sig)) = Len(tebs)
         /\ \A i \in 1 .. Len(tebs) : Resigned(sig)[i].id = best_teb => i = 1
<1> DEFINE L == Len(tebs)
           signed == [i \in DOMAIN tebs |-> [tebs[i] EXCEPT !.class = sig[i]]]
           same == {i \in 1 .. L : tebs[i].id = best_teb}
           k == SelectInSeq(tebs, LAMBDA b : b.id = best_teb)
           bands == Resigned(sig)
<1>1. tebs \in Seq(Bands) /\ L \in Nat /\ DOMAIN tebs = 1 .. L
  BY DEF Good
<1>2. \A i \in 1 .. L : signed[i] \in Bands /\ signed[i].id = tebs[i].id
  <2> TAKE i \in 1 .. L
  <2>1. tebs[i] \in Bands /\ sig[i] \in Signatures /\ signed[i] = [tebs[i] EXCEPT !.class = sig[i]]
    BY <1>1
  <2> HIDE DEF signed
  <2> QED BY <2>1 DEF Bands
<1>3. signed \in Seq(Bands) /\ Len(signed) = L /\ DOMAIN signed = 1 .. L
  BY <1>1, <1>2
<1>4. \A i, j \in 1 .. L : signed[i].id = signed[j].id => i = j
  BY <1>2 DEF Good
<1>5. same = {} => k = 0
  BY DEF SelectInSeq
<1>6. same # {} => k \in same
  <2> SUFFICES ASSUME same # {} PROVE k \in same
    OBVIOUS
  <2> DEFINE first == CHOOSE i \in same : \A j \in same : i <= j
  <2>1. k = first
    BY DEF SelectInSeq, Min
  <2>2. same \subseteq Nat
    BY <1>1
  <2> HIDE DEF same, k
  <2>3. first \in same
    BY <2>2, HasSmallest
  <2> QED BY <2>1, <2>3
<1>7. bands = IF k = 0 THEN signed ELSE [signed EXCEPT ![1] = signed[k], ![k] = signed[1]]
  BY DEF Resigned
<1> HIDE DEF signed, k, bands
<1>8. CASE same = {}
  <2>1. bands = signed
    BY <1>5, <1>7, <1>8
  <2>2. \A i \in 1 .. L : signed[i].id # best_teb
    BY <1>2, <1>8
  <2>3. Good(bands)
    BY <1>3, <1>4, <2>1 DEF Good
  <2> QED BY <1>3, <2>1, <2>2, <2>3 DEF bands
<1>9. CASE same # {}
  <2>1. k \in 1 .. L /\ tebs[k].id = best_teb /\ k # 0 /\ 1 \in 1 .. L
    BY <1>1, <1>6, <1>9
  <2>2. bands = [signed EXCEPT ![1] = signed[k], ![k] = signed[1]]
    BY <1>7, <2>1
  <2>3. \A i \in 1 .. L :
          bands[i] = IF i = k THEN signed[1] ELSE IF i = 1 THEN signed[k] ELSE signed[i]
    BY <1>3, <2>1, <2>2
  <2>4. bands \in Seq(Bands) /\ Len(bands) = L
    BY <1>1, <1>2, <1>3, <2>1, <2>2
  <2>5. \A i, j \in 1 .. L : bands[i].id = bands[j].id => i = j
    BY <1>4, <2>1, <2>3
  <2>6. bands[1].id = best_teb
    BY <1>2, <2>1, <2>3
  <2>7. Good(bands)
    BY <2>4, <2>5 DEF Good
  <2> QED BY <2>1, <2>4, <2>5, <2>6, <2>7 DEF bands
<1> QED BY <1>8, <1>9

\* What its loops work on.
Results == [bands : Seq(Bands), classes : Seq(Entries)]

\* What the loop of renewAndAnalyzeOldTebs has kept after n turns; sound is FALSE if the best band
\* has no class.
KeptInv(acc, n, bands, best, sound) ==
  /\ Good(acc.bands) /\ Len(acc.bands) <= n /\ acc.classes \in Seq(Entries)
  /\ \A i \in 1 .. Len(acc.bands) : \E j \in 1 .. n : acc.bands[i] = bands[j]
  /\ sound => Paired(acc.bands, acc.classes) /\ Few(acc.bands, best)

LEMMA KeepStep ==
  ASSUME NEW bands, Good(bands), NEW best \in Signatures, NEW sound \in BOOLEAN,
         \A i \in 1 .. Len(bands) :
           bands[i].id = best_teb => i = 1 /\ best = bands[1].class /\ (sound => best # Invalid),
         NEW n \in 0 .. Len(bands), n < Len(bands), NEW acc, KeptInv(acc, n, bands, best, sound)
  PROVE  KeptInv(Keep(acc, bands[n + 1], best), n + 1, bands, best, sound)
<1> DEFINE b == bands[n + 1]
           e == [class |-> b.class, lock |-> FALSE]
           new == AddsClass(acc.classes, b.class, best)
           next == Keep(acc, b, best)
<1>1. /\ bands \in Seq(Bands) /\ Len(bands) \in Nat /\ n + 1 \in 1 .. Len(bands) /\ n \in Nat
      /\ b \in Bands /\ b.class \in Signatures /\ e \in Entries /\ e.class = b.class
  <2>1. bands \in Seq(Bands) /\ Len(bands) \in Nat /\ n + 1 \in 1 .. Len(bands) /\ n \in Nat
    BY DEF Good
  <2>2. b \in Bands
    BY <2>1
  <2> HIDE DEF b
  <2>3. b.class \in Signatures
    BY <2>2 DEF Bands
  <2> QED BY <2>1, <2>2, <2>3 DEF Entries
<1>2. \A i \in 1 .. Len(acc.bands) : acc.bands[i].id # b.id
  <2> TAKE i \in 1 .. Len(acc.bands)
  <2>1. PICK j \in 1 .. n : acc.bands[i] = bands[j]
    BY DEF KeptInv
  <2>2. j \in 1 .. Len(bands) /\ j # n + 1
    BY <1>1
  <2> QED BY <1>1, <2>1, <2>2 DEF Good
<1>3. /\ Good(acc.bands) /\ acc.bands \in Seq(Bands) /\ Len(acc.bands) \in Nat
      /\ Len(acc.bands) <= n /\ acc.classes \in Seq(Entries)
      /\ sound => Paired(acc.bands, acc.classes) /\ Few(acc.bands, best)
  BY DEF KeptInv, Good
<1>4. /\ next.bands = IF new \/ b.id = best_teb THEN Append(acc.bands, b) ELSE acc.bands
      /\ next.classes = IF new THEN Append(acc.classes, e) ELSE acc.classes
  BY DEF Keep
<1> HIDE DEF b, e, new, next
<1>5. /\ Good(Append(acc.bands, b)) /\ Len(Append(acc.bands, b)) = Len(acc.bands) + 1
      /\ Append(acc.classes, e) \in Seq(Entries)
      /\ sound => Paired(Append(acc.bands, b), Append(acc.classes, e))
      /\ sound /\ new => Few(Append(acc.bands, b), best)
  BY <1>1, <1>2, <1>3, AddedIs DEF new
<1>6. \A i \in 1 .. Len(acc.bands) + 1 : \E j \in 1 .. n + 1 : Append(acc.bands, b)[i] = bands[j]
  <2> TAKE i \in 1 .. Len(acc.bands) + 1
  <2>1. CASE i \in 1 .. Len(acc.bands)
    <3>1. PICK j \in 1 .. n : acc.bands[i] = bands[j]
      BY <2>1 DEF KeptInv
    <3>2. Append(acc.bands, b)[i] = acc.bands[i]
      BY <1>1, <1>3, <2>1, AppendProperties
    <3> QED BY <1>1, <3>1, <3>2
  <2>2. CASE i = Len(acc.bands) + 1
    <3>1. Append(acc.bands, b)[i] = b
      BY <1>1, <1>3, <2>2, AppendProperties
    <3> QED BY <1>1, <3>1 DEF b
  <2> QED BY <1>3, <2>1, <2>2
<1>7. CASE new
  <2>1. next.bands = Append(acc.bands, b) /\ next.classes = Append(acc.classes, e)
    BY <1>4, <1>7
  <2> QED BY <1>1, <1>3, <1>5, <1>6, <1>7, <2>1 DEF KeptInv, next, b
<1>8. CASE ~new /\ b.id = best_teb
  <2>1. next.bands = Append(acc.bands, b) /\ next.classes = acc.classes
    BY <1>4, <1>8
  <2>2. n = 0 /\ best = b.class /\ (sound => best # Invalid)
    BY <1>1, <1>8 DEF b
  <2>3. sound => numTebsInClass(acc.classes, best) = 0
    <3> SUFFICES ASSUME sound PROVE numTebsInClass(acc.classes, best) = 0
      OBVIOUS
    <3>1. InClass(acc.bands, best) = {}
      BY <1>3, <2>2 DEF InClass
    <3>2. numTebsInClass(acc.classes, best) = Cardinality(InClass(acc.bands, best))
      BY <1>3, <2>2, NumTebsIs
    <3> QED BY <3>1, <3>2, FS_EmptySet
  <2>4. ~sound
    BY <1>8, <2>2, <2>3 DEF new, AddsClass, hasEquivalenceClass
  <2> QED BY <1>1, <1>3, <1>5, <1>6, <2>1, <2>4 DEF KeptInv, next, b
<1>9. CASE ~new /\ b.id # best_teb
  <2>1. next.bands = acc.bands /\ next.classes = acc.classes
    BY <1>4, <1>9
  <2>2. \A i \in 1 .. Len(acc.bands) : \E j \in 1 .. n + 1 : acc.bands[i] = bands[j]
    BY <1>1 DEF KeptInv
  <2> QED BY <1>1, <1>3, <2>1, <2>2 DEF KeptInv, next, b
<1> QED BY <1>7, <1>8, <1>9

\* What renewAndAnalyzeOldTebs keeps are alternatives.
LEMMA KeptIs ==
  ASSUME NEW bands, Good(bands), NEW best \in Signatures, NEW sound \in BOOLEAN,
         \A i \in 1 .. Len(bands) :
           bands[i].id = best_teb => i = 1 /\ best = bands[1].class /\ (sound => best # Invalid)
  PROVE  /\ KeptInv(Kept(bands, best), Len(bands), bands, best, sound)
         /\ Kept(bands, best) \in Results
<1> DEFINE L == Len(bands)
           none == [bands |-> <<>>, classes |-> <<>>]
<1>1. bands \in Seq(Bands) /\ L \in Nat /\ \A i \in 1 .. L : bands[i] \in Bands
  BY DEF Good
<1>2. none \in Results
  BY DEF Results
<1>3. ASSUME NEW acc \in Results, NEW b \in Bands
      PROVE  Keep(acc, b, best) \in Results
  <2>1. acc.bands \in Seq(Bands) /\ acc.classes \in Seq(Entries) /\ b.class \in Signatures
    BY DEF Bands, Results
  <2>2. [class |-> b.class, lock |-> FALSE] \in Entries
    BY <2>1 DEF Entries
  <2>3. /\ Append(acc.bands, b) \in Seq(Bands)
        /\ Append(acc.classes, [class |-> b.class, lock |-> FALSE]) \in Seq(Entries)
    BY <2>1, <2>2, AppendProperties
  <2> QED BY <2>1, <2>3 DEF Keep, Results
<1>4. PICK kept : IsKept(kept, bands, best, Results) /\ Kept(bands, best) = kept[L]
  <2>1. \A acc \in Results : \A i \in 1 .. Len(bands) : Keep(acc, bands[i], best) \in Results
    BY <1>1, <1>3
  <2> QED BY <1>1, <1>2, <2>1, KeptRuns
<1> DEFINE S == {n \in 0 .. L : KeptInv(kept[n], n, bands, best, sound)}
<1>5. 0 \in S
  <2>1. Good(<<>>) /\ Paired(<<>>, <<>>)
    BY DEF Good, Paired
  <2>2. Few(<<>>, best)
    <3>1. \A c : InClass(<<>>, c) = {}
      BY DEF InClass
    <3>2. \A c : Cardinality(InClass(<<>>, c)) = 0
      BY <3>1, FS_EmptySet
    <3> QED BY <3>2 DEF Few
  <2>3. kept[0].bands = <<>> /\ kept[0].classes = <<>>
    BY <1>4 DEF IsKept
  <2>4. <<>> \in Seq(Entries) /\ Len(<<>>) = 0 /\ 0 \in 0 .. L
    BY <1>1
  <2> DEFINE acc == kept[0]
  <2> HIDE DEF acc
  <2>5. /\ Good(acc.bands) /\ Len(acc.bands) = 0 /\ acc.classes \in Seq(Entries)
        /\ Paired(acc.bands, acc.classes) /\ Few(acc.bands, best)
    BY <2>1, <2>2, <2>3, <2>4 DEF acc
  <2>6. KeptInv(acc, 0, bands, best, sound)
    BY <2>5 DEF KeptInv
  <2> QED BY <2>4, <2>6 DEF acc
<1>6. ASSUME NEW n \in 0 .. L, n \in S, n < L
      PROVE  n + 1 \in S
  <2>1. KeptInv(Keep(kept[n], bands[n + 1], best), n + 1, bands, best, sound)
    BY <1>6, KeepStep
  <2>2. n + 1 \in 1 .. L /\ n + 1 \in 0 .. L /\ (n + 1) - 1 = n
    BY <1>1, <1>6
  <2>3. kept[n + 1] = Keep(kept[n], bands[n + 1], best)
    BY <1>4, <2>2 DEF IsKept
  <2> QED BY <2>1, <2>2, <2>3
<1> HIDE DEF S, L
<1>7. 0 .. L \subseteq S
  BY <1>1, <1>5, <1>6, UpTo
<1>8. L \in S
  BY <1>1, <1>7
<1> QED BY <1>1, <1>4, <1>8 DEF S, L, IsKept

\* What deletePlansDetouringBackwards leaves are still alternatives.
LEMMA DetouredIs ==
  ASSUME NEW kept \in Results, Good(kept.bands), NEW detours
  PROVE  LET left == Detoured(kept, detours)
         IN  /\ Good(left.bands) /\ Len(left.bands) <= Len(kept.bands)
             /\ left.classes \in Seq(Entries)
             /\ Paired(kept.bands, kept.classes) => Paired(left.bands, left.classes)
             /\ \A best : Few(kept.bands, best) => Few(left.bands, best)
<1> DEFINE Sound(left) ==
             /\ Good(left.bands) /\ Len(left.bands) <= Len(kept.bands)
             /\ left.classes \in Seq(Entries)
             /\ Paired(kept.bands, kept.classes) => Paired(left.bands, left.classes)
             /\ \A best : Few(kept.bands, best) => Few(left.bands, best)
           A == {left \in Results : Sound(left)}
<1>1. kept.bands \in Seq(Bands) /\ kept.classes \in Seq(Entries) /\ Len(kept.bands) \in Nat
  BY DEF Results
<1>2. kept \in A
  BY <1>1
<1>3. ASSUME NEW acc \in A, NEW b
      PROVE  Detour(acc, b, detours) \in A
  <2> DEFINE left == Removed(acc.bands, acc.classes, b.id)
  <2>1. Good(acc.bands) /\ acc.classes \in Seq(Entries) /\ Len(acc.bands) \in Nat
    BY DEF Good
  <2>2. /\ Good(left.bands) /\ Len(left.bands) <= Len(acc.bands) /\ left.classes \in Seq(Entries)
        /\ Paired(acc.bands, acc.classes) => Paired(left.bands, left.classes)
        /\ \A best : Few(acc.bands, best) => Few(left.bands, best)
    BY <2>1, RemovedIs
  <2>3. left = [bands |-> left.bands, classes |-> left.classes]
    BY DEF Removed
  <2> HIDE DEF left
  <2>4. left \in Results
    BY <2>2, <2>3 DEF Results, Good
  <2>5. left.bands \in Seq(Bands) /\ Len(left.bands) \in Nat
    BY <2>2 DEF Good
  <2>6. Sound(left)
    BY <1>1, <2>1, <2>2, <2>5
  <2>7. Detour(acc, b, detours) \in {acc, left}
    BY DEF Detour, left
  <2> QED BY <2>4, <2>6, <2>7
<1> HIDE DEF A
<1>4. Detoured(kept, detours) \in A
  BY <1>1, <1>2, <1>3, DetouredRuns
<1> QED BY <1>4 DEF A

-----------------------------------------------------------------------------
(* What the other methods choose *)

\* Where the bands left by randomlyDropTebs were.
Places(m, n, L, stays) == [i \in 1 .. m + L - n |-> IF i <= m THEN stays[i] ELSE i - m + n]

LEMMA DroppedIs ==
  ASSUME NEW X, NEW s \in Seq(X), NEW n \in 0 .. Len(s), NEW m \in 0 .. n,
         NEW stays \in [1 .. m -> 1 .. n], \A i, j \in 1 .. m : i < j => stays[i] < stays[j]
  PROVE  LET t == [i \in 1 .. m |-> s[stays[i]]] \o SubSeq(s, n + 1, Len(s))
         IN  /\ t \in Seq(X) /\ Len(t) = m + Len(s) - n
             /\ Picks(t, s, Places(m, n, Len(s), stays))
<1> DEFINE l == [i \in 1 .. m |-> s[stays[i]]]
           r == SubSeq(s, n + 1, Len(s))
           t == l \o r
           f == Places(m, n, Len(s), stays)
<1>1. Len(s) \in Nat /\ m \in Nat /\ n \in Nat /\ \A j \in 1 .. Len(s) : s[j] \in X
  OBVIOUS
<1>2. \A i \in 1 .. m : stays[i] \in 1 .. n
  OBVIOUS
<1>3. l \in Seq(X) /\ Len(l) = m /\ \A i \in 1 .. m : l[i] = s[stays[i]]
  <2>1. \A i \in 1 .. m : s[stays[i]] \in X
    BY <1>1, <1>2
  <2> QED BY <1>1, <2>1
<1>4. r \in Seq(X) /\ Len(r) = Len(s) - n /\ \A j \in 1 .. Len(s) - n : r[j] = s[n + j]
  BY <1>1, SubSeqProperties
<1> HIDE DEF l, r
<1>5. /\ t \in Seq(X) /\ Len(t) = Len(l) + Len(r)
      /\ \A j \in 1 .. Len(l) + Len(r) : t[j] = IF j <= Len(l) THEN l[j] ELSE r[j - Len(l)]
  BY <1>3, <1>4, ConcatProperties
<1> HIDE DEF t
<1>6. Len(t) = m + Len(s) - n
  BY <1>1, <1>3, <1>4, <1>5
<1>7. \A i \in 1 .. m + Len(s) - n : f[i] = IF i <= m THEN stays[i] ELSE i - m + n
  BY DEF Places
<1>8. f \in [1 .. m + Len(s) - n -> 1 .. Len(s)]
  <2>1. \A i \in 1 .. m + Len(s) - n :
          (IF i <= m THEN stays[i] ELSE i - m + n) \in 1 .. Len(s)
    BY <1>1, <1>2
  <2> QED BY <2>1 DEF Places
<1> HIDE DEF f
<1>9. \A i, j \in 1 .. m + Len(s) - n : i < j => f[i] < f[j]
  BY <1>1, <1>2, <1>7
<1>10. \A i, j \in 1 .. m + Len(s) - n : f[i] = f[j] => i = j
  <2> TAKE i, j \in 1 .. m + Len(s) - n
  <2>1. f[i] \in Nat /\ f[j] \in Nat /\ i \in Nat /\ j \in Nat
    <3>1. f[i] \in 1 .. Len(s) /\ f[j] \in 1 .. Len(s)
      BY <1>8
    <3> QED BY <1>1, <3>1
  <2>2. (i < j => f[i] < f[j]) /\ (j < i => f[j] < f[i])
    BY <1>9
  <2> QED BY <2>1, <2>2
<1>11. \A i \in 1 .. m + Len(s) - n : t[i] = s[f[i]]
  <2> TAKE i \in 1 .. m + Len(s) - n
  <2>1. CASE i <= m
    <3>1. i \in 1 .. m /\ i \in 1 .. Len(l) + Len(r)
      BY <1>1, <1>3, <1>4, <2>1
    <3>2. t[i] = l[i] /\ l[i] = s[stays[i]] /\ f[i] = stays[i]
      BY <1>3, <1>5, <1>7, <2>1, <3>1
    <3> QED BY <3>2
  <2>2. CASE ~(i <= m)
    <3>1. i - m \in 1 .. Len(s) - n /\ i \in 1 .. Len(l) + Len(r) /\ i - m + n = n + (i - m)
      BY <1>1, <1>3, <1>4, <2>2
    <3>2. t[i] = r[i - m] /\ r[i - m] = s[n + (i - m)] /\ f[i] = i - m + n
      BY <1>3, <1>4, <1>5, <1>7, <2>2, <3>1
    <3> QED BY <3>1, <3>2
  <2> QED BY <2>1, <2>2
<1> QED BY <1>5, <1>6, <1>8, <1>10, <1>11 DEF Picks, f, t, l, r

\* The first of the cheapest is one of those compared.
LEMMA CheapestIs ==
  ASSUME NEW S, S \subseteq Nat, S # {}, NEW weight, \A i \in S : weight[i] \in Nat
  PROVE  LET cheapest == {i \in S : \A j \in S : weight[i] <= weight[j]}
         IN  (CHOOSE i \in cheapest : \A j \in cheapest : i <= j) \in S
<1> DEFINE W == {weight[i] : i \in S}
           cheapest == {i \in S : \A j \in S : weight[i] <= weight[j]}
<1>1. W \subseteq Nat /\ W # {}
  OBVIOUS
<1> HIDE DEF W
<1>2. PICK w \in W : \A v \in W : w <= v
  BY <1>1, HasSmallest
<1>3. cheapest # {}
  BY <1>2 DEF W
<1>4. cheapest \subseteq Nat /\ cheapest \subseteq S
  OBVIOUS
<1> HIDE DEF cheapest
<1>5. (CHOOSE i \in cheapest : \A j \in cheapest : i <= j) \in cheapest
  BY <1>3, <1>4, HasSmallest
<1> QED BY <1>4, <1>5 DEF cheapest

\* The same classes, whatever their locks.
SameClasses(classes) ==
  /\ classes \in Seq(Entries) /\ Len(classes) = Len(equivalence_classes)
  /\ \A i \in 1 .. Len(classes) : classes[i].class = equivalence_classes[i].class

LEMMA RelockedIs ==
  ASSUME TypesInv
  PROVE  SameClasses(Relocked)
<1>1. equivalence_classes \in Seq(Entries) /\ Len(equivalence_classes) \in Nat
  BY DEF TypesInv
<1>2. SameClasses(equivalence_classes)
  BY <1>1 DEF SameClasses
<1> DEFINE locked == [i \in DOMAIN equivalence_classes |->
                        [equivalence_classes[i] EXCEPT
                           !.lock = i \in DOMAIN tebs /\ tebs[i].id = InitialTeb]]
<1>3. \A i \in 1 .. Len(equivalence_classes) :
        locked[i] \in Entries /\ locked[i].class = equivalence_classes[i].class
  <2> TAKE i \in 1 .. Len(equivalence_classes)
  <2> DEFINE now == i \in DOMAIN tebs /\ tebs[i].id = InitialTeb
  <2>1. /\ equivalence_classes[i] \in Entries
        /\ locked[i] = [equivalence_classes[i] EXCEPT !.lock = now]
    BY <1>1
  <2>2. now \in BOOLEAN
    OBVIOUS
  <2> HIDE DEF now, locked
  <2> QED BY <2>1, <2>2 DEF Entries
<1>4. DOMAIN locked = 1 .. Len(equivalence_classes)
  BY <1>1
<1>5. locked = [i \in 1 .. Len(equivalence_classes) |-> locked[i]]
  BY <1>4
<1>6. Relocked \in {equivalence_classes, locked}
  BY DEF Relocked
<1> HIDE DEF locked
<1>7. locked \in Seq(Entries) /\ Len(locked) = Len(equivalence_classes)
  BY <1>1, <1>3, <1>4, <1>5
<1> QED BY <1>2, <1>3, <1>6, <1>7 DEF SameClasses

LEMMA WeighedIs ==
  ASSUME NEW b \in Bands, NEW last
  PROVE  Weighed(b, last) \in Nat
<1> DEFINE factor == IF b.id = last THEN Hysteresis ELSE IF b.id = InitialTeb THEN PreferInitial ELSE 100
<1>1. factor \in Nat
  BY PlannerAssumption
<1>2. b.cost \in Nat
  BY PlannerAssumption DEF Bands
<1> HIDE DEF factor
<1>3. b.cost * factor \in Nat
  BY <1>1, <1>2
<1> QED BY <1>3 DEF Weighed, factor

\* findBestTeb finds a band of the container, or none.
LEMMA FindsBestIs ==
  ASSUME TypesInv, NEW found \in FindsBest
  PROVE  /\ {found[1], found[2], found[3]} \subseteq Ids \cup {Null}
         /\ found[1] # Null => Holds(tebs, found[1])
         /\ SameClasses(found[4])
<1> DEFINE real == {i \in DOMAIN tebs : tebs[i].cost # HugeVal}
           cheapest == {i \in real :
                          \A j \in real : Weighed(tebs[i], Null) <= Weighed(tebs[j], Null)}
           first == CHOOSE i \in cheapest : \A j \in cheapest : i <= j
           best == IF real = {} THEN Null ELSE tebs[first].id
           initialTeb == IF initial_plan_teb # Null /\ Holds(tebs, initial_plan_teb)
                         THEN initial_plan_teb ELSE Null
<1>1. /\ tebs \in Seq(Bands) /\ DOMAIN tebs = 1 .. Len(tebs) /\ Len(tebs) \in Nat
      /\ \A i \in DOMAIN tebs : tebs[i] \in Bands /\ tebs[i].id \in Ids /\ tebs[i].cost \in Nat
  <2>1. tebs \in Seq(Bands) /\ DOMAIN tebs = 1 .. Len(tebs) /\ Len(tebs) \in Nat
    BY DEF TypesInv, Good
  <2>2. \A i \in DOMAIN tebs : tebs[i] \in Bands
    BY <2>1
  <2> QED BY <2>1, <2>2 DEF Bands
<1>2. SameClasses(equivalence_classes)
  BY DEF TypesInv, SameClasses
<1>3. CASE best_teb # Null /\ Holds(tebs, best_teb)
  <2>1. found = <<best_teb, last_best_teb, initial_plan_teb, equivalence_classes>>
    BY <1>3 DEF FindsBest
  <2> QED BY <1>2, <1>3, <2>1 DEF TypesInv
<1>4. CASE ~(best_teb # Null /\ Holds(tebs, best_teb))
  <2>1. found = <<best, Null, initialTeb, Relocked>>
    BY <1>4 DEF FindsBest
  <2>2. initialTeb \in Ids \cup {Null}
    BY DEF TypesInv
  <2>3. ASSUME real # {}
        PROVE  best \in Ids /\ Holds(tebs, best)
    <3> DEFINE weight == [i \in DOMAIN tebs |-> Weighed(tebs[i], Null)]
    <3>1. real \subseteq Nat /\ \A i \in real : weight[i] \in Nat
      BY <1>1, WeighedIs
    <3>2. cheapest = {i \in real : \A j \in real : weight[i] <= weight[j]}
      OBVIOUS
    <3>3. real \subseteq DOMAIN tebs
      OBVIOUS
    <3>4. best = tebs[first].id
      BY <2>3
    <3> HIDE DEF weight, real, best
    <3>5. first \in real
      <4>1. (CHOOSE i \in {h \in real : \A j \in real : weight[h] <= weight[j]} :
               \A j \in {h \in real : \A k \in real : weight[h] <= weight[k]} : i <= j) \in real
        BY <2>3, <3>1, CheapestIs
      <4> HIDE DEF cheapest
      <4> QED BY <3>2, <4>1
    <3> HIDE DEF first
    <3> QED BY <1>1, <3>3, <3>4, <3>5 DEF Holds, Range
  <2>4. real = {} => best = Null
    OBVIOUS
  <2> HIDE DEF best, initialTeb, real
  <2> QED BY <2>1, <2>2, <2>3, <2>4, RelockedIs
<1> QED BY <1>3, <1>4

-----------------------------------------------------------------------------
(* The steps *)

\* Lists that are empty are in step.
LEMMA EmptyIs == Good(<<>>) /\ <<>> \in Seq(Entries) /\ Len(<<>>) = 0 /\ Paired(<<>>, <<>>)
BY DEF Good, Paired

LEMMA InitStep ==
  ASSUME Init
  PROVE  PlannerInv
<1>1. /\ pc = "idle" /\ tebs = <<>> /\ equivalence_classes = <<>> /\ lost = FALSE
      /\ best_teb = Null /\ last_best_teb = Null /\ initial_plan_teb = Null
      /\ best_teb_eq_class \in Signatures /\ initial_plan_eq_class \in Signatures
  BY DEF Init, Signatures
<1>2. Good(tebs) /\ Len(tebs) <= MaxClasses /\ Paired(tebs, equivalence_classes)
  BY <1>1, EmptyIs, PlannerAssumption
<1>3. equivalence_classes \in Seq(Entries)
  BY <1>1, EmptyIs
<1> QED BY <1>1, <1>2, <1>3 DEF PlannerInv, TypesInv

LEMMA UpdateStep ==
  ASSUME PlannerInv, updateAllTEBs
  PROVE  PlannerInv'
<1>1. /\ pc' = "renew" /\ best_teb' = best_teb /\ last_best_teb' = last_best_teb
      /\ initial_plan_teb' = initial_plan_teb /\ best_teb_eq_class' = best_teb_eq_class
      /\ initial_plan_eq_class' = initial_plan_eq_class /\ lost' = lost
  BY DEF updateAllTEBs, pointers, initial
<1>2. CASE tebs' = <<>> /\ equivalence_classes' = <<>>
  BY <1>1, <1>2, EmptyIs, PlannerAssumption DEF PlannerInv, TypesInv
<1>3. CASE UNCHANGED <<tebs, equivalence_classes>>
  BY <1>1, <1>3 DEF PlannerInv, TypesInv
<1> QED BY <1>2, <1>3 DEF updateAllTEBs

LEMMA RenewStep ==
  ASSUME PlannerInv, renewAndAnalyzeOldTebs
  PROVE  PlannerInv'
<1>1. PICK sig \in [DOMAIN tebs -> Signatures], detours \in SUBSET Ids, judged \in BOOLEAN :
        LET bands   == Resigned(sig)
            hasBest == Holds(bands, best_teb)
            best    == IF hasBest THEN bands[1].class ELSE best_teb_eq_class
            kept    == Kept(bands, best)
            left    == IF judged /\ hasBest /\ Len(kept.bands) >= 2 THEN Detoured(kept, detours)
                       ELSE kept
        IN /\ tebs' = left.bands /\ equivalence_classes' = left.classes
           /\ best_teb_eq_class' = best
           /\ lost' = (hasBest /\ best = Invalid)
  BY DEF renewAndAnalyzeOldTebs
<1> DEFINE bands   == Resigned(sig)
           hasBest == Holds(bands, best_teb)
           best    == IF hasBest THEN bands[1].class ELSE best_teb_eq_class
           kept    == Kept(bands, best)
           left    == IF judged /\ hasBest /\ Len(kept.bands) >= 2 THEN Detoured(kept, detours)
                      ELSE kept
           sound   == ~(hasBest /\ best = Invalid)
<1>2. /\ tebs' = left.bands /\ equivalence_classes' = left.classes
      /\ best_teb_eq_class' = best /\ lost' = ~sound
  BY <1>1
<1>3. /\ pc' = "drop" /\ best_teb' = best_teb /\ last_best_teb' = last_best_teb
      /\ initial_plan_teb' = initial_plan_teb /\ initial_plan_eq_class' = initial_plan_eq_class
  BY DEF renewAndAnalyzeOldTebs, initial
<1>4. Good(tebs) /\ Len(tebs) <= MaxClasses /\ Len(tebs) \in Nat
  BY DEF PlannerInv, TypesInv, Good
<1>5. /\ Good(bands) /\ Len(bands) = Len(tebs)
      /\ \A i \in 1 .. Len(bands) : bands[i].id = best_teb => i = 1
  BY <1>4, ResignedIs
<1> HIDE DEF bands
<1>6. bands \in Seq(Bands) /\ DOMAIN bands = 1 .. Len(bands) /\ Len(bands) \in Nat
  BY <1>5 DEF Good
<1>7. hasBest => 1 \in 1 .. Len(bands) /\ bands[1].class \in Signatures
  <2> SUFFICES ASSUME hasBest PROVE 1 \in 1 .. Len(bands) /\ bands[1].class \in Signatures
    OBVIOUS
  <2>1. 1 \in 1 .. Len(bands)
    BY <1>6 DEF Holds, Range
  <2>2. bands[1] \in Bands
    BY <1>6, <2>1
  <2> QED BY <2>1, <2>2 DEF Bands
<1>8. best \in Signatures
  BY <1>7 DEF PlannerInv, TypesInv
<1>9. \A i \in 1 .. Len(bands) : bands[i].id = best_teb => hasBest
  BY <1>6 DEF Holds, Range
<1>10. sound \in BOOLEAN
  OBVIOUS
<1>11. \A i \in 1 .. Len(bands) : bands[i].id = best_teb =>
         i = 1 /\ best = bands[1].class /\ (sound => best # Invalid)
  BY <1>5, <1>9
<1> HIDE DEF hasBest, best, sound
<1>12. KeptInv(kept, Len(bands), bands, best, sound) /\ kept \in Results
  BY <1>5, <1>8, <1>10, <1>11, KeptIs
<1> HIDE DEF kept
<1>13. /\ Good(kept.bands) /\ Len(kept.bands) <= Len(bands) /\ Len(kept.bands) \in Nat
       /\ kept.classes \in Seq(Entries)
       /\ sound => Paired(kept.bands, kept.classes) /\ Few(kept.bands, best)
  BY <1>12 DEF KeptInv, Good
<1>14. LET d == Detoured(kept, detours)
       IN  /\ Good(d.bands) /\ Len(d.bands) <= Len(kept.bands) /\ d.classes \in Seq(Entries)
           /\ Paired(kept.bands, kept.classes) => Paired(d.bands, d.classes)
           /\ \A c : Few(kept.bands, c) => Few(d.bands, c)
  BY <1>12, <1>13, DetouredIs
<1>15. left \in {kept, Detoured(kept, detours)}
  OBVIOUS
<1> HIDE DEF left
<1>16. /\ Good(left.bands) /\ Len(left.bands) <= Len(kept.bands) /\ Len(left.bands) \in Nat
       /\ left.classes \in Seq(Entries)
       /\ sound => Paired(left.bands, left.classes) /\ Few(left.bands, best)
  BY <1>13, <1>14, <1>15 DEF Good
<1>17. Len(left.bands) <= MaxClasses
  BY <1>4, <1>5, <1>13, <1>16, PlannerAssumption
<1> QED BY <1>2, <1>3, <1>8, <1>10, <1>16, <1>17 DEF PlannerInv, TypesInv

LEMMA DropStep ==
  ASSUME PlannerInv, randomlyDropTebs
  PROVE  PlannerInv'
<1> DEFINE n == IF Len(tebs) < Len(equivalence_classes) THEN Len(tebs) ELSE Len(equivalence_classes)
           Stay(m, stays) ==
             /\ \A i, j \in 1 .. m : i < j => stays[i] < stays[j]
             /\ tebs' = [i \in 1 .. m |-> tebs[stays[i]]] \o SubSeq(tebs, n + 1, Len(tebs))
             /\ equivalence_classes' =
                  [i \in 1 .. m |-> equivalence_classes[stays[i]]]
                    \o SubSeq(equivalence_classes, n + 1, Len(equivalence_classes))
<1>0. PICK m \in 0 .. n : \E stays \in [1 .. m -> 1 .. n] : Stay(m, stays)
  BY DEF randomlyDropTebs
<1>1. PICK stays \in [1 .. m -> 1 .. n] : Stay(m, stays)
  BY <1>0
<1>2. /\ pc' = "initial" /\ best_teb' = best_teb /\ last_best_teb' = last_best_teb
      /\ initial_plan_teb' = initial_plan_teb /\ best_teb_eq_class' = best_teb_eq_class
      /\ initial_plan_eq_class' = initial_plan_eq_class /\ lost' = lost /\ pc = "drop"
  BY DEF randomlyDropTebs, pointers, initial
<1>3. /\ Good(tebs) /\ tebs \in Seq(Bands) /\ Len(tebs) \in Nat /\ Len(tebs) <= MaxClasses
      /\ equivalence_classes \in Seq(Entries) /\ Len(equivalence_classes) \in Nat
      /\ n \in 0 .. Len(tebs) /\ n \in 0 .. Len(equivalence_classes)
  BY DEF PlannerInv, TypesInv, Good
<1> HIDE DEF n
<1>4. /\ tebs' \in Seq(Bands) /\ Len(tebs') = m + Len(tebs) - n
      /\ Picks(tebs', tebs, Places(m, n, Len(tebs), stays))
  BY <1>1, <1>3, DroppedIs
<1>5. /\ equivalence_classes' \in Seq(Entries)
      /\ Len(equivalence_classes') = m + Len(equivalence_classes) - n
      /\ Picks(equivalence_classes', equivalence_classes,
               Places(m, n, Len(equivalence_classes), stays))
  BY <1>1, <1>3, DroppedIs
<1>6. /\ Good(tebs') /\ Len(tebs') <= Len(tebs)
      /\ \A best : Few(tebs, best) => Few(tebs', best)
  BY <1>3, <1>4, PicksAreGood
<1>7. ASSUME Paired(tebs, equivalence_classes)
      PROVE  Paired(tebs', equivalence_classes')
  <2> DEFINE f == Places(m, n, Len(tebs), stays)
             bands == tebs'
             classes == equivalence_classes'
  <2>1. Len(equivalence_classes) = Len(tebs)
    BY <1>7 DEF Paired
  <2>2. Len(classes) = Len(bands)
    BY <1>4, <1>5, <2>1
  <2>3. Picks(bands, tebs, f) /\ Picks(classes, equivalence_classes, f)
    BY <1>4, <1>5, <2>1
  <2> HIDE DEF f, bands, classes
  <2>4. \A i \in 1 .. Len(bands) : f[i] \in 1 .. Len(tebs) /\ bands[i] = tebs[f[i]]
                                   /\ classes[i] = equivalence_classes[f[i]]
    BY <2>2, <2>3 DEF Picks
  <2>5. Paired(bands, classes)
    BY <1>7, <2>2, <2>4 DEF Paired
  <2> QED BY <2>5 DEF bands, classes
<1>8. Len(tebs') <= MaxClasses
  BY <1>3, <1>4, <1>6, PlannerAssumption
<1> QED BY <1>2, <1>5, <1>6, <1>7, <1>8 DEF PlannerInv, TypesInv

\* A candidate is added with its class, or neither is.
LEMMA AddIs ==
  ASSUME TypesInv, ~lost => Paired(tebs, equivalence_classes) /\ Few(tebs, best_teb_eq_class),
         Len(tebs) < MaxClasses, NEW c \in Signatures, NEW lock \in BOOLEAN,
         addAndInitNewTeb(c, lock)
  PROVE  /\ Good(tebs') /\ Len(tebs') <= MaxClasses /\ equivalence_classes' \in Seq(Entries)
         /\ ~lost => Paired(tebs', equivalence_classes') /\ Few(tebs', best_teb_eq_class)
<1>1. /\ Good(tebs) /\ Len(tebs) \in Nat /\ Len(tebs) <= MaxClasses /\ MaxClasses \in Nat
      /\ equivalence_classes \in Seq(Entries)
  BY PlannerAssumption DEF TypesInv, Good
<1>2. CASE AddsClass(equivalence_classes, c, best_teb_eq_class)
  <2> DEFINE b == NewBand(c)
             e == [class |-> c, lock |-> lock]
  <2>1. tebs' = Append(tebs, b) /\ equivalence_classes' = Append(equivalence_classes, e)
    BY <1>2 DEF addAndInitNewTeb
  <2>2. b \in Bands /\ b.class = c /\ \A i \in 1 .. Len(tebs) : tebs[i].id # b.id
    BY NewBandIs
  <2>3. e \in Entries /\ e.class = c
    BY DEF Entries
  <2> HIDE DEF b, e
  <2> QED BY <1>1, <1>2, <2>1, <2>2, <2>3, AddedIs
<1>3. CASE ~AddsClass(equivalence_classes, c, best_teb_eq_class)
  <2>1. tebs' = tebs /\ equivalence_classes' = equivalence_classes
    BY <1>3 DEF addAndInitNewTeb
  <2> QED BY <1>1, <2>1
<1> QED BY <1>2, <1>3

LEMMA InjectStep ==
  ASSUME PlannerInv, injectInitialPlan
  PROVE  PlannerInv'
<1>1. PICK c \in Signatures :
        IF Len(tebs) >= MaxClasses
        THEN /\ initial_plan_teb' = Null
             /\ UNCHANGED <<initial_plan_eq_class, tebs, equivalence_classes>>
        ELSE /\ initial_plan_eq_class' = c
             /\ addAndInitNewTeb(c, TRUE)
             /\ initial_plan_teb' = IF Len(tebs') > Len(tebs) THEN NewBand(c).id ELSE Null
  BY DEF injectInitialPlan
<1>2. /\ pc = "initial" /\ pc' = "explore" /\ best_teb' = best_teb
      /\ last_best_teb' = last_best_teb /\ best_teb_eq_class' = best_teb_eq_class /\ lost' = lost
  BY DEF injectInitialPlan, pointers
<1>3. /\ TypesInv /\ Len(tebs) \in Nat /\ MaxClasses \in Nat
      /\ ~lost => Paired(tebs, equivalence_classes) /\ Few(tebs, best_teb_eq_class)
  BY <1>2, PlannerAssumption DEF PlannerInv, TypesInv, Good
<1>4. CASE Len(tebs) >= MaxClasses
  BY <1>1, <1>2, <1>3, <1>4 DEF PlannerInv, TypesInv
<1>5. CASE Len(tebs) < MaxClasses
  <2>1. /\ initial_plan_eq_class' = c /\ addAndInitNewTeb(c, TRUE)
        /\ initial_plan_teb' \in {NewBand(c).id, Null}
    <3>1. ~(Len(tebs) >= MaxClasses)
      BY <1>3, <1>5
    <3>2. /\ initial_plan_eq_class' = c /\ addAndInitNewTeb(c, TRUE)
          /\ initial_plan_teb' = IF Len(tebs') > Len(tebs) THEN NewBand(c).id ELSE Null
      BY <1>1, <3>1, Zenon
    <3> QED BY <3>2, Zenon
  <2>2. NewBand(c).id \in Ids
    BY <1>3, <1>5, NewBandIs DEF Bands
  <2>3. /\ Good(tebs') /\ Len(tebs') <= MaxClasses /\ equivalence_classes' \in Seq(Entries)
        /\ ~lost => Paired(tebs', equivalence_classes') /\ Few(tebs', best_teb_eq_class)
    BY <1>3, <1>5, <2>1, AddIs
  <2> QED BY <1>2, <1>3, <2>1, <2>2, <2>3 DEF PlannerInv, TypesInv
<1> QED BY <1>3, <1>4, <1>5

LEMMA ExploreStep ==
  ASSUME PlannerInv, exploreEquivalenceClass
  PROVE  PlannerInv'
<1>1. PICK c \in Signatures : addAndInitNewTeb(c, FALSE)
  BY DEF exploreEquivalenceClass
<1>2. /\ pc = "explore" /\ pc' = pc /\ best_teb' = best_teb /\ last_best_teb' = last_best_teb
      /\ initial_plan_teb' = initial_plan_teb /\ best_teb_eq_class' = best_teb_eq_class
      /\ initial_plan_eq_class' = initial_plan_eq_class /\ lost' = lost /\ Len(tebs) < MaxClasses
  BY DEF exploreEquivalenceClass, pointers, initial
<1>3. /\ TypesInv
      /\ ~lost => Paired(tebs, equivalence_classes) /\ Few(tebs, best_teb_eq_class)
  BY <1>2 DEF PlannerInv
<1>4. /\ Good(tebs') /\ Len(tebs') <= MaxClasses /\ equivalence_classes' \in Seq(Entries)
      /\ ~lost => Paired(tebs', equivalence_classes') /\ Few(tebs', best_teb_eq_class)
  BY <1>1, <1>2, <1>3, AddIs
<1> QED BY <1>2, <1>3, <1>4 DEF PlannerInv, TypesInv

LEMMA OptimizeStep ==
  ASSUME PlannerInv, optimizeAllTEBs
  PROVE  PlannerInv'
<1>1. PICK results \in [DOMAIN tebs -> UNION {Optimized(b) : b \in Range(tebs)}] :
        (\A i \in DOMAIN tebs : results[i] \in Optimized(tebs[i])) /\ tebs' = results
  BY DEF optimizeAllTEBs
<1>2. /\ pc = "optimize" /\ pc' = "select" /\ best_teb' = best_teb
      /\ last_best_teb' = last_best_teb /\ initial_plan_teb' = initial_plan_teb
      /\ best_teb_eq_class' = best_teb_eq_class /\ initial_plan_eq_class' = initial_plan_eq_class
      /\ lost' = lost /\ equivalence_classes' = equivalence_classes
  BY DEF optimizeAllTEBs, pointers, initial
<1>3. /\ Good(tebs) /\ tebs \in Seq(Bands) /\ DOMAIN tebs = 1 .. Len(tebs) /\ Len(tebs) \in Nat
  BY DEF PlannerInv, TypesInv, Good
<1>4. \A b \in Bands : \A o \in Optimized(b) : o \in Bands /\ o.id = b.id /\ o.class = b.class
  <2> TAKE b \in Bands
  <2> TAKE o \in Optimized(b)
  <2>1. Costs \subseteq Nat
    BY PlannerAssumption
  <2>2. \/ \E c \in Costs : o = [b EXCEPT !.cost = c, !.optimized = TRUE]
        \/ o = [b EXCEPT !.optimized = TRUE] \/ o = [b EXCEPT !.optimized = FALSE]
    BY DEF Optimized
  <2>3. CASE \E c \in Costs : o = [b EXCEPT !.cost = c, !.optimized = TRUE]
    <3>1. PICK c \in Costs : o = [b EXCEPT !.cost = c, !.optimized = TRUE]
      BY <2>3
    <3>2. b.id \in Ids /\ b.class \in Signatures /\ c \in Nat
      BY <2>1 DEF Bands
    <3> QED BY <3>1, <3>2 DEF Bands
  <2>4. CASE \E done \in BOOLEAN : o = [b EXCEPT !.optimized = done]
    BY <2>4 DEF Bands
  <2> QED BY <2>2, <2>3, <2>4
<1>5. \A i \in 1 .. Len(tebs) :
        results[i] \in Bands /\ results[i].id = tebs[i].id /\ results[i].class = tebs[i].class
  BY <1>1, <1>3, <1>4
<1>6. tebs' \in Seq(Bands) /\ Len(tebs') = Len(tebs)
  <2>1. results = [i \in 1 .. Len(tebs) |-> results[i]]
    BY <1>1, <1>3
  <2> QED BY <1>1, <1>3, <1>5, <2>1
<1>7. Good(tebs')
  <2>1. \A i, j \in 1 .. Len(tebs) : results[i].id = results[j].id => i = j
    BY <1>3, <1>5 DEF Good
  <2> QED BY <1>1, <1>6, <2>1 DEF Good
<1>8. Paired(tebs, equivalence_classes) => Paired(tebs', equivalence_classes)
  BY <1>1, <1>5, <1>6 DEF Paired
<1>9. \A best : Few(tebs, best) => Few(tebs', best)
  <2>1. \A c : InClass(tebs', c) = InClass(tebs, c)
    BY <1>1, <1>5, <1>6 DEF InClass
  <2> QED BY <2>1 DEF Few
<1> QED BY <1>2, <1>6, <1>7, <1>8, <1>9 DEF PlannerInv, TypesInv

\* What is in step stays so under other locks.
LEMMA SameIsPaired ==
  ASSUME NEW classes, SameClasses(classes), NEW bands, Paired(bands, equivalence_classes)
  PROVE  Paired(bands, classes)
BY DEF SameClasses, Paired

LEMMA EndStep ==
  ASSUME PlannerInv, endOfPlan
  PROVE  PlannerInv'
<1>1. PICK may_change \in BOOLEAN : selectBestTeb(may_change)
  BY DEF endOfPlan
<1>2. /\ pc' = "diverged" /\ tebs' = tebs /\ best_teb_eq_class' = best_teb_eq_class
      /\ initial_plan_eq_class' = initial_plan_eq_class /\ lost' = lost
  BY DEF endOfPlan
<1>3. /\ TypesInv /\ tebs \in Seq(Bands) /\ DOMAIN tebs = 1 .. Len(tebs) /\ Len(tebs) \in Nat
      /\ \A i \in DOMAIN tebs : tebs[i] \in Bands
  BY DEF PlannerInv, TypesInv, Good
<1> DEFINE last == IF best_teb # Null /\ Holds(tebs, best_teb) THEN best_teb ELSE Null
           real == {i \in DOMAIN tebs : tebs[i].cost # HugeVal}
           cheapest == {i \in real :
                          \A j \in real : Weighed(tebs[i], last) <= Weighed(tebs[j], last)}
           first == CHOOSE i \in cheapest : \A j \in cheapest : i <= j
           best == IF real = {} THEN Null ELSE tebs[first].id
<1>4. /\ last_best_teb' = last /\ best_teb' \in {last, best}
      /\ equivalence_classes' = Relocked
      /\ initial_plan_teb' \in {initial_plan_teb, Null}
  BY <1>1 DEF selectBestTeb
<1>5. last \in Ids \cup {Null}
  BY <1>3 DEF TypesInv
<1>6. best \in Ids \cup {Null}
  <2> SUFFICES ASSUME real # {} PROVE tebs[first].id \in Ids
    OBVIOUS
  <2> DEFINE weight == [i \in DOMAIN tebs |-> Weighed(tebs[i], last)]
  <2>1. \A b \in Bands : Weighed(b, last) \in Nat
    <3> HIDE DEF last
    <3> QED BY WeighedIs
  <2>2. real \subseteq Nat /\ real \subseteq DOMAIN tebs /\ \A i \in real : weight[i] \in Nat
    BY <1>3, <2>1
  <2>3. cheapest = {i \in real : \A j \in real : weight[i] <= weight[j]}
    OBVIOUS
  <2> HIDE DEF weight, real
  <2>4. first \in real
    <3>1. (CHOOSE i \in {h \in real : \A j \in real : weight[h] <= weight[j]} :
             \A j \in {h \in real : \A k \in real : weight[h] <= weight[k]} : i <= j) \in real
      BY <2>2, CheapestIs
    <3> HIDE DEF cheapest
    <3> QED BY <2>3, <3>1
  <2> HIDE DEF first
  <2> QED BY <1>3, <2>2, <2>4 DEF Bands
<1> HIDE DEF last, best
<1>7. SameClasses(Relocked)
  BY <1>3, RelockedIs
<1>8. ~lost => Paired(tebs, Relocked)
  BY <1>7, SameIsPaired DEF PlannerInv
<1> QED BY <1>2, <1>3, <1>4, <1>5, <1>6, <1>7, <1>8 DEF PlannerInv, TypesInv, SameClasses

\* Clearing the planner, from wherever it is done.
LEMMA ClearStep ==
  ASSUME PlannerInv, clearPlanner
  PROVE  PlannerInv'
<1>1. /\ pc' = "idle" /\ tebs' = <<>> /\ equivalence_classes' = <<>> /\ best_teb' = best_teb
      /\ last_best_teb' = last_best_teb /\ initial_plan_teb' = initial_plan_teb
      /\ best_teb_eq_class' = best_teb_eq_class /\ initial_plan_eq_class' = initial_plan_eq_class
      /\ lost' = lost
  BY DEF clearPlanner, pointers, initial
<1> QED BY <1>1, EmptyIs, PlannerAssumption DEF PlannerInv, TypesInv

\* Steps that leave the bands alone, and do not lead to a command.
LEMMA IdleStep ==
  ASSUME PlannerInv, UNCHANGED <<tebs, equivalence_classes, pointers, initial, lost>>,
         \/ pc' = pc /\ UNCHANGED checked
         \/ pc' \in {"diverged", "feasible", "idle"}
         \/ pc = "explore" /\ pc' = "optimize"
  PROVE  PlannerInv'
BY DEF PlannerInv, TypesInv, pointers, initial, Holds

LEMMA FeasibleStep ==
  ASSUME PlannerInv, isTrajectoryFeasible
  PROVE  PlannerInv'
<1>1. PICK found \in FindsBest, feasible \in BOOLEAN :
       /\ best_teb' = found[1] /\ last_best_teb' = found[2] /\ initial_plan_teb' = found[3]
       /\ IF found[1] = Null
          THEN /\ tebs' = <<>> /\ equivalence_classes' = <<>> /\ pc' = "idle"
          ELSE IF feasible
          THEN /\ equivalence_classes' = found[4]
               /\ checked' = found[1] /\ pc' = "command"
               /\ UNCHANGED tebs
          ELSE /\ pc' = IF found[2] = found[1] THEN "idle" ELSE "feasible"
               /\ tebs' = IF pc' = "idle" THEN <<>> ELSE Removed(tebs, found[4], found[1]).bands
               /\ equivalence_classes' =
                    IF pc' = "idle" THEN <<>> ELSE Removed(tebs, found[4], found[1]).classes
  BY DEF isTrajectoryFeasible
<1>2. /\ best_teb_eq_class' = best_teb_eq_class /\ initial_plan_eq_class' = initial_plan_eq_class
      /\ lost' = lost
  BY DEF isTrajectoryFeasible
<1>3. /\ {found[1], found[2], found[3]} \subseteq Ids \cup {Null}
      /\ found[1] # Null => Holds(tebs, found[1])
      /\ SameClasses(found[4])
  BY FindsBestIs DEF PlannerInv
<1>4. ~lost => Paired(tebs, found[4])
  BY <1>3, SameIsPaired DEF PlannerInv
<1>5. found[4] \in Seq(Entries) /\ Good(tebs) /\ Len(tebs) <= MaxClasses /\ Len(tebs) \in Nat
  BY <1>3 DEF SameClasses, PlannerInv, TypesInv, Good
<1>6. CASE tebs' = <<>> /\ equivalence_classes' = <<>> /\ pc' = "idle"
  BY <1>1, <1>2, <1>3, <1>6, EmptyIs, PlannerAssumption DEF PlannerInv, TypesInv
<1>7. CASE /\ found[1] # Null /\ equivalence_classes' = found[4]
           /\ checked' = found[1] /\ pc' = "command" /\ tebs' = tebs
  BY <1>1, <1>2, <1>3, <1>4, <1>5, <1>7 DEF PlannerInv, TypesInv, Holds
<1>8. CASE /\ pc' = "feasible"
           /\ tebs' = Removed(tebs, found[4], found[1]).bands
           /\ equivalence_classes' = Removed(tebs, found[4], found[1]).classes
  <2>1. /\ Good(tebs') /\ Len(tebs') <= Len(tebs) /\ equivalence_classes' \in Seq(Entries)
        /\ Paired(tebs, found[4]) => Paired(tebs', equivalence_classes')
    BY <1>5, <1>8, RemovedIs
  <2>2. Len(tebs') <= MaxClasses
    BY <1>5, <2>1, PlannerAssumption DEF Good
  <2> QED BY <1>1, <1>2, <1>3, <1>4, <1>8, <2>1, <2>2 DEF PlannerInv, TypesInv
<1> QED BY <1>1, <1>6, <1>7, <1>8

-----------------------------------------------------------------------------
(* The theorems *)

\* Every step of a cycle keeps what the two properties take.
THEOREM PlannerInvariant == Spec => []PlannerInv
<1>1. Init => PlannerInv
  BY InitStep
<1>2. PlannerInv /\ [Next]_vars => PlannerInv'
  <2> SUFFICES ASSUME PlannerInv, [Next]_vars PROVE PlannerInv'
    OBVIOUS
  <2>1. CASE updateAllTEBs
    BY <2>1, UpdateStep
  <2>2. CASE exploreEquivalenceClass
    BY <2>2, ExploreStep
  <2>3. CASE renewAndAnalyzeOldTebs
    BY <2>3, RenewStep
  <2>4. CASE randomlyDropTebs
    BY <2>4, DropStep
  <2>5. CASE injectInitialPlan
    BY <2>5, InjectStep
  <2>6. CASE updateReferenceTrajectoryViaPoints
    BY <2>6, IdleStep DEF updateReferenceTrajectoryViaPoints
  <2>7. CASE optimizeAllTEBs
    BY <2>7, OptimizeStep
  <2>8. CASE endOfPlan
    BY <2>8, EndStep
  <2>9. CASE hasDiverged
    BY <2>9, ClearStep, IdleStep DEF hasDiverged
  <2>10. CASE isTrajectoryFeasible
    BY <2>10, FeasibleStep
  <2>11. CASE noneFeasible
    BY <2>11, ClearStep DEF noneFeasible
  <2>12. CASE getVelocityCommand
    BY <2>12, ClearStep, IdleStep DEF getVelocityCommand
  <2>13. CASE UNCHANGED vars
    BY <2>13, IdleStep DEF vars
  <2> QED BY <2>1, <2>2, <2>3, <2>4, <2>5, <2>6, <2>7, <2>8, <2>9, <2>10, <2>11, <2>12, <2>13
          DEF Next, Steps
<1> QED BY <1>1, <1>2, PTL DEF Spec

\* The class at a place is the signature of the band at that place, and the bands to optimise are
\* alternatives, for any limits, signatures and detours: whatever renewAndAnalyzeOldTebs,
\* randomlyDropTebs and removeTeb take out, as long as the best band has a class.
THEOREM BandsKeepTheirClasses == Spec => []BandsMatchClasses
<1>1. PlannerInv => BandsMatchClasses
  <2> SUFFICES ASSUME PlannerInv PROVE ListsInStep /\ BandsDiffer
    BY DEF BandsMatchClasses
  <2>1. DOMAIN tebs = 1 .. Len(tebs)
    BY DEF PlannerInv, TypesInv, Good
  <2>2. ListsInStep
    BY <2>1 DEF PlannerInv, Paired, ListsInStep, ClassAt
  <2>3. \A c : {i \in DOMAIN tebs : tebs[i].class = c} = InClass(tebs, c)
    BY <2>1 DEF InClass
  <2>4. BandsDiffer
    BY <2>3 DEF PlannerInv, TypesInv, BandsDiffer, Few
  <2> QED BY <2>2, <2>4
<1> QED BY <1>1, PlannerInvariant, PTL

\* The command comes from the band that isTrajectoryFeasible found feasible in this cycle, whatever
\* it removed before.
THEOREM CommandComesFromChecked == Spec => []CommandIsChecked
<1>1. PlannerInv => CommandIsChecked
  BY DEF PlannerInv, CommandIsChecked
<1> QED BY <1>1, PlannerInvariant, PTL

-----------------------------------------------------------------------------
(* The controller: its plan *)

\* The poses of s are the last ones of t.
Ends(s, t) == Len(s) <= Len(t) /\ \A k \in 1 .. Len(s) : s[k] = t[Len(t) - Len(s) + k]

LEMMA SuffixIs ==
  ASSUME NEW s \in Seq(Int), NEW t \in Seq(Int), Ends(s, t)
  PROVE  IsSuffix(s, t)
<1> DEFINE r == Reverse(s)
           q == Reverse(t)
<1>1. Len(s) \in Nat /\ Len(t) \in Nat /\ Len(s) <= Len(t)
  BY DEF Ends
<1>2. r \in Seq(Int) /\ Len(r) = Len(s) /\ \A i \in 1 .. Len(s) : r[i] = s[Len(s) - i + 1]
  BY <1>1 DEF Reverse
<1>3. q \in Seq(Int) /\ Len(q) = Len(t) /\ \A i \in 1 .. Len(t) : q[i] = t[Len(t) - i + 1]
  BY <1>1 DEF Reverse
<1> HIDE DEF r, q
<1>4. \A i \in 1 .. Len(s) : r[i] = q[i]
  <2> TAKE i \in 1 .. Len(s)
  <2>1. Len(s) - i + 1 \in 1 .. Len(s) /\ i \in 1 .. Len(t)
        /\ Len(t) - Len(s) + (Len(s) - i + 1) = Len(t) - i + 1
    BY <1>1
  <2>2. s[Len(s) - i + 1] = t[Len(t) - i + 1]
    BY <2>1 DEF Ends
  <2> QED BY <1>2, <1>3, <2>1, <2>2
<1> DEFINE a == SubSeq(r, 1, Len(r))
           b == SubSeq(q, 1, Len(r))
<1>5. a \in Seq(Int) /\ Len(a) = Len(s) /\ \A i \in 1 .. Len(s) : a[i] = r[i]
  BY <1>1, <1>2, SubSeqProperties
<1>6. b \in Seq(Int) /\ Len(b) = Len(s) /\ \A i \in 1 .. Len(s) : b[i] = q[i]
  BY <1>1, <1>2, <1>3, SubSeqProperties
<1> HIDE DEF a, b
<1>7. a = b
  BY <1>4, <1>5, <1>6, SeqEqual
<1> QED BY <1>1, <1>2, <1>3, <1>7 DEF IsSuffix, IsPrefix, a, b, r, q

\* What the planner gets is a stretch of the plan that ends at goal_idx.
Stretch(part, goal, whole) ==
  /\ part \in Seq(Int) /\ part # <<>>
  /\ goal \in Nat /\ goal + 1 \in 1 .. Len(whole) /\ Len(part) <= goal + 1
  /\ \A k \in 1 .. Len(part) : part[k] = whole[goal + 1 - Len(part) + k]

PlanInv ==
  /\ config \in Configs
  /\ stage \in {"idle", "via", "backup", "obstacles", "plan", "command"}
  /\ global_plan \in Seq(Int) /\ last_plan \in Seq(Int) /\ Ends(global_plan, last_plan)
  /\ last_plan # <<>> => global_plan # <<>>
  /\ stage \in {"via", "backup", "obstacles", "plan"} => Stretch(transformed, goal_idx, global_plan)

\* pruneGlobalPlan leaves a tail of the plan, and never nothing.
LEMMA PrunedIs ==
  ASSUME NEW p \in Seq(Int), NEW r \in Int
  PROVE  Pruned(p, r) \in Seq(Int) /\ Ends(Pruned(p, r), p) /\ (p # <<>> => Pruned(p, r) # <<>>)
<1> DEFINE near == {i \in DOMAIN p : Distance(p[i], r) < PruneDist}
           m == Min(near)
           q == SubSeq(p, m, Len(p))
<1>1. Len(p) \in Nat /\ DOMAIN p = 1 .. Len(p) /\ \A i \in 1 .. Len(p) : p[i] \in Int
  OBVIOUS
<1>2. CASE near = {}
  BY <1>1, <1>2 DEF Pruned, Ends
<1>3. CASE near # {}
  <2>1. near \subseteq Nat /\ near \subseteq 1 .. Len(p)
    BY <1>1
  <2> HIDE DEF near
  <2>2. m \in near
    BY <1>3, <2>1, HasSmallest DEF Min
  <2> HIDE DEF m
  <2>3. m \in 1 .. Len(p)
    BY <2>1, <2>2
  <2>4. /\ q \in Seq(Int) /\ Len(q) = Len(p) - m + 1
        /\ \A k \in 1 .. Len(p) - m + 1 : q[k] = p[m + k - 1]
    BY <1>1, <2>3, SubSeqProperties
  <2>5. Pruned(p, r) = q
    BY <1>3 DEF Pruned, near, m
  <2> HIDE DEF q
  <2>6. \A k \in 1 .. Len(q) : q[k] = p[Len(p) - Len(q) + k]
    <3> TAKE k \in 1 .. Len(q)
    <3>1. k \in 1 .. Len(p) - m + 1 /\ m + k - 1 = Len(p) - Len(q) + k
      BY <1>1, <2>3, <2>4
    <3> QED BY <2>4, <3>1
  <2>7. Len(q) <= Len(p) /\ q # <<>>
    BY <1>1, <2>3, <2>4
  <2> QED BY <2>4, <2>5, <2>6, <2>7 DEF Ends
<1> QED BY <1>2, <1>3

\* The nearest pose is one that was searched.
LEMMA NearestIs ==
  ASSUME NEW p \in Seq(Int), NEW r \in Int, Searched(p, r) # {}
  PROVE  Nearest(p, r) \in 1 .. Len(p)
<1> DEFINE S == Searched(p, r)
           D == {Distance(p[i], r) : i \in S}
           IsNearest(i) == \A j \in S : \/ Distance(p[i], r) < Distance(p[j], r)
                                        \/ Distance(p[i], r) = Distance(p[j], r) /\ i <= j
<1>1. Len(p) \in Nat /\ DOMAIN p = 1 .. Len(p) /\ \A i \in 1 .. Len(p) : p[i] \in Int
  OBVIOUS
<1>2. S \subseteq 1 .. Len(p)
  <2> DEFINE stops == {j \in DOMAIN p : \/ Distance(p[j], r) > Threshold
                                        \/ Distance(p[j], r) > 0 /\ \E k \in 1..(j - 1) : p[k] = r}
             m == Min(stops)
  <2>1. S = IF stops = {} THEN DOMAIN p ELSE 1 .. (m - 1)
    BY DEF Searched
  <2>2. stops \subseteq Nat /\ stops \subseteq 1 .. Len(p)
    BY <1>1
  <2> HIDE DEF stops
  <2>3. stops # {} => m \in stops
    BY <2>2, HasSmallest DEF Min
  <2> HIDE DEF m, S
  <2>4. CASE stops = {}
    BY <1>1, <2>1, <2>4
  <2>5. CASE stops # {}
    <3>1. m \in 1 .. Len(p)
      BY <2>2, <2>3, <2>5
    <3>2. 1 .. (m - 1) \subseteq 1 .. Len(p)
      BY <1>1, <3>1
    <3> QED BY <2>1, <2>5, <3>2
  <2> QED BY <2>4, <2>5
<1> HIDE DEF S
<1>3. \A i \in S : Distance(p[i], r) \in Nat /\ i \in Nat
  BY <1>1, <1>2 DEF Distance
<1>4. PICK d \in D : \A c \in D : d <= c
  <2>1. D \subseteq Nat /\ D # {}
    BY <1>3 DEF S
  <2> HIDE DEF D
  <2> QED BY <2>1, HasSmallest
<1> DEFINE T == {i \in S : Distance(p[i], r) = d}
<1>5. PICK i \in T : \A j \in T : i <= j
  <2>1. T \subseteq Nat /\ T # {}
    BY <1>3, <1>4
  <2> HIDE DEF T
  <2> QED BY <2>1, HasSmallest
<1>6. i \in S /\ IsNearest(i)
  <2>1. i \in S /\ Distance(p[i], r) = d /\ d \in Nat
    BY <1>3, <1>5
  <2>2. \A j \in S : d <= Distance(p[j], r)
    BY <1>4
  <2>3. \A j \in S : Distance(p[j], r) = d => i <= j
    BY <1>5
  <2> QED BY <1>3, <2>1, <2>2, <2>3
<1>7. Nearest(p, r) = CHOOSE j \in S : IsNearest(j)
  BY DEF Nearest, S
<1> HIDE DEF IsNearest
<1>8. Nearest(p, r) \in S
  BY <1>6, <1>7
<1> QED BY <1>2, <1>8

\* transformGlobalPlan returns a stretch of the plan.
LEMMA TransformedIs ==
  ASSUME NEW p \in Seq(Int), p # <<>>, NEW r \in Int
  PROVE  Stretch(Transformed(p, r).plan, Transformed(p, r).goal, p)
<1>1. Len(p) \in Nat /\ Len(p) > 0 /\ \A i \in 1 .. Len(p) : p[i] \in Int
  OBVIOUS
<1>2. CASE Searched(p, r) = {}
  <2>1. Transformed(p, r).plan = <<Last(p)>> /\ Transformed(p, r).goal = Len(p) - 1
    BY <1>2 DEF Transformed
  <2>2. Last(p) = p[Len(p)] /\ p[Len(p)] \in Int
    BY <1>1 DEF Last
  <2>3. <<Last(p)>> \in Seq(Int) /\ <<Last(p)>> # <<>> /\ Len(<<Last(p)>>) = 1
        /\ <<Last(p)>>[1] = Last(p)
    BY <2>2
  <2> QED BY <1>1, <2>1, <2>2, <2>3 DEF Stretch
<1>3. CASE Searched(p, r) # {}
  <2> DEFINE i == Nearest(p, r)
             e == LastInReach(p, r, i)
             q == SubSeq(p, i, e)
  <2>1. Transformed(p, r).plan = q /\ Transformed(p, r).goal = e - 1
    BY <1>3 DEF Transformed
  <2>2. i \in 1 .. Len(p)
    BY <1>3, NearestIs
  <2> HIDE DEF i
  <2>3. e \in i .. Len(p)
    <3> DEFINE R == {x \in i .. Len(p) : \/ x = Len(p) \/ Distance(p[x], r) > Threshold
                                         \/ Lookahead > 0 /\ Length(p, i, x) > Lookahead}
    <3>1. R \subseteq Nat /\ R # {} /\ R \subseteq i .. Len(p)
      BY <1>1, <2>2
    <3>2. e = Min(R)
      BY DEF LastInReach
    <3> HIDE DEF R, e
    <3>3. e \in R
      BY <3>1, <3>2, HasSmallest DEF Min
    <3> QED BY <3>1, <3>3
  <2> HIDE DEF e
  <2>4. /\ q \in Seq(Int) /\ Len(q) = e - i + 1
        /\ \A k \in 1 .. e - i + 1 : q[k] = p[i + k - 1]
    <3>1. i \in Int /\ e \in Int /\ i <= e /\ \A k \in i .. e : p[k] \in Int
      BY <1>1, <2>2, <2>3
    <3> QED BY <3>1, SubSeqProperties
  <2> HIDE DEF q
  <2>5. \A k \in 1 .. Len(q) : q[k] = p[(e - 1) + 1 - Len(q) + k]
    <3> TAKE k \in 1 .. Len(q)
    <3>1. k \in 1 .. e - i + 1 /\ i + k - 1 = (e - 1) + 1 - Len(q) + k
      BY <1>1, <2>2, <2>3, <2>4
    <3> QED BY <2>4, <3>1
  <2>6. e - 1 \in Nat /\ (e - 1) + 1 \in 1 .. Len(p) /\ Len(q) <= (e - 1) + 1 /\ q # <<>>
    BY <1>1, <2>2, <2>3, <2>4
  <2> QED BY <2>1, <2>4, <2>5, <2>6 DEF Stretch
<1> QED BY <1>2, <1>3

\* The horizon is never shortened: goal_idx counts from the start of the whole plan.
LEMMA ShortenedIs ==
  ASSUME NEW part, NEW goal, NEW whole \in Seq(Int), Stretch(part, goal, whole)
  PROVE  Shortened(part, goal) = [plan |-> part, goal |-> goal]
<1>1. Len(part) \in Nat /\ goal \in Nat /\ ~(goal < Len(part) - 1)
  BY DEF Stretch
<1> QED BY <1>1 DEF Shortened

-----------------------------------------------------------------------------
(* The controller: its obstacles *)

AllVelocities == Velocities \cup {Static}
Messages == Seq([points : Nat, vel : Velocities])

\* Obstacles that move as their own message says.
Own == {o \in [points : Nat, vel : AllVelocities, own : AllVelocities] : o.vel = o.own}

ObstaclesInv == custom_obstacle_msg \in Messages /\ obstacles \in Seq(Own)

\* The velocity is given to the obstacle that was just added.
LEMMA ConvertOwn ==
  ASSUME NEW out \in Seq(Own), NEW m \in [points : Nat, vel : Velocities], m.points > 0
  PROVE  Convert(out, m) \in Seq(Own)
<1> DEFINE o == [points |-> m.points, vel |-> Static, own |-> m.vel]
           c == [points |-> m.points, vel |-> m.vel, own |-> m.vel]
           more == Append(out, o)
           n == Len(out) + 1
           All == [points : Nat, vel : AllVelocities, own : AllVelocities]
<1>1. o \in All /\ c \in Own
  BY DEF Own, AllVelocities
<1>2. out \in Seq(All) /\ Len(out) \in Nat
  <2>1. Own \subseteq All
    BY DEF Own
  <2> HIDE DEF All
  <2> QED BY <2>1, SeqMonotonic
<1>3. more \in Seq(All) /\ Len(more) = n /\ more[n] = o /\ more # <<>>
      /\ \A i \in 1 .. Len(out) : more[i] = out[i]
  <2> HIDE DEF o, All
  <2> QED BY <1>1, <1>2
<1>4. Convert(out, m) = [more EXCEPT ![n].vel = m.vel]
  <2>1. Convert(out, m) = SetLastVelocity(more, m.vel)
    BY DEF Convert
  <2> HIDE DEF more, n
  <2> QED BY <1>3, <2>1 DEF SetLastVelocity
<1>5. [more EXCEPT ![n].vel = m.vel] = [more EXCEPT ![n] = c]
  <2>1. [more[n] EXCEPT !.vel = m.vel] = c
    BY <1>3
  <2> HIDE DEF more, n, c
  <2> QED BY <2>1
<1> DEFINE s == [more EXCEPT ![n] = c]
<1>6. n \in Nat /\ n \in 1 .. Len(more) /\ c \in All /\ \A i \in 1 .. Len(out) : out[i] \in Own
  <2>1. c \in All
    BY <1>1 DEF Own
  <2> HIDE DEF c, All, more
  <2> QED BY <1>2, <1>3, <2>1
<1> HIDE DEF n, c, All, more
<1>7. s \in Seq(All) /\ Len(s) = n /\ \A i \in 1 .. n : s[i] = IF i = n THEN c ELSE more[i]
  BY <1>3, <1>6, ExceptSeq
<1> HIDE DEF s
<1>8. \A i \in 1 .. n : s[i] \in Own
  <2>1. \A i \in 1 .. n : i # n => i \in 1 .. Len(out)
    BY <1>2 DEF n
  <2> QED BY <1>1, <1>3, <1>6, <1>7, <2>1
<1>9. s \in [1 .. n -> Own]
  <2>1. s = [i \in 1 .. n |-> s[i]]
    BY <1>6, <1>7
  <2> QED BY <1>8, <2>1
<1>10. s \in Seq(Own)
  BY <1>6, <1>9
<1> QED BY <1>4, <1>5, <1>10 DEF s

\* The obstacles of the converter, when it sends none without points.
LEMMA ConvertedOwn ==
  ASSUME NEW msgs \in Messages, \A i \in DOMAIN msgs : msgs[i].points > 0
  PROVE  Converted(msgs) \in Seq(Own)
<1> DEFINE L == Len(msgs)
           A == Seq(Own)
           turns == [p \in (1 .. L) \X A |-> Convert(p[2], msgs[p[1]])]
           IsLoop(g) == g = [n \in 0 .. L |-> IF n = 0 THEN <<>> ELSE Convert(g[n - 1], msgs[n])]
           out == CHOOSE g : IsLoop(g)
<1>1. Converted(msgs) = out[L]
  BY DEF Converted
<1>2. /\ L \in Nat /\ DOMAIN msgs = 1 .. L
      /\ \A n \in 1 .. L : msgs[n] \in [points : Nat, vel : Velocities]
  <2> DEFINE M == [points : Nat, vel : Velocities]
  <2>1. msgs \in Seq(M)
    BY DEF Messages
  <2> HIDE DEF M
  <2>2. Len(msgs) \in Nat /\ DOMAIN msgs = 1 .. Len(msgs) /\ \A n \in 1 .. Len(msgs) : msgs[n] \in M
    BY <2>1
  <2> QED BY <2>2 DEF M
<1> HIDE DEF L
<1>3. turns \in [(1 .. L) \X A -> A]
  <2>1. \A p \in (1 .. L) \X A : Convert(p[2], msgs[p[1]]) \in A
    BY <1>2, ConvertOwn
  <2> HIDE DEF A
  <2> QED BY <2>1
<1>4. <<>> \in A
  OBVIOUS
<1> HIDE DEF turns, A
<1>5. PICK g : IsRun(g, L, A, <<>>, turns)
  BY <1>2, <1>3, <1>4, LoopRuns
<1>6. \A n \in 1 .. L : g[n - 1] \in A /\ g[n] = Convert(g[n - 1], msgs[n])
  <2>1. \A n \in 1 .. L : n - 1 \in 0 .. L
    BY <1>2
  <2>2. \A n \in 1 .. L : g[n - 1] \in A
    BY <1>5, <2>1 DEF IsRun
  <2>3. \A n \in 1 .. L, acc \in A : turns[<<n, acc>>] = Convert(acc, msgs[n])
    BY DEF turns
  <2> QED BY <1>5, <2>2, <2>3 DEF IsRun
<1>7. IsLoop(out)
  <2>1. IsLoop(g)
    BY <1>2, <1>5, <1>6 DEF IsRun
  <2> HIDE DEF IsLoop
  <2> QED BY <2>1
<1> HIDE DEF out
<1>8. out[0] = <<>> /\ \A n \in 1 .. L : out[n] = Convert(out[n - 1], msgs[n])
  BY <1>2, <1>7
<1> DEFINE S == {n \in 0 .. L : out[n] = g[n]}
<1>9. 0 \in S /\ \A n \in 0 .. L : n \in S /\ n < L => n + 1 \in S
  <2>1. \A n \in 0 .. L : n < L => n + 1 \in 1 .. L /\ (n + 1) - 1 = n
    BY <1>2
  <2> QED BY <1>2, <1>5, <1>6, <1>8, <2>1 DEF IsRun
<1> HIDE DEF S
<1>10. 0 .. L \subseteq S
  BY <1>2, <1>9, UpTo
<1>11. L \in 0 .. L
  BY <1>2
<1> QED BY <1>1, <1>5, <1>10, <1>11 DEF S, IsRun, A

\* The custom obstacles after those: a message without points is skipped with its velocity.
LEMMA WithCustomOwn ==
  ASSUME NEW msgs \in Messages, NEW out0 \in Seq(Own)
  PROVE  WithCustom(out0, msgs) \in Seq(Own)
<1> DEFINE L == Len(msgs)
           A == Seq(Own)
           turns == [p \in (1 .. L) \X A |-> AddCustom(p[2], msgs[p[1]])]
           IsLoop(g) == g = [n \in 0 .. L |-> IF n = 0 THEN out0 ELSE AddCustom(g[n - 1], msgs[n])]
           out == CHOOSE g : IsLoop(g)
<1>1. WithCustom(out0, msgs) = out[L]
  BY DEF WithCustom
<1>2. /\ L \in Nat /\ DOMAIN msgs = 1 .. L
      /\ \A n \in 1 .. L : msgs[n] \in [points : Nat, vel : Velocities]
  <2> DEFINE M == [points : Nat, vel : Velocities]
  <2>1. msgs \in Seq(M)
    BY DEF Messages
  <2> HIDE DEF M
  <2>2. Len(msgs) \in Nat /\ DOMAIN msgs = 1 .. Len(msgs) /\ \A n \in 1 .. Len(msgs) : msgs[n] \in M
    BY <2>1
  <2> QED BY <2>2 DEF M
<1> HIDE DEF L
<1>3. turns \in [(1 .. L) \X A -> A]
  <2>1. ASSUME NEW acc \in A, NEW n \in 1 .. L
        PROVE  AddCustom(acc, msgs[n]) \in A
    <3>1. msgs[n] \in [points : Nat, vel : Velocities]
      BY <1>2
    <3>2. CASE msgs[n].points = 0
      BY <3>2 DEF AddCustom
    <3>3. CASE msgs[n].points # 0
      <4>1. msgs[n].points > 0
        BY <3>1, <3>3
      <4> QED BY <3>1, <3>3, <4>1, ConvertOwn DEF AddCustom
    <3> QED BY <3>2, <3>3
  <2> HIDE DEF A
  <2> QED BY <2>1
<1>4. out0 \in A
  OBVIOUS
<1> HIDE DEF turns, A
<1>5. PICK g : IsRun(g, L, A, out0, turns)
  BY <1>2, <1>3, <1>4, LoopRuns
<1>6. \A n \in 1 .. L : g[n - 1] \in A /\ g[n] = AddCustom(g[n - 1], msgs[n])
  <2>1. \A n \in 1 .. L : n - 1 \in 0 .. L
    BY <1>2
  <2>2. \A n \in 1 .. L : g[n - 1] \in A
    BY <1>5, <2>1 DEF IsRun
  <2>3. \A n \in 1 .. L, acc \in A : turns[<<n, acc>>] = AddCustom(acc, msgs[n])
    BY DEF turns
  <2> QED BY <1>5, <2>2, <2>3 DEF IsRun
<1>7. IsLoop(out)
  <2>1. IsLoop(g)
    BY <1>2, <1>5, <1>6 DEF IsRun
  <2> HIDE DEF IsLoop
  <2> QED BY <2>1
<1> HIDE DEF out
<1>8. out[0] = out0 /\ \A n \in 1 .. L : out[n] = AddCustom(out[n - 1], msgs[n])
  <2>1. 0 \in 0 .. L /\ \A n \in 1 .. L : n \in 0 .. L /\ n # 0
    BY <1>2
  <2> QED BY <1>7, <2>1
<1> DEFINE S == {n \in 0 .. L : out[n] = g[n]}
<1>9. 0 \in S /\ \A n \in 0 .. L : n \in S /\ n < L => n + 1 \in S
  <2>1. \A n \in 0 .. L : n < L => n + 1 \in 1 .. L /\ (n + 1) - 1 = n
    BY <1>2
  <2> QED BY <1>2, <1>5, <1>6, <1>8, <2>1 DEF IsRun
<1> HIDE DEF S
<1>10. 0 .. L \subseteq S
  BY <1>2, <1>9, UpTo
<1>11. L \in 0 .. L
  BY <1>2
<1> QED BY <1>1, <1>5, <1>10, <1>11 DEF S, IsRun, A

\* The obstacles of the costmap stand still.
LEMMA CostmapOwn ==
  ASSUME NEW lethal \in SUBSET Nat
  PROVE  CostmapObstacles(lethal) \in Seq(Own)
<1> DEFINE seen == {c \in lethal : c < MapSize - 1 /\ ~(c < robot /\ robot - c > Behind)}
           o == [points |-> 1, vel |-> Static, own |-> Static]
<1>1. o \in Own
  BY DEF Own, AllVelocities
<1>2. MapSize \in Nat
  BY ParameterAssumption
<1>3. IsFiniteSet(0 .. MapSize) /\ seen \subseteq 0 .. MapSize
  <2>1. \A c \in Nat : c < MapSize - 1 => c \in 0 .. MapSize
    BY <1>2
  <2>2. seen \subseteq 0 .. MapSize
    BY <2>1
  <2>3. IsFiniteSet(0 .. MapSize)
    BY <1>2, FS_Interval
  <2> QED BY <2>2, <2>3
<1> HIDE DEF seen, o
<1>4. Cardinality(seen) \in Nat
  BY <1>3, FS_Subset, FS_CardinalityType
<1>5. CostmapObstacles(lethal) = [i \in 1 .. Cardinality(seen) |-> o]
  BY DEF CostmapObstacles, seen, o
<1> QED BY <1>1, <1>4, <1>5

-----------------------------------------------------------------------------
(* The controller: its command *)

\* A product of natural numbers grows with each factor.
LEMMA Grows ==
  ASSUME NEW a \in Int, NEW b \in Int, NEW c \in Nat, a <= b
  PROVE  a * c <= b * c
<1>1. (b - a) * c >= 0
  <2> DEFINE k == b - a
  <2>1. k \in Nat
    OBVIOUS
  <2> HIDE DEF k
  <2>2. k * c >= 0
    BY <2>1
  <2> QED BY <2>2 DEF k
<1>2. (b - a) * c = b * c - a * c
  OBVIOUS
<1> QED BY <1>1, <1>2

LEMMA Cancels ==
  ASSUME NEW a \in Int, NEW b \in Int, NEW c \in Nat, c > 0, a * c <= b * c
  PROVE  a <= b
<1> SUFFICES ASSUME a >= b + 1 PROVE FALSE
  OBVIOUS
<1>1. (b + 1) * c <= a * c
  BY Grows
<1>2. (b + 1) * c = b * c + c
  OBVIOUS
<1> QED BY <1>1, <1>2

\* A value within a limit by one ratio is within it by any smaller one.
LEMMA SmallerRatio ==
  ASSUME NEW x \in Int, NEW limit \in Nat,
         NEW a \in Nat, NEW b \in Nat, NEW c \in Nat, NEW d \in Nat,
         b > 0, x * a <= limit * b, c * b <= a * d
  PROVE  x * c <= limit * d
<1>1. CASE x <= 0
  <2>1. x * c <= 0
    <3>1. x * c <= 0 * c
      BY <1>1, Grows
    <3> QED BY <3>1
  <2>2. 0 <= limit * d
    OBVIOUS
  <2> QED BY <2>1, <2>2
<1>2. CASE x > 0
  <2>1. x \in Nat
    BY <1>2
  <2>2. (c * b) * x <= (a * d) * x
    BY <2>1, Grows
  <2>3. (x * a) * d <= (limit * b) * d
    BY Grows
  <2>4. (c * b) * x = (x * c) * b
    OBVIOUS
  <2>5. (a * d) * x = (x * a) * d
    OBVIOUS
  <2>6. (limit * b) * d = (limit * d) * b
    OBVIOUS
  <2>7. (x * c) * b <= (limit * d) * b
    BY <2>2, <2>3, <2>4, <2>5, <2>6
  <2>8. x * c \in Int /\ limit * d \in Int
    OBVIOUS
  <2> QED BY <2>7, <2>8, Cancels
<1> QED BY <1>1, <1>2

Ratios == {r \in Nat \X Nat : r[2] > 0}

LEMMA RatioXIs ==
  ASSUME NEW x \in Int, max_vel \in Nat, config.back \in Int
  PROVE  /\ RatioX(x) \in Ratios
         /\ x * RatioX(x)[1] <= max_vel * RatioX(x)[2]
         /\ config.back > 0 => (-x) * RatioX(x)[1] <= config.back * RatioX(x)[2]
<1>1. CASE x > max_vel
  <2>1. RatioX(x) = <<max_vel, x>>
    BY <1>1 DEF RatioX
  <2>2. x \in Nat /\ x > 0 /\ x * max_vel = max_vel * x
    BY <1>1
  <2>3. ASSUME config.back > 0 PROVE (-x) * max_vel <= config.back * x
    <3>1. (-x) * max_vel <= 0 * max_vel
      BY <2>2, Grows
    <3>2. 0 * x <= config.back * x
      BY <2>2, <2>3, Grows
    <3> QED BY <2>2, <3>1, <3>2
  <2> QED BY <1>1, <2>1, <2>2, <2>3 DEF Ratios
<1>2. CASE ~(x > max_vel) /\ config.back > 0 /\ x < -config.back
  <2>1. RatioX(x) = <<config.back, -x>>
    BY <1>2 DEF RatioX
  <2>2. -x \in Nat /\ -x > 0 /\ config.back \in Nat
    BY <1>2
  <2>3. x * config.back <= 0 * config.back
    BY <2>2, Grows
  <2>4. 0 * (-x) <= max_vel * (-x)
    BY <2>2, Grows
  <2>5. x * config.back <= max_vel * (-x) /\ (-x) * config.back = config.back * (-x)
    BY <2>2, <2>3, <2>4
  <2> QED BY <2>1, <2>2, <2>5 DEF Ratios
<1>3. CASE ~(x > max_vel) /\ ~(config.back > 0 /\ x < -config.back)
  <2>1. RatioX(x) = <<1, 1>>
    BY <1>3 DEF RatioX
  <2> QED BY <1>3, <2>1 DEF Ratios
<1> QED BY <1>1, <1>2, <1>3

LEMMA RatioOfIs ==
  ASSUME NEW v \in Int, NEW limit \in Nat
  PROVE  RatioOf(v, limit) \in Ratios /\ Abs(v) * RatioOf(v, limit)[1] <= limit * RatioOf(v, limit)[2]
<1>1. Abs(v) \in Nat
  BY DEF Abs
<1>2. CASE Abs(v) > limit
  <2>1. RatioOf(v, limit) = <<limit, Abs(v)>>
    BY <1>2 DEF RatioOf
  <2> QED BY <1>1, <1>2, <2>1 DEF Ratios
<1>3. CASE ~(Abs(v) > limit)
  <2>1. RatioOf(v, limit) = <<1, 1>>
    BY <1>3 DEF RatioOf
  <2> QED BY <1>1, <1>3, <2>1 DEF Ratios
<1> QED BY <1>2, <1>3

\* The size of a product is the product of the sizes.
LEMMA AbsScaled ==
  ASSUME NEW w \in Int, NEW c \in Nat
  PROVE  Abs(w * c) = Abs(w) * c
<1>1. CASE w >= 0
  <2>1. 0 * c <= w * c
    BY <1>1, Grows
  <2> QED BY <1>1, <2>1 DEF Abs
<1>2. CASE w < 0
  <2>1. w * c <= 0 * c
    BY <1>2, Grows
  <2>2. -(w * c) = (-w) * c
    OBVIOUS
  <2> QED BY <1>2, <2>1, <2>2 DEF Abs
<1> QED BY <1>1, <1>2

NotAbove(p, q) == p[1] * q[2] <= q[1] * p[2]

LEMMA NotAboveItself ==
  ASSUME NEW p \in Ratios
  PROVE  NotAbove(p, p)
BY DEF Ratios, NotAbove

LEMMA NotAboveTwice ==
  ASSUME NEW p \in Ratios, NEW q \in Ratios, NEW r \in Ratios, NotAbove(p, q), NotAbove(q, r)
  PROVE  NotAbove(p, r)
<1>1. /\ p[1] \in Nat /\ p[2] \in Nat /\ q[1] \in Nat /\ q[2] \in Nat /\ r[1] \in Nat /\ r[2] \in Nat
      /\ q[2] > 0
  BY DEF Ratios
<1>2. p[1] * q[2] <= q[1] * p[2] /\ r[2] * q[1] <= r[1] * q[2]
  BY <1>1 DEF NotAbove
<1>3. r[2] * p[1] <= r[1] * p[2]
  BY <1>1, <1>2, SmallerRatio
<1> QED BY <1>1, <1>3 DEF NotAbove

LEMMA SmallerIs ==
  ASSUME NEW p \in Ratios, NEW q \in Ratios
  PROVE  Smaller(p, q) \in {p, q} /\ NotAbove(Smaller(p, q), p) /\ NotAbove(Smaller(p, q), q)
<1>1. p[1] \in Nat /\ p[2] \in Nat /\ q[1] \in Nat /\ q[2] \in Nat
  BY DEF Ratios
<1>2. p[1] * q[2] \in Nat /\ q[1] * p[2] \in Nat /\ p[1] * p[2] \in Nat /\ q[1] * q[2] \in Nat
  BY <1>1
<1>3. CASE p[1] * q[2] <= q[1] * p[2]
  <2>1. Smaller(p, q) = p
    BY <1>3 DEF Smaller
  <2> QED BY <1>2, <1>3, <2>1, NotAboveItself DEF NotAbove
<1>4. CASE ~(p[1] * q[2] <= q[1] * p[2])
  <2>1. Smaller(p, q) = q
    BY <1>4 DEF Smaller
  <2> QED BY <1>2, <1>4, <2>1, NotAboveItself DEF NotAbove
<1> QED BY <1>3, <1>4

\* A ratio that is not larger than the one a limit asks for keeps the limit, too.
LEMMA KeepsLimit ==
  ASSUME NEW v \in Int, NEW limit \in Nat, NEW p \in Ratios, NEW q \in Ratios,
         v * q[1] <= limit * q[2], NotAbove(p, q)
  PROVE  v * p[1] <= limit * p[2]
<1>1. p[1] \in Nat /\ p[2] \in Nat /\ q[1] \in Nat /\ q[2] \in Nat /\ q[2] > 0
  BY DEF Ratios
<1>2. p[1] * q[2] <= q[1] * p[2]
  BY DEF NotAbove
<1> QED BY <1>1, <1>2, SmallerRatio

LEMMA KeepsSize ==
  ASSUME NEW v \in Int, NEW limit \in Nat, NEW p \in Ratios, NotAbove(p, RatioOf(v, limit))
  PROVE  Abs(v * p[1]) <= limit * p[2]
<1>1. /\ RatioOf(v, limit) \in Ratios
      /\ Abs(v) * RatioOf(v, limit)[1] <= limit * RatioOf(v, limit)[2]
  BY RatioOfIs
<1>2. Abs(v) \in Int
  BY DEF Abs
<1>3. Abs(v) * p[1] <= limit * p[2]
  BY <1>1, <1>2, KeepsLimit
<1>4. p[1] \in Nat
  BY DEF Ratios
<1> QED BY <1>3, <1>4, AbsScaled

\* What saturation does, in both ways of scaling: each velocity by a ratio that its limit allows.
LEMMA SaturatedIs ==
  ASSUME NEW raw \in [x : Int, y : Int, w : Int], config \in ConfigType, max_vel \in Nat
  PROVE  \E p \in Ratios, q \in Ratios, r \in Ratios :
           /\ Saturated(raw) = [x |-> Scaled(raw.x, p), y |-> Scaled(raw.y, q), w |-> Scaled(raw.w, r)]
           /\ NotAbove(p, RatioX(raw.x)) /\ NotAbove(q, RatioOf(raw.y, config.side))
           /\ NotAbove(r, RatioOf(raw.w, config.turn))
           /\ config.proportional => p = q /\ q = r
           /\ /\ RatioX(raw.x) = <<1, 1>> /\ RatioOf(raw.y, config.side) = <<1, 1>>
              /\ RatioOf(raw.w, config.turn) = <<1, 1>>
              => p = <<1, 1>> /\ q = <<1, 1>> /\ r = <<1, 1>>
<1> DEFINE rx == RatioX(raw.x)
           ry == RatioOf(raw.y, config.side)
           rw == RatioOf(raw.w, config.turn)
           s == Smaller(rx, ry)
           t == Smaller(s, rw)
<1>1. rx \in Ratios /\ ry \in Ratios /\ rw \in Ratios
  BY RatioXIs, RatioOfIs DEF ConfigType
<1>2. CASE config.proportional
  <2>1. Saturated(raw) = [x |-> Scaled(raw.x, t), y |-> Scaled(raw.y, t), w |-> Scaled(raw.w, t)]
    BY <1>2 DEF Saturated
  <2> HIDE DEF rx, ry, rw
  <2>2. s \in {rx, ry} /\ NotAbove(s, rx) /\ NotAbove(s, ry)
    BY <1>1, SmallerIs
  <2>3. t \in {s, rw} /\ NotAbove(t, s) /\ NotAbove(t, rw)
    BY <1>1, <2>2, SmallerIs
  <2> HIDE DEF s, t
  <2>4. t \in Ratios /\ NotAbove(t, rx) /\ NotAbove(t, ry)
    BY <1>1, <2>2, <2>3, NotAboveTwice
  <2>5. rx = <<1, 1>> /\ ry = <<1, 1>> /\ rw = <<1, 1>> => t = <<1, 1>>
    BY <2>2, <2>3
  <2> QED BY <2>1, <2>3, <2>4, <2>5 DEF rx, ry, rw
<1>3. CASE ~config.proportional
  <2>1. Saturated(raw) = [x |-> Scaled(raw.x, rx), y |-> Scaled(raw.y, ry), w |-> Scaled(raw.w, rw)]
    BY <1>3 DEF Saturated
  <2>2. NotAbove(rx, rx) /\ NotAbove(ry, ry) /\ NotAbove(rw, rw)
    BY <1>1, NotAboveItself
  <2> QED BY <1>1, <1>3, <2>1, <2>2
<1> QED BY <1>2, <1>3

\* No angle turns the car in a circle smaller than its smallest.
LEMMA SteeringIs ==
  ASSUME NEW x \in Int \X Nat, NEW w \in Int \X Nat, config.radius \in Nat
  PROVE  Abs(Steering(x, w)[1]) * config.radius <= Wheelbase * Steering(x, w)[2]
<1> DEFINE n == x[1] * w[2]
           d == w[1] * x[2]
           side == Sign(n) * Sign(d)
<1>1. n \in Int /\ d \in Int /\ Wheelbase \in Nat
  BY ParameterAssumption
<1>2. CASE n = 0 \/ d = 0
  <2>1. Steering(x, w) = <<0, 1>>
    BY <1>2 DEF Steering
  <2> QED BY <1>1, <2>1 DEF Abs
<1>3. side \in {-1, 0, 1}
  BY <1>1 DEF Sign
<1>4. ASSUME NEW k \in Nat PROVE Abs(side * k) <= k
  <2>1. side * k \in {-k, 0, k}
    BY <1>3
  <2> QED BY <2>1 DEF Abs
<1>5. Abs(n) \in Nat /\ Abs(d) \in Nat
  BY <1>1 DEF Abs
<1>6. CASE ~(n = 0 \/ d = 0) /\ Abs(n) < config.radius * Abs(d)
  <2>1. Steering(x, w) = <<side * Wheelbase, config.radius>>
    BY <1>6 DEF Steering
  <2> HIDE DEF side
  <2>2. Abs(side * Wheelbase) <= Wheelbase /\ Abs(side * Wheelbase) \in Int
    BY <1>1, <1>3, <1>4 DEF Abs
  <2>3. Abs(side * Wheelbase) * config.radius <= Wheelbase * config.radius
    BY <1>1, <2>2, Grows
  <2> QED BY <2>1, <2>3
<1>7. CASE ~(n = 0 \/ d = 0) /\ ~(Abs(n) < config.radius * Abs(d))
  <2>1. Steering(x, w) = <<side * Wheelbase * Abs(d), Abs(n)>>
    BY <1>7 DEF Steering
  <2> HIDE DEF side
  <2> DEFINE k == Wheelbase * Abs(d)
  <2>2. k \in Nat /\ side * Wheelbase * Abs(d) = side * k
    BY <1>1, <1>3, <1>5
  <2>3. k * config.radius = (config.radius * Abs(d)) * Wheelbase
    BY <1>1, <1>5
  <2>4. (config.radius * Abs(d)) * Wheelbase <= Abs(n) * Wheelbase
    BY <1>1, <1>5, <1>7, Grows
  <2> HIDE DEF k, n, d
  <2>5. Abs(side * k) <= k /\ Abs(side * k) \in Int
    BY <1>3, <1>4, <2>2 DEF Abs
  <2>6. Abs(side * k) * config.radius <= k * config.radius
    BY <2>2, <2>5, Grows
  <2>7. Abs(n) * Wheelbase = Wheelbase * Abs(n)
    BY <1>1, <1>5
  <2> QED BY <1>1, <1>5, <2>1, <2>2, <2>3, <2>4, <2>5, <2>6, <2>7
<1> QED BY <1>2, <1>6, <1>7

-----------------------------------------------------------------------------
(* The controller: its velocity limits *)

LEMMA MinOfTwo ==
  ASSUME NEW a \in Int, NEW b \in Int
  PROVE  Min({a, b}) = IF a <= b THEN a ELSE b
BY DEF Min

LEMMA FastestIs ==
  ASSUME NEW base \in [x : Nat, back : Int, y : Int]
  PROVE  Fastest(base) \in Nat /\ base.x <= Fastest(base)
<1>1. \E m \in {base.x, base.back, base.y} : \A k \in {base.x, base.back, base.y} : m >= k
  OBVIOUS
<1>2. /\ Fastest(base) \in {base.x, base.back, base.y}
      /\ \A k \in {base.x, base.back, base.y} : Fastest(base) >= k
  BY <1>1 DEF Fastest, Max
<1> QED BY <1>2

\* A part of a velocity is below the whole of it, and below the part of the fastest.
LEMMA InProportionIs ==
  ASSUME NEW v \in Nat, NEW part \in Nat, NEW whole \in Nat, whole > 0, part <= whole
  PROVE  /\ InProportion(v, part, whole) \in Nat /\ InProportion(v, part, whole) <= v
         /\ v <= whole => InProportion(v, part, whole) <= part
<1> DEFINE q == (v * part) \div whole
<1>1. q \in Nat /\ q * whole <= v * part
  <2>1. v * part \in Nat
    OBVIOUS
  <2> DEFINE a == v * part
  <2> HIDE DEF a
  <2>2. a \in Nat => (a \div whole) \in Nat /\ (a \div whole) * whole <= a
    OBVIOUS
  <2> QED BY <2>1, <2>2 DEF a
<1> HIDE DEF q
<1>2. v * part <= v * whole
  BY Grows
<1>3. q <= v
  <2>1. q * whole <= v * whole
    BY <1>1, <1>2
  <2> QED BY <1>1, <2>1, Cancels
<1>4. ASSUME v <= whole PROVE q <= part
  <2>1. v * part <= whole * part
    BY <1>4, Grows
  <2>2. q * whole <= part * whole
    BY <1>1, <2>1
  <2> QED BY <1>1, <2>2, Cancels
<1> QED BY <1>1, <1>3, <1>4 DEF InProportion, q

LEMMA SlowedIs ==
  ASSUME NEW base \in [x : Nat, back : Int, y : Int], NEW part \in Nat, NEW whole \in Nat, whole > 0
  PROVE  Slowed(base, part, whole) \in [x : Nat, back : Int, y : Int] /\ Slowed(base, part, whole).x = base.x
<1>1. ASSUME NEW v \in Int PROVE InProportion(v, part, whole) \in Int
  <2>1. v * part \in Int
    OBVIOUS
  <2> QED BY <2>1 DEF InProportion
<1> QED BY <1>1 DEF Slowed

-----------------------------------------------------------------------------
(* The controller: its invariant *)

LimitsInv ==
  /\ max_vel \in Nat /\ configured \in Nat /\ base_max_vel \in [x : Nat, back : Int, y : Int]
  /\ last_limit \in SpeedLimits \cup {NoLimit}
  /\ base_max_vel.x = configured =>
       /\ max_vel <= configured /\ max_vel <= Allowed
       /\ last_limit.kind # "absolute" => max_vel = Allowed

\* What keeps the limits.
LEMMA LimitsKept ==
  ASSUME LimitsInv, UNCHANGED <<max_vel, base_max_vel, configured, last_limit>>
  PROVE  LimitsInv'
<1>1. Allowed' = Allowed
  BY DEF Allowed, InProportion
<1> QED BY <1>1 DEF LimitsInv

\* Each speed limit replaces the one before, whatever became of the base velocities.
LEMMA LimitsSet ==
  ASSUME LimitsInv, NEW limit \in SpeedLimits, setSpeedLimit(limit)
  PROVE  LimitsInv'
<1> DEFINE Base == [x : Nat, back : Int, y : Int]
<1>1. /\ limit \in [kind : {"none", "percentage", "absolute"}, value : Nat]
      /\ limit.kind = "percentage" => limit.value <= 100
  BY ParameterAssumption
<1>2. last_limit' = limit /\ configured' = configured
  BY DEF setSpeedLimit, LimitArrives
<1>3. base_max_vel \in Base /\ max_vel \in Nat /\ configured \in Nat
  BY DEF LimitsInv
<1>4. base_max_vel.x \in Nat
  BY <1>3
<1>5. CASE limit.kind = "none"
  <2>1. max_vel' = base_max_vel.x /\ base_max_vel' = base_max_vel
    BY <1>5 DEF setSpeedLimit
  <2>2. Allowed' = configured
    BY <1>2, <1>5 DEF Allowed
  <2> QED BY <1>2, <1>3, <1>4, <2>1, <2>2 DEF LimitsInv
<1>6. CASE limit.kind = "percentage"
  <2>1. /\ max_vel' = InProportion(base_max_vel.x, limit.value, 100)
        /\ base_max_vel' = Slowed(base_max_vel, limit.value, 100)
    BY <1>6 DEF setSpeedLimit
  <2>2. base_max_vel' \in Base /\ base_max_vel'.x = base_max_vel.x
    BY <1>1, <1>3, <2>1, SlowedIs
  <2>3. max_vel' \in Nat /\ max_vel' <= base_max_vel.x
    BY <1>1, <1>4, <1>6, <2>1, InProportionIs
  <2>4. Allowed' = InProportion(configured, limit.value, 100)
    BY <1>2, <1>6 DEF Allowed, InProportion
  <2>5. base_max_vel.x = configured => max_vel' = Allowed'
    BY <2>1, <2>4
  <2> QED BY <1>2, <1>3, <2>2, <2>3, <2>5 DEF LimitsInv
<1>7. CASE limit.kind = "absolute"
  <2>1. Fastest(base_max_vel) \in Nat /\ base_max_vel.x <= Fastest(base_max_vel)
    BY <1>3, FastestIs
  <2>2. Allowed' = Min({configured, limit.value})
    BY <1>2, <1>7 DEF Allowed
  <2>3. Allowed' = IF configured <= limit.value THEN configured ELSE limit.value
    BY <1>1, <1>3, <2>2, MinOfTwo
  <2>4. CASE limit.value < Fastest(base_max_vel)
    <3>1. /\ max_vel' = InProportion(base_max_vel.x, limit.value, Fastest(base_max_vel))
          /\ base_max_vel' = Slowed(base_max_vel, limit.value, Fastest(base_max_vel))
      BY <1>7, <2>4 DEF setSpeedLimit
    <3>2. base_max_vel' \in Base /\ base_max_vel'.x = base_max_vel.x
      BY <1>1, <1>3, <2>1, <2>4, <3>1, SlowedIs
    <3>3. max_vel' \in Nat /\ max_vel' <= base_max_vel.x /\ max_vel' <= limit.value
      BY <1>1, <1>4, <2>1, <2>4, <3>1, InProportionIs
    <3> QED BY <1>2, <1>3, <1>7, <2>3, <3>2, <3>3 DEF LimitsInv
  <2>5. CASE ~(limit.value < Fastest(base_max_vel))
    <3>1. max_vel' = max_vel /\ base_max_vel' = base_max_vel
      BY <1>7, <2>5 DEF setSpeedLimit
    <3>2. base_max_vel.x = configured => max_vel <= configured /\ configured <= limit.value
      BY <1>1, <1>4, <2>1, <2>5 DEF LimitsInv
    <3> QED BY <1>2, <1>3, <1>7, <2>3, <3>1, <3>2 DEF LimitsInv
  <2> QED BY <2>4, <2>5
<1> QED BY <1>1, <1>5, <1>6, <1>7

LEMMA LimitsConfigured ==
  ASSUME LimitsInv, config \in ConfigType, dynamicParametersCallback
  PROVE  LimitsInv'
<1>1. CASE \E v \in config.settings :
             /\ max_vel' = v /\ base_max_vel' = [base_max_vel EXCEPT !.x = v]
             /\ configured' = v /\ last_limit' = NoLimit
  <2>1. PICK v \in config.settings :
          /\ max_vel' = v /\ base_max_vel' = [base_max_vel EXCEPT !.x = v]
          /\ configured' = v /\ last_limit' = NoLimit
    BY <1>1
  <2>2. v \in Nat
    BY DEF ConfigType
  <2>3. Allowed' = v
    BY <2>1 DEF Allowed, NoLimit
  <2> QED BY <2>1, <2>2, <2>3 DEF LimitsInv
<1>2. CASE /\ base_max_vel' \in {[base_max_vel EXCEPT !.back = config.back],
                                [base_max_vel EXCEPT !.y = config.side]}
           /\ UNCHANGED <<max_vel, configured, last_limit>>
  <2>1. Allowed' = Allowed
    BY <1>2 DEF Allowed, InProportion
  <2>2. config.back \in Int /\ config.side \in Int
    BY DEF ConfigType
  <2>3. base_max_vel' \in [x : Nat, back : Int, y : Int] /\ base_max_vel'.x = base_max_vel.x
    BY <1>2, <2>2 DEF LimitsInv
  <2> QED BY <1>2, <2>1, <2>3 DEF LimitsInv
<1>3. CASE UNCHANGED <<max_vel, base_max_vel, configured, last_limit>>
  BY <1>3, LimitsKept
<1> QED BY <1>1, <1>2, <1>3 DEF dynamicParametersCallback

\* What the two properties of the controller take.
ControllerInv == PlanInv /\ ObstaclesInv /\ LimitsInv

\* Whatever changes, a plan that is not touched keeps its goal.
LEMMA PlanStays ==
  ASSUME PlanInv, UNCHANGED <<config, plan>>,
         stage' \in {"idle", "via", "backup", "obstacles", "plan", "command"},
         stage' \in {"via", "backup", "obstacles", "plan"} =>
           /\ stage \in {"via", "backup", "obstacles", "plan"}
           /\ UNCHANGED <<transformed, goal_idx>>
  PROVE  PlanInv'
BY DEF PlanInv, plan

LEMMA SetPlanStep ==
  ASSUME ControllerInv, NEW p \in config.plans, setPlan(p)
  PROVE  ControllerInv'
<1>1. p \in Seq(Int) /\ p # <<>>
  BY ParameterAssumption DEF ControllerInv, PlanInv, ConfigType
<1>2. Ends(p, p)
  BY <1>1 DEF Ends
<1>3. PlanInv'
  BY <1>1, <1>2 DEF ControllerInv, PlanInv, setPlan
<1> QED BY <1>3, LimitsKept DEF ControllerInv, ObstaclesInv, setPlan, limits

\* A tail of a tail of the plan is a tail of it.
LEMMA EndsTwice ==
  ASSUME NEW s \in Seq(Int), NEW t \in Seq(Int), NEW u \in Seq(Int), Ends(s, t), Ends(t, u)
  PROVE  Ends(s, u)
<1>1. Len(s) \in Nat /\ Len(t) \in Nat /\ Len(u) \in Nat /\ Len(s) <= Len(t) /\ Len(t) <= Len(u)
  BY DEF Ends
<1>2. ASSUME NEW k \in 1 .. Len(s) PROVE s[k] = u[Len(u) - Len(s) + k]
  <2>1. /\ Len(t) - Len(s) + k \in 1 .. Len(t)
        /\ Len(u) - Len(t) + (Len(t) - Len(s) + k) = Len(u) - Len(s) + k
    BY <1>1
  <2>2. s[k] = t[Len(t) - Len(s) + k]
    BY DEF Ends
  <2>3. t[Len(t) - Len(s) + k] = u[Len(u) - Len(t) + (Len(t) - Len(s) + k)]
    BY <2>1 DEF Ends
  <2> QED BY <2>1, <2>2, <2>3
<1>3. \A k \in 1 .. Len(s) : s[k] = u[Len(u) - Len(s) + k]
  BY <1>2
<1>4. Len(s) <= Len(u)
  BY <1>1
<1> QED BY <1>3, <1>4 DEF Ends

LEMMA BeginStep ==
  ASSUME ControllerInv, NEW r \in config.poses, NEW rot, Begin(r, rot)
  PROVE  ControllerInv'
<1>1. r \in Int
  BY ParameterAssumption DEF ControllerInv, PlanInv, ConfigType
<1>2. global_plan \in Seq(Int) /\ last_plan \in Seq(Int) /\ Ends(global_plan, last_plan)
      /\ (last_plan # <<>> => global_plan # <<>>) /\ config \in Configs
  BY DEF ControllerInv, PlanInv
<1>3. global_plan' = Pruned(global_plan, r) /\ last_plan' = last_plan /\ config' = config
  BY DEF Begin
<1>4. /\ global_plan' \in Seq(Int) /\ Ends(global_plan', last_plan')
      /\ last_plan' # <<>> => global_plan' # <<>>
  BY <1>1, <1>2, <1>3, PrunedIs, EndsTwice
<1>5. CASE global_plan' = <<>>
  <2>1. stage' = "idle"
    BY <1>5 DEF Begin
  <2> QED BY <1>2, <1>3, <1>4, <2>1, LimitsKept
          DEF ControllerInv, PlanInv, ObstaclesInv, Begin, limits
<1>6. CASE global_plan' # <<>>
  <2>1. /\ transformed' = Transformed(global_plan', r).plan
        /\ goal_idx' = Transformed(global_plan', r).goal
        /\ stage' \in {"backup", "via"}
    BY <1>6 DEF Begin
  <2>2. Stretch(transformed', goal_idx', global_plan')
    BY <1>1, <1>4, <1>6, <2>1, TransformedIs
  <2> QED BY <1>2, <1>3, <1>4, <2>1, <2>2, LimitsKept
          DEF ControllerInv, PlanInv, ObstaclesInv, Begin, limits
<1> QED BY <1>5, <1>6

LEMMA NoTransformStep ==
  ASSUME ControllerInv, NoTransform
  PROVE  ControllerInv'
<1>1. PICK r \in config.poses : global_plan' \in {global_plan, Pruned(global_plan, r)}
  BY DEF NoTransform
<1>2. r \in Int
  BY ParameterAssumption DEF ControllerInv, PlanInv, ConfigType
<1>3. global_plan \in Seq(Int) /\ last_plan \in Seq(Int) /\ Ends(global_plan, last_plan)
      /\ (last_plan # <<>> => global_plan # <<>>) /\ config \in Configs
  BY DEF ControllerInv, PlanInv
<1>4. /\ global_plan' \in Seq(Int) /\ Ends(global_plan', last_plan)
      /\ last_plan # <<>> => global_plan' # <<>>
  BY <1>1, <1>2, <1>3, PrunedIs, EndsTwice
<1>5. stage' = "idle" /\ last_plan' = last_plan /\ config' = config
  BY DEF NoTransform
<1> QED BY <1>3, <1>4, <1>5, LimitsKept
        DEF ControllerInv, PlanInv, ObstaclesInv, NoTransform, limits

LEMMA BackupStep ==
  ASSUME ControllerInv, configureBackupModes
  PROVE  ControllerInv'
<1>1. global_plan \in Seq(Int) /\ Stretch(transformed, goal_idx, global_plan)
  BY DEF ControllerInv, PlanInv, configureBackupModes
<1>2. Shortened(transformed, goal_idx) = [plan |-> transformed, goal |-> goal_idx]
  BY <1>1, ShortenedIs
<1>3. transformed' = transformed /\ goal_idx' = goal_idx
  BY <1>2 DEF configureBackupModes
<1>4. PlanInv'
  BY <1>3, PlanStays DEF ControllerInv, configureBackupModes
<1> QED BY <1>4, LimitsKept DEF ControllerInv, ObstaclesInv, configureBackupModes, limits

LEMMA ObstaclesStep ==
  ASSUME ControllerInv, UpdateObstacles
  PROVE  ControllerInv'
<1>1. custom_obstacle_msg \in Messages
  BY DEF ControllerInv, ObstaclesInv
<1>2. ASSUME config.converter PROVE obstacles' \in Seq(Own)
  <2>1. PICK msgs \in ObstacleMsgs :
          /\ \A i \in DOMAIN msgs : msgs[i].points > 0
          /\ obstacles' = WithCustom(Converted(msgs), custom_obstacle_msg)
    BY <1>2 DEF UpdateObstacles
  <2>2. msgs \in Messages
    BY ParameterAssumption DEF Messages
  <2> QED BY <1>1, <2>1, <2>2, ConvertedOwn, WithCustomOwn
<1>3. ASSUME ~config.converter PROVE obstacles' \in Seq(Own)
  <2>1. PICK lethal \in Lethals :
          obstacles' = WithCustom(CostmapObstacles(lethal), custom_obstacle_msg)
    BY <1>3 DEF UpdateObstacles
  <2>2. lethal \in SUBSET Nat
    BY ParameterAssumption
  <2> QED BY <1>1, <2>1, <2>2, CostmapOwn, WithCustomOwn
<1>4. obstacles' \in Seq(Own)
  BY <1>2, <1>3
<1>5. PlanInv'
  BY PlanStays DEF ControllerInv, UpdateObstacles
<1> QED BY <1>4, <1>5, LimitsKept DEF ControllerInv, ObstaclesInv, UpdateObstacles, limits

\* A step that changes none of what the invariant speaks about but the stage.
LEMMA QuietStep ==
  ASSUME ControllerInv, UNCHANGED <<config, plan, custom_obstacle_msg>>,
         UNCHANGED <<max_vel, base_max_vel, configured, last_limit>>,
         obstacles' \in {obstacles, <<>>},
         stage' \in {"idle", "via", "backup", "obstacles", "plan", "command"},
         stage' \in {"via", "backup", "obstacles", "plan"} =>
           /\ stage \in {"via", "backup", "obstacles", "plan"}
           /\ UNCHANGED <<transformed, goal_idx>>
  PROVE  ControllerInv'
<1>1. PlanInv'
  BY PlanStays DEF ControllerInv
<1>2. obstacles' \in Seq(Own)
  <2>1. <<>> \in Seq(Own) /\ obstacles \in Seq(Own)
    BY EmptySeq DEF ControllerInv, ObstaclesInv
  <2> QED BY <2>1
<1> QED BY <1>1, <1>2, LimitsKept DEF ControllerInv, ObstaclesInv

\* A step at a stage that does not change it.
LEMMA StageKept ==
  ASSUME ControllerInv, UNCHANGED <<max_vel, base_max_vel, configured, last_limit>>,
         UNCHANGED <<config, plan, custom_obstacle_msg, stage, transformed, goal_idx, obstacles>>
  PROVE  ControllerInv'
BY QuietStep DEF ControllerInv, PlanInv

LEMMA ObstacleCBStep ==
  ASSUME ControllerInv, NEW msg \in ObstacleMsgs, customObstacleCB(msg)
  PROVE  ControllerInv'
<1>1. msg \in Messages
  BY ParameterAssumption DEF Messages
<1>2. PlanInv'
  BY PlanStays DEF ControllerInv, PlanInv, customObstacleCB
<1> QED BY <1>1, <1>2, LimitsKept DEF ControllerInv, ObstaclesInv, customObstacleCB, limits

LEMMA LimitStep ==
  ASSUME ControllerInv, UNCHANGED <<config, plan, custom_obstacle_msg, stage, transformed, goal_idx,
                                    obstacles>>,
         LimitsInv'
  PROVE  ControllerInv'
<1>1. PlanInv'
  BY PlanStays DEF ControllerInv, PlanInv
<1> QED BY <1>1 DEF ControllerInv, ObstaclesInv

LEMMA ControllerStep ==
  ASSUME ControllerInv, ControllerNext
  PROVE  ControllerInv'
<1>1. config \in ConfigType /\ LimitsInv
  BY ParameterAssumption DEF ControllerInv, PlanInv
<1>2. ASSUME NEW p \in config.plans, setPlan(p) PROVE ControllerInv'
  BY <1>2, SetPlanStep
<1>3. ASSUME NEW r \in config.poses, NEW rot \in {-1, 1}, Begin(r, rot) PROVE ControllerInv'
  BY <1>3, BeginStep
<1>4. CASE NoTransform
  BY <1>4, NoTransformStep
<1>5. CASE updateViaPointsContainer
  BY <1>5, QuietStep DEF updateViaPointsContainer, limits
<1>6. CASE configureBackupModes
  BY <1>6, BackupStep
<1>7. CASE UpdateObstacles
  BY <1>7, ObstaclesStep
<1>8. CASE PlanFails
  BY <1>8, QuietStep DEF PlanFails, Fail, Locals, limits
<1>9. CASE Plan
  BY <1>9, QuietStep DEF Plan, Locals, limits
<1>10. CASE CommandFails
  BY <1>10, QuietStep DEF CommandFails, Fail, limits
<1>11. ASSUME NEW raw \in config.commands, Command(raw) PROVE ControllerInv'
  BY <1>11, QuietStep DEF Command, limits
<1>12. ASSUME NEW points \in ViaMsgs, customViaPointsCB(points) PROVE ControllerInv'
  BY <1>12, StageKept DEF customViaPointsCB, limits
<1>13. ASSUME NEW msg \in ObstacleMsgs, customObstacleCB(msg) PROVE ControllerInv'
  BY <1>13, ObstacleCBStep
<1>14. ASSUME NEW limit \in SpeedLimits, setSpeedLimit(limit) PROVE ControllerInv'
  <2>1. LimitsInv'
    BY <1>1, <1>14, LimitsSet
  <2> QED BY <1>14, <2>1, LimitStep DEF setSpeedLimit, LimitArrives
<1>15. CASE dynamicParametersCallback
  <2>1. LimitsInv'
    BY <1>1, <1>15, LimitsConfigured
  <2> QED BY <1>15, <2>1, LimitStep DEF dynamicParametersCallback
<1>16. CASE FailureFades
  BY <1>16, StageKept DEF FailureFades, limits
<1>17. CASE OscillationFades
  BY <1>17, StageKept DEF OscillationFades, limits
<1> QED BY <1>2, <1>3, <1>4, <1>5, <1>6, <1>7, <1>8, <1>9, <1>10, <1>11, <1>12, <1>13, <1>14, <1>15,
           <1>16, <1>17 DEF ControllerNext, Cycle, Callback

LEMMA ControllerStarts ==
  ASSUME ControllerInit
  PROVE  ControllerInv
<1>1. config \in ConfigType /\ config \in Configs
  BY ParameterAssumption DEF ControllerInit
<1>2. Ends(<<>>, <<>>) /\ <<>> \in Seq(Int) /\ <<>> \in Seq(Own)
      /\ <<>> \in Seq([points : Nat, vel : Velocities])
  BY EmptySeq DEF Ends
<1>3. PlanInv
  BY <1>1, <1>2 DEF ControllerInit, PlanInv
<1>4. ObstaclesInv
  BY <1>2 DEF ControllerInit, ObstaclesInv, Messages
<1>5. LimitsInv
  <2>1. Allowed = config.max
    BY DEF ControllerInit, Allowed, NoLimit
  <2>2. base_max_vel \in [x : Nat, back : Int, y : Int]
    BY <1>1 DEF ControllerInit, ConfigType
  <2> QED BY <1>1, <2>1, <2>2 DEF ControllerInit, LimitsInv, ConfigType
<1> QED BY <1>3, <1>4, <1>5 DEF ControllerInv

\* With or without the worker of the converter, for any plans, messages, costmaps and limits.
THEOREM ControllerInvariant == ControlSpec => []ControllerInv
<1>1. ControlInit => ControllerInv
  BY ControllerStarts DEF ControlInit
<1>2. ControllerInv /\ [ControlNext]_allVars => ControllerInv'
  <2> SUFFICES ASSUME ControllerInv, [ControlNext]_allVars PROVE ControllerInv'
    OBVIOUS
  <2>1. CASE ControllerNext
    BY <2>1, ControllerStep
  <2>2. CASE UNCHANGED controllerVars
    BY <2>2, StageKept DEF controllerVars, limits
  <2>3. ControllerNext \/ UNCHANGED controllerVars
    BY DEF ControlNext, Initialize, Controls, Converts, Cleanup, allVars
  <2> QED BY <2>1, <2>2, <2>3
<1> QED BY <1>1, <1>2, PTL DEF ControlSpec

\* However a plan is pruned, searched and cut, it keeps its goal, and goal_idx names the last pose
\* of what the planner gets; every obstacle moves as its own message says, though the velocity is
\* given to whatever obstacle is last.
THEOREM PlanAndObstaclesKept == ControlSpec => []ControlInv
<1>1. ControllerInv => ControlInv
  <2> SUFFICES ASSUME ControllerInv PROVE PlanKeepsGoal /\ ObstaclesHaveOwnVelocity
    BY DEF ControlInv
  <2>1. ObstaclesHaveOwnVelocity
    <3>1. \A i \in DOMAIN obstacles : obstacles[i] \in Own
      BY DEF ControllerInv, ObstaclesInv
    <3> QED BY <3>1 DEF ObstaclesHaveOwnVelocity, Own
  <2>2. IsSuffix(global_plan, last_plan) /\ (last_plan # <<>> => global_plan # <<>>)
    BY SuffixIs DEF ControllerInv, PlanInv
  <2>3. ASSUME stage \in {"via", "backup", "obstacles", "plan"}
        PROVE  /\ goal_idx + 1 \in DOMAIN global_plan
               /\ Last(transformed) = global_plan[goal_idx + 1]
               /\ IsSuffix(transformed, SubSeq(global_plan, 1, goal_idx + 1))
    <3> DEFINE whole == SubSeq(global_plan, 1, goal_idx + 1)
               m == goal_idx + 1
    <3>1. global_plan \in Seq(Int) /\ Stretch(transformed, goal_idx, global_plan)
      BY <2>3 DEF ControllerInv, PlanInv
    <3>2. /\ transformed \in Seq(Int) /\ transformed # <<>> /\ m \in 1 .. Len(global_plan)
          /\ Len(transformed) <= m /\ m \in Int /\ Len(global_plan) \in Nat
          /\ Len(transformed) \in Nat
          /\ \A k \in 1 .. Len(transformed) : transformed[k] = global_plan[m - Len(transformed) + k]
      BY <3>1 DEF Stretch
    <3>3. \A k \in 1 .. m : global_plan[k] \in Int
      BY <3>1, <3>2
    <3> HIDE DEF m
    <3>4. /\ SubSeq(global_plan, 1, m) \in Seq(Int) /\ Len(SubSeq(global_plan, 1, m)) = m
          /\ \A k \in 1 .. m : SubSeq(global_plan, 1, m)[k] = global_plan[k]
      BY <3>2, <3>3, SubSeqProperties
    <3> DEFINE part == SubSeq(global_plan, 1, m)
    <3> HIDE DEF part
    <3>5. \A k \in 1 .. Len(transformed) : transformed[k] = part[Len(part) - Len(transformed) + k]
      <4> TAKE k \in 1 .. Len(transformed)
      <4>1. m - Len(transformed) + k \in 1 .. m
        BY <3>2
      <4> QED BY <3>2, <3>4, <4>1 DEF part
    <3>6. Ends(transformed, part)
      BY <3>2, <3>4, <3>5 DEF Ends, part
    <3>7. IsSuffix(transformed, part)
      BY <3>2, <3>4, <3>6, SuffixIs DEF part
    <3>8. Len(transformed) \in 1 .. Len(transformed) /\ m - Len(transformed) + Len(transformed) = m
      BY <3>2
    <3>9. Last(transformed) = global_plan[m]
      BY <3>2, <3>8 DEF Last
    <3>10. m \in DOMAIN global_plan
      BY <3>1, <3>2
    <3> QED BY <3>7, <3>9, <3>10 DEF m, part
  <2> QED BY <2>1, <2>2, <2>3 DEF PlanKeepsGoal
<1> QED BY <1>1, ControllerInvariant, PTL

\* Where the velocities have one unit of measurement a value of ratio one is itself.
LEMMA Whole ==
  ASSUME NEW v \in Int
  PROVE  Scaled(v, <<1, 1>>) = <<v, 1>>
BY DEF Scaled

\* Whatever limits, parameters and commands come, and in whatever order: a command drives forward
\* no faster than the configured velocity and the last speed limit allow, no earlier limit is left,
\* and strafing, driving backwards, turning and the car's smallest circle keep their limits; the
\* proportional way keeps the direction and the curvature.
THEOREM CommandsWithinLimits == ControlSpec => CommandWithinLimits
<1>1. ASSUME ControllerInv, NEW raw \in config.commands, Command(raw)
      PROVE  LastLimitGoverns(raw) /\ CommandSaturated(raw)
  <2>1. config \in ConfigType /\ LimitsInv
    BY <1>1, ParameterAssumption DEF ControllerInv, PlanInv
  <2>2. raw \in [x : Int, y : Int, w : Int]
    BY <1>1, <2>1, ParameterAssumption DEF ConfigType
  <2>3. max_vel \in Nat
    BY <2>1 DEF LimitsInv
  <2>4. PICK p \in Ratios, q \in Ratios, r \in Ratios :
          /\ Saturated(raw) = [x |-> Scaled(raw.x, p), y |-> Scaled(raw.y, q), w |-> Scaled(raw.w, r)]
          /\ NotAbove(p, RatioX(raw.x)) /\ NotAbove(q, RatioOf(raw.y, config.side))
          /\ NotAbove(r, RatioOf(raw.w, config.turn))
          /\ config.proportional => p = q /\ q = r
          /\ /\ RatioX(raw.x) = <<1, 1>> /\ RatioOf(raw.y, config.side) = <<1, 1>>
             /\ RatioOf(raw.w, config.turn) = <<1, 1>>
             => p = <<1, 1>> /\ q = <<1, 1>> /\ r = <<1, 1>>
    BY <2>1, <2>2, <2>3, SaturatedIs
  <2> DEFINE x == Scaled(raw.x, p)
             y == Scaled(raw.y, q)
             w == Scaled(raw.w, r)
  <2>5. /\ p[1] \in Nat /\ p[2] \in Nat /\ q[1] \in Nat /\ q[2] \in Nat /\ r[1] \in Nat /\ r[2] \in Nat
        /\ raw.x \in Int /\ raw.y \in Int /\ raw.w \in Int
    BY <2>2 DEF Ratios
  <2>6. /\ x = <<raw.x * p[1], p[2]>> /\ y = <<raw.y * q[1], q[2]>> /\ w = <<raw.w * r[1], r[2]>>
        /\ x \in Int \X Nat /\ w \in Int \X Nat
    BY <2>5 DEF Scaled
  <2>7. /\ last_cmd'.x = x /\ last_cmd'.y = y
        /\ ~config.car => last_cmd'.w = w
        /\ config.car => last_cmd'.w = Steering(x, w)
    <3>1. last_cmd' = IF config.car THEN [Saturated(raw) EXCEPT !.w = Steering(Saturated(raw).x, Saturated(raw).w)]
                      ELSE Saturated(raw)
      BY <1>1 DEF Command
    <3> QED BY <2>4, <3>1
  <2> HIDE DEF x, y, w
  <2>8. raw.x * p[1] <= max_vel * p[2] /\ (config.back > 0 => (-raw.x) * p[1] <= config.back * p[2])
    <3>1. /\ RatioX(raw.x) \in Ratios
          /\ raw.x * RatioX(raw.x)[1] <= max_vel * RatioX(raw.x)[2]
          /\ config.back > 0 => (-raw.x) * RatioX(raw.x)[1] <= config.back * RatioX(raw.x)[2]
          /\ config.back \in Int
      BY <2>1, <2>3, <2>5, RatioXIs DEF ConfigType
    <3>2. raw.x * p[1] <= max_vel * p[2]
      BY <2>3, <2>4, <2>5, <3>1, KeepsLimit
    <3>3. ASSUME config.back > 0 PROVE (-raw.x) * p[1] <= config.back * p[2]
      <4>1. -raw.x \in Int /\ config.back \in Nat
        BY <2>5, <3>1, <3>3
      <4> QED BY <2>4, <3>1, <3>3, <4>1, KeepsLimit
    <3> QED BY <3>2, <3>3
  <2>9. LastLimitGoverns(raw)
    <3> SUFFICES ASSUME base_max_vel.x = configured
                 PROVE  /\ x[1] <= Allowed * x[2]
                        /\ /\ last_limit.kind # "absolute" /\ raw.x <= Allowed
                           /\ config.back > 0 => raw.x >= -config.back
                           /\ Abs(raw.y) <= config.side /\ Abs(raw.w) <= config.turn
                           => x = <<raw.x, 1>> /\ y = <<raw.y, 1>> /\ w = <<raw.w, 1>>
      BY <2>7 DEF LastLimitGoverns
    <3>1. max_vel <= Allowed /\ (last_limit.kind # "absolute" => max_vel = Allowed)
      BY <2>1 DEF LimitsInv
    <3>2. Allowed \in Int
      <4>1. /\ configured \in Nat /\ last_limit.value \in Nat
        BY <2>1, ParameterAssumption DEF LimitsInv, NoLimit
      <4>2. configured * last_limit.value \in Int
        BY <4>1
      <4>3. InProportion(configured, last_limit.value, 100) \in Int
        BY <4>2 DEF InProportion
      <4>4. Min({configured, last_limit.value}) \in {configured, last_limit.value}
        <5>1. configured \in Int /\ last_limit.value \in Int
          BY <4>1
        <5>2. Min({configured, last_limit.value})
                = IF configured <= last_limit.value THEN configured ELSE last_limit.value
          BY <5>1, MinOfTwo
        <5> QED BY <5>2
      <4> QED BY <4>1, <4>3, <4>4 DEF Allowed
    <3>3. x[1] <= Allowed * x[2]
      <4>1. max_vel * p[2] <= Allowed * p[2]
        BY <2>3, <2>5, <3>1, <3>2, Grows
      <4>2. raw.x * p[1] \in Int /\ max_vel * p[2] \in Int /\ Allowed * p[2] \in Int
        BY <2>3, <2>5, <3>2
      <4> QED BY <2>6, <2>8, <4>1, <4>2
    <3>4. ASSUME last_limit.kind # "absolute", raw.x <= Allowed,
                 config.back > 0 => raw.x >= -config.back,
                 Abs(raw.y) <= config.side, Abs(raw.w) <= config.turn
          PROVE  x = <<raw.x, 1>> /\ y = <<raw.y, 1>> /\ w = <<raw.w, 1>>
      <4>1. config.back \in Int /\ config.side \in Nat /\ config.turn \in Nat
        BY <2>1 DEF ConfigType
      <4>2. RatioX(raw.x) = <<1, 1>>
        BY <2>3, <2>5, <3>1, <3>4, <4>1 DEF RatioX
      <4>3. RatioOf(raw.y, config.side) = <<1, 1>> /\ RatioOf(raw.w, config.turn) = <<1, 1>>
        BY <2>5, <3>4, <4>1 DEF RatioOf, Abs
      <4> QED BY <2>4, <2>5, <4>2, <4>3, Whole DEF x, y, w
    <3> QED BY <3>3, <3>4
  <2>10. CommandSaturated(raw)
    <3>1. Abs(raw.y * q[1]) <= config.side * q[2] /\ Abs(raw.w * r[1]) <= config.turn * r[2]
      BY <2>1, <2>4, <2>5, KeepsSize DEF ConfigType
    <3>2. Abs(y[1]) <= config.side * y[2]
      BY <2>6, <3>1
    <3>3. config.back > 0 => -x[1] <= config.back * x[2]
      <4>1. (-raw.x) * p[1] = -(raw.x * p[1])
        BY <2>5
      <4> QED BY <2>6, <2>8, <4>1
    <3>4. ~config.car => Abs(w[1]) <= config.turn * w[2]
      BY <2>6, <3>1
    <3>5. Abs(Steering(x, w)[1]) * config.radius <= Wheelbase * Steering(x, w)[2]
      BY <2>1, <2>6, SteeringIs DEF ConfigType
    <3>6. ASSUME config.proportional
          PROVE  x[1] * raw.y * y[2] = y[1] * raw.x * x[2] /\ x[1] * raw.w * w[2] = w[1] * raw.x * x[2]
      <4>1. x = <<raw.x * p[1], p[2]>> /\ y = <<raw.y * p[1], p[2]>> /\ w = <<raw.w * p[1], p[2]>>
        BY <2>4, <2>6, <3>6
      <4>2. /\ (raw.x * p[1]) * raw.y * p[2] = (raw.y * p[1]) * raw.x * p[2]
            /\ (raw.x * p[1]) * raw.w * p[2] = (raw.w * p[1]) * raw.x * p[2]
        BY <2>5
      <4> QED BY <4>1, <4>2
    <3> QED BY <2>7, <3>2, <3>3, <3>4, <3>5, <3>6 DEF CommandSaturated
  <2> QED BY <2>9, <2>10
<1>2. ControllerInv =>
        \A raw \in config.commands : Command(raw) => LastLimitGoverns(raw) /\ CommandSaturated(raw)
  BY <1>1
<1>3. []ControllerInv => CommandWithinLimits
  BY <1>2, PTL DEF CommandWithinLimits
<1> QED BY <1>3, ControllerInvariant, PTL
=============================================================================
