--------------------------- MODULE HomotopyPlanner ---------------------------
(***************************************************************************)
(* HomotopyClassPlanner of teb_local_planner: the container of alternative  *)
(* bands with the list of their equivalence classes, and one planning cycle *)
(* of the controller that uses it.  The code is sequential; a cycle is cut  *)
(* into one action per method, since the bands a method leaves are what the *)
(* next one trusts.                                                         *)
(*                                                                          *)
(* A band is a name with its H-signature (class), its cost and whether the  *)
(* last optimisation succeeded; geometry only appears as the free choice of *)
(* signatures, costs and feasibility.  The signature of a band changes with *)
(* the obstacles, so each cycle chooses it anew.                            *)
(***************************************************************************)
EXTENDS Integers, Sequences, SequencesExt, FiniteSets

CONSTANTS
  Classes,          \* the H-signatures of bands
  Invalid,          \* a signature that is not finite
  MaxClasses,       \* hcp.max_number_classes
  MaxInBestClass,   \* hcp.max_number_plans_in_current_class
  Costs,            \* costs of an optimised band
  Hysteresis,       \* hcp.selection_cost_hysteresis, in hundredths
  PreferInitial,    \* hcp.selection_prefer_initial_plan, in hundredths
  Drops             \* whether hcp.selection_dropping_probability is not zero

ASSUME PlannerAssumption ==
  /\ MaxClasses \in Nat \ {0} /\ MaxInBestClass \in Nat /\ Hysteresis \in Nat
  /\ PreferInitial \in Nat
  /\ Costs \subseteq Nat \ {0} /\ Invalid \notin Classes /\ Drops \in BOOLEAN

Null == 0
HugeVal == 1000                       \* HUGE_VAL, the cost of a band not yet optimised
Ids == 1..(MaxClasses + 3)            \* enough names for tebs_ and the three pointers to bands

VARIABLES
  pc,                     \* what the cycle does next
  tebs,                   \* tebs_: [id, class, cost, optimized]
  equivalence_classes,    \* equivalence_classes_: [class, lock]
  best_teb, best_teb_eq_class, last_best_teb,
  initial_plan_teb, initial_plan_eq_class,
  via,                    \* the bands whose via-points are set, until they are optimised
  plan_class,             \* history: the signature of the initial plan, until then
  checked,                \* history: the band found feasible in this cycle
  lost,                   \* history: the best band is kept without a class
  turn                    \* history: flips with each band found infeasible in one search

pointers == <<best_teb, best_teb_eq_class, last_best_teb>>
initial  == <<initial_plan_teb, initial_plan_eq_class>>
vars == <<pc, tebs, equivalence_classes, pointers, initial, via, plan_class, checked, lost, turn>>

Init ==
  /\ pc = "idle"
  /\ tebs = <<>> /\ equivalence_classes = <<>>
  /\ best_teb = Null /\ best_teb_eq_class = Invalid /\ last_best_teb = Null
  /\ initial_plan_teb = Null /\ initial_plan_eq_class = Invalid
  /\ via = {} /\ plan_class = Invalid /\ checked = Null /\ lost = FALSE /\ turn = FALSE

Signatures == Classes \cup {Invalid}

-----------------------------------------------------------------------------
(* Bands and classes.  A null class is written Invalid: both equal nothing. *)

Band(id) == CHOOSE b \in Range(tebs) : b.id = id
Holds(bands, id) == \E b \in Range(bands) : b.id = id
ClassAt(classes, i) == classes[i].class
isEqual(c, d) == c = d /\ c # Invalid

numTebsInClass(classes, c) == Cardinality({i \in DOMAIN classes : isEqual(c, ClassAt(classes, i))})
hasEquivalenceClass(classes, c) == numTebsInClass(classes, c) > 0

\* Variant: one band too many in the best class.
AddsOneMore(classes, c, best) ==
  /\ c # Invalid
  /\ hasEquivalenceClass(classes, c) =>
       isEqual(c, best) /\ numTebsInClass(classes, c) <= MaxInBestClass

\* addEquivalenceClassIfNew: a known class is only added again if it is that of the best band.
AddsClass(classes, c, best) ==
  /\ c # Invalid
  /\ hasEquivalenceClass(classes, c) =>
       isEqual(c, best) /\ numTebsInClass(classes, c) < MaxInBestClass

NewBand(c) ==
  LET used == {b.id : b \in Range(tebs)} \cup {best_teb, last_best_teb, initial_plan_teb}
  IN [id |-> CHOOSE i \in Ids \ used : \A j \in Ids \ used : i <= j,
      class |-> c, cost |-> HugeVal, optimized |-> FALSE]

\* addAndInitNewTeb, for a candidate of signature c.
addAndInitNewTeb(c, lock) ==
  IF AddsClass(equivalence_classes, c, best_teb_eq_class)
  THEN /\ tebs' = Append(tebs, NewBand(c))
       /\ equivalence_classes' = Append(equivalence_classes, [class |-> c, lock |-> lock])
  ELSE UNCHANGED <<tebs, equivalence_classes>>

Without(s, i) == SubSeq(s, 1, i - 1) \o SubSeq(s, i + 1, Len(s))

\* Variant: the class stays behind.
RemoveBandOnly(bands, classes, id) ==
  IF ~Holds(bands, id) THEN [bands |-> bands, classes |-> classes]
  ELSE LET i == CHOOSE k \in DOMAIN bands : bands[k].id = id
       IN [bands |-> Without(bands, i), classes |-> SubSeq(classes, 1, Len(classes) - 1)]

\* Variant: a band is found, but not erased.
RemovesNothing(bands, classes, id) == [bands |-> bands, classes |-> classes]

\* removeTeb: a band goes with the class at its place, and nothing is done if the sizes differ.
Removed(bands, classes, id) ==
  IF Len(bands) # Len(classes) \/ ~Holds(bands, id) THEN [bands |-> bands, classes |-> classes]
  ELSE LET i == CHOOSE k \in DOMAIN bands : bands[k].id = id
       IN [bands |-> Without(bands, i), classes |-> Without(classes, i)]

-----------------------------------------------------------------------------
(* The steps of plan().                                                    *)

\* updateAllTEBs: all bands go if the new goal is far from theirs; otherwise they are kept and
\* pruned.
updateAllTEBs ==
  /\ pc = "idle"
  /\ \/ tebs' = <<>> /\ equivalence_classes' = <<>>
     \/ UNCHANGED <<tebs, equivalence_classes>>
  /\ pc' = "renew"
  /\ UNCHANGED <<pointers, initial, via, plan_class, checked, lost, turn>>

\* The bands with their new signatures, the best one first (swapped with the first).
Resigned(sig) ==
  LET signed == [i \in DOMAIN tebs |-> [tebs[i] EXCEPT !.class = sig[i]]]
      k == SelectInSeq(tebs, LAMBDA b : b.id = best_teb)
  IN IF k = 0 THEN signed ELSE [signed EXCEPT ![1] = signed[k], ![k] = signed[1]]

\* One turn of the first loop of renewAndAnalyzeOldTebs: of the bands with one class the first is
\* kept, but the best in any case.
Keep(acc, b, best) ==
  LET new == AddsClass(acc.classes, b.class, best)
  IN [bands |-> IF new \/ b.id = best_teb THEN Append(acc.bands, b) ELSE acc.bands,
      classes |-> IF new THEN Append(acc.classes, [class |-> b.class, lock |-> FALSE])
                  ELSE acc.classes]

Kept(bands, best) ==
  LET kept[n \in 0 .. Len(bands)] ==
        IF n = 0 THEN [bands |-> <<>>, classes |-> <<>>] ELSE Keep(kept[n - 1], bands[n], best)
  IN kept[Len(bands)]

\* deletePlansDetouringBackwards among the bands kept: one that was not optimised goes, and one
\* that leaves backwards, is too short or takes too long (detours).
Detour(acc, b, detours) ==
  IF b.id # best_teb /\ (b.id \in detours \/ ~b.optimized)
  THEN Removed(acc.bands, acc.classes, b.id) ELSE acc

Detoured(kept, detours) ==
  LET left[n \in 0 .. Len(kept.bands)] ==
        IF n = 0 THEN kept ELSE Detour(left[n - 1], kept.bands[n], detours)
  IN left[Len(kept.bands)]

\* renewAndAnalyzeOldTebs.  The detours are only looked for if the best band is there and long
\* enough (judged).
renewAndAnalyzeOldTebs ==
  /\ pc = "renew"
  /\ \E sig \in [DOMAIN tebs -> Signatures], detours \in SUBSET Ids, judged \in BOOLEAN :
       LET bands   == Resigned(sig)
           hasBest == Holds(bands, best_teb)
           best    == IF hasBest THEN bands[1].class ELSE best_teb_eq_class
           kept    == Kept(bands, best)
           left    == IF judged /\ hasBest /\ Len(kept.bands) >= 2 THEN Detoured(kept, detours)
                      ELSE kept
       IN /\ detours \subseteq {b.id : b \in Range(tebs)}
          /\ tebs' = left.bands /\ equivalence_classes' = left.classes
          /\ best_teb_eq_class' = best
          /\ lost' = (hasBest /\ best = Invalid)
  /\ pc' = "drop"
  /\ UNCHANGED <<best_teb, last_best_teb, initial, via, plan_class, checked, turn>>

\* randomlyDropTebs drops any bands but the best, walking both lists in step: the places that stay
\* are left in their order.
randomlyDropTebs ==
  /\ pc = "drop"
  /\ LET n == IF Len(tebs) < Len(equivalence_classes) THEN Len(tebs) ELSE Len(equivalence_classes)
     IN \E m \in 0 .. n : \E stays \in [1 .. m -> 1 .. n] :
          /\ \A i, j \in 1 .. m : i < j => stays[i] < stays[j]
          /\ \A k \in 1 .. n : ~Drops \/ tebs[k].id = best_teb => \E i \in 1 .. m : stays[i] = k
          /\ tebs' = [i \in 1 .. m |-> tebs[stays[i]]] \o SubSeq(tebs, n + 1, Len(tebs))
          /\ equivalence_classes' =
               [i \in 1 .. m |-> equivalence_classes[stays[i]]]
                 \o SubSeq(equivalence_classes, n + 1, Len(equivalence_classes))
  /\ pc' = "initial"
  /\ UNCHANGED <<pointers, initial, via, plan_class, checked, lost, turn>>

\* The initial plan becomes a band unless there are enough; only then is its class stored.
injectInitialPlan ==
  /\ pc = "initial"
  /\ \E c \in Signatures :
       /\ plan_class' = c
       /\ IF Len(tebs) >= MaxClasses
          THEN /\ initial_plan_teb' = Null
               /\ UNCHANGED <<initial_plan_eq_class, tebs, equivalence_classes>>
          ELSE /\ initial_plan_eq_class' = c
               /\ addAndInitNewTeb(c, TRUE)
               /\ initial_plan_teb' = IF Len(tebs') > Len(tebs) THEN NewBand(c).id ELSE Null
  /\ pc' = "explore"
  /\ UNCHANGED <<pointers, via, checked, lost, turn>>

\* createGraph tries candidate after candidate, as long as there are too few bands.
exploreEquivalenceClass ==
  /\ pc = "explore" /\ Len(tebs) < MaxClasses
  /\ \E c \in Signatures : addAndInitNewTeb(c, FALSE)
  /\ UNCHANGED <<pc, pointers, initial, via, plan_class, checked, lost, turn>>

\* updateReferenceTrajectoryViaPoints: only bands in the stored class of the initial plan follow the
\* via-points.  (Without via-points nothing changes.)
updateReferenceTrajectoryViaPoints ==
  /\ pc = "explore"
  /\ \/ UNCHANGED via
     \/ /\ Len(equivalence_classes) = Len(tebs)
        /\ via' = {tebs[i].id : i \in {j \in DOMAIN tebs :
                      isEqual(initial_plan_eq_class, ClassAt(equivalence_classes, j))}}
  /\ pc' = "optimize"
  /\ UNCHANGED <<tebs, equivalence_classes, pointers, initial, plan_class, checked, lost, turn>>

\* What optimizeTEB leaves of a band: optimised with a new cost; stopped in a later iteration, the
\* cost not computed; or stopped in the first.
Optimized(b) ==
  {[b EXCEPT !.cost = c, !.optimized = TRUE] : c \in Costs}
    \cup {[b EXCEPT !.optimized = TRUE], [b EXCEPT !.optimized = FALSE]}

\* optimizeAllTEBs: one thread per band, which share nothing that is written.
optimizeAllTEBs ==
  /\ pc = "optimize"
  /\ \E results \in [DOMAIN tebs -> UNION {Optimized(b) : b \in Range(tebs)}] :
       /\ \A i \in DOMAIN tebs : results[i] \in Optimized(tebs[i])
       /\ tebs' = results
  /\ pc' = "select" /\ via' = {} /\ plan_class' = Invalid
  /\ UNCHANGED <<equivalence_classes, pointers, initial, checked, lost, turn>>

\* getInitialPlanTEB: the stored band, or else one of the stored class, which is then locked.
InitialTeb ==
  LET same == {i \in DOMAIN tebs : isEqual(initial_plan_eq_class, ClassAt(equivalence_classes, i))}
  IN IF initial_plan_teb # Null /\ Holds(tebs, initial_plan_teb) THEN initial_plan_teb
     ELSE IF Len(equivalence_classes) # Len(tebs) \/ same = {} THEN Null
     ELSE tebs[CHOOSE i \in same : \A j \in same : i <= j].id

Relocked ==
  IF initial_plan_teb # Null /\ Holds(tebs, initial_plan_teb) THEN equivalence_classes
  ELSE [i \in DOMAIN equivalence_classes |->
          [equivalence_classes[i] EXCEPT
             !.lock = i \in DOMAIN tebs /\ tebs[i].id = InitialTeb]]

\* The cost selectBestTeb compares: the last best band and the one of the initial plan are weighed.
Weighed(b, last) ==
  b.cost * (IF b.id = last THEN Hysteresis ELSE IF b.id = InitialTeb THEN PreferInitial ELSE 100)

\* selectBestTeb: the cheapest, the first of equals, and none whose cost is HUGE_VAL; unless changing
\* is blocked (may_change) for a while after a change.
selectBestTeb(may_change) ==
  LET last == IF best_teb # Null /\ Holds(tebs, best_teb) THEN best_teb ELSE Null
      real == {i \in DOMAIN tebs : tebs[i].cost # HugeVal}
      cheapest == {i \in real : \A j \in real : Weighed(tebs[i], last) <= Weighed(tebs[j], last)}
      best == IF real = {} THEN Null
              ELSE tebs[CHOOSE i \in cheapest : \A j \in cheapest : i <= j].id
  IN /\ last_best_teb' = last
     /\ best_teb' = IF last # Null /\ best # last /\ ~may_change THEN last ELSE best
     /\ equivalence_classes' = Relocked
     /\ initial_plan_teb' =
          IF initial_plan_teb # Null /\ Holds(tebs, initial_plan_teb) THEN initial_plan_teb ELSE Null

\* plan() ends, always with success.
endOfPlan ==
  /\ pc = "select"
  /\ \E may_change \in BOOLEAN : selectBestTeb(may_change)
  /\ pc' = "diverged"
  /\ UNCHANGED <<tebs, best_teb_eq_class, initial_plan_eq_class, via, plan_class, checked, lost, turn>>

-----------------------------------------------------------------------------
(* What the controller does with the plan.                                 *)

\* clearPlanner forgets bands and classes, and not the pointers to bands.
clearPlanner ==
  /\ tebs' = <<>> /\ equivalence_classes' = <<>>
  /\ pc' = "idle" /\ checked' = Null /\ turn' = FALSE
  /\ UNCHANGED <<pointers, initial, via, plan_class, lost>>

\* hasDiverged looks at the best band, if there is one.
hasDiverged ==
  /\ pc = "diverged"
  /\ \/ best_teb # Null /\ clearPlanner
     \/ /\ pc' = "feasible"
        /\ UNCHANGED <<tebs, equivalence_classes, pointers, initial, via, plan_class, checked, lost, turn>>

\* Variant: the best band is not looked for again after one was removed.
FindsAny == {<<best_teb, last_best_teb, initial_plan_teb, equivalence_classes>>}

\* findBestTeb: selectBestTeb again, unless the best band is still in the container.
FindsBest ==
  IF best_teb # Null /\ Holds(tebs, best_teb)
  THEN {<<best_teb, last_best_teb, initial_plan_teb, equivalence_classes>>}
  ELSE LET real == {i \in DOMAIN tebs : tebs[i].cost # HugeVal}
           cheapest == {i \in real : \A j \in real : Weighed(tebs[i], Null) <= Weighed(tebs[j], Null)}
       IN {<<IF real = {} THEN Null ELSE tebs[CHOOSE i \in cheapest : \A j \in cheapest : i <= j].id,
             Null,
             IF initial_plan_teb # Null /\ Holds(tebs, initial_plan_teb) THEN initial_plan_teb
             ELSE Null,
             Relocked>>}

\* One turn of the loop of isTrajectoryFeasible: an infeasible best band is removed and the next
\* best is tried, unless it was the last best, too.  A band stays infeasible within a cycle.
isTrajectoryFeasible ==
  /\ pc = "feasible" /\ tebs # <<>>
  /\ \E found \in FindsBest, feasible \in BOOLEAN :
       /\ best_teb' = found[1] /\ last_best_teb' = found[2] /\ initial_plan_teb' = found[3]
       /\ IF found[1] = Null
          THEN /\ tebs' = <<>> /\ equivalence_classes' = <<>> /\ pc' = "idle" /\ turn' = FALSE
               /\ UNCHANGED checked
          ELSE IF feasible
          THEN /\ equivalence_classes' = found[4]
               /\ checked' = found[1] /\ pc' = "command" /\ turn' = FALSE
               /\ UNCHANGED tebs
          ELSE LET left == Removed(tebs, found[4], found[1]) IN
               /\ pc' = IF found[2] = found[1] THEN "idle" ELSE "feasible"
               /\ turn' = (pc' = "feasible" /\ ~turn)
               /\ tebs' = IF pc' = "idle" THEN <<>> ELSE left.bands
               /\ equivalence_classes' = IF pc' = "idle" THEN <<>> ELSE left.classes
               /\ UNCHANGED checked
  /\ UNCHANGED <<best_teb_eq_class, initial_plan_eq_class, via, plan_class, lost>>

noneFeasible == pc = "feasible" /\ tebs = <<>> /\ clearPlanner

\* getVelocityCommand of the best band fails if it has no extent in time.
getVelocityCommand ==
  /\ pc = "command"
  /\ \/ clearPlanner
     \/ /\ pc' = "idle" /\ checked' = Null
        /\ UNCHANGED <<tebs, equivalence_classes, pointers, initial, via, plan_class, lost, turn>>

Steps ==
  \/ renewAndAnalyzeOldTebs \/ randomlyDropTebs \/ injectInitialPlan
  \/ updateReferenceTrajectoryViaPoints \/ optimizeAllTEBs \/ endOfPlan
  \/ hasDiverged \/ isTrajectoryFeasible \/ noneFeasible \/ getVelocityCommand

Next == updateAllTEBs \/ exploreEquivalenceClass \/ Steps

\* The controller finishes a cycle it began: every method returns.  Exploration is a depth-first
\* search of a finite graph, so it is left in the end.
Spec == Init /\ [][Next]_vars /\ WF_vars(Steps)

-----------------------------------------------------------------------------
(* The two lists the planner keeps side by side stay in step: the class at a place is the
   signature of the band at that place, through swapping the best band to the front, dropping,
   detour deletion and the removal of infeasible bands.  removeTeb, randomlyDropTebs and
   updateReferenceTrajectoryViaPoints pair them by place only.  It is lost for a
   cycle in which the best band's own signature is not finite.                                 *)
ListsInStep ==
  ~lost => /\ Len(equivalence_classes) = Len(tebs)
           /\ pc # "renew" =>
                \A i \in DOMAIN tebs : ClassAt(equivalence_classes, i) = tebs[i].class

(* The alternatives are alternatives: two bands share a class only if it is the one of the best
   band, of which at most MaxInBestClass are tried at once, and there are never more than
   max_number_classes bands to optimise.                                                      *)
BandsDiffer ==
  pc \in {"drop", "initial", "explore", "optimize", "select"} /\ ~lost =>
    /\ Len(tebs) <= MaxClasses
    /\ \A c \in Classes :
         LET many == Cardinality({i \in DOMAIN tebs : tebs[i].class = c})
         IN many > 1 => c = best_teb_eq_class /\ many <= MaxInBestClass

\* Every band is listed with its own class, and no class but the best one's has two bands
\* (addEquivalenceClassIfNew and everything that removes from tebs_).
BandsMatchClasses == ListsInStep /\ BandsDiffer

(* The command is taken from the band whose poses were checked for collision in this very cycle,
   although the best band may be removed and chosen again in between.                         *)
CommandIsChecked == pc = "command" => Holds(tebs, best_teb) /\ checked = best_teb

(* The controller, which holds the configuration mutex meanwhile, gets its answer: the search for
   a feasible band ends, because each infeasible one leaves the container.  (It may not if
   the lists are out of step: removeTeb then does nothing.)                                                        *)
CycleEnds == (pc = "feasible") ~> (pc = "idle" \/ lost)

-----------------------------------------------------------------------------
(* What comments say, and the code does not do.                            *)

(* "enable via-points for teb in the same hommotopy class as the initial_plan and deactivate it for
   all other ones" (homotopy_class_planner.cpp:331).                                          *)
ViaPointsFollowPlan ==
  \A b \in Range(tebs) : b.id \in via => isEqual(b.class, plan_class)

(* "Get the velocity command from a previously optimized plan" (homotopy_class_planner.h).    *)
CommandIsOptimized == pc = "command" => Band(best_teb).optimized

(* The search ends in any case.                                                               *)
CycleAlwaysEnds == (pc = "feasible") ~> (pc = "idle")
=============================================================================
