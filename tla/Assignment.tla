----------------------------- MODULE Assignment -----------------------------
(***************************************************************************)
(* The assignment of detections to tracks (AssignmentProblemSolver): the    *)
(* optimal one by Munkres' algorithm, and the two greedy ones.  A distance  *)
(* matrix is a function of <<row, column>>; an assignment gives each row a  *)
(* column or 0 (the code's -1).                                             *)
(***************************************************************************)
EXTENDS Loops, SequencesExt, FiniteSetsExt

CONSTANT Forbidden       \* numeric_limits<track_t>::max()

MinDim(R, C) == Min({Cardinality(R), Cardinality(C)})

-----------------------------------------------------------------------------
(* Munkres' algorithm.  m is the working state: the reduced distances d, the *)
(* starred and the primed zeros, the covered rows and columns, and the column *)
(* the search for zeros goes on after.                                       *)

\* Each row is reduced by its least element, and its first zero in a free column is starred; the
\* columns of the stars are covered.
RowsReduced(d, R, C) ==
  LET reduced == [e \in DOMAIN d |-> d[e] - Min({d[<<e[1], c>>] : c \in C})]
      Star(m, r) ==
        LET free == {c \in C : reduced[<<r, c>>] = 0 /\ c \notin m.cols}
        IN IF free = {} THEN m
           ELSE [m EXCEPT !.star = @ \cup {<<r, Min(free)>>}, !.cols = @ \cup {Min(free)}]
  IN Walk(Star, [d |-> reduced, star |-> {}, prime |-> {}, rows |-> {}, cols |-> {}, after |-> 0], Cardinality(R))

\* With more rows than columns it is the columns that are reduced.
ColsReduced(d, R, C) ==
  LET reduced == [e \in DOMAIN d |-> d[e] - Min({d[<<r, e[2]>>] : r \in R})]
      Star(m, c) ==
        LET free == {r \in R : reduced[<<r, c>>] = 0 /\ r \notin m.rows}
        IN IF free = {} THEN m
           ELSE [m EXCEPT !.star = @ \cup {<<Min(free), c>>}, !.rows = @ \cup {Min(free)},
                          !.cols = @ \cup {c}]
      starred == Walk(Star, [d |-> reduced, star |-> {}, prime |-> {}, rows |-> {}, cols |-> {}, after |-> 0],
                      Cardinality(C))
  IN [starred EXCEPT !.rows = {}]

\* step4: stars and primes alternate along a path from the zero <<r, c>>; returns the new stars.
\* A path has no star twice, so it ends within that many turns.
Alternated(m, zero) ==
  LET Flip(path, k) ==
        LET above == {e \in m.star : e[2] = path.zero[2]}
            starred == CHOOSE e \in above : TRUE
            primed == CHOOSE e \in m.prime : e[1] = starred[1]
        IN IF ~path.open THEN path
           ELSE IF above = {} THEN [path EXCEPT !.new = @ \cup {path.zero}, !.open = FALSE]
           ELSE [path EXCEPT !.new = (@ \cup {path.zero}) \ {starred}, !.zero = primed]
  IN Walk(Flip, [new |-> m.star, zero |-> zero, open |-> TRUE], Cardinality(m.star) + 1).new

\* step5: the least uncovered distance is added to the covered rows and taken off the uncovered
\* columns.
step5(m, R, C) ==
  LET h == Min({Forbidden} \cup {m.d[e] : e \in (R \ m.rows) \X (C \ m.cols)})
  IN [m EXCEPT !.d = [e \in DOMAIN m.d |-> m.d[e] + (IF e[1] \in m.rows THEN h ELSE 0)
                                                  - (IF e[2] \in m.cols THEN 0 ELSE h)]]

\* step3: the next uncovered zero is looked for column by column, from the column after the last
\* one on; it is primed, and either its row's star gives up its column or a path starts here.
step3(m, R, C, zeros) ==
  LET ahead == {e \in zeros : e[2] > m.after}
      pool  == IF ahead # {} THEN ahead ELSE zeros
      col   == Min({e[2] : e \in pool})
      zero  == <<Min({e[1] : e \in {x \in pool : x[2] = col}}), col>>
      stars == {e \in m.star : e[1] = zero[1]}
      new   == Alternated([m EXCEPT !.prime = @ \cup {zero}], zero)
  IN IF stars = {}
     THEN [m EXCEPT !.star = new, !.prime = {}, !.rows = {},
                    !.cols = @ \cup {e[2] : e \in new}, !.after = 0]
     ELSE [m EXCEPT !.prime = @ \cup {zero}, !.rows = @ \cup {zero[1]},
                    !.cols = @ \ {e[2] : e \in stars}, !.after = col]

\* The steps until as many columns are covered as can be.  Each path adds a star; before it come at
\* most a prime for each other star, and a step5 before each of these.
Munkres(m0, R, C) ==
  LET Turn(m, k) ==
        LET zeros == {e \in (R \ m.rows) \X (C \ m.cols) : m.d[e] = 0}
        IN IF Cardinality(m.cols) = MinDim(R, C) /\ m.after = 0 /\ m.prime = {} THEN m
           ELSE IF zeros = {} THEN [step5(m, R, C) EXCEPT !.after = 0]
           ELSE step3(m, R, C, zeros)
  IN Walk(Turn, m0, 2 * (MinDim(R, C) + 1) * MinDim(R, C)).star

buildassignmentvector(star, R) ==
  [r \in R |-> IF \E e \in star : e[1] = r THEN Min({e[2] : e \in {x \in star : x[1] = r}}) ELSE 0]

\* With no columns every row stays without one.
assignmentoptimal(d, R, C) ==
  IF C = {} THEN [r \in R |-> 0]
  ELSE buildassignmentvector(
         Munkres(IF Cardinality(R) <= Cardinality(C) THEN RowsReduced(d, R, C) ELSE ColsReduced(d, R, C),
                 R, C), R)

-----------------------------------------------------------------------------
(* The greedy assignments.                                                  *)

\* The least remaining distance, the first of them row by row, is taken and crosses out its row
\* and its column.
Greedy(d0, R, assignment0) ==
  LET Take(acc, k) ==
        LET open == {e \in DOMAIN acc.d : acc.d[e] # Forbidden}
            least == {e \in open : \A f \in open : acc.d[e] <= acc.d[f]}
            row == Min({e[1] : e \in least})
            col == Min({e[2] : e \in {x \in least : x[1] = row}})
        IN IF open = {} THEN acc
           ELSE [d |-> [e \in DOMAIN acc.d |-> IF e[1] = row \/ e[2] = col THEN Forbidden ELSE acc.d[e]],
                 assignment |-> [acc.assignment EXCEPT ![row] = col]]
  IN Walk(Take, [d |-> d0, assignment |-> assignment0], Cardinality(R)).assignment

assignmentsuboptimal2(d, R, C) == Greedy(d, R, [r \in R |-> 0])

ValidOf(d, S) == Cardinality({e \in S : d[e] # Forbidden})

\* step 2 of suboptimal1: a row that has a column of its own gives up its other columns.  (The
\* loop of step 1 tests a flag before it is set and leaves the row loop when it sets it, so it
\* rejects nothing.)
Rejected(d, R, C) ==
  LET Row(x, r) ==
        LET tracks == [c \in C |-> ValidOf(x, R \X {c})]
        IN IF \E c \in C : x[<<r, c>>] # Forbidden /\ tracks[c] = 1
           THEN [e \in DOMAIN x |-> IF e[1] = r /\ tracks[e[2]] > 1 THEN Forbidden ELSE x[e]]
           ELSE x
      Pass(acc, k) ==
        IF ~acc.changed THEN acc
        ELSE LET next == Walk(Row, acc.d, Cardinality(R)) IN [d |-> next, changed |-> next # acc.d]
  IN IF Cardinality(C) > 1 THEN Walk(Pass, [d |-> d, changed |-> TRUE], Cardinality(R) * Cardinality(C)).d
     ELSE d

\* Rows with several columns that are nobody else's take the nearest of them, then columns with
\* several rows.  The counts are those from before this pass.
Singled(d, R, C) ==
  LET tracks == [c \in C |-> ValidOf(d, R \X {c})]
      observations == [r \in R |-> ValidOf(d, {r} \X C)]
      Take(acc, e0) ==
        [d |-> [e \in DOMAIN d |-> IF e[1] = e0[1] \/ e[2] = e0[2] THEN Forbidden ELSE acc.d[e]],
         assignment |-> [acc.assignment EXCEPT ![e0[1]] = e0[2]]]
      Nearest(x, open) == {e \in open : \A f \in open : x[e] <= x[f]}
      Row(acc, r) ==
        LET open == {e \in {r} \X C : acc.d[e] # Forbidden}
        IN IF observations[r] > 1 /\ \A e \in open : tracks[e[2]] <= 1
           THEN Take(acc, IF open = {} THEN <<r, 1>>
                                ELSE <<r, Min({e[2] : e \in Nearest(acc.d, open)})>>)
           ELSE acc
      Col(acc, c) ==
        LET open == {e \in R \X {c} : acc.d[e] # Forbidden}
        IN IF tracks[c] > 1 /\ \A e \in open : observations[e[1]] <= 1
           THEN Take(acc, IF open = {} THEN <<1, c>>
                                ELSE <<Min({e[1] : e \in Nearest(acc.d, open)}), c>>)
           ELSE acc
  IN Walk(Col, Walk(Row, [d |-> d, assignment |-> [r \in R |-> 0]], Cardinality(R)), Cardinality(C))

assignmentsuboptimal1(d, R, C) ==
  LET open == {e \in DOMAIN d : d[e] # Forbidden}
      singled == Singled(Rejected(d, R, C), R, C)
  IN IF open = {} THEN [r \in R |-> 0]
     ELSE IF open = DOMAIN d THEN Greedy(d, R, [r \in R |-> 0])
     ELSE Greedy(singled.d, R, singled.assignment)

-----------------------------------------------------------------------------
(* What an assignment should be.                                            *)

computeassignmentcost(d, assignment) ==
  MapThenSumSet(LAMBDA r : IF assignment[r] = 0 THEN 0 ELSE d[<<r, assignment[r]>>], DOMAIN assignment)

Matching(assignment) ==
  \A r, s \in DOMAIN assignment : r # s /\ assignment[r] # 0 => assignment[r] # assignment[s]

\* The complete matchings between R and C.
Complete(R, C) ==
  {f \in [R -> C \cup {0}] : /\ Matching(f)
                             /\ Cardinality({r \in R : f[r] # 0}) = MinDim(R, C)}

\* The Munkres assignment is a complete matching and no complete matching costs less.
OptimalIsOptimal(d, R, C) ==
  LET found == assignmentoptimal(d, R, C)
  IN /\ found \in Complete(R, C)
     /\ \A f \in Complete(R, C) : computeassignmentcost(d, found) <= computeassignmentcost(d, f)

\* The greedy assignments are matchings that leave no allowed pair free on both sides.
GreedyIsMaximal(d, R, C, found) ==
  /\ Matching(found)
  /\ \A e \in R \X C : d[e] # Forbidden => found[e[1]] # 0 \/ \E r \in R : found[r] = e[2]
=============================================================================
