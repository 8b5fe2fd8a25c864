------------------------------ MODULE CustomLayer ------------------------------
(***************************************************************************)
(* nav2_custom_costmap_plugin: the costmap layer that declares removed areas  *)
(* free.  The layered costmap around it belongs to nav2 and is modelled from  *)
(* how this layer is called: every cycle the layers widen the window to be    *)
(* updated one after the other, the master is reset in it, and they write     *)
(* into it in the same order.  One axis of the grid; the other is treated     *)
(* alike.                                                                     *)
(***************************************************************************)
EXTENDS Integers

CONSTANTS
  Size,      \* cells of the master and of the layer's costmap_
  Areas,     \* removed_area_: the sets of world cells of the areas
  Enabled,   \* enabled_
  Far,       \* a bound beyond every cell, the numeric limits of the code
  Rolling,   \* whether the master moves with the robot
  MaxCycles  \* bound on the update cycles

VARIABLES
  origin,  \* the world cell of the master's cell 0; the layer's own never moves
  master,  \* the master's values, by world cell
  below,   \* what the master would hold without this layer
  costmap, \* costmap_, by cell
  last,    \* last_min_x_ and last_max_x_
  need_recalculation,
  cycles

layerVars == <<origin, master, below, costmap, last, need_recalculation, cycles>>

Index == 0 .. Size - 1
World == Index \cup {i + 1 : i \in Index}   \* a rolling master moves one cell
NO_INFORMATION == 255
FREE_SPACE == 0
LETHAL_OBSTACLE == 254
Earlier == {FREE_SPACE, LETHAL_OBSTACLE}     \* what the layers before this one write

Lower(a, b) == IF a < b THEN a ELSE b
Upper(a, b) == IF a < b THEN b ELSE a

\* The constructor's bounds make the first window everything; the layer's cells have the default
\* value, which is free.
LayerInit ==
  /\ origin = 0
  /\ master = [w \in World |-> NO_INFORMATION]
  /\ below = master
  /\ costmap = [i \in Index |-> FREE_SPACE]
  /\ last = <<-Far, Far>>
  /\ need_recalculation = FALSE
  /\ cycles = 0

\* The window the layer asks for: everything, or the last one and this one together.
updateBounds(min, max) ==
  IF need_recalculation THEN <<-Far, Far>> ELSE <<Lower(last[1], min), Upper(last[2], max)>>

\* Variant: the window's cells keep what the layer's costmap held before.
NotCleared(window, i) == FALSE
Cleared(window, i) == Upper(0, window[1]) <= i /\ i < Lower(Size, window[2])

\* setConvexPolygonCost: an area with a corner outside of the layer's costmap is not filled at all.
Filled(i) == \E A \in Areas : A \subseteq Index /\ i \in A

\* updateCosts: the layer's costmap, and the master where the layer knows something.
updateCosts(window) ==
  [i \in Index |-> IF Filled(i) THEN FREE_SPACE
                   ELSE IF Cleared(window, i) THEN NO_INFORMATION ELSE costmap[i]]

\* One cycle: the layers before this one ask for the cells min to max - 1, or for none, and write.
\* A rolling master has moved before and takes over the values of the cells it still covers.
UpdateMap(min, max, move) ==
  /\ cycles < MaxCycles
  /\ cycles' = cycles + 1
  /\ origin' = origin + move
  /\ need_recalculation' = FALSE
  /\ last' = <<min, max>>
  /\ LET window == updateBounds(min, max)
         In(w) == (w - origin') \in Index /\ window[1] <= w - origin' /\ w - origin' < window[2]
         moved == move # 0
         Kept(f, w) == IF moved /\ (w - origin) \notin Index THEN NO_INFORMATION ELSE f[w]
         shown == IF Enabled THEN updateCosts(window) ELSE [i \in Index |-> NO_INFORMATION]
     IN /\ costmap' = IF Enabled THEN shown ELSE costmap
        /\ \E written \in [World -> Earlier] :
             /\ \A w \in World : ~In(w) => written[w] = FREE_SPACE
             /\ below' = [w \in World |-> IF In(w) THEN written[w] ELSE Kept(below, w)]
             /\ master' = [w \in World |->
                  IF ~In(w) THEN Kept(master, w)
                  ELSE IF shown[w - origin'] # NO_INFORMATION THEN shown[w - origin']
                  ELSE written[w]]

onFootprintChanged ==
  /\ ~need_recalculation
  /\ need_recalculation' = TRUE
  /\ UNCHANGED <<origin, master, below, costmap, last, cycles>>

\* matchSize, when the map behind the master is replaced: new arrays, the layer's free again, and
\* the bounds of the last cycle stay.
matchSize ==
  /\ cycles > 0
  /\ costmap' = [i \in Index |-> FREE_SPACE]
  /\ master' = [w \in World |-> NO_INFORMATION]
  /\ below' = master'
  /\ UNCHANGED <<origin, last, need_recalculation, cycles>>

LayerNext ==
  \/ \E min \in Index \cup {Far}, max \in (1 .. Size) \cup {-Far} :
       /\ (min = Far) = (max = -Far) /\ (min = Far \/ min < max)
       /\ \E move \in (IF Rolling /\ origin = 0 THEN {0, 1} ELSE {0}) : UpdateMap(min, max, move)
  \/ onFootprintChanged
  \/ matchSize

-----------------------------------------------------------------------------
\* The layer frees the areas inside the map and hides nothing else: wherever the layers before it
\* have written, the master has what they wrote, or free in an area, through every sequence of
\* windows, footprint changes and new maps.
OnlyAreasAreFreed ==
  \A w \in World :
    master[w] = IF Enabled /\ Filled(w - origin) /\ below[w] # NO_INFORMATION
                THEN FREE_SPACE ELSE below[w]

\* The areas are given in the map's frame (sentry.yaml:371, "map系坐标") and are free there.
\* Violated when an area has a corner outside of the costmap, and when the master is rolling.
AreasAreFree ==
  \A A \in Areas : \A w \in A \cap World :
    (w - origin) \in Index /\ below[w] # NO_INFORMATION => master[w] = FREE_SPACE
=============================================================================
