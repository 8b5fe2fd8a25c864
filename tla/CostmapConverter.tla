-------------------------- MODULE CostmapConverter --------------------------
(***************************************************************************)
(* The worker of a costmap converter (BaseCostmapToPolygons, as             *)
(* CostmapToPolygonsDBSMCCH fills it in): a thread that spins the           *)
(* converter's node, whose timer copies the occupied cells under the        *)
(* costmap's mutex, converts them without it and publishes the result under *)
(* a mutex of its own; and startWorker and stopWorker, which the controller *)
(* calls.  The conversion itself is a constant here, the module             *)
(* CostmapToPolygons says what it computes.                                 *)
(***************************************************************************)
CONSTANTS
  Maps,          \* contents of the costmap
  Conversion,    \* the polygons of each
  Nothing        \* polygons_ before the first conversion

VARIABLES
  spinning,            \* startWorker was asked for a thread of its own
  costmap,
  occupied_cells, polygons,
  worker,              \* "none", "top" of spinThread's loop, "spin", "compute", "gone"
  timer,               \* worker_timer_ is running
  terminate_mutex,     \* who holds it: "free", "worker"
  need_to_terminate,
  spin_thread,         \* "null", "live", or "freed" when the pointer dangles
  stopper              \* the controller: "new", "run", "lock", "join", "stopped", "crashed"

vars == <<spinning, costmap, occupied_cells, polygons, worker, timer, terminate_mutex,
          need_to_terminate, spin_thread, stopper>>

Init ==
  /\ spinning \in BOOLEAN /\ costmap \in Maps /\ occupied_cells = costmap
  /\ polygons = Nothing
  /\ worker = "none" /\ timer = FALSE /\ terminate_mutex = "free" /\ need_to_terminate = FALSE
  /\ spin_thread = "null" /\ stopper = "new"

\* setCostmap2D reads the cells once on the caller's thread; without a thread of its own the timer
\* belongs to a node that nothing spins.
startWorker ==
  /\ stopper = "new" /\ stopper' = "run"
  /\ occupied_cells' = costmap
  /\ need_to_terminate' = FALSE /\ timer' = TRUE
  /\ worker' = (IF spinning THEN "top" ELSE "none")
  /\ spin_thread' = (IF spinning THEN "live" ELSE "null")
  /\ UNCHANGED <<spinning, costmap, polygons, terminate_mutex>>

\* spinThread holds terminate_mutex_ while it spins and takes it again at once.
spinThread ==
  /\ worker = "top" /\ terminate_mutex = "free"
  /\ IF need_to_terminate THEN worker' = "gone" /\ UNCHANGED terminate_mutex
     ELSE worker' = "spin" /\ terminate_mutex' = "worker"
  /\ UNCHANGED <<spinning, costmap, occupied_cells, polygons, timer, need_to_terminate,
                 spin_thread, stopper>>

SpinsIdle ==
  /\ worker = "spin" /\ worker' = "top" /\ terminate_mutex' = "free"
  /\ UNCHANGED <<spinning, costmap, occupied_cells, polygons, timer, need_to_terminate,
                 spin_thread, stopper>>

\* Variant: the cells are kept from the first reading.
updateCostmapOnce ==
  /\ worker = "spin" /\ timer /\ worker' = "compute"
  /\ UNCHANGED occupied_cells
  /\ UNCHANGED <<spinning, costmap, polygons, timer, terminate_mutex, need_to_terminate,
                 spin_thread, stopper>>

\* The timer is due: updateCostmap2D under the costmap's mutex.
updateCostmap2D ==
  /\ worker = "spin" /\ timer /\ worker' = "compute"
  /\ occupied_cells' = costmap
  /\ UNCHANGED <<spinning, costmap, polygons, timer, terminate_mutex, need_to_terminate,
                 spin_thread, stopper>>

compute ==
  /\ worker = "compute" /\ worker' = "top" /\ terminate_mutex' = "free"
  /\ polygons' = Conversion[occupied_cells]
  /\ UNCHANGED <<spinning, costmap, occupied_cells, timer, need_to_terminate, spin_thread, stopper>>

\* The costmap's own thread.
CostmapChanges ==
  /\ costmap' \in Maps \ {costmap}
  /\ UNCHANGED <<spinning, occupied_cells, polygons, worker, timer, terminate_mutex,
                 need_to_terminate, spin_thread, stopper>>

\* stopWorker, called by the controller's cleanup and again by the destructor: the pointer to the
\* thread is not reset, so the second call joins a thread that was deleted.
stopWorker ==
  /\ stopper \in {"run", "stopped"} /\ timer' = FALSE
  /\ stopper' = CASE spin_thread = "live"  -> "lock"
                  [] spin_thread = "null"  -> "stopped"
                  [] spin_thread = "freed" -> "crashed"
  /\ UNCHANGED <<spinning, costmap, occupied_cells, polygons, worker, terminate_mutex,
                 need_to_terminate, spin_thread>>


StopLocks ==
  /\ stopper = "lock" /\ terminate_mutex = "free" /\ stopper' = "join"
  /\ need_to_terminate' = TRUE
  /\ UNCHANGED <<spinning, costmap, occupied_cells, polygons, worker, timer, terminate_mutex,
                 spin_thread>>

StopJoins ==
  /\ stopper = "join" /\ worker = "gone" /\ stopper' = "stopped" /\ spin_thread' = "freed"
  /\ UNCHANGED <<spinning, costmap, occupied_cells, polygons, worker, timer, terminate_mutex,
                 need_to_terminate>>

Next ==
  \/ startWorker \/ spinThread \/ SpinsIdle \/ updateCostmap2D \/ compute
  \/ CostmapChanges
  \/ stopWorker \/ StopLocks \/ StopJoins

\* The thread runs, its timer comes due again and again, and a thread that waits for the mutex is
\* not passed over for ever.  std::mutex does not promise the last, but the thread sleeps in
\* spin_once, without the mutex, until its timer is due.
Fairness ==
  /\ WF_vars(spinThread) /\ WF_vars(SpinsIdle) /\ WF_vars(compute) /\ SF_vars(updateCostmap2D)
  /\ SF_vars(StopLocks) /\ WF_vars(StopJoins)

-----------------------------------------------------------------------------

\* The thread is deleted once (costmap_converter_interface.h:227).
DeletedOnce == stopper # "crashed"
=============================================================================
