------------------------------ MODULE Components ------------------------------
(***************************************************************************)
(* The components that keep a state of their own and share nothing with    *)
(* the others: the navigation manager, the serial port class, the          *)
(* config_dynamic_modifier_node, the costmap layer, the planner's          *)
(* parameters, the tracker of moving obstacles and the optimal planner's   *)
(* band.  The first two are extended, the others instanced; what each      *)
(* promises is named here.                                                 *)
(***************************************************************************)
EXTENDS NavigationManager, Serialib

CONSTANTS
  MaxClicks, MaxFaults, Present, Configured,                    \* ConfigModifier
  Size, Areas, Enabled, Far, Rolling, MaxCycles,                \* CustomLayer
  NewValues, MaxChanges,                                        \* TebConfig
  Forbidden, Width, AlphaFast, AlphaSlow, Beta, MinOccupancy, MinSeparation, MaxNeighbors, Border,
  MorphSize, MinArea, MaxArea, DistThresh, MaxSkipped, Images, MaxMapChanges,   \* DynamicObstacles
  MinSamples, MaxSamples, DtRef, DtHysteresis, Fast, OuterIterations, ReinitDist, Starts, Goals,
  Durations, Places, MaxPlans                                   \* TebOptimalPlanner

\* A row of cells; a distance too great to be taken, one too great to be kept.
ASSUME TrackerAssumption == Width \in Nat /\ Forbidden \in Nat /\ DistThresh \in Nat

\* "min_samples should be always greater than 2" (teb_config.h:82); the robot and its goals are
\* somewhere, and a plan is optimised at least once.
ASSUME PlannerAssumption ==
  /\ MinSamples \in Nat /\ MinSamples > 2 /\ MaxSamples \in Nat
  /\ DtRef \in Int /\ DtHysteresis \in Int /\ ReinitDist \in Int /\ Fast \in BOOLEAN
  /\ OuterIterations \in Nat \ {0}
  /\ Starts \subseteq Int /\ Goals \subseteq Int /\ Durations \subseteq Int /\ Places \subseteq Int

VARIABLES
  area, points, writing, at, content, file, clicks, faults,
  origin, master, below, costmap, last, need_recalculation, cycles,
  nodeValues, config, base, model_name, members, robot_model, warned, loaded, sets,
  image, mapOrigin, grids, fg, tracks, nextId, published, changes, still, tick,
  band, velGoalFixed, optimized, iteration, start, goal, outcome, plans

Modifier == INSTANCE ConfigModifier
Layer == INSTANCE CustomLayer
Parameter == INSTANCE TebConfig WITH node <- nodeValues
Tracker == INSTANCE DynamicObstacles WITH origin <- mapOrigin, MaxChanges <- MaxMapChanges
Planner == INSTANCE TebOptimalPlanner

-----------------------------------------------------------------------------
(* What each promises, beside CommandsCarriedOut and BytesAccounted.         *)

\* The points of a click reach the file as the corners of one area, in the order the areas take
\* turns, and the two halves of a tunnel agree (config_dynamic_modifier's point callback).
ClicksReachTheFile ==
  Modifier!ClicksBelongToOneArea /\ Modifier!TunnelHalvesAgree /\ Modifier!AreasTakeTurns

\* The layer changes what the layers before it wrote in the removed areas only
\* (CustomLayer::updateBounds and updateCosts).
OnlyAreasFreed == Layer!OnlyAreasAreFreed

\* A parameter the node has accepted is the one the planner uses, and what is warned of is what is
\* in use (TebConfig's dynamic callback).
ParametersTakeEffect == Parameter!AcceptedTakesEffect

\* Every blob of a frame has one track, and a track that was seen stands on a blob of its own
\* (CTracker::Update, AssignmentProblemSolver).
ObstaclesTracked == Tracker!BlobsHaveTracks

\* The band that is optimised has enough samples, however it was made, pruned and resized, and
\* leads from the robot to the goal of this cycle (TebOptimalPlanner::plan, TimedElasticBand).
BandsSound == Planner!NeverTooFewSamples /\ Planner!BandLeadsToGoal

\* From one step to the next a track moves no further than the threshold, and a band that is
\* started from the last one keeps the rest of it (CTracker::Update,
\* TimedElasticBand::updateAndPruneTEB).
StepsSound == Tracker!TracksDoNotJump /\ Planner!WarmStartKeepsRest
=============================================================================
