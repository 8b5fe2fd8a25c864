----------------------------- MODULE TebControl -----------------------------
(***************************************************************************)
(* The controller together with the worker of its costmap converter: the    *)
(* obstacles of a cycle are the polygons that were published last, while    *)
(* the costmap changes and the worker converts.                             *)
(***************************************************************************)
EXTENDS TebLocalPlanner

CONSTANTS Maps, Conversion, Nothing
ASSUME ConversionAssumption == DOMAIN Conversion = Maps

VARIABLES spinning, costmap, occupied_cells, polygons, worker, timer, terminate_mutex,
          need_to_terminate, spin_thread, stopper

Converter == INSTANCE CostmapConverter
converter == <<spinning, costmap, occupied_cells, polygons, worker, timer, terminate_mutex,
               need_to_terminate, spin_thread, stopper>>
allVars == <<controllerVars, converter>>

ControlInit ==
  /\ ControllerInit /\ Converter!Init
  /\ ~config.converter => costmap = CHOOSE m \in Maps : TRUE     \* it does not matter there
  /\ spinning = config.converter

\* initialize(): the converter is started with a thread of its own, as configured by default.
Initialize ==
  /\ config.converter /\ Converter!startWorker /\ UNCHANGED controllerVars

\* Between initialize() and cleanup().
Controlling == stopper = (IF config.converter THEN "run" ELSE "new")

\* computeVelocityCommands and the callbacks; getObstacles returns what is published.
Controls ==
  /\ Controlling
  /\ ControllerNext
  /\ stage = "obstacles" /\ stage' = "plan" /\ config.converter =>
       obstacles' = WithCustom(Converted(polygons), custom_obstacle_msg)
  /\ UNCHANGED converter

Converts ==
  /\ config.converter /\ stopper # "new"
  /\ Converter!spinThread \/ Converter!SpinsIdle \/ Converter!updateCostmap2D
       \/ Converter!compute \/ Converter!CostmapChanges
  /\ UNCHANGED controllerVars

\* cleanup() stops the worker, and the destructor once more.
Cleanup ==
  /\ config.converter /\ stage = "idle"
  /\ Converter!stopWorker \/ Converter!StopLocks \/ Converter!StopJoins
  /\ UNCHANGED controllerVars

ControlNext == Initialize \/ Controls \/ Converts \/ Cleanup

\* Weak fairness, each written as "not enabled again and again, or taken again and again": the
\* controller server asks for commands at a fixed rate, its thread runs, time passes.
ControlFairness ==
  /\ \/ []<>~(Controlling /\ stage = "idle" /\ global_plan # <<>>)
     \/ []<><<stage = "idle" /\ stage' # "idle">>_allVars
  /\ \/ []<>~(Controlling /\ stage # "idle")
     \/ []<><<stage # "idle" /\ stage' # stage>>_allVars
  /\ \/ []<>~(Controlling /\ recently_oscillated)
     \/ []<><<recently_oscillated /\ ~recently_oscillated'>>_allVars

ControlSpec == ControlInit /\ [][ControlNext]_allVars /\ ControlFairness /\ Converter!Fairness

-----------------------------------------------------------------------------
\* When the costmap no longer changes, the planner's obstacles come to be those of this costmap
\* and stay so (teb_local_planner_ros.cpp:495-538, costmap_converter_interface.h:243-263).
ObstaclesCatchUp ==
  \A m \in Maps :
    (<>[](config.converter /\ costmap = m /\ stopper = "run")) =>
      <>[](stage = "plan" => obstacles = Converted(Conversion[m]))

\* The plan that is followed still ends at its goal, and obstacles carry their own velocities
\* (pruneGlobalPlan, updateObstacleContainerWithCustomObstacles).
ControlInv == PlanKeepsGoal /\ ObstaclesHaveOwnVelocity


\* The worker's thread is deleted once (the destructor's stopWorker, second call).
DeletedOnce == Converter!DeletedOnce
=============================================================================
