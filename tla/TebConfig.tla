------------------------------ MODULE TebConfig ------------------------------
(***************************************************************************)
(* The parameters of the local planner (TebConfig): declared with their      *)
(* defaults, loaded once when the planner is configured, and changed by the  *)
(* node's parameter callback afterwards; and the footprint model made of     *)
(* them.  Values are in hundredths; a value nobody has written is Undefined. *)
(***************************************************************************)
EXTENDS Integers, FiniteSets, TLC

CONSTANTS
  NewValues,    \* values a parameter may be given
  MaxChanges    \* bound: parameters set in a launch file or while the planner runs

VARIABLES
  node,         \* the node's parameters, as its parameter service shows them
  config,       \* the members the planner reads, by the name of their parameter
  base,         \* base_max_vel_x and the three others
  model_name,
  members,      \* the footprint's members of TebConfig, written by the callback only
  robot_model,  \* the footprint: its kind and the values it was made of
  warned,       \* conditions of which checkParameters warned last
  loaded, sets

configVars == <<node, config, base, model_name, members, robot_model, warned, loaded, sets>>

Undefined == -1000

\* The parameters by the type of the default they are declared with: rclcpp keeps to that type.
Doubles ==
  {"teb_autosize", "dt_ref", "dt_hysteresis", "global_plan_viapoint_sep",
   "max_global_plan_lookahead_dist", "global_plan_prune_distance", "force_reinit_new_goal_dist",
   "force_reinit_new_goal_angular", "min_resolution_collision_check_angular",
   "feasibility_check_lookahead_distance", "max_vel_x", "max_vel_x_backwards", "max_vel_y",
   "max_vel_theta", "acc_lim_x", "acc_lim_y", "acc_lim_theta", "min_turning_radius", "wheelbase",
   "min_obstacle_dist", "inflation_dist", "dynamic_obstacle_inflation_dist",
   "costmap_obstacles_behind_robot_dist", "obstacle_association_force_inclusion_factor",
   "obstacle_association_cutoff_factor", "obstacle_proximity_ratio_max_vel",
   "obstacle_proximity_lower_bound", "obstacle_proximity_upper_bound", "penalty_epsilon",
   "weight_max_vel_x", "weight_max_vel_y", "weight_max_vel_theta", "weight_acc_lim_x",
   "weight_acc_lim_y", "weight_acc_lim_theta", "weight_kinematics_nh",
   "weight_kinematics_forward_drive", "weight_kinematics_turning_radius", "weight_optimaltime",
   "weight_shortest_path", "weight_obstacle", "weight_inflation", "weight_dynamic_obstacle",
   "weight_dynamic_obstacle_inflation", "weight_viapoint", "weight_prefer_rotdir",
   "weight_adapt_factor", "obstacle_cost_exponent", "weight_velocity_obstacle_ratio",
   "selection_obst_cost_scale", "selection_prefer_initial_plan", "selection_viapoint_cost_scale",
   "selection_cost_hysteresis", "switching_blocking_period", "roadmap_graph_area_width",
   "roadmap_graph_area_length_scale", "h_signature_prescaler", "h_signature_threshold",
   "obstacle_keypoint_offset", "obstacle_heading_threshold", "visualize_with_time_as_z_axis_scale",
   "detours_orientation_tolerance", "length_start_orientation_vector",
   "max_ratio_detours_duration_best_duration", "selection_dropping_probability",
   "shrink_horizon_min_duration", "oscillation_v_eps", "oscillation_omega_eps",
   "oscillation_recovery_min_duration", "oscillation_filter_duration"}
Ints ==
  {"min_samples", "max_samples", "feasibility_check_no_poses", "control_look_ahead_poses",
   "obstacle_poses_affected", "no_inner_iterations", "no_outer_iterations", "max_number_classes",
   "roadmap_graph_samples", "divergence_detection_max_chi_squared"}
Bools ==
  {"global_plan_overwrite_orientation", "allow_init_with_backwards_motion", "via_points_ordered",
   "exact_arc_length", "publish_feedback", "cmd_angle_instead_rotvel", "is_footprint_dynamic",
   "free_goal_vel", "include_dynamic_obstacles", "include_costmap_obstacles",
   "legacy_obstacle_association", "costmap_converter_spin_thread", "optimization_activate",
   "optimization_verbose", "enable_homotopy_class_planning", "enable_multithreading",
   "simple_exploration", "selection_alternative_time_cost", "viapoints_all_candidates",
   "visualize_hc_graph", "delete_detours_backwards", "shrink_horizon_backup", "oscillation_recovery",
   "divergence_detection_enable"}
Strings ==
  {"odom_topic", "costmap_converter_plugin"}

Speeds == {"max_vel_x", "max_vel_x_backwards", "max_vel_y", "max_vel_theta"}
Plain == Doubles \cup Ints \cup Bools \cup Strings

\* The footprint models and the parameters each is made of.
PartsOf ==
  [none |-> {}, point |-> {}, unknown |-> {}, circular |-> {"radius"},
   line |-> {"line_start", "line_end"},
   two_circles |-> {"front_offset", "front_radius", "rear_offset", "rear_radius"},
   polygon |-> {"vertices"}]
Models == DOMAIN PartsOf
Parts == UNION {PartsOf[m] : m \in Models}

\* What the callback listens to in the section of each type.  A parameter declared with a default of
\* another type never comes by there.
Listed ==
  [double |-> (Doubles \ {"weight_velocity_obstacle_ratio"})
                \cup {"divergence_detection_max_chi_squared"},
   int    |-> (Ints \ {"roadmap_graph_samples", "divergence_detection_max_chi_squared"})
                \cup {"roadmap_graph_no_samples", "costmap_converter_rate"},
   bool   |-> Bools,
   string |-> Strings \ {"odom_topic"}]
Declared == [double |-> Doubles, int |-> Ints, bool |-> Bools, string |-> Strings]

\* Variant: a name is listed under the wrong type.
HeardElsewhere == UNION {Declared[t] \cap Listed[t] : t \in DOMAIN Listed} \ {"min_obstacle_dist"}
Heard == UNION {Declared[t] \cap Listed[t] : t \in DOMAIN Listed}

-----------------------------------------------------------------------------
(* Defaults, in hundredths where checkParameters looks at them.              *)

Given ==
  "dt_ref" :> 30 @@ "dt_hysteresis" :> 10 @@ "min_samples" :> 3 @@ "max_vel_x" :> 40
  @@ "max_vel_x_backwards" :> 20 @@ "max_vel_theta" :> 30 @@ "acc_lim_x" :> 50
  @@ "acc_lim_theta" :> 50 @@ "penalty_epsilon" :> 5 @@ "costmap_obstacles_behind_robot_dist" :> 150
  @@ "obstacle_keypoint_offset" :> 10 @@ "wheelbase" :> 100 @@ "weight_adapt_factor" :> 200
  @@ "oscillation_filter_duration" :> 1000 @@ "weight_optimaltime" :> 100
Defaults == [n \in Plain |-> IF n \in DOMAIN Given THEN Given[n] ELSE 0]

\* checkParameters: the conditions it warns of, by the parameter it names first.  It refuses nothing.
checkParameters(c) ==
  {n \in {"max_vel_x", "max_vel_x_backwards", "max_vel_theta", "acc_lim_x", "acc_lim_theta"} :
     c[n] <= c["penalty_epsilon"]}
  \cup {n \in {"max_vel_x_backwards", "weight_optimaltime"} : c[n] <= 0}
  \cup {n \in {"costmap_obstacles_behind_robot_dist", "oscillation_filter_duration"} : c[n] < 0}
  \cup {n \in {"dt_ref"} : c[n] <= c["dt_hysteresis"]}
  \cup {n \in {"min_samples"} : c[n] < 3}
  \cup {n \in {"obstacle_keypoint_offset"} : c[n] >= 100 \/ c[n] <= 0}
  \cup {n \in {"wheelbase", "min_turning_radius"} : c["cmd_angle_instead_rotvel"] # 0 /\ c[n] = 0}
  \cup {n \in {"weight_adapt_factor"} : c[n] < 100}

-----------------------------------------------------------------------------
(* The footprint.                                                           *)

Point == [kind |-> "point", made_of |-> <<>>]
Made(kind, values) == [kind |-> kind, made_of |-> [p \in PartsOf[kind] |-> values[p]]]

\* Loading: the local variables are read whether the parameters were found or not; the point model
\* that a missing one stands for is overwritten, and a missing line reads an empty vector.
Loads(kind, given) ==
  LET found == [p \in PartsOf[kind] |-> IF p \in DOMAIN given THEN given[p] ELSE Undefined]
  IN IF kind \in {"none", "point", "unknown"} \/ (kind = "polygon" /\ "vertices" \notin DOMAIN given)
     THEN Point
     ELSE Made(kind, found)

\* Reloading: from the members, into which loading has put nothing.  A line with a point missing and
\* a polygon without vertices keep the old model.
Reloads(kind, m) ==
  IF kind \in {"none", "point", "unknown"} \/ (kind \in {"line", "polygon"} /\ \E p \in PartsOf[kind] : m[p] = Undefined)
  THEN robot_model
  ELSE Made(kind, m)

-----------------------------------------------------------------------------
(* Operations.                                                              *)

\* declareParameters and the constructor's defaults: of the base limits only the first is given one.
Init ==
  /\ node = Defaults
  /\ config = Defaults
  /\ base = [n \in Speeds |-> IF n = "max_vel_x" THEN Defaults[n] ELSE Undefined]
  /\ model_name = "none"
  /\ members = [p \in Parts |-> Undefined]
  /\ robot_model = Point
  /\ warned = {}
  /\ loaded = FALSE
  /\ sets = 0

\* The launch file sets at most one parameter, or a footprint with some of its parts; all are loaded.
loadRosParamFromNodeHandle ==
  /\ ~loaded
  /\ loaded' = TRUE
  /\ \/ /\ \E n \in Plain, v \in NewValues : node' = [node EXCEPT ![n] = v] /\ config' = [config EXCEPT ![n] = v]
        /\ sets' = sets + 1
        /\ UNCHANGED <<model_name, robot_model>>
     \/ /\ \E kind \in Models, given \in UNION {[S -> NewValues] : S \in {{}} \cup {PartsOf[m] : m \in Models}} :
             /\ model_name' = kind
             /\ robot_model' = Loads(kind, given)
        /\ UNCHANGED <<node, config, sets>>
  /\ warned' = checkParameters(config')
  /\ UNCHANGED <<base, members>>

\* dynamicParametersCallback: the node takes every value; it reaches the planner when it is listed
\* where its type is looked up.
dynamicParametersCallback ==
  /\ loaded
  /\ sets < MaxChanges
  /\ sets' = sets + 1
  /\ \/ /\ \E n \in Plain, v \in NewValues :
             /\ node' = [node EXCEPT ![n] = v]
             /\ config' = IF n \in Heard THEN [config EXCEPT ![n] = v] ELSE config
             /\ base' = IF n \in Speeds THEN [base EXCEPT ![n] = v] ELSE base
        /\ UNCHANGED <<members, robot_model>>
     \/ /\ \E p \in Parts, v \in NewValues :
             /\ members' = [members EXCEPT ![p] = v]
             /\ robot_model' = Reloads(model_name, members')
        /\ UNCHANGED <<node, config, base>>
  /\ warned' = checkParameters(config')
  /\ UNCHANGED <<model_name, loaded>>

ConfigNext == loadRosParamFromNodeHandle \/ dynamicParametersCallback

-----------------------------------------------------------------------------
(* Properties.                                                              *)

\* Every parameter that is listed for the callback under the type it is declared with has, whatever
\* was set before, at launch or later, the value the node reports, and only what is configured so is
\* taken as sound (dynamicParametersCallback reports success every time).
AcceptedTakesEffect ==
  loaded => /\ \A n \in Plain \ {"odom_topic", "weight_velocity_obstacle_ratio", "roadmap_graph_samples",
                                 "divergence_detection_max_chi_squared"} : config[n] = node[n]
            /\ warned = checkParameters(config)

\* So has every parameter.  Three are listed nowhere or under another name, and one under the type
\* it does not have (teb_config.cpp:602).
EveryParameterTakesEffect == loaded => config = node

\* The footprint is made of values that were given.  Loading keeps them in local variables that hide
\* the members, so the first change of one part of two circles makes them of members nobody has
\* written (teb_config.cpp:375 and 773).
FootprintIsGiven == \A p \in DOMAIN robot_model.made_of : robot_model.made_of[p] # Undefined

\* The hysteresis is smaller than the reference ("The hysteresis is not allowed to be greater or
\* equal", teb_config.cpp:830).  The values are taken all the same.
HysteresisBelowRef == config["dt_hysteresis"] < config["dt_ref"]
=============================================================================
