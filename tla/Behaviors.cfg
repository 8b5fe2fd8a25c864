SPECIFICATION FairSpec
CONSTANT MaxGoals = 3
CHECK_DEADLOCK FALSE
INVARIANT BehaviorInv
PROPERTIES
  MotionHasGoal
  EveryGoalAnswered
  ServerKeepsPromise
