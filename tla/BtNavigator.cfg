SPECIFICATION Spec
CONSTANTS
  MaxGoals = 3
  Trees = {"", "other"}
  BadTrees = {}
  EndlessTrees = {"other"}
  DefaultTree = "main"
CHECK_DEADLOCK FALSE
INVARIANTS
  MuxerHeldByRunner
  TargetIsCurrentGoal
PROPERTY ServerKeepsPromise
