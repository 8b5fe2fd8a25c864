SPECIFICATION Spec
CONSTANTS
  MaxGoals = 2
  Trees = {"", "main", "other", "missing"}
  BadTrees = {"missing"}
  EndlessTrees = {"other"}
  DefaultTree = "main"
CHECK_DEADLOCK FALSE
INVARIANT SingleNavigator
