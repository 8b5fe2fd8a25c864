SPECIFICATION Spec
CONSTANTS
  Classes = {"left", "right"}
  Invalid = "invalid"
  MaxClasses = 2
  MaxInBestClass = 1
  Costs = {1, 3}
  Hysteresis = 500
  PreferInitial = 95
  Drops = TRUE
INVARIANTS BandsMatchClasses CommandIsChecked
PROPERTY CycleEnds
