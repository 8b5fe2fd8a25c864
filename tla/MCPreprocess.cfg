SPECIFICATION MsgSpec
CONSTANTS
  Body = {"body"}
  Origin = "body"
  N_SCANS = 1
  Returns = {1}
  point_filter_num = 1
  OneMs = 3
  Turn = 6
INVARIANT EachPointKeepsItsTime
CHECK_DEADLOCK FALSE
