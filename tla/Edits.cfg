SPECIFICATION Spec
CONSTANTS
  NodeId = {1, 2, 3}
  NoModel = {2}
  MaxEdits = 2
  MaxFailures = 1
CHECK_DEADLOCK FALSE
INVARIANT ItemsOfOneRow
INVARIANT AddsTheUnregistered
INVARIANT ReportsTheAdded
INVARIANT DiesOnlyDisturbed
