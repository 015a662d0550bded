SPECIFICATION Spec
CONSTANTS
  Thread = {connect, process}
  MaxRows = 1
CHECK_DEADLOCK FALSE
INVARIANT OwnAnswer
