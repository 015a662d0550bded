SPECIFICATION Spec
CONSTANTS
  Thread = {connect, process}
  MaxRows = 2
CHECK_DEADLOCK FALSE
INVARIANT OwnRows
INVARIANT TestedMeansRow
PROPERTY ImplementsService
