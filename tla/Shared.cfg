SPECIFICATION Spec
CONSTANTS
  NodeId <- One
  InitNode <- One
  MaxEdits = 0
  Ctx = {c1, c2, c3, c4}
  NULL = NULL
  ComType <- SerialThenTcp
  Parity <- NoParity
  FuncCode <- ReadThenWrite
  TextAddr = {}
  NoOffset = TRUE
  SharedHelper = TRUE
  BusyDb = TRUE
  ClientMemory = "junk"
SYMMETRY Contexts
CHECK_DEADLOCK FALSE
INVARIANT VectorsInStep
INVARIANT ContextsOwned
PROPERTY KeepsOwnership
CONSTRAINT TwoChannels
CONSTRAINT UnreadFixed
