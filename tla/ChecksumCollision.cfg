SPECIFICATION Spec
CONSTANTS
  NodeId <- Three
  InitNode <- Third
  MaxEdits = 3
  Ctx = {c1, c2, c3}
  NULL = NULL
  ComType <- SerialThenTcp
  Parity <- NoParity
  FuncCode <- HoldingRegisters
  TextAddr = {}
  NoOffset = FALSE
  SharedHelper = FALSE
  BusyDb = FALSE
  ClientMemory = "zero"
SYMMETRY Contexts
CHECK_DEADLOCK FALSE
INVARIANT ChangeDetected
