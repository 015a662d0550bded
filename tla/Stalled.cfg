SPECIFICATION Spec
CONSTANTS
  NodeId <- Two
  InitNode <- One
  MaxEdits = 1
  Ctx = {c1, c2, c3, c4}
  NULL = NULL
  ComType <- SerialThenTcp
  Parity <- NoParity
  FuncCode <- HoldingRegisters
  TextAddr = {}
  NoOffset = FALSE
  SharedHelper = FALSE
  BusyDb = FALSE
  ClientMemory = "zero"
SYMMETRY Contexts
CHECK_DEADLOCK FALSE
INVARIANT SizesAgree
