SPECIFICATION Spec
CONSTANTS
  NodeId <- Two
  InitNode <- Two
  MaxEdits = 0
  Ctx = {c1, c2, c3, c4}
  NULL = NULL
  ComType <- Serial
  Parity <- SecondEven
  FuncCode <- HoldingRegisters
  TextAddr = {}
  NoOffset = FALSE
  SharedHelper = FALSE
  BusyDb = FALSE
  ClientMemory = "zero"
SYMMETRY Contexts
CHECK_DEADLOCK FALSE
INVARIANT ParityOfPort
