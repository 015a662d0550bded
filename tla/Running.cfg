SPECIFICATION FairGateways
CONSTANTS
  NodeId <- Two
  InitNode <- One
  MaxEdits = 0
  Ctx <- ThreeContexts
  NULL = NULL
  ComType <- SerialThenTcp
  Parity <- NoParity
  FuncCode <- ReadThenWrite
  TextAddr = {}
  NoOffset = FALSE
  SharedHelper = FALSE
  BusyDb = FALSE
  ClientMemory = "junk"
CHECK_DEADLOCK FALSE
PROPERTY ChannelReopened
PROPERTY ChannelPolled
