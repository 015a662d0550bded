SPECIFICATION FairSpec
CONSTANTS
  Sender = {connect, process}
  MaxSends = 2
CHECK_DEADLOCK FALSE
INVARIANT TypeOK
INVARIANT AtMostOnce
INVARIANT LostOnlyIfCut
INVARIANT OneSession
PROPERTY SendReturns
