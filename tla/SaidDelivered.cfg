SPECIFICATION Spec
CONSTANTS
  Sender = {connect, process}
  MaxSends = 1
CHECK_DEADLOCK FALSE
INVARIANT DeliveredIsAcked
