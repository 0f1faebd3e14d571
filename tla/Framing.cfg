CONSTANTS
  m1 = m1
  m2 = m2
  None = None
  Readers <- AllReaders
  Messages <- TwoMessages
  HeadersArriveWhole = TRUE
  MaxSent = 2
  MaxFillers = 2
  MaxStreams = 2
SPECIFICATION Spec
CHECK_DEADLOCK FALSE
PROPERTIES
  Delivered
  AllIsHeard
