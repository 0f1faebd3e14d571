CONSTANTS
  m1 = m1
  m2 = m2
  None = None
  Readers <- JustHttp
  Messages <- TwoMessages
  HeadersArriveWhole = FALSE
  MaxSent = 2
  MaxFillers = 0
  MaxStreams = 1
SPECIFICATION FairSpec
CHECK_DEADLOCK FALSE
PROPERTY
  AllIsHeard
