CONSTANTS
  Clients = {k1}
  MaxCalls = 3
  MaxSessions = 2
  Versions <- MCVersions
  Modern <- MCModern
  None = None
SPECIFICATION FairSpec
CHECK_DEADLOCK FALSE
INVARIANTS
  TypeOK
  CallbackRunsOnce
  RepliesAreConfusedByHandshakesOnly
  CallbackIsKeptForItsReply
PROPERTIES
  SessionKnownWhenNegotiated
  RunningStreamIsKept
  StreamIsReopened
