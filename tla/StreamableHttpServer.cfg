CONSTANTS
  Sockets = {k1, k2}
  Exchanges = {e1, e2, e3}
  SessionIds = {shared, s1}
  Stateless = shared
  MaxAnswers = 2
  Errors = {404}
  Pipelining = FALSE
  None = None
SPECIFICATION FairSpec
CHECK_DEADLOCK FALSE
INVARIANTS
  TypeOK
  RoutesAgree
  StatelessIsShared
  ClosedConnectionsAreForgotten
PROPERTIES
  StreamsEndVisibly
  ExchangesRunTheirCourse
  EveryRequestIsAnswered
  StreamsAreKeptAlive
