CONSTANTS
  s1 = s1
  s2 = s2
  Sessions <- TwoSessions
  Library <- NoSession
  Versions <- BothByFirst
  Steady <- Second
  Asked <- Elicitation
  MaxRequests = 2
  MaxChanges <- ChangesOfFirst
  MaxStray = 1
SPECIFICATION Spec
CHECK_DEADLOCK FALSE
INVARIANTS
  TypeOK
  CallbackRunsWithItsAnswer
  RootsSettle
PROPERTIES
  RequestsAreAnswered
