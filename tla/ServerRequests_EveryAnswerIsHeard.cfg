CONSTANTS
  s1 = s1
  s2 = s2
  Sessions <- TwoSessions
  Library <- LibrarySession
  Versions <- BothByFirst
  Steady <- NoSession
  Asked <- Elicitation
  MaxRequests = 1
  MaxChanges <- NoChanges
  MaxStray = 0
SPECIFICATION Spec
CHECK_DEADLOCK FALSE
INVARIANTS
  EveryAnswerIsHeard
