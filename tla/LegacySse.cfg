CONSTANTS
  c1 = c1
  c2 = c2
  s1 = s1
  s2 = s2
  s3 = s3
  r1 = r1
  r2 = r2
  None = None
  Clients <- TwoClients
  Sessions <- ThreeSessions
  Requests <- TwoRequests
  Layouts <- TogetherAndApart
  MaxStarts <- FirstTwice
SPECIFICATION Spec
CHECK_DEADLOCK FALSE
INVARIANTS
  TypeOK
  AnswersGoToTheAsker
PROPERTIES
  RequestsAreAnswered
