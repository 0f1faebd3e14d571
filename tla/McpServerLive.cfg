CONSTANTS
  Sessions = {s1, s2}
  Requests = {r1, r2}
  Versions <- MCVersions
  Modern = 2026
  Supported <- MCSupported
  TasksExtension = FALSE
  Overlapping = {s1}
  Unknown = 0
  None = None
SPECIFICATION FairSpec
CHECK_DEADLOCK FALSE
PROPERTIES
  EveryToolCallIsAnswered
INVARIANTS
  InterimMatchesRequest
