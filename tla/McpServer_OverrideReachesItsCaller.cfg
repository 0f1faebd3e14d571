CONSTANTS
  Sessions = {s1}
  Requests = {r1, r2, r3}
  Versions <- MCVersions
  Modern = 2026
  Supported <- MCSupported
  TasksExtension = TRUE
  Overlapping = {s1}
  Unknown = 0
  None = None
SPECIFICATION Spec
CHECK_DEADLOCK FALSE
INVARIANTS
  OverrideReachesItsCaller
