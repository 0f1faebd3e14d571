CONSTANTS
  s1 = s1
  t1 = t1
  a1 = a1
  q1 = q1
  i1 = i1
  i2 = i2
  Sessions <- OneSession
  ToolSets <- OneToolSet
  Actions <- OneAction
  Self <- OwnTools
  Items <- TwoItems
  PageSize = 1
  MaxEdits = 2
  Filters <- SomeFilters
  MaxListens = 2
SPECIFICATION Spec
CHECK_DEADLOCK FALSE
INVARIANTS
  TypeOK
  CoveredListsAreCurrent
  ToolsFollowRegistrations
  PagesMakeTheList
PROPERTIES
  ChangesReachTheClient
