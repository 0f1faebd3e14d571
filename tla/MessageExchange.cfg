CONSTANTS
  Classes <- AllClasses
  Unions <- ContentUnions
  MaxChanged = 3
  MaxSets = 1
  None = None
SPECIFICATION Spec
CHECK_DEADLOCK FALSE
INVARIANTS
  MessagesAreRead
  ArrivesAsSet
  VariantIsRecovered
