SPECIFICATION Spec
CONSTANTS
  Task <- MCTask
  Fiber <- MCFiber
  Computation <- MCComputation
  MaxWork = 1
  MaxIndex = 3
  WordBits = 2
  IntBits = 2
  MAX_FLS = 5
  Data <- MCData
  NULL = NULL
INVARIANTS
  HandlesOwn
  SlotsReadBack
PROPERTY
  ImplementsContexts
CHECK_DEADLOCK FALSE
