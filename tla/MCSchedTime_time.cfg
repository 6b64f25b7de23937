SPECIFICATION Spec
CONSTANTS
  c1 = c1
  c2 = c2
  t1 = t1
  t2 = t2
  f1 = f1
  f2 = f2
  f3 = f3
  Cpu <- MCCpu
  Thread <- MCThread
  Fiber <- MCFiber
  Idle = Idle
  NULL = NULL
  PerMicro = 2
  MaxTime = 3
SYMMETRY Symmetric
INVARIANTS
  
  FaultsNamed
CHECK_DEADLOCK FALSE
