SPECIFICATION Spec
CONSTANTS
  MaxFibers = 3
  MaxProcs = 2
INVARIANTS
  NothingLeftBehind
  FaultsNeedRace

  
