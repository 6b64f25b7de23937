SPECIFICATION FairSpec
CONSTANTS
  CHANNELS_PER_CELL = 4
  BITS = 3
  COMPLETE_CALLS = 5
  NULL = 0
INVARIANTS
  ChannelsAgree
  ListWellFormed
  NoAbort
PROPERTY
  Finishes
