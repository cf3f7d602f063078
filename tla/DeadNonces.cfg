SPECIFICATION FairSpec
CONSTANTS
  MARK = MARK
  Entries = {p, q}
  ExpectedMarkCount = 2
  InitialCapacity = 6
  MinCapacity = 5
  MaxCapacity = 7
  EvictLimit = 3
INVARIANTS
  BoundedMemory
  KeptForLifetime
PROPERTIES
  ForgetsOldestFirst
  ForgottenAtLast
