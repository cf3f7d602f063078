SPECIFICATION Spec
CONSTANTS
  c1 = c1
  u1 = u1
  u2 = u2
  NoFace = NoFace
  ComponentHash <- MCComponentHash
  ExclusiveOr <- MCXor
  MinBuckets = 2
  ExpandPercent = 50
  ExpandFactor = 2
  ShrinkPercent = 40
  ShrinkDivisor = 2
  Digests <- MCDigests
  Names <- MCNames
  PitNames <- MCPitNames
  DataNames <- MCDataNames
  RoutePrefixes <- MCRoutePrefixes
  ChoicePrefixes <- MCChoicePrefixes
  Downstreams <- MCDownstreams
  Upstreams <- MCUpstreams
  InitialChoices <- MCInitialChoices
  InitialRoutes <- MCInitialRoutes
  MaxInterests = 2
  MaxChanges = 1
  MaxExpiries = 1
INVARIANTS NameTreeIsSound InfoIsOfStrategyInEffect RtoTimerHasDownstream ScheduledTimeoutIsKnown
CHECK_DEADLOCK FALSE
SYMMETRY MCSymmetry
