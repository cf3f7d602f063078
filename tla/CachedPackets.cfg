SPECIFICATION Spec
CONSTANTS
  d1 = d1  d2 = d2  d3 = d3  d4 = d4  any = any
  Packets = {d1, d2, d3, d4}
  Prefixes = {any}
  Under <- OneOrAny
  Freshness <- Periods
  Forever = Forever
  Limits = {0, 2, 3}
  MaxTime = 3
INVARIANTS
  WithinLimit
  StaleEventsAreLive
PROPERTIES
  EvictsInOrder
