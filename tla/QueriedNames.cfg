SPECIFICATION FairSpec
CONSTANTS
  a = a  b = b  u = u  n1 = n1  n2 = n2  w1 = w1  w2 = w2  x1 = x1  x2 = x2  x3 = x3
  Faces = {a, b, u}
  LocalFaces = {a}
  MultiAccessFaces = {}
  Names = {n1}
  PrefixesOf <- Prefixes
  LocalhostNames = {}
  LocalhopNames = {n1}
  Words = {w1, w2}
  NoWord = NoWord
  Nonces = {x1, x2}
  NackReasons = {100}
  RetxInitial = 1
  RetxMax = 2
  QueryNames = {n1}
  FuzzWord <- FuzzToW1
  StrategyOf <- ByBestRouteV4
  Interests <- QueryInterests
  Datas <- StaleDatas
  NoHop = NoHop
  AdmittedFaces <- AdmitLocal
  InitialFib <- RouteToUAndB
  RemovableFaces = {a, u}
  Costs = {1, 2}
  Changeable = {}
  StragglerTime = 1
  MaxTime = 4
  LastArrival = 2
  MaxEvents = 4
PROPERTIES
  PitDrains
  LocalhopIsOneHop
  QueryKeepsItsWord
\* the bounds on time and events let the model stop
CHECK_DEADLOCK FALSE
