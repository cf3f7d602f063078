SPECIFICATION Spec
SYMMETRY NonceSymmetry
CONSTANTS
  a = a  b = b  u = u  n1 = n1  n2 = n2  w1 = w1  w2 = w2  x1 = x1  x2 = x2  x3 = x3
  Faces = {a, b, u}
  LocalFaces = {a, b}
  MultiAccessFaces = {u}
  Names = {n1, n2}
  PrefixesOf <- Prefixes
  LocalhostNames = {n2}
  LocalhopNames = {}
  Words = {}
  NoWord = NoWord
  Nonces = {x1, x2}
  NackReasons = {100}
  RetxInitial = 1
  RetxMax = 2
  QueryNames = {}
  FuzzWord <- NoFuzz
  StrategyOf <- ByMulticastAndBestRoute
  Interests <- FreshInterests
  Datas <- StaleDatas
  NoHop = NoHop
  AdmittedFaces <- AdmitNetwork
  InitialFib <- RouteToUAndB
  RemovableFaces = {}
  Costs = {1, 2}
  Changeable = {}
  StragglerTime = 1
  MaxTime = 5
  LastArrival = 3
  MaxEvents = 4
INVARIANTS
  StragglerEntryIsSettled
  LocalhostStaysLocal
PROPERTIES
  DataFollowsInterest
  DeadNonceNotForwarded
\* the bounds on time and events let the model stop
CHECK_DEADLOCK FALSE
