SPECIFICATION Spec
SYMMETRY NonceSymmetry
CONSTANTS
  a = a  b = b  u = u  n1 = n1  n2 = n2  w1 = w1  w2 = w2  x1 = x1  x2 = x2  x3 = x3
  Faces = {a, b, u}
  LocalFaces = {a}
  MultiAccessFaces = {}
  Names = {n1}
  PrefixesOf <- Prefixes
  LocalhostNames = {}
  LocalhopNames = {}
  Words = {}
  NoWord = NoWord
  Nonces = {x1, x2, x3}
  NackReasons = {100}
  RetxInitial = 1
  RetxMax = 2
  QueryNames = {}
  FuzzWord <- NoFuzz
  StrategyOf <- ByBestRouteV4
  Interests <- PlainInterests
  Datas <- StaleDatas
  NoHop = NoHop
  AdmittedFaces <- AdmitLocal
  InitialFib <- RouteToUAndB
  RemovableFaces = {u}
  Costs = {1, 2}
  Changeable = {n1}
  StragglerTime = 1
  MaxTime = 4
  LastArrival = 2
  MaxEvents = 5
INVARIANTS
  TypeOK
  OneTimerPending
  UnsatisfyTimerCoversInRecords
  FlowBalance
  NoDanglingFace
  AllNackedIsAnswered
PROPERTIES
  FreshNonceUpstream
  NoSilentLoss
\* the bounds on time and events let the model stop
CHECK_DEADLOCK FALSE
