SPECIFICATION Spec
CONSTANTS
  udpPeer = udpPeer  unixPeer = unixPeer  webPeer = webPeer  selfPeer = selfPeer
  key1 = key1  nic1 = nic1  g1 = g1  g2 = g2  elsewhere = elsewhere
  InternalFace = 1
  ContentStoreFace = 2
  NullFace = 3
  ReservedMax = 3
  Peers = {udpPeer, unixPeer, webPeer, selfPeer}
  KindOf <- Kinds
  VersionOf <- Versions
  AddressOf <- Addresses
  AnyVersion = AnyVersion
  Group = Group
  Broadcast = Broadcast
  Loopback = {webPeer}
  Signers = {key1}
  NoKey = NoKey
  Anyone = Anyone
  BadUris = {bad}
  Prefixes = {p}
  MgmtPrefix = mgmt
  Nics = {nic1}
  Files <- AllFiles
  Absent = Absent
  Bad = Bad
  DefaultLimit = 2
  MaxCommands = 2
  MaxFaces = 2
  NamedReserved = {1, 2}
  MaxChanges = 2
INVARIANTS
  NothingOutlivesItsFace
  AnsweredOnce
  FacesFollowInterfaces
  NoFaceToKnownAddress
\* the bounds let the daemon stop
CHECK_DEADLOCK FALSE
