SPECIFICATION Spec
CONSTANTS
  s = s  t = t  m1 = m1  m2 = m2  m3 = m3
  Senders = {s, t}
  Messages = {m1, m2, m3}
  SenderOf <- BySender
  SizeOf <- Sizes
  HeaderOf <- Headers
  TypeOf <- Types
  FieldsOf <- Fields
  SingleFragOverhead = 1
  FragOverhead = 2
  MaxSent = 4
  MaxReceived = 3
  ReassemblyTimeout = 1
  SeqModulus = 16
  Mtu = 6
  MaxRepeats = 1
  LastArrival = 1
  MaxTime = 3
INVARIANTS
  ReceivedWasSent
  NothingIsLeftIncomplete
PROPERTIES
  OnlyIdlePartialsExpire
\* the bounds on time let the model stop
CHECK_DEADLOCK FALSE
