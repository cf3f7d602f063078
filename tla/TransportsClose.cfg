SPECIFICATION FairSpec
CONSTANTS
  Kinds = {"stream", "unicast", "multicast", "internal", "websocket", "ethernet"}
  IdleTimeout = 2
  Never = Never
  MaxQueue = 2
  ReadsAfterShutdown = TRUE
  MaxTime = 5
  MaxReads = 4
INVARIANTS
  HandlersRunSafely
PROPERTIES
  OnlyIdleIsClosed
  ImplementsLifecycle
  ClosedAtLast
\* the bounds on time and packets, and the end of a transport, let the model stop
CHECK_DEADLOCK FALSE
