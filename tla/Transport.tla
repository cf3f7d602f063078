------------------------------- MODULE Transport -------------------------------
(***************************************************************************)
(* The base class of all transports (face/transport.{hpp,cpp}), the part   *)
(* of the face table that reacts to its state (fw/face-table.cpp), and the *)
(* handlers of one transport that wait in the event loop.                  *)
(*                                                                         *)
(* A transport is a record, and an operation a function from the record    *)
(* before to the record after the call, as the methods act on "this".      *)
(***************************************************************************)
EXTENDS Naturals, Sequences

CONSTANTS
  Kinds,        \* the transports of a model: a subset of TransportKinds
  IdleTimeout,  \* of on-demand unicast UDP transports; 0 when they are never closed
  Never,        \* no timer, and time_point::max() as an expiration time
  MaxQueue      \* bound: packets in the hands of a transport at a time

TransportKinds == {"stream", "unicast", "multicast", "internal", "websocket", "ethernet"}
TransportStates == {"UP", "DOWN", "CLOSING", "FAILED", "CLOSED"}
Persistencies == {"on-demand", "persistent", "permanent"}

\* What ends an asynchronous operation
Outcomes == {"ok", "eof", "aborted", "error"}

Handlers == [call : {"receive", "send"}, outcome : Outcomes]
              \cup [call : {"link", "deferredClose", "deallocate"}, outcome : {"ok"}]

ASSUME TransportAssumption ==
  /\ Kinds \subseteq TransportKinds
  /\ IdleTimeout \in Nat
  /\ Never \notin Nat
  /\ MaxQueue \in Nat

VARIABLES
  transport,  \* the transport
  now,        \* the steady clock
  lastUse     \* history: when a packet last came in, or the transport was created

transportVars == <<transport, now, lastUse>>

Transports ==
  [kind        : Kinds,
   state       : TransportStates,
   persistency : Persistencies,
   life        : {"listed", "removed", "freed"},  \* of the face: in the table, out of it, deallocated
   loop        : Seq(Handlers),                   \* its handlers in the event loop, in order
   socket      : {"open", "shut", "closed"},
   reading     : BOOLEAN,                         \* a receive operation is pending
   writing     : Nat,                             \* pending send operations
   queue       : Nat,                             \* the length of m_sendQueue of a stream
   used        : BOOLEAN,                         \* m_hasBeenUsedRecently of a datagram transport
   timer       : Nat \cup {Never},                \* m_closeIfIdleEvent, or m_pingEventId
   expiration  : Nat \cup {Never},
   fault       : {"none", "invalid transition", "empty queue", "oversized packet"}]

MayFollow ==
  [UP |-> {"DOWN", "CLOSING", "FAILED"},
   DOWN |-> {"UP", "CLOSING", "FAILED"},
   CLOSING |-> {"CLOSED"},
   FAILED |-> {"CLOSED"},
   CLOSED |-> {}]

Post(t, call, outcome) == [t EXCEPT !.loop = Append(@, [call |-> call, outcome |-> outcome])]

\* mutant of RemoveFace: the face table deallocates within the signal
FreeAtOnce(t) == [t EXCEPT !.life = "freed"]

\* The signal that a transport is closed erases the face from its channel and from
\* the face table, which posts the deallocation.
RemoveFace(t) == [Post(t, "deallocate", "ok") EXCEPT !.life = "removed"]

\* setState. An exception it throws ends the program.
SetState(t, newState) ==
  IF t.state = newState THEN t
  ELSE IF newState \notin MayFollow[t.state] THEN [t EXCEPT !.fault = "invalid transition"]
  ELSE IF newState = "CLOSED" THEN RemoveFace([t EXCEPT !.state = newState])
  ELSE [t EXCEPT !.state = newState]

CanSend(t) == t.state \in {"UP", "DOWN"}
ShuttingDown(t) == t.state \in {"CLOSING", "FAILED", "CLOSED"}

\* Closing or cancelling a socket makes its pending operations end with
\* operation_aborted, the receive operation first.
AbortPending(t) ==
  LET aborted(call) == [call |-> call, outcome |-> "aborted"]
      reads  == IF t.reading THEN <<aborted("receive")>> ELSE <<>>
      writes == [i \in 1 .. t.writing |-> aborted("send")]
  IN  [t EXCEPT !.loop = @ \o reads \o writes, !.reading = FALSE, !.writing = 0]

\* Starting an operation on a closed socket posts its handler with an error.
StartReceive(t) == IF t.socket = "closed" THEN Post(t, "receive", "error")
                   ELSE [t EXCEPT !.reading = TRUE]
StartSend(t)    == IF t.socket = "closed" THEN Post(t, "send", "error")
                   ELSE [t EXCEPT !.writing = @ + 1]

NewTransport(kind, persistency) ==
  [kind |-> kind, state |-> "UP", persistency |-> persistency, life |-> "listed",
   loop |-> <<>>, socket |-> "open", reading |-> FALSE, writing |-> 0, queue |-> 0,
   used |-> FALSE, timer |-> Never, expiration |-> Never, fault |-> "none"]

===============================================================================
