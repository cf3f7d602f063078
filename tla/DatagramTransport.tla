--------------------------- MODULE DatagramTransport ---------------------------
(***************************************************************************)
(* UDP transports (face/datagram-transport.hpp, unicast-udp-transport.cpp, *)
(* multicast-udp-transport.cpp): datagrams are sent independently, errors  *)
(* do not end a permanent face, and an on-demand unicast face is closed    *)
(* when a whole idle timeout goes by without an incoming packet.           *)
(***************************************************************************)
EXTENDS Transport

\* the constructor, and doSend on the socket that receives
NewDatagram(kind, persistency) == [NewTransport(kind, persistency) EXCEPT !.reading = TRUE]
DatagramDoSend(t) == StartSend(t)

\* doClose
DatagramDoClose(t) ==
  Post(IF t.socket = "closed" THEN t ELSE [AbortPending(t) EXCEPT !.socket = "closed"],
       "deferredClose", "ok")

\* A multicast transport has a second socket to send with, which is open as long as the
\* other: handlers of its sends are in the event loop before that of the receive operation.
NewMulticastUdp == NewDatagram("multicast", "permanent")
MulticastDoSend(t) == StartSend(t)
CloseSendSocket(t) ==
  [t EXCEPT !.loop = @ \o [i \in 1 .. t.writing |-> [call |-> "send", outcome |-> "aborted"]],
            !.writing = 0]
MulticastDoClose(t) == DatagramDoClose(IF t.socket = "closed" THEN t ELSE CloseSendSocket(t))

\* mutant of DatagramError: the transport fails, and nothing closes it
FailWithoutClosing(t, error) ==
  IF ShuttingDown(t) \/ error = "aborted" \/ t.persistency = "permanent" THEN t
  ELSE SetState(t, "FAILED")

\* processErrorCode
DatagramError(t, error) ==
  IF ShuttingDown(t) \/ error = "aborted" \/ t.persistency = "permanent" THEN t
  ELSE DatagramDoClose(SetState(t, "FAILED"))  \* a multicast transport is permanent

\* receiveDatagram: only a well-formed packet extends the lifetime of the face
ReceiveDatagram(t, outcome, wellFormed) ==
  IF outcome # "ok" THEN DatagramError(t, outcome)
  ELSE [t EXCEPT !.used = @ \/ wellFormed]

\* handleReceive
DatagramHandleReceive(t, outcome, wellFormed) ==
  LET received == ReceiveDatagram(t, outcome, wellFormed)
  IN  IF received.socket = "open" THEN StartReceive(received) ELSE received

\* handleSend
DatagramHandleSend(t, outcome) == IF outcome # "ok" THEN DatagramError(t, outcome) ELSE t

\* scheduleClosureWhenIdle: the event handle cancels the timer it held before
ScheduleClosureWhenIdle(t) ==
  [t EXCEPT !.timer = now + IdleTimeout, !.expiration = now + IdleTimeout]

\* the constructor of a unicast transport
NewUnicastUdp(persistency) ==
  LET t == NewDatagram("unicast", persistency)
  IN  IF persistency = "on-demand" /\ IdleTimeout > 0
      THEN [t EXCEPT !.timer = IdleTimeout, !.expiration = IdleTimeout] ELSE t

\* mutant of BeforeChangePersistency: the timer goes on
ForgetTimer(t, newPersistency) == [t EXCEPT !.expiration = Never]

\* beforeChangePersistency of a unicast transport
BeforeChangePersistency(t, newPersistency) ==
  IF newPersistency = "on-demand" /\ IdleTimeout > 0 THEN ScheduleClosureWhenIdle(t)
  ELSE [t EXCEPT !.timer = Never, !.expiration = Never]

\* setPersistency, as the channel calls it on a face it has for the endpoint already:
\* only on-demand to persistent to permanent is allowed
TransitionAllowed(t, newPersistency) ==
  /\ newPersistency # t.persistency
  /\ t.persistency = "on-demand" \/ newPersistency = "permanent"
SetPersistency(t, newPersistency) ==
  [BeforeChangePersistency(t, newPersistency) EXCEPT !.persistency = newPersistency]

\* the timer's callback, with close()
IdleTimerFires(t) ==
  LET fired == [t EXCEPT !.timer = Never]
  IN  IF t.used THEN ScheduleClosureWhenIdle([fired EXCEPT !.used = FALSE])
      ELSE IF CanSend(t) THEN DatagramDoClose(SetState(fired, "CLOSING"))
      ELSE fired

===============================================================================
