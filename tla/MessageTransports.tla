--------------------------- MODULE MessageTransports ---------------------------
(***************************************************************************)
(* The transports without send operations of their own:                    *)
(*   internal   (face/internal-transport.cpp), paired with a client in the *)
(*              same program: what the client sends is posted to it        *)
(*   websocket  (face/websocket-transport.cpp, websocket-channel.cpp): the *)
(*              server sends, and closes the face within the call          *)
(*   ethernet   (face/ethernet-transport.cpp): libpcap sends               *)
(***************************************************************************)
EXTENDS Transport

\* An internal transport hands what is sent and received on within the call.
NewInternal == NewTransport("internal", "permanent")
InternalDoSend(t) == t
InternalReceive(t) == t

\* doClose of an internal transport
InternalDoClose(t) == SetState(t, "CLOSED")

\* asyncReceive: a client that is connected sends. It disconnects when the transport
\* is CLOSED, that is when the face leaves the face table.
ClientSend(t) == Post(t, "link", "ok")

\* the constructor of a WebSocket transport, with schedulePing
NewWebSocket == [NewTransport("websocket", "on-demand") EXCEPT !.timer = 1]

\* doClose of a WebSocket transport
WebSocketDoClose(t) == SetState([t EXCEPT !.timer = Never, !.socket = "closed"], "CLOSED")

WebSocketFail(t) == WebSocketDoClose(SetState(t, "FAILED"))

\* processErrorCode, after a send or a ping that failed in the call
WebSocketError(t) == IF ShuttingDown(t) THEN t ELSE WebSocketFail(t)

\* doSend: the server may fail in the call
WebSocketDoSend(t, sent) == IF sent THEN t ELSE WebSocketError(t)

\* handlePongTimeout does not look at the state.
WebSocketPongTimeout(t) == WebSocketFail(t)

\* sendPing, and schedulePing when it succeeds
SendPing(t, pingOk) ==
  IF pingOk THEN [t EXCEPT !.timer = now + 1] ELSE WebSocketError([t EXCEPT !.timer = Never])

\* the constructor of an Ethernet transport, when it throws nothing
NewEthernet == [NewTransport("ethernet", "permanent") EXCEPT !.reading = TRUE]

\* doSend and sendPacket: an error of libpcap is only logged
EthernetDoSend(t) == t

\* doClose of an Ethernet transport
EthernetDoClose(t) ==
  Post(IF t.socket = "closed" THEN t ELSE [AbortPending(t) EXCEPT !.socket = "closed"],
       "deferredClose", "ok")

\* handleRead and processErrorCode: after an error the transport does not read again
EthernetHandleRead(t, outcome) == IF outcome # "ok" THEN t ELSE StartReceive(t)

===============================================================================
