------------------------------- MODULE Transports -------------------------------
(***************************************************************************)
(* One transport of any kind with everything that acts on it: the link     *)
(* service that sends, management and idle timers that close, the socket,  *)
(* the channel, the paired client, and the event loop.                     *)
(***************************************************************************)
EXTENDS StreamTransport, DatagramTransport, MessageTransports

CONSTANTS
  MaxTime,  \* bound on the clock
  MaxReads  \* bound on what the peer sends

ASSUME TransportsAssumption ==
  /\ MaxTime \in Nat
  /\ MaxReads \in Nat

VARIABLE reads  \* how much the peer has sent

vars == <<transport, now, lastUse, reads>>

\* what channels and factories make
Constructed(kind) ==
  CASE kind = "stream"    -> {NewUnixStream, NewStream("on-demand"), NewStream("persistent")}
    [] kind = "unicast"   -> {NewUnicastUdp(persistency) : persistency \in Persistencies}
    [] kind = "multicast" -> {NewMulticastUdp}
    [] kind = "internal"  -> {NewInternal}
    [] kind = "websocket" -> {NewWebSocket}
    [] kind = "ethernet"  -> {NewEthernet}

Init ==
  /\ transport \in UNION {Constructed(kind) : kind \in Kinds}
  /\ now = 0 /\ lastUse = 0 /\ reads = 0

Running == transport.fault = "none"
Datagrams(t) == t.kind \in {"unicast", "multicast"}
Listed == transport.life = "listed"

DoClose(t) ==
  CASE t.kind = "stream"    -> StreamDoClose(t)
    [] t.kind = "unicast"   -> DatagramDoClose(t)
    [] t.kind = "multicast" -> MulticastDoClose(t)
    [] t.kind = "internal"  -> InternalDoClose(t)
    [] t.kind = "websocket" -> WebSocketDoClose(t)
    [] t.kind = "ethernet"  -> EthernetDoClose(t)

\* close(), which faces/destroy and the close handler of a WebSocket server call
Close(t) == IF CanSend(t) THEN DoClose(SetState(t, "CLOSING")) ELSE t

CloseFace ==
  /\ Running /\ Listed
  /\ transport' = Close(transport)
  /\ UNCHANGED <<now, lastUse, reads>>

DoSend(t) ==
  CASE t.kind = "stream"    -> {StreamDoSend(t)}
    [] t.kind = "unicast"   -> {DatagramDoSend(t)}
    [] t.kind = "multicast" -> {MulticastDoSend(t)}
    [] t.kind = "internal"  -> {InternalDoSend(t)}
    [] t.kind = "websocket" -> {WebSocketDoSend(t, sent) : sent \in BOOLEAN}
    [] t.kind = "ethernet"  -> {EthernetDoSend(t)}

\* send()
Send ==
  /\ Running /\ CanSend(transport)
  /\ transport.queue < MaxQueue /\ Len(transport.loop) + transport.writing < MaxQueue
  /\ transport' \in DoSend(transport)
  /\ UNCHANGED <<now, lastUse, reads>>

\* The socket completes a pending operation, whose handler is queued. Waiting for a
\* frame does not queue: the handler of an Ethernet transport runs at once.
ReadCompletes ==
  /\ Running /\ transport.reading
  /\ \E outcome \in IF transport.kind = "stream" THEN StreamReadOutcomes(transport)
                    ELSE {"ok", "error"} :
        LET done == [transport EXCEPT !.reading = FALSE] IN
        /\ outcome = "ok" => reads < MaxReads
        /\ transport' = IF transport.kind = "ethernet" THEN EthernetHandleRead(done, outcome)
                        ELSE Post(done, "receive", outcome)
        /\ reads' = IF outcome = "ok" THEN reads + 1 ELSE reads
  /\ UNCHANGED <<now, lastUse>>

WriteCompletes ==
  /\ Running /\ transport.writing > 0
  /\ \E outcome \in IF transport.kind = "stream" THEN StreamWriteOutcomes(transport)
                    ELSE {"ok", "error"} :
        transport' = Post([transport EXCEPT !.writing = @ - 1], "send", outcome)
  /\ UNCHANGED <<now, lastUse, reads>>

Received(t) == lastUse' = IF t.kind = "unicast" THEN now ELSE lastUse

\* The event loop runs the first handler.
RunReceive(t, outcome) ==
  \/ /\ t.kind = "stream"
     /\ \E parsed \in BOOLEAN : transport' = StreamHandleReceive(t, outcome, parsed)
     /\ UNCHANGED lastUse
  \/ /\ Datagrams(t)
     /\ \E wellFormed \in BOOLEAN :
           /\ transport' = DatagramHandleReceive(t, outcome, wellFormed)
           /\ IF outcome = "ok" /\ wellFormed THEN Received(t) ELSE UNCHANGED lastUse
  \/ /\ t.kind = "ethernet"
     /\ transport' = EthernetHandleRead(t, outcome)
     /\ UNCHANGED lastUse

RunSend(t, outcome) ==
  /\ \/ t.kind = "stream" /\ transport' = StreamHandleSend(t, outcome)
     \/ Datagrams(t) /\ transport' = DatagramHandleSend(t, outcome)
  /\ UNCHANGED lastUse

RunHandler ==
  /\ Running /\ transport.loop # <<>>
  /\ LET h == Head(transport.loop)
         t == [transport EXCEPT !.loop = Tail(@)]
     IN  \/ h.call = "receive" /\ RunReceive(t, h.outcome)
         \/ h.call = "send" /\ RunSend(t, h.outcome)
         \/ h.call = "link" /\ transport' = InternalReceive(t) /\ UNCHANGED lastUse
         \/ /\ h.call = "deferredClose"
            /\ transport' = IF t.kind = "stream" THEN DeferredClose(t) ELSE SetState(t, "CLOSED")
            /\ UNCHANGED lastUse
         \/ /\ h.call = "deallocate"
            \* destructors close the sockets and cancel the timers
            /\ transport' = [AbortPending(t) EXCEPT !.life = "freed", !.socket = "closed", !.timer = Never]
            /\ UNCHANGED lastUse
  /\ UNCHANGED <<now, reads>>

\* The channel's socket got a datagram of an endpoint it has a face for.
ChannelReceives ==
  /\ Running /\ Listed /\ transport.kind = "unicast" /\ reads < MaxReads
  /\ \E wellFormed \in BOOLEAN :
        /\ transport' = ReceiveDatagram(transport, "ok", wellFormed)
        /\ IF wellFormed THEN Received(transport) ELSE UNCHANGED lastUse
  /\ reads' = reads + 1
  /\ UNCHANGED now

\* faces/create for an endpoint that has a face
ChangePersistency ==
  /\ Running /\ Listed /\ transport.kind = "unicast"
  /\ \E new \in Persistencies :
        /\ TransitionAllowed(transport, new)
        /\ transport' = SetPersistency(transport, new)
  /\ UNCHANGED <<now, lastUse, reads>>

IdleTimer ==
  /\ Running /\ transport.kind = "unicast"
  /\ transport.timer # Never /\ transport.timer <= now
  /\ transport' = IdleTimerFires(transport)
  /\ UNCHANGED <<now, lastUse, reads>>

PingTimer ==
  /\ Running /\ transport.kind = "websocket"
  /\ transport.timer # Never /\ transport.timer <= now
  /\ \E pingOk \in BOOLEAN : transport' = SendPing(transport, pingOk)
  /\ UNCHANGED <<now, lastUse, reads>>

\* The server reports that no pong came for a face the channel knows.
PongTimeout ==
  /\ Running /\ transport.kind = "websocket" /\ Listed
  /\ transport' = WebSocketPongTimeout(transport)
  /\ UNCHANGED <<now, lastUse, reads>>

ClientSends ==
  /\ Running /\ transport.kind = "internal" /\ Listed
  /\ reads < MaxReads /\ reads' = reads + 1
  /\ transport' = ClientSend(transport)
  /\ UNCHANGED <<now, lastUse>>

Tick ==
  /\ Running /\ now < MaxTime /\ now' = now + 1
  /\ UNCHANGED <<transport, lastUse, reads>>

Next ==
  \/ CloseFace \/ Send \/ ReadCompletes \/ WriteCompletes \/ RunHandler
  \/ ChannelReceives \/ ChangePersistency \/ IdleTimer \/ PingTimer \/ PongTimeout
  \/ ClientSends \/ Tick

Spec == Init /\ [][Next]_vars

\* The event loop runs what is queued.
FairSpec == Spec /\ WF_vars(RunHandler)

-----------------------------------------------------------------------------
(* Properties *)

TypeOK ==
  /\ transport \in Transports
  /\ now \in 0 .. MaxTime /\ lastUse \in 0 .. now /\ reads \in 0 .. MaxReads

\* setState does not throw (transport.cpp:176) and the assertion of handleSend does not
\* fail (stream-transport.hpp:183), except when an oversized packet is handled
\* (NoInvalidTransition).
NoFault == transport.fault \in {"none", "oversized packet"}

\* The documented rule of setState, that only the listed transitions are taken, in the
\* handler of an oversized packet as well (transport.hpp:280).
NoInvalidTransition == transport.fault # "oversized packet"

\* the places in the event loop of the handlers of a kind
Waiting(t, call) == {i \in 1 .. Len(t.loop) : t.loop[i].call = call}

\* A stream is written one packet at a time: a second write would put one packet into
\* the middle of another.
OneWriteAtATime ==
  LET finished == Waiting(transport, "send")
  IN  transport.kind = "stream" =>
        /\ transport.writing <= 1
        /\ transport.writing = 1 => finished = {}
        /\ \A i, j \in finished : i = j

\* Every handler of a transport that is not a stream runs before the transport is
\* deallocated: none is queued and no operation is pending afterwards.
HandlersRunInTime ==
  transport.life = "freed" /\ transport.kind # "stream" =>
    transport.loop = <<>> /\ ~transport.reading /\ transport.writing = 0

\* What a handler of a transport relies on when it runs, in whatever order errors, close
\* requests, timers and completions came.
HandlersRunSafely == NoFault /\ OneWriteAtATime /\ HandlersRunInTime

\* HandlersRunInTime for streams, as a comment in doClose says of all pending handlers.
PendingHandlersAreDispatched ==
  transport.life = "freed" /\ transport.kind = "stream" => transport.loop = <<>>

\* The idle timer never closes a face that received a packet within the last timeout,
\* whatever the changes of persistency were.
OnlyIdleIsClosed ==
  [][IdleTimer /\ transport'.state # transport.state =>
       now >= lastUse + IdleTimeout /\ transport.persistency = "on-demand"]_vars

\* What the channels, the face table and the forwarder rely on.
Lifecycle == INSTANCE FaceLifecycle WITH state <- transport.state, life <- transport.life
ImplementsLifecycle == Lifecycle!Spec

\* A face that is closing or has failed is deallocated at last, unless the program ends.
ClosedAtLast == ShuttingDown(transport) ~> transport.life = "freed" \/ ~Running

===============================================================================
