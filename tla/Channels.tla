------------------------------- MODULE Channels --------------------------------
(***************************************************************************)
(* How channels and protocol factories are made, and how they make faces   *)
(* and use them again (face/*-channel, face/*-factory): operations on the  *)
(* channels of the daemon and on the tables of FaceTable. A key of the     *)
(* maps is a kind of transport with the peer, the interface, or the        *)
(* interface and group the face is for.                                    *)
(***************************************************************************)
EXTENDS FaceTable

CONSTANTS
  Peers,         \* remote endpoints
  KindOf(_),     \* the kind of transport of a peer
  VersionOf(_),  \* the version of IP of a peer, or AnyVersion
  AddressOf(_),  \* the address of a peer; all listen on the port this NFD is configured with
  AnyVersion,    \* of what is not over IP
  Group,         \* the address of every multicast group
  Broadcast,     \* 255.255.255.255
  Loopback       \* peers on the loopback interface

ASSUME ChannelsAssumption ==
  /\ \A peer \in Peers : IsUnicast(KindOf(peer)) /\ VersionOf(peer) \in {"v4", "v6", AnyVersion}
  /\ Loopback \subseteq Peers

Persistencies == {"on-demand", "persistent", "permanent"}

-----------------------------------------------------------------------------
(* The channels of the daemon, a record: those made and those listening, each a kind and a
   version; m_prohibitedEndpoints, each a kind and an address; and, as history, the interfaces
   that had an address when a channel was made *)

NoChannels == [made |-> {}, listening |-> {}, prohibited |-> {}, known |-> {}]

\* createChannel returns the channel that is there. "owned" are the endpoints it prohibits,
\* now that the interfaces of "addressed" have addresses.
CreateChannel(c, kind, version, addressed, owned) ==
  IF <<kind, version>> \in c.made THEN c
  ELSE [c EXCEPT !.made = @ \cup {<<kind, version>>}, !.prohibited = @ \cup owned,
                 !.known = @ \cup {<<kind, version, nic>> : nic \in addressed}]

\* prohibitAllIpv4Endpoints: the channel is on every address of the interfaces that have one
UdpIpv4Endpoints(addressed) ==
  {<<"udp", <<nic, "v4">>>> : nic \in addressed} \cup {<<"udp", <<nic, Broadcast>>>> : nic \in addressed}
  \cup {<<"udp", Broadcast>>}

UdpIpv6Endpoints(addressed) == {<<"udp", <<nic, "v6">>>> : nic \in addressed}

TcpIpv4Endpoints(addressed) == {<<"tcp", <<nic, "v4">>>> : nic \in addressed}
TcpIpv6Endpoints(addressed) == {<<"tcp", <<nic, "v6">>>> : nic \in addressed}

\* UdpFactory::createChannel, given the wildcard address of the version
UdpCreateChannel(c, version, addressed) ==
  CreateChannel(c, "udp", version, addressed,
                IF version = "v4" THEN UdpIpv4Endpoints(addressed) ELSE UdpIpv6Endpoints(addressed))

\* TcpFactory::createChannel
TcpCreateChannel(c, version, addressed) ==
  CreateChannel(c, "tcp", version, addressed,
                IF version = "v4" THEN TcpIpv4Endpoints(addressed) ELSE TcpIpv6Endpoints(addressed))

UnixCreateChannel(c) == CreateChannel(c, "unix", AnyVersion, {}, {})

\* on the wildcard of v6 it takes peers of both versions
WebSocketCreateChannel(c, version) == CreateChannel(c, "websocket", version, {}, {})

\* listen, of a channel whose socket can be opened and bound (for Unix streams: no other NFD
\* answers at the path); "Already listening" changes nothing
Listen(c, kind, version) == [c EXCEPT !.listening = @ \cup {<<kind, version>>}]
UdpListen(c, version) == Listen(c, "udp", version)
TcpListen(c, version) == Listen(c, "tcp", version)
UnixListen(c) == Listen(c, "unix", AnyVersion)
WebSocketListen(c, version) == Listen(c, "websocket", version)

\* the channel a peer reaches
Reaches(c, peer) ==
  \/ <<KindOf(peer), VersionOf(peer)>> \in c.listening
  \/ KindOf(peer) = "websocket" /\ <<"websocket", "v6">> \in c.listening

-----------------------------------------------------------------------------
(* Unicast faces *)

Key(peer) == <<KindOf(peer), peer>>
Has(t, key) == key \in DOMAIN t.mapped

\* TcpTransport and WebSocketTransport look at the endpoints
IsLocalPeer(peer) == KindOf(peer) = "unix" \/ (KindOf(peer) # "udp" /\ peer \in Loopback)

\* "only on-demand -> persistent -> permanent transition is allowed"
IsTransitionAllowed(old, new) == new # old /\ (old = "on-demand" \/ new = "permanent")

\* UdpChannel::createFace
UdpCreateFace(t, peer, persistency) ==
  IF ~Has(t, Key(peer))
  THEN AddMapped(t, Key(peer), NewFace("udp", peer, persistency, FALSE, FALSE))
  ELSE LET id == t.mapped[Key(peer)] IN
       IF IsTransitionAllowed(t.faces[id].persistency, persistency)
       THEN [t EXCEPT !.faces[id].persistency = persistency] ELSE t

\* mutant of TcpCreateFace: the new socket gets a face of its own
TcpCreateAnother(t, peer, isOnDemand, localFields) ==
  AddMapped(t, Key(peer), NewFace("tcp", peer, IF isOnDemand THEN "on-demand" ELSE "persistent",
                                  IsLocalPeer(peer), localFields))

\* TcpChannel::createFace: the new socket is closed when there is a face already
TcpCreateFace(t, peer, isOnDemand, localFields) ==
  IF Has(t, Key(peer)) THEN t
  ELSE AddMapped(t, Key(peer), NewFace("tcp", peer, IF isOnDemand THEN "on-demand" ELSE "persistent",
                                       IsLocalPeer(peer), localFields))

\* UdpChannel::handleNewPeer, of the first datagram of a peer
UdpHandleNewPeer(t, peer) == UdpCreateFace(t, peer, "on-demand")

TcpHandleAccept(t, peer) == TcpCreateFace(t, peer, TRUE, FALSE)

\* UnixStreamChannel::handleAccept: the channel keeps no map
UnixHandleAccept(t, peer) == Add(t, NewFace("unix", peer, "on-demand", TRUE, FALSE))

\* WebSocketChannel::handleOpen: every connection has a handle of its own
WebSocketHandleOpen(t, peer) ==
  AddMapped(t, <<"websocket", peer, t.lastId>>,
            NewFace("websocket", peer, "on-demand", IsLocalPeer(peer), FALSE))

\* what a peer that comes does
Incoming(t, peer) ==
  CASE KindOf(peer) = "udp" -> UdpHandleNewPeer(t, peer)
    [] KindOf(peer) = "tcp" -> TcpHandleAccept(t, peer)
    [] KindOf(peer) = "unix" -> UnixHandleAccept(t, peer)
    [] KindOf(peer) = "websocket" -> WebSocketHandleOpen(t, peer)

-----------------------------------------------------------------------------
(* createFace of the protocol factories: the status of a refusal, or "connect" *)

IsProhibited(c, peer) == <<KindOf(peer), AddressOf(peer)>> \in c.prohibited

UdpFactoryStatus(c, peer, persistency, localFields) ==
  IF persistency = "on-demand" \/ AddressOf(peer) = Group \/ IsProhibited(c, peer) \/ localFields THEN 406
  ELSE IF <<"udp", VersionOf(peer)>> \in c.made THEN 0 ELSE 504

\* mutant of TcpFactoryStatus: what is prohibited is not looked up
TcpStatusUnchecked(c, peer, persistency, localFields) ==
  IF \/ persistency # "persistent" \/ AddressOf(peer) = Group
     \/ localFields /\ peer \notin Loopback
  THEN 406
  ELSE IF <<"tcp", VersionOf(peer)>> \in c.made THEN 0 ELSE 504

TcpFactoryStatus(c, peer, persistency, localFields) ==
  IF \/ persistency # "persistent" \/ AddressOf(peer) = Group \/ IsProhibited(c, peer)
     \/ localFields /\ peer \notin Loopback
  THEN 406
  ELSE IF <<"tcp", VersionOf(peer)>> \in c.made THEN 0 ELSE 504

\* 0 when the channel is to connect
FactoryStatus(c, peer, persistency, localFields) ==
  CASE KindOf(peer) = "udp" -> UdpFactoryStatus(c, peer, persistency, localFields)
    [] KindOf(peer) = "tcp" -> TcpFactoryStatus(c, peer, persistency, localFields)

-----------------------------------------------------------------------------
(* Multicast faces: of UDP one for each interface, of Ethernet one for each interface and
   group *)

UdpMulticastKey(nic) == <<"udp-multicast", nic>>
EthernetKey(nic, group) == <<"ether", nic, group>>

\* UdpFactory::createMulticastFace throws when the face there is for another group, for an address
\* that is not that of a group, and for a socket that cannot be made or joined to the group.
UdpMulticastThrows(t, nic, group, joins) ==
  IF Has(t, UdpMulticastKey(nic)) THEN t.faces[t.mapped[UdpMulticastKey(nic)]].peer # <<nic, group>>
  ELSE group.address # Group \/ ~joins

\* createMulticastFace, when it throws nothing
CreateMulticastFace(t, kind, key, nic, group) ==
  IF Has(t, key) THEN t
  ELSE AddMapped(t, key, NewFace(kind, <<nic, group>>, "permanent", FALSE, FALSE))

UdpCreateMulticastFace(t, nic, group) ==
  CreateMulticastFace(t, "udp-multicast", UdpMulticastKey(nic), nic, group)

\* of an Ethernet address that is not that of a group, or when libpcap refuses the interface
EthernetMulticastThrows(t, nic, group, opens) ==
  group.address # Group \/ (~Has(t, EthernetKey(nic, group)) /\ ~opens)

EthernetCreateMulticastFace(t, nic, group) ==
  CreateMulticastFace(t, "ether", EthernetKey(nic, group), nic, group)

\* those of a UDP or an Ethernet section
MulticastKey(kind, nic, group) ==
  IF kind = "ether" THEN EthernetKey(nic, group) ELSE UdpMulticastKey(nic)

CreateFaceOnNic(t, kind, nic, group) ==
  IF kind = "ether" THEN EthernetCreateMulticastFace(t, nic, group)
  ELSE UdpCreateMulticastFace(t, nic, group)

MulticastFaces(t, kind) == {t.mapped[key] : key \in {k \in DOMAIN t.mapped : k[1] = kind}}

===============================================================================
