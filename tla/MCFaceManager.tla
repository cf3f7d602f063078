----------------------------- MODULE MCFaceManager -----------------------------
(* Constants of the model-checking runs of FaceManager. *)
EXTENDS FaceManager

\* The TCP peer is this node itself, once the interface has the address.
CONSTANTS udpPeer, unixPeer, webPeer, selfPeer, key1, nic1, g1, g2, elsewhere

Kinds(peer) ==
  CASE peer = udpPeer -> "udp" [] peer = selfPeer -> "tcp"
    [] peer = unixPeer -> "unix" [] peer = webPeer -> "websocket"
Versions(peer) == IF peer = unixPeer THEN AnyVersion ELSE "v4"
Addresses(peer) == IF peer = selfPeer THEN <<nic1, "v4">> ELSE elsewhere

NoOneElse == [module \in Modules |-> {key1}]
Open == [module \in Modules |-> IF module = "fib" THEN {Anyone} ELSE {key1}]
Multicast(group) ==
  [mcast |-> TRUE, group |-> [address |-> Group, name |-> group], versions |-> {"v4"}]
Unicast(versions) ==
  [mcast |-> FALSE, group |-> [address |-> Group, name |-> g1], versions |-> versions]
Stream(versions, listen) == [versions |-> versions, listen |-> listen]

\* UDP multicast and all stream channels; both kinds of multicast, with another group, and
\* other channels; no multicast; an error
File(tables_, udp, ether, tcp, websocket, keys) ==
  [tables |-> tables_, udp |-> udp, ether |-> ether, unix |-> Unicast({}), tcp |-> tcp,
   websocket |-> websocket, privileges |-> keys]
AllFiles ==
  {File(Absent, Multicast(g1), Absent, Stream({"v4"}, TRUE), Stream({"v4", "v6"}, TRUE), Open),
   File(1, Multicast(g2), Multicast(g2), Stream({"v6"}, TRUE), Absent, NoOneElse),
   File(Absent, Unicast({"v4", "v6"}), Absent, Absent, Stream({"v4"}, FALSE), Absent),
   File(Absent, Multicast(g1), Bad, Absent, Absent, Open)}

===============================================================================
