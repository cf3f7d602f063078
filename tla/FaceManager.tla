------------------------------ MODULE FaceManager ------------------------------
(***************************************************************************)
(* Management of faces and routes while faces come and go on their own     *)
(* (mgmt/face-manager, mgmt/fib-manager, mgmt/command-authenticator,       *)
(* mgmt/tables-config-section, nfd.cpp): commands, the configuration file  *)
(* and its reloads, incoming connections, and the closing of faces.        *)
(***************************************************************************)
EXTENDS Channels, Sequences, FiniteSetsExt

CONSTANTS
  Signers,       \* keys that sign commands
  NoKey,         \* a command without a usable KeyLocator
  Anyone,        \* stands in a set of keys for "certfile any"
  BadUris,       \* URIs that are malformed or not canonical
  Prefixes,      \* names routes are registered for
  MgmtPrefix,    \* /localhost/nfd
  Nics,          \* network interfaces, all capable of multicast
  Files,         \* contents the configuration file may have
  Absent, Bad,   \* a section that is not there, one the daemon refuses
  DefaultLimit,  \* DEFAULT_CS_MAX_PACKETS
  MaxCommands,   \* bound on commands
  MaxFaces,      \* bound on the FaceIds given
  NamedReserved, \* bound on the reserved FaceIds that commands name
  MaxChanges     \* bound on changes of interfaces, and signals

VARIABLES
  tables,      \* the tables of FaceTable
  daemon,      \* "starting", "running" or "stopped"
  factories,   \* m_factories: the schemes configured, a kind with a version or with AnyVersion
  channels,    \* the channels of Channels
  privileges,  \* m_moduleAuth: the keys each module takes commands from
  csLimit,     \* the limit given to the Content Store
  applied,     \* history: the file as it was when its face section was applied last
  nics, changes,
  reloadDue,   \* m_reloadConfigEvent is scheduled
  connecting,  \* commands with an async_connect under way: the peer, and whether the socket is open
  replies      \* what each command was answered

config == <<factories, channels, privileges, csLimit, applied>>
environment == <<nics, changes, reloadDue>>
vars == <<tables, daemon, config, environment, connecting, replies>>

Modules == {"faces", "fib"}
NoPrivileges == [module \in Modules |-> {}]

ASSUME FaceManagerAssumption ==
  /\ \A f \in Files : f.privileges \in {Absent, Bad} \/ DOMAIN f.privileges = Modules
  /\ IsFiniteSet(Nics)
  /\ MaxCommands \in Nat /\ MaxFaces \in Nat /\ MaxChanges \in Nat

\* An address is of one version of IP: those of an interface, and the broadcast addresses.
ASSUME AddressAssumption ==
  \A peer \in Peers :
    /\ AddressOf(peer) = Broadcast => VersionOf(peer) = "v4"
    /\ \A nic \in Nics :
         /\ AddressOf(peer) \in {<<nic, "v4">>, <<nic, Broadcast>>} => VersionOf(peer) = "v4"
         /\ AddressOf(peer) = <<nic, "v6">> => VersionOf(peer) = "v6"

\* initializeManagement makes the internal face before there is a face manager to announce
\* it. The route that leads management there is added at its end, and the faces that drop
\* everything after it: all that before the event loop runs.
Init ==
  /\ tables = [faces |-> [id \in {InternalFace, ContentStoreFace, NullFace} |->
                            NewFace("internal", id, "permanent", TRUE, id = InternalFace)],
               lastId |-> ReservedMax, mapped |-> <<>>,
               nextHops |-> {<<MgmtPrefix, InternalFace>>},
               announced |-> {ContentStoreFace, NullFace}]
  /\ daemon = "starting"
  /\ factories = {} /\ channels = NoChannels
  /\ privileges = NoPrivileges /\ csLimit = DefaultLimit
  /\ applied = <<>> /\ nics = Nics /\ changes = 0 /\ reloadDue = FALSE
  /\ connecting = <<>> /\ replies = <<>>

Running == daemon = "running"

-----------------------------------------------------------------------------
(* The configuration file, which may be edited at any time before it is read *)

\* none of them is CLOSED at once
CloseAll(t, ids) ==
  [t EXCEPT !.faces = [id \in DOMAIN @ |-> IF id \in ids THEN [@[id] EXCEPT !.state = "CLOSING"] ELSE @[id]]]

\* What applying sections has come to: the tables, channels and factories so far, and whether
\* an exception ended it
Applied(r, c, schemes) == [r EXCEPT !.channels = c, !.factories = @ \cup schemes]
Configured(r, kind) == <<kind, AnyVersion>> \in r.factories
Schemes(kind, versions) == {<<kind, version>> : version \in versions \cup {AnyVersion}}

\* The sections below are for one that is there. Channels are made the first time only, and
\* to listen throws when the endpoint cannot be bound ("listen" \in broken).
MakesChannels(r, kind) == ~r.thrown /\ ~Configured(r, kind)
Throw(r, kind) == Applied([r EXCEPT !.thrown = TRUE], r.channels, {<<kind, AnyVersion>>})

SectionUnix(r, broken) ==
  IF ~MakesChannels(r, "unix") THEN r
  ELSE IF "listen" \in broken THEN Throw(r, "unix")
  ELSE Applied(r, UnixListen(UnixCreateChannel(r.channels)), Schemes("unix", {}))

\* the channels of the versions that are enabled, version 4 first
SectionTcp(r, section, addressed, broken) ==
  LET Channel(c, version) ==
        LET made == TcpCreateChannel(c, version, addressed)
        IN  IF version \notin section.versions THEN c
            ELSE IF section.listen THEN TcpListen(made, version) ELSE made
  IN  IF ~MakesChannels(r, "tcp") THEN r
      ELSE IF section.listen /\ "listen" \in broken THEN Throw(r, "tcp")
      ELSE Applied(r, Channel(Channel(r.channels, "v4"), "v6"), Schemes("tcp", section.versions))

\* one channel for both versions; version 6 alone is refused
SectionWebSocket(r, section, broken) ==
  LET version == IF "v6" \in section.versions THEN "v6" ELSE "v4"
      made == WebSocketCreateChannel(r.channels, version)
  IN  IF ~MakesChannels(r, "websocket") THEN r
      ELSE IF section.listen /\ "listen" \in broken THEN Throw(r, "websocket")
      ELSE Applied(r, IF section.listen THEN WebSocketListen(made, version) ELSE made,
                   {<<"websocket", AnyVersion>>})

SectionUdpChannels(r, section, addressed, broken) ==
  LET Channel(c, version) ==
        IF version \notin section.versions THEN c
        ELSE UdpListen(UdpCreateChannel(c, version, addressed), version)
  IN  IF ~MakesChannels(r, "udp") THEN r
      ELSE IF "listen" \in broken THEN Throw(r, "udp")
      ELSE Applied(r, Channel(Channel(r.channels, "v4"), "v6"), Schemes("udp", section.versions))

\* Multicast faces for the interfaces that are up; "kept" are those that are not to be closed.
NoneKept(r) == [tables |-> r.tables, kept |-> {}, thrown |-> r.thrown]
KeepFace(made, newTables, key) ==
  [made EXCEPT !.tables = newTables, !.kept = @ \cup {newTables.mapped[key]}]
MulticastNics(section) == IF section.mcast THEN nics ELSE {}

\* The faces of some interfaces are made or found, one after another.
KeepFaces(r, kind, group, interfaces) ==
  LET OneNic(nic, made) ==
        KeepFace(made, CreateFaceOnNic(made.tables, kind, nic, group), MulticastKey(kind, nic, group))
  IN  FoldSet(OneNic, NoneKept(r), interfaces)

\* The multicast faces of before that are not kept are closed.
CloseOthers(r, kind, made) ==
  [r EXCEPT !.tables = CloseAll(made.tables, MulticastFaces(r.tables, kind) \ made.kept),
            !.thrown = made.thrown]

\* An exception leaves the loop and ends the daemon, with the faces made before it.
UdpMulticastMade(r, section, broken) ==
  LET interfaces == MulticastNics(section)
      throws == \E nic \in interfaces :
                  UdpMulticastThrows(r.tables, nic, section.group, nic \notin broken)
  IN  IF r.thrown THEN NoneKept(r)
      ELSE IF throws THEN [NoneKept(r) EXCEPT !.thrown = TRUE]
      ELSE KeepFaces(r, "udp-multicast", section.group, interfaces)

\* mutant of SectionUdpMulticast: faces of interfaces that went down are left open
SectionUdpKeepingFaces(r, section, broken) ==
  LET made == UdpMulticastMade(r, section, broken)
  IN  [r EXCEPT !.tables = made.tables, !.thrown = made.thrown]

\* done on every reload
SectionUdpMulticast(r, section, broken) ==
  CloseOthers(r, "udp-multicast", UdpMulticastMade(r, section, broken))

\* The Ethernet section catches the exceptions for its faces and goes on.
EthernetMulticastMade(r, section, broken) ==
  LET opened == {nic \in MulticastNics(section) :
                   ~EthernetMulticastThrows(r.tables, nic, section.group, nic \notin broken)}
  IN  IF r.thrown THEN NoneKept(r) ELSE KeepFaces(r, "ether", section.group, opened)

SectionEther(r, section, broken) ==
  LET configured == Applied(r, r.channels, Schemes("ether", {}))
  IN  CloseOthers(configured, "ether", EthernetMulticastMade(configured, section, broken))

\* processConfig of the face manager, with the sections in one of the orders a file may have.
\* The addresses of an interface that is down may be known to the system or not.
FaceSystem(f, addressed, broken) ==
  LET start == [tables |-> tables, channels |-> channels, factories |-> factories, thrown |-> FALSE]
      unix == IF f.unix = Absent THEN start ELSE SectionUnix(start, broken)
      tcp == IF f.tcp = Absent THEN unix ELSE SectionTcp(unix, f.tcp, addressed, broken)
      udp == IF f.udp = Absent THEN tcp
             ELSE SectionUdpMulticast(SectionUdpChannels(tcp, f.udp, addressed, broken), f.udp, broken)
      ether == IF f.ether = Absent THEN udp ELSE SectionEther(udp, f.ether, broken)
  IN  IF f.websocket = Absent THEN ether ELSE SectionWebSocket(ether, f.websocket, broken)

Stop == daemon' = "stopped" /\ UNCHANGED <<tables, config>>

Refused(f, sections) == Bad \in {f[section] : section \in sections}
FaceSections == {"unix", "tcp", "udp", "ether", "websocket"}
Sections == FaceSections \cup {"tables", "privileges"}

\* the sections for tables and authorizations, which first clears what was authorized
OtherSections(f) ==
  /\ csLimit' = IF f.tables = Absent THEN csLimit ELSE f.tables
  /\ privileges' = IF f.privileges = Absent THEN privileges ELSE f.privileges

\* The face section of a file is applied, and then the others, when they are to be. A section
\* that is refused, or an exception, ends the daemon (main.cpp), whatever was done before it.
ApplyFaceSystem(sections) ==
  \E f \in Files, addressed \in {set \in SUBSET Nics : nics \subseteq set},
    broken \in SUBSET (nics \cup {"listen"}) :
    IF Refused(f, sections) THEN Stop
    ELSE LET result == FaceSystem(f, addressed, broken) IN
         \/ result.thrown /\ Stop
         \/ /\ ~result.thrown
            /\ tables' = result.tables /\ channels' = result.channels /\ factories' = result.factories
            /\ applied' = f /\ daemon' = "running"
            /\ IF sections = Sections THEN OtherSections(f) ELSE UNCHANGED <<privileges, csLimit>>

\* Nfd::initialize. A dry run refuses a bad file before anything is done.
Initialize ==
  /\ daemon = "starting"
  /\ ApplyFaceSystem(Sections)
  /\ UNCHANGED <<environment, connecting, replies>>

\* reload on a signal, without a dry run
Reload ==
  /\ Running /\ changes < MaxChanges
  /\ ApplyFaceSystem(Sections)
  /\ changes' = changes + 1
  /\ UNCHANGED <<nics, reloadDue, connecting, replies>>

\* Interfaces change: the monitor schedules a reload of the face section, once.
NetworkChange ==
  /\ Running /\ changes < MaxChanges
  /\ nics' \in SUBSET Nics \ {nics}
  /\ changes' = changes + 1 /\ reloadDue' = TRUE
  /\ UNCHANGED <<tables, daemon, config, connecting, replies>>

ReloadFaceSection ==
  /\ Running /\ reloadDue /\ reloadDue' = FALSE
  /\ ApplyFaceSystem(FaceSections)
  /\ UNCHANGED <<nics, changes, connecting, replies>>

-----------------------------------------------------------------------------
(* Faces that come and go on their own *)

HasRoom == tables.lastId < ReservedMax + MaxFaces

\* A channel takes a peer and waits for the next one. A channel that had an error waits no
\* more: then no peer comes.
AcceptPeer(peer) ==
  /\ Running /\ Reaches(channels, peer) /\ AddressOf(peer) # Group /\ HasRoom
  /\ tables' = Incoming(tables, peer)
  /\ UNCHANGED <<daemon, config, environment, connecting, replies>>

\* The TCP channel asks the socket of a peer that came, or that it connected to, for its remote
\* end. If the peer has gone by then that throws, which ends the daemon (main.cpp).
RemoteEndpointThrows ==
  /\ Running
  /\ \/ \E peer \in Peers : KindOf(peer) = "tcp" /\ Reaches(channels, peer)
     \/ \E r \in DOMAIN connecting : connecting[r].open
  /\ Stop
  /\ UNCHANGED <<environment, connecting, replies>>

\* the remote end, the idle timer or an error ends a face that is not permanent
FaceEnds(id) ==
  /\ Running /\ id \in DOMAIN tables.faces
  /\ tables.faces[id].state = "UP" /\ tables.faces[id].persistency # "permanent"
  /\ tables' = Close(tables, id)
  /\ UNCHANGED <<daemon, config, environment, connecting, replies>>

\* the handler posted by doClose
FinishClose(id) ==
  /\ Running /\ id \in DOMAIN tables.faces /\ tables.faces[id].state # "UP"
  /\ tables' = Closed(tables, id)
  /\ UNCHANGED <<daemon, config, environment, connecting, replies>>

-----------------------------------------------------------------------------
(* Commands *)

\* Commands come through the internal face, for as long as /localhost/nfd leads there.
CanCommand ==
  /\ Running /\ Len(replies) < MaxCommands
  /\ <<MgmtPrefix, InternalFace>> \in tables.nextHops

ExtractsKeyName(signer) == signer # NoKey

\* makeAuthorization, with a validator that accepts every timestamp
Verdict(module, signer) ==
  IF Anyone \in privileges[module] THEN "accept"
  ELSE IF ~ExtractsKeyName(signer) THEN "silent"
  ELSE IF signer \in privileges[module] THEN "accept" ELSE "403"

Accepted(module) == CanCommand /\ \E signer \in Signers \cup {NoKey} : Verdict(module, signer) = "accept"

\* What is kept of a ControlResponse is whether its status is 200; 0 is for no response.
Outcome(status) == IF status = 200 THEN "done" ELSE "refused"

Answer(status) == replies' = Append(replies, <<Outcome(status)>>)

RejectCommand(module, signer) ==
  /\ CanCommand
  /\ \/ Verdict(module, signer) = "403" /\ Answer(403)
     \/ Verdict(module, signer) = "silent" /\ Answer(0)
  /\ UNCHANGED <<tables, daemon, config, environment, connecting>>

\* the FaceUri scheme of a canonical URI
Scheme(uri) == <<KindOf(uri), VersionOf(uri)>>

\* The face is in the table by now, or was before; its LocalFieldsEnabled is not looked at.
AfterCreateFaceSuccess == Answer(200)
AfterCreateFaceFailure(status) == Answer(status)

\* UdpChannel::connect: without a face there, to make a socket may fail
UdpConnect(peer, persistency) ==
  /\ HasRoom /\ UNCHANGED connecting
  /\ \/ tables' = UdpCreateFace(tables, peer, persistency) /\ AfterCreateFaceSuccess
     \/ ~Has(tables, Key(peer)) /\ AfterCreateFaceFailure(504) /\ UNCHANGED tables

\* TcpChannel::connect: only with a face there it is answered at once
TcpConnect(peer, localFields) ==
  /\ UNCHANGED tables
  /\ IF Has(tables, Key(peer)) THEN AfterCreateFaceSuccess /\ UNCHANGED connecting
     ELSE /\ replies' = Append(replies, <<>>)
          /\ connecting' = Put(connecting, Len(replies'),
                               [peer |-> peer, localFields |-> localFields, open |-> TRUE])

\* faces/create. A URI that is not canonical and a scheme that is not configured are refused.
CreateFace(uri, persistency, localFields) ==
  /\ Accepted("faces")
  /\ \/ uri \in BadUris /\ Answer(400) /\ UNCHANGED <<tables, connecting>>
     \/ /\ uri \in Peers
        /\ \/ Scheme(uri) \notin factories \/ KindOf(uri) \notin {"udp", "tcp"}
        /\ Answer(406) /\ UNCHANGED <<tables, connecting>>
     \/ /\ uri \in Peers /\ Scheme(uri) \in factories /\ KindOf(uri) \in {"udp", "tcp"}
        /\ LET status == FactoryStatus(channels, uri, persistency, localFields) IN
           \/ status # 0 /\ AfterCreateFaceFailure(status) /\ UNCHANGED <<tables, connecting>>
           \/ status = 0 /\ KindOf(uri) = "udp" /\ UdpConnect(uri, persistency)
           \/ status = 0 /\ KindOf(uri) = "tcp" /\ TcpConnect(uri, localFields)
  /\ UNCHANGED <<daemon, config, environment>>

\* handleConnect, of a socket the timeout has not closed
HandleConnect(r) ==
  /\ Running /\ r \in DOMAIN connecting /\ connecting[r].open /\ HasRoom
  /\ \/ /\ tables' = TcpCreateFace(tables, connecting[r].peer, FALSE, connecting[r].localFields)
        /\ replies' = [replies EXCEPT ![r] = Append(@, Outcome(200))]
     \/ replies' = [replies EXCEPT ![r] = Append(@, Outcome(504))] /\ UNCHANGED tables
  /\ connecting' = Restrict(connecting, DOMAIN connecting \ {r})
  /\ UNCHANGED <<daemon, config, environment>>

HandleConnectTimeout(r) ==
  /\ Running /\ r \in DOMAIN connecting /\ connecting[r].open
  /\ connecting' = [connecting EXCEPT ![r].open = FALSE]
  /\ replies' = [replies EXCEPT ![r] = Append(@, Outcome(504))]
  /\ UNCHANGED <<tables, daemon, config, environment>>

\* mutant of ConnectAborted: every error is reported
ReportAborted(r) ==
  /\ Running /\ r \in DOMAIN connecting /\ ~connecting[r].open
  /\ connecting' = Restrict(connecting, DOMAIN connecting \ {r})
  /\ replies' = [replies EXCEPT ![r] = Append(@, Outcome(504))]
  /\ UNCHANGED <<tables, daemon, config, environment>>

\* handleConnect with operation_aborted: "when the socket is closed by someone"
ConnectAborted(r) ==
  /\ Running /\ r \in DOMAIN connecting /\ ~connecting[r].open
  /\ connecting' = Restrict(connecting, DOMAIN connecting \ {r})
  /\ UNCHANGED <<tables, daemon, config, environment, replies>>

\* A FaceId in a command, or that of the face it came from, may be of a face gone since.
KnownIds == NamedReserved \cup (ReservedMax + 1 .. tables.lastId)

\* Nothing ever comes from a face that drops everything.
Senders == KnownIds \ {ContentStoreFace, NullFace}

\* setLinkServiceOptions: "wanted" is the flag LOCAL_FIELDS_ENABLED, if it is given
SetLinkServiceOptions(t, id, wanted) ==
  IF wanted = {} \/ ~t.faces[id].isLocal THEN t ELSE [t EXCEPT !.faces[id].localFields = TRUE \in wanted]

\* faces/update
UpdateFace(id, hasPersistency, wanted) ==
  /\ Accepted("faces")
  /\ \/ ~Get(tables, id) /\ Answer(404) /\ UNCHANGED tables
     \/ /\ Get(tables, id)
        /\ IF hasPersistency \/ (wanted = {TRUE} /\ ~tables.faces[id].isLocal)
           THEN Answer(409) /\ UNCHANGED tables
           ELSE Answer(200) /\ tables' = SetLinkServiceOptions(tables, id, wanted)
  /\ UNCHANGED <<daemon, config, environment, connecting>>

\* faces/destroy answers 200 in any case
DestroyFace(id) ==
  /\ Accepted("faces") /\ Answer(200)
  /\ tables' = IF Get(tables, id) THEN Close(tables, id) ELSE tables
  /\ UNCHANGED <<daemon, config, environment, connecting>>

\* findFaceForLocalControl: the face the command came from, or a refusal
LocalControlStatus(id) ==
  IF ~Get(tables, id) THEN 410 ELSE IF tables.faces[id].isLocal THEN 200 ELSE 412

\* faces/enable-local-control and faces/disable-local-control
EnableLocalControl(id) ==
  tables' = IF LocalControlStatus(id) = 200 THEN [tables EXCEPT !.faces[id].localFields = TRUE] ELSE tables
DisableLocalControl(id) ==
  tables' = IF LocalControlStatus(id) = 200 THEN [tables EXCEPT !.faces[id].localFields = FALSE] ELSE tables

LocalControl(id) ==
  /\ Accepted("faces") /\ Answer(LocalControlStatus(id))
  /\ EnableLocalControl(id) \/ DisableLocalControl(id)
  /\ UNCHANGED <<daemon, config, environment, connecting>>

\* The face a route is for: the one a command names, or with FaceId 0, the one it came from
SetFaceForSelfRegistration(id, from) == IF id = 0 THEN from ELSE id

RouteFaces == {SetFaceForSelfRegistration(id, from) : id \in {0} \cup KnownIds, from \in Senders}

\* fib/add-nexthop
AddNextHop(prefix, id) ==
  /\ Accepted("fib")
  /\ \/ ~Get(tables, id) /\ Answer(410) /\ UNCHANGED tables
     \/ /\ Get(tables, id) /\ Answer(200)
        /\ tables' = [tables EXCEPT !.nextHops = @ \cup {<<prefix, id>>}]
  /\ UNCHANGED <<daemon, config, environment, connecting>>

RemoveNextHop(prefix, id) ==
  /\ Accepted("fib") /\ Answer(200)
  /\ tables' = IF Get(tables, id) THEN [tables EXCEPT !.nextHops = @ \ {<<prefix, id>>}] ELSE tables
  /\ UNCHANGED <<daemon, config, environment, connecting>>

FacesCommand ==
  \/ \E uri \in Peers \cup BadUris, persistency \in Persistencies, localFields \in BOOLEAN :
        CreateFace(uri, persistency, localFields)
  \/ \E id \in KnownIds, hasPersistency \in BOOLEAN, wanted \in {{}, {TRUE}, {FALSE}} :
        UpdateFace(id, hasPersistency, wanted)
  \/ \E id \in KnownIds : DestroyFace(id)
  \/ \E id \in Senders : LocalControl(id)

FibCommand ==
  \E prefix \in Prefixes, id \in RouteFaces : AddNextHop(prefix, id) \/ RemoveNextHop(prefix, id)

-----------------------------------------------------------------------------
(* Datasets: what those who ask are told, which is computed when they ask *)

\* The schemes of the remote and the local URI of a face
UriSchemes(face) ==
  CASE face.kind \in {"udp", "tcp"} -> {<<face.kind, VersionOf(face.peer)>>}
    [] face.kind = "udp-multicast" -> {<<"udp", "v4">>}
    [] face.kind = "ether" -> {<<"ether", AnyVersion>>, <<"dev", AnyVersion>>}
    [] face.kind = "unix" -> {<<"fd", AnyVersion>>, <<"unix", AnyVersion>>}
    [] face.kind = "websocket" -> {<<"wsclient", AnyVersion>>, <<"ws", AnyVersion>>}
    [] face.kind = "internal" ->
         {<<CASE face.peer = InternalFace -> "internal"
              [] face.peer = ContentStoreFace -> "contentstore"
              [] face.peer = NullFace -> "null", AnyVersion>>}

\* collectFaceProperties: a URI is given by the kind of transport and its remote end
FaceProperties(id) ==
  LET face == tables.faces[id]
  IN  [faceId |-> id, remoteUri |-> <<face.kind, face.peer>>,
       scope |-> IF face.isLocal THEN "local" ELSE "non-local", persistency |-> face.persistency]

\* collectFaceStatus, without counters and the time of expiration
CollectFaceStatus(id) ==
  [properties |-> FaceProperties(id), localFields |-> tables.faces[id].localFields]

\* A filter is a function from some of the fields to the values they are to have.
MatchFilter(filter, id) ==
  \A field \in DOMAIN filter :
    IF field = "uriScheme" THEN filter[field] \in UriSchemes(tables.faces[id])
    ELSE filter[field] = FaceProperties(id)[field]

\* faces/list and faces/query
ListFaces == {CollectFaceStatus(id) : id \in DOMAIN tables.faces}

QueryFaces(filter) ==
  {CollectFaceStatus(id) : id \in {other \in DOMAIN tables.faces : MatchFilter(filter, other)}}

\* faces/channels: the channels of each factory, once
ListChannels ==
  {channel \in channels.made : \E scheme \in factories : scheme[1] = channel[1]}

-----------------------------------------------------------------------------

Next ==
  \/ Initialize \/ Reload \/ NetworkChange \/ ReloadFaceSection
  \/ \E peer \in Peers : AcceptPeer(peer)
  \/ RemoteEndpointThrows
  \/ \E id \in DOMAIN tables.faces : FaceEnds(id) \/ FinishClose(id)
  \/ \E module \in Modules, signer \in Signers \cup {NoKey} : RejectCommand(module, signer)
  \/ FacesCommand \/ FibCommand
  \/ \E r \in DOMAIN connecting : HandleConnect(r) \/ HandleConnectTimeout(r) \/ ConnectAborted(r)

Spec == Init /\ [][Next]_vars

-----------------------------------------------------------------------------
(* Properties *)

\* Whatever refers to a face refers to one in the face table: next hops, the maps of channels
\* and factories, and what a reader of the notifications knows, who asks for the list of faces
\* and finds the same ones. No two keys share a face, and a query for the URI of a UDP or TCP
\* peer finds one face at most (fw/face-table.cpp:103, table/cleanup.cpp:28).
NothingOutlivesItsFace ==
  /\ \A hop \in tables.nextHops : Get(tables, hop[2])
  /\ \A key \in DOMAIN tables.mapped : Get(tables, tables.mapped[key])
  /\ tables.announced = {status.properties.faceId : status \in ListFaces} \ {InternalFace}
  /\ \A k1, k2 \in DOMAIN tables.mapped : tables.mapped[k1] = tables.mapped[k2] => k1 = k2
  /\ \A peer \in Peers :
        KindOf(peer) \in {"udp", "tcp"} =>
          Cardinality(QueryFaces([remoteUri |-> Key(peer), uriScheme |-> Scheme(peer)])) <= 1

\* A command is answered once: at once, when it is refused or done, or by exactly one of the
\* handlers of its connection (tcp-channel.cpp:177-221).
AnsweredOnce ==
  \A r \in 1 .. Len(replies) :
    IF r \in DOMAIN connecting /\ connecting[r].open THEN replies[r] = <<>> ELSE Len(replies[r]) = 1

\* When no reload is due, no multicast face is open on an interface that is down, whatever
\* changed and however often: the sections applied last, if they were there, closed it
\* (face-manager.cpp:857, :930; nfd.cpp:93).
FacesFollowInterfaces ==
  Running /\ ~reloadDue /\ Absent \notin {applied.udp, applied.ether} =>
    \A key \in DOMAIN tables.mapped :
      key[1] \in {"udp-multicast", "ether"} /\ key[2] \notin nics =>
        tables.faces[tables.mapped[key]].state = "CLOSING"

\* The addresses of this host that the channel of a kind and version could know when it was made
KnownAddresses(kind, version) ==
  LET interfaces == {known[3] : known \in {k \in channels.known : k[1] = kind /\ k[2] = version}}
  IN  {<<nic, version>> : nic \in interfaces}
      \cup IF kind = "udp" /\ version = "v4"
           THEN {<<nic, Broadcast>> : nic \in interfaces} \cup {Broadcast} ELSE {}

\* Neither a command, nor a connection it waited for, nor a change of persistency leaves a
\* lasting face to an address of an interface, or its broadcast address, that was there when
\* the channel for such faces was made, in whatever order the configuration, its reloads and the
\* peers come. To an address that comes later there may be one: what is prohibited is not
\* looked up again (udp-factory.cpp:60-88, :257; tcp-factory.cpp:52-73, :124).
NoFaceToKnownAddress ==
  \A id \in DOMAIN tables.faces :
    LET face == tables.faces[id] IN
    face.kind \in {"udp", "tcp"} /\ face.persistency # "on-demand" =>
      /\ <<face.kind, VersionOf(face.peer)>> \in ListChannels
      /\ AddressOf(face.peer) \notin KnownAddresses(face.kind, VersionOf(face.peer))

\* "If a face with the same remote URI already exists, its persistency and LocalFieldsEnabled
\* setting will not be modified." (protocol-factory.hpp:62)
ExistingFacesAreNotModified ==
  [][(\E uri \in Peers, persistency \in Persistencies, localFields \in BOOLEAN :
        CreateFace(uri, persistency, localFields)) =>
       \A id \in DOMAIN tables.faces : tables'.faces[id] = tables.faces[id]]_vars

===============================================================================
