# Formal verification of ndnShare

ndnShare is an Android application that finds and fetches files over Named Data
Networking. It ships a fork of NFD, the NDN forwarder (`fuzzy-NFDAndroid/`, C++),
which rewrites the last word of a query by a similar one before it sends the
query on, and the application itself (`ndnShareApp/`, Java). This directory
holds TLA+ models of both, the TLC configurations that check
them and theorems proved with TLAPS. Paths below are relative to
`fuzzy-NFDAndroid/` unless they name the application.

## 1. The system

### Components

| Component | State | Operations | Modelled in |
|---|---|---|---|
| Forwarding pipelines (`fw/forwarder`) | the tables below | incoming Interest, Data, Nack; loop, miss, hit, outgoing, reject, unsatisfied, finalize | `Forwarder`, `FuzzyWords` |
| PIT and its entries (`table/pit*`, `fw/pit-algorithm`) | entries with in-records, out-records, two timers, strategy info | find or insert, insert/update/delete records, match Data, erase | `PitEntry`, `Forwarder` |
| Strategies on the PIT entry (best-route, multicast, client-control, `fw/retx-suppression*`, `fw/strategy`) | per PIT entry | after Interest, after Nack, FIB lookup | `Strategies`, `ForwardingHints` |
| Strategies with measurements (`fw/access-strategy`, `ncc-strategy`, `asf-*`) | per PIT entry, name and face; timers | the same, before satisfy, before expire, timers | `AccessStrategy`, `NccStrategy`, `AsfStrategy` |
| Name tree, measurements, strategy choice (`table/`) | nodes in a hash table with their table entries | lookup, erase if empty, resize, set and unset a strategy, expire | `NameTree`, `StrategyTables`, `StrategyVersions` |
| Dead Nonce List (`table/dead-nonce-list`) | queue of hashes and MARKs, capacity, mark counts | has, add, periodic mark and adjustment | `DeadNonceList` |
| Content Store (`table/cs*`) | table of packets, the policy's queues, staleness timers, limit | insert, find, set limit, move to stale queue | `ContentStore`, `CsLookup` |
| FIB, unsolicited policy | next hops with costs; a policy | add and remove next hops, decide | `Forwarder`, `StrategyTables`, `UnsolicitedDataPolicy` |
| Face table (`fw/face-table`) | faces by FaceId | add, remove, with their signals | `FaceTable` |
| Link service (`face/generic-link-service`, `lp-*`) | partial packets with drop timers, sequence numbers | send, receive fragment, time out | `LpFragmenter`, `LpReassembler`, `LinkService` |
| Transports (`face/*-transport*`) | state, send queue, idle and ping timers, pending handlers | send, receive, close, expire, deallocate | `Transport` and its kinds, `Transports` |
| Channels and factories (`face/*-channel`, `*-factory`) | maps of faces, prohibited endpoints | connect, accept, create multicast faces | `Channels` |
| Management (`mgmt/`) and start-up (`nfd.cpp`, `main.cpp`) | authorizations, configuration, two threads | commands, configuration, reload, network changes, run and stop | `FaceManager`, `NfdRunner` |
| Application (`AskService`, `ShareService`, `MyApplication`, `SearchPage`) | request flags, network thread, shared result list, poller | search, ask, answer, error, stop, show | `AskService` |
| Application, answers to others (`AskService`, `FilePage`, `FileDetails`) | the list of shared files | list the files, answer a query or a request for a file, take the answers | `Sharing` |

### How they interact

NFD is one thread around one event loop; only the RIB manager has a thread and an event
loop of its own. A packet from a transport, an expired
timer, a management command and the end of a face are each handled to the end
before the next. Pipelines call tables and strategies directly, and strategies
call pipelines back (`sendInterest`, `sendNack`, `rejectPendingInterest`) within
the same handler. Concurrency is therefore the order of handlers, with timers
that may be handled late, handlers that were posted before the object they serve was
closed, and the asynchronous network. The state of a transport is signalled to its
channel, which forgets the face, and to the face table, which removes it, tells the
forwarder to clean up, and posts its deallocation. The fork cuts
`/queried/<word>` off the name of an incoming Interest or Data, remembers the
full name in the Interest, and puts it back, or a word from `getFuzzWord`, when
it sends an Interest whose name contains `/query`. In the application the main thread
(pages and service commands), the network thread of the service and the polling thread of
the search page share plain fields without locks.

### What is hard, and what correctness means

* **Entry lifecycle.** Each pipeline cancels both timers of a PIT entry and must
  set exactly one on every way out. An entry must outlive its in-records and must
  leave the table at last.
* **Answers.** A downstream gets at most as many Data and Nacks as it sent
  Interests, though entries of several names match one Data, Nacks consume
  in-records one by one and retransmissions replace them. It is not dropped
  without an answer or the expiry of its Interest.
* **Loops.** A Nonce that was sent out is recognised when it comes back: in the
  PIT entry while it lives and in the Dead Nonce List after that.
* **Scope.** `/localhost` never leaves the node, `/localhop` is sent on only for a
  local consumer; the checks are at three places.
* **Retransmission and Nacks.** The suppression interval, the choice of the
  upstream and the count of Nacks interact over several rounds.
* **Changes underneath.** Faces, routes and strategies change while entries, measurements
  and timers refer to them.
* **Dead Nonce List.** Bounded memory, a guaranteed lifetime, and forgetting, with a
  capacity controlled by feedback.
* **Content Store.** The limit, and timers and queues that stay in step with the table.
* **Queries.** Different words share a PIT entry, and names differ at different
  points of a pipeline.
* **Fragments.** They are lost, repeated, reordered and late, while a drop timer runs and
  sequence numbers wrap.
* **The end of a face.** Errors, close requests, idle timers and completions come in any
  order; nobody may keep a reference to a face that is gone.
* **Management.** A TCP connect and its timeout race; interfaces change while a reload is
  due; two configurations overlap in time.
* **Threads.** One of two event loops fails while the other waits for it; an answer, a new
  search and the reset of a flag cross in the application.

`PROJECT.json` lists each of these at the line where it bites ("hazards").

## 2. The modules

| Module | Models | Role |
|---|---|---|
| `PitEntry` | `table/pit-entry`, `pit-*-record`, `fw/pit-algorithm`, `cleanup` | operators on one entry |
| `Strategies` | best-route, best-route/v4 with exponential suppression, multicast, client-control | operators: a trigger returns the decisions it may take |
| `Forwarder` | `fw/forwarder.cpp` over PIT, FIB, Content Store, Dead Nonce List, face table | state machine and properties |
| `FuzzyWords` | the search of `getFuzzWord` | algorithm and its reference definition |
| `ForwardingHints` | `Strategy::lookupFib` with a Link, `network-region-table` | algorithm and what it comes to |
| `UnsolicitedDataPolicy` | `fw/unsolicited-data-policy` | operators: the faces a policy admits Data from |
| `ForwarderProofs` | | theorems |
| `RecentNonces` | what the Dead Nonce List promises | abstract specification |
| `DeadNonceList` | `table/dead-nonce-list` | state machine and properties |
| `DeadNonceListProofs` | | theorems |
| `ContentStore` | `table/cs`, `cs-entry`, both policies | state machine and properties |
| `ContentStoreProofs` | | theorems |
| `CsLookup` | leftmost and rightmost search (`cs.cpp`, `cs-entry-impl`) | algorithm and its reference definition |
| `NameTree` | `table/name-tree*` | operators on a hash table |
| `StrategyTables` | FIB, PIT, Measurements and Strategy Choice in name tree nodes | operators on the tables |
| `StrategyVersions` | `StrategyChoice::getStrategy`, `hasStrategy` | algorithm and its reference definition |
| `AccessStrategy`, `NccStrategy`, `AsfStrategy` | one strategy each | operators: a trigger or timer maps tables to tables |
| `MeasuredStrategies` | the three on the shared tables | state machine and properties |
| `MeasuredStrategiesProofs` | | theorems |
| `LpFragmenter`, `LpReassembler` | `face/lp-*` | operators |
| `LinkService` | `face/generic-link-service` over an unreliable medium | state machine and properties |
| `LinkServiceProofs` | | theorems |
| `FaceLifecycle` | what a transport promises about its face | abstract specification |
| `Transport` | `face/transport`, the face table's reaction, the event loop | base operators |
| `StreamTransport`, `DatagramTransport`, `MessageTransports` | stream; UDP; internal, WebSocket, Ethernet | operators per kind |
| `Transports` | one transport of any kind and all that acts on it | state machine and properties |
| `TransportsProofs` | | theorems |
| `FaceTable`, `Channels` | `fw/face-table`, `face/*-channel`, `*-factory` | operators on the tables |
| `FaceManager` | `mgmt/`, `nfd.cpp` | state machine and properties |
| `FaceManagerProofs` | | theorems |
| `NfdRunner` | `main.cpp` | state machine and properties |
| `AskService` | the application, searching | state machine and properties |
| `AskServiceProofs` | | theorems |
| `Sharing` | the application, answering: list, texts and files | algorithms and what they come to |
| `MC...` | | values of the constants for TLC, and the assumptions that check the pure algorithms |

Modules compose in two ways. A module that needs another's operators extends it
(`Forwarder` extends `Strategies` extends `PitEntry`; `FaceManager` extends `Channels` extends
`FaceTable`; `MeasuredStrategies` extends the three strategies, which extend `StrategyTables`, which extends
`NameTree`; `LinkService` extends fragmenter and reassembler). Where a component is replaced by
what it promises, the promise is weaker than the component: `Forwarder` keeps the Dead Nonce
List as a set that may lose members at any time (`ForgetNonce`) and the Content Store as
the set of what was ever inserted, of which a lookup may always miss. What holds in
`Forwarder` so does not depend on the details of `DeadNonceList` and `ContentStore`. Likewise
`FaceManager` uses of transports only what `FaceLifecycle` lists, which `Transports` implements.

### Forwarder: state and actions

`pit` maps (name, MustBeFresh) to entries: `ins` and `outs` (functions from faces
to records), the deadlines `unsatisfy` and `straggler` (with the arguments bound
to that timer), and `retx`, the suppression interval. `fib`, `faces`, `dnl` and `cs`
are the other tables, `sent` the packets the last step sent. Two things are
history and read by no action's guard: `credit` counts the Interests received on a
face less the Data and Nacks sent to it, and `answered` in an out-record says that
the last Interest sent, not an earlier one, was Nacked.

One action is one handler with everything it calls, the strategy included:

| Action | Code |
|---|---|
| `InterestViolatesScope`, `LoopInDeadNonceList`, `LoopInPit`, `ContentStoreHit`, `ContentStoreMiss` | the ways through `onIncomingInterest`, with `onInterestLoop`, `onContentStoreHit`, `onContentStoreMiss` and what the strategy does |
| `DataViolatesScope`, `UnsolicitedData`, `SolicitedData` | `onIncomingData`, `onDataUnsolicited`, `onOutgoingData` |
| `DropNack`, `AcceptNack` | `onIncomingNack` with the strategy and `onOutgoingNack` |
| `UnsatisfyTimer`, `StragglerTimer` | `onInterestUnsatisfied`, `onInterestFinalize` |
| `RemoveFace`, `AddNextHop`, `RemoveNextHop` | `cleanupOnFaceRemoval`, `Fib`, as the face table and management call them |
| `ForgetNonce` | the list forgets (`DeadNonceList`) |
| `Tick` | the steady clock |

A timer fires at any time at or after its deadline: the event loop may be late,
and packets may be handled between the deadline and the timer. In-records carry
the order in which they were renewed, since several packets arrive within a tick
while `getLastRenewed()` orders them.

Names are model values with a prefix relation. A query is a name with a word;
`Words` and `QueryNames` say which names contain `/query`. An in-record keeps both names of its Interest: `word`
is that of `getqueriedName()`, and `shown` what its `getName()`, which the entry shares, has behind the name of the entry.
To send a query is to rename this Interest in place (`Renamed`) and to put its name back (`Restored`); Nacks and later
Interests read whatever name is there. What `getFuzzWord` returns
is a constant function of the last component; `MCForwarder` takes its value from `FuzzyWords`, where
the similarity of words is any function. An Interest has the selector MustBeFresh only:
others would split PIT entries in the same way.

### ForwardingHints

`LookupFib(fib, regions, interest)` returns the FIB entry found, the Interest afterwards (a
delegation may have been selected) and whether `BOOST_ASSERT(false)` is reached. The Forwarder's
Interests carry no Link, so the two are not composed.

### DeadNonceList

The queue with its MARKs, the capacity, the set of mark counts since the last
adjustment and the time to the two periodic events. `Add`, `Mark`, `AdjustCapacity` are
`add`, `mark`, `adjustCapacity`, each with the eviction it ends in. `age` and `later`
are history: ticks and adds since an entry was last added. The list is shown to
implement `RecentNonces`, where entries are forgotten in the order in which they
were last added and never while being added. `known` is mapped to the entries in the queue, `before` to
`AddedBefore`, which compares their last places in it, and `latest` to the entry the history says was added last.

### ContentStore and CsLookup

`table` holds entries with the unsolicited flag and the stale time, `queues` the three
queues of the priority FIFO policy (LRU uses one), `staleEvents` the timers. `Insert`
covers `Cs::insert` with the policy's `afterInsert` and `afterRefresh`, `InsertNothing` its
early returns, `FindHit` and `FindMiss` the two callbacks of `Cs::find`, `SetLimit` the
configuration reload, `MoveToStale` the timer. The initial policy is either one and
nothing replaces it. `isStale()` compares with the clock to the nanosecond, so in
the tick of its stale time an entry may be seen either way. A packet stands for
its full name: a refresh keeps the old Data, which is the same packet.

Which match a lookup returns is left open there. `CsLookup` has the searches themselves
(`FindLeftmost`, `FindRightmost` with its two helpers) over a table sorted as
`EntryImpl::operator<` sorts it, with implicit digests before all other components.

### NameTree, StrategyTables and the measured strategies

The hash table is a function from bucket to the set of its names; hashes are the
exclusive or of component hashes (`ExclusiveOr`, for TLC of three bits), as in the code. `Lookup` makes all prefixes of a name, `EraseIfEmpty`
removes a node and its empty parents; both resize. All tables of one step are one record, which each
operation takes and returns, because one handler changes several of them in
order: `StrategyTables` lists its fields. A `StrategyInfo` item is kept under the strategy that defines its
type, so an item another strategy left behind can be told apart. A PIT entry whose name ends
with an implicit digest is attached one node up (`AttachedTo`).

`MeasuredStrategies` reduces the pipelines to what a strategy meets: when its triggers are called and what has
become of the entry by then. Its actions are `ReceiveInterest`, `ReceiveData`, `ReceiveNack`, `OutRecordsExpire`,
`EntryExpires`, one action for each timer (`RtoTimeout`; `PropagateTimeout`, `BestFaceTimeout`,
`LostPropagateTimeout`; `AsfTimeout`, `FaceInfoExpires`, `ProbeTimeout`), `MeasurementExpires`, and the changes (`SetStrategy`,
`UnsetStrategy`, `AddRoute`, `RemoveRoute`, `RemoveFace`). Durations are left out: a timer may fire at any moment
after it was set, and an in-record does not expire before its entry ends. Names have no scope here, so
`CanForwardToLegacy` lacks the two tests that need a clock or a scope (`fw/pit-algorithm.cpp:72`); `PitEntry` has them. `fault` records an assertion that failed or a check that is missing; what holds is stated
about every state, with or without faults.

### LinkService

`unsent`, `lastSeq` and `medium` are the senders' side and the frames on their way; `partial` and `received` the receiver's. The
medium delivers a frame late, in any order, repeatedly or never. `SendNetPacket` is `sendNetPacket` with
fragmentation and numbering, `Arrive` is `doReceivePacket` with reassembly, decoding and the checks of what is accepted
under the options; `DropTimer` is the reassembler's timer. Sequence numbers are taken modulo
a small number, so they wrap; the receiver's key is the number of the first fragment, computed with
the same wrap.

### Transports

A transport is a record and each method a function of it. `transport.loop` is the part of the event loop that
concerns it: handlers with their outcome, in order, the deallocation the face table posts
among them. `Transports` gives one transport of any of six kinds the actions that reach it: `CloseFace`, `Send`,
`ReadCompletes`, `WriteCompletes`, `RunHandler` (the oldest queued handler), `ChannelReceives` (UDP packets come through
the channel for on-demand faces), `ChangePersistency`, `IdleTimer`, `PingTimer`, `PongTimeout`, `ClientSends` (the
paired client of the internal face). `state` and `life` refine `FaceLifecycle`. `fault` is set
where the code would throw or fail an assertion. Whether a socket still delivers what was read before `shutdown`
is a constant (`ReadsAfterShutdown`); the run allows it, which is the weaker assumption.

### FaceManager

`tables` is the record of `FaceTable`: faces (the internal one and the two null faces of `nfd.cpp:89` from the start), the
FaceIds kept under the keys of channels and factories, next hops, and what a reader of the notifications knows. The datasets (`ListFaces`, `QueryFaces`, `ListChannels`) are what a
reader gets when it asks; properties are stated through them where they can be. `daemon`, `factories`, `channels`, `privileges`, `csLimit`
are what the configuration sets, `nics` the interfaces that are up, `reloadDue` the delayed reload, `connecting` the
TCP connects with their sockets. Commands are authorized per module and key. One command, one
configuration file, one incoming peer or one end of a face is one action; a section that throws ends the daemon
with what was done before, as in `reloadConfigFile`. So does a TCP peer that is gone when the channel asks for its remote
endpoint (`RemoteEndpointThrows`, `face/tcp-channel.cpp:105`). `channels.known` is history: the interfaces whose addresses
the system listed when a channel was made.

### NfdRunner

The program counters of both threads and the shared variables of `NfdRunner::run`. A block under the
mutex is one step, since only the wait on the condition variable gives it back.

### AskService

The message queue of the main thread, the fields of the service (each write a step of its own), the place of the network
thread in its loop, the Face with its pending Interests, the published list and the search page with its poller. An Intent and
`onDestroy` are messages of the main thread. `Thread.start()` on a thread that ran before throws, which ends the program
(`crashed`). The thread that ends tells its service to stop, broadcasts its error and ends in three steps (`HandleRaisedError`,
`SendBroadcast`, `ThreadEnds`), so the service may be gone, and another one made by a later command, before the broadcast (`former`).
`owed`, `excused` and `overlap` are history.

### Sharing

The side that answers keeps nothing but the list of its files, so it is a set of functions: from the disk to the list
(`Filelist`), from an Interest and the list to the text of an answer (`OnAskInterest`), from that text to the list the one who
asked sees (`OnReceivedAskData`), and from a request for a file to what is stored in the end (`OnAskFileInterest`,
`Base64ToFile`). A text is a sequence of tokens, of which only the separators matter. The Interests and answers of `AskService`
are names without content, so the two modules are not composed.

## 3. What TLC checks

Every run is exhaustive within its bounds.

| Run | Question |
|---|---|
| `BestRoute` | Retransmissions, Nacks and Data over two upstreams while a face vanishes and routes change: one timer per entry that outlives its in-records, flow balance, no reference to a vanished face, no repeated Nonce, no downstream let go without an answer but in the cases the property names, and an answer to all once every upstream has Nacked the last Interest (as long as no face vanished). |
| `PrefixesAndScopes` | Two names, one a prefix of the other: the shorter under multicast, the longer under best-route and `/localhost`, with two local faces and a multi-access one: rejected or satisfied entries are settled, scope, Data goes where it was asked for, dead Nonces are not forwarded. |
| `QueriedNames` | Queries for different words under a `/localhop` name, with NextHopFaceId tags, while a local face and an upstream vanish: scope, words and names after any number of sends, and (liveness) every entry is removed at last. |
| `DeadNonces` | Memory bound, lifetime, refinement of `RecentNonces`, and that an entry is forgotten at last. |
| `CachedPackets` | Both policies: limit, timers, order of eviction. |
| `TransportsClose` | Each kind of transport under every order of sends, receptions, errors, closes and timers: what handlers rely on, who is closed for being idle, the refinement of `FaceLifecycle`, and that a closing face is deallocated at last. |
| `FragmentsReassembled` | Three packets of two senders over a bad medium: what is handed up was sent, nothing complete is kept back, only idle partial packets expire. |
| `Management` | Commands, connects, incoming peers, reloads and interface changes: references, answers, multicast faces, faces to addresses of this host that a channel could know. |
| `MeasuredStrategies` | Three strategies on one name tree under changes: the tree, the items, the timers. |
| `AskService` | When a request may be lost, when the service ends, which list is shown. |
| `RibFails`, `QueriedLoop` | Statements of the repository the code does not meet (section 5). |

The pure algorithms are compared with reference definitions over all small inputs by assumptions TLC
evaluates at the start of a run: `FuzzAssumption` and `HintsAssumption` in `MCForwarder`, that of `CsLookup` in `MCContentStore`,
`VersionsAssumption` in `MCMeasuredStrategies` and `SharingAssumption` in `MCAskService`.
`Fuzz!ClosestWordsAreRight` says that the closest words come out sorted. `HintsAreRight` says that a
delegation is selected once and by its own route, that a retransmission finds the same entry, that no Interest
is left without a route that one of its delegations has, and when exactly the assertion is reached.
`FindsWanted` says that the leftmost or rightmost match is found, and names the one case in which it is not.
`StrategyIsRight` says that a name stands for the strategy of just that name or for its newest version. `ListArrives` and
`DownloadIsRight` say which files are found by a search and which can be fetched as they are.

**Bounds of the forwarder runs.** Three faces, one or two names, two or
three Nonces, Interests of lifetime 2, a straggler time of 1, packets up to time 2 or 3,
ticks up to time 4 or 5, and at most four or five packets and topology changes. Two faces are local
in `PrefixesAndScopes`, so that `/localhost` names have somewhere to go; there the policy for unsolicited Data is
`admit-network`, in the other runs `admit-local`. Three faces give
two downstreams and two upstreams with one face in both roles, which is what every
test on faces in the code distinguishes. Two events fill an entry, the third
retransmits or answers, the fourth and fifth hit what that left behind; the ticks
let each timer fire early, on time or late. `NackReasons` is one reason there:
which of several is forwarded does not change the control, and `LeastSevere` is
the minimum for any set. Nonces are symmetric (`NonceSymmetry`) in the safety runs,
where nothing but equality is asked of them; the runs with liveness use no symmetry.

**Other bounds.** The Dead Nonce List has two entries, two expected MARKs and capacities 5 to 7,
so that capacity moves in both directions and hits both limits. The Content Store has
four packets that are stale at once, after one or two ticks, or never, and limits
0, 2 and 3: the limit is exceeded, lowered to zero and raised again. A transport has a queue of
two packets (one being written, one behind it), four packets from its peer and five ticks of an idle timeout
of two, so it can become idle, be used and become idle again. The medium carries three packets of two senders,
of sizes 10, 6 and 5 with an MTU of 6 and a header on the third: three fragments, two, and two with a header on the first, or without fragmentation
one that does not fit and two that do exactly; numbering starts two below the wrap, one frame may come twice, up to three packets are handed up. Management has a peer of each kind of face, the TCP one
at an address the interface may have, one interface, four configuration files, a FaceId limit of two beyond the reserved ones,
two FaceIds of those that commands name (the two null faces differ in their URIs only), two commands and two changes: one to set up and one to collide with it. The measured strategies have the names /a, /a/b and /a/b with a
digest, one downstream, two upstreams (symmetric), two Interests, one change and one expiry of a measurement, and a table of two buckets
at least, which grows and shrinks. The application has three searched words, of which two are found, and one
error, so that a search is under way when the next begins and the service ends once. Where a bound lets the model
stop, the configuration says `CHECK_DEADLOCK FALSE`; `DeadNonces` and `CachedPackets` never stop and check for deadlock.

**Fairness.** `FairSpec` of `Forwarder` assumes that time passes and that each due timer
is handled, which is what the event loop does; no packet need ever arrive. The
same holds for the two periodic events of `DeadNonceList`. `FairSpec` of `Transports` assumes only that the event
loop runs what is queued, not that the peer or the socket does anything. `FairSpec` of `NfdRunner` assumes that
the system schedules both threads, not that anything fails or is told to stop.

**Mutants.** For each property a plausible mistake in the mapped code (a comment marks
each as "mutant of") makes TLC find a violation: a dropped cancel, a Nack that keeps
its in-record, an eviction of the wrong end, a missing timer, a queue cleared before its handler ran, a key that does
not wrap, a table resized in place, multicast faces kept after their interface is gone and so on.

## 4. What is proved

Each theorem holds for every value of the constants that satisfies the named assumptions of the modules: any finite set of faces,
names, packets, messages or searched words, any capacity, limit, size or timeout. The bounds of section 3 are such constants as
well, so nothing is proved for small instances only. The assumptions say that the sets are finite and that numbers are
natural numbers, and a few things more that the code fixes:

* `DeadNonceListAssumption`: more entries may be evicted at a time than MARKs are expected (`EVICT_LIMIT` 1<<6, `EXPECTED_MARK_COUNT` 5), and
  the expected MARKs fit the minimum capacity (1<<3, `table/dead-nonce-list.cpp:37`, `:40`).
* `SequenceAssumption`: the fragments of all messages are fewer than the sequence numbers, which have 64 bits. They wrap
  around, but no number is used twice while fragments that have it are on their way.
* `AddressAssumption`: an address is of one version of IP, those of an interface and the broadcast addresses.
* `FaceTableAssumption`: the internal face and the two null faces have different reserved FaceIds.
* `AskAssumption`: null is no word and no kind of request.
* `ForwarderAssumption`: the suppression interval is bounded from below by 1.
* `NamesAssumption`, `HashAssumption`: the names are a finite set with all their prefixes, and the hash of a name is a natural number.
  Nothing is assumed of the exclusive or, an operator that is a parameter of `NameTree` because the prover knows no bits, so the
  theorems hold for every hash, the worst included.
* `ConfigurationAssumption`: the root has a strategy at the start, as `setDefaultStrategy` sees to, and routes are for upstreams.

| Module | Theorem | Statement |
|---|---|---|
| `ForwarderProofs` | `Invariance`, `TypeCorrect` | `IInv`, `TypeOK` |
| | `TimersExclusive` | `OneTimerPending` |
| | `TimerCoversInRecords` | `UnsatisfyTimerCoversInRecords` |
| | `FacesAreKnown` | `NoDanglingFace` |
| | `LocalhostIsContained` | `LocalhostStaysLocal` |
| | `FlowIsBalanced` | `FlowBalance` |
| | `PipelineInvariance` | `IInv /\ PipelineOK` |
| | `StragglerIsSettled` | `StragglerEntryIsSettled` |
| | `NothingIsLost` | `NoSilentLoss` |
| | `DataIsAskedFor` | `DataFollowsInterest` |
| | `QueriesKeepTheirWord` | `QueryKeepsItsWord` |
| | `LocalhopInterestsStopHere` | `LocalhopIsOneHop` |
| | `NackedIsAnswered` | `HopsInScope` implies `AllNackedIsAnswered` |
| | `UpstreamNoncesAreFresh` | `ByDefault` implies `FreshNonceUpstream` |
| | `DeadNoncesStopByDefault` | `ByDefault`, and no "/queried" words, imply `DeadNonceNotForwarded` |
| | `DeadNoncesStop` | `OneEntryPerName` implies `DeadNonceNotForwarded` |
| `DeadNonceListProofs` | `Invariance`, `TypeCorrect` | `IInv`, `TypeOK` |
| | `MemoryIsBounded` | `BoundedMemory` |
| | `LifetimeIsKept` | `KeptForLifetime` |
| | `Refinement` | `ForgetsOldestFirst`: the list implements `RecentNonces` |
| `ContentStoreProofs` | `Invariance`, `TypeCorrect` | `IInv`, `TypeOK` |
| | `LimitIsKept` | `WithinLimit` |
| | `TimersAreLive` | `StaleEventsAreLive` |
| | `EvictionIsInOrder` | `EvictsInOrder` |
| `TransportsProofs` | `Invariance`, `TypeCorrect` | `IInv`, `TypeOK` |
| | `HandlersAreSafe` | `HandlersRunSafely` |
| | `IdleTimerIsFair` | `OnlyIdleIsClosed` |
| | `LifecycleIsImplemented` | `ImplementsLifecycle`: every transport implements `FaceLifecycle` |
| `LinkServiceProofs` | `FragmentsAlwaysRight` | the fragments of a packet of any size |
| | `Invariance`, `TypeCorrect` | `IInv`, `TypeOK` |
| | `OnlySentIsReceived` | `ReceivedWasSent` |
| | `WhatArrivedIsComplete` | `NothingIsLeftIncomplete` |
| | `TimeoutsAreOfIdlePartials` | `OnlyIdlePartialsExpire` |
| `FaceManagerProofs` | `Invariance` | `IInv` |
| | `CommandsAreAnsweredOnce` | `AnsweredOnce` |
| | `TablesInvariance` | `TInv` |
| | `NoReferenceOutlivesItsFace` | `NothingOutlivesItsFace` |
| | `MulticastFollowsInterfaces` | `FacesFollowInterfaces` |
| | `NoLastingFaceToKnownAddress` | `NoFaceToKnownAddress` |
| `MeasuredStrategiesProofs` | `TablesAreOK` | `TablesOK(tables)` |
| | `TreeIsSound` | `NameTreeIsSound` |
| | `StrategiesMeetTheirOwnItems` | `InfoIsOfStrategyInEffect` |
| | `RtoTimerWaitsForSomebody` | `RtoTimerHasDownstream` |
| | `TimeoutReachesItsItem` | `ScheduledTimeoutIsKnown` |
| `AskServiceProofs` | `Invariance`, `TypeCorrect` | `IInv`, `TypeOK` |
| | `EndedServiceGoes` | `DeadServiceIsDestroyed` |
| | `RequestsAreKept` | `LoneRequestIsKept` |
| | `ListIsOfItsSearch` | `ShownListIsOfSearch` |

Each module has its own `IInv`, the inductive invariant. None of the properties is inductive alone; the following says what
they need.

**Forwarder.** That exactly one timer is set needs that a rejected entry had one before; that the timer covers the
in-records needs their types (expiries are numbers); that a Nack or Data stays in
scope needs that records of a `/localhost` entry belong to local faces only, which in
turn is maintained because the face of an incoming Interest passed the check at
arrival and outgoing faces pass `violatesScope`. `IInv` is
their conjunction, in parts: `TablesOK` (tables), `RecordsOK` and `TimersOK` (one entry), `SentOK`
(the packets of the last step). The proof first shows what one pipeline may do to
one entry (`OutgoingInterestFacts`, `InterestRejectFacts`, `PerformFacts`: it adds out-records for allowed
faces, drops in-records, and leaves the timers or swaps them) whatever the strategy
decided, then one lemma per handler (`InterestKeepsIInv`, `DataKeepsIInv`, `NackKeepsIInv`, `TimerKeepsIInv`,
`ChangeKeepsIInv`). Flow balance is a counting argument on top: for each face, its credit
is at least the number of entries with an in-record of that face, and each action either
lowers the set of waiting entries without answering the face, removes one entry
from it and answers once, or adds one and is paid for by the Interest received
(`StaysBalanced`). The PIT is finite in every state, which the cardinalities need.

**Pipelines.** `PipelineOK` adds to `IInv` that in-records are numbered in the order they were renewed, that an answered out-record
keeps its Nack, and that the entry of a straggler timer is settled. The action properties follow from the two for one step. `QueryKeepsItsWord` needs
a third, `AllOwnNames`: between steps no Interest of an in-record has the name it was sent with. It holds because each send
restores what it renamed (`RestoredIsSame`), for every way out of every pipeline (`OwnNamesStay`).
Three theorems have hypotheses, because without them the property is false:

* `ByDefault`: best-route/v4 is the strategy of every name, and no NextHopFaceId is given. Then an Interest goes out in the handler
  that renews an in-record, to another face, so `sendInterest` picks the Nonce that has just been compared with the entry and the
  Dead Nonce List. The other strategies, or a NextHopFaceId that names the downstream, may send an Interest back to where it came from,
  with the Nonce of another in-record, which was perhaps sent there before.
* `OneEntryPerName`: Interests of a name agree on MustBeFresh. Otherwise a Nonce may die with one entry of the name while the
  other still has it on an in-record.
* `HopsInScope`: a NextHopFaceId names a local face, or the name has no scope. Otherwise the scope check drops the outgoing
  Interest and the entry is left with Nacked upstreams only.

The queried words must be absent because the list is asked for one name and filled with another: run `QueriedLoop` refutes the
property with them.

The attempt to prove `NoSilentLoss` found a case that the runs had not reached: Data for a longer name under `/localhost`
satisfies the entry of a prefix that is not, and is then not sent to the downstreams that are not local. The property now names it.

**Dead Nonce List.** The queue follows the timers: since the last adjustment only MARKs made it longer, one a tick
(`LengthFollowsTimers`). An entry is followed by later entries and by the MARKs of the ticks since it was added
(`RecentIsNearTheEnd`), so an eviction that leaves the minimum capacity does not reach it while those fit. The refinement maps
the list to the entries it has and the order in which each was added for the last time.

**Content Store.** Every packet is in one queue once, the one its entry says; a timer runs for exactly the
packets of the FIFO queue that turn stale; the FIFO queue is in the order of use (`StoreOK`). The policy works on stores
between two states, so these are facts about any store. Removing a set of packets from a
sequence is a recursive function; what it does is proved by induction, which comes from the well-foundedness of finite
sets: a set of numbers that the induction misses has a least element (`Least`, `UpTo`).

**Transports.** For a stream: what is written is the head of the queue until the handler of the write clears
it, and no handler that succeeded follows `deferredClose`. For the others: closing aborts everything, so the
handler they close with is the last one (`StreamInOrder`, `OthersInOrder`). The idle timer ends a whole timeout after the last
packet unless the face was marked as used (`TimerIsFair`).

**Link service.** `FragmentsAlwaysRight` divides what the first fragment leaves by the payload of
the others and shows that the places where fragments begin grow. Reassembly rests on keys: a partial packet's key, an endpoint and the sequence number of its
first fragment, stands for one message. Numbers wrap, so this is modular arithmetic (`ModUnique`, `ModAdd`) and the count of the numbers that
the messages still to be sent may use (`NumbersAreLeft`). `ArrivalsAreStored` says where each fragment that arrived is.

**Management.** A request is in `connecting` only while it was not answered; each of the three handlers of a connection
answers it and takes it out.
`TInv` is about the tables and channels. No query finds two faces because a UDP or TCP face is always the one that its channel keeps for its
peer (`IsKept`), so two faces of a peer would share a key. That no lasting face leads to an address of this host that its channel
could know needs that whatever was known when the channel was made is prohibited in full (`Refuses`), and is inductive for peers, not faces: once a face may be made to a peer (`Sure`) it may always be, since the channel of a version is made once, with the endpoints it
prohibits, and another version's endpoints are not the peer's. Without that a second section could prohibit what a connection under
way is to. Whatever keeps a face does one of a few things to the tables (`Keeps`). The faces of an interface are made in the unspecified order
of a fold; that the fold has a value, and that it leaves alone what was there (`KeepFacesDef`, `KeepFacesFacts`), is proved by
induction on the cardinality of the interfaces, with the same `Least` and `UpTo`. What a section does not keep it closes, and a face that is
being closed never comes back.

**Application.** The queue of the main thread tells the truth about the network thread (`QueueOK`): it holds one destruction
while the thread of a service has stopped, and none otherwise; that a renewed page leaves it there is an induction over the queue. A
request that is owed while its flag is about to be reset was made in between, or its word was replaced (`RequestsOK`). While no search overlaps another, every queued command, flagged word, pending
Interest and published answer of a search is for the page's word or for none (`SearchOK`); what a renewed page finds is
clean because the thread has ended and its Interests with it.

**Strategies with measurements.** The invariant, `TablesOK`, is about tables and not about the variable that has them, because a handler is
a chain of operations and each is given what the one before returns: every operation of `StrategyTables` and every trigger and timer of the three
strategies has a lemma that it keeps `TablesOK`. It says that the tree is sound for exactly the entries there
are (`TreeOK`), the root has a strategy (`ChoiceOK`), and the items of each Measurements and PIT entry are right (`ItemsOK`, `EntryOK`). For the
tree this needs that every node is in the bucket of its hash for the present number of buckets (`TableOK`): a resize distributes all nodes anew,
and an erased node leaves ancestors of which only the lowest can have become empty, or for a lost face several,
so longer names go first (`SweepKeepsTree`). That a change of strategy clears the items it must, and may leave the others, is a fact about
the longest match: below the nearest choices the strategy in effect stays what it was (`Governs`, `ChangesWithin`). `RtoTimerHasDownstream` needs that the access
strategy is told of Data before the in-records are cleared, for every entry that the Data satisfies (`BeforeSatisfyKeeps`). What the code does in loops, and the model
with recursive functions and folds, is proved by induction over numbers and over the subsets of a finite set (`NumberRecursion`, `SetRecursion`, `SetsUpTo`).

**Only model-checked.** Liveness (`PitDrains`, `ForgottenAtLast`, `ClosedAtLast`), which TLAPS does not
support, nor `ENABLED`. Every other property of a passing run is stated by a theorem, some with the hypotheses named above. The pure algorithms that are compared with
reference definitions (`FuzzyWords`, `CsLookup`, `StrategyVersions`, `ForwardingHints`, `Sharing`) are checked on bounded inputs, because they
are recursive over data.

## 5. Where code and documentation disagree

Two are runs that TLC refutes:

* `RibFails`: `main.cpp` says that when either daemon fails the other is terminated as well. The RIB thread publishes
  `ribIo`, notifies and goes on without waiting. When it fails at once, it has set `ribIo` back to null before the main thread
  gets to its wait, and the main thread waits for ever.
* `QueriedLoop`: the Dead Nonce List is asked for the name with the queried word and
  filled with the name without it; a looping query is forwarded. (For plain names
  the same property holds in `PrefixesAndScopes`.)

The others are definitions without a run, which state what a document or an assertion says. TLC finds each violated when it is
given to the run of its module.

| Definition | What is said | What happens |
|---|---|---|
| `Forwarder!NackIsForLastInterest` | `table/pit-out-record.hpp:45`, `:66`: a recorded Nack is one for the last Interest and is cleared in the outgoing Interest pipeline | It is not cleared: after a retransmission to an upstream that had Nacked, the old Nack stays, and `hasPendingOutRecords` takes the entry for one that waits for nobody. |
| `Forwarder!NoRouteToAllDownstreams` | `fw/best-route-strategy2.hpp:43`: a Nack to all downstreams when there is no usable next hop | Only the face of the incoming Interest gets one, and the entry is rejected with the others still waiting. |
| `Forwarder!ErasedNonceIsDead` | `table/dead-nonce-list.hpp:40`: a Nonce erased from a PIT entry goes to the list | One that is overwritten in an out-record does not. |
| `Transports!NoInvalidTransition` | `face/transport.hpp:280`: only the listed transitions are taken | A read handler queued before the face was closed finds an oversized packet and sets FAILED while CLOSING, which throws (`stream-transport.hpp:219`). |
| `Transports!PendingHandlersAreDispatched` | the comment in `doClose` of `stream-transport.hpp`: pending handlers are dispatched before the deallocation | A read that succeeded before the socket was closed is handled after `deferredClose` and starts another one; the handler of its error is queued behind the deallocation. |
| `FaceManager!ExistingFacesAreNotModified` | `face/protocol-factory.hpp:62`: an existing face keeps its persistency | `udp-channel.cpp:152` changes it. |
| `MeasuredStrategies!PickedInRecordExists` | `BOOST_ASSERT` at `fw/forwarder.cpp:545` | The RTO timer sends after the face of the last downstream was removed. |
| `MeasuredStrategies!MeasuredEntryHasInfo` | `BOOST_ASSERT` at `fw/access-strategy.cpp:236` | A Measurements entry made by another strategy has no item of this one. |
| `MeasuredStrategies!DataComesFromMeasuredFace` | `asf-measurements.hpp:221` looks the face up with `at` | It throws for Data from a face that ASF has no measurement of. |

Observed without a contradicting statement:

* When the last upstream without a Nack is removed, downstreams are not told and wait for their
  lifetime. `AllNackedIsAnswered` is therefore about histories in which no face was removed.
* Entries whose name ends with an implicit digest are attached one node up, so a change of strategy at the full name does not clear
  their items; an access-strategy item may then lose its owner. `InfoIsOfStrategyInEffect` and `RtoTimerHasDownstream` except them.
  The latter also excepts histories in which a face was removed, for the reason in the table.
* `MeasurementsAccessor::get` and `getParent` create entries in namespaces of other strategies. NCC overwrites a
  propagation timer without cancelling it, and `beforeSatisfyInterest` may return without cancelling.
* `Cs::findRightmost` goes astray for a full name whose Data is present but not admitted when
  another Data of the name has a smaller digest (`FindsWanted`).
* `getFuzzWord` returns the second closest word, an empty entry without a vocabulary, and does not return for a word that is not
  in its vocabulary (`IsAnswered`): the forwarding thread loops.
* A Link none of whose delegations has a route reaches `BOOST_ASSERT(false)` in `lookupFib`, and `HintsAreRight` says when exactly.
* A face that is CLOSING is still found by `faces/create` and reused. A reload whose sections fail without a
  dry run ends the daemon with half of it applied. Prohibited endpoints are computed when a channel is made, so a lasting face may be
  made to an address of this host that appears later. `NoFaceToKnownAddress` is about the addresses there were. The remote endpoint of a TCP
  peer that has gone already throws in the handler and ends the daemon. `UdpChannel::handleNewPeer` does not wait for the next peer after a face could not be made. A WebSocket
  send error closes the face within the pipeline that sends.
* The answer to a search is a text whose fields end at separators nobody escapes: one file with a "," or "=" in its name makes
  `setString` throw, and the whole list is lost (`ListArrives`). An exact search whose name contains "query" is taken for a fuzzy one.
* `findFile` drops what its recursive call returns, so files in subdirectories are listed and cannot be fetched. A long file is
  answered with the number of its parts, which nobody requests; that answer and "no file" are decoded as Base64 and
  stored under the name of the file (`DownloadIsRight`). Before the page of files was opened there is no list, and a search throws.
* The polling thread of the search page is started again for a second search after an answered one, which throws
  (`crashed = "poller"`). Exact and fuzzy searches share `extraFileListPrefix` and downloads share `extraFilePrefix`, so a second
  command before the flag of the first is read replaces its word: the first is never asked, and the second may be asked twice.
  `LoneRequestIsKept` excepts such a request (`excused`). Nothing relates an answer to its search, so `ShownListIsOfSearch` excepts searches that overlap.

## 6. What is not modelled

* **Forwarder.** Links in the pipelines (only the lookup, in `ForwardingHints`), selectors other than MustBeFresh,
  `wantNewNonce`, which no strategy uses, counters. Hash collisions of the Dead Nonce List.
  `Cs::setPolicy`, which nothing calls.
* **Strategies.** RTT estimators, averages, NCC's prediction and the ranking of faces by their times are numerical; only the kind of the
  last measurement is kept. Whether `getFaceBasedOnProbability` reaches its `BOOST_ASSERT(false)` depends on rounding. `extendLifetime` is covered by
  an expiry at any time. Which strategies are registered is fixed at build time.
* **Faces.** Sockets, libpcap, socket options, enumeration of interfaces, the parsing of endpoints, and the copying of tags.
* **Management.** The counters in datasets, the forwarder status and the lists of routes and strategies. The parsing of options and
  configuration, the wording of replies, logging and the command line are input and output.
* **Application.** Views. `ACTION_STOP` with `quitApplication` has no caller and ChronoSync is not used; the registration of
  prefixes and the heartbeat change no state of the program.

## 7. Plan

Done: the modules of section 2, their runs and the proofs of section 4. Next, in this order:

1. Composition of `Forwarder` with the interfaces `RecentNonces` and `ContentStore` promise, and with `ForwardingHints`.
2. Composition of `Sharing` with `AskService`: several nodes that ask and answer.
