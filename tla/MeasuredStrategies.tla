-------------------------- MODULE MeasuredStrategies --------------------------
(***************************************************************************)
(* The strategies that keep measurements or timers, on the tables they     *)
(* share: the access strategy, NCC and ASF, each in effect at some         *)
(* prefixes, while strategies are changed, routes come and go, and faces   *)
(* are removed.  The pipelines of fw/forwarder are reduced to what a       *)
(* strategy meets: when its triggers are called, and what has become of    *)
(* the PIT entry by then.                                                  *)
(***************************************************************************)
EXTENDS AccessStrategy, NccStrategy, AsfStrategy

CONSTANTS
  PitNames,       \* the names of Interests
  DataNames,      \* the names of Data
  RoutePrefixes,  \* the prefixes that routes are set for
  ChoicePrefixes, \* the prefixes that strategies are set for
  Downstreams,    \* the faces that Interests come from
  Upstreams,      \* the faces that answers come from
  InitialChoices, \* what the Strategy Choice table may hold at the start
  InitialRoutes,  \* what the FIB may hold at the start
  MaxInterests,   \* bound: Interests that arrive
  MaxChanges,     \* bound: changes of strategies, routes and faces
  MaxExpiries     \* bound: Measurements entries, or faces in them, that expire

Strategies == {"access", "ncc", "asf"}

\* A choice is made for the root, and routes are set for upstreams.
ASSUME ConfigurationAssumption ==
  /\ PitNames \cup DataNames \cup RoutePrefixes \cup ChoicePrefixes \subseteq Names
  /\ \A choice \in InitialChoices :
       /\ <<>> \in DOMAIN choice /\ DOMAIN choice \subseteq ChoicePrefixes \cup {<<>>}
       /\ \A prefix \in DOMAIN choice : choice[prefix] \in Strategies
  /\ \A routes \in InitialRoutes :
       IsFiniteSet(routes) /\ routes \subseteq RoutePrefixes \X Upstreams

VARIABLES
  tables,     \* see StrategyTables
  interests,  \* how many Interests arrived
  changes,    \* how many changes were made
  expiries    \* how many measurements expired

vars == <<tables, interests, changes, expiries>>

\* The faces at the start
AllFaces == Downstreams \cup Upstreams

TypeOK ==
  /\ Nodes(tables.ht) \subseteq Names
  /\ DOMAIN tables.choice \subseteq ChoicePrefixes \cup {<<>>}
  /\ Range(tables.choice) \subseteq Strategies
  /\ DOMAIN tables.fib \subseteq RoutePrefixes
  /\ DOMAIN tables.pit \subseteq PitNames
  /\ \A p \in DOMAIN tables.pit :
       /\ tables.pit[p].live \cup tables.pit[p].nacked \subseteq tables.pit[p].outs
       /\ DOMAIN tables.pit[p].info \subseteq Strategies
       /\ tables.pit[p].lostTimers \in 0..MaxInterests
  /\ tables.faces \subseteq AllFaces

\* The section strategy_choice of the configuration file
StrategyChoiceSection(t, choices) ==
  FoldSet(LAMBDA p, chosen : InsertChoice(chosen, p, choices[p]), t, DOMAIN choices)

\* The Strategy Choice table makes its root entry when it is constructed; the others are
\* from the configuration file, and the routes set by commands.
Init ==
  /\ interests = 0
  /\ changes = 0
  /\ expiries = 0
  /\ \E choice \in InitialChoices, routes \in InitialRoutes :
       LET rooted == [ht |-> Lookup(EmptyTable, <<>>), choice |-> Put(NoInfo, <<>>, choice[<<>>]),
                      fib |-> NoInfo, measured |-> NoInfo, pit |-> NoInfo,
                      faces |-> AllFaces, probes |-> {}, fault |-> "none"]
           chosen == StrategyChoiceSection(rooted, choice)
       IN  tables = FoldSet(LAMBDA route, t : AddNextHop(t, route[1], route[2]), chosen, routes)

----------------------------------------------------------------------------
\* The pipelines.

CanGoOn == tables.fault = "none"

Trigger(t, name, face) ==
  CASE EffectiveForPit(t, name) = "access" -> AccessAfterInterest(t, name, face)
    [] EffectiveForPit(t, name) = "ncc" -> NccAfterInterest(t, name, face)
    [] EffectiveForPit(t, name) = "asf" -> AsfAfterInterest(t, name, face)

ReceiveInterest(name, face) ==
  LET entered == FindOrInsertPit(tables, name)
      recorded == [entered EXCEPT !.pit[name].ins = @ \cup {face}]
  IN  /\ CanGoOn
      /\ interests < MaxInterests
      /\ face \in tables.faces
      /\ interests' = interests + 1
      /\ tables' \in Trigger(recorded, name, face)
      /\ UNCHANGED <<changes, expiries>>

MatchesData(name, data) ==
  IF AttachedTo(name) # name THEN AttachedTo(name) = data ELSE IsPrefix(name, data)

\* findAllDataMatches: of the PIT entries in the nodes of the prefixes of the Data's name
DataMatches(data) ==
  {name \in DOMAIN tables.pit :
     /\ AttachedTo(name) \in Matches(Nodes(tables.ht), data)
     /\ MatchesData(name, data)}

BeforeSatisfy(t, name, face, data) ==
  CASE EffectiveForPit(t, name) = "access" -> AccessBeforeSatisfy(t, name, face, data)
    [] EffectiveForPit(t, name) = "ncc" -> NccBeforeSatisfy(t, name, face)
    [] EffectiveForPit(t, name) = "asf" -> AsfBeforeSatisfy(t, name, face, data)

\* After the trigger the in-records are cleared and the out-record of the face goes.
Satisfied(t, name, face, data) ==
  [BeforeSatisfy(t, name, face, data) EXCEPT
     !.pit[name].ins = {},
     !.pit[name].outs = @ \ {face},
     !.pit[name].live = @ \ {face},
     !.pit[name].nacked = @ \ {face}]

ReceiveData(data, face) ==
  /\ CanGoOn
  /\ face \in tables.faces
  /\ DataMatches(data) # {}
  /\ tables' = FoldSet(LAMBDA name, t : Satisfied(t, name, face, data), tables, DataMatches(data))
  /\ UNCHANGED <<interests, changes, expiries>>

\* Only ASF does something when a Nack comes.
ReceiveNack(name, face) ==
  LET nacked == [tables EXCEPT !.pit[name].nacked = @ \cup {face}]
  IN  /\ CanGoOn
      /\ name \in DOMAIN tables.pit
      /\ face \in tables.pit[name].outs
      /\ tables' = IF EffectiveForPit(tables, name) = "asf"
                   THEN OnTimeout(nacked, name, face) ELSE nacked
      /\ UNCHANGED <<interests, changes, expiries>>

\* The out-records expire while an in-record with a longer lifetime keeps the entry.
OutRecordsExpire(name) ==
  /\ CanGoOn
  /\ name \in DOMAIN tables.pit
  /\ tables.pit[name].live # {}
  /\ tables' = [tables EXCEPT !.pit[name].live = {}]
  /\ UNCHANGED <<interests, changes, expiries>>

\* The unsatisfy or the straggler timer: the entry goes, and its items with it.
EntryExpires(name) ==
  /\ CanGoOn
  /\ name \in DOMAIN tables.pit
  /\ tables' = ErasePit(tables, name)
  /\ UNCHANGED <<interests, changes, expiries>>

----------------------------------------------------------------------------
\* The timers of the strategies and of the Measurements table.

RtoTimeout(name) ==
  /\ CanGoOn
  /\ name \in DOMAIN tables.pit
  /\ RtoIsPending(tables, name)
  /\ tables' = AfterRtoTimeout(tables, name)
  /\ UNCHANGED <<interests, changes, expiries>>

NccTimer(name, which) ==
  /\ CanGoOn
  /\ name \in DOMAIN tables.pit
  /\ "ncc" \in DOMAIN tables.pit[name].info
  /\ PitInfo(tables, "ncc", name)[which]
  /\ UNCHANGED <<interests, changes, expiries>>

PropagateTimeout(name) ==
  NccTimer(name, "propagate") /\ tables' \in PropagateTimerExpires(tables, name)

BestFaceTimeout(name) ==
  NccTimer(name, "bestFace") /\ tables' = TimeoutOnBestFace(tables, name)

LostPropagateTimeout(name) ==
  /\ CanGoOn
  /\ name \in DOMAIN tables.pit
  /\ tables.pit[name].lostTimers > 0
  /\ tables' \in LostTimerExpires(tables, name)
  /\ UNCHANGED <<interests, changes, expiries>>

KnowsFace(at, face) ==
  /\ CanGoOn
  /\ at \in DOMAIN tables.measured
  /\ HasInfo(tables, "asf", at)
  /\ face \in DOMAIN Faces(tables, at)

AsfTimeout(at, face) ==
  /\ KnowsFace(at, face)
  /\ Faces(tables, at)[face].timer # None
  /\ tables' = TimeoutExpires(tables, at, face)
  /\ UNCHANGED <<interests, changes, expiries>>

Expiry ==
  /\ CanGoOn
  /\ expiries < MaxExpiries
  /\ expiries' = expiries + 1
  /\ UNCHANGED <<interests, changes>>

FaceInfoExpires(at, face) ==
  /\ Expiry
  /\ KnowsFace(at, face)
  /\ Faces(tables, at)[face].expires
  /\ tables' = ExpireFaceInfo(tables, at, face)

ProbeTimeout(prefix) ==
  /\ CanGoOn
  /\ prefix \in tables.probes
  /\ tables' = ProbeFallsDue([tables EXCEPT !.probes = @ \ {prefix}], prefix)
  /\ UNCHANGED <<interests, changes, expiries>>

MeasurementExpires(name) ==
  /\ Expiry
  /\ name \in DOMAIN tables.measured
  /\ tables' = CleanupMeasured(tables, name)

----------------------------------------------------------------------------
\* The commands of the managers, and the loss of a face.

Change ==
  /\ CanGoOn
  /\ changes < MaxChanges
  /\ changes' = changes + 1
  /\ UNCHANGED <<interests, expiries>>

SetStrategy(prefix, strategy) == Change /\ tables' = InsertChoice(tables, prefix, strategy)

UnsetStrategy(prefix) ==
  Change /\ prefix \in DOMAIN tables.choice \ {<<>>} /\ tables' = EraseChoice(tables, prefix)

AddRoute(prefix, face) ==
  Change /\ face \in tables.faces /\ tables' = AddNextHop(tables, prefix, face)

RemoveRoute(prefix, face) ==
  /\ Change
  /\ prefix \in DOMAIN tables.fib
  /\ face \in tables.fib[prefix]
  /\ tables' = RemoveNextHop(tables, prefix, face)

RemoveFace(face) ==
  Change /\ face \in tables.faces /\ tables' = CleanupOnFaceRemoval(tables, face)

----------------------------------------------------------------------------
Next ==
  \/ \E name \in PitNames, face \in Downstreams : ReceiveInterest(name, face)
  \/ \E data \in DataNames, face \in Upstreams : ReceiveData(data, face)
  \/ \E name \in PitNames, face \in Upstreams : ReceiveNack(name, face)
  \/ \E name \in PitNames : OutRecordsExpire(name)
  \/ \E name \in PitNames : EntryExpires(name)
  \/ \E name \in PitNames : RtoTimeout(name)
  \/ \E name \in PitNames : PropagateTimeout(name)
  \/ \E name \in PitNames : BestFaceTimeout(name)
  \/ \E name \in PitNames : LostPropagateTimeout(name)
  \/ \E at \in Names, face \in Upstreams : AsfTimeout(at, face)
  \/ \E at \in Names, face \in Upstreams : FaceInfoExpires(at, face)
  \/ \E prefix \in RoutePrefixes : ProbeTimeout(prefix)
  \/ \E name \in Names : MeasurementExpires(name)
  \/ \E prefix \in ChoicePrefixes, strategy \in Strategies : SetStrategy(prefix, strategy)
  \/ \E prefix \in ChoicePrefixes : UnsetStrategy(prefix)
  \/ \E prefix \in RoutePrefixes, face \in Upstreams : AddRoute(prefix, face)
  \/ \E prefix \in RoutePrefixes, face \in Upstreams : RemoveRoute(prefix, face)
  \/ \E face \in AllFaces : RemoveFace(face)

Spec == Init /\ [][Next]_vars

----------------------------------------------------------------------------
\* The name tree stays sound while all tables enter and leave it: a node is found
\* where it is looked for, has its parent, and is there only as long as it is needed.
\* (NameTree::lookup, eraseIfEmpty, Hashtable::resize, cleanupOnFaceRemoval)
NameTreeIsSound == IsSound(tables.ht, Used(tables))

\* A StrategyInfo item belongs to the strategy in effect at its name, whatever was
\* changed since: a strategy never meets the items of another one.  A PIT entry whose
\* name ends with a digest is excepted: it is attached to the node above, which a choice
\* for the full name does not reach.  (StrategyChoice::changeStrategy)
InfoIsOfStrategyInEffect ==
  /\ \A n \in DOMAIN tables.measured :
       DOMAIN tables.measured[n] \subseteq {EffectiveStrategy(tables, n)}
  /\ \A p \in DOMAIN tables.pit :
       AttachedTo(p) = p => DOMAIN tables.pit[p].info \subseteq {EffectiveStrategy(tables, p)}

\* The RTO timer of the access strategy is pending only while a downstream waits, as
\* long as no face was removed: Data cancels it before the in-records are cleared.  The
\* same entries are excepted.  (AccessStrategy::beforeSatisfyInterest)
RtoTimerHasDownstream ==
  \A p \in DOMAIN tables.pit :
    /\ AttachedTo(p) = p
    /\ RtoIsPending(tables, p)
    /\ tables.faces = AllFaces
    => tables.pit[p].ins # {}

\* A timer of ASF is known by the item that will be told of it: while a timeout event
\* is scheduled, the face is marked so, with the name the event is for.
\* (FaceInfo::setTimeoutEvent, cancelTimeoutEvent)
ScheduledTimeoutIsKnown ==
  \A n \in DOMAIN tables.measured : HasInfo(tables, "asf", n) =>
    \A face \in DOMAIN Faces(tables, n) :
      LET info == Faces(tables, n)[face]
      IN  info.timer # None => info.last = info.timer

\* "pickedInRecord != pitEntry->in_end()" is asserted when an Interest is sent.
PickedInRecordExists == tables.fault # "no in-record"

\* "BOOST_ASSERT(mi != nullptr)" of findPrefixMeasurements: an entry that the access
\* strategy finds for a pending Interest holds its item.
MeasuredEntryHasInfo ==
  \A p \in DOMAIN tables.pit :
    EffectiveStrategy(tables, p) = "access" => ~MeasuredWithoutInfo(tables, p)

\* NamespaceInfo::get throws, and recordRtt reads a missing out-record, when Data comes
\* from a face ASF does not expect it from.
DataComesFromMeasuredFace == tables.fault \notin {"face not measured", "no out-record"}
=============================================================================
