------------------------------ MODULE PitEntry ------------------------------
(***************************************************************************)
(* The entry of the Pending Interest Table and its in- and out-records     *)
(* (table/pit-entry, pit-in-record, pit-out-record, pit-face-record) and   *)
(* the predicates that pipelines and strategies evaluate on an entry       *)
(* (fw/pit-algorithm).  An entry e is the record                           *)
(*    ins, outs   partial functions from faces to in-/out-records          *)
(*    unsatisfy   deadline of m_unsatisfyTimer, NEVER when it is not set   *)
(*    straggler   m_stragglerTimer with the arguments bound to it          *)
(*    retx        suppressionInterval of the strategy's PitInfo            *)
(* Time is counted in ticks; now is an argument of every operator that     *)
(* reads the steady clock.                                                 *)
(***************************************************************************)
EXTENDS Integers, FiniteSets, Functions

CONSTANTS
  Faces,            \* every face that exists at some time
  LocalFaces,       \* faces whose scope is FACE_SCOPE_LOCAL
  MultiAccessFaces, \* faces whose link type is LINK_TYPE_MULTI_ACCESS
  Names,            \* Interest names after "/queried/..." is cut off
  PrefixesOf,       \* PrefixesOf[n]: the names that are prefixes of n, n too
  LocalhostNames,   \* names under ndn:/localhost
  LocalhopNames,    \* names under ndn:/localhop
  Words,            \* what follows "/queried" in a name
  NoWord,           \* the name has no "/queried" part
  Nonces,
  NackReasons,      \* the reasons an incoming Nack may give
  RetxInitial,      \* BestRouteStrategy2::RETX_SUPPRESSION_INITIAL
  RetxMax           \* BestRouteStrategy2::RETX_SUPPRESSION_MAX

ASSUME FacesAssumption ==
  /\ IsFiniteSet(Faces)
  /\ LocalFaces \subseteq Faces
  /\ MultiAccessFaces \subseteq Faces

ASSUME NamesAssumption ==
  /\ IsFiniteSet(Names)
  /\ PrefixesOf \in [Names -> SUBSET Names]
  /\ \A n \in Names : n \in PrefixesOf[n]
  /\ LocalhostNames \subseteq Names
  /\ LocalhopNames \subseteq Names
  /\ NoWord \notin Words

ASSUME ValuesAssumption ==
  /\ NackReasons \subseteq Nat
  /\ RetxInitial \in Nat \ {0}
  /\ RetxMax \in Nat /\ RetxMax >= RetxInitial

\* a timer that is not scheduled
NEVER == -1

\* lp::NackReason; NONE is also the reason of a header that gives none
NONE == 0
DUPLICATE == 100
NO_ROUTE == 150
\* getIncomingNack() returns nullptr
NoNack == -1

\* m is a function from a subset of S to T
IsPartialFunction(m, S, T) == DOMAIN m \subseteq S /\ m \in [DOMAIN m -> T]

\* std::list of records: the record of x is created or replaced, or erased
Put(m, x, v) == [y \in DOMAIN m \cup {x} |-> IF y = x THEN v ELSE m[y]]
Drop(m, x) == Restrict(m, DOMAIN m \ {x})

-----------------------------------------------------------------------------

Times == Nat

\* order stands for getLastRenewed(): it grows with every packet, also within
\* one tick of the clock.  word is in getqueriedName() of the Interest, and shown
\* in its getName(), which onOutgoingInterest writes to.
InRecord ==
  [nonce : Nonces, order : Nat, lifetime : Times, expiry : Times,
   word : Words \cup {NoWord}, shown : Words \cup {NoWord}]

\* answered is a history field: the last Interest sent to the face, and not an
\* earlier one, came back in a Nack.
OutRecord ==
  [nonce : Nonces, renewed : Times, expiry : Times,
   nack : NackReasons \cup {NONE, NoNack}, answered : BOOLEAN]

\* satisfied and stale are the arguments isSatisfied and dataFreshnessPeriod of
\* onInterestFinalize; stale says that the Data turns stale within the
\* lifetime of the Dead Nonce List.
Straggler == [at : Times \cup {NEVER}, satisfied : BOOLEAN, stale : BOOLEAN]

NoStraggler == [at |-> NEVER, satisfied |-> FALSE, stale |-> FALSE]

IsEntry(e) ==
  /\ e \in [ins : {e.ins}, outs : {e.outs}, unsatisfy : Times \cup {NEVER},
            straggler : Straggler, retx : RetxInitial .. RetxMax]
  /\ IsPartialFunction(e.ins, Faces, InRecord)
  /\ IsPartialFunction(e.outs, Faces, OutRecord)

\* Entry::Entry: a new entry has no record and no timer
NoRecords == [f \in {} |-> NEVER]

NewEntry ==
  [ins |-> NoRecords, outs |-> NoRecords, unsatisfy |-> NEVER,
   straggler |-> NoStraggler, retx |-> RetxInitial]

-----------------------------------------------------------------------------

\* Entry::insertOrUpdateInRecord with FaceRecord::update and InRecord::update.
\* An in-record shares the Interest, whose name onIncomingInterest has cut.
InsertOrUpdateInRecord(e, f, i, now, order) ==
  [e EXCEPT !.ins =
     Put(e.ins, f, [nonce |-> i.nonce, order |-> order, lifetime |-> i.lifetime,
                    expiry |-> now + i.lifetime, word |-> i.word,
                    shown |-> NoWord])]

\* FaceRecord::update on the out-record of f with the Interest of in-record r.
\* A Nack recorded on an existing out-record stays there.
UpdatedOutRecord(e, f, r, now) ==
  [nonce |-> r.nonce, renewed |-> now, expiry |-> now + r.lifetime,
   nack |-> IF f \in DOMAIN e.outs THEN e.outs[f].nack ELSE NoNack,
   answered |-> FALSE]

\* OutRecord::setIncomingNack, for a Nack whose Nonce has been compared
SetIncomingNack(e, f, reason) ==
  [e EXCEPT !.outs[f].nack = reason, !.outs[f].answered = TRUE]

\* mutant of DeleteInOutRecords: the out-records stay
DeleteInRecordsOnly(e, f) == [e EXCEPT !.ins = Drop(e.ins, f)]

\* Pit::deleteInOutRecords, called for every entry when f is removed
DeleteInOutRecords(e, f) ==
  [e EXCEPT !.ins = Drop(e.ins, f), !.outs = Drop(e.outs, f)]

\* mutant of CancelTimers: the unsatisfy timer stays
CancelStragglerOnly(e) == [e EXCEPT !.straggler = NoStraggler]

CancelTimers(e) == [e EXCEPT !.unsatisfy = NEVER, !.straggler = NoStraggler]

\* mutant of LastExpiries: due when the first in-record expires
FirstExpiries(e) ==
  {t \in {e.ins[f].expiry : f \in DOMAIN e.ins} :
     \A f \in DOMAIN e.ins : e.ins[f].expiry >= t}

\* Forwarder::setUnsatisfyTimer: due when the last in-record expires, at the
\* one element of this set when e has in-records
LastExpiries(e) ==
  {t \in {e.ins[f].expiry : f \in DOMAIN e.ins} :
     \A f \in DOMAIN e.ins : e.ins[f].expiry <= t}

-----------------------------------------------------------------------------

\* mutants of ViolatesScope: one of the two scopes is not controlled
ViolatesLocalhop(e, n, f) ==
  f \notin LocalFaces /\ n \in LocalhopNames /\ DOMAIN e.ins \cap LocalFaces = {}

ViolatesLocalhost(e, n, f) == f \notin LocalFaces /\ n \in LocalhostNames

\* fw::violatesScope, for the name n of the entry
ViolatesScope(e, n, f) ==
  /\ f \notin LocalFaces
  /\ \/ n \in LocalhostNames
     \/ n \in LocalhopNames /\ DOMAIN e.ins \cap LocalFaces = {}

\* fw::canForwardToLegacy
CanForwardToLegacy(e, n, f, now) ==
  /\ ~(f \in DOMAIN e.outs /\ e.outs[f].expiry >= now)
  /\ \E g \in DOMAIN e.ins \ {f} : e.ins[g].expiry >= now
  /\ ~ViolatesScope(e, n, f)

\* fw::findDuplicateNonce # DUPLICATE_NONCE_NONE
HasDuplicateNonce(e, nonce) ==
  \/ \E f \in DOMAIN e.ins : e.ins[f].nonce = nonce
  \/ \E f \in DOMAIN e.outs : e.outs[f].nonce = nonce

\* fw::hasPendingOutRecords
HasPendingOutRecords(e, now) ==
  \E f \in DOMAIN e.outs : e.outs[f].expiry >= now /\ e.outs[f].nack = NoNack

\* mutant of PickedInRecord: the in-record that was renewed first
OldestInRecord(e, f) ==
  {g \in DOMAIN e.ins : \A h \in DOMAIN e.ins : e.ins[h].order >= e.ins[g].order}

\* The in-record onOutgoingInterest picks for outFace f, the one element of this
\* set: the last renewed one that is not f's own; f's own if there is no other.
PickedInRecord(e, f) ==
  LET others == DOMAIN e.ins \ {f}
      pool == IF others = {} THEN DOMAIN e.ins ELSE others
  IN  {g \in pool : \A h \in pool : e.ins[h].order <= e.ins[g].order}

=============================================================================
