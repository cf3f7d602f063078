------------------------------ MODULE Forwarder ------------------------------
(***************************************************************************)
(* The forwarding pipelines of fw/forwarder.cpp over the PIT, the FIB, the *)
(* Content Store and the Dead Nonce List.  NFD runs them on one thread: a  *)
(* received packet, an expired timer and the removal of a face are each    *)
(* handled to the end before the next, so each is one action.  A timer     *)
(* fires at any moment once it is due: the event loop may be late.         *)
(***************************************************************************)
EXTENDS Strategies

CONSTANTS
  QueryNames,    \* names that contain "/query"
  FuzzWord,      \* what getFuzzWord makes of the last component of a name:
                 \* FuzzWord[n] for the name n, FuzzWord[w] if "/queried/w" follows
  StrategyOf,    \* the strategy chosen for each name
  Interests,     \* the Interests that may arrive
  Datas,         \* the Data packets that may arrive
  NoHop,         \* no NextHopFaceId tag
  AdmittedFaces, \* faces whose unsolicited Data the policy caches
  InitialFib,
  RemovableFaces, \* bound: the faces that may be removed
  Costs,
  Changeable,    \* bound: the names whose FIB entries may change
  StragglerTime,
  \* bounds for model checking
  MaxTime, LastArrival, MaxEvents

VARIABLES
  now,     \* the steady clock
  faces,   \* the faces of m_faceTable
  fib,     \* fib[n]: the next hops of the FIB entry of n and their costs
  pit,     \* m_pit: from (name, selectors) to entries
  cs,      \* every Data that was ever inserted into m_cs
  dnl,     \* the names and Nonces in m_deadNonceList
  sent,    \* the packets the last step sent
  credit,  \* history: Interests received on a face less Data and Nacks sent
  events   \* packets received and changes of the topology so far; orders the
           \* packets of one tick, and is bounded for model checking

vars == <<now, faces, fib, pit, cs, dnl, sent, credit, events>>

Interest ==
  [name : Names, word : Words \cup {NoWord}, fresh : BOOLEAN, nonce : Nonces,
   lifetime : Times, hop : Faces \cup {NoHop}]

\* stale: the Data has a FreshnessPeriod shorter than the Dead Nonce List's
\* lifetime.  onIncomingData cuts "/queried/..." off before it uses the name.
Data == [name : Names, stale : BOOLEAN]

ASSUME ForwarderAssumption ==
  /\ QueryNames \subseteq Names /\ FuzzWord \in [QueryNames \cup Words -> Words]
  /\ StrategyOf \in [Names -> StrategyNames]
  /\ Interests \subseteq Interest /\ Datas \subseteq Data
  /\ NoHop \notin Faces /\ AdmittedFaces \subseteq Faces /\ RemovableFaces \subseteq Faces
  /\ Costs \subseteq Nat /\ Changeable \subseteq Names
  /\ DOMAIN InitialFib = Names
  /\ \A n \in Names : IsPartialFunction(InitialFib[n], Faces, Costs)
  /\ {StragglerTime, MaxTime, LastArrival, MaxEvents} \subseteq Nat

Keys == [name : Names, fresh : BOOLEAN]
Key(i) == [name |-> i.name, fresh |-> i.fresh]
FullName == [name : Names, word : Words \cup {NoWord}, nonce : Nonces]

-----------------------------------------------------------------------------
(* Packets on the wire                                                     *)

\* onOutgoingInterest renames a query in place, in the Interest that the picked
\* in-record r and the entry share: to the queried name it came with, or to the
\* name it has now with a fuzzed word.
Renamed(n, r) ==
  IF n \notin QueryNames THEN r
  ELSE [r EXCEPT !.shown = IF r.word # NoWord THEN r.word
                           ELSE FuzzWord[IF r.shown = NoWord THEN n ELSE r.shown]]

\* mutant of Restored: the Interest keeps the name it was sent with
KeepNewName(n, r) == Renamed(n, r)

\* When the renamed Interest is sent, it gets back the name it had before.
Restored(n, r) == [Renamed(n, r) EXCEPT !.shown = r.shown]

InterestPacket(f, k, r) ==
  [type |-> "interest", face |-> f, name |-> k.name, word |-> r.shown, nonce |-> r.nonce]
NackPacket(f, n, w, nonce, reason) ==
  [type |-> "nack", face |-> f, name |-> n, word |-> w, nonce |-> nonce,
   reason |-> reason]
DataPacket(f, d) == [type |-> "data", face |-> f, name |-> d.name]

Answers(out) == {p.face : p \in {q \in out : q.type # "interest"}}

\* A step that received the Interests of the faces in received and sent out.
Emit(received, out) ==
  /\ sent' = out
  /\ credit' = [f \in Faces |-> credit[f] + (IF f \in received THEN 1 ELSE 0)
                                          - (IF f \in Answers(out) THEN 1 ELSE 0)]

IsLocalhostViolation(f, n) == f \notin LocalFaces /\ n \in LocalhostNames

\* onOutgoingData for every face of T
OutgoingData(d, T) ==
  {DataPacket(f, d) : f \in {g \in T \cap faces : ~IsLocalhostViolation(g, d.name)}}

-----------------------------------------------------------------------------
(* Pipelines on one entry.  Each returns the set of possible outcomes: the *)
(* entry afterwards and the packets sent.                                  *)

\* onOutgoingInterest for every face of T.  Faces that pick the same in-record find
\* the name that the face before them restored.
OutgoingInterest(k, e, T) ==
  LET out == {f \in T \cap faces : ~ViolatesScope(e, k.name, f)}
      Picks == {p \in [out -> DOMAIN e.ins] :
                  \A f \in out : p[f] \in PickedInRecord(e, f)}
  IN  {[entry |-> [e EXCEPT
                     !.ins = [g \in DOMAIN e.ins |->
                        IF g \in {p[f] : f \in out} THEN Restored(k.name, e.ins[g])
                        ELSE e.ins[g]],
                     !.outs = [f \in DOMAIN e.outs \cup out |->
                        IF f \in out THEN UpdatedOutRecord(e, f, e.ins[p[f]], now)
                        ELSE e.outs[f]]],
        sent |-> {InterestPacket(f, k, Renamed(k.name, e.ins[p[f]])) : f \in out}] : p \in Picks}

\* onOutgoingNack is effective on these faces
NackableFaces(e, T) == {f \in T \cap faces \cap DOMAIN e.ins : f \notin MultiAccessFaces}

\* mutants of WithoutInRecords: a Nack leaves the in-record, or clears all
KeepInRecords(e, T) == e

ClearInRecords(e, T) == IF T = {} THEN e ELSE [e EXCEPT !.ins = NoRecords]

WithoutInRecords(e, T) == [e EXCEPT !.ins = Restrict(e.ins, DOMAIN e.ins \ T)]

SetStragglerTimer(e, satisfied, stale) ==
  [e EXCEPT !.straggler =
     [at |-> now + StragglerTime, satisfied |-> satisfied, stale |-> stale]]

\* mutants of InterestReject: pending upstreams are not considered; the
\* straggler timer is not set
RejectPending(e) == SetStragglerTimer(CancelTimers(e), FALSE, FALSE)

RejectWithoutTimer(e) == IF HasPendingOutRecords(e, now) THEN e ELSE CancelTimers(e)

\* onInterestReject
InterestReject(e) ==
  IF HasPendingOutRecords(e, now) THEN e
  ELSE SetStragglerTimer(CancelTimers(e), FALSE, FALSE)

\* The actions a strategy takes in one trigger: its sendInterest calls had the
\* outcome r, then it sends Nacks and may reject the Interest
ThenNackAndReject(k, r, d) ==
  LET nacked == NackableFaces(r.entry, d.nackTo)
      e == [WithoutInRecords(r.entry, nacked) EXCEPT !.retx = d.retx]
  IN  [entry |-> IF d.reject THEN InterestReject(e) ELSE e,
       sent |-> r.sent \cup
                {NackPacket(f, k.name, r.entry.ins[f].shown, r.entry.ins[f].nonce, d.reason) :
                   f \in nacked}]

Perform(k, e, d) ==
  {ThenNackAndReject(k, r, d) : r \in OutgoingInterest(k, e, d.targets)}

\* Strategy::lookupFib without a Link: the longest prefix that has next hops
LookupFib(n) ==
  LET found == {p \in PrefixesOf[n] : DOMAIN fib[p] # {}}
  IN  IF found = {} THEN {NoRecords}
      ELSE {fib[p] : p \in {q \in found : found \subseteq PrefixesOf[q]}}

\* onContentStoreMiss
AfterMiss(k, e, f, i) ==
  LET e1 == InsertOrUpdateInRecord(e, f, i, now, events)
      armed == {[e1 EXCEPT !.unsatisfy = t] : t \in LastExpiries(e1)}
      Decided(e2) == UNION {AfterReceiveInterest(StrategyOf[k.name], e2, k.name, hops, f, now) :
                              hops \in LookupFib(k.name)}
  IN  IF i.hop = NoHop
      THEN UNION {UNION {Perform(k, e2, d) : d \in Decided(e2)} : e2 \in armed}
      ELSE UNION {OutgoingInterest(k, e2, {i.hop}) : e2 \in armed}

-----------------------------------------------------------------------------
(* onIncomingInterest, one action for each way through it                   *)

Arrival(f) ==
  /\ f \in faces
  /\ now <= LastArrival /\ events < MaxEvents
  /\ UNCHANGED <<now, faces, fib>>

Received == events' = events + 1

InterestViolatesScope(f, i) ==
  /\ Arrival(f) /\ Received
  /\ IsLocalhostViolation(f, i.name)
  /\ Emit({f}, {})
  /\ UNCHANGED <<pit, cs, dnl>>

\* onInterestLoop, with the word the Interest's name has by then
InterestLoop(f, i, w) ==
  /\ Emit({f}, IF f \in MultiAccessFaces THEN {}
               ELSE {NackPacket(f, i.name, w, i.nonce, DUPLICATE)})
  /\ UNCHANGED <<pit, cs, dnl>>

\* mutant of IsDeadNonce: the list is not asked
NeverDead(i) == FALSE

\* The list is asked for the name as it was received, "/queried" included.
IsDeadNonce(i) == [name |-> i.name, word |-> i.word, nonce |-> i.nonce] \in dnl

LoopInDeadNonceList(f, i) ==
  /\ Arrival(f) /\ Received
  /\ ~IsLocalhostViolation(f, i.name)
  /\ IsDeadNonce(i)
  /\ InterestLoop(f, i, i.word)

EntryFor(i) == IF Key(i) \in DOMAIN pit THEN pit[Key(i)] ELSE NewEntry

LoopInPit(f, i) ==
  /\ Arrival(f) /\ Received
  /\ ~IsLocalhostViolation(f, i.name) /\ ~IsDeadNonce(i)
  /\ HasDuplicateNonce(EntryFor(i), i.nonce)
  /\ InterestLoop(f, i, NoWord)

Accepts(f, i) ==
  /\ Arrival(f) /\ Received
  /\ ~IsLocalhostViolation(f, i.name) /\ ~IsDeadNonce(i)
  /\ ~HasDuplicateNonce(EntryFor(i), i.nonce)
  /\ UNCHANGED <<cs, dnl>>

ContentStoreHit(f, i, d) ==
  /\ Accepts(f, i)
  /\ DOMAIN EntryFor(i).ins = {}
  /\ d \in cs /\ i.name \in PrefixesOf[d.name]
  /\ pit' = Put(pit, Key(i), SetStragglerTimer(CancelTimers(EntryFor(i)), TRUE, d.stale))
  /\ Emit({f}, OutgoingData(d, {f}))

\* An entry that is pending already is not looked up in the Content Store; a
\* Data in cs may have been evicted or be too old, so a miss is always possible.
ContentStoreMiss(f, i) ==
  /\ Accepts(f, i)
  /\ \E r \in AfterMiss(Key(i), CancelTimers(EntryFor(i)), f, i) :
       /\ pit' = Put(pit, Key(i), r.entry)
       /\ Emit({f}, r.sent)

-----------------------------------------------------------------------------
(* onIncomingData                                                          *)

DeadName(k, nonce) == [name |-> k.name, word |-> NoWord, nonce |-> nonce]

\* The keys of pit.findAllDataMatches
DataMatches(d) == {k \in DOMAIN pit : k.name \in PrefixesOf[d.name]}

\* onDataUnsolicited
UnsolicitedData(f, d) ==
  /\ Arrival(f) /\ Received
  /\ ~IsLocalhostViolation(f, d.name)
  /\ DataMatches(d) = {}
  /\ cs' = IF f \in AdmittedFaces THEN cs \cup {d} ELSE cs
  /\ Emit({}, {})
  /\ UNCHANGED <<pit, dnl>>

Satisfied(e, f, d) ==
  [SetStragglerTimer(CancelTimers(e), TRUE, d.stale) EXCEPT
     !.ins = NoRecords, !.outs = Drop(e.outs, f)]

\* mutant of PendingDownstreams: expired in-records count
AllDownstreams(d) ==
  {g \in Faces : \E k \in DataMatches(d) : g \in DOMAIN pit[k].ins}

PendingDownstreams(d) ==
  {g \in Faces : \E k \in DataMatches(d) :
     g \in DOMAIN pit[k].ins /\ pit[k].ins[g].expiry > now}

SolicitedData(f, d) ==
  /\ Arrival(f) /\ Received
  /\ ~IsLocalhostViolation(f, d.name)
  /\ DataMatches(d) # {}
  /\ cs' = cs \cup {d}
  /\ pit' = [k \in DOMAIN pit |-> IF k \in DataMatches(d) THEN Satisfied(pit[k], f, d)
                                  ELSE pit[k]]
  /\ dnl' = dnl \cup {DeadName(k, pit[k].outs[f].nonce) :
                       k \in {l \in DataMatches(d) :
                               l.fresh /\ d.stale /\ f \in DOMAIN pit[l].outs}}
  /\ Emit({}, OutgoingData(d, PendingDownstreams(d) \ {f}))

DataViolatesScope(f, d) ==
  /\ Arrival(f) /\ UNCHANGED events
  /\ IsLocalhostViolation(f, d.name)
  /\ Emit({}, {})
  /\ UNCHANGED <<pit, cs, dnl>>

-----------------------------------------------------------------------------
(* onIncomingNack                                                          *)

\* The Nack carries the Interest as the upstream has it.  An entry is found
\* only when that name has no "/queried" part, which no entry's name has.
NackMatches(f, k, w, nonce) ==
  /\ f \notin MultiAccessFaces
  /\ w = NoWord /\ k \in DOMAIN pit
  /\ f \in DOMAIN pit[k].outs /\ pit[k].outs[f].nonce = nonce

DropNack(f, k, w, nonce) ==
  /\ Arrival(f) /\ UNCHANGED events
  /\ ~NackMatches(f, k, w, nonce)
  /\ Emit({}, {})
  /\ UNCHANGED <<pit, cs, dnl>>

AcceptNack(f, k, w, nonce, reason) ==
  /\ Arrival(f) /\ Received
  /\ NackMatches(f, k, w, nonce)
  /\ LET e == SetIncomingNack(pit[k], f, reason)
     IN  \E d \in AfterReceiveNack(StrategyOf[k.name], e) : \E r \in Perform(k, e, d) :
           /\ pit' = Put(pit, k, r.entry)
           /\ Emit({}, r.sent)
  /\ UNCHANGED <<cs, dnl>>

-----------------------------------------------------------------------------
(* Timers                                                                  *)

\* onInterestFinalize
Finalize(k, needDnl) ==
  /\ dnl' = IF needDnl
            THEN dnl \cup {DeadName(k, pit[k].outs[f].nonce) : f \in DOMAIN pit[k].outs}
            ELSE dnl
  /\ pit' = Drop(pit, k)
  /\ Emit({}, {})
  /\ UNCHANGED <<now, faces, fib, cs, events>>

\* onInterestUnsatisfied
UnsatisfyTimer(k) ==
  /\ k \in DOMAIN pit
  /\ pit[k].unsatisfy # NEVER /\ pit[k].unsatisfy <= now
  /\ Finalize(k, TRUE)

StragglerTimer(k) ==
  /\ k \in DOMAIN pit
  /\ pit[k].straggler.at # NEVER /\ pit[k].straggler.at <= now
  /\ Finalize(k, pit[k].straggler.satisfied => k.fresh /\ pit[k].straggler.stale)

Tick ==
  /\ now < MaxTime
  /\ now' = now + 1
  /\ sent' = {}
  /\ UNCHANGED <<faces, fib, pit, cs, dnl, credit, events>>

-----------------------------------------------------------------------------
(* Changes of the tables from outside the pipelines                        *)

Change ==
  /\ now <= LastArrival /\ events < MaxEvents
  /\ events' = events + 1
  /\ Emit({}, {})
  /\ UNCHANGED <<now, cs>>

\* cleanupOnFaceRemoval, on the signal beforeRemove of the face table
RemoveFace(f) ==
  /\ f \in faces
  /\ Change
  /\ faces' = faces \ {f}
  /\ fib' = [n \in Names |-> Drop(fib[n], f)]
  /\ pit' = [k \in DOMAIN pit |-> DeleteInOutRecords(pit[k], f)]
  /\ UNCHANGED dnl

\* Fib::insert and fib::Entry::addNextHop
AddNextHop(n, f, c) ==
  /\ f \in faces
  /\ Change
  /\ fib' = [fib EXCEPT ![n] = Put(@, f, c)]
  /\ UNCHANGED <<faces, pit, dnl>>

\* Fib::removeNextHop
RemoveNextHop(n, f) ==
  /\ f \in DOMAIN fib[n]
  /\ Change
  /\ fib' = [fib EXCEPT ![n] = Drop(@, f)]
  /\ UNCHANGED <<faces, pit, dnl>>

\* The Dead Nonce List forgets an entry (module DeadNonceList)
ForgetNonce(x) ==
  /\ x \in dnl
  /\ Change
  /\ dnl' = dnl \ {x}
  /\ UNCHANGED <<faces, fib, pit>>

-----------------------------------------------------------------------------

Init ==
  /\ now = 0
  /\ faces = Faces
  /\ fib = InitialFib
  /\ pit = NoRecords
  /\ cs = {} /\ dnl = {} /\ sent = {}
  /\ credit = [f \in Faces |-> 0]
  /\ events = 0

ReceiveInterest(f, i) ==
  \/ InterestViolatesScope(f, i)
  \/ LoopInDeadNonceList(f, i)
  \/ LoopInPit(f, i)
  \/ \E d \in cs : ContentStoreHit(f, i, d)
  \/ ContentStoreMiss(f, i)

ReceiveData(f, d) ==
  DataViolatesScope(f, d) \/ UnsolicitedData(f, d) \/ SolicitedData(f, d)

ReceiveNack(f, k, w, nonce) ==
  \/ DropNack(f, k, w, nonce)
  \/ \E reason \in NackReasons : AcceptNack(f, k, w, nonce, reason)

ChangeTopology ==
  \/ \E f \in RemovableFaces : RemoveFace(f)
  \/ \E n \in Changeable, f \in Faces, c \in Costs : AddNextHop(n, f, c)
  \/ \E n \in Changeable, f \in Faces : RemoveNextHop(n, f)
  \/ \E x \in dnl : ForgetNonce(x)

Next ==
  \/ \E f \in Faces, i \in Interests : ReceiveInterest(f, i)
  \/ \E f \in Faces, d \in Datas : ReceiveData(f, d)
  \/ \E f \in Faces, k \in Keys, w \in Words \cup {NoWord}, nonce \in Nonces :
       ReceiveNack(f, k, w, nonce)
  \/ \E k \in Keys : UnsatisfyTimer(k) \/ StragglerTimer(k)
  \/ Tick
  \/ ChangeTopology

Spec == Init /\ [][Next]_vars

\* The clock advances and the event loop gets to every timer that is due.
Fairness ==
  /\ WF_vars(Tick)
  /\ \A k \in Keys : WF_vars(UnsatisfyTimer(k)) /\ WF_vars(StragglerTimer(k))

FairSpec == Spec /\ Fairness

-----------------------------------------------------------------------------
(* Properties                                                              *)

TypeOK ==
  /\ now \in Nat
  /\ faces \subseteq Faces
  /\ DOMAIN fib = Names /\ \A n \in Names : IsPartialFunction(fib[n], Faces, Costs)
  /\ DOMAIN pit \subseteq Keys /\ \A k \in DOMAIN pit : IsEntry(pit[k])
  /\ cs \subseteq Data
  /\ dnl \subseteq FullName
  /\ credit \in [Faces -> Int]
  /\ events \in Nat

\* Between two steps every entry has exactly one of its timers scheduled: it
\* can neither stay in the table for ever nor be finalized twice
\* (table/pit-entry.hpp, "Either this or the straggler timer should be set at
\* all times").
OneTimerPending ==
  \A k \in DOMAIN pit : (pit[k].unsatisfy = NEVER) # (pit[k].straggler.at = NEVER)

\* the entries that have an in-record of f
Waiting(table, f) == {k \in DOMAIN table : f \in DOMAIN table[k].ins}

\* Flow balance: whatever retransmissions, Nacks, prefix matches and timers do,
\* a face is never sent more Data and Nacks than it sent Interests, and each of
\* its in-records is still covered by an Interest that was not answered.
FlowBalance == \A f \in Faces : credit[f] >= Cardinality(Waiting(pit, f))

\* An entry does not expire before the last of its in-records does: the
\* unsatisfy timer is re-armed by every Interest that prolongs the entry.
UnsatisfyTimerCoversInRecords ==
  \A k \in DOMAIN pit : pit[k].unsatisfy # NEVER =>
    \A f \in DOMAIN pit[k].ins : pit[k].ins[f].expiry <= pit[k].unsatisfy

\* While the straggler timer runs the entry is not wanted any more: it was
\* satisfied and has no downstream, or it was rejected and waits for no upstream.
StragglerEntryIsSettled ==
  \A k \in DOMAIN pit : pit[k].straggler.at # NEVER =>
    IF pit[k].straggler.satisfied THEN pit[k].ins = NoRecords
    ELSE ~HasPendingOutRecords(pit[k], now)

\* Packets under ndn:/localhost stay on local faces, Nacks included, which no
\* pipeline checks: they follow in-records, which only local faces have.
LocalhostStaysLocal ==
  /\ \A p \in sent : p.name \in LocalhostNames => p.face \in LocalFaces
  /\ \A k \in DOMAIN pit : k.name \in LocalhostNames =>
       DOMAIN pit[k].ins \cup DOMAIN pit[k].outs \subseteq LocalFaces

\* An Interest under ndn:/localhop leaves the node only while a local face waits
\* for its answer: one that came from the network is not taken a hop further.
LocalhopIsOneHop ==
  [][\A p \in sent' :
       p.type = "interest" /\ p.name \in LocalhopNames /\ p.face \notin LocalFaces =>
         \E k \in DOMAIN pit' :
           k.name = p.name /\ DOMAIN pit'[k].ins \cap LocalFaces # {}]_vars

\* Queries for different words share an entry, and sending one renames it.  However
\* often it was sent before, a query leaves with the word it came with, or with the
\* one that its own name is fuzzed to; and a Nack that uses up an in-record goes
\* back without a word, or the downstream would not find its entry (NackMatches).
QueryKeepsItsWord ==
  [][/\ \A p \in sent' : p.type = "interest" =>
          \E k \in DOMAIN pit' : k.name = p.name /\
            \E g \in DOMAIN pit'[k].ins :
              /\ pit'[k].ins[g].nonce = p.nonce
              /\ p.name \in QueryNames =>
                   \/ p.word # NoWord /\ p.word = pit'[k].ins[g].word
                   \/ pit'[k].ins[g].word = NoWord /\ p.word = FuzzWord[p.name]
     /\ \A p \in sent' : p.type = "nack" /\ pit' # pit => p.word = NoWord]_vars

\* No table holds on to a face that left the face table: the records point to
\* faces that cleanupOnFaceRemoval has to forget before they are destroyed.
NoDanglingFace ==
  /\ \A k \in DOMAIN pit : DOMAIN pit[k].ins \cup DOMAIN pit[k].outs \subseteq faces
  /\ \A n \in Names : DOMAIN fib[n] \subseteq faces

\* A downstream that still waits is let go only with an answer, by its own
\* removal, by its own Data, by Data for a longer name that must not leave the
\* host, or when a strategy had rejected the entry.
NoSilentLoss ==
  [][\A k \in DOMAIN pit : \A f \in DOMAIN pit[k].ins :
       \/ pit[k].ins[f].expiry <= now
       \/ k \in DOMAIN pit' /\ f \in DOMAIN pit'[k].ins
       \/ f \in Answers(sent')
       \/ f \notin faces'
       \/ \E d \in Datas : SolicitedData(f, d)
       \/ \E d \in Datas : /\ IsLocalhostViolation(f, d.name)
                           /\ k.name \in PrefixesOf[d.name]
                           /\ \E g \in Faces : SolicitedData(g, d)
       \/ pit[k].straggler.at # NEVER]_vars

\* Data goes only where it was asked for: to the face whose Interest is being
\* answered from the Content Store or to faces with an unexpired in-record.
DataFollowsInterest ==
  [][\A p \in sent' : p.type = "data" =>
       \/ credit'[p.face] = credit[p.face]
       \/ \E k \in DOMAIN pit : /\ k.name \in PrefixesOf[p.name]
                               /\ p.face \in DOMAIN pit[k].ins
                               /\ pit[k].ins[p.face].expiry > now
                               /\ k \in DOMAIN pit' /\ pit'[k].ins = NoRecords]_vars

\* The Nonce last sent to an upstream is not sent to it again while the entry
\* lives: the upstream would take the Interest for a loop.
FreshNonceUpstream ==
  [][\A p \in sent' : p.type = "interest" =>
       \A k \in DOMAIN pit :
         k.name = p.name /\ p.face \in DOMAIN pit[k].outs /\ pit'[k] # pit[k] =>
           pit[k].outs[p.face].nonce # p.nonce]_vars

\* A Nonce on the Dead Nonce List is not forwarded under that name: the list
\* and the PIT together keep an Interest that left and comes back from looping.
DeadNonceNotForwarded ==
  [][\A p \in sent' : p.type = "interest" =>
       [name |-> p.name, word |-> NoWord, nonce |-> p.nonce] \notin dnl]_vars

\* Best-route answers its downstreams as soon as every upstream has returned a
\* Nack for the last Interest it was sent (fw/best-route-strategy2.hpp); only
\* multi-access faces, which get no Nacks, keep their in-records.  When the one
\* upstream that has not answered yet is removed, cleanupOnFaceRemoval tells no
\* strategy, and the downstreams wait for the unsatisfy timer (PitDrains).
AllNackedIsAnswered ==
  \A k \in DOMAIN pit :
    /\ StrategyOf[k.name] = "best-route-v4"
    /\ pit[k].outs # NoRecords
    /\ \A f \in DOMAIN pit[k].outs : pit[k].outs[f].answered
    /\ faces = Faces
    => DOMAIN pit[k].ins \subseteq MultiAccessFaces

\* Every entry leaves the table: no path through the pipelines leaves an entry
\* behind that no timer removes.
PitDrains == \A k \in Keys : (k \in DOMAIN pit) ~> (k \notin DOMAIN pit)

\* "A non-null return value means the last outgoing Interest has been NACKed"
\* (table/pit-out-record.hpp): a recorded Nack is one for the Interest last sent.
NackIsForLastInterest ==
  \A k \in DOMAIN pit : \A f \in DOMAIN pit[k].outs :
    pit[k].outs[f].nack # NoNack => pit[k].outs[f].answered

\* "This strategy returns Nack to all downstreams with reason NoRoute if there
\* is no usable nexthop" (fw/best-route-strategy2.hpp): when one downstream is
\* told that there is no route, none of the others stays behind.
NoRouteToAllDownstreams ==
  [][\A p \in sent' : p.type = "nack" /\ p.reason = NO_ROUTE =>
       \A k \in DOMAIN pit' :
         k.name = p.name /\ pit'[k].straggler.at # NEVER =>
           DOMAIN pit'[k].ins \subseteq MultiAccessFaces]_vars

\* "When a Nonce is erased (dead) from PIT entry, the Nonce and the Interest
\* Name is added to Dead Nonce List" (table/dead-nonce-list.hpp), for an entry
\* that is not satisfied: a Nonce that was sent to an upstream is still known.
ErasedNonceIsDead ==
  [][\A k \in DOMAIN pit : \A f \in DOMAIN pit[k].outs :
       LET nonce == pit[k].outs[f].nonce
       IN  \/ k \in DOMAIN pit' /\ HasDuplicateNonce(pit'[k], nonce)
           \/ \E d \in Datas : SolicitedData(f, d)
           \/ pit[k].straggler.satisfied
           \/ DeadName(k, nonce) \in dnl']_vars

=============================================================================
