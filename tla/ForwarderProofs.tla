--------------------------- MODULE ForwarderProofs ---------------------------
(* Theorems about module Forwarder, for every value of its constants.        *)
EXTENDS Forwarder, FiniteSetTheorems, TLAPS

-----------------------------------------------------------------------------
(* What the pipelines do to one entry                                        *)

\* The empty record list has every type.
LEMMA NoRecordsType ==
  ASSUME NEW S, NEW T
  PROVE  IsPartialFunction(NoRecords, S, T) /\ DOMAIN NoRecords = {}
BY DEF IsPartialFunction, NoRecords

\* Once the Interest is restored, its in-record is what it was.
LEMMA RestoredIsSame ==
  ASSUME NEW n, NEW q \in InRecord
  PROVE  Restored(n, q) = q
<1>1. CASE n \notin QueryNames
  BY <1>1 DEF Restored, Renamed, InRecord
<1>2. CASE n \in QueryNames
  <2> DEFINE w == IF q.word # NoWord THEN q.word
                  ELSE FuzzWord[IF q.shown = NoWord THEN n ELSE q.shown]
             q1 == [q EXCEPT !.shown = w]
  <2>1. Renamed(n, q) = q1
    BY <1>2 DEF Renamed
  <2> HIDE DEF w
  <2>2. [q1 EXCEPT !.shown = q.shown] = q
    BY DEF InRecord
  <2> QED BY <2>1, <2>2 DEF Restored
<1> QED BY <1>1, <1>2

\* To be renamed does not change the Nonce.
LEMMA RenamedNonce ==
  ASSUME NEW n, NEW q \in InRecord
  PROVE  Renamed(n, q).nonce = q.nonce
<1> DEFINE w == IF q.word # NoWord THEN q.word
                ELSE FuzzWord[IF q.shown = NoWord THEN n ELSE q.shown]
<1>1. Renamed(n, q) = q \/ Renamed(n, q) = [q EXCEPT !.shown = w]
  BY DEF Renamed
<1> HIDE DEF w
<1> QED BY <1>1 DEF InRecord

\* The faces of T that onOutgoingInterest sends to.
Allowed(k, e, T) == {f \in T \cap faces : ~ViolatesScope(e, k.name, f)}

\* r is what comes of the choice p of in-records when every name is restored.
Sends(k, e, out, p, r) ==
  /\ p \in [out -> DOMAIN e.ins]
  /\ \A f \in out : p[f] \in PickedInRecord(e, f)
  /\ r = [entry |-> [e EXCEPT !.outs =
                     [f \in DOMAIN e.outs \cup out |->
                        IF f \in out THEN UpdatedOutRecord(e, f, e.ins[p[f]], now)
                        ELSE e.outs[f]]],
          sent |-> {InterestPacket(f, k, Renamed(k.name, e.ins[p[f]])) : f \in out}]

\* What onOutgoingInterest leaves behind.
LEMMA OutgoingInterestShape ==
  ASSUME NEW k, NEW e, IsEntry(e), NEW T, NEW r \in OutgoingInterest(k, e, T)
  PROVE  \E p : Sends(k, e, Allowed(k, e, T), p, r)
<1> DEFINE out == {f \in T \cap faces : ~ViolatesScope(e, k.name, f)}
           Picks == {p \in [out -> DOMAIN e.ins] :
                       \A f \in out : p[f] \in PickedInRecord(e, f)}
           ins(p) == [g \in DOMAIN e.ins |->
                        IF g \in {p[f] : f \in out} THEN Restored(k.name, e.ins[g])
                        ELSE e.ins[g]]
           outs(p) == [f \in DOMAIN e.outs \cup out |->
                         IF f \in out THEN UpdatedOutRecord(e, f, e.ins[p[f]], now)
                         ELSE e.outs[f]]
           sends(p) == {InterestPacket(f, k, Renamed(k.name, e.ins[p[f]])) : f \in out}
<1>1. PICK p \in Picks :
        r = [entry |-> [e EXCEPT !.ins = ins(p), !.outs = outs(p)], sent |-> sends(p)]
  BY DEF OutgoingInterest
<1>2. /\ e \in [ins : {e.ins}, outs : {e.outs}, unsatisfy : Times \cup {NEVER},
                straggler : Straggler, retx : RetxInitial .. RetxMax]
      /\ e.ins \in [DOMAIN e.ins -> InRecord]
  BY DEF IsEntry, IsPartialFunction
<1>3. ins(p) = e.ins
  <2>1. \A g \in DOMAIN e.ins : Restored(k.name, e.ins[g]) = e.ins[g]
    BY <1>2, RestoredIsSame
  <2> QED BY <1>2, <2>1
<1> HIDE DEF ins
<1>4. [e EXCEPT !.ins = ins(p), !.outs = outs(p)] = [e EXCEPT !.outs = outs(p)]
  <2> HIDE DEF outs
  <2> QED BY <1>2, <1>3
<1>5. r = [entry |-> [e EXCEPT !.outs = outs(p)], sent |-> sends(p)]
  BY <1>1, <1>4
<1>6. Sends(k, e, out, p, r)
  BY <1>5 DEF Sends
<1>7. Allowed(k, e, T) = out
  BY DEF Allowed
<1> HIDE DEF out
<1> QED BY <1>6, <1>7

\* onOutgoingInterest touches the out-records only, adds them for faces that
\* are in the face table and allowed by the scope, and sends Interests to them.
OnlyForwards(k, e, r) ==
  /\ IsEntry(r.entry)
  /\ r.entry.ins = e.ins /\ r.entry.unsatisfy = e.unsatisfy
  /\ r.entry.straggler = e.straggler /\ r.entry.retx = e.retx
  /\ \A f \in DOMAIN r.entry.outs :
       f \in DOMAIN e.outs \/ (f \in faces /\ ~ViolatesScope(e, k.name, f))
  /\ \A p \in r.sent : /\ p.type = "interest" /\ p.name = k.name
                      /\ p.face \in faces /\ ~ViolatesScope(e, k.name, p.face)

\* OutgoingInterest has outcomes of that kind only.
LEMMA OutgoingInterestFacts ==
  ASSUME now \in Nat, NEW k, NEW e, IsEntry(e), NEW T,
         faces \subseteq Faces, NEW r \in OutgoingInterest(k, e, T)
  PROVE  OnlyForwards(k, e, r)
<1> DEFINE out == Allowed(k, e, T)
<1>1. PICK p : Sends(k, e, out, p, r)
  BY OutgoingInterestShape
<1> DEFINE outs == [f \in DOMAIN e.outs \cup out |->
                      IF f \in out THEN UpdatedOutRecord(e, f, e.ins[p[f]], now)
                      ELSE e.outs[f]]
<1>2. ASSUME NEW f \in out
      PROVE  UpdatedOutRecord(e, f, e.ins[p[f]], now) \in OutRecord
  <2>1. e.ins[p[f]] \in InRecord
    BY <1>1 DEF Sends, IsEntry, IsPartialFunction
  <2>2. f \in DOMAIN e.outs => e.outs[f] \in OutRecord
    BY DEF IsEntry, IsPartialFunction
  <2> QED BY <2>1, <2>2 DEF UpdatedOutRecord, InRecord, OutRecord, Times, NoNack
<1>3. IsPartialFunction(outs, Faces, OutRecord)
  BY <1>2 DEF IsEntry, IsPartialFunction, Allowed
<1>4. /\ r.entry = [e EXCEPT !.outs = outs]
      /\ r.sent = {InterestPacket(f, k, Renamed(k.name, e.ins[p[f]])) : f \in out}
  BY <1>1 DEF Sends
<1>5. /\ r.entry.ins = e.ins /\ r.entry.outs = outs
      /\ r.entry.unsatisfy = e.unsatisfy /\ r.entry.straggler = e.straggler
      /\ r.entry.retx = e.retx
      /\ r.entry \in [ins : {e.ins}, outs : {outs}, unsatisfy : Times \cup {NEVER},
                      straggler : Straggler, retx : RetxInitial .. RetxMax]
  BY <1>4 DEF IsEntry
<1>6. IsEntry(r.entry)
  BY <1>3, <1>5 DEF IsEntry
<1>7. \A q \in r.sent : /\ q.type = "interest" /\ q.name = k.name
                      /\ q.face \in faces /\ ~ViolatesScope(e, k.name, q.face)
  BY <1>4 DEF InterestPacket, Allowed
<1>8. \A f \in DOMAIN outs : f \in DOMAIN e.outs \/ (f \in faces /\ ~ViolatesScope(e, k.name, f))
  BY DEF Allowed
<1> HIDE DEF outs
<1> QED BY <1>5, <1>6, <1>7, <1>8 DEF OnlyForwards

\* Cancelling the timers of an entry leaves an entry.
LEMMA CancelTimersType ==
  ASSUME NEW e, IsEntry(e)
  PROVE  /\ IsEntry(CancelTimers(e))
         /\ CancelTimers(e).ins = e.ins /\ CancelTimers(e).outs = e.outs
         /\ CancelTimers(e).unsatisfy = NEVER /\ CancelTimers(e).straggler = NoStraggler
BY DEF IsEntry, CancelTimers, Straggler, NoStraggler

\* Setting the straggler timer leaves an entry with that timer pending.
LEMMA SetStragglerTimerType ==
  ASSUME NEW e, IsEntry(e), NEW b1 \in BOOLEAN, NEW b2 \in BOOLEAN, now \in Nat
  PROVE  /\ IsEntry(SetStragglerTimer(e, b1, b2))
         /\ SetStragglerTimer(e, b1, b2).ins = e.ins
         /\ SetStragglerTimer(e, b1, b2).outs = e.outs
         /\ SetStragglerTimer(e, b1, b2).unsatisfy = e.unsatisfy
         /\ SetStragglerTimer(e, b1, b2).straggler.at \in Nat
         /\ SetStragglerTimer(e, b1, b2).straggler.satisfied = b1
<1>1. now + StragglerTime \in Nat
  BY ForwarderAssumption
<1> QED BY <1>1 DEF IsEntry, SetStragglerTimer, Straggler, Times

\* onInterestReject: the straggler timer replaces the unsatisfy timer, unless
\* an upstream may still answer.
LEMMA InterestRejectFacts ==
  ASSUME NEW e, IsEntry(e), now \in Nat
  PROVE  /\ IsEntry(InterestReject(e))
         /\ InterestReject(e).ins = e.ins /\ InterestReject(e).outs = e.outs
         /\ \/ InterestReject(e) = e
            \/ /\ InterestReject(e).unsatisfy = NEVER
               /\ InterestReject(e).straggler.at \in Nat
               /\ InterestReject(e).straggler.satisfied = FALSE
               /\ ~HasPendingOutRecords(e, now)
<1> DEFINE e1 == CancelTimers(e)
           e2 == SetStragglerTimer(e1, FALSE, FALSE)
<1>1. /\ IsEntry(e1) /\ e1.ins = e.ins /\ e1.outs = e.outs /\ e1.unsatisfy = NEVER
  BY CancelTimersType
<1> HIDE DEF e1
<1>2. /\ IsEntry(e2) /\ e2.ins = e1.ins /\ e2.outs = e1.outs
      /\ e2.unsatisfy = e1.unsatisfy
      /\ e2.straggler.at \in Nat /\ e2.straggler.satisfied = FALSE
  BY <1>1, SetStragglerTimerType
<1> HIDE DEF e2
<1>3. InterestReject(e) = IF HasPendingOutRecords(e, now) THEN e ELSE e2
  BY DEF e1, e2, InterestReject
<1> QED BY <1>1, <1>2, <1>3

\* A strategy's actions on an entry: only downstreams that get a Nack lose their
\* in-record, and the timers change only when the entry is rejected.
Performs(k, e, r) ==
  /\ IsEntry(r.entry)
  /\ Answers(r.sent) \subseteq faces \cap DOMAIN e.ins
  /\ DOMAIN r.entry.ins = DOMAIN e.ins \ Answers(r.sent)
  /\ \A f \in DOMAIN r.entry.ins : r.entry.ins[f] = e.ins[f]
  /\ \A f \in DOMAIN r.entry.outs :
       f \in DOMAIN e.outs \/ (f \in faces /\ ~ViolatesScope(e, k.name, f))
  /\ \/ /\ r.entry.unsatisfy = e.unsatisfy
        /\ r.entry.straggler = e.straggler
     \/ /\ r.entry.unsatisfy = NEVER
        /\ r.entry.straggler.at \in Nat /\ r.entry.straggler.satisfied = FALSE
        /\ ~HasPendingOutRecords(r.entry, now)
  /\ \A p \in r.sent :
       /\ p.name = k.name /\ p.face \in faces
       /\ \/ p.face \in DOMAIN e.ins
          \/ ~ViolatesScope(e, k.name, p.face)

\* What carrying out a decision of a strategy may do to the entry.
LEMMA PerformFacts ==
  ASSUME now \in Nat, NEW k, NEW e, IsEntry(e), faces \subseteq Faces,
         NEW d, d.retx \in RetxInitial .. RetxMax, NEW r \in Perform(k, e, d)
  PROVE  Performs(k, e, r)
<1>1. PICK q \in OutgoingInterest(k, e, d.targets) : r = ThenNackAndReject(k, q, d)
  BY DEF Perform
<1>2. OnlyForwards(k, e, q)
  BY OutgoingInterestFacts
<1> DEFINE nacked == NackableFaces(q.entry, d.nackTo)
           ins1 == Restrict(q.entry.ins, DOMAIN q.entry.ins \ nacked)
           e1 == [WithoutInRecords(q.entry, nacked) EXCEPT !.retx = d.retx]
           nacks == {NackPacket(f, k.name, q.entry.ins[f].shown, q.entry.ins[f].nonce,
                                d.reason) : f \in nacked}
<1>3. /\ r.entry = IF d.reject THEN InterestReject(e1) ELSE e1
      /\ r.sent = q.sent \cup nacks
  BY <1>1 DEF ThenNackAndReject
<1>4. nacked \subseteq faces \cap DOMAIN e.ins
  BY <1>2 DEF NackableFaces, OnlyForwards
<1>5. /\ IsPartialFunction(ins1, Faces, InRecord)
      /\ DOMAIN ins1 = DOMAIN e.ins \ nacked
      /\ \A f \in DOMAIN ins1 : ins1[f] = e.ins[f]
  <2>1. IsPartialFunction(q.entry.ins, Faces, InRecord) /\ q.entry.ins = e.ins
    BY <1>2 DEF IsEntry, OnlyForwards
  <2> HIDE DEF nacked
  <2>2. /\ IsPartialFunction(ins1, Faces, InRecord)
        /\ DOMAIN ins1 = DOMAIN q.entry.ins \ nacked
        /\ \A f \in DOMAIN q.entry.ins \ nacked : ins1[f] = q.entry.ins[f]
    BY <2>1 DEF IsPartialFunction, Restrict
  <2> QED BY <2>1, <2>2
<1>6. /\ e1.ins = ins1 /\ e1.outs = q.entry.outs /\ e1.unsatisfy = e.unsatisfy
      /\ e1.straggler = e.straggler /\ IsEntry(e1)
  BY <1>2, <1>5 DEF IsEntry, WithoutInRecords, OnlyForwards
<1> HIDE DEF e1
<1>7. /\ IsEntry(r.entry) /\ r.entry.ins = ins1 /\ r.entry.outs = q.entry.outs
      /\ \/ /\ r.entry.unsatisfy = e.unsatisfy
            /\ r.entry.straggler = e.straggler
         \/ /\ r.entry.unsatisfy = NEVER
            /\ r.entry.straggler.at \in Nat /\ r.entry.straggler.satisfied = FALSE
            /\ ~HasPendingOutRecords(r.entry, now)
  <2>1. CASE d.reject
    <3>1. r.entry = InterestReject(e1)
      BY <1>3, <2>1
    <3>2. ~HasPendingOutRecords(e1, now) /\ r.entry.outs = e1.outs
            => ~HasPendingOutRecords(r.entry, now)
      BY DEF HasPendingOutRecords
    <3> QED BY <1>6, <3>1, <3>2, InterestRejectFacts
  <2>2. CASE ~d.reject
    BY <1>3, <1>6, <2>2
  <2> QED BY <2>1, <2>2
<1>8. \A p \in nacks : p.type = "nack" /\ p.name = k.name /\ p.face \in nacked
  BY DEF NackPacket
<1>9. \A f \in nacked : \E p \in nacks : p.face = f
  <2> SUFFICES ASSUME NEW f \in nacked PROVE \E p \in nacks : p.face = f
    OBVIOUS
  <2> DEFINE p == NackPacket(f, k.name, q.entry.ins[f].shown, q.entry.ins[f].nonce, d.reason)
  <2>1. p \in nacks /\ p.face = f
    BY DEF NackPacket
  <2> QED BY <2>1
<1> HIDE DEF nacked, nacks, ins1
<1>10. Answers(r.sent) = nacked
  <2>1. \A p \in nacks : p \in r.sent /\ p.type # "interest"
    BY <1>3, <1>8
  <2>2. \A p \in r.sent : p.type # "interest" => p.face \in nacked
    BY <1>2, <1>3, <1>8 DEF OnlyForwards
  <2> QED BY <1>9, <2>1, <2>2 DEF Answers
<1>11. \A p \in r.sent :
         /\ p.name = k.name /\ p.face \in faces
         /\ p.face \in DOMAIN e.ins \/ ~ViolatesScope(e, k.name, p.face)
  BY <1>2, <1>3, <1>4, <1>8 DEF OnlyForwards
<1>12. \A f \in DOMAIN q.entry.outs :
         f \in DOMAIN e.outs \/ (f \in faces /\ ~ViolatesScope(e, k.name, f))
  BY <1>2 DEF OnlyForwards
<1> QED BY <1>4, <1>5, <1>7, <1>10, <1>11, <1>12 DEF Performs

-----------------------------------------------------------------------------
(* What the strategies decide                                                *)

\* Whatever a strategy decides, the suppression interval stays in its range: a
\* back-off never exceeds RETX_SUPPRESSION_MAX.
LEMMA RetxAfterInterest ==
  ASSUME NEW e, IsEntry(e), NEW s \in StrategyNames, NEW n, NEW hops, NEW f, NEW t,
         NEW d \in AfterReceiveInterest(s, e, n, hops, f, t)
  PROVE  d.retx \in RetxInitial .. RetxMax
<1>1. e.retx \in RetxInitial .. RetxMax
  BY DEF IsEntry
<1>2. Wait(e).retx = e.retx /\ Reject(e).retx = e.retx /\ \A T : SendTo(e, T).retx = e.retx
  BY DEF Wait, Reject, SendTo
<1>3. CASE s \in {"best-route", "client-control"}
  <2>1. d \in BestRouteAfterInterest(e, n, hops, t)
    BY <1>3 DEF AfterReceiveInterest
  <2> QED BY <1>1, <1>2, <2>1 DEF BestRouteAfterInterest
<1>4. CASE s = "multicast"
  <2>1. d = [SendTo(e, UsableHops(e, n, hops, t)) EXCEPT !.reject = TRUE]
    BY <1>4 DEF AfterReceiveInterest, MulticastAfterInterest
  <2> QED BY <1>1, <2>1 DEF SendTo, Wait
<1>5. CASE s = "best-route-v4"
  <2>1. d \in BestRoute2AfterInterest(e, n, hops, f, t)
    BY <1>5 DEF AfterReceiveInterest
  <2>2. CASE d \in {Wait(e)}
    BY <1>1, <1>2, <2>2
  <2>3. CASE d \in BestRoute2AfterNew(e, n, hops, f)
    <3>1. [Reject(e) EXCEPT !.nackTo = {f}, !.reason = NO_ROUTE].retx = e.retx
      BY DEF Reject, Wait
    <3> QED BY <1>1, <1>2, <2>3, <3>1 DEF BestRoute2AfterNew
  <2>4. CASE d \in BestRoute2AfterRetx(BackOff(e), n, hops, f, t)
    <3> DEFINE b == BackOff(e)
    <3>1. b.retx \in RetxInitial .. RetxMax
      BY <1>1, ValuesAssumption DEF BackOff, IsEntry
    <3> HIDE DEF b
    <3>2. Wait(b).retx = b.retx /\ \A T : SendTo(b, T).retx = b.retx
      BY DEF Wait, SendTo
    <3>3. d = Wait(b) \/ \E T : d = SendTo(b, T)
      BY <2>4 DEF BestRoute2AfterRetx, b
    <3> QED BY <3>1, <3>2, <3>3
  <2> QED BY <2>1, <2>2, <2>3, <2>4 DEF BestRoute2AfterInterest
<1> QED BY <1>3, <1>4, <1>5 DEF StrategyNames

\* A strategy's decision after a Nack keeps the suppression interval.
LEMMA RetxAfterNack ==
  ASSUME NEW e, IsEntry(e), NEW s, NEW d \in AfterReceiveNack(s, e)
  PROVE  d.retx = e.retx /\ d.targets = {}
<1> DEFINE w == Wait(e)
<1>1. w \in [targets : {{}}, nackTo : {{}}, reason : {NONE}, reject : {FALSE},
             retx : {e.retx}]
  BY DEF Wait
<1> HIDE DEF w
<1>2. w.retx = e.retx /\ w.targets = {}
  BY <1>1
<1>3. CASE d = w
  BY <1>2, <1>3
<1>4. CASE \E D, R : d = [w EXCEPT !.nackTo = D, !.reason = R]
  <2> PICK D, R : d = [w EXCEPT !.nackTo = D, !.reason = R]
    BY <1>4
  <2> QED BY <1>1, <1>2
<1>5. d = w \/ \E D, R : d = [w EXCEPT !.nackTo = D, !.reason = R]
  BY DEF AfterReceiveNack, BestRoute2AfterNack, w
<1> QED BY <1>3, <1>4, <1>5

-----------------------------------------------------------------------------
(* onContentStoreMiss                                                        *)

\* The entry onContentStoreMiss hands to the strategy: the in-record is in it and
\* the unsatisfy timer covers all in-records.
Armed(e, f, e2) ==
  /\ IsEntry(e2)
  /\ DOMAIN e2.ins = DOMAIN e.ins \cup {f} /\ e2.outs = e.outs
  /\ e2.unsatisfy \in Nat /\ e2.straggler = e.straggler
  /\ \A g \in DOMAIN e2.ins : e2.ins[g].expiry <= e2.unsatisfy

\* After the in-record is inserted the unsatisfy timer can be set, and covers it.
LEMMA ArmedEntry ==
  ASSUME now \in Nat, events \in Nat, NEW e, IsEntry(e), NEW f \in Faces,
         NEW i \in Interest,
         NEW t \in LastExpiries(InsertOrUpdateInRecord(e, f, i, now, events))
  PROVE  Armed(e, f, [InsertOrUpdateInRecord(e, f, i, now, events) EXCEPT !.unsatisfy = t])
<1> DEFINE rec == [nonce |-> i.nonce, order |-> events, lifetime |-> i.lifetime,
                   expiry |-> now + i.lifetime, word |-> i.word, shown |-> NoWord]
           ins1 == Put(e.ins, f, rec)
           e1 == InsertOrUpdateInRecord(e, f, i, now, events)
<1>1. rec \in InRecord
  BY DEF Interest, InRecord, Times
<1>2. IsPartialFunction(e.ins, Faces, InRecord)
  BY DEF IsEntry
<1> HIDE DEF rec
<1>3. IsPartialFunction(ins1, Faces, InRecord) /\ DOMAIN ins1 = DOMAIN e.ins \cup {f}
  BY <1>1, <1>2 DEF IsPartialFunction, Put
<1>4. e1 = [e EXCEPT !.ins = ins1]
  BY DEF InsertOrUpdateInRecord, rec
<1> HIDE DEF ins1, e1
<1>5. /\ e1.ins = ins1 /\ e1.outs = e.outs /\ e1.straggler = e.straggler
      /\ IsEntry(e1)
  BY <1>3, <1>4 DEF IsEntry
<1>6. t \in Nat /\ \A g \in DOMAIN ins1 : ins1[g].expiry <= t
  <2>1. \A g \in DOMAIN ins1 : ins1[g].expiry \in Nat
    BY <1>3 DEF IsPartialFunction, InRecord, Times
  <2>2. t \in LastExpiries(e1)
    BY DEF e1
  <2> QED BY <1>5, <2>1, <2>2 DEF LastExpiries
<1> DEFINE e2 == [e1 EXCEPT !.unsatisfy = t]
<1>7. /\ e2.ins = ins1 /\ e2.outs = e.outs /\ e2.straggler = e.straggler
      /\ e2.unsatisfy = t /\ IsEntry(e2)
  BY <1>5, <1>6 DEF IsEntry, Times
<1> HIDE DEF e2
<1>8. Armed(e, f, e2)
  BY <1>3, <1>6, <1>7 DEF Armed
<1> QED BY <1>8 DEF e2, e1

\* An Interest with a chosen next hop is forwarded as by a strategy that sends to it.
LEMMA ForwardingIsPerforming ==
  ASSUME NEW k, NEW e, NEW r, OnlyForwards(k, e, r)
  PROVE  Performs(k, e, r)
<1>1. Answers(r.sent) = {}
  BY DEF OnlyForwards, Answers
<1> QED BY <1>1 DEF OnlyForwards, Performs

\* onContentStoreMiss leaves a consistent entry on each of its ways.
LEMMA AfterMissFacts ==
  ASSUME now \in Nat, events \in Nat, faces \subseteq Faces, NEW k \in Keys,
         NEW e, IsEntry(e), NEW f \in Faces, NEW i \in Interest,
         NEW r \in AfterMiss(k, e, f, i)
  PROVE  \E e2 : Armed(e, f, e2) /\ Performs(k, e2, r)
<1> DEFINE e1 == InsertOrUpdateInRecord(e, f, i, now, events)
           Arm(t) == [e1 EXCEPT !.unsatisfy = t]
<1>1. \A t \in LastExpiries(e1) : Armed(e, f, Arm(t))
  BY ArmedEntry
<1>2. CASE i.hop = NoHop
  <2>1. PICK t \in LastExpiries(e1) :
          \E hops \in LookupFib(k.name) :
            \E d \in AfterReceiveInterest(StrategyOf[k.name], Arm(t), k.name, hops, f, now) :
              r \in Perform(k, Arm(t), d)
    BY <1>2 DEF AfterMiss
  <2> HIDE DEF Arm
  <2>2. IsEntry(Arm(t))
    BY <1>1, <2>1 DEF Armed
  <2>3. StrategyOf[k.name] \in StrategyNames
    BY ForwarderAssumption DEF Keys
  <2>4. PICK hops, d : /\ d \in AfterReceiveInterest(StrategyOf[k.name], Arm(t),
                                                     k.name, hops, f, now)
                       /\ r \in Perform(k, Arm(t), d)
    BY <2>1
  <2>5. d.retx \in RetxInitial .. RetxMax
    BY <2>2, <2>3, <2>4, RetxAfterInterest
  <2>6. Performs(k, Arm(t), r)
    BY <2>2, <2>4, <2>5, PerformFacts
  <2> QED BY <1>1, <2>1, <2>6
<1>3. CASE i.hop # NoHop
  <2>1. PICK t \in LastExpiries(e1) : r \in OutgoingInterest(k, Arm(t), {i.hop})
    BY <1>3 DEF AfterMiss
  <2> HIDE DEF Arm
  <2>2. IsEntry(Arm(t))
    BY <1>1, <2>1 DEF Armed
  <2>3. OnlyForwards(k, Arm(t), r)
    BY <2>1, <2>2, OutgoingInterestFacts
  <2> QED BY <1>1, <2>1, <2>3, ForwardingIsPerforming
<1> QED BY <1>2, <1>3

-----------------------------------------------------------------------------
(* The inductive invariant: what holds of every entry, and of the tables     *)

RecordsOK(k, e, F) ==
  /\ IsEntry(e)
  /\ DOMAIN e.ins \cup DOMAIN e.outs \subseteq F
  /\ k.name \in LocalhostNames => DOMAIN e.ins \cup DOMAIN e.outs \subseteq LocalFaces

TimersOK(e) ==
  /\ (e.unsatisfy = NEVER) # (e.straggler.at = NEVER)
  /\ e.unsatisfy # NEVER => \A f \in DOMAIN e.ins : e.ins[f].expiry <= e.unsatisfy

SentOK(S) == \A p \in S : p.name \in LocalhostNames => p.face \in LocalFaces

TablesOK ==
  /\ now \in Nat /\ events \in Nat
  /\ faces \subseteq Faces
  /\ DOMAIN fib = Names
  /\ \A n \in Names : IsPartialFunction(fib[n], Faces, Costs) /\ DOMAIN fib[n] \subseteq faces
  /\ cs \subseteq Data
  /\ dnl \subseteq FullName
  /\ credit \in [Faces -> Int]

EntriesOK ==
  /\ DOMAIN pit \subseteq Keys
  /\ \A k \in DOMAIN pit : RecordsOK(k, pit[k], faces) /\ TimersOK(pit[k])

IInv == TablesOK /\ EntriesOK /\ SentOK(sent)

\* Emit keeps the type of the credit.
LEMMA EmitFacts ==
  ASSUME credit \in [Faces -> Int], NEW R, NEW O, Emit(R, O)
  PROVE  /\ sent' = O /\ credit' \in [Faces -> Int]
         /\ \A f \in Faces : credit'[f] = credit[f] + (IF f \in R THEN 1 ELSE 0)
                                                   - (IF f \in Answers(O) THEN 1 ELSE 0)
BY DEF Emit

\* An outcome on a consistent entry is consistent and what it sends stays in scope.
LEMMA PerformsOK ==
  ASSUME now \in Nat, NEW k, NEW e, NEW r, RecordsOK(k, e, faces), TimersOK(e),
         Performs(k, e, r)
  PROVE  RecordsOK(k, r.entry, faces) /\ TimersOK(r.entry) /\ SentOK(r.sent)
<1>1. \A f : ~ViolatesScope(e, k.name, f) /\ k.name \in LocalhostNames => f \in LocalFaces
  BY DEF ViolatesScope
<1>2. IsEntry(r.entry) /\ DOMAIN r.entry.ins \subseteq DOMAIN e.ins
  BY DEF Performs
<1>3. RecordsOK(k, r.entry, faces)
  BY <1>1, <1>2 DEF RecordsOK, Performs
<1>4. TimersOK(r.entry)
  <2>1. CASE r.entry.unsatisfy = e.unsatisfy /\ r.entry.straggler = e.straggler
    BY <1>2, <2>1 DEF TimersOK, Performs
  <2>2. CASE r.entry.unsatisfy = NEVER /\ r.entry.straggler.at \in Nat
    BY <2>2 DEF TimersOK, NEVER
  <2> QED BY <2>1, <2>2 DEF Performs
<1>5. SentOK(r.sent)
  BY <1>1 DEF SentOK, Performs, RecordsOK
<1> QED BY <1>3, <1>4, <1>5

\* pit.insert, or the same entry with new contents
LEMMA PutOK ==
  ASSUME EntriesOK, NEW k \in Keys, NEW e, RecordsOK(k, e, faces), TimersOK(e),
         pit' = Put(pit, k, e), faces' = faces
  PROVE  EntriesOK'
<1>1. DOMAIN pit' = DOMAIN pit \cup {k}
  BY DEF Put
<1>2. \A l \in DOMAIN pit' : pit'[l] = IF l = k THEN e ELSE pit[l]
  BY DEF Put
<1> QED BY <1>1, <1>2 DEF EntriesOK

\* pit.find or pit.insert: the entry has no timer only if it is new
LEMMA EntryForOK ==
  ASSUME IInv, NEW i \in Interests
  PROVE  RecordsOK(Key(i), EntryFor(i), faces) /\ Key(i) \in Keys
<1>1. i \in Interest /\ Key(i) \in Keys
  BY ForwarderAssumption DEF Key, Keys, Interest
<1>2. RecordsOK(Key(i), NewEntry, faces)
  <2>1. IsEntry(NewEntry) /\ DOMAIN NewEntry.ins = {} /\ DOMAIN NewEntry.outs = {}
    <3>1. /\ NewEntry.ins = NoRecords /\ NewEntry.outs = NoRecords
          /\ NewEntry \in [ins : {NewEntry.ins}, outs : {NewEntry.outs},
                           unsatisfy : Times \cup {NEVER}, straggler : Straggler,
                           retx : RetxInitial .. RetxMax]
      BY ValuesAssumption DEF NewEntry, Straggler, NoStraggler
    <3> QED BY <3>1, NoRecordsType DEF IsEntry
  <2> QED BY <2>1 DEF RecordsOK
<1> QED BY <1>1, <1>2 DEF EntryFor, IInv, EntriesOK

\* The straggler timer is the one timer of a satisfied entry.
LEMMA SettledOK ==
  ASSUME now \in Nat, NEW k, NEW e, RecordsOK(k, e, faces), NEW b1 \in BOOLEAN,
         NEW b2 \in BOOLEAN
  PROVE  /\ RecordsOK(k, SetStragglerTimer(CancelTimers(e), b1, b2), faces)
         /\ TimersOK(SetStragglerTimer(CancelTimers(e), b1, b2))
<1> DEFINE e1 == CancelTimers(e)
           e2 == SetStragglerTimer(e1, b1, b2)
<1>1. /\ IsEntry(e1) /\ e1.ins = e.ins /\ e1.outs = e.outs /\ e1.unsatisfy = NEVER
  BY CancelTimersType DEF RecordsOK
<1> HIDE DEF e1
<1>2. /\ IsEntry(e2) /\ e2.ins = e1.ins /\ e2.outs = e1.outs
      /\ e2.unsatisfy = e1.unsatisfy /\ e2.straggler.at \in Nat
  BY <1>1, SetStragglerTimerType
<1> HIDE DEF e2
<1>3. RecordsOK(k, e2, faces) /\ TimersOK(e2)
  BY <1>1, <1>2 DEF RecordsOK, TimersOK, NEVER
<1> QED BY <1>3 DEF e1, e2

-----------------------------------------------------------------------------
(* Every action keeps the invariant                                          *)

\* onIncomingInterest preserves the invariant.
LEMMA InterestKeepsIInv ==
  ASSUME IInv, NEW f \in Faces, NEW i \in Interests, ReceiveInterest(f, i)
  PROVE  IInv'
<1>1. /\ now \in Nat /\ events \in Nat /\ credit \in [Faces -> Int] /\ faces \subseteq Faces
      /\ i \in Interest /\ f \in faces
      /\ now' = now /\ faces' = faces /\ fib' = fib /\ events' = events + 1
      /\ cs' = cs /\ dnl' = dnl
  BY ForwarderAssumption
     DEF IInv, TablesOK, ReceiveInterest, InterestViolatesScope, LoopInDeadNonceList,
         LoopInPit, ContentStoreHit, ContentStoreMiss, InterestLoop, Accepts, Arrival, Received
<1>2. ASSUME NEW R, NEW O, Emit(R, O), SentOK(O), EntriesOK'
      PROVE  IInv'
  BY <1>1, <1>2, EmitFacts DEF IInv, TablesOK
<1>3. ASSUME pit' = pit
      PROVE  EntriesOK'
  BY <1>1, <1>3 DEF IInv, EntriesOK
<1>4. CASE InterestViolatesScope(f, i)
  BY <1>2, <1>3, <1>4 DEF InterestViolatesScope, SentOK
<1>5. ASSUME NEW w, InterestLoop(f, i, w), ~IsLocalhostViolation(f, i.name)
      PROVE  IInv'
  <2>1. SentOK({NackPacket(f, i.name, w, i.nonce, DUPLICATE)}) /\ SentOK({})
    BY <1>5 DEF SentOK, NackPacket, IsLocalhostViolation
  <2> QED BY <1>2, <1>3, <1>5, <2>1 DEF InterestLoop
<1>6. CASE LoopInDeadNonceList(f, i) \/ LoopInPit(f, i)
  BY <1>5, <1>6 DEF LoopInDeadNonceList, LoopInPit
<1>7. ASSUME NEW d \in cs, ContentStoreHit(f, i, d)
      PROVE  IInv'
  <2>1. d \in Data
    BY DEF IInv, TablesOK
  <2>2. EntriesOK'
    BY <1>1, <1>7, <2>1, EntryForOK, SettledOK, PutOK DEF ContentStoreHit, IInv, Data
  <2>3. SentOK(OutgoingData(d, {f}))
    BY DEF SentOK, OutgoingData, DataPacket, IsLocalhostViolation
  <2> QED BY <1>2, <1>7, <2>2, <2>3 DEF ContentStoreHit
<1>8. CASE ContentStoreMiss(f, i)
  <2> DEFINE k == Key(i)
             e == CancelTimers(EntryFor(i))
  <2>1. PICK r \in AfterMiss(k, e, f, i) : pit' = Put(pit, k, r.entry) /\ Emit({f}, r.sent)
    BY <1>8 DEF ContentStoreMiss
  <2>2. RecordsOK(k, EntryFor(i), faces) /\ k \in Keys /\ IsEntry(EntryFor(i))
    BY EntryForOK DEF RecordsOK
  <2>3. /\ IsEntry(e) /\ e.ins = EntryFor(i).ins /\ e.outs = EntryFor(i).outs
        /\ e.straggler.at = NEVER
    BY <2>2, CancelTimersType DEF NoStraggler
  <2> HIDE DEF k, e
  <2>4. PICK e2 : Armed(e, f, e2) /\ Performs(k, e2, r)
    BY <1>1, <2>1, <2>2, <2>3, AfterMissFacts
  <2>5. k.name \in LocalhostNames => f \in LocalFaces
    BY <1>8 DEF k, Key, ContentStoreMiss, Accepts, IsLocalhostViolation
  <2>6. RecordsOK(k, e2, faces) /\ TimersOK(e2)
    BY <1>1, <2>2, <2>3, <2>4, <2>5 DEF RecordsOK, TimersOK, Armed, NEVER
  <2>7. RecordsOK(k, r.entry, faces) /\ TimersOK(r.entry) /\ SentOK(r.sent)
    BY <1>1, <2>4, <2>6, PerformsOK
  <2>8. EntriesOK'
    BY <1>1, <2>1, <2>2, <2>7, PutOK DEF IInv
  <2> QED BY <1>2, <2>1, <2>7, <2>8
<1> QED BY <1>4, <1>6, <1>7, <1>8 DEF ReceiveInterest

\* onIncomingData preserves the invariant.
LEMMA DataKeepsIInv ==
  ASSUME IInv, NEW f \in Faces, NEW d \in Datas, ReceiveData(f, d)
  PROVE  IInv'
<1>1. /\ now \in Nat /\ events \in Nat /\ credit \in [Faces -> Int] /\ faces \subseteq Faces
      /\ d \in Data /\ now' = now /\ faces' = faces /\ fib' = fib /\ events' \in Nat
  BY ForwarderAssumption
     DEF IInv, TablesOK, ReceiveData, DataViolatesScope, UnsolicitedData, SolicitedData,
         Arrival, Received
<1>2. ASSUME NEW O, Emit({}, O), SentOK(O), EntriesOK', cs' \subseteq Data,
             dnl' \subseteq FullName
      PROVE  IInv'
  BY <1>1, <1>2, EmitFacts DEF IInv, TablesOK
<1>3. CASE DataViolatesScope(f, d) \/ UnsolicitedData(f, d)
  <2>1. /\ pit' = pit /\ dnl' = dnl /\ cs' \subseteq Data /\ dnl \subseteq FullName
        /\ Emit({}, {})
    BY <1>1, <1>3 DEF DataViolatesScope, UnsolicitedData, IInv, TablesOK
  <2>2. EntriesOK'
    BY <1>1, <2>1 DEF IInv, EntriesOK
  <2> QED BY <1>2, <2>1, <2>2 DEF SentOK
<1>4. CASE SolicitedData(f, d)
  <2>1. ASSUME NEW k \in DOMAIN pit
        PROVE  RecordsOK(k, Satisfied(pit[k], f, d), faces) /\ TimersOK(Satisfied(pit[k], f, d))
    <3> DEFINE e == SetStragglerTimer(CancelTimers(pit[k]), TRUE, d.stale)
               outs == Drop(pit[k].outs, f)
               s == [e EXCEPT !.ins = NoRecords, !.outs = outs]
    <3>1. RecordsOK(k, pit[k], faces)
      BY DEF IInv, EntriesOK
    <3>2. RecordsOK(k, e, faces) /\ TimersOK(e)
      BY <1>1, <3>1, SettledOK DEF Data
    <3>3. IsPartialFunction(outs, Faces, OutRecord) /\ DOMAIN outs \subseteq DOMAIN pit[k].outs
      <4>1. IsPartialFunction(pit[k].outs, Faces, OutRecord)
        BY <3>1 DEF RecordsOK, IsEntry
      <4> QED BY <4>1 DEF IsPartialFunction, Drop, Restrict
    <3>4. IsPartialFunction(NoRecords, Faces, InRecord) /\ DOMAIN NoRecords = {}
      BY NoRecordsType
    <3> HIDE DEF e, outs
    <3>5. /\ s.ins = NoRecords /\ s.outs = outs /\ s.unsatisfy = e.unsatisfy
          /\ s.straggler = e.straggler /\ IsEntry(s)
      BY <3>2, <3>3, <3>4 DEF RecordsOK, IsEntry
    <3> HIDE DEF s
    <3>6. RecordsOK(k, s, faces) /\ TimersOK(s)
      BY <3>1, <3>2, <3>3, <3>4, <3>5 DEF RecordsOK, TimersOK
    <3> QED BY <3>6 DEF Satisfied, s, e, outs
  <2>2. EntriesOK'
    BY <1>1, <1>4, <2>1 DEF SolicitedData, IInv, EntriesOK
  <2>3. dnl' \subseteq FullName
    <3>1. \A k \in DOMAIN pit : f \in DOMAIN pit[k].outs =>
            DeadName(k, pit[k].outs[f].nonce) \in FullName
      BY DEF IInv, EntriesOK, RecordsOK, IsEntry, IsPartialFunction, OutRecord, DeadName,
             FullName, Keys
    <3> QED BY <1>4, <3>1 DEF SolicitedData, IInv, TablesOK, DataMatches
  <2>4. cs' \subseteq Data
    BY <1>1, <1>4 DEF SolicitedData, IInv, TablesOK
  <2>5. \A p \in sent' : p.name \in LocalhostNames => p.face \in LocalFaces
    BY <1>4 DEF SolicitedData, OutgoingData, Emit, DataPacket, IsLocalhostViolation
  <2> QED BY <1>2, <1>4, <2>2, <2>3, <2>4, <2>5 DEF SolicitedData, SentOK, Emit
<1> QED BY <1>3, <1>4 DEF ReceiveData

\* Recording a Nack leaves a consistent entry.
LEMMA NackedEntry ==
  ASSUME NEW e, IsEntry(e), NEW f \in DOMAIN e.outs, NEW reason \in NackReasons
  PROVE  /\ IsEntry(SetIncomingNack(e, f, reason))
         /\ SetIncomingNack(e, f, reason).ins = e.ins
         /\ DOMAIN SetIncomingNack(e, f, reason).outs = DOMAIN e.outs
         /\ SetIncomingNack(e, f, reason).unsatisfy = e.unsatisfy
         /\ SetIncomingNack(e, f, reason).straggler = e.straggler
<1> DEFINE outs == [e.outs EXCEPT ![f].nack = reason, ![f].answered = TRUE]
           n == SetIncomingNack(e, f, reason)
<1>1. e.outs \in [DOMAIN e.outs -> OutRecord] /\ DOMAIN e.outs \subseteq Faces
  BY DEF IsEntry, IsPartialFunction
<1>2. [e.outs[f] EXCEPT !.nack = reason, !.answered = TRUE] \in OutRecord
  BY <1>1 DEF OutRecord
<1>3. IsPartialFunction(outs, Faces, OutRecord) /\ DOMAIN outs = DOMAIN e.outs
  BY <1>1, <1>2 DEF IsPartialFunction
<1>4. n = [e EXCEPT !.outs = outs]
  BY DEF SetIncomingNack, IsEntry
<1> HIDE DEF n, outs
<1>5. /\ n.ins = e.ins /\ n.outs = outs /\ n.unsatisfy = e.unsatisfy
      /\ n.straggler = e.straggler /\ IsEntry(n)
  BY <1>3, <1>4 DEF IsEntry
<1>6. IsEntry(n) /\ n.ins = e.ins /\ DOMAIN n.outs = DOMAIN e.outs
      /\ n.unsatisfy = e.unsatisfy /\ n.straggler = e.straggler
  BY <1>3, <1>5
<1> QED BY <1>6 DEF n

\* onIncomingNack preserves the invariant.
LEMMA NackKeepsIInv ==
  ASSUME IInv, NEW f \in Faces, NEW k \in Keys, NEW w, NEW nonce,
         ReceiveNack(f, k, w, nonce)
  PROVE  IInv'
<1>1. /\ now \in Nat /\ events \in Nat /\ credit \in [Faces -> Int] /\ faces \subseteq Faces
      /\ now' = now /\ faces' = faces /\ fib' = fib /\ events' \in Nat
      /\ cs' = cs /\ dnl' = dnl
  BY DEF IInv, TablesOK, ReceiveNack, DropNack, AcceptNack, Arrival, Received
<1>2. ASSUME NEW O, Emit({}, O), SentOK(O), EntriesOK'
      PROVE  IInv'
  BY <1>1, <1>2, EmitFacts DEF IInv, TablesOK
<1>3. CASE DropNack(f, k, w, nonce)
  BY <1>1, <1>2, <1>3 DEF DropNack, IInv, EntriesOK, SentOK
<1>4. ASSUME NEW reason \in NackReasons, AcceptNack(f, k, w, nonce, reason)
      PROVE  IInv'
  <2> DEFINE e == SetIncomingNack(pit[k], f, reason)
  <2>1. PICK d, r : /\ d \in AfterReceiveNack(StrategyOf[k.name], e) /\ r \in Perform(k, e, d)
                     /\ pit' = Put(pit, k, r.entry) /\ Emit({}, r.sent)
    BY <1>4 DEF AcceptNack
  <2>2. k \in DOMAIN pit /\ f \in DOMAIN pit[k].outs
    BY <1>4 DEF AcceptNack, NackMatches
  <2>3. RecordsOK(k, pit[k], faces) /\ TimersOK(pit[k])
    BY <2>2 DEF IInv, EntriesOK
  <2>6. /\ e.ins = pit[k].ins /\ DOMAIN e.outs = DOMAIN pit[k].outs
        /\ e.unsatisfy = pit[k].unsatisfy /\ e.straggler = pit[k].straggler /\ IsEntry(e)
    BY <2>2, <2>3, NackedEntry DEF RecordsOK
  <2> HIDE DEF e
  <2>7. RecordsOK(k, e, faces) /\ TimersOK(e)
    BY <2>3, <2>6 DEF RecordsOK, TimersOK
  <2>8. d.retx \in RetxInitial .. RetxMax
    BY <2>1, <2>6, RetxAfterNack DEF IsEntry
  <2>9. Performs(k, e, r)
    BY <1>1, <2>1, <2>6, <2>8, PerformFacts
  <2>10. RecordsOK(k, r.entry, faces) /\ TimersOK(r.entry) /\ SentOK(r.sent)
    BY <1>1, <2>7, <2>9, PerformsOK
  <2>11. EntriesOK'
    BY <1>1, <2>1, <2>10, PutOK DEF IInv
  <2> QED BY <1>2, <2>1, <2>10, <2>11
<1> QED BY <1>3, <1>4 DEF ReceiveNack

\* onInterestFinalize preserves the invariant.
LEMMA TimerKeepsIInv ==
  ASSUME IInv, NEW k \in Keys, UnsatisfyTimer(k) \/ StragglerTimer(k)
  PROVE  IInv'
<1>1. PICK needDnl : k \in DOMAIN pit /\ Finalize(k, needDnl)
  BY DEF UnsatisfyTimer, StragglerTimer
<1>2. credit \in [Faces -> Int] /\ sent' = {} /\ credit' \in [Faces -> Int]
  BY <1>1, EmitFacts DEF Finalize, IInv, TablesOK
<1>3. dnl' \subseteq FullName
  <2>1. \A f \in DOMAIN pit[k].outs : DeadName(k, pit[k].outs[f].nonce) \in FullName
    BY <1>1 DEF IInv, EntriesOK, RecordsOK, IsEntry, IsPartialFunction, OutRecord, DeadName,
                FullName, Keys
  <2> QED BY <1>1, <2>1 DEF Finalize, IInv, TablesOK
<1>4. EntriesOK'
  BY <1>1 DEF Finalize, Drop, Restrict, IInv, EntriesOK
<1> QED BY <1>1, <1>2, <1>3, <1>4 DEF Finalize, IInv, TablesOK, SentOK

\* The removal of a face and changes of the FIB preserve the invariant.
LEMMA ChangeKeepsIInv ==
  ASSUME IInv, ChangeTopology
  PROVE  IInv'
<1>1. /\ now' = now /\ cs' = cs /\ events' \in Nat /\ sent' = {} /\ credit' \in [Faces -> Int]
  <2>1. Change
    BY DEF ChangeTopology, RemoveFace, AddNextHop, RemoveNextHop, ForgetNonce
  <2> QED BY <2>1, EmitFacts DEF Change, IInv, TablesOK
<1>2. SentOK(sent')
  BY <1>1 DEF SentOK
<1>3. ASSUME NEW f \in RemovableFaces, RemoveFace(f)
      PROVE  IInv'
  <2>1. ASSUME NEW e, NEW k, RecordsOK(k, e, faces), TimersOK(e)
        PROVE  /\ RecordsOK(k, DeleteInOutRecords(e, f), faces \ {f})
               /\ TimersOK(DeleteInOutRecords(e, f))
    <3> DEFINE ins == Drop(e.ins, f)
               outs == Drop(e.outs, f)
               e1 == [e EXCEPT !.ins = ins, !.outs = outs]
    <3>1. IsPartialFunction(e.ins, Faces, InRecord) /\ IsPartialFunction(e.outs, Faces, OutRecord)
      BY <2>1 DEF RecordsOK, IsEntry
    <3>2. /\ IsPartialFunction(ins, Faces, InRecord) /\ DOMAIN ins = DOMAIN e.ins \ {f}
          /\ \A g \in DOMAIN ins : ins[g] = e.ins[g]
      BY <3>1 DEF IsPartialFunction, Drop, Restrict
    <3>3. IsPartialFunction(outs, Faces, OutRecord) /\ DOMAIN outs = DOMAIN e.outs \ {f}
      BY <3>1 DEF IsPartialFunction, Drop, Restrict
    <3> HIDE DEF ins, outs
    <3>4. /\ e1.ins = ins /\ e1.outs = outs /\ e1.unsatisfy = e.unsatisfy
          /\ e1.straggler = e.straggler /\ IsEntry(e1)
      BY <2>1, <3>2, <3>3 DEF RecordsOK, IsEntry
    <3> HIDE DEF e1
    <3>5. RecordsOK(k, e1, faces \ {f}) /\ TimersOK(e1)
      BY <2>1, <3>2, <3>3, <3>4 DEF RecordsOK, TimersOK
    <3> QED BY <3>5 DEF DeleteInOutRecords, e1, ins, outs
  <2>2. EntriesOK'
    BY <1>3, <2>1 DEF RemoveFace, IInv, EntriesOK
  <2>3. \A n \in Names : /\ IsPartialFunction(fib'[n], Faces, Costs)
                         /\ DOMAIN fib'[n] \subseteq faces'
    BY <1>3 DEF RemoveFace, IInv, TablesOK, IsPartialFunction, Drop, Restrict
  <2> QED BY <1>1, <1>2, <1>3, <2>2, <2>3 DEF RemoveFace, IInv, TablesOK
<1>4. ASSUME faces' = faces, pit' = pit, dnl' \subseteq FullName, DOMAIN fib' = Names,
             \A n \in Names : /\ IsPartialFunction(fib'[n], Faces, Costs)
                              /\ DOMAIN fib'[n] \subseteq faces
      PROVE  IInv'
  BY <1>1, <1>2, <1>4 DEF IInv, TablesOK, EntriesOK
<1>5. \A n \in Names : IsPartialFunction(fib[n], Faces, Costs) /\ DOMAIN fib[n] \subseteq faces
  BY DEF IInv, TablesOK
<1>6. DOMAIN fib = Names /\ dnl \subseteq FullName /\ faces \subseteq Faces
  BY DEF IInv, TablesOK
<1>7. ASSUME NEW n \in Changeable, NEW f \in Faces, NEW c \in Costs, AddNextHop(n, f, c)
      PROVE  IInv'
  <2>1. n \in Names /\ f \in faces /\ fib' = [fib EXCEPT ![n] = Put(fib[n], f, c)]
    BY <1>7, ForwarderAssumption DEF AddNextHop
  <2>2. IsPartialFunction(Put(fib[n], f, c), Faces, Costs)
        /\ DOMAIN Put(fib[n], f, c) \subseteq faces
    BY <1>5, <1>6, <2>1 DEF IsPartialFunction, Put
  <2> QED BY <1>4, <1>5, <1>6, <1>7, <2>1, <2>2 DEF AddNextHop
<1>8. ASSUME NEW n \in Changeable, NEW f \in Faces, RemoveNextHop(n, f)
      PROVE  IInv'
  <2>1. n \in Names /\ fib' = [fib EXCEPT ![n] = Drop(fib[n], f)]
    BY <1>8, ForwarderAssumption DEF RemoveNextHop
  <2>2. IsPartialFunction(Drop(fib[n], f), Faces, Costs)
        /\ DOMAIN Drop(fib[n], f) \subseteq faces
    BY <1>5, <2>1 DEF IsPartialFunction, Drop, Restrict
  <2> QED BY <1>4, <1>5, <1>6, <1>8, <2>1, <2>2 DEF RemoveNextHop
<1>9. ASSUME NEW x \in dnl, ForgetNonce(x)
      PROVE  IInv'
  BY <1>4, <1>5, <1>6, <1>9 DEF ForgetNonce
<1> QED BY <1>3, <1>7, <1>8, <1>9 DEF ChangeTopology

\* The invariant holds in the empty tables a forwarder starts with.
LEMMA InitIInv == Init => IInv
<1> SUFFICES ASSUME Init PROVE IInv
  OBVIOUS
<1>1. TablesOK
  BY ForwarderAssumption DEF Init, TablesOK, IsPartialFunction
<1>2. EntriesOK /\ SentOK(sent)
  BY DEF Init, EntriesOK, SentOK, NoRecords
<1> QED BY <1>1, <1>2 DEF IInv

\* IInv holds in every reachable state: whatever packet arrives, timer fires or
\* table changes, the pipelines keep the tables and entries consistent.
THEOREM Invariance == Spec => []IInv
<1>1. IInv /\ [Next]_vars => IInv'
  <2> SUFFICES ASSUME IInv, [Next]_vars PROVE IInv'
    OBVIOUS
  <2>1. ASSUME NEW f \in Faces, NEW i \in Interests, ReceiveInterest(f, i) PROVE IInv'
    BY <2>1, InterestKeepsIInv
  <2>2. ASSUME NEW f \in Faces, NEW d \in Datas, ReceiveData(f, d) PROVE IInv'
    BY <2>2, DataKeepsIInv
  <2>3. ASSUME NEW f \in Faces, NEW k \in Keys, NEW w, NEW nonce, ReceiveNack(f, k, w, nonce)
        PROVE  IInv'
    BY <2>3, NackKeepsIInv
  <2>4. ASSUME NEW k \in Keys, UnsatisfyTimer(k) \/ StragglerTimer(k) PROVE IInv'
    BY <2>4, TimerKeepsIInv
  <2>5. CASE Tick
    BY <2>5 DEF Tick, IInv, TablesOK, EntriesOK, SentOK
  <2>6. CASE ChangeTopology
    BY <2>6, ChangeKeepsIInv
  <2>7. CASE UNCHANGED vars
    BY <2>7 DEF vars, IInv, TablesOK, EntriesOK
  <2> QED BY <2>1, <2>2, <2>3, <2>4, <2>5, <2>6, <2>7 DEF Next
<1> QED BY <1>1, InitIInv, PTL DEF Spec

-----------------------------------------------------------------------------
(* The properties that follow from the invariant                             *)

\* Every reachable state has the types of TypeOK: the tables hold entries,
\* records and next hops of the declared faces, names and Nonces, and the
\* suppression interval of a strategy stays between its bounds.
THEOREM TypeCorrect == Spec => []TypeOK
<1>1. IInv => TypeOK
  BY DEF IInv, TablesOK, EntriesOK, RecordsOK, TypeOK
<1> QED BY <1>1, Invariance, PTL

\* After every step exactly one of the two timers of each entry is scheduled,
\* so no entry stays in the PIT for ever and none is finalized twice.
THEOREM TimersExclusive == Spec => []OneTimerPending
<1>1. IInv => OneTimerPending
  BY DEF IInv, EntriesOK, TimersOK, OneTimerPending
<1> QED BY <1>1, Invariance, PTL

\* The unsatisfy timer never fires while an in-record has not expired.
THEOREM TimerCoversInRecords == Spec => []UnsatisfyTimerCoversInRecords
<1>1. IInv => UnsatisfyTimerCoversInRecords
  BY DEF IInv, EntriesOK, TimersOK, UnsatisfyTimerCoversInRecords
<1> QED BY <1>1, Invariance, PTL

\* No record and no next hop refers to a face that left the face table.
THEOREM FacesAreKnown == Spec => []NoDanglingFace
<1>1. IInv => NoDanglingFace
  BY DEF IInv, TablesOK, EntriesOK, RecordsOK, NoDanglingFace
<1> QED BY <1>1, Invariance, PTL

\* No packet and no record under ndn:/localhost involves a face that is not local.
THEOREM LocalhostIsContained == Spec => []LocalhostStaysLocal
<1>1. IInv => LocalhostStaysLocal
  BY DEF IInv, EntriesOK, RecordsOK, SentOK, LocalhostStaysLocal
<1> QED BY <1>1, Invariance, PTL

-----------------------------------------------------------------------------
(* Flow balance: on no face does the forwarder answer more often than it is  *)
(* asked.  The proof counts, for each face, the entries that wait for an     *)
(* answer on it; each action changes the count by one entry at most unless   *)
(* it lowers it.                                                             *)

FlowInv == IsFiniteSet(DOMAIN pit) /\ FlowBalance

\* One face: c and S are its credit and its waiting entries before the step, c1
\* and S1 after it.
LEMMA StaysBalanced ==
  ASSUME NEW S, IsFiniteSet(S), NEW c \in Int, c >= Cardinality(S),
         NEW S1, NEW c1 \in Int,
         \/ S1 \subseteq S /\ c1 >= c
         \/ \E k \in S : S1 \subseteq S \ {k} /\ c1 >= c - 1
         \/ \E k : S1 \subseteq S \cup {k} /\ c1 >= c + 1
  PROVE  c1 >= Cardinality(S1)
<1>1. Cardinality(S) \in Nat
  BY FS_CardinalityType
<1>2. CASE S1 \subseteq S /\ c1 >= c
  BY <1>1, <1>2, FS_Subset, FS_CardinalityType
<1>3. ASSUME NEW k \in S, S1 \subseteq S \ {k}, c1 >= c - 1
      PROVE  c1 >= Cardinality(S1)
  <2>1. IsFiniteSet(S \ {k}) /\ Cardinality(S \ {k}) = Cardinality(S) - 1
    BY FS_RemoveElement
  <2>2. Cardinality(S1) <= Cardinality(S \ {k}) /\ Cardinality(S1) \in Nat
    BY <1>3, <2>1, FS_Subset, FS_CardinalityType
  <2> QED BY <1>1, <1>3, <2>1, <2>2
<1>4. ASSUME NEW k, S1 \subseteq S \cup {k}, c1 >= c + 1
      PROVE  c1 >= Cardinality(S1)
  <2> DEFINE T == S \cup {k}
  <2>1. IsFiniteSet(T) /\ (Cardinality(T) = Cardinality(S) \/ Cardinality(T) = Cardinality(S) + 1)
    BY FS_AddElement
  <2> HIDE DEF T
  <2>2. Cardinality(S1) <= Cardinality(T) /\ Cardinality(S1) \in Nat
    BY <1>4, <2>1, FS_Subset, FS_CardinalityType DEF T
  <2> QED BY <1>1, <1>4, <2>1, <2>2
<1> QED BY <1>2, <1>3, <1>4

\* How one face's waiting entries and credit may change in a step
FaceBalanced(f) ==
  \/ Waiting(pit', f) \subseteq Waiting(pit, f) /\ credit'[f] >= credit[f]
  \/ \E k \in Waiting(pit, f) :
       Waiting(pit', f) \subseteq Waiting(pit, f) \ {k} /\ credit'[f] >= credit[f] - 1
  \/ \E k : Waiting(pit', f) \subseteq Waiting(pit, f) \cup {k} /\ credit'[f] >= credit[f] + 1

\* The same for every face at once: balanced steps keep the balance.
LEMMA FacesBalanced ==
  ASSUME IInv, IInv', FlowInv, \A f \in Faces : FaceBalanced(f)
  PROVE  FlowBalance'
<1> SUFFICES ASSUME NEW f \in Faces
             PROVE  credit'[f] >= Cardinality(Waiting(pit', f))
  BY DEF FlowBalance, Waiting
<1>1. credit[f] \in Int /\ credit'[f] \in Int
  BY DEF IInv, TablesOK
<1>2. Waiting(pit, f) \subseteq DOMAIN pit
  BY DEF Waiting
<1>3. IsFiniteSet(Waiting(pit, f))
  BY <1>2, FS_Subset DEF FlowInv
<1>4. credit[f] >= Cardinality(Waiting(pit, f))
  BY DEF FlowInv, FlowBalance
<1> QED BY <1>1, <1>3, <1>4, StaysBalanced DEF FaceBalanced

\* A step that stores one entry: its in-records decide who waits.
LEMMA PutWaiting ==
  ASSUME NEW k, NEW e, pit' = Put(pit, k, e), NEW f
  PROVE  Waiting(pit', f) = IF f \in DOMAIN e.ins THEN Waiting(pit, f) \cup {k}
                            ELSE Waiting(pit, f) \ {k}
BY DEF Put, Waiting

\* Changing one entry keeps the PIT finite.
LEMMA PutFinite ==
  ASSUME IsFiniteSet(DOMAIN pit), NEW k, NEW e, pit' = Put(pit, k, e)
  PROVE  IsFiniteSet(DOMAIN pit')
<1>1. DOMAIN pit' = DOMAIN pit \cup {k}
  BY DEF Put
<1> QED BY <1>1, FS_AddElement

-----------------------------------------------------------------------------
(* Every action is balanced                                                  *)

Balanced == IsFiniteSet(DOMAIN pit') /\ \A f \in Faces : FaceBalanced(f)

\* Fewer entries wait after a step that only drops in-records and answers nobody.
LEMMA NoMoreWaiting ==
  ASSUME FlowInv, \A f \in Faces : Waiting(pit', f) \subseteq Waiting(pit, f),
         \A f \in Faces : credit'[f] >= credit[f], IsFiniteSet(DOMAIN pit')
  PROVE  Balanced
BY DEF Balanced, FaceBalanced

\* onIncomingInterest keeps the balance: the Interest received pays for its in-record.
LEMMA InterestBalanced ==
  ASSUME IInv, FlowInv, NEW f \in Faces, NEW i \in Interests, ReceiveInterest(f, i)
  PROVE  Balanced
<1>1. credit \in [Faces -> Int] /\ i \in Interest
  BY ForwarderAssumption DEF IInv, TablesOK
<1>2. IsFiniteSet(DOMAIN pit)
  BY DEF FlowInv
\* an answer to the face the Interest came from is paid for by that Interest
<1>3. ASSUME NEW O, Emit({f}, O), Answers(O) \subseteq {f}
      PROVE  \A g \in Faces : credit'[g] >= credit[g]
  BY <1>1, <1>3, EmitFacts
<1>4. Answers({}) = {}
  BY DEF Answers
<1>5. CASE InterestViolatesScope(f, i)
  BY <1>2, <1>3, <1>4, <1>5, NoMoreWaiting DEF InterestViolatesScope
<1>6. ASSUME NEW w, InterestLoop(f, i, w)
      PROVE  Balanced
  <2>1. Answers({NackPacket(f, i.name, w, i.nonce, DUPLICATE)}) \subseteq {f}
    BY DEF Answers, NackPacket
  <2> QED BY <1>2, <1>3, <1>4, <1>6, <2>1, NoMoreWaiting DEF InterestLoop
<1>7. CASE LoopInDeadNonceList(f, i) \/ LoopInPit(f, i)
  BY <1>6, <1>7 DEF LoopInDeadNonceList, LoopInPit
<1> DEFINE k == Key(i)
<1>8. IsEntry(EntryFor(i)) /\ \A g \in DOMAIN EntryFor(i).ins : k \in Waiting(pit, g)
  <2>1. DOMAIN NewEntry.ins = {}
    BY NoRecordsType DEF NewEntry
  <2> QED BY <2>1, EntryForOK DEF EntryFor, Waiting, RecordsOK
<1> HIDE DEF k
<1>9. ASSUME NEW d \in cs, ContentStoreHit(f, i, d)
      PROVE  Balanced
  <2> DEFINE e1 == CancelTimers(EntryFor(i))
             e == SetStragglerTimer(e1, TRUE, d.stale)
  <2>1. now \in Nat /\ d.stale \in BOOLEAN
    BY DEF IInv, TablesOK, Data
  <2>2. IsEntry(e1) /\ e1.ins = EntryFor(i).ins
    BY <1>8, CancelTimersType
  <2> HIDE DEF e1
  <2>3. e.ins = EntryFor(i).ins
    BY <2>1, <2>2, SetStragglerTimerType
  <2>4. pit' = Put(pit, k, e) /\ DOMAIN e.ins = {}
    BY <1>9, <2>3 DEF ContentStoreHit, k, e1
  <2> HIDE DEF e
  <2>5. \A g \in Faces : Waiting(pit', g) \subseteq Waiting(pit, g)
    BY <2>4, PutWaiting
  <2>6. Answers(OutgoingData(d, {f})) \subseteq {f}
    BY DEF Answers, OutgoingData, DataPacket
  <2> QED BY <1>2, <1>3, <1>9, <2>4, <2>5, <2>6, PutFinite, NoMoreWaiting DEF ContentStoreHit
<1>10. CASE ContentStoreMiss(f, i)
  <2> DEFINE e == CancelTimers(EntryFor(i))
  <2>1. PICK r \in AfterMiss(k, e, f, i) : pit' = Put(pit, k, r.entry) /\ Emit({f}, r.sent)
    BY <1>10 DEF ContentStoreMiss, k
  <2>2. IsEntry(e) /\ e.ins = EntryFor(i).ins
    BY <1>8, CancelTimersType
  <2>3. now \in Nat /\ events \in Nat /\ faces \subseteq Faces /\ k \in Keys
    BY EntryForOK DEF IInv, TablesOK, k
  <2> HIDE DEF e
  <2>4. PICK e2 : Armed(e, f, e2) /\ Performs(k, e2, r)
    BY <1>1, <2>1, <2>2, <2>3, AfterMissFacts
  <2> DEFINE A == Answers(r.sent)
             I == DOMAIN EntryFor(i).ins \cup {f}
  <2>5. DOMAIN r.entry.ins = I \ A /\ A \subseteq I
    BY <2>2, <2>4 DEF Armed, Performs
  <2>6. \A g \in Faces : credit'[g] = credit[g] + (IF g = f THEN 1 ELSE 0)
                                               - (IF g \in A THEN 1 ELSE 0)
    BY <1>1, <2>1, EmitFacts
  <2>7. ASSUME NEW g \in Faces
        PROVE  FaceBalanced(g)
    <3>1. Waiting(pit', g) = IF g \in I \ A THEN Waiting(pit, g) \cup {k}
                             ELSE Waiting(pit, g) \ {k}
      BY <2>1, <2>5, PutWaiting
    <3>2. credit[g] \in Int
      BY <1>1
    <3>3. g \in I /\ g # f => k \in Waiting(pit, g)
      BY <1>8
    <3> HIDE DEF A, I
    <3>4. CASE g = f
      BY <2>6, <3>1, <3>2, <3>4 DEF FaceBalanced
    <3>5. CASE g # f /\ g \in A
      BY <2>5, <2>6, <3>1, <3>2, <3>3, <3>5 DEF FaceBalanced
    <3>6. CASE g # f /\ g \notin A
      BY <2>6, <3>1, <3>2, <3>3, <3>6 DEF FaceBalanced
    <3> QED BY <3>4, <3>5, <3>6
  <2> QED BY <1>2, <2>1, <2>7, PutFinite DEF Balanced
<1> QED BY <1>5, <1>7, <1>9, <1>10 DEF ReceiveInterest

\* onIncomingData keeps the balance: it clears an in-record of each face it answers.
LEMMA DataBalanced ==
  ASSUME IInv, FlowInv, NEW f \in Faces, NEW d \in Datas, ReceiveData(f, d)
  PROVE  Balanced
<1>1. credit \in [Faces -> Int] /\ IsFiniteSet(DOMAIN pit)
  BY DEF IInv, TablesOK, FlowInv
<1>2. CASE DataViolatesScope(f, d) \/ UnsolicitedData(f, d)
  <2>1. pit' = pit /\ Emit({}, {})
    BY <1>2 DEF DataViolatesScope, UnsolicitedData
  <2>2. \A g \in Faces : credit'[g] >= credit[g]
    BY <1>1, <2>1, EmitFacts DEF Answers
  <2> QED BY <1>1, <2>1, <2>2, NoMoreWaiting
<1>3. CASE SolicitedData(f, d)
  <2>1. PICK O : /\ Emit({}, O)
                 /\ Answers(O) \subseteq PendingDownstreams(d)
    <3>1. Answers(OutgoingData(d, PendingDownstreams(d) \ {f})) \subseteq PendingDownstreams(d)
      BY DEF Answers, OutgoingData, DataPacket
    <3> QED BY <1>3, <3>1 DEF SolicitedData
  <2>2. pit' = [k \in DOMAIN pit |-> IF k \in DataMatches(d) THEN Satisfied(pit[k], f, d)
                                     ELSE pit[k]]
    BY <1>3 DEF SolicitedData
  <2>3. \A k \in DOMAIN pit : DOMAIN Satisfied(pit[k], f, d).ins = {}
    <3>1. ASSUME NEW e, IsEntry(e), NEW m
          PROVE  DOMAIN [e EXCEPT !.ins = NoRecords, !.outs = m].ins = {}
      BY <3>1, NoRecordsType DEF IsEntry
    <3>2. ASSUME NEW k \in DOMAIN pit
          PROVE  IsEntry(SetStragglerTimer(CancelTimers(pit[k]), TRUE, d.stale))
      <4>1. RecordsOK(k, pit[k], faces) /\ now \in Nat /\ d.stale \in BOOLEAN
        BY ForwarderAssumption DEF IInv, EntriesOK, TablesOK, Data
      <4> QED BY <4>1, SettledOK DEF RecordsOK
    <3> QED BY <3>1, <3>2 DEF Satisfied
  <2>4. ASSUME NEW g \in Faces
        PROVE  FaceBalanced(g)
    <3>1. Waiting(pit', g) = Waiting(pit, g) \ DataMatches(d)
      BY <2>2, <2>3 DEF Waiting
    <3>2. credit[g] \in Int /\ credit'[g] >= credit[g] - 1
      BY <1>1, <2>1, EmitFacts
    <3>3. CASE g \in PendingDownstreams(d)
      <4>1. PICK k \in DataMatches(d) : g \in DOMAIN pit[k].ins
        BY <3>3 DEF PendingDownstreams
      <4>2. k \in Waiting(pit, g)
        BY <4>1 DEF Waiting, DataMatches
      <4> QED BY <3>1, <3>2, <4>1, <4>2 DEF FaceBalanced
    <3>4. CASE g \notin PendingDownstreams(d)
      <4>1. credit'[g] >= credit[g]
        BY <1>1, <2>1, <3>4, EmitFacts
      <4> QED BY <3>1, <4>1 DEF FaceBalanced
    <3> QED BY <3>3, <3>4
  <2>5. DOMAIN pit' = DOMAIN pit
    BY <2>2
  <2> QED BY <1>1, <2>4, <2>5 DEF Balanced
<1> QED BY <1>2, <1>3 DEF ReceiveData

\* onIncomingNack keeps the balance: a Nack takes the in-record it answers with it.
LEMMA NackBalanced ==
  ASSUME IInv, FlowInv, NEW f \in Faces, NEW k \in Keys, NEW w, NEW nonce,
         ReceiveNack(f, k, w, nonce)
  PROVE  Balanced
<1>1. credit \in [Faces -> Int] /\ IsFiniteSet(DOMAIN pit)
  BY DEF IInv, TablesOK, FlowInv
<1>2. CASE DropNack(f, k, w, nonce)
  <2>1. pit' = pit /\ Emit({}, {})
    BY <1>2 DEF DropNack
  <2>2. \A g \in Faces : credit'[g] >= credit[g]
    BY <1>1, <2>1, EmitFacts DEF Answers
  <2> QED BY <1>1, <2>1, <2>2, NoMoreWaiting
<1>3. ASSUME NEW reason \in NackReasons, AcceptNack(f, k, w, nonce, reason)
      PROVE  Balanced
  <2> DEFINE e == SetIncomingNack(pit[k], f, reason)
  <2>1. PICK d, r : /\ d \in AfterReceiveNack(StrategyOf[k.name], e) /\ r \in Perform(k, e, d)
                    /\ pit' = Put(pit, k, r.entry) /\ Emit({}, r.sent)
    BY <1>3 DEF AcceptNack
  <2>2. k \in DOMAIN pit /\ f \in DOMAIN pit[k].outs /\ IsEntry(pit[k])
    BY <1>3 DEF AcceptNack, NackMatches, IInv, EntriesOK, RecordsOK
  <2>3. IsEntry(e) /\ e.ins = pit[k].ins
    BY <1>3, <2>2, NackedEntry
  <2>4. d.retx \in RetxInitial .. RetxMax
    BY <2>1, <2>3, RetxAfterNack DEF IsEntry
  <2>5. Performs(k, e, r)
    BY <2>1, <2>3, <2>4, PerformFacts DEF IInv, TablesOK
  <2> HIDE DEF e
  <2> DEFINE A == Answers(r.sent)
  <2>6. DOMAIN r.entry.ins = DOMAIN pit[k].ins \ A /\ A \subseteq DOMAIN pit[k].ins
    BY <2>3, <2>5 DEF Performs
  <2>7. \A g \in Faces : credit'[g] = credit[g] - (IF g \in A THEN 1 ELSE 0)
    BY <1>1, <2>1, EmitFacts
  <2>8. ASSUME NEW g \in Faces
        PROVE  FaceBalanced(g)
    <3>1. Waiting(pit', g) = IF g \in DOMAIN pit[k].ins \ A THEN Waiting(pit, g) \cup {k}
                             ELSE Waiting(pit, g) \ {k}
      BY <2>1, <2>6, PutWaiting
    <3>2. g \in DOMAIN pit[k].ins => k \in Waiting(pit, g)
      BY <2>2 DEF Waiting
    <3>3. credit[g] \in Int
      BY <1>1
    <3> HIDE DEF A
    <3>4. CASE g \in A
      BY <2>6, <2>7, <3>1, <3>2, <3>3, <3>4 DEF FaceBalanced
    <3>5. CASE g \notin A
      BY <2>7, <3>1, <3>2, <3>3, <3>5 DEF FaceBalanced
    <3> QED BY <3>4, <3>5
  <2> QED BY <1>1, <2>1, <2>8, PutFinite DEF Balanced
<1> QED BY <1>2, <1>3 DEF ReceiveNack

\* The timers keep the balance: they drop entries and send nothing.
LEMMA TimerBalanced ==
  ASSUME IInv, FlowInv, NEW k \in Keys, UnsatisfyTimer(k) \/ StragglerTimer(k)
  PROVE  Balanced
<1>1. PICK needDnl : k \in DOMAIN pit /\ Finalize(k, needDnl)
  BY DEF UnsatisfyTimer, StragglerTimer
<1>2. credit \in [Faces -> Int] /\ IsFiniteSet(DOMAIN pit)
  BY DEF IInv, TablesOK, FlowInv
<1>3. \A g \in Faces : credit'[g] >= credit[g]
  BY <1>1, <1>2, EmitFacts DEF Finalize, Answers
<1>4. DOMAIN pit' = DOMAIN pit \ {k} /\ \A l \in DOMAIN pit' : pit'[l] = pit[l]
  BY <1>1 DEF Finalize, Drop, Restrict
<1>5. IsFiniteSet(DOMAIN pit')
  BY <1>2, <1>4, FS_RemoveElement
<1> QED BY <1>3, <1>4, <1>5, NoMoreWaiting DEF Waiting

\* The removal of a face and changes of the FIB keep the balance.
LEMMA ChangeBalanced ==
  ASSUME IInv, FlowInv, ChangeTopology
  PROVE  Balanced
<1>1. credit \in [Faces -> Int] /\ IsFiniteSet(DOMAIN pit)
  BY DEF IInv, TablesOK, FlowInv
<1>2. Change
  BY DEF ChangeTopology, RemoveFace, AddNextHop, RemoveNextHop, ForgetNonce
<1>3. \A g \in Faces : credit'[g] >= credit[g]
  BY <1>1, <1>2, EmitFacts DEF Change, Answers
<1>4. CASE pit' = pit
  BY <1>1, <1>3, <1>4, NoMoreWaiting
<1>5. ASSUME NEW f \in RemovableFaces, RemoveFace(f)
      PROVE  Balanced
  <2>1. pit' = [k \in DOMAIN pit |-> DeleteInOutRecords(pit[k], f)]
    BY <1>5 DEF RemoveFace
  <2>2. ASSUME NEW k \in DOMAIN pit
        PROVE  DOMAIN DeleteInOutRecords(pit[k], f).ins \subseteq DOMAIN pit[k].ins
    BY DEF IInv, EntriesOK, RecordsOK, IsEntry, DeleteInOutRecords, Drop, Restrict
  <2>3. DOMAIN pit' = DOMAIN pit
        /\ \A g \in Faces : Waiting(pit', g) \subseteq Waiting(pit, g)
    BY <2>1, <2>2 DEF Waiting
  <2> QED BY <1>1, <1>3, <2>3, NoMoreWaiting
<1> QED BY <1>4, <1>5 DEF ChangeTopology, AddNextHop, RemoveNextHop, ForgetNonce

-----------------------------------------------------------------------------

\* No face is ever sent more Data and Nacks than it sent Interests, and what it
\* still waits for is covered by Interests that were not answered.
THEOREM FlowIsBalanced == Spec => []FlowBalance
<1>1. Init => FlowInv
  <2> SUFFICES ASSUME Init PROVE FlowInv
    OBVIOUS
  <2>1. DOMAIN pit = {} /\ \A f \in Faces : credit[f] = 0 /\ Waiting(pit, f) = {}
    BY DEF Init, NoRecords, Waiting
  <2> QED BY <2>1, FS_EmptySet DEF FlowInv, FlowBalance
<1>2. IInv /\ IInv' /\ FlowInv /\ [Next]_vars => FlowInv'
  <2> SUFFICES ASSUME IInv, IInv', FlowInv, [Next]_vars PROVE Balanced
    BY FacesBalanced DEF Balanced, FlowInv
  <2>1. ASSUME pit' = pit, credit' = credit PROVE Balanced
    <3>1. \A g \in Faces : credit'[g] >= credit[g]
      BY <2>1 DEF IInv, TablesOK
    <3> QED BY <2>1, <3>1, NoMoreWaiting DEF FlowInv
  <2>2. CASE Tick \/ UNCHANGED vars
    BY <2>1, <2>2 DEF Tick, vars
  <2>3. ASSUME NEW f \in Faces, NEW i \in Interests, ReceiveInterest(f, i) PROVE Balanced
    BY <2>3, InterestBalanced
  <2>4. ASSUME NEW f \in Faces, NEW d \in Datas, ReceiveData(f, d) PROVE Balanced
    BY <2>4, DataBalanced
  <2>5. ASSUME NEW f \in Faces, NEW k \in Keys, NEW w, NEW nonce, ReceiveNack(f, k, w, nonce)
        PROVE  Balanced
    BY <2>5, NackBalanced
  <2>6. ASSUME NEW k \in Keys, UnsatisfyTimer(k) \/ StragglerTimer(k) PROVE Balanced
    BY <2>6, TimerBalanced
  <2>7. CASE ChangeTopology
    BY <2>7, ChangeBalanced
  <2> QED BY <2>2, <2>3, <2>4, <2>5, <2>6, <2>7 DEF Next
<1>3. FlowInv => FlowBalance
  BY DEF FlowInv
<1> QED BY <1>1, <1>2, <1>3, Invariance, PTL DEF Spec

-----------------------------------------------------------------------------
(* What exactly the pipelines do to one entry                                *)

\* p is the Interest that onOutgoingInterest makes for its face.
IsPicked(k, e, p) ==
  /\ p.name = k.name
  /\ \E g \in PickedInRecord(e, p.face) :
       p.nonce = e.ins[g].nonce /\ p.word = Renamed(k.name, e.ins[g]).shown

\* No Interest that is waited for has the name it was sent with: the word that
\* onOutgoingInterest gave it is gone.
OwnNames(e) == \A f \in DOMAIN e.ins : e.ins[f].shown = NoWord

\* r is an outcome of Interests sent to the faces of T and Nacks to those of N.
Acts(k, e, T, N, r) ==
  /\ DOMAIN r.entry.outs = DOMAIN e.outs \cup Allowed(k, e, T)
  /\ \A f \in DOMAIN e.outs \ Allowed(k, e, T) : r.entry.outs[f] = e.outs[f]
  /\ \A f \in Allowed(k, e, T) : r.entry.outs[f].answered = FALSE
  /\ DOMAIN r.entry.ins = DOMAIN e.ins \ NackableFaces(e, N)
  /\ \A f \in DOMAIN r.entry.ins : r.entry.ins[f] = e.ins[f]
  /\ \A p \in r.sent :
       \/ p.type = "interest" /\ p.face \in Allowed(k, e, T) /\ IsPicked(k, e, p)
       \/ p.type = "nack" /\ p.name = k.name /\ (OwnNames(e) => p.word = NoWord)

\* onOutgoingInterest renews the out-records of the faces it may send to.
LEMMA OutgoingInterestActs ==
  ASSUME now \in Nat, NEW k, NEW e, IsEntry(e), NEW T,
         faces \subseteq Faces, NEW r \in OutgoingInterest(k, e, T)
  PROVE  /\ Acts(k, e, T, {}, r)
         /\ \A p \in r.sent : p.type = "interest"
<1> DEFINE out == Allowed(k, e, T)
<1>1. PICK p : Sends(k, e, out, p, r)
  BY OutgoingInterestShape
<1> DEFINE outs == [f \in DOMAIN e.outs \cup out |->
                      IF f \in out THEN UpdatedOutRecord(e, f, e.ins[p[f]], now)
                      ELSE e.outs[f]]
<1>2. /\ r.entry = [e EXCEPT !.outs = outs]
      /\ r.sent = {InterestPacket(f, k, Renamed(k.name, e.ins[p[f]])) : f \in out}
  BY <1>1 DEF Sends
<1>3. /\ DOMAIN outs = DOMAIN e.outs \cup out
      /\ \A f \in DOMAIN e.outs \ out : outs[f] = e.outs[f]
      /\ \A f \in out : outs[f].answered = FALSE
  BY DEF UpdatedOutRecord
<1>4. \A q \in r.sent : q.type = "interest" /\ q.face \in out /\ IsPicked(k, e, q)
  <2> SUFFICES ASSUME NEW f \in out, NEW q,
                      q = InterestPacket(f, k, Renamed(k.name, e.ins[p[f]]))
               PROVE  q.type = "interest" /\ q.face \in out /\ IsPicked(k, e, q)
    BY <1>2
  <2>1. /\ q.type = "interest" /\ q.face = f /\ q.name = k.name
        /\ q.nonce = e.ins[p[f]].nonce /\ q.word = Renamed(k.name, e.ins[p[f]]).shown
    <3>1. e.ins[p[f]] \in InRecord
      BY <1>1 DEF Sends, IsEntry, IsPartialFunction
    <3>2. Renamed(k.name, e.ins[p[f]]).nonce = e.ins[p[f]].nonce
      BY <3>1, RenamedNonce
    <3> QED BY <3>2 DEF InterestPacket
  <2>2. p[f] \in PickedInRecord(e, f)
    BY <1>1 DEF Sends
  <2> QED BY <2>1, <2>2 DEF IsPicked
<1> HIDE DEF outs
<1>5. r.entry.outs = outs /\ r.entry.ins = e.ins
  BY <1>2 DEF IsEntry
<1>6. NackableFaces(e, {}) = {}
  BY DEF NackableFaces
<1> QED BY <1>3, <1>4, <1>5, <1>6 DEF Acts

\* The empty partial function is NoRecords.
LEMMA EmptyIsNoRecords ==
  ASSUME NEW m, NEW S, NEW T, IsPartialFunction(m, S, T), DOMAIN m = {}
  PROVE  m = NoRecords
BY DEF IsPartialFunction, NoRecords

\* The outcome of a decision: Interests to its targets, Nacks to those it names.
LEMMA PerformActs ==
  ASSUME now \in Nat, NEW k, NEW e, IsEntry(e), faces \subseteq Faces,
         NEW d, d.retx \in RetxInitial .. RetxMax, NEW r \in Perform(k, e, d)
  PROVE  Acts(k, e, d.targets, d.nackTo, r)
<1>1. PICK q \in OutgoingInterest(k, e, d.targets) : r = ThenNackAndReject(k, q, d)
  BY DEF Perform
<1>2. OnlyForwards(k, e, q)
  BY OutgoingInterestFacts
<1>3. /\ Acts(k, e, d.targets, {}, q)
      /\ \A p \in q.sent : p.type = "interest"
  BY OutgoingInterestActs
<1> DEFINE nacked == NackableFaces(q.entry, d.nackTo)
           ins1 == Restrict(q.entry.ins, DOMAIN q.entry.ins \ nacked)
           e1 == [WithoutInRecords(q.entry, nacked) EXCEPT !.retx = d.retx]
           nacks == {NackPacket(f, k.name, q.entry.ins[f].shown, q.entry.ins[f].nonce,
                                d.reason) : f \in nacked}
<1>4. /\ r.entry = IF d.reject THEN InterestReject(e1) ELSE e1
      /\ r.sent = q.sent \cup nacks
  BY <1>1 DEF ThenNackAndReject
<1>5. nacked = NackableFaces(e, d.nackTo)
  BY <1>2 DEF NackableFaces, OnlyForwards
<1>6. /\ IsPartialFunction(ins1, Faces, InRecord)
      /\ DOMAIN ins1 = DOMAIN e.ins \ nacked
      /\ \A f \in DOMAIN ins1 : ins1[f] = e.ins[f]
  <2>1. IsPartialFunction(q.entry.ins, Faces, InRecord) /\ q.entry.ins = e.ins
    BY <1>2 DEF IsEntry, OnlyForwards
  <2> HIDE DEF nacked
  <2>2. /\ IsPartialFunction(ins1, Faces, InRecord)
        /\ DOMAIN ins1 = DOMAIN q.entry.ins \ nacked
        /\ \A f \in DOMAIN q.entry.ins \ nacked : ins1[f] = q.entry.ins[f]
    BY <2>1 DEF IsPartialFunction, Restrict
  <2> QED BY <2>1, <2>2
<1>7. /\ e1.ins = ins1 /\ e1.outs = q.entry.outs /\ IsEntry(e1)
  BY <1>2, <1>6 DEF IsEntry, WithoutInRecords, OnlyForwards
<1> HIDE DEF e1
<1>8. r.entry.ins = ins1 /\ r.entry.outs = q.entry.outs
  <2>1. CASE d.reject
    <3>1. r.entry = InterestReject(e1)
      BY <1>4, <2>1
    <3> QED BY <1>7, <3>1, InterestRejectFacts
  <2>2. CASE ~d.reject
    BY <1>4, <1>7, <2>2
  <2> QED BY <2>1, <2>2
<1>9. \A p \in nacks : p.type = "nack" /\ p.name = k.name /\ (OwnNames(e) => p.word = NoWord)
  <2>1. q.entry.ins = e.ins /\ \A f \in nacked : f \in DOMAIN e.ins
    BY <1>2 DEF NackableFaces, OnlyForwards
  <2> QED BY <2>1 DEF NackPacket, OwnNames
<1> HIDE DEF nacked, nacks, ins1
<1>10. \A p \in r.sent :
         \/ p.type = "interest" /\ p.face \in Allowed(k, e, d.targets) /\ IsPicked(k, e, p)
         \/ p.type = "nack" /\ p.name = k.name /\ (OwnNames(e) => p.word = NoWord)
  BY <1>3, <1>4, <1>9 DEF Acts
<1> QED BY <1>3, <1>5, <1>6, <1>8, <1>10 DEF Acts

-----------------------------------------------------------------------------
(* What the strategies decide on an arriving Interest                        *)

\* The in-record of the arriving Interest is the last renewed one.
Renewed(e, f, i, e2) ==
  /\ e2.ins[f].nonce = i.nonce /\ e2.ins[f].word = i.word /\ e2.ins[f].order = events
  /\ e2.ins[f].shown = NoWord
  /\ \A g \in DOMAIN e.ins \ {f} : e2.ins[g] = e.ins[g]

\* The faces that are sent the Interest, and those that are sent a Nack.
Chosen(k, e, f, i, T, N) ==
  IF i.hop # NoHop THEN T = {i.hop} /\ N = {}
  ELSE \E hops \in LookupFib(k.name) :
         \E d \in AfterReceiveInterest(StrategyOf[k.name], e, k.name, hops, f, now) :
           T = d.targets /\ N = d.nackTo

\* r is an outcome of onContentStoreMiss, and e2 the entry in which the arriving
\* Interest is recorded.
Miss(k, e, f, i, e2, T, N, r) ==
  /\ Armed(e, f, e2) /\ Renewed(e, f, i, e2)
  /\ Chosen(k, e2, f, i, T, N)
  /\ Performs(k, e2, r) /\ Acts(k, e2, T, N, r)

\* The in-record that insertOrUpdateInRecord leaves for the arriving Interest.
LEMMA RenewedEntry ==
  ASSUME NEW e, IsEntry(e), NEW f, NEW i, NEW t
  PROVE  Renewed(e, f, i, [InsertOrUpdateInRecord(e, f, i, now, events) EXCEPT !.unsatisfy = t])
<1> DEFINE rec == [nonce |-> i.nonce, order |-> events, lifetime |-> i.lifetime,
                   expiry |-> now + i.lifetime, word |-> i.word, shown |-> NoWord]
           ins1 == Put(e.ins, f, rec)
           e1 == InsertOrUpdateInRecord(e, f, i, now, events)
           e2 == [e1 EXCEPT !.unsatisfy = t]
<1>1. /\ rec.nonce = i.nonce /\ rec.word = i.word /\ rec.order = events
      /\ rec.shown = NoWord
  OBVIOUS
<1> HIDE DEF rec
<1>2. ins1[f] = rec /\ \A g \in DOMAIN e.ins \ {f} : ins1[g] = e.ins[g]
  BY DEF Put
<1>3. e1 = [e EXCEPT !.ins = ins1]
  BY DEF InsertOrUpdateInRecord, rec
<1> HIDE DEF ins1, e1
<1>4. e2.ins = ins1
  BY <1>3 DEF IsEntry
<1> HIDE DEF e2
<1>5. Renewed(e, f, i, e2)
  BY <1>1, <1>2, <1>4 DEF Renewed
<1> QED BY <1>5 DEF e2, e1

\* Every outcome of onContentStoreMiss is one of these.
LEMMA AfterMissActs ==
  ASSUME now \in Nat, events \in Nat, faces \subseteq Faces, NEW k \in Keys,
         NEW e, IsEntry(e), NEW f \in Faces, NEW i \in Interest,
         NEW r \in AfterMiss(k, e, f, i)
  PROVE  \E e2, T, N : Miss(k, e, f, i, e2, T, N, r)
<1> DEFINE e1 == InsertOrUpdateInRecord(e, f, i, now, events)
           Arm(t) == [e1 EXCEPT !.unsatisfy = t]
<1>1. \A t \in LastExpiries(e1) : Armed(e, f, Arm(t)) /\ Renewed(e, f, i, Arm(t))
  BY ArmedEntry, RenewedEntry
<1>2. CASE i.hop = NoHop
  <2>1. PICK t \in LastExpiries(e1) :
          \E hops \in LookupFib(k.name) :
            \E d \in AfterReceiveInterest(StrategyOf[k.name], Arm(t), k.name, hops, f, now) :
              r \in Perform(k, Arm(t), d)
    BY <1>2 DEF AfterMiss
  <2> HIDE DEF Arm
  <2>2. IsEntry(Arm(t))
    BY <1>1, <2>1 DEF Armed
  <2>3. StrategyOf[k.name] \in StrategyNames
    BY ForwarderAssumption DEF Keys
  <2>4. PICK hops \in LookupFib(k.name) :
          \E d \in AfterReceiveInterest(StrategyOf[k.name], Arm(t), k.name, hops, f, now) :
            r \in Perform(k, Arm(t), d)
    BY <2>1
  <2>5. PICK d \in AfterReceiveInterest(StrategyOf[k.name], Arm(t), k.name, hops, f, now) :
          r \in Perform(k, Arm(t), d)
    BY <2>4
  <2>6. d.retx \in RetxInitial .. RetxMax
    BY <2>2, <2>3, <2>5, RetxAfterInterest
  <2>7. Performs(k, Arm(t), r) /\ Acts(k, Arm(t), d.targets, d.nackTo, r)
    BY <2>2, <2>5, <2>6, PerformFacts, PerformActs
  <2>8. Chosen(k, Arm(t), f, i, d.targets, d.nackTo)
    BY <1>2, <2>4, <2>5 DEF Chosen
  <2>9. Miss(k, e, f, i, Arm(t), d.targets, d.nackTo, r)
    BY <1>1, <2>1, <2>7, <2>8 DEF Miss
  <2> QED BY <2>9
<1>3. CASE i.hop # NoHop
  <2>1. PICK t \in LastExpiries(e1) : r \in OutgoingInterest(k, Arm(t), {i.hop})
    BY <1>3 DEF AfterMiss
  <2> HIDE DEF Arm
  <2>2. IsEntry(Arm(t))
    BY <1>1, <2>1 DEF Armed
  <2>3. OnlyForwards(k, Arm(t), r) /\ Acts(k, Arm(t), {i.hop}, {}, r)
    BY <2>1, <2>2, OutgoingInterestFacts, OutgoingInterestActs
  <2>4. Miss(k, e, f, i, Arm(t), {i.hop}, {}, r)
    BY <1>1, <1>3, <2>1, <2>3, ForwardingIsPerforming DEF Miss, Chosen
  <2> QED BY <2>4
<1> QED BY <1>2, <1>3

\* A trigger sends Interests or Nacks, never both.
LEMMA NackedOrForwarded ==
  ASSUME NEW e, NEW n, NEW hops, NEW f, NEW t, NEW s \in StrategyNames,
         NEW d \in AfterReceiveInterest(s, e, n, hops, f, t)
  PROVE  d.targets = {} \/ d.nackTo = {}
<1>1. /\ \A x : Wait(x).targets = {} /\ Wait(x).nackTo = {}
      /\ \A x, T : SendTo(x, T).nackTo = {}
      /\ \A x : Reject(x).targets = {} /\ Reject(x).nackTo = {}
  BY DEF Wait, SendTo, Reject
<1>2. CASE s \in {"best-route", "client-control"}
  BY <1>1, <1>2 DEF AfterReceiveInterest, BestRouteAfterInterest
<1>3. CASE s = "multicast"
  <2>1. d = [SendTo(e, UsableHops(e, n, hops, t)) EXCEPT !.reject = TRUE]
    BY <1>3 DEF AfterReceiveInterest, MulticastAfterInterest
  <2> QED BY <2>1 DEF SendTo, Wait
<1>4. CASE s = "best-route-v4"
  <2>1. d \in BestRoute2AfterInterest(e, n, hops, f, t)
    BY <1>4 DEF AfterReceiveInterest
  <2>2. CASE d = Wait(e)
    BY <1>1, <2>2
  <2>3. CASE d \in BestRoute2AfterNew(e, n, hops, f)
    <3>1. [Reject(e) EXCEPT !.nackTo = {f}, !.reason = NO_ROUTE].targets = {}
      BY DEF Reject, Wait
    <3> QED BY <1>1, <2>3, <3>1 DEF BestRoute2AfterNew
  <2>4. CASE d \in BestRoute2AfterRetx(BackOff(e), n, hops, f, t)
    BY <1>1, <2>4 DEF BestRoute2AfterRetx
  <2> QED BY <2>1, <2>2, <2>3, <2>4 DEF BestRoute2AfterInterest
<1> QED BY <1>2, <1>3, <1>4 DEF StrategyNames

\* best-route/v4 never sends an Interest back to where it came from.
LEMMA BestRoute2NotBack ==
  ASSUME NEW e, NEW n, NEW hops, NEW f, NEW t,
         NEW d \in AfterReceiveInterest("best-route-v4", e, n, hops, f, t)
  PROVE  f \notin d.targets
<1>1. /\ \A x : Wait(x).targets = {}
      /\ \A x, T : SendTo(x, T).targets = T
  BY DEF Wait, SendTo
<1>2. d \in BestRoute2AfterInterest(e, n, hops, f, t)
  BY DEF AfterReceiveInterest
<1>3. CASE d = Wait(e)
  BY <1>1, <1>3
<1>4. \A x : f \notin EligibleHops(x, n, hops, f) /\ f \notin UnusedHops(x, n, hops, f, t)
  BY DEF EligibleHops, UnusedHops
<1>5. CASE d \in BestRoute2AfterNew(e, n, hops, f)
  <2>1. [Reject(e) EXCEPT !.nackTo = {f}, !.reason = NO_ROUTE].targets = {}
    BY DEF Reject, Wait
  <2>2. CASE \E g \in EligibleHops(e, n, hops, f) : d = SendTo(e, {g})
    BY <1>1, <1>4, <2>2
  <2> QED BY <1>5, <2>1, <2>2 DEF BestRoute2AfterNew, LowestCost
<1>6. CASE d \in BestRoute2AfterRetx(BackOff(e), n, hops, f, t)
  <2> DEFINE b == BackOff(e)
             S == EligibleHops(b, n, hops, f) \cup UnusedHops(b, n, hops, f, t)
  <2>1. d = Wait(b) \/ \E g \in S : d = SendTo(b, {g})
    BY <1>6 DEF BestRoute2AfterRetx, LowestCost, EarliestUsed
  <2>2. f \notin S
    BY <1>4
  <2>3. Wait(b).targets = {}
    BY <1>1
  <2>4. ASSUME NEW g \in S, d = SendTo(b, {g})
        PROVE  f \notin d.targets
    <3>1. d.targets = {g}
      BY <1>1, <2>4
    <3> HIDE DEF S
    <3> QED BY <2>2, <3>1
  <2> HIDE DEF b, S
  <2> QED BY <2>1, <2>3, <2>4
<1> QED BY <1>2, <1>3, <1>5, <1>6 DEF BestRoute2AfterInterest

\* When no upstream is pending, best-route/v4 sends the Interest to an eligible
\* next hop, and returns a Nack if there is none.
LEMMA BestRoute2Acts ==
  ASSUME NEW e, NEW n, NEW hops, NEW f, NEW t, ~HasPendingOutRecords(e, t),
         NEW d \in AfterReceiveInterest("best-route-v4", e, n, hops, f, t)
  PROVE  \/ d.nackTo = {f} /\ d.targets = {}
         \/ \E g \in DOMAIN hops : ~ViolatesScope(e, n, g) /\ d.targets = {g}
<1>1. d \in BestRoute2AfterNew(e, n, hops, f)
  BY DEF AfterReceiveInterest, BestRoute2AfterInterest, RetxSuppression
<1> DEFINE nacking == [Reject(e) EXCEPT !.nackTo = {f}, !.reason = NO_ROUTE]
<1>2. nacking.targets = {} /\ nacking.nackTo = {f}
  BY DEF Reject, Wait
<1>3. \A T : SendTo(e, T).targets = T
  BY DEF SendTo, Wait
<1> HIDE DEF nacking
<1>4. d = nacking \/ \E g \in EligibleHops(e, n, hops, f) : d = SendTo(e, {g})
  BY <1>1 DEF BestRoute2AfterNew, LowestCost, nacking
<1> QED BY <1>2, <1>3, <1>4 DEF EligibleHops

-----------------------------------------------------------------------------
(* The inductive invariant: what holds of every entry at time t after n      *)
(* events.  In-records are older than the next packet, which is how the last *)
(* renewed one is told; a history field says no more than the record; and    *)
(* the straggler timer runs only for entries that nobody waits for.          *)

EntryOK(e, t, n) ==
  /\ \A f \in DOMAIN e.ins : e.ins[f].order < n
  /\ \A f \in DOMAIN e.outs : e.outs[f].answered => e.outs[f].nack # NoNack
  /\ e.straggler.at # NEVER =>
       IF e.straggler.satisfied THEN e.ins = NoRecords ELSE ~HasPendingOutRecords(e, t)

PipelineOK == \A k \in DOMAIN pit : EntryOK(pit[k], now, events)

\* Time and events only take pending out-records away.
LEMMA EntryStaysOK ==
  ASSUME NEW e, IsEntry(e), NEW t \in Nat, NEW n \in Nat, EntryOK(e, t, n),
         NEW t2 \in Nat, t2 >= t, NEW n2 \in Nat, n2 >= n
  PROVE  EntryOK(e, t2, n2)
<1>1. /\ \A f \in DOMAIN e.ins : e.ins[f].order \in Nat
      /\ \A f \in DOMAIN e.outs : e.outs[f].expiry \in Nat
  BY DEF IsEntry, IsPartialFunction, InRecord, OutRecord, Times
<1>2. HasPendingOutRecords(e, t2) => HasPendingOutRecords(e, t)
  BY <1>1 DEF HasPendingOutRecords
<1>3. \A f \in DOMAIN e.ins : e.ins[f].order < n2
  BY <1>1 DEF EntryOK
<1> QED BY <1>2, <1>3 DEF EntryOK

\* The entry of an arriving Interest, with or without its timers.
LEMMA EntryForIsOK ==
  ASSUME PipelineOK, NEW i
  PROVE  EntryOK(EntryFor(i), now, events)
<1>1. NewEntry.ins = NoRecords /\ NewEntry.outs = NoRecords /\ NewEntry.straggler.at = NEVER
  BY DEF NewEntry, NoStraggler
<1>2. EntryOK(NewEntry, now, events)
  BY <1>1, NoRecordsType DEF EntryOK
<1> QED BY <1>2 DEF EntryFor, PipelineOK

\* onContentStoreMiss leaves such an entry.
LEMMA MissIsOK ==
  ASSUME now \in Nat, events \in Nat, NEW k, NEW e, IsEntry(e), e.straggler.at = NEVER,
         EntryOK(e, now, events),
         NEW f, NEW i, NEW e2, NEW T, NEW N, NEW r, Miss(k, e, f, i, e2, T, N, r)
  PROVE  EntryOK(r.entry, now, events + 1)
<1>1. Armed(e, f, e2) /\ Renewed(e, f, i, e2) /\ Performs(k, e2, r) /\ Acts(k, e2, T, N, r)
  BY DEF Miss
<1>2. \A g \in DOMAIN e2.ins : e2.ins[g].order < events + 1
  <2> SUFFICES ASSUME NEW g \in DOMAIN e2.ins PROVE e2.ins[g].order < events + 1
    OBVIOUS
  <2>1. CASE g = f
    BY <1>1, <2>1 DEF Renewed
  <2>2. CASE g # f
    <3>1. g \in DOMAIN e.ins /\ e2.ins[g] = e.ins[g]
      BY <1>1, <2>2 DEF Armed, Renewed
    <3>2. e.ins[g].order \in Nat /\ e.ins[g].order < events
      BY <3>1 DEF IsEntry, IsPartialFunction, InRecord, EntryOK
    <3> QED BY <3>1, <3>2
  <2> QED BY <2>1, <2>2
<1>3. \A g \in DOMAIN r.entry.ins : r.entry.ins[g].order < events + 1
  BY <1>1, <1>2 DEF Acts
<1>4. \A g \in DOMAIN r.entry.outs : r.entry.outs[g].answered => r.entry.outs[g].nack # NoNack
  <2>1. e2.outs = e.outs
    BY <1>1 DEF Armed
  <2> QED BY <1>1, <2>1 DEF Acts, EntryOK
<1>5. \/ r.entry.straggler.at = NEVER
      \/ r.entry.straggler.satisfied = FALSE /\ ~HasPendingOutRecords(r.entry, now)
  BY <1>1 DEF Performs, Armed
<1>6. HasPendingOutRecords(r.entry, now + 1) => HasPendingOutRecords(r.entry, now)
  <2>1. \A g \in DOMAIN r.entry.outs : r.entry.outs[g].expiry \in Nat
    BY <1>1 DEF Performs, IsEntry, IsPartialFunction, OutRecord, Times
  <2> QED BY <2>1 DEF HasPendingOutRecords
<1> QED BY <1>3, <1>4, <1>5 DEF EntryOK

\* onIncomingNack leaves such an entry: no Interest is sent, so no upstream
\* becomes pending, and a satisfied entry has no downstream to answer.
LEMMA NackIsOK ==
  ASSUME now \in Nat, NEW k, NEW e, IsEntry(e), EntryOK(e, now, events),
         NEW f \in DOMAIN e.outs, NEW reason \in NackReasons,
         NEW r, NEW N, Performs(k, SetIncomingNack(e, f, reason), r),
         Acts(k, SetIncomingNack(e, f, reason), {}, N, r)
  PROVE  EntryOK(r.entry, now, events)
<1> DEFINE n == SetIncomingNack(e, f, reason)
<1>1. /\ IsEntry(n) /\ n.ins = e.ins /\ DOMAIN n.outs = DOMAIN e.outs
      /\ n.straggler = e.straggler
  BY NackedEntry
<1>2. \A g \in DOMAIN e.outs : n.outs[g] = IF g = f THEN [e.outs[g] EXCEPT !.nack = reason,
                                                                  !.answered = TRUE]
                                           ELSE e.outs[g]
  BY DEF SetIncomingNack, IsEntry
<1>3. reason \in Nat /\ reason # NoNack /\ \A g \in DOMAIN e.outs : e.outs[g] \in OutRecord
  BY ValuesAssumption DEF NoNack, IsEntry, IsPartialFunction
<1>4. n.outs[f].nack = reason
  BY <1>2, <1>3 DEF OutRecord
<1> HIDE DEF n
<1>5. Performs(k, n, r) /\ Acts(k, n, {}, N, r)
  BY DEF n
<1>6. Allowed(k, n, {}) = {}
  BY DEF Allowed
<1>7. DOMAIN r.entry.outs = DOMAIN e.outs /\ \A g \in DOMAIN e.outs : r.entry.outs[g] = n.outs[g]
  BY <1>1, <1>5, <1>6 DEF Acts
<1>8. \A g \in DOMAIN r.entry.outs : r.entry.outs[g].answered => r.entry.outs[g].nack # NoNack
  BY <1>2, <1>3, <1>4, <1>7 DEF EntryOK
<1>9. \A g \in DOMAIN r.entry.ins : g \in DOMAIN e.ins /\ r.entry.ins[g] = e.ins[g]
  BY <1>1, <1>5 DEF Acts
<1>10. HasPendingOutRecords(r.entry, now) => HasPendingOutRecords(e, now)
  BY <1>2, <1>3, <1>4, <1>7 DEF HasPendingOutRecords
<1>11. e.ins = NoRecords => r.entry.ins = NoRecords
  <2> SUFFICES ASSUME e.ins = NoRecords PROVE r.entry.ins = NoRecords
    OBVIOUS
  <2>1. DOMAIN r.entry.ins = {}
    BY <1>9, NoRecordsType
  <2>2. IsPartialFunction(r.entry.ins, Faces, InRecord)
    BY <1>5 DEF Performs, IsEntry
  <2> QED BY <2>1, <2>2, EmptyIsNoRecords
<1>12. \/ r.entry.straggler = e.straggler
       \/ r.entry.straggler.satisfied = FALSE /\ ~HasPendingOutRecords(r.entry, now)
  BY <1>1, <1>5 DEF Performs
<1>13. r.entry.straggler.at # NEVER =>
         IF r.entry.straggler.satisfied THEN r.entry.ins = NoRecords
         ELSE ~HasPendingOutRecords(r.entry, now)
  BY <1>10, <1>11, <1>12 DEF EntryOK
<1>14. \A g \in DOMAIN r.entry.ins : r.entry.ins[g].order < events
  BY <1>9 DEF EntryOK
<1> QED BY <1>8, <1>13, <1>14 DEF EntryOK

-----------------------------------------------------------------------------
(* Every action keeps the invariant                                          *)

\* A step that changes one entry, or makes it, and leaves time alone.
LEMMA PutKeepsOK ==
  ASSUME IInv, PipelineOK, NEW k \in Keys, NEW e, now' = now, events' \in Nat,
         events' >= events, EntryOK(e, now, events'), pit' = Put(pit, k, e)
  PROVE  PipelineOK'
<1>1. now \in Nat /\ events \in Nat /\ \A l \in DOMAIN pit : IsEntry(pit[l])
  BY DEF IInv, TablesOK, EntriesOK, RecordsOK
<1>2. \A l \in DOMAIN pit : EntryOK(pit[l], now, events')
  <2> SUFFICES ASSUME NEW l \in DOMAIN pit PROVE EntryOK(pit[l], now, events')
    OBVIOUS
  <2>1. EntryOK(pit[l], now, events)
    BY DEF PipelineOK
  <2>2. IsEntry(pit[l]) /\ now >= now
    BY <1>1
  <2> QED BY <1>1, <2>1, <2>2, EntryStaysOK
<1>3. DOMAIN pit' = DOMAIN pit \cup {k} /\ \A l \in DOMAIN pit' : pit'[l] = IF l = k THEN e ELSE pit[l]
  BY DEF Put
<1>4. \A l \in DOMAIN pit' : EntryOK(pit'[l], now, events')
  BY <1>2, <1>3
<1> QED BY <1>4 DEF PipelineOK

\* A step that leaves the PIT alone or takes entries out of it.
LEMMA FewerEntriesOK ==
  ASSUME IInv, PipelineOK, now' \in Nat, now' >= now, events' \in Nat, events' >= events,
         DOMAIN pit' \subseteq DOMAIN pit, \A l \in DOMAIN pit' : pit'[l] = pit[l]
  PROVE  PipelineOK'
<1> SUFFICES ASSUME NEW l \in DOMAIN pit' PROVE EntryOK(pit[l], now', events')
  BY DEF PipelineOK
<1>1. now \in Nat /\ events \in Nat /\ l \in DOMAIN pit /\ IsEntry(pit[l])
  BY DEF IInv, TablesOK, EntriesOK, RecordsOK
<1>2. EntryOK(pit[l], now, events)
  BY <1>1 DEF PipelineOK
<1> QED BY <1>1, <1>2, EntryStaysOK

\* onIncomingInterest
LEMMA InterestKeepsOK ==
  ASSUME IInv, PipelineOK, NEW f \in Faces, NEW i \in Interests, ReceiveInterest(f, i)
  PROVE  PipelineOK'
<1>1. /\ now \in Nat /\ events \in Nat /\ faces \subseteq Faces /\ i \in Interest
      /\ now' = now /\ events' = events + 1
  BY ForwarderAssumption
     DEF IInv, TablesOK, ReceiveInterest, InterestViolatesScope, LoopInDeadNonceList,
         LoopInPit, ContentStoreHit, ContentStoreMiss, InterestLoop, Accepts, Arrival, Received
<1>2. /\ RecordsOK(Key(i), EntryFor(i), faces) /\ Key(i) \in Keys
      /\ EntryOK(EntryFor(i), now, events)
  BY EntryForOK, EntryForIsOK
<1>3. CASE pit' = pit
  <2>1. now' >= now /\ events' >= events /\ now' \in Nat /\ events' \in Nat
    BY <1>1
  <2> QED BY <1>3, <2>1, FewerEntriesOK
<1>4. ASSUME NEW d \in cs, ContentStoreHit(f, i, d)
      PROVE  PipelineOK'
  <2> DEFINE e1 == CancelTimers(EntryFor(i))
             e2 == SetStragglerTimer(e1, TRUE, d.stale)
  <2>1. /\ IsEntry(e1) /\ e1.ins = EntryFor(i).ins /\ e1.outs = EntryFor(i).outs
    BY <1>2, CancelTimersType DEF RecordsOK
  <2>2. d.stale \in BOOLEAN
    BY DEF IInv, TablesOK, Data
  <2> HIDE DEF e1
  <2>3. e2.ins = e1.ins /\ e2.outs = e1.outs /\ e2.straggler.satisfied = TRUE
    BY <1>1, <2>1, <2>2, SetStragglerTimerType
  <2>4. pit' = Put(pit, Key(i), e2) /\ DOMAIN EntryFor(i).ins = {}
    BY <1>4 DEF ContentStoreHit, e1
  <2> HIDE DEF e2
  <2>5. e1.ins = NoRecords
    BY <2>1, <2>4, EmptyIsNoRecords DEF IsEntry
  <2>6. EntryOK(e2, now, events')
    BY <1>2, <2>1, <2>3, <2>4, <2>5 DEF EntryOK
  <2>7. events' \in Nat /\ events' >= events
    BY <1>1
  <2> QED BY <1>1, <1>2, <2>4, <2>6, <2>7, PutKeepsOK
<1>5. CASE ContentStoreMiss(f, i)
  <2> DEFINE k == Key(i)
             e == CancelTimers(EntryFor(i))
  <2>1. PICK r \in AfterMiss(k, e, f, i) : pit' = Put(pit, k, r.entry)
    BY <1>5 DEF ContentStoreMiss
  <2>2. /\ IsEntry(e) /\ e.ins = EntryFor(i).ins /\ e.outs = EntryFor(i).outs
        /\ e.straggler.at = NEVER
    BY <1>2, CancelTimersType DEF RecordsOK, NoStraggler
  <2> HIDE DEF k, e
  <2>3. k \in Keys
    BY <1>2 DEF k
  <2>4. PICK e2, T, N : Miss(k, e, f, i, e2, T, N, r)
    BY <1>1, <2>1, <2>2, <2>3, AfterMissActs
  <2>5. EntryOK(e, now, events)
    BY <1>2, <2>2 DEF EntryOK
  <2>6. EntryOK(r.entry, now, events + 1)
    BY <1>1, <2>2, <2>4, <2>5, MissIsOK
  <2>7. events' \in Nat /\ events' >= events /\ EntryOK(r.entry, now, events')
    BY <1>1, <2>6
  <2> QED BY <1>1, <2>1, <2>3, <2>7, PutKeepsOK
<1> QED BY <1>3, <1>4, <1>5
     DEF ReceiveInterest, InterestViolatesScope, LoopInDeadNonceList, LoopInPit, InterestLoop

\* What onIncomingData leaves of an entry that the Data satisfies.
LEMMA SatisfiedEntry ==
  ASSUME now \in Nat, NEW e, IsEntry(e), NEW f, NEW d \in Data
  PROVE  /\ Satisfied(e, f, d).ins = NoRecords
         /\ Satisfied(e, f, d).straggler.satisfied = TRUE
         /\ DOMAIN Satisfied(e, f, d).outs = DOMAIN e.outs \ {f}
         /\ \A g \in DOMAIN e.outs \ {f} : Satisfied(e, f, d).outs[g] = e.outs[g]
<1> DEFINE e1 == SetStragglerTimer(CancelTimers(e), TRUE, d.stale)
           outs == Drop(e.outs, f)
           s == [e1 EXCEPT !.ins = NoRecords, !.outs = outs]
<1>1. d.stale \in BOOLEAN
  BY DEF Data
<1>2. IsEntry(e1) /\ e1.straggler.satisfied = TRUE
  BY <1>1, CancelTimersType, SetStragglerTimerType
<1>3. DOMAIN outs = DOMAIN e.outs \ {f} /\ \A g \in DOMAIN e.outs \ {f} : outs[g] = e.outs[g]
  BY DEF Drop, Restrict
<1> HIDE DEF e1, outs
<1>4. s.ins = NoRecords /\ s.outs = outs /\ s.straggler = e1.straggler
  BY <1>2 DEF IsEntry
<1> HIDE DEF s
<1>5. /\ s.ins = NoRecords /\ s.straggler.satisfied = TRUE
      /\ DOMAIN s.outs = DOMAIN e.outs \ {f}
      /\ \A g \in DOMAIN e.outs \ {f} : s.outs[g] = e.outs[g]
  BY <1>2, <1>3, <1>4
<1> QED BY <1>5 DEF Satisfied, s, e1, outs

\* onIncomingData
LEMMA DataKeepsOK ==
  ASSUME IInv, PipelineOK, NEW f \in Faces, NEW d \in Datas, ReceiveData(f, d)
  PROVE  PipelineOK'
<1>1. /\ now \in Nat /\ events \in Nat /\ d \in Data /\ now' = now
      /\ events' = events \/ events' = events + 1
  BY ForwarderAssumption
     DEF IInv, TablesOK, ReceiveData, DataViolatesScope, UnsolicitedData, SolicitedData,
         Arrival, Received
<1>2. events' \in Nat /\ events' >= events /\ now' \in Nat /\ now' >= now
  BY <1>1
<1>3. CASE pit' = pit
  BY <1>2, <1>3, FewerEntriesOK
<1>4. CASE SolicitedData(f, d)
  <2> SUFFICES ASSUME NEW l \in DOMAIN pit' PROVE EntryOK(pit'[l], now', events')
    BY DEF PipelineOK
  <2>1. l \in DOMAIN pit /\ pit'[l] = IF l \in DataMatches(d) THEN Satisfied(pit[l], f, d)
                                      ELSE pit[l]
    BY <1>4 DEF SolicitedData
  <2>2. IsEntry(pit[l]) /\ EntryOK(pit[l], now, events)
    BY <2>1 DEF IInv, EntriesOK, RecordsOK, PipelineOK
  <2>3. EntryOK(pit[l], now', events')
    BY <1>1, <1>2, <2>2, EntryStaysOK
  <2>4. EntryOK(Satisfied(pit[l], f, d), now', events')
    <3> DEFINE s == Satisfied(pit[l], f, d)
               e == pit[l]
    <3>1. now \in Nat /\ IsEntry(e) /\ d \in Data
      BY <1>1, <2>2
    <3> HIDE DEF e
    <3>2. /\ Satisfied(e, f, d).ins = NoRecords
          /\ Satisfied(e, f, d).straggler.satisfied = TRUE
          /\ DOMAIN Satisfied(e, f, d).outs = DOMAIN e.outs \ {f}
          /\ \A g \in DOMAIN e.outs \ {f} : Satisfied(e, f, d).outs[g] = e.outs[g]
      BY ONLY <3>1, SatisfiedEntry
    <3>3. /\ s.ins = NoRecords /\ s.straggler.satisfied = TRUE
          /\ DOMAIN s.outs = DOMAIN e.outs \ {f}
          /\ \A g \in DOMAIN e.outs \ {f} : s.outs[g] = e.outs[g]
      BY <3>2 DEF e
    <3>4. EntryOK(e, now', events')
      BY <2>3 DEF e
    <3> HIDE DEF s
    <3>5. EntryOK(s, now', events')
      BY <3>3, <3>4, NoRecordsType DEF EntryOK
    <3> QED BY <3>5 DEF s
  <2> QED BY <2>1, <2>3, <2>4
<1> QED BY <1>3, <1>4 DEF ReceiveData, DataViolatesScope, UnsolicitedData

\* onIncomingNack
LEMMA NackKeepsOK ==
  ASSUME IInv, PipelineOK, NEW f \in Faces, NEW k \in Keys, NEW w, NEW nonce,
         ReceiveNack(f, k, w, nonce)
  PROVE  PipelineOK'
<1>1. /\ now \in Nat /\ events \in Nat /\ faces \subseteq Faces /\ now' = now
      /\ events' = events \/ events' = events + 1
  BY DEF IInv, TablesOK, ReceiveNack, DropNack, AcceptNack, Arrival, Received
<1>2. events' \in Nat /\ events' >= events /\ now' \in Nat /\ now' >= now
  BY <1>1
<1>3. CASE DropNack(f, k, w, nonce)
  BY <1>2, <1>3, FewerEntriesOK DEF DropNack
<1>4. ASSUME NEW reason \in NackReasons, AcceptNack(f, k, w, nonce, reason)
      PROVE  PipelineOK'
  <2> DEFINE e == SetIncomingNack(pit[k], f, reason)
  <2>1. PICK d \in AfterReceiveNack(StrategyOf[k.name], e) :
          \E r \in Perform(k, e, d) : pit' = Put(pit, k, r.entry)
    BY <1>4 DEF AcceptNack
  <2>2. PICK r \in Perform(k, e, d) : pit' = Put(pit, k, r.entry)
    BY <2>1
  <2>3. k \in DOMAIN pit /\ f \in DOMAIN pit[k].outs
    BY <1>4 DEF AcceptNack, NackMatches
  <2>4. IsEntry(pit[k]) /\ EntryOK(pit[k], now, events)
    BY <2>3 DEF IInv, EntriesOK, RecordsOK, PipelineOK
  <2>5. IsEntry(e)
    BY <2>3, <2>4, NackedEntry
  <2> HIDE DEF e
  <2>6. d.retx \in RetxInitial .. RetxMax /\ d.targets = {}
    BY <2>5, RetxAfterNack DEF IsEntry
  <2>7. Performs(k, e, r) /\ Acts(k, e, d.targets, d.nackTo, r)
    BY <1>1, <2>2, <2>5, <2>6, PerformFacts, PerformActs
  <2>8. Performs(k, SetIncomingNack(pit[k], f, reason), r)
        /\ Acts(k, SetIncomingNack(pit[k], f, reason), {}, d.nackTo, r)
    BY <2>6, <2>7 DEF e
  <2>9. EntryOK(r.entry, now, events)
    BY <1>1, <2>3, <2>4, <2>8, NackIsOK
  <2>10. IsEntry(r.entry)
    BY <2>7 DEF Performs
  <2>11. EntryOK(r.entry, now, events')
    BY <1>1, <1>2, <2>9, <2>10, EntryStaysOK
  <2> QED BY <1>1, <1>2, <2>2, <2>11, PutKeepsOK
<1> QED BY <1>3, <1>4 DEF ReceiveNack

\* The timers, which take an entry out, and the changes of the topology.
LEMMA OthersKeepOK ==
  ASSUME IInv, PipelineOK,
         \/ \E k \in Keys : UnsatisfyTimer(k) \/ StragglerTimer(k)
         \/ Tick
         \/ ChangeTopology
  PROVE  PipelineOK'
<1>1. now \in Nat /\ events \in Nat
  BY DEF IInv, TablesOK
<1>2. ASSUME NEW k \in Keys, UnsatisfyTimer(k) \/ StragglerTimer(k)
      PROVE  PipelineOK'
  <2>1. PICK needDnl : Finalize(k, needDnl)
    BY <1>2 DEF UnsatisfyTimer, StragglerTimer
  <2>2. /\ now' = now /\ events' = events
        /\ DOMAIN pit' \subseteq DOMAIN pit /\ \A l \in DOMAIN pit' : pit'[l] = pit[l]
    BY <2>1 DEF Finalize, Drop, Restrict
  <2>3. now' \in Nat /\ now' >= now /\ events' \in Nat /\ events' >= events
    BY <1>1, <2>2
  <2> QED BY <2>2, <2>3, FewerEntriesOK
<1>3. CASE Tick
  <2>1. pit' = pit /\ now' = now + 1 /\ events' = events
    BY <1>3 DEF Tick
  <2>2. now' \in Nat /\ now' >= now /\ events' \in Nat /\ events' >= events
    BY <1>1, <2>1
  <2> QED BY <2>1, <2>2, FewerEntriesOK
<1>4. CASE ChangeTopology
  <2>1. Change
    BY <1>4 DEF ChangeTopology, RemoveFace, AddNextHop, RemoveNextHop, ForgetNonce
  <2>2. /\ now' = now /\ events' = events + 1
        /\ now' \in Nat /\ now' >= now /\ events' \in Nat /\ events' >= events
    BY <1>1, <2>1 DEF Change
  <2>3. CASE pit' = pit
    BY <2>2, <2>3, FewerEntriesOK
  <2>4. ASSUME NEW f, pit' = [k \in DOMAIN pit |-> DeleteInOutRecords(pit[k], f)]
        PROVE  PipelineOK'
    <3> SUFFICES ASSUME NEW l \in DOMAIN pit' PROVE EntryOK(pit'[l], now', events')
      BY DEF PipelineOK
    <3> DEFINE e == pit[l]
               s == DeleteInOutRecords(e, f)
    <3>1. l \in DOMAIN pit /\ pit'[l] = s
      BY <2>4
    <3>2. IsEntry(e) /\ EntryOK(e, now, events)
      BY <3>1 DEF IInv, EntriesOK, RecordsOK, PipelineOK
    <3> HIDE DEF e
    <3>3. EntryOK(e, now', events')
      BY <1>1, <2>2, <3>2, EntryStaysOK
    <3>4. /\ DOMAIN s.ins = DOMAIN e.ins \ {f} /\ \A g \in DOMAIN s.ins : s.ins[g] = e.ins[g]
          /\ DOMAIN s.outs = DOMAIN e.outs \ {f} /\ \A g \in DOMAIN s.outs : s.outs[g] = e.outs[g]
          /\ s.straggler = e.straggler
      <4> DEFINE ins == Drop(e.ins, f)
                 outs == Drop(e.outs, f)
      <4>1. s = [e EXCEPT !.ins = ins, !.outs = outs]
        BY DEF DeleteInOutRecords
      <4>2. /\ DOMAIN ins = DOMAIN e.ins \ {f} /\ \A g \in DOMAIN ins : ins[g] = e.ins[g]
            /\ DOMAIN outs = DOMAIN e.outs \ {f} /\ \A g \in DOMAIN outs : outs[g] = e.outs[g]
        BY DEF Drop, Restrict
      <4> HIDE DEF ins, outs, s
      <4>3. s.ins = ins /\ s.outs = outs /\ s.straggler = e.straggler
        BY <3>2, <4>1 DEF IsEntry
      <4> QED BY <4>2, <4>3
    <3>5. e.ins = NoRecords => s.ins = NoRecords
      <4>1. e.ins = NoRecords => s.ins = Restrict(NoRecords, {})
        <5>1. s.ins = Drop(e.ins, f)
          BY <3>2 DEF DeleteInOutRecords, IsEntry
        <5> QED BY <5>1, NoRecordsType DEF Drop
      <4>2. Restrict(NoRecords, {}) = NoRecords
        BY DEF Restrict, NoRecords
      <4> QED BY <4>1, <4>2
    <3> HIDE DEF s
    <3>6. EntryOK(s, now', events')
      BY <3>3, <3>4, <3>5 DEF EntryOK, HasPendingOutRecords
    <3> QED BY <3>1, <3>6
  <2> QED BY <1>4, <2>3, <2>4 DEF ChangeTopology, RemoveFace, AddNextHop, RemoveNextHop, ForgetNonce
<1> QED BY <1>2, <1>3, <1>4

\* In every reachable state, also: the invariant IInv and PipelineOK.
THEOREM PipelineInvariance == Spec => [](IInv /\ PipelineOK)
<1>1. Init => PipelineOK
  BY NoRecordsType DEF Init, PipelineOK
<1>2. IInv /\ PipelineOK /\ [Next]_vars => PipelineOK'
  <2> SUFFICES ASSUME IInv, PipelineOK, [Next]_vars PROVE PipelineOK'
    OBVIOUS
  <2>1. CASE UNCHANGED vars
    BY <2>1 DEF vars, PipelineOK
  <2>2. CASE \E f \in Faces, i \in Interests : ReceiveInterest(f, i)
    BY <2>2, InterestKeepsOK
  <2>3. CASE \E f \in Faces, d \in Datas : ReceiveData(f, d)
    BY <2>3, DataKeepsOK
  <2>4. CASE \E f \in Faces, k \in Keys, w \in Words \cup {NoWord}, nonce \in Nonces :
               ReceiveNack(f, k, w, nonce)
    BY <2>4, NackKeepsOK
  <2> QED BY <2>1, <2>2, <2>3, <2>4, OthersKeepOK DEF Next
<1> QED BY <1>1, <1>2, Invariance, PTL DEF Spec

\* While the straggler timer of an entry runs, nobody waits for it: it was
\* satisfied and has no downstream left, or it was rejected and no upstream that
\* could still answer is left.
THEOREM StragglerIsSettled == Spec => []StragglerEntryIsSettled
<1>1. PipelineOK => StragglerEntryIsSettled
  BY DEF PipelineOK, EntryOK, StragglerEntryIsSettled
<1> QED BY <1>1, PipelineInvariance, PTL

-----------------------------------------------------------------------------
(* Where the Interests that are sent come from                               *)

\* The step records the arriving Interest i of face f and forwards it.
Forwards(f, i, e2, T, N, r) ==
  /\ ContentStoreMiss(f, i)
  /\ Miss(Key(i), CancelTimers(EntryFor(i)), f, i, e2, T, N, r)
  /\ pit' = Put(pit, Key(i), r.entry) /\ sent' = r.sent

\* Every way through onContentStoreMiss is such a step.
LEMMA MissForwards ==
  ASSUME IInv, NEW f \in Faces, NEW i \in Interests, ContentStoreMiss(f, i)
  PROVE  \E e2, T, N, r : Forwards(f, i, e2, T, N, r)
<1> DEFINE k == Key(i)
           e == CancelTimers(EntryFor(i))
<1>1. PICK r \in AfterMiss(k, e, f, i) : pit' = Put(pit, k, r.entry) /\ sent' = r.sent
  BY DEF ContentStoreMiss, Emit
<1>2. /\ now \in Nat /\ events \in Nat /\ faces \subseteq Faces /\ i \in Interest
  BY ForwarderAssumption DEF IInv, TablesOK
<1>3. k \in Keys /\ IsEntry(e)
  BY EntryForOK, CancelTimersType DEF RecordsOK
<1> HIDE DEF e, k
<1>4. PICK e2, T, N : Miss(k, e, f, i, e2, T, N, r)
  BY <1>1, <1>2, <1>3, AfterMissActs
<1>5. Forwards(f, i, e2, T, N, r)
  BY <1>1, <1>4 DEF Forwards, k, e
<1> QED BY <1>5

\* Only onIncomingInterest sends Interests: data and timers send none, and no
\* strategy forwards again when a Nack comes in.
LEMMA InterestIsForwarded ==
  ASSUME IInv, Next, NEW p \in sent', p.type = "interest"
  PROVE  \E f \in Faces, i \in Interests : \E e2, T, N, r : Forwards(f, i, e2, T, N, r)
<1>1. \A f, n, w, nonce, reason : NackPacket(f, n, w, nonce, reason).type = "nack"
  BY DEF NackPacket
<1>2. \A d, S : \A q \in OutgoingData(d, S) : q.type = "data"
  BY DEF OutgoingData, DataPacket
<1>3. ASSUME NEW f \in Faces, NEW i \in Interests, ReceiveInterest(f, i)
      PROVE  ContentStoreMiss(f, i)
  <2>1. ~InterestViolatesScope(f, i)
    BY DEF InterestViolatesScope, Emit
  <2>2. \A w : ~InterestLoop(f, i, w)
    <3> SUFFICES ASSUME NEW w, InterestLoop(f, i, w) PROVE FALSE
      OBVIOUS
    <3> DEFINE nack == NackPacket(f, i.name, w, i.nonce, DUPLICATE)
    <3>1. sent' = {} \/ sent' = {nack}
      BY DEF InterestLoop, Emit
    <3>2. nack.type = "nack"
      BY <1>1
    <3> HIDE DEF nack
    <3> QED BY <3>1, <3>2
  <2>3. \A d : ~ContentStoreHit(f, i, d)
    <3> SUFFICES ASSUME NEW d, ContentStoreHit(f, i, d) PROVE FALSE
      OBVIOUS
    <3>1. p \in OutgoingData(d, {f})
      BY DEF ContentStoreHit, Emit
    <3>2. p.type = "data"
      BY <1>2, <3>1
    <3> QED BY <3>2
  <2> QED BY <1>3, <2>1, <2>2, <2>3 DEF ReceiveInterest, LoopInDeadNonceList, LoopInPit
<1>4. ASSUME NEW f \in Faces, NEW d \in Datas, ReceiveData(f, d)
      PROVE  FALSE
  BY <1>2, <1>4 DEF ReceiveData, DataViolatesScope, UnsolicitedData, SolicitedData, Emit
<1>5. ASSUME NEW f \in Faces, NEW k \in Keys, NEW w, NEW nonce, ReceiveNack(f, k, w, nonce)
      PROVE  FALSE
  <2>1. CASE DropNack(f, k, w, nonce)
    BY <2>1 DEF DropNack, Emit
  <2>2. ASSUME NEW reason \in NackReasons, AcceptNack(f, k, w, nonce, reason)
        PROVE  FALSE
    <3> DEFINE e == SetIncomingNack(pit[k], f, reason)
    <3>1. PICK d \in AfterReceiveNack(StrategyOf[k.name], e) :
            \E r \in Perform(k, e, d) : sent' = r.sent
      BY <2>2 DEF AcceptNack, Emit
    <3>2. PICK r \in Perform(k, e, d) : sent' = r.sent
      BY <3>1
    <3>3. /\ k \in DOMAIN pit /\ f \in DOMAIN pit[k].outs /\ IsEntry(pit[k])
          /\ now \in Nat /\ faces \subseteq Faces
      BY <2>2 DEF AcceptNack, NackMatches, IInv, EntriesOK, RecordsOK, TablesOK
    <3>4. IsEntry(e)
      BY <3>3, NackedEntry
    <3> HIDE DEF e
    <3>5. d.retx \in RetxInitial .. RetxMax /\ d.targets = {}
      BY <3>4, RetxAfterNack DEF IsEntry
    <3>6. Acts(k, e, d.targets, d.nackTo, r)
      BY <3>2, <3>3, <3>4, <3>5, PerformActs
    <3> QED BY <3>2, <3>5, <3>6 DEF Acts, Allowed
  <2> QED BY <1>5, <2>1, <2>2 DEF ReceiveNack
<1>6. sent' # {}
  OBVIOUS
<1>7. ASSUME NEW k \in Keys, UnsatisfyTimer(k) \/ StragglerTimer(k)
      PROVE  FALSE
  BY <1>6, <1>7 DEF UnsatisfyTimer, StragglerTimer, Finalize, Emit
<1>8. ~Tick
  BY <1>6 DEF Tick
<1>9. ~ChangeTopology
  BY <1>6 DEF ChangeTopology, RemoveFace, AddNextHop, RemoveNextHop, ForgetNonce, Change, Emit
<1> QED BY <1>3, <1>4, <1>5, <1>7, <1>8, <1>9, MissForwards DEF Next

\* When Interests are sent, all downstreams that were recorded stay.
LEMMA ForwardingKeepsInRecords ==
  ASSUME IInv, NEW f \in Faces, NEW i \in Interests, NEW e2, NEW T, NEW N, NEW r,
         Forwards(f, i, e2, T, N, r), NEW p \in sent', p.type = "interest"
  PROVE  /\ Key(i) \in DOMAIN pit' /\ pit'[Key(i)] = r.entry
         /\ p.face \in Allowed(Key(i), e2, T) /\ IsPicked(Key(i), e2, p)
         /\ DOMAIN r.entry.ins = DOMAIN e2.ins
         /\ \A g \in DOMAIN e2.ins : r.entry.ins[g] = e2.ins[g]
<1> DEFINE k == Key(i)
<1>1. k \in Keys
  BY EntryForOK
<1> HIDE DEF k
<1>2. /\ Chosen(k, e2, f, i, T, N) /\ Acts(k, e2, T, N, r)
      /\ pit' = Put(pit, k, r.entry) /\ p \in r.sent
  BY DEF Forwards, Miss, k
<1>3. p.face \in Allowed(k, e2, T) /\ IsPicked(k, e2, p)
  BY <1>2 DEF Acts
<1>4. T # {}
  BY <1>3 DEF Allowed
<1>5. N = {}
  <2>1. CASE i.hop # NoHop
    BY <1>2, <2>1 DEF Chosen
  <2>2. CASE i.hop = NoHop
    <3>1. PICK hops, d : /\ d \in AfterReceiveInterest(StrategyOf[k.name], e2, k.name, hops, f, now)
                         /\ T = d.targets /\ N = d.nackTo
      BY <1>2, <2>2 DEF Chosen
    <3>2. StrategyOf[k.name] \in StrategyNames
      BY <1>1, ForwarderAssumption DEF Keys
    <3> QED BY <1>4, <3>1, <3>2, NackedOrForwarded
  <2> QED BY <2>1, <2>2
<1>6. NackableFaces(e2, N) = {}
  BY <1>5 DEF NackableFaces
<1>7. /\ DOMAIN r.entry.ins = DOMAIN e2.ins
      /\ \A g \in DOMAIN e2.ins : r.entry.ins[g] = e2.ins[g]
  BY <1>2, <1>6 DEF Acts
<1>8. k \in DOMAIN pit' /\ pit'[k] = r.entry
  BY <1>2 DEF Put
<1> QED BY <1>3, <1>7, <1>8 DEF k

-----------------------------------------------------------------------------
(* The names of the Interests that are waited for                            *)

AllOwnNames == \A k \in DOMAIN pit : OwnNames(pit[k])

\* The entry that is forwarded, and what is left of it, have their own names.
LEMMA ForwardedHasOwnNames ==
  ASSUME IInv, AllOwnNames, NEW f \in Faces, NEW i \in Interests,
         NEW e2, NEW T, NEW N, NEW r, Forwards(f, i, e2, T, N, r)
  PROVE  OwnNames(e2) /\ OwnNames(r.entry)
<1> DEFINE k == Key(i)
           e == CancelTimers(EntryFor(i))
<1>1. Armed(e, f, e2) /\ Renewed(e, f, i, e2) /\ Acts(k, e2, T, N, r)
  BY DEF Forwards, Miss
<1>2. e.ins = EntryFor(i).ins
  BY EntryForOK, CancelTimersType DEF RecordsOK
<1> HIDE DEF e
<1>3. OwnNames(e)
  <2>1. CASE k \in DOMAIN pit
    BY <1>2, <2>1 DEF EntryFor, AllOwnNames, OwnNames
  <2>2. CASE k \notin DOMAIN pit
    <3>1. EntryFor(i).ins = NoRecords
      BY <2>2 DEF EntryFor, NewEntry
    <3> QED BY <1>2, <3>1, NoRecordsType DEF OwnNames
  <2> QED BY <2>1, <2>2
<1> HIDE DEF k
<1>4. OwnNames(e2)
  <2> SUFFICES ASSUME NEW g \in DOMAIN e2.ins PROVE e2.ins[g].shown = NoWord
    BY DEF OwnNames
  <2>1. CASE g = f
    BY <1>1, <2>1 DEF Renewed
  <2>2. CASE g # f
    BY <1>1, <1>3, <2>2 DEF Armed, Renewed, OwnNames
  <2> QED BY <2>1, <2>2
<1>5. OwnNames(r.entry)
  BY <1>1, <1>4 DEF Acts, OwnNames
<1> QED BY <1>4, <1>5

\* A Nack of an upstream leaves own names too, and is passed on under them.
LEMMA NackedHasOwnNames ==
  ASSUME IInv, AllOwnNames, NEW f \in Faces, NEW l \in Keys, NEW w, NEW nonce,
         NEW reason \in NackReasons, AcceptNack(f, l, w, nonce, reason)
  PROVE  \E r : /\ pit' = Put(pit, l, r.entry) /\ OwnNames(r.entry)
               /\ sent' = r.sent /\ \A p \in r.sent : p.type = "nack" => p.word = NoWord
<1> DEFINE e == SetIncomingNack(pit[l], f, reason)
<1>1. PICK d \in AfterReceiveNack(StrategyOf[l.name], e) :
        \E r \in Perform(l, e, d) : pit' = Put(pit, l, r.entry) /\ sent' = r.sent
  BY DEF AcceptNack, Emit
<1>2. PICK r \in Perform(l, e, d) : pit' = Put(pit, l, r.entry) /\ sent' = r.sent
  BY <1>1
<1>3. /\ l \in DOMAIN pit /\ f \in DOMAIN pit[l].outs /\ IsEntry(pit[l])
      /\ now \in Nat /\ faces \subseteq Faces
  BY DEF AcceptNack, NackMatches, IInv, EntriesOK, RecordsOK, TablesOK
<1>4. IsEntry(e) /\ e.ins = pit[l].ins
  BY <1>3, NackedEntry
<1> HIDE DEF e
<1>5. d.retx \in RetxInitial .. RetxMax
  BY <1>4, RetxAfterNack DEF IsEntry
<1>6. Acts(l, e, d.targets, d.nackTo, r)
  BY <1>2, <1>3, <1>4, <1>5, PerformActs
<1>7. OwnNames(e)
  BY <1>3, <1>4 DEF AllOwnNames, OwnNames
<1>8. OwnNames(r.entry)
  BY <1>6, <1>7 DEF Acts, OwnNames
<1>9. \A p \in r.sent : p.type = "nack" => p.word = NoWord
  <2> SUFFICES ASSUME NEW p \in r.sent, p.type = "nack" PROVE p.word = NoWord
    OBVIOUS
  <2>1. p.type # "interest"
    OBVIOUS
  <2> QED BY <1>6, <1>7, <2>1 DEF Acts
<1> QED BY <1>2, <1>8, <1>9

\* No step leaves a name changed.
LEMMA OwnNamesStay ==
  ASSUME IInv, AllOwnNames, [Next]_vars
  PROVE  AllOwnNames'
<1>1. CASE pit' = pit
  BY <1>1 DEF AllOwnNames
<1>2. ASSUME NEW l, NEW e, pit' = Put(pit, l, e), OwnNames(e)
      PROVE  AllOwnNames'
  <2>1. \A k \in DOMAIN pit' : /\ k = l \/ k \in DOMAIN pit
                               /\ pit'[k] = IF k = l THEN e ELSE pit[k]
    BY <1>2 DEF Put
  <2>2. \A k \in DOMAIN pit' : OwnNames(pit'[k])
    BY <1>2, <2>1 DEF AllOwnNames
  <2> QED BY <2>2 DEF AllOwnNames
<1>3. ASSUME NEW f \in Faces, NEW i \in Interests, ReceiveInterest(f, i)
      PROVE  AllOwnNames'
  <2>1. ASSUME NEW d \in cs, ContentStoreHit(f, i, d)
        PROVE  AllOwnNames'
    <3> DEFINE e1 == CancelTimers(EntryFor(i))
               e2 == SetStragglerTimer(e1, TRUE, d.stale)
    <3>1. IsEntry(e1) /\ e1.ins = EntryFor(i).ins
      BY EntryForOK, CancelTimersType DEF RecordsOK
    <3>2. d.stale \in BOOLEAN /\ now \in Nat
      BY DEF IInv, TablesOK, Data
    <3> HIDE DEF e1
    <3>3. e2.ins = e1.ins
      BY <3>1, <3>2, SetStragglerTimerType
    <3>4. pit' = Put(pit, Key(i), e2) /\ DOMAIN EntryFor(i).ins = {}
      BY <2>1 DEF ContentStoreHit, e1
    <3> HIDE DEF e2
    <3>5. OwnNames(e2)
      BY <3>1, <3>3, <3>4 DEF OwnNames
    <3> QED BY <1>2, <3>4, <3>5
  <2>2. CASE ContentStoreMiss(f, i)
    <3>1. PICK e2, T, N, r : Forwards(f, i, e2, T, N, r)
      BY <2>2, MissForwards
    <3>2. OwnNames(r.entry)
      BY <3>1, ForwardedHasOwnNames
    <3>3. pit' = Put(pit, Key(i), r.entry)
      BY <3>1 DEF Forwards
    <3> QED BY <1>2, <3>2, <3>3
  <2> QED BY <1>1, <1>3, <2>1, <2>2
       DEF ReceiveInterest, InterestViolatesScope, LoopInDeadNonceList, LoopInPit, InterestLoop
<1>4. ASSUME NEW f \in Faces, NEW d \in Datas, SolicitedData(f, d)
      PROVE  AllOwnNames'
  <2> SUFFICES ASSUME NEW k \in DOMAIN pit' PROVE OwnNames(pit'[k])
    BY DEF AllOwnNames
  <2>1. k \in DOMAIN pit /\ pit'[k] = IF k \in DataMatches(d) THEN Satisfied(pit[k], f, d)
                                      ELSE pit[k]
    BY <1>4 DEF SolicitedData
  <2>2. CASE k \in DataMatches(d)
    <3> DEFINE e == pit[k]
    <3>1. now \in Nat /\ IsEntry(e)
      BY <2>1 DEF IInv, TablesOK, EntriesOK, RecordsOK
    <3>2. d \in Data
      BY ForwarderAssumption
    <3> HIDE DEF e
    <3>3. /\ Satisfied(e, f, d).ins = NoRecords
          /\ Satisfied(e, f, d).straggler.satisfied = TRUE
          /\ DOMAIN Satisfied(e, f, d).outs = DOMAIN e.outs \ {f}
          /\ \A g \in DOMAIN e.outs \ {f} : Satisfied(e, f, d).outs[g] = e.outs[g]
      BY ONLY <3>1, <3>2, SatisfiedEntry
    <3>4. DOMAIN pit'[k].ins = {}
      BY <2>1, <2>2, <3>3, NoRecordsType DEF e
    <3> QED BY <3>4 DEF OwnNames
  <2>3. CASE k \notin DataMatches(d)
    BY <2>1, <2>3 DEF AllOwnNames
  <2> QED BY <2>2, <2>3
<1>5. ASSUME NEW f \in Faces, NEW l \in Keys, NEW w, NEW nonce, NEW reason \in NackReasons,
             AcceptNack(f, l, w, nonce, reason)
      PROVE  AllOwnNames'
  <2>1. PICK r : pit' = Put(pit, l, r.entry) /\ OwnNames(r.entry)
    BY <1>5, NackedHasOwnNames
  <2> QED BY <1>2, <2>1
<1>6. ASSUME NEW l \in Keys, UnsatisfyTimer(l) \/ StragglerTimer(l)
      PROVE  AllOwnNames'
  <2>1. pit' = Drop(pit, l)
    BY <1>6 DEF UnsatisfyTimer, StragglerTimer, Finalize
  <2>2. \A k \in DOMAIN pit' : k \in DOMAIN pit /\ pit'[k] = pit[k]
    BY <2>1 DEF Drop, Restrict
  <2> QED BY <2>2 DEF AllOwnNames
<1>7. ASSUME NEW f, RemoveFace(f)
      PROVE  AllOwnNames'
  <2> SUFFICES ASSUME NEW k \in DOMAIN pit' PROVE OwnNames(pit'[k])
    BY DEF AllOwnNames
  <2> DEFINE e == pit[k]
             ins == Drop(e.ins, f)
  <2>1. k \in DOMAIN pit /\ pit'[k] = DeleteInOutRecords(e, f)
    BY <1>7 DEF RemoveFace
  <2>2. IsEntry(e)
    BY <2>1 DEF IInv, EntriesOK, RecordsOK
  <2>3. DeleteInOutRecords(e, f).ins = ins
    BY <2>2 DEF DeleteInOutRecords, IsEntry
  <2>4. \A g \in DOMAIN ins : g \in DOMAIN e.ins /\ ins[g] = e.ins[g]
    BY DEF Drop, Restrict
  <2> QED BY <2>1, <2>3, <2>4 DEF AllOwnNames, OwnNames
<1>8. CASE UNCHANGED vars
  BY <1>1, <1>8 DEF vars
<1>9. CASE \E f \in Faces, d \in Datas : ReceiveData(f, d)
  BY <1>1, <1>4, <1>9 DEF ReceiveData, DataViolatesScope, UnsolicitedData
<1>10. CASE \E f \in Faces, k \in Keys, w \in Words \cup {NoWord}, nonce \in Nonces :
              ReceiveNack(f, k, w, nonce)
  BY <1>1, <1>5, <1>10 DEF ReceiveNack, DropNack
<1>11. CASE Tick \/ ChangeTopology
  BY <1>1, <1>7, <1>11 DEF Tick, ChangeTopology, AddNextHop, RemoveNextHop, ForgetNonce
<1> QED BY <1>3, <1>6, <1>8, <1>9, <1>10, <1>11 DEF Next

\* A Nack that uses up an in-record has the name of the entry.
LEMMA NacksHaveNoWord ==
  ASSUME IInv, AllOwnNames, Next, NEW p \in sent', p.type = "nack", pit' # pit
  PROVE  p.word = NoWord
<1>1. p.type # "interest" /\ p.type # "data"
  OBVIOUS
<1>2. \A d, T : \A q \in OutgoingData(d, T) : q.type = "data"
  BY DEF OutgoingData, DataPacket
<1>3. ASSUME NEW f \in Faces, NEW i \in Interests, ReceiveInterest(f, i)
      PROVE  p.word = NoWord
  <2>1. ASSUME NEW d, ContentStoreHit(f, i, d)
        PROVE  FALSE
    BY <1>1, <1>2, <2>1 DEF ContentStoreHit, Emit
  <2>2. CASE ContentStoreMiss(f, i)
    <3>1. PICK e2, T, N, r : Forwards(f, i, e2, T, N, r)
      BY <2>2, MissForwards
    <3>2. OwnNames(e2)
      BY <3>1, ForwardedHasOwnNames
    <3>3. p \in r.sent /\ Acts(Key(i), e2, T, N, r)
      BY <3>1 DEF Forwards, Miss
    <3> QED BY <1>1, <3>2, <3>3 DEF Acts
  <2> QED BY <1>3, <2>1, <2>2
       DEF ReceiveInterest, InterestViolatesScope, LoopInDeadNonceList, LoopInPit, InterestLoop
<1>4. ASSUME NEW f \in Faces, NEW d \in Datas, ReceiveData(f, d)
      PROVE  FALSE
  BY <1>1, <1>2, <1>4 DEF ReceiveData, DataViolatesScope, UnsolicitedData, SolicitedData, Emit
<1>5. ASSUME NEW f \in Faces, NEW k \in Keys, NEW w, NEW nonce, ReceiveNack(f, k, w, nonce)
      PROVE  p.word = NoWord
  <2>1. CASE DropNack(f, k, w, nonce)
    BY <2>1 DEF DropNack, Emit
  <2>2. ASSUME NEW reason \in NackReasons, AcceptNack(f, k, w, nonce, reason)
        PROVE  p.word = NoWord
    BY <2>2, NackedHasOwnNames
  <2> QED BY <1>5, <2>1, <2>2 DEF ReceiveNack
<1>6. sent' # {}
  OBVIOUS
<1>7. ASSUME NEW k \in Keys, UnsatisfyTimer(k) \/ StragglerTimer(k)
      PROVE  FALSE
  BY <1>6, <1>7 DEF UnsatisfyTimer, StragglerTimer, Finalize, Emit
<1>8. ~Tick
  BY <1>6 DEF Tick
<1>9. ~ChangeTopology
  BY <1>6 DEF ChangeTopology, RemoveFace, AddNextHop, RemoveNextHop, ForgetNonce, Change, Emit
<1> QED BY <1>3, <1>4, <1>5, <1>7, <1>8, <1>9 DEF Next

-----------------------------------------------------------------------------
(* The action properties of every configuration                             *)

\* However often its Interest was renamed before, a query leaves with the word it
\* came with, or with the fuzzed one if it had none, and its in-record is there; and
\* a Nack that uses up an in-record goes back under the name of the entry.
THEOREM QueriesKeepTheirWord == Spec => QueryKeepsItsWord
<1> DEFINE Kept(p) ==
      p.type = "interest" =>
        \E k \in DOMAIN pit' : k.name = p.name /\
          \E g \in DOMAIN pit'[k].ins :
            /\ pit'[k].ins[g].nonce = p.nonce
            /\ p.name \in QueryNames =>
                 \/ p.word # NoWord /\ p.word = pit'[k].ins[g].word
                 \/ pit'[k].ins[g].word = NoWord /\ p.word = FuzzWord[p.name]
           Bare(p) == p.type = "nack" /\ pit' # pit => p.word = NoWord
<1>1. ASSUME IInv, AllOwnNames, Next, NEW p \in sent', p.type = "interest"
      PROVE  Kept(p)
  <2>1. PICK f \in Faces, i \in Interests : \E e2, T, N, r : Forwards(f, i, e2, T, N, r)
    BY <1>1, InterestIsForwarded
  <2>2. PICK e2, T, N, r : Forwards(f, i, e2, T, N, r)
    BY <2>1
  <2> DEFINE k == Key(i)
  <2>3. /\ k \in DOMAIN pit' /\ pit'[k] = r.entry /\ IsPicked(k, e2, p)
        /\ DOMAIN r.entry.ins = DOMAIN e2.ins
        /\ \A g \in DOMAIN e2.ins : r.entry.ins[g] = e2.ins[g]
    BY <1>1, <2>2, ForwardingKeepsInRecords
  <2> HIDE DEF k
  <2>4. PICK g \in PickedInRecord(e2, p.face) :
          p.nonce = e2.ins[g].nonce /\ p.word = Renamed(k.name, e2.ins[g]).shown
    BY <2>3 DEF IsPicked
  <2>5. g \in DOMAIN e2.ins /\ p.name = k.name
    BY <2>3 DEF PickedInRecord, IsPicked
  <2>6. g \in DOMAIN pit'[k].ins /\ pit'[k].ins[g] = e2.ins[g]
    BY <2>3, <2>5
  <2>7. p.name \in QueryNames =>
          \/ p.word # NoWord /\ p.word = pit'[k].ins[g].word
          \/ pit'[k].ins[g].word = NoWord /\ p.word = FuzzWord[p.name]
    <3>1. e2.ins[g].shown = NoWord
      BY <1>1, <2>2, <2>5, ForwardedHasOwnNames DEF OwnNames
    <3>2. e2.ins[g] \in InRecord
      <4>1. IsEntry(e2)
        BY <2>2 DEF Forwards, Miss, Armed
      <4> QED BY <2>5, <4>1 DEF IsEntry, IsPartialFunction
    <3>3. p.name \in QueryNames =>
            p.word = IF e2.ins[g].word # NoWord THEN e2.ins[g].word ELSE FuzzWord[p.name]
      BY <2>4, <2>5, <3>1, <3>2 DEF Renamed, InRecord
    <3> QED BY <2>6, <3>3
  <2> QED BY <2>3, <2>4, <2>5, <2>6, <2>7
<1>2. ASSUME IInv, AllOwnNames, Next, NEW p \in sent'
      PROVE  Bare(p)
  BY <1>2, NacksHaveNoWord
<1>3. IInv /\ AllOwnNames /\ [Next]_vars
        => [(\A p \in sent' : Kept(p)) /\ (\A p \in sent' : Bare(p))]_vars
  BY <1>1, <1>2
<1>4. Init => AllOwnNames
  BY NoRecordsType DEF Init, AllOwnNames
<1>5. IInv /\ AllOwnNames /\ [Next]_vars => AllOwnNames'
  BY OwnNamesStay
<1> QED BY <1>3, <1>4, <1>5, Invariance, PTL DEF Spec, QueryKeepsItsWord

\* An Interest under ndn:/localhop leaves the node only while a local face waits
\* for its answer, whichever strategy or NextHopFaceId chose the upstream.
THEOREM LocalhopInterestsStopHere == Spec => LocalhopIsOneHop
<1> DEFINE OneHop(p) ==
      p.type = "interest" /\ p.name \in LocalhopNames /\ p.face \notin LocalFaces =>
        \E k \in DOMAIN pit' :
          k.name = p.name /\ DOMAIN pit'[k].ins \cap LocalFaces # {}
<1>1. ASSUME IInv, Next, NEW p \in sent', p.type = "interest"
      PROVE  OneHop(p)
  <2>1. PICK f \in Faces, i \in Interests : \E e2, T, N, r : Forwards(f, i, e2, T, N, r)
    BY <1>1, InterestIsForwarded
  <2>2. PICK e2, T, N, r : Forwards(f, i, e2, T, N, r)
    BY <2>1
  <2> DEFINE k == Key(i)
  <2>3. /\ k \in DOMAIN pit' /\ pit'[k] = r.entry /\ IsPicked(k, e2, p)
        /\ p.face \in Allowed(k, e2, T)
        /\ DOMAIN r.entry.ins = DOMAIN e2.ins
    BY <1>1, <2>2, ForwardingKeepsInRecords
  <2> HIDE DEF k
  <2>4. ~ViolatesScope(e2, k.name, p.face) /\ p.name = k.name
    BY <2>3 DEF Allowed, IsPicked
  <2> QED BY <2>3, <2>4 DEF ViolatesScope
<1>2. IInv /\ [Next]_vars => [\A p \in sent' : OneHop(p)]_vars
  BY <1>1
<1> QED BY <1>2, Invariance, PTL DEF Spec, LocalhopIsOneHop

\* What may happen to the in-record of f in the entry k.
NotLost(k, f) ==
  \/ pit[k].ins[f].expiry <= now
  \/ k \in DOMAIN pit' /\ f \in DOMAIN pit'[k].ins
  \/ f \in Answers(sent')
  \/ f \notin faces'
  \/ \E d \in Datas : SolicitedData(f, d)
  \/ \E d \in Datas : /\ IsLocalhostViolation(f, d.name)
                      /\ k.name \in PrefixesOf[d.name]
                      /\ \E g \in Faces : SolicitedData(g, d)
  \/ pit[k].straggler.at # NEVER

\* An entry that the step replaces after a strategy acted on it loses the
\* in-records of the faces that get a Nack, and no others.
LEMMA PerformedIsNotLost ==
  ASSUME NEW k \in DOMAIN pit, NEW f \in DOMAIN pit[k].ins, NEW l, NEW e, NEW r,
         Performs(l, e, r), pit' = Put(pit, l, r.entry), sent' = r.sent,
         l = k => f \in DOMAIN e.ins
  PROVE  NotLost(k, f)
<1>1. k \in DOMAIN pit' /\ pit'[k] = IF k = l THEN r.entry ELSE pit[k]
  BY DEF Put
<1>2. CASE k = l
  BY <1>1, <1>2 DEF Performs, NotLost
<1>3. CASE k # l
  BY <1>1, <1>3 DEF NotLost
<1> QED BY <1>2, <1>3

\* onIncomingInterest lets no downstream down.
LEMMA InterestLosesNothing ==
  ASSUME IInv, NEW k \in DOMAIN pit, NEW f \in DOMAIN pit[k].ins,
         NEW g \in Faces, NEW i \in Interests, ReceiveInterest(g, i)
  PROVE  NotLost(k, f)
<1>1. CASE pit' = pit
  BY <1>1 DEF NotLost
<1>2. ASSUME NEW d \in cs, ContentStoreHit(g, i, d)
      PROVE  NotLost(k, f)
  <2>1. k # Key(i)
    BY <1>2 DEF ContentStoreHit, EntryFor
  <2>2. k \in DOMAIN pit' /\ pit'[k] = pit[k]
    BY <1>2, <2>1 DEF ContentStoreHit, Put
  <2> QED BY <2>2 DEF NotLost
<1>3. CASE ContentStoreMiss(g, i)
  <2>1. PICK e2, T, N, r : Forwards(g, i, e2, T, N, r)
    BY <1>3, MissForwards
  <2> DEFINE l == Key(i)
             e == CancelTimers(EntryFor(i))
  <2>2. /\ Performs(l, e2, r) /\ pit' = Put(pit, l, r.entry) /\ sent' = r.sent
        /\ DOMAIN e.ins \subseteq DOMAIN e2.ins
    BY <2>1 DEF Forwards, Miss, Armed
  <2>3. e.ins = EntryFor(i).ins
    BY EntryForOK, CancelTimersType DEF RecordsOK
  <2>4. l = k => EntryFor(i) = pit[k]
    BY DEF EntryFor
  <2> HIDE DEF l, e
  <2>5. l = k => f \in DOMAIN e2.ins
    BY <2>2, <2>3, <2>4
  <2> QED BY <2>2, <2>5, PerformedIsNotLost
<1> QED BY <1>1, <1>2, <1>3
     DEF ReceiveInterest, InterestViolatesScope, LoopInDeadNonceList, LoopInPit, InterestLoop

\* onIncomingData answers every downstream that still waits, but the face the
\* Data came from and faces it must not leave on.
LEMMA DataLosesNothing ==
  ASSUME IInv, NEW k \in DOMAIN pit, NEW f \in DOMAIN pit[k].ins,
         NEW g \in Faces, NEW d \in Datas, ReceiveData(g, d)
  PROVE  NotLost(k, f)
<1>1. CASE pit' = pit
  BY <1>1 DEF NotLost
<1>2. CASE SolicitedData(g, d)
  <2>1. CASE k \notin DataMatches(d)
    <3>1. k \in DOMAIN pit' /\ pit'[k] = pit[k]
      BY <1>2, <2>1 DEF SolicitedData
    <3> QED BY <3>1 DEF NotLost
  <2>2. CASE f = g
    BY <1>2, <2>2 DEF NotLost
  <2>3. CASE k \in DataMatches(d) /\ f # g
    <3>1. /\ f \in faces /\ f \in Faces /\ now \in Nat /\ pit[k].ins[f].expiry \in Nat
      BY DEF IInv, TablesOK, EntriesOK, RecordsOK, IsEntry, IsPartialFunction, InRecord, Times
    <3>2. CASE pit[k].ins[f].expiry <= now
      BY <3>2 DEF NotLost
    <3>3. CASE IsLocalhostViolation(f, d.name)
      BY <1>2, <2>3, <3>3 DEF NotLost, DataMatches
    <3>4. CASE pit[k].ins[f].expiry > now /\ ~IsLocalhostViolation(f, d.name)
      <4> DEFINE p == DataPacket(f, d)
      <4>1. f \in PendingDownstreams(d) \ {g}
        BY <2>3, <3>1, <3>4 DEF PendingDownstreams
      <4>2. p \in sent'
        BY <1>2, <3>1, <3>4, <4>1 DEF SolicitedData, Emit, OutgoingData
      <4>3. p.type # "interest" /\ p.face = f
        BY DEF DataPacket
      <4> HIDE DEF p
      <4>4. f \in Answers(sent')
        BY <4>2, <4>3 DEF Answers
      <4> QED BY <4>4 DEF NotLost
    <3> QED BY <3>1, <3>2, <3>3, <3>4
  <2> QED BY <2>1, <2>2, <2>3
<1> QED BY <1>1, <1>2 DEF ReceiveData, DataViolatesScope, UnsolicitedData

\* onIncomingNack lets no downstream down.
LEMMA NackLosesNothing ==
  ASSUME IInv, NEW k \in DOMAIN pit, NEW f \in DOMAIN pit[k].ins,
         NEW g \in Faces, NEW l \in Keys, NEW w, NEW nonce, ReceiveNack(g, l, w, nonce)
  PROVE  NotLost(k, f)
<1>1. CASE DropNack(g, l, w, nonce)
  BY <1>1 DEF DropNack, NotLost
<1>2. ASSUME NEW reason \in NackReasons, AcceptNack(g, l, w, nonce, reason)
      PROVE  NotLost(k, f)
  <2> DEFINE e == SetIncomingNack(pit[l], g, reason)
  <2>1. PICK d \in AfterReceiveNack(StrategyOf[l.name], e) :
          \E r \in Perform(l, e, d) : pit' = Put(pit, l, r.entry) /\ sent' = r.sent
    BY <1>2 DEF AcceptNack, Emit
  <2>2. PICK r \in Perform(l, e, d) : pit' = Put(pit, l, r.entry) /\ sent' = r.sent
    BY <2>1
  <2>3. /\ l \in DOMAIN pit /\ g \in DOMAIN pit[l].outs /\ IsEntry(pit[l])
        /\ now \in Nat /\ faces \subseteq Faces
    BY <1>2 DEF AcceptNack, NackMatches, IInv, EntriesOK, RecordsOK, TablesOK
  <2>4. IsEntry(e) /\ e.ins = pit[l].ins
    BY <2>3, NackedEntry
  <2> HIDE DEF e
  <2>5. d.retx \in RetxInitial .. RetxMax
    BY <2>4, RetxAfterNack DEF IsEntry
  <2>6. Performs(l, e, r)
    BY <2>2, <2>3, <2>4, <2>5, PerformFacts
  <2>7. l = k => f \in DOMAIN e.ins
    BY <2>4
  <2> QED BY <2>2, <2>6, <2>7, PerformedIsNotLost
<1> QED BY <1>1, <1>2 DEF ReceiveNack

\* No downstream is let down by a timer: the unsatisfy timer covers its
\* in-record, and the straggler timer is set for entries nobody waits for.
LEMMA OthersLoseNothing ==
  ASSUME IInv, NEW k \in DOMAIN pit, NEW f \in DOMAIN pit[k].ins,
         \/ \E l \in Keys : UnsatisfyTimer(l) \/ StragglerTimer(l)
         \/ Tick
         \/ ChangeTopology
  PROVE  NotLost(k, f)
<1>1. ASSUME NEW l \in Keys, UnsatisfyTimer(l) \/ StragglerTimer(l)
      PROVE  NotLost(k, f)
  <2>1. CASE l # k
    <3>1. k \in DOMAIN pit' /\ pit'[k] = pit[k]
      BY <1>1, <2>1 DEF UnsatisfyTimer, StragglerTimer, Finalize, Drop, Restrict
    <3> QED BY <3>1 DEF NotLost
  <2>2. CASE l = k /\ StragglerTimer(k)
    BY <2>2 DEF StragglerTimer, NotLost
  <2>3. CASE l = k /\ UnsatisfyTimer(k)
    <3>1. pit[k].unsatisfy # NEVER /\ pit[k].unsatisfy <= now
      BY <2>3 DEF UnsatisfyTimer
    <3>2. TimersOK(pit[k]) /\ IsEntry(pit[k]) /\ now \in Nat
      BY DEF IInv, TablesOK, EntriesOK, RecordsOK
    <3>3. pit[k].ins[f].expiry <= pit[k].unsatisfy
      BY <3>1, <3>2 DEF TimersOK
    <3>4. pit[k].ins[f].expiry \in Nat /\ pit[k].unsatisfy \in Nat
      BY <3>1, <3>2 DEF IsEntry, IsPartialFunction, InRecord, Times
    <3>5. pit[k].ins[f].expiry <= now
      BY <3>1, <3>2, <3>3, <3>4
    <3> QED BY <3>5 DEF NotLost
  <2> QED BY <1>1, <2>1, <2>2, <2>3
<1>2. CASE pit' = pit
  BY <1>2 DEF NotLost
<1>3. ASSUME NEW g, RemoveFace(g)
      PROVE  NotLost(k, f)
  <2>1. CASE g = f
    BY <1>3, <2>1 DEF RemoveFace, NotLost
  <2>2. CASE g # f
    <3> DEFINE e == pit[k]
               ins == Drop(e.ins, g)
    <3>1. k \in DOMAIN pit' /\ pit'[k] = DeleteInOutRecords(e, g)
      BY <1>3 DEF RemoveFace
    <3>2. IsEntry(e)
      BY DEF IInv, EntriesOK, RecordsOK
    <3>3. f \in DOMAIN ins
      BY <2>2 DEF Drop, Restrict
    <3>4. DeleteInOutRecords(e, g).ins = ins
      BY <3>2 DEF DeleteInOutRecords, IsEntry
    <3> QED BY <3>1, <3>3, <3>4 DEF NotLost
  <2> QED BY <2>1, <2>2
<1> QED BY <1>1, <1>2, <1>3
     DEF Tick, ChangeTopology, AddNextHop, RemoveNextHop, ForgetNonce

\* A downstream that still waits is let go only with an answer, by its own
\* removal, by its own Data, by Data that must not leave the host, or when a
\* strategy had rejected the entry: no order of packets, timers and removals
\* makes a pipeline forget an in-record.
THEOREM NothingIsLost == Spec => NoSilentLoss
<1>1. ASSUME IInv, Next, NEW k \in DOMAIN pit, NEW f \in DOMAIN pit[k].ins
      PROVE  NotLost(k, f)
  <2>1. CASE \E g \in Faces, i \in Interests : ReceiveInterest(g, i)
    BY <1>1, <2>1, InterestLosesNothing
  <2>2. CASE \E g \in Faces, d \in Datas : ReceiveData(g, d)
    BY <1>1, <2>2, DataLosesNothing
  <2>3. CASE \E g \in Faces, l \in Keys, w \in Words \cup {NoWord}, nonce \in Nonces :
               ReceiveNack(g, l, w, nonce)
    BY <1>1, <2>3, NackLosesNothing
  <2> QED BY <1>1, <2>1, <2>2, <2>3, OthersLoseNothing DEF Next
<1>2. IInv /\ [Next]_vars => [\A k \in DOMAIN pit : \A f \in DOMAIN pit[k].ins : NotLost(k, f)]_vars
  BY <1>1
<1> QED BY <1>2, Invariance, PTL DEF Spec, NoSilentLoss, NotLost

\* What is said of a Data packet that is sent.
AskedFor(p) ==
  \/ credit'[p.face] = credit[p.face]
  \/ \E k \in DOMAIN pit : /\ k.name \in PrefixesOf[p.name]
                          /\ p.face \in DOMAIN pit[k].ins
                          /\ pit[k].ins[p.face].expiry > now
                          /\ k \in DOMAIN pit' /\ pit'[k].ins = NoRecords

\* Data leaves for a face only in answer to the Interest it just sent, or to one
\* it has on record unexpired, and that record is used up.
THEOREM DataIsAskedFor == Spec => DataFollowsInterest
<1>1. ASSUME IInv, Next, NEW p \in sent', p.type = "data"
      PROVE  AskedFor(p)
  <2>1. \A k, e, T, N, r : Acts(k, e, T, N, r) => p \notin r.sent
    BY <1>1 DEF Acts
  <2>2. ASSUME NEW f \in Faces, NEW i \in Interests, ReceiveInterest(f, i)
        PROVE  AskedFor(p)
    <3>1. ~InterestViolatesScope(f, i)
      BY <1>1 DEF InterestViolatesScope, Emit
    <3>2. \A w : ~InterestLoop(f, i, w)
      <4> SUFFICES ASSUME NEW w, InterestLoop(f, i, w) PROVE FALSE
        OBVIOUS
      <4> DEFINE nack == NackPacket(f, i.name, w, i.nonce, DUPLICATE)
      <4>1. sent' = {} \/ sent' = {nack}
        BY DEF InterestLoop, Emit
      <4>2. nack.type = "nack"
        BY DEF NackPacket
      <4> HIDE DEF nack
      <4> QED BY <1>1, <4>1, <4>2
    <3>3. ~ContentStoreMiss(f, i)
      BY <1>1, <2>1, MissForwards DEF Forwards, Miss
    <3>4. ASSUME NEW d \in cs, ContentStoreHit(f, i, d)
          PROVE  AskedFor(p)
      <4>1. p \in OutgoingData(d, {f}) /\ Emit({f}, OutgoingData(d, {f}))
        BY <1>1, <3>4 DEF ContentStoreHit, Emit
      <4>2. p.face = f
        BY <4>1 DEF OutgoingData, DataPacket
      <4>3. f \in Answers(OutgoingData(d, {f}))
        BY <1>1, <4>1, <4>2 DEF Answers
      <4>4. credit \in [Faces -> Int] /\ credit[f] \in Int
        BY <1>1 DEF IInv, TablesOK
      <4>5. credit'[f] = credit[f] + 1 - 1
        BY <4>1, <4>3, <4>4, EmitFacts
      <4> QED BY <4>2, <4>4, <4>5 DEF AskedFor
    <3> QED BY <2>2, <3>1, <3>2, <3>3, <3>4 DEF ReceiveInterest, LoopInDeadNonceList, LoopInPit
  <2>3. ASSUME NEW f \in Faces, NEW d \in Datas, ReceiveData(f, d)
        PROVE  AskedFor(p)
    <3>1. SolicitedData(f, d)
      BY <1>1, <2>3 DEF ReceiveData, DataViolatesScope, UnsolicitedData, Emit
    <3>2. p \in OutgoingData(d, PendingDownstreams(d) \ {f})
      BY <1>1, <3>1 DEF SolicitedData, Emit
    <3>3. p.face \in PendingDownstreams(d) /\ p.name = d.name
      BY <3>2 DEF OutgoingData, DataPacket
    <3>4. PICK k \in DataMatches(d) :
            p.face \in DOMAIN pit[k].ins /\ pit[k].ins[p.face].expiry > now
      BY <3>3 DEF PendingDownstreams
    <3>5. k \in DOMAIN pit /\ k.name \in PrefixesOf[p.name]
      BY <3>3 DEF DataMatches
    <3>6. d \in Data
      BY ForwarderAssumption
    <3>7. Satisfied(pit[k], f, d).ins = NoRecords
      <4> DEFINE e == pit[k]
      <4>1. now \in Nat /\ IsEntry(e)
        BY <1>1, <3>5 DEF IInv, TablesOK, EntriesOK, RecordsOK
      <4> HIDE DEF e
      <4>2. /\ Satisfied(e, f, d).ins = NoRecords
            /\ Satisfied(e, f, d).straggler.satisfied = TRUE
            /\ DOMAIN Satisfied(e, f, d).outs = DOMAIN e.outs \ {f}
            /\ \A g \in DOMAIN e.outs \ {f} : Satisfied(e, f, d).outs[g] = e.outs[g]
        BY ONLY <3>6, <4>1, SatisfiedEntry
      <4> QED BY <4>2 DEF e
    <3>8. k \in DOMAIN pit' /\ pit'[k] = Satisfied(pit[k], f, d)
      BY <3>1, <3>5 DEF SolicitedData
    <3> QED BY <3>4, <3>5, <3>7, <3>8 DEF AskedFor
  <2>4. ASSUME NEW f \in Faces, NEW k \in Keys, NEW w, NEW nonce, ReceiveNack(f, k, w, nonce)
        PROVE  FALSE
    <3>1. ~DropNack(f, k, w, nonce)
      BY <1>1 DEF DropNack, Emit
    <3>2. ASSUME NEW reason \in NackReasons, AcceptNack(f, k, w, nonce, reason)
          PROVE  FALSE
      <4> DEFINE e == SetIncomingNack(pit[k], f, reason)
      <4>1. PICK d \in AfterReceiveNack(StrategyOf[k.name], e) :
              \E r \in Perform(k, e, d) : sent' = r.sent
        BY <3>2 DEF AcceptNack, Emit
      <4>2. PICK r \in Perform(k, e, d) : sent' = r.sent
        BY <4>1
      <4>3. /\ k \in DOMAIN pit /\ f \in DOMAIN pit[k].outs /\ IsEntry(pit[k])
            /\ now \in Nat /\ faces \subseteq Faces
        BY <1>1, <3>2 DEF AcceptNack, NackMatches, IInv, EntriesOK, RecordsOK, TablesOK
      <4>4. IsEntry(e)
        BY <4>3, NackedEntry
      <4> HIDE DEF e
      <4>5. d.retx \in RetxInitial .. RetxMax
        BY <4>4, RetxAfterNack DEF IsEntry
      <4>6. Acts(k, e, d.targets, d.nackTo, r)
        BY <4>2, <4>3, <4>4, <4>5, PerformActs
      <4> QED BY <1>1, <2>1, <4>2, <4>6
    <3> QED BY <2>4, <3>1, <3>2 DEF ReceiveNack
  <2>5. ASSUME NEW k \in Keys, UnsatisfyTimer(k) \/ StragglerTimer(k)
        PROVE  FALSE
    BY <1>1, <2>5 DEF UnsatisfyTimer, StragglerTimer, Finalize, Emit
  <2>6. ~Tick /\ ~ChangeTopology
    BY <1>1 DEF Tick, ChangeTopology, RemoveFace, AddNextHop, RemoveNextHop, ForgetNonce, Change, Emit
  <2> QED BY <1>1, <2>2, <2>3, <2>4, <2>5, <2>6 DEF Next
<1>2. IInv /\ [Next]_vars => [\A p \in sent' : p.type = "data" => AskedFor(p)]_vars
  BY <1>1
<1> QED BY <1>2, Invariance, PTL DEF Spec, DataFollowsInterest, AskedFor

-----------------------------------------------------------------------------
(* Nonces.  An Interest leaves with the Nonce of the last renewed in-record  *)
(* that is not the upstream's own.                                           *)

\* The default configuration: best-route/v4 everywhere, no NextHopFaceId.
ByDefault ==
  /\ \A n \in Names : StrategyOf[n] = "best-route-v4"
  /\ \A i \in Interests : i.hop = NoHop

\* For any other face than its own the arriving Interest is the one picked.
LEMMA PickIsNew ==
  ASSUME events \in Nat, NEW e, IsEntry(e), EntryOK(e, now, events), NEW f, NEW i, NEW e2,
         Armed(e, f, e2), Renewed(e, f, i, e2), NEW h, h # f, NEW g \in PickedInRecord(e2, h)
  PROVE  g = f
<1>1. f \in DOMAIN e2.ins \ {h} /\ e2.ins[f].order = events
  BY DEF Armed, Renewed
<1>2. g \in DOMAIN e2.ins /\ e2.ins[f].order <= e2.ins[g].order
  BY <1>1 DEF PickedInRecord
<1>3. CASE g # f
  <2>1. g \in DOMAIN e.ins /\ e2.ins[g] = e.ins[g]
    BY <1>2, <1>3 DEF Armed, Renewed
  <2>2. e.ins[g].order \in Nat /\ e.ins[g].order < events
    BY <2>1 DEF IsEntry, IsPartialFunction, InRecord, EntryOK
  <2> QED BY <1>1, <1>2, <2>1, <2>2
<1> QED BY <1>3

\* By default an Interest leaves with its own Nonce, for it is never sent back.
LEMMA DefaultNonce ==
  ASSUME ByDefault, IInv, PipelineOK, NEW f \in Faces, NEW i \in Interests,
         NEW e2, NEW T, NEW N, NEW r, Forwards(f, i, e2, T, N, r),
         NEW p \in sent', p.type = "interest"
  PROVE  p.nonce = i.nonce /\ p.name = i.name
<1> DEFINE k == Key(i)
           e == CancelTimers(EntryFor(i))
<1>1. k \in Keys /\ k.name = i.name /\ RecordsOK(k, EntryFor(i), faces)
      /\ EntryOK(EntryFor(i), now, events)
  BY EntryForOK, EntryForIsOK DEF Key
<1>2. /\ IsEntry(e) /\ e.ins = EntryFor(i).ins /\ e.outs = EntryFor(i).outs
      /\ e.straggler.at = NEVER
  BY <1>1, CancelTimersType DEF RecordsOK, NoStraggler
<1> HIDE DEF e
<1>3. EntryOK(e, now, events)
  BY <1>1, <1>2 DEF EntryOK
<1>4. p.face \in Allowed(k, e2, T) /\ IsPicked(k, e2, p)
  BY ForwardingKeepsInRecords
<1> HIDE DEF k
<1>5. Armed(e, f, e2) /\ Renewed(e, f, i, e2) /\ Chosen(k, e2, f, i, T, N)
  BY DEF Forwards, Miss, k, e
<1>6. f \notin T
  <2>1. i.hop = NoHop /\ StrategyOf[k.name] = "best-route-v4"
    BY <1>1 DEF ByDefault, Keys
  <2>2. PICK hops, d : /\ d \in AfterReceiveInterest("best-route-v4", e2, k.name, hops, f, now)
                       /\ T = d.targets
    BY <1>5, <2>1 DEF Chosen
  <2> QED BY <2>2, BestRoute2NotBack
<1>7. p.face # f
  BY <1>4, <1>6 DEF Allowed
<1>8. PICK g \in PickedInRecord(e2, p.face) : p.nonce = e2.ins[g].nonce
  BY <1>4 DEF IsPicked
<1>9. events \in Nat
  BY DEF IInv, TablesOK
<1>10. g = f
  BY <1>2, <1>3, <1>5, <1>7, <1>8, <1>9, PickIsNew
<1> QED BY <1>1, <1>4, <1>5, <1>8, <1>10 DEF Renewed, IsPicked

\* By default the Nonce last sent to an upstream is not sent to it again while
\* the entry lives, so that an upstream never takes a retransmission for a loop.
THEOREM UpstreamNoncesAreFresh ==
  ASSUME ByDefault
  PROVE  Spec => FreshNonceUpstream
<1> DEFINE Fresh(p) ==
      \A k \in DOMAIN pit :
        k.name = p.name /\ p.face \in DOMAIN pit[k].outs /\ pit'[k] # pit[k] =>
          pit[k].outs[p.face].nonce # p.nonce
<1>1. ASSUME IInv, PipelineOK, Next, NEW p \in sent', p.type = "interest"
      PROVE  Fresh(p)
  <2>1. PICK f \in Faces, i \in Interests : \E e2, T, N, r : Forwards(f, i, e2, T, N, r)
    BY <1>1, InterestIsForwarded
  <2>2. PICK e2, T, N, r : Forwards(f, i, e2, T, N, r)
    BY <2>1
  <2>3. p.nonce = i.nonce
    BY <1>1, <2>2, DefaultNonce
  <2>4. ~HasDuplicateNonce(EntryFor(i), i.nonce) /\ pit' = Put(pit, Key(i), r.entry)
    BY <2>2 DEF Forwards, ContentStoreMiss, Accepts
  <2> SUFFICES ASSUME NEW k \in DOMAIN pit, p.face \in DOMAIN pit[k].outs, pit'[k] # pit[k]
               PROVE  pit[k].outs[p.face].nonce # p.nonce
    OBVIOUS
  <2>5. k = Key(i)
    BY <2>4 DEF Put
  <2>6. EntryFor(i) = pit[k]
    BY <2>5 DEF EntryFor
  <2> QED BY <2>3, <2>4, <2>6 DEF HasDuplicateNonce
<1>2. IInv /\ PipelineOK /\ [Next]_vars => [\A p \in sent' : p.type = "interest" => Fresh(p)]_vars
  BY <1>1
<1> QED BY <1>2, PipelineInvariance, PTL DEF Spec, FreshNonceUpstream

\* By default no Nonce on the Dead Nonce List is forwarded under its name, unless
\* a "/queried" part hides the name from the list.
THEOREM DeadNoncesStopByDefault ==
  ASSUME ByDefault, \A i \in Interests : i.word = NoWord
  PROVE  Spec => DeadNonceNotForwarded
<1>1. ASSUME IInv, PipelineOK, Next, NEW p \in sent', p.type = "interest"
      PROVE  [name |-> p.name, word |-> NoWord, nonce |-> p.nonce] \notin dnl
  <2>1. PICK f \in Faces, i \in Interests : \E e2, T, N, r : Forwards(f, i, e2, T, N, r)
    BY <1>1, InterestIsForwarded
  <2>2. PICK e2, T, N, r : Forwards(f, i, e2, T, N, r)
    BY <2>1
  <2>3. p.nonce = i.nonce /\ p.name = i.name
    BY <1>1, <2>2, DefaultNonce
  <2>4. ~IsDeadNonce(i)
    BY <2>2 DEF Forwards, ContentStoreMiss, Accepts
  <2> QED BY <2>3, <2>4 DEF IsDeadNonce
<1>2. IInv /\ PipelineOK /\ [Next]_vars
        => [\A p \in sent' : p.type = "interest" =>
              [name |-> p.name, word |-> NoWord, nonce |-> p.nonce] \notin dnl]_vars
  BY <1>1
<1> QED BY <1>2, PipelineInvariance, PTL DEF Spec, DeadNonceNotForwarded

-----------------------------------------------------------------------------
(* Best-route/v4 answers when every upstream has returned a Nack             *)

\* A FIB lookup finds next hops that are in the face table.
LEMMA LookupFibFacts ==
  ASSUME IInv, NEW n \in Names, NEW hops \in LookupFib(n)
  PROVE  DOMAIN hops \subseteq faces
<1>1. \A p \in PrefixesOf[n] : DOMAIN fib[p] \subseteq faces
  BY NamesAssumption DEF IInv, TablesOK
<1>2. hops = NoRecords \/ \E p \in PrefixesOf[n] : hops = fib[p]
  BY DEF LookupFib
<1> QED BY <1>1, <1>2, NoRecordsType

\* What best-route/v4 does when the last Nack has come: all downstreams get one.
LEMMA LastNackIsAnswered ==
  ASSUME NEW e, IsEntry(e), \A f \in DOMAIN e.outs : e.outs[f].nack # NoNack,
         NEW d \in AfterReceiveNack("best-route-v4", e)
  PROVE  d.nackTo = DOMAIN e.ins
<1> DEFINE waiting == {f \in DOMAIN e.outs : e.outs[f].nack = NoNack}
           w == Wait(e)
<1>1. waiting = {}
  OBVIOUS
<1>2. w \in [targets : {{}}, nackTo : {{}}, reason : {NONE}, reject : {FALSE},
             retx : {e.retx}]
  BY DEF Wait
<1>3. \E R : d = [w EXCEPT !.nackTo = DOMAIN e.ins, !.reason = R]
  BY <1>1 DEF AfterReceiveNack, BestRoute2AfterNack
<1> HIDE DEF w
<1> QED BY <1>2, <1>3

\* Interests whose NextHopFaceId names a face that their scope allows.
HopsInScope ==
  \A i \in Interests : \/ i.hop \in LocalFaces \cup {NoHop}
                       \/ i.name \notin LocalhostNames \cup LocalhopNames

\* the entry k, if all its upstreams answered with a Nack, waits for nobody who
\* can be told
Answered(k, e) ==
  /\ StrategyOf[k.name] = "best-route-v4"
  /\ e.outs # NoRecords
  /\ \A f \in DOMAIN e.outs : e.outs[f].answered
  => DOMAIN e.ins \subseteq MultiAccessFaces

\* An Interest for an entry whose upstreams all answered is forwarded, or gets a
\* Nack itself.
LEMMA MissIsAnswered ==
  ASSUME IInv, PipelineOK, faces = Faces, HopsInScope, NEW f \in faces, NEW i \in Interests,
         NEW e2, NEW T, NEW N, NEW r, Forwards(f, i, e2, T, N, r),
         \A l \in DOMAIN pit : Answered(l, pit[l])
  PROVE  Answered(Key(i), r.entry)
<1> DEFINE k == Key(i)
           e == CancelTimers(EntryFor(i))
<1>1. k \in Keys /\ k.name = i.name /\ RecordsOK(k, EntryFor(i), faces)
      /\ EntryOK(EntryFor(i), now, events)
  BY EntryForOK, EntryForIsOK DEF Key
<1>2. /\ IsEntry(e) /\ e.ins = EntryFor(i).ins /\ e.outs = EntryFor(i).outs
  BY <1>1, CancelTimersType DEF RecordsOK
<1> HIDE DEF e
<1>3. k \notin DOMAIN pit => EntryFor(i).outs = NoRecords
  BY DEF EntryFor, NewEntry
<1>4. k \in DOMAIN pit => EntryFor(i) = pit[k]
  BY DEF EntryFor
<1>5. /\ Armed(e, f, e2) /\ Chosen(k, e2, f, i, T, N)
      /\ Performs(k, e2, r) /\ Acts(k, e2, T, N, r)
  BY DEF Forwards, Miss, e
<1> HIDE DEF k
<1> SUFFICES ASSUME StrategyOf[k.name] = "best-route-v4", r.entry.outs # NoRecords,
                    \A g \in DOMAIN r.entry.outs : r.entry.outs[g].answered
             PROVE  DOMAIN r.entry.ins \subseteq MultiAccessFaces
  BY DEF Answered, k
<1>6. Allowed(k, e2, T) = {}
  BY <1>5 DEF Acts
<1>7. /\ DOMAIN r.entry.outs = DOMAIN e.outs
      /\ \A g \in DOMAIN e.outs : r.entry.outs[g] = e.outs[g]
  BY <1>5, <1>6 DEF Acts, Armed
<1>8. e.outs # NoRecords
  <2>1. IsPartialFunction(r.entry.outs, Faces, OutRecord)
    BY <1>5 DEF Performs, IsEntry
  <2>2. DOMAIN r.entry.outs # {}
    BY <2>1, EmptyIsNoRecords
  <2> QED BY <1>7, <2>2, NoRecordsType
<1>9. k \in DOMAIN pit /\ Answered(k, pit[k]) /\ e.ins = pit[k].ins /\ e.outs = pit[k].outs
  BY <1>2, <1>3, <1>4, <1>8
<1>10. DOMAIN e.ins \subseteq MultiAccessFaces
  BY <1>7, <1>8, <1>9 DEF Answered
<1>11. ~HasPendingOutRecords(e2, now)
  <2>1. e2.outs = e.outs
    BY <1>5 DEF Armed
  <2> QED BY <1>1, <1>2, <1>7, <2>1 DEF HasPendingOutRecords, EntryOK
<1>12. CASE i.hop # NoHop
  <2>1. T = {i.hop}
    BY <1>5, <1>12 DEF Chosen
  <2>2. i.hop \in faces
    BY <1>12, ForwarderAssumption DEF Interest
  <2>3. ~ViolatesScope(e2, k.name, i.hop)
    BY <1>1, <1>12 DEF HopsInScope, ViolatesScope
  <2> QED BY <1>6, <2>1, <2>2, <2>3 DEF Allowed
<1>13. CASE i.hop = NoHop
  <2>1. PICK hops \in LookupFib(k.name) :
          \E d \in AfterReceiveInterest("best-route-v4", e2, k.name, hops, f, now) :
            T = d.targets /\ N = d.nackTo
    BY <1>5, <1>13 DEF Chosen
  <2>2. PICK d \in AfterReceiveInterest("best-route-v4", e2, k.name, hops, f, now) :
          T = d.targets /\ N = d.nackTo
    BY <2>1
  <2>3. DOMAIN hops \subseteq faces
    BY <1>1, <2>1, LookupFibFacts DEF Keys
  <2>4. \/ N = {f} /\ T = {}
        \/ \E g \in DOMAIN hops : ~ViolatesScope(e2, k.name, g) /\ T = {g}
    BY <1>11, <2>2, BestRoute2Acts
  <2>5. N = {f}
    BY <1>6, <2>3, <2>4 DEF Allowed
  <2>6. DOMAIN e2.ins = DOMAIN e.ins \cup {f}
    BY <1>5 DEF Armed
  <2>7. f \notin MultiAccessFaces => f \in NackableFaces(e2, N)
    BY <2>5, <2>6 DEF NackableFaces
  <2>8. DOMAIN r.entry.ins = DOMAIN e2.ins \ NackableFaces(e2, N)
    BY <1>5 DEF Acts
  <2> QED BY <1>10, <2>6, <2>7, <2>8
<1> QED BY <1>12, <1>13

\* When the Nack that comes in is the last one, it is passed on.
LEMMA NackIsAnswered ==
  ASSUME IInv, PipelineOK, faces = Faces, NEW f \in Faces, NEW k \in Keys, NEW w, NEW nonce,
         NEW reason \in NackReasons, AcceptNack(f, k, w, nonce, reason)
  PROVE  \E e : pit' = Put(pit, k, e) /\ Answered(k, e)
<1> DEFINE e == SetIncomingNack(pit[k], f, reason)
<1>1. PICK d \in AfterReceiveNack(StrategyOf[k.name], e) :
        \E r \in Perform(k, e, d) : pit' = Put(pit, k, r.entry)
  BY DEF AcceptNack
<1>2. PICK r \in Perform(k, e, d) : pit' = Put(pit, k, r.entry)
  BY <1>1
<1>3. /\ k \in DOMAIN pit /\ f \in DOMAIN pit[k].outs
      /\ now \in Nat /\ faces \subseteq Faces
  BY DEF AcceptNack, NackMatches, IInv, TablesOK
<1>4. IsEntry(pit[k]) /\ EntryOK(pit[k], now, events) /\ DOMAIN pit[k].ins \subseteq faces
  BY <1>3 DEF IInv, EntriesOK, RecordsOK, PipelineOK
<1>5. IsEntry(e) /\ e.ins = pit[k].ins /\ DOMAIN e.outs = DOMAIN pit[k].outs
  BY <1>3, <1>4, NackedEntry
<1>6. \A g \in DOMAIN e.outs :
        e.outs[g] = IF g = f THEN [pit[k].outs[g] EXCEPT !.nack = reason, !.answered = TRUE]
                    ELSE pit[k].outs[g]
  BY <1>4 DEF SetIncomingNack, IsEntry
<1>7. pit[k].outs[f] \in OutRecord /\ reason # NoNack
  BY <1>3, <1>4, ValuesAssumption DEF IsEntry, IsPartialFunction, NoNack
<1>8. \A g \in DOMAIN e.outs : e.outs[g].answered => e.outs[g].nack # NoNack
  <2>1. [pit[k].outs[f] EXCEPT !.nack = reason, !.answered = TRUE].nack = reason
    BY <1>7 DEF OutRecord
  <2> QED BY <1>4, <1>5, <1>6, <1>7, <2>1 DEF EntryOK
<1> HIDE DEF e
<1>9. d.retx \in RetxInitial .. RetxMax /\ d.targets = {}
  BY <1>5, RetxAfterNack DEF IsEntry
<1>10. Acts(k, e, {}, d.nackTo, r)
  BY <1>2, <1>3, <1>5, <1>9, PerformActs
<1>11. Allowed(k, e, {}) = {}
  BY DEF Allowed
<1>12. /\ DOMAIN r.entry.outs = DOMAIN e.outs
       /\ \A g \in DOMAIN e.outs : r.entry.outs[g] = e.outs[g]
       /\ DOMAIN r.entry.ins = DOMAIN e.ins \ NackableFaces(e, d.nackTo)
  BY <1>10, <1>11 DEF Acts
<1>13. ASSUME StrategyOf[k.name] = "best-route-v4",
              \A g \in DOMAIN r.entry.outs : r.entry.outs[g].answered
       PROVE  DOMAIN r.entry.ins \subseteq MultiAccessFaces
  <2>1. \A g \in DOMAIN e.outs : e.outs[g].nack # NoNack
    BY <1>8, <1>12, <1>13
  <2>2. d.nackTo = DOMAIN e.ins
    BY <1>1, <1>5, <1>13, <2>1, LastNackIsAnswered
  <2> QED BY <1>4, <1>5, <1>12, <2>2 DEF NackableFaces
<1> QED BY <1>2, <1>13 DEF Answered

\* As long as no face is removed, an entry of best-route/v4 all of whose upstreams
\* returned a Nack keeps no downstream waiting that a Nack can be sent to.
THEOREM NackedIsAnswered ==
  ASSUME HopsInScope
  PROVE  Spec => []AllNackedIsAnswered
<1> DEFINE J == faces = Faces => \A k \in DOMAIN pit : Answered(k, pit[k])
<1>1. Init => J
  BY NoRecordsType DEF Init
<1>2. ASSUME IInv, PipelineOK, J, [Next]_vars
      PROVE  J'
  <2> SUFFICES ASSUME faces' = Faces, NEW k \in DOMAIN pit' PROVE Answered(k, pit'[k])
    OBVIOUS
  <2>1. CASE UNCHANGED vars
    BY <1>2, <2>1 DEF vars
  <2>2. faces = Faces
    <3>1. faces' \subseteq faces
      BY ZenonT(30), <1>2
         DEF Next, vars, ReceiveInterest, InterestViolatesScope, LoopInDeadNonceList, LoopInPit,
             ContentStoreHit, ContentStoreMiss, Accepts, ReceiveData, DataViolatesScope,
             UnsolicitedData, SolicitedData, ReceiveNack, DropNack, AcceptNack, Arrival,
             UnsatisfyTimer, StragglerTimer, Finalize, Tick, ChangeTopology, RemoveFace,
             AddNextHop, RemoveNextHop, ForgetNonce
    <3>2. faces \subseteq Faces
      BY <1>2 DEF IInv, TablesOK
    <3> QED BY <3>1, <3>2
  <2>3. \A l \in DOMAIN pit : Answered(l, pit[l])
    BY <1>2, <2>2
  <2>4. ASSUME NEW l, NEW e, pit' = Put(pit, l, e), Answered(l, e)
        PROVE  Answered(k, pit'[k])
    <3>1. k = l \/ k \in DOMAIN pit
      BY <2>4 DEF Put
    <3>2. pit'[k] = IF k = l THEN e ELSE pit[k]
      BY <2>4, <3>1 DEF Put
    <3> QED BY <2>3, <2>4, <3>1, <3>2
  <2>5. ASSUME NEW f \in Faces, NEW i \in Interests, ReceiveInterest(f, i)
        PROVE  Answered(k, pit'[k])
    <3>1. CASE pit' = pit
      BY <2>3, <3>1
    <3>2. ASSUME NEW d \in cs, ContentStoreHit(f, i, d)
          PROVE  Answered(k, pit'[k])
      <4> DEFINE e1 == CancelTimers(EntryFor(i))
                 e2 == SetStragglerTimer(e1, TRUE, d.stale)
      <4>1. IsEntry(e1) /\ e1.ins = EntryFor(i).ins
        BY <1>2, EntryForOK, CancelTimersType DEF RecordsOK
      <4>2. d.stale \in BOOLEAN /\ now \in Nat
        BY <1>2 DEF IInv, TablesOK, Data
      <4> HIDE DEF e1
      <4>3. e2.ins = e1.ins
        BY <4>1, <4>2, SetStragglerTimerType
      <4>4. pit' = Put(pit, Key(i), e2) /\ DOMAIN EntryFor(i).ins = {}
        BY <3>2 DEF ContentStoreHit, e1
      <4> HIDE DEF e2
      <4>5. Answered(Key(i), e2)
        BY <4>1, <4>3, <4>4 DEF Answered
      <4> QED BY <2>4, <4>4, <4>5
    <3>3. CASE ContentStoreMiss(f, i)
      <4>1. f \in faces
        BY <3>3 DEF ContentStoreMiss, Accepts, Arrival
      <4>2. PICK e2, T, N, r : Forwards(f, i, e2, T, N, r)
        BY <1>2, <3>3, MissForwards
      <4>3. Answered(Key(i), r.entry)
        BY <1>2, <2>2, <2>3, <4>1, <4>2, MissIsAnswered
      <4>4. pit' = Put(pit, Key(i), r.entry)
        BY <4>2 DEF Forwards
      <4> QED BY <2>4, <4>3, <4>4
    <3> QED BY <2>5, <3>1, <3>2, <3>3
         DEF ReceiveInterest, InterestViolatesScope, LoopInDeadNonceList, LoopInPit, InterestLoop
  <2>6. ASSUME NEW f \in Faces, NEW d \in Datas, ReceiveData(f, d)
        PROVE  Answered(k, pit'[k])
    <3>1. CASE pit' = pit
      BY <2>3, <3>1
    <3>2. CASE SolicitedData(f, d)
      <4>1. k \in DOMAIN pit /\ pit'[k] = IF k \in DataMatches(d) THEN Satisfied(pit[k], f, d)
                                          ELSE pit[k]
        BY <3>2 DEF SolicitedData
      <4>2. Answered(k, Satisfied(pit[k], f, d))
        <5> DEFINE e == pit[k]
        <5>1. now \in Nat /\ IsEntry(e)
          BY <1>2, <4>1 DEF IInv, TablesOK, EntriesOK, RecordsOK
        <5>2. d \in Data
          BY ForwarderAssumption
        <5> HIDE DEF e
        <5>3. /\ Satisfied(e, f, d).ins = NoRecords
              /\ Satisfied(e, f, d).straggler.satisfied = TRUE
              /\ DOMAIN Satisfied(e, f, d).outs = DOMAIN e.outs \ {f}
              /\ \A g \in DOMAIN e.outs \ {f} : Satisfied(e, f, d).outs[g] = e.outs[g]
          BY ONLY <5>1, <5>2, SatisfiedEntry
        <5>4. DOMAIN Satisfied(e, f, d).ins = {}
          BY <5>3, NoRecordsType
        <5> QED BY <5>4 DEF Answered, e
      <4> QED BY <2>3, <4>1, <4>2
    <3> QED BY <2>6, <3>1, <3>2 DEF ReceiveData, DataViolatesScope, UnsolicitedData
  <2>7. ASSUME NEW f \in Faces, NEW l \in Keys, NEW w, NEW nonce, ReceiveNack(f, l, w, nonce)
        PROVE  Answered(k, pit'[k])
    <3>1. CASE pit' = pit
      BY <2>3, <3>1
    <3>2. ASSUME NEW reason \in NackReasons, AcceptNack(f, l, w, nonce, reason)
          PROVE  Answered(k, pit'[k])
      BY <1>2, <2>2, <2>4, <3>2, NackIsAnswered
    <3> QED BY <2>7, <3>1, <3>2 DEF ReceiveNack, DropNack
  <2>8. ASSUME NEW l \in Keys, UnsatisfyTimer(l) \/ StragglerTimer(l)
        PROVE  Answered(k, pit'[k])
    <3>1. k \in DOMAIN pit /\ pit'[k] = pit[k]
      BY <2>8 DEF UnsatisfyTimer, StragglerTimer, Finalize, Drop, Restrict
    <3> QED BY <2>3, <3>1
  <2>9. CASE Tick
    BY <2>3, <2>9 DEF Tick
  <2>10. CASE ChangeTopology
    <3>1. \A f : ~RemoveFace(f)
      BY <2>2 DEF RemoveFace
    <3> QED BY <2>3, <2>10, <3>1 DEF ChangeTopology, AddNextHop, RemoveNextHop, ForgetNonce
  <2> QED BY <1>2, <2>1, <2>5, <2>6, <2>7, <2>8, <2>9, <2>10 DEF Next
<1>3. J => AllNackedIsAnswered
  BY DEF AllNackedIsAnswered, Answered
<1> QED BY <1>1, <1>2, <1>3, PipelineInvariance, PTL DEF Spec

-----------------------------------------------------------------------------
(* The Dead Nonce List under any strategy.  An Interest may then go back to  *)
(* where it came from, with the Nonce of another in-record: that Nonce has   *)
(* not died in the meantime, unless it died with another entry of its name.  *)

\* No "/queried" part hides a name from the list, and the Interests of a name
\* share an entry.
OneEntryPerName ==
  /\ \A i \in Interests : i.word = NoWord
  /\ \A i, j \in Interests : i.name = j.name => i.fresh = j.fresh

\* The Nonces of the in-records of k are not on the list.
Alive(k, e, D) == \A f \in DOMAIN e.ins : DeadName(k, e.ins[f].nonce) \notin D

AllAlive ==
  \A k \in DOMAIN pit : (\E i \in Interests : k = Key(i)) /\ Alive(k, pit[k], dnl)

\* Two entries of one name are the same entry.
LEMMA SameEntry ==
  ASSUME OneEntryPerName, AllAlive, NEW k \in DOMAIN pit, NEW l \in DOMAIN pit,
         NEW x, NEW y, DeadName(k, x) = DeadName(l, y)
  PROVE  k = l
<1>1. PICK i \in Interests, j \in Interests : k = Key(i) /\ l = Key(j)
  BY DEF AllAlive
<1>2. k.name = l.name
  BY DEF DeadName
<1>3. i.name = j.name
  BY <1>1, <1>2 DEF Key
<1> QED BY <1>1, <1>3 DEF OneEntryPerName, Key

\* In the entry that is forwarded no Nonce is on the list.
LEMMA ForwardedIsAlive ==
  ASSUME OneEntryPerName, IInv, AllAlive, NEW f \in Faces, NEW i \in Interests,
         NEW e2, NEW T, NEW N, NEW r, Forwards(f, i, e2, T, N, r)
  PROVE  Alive(Key(i), e2, dnl) /\ Alive(Key(i), r.entry, dnl)
<1> DEFINE k == Key(i)
           e == CancelTimers(EntryFor(i))
<1>1. Armed(e, f, e2) /\ Renewed(e, f, i, e2) /\ Acts(k, e2, T, N, r)
  BY DEF Forwards, Miss
<1>2. e.ins = EntryFor(i).ins
  BY EntryForOK, CancelTimersType DEF RecordsOK
<1> HIDE DEF e
<1>3. Alive(k, e, dnl)
  <2>1. CASE k \in DOMAIN pit
    BY <1>2, <2>1 DEF EntryFor, AllAlive, Alive
  <2>2. CASE k \notin DOMAIN pit
    <3>1. EntryFor(i).ins = NoRecords
      BY <2>2 DEF EntryFor, NewEntry
    <3> QED BY <1>2, <3>1, NoRecordsType DEF Alive
  <2> QED BY <2>1, <2>2
<1>4. DeadName(k, i.nonce) \notin dnl
  <2>1. ~IsDeadNonce(i)
    BY DEF Forwards, ContentStoreMiss, Accepts
  <2> QED BY <2>1 DEF IsDeadNonce, DeadName, OneEntryPerName, Key
<1> HIDE DEF k
<1>5. Alive(k, e2, dnl)
  <2> SUFFICES ASSUME NEW g \in DOMAIN e2.ins PROVE DeadName(k, e2.ins[g].nonce) \notin dnl
    BY DEF Alive
  <2>1. CASE g = f
    BY <1>1, <1>4, <2>1 DEF Renewed
  <2>2. CASE g # f
    BY <1>1, <1>3, <2>2 DEF Armed, Renewed, Alive
  <2> QED BY <2>1, <2>2
<1>6. Alive(k, r.entry, dnl)
  BY <1>1, <1>5 DEF Acts, Alive
<1> QED BY <1>5, <1>6 DEF k

\* Every step keeps the Nonces of the in-records off the list.
LEMMA AliveStays ==
  ASSUME OneEntryPerName, IInv, AllAlive, [Next]_vars
  PROVE  AllAlive'
<1>1. CASE pit' = pit /\ dnl' \subseteq dnl
  BY <1>1 DEF AllAlive, Alive
<1>2. ASSUME NEW l, NEW e, pit' = Put(pit, l, e), dnl' = dnl, Alive(l, e, dnl),
             \E i \in Interests : l = Key(i)
      PROVE  AllAlive'
  <2>1. \A k \in DOMAIN pit' : /\ k = l \/ k \in DOMAIN pit
                               /\ pit'[k] = IF k = l THEN e ELSE pit[k]
    BY <1>2 DEF Put
  <2>2. \A k \in DOMAIN pit' : (\E i \in Interests : k = Key(i)) /\ Alive(k, pit'[k], dnl)
    BY <1>2, <2>1 DEF AllAlive
  <2> QED BY <1>2, <2>2 DEF AllAlive
<1>3. ASSUME NEW f \in Faces, NEW i \in Interests, ReceiveInterest(f, i)
      PROVE  AllAlive'
  <2>1. ASSUME NEW d \in cs, ContentStoreHit(f, i, d)
        PROVE  AllAlive'
    <3> DEFINE e1 == CancelTimers(EntryFor(i))
               e2 == SetStragglerTimer(e1, TRUE, d.stale)
    <3>1. IsEntry(e1) /\ e1.ins = EntryFor(i).ins
      BY EntryForOK, CancelTimersType DEF RecordsOK
    <3>2. d.stale \in BOOLEAN /\ now \in Nat
      BY DEF IInv, TablesOK, Data
    <3> HIDE DEF e1
    <3>3. e2.ins = e1.ins
      BY <3>1, <3>2, SetStragglerTimerType
    <3>4. pit' = Put(pit, Key(i), e2) /\ DOMAIN EntryFor(i).ins = {} /\ dnl' = dnl
      BY <2>1 DEF ContentStoreHit, Accepts, e1
    <3> HIDE DEF e2
    <3>5. Alive(Key(i), e2, dnl)
      BY <3>1, <3>3, <3>4 DEF Alive
    <3> QED BY <1>2, <3>4, <3>5
  <2>2. CASE ContentStoreMiss(f, i)
    <3>1. PICK e2, T, N, r : Forwards(f, i, e2, T, N, r)
      BY <2>2, MissForwards
    <3>2. Alive(Key(i), r.entry, dnl)
      BY <3>1, ForwardedIsAlive
    <3>3. pit' = Put(pit, Key(i), r.entry) /\ dnl' = dnl
      BY <3>1 DEF Forwards, ContentStoreMiss, Accepts
    <3> QED BY <1>2, <3>2, <3>3
  <2> QED BY <1>1, <1>3, <2>1, <2>2
       DEF ReceiveInterest, InterestViolatesScope, LoopInDeadNonceList, LoopInPit, InterestLoop
<1>4. ASSUME NEW f \in Faces, NEW d \in Datas, SolicitedData(f, d)
      PROVE  AllAlive'
  <2> SUFFICES ASSUME NEW k \in DOMAIN pit'
               PROVE  (\E i \in Interests : k = Key(i)) /\ Alive(k, pit'[k], dnl')
    BY DEF AllAlive
  <2>1. k \in DOMAIN pit /\ pit'[k] = IF k \in DataMatches(d) THEN Satisfied(pit[k], f, d)
                                      ELSE pit[k]
    BY <1>4 DEF SolicitedData
  <2>2. CASE k \in DataMatches(d)
    <3> DEFINE e == pit[k]
    <3>1. now \in Nat /\ IsEntry(e)
      BY <2>1 DEF IInv, TablesOK, EntriesOK, RecordsOK
    <3>2. d \in Data
      BY ForwarderAssumption
    <3> HIDE DEF e
    <3>3. /\ Satisfied(e, f, d).ins = NoRecords
          /\ Satisfied(e, f, d).straggler.satisfied = TRUE
          /\ DOMAIN Satisfied(e, f, d).outs = DOMAIN e.outs \ {f}
          /\ \A g \in DOMAIN e.outs \ {f} : Satisfied(e, f, d).outs[g] = e.outs[g]
      BY ONLY <3>1, <3>2, SatisfiedEntry
    <3>4. DOMAIN pit'[k].ins = {}
      BY <2>1, <2>2, <3>3, NoRecordsType DEF e
    <3> QED BY <2>1, <3>4 DEF AllAlive, Alive
  <2>3. CASE k \notin DataMatches(d)
    <3>1. \A x : DeadName(k, x) \in dnl' => DeadName(k, x) \in dnl
      <4> SUFFICES ASSUME NEW x, DeadName(k, x) \in dnl', DeadName(k, x) \notin dnl
                   PROVE  FALSE
        OBVIOUS
      <4>1. PICK l \in DataMatches(d) : DeadName(k, x) = DeadName(l, pit[l].outs[f].nonce)
        BY <1>4 DEF SolicitedData
      <4>2. l \in DOMAIN pit
        BY DEF DataMatches
      <4>3. k = l
        BY <2>1, <4>1, <4>2, SameEntry
      <4> QED BY <2>3, <4>3
    <3> QED BY <2>1, <2>3, <3>1 DEF AllAlive, Alive
  <2> QED BY <2>2, <2>3
<1>5. ASSUME NEW f \in Faces, NEW l \in Keys, NEW w, NEW nonce, NEW reason \in NackReasons,
             AcceptNack(f, l, w, nonce, reason)
      PROVE  AllAlive'
  <2> DEFINE e == SetIncomingNack(pit[l], f, reason)
  <2>1. PICK d \in AfterReceiveNack(StrategyOf[l.name], e) :
          \E r \in Perform(l, e, d) : pit' = Put(pit, l, r.entry)
    BY <1>5 DEF AcceptNack
  <2>2. PICK r \in Perform(l, e, d) : pit' = Put(pit, l, r.entry)
    BY <2>1
  <2>3. /\ l \in DOMAIN pit /\ f \in DOMAIN pit[l].outs /\ IsEntry(pit[l])
        /\ now \in Nat /\ faces \subseteq Faces /\ dnl' = dnl
    BY <1>5 DEF AcceptNack, NackMatches, IInv, EntriesOK, RecordsOK, TablesOK
  <2>4. IsEntry(e) /\ e.ins = pit[l].ins
    BY <2>3, NackedEntry
  <2> HIDE DEF e
  <2>5. d.retx \in RetxInitial .. RetxMax
    BY <2>4, RetxAfterNack DEF IsEntry
  <2>6. Acts(l, e, d.targets, d.nackTo, r)
    BY <2>2, <2>3, <2>4, <2>5, PerformActs
  <2>7. Alive(l, r.entry, dnl)
    BY <2>3, <2>4, <2>6 DEF Acts, AllAlive, Alive
  <2> QED BY <1>2, <2>2, <2>3, <2>7 DEF AllAlive
<1>6. ASSUME NEW l \in Keys, UnsatisfyTimer(l) \/ StragglerTimer(l)
      PROVE  AllAlive'
  <2>1. PICK needDnl : Finalize(l, needDnl) /\ l \in DOMAIN pit
    BY <1>6 DEF UnsatisfyTimer, StragglerTimer
  <2> SUFFICES ASSUME NEW k \in DOMAIN pit'
               PROVE  (\E i \in Interests : k = Key(i)) /\ Alive(k, pit'[k], dnl')
    BY DEF AllAlive
  <2>2. k \in DOMAIN pit /\ k # l /\ pit'[k] = pit[k]
    BY <2>1 DEF Finalize, Drop, Restrict
  <2>3. \A x : DeadName(k, x) \in dnl' => DeadName(k, x) \in dnl
    <3> SUFFICES ASSUME NEW x, DeadName(k, x) \in dnl', DeadName(k, x) \notin dnl
                 PROVE  FALSE
      OBVIOUS
    <3>1. \E y : DeadName(k, x) = DeadName(l, y)
      BY <2>1 DEF Finalize
    <3> QED BY <2>1, <2>2, <3>1, SameEntry
  <2> QED BY <2>2, <2>3 DEF AllAlive, Alive
<1>7. ASSUME NEW f, RemoveFace(f)
      PROVE  AllAlive'
  <2> SUFFICES ASSUME NEW k \in DOMAIN pit'
               PROVE  (\E i \in Interests : k = Key(i)) /\ Alive(k, pit'[k], dnl')
    BY DEF AllAlive
  <2> DEFINE e == pit[k]
             ins == Drop(e.ins, f)
  <2>1. k \in DOMAIN pit /\ pit'[k] = DeleteInOutRecords(e, f) /\ dnl' = dnl
    BY <1>7 DEF RemoveFace
  <2>2. IsEntry(e)
    BY <2>1 DEF IInv, EntriesOK, RecordsOK
  <2>3. DeleteInOutRecords(e, f).ins = ins
    BY <2>2 DEF DeleteInOutRecords, IsEntry
  <2>4. \A g \in DOMAIN ins : g \in DOMAIN e.ins /\ ins[g] = e.ins[g]
    BY DEF Drop, Restrict
  <2> QED BY <2>1, <2>3, <2>4 DEF AllAlive, Alive
<1>8. CASE UNCHANGED vars
  BY <1>1, <1>8 DEF vars
<1>9. CASE \E f \in Faces, d \in Datas : ReceiveData(f, d)
  BY <1>1, <1>4, <1>9 DEF ReceiveData, DataViolatesScope, UnsolicitedData
<1>10. CASE \E f \in Faces, k \in Keys, w \in Words \cup {NoWord}, nonce \in Nonces :
              ReceiveNack(f, k, w, nonce)
  BY <1>1, <1>5, <1>10 DEF ReceiveNack, DropNack
<1>11. CASE Tick \/ ChangeTopology
  BY <1>1, <1>7, <1>11 DEF Tick, ChangeTopology, AddNextHop, RemoveNextHop, ForgetNonce
<1> QED BY <1>3, <1>6, <1>8, <1>9, <1>10, <1>11 DEF Next

\* A Nonce on the Dead Nonce List is not forwarded under its name, whatever the
\* strategy, as long as all Interests of a name share one entry.
THEOREM DeadNoncesStop ==
  ASSUME OneEntryPerName
  PROVE  Spec => DeadNonceNotForwarded
<1>1. Init => AllAlive
  BY NoRecordsType DEF Init, AllAlive
<1>2. IInv /\ AllAlive /\ [Next]_vars => AllAlive'
  BY AliveStays
<1>3. ASSUME IInv, AllAlive, Next, NEW p \in sent', p.type = "interest"
      PROVE  [name |-> p.name, word |-> NoWord, nonce |-> p.nonce] \notin dnl
  <2>1. PICK f \in Faces, i \in Interests : \E e2, T, N, r : Forwards(f, i, e2, T, N, r)
    BY <1>3, InterestIsForwarded
  <2>2. PICK e2, T, N, r : Forwards(f, i, e2, T, N, r)
    BY <2>1
  <2> DEFINE k == Key(i)
  <2>3. IsPicked(k, e2, p)
    BY <1>3, <2>2, ForwardingKeepsInRecords
  <2>4. Alive(k, e2, dnl)
    BY <1>3, <2>2, ForwardedIsAlive
  <2> HIDE DEF k
  <2>5. PICK g \in PickedInRecord(e2, p.face) : p.nonce = e2.ins[g].nonce
    BY <2>3 DEF IsPicked
  <2>6. g \in DOMAIN e2.ins /\ p.name = k.name
    BY <2>3 DEF PickedInRecord, IsPicked
  <2> QED BY <2>4, <2>5, <2>6 DEF Alive, DeadName
<1>4. IInv /\ AllAlive /\ [Next]_vars
        => [\A p \in sent' : p.type = "interest" =>
              [name |-> p.name, word |-> NoWord, nonce |-> p.nonce] \notin dnl]_vars
  BY <1>3
<1> QED BY <1>1, <1>2, <1>4, Invariance, PTL DEF Spec, DeadNonceNotForwarded

==============================================================================
