-------------------------- MODULE FaceManagerProofs --------------------------
(* Theorems about module FaceManager, for every value of its constants: the  *)
(* answers to commands, and the tables and channels.                         *)
EXTENDS FaceManager, FiniteSetTheorems, TLAPS

-----------------------------------------------------------------------------
(* The inductive invariant: a connection under way belongs to a command that *)
(* came, and its command is answered exactly when its socket is closed.      *)

Answers == {Outcome(200), Outcome(504)}

IsConnection(c) ==
  c \in [peer : {c.peer}, localFields : {c.localFields}, open : BOOLEAN]

IInv ==
  /\ replies \in Seq(Seq(Answers))
  /\ DOMAIN connecting \subseteq 1 .. Len(replies)
  /\ \A r \in DOMAIN connecting : IsConnection(connecting[r])
  /\ AnsweredOnce

\* What a command is answered is one of two outcomes.
LEMMA OutcomeType ==
  ASSUME NEW status
  PROVE  Outcome(status) \in Answers /\ <<Outcome(status)>> \in Seq(Answers)
         /\ Len(<<Outcome(status)>>) = 1
<1>1. Outcome(status) \in Answers
  BY DEF Outcome, Answers
<1> QED BY <1>1

\* A command that is answered at once.
LEMMA AnswerKeepsIInv ==
  ASSUME IInv, NEW status, Answer(status), UNCHANGED connecting
  PROVE  IInv'
<1> DEFINE x == <<Outcome(status)>>
<1>1. x \in Seq(Answers) /\ Len(x) = 1
  BY OutcomeType
<1> HIDE DEF x
<1>2. replies' = Append(replies, x)
  BY DEF Answer, x
<1>3. /\ replies' \in Seq(Seq(Answers)) /\ Len(replies') = Len(replies) + 1
      /\ Len(replies) \in Nat
      /\ \A r \in 1 .. Len(replies) : replies'[r] = replies[r]
      /\ replies'[Len(replies) + 1] = x
  BY <1>1, <1>2 DEF IInv
<1>4. AnsweredOnce'
  <2> SUFFICES ASSUME NEW r \in 1 .. Len(replies) + 1
               PROVE  IF r \in DOMAIN connecting /\ connecting[r].open THEN replies'[r] = <<>>
                      ELSE Len(replies'[r]) = 1
    BY <1>3 DEF AnsweredOnce
  <2>1. CASE r = Len(replies) + 1
    <3>1. r \notin DOMAIN connecting
      BY <1>3, <2>1 DEF IInv
    <3> QED BY <1>1, <1>3, <2>1, <3>1
  <2>2. CASE r \in 1 .. Len(replies)
    BY <1>3, <2>2 DEF IInv, AnsweredOnce
  <2> QED BY <1>3, <2>1, <2>2
<1> QED BY <1>3, <1>4 DEF IInv

\* A command that starts to connect is answered later.
LEMMA ConnectKeepsIInv ==
  ASSUME IInv, NEW c, IsConnection(c), c.open = TRUE, replies' = Append(replies, <<>>),
         connecting' = Put(connecting, Len(replies'), c)
  PROVE  IInv'
<1>1. <<>> \in Seq(Answers)
  OBVIOUS
<1>2. /\ replies' \in Seq(Seq(Answers)) /\ Len(replies') = Len(replies) + 1
      /\ Len(replies) \in Nat
      /\ \A r \in 1 .. Len(replies) : replies'[r] = replies[r]
      /\ replies'[Len(replies) + 1] = <<>>
  BY <1>1 DEF IInv
<1>3. /\ DOMAIN connecting' = DOMAIN connecting \cup {Len(replies) + 1}
      /\ connecting'[Len(replies) + 1] = c
      /\ \A r \in DOMAIN connecting : r # Len(replies) + 1 => connecting'[r] = connecting[r]
  BY <1>2 DEF Put
<1>4. AnsweredOnce'
  <2> SUFFICES ASSUME NEW r \in 1 .. Len(replies) + 1
               PROVE  IF r \in DOMAIN connecting' /\ connecting'[r].open THEN replies'[r] = <<>>
                      ELSE Len(replies'[r]) = 1
    BY <1>2 DEF AnsweredOnce
  <2>1. CASE r = Len(replies) + 1
    BY <1>2, <1>3, <2>1
  <2>2. CASE r \in 1 .. Len(replies)
    BY <1>2, <1>3, <2>2 DEF IInv, AnsweredOnce
  <2> QED BY <1>2, <2>1, <2>2
<1> QED BY SMTT(30), <1>2, <1>3, <1>4 DEF IInv

\* A handler that answers for an open socket, and closes or forgets it.
LEMMA HandlerKeepsIInv ==
  ASSUME IInv, NEW r \in DOMAIN connecting, connecting[r].open, NEW x \in Answers,
         replies' = [replies EXCEPT ![r] = Append(@, x)],
         \/ connecting' = Restrict(connecting, DOMAIN connecting \ {r})
         \/ /\ DOMAIN connecting' = DOMAIN connecting /\ ~connecting'[r].open
            /\ IsConnection(connecting'[r])
            /\ \A s \in DOMAIN connecting \ {r} : connecting'[s] = connecting[s]
  PROVE  IInv'
<1>1. r \in 1 .. Len(replies) /\ replies[r] = <<>> /\ replies \in Seq(Seq(Answers))
  BY DEF IInv, AnsweredOnce
<1>2. Append(replies[r], x) \in Seq(Answers) /\ Len(Append(replies[r], x)) = 1
  BY <1>1
<1>3. /\ replies' \in Seq(Seq(Answers)) /\ Len(replies') = Len(replies)
      /\ Len(replies'[r]) = 1
      /\ \A s \in 1 .. Len(replies) : s # r => replies'[s] = replies[s]
  BY <1>1, <1>2
<1>4. /\ DOMAIN connecting' \subseteq DOMAIN connecting
      /\ r \in DOMAIN connecting' => ~connecting'[r].open /\ IsConnection(connecting'[r])
      /\ \A s \in DOMAIN connecting \ {r} : s \in DOMAIN connecting' /\ connecting'[s] = connecting[s]
  BY DEF Restrict
<1>5. AnsweredOnce'
  <2> SUFFICES ASSUME NEW s \in 1 .. Len(replies)
               PROVE  IF s \in DOMAIN connecting' /\ connecting'[s].open THEN replies'[s] = <<>>
                      ELSE Len(replies'[s]) = 1
    BY <1>3 DEF AnsweredOnce
  <2>1. CASE s = r
    BY <1>3, <1>4, <2>1
  <2>2. CASE s # r
    BY <1>3, <1>4, <2>2 DEF IInv, AnsweredOnce
  <2> QED BY <2>1, <2>2
<1> QED BY <1>3, <1>4, <1>5 DEF IInv

\* The handler of a socket that the timeout closed leaves the answer as it is.
LEMMA AbortKeepsIInv ==
  ASSUME IInv, NEW r \in DOMAIN connecting, ConnectAborted(r)
  PROVE  IInv'
<1>1. /\ replies' = replies /\ ~connecting[r].open
      /\ DOMAIN connecting' = DOMAIN connecting \ {r}
      /\ \A s \in DOMAIN connecting \ {r} : connecting'[s] = connecting[s]
  BY DEF ConnectAborted, Restrict
<1> QED BY <1>1 DEF IInv, AnsweredOnce

\* faces/create, with each of its refusals and either kind of channel
LEMMA CreateKeepsIInv ==
  ASSUME IInv, NEW uri, NEW persistency, NEW localFields,
         CreateFace(uri, persistency, localFields)
  PROVE  IInv'
<1>1. CASE \E status : Answer(status) /\ UNCHANGED connecting
  BY <1>1, AnswerKeepsIInv
<1>2. CASE UdpConnect(uri, persistency)
  BY <1>2, AnswerKeepsIInv DEF UdpConnect, AfterCreateFaceSuccess, AfterCreateFaceFailure
<1>3. CASE TcpConnect(uri, localFields)
  <2>1. CASE AfterCreateFaceSuccess /\ UNCHANGED connecting
    BY <2>1, AnswerKeepsIInv DEF AfterCreateFaceSuccess
  <2>2. CASE /\ replies' = Append(replies, <<>>)
             /\ connecting' = Put(connecting, Len(replies'),
                                  [peer |-> uri, localFields |-> localFields, open |-> TRUE])
    <3> DEFINE c == [peer |-> uri, localFields |-> localFields, open |-> TRUE]
    <3>1. IsConnection(c) /\ c.open = TRUE /\ connecting' = Put(connecting, Len(replies'), c)
      BY <2>2 DEF IsConnection
    <3> HIDE DEF c
    <3> QED BY <2>2, <3>1, ConnectKeepsIInv
  <2> QED BY <1>3, <2>1, <2>2 DEF TcpConnect
<1> QED BY <1>1, <1>2, <1>3 DEF CreateFace, AfterCreateFaceFailure

\* Every step keeps the invariant.
LEMMA NextKeepsIInv ==
  ASSUME IInv, [Next]_vars
  PROVE  IInv'
<1>1. CASE UNCHANGED <<connecting, replies>>
  BY <1>1 DEF IInv, AnsweredOnce
<1>2. ASSUME NEW status, Answer(status), UNCHANGED connecting
      PROVE  IInv'
  BY <1>2, AnswerKeepsIInv
<1>3. CASE Initialize \/ Reload \/ NetworkChange \/ ReloadFaceSection
  BY <1>1, <1>3 DEF Initialize, Reload, NetworkChange, ReloadFaceSection
<1>4. CASE \E peer \in Peers : AcceptPeer(peer)
  BY <1>1, <1>4 DEF AcceptPeer
<1>5. CASE \E id \in DOMAIN tables.faces : FaceEnds(id) \/ FinishClose(id)
  BY <1>1, <1>5 DEF FaceEnds, FinishClose
<1>6. CASE \E module \in Modules, signer \in Signers \cup {NoKey} : RejectCommand(module, signer)
  BY <1>2, <1>6 DEF RejectCommand
<1>7. CASE FacesCommand
  <2>1. ASSUME NEW id, NEW hasPersistency, NEW wanted, UpdateFace(id, hasPersistency, wanted)
        PROVE  IInv'
    BY <1>2, <2>1 DEF UpdateFace
  <2>2. ASSUME NEW id, DestroyFace(id) \/ LocalControl(id)
        PROVE  IInv'
    BY <1>2, <2>2 DEF DestroyFace, LocalControl
  <2> QED BY <1>7, <2>1, <2>2, CreateKeepsIInv DEF FacesCommand
<1>8. CASE FibCommand
  BY <1>2, <1>8 DEF FibCommand, AddNextHop, RemoveNextHop
<1>9. ASSUME NEW r \in DOMAIN connecting, HandleConnect(r)
      PROVE  IInv'
  <2>1. PICK status \in {200, 504} :
          /\ connecting[r].open
          /\ replies' = [replies EXCEPT ![r] = Append(@, Outcome(status))]
          /\ connecting' = Restrict(connecting, DOMAIN connecting \ {r})
    BY ZenonT(30), <1>9 DEF HandleConnect
  <2> DEFINE x == Outcome(status)
  <2>2. x \in Answers /\ replies' = [replies EXCEPT ![r] = Append(@, x)]
    BY <2>1, OutcomeType
  <2> HIDE DEF x
  <2> QED BY <2>1, <2>2, HandlerKeepsIInv
<1>10. ASSUME NEW r \in DOMAIN connecting, HandleConnectTimeout(r)
       PROVE  IInv'
  <2>1. connecting' = [connecting EXCEPT ![r].open = FALSE]
    BY <1>10 DEF HandleConnectTimeout
  <2>2. /\ DOMAIN connecting' = DOMAIN connecting
        /\ \A s \in DOMAIN connecting \ {r} : connecting'[s] = connecting[s]
    BY <2>1
  <2>3. ~connecting'[r].open /\ IsConnection(connecting'[r])
    BY <2>1 DEF IInv, IsConnection
  <2> DEFINE x == Outcome(504)
  <2>4. connecting[r].open /\ replies' = [replies EXCEPT ![r] = Append(@, x)]
    BY <1>10 DEF HandleConnectTimeout
  <2>5. x \in Answers
    BY OutcomeType
  <2> HIDE DEF x
  <2> QED BY <2>2, <2>3, <2>4, <2>5, HandlerKeepsIInv
<1>11. CASE RemoteEndpointThrows
  BY <1>1, <1>11 DEF RemoteEndpointThrows
<1>12. CASE UNCHANGED vars
  BY <1>1, <1>12 DEF vars
<1> QED BY <1>3, <1>4, <1>5, <1>6, <1>7, <1>8, <1>9, <1>10, <1>11, <1>12, AbortKeepsIInv DEF Next

\* IInv holds in every reachable state.
THEOREM Invariance == Spec => []IInv
<1>1. Init => IInv
  BY DEF Init, IInv, AnsweredOnce
<1> QED BY <1>1, NextKeepsIInv, PTL DEF Spec

\* Every command is answered once: when it comes, or by exactly one of the three
\* handlers that a connection has (connected, timed out, aborted).
THEOREM CommandsAreAnsweredOnce == Spec => []AnsweredOnce
<1>1. IInv => AnsweredOnce
  BY DEF IInv
<1> QED BY <1>1, Invariance, PTL

-----------------------------------------------------------------------------
(* The tables and the channels                                               *)

\* The fields of the tables.
IsTables(t) ==
  t \in [faces : {t.faces}, lastId : Nat, mapped : {t.mapped}, nextHops : {t.nextHops},
         announced : {t.announced}]

IsFace(face) ==
  face \in [kind : {face.kind}, peer : {face.peer}, state : {"UP", "CLOSING"},
            persistency : {face.persistency}, isLocal : {face.isLocal},
            localFields : {face.localFields}]

IsOverIp(face) == face.kind \in {"udp", "tcp"}

\* A UDP or TCP face is the one that its channel keeps for its peer.
IsKept(t, id) ==
  LET face == t.faces[id]
  IN  IsOverIp(face) =>
        /\ face.peer \in Peers /\ KindOf(face.peer) = face.kind
        /\ Has(t, Key(face.peer)) /\ t.mapped[Key(face.peer)] = id

TablesOK(t) ==
  /\ IsTables(t) /\ t.lastId >= ReservedMax
  /\ \A id \in DOMAIN t.faces : id \in Nat /\ id <= t.lastId /\ IsFace(t.faces[id]) /\ IsKept(t, id)
  /\ \A hop \in t.nextHops : hop[2] \in DOMAIN t.faces
  /\ \A key \in DOMAIN t.mapped : t.mapped[key] \in DOMAIN t.faces
  /\ \A k1, k2 \in DOMAIN t.mapped : t.mapped[k1] = t.mapped[k2] => k1 = k2
  /\ t.announced = DOMAIN t.faces \ {InternalFace}

\* An interface a channel could know is prohibited in full.
Refuses(prohibited, kind, version, nic) ==
  /\ <<kind, <<nic, version>>>> \in prohibited
  /\ kind = "udp" /\ version = "v4" => <<"udp", <<nic, Broadcast>>>> \in prohibited

IsChannels(c) ==
  /\ c \in [made : {c.made}, listening : {c.listening}, prohibited : {c.prohibited}, known : {c.known}]
  /\ <<"udp", "v4">> \in c.made => <<"udp", Broadcast>> \in c.prohibited
  /\ \A k \in c.known : Refuses(c.prohibited, k[1], k[2], k[3])

\* A lasting face may be made to this peer, with the channels c and the factories fs.
Sure(c, fs, peer) ==
  /\ <<KindOf(peer), VersionOf(peer)>> \in c.made
  /\ \E scheme \in fs : scheme[1] = KindOf(peer)
  /\ ~IsProhibited(c, peer)

IsLasting(face) == IsOverIp(face) /\ face.persistency # "on-demand"

FacesAreSure(t, c, fs) ==
  \A id \in DOMAIN t.faces : IsLasting(t.faces[id]) => Sure(c, fs, t.faces[id].peer)

\* Connections under way are to such peers.
ConnectionsOK ==
  \A r \in DOMAIN connecting :
    /\ connecting[r].peer \in Peers /\ KindOf(connecting[r].peer) = "tcp"
    /\ Sure(channels, factories, connecting[r].peer)

\* The multicast faces of one kind on interfaces that are down are being closed.
DownIsClosing(t, kind) ==
  \A key \in DOMAIN t.mapped :
    key[1] = kind /\ key[2] \notin nics => t.faces[t.mapped[key]].state = "CLOSING"

MulticastKinds == {"udp-multicast", "ether"}

MulticastOK ==
  Running /\ ~reloadDue /\ Absent \notin {applied.udp, applied.ether} =>
    \A kind \in MulticastKinds : DownIsClosing(tables, kind)

\* The inductive invariant of tables and configuration.
TInv ==
  /\ TablesOK(tables)
  /\ IsChannels(channels) /\ nics \subseteq Nics
  /\ FacesAreSure(tables, channels, factories)
  /\ ConnectionsOK
  /\ MulticastOK

-----------------------------------------------------------------------------
(* What one operation does to the tables                                     *)

\* The fields that a step of the tables sets.
LEMMA Fields ==
  ASSUME NEW t, IsTables(t), NEW fs, NEW n \in Nat, NEW m, NEW h, NEW a,
         NEW u, u = [faces |-> fs, lastId |-> n, mapped |-> m, nextHops |-> h, announced |-> a]
  PROVE  /\ IsTables(u) /\ u.faces = fs /\ u.lastId = n /\ u.mapped = m
         /\ u.nextHops = h /\ u.announced = a
BY DEF IsTables

\* A new face gets the next FaceId, and is announced.
LEMMA AddFacts ==
  ASSUME NEW t, TablesOK(t), NEW face, IsFace(face), ~IsOverIp(face),
         NEW u, u = Add(t, face)
  PROVE  /\ TablesOK(u) /\ u.mapped = t.mapped /\ u.faces = Put(t.faces, t.lastId + 1, face)
         /\ t.lastId + 1 \notin DOMAIN t.faces
<1> DEFINE id == t.lastId + 1
<1>1. t.lastId \in Nat /\ id \in Nat /\ id \notin DOMAIN t.faces /\ id # InternalFace
  BY FaceTableAssumption DEF TablesOK, IsTables
<1>2. u = [faces |-> Put(t.faces, id, face), lastId |-> id, mapped |-> t.mapped,
           nextHops |-> t.nextHops, announced |-> t.announced \cup {id}]
  BY DEF Add, AddImpl, NotifyAddFace, TablesOK, IsTables
<1> HIDE DEF id
<1>3. /\ IsTables(u) /\ u.faces = Put(t.faces, id, face) /\ u.lastId = id /\ u.mapped = t.mapped
      /\ u.nextHops = t.nextHops /\ u.announced = t.announced \cup {id}
  BY <1>1, <1>2, Fields DEF TablesOK
<1>4. /\ DOMAIN u.faces = DOMAIN t.faces \cup {id} /\ u.faces[id] = face
      /\ \A other \in DOMAIN t.faces : u.faces[other] = t.faces[other]
  BY <1>1, <1>3 DEF Put
<1>5. \A other \in DOMAIN u.faces :
        other \in Nat /\ other <= u.lastId /\ IsFace(u.faces[other]) /\ IsKept(u, other)
  <2> SUFFICES ASSUME NEW other \in DOMAIN u.faces
               PROVE  other \in Nat /\ other <= u.lastId /\ IsFace(u.faces[other]) /\ IsKept(u, other)
    OBVIOUS
  <2>1. CASE other = id
    BY <1>1, <1>3, <1>4, <2>1 DEF IsKept
  <2>2. CASE other # id
    <3>1. /\ other \in DOMAIN t.faces /\ u.faces[other] = t.faces[other]
          /\ other \in Nat /\ other <= t.lastId /\ IsFace(t.faces[other]) /\ IsKept(t, other)
      BY <1>4, <2>2 DEF TablesOK
    <3>2. other <= u.lastId
      BY <1>1, <1>3, <3>1 DEF id
    <3> QED BY <1>3, <3>1, <3>2 DEF IsKept, Has
  <2> QED BY <2>1, <2>2
<1>6. u.lastId >= ReservedMax
  BY <1>1, <1>3, FaceTableAssumption DEF TablesOK, id
<1>7. u.announced = DOMAIN u.faces \ {InternalFace}
  BY <1>1, <1>3, <1>4 DEF TablesOK
<1> QED BY <1>1, <1>3, <1>4, <1>5, <1>6, <1>7 DEF TablesOK, id

\* One that is kept under a key, which a face over IP has for its peer.
LEMMA AddMappedFacts ==
  ASSUME NEW t, TablesOK(t), NEW key, NEW face, IsFace(face),
         \A peer \in Peers : KindOf(peer) \in {"udp", "tcp"} /\ key = Key(peer) => ~Has(t, key),
         IsOverIp(face) => face.peer \in Peers /\ KindOf(face.peer) = face.kind /\ key = Key(face.peer),
         NEW u, u = AddMapped(t, key, face)
  PROVE  /\ TablesOK(u) /\ u.mapped = Put(t.mapped, key, t.lastId + 1)
         /\ u.faces = Put(t.faces, t.lastId + 1, face) /\ t.lastId + 1 \notin DOMAIN t.faces
<1> DEFINE id == t.lastId + 1
<1>1. t.lastId \in Nat /\ id \in Nat /\ id \notin DOMAIN t.faces /\ id # InternalFace
  BY FaceTableAssumption DEF TablesOK, IsTables
<1>2. u = [faces |-> Put(t.faces, id, face), lastId |-> id, mapped |-> Put(t.mapped, key, id),
           nextHops |-> t.nextHops, announced |-> t.announced \cup {id}]
  BY DEF AddMapped, Add, AddImpl, NotifyAddFace, TablesOK, IsTables
<1> HIDE DEF id
<1>3. /\ IsTables(u) /\ u.faces = Put(t.faces, id, face) /\ u.lastId = id
      /\ u.mapped = Put(t.mapped, key, id)
      /\ u.nextHops = t.nextHops /\ u.announced = t.announced \cup {id}
  BY <1>1, <1>2, Fields DEF TablesOK
<1>4. /\ DOMAIN u.faces = DOMAIN t.faces \cup {id} /\ u.faces[id] = face
      /\ \A other \in DOMAIN t.faces : u.faces[other] = t.faces[other]
  BY <1>1, <1>3 DEF Put
<1>5. /\ DOMAIN u.mapped = DOMAIN t.mapped \cup {key} /\ u.mapped[key] = id
      /\ \A other \in DOMAIN t.mapped : other # key => u.mapped[other] = t.mapped[other]
  BY <1>3 DEF Put
<1>6. \A other \in DOMAIN u.faces :
        other \in Nat /\ other <= u.lastId /\ IsFace(u.faces[other]) /\ IsKept(u, other)
  <2> SUFFICES ASSUME NEW other \in DOMAIN u.faces
               PROVE  other \in Nat /\ other <= u.lastId /\ IsFace(u.faces[other]) /\ IsKept(u, other)
    OBVIOUS
  <2>1. CASE other = id
    BY <1>1, <1>3, <1>4, <1>5, <2>1 DEF IsKept, Has
  <2>2. CASE other # id
    <3>1. /\ other \in DOMAIN t.faces /\ u.faces[other] = t.faces[other]
          /\ other \in Nat /\ other <= t.lastId /\ IsFace(t.faces[other]) /\ IsKept(t, other)
      BY <1>4, <2>2 DEF TablesOK
    <3>2. other <= u.lastId
      BY <1>1, <1>3, <3>1 DEF id
    <3>3. IsKept(u, other)
      <4> SUFFICES ASSUME IsOverIp(u.faces[other]) PROVE IsKept(u, other)
        BY DEF IsKept
      <4> DEFINE peer == t.faces[other].peer
      <4>1. /\ peer \in Peers /\ KindOf(peer) = t.faces[other].kind /\ KindOf(peer) \in {"udp", "tcp"}
            /\ Has(t, Key(peer)) /\ t.mapped[Key(peer)] = other
        BY <3>1 DEF IsKept, IsOverIp
      <4>2. key # Key(peer)
        BY <4>1
      <4> QED BY <1>5, <3>1, <4>1, <4>2 DEF IsKept, Has
    <3> QED BY <3>1, <3>2, <3>3
  <2> QED BY <2>1, <2>2
<1>7. u.lastId >= ReservedMax
  BY <1>1, <1>3, FaceTableAssumption DEF TablesOK, id
<1>8. u.announced = DOMAIN u.faces \ {InternalFace}
  BY <1>1, <1>3, <1>4 DEF TablesOK
<1>9. \A k \in DOMAIN u.mapped : u.mapped[k] \in DOMAIN u.faces
  BY <1>4, <1>5 DEF TablesOK
<1>10. \A k1, k2 \in DOMAIN u.mapped : u.mapped[k1] = u.mapped[k2] => k1 = k2
  BY <1>1, <1>5 DEF TablesOK
<1> QED BY <1>1, <1>3, <1>4, <1>6, <1>7, <1>8, <1>9, <1>10 DEF TablesOK, id

\* Faces that change in place keep what they are for.
LEMMA FacesChangeFacts ==
  ASSUME NEW t, TablesOK(t), NEW fs, DOMAIN fs = DOMAIN t.faces,
         \A id \in DOMAIN t.faces :
           IsFace(fs[id]) /\ fs[id].kind = t.faces[id].kind /\ fs[id].peer = t.faces[id].peer,
         NEW u, u = [t EXCEPT !.faces = fs]
  PROVE  TablesOK(u) /\ u.faces = fs /\ u.mapped = t.mapped /\ u.lastId = t.lastId
<1>1. u = [faces |-> fs, lastId |-> t.lastId, mapped |-> t.mapped, nextHops |-> t.nextHops,
           announced |-> t.announced] /\ t.lastId \in Nat
  BY DEF TablesOK, IsTables
<1>2. /\ IsTables(u) /\ u.faces = fs /\ u.lastId = t.lastId /\ u.mapped = t.mapped
      /\ u.nextHops = t.nextHops /\ u.announced = t.announced
  BY <1>1, Fields DEF TablesOK
<1>3. \A id \in DOMAIN u.faces : IsKept(u, id)
  BY <1>2 DEF TablesOK, IsKept, IsOverIp, Has
<1> QED BY <1>2, <1>3 DEF TablesOK

\* The FIB gains or loses next hops.
LEMMA NextHopsFacts ==
  ASSUME NEW t, TablesOK(t), NEW hops, \A hop \in hops : hop[2] \in DOMAIN t.faces,
         NEW u, u = [t EXCEPT !.nextHops = hops]
  PROVE  TablesOK(u) /\ u.faces = t.faces /\ u.mapped = t.mapped
<1>1. u = [faces |-> t.faces, lastId |-> t.lastId, mapped |-> t.mapped, nextHops |-> hops,
           announced |-> t.announced] /\ t.lastId \in Nat
  BY DEF TablesOK, IsTables
<1>2. /\ IsTables(u) /\ u.faces = t.faces /\ u.lastId = t.lastId /\ u.mapped = t.mapped
      /\ u.nextHops = hops /\ u.announced = t.announced
  BY <1>1, Fields, ZenonT(60) DEF TablesOK
<1>3. \A id \in DOMAIN u.faces : IsKept(u, id)
  BY <1>2 DEF TablesOK, IsKept, Has
<1> QED BY <1>2, <1>3 DEF TablesOK

\* A face leaves the table with its next hops and the keys it was kept under.
LEMMA ClosedFacts ==
  ASSUME NEW t, TablesOK(t), NEW id, NEW u, u = Closed(t, id)
  PROVE  /\ TablesOK(u)
         /\ u.faces = Restrict(t.faces, DOMAIN t.faces \ {id})
         /\ u.mapped = Restrict(t.mapped, {key \in DOMAIN t.mapped : t.mapped[key] # id})
<1> DEFINE fs == Restrict(t.faces, DOMAIN t.faces \ {id})
           m == Restrict(t.mapped, {key \in DOMAIN t.mapped : t.mapped[key] # id})
<1>1. u = [faces |-> fs, lastId |-> t.lastId, mapped |-> m,
           nextHops |-> {hop \in t.nextHops : hop[2] # id}, announced |-> t.announced \ {id}]
      /\ t.lastId \in Nat
  BY DEF Closed, Remove, EraseMapped, NotifyRemoveFace, TablesOK, IsTables
<1>2. /\ IsTables(u) /\ u.faces = fs /\ u.lastId = t.lastId /\ u.mapped = m
      /\ u.nextHops = {hop \in t.nextHops : hop[2] # id} /\ u.announced = t.announced \ {id}
  BY <1>1, Fields DEF TablesOK
<1>3. /\ DOMAIN u.faces = DOMAIN t.faces \ {id}
      /\ \A other \in DOMAIN t.faces \ {id} : u.faces[other] = t.faces[other]
  BY <1>2 DEF Restrict
<1>4. /\ DOMAIN u.mapped = {key \in DOMAIN t.mapped : t.mapped[key] # id}
      /\ \A key \in DOMAIN u.mapped : u.mapped[key] = t.mapped[key]
  BY <1>2 DEF Restrict
<1>5. \A other \in DOMAIN u.faces :
        other \in Nat /\ other <= u.lastId /\ IsFace(u.faces[other]) /\ IsKept(u, other)
  <2> SUFFICES ASSUME NEW other \in DOMAIN u.faces
               PROVE  other \in Nat /\ other <= u.lastId /\ IsFace(u.faces[other]) /\ IsKept(u, other)
    OBVIOUS
  <2>1. /\ other \in DOMAIN t.faces /\ other # id /\ u.faces[other] = t.faces[other]
        /\ other \in Nat /\ other <= t.lastId /\ IsFace(t.faces[other]) /\ IsKept(t, other)
    BY <1>3 DEF TablesOK
  <2>2. IsKept(u, other)
    BY <1>4, <2>1 DEF IsKept, Has
  <2> QED BY <1>2, <2>1, <2>2
<1>6. u.announced = DOMAIN u.faces \ {InternalFace}
  BY <1>2, <1>3 DEF TablesOK
<1>7. \A hop \in u.nextHops : hop[2] \in DOMAIN u.faces
  BY <1>2, <1>3 DEF TablesOK
<1>8. \A key \in DOMAIN u.mapped : u.mapped[key] \in DOMAIN u.faces
  BY <1>3, <1>4 DEF TablesOK
<1>9. \A k1, k2 \in DOMAIN u.mapped : u.mapped[k1] = u.mapped[k2] => k1 = k2
  BY <1>4 DEF TablesOK
<1> QED BY <1>2, <1>5, <1>6, <1>7, <1>8, <1>9 DEF TablesOK

\* What an operation that makes no multicast face does: it keeps none under a key that was not
\* there, and no face that is being closed comes back.
KeepsMulticast(t, u) ==
  /\ \A key \in DOMAIN u.mapped :
       key[1] \in MulticastKinds => key \in DOMAIN t.mapped /\ u.mapped[key] = t.mapped[key]
  /\ \A id \in DOMAIN u.faces \cap DOMAIN t.faces :
       t.faces[id].state = "CLOSING" => u.faces[id].state = "CLOSING"

\* Lasting faces are those of before, or to one of the peers.
LastingFrom(t, u, peers) ==
  \A id \in DOMAIN u.faces :
    IsLasting(u.faces[id]) =>
      \/ id \in DOMAIN t.faces /\ IsLasting(t.faces[id]) /\ u.faces[id].peer = t.faces[id].peer
      \/ u.faces[id].peer \in peers

\* The operations of faces that come and go.
Keeps(t, u, peers) == TablesOK(u) /\ KeepsMulticast(t, u) /\ LastingFrom(t, u, peers)

LEMMA KeepsNothingNew ==
  ASSUME NEW t, TablesOK(t), NEW peers
  PROVE  Keeps(t, t, peers)
BY DEF Keeps, KeepsMulticast, LastingFrom

LEMMA MulticastIsKept ==
  ASSUME NEW t, TablesOK(t), NEW u, NEW peers, Keeps(t, u, peers), NEW kind \in MulticastKinds,
         DownIsClosing(t, kind)
  PROVE  DownIsClosing(u, kind)
<1> SUFFICES ASSUME NEW key \in DOMAIN u.mapped, key[1] = kind, key[2] \notin nics
             PROVE  u.faces[u.mapped[key]].state = "CLOSING"
  BY DEF DownIsClosing
<1>1. key \in DOMAIN t.mapped /\ u.mapped[key] = t.mapped[key]
  BY DEF Keeps, KeepsMulticast
<1>2. t.mapped[key] \in DOMAIN t.faces /\ t.mapped[key] \in DOMAIN u.faces
  BY <1>1 DEF Keeps, TablesOK
<1> QED BY <1>1, <1>2 DEF DownIsClosing, Keeps, KeepsMulticast

LEMMA FacesStaySure ==
  ASSUME NEW t, NEW u, NEW peers, Keeps(t, u, peers), NEW c, NEW fs, FacesAreSure(t, c, fs),
         \A peer \in peers : Sure(c, fs, peer)
  PROVE  FacesAreSure(u, c, fs)
BY DEF FacesAreSure, Keeps, LastingFrom

LEMMA ClosedKeeps ==
  ASSUME NEW t, TablesOK(t), NEW id
  PROVE  Keeps(t, Closed(t, id), {})
<1> DEFINE u == Closed(t, id)
<1>1. /\ TablesOK(u) /\ u.faces = Restrict(t.faces, DOMAIN t.faces \ {id})
      /\ u.mapped = Restrict(t.mapped, {key \in DOMAIN t.mapped : t.mapped[key] # id})
  BY ClosedFacts, SMTT(30)
<1> HIDE DEF u
<1>2. DOMAIN u.faces = DOMAIN t.faces \ {id}
      /\ \A other \in DOMAIN t.faces \ {id} : u.faces[other] = t.faces[other]
  BY <1>1 DEF Restrict
<1>3. /\ DOMAIN u.mapped \subseteq DOMAIN t.mapped
      /\ \A key \in DOMAIN u.mapped : u.mapped[key] = t.mapped[key]
  BY <1>1 DEF Restrict
<1>4. Keeps(t, u, {})
  BY <1>1, <1>2, <1>3 DEF Keeps, KeepsMulticast, LastingFrom
<1> QED BY <1>4 DEF u

\* A face is changed in place.
LEMMA FaceChangeKeeps ==
  ASSUME NEW t, TablesOK(t), NEW id \in DOMAIN t.faces, NEW face, IsFace(face),
         face.kind = t.faces[id].kind, face.peer = t.faces[id].peer,
         t.faces[id].state = "CLOSING" => face.state = "CLOSING",
         NEW peers,
         IsLasting(face) => IsLasting(t.faces[id]) \/ face.peer \in peers
  PROVE  Keeps(t, [t EXCEPT !.faces[id] = face], peers)
<1> DEFINE fs == [t.faces EXCEPT ![id] = face]
           u == [t EXCEPT !.faces = fs]
<1>1. DOMAIN fs = DOMAIN t.faces /\ fs[id] = face
      /\ \A other \in DOMAIN t.faces : other # id => fs[other] = t.faces[other]
  OBVIOUS
<1>2. u = [t EXCEPT !.faces[id] = face]
  BY DEF TablesOK, IsTables
<1> HIDE DEF fs
<1>3. \A other \in DOMAIN t.faces :
        /\ IsFace(fs[other]) /\ fs[other].kind = t.faces[other].kind
        /\ fs[other].peer = t.faces[other].peer
  BY <1>1 DEF TablesOK
<1>4. TablesOK(u) /\ u.faces = fs /\ u.mapped = t.mapped
  BY <1>1, <1>3, FacesChangeFacts
<1> HIDE DEF u
<1>5. Keeps(t, u, peers)
  BY <1>1, <1>4 DEF Keeps, KeepsMulticast, LastingFrom
<1> QED BY <1>2, <1>5

LEMMA CloseKeeps ==
  ASSUME NEW t, TablesOK(t), NEW id \in DOMAIN t.faces
  PROVE  Keeps(t, Close(t, id), {})
<1>1. CASE t.faces[id].state # "UP"
  BY <1>1, KeepsNothingNew DEF Close
<1>2. CASE t.faces[id].state = "UP" /\ ClosesAtOnce(t.faces[id].kind)
  BY <1>2, ClosedKeeps DEF Close
<1>3. CASE t.faces[id].state = "UP" /\ ~ClosesAtOnce(t.faces[id].kind)
  <2> DEFINE face == [t.faces[id] EXCEPT !.state = "CLOSING"]
  <2>1. IsFace(t.faces[id])
    BY DEF TablesOK
  <2>2. /\ IsFace(face) /\ face.kind = t.faces[id].kind /\ face.peer = t.faces[id].peer
        /\ face.state = "CLOSING" /\ (IsLasting(face) => IsLasting(t.faces[id]))
    BY <2>1 DEF IsFace, IsLasting, IsOverIp
  <2>3. Close(t, id) = [t EXCEPT !.faces[id] = face]
    BY <1>3 DEF Close
  <2> HIDE DEF face
  <2> QED BY <2>2, <2>3, FaceChangeKeeps
<1> QED BY <1>1, <1>2, <1>3

LEMMA LocalFieldsKeeps ==
  ASSUME NEW t, TablesOK(t), NEW id \in DOMAIN t.faces, NEW x
  PROVE  Keeps(t, [t EXCEPT !.faces[id].localFields = x], {})
<1> DEFINE face == [t.faces[id] EXCEPT !.localFields = x]
<1>1. IsFace(t.faces[id])
  BY DEF TablesOK
<1>2. /\ IsFace(face) /\ face.kind = t.faces[id].kind /\ face.peer = t.faces[id].peer
      /\ face.state = t.faces[id].state /\ (IsLasting(face) => IsLasting(t.faces[id]))
  BY <1>1 DEF IsFace, IsLasting, IsOverIp
<1>3. [t EXCEPT !.faces[id].localFields = x] = [t EXCEPT !.faces[id] = face]
  OBVIOUS
<1> HIDE DEF face
<1> QED BY <1>2, <1>3, FaceChangeKeeps

\* A new face, that no channel keeps.
LEMMA AddKeeps ==
  ASSUME NEW t, TablesOK(t), NEW face, IsFace(face), ~IsOverIp(face)
  PROVE  Keeps(t, Add(t, face), {})
<1> DEFINE u == Add(t, face)
<1>1. /\ TablesOK(u) /\ u.mapped = t.mapped /\ u.faces = Put(t.faces, t.lastId + 1, face)
      /\ t.lastId + 1 \notin DOMAIN t.faces
  BY AddFacts
<1> HIDE DEF u
<1>2. Keeps(t, u, {})
  BY <1>1 DEF Keeps, KeepsMulticast, LastingFrom, Put, IsLasting
<1> QED BY <1>2 DEF u

\* A new face, that a channel keeps.
LEMMA AddMappedKeeps ==
  ASSUME NEW t, TablesOK(t), NEW key, key[1] \notin MulticastKinds, NEW face, IsFace(face),
         \A peer \in Peers : KindOf(peer) \in {"udp", "tcp"} /\ key = Key(peer) => ~Has(t, key),
         IsOverIp(face) => face.peer \in Peers /\ KindOf(face.peer) = face.kind /\ key = Key(face.peer),
         NEW peers, IsLasting(face) => face.peer \in peers
  PROVE  Keeps(t, AddMapped(t, key, face), peers)
<1> DEFINE u == AddMapped(t, key, face)
<1>1. /\ TablesOK(u) /\ u.mapped = Put(t.mapped, key, t.lastId + 1)
      /\ u.faces = Put(t.faces, t.lastId + 1, face) /\ t.lastId + 1 \notin DOMAIN t.faces
  BY AddMappedFacts
<1> HIDE DEF u
<1>2. Keeps(t, u, peers)
  BY <1>1 DEF Keeps, KeepsMulticast, LastingFrom, Put
<1> QED BY <1>2 DEF u

-----------------------------------------------------------------------------
(* Unicast faces                                                             *)

LEMMA PersistencyKeeps ==
  ASSUME NEW t, TablesOK(t), NEW id \in DOMAIN t.faces, NEW x, NEW peers,
         x # "on-demand" /\ IsOverIp(t.faces[id]) => t.faces[id].peer \in peers
  PROVE  Keeps(t, [t EXCEPT !.faces[id].persistency = x], peers)
<1> DEFINE face == [t.faces[id] EXCEPT !.persistency = x]
<1>1. IsFace(t.faces[id])
  BY DEF TablesOK
<1>2. /\ IsFace(face) /\ face.kind = t.faces[id].kind /\ face.peer = t.faces[id].peer
      /\ face.state = t.faces[id].state /\ (IsLasting(face) => face.peer \in peers)
  BY <1>1 DEF IsFace, IsLasting, IsOverIp
<1>3. [t EXCEPT !.faces[id].persistency = x] = [t EXCEPT !.faces[id] = face]
  OBVIOUS
<1> HIDE DEF face
<1> QED BY <1>2, <1>3, FaceChangeKeeps

\* UDP: the face of the peer, made or with another persistency
LEMMA UdpCreateFaceKeeps ==
  ASSUME NEW t, TablesOK(t), NEW peer \in Peers, KindOf(peer) = "udp", NEW persistency
  PROVE  Keeps(t, UdpCreateFace(t, peer, persistency),
               IF persistency = "on-demand" THEN {} ELSE {peer})
<1> DEFINE key == Key(peer)
           peers == IF persistency = "on-demand" THEN {} ELSE {peer}
<1>1. CASE ~Has(t, key)
  <2> DEFINE face == NewFace("udp", peer, persistency, FALSE, FALSE)
  <2>1. /\ IsFace(face) /\ face.kind = "udp" /\ face.peer = peer /\ face.persistency = persistency
    BY DEF NewFace, IsFace
  <2>2. UdpCreateFace(t, peer, persistency) = AddMapped(t, key, face)
    BY <1>1 DEF UdpCreateFace
  <2> HIDE DEF face
  <2>3. key[1] \notin MulticastKinds
    BY DEF Key, MulticastKinds
  <2>4. IsOverIp(face) => face.peer \in Peers /\ KindOf(face.peer) = face.kind /\ key = Key(face.peer)
    BY <2>1
  <2>5. IsLasting(face) => face.peer \in peers
    BY <2>1 DEF IsLasting
  <2> HIDE DEF key, peers
  <2>6. Keeps(t, AddMapped(t, key, face), peers)
    BY <1>1, <2>1, <2>3, <2>4, <2>5, AddMappedKeeps
  <2> QED BY <2>2, <2>6 DEF peers
<1>2. CASE Has(t, key)
  <2> DEFINE id == t.mapped[key]
  <2>1. id \in DOMAIN t.faces
    BY <1>2 DEF Has, TablesOK
  <2>2. IsOverIp(t.faces[id]) => t.faces[id].peer = peer
    <3> SUFFICES ASSUME IsOverIp(t.faces[id]) PROVE t.faces[id].peer = peer
      OBVIOUS
    <3>1. Has(t, Key(t.faces[id].peer)) /\ t.mapped[Key(t.faces[id].peer)] = id
      BY <2>1 DEF TablesOK, IsKept
    <3>2. Key(t.faces[id].peer) = key
      BY <1>2, <3>1 DEF TablesOK, Has
    <3> QED BY <3>2 DEF Key
  <2>3. CASE ~IsTransitionAllowed(t.faces[id].persistency, persistency)
    <3>1. UdpCreateFace(t, peer, persistency) = t
      BY <1>2, <2>3 DEF UdpCreateFace
    <3> QED BY <3>1, KeepsNothingNew
  <2>4. CASE IsTransitionAllowed(t.faces[id].persistency, persistency)
    <3>1. UdpCreateFace(t, peer, persistency) = [t EXCEPT !.faces[id].persistency = persistency]
      BY <1>2, <2>4 DEF UdpCreateFace
    <3> HIDE DEF id
    <3>2. persistency # "on-demand" /\ IsOverIp(t.faces[id]) => t.faces[id].peer \in peers
      BY <2>2
    <3> HIDE DEF peers
    <3>3. Keeps(t, [t EXCEPT !.faces[id].persistency = persistency], peers)
      BY <2>1, <3>2, PersistencyKeeps
    <3> QED BY <3>1, <3>3 DEF peers
  <2> QED BY <2>3, <2>4
<1> QED BY <1>1, <1>2

\* TCP: the face of the peer, made if it is not there
LEMMA TcpCreateFaceKeeps ==
  ASSUME NEW t, TablesOK(t), NEW peer \in Peers, KindOf(peer) = "tcp", NEW isOnDemand \in BOOLEAN,
         NEW localFields
  PROVE  Keeps(t, TcpCreateFace(t, peer, isOnDemand, localFields),
               IF isOnDemand THEN {} ELSE {peer})
<1> DEFINE key == Key(peer)
           peers == IF isOnDemand THEN {} ELSE {peer}
           face == NewFace("tcp", peer, IF isOnDemand THEN "on-demand" ELSE "persistent",
                           IsLocalPeer(peer), localFields)
<1>1. CASE Has(t, key)
  BY <1>1, KeepsNothingNew DEF TcpCreateFace
<1>2. CASE ~Has(t, key)
  <2>1. /\ IsFace(face) /\ face.kind = "tcp" /\ face.peer = peer
        /\ face.persistency = IF isOnDemand THEN "on-demand" ELSE "persistent"
    BY DEF NewFace, IsFace
  <2>2. TcpCreateFace(t, peer, isOnDemand, localFields) = AddMapped(t, key, face)
    BY <1>2 DEF TcpCreateFace
  <2> HIDE DEF face
  <2>3. key[1] \notin MulticastKinds
    BY DEF Key, MulticastKinds
  <2>4. IsOverIp(face) => face.peer \in Peers /\ KindOf(face.peer) = face.kind /\ key = Key(face.peer)
    BY <2>1
  <2>5. IsLasting(face) => face.peer \in peers
    BY <2>1 DEF IsLasting
  <2> HIDE DEF key, peers
  <2>6. Keeps(t, AddMapped(t, key, face), peers)
    BY <1>2, <2>1, <2>3, <2>4, <2>5, AddMappedKeeps
  <2> QED BY <2>2, <2>6 DEF peers
<1> QED BY <1>1, <1>2

\* A peer that comes gets no lasting face.
LEMMA IncomingKeeps ==
  ASSUME NEW t, TablesOK(t), NEW peer \in Peers
  PROVE  Keeps(t, Incoming(t, peer), {})
<1>1. KindOf(peer) \in {"udp", "tcp", "unix", "websocket"}
  BY ChannelsAssumption DEF IsUnicast
<1>2. CASE KindOf(peer) = "udp"
  BY <1>2, UdpCreateFaceKeeps DEF Incoming, UdpHandleNewPeer
<1>3. CASE KindOf(peer) = "tcp"
  BY <1>3, TcpCreateFaceKeeps DEF Incoming, TcpHandleAccept
<1>4. CASE KindOf(peer) = "unix"
  <2> DEFINE face == NewFace("unix", peer, "on-demand", TRUE, FALSE)
  <2>1. IsFace(face) /\ face.kind = "unix"
    BY DEF NewFace, IsFace
  <2>2. Incoming(t, peer) = Add(t, face)
    BY <1>4 DEF Incoming, UnixHandleAccept
  <2> HIDE DEF face
  <2> QED BY <2>1, <2>2, AddKeeps DEF IsOverIp
<1>5. CASE KindOf(peer) = "websocket"
  <2> DEFINE face == NewFace("websocket", peer, "on-demand", IsLocalPeer(peer), FALSE)
             key == <<"websocket", peer, t.lastId>>
  <2>1. IsFace(face) /\ face.kind = "websocket"
    BY DEF NewFace, IsFace
  <2>2. Incoming(t, peer) = AddMapped(t, key, face)
    BY <1>5 DEF Incoming, WebSocketHandleOpen
  <2> HIDE DEF face
  <2>3. key[1] = "websocket"
    OBVIOUS
  <2>4. \A other \in Peers : KindOf(other) \in {"udp", "tcp"} => key # Key(other)
    BY <2>3 DEF Key
  <2> HIDE DEF key
  <2>5. ~IsOverIp(face) /\ ~IsLasting(face) /\ key[1] \notin MulticastKinds
    BY <2>1, <2>3 DEF IsOverIp, IsLasting, MulticastKinds
  <2> QED BY <2>1, <2>2, <2>4, <2>5, AddMappedKeeps
<1> QED BY <1>1, <1>2, <1>3, <1>4, <1>5

-----------------------------------------------------------------------------
(* The channels                                                              *)

\* A channel that is made prohibits no peer of another kind or version.
LEMMA CreateChannelKeepsSure ==
  ASSUME NEW c, IsChannels(c), NEW kind, NEW version, NEW addressed, NEW owned,
         NEW fs, NEW peer \in Peers, Sure(c, fs, peer),
         <<KindOf(peer), AddressOf(peer)>> \in owned =>
           KindOf(peer) = kind /\ VersionOf(peer) = version
  PROVE  Sure(CreateChannel(c, kind, version, addressed, owned), fs, peer)
<1>1. CASE <<kind, version>> \in c.made
  BY <1>1 DEF CreateChannel
<1>2. CASE <<kind, version>> \notin c.made
  <2> DEFINE d == [c EXCEPT !.made = @ \cup {<<kind, version>>}, !.prohibited = @ \cup owned,
                            !.known = @ \cup {<<kind, version, nic>> : nic \in addressed}]
  <2>1. d.made = c.made \cup {<<kind, version>>} /\ d.prohibited = c.prohibited \cup owned
    BY DEF IsChannels
  <2>2. CreateChannel(c, kind, version, addressed, owned) = d
    BY <1>2 DEF CreateChannel
  <2> HIDE DEF d
  <2>3. <<KindOf(peer), AddressOf(peer)>> \notin owned
    BY <1>2 DEF Sure
  <2>4. Sure(d, fs, peer)
    BY <2>1, <2>3 DEF Sure, IsProhibited
  <2> QED BY <2>2, <2>4
<1> QED BY <1>1, <1>2

\* It prohibits the interfaces it knows.
LEMMA CreateChannelTypes ==
  ASSUME NEW c, IsChannels(c), NEW kind, NEW version, NEW addressed, NEW owned,
         kind = "udp" /\ version = "v4" => <<"udp", Broadcast>> \in owned,
         \A nic \in addressed : Refuses(owned, kind, version, nic)
  PROVE  IsChannels(CreateChannel(c, kind, version, addressed, owned))
<1> DEFINE new == {<<kind, version, nic>> : nic \in addressed}
           d == [c EXCEPT !.made = @ \cup {<<kind, version>>}, !.prohibited = @ \cup owned,
                          !.known = @ \cup new]
<1>1. /\ d \in [made : {d.made}, listening : {d.listening}, prohibited : {d.prohibited}, known : {d.known}]
      /\ d.made = c.made \cup {<<kind, version>>} /\ d.prohibited = c.prohibited \cup owned
      /\ d.known = c.known \cup new
  BY DEF IsChannels
<1>2. CreateChannel(c, kind, version, addressed, owned) = IF <<kind, version>> \in c.made THEN c ELSE d
  BY DEF CreateChannel
<1>3. \A k \in new : Refuses(owned, k[1], k[2], k[3])
  OBVIOUS
<1> HIDE DEF new, d
<1>4. \A k \in d.known : Refuses(d.prohibited, k[1], k[2], k[3])
  BY <1>1, <1>3 DEF IsChannels, Refuses
<1>5. <<"udp", "v4">> \in d.made => <<"udp", Broadcast>> \in d.prohibited
  BY <1>1 DEF IsChannels
<1>6. IsChannels(d)
  BY <1>1, <1>4, <1>5 DEF IsChannels
<1> QED BY <1>2, <1>6

LEMMA ChannelTypes ==
  ASSUME NEW c, IsChannels(c), NEW kind, NEW version
  PROVE  IsChannels(Listen(c, kind, version))
<1> DEFINE d == Listen(c, kind, version)
<1>1. /\ d \in [made : {d.made}, listening : {d.listening}, prohibited : {d.prohibited}, known : {d.known}]
      /\ d.made = c.made /\ d.prohibited = c.prohibited /\ d.known = c.known
  BY DEF IsChannels, Listen
<1> HIDE DEF d
<1>2. IsChannels(d)
  BY <1>1 DEF IsChannels
<1> QED BY <1>2 DEF d

LEMMA ListenKeepsSure ==
  ASSUME NEW c, IsChannels(c), NEW kind, NEW version, NEW fs, NEW peer, Sure(c, fs, peer)
  PROVE  Sure(Listen(c, kind, version), fs, peer)
<1>1. Listen(c, kind, version).made = c.made /\ Listen(c, kind, version).prohibited = c.prohibited
  BY DEF Listen, IsChannels
<1> QED BY <1>1 DEF Sure, IsProhibited

\* The channels of one version, of UDP and of TCP.
LEMMA UdpCreateChannelKeepsSure ==
  ASSUME NEW c, IsChannels(c), NEW version \in {"v4", "v6"}, NEW addressed \in SUBSET Nics
  PROVE  /\ IsChannels(UdpCreateChannel(c, version, addressed))
         /\ \A fs : \A peer \in Peers :
              Sure(c, fs, peer) => Sure(UdpCreateChannel(c, version, addressed), fs, peer)
<1> DEFINE owned == IF version = "v4" THEN UdpIpv4Endpoints(addressed) ELSE UdpIpv6Endpoints(addressed)
<1>1. \A peer \in Peers : <<KindOf(peer), AddressOf(peer)>> \in owned =>
                            KindOf(peer) = "udp" /\ VersionOf(peer) = version
  BY AddressAssumption DEF UdpIpv4Endpoints, UdpIpv6Endpoints
<1>2. UdpCreateChannel(c, version, addressed) = CreateChannel(c, "udp", version, addressed, owned)
  BY DEF UdpCreateChannel
<1>3. /\ "udp" = "udp" /\ version = "v4" => <<"udp", Broadcast>> \in owned
      /\ \A nic \in addressed : Refuses(owned, "udp", version, nic)
  BY DEF UdpIpv4Endpoints, UdpIpv6Endpoints, Refuses
<1> HIDE DEF owned
<1>4. IsChannels(CreateChannel(c, "udp", version, addressed, owned))
  BY <1>3, CreateChannelTypes
<1>5. \A fs : \A peer \in Peers :
        Sure(c, fs, peer) => Sure(CreateChannel(c, "udp", version, addressed, owned), fs, peer)
  BY <1>1, CreateChannelKeepsSure
<1> QED BY <1>2, <1>4, <1>5

LEMMA TcpCreateChannelKeepsSure ==
  ASSUME NEW c, IsChannels(c), NEW version \in {"v4", "v6"}, NEW addressed \in SUBSET Nics
  PROVE  /\ IsChannels(TcpCreateChannel(c, version, addressed))
         /\ \A fs : \A peer \in Peers :
              Sure(c, fs, peer) => Sure(TcpCreateChannel(c, version, addressed), fs, peer)
<1> DEFINE owned == IF version = "v4" THEN TcpIpv4Endpoints(addressed) ELSE TcpIpv6Endpoints(addressed)
<1>1. \A peer \in Peers : <<KindOf(peer), AddressOf(peer)>> \in owned =>
                            KindOf(peer) = "tcp" /\ VersionOf(peer) = version
  BY AddressAssumption DEF TcpIpv4Endpoints, TcpIpv6Endpoints
<1>2. TcpCreateChannel(c, version, addressed) = CreateChannel(c, "tcp", version, addressed, owned)
  BY DEF TcpCreateChannel
<1>3. /\ "tcp" = "udp" /\ version = "v4" => <<"udp", Broadcast>> \in owned
      /\ \A nic \in addressed : Refuses(owned, "tcp", version, nic)
  BY DEF TcpIpv4Endpoints, TcpIpv6Endpoints, Refuses
<1> HIDE DEF owned
<1>4. IsChannels(CreateChannel(c, "tcp", version, addressed, owned))
  BY <1>3, CreateChannelTypes
<1>5. \A fs : \A peer \in Peers :
        Sure(c, fs, peer) => Sure(CreateChannel(c, "tcp", version, addressed, owned), fs, peer)
  BY <1>1, CreateChannelKeepsSure
<1> QED BY <1>2, <1>4, <1>5

-----------------------------------------------------------------------------
(* Multicast faces. The fold that makes them is a recursive function, which   *)
(* exists by induction on the cardinality of the sets it is given.           *)

\* A non-empty set of natural numbers has a least element.
LEMMA Least ==
  ASSUME NEW T, T \subseteq Nat, T # {}
  PROVE  \E n \in T : \A m \in T : n <= m
<1> DEFINE R == StrictSubsetOrdering(Nat)
           below == {1 .. n : n \in T}
<1>1. IsWellFoundedOn(R, FiniteSubsetsOf(Nat))
  BY FS_StrictSubsetOrderingWellFounded
<1>2. below # {}
  OBVIOUS
<1>3. below \subseteq FiniteSubsetsOf(Nat)
  <2> SUFFICES ASSUME NEW n \in T PROVE 1 .. n \in FiniteSubsetsOf(Nat)
    OBVIOUS
  <2>1. IsFiniteSet(1 .. n)
    BY FS_Interval, n \in Int, 1 \in Int
  <2>2. (1 .. n) \subseteq Nat
    OBVIOUS
  <2> QED BY <2>1, <2>2 DEF FiniteSubsetsOf
<1> HIDE DEF below
<1>4. PICK s \in below : \A t \in below : ~(<<t, s>> \in R)
  BY <1>1, <1>2, <1>3, WFMin
<1>5. PICK n \in T : s = 1 .. n
  BY DEF below
<1>6. ASSUME NEW m \in T, m < n PROVE FALSE
  <2>1. (1 .. m) \in below
    BY DEF below
  <2>2. (1 .. m) \subseteq (1 .. n) /\ n \in 1 .. n /\ n \notin 1 .. m
    BY <1>6
  <2>3. (1 .. m) \in SUBSET Nat /\ (1 .. n) \in SUBSET Nat
    OBVIOUS
  <2>4. <<1 .. m, 1 .. n>> \in R
    BY <2>2, <2>3, Zenon DEF StrictSubsetOrdering
  <2> QED BY <2>1, <2>4, <1>4, <1>5
<1> QED BY <1>6

\* Induction up to N over the numbers that are in S.
LEMMA UpTo ==
  ASSUME NEW N \in Nat, NEW S, 0 \in S,
         \A n \in 0 .. N : n < N /\ n \in S => n + 1 \in S
  PROVE  \A n \in 0 .. N : n \in S
<1> DEFINE T == {n \in 0 .. N : n \notin S}
<1>1. CASE T = {}
  BY <1>1
<1>2. CASE T # {}
  <2>1. PICK n \in T : \A m \in T : n <= m
    BY <1>2, Least, T \subseteq Nat
  <2>2. n \in 1 .. N /\ n - 1 \in 0 .. N /\ n - 1 < N /\ (n - 1) + 1 = n
    BY <2>1
  <2>3. n - 1 \in S
    BY <2>1, <2>2
  <2> QED BY <2>1, <2>2, <2>3
<1> QED BY <1>1, <1>2

KeepsEach(f, r, kind, group, S) ==
  f = [s \in SUBSET S |->
        IF s = {} THEN NoneKept(r)
        ELSE LET nic == CHOOSE x \in s : TRUE
                 made == f[s \ {nic}]
             IN  KeepFace(made, CreateFaceOnNic(made.tables, kind, nic, group),
                          MulticastKey(kind, nic, group))]

LEMMA KeepFacesDef ==
  ASSUME NEW r, NEW kind, NEW group, NEW S, IsFiniteSet(S)
  PROVE  \E f : KeepFaces(r, kind, group, S) = f[S] /\ KeepsEach(f, r, kind, group, S)
<1> DEFINE First(s) == CHOOSE x \in s : TRUE
           Next1(nic, made) == KeepFace(made, CreateFaceOnNic(made.tables, kind, nic, group),
                                          MulticastKey(kind, nic, group))
           Good(f, D) == f = [s \in D |-> IF s = {} THEN NoneKept(r)
                                          ELSE Next1(First(s), f[s \ {First(s)}])]
           f == CHOOSE f : Good(f, SUBSET S)
<1> DEFINE Level(n) == {s \in SUBSET S : Cardinality(s) <= n}
           Defined == {n \in Nat : \E g : Good(g, Level(n))}
<1>1. KeepFaces(r, kind, group, S) = f[S]
  BY DEF KeepFaces, FoldSet, MapThenFoldSet
<1>2. \A s \in SUBSET S : IsFiniteSet(s) /\ Cardinality(s) \in Nat /\ Cardinality(s) <= Cardinality(S)
  BY FS_Subset, FS_CardinalityType
<1>3. \A s \in SUBSET S : s # {} =>
        /\ s \ {First(s)} \in SUBSET S /\ Cardinality(s \ {First(s)}) = Cardinality(s) - 1
        /\ Cardinality(s) # 0
  <2> SUFFICES ASSUME NEW s \in SUBSET S, s # {}
               PROVE  /\ s \ {First(s)} \in SUBSET S /\ Cardinality(s \ {First(s)}) = Cardinality(s) - 1
                      /\ Cardinality(s) # 0
    OBVIOUS
  <2>1. First(s) \in s
    OBVIOUS
  <2> QED BY <1>2, <2>1, FS_RemoveElement, FS_EmptySet
<1> HIDE DEF First, Next1
<1>4. 0 \in Defined
  <2> DEFINE g == [s \in Level(0) |-> NoneKept(r)]
  <2>1. \A s \in Level(0) : s = {}
    BY <1>2, FS_EmptySet
  <2>2. Good(g, Level(0))
    BY <2>1
  <2> HIDE DEF g, Good
  <2> QED BY <2>2
<1>5. ASSUME NEW n \in Nat, n \in Defined
      PROVE  n + 1 \in Defined
  <2>1. PICK g : Good(g, Level(n))
    BY <1>5
  <2> DEFINE h == [s \in Level(n + 1) |-> IF s = {} THEN NoneKept(r)
                                          ELSE Next1(First(s), g[s \ {First(s)}])]
  <2>2. \A s \in Level(n) : s \in Level(n + 1) /\ h[s] = g[s]
    <3> SUFFICES ASSUME NEW s \in Level(n) PROVE s \in Level(n + 1) /\ h[s] = g[s]
      OBVIOUS
    <3>1. s \in Level(n + 1)
      BY <1>2
    <3>2. g[s] = IF s = {} THEN NoneKept(r) ELSE Next1(First(s), g[s \ {First(s)}])
      BY <2>1
    <3>3. h[s] = IF s = {} THEN NoneKept(r) ELSE Next1(First(s), g[s \ {First(s)}])
      BY <3>1
    <3> QED BY <3>1, <3>2, <3>3
  <2>3. \A s \in Level(n + 1) : s # {} => s \ {First(s)} \in Level(n)
    BY <1>2, <1>3
  <2>4. \A s \in Level(n + 1) : s # {} => h[s \ {First(s)}] = g[s \ {First(s)}]
    BY <2>2, <2>3
  <2> HIDE DEF Level
  <2>5. Good(h, Level(n + 1))
    BY <2>4
  <2> HIDE DEF h, Good
  <2> QED BY <2>5
<1>6. Cardinality(S) \in Defined
  <2>1. Cardinality(S) \in Nat
    BY FS_CardinalityType
  <2> HIDE DEF Defined
  <2>2. \A n \in 0 .. Cardinality(S) : n \in Defined
    BY <1>4, <1>5, <2>1, UpTo
  <2> QED BY <2>1, <2>2
<1>7. Level(Cardinality(S)) = SUBSET S
  BY <1>2
<1>8. \E g : Good(g, SUBSET S)
  <2> HIDE DEF Good, Level
  <2> QED BY <1>6, <1>7
<1>9. Good(f, SUBSET S)
  BY <1>8
<1>10. f = [s \in SUBSET S |-> IF s = {} THEN NoneKept(r) ELSE Next1(First(s), f[s \ {First(s)}])]
  BY <1>9
<1> HIDE DEF f, Good
<1>11. KeepsEach(f, r, kind, group, S)
  BY <1>10 DEF First, Next1, KeepsEach
<1> QED BY <1>1, <1>11

\* What has been made of one kind, for some interfaces: new faces, each under a key of its own;
\* what was there is as it was.
Made(r, kind, interfaces, m) ==
  /\ m \in [tables : {m.tables}, kept : {m.kept}, thrown : {r.thrown}]
  /\ TablesOK(m.tables)
  /\ \A id \in DOMAIN r.tables.faces :
       id \in DOMAIN m.tables.faces /\ m.tables.faces[id] = r.tables.faces[id]
  /\ \A id \in DOMAIN m.tables.faces \ DOMAIN r.tables.faces : ~IsOverIp(m.tables.faces[id])
  /\ \A key \in DOMAIN r.tables.mapped :
       key \in DOMAIN m.tables.mapped /\ m.tables.mapped[key] = r.tables.mapped[key]
  /\ \A key \in DOMAIN m.tables.mapped \ DOMAIN r.tables.mapped :
       key[1] = kind /\ key[2] \in interfaces
  /\ \A id \in m.kept :
       \E key \in DOMAIN m.tables.mapped :
         m.tables.mapped[key] = id /\ key[1] = kind /\ key[2] \in interfaces

LEMMA NothingMade ==
  ASSUME NEW r, TablesOK(r.tables), NEW kind, NEW interfaces
  PROVE  Made(r, kind, interfaces, NoneKept(r))
<1> DEFINE m == NoneKept(r)
<1>1. m = [tables |-> r.tables, kept |-> {}, thrown |-> r.thrown]
  BY DEF NoneKept
<1>2. m.tables = r.tables /\ m.kept = {} /\ m \in [tables : {m.tables}, kept : {m.kept}, thrown : {r.thrown}]
  BY <1>1
<1> HIDE DEF m
<1>3. Made(r, kind, interfaces, m)
  BY <1>2 DEF Made
<1> QED BY <1>3 DEF m

\* The face of an interface is found, or made.
LEMMA CreateFaceOnNicFacts ==
  ASSUME NEW t, TablesOK(t), NEW kind \in MulticastKinds, NEW nic, NEW group,
         NEW key, key = MulticastKey(kind, nic, group),
         NEW u, u = CreateFaceOnNic(t, kind, nic, group)
  PROVE  /\ key[1] = kind /\ key[2] = nic /\ TablesOK(u)
         /\ \A id \in DOMAIN t.faces : id \in DOMAIN u.faces /\ u.faces[id] = t.faces[id]
         /\ \A id \in DOMAIN u.faces \ DOMAIN t.faces : ~IsOverIp(u.faces[id])
         /\ \A k \in DOMAIN t.mapped : k \in DOMAIN u.mapped /\ u.mapped[k] = t.mapped[k]
         /\ DOMAIN u.mapped = DOMAIN t.mapped \cup {key}
<1> DEFINE face == NewFace(kind, <<nic, group>>, "permanent", FALSE, FALSE)
<1>1. key[1] = kind /\ key[2] = nic
  BY DEF MulticastKey, EthernetKey, UdpMulticastKey, MulticastKinds
<1>2. u = IF Has(t, key) THEN t ELSE AddMapped(t, key, face)
  BY DEF CreateFaceOnNic, MulticastKey, UdpCreateMulticastFace, EthernetCreateMulticastFace,
         CreateMulticastFace, MulticastKinds
<1>3. IsFace(face) /\ face.kind = kind
  BY DEF NewFace, IsFace
<1> HIDE DEF face
<1>4. CASE Has(t, key)
  BY <1>1, <1>2, <1>4 DEF Has
<1>5. CASE ~Has(t, key)
  <2>1. \A peer \in Peers : KindOf(peer) \in {"udp", "tcp"} => key # Key(peer)
    BY <1>1 DEF Key, MulticastKinds
  <2>2. ~IsOverIp(face)
    BY <1>3 DEF IsOverIp, MulticastKinds
  <2>3. /\ TablesOK(u) /\ u.mapped = Put(t.mapped, key, t.lastId + 1)
        /\ u.faces = Put(t.faces, t.lastId + 1, face) /\ t.lastId + 1 \notin DOMAIN t.faces
    BY <1>2, <1>3, <1>5, <2>1, <2>2, AddMappedFacts
  <2> QED BY <1>1, <1>5, <2>2, <2>3 DEF Put, Has
<1> QED BY <1>4, <1>5

LEMMA OneMore ==
  ASSUME NEW r, NEW kind \in MulticastKinds, NEW S, NEW m, Made(r, kind, S, m), NEW nic, NEW group
  PROVE  Made(r, kind, S \cup {nic},
              KeepFace(m, CreateFaceOnNic(m.tables, kind, nic, group), MulticastKey(kind, nic, group)))
<1> DEFINE t == m.tables
           u == CreateFaceOnNic(t, kind, nic, group)
           key == MulticastKey(kind, nic, group)
           n == KeepFace(m, u, key)
<1>1. /\ key[1] = kind /\ key[2] = nic /\ TablesOK(u)
      /\ \A id \in DOMAIN t.faces : id \in DOMAIN u.faces /\ u.faces[id] = t.faces[id]
      /\ \A id \in DOMAIN u.faces \ DOMAIN t.faces : ~IsOverIp(u.faces[id])
      /\ \A k \in DOMAIN t.mapped : k \in DOMAIN u.mapped /\ u.mapped[k] = t.mapped[k]
      /\ DOMAIN u.mapped = DOMAIN t.mapped \cup {key}
  <2>1. TablesOK(t)
    BY DEF Made
  <2> HIDE DEF t, u, key
  <2> QED BY <2>1, CreateFaceOnNicFacts DEF u, key
<1>2. /\ n.tables = u /\ n.kept = m.kept \cup {u.mapped[key]}
      /\ n \in [tables : {n.tables}, kept : {n.kept}, thrown : {r.thrown}]
  <2> HIDE DEF u, key
  <2> QED BY DEF KeepFace, Made
<1>3. /\ \A id \in DOMAIN r.tables.faces : id \in DOMAIN t.faces /\ t.faces[id] = r.tables.faces[id]
      /\ \A id \in DOMAIN t.faces \ DOMAIN r.tables.faces : ~IsOverIp(t.faces[id])
      /\ \A k \in DOMAIN r.tables.mapped :
           k \in DOMAIN t.mapped /\ t.mapped[k] = r.tables.mapped[k]
      /\ \A k \in DOMAIN t.mapped \ DOMAIN r.tables.mapped : k[1] = kind /\ k[2] \in S
      /\ \A id \in m.kept :
           \E k \in DOMAIN t.mapped : t.mapped[k] = id /\ k[1] = kind /\ k[2] \in S
  BY DEF Made
<1> HIDE DEF t, u, key, n
<1>4. \A id \in n.kept :
        \E k \in DOMAIN u.mapped : u.mapped[k] = id /\ k[1] = kind /\ k[2] \in S \cup {nic}
  <2> SUFFICES ASSUME NEW id \in n.kept
               PROVE  \E k \in DOMAIN u.mapped : u.mapped[k] = id /\ k[1] = kind /\ k[2] \in S \cup {nic}
    OBVIOUS
  <2>1. CASE id \in m.kept
    BY <1>1, <1>3, <2>1
  <2>2. CASE id = u.mapped[key]
    BY <1>1, <2>2
  <2> QED BY <1>2, <2>1, <2>2
<1>5. Made(r, kind, S \cup {nic}, n)
  BY <1>1, <1>2, <1>3, <1>4 DEF Made
<1> QED BY <1>5 DEF n, u, key, t

LEMMA KeepFacesFacts ==
  ASSUME NEW r, TablesOK(r.tables), NEW kind \in MulticastKinds, NEW group, NEW S, IsFiniteSet(S)
  PROVE  Made(r, kind, S, KeepFaces(r, kind, group, S))
<1> DEFINE First(s) == CHOOSE x \in s : TRUE
<1>1. PICK f : KeepFaces(r, kind, group, S) = f[S] /\ KeepsEach(f, r, kind, group, S)
  BY KeepFacesDef
<1>2. \A s \in SUBSET S : IsFiniteSet(s) /\ Cardinality(s) \in Nat
  BY FS_Subset, FS_CardinalityType
<1> DEFINE Done == {n \in Nat : \A s \in SUBSET S : Cardinality(s) = n => Made(r, kind, s, f[s])}
<1>3. 0 \in Done
  <2> SUFFICES ASSUME NEW s \in SUBSET S, Cardinality(s) = 0
               PROVE  Made(r, kind, s, f[s])
    OBVIOUS
  <2>1. s = {}
    BY <1>2, FS_EmptySet
  <2>2. f[s] = NoneKept(r)
    BY <1>1, <2>1 DEF KeepsEach
  <2> QED BY <2>2, NothingMade
<1>4. ASSUME NEW n \in Nat, n \in Done
      PROVE  n + 1 \in Done
  <2> SUFFICES ASSUME NEW s \in SUBSET S, Cardinality(s) = n + 1
               PROVE  Made(r, kind, s, f[s])
    OBVIOUS
  <2> DEFINE nic == First(s)
             rest == s \ {nic}
             made == f[rest]
  <2>1. s # {}
    BY FS_EmptySet
  <2>2. nic \in s /\ s = rest \cup {nic}
    BY <2>1
  <2>3. rest \in SUBSET S /\ Cardinality(rest) = n
    <3>1. Cardinality(rest) = Cardinality(s) - 1
      BY <1>2, <2>2, FS_RemoveElement
    <3> QED BY <3>1
  <2>4. Made(r, kind, rest, made)
    BY <1>4, <2>3
  <2>5. f[s] = KeepFace(made, CreateFaceOnNic(made.tables, kind, nic, group),
                        MulticastKey(kind, nic, group))
    BY <1>1, <2>1 DEF KeepsEach
  <2> HIDE DEF made, rest, nic
  <2>6. Made(r, kind, rest \cup {nic},
             KeepFace(made, CreateFaceOnNic(made.tables, kind, nic, group),
                      MulticastKey(kind, nic, group)))
    BY <2>4, OneMore
  <2> QED BY <2>2, <2>5, <2>6
<1>5. Cardinality(S) \in Done
  <2> HIDE DEF Done
  <2>1. Cardinality(S) \in Nat
    BY <1>2
  <2>2. \A n \in 0 .. Cardinality(S) : n \in Done
    BY <1>3, <1>4, <2>1, UpTo
  <2> QED BY <2>1, <2>2
<1> QED BY <1>1, <1>5

-----------------------------------------------------------------------------
(* The sections of the configuration file                                    *)

\* What applying sections has come to.
ResultOK(r) ==
  /\ r \in [tables : {r.tables}, channels : {r.channels}, factories : {r.factories}, thrown : BOOLEAN]
  /\ TablesOK(r.tables) /\ IsChannels(r.channels)
  /\ FacesAreSure(r.tables, r.channels, r.factories)
  /\ \A peer \in Peers : Sure(channels, factories, peer) => Sure(r.channels, r.factories, peer)

\* No peer is refused for what a section does to channels and factories.
LEMMA AppliedFacts ==
  ASSUME NEW r, ResultOK(r), NEW c, IsChannels(c), NEW schemes,
         \A peer \in Peers : Sure(r.channels, r.factories, peer) => Sure(c, r.factories, peer)
  PROVE  /\ ResultOK(Applied(r, c, schemes))
         /\ Applied(r, c, schemes).tables = r.tables
<1> DEFINE q == Applied(r, c, schemes)
<1>1. /\ q.tables = r.tables /\ q.channels = c /\ q.factories = r.factories \cup schemes
      /\ q \in [tables : {q.tables}, channels : {q.channels}, factories : {q.factories}, thrown : BOOLEAN]
  BY DEF Applied, ResultOK
<1>2. \A peer \in Peers : Sure(r.channels, r.factories, peer) => Sure(c, r.factories \cup schemes, peer)
  BY DEF Sure
<1>3. \A id \in DOMAIN r.tables.faces :
        IsLasting(r.tables.faces[id]) => r.tables.faces[id].peer \in Peers
  BY DEF ResultOK, TablesOK, IsKept, IsLasting
<1> HIDE DEF q
<1>4. FacesAreSure(q.tables, q.channels, q.factories)
  BY <1>1, <1>2, <1>3 DEF FacesAreSure, ResultOK
<1>5. ResultOK(q)
  BY <1>1, <1>2, <1>4 DEF ResultOK
<1> QED BY <1>1, <1>5 DEF q

LEMMA ThrowFacts ==
  ASSUME NEW r, ResultOK(r), NEW kind
  PROVE  ResultOK(Throw(r, kind)) /\ Throw(r, kind).tables = r.tables
<1> DEFINE q == [r EXCEPT !.thrown = TRUE]
<1>1. ResultOK(q) /\ q.tables = r.tables /\ q.channels = r.channels /\ q.factories = r.factories
  BY DEF ResultOK
<1>2. IsChannels(q.channels)
  BY <1>1 DEF ResultOK
<1>3. Throw(r, kind) = Applied(q, q.channels, {<<kind, AnyVersion>>})
  BY <1>1 DEF Throw
<1> HIDE DEF q
<1> QED BY <1>1, <1>2, <1>3, AppliedFacts

LEMMA SectionUnixFacts ==
  ASSUME NEW r, ResultOK(r), NEW broken
  PROVE  ResultOK(SectionUnix(r, broken)) /\ SectionUnix(r, broken).tables = r.tables
<1> DEFINE c == UnixListen(UnixCreateChannel(r.channels))
<1>1. IsChannels(r.channels)
  BY DEF ResultOK
<1>2. IsChannels(UnixCreateChannel(r.channels))
      /\ \A peer \in Peers : Sure(r.channels, r.factories, peer) =>
                               Sure(UnixCreateChannel(r.channels), r.factories, peer)
  BY <1>1, CreateChannelKeepsSure, CreateChannelTypes DEF UnixCreateChannel
<1>3. IsChannels(c) /\ \A peer \in Peers : Sure(r.channels, r.factories, peer) => Sure(c, r.factories, peer)
  BY <1>2, ListenKeepsSure, ChannelTypes DEF UnixListen
<1> HIDE DEF c
<1>4. ResultOK(Applied(r, c, Schemes("unix", {}))) /\ Applied(r, c, Schemes("unix", {})).tables = r.tables
  BY <1>3, AppliedFacts
<1> QED BY <1>4, ThrowFacts DEF SectionUnix, c

LEMMA SectionTcpFacts ==
  ASSUME NEW r, ResultOK(r), NEW section, NEW addressed \in SUBSET Nics, NEW broken
  PROVE  /\ ResultOK(SectionTcp(r, section, addressed, broken))
         /\ SectionTcp(r, section, addressed, broken).tables = r.tables
<1> DEFINE Channel(c, version) ==
             LET made == TcpCreateChannel(c, version, addressed)
             IN  IF version \notin section.versions THEN c
                 ELSE IF section.listen THEN TcpListen(made, version) ELSE made
           Surer(c, d) == \A peer \in Peers : Sure(c, r.factories, peer) => Sure(d, r.factories, peer)
<1>1. ASSUME NEW c, IsChannels(c), NEW version \in {"v4", "v6"}
      PROVE  IsChannels(Channel(c, version)) /\ Surer(c, Channel(c, version))
  <2> DEFINE made == TcpCreateChannel(c, version, addressed)
  <2>1. IsChannels(made) /\ Surer(c, made)
    BY <1>1, TcpCreateChannelKeepsSure
  <2> HIDE DEF made
  <2>2. IsChannels(TcpListen(made, version)) /\ Surer(made, TcpListen(made, version))
    BY <2>1, ListenKeepsSure, ChannelTypes DEF TcpListen
  <2> QED BY <1>1, <2>1, <2>2 DEF made
<1> DEFINE c4 == Channel(r.channels, "v4")
           c6 == Channel(c4, "v6")
           q == Applied(r, c6, Schemes("tcp", section.versions))
<1>2. SectionTcp(r, section, addressed, broken) =
        IF ~MakesChannels(r, "tcp") THEN r
        ELSE IF section.listen /\ "listen" \in broken THEN Throw(r, "tcp") ELSE q
  BY DEF SectionTcp
<1> HIDE DEF Channel
<1>3. IsChannels(c4) /\ Surer(r.channels, c4)
  BY <1>1 DEF ResultOK
<1> HIDE DEF c4
<1>4. IsChannels(c6) /\ Surer(c4, c6)
  BY <1>1, <1>3
<1> HIDE DEF c6
<1>5. ResultOK(q) /\ q.tables = r.tables
  BY <1>3, <1>4, AppliedFacts
<1> HIDE DEF q
<1> QED BY <1>2, <1>5, ThrowFacts

LEMMA SectionUdpChannelsFacts ==
  ASSUME NEW r, ResultOK(r), NEW section, NEW addressed \in SUBSET Nics, NEW broken
  PROVE  /\ ResultOK(SectionUdpChannels(r, section, addressed, broken))
         /\ SectionUdpChannels(r, section, addressed, broken).tables = r.tables
<1> DEFINE Channel(c, version) ==
             IF version \notin section.versions THEN c
             ELSE UdpListen(UdpCreateChannel(c, version, addressed), version)
           Surer(c, d) == \A peer \in Peers : Sure(c, r.factories, peer) => Sure(d, r.factories, peer)
<1>1. ASSUME NEW c, IsChannels(c), NEW version \in {"v4", "v6"}
      PROVE  IsChannels(Channel(c, version)) /\ Surer(c, Channel(c, version))
  <2> DEFINE made == UdpCreateChannel(c, version, addressed)
  <2>1. IsChannels(made) /\ Surer(c, made)
    BY <1>1, UdpCreateChannelKeepsSure
  <2> HIDE DEF made
  <2>2. IsChannels(UdpListen(made, version)) /\ Surer(made, UdpListen(made, version))
    BY <2>1, ListenKeepsSure, ChannelTypes DEF UdpListen
  <2> QED BY <1>1, <2>1, <2>2 DEF made
<1> DEFINE c4 == Channel(r.channels, "v4")
           c6 == Channel(c4, "v6")
           q == Applied(r, c6, Schemes("udp", section.versions))
<1>2. SectionUdpChannels(r, section, addressed, broken) =
        IF ~MakesChannels(r, "udp") THEN r
        ELSE IF "listen" \in broken THEN Throw(r, "udp") ELSE q
  BY DEF SectionUdpChannels
<1> HIDE DEF Channel
<1>3. IsChannels(c4) /\ Surer(r.channels, c4)
  BY <1>1 DEF ResultOK
<1> HIDE DEF c4
<1>4. IsChannels(c6) /\ Surer(c4, c6)
  BY <1>1, <1>3
<1> HIDE DEF c6
<1>5. ResultOK(q) /\ q.tables = r.tables
  BY <1>3, <1>4, AppliedFacts
<1> HIDE DEF q
<1> QED BY <1>2, <1>5, ThrowFacts

LEMMA SectionWebSocketFacts ==
  ASSUME NEW r, ResultOK(r), NEW section, NEW broken
  PROVE  /\ ResultOK(SectionWebSocket(r, section, broken))
         /\ SectionWebSocket(r, section, broken).tables = r.tables
<1> DEFINE version == IF "v6" \in section.versions THEN "v6" ELSE "v4"
           made == WebSocketCreateChannel(r.channels, version)
           c == IF section.listen THEN WebSocketListen(made, version) ELSE made
           q == Applied(r, c, {<<"websocket", AnyVersion>>})
<1>1. SectionWebSocket(r, section, broken) =
        IF ~MakesChannels(r, "websocket") THEN r
        ELSE IF section.listen /\ "listen" \in broken THEN Throw(r, "websocket") ELSE q
  BY DEF SectionWebSocket
<1> HIDE DEF version
<1>2. IsChannels(made) /\ \A peer \in Peers : Sure(r.channels, r.factories, peer) => Sure(made, r.factories, peer)
  BY CreateChannelKeepsSure, CreateChannelTypes DEF WebSocketCreateChannel, ResultOK
<1> HIDE DEF made
<1>3. IsChannels(c) /\ \A peer \in Peers : Sure(r.channels, r.factories, peer) => Sure(c, r.factories, peer)
  BY <1>2, ListenKeepsSure, ChannelTypes DEF WebSocketListen
<1> HIDE DEF c
<1>4. ResultOK(q) /\ q.tables = r.tables
  BY <1>3, AppliedFacts
<1> HIDE DEF q
<1> QED BY <1>1, <1>4, ThrowFacts

LEMMA CloseAllFacts ==
  ASSUME NEW t, TablesOK(t), NEW ids
  PROVE  LET u == CloseAll(t, ids)
         IN  /\ TablesOK(u) /\ u.mapped = t.mapped /\ DOMAIN u.faces = DOMAIN t.faces
             /\ \A id \in DOMAIN t.faces :
                  /\ u.faces[id].kind = t.faces[id].kind /\ u.faces[id].peer = t.faces[id].peer
                  /\ u.faces[id].persistency = t.faces[id].persistency
                  /\ u.faces[id].state = IF id \in ids THEN "CLOSING" ELSE t.faces[id].state
<1> DEFINE fs == [id \in DOMAIN t.faces |->
                    IF id \in ids THEN [t.faces[id] EXCEPT !.state = "CLOSING"] ELSE t.faces[id]]
           u == CloseAll(t, ids)
<1>1. u = [t EXCEPT !.faces = fs]
  BY DEF CloseAll
<1>2. \A id \in DOMAIN t.faces :
        /\ IsFace(fs[id]) /\ fs[id].kind = t.faces[id].kind /\ fs[id].peer = t.faces[id].peer
        /\ fs[id].persistency = t.faces[id].persistency
        /\ fs[id].state = IF id \in ids THEN "CLOSING" ELSE t.faces[id].state
  BY DEF TablesOK, IsFace
<1>3. DOMAIN fs = DOMAIN t.faces
  OBVIOUS
<1> HIDE DEF fs, u
<1>4. TablesOK(u) /\ u.faces = fs /\ u.mapped = t.mapped
  BY <1>1, <1>2, <1>3, FacesChangeFacts
<1> QED BY <1>2, <1>3, <1>4 DEF u

\* The section closes the multicast faces of its kind that it does not keep: those that are
\* left are on the interfaces. It does not open again what is being closed of another kind.
LEMMA CloseOthersFacts ==
  ASSUME NEW r, ResultOK(r), NEW kind \in MulticastKinds, NEW interfaces \in SUBSET nics,
         NEW m, Made(r, kind, interfaces, m) \/ Made([r EXCEPT !.thrown = TRUE], kind, interfaces, m)
  PROVE  LET q == CloseOthers(r, kind, m)
         IN  /\ ResultOK(q) /\ DownIsClosing(q.tables, kind)
             /\ \A other \in MulticastKinds : DownIsClosing(r.tables, other) => DownIsClosing(q.tables, other)
<1> DEFINE t == m.tables
           ids == MulticastFaces(r.tables, kind) \ m.kept
           u == CloseAll(t, ids)
           q == CloseOthers(r, kind, m)
<1>1. /\ m.thrown \in BOOLEAN /\ TablesOK(t)
      /\ \A id \in DOMAIN r.tables.faces : id \in DOMAIN t.faces /\ t.faces[id] = r.tables.faces[id]
      /\ \A id \in DOMAIN t.faces \ DOMAIN r.tables.faces : ~IsOverIp(t.faces[id])
      /\ \A k \in DOMAIN r.tables.mapped :
           k \in DOMAIN t.mapped /\ t.mapped[k] = r.tables.mapped[k]
      /\ \A k \in DOMAIN t.mapped \ DOMAIN r.tables.mapped : k[1] = kind /\ k[2] \in interfaces
      /\ \A id \in m.kept :
           \E k \in DOMAIN t.mapped : t.mapped[k] = id /\ k[1] = kind /\ k[2] \in interfaces
  <2>1. [r EXCEPT !.thrown = TRUE].tables = r.tables /\ [r EXCEPT !.thrown = TRUE].thrown = TRUE
        /\ r.thrown \in BOOLEAN
    BY DEF ResultOK
  <2> QED BY <2>1 DEF Made
<1>2. /\ q.tables = u /\ q.channels = r.channels /\ q.factories = r.factories
      /\ q \in [tables : {q.tables}, channels : {q.channels}, factories : {q.factories}, thrown : BOOLEAN]
  <2>1. q = [r EXCEPT !.tables = u, !.thrown = m.thrown]
    BY DEF CloseOthers
  <2> HIDE DEF u, q
  <2> QED BY <1>1, <2>1 DEF ResultOK
<1>3. /\ TablesOK(u) /\ u.mapped = t.mapped /\ DOMAIN u.faces = DOMAIN t.faces
      /\ \A id \in DOMAIN t.faces :
           /\ u.faces[id].kind = t.faces[id].kind /\ u.faces[id].peer = t.faces[id].peer
           /\ u.faces[id].persistency = t.faces[id].persistency
           /\ u.faces[id].state = IF id \in ids THEN "CLOSING" ELSE t.faces[id].state
  <2> HIDE DEF ids, t
  <2> QED BY <1>1, CloseAllFacts
<1> HIDE DEF q, u
<1>4. FacesAreSure(u, r.channels, r.factories)
  <2> SUFFICES ASSUME NEW id \in DOMAIN u.faces, IsLasting(u.faces[id])
               PROVE  Sure(r.channels, r.factories, u.faces[id].peer)
    BY DEF FacesAreSure
  <2>1. IsLasting(t.faces[id])
    BY <1>3 DEF IsLasting, IsOverIp
  <2>2. id \in DOMAIN r.tables.faces /\ t.faces[id] = r.tables.faces[id]
    BY <1>1, <1>3, <2>1 DEF IsLasting
  <2> QED BY <1>3, <2>1, <2>2 DEF ResultOK, FacesAreSure
<1>5. ResultOK(q)
  BY <1>2, <1>3, <1>4 DEF ResultOK
<1>6. DownIsClosing(u, kind)
  <2> SUFFICES ASSUME NEW key \in DOMAIN u.mapped, key[1] = kind, key[2] \notin nics
               PROVE  u.faces[u.mapped[key]].state = "CLOSING"
    BY DEF DownIsClosing
  <2>1. key \in DOMAIN t.mapped /\ u.mapped[key] = t.mapped[key] /\ t.mapped[key] \in DOMAIN t.faces
    BY <1>1, <1>3 DEF TablesOK
  <2>2. key \in DOMAIN r.tables.mapped /\ r.tables.mapped[key] = t.mapped[key]
    BY <1>1, <2>1
  <2>3. t.mapped[key] \in MulticastFaces(r.tables, kind)
    BY <2>2 DEF MulticastFaces
  <2>4. t.mapped[key] \notin m.kept
    <3> SUFFICES ASSUME t.mapped[key] \in m.kept PROVE FALSE
      OBVIOUS
    <3>1. PICK k \in DOMAIN t.mapped : t.mapped[k] = t.mapped[key] /\ k[1] = kind /\ k[2] \in interfaces
      BY <1>1
    <3>2. k = key
      BY <1>1, <2>1, <3>1 DEF TablesOK
    <3> QED BY <3>1, <3>2
  <2> QED BY <1>3, <2>1, <2>3, <2>4
<1>7. ASSUME NEW other \in MulticastKinds, other # kind, DownIsClosing(r.tables, other)
      PROVE  DownIsClosing(u, other)
  <2> SUFFICES ASSUME NEW key \in DOMAIN u.mapped, key[1] = other, key[2] \notin nics
               PROVE  u.faces[u.mapped[key]].state = "CLOSING"
    BY DEF DownIsClosing
  <2>1. /\ key \in DOMAIN r.tables.mapped /\ u.mapped[key] = r.tables.mapped[key]
        /\ u.mapped[key] \in DOMAIN r.tables.faces
    BY <1>1, <1>3, <1>7 DEF ResultOK, TablesOK
  <2>2. t.faces[u.mapped[key]].state = "CLOSING" /\ u.mapped[key] \in DOMAIN t.faces
    BY <1>1, <1>7, <2>1 DEF DownIsClosing
  <2> QED BY <1>3, <2>2
<1> QED BY <1>2, <1>5, <1>6, <1>7 DEF q

LEMMA SectionUdpMulticastFacts ==
  ASSUME NEW r, ResultOK(r), NEW section, NEW broken, nics \subseteq Nics
  PROVE  /\ ResultOK(SectionUdpMulticast(r, section, broken))
         /\ DownIsClosing(SectionUdpMulticast(r, section, broken).tables, "udp-multicast")
<1> DEFINE kind == "udp-multicast"
           interfaces == MulticastNics(section)
           m == UdpMulticastMade(r, section, broken)
           s == [r EXCEPT !.thrown = TRUE]
<1>1. interfaces \in SUBSET nics /\ IsFiniteSet(interfaces)
  BY FaceManagerAssumption, FS_Subset DEF MulticastNics
<1>2. TablesOK(r.tables) /\ s.tables = r.tables /\ s.thrown = TRUE
  BY DEF ResultOK
<1>3. \/ m = NoneKept(r) \/ m = [NoneKept(r) EXCEPT !.thrown = TRUE]
      \/ m = KeepFaces(r, kind, section.group, interfaces)
  BY DEF UdpMulticastMade
<1>4. kind \in MulticastKinds
  BY DEF MulticastKinds
<1>5. SectionUdpMulticast(r, section, broken) = CloseOthers(r, kind, m)
  BY DEF SectionUdpMulticast
<1> HIDE DEF m, interfaces, kind
<1>6. Made(r, kind, interfaces, m) \/ Made(s, kind, interfaces, m)
  <2>1. CASE m = [NoneKept(r) EXCEPT !.thrown = TRUE]
    <3>1. /\ m.tables = r.tables /\ m.kept = {}
          /\ m \in [tables : {m.tables}, kept : {m.kept}, thrown : {TRUE}]
      BY <2>1 DEF NoneKept
    <3> HIDE DEF s
    <3>2. Made(s, kind, interfaces, m)
      BY <1>2, <3>1 DEF Made
    <3> QED BY <3>2 DEF s
  <2> QED BY <1>1, <1>2, <1>3, <1>4, <2>1, NothingMade, KeepFacesFacts
<1>7. ResultOK(CloseOthers(r, kind, m)) /\ DownIsClosing(CloseOthers(r, kind, m).tables, kind)
  BY <1>1, <1>4, <1>6, CloseOthersFacts
<1> QED BY <1>5, <1>7 DEF kind

LEMMA SectionEtherFacts ==
  ASSUME NEW r, ResultOK(r), NEW section, NEW broken, nics \subseteq Nics
  PROVE  LET q == SectionEther(r, section, broken)
         IN  /\ ResultOK(q) /\ DownIsClosing(q.tables, "ether")
             /\ DownIsClosing(r.tables, "udp-multicast") => DownIsClosing(q.tables, "udp-multicast")
<1> DEFINE kind == "ether"
           p == Applied(r, r.channels, Schemes("ether", {}))
           opened == {nic \in MulticastNics(section) :
                        ~EthernetMulticastThrows(p.tables, nic, section.group, nic \notin broken)}
           m == EthernetMulticastMade(p, section, broken)
<1>1. opened \in SUBSET nics /\ IsFiniteSet(opened)
  <2>1. MulticastNics(section) \in SUBSET Nics /\ MulticastNics(section) \in SUBSET nics
    BY DEF MulticastNics
  <2>2. opened \in SUBSET Nics /\ opened \in SUBSET nics
    BY <2>1
  <2> HIDE DEF opened
  <2> QED BY <2>2, FaceManagerAssumption, FS_Subset
<1>2. ResultOK(p) /\ p.tables = r.tables
  BY AppliedFacts DEF ResultOK
<1>3. m = NoneKept(p) \/ m = KeepFaces(p, kind, section.group, opened)
  BY DEF EthernetMulticastMade
<1>4. kind \in MulticastKinds /\ "udp-multicast" \in MulticastKinds
  BY DEF MulticastKinds
<1>5. SectionEther(r, section, broken) = CloseOthers(p, kind, m)
  BY DEF SectionEther
<1>6. TablesOK(p.tables)
  BY <1>2 DEF ResultOK
<1> HIDE DEF m, opened, kind, p
<1>7. Made(p, kind, opened, m)
  BY <1>1, <1>3, <1>4, <1>6, NothingMade, KeepFacesFacts
<1>8. LET q == CloseOthers(p, kind, m)
      IN  /\ ResultOK(q) /\ DownIsClosing(q.tables, kind)
          /\ DownIsClosing(p.tables, "udp-multicast") => DownIsClosing(q.tables, "udp-multicast")
  BY <1>1, <1>2, <1>4, <1>7, CloseOthersFacts
<1> QED BY <1>2, <1>5, <1>8 DEF kind

\* A file that is applied.
LEMMA FaceSystemFacts ==
  ASSUME TInv, NEW f, NEW addressed \in SUBSET Nics, NEW broken
  PROVE  LET r == FaceSystem(f, addressed, broken)
         IN  /\ ResultOK(r)
             /\ Absent \notin {f.udp, f.ether} =>
                  \A kind \in MulticastKinds : DownIsClosing(r.tables, kind)
<1> DEFINE start == [tables |-> tables, channels |-> channels, factories |-> factories, thrown |-> FALSE]
           unix == IF f.unix = Absent THEN start ELSE SectionUnix(start, broken)
           tcp == IF f.tcp = Absent THEN unix ELSE SectionTcp(unix, f.tcp, addressed, broken)
           made == SectionUdpChannels(tcp, f.udp, addressed, broken)
           udp == IF f.udp = Absent THEN tcp ELSE SectionUdpMulticast(made, f.udp, broken)
           ether == IF f.ether = Absent THEN udp ELSE SectionEther(udp, f.ether, broken)
           r == IF f.websocket = Absent THEN ether ELSE SectionWebSocket(ether, f.websocket, broken)
<1>1. FaceSystem(f, addressed, broken) = r
  BY DEF FaceSystem
<1>2. ResultOK(start)
  BY DEF ResultOK, TInv
<1> HIDE DEF start
<1>3. ResultOK(unix)
  BY <1>2, SectionUnixFacts
<1> HIDE DEF unix
<1>4. ResultOK(tcp)
  BY <1>3, SectionTcpFacts
<1> HIDE DEF tcp
<1>5. ResultOK(made)
  BY <1>4, SectionUdpChannelsFacts
<1> HIDE DEF made
<1>6. ResultOK(udp) /\ (f.udp # Absent => DownIsClosing(udp.tables, "udp-multicast"))
  BY <1>4, <1>5, SectionUdpMulticastFacts DEF TInv
<1> HIDE DEF udp
<1>7. /\ ResultOK(ether)
      /\ f.ether # Absent => DownIsClosing(ether.tables, "ether")
      /\ f.udp # Absent => DownIsClosing(ether.tables, "udp-multicast")
  BY <1>6, SectionEtherFacts DEF TInv
<1> HIDE DEF ether
<1>8. ResultOK(r) /\ r.tables = ether.tables
  BY <1>7, SectionWebSocketFacts
<1> HIDE DEF r
<1>9. Absent \notin {f.udp, f.ether} => \A kind \in MulticastKinds : DownIsClosing(r.tables, kind)
  BY <1>7, <1>8 DEF MulticastKinds
<1> QED BY <1>1, <1>8, <1>9

-----------------------------------------------------------------------------
(* The steps                                                                 *)

\* A reload, or the start: the daemon stops, or has applied a file.
LEMMA ApplyKeepsTInv ==
  ASSUME TInv, NEW sections, ApplyFaceSystem(sections), UNCHANGED <<nics, connecting>>,
         reloadDue' \in {reloadDue, FALSE}
  PROVE  TInv'
<1>1. CASE Stop
  <2>1. UNCHANGED <<tables, channels, factories, nics, connecting>> /\ ~Running'
    BY <1>1 DEF Stop, config, Running
  <2> QED BY <2>1 DEF TInv, ConnectionsOK, MulticastOK
<1>2. CASE \E f \in Files, addressed \in SUBSET Nics, broken \in SUBSET (nics \cup {"listen"}) :
             LET result == FaceSystem(f, addressed, broken)
             IN  /\ tables' = result.tables /\ channels' = result.channels
                 /\ factories' = result.factories /\ applied' = f
  <2>1. PICK f \in Files, addressed \in SUBSET Nics, broken \in SUBSET (nics \cup {"listen"}) :
             LET result == FaceSystem(f, addressed, broken)
             IN  /\ tables' = result.tables /\ channels' = result.channels
                 /\ factories' = result.factories /\ applied' = f
    BY <1>2
  <2> DEFINE r == FaceSystem(f, addressed, broken)
  <2>2. /\ ResultOK(r)
        /\ Absent \notin {f.udp, f.ether} => \A kind \in MulticastKinds : DownIsClosing(r.tables, kind)
    BY FaceSystemFacts
  <2>3. tables' = r.tables /\ channels' = r.channels /\ factories' = r.factories /\ applied' = f
    BY <2>1
  <2> HIDE DEF r
  <2>4. TablesOK(tables') /\ IsChannels(channels') /\ FacesAreSure(tables', channels', factories')
        /\ nics' \subseteq Nics
    BY <2>2, <2>3 DEF ResultOK, TInv
  <2>5. ConnectionsOK'
    BY <2>2, <2>3 DEF TInv, ConnectionsOK, ResultOK
  <2>6. MulticastOK'
    BY <2>2, <2>3 DEF MulticastOK, DownIsClosing
  <2> QED BY <2>4, <2>5, <2>6 DEF TInv
<1> QED BY <1>1, <1>2 DEF ApplyFaceSystem

\* A step of the tables that leaves the configuration alone.
LEMMA TablesKeepTInv ==
  ASSUME TInv, NEW peers, Keeps(tables, tables', peers),
         \A peer \in peers : Sure(channels, factories, peer),
         UNCHANGED <<daemon, config, environment>>, ConnectionsOK'
  PROVE  TInv'
<1>1. UNCHANGED <<daemon, factories, channels, applied, nics, reloadDue>>
  BY DEF config, environment
<1>2. TablesOK(tables)
  BY DEF TInv
<1>3. FacesAreSure(tables', channels, factories)
  BY FacesStaySure DEF TInv
<1>4. \A kind \in MulticastKinds : DownIsClosing(tables, kind) => DownIsClosing(tables', kind)
  BY <1>2, MulticastIsKept
<1>5. MulticastOK'
  BY <1>1, <1>4 DEF TInv, MulticastOK, Running, DownIsClosing
<1> QED BY <1>1, <1>3, <1>5 DEF TInv, Keeps

\* Nothing changes for connections.
LEMMA SameConnections ==
  ASSUME TInv, UNCHANGED <<config, connecting>>
  PROVE  ConnectionsOK'
BY DEF TInv, ConnectionsOK, config

\* Nothing changes at all.
LEMMA SameTables ==
  ASSUME TInv, UNCHANGED <<tables, daemon, config, environment>>, ConnectionsOK'
  PROVE  TInv'
<1>1. Keeps(tables, tables', {})
  BY KeepsNothingNew DEF TInv
<1> QED BY <1>1, TablesKeepTInv

\* A face that a command makes may be made.
LEMMA FactorySure ==
  ASSUME NEW c, NEW fs, NEW uri \in Peers, Scheme(uri) \in fs, KindOf(uri) \in {"udp", "tcp"},
         NEW persistency, NEW localFields, FactoryStatus(c, uri, persistency, localFields) = 0
  PROVE  Sure(c, fs, uri)
<1>1. <<KindOf(uri), VersionOf(uri)>> \in c.made /\ ~IsProhibited(c, uri)
  <2>1. CASE KindOf(uri) = "udp"
    BY <2>1 DEF FactoryStatus, UdpFactoryStatus
  <2>2. CASE KindOf(uri) = "tcp"
    BY <2>2 DEF FactoryStatus, TcpFactoryStatus
  <2> QED BY <2>1, <2>2
<1>2. Scheme(uri)[1] = KindOf(uri)
  BY DEF Scheme
<1> QED BY <1>1, <1>2 DEF Sure

\* faces/create
LEMMA CreateKeepsTInv ==
  ASSUME TInv, NEW uri, NEW persistency, NEW localFields,
         CreateFace(uri, persistency, localFields)
  PROVE  TInv'
<1>1. UNCHANGED <<daemon, config, environment>>
  BY DEF CreateFace
<1>2. CASE UNCHANGED <<tables, connecting>>
  BY <1>1, <1>2, SameConnections, SameTables
<1>3. CASE /\ uri \in Peers /\ KindOf(uri) = "udp" /\ Sure(channels, factories, uri)
           /\ tables' = UdpCreateFace(tables, uri, persistency) /\ UNCHANGED connecting
  <2> DEFINE peers == IF persistency = "on-demand" THEN {} ELSE {uri}
  <2>1. Keeps(tables, tables', peers)
    BY <1>3, UdpCreateFaceKeeps DEF TInv
  <2>2. \A peer \in peers : Sure(channels, factories, peer)
    BY <1>3
  <2> HIDE DEF peers
  <2> QED BY <1>1, <1>3, <2>1, <2>2, SameConnections, TablesKeepTInv
<1>4. CASE /\ uri \in Peers /\ KindOf(uri) = "tcp" /\ Sure(channels, factories, uri) /\ UNCHANGED tables
           /\ connecting' = Put(connecting, Len(replies'),
                                [peer |-> uri, localFields |-> localFields, open |-> TRUE])
  <2>1. ConnectionsOK'
    BY <1>1, <1>4 DEF TInv, ConnectionsOK, Put, config
  <2> QED BY <1>1, <1>4, <2>1, SameTables
<1>5. CASE uri \in BadUris /\ UNCHANGED <<tables, connecting>>
  BY <1>2, <1>5
<1>6. CASE /\ uri \in Peers /\ Scheme(uri) \in factories /\ KindOf(uri) \in {"udp", "tcp"}
           /\ FactoryStatus(channels, uri, persistency, localFields) = 0
           /\ \/ KindOf(uri) = "udp" /\ UdpConnect(uri, persistency)
              \/ KindOf(uri) = "tcp" /\ TcpConnect(uri, localFields)
  <2>1. Sure(channels, factories, uri)
    BY <1>6, FactorySure
  <2>2. CASE KindOf(uri) = "udp" /\ UdpConnect(uri, persistency)
    BY <1>2, <1>3, <1>6, <2>1, <2>2 DEF UdpConnect
  <2>3. CASE KindOf(uri) = "tcp" /\ TcpConnect(uri, localFields)
    BY <1>2, <1>4, <1>6, <2>1, <2>3 DEF TcpConnect
  <2> QED BY <1>6, <2>2, <2>3
<1> QED BY <1>2, <1>6 DEF CreateFace

\* The other commands for faces: they name a face that is there.
LEMMA FacesCommandKeepsTInv ==
  ASSUME TInv, FacesCommand
  PROVE  TInv'
<1>1. ASSUME NEW id, NEW hasPersistency, NEW wanted, UpdateFace(id, hasPersistency, wanted)
      PROVE  TInv'
  <2>1. UNCHANGED <<daemon, config, environment, connecting>> /\ ConnectionsOK'
    BY <1>1, SameConnections DEF UpdateFace
  <2>2. CASE UNCHANGED tables
    BY <2>1, <2>2, SameTables
  <2>3. CASE /\ id \in DOMAIN tables.faces
             /\ tables' = [tables EXCEPT !.faces[id].localFields = TRUE \in wanted]
    <3>1. Keeps(tables, tables', {})
      BY <2>3, LocalFieldsKeeps DEF TInv
    <3> QED BY <2>1, <3>1, TablesKeepTInv
  <2> QED BY <1>1, <2>2, <2>3 DEF UpdateFace, Get, SetLinkServiceOptions
<1>2. ASSUME NEW id, DestroyFace(id)
      PROVE  TInv'
  <2>1. UNCHANGED <<daemon, config, environment, connecting>> /\ ConnectionsOK'
    BY <1>2, SameConnections DEF DestroyFace
  <2>2. CASE UNCHANGED tables
    BY <2>1, <2>2, SameTables
  <2>3. CASE id \in DOMAIN tables.faces /\ tables' = Close(tables, id)
    <3>1. Keeps(tables, tables', {})
      BY <2>3, CloseKeeps DEF TInv
    <3> QED BY <2>1, <3>1, TablesKeepTInv
  <2> QED BY <1>2, <2>2, <2>3 DEF DestroyFace, Get
<1>3. ASSUME NEW id, LocalControl(id)
      PROVE  TInv'
  <2>1. UNCHANGED <<daemon, config, environment, connecting>> /\ ConnectionsOK'
    BY <1>3, SameConnections DEF LocalControl
  <2>2. CASE UNCHANGED tables
    BY <2>1, <2>2, SameTables
  <2>3. ASSUME NEW x \in BOOLEAN, id \in DOMAIN tables.faces,
               tables' = [tables EXCEPT !.faces[id].localFields = x]
        PROVE  TInv'
    <3>1. Keeps(tables, tables', {})
      BY <2>3, LocalFieldsKeeps DEF TInv
    <3> QED BY <2>1, <3>1, TablesKeepTInv
  <2>4. CASE EnableLocalControl(id)
    <3>1. \/ UNCHANGED tables
          \/ id \in DOMAIN tables.faces /\ tables' = [tables EXCEPT !.faces[id].localFields = TRUE]
      BY <2>4 DEF EnableLocalControl, LocalControlStatus, Get
    <3> QED BY <2>2, <2>3, <3>1
  <2>5. CASE DisableLocalControl(id)
    <3>1. \/ UNCHANGED tables
          \/ id \in DOMAIN tables.faces /\ tables' = [tables EXCEPT !.faces[id].localFields = FALSE]
      BY <2>5 DEF DisableLocalControl, LocalControlStatus, Get
    <3> QED BY <2>2, <2>3, <3>1
  <2> QED BY <1>3, <2>4, <2>5 DEF LocalControl
<1> QED BY <1>1, <1>2, <1>3, CreateKeepsTInv DEF FacesCommand

\* A next hop is added for a face that is there, or removed.
LEMMA FibCommandKeepsTInv ==
  ASSUME TInv, FibCommand
  PROVE  TInv'
<1>1. UNCHANGED <<daemon, config, environment, connecting>> /\ ConnectionsOK'
  BY SameConnections DEF FibCommand, AddNextHop, RemoveNextHop
<1>2. CASE UNCHANGED tables
  BY <1>1, <1>2, SameTables
<1>3. ASSUME NEW hops, tables' = [tables EXCEPT !.nextHops = hops],
             \A hop \in hops : hop[2] \in DOMAIN tables.faces
      PROVE  TInv'
  <2>1. TablesOK(tables') /\ tables'.faces = tables.faces /\ tables'.mapped = tables.mapped
    BY <1>3, NextHopsFacts DEF TInv
  <2>2. Keeps(tables, tables', {})
    BY <2>1 DEF Keeps, KeepsMulticast, LastingFrom
  <2> QED BY <1>1, <2>2, TablesKeepTInv
<1>4. ASSUME NEW prefix, NEW id, id \in DOMAIN tables.faces,
             tables' = [tables EXCEPT !.nextHops = @ \cup {<<prefix, id>>}]
      PROVE  TInv'
  <2> DEFINE hops == tables.nextHops \cup {<<prefix, id>>}
  <2>1. \A hop \in hops : hop[2] \in DOMAIN tables.faces
    BY <1>4 DEF TInv, TablesOK
  <2> QED BY <1>3, <1>4, <2>1
<1>5. ASSUME NEW prefix, NEW id, tables' = [tables EXCEPT !.nextHops = @ \ {<<prefix, id>>}]
      PROVE  TInv'
  <2> DEFINE hops == tables.nextHops \ {<<prefix, id>>}
  <2>1. \A hop \in hops : hop[2] \in DOMAIN tables.faces
    BY DEF TInv, TablesOK
  <2> QED BY <1>3, <1>5, <2>1
<1> QED BY <1>2, <1>4, <1>5 DEF FibCommand, AddNextHop, RemoveNextHop, Get

\* The handlers of a connection.
LEMMA ConnectionsKeepTInv ==
  ASSUME TInv, IInv, NEW r \in DOMAIN connecting,
         HandleConnect(r) \/ HandleConnectTimeout(r) \/ ConnectAborted(r)
  PROVE  TInv'
<1>1. UNCHANGED <<daemon, config, environment>>
  BY DEF HandleConnect, HandleConnectTimeout, ConnectAborted
<1>2. /\ DOMAIN connecting' \subseteq DOMAIN connecting
      /\ \A s \in DOMAIN connecting' : connecting'[s].peer = connecting[s].peer
  <2>1. CASE connecting' = Restrict(connecting, DOMAIN connecting \ {r})
    BY <2>1 DEF Restrict
  <2>2. CASE connecting' = [connecting EXCEPT ![r].open = FALSE]
    <3>1. IsConnection(connecting[r])
      BY DEF IInv
    <3> QED BY <2>2, <3>1 DEF IsConnection
  <2> QED BY <2>1, <2>2 DEF HandleConnect, HandleConnectTimeout, ConnectAborted
<1>3. ConnectionsOK'
  BY <1>1, <1>2 DEF TInv, ConnectionsOK, config
<1>4. CASE UNCHANGED tables
  BY <1>1, <1>3, <1>4, SameTables
<1>5. CASE tables' = TcpCreateFace(tables, connecting[r].peer, FALSE, connecting[r].localFields)
  <2> DEFINE peer == connecting[r].peer
  <2>1. peer \in Peers /\ KindOf(peer) = "tcp" /\ Sure(channels, factories, peer)
    BY DEF TInv, ConnectionsOK
  <2>2. Keeps(tables, tables', {peer})
    BY <1>5, <2>1, TcpCreateFaceKeeps DEF TInv
  <2> HIDE DEF peer
  <2> QED BY <1>1, <1>3, <2>1, <2>2, TablesKeepTInv
<1> QED BY <1>4, <1>5 DEF HandleConnect, HandleConnectTimeout, ConnectAborted

\* Every step keeps the invariant of the tables.
LEMMA NextKeepsTInv ==
  ASSUME TInv, IInv, [Next]_vars
  PROVE  TInv'
<1>1. CASE Initialize \/ Reload \/ ReloadFaceSection
  BY <1>1, ApplyKeepsTInv DEF Initialize, Reload, ReloadFaceSection, environment
<1>2. CASE NetworkChange
  <2>1. UNCHANGED <<tables, config, connecting>> /\ reloadDue' = TRUE /\ nics' \subseteq Nics
    BY <1>2 DEF NetworkChange
  <2>2. MulticastOK'
    BY <2>1 DEF MulticastOK
  <2> QED BY <2>1, <2>2, SameConnections DEF TInv, config
<1>3. ASSUME NEW peer \in Peers, AcceptPeer(peer)
      PROVE  TInv'
  <2>1. Keeps(tables, tables', {})
    BY <1>3, IncomingKeeps DEF AcceptPeer, TInv
  <2> QED BY <1>3, <2>1, SameConnections, TablesKeepTInv DEF AcceptPeer
<1>4. ASSUME NEW id \in DOMAIN tables.faces, FaceEnds(id) \/ FinishClose(id)
      PROVE  TInv'
  <2>1. Keeps(tables, tables', {})
    BY <1>4, CloseKeeps, ClosedKeeps DEF FaceEnds, FinishClose, TInv
  <2> QED BY <1>4, <2>1, SameConnections, TablesKeepTInv DEF FaceEnds, FinishClose
<1>5. CASE \E module \in Modules, signer \in Signers \cup {NoKey} : RejectCommand(module, signer)
  BY <1>5, SameConnections, SameTables DEF RejectCommand
<1>6. CASE RemoteEndpointThrows
  <2>1. UNCHANGED <<tables, config, nics, connecting>> /\ daemon' = "stopped"
    BY <1>6 DEF RemoteEndpointThrows, Stop, environment
  <2>2. MulticastOK'
    BY <2>1 DEF MulticastOK, Running
  <2> QED BY <2>1, <2>2, SameConnections DEF TInv, config
<1>7. CASE UNCHANGED vars
  BY <1>7, SameConnections, SameTables DEF vars
<1> QED BY <1>1, <1>2, <1>3, <1>4, <1>5, <1>6, <1>7, FacesCommandKeepsTInv, FibCommandKeepsTInv,
           ConnectionsKeepTInv DEF Next

LEMMA InitTInv ==
  ASSUME Init
  PROVE  TInv
<1> DEFINE t == tables
           reserved == {InternalFace, ContentStoreFace, NullFace}
           Face(id) == NewFace("internal", id, "permanent", TRUE, id = InternalFace)
<1>1. \A id : IsFace(Face(id)) /\ ~IsOverIp(Face(id))
  BY DEF NewFace, IsFace, IsOverIp
<1>2. /\ t.faces = [id \in reserved |-> Face(id)] /\ t.lastId = ReservedMax /\ t.mapped = <<>>
      /\ t.nextHops = {<<MgmtPrefix, InternalFace>>}
      /\ t.announced = {ContentStoreFace, NullFace} /\ IsTables(t)
  BY FaceTableAssumption DEF Init, IsTables
<1> HIDE DEF t, Face
<1>3. /\ DOMAIN t.mapped = {} /\ DOMAIN t.faces = reserved
      /\ \A id \in reserved : t.faces[id] = Face(id)
  BY <1>2
<1>4. \A id \in DOMAIN t.faces : IsFace(t.faces[id]) /\ ~IsOverIp(t.faces[id])
  BY <1>1, <1>3
<1>5. /\ \A id \in reserved : id \in Nat /\ id <= ReservedMax
      /\ ReservedMax \in Nat /\ t.announced = reserved \ {InternalFace}
  BY <1>2, FaceTableAssumption
<1>6. InternalFace \in reserved
  OBVIOUS
<1> HIDE DEF reserved
<1>7. TablesOK(t)
  BY <1>2, <1>3, <1>4, <1>5, <1>6 DEF TablesOK, IsKept
<1>8. FacesAreSure(t, channels, factories)
  BY <1>4 DEF FacesAreSure, IsLasting
<1>9. IsChannels(channels)
  BY DEF Init, NoChannels, IsChannels
<1>10. nics = Nics /\ ConnectionsOK /\ MulticastOK
  BY DEF Init, ConnectionsOK, MulticastOK, Running
<1> QED BY <1>7, <1>8, <1>9, <1>10 DEF TInv, t

\* TInv holds in every reachable state.
THEOREM TablesInvariance == Spec => []TInv
<1>1. TInv /\ IInv /\ [Next]_vars => TInv'
  BY NextKeepsTInv
<1>2. Init => TInv
  BY InitTInv
<1> QED BY <1>1, <1>2, Invariance, PTL DEF Spec

\* A query for the URI of a peer finds the face that the peer's channel keeps, if anything.
LEMMA QueryFindsOne ==
  ASSUME TInv, NEW peer \in Peers, KindOf(peer) \in {"udp", "tcp"}
  PROVE  Cardinality(QueryFaces([remoteUri |-> Key(peer), uriScheme |-> Scheme(peer)])) <= 1
<1> DEFINE filter == [remoteUri |-> Key(peer), uriScheme |-> Scheme(peer)]
           found == {id \in DOMAIN tables.faces : MatchFilter(filter, id)}
           answer == QueryFaces(filter)
<1>1. \A id \in found : tables.mapped[Key(peer)] = id
  <2> SUFFICES ASSUME NEW id \in DOMAIN tables.faces, MatchFilter(filter, id)
               PROVE  tables.mapped[Key(peer)] = id
    OBVIOUS
  <2> DEFINE face == tables.faces[id]
  <2>1. FaceProperties(id).remoteUri = <<face.kind, face.peer>>
    BY DEF FaceProperties
  <2>2. "remoteUri" \in DOMAIN filter /\ filter["remoteUri"] = Key(peer)
    OBVIOUS
  <2>3. FaceProperties(id)["remoteUri"] = Key(peer)
    BY <2>2 DEF MatchFilter
  <2>4. <<face.kind, face.peer>> = <<KindOf(peer), peer>>
    BY <2>1, <2>3 DEF Key
  <2>5. face.kind = KindOf(peer) /\ face.peer = peer
    BY <2>4
  <2> QED BY <2>5 DEF TInv, TablesOK, IsKept, IsOverIp
<1>2. answer = {CollectFaceStatus(id) : id \in found}
  BY DEF QueryFaces
<1> HIDE DEF found, answer, filter
<1>3. answer = {} \/ \E x : answer = {x}
  <2>1. CASE found = {}
    BY <1>2, <2>1
  <2>2. CASE found # {}
    <3>1. found = {tables.mapped[Key(peer)]}
      BY <1>1, <2>2
    <3>2. answer = {CollectFaceStatus(tables.mapped[Key(peer)])}
      BY <1>2, <3>1
    <3> QED BY <3>2
  <2> QED BY <2>1, <2>2
<1>4. Cardinality(answer) \in {0, 1}
  BY <1>3, FS_EmptySet, FS_Singleton
<1> QED BY <1>4 DEF answer, filter

\* Whatever refers to a face refers to one in the table, and what a reader of the
\* notifications knows are the faces there are: however faces are made, used again,
\* closed and lost, by commands, peers, reloads and errors in any order.
THEOREM NoReferenceOutlivesItsFace == Spec => []NothingOutlivesItsFace
<1>1. TInv => NothingOutlivesItsFace
  <2> SUFFICES ASSUME TInv PROVE NothingOutlivesItsFace
    OBVIOUS
  <2>1. {status.properties.faceId : status \in ListFaces} = DOMAIN tables.faces
    <3>1. \A id : CollectFaceStatus(id).properties.faceId = id
      BY DEF CollectFaceStatus, FaceProperties
    <3> QED BY <3>1 DEF ListFaces
  <2>2. tables.announced = {status.properties.faceId : status \in ListFaces} \ {InternalFace}
    BY <2>1 DEF TInv, TablesOK
  <2> QED BY <2>2, QueryFindsOne DEF TInv, TablesOK, NothingOutlivesItsFace, Get
<1> QED BY <1>1, TablesInvariance, PTL

\* With both multicast sections there, no multicast face stays open on an interface that is
\* down, once the reload that the change of interfaces asked for is done.
THEOREM MulticastFollowsInterfaces == Spec => []FacesFollowInterfaces
<1>1. TInv => FacesFollowInterfaces
  BY DEF TInv, MulticastOK, MulticastKinds, DownIsClosing, FacesFollowInterfaces
<1> QED BY <1>1, TablesInvariance, PTL

\* What a channel could know when it was made, its faces do not lead to.
LEMMA KnownIsProhibited ==
  ASSUME NEW c, IsChannels(c), c = channels, NEW kind, NEW version, <<kind, version>> \in c.made,
         NEW address \in KnownAddresses(kind, version)
  PROVE  <<kind, address>> \in c.prohibited
<1> DEFINE interfaces == {known[3] : known \in {k \in channels.known : k[1] = kind /\ k[2] = version}}
<1>1. \A nic \in interfaces : Refuses(c.prohibited, kind, version, nic)
  BY DEF IsChannels
<1>2. \/ address \in {<<nic, version>> : nic \in interfaces}
      \/ /\ kind = "udp" /\ version = "v4"
         /\ address \in {<<nic, Broadcast>> : nic \in interfaces} \/ address = Broadcast
  BY DEF KnownAddresses
<1> HIDE DEF interfaces
<1> QED BY <1>1, <1>2 DEF Refuses, IsChannels

\* A lasting face leads to a peer the channels can reach, and to no address of this host that
\* its channel could know when it was made, for every set of peers, interfaces and files. Of
\* an address that comes later nothing is said.
THEOREM NoLastingFaceToKnownAddress == Spec => []NoFaceToKnownAddress
<1>1. TInv => NoFaceToKnownAddress
  <2> SUFFICES ASSUME TInv, NEW id \in DOMAIN tables.faces, IsLasting(tables.faces[id])
               PROVE  LET face == tables.faces[id] IN
                      /\ <<face.kind, VersionOf(face.peer)>> \in ListChannels
                      /\ AddressOf(face.peer) \notin KnownAddresses(face.kind, VersionOf(face.peer))
    BY DEF NoFaceToKnownAddress, IsLasting, IsOverIp
  <2> DEFINE peer == tables.faces[id].peer
  <2>1. Sure(channels, factories, peer) /\ KindOf(peer) = tables.faces[id].kind
    BY DEF TInv, FacesAreSure, TablesOK, IsKept, IsLasting
  <2> HIDE DEF peer
  <2>2. <<KindOf(peer), VersionOf(peer)>> \in ListChannels
    BY <2>1 DEF Sure, ListChannels
  <2>3. AddressOf(peer) \notin KnownAddresses(KindOf(peer), VersionOf(peer))
    BY <2>1, KnownIsProhibited DEF TInv, Sure, IsProhibited
  <2> QED BY <2>1, <2>2, <2>3 DEF peer
<1> QED BY <1>1, TablesInvariance, PTL

===============================================================================
