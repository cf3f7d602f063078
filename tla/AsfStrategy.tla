------------------------------ MODULE AsfStrategy ------------------------------
(***************************************************************************)
(* AsfStrategy with its measurements and its probing module                *)
(* (fw/asf-strategy, fw/asf-measurements, fw/asf-probing-module): an       *)
(* Interest goes to the next hop with the lowest round-trip time, and from *)
(* time to time to another one, as a probe.                                *)
(*                                                                         *)
(* Its item in a Measurements entry is a NamespaceInfo: what is known of   *)
(* each face, whether a probe is due, whether the first was scheduled.  Of *)
(* a round-trip time only its kind is kept: none yet, a timeout, measured. *)
(* A face has at most one timeout scheduled, for the name of one Interest: *)
(*   last    m_lastInterestName while m_isTimeoutScheduled, or "none"      *)
(*   timer   the name onTimeout is called with when the event expires, or  *)
(*           "none" when no event is scheduled                             *)
(*   smooth  m_srtt is a measurement                                       *)
(*   expires the event of expireFaceInfo is scheduled                      *)
(***************************************************************************)
EXTENDS StrategyTables

\* TLC compares names, which are sequences, with None too, so None is one.
None == <<"none">>

NewNamespace == [faces |-> NoInfo, due |-> FALSE, first |-> FALSE]

NewFaceInfo == [rtt |-> "none", smooth |-> FALSE, last |-> None, timer |-> None,
                expires |-> FALSE]

\* insertStrategyInfo<NamespaceInfo>
WithNamespace(t, name) ==
  IF HasInfo(t, "asf", name) THEN t ELSE SetInfo(t, "asf", name, NewNamespace)

Faces(t, at) == t.measured[at]["asf"].faces

\* getOrCreateFaceInfo: a new item expires like one that was used.
FaceInfo(t, at, face) ==
  IF face \in DOMAIN Faces(t, at) THEN Faces(t, at)[face]
  ELSE [NewFaceInfo EXCEPT !.expires = TRUE]

SetFaceInfo(t, at, face, info) ==
  [t EXCEPT !.measured[at]["asf"].faces = Put(@, face, info)]

\* getOrCreateNamespaceInfo: at the FIB entry's prefix, or at the first longer prefix
\* of the Interest's name that is in this strategy's namespace.  An entry is made at
\* each prefix that is tried.
NamespaceAt(t, name) ==
  LET prefix == FibPrefix(t, name)
      own == {len \in Len(prefix)..Len(name) : MayMeasure(t, "asf", Prefix(name, len))}
  IN  Prefix(name, Min(own))

WithNamespaceFor(t, name) ==
  LET at == NamespaceAt(t, name)
      shortest == Len(FibPrefix(t, name))
      tried[n \in 0..(Len(at) - shortest)] ==
        Measured(IF n = 0 THEN t ELSE tried[n - 1], Prefix(name, shortest + n))
  IN  WithNamespace(tried[Len(at) - shortest], at)

\* getBestFaceForForwarding: measured faces are ranked by their times, before those
\* without a measurement, before those that timed out.
Rank(t, at, face) ==
  IF face \notin DOMAIN Faces(t, at) THEN 1
  ELSE CASE Faces(t, at)[face].rtt = "measured" -> 0
         [] Faces(t, at)[face].rtt = "none" -> 1
         [] OTHER -> 2

BestFaces(t, name, inFace) ==
  LET at == NamespaceAt(t, name)
      hops == NextHops(t, name) \ {inFace}
  IN  {face \in hops : \A other \in hops : Rank(t, at, face) <= Rank(t, at, other)}

ForwardInterest(t, name, face) ==
  LET at == NamespaceAt(t, name)
      sent == SendInterest(t, name, face)
      info == [FaceInfo(t, at, face) EXCEPT !.expires = TRUE]
  IN  SetFaceInfo(sent, at, face,
        IF info.last # None THEN info ELSE [info EXCEPT !.last = name, !.timer = name])

\* getFaceBasedOnProbability: of n ranked faces the first has n lots, the second n - 1
\* and so on; the lot that is drawn tells the rank.
DrawnRank(n, lot) == Min({rank \in 1..n : lot <= MapThenSumSet(LAMBDA r : n + 1 - r, 1..rank)})

RankSum(n) == ((n + 1) * n) \div 2

\* getFaceToProbe: a face without a measurement is taken at once, otherwise one is
\* drawn by lot from the faces in the order of their times.
FacesToProbe(t, name, inFace, used) ==
  LET at == NamespaceAt(t, name)
      hops == NextHops(t, name) \ {inFace, used}
      unknown == {face \in hops :
                    face \notin DOMAIN Faces(t, at) \/ ~Faces(t, at)[face].smooth}
      n == Cardinality(hops)
      drawn == {DrawnRank(n, lot) : lot \in 1..RankSum(n)}
  IN  IF unknown # {} THEN unknown
      ELSE UNION {{order[rank] : rank \in drawn} : order \in SetToSeqs(hops)}

\* isProbingNeeded schedules the first probe of a namespace, for the FIB prefix.
ScheduleFirstProbe(t, name) ==
  LET at == NamespaceAt(t, name)
  IN  IF t.measured[at]["asf"].first THEN t
      ELSE [t EXCEPT !.measured[at]["asf"].first = TRUE,
                     !.probes = @ \cup {FibPrefix(t, name)}]

Probe(t, name, face) ==
  LET at == NamespaceAt(t, name)
  IN  [ForwardInterest(t, name, face) EXCEPT
         !.measured[at]["asf"].due = FALSE,
         !.probes = @ \cup {FibPrefix(t, name)}]

ProbeIfNeeded(t, name, inFace, used) ==
  LET first == ScheduleFirstProbe(t, name)
      targets == FacesToProbe(first, name, inFace, used)
  IN  IF ~first.measured[NamespaceAt(t, name)]["asf"].due \/ targets = {} THEN {first}
      ELSE {Probe(first, name, face) : face \in targets}

\* sendNoRouteNack, which deletes the in-record
NoRoute(t, name, inFace) == [t EXCEPT !.pit[name].ins = @ \ {inFace}]

\* A retransmission may be suppressed, by the time that has passed.
AsfAfterInterest(t, name, inFace) ==
  LET known == WithNamespaceFor(t, name)
      suppressed == IF HasPendingOutRecords(t.pit[name]) THEN {t} ELSE {}
  IN  suppressed \cup
      IF NextHops(t, name) = {} THEN {NoRoute(t, name, inFace)}
      ELSE IF NextHops(t, name) = {inFace} THEN {NoRoute(t, name, inFace)}
      ELSE UNION {ProbeIfNeeded(ForwardInterest(known, name, face), name, inFace, face) :
                    face \in BestFaces(known, name, inFace)}

\* Mutant: the mark is taken away, the event stays scheduled.
ForgetTimeout(info, name) ==
  IF info.last # None /\ IsPrefix(info.last, name) THEN [info EXCEPT !.last = None] ELSE info

\* cancelTimeoutEvent(name)
CancelTimeout(info, name) ==
  IF info.last # None /\ IsPrefix(info.last, name)
  THEN [info EXCEPT !.last = None, !.timer = None] ELSE info

RecordRtt(info) == [info EXCEPT !.rtt = "measured", !.smooth = TRUE]

\* getNamespaceInfo: the tables with the item at the longest match, or as they are
Namespace(t, name) ==
  IF FindsMeasured(t, "asf", name)
  THEN WithNamespace(t, LongestMatch(DOMAIN t.measured, name)) ELSE t

\* recordRtt reads the out-record of the face that Data came from, and get() throws
\* when nothing is known of the face.
AsfBeforeSatisfy(t, name, face, data) ==
  LET at == LongestMatch(DOMAIN t.measured, name)
      found == Namespace(t, name)
      measured == [RecordRtt(Faces(found, at)[face]) EXCEPT !.expires = TRUE]
  IN  IF ~FindsMeasured(t, "asf", name) THEN t
      ELSE IF face \notin DOMAIN Faces(found, at) THEN Fault(found, "face not measured")
      ELSE IF face \notin t.pit[name].outs THEN Fault(found, "no out-record")
      ELSE SetFaceInfo(found, at, face, CancelTimeout(measured, data))

RecordTimeout(info, name) == CancelTimeout([info EXCEPT !.rtt = "timeout"], name)

\* onTimeout, for a timer and for a Nack.  It looks the namespace up by the name of
\* the Interest.
OnTimeout(t, name, face) ==
  LET at == LongestMatch(DOMAIN t.measured, name)
      found == Namespace(t, name)
      info == IF face \in DOMAIN Faces(found, at) THEN Faces(found, at)[face] ELSE NewFaceInfo
  IN  IF ~FindsMeasured(t, "asf", name) THEN t
      ELSE SetFaceInfo(found, at, face, RecordTimeout(info, name))

TimeoutExpires(t, at, face) ==
  OnTimeout([t EXCEPT !.measured[at]["asf"].faces[face].timer = None],
            Faces(t, at)[face].timer, face)

\* expireFaceInfo
ExpireFaceInfo(t, at, face) == [t EXCEPT !.measured[at]["asf"].faces = Without(@, face)]

\* The event of scheduleProbe
ProbeFallsDue(t, prefix) ==
  LET at == LongestMatch(DOMAIN t.measured, prefix)
      found == Namespace(t, prefix)
  IN  IF ~FindsMeasured(t, "asf", prefix) THEN t
      ELSE [found EXCEPT !.measured[at]["asf"].due = TRUE]
=============================================================================
