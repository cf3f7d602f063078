------------------------------ MODULE LinkService ------------------------------
(***************************************************************************)
(* Link services on a shared medium (face/generic-link-service.cpp with    *)
(* link-service.cpp): senders fragment and number packets, the medium      *)
(* loses, repeats and reorders frames, one receiver reassembles and        *)
(* decodes.                                                                *)
(***************************************************************************)
EXTENDS LpFragmenter, LpReassembler

CONSTANTS
  Senders,
  Messages,     \* network-layer packets, each sent at most once
  SenderOf(_),
  SizeOf(_),    \* in octets
  HeaderOf(_),  \* the size of its other NDNLPv2 headers
  TypeOf(_),    \* "Interest", "Data" or "Nack"
  FieldsOf(_),  \* which of LpFields it has
  Mtu,
  MaxRepeats,   \* bound: frames the medium repeats
  LastArrival,  \* bound: no frame is sent or arrives later
  MaxTime       \* bound on the clock

LpFields == {"NextHopFaceId", "CachePolicy", "IncomingFaceId"}

ASSUME LinkAssumption ==
  /\ \A m \in Messages :
        /\ SenderOf(m) \in Senders /\ SizeOf(m) \in Nat \ {0} /\ HeaderOf(m) \in Nat
        /\ TypeOf(m) \in {"Interest", "Data", "Nack"} /\ FieldsOf(m) \subseteq LpFields
  /\ IsFiniteSet(Messages)
  /\ Mtu \in Nat /\ MaxRepeats \in Nat /\ LastArrival \in Nat /\ MaxTime \in Nat

\* Sequence numbers have 64 bits: they wrap around, but are not used up while fragments
\* that have one are on their way.
ASSUME SequenceAssumption == Cardinality(Messages) * MaxSent < SeqModulus

VARIABLES
  options,   \* allowFragmentation of the senders, allowReassembly and allowLocalFields of the receiver
  unsent,    \* the messages still to be sent
  lastSeq,   \* m_lastSeqNo of each sender
  medium,    \* the frames on their way
  repeats,   \* how many were repeated
  partial,   \* m_partialPackets
  received,  \* what was handed to the forwarder: sequences of fragments, in a set
  now,
  arrived,   \* history: fragments of each message the medium delivered
  lastNew,   \* history: when a fragment was last stored, for each key
  expired    \* history: the keys whose timer dropped a partial packet

vars == <<options, unsent, lastSeq, medium, repeats, partial, received, now,
          arrived, lastNew, expired>>
history == <<arrived, lastNew, expired>>

Init ==
  /\ options \in [fragmentation : BOOLEAN, reassembly : BOOLEAN, localFields : BOOLEAN]
  /\ unsent = Messages
  /\ lastSeq = [s \in Senders |-> (-2) % SeqModulus]
  /\ medium = {} /\ repeats = 0
  /\ partial = <<>> /\ received = {}
  /\ now = 0
  /\ arrived = [m \in Messages |-> {}]
  /\ lastNew = <<>> /\ expired = {}

Frame(m, seq, index, count, begin, end) ==
  [from |-> SenderOf(m), seq |-> seq, index |-> index, count |-> count,
   msg |-> m, begin |-> begin, end |-> end]

\* sendNetPacket: the frames of a message, or none when it cannot be sent. A sequence
\* number is assigned only when there are several.
NotFragmented(m) ==
  IF HeaderOf(m) + SizeOf(m) > Mtu THEN {} ELSE {Frame(m, 0, 0, 1, 0, SizeOf(m))}

Fragmented(m) ==
  LET size == SizeOf(m)  header == HeaderOf(m)
      n == FragCount(size, header, Mtu)
  IN  {Frame(m, (lastSeq[SenderOf(m)] + 1 + i) % SeqModulus, i, n,
             FragBegin(i, size, header, Mtu), FragEnd(i, size, header, Mtu)) : i \in 0 .. n - 1}

FramesOf(m) ==
  IF ~options.fragmentation \/ Fits(SizeOf(m), HeaderOf(m), Mtu) THEN NotFragmented(m)
  ELSE IF CanFragment(SizeOf(m), HeaderOf(m), Mtu) THEN Fragmented(m)
  ELSE {}

SendNetPacket(m) ==
  /\ m \in unsent /\ now <= LastArrival
  /\ unsent' = unsent \ {m}
  /\ medium' = medium \cup FramesOf(m)
  /\ lastSeq' = IF Cardinality(FramesOf(m)) > 1
                THEN [lastSeq EXCEPT ![SenderOf(m)] = (@ + Cardinality(FramesOf(m))) % SeqModulus]
                ELSE lastSeq
  /\ UNCHANGED <<options, repeats, partial, received, now, history>>

-----------------------------------------------------------------------------
(* decodeNetPacket: what becomes of a packet, given its first fragment *)

\* NextHopFaceId belongs on Interests only, CachePolicy on Data only, and both are for
\* faces that allow local fields. IncomingFaceId is ignored.
Accepted(frag) ==
  LET fields == FieldsOf(frag.msg)
  IN  CASE TypeOf(frag.msg) = "Interest" ->
             /\ "NextHopFaceId" \in fields => options.localFields
             /\ "CachePolicy" \notin fields
        [] TypeOf(frag.msg) = "Data" -> "NextHopFaceId" \notin fields
        [] TypeOf(frag.msg) = "Nack" -> fields \cap {"NextHopFaceId", "CachePolicy"} = {}

\* mutant of HandUp: the fragments are put together from the last one on
HandUpReversed(frags) ==
  received' = IF Accepted(frags[1])
              THEN received \cup {[i \in DOMAIN frags |-> frags[Len(frags) + 1 - i]]} ELSE received

HandUp(frags) ==
  received' = IF Accepted(frags[1]) THEN received \cup {frags} ELSE received

-----------------------------------------------------------------------------
(* receiving *)

\* "received fragment, but reassembly disabled"
Disabled(frag) == ~IsWhole(frag) /\ ~options.reassembly

Stored(frag, pp) == partial' = Put(partial, Key(frag), AddFragment(pp, frag, now))

\* receiveFragment, and decodeNetPacket when a packet is complete
ReceiveFragment(frag) ==
  IF Disabled(frag) \/ Malformed(frag) THEN UNCHANGED <<partial, received, lastNew>>
  ELSE IF IsWhole(frag) THEN HandUp(<<frag>>) /\ UNCHANGED <<partial, lastNew>>
  ELSE LET pp == PartialOf(partial, frag) IN
       IF Refused(pp, frag) THEN UNCHANGED <<partial, received, lastNew>>
       ELSE /\ lastNew' = Put(lastNew, Key(frag), now)
            /\ IF IsComplete(AddFragment(pp, frag, now))
               THEN /\ HandUp(Reassembled(AddFragment(pp, frag, now)))
                    /\ partial' = Restrict(partial, DOMAIN partial \ {Key(frag)})
               ELSE Stored(frag, pp) /\ UNCHANGED received

\* A frame arrives, once or to be repeated. One that stays on the medium is lost.
Arrive(frag) ==
  /\ frag \in medium /\ now <= LastArrival
  /\ \/ medium' = medium \ {frag} /\ UNCHANGED repeats
     \/ repeats < MaxRepeats /\ repeats' = repeats + 1 /\ UNCHANGED medium
  /\ ReceiveFragment(frag)
  /\ arrived' = [arrived EXCEPT ![frag.msg] = @ \cup {frag.index}]
  /\ UNCHANGED <<options, unsent, lastSeq, now, expired>>

\* timeoutPartialPacket
DropTimer(k) ==
  /\ k \in DOMAIN partial /\ partial[k].dropAt <= now
  /\ partial' = Restrict(partial, DOMAIN partial \ {k})
  /\ expired' = expired \cup {k}
  /\ UNCHANGED <<options, unsent, lastSeq, medium, repeats, received, now, arrived, lastNew>>

Tick ==
  /\ now < MaxTime /\ now' = now + 1
  /\ UNCHANGED <<options, unsent, lastSeq, medium, repeats, partial, received, history>>

Next ==
  \/ \E m \in Messages : SendNetPacket(m)
  \/ \E frag \in medium : Arrive(frag)
  \/ \E k \in DOMAIN partial : DropTimer(k)
  \/ Tick

Spec == Init /\ [][Next]_vars

-----------------------------------------------------------------------------
(* Properties *)

TypeOK ==
  /\ unsent \subseteq Messages
  /\ lastSeq \in [Senders -> 0 .. SeqModulus - 1]
  /\ repeats \in 0 .. MaxRepeats /\ now \in 0 .. MaxTime
  /\ \A k \in DOMAIN partial :
        /\ k \in Senders \X (0 .. SeqModulus - 1)
        /\ DOMAIN partial[k].got \subseteq 0 .. partial[k].count - 1
        /\ Cardinality(DOMAIN partial[k].got) \in 1 .. partial[k].count - 1

\* Whatever the medium does, a packet handed to the forwarder is one that was sent: its
\* fragments are all of one message, in order, without a gap, from the first octet to the
\* last (lp-reassembler.cpp doReassembly).
ReceivedWasSent ==
  \A frags \in received :
    LET m == frags[1].msg IN
    /\ \A i \in 1 .. Len(frags) : frags[i].msg = m
    /\ frags[1].begin = 0 /\ frags[Len(frags)].end = SizeOf(m)
    /\ \A i \in 1 .. Len(frags) - 1 : frags[i].end = frags[i + 1].begin

\* A message of which every fragment arrived, none of them after a timeout, is complete:
\* repetition and reordering never keep it back (lp-reassembler.cpp:107).
NothingIsLeftIncomplete ==
  \A k \in DOMAIN partial : \A i \in DOMAIN partial[k].got :
    LET frag == partial[k].got[i]
    IN  arrived[frag.msg] = 0 .. frag.count - 1 =>
          \/ k \in expired \/ ~Accepted(frag)
          \/ \E frags \in received : frags[1].msg = frag.msg

\* The timer drops a partial packet only when no new fragment came for the whole timeout
\* (lp-reassembler.cpp:121).
OnlyIdlePartialsExpire ==
  [][\A k \in DOMAIN partial : DropTimer(k) => now >= lastNew[k] + ReassemblyTimeout]_vars

===============================================================================
