------------------------------- MODULE FaceTable -------------------------------
(***************************************************************************)
(* The face table, the channels' maps of faces, and what the signals of a  *)
(* face do to both (fw/face-table, face/channel). A step of the daemon may *)
(* do several of these operations one after another, so each takes and     *)
(* returns the tables, a record:                                           *)
(*   faces      the face of each FaceId                                    *)
(*   lastId     m_lastFaceId                                               *)
(*   mapped     m_channelFaces and m_multicastFaces: the FaceId of the     *)
(*              face kept under a key, a peer or an interface              *)
(*   nextHops   the FIB, as pairs of a prefix and a FaceId                 *)
(*   announced  the faces created and not destroyed, as a reader of the    *)
(*              notification stream knows them                             *)
(* A face is named by its FaceId: every face is put into the table in the  *)
(* step that makes it.                                                     *)
(***************************************************************************)
EXTENDS Integers, FiniteSets, Functions

CONSTANTS
  InternalFace,  \* FACEID_INTERNAL_FACE
  ContentStoreFace, NullFace,  \* FACEID_CONTENT_STORE and FACEID_NULL, of faces that drop everything
  ReservedMax    \* FACEID_RESERVED_MAX

ASSUME FaceTableAssumption ==
  /\ ReservedMax \in Nat /\ {InternalFace, ContentStoreFace, NullFace} \subseteq 1 .. ReservedMax
  /\ InternalFace \notin {ContentStoreFace, NullFace} /\ ContentStoreFace # NullFace

\* the kinds of transport a peer may have: those of the factories that make channels
IsUnicast(kind) == kind \in {"udp", "tcp", "unix", "websocket"}

\* A face: what it is for (the kind of transport and the peer or interface), its state,
\* its persistency, whether its scope is local, and allowLocalFields of its link service
NewFace(kind, peer, persistency, isLocal, localFields) ==
  [kind |-> kind, peer |-> peer, state |-> "UP", persistency |-> persistency,
   isLocal |-> isLocal, localFields |-> localFields]

Get(t, id) == id \in DOMAIN t.faces

Put(f, x, y) == [z \in DOMAIN f \cup {x} |-> IF z = x THEN y ELSE f[z]]

\* What the face manager does on the signals afterAdd and beforeRemove
NotifyAddFace(t, id) == [t EXCEPT !.announced = @ \cup {id}]
NotifyRemoveFace(t, id) == [t EXCEPT !.announced = @ \ {id}]

AddImpl(t, face, id) == NotifyAddFace([t EXCEPT !.faces = Put(@, id, face)], id)

\* add, of a face that is not in the table
Add(t, face) == AddImpl([t EXCEPT !.lastId = @ + 1], face, t.lastId + 1)

\* remove: on beforeRemove the forwarder cleans up, too
Remove(t, id) ==
  [NotifyRemoveFace(t, id) EXCEPT !.faces = Restrict(@, DOMAIN @ \ {id}),
                                  !.nextHops = {hop \in @ : hop[2] # id}]

\* the handler a channel or factory connects to the signal that the face is closed
EraseMapped(t, id) ==
  [t EXCEPT !.mapped = Restrict(@, {key \in DOMAIN @ : t.mapped[key] # id})]

\* the transport of a face becomes CLOSED: the channel's handler was connected first
Closed(t, id) == Remove(EraseMapped(t, id), id)

\* Face::close, or an error the transport does not survive: transports without handlers of
\* their own are CLOSED at once, others when a handler they post runs. CLOSING is also for
\* FAILED.
ClosesAtOnce(kind) == kind \in {"internal", "websocket"}

Close(t, id) ==
  IF t.faces[id].state # "UP" THEN t
  ELSE IF ClosesAtOnce(t.faces[id].kind) THEN Closed(t, id)
  ELSE [t EXCEPT !.faces[id].state = "CLOSING"]

\* a new face, kept under a key by its channel or factory
AddMapped(t, key, face) ==
  Add([t EXCEPT !.mapped = Put(@, key, t.lastId + 1)], face)

===============================================================================
