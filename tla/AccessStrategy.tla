---------------------------- MODULE AccessStrategy ----------------------------
(***************************************************************************)
(* AccessStrategy (fw/access-strategy): an Interest goes to the last       *)
(* working next hop of its prefix, remembered in a Measurements entry, and *)
(* to all others when that one does not answer before the RTO timer.       *)
(*                                                                         *)
(* Its item in a Measurements entry is the last next hop, its item in a    *)
(* PIT entry the RTO timer: pending for the faces of the Interest that set *)
(* it, or not pending.                                                     *)
(***************************************************************************)
EXTENDS StrategyTables

NoTimer == [pending |-> FALSE, inFace |-> NoFace, outFace |-> NoFace]

\* findPrefixMeasurements: the assertion that the entry found has an item of this
\* strategy is not there in a release build; then the prefix counts as unknown.
LastNexthop(t, name) ==
  LET found == LongestMatch(DOMAIN t.measured, PitNode(t, name))
  IN  IF FindsMeasured(t, "access", PitNode(t, name)) /\ HasInfo(t, "access", found)
      THEN t.measured[found]["access"]
      ELSE NoFace

MeasuredWithoutInfo(t, name) ==
  /\ FindsMeasured(t, "access", PitNode(t, name))
  /\ ~HasInfo(t, "access", LongestMatch(DOMAIN t.measured, PitNode(t, name)))

Multicast(t, name, except) == SendToAll(t, name, NextHops(t, name) \ except)

CanSendToLast(t, name, inFace, last) ==
  /\ last # inFace
  /\ last \in t.faces
  /\ last \in NextHops(t, name)

AccessNewInterest(t, name, inFace) ==
  LET last == LastNexthop(t, name)
  IN  IF CanSendToLast(t, name, inFace, last)
      THEN SetPitInfo(SendInterest(t, name, last), "access", name,
                      [pending |-> TRUE, inFace |-> inFace, outFace |-> last])
      ELSE Multicast(t, name, {inFace})

\* RetxSuppressionFixed: an Interest is new when no out-record is pending; otherwise
\* the time since the last one was sent decides whether it is suppressed.
RetxSuppressionFixed(t, name) ==
  IF HasPendingOutRecords(t.pit[name]) THEN {"suppress", "forward"} ELSE {"new"}

AccessAfterInterest(t, name, inFace) ==
  {CASE decision = "new" -> AccessNewInterest(t, name, inFace)
     [] decision = "forward" -> Multicast(t, name, {inFace})
     [] decision = "suppress" -> t : decision \in RetxSuppressionFixed(t, name)}

RtoIsPending(t, name) ==
  /\ "access" \in DOMAIN t.pit[name].info
  /\ PitInfo(t, "access", name).pending

AfterRtoTimeout(t, name) ==
  LET timer == PitInfo(t, "access", name)
  IN  Multicast(SetPitInfo(t, "access", name, NoTimer), name, {timer.inFace, timer.outFace})

\* addPrefixMeasurements: the entry of the Data's parent, or that of the Data's name
\* when the parent is not in this strategy; none when the Data's name is not either
AddPrefixMeasurements(t, data) ==
  LET parent == MeasuredParent(t, data)
  IN  IF data # <<>> /\ MayMeasure(parent, "access", Parent(data))
      THEN [tables |-> parent, at |-> {Parent(data)}]
      ELSE [tables |-> Measured(parent, data),
            at |-> IF MayMeasure(parent, "access", data) THEN {data} ELSE {}]

\* The face that Data came from is the last working one of the prefix.
UpdateMeasurements(t, data, face) ==
  LET added == AddPrefixMeasurements(t, data)
  IN  IF added.at = {} THEN Fault(added.tables, "no measurements for Data")
      ELSE SetInfo(added.tables, "access", CHOOSE name \in added.at : TRUE, face)

\* Mutant: the timer is left to expire.
LeaveRto(t, name) == t

CancelRto(t, name) ==
  IF RtoIsPending(t, name) THEN SetPitInfo(t, "access", name, NoTimer) ELSE t

AccessBeforeSatisfy(t, name, face, data) ==
  LET cancelled == CancelRto(t, name)
  IN  IF t.pit[name].ins = {} \/ face \notin t.pit[name].outs THEN cancelled
      ELSE UpdateMeasurements(cancelled, data, face)
=============================================================================
