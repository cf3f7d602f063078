------------------------------ MODULE NccStrategy ------------------------------
(***************************************************************************)
(* NccStrategy (fw/ncc-strategy): an Interest goes to the best face of its *)
(* name; a timer propagates it to one other next hop after another until   *)
(* Data comes.                                                             *)
(*                                                                         *)
(* Its item in a Measurements entry is the best face and the one before it,*)
(* which are weak pointers; the prediction is a duration and is left out.  *)
(* Its item in a PIT entry is the pair of timers.  A timer that is         *)
(* overwritten in the item is not cancelled: it stays scheduled, with      *)
(* nothing that knows it.  Of the timers lost in this way only those of    *)
(* propagation are kept: one for the best face does when it expires what   *)
(* the next one does again, raise the prediction and measure the levels.   *)
(***************************************************************************)
EXTENDS StrategyTables

NewFaces == [best |-> NoFace, previous |-> NoFace]

NoTimers == [propagate |-> FALSE, bestFace |-> FALSE]

\* getMeasurementsEntryInfo of an entry that is measured: a new item inherits from
\* the parent's, which is made in its turn, as far as the namespace goes.
WithFaces(t, name) ==
  LET withFaces[len \in 0..Len(name)] ==
        LET at == Prefix(name, len)
            above == Prefix(name, len - 1)
            inherits == len # 0 /\ MayMeasure(t, "ncc", above)
            filled == IF inherits THEN withFaces[len - 1] ELSE MeasuredParent(t, at)
        IN  IF at \in DOMAIN t.measured /\ HasInfo(t, "ncc", at) THEN t
            ELSE SetInfo(Measured(filled, at), "ncc", at,
                         IF inherits THEN filled.measured[above]["ncc"] ELSE NewFaces)
  IN  withFaces[Len(name)]

MeasuredFaces(t, name) == WithFaces(MeasuredForPit(t, name), name)

LivingBest(t, faces) == IF faces.best \in t.faces THEN faces.best ELSE faces.previous

IsEligible(t, name, face) ==
  /\ face \in t.faces
  /\ face \in NextHops(t, name)
  /\ CanForwardToLegacy(t.pit[name], face)

\* The first eligible next hop, whichever that is
ToFirstEligible(t, name) ==
  LET eligible == {face \in NextHops(t, name) : IsEligible(t, name, face)}
  IN  IF eligible = {} THEN {t} ELSE {SendInterest(t, name, face) : face \in eligible}

\* A propagation timer is set over the one that is in the item.
SetPropagateTimer(t, name) ==
  LET lost == IF PitInfo(t, "ncc", name).propagate THEN 1 ELSE 0
  IN  [t EXCEPT !.pit[name].info["ncc"].propagate = TRUE, !.pit[name].lostTimers = @ + lost]

ToBestFace(t, name, best) ==
  [SendInterest(t, name, best) EXCEPT !.pit[name].info["ncc"].bestFace = TRUE]

NccAfterInterest(t, name, inFace) ==
  LET noted == IF "ncc" \in DOMAIN t.pit[name].info THEN t
               ELSE SetPitInfo(t, "ncc", name, NoTimers)
      measured == MeasuredFaces(noted, name)
      best == LivingBest(measured, measured.measured[name]["ncc"])
      known == [measured EXCEPT !.measured[name]["ncc"].best = best]
      sent == IF IsEligible(known, name, best) THEN {ToBestFace(known, name, best)}
              ELSE ToFirstEligible(known, name)
  IN  IF NextHops(t, name) = {} THEN {t}
      ELSE IF HasPendingOutRecords(t.pit[name]) THEN {noted}
      ELSE {SetPropagateTimer(u, name) : u \in sent}

\* doPropagate: to the previous best face, and to the first next hop that is left
PropagateFurther(t, name) ==
  LET measured == MeasuredFaces(t, name)
      previous == measured.measured[name]["ncc"].previous
      first == IF IsEligible(measured, name, previous)
               THEN SendInterest(measured, name, previous) ELSE measured
      second == ToFirstEligible(first, name)
  IN  IF second = {first} THEN second ELSE {SetPropagateTimer(u, name) : u \in second}

DoPropagate(t, name) ==
  IF "ncc" \notin DOMAIN t.pit[name].info THEN {Fault(t, "no item of ncc")}
  ELSE IF ~MayMeasure(t, "ncc", name) THEN {Fault(MeasuredForPit(t, name), "not in ncc")}
  ELSE PropagateFurther(t, name)

\* A timer that expires is no longer pending.
PropagateTimerExpires(t, name) ==
  DoPropagate([t EXCEPT !.pit[name].info["ncc"].propagate = FALSE], name)

LostTimerExpires(t, name) == DoPropagate([t EXCEPT !.pit[name].lostTimers = @ - 1], name)

UpdateBestFace(t, faces, face) ==
  IF face = NoFace \/ (faces.best = face /\ face \in t.faces) THEN faces
  ELSE IF faces.best \notin t.faces THEN [faces EXCEPT !.best = face]
  ELSE [best |-> face, previous |-> faces.best]

\* timeoutOnBestFace and beforeSatisfyInterest both visit the entry of the name and
\* those above it, for some levels and as far as the namespace goes.  An entry that is
\* measured for this is made even where the visit ends.
VisitLevel(t, name, face) ==
  LET known == WithFaces(t, name)
      updated == [known EXCEPT !.measured[name]["ncc"] = UpdateBestFace(t, @, face)]
  IN  IF MayMeasure(t, "ncc", name) THEN MeasuredParent(updated, name) ELSE t

\* UPDATE_MEASUREMENTS_N_LEVELS is 2.
VisitLevels(t, name, face) ==
  LET visited == VisitLevel(t, name, face)
  IN  IF name # <<>> /\ MayMeasure(t, "ncc", name)
      THEN VisitLevel(visited, Parent(name), face) ELSE visited

TimeoutOnBestFace(t, name) ==
  VisitLevels(MeasuredForPit([t EXCEPT !.pit[name].info["ncc"].bestFace = FALSE], name),
              name, NoFace)

CancelTimers(t, name, face) ==
  LET isBest == t.measured[name]["ncc"].best = face
  IN  IF "ncc" \notin DOMAIN t.pit[name].info THEN t
      ELSE [t EXCEPT !.pit[name].info["ncc"] =
              [propagate |-> FALSE, bestFace |-> @.bestFace /\ ~isBest]]

\* The timers are not cancelled when the visit leaves the namespace: it returns.
NccBeforeSatisfy(t, name, face) ==
  LET updated == VisitLevels(MeasuredForPit(t, name), name, face)
      isVisited == name # <<>> /\ MayMeasure(t, "ncc", name) /\ MayMeasure(t, "ncc", Parent(name))
  IN  IF t.pit[name].ins = {} THEN t
      ELSE IF isVisited THEN CancelTimers(updated, name, face)
      ELSE updated
=============================================================================
