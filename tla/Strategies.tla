----------------------------- MODULE Strategies -----------------------------
(***************************************************************************)
(* The forwarding strategies whose whole state is the PIT entry:           *)
(* best-route (BestRouteStrategy), client-control, multicast and           *)
(* best-route/v4 (BestRouteStrategy2 with RetxSuppressionExponential).     *)
(*                                                                         *)
(* A trigger ends in calls of sendInterest, sendNack and                   *)
(* rejectPendingInterest; here it returns the set of the decisions it may  *)
(* take, each the record                                                   *)
(*    targets  the faces sendInterest is called with                       *)
(*    nackTo   the faces sendNack is called with, and the reason           *)
(*    reject   whether rejectPendingInterest is called in the end          *)
(*    retx     the new suppression interval                                *)
(* hops is the list of next hops the FIB lookup found, a partial function  *)
(* from faces to costs; next hops of equal cost may be in any order.       *)
(***************************************************************************)
EXTENDS PitEntry

StrategyNames == {"best-route", "client-control", "multicast", "best-route-v4"}

Decision ==
  [targets : SUBSET Faces, nackTo : SUBSET Faces,
   reason : NackReasons \cup {NONE, NO_ROUTE}, reject : BOOLEAN,
   retx : RetxInitial .. RetxMax]

Wait(e) ==
  [targets |-> {}, nackTo |-> {}, reason |-> NONE, reject |-> FALSE, retx |-> e.retx]
SendTo(e, T) == [Wait(e) EXCEPT !.targets = T]
Reject(e) == [Wait(e) EXCEPT !.reject = TRUE]

LowestCost(hops, S) == {f \in S : \A g \in S : hops[f] <= hops[g]}

-----------------------------------------------------------------------------
(* BestRouteStrategy and MulticastStrategy: every next hop that            *)
(* canForwardToLegacy allows, one of lowest cost or all of them            *)

UsableHops(e, n, hops, now) ==
  {f \in DOMAIN hops : CanForwardToLegacy(e, n, f, now)}

BestRouteAfterInterest(e, n, hops, now) ==
  LET usable == UsableHops(e, n, hops, now)
  IN  IF HasPendingOutRecords(e, now) THEN {Wait(e)}
      ELSE IF usable = {} THEN {Reject(e)}
      ELSE {SendTo(e, {f}) : f \in LowestCost(hops, usable)}

\* The Interest is rejected unless it is pending after it was forwarded, which
\* is what onInterestReject looks at again.
MulticastAfterInterest(e, n, hops, now) ==
  {[SendTo(e, UsableHops(e, n, hops, now)) EXCEPT !.reject = TRUE]}

-----------------------------------------------------------------------------
(* RetxSuppressionExponential and BestRouteStrategy2                       *)

\* RetxSuppression::getLastOutgoing: its assertion wants an out-record
SinceLastOutgoing(e, now) ==
  now - (CHOOSE t \in {e.outs[f].renewed : f \in DOMAIN e.outs} :
           \A f \in DOMAIN e.outs : e.outs[f].renewed <= t)

\* RetxSuppressionExponential::decide
RetxSuppression(e, now) ==
  IF ~HasPendingOutRecords(e, now) THEN "NEW"
  ELSE IF SinceLastOutgoing(e, now) < e.retx THEN "SUPPRESS"
  ELSE "FORWARD"

\* mutant of BackOff: without a maximum
BackOffForever(e) == [e EXCEPT !.retx = 2 * e.retx]

BackOff(e) ==
  [e EXCEPT !.retx = IF 2 * e.retx <= RetxMax THEN 2 * e.retx ELSE RetxMax]

\* predicate_NextHop_eligible, without and with wantUnused
EligibleHops(e, n, hops, downstream) ==
  {f \in DOMAIN hops \ {downstream} : ~ViolatesScope(e, n, f)}
UnusedHops(e, n, hops, downstream, now) ==
  {f \in EligibleHops(e, n, hops, downstream) :
     ~(f \in DOMAIN e.outs /\ e.outs[f].expiry > now)}

\* findEligibleNextHopWithEarliestOutRecord; that each has an out-record is
\* asserted there
EarliestUsed(e, S) ==
  {f \in S : \A g \in S : e.outs[f].renewed <= e.outs[g].renewed}

BestRoute2AfterNew(e, n, hops, inFace) ==
  LET eligible == EligibleHops(e, n, hops, inFace)
  IN  IF eligible = {}
      THEN {[Reject(e) EXCEPT !.nackTo = {inFace}, !.reason = NO_ROUTE]}
      ELSE {SendTo(e, {f}) : f \in LowestCost(hops, eligible)}

BestRoute2AfterRetx(e, n, hops, inFace, now) ==
  LET eligible == EligibleHops(e, n, hops, inFace)
      unused == UnusedHops(e, n, hops, inFace, now)
  IN  IF unused # {} THEN {SendTo(e, {f}) : f \in LowestCost(hops, unused)}
      ELSE IF eligible # {} THEN {SendTo(e, {f}) : f \in EarliestUsed(e, eligible)}
      ELSE {Wait(e)}

BestRoute2AfterInterest(e, n, hops, inFace, now) ==
  CASE RetxSuppression(e, now) = "SUPPRESS" -> {Wait(e)}
    [] RetxSuppression(e, now) = "NEW" -> BestRoute2AfterNew(e, n, hops, inFace)
    [] OTHER -> BestRoute2AfterRetx(BackOff(e), n, hops, inFace, now)

\* compareLessSevere over all recorded Nacks
LeastSevere(reasons) ==
  IF reasons \subseteq {NONE} THEN NONE
  ELSE CHOOSE r \in reasons \ {NONE} : \A s \in reasons \ {NONE} : r <= s

\* mutant of BestRoute2AfterNack: off by one, it never sees the last Nack
BestRoute2AfterLastButOneNack(e) ==
  LET waiting == {f \in DOMAIN e.outs : e.outs[f].nack = NoNack}
      reason == LeastSevere({e.outs[f].nack : f \in DOMAIN e.outs \ waiting})
  IN  {[Wait(e) EXCEPT !.nackTo = IF Cardinality(waiting) = 1 THEN DOMAIN e.ins ELSE {},
                       !.reason = reason]}

BestRoute2AfterNack(e) ==
  LET waiting == {f \in DOMAIN e.outs : e.outs[f].nack = NoNack}
      reason == LeastSevere({e.outs[f].nack : f \in DOMAIN e.outs \ waiting})
      downstreams == IF waiting = {} THEN DOMAIN e.ins
                     ELSE IF Cardinality(waiting) = 1 THEN waiting \cap DOMAIN e.ins
                     ELSE {}
  IN  {[Wait(e) EXCEPT !.nackTo = downstreams, !.reason = reason]}

-----------------------------------------------------------------------------
(* Forwarder::dispatchToStrategy for the two triggers that may act         *)

AfterReceiveInterest(s, e, n, hops, inFace, now) ==
  CASE s \in {"best-route", "client-control"} -> BestRouteAfterInterest(e, n, hops, now)
    [] s = "multicast" -> MulticastAfterInterest(e, n, hops, now)
    [] s = "best-route-v4" -> BestRoute2AfterInterest(e, n, hops, inFace, now)

AfterReceiveNack(s, e) ==
  IF s = "best-route-v4" THEN BestRoute2AfterNack(e) ELSE {Wait(e)}

=============================================================================
