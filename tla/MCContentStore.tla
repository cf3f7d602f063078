--------------------------- MODULE MCContentStore ---------------------------
(* A Content Store for four packets: d1 is stale at once, d2 and d3 after a  *)
(* while and d4 never.  An Interest asks for one of them or for any.         *)
EXTENDS ContentStore, TLC

CONSTANTS d1, d2, d3, d4, any

OneOrAny == [p \in Prefixes |-> IF p = any THEN Packets ELSE {p}]

\* Lookups among Data /1 (twice), /1/1, /1/2/1, /1/2/2 and /2, for names and full names
Lookup == INSTANCE CsLookup

LookupData ==
  {[name |-> <<1>>, digest |-> -8], [name |-> <<1>>, digest |-> -6], [name |-> <<1, 1>>, digest |-> -4],
   [name |-> <<1, 2, 1>>, digest |-> -4], [name |-> <<1, 2, 2>>, digest |-> -8], [name |-> <<2>>, digest |-> -8]}
LookupNames == {<<>>, <<1>>, <<2>>, <<1, 1>>, <<1, 2>>, <<1, 2, 1>>, <<1, -8>>, <<1, -6>>, <<1, -4>>}

\* Cs::find finds the leftmost and the rightmost match.
ASSUME LookupAssumption ==
  \A data \in SUBSET LookupData : \A admitted \in SUBSET data :
    \A name \in LookupNames, rightmost \in BOOLEAN :
      Lookup!FindsWanted(data, [name |-> name, rightmost |-> rightmost, admitted |-> admitted])

Periods == d1 :> 0 @@ d2 :> 1 @@ d3 :> 2 @@ d4 :> Forever

=============================================================================
