---------------------------- MODULE ForwardingHints ----------------------------
(***************************************************************************)
(* Strategy::lookupFib for Interests with a Link (fw/strategy.cpp,         *)
(* table/network-region-table.cpp): the delegations of the Link tell where *)
(* an Interest can be sent that has no route of its own. The FIB is the    *)
(* set of prefixes with next hops. An Interest is its name, the            *)
(* delegations of its Link in their order, and the one that was selected.  *)
(***************************************************************************)
EXTENDS Naturals, SequencesExt

CONSTANTS
  NotSelected,  \* no SelectedDelegation
  NoRoute       \* s_emptyEntry, of the root prefix and without next hops

HasLink(interest) == interest.delegations # <<>>

\* Fib::findLongestPrefixMatch
LongestPrefixMatch(fib, name) ==
  LET matches == {p \in fib : IsPrefix(p, name)}
  IN  IF matches = {} THEN NoRoute ELSE CHOOSE p \in matches : \A q \in matches : Len(q) <= Len(p)

\* NetworkRegionTable::isInProducerRegion
InProducerRegion(regions, interest) ==
  \E region \in regions : \E d \in Range(interest.delegations) : IsPrefix(d, region)

\* The default route leads out of the consumer's region.
InDefaultFreeZone(fib, interest) ==
  LongestPrefixMatch(fib, interest.delegations[1]) # <<>>

\* "choose and set SelectedDelegation": the first that has a route; all without one fail an assertion
RoutedDelegations(fib, interest) ==
  SelectSeq(interest.delegations, LAMBDA d : LongestPrefixMatch(fib, d) # NoRoute)

SelectDelegation(fib, interest) ==
  LET routed == RoutedDelegations(fib, interest)
  IN  IF routed = <<>> THEN [entry |-> NoRoute, interest |-> interest, asserts |-> TRUE]
      ELSE [entry |-> LongestPrefixMatch(fib, routed[1]),
            interest |-> [interest EXCEPT !.selected = routed[1]], asserts |-> FALSE]

\* lookupFib: the entry found, the Interest afterwards, and whether BOOST_ASSERT(false) is reached
LookupFib(fib, regions, interest) ==
  LET Found(name) ==
        [entry |-> LongestPrefixMatch(fib, name), interest |-> interest, asserts |-> FALSE]
  IN  IF ~HasLink(interest) \/ InProducerRegion(regions, interest) THEN Found(interest.name)
      ELSE IF interest.selected # NotSelected THEN Found(interest.selected)
      ELSE IF ~InDefaultFreeZone(fib, interest) THEN Found(interest.delegations[1])
      ELSE SelectDelegation(fib, interest)

-----------------------------------------------------------------------------

\* What the branches come to together: a delegation is selected once and its own route is used,
\* not the default one; the next lookup, of a retransmission, finds the same entry; an Interest
\* that any delegation could carry is not without a route, unless the producer is near; and only
\* a Link without any route reaches the assertion.
HintsAreRight(fib, regions, interest) ==
  LET found == LookupFib(fib, regions, interest)
      hinted == HasLink(interest) /\ ~InProducerRegion(regions, interest)
      chosen == found.interest.selected # interest.selected
  IN  /\ chosen => /\ interest.selected = NotSelected /\ found.entry \notin {NoRoute, <<>>}
                   /\ IsPrefix(found.entry, found.interest.selected)
      /\ LookupFib(fib, regions, found.interest) = found
      /\ hinted /\ interest.selected = NotSelected /\ RoutedDelegations(fib, interest) # <<>> =>
           found.entry # NoRoute
      /\ found.asserts <=> /\ hinted /\ interest.selected = NotSelected
                           /\ RoutedDelegations(fib, interest) = <<>>

===============================================================================
