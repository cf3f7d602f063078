----------------------------- MODULE LpFragmenter -----------------------------
(***************************************************************************)
(* How a network-layer packet is cut to fit the MTU (face/lp-fragmenter).  *)
(* A packet is its size and the size of its other NDNLPv2 headers, which   *)
(* go with the first fragment; a fragment is the range of octets it takes. *)
(***************************************************************************)
EXTENDS Integers, FiniteSets

CONSTANTS
  SingleFragOverhead,  \* MAX_SINGLE_FRAG_OVERHEAD
  FragOverhead,        \* MAX_FRAG_OVERHEAD
  MaxSent              \* Options::nMaxFragments of the fragmenter

ASSUME FragmenterAssumption ==
  /\ SingleFragOverhead \in Nat /\ FragOverhead \in Nat
  /\ MaxSent \in Nat \ {0}

Lesser(x, y) == IF x < y THEN x ELSE y

\* fast path
Fits(size, header, mtu) == SingleFragOverhead + header + size <= mtu

\* "MTU too small for first fragment"
TooSmall(header, mtu) == FragOverhead + header + 1 > mtu

FirstPayload(size, header, mtu) == Lesser(size, mtu - header - FragOverhead)
Payload(mtu) == mtu - FragOverhead

FragCount(size, header, mtu) ==
  LET rest == size - FirstPayload(size, header, mtu)
  IN  1 + rest \div Payload(mtu) + IF rest % Payload(mtu) # 0 THEN 1 ELSE 0

\* Where fragment i begins and the octet after its end, as the loop advances
FragBegin(i, size, header, mtu) ==
  IF i = 0 THEN 0 ELSE FirstPayload(size, header, mtu) + (i - 1) * Payload(mtu)
FragEnd(i, size, header, mtu) == Lesser(size, FragBegin(i + 1, size, header, mtu))

CanFragment(size, header, mtu) ==
  ~TooSmall(header, mtu) /\ FragCount(size, header, mtu) <= MaxSent

\* What the rest of the link service relies on: the fragments fit, none is empty, and the
\* loop reaches the end of the packet with the last fragment and not before.
FragmentsAreRight(size, header, mtu) ==
  LET n == FragCount(size, header, mtu) IN
  /\ n >= 1
  /\ \A i \in 0 .. n - 1 :
        LET payload == FragEnd(i, size, header, mtu) - FragBegin(i, size, header, mtu) IN
        /\ payload > 0
        /\ FragOverhead + payload + (IF i = 0 THEN header ELSE 0) <= mtu
  /\ FragEnd(n - 1, size, header, mtu) = size

===============================================================================
