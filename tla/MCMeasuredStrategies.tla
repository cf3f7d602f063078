------------------------- MODULE MCMeasuredStrategies -------------------------
(***************************************************************************)
(* An instance of MeasuredStrategies: Interests for /a/b, and with the     *)
(* implicit digest of a Data, one downstream and two upstreams.            *)
(***************************************************************************)
EXTENDS MeasuredStrategies

CONSTANTS c1, u1, u2

A == <<"a">>
AB == <<"a", "b">>
ABD == <<"a", "b", "d">>

MCNames == {<<>>, A, AB, ABD}
MCPitNames == {AB, ABD}
MCDataNames == {AB}
MCRoutePrefixes == {A, AB}
MCChoicePrefixes == {A, AB, ABD}
MCDownstreams == {c1}
MCUpstreams == {u1, u2}
MCDigests == {"d"}

\* The nodes of the root and of /a share a bucket of the first table, until it is resized;
\* those of /a/b and /a/b/d share one until the second resize.
MCComponentHash == [c \in {"a", "b", "d"} |-> CASE c = "a" -> 2 [] c = "b" -> 1 [] c = "d" -> 4]

\* The strategies that are not below another one at the start come to be so when the
\* choice is changed.
MCInitialChoices ==
  {(<<>> :> "ncc") @@ (A :> "access"), (<<>> :> "access") @@ (AB :> "asf")}

\* The hashes have three bits.
MCXor(a, b) ==
  LET Bit(unit) == unit * ((a \div unit + b \div unit) % 2)
  IN  Bit(1) + Bit(2) + Bit(4)

MCInitialRoutes == {{<<A, u1>>, <<A, u2>>}}

Versions == INSTANCE StrategyVersions WITH NoStrategy <- <<0>>

\* Two strategies with two versions each, and names that are none
StrategyNames ==
  {<<1>>, <<1, 1>>, <<1, 1, 2>>, <<1, 2>>, <<1, 2, 1>>, <<2>>, <<2, 1>>, <<2, 2>>}

\* A name in a command or in the configuration file stands for the right version.
ASSUME VersionsAssumption ==
  \A installed \in UNION {kSubset(n, StrategyNames) : n \in 0 .. 4}, name \in StrategyNames :
    Versions!StrategyIsRight(installed, name)

\* The upstreams are alike.
MCSymmetry == Permutations(MCUpstreams)
=============================================================================
