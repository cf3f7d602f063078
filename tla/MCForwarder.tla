----------------------------- MODULE MCForwarder -----------------------------
(* Values for the constants of module Forwarder: a local face a, two other   *)
(* faces b and u, at most two names, and the packets that may arrive.        *)
EXTENDS Forwarder, TLC

CONSTANTS a, b, u, n1, n2, w1, w2, x1, x2, x3

\* n1 alone, or n1 a prefix of n2
Prefixes == [n \in Names |-> {n1, n} \cap Names]

\* u is the best next hop of n1 and b the other; n2 inherits them
RouteToU == [n \in Names |-> IF n = n1 THEN u :> 1 ELSE NoRecords]
RouteToUAndB == [n \in Names |-> IF n = n1 THEN u :> 1 @@ b :> 2 ELSE NoRecords]

Policy == INSTANCE UnsolicitedDataPolicy
AdmitLocal == Policy!Admitted("admit-local")
AdmitNetwork == Policy!Admitted("admit-network")

ByBestRouteV4 == [n \in Names |-> "best-route-v4"]
ByMulticastAndBestRoute ==
  [n \in Names |-> IF n = n1 THEN "multicast" ELSE "best-route"]

NoFuzz == [n \in {} |-> NoWord]

\* The word asked for is most similar to w2, and then to w1.
VocabularyOfFive == <<"asked", w2, w1, "other", "far">>
Distance(i, j) == IF i < j THEN j - i ELSE i - j
Nearness(own, place) == CHOOSE near \in 0 .. 4 :
  /\ \E i \in own : near = 4 - Distance(i, place)
  /\ \A i \in own : near >= 4 - Distance(i, place)

Fuzz == INSTANCE FuzzyWords WITH
  Vocabulary <- VocabularyOfFive, Similarity <- Nearness, Opposite <- 0, Shown <- 3,
  NoEntry <- NoWord

\* getFuzzWord keeps the right words, and returns for the word that is asked for.
ASSUME FuzzAssumption == Fuzz!ClosestWordsAreRight /\ Fuzz!IsAnswered(<<"asked">>)

Hints == INSTANCE ForwardingHints WITH NotSelected <- <<0>>, NoRoute <- <<0, 0>>

HintNames == {<<>>, <<1>>, <<1, 1>>, <<2>>, <<2, 1>>}
HintDelegations == {<<>>} \cup {<<d>> : d \in HintNames} \cup {<<d, e>> : d, e \in HintNames}

\* lookupFib finds the right entry, and selects one delegation for good.
ASSUME HintsAssumption ==
  \A routed \in SUBSET HintNames, home \in SUBSET {<<1, 1>>, <<2>>}, n \in HintNames :
    \A hints \in HintDelegations : \A chosen \in Range(hints) \cup {<<0>>} :
      Hints!HintsAreRight(routed, home, [name |-> n, delegations |-> hints, selected |-> chosen])

\* A name with a word is fuzzed once more: to another word where there is one.
FuzzToW1 ==
  [x \in QueryNames \cup Words |->
     IF x = w1 /\ w2 \in Words THEN w2 ELSE Fuzz!GetFuzzWord(<<"asked">>)]

Lifetime == 2

InterestsWith(words, fresh, hops) ==
  [name : Names, word : words, fresh : fresh, nonce : Nonces,
   lifetime : {Lifetime}, hop : hops]

PlainInterests == InterestsWith({NoWord}, {FALSE}, {NoHop})
FreshInterests == InterestsWith({NoWord}, {TRUE}, {NoHop})
TaggedInterests == InterestsWith({NoWord}, {FALSE}, {NoHop, u})
QueryInterests == InterestsWith({NoWord} \cup Words, {TRUE}, {NoHop, u})

StaleDatas == [name : Names, stale : {TRUE}]

NonceSymmetry == Permutations(Nonces)

==============================================================================
