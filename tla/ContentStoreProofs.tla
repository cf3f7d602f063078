-------------------------- MODULE ContentStoreProofs --------------------------
(* Theorems about module ContentStore, for every value of its constants.      *)
EXTENDS ContentStore, SequenceTheorems, FiniteSetTheorems, TLAPS

-----------------------------------------------------------------------------
(* Induction, from the well-foundedness of the finite subsets of a set        *)

\* A non-empty set of natural numbers has a least element.
LEMMA Least ==
  ASSUME NEW T, T \subseteq Nat, T # {}
  PROVE  \E n \in T : \A m \in T : n <= m
<1> DEFINE R == StrictSubsetOrdering(Nat)
           below == {1 .. n : n \in T}
<1>1. IsWellFoundedOn(R, FiniteSubsetsOf(Nat))
  BY FS_StrictSubsetOrderingWellFounded
<1>2. below # {}
  OBVIOUS
<1>3. below \subseteq FiniteSubsetsOf(Nat)
  <2> SUFFICES ASSUME NEW n \in T PROVE 1 .. n \in FiniteSubsetsOf(Nat)
    OBVIOUS
  <2>1. IsFiniteSet(1 .. n)
    BY FS_Interval, n \in Int, 1 \in Int
  <2>2. (1 .. n) \subseteq Nat
    OBVIOUS
  <2> QED BY <2>1, <2>2 DEF FiniteSubsetsOf
<1> HIDE DEF below
<1>4. PICK s \in below : \A t \in below : ~(<<t, s>> \in R)
  BY <1>1, <1>2, <1>3, WFMin
<1>5. PICK n \in T : s = 1 .. n
  BY DEF below
<1>6. ASSUME NEW m \in T, m < n PROVE FALSE
  <2>1. (1 .. m) \in below
    BY DEF below
  <2>2. (1 .. m) \subseteq (1 .. n) /\ n \in 1 .. n /\ n \notin 1 .. m
    BY <1>6
  <2>3. (1 .. m) \in SUBSET Nat /\ (1 .. n) \in SUBSET Nat
    OBVIOUS
  <2>4. <<1 .. m, 1 .. n>> \in R
    BY <2>2, <2>3, Zenon DEF StrictSubsetOrdering
  <2> QED BY <2>1, <2>4, <1>4, <1>5
<1> QED BY <1>6

\* Induction up to N over the numbers that are in S.
LEMMA UpTo ==
  ASSUME NEW N \in Nat, NEW S, 0 \in S,
         \A n \in 0 .. N : n < N /\ n \in S => n + 1 \in S
  PROVE  \A n \in 0 .. N : n \in S
<1> DEFINE T == {n \in 0 .. N : n \notin S}
<1>1. CASE T = {}
  BY <1>1
<1>2. CASE T # {}
  <2>1. PICK n \in T : \A m \in T : n <= m
    BY <1>2, Least, T \subseteq Nat
  <2>2. n \in 1 .. N /\ n - 1 \in 0 .. N /\ n - 1 < N /\ (n - 1) + 1 = n
    BY <2>1
  <2>3. n - 1 \in S
    BY <2>1, <2>2
  <2> QED BY <2>1, <2>2, <2>3
<1> QED BY <1>1, <1>2

-----------------------------------------------------------------------------
(* A sequence without some of its elements                                    *)

Rest(s, D) ==
  CHOOSE rest : rest = [n \in 0 .. Len(s) |->
                          IF n = 0 THEN <<>>
                          ELSE IF s[n] \in D THEN rest[n - 1] ELSE Append(rest[n - 1], s[n])]

\* The recursive function that Without is made of exists.
LEMMA RestDef ==
  ASSUME NEW s, Len(s) \in Nat, NEW D
  PROVE  Rest(s, D) = [n \in 0 .. Len(s) |->
                        IF n = 0 THEN <<>>
                        ELSE IF s[n] \in D THEN Rest(s, D)[n - 1]
                        ELSE Append(Rest(s, D)[n - 1], s[n])]
<1> DEFINE Good(f, N) == f = [n \in 0 .. N |->
                                IF n = 0 THEN <<>>
                                ELSE IF s[n] \in D THEN f[n - 1] ELSE Append(f[n - 1], s[n])]
           S == {N \in 0 .. Len(s) : \E f : Good(f, N)}
<1>1. 0 \in S
  <2> DEFINE f == [n \in 0 .. 0 |-> <<>>]
  <2>1. Good(f, 0)
    OBVIOUS
  <2> HIDE DEF f, Good
  <2>2. \E h : Good(h, 0)
    BY <2>1
  <2> QED BY <2>2
<1>2. ASSUME NEW N \in 0 .. Len(s), N < Len(s), N \in S
      PROVE  N + 1 \in S
  <2>1. PICK f : Good(f, N)
    BY <1>2
  <2> DEFINE next == IF s[N + 1] \in D THEN f[N] ELSE Append(f[N], s[N + 1])
             g == [n \in 0 .. N + 1 |-> IF n = N + 1 THEN next ELSE f[n]]
  <2>2. ASSUME NEW n \in 0 .. N + 1
        PROVE  g[n] = IF n = 0 THEN <<>>
                      ELSE IF s[n] \in D THEN g[n - 1] ELSE Append(g[n - 1], s[n])
    <3>1. CASE n = N + 1
      <4>1. n # 0 /\ n - 1 = N /\ g[n - 1] = f[N] /\ g[n] = next
        BY <3>1
      <4> QED BY <3>1, <4>1
    <3>2. CASE n # N + 1
      <4>1. n \in 0 .. N /\ g[n] = f[n] /\ (n # 0 => g[n - 1] = f[n - 1])
        BY <3>2
      <4> QED BY <2>1, <4>1
    <3> QED BY <3>1, <3>2
  <2>3. Good(g, N + 1)
    BY <2>2
  <2>4. N + 1 \in 0 .. Len(s)
    BY <1>2
  <2> QED BY <2>3, <2>4
<1> HIDE DEF Good
<1>3. Len(s) \in S
  <2>1. \A n \in 0 .. Len(s) : n \in S
    <3> HIDE DEF S
    <3> QED BY <1>1, <1>2, UpTo
  <2> QED BY <2>1
<1>4. \E f : Good(f, Len(s))
  BY <1>3
<1> QED BY <1>4 DEF Good, Rest

\* t is what is left of the first n elements of s without those of D, in order.
IsRest(s, n, D, t) ==
  \E f \in [1 .. Len(t) -> 1 .. n] :
    /\ \A i \in 1 .. Len(t) : t[i] = s[f[i]]
    /\ \A i, j \in 1 .. Len(t) : i < j => f[i] < f[j]
    /\ \A m \in 1 .. n : s[m] \notin D <=> \E i \in 1 .. Len(t) : f[i] = m

LEMMA RestFacts ==
  ASSUME NEW S, NEW s \in Seq(S), NEW D
  PROVE  \A n \in 0 .. Len(s) : Rest(s, D)[n] \in Seq(S) /\ IsRest(s, n, D, Rest(s, D)[n])
<1> DEFINE r == Rest(s, D)
           G == {n \in 0 .. Len(s) : r[n] \in Seq(S) /\ IsRest(s, n, D, r[n])}
<1>1. /\ Len(s) \in Nat
      /\ r = [n \in 0 .. Len(s) |-> IF n = 0 THEN <<>>
                                    ELSE IF s[n] \in D THEN r[n - 1] ELSE Append(r[n - 1], s[n])]
  BY LenProperties, RestDef
<1> HIDE DEF r
<1>2. 0 \in G
  <2>1. r[0] = <<>> /\ r[0] \in Seq(S) /\ Len(r[0]) = 0
    BY <1>1
  <2> DEFINE f == [i \in 1 .. 0 |-> i]
  <2>2. f \in [1 .. Len(r[0]) -> 1 .. 0]
    BY <2>1
  <2> HIDE DEF f
  <2>3. /\ \A i \in 1 .. Len(r[0]) : FALSE
        /\ \A m \in 1 .. 0 : FALSE
    BY <2>1
  <2>4. IsRest(s, 0, D, r[0])
    BY <2>2, <2>3, Zenon DEF IsRest
  <2> QED BY <1>1, <2>1, <2>4
<1>3. ASSUME NEW n \in 0 .. Len(s), n < Len(s), n \in G
      PROVE  n + 1 \in G
  <2>1. n + 1 \in 1 .. Len(s) /\ n + 1 \in 0 .. Len(s) /\ (n + 1) - 1 = n /\ n + 1 # 0
    BY <1>1, <1>3
  <2>2. r[n] \in Seq(S) /\ Len(r[n]) \in Nat
    BY <1>3, LenProperties
  <2>3. PICK f \in [1 .. Len(r[n]) -> 1 .. n] :
          /\ \A i \in 1 .. Len(r[n]) : r[n][i] = s[f[i]]
          /\ \A i, j \in 1 .. Len(r[n]) : i < j => f[i] < f[j]
          /\ \A m \in 1 .. n : s[m] \notin D <=> \E i \in 1 .. Len(r[n]) : f[i] = m
    BY <1>3 DEF IsRest
  <2>4. CASE s[n + 1] \in D
    <3>1. r[n + 1] = r[n]
      BY <1>1, <2>1, <2>4
    <3>2. f \in [1 .. Len(r[n]) -> 1 .. n + 1]
      BY <2>2
    <3>3. ASSUME NEW m \in 1 .. n + 1
          PROVE  s[m] \notin D <=> \E i \in 1 .. Len(r[n]) : f[i] = m
      <4>1. CASE m \in 1 .. n
        BY <2>3, <4>1
      <4>2. CASE m = n + 1
        BY <2>2, <2>4, <4>2
      <4> QED BY <4>1, <4>2
    <3>4. IsRest(s, n + 1, D, r[n])
      BY <2>3, <3>2, <3>3 DEF IsRest
    <3> QED BY <2>1, <2>2, <3>1, <3>4
  <2>5. CASE s[n + 1] \notin D
    <3> DEFINE t == Append(r[n], s[n + 1])
               g == [i \in 1 .. Len(t) |-> IF i <= Len(r[n]) THEN f[i] ELSE n + 1]
    <3>1. r[n + 1] = t
      BY <1>1, <2>1, <2>5
    <3>2. s[n + 1] \in S
      BY <2>1, ElementOfSeq
    <3>3. /\ t \in Seq(S) /\ Len(t) = Len(r[n]) + 1 /\ t[Len(r[n]) + 1] = s[n + 1]
          /\ \A i \in 1 .. Len(r[n]) : t[i] = r[n][i]
      BY <2>2, <3>2, AppendProperties
    <3> HIDE DEF t
    <3>4. g \in [1 .. Len(t) -> 1 .. n + 1]
      BY <2>2, <2>3, <3>3
    <3>5. ASSUME NEW i \in 1 .. Len(t) PROVE t[i] = s[g[i]]
      BY <2>2, <2>3, <3>3
    <3>6. ASSUME NEW i \in 1 .. Len(t), NEW j \in 1 .. Len(t), i < j PROVE g[i] < g[j]
      <4>1. i \in 1 .. Len(r[n]) /\ g[i] = f[i] /\ f[i] \in 1 .. n
        <5>1. i \in 1 .. Len(r[n])
          BY <2>2, <3>3, <3>6
        <5>2. f[i] \in 1 .. n
          BY <5>1
        <5>3. g[i] = f[i]
          BY <2>2, <5>1
        <5> QED BY <5>1, <5>2, <5>3
      <4>2. CASE j <= Len(r[n])
        BY <2>2, <2>3, <3>6, <4>1, <4>2
      <4>3. CASE ~(j <= Len(r[n]))
        BY <2>2, <4>1, <4>3
      <4> QED BY <4>2, <4>3
    <3>7. ASSUME NEW m \in 1 .. n + 1
          PROVE  s[m] \notin D <=> \E i \in 1 .. Len(t) : g[i] = m
      <4>1. CASE m \in 1 .. n
        <5>1. \A i \in 1 .. Len(r[n]) : i \in 1 .. Len(t) /\ g[i] = f[i]
          BY <2>2, <3>3
        <5>2. \A i \in 1 .. Len(t) : g[i] = m => i \in 1 .. Len(r[n])
          BY <2>2, <3>3, <4>1
        <5> QED BY <2>3, <4>1, <5>1, <5>2
      <4>2. CASE m = n + 1
        <5>1. Len(t) \in 1 .. Len(t) /\ g[Len(t)] = n + 1
          BY <2>2, <3>3
        <5> QED BY <2>5, <4>2, <5>1
      <4> QED BY <4>1, <4>2
    <3> HIDE DEF g
    <3>8. IsRest(s, n + 1, D, t)
      BY <3>4, <3>5, <3>6, <3>7 DEF IsRest
    <3> QED BY <2>1, <3>1, <3>3, <3>8
  <2> QED BY <2>4, <2>5
<1>4. \A n \in 0 .. Len(s) : n \in G
  <2> HIDE DEF G
  <2> QED BY <1>1, <1>2, <1>3, UpTo
<1> QED BY <1>4 DEF r

\* The packet d is in the sequence s, and d is in it before e.
In(s, d) == \E n \in 1 .. Len(s) : s[n] = d

NoRepeat(s) == \A m, n \in 1 .. Len(s) : s[m] = s[n] => m = n

\* What Without leaves.
LEMMA WithoutFacts ==
  ASSUME NEW S, NEW s \in Seq(S), NEW D
  PROVE  /\ Without(s, D) \in Seq(S)
         /\ \A d : In(Without(s, D), d) <=> In(s, d) /\ d \notin D
         /\ NoRepeat(s) => NoRepeat(Without(s, D))
         /\ \A d, e : Before(Without(s, D), d, e) <=> Before(s, d, e) /\ d \notin D /\ e \notin D
<1> DEFINE t == Without(s, D)
<1>1. Len(s) \in Nat /\ Len(s) \in 0 .. Len(s)
  BY LenProperties
<1>2. t = Rest(s, D)[Len(s)]
  BY DEF Without, Rest
<1>3. t \in Seq(S) /\ IsRest(s, Len(s), D, t)
  BY <1>1, <1>2, RestFacts
<1> HIDE DEF t
<1>4. Len(t) \in Nat
  BY <1>3, LenProperties
<1>5. PICK f \in [1 .. Len(t) -> 1 .. Len(s)] :
        /\ \A i \in 1 .. Len(t) : t[i] = s[f[i]]
        /\ \A i, j \in 1 .. Len(t) : i < j => f[i] < f[j]
        /\ \A m \in 1 .. Len(s) : s[m] \notin D <=> \E i \in 1 .. Len(t) : f[i] = m
  BY <1>3 DEF IsRest
<1>6. \A d : In(t, d) <=> In(s, d) /\ d \notin D
  BY <1>5 DEF In
<1>7. ASSUME NEW i \in 1 .. Len(t), NEW j \in 1 .. Len(t)
      PROVE  /\ f[i] = f[j] => i = j
             /\ f[i] < f[j] => i < j
  <2>1. f[i] \in Int /\ f[j] \in Int
    BY <1>1
  <2> QED BY <1>4, <1>5, <2>1
<1>8. NoRepeat(s) => NoRepeat(t)
  BY <1>5, <1>7 DEF NoRepeat
<1>9. ASSUME NEW d, NEW e
      PROVE  Before(t, d, e) <=> Before(s, d, e) /\ d \notin D /\ e \notin D
  <2>1. Before(t, d, e) => Before(s, d, e) /\ d \notin D /\ e \notin D
    BY <1>5 DEF Before
  <2>2. ASSUME Before(s, d, e), d \notin D, e \notin D PROVE Before(t, d, e)
    <3>1. PICK m, n \in 1 .. Len(s) : m < n /\ s[m] = d /\ s[n] = e
      BY <2>2 DEF Before
    <3>2. PICK i \in 1 .. Len(t) : f[i] = m
      BY <1>5, <2>2, <3>1
    <3>3. PICK j \in 1 .. Len(t) : f[j] = n
      BY <1>5, <2>2, <3>1
    <3>4. i < j /\ t[i] = d /\ t[j] = e
      BY <1>5, <1>7, <3>1, <3>2, <3>3
    <3> QED BY <3>4 DEF Before
  <2> QED BY <2>1, <2>2
<1> QED BY <1>3, <1>6, <1>8, <1>9 DEF t

\* What Append adds.
LEMMA AppendFacts ==
  ASSUME NEW S, NEW s \in Seq(S), NEW x \in S
  PROVE  /\ Append(s, x) \in Seq(S)
         /\ \A d : In(Append(s, x), d) <=> In(s, d) \/ d = x
         /\ NoRepeat(s) /\ ~In(s, x) => NoRepeat(Append(s, x))
         /\ \A d, e : Before(Append(s, x), d, e) <=> Before(s, d, e) \/ (In(s, d) /\ e = x)
<1> DEFINE t == Append(s, x)
<1>1. /\ t \in Seq(S) /\ Len(t) = Len(s) + 1 /\ Len(s) \in Nat /\ t[Len(t)] = x
      /\ \A i \in 1 .. Len(s) : t[i] = s[i]
  BY AppendProperties, LenProperties
<1> HIDE DEF t
<1>2. /\ \A i \in 1 .. Len(t) : i \in 1 .. Len(s) \/ i = Len(t)
      /\ \A i \in 1 .. Len(s) : i \in 1 .. Len(t) /\ i < Len(t)
      /\ Len(t) \in 1 .. Len(t)
  BY <1>1
<1>3. \A d : In(t, d) <=> In(s, d) \/ d = x
  BY <1>1, <1>2 DEF In
<1>4. NoRepeat(s) /\ ~In(s, x) => NoRepeat(t)
  BY <1>1, <1>2 DEF NoRepeat, In
<1>5. ASSUME NEW d, NEW e
      PROVE  Before(t, d, e) <=> Before(s, d, e) \/ (In(s, d) /\ e = x)
  <2>1. ASSUME Before(t, d, e) PROVE Before(s, d, e) \/ (In(s, d) /\ e = x)
    <3>1. PICK m, n \in 1 .. Len(t) : m < n /\ t[m] = d /\ t[n] = e
      BY <2>1 DEF Before
    <3>2. m \in 1 .. Len(s) /\ s[m] = d
      BY <1>1, <3>1
    <3>3. CASE n = Len(t)
      BY <1>1, <3>1, <3>2, <3>3 DEF In
    <3>4. CASE n \in 1 .. Len(s)
      BY <1>1, <3>1, <3>2, <3>4 DEF Before
    <3> QED BY <1>2, <3>3, <3>4
  <2>2. Before(s, d, e) => Before(t, d, e)
    BY <1>1, <1>2 DEF Before
  <2>3. ASSUME In(s, d), e = x PROVE Before(t, d, e)
    <3>1. PICK m \in 1 .. Len(s) : s[m] = d
      BY <2>3 DEF In
    <3>2. m \in 1 .. Len(t) /\ m < Len(t) /\ t[m] = d
      BY <1>1, <1>2, <3>1
    <3> QED BY <1>1, <1>2, <2>3, <3>2 DEF Before
  <2> QED BY <2>1, <2>2, <2>3
<1> QED BY <1>1, <1>3, <1>4, <1>5 DEF t

-----------------------------------------------------------------------------
(* The queues share out the packets of the table                              *)

SharedOut(qs, D) ==
  /\ qs \in [QueueTypes -> Seq(Packets)]
  /\ \A t \in QueueTypes : NoRepeat(qs[t])
  /\ \A d : d \in D <=> \E t \in QueueTypes : In(qs[t], d)
  /\ \A t, u \in QueueTypes : \A d : In(qs[t], d) /\ In(qs[u], d) => t = u

LEMMA DetachShares ==
  ASSUME NEW qs, NEW D, SharedOut(qs, D), NEW X
  PROVE  SharedOut([t \in QueueTypes |-> Without(qs[t], X)], D \ X)
<1> DEFINE q == [t \in QueueTypes |-> Without(qs[t], X)]
<1>1. ASSUME NEW t \in QueueTypes
      PROVE  /\ q[t] \in Seq(Packets) /\ NoRepeat(q[t])
             /\ \A d : In(q[t], d) <=> In(qs[t], d) /\ d \notin X
  BY WithoutFacts DEF SharedOut
<1>2. q \in [QueueTypes -> Seq(Packets)]
  BY <1>1
<1> HIDE DEF q
<1> QED BY <1>1, <1>2, Zenon DEF SharedOut, q

LEMMA AttachShares ==
  ASSUME NEW qs, NEW D, SharedOut(qs, D), NEW x \in Packets, x \notin D, NEW u \in QueueTypes
  PROVE  SharedOut([qs EXCEPT ![u] = Append(@, x)], D \cup {x})
<1> DEFINE q == [qs EXCEPT ![u] = Append(@, x)]
<1>1. ASSUME NEW t \in QueueTypes
      PROVE  /\ q[t] \in Seq(Packets) /\ NoRepeat(q[t])
             /\ \A d : In(q[t], d) <=> In(qs[t], d) \/ (t = u /\ d = x)
  <2>1. qs[t] \in Seq(Packets) /\ NoRepeat(qs[t]) /\ ~In(qs[t], x)
    BY DEF SharedOut
  <2>2. q[t] = IF t = u THEN Append(qs[t], x) ELSE qs[t]
    BY DEF SharedOut
  <2> QED BY <2>1, <2>2, AppendFacts
<1>2. q \in [QueueTypes -> Seq(Packets)]
  BY <1>1 DEF SharedOut
<1> HIDE DEF q
<1>3. \A d : d \in D \cup {x} <=> \E t \in QueueTypes : In(q[t], d)
  BY <1>1 DEF SharedOut
<1>4. \A t, v \in QueueTypes : \A d : In(q[t], d) /\ In(q[v], d) => t = v
  BY <1>1 DEF SharedOut
<1> QED BY <1>1, <1>2, <1>3, <1>4 DEF SharedOut, q

\* The eviction order has every packet of the table once: those of the three
\* queues, one queue after the other.
LEMMA OrderFacts ==
  ASSUME NEW qs, NEW D, SharedOut(qs, D)
  PROVE  LET order == EvictionOrder(qs) IN
         /\ order \in Seq(Packets) /\ NoRepeat(order)
         /\ \A d : In(order, d) <=> d \in D
         /\ \A i, j \in 1 .. Len(order) : i < j =>
              \/ In(qs["unsolicited"], order[i])
              \/ /\ In(qs["stale"], order[i])
                 /\ In(qs["stale"], order[j]) \/ In(qs["fifo"], order[j])
              \/ Before(qs["fifo"], order[i], order[j])
<1> DEFINE order == EvictionOrder(qs)
           qu == qs["unsolicited"]
           st == qs["stale"]
           ff == qs["fifo"]
           us == qu \o st
<1>1. /\ qu \in Seq(Packets) /\ st \in Seq(Packets) /\ ff \in Seq(Packets)
      /\ NoRepeat(qu) /\ NoRepeat(st) /\ NoRepeat(ff)
      /\ \A d : ~(In(qu, d) /\ In(st, d)) /\ ~(In(qu, d) /\ In(ff, d)) /\ ~(In(st, d) /\ In(ff, d))
      /\ \A d : d \in D <=> In(qu, d) \/ In(st, d) \/ In(ff, d)
  BY DEF SharedOut, QueueTypes
<1>2. order = us \o ff
  BY DEF EvictionOrder
<1> HIDE DEF order, qu, st, ff
<1>3. /\ us \in Seq(Packets) /\ Len(us) = Len(qu) + Len(st)
      /\ \A i \in 1 .. Len(qu) + Len(st) : us[i] = IF i <= Len(qu) THEN qu[i] ELSE st[i - Len(qu)]
  BY <1>1, ConcatProperties
<1> HIDE DEF us
<1>4. /\ order \in Seq(Packets) /\ Len(order) = Len(us) + Len(ff)
      /\ \A i \in 1 .. Len(us) + Len(ff) : order[i] = IF i <= Len(us) THEN us[i] ELSE ff[i - Len(us)]
  <2>1. us \in Seq(Packets) /\ ff \in Seq(Packets)
    BY <1>1, <1>3
  <2>2. /\ us \o ff \in Seq(Packets) /\ Len(us \o ff) = Len(us) + Len(ff)
        /\ \A i \in 1 .. Len(us) + Len(ff) :
             (us \o ff)[i] = IF i <= Len(us) THEN us[i] ELSE ff[i - Len(us)]
    BY <2>1, ConcatProperties
  <2> QED BY <1>2, <2>2
<1>5. Len(qu) \in Nat /\ Len(st) \in Nat /\ Len(ff) \in Nat /\ Len(us) \in Nat /\ Len(order) \in Nat
  BY <1>1, <1>3, <1>4, LenProperties
<1> DEFINE a == Len(qu)
           b == Len(us)
<1>6. ASSUME NEW i \in 1 .. Len(order)
      PROVE  \/ i \in 1 .. a /\ order[i] = qu[i] /\ In(qu, order[i])
             \/ i > a /\ i <= b /\ i - a \in 1 .. Len(st) /\ order[i] = st[i - a] /\ In(st, order[i])
             \/ i > b /\ i - b \in 1 .. Len(ff) /\ order[i] = ff[i - b] /\ In(ff, order[i])
  <2>1. CASE i <= a
    <3>1. i \in 1 .. a /\ i \in 1 .. Len(us) /\ i <= Len(us) /\ i \in 1 .. Len(us) + Len(ff)
      BY <1>3, <1>4, <1>5, <2>1
    <3> QED BY <1>3, <1>4, <2>1, <3>1 DEF In
  <2>2. CASE i > a /\ i <= b
    <3>1. i - a \in 1 .. Len(st) /\ i \in 1 .. Len(qu) + Len(st) /\ i \in 1 .. Len(us) + Len(ff)
      BY <1>3, <1>4, <1>5, <2>2
    <3>2. order[i] = us[i] /\ us[i] = st[i - a]
      BY <1>3, <1>4, <1>5, <2>2, <3>1
    <3> QED BY <2>2, <3>1, <3>2 DEF In
  <2>3. CASE i > b
    <3>1. i - b \in 1 .. Len(ff) /\ i \in 1 .. Len(us) + Len(ff)
      BY <1>3, <1>4, <1>5, <2>3
    <3>2. order[i] = ff[i - b]
      BY <1>4, <1>5, <2>3, <3>1
    <3> QED BY <2>3, <3>1, <3>2 DEF In
  <2> QED BY <1>5, <2>1, <2>2, <2>3
<1>7. NoRepeat(order)
  <2> SUFFICES ASSUME NEW i \in 1 .. Len(order), NEW j \in 1 .. Len(order), order[i] = order[j]
               PROVE  i = j
    BY DEF NoRepeat
  <2>1. CASE i \in 1 .. a /\ order[i] = qu[i] /\ In(qu, order[i])
    <3>1. j \in 1 .. a /\ order[j] = qu[j]
      BY <1>1, <1>6, <2>1
    <3> QED BY <1>1, <2>1, <3>1 DEF NoRepeat
  <2>2. CASE i > a /\ i - a \in 1 .. Len(st) /\ order[i] = st[i - a] /\ In(st, order[i])
    <3>1. j - a \in 1 .. Len(st) /\ order[j] = st[j - a]
      BY <1>1, <1>6, <2>2
    <3>2. i - a = j - a
      BY <1>1, <2>2, <3>1 DEF NoRepeat
    <3> QED BY <1>5, <3>2
  <2>3. CASE i > b /\ i - b \in 1 .. Len(ff) /\ order[i] = ff[i - b] /\ In(ff, order[i])
    <3>1. j - b \in 1 .. Len(ff) /\ order[j] = ff[j - b]
      BY <1>1, <1>6, <2>3
    <3>2. i - b = j - b
      BY <1>1, <2>3, <3>1 DEF NoRepeat
    <3> QED BY <1>5, <3>2
  <2> QED BY <1>6, <2>1, <2>2, <2>3
<1>8. ASSUME NEW d PROVE In(order, d) <=> d \in D
  <2>1. In(order, d) => d \in D
    BY <1>1, <1>6 DEF In
  <2>2. ASSUME NEW n \in 1 .. Len(qu), qu[n] = d PROVE In(order, d)
    <3>1. n \in 1 .. Len(order) /\ n \in 1 .. Len(us) + Len(ff) /\ n \in 1 .. Len(qu) + Len(st)
      BY <1>3, <1>4, <1>5
    <3>2. n <= Len(us) /\ n <= Len(qu)
      BY <1>3, <1>5
    <3> QED BY <1>3, <1>4, <2>2, <3>1, <3>2 DEF In
  <2>3. ASSUME NEW n \in 1 .. Len(st), st[n] = d PROVE In(order, d)
    <3> DEFINE i == n + a
    <3>1. /\ i \in 1 .. Len(order) /\ i \in 1 .. Len(us) + Len(ff) /\ i \in 1 .. Len(qu) + Len(st)
          /\ i <= Len(us) /\ ~(i <= Len(qu)) /\ i - Len(qu) = n
      BY <1>3, <1>4, <1>5
    <3> HIDE DEF i
    <3> QED BY <1>3, <1>4, <2>3, <3>1 DEF In
  <2>4. ASSUME NEW n \in 1 .. Len(ff), ff[n] = d PROVE In(order, d)
    <3> DEFINE i == n + b
    <3>1. /\ i \in 1 .. Len(order) /\ i \in 1 .. Len(us) + Len(ff)
          /\ ~(i <= Len(us)) /\ i - Len(us) = n
      BY <1>4, <1>5
    <3> HIDE DEF i
    <3> QED BY <1>4, <2>4, <3>1 DEF In
  <2> QED BY <1>1, <2>1, <2>2, <2>3, <2>4 DEF In
<1>9. ASSUME NEW i \in 1 .. Len(order), NEW j \in 1 .. Len(order), i < j
      PROVE  \/ In(qu, order[i])
             \/ In(st, order[i]) /\ (In(st, order[j]) \/ In(ff, order[j]))
             \/ Before(ff, order[i], order[j])
  <2>1. CASE i \in 1 .. a /\ In(qu, order[i])
    BY <2>1
  <2>2. CASE i > a /\ In(st, order[i])
    <3>1. ~(j \in 1 .. a)
      BY <1>5, <1>9, <2>2
    <3> QED BY <1>6, <2>2, <3>1
  <2>3. CASE i > b /\ i - b \in 1 .. Len(ff) /\ order[i] = ff[i - b]
    <3>1. b >= a /\ j > b
      BY <1>3, <1>5, <1>9, <2>3
    <3>2. j - b \in 1 .. Len(ff) /\ order[j] = ff[j - b]
      BY <1>5, <1>6, <3>1
    <3>3. i - b < j - b
      BY <1>5, <1>9
    <3> QED BY <2>3, <3>2, <3>3 DEF Before
  <2> QED BY <1>6, <2>1, <2>2, <2>3
<1> QED BY <1>4, <1>7, <1>8, <1>9 DEF order, qu, st, ff

\* So there are as many places in the eviction order as packets in the table.
LEMMA OrderCounts ==
  ASSUME NEW s \in Seq(Packets), NoRepeat(s), NEW D, \A d : In(s, d) <=> d \in D,
         NEW n \in Nat, n <= Len(s)
  PROVE  /\ IsFiniteSet(D) /\ Cardinality(D) = Len(s)
         /\ IsFiniteSet({s[i] : i \in 1 .. n}) /\ Cardinality({s[i] : i \in 1 .. n}) = n
         /\ {s[i] : i \in 1 .. n} \subseteq D
<1>1. Len(s) \in Nat
  BY LenProperties
<1>2. ASSUME NEW m \in Nat, m <= Len(s)
      PROVE  /\ IsFiniteSet({s[i] : i \in 1 .. m}) /\ Cardinality({s[i] : i \in 1 .. m}) = m
             /\ {s[i] : i \in 1 .. m} \subseteq D
  <2> DEFINE f == [i \in 1 .. m |-> s[i]]
             T == {s[i] : i \in 1 .. m}
  <2>1. f \in Bijection(1 .. m, T)
    <3>1. f \in [1 .. m -> T] /\ \A t \in T : \E i \in 1 .. m : f[i] = t
      OBVIOUS
    <3>2. \A i, j \in 1 .. m : f[i] = f[j] => i = j
      <4>1. \A i \in 1 .. m : i \in 1 .. Len(s)
        BY <1>1, <1>2
      <4> QED BY <4>1 DEF NoRepeat
    <3> HIDE DEF f, T
    <3> QED BY <3>1, <3>2, Zenon DEF Bijection, Injection, Surjection, IsInjective
  <2>2. IsFiniteSet(1 .. m) /\ Cardinality(1 .. m) = m
    BY FS_Interval, m \in Int, 1 \in Int
  <2>3. ExistsBijection(1 .. m, T)
    BY <2>1 DEF ExistsBijection
  <2>4. IsFiniteSet(T) /\ Cardinality(T) = Cardinality(1 .. m)
    <3> HIDE DEF T
    <3> QED BY <2>2, <2>3, FS_Bijection
  <2>5. T \subseteq D
    <3>1. \A i \in 1 .. m : i \in 1 .. Len(s)
      BY <1>1, <1>2
    <3> QED BY <3>1 DEF In
  <2> QED BY <2>2, <2>4, <2>5
<1>3. D = {s[i] : i \in 1 .. Len(s)}
  BY DEF In
<1>4. IsFiniteSet(D) /\ Cardinality(D) = Len(s)
  <2>1. Len(s) <= Len(s)
    BY <1>1
  <2>2. IsFiniteSet({s[i] : i \in 1 .. Len(s)}) /\ Cardinality({s[i] : i \in 1 .. Len(s)}) = Len(s)
    BY <1>1, <1>2, <2>1
  <2> QED BY <1>3, <2>2
<1>5. /\ IsFiniteSet({s[i] : i \in 1 .. n}) /\ Cardinality({s[i] : i \in 1 .. n}) = n
      /\ {s[i] : i \in 1 .. n} \subseteq D
  BY <1>2
<1> QED BY <1>4, <1>5

\* The queue t when x leaves the queue u for the end of the queue w
Requeued(qs, u, w, x, t) ==
  LET rest == IF t = u THEN Without(qs[t], {x}) ELSE qs[t]
  IN  IF t = w THEN Append(rest, x) ELSE rest

\* A packet may go to the end of its queue, or to the end of another.
LEMMA RequeueShares ==
  ASSUME NEW qs, NEW D, SharedOut(qs, D),
         NEW u \in QueueTypes, NEW w \in QueueTypes, NEW x \in Packets, In(qs[u], x),
         NEW q \in [QueueTypes -> Seq(Packets)],
         \A t \in QueueTypes : q[t] = Requeued(qs, u, w, x, t)
  PROVE  SharedOut(q, D)
<1> DEFINE rest(t) == IF t = u THEN Without(qs[t], {x}) ELSE qs[t]
<1>1. ASSUME NEW t \in QueueTypes
      PROVE  /\ rest(t) \in Seq(Packets) /\ NoRepeat(rest(t))
             /\ \A d : In(rest(t), d) <=> In(qs[t], d) /\ d # x
  <2>1. qs[t] \in Seq(Packets) /\ NoRepeat(qs[t])
    BY DEF SharedOut
  <2>2. CASE t = u
    BY <2>1, <2>2, WithoutFacts
  <2>3. CASE t # u
    <3>1. ~In(qs[t], x)
      BY <2>3 DEF SharedOut
    <3> QED BY <2>1, <2>3, <3>1
  <2> QED BY <2>2, <2>3
<1>2. ASSUME NEW t \in QueueTypes
      PROVE  /\ q[t] \in Seq(Packets) /\ NoRepeat(q[t])
             /\ \A d : In(q[t], d) <=> (In(qs[t], d) /\ d # x) \/ (t = w /\ d = x)
  <2>1. q[t] = IF t = w THEN Append(rest(t), x) ELSE rest(t)
    BY DEF Requeued
  <2> HIDE DEF rest
  <2>2. rest(t) \in Seq(Packets) /\ NoRepeat(rest(t)) /\ ~In(rest(t), x)
    BY <1>1
  <2>3. CASE t = w
    BY <1>1, <2>1, <2>2, <2>3, AppendFacts
  <2>4. CASE t # w
    BY <1>1, <2>1, <2>2, <2>4
  <2> QED BY <2>3, <2>4
<1> HIDE DEF rest
<1>3. \A d : d \in D <=> \E t \in QueueTypes : In(q[t], d)
  BY <1>2 DEF SharedOut
<1>4. \A t, v \in QueueTypes : \A d : In(q[t], d) /\ In(q[v], d) => t = v
  BY <1>2 DEF SharedOut
<1> QED BY <1>2, <1>3, <1>4 DEF SharedOut

-----------------------------------------------------------------------------
(* The inductive invariant.  It is stated for any store, because the policy   *)
(* works on stores that are between two states.                               *)

Stores == [table : UNION {[D -> Entry] : D \in SUBSET Packets},
           queues : [QueueTypes -> Seq(Packets)],
           staleEvents : SUBSET [of : Packets, at : Nat]]

\* A timer runs for what is in the FIFO queue and may turn stale.
EventsOK(s) ==
  \A d \in Packets, n \in Nat :
    [of |-> d, at |-> n] \in s.staleEvents <=>
      policy = "fifo" /\ In(s.queues["fifo"], d) /\ s.table[d].staleTime = n

\* Which queue an entry is in
QueuesOK(s) ==
  /\ policy = "lru" => \A t \in QueueTypes : \A d : In(s.queues[t], d) => t = "fifo"
  /\ policy = "fifo" => \A d \in DOMAIN s.table :
       /\ In(s.queues["unsolicited"], d) <=> s.table[d].unsolicited
       /\ In(s.queues["stale"], d) => MaybeStale(s.table[d])
       /\ In(s.queues["fifo"], d) => MaybeFresh(s.table[d])

\* The FIFO queue is in the order of the last insertions or uses r.
OrderOK(s, r) ==
  /\ r \in Seq(Packets)
  /\ \A d, e : Before(s.queues["fifo"], d, e) => Before(r, d, e)
  /\ \A d \in DOMAIN s.table : In(r, d)

StoreOK(s, r) ==
  /\ s \in Stores
  /\ SharedOut(s.queues, DOMAIN s.table)
  /\ EventsOK(s)
  /\ QueuesOK(s)
  /\ OrderOK(s, r)

IInv ==
  /\ policy \in {"fifo", "lru"} /\ now \in Nat /\ limit \in Nat
  /\ StoreOK(Store, recent)
  /\ WithinLimit

\* The store without the packets of X: out of the queues and of the table
Removed(s, X) == [DetachQueue(s, X) EXCEPT !.table = Restrict(@, DOMAIN @ \ X)]

LEMMA TableFacts ==
  ASSUME NEW s \in Stores
  PROVE  /\ DOMAIN s.table \subseteq Packets
         /\ s.table \in [DOMAIN s.table -> Entry]
         /\ s = [table |-> s.table, queues |-> s.queues, staleEvents |-> s.staleEvents]
         /\ s.queues \in [QueueTypes -> Seq(Packets)]
         /\ s.staleEvents \in SUBSET [of : Packets, at : Nat]
BY DEF Stores

LEMMA RemovedFacts ==
  ASSUME NEW s \in Stores, NEW X
  PROVE  LET r == Removed(s, X) IN
         /\ r.table = [d \in DOMAIN s.table \ X |-> s.table[d]]
         /\ r.queues = [t \in QueueTypes |-> Without(s.queues[t], X)]
         /\ r.staleEvents = {v \in s.staleEvents : ~(v.of \in X /\ In(s.queues["fifo"], v.of))}
         /\ r = [table |-> r.table, queues |-> r.queues, staleEvents |-> r.staleEvents]
<1>1. s = [table |-> s.table, queues |-> s.queues, staleEvents |-> s.staleEvents]
  BY TableFacts
<1> DEFINE qs == [t \in QueueTypes |-> Without(s.queues[t], X)]
           ev == {v \in s.staleEvents : ~(v.of \in X /\ In(s.queues["fifo"], v.of))}
           tb == [d \in DOMAIN s.table \ X |-> s.table[d]]
<1>2. ev = {v \in s.staleEvents : ~(v.of \in X /\ InQueue(s.queues, "fifo", v.of))}
  BY DEF InQueue, In
<1>3. DetachQueue(s, X) = [s EXCEPT !.queues = qs, !.staleEvents = ev]
  BY <1>2 DEF DetachQueue
<1> HIDE DEF qs, ev
<1>4. DetachQueue(s, X) = [table |-> s.table, queues |-> qs, staleEvents |-> ev]
  BY <1>1, <1>3
<1>5. Restrict(s.table, DOMAIN s.table \ X) = tb
  BY DEF Restrict
<1>6. Removed(s, X) = [table |-> tb, queues |-> qs, staleEvents |-> ev]
  BY <1>4, <1>5 DEF Removed
<1> QED BY <1>6 DEF qs, ev

\* Removing packets keeps a store in order.
LEMMA RemovedOK ==
  ASSUME NEW s, NEW r, StoreOK(s, r), NEW X
  PROVE  StoreOK(Removed(s, X), r)
<1> DEFINE v == Removed(s, X)
<1>1. s \in Stores
  BY DEF StoreOK
<1>2. /\ v.table = [d \in DOMAIN s.table \ X |-> s.table[d]]
      /\ v.queues = [t \in QueueTypes |-> Without(s.queues[t], X)]
      /\ v.staleEvents = {w \in s.staleEvents : ~(w.of \in X /\ In(s.queues["fifo"], w.of))}
      /\ v = [table |-> v.table, queues |-> v.queues, staleEvents |-> v.staleEvents]
  BY <1>1, RemovedFacts
<1> HIDE DEF v
<1>3. /\ DOMAIN s.table \subseteq Packets /\ s.table \in [DOMAIN s.table -> Entry]
      /\ s.staleEvents \in SUBSET [of : Packets, at : Nat]
      /\ s.queues \in [QueueTypes -> Seq(Packets)]
  BY <1>1, TableFacts
<1>4. DOMAIN v.table = DOMAIN s.table \ X
  BY <1>2
<1>5. SharedOut(v.queues, DOMAIN v.table)
  BY <1>2, <1>4, DetachShares DEF StoreOK
<1>6. ASSUME NEW t \in QueueTypes
      PROVE  /\ \A d : In(v.queues[t], d) <=> In(s.queues[t], d) /\ d \notin X
             /\ \A d, e : Before(v.queues[t], d, e) => Before(s.queues[t], d, e)
  <2>1. v.queues[t] = Without(s.queues[t], X) /\ s.queues[t] \in Seq(Packets)
    BY <1>2, <1>3
  <2> QED BY <2>1, WithoutFacts
<1>7. v \in Stores
  <2>1. v.table \in [DOMAIN v.table -> Entry] /\ DOMAIN v.table \in SUBSET Packets
    BY <1>2, <1>3
  <2>2. v.queues \in [QueueTypes -> Seq(Packets)]
    BY <1>5 DEF SharedOut
  <2>3. v.staleEvents \in SUBSET [of : Packets, at : Nat]
    BY <1>2, <1>3
  <2> QED BY <1>2, <2>1, <2>2, <2>3 DEF Stores
<1>8. "fifo" \in QueueTypes /\ "stale" \in QueueTypes /\ "unsolicited" \in QueueTypes
  BY DEF QueueTypes
<1>9. EventsOK(v)
  <2> SUFFICES ASSUME NEW d \in Packets, NEW n \in Nat
               PROVE  [of |-> d, at |-> n] \in v.staleEvents <=>
                        policy = "fifo" /\ In(v.queues["fifo"], d) /\ v.table[d].staleTime = n
    BY DEF EventsOK
  <2>1. [of |-> d, at |-> n] \in v.staleEvents <=>
          [of |-> d, at |-> n] \in s.staleEvents /\ ~(d \in X /\ In(s.queues["fifo"], d))
    BY <1>2
  <2>2. [of |-> d, at |-> n] \in s.staleEvents <=>
          policy = "fifo" /\ In(s.queues["fifo"], d) /\ s.table[d].staleTime = n
    BY DEF StoreOK, EventsOK
  <2>3. In(v.queues["fifo"], d) => v.table[d] = s.table[d]
    <3>1. In(v.queues["fifo"], d) => d \in DOMAIN v.table
      BY <1>5, <1>8 DEF SharedOut
    <3> QED BY <1>2, <1>4, <3>1
  <2> QED BY <1>6, <1>8, <2>1, <2>2, <2>3
<1>10. QueuesOK(v)
  <2>1. policy = "lru" => \A t \in QueueTypes : \A d : In(v.queues[t], d) => t = "fifo"
    BY <1>6 DEF StoreOK, QueuesOK
  <2>2. ASSUME policy = "fifo", NEW d \in DOMAIN v.table
        PROVE  /\ In(v.queues["unsolicited"], d) <=> v.table[d].unsolicited
               /\ In(v.queues["stale"], d) => MaybeStale(v.table[d])
               /\ In(v.queues["fifo"], d) => MaybeFresh(v.table[d])
    <3>1. d \in DOMAIN s.table /\ d \notin X /\ v.table[d] = s.table[d]
      BY <1>2, <1>4, <2>2
    <3>2. /\ In(s.queues["unsolicited"], d) <=> s.table[d].unsolicited
          /\ In(s.queues["stale"], d) => MaybeStale(s.table[d])
          /\ In(s.queues["fifo"], d) => MaybeFresh(s.table[d])
      BY <2>2, <3>1 DEF StoreOK, QueuesOK
    <3> QED BY <1>6, <1>8, <3>1, <3>2
  <2> QED BY <2>1, <2>2 DEF QueuesOK
<1>11. OrderOK(v, r)
  BY <1>4, <1>6, <1>8 DEF StoreOK, OrderOK
<1> QED BY <1>5, <1>7, <1>9, <1>10, <1>11 DEF StoreOK, v

\* evictEntries leaves no more than the limit, and what it evicts was in a queue
\* of an earlier turn, or before the rest in the FIFO queue.
LEMMA EvictFacts ==
  ASSUME NEW s, NEW r, StoreOK(s, r), NEW lim \in Nat
  PROVE  LET v == EvictEntries(s, lim) IN
         /\ StoreOK(v, r)
         /\ IsFiniteSet(DOMAIN s.table) /\ Cardinality(DOMAIN v.table) <= lim
         /\ DOMAIN v.table \subseteq DOMAIN s.table
         /\ \A d \in DOMAIN v.table : v.table[d] = s.table[d]
         /\ \A d \in DOMAIN s.table \ DOMAIN v.table, e \in DOMAIN v.table :
              \/ In(s.queues["unsolicited"], d)
              \/ /\ In(s.queues["stale"], d)
                 /\ In(s.queues["stale"], e) \/ In(s.queues["fifo"], e)
              \/ Before(s.queues["fifo"], d, e)
<1> DEFINE order == EvictionOrder(s.queues)
           D == DOMAIN s.table
           excess == Cardinality(D) - lim
           victims == {order[n] : n \in 1 .. excess}
           v == EvictEntries(s, lim)
<1>1. s \in Stores /\ SharedOut(s.queues, D)
  BY DEF StoreOK
<1>2. /\ order \in Seq(Packets) /\ NoRepeat(order)
      /\ \A d : In(order, d) <=> d \in D
      /\ \A i, j \in 1 .. Len(order) : i < j =>
           \/ In(s.queues["unsolicited"], order[i])
           \/ /\ In(s.queues["stale"], order[i])
              /\ In(s.queues["stale"], order[j]) \/ In(s.queues["fifo"], order[j])
           \/ Before(s.queues["fifo"], order[i], order[j])
  BY <1>1, OrderFacts
<1>3. v = Removed(s, victims)
  BY DEF EvictEntries, Removed
<1> HIDE DEF order, v
<1>4. Len(order) \in Nat
  BY <1>2, LenProperties
<1>5. IsFiniteSet(D) /\ Cardinality(D) = Len(order)
  BY <1>2, <1>4, OrderCounts, 0 \in Nat, 0 <= Len(order)
<1>6. v.table = [d \in D \ victims |-> s.table[d]] /\ DOMAIN v.table = D \ victims
  <2> HIDE DEF victims
  <2>1. Removed(s, victims).table = [d \in DOMAIN s.table \ victims |-> s.table[d]]
    BY <1>1, RemovedFacts
  <2>2. v.table = [d \in DOMAIN s.table \ victims |-> s.table[d]]
    BY <1>3, <2>1
  <2> QED BY <2>2
<1>7. StoreOK(v, r)
  BY <1>3, RemovedOK
<1>8. Cardinality(D \ victims) <= lim
  <2>1. CASE excess <= 0
    <3>1. victims = {} /\ D \ victims = D
      BY <1>4, <1>5, <2>1
    <3>2. Cardinality(D) <= lim
      BY <1>4, <1>5, <2>1
    <3> HIDE DEF victims
    <3> QED BY <3>1, <3>2
  <2>2. CASE ~(excess <= 0)
    <3>1. excess \in Nat /\ excess <= Len(order)
      BY <1>4, <1>5, <2>2
    <3> HIDE DEF excess
    <3>2. /\ IsFiniteSet(victims) /\ Cardinality(victims) = excess /\ victims \subseteq D
      BY <1>2, <3>1, OrderCounts
    <3> HIDE DEF victims
    <3>3. D \cap victims = victims
      BY <3>2
    <3>4. Cardinality(D \ victims) = Cardinality(D) - Cardinality(victims)
      <4>1. IsFiniteSet(D)
        BY <1>5
      <4>2. Cardinality(D \ victims) = Cardinality(D) - Cardinality(D \cap victims)
        BY <4>1, FS_Difference
      <4> QED BY <3>3, <4>2
    <3> QED BY <1>4, <1>5, <3>2, <3>4 DEF excess
  <2> QED BY <2>1, <2>2
<1>9. ASSUME NEW d \in D \ DOMAIN v.table, NEW e \in DOMAIN v.table
      PROVE  \/ In(s.queues["unsolicited"], d)
             \/ /\ In(s.queues["stale"], d)
                /\ In(s.queues["stale"], e) \/ In(s.queues["fifo"], e)
             \/ Before(s.queues["fifo"], d, e)
  <2>1. d \in victims /\ e \in D /\ e \notin victims
    BY <1>6
  <2>2. PICK i \in 1 .. excess : order[i] = d
    BY <2>1
  <2>3. PICK j \in 1 .. Len(order) : order[j] = e
    BY <1>2, <2>1 DEF In
  <2>4. j \notin 1 .. excess
    BY <2>1, <2>3
  <2>5. excess \in Int /\ excess <= Len(order)
    BY <1>4, <1>5
  <2> HIDE DEF excess
  <2>6. i \in 1 .. Len(order) /\ i < j
    BY <1>4, <2>4, <2>5
  <2> QED BY <1>2, <2>2, <2>3, <2>6
<1> HIDE DEF victims
<1> QED BY <1>5, <1>6, <1>7, <1>8, <1>9 DEF v

LEMMA FreshnessType ==
  ASSUME NEW d \in Packets
  PROVE  Freshness[d] \in Nat \cup {Forever} /\ Forever \notin Nat
BY ContentStoreAssumption

\* Attaching an entry that is in no queue keeps a store in order, with its
\* packet as the most recent.
LEMMA AttachedOK ==
  ASSUME policy \in {"fifo", "lru"}, now \in Nat,
         NEW s, NEW r, StoreOK(s, r), NEW d \in Packets, d \notin DOMAIN s.table,
         NEW e \in Entry, e.staleTime = StaleTime(d), NEW t \in QueueFor(e)
  PROVE  LET v == AttachQueue(WithEntry(s, d, e), d, t) IN
         /\ StoreOK(v, Append(Without(r, {d}), d))
         /\ v.table = [x \in DOMAIN s.table \cup {d} |-> IF x = d THEN e ELSE s.table[x]]
<1> DEFINE v == AttachQueue(WithEntry(s, d, e), d, t)
           tb == [x \in DOMAIN s.table \cup {d} |-> IF x = d THEN e ELSE s.table[x]]
           w == Without(r, {d})
           r2 == Append(w, d)
<1>1. /\ s \in Stores /\ SharedOut(s.queues, DOMAIN s.table) /\ EventsOK(s)
      /\ QueuesOK(s) /\ OrderOK(s, r)
  BY DEF StoreOK
<1>2. /\ DOMAIN s.table \subseteq Packets /\ s.table \in [DOMAIN s.table -> Entry]
      /\ s = [table |-> s.table, queues |-> s.queues, staleEvents |-> s.staleEvents]
      /\ s.queues \in [QueueTypes -> Seq(Packets)]
      /\ s.staleEvents \in SUBSET [of : Packets, at : Nat]
  BY <1>1, TableFacts
<1>3. t \in QueueTypes
  BY DEF QueueFor, QueueTypes
<1>4. WithEntry(s, d, e) = [table |-> tb, queues |-> s.queues, staleEvents |-> s.staleEvents]
  BY <1>2 DEF WithEntry
<1>5. tb[d] = e /\ DOMAIN tb = DOMAIN s.table \cup {d} /\ \A x \in DOMAIN s.table : tb[x] = s.table[x]
  OBVIOUS
<1> HIDE DEF tb
<1> DEFINE timed == policy = "fifo" /\ t = "fifo" /\ e.staleTime # Forever
<1>6. v = [table |-> tb, queues |-> [s.queues EXCEPT ![t] = Append(@, d)],
           staleEvents |-> IF timed THEN s.staleEvents \cup {[of |-> d, at |-> now + Freshness[d]]}
                           ELSE s.staleEvents]
  <2> DEFINE s0 == WithEntry(s, d, e)
  <2>1. /\ s0 = [table |-> tb, queues |-> s.queues, staleEvents |-> s.staleEvents]
        /\ s0.table[d].staleTime = e.staleTime
    BY <1>4, <1>5
  <2>2. v = [s0 EXCEPT !.queues[t] = Append(@, d),
                       !.staleEvents = IF policy = "fifo" /\ t = "fifo"
                                            /\ s0.table[d].staleTime # Forever
                                       THEN @ \cup {[of |-> d, at |-> now + Freshness[d]]} ELSE @]
    BY DEF AttachQueue
  <2> HIDE DEF s0, v
  <2> QED BY <2>1, <2>2
<1> HIDE DEF v
<1>7. /\ v.table = tb /\ v.queues = [s.queues EXCEPT ![t] = Append(@, d)]
      /\ v.staleEvents = IF timed THEN s.staleEvents \cup {[of |-> d, at |-> now + Freshness[d]]}
                         ELSE s.staleEvents
  BY <1>6
<1>8. SharedOut(v.queues, DOMAIN v.table)
  <2>1. SharedOut([s.queues EXCEPT ![t] = Append(@, d)], DOMAIN s.table \cup {d})
    BY <1>1, <1>3, AttachShares
  <2> QED BY <1>5, <1>7, <2>1
<1>9. "fifo" \in QueueTypes /\ "stale" \in QueueTypes /\ "unsolicited" \in QueueTypes
  BY DEF QueueTypes
<1>10. ASSUME NEW u \in QueueTypes
       PROVE  /\ ~In(s.queues[u], d)
              /\ \A x : In(v.queues[u], x) <=> In(s.queues[u], x) \/ (u = t /\ x = d)
              /\ \A x, y : Before(v.queues[u], x, y) <=>
                             Before(s.queues[u], x, y) \/ (u = t /\ In(s.queues[u], x) /\ y = d)
  <2>1. v.queues[u] = IF u = t THEN Append(s.queues[u], d) ELSE s.queues[u]
    BY <1>2, <1>7
  <2>2. s.queues[u] \in Seq(Packets) /\ ~In(s.queues[u], d)
    BY <1>1, <1>2 DEF SharedOut
  <2>3. CASE u = t
    BY <2>1, <2>2, <2>3, AppendFacts
  <2>4. CASE u # t
    BY <2>1, <2>2, <2>4
  <2> QED BY <2>3, <2>4
<1>11. timed => Freshness[d] \in Nat /\ e.staleTime = now + Freshness[d]
  BY FreshnessType DEF StaleTime
<1>12. v \in Stores
  <2>1. v.table \in [DOMAIN v.table -> Entry] /\ DOMAIN v.table \in SUBSET Packets
    <3>1. DOMAIN v.table = DOMAIN s.table \cup {d} /\ \A x \in DOMAIN v.table : v.table[x] \in Entry
      BY <1>2, <1>5, <1>7
    <3>2. v.table = [x \in DOMAIN v.table |-> v.table[x]]
      BY <1>7 DEF tb
    <3> QED BY <1>2, <3>1, <3>2
  <2>2. v.queues \in [QueueTypes -> Seq(Packets)]
    BY <1>8 DEF SharedOut
  <2>3. v.staleEvents \in SUBSET [of : Packets, at : Nat]
    <3>1. CASE timed
      <4>1. now + Freshness[d] \in Nat
        BY <1>11, <3>1
      <4> QED BY <1>2, <1>7, <3>1, <4>1
    <3>2. CASE ~timed
      BY <1>2, <1>7, <3>2
    <3> QED BY <3>1, <3>2
  <2> QED BY <1>6, <1>7, <2>1, <2>2, <2>3 DEF Stores
<1>13. EventsOK(v)
  <2> SUFFICES ASSUME NEW x \in Packets, NEW n \in Nat
               PROVE  [of |-> x, at |-> n] \in v.staleEvents <=>
                        policy = "fifo" /\ In(v.queues["fifo"], x) /\ v.table[x].staleTime = n
    BY DEF EventsOK
  <2>1. [of |-> x, at |-> n] \in s.staleEvents <=>
          policy = "fifo" /\ In(s.queues["fifo"], x) /\ s.table[x].staleTime = n
    BY <1>1 DEF EventsOK
  <2>2. [of |-> x, at |-> n] \in v.staleEvents <=>
          [of |-> x, at |-> n] \in s.staleEvents \/ (timed /\ x = d /\ n = now + Freshness[d])
    BY <1>7
  <2>3. CASE x = d
    <3>1. [of |-> x, at |-> n] \notin s.staleEvents
      BY <1>9, <1>10, <2>1, <2>3
    <3>2. In(v.queues["fifo"], x) <=> t = "fifo"
      BY <1>9, <1>10, <2>3
    <3>3. v.table[x] = e
      BY <1>5, <1>7, <2>3
    <3>4. e.staleTime = n => e.staleTime # Forever
      BY FreshnessType
    <3> QED BY <1>11, <2>2, <2>3, <3>1, <3>2, <3>3, <3>4
  <2>4. CASE x # d
    <3>1. In(v.queues["fifo"], x) <=> In(s.queues["fifo"], x)
      BY <1>9, <1>10, <2>4
    <3>2. In(s.queues["fifo"], x) => v.table[x] = s.table[x]
      <4>1. In(s.queues["fifo"], x) => x \in DOMAIN s.table
        BY <1>1, <1>9 DEF SharedOut
      <4> QED BY <1>5, <1>7, <4>1
    <3> QED BY <2>1, <2>2, <2>4, <3>1, <3>2
  <2> QED BY <2>3, <2>4
<1>14. QueuesOK(v)
  <2>1. ASSUME policy = "lru", NEW u \in QueueTypes, NEW x, In(v.queues[u], x)
        PROVE  u = "fifo"
    BY <1>1, <1>10, <2>1 DEF QueuesOK, QueueFor
  <2>2. ASSUME policy = "fifo", NEW x \in DOMAIN v.table
        PROVE  /\ In(v.queues["unsolicited"], x) <=> v.table[x].unsolicited
               /\ In(v.queues["stale"], x) => MaybeStale(v.table[x])
               /\ In(v.queues["fifo"], x) => MaybeFresh(v.table[x])
    <3>1. CASE x = d
      <4>1. v.table[x] = e /\ \A u \in QueueTypes : In(v.queues[u], x) <=> u = t
        BY <1>5, <1>7, <1>10, <3>1
      <4>2. policy # "lru"
        BY <2>2
      <4>3. /\ t = "unsolicited" <=> e.unsolicited
            /\ t = "stale" => MaybeStale(e)
            /\ t = "fifo" => MaybeFresh(e)
        BY <4>2 DEF QueueFor
      <4> QED BY <1>9, <4>1, <4>3
    <3>2. CASE x # d
      <4>1. /\ x \in DOMAIN s.table /\ v.table[x] = s.table[x]
            /\ \A u \in QueueTypes : In(v.queues[u], x) <=> In(s.queues[u], x)
        BY <1>5, <1>7, <1>10, <3>2
      <4> QED BY <1>1, <1>9, <2>2, <4>1 DEF QueuesOK
    <3> QED BY <3>1, <3>2
  <2> QED BY <2>1, <2>2 DEF QueuesOK
<1>15. /\ r2 \in Seq(Packets)
       /\ \A x : In(r2, x) <=> In(r, x) \/ x = d
       /\ \A x, y : Before(r2, x, y) <=>
                      (x # d /\ Before(r, x, y) /\ y # d) \/ (In(r, x) /\ x # d /\ y = d)
  <2>1. /\ w \in Seq(Packets)
        /\ \A x : In(w, x) <=> In(r, x) /\ x # d
        /\ \A x, y : Before(w, x, y) <=> Before(r, x, y) /\ x # d /\ y # d
    BY <1>1, WithoutFacts DEF OrderOK
  <2> HIDE DEF w
  <2> QED BY <2>1, AppendFacts
<1> HIDE DEF r2
<1>16. OrderOK(v, r2)
  <2>1. ASSUME NEW x, NEW y, Before(v.queues["fifo"], x, y) PROVE Before(r2, x, y)
    <3>1. ASSUME NEW z, In(s.queues["fifo"], z) PROVE z # d /\ In(r, z)
      <4>1. z \in DOMAIN s.table
        BY <1>1, <1>9, <3>1 DEF SharedOut
      <4> QED BY <1>1, <4>1 DEF OrderOK
    <3>2. CASE Before(s.queues["fifo"], x, y)
      <4>1. In(s.queues["fifo"], x) /\ In(s.queues["fifo"], y)
        BY <3>2 DEF Before, In
      <4>2. Before(r, x, y)
        BY <1>1, <3>2 DEF OrderOK
      <4> QED BY <1>15, <3>1, <4>1, <4>2
    <3>3. CASE In(s.queues["fifo"], x) /\ y = d
      BY <1>15, <3>1, <3>3
    <3> QED BY <1>9, <1>10, <2>1, <3>2, <3>3
  <2>2. \A x \in DOMAIN v.table : In(r2, x)
    BY <1>1, <1>5, <1>7, <1>15 DEF OrderOK
  <2> QED BY <1>15, <2>1, <2>2 DEF OrderOK
<1>17. StoreOK(v, r2)
  BY <1>8, <1>12, <1>13, <1>14, <1>16 DEF StoreOK
<1> QED BY <1>7, <1>17 DEF v, tb, r2

-----------------------------------------------------------------------------
(* The actions keep the invariant                                             *)

LEMMA Fields ==
  /\ Store.table = table /\ Store.queues = queues /\ Store.staleEvents = staleEvents
BY DEF Store

\* The invariant reads the store, the policy and the time.
LEMMA NextStore ==
  ASSUME NEW v, v \in Stores, Become(v), StoreOK(v, recent'),
         policy' = policy, now' = now
  PROVE  StoreOK(Store, recent)'
<1>1. Store' = v
  BY TableFacts DEF Store, Become
<1>2. StoreOK(Store', recent')
  BY <1>1
<1> QED BY <1>2 DEF StoreOK, EventsOK, QueuesOK, OrderOK, MaybeStale, MaybeFresh

\* A limit evicts in order, whatever the store.
EvictsRight(v) ==
  \A d \in Evicted, e \in DOMAIN table' :
       IF policy = "lru" THEN Before(recent', d, e)
       ELSE \/ v.table[d].unsolicited
            \/ /\ ~table'[e].unsolicited
               /\ \/ MaybeStale(v.table[d])
                  \/ MaybeFresh(table'[e]) /\ Before(recent', d, e)

LEMMA EvictionInOrder ==
  ASSUME policy \in {"fifo", "lru"}, NEW v, StoreOK(v, recent'), NEW lim \in Nat,
         Become(EvictEntries(v, lim)), DOMAIN table \subseteq DOMAIN v.table
  PROVE  EvictsRight(v)
<1> SUFFICES ASSUME NEW d \in DOMAIN table \ DOMAIN table', NEW e \in DOMAIN table'
             PROVE  IF policy = "lru" THEN Before(recent', d, e)
                    ELSE \/ v.table[d].unsolicited
                         \/ /\ ~table'[e].unsolicited
                            /\ \/ MaybeStale(v.table[d])
                               \/ MaybeFresh(table'[e]) /\ Before(recent', d, e)
  BY DEF EvictsRight, Evicted
<1>1. table' = EvictEntries(v, lim).table
  BY DEF Become
<1>2. d \in DOMAIN v.table /\ e \in DOMAIN v.table /\ table'[e] = v.table[e]
  BY <1>1, EvictFacts
<1>3. \/ In(v.queues["unsolicited"], d)
      \/ In(v.queues["stale"], d) /\ (In(v.queues["stale"], e) \/ In(v.queues["fifo"], e))
      \/ Before(v.queues["fifo"], d, e)
  BY <1>1, <1>2, EvictFacts
<1>4. /\ SharedOut(v.queues, DOMAIN v.table) /\ QueuesOK(v) /\ OrderOK(v, recent')
      /\ {"fifo", "stale", "unsolicited"} \subseteq QueueTypes
  BY DEF StoreOK, QueueTypes
<1>5. Before(v.queues["fifo"], d, e) => Before(recent', d, e)
  BY <1>4 DEF OrderOK
<1>6. Before(v.queues["fifo"], d, e) => In(v.queues["fifo"], d) /\ In(v.queues["fifo"], e)
  BY DEF Before, In
<1>7. CASE policy = "lru"
  BY <1>3, <1>4, <1>5, <1>7 DEF QueuesOK
<1>8. CASE policy = "fifo"
  <2>1. In(v.queues["unsolicited"], d) => v.table[d].unsolicited
    BY <1>2, <1>4, <1>8 DEF QueuesOK
  <2>2. In(v.queues["stale"], e) \/ In(v.queues["fifo"], e) => ~v.table[e].unsolicited
    <3>1. In(v.queues["stale"], e) \/ In(v.queues["fifo"], e) => ~In(v.queues["unsolicited"], e)
      BY <1>4 DEF SharedOut
    <3> QED BY <1>2, <1>4, <1>8, <3>1 DEF QueuesOK
  <2>3. In(v.queues["stale"], d) => MaybeStale(v.table[d])
    BY <1>2, <1>4, <1>8 DEF QueuesOK
  <2>4. In(v.queues["fifo"], e) => MaybeFresh(v.table[e])
    BY <1>2, <1>4, <1>8 DEF QueuesOK
  <2> QED BY <1>2, <1>3, <1>5, <1>6, <1>8, <2>1, <2>2, <2>3, <2>4
<1> QED BY <1>7, <1>8

\* What Cs::insert does to the store, and what it evicts.
LEMMA InsertFacts ==
  ASSUME IInv, NEW d \in Packets, NEW unsolicited \in BOOLEAN, Insert(d, unsolicited)
  PROVE  IInv' /\ EvictsRight(Store)
<1> DEFINE e == Inserted(d, unsolicited)
           s0 == Removed(Store, {d})
<1>1. /\ policy \in {"fifo", "lru"} /\ now \in Nat /\ limit \in Nat
      /\ StoreOK(Store, recent) /\ WithinLimit
  BY DEF IInv
<1>2. StoreOK(s0, recent) /\ DOMAIN s0.table = DOMAIN table \ {d}
      /\ \A x \in DOMAIN s0.table : s0.table[x] = table[x]
  <2>1. StoreOK(s0, recent)
    BY <1>1, RemovedOK
  <2>2. s0.table = [x \in DOMAIN Store.table \ {d} |-> Store.table[x]]
    BY <1>1, RemovedFacts DEF StoreOK
  <2> HIDE DEF s0
  <2> QED BY <2>1, <2>2, Fields
<1>3. e \in Entry /\ e.staleTime = StaleTime(d)
  <2>1. StaleTime(d) \in Nat \cup {Forever}
    BY <1>1, FreshnessType DEF StaleTime
  <2> QED BY <2>1 DEF Inserted, Entry
<1>4. WithEntry(DetachQueue(Store, {d}), d, e) = WithEntry(s0, d, e)
  <2> DEFINE s1 == DetachQueue(Store, {d})
  <2>1. s1 = [table |-> table, queues |-> s1.queues, staleEvents |-> s1.staleEvents]
    <3> DEFINE qs == [u \in QueueTypes |-> Without(Store.queues[u], {d})]
               ev == {x \in Store.staleEvents :
                        ~(x.of \in {d} /\ InQueue(Store.queues, "fifo", x.of))}
    <3>1. s1 = [Store EXCEPT !.queues = qs, !.staleEvents = ev]
      BY DEF DetachQueue
    <3> HIDE DEF qs, ev, s1
    <3> QED BY <3>1 DEF Store
  <2>2. s0 = [s1 EXCEPT !.table = Restrict(table, DOMAIN table \ {d})]
    BY <2>1 DEF Removed
  <2> HIDE DEF s0, s1, e
  <2> DEFINE w == [x \in (DOMAIN table) \cup {d} |-> IF x = d THEN e ELSE table[x]]
             w0 == [x \in (DOMAIN table \ {d}) \cup {d} |->
                      IF x = d THEN e ELSE Restrict(table, DOMAIN table \ {d})[x]]
  <2>3. w = w0
    BY DEF Restrict
  <2>4. s0 = [table |-> Restrict(table, DOMAIN table \ {d}), queues |-> s1.queues,
              staleEvents |-> s1.staleEvents]
    BY <2>1, <2>2
  <2>5. DOMAIN Restrict(table, DOMAIN table \ {d}) = DOMAIN table \ {d}
    BY DEF Restrict
  <2>6. WithEntry(s1, d, e) = [table |-> w, queues |-> s1.queues, staleEvents |-> s1.staleEvents]
    BY <2>1 DEF WithEntry
  <2>7. WithEntry(s0, d, e) = [table |-> w0, queues |-> s1.queues, staleEvents |-> s1.staleEvents]
    BY SMTT(30), <2>4, <2>5 DEF WithEntry
  <2> QED BY <2>3, <2>6, <2>7 DEF s1
<1> HIDE DEF s0, e
<1>5. PICK t \in QueueFor(e) :
        Become(IF d \in DOMAIN table THEN AttachQueue(WithEntry(s0, d, e), d, t)
               ELSE EvictEntries(AttachQueue(WithEntry(s0, d, e), d, t), limit))
  BY <1>4 DEF Insert, e
<1> DEFINE v == AttachQueue(WithEntry(s0, d, e), d, t)
<1>6. /\ recent' = Append(Without(recent, {d}), d)
      /\ policy' = policy /\ now' = now /\ limit' = limit
  BY DEF Insert
<1>7. d \notin DOMAIN s0.table
  BY <1>2
<1>8. /\ StoreOK(v, recent')
      /\ v.table = [x \in DOMAIN s0.table \cup {d} |-> IF x = d THEN e ELSE s0.table[x]]
  <2>1. /\ StoreOK(AttachQueue(WithEntry(s0, d, e), d, t), Append(Without(recent, {d}), d))
        /\ AttachQueue(WithEntry(s0, d, e), d, t).table
             = [x \in DOMAIN s0.table \cup {d} |-> IF x = d THEN e ELSE s0.table[x]]
    BY <1>1, <1>2, <1>3, <1>7, AttachedOK
  <2> QED BY <1>6, <2>1
<1> HIDE DEF v
<1>9. DOMAIN v.table = DOMAIN table \cup {d}
  BY <1>2, <1>8
<1>10. CASE d \in DOMAIN table
  <2>1. Become(v) /\ DOMAIN v.table = DOMAIN table
    BY <1>5, <1>9, <1>10 DEF v
  <2>2. StoreOK(Store, recent)'
    BY <1>6, <1>8, <2>1, NextStore DEF StoreOK
  <2>3. DOMAIN table' = DOMAIN table
    BY <2>1 DEF Become
  <2>4. WithinLimit'
    BY <1>1, <1>6, <2>3 DEF WithinLimit
  <2>5. EvictsRight(Store)
    BY <2>3 DEF EvictsRight, Evicted
  <2> QED BY <1>1, <1>6, <2>2, <2>4, <2>5 DEF IInv
<1>11. CASE d \notin DOMAIN table
  <2>1. Become(EvictEntries(v, limit))
    BY <1>5, <1>11 DEF v
  <2>2. StoreOK(EvictEntries(v, limit), recent')
        /\ Cardinality(DOMAIN EvictEntries(v, limit).table) <= limit
    BY <1>1, <1>8, EvictFacts
  <2>3. StoreOK(Store, recent)'
    BY <1>6, <2>1, <2>2, NextStore DEF StoreOK
  <2>4. WithinLimit'
    BY <1>6, <2>1, <2>2 DEF WithinLimit, Become
  <2>5. EvictsRight(v)
    BY <1>1, <1>8, <1>9, <2>1, EvictionInOrder
  <2>6. \A x \in DOMAIN table : v.table[x] = Store.table[x]
    <3>1. ASSUME NEW x \in DOMAIN table PROVE v.table[x] = table[x]
      BY <1>2, <1>8, <1>11
    <3> QED BY <3>1, Fields
  <2>7. EvictsRight(Store)
    BY <2>5, <2>6 DEF EvictsRight, Evicted
  <2> QED BY <1>1, <1>6, <2>3, <2>4, <2>7 DEF IInv
<1> QED BY <1>10, <1>11

\* What Cs::setLimit does.
LEMMA SetLimitFacts ==
  ASSUME IInv, NEW lim \in Limits, SetLimit(lim)
  PROVE  IInv' /\ EvictsRight(Store)
<1>1. lim \in Nat /\ StoreOK(Store, recent)
  BY ContentStoreAssumption DEF IInv
<1>2. /\ Become(EvictEntries(Store, lim)) /\ limit' = lim
      /\ policy' = policy /\ now' = now /\ recent' = recent
  BY DEF SetLimit
<1>3. StoreOK(EvictEntries(Store, lim), recent)
      /\ Cardinality(DOMAIN EvictEntries(Store, lim).table) <= lim
  BY <1>1, EvictFacts
<1>4. StoreOK(Store, recent)'
  BY <1>2, <1>3, NextStore DEF StoreOK
<1>5. WithinLimit'
  BY <1>2, <1>3 DEF WithinLimit, Become
<1>6. EvictsRight(Store)
  BY <1>1, <1>2, EvictionInOrder, Fields DEF IInv
<1> QED BY <1>1, <1>2, <1>4, <1>5, <1>6 DEF IInv

\* What Cs::find does under LRU: the packet found is queued anew.
LEMMA FindHitFacts ==
  ASSUME IInv, NEW p \in Prefixes, NEW mustBeFresh \in BOOLEAN, FindHit(p, mustBeFresh)
  PROVE  IInv' /\ table' = table
<1>1. /\ policy \in {"fifo", "lru"} /\ now \in Nat /\ limit \in Nat
      /\ StoreOK(Store, recent) /\ WithinLimit
  BY DEF IInv
<1>2. PICK d \in Matches(p, mustBeFresh) :
        /\ IF policy = "lru"
           THEN /\ queues' = [queues EXCEPT !["fifo"] = Append(Without(@, {d}), d)]
                /\ recent' = Append(Without(recent, {d}), d)
           ELSE UNCHANGED <<queues, recent>>
        /\ UNCHANGED <<policy, now, limit, table, staleEvents>>
  BY DEF FindHit
<1>3. CASE policy # "lru"
  BY <1>1, <1>2, <1>3 DEF IInv, StoreOK, EventsOK, QueuesOK, OrderOK, MaybeStale, MaybeFresh,
                          Store, WithinLimit
<1>4. CASE policy = "lru"
  <2> DEFINE rest == Without(queues["fifo"], {d})
             w == Without(recent, {d})
  <2>1. /\ Store \in Stores /\ SharedOut(queues, DOMAIN table) /\ EventsOK(Store)
        /\ QueuesOK(Store) /\ OrderOK(Store, recent)
    BY <1>1, Fields DEF StoreOK
  <2>2. /\ DOMAIN table \subseteq Packets /\ table \in [DOMAIN table -> Entry]
        /\ queues \in [QueueTypes -> Seq(Packets)]
        /\ staleEvents \in SUBSET [of : Packets, at : Nat]
    BY <2>1, TableFacts, Fields
  <2>3. "fifo" \in QueueTypes /\ d \in DOMAIN table /\ d \in Packets /\ In(queues["fifo"], d)
    <3>1. "fifo" \in QueueTypes /\ d \in DOMAIN table
      BY DEF QueueTypes, Matches
    <3>2. \E t \in QueueTypes : In(queues[t], d)
      BY <2>1, <3>1 DEF SharedOut
    <3> QED BY <1>4, <2>1, <2>2, <3>1, <3>2, Fields DEF QueuesOK
  <2>4. /\ queues["fifo"] \in Seq(Packets) /\ rest \in Seq(Packets)
        /\ \A x : In(rest, x) <=> In(queues["fifo"], x) /\ x # d
        /\ \A x, y : Before(rest, x, y) <=> Before(queues["fifo"], x, y) /\ x # d /\ y # d
    BY <2>2, <2>3, WithoutFacts
  <2>5. /\ recent \in Seq(Packets) /\ w \in Seq(Packets)
        /\ \A x : In(w, x) <=> In(recent, x) /\ x # d
        /\ \A x, y : Before(w, x, y) <=> Before(recent, x, y) /\ x # d /\ y # d
    BY <2>1, WithoutFacts DEF OrderOK
  <2>6. /\ queues' = [queues EXCEPT !["fifo"] = Append(rest, d)] /\ recent' = Append(w, d)
        /\ UNCHANGED <<policy, now, limit, table, staleEvents>>
    BY <1>2, <1>4
  <2> HIDE DEF w
  <2>7. queues' \in [QueueTypes -> Seq(Packets)] /\ queues'["fifo"] = Append(rest, d)
    <3>1. Append(rest, d) \in Seq(Packets)
      BY <2>3, <2>4, AppendFacts
    <3> HIDE DEF rest
    <3> QED BY <2>2, <2>3, <2>6, <3>1
  <2>8. SharedOut(queues', DOMAIN table)
    <3>1. \A t \in QueueTypes : queues'[t] = Requeued(queues, "fifo", "fifo", d, t)
      BY <2>2, <2>6 DEF Requeued
    <3> HIDE DEF rest
    <3> QED BY <2>1, <2>3, <2>7, <3>1, RequeueShares
  <2> HIDE DEF rest
  <2>9. /\ \A x : In(queues'["fifo"], x) <=> In(rest, x) \/ x = d
        /\ \A x, y : Before(queues'["fifo"], x, y) <=> Before(rest, x, y) \/ (In(rest, x) /\ y = d)
    BY <2>3, <2>4, <2>7, AppendFacts
  <2>10. /\ recent' \in Seq(Packets)
         /\ \A x : In(recent', x) <=> In(w, x) \/ x = d
         /\ \A x, y : Before(recent', x, y) <=> Before(w, x, y) \/ (In(w, x) /\ y = d)
    BY <2>3, <2>5, <2>6, AppendFacts
  <2> DEFINE v == [table |-> table, queues |-> queues', staleEvents |-> staleEvents]
  <2>11. v \in Stores
    <3>1. table \in UNION {[D -> Entry] : D \in SUBSET Packets}
      BY <2>2
    <3> QED BY <2>2, <2>7, <3>1 DEF Stores
  <2>12. v.table = table /\ v.queues = queues' /\ v.staleEvents = staleEvents
    OBVIOUS
  <2> HIDE DEF v
  <2>13. EventsOK(v)
    BY <1>4, <2>1, <2>12, Fields DEF EventsOK
  <2>14. QueuesOK(v)
    <3>1. ASSUME NEW t \in QueueTypes, t # "fifo" PROVE queues'[t] = queues[t]
      BY <2>2, <2>6, <3>1
    <3> QED BY <1>4, <2>1, <2>12, <3>1, Fields DEF QueuesOK
  <2>15. OrderOK(v, recent')
    <3>1. ASSUME NEW x, NEW y, Before(queues'["fifo"], x, y) PROVE Before(recent', x, y)
      <4>1. CASE Before(rest, x, y)
        BY <2>1, <2>4, <2>5, <2>10, <4>1, Fields DEF OrderOK
      <4>2. CASE In(rest, x) /\ y = d
        <5>1. x \in DOMAIN table
          BY <2>1, <2>3, <2>4, <4>2 DEF SharedOut
        <5> QED BY <2>1, <2>4, <2>5, <2>10, <4>2, <5>1, Fields DEF OrderOK
      <4> QED BY <2>9, <3>1, <4>1, <4>2
    <3>2. \A x \in DOMAIN table : In(recent', x)
      BY <2>1, <2>5, <2>10, Fields DEF OrderOK
    <3> QED BY <2>10, <2>12, <3>1, <3>2 DEF OrderOK
  <2>16. StoreOK(v, recent')
    BY <2>8, <2>11, <2>12, <2>13, <2>14, <2>15 DEF StoreOK
  <2>17. StoreOK(Store, recent)'
    BY <2>6, <2>11, <2>12, <2>16, NextStore DEF Become
  <2> QED BY <1>1, <2>6, <2>17 DEF IInv, WithinLimit
<1> QED BY <1>2, <1>3, <1>4

\* What the timer of an entry does: it moves the entry to the stale queue.
LEMMA MoveToStaleFacts ==
  ASSUME IInv, NEW v \in staleEvents, MoveToStale(v)
  PROVE  IInv' /\ table' = table
<1> DEFINE d == v.of
           rest == Without(queues["fifo"], {d})
<1>1. /\ policy \in {"fifo", "lru"} /\ now \in Nat /\ limit \in Nat
      /\ StoreOK(Store, recent) /\ WithinLimit
  BY DEF IInv
<1>2. /\ staleEvents' = staleEvents \ {v} /\ v.at <= now
      /\ queues' = [queues EXCEPT !["fifo"] = rest, !["stale"] = Append(@, d)]
      /\ UNCHANGED <<policy, now, limit, table, recent>>
  BY DEF MoveToStale
<1>3. /\ Store \in Stores /\ SharedOut(queues, DOMAIN table) /\ EventsOK(Store)
      /\ QueuesOK(Store) /\ OrderOK(Store, recent)
  BY <1>1, Fields DEF StoreOK
<1>4. /\ DOMAIN table \subseteq Packets /\ table \in [DOMAIN table -> Entry]
      /\ queues \in [QueueTypes -> Seq(Packets)]
      /\ staleEvents \in SUBSET [of : Packets, at : Nat]
  BY <1>3, TableFacts, Fields
<1>5. d \in Packets /\ v.at \in Nat /\ v = [of |-> d, at |-> v.at]
  BY <1>4
<1>6. policy = "fifo" /\ In(queues["fifo"], d) /\ table[d].staleTime = v.at
  BY <1>3, <1>5, Fields DEF EventsOK
<1> HIDE DEF d
<1>7. /\ "fifo" \in QueueTypes /\ "stale" \in QueueTypes /\ "unsolicited" \in QueueTypes
      /\ "fifo" # "stale" /\ d \in DOMAIN table
  BY <1>3, <1>6 DEF SharedOut, QueueTypes
<1>8. /\ queues["fifo"] \in Seq(Packets) /\ rest \in Seq(Packets)
      /\ \A x : In(rest, x) <=> In(queues["fifo"], x) /\ x # d
      /\ \A x, y : Before(rest, x, y) <=> Before(queues["fifo"], x, y) /\ x # d /\ y # d
  <2>1. queues["fifo"] \in Seq(Packets)
    BY <1>4, <1>7
  <2> QED BY <2>1, WithoutFacts
<1>9. /\ Append(queues["stale"], d) \in Seq(Packets)
      /\ \A x : In(Append(queues["stale"], d), x) <=> In(queues["stale"], x) \/ x = d
  BY <1>4, <1>5, <1>7, AppendFacts
<1> HIDE DEF rest
<1>10. /\ queues'["fifo"] = rest /\ queues'["stale"] = Append(queues["stale"], d)
       /\ queues'["unsolicited"] = queues["unsolicited"]
       /\ queues' \in [QueueTypes -> Seq(Packets)]
  BY <1>2, <1>4, <1>7, <1>8, <1>9
<1>11. SharedOut(queues', DOMAIN table)
  <2>1. \A t \in QueueTypes : queues'[t] = Requeued(queues, "fifo", "stale", d, t)
    BY <1>10 DEF QueueTypes, rest, Requeued
  <2> QED BY <1>3, <1>5, <1>6, <1>7, <1>10, <2>1, RequeueShares
<1> DEFINE s == [table |-> table, queues |-> queues', staleEvents |-> staleEvents']
<1>12. s \in Stores
  <2>1. table \in UNION {[D -> Entry] : D \in SUBSET Packets}
    BY <1>4
  <2>2. staleEvents' \in SUBSET [of : Packets, at : Nat]
    BY <1>2, <1>4
  <2> QED BY <1>10, <2>1, <2>2 DEF Stores
<1>13. s.table = table /\ s.queues = queues' /\ s.staleEvents = staleEvents'
  OBVIOUS
<1> HIDE DEF s
<1>14. EventsOK(s)
  <2> SUFFICES ASSUME NEW x \in Packets, NEW n \in Nat
               PROVE  [of |-> x, at |-> n] \in staleEvents' <=>
                        policy = "fifo" /\ In(queues'["fifo"], x) /\ table[x].staleTime = n
    BY <1>13 DEF EventsOK
  <2>1. [of |-> x, at |-> n] \in staleEvents <=>
          policy = "fifo" /\ In(queues["fifo"], x) /\ table[x].staleTime = n
    BY <1>3, Fields DEF EventsOK
  <2>2. [of |-> x, at |-> n] = v <=> x = d /\ n = v.at
    BY <1>5
  <2> QED BY <1>2, <1>6, <1>8, <1>10, <2>1, <2>2
<1>15. QueuesOK(s)
  <2>1. ASSUME NEW x \in DOMAIN table
        PROVE  /\ In(queues'["unsolicited"], x) <=> table[x].unsolicited
               /\ In(queues'["stale"], x) => MaybeStale(table[x])
               /\ In(queues'["fifo"], x) => MaybeFresh(table[x])
    <3>1. /\ In(queues["unsolicited"], x) <=> table[x].unsolicited
          /\ In(queues["stale"], x) => MaybeStale(table[x])
          /\ In(queues["fifo"], x) => MaybeFresh(table[x])
      BY <1>3, <1>6, Fields DEF QueuesOK
    <3>2. MaybeStale(table[d])
      BY <1>2, <1>5, <1>6, FreshnessType DEF MaybeStale
    <3> QED BY <1>8, <1>9, <1>10, <3>1, <3>2
  <2> QED BY <1>6, <1>13, <2>1 DEF QueuesOK
<1>16. OrderOK(s, recent')
  BY ZenonT(30), <1>2, <1>3, <1>8, <1>10, <1>13, Fields DEF OrderOK
<1>17. StoreOK(s, recent')
  BY <1>11, <1>12, <1>13, <1>14, <1>15, <1>16 DEF StoreOK
<1>18. StoreOK(Store, recent)'
  BY <1>2, <1>12, <1>13, <1>17, NextStore DEF Become
<1> QED BY <1>1, <1>2, <1>18 DEF IInv, WithinLimit

\* Time passes only while no timer is due, so what is not stale becomes so in the
\* stale queue.
LEMMA TickFacts ==
  ASSUME IInv, Tick
  PROVE  IInv' /\ table' = table
<1>1. /\ policy \in {"fifo", "lru"} /\ now \in Nat /\ limit \in Nat
      /\ StoreOK(Store, recent) /\ WithinLimit
  BY DEF IInv
<1>2. /\ \A v \in staleEvents : v.at > now
      /\ now' = now + 1 /\ UNCHANGED <<policy, limit, table, queues, staleEvents, recent>>
  BY DEF Tick
<1>3. Store' = Store
  BY <1>2 DEF Store
<1>4. /\ Store \in Stores /\ SharedOut(queues, DOMAIN table) /\ EventsOK(Store)
      /\ QueuesOK(Store) /\ OrderOK(Store, recent)
  BY <1>1, Fields DEF StoreOK
<1>5. /\ DOMAIN table \subseteq Packets /\ table \in [DOMAIN table -> Entry]
  BY <1>4, TableFacts, Fields
<1>6. QueuesOK(Store)'
  <2>1. policy = "lru" => \A t \in QueueTypes : \A d : In(queues[t], d) => t = "fifo"
    BY <1>4, Fields DEF QueuesOK
  <2>2. ASSUME policy = "fifo", NEW d \in DOMAIN table
        PROVE  /\ In(queues["unsolicited"], d) <=> table[d].unsolicited
               /\ In(queues["stale"], d) => MaybeStale(table[d])'
               /\ In(queues["fifo"], d) => MaybeFresh(table[d])'
    <3>1. /\ In(queues["unsolicited"], d) <=> table[d].unsolicited
          /\ In(queues["stale"], d) => MaybeStale(table[d])
          /\ In(queues["fifo"], d) => MaybeFresh(table[d])
      BY <1>4, <2>2, Fields DEF QueuesOK
    <3>2. table[d].staleTime \in Nat \cup {Forever} /\ d \in Packets
      BY <1>5 DEF Entry
    <3>3. MaybeStale(table[d]) => MaybeStale(table[d])'
      BY <1>1, <1>2, <3>2 DEF MaybeStale
    <3>4. In(queues["fifo"], d) => MaybeFresh(table[d])'
      <4>1. CASE table[d].staleTime = Forever
        BY <1>2, <4>1 DEF MaybeFresh
      <4>2. CASE table[d].staleTime \in Nat
        <5> DEFINE n == table[d].staleTime
        <5>1. ASSUME In(queues["fifo"], d) PROVE n > now
          <6>1. [of |-> d, at |-> n] \in staleEvents
            BY <1>4, <2>2, <3>2, <4>2, <5>1, Fields DEF EventsOK
          <6> QED BY <1>2, <6>1
        <5> QED BY <1>1, <1>2, <4>2, <5>1 DEF MaybeFresh
      <4> QED BY <3>2, <4>1, <4>2
    <3> QED BY <3>1, <3>3, <3>4
  <2>3. Store.queues' = queues /\ Store.table' = table /\ policy' = policy
    BY <1>2, <1>3, Fields
  <2> QED BY <2>1, <2>2, <2>3, <1>2 DEF QueuesOK, MaybeStale, MaybeFresh
<1>7. StoreOK(Store, recent)'
  BY <1>1, <1>2, <1>3, <1>6 DEF StoreOK, EventsOK, OrderOK
<1> QED BY <1>1, <1>2, <1>7 DEF IInv, WithinLimit

-----------------------------------------------------------------------------
(* The theorems                                                               *)

LEMMA InitIInv == Init => IInv
<1> SUFFICES ASSUME Init PROVE IInv
  OBVIOUS
<1>1. /\ policy \in {"fifo", "lru"} /\ now \in Nat /\ limit \in Nat
      /\ DOMAIN table = {} /\ table \in [{} -> Entry]
      /\ queues = [t \in QueueTypes |-> <<>>] /\ staleEvents = {} /\ recent = <<>>
  BY ContentStoreAssumption DEF Init
<1>2. /\ \A t \in QueueTypes : queues[t] = <<>> /\ \A d : ~In(queues[t], d)
      /\ "fifo" \in QueueTypes
  BY <1>1 DEF In, QueueTypes
<1>3. queues \in [QueueTypes -> Seq(Packets)]
  BY <1>1
<1>4. Store \in Stores
  <2>1. table \in UNION {[D -> Entry] : D \in SUBSET Packets}
    BY <1>1
  <2> QED BY <1>1, <1>3, <2>1 DEF Stores, Store
<1>5. SharedOut(queues, DOMAIN table)
  BY <1>1, <1>2, <1>3 DEF SharedOut, NoRepeat
<1>6. EventsOK(Store) /\ QueuesOK(Store)
  BY <1>1, <1>2, Fields DEF EventsOK, QueuesOK, QueueTypes
<1>7. OrderOK(Store, recent)
  BY <1>1, <1>2, Fields DEF OrderOK, Before
<1>8. WithinLimit
  BY <1>1, FS_EmptySet DEF WithinLimit
<1> QED BY <1>1, <1>4, <1>5, <1>6, <1>7, <1>8, Fields DEF IInv, StoreOK

\* Every step keeps the invariant and evicts in order.
LEMMA NextFacts ==
  ASSUME IInv, [Next]_vars
  PROVE  IInv' /\ EvictsRight(Store)
<1>1. ASSUME NEW d \in Packets, NEW noCache \in BOOLEAN, InsertNothing(d, noCache)
      PROVE  UNCHANGED vars
  BY <1>1 DEF InsertNothing
<1>2. ASSUME NEW p \in Prefixes, NEW mustBeFresh \in BOOLEAN, FindMiss(p, mustBeFresh)
      PROVE  UNCHANGED vars
  BY <1>2 DEF FindMiss
<1>3. CASE UNCHANGED vars
  <2>1. Store' = Store /\ table' = table
    BY <1>3 DEF vars, Store
  <2>2. IInv'
    BY <1>3, <2>1 DEF vars, IInv, StoreOK, EventsOK, QueuesOK, OrderOK, MaybeStale, MaybeFresh,
                      WithinLimit
  <2> QED BY <2>1, <2>2 DEF EvictsRight, Evicted
<1>4. ASSUME table' = table PROVE EvictsRight(Store)
  BY <1>4 DEF EvictsRight, Evicted
<1>5. ASSUME NEW d \in Packets, NEW unsolicited \in BOOLEAN, Insert(d, unsolicited)
      PROVE  IInv' /\ EvictsRight(Store)
  BY <1>5, InsertFacts
<1>6. ASSUME NEW p \in Prefixes, NEW mustBeFresh \in BOOLEAN, FindHit(p, mustBeFresh)
      PROVE  IInv' /\ EvictsRight(Store)
  BY <1>4, <1>6, FindHitFacts
<1>7. ASSUME NEW lim \in Limits, SetLimit(lim)
      PROVE  IInv' /\ EvictsRight(Store)
  BY <1>7, SetLimitFacts
<1>8. ASSUME NEW v \in staleEvents, MoveToStale(v)
      PROVE  IInv' /\ EvictsRight(Store)
  BY <1>4, <1>8, MoveToStaleFacts
<1>9. CASE Tick
  BY <1>4, <1>9, TickFacts
<1> QED BY <1>1, <1>2, <1>3, <1>5, <1>6, <1>7, <1>8, <1>9 DEF Next

\* The inductive invariant: every packet of the table is in one queue, once; the
\* queue it is in says whether it is unsolicited, stale or fresh; a timer runs
\* for those that will turn stale; the FIFO queue is in the order of use.
THEOREM Invariance == Spec => []IInv
<1>1. IInv /\ [Next]_vars => IInv'
  BY NextFacts
<1> QED BY <1>1, InitIInv, PTL DEF Spec

\* The state of the store keeps its types.
THEOREM TypeCorrect == Spec => []TypeOK
<1>1. IInv => TypeOK
  <2> SUFFICES ASSUME IInv PROVE TypeOK
    OBVIOUS
  <2>1. Store \in Stores /\ recent \in Seq(Packets)
    BY DEF IInv, StoreOK, OrderOK
  <2> QED BY <2>1, TableFacts, Fields DEF IInv, TypeOK
<1> QED BY <1>1, Invariance, PTL

\* The store never holds more than its limit.
THEOREM LimitIsKept == Spec => []WithinLimit
<1>1. IInv => WithinLimit
  BY DEF IInv
<1> QED BY <1>1, Invariance, PTL

\* No timer is left over from an entry that was refreshed or evicted.
THEOREM TimersAreLive == Spec => []StaleEventsAreLive
<1>1. IInv => StaleEventsAreLive
  <2> SUFFICES ASSUME IInv PROVE StaleEventsAreLive
    OBVIOUS
  <2>1. /\ Store \in Stores /\ SharedOut(queues, DOMAIN table) /\ EventsOK(Store)
    BY Fields DEF IInv, StoreOK
  <2>2. /\ DOMAIN table \subseteq Packets /\ table \in [DOMAIN table -> Entry]
        /\ staleEvents \in SUBSET [of : Packets, at : Nat]
    BY <2>1, TableFacts, Fields
  <2>3. \A d \in Packets, n \in Nat :
          [of |-> d, at |-> n] \in staleEvents <=>
            policy = "fifo" /\ In(queues["fifo"], d) /\ table[d].staleTime = n
    BY <2>1, Fields DEF EventsOK
  <2>4. \A d : In(queues["fifo"], d) <=> InQueue(queues, "fifo", d)
    BY DEF In, InQueue
  <2>5. \A d : In(queues["fifo"], d) => d \in DOMAIN table
    BY <2>1 DEF SharedOut, QueueTypes
  <2> DEFINE live == {x \in DOMAIN table : /\ policy = "fifo" /\ InQueue(queues, "fifo", x)
                                           /\ table[x].staleTime # Forever}
  <2>6. ASSUME NEW v \in staleEvents
        PROVE  v \in {[of |-> d, at |-> table[d].staleTime] : d \in live}
    <3>1. v.of \in Packets /\ v.at \in Nat /\ v = [of |-> v.of, at |-> v.at]
      BY <2>2
    <3>2. policy = "fifo" /\ In(queues["fifo"], v.of) /\ table[v.of].staleTime = v.at
      BY <2>3, <3>1
    <3>3. v.of \in live
      BY <2>4, <2>5, <3>1, <3>2, FreshnessType
    <3> HIDE DEF live
    <3> QED BY <3>1, <3>2, <3>3
  <2>7. ASSUME NEW d \in live
        PROVE  [of |-> d, at |-> table[d].staleTime] \in staleEvents
    <3>1. table[d].staleTime \in Nat /\ d \in Packets
      BY <2>2 DEF Entry
    <3> QED BY <2>3, <2>4, <3>1
  <2> HIDE DEF live
  <2>8. staleEvents = {[of |-> d, at |-> table[d].staleTime] : d \in live}
    BY <2>6, <2>7
  <2> QED BY <2>8 DEF live, StaleEventsAreLive
<1> QED BY <1>1, Invariance, PTL

\* Whatever is evicted, by an insertion or by a lower limit, goes in order.
THEOREM EvictionIsInOrder == Spec => EvictsInOrder
<1>1. IInv /\ [Next]_vars =>
        [\A d \in Evicted, e \in DOMAIN table' :
           IF policy = "lru" THEN Before(recent', d, e)
           ELSE \/ table[d].unsolicited
                \/ /\ ~table'[e].unsolicited
                   /\ \/ MaybeStale(table[d])
                      \/ MaybeFresh(table'[e]) /\ Before(recent', d, e)]_vars
  BY NextFacts, Fields DEF EvictsRight
<1> QED BY <1>1, Invariance, PTL DEF Spec, EvictsInOrder

=============================================================================
