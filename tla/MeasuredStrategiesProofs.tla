----------------------- MODULE MeasuredStrategiesProofs -----------------------
(***************************************************************************)
(* Theorems on the strategies that keep measurements or timers: the name   *)
(* tree under the tables stays sound, an item of a strategy belongs to the *)
(* strategy in effect, and the timers of the access strategy and of ASF    *)
(* are known to the items that will be told of them.                       *)
(***************************************************************************)
EXTENDS MeasuredStrategies, FiniteSetTheorems, SequenceTheorems, WellFoundedInduction, TLAPS

-----------------------------------------------------------------------------
(* Names.                                                                   *)

\* A prefix of a name is a name of its length, and a prefix of a prefix is a prefix.
LEMMA NameFacts ==
  ASSUME NEW name \in Names
  PROVE  /\ Len(name) \in Nat
         /\ name = <<>> <=> Len(name) = 0
         /\ \A len \in 0..Len(name) : Prefix(name, len) \in Names /\ Len(Prefix(name, len)) = len
         /\ Prefix(name, Len(name)) = name
         /\ Prefix(name, 0) = <<>>
         /\ \A k \in 0..Len(name) : \A j \in 0..k : Prefix(Prefix(name, k), j) = Prefix(name, j)
         /\ name # <<>> => Parent(name) \in Names /\ Len(Parent(name)) = Len(name) - 1
<1> DEFINE C == DOMAIN ComponentHash
<1>1. name \in Seq(C)
  BY NamesAssumption
<1>2. Len(name) \in Nat /\ DOMAIN name = 1..Len(name) /\ \A i \in 1..Len(name) : name[i] \in C
  BY <1>1, LenProperties, ElementOfSeq
<1>3. name = <<>> <=> Len(name) = 0
  BY <1>1, EmptySeq
<1>4. ASSUME NEW len \in 0..Len(name)
      PROVE  /\ Prefix(name, len) \in Names /\ Len(Prefix(name, len)) = len
             /\ \A i \in 1..len : Prefix(name, len)[i] = name[i]
  <2>1. Prefix(name, len) \in Names
    BY NamesAssumption
  <2>2. 1 \in Int /\ len \in Int /\ \A i \in 1..len : name[i] \in C
    BY <1>2
  <2>3. /\ Len(SubSeq(name, 1, len)) = IF 1 <= len THEN len - 1 + 1 ELSE 0
        /\ \A i \in 1..(len - 1 + 1) : SubSeq(name, 1, len)[i] = name[1 + i - 1]
    BY <2>2, SubSeqProperties
  <2> QED BY <2>1, <2>3, <1>2 DEF Prefix
<1>5. Prefix(name, Len(name)) = name
  BY <1>1, SubSeqFull DEF Prefix
<1>6. Prefix(name, 0) = <<>>
  BY SubSeqEmpty, 1 \in Int, 0 \in Int DEF Prefix
<1>7. ASSUME NEW k \in 0..Len(name), NEW j \in 0..k
      PROVE  Prefix(Prefix(name, k), j) = Prefix(name, j)
  <2> DEFINE p == Prefix(name, k)
             q == Prefix(p, j)
             r == Prefix(name, j)
  <2>1. p \in Names /\ Len(p) = k /\ p \in Seq(C) /\ \A i \in 1..k : p[i] = name[i]
    BY <1>4, NamesAssumption
  <2>2. j \in 0..Len(name) /\ r \in Names /\ Len(r) = j /\ r \in Seq(C) /\ \A i \in 1..j : r[i] = name[i]
    BY <1>2, <1>4, NamesAssumption
  <2>3. 1 \in Int /\ j \in Int /\ \A i \in 1..j : p[i] \in C
    BY <1>2, <2>1
  <2> HIDE DEF p, r
  <2>4. /\ q \in Seq(C) /\ Len(q) = j /\ \A i \in 1..(j - 1 + 1) : q[i] = p[1 + i - 1]
    BY <2>3, SubSeqProperties DEF Prefix
  <2> HIDE DEF q
  <2>5. \A i \in 1..j : q[i] = r[i]
    BY <1>2, <2>1, <2>2, <2>4
  <2>6. q = r
    BY <2>2, <2>4, <2>5, SeqEqual
  <2> QED BY <2>6 DEF p, q, r
<1>8. name # <<>> => Parent(name) \in Names /\ Len(Parent(name)) = Len(name) - 1
  <2>1. name # <<>> => Len(name) - 1 \in 0..Len(name)
    BY <1>2, <1>3
  <2> QED BY <2>1, <1>4 DEF Parent
<1> HIDE DEF C
<1> QED BY <1>2, <1>3, <1>4, <1>5, <1>6, <1>7, <1>8

\* A name begins with another one when its prefix of that length is that one.
LEMMA PrefixIs ==
  ASSUME NEW p \in Names, NEW name \in Names
  PROVE  IsPrefix(p, name) <=> Len(p) <= Len(name) /\ p = Prefix(name, Len(p))
<1>1. Prefix(p, Len(p)) = p
  BY NameFacts
<1> QED BY <1>1 DEF IsPrefix, Prefix

LEMMA PrefixesArePrefixes ==
  ASSUME NEW name \in Names, NEW len \in 0..Len(name)
  PROVE  IsPrefix(Prefix(name, len), name)
<1>1. Len(name) \in Nat /\ Prefix(name, len) \in Names /\ Len(Prefix(name, len)) = len
  BY NameFacts
<1> QED BY <1>1, PrefixIs

LEMMA PrefixIsReflexive ==
  ASSUME NEW name \in Names
  PROVE  IsPrefix(name, name) /\ IsPrefix(<<>>, name)
<1>1. <<>> \in Names /\ Len(<<>>) = 0 /\ Len(name) \in Nat
  BY NameFacts, NamesAssumption, EmptySeq
<1>2. name = Prefix(name, Len(name)) /\ <<>> = Prefix(name, 0)
  BY NameFacts
<1> QED BY <1>1, <1>2, PrefixIs

\* The prefixes of a name are prefixes of each other, the shorter of the longer.
LEMMA PrefixesAreNested ==
  ASSUME NEW p \in Names, NEW q \in Names, NEW name \in Names,
         IsPrefix(p, name), IsPrefix(q, name), Len(p) <= Len(q)
  PROVE  IsPrefix(p, q) /\ (Len(p) = Len(q) => p = q)
<1>1. /\ Len(p) \in Nat /\ Len(q) \in Nat /\ Len(name) \in Nat
      /\ Len(p) <= Len(name) /\ p = Prefix(name, Len(p))
      /\ Len(q) <= Len(name) /\ q = Prefix(name, Len(q))
  BY NameFacts, PrefixIs
<1>2. Prefix(Prefix(name, Len(q)), Len(p)) = Prefix(name, Len(p))
  BY <1>1, NameFacts, Len(q) \in 0..Len(name), Len(p) \in 0..Len(q)
<1> QED BY <1>1, <1>2, PrefixIs

LEMMA PrefixIsTransitive ==
  ASSUME NEW p \in Names, NEW q \in Names, NEW name \in Names,
         IsPrefix(p, q), IsPrefix(q, name)
  PROVE  IsPrefix(p, name)
<1>1. /\ Len(p) \in Nat /\ Len(q) \in Nat /\ Len(name) \in Nat
      /\ Len(p) <= Len(q) /\ p = Prefix(q, Len(p))
      /\ Len(q) <= Len(name) /\ q = Prefix(name, Len(q))
  BY NameFacts, PrefixIs
<1>2. Prefix(Prefix(name, Len(q)), Len(p)) = Prefix(name, Len(p))
  BY <1>1, NameFacts, Len(q) \in 0..Len(name), Len(p) \in 0..Len(q)
<1> QED BY <1>1, <1>2, PrefixIs

\* A name that is not the root's begins with its parent.
LEMMA ParentFacts ==
  ASSUME NEW name \in Names, name # <<>>
  PROVE  /\ Parent(name) \in Names /\ Len(Parent(name)) = Len(name) - 1 /\ Len(name) \in Nat \ {0}
         /\ IsPrefix(Parent(name), name) /\ Parent(name) # name
         /\ \A len \in 0..(Len(name) - 1) : Prefix(Parent(name), len) = Prefix(name, len)
<1>1. Len(name) \in Nat /\ Len(name) # 0 /\ Len(name) - 1 \in 0..Len(name)
  BY NameFacts
<1>2. Parent(name) = Prefix(name, Len(name) - 1)
  BY DEF Parent
<1> QED BY <1>1, <1>2, NameFacts, PrefixesArePrefixes
-----------------------------------------------------------------------------
(* Recursion.  A function that is defined by recursion on the numbers up to *)
(* some N, or on the subsets of a finite set, exists: by induction there is *)
(* one on the first n numbers, or on the sets of at most n elements.  The   *)
(* steps of all the recursions of the modules are gathered here, so that    *)
(* this is shown once; k tells which one is meant.                          *)

\* A non-empty set of natural numbers has a least element.
LEMMA Least ==
  ASSUME NEW T, T \subseteq Nat, T # {}
  PROVE  \E n \in T : \A m \in T : n <= m
<1> DEFINE R == StrictSubsetOrdering(Nat)
           below == {1 .. n : n \in T}
<1>1. IsWellFoundedOn(R, FiniteSubsetsOf(Nat))
  BY FS_StrictSubsetOrderingWellFounded
<1>2. below # {}
  OBVIOUS
<1>3. below \subseteq FiniteSubsetsOf(Nat)
  <2> SUFFICES ASSUME NEW n \in T PROVE 1 .. n \in FiniteSubsetsOf(Nat)
    OBVIOUS
  <2>1. IsFiniteSet(1 .. n)
    BY FS_Interval, n \in Int, 1 \in Int
  <2>2. (1 .. n) \subseteq Nat
    OBVIOUS
  <2> QED BY <2>1, <2>2 DEF FiniteSubsetsOf
<1> HIDE DEF below
<1>4. PICK s \in below : \A t \in below : ~(<<t, s>> \in R)
  BY <1>1, <1>2, <1>3, WFMin
<1>5. PICK n \in T : s = 1 .. n
  BY DEF below
<1>6. ASSUME NEW m \in T, m < n PROVE FALSE
  <2>1. (1 .. m) \in below
    BY DEF below
  <2>2. (1 .. m) \subseteq (1 .. n) /\ n \in 1 .. n /\ n \notin 1 .. m
    BY <1>6
  <2>3. (1 .. m) \in SUBSET Nat /\ (1 .. n) \in SUBSET Nat
    OBVIOUS
  <2>4. <<1 .. m, 1 .. n>> \in R
    BY <2>2, <2>3, Zenon DEF StrictSubsetOrdering
  <2> QED BY <2>1, <2>4, <1>4, <1>5
<1> QED BY <1>6

\* Induction up to N over the numbers that are in S.
LEMMA UpTo ==
  ASSUME NEW N \in Nat, NEW S, 0 \in S,
         \A n \in 0 .. N : n < N /\ n \in S => n + 1 \in S
  PROVE  \A n \in 0 .. N : n \in S
<1> DEFINE T == {n \in 0 .. N : n \notin S}
<1>1. CASE T = {}
  BY <1>1
<1>2. CASE T # {}
  <2>1. PICK n \in T : \A m \in T : n <= m
    BY <1>2, Least, T \subseteq Nat
  <2>2. n \in 1 .. N /\ n - 1 \in 0 .. N /\ n - 1 < N /\ (n - 1) + 1 = n
    BY <2>1
  <2>3. n - 1 \in S
    BY <2>1, <2>2
  <2> QED BY <2>1, <2>2, <2>3
<1> QED BY <1>1, <1>2
WithFacesStep(t, name, len, filledAbove) ==
  LET at == Prefix(name, len)
      above == Prefix(name, len - 1)
      inherits == len # 0 /\ MayMeasure(t, "ncc", above)
      filled == IF inherits THEN filledAbove ELSE MeasuredParent(t, at)
  IN  IF at \in DOMAIN t.measured /\ HasInfo(t, "ncc", at) THEN t
      ELSE SetInfo(Measured(filled, at), "ncc", at,
                   IF inherits THEN filled.measured[above]["ncc"] ELSE NewFaces)

EraseStep(name, used, up, below) ==
  LET ancestor == Prefix(name, Len(name) - up)
  IN  IF ancestor \in Nodes(below) THEN EraseNodeIfEmpty(below, used, ancestor) ELSE below

NumberStep(k, n, v) ==
  CASE k[1] = "lookup" -> Insert(v, Prefix(k[2], n))
    [] k[1] = "erase" -> EraseStep(k[2], k[3], n, v)
    [] k[1] = "faces" -> WithFacesStep(k[2], k[3], n, v)
    [] k[1] = "namespace" -> Measured(v, Prefix(k[2], k[3] + n))

RecursOnNumbers(f, k, base, N) ==
  f = [n \in 0..N |-> NumberStep(k, n, IF n = 0 THEN base ELSE f[n - 1])]

\* There is a function that is defined by recursion on the numbers up to N.
LEMMA NumberRecursion ==
  ASSUME NEW k, NEW base, NEW N \in Nat
  PROVE  \E f : RecursOnNumbers(f, k, base, N)
<1> DEFINE Defined == {n \in Nat : \E g : RecursOnNumbers(g, k, base, n)}
<1>1. 0 \in Defined
  <2> DEFINE g == [n \in 0..0 |-> NumberStep(k, n, base)]
  <2>1. \A n \in 0..0 : n = 0
    OBVIOUS
  <2>2. g = [n \in 0..0 |-> NumberStep(k, n, IF n = 0 THEN base ELSE g[n - 1])]
    BY <2>1
  <2> HIDE DEF g
  <2>3. RecursOnNumbers(g, k, base, 0)
    BY <2>2 DEF RecursOnNumbers
  <2> QED BY <2>3
<1>2. ASSUME NEW m \in Nat, m \in Defined
      PROVE  m + 1 \in Defined
  <2>1. PICK g : RecursOnNumbers(g, k, base, m)
    BY <1>2
  <2>2. g = [n \in 0..m |-> NumberStep(k, n, IF n = 0 THEN base ELSE g[n - 1])]
    BY <2>1 DEF RecursOnNumbers
  <2> DEFINE h == [n \in 0..(m + 1) |-> NumberStep(k, n, IF n = 0 THEN base ELSE g[n - 1])]
  <2>3. \A n \in 0..m : n \in 0..(m + 1) /\ h[n] = g[n]
    BY <2>2
  <2>4. \A n \in 0..(m + 1) : n # 0 => n - 1 \in 0..m /\ h[n - 1] = g[n - 1]
    <3> HIDE DEF h
    <3>1. \A n \in 0..(m + 1) : n # 0 => n - 1 \in 0..m
      OBVIOUS
    <3> QED BY <2>3, <3>1
  <2>5. h = [n \in 0..(m + 1) |-> NumberStep(k, n, IF n = 0 THEN base ELSE h[n - 1])]
    BY <2>4
  <2> HIDE DEF h
  <2>6. RecursOnNumbers(h, k, base, m + 1)
    BY <2>5 DEF RecursOnNumbers
  <2> QED BY <2>6
<1> HIDE DEF Defined
<1>3. \A n \in 0..N : n \in Defined
  BY <1>1, <1>2, UpTo
<1> QED BY <1>3 DEF Defined

SetStep(k, x, v) ==
  CASE k[1] = "data" -> Satisfied(v, x, k[2], k[3])
    [] k[1] = "choices" -> InsertChoice(v, x, k[2][x])
    [] k[1] = "routes" -> AddNextHop(v, x[1], x[2])
    [] k[1] = "sweep" -> EraseNodeIfEmpty(v, k[2], x)

NextOf(k, s) == IF k[1] = "sweep" THEN Shortest(s) ELSE CHOOSE x \in s : TRUE

RecursOnSets(f, k, base, S) ==
  f = [s \in SUBSET S |->
        IF s = {} THEN base ELSE SetStep(k, NextOf(k, s), f[s \ {NextOf(k, s)}])]

\* There is a function that is defined by recursion on the subsets of a finite set.
LEMMA SetRecursion ==
  ASSUME NEW k, NEW base, NEW S, IsFiniteSet(S),
         \A s \in SUBSET S : s # {} => NextOf(k, s) \in s
  PROVE  \E f : RecursOnSets(f, k, base, S)
<1> DEFINE Good(f, D) == f = [s \in D |-> IF s = {} THEN base
                                          ELSE SetStep(k, NextOf(k, s), f[s \ {NextOf(k, s)}])]
           Level(n) == {s \in SUBSET S : Cardinality(s) <= n}
           Defined == {n \in Nat : \E g : Good(g, Level(n))}
<1>2. \A s \in SUBSET S : IsFiniteSet(s) /\ Cardinality(s) \in Nat /\ Cardinality(s) <= Cardinality(S)
  BY FS_Subset, FS_CardinalityType
<1>3. \A s \in SUBSET S : s # {} =>
        /\ s \ {NextOf(k, s)} \in SUBSET S
        /\ Cardinality(s \ {NextOf(k, s)}) = Cardinality(s) - 1
        /\ Cardinality(s) # 0
  <2> SUFFICES ASSUME NEW s \in SUBSET S, s # {}
               PROVE  /\ s \ {NextOf(k, s)} \in SUBSET S
                      /\ Cardinality(s \ {NextOf(k, s)}) = Cardinality(s) - 1
                      /\ Cardinality(s) # 0
    OBVIOUS
  <2> QED BY <1>2, FS_RemoveElement, FS_EmptySet
<1>4. 0 \in Defined
  <2> DEFINE g == [s \in Level(0) |-> base]
  <2>1. \A s \in Level(0) : s = {}
    BY <1>2, FS_EmptySet
  <2>2. Good(g, Level(0))
    BY <2>1
  <2> HIDE DEF g, Good
  <2> QED BY <2>2
<1>5. ASSUME NEW n \in Nat, n \in Defined
      PROVE  n + 1 \in Defined
  <2>1. PICK g : Good(g, Level(n))
    BY <1>5
  <2> DEFINE h == [s \in Level(n + 1) |->
                    IF s = {} THEN base ELSE SetStep(k, NextOf(k, s), g[s \ {NextOf(k, s)}])]
  <2>2. \A s \in Level(n) : s \in Level(n + 1) /\ h[s] = g[s]
    <3> SUFFICES ASSUME NEW s \in Level(n) PROVE s \in Level(n + 1) /\ h[s] = g[s]
      OBVIOUS
    <3>1. s \in Level(n + 1)
      BY <1>2
    <3>2. g[s] = IF s = {} THEN base ELSE SetStep(k, NextOf(k, s), g[s \ {NextOf(k, s)}])
      BY <2>1
    <3>3. h[s] = IF s = {} THEN base ELSE SetStep(k, NextOf(k, s), g[s \ {NextOf(k, s)}])
      BY <3>1
    <3> QED BY <3>1, <3>2, <3>3
  <2>3. \A s \in Level(n + 1) : s # {} => s \ {NextOf(k, s)} \in Level(n)
    BY <1>2, <1>3
  <2>4. \A s \in Level(n + 1) : s # {} => h[s \ {NextOf(k, s)}] = g[s \ {NextOf(k, s)}]
    BY <2>2, <2>3
  <2> HIDE DEF Level
  <2>5. Good(h, Level(n + 1))
    BY <2>4
  <2> HIDE DEF h, Good
  <2> QED BY <2>5
<1>6. Cardinality(S) \in Defined
  <2>1. Cardinality(S) \in Nat
    BY FS_CardinalityType
  <2> HIDE DEF Defined
  <2>2. \A n \in 0 .. Cardinality(S) : n \in Defined
    BY <1>4, <1>5, <2>1, UpTo
  <2> QED BY <2>1, <2>2
<1>7. Level(Cardinality(S)) = SUBSET S
  BY <1>2
<1>8. \E g : Good(g, SUBSET S)
  <2>1. PICK g : Good(g, Level(Cardinality(S)))
    BY <1>6
  <2> HIDE DEF Good
  <2> QED BY <2>1, <1>7
<1> QED BY <1>8 DEF RecursOnSets

-----------------------------------------------------------------------------
(* The hash table.                                                          *)

\* A node is in the bucket that its hash tells.
TableOK(ht) ==
  /\ \E n \in Nat \ {0} : DOMAIN ht = 0..(n - 1)
  /\ \A i \in DOMAIN ht : ht[i] \subseteq Names
  /\ \A i \in DOMAIN ht : \A name \in ht[i] : Bucket(NBuckets(ht), name) = i

LEMMA BucketExists ==
  ASSUME NEW name \in Names, NEW n \in Nat \ {0}
  PROVE  Bucket(n, name) \in 0..(n - 1)
<1>1. HashOf[name] \in Nat
  BY HashAssumption DEF HashOf
<1> QED BY <1>1 DEF Bucket

LEMMA Buckets ==
  ASSUME NEW ht, NEW n \in Nat \ {0}, DOMAIN ht = 0..(n - 1)
  PROVE  NBuckets(ht) = n
BY FS_Interval, 0 \in Int, n - 1 \in Int DEF NBuckets

LEMMA NodesAre ==
  ASSUME NEW ht, NEW name
  PROVE  name \in Nodes(ht) <=> \E i \in DOMAIN ht : name \in ht[i]
BY DEF Nodes, Range

\* What is in the table is found.
LEMMA TableFacts ==
  ASSUME NEW ht, TableOK(ht)
  PROVE  /\ NBuckets(ht) \in Nat \ {0} /\ DOMAIN ht = 0..(NBuckets(ht) - 1)
         /\ Nodes(ht) \subseteq Names
         /\ \A name \in Names : Find(ht, name) <=> name \in Nodes(ht)
<1>1. PICK n \in Nat \ {0} : DOMAIN ht = 0..(n - 1)
  BY DEF TableOK
<1>2. NBuckets(ht) = n
  BY <1>1, Buckets
<1>3. Nodes(ht) \subseteq Names
  BY NodesAre DEF TableOK
<1>4. ASSUME NEW name \in Names
      PROVE  Find(ht, name) <=> name \in Nodes(ht)
  <2>1. Bucket(n, name) \in DOMAIN ht
    BY <1>1, BucketExists
  <2> QED BY <2>1, <1>2, NodesAre DEF Find, TableOK
<1> QED BY <1>1, <1>2, <1>3, <1>4

LEMMA AttachFacts ==
  ASSUME NEW ht, TableOK(ht), NEW name \in Names
  PROVE  TableOK(Attach(ht, name)) /\ Nodes(Attach(ht, name)) = Nodes(ht) \cup {name}
<1> DEFINE n == NBuckets(ht)
           b == Bucket(n, name)
           u == Attach(ht, name)
<1>1. n \in Nat \ {0} /\ DOMAIN ht = 0..(n - 1) /\ b \in DOMAIN ht
  BY TableFacts, BucketExists
<1>2. DOMAIN u = DOMAIN ht /\ \A i \in DOMAIN ht : u[i] = IF i = b THEN ht[i] \cup {name} ELSE ht[i]
  BY <1>1 DEF Attach
<1> HIDE DEF u
<1>3. NBuckets(u) = n
  BY <1>1, <1>2, Buckets
<1>4. \A x : x \in Nodes(u) <=> x \in Nodes(ht) \/ x = name
  <2> SUFFICES ASSUME NEW x PROVE x \in Nodes(u) <=> x \in Nodes(ht) \/ x = name
    OBVIOUS
  <2> QED BY <1>1, <1>2, NodesAre
<1>5. TableOK(u)
  BY <1>1, <1>2, <1>3 DEF TableOK
<1> QED BY <1>4, <1>5 DEF u

LEMMA DetachFacts ==
  ASSUME NEW ht, TableOK(ht), NEW name \in Names
  PROVE  TableOK(Detach(ht, name)) /\ Nodes(Detach(ht, name)) = Nodes(ht) \ {name}
<1> DEFINE n == NBuckets(ht)
           b == Bucket(n, name)
           u == Detach(ht, name)
<1>1. n \in Nat \ {0} /\ DOMAIN ht = 0..(n - 1) /\ b \in DOMAIN ht
  BY TableFacts, BucketExists
<1>2. DOMAIN u = DOMAIN ht /\ \A i \in DOMAIN ht : u[i] = IF i = b THEN ht[i] \ {name} ELSE ht[i]
  BY <1>1 DEF Detach
<1> HIDE DEF u
<1>3. NBuckets(u) = n
  BY <1>1, <1>2, Buckets
<1>4. \A x : x \in Nodes(u) <=> x \in Nodes(ht) /\ x # name
  <2> SUFFICES ASSUME NEW x PROVE x \in Nodes(u) <=> x \in Nodes(ht) /\ x # name
    OBVIOUS
  <2>1. \A i \in DOMAIN ht : name \in ht[i] => i = b
    BY DEF TableOK
  <2> QED BY <1>1, <1>2, <2>1, NodesAre
<1>5. TableOK(u)
  BY <1>1, <1>2, <1>3 DEF TableOK
<1> QED BY <1>4, <1>5 DEF u

\* Resizing moves each node to its new bucket and loses none.
LEMMA ResizeFacts ==
  ASSUME NEW ht, TableOK(ht), NEW n \in Nat \ {0}
  PROVE  TableOK(Resize(ht, n)) /\ Nodes(Resize(ht, n)) = Nodes(ht)
<1> DEFINE u == [i \in 0..(n - 1) |-> {name \in Nodes(ht) : Bucket(n, name) = i}]
<1>1. Nodes(ht) \subseteq Names
  BY TableFacts
<1>2. NBuckets(u) = n
  BY Buckets
<1>3. \A x : x \in Nodes(u) <=> x \in Nodes(ht)
  <2> SUFFICES ASSUME NEW x PROVE x \in Nodes(u) <=> x \in Nodes(ht)
    OBVIOUS
  <2>1. x \in Nodes(ht) => Bucket(n, x) \in 0..(n - 1)
    BY <1>1, BucketExists
  <2>2. x \in Nodes(u) <=> \E i \in 0..(n - 1) : x \in u[i]
    BY NodesAre
  <2> QED BY <2>1, <2>2
<1>4. TableOK(u)
  <2>1. DOMAIN u = 0..(n - 1) /\ \A i \in 0..(n - 1) : u[i] \subseteq Names
    BY <1>1
  <2>2. \A i \in 0..(n - 1) : \A name \in u[i] : Bucket(n, name) = i
    OBVIOUS
  <2> HIDE DEF u
  <2> QED BY <1>2, <2>1, <2>2 DEF TableOK
<1>5. Resize(ht, n) = ht \/ Resize(ht, n) = u
  BY DEF Resize
<1> HIDE DEF u
<1> QED BY <1>3, <1>4, <1>5

\* The node that is inserted is there, whatever becomes of the buckets.
LEMMA InsertFacts ==
  ASSUME NEW ht, TableOK(ht), NEW name \in Names
  PROVE  TableOK(Insert(ht, name)) /\ Nodes(Insert(ht, name)) = Nodes(ht) \cup {name}
<1>1. ExpandFactor * NBuckets(ht) \in Nat \ {0}
  <2>1. NBuckets(ht) \in Nat \ {0} /\ ExpandFactor \in Nat \ {0}
    BY TableFacts, HashtableAssumption
  <2> QED BY <2>1
<1>2. Find(ht, name) <=> name \in Nodes(ht)
  BY TableFacts
<1>3. CASE Find(ht, name)
  BY <1>2, <1>3 DEF Insert
<1>4. CASE ~Find(ht, name)
  <2>1. \/ Insert(ht, name) = Attach(ht, name)
        \/ Insert(ht, name) = Resize(Attach(ht, name), ExpandFactor * NBuckets(ht))
    BY <1>4 DEF Insert
  <2> QED BY <1>1, <2>1, AttachFacts, ResizeFacts
<1> QED BY <1>3, <1>4

LEMMA EraseFacts ==
  ASSUME NEW ht, TableOK(ht), NEW name \in Names
  PROVE  TableOK(Erase(ht, name)) /\ Nodes(Erase(ht, name)) = Nodes(ht) \ {name}
<1> DEFINE n == Max({MinBuckets, NBuckets(ht) \div ShrinkDivisor})
<1>1. n \in Nat \ {0}
  <2>1. NBuckets(ht) \in Nat \ {0} /\ ShrinkDivisor \in Nat \ {0} /\ MinBuckets \in Nat \ {0}
    BY TableFacts, HashtableAssumption
  <2>2. NBuckets(ht) \div ShrinkDivisor \in Nat
    BY <2>1
  <2> DEFINE d == NBuckets(ht) \div ShrinkDivisor
  <2> HIDE DEF d
  <2>3. d \in Nat
    BY <2>2 DEF d
  <2>4. \E x \in {MinBuckets, d} : \A y \in {MinBuckets, d} : x >= y
    BY <2>1, <2>3
  <2>5. Max({MinBuckets, d}) \in {MinBuckets, d} /\ Max({MinBuckets, d}) >= MinBuckets
    BY <2>4 DEF Max
  <2> QED BY <2>1, <2>3, <2>5 DEF d
<1> HIDE DEF n
<1>2. Erase(ht, name) = Detach(ht, name) \/ Erase(ht, name) = Resize(Detach(ht, name), n)
  BY DEF Erase, n
<1> QED BY <1>1, <1>2, DetachFacts, ResizeFacts

-----------------------------------------------------------------------------
(* The tree.                                                                *)

HasParents(ht) == \A name \in Nodes(ht) : name # <<>> => Parent(name) \in Nodes(ht)

TreeOK(ht, used) == TableOK(ht) /\ IsSound(ht, used)

LEMMA TreeFacts ==
  ASSUME NEW ht, NEW used
  PROVE  TreeOK(ht, used) <=> /\ TableOK(ht) /\ HasParents(ht) /\ used \subseteq Nodes(ht)
                              /\ \A name \in Nodes(ht) : name \in used \/ HasChildren(ht, name)
BY DEF TreeOK, TableOK, IsSound, HasParents, IsEmpty

LEMMA LookupRecursion ==
  ASSUME NEW ht, NEW name \in Names
  PROVE  \E f : /\ Lookup(ht, name) = f[Len(name)]
                /\ \A len \in 0..Len(name) :
                     f[len] = Insert(IF len = 0 THEN ht ELSE f[len - 1], Prefix(name, len))
<1> DEFINE Good(f) == f = [len \in 0..Len(name) |->
                            Insert(IF len = 0 THEN ht ELSE f[len - 1], Prefix(name, len))]
           f == CHOOSE f : Good(f)
           k == <<"lookup", name>>
<1>1. Lookup(ht, name) = f[Len(name)]
  BY DEF Lookup
<1>2. PICK g : RecursOnNumbers(g, k, ht, Len(name))
  BY NumberRecursion, NameFacts
<1>3. \A n, v : NumberStep(k, n, v) = Insert(v, Prefix(name, n))
  BY DEF NumberStep
<1>4. Good(g)
  BY <1>2, <1>3 DEF RecursOnNumbers
<1>5. Good(f)
  BY <1>4
<1>6. \A len \in 0..Len(name) : f[len] = Insert(IF len = 0 THEN ht ELSE f[len - 1], Prefix(name, len))
  BY <1>5
<1> HIDE DEF f
<1> QED BY <1>1, <1>6

\* Looking a name up makes the nodes of its prefixes and of the name.
LEMMA LookupFacts ==
  ASSUME NEW ht, TableOK(ht), HasParents(ht), NEW name \in Names
  PROVE  /\ TableOK(Lookup(ht, name)) /\ HasParents(Lookup(ht, name))
         /\ Nodes(Lookup(ht, name)) = Nodes(ht) \cup {Prefix(name, len) : len \in 0..Len(name)}
<1>1. PICK f : /\ Lookup(ht, name) = f[Len(name)]
               /\ \A len \in 0..Len(name) :
                    f[len] = Insert(IF len = 0 THEN ht ELSE f[len - 1], Prefix(name, len))
  BY LookupRecursion
<1>2. Len(name) \in Nat /\ \A len \in 0..Len(name) : Prefix(name, len) \in Names /\ Len(Prefix(name, len)) = len
  BY NameFacts
<1> DEFINE Done == {len \in 0..Len(name) :
                      /\ TableOK(f[len]) /\ HasParents(f[len])
                      /\ Nodes(f[len]) = Nodes(ht) \cup {Prefix(name, m) : m \in 0..len}}
<1>3. 0 \in Done
  <2>1. f[0] = Insert(ht, Prefix(name, 0)) /\ Prefix(name, 0) = <<>> /\ <<>> \in Names
    BY <1>1, <1>2, NameFacts, NamesAssumption
  <2>2. TableOK(f[0]) /\ Nodes(f[0]) = Nodes(ht) \cup {<<>>}
    BY <2>1, InsertFacts
  <2>3. {Prefix(name, m) : m \in 0..0} = {<<>>}
    BY <2>1
  <2>4. HasParents(f[0])
    BY <2>2 DEF HasParents
  <2> QED BY <1>2, <2>2, <2>3, <2>4
<1>4. ASSUME NEW n \in 0..Len(name), n < Len(name), n \in Done
      PROVE  n + 1 \in Done
  <2>1. n + 1 \in 0..Len(name) /\ n + 1 # 0 /\ (n + 1) - 1 = n /\ n \in 0..(n + 1)
    BY <1>2, <1>4
  <2> DEFINE new == Prefix(name, n + 1)
  <2>2. f[n + 1] = Insert(f[n], new) /\ new \in Names /\ Len(new) = n + 1
    BY <1>1, <1>2, <2>1
  <2>3. TableOK(f[n + 1]) /\ Nodes(f[n + 1]) = Nodes(f[n]) \cup {new}
    BY <1>4, <2>2, InsertFacts
  <2>4. Parent(new) = Prefix(name, n)
    BY <2>1, <2>2, NameFacts DEF Parent
  <2>5. Prefix(name, n) \in Nodes(f[n])
    BY <1>4
  <2>6. HasParents(f[n + 1])
    <3> HIDE DEF new
    <3> QED BY <1>4, <2>3, <2>4, <2>5 DEF HasParents
  <2>7. \A m : m \in 0..(n + 1) <=> m \in 0..n \/ m = n + 1
    BY <1>4
  <2>8. {Prefix(name, m) : m \in 0..(n + 1)} = {Prefix(name, m) : m \in 0..n} \cup {new}
    BY <2>7
  <2> QED BY <1>4, <2>1, <2>3, <2>6, <2>8
<1> HIDE DEF Done
<1>5. \A n \in 0..Len(name) : n \in Done
  BY <1>2, <1>3, <1>4, UpTo
<1>6. Len(name) \in Done
  BY <1>2, <1>5
<1> QED BY <1>1, <1>6 DEF Done

\* A table that enters its entry at a name keeps the tree sound.
LEMMA EnterKeepsTree ==
  ASSUME NEW ht, NEW used, TreeOK(ht, used), NEW name \in Names
  PROVE  /\ TreeOK(Lookup(ht, name), used \cup {name})
         /\ Nodes(ht) \subseteq Nodes(Lookup(ht, name))
         /\ Nodes(Lookup(ht, name)) \subseteq Names /\ name \in Nodes(Lookup(ht, name))
<1> DEFINE u == Lookup(ht, name)
<1>1. TableOK(ht) /\ HasParents(ht) /\ used \subseteq Nodes(ht)
      /\ \A n \in Nodes(ht) : n \in used \/ HasChildren(ht, n)
  BY TreeFacts
<1>2. TableOK(u) /\ HasParents(u) /\ Nodes(u) = Nodes(ht) \cup {Prefix(name, len) : len \in 0..Len(name)}
  BY <1>1, LookupFacts
<1> HIDE DEF u
<1>3. Len(name) \in 0..Len(name) /\ Prefix(name, Len(name)) = name
  BY NameFacts
<1>4. name \in Nodes(u) /\ Nodes(ht) \subseteq Nodes(u)
  BY <1>2, <1>3
<1>5. ASSUME NEW n \in Nodes(u)
      PROVE  n \in used \cup {name} \/ HasChildren(u, n)
  <2>1. CASE n \in Nodes(ht)
    BY <1>1, <1>2, <2>1 DEF HasChildren
  <2>2. ASSUME NEW len \in 0..Len(name), n = Prefix(name, len), len # Len(name)
        PROVE  HasChildren(u, n)
    <3> DEFINE child == Prefix(name, len + 1)
    <3>1. len + 1 \in 0..Len(name) /\ len \in 0..(len + 1) /\ (len + 1) - 1 = len /\ len \in 0..Len(name)
      BY <1>3, <2>2, NameFacts
    <3>2. child \in Nodes(u) /\ Len(child) = len + 1 /\ Len(n) = len
      BY <1>2, <2>2, <3>1, NameFacts
    <3>3. Parent(child) = n
      BY <2>2, <3>1, <3>2, NameFacts DEF Parent
    <3> HIDE DEF child
    <3> QED BY <3>2, <3>3 DEF HasChildren
  <2> QED BY <1>2, <1>3, <2>1, <2>2
<1>6. TreeOK(u, used \cup {name})
  BY <1>1, <1>2, <1>4, <1>5, TreeFacts
<1> QED BY <1>2, <1>4, <1>6, TableFacts DEF u

\* Only the nodes among those in maybe may be empty.
EmptyOnly(ht, used, maybe) ==
  /\ TableOK(ht) /\ HasParents(ht) /\ used \subseteq Nodes(ht)
  /\ \A n \in Nodes(ht) : n \in used \/ HasChildren(ht, n) \/ n \in maybe

\* After a node was erased if it was empty, its parent may be.
LEMMA EraseNodeFacts ==
  ASSUME NEW ht, NEW used, NEW maybe, EmptyOnly(ht, used, maybe), NEW x \in Names,
         NEW rest, maybe \subseteq rest \cup {x}, x # <<>> => Parent(x) \in used \cup rest
  PROVE  /\ EmptyOnly(EraseNodeIfEmpty(ht, used, x), used, rest)
         /\ Nodes(EraseNodeIfEmpty(ht, used, x)) \subseteq Nodes(ht)
         /\ Nodes(ht) \subseteq Nodes(EraseNodeIfEmpty(ht, used, x)) \cup {x}
<1>1. TableOK(ht) /\ HasParents(ht) /\ used \subseteq Nodes(ht) /\ Nodes(ht) \subseteq Names
      /\ \A n \in Nodes(ht) : n \in used \/ HasChildren(ht, n) \/ n \in maybe
  BY TableFacts DEF EmptyOnly
<1>2. CASE ~IsEmpty(ht, used, x)
  <2>1. EraseNodeIfEmpty(ht, used, x) = ht
    BY <1>2 DEF EraseNodeIfEmpty
  <2>2. x \in used \/ HasChildren(ht, x)
    BY <1>2 DEF IsEmpty
  <2> QED BY <1>1, <2>1, <2>2 DEF EmptyOnly
<1>3. CASE IsEmpty(ht, used, x)
  <2> DEFINE u == EraseNodeIfEmpty(ht, used, x)
  <2>1. u = Erase(ht, x) /\ x \notin used /\ ~HasChildren(ht, x)
    BY <1>3 DEF EraseNodeIfEmpty, IsEmpty
  <2>2. TableOK(u) /\ Nodes(u) = Nodes(ht) \ {x}
    BY <1>1, <2>1, EraseFacts
  <2> HIDE DEF u
  <2>3. HasParents(u)
    <3> SUFFICES ASSUME NEW n \in Nodes(u), n # <<>> PROVE Parent(n) \in Nodes(u)
      BY DEF HasParents
    <3>1. n \in Names /\ Len(n) \in Nat /\ Len(Parent(n)) = Len(n) - 1 /\ Parent(n) \in Nodes(ht)
      BY <1>1, <2>2, ParentFacts DEF HasParents
    <3>2. Len(n) = Len(Parent(n)) + 1
      BY <3>1
    <3>3. Parent(n) # x
      BY <2>1, <2>2, <3>2 DEF HasChildren
    <3> QED BY <2>2, <3>1, <3>3
  <2>4. ASSUME NEW n \in Nodes(u)
        PROVE  n \in used \/ HasChildren(u, n) \/ n \in rest
    <3>1. n \in Nodes(ht) /\ n # x
      BY <2>2
    <3>2. CASE HasChildren(ht, n)
      <4>1. PICK c \in Nodes(ht) : Len(c) = Len(n) + 1 /\ Parent(c) = n
        BY <3>2 DEF HasChildren
      <4>2. CASE c = x
        <5>1. n \in Names /\ Len(n) \in Nat
          BY <1>1, <3>1, NameFacts
        <5>2. x # <<>>
          BY <4>1, <4>2, <5>1, NameFacts
        <5> QED BY <4>1, <4>2, <5>2
      <4>3. CASE c # x
        <5>1. c \in Nodes(u)
          BY <2>2, <4>3
        <5> QED BY <4>1, <5>1 DEF HasChildren
      <4> QED BY <4>2, <4>3
    <3> QED BY <1>1, <3>1, <3>2
  <2>5. used \subseteq Nodes(u)
    BY <1>1, <2>1, <2>2
  <2> QED BY <2>2, <2>3, <2>4, <2>5 DEF EmptyOnly, u
<1> QED BY <1>2, <1>3

LEMMA EraseRecursion ==
  ASSUME NEW ht, NEW used, NEW name \in Names
  PROVE  \E f : /\ EraseIfEmpty(ht, used, name) = f[Len(name)]
                /\ \A up \in 0..Len(name) :
                     f[up] = EraseStep(name, used, up, IF up = 0 THEN ht ELSE f[up - 1])
<1> DEFINE Good(f) == f = [up \in 0..Len(name) |->
                            LET below == IF up = 0 THEN ht ELSE f[up - 1]
                                ancestor == Prefix(name, Len(name) - up)
                            IN  IF ancestor \in Nodes(below)
                                THEN EraseNodeIfEmpty(below, used, ancestor) ELSE below]
           f == CHOOSE f : Good(f)
           k == <<"erase", name, used>>
<1>1. EraseIfEmpty(ht, used, name) = f[Len(name)]
  BY DEF EraseIfEmpty
<1>2. PICK g : RecursOnNumbers(g, k, ht, Len(name))
  BY NumberRecursion, NameFacts
<1>3. \A n, v : NumberStep(k, n, v) = EraseStep(name, used, n, v)
  BY DEF NumberStep
<1>4. g = [up \in 0..Len(name) |-> EraseStep(name, used, up, IF up = 0 THEN ht ELSE g[up - 1])]
  BY <1>2, <1>3 DEF RecursOnNumbers
<1>5. Good(g)
  BY <1>4 DEF EraseStep
<1>6. Good(f)
  BY <1>5
<1>7. \A up \in 0..Len(name) :
        f[up] = EraseStep(name, used, up, IF up = 0 THEN ht ELSE f[up - 1])
  BY <1>6 DEF EraseStep
<1> HIDE DEF f
<1> QED BY <1>1, <1>7

\* A table that takes its entry at a name leaves the tree sound: the node and its ancestors go
\* as far as they are empty.
LEMMA LeaveKeepsTree ==
  ASSUME NEW ht, NEW used, NEW name \in Names, EmptyOnly(ht, used, {name})
  PROVE  /\ TreeOK(EraseIfEmpty(ht, used, name), used)
         /\ Nodes(EraseIfEmpty(ht, used, name)) \subseteq Nodes(ht)
<1>1. PICK f : /\ EraseIfEmpty(ht, used, name) = f[Len(name)]
               /\ \A up \in 0..Len(name) :
                    f[up] = EraseStep(name, used, up, IF up = 0 THEN ht ELSE f[up - 1])
  BY EraseRecursion
<1>2. Len(name) \in Nat /\ \A len \in 0..Len(name) : Prefix(name, len) \in Names /\ Len(Prefix(name, len)) = len
  BY NameFacts
<1> DEFINE Above(up) == {Prefix(name, len) : len \in 0..(Len(name) - up - 1)}
           Done == {up \in 0..Len(name) : EmptyOnly(f[up], used, Above(up)) /\ Nodes(f[up]) \subseteq Nodes(ht)}
<1>3. ASSUME NEW up \in 0..Len(name), NEW h, NEW maybe, EmptyOnly(h, used, maybe),
             maybe \subseteq Above(up) \cup {Prefix(name, Len(name) - up)}, Nodes(h) \subseteq Nodes(ht)
      PROVE  EmptyOnly(EraseStep(name, used, up, h), used, Above(up))
             /\ Nodes(EraseStep(name, used, up, h)) \subseteq Nodes(ht)
  <2> DEFINE x == Prefix(name, Len(name) - up)
  <2>1. Len(name) - up \in 0..Len(name) /\ x \in Names /\ Len(x) = Len(name) - up
    BY <1>2
  <2>2. x # <<>> => Parent(x) \in Above(up)
    <3>1. x # <<>> => Len(name) - up - 1 \in 0..(Len(name) - up)
      BY <1>2, <2>1, NameFacts
    <3>2. x # <<>> => Parent(x) = Prefix(name, Len(name) - up - 1)
      <4> DEFINE m == Len(name) - up
      <4>1. \A k \in 0..Len(name) : \A j \in 0..k : Prefix(Prefix(name, k), j) = Prefix(name, j)
        BY NameFacts
      <4>2. x # <<>> => m \in 0..Len(name) /\ m - 1 \in 0..m
        BY <2>1, <3>1
      <4> HIDE DEF m
      <4>3. x # <<>> => Prefix(Prefix(name, m), m - 1) = Prefix(name, m - 1)
        BY <4>1, <4>2
      <4> QED BY <2>1, <4>3 DEF Parent, m
    <3>3. x # <<>> => Len(name) - up - 1 \in 0..(Len(name) - up - 1)
      BY <1>2, <3>1
    <3> QED BY <3>2, <3>3
  <2> HIDE DEF Above, x
  <2>3. CASE x \in Nodes(h)
    <3>1. EraseStep(name, used, up, h) = EraseNodeIfEmpty(h, used, x)
      BY <2>3 DEF EraseStep, x
    <3>2. maybe \subseteq Above(up) \cup {x} /\ (x # <<>> => Parent(x) \in used \cup Above(up))
      BY <1>3, <2>2 DEF x
    <3> QED BY <1>3, <2>1, <3>1, <3>2, EraseNodeFacts
  <2>4. CASE x \notin Nodes(h)
    <3>1. EraseStep(name, used, up, h) = h
      BY <2>4 DEF EraseStep, x
    <3> QED BY <1>3, <2>4, <3>1 DEF EmptyOnly, x
  <2> QED BY <2>3, <2>4
<1>4. 0 \in Done
  <2>1. f[0] = EraseStep(name, used, 0, ht) /\ 0 \in 0..Len(name)
    BY <1>1, <1>2
  <2>2. {name} \subseteq Above(0) \cup {Prefix(name, Len(name) - 0)}
    <3>1. Len(name) - 0 = Len(name) /\ Prefix(name, Len(name)) = name
      BY <1>2, NameFacts
    <3> QED BY <3>1
  <2> HIDE DEF Above
  <2>3. EmptyOnly(f[0], used, Above(0)) /\ Nodes(f[0]) \subseteq Nodes(ht)
    BY <1>3, <2>1, <2>2
  <2> QED BY <2>1, <2>3
<1>5. ASSUME NEW n \in 0..Len(name), n < Len(name), n \in Done
      PROVE  n + 1 \in Done
  <2>1. n + 1 \in 0..Len(name) /\ n + 1 # 0 /\ (n + 1) - 1 = n
    BY <1>2, <1>5
  <2>2. f[n + 1] = EraseStep(name, used, n + 1, f[n])
    BY <1>1, <2>1
  <2>3. Above(n) \subseteq Above(n + 1) \cup {Prefix(name, Len(name) - (n + 1))}
    <3>1. \A len \in 0..(Len(name) - n - 1) :
            len \in 0..(Len(name) - (n + 1) - 1) \/ len = Len(name) - (n + 1)
      BY <1>2, <1>5
    <3> QED BY <3>1
  <2> HIDE DEF Above
  <2>4. EmptyOnly(f[n], used, Above(n)) /\ Nodes(f[n]) \subseteq Nodes(ht)
    BY <1>5
  <2>5. EmptyOnly(f[n + 1], used, Above(n + 1)) /\ Nodes(f[n + 1]) \subseteq Nodes(ht)
    BY <1>3, <2>1, <2>2, <2>3, <2>4
  <2> QED BY <2>1, <2>5
<1> HIDE DEF Done
<1>6. \A n \in 0..Len(name) : n \in Done
  BY <1>2, <1>4, <1>5, UpTo
<1>7. Len(name) \in Done
  BY <1>2, <1>6
<1>8. EmptyOnly(f[Len(name)], used, Above(Len(name))) /\ Nodes(f[Len(name)]) \subseteq Nodes(ht)
  BY <1>7 DEF Done
<1>9. Above(Len(name)) = {}
  BY <1>2
<1> HIDE DEF Above
<1> QED BY <1>1, <1>8, <1>9, TreeFacts DEF EmptyOnly

LEMMA ShortestExists ==
  ASSUME NEW names, names \subseteq Names, names # {}
  PROVE  Shortest(names) \in names /\ \A m \in names : Len(Shortest(names)) <= Len(m)
<1> DEFINE lengths == {Len(n) : n \in names}
<1>1. \A n \in names : Len(n) \in Nat
  BY NameFacts
<1>2. lengths \subseteq Nat /\ lengths # {}
  BY <1>1
<1>3. PICK len \in lengths : \A m \in lengths : len <= m
  BY <1>2, Least
<1>4. PICK n \in names : len = Len(n)
  OBVIOUS
<1>5. \A m \in names : Len(n) <= Len(m)
  BY <1>3, <1>4
<1> QED BY <1>5 DEF Shortest

Sweeps(f, ht, used, unused) ==
  /\ EraseUnused(ht, used, unused) = f[unused]
  /\ \A s \in SUBSET unused :
       f[s] = IF s = {} THEN ht
              ELSE EraseNodeIfEmpty(f[s \ {Shortest(s)}], used, Shortest(s))

LEMMA SweepRecursion ==
  ASSUME NEW ht, NEW used, NEW unused, unused \subseteq Names
  PROVE  \E f : Sweeps(f, ht, used, unused)
<1> DEFINE Good(f) == f = [s \in SUBSET unused |->
                            IF s = {} THEN ht
                            ELSE EraseNodeIfEmpty(f[s \ {Shortest(s)}], used, Shortest(s))]
           f == CHOOSE f : Good(f)
           k == <<"sweep", used>>
<1>1. EraseUnused(ht, used, unused) = f[unused]
  BY DEF EraseUnused, MapThenFoldSet
<1>2. IsFiniteSet(unused)
  BY NamesAssumption, FS_Subset
<1>3. \A s : NextOf(k, s) = Shortest(s)
  BY DEF NextOf
<1>4. \A s \in SUBSET unused : s # {} => NextOf(k, s) \in s
  BY <1>3, ShortestExists
<1>5. PICK g : RecursOnSets(g, k, ht, unused)
  BY <1>2, <1>4, SetRecursion
<1>6. \A x, v : SetStep(k, x, v) = EraseNodeIfEmpty(v, used, x)
  BY DEF SetStep
<1>7. Good(g)
  BY <1>3, <1>5, <1>6 DEF RecursOnSets
<1>8. Good(f)
  BY <1>7
<1>9. \A s \in SUBSET unused :
        f[s] = IF s = {} THEN ht
               ELSE EraseNodeIfEmpty(f[s \ {Shortest(s)}], used, Shortest(s))
  BY <1>8
<1> HIDE DEF f
<1> QED BY <1>1, <1>9 DEF Sweeps

\* When the nodes without entries are erased one by one, longer names first, none is left that
\* became empty by the loss of a child: its name is shorter, and its turn comes later.
LEMMA SweepKeepsTree ==
  ASSUME NEW ht, NEW used, TableOK(ht), HasParents(ht), used \subseteq Nodes(ht),
         NEW unused, unused = Nodes(ht) \ used
  PROVE  TreeOK(EraseUnused(ht, used, unused), used)
<1>1. unused \subseteq Names /\ Nodes(ht) \subseteq Names
  BY TableFacts
<1>2. PICK f : Sweeps(f, ht, used, unused)
  BY <1>1, SweepRecursion
<1>3. IsFiniteSet(unused)
  BY <1>1, NamesAssumption, FS_Subset
<1> DEFINE Longest(s) == \A a \in s : \A b \in unused \ s : Len(b) <= Len(a)
           Done == {n \in Nat : \A s \in SUBSET unused :
                      Cardinality(s) = n /\ Longest(s) => EmptyOnly(f[s], used, unused \ s)}
<1>4. 0 \in Done
  <2> SUFFICES ASSUME NEW s \in SUBSET unused, Cardinality(s) = 0
               PROVE  EmptyOnly(f[s], used, unused \ s)
    OBVIOUS
  <2>1. s = {} /\ f[s] = ht
    BY <1>2, <1>3, FS_Subset, FS_EmptySet DEF Sweeps
  <2> QED BY <2>1 DEF EmptyOnly
<1>5. ASSUME NEW n \in Nat, n \in Done
      PROVE  n + 1 \in Done
  <2> SUFFICES ASSUME NEW s \in SUBSET unused, Cardinality(s) = n + 1, Longest(s)
               PROVE  EmptyOnly(f[s], used, unused \ s)
    <3> HIDE DEF Longest
    <3> QED BY n + 1 \in Nat
  <2> DEFINE x == Shortest(s)
             r == s \ {x}
  <2>1. IsFiniteSet(s) /\ s # {}
    BY <1>3, FS_Subset, FS_EmptySet
  <2>2. x \in s /\ \A m \in s : Len(x) <= Len(m)
    BY <1>1, <2>1, ShortestExists
  <2>3. f[s] = EraseNodeIfEmpty(f[r], used, x)
    BY <1>2, <2>1 DEF Sweeps
  <2>4. r \in SUBSET unused /\ Cardinality(r) = n
    <3>1. Cardinality(s \ {x}) = Cardinality(s) - 1
      BY <2>1, <2>2, FS_RemoveElement
    <3> HIDE DEF x
    <3> QED BY <3>1
  <2>5. Longest(r)
    BY <2>2
  <2>6. EmptyOnly(f[r], used, unused \ r)
    BY <1>5, <2>4, <2>5
  <2>7. x \in Names /\ unused \ r \subseteq (unused \ s) \cup {x}
    BY <1>1, <2>2
  <2>8. ASSUME x # <<>>
        PROVE  Parent(x) \in used \cup (unused \ s)
    <3>1. Parent(x) \in Nodes(ht)
      BY <2>2, <2>8 DEF HasParents
    <3>2. Len(x) \in Nat /\ Len(Parent(x)) = Len(x) - 1
      BY <2>7, <2>8, ParentFacts
    <3>3. Parent(x) \notin s
      BY <2>2, <3>2
    <3> QED BY <3>1, <3>3
  <2> HIDE DEF x, r
  <2> QED BY <2>3, <2>6, <2>7, <2>8, EraseNodeFacts
<1> HIDE DEF Done
<1>6. Cardinality(unused) \in Nat
  BY <1>3, FS_CardinalityType
<1>7. \A n \in 0..Cardinality(unused) : n \in Done
  BY <1>4, <1>5, <1>6, UpTo
<1>8. EmptyOnly(f[unused], used, {})
  <2>1. Cardinality(unused) \in Done
    BY <1>6, <1>7
  <2>2. Longest(unused) /\ unused \ unused = {}
    OBVIOUS
  <2> HIDE DEF Longest
  <2> QED BY <2>1, <2>2 DEF Done
<1> QED BY <1>2, <1>8, TreeFacts DEF EmptyOnly, Sweeps

-----------------------------------------------------------------------------
(* Longest matches and effective strategies.                                *)

\* Among the entries whose names a name begins with there is one with the longest name.
LEMMA LongestMatchFacts ==
  ASSUME NEW entries, entries \subseteq Names, NEW name \in Names,
         NEW e \in entries, IsPrefix(e, name)
  PROVE  /\ LongestMatch(entries, name) \in entries
         /\ IsPrefix(LongestMatch(entries, name), name)
         /\ \A q \in entries : IsPrefix(q, name) => Len(q) <= Len(LongestMatch(entries, name))
<1> DEFINE M == Matches(entries, name)
           gaps == {Len(name) - Len(q) : q \in M}
<1>1. \A q \in M : q \in entries /\ IsPrefix(q, name) /\ Len(q) \in Nat /\ Len(q) <= Len(name)
  BY NameFacts, PrefixIs DEF Matches
<1>2. Len(name) \in Nat /\ e \in M
  BY NameFacts DEF Matches
<1>3. gaps \subseteq Nat /\ gaps # {}
  BY <1>1, <1>2
<1>4. PICK gap \in gaps : \A m \in gaps : gap <= m
  BY <1>3, Least
<1>5. PICK p \in M : gap = Len(name) - Len(p)
  BY <1>4
<1> HIDE DEF M
<1>6. \A q \in M : Len(q) <= Len(p)
  <2> SUFFICES ASSUME NEW q \in M PROVE Len(q) <= Len(p)
    OBVIOUS
  <2>1. gap <= Len(name) - Len(q)
    BY <1>4
  <2> QED BY <1>1, <1>2, <1>5, <2>1
<1>7. LongestMatch(entries, name) \in M /\ \A q \in M : Len(q) <= Len(LongestMatch(entries, name))
  BY <1>5, <1>6 DEF LongestMatch, M
<1> QED BY <1>1, <1>7 DEF M, Matches

LEMMA LongestMatchIs ==
  ASSUME NEW entries, entries \subseteq Names, NEW name \in Names,
         NEW p \in entries, IsPrefix(p, name),
         \A q \in entries : IsPrefix(q, name) => Len(q) <= Len(p)
  PROVE  LongestMatch(entries, name) = p
<1> DEFINE l == LongestMatch(entries, name)
<1>1. l \in entries /\ IsPrefix(l, name) /\ Len(p) <= Len(l)
  BY LongestMatchFacts
<1>2. Len(l) <= Len(p) /\ l \in Names /\ p \in Names
  BY <1>1
<1> HIDE DEF l
<1>3. Len(l) \in Nat /\ Len(p) \in Nat
  BY <1>2, NameFacts
<1>4. Len(l) = Len(p)
  BY <1>1, <1>2, <1>3
<1>5. l = p
  BY <1>1, <1>2, <1>4, PrefixesAreNested
<1> QED BY <1>5 DEF l

\* The strategy in effect at a name, by a table that holds an entry for the root
EffectiveBy(choice, name) == choice[LongestMatch(DOMAIN choice, name)]

ChoiceOK(choice) ==
  /\ DOMAIN choice \subseteq Names /\ <<>> \in DOMAIN choice
  /\ \A prefix \in DOMAIN choice : choice[prefix] \in Strategies

LEMMA ChosenExists ==
  ASSUME NEW choice, ChoiceOK(choice), NEW name \in Names
  PROVE  /\ LongestMatch(DOMAIN choice, name) \in DOMAIN choice
         /\ IsPrefix(LongestMatch(DOMAIN choice, name), name)
         /\ \A q \in DOMAIN choice :
              IsPrefix(q, name) => Len(q) <= Len(LongestMatch(DOMAIN choice, name))
         /\ EffectiveBy(choice, name) \in Strategies
<1>1. IsPrefix(<<>>, name) /\ <<>> \in DOMAIN choice /\ DOMAIN choice \subseteq Names
  BY PrefixIsReflexive DEF ChoiceOK
<1> QED BY <1>1, LongestMatchFacts DEF ChoiceOK, EffectiveBy

\* Where a name has no choice of its own, the choice of its parent is in effect.
LEMMA InheritsChoice ==
  ASSUME NEW choice, ChoiceOK(choice), NEW name \in Names, name \notin DOMAIN choice
  PROVE  /\ name # <<>> /\ Parent(name) \in Names
         /\ EffectiveBy(choice, name) = EffectiveBy(choice, Parent(name))
<1> DEFINE p == LongestMatch(DOMAIN choice, name)
<1>1. name # <<>> /\ DOMAIN choice \subseteq Names
  BY DEF ChoiceOK
<1>2. /\ Parent(name) \in Names /\ Len(Parent(name)) = Len(name) - 1 /\ Len(name) \in Nat
      /\ IsPrefix(Parent(name), name)
  BY <1>1, ParentFacts
<1>3. p \in DOMAIN choice /\ IsPrefix(p, name) /\ \A q \in DOMAIN choice : IsPrefix(q, name) => Len(q) <= Len(p)
  BY ChosenExists
<1> HIDE DEF p
<1>4. p \in Names /\ Len(p) \in Nat /\ Len(p) <= Len(name) /\ p = Prefix(name, Len(p)) /\ p # name
  BY <1>1, <1>3, NameFacts, PrefixIs
<1>5. Len(p) # Len(name)
  BY <1>4, NameFacts
<1>6. IsPrefix(p, Parent(name))
  BY <1>2, <1>3, <1>4, <1>5, PrefixesAreNested
<1>7. \A q \in DOMAIN choice : IsPrefix(q, Parent(name)) => Len(q) <= Len(p)
  BY <1>1, <1>2, <1>3, PrefixIsTransitive
<1>8. LongestMatch(DOMAIN choice, Parent(name)) = p
  BY <1>1, <1>2, <1>3, <1>6, <1>7, LongestMatchIs
<1> QED BY <1>1, <1>2, <1>8 DEF EffectiveBy, p

-----------------------------------------------------------------------------
(* What is true of the tables between the steps of a handler.                *)

\* A face's item of ASF: while a timeout event is scheduled, it is marked with its name.
FaceInfoOK(info) ==
  /\ {"last", "timer", "expires"} \subseteq DOMAIN info
  /\ info.timer # None => info.last = info.timer

NamespaceOK(namespace) ==
  /\ {"faces", "due", "first"} \subseteq DOMAIN namespace
  /\ \A face \in DOMAIN namespace.faces : FaceInfoOK(namespace.faces[face])

\* The items of a Measurements entry are of the strategy in effect at its name.
ItemsOK(choice, name, items) ==
  /\ DOMAIN items \subseteq {EffectiveBy(choice, name)}
  /\ "asf" \in DOMAIN items => NamespaceOK(items["asf"])

TimerPending(info) == "access" \in DOMAIN info /\ info["access"].pending

\* So are those of a PIT entry, and the access strategy's timer waits only as a downstream does.
EntryOK(choice, faces, name, entry) ==
  /\ {"ins", "outs", "live", "nacked", "info", "lostTimers"} \subseteq DOMAIN entry
  /\ AttachedTo(name) = name =>
       /\ DOMAIN entry.info \subseteq {EffectiveBy(choice, name)}
       /\ TimerPending(entry.info) /\ faces = AllFaces => entry.ins # {}

Fields == {"ht", "choice", "fib", "measured", "pit", "faces", "probes", "fault"}

TablesOK(t) ==
  /\ DOMAIN t = Fields
  /\ ChoiceOK(t.choice)
  /\ DOMAIN t.fib \subseteq Names /\ DOMAIN t.measured \subseteq Names /\ DOMAIN t.pit \subseteq Names
  /\ TreeOK(t.ht, Used(t))
  /\ \A n \in DOMAIN t.measured : ItemsOK(t.choice, n, t.measured[n])
  /\ \A p \in DOMAIN t.pit : EntryOK(t.choice, t.faces, p, t.pit[p])

\* What the strategies leave alone: the choices, the face table, and who waits for Data
Keeps(t, u) ==
  /\ u.choice = t.choice /\ u.faces = t.faces
  /\ DOMAIN u.pit = DOMAIN t.pit /\ \A p \in DOMAIN t.pit : u.pit[p].ins = t.pit[p].ins

LEMMA KeepsIsTransitive ==
  ASSUME NEW t, NEW u, NEW v, Keeps(t, u), Keeps(u, v)
  PROVE  Keeps(t, v)
BY DEF Keeps

\* One PIT entry is changed.
LEMMA EntryChanges ==
  ASSUME NEW t, TablesOK(t), NEW u, NEW name,
         DOMAIN u = Fields, u.ht = t.ht, u.choice = t.choice, u.fib = t.fib,
         u.measured = t.measured, u.faces = t.faces, DOMAIN u.pit = DOMAIN t.pit,
         \A p \in DOMAIN t.pit : p # name => u.pit[p] = t.pit[p],
         name \in DOMAIN t.pit => EntryOK(t.choice, t.faces, name, u.pit[name])
  PROVE  TablesOK(u)
<1>1. Used(u) = Used(t)
  BY DEF Used
<1>2. \A p \in DOMAIN u.pit : EntryOK(u.choice, u.faces, p, u.pit[p])
  BY DEF TablesOK
<1> QED BY <1>1, <1>2 DEF TablesOK

\* One Measurements entry is changed.
LEMMA MeasuredChanges ==
  ASSUME NEW t, TablesOK(t), NEW u, NEW name,
         DOMAIN u = Fields, u.ht = t.ht, u.choice = t.choice, u.fib = t.fib,
         u.pit = t.pit, u.faces = t.faces, DOMAIN u.measured = DOMAIN t.measured,
         \A n \in DOMAIN t.measured : n # name => u.measured[n] = t.measured[n],
         name \in DOMAIN t.measured => ItemsOK(t.choice, name, u.measured[name])
  PROVE  TablesOK(u)
<1>1. Used(u) = Used(t)
  BY DEF Used
<1>2. \A n \in DOMAIN u.measured : ItemsOK(u.choice, n, u.measured[n])
  BY DEF TablesOK
<1> QED BY <1>1, <1>2 DEF TablesOK

\* The tables where something else is changed, like a fault or a scheduled probe
LEMMA NothingElse ==
  ASSUME NEW t, TablesOK(t), NEW u,
         DOMAIN u = Fields, u.ht = t.ht, u.choice = t.choice, u.fib = t.fib,
         u.measured = t.measured, u.faces = t.faces, u.pit = t.pit
  PROVE  TablesOK(u)
<1>1. Used(u) = Used(t)
  BY DEF Used
<1> QED BY <1>1 DEF TablesOK

LEMMA FaultKeeps ==
  ASSUME NEW t, TablesOK(t), NEW what
  PROVE  TablesOK(Fault(t, what)) /\ Keeps(t, Fault(t, what))
<1> DEFINE u == [t EXCEPT !.fault = what]
<1>1. DOMAIN t = Fields
  BY DEF TablesOK
<1>2. /\ DOMAIN u = Fields /\ u.ht = t.ht /\ u.choice = t.choice /\ u.fib = t.fib
      /\ u.measured = t.measured /\ u.faces = t.faces /\ u.pit = t.pit
  BY <1>1 DEF Fields
<1>3. Fault(t, what) = u \/ Fault(t, what) = t
  BY DEF Fault
<1> HIDE DEF u
<1>4. TablesOK(u) /\ Keeps(t, u)
  BY <1>2, NothingElse DEF Keeps
<1>5. Keeps(t, t)
  BY DEF Keeps
<1> QED BY <1>3, <1>4, <1>5

LEMMA SendKeeps ==
  ASSUME NEW t, TablesOK(t), NEW name, NEW face
  PROVE  LET u == SendInterest(t, name, face)
         IN  TablesOK(u) /\ Keeps(t, u) /\ u.measured = t.measured
             /\ \A p \in DOMAIN t.pit : u.pit[p].info = t.pit[p].info
<1> DEFINE u == [t EXCEPT !.pit[name].outs = @ \cup {face}, !.pit[name].live = @ \cup {face}]
<1>1. DOMAIN t = Fields /\ \A p \in DOMAIN t.pit : EntryOK(t.choice, t.faces, p, t.pit[p])
  BY DEF TablesOK
<1>2. /\ DOMAIN u = Fields /\ u.ht = t.ht /\ u.choice = t.choice /\ u.fib = t.fib
      /\ u.measured = t.measured /\ u.faces = t.faces /\ DOMAIN u.pit = DOMAIN t.pit
      /\ \A p \in DOMAIN t.pit : p # name => u.pit[p] = t.pit[p]
  BY <1>1 DEF Fields
<1>3. name \in DOMAIN t.pit =>
        /\ DOMAIN u.pit[name] = DOMAIN t.pit[name]
        /\ u.pit[name].ins = t.pit[name].ins /\ u.pit[name].info = t.pit[name].info
  BY <1>1 DEF Fields, EntryOK
<1>4. SendInterest(t, name, face) = u \/ SendInterest(t, name, face) = Fault(t, "no in-record")
  BY DEF SendInterest
<1> HIDE DEF u
<1>5. name \in DOMAIN t.pit => EntryOK(t.choice, t.faces, name, u.pit[name])
  BY <1>1, <1>3 DEF EntryOK
<1>6. TablesOK(u)
  BY <1>2, <1>5, EntryChanges
<1>7. Keeps(t, u) /\ \A p \in DOMAIN t.pit : u.pit[p].info = t.pit[p].info
  BY <1>2, <1>3 DEF Keeps
<1>8. Fault(t, "no in-record").measured = t.measured /\ Fault(t, "no in-record").pit = t.pit
  BY <1>1 DEF Fault, Fields
<1> QED BY <1>2, <1>4, <1>6, <1>7, <1>8, FaultKeeps

\* An entry is put in a table.
LEMMA PutDomain ==
  ASSUME NEW f, NEW x, NEW y
  PROVE  DOMAIN Put(f, x, y) = DOMAIN f \cup {x}
BY DEF Put

LEMMA PutAt ==
  ASSUME NEW f, NEW x, NEW y
  PROVE  Put(f, x, y)[x] = y
BY DEF Put

LEMMA PutElsewhere ==
  ASSUME NEW f, NEW x, NEW y, NEW z \in DOMAIN f, z # x
  PROVE  Put(f, x, y)[z] = f[z]
BY DEF Put

LEMMA SendAllKeeps ==
  ASSUME NEW t, TablesOK(t), NEW name, NEW targets
  PROVE  LET u == SendToAll(t, name, targets)
         IN  TablesOK(u) /\ Keeps(t, u) /\ u.measured = t.measured
             /\ \A p \in DOMAIN t.pit : u.pit[p].info = t.pit[p].info
<1> DEFINE u == [t EXCEPT !.pit[name].outs = @ \cup targets, !.pit[name].live = @ \cup targets]
<1>1. DOMAIN t = Fields /\ \A p \in DOMAIN t.pit : EntryOK(t.choice, t.faces, p, t.pit[p])
  BY DEF TablesOK
<1>2. /\ DOMAIN u = Fields /\ u.ht = t.ht /\ u.choice = t.choice /\ u.fib = t.fib
      /\ u.measured = t.measured /\ u.faces = t.faces /\ DOMAIN u.pit = DOMAIN t.pit
      /\ \A p \in DOMAIN t.pit : p # name => u.pit[p] = t.pit[p]
  BY <1>1 DEF Fields
<1>3. name \in DOMAIN t.pit =>
        /\ DOMAIN u.pit[name] = DOMAIN t.pit[name]
        /\ u.pit[name].ins = t.pit[name].ins /\ u.pit[name].info = t.pit[name].info
  BY <1>1 DEF Fields, EntryOK
<1>4. SendToAll(t, name, targets) \in {t, u, Fault(t, "no in-record")}
  BY DEF SendToAll
<1> HIDE DEF u
<1>5. name \in DOMAIN t.pit => EntryOK(t.choice, t.faces, name, u.pit[name])
  BY <1>1, <1>3 DEF EntryOK
<1>6. TablesOK(u)
  BY <1>2, <1>5, EntryChanges
<1>7. Keeps(t, u) /\ \A p \in DOMAIN t.pit : u.pit[p].info = t.pit[p].info
  BY <1>2, <1>3 DEF Keeps
<1>8. Fault(t, "no in-record").measured = t.measured /\ Fault(t, "no in-record").pit = t.pit
  BY <1>1 DEF Fault, Fields
<1>9. Keeps(t, t)
  BY DEF Keeps
<1> QED BY <1>2, <1>4, <1>6, <1>7, <1>8, <1>9, FaultKeeps

\* A strategy's item is put in a PIT entry where that strategy is in effect.
LEMMA SetPitInfoKeeps ==
  ASSUME NEW t, TablesOK(t), NEW name, NEW strategy, NEW info,
         name \in DOMAIN t.pit /\ AttachedTo(name) = name =>
           /\ strategy = EffectiveBy(t.choice, name)
           /\ strategy = "access" /\ info.pending /\ t.faces = AllFaces => t.pit[name].ins # {}
  PROVE  LET u == SetPitInfo(t, strategy, name, info)
         IN  /\ TablesOK(u) /\ Keeps(t, u)
             /\ u.measured = t.measured /\ u.ht = t.ht /\ u.fib = t.fib /\ u.faces = t.faces
             /\ name \in DOMAIN t.pit =>
                  /\ DOMAIN u.pit[name].info = DOMAIN t.pit[name].info \cup {strategy}
                  /\ u.pit[name].info[strategy] = info
<1> DEFINE u == SetPitInfo(t, strategy, name, info)
<1>1. DOMAIN t = Fields /\ \A p \in DOMAIN t.pit : EntryOK(t.choice, t.faces, p, t.pit[p])
  BY DEF TablesOK
<1>2. /\ DOMAIN u = Fields /\ u.ht = t.ht /\ u.choice = t.choice /\ u.fib = t.fib
      /\ u.measured = t.measured /\ u.faces = t.faces /\ DOMAIN u.pit = DOMAIN t.pit
      /\ \A p \in DOMAIN t.pit : p # name => u.pit[p] = t.pit[p]
  BY <1>1 DEF Fields, SetPitInfo
<1>3. name \in DOMAIN t.pit =>
        /\ DOMAIN u.pit[name] = DOMAIN t.pit[name]
        /\ u.pit[name].ins = t.pit[name].ins
        /\ u.pit[name].info = Put(t.pit[name].info, strategy, info)
  BY <1>1 DEF Fields, EntryOK, SetPitInfo
<1> HIDE DEF u
<1>5. name \in DOMAIN t.pit => EntryOK(t.choice, t.faces, name, u.pit[name])
  <2> SUFFICES ASSUME name \in DOMAIN t.pit
               PROVE  EntryOK(t.choice, t.faces, name, u.pit[name])
    OBVIOUS
  <2> DEFINE e == t.pit[name]
             v == u.pit[name]
  <2>1. EntryOK(t.choice, t.faces, name, e)
    BY <1>1
  <2>a. DOMAIN v = DOMAIN e /\ v.ins = e.ins
    BY <1>3
  <2>b. DOMAIN v.info = DOMAIN e.info \cup {strategy}
    <3>1. DOMAIN Put(e.info, strategy, info) = DOMAIN e.info \cup {strategy}
      BY PutDomain
    <3>2. v.info = Put(e.info, strategy, info)
      BY <1>3
    <3> HIDE DEF e, v
    <3> QED BY <3>1, <3>2
  <2>c. v.info[strategy] = info
    BY <1>3, PutAt
  <2>d. \A x \in DOMAIN e.info : x # strategy => v.info[x] = e.info[x]
    BY <1>3, PutElsewhere
  <2> HIDE DEF v
  <2>2. /\ DOMAIN v = DOMAIN e /\ v.ins = e.ins /\ DOMAIN v.info = DOMAIN e.info \cup {strategy}
        /\ v.info[strategy] = info /\ \A x \in DOMAIN e.info : x # strategy => v.info[x] = e.info[x]
    BY <2>a, <2>b, <2>c, <2>d
  <2> SUFFICES ASSUME AttachedTo(name) = name
               PROVE  /\ DOMAIN v.info \subseteq {EffectiveBy(t.choice, name)}
                      /\ TimerPending(v.info) /\ t.faces = AllFaces => v.ins # {}
    BY <2>1, <2>2 DEF EntryOK, v
  <2>3. DOMAIN v.info \subseteq {strategy}
    BY <2>1, <2>2 DEF EntryOK
  <2>4. TimerPending(v.info) => strategy = "access" /\ info.pending
    BY <2>2, <2>3 DEF TimerPending
  <2> QED BY <2>2, <2>3, <2>4
<1>6. TablesOK(u)
  BY <1>2, <1>5, EntryChanges
<1>7. Keeps(t, u)
  BY <1>2, <1>3 DEF Keeps
<1>8. DOMAIN Put(t.pit[name].info, strategy, info) = DOMAIN t.pit[name].info \cup {strategy}
  BY PutDomain
<1>9. Put(t.pit[name].info, strategy, info)[strategy] = info
  BY PutAt
<1> QED BY <1>2, <1>3, <1>6, <1>7, <1>8, <1>9 DEF u
\* What the Measurements table leaves alone besides: the PIT
KeepsPit(t, u) == u.choice = t.choice /\ u.faces = t.faces /\ u.pit = t.pit

LEMMA KeepsPitKeeps ==
  ASSUME NEW t, NEW u, KeepsPit(t, u)
  PROVE  Keeps(t, u)
BY DEF Keeps, KeepsPit

LEMMA KeepsPitIsTransitive ==
  ASSUME NEW t, NEW u, NEW v, KeepsPit(t, u), KeepsPit(u, v)
  PROVE  KeepsPit(t, v)
BY DEF KeepsPit

\* An entry is there, or was made without items.
LEMMA MeasuredIsMade ==
  ASSUME NEW t, TablesOK(t), NEW name \in Names, NEW u,
         DOMAIN u = Fields, u.choice = t.choice, u.fib = t.fib, u.faces = t.faces, u.pit = t.pit,
         TreeOK(u.ht, Used(t) \cup {name}),
         \/ u.measured = t.measured /\ name \in DOMAIN t.measured
         \/ u.measured = Put(t.measured, name, NoInfo)
  PROVE  TablesOK(u) /\ KeepsPit(t, u) /\ name \in DOMAIN u.measured
<1>1. DOMAIN Put(t.measured, name, NoInfo) = DOMAIN t.measured \cup {name}
  BY PutDomain
<1>2. DOMAIN u.measured = DOMAIN t.measured \cup {name}
  BY <1>1
<1>3. Used(u) = Used(t) \cup {name}
  BY <1>2 DEF Used
<1>4. ASSUME NEW n \in DOMAIN u.measured
      PROVE  ItemsOK(u.choice, n, u.measured[n])
  <2>1. CASE u.measured = t.measured
    BY <1>4, <2>1 DEF TablesOK
  <2>2. CASE u.measured = Put(t.measured, name, NoInfo) /\ n = name
    <3>1. u.measured[n] = NoInfo
      BY <2>2, PutAt
    <3> QED BY <3>1 DEF ItemsOK, NoInfo
  <2>3. CASE u.measured = Put(t.measured, name, NoInfo) /\ n # name
    <3>1. n \in DOMAIN t.measured
      BY <1>2, <2>3
    <3>2. u.measured[n] = t.measured[n]
      BY <2>3, <3>1, PutElsewhere
    <3> QED BY <3>1, <3>2 DEF TablesOK
  <2> QED BY <2>1, <2>2, <2>3
<1>5. DOMAIN u.measured \subseteq Names
  BY <1>2 DEF TablesOK
<1>6. TablesOK(u)
  BY <1>3, <1>4, <1>5 DEF TablesOK
<1> QED BY <1>2, <1>6 DEF KeepsPit

LEMMA MeasuredKeeps ==
  ASSUME NEW t, TablesOK(t), NEW name \in Names
  PROVE  LET u == Measured(t, name)
         IN  TablesOK(u) /\ KeepsPit(t, u) /\ name \in DOMAIN u.measured
<1> DEFINE u == Measured(t, name)
<1>1. DOMAIN t = Fields /\ TreeOK(t.ht, Used(t))
  BY DEF TablesOK
<1>2. CASE name \in DOMAIN t.measured
  BY <1>2 DEF Measured, KeepsPit
<1>3. CASE name \notin DOMAIN t.measured
  <2>1. u = SetMeasurementsEntry([t EXCEPT !.ht = Lookup(@, name)], name)
    BY <1>3 DEF Measured
  <2>2. /\ DOMAIN u = Fields /\ u.choice = t.choice /\ u.fib = t.fib /\ u.faces = t.faces
        /\ u.pit = t.pit /\ u.ht = Lookup(t.ht, name) /\ u.measured = Put(t.measured, name, NoInfo)
    BY <1>1, <2>1 DEF Fields, SetMeasurementsEntry
  <2> HIDE DEF u
  <2>3. TreeOK(u.ht, Used(t) \cup {name})
    BY <1>1, <2>2, EnterKeepsTree
  <2> QED BY <2>2, <2>3, MeasuredIsMade DEF u
<1> QED BY <1>2, <1>3

LEMMA MeasuredParentKeeps ==
  ASSUME NEW t, TablesOK(t), NEW name \in Names
  PROVE  LET u == MeasuredParent(t, name) IN TablesOK(u) /\ KeepsPit(t, u)
<1>1. CASE name = <<>>
  BY <1>1 DEF MeasuredParent, KeepsPit
<1>2. CASE name # <<>>
  <2>1. Parent(name) \in Names
    BY <1>2, ParentFacts
  <2>2. MeasuredParent(t, name) = Measured(t, Parent(name))
    BY <1>2 DEF MeasuredParent
  <2> QED BY <2>1, <2>2, MeasuredKeeps
<1> QED BY <1>1, <1>2

LEMMA MeasuredForPitKeeps ==
  ASSUME NEW t, TablesOK(t), NEW name \in Names
  PROVE  LET u == MeasuredForPit(t, name)
         IN  TablesOK(u) /\ KeepsPit(t, u) /\ name \in DOMAIN u.measured
<1> DEFINE v == [t EXCEPT !.ht = Lookup(@, name)]
           u == MeasuredForPit(t, name)
<1>1. DOMAIN t = Fields /\ TreeOK(t.ht, Used(t))
  BY DEF TablesOK
<1>2. CASE AttachedTo(name) = name
  BY <1>2, MeasuredKeeps DEF MeasuredForPit, LookupPit
<1>3. CASE AttachedTo(name) # name
  <2>1. u = Measured(v, name)
    BY <1>3 DEF MeasuredForPit, LookupPit
  <2>2. /\ DOMAIN v = Fields /\ v.choice = t.choice /\ v.fib = t.fib /\ v.faces = t.faces
        /\ v.pit = t.pit /\ v.ht = Lookup(t.ht, name) /\ v.measured = t.measured
    BY <1>1 DEF Fields
  <2>3. TreeOK(v.ht, Used(t) \cup {name})
    BY <1>1, <2>2, EnterKeepsTree
  <2>4. CASE name \in DOMAIN t.measured
    <3>1. u = v
      BY <2>1, <2>2, <2>4 DEF Measured
    <3> HIDE DEF u, v
    <3> QED BY <2>2, <2>3, <2>4, <3>1, MeasuredIsMade DEF u
  <2>5. CASE name \notin DOMAIN t.measured
    <3> HIDE DEF v
    <3>1. u = SetMeasurementsEntry([v EXCEPT !.ht = Lookup(@, name)], name)
      BY <2>1, <2>2, <2>5 DEF Measured
    <3>2. /\ DOMAIN u = Fields /\ u.choice = t.choice /\ u.fib = t.fib /\ u.faces = t.faces
          /\ u.pit = t.pit /\ u.ht = Lookup(v.ht, name) /\ u.measured = Put(t.measured, name, NoInfo)
      BY <2>2, <3>1 DEF Fields, SetMeasurementsEntry
    <3> HIDE DEF u
    <3>3. TreeOK(u.ht, (Used(t) \cup {name}) \cup {name})
      BY <2>3, <3>2, EnterKeepsTree
    <3>4. (Used(t) \cup {name}) \cup {name} = Used(t) \cup {name}
      OBVIOUS
    <3> QED BY <3>2, <3>3, <3>4, MeasuredIsMade DEF u
  <2> QED BY <2>4, <2>5
<1> QED BY <1>2, <1>3

\* The items of one Measurements entry are changed.
LEMMA ItemsChange ==
  ASSUME NEW t, TablesOK(t), NEW name, NEW items, NEW u,
         u = [t EXCEPT !.measured[name] = items],
         name \in DOMAIN t.measured => ItemsOK(t.choice, name, items)
  PROVE  TablesOK(u) /\ KeepsPit(t, u)
<1>1. DOMAIN t = Fields
  BY DEF TablesOK
<1>2. /\ DOMAIN u = Fields /\ u.ht = t.ht /\ u.choice = t.choice /\ u.fib = t.fib
      /\ u.pit = t.pit /\ u.faces = t.faces /\ DOMAIN u.measured = DOMAIN t.measured
      /\ \A n \in DOMAIN t.measured : n # name => u.measured[n] = t.measured[n]
      /\ name \in DOMAIN t.measured => u.measured[name] = items
  BY <1>1 DEF Fields
<1>3. TablesOK(u)
  BY <1>2, MeasuredChanges, ZenonT(60)
<1> QED BY <1>2, <1>3 DEF KeepsPit

\* A strategy's item is put in an entry where that strategy is in effect.
LEMMA SetInfoKeeps ==
  ASSUME NEW t, TablesOK(t), NEW strategy, NEW name, NEW info,
         strategy = EffectiveBy(t.choice, name),
         strategy = "asf" => NamespaceOK(info)
  PROVE  LET u == SetInfo(t, strategy, name, info) IN TablesOK(u) /\ KeepsPit(t, u)
<1> DEFINE old == t.measured[name]
           items == Put(old, strategy, info)
           u == SetInfo(t, strategy, name, info)
<1>1. u = [t EXCEPT !.measured[name] = items]
  BY DEF SetInfo
<1>2. DOMAIN items = DOMAIN old \cup {strategy}
  BY PutDomain
<1>3. items[strategy] = info
  BY PutAt
<1>4. name \in DOMAIN t.measured => ItemsOK(t.choice, name, old)
  BY DEF TablesOK
<1> HIDE DEF items, u
<1>5. name \in DOMAIN t.measured => ItemsOK(t.choice, name, items)
  BY <1>2, <1>3, <1>4 DEF ItemsOK
<1>6. TablesOK(u) /\ KeepsPit(t, u)
  BY <1>1, <1>5, ItemsChange
<1> QED BY <1>6 DEF u

LEMMA FaultKeepsPit ==
  ASSUME NEW t, TablesOK(t), NEW what
  PROVE  TablesOK(Fault(t, what)) /\ KeepsPit(t, Fault(t, what))
<1>1. DOMAIN t = Fields
  BY DEF TablesOK
<1>2. KeepsPit(t, Fault(t, what))
  BY <1>1 DEF Fault, Fields, KeepsPit
<1> QED BY <1>2, FaultKeeps

-----------------------------------------------------------------------------
(* The access strategy.                                                     *)

LEMMA AccessNewInterestKeeps ==
  ASSUME NEW t, TablesOK(t), NEW name \in DOMAIN t.pit, NEW inFace, t.pit[name].ins # {},
         AttachedTo(name) = name => EffectiveBy(t.choice, name) = "access"
  PROVE  LET u == AccessNewInterest(t, name, inFace) IN TablesOK(u) /\ Keeps(t, u)
<1> DEFINE last == LastNexthop(t, name)
           u == AccessNewInterest(t, name, inFace)
           v == SendInterest(t, name, last)
           timer == [pending |-> TRUE, inFace |-> inFace, outFace |-> last]
<1>1. u = SetPitInfo(v, "access", name, timer) \/ u = Multicast(t, name, {inFace})
  BY DEF AccessNewInterest
<1>2. TablesOK(v) /\ Keeps(t, v)
  BY SendKeeps
<1> HIDE DEF v, timer
<1>3. /\ name \in DOMAIN v.pit /\ v.pit[name].ins # {}
      /\ AttachedTo(name) = name => "access" = EffectiveBy(v.choice, name)
  BY <1>2 DEF Keeps
<1>4. TablesOK(SetPitInfo(v, "access", name, timer)) /\ Keeps(v, SetPitInfo(v, "access", name, timer))
  BY <1>2, <1>3, SetPitInfoKeeps
<1>5. TablesOK(Multicast(t, name, {inFace})) /\ Keeps(t, Multicast(t, name, {inFace}))
  BY SendAllKeeps DEF Multicast
<1> QED BY <1>1, <1>2, <1>4, <1>5, KeepsIsTransitive

LEMMA AccessAfterInterestKeeps ==
  ASSUME NEW t, TablesOK(t), NEW name \in DOMAIN t.pit, NEW inFace, t.pit[name].ins # {},
         AttachedTo(name) = name => EffectiveBy(t.choice, name) = "access",
         NEW u \in AccessAfterInterest(t, name, inFace)
  PROVE  TablesOK(u) /\ Keeps(t, u)
<1>1. u \in {AccessNewInterest(t, name, inFace), Multicast(t, name, {inFace}), t}
  BY DEF AccessAfterInterest, RetxSuppressionFixed
<1>2. TablesOK(Multicast(t, name, {inFace})) /\ Keeps(t, Multicast(t, name, {inFace}))
  BY SendAllKeeps DEF Multicast
<1>3. Keeps(t, t)
  BY DEF Keeps
<1> QED BY <1>1, <1>2, <1>3, AccessNewInterestKeeps

\* An item of the access strategy in a PIT entry means that it is in effect there.
LEMMA RtoMeansAccess ==
  ASSUME NEW t, TablesOK(t), NEW name \in DOMAIN t.pit, RtoIsPending(t, name)
  PROVE  AttachedTo(name) = name => "access" = EffectiveBy(t.choice, name)
<1>1. "access" \in DOMAIN t.pit[name].info /\ EntryOK(t.choice, t.faces, name, t.pit[name])
  BY DEF RtoIsPending, TablesOK
<1> QED BY <1>1 DEF EntryOK

LEMMA NoTimerKeeps ==
  ASSUME NEW t, TablesOK(t), NEW name \in DOMAIN t.pit, RtoIsPending(t, name)
  PROVE  LET u == SetPitInfo(t, "access", name, NoTimer)
         IN  TablesOK(u) /\ Keeps(t, u) /\ ~TimerPending(u.pit[name].info)
<1>1. ~NoTimer.pending
  BY DEF NoTimer
<1>2. AttachedTo(name) = name => "access" = EffectiveBy(t.choice, name)
  BY RtoMeansAccess
<1> DEFINE u == SetPitInfo(t, "access", name, NoTimer)
<1>3. TablesOK(u) /\ Keeps(t, u) /\ u.pit[name].info["access"] = NoTimer
  BY <1>1, <1>2, SetPitInfoKeeps
<1> HIDE DEF u
<1> QED BY <1>1, <1>3 DEF TimerPending, u

LEMMA AfterRtoTimeoutKeeps ==
  ASSUME NEW t, TablesOK(t), NEW name \in DOMAIN t.pit, RtoIsPending(t, name)
  PROVE  LET u == AfterRtoTimeout(t, name) IN TablesOK(u) /\ Keeps(t, u)
<1> DEFINE timer == PitInfo(t, "access", name)
           v == SetPitInfo(t, "access", name, NoTimer)
           u == Multicast(v, name, {timer.inFace, timer.outFace})
<1>1. AfterRtoTimeout(t, name) = u
  BY DEF AfterRtoTimeout
<1>2. TablesOK(v) /\ Keeps(t, v)
  BY NoTimerKeeps
<1> HIDE DEF v
<1>3. TablesOK(u) /\ Keeps(v, u)
  BY <1>2, SendAllKeeps DEF Multicast
<1> HIDE DEF u
<1> QED BY <1>1, <1>2, <1>3, KeepsIsTransitive

LEMMA UpdateMeasurementsKeeps ==
  ASSUME NEW t, TablesOK(t), NEW data \in Names, NEW face
  PROVE  LET u == UpdateMeasurements(t, data, face) IN TablesOK(u) /\ KeepsPit(t, u)
<1> DEFINE parent == MeasuredParent(t, data)
           v == Measured(parent, data)
           u == UpdateMeasurements(t, data, face)
<1>1. TablesOK(parent) /\ KeepsPit(t, parent)
  BY MeasuredParentKeeps
<1> HIDE DEF parent
<1>2. TablesOK(v) /\ KeepsPit(parent, v)
  BY <1>1, MeasuredKeeps
<1>3. CASE data # <<>> /\ MayMeasure(parent, "access", Parent(data))
  <2>1. u = SetInfo(parent, "access", CHOOSE name \in {Parent(data)} : TRUE, face)
    BY <1>3 DEF UpdateMeasurements, AddPrefixMeasurements, parent
  <2>2. u = SetInfo(parent, "access", Parent(data), face)
    BY <2>1
  <2>3. "access" = EffectiveBy(parent.choice, Parent(data))
    BY <1>3 DEF MayMeasure, EffectiveStrategy, EffectiveBy
  <2> HIDE DEF u
  <2>4. TablesOK(u) /\ KeepsPit(parent, u)
    BY <1>1, <2>2, <2>3, SetInfoKeeps
  <2> QED BY <1>1, <2>4, KeepsPitIsTransitive DEF u
<1>4. CASE ~(data # <<>> /\ MayMeasure(parent, "access", Parent(data))) /\ MayMeasure(parent, "access", data)
  <2>1. u = SetInfo(v, "access", CHOOSE name \in {data} : TRUE, face)
    BY <1>4 DEF UpdateMeasurements, AddPrefixMeasurements, parent
  <2>2. u = SetInfo(v, "access", data, face)
    BY <2>1
  <2>3. "access" = EffectiveBy(v.choice, data)
    BY <1>2, <1>4 DEF MayMeasure, EffectiveStrategy, EffectiveBy, KeepsPit
  <2> HIDE DEF u, v
  <2>4. TablesOK(u) /\ KeepsPit(v, u)
    BY <1>2, <2>2, <2>3, SetInfoKeeps
  <2> QED BY <1>1, <1>2, <2>4, KeepsPitIsTransitive DEF u
<1>5. CASE ~(data # <<>> /\ MayMeasure(parent, "access", Parent(data))) /\ ~MayMeasure(parent, "access", data)
  <2>1. u = Fault(v, "no measurements for Data")
    BY <1>5 DEF UpdateMeasurements, AddPrefixMeasurements, parent
  <2> HIDE DEF u, v
  <2>2. TablesOK(u) /\ KeepsPit(v, u)
    BY <1>2, <2>1, FaultKeepsPit
  <2> QED BY <1>1, <1>2, <2>2, KeepsPitIsTransitive DEF u
<1> QED BY <1>3, <1>4, <1>5

\* Once Data came, the timer of the access strategy is cancelled.
LEMMA AccessBeforeSatisfyKeeps ==
  ASSUME NEW t, TablesOK(t), NEW name \in DOMAIN t.pit, NEW face, NEW data \in Names
  PROVE  LET u == AccessBeforeSatisfy(t, name, face, data)
         IN  TablesOK(u) /\ Keeps(t, u) /\ ~TimerPending(u.pit[name].info)
<1> DEFINE v == CancelRto(t, name)
           w == UpdateMeasurements(v, data, face)
           u == AccessBeforeSatisfy(t, name, face, data)
<1>1. TablesOK(v) /\ Keeps(t, v) /\ ~TimerPending(v.pit[name].info)
  <2>1. CASE RtoIsPending(t, name)
    <3>1. v = SetPitInfo(t, "access", name, NoTimer)
      BY <2>1 DEF CancelRto
    <3> QED BY <2>1, <3>1, NoTimerKeeps
  <2>2. CASE ~RtoIsPending(t, name)
    BY <2>2 DEF CancelRto, Keeps, TimerPending, RtoIsPending, PitInfo
  <2> QED BY <2>1, <2>2
<1>2. u = v \/ u = w
  BY DEF AccessBeforeSatisfy
<1> HIDE DEF v
<1>3. TablesOK(w) /\ KeepsPit(v, w)
  BY <1>1, UpdateMeasurementsKeeps
<1>4. ~TimerPending(w.pit[name].info)
  BY <1>1, <1>3 DEF KeepsPit
<1> HIDE DEF w, u
<1>5. TablesOK(u) /\ Keeps(t, u) /\ ~TimerPending(u.pit[name].info)
  BY <1>1, <1>2, <1>3, <1>4, KeepsPitKeeps, KeepsIsTransitive
<1> QED BY <1>5 DEF u

-----------------------------------------------------------------------------
(* NCC.                                                                     *)

\* The items of one PIT entry are changed, that of the access strategy is not.
LEMMA InfosChange ==
  ASSUME NEW t, TablesOK(t), NEW u, NEW name,
         DOMAIN u = Fields, u.ht = t.ht, u.choice = t.choice, u.fib = t.fib,
         u.measured = t.measured, u.faces = t.faces, DOMAIN u.pit = DOMAIN t.pit,
         \A p \in DOMAIN t.pit : p # name => u.pit[p] = t.pit[p],
         name \in DOMAIN t.pit =>
           /\ DOMAIN u.pit[name] = DOMAIN t.pit[name] /\ u.pit[name].ins = t.pit[name].ins
           /\ DOMAIN u.pit[name].info = DOMAIN t.pit[name].info
           /\ "access" \in DOMAIN t.pit[name].info =>
                u.pit[name].info["access"] = t.pit[name].info["access"]
  PROVE  TablesOK(u) /\ Keeps(t, u)
<1>1. \A p \in DOMAIN t.pit : EntryOK(t.choice, t.faces, p, t.pit[p])
  BY DEF TablesOK
<1>2. name \in DOMAIN t.pit => EntryOK(t.choice, t.faces, name, u.pit[name])
  BY <1>1 DEF EntryOK, TimerPending
<1>3. TablesOK(u)
  BY <1>2, EntryChanges
<1>4. Keeps(t, u)
  BY DEF Keeps
<1> QED BY <1>3, <1>4

\* One of NCC's timers is set or not in the item of a PIT entry, and maybe lost.
LEMMA NccTimersKeep ==
  ASSUME NEW t, TablesOK(t), NEW name, NEW timers, NEW lost, NEW u,
         u = [t EXCEPT !.pit[name].info["ncc"] = timers, !.pit[name].lostTimers = lost]
         \/ u = [t EXCEPT !.pit[name].info["ncc"] = timers]
         \/ u = [t EXCEPT !.pit[name].lostTimers = lost]
  PROVE  TablesOK(u) /\ Keeps(t, u)
<1>1. DOMAIN t = Fields /\ \A p \in DOMAIN t.pit : EntryOK(t.choice, t.faces, p, t.pit[p])
  BY DEF TablesOK
<1>2. /\ DOMAIN u = Fields /\ u.ht = t.ht /\ u.choice = t.choice /\ u.fib = t.fib
      /\ u.measured = t.measured /\ u.faces = t.faces /\ DOMAIN u.pit = DOMAIN t.pit
      /\ \A p \in DOMAIN t.pit : p # name => u.pit[p] = t.pit[p]
  BY <1>1, ZenonT(60) DEF Fields
<1>3. name \in DOMAIN t.pit =>
        \/ u.pit[name] = [t.pit[name] EXCEPT !.info["ncc"] = timers, !.lostTimers = lost]
        \/ u.pit[name] = [t.pit[name] EXCEPT !.info["ncc"] = timers]
        \/ u.pit[name] = [t.pit[name] EXCEPT !.lostTimers = lost]
  BY <1>1, ZenonT(60) DEF Fields
<1>4. name \in DOMAIN t.pit =>
        /\ DOMAIN u.pit[name] = DOMAIN t.pit[name] /\ u.pit[name].ins = t.pit[name].ins
        /\ \/ u.pit[name].info = t.pit[name].info
           \/ u.pit[name].info = [t.pit[name].info EXCEPT !["ncc"] = timers]
  BY <1>1, <1>3 DEF EntryOK
<1>5. name \in DOMAIN t.pit =>
        /\ DOMAIN u.pit[name].info = DOMAIN t.pit[name].info
        /\ "access" \in DOMAIN t.pit[name].info =>
             u.pit[name].info["access"] = t.pit[name].info["access"]
  BY <1>4
<1> QED BY <1>2, <1>4, <1>5, InfosChange

\* What NCC knows of the best faces changes in its item of a Measurements entry.
LEMMA NccItemKeeps ==
  ASSUME NEW t, TablesOK(t), NEW name, NEW info, NEW u,
         u = [t EXCEPT !.measured[name]["ncc"] = info]
  PROVE  TablesOK(u) /\ KeepsPit(t, u)
<1> DEFINE items == [t.measured[name] EXCEPT !["ncc"] = info]
<1>1. u = [t EXCEPT !.measured[name] = items]
  OBVIOUS
<1>2. name \in DOMAIN t.measured => ItemsOK(t.choice, name, t.measured[name])
  BY DEF TablesOK
<1>3. name \in DOMAIN t.measured => ItemsOK(t.choice, name, items)
  BY <1>2 DEF ItemsOK
<1> HIDE DEF items
<1> QED BY <1>1, <1>3, ItemsChange

InheritsFaces(f, t, name) ==
  /\ WithFaces(t, name) = f[Len(name)]
  /\ \A len \in 0..Len(name) : f[len] = WithFacesStep(t, name, len, f[len - 1])

LEMMA WithFacesRecursion ==
  ASSUME NEW t, NEW name \in Names
  PROVE  \E f : InheritsFaces(f, t, name)
<1> DEFINE Good(f) == f = [len \in 0..Len(name) |->
                            LET at == Prefix(name, len)
                                above == Prefix(name, len - 1)
                                inherits == len # 0 /\ MayMeasure(t, "ncc", above)
                                filled == IF inherits THEN f[len - 1] ELSE MeasuredParent(t, at)
                            IN  IF at \in DOMAIN t.measured /\ HasInfo(t, "ncc", at) THEN t
                                ELSE SetInfo(Measured(filled, at), "ncc", at,
                                             IF inherits THEN filled.measured[above]["ncc"]
                                             ELSE NewFaces)]
           f == CHOOSE f : Good(f)
           k == <<"faces", t, name>>
<1>1. WithFaces(t, name) = f[Len(name)]
  BY DEF WithFaces
<1>2. PICK g : RecursOnNumbers(g, k, t, Len(name))
  BY NumberRecursion, NameFacts
<1>3. \A n, v : NumberStep(k, n, v) = WithFacesStep(t, name, n, v)
  BY DEF NumberStep
<1>4. g = [len \in 0..Len(name) |->
            WithFacesStep(t, name, len, IF len = 0 THEN t ELSE g[len - 1])]
  BY <1>2, <1>3 DEF RecursOnNumbers
<1>5. \A v, w : WithFacesStep(t, name, 0, v) = WithFacesStep(t, name, 0, w)
  BY DEF WithFacesStep
<1>6. g = [len \in 0..Len(name) |-> WithFacesStep(t, name, len, g[len - 1])]
  BY <1>4, <1>5
<1>7. Good(g)
  BY <1>6 DEF WithFacesStep
<1>8. Good(f)
  BY <1>7
<1>9. \A len \in 0..Len(name) : f[len] = WithFacesStep(t, name, len, f[len - 1])
  BY <1>8 DEF WithFacesStep
<1> HIDE DEF f
<1> QED BY <1>1, <1>9 DEF InheritsFaces

\* Each entry that gets an item is in the namespace of NCC.
LEMMA WithFacesKeeps ==
  ASSUME NEW t, TablesOK(t), NEW name \in Names, MayMeasure(t, "ncc", name)
  PROVE  LET u == WithFaces(t, name) IN TablesOK(u) /\ KeepsPit(t, u)
<1>1. PICK f : InheritsFaces(f, t, name)
  BY WithFacesRecursion
<1>2. Len(name) \in Nat /\ Prefix(name, Len(name)) = name /\ \A len \in 0..Len(name) : Prefix(name, len) \in Names
  BY NameFacts
<1>3. ASSUME NEW len \in 0..Len(name), NEW prev, MayMeasure(t, "ncc", Prefix(name, len)),
             len # 0 /\ MayMeasure(t, "ncc", Prefix(name, len - 1)) => TablesOK(prev) /\ KeepsPit(t, prev)
      PROVE  TablesOK(WithFacesStep(t, name, len, prev)) /\ KeepsPit(t, WithFacesStep(t, name, len, prev))
  <2> DEFINE at == Prefix(name, len)
             above == Prefix(name, len - 1)
             inherits == len # 0 /\ MayMeasure(t, "ncc", above)
             filled == IF inherits THEN prev ELSE MeasuredParent(t, at)
             v == Measured(filled, at)
             info == IF inherits THEN filled.measured[above]["ncc"] ELSE NewFaces
             u == SetInfo(v, "ncc", at, info)
  <2>1. WithFacesStep(t, name, len, prev) \in {t, u}
    BY DEF WithFacesStep
  <2>2. at \in Names /\ "ncc" = EffectiveBy(t.choice, at)
    BY <1>2, <1>3 DEF MayMeasure, EffectiveStrategy, EffectiveBy
  <2>3. TablesOK(filled) /\ KeepsPit(t, filled)
    BY <1>3, <2>2, MeasuredParentKeeps
  <2> HIDE DEF filled, at, inherits
  <2>4. TablesOK(v) /\ KeepsPit(filled, v)
    BY <2>2, <2>3, MeasuredKeeps
  <2> HIDE DEF v, info
  <2>5. "ncc" = EffectiveBy(v.choice, at)
    BY <2>2, <2>3, <2>4 DEF KeepsPit
  <2>6. TablesOK(u) /\ KeepsPit(v, u)
    BY <2>4, <2>5, SetInfoKeeps
  <2> HIDE DEF u
  <2>7. KeepsPit(t, u) /\ KeepsPit(t, t)
    BY <2>3, <2>4, <2>6 DEF KeepsPit
  <2> QED BY <2>1, <2>6, <2>7
<1> DEFINE Done == {len \in 0..Len(name) : MayMeasure(t, "ncc", Prefix(name, len)) =>
                                             TablesOK(f[len]) /\ KeepsPit(t, f[len])}
<1>4. 0 \in Done
  <2>1. 0 \in 0..Len(name) /\ f[0] = WithFacesStep(t, name, 0, f[0 - 1])
    BY <1>1, <1>2 DEF InheritsFaces
  <2> QED BY <1>3, <2>1
<1>5. ASSUME NEW n \in 0..Len(name), n < Len(name), n \in Done
      PROVE  n + 1 \in Done
  <2>1. n + 1 \in 0..Len(name) /\ (n + 1) - 1 = n
    BY <1>2, <1>5
  <2>2. f[n + 1] = WithFacesStep(t, name, n + 1, f[n])
    BY <1>1, <2>1 DEF InheritsFaces
  <2>3. MayMeasure(t, "ncc", Prefix(name, n)) => TablesOK(f[n]) /\ KeepsPit(t, f[n])
    BY <1>5
  <2>4. MayMeasure(t, "ncc", Prefix(name, n + 1)) => TablesOK(f[n + 1]) /\ KeepsPit(t, f[n + 1])
    BY <1>3, <2>1, <2>2, <2>3
  <2> QED BY <2>1, <2>4
<1> HIDE DEF Done
<1>6. \A n \in 0..Len(name) : n \in Done
  BY <1>2, <1>4, <1>5, UpTo
<1>7. Len(name) \in Done
  BY <1>2, <1>6
<1>8. TablesOK(f[Len(name)]) /\ KeepsPit(t, f[Len(name)])
  BY <1>2, <1>7 DEF Done
<1> QED BY <1>1, <1>8 DEF InheritsFaces

LEMMA MeasuredFacesKeeps ==
  ASSUME NEW t, TablesOK(t), NEW name \in Names, MayMeasure(t, "ncc", name)
  PROVE  LET u == MeasuredFaces(t, name) IN TablesOK(u) /\ KeepsPit(t, u)
<1> DEFINE v == MeasuredForPit(t, name)
           u == WithFaces(v, name)
<1>1. TablesOK(v) /\ KeepsPit(t, v)
  BY MeasuredForPitKeeps
<1> HIDE DEF v
<1>2. MayMeasure(v, "ncc", name)
  BY <1>1 DEF MayMeasure, EffectiveStrategy, KeepsPit
<1>3. TablesOK(u) /\ KeepsPit(v, u)
  BY <1>1, <1>2, WithFacesKeeps
<1>4. KeepsPit(t, u)
  BY <1>1, <1>3, KeepsPitIsTransitive
<1> QED BY <1>3, <1>4 DEF MeasuredFaces, v

LEMMA ToFirstEligibleKeeps ==
  ASSUME NEW t, TablesOK(t), NEW name, NEW u \in ToFirstEligible(t, name)
  PROVE  TablesOK(u) /\ Keeps(t, u)
<1>1. u = t \/ \E face : u = SendInterest(t, name, face)
  BY DEF ToFirstEligible
<1>2. Keeps(t, t)
  BY DEF Keeps
<1> QED BY <1>1, <1>2, SendKeeps

LEMMA SetPropagateTimerKeeps ==
  ASSUME NEW t, TablesOK(t), NEW name
  PROVE  TablesOK(SetPropagateTimer(t, name)) /\ Keeps(t, SetPropagateTimer(t, name))
<1> DEFINE lost == IF PitInfo(t, "ncc", name).propagate THEN 1 ELSE 0
           timers == [t.pit[name].info["ncc"] EXCEPT !.propagate = TRUE]
           all == t.pit[name].lostTimers + lost
           u == SetPropagateTimer(t, name)
<1>1. DOMAIN t = Fields /\ \A p \in DOMAIN t.pit : EntryOK(t.choice, t.faces, p, t.pit[p])
  BY DEF TablesOK
<1>2. name \in DOMAIN t.pit => {"info", "lostTimers"} \subseteq DOMAIN t.pit[name]
  BY <1>1 DEF EntryOK
<1> HIDE DEF lost
<1>3. u = [t EXCEPT !.pit[name].info["ncc"].propagate = TRUE, !.pit[name].lostTimers = @ + lost]
  BY DEF SetPropagateTimer, lost
<1>4. u = [t EXCEPT !.pit[name].info["ncc"] = timers, !.pit[name].lostTimers = all]
  BY <1>1, <1>2, <1>3 DEF Fields
<1> HIDE DEF u, timers, all
<1> QED BY <1>4, NccTimersKeep DEF u

LEMMA ToBestFaceKeeps ==
  ASSUME NEW t, TablesOK(t), NEW name, NEW best
  PROVE  TablesOK(ToBestFace(t, name, best)) /\ Keeps(t, ToBestFace(t, name, best))
<1> DEFINE v == SendInterest(t, name, best)
           timers == [v.pit[name].info["ncc"] EXCEPT !.bestFace = TRUE]
           u == ToBestFace(t, name, best)
<1>1. TablesOK(v) /\ Keeps(t, v)
  BY SendKeeps
<1>2. u = [v EXCEPT !.pit[name].info["ncc"] = timers]
  BY DEF ToBestFace
<1> HIDE DEF u, v, timers
<1>3. TablesOK(u) /\ Keeps(v, u)
  BY <1>1, <1>2, NccTimersKeep
<1>4. Keeps(t, u)
  BY <1>1, <1>3, KeepsIsTransitive
<1> QED BY <1>3, <1>4 DEF u

LEMMA NccAfterInterestKeeps ==
  ASSUME NEW t, TablesOK(t), NEW name \in DOMAIN t.pit, NEW inFace,
         MayMeasure(t, "ncc", name), NEW u \in NccAfterInterest(t, name, inFace)
  PROVE  TablesOK(u) /\ Keeps(t, u)
<1> DEFINE noted == IF "ncc" \in DOMAIN t.pit[name].info THEN t
                    ELSE SetPitInfo(t, "ncc", name, NoTimers)
           measured == MeasuredFaces(noted, name)
           best == LivingBest(measured, measured.measured[name]["ncc"])
           known == [measured EXCEPT !.measured[name]["ncc"].best = best]
           sent == IF IsEligible(known, name, best) THEN {ToBestFace(known, name, best)}
                   ELSE ToFirstEligible(known, name)
<1>1. u = t \/ u = noted \/ \E v \in sent : u = SetPropagateTimer(v, name)
  BY DEF NccAfterInterest
<1>2. name \in Names /\ "ncc" = EffectiveBy(t.choice, name) /\ Keeps(t, t)
  BY DEF TablesOK, MayMeasure, EffectiveStrategy, EffectiveBy, Keeps
<1>3. TablesOK(noted) /\ Keeps(t, noted)
  BY <1>2, SetPitInfoKeeps
<1> HIDE DEF noted
<1>4. MayMeasure(noted, "ncc", name)
  BY <1>3 DEF MayMeasure, EffectiveStrategy, Keeps
<1>5. TablesOK(measured) /\ Keeps(noted, measured)
  BY <1>2, <1>3, <1>4, MeasuredFacesKeeps, KeepsPitKeeps
<1> HIDE DEF measured, best
<1>6. TablesOK(known) /\ Keeps(measured, known)
  <2> DEFINE info == [measured.measured[name]["ncc"] EXCEPT !.best = best]
  <2>1. known = [measured EXCEPT !.measured[name]["ncc"] = info]
    OBVIOUS
  <2> HIDE DEF known, info
  <2> QED BY <1>5, <2>1, NccItemKeeps, KeepsPitKeeps
<1> HIDE DEF known
<1>7. \A v \in sent : TablesOK(v) /\ Keeps(known, v)
  BY <1>6, ToBestFaceKeeps, ToFirstEligibleKeeps
<1> HIDE DEF sent
<1>8. ASSUME NEW v \in sent, u = SetPropagateTimer(v, name)
      PROVE  TablesOK(u) /\ Keeps(t, u)
  <2>1. TablesOK(u) /\ Keeps(v, u)
    BY <1>7, <1>8, SetPropagateTimerKeeps
  <2>2. Keeps(known, u)
    BY <1>7, <2>1, KeepsIsTransitive
  <2>3. Keeps(noted, u)
    BY <1>5, <1>6, <2>2, KeepsIsTransitive
  <2> QED BY <1>3, <2>1, <2>3, KeepsIsTransitive
<1> QED BY <1>1, <1>2, <1>3, <1>8

LEMMA PropagateFurtherKeeps ==
  ASSUME NEW t, TablesOK(t), NEW name \in Names, MayMeasure(t, "ncc", name),
         NEW u \in PropagateFurther(t, name)
  PROVE  TablesOK(u) /\ Keeps(t, u)
<1> DEFINE measured == MeasuredFaces(t, name)
           previous == measured.measured[name]["ncc"].previous
           first == IF IsEligible(measured, name, previous)
                    THEN SendInterest(measured, name, previous) ELSE measured
           second == ToFirstEligible(first, name)
<1>1. u \in second \/ \E v \in second : u = SetPropagateTimer(v, name)
  BY DEF PropagateFurther
<1>2. TablesOK(measured) /\ Keeps(t, measured)
  BY MeasuredFacesKeeps, KeepsPitKeeps
<1> HIDE DEF measured, previous
<1>3. TablesOK(first) /\ Keeps(t, first)
  BY <1>2, SendKeeps, KeepsIsTransitive
<1> HIDE DEF first
<1>4. \A v \in second : TablesOK(v) /\ Keeps(t, v)
  BY <1>3, ToFirstEligibleKeeps, KeepsIsTransitive
<1> HIDE DEF second
<1> QED BY <1>1, <1>4, SetPropagateTimerKeeps, KeepsIsTransitive

LEMMA DoPropagateKeeps ==
  ASSUME NEW t, TablesOK(t), NEW name \in Names, NEW u \in DoPropagate(t, name)
  PROVE  TablesOK(u) /\ Keeps(t, u)
<1> DEFINE v == MeasuredForPit(t, name)
<1>1. TablesOK(v) /\ KeepsPit(t, v)
  BY MeasuredForPitKeeps
<1>2. \/ u = Fault(t, "no item of ncc")
      \/ u = Fault(v, "not in ncc")
      \/ MayMeasure(t, "ncc", name) /\ u \in PropagateFurther(t, name)
  BY DEF DoPropagate
<1> HIDE DEF v
<1>3. TablesOK(Fault(v, "not in ncc")) /\ KeepsPit(v, Fault(v, "not in ncc"))
  BY <1>1, FaultKeepsPit
<1>4. Keeps(t, Fault(v, "not in ncc"))
  BY <1>1, <1>3, KeepsPitIsTransitive, KeepsPitKeeps
<1> QED BY <1>2, <1>3, <1>4, FaultKeeps, PropagateFurtherKeeps

LEMMA PropagateTimerExpiresKeeps ==
  ASSUME NEW t, TablesOK(t), NEW name \in Names, NEW u \in PropagateTimerExpires(t, name)
  PROVE  TablesOK(u) /\ Keeps(t, u)
<1> DEFINE timers == [t.pit[name].info["ncc"] EXCEPT !.propagate = FALSE]
           v == [t EXCEPT !.pit[name].info["ncc"].propagate = FALSE]
<1>1. v = [t EXCEPT !.pit[name].info["ncc"] = timers]
  OBVIOUS
<1>2. u \in DoPropagate(v, name)
  BY DEF PropagateTimerExpires
<1> HIDE DEF v, timers
<1>3. TablesOK(v) /\ Keeps(t, v)
  BY <1>1, NccTimersKeep
<1> QED BY <1>2, <1>3, DoPropagateKeeps, KeepsIsTransitive

LEMMA LostTimerExpiresKeeps ==
  ASSUME NEW t, TablesOK(t), NEW name \in Names, NEW u \in LostTimerExpires(t, name)
  PROVE  TablesOK(u) /\ Keeps(t, u)
<1> DEFINE left == t.pit[name].lostTimers - 1
           v == [t EXCEPT !.pit[name].lostTimers = @ - 1]
<1>1. v = [t EXCEPT !.pit[name].lostTimers = left]
  OBVIOUS
<1>2. u \in DoPropagate(v, name)
  BY DEF LostTimerExpires
<1> HIDE DEF v, left
<1>3. TablesOK(v) /\ Keeps(t, v)
  BY <1>1, NccTimersKeep
<1> QED BY <1>2, <1>3, DoPropagateKeeps, KeepsIsTransitive

LEMMA VisitLevelKeeps ==
  ASSUME NEW t, TablesOK(t), NEW name \in Names, NEW face
  PROVE  LET u == VisitLevel(t, name, face) IN TablesOK(u) /\ KeepsPit(t, u)
<1> DEFINE known == WithFaces(t, name)
           info == UpdateBestFace(t, known.measured[name]["ncc"], face)
           updated == [known EXCEPT !.measured[name]["ncc"] = UpdateBestFace(t, @, face)]
           u == VisitLevel(t, name, face)
<1>1. CASE ~MayMeasure(t, "ncc", name)
  BY <1>1 DEF VisitLevel, KeepsPit
<1>2. CASE MayMeasure(t, "ncc", name)
  <2>1. u = MeasuredParent(updated, name)
    BY <1>2 DEF VisitLevel
  <2>2. TablesOK(known) /\ KeepsPit(t, known)
    BY <1>2, WithFacesKeeps
  <2> HIDE DEF known
  <2>3. updated = [known EXCEPT !.measured[name]["ncc"] = info]
    OBVIOUS
  <2> HIDE DEF updated, info
  <2>4. TablesOK(updated) /\ KeepsPit(known, updated)
    BY <2>2, <2>3, NccItemKeeps
  <2>5. TablesOK(u) /\ KeepsPit(updated, u)
    BY <2>1, <2>4, MeasuredParentKeeps
  <2> HIDE DEF u
  <2>6. KeepsPit(t, u)
    BY <2>2, <2>4, <2>5, KeepsPitIsTransitive
  <2> QED BY <2>5, <2>6 DEF u
<1> QED BY <1>1, <1>2

LEMMA VisitLevelsKeeps ==
  ASSUME NEW t, TablesOK(t), NEW name \in Names, NEW face
  PROVE  LET u == VisitLevels(t, name, face) IN TablesOK(u) /\ KeepsPit(t, u)
<1> DEFINE v == VisitLevel(t, name, face)
           w == VisitLevel(v, Parent(name), face)
           u == VisitLevels(t, name, face)
<1>1. TablesOK(v) /\ KeepsPit(t, v)
  BY VisitLevelKeeps
<1>2. u = v \/ (name # <<>> /\ u = w)
  BY DEF VisitLevels
<1> HIDE DEF u, v
<1>3. name # <<>> => TablesOK(w) /\ KeepsPit(v, w)
  BY <1>1, VisitLevelKeeps, ParentFacts
<1> HIDE DEF w
<1>4. TablesOK(u) /\ KeepsPit(t, u)
  BY <1>1, <1>2, <1>3, KeepsPitIsTransitive
<1> QED BY <1>4 DEF u

LEMMA TimeoutOnBestFaceKeeps ==
  ASSUME NEW t, TablesOK(t), NEW name \in Names
  PROVE  LET u == TimeoutOnBestFace(t, name) IN TablesOK(u) /\ Keeps(t, u)
<1> DEFINE timers == [t.pit[name].info["ncc"] EXCEPT !.bestFace = FALSE]
           v == [t EXCEPT !.pit[name].info["ncc"].bestFace = FALSE]
           w == MeasuredForPit(v, name)
           u == VisitLevels(w, name, NoFace)
<1>1. v = [t EXCEPT !.pit[name].info["ncc"] = timers]
  OBVIOUS
<1>2. TimeoutOnBestFace(t, name) = u
  BY DEF TimeoutOnBestFace
<1> HIDE DEF v, timers
<1>3. TablesOK(v) /\ Keeps(t, v)
  BY <1>1, NccTimersKeep
<1>4. TablesOK(w) /\ KeepsPit(v, w)
  BY <1>3, MeasuredForPitKeeps
<1> HIDE DEF w
<1>5. TablesOK(u) /\ KeepsPit(w, u)
  BY <1>4, VisitLevelsKeeps
<1> HIDE DEF u
<1>6. Keeps(t, u)
  BY <1>3, <1>4, <1>5, KeepsPitKeeps, KeepsIsTransitive
<1> QED BY <1>2, <1>5, <1>6

LEMMA CancelTimersKeeps ==
  ASSUME NEW t, TablesOK(t), NEW name, NEW face
  PROVE  LET u == CancelTimers(t, name, face) IN TablesOK(u) /\ Keeps(t, u)
<1> DEFINE u == CancelTimers(t, name, face)
           isBest == t.measured[name]["ncc"].best = face
           timers == [propagate |-> FALSE, bestFace |-> t.pit[name].info["ncc"].bestFace /\ ~isBest]
           v == [t EXCEPT !.pit[name].info["ncc"] = timers]
<1>1. u = t \/ u = v
  BY DEF CancelTimers
<1>4. v = [t EXCEPT !.pit[name].info["ncc"] = timers]
  OBVIOUS
<1> HIDE DEF v, timers, u
<1>5. TablesOK(v) /\ Keeps(t, v)
  BY <1>4, NccTimersKeep
<1>6. Keeps(t, t)
  BY DEF Keeps
<1> QED BY <1>1, <1>5, <1>6 DEF u

LEMMA NccBeforeSatisfyKeeps ==
  ASSUME NEW t, TablesOK(t), NEW name \in Names, NEW face
  PROVE  LET u == NccBeforeSatisfy(t, name, face) IN TablesOK(u) /\ Keeps(t, u)
<1> DEFINE v == MeasuredForPit(t, name)
           updated == VisitLevels(v, name, face)
           u == NccBeforeSatisfy(t, name, face)
<1>1. u \in {t, updated, CancelTimers(updated, name, face)}
  BY DEF NccBeforeSatisfy
<1>2. TablesOK(v) /\ KeepsPit(t, v)
  BY MeasuredForPitKeeps
<1> HIDE DEF v
<1>3. TablesOK(updated) /\ KeepsPit(v, updated)
  BY <1>2, VisitLevelsKeeps
<1> HIDE DEF updated
<1>4. Keeps(t, updated) /\ Keeps(t, t)
  BY <1>2, <1>3, KeepsPitIsTransitive, KeepsPitKeeps DEF Keeps
<1>5. TablesOK(CancelTimers(updated, name, face)) /\ Keeps(updated, CancelTimers(updated, name, face))
  BY <1>3, CancelTimersKeeps
<1> HIDE DEF u
<1>6. TablesOK(u) /\ Keeps(t, u)
  BY <1>1, <1>3, <1>4, <1>5, KeepsIsTransitive
<1> QED BY <1>6 DEF u

-----------------------------------------------------------------------------
(* ASF.                                                                     *)

\* Its item of a Measurements entry is changed.
LEMMA NamespaceChanges ==
  ASSUME NEW t, TablesOK(t), NEW at, NEW namespace, NEW u,
         DOMAIN u = Fields, u.ht = t.ht, u.choice = t.choice, u.fib = t.fib,
         u.pit = t.pit, u.faces = t.faces,
         u.measured = [t.measured EXCEPT ![at]["asf"] = namespace],
         at \in DOMAIN t.measured /\ "asf" \in DOMAIN t.measured[at] => NamespaceOK(namespace)
  PROVE  TablesOK(u) /\ KeepsPit(t, u)
<1>1. at \in DOMAIN t.measured => ItemsOK(t.choice, at, t.measured[at])
  BY DEF TablesOK
<1>2. /\ DOMAIN u.measured = DOMAIN t.measured
      /\ \A n \in DOMAIN t.measured : n # at => u.measured[n] = t.measured[n]
      /\ at \in DOMAIN t.measured =>
           u.measured[at] = [t.measured[at] EXCEPT !["asf"] = namespace]
  OBVIOUS
<1>3. at \in DOMAIN t.measured =>
        /\ DOMAIN u.measured[at] = DOMAIN t.measured[at]
        /\ "asf" \in DOMAIN t.measured[at] => u.measured[at]["asf"] = namespace
  BY <1>2
<1>4. at \in DOMAIN t.measured => ItemsOK(t.choice, at, u.measured[at])
  BY <1>1, <1>3 DEF ItemsOK
<1>5. TablesOK(u)
  BY <1>2, <1>4, MeasuredChanges
<1> QED BY <1>5 DEF KeepsPit

\* The items of ASF that are there are sound.
LEMMA NamespacesAre ==
  ASSUME NEW t, TablesOK(t), NEW at \in DOMAIN t.measured, "asf" \in DOMAIN t.measured[at]
  PROVE  NamespaceOK(t.measured[at]["asf"]) /\ EffectiveBy(t.choice, at) = "asf"
<1>1. ItemsOK(t.choice, at, t.measured[at])
  BY DEF TablesOK
<1> QED BY <1>1 DEF ItemsOK

\* What is known of a face, and no other part of the item, is changed.
LEMMA SetFaceInfoKeeps ==
  ASSUME NEW t, TablesOK(t), NEW at, NEW face, NEW info,
         at \in DOMAIN t.measured /\ "asf" \in DOMAIN t.measured[at] => FaceInfoOK(info)
  PROVE  LET u == SetFaceInfo(t, at, face, info) IN TablesOK(u) /\ KeepsPit(t, u)
<1> DEFINE u == SetFaceInfo(t, at, face, info)
           old == t.measured[at]["asf"]
           faces == Put(old.faces, face, info)
           namespace == [old EXCEPT !.faces = faces]
<1>1. DOMAIN t = Fields
  BY DEF TablesOK
<1>2. u = [t EXCEPT !.measured[at]["asf"].faces = faces]
  BY DEF SetFaceInfo
<1> HIDE DEF faces
<1>3. /\ DOMAIN u = Fields /\ u.ht = t.ht /\ u.choice = t.choice /\ u.fib = t.fib
      /\ u.pit = t.pit /\ u.faces = t.faces
      /\ u.measured = [t.measured EXCEPT ![at]["asf"] = namespace]
  BY <1>1, <1>2 DEF Fields
<1> HIDE DEF u
<1>4. ASSUME at \in DOMAIN t.measured, "asf" \in DOMAIN t.measured[at]
      PROVE  NamespaceOK(namespace)
  <2>1. NamespaceOK(old)
    BY <1>4, NamespacesAre
  <2>2. DOMAIN namespace = DOMAIN old /\ namespace.faces = faces
    BY <2>1 DEF NamespaceOK
  <2>3. \A f \in DOMAIN faces : FaceInfoOK(faces[f])
    <3> SUFFICES ASSUME NEW f \in DOMAIN faces PROVE FaceInfoOK(faces[f])
      OBVIOUS
    <3>1. DOMAIN faces = DOMAIN old.faces \cup {face}
      BY PutDomain DEF faces
    <3>2. faces[face] = info
      BY PutAt DEF faces
    <3>3. f # face => f \in DOMAIN old.faces
      BY <3>1
    <3>4. f # face => faces[f] = old.faces[f]
      BY <3>3, PutElsewhere DEF faces
    <3> HIDE DEF old
    <3> QED BY <1>4, <2>1, <3>2, <3>3, <3>4 DEF NamespaceOK
  <2> QED BY <2>1, <2>2, <2>3 DEF NamespaceOK
<1> HIDE DEF namespace
<1> QED BY <1>3, <1>4, NamespaceChanges DEF u

\* The item is made where it is missing, if ASF is in effect there.
LEMMA WithNamespaceKeeps ==
  ASSUME NEW t, TablesOK(t), NEW name, MayMeasure(t, "asf", name)
  PROVE  LET u == WithNamespace(t, name) IN TablesOK(u) /\ KeepsPit(t, u)
<1>1. "asf" = EffectiveBy(t.choice, name)
  BY DEF MayMeasure, EffectiveStrategy, EffectiveBy
<1>2. NamespaceOK(NewNamespace)
  BY DEF NamespaceOK, NewNamespace, NoInfo
<1>3. TablesOK(SetInfo(t, "asf", name, NewNamespace)) /\ KeepsPit(t, SetInfo(t, "asf", name, NewNamespace))
  BY <1>1, <1>2, SetInfoKeeps
<1> QED BY <1>3 DEF WithNamespace, KeepsPit

\* getNamespaceInfo
LEMMA NamespaceKeeps ==
  ASSUME NEW t, TablesOK(t), NEW name
  PROVE  LET u == Namespace(t, name) IN TablesOK(u) /\ KeepsPit(t, u)
<1>1. CASE FindsMeasured(t, "asf", name)
  <2>1. MayMeasure(t, "asf", LongestMatch(DOMAIN t.measured, name))
    BY <1>1 DEF FindsMeasured
  <2> QED BY <1>1, <2>1, WithNamespaceKeeps DEF Namespace
<1>2. CASE ~FindsMeasured(t, "asf", name)
  BY <1>2 DEF Namespace, KeepsPit
<1> QED BY <1>1, <1>2

\* The mark and the scheduled event of a face are set and taken away together.
LEMMA FaceInfos ==
  ASSUME NEW info, FaceInfoOK(info), NEW name
  PROVE  /\ FaceInfoOK(CancelTimeout(info, name))
         /\ FaceInfoOK(RecordRtt(info))
         /\ FaceInfoOK([info EXCEPT !.expires = TRUE])
         /\ FaceInfoOK([info EXCEPT !.rtt = "timeout"])
         /\ FaceInfoOK([info EXCEPT !.timer = None])
         /\ FaceInfoOK([info EXCEPT !.last = name, !.timer = name])
<1>1. FaceInfoOK(CancelTimeout(info, name))
  BY DEF FaceInfoOK, CancelTimeout
<1>2. FaceInfoOK(RecordRtt(info))
  BY DEF FaceInfoOK, RecordRtt
<1>3. FaceInfoOK([info EXCEPT !.expires = TRUE]) /\ FaceInfoOK([info EXCEPT !.rtt = "timeout"])
  BY DEF FaceInfoOK
<1>4. FaceInfoOK([info EXCEPT !.timer = None]) /\ FaceInfoOK([info EXCEPT !.last = name, !.timer = name])
  BY DEF FaceInfoOK
<1> QED BY <1>1, <1>2, <1>3, <1>4

LEMMA NewFaceInfoIsOK == FaceInfoOK(NewFaceInfo) /\ FaceInfoOK([NewFaceInfo EXCEPT !.expires = TRUE])
BY DEF FaceInfoOK, NewFaceInfo

LEMMA KnownFaces ==
  ASSUME NEW t, TablesOK(t), NEW at \in DOMAIN t.measured, "asf" \in DOMAIN t.measured[at],
         NEW face \in DOMAIN Faces(t, at)
  PROVE  FaceInfoOK(Faces(t, at)[face])
<1>1. NamespaceOK(t.measured[at]["asf"])
  BY NamespacesAre
<1> QED BY <1>1 DEF NamespaceOK, Faces

LEMMA ForwardInterestKeeps ==
  ASSUME NEW t, TablesOK(t), NEW name, NEW face
  PROVE  LET u == ForwardInterest(t, name, face) IN TablesOK(u) /\ Keeps(t, u)
<1> DEFINE at == NamespaceAt(t, name)
           sent == SendInterest(t, name, face)
           info == [FaceInfo(t, at, face) EXCEPT !.expires = TRUE]
           new == IF info.last # None THEN info ELSE [info EXCEPT !.last = name, !.timer = name]
           u == SetFaceInfo(sent, at, face, new)
<1>1. ForwardInterest(t, name, face) = u
  BY DEF ForwardInterest
<1>2. TablesOK(sent) /\ Keeps(t, sent) /\ sent.measured = t.measured
  BY SendKeeps
<1> HIDE DEF sent, at
<1>3. ASSUME at \in DOMAIN t.measured, "asf" \in DOMAIN t.measured[at]
      PROVE  FaceInfoOK(new)
  <2>1. FaceInfoOK(FaceInfo(t, at, face))
    BY <1>3, KnownFaces, NewFaceInfoIsOK DEF FaceInfo
  <2>2. FaceInfoOK(info)
    BY <2>1, FaceInfos
  <2> HIDE DEF info
  <2> QED BY <2>2, FaceInfos
<1> HIDE DEF new
<1>4. TablesOK(u) /\ KeepsPit(sent, u)
  BY <1>2, <1>3, SetFaceInfoKeeps
<1> HIDE DEF u
<1> QED BY <1>1, <1>2, <1>4, KeepsPitKeeps, KeepsIsTransitive


TriesNamespaces(f, t, name) ==
  LET at == NamespaceAt(t, name)
      shortest == Len(FibPrefix(t, name))
  IN  /\ WithNamespaceFor(t, name) = WithNamespace(f[Len(at) - shortest], at)
      /\ \A n \in 0..(Len(at) - shortest) :
           f[n] = Measured(IF n = 0 THEN t ELSE f[n - 1], Prefix(name, shortest + n))

LEMMA NamespaceRecursion ==
  ASSUME NEW t, NEW name, Len(NamespaceAt(t, name)) - Len(FibPrefix(t, name)) \in Nat
  PROVE  \E f : TriesNamespaces(f, t, name)
<1> DEFINE at == NamespaceAt(t, name)
           shortest == Len(FibPrefix(t, name))
           N == Len(at) - shortest
           Good(f) == f = [n \in 0..(Len(at) - shortest) |->
                            Measured(IF n = 0 THEN t ELSE f[n - 1], Prefix(name, shortest + n))]
           f == CHOOSE f : Good(f)
           k == <<"namespace", name, shortest>>
<1>1. WithNamespaceFor(t, name) = WithNamespace(f[Len(at) - shortest], at)
  BY DEF WithNamespaceFor
<1>2. PICK g : RecursOnNumbers(g, k, t, N)
  BY NumberRecursion
<1>3. \A n, v : NumberStep(k, n, v) = Measured(v, Prefix(name, shortest + n))
  BY DEF NumberStep
<1> HIDE DEF at, shortest
<1>4. Good(g)
  BY <1>2, <1>3 DEF RecursOnNumbers
<1>5. Good(f)
  BY <1>4
<1>6. \A n \in 0..(Len(at) - shortest) :
        f[n] = Measured(IF n = 0 THEN t ELSE f[n - 1], Prefix(name, shortest + n))
  BY <1>5
<1> HIDE DEF f
<1> QED BY <1>1, <1>6 DEF TriesNamespaces, at, shortest

\* The node of a PIT entry's name, or that of the name without its digest
LEMMA PitNodeFacts ==
  ASSUME NEW t, NEW name \in Names
  PROVE  /\ PitNode(t, name) \in Names /\ IsPrefix(PitNode(t, name), name)
         /\ AttachedTo(name) \in Names
         /\ PitNode(t, name) # name => /\ name \notin Nodes(t.ht) /\ name # <<>>
                                       /\ PitNode(t, name) = Parent(name)
         /\ AttachedTo(name) = name => PitNode(t, name) = name
<1>1. name # <<>> => Parent(name) \in Names /\ IsPrefix(Parent(name), name)
  BY ParentFacts
<1>2. IsPrefix(name, name)
  BY PrefixIsReflexive
<1>3. \/ AttachedTo(name) = name
      \/ name # <<>> /\ AttachedTo(name) = Parent(name)
  BY DEF AttachedTo
<1>4. \/ PitNode(t, name) = name
      \/ name \notin Nodes(t.ht) /\ PitNode(t, name) = AttachedTo(name)
  BY DEF PitNode
<1> QED BY <1>1, <1>2, <1>3, <1>4

\* Some prefix of the Interest's name, not shorter than that of the route, is in ASF's namespace:
\* the name of the node that told that ASF is in effect is one.
LEMMA NamespaceExists ==
  ASSUME NEW t, TablesOK(t), NEW name \in Names, HasFibEntry(t, name),
         EffectiveForPit(t, name) = "asf"
  PROVE  /\ Len(FibPrefix(t, name)) \in Nat
         /\ NamespaceAt(t, name) \in Names /\ MayMeasure(t, "asf", NamespaceAt(t, name))
         /\ Len(NamespaceAt(t, name)) \in Len(FibPrefix(t, name))..Len(name)
<1> DEFINE node == PitNode(t, name)
           prefix == FibPrefix(t, name)
           own == {len \in Len(prefix)..Len(name) : MayMeasure(t, "asf", Prefix(name, len))}
           at == Min(own)
<1>1. node \in Names /\ IsPrefix(node, name)
  BY PitNodeFacts
<1>2. DOMAIN t.fib \subseteq Names /\ \E e \in DOMAIN t.fib : IsPrefix(e, node)
  BY DEF TablesOK, HasFibEntry, Matches
<1>3. prefix \in DOMAIN t.fib /\ IsPrefix(prefix, node)
  BY <1>1, <1>2, LongestMatchFacts DEF FibPrefix
<1>4. MayMeasure(t, "asf", node)
  BY DEF MayMeasure, EffectiveForPit
<1> HIDE DEF node, prefix
<1>5. prefix \in Names /\ Len(prefix) \in Nat /\ Len(node) \in Nat /\ Len(name) \in Nat
  BY <1>1, <1>2, <1>3, NameFacts
<1>6. Len(prefix) <= Len(node) /\ Len(node) <= Len(name) /\ Prefix(name, Len(node)) = node
  BY <1>1, <1>3, <1>5, PrefixIs
<1>7. Len(node) \in own
  BY <1>4, <1>5, <1>6
<1>8. \A len \in own : len \in Len(prefix)..Len(name) /\ MayMeasure(t, "asf", Prefix(name, len))
  OBVIOUS
<1> HIDE DEF own
<1>9. at \in own
  <2>1. own \subseteq Nat /\ own # {}
    BY <1>5, <1>7, <1>8
  <2>2. \E n \in own : \A m \in own : n <= m
    BY <2>1, Least
  <2> QED BY <2>2 DEF Min
<1> HIDE DEF at
<1>10. at \in 0..Len(name) /\ at \in Len(prefix)..Len(name) /\ MayMeasure(t, "asf", Prefix(name, at))
  BY <1>5, <1>8, <1>9
<1>11. Prefix(name, at) \in Names /\ Len(Prefix(name, at)) = at
  BY <1>10, NameFacts
<1>12. NamespaceAt(t, name) = Prefix(name, at)
  BY DEF NamespaceAt, at, own, prefix
<1> QED BY <1>5, <1>10, <1>11, <1>12 DEF prefix

\* An entry is made at each prefix that is tried, the item at the last of them.
LEMMA WithNamespaceForKeeps ==
  ASSUME NEW t, TablesOK(t), NEW name \in Names, HasFibEntry(t, name),
         EffectiveForPit(t, name) = "asf"
  PROVE  LET u == WithNamespaceFor(t, name) IN TablesOK(u) /\ KeepsPit(t, u)
<1> DEFINE at == NamespaceAt(t, name)
           shortest == Len(FibPrefix(t, name))
           N == Len(at) - shortest
<1>1. /\ shortest \in Nat /\ Len(name) \in Nat /\ MayMeasure(t, "asf", at)
      /\ Len(at) \in shortest..Len(name)
  BY NamespaceExists, NameFacts
<1>2. N \in Nat
  BY <1>1
<1>3. PICK f : TriesNamespaces(f, t, name)
  BY <1>2, NamespaceRecursion
<1>4. /\ WithNamespaceFor(t, name) = WithNamespace(f[N], at)
      /\ \A n \in 0..N : f[n] = Measured(IF n = 0 THEN t ELSE f[n - 1], Prefix(name, shortest + n))
  BY <1>3 DEF TriesNamespaces
<1>5. \A n \in 0..N : shortest + n \in 0..Len(name)
  BY <1>1
<1>6. \A n \in 0..N : Prefix(name, shortest + n) \in Names
  BY <1>5, NameFacts
<1> HIDE DEF at, shortest, N
<1> DEFINE Done == {n \in 0..N : TablesOK(f[n]) /\ KeepsPit(t, f[n])}
<1>7. 0 \in Done
  <2>1. 0 \in 0..N /\ f[0] = Measured(t, Prefix(name, shortest + 0))
    BY <1>2, <1>4
  <2> QED BY <1>6, <2>1, MeasuredKeeps
<1>8. ASSUME NEW n \in 0..N, n < N, n \in Done
      PROVE  n + 1 \in Done
  <2>1. n + 1 \in 0..N /\ n + 1 # 0 /\ (n + 1) - 1 = n
    BY <1>2, <1>8
  <2>2. f[n + 1] = Measured(f[n], Prefix(name, shortest + (n + 1))) /\ TablesOK(f[n]) /\ KeepsPit(t, f[n])
    BY <1>4, <1>8, <2>1
  <2>3. TablesOK(f[n + 1]) /\ KeepsPit(f[n], f[n + 1])
    BY <1>6, <2>1, <2>2, MeasuredKeeps
  <2> QED BY <2>1, <2>2, <2>3, KeepsPitIsTransitive
<1> HIDE DEF Done
<1>9. \A n \in 0..N : n \in Done
  BY <1>2, <1>7, <1>8, UpTo
<1>10. N \in Done
  BY <1>2, <1>9
<1>11. TablesOK(f[N]) /\ KeepsPit(t, f[N])
  BY <1>10 DEF Done
<1>12. MayMeasure(f[N], "asf", at)
  BY <1>1, <1>11 DEF MayMeasure, EffectiveStrategy, KeepsPit
<1> DEFINE u == WithNamespace(f[N], at)
<1>13. TablesOK(u) /\ KeepsPit(f[N], u)
  BY <1>11, <1>12, WithNamespaceKeeps
<1> HIDE DEF u
<1>14. KeepsPit(t, u)
  BY <1>11, <1>13, KeepsPitIsTransitive
<1> QED BY <1>4, <1>13, <1>14 DEF u


\* The item's marks of a due and of a first probe are changed.
LEMMA MarksKeepNamespace ==
  ASSUME NEW namespace, NamespaceOK(namespace), NEW mark
  PROVE  /\ NamespaceOK([namespace EXCEPT !.first = mark])
         /\ NamespaceOK([namespace EXCEPT !.due = mark])
BY DEF NamespaceOK

LEMMA ScheduleFirstProbeKeeps ==
  ASSUME NEW t, TablesOK(t), NEW name
  PROVE  LET u == ScheduleFirstProbe(t, name) IN TablesOK(u) /\ KeepsPit(t, u)
<1> DEFINE at == NamespaceAt(t, name)
           probes == t.probes \cup {FibPrefix(t, name)}
           old == t.measured[at]["asf"]
           namespace == [old EXCEPT !.first = TRUE]
           v == [t EXCEPT !.measured[at]["asf"].first = TRUE,
                          !.probes = @ \cup {FibPrefix(t, name)}]
<1>1. DOMAIN t = Fields
  BY DEF TablesOK
<1>2. ScheduleFirstProbe(t, name) = t \/ ScheduleFirstProbe(t, name) = v
  BY DEF ScheduleFirstProbe
<1> HIDE DEF at
<1>3. /\ DOMAIN v = Fields /\ v.ht = t.ht /\ v.choice = t.choice /\ v.fib = t.fib
      /\ v.pit = t.pit /\ v.faces = t.faces
      /\ v.measured = [t.measured EXCEPT ![at]["asf"] = namespace]
  BY <1>1 DEF Fields
<1>4. at \in DOMAIN t.measured /\ "asf" \in DOMAIN t.measured[at] => NamespaceOK(namespace)
  BY NamespacesAre, MarksKeepNamespace
<1> HIDE DEF v, namespace
<1>5. TablesOK(v) /\ KeepsPit(t, v)
  BY <1>3, <1>4, NamespaceChanges
<1>6. KeepsPit(t, t)
  BY DEF KeepsPit
<1> QED BY <1>2, <1>5, <1>6

LEMMA ProbeKeeps ==
  ASSUME NEW t, TablesOK(t), NEW name, NEW face
  PROVE  LET u == Probe(t, name, face) IN TablesOK(u) /\ Keeps(t, u)
<1> DEFINE at == NamespaceAt(t, name)
           w == ForwardInterest(t, name, face)
           old == w.measured[at]["asf"]
           namespace == [old EXCEPT !.due = FALSE]
           v == [w EXCEPT !.measured[at]["asf"].due = FALSE,
                          !.probes = @ \cup {FibPrefix(t, name)}]
<1>1. Probe(t, name, face) = v
  BY DEF Probe
<1>2. TablesOK(w) /\ Keeps(t, w)
  BY ForwardInterestKeeps
<1> HIDE DEF at, w
<1>3. DOMAIN w = Fields
  BY <1>2 DEF TablesOK
<1>4. /\ DOMAIN v = Fields /\ v.ht = w.ht /\ v.choice = w.choice /\ v.fib = w.fib
      /\ v.pit = w.pit /\ v.faces = w.faces
      /\ v.measured = [w.measured EXCEPT ![at]["asf"] = namespace]
  BY <1>3 DEF Fields
<1>5. at \in DOMAIN w.measured /\ "asf" \in DOMAIN w.measured[at] => NamespaceOK(namespace)
  BY <1>2, NamespacesAre, MarksKeepNamespace
<1> HIDE DEF v, namespace
<1>6. TablesOK(v) /\ KeepsPit(w, v)
  BY <1>2, <1>4, <1>5, NamespaceChanges
<1>7. Keeps(t, v)
  BY <1>2, <1>6, KeepsPitKeeps, KeepsIsTransitive
<1> QED BY <1>1, <1>6, <1>7

LEMMA ProbeIfNeededKeeps ==
  ASSUME NEW t, TablesOK(t), NEW name, NEW inFace, NEW used, NEW u \in ProbeIfNeeded(t, name, inFace, used)
  PROVE  TablesOK(u) /\ Keeps(t, u)
<1> DEFINE first == ScheduleFirstProbe(t, name)
<1>1. u = first \/ \E face : u = Probe(first, name, face)
  BY DEF ProbeIfNeeded
<1>2. TablesOK(first) /\ Keeps(t, first)
  BY ScheduleFirstProbeKeeps, KeepsPitKeeps
<1> HIDE DEF first
<1> QED BY <1>1, <1>2, ProbeKeeps, KeepsIsTransitive

\* The in-record of an Interest that has no route goes; no timer of another strategy waits here.
LEMMA NoRouteKeeps ==
  ASSUME NEW t, TablesOK(t), NEW name \in DOMAIN t.pit, NEW inFace,
         AttachedTo(name) = name => EffectiveBy(t.choice, name) = "asf"
  PROVE  TablesOK(NoRoute(t, name, inFace))
<1> DEFINE u == NoRoute(t, name, inFace)
<1>1. DOMAIN t = Fields /\ EntryOK(t.choice, t.faces, name, t.pit[name])
  BY DEF TablesOK
<1>2. /\ DOMAIN u = Fields /\ u.ht = t.ht /\ u.choice = t.choice /\ u.fib = t.fib
      /\ u.measured = t.measured /\ u.faces = t.faces /\ DOMAIN u.pit = DOMAIN t.pit
      /\ \A p \in DOMAIN t.pit : p # name => u.pit[p] = t.pit[p]
  BY <1>1 DEF Fields, NoRoute
<1>3. DOMAIN u.pit[name] = DOMAIN t.pit[name] /\ u.pit[name].info = t.pit[name].info
  BY <1>1 DEF Fields, EntryOK, NoRoute
<1> HIDE DEF u
<1>4. AttachedTo(name) = name => ~TimerPending(t.pit[name].info)
  BY <1>1 DEF EntryOK, TimerPending
<1>5. EntryOK(t.choice, t.faces, name, u.pit[name])
  BY <1>1, <1>3, <1>4 DEF EntryOK
<1>6. TablesOK(u)
  BY <1>2, <1>5, EntryChanges
<1> QED BY <1>6 DEF u

\* The strategy in effect at the node of an entry is the one at its name.
LEMMA EffectiveForPitIs ==
  ASSUME NEW t, TablesOK(t), NEW name \in Names
  PROVE  /\ EffectiveForPit(t, name) = EffectiveBy(t.choice, name)
         /\ EffectiveForPit(t, name) \in Strategies
<1>1. ChoiceOK(t.choice) /\ TreeOK(t.ht, Used(t))
  BY DEF TablesOK
<1>2. DOMAIN t.choice \subseteq Nodes(t.ht)
  BY <1>1 DEF TreeOK, IsSound, Used
<1>3. EffectiveForPit(t, name) = EffectiveBy(t.choice, PitNode(t, name))
  BY DEF EffectiveForPit, EffectiveStrategy, EffectiveBy
<1>4. CASE PitNode(t, name) = name
  BY <1>1, <1>3, <1>4, ChosenExists
<1>5. CASE PitNode(t, name) # name
  <2>1. name \notin Nodes(t.ht) /\ PitNode(t, name) = Parent(name)
    BY <1>5, PitNodeFacts
  <2>2. EffectiveBy(t.choice, name) = EffectiveBy(t.choice, Parent(name))
    BY <1>1, <1>2, <2>1, InheritsChoice
  <2> QED BY <1>1, <1>3, <2>1, <2>2, ChosenExists
<1> QED BY <1>4, <1>5

LEMMA AsfAfterInterestKeeps ==
  ASSUME NEW t, TablesOK(t), NEW name \in DOMAIN t.pit, NEW inFace,
         EffectiveForPit(t, name) = "asf", NEW u \in AsfAfterInterest(t, name, inFace)
  PROVE  TablesOK(u)
<1> DEFINE known == WithNamespaceFor(t, name)
<1>1. name \in Names /\ EffectiveBy(t.choice, name) = "asf"
  BY EffectiveForPitIs DEF TablesOK
<1>2. \/ u = t
      \/ u = NoRoute(t, name, inFace)
      \/ /\ NextHops(t, name) # {}
         /\ \E face : u \in ProbeIfNeeded(ForwardInterest(known, name, face), name, inFace, face)
  BY DEF AsfAfterInterest
<1>3. TablesOK(NoRoute(t, name, inFace))
  BY <1>1, NoRouteKeeps
<1>4. ASSUME NextHops(t, name) # {}, NEW face,
             u \in ProbeIfNeeded(ForwardInterest(known, name, face), name, inFace, face)
      PROVE  TablesOK(u)
  <2>1. HasFibEntry(t, name)
    BY <1>4 DEF NextHops
  <2>2. TablesOK(known)
    BY <1>1, <2>1, WithNamespaceForKeeps
  <2> HIDE DEF known
  <2>3. TablesOK(ForwardInterest(known, name, face))
    BY <2>2, ForwardInterestKeeps
  <2> QED BY <1>4, <2>3, ProbeIfNeededKeeps
<1> QED BY <1>2, <1>3, <1>4

LEMMA AsfBeforeSatisfyKeeps ==
  ASSUME NEW t, TablesOK(t), NEW name, NEW face, NEW data
  PROVE  LET u == AsfBeforeSatisfy(t, name, face, data) IN TablesOK(u) /\ KeepsPit(t, u)
<1> DEFINE at == LongestMatch(DOMAIN t.measured, name)
           found == Namespace(t, name)
           measured == [RecordRtt(Faces(found, at)[face]) EXCEPT !.expires = TRUE]
           v == SetFaceInfo(found, at, face, CancelTimeout(measured, data))
           u == AsfBeforeSatisfy(t, name, face, data)
<1>1. \/ u = t \/ \E what : u = Fault(found, what)
      \/ u = v /\ face \in DOMAIN Faces(found, at)
  BY DEF AsfBeforeSatisfy
<1>2. TablesOK(found) /\ KeepsPit(t, found)
  BY NamespaceKeeps
<1> HIDE DEF found, at, u
<1>3. CASE u = t
  BY <1>3 DEF KeepsPit, u
<1>4. ASSUME NEW what, u = Fault(found, what)
      PROVE  TablesOK(u) /\ KeepsPit(t, u)
  BY <1>2, <1>4, FaultKeepsPit, KeepsPitIsTransitive
<1>5. CASE u = v /\ face \in DOMAIN Faces(found, at)
  <2>1. ASSUME at \in DOMAIN found.measured, "asf" \in DOMAIN found.measured[at]
        PROVE  FaceInfoOK(CancelTimeout(measured, data))
    <3>1. FaceInfoOK(Faces(found, at)[face])
      BY <1>2, <1>5, <2>1, KnownFaces
    <3> QED BY <3>1, FaceInfos
  <2> DEFINE info == CancelTimeout(measured, data)
  <2> HIDE DEF info
  <2>2. at \in DOMAIN found.measured /\ "asf" \in DOMAIN found.measured[at] => FaceInfoOK(info)
    BY <2>1 DEF info
  <2> DEFINE w == SetFaceInfo(found, at, face, info)
  <2>3. TablesOK(w) /\ KeepsPit(found, w)
    BY <1>2, <2>2, SetFaceInfoKeeps
  <2>4. u = w
    BY <1>5 DEF info
  <2> HIDE DEF w
  <2>5. KeepsPit(t, w)
    BY <1>2, <2>3, KeepsPitIsTransitive
  <2> QED BY <2>3, <2>4, <2>5 DEF u
<1>6. TablesOK(u) /\ KeepsPit(t, u)
  BY <1>1, <1>3, <1>4, <1>5 DEF u
<1> QED BY <1>6 DEF u

LEMMA OnTimeoutKeeps ==
  ASSUME NEW t, TablesOK(t), NEW name, NEW face
  PROVE  LET u == OnTimeout(t, name, face) IN TablesOK(u) /\ KeepsPit(t, u)
<1> DEFINE at == LongestMatch(DOMAIN t.measured, name)
           found == Namespace(t, name)
           info == IF face \in DOMAIN Faces(found, at) THEN Faces(found, at)[face] ELSE NewFaceInfo
           new == RecordTimeout(info, name)
           v == SetFaceInfo(found, at, face, new)
           u == OnTimeout(t, name, face)
<1>1. u = t \/ u = v
  BY DEF OnTimeout
<1>2. TablesOK(found) /\ KeepsPit(t, found)
  BY NamespaceKeeps
<1> HIDE DEF found, at, u
<1>3. ASSUME at \in DOMAIN found.measured, "asf" \in DOMAIN found.measured[at]
      PROVE  FaceInfoOK(new)
  <2>1. FaceInfoOK(info)
    BY <1>2, <1>3, KnownFaces, NewFaceInfoIsOK
  <2> HIDE DEF info
  <2> QED BY <2>1, FaceInfos DEF RecordTimeout
<1> HIDE DEF new
<1>4. TablesOK(v) /\ KeepsPit(found, v)
  BY <1>2, <1>3, SetFaceInfoKeeps
<1> HIDE DEF v
<1>5. TablesOK(u) /\ KeepsPit(t, u)
  BY <1>1, <1>2, <1>4, KeepsPitIsTransitive DEF KeepsPit
<1> QED BY <1>5 DEF u

LEMMA TimeoutExpiresKeeps ==
  ASSUME NEW t, TablesOK(t), NEW at \in DOMAIN t.measured, HasInfo(t, "asf", at),
         NEW face \in DOMAIN Faces(t, at)
  PROVE  TablesOK(TimeoutExpires(t, at, face))
<1> DEFINE old == t.measured[at]["asf"]
           faces == [old.faces EXCEPT ![face].timer = None]
           namespace == [old EXCEPT !.faces = faces]
           v == [t EXCEPT !.measured[at]["asf"].faces[face].timer = None]
<1>1. DOMAIN t = Fields /\ NamespaceOK(old)
  BY NamespacesAre DEF TablesOK, HasInfo
<1>2. /\ DOMAIN v = Fields /\ v.ht = t.ht /\ v.choice = t.choice /\ v.fib = t.fib
      /\ v.pit = t.pit /\ v.faces = t.faces
      /\ v.measured = [t.measured EXCEPT ![at]["asf"] = namespace]
  BY <1>1 DEF Fields
<1> HIDE DEF v, old
<1>3. NamespaceOK(namespace)
  <2>1. DOMAIN namespace = DOMAIN old /\ namespace.faces = faces /\ DOMAIN faces = DOMAIN old.faces
    BY <1>1 DEF NamespaceOK
  <2>2. \A f \in DOMAIN old.faces : faces[f] = old.faces[f] \/ faces[f] = [old.faces[f] EXCEPT !.timer = None]
    OBVIOUS
  <2> HIDE DEF faces, namespace
  <2>3. \A f \in DOMAIN old.faces : FaceInfoOK(faces[f])
    BY <1>1, <2>2, FaceInfos, ZenonT(60) DEF NamespaceOK
  <2> QED BY <1>1, <2>1, <2>3 DEF NamespaceOK
<1> HIDE DEF namespace
<1>4. TablesOK(v)
  BY <1>2, <1>3, NamespaceChanges
<1> QED BY <1>4, OnTimeoutKeeps DEF TimeoutExpires, v

LEMMA ExpireFaceInfoKeeps ==
  ASSUME NEW t, TablesOK(t), NEW at \in DOMAIN t.measured, HasInfo(t, "asf", at), NEW face
  PROVE  TablesOK(ExpireFaceInfo(t, at, face))
<1> DEFINE old == t.measured[at]["asf"]
           faces == Without(old.faces, face)
           namespace == [old EXCEPT !.faces = faces]
           v == ExpireFaceInfo(t, at, face)
<1>1. DOMAIN t = Fields /\ NamespaceOK(old)
  BY NamespacesAre DEF TablesOK, HasInfo
<1>2. v = [t EXCEPT !.measured[at]["asf"].faces = faces]
  BY DEF ExpireFaceInfo
<1>3. \A f \in DOMAIN faces : f \in DOMAIN old.faces /\ faces[f] = old.faces[f]
  BY DEF Without
<1> HIDE DEF v, faces
<1>4. /\ DOMAIN v = Fields /\ v.ht = t.ht /\ v.choice = t.choice /\ v.fib = t.fib
      /\ v.pit = t.pit /\ v.faces = t.faces
      /\ v.measured = [t.measured EXCEPT ![at]["asf"] = namespace]
  BY <1>1, <1>2 DEF Fields
<1> HIDE DEF old
<1>5. NamespaceOK(namespace)
  <2>1. DOMAIN namespace = DOMAIN old /\ namespace.faces = faces
    BY <1>1 DEF NamespaceOK
  <2> HIDE DEF namespace
  <2> QED BY <1>1, <1>3, <2>1 DEF NamespaceOK
<1> HIDE DEF namespace
<1>6. TablesOK(v)
  BY <1>4, <1>5, NamespaceChanges
<1> QED BY <1>6 DEF v

LEMMA ProbeFallsDueKeeps ==
  ASSUME NEW t, TablesOK(t), NEW prefix
  PROVE  TablesOK(ProbeFallsDue(t, prefix))
<1> DEFINE at == LongestMatch(DOMAIN t.measured, prefix)
           found == Namespace(t, prefix)
           namespace == [found.measured[at]["asf"] EXCEPT !.due = TRUE]
           v == [found EXCEPT !.measured[at]["asf"].due = TRUE]
<1>1. ProbeFallsDue(t, prefix) = t \/ ProbeFallsDue(t, prefix) = v
  BY DEF ProbeFallsDue
<1>2. TablesOK(found)
  BY NamespaceKeeps
<1> HIDE DEF at, found
<1>3. DOMAIN found = Fields
  BY <1>2 DEF TablesOK
<1>4. /\ DOMAIN v = Fields /\ v.ht = found.ht /\ v.choice = found.choice /\ v.fib = found.fib
      /\ v.pit = found.pit /\ v.faces = found.faces
      /\ v.measured = [found.measured EXCEPT ![at]["asf"] = namespace]
  BY <1>3 DEF Fields
<1>5. at \in DOMAIN found.measured /\ "asf" \in DOMAIN found.measured[at] => NamespaceOK(namespace)
  BY <1>2, NamespacesAre, MarksKeepNamespace
<1> HIDE DEF v, namespace
<1> QED BY <1>1, <1>2, <1>4, <1>5, NamespaceChanges


-----------------------------------------------------------------------------
(* The tables enter and leave the tree.                                     *)

\* All of TablesOK but the tree
ContentOK(t) ==
  /\ DOMAIN t = Fields
  /\ ChoiceOK(t.choice)
  /\ DOMAIN t.fib \subseteq Names /\ DOMAIN t.measured \subseteq Names /\ DOMAIN t.pit \subseteq Names
  /\ \A n \in DOMAIN t.measured : ItemsOK(t.choice, n, t.measured[n])
  /\ \A p \in DOMAIN t.pit : EntryOK(t.choice, t.faces, p, t.pit[p])

LEMMA EnterTables ==
  ASSUME NEW t, TablesOK(t), NEW at \in Names, NEW u, ContentOK(u),
         u.ht = Lookup(t.ht, at), Used(u) = Used(t) \cup {at}
  PROVE  TablesOK(u)
<1>1. TreeOK(t.ht, Used(t))
  BY DEF TablesOK
<1>2. TreeOK(u.ht, Used(u))
  BY <1>1, EnterKeepsTree
<1> QED BY <1>2 DEF TablesOK, ContentOK

LEMMA LeaveTables ==
  ASSUME NEW t, TablesOK(t), NEW at \in Names, NEW e, ContentOK(e), e.ht = t.ht,
         Used(e) \subseteq Used(t), Used(t) \subseteq Used(e) \cup {at}
  PROVE  TablesOK([e EXCEPT !.ht = EraseIfEmpty(@, Used(e), at)])
<1> DEFINE u == [e EXCEPT !.ht = EraseIfEmpty(@, Used(e), at)]
<1>1. DOMAIN e = Fields /\ TreeOK(t.ht, Used(t))
  BY DEF TablesOK, ContentOK
<1>2. /\ DOMAIN u = Fields /\ u.choice = e.choice /\ u.fib = e.fib /\ u.measured = e.measured
      /\ u.pit = e.pit /\ u.faces = e.faces /\ u.ht = EraseIfEmpty(e.ht, Used(e), at)
  BY <1>1 DEF Fields
<1> HIDE DEF u
<1>3. Used(u) = Used(e)
  BY <1>2 DEF Used
<1>4. EmptyOnly(e.ht, Used(e), {at})
  BY <1>1, TreeFacts DEF EmptyOnly
<1>5. TreeOK(u.ht, Used(u))
  BY <1>2, <1>3, <1>4, LeaveKeepsTree
<1>6. TablesOK(u)
  BY <1>2, <1>5 DEF TablesOK, ContentOK
<1> QED BY <1>6 DEF u

LEMMA FindOrInsertPitKeeps ==
  ASSUME NEW t, TablesOK(t), NEW name \in Names
  PROVE  LET u == FindOrInsertPit(t, name) IN TablesOK(u) /\ name \in DOMAIN u.pit
<1> DEFINE u == FindOrInsertPit(t, name)
           at == AttachedTo(name)
<1>1. CASE name \in DOMAIN t.pit
  BY <1>1 DEF FindOrInsertPit
<1>2. CASE name \notin DOMAIN t.pit
  <2>1. DOMAIN t = Fields /\ at \in Names
    BY PitNodeFacts DEF TablesOK
  <2>2. /\ DOMAIN u = Fields /\ u.choice = t.choice /\ u.fib = t.fib /\ u.measured = t.measured
        /\ u.faces = t.faces /\ u.ht = Lookup(t.ht, at) /\ u.pit = Put(t.pit, name, NewPitEntry)
    BY <1>2, <2>1 DEF FindOrInsertPit, InsertPitEntry, Fields
  <2>3. DOMAIN Put(t.pit, name, NewPitEntry) = DOMAIN t.pit \cup {name}
    BY PutDomain
  <2> HIDE DEF u
  <2>4. DOMAIN u.pit = DOMAIN t.pit \cup {name}
    BY <2>2, <2>3
  <2>5. Used(u) = Used(t) \cup {at}
    BY <2>2, <2>4 DEF Used
  <2>6. ASSUME NEW p \in DOMAIN u.pit
        PROVE  EntryOK(u.choice, u.faces, p, u.pit[p])
    <3>1. CASE p = name
      <4>1. u.pit[p] = NewPitEntry
        BY <2>2, <3>1, PutAt
      <4> QED BY <4>1 DEF EntryOK, NewPitEntry, TimerPending, NoInfo
    <3>2. CASE p # name
      <4>1. p \in DOMAIN t.pit
        BY <2>4, <3>2
      <4>2. u.pit[p] = t.pit[p]
        BY <2>2, <3>2, <4>1, PutElsewhere
      <4> QED BY <2>2, <4>1, <4>2 DEF TablesOK
    <3> QED BY <3>1, <3>2
  <2>7. ContentOK(u)
    BY <2>2, <2>4, <2>6 DEF ContentOK, TablesOK
  <2>8. TablesOK(u) /\ name \in DOMAIN u.pit
    BY <2>1, <2>2, <2>4, <2>5, <2>7, EnterTables
  <2> QED BY <2>8 DEF u
<1> QED BY <1>1, <1>2

LEMMA ErasePitKeeps ==
  ASSUME NEW t, TablesOK(t), NEW name \in DOMAIN t.pit
  PROVE  TablesOK(ErasePit(t, name))
<1> DEFINE e == ErasePitEntry(t, name)
           at == AttachedTo(name)
<1>1. DOMAIN t = Fields /\ at \in Names
  BY PitNodeFacts DEF TablesOK
<1>2. /\ DOMAIN e = Fields /\ e.choice = t.choice /\ e.fib = t.fib /\ e.measured = t.measured
      /\ e.faces = t.faces /\ e.ht = t.ht /\ e.pit = Without(t.pit, name)
  BY <1>1 DEF ErasePitEntry, Fields
<1> HIDE DEF e
<1>3. DOMAIN e.pit = DOMAIN t.pit \ {name} /\ \A p \in DOMAIN e.pit : e.pit[p] = t.pit[p]
  BY <1>2 DEF Without
<1>4. Used(e) \subseteq Used(t) /\ Used(t) \subseteq Used(e) \cup {at}
  BY <1>2, <1>3 DEF Used
<1>5. ContentOK(e)
  BY <1>2, <1>3 DEF ContentOK, TablesOK
<1>6. TablesOK([e EXCEPT !.ht = EraseIfEmpty(@, Used(e), at)])
  BY <1>1, <1>2, <1>4, <1>5, LeaveTables
<1> QED BY <1>6 DEF ErasePit, e

LEMMA CleanupMeasuredKeeps ==
  ASSUME NEW t, TablesOK(t), NEW name \in DOMAIN t.measured
  PROVE  TablesOK(CleanupMeasured(t, name))
<1> DEFINE e == [t EXCEPT !.measured = Without(@, name)]
<1>1. DOMAIN t = Fields /\ name \in Names
  BY DEF TablesOK
<1>2. /\ DOMAIN e = Fields /\ e.choice = t.choice /\ e.fib = t.fib /\ e.pit = t.pit
      /\ e.faces = t.faces /\ e.ht = t.ht /\ e.measured = Without(t.measured, name)
  BY <1>1 DEF Fields
<1> HIDE DEF e
<1>3. DOMAIN e.measured = DOMAIN t.measured \ {name} /\ \A n \in DOMAIN e.measured : e.measured[n] = t.measured[n]
  BY <1>2 DEF Without
<1>4. Used(e) \subseteq Used(t) /\ Used(t) \subseteq Used(e) \cup {name}
  BY <1>2, <1>3 DEF Used
<1>5. ContentOK(e)
  BY <1>2, <1>3 DEF ContentOK, TablesOK
<1>6. TablesOK([e EXCEPT !.ht = EraseIfEmpty(@, Used(e), name)])
  BY <1>1, <1>2, <1>4, <1>5, LeaveTables
<1> QED BY <1>6 DEF CleanupMeasured, e

LEMMA AddNextHopKeeps ==
  ASSUME NEW t, TablesOK(t), NEW prefix \in Names, NEW face
  PROVE  TablesOK(AddNextHop(t, prefix, face))
<1> DEFINE hops == (IF prefix \in DOMAIN t.fib THEN t.fib[prefix] ELSE {}) \cup {face}
           u == AddNextHop(t, prefix, face)
<1>1. DOMAIN t = Fields /\ hops # {}
  BY DEF TablesOK
<1>2. /\ DOMAIN u = Fields /\ u.choice = t.choice /\ u.pit = t.pit /\ u.measured = t.measured
      /\ u.faces = t.faces /\ u.ht = Lookup(t.ht, prefix) /\ u.fib = Put(t.fib, prefix, hops)
  BY <1>1 DEF AddNextHop, SetFibEntry, Fields
<1>3. DOMAIN Put(t.fib, prefix, hops) = DOMAIN t.fib \cup {prefix}
  BY PutDomain
<1> HIDE DEF u, hops
<1>4. DOMAIN u.fib = DOMAIN t.fib \cup {prefix}
  BY <1>2, <1>3
<1>5. Used(u) = Used(t) \cup {prefix}
  BY <1>2, <1>4 DEF Used
<1>6. ContentOK(u)
  BY <1>2, <1>4 DEF ContentOK, TablesOK
<1> QED BY <1>2, <1>5, <1>6, EnterTables DEF u

LEMMA RemoveNextHopKeeps ==
  ASSUME NEW t, TablesOK(t), NEW prefix \in DOMAIN t.fib, NEW face
  PROVE  TablesOK(RemoveNextHop(t, prefix, face))
<1> DEFINE left == t.fib[prefix] \ {face}
           e == SetFibEntry(t, prefix, left)
<1>1. DOMAIN t = Fields /\ prefix \in Names /\ TreeOK(t.ht, Used(t))
  BY DEF TablesOK
<1>2. /\ DOMAIN e = Fields /\ e.choice = t.choice /\ e.pit = t.pit /\ e.measured = t.measured
      /\ e.faces = t.faces /\ e.ht = t.ht
      /\ e.fib = IF left = {} THEN Without(t.fib, prefix) ELSE Put(t.fib, prefix, left)
  BY <1>1 DEF SetFibEntry, Fields
<1> HIDE DEF e
<1>3. DOMAIN Put(t.fib, prefix, left) = DOMAIN t.fib \cup {prefix}
  BY PutDomain
<1>4. DOMAIN Without(t.fib, prefix) = DOMAIN t.fib \ {prefix}
  BY DEF Without
<1>5. DOMAIN e.fib = DOMAIN t.fib \/ DOMAIN e.fib = DOMAIN t.fib \ {prefix}
  BY <1>2, <1>3, <1>4
<1>6. ContentOK(e)
  BY <1>2, <1>5 DEF ContentOK, TablesOK
<1>7. Used(e) \subseteq Used(t) /\ Used(t) \subseteq Used(e) \cup {prefix}
  BY <1>2, <1>5 DEF Used
<1>8. TablesOK([e EXCEPT !.ht = EraseIfEmpty(@, Used(e), prefix)])
  BY <1>1, <1>2, <1>6, <1>7, LeaveTables
<1>9. prefix \in DOMAIN e.fib => TablesOK(e)
  <2>1. prefix \in DOMAIN e.fib => Used(e) = Used(t)
    BY <1>2, <1>5 DEF Used
  <2> QED BY <1>1, <1>2, <1>6, <2>1 DEF TablesOK, ContentOK
<1> QED BY <1>8, <1>9 DEF RemoveNextHop, e

\* A face goes: the nodes that its next hops leave without entries go too.
LEMMA CleanupOnFaceRemovalKeeps ==
  ASSUME NEW t, TablesOK(t), NEW face \in AllFaces
  PROVE  TablesOK(CleanupOnFaceRemoval(t, face))
<1> DEFINE hops == [n \in DOMAIN t.fib |-> t.fib[n] \ {face}]
           fib == Restrict(hops, {n \in DOMAIN hops : hops[n] # {}})
           pit == [p \in DOMAIN t.pit |->
                     [t.pit[p] EXCEPT !.ins = @ \ {face}, !.outs = @ \ {face},
                                      !.live = @ \ {face}, !.nacked = @ \ {face}]]
           swept == [t EXCEPT !.faces = @ \ {face}, !.fib = fib, !.pit = pit]
           unused == Enumerate(t.ht, Names \ Used(swept))
           u == [swept EXCEPT !.ht = EraseUnused(@, Used(swept), unused)]
<1>1. CleanupOnFaceRemoval(t, face) = u
  BY DEF CleanupOnFaceRemoval
<1>2. DOMAIN t = Fields /\ TreeOK(t.ht, Used(t))
  BY DEF TablesOK
<1>3. DOMAIN fib \subseteq DOMAIN t.fib
  BY DEF Restrict
<1>4. DOMAIN pit = DOMAIN t.pit
  OBVIOUS
<1>5. \A p \in DOMAIN t.pit :
        DOMAIN pit[p] = DOMAIN t.pit[p] /\ ("info" \in DOMAIN t.pit[p] => pit[p].info = t.pit[p].info)
  OBVIOUS
<1> HIDE DEF fib, pit
<1>6. /\ DOMAIN swept = Fields /\ swept.choice = t.choice /\ swept.measured = t.measured
      /\ swept.ht = t.ht /\ swept.faces = t.faces \ {face}
      /\ swept.fib = fib /\ swept.pit = pit
  BY <1>2 DEF Fields
<1> HIDE DEF swept
<1>7. ASSUME NEW p \in DOMAIN swept.pit
      PROVE  EntryOK(swept.choice, swept.faces, p, swept.pit[p])
  <2>1. p \in DOMAIN t.pit /\ EntryOK(t.choice, t.faces, p, t.pit[p])
    BY <1>4, <1>6 DEF TablesOK
  <2>2. swept.faces # AllFaces
    BY <1>6
  <2> QED BY <1>5, <1>6, <2>1, <2>2 DEF EntryOK
<1>8. Used(swept) \subseteq Used(t)
  BY <1>3, <1>4, <1>6 DEF Used
<1>9. TableOK(t.ht) /\ HasParents(t.ht) /\ Used(t) \subseteq Nodes(t.ht) /\ Nodes(t.ht) \subseteq Names
  BY <1>2, TreeFacts, TableFacts
<1>10. unused = Nodes(t.ht) \ Used(swept)
  BY <1>9 DEF Enumerate
<1>11. TreeOK(EraseUnused(t.ht, Used(swept), unused), Used(swept))
  BY <1>8, <1>9, <1>10, SweepKeepsTree
<1> HIDE DEF unused
<1>12. /\ DOMAIN u = Fields /\ u.choice = swept.choice /\ u.measured = swept.measured
       /\ u.faces = swept.faces /\ u.fib = swept.fib /\ u.pit = swept.pit
       /\ u.ht = EraseUnused(t.ht, Used(swept), unused)
  BY <1>6 DEF Fields
<1> HIDE DEF u
<1>13. Used(u) = Used(swept)
  BY <1>12 DEF Used
<1>14. TablesOK(u)
  BY <1>3, <1>4, <1>6, <1>7, <1>11, <1>12, <1>13 DEF TablesOK
<1> QED BY <1>1, <1>14


-----------------------------------------------------------------------------
(* The Strategy Choice table.                                               *)

\* A name is in the part of the tree where the choice for a prefix is the longest match.
Governs(choice, prefix, n) ==
  /\ IsPrefix(prefix, n)
  /\ \A len \in (Len(prefix) + 1)..Len(n) : Prefix(n, len) \notin DOMAIN choice

\* The strategy in effect changes there at most, and only if another one is chosen.
ChangesWithin(choice, c, all, prefix, old, new) ==
  \A n \in Names :
    EffectiveBy(c, n) = EffectiveBy(choice, n) \/ (old # new /\ Governs(all, prefix, n))

\* The choices c are others with one for the prefix.
AlsoChosen(choice, c, prefix) ==
  /\ DOMAIN c = DOMAIN choice \cup {prefix}
  /\ \A p \in DOMAIN choice : p # prefix => c[p] = choice[p]

\* A choice for a prefix changes the strategy in effect at most where the choice is the longest
\* match; before, the strategy in effect was the same there as at the prefix.
LEMMA ChoicePut ==
  ASSUME NEW choice, ChoiceOK(choice), NEW prefix \in Names, NEW c, AlsoChosen(choice, c, prefix),
         NEW n \in Names
  PROVE  \/ EffectiveBy(c, n) = EffectiveBy(choice, n)
         \/ /\ EffectiveBy(c, n) = c[prefix]
            /\ EffectiveBy(choice, n) = EffectiveBy(choice, prefix)
            /\ Governs(c, prefix, n)
<1>1. /\ DOMAIN c = DOMAIN choice \cup {prefix}
      /\ \A p \in DOMAIN choice : p # prefix => c[p] = choice[p]
  BY DEF AlsoChosen
<1>2. DOMAIN c = DOMAIN choice \cup {prefix} /\ DOMAIN choice \subseteq Names /\ DOMAIN c \subseteq Names
  BY <1>1 DEF ChoiceOK
<1> DEFINE l == LongestMatch(DOMAIN c, n)
           m == LongestMatch(DOMAIN choice, n)
<1>3. /\ m \in DOMAIN choice /\ IsPrefix(m, n)
      /\ \A q \in DOMAIN choice : IsPrefix(q, n) => Len(q) <= Len(m)
  BY ChosenExists
<1>4. /\ l \in DOMAIN c /\ IsPrefix(l, n)
      /\ \A q \in DOMAIN c : IsPrefix(q, n) => Len(q) <= Len(l)
  BY <1>2, <1>3, LongestMatchFacts
<1>5. EffectiveBy(c, n) = c[l] /\ EffectiveBy(choice, n) = choice[m]
  BY DEF EffectiveBy
<1>6. m \in Names /\ l \in Names /\ Len(m) \in Nat /\ Len(prefix) \in Nat /\ Len(n) \in Nat
  BY <1>2, <1>3, <1>4, NameFacts
<1> HIDE DEF l
<1>7. CASE l # prefix
  <2>1. l \in DOMAIN choice
    BY <1>2, <1>4, <1>7
  <2>2. m = l
    BY <1>2, <1>4, <2>1, LongestMatchIs
  <2>3. c[l] = choice[l]
    BY <1>1, <1>7, <2>1
  <2> HIDE DEF m
  <2> QED BY <1>5, <2>2, <2>3
<1>8. CASE l = prefix
  <2> HIDE DEF m
  <2>1. c[l] = c[prefix]
    BY <1>8
  <2>2. IsPrefix(prefix, n)
    BY <1>4, <1>8
  <2>3. ASSUME NEW len \in (Len(prefix) + 1)..Len(n)
        PROVE  Prefix(n, len) \notin DOMAIN c
    <3>1. len \in 0..Len(n) /\ len > Len(prefix)
      BY <1>6
    <3>2. IsPrefix(Prefix(n, len), n) /\ Len(Prefix(n, len)) = len
      BY <3>1, PrefixesArePrefixes, NameFacts
    <3> QED BY <1>4, <1>6, <1>8, <3>1, <3>2
  <2>4. Len(m) <= Len(prefix)
    BY <1>2, <1>3, <1>4, <1>8
  <2>5. IsPrefix(m, prefix)
    BY <1>3, <1>6, <2>2, <2>4, PrefixesAreNested
  <2>6. \A q \in DOMAIN choice : IsPrefix(q, prefix) => Len(q) <= Len(m)
    BY <1>2, <1>3, <2>2, PrefixIsTransitive
  <2>7. LongestMatch(DOMAIN choice, prefix) = m
    BY <1>2, <1>3, <2>5, <2>6, LongestMatchIs
  <2>8. EffectiveBy(choice, prefix) = choice[m]
    BY <2>7 DEF EffectiveBy
  <2> QED BY <1>5, <2>1, <2>2, <2>3, <2>8 DEF Governs
<1> QED BY <1>7, <1>8

LEMMA PutKeepsChoice ==
  ASSUME NEW choice, ChoiceOK(choice), NEW prefix \in Names, NEW strategy \in Strategies
  PROVE  ChoiceOK(Put(choice, prefix, strategy))
<1> DEFINE c == Put(choice, prefix, strategy)
<1>1. DOMAIN c = DOMAIN choice \cup {prefix}
  BY PutDomain
<1>2. c[prefix] = strategy
  BY PutAt
<1>3. \A p \in DOMAIN choice : p # prefix => c[p] = choice[p]
  BY PutElsewhere
<1> HIDE DEF c
<1>4. ChoiceOK(c)
  BY <1>1, <1>2, <1>3 DEF ChoiceOK
<1> QED BY <1>4 DEF c

\* The items of the tables u, which are else those of e, are of the strategies that c makes effective.
ItemsFollow(t, e, c, u) ==
  /\ DOMAIN u = Fields /\ u.ht = e.ht /\ u.choice = e.choice /\ u.fib = e.fib /\ u.faces = e.faces
  /\ DOMAIN u.measured = DOMAIN t.measured /\ DOMAIN u.pit = DOMAIN t.pit
  /\ \A n \in DOMAIN t.measured : ItemsOK(c, n, u.measured[n])
  /\ \A p \in DOMAIN t.pit : EntryOK(c, t.faces, p, u.pit[p])

\* Where the strategy in effect changes, the items are cleared.
LEMMA ChangeClearsItems ==
  ASSUME NEW t, TablesOK(t), NEW e, DOMAIN e = Fields, e.measured = t.measured, e.pit = t.pit,
         Nodes(t.ht) \subseteq Nodes(e.ht), NEW prefix, NEW old, NEW new, NEW c,
         ChangesWithin(t.choice, c, e.choice, prefix, old, new)
  PROVE  ItemsFollow(t, e, c, ChangeStrategy(e, prefix, old, new))
<1> DEFINE changed == SubTree(e.ht, prefix, DOMAIN e.choice)
           measured == [n \in DOMAIN e.measured |-> IF n \in changed THEN NoInfo ELSE e.measured[n]]
           pit == [p \in DOMAIN e.pit |->
                    IF AttachedTo(p) \in changed THEN [e.pit[p] EXCEPT !.info = NoInfo] ELSE e.pit[p]]
           u == ChangeStrategy(e, prefix, old, new)
<1>1. /\ DOMAIN t.measured \subseteq Names /\ DOMAIN t.measured \subseteq Nodes(t.ht)
      /\ DOMAIN t.pit \subseteq Names /\ \A p \in DOMAIN t.pit : AttachedTo(p) \in Nodes(t.ht)
      /\ \A n \in DOMAIN t.measured : ItemsOK(t.choice, n, t.measured[n])
      /\ \A p \in DOMAIN t.pit : EntryOK(t.choice, t.faces, p, t.pit[p])
  BY DEF TablesOK, TreeOK, IsSound, Used
<1>2. CASE old = new
  <2>1. u = e /\ \A n \in Names : EffectiveBy(c, n) = EffectiveBy(t.choice, n)
    BY <1>2 DEF ChangeStrategy, ChangesWithin
  <2>2. \A n \in DOMAIN t.measured : ItemsOK(c, n, u.measured[n])
    BY <1>1, <2>1 DEF ItemsOK
  <2>3. \A p \in DOMAIN t.pit : EntryOK(c, t.faces, p, u.pit[p])
    BY <1>1, <2>1 DEF EntryOK
  <2> HIDE DEF u
  <2>4. ItemsFollow(t, e, c, u)
    BY <2>1, <2>2, <2>3 DEF ItemsFollow
  <2> QED BY <2>4 DEF u
<1>3. CASE old # new
  <2>1. \A n \in Names : n \in Nodes(t.ht) /\ n \notin changed =>
          EffectiveBy(c, n) = EffectiveBy(t.choice, n)
    BY DEF SubTree, Governs, ChangesWithin
  <2>2. u = [e EXCEPT !.measured = measured, !.pit = pit]
    BY <1>3 DEF ChangeStrategy
  <2> HIDE DEF changed
  <2>3. /\ DOMAIN measured = DOMAIN t.measured
        /\ \A n \in DOMAIN t.measured : measured[n] = IF n \in changed THEN NoInfo ELSE t.measured[n]
    OBVIOUS
  <2>4. /\ DOMAIN pit = DOMAIN t.pit
        /\ \A p \in DOMAIN t.pit :
             pit[p] = IF AttachedTo(p) \in changed THEN [t.pit[p] EXCEPT !.info = NoInfo] ELSE t.pit[p]
    OBVIOUS
  <2> HIDE DEF measured, pit
  <2>5. /\ DOMAIN u = Fields /\ u.ht = e.ht /\ u.choice = e.choice /\ u.fib = e.fib /\ u.faces = e.faces
        /\ u.measured = measured /\ u.pit = pit
    BY <2>2 DEF Fields
  <2>6. ASSUME NEW n \in DOMAIN t.measured
        PROVE  ItemsOK(c, n, measured[n])
    <3>1. CASE n \in changed
      BY <2>3, <3>1 DEF ItemsOK, NoInfo
    <3>2. CASE n \notin changed
      BY <1>1, <2>1, <2>3, <3>2 DEF ItemsOK
    <3> QED BY <3>1, <3>2
  <2>7. ASSUME NEW p \in DOMAIN t.pit
        PROVE  EntryOK(c, t.faces, p, pit[p])
    <3>1. CASE AttachedTo(p) \in changed
      <4>1. EntryOK(t.choice, t.faces, p, t.pit[p])
        BY <1>1
      <4>2. pit[p] = [t.pit[p] EXCEPT !.info = NoInfo]
        BY <2>4, <3>1
      <4>3. DOMAIN pit[p] = DOMAIN t.pit[p] /\ pit[p].info = NoInfo
        BY <4>1, <4>2 DEF EntryOK
      <4> QED BY <4>1, <4>3 DEF EntryOK, NoInfo, TimerPending
    <3>2. CASE AttachedTo(p) \notin changed
      <4>1. pit[p] = t.pit[p] /\ EntryOK(t.choice, t.faces, p, t.pit[p]) /\ p \in Names
        BY <1>1, <2>4, <3>2
      <4>2. AttachedTo(p) = p => EffectiveBy(c, p) = EffectiveBy(t.choice, p)
        BY <1>1, <2>1, <3>2
      <4> QED BY <4>1, <4>2 DEF EntryOK
    <3> QED BY <3>1, <3>2
  <2> HIDE DEF u
  <2>8. ItemsFollow(t, e, c, u)
    BY <2>3, <2>4, <2>5, <2>6, <2>7 DEF ItemsFollow
  <2> QED BY <2>8 DEF u
<1> QED BY <1>2, <1>3

LEMMA InsertChoiceKeeps ==
  ASSUME NEW t, TablesOK(t), NEW prefix \in Names, NEW strategy \in Strategies
  PROVE  TablesOK(InsertChoice(t, prefix, strategy))
<1> DEFINE old == EffectiveStrategy(t, prefix)
           c == Put(t.choice, prefix, strategy)
           e == SetChoiceEntry([t EXCEPT !.ht = Lookup(@, prefix)], prefix, strategy)
           u == ChangeStrategy(e, prefix, old, strategy)
<1>1. DOMAIN t = Fields /\ TreeOK(t.ht, Used(t)) /\ ChoiceOK(t.choice)
  BY DEF TablesOK
<1>2. /\ DOMAIN e = Fields /\ e.choice = c /\ e.fib = t.fib /\ e.measured = t.measured
      /\ e.faces = t.faces /\ e.ht = Lookup(t.ht, prefix) /\ e.pit = t.pit
  BY <1>1 DEF SetChoiceEntry, Fields
<1>3. ChoiceOK(c) /\ DOMAIN c = DOMAIN t.choice \cup {prefix}
  BY <1>1, PutKeepsChoice, PutDomain
<1>a. c[prefix] = strategy
  BY PutAt
<1>b. AlsoChosen(t.choice, c, prefix)
  <2>1. \A p \in DOMAIN t.choice : p # prefix => c[p] = t.choice[p]
    BY PutElsewhere
  <2> HIDE DEF c
  <2> QED BY <1>3, <2>1 DEF AlsoChosen
<1>4. Nodes(t.ht) \subseteq Nodes(e.ht)
  BY <1>1, <1>2, EnterKeepsTree
<1>5. old = EffectiveBy(t.choice, prefix)
  BY DEF EffectiveStrategy, EffectiveBy
<1> HIDE DEF e, c, old
<1>6. ChangesWithin(t.choice, c, e.choice, prefix, old, strategy)
  BY <1>1, <1>2, <1>3, <1>5, <1>a, <1>b, ChoicePut DEF ChangesWithin
<1> HIDE DEF u
<1>c. u = ChangeStrategy(e, prefix, old, strategy)
  BY DEF u
<1>7. ItemsFollow(t, e, c, u)
  BY <1>2, <1>4, <1>6, <1>c, ChangeClearsItems
<1>d. /\ DOMAIN u = Fields /\ u.ht = e.ht /\ u.choice = e.choice /\ u.fib = e.fib /\ u.faces = e.faces
      /\ DOMAIN u.measured = DOMAIN t.measured /\ DOMAIN u.pit = DOMAIN t.pit
      /\ \A n \in DOMAIN t.measured : ItemsOK(c, n, u.measured[n])
      /\ \A p \in DOMAIN t.pit : EntryOK(c, t.faces, p, u.pit[p])
  BY <1>7 DEF ItemsFollow
<1>8. ContentOK(u)
  BY <1>2, <1>3, <1>d DEF ContentOK, TablesOK
<1>9. Used(u) = Used(t) \cup {prefix}
  BY <1>2, <1>3, <1>d DEF Used
<1>10. TablesOK(u)
  BY <1>2, <1>d, <1>8, <1>9, EnterTables
<1> QED BY <1>10 DEF InsertChoice, u, e, old

LEMMA EraseChoiceKeeps ==
  ASSUME NEW t, TablesOK(t), NEW prefix \in DOMAIN t.choice, prefix # <<>>
  PROVE  TablesOK(EraseChoice(t, prefix))
<1> DEFINE own == t.choice[prefix]
           parents == EffectiveStrategy(t, Parent(prefix))
           c == Without(t.choice, prefix)
           v == ChangeStrategy(t, prefix, own, parents)
           e == [v EXCEPT !.choice = Without(@, prefix)]
<1>1. DOMAIN t = Fields /\ ChoiceOK(t.choice) /\ prefix \in Names /\ own \in Strategies
  BY DEF TablesOK, ChoiceOK
<1>2. /\ Parent(prefix) \in Names /\ Len(Parent(prefix)) = Len(prefix) - 1 /\ Len(prefix) \in Nat
  BY <1>1, ParentFacts
<1>3. DOMAIN c = DOMAIN t.choice \ {prefix} /\ \A p \in DOMAIN c : c[p] = t.choice[p]
  BY DEF Without
<1> HIDE DEF c
<1>4. ChoiceOK(c) /\ prefix \notin DOMAIN c
  BY <1>1, <1>3 DEF ChoiceOK
<1>5. t.choice[prefix] = own /\ AlsoChosen(c, t.choice, prefix)
  BY <1>3 DEF AlsoChosen
<1> HIDE DEF own
<1>6. parents = EffectiveBy(t.choice, Parent(prefix))
  BY DEF EffectiveStrategy, EffectiveBy
<1>7. ~IsPrefix(prefix, Parent(prefix))
  BY <1>1, <1>2, PrefixIs
<1>8. EffectiveBy(t.choice, Parent(prefix)) = EffectiveBy(c, Parent(prefix))
  BY <1>1, <1>2, <1>4, <1>5, <1>7, ChoicePut DEF Governs
<1>9. EffectiveBy(c, prefix) = parents
  BY <1>1, <1>4, <1>6, <1>8, InheritsChoice
<1> HIDE DEF parents
<1>10. ChangesWithin(t.choice, c, t.choice, prefix, own, parents)
  <2> SUFFICES ASSUME NEW n \in Names
               PROVE  \/ EffectiveBy(c, n) = EffectiveBy(t.choice, n)
                      \/ own # parents /\ Governs(t.choice, prefix, n)
    BY DEF ChangesWithin
  <2>1. \/ EffectiveBy(t.choice, n) = EffectiveBy(c, n)
        \/ /\ EffectiveBy(t.choice, n) = own
           /\ EffectiveBy(c, n) = EffectiveBy(c, prefix)
           /\ Governs(t.choice, prefix, n)
    BY <1>1, <1>4, <1>5, ChoicePut
  <2> QED BY <1>9, <2>1
<1> HIDE DEF v
<1>a. v = ChangeStrategy(t, prefix, own, parents)
  BY DEF v
<1>11. ItemsFollow(t, t, c, v)
  BY <1>1, <1>10, <1>a, ChangeClearsItems
<1>b. /\ DOMAIN v = Fields /\ v.ht = t.ht /\ v.choice = t.choice /\ v.fib = t.fib /\ v.faces = t.faces
      /\ DOMAIN v.measured = DOMAIN t.measured /\ DOMAIN v.pit = DOMAIN t.pit
      /\ \A n \in DOMAIN t.measured : ItemsOK(c, n, v.measured[n])
      /\ \A p \in DOMAIN t.pit : EntryOK(c, t.faces, p, v.pit[p])
  BY <1>11 DEF ItemsFollow
<1>12. /\ DOMAIN e = Fields /\ e.ht = t.ht /\ e.choice = c /\ e.fib = t.fib /\ e.faces = t.faces
       /\ e.measured = v.measured /\ e.pit = v.pit
  BY <1>b DEF Fields, c
<1> HIDE DEF e
<1>13. ContentOK(e)
  BY <1>4, <1>b, <1>12 DEF ContentOK, TablesOK
<1>14. Used(e) \subseteq Used(t) /\ Used(t) \subseteq Used(e) \cup {prefix}
  BY <1>3, <1>b, <1>12 DEF Used
<1>15. TablesOK([e EXCEPT !.ht = EraseIfEmpty(@, Used(e), prefix)])
  BY <1>1, <1>12, <1>13, <1>14, LeaveTables
<1> QED BY <1>15 DEF EraseChoice, e, v, own, parents


-----------------------------------------------------------------------------
(* The pipelines.                                                           *)

LEMMA EffectiveForPitMeasures ==
  ASSUME NEW t, TablesOK(t), NEW name \in Names, NEW strategy, EffectiveForPit(t, name) = strategy
  PROVE  EffectiveBy(t.choice, name) = strategy /\ MayMeasure(t, strategy, name)
<1>1. EffectiveBy(t.choice, name) = strategy
  BY EffectiveForPitIs
<1> QED BY <1>1 DEF MayMeasure, EffectiveStrategy, EffectiveBy

LEMMA TriggerKeeps ==
  ASSUME NEW t, TablesOK(t), NEW name \in DOMAIN t.pit, NEW face, t.pit[name].ins # {},
         NEW u \in Trigger(t, name, face)
  PROVE  TablesOK(u)
<1>1. name \in Names
  BY DEF TablesOK
<1>2. EffectiveForPit(t, name) \in {"access", "ncc", "asf"}
  BY <1>1, EffectiveForPitIs DEF Strategies
<1>3. CASE EffectiveForPit(t, name) = "access"
  <2>1. u \in AccessAfterInterest(t, name, face)
    BY <1>3 DEF Trigger
  <2>2. EffectiveBy(t.choice, name) = "access"
    BY <1>1, <1>3, EffectiveForPitMeasures
  <2> QED BY <2>1, <2>2, AccessAfterInterestKeeps
<1>4. CASE EffectiveForPit(t, name) = "ncc"
  <2>1. u \in NccAfterInterest(t, name, face)
    BY <1>4 DEF Trigger
  <2>2. MayMeasure(t, "ncc", name)
    BY <1>1, <1>4, EffectiveForPitMeasures
  <2> QED BY <2>1, <2>2, NccAfterInterestKeeps
<1>5. CASE EffectiveForPit(t, name) = "asf"
  <2>1. u \in AsfAfterInterest(t, name, face)
    BY <1>5 DEF Trigger
  <2> QED BY <1>5, <2>1, AsfAfterInterestKeeps
<1> QED BY <1>2, <1>3, <1>4, <1>5

\* The in-record is there when the trigger is called.
LEMMA ReceiveInterestKeeps ==
  ASSUME TablesOK(tables), NEW name \in PitNames, NEW face, ReceiveInterest(name, face)
  PROVE  TablesOK(tables')
<1> DEFINE t == FindOrInsertPit(tables, name)
           u == [t EXCEPT !.pit[name].ins = @ \cup {face}]
<1>1. name \in Names
  BY ConfigurationAssumption
<1>2. TablesOK(t) /\ name \in DOMAIN t.pit
  BY <1>1, FindOrInsertPitKeeps
<1>3. tables' \in Trigger(u, name, face)
  BY DEF ReceiveInterest
<1> HIDE DEF t
<1>4. DOMAIN t = Fields /\ EntryOK(t.choice, t.faces, name, t.pit[name])
  BY <1>2 DEF TablesOK
<1>5. /\ DOMAIN u = Fields /\ u.ht = t.ht /\ u.choice = t.choice /\ u.fib = t.fib
      /\ u.measured = t.measured /\ u.faces = t.faces /\ DOMAIN u.pit = DOMAIN t.pit
      /\ \A p \in DOMAIN t.pit : p # name => u.pit[p] = t.pit[p]
  BY <1>4 DEF Fields
<1>6. DOMAIN u.pit[name] = DOMAIN t.pit[name] /\ u.pit[name].info = t.pit[name].info
  BY <1>2, <1>4 DEF Fields, EntryOK
<1>7. u.pit[name].ins = t.pit[name].ins \cup {face}
  BY <1>2, <1>4 DEF Fields, EntryOK
<1> HIDE DEF u
<1>8. u.pit[name].ins # {}
  BY <1>7
<1>9. EntryOK(t.choice, t.faces, name, u.pit[name])
  BY <1>4, <1>6, <1>8 DEF EntryOK
<1>10. TablesOK(u)
  BY <1>2, <1>5, <1>9, EntryChanges
<1> QED BY <1>2, <1>3, <1>5, <1>8, <1>10, TriggerKeeps

\* Once the strategy was told of Data, no timer of the access strategy waits at an entry of its own.
LEMMA BeforeSatisfyKeeps ==
  ASSUME NEW t, TablesOK(t), NEW name \in DOMAIN t.pit, NEW face, NEW data \in Names
  PROVE  LET u == BeforeSatisfy(t, name, face, data)
         IN  /\ TablesOK(u) /\ Keeps(t, u)
             /\ AttachedTo(name) = name => ~TimerPending(u.pit[name].info)
<1> DEFINE u == BeforeSatisfy(t, name, face, data)
<1>1. name \in Names
  BY DEF TablesOK
<1>2. EffectiveForPit(t, name) \in {"access", "ncc", "asf"}
  BY <1>1, EffectiveForPitIs DEF Strategies
<1>3. CASE EffectiveForPit(t, name) = "access"
  <2>1. u = AccessBeforeSatisfy(t, name, face, data)
    BY <1>3 DEF BeforeSatisfy
  <2> QED BY <2>1, AccessBeforeSatisfyKeeps
<1>4. CASE EffectiveForPit(t, name) # "access"
  <2>1. TablesOK(u) /\ Keeps(t, u)
    <3>1. CASE EffectiveForPit(t, name) = "ncc"
      <4>1. u = NccBeforeSatisfy(t, name, face)
        BY <3>1 DEF BeforeSatisfy
      <4> QED BY <1>1, <4>1, NccBeforeSatisfyKeeps
    <3>2. CASE EffectiveForPit(t, name) = "asf"
      <4>1. u = AsfBeforeSatisfy(t, name, face, data)
        BY <3>2 DEF BeforeSatisfy
      <4> HIDE DEF u
      <4>2. TablesOK(u) /\ KeepsPit(t, u)
        BY <4>1, AsfBeforeSatisfyKeeps
      <4> QED BY <4>2, KeepsPitKeeps DEF u
    <3> QED BY <1>2, <1>4, <3>1, <3>2
  <2> HIDE DEF u
  <2>2. EffectiveBy(u.choice, name) # "access"
    BY <1>1, <1>4, <2>1, EffectiveForPitIs DEF Keeps
  <2>3. EntryOK(u.choice, u.faces, name, u.pit[name])
    BY <2>1 DEF TablesOK, Keeps
  <2>4. AttachedTo(name) = name => ~TimerPending(u.pit[name].info)
    BY <2>2, <2>3 DEF EntryOK, TimerPending
  <2> QED BY <2>1, <2>4 DEF u
<1> QED BY <1>3, <1>4

LEMMA SatisfiedKeeps ==
  ASSUME NEW t, TablesOK(t), NEW name \in DOMAIN t.pit, NEW face, NEW data \in Names
  PROVE  LET u == Satisfied(t, name, face, data) IN TablesOK(u) /\ DOMAIN u.pit = DOMAIN t.pit
<1> DEFINE v == BeforeSatisfy(t, name, face, data)
           u == [v EXCEPT !.pit[name].ins = {},
                          !.pit[name].outs = @ \ {face},
                          !.pit[name].live = @ \ {face},
                          !.pit[name].nacked = @ \ {face}]
<1>1. Satisfied(t, name, face, data) = u
  BY DEF Satisfied
<1>2. TablesOK(v) /\ Keeps(t, v) /\ (AttachedTo(name) = name => ~TimerPending(v.pit[name].info))
  BY BeforeSatisfyKeeps
<1> HIDE DEF v
<1>3. DOMAIN v = Fields /\ name \in DOMAIN v.pit /\ EntryOK(v.choice, v.faces, name, v.pit[name])
  BY <1>2 DEF TablesOK, Keeps
<1>4. /\ DOMAIN u = Fields /\ u.ht = v.ht /\ u.choice = v.choice /\ u.fib = v.fib
      /\ u.measured = v.measured /\ u.faces = v.faces /\ DOMAIN u.pit = DOMAIN v.pit
      /\ \A p \in DOMAIN v.pit : p # name => u.pit[p] = v.pit[p]
  BY <1>3 DEF Fields
<1>5. DOMAIN u.pit[name] = DOMAIN v.pit[name] /\ u.pit[name].info = v.pit[name].info
  BY <1>3 DEF Fields, EntryOK
<1> HIDE DEF u
<1>6. EntryOK(v.choice, v.faces, name, u.pit[name])
  BY <1>2, <1>3, <1>5 DEF EntryOK
<1>7. TablesOK(u) /\ DOMAIN u.pit = DOMAIN t.pit
  BY <1>2, <1>4, <1>6, EntryChanges DEF Keeps
<1> QED BY <1>1, <1>7


-----------------------------------------------------------------------------
(* What is done for each element of a set: the entries that Data satisfies, *)
(* the choices and the routes that are configured.                          *)

\* Induction over the subsets of a finite set that are in G.
LEMMA SetsUpTo ==
  ASSUME NEW S, IsFiniteSet(S), NEW G, {} \in G,
         \A s \in SUBSET S : (\A x \in s : s \ {x} \in G) => s \in G
  PROVE  S \in G
<1> DEFINE Done == {n \in Nat : \A s \in SUBSET S : Cardinality(s) = n => s \in G}
<1>1. 0 \in Done
  <2>1. \A s \in SUBSET S : Cardinality(s) = 0 => s = {}
    BY FS_Subset, FS_EmptySet
  <2> QED BY <2>1
<1>2. ASSUME NEW n \in Nat, n \in Done
      PROVE  n + 1 \in Done
  <2> SUFFICES ASSUME NEW s \in SUBSET S, Cardinality(s) = n + 1
               PROVE  s \in G
    BY n + 1 \in Nat
  <2>1. IsFiniteSet(s)
    BY FS_Subset
  <2>2. ASSUME NEW x \in s
        PROVE  s \ {x} \in G
    <3>1. Cardinality(s \ {x}) = Cardinality(s) - 1
      BY <2>1, FS_RemoveElement
    <3>2. Cardinality(s \ {x}) = n /\ s \ {x} \in SUBSET S
      BY <3>1
    <3> QED BY <1>2, <3>2
  <2> QED BY <2>2
<1> HIDE DEF Done
<1>3. Cardinality(S) \in Nat
  BY FS_CardinalityType
<1>4. \A n \in 0..Cardinality(S) : n \in Done
  BY <1>1, <1>2, <1>3, UpTo
<1>5. Cardinality(S) \in Done
  BY <1>3, <1>4
<1> QED BY <1>5 DEF Done

SatisfiesEach(f, t, face, data, S) ==
  /\ FoldSet(LAMBDA name, u : Satisfied(u, name, face, data), t, S) = f[S]
  /\ \A s \in SUBSET S :
       f[s] = IF s = {} THEN t
              ELSE Satisfied(f[s \ {CHOOSE x \in s : TRUE}], CHOOSE x \in s : TRUE, face, data)

LEMMA DataRecursion ==
  ASSUME NEW t, NEW face, NEW data, NEW S, IsFiniteSet(S)
  PROVE  \E f : SatisfiesEach(f, t, face, data, S)
<1> DEFINE Good(f) == f = [s \in SUBSET S |->
                            IF s = {} THEN t
                            ELSE Satisfied(f[s \ {CHOOSE x \in s : TRUE}], CHOOSE x \in s : TRUE, face, data)]
           f == CHOOSE f : Good(f)
           k == <<"data", face, data>>
<1>1. FoldSet(LAMBDA name, u : Satisfied(u, name, face, data), t, S) = f[S]
  BY DEF FoldSet, MapThenFoldSet
<1>2. \A s : NextOf(k, s) = CHOOSE x \in s : TRUE
  BY DEF NextOf
<1>3. \A s \in SUBSET S : s # {} => NextOf(k, s) \in s
  BY <1>2
<1>4. PICK g : RecursOnSets(g, k, t, S)
  BY <1>3, SetRecursion
<1>5. \A x, v : SetStep(k, x, v) = Satisfied(v, x, face, data)
  BY DEF SetStep
<1> HIDE DEF k
<1>6. g = [s \in SUBSET S |-> IF s = {} THEN t ELSE SetStep(k, NextOf(k, s), g[s \ {NextOf(k, s)}])]
  BY <1>4 DEF RecursOnSets
<1>7. \A s \in SUBSET S :
        SetStep(k, NextOf(k, s), g[s \ {NextOf(k, s)}])
          = Satisfied(g[s \ {CHOOSE x \in s : TRUE}], CHOOSE x \in s : TRUE, face, data)
  BY <1>2, <1>5
<1>8. Good(g)
  BY <1>6, <1>7
<1>9. Good(f)
  BY <1>8
<1>10. \A s \in SUBSET S :
        f[s] = IF s = {} THEN t
               ELSE Satisfied(f[s \ {CHOOSE x \in s : TRUE}], CHOOSE x \in s : TRUE, face, data)
  BY <1>9
<1> HIDE DEF f
<1> QED BY <1>1, <1>10 DEF SatisfiesEach

LEMMA ReceiveDataKeeps ==
  ASSUME TablesOK(tables), NEW data \in DataNames, NEW face, ReceiveData(data, face)
  PROVE  TablesOK(tables')
<1> DEFINE S == DataMatches(data)
<1>1. S \subseteq DOMAIN tables.pit /\ DOMAIN tables.pit \subseteq Names /\ data \in Names
  BY ConfigurationAssumption DEF DataMatches, TablesOK
<1>2. IsFiniteSet(S)
  BY <1>1, NamesAssumption, FS_Subset
<1>3. tables' = FoldSet(LAMBDA name, u : Satisfied(u, name, face, data), tables, S)
  BY DEF ReceiveData
<1> HIDE DEF S
<1>4. PICK f : SatisfiesEach(f, tables, face, data, S)
  BY <1>2, DataRecursion
<1> DEFINE G == {s \in SUBSET S : TablesOK(f[s]) /\ DOMAIN f[s].pit = DOMAIN tables.pit}
<1>5. {} \in G
  <2>1. f[{}] = tables
    BY <1>4 DEF SatisfiesEach
  <2> QED BY <2>1
<1>6. ASSUME NEW s \in SUBSET S, \A x \in s : s \ {x} \in G
      PROVE  s \in G
  <2>1. CASE s = {}
    BY <1>5, <2>1
  <2>2. CASE s # {}
    <3> DEFINE x == CHOOSE x \in s : TRUE
    <3>1. x \in s /\ f[s] = Satisfied(f[s \ {x}], x, face, data)
      BY <1>4, <2>2 DEF SatisfiesEach
    <3> HIDE DEF x
    <3>2. TablesOK(f[s \ {x}]) /\ DOMAIN f[s \ {x}].pit = DOMAIN tables.pit
      BY <1>6, <3>1
    <3> QED BY <1>1, <3>1, <3>2, SatisfiedKeeps
  <2> QED BY <2>1, <2>2
<1> HIDE DEF G
<1>7. S \in G
  BY <1>2, <1>5, <1>6, SetsUpTo
<1> QED BY <1>3, <1>4, <1>7 DEF G, SatisfiesEach

InsertsEach(f, t, choices, S) ==
  /\ FoldSet(LAMBDA p, chosen : InsertChoice(chosen, p, choices[p]), t, S) = f[S]
  /\ \A s \in SUBSET S :
       f[s] = IF s = {} THEN t
              ELSE InsertChoice(f[s \ {CHOOSE x \in s : TRUE}], CHOOSE x \in s : TRUE,
                                choices[CHOOSE x \in s : TRUE])

LEMMA ChoicesRecursion ==
  ASSUME NEW t, NEW choices, NEW S, IsFiniteSet(S)
  PROVE  \E f : InsertsEach(f, t, choices, S)
<1> DEFINE Good(f) == f = [s \in SUBSET S |->
                            IF s = {} THEN t
                            ELSE InsertChoice(f[s \ {CHOOSE x \in s : TRUE}], CHOOSE x \in s : TRUE,
                                              choices[CHOOSE x \in s : TRUE])]
           f == CHOOSE f : Good(f)
           k == <<"choices", choices>>
<1>1. FoldSet(LAMBDA p, chosen : InsertChoice(chosen, p, choices[p]), t, S) = f[S]
  BY DEF FoldSet, MapThenFoldSet
<1>2. \A s : NextOf(k, s) = CHOOSE x \in s : TRUE
  BY DEF NextOf
<1>3. \A s \in SUBSET S : s # {} => NextOf(k, s) \in s
  BY <1>2
<1>4. PICK g : RecursOnSets(g, k, t, S)
  BY <1>3, SetRecursion
<1>5. \A x, v : SetStep(k, x, v) = InsertChoice(v, x, choices[x])
  BY DEF SetStep
<1>6. Good(g)
  BY <1>2, <1>4, <1>5, ZenonT(60) DEF RecursOnSets
<1>7. Good(f)
  BY <1>6
<1>8. \A s \in SUBSET S :
        f[s] = IF s = {} THEN t
               ELSE InsertChoice(f[s \ {CHOOSE x \in s : TRUE}], CHOOSE x \in s : TRUE,
                                 choices[CHOOSE x \in s : TRUE])
  BY <1>7
<1> HIDE DEF f
<1> QED BY <1>1, <1>8 DEF InsertsEach

LEMMA StrategyChoiceSectionKeeps ==
  ASSUME NEW t, TablesOK(t), NEW choices \in InitialChoices
  PROVE  TablesOK(StrategyChoiceSection(t, choices))
<1> DEFINE S == DOMAIN choices
<1>1. S \subseteq Names /\ \A p \in S : choices[p] \in Strategies
  BY ConfigurationAssumption, NamesAssumption
<1>2. IsFiniteSet(S)
  BY <1>1, NamesAssumption, FS_Subset
<1>3. StrategyChoiceSection(t, choices) = FoldSet(LAMBDA p, chosen : InsertChoice(chosen, p, choices[p]), t, S)
  BY DEF StrategyChoiceSection
<1> HIDE DEF S
<1>4. PICK f : InsertsEach(f, t, choices, S)
  BY <1>2, ChoicesRecursion
<1> DEFINE G == {s \in SUBSET S : TablesOK(f[s])}
<1>5. {} \in G
  <2>1. f[{}] = t
    BY <1>4 DEF InsertsEach
  <2> QED BY <2>1
<1>6. ASSUME NEW s \in SUBSET S, \A x \in s : s \ {x} \in G
      PROVE  s \in G
  <2>1. CASE s = {}
    BY <1>5, <2>1
  <2>2. CASE s # {}
    <3> DEFINE x == CHOOSE x \in s : TRUE
    <3>1. x \in s /\ f[s] = InsertChoice(f[s \ {x}], x, choices[x])
      BY <1>4, <2>2 DEF InsertsEach
    <3> HIDE DEF x
    <3>2. TablesOK(f[s \ {x}])
      BY <1>6, <3>1
    <3> QED BY <1>1, <3>1, <3>2, InsertChoiceKeeps
  <2> QED BY <2>1, <2>2
<1> HIDE DEF G
<1>7. S \in G
  BY <1>2, <1>5, <1>6, SetsUpTo
<1> QED BY <1>3, <1>4, <1>7 DEF G, InsertsEach

AddsEach(f, t, S) ==
  /\ FoldSet(LAMBDA route, u : AddNextHop(u, route[1], route[2]), t, S) = f[S]
  /\ \A s \in SUBSET S :
       f[s] = IF s = {} THEN t
              ELSE AddNextHop(f[s \ {CHOOSE x \in s : TRUE}], (CHOOSE x \in s : TRUE)[1],
                              (CHOOSE x \in s : TRUE)[2])

LEMMA RoutesRecursion ==
  ASSUME NEW t, NEW S, IsFiniteSet(S)
  PROVE  \E f : AddsEach(f, t, S)
<1> DEFINE Good(f) == f = [s \in SUBSET S |->
                            IF s = {} THEN t
                            ELSE AddNextHop(f[s \ {CHOOSE x \in s : TRUE}], (CHOOSE x \in s : TRUE)[1],
                                            (CHOOSE x \in s : TRUE)[2])]
           f == CHOOSE f : Good(f)
           k == <<"routes">>
<1>1. FoldSet(LAMBDA route, u : AddNextHop(u, route[1], route[2]), t, S) = f[S]
  BY DEF FoldSet, MapThenFoldSet
<1>2. \A s : NextOf(k, s) = CHOOSE x \in s : TRUE
  BY DEF NextOf
<1>3. \A s \in SUBSET S : s # {} => NextOf(k, s) \in s
  BY <1>2
<1>4. PICK g : RecursOnSets(g, k, t, S)
  BY <1>3, SetRecursion
<1>5. \A x, v : SetStep(k, x, v) = AddNextHop(v, x[1], x[2])
  BY DEF SetStep
<1>6. Good(g)
  BY <1>2, <1>4, <1>5, ZenonT(60) DEF RecursOnSets
<1>7. Good(f)
  BY <1>6
<1>8. \A s \in SUBSET S :
        f[s] = IF s = {} THEN t
               ELSE AddNextHop(f[s \ {CHOOSE x \in s : TRUE}], (CHOOSE x \in s : TRUE)[1],
                               (CHOOSE x \in s : TRUE)[2])
  BY <1>7
<1> HIDE DEF f
<1> QED BY <1>1, <1>8 DEF AddsEach

LEMMA RoutesKeep ==
  ASSUME NEW t, TablesOK(t), NEW S \in InitialRoutes
  PROVE  TablesOK(FoldSet(LAMBDA route, u : AddNextHop(u, route[1], route[2]), t, S))
<1>1. IsFiniteSet(S) /\ \A x \in S : x[1] \in Names
  BY ConfigurationAssumption
<1>2. PICK f : AddsEach(f, t, S)
  BY <1>1, RoutesRecursion
<1> DEFINE G == {s \in SUBSET S : TablesOK(f[s])}
<1>3. {} \in G
  <2>1. f[{}] = t
    BY <1>2 DEF AddsEach
  <2> QED BY <2>1
<1>4. ASSUME NEW s \in SUBSET S, \A x \in s : s \ {x} \in G
      PROVE  s \in G
  <2>1. CASE s = {}
    BY <1>3, <2>1
  <2>2. CASE s # {}
    <3> DEFINE x == CHOOSE x \in s : TRUE
    <3>1. x \in s /\ f[s] = AddNextHop(f[s \ {x}], x[1], x[2])
      BY <1>2, <2>2 DEF AddsEach
    <3> HIDE DEF x
    <3>2. TablesOK(f[s \ {x}])
      BY <1>4, <3>1
    <3> QED BY <1>1, <3>1, <3>2, AddNextHopKeeps
  <2> QED BY <2>1, <2>2
<1> HIDE DEF G
<1>5. S \in G
  BY <1>1, <1>3, <1>4, SetsUpTo
<1> QED BY <1>2, <1>5 DEF G, AddsEach


-----------------------------------------------------------------------------
(* The steps, and the theorems.                                             *)

LEMMA ReceiveNackKeeps ==
  ASSUME TablesOK(tables), NEW name, NEW face, ReceiveNack(name, face)
  PROVE  TablesOK(tables')
<1> DEFINE t == tables
           u == [t EXCEPT !.pit[name].nacked = @ \cup {face}]
<1>1. DOMAIN t = Fields /\ name \in DOMAIN t.pit /\ EntryOK(t.choice, t.faces, name, t.pit[name])
  BY DEF ReceiveNack, TablesOK
<1>2. tables' = u \/ tables' = OnTimeout(u, name, face)
  BY DEF ReceiveNack
<1>3. /\ DOMAIN u = Fields /\ u.ht = t.ht /\ u.choice = t.choice /\ u.fib = t.fib
      /\ u.measured = t.measured /\ u.faces = t.faces /\ DOMAIN u.pit = DOMAIN t.pit
      /\ \A p \in DOMAIN t.pit : p # name => u.pit[p] = t.pit[p]
  BY <1>1 DEF Fields
<1>4. /\ DOMAIN u.pit[name] = DOMAIN t.pit[name] /\ u.pit[name].info = t.pit[name].info
      /\ u.pit[name].ins = t.pit[name].ins
  BY <1>1 DEF Fields, EntryOK
<1> HIDE DEF u
<1>5. EntryOK(t.choice, t.faces, name, u.pit[name])
  BY <1>1, <1>4 DEF EntryOK
<1>6. TablesOK(u)
  BY <1>3, <1>5, EntryChanges
<1> QED BY <1>2, <1>6, OnTimeoutKeeps

LEMMA OutRecordsExpireKeeps ==
  ASSUME TablesOK(tables), NEW name, OutRecordsExpire(name)
  PROVE  TablesOK(tables')
<1> DEFINE t == tables
           u == [t EXCEPT !.pit[name].live = {}]
<1>1. DOMAIN t = Fields /\ name \in DOMAIN t.pit /\ EntryOK(t.choice, t.faces, name, t.pit[name])
  BY DEF OutRecordsExpire, TablesOK
<1>2. tables' = u
  BY DEF OutRecordsExpire
<1>3. /\ DOMAIN u = Fields /\ u.ht = t.ht /\ u.choice = t.choice /\ u.fib = t.fib
      /\ u.measured = t.measured /\ u.faces = t.faces /\ DOMAIN u.pit = DOMAIN t.pit
      /\ \A p \in DOMAIN t.pit : p # name => u.pit[p] = t.pit[p]
  BY <1>1 DEF Fields
<1>4. /\ DOMAIN u.pit[name] = DOMAIN t.pit[name] /\ u.pit[name].info = t.pit[name].info
      /\ u.pit[name].ins = t.pit[name].ins
  BY <1>1 DEF Fields, EntryOK
<1> HIDE DEF u
<1>5. EntryOK(t.choice, t.faces, name, u.pit[name])
  BY <1>1, <1>4 DEF EntryOK
<1> QED BY <1>2, <1>3, <1>5, EntryChanges

LEMMA ProbeTimeoutKeeps ==
  ASSUME TablesOK(tables), NEW prefix, ProbeTimeout(prefix)
  PROVE  TablesOK(tables')
<1> DEFINE u == [tables EXCEPT !.probes = @ \ {prefix}]
<1>1. tables' = ProbeFallsDue(u, prefix)
  BY DEF ProbeTimeout
<1>2. DOMAIN tables = Fields
  BY DEF TablesOK
<1>3. /\ DOMAIN u = Fields /\ u.ht = tables.ht /\ u.choice = tables.choice /\ u.fib = tables.fib
      /\ u.measured = tables.measured /\ u.faces = tables.faces /\ u.pit = tables.pit
  BY <1>2 DEF Fields
<1> HIDE DEF u
<1>4. TablesOK(u)
  BY <1>3, NothingElse
<1> QED BY <1>1, <1>4, ProbeFallsDueKeeps

\* The timers of the strategies, and of the Measurements table
LEMMA TimersKeep ==
  ASSUME TablesOK(tables)
  PROVE  /\ \A name : EntryExpires(name) => TablesOK(tables')
         /\ \A name : RtoTimeout(name) => TablesOK(tables')
         /\ \A name \in Names : PropagateTimeout(name) => TablesOK(tables')
         /\ \A name \in Names : BestFaceTimeout(name) => TablesOK(tables')
         /\ \A name \in Names : LostPropagateTimeout(name) => TablesOK(tables')
         /\ \A at, face : AsfTimeout(at, face) => TablesOK(tables')
         /\ \A at, face : FaceInfoExpires(at, face) => TablesOK(tables')
         /\ \A name : MeasurementExpires(name) => TablesOK(tables')
<1>1. ASSUME NEW name, EntryExpires(name)
      PROVE  TablesOK(tables')
  BY <1>1, ErasePitKeeps DEF EntryExpires
<1>2. ASSUME NEW name, RtoTimeout(name)
      PROVE  TablesOK(tables')
  BY <1>2, AfterRtoTimeoutKeeps DEF RtoTimeout
<1>3. ASSUME NEW name \in Names, PropagateTimeout(name)
      PROVE  TablesOK(tables')
  BY <1>3, PropagateTimerExpiresKeeps DEF PropagateTimeout
<1>4. ASSUME NEW name \in Names, BestFaceTimeout(name)
      PROVE  TablesOK(tables')
  BY <1>4, TimeoutOnBestFaceKeeps DEF BestFaceTimeout
<1>5. ASSUME NEW name \in Names, LostPropagateTimeout(name)
      PROVE  TablesOK(tables')
  BY <1>5, LostTimerExpiresKeeps DEF LostPropagateTimeout
<1>6. ASSUME NEW at, NEW face, AsfTimeout(at, face)
      PROVE  TablesOK(tables')
  BY <1>6, TimeoutExpiresKeeps DEF AsfTimeout, KnowsFace
<1>7. ASSUME NEW at, NEW face, FaceInfoExpires(at, face)
      PROVE  TablesOK(tables')
  BY <1>7, ExpireFaceInfoKeeps DEF FaceInfoExpires, KnowsFace
<1>8. ASSUME NEW name, MeasurementExpires(name)
      PROVE  TablesOK(tables')
  BY <1>8, CleanupMeasuredKeeps DEF MeasurementExpires
<1> QED BY <1>1, <1>2, <1>3, <1>4, <1>5, <1>6, <1>7, <1>8

\* The commands of the managers, and the loss of a face
LEMMA CommandsKeep ==
  ASSUME TablesOK(tables)
  PROVE  /\ \A prefix \in ChoicePrefixes, strategy \in Strategies :
              SetStrategy(prefix, strategy) => TablesOK(tables')
         /\ \A prefix \in ChoicePrefixes : UnsetStrategy(prefix) => TablesOK(tables')
         /\ \A prefix \in RoutePrefixes : \A face : AddRoute(prefix, face) => TablesOK(tables')
         /\ \A prefix \in RoutePrefixes : \A face : RemoveRoute(prefix, face) => TablesOK(tables')
         /\ \A face \in AllFaces : RemoveFace(face) => TablesOK(tables')
<1>1. RoutePrefixes \subseteq Names /\ ChoicePrefixes \subseteq Names
  BY ConfigurationAssumption
<1>2. ASSUME NEW prefix \in ChoicePrefixes, NEW strategy \in Strategies, SetStrategy(prefix, strategy)
      PROVE  TablesOK(tables')
  BY <1>1, <1>2, InsertChoiceKeeps DEF SetStrategy
<1>3. ASSUME NEW prefix \in ChoicePrefixes, UnsetStrategy(prefix)
      PROVE  TablesOK(tables')
  BY <1>3, EraseChoiceKeeps DEF UnsetStrategy
<1>4. ASSUME NEW prefix \in RoutePrefixes, NEW face, AddRoute(prefix, face)
      PROVE  TablesOK(tables')
  BY <1>1, <1>4, AddNextHopKeeps DEF AddRoute
<1>5. ASSUME NEW prefix \in RoutePrefixes, NEW face, RemoveRoute(prefix, face)
      PROVE  TablesOK(tables')
  BY <1>5, RemoveNextHopKeeps DEF RemoveRoute
<1>6. ASSUME NEW face \in AllFaces, RemoveFace(face)
      PROVE  TablesOK(tables')
  BY <1>6, CleanupOnFaceRemovalKeeps DEF RemoveFace
<1> QED BY <1>2, <1>3, <1>4, <1>5, <1>6

\* The tables with the root entry of the Strategy Choice table, before they are configured
LEMMA RootIsOK ==
  ASSUME NEW t, NEW strategy \in Strategies, DOMAIN t = Fields,
         t.ht = Lookup(EmptyTable, <<>>), t.choice = Put(NoInfo, <<>>, strategy),
         t.fib = NoInfo, t.measured = NoInfo, t.pit = NoInfo
  PROVE  TablesOK(t)
<1>1. MinBuckets \in Nat \ {0} /\ <<>> \in Names
  BY HashtableAssumption, NamesAssumption
<1>2. /\ DOMAIN EmptyTable = 0..(MinBuckets - 1)
      /\ \A i \in DOMAIN EmptyTable : EmptyTable[i] = {}
  BY DEF EmptyTable
<1>3. TableOK(EmptyTable)
  BY <1>1, <1>2 DEF TableOK
<1>4. Nodes(EmptyTable) = {}
  BY <1>2, NodesAre
<1>5. TreeOK(EmptyTable, {})
  BY <1>3, <1>4, TreeFacts DEF HasParents
<1>6. TreeOK(t.ht, {<<>>})
  <2>1. TreeOK(Lookup(EmptyTable, <<>>), {} \cup {<<>>})
    BY <1>1, <1>5, EnterKeepsTree
  <2> QED BY <2>1
<1>7. DOMAIN NoInfo = {}
  BY DEF NoInfo
<1>8. DOMAIN t.choice = {<<>>} /\ t.choice[<<>>] = strategy
  <2>1. DOMAIN t.choice = DOMAIN NoInfo \cup {<<>>}
    BY DEF Put
  <2>2. t.choice[<<>>] = strategy
    BY PutAt
  <2> QED BY <1>7, <2>1, <2>2
<1>9. Used(t) = {<<>>}
  BY <1>7, <1>8 DEF Used
<1>10. ChoiceOK(t.choice)
  BY <1>1, <1>8 DEF ChoiceOK
<1> QED BY <1>6, <1>7, <1>9, <1>10 DEF TablesOK

LEMMA InitIsOK == Init => TablesOK(tables)
<1> SUFFICES ASSUME Init PROVE TablesOK(tables)
  OBVIOUS
<1> DEFINE Rooted(choice) ==
             [ht |-> Lookup(EmptyTable, <<>>), choice |-> Put(NoInfo, <<>>, choice[<<>>]),
              fib |-> NoInfo, measured |-> NoInfo, pit |-> NoInfo,
              faces |-> AllFaces, probes |-> {}, fault |-> "none"]
<1>1. PICK choice \in InitialChoices, routes \in InitialRoutes :
        tables = FoldSet(LAMBDA route, t : AddNextHop(t, route[1], route[2]),
                         StrategyChoiceSection(Rooted(choice), choice), routes)
  BY DEF Init
<1> DEFINE rooted == Rooted(choice)
<1>2. choice[<<>>] \in Strategies
  BY ConfigurationAssumption
<1>3. /\ DOMAIN rooted = Fields
      /\ rooted.ht = Lookup(EmptyTable, <<>>) /\ rooted.choice = Put(NoInfo, <<>>, choice[<<>>])
      /\ rooted.fib = NoInfo /\ rooted.measured = NoInfo /\ rooted.pit = NoInfo
  BY DEF Fields
<1> HIDE DEF rooted
<1>4. TablesOK(rooted)
  BY <1>2, <1>3, RootIsOK
<1>5. TablesOK(StrategyChoiceSection(rooted, choice))
  BY <1>4, StrategyChoiceSectionKeeps
<1> QED BY <1>1, <1>5, RoutesKeep DEF rooted

LEMMA StepKeeps == TablesOK(tables) /\ [Next]_vars => TablesOK(tables')
<1> SUFFICES ASSUME TablesOK(tables), [Next]_vars
             PROVE  TablesOK(tables')
  OBVIOUS
<1>1. PitNames \subseteq Names
  BY ConfigurationAssumption
<1>2. CASE \E name \in PitNames, face \in Downstreams : ReceiveInterest(name, face)
  BY <1>2, ReceiveInterestKeeps
<1>3. CASE \E data \in DataNames, face \in Upstreams : ReceiveData(data, face)
  BY <1>3, ReceiveDataKeeps
<1>4. CASE \E name \in PitNames, face \in Upstreams : ReceiveNack(name, face)
  BY <1>4, ReceiveNackKeeps
<1>5. CASE \E name \in PitNames : OutRecordsExpire(name)
  BY <1>5, OutRecordsExpireKeeps
<1>6. CASE \E name \in PitNames :
             \/ EntryExpires(name) \/ RtoTimeout(name) \/ PropagateTimeout(name)
             \/ BestFaceTimeout(name) \/ LostPropagateTimeout(name)
  BY <1>1, <1>6, TimersKeep
<1>7. CASE \/ \E at \in Names, face \in Upstreams : AsfTimeout(at, face) \/ FaceInfoExpires(at, face)
           \/ \E name \in Names : MeasurementExpires(name)
  BY <1>7, TimersKeep
<1>8. CASE \E prefix \in RoutePrefixes : ProbeTimeout(prefix)
  BY <1>8, ProbeTimeoutKeeps
<1>9. CASE \/ \E prefix \in ChoicePrefixes, strategy \in Strategies : SetStrategy(prefix, strategy)
           \/ \E prefix \in ChoicePrefixes : UnsetStrategy(prefix)
           \/ \E prefix \in RoutePrefixes, face \in Upstreams :
                AddRoute(prefix, face) \/ RemoveRoute(prefix, face)
           \/ \E face \in AllFaces : RemoveFace(face)
  BY <1>9, CommandsKeep
<1>10. CASE UNCHANGED vars
  BY <1>10 DEF vars
<1> QED BY <1>2, <1>3, <1>4, <1>5, <1>6, <1>7, <1>8, <1>9, <1>10 DEF Next

\* The inductive invariant: between two events, and between the steps of a handler, the name
\* tree holds what the tables need and no more, and the items of the strategies are where the
\* choice in effect says (table/name-tree, table/strategy-choice, table/measurements).
THEOREM TablesAreOK == Spec => []TablesOK(tables)
<1>1. Init => TablesOK(tables)
  BY InitIsOK
<1>2. TablesOK(tables) /\ [Next]_vars => TablesOK(tables)'
  BY StepKeeps
<1> QED BY <1>1, <1>2, PTL DEF Spec

\* NameTreeIsSound, for every set of names, every hash function and every load factor: a
\* node is found where it is looked for, its parent is there, and it stays no longer than
\* an entry or a child needs it (NameTree::lookup, eraseIfEmpty, Hashtable::resize).
THEOREM TreeIsSound == Spec => []NameTreeIsSound
<1>1. TablesOK(tables) => NameTreeIsSound
  BY DEF TablesOK, TreeOK, NameTreeIsSound
<1> QED BY <1>1, TablesAreOK, PTL

LEMMA ItemsAreOfStrategy == TablesOK(tables) => InfoIsOfStrategyInEffect
<1> SUFFICES ASSUME TablesOK(tables) PROVE InfoIsOfStrategyInEffect
  OBVIOUS
<1>1. \A name : EffectiveStrategy(tables, name) = EffectiveBy(tables.choice, name)
  BY DEF EffectiveStrategy, EffectiveBy
<1>2. ASSUME NEW n \in DOMAIN tables.measured
      PROVE  DOMAIN tables.measured[n] \subseteq {EffectiveStrategy(tables, n)}
  BY <1>1 DEF TablesOK, ItemsOK
<1>3. ASSUME NEW p \in DOMAIN tables.pit, AttachedTo(p) = p
      PROVE  DOMAIN tables.pit[p].info \subseteq {EffectiveStrategy(tables, p)}
  BY <1>1, <1>3 DEF TablesOK, EntryOK
<1> QED BY <1>2, <1>3 DEF InfoIsOfStrategyInEffect

\* InfoIsOfStrategyInEffect: whatever is chosen, unset, forwarded or removed, a strategy
\* meets no item of another one (StrategyChoice::changeStrategy).
THEOREM StrategiesMeetTheirOwnItems == Spec => []InfoIsOfStrategyInEffect
BY TablesAreOK, ItemsAreOfStrategy, PTL

LEMMA PendingTimerWaits == TablesOK(tables) => RtoTimerHasDownstream
<1> SUFFICES ASSUME TablesOK(tables),
                    NEW p \in DOMAIN tables.pit, AttachedTo(p) = p, RtoIsPending(tables, p),
                    tables.faces = AllFaces
             PROVE  tables.pit[p].ins # {}
  BY DEF RtoTimerHasDownstream
<1>1. EntryOK(tables.choice, tables.faces, p, tables.pit[p])
  BY DEF TablesOK
<1>2. TimerPending(tables.pit[p].info)
  BY DEF TimerPending, RtoIsPending, PitInfo
<1> QED BY <1>1, <1>2 DEF EntryOK

\* RtoTimerHasDownstream: the RTO timer of the access strategy waits only while a
\* downstream does (AccessStrategy::beforeSatisfyInterest cancels it before Data is sent).
THEOREM RtoTimerWaitsForSomebody == Spec => []RtoTimerHasDownstream
BY TablesAreOK, PendingTimerWaits, PTL

LEMMA TimeoutsAreKnown == TablesOK(tables) => ScheduledTimeoutIsKnown
<1> SUFFICES ASSUME TablesOK(tables),
                    NEW n \in DOMAIN tables.measured, HasInfo(tables, "asf", n),
                    NEW face \in DOMAIN Faces(tables, n), Faces(tables, n)[face].timer # None
             PROVE  Faces(tables, n)[face].last = Faces(tables, n)[face].timer
  BY DEF ScheduledTimeoutIsKnown
<1>1. NamespaceOK(tables.measured[n]["asf"])
  BY DEF TablesOK, ItemsOK, HasInfo
<1>2. Faces(tables, n) = tables.measured[n]["asf"].faces
  BY DEF Faces, Namespace
<1> QED BY <1>1, <1>2 DEF NamespaceOK, FaceInfoOK

\* ScheduledTimeoutIsKnown: the item that is marked is the one the event will reach, for
\* every number of faces and namespaces (FaceInfo::setTimeoutEvent, cancelTimeoutEvent).
THEOREM TimeoutReachesItsItem == Spec => []ScheduledTimeoutIsKnown
BY TablesAreOK, TimeoutsAreKnown, PTL

=============================================================================
