--------------------------- MODULE LinkServiceProofs ---------------------------
(***************************************************************************)
(* The fragmenter cuts every packet right, whatever the sizes of the       *)
(* packet, of its headers and of the MTU are, and the link service hands   *)
(* up what was sent, whatever the medium does.                             *)
(***************************************************************************)
EXTENDS LinkService, FiniteSetTheorems, TLAPS

LEMMA DivMod ==
  ASSUME NEW a \in Int, NEW p \in Nat, p > 0
  PROVE  /\ a \div p \in Int
         /\ a >= 0 => a \div p >= 0
         /\ a % p \in 0 .. p - 1
         /\ a = p * (a \div p) + (a % p)
  OBVIOUS

\* The place where a fragment begins grows with its index.
LEMMA Monotone ==
  ASSUME NEW i \in Nat, NEW j \in Nat, NEW p \in Nat, i <= j
  PROVE  i * p <= j * p /\ i * p \in Nat /\ j * p \in Nat
  OBVIOUS

LEMMA Distributes ==
  ASSUME NEW i \in Nat, NEW p \in Nat
  PROVE  (i + 1) * p = i * p + p /\ p * i = i * p
  OBVIOUS

\* Each fragment of a packet that is fragmented holds a part of the packet, fits the MTU
\* with its headers, and the last one ends where the packet ends, for all sizes
\* (LpFragmenter::fragmentPacket, face/lp-fragmenter.cpp:113-140).
THEOREM FragmentsAlwaysRight ==
  ASSUME NEW size \in Nat \ {0}, NEW header \in Nat, NEW mtu \in Nat,
         ~Fits(size, header, mtu), CanFragment(size, header, mtu)
  PROVE  FragmentsAreRight(size, header, mtu)
<1> DEFINE F == FirstPayload(size, header, mtu)
           P == Payload(mtu)
           rest == size - F
           q == rest \div P
           r == rest % P
           n == FragCount(size, header, mtu)
           Begin(i) == FragBegin(i, size, header, mtu)
           End(i) == FragEnd(i, size, header, mtu)
<1>1. /\ FragOverhead \in Nat /\ P \in Nat /\ P > 0
      /\ F \in Nat /\ F > 0 /\ F <= size /\ F + header + FragOverhead <= mtu
      /\ rest \in Nat /\ F + rest = size
      /\ P + FragOverhead = mtu /\ FragOverhead + 1 + header <= mtu
  BY FragmenterAssumption DEF CanFragment, TooSmall, FirstPayload, Payload, Lesser
<1>2. q \in Nat /\ r \in 0 .. P - 1 /\ rest = q * P + r /\ q * P \in Nat
  <2>1. q \in Nat /\ r \in 0 .. P - 1 /\ rest = P * q + r
    <3> HIDE DEF F, P, rest
    <3>1. rest \in Int /\ rest >= 0
      BY <1>1
    <3>2. /\ q \in Int /\ (rest >= 0 => q >= 0)
          /\ r \in 0 .. P - 1 /\ rest = P * q + r
      BY <1>1, <3>1, DivMod
    <3> HIDE DEF q, r
    <3> QED BY <3>1, <3>2
  <2> HIDE DEF F, P, rest, q, r
  <2>2. P * q = q * P /\ q * P \in Nat
    BY <1>1, <2>1, Distributes, Monotone
  <2> QED
    BY <2>1, <2>2
<1>3. /\ r # 0 => n = q + 2
      /\ r = 0 => n = q + 1
  <2>1. n = 1 + q + (IF r # 0 THEN 1 ELSE 0)
    BY DEF FragCount
  <2> QED
    BY <2>1, <1>2
<1>4. n \in Nat /\ n >= 1
  BY <1>2, <1>3
<1>5. ASSUME NEW i \in Nat
      PROVE  /\ Begin(0) = 0
             /\ Begin(i + 1) = F + i * P /\ i * P \in Nat
  BY <1>1, Monotone DEF FragBegin
<1> HIDE DEF F, P, rest, q, r, n
<1>6. End(n - 1) = size
  <2>1. Begin(n) >= size
    <3>1. CASE r # 0
      <4>1. n = (q + 1) + 1 /\ q + 1 \in Nat
        BY <3>1, <1>2, <1>3
      <4>2. Begin(n) = F + (q + 1) * P
        BY <4>1, <1>5
      <4>3. (q + 1) * P = q * P + P /\ q * P \in Nat
        BY <1>1, <1>2, Distributes, Monotone
      <4> QED
        BY <4>2, <4>3, <1>1, <1>2
    <3>2. CASE r = 0
      <4>1. Begin(n) = F + q * P /\ q * P \in Nat
        BY <3>2, <1>2, <1>3, <1>5
      <4> QED
        BY <4>1, <3>2, <1>1, <1>2
    <3> QED
      BY <3>1, <3>2
  <2> QED
    BY <2>1, <1>4, <1>5, <1>1 DEF FragEnd, Lesser
<1>7. ASSUME NEW i \in 0 .. n - 1
      PROVE  /\ End(i) - Begin(i) > 0
             /\ FragOverhead + (End(i) - Begin(i)) + (IF i = 0 THEN header ELSE 0) <= mtu
  <2>1. CASE i = 0
    <3>1. Begin(1) = F
      BY <1>1, <1>5 DEF FragBegin
    <3>2. Begin(0) = 0 /\ End(0) = F
      BY <3>1, <1>1 DEF FragEnd, FragBegin, Lesser
    <3> QED
      BY <2>1, <3>2, <1>1
  <2>2. CASE i > 0
    <3>0. PICK j \in Nat : i = j + 1
      <4>1. i - 1 \in Nat /\ i = (i - 1) + 1
        BY <2>2, <1>4
      <4> QED
        BY <4>1
    <3>1. j \in Nat /\ i = j + 1 /\ j <= n - 2
      BY <3>0, <1>4
    <3>2. Begin(i) = F + j * P /\ j * P \in Nat
      BY <3>1, <1>5
    <3>3. Begin(i + 1) = F + (j + 1) * P /\ (j + 1) * P = j * P + P
      BY <3>1, <1>1, <1>5, Distributes
    <3>4. j * P < rest
      <4>1. CASE r # 0
        <5>1. j <= q
          BY <4>1, <3>1, <1>2, <1>3
        <5>2. j * P <= q * P /\ q * P \in Nat
          BY <5>1, <3>1, <1>1, <1>2, Monotone
        <5> QED
          BY <5>2, <4>1, <3>2, <1>1, <1>2
      <4>2. CASE r = 0
        <5>1. j + 1 <= q
          BY <4>2, <3>1, <1>2, <1>3
        <5>2. (j + 1) * P <= q * P /\ q * P \in Nat
          BY <5>1, <3>1, <1>1, <1>2, Monotone
        <5> QED
          BY <5>2, <4>2, <3>2, <3>3, <1>1, <1>2
      <4> QED
        BY <4>1, <4>2
    <3>5. End(i) = IF size < F + (j + 1) * P THEN size ELSE F + (j + 1) * P
      BY <3>3 DEF FragEnd, Lesser
    <3> QED
      BY <2>2, <3>2, <3>3, <3>4, <3>5, <1>1
  <2> QED
    BY <2>1, <2>2, <1>4
<1> QED
  BY <1>4, <1>6, <1>7 DEF FragmentsAreRight, n

\* There are finitely many of them, and each begins somewhere.
LEMMA CountIsNatural ==
  ASSUME NEW size \in Nat \ {0}, NEW header \in Nat, NEW mtu \in Nat, ~TooSmall(header, mtu)
  PROVE  FragCount(size, header, mtu) \in Nat
<1> DEFINE F == FirstPayload(size, header, mtu)
           P == Payload(mtu)
           rest == size - F
<1>1. P \in Nat /\ P > 0 /\ rest \in Int /\ rest >= 0
  BY FragmenterAssumption DEF TooSmall, FirstPayload, Payload, Lesser
<1> HIDE DEF F, P, rest
<1>2. rest \div P \in Int /\ (rest >= 0 => rest \div P >= 0)
  BY <1>1, DivMod
<1> DEFINE q == rest \div P
<1> HIDE DEF q
<1>3. q \in Nat
  BY <1>1, <1>2 DEF q
<1>4. FragCount(size, header, mtu) = 1 + q + (IF rest % P # 0 THEN 1 ELSE 0)
  BY DEF FragCount, q, rest, F, P
<1> QED BY <1>3, <1>4

LEMMA BeginIsInteger ==
  ASSUME NEW size \in Nat \ {0}, NEW header \in Nat, NEW mtu \in Nat, NEW i \in Nat
  PROVE  FragBegin(i, size, header, mtu) \in Int
<1> DEFINE j == i - 1
           P == Payload(mtu)
<1>1. j \in Int /\ P \in Int /\ FirstPayload(size, header, mtu) \in Int
  BY FragmenterAssumption DEF Payload, FirstPayload, Lesser
<1>2. FragBegin(i, size, header, mtu) = IF i = 0 THEN 0 ELSE FirstPayload(size, header, mtu) + j * P
  BY DEF FragBegin
<1> HIDE DEF j, P
<1>3. j * P \in Int
  BY <1>1
<1> QED BY <1>1, <1>2, <1>3

-----------------------------------------------------------------------------
(* Arithmetic of sequence numbers *)

LEMMA Multiple ==
  ASSUME NEW p \in Nat, NEW x \in Int, NEW d \in Int, p > 0, d = p * x, -p < d, d < p
  PROVE  d = 0
<1>1. CASE x >= 1
  <2>1. p * x >= p
    BY <1>1
  <2> QED BY <2>1
<1>2. CASE x <= -1
  <2>1. p * x <= -p
    BY <1>2
  <2> QED BY <2>1
<1>3. CASE x = 0
  BY <1>3
<1> QED BY <1>1, <1>2, <1>3

\* The remainder is the only one that a division may leave.
LEMMA ModUnique ==
  ASSUME NEW a \in Int, NEW p \in Nat, p > 0, NEW q \in Int, NEW r \in 0 .. p - 1, a = p * q + r
  PROVE  a % p = r
<1> DEFINE y == a \div p
           z == a % p
<1>1. y \in Int /\ z \in 0 .. p - 1 /\ a = p * y + z
  BY DivMod
<1> HIDE DEF y, z
<1>2. p * y \in Int /\ p * q \in Int /\ p * (y - q) = p * y - p * q
  BY <1>1
<1>3. r - z = p * (y - q)
  BY <1>1, <1>2
<1>4. r - z = 0
  <2> DEFINE d == r - z
             x == y - q
  <2>1. d \in Int /\ x \in Int /\ -p < d /\ d < p /\ d = p * x
    BY <1>1, <1>3
  <2> HIDE DEF d, x
  <2>2. d = 0
    BY <2>1, Multiple
  <2> QED BY <2>2 DEF d
<1> QED BY <1>1, <1>4 DEF z

\* What is added after the modulus was taken may as well be added before.
LEMMA ModAdd ==
  ASSUME NEW a \in Int, NEW b \in Int, NEW p \in Nat, p > 0
  PROVE  ((a % p) + b) % p = (a + b) % p
<1> DEFINE y == a \div p
           z == a % p
           u == (a + b) \div p
           v == (a + b) % p
<1>1. y \in Int /\ z \in 0 .. p - 1 /\ a = p * y + z
  BY DivMod
<1>2. u \in Int /\ v \in 0 .. p - 1 /\ a + b = p * u + v
  <2> DEFINE c == a + b
  <2>1. c \in Int
    OBVIOUS
  <2> HIDE DEF c
  <2>2. c \div p \in Int /\ c % p \in 0 .. p - 1 /\ c = p * (c \div p) + (c % p)
    BY <2>1, DivMod
  <2> QED BY <2>2 DEF c
<1> HIDE DEF y, z, u, v
<1>3. p * y \in Int /\ p * u \in Int /\ p * (u - y) = p * u - p * y
  BY <1>1, <1>2
<1>4. z + b = p * (u - y) + v
  BY <1>1, <1>2, <1>3
<1>5. (z + b) % p = v
  <2> DEFINE c == z + b
             x == u - y
  <2>1. c \in Int /\ x \in Int /\ c = p * x + v
    BY <1>1, <1>2, <1>4
  <2> HIDE DEF c, x
  <2>2. c % p = v
    BY <1>2, <2>1, ModUnique
  <2> QED BY <2>2 DEF c
<1> QED BY <1>5 DEF z, v

\* A number below the modulus is its own remainder.
LEMMA ModSmall ==
  ASSUME NEW p \in Nat, p > 0, NEW r \in 0 .. p - 1
  PROVE  r % p = r
<1>1. r = p * 0 + r
  OBVIOUS
<1> QED BY <1>1, ModUnique

\* A part of an interval that has as many members is all of it.
LEMMA Full ==
  ASSUME NEW n \in Nat, NEW S \in SUBSET (0 .. n - 1)
  PROVE  /\ IsFiniteSet(S) /\ Cardinality(S) \in 0 .. n
         /\ Cardinality(S) = n <=> S = 0 .. n - 1
         /\ Cardinality(S) = 0 <=> S = {}
<1>1. IsFiniteSet(0 .. n - 1) /\ Cardinality(0 .. n - 1) = n
  <2>1. IsFiniteSet(0 .. n - 1) /\ Cardinality(0 .. n - 1) = IF 0 > n - 1 THEN 0 ELSE n - 1 - 0 + 1
    BY FS_Interval
  <2> QED BY <2>1
<1>2. /\ IsFiniteSet(S) /\ Cardinality(S) <= Cardinality(0 .. n - 1)
      /\ Cardinality(0 .. n - 1) = Cardinality(S) => 0 .. n - 1 = S
  BY <1>1, FS_Subset
<1>3. Cardinality(S) \in Nat
  BY <1>2, FS_CardinalityType
<1>4. Cardinality(S) = 0 <=> S = {}
  BY <1>2, FS_EmptySet
<1> QED BY <1>1, <1>2, <1>3, <1>4

-----------------------------------------------------------------------------
(* The inductive invariant *)

NumberOf(m) == FragCount(SizeOf(m), HeaderOf(m), Mtu)

\* m is sent in several fragments.
IsCut(m) ==
  /\ options.fragmentation
  /\ ~Fits(SizeOf(m), HeaderOf(m), Mtu) /\ CanFragment(SizeOf(m), HeaderOf(m), Mtu)
  /\ NumberOf(m) > 1

\* How many sequence numbers sender s has given, and how many it had given before those of key k
Given(s) == (lastSeq[s] + 2) % SeqModulus
GivenBefore(k) == (k[2] + 1) % SeqModulus

\* The frames that may still have an effect: on the medium, or stored
InFlight ==
  medium \cup UNION {{partial[k].got[i] : i \in DOMAIN partial[k].got} : k \in DOMAIN partial}

FrameOK(f) ==
  LET m == f.msg IN
  /\ m \in Messages \ unsent /\ f.from = SenderOf(m)
  /\ IsWhole(f) <=> ~IsCut(m)
  /\ IF IsWhole(f) THEN f.begin = 0 /\ f.end = SizeOf(m)
     ELSE /\ f.count = NumberOf(m) /\ f.index \in 0 .. f.count - 1
          /\ f.begin = FragBegin(f.index, SizeOf(m), HeaderOf(m), Mtu)
          /\ f.end = FragEnd(f.index, SizeOf(m), HeaderOf(m), Mtu)
          /\ f.seq \in Int /\ GivenBefore(Key(f)) < Given(f.from)

FramesAreRight == \A f \in InFlight : FrameOK(f)

\* A key is that of one message only, and a message has one.
KeysAreRight ==
  \A f, g \in InFlight :
    ~IsWhole(f) /\ ~IsWhole(g) => (Key(f) = Key(g) <=> f.msg = g.msg)

\* Fragments that get to a partial packet
Reaches(f) == options.reassembly /\ f.count <= MaxReceived

PartialOK(k) ==
  LET pp == partial[k] IN
  /\ pp = [count |-> pp.count, got |-> pp.got, dropAt |-> pp.dropAt]
  /\ k \in DOMAIN lastNew /\ lastNew[k] \in Nat /\ pp.dropAt = lastNew[k] + ReassemblyTimeout
  /\ pp.count \in Nat
  /\ DOMAIN pp.got \subseteq 0 .. pp.count - 1
  /\ DOMAIN pp.got # {} /\ DOMAIN pp.got # 0 .. pp.count - 1
  /\ \A i \in DOMAIN pp.got :
        LET f == pp.got[i] IN
        ~IsWhole(f) /\ Key(f) = k /\ f.index = i /\ f.count = pp.count /\ Reaches(f)

PartialsAreRight == \A k \in DOMAIN partial : PartialOK(k)

\* Nothing more is owed to the message of f.
Settled(f) ==
  \/ Key(f) \in expired \/ ~Accepted(f)
  \/ \E frags \in received : frags[1].msg = f.msg

\* What arrived of a message is what is stored of it, unless it is settled.
ArrivedIsStored(f) ==
  \/ Settled(f)
  \/ Key(f) \in DOMAIN partial /\ arrived[f.msg] = DOMAIN partial[Key(f)].got
  \/ Key(f) \notin DOMAIN partial /\ arrived[f.msg] = {}

ArrivalsAreStored == \A f \in InFlight : ~IsWhole(f) /\ Reaches(f) => ArrivedIsStored(f)

NumbersAreLeft ==
  \A s \in Senders : Given(s) <= MaxSent * Cardinality(Messages \ unsent)

IInv ==
  /\ unsent \subseteq Messages
  /\ lastSeq \in [Senders -> 0 .. SeqModulus - 1]
  /\ repeats \in 0 .. MaxRepeats /\ now \in 0 .. MaxTime
  /\ arrived \in [Messages -> SUBSET Nat] /\ \A m \in unsent : arrived[m] = {}
  /\ FramesAreRight
  /\ KeysAreRight
  /\ PartialsAreRight
  /\ NumbersAreLeft
  /\ ArrivalsAreStored
  /\ ReceivedWasSent

-----------------------------------------------------------------------------
(* Fragments of a message *)

LEMMA MessageFacts ==
  ASSUME NEW m \in Messages
  PROVE  /\ SizeOf(m) \in Nat \ {0} /\ HeaderOf(m) \in Nat /\ Mtu \in Nat
         /\ SenderOf(m) \in Senders
  BY LinkAssumption

LEMMA CutFacts ==
  ASSUME NEW m \in Messages, IsCut(m)
  PROVE  /\ NumberOf(m) \in Nat /\ NumberOf(m) > 1 /\ NumberOf(m) <= MaxSent
         /\ FragmentsAreRight(SizeOf(m), HeaderOf(m), Mtu)
<1>1. FragmentsAreRight(SizeOf(m), HeaderOf(m), Mtu)
  BY MessageFacts, FragmentsAlwaysRight DEF IsCut
<1>2. NumberOf(m) \in Nat
  BY MessageFacts, CountIsNatural DEF IsCut, CanFragment, NumberOf
<1> QED BY <1>1, <1>2 DEF IsCut, CanFragment, NumberOf

\* A fragment ends where the next one begins.
LEMMA Consecutive ==
  ASSUME NEW m \in Messages, IsCut(m), NEW i \in 0 .. NumberOf(m) - 2
  PROVE  FragEnd(i, SizeOf(m), HeaderOf(m), Mtu) = FragBegin(i + 1, SizeOf(m), HeaderOf(m), Mtu)
<1> DEFINE size == SizeOf(m)
           Begin(j) == FragBegin(j, SizeOf(m), HeaderOf(m), Mtu)
           End(j) == FragEnd(j, SizeOf(m), HeaderOf(m), Mtu)
<1>1. size \in Nat /\ NumberOf(m) \in Nat
  BY MessageFacts, CutFacts
<1>2. /\ Begin(i + 1) \in Int /\ Begin(i + 2) \in Int
      /\ End(i) = Lesser(size, Begin(i + 1)) /\ End(i + 1) = Lesser(size, Begin(i + 2))
  <2>1. (i + 1) + 1 = i + 2
    BY <1>1
  <2>2. i + 1 \in Nat /\ i + 2 \in Nat
    BY <1>1
  <2> QED BY <2>1, <2>2, MessageFacts, BeginIsInteger DEF FragEnd
<1>3. End(i + 1) - Begin(i + 1) > 0
  <2>1. i + 1 \in 0 .. NumberOf(m) - 1
    BY <1>1
  <2> QED BY <2>1, CutFacts DEF FragmentsAreRight, NumberOf
<1> HIDE DEF size, Begin, End
<1>4. End(i) = Begin(i + 1)
  BY <1>1, <1>2, <1>3 DEF Lesser
<1> QED BY <1>4 DEF Begin, End

\* All the fragments of m, by their indices
AreFragments(got, m) ==
  /\ DOMAIN got = 0 .. NumberOf(m) - 1
  /\ \A i \in DOMAIN got :
        /\ got[i].msg = m
        /\ got[i].begin = FragBegin(i, SizeOf(m), HeaderOf(m), Mtu)
        /\ got[i].end = FragEnd(i, SizeOf(m), HeaderOf(m), Mtu)

\* What ReceivedWasSent says of a packet
IsMessage(frags) ==
  LET m == frags[1].msg IN
  /\ \A i \in 1 .. Len(frags) : frags[i].msg = m
  /\ frags[1].begin = 0 /\ frags[Len(frags)].end = SizeOf(m)
  /\ \A i \in 1 .. Len(frags) - 1 : frags[i].end = frags[i + 1].begin

\* The fragments of a complete partial packet are a message.
LEMMA Assembled ==
  ASSUME NEW m \in Messages, IsCut(m), NEW got, AreFragments(got, m),
         NEW frags, frags = [i \in 1 .. NumberOf(m) |-> got[i - 1]]
  PROVE  frags[1].msg = m /\ IsMessage(frags)
<1> DEFINE n == NumberOf(m)
<1>1. n \in Nat /\ n > 1 /\ n = NumberOf(m)
  BY CutFacts
<1>2. FragEnd(n - 1, SizeOf(m), HeaderOf(m), Mtu) = SizeOf(m)
  BY CutFacts DEF FragmentsAreRight, NumberOf
<1> HIDE DEF n
<1>3. /\ Len(frags) = n
      /\ \A i \in 1 .. n : /\ frags[i] = got[i - 1] /\ i - 1 \in DOMAIN got
                          /\ frags[i].msg = m
  BY <1>1 DEF AreFragments
<1>4. frags[1] = got[0] /\ 0 \in DOMAIN got /\ frags[n] = got[n - 1] /\ n - 1 \in DOMAIN got
  BY <1>1, <1>3
<1>5. frags[1].msg = m /\ frags[1].begin = 0 /\ frags[n].end = SizeOf(m)
  BY <1>2, <1>4 DEF FragBegin, AreFragments
<1>6. ASSUME NEW i \in 1 .. n - 1
      PROVE  frags[i].end = frags[i + 1].begin
  <2> DEFINE j == i - 1
  <2>1. j \in 0 .. n - 2 /\ j \in DOMAIN got /\ j + 1 \in DOMAIN got
    BY <1>1 DEF AreFragments
  <2>2. frags[i] = got[j] /\ frags[i + 1] = got[j + 1]
    <3>1. i + 1 \in 1 .. n /\ (i + 1) - 1 = j + 1 /\ i \in 1 .. n
      BY <1>1
    <3> QED BY <3>1, <1>3
  <2> HIDE DEF j
  <2> QED BY <1>1, <2>1, <2>2, Consecutive DEF AreFragments
<1> QED BY <1>1, <1>3, <1>5, <1>6 DEF IsMessage

-----------------------------------------------------------------------------
(* What a message is sent as *)

Piece(m, i) ==
  Frame(m, (lastSeq[SenderOf(m)] + 1 + i) % SeqModulus, i, NumberOf(m),
        FragBegin(i, SizeOf(m), HeaderOf(m), Mtu), FragEnd(i, SizeOf(m), HeaderOf(m), Mtu))

LEMMA FragmentedIsPieces ==
  ASSUME NEW m
  PROVE  Fragmented(m) = {Piece(m, i) : i \in 0 .. NumberOf(m) - 1}
  BY DEF Fragmented, Piece, NumberOf

LEMMA FragmentedCount ==
  ASSUME NEW m, NumberOf(m) \in Nat
  PROVE  Cardinality(Fragmented(m)) = NumberOf(m)
<1> DEFINE n == NumberOf(m)
           F == [i \in 0 .. n - 1 |-> Piece(m, i)]
<1>1. \A i \in 0 .. n - 1 : F[i] = Piece(m, i) /\ F[i].index = i
  BY DEF Piece, Frame
<1>2. Fragmented(m) = {Piece(m, i) : i \in 0 .. n - 1}
  BY FragmentedIsPieces
<1>3. n \in Nat /\ DOMAIN F = 0 .. n - 1
  OBVIOUS
<1> HIDE DEF n, F
<1>4. F \in [0 .. n - 1 -> Fragmented(m)]
  BY <1>1, <1>2 DEF F
<1>5. \A i, j \in 0 .. n - 1 : F[i] = F[j] => i = j
  BY <1>1
<1>6. \A x \in Fragmented(m) : \E i \in 0 .. n - 1 : F[i] = x
  BY <1>1, <1>2
<1>7. F \in Bijection(0 .. n - 1, Fragmented(m))
  BY <1>3, <1>4, <1>5, <1>6 DEF Bijection, Injection, Surjection, IsInjective, F
<1>8. ExistsBijection(0 .. n - 1, Fragmented(m))
  BY <1>7 DEF ExistsBijection
<1>9. IsFiniteSet(0 .. n - 1) /\ Cardinality(0 .. n - 1) = n
  BY <1>3, Full
<1> QED BY <1>8, <1>9, FS_Bijection DEF n

\* The fragments of a message have the key of its first one.
LEMMA KeyOfPiece ==
  ASSUME lastSeq \in [Senders -> 0 .. SeqModulus - 1],
         NEW m \in Messages, NEW i \in Nat
  PROVE  Key(Piece(m, i)) = <<SenderOf(m), (lastSeq[SenderOf(m)] + 1) % SeqModulus>>
<1> DEFINE a == lastSeq[SenderOf(m)] + 1
           b == -i
           c == a + i
<1>1. a \in Int /\ b \in Int /\ c \in Int /\ c + b = a /\ SeqModulus \in Nat /\ SeqModulus > 0
  BY MessageFacts, ReassemblerAssumption
<1>2. Piece(m, i).seq = c % SeqModulus /\ Piece(m, i).index = i /\ Piece(m, i).from = SenderOf(m)
  BY DEF Piece, Frame
<1>3. c % SeqModulus \in Int
  BY <1>1, DivMod
<1>4. (c % SeqModulus) - i = (c % SeqModulus) + b
  BY <1>3
<1> HIDE DEF a, b, c
<1>5. ((c % SeqModulus) + b) % SeqModulus = (c + b) % SeqModulus
  BY <1>1, ModAdd
<1>6. Key(Piece(m, i)) = <<SenderOf(m), a % SeqModulus>>
  BY <1>1, <1>2, <1>4, <1>5 DEF Key
<1> QED BY <1>6 DEF a

\* The numbers given before those of a message are the ones its sender has given.
LEMMA GivenBeforePiece ==
  ASSUME lastSeq \in [Senders -> 0 .. SeqModulus - 1], NEW s \in Senders
  PROVE  /\ GivenBefore(<<s, (lastSeq[s] + 1) % SeqModulus>>) = Given(s)
         /\ Given(s) \in 0 .. SeqModulus - 1
<1> DEFINE a == lastSeq[s] + 1
           c == lastSeq[s] + 2
<1>1. a \in Int /\ c \in Int /\ a + 1 = c /\ SeqModulus \in Nat /\ SeqModulus > 0
  BY ReassemblerAssumption
<1>2. Given(s) = c % SeqModulus /\ GivenBefore(<<s, a % SeqModulus>>) = ((a % SeqModulus) + 1) % SeqModulus
  BY DEF Given, GivenBefore
<1> HIDE DEF a, c
<1>3. ((a % SeqModulus) + 1) % SeqModulus = (a + 1) % SeqModulus
  BY <1>1, ModAdd
<1>4. c % SeqModulus \in 0 .. SeqModulus - 1
  BY <1>1, DivMod
<1>5. GivenBefore(<<s, a % SeqModulus>>) = Given(s)
  BY <1>1, <1>2, <1>3
<1> QED BY <1>2, <1>4, <1>5 DEF a

LEMMA GivenIsNumber ==
  ASSUME NEW seqs \in [Senders -> 0 .. SeqModulus - 1], NEW s \in Senders
  PROVE  (seqs[s] + 2) % SeqModulus \in 0 .. SeqModulus - 1
<1> DEFINE c == seqs[s] + 2
<1>1. c \in Int /\ SeqModulus \in Nat /\ SeqModulus > 0
  BY ReassemblerAssumption
<1> HIDE DEF c
<1>2. c % SeqModulus \in 0 .. SeqModulus - 1
  BY <1>1, DivMod
<1> QED BY <1>2 DEF c

\* Numbers are given one by one as long as they do not run out.
LEMMA GivenGrows ==
  ASSUME lastSeq \in [Senders -> 0 .. SeqModulus - 1], NEW s \in Senders, NEW n \in Nat,
         Given(s) + n < SeqModulus
  PROVE  /\ (lastSeq[s] + n) % SeqModulus \in 0 .. SeqModulus - 1
         /\ (((lastSeq[s] + n) % SeqModulus) + 2) % SeqModulus = Given(s) + n
<1> DEFINE a == lastSeq[s] + n
           b == lastSeq[s] + 2
           c == a + 2
           g == Given(s)
<1>1. /\ a \in Int /\ b \in Int /\ c \in Int /\ n \in Int /\ c = b + n /\ c = a + 2
      /\ SeqModulus \in Nat /\ SeqModulus > 0
  BY ReassemblerAssumption
<1>2. g \in 0 .. SeqModulus - 1 /\ g = b % SeqModulus
  BY GivenBeforePiece DEF Given
<1> HIDE DEF a, b, c, g
<1>3. a % SeqModulus \in 0 .. SeqModulus - 1
  BY <1>1, DivMod
<1>4. ((a % SeqModulus) + 2) % SeqModulus = (a + 2) % SeqModulus
  BY <1>1, ModAdd
<1>5. ((b % SeqModulus) + n) % SeqModulus = (b + n) % SeqModulus
  BY <1>1, ModAdd
<1>6. (g + n) % SeqModulus = g + n
  <2> DEFINE r == g + n
  <2>1. r \in 0 .. SeqModulus - 1
    BY <1>1, <1>2 DEF g
  <2> HIDE DEF r
  <2>2. r % SeqModulus = r
    BY <1>1, <2>1, ModSmall
  <2> QED BY <2>2 DEF r
<1>7. ((a % SeqModulus) + 2) % SeqModulus = g + n
  BY <1>1, <1>2, <1>4, <1>5, <1>6
<1> QED BY <1>3, <1>7 DEF a, g

-----------------------------------------------------------------------------
(* Sending keeps the invariant *)

\* There are numbers left for the fragments of a message that is still to be sent.
LEMMA NumbersSuffice ==
  ASSUME IInv, NEW m \in unsent, NEW s \in Senders, NEW n \in 0 .. MaxSent
  PROVE  /\ Given(s) \in Nat /\ Given(s) + n < SeqModulus
         /\ Given(s) + n <= MaxSent * Cardinality(Messages \ (unsent \ {m}))
<1> DEFINE S == Messages \ unsent
           T == Messages \ (unsent \ {m})
           c == Cardinality(S)
           d == Cardinality(T)
           e == Cardinality(Messages)
<1>1. T = S \cup {m} /\ m \notin S /\ S \in SUBSET Messages /\ T \in SUBSET Messages
  BY DEF IInv
<1>2. /\ IsFiniteSet(Messages) /\ MaxSent \in Nat /\ SeqModulus \in Nat
      /\ e * MaxSent < SeqModulus
  BY LinkAssumption, FragmenterAssumption, ReassemblerAssumption, SequenceAssumption
<1>3. Given(s) <= MaxSent * c
  BY DEF IInv, NumbersAreLeft
<1> HIDE DEF S, T
<1>4. IsFiniteSet(S) /\ c \in Nat /\ d = c + 1 /\ e \in Nat /\ d <= e
  <2>1. IsFiniteSet(S) /\ IsFiniteSet(T) /\ d <= e
    BY <1>1, <1>2, FS_Subset
  <2>2. d = c + 1
    BY <1>1, <2>1, FS_AddElement
  <2> QED BY <1>2, <2>1, <2>2, FS_CardinalityType
<1>5. Given(s) \in Nat /\ n \in Nat /\ n <= MaxSent
  <2>1. Given(s) \in 0 .. SeqModulus - 1
    BY GivenBeforePiece DEF IInv
  <2> QED BY <1>2, <2>1
<1> DEFINE g == Given(s)
<1> HIDE DEF c, d, e, g
<1>6. /\ MaxSent * d = MaxSent * c + MaxSent /\ MaxSent * c \in Nat
      /\ MaxSent * d <= MaxSent * e /\ MaxSent * e = e * MaxSent /\ MaxSent * e \in Nat
  <2>1. d * MaxSent <= e * MaxSent /\ d * MaxSent \in Nat /\ e * MaxSent \in Nat
    BY <1>2, <1>4, Monotone
  <2>2. /\ d * MaxSent = c * MaxSent + MaxSent /\ MaxSent * c = c * MaxSent
        /\ c * MaxSent \in Nat
    BY <1>2, <1>4, Distributes, Monotone
  <2>3. MaxSent * d = d * MaxSent /\ MaxSent * e = e * MaxSent
    BY <1>2, <1>4, Distributes
  <2> QED BY <2>1, <2>2, <2>3
<1>7. g + n <= MaxSent * d /\ g + n < SeqModulus
  BY <1>2, <1>3, <1>4, <1>5, <1>6 DEF g
<1> QED BY <1>5, <1>7 DEF d, g, T

\* What the rest of the proof needs to know of the frames and of the numbers given
SentRight(m) ==
  /\ lastSeq' \in [Senders -> 0 .. SeqModulus - 1]
  /\ \A s \in Senders : /\ Given(s)' >= Given(s)
                        /\ Given(s)' <= MaxSent * Cardinality(Messages \ unsent')
  /\ \A f \in FramesOf(m) :
        /\ FrameOK(f)' /\ f.msg = m
        /\ ~IsWhole(f) => Key(f) = <<SenderOf(m), (lastSeq[SenderOf(m)] + 1) % SeqModulus>>

\* A message that goes in several fragments
LEMMA FragmentsSent ==
  ASSUME IInv, NEW m \in Messages, SendNetPacket(m), IsCut(m)
  PROVE  SentRight(m)
<1> DEFINE s == SenderOf(m)
           n == NumberOf(m)
<1>1. /\ m \in unsent /\ s \in Senders /\ unsent' = unsent \ {m} /\ options' = options
      /\ lastSeq \in [Senders -> 0 .. SeqModulus - 1]
  BY MessageFacts DEF SendNetPacket, IInv
<1>2. n \in Nat /\ n > 1 /\ n \in 0 .. MaxSent
  BY CutFacts, FragmenterAssumption
<1>3. FramesOf(m) = Fragmented(m)
  BY DEF FramesOf, IsCut
<1>4. Cardinality(FramesOf(m)) = n
  BY <1>2, <1>3, FragmentedCount
<1>5. lastSeq' = [lastSeq EXCEPT ![s] = (@ + n) % SeqModulus]
  BY <1>2, <1>4 DEF SendNetPacket
<1> HIDE DEF n, s
<1>6. /\ Given(s) \in Nat /\ Given(s) + n < SeqModulus
      /\ Given(s) + n <= MaxSent * Cardinality(Messages \ unsent')
  BY <1>1, <1>2, NumbersSuffice
<1>7. /\ (lastSeq[s] + n) % SeqModulus \in 0 .. SeqModulus - 1
      /\ (((lastSeq[s] + n) % SeqModulus) + 2) % SeqModulus = Given(s) + n
  BY <1>1, <1>2, <1>6, GivenGrows
<1>8. lastSeq' \in [Senders -> 0 .. SeqModulus - 1]
  BY <1>1, <1>5, <1>7
<1>9. /\ Given(s)' = Given(s) + n
      /\ \A x \in Senders : x # s => Given(x)' = Given(x)
  BY <1>1, <1>5, <1>7 DEF Given
<1>10. ASSUME NEW x \in Senders
       PROVE  Given(x)' >= Given(x) /\ Given(x)' <= MaxSent * Cardinality(Messages \ unsent')
  <2>1. CASE x = s
    BY <1>2, <1>6, <1>9, <2>1
  <2>2. CASE x # s
    <3>1. 0 \in 0 .. MaxSent
      BY FragmenterAssumption
    <3>2. Given(x) \in Nat /\ Given(x) + 0 <= MaxSent * Cardinality(Messages \ unsent')
      BY <1>1, <3>1, NumbersSuffice
    <3> QED BY <1>9, <2>2, <3>2
  <2> QED BY <2>1, <2>2
<1>11. ASSUME NEW f \in FramesOf(m)
       PROVE  /\ FrameOK(f)' /\ f.msg = m
              /\ Key(f) = <<s, (lastSeq[s] + 1) % SeqModulus>>
  <2>1. PICK i \in 0 .. n - 1 : f = Piece(m, i)
    BY <1>3, <1>11, FragmentedIsPieces DEF n
  <2>2. /\ f.from = s /\ f.index = i /\ f.count = n /\ f.msg = m
        /\ f.seq = (lastSeq[s] + 1 + i) % SeqModulus
        /\ f.begin = FragBegin(i, SizeOf(m), HeaderOf(m), Mtu)
        /\ f.end = FragEnd(i, SizeOf(m), HeaderOf(m), Mtu)
    BY <2>1 DEF Piece, Frame, s, n
  <2>3. Key(f) = <<s, (lastSeq[s] + 1) % SeqModulus>>
    <3>1. i \in Nat
      BY <1>2
    <3> QED BY <1>1, <2>1, <3>1, KeyOfPiece DEF s
  <2>4. GivenBefore(Key(f)) = Given(s)
    BY <1>1, <2>3, GivenBeforePiece
  <2>5. GivenBefore(Key(f)) < Given(s)'
    BY <1>2, <1>6, <1>9, <2>4
  <2>6. f.seq \in Int
    <3> DEFINE a == lastSeq[s] + 1 + i
    <3>1. a \in Int /\ SeqModulus \in Nat /\ SeqModulus > 0
      BY <1>1, <1>2, ReassemblerAssumption
    <3>2. f.seq = a % SeqModulus
      BY <2>2
    <3> HIDE DEF a
    <3> QED BY <3>1, <3>2, DivMod
  <2>7. IsCut(m)'
    BY <1>1 DEF IsCut
  <2>8. ~IsWhole(f)
    BY <1>2, <2>2 DEF IsWhole
  <2>9. m \in Messages \ unsent'
    BY <1>1
  <2>10. GivenBefore(Key(f))' < Given(f.from)'
    BY <2>2, <2>5 DEF GivenBefore, Key
  <2> QED BY <2>2, <2>3, <2>6, <2>7, <2>8, <2>9, <2>10 DEF FrameOK, IsWhole, NumberOf, s, n, GivenBefore, Key
<1> QED BY <1>8, <1>10, <1>11 DEF SentRight, s

\* A message that goes as it is, in one fragment, or not at all
LEMMA WholeSent ==
  ASSUME IInv, NEW m \in Messages, SendNetPacket(m), ~IsCut(m)
  PROVE  SentRight(m)
<1>1. /\ m \in unsent /\ unsent' = unsent \ {m} /\ options' = options
      /\ lastSeq \in [Senders -> 0 .. SeqModulus - 1]
  BY DEF SendNetPacket, IInv
<1>2. /\ Cardinality(FramesOf(m)) \in {0, 1}
      /\ \A f \in FramesOf(m) :
            /\ f.msg = m /\ f.from = SenderOf(m) /\ IsWhole(f)
            /\ f.begin = 0 /\ f.end = SizeOf(m)
  <2>1. Cardinality({}) = 0 /\ \A x : Cardinality({x}) = 1
    <3>1. Cardinality({}) = 0 /\ IsFiniteSet({})
      BY FS_EmptySet
    <3>2. ASSUME NEW x
          PROVE  Cardinality({} \cup {x}) = 1
      <4>1. Cardinality({} \cup {x}) = IF x \in {} THEN Cardinality({}) ELSE Cardinality({}) + 1
        BY ONLY <3>1, FS_AddElement
      <4> QED BY <3>1, <4>1
    <3>3. \A x : {} \cup {x} = {x}
      OBVIOUS
    <3> QED BY <3>1, <3>2, <3>3
  <2>2. CASE FramesOf(m) = {}
    BY <2>1, <2>2
  <2>3. CASE FramesOf(m) = {Frame(m, 0, 0, 1, 0, SizeOf(m))}
    <3> DEFINE f == Frame(m, 0, 0, 1, 0, SizeOf(m))
    <3>1. /\ f.msg = m /\ f.from = SenderOf(m) /\ IsWhole(f)
          /\ f.begin = 0 /\ f.end = SizeOf(m)
      BY DEF Frame, IsWhole
    <3> HIDE DEF f
    <3> QED BY <2>1, <2>3, <3>1 DEF f
  <2>4. CASE /\ FramesOf(m) = Fragmented(m)
             /\ ~Fits(SizeOf(m), HeaderOf(m), Mtu) /\ CanFragment(SizeOf(m), HeaderOf(m), Mtu)
             /\ options.fragmentation
    <3>1. NumberOf(m) \in Nat /\ FragmentsAreRight(SizeOf(m), HeaderOf(m), Mtu)
      BY <2>4, MessageFacts, CountIsNatural, FragmentsAlwaysRight DEF CanFragment, NumberOf
    <3>2. NumberOf(m) = 1
      BY <2>4, <3>1 DEF IsCut, FragmentsAreRight, NumberOf
    <3>3. FragEnd(0, SizeOf(m), HeaderOf(m), Mtu) = SizeOf(m)
      <4>1. FragEnd(NumberOf(m) - 1, SizeOf(m), HeaderOf(m), Mtu) = SizeOf(m)
        BY <3>1 DEF FragmentsAreRight, NumberOf
      <4>2. NumberOf(m) - 1 = 0
        BY <3>2
      <4> QED BY <4>1, <4>2
    <3>4. FramesOf(m) = {Piece(m, 0)}
      <4>1. 0 .. NumberOf(m) - 1 = {0}
        BY <3>2
      <4> QED BY <2>4, <4>1, FragmentedIsPieces
    <3>5. /\ Piece(m, 0).msg = m /\ Piece(m, 0).from = SenderOf(m) /\ IsWhole(Piece(m, 0))
          /\ Piece(m, 0).begin = 0 /\ Piece(m, 0).end = SizeOf(m)
      BY <3>2, <3>3 DEF Piece, Frame, IsWhole, FragBegin
    <3> QED BY <2>1, <3>4, <3>5
  <2> QED BY <2>2, <2>3, <2>4 DEF FramesOf, NotFragmented
<1>3. lastSeq' = lastSeq
  <2>1. ~(Cardinality(FramesOf(m)) > 1)
    BY <1>2
  <2> QED BY <2>1 DEF SendNetPacket
<1>4. ASSUME NEW s \in Senders
      PROVE  Given(s)' >= Given(s) /\ Given(s)' <= MaxSent * Cardinality(Messages \ unsent')
  <2>1. 0 \in 0 .. MaxSent
    BY FragmenterAssumption
  <2>2. Given(s) \in Nat /\ Given(s) + 0 <= MaxSent * Cardinality(Messages \ unsent')
    BY <1>1, <2>1, NumbersSuffice
  <2> QED BY <1>3, <2>2 DEF Given
<1>5. ASSUME NEW f \in FramesOf(m)
      PROVE  FrameOK(f)' /\ f.msg = m /\ IsWhole(f)
  <2>1. ~IsCut(m)'
    BY <1>1 DEF IsCut
  <2> QED BY <1>1, <1>2, <2>1 DEF FrameOK, IsWhole
<1> QED BY <1>1, <1>3, <1>4, <1>5 DEF SentRight

LEMMA SendKeepsIInv ==
  ASSUME IInv, NEW m \in Messages, SendNetPacket(m)
  PROVE  IInv'
<1>1. SentRight(m)
  BY FragmentsSent, WholeSent
<1>2. /\ m \in unsent /\ unsent' = unsent \ {m} /\ medium' = medium \cup FramesOf(m)
      /\ UNCHANGED <<options, repeats, partial, received, now, arrived, lastNew, expired>>
  BY DEF SendNetPacket, history
<1>3. InFlight' = InFlight \cup FramesOf(m)
  BY <1>2 DEF InFlight
<1>4. ASSUME NEW f \in InFlight
      PROVE  /\ FrameOK(f) /\ f.msg # m /\ f.from \in Senders /\ f.from = SenderOf(f.msg)
             /\ ~IsWhole(f) => GivenBefore(Key(f)) \in Int /\ Given(f.from) \in Int
  <2>1. FrameOK(f)
    BY DEF IInv, FramesAreRight
  <2>2. f.msg # m /\ f.from \in Senders /\ f.from = SenderOf(f.msg)
    BY <1>2, <2>1, MessageFacts DEF FrameOK
  <2>3. Given(f.from) \in Int
    <3>1. Given(f.from) \in 0 .. SeqModulus - 1
      BY <2>2, GivenBeforePiece DEF IInv
    <3>2. SeqModulus \in Nat
      BY ReassemblerAssumption
    <3> QED BY <3>1, <3>2
  <2>4. ASSUME ~IsWhole(f)
        PROVE  GivenBefore(Key(f)) \in Int
    <3> DEFINE a == f.seq - f.index
    <3>1. a \in Int /\ SeqModulus \in Nat /\ SeqModulus > 0
      BY <2>1, <2>4, CutFacts, ReassemblerAssumption DEF FrameOK
    <3>2. GivenBefore(Key(f)) = ((a % SeqModulus) + 1) % SeqModulus
      BY DEF GivenBefore, Key
    <3> HIDE DEF a
    <3>3. a % SeqModulus \in Int
      BY <3>1, DivMod
    <3> DEFINE b == (a % SeqModulus) + 1
    <3>4. b \in Int
      BY <3>3
    <3> HIDE DEF b
    <3>5. b % SeqModulus \in Int
      BY <3>1, <3>4, DivMod
    <3> QED BY <3>2, <3>5 DEF b
  <2> QED BY <2>1, <2>2, <2>3, <2>4
<1>5. FramesAreRight'
  <2> SUFFICES ASSUME NEW f \in InFlight PROVE FrameOK(f)'
    BY <1>1, <1>3 DEF FramesAreRight, SentRight
  <2>1. f.msg \in Messages \ unsent'
    BY <1>2, <1>4 DEF FrameOK
  <2>2. IsCut(f.msg)' <=> IsCut(f.msg)
    BY <1>2 DEF IsCut
  <2>3. ~IsWhole(f) => GivenBefore(Key(f)) < Given(f.from)'
    <3>1. Given(f.from)' >= Given(f.from) /\ Given(f.from)' \in Int
      <4>1. f.from \in Senders /\ lastSeq' \in [Senders -> 0 .. SeqModulus - 1]
        BY <1>1, <1>4 DEF SentRight
      <4>2. Given(f.from)' \in 0 .. SeqModulus - 1
        BY <4>1, GivenIsNumber DEF Given
      <4> QED BY <1>1, <4>1, <4>2 DEF SentRight
    <3> QED BY <1>4, <3>1 DEF FrameOK
  <2> QED BY <1>4, <2>1, <2>2, <2>3 DEF FrameOK, IsWhole, NumberOf, Key, GivenBefore
<1>6. ASSUME NEW f \in InFlight, ~IsWhole(f), NEW g \in FramesOf(m), ~IsWhole(g)
      PROVE  Key(f) # Key(g) /\ f.msg # g.msg
  <2> DEFINE s == SenderOf(m)
  <2>1. g.msg = m /\ Key(g) = <<s, (lastSeq[s] + 1) % SeqModulus>> /\ s \in Senders
    BY <1>1, <1>6, MessageFacts DEF SentRight
  <2>2. GivenBefore(Key(g)) = Given(s)
    BY <2>1, GivenBeforePiece DEF IInv
  <2>3. GivenBefore(Key(f)) < Given(f.from) /\ GivenBefore(Key(f)) \in Int /\ Given(f.from) \in Int
    BY <1>4, <1>6 DEF FrameOK
  <2>4. ASSUME Key(f) = Key(g)
        PROVE  FALSE
    <3>1. f.from = s
      BY <2>1, <2>4 DEF Key
    <3> QED BY <2>2, <2>3, <2>4, <3>1
  <2> QED BY <1>4, <2>1, <2>4
<1>7. KeysAreRight'
  <2> SUFFICES ASSUME NEW f \in InFlight', NEW g \in InFlight', ~IsWhole(f), ~IsWhole(g)
               PROVE  Key(f) = Key(g) <=> f.msg = g.msg
    BY DEF KeysAreRight, IsWhole, Key
  <2>1. CASE f \in InFlight /\ g \in InFlight
    BY <2>1 DEF IInv, KeysAreRight
  <2>2. CASE f \in FramesOf(m) /\ g \in FramesOf(m)
    BY <1>1, <2>2 DEF SentRight
  <2> QED BY <1>3, <1>6, <2>1, <2>2
<1>8. PartialsAreRight'
  BY <1>2 DEF IInv, PartialsAreRight, PartialOK, IsWhole, Key, Reaches
<1>9. ArrivalsAreStored'
  <2> SUFFICES ASSUME NEW f \in InFlight', ~IsWhole(f), Reaches(f)
               PROVE  ArrivedIsStored(f)
    BY <1>2 DEF ArrivalsAreStored, ArrivedIsStored, Settled, Reaches, IsWhole, Key, Accepted
  <2>1. CASE f \in InFlight
    BY <2>1 DEF IInv, ArrivalsAreStored
  <2>2. CASE f \in FramesOf(m)
    <3>1. f.msg = m /\ arrived[m] = {}
      BY <1>1, <1>2, <2>2 DEF SentRight, IInv
    <3>2. ASSUME Key(f) \in DOMAIN partial
          PROVE  FALSE
      <4>1. PartialOK(Key(f))
        BY <3>2 DEF IInv, PartialsAreRight
      <4>2. PICK i \in DOMAIN partial[Key(f)].got : TRUE
        <5>1. DOMAIN partial[Key(f)].got # {}
          BY <4>1 DEF PartialOK
        <5> QED BY <5>1
      <4> DEFINE g == partial[Key(f)].got[i]
      <4>3. g \in InFlight
        BY <3>2, <4>2 DEF InFlight
      <4>4. ~IsWhole(g) /\ Key(g) = Key(f)
        BY <4>1, <4>2 DEF PartialOK
      <4> HIDE DEF g
      <4> QED BY <1>6, <2>2, <4>3, <4>4
    <3> QED BY <3>1, <3>2 DEF ArrivedIsStored
  <2> QED BY <1>3, <2>1, <2>2
<1>10. NumbersAreLeft'
  BY <1>1 DEF SentRight, NumbersAreLeft
<1>11. ReceivedWasSent'
  BY <1>2 DEF IInv, ReceivedWasSent
<1> QED BY <1>1, <1>2, <1>5, <1>7, <1>8, <1>9, <1>10, <1>11 DEF IInv, SentRight

-----------------------------------------------------------------------------
(* Receiving keeps the invariant *)

\* What is said of the frames in flight stays true when there are fewer of them.
LEMMA FewerInFlight ==
  ASSUME IInv, InFlight' \subseteq InFlight, UNCHANGED <<options, unsent, lastSeq>>
  PROVE  FramesAreRight' /\ KeysAreRight' /\ NumbersAreLeft'
<1>1. \A f : FrameOK(f) => FrameOK(f)'
  BY DEF FrameOK, IsWhole, IsCut, NumberOf, GivenBefore, Given, Key
<1>2. FramesAreRight'
  BY <1>1 DEF IInv, FramesAreRight
<1>3. KeysAreRight'
  BY DEF IInv, KeysAreRight, IsWhole, Key
<1>4. NumbersAreLeft'
  BY DEF IInv, NumbersAreLeft, Given
<1> QED BY <1>2, <1>3, <1>4

\* A message that is settled stays so.
LEMMA SettledStays ==
  ASSUME options' = options, expired \subseteq expired', received \subseteq received',
         NEW f, Settled(f)
  PROVE  Settled(f)'
<1>1. Accepted(f)' <=> Accepted(f)
  BY DEF Accepted
<1> QED BY <1>1 DEF Settled, Key

\* What is known of a fragment in flight
LEMMA FragmentFacts ==
  ASSUME IInv, NEW f \in InFlight, ~IsWhole(f)
  PROVE  /\ f.msg \in Messages /\ IsCut(f.msg)
         /\ f.count = NumberOf(f.msg) /\ f.count \in Nat /\ f.count > 1
         /\ f.index \in 0 .. f.count - 1 /\ f.index \in Nat
         /\ f.begin = FragBegin(f.index, SizeOf(f.msg), HeaderOf(f.msg), Mtu)
         /\ f.end = FragEnd(f.index, SizeOf(f.msg), HeaderOf(f.msg), Mtu)
<1>1. FrameOK(f)
  BY DEF IInv, FramesAreRight
<1>2. /\ f.msg \in Messages /\ IsCut(f.msg) /\ f.count = NumberOf(f.msg)
      /\ f.index \in 0 .. f.count - 1
      /\ f.begin = FragBegin(f.index, SizeOf(f.msg), HeaderOf(f.msg), Mtu)
      /\ f.end = FragEnd(f.index, SizeOf(f.msg), HeaderOf(f.msg), Mtu)
  BY <1>1 DEF FrameOK
<1>3. f.count \in Nat /\ f.count > 1
  BY <1>2, CutFacts
<1> QED BY <1>2, <1>3

\* What is stored under the key of a fragment is of the same message.
LEMMA StoredFacts ==
  ASSUME IInv, NEW k \in DOMAIN partial, NEW i \in DOMAIN partial[k].got
  PROVE  LET f == partial[k].got[i] IN
         /\ f \in InFlight /\ ~IsWhole(f) /\ Key(f) = k /\ Reaches(f)
         /\ f.index = i /\ f.count = partial[k].count
         /\ \A g \in InFlight : ~IsWhole(g) /\ Key(g) = k =>
               f.msg = g.msg /\ f.count = g.count
<1> DEFINE f == partial[k].got[i]
<1>1. f \in InFlight
  BY DEF InFlight
<1>2. ~IsWhole(f) /\ Key(f) = k /\ Reaches(f) /\ f.index = i /\ f.count = partial[k].count
  BY DEF IInv, PartialsAreRight, PartialOK
<1> HIDE DEF f
<1>3. ASSUME NEW g \in InFlight, ~IsWhole(g), Key(g) = k
      PROVE  f.msg = g.msg /\ f.count = g.count
  <2>1. f.msg = g.msg
    BY <1>1, <1>2, <1>3 DEF IInv, KeysAreRight
  <2>2. f.count = NumberOf(f.msg) /\ g.count = NumberOf(g.msg)
    BY <1>1, <1>2, <1>3, FragmentFacts
  <2> QED BY <2>1, <2>2
<1> QED BY <1>1, <1>2, <1>3 DEF f

\* Fragments of one message have one key, and all or none of them can be reassembled.
LEMMA SameMessage ==
  ASSUME IInv, NEW f \in InFlight, ~IsWhole(f), NEW g \in InFlight, f.msg = g.msg
  PROVE  /\ ~IsWhole(g) /\ Key(f) = Key(g)
         /\ Reaches(f) <=> Reaches(g)
         /\ Reaches(f) => ~Disabled(g) /\ ~Malformed(g)
<1>1. FrameOK(f) /\ FrameOK(g)
  BY DEF IInv, FramesAreRight
<1>2. ~IsWhole(g)
  BY <1>1 DEF FrameOK
<1>3. Key(f) = Key(g)
  BY <1>2 DEF IInv, KeysAreRight
<1>4. f.count = g.count /\ g.count \in Nat /\ g.index \in 0 .. g.count - 1 /\ g.index \in Nat
  BY <1>2, FragmentFacts
<1>5. ASSUME Reaches(f)
      PROVE  ~Disabled(g) /\ ~Malformed(g)
  BY <1>4, <1>5, ReassemblerAssumption DEF Reaches, Disabled, Malformed
<1> QED BY <1>2, <1>3, <1>4, <1>5 DEF Reaches

\* A fragment that is not refused is stored with those of its message.
LEMMA AddedFacts ==
  ASSUME IInv, NEW frag \in medium, ~IsWhole(frag), ~Disabled(frag), ~Malformed(frag),
         ~Refused(PartialOf(partial, frag), frag), NEW np,
         np = AddFragment(PartialOf(partial, frag), frag, now)
  PROVE  /\ np = [count |-> np.count, got |-> np.got, dropAt |-> np.dropAt]
         /\ np.count = frag.count /\ np.dropAt = now + ReassemblyTimeout
         /\ DOMAIN np.got \subseteq 0 .. frag.count - 1 /\ frag.index \in DOMAIN np.got
         /\ Key(frag) \in DOMAIN partial =>
               DOMAIN np.got = DOMAIN partial[Key(frag)].got \cup {frag.index}
         /\ Key(frag) \notin DOMAIN partial => DOMAIN np.got = {frag.index}
         /\ \A i \in DOMAIN np.got :
               LET f == np.got[i] IN
               /\ f \in InFlight /\ ~IsWhole(f) /\ Key(f) = Key(frag) /\ Reaches(f)
               /\ f.index = i /\ f.count = frag.count /\ f.msg = frag.msg
         /\ IsComplete(np) <=> DOMAIN np.got = 0 .. frag.count - 1
<1> DEFINE k == Key(frag)
           pp == PartialOf(partial, frag)
<1>1. /\ frag \in InFlight /\ Reaches(frag)
      /\ frag.count \in Nat /\ frag.index \in 0 .. frag.count - 1 /\ frag.index \in Nat
  <2>1. frag \in InFlight
    BY DEF InFlight
  <2>2. frag.count \in Nat /\ frag.index \in 0 .. frag.count - 1 /\ frag.index \in Nat
    BY <2>1, FragmentFacts
  <2>3. Reaches(frag)
    BY <2>2, ReassemblerAssumption DEF Disabled, Malformed, Reaches
  <2> QED BY <2>1, <2>2, <2>3
<1>2. /\ pp = [count |-> frag.count, got |-> pp.got, dropAt |-> pp.dropAt]
      /\ k \in DOMAIN partial => pp = partial[k]
      /\ k \notin DOMAIN partial => DOMAIN pp.got = {}
      /\ DOMAIN pp.got \subseteq 0 .. frag.count - 1
  <2>1. CASE k \in DOMAIN partial
    <3>1. pp = partial[k] /\ PartialOK(k) /\ frag.count = pp.count
      BY <2>1 DEF PartialOf, IInv, PartialsAreRight, Refused
    <3> QED BY <2>1, <3>1 DEF PartialOK
  <2>2. CASE k \notin DOMAIN partial
    <3>1. pp = [count |-> frag.count, got |-> <<>>, dropAt |-> 0]
      BY <2>2 DEF PartialOf, NewPartial
    <3>2. DOMAIN <<>> = {}
      OBVIOUS
    <3> QED BY <2>2, <3>1, <3>2
  <2> QED BY <2>1, <2>2
<1>3. ASSUME NEW i \in DOMAIN pp.got
      PROVE  LET f == pp.got[i] IN
             /\ f \in InFlight /\ ~IsWhole(f) /\ Key(f) = k /\ Reaches(f)
             /\ f.index = i /\ f.count = frag.count /\ f.msg = frag.msg
  <2>1. k \in DOMAIN partial /\ pp = partial[k]
    BY <1>2, <1>3
  <2> HIDE DEF pp
  <2>2. i \in DOMAIN partial[k].got
    BY <1>3, <2>1
  <2> DEFINE f == partial[k].got[i]
  <2>3. /\ f \in InFlight /\ ~IsWhole(f) /\ Key(f) = k /\ Reaches(f) /\ f.index = i
        /\ \A g \in InFlight : ~IsWhole(g) /\ Key(g) = k => f.msg = g.msg /\ f.count = g.count
    BY <2>1, <2>2, StoredFacts
  <2> HIDE DEF f
  <2>4. f.msg = frag.msg /\ f.count = frag.count
    BY <1>1, <2>3
  <2> QED BY <2>1, <2>3, <2>4 DEF f
<1> HIDE DEF pp
<1>4. np = [count |-> frag.count, got |-> Put(pp.got, frag.index, frag),
            dropAt |-> now + ReassemblyTimeout]
  <2>1. np = [pp EXCEPT !.got = Put(pp.got, frag.index, frag), !.dropAt = now + ReassemblyTimeout]
    BY DEF AddFragment, pp
  <2> DEFINE G == Put(pp.got, frag.index, frag)
             d == now + ReassemblyTimeout
  <2>2. PICK c, g, e : pp = [count |-> c, got |-> g, dropAt |-> e]
    BY <1>2
  <2>3. c = frag.count
    BY <1>2, <2>2
  <2>4. np = [pp EXCEPT !.got = G, !.dropAt = d]
    BY <2>1
  <2> HIDE DEF G, d
  <2>5. np = [count |-> c, got |-> G, dropAt |-> d]
    BY <2>2, <2>4
  <2> QED BY <2>3, <2>5 DEF G, d
<1>5. /\ DOMAIN np.got = DOMAIN pp.got \cup {frag.index}
      /\ np.got[frag.index] = frag
      /\ \A i \in DOMAIN pp.got : i # frag.index => np.got[i] = pp.got[i]
  BY <1>4 DEF Put
<1>6. \A i \in DOMAIN np.got :
        LET f == np.got[i] IN
        /\ f \in InFlight /\ ~IsWhole(f) /\ Key(f) = Key(frag) /\ Reaches(f)
        /\ f.index = i /\ f.count = frag.count /\ f.msg = frag.msg
  BY <1>1, <1>3, <1>5
<1>7. DOMAIN np.got \subseteq 0 .. frag.count - 1
  BY <1>1, <1>2, <1>5
<1>8. IsComplete(np) <=> DOMAIN np.got = 0 .. frag.count - 1
  <2> DEFINE S == DOMAIN np.got
  <2>1. Cardinality(S) = frag.count <=> S = 0 .. frag.count - 1
    <3>1. S \in SUBSET (0 .. frag.count - 1)
      BY <1>7
    <3> HIDE DEF S
    <3> QED BY <1>1, <3>1, Full
  <2>2. np.count = frag.count
    BY <1>4
  <2> QED BY <2>1, <2>2 DEF IsComplete
<1>9. /\ np = [count |-> np.count, got |-> np.got, dropAt |-> np.dropAt]
      /\ np.count = frag.count /\ np.dropAt = now + ReassemblyTimeout
  BY <1>4
<1>10. /\ frag.index \in DOMAIN np.got
       /\ k \in DOMAIN partial => DOMAIN np.got = DOMAIN partial[k].got \cup {frag.index}
       /\ k \notin DOMAIN partial => DOMAIN np.got = {frag.index}
  BY <1>2, <1>5
<1> HIDE DEF k
<1> QED BY <1>6, <1>7, <1>8, <1>9, <1>10 DEF k

LEMMA ArriveFacts ==
  ASSUME IInv, NEW frag \in medium, Arrive(frag)
  PROVE  /\ frag \in InFlight /\ medium' \subseteq medium
         /\ UNCHANGED <<options, unsent, lastSeq, now, expired>>
         /\ repeats' \in 0 .. MaxRepeats
         /\ arrived' \in [Messages -> SUBSET Nat] /\ \A m \in unsent' : arrived'[m] = {}
         /\ arrived'[frag.msg] = arrived[frag.msg] \cup {frag.index}
         /\ \A m \in Messages : m # frag.msg => arrived'[m] = arrived[m]
<1>1. frag \in InFlight
  BY DEF InFlight
<1>2. FrameOK(frag)
  BY <1>1 DEF IInv, FramesAreRight
<1>3. frag.msg \in Messages /\ frag.msg \notin unsent /\ frag.index \in Nat
  <2>1. CASE IsWhole(frag)
    BY <1>2, <2>1 DEF FrameOK, IsWhole
  <2>2. CASE ~IsWhole(frag)
    BY <1>1, <1>2, <2>2, FragmentFacts DEF FrameOK
  <2> QED BY <2>1, <2>2
<1>4. /\ medium' \subseteq medium
      /\ UNCHANGED <<options, unsent, lastSeq, now, expired>>
      /\ arrived' = [arrived EXCEPT ![frag.msg] = @ \cup {frag.index}]
  BY DEF Arrive
<1>5. repeats' \in 0 .. MaxRepeats
  BY LinkAssumption DEF Arrive, IInv
<1>6. /\ arrived' \in [Messages -> SUBSET Nat]
      /\ arrived'[frag.msg] = arrived[frag.msg] \cup {frag.index}
      /\ \A m \in Messages : m # frag.msg => arrived'[m] = arrived[m]
  BY <1>3, <1>4 DEF IInv
<1>7. \A m \in unsent' : arrived'[m] = {}
  BY <1>3, <1>4, <1>6 DEF IInv
<1> QED BY <1>1, <1>4, <1>5, <1>6, <1>7

\* What arrived of other messages is where it was, so only the one that arrives is of interest.
LEMMA ArrivalKeepsStored ==
  ASSUME IInv, NEW frag \in medium, Arrive(frag), InFlight' \subseteq InFlight,
         received \subseteq received',
         \A k \in (DOMAIN partial \cup DOMAIN partial') \ {Key(frag)} :
           k \in DOMAIN partial /\ k \in DOMAIN partial' /\ partial'[k] = partial[k],
         IsWhole(frag) => partial' = partial,
         ~IsWhole(frag) /\ Reaches(frag) => ArrivedIsStored(frag)'
  PROVE  ArrivalsAreStored'
<1>1. /\ frag \in InFlight /\ options' = options /\ expired' = expired
      /\ \A m \in Messages : m # frag.msg => arrived'[m] = arrived[m]
  BY ArriveFacts
<1> SUFFICES ASSUME NEW f \in InFlight, ~IsWhole(f), Reaches(f)
             PROVE  ArrivedIsStored(f)'
  BY <1>1 DEF ArrivalsAreStored, IsWhole, Reaches
<1>2. ArrivedIsStored(f)
  BY DEF IInv, ArrivalsAreStored
<1>3. CASE f.msg = frag.msg
  <2>1. ~IsWhole(frag) /\ Key(f) = Key(frag) /\ Reaches(frag)
    BY <1>1, <1>3, SameMessage
  <2>2. ArrivedIsStored(frag)'
    BY <2>1
  <2>3. Accepted(f)' <=> Accepted(frag)'
    BY <1>3 DEF Accepted
  <2>4. Key(f)' = Key(f) /\ Key(frag)' = Key(frag)
    BY DEF Key
  <2> QED BY <1>3, <2>1, <2>2, <2>3, <2>4 DEF ArrivedIsStored, Settled
<1>4. CASE f.msg # frag.msg
  <2>1. f.msg \in Messages
    BY FragmentFacts
  <2>2. arrived'[f.msg] = arrived[f.msg]
    BY <1>1, <1>4, <2>1
  <2>3. /\ Key(f) \in DOMAIN partial <=> Key(f) \in DOMAIN partial'
        /\ Key(f) \in DOMAIN partial => partial'[Key(f)] = partial[Key(f)]
    <3>1. CASE IsWhole(frag)
      BY <3>1
    <3>2. CASE ~IsWhole(frag)
      <4>1. Key(f) # Key(frag)
        BY <1>1, <1>4, <3>2 DEF IInv, KeysAreRight
      <4> QED BY <4>1
    <3> QED BY <3>1, <3>2
  <2>4. Settled(f) => Settled(f)'
    BY <1>1, SettledStays
  <2>5. Key(f)' = Key(f)
    BY DEF Key
  <2> QED BY <1>2, <2>2, <2>3, <2>4, <2>5 DEF ArrivedIsStored
<1> QED BY <1>3, <1>4

\* A frame that is dropped: reassembly is disabled, or it is malformed, or refused.
LEMMA DroppedKeepsIInv ==
  ASSUME IInv, NEW frag \in medium, Arrive(frag), UNCHANGED <<partial, received, lastNew>>,
         \/ Disabled(frag) \/ Malformed(frag)
         \/ ~IsWhole(frag) /\ Refused(PartialOf(partial, frag), frag)
  PROVE  IInv'
<1>1. /\ frag \in InFlight /\ medium' \subseteq medium
      /\ UNCHANGED <<options, unsent, lastSeq, now, expired>>
      /\ repeats' \in 0 .. MaxRepeats
      /\ arrived' \in [Messages -> SUBSET Nat] /\ \A m \in unsent' : arrived'[m] = {}
      /\ arrived'[frag.msg] = arrived[frag.msg] \cup {frag.index}
  BY ArriveFacts
<1>2. InFlight' \subseteq InFlight
  BY <1>1 DEF InFlight
<1>3. ASSUME ~IsWhole(frag), Reaches(frag)
      PROVE  ArrivedIsStored(frag)'
  <2>1. ~Disabled(frag) /\ ~Malformed(frag)
    BY <1>1, <1>3, SameMessage
  <2>2. Refused(PartialOf(partial, frag), frag)
    BY <2>1
  <2>3. Key(frag) \in DOMAIN partial
    <3> SUFFICES ASSUME Key(frag) \notin DOMAIN partial PROVE FALSE
      OBVIOUS
    <3>1. PartialOf(partial, frag) = [count |-> frag.count, got |-> <<>>, dropAt |-> 0]
      BY DEF PartialOf, NewPartial
    <3>2. DOMAIN <<>> = {}
      OBVIOUS
    <3> QED BY <2>2, <3>1, <3>2 DEF Refused
  <2>4. PICK i \in DOMAIN partial[Key(frag)].got : TRUE
    <3>1. DOMAIN partial[Key(frag)].got # {}
      BY <2>3 DEF IInv, PartialsAreRight, PartialOK
    <3> QED BY <3>1
  <2>5. partial[Key(frag)].count = frag.count
    BY <1>1, <1>3, <2>3, <2>4, StoredFacts
  <2>6. frag.index \in DOMAIN partial[Key(frag)].got
    BY <2>2, <2>3, <2>5 DEF Refused, PartialOf
  <2>7. ArrivedIsStored(frag)
    BY <1>1, <1>3 DEF IInv, ArrivalsAreStored
  <2>8. Settled(frag) => Settled(frag)'
    BY <1>1, SettledStays
  <2> QED BY <1>1, <2>3, <2>6, <2>7, <2>8 DEF ArrivedIsStored, Key
<1>4. ArrivalsAreStored'
  BY <1>2, <1>3, ArrivalKeepsStored
<1>5. PartialsAreRight' /\ ReceivedWasSent'
  BY <1>1 DEF IInv, PartialsAreRight, PartialOK, ReceivedWasSent, Reaches, IsWhole, Key
<1> QED BY <1>1, <1>2, <1>4, <1>5, FewerInFlight DEF IInv

\* A packet that is whole goes up at once.
LEMMA WholeKeepsIInv ==
  ASSUME IInv, NEW frag \in medium, Arrive(frag), IsWhole(frag), HandUp(<<frag>>),
         UNCHANGED <<partial, lastNew>>
  PROVE  IInv'
<1>1. /\ frag \in InFlight /\ medium' \subseteq medium
      /\ UNCHANGED <<options, unsent, lastSeq, now, expired>>
      /\ repeats' \in 0 .. MaxRepeats
      /\ arrived' \in [Messages -> SUBSET Nat] /\ \A m \in unsent' : arrived'[m] = {}
  BY ArriveFacts
<1>2. InFlight' \subseteq InFlight
  BY <1>1 DEF InFlight
<1>3. received \subseteq received' /\ received' \subseteq received \cup {<<frag>>}
  BY DEF HandUp
<1>4. ArrivalsAreStored'
  BY <1>2, <1>3, ArrivalKeepsStored
<1>5. PartialsAreRight'
  BY <1>1 DEF IInv, PartialsAreRight, PartialOK, Reaches, IsWhole, Key
<1>6. ReceivedWasSent'
  <2> DEFINE x == <<frag>>
  <2>1. IsMessage(x)
    <3>1. frag.begin = 0 /\ frag.end = SizeOf(frag.msg)
      BY <1>1 DEF IInv, FramesAreRight, FrameOK
    <3>2. x[1] = frag /\ Len(x) = 1
      OBVIOUS
    <3> HIDE DEF x
    <3>3. /\ \A i \in 1 .. Len(x) : i = 1
          /\ \A i \in 1 .. Len(x) - 1 : FALSE
      BY <3>2
    <3> QED BY <3>1, <3>2, <3>3 DEF IsMessage
  <2>2. received' \subseteq received \cup {x}
    BY <1>3
  <2> HIDE DEF x
  <2> QED BY <2>1, <2>2 DEF IInv, ReceivedWasSent, IsMessage
<1> QED BY <1>1, <1>2, <1>4, <1>5, <1>6, FewerInFlight DEF IInv

\* A fragment that is stored while others are missing
LEMMA StoringKeepsIInv ==
  ASSUME IInv, NEW frag \in medium, Arrive(frag),
         ~IsWhole(frag), ~Disabled(frag), ~Malformed(frag),
         ~Refused(PartialOf(partial, frag), frag),
         ~IsComplete(AddFragment(PartialOf(partial, frag), frag, now)),
         Stored(frag, PartialOf(partial, frag)),
         lastNew' = Put(lastNew, Key(frag), now), received' = received
  PROVE  IInv'
<1> DEFINE np == AddFragment(PartialOf(partial, frag), frag, now)
           k == Key(frag)
<1>1. /\ frag \in InFlight /\ medium' \subseteq medium
      /\ UNCHANGED <<options, unsent, lastSeq, now, expired>>
      /\ repeats' \in 0 .. MaxRepeats
      /\ arrived' \in [Messages -> SUBSET Nat] /\ \A m \in unsent' : arrived'[m] = {}
      /\ arrived'[frag.msg] = arrived[frag.msg] \cup {frag.index}
  BY ArriveFacts
<1>2. /\ np = [count |-> np.count, got |-> np.got, dropAt |-> np.dropAt]
      /\ np.count = frag.count /\ np.dropAt = now + ReassemblyTimeout
      /\ DOMAIN np.got \subseteq 0 .. frag.count - 1 /\ frag.index \in DOMAIN np.got
      /\ k \in DOMAIN partial => DOMAIN np.got = DOMAIN partial[k].got \cup {frag.index}
      /\ k \notin DOMAIN partial => DOMAIN np.got = {frag.index}
      /\ \A i \in DOMAIN np.got :
            LET f == np.got[i] IN
            /\ f \in InFlight /\ ~IsWhole(f) /\ Key(f) = k /\ Reaches(f)
            /\ f.index = i /\ f.count = frag.count /\ f.msg = frag.msg
      /\ IsComplete(np) <=> DOMAIN np.got = 0 .. frag.count - 1
  BY AddedFacts
<1>3. /\ DOMAIN partial' = DOMAIN partial \cup {k} /\ partial'[k] = np
      /\ \A j \in DOMAIN partial : j # k => partial'[j] = partial[j]
      /\ DOMAIN lastNew' = DOMAIN lastNew \cup {k} /\ lastNew'[k] = now
      /\ \A j \in DOMAIN lastNew : j # k => lastNew'[j] = lastNew[j]
  BY DEF Stored, Put
<1>4. ~IsComplete(np)
  OBVIOUS
<1> HIDE DEF np, k
<1>5. InFlight' \subseteq InFlight
  <2> SUFFICES ASSUME NEW j \in DOMAIN partial', NEW i \in DOMAIN partial'[j].got
               PROVE  partial'[j].got[i] \in InFlight
    BY <1>1 DEF InFlight
  <2>1. CASE j = k
    BY <1>2, <1>3, <2>1
  <2>2. CASE j # k
    BY <1>3, <2>2 DEF InFlight
  <2> QED BY <2>1, <2>2
<1>6. ArrivalsAreStored'
  <2>1. ASSUME Reaches(frag)
        PROVE  ArrivedIsStored(frag)'
    <3>1. ArrivedIsStored(frag)
      BY <1>1, <2>1 DEF IInv, ArrivalsAreStored
    <3>2. Settled(frag) => Settled(frag)'
      BY <1>1, SettledStays
    <3>3. Key(frag)' = k
      BY DEF Key, k
    <3>4. ~Settled(frag) => arrived'[frag.msg] = DOMAIN np.got
      BY <1>1, <1>2, <3>1 DEF ArrivedIsStored, k
    <3> QED BY <1>3, <3>2, <3>3, <3>4 DEF ArrivedIsStored
  <2>2. \A j \in (DOMAIN partial \cup DOMAIN partial') \ {Key(frag)} :
          j \in DOMAIN partial /\ j \in DOMAIN partial' /\ partial'[j] = partial[j]
    BY <1>3 DEF k
  <2> QED BY <1>5, <2>1, <2>2, ArrivalKeepsStored
<1>7. PartialsAreRight'
  <2> SUFFICES ASSUME NEW j \in DOMAIN partial' PROVE PartialOK(j)'
    BY DEF PartialsAreRight
  <2>1. CASE j = k
    <3>1. DOMAIN np.got # {} /\ DOMAIN np.got # 0 .. np.count - 1
      BY <1>2, <1>4
    <3>2. np.count \in Nat /\ now \in Nat
      BY <1>1, <1>2, FragmentFacts, LinkAssumption DEF IInv
    <3>3. \A i \in DOMAIN np.got :
            LET f == np.got[i] IN
            ~IsWhole(f) /\ Key(f) = k /\ f.index = i /\ f.count = np.count /\ Reaches(f)
      BY <1>2
    <3> QED BY <1>1, <1>2, <1>3, <2>1, <3>1, <3>2, <3>3 DEF PartialOK, IsWhole, Key, Reaches
  <2>2. CASE j # k
    <3>1. PartialOK(j) /\ j \in DOMAIN partial
      BY <1>3, <2>2 DEF IInv, PartialsAreRight
    <3>2. partial'[j] = partial[j] /\ j \in DOMAIN lastNew /\ lastNew'[j] = lastNew[j]
          /\ j \in DOMAIN lastNew'
      BY <1>3, <2>2, <3>1 DEF PartialOK
    <3> QED BY <1>1, <3>1, <3>2 DEF PartialOK, IsWhole, Key, Reaches
  <2> QED BY <2>1, <2>2
<1>8. ReceivedWasSent'
  BY DEF IInv, ReceivedWasSent
<1> QED BY <1>1, <1>5, <1>6, <1>7, <1>8, FewerInFlight DEF IInv

\* The last fragment that was missing
LEMMA CompletingKeepsIInv ==
  ASSUME IInv, NEW frag \in medium, Arrive(frag),
         ~IsWhole(frag), ~Disabled(frag), ~Malformed(frag),
         ~Refused(PartialOf(partial, frag), frag),
         NEW np, np = AddFragment(PartialOf(partial, frag), frag, now), IsComplete(np),
         HandUp(Reassembled(np)),
         partial' = Restrict(partial, DOMAIN partial \ {Key(frag)}),
         lastNew' = Put(lastNew, Key(frag), now)
  PROVE  IInv'
<1> DEFINE k == Key(frag)
           m == frag.msg
           x == Reassembled(np)
<1>1. /\ frag \in InFlight /\ medium' \subseteq medium
      /\ UNCHANGED <<options, unsent, lastSeq, now, expired>>
      /\ repeats' \in 0 .. MaxRepeats
      /\ arrived' \in [Messages -> SUBSET Nat] /\ \A n \in unsent' : arrived'[n] = {}
  BY ArriveFacts
<1>2. /\ DOMAIN np.got = 0 .. frag.count - 1 /\ np.count = frag.count
      /\ \A i \in DOMAIN np.got :
            LET f == np.got[i] IN
            /\ f \in InFlight /\ ~IsWhole(f) /\ f.index = i /\ f.msg = m
  BY AddedFacts
<1>3. m \in Messages /\ IsCut(m) /\ frag.count = NumberOf(m)
  BY <1>1, FragmentFacts
<1>4. /\ DOMAIN partial' = DOMAIN partial \ {k}
      /\ \A j \in DOMAIN partial' : partial'[j] = partial[j]
      /\ \A j \in DOMAIN lastNew : j # k => j \in DOMAIN lastNew' /\ lastNew'[j] = lastNew[j]
  BY DEF Restrict, Put
<1>5. x = [i \in 1 .. NumberOf(m) |-> np.got[i - 1]]
  BY <1>2, <1>3 DEF Reassembled
<1>6. received' = IF Accepted(x[1]) THEN received \cup {x} ELSE received
  BY DEF HandUp
<1> HIDE DEF k, m, x
<1>7. x[1].msg = m /\ IsMessage(x)
  <2> DEFINE got == np.got
  <2>1. AreFragments(got, m)
    BY <1>2, <1>3, FragmentFacts DEF AreFragments
  <2> HIDE DEF got
  <2>2. x = [i \in 1 .. NumberOf(m) |-> got[i - 1]]
    BY <1>5 DEF got
  <2> QED BY ZenonT(30), <1>3, <2>1, <2>2, Assembled
<1>8. InFlight' \subseteq InFlight
  <2> SUFFICES ASSUME NEW f \in InFlight' PROVE f \in InFlight
    OBVIOUS
  <2>1. CASE f \in medium'
    BY <1>1, <2>1 DEF InFlight
  <2>2. CASE f \notin medium'
    <3>1. PICK j \in DOMAIN partial' : \E i \in DOMAIN partial'[j].got : f = partial'[j].got[i]
      BY <2>2 DEF InFlight
    <3>2. PICK i \in DOMAIN partial'[j].got : f = partial'[j].got[i]
      BY <3>1
    <3>3. j \in DOMAIN partial /\ i \in DOMAIN partial[j].got /\ f = partial[j].got[i]
      BY <1>4, <3>2
    <3> QED BY <3>3, StoredFacts
  <2> QED BY <2>1, <2>2
<1>9. ArrivalsAreStored'
  <2>1. Settled(frag)'
    <3>1. Accepted(frag)' <=> Accepted(x[1])
      BY <1>1, <1>7 DEF Accepted, m
    <3> QED BY <1>6, <1>7, <3>1 DEF Settled, m
  <2>2. \A j \in (DOMAIN partial \cup DOMAIN partial') \ {Key(frag)} :
          j \in DOMAIN partial /\ j \in DOMAIN partial' /\ partial'[j] = partial[j]
    BY <1>4 DEF k
  <2>3. received \subseteq received'
    BY <1>6
  <2>4. ArrivedIsStored(frag)'
    BY <2>1 DEF ArrivedIsStored
  <2> QED BY <1>8, <2>2, <2>3, <2>4, ArrivalKeepsStored
<1>10. PartialsAreRight'
  <2> SUFFICES ASSUME NEW j \in DOMAIN partial' PROVE PartialOK(j)'
    BY DEF PartialsAreRight
  <2>1. PartialOK(j) /\ j \in DOMAIN partial /\ j # k /\ partial'[j] = partial[j]
    BY <1>4 DEF IInv, PartialsAreRight
  <2>2. j \in DOMAIN lastNew /\ lastNew'[j] = lastNew[j] /\ j \in DOMAIN lastNew'
    BY <1>4, <2>1 DEF PartialOK
  <2> QED BY ZenonT(30), <1>1, <2>1, <2>2 DEF PartialOK, IsWhole, Key, Reaches
<1>11. ReceivedWasSent'
  BY <1>6, <1>7 DEF IInv, ReceivedWasSent, IsMessage
<1> QED BY <1>1, <1>8, <1>9, <1>10, <1>11, FewerInFlight DEF IInv

LEMMA ArriveKeepsIInv ==
  ASSUME IInv, NEW frag \in medium, Arrive(frag)
  PROVE  IInv'
<1> DEFINE np == AddFragment(PartialOf(partial, frag), frag, now)
<1>1. ReceiveFragment(frag)
  BY DEF Arrive
<1>2. CASE Disabled(frag) \/ Malformed(frag)
  BY <1>1, <1>2, DroppedKeepsIInv DEF ReceiveFragment
<1>3. CASE IsWhole(frag) /\ ~Malformed(frag) /\ ~Disabled(frag)
  BY <1>1, <1>3, WholeKeepsIInv DEF ReceiveFragment
<1>4. CASE ~IsWhole(frag) /\ ~Malformed(frag) /\ ~Disabled(frag)
  <2>1. CASE Refused(PartialOf(partial, frag), frag)
    BY <1>1, <1>4, <2>1, DroppedKeepsIInv DEF ReceiveFragment
  <2>2. CASE ~Refused(PartialOf(partial, frag), frag) /\ ~IsComplete(np)
    BY <1>1, <1>4, <2>2, StoringKeepsIInv DEF ReceiveFragment
  <2>3. CASE ~Refused(PartialOf(partial, frag), frag) /\ IsComplete(np)
    <3>1. /\ lastNew' = Put(lastNew, Key(frag), now)
          /\ HandUp(Reassembled(np))
          /\ partial' = Restrict(partial, DOMAIN partial \ {Key(frag)})
      BY <1>1, <1>4, <2>3 DEF ReceiveFragment
    <3> QED BY <1>4, <2>3, <3>1, CompletingKeepsIInv
  <2> QED BY <2>1, <2>2, <2>3
<1> QED BY <1>2, <1>3, <1>4

-----------------------------------------------------------------------------
(* Time keeps the invariant *)

\* A timeout gives up what is stored, and the message is owed nothing more.
LEMMA DropKeepsIInv ==
  ASSUME IInv, NEW k \in DOMAIN partial, DropTimer(k)
  PROVE  IInv'
<1>1. /\ UNCHANGED <<options, unsent, lastSeq, medium, repeats, received, now, arrived, lastNew>>
      /\ expired' = expired \cup {k}
      /\ DOMAIN partial' = DOMAIN partial \ {k}
      /\ \A j \in DOMAIN partial' : partial'[j] = partial[j]
  BY DEF DropTimer, Restrict
<1>2. InFlight' \subseteq InFlight
  <2> SUFFICES ASSUME NEW f \in InFlight' PROVE f \in InFlight
    OBVIOUS
  <2>1. CASE f \in medium'
    BY <1>1, <2>1 DEF InFlight
  <2>2. CASE f \notin medium'
    <3>1. PICK j \in DOMAIN partial' : \E i \in DOMAIN partial'[j].got : f = partial'[j].got[i]
      BY <2>2 DEF InFlight
    <3>2. PICK i \in DOMAIN partial'[j].got : f = partial'[j].got[i]
      BY <3>1
    <3>3. j \in DOMAIN partial /\ i \in DOMAIN partial[j].got /\ f = partial[j].got[i]
      BY <1>1, <3>2
    <3> QED BY <3>3, StoredFacts
  <2> QED BY <2>1, <2>2
<1>3. ArrivalsAreStored'
  <2> SUFFICES ASSUME NEW f \in InFlight, ~IsWhole(f), Reaches(f)
               PROVE  ArrivedIsStored(f)'
    BY <1>1, <1>2 DEF ArrivalsAreStored, IsWhole, Reaches
  <2>1. ArrivedIsStored(f)
    BY DEF IInv, ArrivalsAreStored
  <2>2. Settled(f) => Settled(f)'
    BY <1>1, SettledStays
  <2>3. CASE Key(f) = k
    BY <1>1, <2>3 DEF ArrivedIsStored, Settled, Key
  <2>4. CASE Key(f) # k
    <3>1. /\ Key(f) \in DOMAIN partial' <=> Key(f) \in DOMAIN partial
          /\ Key(f) \in DOMAIN partial => partial'[Key(f)] = partial[Key(f)]
      BY <1>1, <2>4
    <3>2. Key(f)' = Key(f)
      BY DEF Key
    <3> QED BY <1>1, <2>1, <2>2, <3>1, <3>2 DEF ArrivedIsStored
  <2> QED BY <2>3, <2>4
<1>4. PartialsAreRight'
  <2> SUFFICES ASSUME NEW j \in DOMAIN partial' PROVE PartialOK(j)'
    BY DEF PartialsAreRight
  <2>1. PartialOK(j) /\ partial'[j] = partial[j]
    BY <1>1 DEF IInv, PartialsAreRight
  <2> QED BY <1>1, <2>1 DEF PartialOK, IsWhole, Key, Reaches
<1>5. ReceivedWasSent'
  BY <1>1 DEF IInv, ReceivedWasSent
<1> QED BY <1>1, <1>2, <1>3, <1>4, <1>5, FewerInFlight DEF IInv

LEMMA TickKeepsIInv ==
  ASSUME IInv, UNCHANGED <<options, unsent, lastSeq, medium, repeats, partial, received, history>>,
         now' \in 0 .. MaxTime
  PROVE  IInv'
<1>1. UNCHANGED <<options, unsent, lastSeq, medium, repeats, partial, received, arrived, lastNew, expired>>
  BY DEF history
<1>2. InFlight' = InFlight
  BY <1>1 DEF InFlight
<1>3. ArrivalsAreStored'
  BY <1>1, <1>2 DEF IInv, ArrivalsAreStored, ArrivedIsStored, Settled, Accepted, IsWhole, Reaches, Key
<1>4. PartialsAreRight'
  BY <1>1 DEF IInv, PartialsAreRight, PartialOK, IsWhole, Key, Reaches
<1>5. ReceivedWasSent'
  BY <1>1 DEF IInv, ReceivedWasSent
<1> QED BY <1>1, <1>2, <1>3, <1>4, <1>5, FewerInFlight DEF IInv

-----------------------------------------------------------------------------
(* The theorems *)

LEMMA InitIInv ==
  ASSUME Init
  PROVE  IInv
<1>1. InFlight = {}
  BY DEF Init, InFlight
<1>2. SeqModulus \in Nat /\ SeqModulus > 0 /\ MaxSent \in Nat /\ MaxRepeats \in Nat /\ MaxTime \in Nat
  BY ReassemblerAssumption, FragmenterAssumption, LinkAssumption
<1>3. (-2) % SeqModulus \in 0 .. SeqModulus - 1
  <2> DEFINE a == -2
  <2>1. a \in Int
    OBVIOUS
  <2> HIDE DEF a
  <2>2. a % SeqModulus \in 0 .. SeqModulus - 1
    BY <1>2, <2>1, DivMod
  <2> QED BY <2>2 DEF a
<1>4. NumbersAreLeft
  <2> SUFFICES ASSUME NEW s \in Senders
               PROVE  Given(s) <= MaxSent * Cardinality(Messages \ unsent)
    BY DEF NumbersAreLeft
  <2>1. Given(s) = (((-2) % SeqModulus) + 2) % SeqModulus
    BY DEF Init, Given
  <2>2. (((-2) % SeqModulus) + 2) % SeqModulus = 0
    <3> DEFINE a == -2
               b == 2
               c == a + b
    <3>1. a \in Int /\ b \in Int
      OBVIOUS
    <3>2. c = 0
      OBVIOUS
    <3>3. 0 % SeqModulus = 0
      BY <1>2, ModSmall
    <3> HIDE DEF a, b
    <3>4. ((a % SeqModulus) + b) % SeqModulus = c % SeqModulus
      BY <1>2, <3>1, ModAdd
    <3> QED BY <3>2, <3>3, <3>4 DEF a, b
  <2>3. Messages \ unsent = {}
    BY DEF Init
  <2>4. Cardinality(Messages \ unsent) = 0
    BY <2>3, FS_EmptySet
  <2> QED BY <1>2, <2>1, <2>2, <2>4
<1>5. FramesAreRight /\ KeysAreRight /\ ArrivalsAreStored
  BY <1>1 DEF FramesAreRight, KeysAreRight, ArrivalsAreStored
<1>6. PartialsAreRight
  <2>1. DOMAIN <<>> = {}
    OBVIOUS
  <2> QED BY <2>1 DEF Init, PartialsAreRight
<1>7. ReceivedWasSent
  BY DEF Init, ReceivedWasSent
<1>8. /\ unsent \subseteq Messages /\ repeats \in 0 .. MaxRepeats /\ now \in 0 .. MaxTime
      /\ arrived \in [Messages -> SUBSET Nat] /\ \A m \in unsent : arrived[m] = {}
  BY <1>2 DEF Init
<1>9. lastSeq \in [Senders -> 0 .. SeqModulus - 1]
  BY <1>3 DEF Init
<1> QED BY <1>4, <1>5, <1>6, <1>7, <1>8, <1>9 DEF IInv

\* IInv holds in every reachable state.
THEOREM Invariance == Spec => []IInv
<1>1. ASSUME IInv, [Next]_vars
      PROVE  IInv'
  <2>1. CASE Tick
    BY <1>1, <2>1, TickKeepsIInv, LinkAssumption DEF Tick, IInv
  <2>2. CASE UNCHANGED vars
    BY <1>1, <2>2, TickKeepsIInv DEF vars, history, IInv
  <2> QED BY <1>1, <2>1, <2>2, SendKeepsIInv, ArriveKeepsIInv, DropKeepsIInv DEF Next
<1> QED BY <1>1, InitIInv, PTL DEF Spec

\* Every reachable state is well-typed, and a partial packet always lacks a fragment, but
\* not every one (lp-reassembler.cpp:100-122).
THEOREM TypeCorrect == Spec => []TypeOK
<1>1. ASSUME IInv
      PROVE  TypeOK
  <2>1. ASSUME NEW k \in DOMAIN partial
        PROVE  /\ k \in Senders \X (0 .. SeqModulus - 1)
               /\ DOMAIN partial[k].got \subseteq 0 .. partial[k].count - 1
               /\ Cardinality(DOMAIN partial[k].got) \in 1 .. partial[k].count - 1
    <3> DEFINE S == DOMAIN partial[k].got
               n == partial[k].count
    <3>1. n \in Nat /\ S \subseteq 0 .. n - 1 /\ S # {} /\ S # 0 .. n - 1
      BY <1>1 DEF IInv, PartialsAreRight, PartialOK
    <3>2. PICK i \in S : TRUE
      BY <3>1
    <3> DEFINE f == partial[k].got[i]
    <3>3. f \in InFlight /\ ~IsWhole(f) /\ Key(f) = k
      BY <1>1, <3>2, StoredFacts
    <3>4. k \in Senders \X (0 .. SeqModulus - 1)
      <4> HIDE DEF f
      <4>1. f.from \in Senders /\ f.seq \in Int
        BY <1>1, <3>3, MessageFacts DEF IInv, FramesAreRight, FrameOK
      <4>2. f.index \in Nat
        BY <1>1, <3>3, FragmentFacts
      <4> DEFINE a == f.seq - f.index
      <4>3. a \in Int /\ SeqModulus \in Nat /\ SeqModulus > 0
        BY <4>1, <4>2, ReassemblerAssumption
      <4>4. k = <<f.from, a % SeqModulus>>
        BY <3>3 DEF Key
      <4> HIDE DEF a
      <4>5. a % SeqModulus \in 0 .. SeqModulus - 1
        BY <4>3, DivMod
      <4> QED BY <4>1, <4>4, <4>5
    <3> HIDE DEF S, n
    <3>5. /\ Cardinality(S) \in 0 .. n
          /\ Cardinality(S) = n <=> S = 0 .. n - 1
          /\ Cardinality(S) = 0 <=> S = {}
      BY <3>1, Full
    <3>6. Cardinality(S) \in 1 .. n - 1
      BY <3>1, <3>5
    <3> QED BY <3>1, <3>4, <3>6 DEF S, n
  <2> QED BY <1>1, <2>1 DEF TypeOK, IInv
<1> QED BY <1>1, Invariance, PTL

\* Whatever the medium loses, repeats and reorders, and whatever is sent by others, a packet
\* that is handed to the forwarder is one that was sent (lp-reassembler.cpp doReassembly).
THEOREM OnlySentIsReceived == Spec => []ReceivedWasSent
<1>1. IInv => ReceivedWasSent
  BY DEF IInv
<1> QED BY <1>1, Invariance, PTL

\* A partial packet lacks a fragment only if it did not arrive, or arrived after a timeout
\* (lp-reassembler.cpp:107).
THEOREM WhatArrivedIsComplete == Spec => []NothingIsLeftIncomplete
<1>1. ASSUME IInv
      PROVE  NothingIsLeftIncomplete
  <2> SUFFICES ASSUME NEW k \in DOMAIN partial, NEW i \in DOMAIN partial[k].got,
                      arrived[partial[k].got[i].msg] = 0 .. partial[k].got[i].count - 1
               PROVE  \/ k \in expired \/ ~Accepted(partial[k].got[i])
                      \/ \E frags \in received : frags[1].msg = partial[k].got[i].msg
    BY DEF NothingIsLeftIncomplete
  <2> DEFINE f == partial[k].got[i]
  <2>1. f \in InFlight /\ ~IsWhole(f) /\ Key(f) = k /\ Reaches(f) /\ f.count = partial[k].count
    BY <1>1, StoredFacts
  <2>2. arrived[f.msg] # DOMAIN partial[k].got
    BY <1>1, <2>1 DEF IInv, PartialsAreRight, PartialOK
  <2> HIDE DEF f
  <2>3. Settled(f)
    BY <1>1, <2>1, <2>2 DEF IInv, ArrivalsAreStored, ArrivedIsStored
  <2> QED BY <2>1, <2>3 DEF Settled, f
<1> QED BY <1>1, Invariance, PTL

\* The timer drops a partial packet only when no new fragment came for the whole timeout
\* (lp-reassembler.cpp:121).
THEOREM TimeoutsAreOfIdlePartials == Spec => OnlyIdlePartialsExpire
<1>1. ASSUME IInv, NEW k \in DOMAIN partial, DropTimer(k)
      PROVE  now >= lastNew[k] + ReassemblyTimeout
  BY <1>1 DEF IInv, PartialsAreRight, PartialOK, DropTimer
<1>2. IInv /\ [Next]_vars =>
        [\A k \in DOMAIN partial : DropTimer(k) => now >= lastNew[k] + ReassemblyTimeout]_vars
  BY <1>1
<1> QED BY <1>2, Invariance, PTL DEF Spec, OnlyIdlePartialsExpire

===============================================================================
