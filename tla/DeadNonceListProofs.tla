------------------------ MODULE DeadNonceListProofs ------------------------
(* Theorems about module DeadNonceList, for every value of its constants.   *)
EXTENDS DeadNonceList, SequenceTheorems, FiniteSetTheorems, TLAPS

-----------------------------------------------------------------------------
(* The operators                                                            *)

\* evictEntries drops a prefix of the queue.  It never drops more than exceeds
\* the capacity, and less only when the limit stops it.
LEMMA EvictFacts ==
  ASSUME NEW S, NEW s \in Seq(S), NEW c \in Nat
  PROVE  /\ EvictEntries(s, c) \in Seq(S)
         /\ \E k \in 0 .. Len(s) :
              /\ Len(EvictEntries(s, c)) = Len(s) - k
              /\ \A i \in 1 .. Len(s) - k : EvictEntries(s, c)[i] = s[i + k]
              /\ k = 0 \/ Len(s) - k >= c
              /\ Len(s) - k <= c \/ k = EvictLimit
<1> DEFINE nOver == Len(s) - c
           k == IF nOver <= 0 THEN 0 ELSE IF nOver <= EvictLimit THEN nOver ELSE EvictLimit
<1>1. Len(s) \in Nat /\ EvictLimit \in Nat \ {0}
  BY LenProperties, DeadNonceListAssumption
<1>2. /\ k \in 0 .. Len(s)
      /\ k = 0 \/ Len(s) - k >= c
      /\ Len(s) - k <= c \/ k = EvictLimit
  BY <1>1
<1>3. EvictEntries(s, c) = IF nOver <= 0 THEN s ELSE SubSeq(s, k + 1, Len(s))
  BY DEF EvictEntries
<1> HIDE DEF k
<1>4. /\ EvictEntries(s, c) \in Seq(S)
      /\ Len(EvictEntries(s, c)) = Len(s) - k
      /\ \A i \in 1 .. Len(s) - k : EvictEntries(s, c)[i] = s[i + k]
  <2>1. CASE nOver <= 0
    <3>1. k = 0 /\ EvictEntries(s, c) = s
      BY <2>1, <1>3 DEF k
    <3> QED BY <3>1, <1>1
  <2>2. CASE ~(nOver <= 0)
    <3> DEFINE t == SubSeq(s, k + 1, Len(s))
    <3>1. k + 1 \in Int /\ Len(s) \in Int /\ \A i \in k + 1 .. Len(s) : s[i] \in S
      BY <1>1, <1>2, ElementOfSeq
    <3>2. /\ t \in Seq(S)
          /\ Len(t) = IF k + 1 <= Len(s) THEN Len(s) - (k + 1) + 1 ELSE 0
          /\ \A i \in 1 .. Len(s) - (k + 1) + 1 : t[i] = s[(k + 1) + i - 1]
      BY <3>1, SubSeqProperties
    <3>3. EvictEntries(s, c) = t
      BY <2>2, <1>3
    <3> HIDE DEF t
    <3>4. Len(t) = Len(s) - k
      BY <3>2, <1>1, <1>2
    <3>5. ASSUME NEW i \in 1 .. Len(s) - k PROVE t[i] = s[i + k]
      <4>1. i \in 1 .. Len(s) - (k + 1) + 1 /\ (k + 1) + i - 1 = i + k
        BY <1>1, <1>2
      <4> QED BY <4>1, <3>2
    <3> QED BY <3>2, <3>3, <3>4, <3>5
  <2> QED BY <2>1, <2>2
<1> QED BY <1>2, <1>4

\* adjustCapacity stays within the hard limits.
LEMMA CapacityFacts ==
  ASSUME NEW c \in MinCapacity .. MaxCapacity, NEW counts
  PROVE  AdjustedCapacity(c, counts) \in MinCapacity .. MaxCapacity
<1>1. MinCapacity \in Nat \ {0} /\ MaxCapacity \in Nat /\ MinCapacity <= MaxCapacity
  BY DeadNonceListAssumption
<1>2. /\ CapacityDown(c) \in Nat /\ CapacityDown(c) <= c
      /\ CapacityUp(c) \in Nat /\ CapacityUp(c) >= c
  BY <1>1, Z3 DEF CapacityDown, CapacityUp
<1> QED BY <1>1, <1>2 DEF AdjustedCapacity

\* The number of MARKs is a natural number.
LEMMA CountMarksType ==
  ASSUME NEW S, NEW s \in Seq(S)
  PROVE  CountMarks(s) \in Nat
<1>1. IsFiniteSet(1 .. Len(s))
  BY LenProperties, FS_Interval
<1>2. IsFiniteSet({n \in 1 .. Len(s) : s[n] = MARK})
  BY <1>1, FS_Subset
<1> QED BY <1>2, FS_CardinalityType DEF CountMarks

-----------------------------------------------------------------------------
(* The invariants                                                           *)

\* Since the last adjustment, which leaves no more than the capacity and the
\* MARK of a tie, only MARKs have made the queue longer: one in every tick.
LengthFollowsTimers ==
  Len(queue) <= MaxCapacity + (Lifetime - adjustIn) + markIn

\* An entry is followed in the queue by later entries and by the MARKs of the
\* ticks since it was added, and by nothing else.
NearTheEnd(x) ==
  \E n \in 1 .. Len(queue) :
    queue[n] = x /\ Len(queue) - n <= later[x] + age[x] + markIn

InLifetime(x) ==
  age[x] <= Lifetime /\ later[x] + ExpectedMarkCount + 2 <= MinCapacity

RecentIsNearTheEnd == \A x \in Entries : InLifetime(x) => NearTheEnd(x)

IInv == TypeOK /\ LengthFollowsTimers /\ RecentIsNearTheEnd

LEMMA InitIInv == Init => IInv
<1> SUFFICES ASSUME Init PROVE IInv
  OBVIOUS
<1>1. /\ ExpectedMarkCount \in Nat \ {0} /\ MinCapacity \in Nat \ {0}
      /\ InitialCapacity \in Nat /\ MaxCapacity \in Nat
      /\ ExpectedMarkCount <= MinCapacity /\ MinCapacity <= InitialCapacity
      /\ InitialCapacity <= MaxCapacity
  BY DeadNonceListAssumption
<1>2. queue \in Seq(Entries \cup {MARK}) /\ Len(queue) = ExpectedMarkCount
  BY <1>1 DEF Init
<1>3. TypeOK
  BY <1>1, <1>2 DEF Init, TypeOK, Lifetime, Forgotten
<1>4. LengthFollowsTimers
  BY <1>1, <1>2 DEF Init, LengthFollowsTimers, Lifetime
<1>5. RecentIsNearTheEnd
  BY <1>1 DEF Init, RecentIsNearTheEnd, InLifetime, Lifetime, Forgotten
<1> QED BY <1>3, <1>4, <1>5 DEF IInv

\* What follows from the assumption on the constants and from the types.
LEMMA Numbers ==
  ASSUME TypeOK
  PROVE  /\ ExpectedMarkCount \in Nat \ {0} /\ MinCapacity \in Nat \ {0}
         /\ MaxCapacity \in Nat /\ EvictLimit \in Nat /\ EvictLimit > ExpectedMarkCount
         /\ Lifetime = ExpectedMarkCount /\ Forgotten = ExpectedMarkCount + 1
         /\ capacity \in Nat /\ MinCapacity <= capacity /\ capacity <= MaxCapacity
         /\ queue \in Seq(Entries \cup {MARK}) /\ Len(queue) \in Nat
         /\ markIn \in Nat /\ markIn <= 1 /\ adjustIn \in Nat /\ adjustIn <= ExpectedMarkCount
BY DeadNonceListAssumption DEF TypeOK, Lifetime, Forgotten

LEMMA EntryNumbers ==
  ASSUME TypeOK, NEW x \in Entries
  PROVE  /\ age[x] \in Nat /\ age[x] <= ExpectedMarkCount + 1
         /\ later[x] \in Nat /\ later[x] <= MinCapacity
BY DeadNonceListAssumption DEF TypeOK, Lifetime, Forgotten

LEMMA Sums ==
  \A l, a, m \in Nat : /\ (l + 1) + a + m = l + a + m + 1 /\ l + a + m + 1 \in Nat
                       /\ m > 0 => l + (a + 1) + (m - 1) = l + a + m
OBVIOUS

LEMMA RoomForOne ==
  \A l, a, m, e, c \in Nat :
    a <= e /\ m <= 1 /\ (l + 1) + e + 2 <= c => l + a + m + 1 < c
OBVIOUS

\* The bound on the distance from the end leaves room for one more element.
LEMMA LifetimeLeavesRoom ==
  ASSUME TypeOK, NEW y \in Entries, InLifetime(y)
  PROVE  later[y] + age[y] + markIn < MinCapacity
<1>1. /\ later[y] \in Nat /\ age[y] \in Nat /\ markIn \in Nat /\ markIn <= 1
      /\ MinCapacity \in Nat /\ ExpectedMarkCount \in Nat
  BY Numbers, EntryNumbers
<1>2. age[y] <= ExpectedMarkCount /\ later[y] + ExpectedMarkCount + 2 <= MinCapacity
  BY DEF InLifetime, Lifetime
<1> QED BY <1>1, <1>2

\* Eviction leaves what is near the end of the queue.
LEMMA EvictKeepsTheEnd ==
  ASSUME NEW S, NEW s \in Seq(S), NEW c \in Nat, NEW n \in 1 .. Len(s), Len(s) - n < c
  PROVE  \E m \in 1 .. Len(EvictEntries(s, c)) :
           /\ EvictEntries(s, c)[m] = s[n]
           /\ Len(EvictEntries(s, c)) - m = Len(s) - n
<1>1. PICK k \in 0 .. Len(s) :
              /\ Len(EvictEntries(s, c)) = Len(s) - k
              /\ \A i \in 1 .. Len(s) - k : EvictEntries(s, c)[i] = s[i + k]
              /\ k = 0 \/ Len(s) - k >= c
  BY EvictFacts
<1>2. Len(s) \in Nat
  BY LenProperties
<1> DEFINE m == n - k
<1>3. m \in 1 .. Len(s) - k /\ m + k = n
  BY <1>1, <1>2
<1>4. EvictEntries(s, c)[m] = s[n] /\ Len(EvictEntries(s, c)) - m = Len(s) - n
  BY <1>1, <1>2, <1>3
<1> QED BY <1>1, <1>3, <1>4

LEMMA AddKeepsIInv ==
  ASSUME IInv, NEW x \in Entries, Add(x)
  PROVE  IInv'
<1> DEFINE S == Entries \cup {MARK}
           s == Append(queue, x)
<1>1. TypeOK /\ LengthFollowsTimers /\ RecentIsNearTheEnd
  BY DEF IInv
<1>2. /\ s \in Seq(S) /\ Len(s) = Len(queue) + 1
      /\ \A i \in 1 .. Len(queue) : s[i] = queue[i]
      /\ s[Len(queue) + 1] = x
  BY <1>1, AppendProperties, x \in S DEF TypeOK
<1>3. queue' = EvictEntries(s, capacity)
  BY DEF Add
<1> HIDE DEF s
<1>4. /\ queue' \in Seq(S) /\ Len(queue') \in Nat
      /\ Len(queue') <= Len(queue) \/ Len(queue') <= capacity
  <2>1. PICK k \in 0 .. Len(s) : /\ Len(queue') = Len(s) - k
                                 /\ Len(s) - k <= capacity \/ k = EvictLimit
    BY <1>1, <1>2, <1>3, EvictFacts, Numbers
  <2>2. queue' \in Seq(S)
    BY <1>1, <1>2, <1>3, EvictFacts, Numbers
  <2> QED BY <1>1, <1>2, <2>1, <2>2, Numbers
<1>5. TypeOK'
  <2>1. MinCapacity \in Nat /\ Forgotten \in Nat
    BY <1>1, Numbers
  <2>2. age' \in [Entries -> 0 .. Forgotten]
    BY <1>1, <2>1 DEF Add, TypeOK
  <2>3. later' \in [Entries -> 0 .. MinCapacity]
    BY <1>1, <2>1 DEF Add, TypeOK
  <2> QED BY <1>1, <1>4, <2>2, <2>3 DEF Add, TypeOK
<1>6. LengthFollowsTimers'
  BY <1>1, <1>4, Numbers DEF Add, LengthFollowsTimers, Lifetime
<1>7. ASSUME NEW y \in Entries, InLifetime(y)'
      PROVE  NearTheEnd(y)'
  <2> DEFINE back == later'[y] + age'[y] + markIn
  <2>1. PICK n \in 1 .. Len(s) : s[n] = y /\ Len(s) - n <= back /\ Len(s) - n < MinCapacity
    <3>1. CASE y = x
      <4>1. later'[x] = 0 /\ age'[x] = 0
        BY <1>1 DEF Add, TypeOK
      <4>2. Len(queue) \in Nat /\ MinCapacity \in Nat \ {0} /\ markIn \in Nat
        BY <1>1, Numbers
      <4>3. Len(s) \in 1 .. Len(s) /\ s[Len(s)] = x /\ Len(s) - Len(s) = 0
        BY <1>2, <4>2
      <4>4. back = markIn
        BY <3>1, <4>1, <4>2
      <4> QED BY <3>1, <4>2, <4>3, <4>4
    <3>2. CASE y # x
      <4>1. /\ age'[y] = age[y]
            /\ later'[y] = IF later[y] < MinCapacity THEN later[y] + 1 ELSE later[y]
        BY <3>2, <1>1 DEF Add, TypeOK
      <4>2. later'[y] = later[y] + 1 /\ InLifetime(y)
        <5>1. /\ MinCapacity \in Nat /\ ExpectedMarkCount \in Nat
              /\ later[y] \in Nat /\ later[y] <= MinCapacity
          BY <1>1, Numbers, EntryNumbers
        <5>2. age'[y] <= Lifetime /\ later'[y] + ExpectedMarkCount + 2 <= MinCapacity
          BY <1>7 DEF InLifetime
        <5>3. later'[y] = later[y] + 1
          BY <4>1, <5>1, <5>2
        <5>4. age[y] <= Lifetime /\ later[y] + ExpectedMarkCount + 2 <= MinCapacity
          BY <4>1, <5>1, <5>2, <5>3
        <5> QED BY <5>3, <5>4 DEF InLifetime
      <4>3. PICK n \in 1 .. Len(queue) :
              queue[n] = y /\ Len(queue) - n <= later[y] + age[y] + markIn
        BY <1>1, <4>2 DEF RecentIsNearTheEnd, NearTheEnd
      <4>4. back = later[y] + age[y] + markIn + 1 /\ back \in Nat
        <5>1. age[y] \in Nat /\ later[y] \in Nat /\ markIn \in Nat
          BY <1>1, Numbers, EntryNumbers
        <5>2. back = (later[y] + 1) + age[y] + markIn
          BY <4>1, <4>2
        <5> HIDE DEF back
        <5> QED BY ZenonT(30), <5>1, <5>2, Sums
      <4>5. back < MinCapacity
        <5>1. age'[y] <= ExpectedMarkCount /\ later'[y] + ExpectedMarkCount + 2 <= MinCapacity
          BY <1>7 DEF InLifetime, Lifetime
        <5>2. /\ age[y] \in Nat /\ later[y] \in Nat /\ markIn \in Nat /\ markIn <= 1
              /\ MinCapacity \in Nat /\ ExpectedMarkCount \in Nat
          BY <1>1, Numbers, EntryNumbers
        <5>3. age[y] <= ExpectedMarkCount /\ (later[y] + 1) + ExpectedMarkCount + 2 <= MinCapacity
          BY <4>1, <4>2, <5>1
        <5>4. back = later[y] + age[y] + markIn + 1
          BY <4>4
        <5> HIDE DEF back
        <5>5. later[y] + age[y] + markIn + 1 < MinCapacity
          BY <5>2, <5>3, RoomForOne
        <5> QED BY <5>4, <5>5
      <4> HIDE DEF back
      <4>6. n \in 1 .. Len(s) /\ s[n] = y /\ Len(s) - n = (Len(queue) - n) + 1
        BY <1>1, <1>2, <4>3, Numbers
      <4>7. Len(s) - n <= back /\ Len(s) - n < MinCapacity
        <5>1. /\ MinCapacity \in Nat /\ Len(queue) \in Nat /\ markIn \in Nat
              /\ age[y] \in Nat /\ later[y] \in Nat
          BY <1>1, Numbers, EntryNumbers
        <5>2. Len(queue) - n \in Nat /\ later[y] + age[y] + markIn \in Nat
          BY <5>1
        <5>3. Len(s) - n <= later[y] + age[y] + markIn + 1
          BY <4>3, <4>6, <5>2
        <5> QED BY <4>4, <4>5, <4>6, <5>1, <5>2, <5>3
      <4> QED BY <4>6, <4>7
    <3> QED BY <3>1, <3>2
  <2>2. PICK m \in 1 .. Len(queue') : queue'[m] = s[n] /\ Len(queue') - m = Len(s) - n
    <3>1. Len(s) - n < capacity /\ capacity \in Nat
      BY <1>1, <1>2, <2>1, Numbers
    <3> QED BY <1>2, <1>3, <3>1, EvictKeepsTheEnd
  <2> QED BY <2>1, <2>2 DEF Add, NearTheEnd
<1>8. RecentIsNearTheEnd'
  BY <1>7 DEF RecentIsNearTheEnd
<1> QED BY <1>5, <1>6, <1>8 DEF IInv

LEMMA MarkKeepsIInv ==
  ASSUME IInv, Mark
  PROVE  IInv'
<1> DEFINE S == Entries \cup {MARK}
<1>1. TypeOK /\ LengthFollowsTimers /\ RecentIsNearTheEnd
  BY DEF IInv
<1>2. /\ queue' \in Seq(S) /\ Len(queue') = Len(queue) + 1
      /\ \A i \in 1 .. Len(queue) : queue'[i] = queue[i]
  BY <1>1, AppendProperties, MARK \in S DEF Mark, TypeOK
<1>3. CountMarks(queue') \in Nat
  BY <1>2, CountMarksType
<1>4. TypeOK'
  <2>1. markIn' \in 0 .. 1
    BY DEF Mark
  <2>2. markCounts' \subseteq Nat
    BY <1>1, <1>3 DEF Mark, TypeOK
  <2> QED BY <1>1, <1>2, <2>1, <2>2 DEF Mark, TypeOK
<1>5. LengthFollowsTimers'
  BY <1>1, <1>2, Numbers DEF Mark, LengthFollowsTimers
<1>6. ASSUME NEW y \in Entries, InLifetime(y)'
      PROVE  NearTheEnd(y)'
  <2>1. InLifetime(y)
    BY <1>6 DEF InLifetime, Mark
  <2>2. PICK n \in 1 .. Len(queue) :
          queue[n] = y /\ Len(queue) - n <= later[y] + age[y] + markIn
    BY <1>1, <2>1 DEF RecentIsNearTheEnd, NearTheEnd
  <2>3. /\ n \in 1 .. Len(queue') /\ queue'[n] = y
        /\ Len(queue') - n <= later[y] + age[y] + markIn'
    <3>1. Len(queue) \in Nat /\ markIn = 0 /\ markIn' = 1 /\ later[y] \in Nat /\ age[y] \in Nat
      BY <1>1, Numbers, EntryNumbers DEF Mark
    <3> QED BY <1>2, <2>2, <3>1
  <2> QED BY <2>3 DEF NearTheEnd, Mark
<1>7. RecentIsNearTheEnd'
  BY <1>6 DEF RecentIsNearTheEnd
<1> QED BY <1>4, <1>5, <1>7 DEF IInv

LEMMA AdjustKeepsIInv ==
  ASSUME IInv, AdjustCapacity
  PROVE  IInv'
<1> DEFINE S == Entries \cup {MARK}
<1>1. TypeOK /\ LengthFollowsTimers /\ RecentIsNearTheEnd
  BY DEF IInv
<1>2. capacity' \in MinCapacity .. MaxCapacity
  BY <1>1, CapacityFacts DEF AdjustCapacity, TypeOK
<1>3. capacity' \in Nat /\ MinCapacity <= capacity' /\ capacity' <= MaxCapacity
  BY <1>1, <1>2, Numbers
<1>4. queue' = EvictEntries(queue, capacity')
  BY DEF AdjustCapacity
<1>5. PICK k \in 0 .. Len(queue) : /\ Len(queue') = Len(queue) - k
                                   /\ Len(queue) - k <= capacity' \/ k = EvictLimit
  BY <1>1, <1>3, <1>4, EvictFacts, Numbers
<1>6. queue' \in Seq(S)
  BY <1>1, <1>3, <1>4, EvictFacts, Numbers
<1>7. TypeOK'
  BY <1>1, <1>2, <1>6, Numbers DEF AdjustCapacity, TypeOK
<1>8. LengthFollowsTimers'
  BY SMTT(30), <1>1, <1>3, <1>5, Numbers DEF AdjustCapacity, LengthFollowsTimers
<1>9. ASSUME NEW y \in Entries, InLifetime(y)'
      PROVE  NearTheEnd(y)'
  <2>1. InLifetime(y)
    BY <1>9 DEF InLifetime, AdjustCapacity
  <2>2. PICK n \in 1 .. Len(queue) :
          queue[n] = y /\ Len(queue) - n <= later[y] + age[y] + markIn
    BY <1>1, <2>1 DEF RecentIsNearTheEnd, NearTheEnd
  <2>3. Len(queue) - n < capacity'
    <3>1. later[y] + age[y] + markIn < MinCapacity
      BY <1>1, <2>1, LifetimeLeavesRoom
    <3>2. /\ Len(queue) \in Nat /\ MinCapacity \in Nat
          /\ later[y] \in Nat /\ age[y] \in Nat /\ markIn \in Nat
      BY <1>1, Numbers, EntryNumbers
    <3> QED BY <1>3, <2>2, <3>1, <3>2
  <2>4. PICK m \in 1 .. Len(queue') :
          queue'[m] = queue[n] /\ Len(queue') - m = Len(queue) - n
    <3>1. queue \in Seq(S)
      BY <1>1 DEF TypeOK
    <3> QED BY <1>3, <1>4, <2>3, <3>1, EvictKeepsTheEnd
  <2> QED BY <2>2, <2>4 DEF NearTheEnd, AdjustCapacity
<1>10. RecentIsNearTheEnd'
  BY <1>9 DEF RecentIsNearTheEnd
<1> QED BY <1>7, <1>8, <1>10 DEF IInv

LEMMA TickKeepsIInv ==
  ASSUME IInv, Tick
  PROVE  IInv'
<1>1. TypeOK /\ LengthFollowsTimers /\ RecentIsNearTheEnd
  BY DEF IInv
<1>2. TypeOK'
  <2>1. markIn' \in 0 .. 1 /\ adjustIn' \in 0 .. Lifetime
    BY <1>1, Numbers DEF Tick
  <2>2. age' \in [Entries -> 0 .. Forgotten]
    <3>1. Forgotten \in Nat
      BY <1>1, Numbers
    <3> QED BY <1>1, <3>1 DEF Tick, TypeOK
  <2> QED BY <1>1, <2>1, <2>2 DEF Tick, TypeOK
<1>3. LengthFollowsTimers'
  <2>1. /\ Lifetime \in Nat /\ MaxCapacity \in Nat /\ adjustIn \in Nat /\ markIn \in Nat
    BY <1>1, Numbers
  <2>2. (Lifetime - (adjustIn - 1)) + (markIn - 1) = (Lifetime - adjustIn) + markIn
    BY <2>1
  <2>3. queue' = queue /\ markIn' = markIn - 1 /\ adjustIn' = adjustIn - 1
    BY DEF Tick
  <2> QED BY <1>1, <2>1, <2>2, <2>3 DEF LengthFollowsTimers
<1>4. ASSUME NEW y \in Entries, InLifetime(y)'
      PROVE  NearTheEnd(y)'
  <2>1. age'[y] = age[y] + 1 /\ age[y] <= Lifetime
    BY <1>1, <1>4, Numbers, EntryNumbers DEF Tick, InLifetime, TypeOK
  <2>2. InLifetime(y)
    BY <1>4, <2>1 DEF InLifetime, Tick
  <2>3. PICK n \in 1 .. Len(queue) :
          queue[n] = y /\ Len(queue) - n <= later[y] + age[y] + markIn
    BY <1>1, <2>2 DEF RecentIsNearTheEnd, NearTheEnd
  <2>4. later[y] + age[y] + markIn = later[y] + age'[y] + markIn'
    <3>1. later[y] \in Nat /\ age[y] \in Nat /\ markIn \in Nat
      BY <1>1, Numbers, EntryNumbers
    <3>2. markIn' = markIn - 1 /\ markIn > 0
      BY DEF Tick
    <3> QED BY <2>1, <3>1, <3>2, Sums
  <2> QED BY <2>3, <2>4 DEF NearTheEnd, Tick
<1>5. RecentIsNearTheEnd'
  BY <1>4 DEF RecentIsNearTheEnd
<1> QED BY <1>2, <1>3, <1>5 DEF IInv

\* The inductive invariant: the types, the length of the queue as the timers
\* allow it, and how far from the end of the queue a recent entry is at most.
THEOREM Invariance == Spec => []IInv
<1>1. Init => IInv
  BY InitIInv
<1>2. IInv /\ [Next]_vars => IInv'
  <2> SUFFICES ASSUME IInv, [Next]_vars PROVE IInv'
    OBVIOUS
  <2>1. ASSUME NEW x \in Entries, Add(x) PROVE IInv'
    BY <2>1, AddKeepsIInv
  <2>2. CASE Mark
    BY <2>2, MarkKeepsIInv
  <2>3. CASE AdjustCapacity
    BY <2>3, AdjustKeepsIInv
  <2>4. CASE Tick
    BY <2>4, TickKeepsIInv
  <2>5. CASE UNCHANGED vars
    BY <2>5 DEF vars, IInv, TypeOK, LengthFollowsTimers, RecentIsNearTheEnd,
                InLifetime, NearTheEnd
  <2> QED BY <2>1, <2>2, <2>3, <2>4, <2>5 DEF Next
<1> QED BY <1>1, <1>2, PTL DEF Spec

\* The state of the list keeps its types: the capacity within its hard limits.
THEOREM TypeCorrect == Spec => []TypeOK
<1>1. IInv => TypeOK
  BY DEF IInv
<1> QED BY <1>1, Invariance, PTL

\* mark() never evicts, and still the list is bounded.
THEOREM MemoryIsBounded == Spec => []BoundedMemory
<1>1. IInv => BoundedMemory
  BY Numbers DEF IInv, LengthFollowsTimers, BoundedMemory
<1> QED BY <1>1, Invariance, PTL

\* A Nonce is known for the whole lifetime while Nonces are added slowly.
THEOREM LifetimeIsKept == Spec => []KeptForLifetime
<1>1. IInv => KeptForLifetime
  BY DEF IInv, RecentIsNearTheEnd, InLifetime, NearTheEnd, KeptForLifetime, Has
<1> QED BY <1>1, Invariance, PTL

-----------------------------------------------------------------------------
(* The list implements RecentNonces                                         *)

Occurs(s, x) == \E n \in 1 .. Len(s) : s[n] = x

LastBefore(s, x, y) ==
  Occurs(s, x) /\ \E n \in 1 .. Len(s) : s[n] = y /\ \A m \in n .. Len(s) : s[m] # x

Known(s) == {x \in Entries : Occurs(s, x)}
Before(s) == {p \in Entries \X Entries : LastBefore(s, p[1], p[2])}

\* What becomes of the order of the entries when one more element is queued.
LEMMA AppendOrder ==
  ASSUME NEW S, NEW s \in Seq(S), NEW x \in S, NEW a, NEW b
  PROVE  /\ Occurs(Append(s, x), a) <=> a = x \/ Occurs(s, a)
         /\ a # x => (LastBefore(Append(s, x), a, x) <=> Occurs(s, a))
         /\ ~LastBefore(Append(s, x), x, b)
         /\ a # x /\ b # x => (LastBefore(Append(s, x), a, b) <=> LastBefore(s, a, b))
<1> DEFINE t == Append(s, x)
<1>1. /\ Len(t) = Len(s) + 1 /\ Len(s) \in Nat /\ t[Len(t)] = x
      /\ \A i \in 1 .. Len(s) : t[i] = s[i]
  BY AppendProperties, LenProperties
<1> HIDE DEF t
<1>2. Occurs(t, a) <=> a = x \/ Occurs(s, a)
  <2>1. ASSUME Occurs(t, a), a # x PROVE Occurs(s, a)
    <3>1. PICK n \in 1 .. Len(t) : t[n] = a
      BY <2>1 DEF Occurs
    <3>2. n \in 1 .. Len(s) /\ s[n] = a
      BY <1>1, <2>1, <3>1
    <3> QED BY <3>2 DEF Occurs
  <2>2. Occurs(s, a) => Occurs(t, a)
    BY <1>1 DEF Occurs
  <2>3. Len(t) \in 1 .. Len(t)
    BY <1>1
  <2>4. Occurs(t, x)
    BY <1>1, <2>3 DEF Occurs
  <2> QED BY <2>1, <2>2, <2>4
<1>3. ASSUME a # x PROVE LastBefore(t, a, x) <=> Occurs(s, a)
  <2>1. Len(t) \in 1 .. Len(t) /\ \A m \in Len(t) .. Len(t) : t[m] # a
    BY <1>1, <1>3
  <2> QED BY <1>1, <1>2, <1>3, <2>1 DEF LastBefore
<1>4. ~LastBefore(t, x, b)
  BY <1>1 DEF LastBefore
<1>5. ASSUME a # x, b # x PROVE LastBefore(t, a, b) <=> LastBefore(s, a, b)
  <2>1. ASSUME NEW n \in 1 .. Len(t), t[n] = b, \A m \in n .. Len(t) : t[m] # a
        PROVE  n \in 1 .. Len(s) /\ s[n] = b /\ \A m \in n .. Len(s) : s[m] # a
    BY <1>1, <1>5, <2>1
  <2>2. ASSUME NEW n \in 1 .. Len(s), s[n] = b, \A m \in n .. Len(s) : s[m] # a
        PROVE  n \in 1 .. Len(t) /\ t[n] = b /\ \A m \in n .. Len(t) : t[m] # a
    BY <1>1, <1>5, <2>2
  <2> QED BY <1>2, <1>5, <2>1, <2>2 DEF LastBefore
<1> QED BY <1>2, <1>3, <1>4, <1>5 DEF t

\* What becomes of it when a prefix is dropped: with an entry all that were
\* added after it stay, in the same order.
LEMMA SuffixOrder ==
  ASSUME NEW S, NEW s \in Seq(S), NEW t \in Seq(S), NEW k \in 0 .. Len(s),
         Len(t) = Len(s) - k, \A i \in 1 .. Len(t) : t[i] = s[i + k],
         NEW a, NEW b
  PROVE  /\ Occurs(t, a) => Occurs(s, a)
         /\ Occurs(t, a) /\ LastBefore(s, a, b) => Occurs(t, b)
         /\ LastBefore(t, a, b) <=> Occurs(t, a) /\ LastBefore(s, a, b)
<1>1. Len(s) \in Nat /\ Len(t) \in Nat
  BY LenProperties
<1>2. ASSUME NEW n \in 1 .. Len(t)
      PROVE  n + k \in 1 .. Len(s) /\ s[n + k] = t[n]
  BY <1>1
<1>3. Occurs(t, a) => Occurs(s, a)
  BY <1>2 DEF Occurs
<1>4. ASSUME Occurs(t, a), NEW n \in 1 .. Len(s), s[n] = b, \A m \in n .. Len(s) : s[m] # a
      PROVE  /\ n - k \in 1 .. Len(t) /\ t[n - k] = b
             /\ \A m \in n - k .. Len(t) : t[m] # a
  <2>1. PICK i \in 1 .. Len(t) : t[i] = a
    BY <1>4 DEF Occurs
  <2>2. i + k < n
    <3>1. CASE n <= i + k
      <4>1. i + k \in n .. Len(s)
        BY <1>1, <3>1
      <4> QED BY <1>2, <1>4, <2>1, <4>1
    <3> QED BY <1>1, <3>1
  <2>3. n - k \in 1 .. Len(t) /\ (n - k) + k = n
    BY <1>1, <2>2
  <2>4. ASSUME NEW m \in n - k .. Len(t) PROVE t[m] # a
    <3>1. m \in 1 .. Len(t) /\ m + k \in n .. Len(s)
      BY <1>1, <2>3
    <3> QED BY <1>2, <1>4, <3>1
  <2> QED BY <1>2, <1>4, <2>3, <2>4
<1>5. Occurs(t, a) /\ LastBefore(s, a, b) => Occurs(t, b) /\ LastBefore(t, a, b)
  <2> SUFFICES ASSUME Occurs(t, a), LastBefore(s, a, b)
               PROVE  Occurs(t, b) /\ LastBefore(t, a, b)
    OBVIOUS
  <2>1. PICK n \in 1 .. Len(s) : s[n] = b /\ \A m \in n .. Len(s) : s[m] # a
    BY DEF LastBefore
  <2> DEFINE j == n - k
  <2>2. /\ j \in 1 .. Len(t) /\ t[j] = b /\ \A m \in j .. Len(t) : t[m] # a
    BY <1>4, <2>1
  <2> HIDE DEF j
  <2> QED BY <2>2 DEF LastBefore, Occurs
<1>6. LastBefore(t, a, b) => Occurs(t, a) /\ LastBefore(s, a, b)
  <2> SUFFICES ASSUME LastBefore(t, a, b) PROVE Occurs(t, a) /\ LastBefore(s, a, b)
    OBVIOUS
  <2>1. PICK n \in 1 .. Len(t) : t[n] = b /\ \A m \in n .. Len(t) : t[m] # a
    BY DEF LastBefore
  <2> DEFINE j == n + k
  <2>2. j \in 1 .. Len(s) /\ s[j] = b
    BY <1>2, <2>1
  <2>3. ASSUME NEW m \in j .. Len(s) PROVE s[m] # a
    <3>1. m - k \in n .. Len(t) /\ m - k \in 1 .. Len(t) /\ (m - k) + k = m
      BY <1>1
    <3> QED BY <1>2, <2>1, <3>1
  <2> HIDE DEF j
  <2> QED BY <1>3, <2>2, <2>3 DEF LastBefore
<1> QED BY <1>3, <1>5, <1>6

\* The refinement mapping in terms of these operators.
LEMMA Mapping ==
  /\ {x \in Entries : Has(x)} = Known(queue)
  /\ {p \in Entries \X Entries : AddedBefore(p[1], p[2])} = Before(queue)
BY DEF Known, Before, Has, AddedBefore, Occurs, LastBefore

\* Eviction leaves, with an entry, all that were added after it.
LEMMA EvictForgets ==
  ASSUME NEW S, NEW s \in Seq(S), NEW c \in Nat
  PROVE  /\ Known(EvictEntries(s, c)) \subseteq Known(s)
         /\ \A a \in Known(EvictEntries(s, c)), b \in Known(s) :
              LastBefore(s, a, b) => b \in Known(EvictEntries(s, c))
         /\ \A a, b \in Entries :
              LastBefore(EvictEntries(s, c), a, b) <=>
                /\ a \in Known(EvictEntries(s, c)) /\ b \in Known(EvictEntries(s, c))
                /\ LastBefore(s, a, b)
<1> DEFINE t == EvictEntries(s, c)
<1>1. PICK k \in 0 .. Len(s) : /\ Len(t) = Len(s) - k
                               /\ \A i \in 1 .. Len(s) - k : t[i] = s[i + k]
  BY EvictFacts
<1>2. t \in Seq(S)
  BY EvictFacts
<1> HIDE DEF t
<1>3. ASSUME NEW a, NEW b
      PROVE  /\ Occurs(t, a) => Occurs(s, a)
             /\ Occurs(t, a) /\ LastBefore(s, a, b) => Occurs(t, b)
             /\ LastBefore(t, a, b) <=> Occurs(t, a) /\ LastBefore(s, a, b)
  BY <1>1, <1>2, SuffixOrder
<1>4. Known(t) \subseteq Known(s)
  BY <1>3 DEF Known
<1>5. \A a \in Known(t), b \in Known(s) : LastBefore(s, a, b) => b \in Known(t)
  BY <1>3 DEF Known
<1>6. \A a, b \in Entries : LastBefore(t, a, b) <=>
                              a \in Known(t) /\ b \in Known(t) /\ LastBefore(s, a, b)
  BY <1>3 DEF Known
<1> QED BY <1>4, <1>5, <1>6 DEF t

\* add() is an Add of RecentNonces: the new entry is the youngest, and what the
\* eviction spares is closed under being younger.
LEMMA AddRefines ==
  ASSUME TypeOK, NEW x \in Entries, Add(x)
  PROVE  Recent!Add(x)
<1> DEFINE S == Entries \cup {MARK}
           s == Append(queue, x)
           kept == Known(queue') \ {x}
<1>1. /\ queue \in Seq(S) /\ s \in Seq(S) /\ Len(queue) \in Nat /\ Len(s) = Len(queue) + 1
      /\ s[Len(s)] = x /\ capacity \in Nat \ {0} /\ queue' = EvictEntries(s, capacity)
  BY Numbers, AppendProperties, x \in S DEF Add
<1>2. ASSUME NEW a, NEW b
      PROVE  /\ Occurs(s, a) <=> a = x \/ Occurs(queue, a)
             /\ a # x => (LastBefore(s, a, x) <=> Occurs(queue, a))
             /\ ~LastBefore(s, x, b)
             /\ a # x /\ b # x => (LastBefore(s, a, b) <=> LastBefore(queue, a, b))
  BY <1>1, AppendOrder, x \in S
<1> HIDE DEF s
<1>3. /\ Known(queue') \subseteq Known(s)
      /\ \A a \in Known(queue'), b \in Known(s) : LastBefore(s, a, b) => b \in Known(queue')
      /\ \A a, b \in Entries :
           LastBefore(queue', a, b) <=>
             a \in Known(queue') /\ b \in Known(queue') /\ LastBefore(s, a, b)
  BY <1>1, EvictForgets
<1>4. x \in Known(queue')
  <2>1. Len(s) \in 1 .. Len(s) /\ Len(s) - Len(s) < capacity
    BY <1>1
  <2>2. \E m \in 1 .. Len(queue') : queue'[m] = x
    BY <1>1, <2>1, EvictKeepsTheEnd
  <2> QED BY <2>2 DEF Known, Occurs
<1>5. kept \subseteq Known(queue) \ {x}
  BY <1>2, <1>3 DEF Known
<1>6. ASSUME NEW a \in kept, NEW b \in Known(queue) \ {x}, <<a, b>> \in Before(queue)
      PROVE  b \in kept
  <2>1. LastBefore(s, a, b) /\ b \in Known(s)
    BY <1>2, <1>6 DEF Before, Known
  <2> QED BY <1>3, <2>1
<1>7. Known(queue') = kept \cup {x}
  BY <1>4
<1>8. Before(queue') = (Before(queue) \cap (kept \X kept)) \cup (kept \X {x})
  <2>1. ASSUME NEW a \in Entries, NEW b \in Entries
        PROVE  LastBefore(queue', a, b) <=> \/ LastBefore(queue, a, b) /\ a \in kept /\ b \in kept
                                            \/ a \in kept /\ b = x
    <3>1. LastBefore(queue', a, b) <=>
            a \in Known(queue') /\ b \in Known(queue') /\ LastBefore(s, a, b)
      BY <1>3
    <3>2. CASE a = x
      BY <1>2, <3>1, <3>2
    <3>3. CASE a # x /\ b = x
      <4>1. a \in kept => Occurs(queue, a)
        BY <1>5 DEF Known
      <4> QED BY <1>2, <1>4, <3>1, <3>3, <4>1
    <3>4. CASE a # x /\ b # x
      BY <1>2, <3>1, <3>4
    <3> QED BY <3>2, <3>3, <3>4
  <2>2. ASSUME NEW p PROVE p \in Before(queue') <=>
                             p \in (Before(queue) \cap (kept \X kept)) \cup (kept \X {x})
    <3>1. CASE p \in Entries \X Entries
      BY <2>1, <3>1 DEF Before
    <3>2. CASE p \notin Entries \X Entries
      BY <3>2 DEF Before, Known
    <3> QED BY <3>1, <3>2
  <2> QED BY <2>2
<1>9. {y \in Entries : later'[y] = 0} = {x}
  <2>1. ASSUME NEW y \in Entries PROVE later'[y] = 0 <=> y = x
    <3>1. later[y] \in Nat /\ MinCapacity \in Nat \ {0}
      BY Numbers, EntryNumbers
    <3>2. later'[y] = IF y = x THEN 0 ELSE IF later[y] < MinCapacity THEN later[y] + 1 ELSE later[y]
      BY DEF Add
    <3> QED BY <3>1, <3>2
  <2> QED BY <2>1
<1>10. /\ {y \in Entries : Has(y)} = Known(queue)
       /\ {p \in Entries \X Entries : AddedBefore(p[1], p[2])} = Before(queue)
       /\ {y \in Entries : Has(y)}' = Known(queue')
       /\ {p \in Entries \X Entries : AddedBefore(p[1], p[2])}' = Before(queue')
  BY DEF Known, Before, Has, AddedBefore, Occurs, LastBefore
<1> HIDE DEF kept
<1>11. kept \in {T \in SUBSET (Known(queue) \ {x}) :
                   \A a \in T, b \in Known(queue) \ {x} : <<a, b>> \in Before(queue) => b \in T}
  BY <1>5, <1>6
<1> QED BY <1>7, <1>8, <1>9, <1>10, <1>11 DEF Recent!Add, Recent!Left

\* adjustCapacity() is a Forget of RecentNonces.
LEMMA AdjustRefines ==
  ASSUME TypeOK, AdjustCapacity
  PROVE  Recent!Forget
<1>1. /\ queue \in Seq(Entries \cup {MARK}) /\ capacity' \in Nat
      /\ queue' = EvictEntries(queue, capacity')
  BY Numbers, CapacityFacts DEF AdjustCapacity, TypeOK
<1>2. /\ Known(queue') \subseteq Known(queue)
      /\ \A a \in Known(queue'), b \in Known(queue) :
           LastBefore(queue, a, b) => b \in Known(queue')
      /\ \A a, b \in Entries :
           LastBefore(queue', a, b) <=>
             a \in Known(queue') /\ b \in Known(queue') /\ LastBefore(queue, a, b)
  BY <1>1, EvictForgets
<1>3. Known(queue') \in {T \in SUBSET Known(queue) :
                           \A a \in T, b \in Known(queue) : <<a, b>> \in Before(queue) => b \in T}
  BY <1>2 DEF Before
<1>4. Before(queue') = Before(queue) \cap (Known(queue') \X Known(queue'))
  <2>1. Known(queue') \subseteq Entries
    BY DEF Known
  <2> QED BY <1>2, <2>1 DEF Before
<1>5. /\ {y \in Entries : Has(y)} = Known(queue)
      /\ {p \in Entries \X Entries : AddedBefore(p[1], p[2])} = Before(queue)
      /\ {y \in Entries : Has(y)}' = Known(queue')
      /\ {p \in Entries \X Entries : AddedBefore(p[1], p[2])}' = Before(queue')
  BY DEF Known, Before, Has, AddedBefore, Occurs, LastBefore
<1>6. {y \in Entries : later[y] = 0}' = {y \in Entries : later[y] = 0}
  BY DEF AdjustCapacity
<1> QED BY <1>3, <1>4, <1>5, <1>6 DEF Recent!Forget, Recent!Left

\* mark() changes nothing RecentNonces knows of.
LEMMA MarkRefines ==
  ASSUME TypeOK, Mark
  PROVE  /\ {y \in Entries : Has(y)}' = {y \in Entries : Has(y)}
         /\ {p \in Entries \X Entries : AddedBefore(p[1], p[2])}'
              = {p \in Entries \X Entries : AddedBefore(p[1], p[2])}
<1> DEFINE S == Entries \cup {MARK}
<1>1. MARK \notin Entries /\ queue \in Seq(S) /\ queue' = Append(queue, MARK)
  BY Numbers, DeadNonceListAssumption DEF Mark
<1>2. ASSUME NEW a \in Entries, NEW b \in Entries
      PROVE  /\ Occurs(queue', a) <=> Occurs(queue, a)
             /\ LastBefore(queue', a, b) <=> LastBefore(queue, a, b)
  BY <1>1, AppendOrder, MARK \in S
<1>3. Known(queue') = Known(queue) /\ Before(queue') = Before(queue)
  BY <1>2 DEF Known, Before
<1>4. /\ {y \in Entries : Has(y)}' = Known(queue')
      /\ {p \in Entries \X Entries : AddedBefore(p[1], p[2])}' = Before(queue')
  BY DEF Known, Before, Has, AddedBefore, Occurs, LastBefore
<1> QED BY <1>3, <1>4, Mapping

\* The list forgets its entries oldest first and never the one being added: it
\* implements RecentNonces.
THEOREM Refinement == Spec => ForgetsOldestFirst
<1>1. Init => Recent!Init
  <2> SUFFICES ASSUME Init PROVE Recent!Init
    OBVIOUS
  <2>1. \A x \in Entries : ~Has(x)
    BY DeadNonceListAssumption DEF Init, Has
  <2>2. \A x \in Entries : later[x] # 0
    BY DeadNonceListAssumption DEF Init
  <2> QED BY <2>1, <2>2 DEF Recent!Init, AddedBefore
<1>2. TypeOK /\ [Next]_vars
        => [Recent!Next]_<<{x \in Entries : Has(x)},
                           {p \in Entries \X Entries : AddedBefore(p[1], p[2])},
                           {x \in Entries : later[x] = 0}>>
  <2> SUFFICES ASSUME TypeOK, [Next]_vars
               PROVE  \/ Recent!Next
                      \/ UNCHANGED <<{x \in Entries : Has(x)},
                                     {p \in Entries \X Entries : AddedBefore(p[1], p[2])},
                                     {x \in Entries : later[x] = 0}>>
    OBVIOUS
  <2>1. ASSUME NEW x \in Entries, Add(x) PROVE Recent!Next
    BY <2>1, AddRefines DEF Recent!Next
  <2>2. CASE Mark
    BY <2>2, MarkRefines DEF Mark
  <2>3. CASE AdjustCapacity
    BY <2>3, AdjustRefines DEF Recent!Next
  <2>4. CASE Tick
    BY <2>4 DEF Tick, Has, AddedBefore
  <2>5. CASE UNCHANGED vars
    BY <2>5 DEF vars, Has, AddedBefore
  <2> QED BY <2>1, <2>2, <2>3, <2>4, <2>5 DEF Next
<1> QED BY <1>1, <1>2, TypeCorrect, PTL DEF Spec, ForgetsOldestFirst, Recent!Spec

=============================================================================
