---------------------------- MODULE DeadNonceList ----------------------------
(***************************************************************************)
(* The Dead Nonce List (table/dead-nonce-list): a queue of hashed names    *)
(* and Nonces whose capacity follows the rate of insertion.  A MARK is     *)
(* queued at fixed intervals; how many MARKs the queue holds tells how     *)
(* long its entries live.  One tick is the interval between two MARKs, and *)
(* the event loop handles a due timer within that time.                    *)
(***************************************************************************)
EXTENDS Integers, Sequences, FiniteSets

CONSTANTS
  Entries,          \* hashes of names and Nonces, as made by makeEntry
  MARK,
  ExpectedMarkCount, \* also the lifetime in ticks
  InitialCapacity,
  MinCapacity,
  MaxCapacity,
  EvictLimit

ASSUME DeadNonceListAssumption ==
  /\ IsFiniteSet(Entries) /\ MARK \notin Entries
  /\ {ExpectedMarkCount, MinCapacity, EvictLimit} \subseteq Nat \ {0}
  /\ InitialCapacity \in Nat /\ MaxCapacity \in Nat
  /\ EvictLimit > ExpectedMarkCount
  /\ ExpectedMarkCount <= MinCapacity
  /\ MinCapacity <= InitialCapacity /\ InitialCapacity <= MaxCapacity

VARIABLES
  queue,      \* m_queue
  capacity,   \* m_capacity
  markCounts, \* m_actualMarkCounts; how often a count occurs is never asked
  markIn,     \* ticks until m_markEvent and m_adjustCapacityEvent are due
  adjustIn,
  age,        \* history: ticks since the last add of each entry, and adds
  later       \* since then; both stop at a value no property tells from more

vars == <<queue, capacity, markCounts, markIn, adjustIn, age, later>>

Lifetime == ExpectedMarkCount
Forgotten == Lifetime + 1

-----------------------------------------------------------------------------

Has(x) == \E n \in 1 .. Len(queue) : queue[n] = x

CountMarks(q) == Cardinality({n \in 1 .. Len(q) : q[n] = MARK})

\* mutants of EvictEntries: too many are evicted, or those added last
EvictLimitAlways(q, c) ==
  IF Len(q) <= c THEN q
  ELSE SubSeq(q, (IF EvictLimit <= Len(q) THEN EvictLimit ELSE Len(q)) + 1, Len(q))

EvictNewest(q, c) == IF Len(q) <= c THEN q ELSE SubSeq(q, 1, c)

EvictEntries(q, c) ==
  LET nOverCapacity == Len(q) - c
      nEvict == IF nOverCapacity <= EvictLimit THEN nOverCapacity ELSE EvictLimit
  IN  IF nOverCapacity <= 0 THEN q ELSE SubSeq(q, nEvict + 1, Len(q))

\* m_capacity * CAPACITY_UP and m_capacity * CAPACITY_DOWN, as size_t
CapacityUp(c) == (c * 6) \div 5
CapacityDown(c) == (c * 9) \div 10

AdjustedCapacity(c, counts) ==
  IF \A m \in counts : m > ExpectedMarkCount
  THEN IF CapacityDown(c) >= MinCapacity THEN CapacityDown(c) ELSE MinCapacity
  ELSE IF \A m \in counts : m < ExpectedMarkCount
  THEN IF CapacityUp(c) <= MaxCapacity THEN CapacityUp(c) ELSE MaxCapacity
  ELSE c

-----------------------------------------------------------------------------

Init ==
  /\ queue = [n \in 1 .. ExpectedMarkCount |-> MARK]
  /\ capacity = InitialCapacity
  /\ markCounts = {}
  /\ markIn = 1 /\ adjustIn = Lifetime
  /\ age = [x \in Entries |-> Forgotten]
  /\ later = [x \in Entries |-> MinCapacity]

Add(x) ==
  /\ queue' = EvictEntries(Append(queue, x), capacity)
  /\ age' = [age EXCEPT ![x] = 0]
  /\ later' = [y \in Entries |-> IF y = x THEN 0
                                 ELSE IF later[y] < MinCapacity THEN later[y] + 1
                                 ELSE later[y]]
  /\ UNCHANGED <<capacity, markCounts, markIn, adjustIn>>

\* mutant of Mark: no MARK is queued
CountOnly ==
  /\ markIn = 0
  /\ markCounts' = markCounts \cup {CountMarks(queue)}
  /\ markIn' = 1
  /\ UNCHANGED <<queue, capacity, adjustIn, age, later>>

Mark ==
  /\ markIn = 0
  /\ queue' = Append(queue, MARK)
  /\ markCounts' = markCounts \cup {CountMarks(queue')}
  /\ markIn' = 1
  /\ UNCHANGED <<capacity, adjustIn, age, later>>

\* mutant of AdjustCapacity: nothing is evicted
AdjustWithoutEvicting ==
  /\ adjustIn = 0
  /\ capacity' = AdjustedCapacity(capacity, markCounts)
  /\ markCounts' = {}
  /\ adjustIn' = Lifetime
  /\ UNCHANGED <<queue, markIn, age, later>>

AdjustCapacity ==
  /\ adjustIn = 0
  /\ capacity' = AdjustedCapacity(capacity, markCounts)
  /\ markCounts' = {}
  /\ queue' = EvictEntries(queue, capacity')
  /\ adjustIn' = Lifetime
  /\ UNCHANGED <<markIn, age, later>>

Tick ==
  /\ markIn > 0 /\ adjustIn > 0
  /\ markIn' = markIn - 1 /\ adjustIn' = adjustIn - 1
  /\ age' = [x \in Entries |-> IF age[x] < Forgotten THEN age[x] + 1 ELSE age[x]]
  /\ UNCHANGED <<queue, capacity, markCounts, later>>

Next == (\E x \in Entries : Add(x)) \/ Mark \/ AdjustCapacity \/ Tick

Spec == Init /\ [][Next]_vars

\* The scheduler gets to every event, and time passes.
FairSpec == Spec /\ WF_vars(Mark) /\ WF_vars(AdjustCapacity) /\ WF_vars(Tick)

-----------------------------------------------------------------------------

TypeOK ==
  /\ queue \in Seq(Entries \cup {MARK})
  /\ capacity \in MinCapacity .. MaxCapacity
  /\ markCounts \subseteq Nat
  /\ markIn \in 0 .. 1 /\ adjustIn \in 0 .. Lifetime
  /\ age \in [Entries -> 0 .. Forgotten]
  /\ later \in [Entries -> 0 .. MinCapacity]

\* The list takes bounded memory although mark() never evicts: it exceeds the
\* maximum capacity by the MARKs of one lifetime at most, its last one included.
BoundedMemory == Len(queue) <= MaxCapacity + ExpectedMarkCount + 1

\* While Nonces are added slowly an entry is known for the whole lifetime: the
\* minimum capacity leaves room for the MARKs and for the later entries.
KeptForLifetime ==
  \A x \in Entries :
    age[x] <= Lifetime /\ later[x] + ExpectedMarkCount + 2 <= MinCapacity => Has(x)

\* What is added no more is forgotten at last: MARKs push it out of the list, so
\* a Nonce taken for a loop by mistake does not stay dead.
ForgottenAtLast ==
  \A x \in Entries : []<>~Has(x) \/ []<><<Add(x)>>_vars

-----------------------------------------------------------------------------

\* x was added for the last time before y was: no x is queued from some y on
AddedBefore(x, y) ==
  /\ Has(x)
  /\ \E n \in 1 .. Len(queue) :
       queue[n] = y /\ \A m \in n .. Len(queue) : queue[m] # x

\* Nothing was added after the entry that was added last
Recent == INSTANCE RecentNonces WITH
            known <- {x \in Entries : Has(x)},
            before <- {p \in Entries \X Entries : AddedBefore(p[1], p[2])},
            latest <- {x \in Entries : later[x] = 0}

\* The list forgets its entries in the order they were last added, and never
\* the one that is being added, however its capacity is adjusted.
ForgetsOldestFirst == Recent!Spec

=============================================================================
