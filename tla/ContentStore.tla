----------------------------- MODULE ContentStore -----------------------------
(***************************************************************************)
(* The Content Store (table/cs, cs-entry) with its replacement policies:   *)
(* priority FIFO, the default, which keeps three queues and a timer for    *)
(* every entry that may turn stale, and LRU, which keeps one queue.        *)
(* Which of several matches a lookup returns is left open.  The event loop *)
(* handles a due timer before the next tick.                               *)
(***************************************************************************)
EXTENDS Integers, Sequences, FiniteSets, Functions

CONSTANTS
  Packets,    \* Data packets; two with one full name are the same packet
  Prefixes,   \* the names of Interests
  Under,      \* Under[p]: the packets that match an Interest for p
  Freshness,  \* Freshness[d]: its FreshnessPeriod, Forever if it has none
  Forever,
  Limits,     \* the limits the configuration may set
  MaxTime     \* bound for model checking

ASSUME ContentStoreAssumption ==
  /\ IsFiniteSet(Packets)
  /\ Under \in [Prefixes -> SUBSET Packets]
  /\ Forever \notin Nat /\ Freshness \in [Packets -> Nat \cup {Forever}]
  /\ Limits \subseteq Nat /\ MaxTime \in Nat

VARIABLES
  policy,      \* the name of m_policy, which nothing replaces
  now,
  limit,       \* m_limit
  table,       \* m_table: from packets to entries
  queues,      \* m_queues; LRU has the queue "fifo" only
  staleEvents, \* the scheduled calls of moveToStaleQueue
  recent       \* history: the packets in the order of their last insertion or,
               \* under LRU, use

vars == <<policy, now, limit, table, queues, staleEvents, recent>>

Entry == [unsolicited : BOOLEAN, staleTime : Nat \cup {Forever}]
QueueTypes == {"unsolicited", "stale", "fifo"}

InQueue(qs, t, d) == \E n \in 1 .. Len(qs[t]) : qs[t][n] = d

\* The sequence s without the packets of D
Without(s, D) ==
  LET rest[n \in 0 .. Len(s)] ==
        IF n = 0 THEN <<>>
        ELSE IF s[n] \in D THEN rest[n - 1] ELSE Append(rest[n - 1], s[n])
  IN  rest[Len(s)]

-----------------------------------------------------------------------------
(* The policy.  A store s holds the table, the queues and the timers.      *)

Store == [table |-> table, queues |-> queues, staleEvents |-> staleEvents]

Become(s) ==
  /\ table' = s.table
  /\ queues' = s.queues
  /\ staleEvents' = s.staleEvents

\* mutant of DetachQueue: the timer goes on
DetachWithoutCancel(s, D) ==
  [s EXCEPT !.queues = [t \in QueueTypes |-> Without(s.queues[t], D)]]

\* detachQueue, for every packet of D
DetachQueue(s, D) ==
  [s EXCEPT
     !.queues = [t \in QueueTypes |-> Without(s.queues[t], D)],
     !.staleEvents = {v \in s.staleEvents :
                        ~(v.of \in D /\ InQueue(s.queues, "fifo", v.of))}]

\* isStale; its clock may be just before or just after the stale time
MaybeStale(e) == e.staleTime # Forever /\ e.staleTime <= now
MaybeFresh(e) == e.staleTime = Forever \/ e.staleTime >= now

\* The queue attachQueue chooses for an entry
QueueFor(e) ==
  IF policy = "lru" THEN {"fifo"}
  ELSE IF e.unsolicited THEN {"unsolicited"}
  ELSE {t \in {"stale", "fifo"} : IF t = "stale" THEN MaybeStale(e) ELSE MaybeFresh(e)}

\* mutant of AttachQueue: no timer is set
AttachWithoutTimer(s, d, t) == [s EXCEPT !.queues[t] = Append(@, d)]

AttachQueue(s, d, t) ==
  [s EXCEPT
     !.queues[t] = Append(@, d),
     !.staleEvents = IF policy = "fifo" /\ t = "fifo" /\ s.table[d].staleTime # Forever
                     THEN @ \cup {[of |-> d, at |-> now + Freshness[d]]} ELSE @]

\* The entries in the order evictOne takes them
EvictionOrder(qs) == qs["unsolicited"] \o qs["stale"] \o qs["fifo"]

\* evictEntries
EvictEntries(s, lim) ==
  LET order == EvictionOrder(s.queues)
      victims == {order[n] : n \in 1 .. Cardinality(DOMAIN s.table) - lim}
  IN  [DetachQueue(s, victims) EXCEPT !.table = Restrict(@, DOMAIN @ \ victims)]

-----------------------------------------------------------------------------

Init ==
  /\ policy \in {"fifo", "lru"}
  /\ now = 0
  /\ limit \in Limits
  /\ table = [d \in {} |-> Forever]
  /\ queues = [t \in QueueTypes |-> <<>>]
  /\ staleEvents = {}
  /\ recent = <<>>

\* Cs::insert of a Data that is not to be cached, or into a disabled store
InsertNothing(d, noCache) ==
  /\ limit = 0 \/ noCache
  /\ UNCHANGED vars

StaleTime(d) == IF Freshness[d] = Forever THEN Forever ELSE now + Freshness[d]

\* An unsolicited Data refreshes a solicited entry, which remains solicited.
Inserted(d, unsolicited) ==
  [unsolicited |-> unsolicited /\ (d \in DOMAIN table => table[d].unsolicited),
   staleTime |-> StaleTime(d)]

WithEntry(s, d, e) ==
  [s EXCEPT !.table = [x \in DOMAIN @ \cup {d} |-> IF x = d THEN e ELSE @[x]]]

\* Cs::insert; a refresh evicts nothing
Insert(d, unsolicited) ==
  /\ limit # 0
  /\ \E t \in QueueFor(Inserted(d, unsolicited)) :
       LET s == WithEntry(DetachQueue(Store, {d}), d, Inserted(d, unsolicited))
           attached == AttachQueue(s, d, t)
       IN  Become(IF d \in DOMAIN table THEN attached ELSE EvictEntries(attached, limit))
  /\ recent' = Append(Without(recent, {d}), d)
  /\ UNCHANGED <<policy, now, limit>>

\* EntryImpl::canSatisfy within the range of Cs::find
Matches(p, mustBeFresh) ==
  {d \in Under[p] \cap DOMAIN table : mustBeFresh => MaybeFresh(table[d])}

\* mutant of FindHit: the policy is not told
HitWithoutUse(p, mustBeFresh) ==
  \E d \in Matches(p, mustBeFresh) :
    /\ IF policy = "lru" THEN recent' = Append(Without(recent, {d}), d)
       ELSE UNCHANGED recent
    /\ UNCHANGED <<policy, now, limit, table, queues, staleEvents>>

\* Cs::find, a hit: Policy::beforeUse
FindHit(p, mustBeFresh) ==
  \E d \in Matches(p, mustBeFresh) :
    /\ IF policy = "lru"
       THEN /\ queues' = [queues EXCEPT !["fifo"] = Append(Without(@, {d}), d)]
            /\ recent' = Append(Without(recent, {d}), d)
       ELSE UNCHANGED <<queues, recent>>
    /\ UNCHANGED <<policy, now, limit, table, staleEvents>>

\* Cs::find, a miss
FindMiss(p, mustBeFresh) ==
  /\ \A d \in Matches(p, mustBeFresh) : mustBeFresh /\ MaybeStale(table[d])
  /\ UNCHANGED vars

\* mutant of SetLimit: nothing is evicted
LimitLater(lim) ==
  /\ limit' = lim
  /\ UNCHANGED <<policy, now, table, queues, staleEvents, recent>>

\* Cs::setLimit, when the configuration is reloaded
SetLimit(lim) ==
  /\ limit' = lim
  /\ Become(EvictEntries(Store, lim))
  /\ UNCHANGED <<policy, now, recent>>

\* moveToStaleQueue
MoveToStale(v) ==
  /\ v \in staleEvents /\ v.at <= now
  /\ staleEvents' = staleEvents \ {v}
  /\ queues' = [queues EXCEPT !["fifo"] = Without(@, {v.of}), !["stale"] = Append(@, v.of)]
  /\ UNCHANGED <<policy, now, limit, table, recent>>

Tick ==
  /\ now < MaxTime
  /\ \A v \in staleEvents : v.at > now
  /\ now' = now + 1
  /\ UNCHANGED <<policy, limit, table, queues, staleEvents, recent>>

Next ==
  \/ \E d \in Packets : \/ \E noCache \in BOOLEAN : InsertNothing(d, noCache)
                       \/ \E unsolicited \in BOOLEAN : Insert(d, unsolicited)
  \/ \E p \in Prefixes, mustBeFresh \in BOOLEAN :
       FindHit(p, mustBeFresh) \/ FindMiss(p, mustBeFresh)
  \/ \E lim \in Limits : SetLimit(lim)
  \/ \E v \in staleEvents : MoveToStale(v)
  \/ Tick

Spec == Init /\ [][Next]_vars

-----------------------------------------------------------------------------

TypeOK ==
  /\ policy \in {"fifo", "lru"}
  /\ now \in Nat /\ limit \in Nat
  /\ DOMAIN table \subseteq Packets /\ table \in [DOMAIN table -> Entry]
  /\ queues \in [QueueTypes -> Seq(Packets)]
  /\ staleEvents \subseteq [of : Packets, at : Nat]
  /\ recent \in Seq(Packets)

\* The store never holds more than its limit, though a refresh does not evict,
\* entries move between queues and the limit changes (table/cs-policy.hpp:
\* "\post cs.size() <= getLimit()").
WithinLimit == Cardinality(DOMAIN table) <= limit

\* A timer runs exactly for the entries of the FIFO queue that may turn stale,
\* and is due at their present stale time: none is left over from before a
\* refresh or an eviction, where moveToStaleQueue would use a dead iterator.
StaleEventsAreLive ==
  staleEvents = {[of |-> d, at |-> table[d].staleTime] :
                   d \in {x \in DOMAIN table :
                           /\ policy = "fifo" /\ InQueue(queues, "fifo", x)
                           /\ table[x].staleTime # Forever}}

Before(s, d, e) == \E m, n \in 1 .. Len(s) : m < n /\ s[m] = d /\ s[n] = e

Evicted == DOMAIN table \ DOMAIN table'

\* Under LRU a packet that was used after another outlives it.  Under priority
\* FIFO "the entries that get removed first are unsolicited Data packets [...]
\* Next, the Data packets with expired freshness are removed. Last, [...] on a
\* pure FIFO basis" (table/cs-policy-priority-fifo.hpp), the newcomer included.
EvictsInOrder ==
  [][\A d \in Evicted, e \in DOMAIN table' :
       IF policy = "lru" THEN Before(recent', d, e)
       ELSE \/ table[d].unsolicited
            \/ /\ ~table'[e].unsolicited
               /\ \/ MaybeStale(table[d])
                  \/ MaybeFresh(table'[e]) /\ Before(recent', d, e)]_vars

=============================================================================
