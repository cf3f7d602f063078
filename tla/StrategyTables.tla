---------------------------- MODULE StrategyTables ----------------------------
(***************************************************************************)
(* The tables a strategy works on, all kept in the nodes of one name tree: *)
(* the FIB, the PIT, the Measurements table (table/measurements) and the   *)
(* Strategy Choice table (table/strategy-choice), with the StrategyInfo    *)
(* items a strategy attaches to PIT entries and Measurements entries.      *)
(* One event of the daemon does several operations, so each takes and      *)
(* returns the tables, a record:                                           *)
(*   ht        the name tree                                               *)
(*   choice    the strategy chosen for a prefix; the root always has one   *)
(*   fib       the next hops of a prefix, without their costs              *)
(*   measured  the StrategyInfo items of the Measurements entry of a name  *)
(*   pit       the PIT entries: in-records, out-records, those of them     *)
(*             that are not expired and those with a Nack, StrategyInfo    *)
(*             items, and the propagation timers the entry has lost        *)
(*   faces     the face table                                              *)
(*   probes    the prefixes for which a probe of ASF is scheduled          *)
(*   fault     the assertion that failed, or the check that was missing    *)
(*                                                                         *)
(* StrategyInfo items are a function from the strategy that defines their  *)
(* type to what is in them.  Durations are left out: a timer may fire at   *)
(* any moment after it was set, since the round-trip times and lifetimes   *)
(* that decide on it are up to the other nodes.                            *)
(***************************************************************************)
EXTENDS NameTree

CONSTANTS
  Digests,     \* the name components that are implicit digests
  NoFace       \* INVALID_FACEID, or a weak_ptr to no face

NoInfo == <<>>

\* The comparison changes nothing: it has TLC compute the function at once.
Put(f, x, y) ==
  LET g == [z \in DOMAIN f \cup {x} |-> IF z = x THEN y ELSE f[z]]
  IN  IF g = f THEN f ELSE g

Without(f, x) == [z \in DOMAIN f \ {x} |-> f[z]]

\* How the entries are put in the nodes; no next hops stand for no entry.
SetFibEntry(t, name, hops) ==
  [t EXCEPT !.fib = IF hops = {} THEN Without(@, name) ELSE Put(@, name, hops)]

SetChoiceEntry(t, name, strategy) == [t EXCEPT !.choice = Put(@, name, strategy)]

SetMeasurementsEntry(t, name) == [t EXCEPT !.measured = Put(@, name, NoInfo)]

InsertPitEntry(t, name, entry) == [t EXCEPT !.pit = Put(@, name, entry)]

ErasePitEntry(t, name) == [t EXCEPT !.pit = Without(@, name)]

\* A PIT entry whose name ends with an implicit digest is attached to the node of
\* the name without it.
AttachedTo(name) ==
  IF name # <<>> /\ Last(name) \in Digests THEN Parent(name) ELSE name

Used(t) ==
  DOMAIN t.choice \cup DOMAIN t.fib \cup DOMAIN t.measured
    \cup {AttachedTo(name) : name \in DOMAIN t.pit}

\* lookup of an entry that has a node: the node it is attached to, or for a PIT entry
\* that is attached one node up, the node of its own name, which is made.
LookupPit(t, name) == IF AttachedTo(name) = name THEN t ELSE [t EXCEPT !.ht = Lookup(@, name)]

\* The node from which findLongestPrefixMatch goes up for a PIT entry: that of its name,
\* or the one it is attached to.
PitNode(t, name) == IF name \in Nodes(t.ht) THEN name ELSE AttachedTo(name)

Fault(t, what) == IF t.fault = "none" THEN [t EXCEPT !.fault = what] ELSE t

----------------------------------------------------------------------------
\* Strategy Choice.

EffectiveStrategy(t, name) == t.choice[LongestMatch(DOMAIN t.choice, name)]

EffectiveForPit(t, name) == EffectiveStrategy(t, PitNode(t, name))

\* Mutant: only the items at the prefix itself are cleared.
ChangeAtPrefix(t, prefix, old, new) ==
  [t EXCEPT
    !.measured = [n \in DOMAIN @ |-> IF n = prefix THEN NoInfo ELSE @[n]],
    !.pit = [p \in DOMAIN @ |-> IF p = prefix THEN [@[p] EXCEPT !.info = NoInfo] ELSE @[p]]]

\* The StrategyInfo items are cleared in the part of the tree where the choice of
\* this prefix is in effect.
ChangeStrategy(t, prefix, old, new) ==
  LET changed == SubTree(t.ht, prefix, DOMAIN t.choice)
  IN  IF old = new THEN t
      ELSE [t EXCEPT
        !.measured = [n \in DOMAIN @ |-> IF n \in changed THEN NoInfo ELSE @[n]],
        !.pit = [p \in DOMAIN @ |->
                   IF AttachedTo(p) \in changed THEN [@[p] EXCEPT !.info = NoInfo] ELSE @[p]]]

InsertChoice(t, prefix, strategy) ==
  LET old == EffectiveStrategy(t, prefix)
      entered == SetChoiceEntry([t EXCEPT !.ht = Lookup(@, prefix)], prefix, strategy)
  IN  ChangeStrategy(entered, prefix, old, strategy)

EraseChoice(t, prefix) ==
  LET parents == EffectiveStrategy(t, Parent(prefix))
      changed == ChangeStrategy(t, prefix, t.choice[prefix], parents)
      erased == [changed EXCEPT !.choice = Without(@, prefix)]
  IN  IF prefix \notin DOMAIN t.choice THEN t
      ELSE [erased EXCEPT !.ht = EraseIfEmpty(@, Used(erased), prefix)]

----------------------------------------------------------------------------
\* Measurements.

Measured(t, name) ==
  IF name \in DOMAIN t.measured THEN t
  ELSE SetMeasurementsEntry([t EXCEPT !.ht = Lookup(@, name)], name)

\* get of a PIT entry, and of the parent of an entry
MeasuredForPit(t, name) == Measured(LookupPit(t, name), name)

MeasuredParent(t, name) == IF name = <<>> THEN t ELSE Measured(t, Parent(name))

\* MeasurementsAccessor: an entry that is not in the strategy's namespace is made
\* all the same, but not given to the strategy.
MayMeasure(t, strategy, name) == EffectiveStrategy(t, name) = strategy

\* The longest match is looked for among all entries, and withheld when another
\* strategy is in effect at it.
FindsMeasured(t, strategy, name) ==
  /\ Matches(DOMAIN t.measured, name) # {}
  /\ MayMeasure(t, strategy, LongestMatch(DOMAIN t.measured, name))

HasInfo(t, strategy, name) == strategy \in DOMAIN t.measured[name]

SetInfo(t, strategy, name, info) ==
  [t EXCEPT !.measured[name] = Put(@, strategy, info)]

CleanupMeasured(t, name) ==
  LET erased == [t EXCEPT !.measured = Without(@, name)]
  IN  [erased EXCEPT !.ht = EraseIfEmpty(@, Used(erased), name)]

----------------------------------------------------------------------------
\* FIB.

HasFibEntry(t, name) == Matches(DOMAIN t.fib, PitNode(t, name)) # {}

\* lookupFib, of a PIT entry
FibPrefix(t, name) == LongestMatch(DOMAIN t.fib, PitNode(t, name))

NextHops(t, name) == IF HasFibEntry(t, name) THEN t.fib[FibPrefix(t, name)] ELSE {}

AddNextHop(t, prefix, face) ==
  LET hops == IF prefix \in DOMAIN t.fib THEN t.fib[prefix] ELSE {}
  IN  SetFibEntry([t EXCEPT !.ht = Lookup(@, prefix)], prefix, hops \cup {face})

RemoveNextHop(t, prefix, face) ==
  LET left == SetFibEntry(t, prefix, t.fib[prefix] \ {face})
  IN  IF prefix \in DOMAIN left.fib THEN left
      ELSE [left EXCEPT !.ht = EraseIfEmpty(@, Used(left), prefix)]

----------------------------------------------------------------------------
\* PIT.

NewPitEntry ==
  [ins |-> {}, outs |-> {}, live |-> {}, nacked |-> {}, info |-> NoInfo, lostTimers |-> 0]

FindOrInsertPit(t, name) ==
  IF name \in DOMAIN t.pit THEN t
  ELSE InsertPitEntry([t EXCEPT !.ht = Lookup(@, AttachedTo(name))], name, NewPitEntry)

ErasePit(t, name) ==
  LET erased == ErasePitEntry(t, name)
  IN  [erased EXCEPT !.ht = EraseIfEmpty(@, Used(erased), AttachedTo(name))]

HasPendingOutRecords(entry) == entry.live \ entry.nacked # {}

\* Names have no scope here, and no in-record expires before the entry ends.
CanForwardToLegacy(entry, face) == face \notin entry.live /\ entry.ins \ {face} # {}

\* onOutgoingInterest, which picks one of the in-records and asserts that there is one
SendInterest(t, name, face) ==
  IF t.pit[name].ins = {} THEN Fault(t, "no in-record")
  ELSE [t EXCEPT !.pit[name].outs = @ \cup {face}, !.pit[name].live = @ \cup {face}]

\* The same for each of several faces
SendToAll(t, name, targets) ==
  IF targets = {} THEN t
  ELSE IF t.pit[name].ins = {} THEN Fault(t, "no in-record")
  ELSE [t EXCEPT !.pit[name].outs = @ \cup targets, !.pit[name].live = @ \cup targets]

PitInfo(t, strategy, name) == t.pit[name].info[strategy]

SetPitInfo(t, strategy, name, info) ==
  [t EXCEPT !.pit[name].info = Put(@, strategy, info)]

----------------------------------------------------------------------------
\* cleanupOnFaceRemoval: one pass over the tree takes the face out of the FIB and
\* PIT entries and notes the nodes left without table entries; these are then
\* erased one by one, longer names first and without their ancestors.
Shortest(names) == CHOOSE n \in names : \A m \in names : Len(n) <= Len(m)

EraseUnused(ht, used, unused) ==
  MapThenFoldSet(LAMBDA n, left : EraseNodeIfEmpty(left, used, n), ht,
                 LAMBDA n : n, Shortest, unused)

CleanupOnFaceRemoval(t, face) ==
  LET hops == [n \in DOMAIN t.fib |-> t.fib[n] \ {face}]
      fib == Restrict(hops, {n \in DOMAIN hops : hops[n] # {}})
      pit == [p \in DOMAIN t.pit |->
                [t.pit[p] EXCEPT !.ins = @ \ {face}, !.outs = @ \ {face},
                                 !.live = @ \ {face}, !.nacked = @ \ {face}]]
      swept == [t EXCEPT !.faces = @ \ {face}, !.fib = fib, !.pit = pit]
      unused == Enumerate(t.ht, Names \ Used(swept))
  IN  [swept EXCEPT !.ht = EraseUnused(@, Used(swept), unused)]
=============================================================================
