------------------------------- MODULE NameTree -------------------------------
(***************************************************************************)
(* The name tree of the forwarder's tables: a hash table of nodes, one for *)
(* each name (table/name-tree-hashtable), where the node of a name has the *)
(* node of the name without its last component as its parent               *)
(* (table/name-tree, table/name-tree-entry).                               *)
(*                                                                         *)
(* A table is the function from bucket index to the set of names whose     *)
(* nodes are in the bucket's list: the order in a list decides nothing but *)
(* the order of an enumeration.  A node always has the parent its name     *)
(* tells, since lookup makes the prefixes of a name before the name.       *)
(***************************************************************************)
EXTENDS Naturals, FiniteSets, SequencesExt

CONSTANTS
  Names,           \* the names in use, with all their prefixes
  ComponentHash,   \* the hash of each name component
  ExclusiveOr(_, _), \* exclusive or, of hashes
  MinBuckets,      \* HashtableOptions: initialSize and minSize
  ExpandPercent,   \* expandLoadFactor, in percent
  ExpandFactor,    \* expandFactor
  ShrinkPercent,   \* shrinkLoadFactor, in percent
  ShrinkDivisor    \* 1 / shrinkFactor

ASSUME HashtableAssumption ==
  /\ MinBuckets \in Nat \ {0}
  /\ ExpandPercent \in 1..100
  /\ ShrinkPercent \in 0..99
  /\ ExpandFactor \in Nat \ {0, 1}
  /\ ShrinkDivisor \in Nat \ {0, 1}

Prefix(name, len) == SubSeq(name, 1, len)

ASSUME NamesAssumption ==
  /\ IsFiniteSet(Names) /\ <<>> \in Names
  /\ \A name \in Names :
       /\ name \in Seq(DOMAIN ComponentHash)
       /\ \A len \in 0..Len(name) : Prefix(name, len) \in Names

Parent(name) == Prefix(name, Len(name) - 1)

\* The hash of a name is the exclusive or of the hashes of its components.
ComputeHash(name) ==
  LET h[i \in 0..Len(name)] == IF i = 0 THEN 0 ELSE ExclusiveOr(h[i - 1], ComponentHash[name[i]])
  IN  h[Len(name)]

ASSUME HashAssumption == \A name \in Names : ComputeHash(name) \in Nat

----------------------------------------------------------------------------
\* The hash table.

NBuckets(ht) == Cardinality(DOMAIN ht)

Nodes(ht) == UNION Range(ht)

HashOf == [name \in Names |-> ComputeHash(name)]

Bucket(n, name) == HashOf[name] % n

EmptyTable == [i \in 0..(MinBuckets - 1) |-> {}]

Find(ht, name) == name \in ht[Bucket(NBuckets(ht), name)]

\* Mutant: the nodes stay in the buckets they were in.
ResizeInPlace(ht, n) == [i \in 0..(n - 1) |-> IF i \in DOMAIN ht THEN ht[i] ELSE {}]

Resize(ht, n) ==
  IF n = NBuckets(ht) THEN ht
  ELSE [i \in 0..(n - 1) |-> {name \in Nodes(ht) : Bucket(n, name) = i}]

Attach(ht, name) == [ht EXCEPT ![Bucket(NBuckets(ht), name)] = @ \cup {name}]

Detach(ht, name) == [ht EXCEPT ![Bucket(NBuckets(ht), name)] = @ \ {name}]

\* The size is checked after the node was attached, against the threshold of
\* the present number of buckets.
Insert(ht, name) ==
  LET n == NBuckets(ht)
      attached == Attach(ht, name)
  IN  IF Find(ht, name) THEN ht
      ELSE IF Cardinality(Nodes(attached)) > (ExpandPercent * n) \div 100
           THEN Resize(attached, ExpandFactor * n)
           ELSE attached

Erase(ht, name) ==
  LET n == NBuckets(ht)
      detached == Detach(ht, name)
  IN  IF Cardinality(Nodes(detached)) < (ShrinkPercent * n) \div 100
      THEN Resize(detached, Max({MinBuckets, n \div ShrinkDivisor}))
      ELSE detached

----------------------------------------------------------------------------
\* The tree.

\* lookup: the node of a name and of each of its prefixes, the shortest first
Lookup(ht, name) ==
  LET upTo[len \in 0..Len(name)] ==
        Insert(IF len = 0 THEN ht ELSE upTo[len - 1], Prefix(name, len))
  IN  upTo[Len(name)]

HasChildren(ht, name) ==
  \E n \in Nodes(ht) : Len(n) = Len(name) + 1 /\ Parent(n) = name

\* isEmpty of a node, where used are the names that have table entries
IsEmpty(ht, used, name) == name \notin used /\ ~HasChildren(ht, name)

\* eraseIfEmpty, for the node alone and for the node and then its ancestors, up
\* to the first that is not empty
EraseNodeIfEmpty(ht, used, name) ==
  IF IsEmpty(ht, used, name) THEN Erase(ht, name) ELSE ht

EraseIfEmpty(ht, used, name) ==
  LET left[up \in 0..Len(name)] ==
        LET below == IF up = 0 THEN ht ELSE left[up - 1]
            ancestor == Prefix(name, Len(name) - up)
        IN  IF ancestor \in Nodes(below) THEN EraseNodeIfEmpty(below, used, ancestor) ELSE below
  IN  left[Len(name)]

\* findAllMatches: the nodes of the prefixes of a name, among those the selector accepts
Matches(entries, name) == {p \in entries : IsPrefix(p, name)}

\* findLongestPrefixMatch: a node is looked for under every prefix of the name.
LongestMatch(entries, name) ==
  CHOOSE p \in Matches(entries, name) :
    \A q \in Matches(entries, name) : Len(q) <= Len(p)

\* fullEnumerate: the nodes of the names a selector accepts, bucket after bucket
Enumerate(ht, accepted) == Nodes(ht) \cap accepted

\* partialEnumerate: the nodes of the subtree of a name, without the subtrees that
\* begin at a barrier
SubTree(ht, name, barriers) ==
  {n \in Nodes(ht) :
     /\ IsPrefix(name, n)
     /\ \A len \in (Len(name) + 1)..Len(n) : Prefix(n, len) \notin barriers}

----------------------------------------------------------------------------
\* What the tables rely on: a node is in the bucket where it is looked for, no
\* node without its parent, and nothing is kept that holds no table entry.
IsSound(ht, used) ==
  /\ \A i \in DOMAIN ht : \A name \in ht[i] : Bucket(NBuckets(ht), name) = i
  /\ \A name \in Nodes(ht) : name # <<>> => Parent(name) \in Nodes(ht)
  /\ used \subseteq Nodes(ht)
  /\ \A name \in Nodes(ht) : ~IsEmpty(ht, used, name)
=============================================================================
