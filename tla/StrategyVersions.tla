---------------------------- MODULE StrategyVersions ----------------------------
(***************************************************************************)
(* Which strategy a name in a command or in the configuration file stands  *)
(* for (table/strategy-choice): strategies are installed under their names *)
(* with a version, the last component, which a user may leave out. A name  *)
(* is a sequence of components, given by their places in the order of      *)
(* components.                                                             *)
(***************************************************************************)
EXTENDS Integers, SequencesExt, FiniteSetsExt

CONSTANT NoStrategy  \* nullptr

\* Name::compare, which orders the table of the installed strategies
Precedes(name, other) ==
  LET differ == {i \in DOMAIN name \cap DOMAIN other : name[i] # other[i]}
  IN  IF differ = {} THEN Len(name) < Len(other) ELSE name[Min(differ)] < other[Min(differ)]

\* lower_bound
FromLowerBound(installed, name) ==
  SetToSortSeq({other \in installed : ~Precedes(other, name)}, Precedes)

\* getStrategy: the loop ends at a name this one is no prefix of, and at this one itself; of
\* the names with one component more the last one is taken.
GetStrategy(installed, name) ==
  LET sorted == FromLowerBound(installed, name)
      end == SelectInSeq(sorted, LAMBDA other : ~IsPrefix(name, other))
      visited == IF end = 0 THEN sorted ELSE SubSeq(sorted, 1, end - 1)
      Visit(candidate, other) ==
        IF candidate # name /\ Len(other) - Len(name) \in {0, 1} THEN other ELSE candidate
  IN  FoldLeft(Visit, NoStrategy, visited)

\* hasStrategy
HasStrategy(installed, name, isExact) ==
  IF isExact THEN name \in installed ELSE GetStrategy(installed, name) # NoStrategy

\* The strategy of just this name, or else the newest version of it, or none: names in between
\* that have more components, and those of other strategies, change nothing.
StrategyIsRight(installed, name) ==
  LET versions == {other \in installed : Len(other) = Len(name) + 1 /\ Front(other) = name}
      found == GetStrategy(installed, name)
  IN  CASE name \in installed -> found = name
        [] name \notin installed /\ versions # {} ->
             found = Append(name, Max({Last(version) : version \in versions}))
        [] name \notin installed /\ versions = {} -> ~HasStrategy(installed, name, FALSE)

===============================================================================
