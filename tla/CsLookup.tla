-------------------------------- MODULE CsLookup --------------------------------
(***************************************************************************)
(* How the Content Store finds the leftmost or rightmost match of an       *)
(* Interest (table/cs.cpp, table/cs-entry-impl.cpp): searches by name in   *)
(* m_table, a sequence of Data in the order of their names and digests. A  *)
(* name is a sequence of components, integers in canonical order; implicit *)
(* digests come before all others, and are the negative ones.              *)
(***************************************************************************)
EXTENDS Integers, Sequences, SequencesExt

FullName(d) == Append(d.name, d.digest)
IsFullName(q) == q # <<>> /\ Last(q) < 0

\* Name::compare: a name comes before those it is a prefix of
NameBefore(n, m) ==
  \E k \in 1 .. Len(m) :
    /\ k - 1 <= Len(n) /\ SubSeq(n, 1, k - 1) = SubSeq(m, 1, k - 1)
    /\ k > Len(n) \/ n[k] < m[k]

\* compareDataWithData
DataBeforeData(d, e) == NameBefore(d.name, e.name) \/ (d.name = e.name /\ d.digest < e.digest)

\* compareQueryWithData: a query that is not a full name comes before the Data of its name
DataBeforeQuery(d, q) ==
  IF IsFullName(q) THEN NameBefore(d.name, Front(q)) \/ (d.name = Front(q) /\ d.digest < Last(q))
  ELSE NameBefore(d.name, q)

\* m_table, by operator< of EntryImpl
Table(data) == SetToSortSeq(data, DataBeforeData)

\* std::set::lower_bound; the place behind the last stands for end()
LowerBound(table, q) ==
  LET place == SelectInSeq(table, LAMBDA d : ~DataBeforeQuery(d, q))
  IN  IF place = 0 THEN Len(table) + 1 ELSE place

\* Name::getSuccessor: the first name behind those under q
Successor(q) == [q EXCEPT ![Len(q)] = @ + 1]

\* Name::getPrefix: of a shorter name all of it
GetPrefix(n, k) == IF Len(n) <= k THEN n ELSE SubSeq(n, 1, k)

\* canSatisfy: "admitted" are the Data the selectors and MustBeFresh allow
CanSatisfy(i, d) == IsPrefix(i.name, FullName(d)) /\ d \in i.admitted

\* the places of [first, last) that satisfy i
Satisfying(table, i, first, last) == {n \in first .. last - 1 : CanSatisfy(i, table[n])}

FindLeftmost(table, i, first, last) ==
  LET found == Satisfying(table, i, first, last)
  IN  IF found = {} THEN last ELSE CHOOSE n \in found : \A m \in found : n <= m

FindRightmostAmongExact(table, i, first, last) ==
  LET found == Satisfying(table, i, first, last)
  IN  IF found = {} THEN last ELSE CHOOSE n \in found : \A m \in found : m <= n

Astray == 0  \* the loop below passed "first": what follows is not defined

\* One pass of the loop for each prefix one component longer than the Interest, from the right
FindRightmost(table, i, first, last) ==
  LET From[right \in 1 .. last] ==
        IF right = first THEN last
        ELSE IF right < first THEN Astray
        ELSE IF Len(table[right - 1].name) = Len(i.name)
        THEN LET exact == FindRightmostAmongExact(table, i, first, right)
             IN  IF exact = right THEN last ELSE exact
        ELSE LET name == table[right - 1].name
                 left == LowerBound(table, GetPrefix(name, Len(i.name) + 1))
                 match == FindLeftmost(table, i, left, right)
             IN  IF match # right THEN match ELSE From[left]
  IN  From[last]

\* Cs::find: the set of the Data found, empty at a miss, {Astray} when that is not defined
Find(data, i) ==
  LET table == Table(data)
      first == LowerBound(table, i.name)
      last == IF i.name = <<>> THEN Len(table) + 1 ELSE LowerBound(table, Successor(i.name))
      match == IF i.rightmost THEN FindRightmost(table, i, first, last)
               ELSE FindLeftmost(table, i, first, last)
  IN  IF match = Astray THEN {Astray} ELSE IF match = last THEN {} ELSE {table[match]}

-----------------------------------------------------------------------------

\* The leftmost match is the first under the Interest's name. The rightmost match is the first
\* under the last component that follows the Interest's name in any match.
Wanted(data, i) ==
  LET matches == {d \in data : CanSatisfy(i, d)}
      Child(d) == GetPrefix(FullName(d), Len(i.name) + 1)
      last == {d \in matches : \A e \in matches : ~NameBefore(Child(d), Child(e))}
      candidates == IF i.rightmost THEN last ELSE matches
  IN  {d \in candidates : \A e \in candidates : d = e \/ DataBeforeData(d, e)}

\* The lookup finds what is wanted. It goes astray for a full name with the rightmost selector,
\* of a Data that is there and not admitted, when another of that name has a smaller digest.
FindsWanted(data, i) ==
  IF /\ i.rightmost /\ IsFullName(i.name)
     /\ \E d, e \in data : /\ FullName(d) = i.name /\ d \notin i.admitted
                           /\ e.name = d.name /\ e.digest < d.digest
  THEN Find(data, i) = {Astray}
  ELSE Find(data, i) = Wanted(data, i)

===============================================================================
