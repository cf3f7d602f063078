---------------------------- MODULE RecentNonces ----------------------------
(***************************************************************************)
(* What the Dead Nonce List promises: it remembers the entries added last. *)
(* It may forget at any time, but always the oldest first, and never what  *)
(* is being added.                                                         *)
(***************************************************************************)

CONSTANT Entries

VARIABLES
  known,  \* the remembered entries
  before, \* the pairs <<x, y>> of them such that x was added for the last time
          \* before y was
  latest  \* the set of the entry that was added last; empty at first

Init == known = {} /\ before = {} /\ latest = {}

\* What may be left of the entries S: with an entry all that are younger
Left(S) == {T \in SUBSET S : \A x \in T, y \in S : <<x, y>> \in before => y \in T}

Add(x) ==
  /\ \E kept \in Left(known \ {x}) :
       /\ known' = kept \cup {x}
       /\ before' = (before \cap (kept \X kept)) \cup (kept \X {x})
  /\ latest' = {x}

Forget ==
  /\ known' \in Left(known)
  /\ before' = before \cap (known' \X known')
  /\ UNCHANGED latest

Next == Forget \/ \E x \in Entries : Add(x)

Spec == Init /\ [][Next]_<<known, before, latest>>

=============================================================================
