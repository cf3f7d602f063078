----------------------------- MODULE LpReassembler -----------------------------
(***************************************************************************)
(* Partial packets and their drop timers (face/lp-reassembler). A partial  *)
(* packet is kept under the endpoint it came from and the sequence number  *)
(* its first fragment has.                                                 *)
(***************************************************************************)
EXTENDS Integers, Sequences, FiniteSets, Functions

CONSTANTS
  MaxReceived,        \* Options::nMaxFragments of the reassembler
  ReassemblyTimeout,  \* Options::reassemblyTimeout
  SeqModulus          \* 2^64 in the code: sequence numbers wrap around

ASSUME ReassemblerAssumption ==
  /\ MaxReceived \in Nat /\ ReassemblyTimeout \in Nat
  /\ SeqModulus \in Nat \ {0}

\* A fragment: the endpoint it comes from and its NDNLPv2 fields, and of its content
\* the message and the octets [begin, end) it holds.
\* An unfragmented packet has FragIndex 0 and FragCount 1.

\* mutant of Key: the subtraction does not wrap around
KeyNoWrap(frag) == <<frag.from, frag.seq - frag.index>>

Key(frag) == <<frag.from, (frag.seq - frag.index) % SeqModulus>>

IsWhole(frag) == frag.index = 0 /\ frag.count = 1

\* The checks before a fragment gets to a partial packet
Malformed(frag) == frag.index >= frag.count \/ frag.count > MaxReceived

\* A partial packet: fragCount, the fragments received by index, when the timer drops it
NewPartial(frag) == [count |-> frag.count, got |-> <<>>, dropAt |-> 0]

PartialOf(partial, frag) ==
  IF Key(frag) \in DOMAIN partial THEN partial[Key(frag)] ELSE NewPartial(frag)

\* the fragment is dropped: "FragCount changed" or "fragment already received"
Refused(pp, frag) == frag.count # pp.count \/ frag.index \in DOMAIN pp.got

Put(f, x, y) == [z \in DOMAIN f \cup {x} |-> IF z = x THEN y ELSE f[z]]

\* mutant of AddFragment: the timer set by the first fragment is kept
KeepFirstTimer(pp, frag, time) ==
  [pp EXCEPT !.got = Put(pp.got, frag.index, frag),
             !.dropAt = IF pp.got = <<>> THEN time + ReassemblyTimeout ELSE @]

\* the fragment is stored, and the drop timer starts again
AddFragment(pp, frag, time) ==
  [pp EXCEPT !.got = Put(pp.got, frag.index, frag), !.dropAt = time + ReassemblyTimeout]

IsComplete(pp) == Cardinality(DOMAIN pp.got) = pp.count

\* doReassembly: the fragments in order; the first one carries the other fields
Reassembled(pp) == [i \in 1 .. pp.count |-> pp.got[i - 1]]

===============================================================================
