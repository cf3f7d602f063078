------------------------------- MODULE FuzzyWords -------------------------------
(***************************************************************************)
(* getFuzzWord of fw/forwarder.cpp: the word a queried name is sent on     *)
(* with, from a vocabulary of word vectors. Vectors are abstracted to how  *)
(* similar each word of the vocabulary is to a phrase.                     *)
(***************************************************************************)
EXTENDS Integers, Sequences, SequencesExt

CONSTANTS
  Vocabulary,       \* the words of the file, in its order
  Similarity(_, _), \* of a set of places in the vocabulary to a place: the cosine
  Opposite,         \* the least cosine, -1
  Shown,            \* N, how many of the closest words are kept
  NoEntry           \* an entry of bestw that is still empty

\* the first place of a word of the phrase
Position(word) == SelectInSeq(Vocabulary, LAMBDA entry : entry = word)

\* A phrase with a word that is not in the vocabulary is looked up again and again.
IsAnswered(phrase) == \A n \in DOMAIN phrase : Position(phrase[n]) # 0

\* bestd and bestw as one sequence: an entry goes before the first it is more similar than,
\* and the last one falls out.
NoneYet == [n \in 1 .. Shown |-> [word |-> NoEntry, similarity |-> Opposite]]

InsertBest(best, entry) ==
  LET place == SelectInSeq(best, LAMBDA other : entry.similarity > other.similarity)
  IN  IF place = 0 THEN best ELSE Front(InsertAt(best, place, entry))

\* the loop over the vocabulary, which passes over the words of the phrase themselves
ClosestWords(phrase) ==
  LET own == {Position(phrase[n]) : n \in DOMAIN phrase}
      Visit(best, place) ==
        IF place \in own THEN best
        ELSE InsertBest(best, [word |-> Vocabulary[place], similarity |-> Similarity(own, place)])
  IN  FoldLeft(Visit, NoneYet, [place \in DOMAIN Vocabulary |-> place])

\* "a = 1; newword = bestw[a]": the second of them
GetFuzzWord(phrase) == ClosestWords(phrase)[2].word

-----------------------------------------------------------------------------

\* The closest words come out in order: sorting all words that are not in the phrase and are
\* not its opposite, by similarity and then by place, gives the same list.
ClosestWordsAreRight ==
  \A phrase \in {<<v>> : v \in Range(Vocabulary)} \cup {<<v, w>> : v, w \in Range(Vocabulary)} :
    LET own == {Position(phrase[n]) : n \in DOMAIN phrase}
        others == {place \in DOMAIN Vocabulary \ own : Similarity(own, place) > Opposite}
        Closer(i, j) == \/ Similarity(own, i) > Similarity(own, j)
                        \/ Similarity(own, i) = Similarity(own, j) /\ i < j
        sorted == SetToSortSeq(others, Closer)
    IN  \A n \in 1 .. Shown : ClosestWords(phrase)[n].word =
          IF n \in DOMAIN sorted THEN Vocabulary[sorted[n]] ELSE NoEntry

===============================================================================
