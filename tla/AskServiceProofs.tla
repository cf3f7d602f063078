--------------------------- MODULE AskServiceProofs ---------------------------
(* Theorems about the application's search page and its service, for every   *)
(* value of the constants of module AskService.                              *)
EXTENDS AskService, SequenceTheorems, FiniteSetTheorems, TLAPS

-----------------------------------------------------------------------------
(* Induction, from the well-foundedness of the finite subsets of a set        *)

\* A non-empty set of natural numbers has a least element.
LEMMA Least ==
  ASSUME NEW T, T \subseteq Nat, T # {}
  PROVE  \E n \in T : \A m \in T : n <= m
<1> DEFINE R == StrictSubsetOrdering(Nat)
           below == {1 .. n : n \in T}
<1>1. IsWellFoundedOn(R, FiniteSubsetsOf(Nat))
  BY FS_StrictSubsetOrderingWellFounded
<1>2. below # {}
  OBVIOUS
<1>3. below \subseteq FiniteSubsetsOf(Nat)
  <2> SUFFICES ASSUME NEW n \in T PROVE 1 .. n \in FiniteSubsetsOf(Nat)
    OBVIOUS
  <2>1. IsFiniteSet(1 .. n)
    BY FS_Interval, n \in Int, 1 \in Int
  <2>2. (1 .. n) \subseteq Nat
    OBVIOUS
  <2> QED BY <2>1, <2>2 DEF FiniteSubsetsOf
<1> HIDE DEF below
<1>4. PICK s \in below : \A t \in below : ~(<<t, s>> \in R)
  BY <1>1, <1>2, <1>3, WFMin
<1>5. PICK n \in T : s = 1 .. n
  BY DEF below
<1>6. ASSUME NEW m \in T, m < n PROVE FALSE
  <2>1. (1 .. m) \in below
    BY DEF below
  <2>2. (1 .. m) \subseteq (1 .. n) /\ n \in 1 .. n /\ n \notin 1 .. m
    BY <1>6
  <2>3. (1 .. m) \in SUBSET Nat /\ (1 .. n) \in SUBSET Nat
    OBVIOUS
  <2>4. <<1 .. m, 1 .. n>> \in R
    BY <2>2, <2>3, Zenon DEF StrictSubsetOrdering
  <2> QED BY <2>1, <2>4, <1>4, <1>5
<1> QED BY <1>6

\* Induction up to N over the numbers that are in S.
LEMMA UpTo ==
  ASSUME NEW N \in Nat, NEW S, 0 \in S,
         \A n \in 0 .. N : n < N /\ n \in S => n + 1 \in S
  PROVE  \A n \in 0 .. N : n \in S
<1> DEFINE T == {n \in 0 .. N : n \notin S}
<1>1. CASE T = {}
  BY <1>1
<1>2. CASE T # {}
  <2>1. PICK n \in T : \A m \in T : n <= m
    BY <1>2, Least, T \subseteq Nat
  <2>2. n \in 1 .. N /\ n - 1 \in 0 .. N /\ n - 1 < N /\ (n - 1) + 1 = n
    BY <2>1
  <2>3. n - 1 \in S
    BY <2>1, <2>2
  <2> QED BY <2>1, <2>2, <2>3
<1> QED BY <1>1, <1>2


-----------------------------------------------------------------------------
(* The queue of the main thread: what an operation on it leaves there          *)

\* The function that NotForPage is made of
Kept(s) ==
  CHOOSE rest : rest = [n \in 0 .. Len(s) |->
                          IF n = 0 THEN <<>>
                          ELSE IF s[n].is = "list" THEN rest[n - 1] ELSE Append(rest[n - 1], s[n])]

\* ... exists.
LEMMA KeptDef ==
  ASSUME NEW s, Len(s) \in Nat
  PROVE  Kept(s) = [n \in 0 .. Len(s) |->
                     IF n = 0 THEN <<>>
                     ELSE IF s[n].is = "list" THEN Kept(s)[n - 1]
                     ELSE Append(Kept(s)[n - 1], s[n])]
<1> DEFINE Good(f, N) == f = [n \in 0 .. N |->
                                IF n = 0 THEN <<>>
                                ELSE IF s[n].is = "list" THEN f[n - 1] ELSE Append(f[n - 1], s[n])]
           S == {N \in 0 .. Len(s) : \E f : Good(f, N)}
<1>1. 0 \in S
  <2> DEFINE f == [n \in 0 .. 0 |-> <<>>]
  <2>1. Good(f, 0)
    OBVIOUS
  <2> HIDE DEF f, Good
  <2>2. \E h : Good(h, 0)
    BY <2>1
  <2> QED BY <2>2
<1>2. ASSUME NEW N \in 0 .. Len(s), N < Len(s), N \in S
      PROVE  N + 1 \in S
  <2>1. PICK f : Good(f, N)
    BY <1>2
  <2> DEFINE next == IF s[N + 1].is = "list" THEN f[N] ELSE Append(f[N], s[N + 1])
             g == [n \in 0 .. N + 1 |-> IF n = N + 1 THEN next ELSE f[n]]
  <2>2. ASSUME NEW n \in 0 .. N + 1
        PROVE  g[n] = IF n = 0 THEN <<>>
                      ELSE IF s[n].is = "list" THEN g[n - 1] ELSE Append(g[n - 1], s[n])
    <3>1. CASE n = N + 1
      <4>1. n # 0 /\ n - 1 = N /\ g[n - 1] = f[N] /\ g[n] = next
        BY <3>1
      <4> QED BY <3>1, <4>1
    <3>2. CASE n # N + 1
      <4>1. n \in 0 .. N /\ g[n] = f[n] /\ (n # 0 => g[n - 1] = f[n - 1])
        BY <3>2
      <4> QED BY <2>1, <4>1
    <3> QED BY <3>1, <3>2
  <2>3. Good(g, N + 1)
    BY <2>2
  <2>4. N + 1 \in 0 .. Len(s)
    BY <1>2
  <2> QED BY <2>3, <2>4
<1> HIDE DEF Good
<1>3. Len(s) \in S
  <2>1. \A n \in 0 .. Len(s) : n \in S
    <3> HIDE DEF S
    <3> QED BY <1>1, <1>2, UpTo
  <2> QED BY <2>1
<1>4. \E f : Good(f, Len(s))
  BY <1>3
<1> QED BY <1>4 DEF Good, Kept

\* Every element of t is one of s.
IsFrom(t, s) == \A i \in 1 .. Len(t) : \E k \in 1 .. Len(s) : t[i] = s[k]

LEMMA NotForPageFacts ==
  ASSUME NEW s \in Seq(Messages)
  PROVE  NotForPage(s) \in Seq(Messages) /\ IsFrom(NotForPage(s), s)
<1> DEFINE r == Kept(s)
           G == {n \in 0 .. Len(s) : r[n] \in Seq(Messages) /\ IsFrom(r[n], s)}
<1>1. /\ Len(s) \in Nat
      /\ r = [n \in 0 .. Len(s) |-> IF n = 0 THEN <<>>
                                    ELSE IF s[n].is = "list" THEN r[n - 1]
                                    ELSE Append(r[n - 1], s[n])]
  BY LenProperties, KeptDef
<1> HIDE DEF r
<1>2. 0 \in G
  <2>1. r[0] = <<>>
    BY <1>1
  <2> QED BY <1>1, <2>1 DEF IsFrom
<1>3. ASSUME NEW n \in 0 .. Len(s), n < Len(s), n \in G
      PROVE  n + 1 \in G
  <2>1. n + 1 \in 1 .. Len(s) /\ n + 1 \in 0 .. Len(s) /\ (n + 1) - 1 = n /\ n + 1 # 0
    BY <1>1, <1>3
  <2>2. r[n] \in Seq(Messages) /\ Len(r[n]) \in Nat /\ IsFrom(r[n], s)
    BY <1>3, LenProperties
  <2>3. CASE s[n + 1].is = "list"
    BY <1>1, <2>1, <2>2, <2>3
  <2>4. CASE s[n + 1].is # "list"
    <3> DEFINE t == Append(r[n], s[n + 1])
    <3>1. r[n + 1] = t
      BY <1>1, <2>1, <2>4
    <3>2. s[n + 1] \in Messages
      BY <2>1, ElementOfSeq
    <3>3. /\ t \in Seq(Messages) /\ Len(t) = Len(r[n]) + 1 /\ t[Len(r[n]) + 1] = s[n + 1]
          /\ \A i \in 1 .. Len(r[n]) : t[i] = r[n][i]
      BY <2>2, <3>2, AppendProperties
    <3> HIDE DEF t
    <3>4. IsFrom(t, s)
      <4> SUFFICES ASSUME NEW i \in 1 .. Len(t) PROVE \E k \in 1 .. Len(s) : t[i] = s[k]
        BY DEF IsFrom
      <4>1. CASE i \in 1 .. Len(r[n])
        BY <2>2, <3>3, <4>1 DEF IsFrom
      <4>2. CASE i = Len(r[n]) + 1
        BY <2>1, <3>3, <4>2
      <4> QED BY <2>2, <3>3, <4>1, <4>2
    <3> QED BY <2>1, <3>1, <3>3, <3>4
  <2> QED BY <2>3, <2>4
<1>4. \A n \in 0 .. Len(s) : n \in G
  <2> HIDE DEF G
  <2> QED BY <1>1, <1>2, <1>3, UpTo
<1>5. Len(s) \in 0 .. Len(s)
  BY <1>1
<1>6. NotForPage(s) = r[Len(s)]
  BY DEF NotForPage, Kept, r
<1> QED BY <1>4, <1>5, <1>6

\* What is taken is the first message; the others move up.
LEMMA TakeFacts ==
  ASSUME NEW q \in Seq(Messages), q # <<>>
  PROVE  /\ Head(q) \in Messages /\ Head(q) = q[1] /\ 1 \in 1 .. Len(q)
         /\ Tail(q) \in Seq(Messages) /\ Len(q) \in Nat /\ Len(Tail(q)) = Len(q) - 1
         /\ \A i \in 1 .. Len(q) - 1 : Tail(q)[i] = q[i + 1]
  BY HeadTailProperties, LenProperties, EmptySeq

LEMMA AppendFacts ==
  ASSUME NEW q \in Seq(Messages), NEW m \in Messages
  PROVE  /\ Append(q, m) \in Seq(Messages) /\ Len(q) \in Nat
         /\ Len(Append(q, m)) = Len(q) + 1 /\ Append(q, m)[Len(q) + 1] = m
         /\ \A i \in 1 .. Len(q) : Append(q, m)[i] = q[i]
  BY AppendProperties, LenProperties

LEMMA AreMessages ==
  /\ \A r \in Requests : [is |-> "start", request |-> r] \in Messages
  /\ [is |-> "list"] \in Messages /\ [is |-> "destroy"] \in Messages
  /\ [is |-> "error"] \in Messages
  /\ \A m \in Messages : m.is \in {"start", "destroy", "error", "list"}
  /\ \A m \in Messages : m.is = "start" => m.request \in Requests
  BY DEF Messages

-----------------------------------------------------------------------------
(* The inductive invariant *)

WordOrNothing == Words \cup {Nothing}

Pages ==
  [list : WordOrNothing, poller : {"new", "polling", "ended"}, stop : BOOLEAN,
   text : WordOrNothing, shows : WordOrNothing, clicked : {"exact", "fuzzy", Nothing}]

\* An error of the network thread is what ends it, and takes its Interests along.
ThreadOK ==
  /\ shouldStop => raised
  /\ thread \in {"cleanup", "report"} => shouldStop
  /\ thread \in {"report"} \cup Stopped => asked = {}
  /\ ~service => thread \in Stopped

IsDestroy(q, i) == q[i].is = "destroy"

\* The queue q tells once, or never, of the destruction of a service.
TellsOnce(q) == \E i \in 1 .. Len(q) : \A j \in 1 .. Len(q) : IsDestroy(q, j) <=> j = i
TellsNever(q) == \A i \in 1 .. Len(q) : ~IsDestroy(q, i)

\* q fits a service that is due for destruction, or one that is not or is gone.
Fits(q, due) == IF due THEN TellsOnce(q) ELSE TellsNever(q)

QueueOK == Fits(queue, service /\ thread \in Stopped)

\* A request that is owed while its flag is about to be reset was made in between, or its word
\* was replaced.
RequestsOK ==
  /\ LoneRequestIsKept
  /\ \A r \in owed \ excused : thread # Sent[r.kind]

PageOK ==
  /\ page \in Pages
  /\ page.text = Nothing => page.poller = "new" /\ page.clicked = Nothing
  /\ page.clicked # Nothing => page.shows = Nothing /\ crashed = "none"
  /\ page.clicked # Nothing /\ page.poller = "polling" => overlap
  /\ page.poller = "new" => page.text = Nothing \/ page.clicked # Nothing
  /\ crashed = "poller" => page.poller = "ended" /\ page.shows = Nothing

\* The page is about to start its poller a second time, or did: the program ends.
PollsAgain == page.poller = "ended" /\ (page.clicked # Nothing \/ crashed = "poller")

\* The words a search of the page may be for
Current == {Nothing, page.text}

IsSearch(request) == request.kind # "file"

\* The searches among the messages of the queue q are for words of W.
SearchesIn(q, W) ==
  \A i \in 1 .. Len(q) :
    q[i].is = "start" /\ IsSearch(q[i].request) => q[i].request.word \in W

\* As long as no search overtakes another, whatever is requested, asked and answered is for
\* the page's only search; what a service that ended left behind is for nobody.
SearchOK ==
  ~overlap /\ ~PollsAgain =>
    /\ SearchesIn(queue, Current)
    /\ command # Nothing /\ IsSearch(command) => command.word \in Current
    /\ service \/ command # Nothing => words["extraFileListPrefix"] \in Current
    /\ \A request \in asked : IsSearch(request) => request.word \in Current
    /\ page.text # Nothing => page.list \in Current /\ page.shows \in Current
    /\ page.text # Nothing /\ page.clicked = Nothing => published \in Current

IInv ==
  /\ TypeOK
  /\ ThreadOK
  /\ QueueOK
  /\ RequestsOK
  /\ PageOK
  /\ SearchOK

-----------------------------------------------------------------------------
(* The queue and the service it tells of                                      *)

\* A message that is not about the destruction is taken, or comes.
LEMMA FitsWithout ==
  ASSUME NEW q \in Seq(Messages), NEW due \in BOOLEAN,
         q # <<>>, Head(q).is # "destroy", Fits(q, due)
  PROVE  Fits(Tail(q), due)
<1> DEFINE t == Tail(q)
<1>1. /\ Len(q) \in Nat /\ Len(t) = Len(q) - 1 /\ 1 \in 1 .. Len(q) /\ ~IsDestroy(q, 1)
      /\ \A i \in 1 .. Len(t) : t[i] = q[i + 1] /\ i + 1 \in 1 .. Len(q)
  BY TakeFacts DEF IsDestroy
<1> HIDE DEF t
<1>2. \A i \in 1 .. Len(t) : IsDestroy(t, i) <=> IsDestroy(q, i + 1)
  BY <1>1 DEF IsDestroy
<1>3. CASE ~due
  BY <1>1, <1>2, <1>3 DEF Fits, TellsNever, t
<1>4. CASE due
  <2>1. PICK i \in 1 .. Len(q) : \A j \in 1 .. Len(q) : IsDestroy(q, j) <=> j = i
    BY <1>4 DEF Fits, TellsOnce
  <2>2. i - 1 \in 1 .. Len(t)
    BY <1>1, <2>1
  <2>3. \A j \in 1 .. Len(t) : IsDestroy(t, j) <=> j = i - 1
    BY <1>1, <1>2, <2>1
  <2> QED BY <1>4, <2>2, <2>3 DEF Fits, TellsOnce, t
<1> QED BY <1>3, <1>4

LEMMA FitsWith ==
  ASSUME NEW q \in Seq(Messages), NEW due \in BOOLEAN,
         NEW m \in Messages, m.is # "destroy", Fits(q, due)
  PROVE  Fits(Append(q, m), due)
<1> DEFINE t == Append(q, m)
<1>1. /\ Len(q) \in Nat /\ Len(t) = Len(q) + 1 /\ t[Len(q) + 1] = m
      /\ \A i \in 1 .. Len(q) : t[i] = q[i] /\ i \in 1 .. Len(t)
  BY AppendFacts
<1> HIDE DEF t
<1>2. \A i \in 1 .. Len(t) : IsDestroy(t, i) <=> i \in 1 .. Len(q) /\ IsDestroy(q, i)
  BY <1>1 DEF IsDestroy
<1>3. CASE ~due
  BY <1>2, <1>3 DEF Fits, TellsNever, t
<1>4. CASE due
  <2>1. PICK i \in 1 .. Len(q) : \A j \in 1 .. Len(q) : IsDestroy(q, j) <=> j = i
    BY <1>4 DEF Fits, TellsOnce
  <2>2. i \in 1 .. Len(t) /\ \A j \in 1 .. Len(t) : IsDestroy(t, j) <=> j = i
    BY <1>1, <1>2, <2>1
  <2> QED BY <1>4, <2>2 DEF Fits, TellsOnce, t
<1> QED BY <1>3, <1>4

\* The service is told to stop, ...
LEMMA FitsTold ==
  ASSUME NEW q \in Seq(Messages), NEW m \in Messages, m.is = "destroy", TellsNever(q)
  PROVE  TellsOnce(Append(q, m))
<1> DEFINE t == Append(q, m)
<1>1. /\ Len(q) \in Nat /\ Len(t) = Len(q) + 1 /\ t[Len(q) + 1] = m
      /\ \A i \in 1 .. Len(q) : t[i] = q[i]
  BY AppendFacts
<1> HIDE DEF t
<1>2. Len(q) + 1 \in 1 .. Len(t)
  BY <1>1
<1>3. \A j \in 1 .. Len(t) : IsDestroy(t, j) <=> j = Len(q) + 1
  BY <1>1 DEF IsDestroy, TellsNever
<1> QED BY <1>2, <1>3 DEF TellsOnce, t

\* ... and destroyed.
LEMMA FitsDestroyed ==
  ASSUME NEW q \in Seq(Messages), NEW due \in BOOLEAN,
         q # <<>>, Head(q).is = "destroy", Fits(q, due)
  PROVE  due /\ TellsNever(Tail(q))
<1> DEFINE t == Tail(q)
<1>1. /\ Len(q) \in Nat /\ Len(t) = Len(q) - 1 /\ 1 \in 1 .. Len(q) /\ IsDestroy(q, 1)
      /\ \A i \in 1 .. Len(t) : t[i] = q[i + 1] /\ i + 1 \in 1 .. Len(q)
  BY TakeFacts DEF IsDestroy
<1> HIDE DEF t
<1>2. due
  BY <1>1 DEF Fits, TellsNever
<1>3. \A j \in 1 .. Len(q) : IsDestroy(q, j) => j = 1
  BY <1>1, <1>2 DEF Fits, TellsOnce
<1>4. \A i \in 1 .. Len(t) : ~IsDestroy(t, i)
  BY <1>1, <1>3 DEF IsDestroy
<1> QED BY <1>2, <1>4 DEF TellsNever, t

\* What is not for the page is the same news of the service.
LEMMA NotForPageFits ==
  ASSUME NEW s \in Seq(Messages), NEW due \in BOOLEAN, Fits(s, due)
  PROVE  Fits(NotForPage(s), due)
<1>1. CASE ~due
  <2>1. NotForPage(s) \in Seq(Messages) /\ IsFrom(NotForPage(s), s)
    BY NotForPageFacts
  <2> QED BY <1>1, <2>1 DEF IsFrom, Fits, TellsNever, IsDestroy
<1>2. CASE due
  <2>1. PICK d \in 1 .. Len(s) : \A j \in 1 .. Len(s) : IsDestroy(s, j) <=> j = d
    BY <1>2 DEF Fits, TellsOnce
  <2> DEFINE r == Kept(s)
             G == {n \in 0 .. Len(s) : r[n] \in Seq(Messages) /\ Fits(r[n], d <= n)}
  <2>2. /\ Len(s) \in Nat
        /\ r = [n \in 0 .. Len(s) |-> IF n = 0 THEN <<>>
                                      ELSE IF s[n].is = "list" THEN r[n - 1]
                                      ELSE Append(r[n - 1], s[n])]
    BY LenProperties, KeptDef
  <2> HIDE DEF r
  <2>3. 0 \in G
    <3>1. r[0] = <<>> /\ ~(d <= 0)
      BY <2>2
    <3> QED BY <2>2, <3>1 DEF Fits, TellsNever
  <2>4. ASSUME NEW n \in 0 .. Len(s), n < Len(s), n \in G
        PROVE  n + 1 \in G
    <3>1. n + 1 \in 1 .. Len(s) /\ n + 1 \in 0 .. Len(s) /\ (n + 1) - 1 = n /\ n + 1 # 0
      BY <2>2, <2>4
    <3>2. r[n] \in Seq(Messages) /\ Fits(r[n], d <= n)
      BY <2>4
    <3>3. s[n + 1] \in Messages
      BY <3>1, ElementOfSeq
    <3>4. CASE s[n + 1].is = "list"
      <4>1. r[n + 1] = r[n] /\ ~IsDestroy(s, n + 1)
        BY <2>2, <3>1, <3>4 DEF IsDestroy
      <4>2. (d <= n + 1) = (d <= n)
        BY <2>1, <3>1, <4>1
      <4> QED BY <3>1, <3>2, <4>1, <4>2
    <3>5. CASE s[n + 1].is # "list"
      <4>1. r[n + 1] = Append(r[n], s[n + 1])
        BY <2>2, <3>1, <3>5
      <4>2. r[n + 1] \in Seq(Messages)
        BY <3>2, <3>3, <4>1, AppendFacts
      <4>3. CASE d = n + 1
        <5>1. s[n + 1].is = "destroy" /\ ~(d <= n) /\ d <= n + 1
          BY <2>1, <3>1, <4>3 DEF IsDestroy
        <5>2. TellsNever(r[n])
          BY <3>2, <5>1 DEF Fits
        <5>3. TellsOnce(r[n + 1])
          BY <3>2, <3>3, <4>1, <5>1, <5>2, FitsTold
        <5> QED BY <3>1, <4>2, <5>1, <5>3 DEF Fits
      <4>4. CASE d # n + 1
        <5>1. s[n + 1].is # "destroy" /\ (d <= n + 1) = (d <= n)
          BY <2>1, <3>1, <4>4 DEF IsDestroy
        <5> DEFINE before == d <= n
        <5>2. before \in BOOLEAN /\ Fits(r[n], before)
          BY <3>2
        <5>3. Fits(r[n + 1], before)
          <6> HIDE DEF before
          <6> QED BY <3>2, <3>3, <4>1, <5>1, <5>2, FitsWith
        <5> QED BY <3>1, <4>2, <5>1, <5>3
      <4> QED BY <4>3, <4>4
    <3> QED BY <3>4, <3>5
  <2>5. \A n \in 0 .. Len(s) : n \in G
    <3> HIDE DEF G
    <3> QED BY <2>2, <2>3, <2>4, UpTo
  <2>6. Len(s) \in 0 .. Len(s) /\ d <= Len(s)
    BY <2>1, <2>2
  <2>7. NotForPage(s) = r[Len(s)]
    BY DEF NotForPage, Kept, r
  <2> QED BY <1>2, <2>5, <2>6, <2>7
<1> QED BY <1>1, <1>2

-----------------------------------------------------------------------------
(* Every step keeps the inductive invariant                                   *)

LEMMA InitOK == Init => IInv
<1> SUFFICES ASSUME Init PROVE IInv
  OBVIOUS
<1>1. queue = <<>> /\ Len(queue) = 0 /\ queue \in Seq(Messages)
  BY EmptySeq DEF Init
<1>2. TypeOK
  BY <1>1 DEF Init, TypeOK, Places, Kinds, Field
<1>3. ThreadOK
  BY DEF Init, ThreadOK, Stopped
<1>4. QueueOK
  BY <1>1 DEF Init, QueueOK, Fits, TellsNever, Stopped
<1>5. RequestsOK
  BY DEF Init, RequestsOK, LoneRequestIsKept
<1>6. PageOK
  BY DEF Init, PageOK, NewPage, Pages, WordOrNothing
<1>7. SearchOK
  BY <1>1 DEF Init, SearchOK, SearchesIn, NewPage, Current, Kinds, Field
<1> QED BY <1>2, <1>3, <1>4, <1>5, <1>6, <1>7 DEF IInv

\* Where the network thread goes on from
LEMMA Going ==
  /\ Sent.exact = "exact sent" /\ Sent.fuzzy = "fuzzy sent" /\ Sent.file = "file sent"
  /\ Sent["exact"] = "exact sent" /\ Sent["fuzzy"] = "fuzzy sent" /\ Sent["file"] = "file sent"
  /\ After("exact") = "fuzzy" /\ After("exact sent") = "fuzzy"
  /\ After("fuzzy") = "file" /\ After("fuzzy sent") = "file"
  /\ After("file") = "events" /\ After("file sent") = "events"
  BY DEF Sent, After

LEMMA GoingOn ==
  ASSUME NEW kind \in Kinds
  PROVE  /\ kind \in {"exact", "fuzzy", "file"} /\ Sent[kind] \in {"exact sent", "fuzzy sent", "file sent"}
         /\ After(kind) \in {"fuzzy", "file", "events"}
         /\ After(Sent[kind]) \in {"fuzzy", "file", "events"}
         /\ \A k \in Kinds : Sent[k] = Sent[kind] => k = kind
<1>1. CASE kind = "exact"
  BY <1>1, Going DEF Kinds
<1>2. CASE kind = "fuzzy"
  BY <1>2, Going DEF Kinds
<1>3. CASE kind = "file"
  BY <1>3, Going DEF Kinds
<1> QED BY <1>1, <1>2, <1>3 DEF Kinds

LEMMA TypeStep ==
  ASSUME TypeOK, PageOK, [Next]_vars
  PROVE  TypeOK'
<1>1. /\ queue \in Seq(Messages) /\ command \in Requests \cup {Nothing}
      /\ page \in Pages /\ published \in Words \cup {Nothing}
  BY DEF TypeOK, PageOK
<1> USE DEF serviceVars, history
<1>2. ASSUME NEW kind \in {"exact", "fuzzy"}, NEW word \in Words, Click(kind, word)
      PROVE  TypeOK'
  BY <1>2 DEF Click, TypeOK
<1>3. CASE StartPoller
  <2>1. page.text # Nothing /\ page.clicked \in Kinds /\ page.text \in Words
    BY <1>1, <1>3 DEF StartPoller, PageOK, Pages, WordOrNothing, Kinds
  <2>2. [is |-> "start", request |-> Request(page.clicked, page.text)] \in Messages
    BY <2>1 DEF Request, Requests, Messages
  <2>3. queue' \in Seq(Messages)
    BY <1>1, <1>3, <2>2, AppendFacts DEF StartPoller, Post
  <2> QED BY <1>3, <2>3 DEF StartPoller, TypeOK, ClearPublished
<1>4. ASSUME NEW word \in Words, Download(word) PROVE TypeOK'
  <2>1. [is |-> "start", request |-> Request("file", word)] \in Messages
    BY DEF Request, Requests, Messages, Kinds
  <2>2. queue' \in Seq(Messages)
    BY <1>1, <1>4, <2>1, AppendFacts DEF Download, Post
  <2> QED BY <1>4, <2>2 DEF Download, TypeOK
<1>5. ASSUME NEW message, Take(message)
      PROVE  queue' \in Seq(Messages) /\ Head(queue) \in Messages /\ Head(queue).is = message
  BY <1>1, <1>5, TakeFacts DEF Take
<1>6. CASE ShowList
  BY <1>5, <1>6 DEF ShowList, TypeOK
<1>7. CASE OpenPage
  BY <1>1, <1>7, AppendFacts, AreMessages DEF OpenPage, OpenMessage, TypeOK
<1>8. CASE RenewPage
  <2>1. queue' \in Seq(Messages)
    BY <1>1, <1>8, TakeFacts, NotForPageFacts, AppendFacts, AreMessages DEF RenewPage, OpenMessage
  <2>2. overlap' \in BOOLEAN
    BY <1>8 DEF RenewPage
  <2> QED BY <1>8, <2>1, <2>2 DEF RenewPage, TypeOK
<1>9. CASE Polls
  BY <1>1, <1>9, AppendFacts, AreMessages DEF Polls, OpenMessage, TypeOK
<1>10. CASE PollerEnds
  BY <1>10 DEF PollerEnds, TypeOK
<1>11. CASE CreateService
  <2>1. words' \in [{"extraFilePrefix", "extraFileListPrefix"} -> Words \cup {Nothing}]
    BY <1>11 DEF CreateService, TypeOK
  <2>2. thread' \in Places /\ former' \in Nat
    BY <1>11 DEF CreateService, TypeOK, Places, Kinds
  <2> QED BY <1>11, <2>1, <2>2 DEF CreateService, TypeOK
<1>12. CASE StartCommand
  <2>1. queue' \in Seq(Messages) /\ command' \in Requests
    BY <1>5, <1>12, AreMessages DEF StartCommand
  <2>2. /\ {shouldStop', face'} \subseteq BOOLEAN /\ flags' \subseteq Kinds
        /\ crashed' \in {"none", "service", "poller"}
    BY <1>12 DEF StartCommand, InitializeIfNeeded, TypeOK
  <2> QED BY <1>12, <2>1, <2>2 DEF StartCommand, TypeOK
<1>13. CASE WriteWord
  <2>1. command.word \in Words \cup {Nothing}
    BY <1>1, <1>13 DEF WriteWord, Requests
  <2>2. excused' \subseteq Requests
    BY <1>13 DEF WriteWord, TypeOK
  <2>3. words' \in [{"extraFilePrefix", "extraFileListPrefix"} -> Words \cup {Nothing}]
    BY <1>13, <2>1 DEF WriteWord, TypeOK
  <2> QED BY <1>13, <2>2, <2>3 DEF WriteWord, TypeOK
<1>14. CASE WriteFlag
  <2>1. command.kind \in Kinds /\ command \in Requests
    BY <1>1, <1>14 DEF WriteFlag, Requests
  <2>2. owed' \subseteq Requests /\ excused' \subseteq Requests /\ flags' \subseteq Kinds
    BY <1>14, <2>1 DEF WriteFlag, TypeOK
  <2> QED BY <1>14, <2>2 DEF WriteFlag, TypeOK
<1>15. CASE DestroyService
  BY <1>5, <1>15 DEF DestroyService, TypeOK
<1>16. /\ RaiseError => raised' = TRUE /\ shouldStop' = TRUE /\ face' = face
       /\ FaceFails => RaiseError
       /\ FaceWorks => raised' = raised /\ shouldStop' = shouldStop /\ face' = face
  BY DEF RaiseError, FaceFails, FaceWorks
<1>17. ASSUME NEW kind \in Kinds, Ask(kind) PROVE TypeOK'
  <2>1. {raised', shouldStop', face'} \subseteq BOOLEAN
    BY <1>16, <1>17 DEF Ask, TypeOK
  <2>2. thread' \in Places
    BY <1>17 DEF Ask, Runs, After, Places, Kinds, Sent
  <2>3. words[Field(kind)] \in Words \cup {Nothing}
    BY DEF TypeOK, Field
  <2>4. asked' \subseteq Requests /\ owed' \subseteq Requests /\ excused' \subseteq Requests
    BY <1>17, <2>3 DEF Ask, Request, Requests, TypeOK
  <2> QED BY <1>17, <2>1, <2>2, <2>4 DEF Ask, TypeOK
<1>18. ASSUME NEW kind \in Kinds, ResetFlag(kind) PROVE TypeOK'
  <2>1. thread' \in Places
    BY <1>18, GoingOn DEF ResetFlag, Runs, Places, Kinds
  <2> QED BY <1>18, <2>1 DEF ResetFlag, TypeOK
<1>19. ASSUME NEW request \in asked, ReceiveAnswer(request) \/ LoseInterest(request)
       PROVE  TypeOK'
  <2>1. request.word \in Words \cup {Nothing}
    BY DEF TypeOK, Requests
  <2> QED BY <1>19, <2>1 DEF ReceiveAnswer, LoseInterest, TypeOK
<1>20. CASE ProcessEvents
  BY <1>16, <1>20 DEF ProcessEvents, TypeOK, Places, Kinds
<1>21. CASE FinalCleanup
  BY <1>21 DEF FinalCleanup, TypeOK, Places
<1>22. CASE HandleRaisedError
  <2>1. queue' \in Seq(Messages)
    BY <1>1, <1>22, AppendFacts, AreMessages DEF HandleRaisedError, TellService
  <2>2. thread' \in Places
    BY <1>22 DEF HandleRaisedError, Places, Stopped
  <2> QED BY <1>22, <2>1, <2>2 DEF HandleRaisedError, TypeOK
<1>23. CASE SendBroadcast
  <2>1. queue' \in Seq(Messages)
    BY <1>1, <1>23, AppendFacts, AreMessages DEF SendBroadcast
  <2>2. thread' \in Places /\ former' \in Nat
    BY <1>23 DEF SendBroadcast, Places, Stopped, TypeOK
  <2> QED BY <1>23, <2>1, <2>2 DEF SendBroadcast, TypeOK
<1>24. CASE ThreadEnds
  BY <1>24 DEF ThreadEnds, TypeOK, Places, Stopped
<1>25. CASE UNCHANGED vars
  BY <1>25 DEF vars, TypeOK
<1> QED BY <1>2, <1>3, <1>4, <1>6, <1>7, <1>8, <1>9, <1>10, <1>11, <1>12, <1>13, <1>14, <1>15,
           <1>17, <1>18, <1>19, <1>20, <1>21, <1>22, <1>23, <1>24, <1>25 DEF Next

\* What most steps do to the queue: they bring or take no news of the service.
QuietSteps ==
  \/ queue' = queue
  \/ queue # <<>> /\ queue' = Tail(queue) /\ Head(queue).is # "destroy"
  \/ \E m \in Messages : m.is # "destroy" /\ queue' = Append(queue, m)

LEMMA QueueStep ==
  ASSUME TypeOK, PageOK, ThreadOK, QueueOK, [Next]_vars
  PROVE  QueueOK'
<1>1. queue \in Seq(Messages) /\ service \in BOOLEAN /\ page \in Pages
  BY DEF TypeOK, PageOK
<1> DEFINE due == service /\ thread \in Stopped
<1>2. due \in BOOLEAN /\ Fits(queue, due)
  BY DEF QueueOK
<1>3. ASSUME QuietSteps, service' = service, (thread' \in Stopped) = (thread \in Stopped)
      PROVE  QueueOK'
  <2>1. Fits(queue', due)
    <3> HIDE DEF due
    <3> QED BY ZenonT(30), <1>1, <1>2, <1>3, FitsWithout, FitsWith DEF QuietSteps
  <2>2. (service' /\ thread' \in Stopped) = due
    BY <1>3
  <2> QED BY <2>1, <2>2 DEF QueueOK
<1>4. ASSUME UNCHANGED <<queue, service>>, thread \notin Stopped, thread' \notin Stopped
      PROVE  QueueOK'
  BY <1>3, <1>4 DEF QuietSteps
<1> USE DEF serviceVars, history
<1>5. ASSUME NEW kind \in {"exact", "fuzzy"}, NEW word \in Words, Click(kind, word)
      PROVE  QueueOK'
  BY <1>3, <1>5 DEF Click, QuietSteps
<1>6. CASE StartPoller
  <2>1. page.text # Nothing /\ page.clicked \in Kinds /\ page.text \in Words
    BY <1>1, <1>6 DEF StartPoller, PageOK, Pages, WordOrNothing, Kinds
  <2>2. [is |-> "start", request |-> Request(page.clicked, page.text)] \in Messages
    BY <2>1 DEF Request, Requests, Messages
  <2> QED BY <1>3, <1>6, <2>2 DEF StartPoller, QuietSteps, Post
<1>7. ASSUME NEW word \in Words, Download(word) PROVE QueueOK'
  <2>1. [is |-> "start", request |-> Request("file", word)] \in Messages
    BY DEF Request, Requests, Messages, Kinds
  <2> QED BY <1>3, <1>7, <2>1 DEF Download, QuietSteps, Post
<1>8. CASE ShowList
  BY <1>3, <1>8 DEF ShowList, Take, QuietSteps
<1>9. CASE OpenPage
  BY <1>3, <1>9, AreMessages DEF OpenPage, OpenMessage, QuietSteps
<1>10. CASE RenewPage
  <2> DEFINE t == Tail(queue)
             u == NotForPage(t)
  <2>1. queue' = Append(u, [is |-> "list"]) /\ UNCHANGED <<thread, service>>
    BY <1>10 DEF RenewPage, OpenMessage
  <2>2. t \in Seq(Messages) /\ Fits(t, due)
    <3> HIDE DEF due
    <3> QED BY <1>1, <1>2, <1>10, TakeFacts, FitsWithout DEF RenewPage
  <2> HIDE DEF t
  <2>3. u \in Seq(Messages) /\ Fits(u, due)
    <3> HIDE DEF due
    <3> QED BY <1>2, <2>2, NotForPageFacts, NotForPageFits
  <2> HIDE DEF u
  <2>4. Fits(queue', due)
    <3> HIDE DEF due
    <3> QED BY <1>2, <2>1, <2>3, FitsWith, AreMessages
  <2> QED BY <2>1, <2>4 DEF QueueOK
<1>11. CASE Polls
  BY <1>3, <1>11, AreMessages DEF Polls, OpenMessage, QuietSteps
<1>12. CASE CreateService
  <2>1. queue' = queue /\ service' = TRUE /\ ~(thread' \in Stopped) /\ ~service
    BY <1>12 DEF CreateService, Stopped
  <2>2. TellsNever(queue)
    BY <1>2, <2>1 DEF Fits
  <2> QED BY <2>1, <2>2 DEF QueueOK, Fits
<1>13. CASE StartCommand
  BY <1>3, <1>13 DEF StartCommand, Take, QuietSteps
<1>14. CASE DestroyService
  <2>1. TellsNever(Tail(queue))
    <3> HIDE DEF due
    <3> QED BY <1>1, <1>2, <1>14, FitsDestroyed DEF DestroyService, Take
  <2>2. queue' = Tail(queue) /\ service' = FALSE
    BY <1>14 DEF DestroyService, Take
  <2> QED BY <2>1, <2>2 DEF QueueOK, Fits
<1>15. ASSUME NEW kind \in Kinds, Ask(kind) \/ ResetFlag(kind) PROVE QueueOK'
  <2>1. thread \notin Stopped /\ thread' \notin Stopped /\ UNCHANGED <<queue, service>>
    BY <1>15, GoingOn DEF Ask, ResetFlag, Runs, Stopped
  <2> QED BY <1>4, <2>1
<1>16. ASSUME NEW request \in asked, ReceiveAnswer(request) \/ LoseInterest(request)
       PROVE  QueueOK'
  BY <1>3, <1>16 DEF ReceiveAnswer, LoseInterest, QuietSteps
<1>17. CASE ProcessEvents
  <2>1. thread \notin Stopped /\ thread' \notin Stopped /\ UNCHANGED <<queue, service>>
    BY <1>17 DEF ProcessEvents, Runs, Stopped
  <2> QED BY <1>4, <2>1
<1>18. CASE FinalCleanup
  <2>1. thread \notin Stopped /\ thread' \notin Stopped /\ UNCHANGED <<queue, service>>
    BY <1>18 DEF FinalCleanup, Runs, Stopped
  <2> QED BY <1>4, <2>1
<1>19. CASE HandleRaisedError
  <2>1. thread = "report" /\ raised /\ service /\ ~(thread \in Stopped)
    BY <1>19 DEF HandleRaisedError, Runs, ThreadOK, Stopped
  <2>2. TellsNever(queue)
    BY <1>2, <2>1 DEF Fits
  <2>3. queue' = Append(queue, [is |-> "destroy"]) /\ service' = service /\ thread' = "broadcast"
    BY <1>19, <2>1 DEF HandleRaisedError, TellService
  <2>4. TellsOnce(queue')
    BY <1>1, <2>2, <2>3, FitsTold, AreMessages
  <2>5. service' /\ thread' \in Stopped
    BY <2>1, <2>3 DEF Stopped
  <2> QED BY <2>4, <2>5 DEF QueueOK, Fits
<1>20. CASE SendBroadcast
  <2>1. (thread' \in Stopped) = (thread \in Stopped)
    BY <1>20 DEF SendBroadcast, Stopped
  <2>2. QuietSteps /\ service' = service
    BY <1>20, AreMessages DEF SendBroadcast, QuietSteps
  <2> QED BY <1>3, <2>1, <2>2
<1>21. CASE ThreadEnds
  <2>1. (thread' \in Stopped) = (thread \in Stopped)
    BY <1>21 DEF ThreadEnds, Runs, Stopped
  <2>2. QuietSteps /\ service' = service
    BY <1>21 DEF ThreadEnds, QuietSteps
  <2> QED BY <1>3, <2>1, <2>2
<1>22. ASSUME UNCHANGED <<queue, service, thread>> PROVE QueueOK'
  BY <1>22 DEF QueueOK
<1>23. CASE PollerEnds \/ WriteWord \/ WriteFlag \/ UNCHANGED vars
  BY <1>22, <1>23 DEF PollerEnds, WriteWord, WriteFlag, vars
<1> QED BY <1>5, <1>6, <1>7, <1>8, <1>9, <1>10, <1>11, <1>12, <1>13, <1>14, <1>15, <1>16, <1>17,
           <1>18, <1>19, <1>20, <1>21, <1>23 DEF Next

LEMMA ThreadStep ==
  ASSUME TypeOK, ThreadOK, QueueOK, [Next]_vars
  PROVE  ThreadOK'
<1> USE DEF serviceVars, history
<1>1. CASE DestroyService
  <2>1. queue \in Seq(Messages) /\ service \in BOOLEAN
    BY DEF TypeOK
  <2> DEFINE due == service /\ thread \in Stopped
  <2>2. due \in BOOLEAN /\ Fits(queue, due)
    BY DEF QueueOK
  <2>3. due
    <3> HIDE DEF due
    <3> QED BY <1>1, <2>1, <2>2, FitsDestroyed DEF DestroyService, Take
  <2> QED BY <1>1, <2>3 DEF DestroyService, ThreadOK
<1>2. CASE CreateService
  BY <1>2 DEF CreateService, ThreadOK, Stopped
<1>3. CASE StartCommand
  BY <1>3 DEF StartCommand, InitializeIfNeeded, IsAlive, ThreadOK, Stopped
<1>4. ASSUME NEW kind \in Kinds, Ask(kind) \/ ResetFlag(kind) PROVE ThreadOK'
  <2>1. /\ thread \notin {"cleanup", "report"} \cup Stopped
        /\ thread' \notin {"cleanup", "report"} \cup Stopped
        /\ service' = service
        /\ (shouldStop' = shouldStop /\ raised' = raised) \/ raised' = TRUE
    BY <1>4, GoingOn DEF Ask, ResetFlag, Runs, FaceWorks, FaceFails, RaiseError, Stopped
  <2>2. shouldStop' => raised'
    <3>1. CASE shouldStop' = shouldStop /\ raised' = raised
      BY <3>1, Zenon DEF ThreadOK
    <3>2. CASE raised' = TRUE
      BY <3>2
    <3> QED BY <2>1, <3>1, <3>2
  <2> QED BY <2>1, <2>2 DEF ThreadOK
<1>5. ASSUME NEW request \in asked, ReceiveAnswer(request) \/ LoseInterest(request)
      PROVE  ThreadOK'
  BY <1>5 DEF ReceiveAnswer, LoseInterest, Runs, ThreadOK, Stopped
<1>6. CASE ProcessEvents
  BY <1>6 DEF ProcessEvents, Runs, FaceWorks, FaceFails, RaiseError, ThreadOK, Stopped
<1>7. CASE FinalCleanup \/ HandleRaisedError \/ ThreadEnds
  BY <1>7 DEF FinalCleanup, HandleRaisedError, ThreadEnds, Runs, ThreadOK, Stopped
<1>8. CASE SendBroadcast
  BY <1>8 DEF SendBroadcast, ThreadOK, Stopped
<1>9. ASSUME UNCHANGED <<shouldStop, raised, thread, asked, service>> PROVE ThreadOK'
  BY <1>9 DEF ThreadOK
<1> QED BY <1>1, <1>2, <1>3, <1>4, <1>5, <1>6, <1>7, <1>8, <1>9
        DEF Next, Click, StartPoller, Download, ShowList, OpenPage, RenewPage, Polls, PollerEnds,
            WriteWord, WriteFlag, vars

\* A kind and its word, of a request that is owed
LEMMA OwedFacts ==
  ASSUME TypeOK
  PROVE  /\ owed \subseteq Requests /\ excused \subseteq Requests
         /\ \A r \in owed : r.kind \in Kinds /\ r = Request(r.kind, r.word)
         /\ \A kind \in Kinds : Sent[kind] \notin {"events", "cleanup", "report"} \cup Kinds \cup Stopped
<1>1. owed \subseteq Requests /\ excused \subseteq Requests
  BY DEF TypeOK
<1>2. \A r \in Requests : r.kind \in Kinds /\ r = Request(r.kind, r.word)
  BY DEF Requests, Request
<1>3. \A kind \in Kinds : Sent[kind] \notin {"events", "cleanup", "report"} \cup Kinds \cup Stopped
  BY GoingOn DEF Stopped, Kinds
<1> QED BY <1>1, <1>2, <1>3

LEMMA RequestsStep ==
  ASSUME TypeOK, RequestsOK, [Next]_vars
  PROVE  RequestsOK'
<1> USE DEF serviceVars, history
<1>1. CASE CreateService
  BY <1>1 DEF CreateService, RequestsOK, LoneRequestIsKept
<1>2. CASE StartCommand
  <2>1. UNCHANGED <<owed, excused, words, thread>> /\ (thread # "dead" => flags' = flags)
    BY <1>2 DEF StartCommand, InitializeIfNeeded, IsAlive
  <2> QED BY <2>1 DEF RequestsOK, LoneRequestIsKept, Stopped
<1>3. CASE WriteWord
  <2>1. /\ UNCHANGED <<owed, flags, thread>>
        /\ words' = [words EXCEPT ![Field(command.kind)] = command.word]
        /\ excused' = excused \cup {r \in owed : Field(r.kind) = Field(command.kind)}
    BY <1>3 DEF WriteWord
  <2>2. \A r \in owed \ excused' : words'[Field(r.kind)] = words[Field(r.kind)]
    BY <2>1 DEF TypeOK, Field
  <2> QED BY <2>1, <2>2 DEF RequestsOK, LoneRequestIsKept
<1>4. CASE WriteFlag
  <2>1. /\ UNCHANGED <<words, thread>> /\ flags' = flags \cup {command.kind}
        /\ words[Field(command.kind)] = command.word
        /\ owed' = owed \cup {command}
        /\ excused' = IF thread = Sent[command.kind] THEN excused \cup {command}
                      ELSE excused \ {command}
    BY <1>4 DEF WriteFlag
  <2>2. \A r \in owed' \ excused' :
          (r \in owed \ excused) \/ (r = command /\ thread # Sent[command.kind])
    BY <2>1
  <2> QED BY <2>1, <2>2 DEF RequestsOK, LoneRequestIsKept
<1>5. ASSUME NEW kind \in Kinds, Ask(kind) PROVE RequestsOK'
  <2>1. thread = kind /\ UNCHANGED <<flags, words>>
        /\ thread \notin {"cleanup", "report"} \cup Stopped
    BY <1>5 DEF Ask, Runs, Kinds, Stopped
  <2>2. CASE kind \in flags
    <3> DEFINE request == Request(kind, words[Field(kind)])
    <3>1. thread' = Sent[kind] /\ owed' = owed \ {request} /\ excused' = excused \ {request}
      BY <1>5, <2>2 DEF Ask
    <3>2. ASSUME NEW r \in owed' \ excused'
          PROVE  /\ r \in owed \ excused /\ r \in owed /\ r.kind \in Kinds
                 /\ r = Request(r.kind, r.word) /\ r # request
      BY <3>1, <3>2, OwedFacts
    <3>3. ASSUME NEW r \in owed' \ excused'
          PROVE  /\ r.kind \in flags' /\ words'[Field(r.kind)] = r.word
                 /\ thread' # Sent[r.kind]
      <4>1. r.kind \in flags /\ words[Field(r.kind)] = r.word
        BY <2>1, <3>2 DEF RequestsOK, LoneRequestIsKept
      <4>2. r.kind # kind
        BY <3>2, <4>1
      <4>3. Sent[r.kind] # Sent[kind]
        BY <3>2, <4>2, GoingOn
      <4> QED BY <2>1, <3>1, <4>1, <4>3
    <3> QED BY <3>3 DEF RequestsOK, LoneRequestIsKept
  <2>3. CASE kind \notin flags
    <3>1. thread' \in {"fuzzy", "file", "events"} /\ UNCHANGED <<owed, excused>>
      BY <1>5, <2>1, <2>3 DEF Ask, After, Kinds
    <3>2. \A r \in owed : Sent[r.kind] # thread'
      BY <3>1, OwedFacts DEF Kinds
    <3> QED BY <2>1, <3>1, <3>2 DEF RequestsOK, LoneRequestIsKept
  <2> QED BY <2>2, <2>3
<1>6. ASSUME NEW kind \in Kinds, ResetFlag(kind) PROVE RequestsOK'
  <2>1. thread = Sent[kind] /\ flags' = flags \ {kind} /\ UNCHANGED <<owed, excused, words>>
    BY <1>6 DEF ResetFlag, Runs, FlagsOf
  <2>2. thread' \in {"fuzzy", "file", "events"} /\ thread \notin {"cleanup", "report"} \cup Stopped
    BY <1>6, <2>1, GoingOn DEF ResetFlag, Runs, Stopped
  <2>3. \A r \in owed : Sent[r.kind] # thread'
    BY <2>2, OwedFacts DEF Kinds
  <2>4. \A r \in owed \ excused : r.kind \in flags /\ words[Field(r.kind)] = r.word /\ r.kind # kind
    BY <2>1, <2>2 DEF RequestsOK, LoneRequestIsKept
  <2> QED BY <2>1, <2>3, <2>4 DEF RequestsOK, LoneRequestIsKept
<1>7. ASSUME thread \in {"events", "cleanup", "report"} \cup Stopped,
             UNCHANGED <<owed, excused, flags, words>>,
             \/ thread = "events" /\ thread' \in {"exact", "cleanup"}
             \/ thread # "events" /\ thread' \in {"cleanup", "report"} \cup Stopped
      PROVE  RequestsOK'
  <2>1. \A r \in owed : Sent[r.kind] # thread'
    BY <1>7, OwedFacts DEF Kinds
  <2>2. thread = "events" =>
          thread \notin {"cleanup", "report"} \cup Stopped
    BY DEF Stopped
  <2>3. \A r \in owed \ excused :
          \/ r.kind \in flags /\ words[Field(r.kind)] = r.word
          \/ thread \in {"cleanup", "report"} \cup Stopped
    BY DEF RequestsOK, LoneRequestIsKept
  <2>4. LoneRequestIsKept'
    BY <1>7, <2>2, <2>3, SMTT(30) DEF LoneRequestIsKept
  <2> QED BY <1>7, <2>1, <2>4 DEF RequestsOK
<1>8. CASE ProcessEvents \/ FinalCleanup \/ HandleRaisedError \/ ThreadEnds
  BY <1>7, <1>8 DEF ProcessEvents, FinalCleanup, HandleRaisedError, ThreadEnds, Runs, Stopped
<1>9. ASSUME UNCHANGED <<owed, excused, flags, words, thread>> PROVE RequestsOK'
  BY <1>9 DEF RequestsOK, LoneRequestIsKept
<1>10. CASE SendBroadcast
  <2>1. CASE thread' = thread
    BY <1>9, <1>10, <2>1 DEF SendBroadcast
  <2>2. CASE thread' # thread
    BY <1>7, <1>10, <2>2 DEF SendBroadcast, Stopped
  <2> QED BY <2>1, <2>2
<1> QED BY <1>1, <1>2, <1>3, <1>4, <1>5, <1>6, <1>8, <1>9, <1>10
        DEF Next, Click, StartPoller, Download, ShowList, OpenPage, RenewPage, Polls, PollerEnds,
            DestroyService, ReceiveAnswer, LoseInterest, vars

LEMMA PageStep ==
  ASSUME TypeOK, PageOK, [Next]_vars
  PROVE  PageOK'
<1>1. page \in Pages /\ published \in WordOrNothing /\ Nothing \notin Words /\ Found \subseteq Words
  BY AskAssumption DEF PageOK, TypeOK, WordOrNothing
<1> USE DEF serviceVars, history
<1>2. ASSUME NEW kind \in {"exact", "fuzzy"}, NEW word \in Words, Click(kind, word)
      PROVE  PageOK'
  <2>1. /\ page' = [page EXCEPT !.list = Nothing, !.text = word, !.shows = Nothing, !.clicked = kind]
        /\ overlap' = (overlap \/ page.poller = "polling") /\ crashed' = crashed /\ crashed = "none"
    BY <1>2 DEF Click, MainIsIdle
  <2>2. /\ page'.list = Nothing /\ page'.text = word /\ page'.shows = Nothing
        /\ page'.clicked = kind /\ page'.poller = page.poller
    BY <1>1, <2>1 DEF Pages
  <2>3. page' \in Pages
    BY <1>1, <2>1 DEF Pages, WordOrNothing
  <2>4. word # Nothing /\ kind # Nothing
    BY <1>1, AskAssumption DEF Kinds
  <2> QED BY <2>1, <2>2, <2>3, <2>4 DEF PageOK
<1>3. CASE StartPoller
  BY <1>1, <1>3 DEF StartPoller, PageOK, Pages
<1>4. CASE ShowList
  BY <1>1, <1>4 DEF ShowList, Take, MainIsIdle, PageOK, Pages, WordOrNothing
<1>5. CASE OpenPage
  BY <1>1, <1>5 DEF OpenPage, PageOK, Pages
<1>6. CASE RenewPage
  BY <1>1, <1>6 DEF RenewPage, MainIsIdle, NewPage, PageOK, Pages, WordOrNothing
<1>7. CASE Polls
  BY <1>1, <1>7 DEF Polls, PageOK, Pages
<1>8. CASE PollerEnds
  BY <1>1, <1>8 DEF PollerEnds, PageOK, Pages
<1>9. CASE StartCommand
  BY <1>1, <1>9 DEF StartCommand, Take, MainIsIdle, InitializeIfNeeded, PageOK
<1>10. ASSUME UNCHANGED <<page, overlap, crashed>> PROVE PageOK'
  BY <1>10 DEF PageOK
<1> QED BY <1>2, <1>3, <1>4, <1>5, <1>6, <1>7, <1>8, <1>9, <1>10
        DEF Next, Download, CreateService, WriteWord, WriteFlag, DestroyService, Ask, ResetFlag,
            ReceiveAnswer, LoseInterest, ProcessEvents, FinalCleanup, HandleRaisedError,
            SendBroadcast, ThreadEnds, vars

\* The words of the page's searches stay those of Current.
LEMMA SearchesTaken ==
  ASSUME NEW q \in Seq(Messages), q # <<>>, NEW W, SearchesIn(q, W)
  PROVE  /\ SearchesIn(Tail(q), W)
         /\ Head(q).is = "start" /\ IsSearch(Head(q).request) => Head(q).request.word \in W
<1>1. /\ Head(q) = q[1] /\ 1 \in 1 .. Len(q) /\ Len(q) \in Nat /\ Len(Tail(q)) = Len(q) - 1
      /\ \A i \in 1 .. Len(q) - 1 : Tail(q)[i] = q[i + 1] /\ i + 1 \in 1 .. Len(q)
  BY TakeFacts
<1> QED BY <1>1 DEF SearchesIn

LEMMA SearchesPosted ==
  ASSUME NEW q \in Seq(Messages), NEW m \in Messages, NEW W, SearchesIn(q, W),
         m.is = "start" /\ IsSearch(m.request) => m.request.word \in W
  PROVE  SearchesIn(Append(q, m), W)
<1>1. /\ Len(q) \in Nat /\ Len(Append(q, m)) = Len(q) + 1 /\ Append(q, m)[Len(q) + 1] = m
      /\ \A i \in 1 .. Len(q) : Append(q, m)[i] = q[i]
  BY AppendFacts
<1> QED BY <1>1 DEF SearchesIn

LEMMA SearchStep ==
  ASSUME TypeOK, ThreadOK, QueueOK, PageOK, SearchOK, [Next]_vars
  PROVE  SearchOK'
<1>1. /\ queue \in Seq(Messages) /\ service \in BOOLEAN /\ page \in Pages
      /\ published \in WordOrNothing /\ command \in Requests \cup {Nothing}
      /\ words \in [{"extraFilePrefix", "extraFileListPrefix"} -> WordOrNothing]
  BY DEF TypeOK, PageOK, WordOrNothing
<1>2. ASSUME ~overlap, ~PollsAgain
      PROVE  /\ SearchesIn(queue, Current)
             /\ command # Nothing /\ IsSearch(command) => command.word \in Current
             /\ service \/ command # Nothing => words["extraFileListPrefix"] \in Current
             /\ \A request \in asked : IsSearch(request) => request.word \in Current
             /\ page.text # Nothing => page.list \in Current /\ page.shows \in Current
             /\ page.text # Nothing /\ page.clicked = Nothing => published \in Current
  BY <1>2 DEF SearchOK
<1>3. Current = {Nothing, page.text} /\ Current' = {Nothing, page'.text}
  BY DEF Current
<1>4. ASSUME page'.text = page.text PROVE Current' = Current
  BY <1>3, <1>4
<1>5. ASSUME UNCHANGED <<page, crashed>> PROVE PollsAgain' = PollsAgain
  BY <1>5 DEF PollsAgain
<1> USE DEF serviceVars, history
<1>6. ASSUME NEW kind \in {"exact", "fuzzy"}, NEW word \in Words, Click(kind, word)
      PROVE  SearchOK'
  <2> SUFFICES ASSUME ~overlap', ~PollsAgain' PROVE SearchOK'
    BY DEF SearchOK
  <2>1. /\ page' = [page EXCEPT !.list = Nothing, !.text = word, !.shows = Nothing, !.clicked = kind]
        /\ overlap' = (overlap \/ page.poller = "polling") /\ crashed = "none" /\ crashed' = "none"
        /\ page.clicked = Nothing /\ UNCHANGED <<queue, command, service, words, asked, published>>
    BY <1>6 DEF Click, MainIsIdle
  <2>2. /\ page'.list = Nothing /\ page'.text = word /\ page'.shows = Nothing
        /\ page'.clicked = kind /\ page'.poller = page.poller /\ kind # Nothing
    BY <1>1, <2>1, AskAssumption DEF Pages, Kinds
  <2>3. ~overlap /\ page.poller = "new" /\ ~PollsAgain
    BY <1>1, <2>1, <2>2 DEF PollsAgain, Pages
  <2>4. page.text = Nothing
    BY <2>1, <2>3 DEF PageOK
  <2>5. Current \subseteq Current' /\ Nothing \in Current'
    BY <1>3, <2>4
  <2> QED BY <1>2, <2>1, <2>2, <2>3, <2>5 DEF SearchOK, SearchesIn
<1>7. CASE StartPoller
  <2> SUFFICES ASSUME ~overlap', ~PollsAgain' PROVE SearchOK'
    BY DEF SearchOK
  <2> DEFINE m == [is |-> "start", request |-> Request(page.clicked, page.text)]
  <2>1. /\ page.text # Nothing /\ page.clicked \in Kinds /\ page.text \in Words
        /\ page.clicked # Nothing
    BY <1>1, <1>7 DEF StartPoller, PageOK, Pages, WordOrNothing, Kinds
  <2>2. m \in Messages /\ m.request.word = page.text
    BY <2>1 DEF Request, Requests, Messages
  <2>3. page.poller = "new" \/ page.poller = "ended"
    BY <1>1, <1>7, <2>1 DEF StartPoller, PageOK, Pages
  <2>4. page.poller # "ended"
    <3> SUFFICES ASSUME page.poller = "ended" PROVE FALSE
      OBVIOUS
    <3>1. page'.poller = "ended" /\ crashed' = "poller"
      BY <1>1, <1>7 DEF StartPoller, Pages
    <3> QED BY <3>1 DEF PollsAgain
  <2>5. ~overlap /\ ~PollsAgain
    BY <1>7, <2>4 DEF StartPoller, PollsAgain
  <2>6. /\ page'.text = page.text /\ page'.list = page.list /\ page'.shows = page.shows
        /\ published' = Nothing /\ UNCHANGED <<command, service, words, asked>>
        /\ queue' = Append(queue, m)
    BY <1>1, <1>7 DEF StartPoller, Pages, Post, ClearPublished
  <2>7. Current' = Current
    BY <1>4, <2>6
  <2>8. SearchesIn(queue', Current')
    <3>1. m.request.word \in Current
      BY <1>3, <2>2
    <3> HIDE DEF m
    <3> QED BY <1>1, <1>2, <2>2, <2>5, <2>6, <2>7, <3>1, SearchesPosted
  <2> HIDE DEF m
  <2> QED BY <1>2, <1>3, <2>5, <2>6, <2>7, <2>8 DEF SearchOK
<1>8. ASSUME NEW word \in Words, Download(word) PROVE SearchOK'
  <2> SUFFICES ASSUME ~overlap', ~PollsAgain' PROVE SearchOK'
    BY DEF SearchOK
  <2> DEFINE m == [is |-> "start", request |-> Request("file", word)]
  <2>1. /\ UNCHANGED <<page, overlap, crashed, published, command, service, words, asked>>
        /\ queue' = Append(queue, m)
    BY <1>8 DEF Download, Post
  <2>2. m \in Messages /\ ~IsSearch(m.request)
    BY DEF Request, Requests, Messages, IsSearch, Kinds
  <2>3. ~overlap /\ ~PollsAgain /\ Current' = Current
    BY <1>4, <1>5, <2>1
  <2> HIDE DEF m
  <2>4. SearchesIn(queue', Current')
    BY <1>1, <1>2, <2>1, <2>2, <2>3, SearchesPosted
  <2> QED BY <1>2, <2>1, <2>3, <2>4 DEF SearchOK
<1>9. ASSUME NEW message, Take(message), ~overlap, ~PollsAgain
      PROVE  /\ SearchesIn(queue', Current)
             /\ message = "start" /\ IsSearch(Head(queue).request) =>
                  Head(queue).request.word \in Current
  BY <1>1, <1>2, <1>9, SearchesTaken DEF Take
<1>10. CASE ShowList
  <2> SUFFICES ASSUME ~overlap', ~PollsAgain' PROVE SearchOK'
    BY DEF SearchOK
  <2>1. /\ UNCHANGED <<overlap, crashed, published, command, service, words, asked>>
        /\ page' = [page EXCEPT !.shows = IF page.list \in Found THEN page.list ELSE Nothing]
        /\ Take("list")
    BY <1>10 DEF ShowList
  <2>2. /\ page'.text = page.text /\ page'.list = page.list /\ page'.poller = page.poller
        /\ page'.clicked = page.clicked /\ page'.shows \in {page.list, Nothing}
    BY <1>1, <2>1 DEF Pages
  <2>3. ~overlap /\ ~PollsAgain /\ Current' = Current
    BY <1>4, <2>1, <2>2 DEF PollsAgain
  <2>4. SearchesIn(queue', Current')
    BY <1>9, <2>1, <2>3
  <2> QED BY <1>2, <1>3, <2>1, <2>2, <2>3, <2>4 DEF SearchOK
<1>11. ASSUME NEW q \in Seq(Messages), NEW W, SearchesIn(q, W)
       PROVE  SearchesIn(OpenMessage(q), W)
  BY <1>11, AreMessages, SearchesPosted DEF OpenMessage
<1>12. CASE OpenPage
  <2> SUFFICES ASSUME ~overlap', ~PollsAgain' PROVE SearchOK'
    BY DEF SearchOK
  <2>1. /\ UNCHANGED <<overlap, crashed, published, command, service, words, asked>>
        /\ page' = [page EXCEPT !.list = published] /\ page.clicked = Nothing
        /\ queue' = OpenMessage(queue)
    BY <1>12 DEF OpenPage, MainIsIdle
  <2>2. /\ page'.text = page.text /\ page'.list = published /\ page'.poller = page.poller
        /\ page'.clicked = page.clicked /\ page'.shows = page.shows
    BY <1>1, <2>1 DEF Pages
  <2>3. ~overlap /\ ~PollsAgain /\ Current' = Current
    BY <1>4, <2>1, <2>2 DEF PollsAgain
  <2>4. SearchesIn(queue', Current')
    BY <1>1, <1>2, <1>11, <2>1, <2>3
  <2> QED BY <1>2, <2>1, <2>2, <2>3, <2>4 DEF SearchOK
<1>13. CASE RenewPage
  <2> SUFFICES ASSUME ~overlap', ~PollsAgain' PROVE SearchOK'
    BY DEF SearchOK
  <2>2. ~service /\ thread \in Stopped
    BY <1>13 DEF RenewPage, ThreadOK
  <2>3. asked = {} /\ command = Nothing /\ UNCHANGED <<asked, command, service, words>>
    BY <1>13, <2>2 DEF ThreadOK, RenewPage, MainIsIdle
  <2>4. page'.text = Nothing
    BY <1>13 DEF RenewPage, NewPage
  <2>5. \A i \in 1 .. Len(queue) : queue[i].is # "start"
    BY <1>1, <1>13, LenProperties DEF RenewPage
  <2>6. SearchesIn(queue', Current')
    <3> DEFINE t == Tail(queue)
               u == NotForPage(t)
    <3>1. /\ t \in Seq(Messages) /\ Len(queue) \in Nat /\ Len(t) = Len(queue) - 1
          /\ \A i \in 1 .. Len(queue) - 1 : t[i] = queue[i + 1] /\ i + 1 \in 1 .. Len(queue)
      BY <1>1, <1>13, TakeFacts DEF RenewPage
    <3>2. u \in Seq(Messages) /\ IsFrom(u, t)
      BY <3>1, NotForPageFacts
    <3>3. queue' = OpenMessage(u)
      BY <1>13 DEF RenewPage
    <3> HIDE DEF t, u
    <3>4. \A i \in 1 .. Len(t) : t[i].is # "start"
      BY <2>5, <3>1
    <3>5. \A i \in 1 .. Len(u) : u[i].is # "start"
      BY <3>2, <3>4 DEF IsFrom
    <3>6. SearchesIn(u, Current')
      BY <3>5 DEF SearchesIn
    <3> QED BY <1>11, <3>2, <3>3, <3>6
  <2> QED BY <2>2, <2>3, <2>4, <2>6 DEF SearchOK
<1>14. CASE Polls
  <2> SUFFICES ASSUME ~overlap', ~PollsAgain' PROVE SearchOK'
    BY DEF SearchOK
  <2>1. /\ UNCHANGED <<overlap, crashed, published, command, service, words, asked>>
        /\ page' = [page EXCEPT !.list = published, !.stop = TRUE] /\ page.poller = "polling"
        /\ queue' = OpenMessage(queue)
    BY <1>14 DEF Polls
  <2>2. /\ page'.text = page.text /\ page'.list = published /\ page'.poller = page.poller
        /\ page'.clicked = page.clicked /\ page'.shows = page.shows
    BY <1>1, <2>1 DEF Pages
  <2>3. ~overlap /\ ~PollsAgain /\ Current' = Current
    BY <1>4, <2>1, <2>2 DEF PollsAgain
  <2>4. page.clicked = Nothing
    BY <2>1, <2>3 DEF PageOK
  <2>5. SearchesIn(queue', Current')
    BY <1>1, <1>2, <1>11, <2>1, <2>3
  <2> QED BY <1>2, <2>1, <2>2, <2>3, <2>4, <2>5 DEF SearchOK
<1>15. CASE PollerEnds
  <2> SUFFICES ASSUME ~overlap', ~PollsAgain' PROVE SearchOK'
    BY DEF SearchOK
  <2>1. /\ UNCHANGED <<queue, overlap, crashed, published, command, service, words, asked>>
        /\ page' = [page EXCEPT !.poller = "ended"] /\ page.poller = "polling"
    BY <1>15 DEF PollerEnds
  <2>2. /\ page'.text = page.text /\ page'.list = page.list
        /\ page'.clicked = page.clicked /\ page'.shows = page.shows
    BY <1>1, <2>1 DEF Pages
  <2>3. ~overlap /\ ~PollsAgain /\ Current' = Current
    BY <1>4, <2>1, <2>2 DEF PollsAgain
  <2> QED BY <1>2, <2>1, <2>2, <2>3 DEF SearchOK
<1>16. CASE CreateService
  <2> SUFFICES ASSUME ~overlap', ~PollsAgain' PROVE SearchOK'
    BY DEF SearchOK
  <2>1. /\ UNCHANGED <<queue, command, published, page, crashed, overlap>>
        /\ asked' = {} /\ words'["extraFileListPrefix"] = Nothing
    BY <1>1, <1>16 DEF CreateService
  <2>2. ~overlap /\ ~PollsAgain /\ Current' = Current
    BY <1>4, <1>5, <2>1
  <2> QED BY <1>2, <1>3, <2>1, <2>2 DEF SearchOK
<1>17. CASE StartCommand
  <2> SUFFICES ASSUME ~overlap', ~PollsAgain' PROVE SearchOK'
    BY DEF SearchOK
  <2>1. /\ UNCHANGED <<service, words, asked, published, page, overlap>>
        /\ service /\ Take("start") /\ command' = Head(queue).request
        /\ crashed = "none" /\ page.clicked = Nothing
    BY <1>17 DEF StartCommand, Take, MainIsIdle
  <2>2. ~overlap /\ ~PollsAgain /\ Current' = Current
    BY <1>4, <2>1 DEF PollsAgain
  <2>3. /\ SearchesIn(queue', Current)
        /\ IsSearch(command') => command'.word \in Current
    BY <1>9, <2>1, <2>2
  <2> QED BY <1>2, <2>1, <2>2, <2>3 DEF SearchOK
<1>18. CASE WriteWord
  <2> SUFFICES ASSUME ~overlap', ~PollsAgain' PROVE SearchOK'
    BY DEF SearchOK
  <2>1. /\ UNCHANGED <<queue, command, service, asked, published, page, crashed, overlap>>
        /\ command # Nothing /\ words' = [words EXCEPT ![Field(command.kind)] = command.word]
    BY <1>18 DEF WriteWord
  <2>2. ~overlap /\ ~PollsAgain /\ Current' = Current
    BY <1>4, <1>5, <2>1
  <2>3. words["extraFileListPrefix"] \in Current /\ (IsSearch(command) => command.word \in Current)
    BY <1>2, <2>1, <2>2
  <2>4. words'["extraFileListPrefix"] \in Current
    <3>1. CASE IsSearch(command)
      BY <1>1, <2>1, <2>3, <3>1 DEF IsSearch, Field
    <3>2. CASE ~IsSearch(command)
      BY <1>1, <2>1, <2>3, <3>2 DEF IsSearch, Field
    <3> QED BY <3>1, <3>2
  <2> QED BY <1>2, <2>1, <2>2, <2>4 DEF SearchOK
<1>19. CASE WriteFlag
  <2> SUFFICES ASSUME ~overlap', ~PollsAgain' PROVE SearchOK'
    BY DEF SearchOK
  <2>1. /\ UNCHANGED <<queue, words, service, asked, published, page, crashed, overlap>>
        /\ command # Nothing /\ command' = Nothing
    BY <1>19 DEF WriteFlag
  <2>2. ~overlap /\ ~PollsAgain /\ Current' = Current
    BY <1>4, <1>5, <2>1
  <2> QED BY <1>2, <2>1, <2>2 DEF SearchOK
<1>20. CASE DestroyService
  <2> SUFFICES ASSUME ~overlap', ~PollsAgain' PROVE SearchOK'
    BY DEF SearchOK
  <2>1. /\ UNCHANGED <<command, words, asked, published, page, crashed, overlap>>
        /\ Take("destroy") /\ service' = FALSE /\ command = Nothing
    BY <1>20 DEF DestroyService, Take, MainIsIdle
  <2>2. ~overlap /\ ~PollsAgain /\ Current' = Current
    BY <1>4, <1>5, <2>1
  <2>3. SearchesIn(queue', Current)
    BY <1>9, <2>1, <2>2
  <2> QED BY <1>2, <2>1, <2>2, <2>3 DEF SearchOK
<1>21. ASSUME NEW kind \in Kinds, Ask(kind) PROVE SearchOK'
  <2> SUFFICES ASSUME ~overlap', ~PollsAgain' PROVE SearchOK'
    BY DEF SearchOK
  <2>1. /\ UNCHANGED <<queue, command, service, words, published, page, crashed, overlap>>
        /\ asked' \subseteq asked \cup {Request(kind, words[Field(kind)])}
        /\ thread = kind
    BY <1>21 DEF Ask, Runs
  <2>2. ~overlap /\ ~PollsAgain /\ Current' = Current
    BY <1>4, <1>5, <2>1
  <2>3. service
    BY <2>1, GoingOn DEF ThreadOK, Stopped
  <2>4. IsSearch(Request(kind, words[Field(kind)])) => Request(kind, words[Field(kind)]).word \in Current
    BY <1>2, <2>2, <2>3 DEF Request, IsSearch, Field
  <2> QED BY <1>2, <2>1, <2>2, <2>4 DEF SearchOK
<1>22. ASSUME NEW request \in asked, ReceiveAnswer(request) \/ LoseInterest(request)
       PROVE  SearchOK'
  <2> SUFFICES ASSUME ~overlap', ~PollsAgain' PROVE SearchOK'
    BY DEF SearchOK
  <2>1. /\ UNCHANGED <<queue, command, service, words, page, crashed, overlap>>
        /\ asked' = asked \ {request}
        /\ published' = published \/ (IsSearch(request) /\ published' = request.word)
    BY <1>22 DEF ReceiveAnswer, LoseInterest, IsSearch
  <2>2. ~overlap /\ ~PollsAgain /\ Current' = Current
    BY <1>4, <1>5, <2>1
  <2> QED BY <1>2, <2>1, <2>2 DEF SearchOK
<1>23. CASE FinalCleanup
  <2> SUFFICES ASSUME ~overlap', ~PollsAgain' PROVE SearchOK'
    BY DEF SearchOK
  <2>1. /\ UNCHANGED <<queue, command, service, words, published, page, crashed, overlap>>
        /\ asked' = {}
    BY <1>23 DEF FinalCleanup
  <2>2. ~overlap /\ ~PollsAgain /\ Current' = Current
    BY <1>4, <1>5, <2>1
  <2> QED BY <1>2, <2>1, <2>2 DEF SearchOK
<1>24. ASSUME NEW m \in Messages, m.is # "start", queue' = Append(queue, m),
              UNCHANGED <<command, service, words, asked, published, page, crashed, overlap>>
       PROVE  SearchOK'
  <2> SUFFICES ASSUME ~overlap', ~PollsAgain' PROVE SearchOK'
    BY DEF SearchOK
  <2>1. ~overlap /\ ~PollsAgain /\ Current' = Current
    BY <1>4, <1>5, <1>24
  <2>2. SearchesIn(queue', Current')
    BY <1>1, <1>2, <1>24, <2>1, SearchesPosted
  <2> QED BY <1>2, <1>24, <2>1, <2>2 DEF SearchOK
<1>25. ASSUME UNCHANGED <<queue, command, service, words, asked, published, page, crashed, overlap>>
       PROVE  SearchOK'
  <2> SUFFICES ASSUME ~overlap', ~PollsAgain' PROVE SearchOK'
    BY DEF SearchOK
  <2>1. ~overlap /\ ~PollsAgain /\ Current' = Current
    BY <1>4, <1>5, <1>25
  <2> QED BY <1>2, <1>25, <2>1 DEF SearchOK
<1>26. CASE HandleRaisedError
  <2>1. CASE queue' = queue
    BY <1>25, <1>26, <2>1 DEF HandleRaisedError
  <2>2. CASE queue' = Append(queue, [is |-> "destroy"])
    BY <1>24, <1>26, <2>2, AreMessages DEF HandleRaisedError
  <2> QED BY <1>26, <2>1, <2>2 DEF HandleRaisedError, TellService
<1>27. CASE SendBroadcast
  BY <1>24, <1>27, AreMessages DEF SendBroadcast
<1>28. CASE ProcessEvents \/ ThreadEnds \/ UNCHANGED vars
  BY <1>25, <1>28 DEF ProcessEvents, ThreadEnds, vars
<1>29. ASSUME NEW kind \in Kinds, ResetFlag(kind) PROVE SearchOK'
  BY <1>25, <1>29 DEF ResetFlag
<1> QED BY <1>6, <1>7, <1>8, <1>10, <1>12, <1>13, <1>14, <1>15, <1>16, <1>17, <1>18, <1>19,
           <1>20, <1>21, <1>22, <1>23, <1>26, <1>27, <1>28, <1>29 DEF Next

-----------------------------------------------------------------------------
(* Theorems                                                                   *)

\* The inductive invariant holds in every reachable state: what is queued for the main thread
\* tells of the network thread's end, and no word but the current search's is under way.
THEOREM Invariance == Spec => []IInv
<1>1. Init => IInv
  BY InitOK
<1>2. IInv /\ [Next]_vars => IInv'
  BY TypeStep, ThreadStep, QueueStep, RequestsStep, PageStep, SearchStep DEF IInv
<1> QED BY <1>1, <1>2, PTL DEF Spec

\* Every variable keeps its type, whatever the threads do in between. (ShareService, SearchPage)
THEOREM TypeCorrect == Spec => []TypeOK
<1>1. IInv => TypeOK
  BY DEF IInv
<1> QED BY <1>1, Invariance, PTL

\* A service whose thread has ended has its destruction before it in the main thread's queue,
\* so no later search starts the ended thread again. (handleAnyRaisedError, startNetworkThread)
THEOREM EndedServiceGoes == Spec => []DeadServiceIsDestroyed
<1>1. IInv => DeadServiceIsDestroyed
  <2> SUFFICES ASSUME IInv, service, thread = "dead"
               PROVE  \E i \in DOMAIN queue : queue[i].is = "destroy"
    BY DEF DeadServiceIsDestroyed
  <2>1. DOMAIN queue = 1 .. Len(queue)
    BY LenProperties DEF IInv, TypeOK
  <2>2. PICK i \in 1 .. Len(queue) : IsDestroy(queue, i)
    BY DEF IInv, QueueOK, Fits, TellsOnce, Stopped
  <2> QED BY <2>1, <2>2 DEF IsDestroy
<1> QED BY <1>1, Invariance, PTL

\* A request whose word no later one replaces, and that does not meet the reset of an earlier
\* one's flag, keeps its flag and its word until it is expressed, or its thread ends.
\* (askExactFileListIfNeeded, askExactFileList)
THEOREM RequestsAreKept == Spec => []LoneRequestIsKept
<1>1. IInv => LoneRequestIsKept
  BY DEF IInv, RequestsOK
<1> QED BY <1>1, Invariance, PTL

\* When no search was made while another was under way, the page shows the list of its own
\* search. (OnReceivedAskData, SearchPage)
THEOREM ListIsOfItsSearch == Spec => []ShownListIsOfSearch
<1>1. IInv => ShownListIsOfSearch
  <2> SUFFICES ASSUME IInv, page.shows # Nothing, page.text # Nothing, ~overlap
               PROVE  page.shows = page.text
    BY DEF ShownListIsOfSearch
  <2>1. ~PollsAgain
    BY DEF IInv, PageOK, PollsAgain
  <2>2. page.shows \in Current
    BY <2>1 DEF IInv, SearchOK
  <2> QED BY <2>2 DEF Current
<1> QED BY <1>1, Invariance, PTL

===============================================================================
