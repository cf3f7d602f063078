--------------------------- MODULE TransportsProofs ---------------------------
(***************************************************************************)
(* Proofs about Transports: that its handlers find what they rely on, that *)
(* the idle timer only closes idle faces, and that it implements           *)
(* FaceLifecycle, for every set of kinds and every bound.                  *)
(***************************************************************************)
EXTENDS Transports, TLAPS

-----------------------------------------------------------------------------
(* The inductive invariant, whose parts are about one record *)

\* A face is in the face table exactly as long as its transport is not CLOSED.
ClosedIsRemoved(t) == t.state = "CLOSED" <=> t.life # "listed"

\* A face that left the face table waits for one deallocation.
OneDeallocation(t) ==
  \A i, j \in Waiting(t, "deallocate") : t.life = "removed" /\ i = j

\* The queue of a stream has what is being written, up to the handler that clears it, and
\* no handler that succeeded comes after that one.
StreamInOrder(t) ==
  t.kind = "stream" =>
    /\ t.writing <= 1
    /\ t.writing = 1 => Waiting(t, "send") = {}
    /\ \A i, j \in Waiting(t, "send") : i = j
    /\ CanSend(t) => t.socket = "open"
    /\ CanSend(t) /\ t.queue = 0 => t.writing = 0 /\ Waiting(t, "send") = {}
    /\ t.socket = "open" => Waiting(t, "deferredClose") = {}
    /\ t.socket = "open" /\ t.writing = 1 => t.queue > 0
    /\ \A i \in Waiting(t, "deferredClose") : ShuttingDown(t)
    /\ \A i \in Waiting(t, "send") : t.loop[i].outcome = "ok" =>
         t.queue > 0 /\ \A j \in Waiting(t, "deferredClose") : i < j

\* The other transports abort everything when they close, so that the handler they close
\* with is the last one.
OthersInOrder(t) ==
  t.kind # "stream" =>
    /\ CanSend(t) => t.socket = "open"
    /\ ShuttingDown(t) => ~t.reading /\ t.writing = 0
    /\ ShuttingDown(t) /\ t.kind \in {"unicast", "multicast"} => t.socket # "open"
    /\ t.kind \in {"internal", "websocket"} =>
         t.state \notin {"CLOSING", "FAILED"} /\ ~t.reading /\ t.writing = 0
    /\ \A i \in Waiting(t, "deferredClose") \cup Waiting(t, "deallocate") :
         i = Len(t.loop) /\ ShuttingDown(t)
    /\ t.kind = "ethernet" => \A i \in Waiting(t, "receive") : t.loop[i].outcome # "ok"
    /\ t.life = "freed" => t.loop = <<>>

InOrder(t) ==
  /\ t \in Transports
  /\ ClosedIsRemoved(t)
  /\ OneDeallocation(t)
  /\ StreamInOrder(t)
  /\ OthersInOrder(t)

Sound(t) == InOrder(t) /\ t.fault \in {"none", "oversized packet"}

\* The idle timer runs for on-demand faces only, and ends a whole timeout after the last
\* packet unless m_hasBeenUsedRecently tells of one.
TimerIsFair ==
  transport.kind = "unicast" /\ transport.timer # Never =>
    /\ transport.persistency = "on-demand"
    /\ transport.used \/ lastUse + IdleTimeout <= transport.timer

IInv == TypeOK /\ Sound(transport) /\ TimerIsFair

-----------------------------------------------------------------------------
(* What the operations leave alone, and how they move a face on *)

SameFace(t, u) ==
  /\ u.kind = t.kind /\ u.persistency = t.persistency /\ u.used = t.used
  /\ t.kind = "unicast" => u.timer \in {t.timer, Never}

SameStage(t, u) == u.state = t.state /\ u.life = t.life

MovesOn(t, u) ==
  \/ SameStage(t, u)
  \/ CanSend(t) /\ u.state \in {"CLOSING", "FAILED"} /\ u.life = t.life
  \/ t.state # "CLOSED" /\ u.state = "CLOSED" /\ t.life = "listed" /\ u.life = "removed"
  \/ t.state = "CLOSED" /\ u.state = "CLOSED" /\ t.life = "removed" /\ u.life = "freed"

\* A queued handler is the last of the loop.
LEMMA PostFacts ==
  ASSUME NEW t \in Transports, NEW call, NEW outcome,
         [call |-> call, outcome |-> outcome] \in Handlers
  PROVE  LET u == Post(t, call, outcome)
             n == Len(t.loop)
         IN  /\ u \in Transports
             /\ SameFace(t, u) /\ SameStage(t, u)
             /\ u.reading = t.reading /\ u.writing = t.writing /\ u.queue = t.queue
             /\ u.socket = t.socket /\ u.fault = t.fault
             /\ n \in Nat /\ Len(u.loop) = n + 1
             /\ \A i \in 1 .. n : u.loop[i] = t.loop[i]
             /\ u.loop[n + 1] = [call |-> call, outcome |-> outcome]
             /\ Waiting(u, call) = Waiting(t, call) \cup {n + 1}
             /\ \A c : c # call => Waiting(u, c) = Waiting(t, c)
<1> DEFINE u == Post(t, call, outcome)
           n == Len(t.loop)
           h == [call |-> call, outcome |-> outcome]
<1>2. t.loop \in Seq(Handlers) /\ u.loop = Append(t.loop, h)
  BY DEF Post, Transports
<1>0. u = [t EXCEPT !.loop = Append(@, h)]
  BY DEF Post
<1>1. u \in Transports /\ SameFace(t, u) /\ SameStage(t, u)
      /\ u.reading = t.reading /\ u.writing = t.writing /\ u.queue = t.queue
      /\ u.socket = t.socket /\ u.fault = t.fault
  <2>1. Append(t.loop, h) \in Seq(Handlers)
    BY <1>2
  <2> HIDE DEF h, u
  <2> QED
    BY <1>0, <1>2, <2>1 DEF Transports, SameFace, SameStage
<1>3. n \in Nat /\ Len(u.loop) = n + 1 /\ (\A i \in 1 .. n : u.loop[i] = t.loop[i])
      /\ u.loop[n + 1] = h
  BY <1>2
<1>4. h.call = call
  OBVIOUS
<1> HIDE DEF u, h, n
<1>5. ASSUME NEW c
      PROVE  Waiting(u, c) = IF c = call THEN Waiting(t, c) \cup {n + 1} ELSE Waiting(t, c)
  BY SMTT(30), <1>3, <1>4 DEF Waiting, n
<1> QED
  BY <1>1, <1>3, <1>5 DEF u, h, n

\* Where the elements of three sequences in a row come from.
LEMMA ThreeInARow ==
  ASSUME NEW S, NEW a \in Seq(S), NEW b \in Seq(S), NEW c \in Seq(S),
         NEW m, NEW n, NEW o, m = Len(a), n = Len(b), o = Len(c)
  PROVE  LET d == a \o b \o c
         IN  /\ d \in Seq(S) /\ m \in Nat /\ n \in Nat /\ Len(d) = m + n + o
             /\ \A i \in 1 .. m : d[i] = a[i]
             /\ \A i \in m + 1 .. m + n : d[i] = b[i - m] /\ i - m \in 1 .. n
             /\ \A i \in m + n + 1 .. m + n + o :
                  d[i] = c[i - (m + n)] /\ i - (m + n) \in 1 .. o
<1>1. m \in Nat /\ n \in Nat /\ o \in Nat
  OBVIOUS
<1> DEFINE ab == a \o b
<1>2. /\ ab \in Seq(S) /\ Len(ab) = m + n
      /\ \A i \in 1 .. m : ab[i] = a[i]
      /\ \A i \in m + 1 .. m + n : ab[i] = b[i - m] /\ i - m \in 1 .. n
  OBVIOUS
<1> HIDE DEF ab
<1>3. /\ ab \o c \in Seq(S) /\ Len(ab \o c) = m + n + o
      /\ \A i \in 1 .. m + n : (ab \o c)[i] = ab[i]
      /\ \A i \in m + n + 1 .. m + n + o :
           (ab \o c)[i] = c[i - (m + n)] /\ i - (m + n) \in 1 .. o
  <2> DEFINE q == m + n
  <2>1. q \in Nat /\ q = Len(ab) /\ ab \in Seq(S) /\ o \in Nat
    BY <1>1, <1>2
  <2> HIDE DEF q
  <2>2. ab \o c \in Seq(S) /\ Len(ab \o c) = q + o
    BY <2>1
  <2>3. \A i \in 1 .. q : (ab \o c)[i] = ab[i]
    BY <2>1
  <2>4. \A i \in q + 1 .. q + o : (ab \o c)[i] = c[i - q] /\ i - q \in 1 .. o
    BY <2>1
  <2> QED
    BY <2>2, <2>3, <2>4 DEF q
<1>4. \A i \in 1 .. m : (ab \o c)[i] = a[i]
  BY <1>1, <1>2, <1>3
<1>5. \A i \in m + 1 .. m + n : (ab \o c)[i] = b[i - m] /\ i - m \in 1 .. n
  BY <1>1, <1>2, <1>3
<1> QED
  BY <1>1, <1>3, <1>4, <1>5 DEF ab

\* The handlers of aborted operations are queued behind the others.
LEMMA AbortFacts ==
  ASSUME NEW t \in Transports
  PROVE  LET u == AbortPending(t)
             n == Len(t.loop)
         IN  /\ u \in Transports
             /\ SameFace(t, u) /\ SameStage(t, u)
             /\ u.queue = t.queue /\ u.socket = t.socket /\ u.fault = t.fault
             /\ u.reading = FALSE /\ u.writing = 0
             /\ n \in Nat /\ Len(u.loop) \in Nat /\ n <= Len(u.loop)
             /\ \A i \in 1 .. n : u.loop[i] = t.loop[i]
             /\ \A i \in n + 1 .. Len(u.loop) :
                  u.loop[i].call \in {"receive", "send"} /\ u.loop[i].outcome = "aborted"
             /\ ~t.reading /\ t.writing = 0 => u.loop = t.loop
             /\ t.writing = 0 => \A i \in n + 1 .. Len(u.loop) : u.loop[i].call # "send"
             /\ t.writing = 1 => \A i, j \in n + 1 .. Len(u.loop) :
                  u.loop[i].call = "send" /\ u.loop[j].call = "send" => i = j
<1> DEFINE u == AbortPending(t)
           n == Len(t.loop)
           read == [call |-> "receive", outcome |-> "aborted"]
           write == [call |-> "send", outcome |-> "aborted"]
           reads_ == IF t.reading THEN <<read>> ELSE <<>>
           writes == [i \in 1 .. t.writing |-> write]
           r == Len(reads_)
<1>1. /\ u.loop = t.loop \o reads_ \o writes
      /\ SameFace(t, u) /\ SameStage(t, u)
      /\ u.queue = t.queue /\ u.socket = t.socket /\ u.fault = t.fault
      /\ u.reading = FALSE /\ u.writing = 0
  BY DEF AbortPending, Transports, SameFace, SameStage
<1>2. t.loop \in Seq(Handlers) /\ t.writing \in Nat /\ t.reading \in BOOLEAN
  BY DEF Transports
<1>3. read \in Handlers /\ write \in Handlers
  BY DEF Handlers, Outcomes
<1>4. reads_ \in Seq(Handlers) /\ r = (IF t.reading THEN 1 ELSE 0)
      /\ \A i \in 1 .. r : reads_[i] = read
  BY <1>2, <1>3
<1>5. writes \in Seq(Handlers) /\ Len(writes) = t.writing
      /\ \A i \in 1 .. t.writing : writes[i] = write
  BY <1>2, <1>3
<1> HIDE DEF reads_, writes, read, write, r
<1>6. /\ u.loop \in Seq(Handlers) /\ n \in Nat /\ r \in Nat
      /\ Len(u.loop) = n + r + t.writing
      /\ \A i \in 1 .. n : u.loop[i] = t.loop[i]
      /\ \A i \in n + 1 .. n + r : u.loop[i] = reads_[i - n] /\ i - n \in 1 .. r
      /\ \A i \in n + r + 1 .. n + r + t.writing :
           u.loop[i] = writes[i - (n + r)] /\ i - (n + r) \in 1 .. t.writing
  <2>1. u.loop = t.loop \o reads_ \o writes /\ Len(reads_) = r /\ Len(t.loop) = n
        /\ Len(writes) = t.writing
        /\ t.loop \in Seq(Handlers) /\ reads_ \in Seq(Handlers) /\ writes \in Seq(Handlers)
    BY <1>1, <1>2, <1>4, <1>5 DEF r
  <2> HIDE DEF n, u
  <2> DEFINE loop == t.loop
             w == t.writing
  <2>2. u.loop = loop \o reads_ \o writes /\ Len(reads_) = r /\ Len(loop) = n /\ Len(writes) = w
        /\ loop \in Seq(Handlers) /\ reads_ \in Seq(Handlers) /\ writes \in Seq(Handlers)
    BY <2>1
  <2> HIDE DEF loop, w
  <2>3. /\ u.loop \in Seq(Handlers) /\ n \in Nat /\ r \in Nat /\ Len(u.loop) = n + r + w
        /\ \A i \in 1 .. n : u.loop[i] = loop[i]
        /\ \A i \in n + 1 .. n + r : u.loop[i] = reads_[i - n] /\ i - n \in 1 .. r
        /\ \A i \in n + r + 1 .. n + r + w :
             u.loop[i] = writes[i - (n + r)] /\ i - (n + r) \in 1 .. w
    BY SMTT(30), <2>2, ThreeInARow
  <2> QED
    BY <2>3 DEF loop, w
<1>7. r = (IF t.reading THEN 1 ELSE 0) /\ Len(t.loop) = n /\ t.writing \in Nat
  BY <1>2, <1>4
<1>8. u \in Transports
  BY <1>6, <1>1 DEF AbortPending, Transports, u
<1> HIDE DEF u
<1> HIDE DEF n
<1>10. \A i \in n + 1 .. n + r : u.loop[i] = read
  BY <1>4, <1>6
<1>11. \A i \in n + r + 1 .. n + r + t.writing : u.loop[i] = write
  BY <1>5, <1>6
<1>12. read.call = "receive" /\ read.outcome = "aborted"
       /\ write.call = "send" /\ write.outcome = "aborted"
  BY DEF read, write
<1>13. \A i \in n + 1 .. Len(u.loop) :
         u.loop[i].call \in {"receive", "send"} /\ u.loop[i].outcome = "aborted"
  BY <1>2, <1>6, <1>7, <1>10, <1>11, <1>12
<1>14. ~t.reading /\ t.writing = 0 => u.loop = t.loop
  <2> SUFFICES ASSUME ~t.reading, t.writing = 0 PROVE u.loop = t.loop
    OBVIOUS
  <2>1. Len(u.loop) = n
    BY <1>6, <1>7
  <2> QED
    BY <2>1, <1>2, <1>6, <1>7
<1>15. t.writing = 0 => \A i \in n + 1 .. Len(u.loop) : u.loop[i].call # "send"
  BY <1>2, <1>6, <1>7, <1>10, <1>12
<1>16. t.writing = 1 => \A i, j \in n + 1 .. Len(u.loop) :
         u.loop[i].call = "send" /\ u.loop[j].call = "send" => i = j
  <2> SUFFICES ASSUME t.writing = 1, NEW i \in n + 1 .. Len(u.loop), u.loop[i].call = "send"
               PROVE  i = n + r + 1
    OBVIOUS
  <2> QED
    BY <1>2, <1>6, <1>7, <1>10, <1>12
<1>17. n <= Len(u.loop) /\ Len(u.loop) \in Nat
  BY <1>2, <1>6, <1>7
<1> QED
  BY <1>1, <1>6, <1>8, <1>13, <1>14, <1>15, <1>16, <1>17 DEF u, n

-----------------------------------------------------------------------------
(* Changes of the state *)

\* A transition of setState that does not end in CLOSED changes the state alone.
LEMMA TransitionFacts ==
  ASSUME NEW t \in Transports, CanSend(t), NEW s \in {"CLOSING", "FAILED"}
  PROVE  /\ SetState(t, s) = [t EXCEPT !.state = s]
         /\ SetState(t, s) \in Transports
<1>1. t.state \in {"UP", "DOWN"} /\ s \in MayFollow[t.state] /\ s # t.state /\ s # "CLOSED"
  BY DEF CanSend, MayFollow
<1>2. SetState(t, s) = [t EXCEPT !.state = s]
  BY <1>1 DEF SetState
<1> QED
  BY <1>2 DEF Transports, TransportStates

\* A closing transport that becomes CLOSED leaves the face table and is deallocated later.
LEMMA ClosedFacts ==
  ASSUME NEW t,
         \/ InOrder(t)
         \/ t \in Transports /\ t.life = "listed" /\ OneDeallocation(t) /\ StreamInOrder(t),
         t.state \in {"CLOSING", "FAILED"},
         t.kind # "stream" =>
           /\ ~t.reading /\ t.writing = 0
           /\ t.kind \in {"unicast", "multicast"} => t.socket # "open"
           /\ Waiting(t, "deferredClose") = {} /\ Waiting(t, "deallocate") = {}
           /\ t.kind = "ethernet" => \A i \in Waiting(t, "receive") : t.loop[i].outcome # "ok"
  PROVE  LET u == SetState(t, "CLOSED")
         IN  /\ InOrder(u) /\ SameFace(t, u) /\ u.fault = t.fault
             /\ t.life = "listed" /\ u.state = "CLOSED" /\ u.life = "removed"
<1> DEFINE v == [t EXCEPT !.state = "CLOSED"]
           w == Post(v, "deallocate", "ok")
           u == [w EXCEPT !.life = "removed"]
           n == Len(t.loop)
<1>1. /\ t \in Transports /\ t.life = "listed" /\ OneDeallocation(t) /\ StreamInOrder(t)
  BY DEF InOrder, ClosedIsRemoved, Transports
<1>2. SetState(t, "CLOSED") = u
  <2>1. t.state # "CLOSED" /\ "CLOSED" \in MayFollow[t.state]
    BY DEF MayFollow
  <2> QED
    BY <2>1 DEF SetState, RemoveFace
<1>3. v \in Transports /\ SameFace(t, v) /\ v.state = "CLOSED" /\ v.loop = t.loop
      /\ v.reading = t.reading /\ v.writing = t.writing /\ v.queue = t.queue
      /\ v.socket = t.socket /\ v.fault = t.fault /\ v.life = t.life
  BY <1>1 DEF Transports, TransportStates, SameFace
<1>4. \A c : Waiting(v, c) = Waiting(t, c)
  BY <1>3 DEF Waiting
<1> HIDE DEF v
<1>5. [call |-> "deallocate", outcome |-> "ok"] \in Handlers
  BY DEF Handlers
<1>6. /\ w \in Transports /\ SameFace(v, w) /\ SameStage(v, w)
      /\ w.reading = t.reading /\ w.writing = t.writing /\ w.queue = t.queue
      /\ w.socket = t.socket /\ w.fault = t.fault
      /\ n \in Nat /\ Len(w.loop) = n + 1
      /\ \A i \in 1 .. n : w.loop[i] = t.loop[i]
      /\ Waiting(w, "deallocate") = Waiting(t, "deallocate") \cup {n + 1}
      /\ \A c : c # "deallocate" => Waiting(w, c) = Waiting(t, c)
  <2>1. /\ w \in Transports /\ SameFace(v, w) /\ SameStage(v, w)
        /\ w.reading = v.reading /\ w.writing = v.writing /\ w.queue = v.queue
        /\ w.socket = v.socket /\ w.fault = v.fault
        /\ Len(v.loop) \in Nat /\ Len(w.loop) = Len(v.loop) + 1
        /\ \A i \in 1 .. Len(v.loop) : w.loop[i] = v.loop[i]
        /\ Waiting(w, "deallocate") = Waiting(v, "deallocate") \cup {Len(v.loop) + 1}
        /\ \A c : c # "deallocate" => Waiting(w, c) = Waiting(v, c)
    BY <1>3, <1>5, PostFacts
  <2> HIDE DEF w
  <2> QED
    BY <2>1, <1>3, <1>4
<1> HIDE DEF w, n
<1>7. /\ u \in Transports /\ SameFace(t, u) /\ u.state = "CLOSED" /\ u.life = "removed"
      /\ u.loop = w.loop
      /\ u.reading = t.reading /\ u.writing = t.writing /\ u.queue = t.queue
      /\ u.socket = t.socket /\ u.fault = t.fault
  BY ZenonT(30), <1>3, <1>6 DEF Transports, SameFace, SameStage
<1> HIDE DEF u
<1>8. /\ n \in Nat /\ Len(u.loop) = n + 1
      /\ \A i \in 1 .. n : u.loop[i] = t.loop[i]
      /\ Waiting(u, "deallocate") = Waiting(t, "deallocate") \cup {n + 1}
      /\ \A c : c # "deallocate" => Waiting(u, c) = Waiting(t, c)
  <2>1. \A c : Waiting(u, c) = Waiting(w, c)
    BY <1>7 DEF Waiting
  <2> QED
    BY <2>1, <1>6, <1>7
<1>9. ClosedIsRemoved(u)
  BY <1>7 DEF ClosedIsRemoved
<1>10. OneDeallocation(u)
  <2>1. Waiting(t, "deallocate") = {}
    BY <1>1 DEF OneDeallocation
  <2> QED
    BY <2>1, <1>7, <1>8 DEF OneDeallocation
<1>11. StreamInOrder(u)
  <2>1. \A i \in Waiting(t, "send") : u.loop[i] = t.loop[i]
    BY <1>8 DEF Waiting, n
  <2> SUFFICES ASSUME t.kind = "stream" PROVE StreamInOrder(u)
    BY <1>7 DEF StreamInOrder, SameFace
  <2> QED
    BY <2>1, <1>1, <1>7, <1>8 DEF StreamInOrder, SameFace, CanSend, ShuttingDown
<1>12. OthersInOrder(u)
  <2> SUFFICES ASSUME t.kind # "stream" PROVE OthersInOrder(u)
    BY <1>7 DEF OthersInOrder, SameFace
  <2>1. \A i \in Waiting(t, "receive") : u.loop[i] = t.loop[i]
    BY <1>8 DEF Waiting, n
  <2>2. Waiting(u, "deallocate") \cup Waiting(u, "deferredClose") = {Len(u.loop)}
    BY <1>8
  <2> QED
    BY <2>1, <2>2, <1>7, <1>8 DEF OthersInOrder, SameFace, CanSend, ShuttingDown
<1> QED
  BY <1>1, <1>2, <1>7, <1>9, <1>10, <1>11, <1>12 DEF InOrder

-----------------------------------------------------------------------------
(* Closing *)

\* What waits in the event loop after the pending operations were aborted.
LEMMA AbortedWaiting ==
  ASSUME NEW t \in Transports, NEW u, u.loop = AbortPending(t).loop
  PROVE  /\ Waiting(u, "deallocate") = Waiting(t, "deallocate")
         /\ Waiting(u, "deferredClose") = Waiting(t, "deferredClose")
         /\ \A i \in Waiting(u, "send") : u.loop[i].outcome # "aborted" =>
              i \in Waiting(t, "send") /\ u.loop[i] = t.loop[i]
         /\ \A i \in Waiting(u, "receive") : u.loop[i].outcome # "aborted" =>
              i \in Waiting(t, "receive") /\ u.loop[i] = t.loop[i]
         /\ StreamInOrder(t) /\ t.kind = "stream" => \A i, j \in Waiting(u, "send") : i = j
<1> DEFINE n == Len(t.loop)
           m == Len(u.loop)
<1>1. /\ n \in Nat /\ m \in Nat /\ n <= m
      /\ \A i \in 1 .. n : u.loop[i] = t.loop[i]
      /\ \A i \in n + 1 .. m :
           u.loop[i].call \in {"receive", "send"} /\ u.loop[i].outcome = "aborted"
      /\ t.writing = 0 => \A i \in n + 1 .. m : u.loop[i].call # "send"
      /\ t.writing = 1 => \A i, j \in n + 1 .. m :
           u.loop[i].call = "send" /\ u.loop[j].call = "send" => i = j
  <2> DEFINE a == AbortPending(t)
  <2>1. /\ n \in Nat /\ Len(a.loop) \in Nat /\ n <= Len(a.loop)
        /\ \A i \in 1 .. n : a.loop[i] = t.loop[i]
        /\ \A i \in n + 1 .. Len(a.loop) :
             a.loop[i].call \in {"receive", "send"} /\ a.loop[i].outcome = "aborted"
        /\ t.writing = 0 => \A i \in n + 1 .. Len(a.loop) : a.loop[i].call # "send"
        /\ t.writing = 1 => \A i, j \in n + 1 .. Len(a.loop) :
             a.loop[i].call = "send" /\ a.loop[j].call = "send" => i = j
    BY AbortFacts
  <2>2. u.loop = a.loop
    OBVIOUS
  <2> HIDE DEF a
  <2> QED
    BY <2>1, <2>2
<1>2. \A c : Waiting(t, c) = {i \in 1 .. n : t.loop[i].call = c}
  BY DEF Waiting
<1>3. \A c : Waiting(u, c) = {i \in 1 .. m : u.loop[i].call = c}
  BY DEF Waiting
<1> HIDE DEF n, m
<1>4. \A i \in 1 .. m : i \in 1 .. n \/ i \in n + 1 .. m
  BY <1>1
<1>5. ASSUME NEW c \in {"deallocate", "deferredClose"} PROVE Waiting(u, c) = Waiting(t, c)
  <2>1. \A i \in n + 1 .. m : u.loop[i].call # c
    BY <1>1
  <2>2. \A i \in 1 .. n : i \in 1 .. m /\ u.loop[i].call = t.loop[i].call
    BY <1>1
  <2>3. Waiting(u, c) = {i \in 1 .. m : u.loop[i].call = c}
    BY <1>3
  <2>4. Waiting(t, c) = {i \in 1 .. n : t.loop[i].call = c}
    BY <1>2
  <2>5. Waiting(u, c) \subseteq Waiting(t, c)
    BY <2>1, <2>2, <2>3, <2>4, <1>4
  <2>6. Waiting(t, c) \subseteq Waiting(u, c)
    BY <2>2, <2>3, <2>4
  <2> QED
    BY <2>5, <2>6
<1>6. ASSUME NEW c \in {"send", "receive"}, NEW i \in Waiting(u, c), u.loop[i].outcome # "aborted"
      PROVE  i \in Waiting(t, c) /\ u.loop[i] = t.loop[i]
  BY <1>1, <1>2, <1>3, <1>4, <1>6
<1>7. ASSUME StreamInOrder(t), t.kind = "stream", NEW i \in Waiting(u, "send"), NEW j \in Waiting(u, "send")
      PROVE  i = j
  <2>1. t.writing \in Nat /\ t.writing <= 1
    BY <1>7 DEF StreamInOrder, Transports
  <2>2. /\ t.writing = 1 => Waiting(t, "send") = {}
        /\ \A k, l \in Waiting(t, "send") : k = l
    BY <1>7 DEF StreamInOrder
  <2>3. CASE t.writing = 0
    <3>1. i \in Waiting(t, "send") /\ j \in Waiting(t, "send")
      BY <2>3, <1>1, <1>2, <1>3, <1>4
    <3> QED
      BY <3>1, <2>2
  <2>4. CASE t.writing = 1
    <3>1. i \in n + 1 .. m /\ j \in n + 1 .. m /\ u.loop[i].call = "send" /\ u.loop[j].call = "send"
      BY <2>2, <2>4, <1>1, <1>2, <1>3, <1>4
    <3> QED
      BY <3>1, <2>4, <1>1
  <2> QED
    BY <2>1, <2>3, <2>4
<1> QED
  BY <1>5, <1>6, <1>7

\* A stream whose operations are aborted and whose socket is shut or closed is in order.
LEMMA AbortedStream ==
  ASSUME NEW t, InOrder(t), t.kind = "stream", ShuttingDown(t),
         NEW u \in Transports, u.loop = AbortPending(t).loop, u.writing = 0,
         u.kind = "stream", u.socket # "open", ShuttingDown(u), u.queue = t.queue,
         ClosedIsRemoved(u), Waiting(t, "deallocate") = {} \/ u.life = t.life
  PROVE  InOrder(u)
<1>1. t \in Transports /\ OneDeallocation(t) /\ StreamInOrder(t)
  BY DEF InOrder
<1>2. /\ Waiting(u, "deallocate") = Waiting(t, "deallocate")
      /\ Waiting(u, "deferredClose") = Waiting(t, "deferredClose")
      /\ \A i \in Waiting(u, "send") : u.loop[i].outcome # "aborted" =>
              i \in Waiting(t, "send") /\ u.loop[i] = t.loop[i]
      /\ \A i, j \in Waiting(u, "send") : i = j
  BY <1>1, AbortedWaiting
<1>3. OneDeallocation(u)
  BY <1>1, <1>2 DEF OneDeallocation
<1>4. StreamInOrder(u)
  BY <1>1, <1>2 DEF StreamInOrder, CanSend, ShuttingDown
<1>5. OthersInOrder(u)
  BY DEF OthersInOrder
<1> QED
  BY <1>3, <1>4, <1>5 DEF InOrder

\* doClose of a stream that is shutting down.
LEMMA StreamDoCloseFacts ==
  ASSUME NEW t, InOrder(t), t.kind = "stream", ShuttingDown(t)
  PROVE  LET u == StreamDoClose(t)
         IN  InOrder(u) /\ SameFace(t, u) /\ SameStage(t, u) /\ u.fault = t.fault
<1> DEFINE v == IF t.socket = "closed" THEN t ELSE [AbortPending(t) EXCEPT !.socket = "shut"]
           u == Post(v, "deferredClose", "ok")
<1>1. t \in Transports /\ StreamDoClose(t) = u
  BY DEF InOrder, StreamDoClose
<1>2. /\ InOrder(v) /\ SameFace(t, v) /\ SameStage(t, v) /\ v.fault = t.fault
      /\ v.socket # "open"
  <2>1. CASE t.socket = "closed"
    BY <2>1 DEF SameFace, SameStage
  <2>2. CASE t.socket # "closed"
    <3> DEFINE a == AbortPending(t)
               b == [a EXCEPT !.socket = "shut"]
    <3>1. /\ a \in Transports /\ SameFace(t, a) /\ SameStage(t, a) /\ a.queue = t.queue
          /\ a.fault = t.fault /\ a.writing = 0
      BY <1>1, AbortFacts
    <3> HIDE DEF a
    <3>2. /\ b \in Transports /\ SameFace(t, b) /\ SameStage(t, b) /\ b.queue = t.queue
          /\ b.fault = t.fault /\ b.writing = 0 /\ b.socket = "shut" /\ b.loop = a.loop
      BY <3>1 DEF Transports, SameFace, SameStage
    <3> HIDE DEF b
    <3>3. ClosedIsRemoved(b) /\ ShuttingDown(b) /\ b.kind = "stream"
      BY <3>2 DEF InOrder, ClosedIsRemoved, ShuttingDown, SameFace, SameStage
    <3>4. InOrder(b)
      BY <3>2, <3>3, AbortedStream DEF a, SameStage
    <3> QED
      BY <2>2, <3>2, <3>4 DEF a, b
  <2> QED
    BY <2>1, <2>2
<1> HIDE DEF v
<1>3. v \in Transports /\ v.kind = "stream" /\ ShuttingDown(v)
  BY <1>2 DEF InOrder, SameFace, SameStage, ShuttingDown
<1>4. [call |-> "deferredClose", outcome |-> "ok"] \in Handlers
  BY DEF Handlers
<1>5. /\ u \in Transports /\ SameFace(v, u) /\ SameStage(v, u)
      /\ u.reading = v.reading /\ u.writing = v.writing /\ u.queue = v.queue
      /\ u.socket = v.socket /\ u.fault = v.fault
      /\ Len(v.loop) \in Nat /\ Len(u.loop) = Len(v.loop) + 1
      /\ \A i \in 1 .. Len(v.loop) : u.loop[i] = v.loop[i]
      /\ Waiting(u, "deferredClose") = Waiting(v, "deferredClose") \cup {Len(v.loop) + 1}
      /\ \A c : c # "deferredClose" => Waiting(u, c) = Waiting(v, c)
  BY <1>3, <1>4, PostFacts
<1> HIDE DEF u
<1>6. ClosedIsRemoved(u) /\ OneDeallocation(u) /\ OthersInOrder(u)
  BY <1>2, <1>3, <1>5 DEF InOrder, ClosedIsRemoved, OneDeallocation, OthersInOrder, SameFace, SameStage
<1>7. StreamInOrder(u)
  <2>1. \A i \in Waiting(v, "send") : u.loop[i] = v.loop[i] /\ i < Len(v.loop) + 1
    BY <1>5 DEF Waiting
  <2>2. StreamInOrder(v)
    BY <1>2 DEF InOrder
  <2> QED
    BY <2>1, <2>2, <1>2, <1>3, <1>5 DEF StreamInOrder, CanSend, ShuttingDown, SameFace, SameStage
<1> QED
  BY <1>1, <1>2, <1>5, <1>6, <1>7 DEF InOrder, SameFace, SameStage

\* What setState leaves to a doClose that follows it.
ReadyToClose(t) ==
  /\ t \in Transports
  /\ t.state \in {"CLOSING", "FAILED"} /\ t.life = "listed" /\ t.socket = "open"
  /\ Waiting(t, "deferredClose") = {} /\ Waiting(t, "deallocate") = {}
  /\ StreamInOrder(t)
  /\ t.kind \in {"internal", "websocket"} => ~t.reading /\ t.writing = 0
  /\ t.kind = "ethernet" => \A i \in Waiting(t, "receive") : t.loop[i].outcome # "ok"

LEMMA ShutFacts ==
  ASSUME NEW t, InOrder(t), CanSend(t), NEW s \in {"CLOSING", "FAILED"}
  PROVE  LET u == SetState(t, s)
         IN  /\ ReadyToClose(u) /\ SameFace(t, u) /\ u.fault = t.fault
             /\ u.life = t.life
             /\ t.kind = "stream" => InOrder(u) /\ ShuttingDown(u)
<1> DEFINE u == SetState(t, s)
<1>1. /\ t \in Transports /\ ClosedIsRemoved(t) /\ OneDeallocation(t) /\ StreamInOrder(t)
      /\ OthersInOrder(t)
  BY DEF InOrder
<1>2. u = [t EXCEPT !.state = s] /\ u \in Transports
  BY <1>1, TransitionFacts
<1>3. /\ SameFace(t, u) /\ u.state = s /\ u.life = t.life /\ u.loop = t.loop
      /\ u.reading = t.reading /\ u.writing = t.writing /\ u.queue = t.queue
      /\ u.socket = t.socket /\ u.fault = t.fault
  BY <1>1, <1>2 DEF Transports, SameFace
<1> HIDE DEF u
<1>4. \A c : Waiting(u, c) = Waiting(t, c)
  BY <1>3 DEF Waiting
<1>5. t.life = "listed"
  BY <1>1 DEF ClosedIsRemoved, CanSend
<1>6. Waiting(t, "deallocate") = {}
  BY <1>1, <1>5 DEF OneDeallocation
<1>7. Waiting(t, "deferredClose") = {} /\ t.socket = "open"
  <2>1. ~ShuttingDown(t)
    BY DEF CanSend, ShuttingDown
  <2> QED
    BY <2>1, <1>1 DEF StreamInOrder, OthersInOrder
<1>8. StreamInOrder(u)
  BY <1>1, <1>3, <1>4, <1>7 DEF StreamInOrder, SameFace, CanSend, ShuttingDown
<1>9. ReadyToClose(u)
  BY <1>1, <1>2, <1>3, <1>4, <1>5, <1>6, <1>7, <1>8 DEF ReadyToClose, OthersInOrder, SameFace
<1>10. ASSUME t.kind = "stream" PROVE InOrder(u) /\ ShuttingDown(u)
  <2>1. OthersInOrder(u)
    BY <1>3, <1>10 DEF OthersInOrder, SameFace
  <2>2. ClosedIsRemoved(u) /\ OneDeallocation(u) /\ ShuttingDown(u)
    BY <1>3, <1>4, <1>5, <1>6 DEF ClosedIsRemoved, OneDeallocation, ShuttingDown
  <2> QED
    BY <2>1, <2>2, <1>2, <1>8 DEF InOrder
<1> QED
  BY <1>3, <1>9, <1>10 DEF u

\* doClose of the transports that abort everything they wait for.
LEMMA DatagramDoCloseFacts ==
  ASSUME NEW t, ReadyToClose(t), t.kind \in {"unicast", "multicast", "ethernet"}
  PROVE  LET u == DatagramDoClose(t)
         IN  InOrder(u) /\ SameFace(t, u) /\ SameStage(t, u) /\ u.fault = t.fault
<1> DEFINE a == AbortPending(t)
           b == [a EXCEPT !.socket = "closed"]
           u == Post(b, "deferredClose", "ok")
<1>1. t \in Transports /\ DatagramDoClose(t) = u
  BY DEF ReadyToClose, DatagramDoClose
<1>2. /\ a \in Transports /\ SameFace(t, a) /\ SameStage(t, a) /\ a.queue = t.queue
      /\ a.fault = t.fault /\ a.writing = 0 /\ a.reading = FALSE
  BY <1>1, AbortFacts
<1> HIDE DEF a
<1>3. /\ b \in Transports /\ SameFace(t, b) /\ SameStage(t, b) /\ b.queue = t.queue
      /\ b.fault = t.fault /\ b.writing = 0 /\ b.reading = FALSE /\ b.socket = "closed"
      /\ b.loop = a.loop
  BY <1>2 DEF Transports, SameFace, SameStage
<1> HIDE DEF b
<1>4. /\ Waiting(b, "deallocate") = {} /\ Waiting(b, "deferredClose") = {}
      /\ t.kind = "ethernet" => \A i \in Waiting(b, "receive") : b.loop[i].outcome # "ok"
  <2>1. /\ Waiting(b, "deallocate") = Waiting(t, "deallocate")
        /\ Waiting(b, "deferredClose") = Waiting(t, "deferredClose")
        /\ \A i \in Waiting(b, "receive") : b.loop[i].outcome # "aborted" =>
             i \in Waiting(t, "receive") /\ b.loop[i] = t.loop[i]
    BY <1>1, <1>3, AbortedWaiting DEF a
  <2> QED
    BY <2>1 DEF ReadyToClose
<1>5. [call |-> "deferredClose", outcome |-> "ok"] \in Handlers
  BY DEF Handlers
<1>6. /\ u \in Transports /\ SameFace(b, u) /\ SameStage(b, u)
      /\ u.reading = b.reading /\ u.writing = b.writing /\ u.queue = b.queue
      /\ u.socket = b.socket /\ u.fault = b.fault
      /\ Len(b.loop) \in Nat /\ Len(u.loop) = Len(b.loop) + 1
      /\ \A i \in 1 .. Len(b.loop) : u.loop[i] = b.loop[i]
      /\ Waiting(u, "deferredClose") = Waiting(b, "deferredClose") \cup {Len(b.loop) + 1}
      /\ \A c : c # "deferredClose" => Waiting(u, c) = Waiting(b, c)
  <2>1. b \in Transports
    BY <1>3
  <2> QED
    BY <2>1, <1>5, PostFacts
<1> HIDE DEF u
<1>7. /\ SameFace(t, u) /\ SameStage(t, u) /\ u.fault = t.fault
      /\ u.writing = 0 /\ u.reading = FALSE /\ u.socket = "closed"
      /\ u.kind = t.kind /\ u.state \in {"CLOSING", "FAILED"} /\ u.life = "listed"
  BY <1>3, <1>6 DEF SameFace, SameStage, ReadyToClose
<1>8. ClosedIsRemoved(u) /\ OneDeallocation(u) /\ StreamInOrder(u)
  BY <1>4, <1>6, <1>7 DEF ClosedIsRemoved, OneDeallocation, StreamInOrder
<1>9. OthersInOrder(u)
  <2>1. \A i \in Waiting(b, "receive") : u.loop[i] = b.loop[i]
    BY <1>6 DEF Waiting
  <2>2. Waiting(u, "deferredClose") \cup Waiting(u, "deallocate") = {Len(u.loop)}
    BY <1>4, <1>6
  <2>3. ~CanSend(u) /\ ShuttingDown(u)
    BY <1>7 DEF CanSend, ShuttingDown
  <2> QED
    BY <2>1, <2>2, <2>3, <1>4, <1>6, <1>7 DEF OthersInOrder
<1> QED
  BY <1>1, <1>6, <1>7, <1>8, <1>9 DEF InOrder

\* The second socket of a multicast transport is closed before the other.
LEMMA CloseSendSocketFacts ==
  ASSUME NEW t, ReadyToClose(t), t.kind = "multicast"
  PROVE  LET u == CloseSendSocket(t)
         IN  ReadyToClose(u) /\ SameFace(t, u) /\ SameStage(t, u) /\ u.fault = t.fault
<1> DEFINE b == [t EXCEPT !.reading = FALSE]
           a == AbortPending(b)
           u == CloseSendSocket(t)
<1>1. t \in Transports
  BY DEF ReadyToClose
<1>2. b \in Transports /\ SameFace(t, b) /\ SameStage(t, b) /\ b.loop = t.loop /\ ~b.reading
      /\ b.writing = t.writing /\ b.socket = t.socket /\ b.fault = t.fault
  BY <1>1 DEF Transports, SameFace, SameStage
<1>3. \A c : Waiting(b, c) = Waiting(t, c)
  BY <1>2 DEF Waiting
<1>4. a.loop = t.loop \o <<>> \o [i \in 1 .. t.writing |-> [call |-> "send", outcome |-> "aborted"]]
  BY <1>1, <1>2 DEF AbortPending, Transports
<1>5. u.loop = a.loop
  <2>1. t.loop \o <<>> = t.loop
    <3>1. t.loop \in Seq(Handlers)
      BY <1>1 DEF Transports
    <3> QED
      BY <3>1
  <2>2. u.loop = t.loop \o [i \in 1 .. t.writing |-> [call |-> "send", outcome |-> "aborted"]]
    BY <1>1 DEF CloseSendSocket, Transports
  <2> QED
    BY <2>1, <2>2, <1>4
<1>6. a \in Transports
  BY <1>2, AbortFacts
<1>7. /\ u = [t EXCEPT !.loop = a.loop, !.writing = 0]
  BY <1>5 DEF CloseSendSocket
<1> HIDE DEF a, b
<1>8. /\ u \in Transports /\ SameFace(t, u) /\ SameStage(t, u) /\ u.fault = t.fault
      /\ u.socket = t.socket /\ u.loop = a.loop
  <2> HIDE DEF u
  <2> QED
    BY <1>1, <1>6, <1>7 DEF Transports, SameFace, SameStage
<1> HIDE DEF u
<1>9. /\ Waiting(u, "deallocate") = Waiting(t, "deallocate")
      /\ Waiting(u, "deferredClose") = Waiting(t, "deferredClose")
  BY <1>2, <1>3, <1>8, AbortedWaiting DEF a
<1>10. ReadyToClose(u)
  BY <1>8, <1>9 DEF ReadyToClose, StreamInOrder, SameFace, SameStage
<1> QED
  BY <1>8, <1>10 DEF u

\* doClose of any transport that was working before setState.
LEMMA DoCloseFacts ==
  ASSUME NEW t, InOrder(t), CanSend(t), NEW s \in {"CLOSING", "FAILED"}
  PROVE  LET u == DoClose(SetState(t, s))
         IN  InOrder(u) /\ SameFace(t, u) /\ MovesOn(t, u) /\ u.fault = t.fault
<1> DEFINE v == SetState(t, s)
           u == DoClose(v)
<1>1. /\ ReadyToClose(v) /\ SameFace(t, v) /\ v.fault = t.fault /\ v.life = t.life
      /\ t.kind = "stream" => InOrder(v) /\ ShuttingDown(v)
  BY ShutFacts
<1> HIDE DEF v
<1>2. v \in Transports /\ v.kind \in TransportKinds /\ v.kind = t.kind
      /\ v.state \in {"CLOSING", "FAILED"} /\ v.life = "listed"
  BY <1>1, TransportAssumption DEF ReadyToClose, Transports, SameFace
<1>3. t.state # "CLOSED"
  BY DEF CanSend
<1>4. CASE v.kind = "stream"
  <2>1. u = StreamDoClose(v)
    BY <1>4 DEF DoClose
  <2>2. InOrder(u) /\ SameFace(v, u) /\ SameStage(v, u) /\ u.fault = v.fault
    BY <1>1, <1>2, <1>4, <2>1, StreamDoCloseFacts
  <2> HIDE DEF u
  <2> QED
    BY <2>2, <1>1, <1>2 DEF SameFace, SameStage, MovesOn, u, v
<1>5. CASE v.kind \in {"unicast", "ethernet"}
  <2>1. u = DatagramDoClose(v)
    BY <1>5 DEF DoClose, EthernetDoClose, DatagramDoClose
  <2>2. InOrder(u) /\ SameFace(v, u) /\ SameStage(v, u) /\ u.fault = v.fault
    BY <1>1, <1>5, <2>1, DatagramDoCloseFacts
  <2> HIDE DEF u
  <2> QED
    BY <2>2, <1>1, <1>2 DEF SameFace, SameStage, MovesOn, u, v
<1>6. CASE v.kind = "multicast"
  <2> DEFINE w == CloseSendSocket(v)
  <2>1. u = DatagramDoClose(w)
    BY <1>1, <1>6 DEF DoClose, MulticastDoClose, ReadyToClose
  <2>2. ReadyToClose(w) /\ SameFace(v, w) /\ SameStage(v, w) /\ w.fault = v.fault
    BY <1>1, <1>6, CloseSendSocketFacts
  <2> HIDE DEF w
  <2>3. w.kind = "multicast"
    BY <2>2, <1>6 DEF SameFace
  <2>4. InOrder(u) /\ SameFace(w, u) /\ SameStage(w, u) /\ u.fault = w.fault
    BY <2>1, <2>2, <2>3, DatagramDoCloseFacts
  <2> HIDE DEF u
  <2> QED
    BY <2>2, <2>4, <1>1, <1>2 DEF SameFace, SameStage, MovesOn, u, v
<1>7. CASE v.kind = "internal"
  <2>1. u = SetState(v, "CLOSED")
    BY <1>7 DEF DoClose, InternalDoClose
  <2>2. OneDeallocation(v) /\ StreamInOrder(v)
    BY <1>1 DEF ReadyToClose, OneDeallocation
  <2>3. InOrder(u) /\ SameFace(v, u) /\ u.fault = v.fault /\ u.state = "CLOSED" /\ u.life = "removed"
    BY <2>1, <2>2, <1>1, <1>2, <1>7, ClosedFacts DEF ReadyToClose
  <2> HIDE DEF u
  <2> QED
    BY <2>3, <1>1, <1>2, <1>3 DEF SameFace, MovesOn, u, v
<1>8. CASE v.kind = "websocket"
  <2> DEFINE w == [v EXCEPT !.timer = Never, !.socket = "closed"]
  <2>1. u = SetState(w, "CLOSED")
    BY <1>8 DEF DoClose, WebSocketDoClose
  <2>2. /\ w \in Transports /\ SameFace(v, w) /\ SameStage(v, w) /\ w.loop = v.loop
        /\ w.reading = v.reading /\ w.writing = v.writing /\ w.fault = v.fault
        /\ w.kind = "websocket"
    BY <1>2, <1>8 DEF Transports, SameFace, SameStage
  <2> HIDE DEF w
  <2>3. \A c : Waiting(w, c) = Waiting(v, c)
    BY <2>2 DEF Waiting
  <2>4. /\ OneDeallocation(w) /\ StreamInOrder(w) /\ ~w.reading /\ w.writing = 0
        /\ Waiting(w, "deferredClose") = {} /\ Waiting(w, "deallocate") = {}
        /\ w.state \in {"CLOSING", "FAILED"} /\ w.life = "listed"
    BY <2>2, <2>3, <1>1, <1>2, <1>8 DEF ReadyToClose, OneDeallocation, StreamInOrder, SameStage
  <2>5. InOrder(u) /\ SameFace(w, u) /\ u.fault = w.fault /\ u.state = "CLOSED" /\ u.life = "removed"
    BY <2>1, <2>2, <2>4, ClosedFacts
  <2> HIDE DEF u
  <2> QED
    BY <2>2, <2>5, <1>1, <1>2, <1>3 DEF SameFace, MovesOn, u, v
<1> QED
  BY <1>2, <1>4, <1>5, <1>6, <1>7, <1>8 DEF TransportKinds

-----------------------------------------------------------------------------
(* The event loop *)

\* What a handler that runs knows of its transport.
LEMMA FirstHandler ==
  ASSUME NEW t, InOrder(t), t.loop # <<>>
  PROVE  LET h == Head(t.loop)
             u == [t EXCEPT !.loop = Tail(@)]
         IN  /\ h \in Handlers
             /\ InOrder(u) /\ SameFace(t, u) /\ SameStage(t, u) /\ u.fault = t.fault
             /\ h.call = "send" /\ t.kind = "stream" =>
                  /\ Waiting(u, "send") = {} /\ u.writing = 0
                  /\ h.outcome = "ok" => u.queue > 0
             /\ h.call = "receive" /\ t.kind = "ethernet" => h.outcome # "ok"
             /\ h.call \in {"deferredClose", "deallocate"} /\ t.kind # "stream" =>
                  u.loop = <<>> /\ ShuttingDown(u)
             /\ h.call = "deferredClose" =>
                  /\ ShuttingDown(u)
                  /\ t.kind = "stream" => \A i \in Waiting(u, "send") : u.loop[i].outcome # "ok"
             /\ h.call = "deallocate" => u.life = "removed" /\ Waiting(u, "deallocate") = {}
<1> DEFINE h == Head(t.loop)
           u == [t EXCEPT !.loop = Tail(@)]
           n == Len(t.loop)
<1>1. t \in Transports /\ t.loop \in Seq(Handlers)
  BY DEF InOrder, Transports
<1>2. /\ h \in Handlers /\ n \in Nat /\ n > 0 /\ h = t.loop[1]
      /\ Tail(t.loop) \in Seq(Handlers) /\ Len(Tail(t.loop)) = n - 1
      /\ \A i \in 1 .. n - 1 : Tail(t.loop)[i] = t.loop[i + 1]
  BY <1>1
<1>3. /\ u \in Transports /\ SameFace(t, u) /\ SameStage(t, u) /\ u.fault = t.fault
      /\ u.reading = t.reading /\ u.writing = t.writing /\ u.queue = t.queue
      /\ u.socket = t.socket /\ u.loop = Tail(t.loop) /\ u.kind = t.kind
  BY <1>1, <1>2 DEF Transports, SameFace, SameStage
<1> HIDE DEF u, h
<1>4. /\ Len(u.loop) = n - 1 /\ u.loop \in Seq(Handlers)
      /\ \A i \in 1 .. n - 1 : u.loop[i] = t.loop[i + 1]
  BY <1>2, <1>3
<1>5. \A c : \A i \in Waiting(u, c) :
        /\ i \in 1 .. n - 1 /\ i + 1 \in Waiting(t, c) /\ i + 1 # 1
        /\ u.loop[i] = t.loop[i + 1]
  BY <1>2, <1>4 DEF Waiting
<1>6. 1 \in Waiting(t, h.call)
  BY <1>2 DEF Waiting
<1>7. /\ ClosedIsRemoved(t) /\ OneDeallocation(t) /\ StreamInOrder(t) /\ OthersInOrder(t)
  BY DEF InOrder
<1> HIDE DEF n
<1>8. ClosedIsRemoved(u)
  BY <1>3, <1>7 DEF ClosedIsRemoved, SameStage
<1>9. OneDeallocation(u)
  <2> SUFFICES ASSUME NEW i \in Waiting(u, "deallocate"), NEW j \in Waiting(u, "deallocate")
               PROVE  u.life = "removed" /\ i = j
    BY DEF OneDeallocation
  <2>1. t.life = "removed" /\ i + 1 = j + 1
    BY <1>5, <1>7 DEF OneDeallocation
  <2> QED
    BY <2>1, <1>2, <1>3, <1>5 DEF SameStage
<1>10. StreamInOrder(u)
  <2> SUFFICES ASSUME t.kind = "stream" PROVE StreamInOrder(u)
    BY <1>3 DEF StreamInOrder
  <2>1. \A c : Waiting(t, c) = {} => Waiting(u, c) = {}
    BY <1>5
  <2>2. \A i, j \in Waiting(u, "send") : i = j
    <3> SUFFICES ASSUME NEW i \in Waiting(u, "send"), NEW j \in Waiting(u, "send") PROVE i = j
      OBVIOUS
    <3>1. i + 1 = j + 1 /\ i \in 1 .. n - 1 /\ j \in 1 .. n - 1
      BY <1>5, <1>7 DEF StreamInOrder
    <3> QED
      BY <3>1, <1>2
  <2>3. \A i \in Waiting(u, "send") : u.loop[i].outcome = "ok" =>
          t.queue > 0 /\ \A j \in Waiting(u, "deferredClose") : i < j
    <3> SUFFICES ASSUME NEW i \in Waiting(u, "send"), u.loop[i].outcome = "ok"
                 PROVE  t.queue > 0 /\ \A j \in Waiting(u, "deferredClose") : i < j
      OBVIOUS
    <3>1. t.queue > 0 /\ \A j \in Waiting(t, "deferredClose") : i + 1 < j
      BY <1>5, <1>7 DEF StreamInOrder
    <3>2. \A j \in Waiting(u, "deferredClose") : i + 1 < j + 1 /\ j \in 1 .. n - 1
      BY <3>1, <1>5
    <3>3. i \in 1 .. n - 1
      BY <1>5
    <3> QED
      BY <3>1, <3>2, <3>3, <1>2
  <2> QED
    BY <2>1, <2>2, <2>3, <1>3, <1>5, <1>7 DEF StreamInOrder, CanSend, ShuttingDown, SameStage
<1>11. OthersInOrder(u)
  <2> SUFFICES ASSUME t.kind # "stream" PROVE OthersInOrder(u)
    BY <1>3 DEF OthersInOrder
  <2>1. \A i \in Waiting(u, "deferredClose") \cup Waiting(u, "deallocate") :
          i = Len(u.loop) /\ ShuttingDown(t)
    <3> TAKE i \in Waiting(u, "deferredClose") \cup Waiting(u, "deallocate")
    <3>1. i + 1 = n /\ ShuttingDown(t) /\ i \in 1 .. n - 1
      BY <1>5, <1>7 DEF OthersInOrder, n
    <3> QED
      BY <3>1, <1>2, <1>4
  <2>2. t.life # "freed"
    BY <1>7 DEF OthersInOrder
  <2>3. t.kind = "ethernet" => \A i \in Waiting(u, "receive") : u.loop[i].outcome # "ok"
    BY <1>5, <1>7 DEF OthersInOrder
  <2> QED
    BY <2>1, <2>2, <2>3, <1>3, <1>7 DEF OthersInOrder, CanSend, ShuttingDown, SameStage
<1>12. ASSUME h.call = "send", t.kind = "stream"
       PROVE  /\ Waiting(u, "send") = {} /\ u.writing = 0
              /\ h.outcome = "ok" => u.queue > 0
  <2>1. \A i \in Waiting(u, "send") : i + 1 = 1
    BY <1>5, <1>6, <1>7, <1>12 DEF StreamInOrder
  <2>2. Waiting(u, "send") = {}
    BY <2>1, <1>5
  <2>3. t.writing # 1 /\ t.writing <= 1 /\ t.writing \in Nat
    BY <1>1, <1>6, <1>7, <1>12 DEF StreamInOrder, Transports
  <2>4. h.outcome = "ok" => t.queue > 0
    BY <1>2, <1>6, <1>7, <1>12 DEF StreamInOrder
  <2> QED
    BY <2>2, <2>3, <2>4, <1>3
<1>13. h.call = "receive" /\ t.kind = "ethernet" => h.outcome # "ok"
  BY <1>2, <1>6, <1>7 DEF OthersInOrder
<1>14. h.call \in {"deferredClose", "deallocate"} /\ t.kind # "stream" =>
         u.loop = <<>> /\ ShuttingDown(u)
  <2> SUFFICES ASSUME h.call \in {"deferredClose", "deallocate"}, t.kind # "stream"
               PROVE  u.loop = <<>> /\ ShuttingDown(u)
    OBVIOUS
  <2>1. n = 1 /\ ShuttingDown(t)
    BY <1>6, <1>7 DEF OthersInOrder, n
  <2>2. Len(u.loop) = 0 /\ u.loop \in Seq(Handlers)
    BY <2>1, <1>4
  <2>3. u.loop = <<>>
    BY <2>2
  <2> QED
    BY <2>1, <2>3, <1>3 DEF ShuttingDown, SameStage
<1>15. ASSUME h.call = "deferredClose"
       PROVE  /\ ShuttingDown(u)
              /\ t.kind = "stream" => \A i \in Waiting(u, "send") : u.loop[i].outcome # "ok"
  <2>1. ShuttingDown(u)
    BY <1>3, <1>6, <1>7, <1>15 DEF StreamInOrder, OthersInOrder, ShuttingDown, SameStage
  <2>2. ASSUME t.kind = "stream", NEW i \in Waiting(u, "send"), u.loop[i].outcome = "ok" PROVE FALSE
    <3>1. i + 1 < 1 /\ i \in 1 .. n - 1
      BY <2>2, <1>5, <1>6, <1>7, <1>15 DEF StreamInOrder
    <3> QED
      BY <3>1, <1>2
  <2> QED
    BY <2>1, <2>2
<1>16. h.call = "deallocate" => u.life = "removed" /\ Waiting(u, "deallocate") = {}
  BY <1>3, <1>5, <1>6, <1>7 DEF OneDeallocation, SameStage
<1> QED
  BY <1>2, <1>3, <1>8, <1>9, <1>10, <1>11, <1>12, <1>13, <1>14, <1>15, <1>16 DEF InOrder, u, h

\* A handler that ends no face may be queued behind the others, as far as a transport that
\* is not a stream still works.
LEMMA PostInOrder ==
  ASSUME NEW t, InOrder(t), NEW call \in {"receive", "send", "link"}, NEW outcome,
         [call |-> call, outcome |-> outcome] \in Handlers,
         t.kind # "stream" => CanSend(t),
         t.kind = "ethernet" /\ call = "receive" => outcome # "ok",
         t.kind = "stream" /\ call = "send" =>
           /\ Waiting(t, "send") = {} /\ t.writing = 0 /\ (CanSend(t) => t.queue > 0)
           /\ outcome = "ok" => t.queue > 0 /\ t.socket = "open"
  PROVE  LET u == Post(t, call, outcome)
         IN  InOrder(u) /\ SameFace(t, u) /\ SameStage(t, u) /\ u.fault = t.fault
<1> DEFINE u == Post(t, call, outcome)
           n == Len(t.loop)
<1>1. /\ t \in Transports /\ ClosedIsRemoved(t) /\ OneDeallocation(t) /\ StreamInOrder(t)
      /\ OthersInOrder(t)
  BY DEF InOrder
<1>2. /\ u \in Transports /\ SameFace(t, u) /\ SameStage(t, u)
      /\ u.reading = t.reading /\ u.writing = t.writing /\ u.queue = t.queue
      /\ u.socket = t.socket /\ u.fault = t.fault
      /\ n \in Nat /\ Len(u.loop) = n + 1
      /\ \A i \in 1 .. n : u.loop[i] = t.loop[i]
      /\ u.loop[n + 1] = [call |-> call, outcome |-> outcome]
      /\ Waiting(u, call) = Waiting(t, call) \cup {n + 1}
      /\ \A c : c # call => Waiting(u, c) = Waiting(t, c)
  BY <1>1, PostFacts
<1> HIDE DEF u
<1>3. /\ Waiting(u, "deallocate") = Waiting(t, "deallocate")
      /\ Waiting(u, "deferredClose") = Waiting(t, "deferredClose")
      /\ \/ Waiting(u, "send") = Waiting(t, "send")
         \/ call = "send" /\ Waiting(u, "send") = Waiting(t, "send") \cup {n + 1}
      /\ \/ Waiting(u, "receive") = Waiting(t, "receive")
         \/ call = "receive" /\ Waiting(u, "receive") = Waiting(t, "receive") \cup {n + 1}
  BY <1>2
<1>4. /\ \A c : \A i \in Waiting(t, c) : u.loop[i] = t.loop[i] /\ i \in 1 .. n
      /\ u.loop[n + 1].outcome = outcome /\ u.kind = t.kind
  BY <1>2 DEF Waiting, SameFace
<1> HIDE DEF n
<1>5. ClosedIsRemoved(u) /\ OneDeallocation(u)
  BY <1>1, <1>2, <1>3 DEF ClosedIsRemoved, OneDeallocation, SameStage
<1>6. StreamInOrder(u)
  <2> SUFFICES ASSUME t.kind = "stream" PROVE StreamInOrder(u)
    BY <1>4 DEF StreamInOrder
  <2>1. t.writing \in Nat
    BY <1>1 DEF Transports
  <2>2. CASE Waiting(u, "send") = Waiting(t, "send")
    BY <2>2, <1>1, <1>2, <1>3, <1>4 DEF StreamInOrder, CanSend, ShuttingDown, SameStage
  <2>3. CASE call = "send" /\ Waiting(u, "send") = {n + 1}
    BY <2>1, <2>3, <1>1, <1>2, <1>3, <1>4 DEF StreamInOrder, CanSend, ShuttingDown, SameStage
  <2> QED
    BY <2>2, <2>3, <1>3
<1>7. OthersInOrder(u)
  <2> SUFFICES ASSUME t.kind # "stream" PROVE OthersInOrder(u)
    BY <1>4 DEF OthersInOrder
  <2>1. CanSend(t) /\ ~ShuttingDown(t) /\ t.state # "CLOSED"
    BY DEF CanSend, ShuttingDown
  <2>2. t.life = "listed" /\ u.life = "listed" /\ CanSend(u) /\ ~ShuttingDown(u)
    BY <2>1, <1>1, <1>2 DEF ClosedIsRemoved, SameStage, CanSend, ShuttingDown
  <2>3. Waiting(u, "deferredClose") = {} /\ Waiting(u, "deallocate") = {}
    BY <2>1, <1>1, <1>3 DEF OthersInOrder
  <2>4. t.kind = "ethernet" => \A i \in Waiting(u, "receive") : u.loop[i].outcome # "ok"
    BY <1>1, <1>3, <1>4 DEF OthersInOrder
  <2> QED
    BY <2>1, <2>2, <2>3, <2>4, <1>1, <1>2, <1>4 DEF OthersInOrder, SameStage
<1> QED
  BY <1>2, <1>5, <1>6, <1>7 DEF InOrder, u

\* A receive operation is started as long as the transport works, by a stream also later.
LEMMA ReadingInOrder ==
  ASSUME NEW t, InOrder(t), NEW b \in BOOLEAN,
         b => t.kind = "stream" \/ (CanSend(t) /\ t.kind \notin {"internal", "websocket"})
  PROVE  LET u == [t EXCEPT !.reading = b]
         IN  InOrder(u) /\ SameFace(t, u) /\ SameStage(t, u) /\ u.fault = t.fault
<1> DEFINE u == [t EXCEPT !.reading = b]
<1>1. /\ u \in Transports /\ SameFace(t, u) /\ SameStage(t, u) /\ u.fault = t.fault
      /\ u.reading = b /\ u.writing = t.writing /\ u.queue = t.queue
      /\ u.socket = t.socket /\ u.loop = t.loop /\ u.kind = t.kind
  BY DEF InOrder, Transports, SameFace, SameStage
<1> HIDE DEF u
<1>2. \A c : Waiting(u, c) = Waiting(t, c)
  BY <1>1 DEF Waiting
<1>3. ClosedIsRemoved(u) /\ OneDeallocation(u) /\ StreamInOrder(u)
  BY <1>1, <1>2 DEF InOrder, ClosedIsRemoved, OneDeallocation, StreamInOrder, CanSend,
                    ShuttingDown, SameStage
<1>4. OthersInOrder(u)
  BY <1>1, <1>2 DEF InOrder, OthersInOrder, CanSend, ShuttingDown, SameStage
<1> QED
  BY <1>1, <1>3, <1>4 DEF InOrder, u

LEMMA StartReceiveFacts ==
  ASSUME NEW t, InOrder(t),
         t.kind = "stream" \/ (CanSend(t) /\ t.kind \notin {"internal", "websocket"})
  PROVE  LET u == StartReceive(t)
         IN  InOrder(u) /\ SameFace(t, u) /\ SameStage(t, u) /\ u.fault = t.fault
<1>1. [call |-> "receive", outcome |-> "error"] \in Handlers
  BY DEF Handlers, Outcomes
<1>2. CASE t.socket = "closed"
  BY <1>1, <1>2, PostInOrder DEF StartReceive
<1>3. CASE t.socket # "closed"
  BY <1>3, ReadingInOrder DEF StartReceive
<1> QED
  BY <1>2, <1>3

\* The number of send operations changes.
LEMMA WritingInOrder ==
  ASSUME NEW t, InOrder(t), NEW w \in Nat,
         t.kind = "stream" => w <= 1 /\ Waiting(t, "send") = {}
                              /\ (w = 1 => t.queue > 0),
         t.kind # "stream" => w = 0 \/ (CanSend(t) /\ t.kind \notin {"internal", "websocket"})
  PROVE  LET u == [t EXCEPT !.writing = w]
         IN  InOrder(u) /\ SameFace(t, u) /\ SameStage(t, u) /\ u.fault = t.fault
<1> DEFINE u == [t EXCEPT !.writing = w]
<1>1. /\ u \in Transports /\ SameFace(t, u) /\ SameStage(t, u) /\ u.fault = t.fault
      /\ u.reading = t.reading /\ u.writing = w /\ u.queue = t.queue
      /\ u.socket = t.socket /\ u.loop = t.loop /\ u.kind = t.kind
  BY DEF InOrder, Transports, SameFace, SameStage
<1>0. t.queue \in Nat
  BY DEF InOrder, Transports
<1> HIDE DEF u
<1>2. \A c : Waiting(u, c) = Waiting(t, c)
  BY <1>1 DEF Waiting
<1>3. ClosedIsRemoved(u) /\ OneDeallocation(u)
  BY <1>1, <1>2 DEF InOrder, ClosedIsRemoved, OneDeallocation, SameStage
<1>4. StreamInOrder(u)
  <2> SUFFICES ASSUME t.kind = "stream" PROVE StreamInOrder(u)
    BY <1>1 DEF StreamInOrder
  <2>1. w = 0 \/ w = 1
    OBVIOUS
  <2> QED
    BY <2>1, <1>0, <1>1, <1>2 DEF InOrder, StreamInOrder, CanSend, ShuttingDown, SameStage
<1>5. OthersInOrder(u)
  BY <1>1, <1>2 DEF InOrder, OthersInOrder, CanSend, ShuttingDown, SameStage
<1> QED
  BY <1>1, <1>3, <1>4, <1>5 DEF InOrder, u

LEMMA StartSendFacts ==
  ASSUME NEW t, InOrder(t),
         t.kind = "stream" => t.writing = 0 /\ Waiting(t, "send") = {} /\ t.queue > 0,
         t.kind # "stream" => CanSend(t) /\ t.kind \notin {"internal", "websocket"}
  PROVE  LET u == StartSend(t)
         IN  InOrder(u) /\ SameFace(t, u) /\ SameStage(t, u) /\ u.fault = t.fault
<1>1. [call |-> "send", outcome |-> "error"] \in Handlers
  BY DEF Handlers, Outcomes
<1>2. CASE t.socket = "closed"
  BY <1>1, <1>2, PostInOrder DEF StartSend
<1>3. CASE t.socket # "closed"
  <2>0. t \in Transports /\ t.writing \in Nat
    BY DEF InOrder, Transports
  <2>1. StartSend(t) = [t EXCEPT !.writing = t.writing + 1] /\ t.writing + 1 \in Nat
    BY <2>0, <1>3 DEF StartSend
  <2>2. t.kind = "stream" => t.writing + 1 <= 1
    OBVIOUS
  <2> QED
    BY <2>1, <2>2, WritingInOrder
<1> QED
  BY <1>2, <1>3

-----------------------------------------------------------------------------
(* The handlers and the other operations *)

\* What an operation may make of a transport.
Yields(t, u) == InOrder(u) /\ SameFace(t, u) /\ MovesOn(t, u)

LEMMA StillWorks ==
  ASSUME NEW t, InOrder(t), ~ShuttingDown(t)
  PROVE  CanSend(t)
BY DEF InOrder, Transports, TransportStates, ShuttingDown, CanSend

LEMMA StreamErrorFacts ==
  ASSUME NEW t, InOrder(t), t.kind = "stream", NEW error
  PROVE  Yields(t, StreamError(t, error)) /\ StreamError(t, error).fault = t.fault
<1>1. CASE ShuttingDown(t) \/ error = "aborted"
  BY <1>1 DEF StreamError, Yields, SameFace, MovesOn, SameStage
<1>2. CASE ~(ShuttingDown(t) \/ error = "aborted")
  <2>1. CanSend(t)
    BY <1>2, StillWorks
  <2>2. SetState(t, "FAILED").kind = "stream"
    BY <2>1, ShutFacts DEF SameFace
  <2>3. StreamError(t, error) = DoClose(SetState(t, "FAILED"))
    BY <1>2, <2>2 DEF StreamError, StreamFail, DoClose
  <2> QED
    BY <2>1, <2>3, DoCloseFacts DEF Yields
<1> QED
  BY <1>1, <1>2

LEMMA DatagramErrorFacts ==
  ASSUME NEW t, InOrder(t), t.kind \in {"unicast", "multicast"}, NEW error
  PROVE  Yields(t, DatagramError(t, error)) /\ DatagramError(t, error).fault = t.fault
<1>1. CASE ShuttingDown(t) \/ error = "aborted" \/ t.persistency = "permanent"
  BY <1>1 DEF DatagramError, Yields, SameFace, MovesOn, SameStage
<1>2. CASE ~(ShuttingDown(t) \/ error = "aborted" \/ t.persistency = "permanent")
  <2> DEFINE v == SetState(t, "FAILED")
             u == DatagramDoClose(v)
  <2>1. CanSend(t)
    BY <1>2, StillWorks
  <2>2. ReadyToClose(v) /\ SameFace(t, v) /\ v.fault = t.fault /\ v.life = t.life
    BY <2>1, ShutFacts
  <2>3. DatagramError(t, error) = u
    BY <1>2 DEF DatagramError
  <2> HIDE DEF v
  <2>4. v.kind \in {"unicast", "multicast", "ethernet"}
    BY <2>2 DEF SameFace
  <2>5. InOrder(u) /\ SameFace(v, u) /\ SameStage(v, u) /\ u.fault = v.fault
    BY <2>2, <2>4, DatagramDoCloseFacts
  <2> HIDE DEF u
  <2>6. SameFace(t, u) /\ MovesOn(t, u)
    BY <2>1, <2>2, <2>5 DEF SameFace, SameStage, MovesOn, ReadyToClose
  <2> QED
    BY <2>2, <2>3, <2>5, <2>6 DEF Yields
<1> QED
  BY <1>1, <1>2

LEMMA QueueInOrder ==
  ASSUME NEW t, InOrder(t), t.kind = "stream", NEW q \in Nat,
         t.writing = 0 \/ q > 0,
         \A i \in Waiting(t, "send") : q > 0
  PROVE  LET u == [t EXCEPT !.queue = q]
         IN  InOrder(u) /\ SameFace(t, u) /\ SameStage(t, u) /\ u.fault = t.fault
<1> DEFINE u == [t EXCEPT !.queue = q]
<1>1. /\ u \in Transports /\ SameFace(t, u) /\ SameStage(t, u) /\ u.fault = t.fault
      /\ u.reading = t.reading /\ u.writing = t.writing /\ u.queue = q
      /\ u.socket = t.socket /\ u.loop = t.loop /\ u.kind = t.kind
  BY DEF InOrder, Transports, SameFace, SameStage
<1> HIDE DEF u
<1>2. \A c : Waiting(u, c) = Waiting(t, c)
  BY <1>1 DEF Waiting
<1>3. ClosedIsRemoved(u) /\ OneDeallocation(u) /\ OthersInOrder(u)
  BY <1>1, <1>2 DEF InOrder, ClosedIsRemoved, OneDeallocation, OthersInOrder, SameStage
<1>4. StreamInOrder(u)
  BY <1>1, <1>2 DEF InOrder, StreamInOrder, CanSend, ShuttingDown, SameStage
<1> QED
  BY <1>1, <1>3, <1>4 DEF InOrder, u

LEMMA FaultInOrder ==
  ASSUME NEW t, InOrder(t), NEW f \in {"none", "invalid transition", "empty queue", "oversized packet"}
  PROVE  LET u == [t EXCEPT !.fault = f]
         IN  InOrder(u) /\ SameFace(t, u) /\ SameStage(t, u) /\ u.fault = f
<1> DEFINE u == [t EXCEPT !.fault = f]
<1>1. /\ u \in Transports /\ SameFace(t, u) /\ SameStage(t, u) /\ u.fault = f
      /\ u.reading = t.reading /\ u.writing = t.writing /\ u.queue = t.queue
      /\ u.socket = t.socket /\ u.loop = t.loop /\ u.kind = t.kind
  BY DEF InOrder, Transports, SameFace, SameStage
<1> HIDE DEF u
<1>2. \A c : Waiting(u, c) = Waiting(t, c)
  BY <1>1 DEF Waiting
<1>3. ClosedIsRemoved(u) /\ OneDeallocation(u) /\ OthersInOrder(u)
  BY <1>1, <1>2 DEF InOrder, ClosedIsRemoved, OneDeallocation, OthersInOrder, CanSend,
                    ShuttingDown, SameStage
<1>4. StreamInOrder(u)
  BY <1>1, <1>2 DEF InOrder, StreamInOrder, CanSend, ShuttingDown, SameStage
<1> QED
  BY <1>1, <1>3, <1>4 DEF InOrder, u

\* A packet goes to the socket of a stream if none before it does.
LEMMA StreamDoSendFacts ==
  ASSUME NEW t, InOrder(t), t.kind = "stream", CanSend(t)
  PROVE  Yields(t, StreamDoSend(t)) /\ StreamDoSend(t).fault = t.fault
<1> DEFINE v == [t EXCEPT !.queue = t.queue + 1]
<1>1. t \in Transports /\ t.queue \in Nat /\ StreamInOrder(t)
  BY DEF InOrder, Transports
<1>2. InOrder(v) /\ SameFace(t, v) /\ SameStage(t, v) /\ v.fault = t.fault
  BY <1>1, QueueInOrder
<1>3. v.writing = t.writing /\ v.loop = t.loop /\ v.queue = t.queue + 1 /\ v.kind = "stream"
  BY <1>1 DEF Transports
<1>4. StreamDoSend(t) = IF t.queue = 0 THEN StartSend(v) ELSE v
  BY <1>1 DEF StreamDoSend
<1> HIDE DEF v
<1>5. CASE t.queue = 0
  <2>1. v.writing = 0 /\ Waiting(v, "send") = {} /\ v.queue > 0
    BY <1>1, <1>3, <1>5 DEF StreamInOrder, Waiting
  <2>2. InOrder(StartSend(v)) /\ SameFace(v, StartSend(v)) /\ SameStage(v, StartSend(v))
        /\ StartSend(v).fault = v.fault
    BY <2>1, <1>2, <1>3, StartSendFacts
  <2> QED
    BY <2>2, <1>2, <1>4, <1>5 DEF Yields, MovesOn, SameFace, SameStage
<1>6. CASE t.queue # 0
  BY <1>2, <1>4, <1>6 DEF Yields, MovesOn
<1> QED
  BY <1>5, <1>6

\* The handler of a send operation of a stream, which has left the event loop.
LEMMA StreamHandleSendFacts ==
  ASSUME NEW t, InOrder(t), t.kind = "stream", NEW outcome,
         Waiting(t, "send") = {}, t.writing = 0, outcome = "ok" => t.queue > 0
  PROVE  Yields(t, StreamHandleSend(t, outcome)) /\ StreamHandleSend(t, outcome).fault = t.fault
<1>1. CASE outcome # "ok"
  BY <1>1, StreamErrorFacts DEF StreamHandleSend
<1>2. CASE outcome = "ok"
  <2> DEFINE v == [t EXCEPT !.queue = t.queue - 1]
  <2>0. t \in Transports /\ t.queue \in Nat
    BY DEF InOrder, Transports
  <2>1. t.queue - 1 \in Nat /\ t.queue # 0
    BY <1>2, <2>0
  <2>2. InOrder(v) /\ SameFace(t, v) /\ SameStage(t, v) /\ v.fault = t.fault
    BY <2>0, <2>1, QueueInOrder
  <2>3. v.writing = 0 /\ v.loop = t.loop /\ v.queue \in Nat /\ v.kind = "stream"
    BY <2>0, <2>1 DEF Transports
  <2>4. StreamHandleSend(t, outcome) = IF v.queue > 0 THEN StartSend(v) ELSE v
    BY <1>2, <2>0, <2>1 DEF StreamHandleSend
  <2> HIDE DEF v
  <2>5. Waiting(v, "send") = {}
    BY <2>3 DEF Waiting
  <2>6. v.queue > 0 =>
          /\ InOrder(StartSend(v)) /\ SameFace(v, StartSend(v)) /\ SameStage(v, StartSend(v))
          /\ StartSend(v).fault = v.fault
    BY <2>2, <2>3, <2>5, StartSendFacts
  <2> QED
    BY <2>2, <2>4, <2>6 DEF Yields, MovesOn, SameFace, SameStage
<1> QED
  BY <1>1, <1>2

\* The exception of an oversized packet is the only one: the state is looked at nowhere else.
LEMMA StreamOversizedFacts ==
  ASSUME NEW t, InOrder(t), t.kind = "stream", t.fault = "none"
  PROVE  Yields(t, StreamOversized(t)) /\ StreamOversized(t).fault \in {"none", "oversized packet"}
<1>1. t \in Transports /\ t.state \in TransportStates
  BY DEF InOrder, Transports
<1> DEFINE v == SetState(t, "FAILED")
           u == StreamDoClose(v)
<1>2. StreamOversized(t) = IF u.fault = "none" THEN u ELSE [u EXCEPT !.fault = "oversized packet"]
  BY DEF StreamOversized, StreamFail
<1>3. CASE CanSend(t)
  <2>1. v.kind = "stream"
    BY <1>3, ShutFacts DEF SameFace
  <2>2. u = DoClose(v)
    BY <2>1 DEF DoClose
  <2>3. InOrder(u) /\ SameFace(t, u) /\ MovesOn(t, u) /\ u.fault = "none"
    BY <2>2, <1>3, DoCloseFacts
  <2> HIDE DEF u
  <2> QED
    BY <2>3, <1>2 DEF Yields
<1>4. CASE ~CanSend(t)
  <2>1. ShuttingDown(t)
    BY <1>1, <1>4 DEF TransportStates, CanSend, ShuttingDown
  <2>2. InOrder(v) /\ SameFace(t, v) /\ SameStage(t, v)
    <3>1. CASE t.state = "FAILED"
      BY <3>1 DEF SetState, SameFace, SameStage
    <3>2. CASE t.state # "FAILED"
      <4>1. "FAILED" \notin MayFollow[t.state]
        BY <2>1, <3>2 DEF ShuttingDown, MayFollow
      <4>2. v = [t EXCEPT !.fault = "invalid transition"]
        BY <3>2, <4>1 DEF SetState
      <4> QED
        BY <4>2, FaultInOrder
    <3> QED
      BY <3>1, <3>2
  <2> HIDE DEF v
  <2>3. v.kind = "stream" /\ ShuttingDown(v)
    BY <2>1, <2>2 DEF SameFace, SameStage, ShuttingDown
  <2>4. InOrder(u) /\ SameFace(v, u) /\ SameStage(v, u)
    BY <2>2, <2>3, StreamDoCloseFacts
  <2> HIDE DEF u
  <2> DEFINE w == [u EXCEPT !.fault = "oversized packet"]
  <2>5. InOrder(w) /\ SameFace(u, w) /\ SameStage(u, w) /\ w.fault = "oversized packet"
    BY <2>4, FaultInOrder
  <2> HIDE DEF w
  <2>6. Yields(t, u) /\ Yields(t, w)
    BY <2>2, <2>4, <2>5 DEF Yields, MovesOn, SameFace, SameStage
  <2> QED
    BY <2>5, <2>6, <1>2 DEF w
<1> QED
  BY <1>3, <1>4

LEMMA StreamHandleReceiveFacts ==
  ASSUME NEW t, InOrder(t), t.kind = "stream", t.fault = "none", NEW outcome, NEW parsed \in BOOLEAN
  PROVE  LET u == StreamHandleReceive(t, outcome, parsed)
         IN  Yields(t, u) /\ u.fault \in {"none", "oversized packet"}
<1>1. CASE outcome # "ok"
  BY <1>1, StreamErrorFacts DEF StreamHandleReceive
<1>2. CASE outcome = "ok" /\ ~parsed
  BY <1>2, StreamOversizedFacts DEF StreamHandleReceive
<1>3. CASE outcome = "ok" /\ parsed
  BY <1>3, StartReceiveFacts DEF StreamHandleReceive, Yields, MovesOn
<1> QED
  BY <1>1, <1>2, <1>3

\* The handler that completes the close of a stream.
LEMMA DeferredCloseFacts ==
  ASSUME NEW t, InOrder(t), t.kind = "stream", ShuttingDown(t),
         \A i \in Waiting(t, "send") : t.loop[i].outcome # "ok"
  PROVE  Yields(t, DeferredClose(t)) /\ DeferredClose(t).fault = t.fault
<1> DEFINE q == [t EXCEPT !.queue = 0]
           a == AbortPending(q)
           c == [a EXCEPT !.socket = "closed"]
<1>1. DeferredClose(t) = SetState(c, "CLOSED")
  BY DEF DeferredClose
<1>2. /\ t \in Transports /\ ClosedIsRemoved(t) /\ OneDeallocation(t) /\ StreamInOrder(t)
  BY DEF InOrder
<1>3. /\ q \in Transports /\ SameFace(t, q) /\ SameStage(t, q) /\ q.fault = t.fault
      /\ q.loop = t.loop /\ q.kind = "stream" /\ q.writing = t.writing /\ q.queue = 0
      /\ q.reading = t.reading
  BY <1>2 DEF Transports, SameFace, SameStage
<1> HIDE DEF q
<1>4. \A d : Waiting(q, d) = Waiting(t, d)
  BY <1>3 DEF Waiting
<1>5. /\ a \in Transports /\ SameFace(q, a) /\ SameStage(q, a) /\ a.queue = q.queue
      /\ a.fault = q.fault /\ a.writing = 0
  BY <1>3, AbortFacts
<1>6. c.loop = a.loop
  BY <1>5 DEF Transports
<1>7. /\ Waiting(c, "deallocate") = Waiting(t, "deallocate")
      /\ Waiting(c, "deferredClose") = Waiting(t, "deferredClose")
      /\ \A i \in Waiting(c, "send") : c.loop[i].outcome # "ok"
  <2>1. /\ Waiting(c, "deallocate") = Waiting(q, "deallocate")
        /\ Waiting(c, "deferredClose") = Waiting(q, "deferredClose")
        /\ \A i \in Waiting(c, "send") : c.loop[i].outcome # "aborted" =>
              i \in Waiting(q, "send") /\ c.loop[i] = q.loop[i]
    <3>1. c.loop = AbortPending(q).loop /\ q \in Transports
      BY <1>3, <1>6
    <3> HIDE DEF c
    <3> QED
      BY <3>1, AbortedWaiting
  <2> HIDE DEF c
  <2> QED
    BY <2>1, <1>3, <1>4
<1>8. \A i, j \in Waiting(c, "send") : i = j
  <2> DEFINE b == AbortPending(t)
  <2>1. b.loop = a.loop
    <3>1. a.loop = q.loop \o (IF q.reading THEN <<[call |-> "receive", outcome |-> "aborted"]>> ELSE <<>>)
                          \o [i \in 1 .. q.writing |-> [call |-> "send", outcome |-> "aborted"]]
      BY <1>3 DEF AbortPending, Transports
    <3>2. b.loop = t.loop \o (IF t.reading THEN <<[call |-> "receive", outcome |-> "aborted"]>> ELSE <<>>)
                          \o [i \in 1 .. t.writing |-> [call |-> "send", outcome |-> "aborted"]]
      BY <1>2 DEF AbortPending, Transports
    <3> QED
      BY <3>1, <3>2, <1>3
  <2> HIDE DEF a, b, c
  <2> QED
    BY <2>1, <1>2, <1>6, AbortedWaiting DEF b
<1> HIDE DEF a
<1>9. /\ c \in Transports /\ SameFace(t, c) /\ SameStage(t, c) /\ c.fault = t.fault
      /\ c.writing = 0 /\ c.socket = "closed" /\ c.kind = "stream" /\ c.queue = 0
  BY <1>3, <1>5 DEF Transports, SameFace, SameStage
<1> HIDE DEF c
<1>10. ClosedIsRemoved(c) /\ OneDeallocation(c) /\ ShuttingDown(c) /\ ~CanSend(c)
  BY <1>2, <1>7, <1>9 DEF ClosedIsRemoved, OneDeallocation, ShuttingDown, CanSend, SameStage
<1>11. StreamInOrder(c) /\ OthersInOrder(c)
  BY <1>7, <1>8, <1>9, <1>10 DEF StreamInOrder, OthersInOrder
<1>12. InOrder(c)
  BY <1>9, <1>10, <1>11 DEF InOrder
<1>13. CASE c.state = "CLOSED"
  <2>1. DeferredClose(t) = c
    BY <1>1, <1>13 DEF SetState
  <2> QED
    BY <2>1, <1>9, <1>12 DEF Yields, MovesOn
<1>14. CASE c.state # "CLOSED"
  <2>1. c.state \in {"CLOSING", "FAILED"}
    BY <1>10, <1>14 DEF ShuttingDown
  <2>2. /\ InOrder(DeferredClose(t)) /\ SameFace(c, DeferredClose(t))
        /\ DeferredClose(t).fault = c.fault /\ c.life = "listed"
        /\ DeferredClose(t).state = "CLOSED" /\ DeferredClose(t).life = "removed"
    BY <2>1, <1>1, <1>9, <1>12, ClosedFacts
  <2> QED
    BY <2>1, <2>2, <1>9 DEF Yields, MovesOn, SameFace, SameStage
<1> QED
  BY <1>13, <1>14

\* The deallocation of a face, whose destructors close and cancel.
LEMMA DeallocationFacts ==
  ASSUME NEW t, InOrder(t), t.life = "removed", Waiting(t, "deallocate") = {},
         t.kind # "stream" => t.loop = <<>>
  PROVE  LET u == [AbortPending(t) EXCEPT !.life = "freed", !.socket = "closed", !.timer = Never]
         IN  Yields(t, u) /\ u.fault = t.fault
<1> DEFINE a == AbortPending(t)
           u == [a EXCEPT !.life = "freed", !.socket = "closed", !.timer = Never]
<1>1. /\ t \in Transports /\ ClosedIsRemoved(t) /\ OneDeallocation(t) /\ StreamInOrder(t)
      /\ OthersInOrder(t)
  BY DEF InOrder
<1>2. /\ a \in Transports /\ SameFace(t, a) /\ SameStage(t, a) /\ a.queue = t.queue
      /\ a.fault = t.fault /\ a.writing = 0 /\ a.reading = FALSE
      /\ ~t.reading /\ t.writing = 0 => a.loop = t.loop
  BY <1>1, AbortFacts
<1> HIDE DEF a
<1>3. /\ u \in Transports /\ SameFace(t, u) /\ u.state = t.state /\ u.life = "freed"
      /\ u.queue = t.queue /\ u.fault = t.fault /\ u.writing = 0 /\ u.reading = FALSE
      /\ u.loop = a.loop /\ u.socket = "closed" /\ u.kind = t.kind
  BY <1>2 DEF Transports, SameFace, SameStage
<1> HIDE DEF u
<1>4. t.state = "CLOSED" /\ ShuttingDown(t) /\ ShuttingDown(u) /\ ~CanSend(u)
  BY <1>1, <1>3 DEF ClosedIsRemoved, ShuttingDown, CanSend
<1>5. ClosedIsRemoved(u)
  BY <1>3, <1>4 DEF ClosedIsRemoved
<1>6. CASE t.kind = "stream"
  <2>1. Waiting(u, "deallocate") = {}
    BY <1>1, <1>3, AbortedWaiting DEF a
  <2>2. InOrder(u)
    BY <2>1, <1>3, <1>4, <1>5, <1>6, AbortedStream DEF a
  <2> QED
    BY <2>2, <1>3, <1>4 DEF Yields, MovesOn, u, a
<1>7. CASE t.kind # "stream"
  <2>1. ~t.reading /\ t.writing = 0
    BY <1>1, <1>4, <1>7 DEF OthersInOrder
  <2>2. u.loop = <<>>
    BY <2>1, <1>2, <1>3, <1>7
  <2>3. \A c : Waiting(u, c) = {}
    BY <2>2 DEF Waiting
  <2>4. OneDeallocation(u) /\ StreamInOrder(u)
    BY <2>3, <1>3, <1>7 DEF OneDeallocation, StreamInOrder
  <2>5. OthersInOrder(u)
    BY <2>2, <2>3, <1>1, <1>3, <1>4, <1>7 DEF OthersInOrder
  <2> QED
    BY <2>4, <2>5, <1>3, <1>4, <1>5 DEF Yields, MovesOn, InOrder, u, a
<1> QED
  BY <1>6, <1>7

\* Whether a packet was received, the timer and the persistency are of no concern to the
\* event loop.
SameOrder(t, u) ==
  /\ u.kind = t.kind /\ SameStage(t, u) /\ u.fault = t.fault /\ u.loop = t.loop
  /\ u.socket = t.socket /\ u.reading = t.reading /\ u.writing = t.writing /\ u.queue = t.queue

LEMMA SameOrderFacts ==
  ASSUME NEW t, InOrder(t), NEW u \in Transports, SameOrder(t, u)
  PROVE  InOrder(u) /\ MovesOn(t, u)
<1>1. \A c : Waiting(u, c) = Waiting(t, c)
  BY DEF Waiting, SameOrder
<1>2. ClosedIsRemoved(u) /\ OneDeallocation(u) /\ OthersInOrder(u)
  BY <1>1 DEF InOrder, ClosedIsRemoved, OneDeallocation, OthersInOrder, CanSend, ShuttingDown,
              SameOrder, SameStage
<1>3. StreamInOrder(u)
  BY <1>1 DEF InOrder, StreamInOrder, CanSend, ShuttingDown, SameOrder, SameStage
<1> QED
  BY <1>2, <1>3 DEF InOrder, MovesOn, SameOrder

\* A received packet sets the flag, an error may end the transport.
LEMMA ReceiveDatagramFacts ==
  ASSUME NEW t, InOrder(t), t.kind \in {"unicast", "multicast"}, NEW outcome,
         NEW wellFormed \in BOOLEAN
  PROVE  LET u == ReceiveDatagram(t, outcome, wellFormed)
         IN  /\ InOrder(u) /\ MovesOn(t, u) /\ u.fault = t.fault /\ u.kind = t.kind
             /\ u.persistency = t.persistency /\ (u.timer \in {t.timer, Never} \/ t.kind # "unicast")
             /\ u.used = IF outcome = "ok" THEN t.used \/ wellFormed ELSE t.used
<1>1. CASE outcome # "ok"
  BY <1>1, DatagramErrorFacts DEF ReceiveDatagram, Yields, SameFace
<1>2. CASE outcome = "ok"
  <2> DEFINE u == [t EXCEPT !.used = @ \/ wellFormed]
  <2>1. ReceiveDatagram(t, outcome, wellFormed) = u
    BY <1>2 DEF ReceiveDatagram
  <2>2. /\ u \in Transports /\ SameOrder(t, u) /\ u.persistency = t.persistency
        /\ u.timer = t.timer /\ u.used = (t.used \/ wellFormed)
    BY DEF InOrder, Transports, SameOrder, SameStage
  <2> HIDE DEF u
  <2>3. InOrder(u) /\ MovesOn(t, u)
    BY <2>2, SameOrderFacts
  <2> QED
    BY <1>2, <2>1, <2>2, <2>3 DEF SameOrder
<1> QED
  BY <1>1, <1>2

LEMMA DatagramHandleReceiveFacts ==
  ASSUME NEW t, InOrder(t), t.kind \in {"unicast", "multicast"}, NEW outcome,
         NEW wellFormed \in BOOLEAN
  PROVE  LET u == DatagramHandleReceive(t, outcome, wellFormed)
         IN  /\ InOrder(u) /\ MovesOn(t, u) /\ u.fault = t.fault /\ u.kind = t.kind
             /\ u.persistency = t.persistency /\ (u.timer \in {t.timer, Never} \/ t.kind # "unicast")
             /\ u.used = IF outcome = "ok" THEN t.used \/ wellFormed ELSE t.used
<1> DEFINE v == ReceiveDatagram(t, outcome, wellFormed)
<1>1. /\ InOrder(v) /\ MovesOn(t, v) /\ v.fault = t.fault /\ v.kind = t.kind
      /\ v.persistency = t.persistency /\ (v.timer \in {t.timer, Never} \/ t.kind # "unicast")
      /\ v.used = IF outcome = "ok" THEN t.used \/ wellFormed ELSE t.used
  BY ReceiveDatagramFacts
<1>2. DatagramHandleReceive(t, outcome, wellFormed) =
        IF v.socket = "open" THEN StartReceive(v) ELSE v
  BY DEF DatagramHandleReceive
<1> HIDE DEF v
<1>3. CASE v.socket # "open"
  BY <1>1, <1>2, <1>3
<1>4. CASE v.socket = "open"
  <2>1. CanSend(v)
    <3>1. ~ShuttingDown(v)
      BY <1>1, <1>4 DEF InOrder, OthersInOrder
    <3> QED
      BY <3>1, <1>1, StillWorks
  <2>2. v.kind \notin {"internal", "websocket"}
    BY <1>1
  <2> DEFINE u == StartReceive(v)
  <2>3. InOrder(u) /\ SameFace(v, u) /\ SameStage(v, u) /\ u.fault = v.fault
    BY <2>1, <2>2, <1>1, StartReceiveFacts
  <2> HIDE DEF u
  <2>4. MovesOn(t, u)
    BY <2>3, <1>1 DEF MovesOn, SameStage
  <2> QED
    BY <2>3, <2>4, <1>1, <1>2, <1>4 DEF SameFace, u
<1> QED
  BY <1>3, <1>4

\* The server of a WebSocket face ends it, unless it has ended already.
LEMMA WebSocketFailFacts ==
  ASSUME NEW t, InOrder(t), t.kind = "websocket", CanSend(t)
  PROVE  Yields(t, WebSocketFail(t)) /\ WebSocketFail(t).fault = t.fault
<1>1. SetState(t, "FAILED").kind = "websocket"
  BY ShutFacts DEF SameFace
<1>2. WebSocketFail(t) = DoClose(SetState(t, "FAILED"))
  BY <1>1 DEF WebSocketFail, DoClose
<1> QED
  BY <1>2, DoCloseFacts DEF Yields

LEMMA WebSocketErrorFacts ==
  ASSUME NEW t, InOrder(t), t.kind = "websocket"
  PROVE  Yields(t, WebSocketError(t)) /\ WebSocketError(t).fault = t.fault
<1>1. CASE ShuttingDown(t)
  BY <1>1 DEF WebSocketError, Yields, SameFace, MovesOn, SameStage
<1>2. CASE ~ShuttingDown(t)
  BY <1>2, StillWorks, WebSocketFailFacts DEF WebSocketError
<1> QED
  BY <1>1, <1>2

LEMMA SendPingFacts ==
  ASSUME NEW t, InOrder(t), t.kind = "websocket", now \in Nat, NEW pingOk \in BOOLEAN
  PROVE  Yields(t, SendPing(t, pingOk)) /\ SendPing(t, pingOk).fault = t.fault
<1> DEFINE m == IF pingOk THEN now + 1 ELSE Never
           v == [t EXCEPT !.timer = m]
<1>1. m \in Nat \cup {Never}
  OBVIOUS
<1>2. v \in Transports /\ SameOrder(t, v) /\ v.persistency = t.persistency /\ v.used = t.used
  BY <1>1 DEF InOrder, Transports, SameOrder, SameStage
<1>3. SendPing(t, pingOk) = IF pingOk THEN v ELSE WebSocketError(v)
  BY DEF SendPing
<1> HIDE DEF v, m
<1>4. InOrder(v) /\ SameStage(t, v) /\ v.fault = t.fault /\ SameFace(t, v)
  BY <1>2, SameOrderFacts DEF SameOrder, SameFace
<1>5. Yields(v, WebSocketError(v)) /\ WebSocketError(v).fault = v.fault
  BY <1>4, WebSocketErrorFacts DEF SameFace
<1> QED
  BY <1>3, <1>4, <1>5 DEF Yields, MovesOn, SameFace, SameStage, CanSend

LEMMA EthernetHandleReadFacts ==
  ASSUME NEW t, InOrder(t), t.kind = "ethernet", NEW outcome, outcome = "ok" => CanSend(t)
  PROVE  Yields(t, EthernetHandleRead(t, outcome)) /\ EthernetHandleRead(t, outcome).fault = t.fault
<1>1. CASE outcome = "ok"
  BY <1>1, StartReceiveFacts DEF EthernetHandleRead, Yields, MovesOn
<1>2. CASE outcome # "ok"
  BY <1>2 DEF EthernetHandleRead, Yields, SameFace, MovesOn, SameStage
<1> QED
  BY <1>1, <1>2

-----------------------------------------------------------------------------
(* The steps *)

Good(t, u) == InOrder(u) /\ MovesOn(t, u) /\ u.fault \in {"none", "oversized packet"}

LEMMA CloseFaceStep ==
  ASSUME IInv, CloseFace
  PROVE  Good(transport, transport') /\ SameFace(transport, transport')
<1>1. InOrder(transport) /\ transport.fault = "none"
  BY DEF IInv, Sound, CloseFace, Running
<1>2. CASE CanSend(transport)
  <2>1. transport' = DoClose(SetState(transport, "CLOSING"))
    BY <1>2 DEF CloseFace, Close
  <2> QED
    BY <1>1, <1>2, <2>1, DoCloseFacts DEF Good
<1>3. CASE ~CanSend(transport)
  BY <1>1, <1>3 DEF CloseFace, Close, Good, MovesOn, SameStage, SameFace
<1> QED
  BY <1>2, <1>3

LEMMA SendStep ==
  ASSUME IInv, Send
  PROVE  Good(transport, transport') /\ SameFace(transport, transport')
<1>1. /\ InOrder(transport) /\ transport.fault = "none" /\ CanSend(transport)
      /\ transport' \in DoSend(transport) /\ transport.kind \in TransportKinds
  BY TransportAssumption DEF IInv, Sound, InOrder, Transports, Send, Running
<1>2. CASE transport.kind = "stream"
  <2>1. transport' = StreamDoSend(transport)
    BY <1>1, <1>2 DEF DoSend
  <2> QED
    BY <2>1, <1>1, <1>2, StreamDoSendFacts DEF Yields, Good
<1>3. CASE transport.kind \in {"unicast", "multicast"}
  <2>1. transport' = StartSend(transport)
    BY <1>1, <1>3 DEF DoSend, DatagramDoSend, MulticastDoSend
  <2> QED
    BY <2>1, <1>1, <1>3, StartSendFacts DEF Good, MovesOn
<1>4. CASE transport.kind \in {"internal", "ethernet"}
  <2>1. transport' = transport
    BY <1>1, <1>4 DEF DoSend, InternalDoSend, EthernetDoSend
  <2> QED
    BY <2>1, <1>1 DEF Good, MovesOn, SameStage, SameFace
<1>5. CASE transport.kind = "websocket"
  <2>1. transport' = transport \/ transport' = WebSocketError(transport)
    BY <1>1, <1>5 DEF DoSend, WebSocketDoSend
  <2>2. Yields(transport, WebSocketError(transport)) /\ WebSocketError(transport).fault = "none"
    BY <1>1, <1>5, WebSocketErrorFacts
  <2> QED
    BY <2>1, <2>2, <1>1 DEF Yields, Good, MovesOn, SameStage, SameFace
<1> QED
  BY <1>1, <1>2, <1>3, <1>4, <1>5 DEF TransportKinds

LEMMA ReadCompletesStep ==
  ASSUME IInv, ReadCompletes
  PROVE  Good(transport, transport') /\ SameFace(transport, transport')
<1> DEFINE done == [transport EXCEPT !.reading = FALSE]
<1>1. InOrder(transport) /\ transport.fault = "none" /\ transport.reading
  BY DEF IInv, Sound, ReadCompletes, Running
<1>2. PICK outcome \in Outcomes :
        transport' = IF transport.kind = "ethernet" THEN EthernetHandleRead(done, outcome)
                     ELSE Post(done, "receive", outcome)
  BY DEF ReadCompletes, StreamReadOutcomes, Outcomes
<1>3. /\ InOrder(done) /\ SameFace(transport, done) /\ SameStage(transport, done)
      /\ done.fault = "none"
  BY <1>1, ReadingInOrder
<1> HIDE DEF done
<1>4. transport.kind # "stream" => CanSend(transport) /\ CanSend(done)
  <2>1. transport.kind # "stream" => ~ShuttingDown(transport)
    BY <1>1 DEF InOrder, OthersInOrder
  <2> QED
    BY <2>1, <1>1, <1>3, StillWorks DEF CanSend, SameStage
<1>5. done.kind = transport.kind
  BY <1>3 DEF SameFace
<1>6. CASE transport.kind = "ethernet"
  <2>1. Yields(done, transport') /\ transport'.fault = "none"
    BY <1>2, <1>3, <1>4, <1>5, <1>6, EthernetHandleReadFacts
  <2> QED
    BY <2>1, <1>3 DEF Yields, Good, MovesOn, SameFace, SameStage, CanSend
<1>7. CASE transport.kind # "ethernet"
  <2>1. [call |-> "receive", outcome |-> outcome] \in Handlers
    BY DEF Handlers
  <2>2. transport' = Post(done, "receive", outcome)
    BY <1>2, <1>7
  <2>3. InOrder(transport') /\ SameFace(done, transport') /\ SameStage(done, transport')
        /\ transport'.fault = "none"
    BY <2>1, <2>2, <1>3, <1>4, <1>5, <1>7, PostInOrder
  <2> QED
    BY <2>3, <1>3 DEF Good, MovesOn, SameFace, SameStage
<1> QED
  BY <1>6, <1>7

LEMMA WriteCompletesStep ==
  ASSUME IInv, WriteCompletes
  PROVE  Good(transport, transport') /\ SameFace(transport, transport')
<1> DEFINE done == [transport EXCEPT !.writing = transport.writing - 1]
<1>1. /\ InOrder(transport) /\ transport.fault = "none" /\ transport.writing > 0
      /\ transport \in Transports
  BY DEF IInv, Sound, InOrder, WriteCompletes, Running
<1>2. transport.writing \in Nat /\ transport.writing - 1 \in Nat
  <2>1. transport.writing \in Nat
    BY <1>1 DEF Transports
  <2> QED
    BY <2>1, <1>1
<1>3. PICK outcome \in Outcomes :
        /\ transport' = Post(done, "send", outcome)
        /\ transport.kind = "stream" /\ outcome = "ok" => transport.socket = "open"
  BY DEF WriteCompletes, StreamWriteOutcomes, Outcomes
<1>4. transport.kind = "stream" =>
        /\ transport.writing = 1 /\ Waiting(transport, "send") = {}
        /\ transport.socket = "open" => transport.queue > 0
        /\ CanSend(transport) => transport.socket = "open"
  <2>1. transport.kind = "stream" => transport.writing = 1
    <3>1. transport.kind = "stream" => transport.writing <= 1
      BY <1>1 DEF InOrder, StreamInOrder
    <3> QED
      BY <3>1, <1>1, <1>2
  <2> QED
    BY <2>1, <1>1 DEF InOrder, StreamInOrder
<1>5. transport.kind # "stream" => CanSend(transport) /\ transport.kind \notin {"internal", "websocket"}
  <2> SUFFICES ASSUME transport.kind # "stream"
               PROVE  CanSend(transport) /\ transport.kind \notin {"internal", "websocket"}
    OBVIOUS
  <2>1. ~ShuttingDown(transport) /\ transport.kind \notin {"internal", "websocket"}
    BY <1>1 DEF InOrder, OthersInOrder
  <2> QED
    BY <2>1, <1>1, StillWorks
<1>6. /\ InOrder(done) /\ SameFace(transport, done) /\ SameStage(transport, done)
      /\ done.fault = "none"
  <2>1. transport.kind = "stream" => transport.writing - 1 <= 1 /\ transport.writing - 1 # 1
    BY <1>4
  <2> QED
    BY <2>1, <1>1, <1>2, <1>4, <1>5, WritingInOrder
<1>7. done.loop = transport.loop /\ done.queue = transport.queue /\ done.socket = transport.socket
      /\ done.kind = transport.kind /\ done.state = transport.state
      /\ done.writing = transport.writing - 1
  BY <1>1, <1>2 DEF Transports
<1> HIDE DEF done
<1>8. Waiting(done, "send") = Waiting(transport, "send") /\ (CanSend(done) <=> CanSend(transport))
  BY <1>7 DEF Waiting, CanSend
<1>9. [call |-> "send", outcome |-> outcome] \in Handlers
  BY DEF Handlers
<1>10. InOrder(transport') /\ SameFace(done, transport') /\ SameStage(done, transport')
       /\ transport'.fault = "none"
  <2>1. done.kind = "stream" => done.writing = 0 /\ Waiting(done, "send") = {}
                                /\ (CanSend(done) => done.queue > 0)
                                /\ (outcome = "ok" => done.queue > 0 /\ done.socket = "open")
    BY <1>3, <1>4, <1>7, <1>8
  <2>2. done.kind # "stream" => CanSend(done)
    BY <1>5, <1>7, <1>8
  <2> QED
    BY <2>1, <2>2, <1>3, <1>6, <1>9, PostInOrder
<1> QED
  BY <1>6, <1>10 DEF Good, MovesOn, SameFace, SameStage

\* A unicast transport that takes note of a packet has its flag set.
Noted(t, u) ==
  \/ SameFace(t, u) /\ lastUse' = lastUse
  \/ /\ u.kind = t.kind /\ u.persistency = t.persistency
     /\ t.kind = "unicast" => u.timer \in {t.timer, Never}
     /\ u.used \in BOOLEAN /\ (t.used => u.used)
     /\ lastUse' = lastUse \/ (lastUse' = now /\ u.used)

LEMMA RunHandlerStep ==
  ASSUME IInv, RunHandler
  PROVE  Good(transport, transport') /\ Noted(transport, transport')
<1> DEFINE h == Head(transport.loop)
           t == [transport EXCEPT !.loop = Tail(@)]
<1>1. InOrder(transport) /\ transport.fault = "none" /\ transport.loop # <<>>
  BY DEF IInv, Sound, RunHandler, Running
<1>2. /\ h \in Handlers
      /\ InOrder(t) /\ SameFace(transport, t) /\ SameStage(transport, t)
      /\ t.fault = "none"
      /\ h.call = "send" /\ transport.kind = "stream" =>
           /\ Waiting(t, "send") = {} /\ t.writing = 0
           /\ h.outcome = "ok" => t.queue > 0
      /\ h.call = "receive" /\ transport.kind = "ethernet" => h.outcome # "ok"
      /\ h.call \in {"deferredClose", "deallocate"} /\ transport.kind # "stream" =>
           t.loop = <<>> /\ ShuttingDown(t)
      /\ h.call = "deferredClose" =>
           /\ ShuttingDown(t)
           /\ transport.kind = "stream" => \A i \in Waiting(t, "send") : t.loop[i].outcome # "ok"
      /\ h.call = "deallocate" => t.life = "removed" /\ Waiting(t, "deallocate") = {}
  BY <1>1, FirstHandler
<1>3. /\ transport.used \in BOOLEAN /\ t.used \in BOOLEAN /\ t.kind = transport.kind
  BY <1>1, <1>2 DEF InOrder, Transports, SameFace
<1>4. \/ h.call = "receive" /\ RunReceive(t, h.outcome)
      \/ h.call = "send" /\ RunSend(t, h.outcome)
      \/ h.call = "link" /\ transport' = t /\ lastUse' = lastUse
      \/ /\ h.call = "deferredClose"
         /\ transport' = IF t.kind = "stream" THEN DeferredClose(t) ELSE SetState(t, "CLOSED")
         /\ lastUse' = lastUse
      \/ /\ h.call = "deallocate"
         /\ transport' = [AbortPending(t) EXCEPT !.life = "freed", !.socket = "closed", !.timer = Never]
         /\ lastUse' = lastUse
  BY DEF RunHandler, InternalReceive
<1> HIDE DEF h, t
<1>5. ASSUME Yields(t, transport'), transport'.fault \in {"none", "oversized packet"}, lastUse' = lastUse
      PROVE  Good(transport, transport') /\ Noted(transport, transport')
  BY <1>2, <1>5 DEF Yields, Good, Noted, MovesOn, SameFace, SameStage, CanSend
<1>6. CASE h.call = "receive" /\ RunReceive(t, h.outcome)
  <2>1. CASE t.kind = "stream"
    <3>1. PICK parsed \in BOOLEAN : transport' = StreamHandleReceive(t, h.outcome, parsed)
      BY <1>6, <2>1 DEF RunReceive, Datagrams
    <3>2. Yields(t, transport') /\ transport'.fault \in {"none", "oversized packet"}
      BY <3>1, <2>1, <1>2, StreamHandleReceiveFacts
    <3>3. lastUse' = lastUse
      BY <1>6, <2>1 DEF RunReceive, Datagrams
    <3> QED
      BY <3>2, <3>3, <1>5
  <2>2. CASE Datagrams(t)
    <3>1. PICK wellFormed \in BOOLEAN :
            /\ transport' = DatagramHandleReceive(t, h.outcome, wellFormed)
            /\ IF h.outcome = "ok" /\ wellFormed THEN Received(t) ELSE lastUse' = lastUse
      BY <1>6, <2>2 DEF RunReceive, Datagrams
    <3>2. t.kind \in {"unicast", "multicast"}
      BY <2>2 DEF Datagrams
    <3>3. /\ InOrder(transport') /\ MovesOn(t, transport') /\ transport'.fault = "none"
          /\ transport'.kind = t.kind /\ transport'.persistency = t.persistency
          /\ (transport'.timer \in {t.timer, Never} \/ t.kind # "unicast")
          /\ transport'.used = IF h.outcome = "ok" THEN t.used \/ wellFormed ELSE t.used
      BY <3>1, <3>2, <1>2, DatagramHandleReceiveFacts
    <3>4. Good(transport, transport')
      BY <3>3, <1>2 DEF Good, MovesOn, SameStage, CanSend
    <3>5. /\ transport'.used \in BOOLEAN /\ (t.used => transport'.used)
          /\ lastUse' = lastUse \/ (lastUse' = now /\ transport'.used)
      BY <3>1, <3>3, <1>3 DEF Received
    <3>6. Noted(transport, transport')
      BY <3>3, <3>5, <1>2 DEF Noted, SameFace
    <3> QED
      BY <3>4, <3>6
  <2>3. CASE t.kind = "ethernet"
    <3>1. transport' = EthernetHandleRead(t, h.outcome) /\ lastUse' = lastUse
      BY <1>6, <2>3 DEF RunReceive, Datagrams
    <3>2. h.outcome # "ok"
      BY <1>2, <1>3, <1>6, <2>3
    <3>3. Yields(t, transport') /\ transport'.fault = "none"
      BY <3>1, <3>2, <2>3, <1>2, EthernetHandleReadFacts
    <3> QED
      BY <3>1, <3>3, <1>5
  <2> QED
    BY <2>1, <2>2, <2>3, <1>6 DEF RunReceive
<1>7. CASE h.call = "send" /\ RunSend(t, h.outcome)
  <2>1. lastUse' = lastUse
    BY <1>7 DEF RunSend
  <2>2. CASE t.kind = "stream"
    <3>1. transport' = StreamHandleSend(t, h.outcome)
      BY <1>7, <2>2 DEF RunSend, Datagrams
    <3>2. Yields(t, transport') /\ transport'.fault = "none"
      BY <3>1, <2>2, <1>2, <1>3, <1>7, StreamHandleSendFacts
    <3> QED
      BY <3>2, <2>1, <1>5
  <2>3. CASE Datagrams(t)
    <3>1. t.kind \in {"unicast", "multicast"}
      BY <2>3 DEF Datagrams
    <3>2. transport' = DatagramHandleSend(t, h.outcome)
      BY <3>1, <1>7 DEF RunSend
    <3>3. Yields(t, transport') /\ transport'.fault = "none"
      <4>1. CASE h.outcome = "ok"
        BY <4>1, <3>2, <1>2 DEF DatagramHandleSend, Yields, SameFace, MovesOn, SameStage
      <4>2. CASE h.outcome # "ok"
        BY <4>2, <3>1, <3>2, <1>2, DatagramErrorFacts DEF DatagramHandleSend
      <4> QED
        BY <4>1, <4>2
    <3> QED
      BY <3>3, <2>1, <1>5
  <2> QED
    BY <2>2, <2>3, <1>7 DEF RunSend
<1>8. CASE h.call = "link" /\ transport' = t /\ lastUse' = lastUse
  BY <1>2, <1>8 DEF Good, Noted, MovesOn, SameStage
<1>9. CASE /\ h.call = "deferredClose"
           /\ transport' = IF t.kind = "stream" THEN DeferredClose(t) ELSE SetState(t, "CLOSED")
           /\ lastUse' = lastUse
  <2>1. CASE t.kind = "stream"
    <3>1. Yields(t, transport') /\ transport'.fault = "none"
      BY <2>1, <1>2, <1>3, <1>9, DeferredCloseFacts
    <3> QED
      BY <3>1, <1>5, <1>9
  <2>2. CASE t.kind # "stream" /\ t.state = "CLOSED"
    <3>1. transport' = t
      BY <2>2, <1>9 DEF SetState
    <3> QED
      BY <3>1, <1>2, <1>9 DEF Good, Noted, MovesOn, SameStage
  <2>3. CASE t.kind # "stream" /\ t.state # "CLOSED"
    <3>1. transport' = SetState(t, "CLOSED") /\ t.state \in {"CLOSING", "FAILED"} /\ t.loop = <<>>
      BY <2>3, <1>2, <1>3, <1>9 DEF ShuttingDown
    <3>2. \A c : Waiting(t, c) = {}
      BY <3>1 DEF Waiting
    <3>3. /\ ~t.reading /\ t.writing = 0
          /\ t.kind \in {"unicast", "multicast"} => t.socket # "open"
      BY <2>3, <1>2, <1>3, <1>9 DEF InOrder, OthersInOrder
    <3>4. /\ InOrder(transport') /\ SameFace(t, transport') /\ transport'.fault = "none"
          /\ t.life = "listed" /\ transport'.state = "CLOSED" /\ transport'.life = "removed"
      BY <3>1, <3>2, <3>3, <1>2, ClosedFacts
    <3>5. Yields(t, transport')
      BY <3>1, <3>4 DEF Yields, MovesOn
    <3> QED
      BY <3>4, <3>5, <1>5, <1>9
  <2> QED
    BY <2>1, <2>2, <2>3
<1>10. CASE /\ h.call = "deallocate"
            /\ transport' = [AbortPending(t) EXCEPT !.life = "freed", !.socket = "closed", !.timer = Never]
            /\ lastUse' = lastUse
  <2>1. Yields(t, transport') /\ transport'.fault = "none"
    BY <1>2, <1>3, <1>10, DeallocationFacts
  <2> QED
    BY <2>1, <1>5, <1>10
<1> QED
  BY <1>4, <1>6, <1>7, <1>8, <1>9, <1>10

LEMMA ChannelReceivesStep ==
  ASSUME IInv, ChannelReceives
  PROVE  Good(transport, transport') /\ Noted(transport, transport')
<1>1. InOrder(transport) /\ transport.fault = "none" /\ transport.kind = "unicast"
      /\ transport.used \in BOOLEAN
  BY DEF IInv, Sound, InOrder, Transports, ChannelReceives, Running
<1>2. PICK wellFormed \in BOOLEAN :
        /\ transport' = ReceiveDatagram(transport, "ok", wellFormed)
        /\ IF wellFormed THEN Received(transport) ELSE lastUse' = lastUse
  BY DEF ChannelReceives
<1>3. /\ InOrder(transport') /\ MovesOn(transport, transport')
      /\ transport'.fault = transport.fault /\ transport'.kind = transport.kind
      /\ transport'.persistency = transport.persistency
      /\ (transport'.timer \in {transport.timer, Never} \/ transport.kind # "unicast")
      /\ transport'.used = (transport.used \/ wellFormed)
  BY <1>1, <1>2, ReceiveDatagramFacts
<1> QED
  BY <1>1, <1>2, <1>3 DEF Good, Noted, Received

\* A change of persistency never starts a timer: it never makes a face on-demand.
LEMMA ChangePersistencyStep ==
  ASSUME IInv, ChangePersistency
  PROVE  Good(transport, transport') /\ transport'.timer = Never
<1>1. InOrder(transport) /\ transport.fault = "none" /\ transport \in Transports
      /\ transport.persistency \in Persistencies
  BY DEF IInv, Sound, InOrder, Transports, ChangePersistency, Running
<1>2. PICK new \in Persistencies :
        TransitionAllowed(transport, new) /\ transport' = SetPersistency(transport, new)
  BY DEF ChangePersistency
<1>3. new # "on-demand"
  BY <1>2 DEF TransitionAllowed
<1>4. transport' = [transport EXCEPT !.timer = Never, !.expiration = Never, !.persistency = new]
  BY <1>1, <1>2, <1>3 DEF SetPersistency, BeforeChangePersistency, Transports
<1> DEFINE u == [transport EXCEPT !.timer = Never, !.expiration = Never, !.persistency = new]
<1>5. u \in Transports /\ SameOrder(transport, u) /\ u.timer = Never
  BY <1>1 DEF Transports, SameOrder, SameStage
<1> HIDE DEF u
<1>6. InOrder(u) /\ MovesOn(transport, u) /\ u.fault = "none"
  BY <1>1, <1>5, SameOrderFacts DEF SameOrder
<1>7. transport' = u
  BY <1>4 DEF u
<1> QED
  BY <1>5, <1>6, <1>7 DEF Good

LEMMA IdleTimerStep ==
  ASSUME IInv, IdleTimer
  PROVE  /\ Good(transport, transport')
         /\ TimerIsFair'
         /\ transport'.state # transport.state =>
              now >= lastUse + IdleTimeout /\ transport.persistency = "on-demand"
<1> DEFINE fired == [transport EXCEPT !.timer = Never]
<1>1. /\ InOrder(transport) /\ transport.fault = "none" /\ transport \in Transports
      /\ transport.kind = "unicast" /\ transport.timer \in Nat /\ transport.timer <= now
      /\ transport.timer # Never /\ transport.used \in BOOLEAN
  BY DEF IInv, Sound, InOrder, Transports, IdleTimer, Running
<1>2. transport.persistency = "on-demand" /\ (transport.used \/ lastUse + IdleTimeout <= transport.timer)
  BY <1>1 DEF IInv, TimerIsFair
<1>3. now \in Nat /\ lastUse \in Nat /\ lastUse <= now /\ IdleTimeout \in Nat /\ Never \notin Nat
  BY TransportAssumption, TransportsAssumption DEF IInv, TypeOK
<1>4. /\ fired \in Transports /\ SameOrder(transport, fired) /\ fired.timer = Never
      /\ fired.used = transport.used /\ fired.persistency = transport.persistency
  BY <1>1 DEF Transports, SameOrder, SameStage
<1>5. lastUse' = lastUse /\ transport' = IdleTimerFires(transport)
  BY DEF IdleTimer
<1>6. CASE transport.used
  <2> DEFINE u == [transport EXCEPT !.used = FALSE, !.timer = now + IdleTimeout,
                                    !.expiration = now + IdleTimeout]
  <2>1. transport' = u
    BY <1>1, <1>5, <1>6 DEF IdleTimerFires, ScheduleClosureWhenIdle, Transports
  <2>2. now + IdleTimeout \in Nat
    BY <1>3
  <2>3. /\ u \in Transports /\ SameOrder(transport, u) /\ u.timer = now + IdleTimeout
        /\ u.persistency = transport.persistency
    BY <1>1, <2>2 DEF Transports, SameOrder, SameStage
  <2> HIDE DEF u
  <2>4. InOrder(u) /\ MovesOn(transport, u)
    BY <1>1, <2>3, SameOrderFacts
  <2>5. Good(transport, transport') /\ transport'.state = transport.state
    BY <2>1, <2>3, <2>4, <1>1 DEF Good, SameOrder, SameStage
  <2>6. TimerIsFair'
    BY <2>1, <2>3, <1>2, <1>3, <1>5 DEF TimerIsFair
  <2> QED
    BY <2>5, <2>6
<1>7. CASE ~transport.used
  <2>1. now >= lastUse + IdleTimeout
    BY <1>1, <1>2, <1>3, <1>7
  <2>2. transport' = IF CanSend(fired) THEN DatagramDoClose(SetState(fired, "CLOSING")) ELSE fired
    BY <1>5, <1>7 DEF IdleTimerFires, CanSend
  <2> HIDE DEF fired
  <2>3. InOrder(fired) /\ MovesOn(transport, fired)
    BY <1>1, <1>4, SameOrderFacts
  <2>4. Good(transport, transport') /\ transport'.timer = Never
    <3>1. CASE ~CanSend(fired)
      BY <3>1, <2>2, <2>3, <1>1, <1>4 DEF Good, SameOrder
    <3>2. CASE CanSend(fired)
      <4> DEFINE v == SetState(fired, "CLOSING")
      <4>1. SameFace(fired, v)
        BY <3>2, <2>3, ShutFacts
      <4>2. transport' = DoClose(v)
        BY <3>2, <4>1, <2>2, <1>1, <1>4 DEF DoClose, SameFace, SameOrder
      <4>3. InOrder(transport') /\ SameFace(fired, transport') /\ MovesOn(fired, transport')
            /\ transport'.fault = fired.fault
        BY <3>2, <4>2, <2>3, DoCloseFacts
      <4> QED
        BY <4>3, <1>1, <1>4 DEF Good, MovesOn, SameFace, SameOrder, SameStage, CanSend
    <3> QED
      BY <3>1, <3>2
  <2> QED
    BY <2>1, <2>4, <1>2 DEF TimerIsFair
<1> QED
  BY <1>1, <1>6, <1>7

LEMMA PingTimerStep ==
  ASSUME IInv, PingTimer
  PROVE  Good(transport, transport') /\ SameFace(transport, transport')
<1>1. InOrder(transport) /\ transport.fault = "none" /\ transport.kind = "websocket" /\ now \in Nat
  BY TransportsAssumption DEF IInv, TypeOK, Sound, PingTimer, Running
<1>2. PICK pingOk \in BOOLEAN : transport' = SendPing(transport, pingOk)
  BY DEF PingTimer
<1> QED
  BY <1>1, <1>2, SendPingFacts DEF Yields, Good

LEMMA PongTimeoutStep ==
  ASSUME IInv, PongTimeout
  PROVE  Good(transport, transport') /\ SameFace(transport, transport')
<1>1. /\ InOrder(transport) /\ transport.fault = "none" /\ transport.kind = "websocket"
      /\ transport.life = "listed" /\ transport' = WebSocketFail(transport)
  BY DEF IInv, Sound, PongTimeout, Running, Listed, WebSocketPongTimeout
<1>2. CanSend(transport)
  BY <1>1, StillWorks DEF InOrder, ClosedIsRemoved, OthersInOrder, ShuttingDown
<1> QED
  BY <1>1, <1>2, WebSocketFailFacts DEF Yields, Good

LEMMA ClientSendsStep ==
  ASSUME IInv, ClientSends
  PROVE  Good(transport, transport') /\ SameFace(transport, transport')
<1>1. /\ InOrder(transport) /\ transport.fault = "none" /\ transport.kind = "internal"
      /\ transport.life = "listed" /\ transport' = Post(transport, "link", "ok")
  BY DEF IInv, Sound, ClientSends, Running, Listed, ClientSend
<1>2. CanSend(transport)
  BY <1>1, StillWorks DEF InOrder, ClosedIsRemoved, OthersInOrder, ShuttingDown
<1>3. [call |-> "link", outcome |-> "ok"] \in Handlers
  BY DEF Handlers
<1> QED
  BY <1>1, <1>2, <1>3, PostInOrder DEF Good, MovesOn

-----------------------------------------------------------------------------
(* Theorems *)

\* The flag and the timer agree also after a packet was noted.
LEMMA TimerStaysFair ==
  ASSUME IInv, Noted(transport, transport')
  PROVE  TimerIsFair'
<1>1. now \in Nat /\ lastUse \in Nat /\ IdleTimeout \in Nat
  BY TransportAssumption, TransportsAssumption DEF IInv, TypeOK
<1> QED
  BY <1>1 DEF IInv, TimerIsFair, Noted, SameFace

LEMMA ClockStep ==
  ASSUME IInv, [Next]_vars
  PROVE  /\ now' \in 0 .. MaxTime /\ lastUse' \in 0 .. now' /\ reads' \in 0 .. MaxReads
<1>1. now \in 0 .. MaxTime /\ lastUse \in 0 .. now /\ reads \in 0 .. MaxReads
      /\ MaxTime \in Nat /\ MaxReads \in Nat
  BY TransportsAssumption DEF IInv, TypeOK
<1>2. CASE now' = now /\ lastUse' \in {lastUse, now} /\ reads' \in {reads, reads + 1}
           /\ (reads' # reads => reads < MaxReads)
  BY <1>1, <1>2
<1>3. CASE Tick
  BY <1>1, <1>3 DEF Tick
<1>4. CASE ReadCompletes
  BY <1>2, <1>4 DEF ReadCompletes
<1>5. CASE RunHandler
  BY <1>2, <1>5 DEF RunHandler, RunReceive, RunSend, Received
<1>6. CASE ChannelReceives
  BY <1>2, <1>6 DEF ChannelReceives, Received
<1>7. CASE \/ CloseFace \/ Send \/ WriteCompletes \/ ChangePersistency \/ IdleTimer \/ PingTimer
           \/ PongTimeout \/ ClientSends \/ UNCHANGED vars
  BY <1>2, <1>7 DEF CloseFace, Send, WriteCompletes, ChangePersistency, IdleTimer, PingTimer,
                    PongTimeout, ClientSends, vars
<1> QED
  BY <1>3, <1>4, <1>5, <1>6, <1>7 DEF Next

\* Every step keeps the invariant and moves the face on as FaceLifecycle allows.
LEMMA Step ==
  ASSUME IInv, [Next]_vars
  PROVE  IInv' /\ MovesOn(transport, transport')
<1>1. ASSUME Good(transport, transport'), TimerIsFair'
      PROVE  IInv' /\ MovesOn(transport, transport')
  BY <1>1, ClockStep DEF Good, IInv, TypeOK, Sound, InOrder
<1>2. ASSUME Good(transport, transport'), SameFace(transport, transport'), lastUse' = lastUse
      PROVE  IInv' /\ MovesOn(transport, transport')
  BY <1>1, <1>2, TimerStaysFair DEF Noted
<1>3. CASE CloseFace
  BY <1>2, <1>3, CloseFaceStep DEF CloseFace
<1>4. CASE Send
  BY <1>2, <1>4, SendStep DEF Send
<1>5. CASE ReadCompletes
  BY <1>2, <1>5, ReadCompletesStep DEF ReadCompletes
<1>6. CASE WriteCompletes
  BY <1>2, <1>6, WriteCompletesStep DEF WriteCompletes
<1>7. CASE RunHandler
  BY <1>1, <1>7, RunHandlerStep, TimerStaysFair
<1>8. CASE ChannelReceives
  BY <1>1, <1>8, ChannelReceivesStep, TimerStaysFair
<1>9. CASE ChangePersistency
  BY <1>1, <1>9, ChangePersistencyStep DEF TimerIsFair
<1>10. CASE IdleTimer
  BY <1>1, <1>10, IdleTimerStep
<1>11. CASE PingTimer
  BY <1>2, <1>11, PingTimerStep DEF PingTimer
<1>12. CASE PongTimeout
  BY <1>2, <1>12, PongTimeoutStep DEF PongTimeout
<1>13. CASE ClientSends
  BY <1>2, <1>13, ClientSendsStep DEF ClientSends
<1>14. CASE Tick \/ UNCHANGED vars
  <2>1. transport' = transport /\ lastUse' = lastUse
    BY <1>14 DEF Tick, vars
  <2> QED
    BY <2>1, <1>2 DEF IInv, Sound, Good, MovesOn, SameStage, SameFace
<1> QED
  BY <1>3, <1>4, <1>5, <1>6, <1>7, <1>8, <1>9, <1>10, <1>11, <1>12, <1>13, <1>14 DEF Next

\* What all constructors agree on.
Fresh(u, kind) ==
  /\ u \in Transports /\ u.kind = kind
  /\ u.state = "UP" /\ u.life = "listed" /\ u.loop = <<>> /\ u.socket = "open"
  /\ u.reading => kind \notin {"internal", "websocket"}
  /\ u.writing = 0 /\ u.queue = 0 /\ u.used = FALSE /\ u.fault = "none"

LEMMA NewTransportFacts ==
  ASSUME NEW kind \in Kinds, NEW p \in Persistencies
  PROVE  LET u == NewTransport(kind, p)
         IN  Fresh(u, kind) /\ u.persistency = p /\ u.timer = Never
<1>1. <<>> \in Seq(Handlers) /\ 0 \in Nat /\ "UP" \in TransportStates
  BY DEF TransportStates
<1> HIDE DEF Handlers, TransportStates, Persistencies
<1>2. NewTransport(kind, p) \in Transports
  BY <1>1 DEF NewTransport, Transports
<1> QED
  BY <1>2 DEF NewTransport, Fresh

\* A new transport is in order.
LEMMA FreshIsSound ==
  ASSUME NEW u, NEW kind, Fresh(u, kind)
  PROVE  Sound(u)
<1>1. \A c : Waiting(u, c) = {}
  BY DEF Waiting, Fresh
<1> QED
  BY <1>1 DEF Fresh, Sound, InOrder, ClosedIsRemoved, OneDeallocation, StreamInOrder,
              OthersInOrder, CanSend, ShuttingDown

LEMMA Initially ==
  ASSUME Init
  PROVE  IInv /\ transport.state = "UP" /\ transport.life = "listed"
<1>1. PICK kind \in Kinds : transport \in Constructed(kind)
  BY DEF Init
<1>2. kind \in TransportKinds /\ IdleTimeout \in Nat
  BY TransportAssumption
<1>3. now = 0 /\ lastUse = 0 /\ reads = 0 /\ MaxTime \in Nat /\ MaxReads \in Nat
  BY TransportsAssumption DEF Init
<1>4. /\ Fresh(transport, kind)
      /\ kind = "unicast" /\ transport.timer # Never =>
           transport.persistency = "on-demand" /\ transport.timer = IdleTimeout
  <2>1. ASSUME NEW p \in Persistencies, kind \notin {"internal", "websocket"}
        PROVE  LET u == [NewTransport(kind, p) EXCEPT !.reading = TRUE]
               IN  Fresh(u, kind) /\ u.timer = Never /\ u.persistency = p
    <3> DEFINE t == NewTransport(kind, p)
               u == [t EXCEPT !.reading = TRUE]
    <3>1. Fresh(t, kind) /\ t.persistency = p /\ t.timer = Never
      BY NewTransportFacts
    <3> HIDE DEF t
    <3>2. u \in Transports /\ u.timer = Never /\ u.persistency = p
      BY <3>1 DEF Fresh, Transports
    <3>3. Fresh(u, kind)
      BY <2>1, <3>1, <3>2 DEF Fresh, Transports
    <3> QED
      BY <3>2, <3>3 DEF t
  <2>2. CASE \/ kind = "stream" \/ kind = "multicast" \/ kind = "ethernet"
    <3>1. PICK p \in Persistencies : transport = [NewTransport(kind, p) EXCEPT !.reading = TRUE]
      BY <2>2, <1>1 DEF Constructed, NewUnixStream, NewStream, NewMulticastUdp, NewDatagram,
                        NewEthernet, Persistencies
    <3> QED
      BY <3>1, <2>1, <2>2
  <2>3. CASE kind = "unicast"
    <3>1. PICK p \in Persistencies : transport = NewUnicastUdp(p)
      BY <2>3, <1>1 DEF Constructed
    <3> DEFINE t == [NewTransport(kind, p) EXCEPT !.reading = TRUE]
    <3>2. Fresh(t, kind) /\ t.timer = Never /\ t.persistency = p
      BY <2>1, <2>3
    <3>3. transport = IF p = "on-demand" /\ IdleTimeout > 0
                      THEN [t EXCEPT !.timer = IdleTimeout, !.expiration = IdleTimeout] ELSE t
      BY <2>3, <3>1 DEF NewUnicastUdp, NewDatagram
    <3> HIDE DEF t
    <3>4. CASE p = "on-demand" /\ IdleTimeout > 0
      <4> DEFINE u == [t EXCEPT !.timer = IdleTimeout, !.expiration = IdleTimeout]
      <4>1. u \in Transports /\ u.timer = IdleTimeout /\ u.persistency = "on-demand"
        BY <3>2, <3>4, <1>2 DEF Fresh, Transports
      <4>2. Fresh(u, kind)
        BY <3>2, <4>1 DEF Fresh, Transports
      <4> QED
        BY <3>3, <3>4, <4>1, <4>2
    <3>5. CASE ~(p = "on-demand" /\ IdleTimeout > 0)
      BY <3>2, <3>3, <3>5
    <3> QED
      BY <3>4, <3>5
  <2>4. CASE kind = "internal"
    <3>1. transport = NewTransport(kind, "permanent") /\ "permanent" \in Persistencies
      BY <2>4, <1>1 DEF Constructed, NewInternal, Persistencies
    <3> QED
      BY <3>1, <2>4, NewTransportFacts
  <2>5. CASE kind = "websocket"
    <3> DEFINE t == NewTransport(kind, "on-demand")
    <3>1. transport = [t EXCEPT !.timer = 1] /\ "on-demand" \in Persistencies
      BY <2>5, <1>1 DEF Constructed, NewWebSocket, Persistencies
    <3>2. Fresh(t, kind)
      BY <3>1, NewTransportFacts
    <3> HIDE DEF t
    <3> QED
      BY <3>1, <3>2, <2>5 DEF Fresh, Transports
  <2> QED
    BY <2>2, <2>3, <2>4, <2>5, <1>2 DEF TransportKinds
<1>5. Sound(transport) /\ transport.state = "UP" /\ transport.life = "listed"
      /\ transport.kind = kind
  BY <1>4, FreshIsSound DEF Fresh
<1>6. TypeOK
  <2>1. now \in 0 .. MaxTime /\ lastUse \in 0 .. now /\ reads \in 0 .. MaxReads
    BY <1>3
  <2> QED
    BY <2>1, <1>5 DEF TypeOK, Sound, InOrder
<1>7. TimerIsFair
  BY <1>2, <1>3, <1>4, <1>5 DEF TimerIsFair
<1> QED
  BY <1>5, <1>6, <1>7 DEF IInv

\* The invariant holds in every state of every transport.
THEOREM Invariance == Spec => []IInv
<1>1. Init => IInv
  BY Initially
<1>2. IInv /\ [Next]_vars => IInv'
  BY Step
<1> QED
  BY <1>1, <1>2, PTL DEF Spec

\* The state of a transport keeps its types.
THEOREM TypeCorrect == Spec => []TypeOK
<1>1. IInv => TypeOK
  BY DEF IInv
<1> QED
  BY <1>1, Invariance, PTL

\* In whatever order errors, close requests, timers and completions come, setState and the
\* assertion of handleSend do not fail, a stream has one write at a time, and no handler of
\* another transport runs after its deallocation.
THEOREM HandlersAreSafe == Spec => []HandlersRunSafely
<1>1. IInv => HandlersRunSafely
  <2> SUFFICES ASSUME IInv PROVE HandlersRunSafely
    OBVIOUS
  <2>1. NoFault
    BY DEF IInv, Sound, NoFault
  <2>2. OneWriteAtATime
    BY DEF IInv, Sound, InOrder, StreamInOrder, OneWriteAtATime
  <2>3. HandlersRunInTime
    BY DEF IInv, Sound, InOrder, ClosedIsRemoved, OthersInOrder, ShuttingDown, HandlersRunInTime
  <2> QED
    BY <2>1, <2>2, <2>3 DEF HandlersRunSafely
<1> QED
  BY <1>1, Invariance, PTL

\* The idle timer closes on-demand faces only, a whole timeout after their last packet.
THEOREM IdleTimerIsFair == Spec => OnlyIdleIsClosed
<1>1. IInv /\ [Next]_vars =>
        [IdleTimer /\ transport'.state # transport.state =>
           now >= lastUse + IdleTimeout /\ transport.persistency = "on-demand"]_vars
  BY IdleTimerStep
<1> QED
  BY <1>1, Invariance, PTL DEF Spec, OnlyIdleIsClosed

\* A transport goes through the documented states only, and its face leaves the face table
\* when it becomes CLOSED and is deallocated later.
THEOREM LifecycleIsImplemented == Spec => ImplementsLifecycle
<1>1. Init => Lifecycle!Init
  BY Initially DEF Lifecycle!Init
<1>2. IInv /\ [Next]_vars => [Lifecycle!Next]_(Lifecycle!lifecycleVars)
  <2> SUFFICES ASSUME IInv, [Next]_vars
               PROVE  [Lifecycle!Next]_(Lifecycle!lifecycleVars)
    OBVIOUS
  <2>1. MovesOn(transport, transport')
    BY Step
  <2>2. transport.state \in TransportStates
    BY DEF IInv, Sound, InOrder, Transports
  <2> QED
    BY <2>1, <2>2 DEF MovesOn, SameStage, CanSend, TransportStates, Lifecycle!Next,
       Lifecycle!lifecycleVars, Lifecycle!Shut, Lifecycle!Finish, Lifecycle!ShutAtOnce, Lifecycle!Free
<1> QED
  BY <1>1, <1>2, Invariance, PTL DEF Spec, ImplementsLifecycle, Lifecycle!Spec

===============================================================================
