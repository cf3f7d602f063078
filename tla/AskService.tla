------------------------------ MODULE AskService ------------------------------
(***************************************************************************)
(* The ndnShare application: the search page (SearchPage), the service it  *)
(* starts (ShareService, AskService) and the answers they share            *)
(* (MyApplication).  Three threads take part.                              *)
(*   - the main thread runs the page's handlers and the service's commands,*)
(*     one message of its queue after the other;                           *)
(*   - the network thread of the service asks what is flagged, and handles *)
(*     the events of its Face, in a loop that only an error ends;          *)
(*   - the poller of the page waits in a loop for a published answer.      *)
(* The flags and words are plain fields, so each access is a step.  A Java *)
(* thread cannot be started twice: start() throws, which ends the program. *)
(*                                                                         *)
(* Android and jNDN are external: an Intent for the service is a message   *)
(* of the main thread, and so is its destruction after stopSelf(); an      *)
(* Interest is answered, times out or fails at any moment.                 *)
(***************************************************************************)
EXTENDS Naturals, Sequences, FiniteSets, SequencesExt

CONSTANTS
  Words,       \* the words a user may search for, which are file names too
  Found,       \* those of them that some node has files for
  Nothing,     \* null
  MaxSearches, \* bound: searches and downloads
  MaxErrors    \* bound: errors of the Face

Kinds == {"exact", "fuzzy", "file"}

ASSUME AskAssumption == Found \subseteq Words /\ Nothing \notin Words \cup Kinds

\* askExactFileList and askFuzzyFileList take their word from the same field.
Field(kind) == IF kind = "file" THEN "extraFilePrefix" ELSE "extraFileListPrefix"

VARIABLES
  queue,      \* the messages of the main thread
  command,    \* the command whose fields the main thread has still to write
  service,    \* the service exists
  flags,      \* the kinds for which ask... = true
  words,      \* what the fields with the words hold
  thread,     \* where the network thread is
  former,     \* network threads of destroyed services that have still to broadcast an error
  shouldStop, \* networkThreadShouldStop of the service
  raised,     \* raisedErrorCode is set
  face,       \* the Face is open
  asked,      \* the Interests that are pending at the Face
  published,  \* returnlist of MyApplication
  page,       \* the search page, see NewPage
  crashed,    \* the start() that threw
  owed,       \* history: the requests made that were not expressed since
  excused,    \* history: those of them whose word a later request replaced, or that were
              \* made while the last one of their kind was being expressed
  overlap,    \* history: a search was made, or the page renewed, while one was under way
  searches, errors

serviceVars ==
  <<command, service, flags, words, thread, former, shouldStop, raised, face, asked>>
history == <<owed, excused, overlap>>
vars == <<queue, serviceVars, published, page, crashed, history, searches, errors>>

\* list is returnlist of the page, text its last search and shows the list it shows.
NewPage ==
  [list |-> Nothing, poller |-> "new", stop |-> FALSE,
   text |-> Nothing, shows |-> Nothing, clicked |-> Nothing]

Request(kind, word) == [kind |-> kind, word |-> word]

Requests == [kind : Kinds, word : Words \cup {Nothing}]

Messages == [is : {"start"}, request : Requests] \cup [is : {"destroy", "error", "list"}]

\* where the network thread is between an Interest and the reset of its flag
Sent == [exact |-> "exact sent", fuzzy |-> "fuzzy sent", file |-> "file sent"]

\* The network thread has told the service to stop, or was not to.
Stopped == {"broadcast", "ending", "dead"}

Places == Kinds \cup {Sent[kind] : kind \in Kinds} \cup {"events", "cleanup", "report"} \cup Stopped

TypeOK ==
  /\ queue \in Seq(Messages)
  /\ command \in Requests \cup {Nothing}
  /\ {service, shouldStop, raised, face, overlap} \subseteq BOOLEAN
  /\ flags \subseteq Kinds /\ owed \subseteq Requests /\ excused \subseteq Requests
  /\ words \in [{"extraFilePrefix", "extraFileListPrefix"} -> Words \cup {Nothing}]
  /\ thread \in Places /\ former \in Nat
  /\ asked \subseteq Requests
  /\ published \in Words \cup {Nothing}
  /\ crashed \in {"none", "service", "poller"}

\* The activity was created, and the service it starts.
Init ==
  /\ queue = <<>> /\ command = Nothing
  /\ service = TRUE /\ flags = {} /\ words = [f \in {Field(k) : k \in Kinds} |-> Nothing]
  /\ thread = "exact" /\ former = 0 /\ shouldStop = FALSE /\ raised = FALSE /\ face = TRUE /\ asked = {}
  /\ published = Nothing /\ page = NewPage /\ crashed = "none"
  /\ owed = {} /\ excused = {} /\ overlap = FALSE
  /\ searches = 0 /\ errors = 0

IsAlive == thread # "dead"

MainIsIdle == crashed = "none" /\ command = Nothing /\ page.clicked = Nothing

----------------------------------------------------------------------------
\* The page, on the main thread.

Post(request) == Append(queue, [is |-> "start", request |-> request])

\* Mutant: what was published for an earlier search stays.
KeepPublished == published

\* setReturnlist(null)
ClearPublished == Nothing

\* onClick of a choice, up to the message to the service; between the two steps the
\* poller may read what is published.
Click(kind, word) ==
  /\ MainIsIdle
  /\ searches < MaxSearches
  /\ searches' = searches + 1
  /\ page' = [page EXCEPT !.list = Nothing, !.text = word, !.shows = Nothing, !.clicked = kind]
  /\ overlap' = (overlap \/ page.poller = "polling")
  /\ UNCHANGED <<queue, serviceVars, published, crashed, owed, excused, errors>>

\* ... and then startNetworkThread of the page
StartPoller ==
  /\ page.clicked # Nothing
  /\ published' = ClearPublished
  /\ queue' = Post(Request(page.clicked, page.text))
  /\ page' = [page EXCEPT !.clicked = Nothing,
                          !.stop = IF @ /\ page.poller # "polling" THEN FALSE ELSE @,
                          !.poller = IF @ = "new" THEN "polling" ELSE @]
  /\ crashed' = IF page.poller = "ended" THEN "poller" ELSE crashed
  /\ UNCHANGED <<serviceVars, history, searches, errors>>

\* onItemClick: the download of a file of the list
Download(word) ==
  /\ MainIsIdle
  /\ page.shows = word
  /\ searches < MaxSearches
  /\ searches' = searches + 1
  /\ queue' = Post(Request("file", word))
  /\ UNCHANGED <<serviceVars, published, page, crashed, history, errors>>

Take(message) ==
  /\ MainIsIdle
  /\ queue # <<>>
  /\ Head(queue).is = message
  /\ queue' = Tail(queue)

\* handleMessage: no list is shown when it is empty, or a click has taken it away
ShowList ==
  /\ Take("list")
  /\ page' = [page EXCEPT !.shows = IF page.list \in Found THEN page.list ELSE Nothing]
  /\ UNCHANGED <<serviceVars, published, crashed, history, searches, errors>>

OpenMessage(messages) == Append(messages, [is |-> "list"])

\* onActivityCreated, each time the user comes back to the page
OpenPage ==
  /\ MainIsIdle
  /\ [is |-> "list"] \notin Range(queue) \* bound: messages of the page at a time
  /\ page' = [page EXCEPT !.list = published]
  /\ queue' = OpenMessage(queue)
  /\ UNCHANGED <<serviceVars, published, crashed, history, searches, errors>>

\* The messages that are not for the page
NotForPage(messages) ==
  LET rest[n \in 0 .. Len(messages)] ==
        IF n = 0 THEN <<>>
        ELSE IF messages[n].is = "list" THEN rest[n - 1] ELSE Append(rest[n - 1], messages[n])
  IN  rest[Len(messages)]

\* handleError of the activity makes a new page, and opens it.  The poller of the old
\* one goes on, for nothing.  If there is a service, it is one a later search created.
RenewPage ==
  /\ MainIsIdle
  /\ queue # <<>> /\ Head(queue).is = "error"
  /\ page' = [NewPage EXCEPT !.list = published]
  /\ queue' = OpenMessage(NotForPage(Tail(queue)))
  /\ overlap' = (service \/ \E i \in DOMAIN queue : queue[i].is = "start")
  /\ UNCHANGED <<serviceVars, published, crashed, owed, excused, searches, errors>>

----------------------------------------------------------------------------
\* The poller.

Polls ==
  /\ page.poller = "polling" /\ ~page.stop
  /\ published # Nothing
  /\ page' = [page EXCEPT !.list = published, !.stop = TRUE]
  /\ queue' = OpenMessage(queue)
  /\ UNCHANGED <<serviceVars, published, crashed, history, searches, errors>>

PollerEnds ==
  /\ page.poller = "polling" /\ page.stop
  /\ page' = [page EXCEPT !.poller = "ended"]
  /\ UNCHANGED <<queue, serviceVars, published, crashed, history, searches, errors>>

----------------------------------------------------------------------------
\* The commands of the service, on the main thread.

\* initializeServiceIfNeeded: a thread that has ended cannot be started again.
\* The loop of stopNetworkThreadAndBlockUntilDone ends at once.
InitializeIfNeeded ==
  IF IsAlive THEN UNCHANGED <<shouldStop, face, flags, crashed>>
  ELSE face' = TRUE /\ flags' = {} /\ shouldStop' = FALSE /\ crashed' = "service"

\* startService: onCreate when there is no service, which starts the thread, ...
CreateService ==
  /\ MainIsIdle /\ ~service
  /\ queue # <<>> /\ Head(queue).is = "start"
  /\ service' = TRUE
  /\ words' = [f \in DOMAIN words |-> Nothing]
  /\ raised' = FALSE /\ shouldStop' = FALSE /\ flags' = {}
  /\ face' = TRUE /\ thread' = "exact" /\ asked' = {}
  /\ former' = IF thread = "broadcast" THEN former + 1 ELSE former
  /\ owed' = {} /\ excused' = {}
  /\ UNCHANGED <<queue, command, published, page, crashed, overlap, searches, errors>>

\* ... then onStartCommand, up to the fields it writes
StartCommand ==
  /\ service
  /\ Take("start")
  /\ command' = Head(queue).request
  /\ InitializeIfNeeded
  /\ UNCHANGED <<service, words, thread, former, raised, asked, published, page, history,
                 searches, errors>>

\* The word is written before the flag.  Neither is volatile.  A search for which the flag is
\* still set will be made for this word, too, and not for its own.
WriteWord ==
  /\ crashed = "none" /\ command # Nothing
  /\ words[Field(command.kind)] # command.word
  /\ words' = [words EXCEPT ![Field(command.kind)] = command.word]
  /\ excused' = excused \cup {r \in owed : Field(r.kind) = Field(command.kind)}
  /\ UNCHANGED <<queue, command, service, flags, thread, former, shouldStop, raised, face, asked,
                 published, page, crashed, owed, overlap, searches, errors>>

WriteFlag ==
  /\ crashed = "none" /\ command # Nothing
  /\ words[Field(command.kind)] = command.word
  /\ flags' = flags \cup {command.kind}
  /\ owed' = owed \cup {command}
  /\ excused' = IF thread = Sent[command.kind] THEN excused \cup {command}
                ELSE excused \ {command}
  /\ command' = Nothing
  /\ UNCHANGED <<queue, service, words, thread, former, shouldStop, raised, face, asked,
                 published, page, crashed, overlap, searches, errors>>

DestroyService ==
  /\ Take("destroy")
  /\ service' = FALSE
  /\ UNCHANGED <<command, flags, words, thread, former, shouldStop, raised, face, asked,
                 published, page, crashed, history, searches, errors>>

----------------------------------------------------------------------------
\* The network thread.

After(place) ==
  CASE place \in {"exact", "exact sent"} -> "fuzzy"
    [] place \in {"fuzzy", "fuzzy sent"} -> "file"
    [] place \in {"file", "file sent"} -> "events"

RaiseError == raised' = TRUE /\ shouldStop' = TRUE /\ UNCHANGED face

Runs(place) == crashed = "none" /\ thread = place

FaceFails == errors < MaxErrors /\ errors' = errors + 1 /\ RaiseError

FaceWorks == UNCHANGED <<raised, shouldStop, face, errors>>

\* ask...IfNeeded, up to the reset of the flag
Ask(kind) ==
  /\ Runs(kind)
  /\ thread' = IF kind \in flags THEN Sent[kind] ELSE After(kind)
  /\ LET request == Request(kind, words[Field(kind)]) IN
     IF kind \notin flags THEN FaceWorks /\ UNCHANGED <<asked, owed, excused>>
     ELSE /\ owed' = owed \ {request} /\ excused' = excused \ {request}
          /\ \/ FaceWorks /\ asked' = asked \cup {request}
             \/ FaceFails /\ UNCHANGED asked
  /\ UNCHANGED <<queue, command, service, flags, words, former, published, page, crashed,
                 overlap, searches>>

\* Mutant: the flags that share a word are reset together.
FlagsSharing(kind) == {k \in Kinds : Field(k) = Field(kind)}

FlagsOf(kind) == {kind}

ResetFlag(kind) ==
  /\ Runs(Sent[kind])
  /\ flags' = flags \ FlagsOf(kind)
  /\ thread' = After(thread)
  /\ UNCHANGED <<queue, command, service, words, former, shouldStop, raised, face, asked,
                 published, page, crashed, history, searches, errors>>

\* OnReceivedAskData publishes what comes, whatever was asked for since; a file is
\* stored; a timeout or a Nack is only logged.
ReceiveAnswer(request) ==
  /\ Runs("events")
  /\ request \in asked
  /\ asked' = asked \ {request}
  /\ published' = IF request.kind = "file" THEN published ELSE request.word
  /\ UNCHANGED <<queue, command, service, flags, words, thread, former, shouldStop, raised, face,
                 page, crashed, history, searches, errors>>

LoseInterest(request) ==
  /\ Runs("events")
  /\ request \in asked
  /\ asked' = asked \ {request}
  /\ UNCHANGED <<queue, command, service, flags, words, thread, former, shouldStop, raised, face,
                 published, page, crashed, history, searches, errors>>

\* The end of processEvents, by an exception perhaps, and the test of the loop
ProcessEvents ==
  /\ Runs("events")
  /\ FaceWorks \/ FaceFails
  /\ thread' = IF shouldStop' THEN "cleanup" ELSE "exact"
  /\ UNCHANGED <<queue, command, service, flags, words, former, asked, published, page, crashed,
                 history, searches>>

FinalCleanup ==
  /\ Runs("cleanup")
  /\ face' = FALSE /\ asked' = {}
  /\ thread' = "report"
  /\ UNCHANGED <<queue, command, service, flags, words, former, shouldStop, raised, published,
                 page, crashed, history, searches, errors>>

\* Mutant: the service is not told to stop.
TellNobody == UNCHANGED queue

TellService == queue' = Append(queue, [is |-> "destroy"])

\* handleAnyRaisedError, up to stopSelf
HandleRaisedError ==
  /\ Runs("report")
  /\ IF raised THEN TellService /\ thread' = "broadcast"
     ELSE UNCHANGED queue /\ thread' = "ending"
  /\ UNCHANGED <<command, service, flags, words, former, shouldStop, raised, face, asked,
                 published, page, crashed, history, searches, errors>>

\* ... its sendBroadcast, by which time the service may be gone, ...
SendBroadcast ==
  /\ crashed = "none"
  /\ \/ thread = "broadcast" /\ thread' = "ending" /\ UNCHANGED former
     \/ former > 0 /\ former' = former - 1 /\ UNCHANGED thread
  /\ queue' = Append(queue, [is |-> "error"])
  /\ UNCHANGED <<command, service, flags, words, shouldStop, raised, face, asked,
                 published, page, crashed, history, searches, errors>>

\* ... and the end of the thread
ThreadEnds ==
  /\ Runs("ending")
  /\ thread' = "dead"
  /\ UNCHANGED <<queue, command, service, flags, words, former, shouldStop, raised, face, asked,
                 published, page, crashed, history, searches, errors>>

----------------------------------------------------------------------------
Next ==
  \/ \E kind \in {"exact", "fuzzy"}, word \in Words : Click(kind, word)
  \/ StartPoller
  \/ \E word \in Words : Download(word)
  \/ ShowList
  \/ OpenPage
  \/ RenewPage
  \/ Polls
  \/ PollerEnds
  \/ CreateService
  \/ StartCommand
  \/ WriteWord
  \/ WriteFlag
  \/ DestroyService
  \/ \E kind \in Kinds : Ask(kind) \/ ResetFlag(kind)
  \/ \E request \in asked : ReceiveAnswer(request) \/ LoseInterest(request)
  \/ ProcessEvents
  \/ FinalCleanup
  \/ HandleRaisedError
  \/ SendBroadcast
  \/ ThreadEnds

Spec == Init /\ [][Next]_vars

----------------------------------------------------------------------------
\* A service whose thread has ended is on its way out, so only a command that was on
\* its way before can find the thread ended, and start it again in vain.
\* (handleAnyRaisedError, startNetworkThread)
DeadServiceIsDestroyed ==
  service /\ thread = "dead" =>
    \E i \in DOMAIN queue : queue[i].is = "destroy"

\* A request waits with its flag and its own word until the network thread expresses it.  It
\* is lost only when its thread ends, when it is made while the thread is between expressing an
\* earlier one of its kind and resetting their flag, or when a later request overwrites the
\* word, which an exact and a fuzzy search share: then the later word is asked for instead.
\* (askExactFileListIfNeeded, askExactFileList of ShareService)
LoneRequestIsKept ==
  \A r \in owed \ excused :
    \/ r.kind \in flags /\ words[Field(r.kind)] = r.word
    \/ thread \in {"cleanup", "report"} \cup Stopped

\* The list shown is the one for the last search of the page, unless that search was
\* made while one before it was under way: nothing relates an answer to its request.
\* (OnReceivedAskData, SearchPage)
ShownListIsOfSearch ==
  page.shows # Nothing /\ page.text # Nothing /\ ~overlap => page.shows = page.text
=============================================================================
