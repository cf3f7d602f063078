---------------------------- MODULE StreamTransport ----------------------------
(***************************************************************************)
(* TCP and Unix stream transports (face/stream-transport.hpp): a queue of  *)
(* packets of which one at a time is written, a receive operation that is  *)
(* started again by its own handler, and a close that is completed by a    *)
(* handler posted for that purpose.                                        *)
(***************************************************************************)
EXTENDS Transport

CONSTANT
  ReadsAfterShutdown  \* the platform hands out data that arrived before the shutdown (BOOLEAN)

\* the constructors
NewStream(persistency) == [NewTransport("stream", persistency) EXCEPT !.reading = TRUE]
NewUnixStream == NewStream("on-demand")

\* mutant of StreamDoClose: the queue is cleared at once, before pending handlers ran
ClearQueueAtOnce(t) ==
  Post([AbortPending(t) EXCEPT !.socket = "shut", !.queue = 0], "deferredClose", "ok")

\* doClose
StreamDoClose(t) ==
  Post(IF t.socket = "closed" THEN t ELSE [AbortPending(t) EXCEPT !.socket = "shut"],
       "deferredClose", "ok")

DeferredClose(t) ==
  SetState([AbortPending([t EXCEPT !.queue = 0]) EXCEPT !.socket = "closed"], "CLOSED")

StreamFail(t) == StreamDoClose(SetState(t, "FAILED"))

\* processErrorCode
StreamError(t, error) ==
  IF ShuttingDown(t) \/ error = "aborted" THEN t ELSE StreamFail(t)

\* doSend
StreamDoSend(t) ==
  LET pushed == [t EXCEPT !.queue = @ + 1]
  IN  IF t.queue = 0 THEN StartSend(pushed) ELSE pushed

\* handleSend
StreamHandleSend(t, outcome) ==
  IF outcome # "ok" THEN StreamError(t, outcome)
  ELSE IF t.queue = 0 THEN [t EXCEPT !.fault = "empty queue"]
  ELSE LET popped == [t EXCEPT !.queue = @ - 1]
       IN  IF popped.queue > 0 THEN StartSend(popped) ELSE popped

\* A full buffer does not start with a packet. This path has no check of the state; an
\* exception is told apart from those of the other paths.
StreamOversized(t) ==
  LET failed == StreamFail(t)
  IN  IF failed.fault = "none" THEN failed ELSE [failed EXCEPT !.fault = "oversized packet"]

\* handleReceive
StreamHandleReceive(t, outcome, parsed) ==
  IF outcome # "ok" THEN StreamError(t, outcome)
  ELSE IF ~parsed THEN StreamOversized(t)
  ELSE StartReceive(t)

\* The socket completes the pending operations. A socket that was shut down sends
\* nothing more, and tells the end of the stream once no data is left.
StreamReadOutcomes(t) ==
  IF t.socket = "open" THEN {"ok", "eof", "error"}
  ELSE IF ReadsAfterShutdown THEN {"ok", "eof"} ELSE {"eof"}
StreamWriteOutcomes(t) == IF t.socket = "open" THEN {"ok", "error"} ELSE {"error"}

===============================================================================
