------------------------------ MODULE NfdRunner ------------------------------
(***************************************************************************)
(* NfdRunner of main.cpp: the forwarder runs in the main thread, the RIB   *)
(* manager in a second one, each with an io_service of its own.  When one  *)
(* of them fails or is told to stop, it stops the other: the RIB thread    *)
(* stops mainIo, the main thread stops the io_service that ribIo points    *)
(* to, and joins.                                                          *)
(*                                                                         *)
(* Each block under the mutex m is one step, since nothing in it blocks    *)
(* but the wait on the condition variable cv, which gives the mutex back.  *)
(* io_service::stop() is remembered: a run() that comes later returns at   *)
(* once.  What fails inside the RIB service is external.                   *)
(***************************************************************************)
EXTENDS Naturals

VARIABLES
    mainAt,       \* where the main thread is in NfdRunner::run
    ribAt,        \* where the RIB thread is in its function
    ribIo,        \* the pointer ribIo is not null
    mainStopped,  \* mainIo->stop() was called
    ribStopped,   \* ribIo->stop() was called
    retval        \* what run() will return

vars == <<mainAt, ribAt, ribIo, mainStopped, ribStopped, retval>>

MainPlaces == {"wait", "asleep", "running", "finish", "join", "done"}
RibPlaces == {"assign", "notify", "initialize", "running", "fail", "clear", "done"}

TypeOK ==
    /\ mainAt \in MainPlaces
    /\ ribAt \in RibPlaces
    /\ ribIo \in BOOLEAN
    /\ mainStopped \in BOOLEAN
    /\ ribStopped \in BOOLEAN
    /\ retval \in {0, 4, 6}

\* The RIB thread was created, and neither thread has taken the mutex.
Init ==
    /\ mainAt = "wait"
    /\ ribAt = "assign"
    /\ ribIo = FALSE
    /\ mainStopped = FALSE
    /\ ribStopped = FALSE
    /\ retval = 0

----------------------------------------------------------------------------
\* The RIB thread.

RibAssigns ==
    /\ ribAt = "assign"
    /\ ribIo' = TRUE
    /\ ribAt' = "notify"
    /\ UNCHANGED <<mainAt, mainStopped, ribStopped, retval>>

\* A sleeping main thread wakes up and evaluates the predicate again, when
\* it gets the mutex.
RibNotifies ==
    /\ ribAt = "notify"
    /\ ribAt' = "initialize"
    /\ mainAt' = IF mainAt = "asleep" THEN "wait" ELSE mainAt
    /\ UNCHANGED <<ribIo, mainStopped, ribStopped, retval>>

RibInitialized ==
    /\ ribAt = "initialize"
    /\ ribAt' = "running"
    /\ UNCHANGED <<mainAt, ribIo, mainStopped, ribStopped, retval>>

\* The service throws, while it is made or while it runs.
RibThrows ==
    /\ ribAt \in {"initialize", "running"}
    /\ ribAt' = "fail"
    /\ retval' = 6
    /\ UNCHANGED <<mainAt, ribIo, mainStopped, ribStopped>>

RibStopsMain ==
    /\ ribAt = "fail"
    /\ mainStopped' = TRUE
    /\ ribAt' = "clear"
    /\ UNCHANGED <<mainAt, ribIo, ribStopped, retval>>

RibIsStopped ==
    /\ ribAt = "running"
    /\ ribStopped
    /\ ribAt' = "clear"
    /\ UNCHANGED <<mainAt, ribIo, mainStopped, ribStopped, retval>>

RibClears ==
    /\ ribAt = "clear"
    /\ ribIo' = FALSE
    /\ ribAt' = "done"
    /\ UNCHANGED <<mainAt, mainStopped, ribStopped, retval>>

----------------------------------------------------------------------------
\* The main thread.

MainWaits ==
    /\ mainAt = "wait"
    /\ mainAt' = IF ribIo THEN "running" ELSE "asleep"
    /\ UNCHANGED <<ribAt, ribIo, mainStopped, ribStopped, retval>>

\* A condition variable may wake its thread for no reason.
SpuriousWakeup ==
    /\ mainAt = "asleep"
    /\ mainAt' = "wait"
    /\ UNCHANGED <<ribAt, ribIo, mainStopped, ribStopped, retval>>

\* SIGINT or SIGTERM is handled by mainIo, like everything of the forwarder.
Terminate ==
    /\ mainAt = "running"
    /\ ~mainStopped
    /\ mainStopped' = TRUE
    /\ UNCHANGED <<mainAt, ribAt, ribIo, ribStopped, retval>>

MainIsStopped ==
    /\ mainAt = "running"
    /\ mainStopped
    /\ mainAt' = "finish"
    /\ UNCHANGED <<ribAt, ribIo, mainStopped, ribStopped, retval>>

\* A handler of the forwarder throws: a reload of a bad configuration, for one.
MainThrows ==
    /\ mainAt = "running"
    /\ ~mainStopped
    /\ retval' = 4
    /\ mainAt' = "finish"
    /\ UNCHANGED <<ribAt, ribIo, mainStopped, ribStopped>>

MainStopsRib ==
    /\ mainAt = "finish"
    /\ ribStopped' = (ribStopped \/ ribIo)
    /\ ribIo' = FALSE
    /\ mainAt' = "join"
    /\ UNCHANGED <<ribAt, mainStopped, retval>>

MainJoins ==
    /\ mainAt = "join"
    /\ ribAt = "done"
    /\ mainAt' = "done"
    /\ UNCHANGED <<ribAt, ribIo, mainStopped, ribStopped, retval>>

----------------------------------------------------------------------------
RibStep ==
    RibAssigns \/ RibNotifies \/ RibInitialized \/ RibStopsMain \/ RibIsStopped \/ RibClears

MainStep == MainWaits \/ MainIsStopped \/ MainStopsRib \/ MainJoins

Next == RibStep \/ MainStep \/ RibThrows \/ MainThrows \/ Terminate \/ SpuriousWakeup

Spec == Init /\ [][Next]_vars

\* The system schedules both threads.  Nothing has to fail, to be told to stop
\* or to wake up for no reason.
FairSpec == Spec /\ WF_vars(RibStep) /\ WF_vars(MainStep)

----------------------------------------------------------------------------
\* "When either of the daemons fails, execution of non-failed daemon will be
\* terminated as well": once one of the threads has failed, both end.
FailureTerminatesBoth ==
    (retval # 0) ~> (mainAt = "done" /\ ribAt = "done")

\* The comment on the use of ribIo: what it points to belongs to a thread that
\* has not ended, so stopping it touches a live io_service.
RibIoIsAlive == ribIo => ribAt # "done"

\* Once a thread was joined, nothing of the other runs: run() may return.
ReturnsLast == mainAt = "done" => ribAt = "done"
=============================================================================
