--------------------------- MODULE ServerLifecycle ---------------------------
(***************************************************************************)
(* Starting, iterating, stopping and destroying an opcua::Server, as the   *)
(* threads of an application do it: Server::run, Server::runIterate,       *)
(* Server::stop and ~Server (src/server.cpp), with the two mutexes, the    *)
(* atomic flag `running`, the flag `stopRequested` and the exception slot  *)
(* of detail::ServerContext.  The C server below is external: all that is  *)
(* kept of it is whether it is started, and that its three lifecycle calls *)
(* have a begin and an end, so that two of them can overlap.               *)
(* An operator named Bug... is a wrong version of the one that follows it; *)
(* no specification uses it, it shows that a property can be violated.     *)
(***************************************************************************)
EXTENDS Naturals

CONSTANTS
    Threads,         \* the application's threads
    NoThread,        \* the owner of a free mutex
    Rules,           \* the rules of use that the application keeps to
    Faulty           \* TRUE: callbacks may throw and native calls may fail

(***************************************************************************)
(* The code states no rules of use.  These are the ones that the           *)
(* properties below turn out to need; a run that leaves one out shows why. *)
(***************************************************************************)
AllRules == {"one driver",      \* no run or runIterate while another is in progress
             "await stop",      \* no run or runIterate while a stop is in progress
             "run stopped",     \* no run on a server that runIterate has started
             "await iterate",   \* no stop while a runIterate is in progress
             "inner stop late"} \* a callback calls stop only when run has been stopped already

ASSUME NoThreadAssumption == NoThread \notin Threads
ASSUME RulesAssumption == Rules \subseteq AllRules
ASSUME FaultyAssumption == Faulty \in BOOLEAN

VARIABLES
    pc,             \* where each thread is
    op,             \* the driving call a thread is in: "run", "runIterate" or "none"
    mutexStartup,   \* ServerContext::mutexStartup, its owner
    mutexRun,       \* ServerContext::mutexRun, its owner
    running,        \* ServerContext::running
    stopRequested,  \* ServerContext::stopRequested
    pending,        \* ExceptionCatcher::exception_ is set
    native,         \* external: the UA_Server's lifecycle state
    faulted         \* history: run() threw, or a shutdown failed, since the last shutdown

locks == <<mutexStartup, mutexRun>>
flags == <<running, stopRequested>>
vars == <<pc, op, locks, flags, pending, native, faulted>>

Labels == {"idle",
           "startup",   \* runStartup: waits for mutexStartup
           "starting",  \* inside UA_Server_run_startup, holds mutexStartup
           "started",   \* back from runStartup, about to read running
           "enter",     \* run: waits for mutexRun
           "loop",      \* run: at the loop's condition
           "iterating", \* inside UA_Server_run_iterate
           "iterated",  \* at exceptionCatcher.rethrow()
           "unwind",    \* run: leaves by an exception, still holds mutexRun
           "stop",      \* stop: waits for mutexStartup
           "stopping",  \* stop: has cleared running, waits for mutexRun
           "shutdown",  \* inside UA_Server_run_shutdown, holds mutexRun
           "closing",   \* ~Server: inside UA_Server_run_shutdown
           "closed"}    \* ~Server: about to call UA_Server_delete

TypeOK ==
    /\ pc \in [Threads -> Labels]
    /\ op \in [Threads -> {"none", "run", "runIterate"}]
    /\ mutexStartup \in Threads \cup {NoThread}
    /\ mutexRun \in Threads \cup {NoThread}
    /\ running \in BOOLEAN
    /\ stopRequested \in BOOLEAN
    /\ pending \in BOOLEAN
    /\ native \in {"fresh", "started", "stopped", "deleted"}
    /\ faulted \in BOOLEAN

Init ==
    /\ pc = [t \in Threads |-> "idle"]
    /\ op = [t \in Threads |-> "none"]
    /\ mutexStartup = NoThread
    /\ mutexRun = NoThread
    /\ running = FALSE
    /\ stopRequested = FALSE
    /\ pending = FALSE
    /\ native = "fresh"
    /\ faulted = FALSE

Goto(t, label) == pc' = [pc EXCEPT ![t] = label]
Return(t) == Goto(t, "idle") /\ op' = [op EXCEPT ![t] = "none"]

(***************************************************************************)
(* The application.  An object is used only while it lives: no call starts *)
(* once ~Server has begun, and ~Server begins when no call is in progress. *)
(***************************************************************************)
Alive == native # "deleted" /\ \A t \in Threads : pc[t] \notin {"closing", "closed"}
Quiet == \A t \in Threads : pc[t] = "idle"
Stopping(t) == pc[t] \in {"stop", "stopping", "shutdown"}

MayDrive ==
    /\ "one driver" \in Rules => \A t \in Threads : op[t] = "none"
    /\ "await stop" \in Rules => \A t \in Threads : ~Stopping(t)
MayStop == "await iterate" \in Rules => \A t \in Threads : op[t] # "runIterate"

CallRun(t) ==
    /\ pc[t] = "idle" /\ Alive /\ MayDrive
    /\ "run stopped" \in Rules => ~running
    /\ Goto(t, "startup")
    /\ op' = [op EXCEPT ![t] = "run"]
    /\ UNCHANGED <<locks, flags, pending, native, faulted>>

\* The first read of `running` in runIterate decides whether it starts the server.
CallRunIterate(t) ==
    /\ pc[t] = "idle" /\ Alive /\ MayDrive
    /\ Goto(t, IF running THEN "started" ELSE "startup")
    /\ op' = [op EXCEPT ![t] = "runIterate"]
    /\ UNCHANGED <<locks, flags, pending, native, faulted>>

CallStop(t) ==
    /\ pc[t] = "idle" /\ Alive /\ MayStop
    /\ Goto(t, "stop")
    /\ UNCHANGED <<op, locks, flags, pending, native, faulted>>

(***************************************************************************)
(* runStartup, under mutexStartup.                                         *)
(***************************************************************************)
BugMustNotStart == running  \* forgets a stop that came first
MustNotStart == running \/ stopRequested

StartupSkip(t) ==
    /\ pc[t] = "startup" /\ mutexStartup = NoThread
    /\ MustNotStart
    /\ stopRequested' = FALSE
    /\ Goto(t, "started")
    /\ UNCHANGED <<op, locks, running, pending, native, faulted>>

StartupBegin(t) ==
    /\ pc[t] = "startup" /\ mutexStartup = NoThread
    /\ ~MustNotStart
    /\ mutexStartup' = t
    /\ Goto(t, "starting")
    /\ UNCHANGED <<op, mutexRun, flags, pending, native, faulted>>

StartupEnd(t) ==
    /\ pc[t] = "starting"
    /\ native' = "started"
    /\ running' = TRUE
    /\ mutexStartup' = NoThread
    /\ Goto(t, "started")
    /\ UNCHANGED <<op, mutexRun, stopRequested, pending, faulted>>

\* throwIfBad: the caller of run or runIterate gets the exception.
StartupFail(t) ==
    /\ Faulty /\ pc[t] = "starting"
    /\ mutexStartup' = NoThread
    /\ Return(t)
    /\ UNCHANGED <<mutexRun, flags, pending, native, faulted>>

(***************************************************************************)
(* The rest of run and of runIterate.                                      *)
(***************************************************************************)
NotStarted(t) ==
    /\ pc[t] = "started" /\ ~running
    /\ Return(t)
    /\ UNCHANGED <<locks, flags, pending, native, faulted>>

BugStarted(t) ==  \* goes on without a look at running
    /\ pc[t] = "started"
    /\ Goto(t, IF op[t] = "run" THEN "enter" ELSE "iterating")
    /\ UNCHANGED <<op, locks, flags, pending, native, faulted>>

Started(t) ==
    /\ pc[t] = "started" /\ running
    /\ Goto(t, IF op[t] = "run" THEN "enter" ELSE "iterating")
    /\ UNCHANGED <<op, locks, flags, pending, native, faulted>>

Enter(t) ==
    /\ pc[t] = "enter" /\ mutexRun = NoThread
    /\ mutexRun' = t
    /\ Goto(t, "loop")
    /\ UNCHANGED <<op, mutexStartup, flags, pending, native, faulted>>

Iterate(t) ==
    /\ pc[t] = "loop" /\ running
    /\ Goto(t, "iterating")
    /\ UNCHANGED <<op, locks, flags, pending, native, faulted>>

BugLeave(t) ==  \* keeps mutexRun
    /\ pc[t] = "loop" /\ ~running
    /\ Return(t)
    /\ UNCHANGED <<locks, flags, pending, native, faulted>>

Leave(t) ==
    /\ pc[t] = "loop" /\ ~running
    /\ mutexRun' = NoThread
    /\ Return(t)
    /\ UNCHANGED <<mutexStartup, flags, pending, native, faulted>>

BugIterateEnd(t) ==  \* run does not rethrow
    /\ pc[t] = "iterating"
    /\ Goto(t, IF op[t] = "run" THEN "loop" ELSE "iterated")
    /\ UNCHANGED <<op, locks, flags, pending, native, faulted>>

IterateEnd(t) ==
    /\ pc[t] = "iterating"
    /\ Goto(t, "iterated")
    /\ UNCHANGED <<op, locks, flags, pending, native, faulted>>

NothingToRethrow(t) ==
    /\ pc[t] = "iterated" /\ ~pending
    /\ IF op[t] = "run" THEN Goto(t, "loop") /\ UNCHANGED op ELSE Return(t)
    /\ UNCHANGED <<locks, flags, pending, native, faulted>>

BugRethrow(t) ==  \* runIterate clears running, as run does
    /\ pc[t] = "iterated" /\ pending
    /\ pending' = FALSE
    /\ running' = FALSE
    /\ \/ /\ op[t] = "run"
          /\ faulted' = TRUE
          /\ Goto(t, "unwind")
          /\ UNCHANGED op
       \/ /\ op[t] = "runIterate"
          /\ Return(t)
          /\ UNCHANGED faulted
    /\ UNCHANGED <<locks, stopRequested, native>>

\* run clears `running` in its handler, runIterate leaves it set.
Rethrow(t) ==
    /\ pc[t] = "iterated" /\ pending
    /\ pending' = FALSE
    /\ \/ /\ op[t] = "run"
          /\ running' = FALSE
          /\ faulted' = TRUE
          /\ Goto(t, "unwind")
          /\ UNCHANGED op
       \/ /\ op[t] = "runIterate"
          /\ Return(t)
          /\ UNCHANGED <<running, faulted>>
    /\ UNCHANGED <<locks, stopRequested, native>>

Unwind(t) ==
    /\ pc[t] = "unwind"
    /\ mutexRun' = NoThread
    /\ Return(t)
    /\ UNCHANGED <<mutexStartup, flags, pending, native, faulted>>

(***************************************************************************)
(* stop.  Called from a callback it returns into UA_Server_run_iterate.    *)
(***************************************************************************)
StopReturn(t) == Goto(t, IF op[t] = "none" THEN "idle" ELSE "iterating")

BugStopNotRunning(t) ==  \* decides without mutexStartup
    /\ pc[t] = "stop" /\ ~running
    /\ stopRequested' = TRUE
    /\ StopReturn(t)
    /\ UNCHANGED <<op, locks, running, pending, native, faulted>>

StopNotRunning(t) ==
    /\ pc[t] = "stop" /\ mutexStartup = NoThread /\ ~running
    /\ stopRequested' = TRUE
    /\ StopReturn(t)
    /\ UNCHANGED <<op, locks, running, pending, native, faulted>>

StopRunning(t) ==
    /\ pc[t] = "stop" /\ mutexStartup = NoThread /\ running
    /\ running' = FALSE
    /\ Goto(t, "stopping")
    /\ UNCHANGED <<op, locks, stopRequested, pending, native, faulted>>

ShutdownBegin(t) ==
    /\ pc[t] = "stopping" /\ mutexRun = NoThread
    /\ mutexRun' = t
    /\ Goto(t, "shutdown")
    /\ UNCHANGED <<op, mutexStartup, flags, pending, native, faulted>>

ShutdownEnd(t) ==
    /\ pc[t] = "shutdown"
    /\ native' = "stopped"
    /\ faulted' = FALSE
    /\ mutexRun' = NoThread
    /\ StopReturn(t)
    /\ UNCHANGED <<op, mutexStartup, flags, pending>>

\* An exception is stored in the slot, over the one that is there.
Store == pending' = TRUE

\* throwIfBad: in a callback the exception goes to the slot.
ShutdownFail(t) ==
    /\ Faulty /\ pc[t] = "shutdown"
    /\ faulted' = TRUE
    /\ mutexRun' = NoThread
    /\ StopReturn(t)
    /\ IF op[t] = "none" THEN UNCHANGED pending ELSE Store
    /\ UNCHANGED <<op, mutexStartup, flags, native>>

(***************************************************************************)
(* User callbacks: run by UA_Server_run_iterate, or by a service function  *)
(* that a thread calls outside the driving calls.                          *)
(***************************************************************************)
CallbackThrows(t) ==
    /\ Faulty
    /\ pc[t] = "iterating" \/ (pc[t] = "idle" /\ Alive)
    /\ Store
    /\ UNCHANGED <<pc, op, locks, flags, native, faulted>>

CallbackStops(t) ==
    /\ pc[t] = "iterating"
    /\ "inner stop late" \in Rules => op[t] = "run" /\ ~running
    /\ Goto(t, "stop")
    /\ UNCHANGED <<op, locks, flags, pending, native, faulted>>

(***************************************************************************)
(* ~Server: Server::Deleter shuts a running server down and deletes it.    *)
(***************************************************************************)
Destroy(t) ==
    /\ Quiet /\ Alive
    /\ Goto(t, IF running THEN "closing" ELSE "closed")
    /\ UNCHANGED <<op, locks, flags, pending, native, faulted>>

CloseEnd(t) ==
    /\ pc[t] = "closing"
    /\ native' = "stopped"
    /\ faulted' = FALSE
    /\ Goto(t, "closed")
    /\ UNCHANGED <<op, locks, flags, pending>>

Delete(t) ==
    /\ pc[t] = "closed"
    /\ native' = "deleted"
    /\ Goto(t, "idle")
    /\ UNCHANGED <<op, locks, flags, pending, faulted>>

\* Nothing is left to do once the object is gone.
Gone == native = "deleted" /\ UNCHANGED vars

Call(t) == CallRun(t) \/ CallRunIterate(t) \/ CallStop(t) \/ Destroy(t)

Callback(t) == CallbackThrows(t) \/ CallbackStops(t)

\* The steps of a call in progress.
Step(t) ==
    \/ StartupSkip(t) \/ StartupBegin(t) \/ StartupEnd(t) \/ StartupFail(t)
    \/ NotStarted(t) \/ Started(t) \/ Enter(t) \/ Iterate(t) \/ Leave(t)
    \/ IterateEnd(t) \/ NothingToRethrow(t) \/ Rethrow(t) \/ Unwind(t)
    \/ StopNotRunning(t) \/ StopRunning(t)
    \/ ShutdownBegin(t) \/ ShutdownEnd(t) \/ ShutdownFail(t)
    \/ CloseEnd(t) \/ Delete(t)

Next == Gone \/ \E t \in Threads : Call(t) \/ Callback(t) \/ Step(t)

Spec == Init /\ [][Next]_vars

\* A call in progress goes on; nobody has to make a call, to throw or to stop.  An
\* iteration ends, however often its callbacks call stop().
FairSpec == Spec /\ \A t \in Threads : WF_vars(Step(t)) /\ SF_vars(IterateEnd(t))

-----------------------------------------------------------------------------
\* The thread holds mutexRun: it is in run's loop, or inside stop's shutdown.
InLoop(t) ==
    \/ op[t] = "run" /\ pc[t] \in {"loop", "iterating", "iterated", "unwind", "stop", "stopping"}
    \/ pc[t] = "shutdown"

\* The thread is inside a lifecycle call of the C server.
InNative(t) ==
    \/ pc[t] \in {"starting", "iterating", "shutdown", "closing"}
    \/ op[t] # "none" /\ pc[t] \in {"stop", "stopping"}

\* No stop request is overlooked: the server never runs while one is pending.
\* stop() decides between a request and a shutdown, and runStartup between a
\* start and an early return, under the same mutex (runStartup and stop).
NoOverlookedStop == running => ~stopRequested

\* Whatever the threads do, run's loop belongs to one thread, and stop never
\* shuts the server down while a loop is iterating (mutexRun).
LoopExclusive == \A t, u \in Threads : InLoop(t) /\ InLoop(u) => t = u

\* In a disciplined application the C server, which is not built for it, never
\* sees two lifecycle calls at a time.
NativeExclusive == \A t, u \in Threads : InNative(t) /\ InNative(u) => t = u

\* When stop shuts the server down, `running` is off and stays off: nobody can
\* have started it again since stop cleared the flag.
ShutdownIsFinal == \A t \in Threads : pc[t] \in {"stopping", "shutdown"} => ~running

\* Between calls `running` tells whether the C server is started, which is all
\* that ~Server looks at; the exception is a run() that threw or a shutdown
\* that failed.
FlagTellsState ==
    (Quiet /\ native # "deleted" /\ ~faulted) => (running <=> native = "started")

\* The lifecycle call of the C server that a thread is in.
NativeCall(t) ==
    IF pc[t] = "starting" THEN "startup"
    ELSE IF pc[t] \in {"shutdown", "closing"} THEN "shutdown"
    ELSE IF InNative(t) THEN "iterate" ELSE "none"

Native == INSTANCE NativeServer WITH
    state <- native, calls <- [t \in Threads |-> NativeCall(t)], failed <- faulted

\* In a disciplined application a Server drives the C server as that expects: one
\* lifecycle call at a time, started only when it is stopped, iterated and shut down
\* only when it is started, and deleted only when it is shut down; after a run() that
\* threw or a shutdown that failed it may be started or deleted as it is.
DrivesNativeServer == Native!Spec

\* stop() ends run(): when a run() is in progress and a stop() has either
\* cleared `running` or left its request, run() returns.
StopEndsRun ==
    \A t \in Threads :
        (op[t] = "run" /\ (stopRequested \/ \E u \in Threads : pc[u] = "stopping"))
            ~> op[t] = "none"

\* stop() itself returns, and with it ~Server.
StopReturns ==
    \A t \in Threads : pc[t] \in {"stop", "closing"} ~> pc[t] = "idle"

\* An exception thrown by a callback of an iteration is rethrown to the caller
\* of run() or runIterate().
CallbackExceptionRethrown ==
    \A t \in Threads : (pc[t] = "iterating" /\ pending) ~> ~pending

=============================================================================
