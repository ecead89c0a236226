----------------------------- MODULE ClientLoop ------------------------------
(***************************************************************************)
(* The main loop of a Client: Client::run, runIterate and stop             *)
(* (src/client.cpp) with the atomic flag `running` and the exception slot. *)
(* Unlike Server, Client has no mutex and no stop request: stop() only     *)
(* clears the flag that run() sets.  An operator Bug... is a wrong version *)
(* of the one that follows it.                                             *)
(***************************************************************************)
EXTENDS Naturals

CONSTANTS
    Threads,        \* the application's threads
    StopsRunning    \* TRUE: stop() is called once isRunning() has returned true;
                    \* an earlier one is lost if run() then sets the flag

ASSUME StopsRunningAssumption == StopsRunning \in BOOLEAN

VARIABLES
    pc,        \* where each thread is
    op,        \* the call a thread is in: "run", "runIterate", "service" or "none"
    running,   \* ClientContext::running
    pending,   \* ExceptionCatcher::exception_ is set
    asked      \* history: stop() was called while the thread was in run()

loopVars == <<pc, op, running, pending, asked>>

Labels == {"idle",
           "entered",    \* run: has read running = false
           "cond",       \* run: at the loop's condition
           "iterating",  \* inside UA_Client_run_iterate
           "serving",    \* inside connect, disconnect or a synchronous service
           "rethrow",    \* runIterate: at exceptionCatcher.rethrow()
           "again",      \* run: at its own exceptionCatcher.rethrow()
           "unwind"}     \* run: in catch (...)

LoopTypeOK ==
    /\ pc \in [Threads -> Labels]
    /\ op \in [Threads -> {"none", "run", "runIterate", "service"}]
    /\ running \in BOOLEAN
    /\ pending \in BOOLEAN
    /\ asked \in [Threads -> BOOLEAN]

LoopInit ==
    /\ pc = [t \in Threads |-> "idle"]
    /\ op = [t \in Threads |-> "none"]
    /\ running = FALSE
    /\ pending = FALSE
    /\ asked = [t \in Threads |-> FALSE]

Goto(t, label) == pc' = [pc EXCEPT ![t] = label]
Return(t) ==
    /\ Goto(t, "idle")
    /\ op' = [op EXCEPT ![t] = "none"]
    /\ asked' = [asked EXCEPT ![t] = FALSE]

\* A UA_Client is driven by one thread at a time.
MayDrive(t) == \A u \in Threads : op[u] = "none"

\* run() on a client that runs returns at once, without any effect.
CallRun(t) ==
    /\ MayDrive(t) /\ ~running
    /\ Goto(t, "entered")
    /\ op' = [op EXCEPT ![t] = "run"]
    /\ UNCHANGED <<running, pending, asked>>

CallRunIterate(t) ==
    /\ MayDrive(t)
    /\ Goto(t, "iterating")
    /\ op' = [op EXCEPT ![t] = "runIterate"]
    /\ UNCHANGED <<running, pending, asked>>

\* connect(), disconnect() and the synchronous services drive the client too.  They
\* look at their own status only: exceptions are left to the next loop.
CallService(t) ==
    /\ MayDrive(t)
    /\ Goto(t, "serving")
    /\ op' = [op EXCEPT ![t] = "service"]
    /\ UNCHANGED <<running, pending, asked>>

ServiceReturns(t) ==
    /\ pc[t] = "serving"
    /\ Return(t)
    /\ UNCHANGED <<running, pending>>

\* From any other thread, or from a callback of the loop itself.
Stop(t) ==
    /\ pc[t] \in {"idle", "iterating", "serving"}
    /\ StopsRunning => running
    /\ running' = FALSE
    /\ asked' = [u \in Threads |-> asked[u] \/ op[u] = "run"]
    /\ UNCHANGED <<pc, op, pending>>

SetRunning(t) ==
    /\ pc[t] = "entered"
    /\ running' = TRUE
    /\ Goto(t, "cond")
    /\ UNCHANGED <<op, pending, asked>>

BugCheckRunning(t) ==  \* for (;;)
    /\ pc[t] = "cond"
    /\ Goto(t, "iterating") /\ UNCHANGED <<op, asked>>
    /\ UNCHANGED <<running, pending>>

CheckRunning(t) ==
    /\ pc[t] = "cond"
    /\ IF running THEN Goto(t, "iterating") /\ UNCHANGED <<op, asked>> ELSE Return(t)
    /\ UNCHANGED <<running, pending>>

CallbackThrows(t) ==
    /\ pc[t] \in {"iterating", "serving"}
    /\ pending' = TRUE
    /\ UNCHANGED <<pc, op, running, asked>>

\* An exception leaves runIterate: run() catches it, to clear the flag.
Throw(t) == IF op[t] = "run" THEN Goto(t, "unwind") /\ UNCHANGED <<op, asked>> ELSE Return(t)

\* UA_Client_run_iterate returns a bad status, and throwIfBad comes before rethrow():
\* a pending exception stays in its slot, for a later call.
IterateFails(t) ==
    /\ pc[t] = "iterating"
    /\ Throw(t)
    /\ UNCHANGED <<running, pending>>

IterateReturns(t) ==
    /\ pc[t] = "iterating"
    /\ Goto(t, "rethrow")
    /\ UNCHANGED <<op, running, pending, asked>>

Rethrow(t) ==
    /\ pc[t] \in {"rethrow", "again"}
    /\ IF pending
       THEN Throw(t) /\ pending' = FALSE
       ELSE /\ UNCHANGED pending
            /\ IF op[t] = "run"
               THEN Goto(t, IF pc[t] = "rethrow" THEN "again" ELSE "cond") /\ UNCHANGED <<op, asked>>
               ELSE Return(t)
    /\ UNCHANGED running

BugUnwind(t) ==  \* no catch (...)
    /\ pc[t] = "unwind"
    /\ Return(t)
    /\ UNCHANGED <<running, pending>>

Unwind(t) ==
    /\ pc[t] = "unwind"
    /\ running' = FALSE
    /\ Return(t)
    /\ UNCHANGED pending

\* Between calls of the C client, and at their end.
LoopGoesOn(t) == SetRunning(t) \/ CheckRunning(t) \/ Rethrow(t) \/ Unwind(t)
NativeReturns(t) == IterateReturns(t) \/ IterateFails(t) \/ ServiceReturns(t)
Continue(t) == LoopGoesOn(t) \/ NativeReturns(t)

LoopNext == \E t \in Threads :
    \/ CallRun(t) \/ CallRunIterate(t) \/ CallService(t)
    \/ CallbackThrows(t)
    \/ Stop(t)
    \/ Continue(t)

\* A thread that is in a call goes on; nobody has to make one.
LoopFairness == \A t \in Threads : WF_loopVars(Continue(t))
LoopSpec == LoopInit /\ [][LoopNext]_loopVars /\ LoopFairness

-----------------------------------------------------------------------------
\* The flag says whether the loop runs: it never stays set when run() is over, not
\* even after an exception, or the next run() would return at once.
RunningMeansLoop == running => \E t \in Threads : op[t] = "run"

\* "This method will block until Client::stop is called": run() returns after stop().
StopEndsRun == \A t \in Threads : asked[t] ~> op[t] = "none"

=============================================================================
