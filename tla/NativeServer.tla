---------------------------- MODULE NativeServer -----------------------------
(***************************************************************************)
(* What a UA_Server of the C library expects of whoever drives it: its     *)
(* lifecycle calls come one at a time, whichever threads make them, and in *)
(* an order that a lifecycle allows.  Server (ServerLifecycle) keeps to it *)
(* if its application keeps to the rules of use.                           *)
(***************************************************************************)
CONSTANT Threads

VARIABLES
    state,   \* "fresh", "started", "stopped" or "deleted"
    calls,   \* the lifecycle call that each thread is in
    failed   \* an error was reported to the driver, and no shutdown has followed

vars == <<state, calls, failed>>

Init ==
    /\ state = "fresh"
    /\ calls = [t \in Threads |-> "none"]
    /\ failed = FALSE

Free == \A t \in Threads : calls[t] = "none"
Begin(t, call) == Free /\ calls' = [calls EXCEPT ![t] = call] /\ UNCHANGED <<state, failed>>
End(t, call) == calls[t] = call /\ calls' = [calls EXCEPT ![t] = "none"]

\* Only after an error may a started server be started again.
StartupBegin(t) ==
    /\ state \in {"fresh", "stopped"} \/ (failed /\ state # "deleted")
    /\ Begin(t, "startup")

StartupEnd(t) ==
    /\ End(t, "startup")
    /\ state' \in {state, "started"}
    /\ UNCHANGED failed

IterateBegin(t) == state = "started" /\ Begin(t, "iterate")

IterateEnd(t) == End(t, "iterate") /\ UNCHANGED <<state, failed>>

\* The driver gives up with an exception and leaves the server as it is.
Abandon ==
    /\ Free /\ state = "started"
    /\ failed' = TRUE
    /\ UNCHANGED <<state, calls>>

ShutdownBegin(t) == state = "started" /\ Begin(t, "shutdown")

ShutdownEnd(t) ==
    /\ End(t, "shutdown")
    /\ \/ state' = "stopped" /\ failed' = FALSE
       \/ state' = state /\ failed' = TRUE

\* A started server is shut down before it is deleted, unless there was an error.
Delete ==
    /\ Free
    /\ state \in {"fresh", "stopped"} \/ (failed /\ state # "deleted")
    /\ state' = "deleted"
    /\ UNCHANGED <<calls, failed>>

Next ==
    \/ \E t \in Threads :
        \/ StartupBegin(t) \/ StartupEnd(t)
        \/ IterateBegin(t) \/ IterateEnd(t)
        \/ ShutdownBegin(t) \/ ShutdownEnd(t)
    \/ Abandon
    \/ Delete

Spec == Init /\ [][Next]_vars

=============================================================================
