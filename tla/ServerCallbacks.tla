--------------------------- MODULE ServerCallbacks ---------------------------
(***************************************************************************)
(* Monitored items of a Server and timed or repeated callbacks.  Each has  *)
(* a context object with the user's std::function.  The C library keeps a  *)
(* bare pointer to it, and a ContextMap owns it under the identifier that  *)
(* the C library gave.  Identifiers are not used twice, so a context       *)
(* stands for its identifier as well.                                      *)
(*                                                                         *)
(* One thread iterates and runs the callbacks, with the C library's lock   *)
(* released; every thread, the iterating one in a callback included, may   *)
(* add and remove.  Each call makes a C call and then changes the map: two *)
(* steps, and other threads act in between.                                *)
(* An operator Bug... is a wrong version of the one that follows it.       *)
(***************************************************************************)
CONSTANTS
    Threads,
    Contexts,      \* MonitoredItemContext and CallbackContext objects
    Nobody,        \* no thread
    None,          \* no context
    Rules          \* the rules the application keeps, see AllRules

ASSUME NobodyAssumption == Nobody \notin Threads
ASSUME NoneAssumption == None \notin Contexts

Kinds == {"item", "timed", "repeated"}

VARIABLES
    kind,     \* what a context is the context of; "none" before it is created
    native,   \* external: the contexts the C library has a pointer to
    map,      \* the contexts in the ContextMaps
    freed,    \* the contexts that are destroyed
    stale,    \* the contexts with Staleable::stale
    inserted, \* the contexts with MonitoredItemContext::inserted
    loop,     \* the thread in UA_Server_run_iterate
    running,  \* the context whose callback it is in, or None
    place,    \* where in that callback
    call      \* each thread's add or remove in progress

vars == <<kind, native, map, freed, stale, inserted, loop, running, place, call>>

(***************************************************************************)
(* The rules.  "no removal while running": nothing removes an item or      *)
(* timer while its callback runs, neither the callback itself nor another  *)
(* thread.  "add in loop": while a thread iterates, only its callbacks     *)
(* add timers.                                                             *)
(***************************************************************************)
AllRules == {"no removal while running", "add in loop"}

Idle == [op |-> "none", ctx |-> None]

TypeOK ==
    /\ kind \in [Contexts -> Kinds \cup {"none"}]
    /\ native \subseteq Contexts /\ map \subseteq Contexts /\ freed \subseteq Contexts
    /\ stale \subseteq Contexts /\ inserted \subseteq Contexts
    /\ loop \in Threads \cup {Nobody}
    /\ running \in Contexts \cup {None}
    /\ running # None => loop # Nobody
    /\ place \in {"user", "reset"}
    /\ call \in [Threads -> [op : {"none", "creating", "adding", "removing"},
                             ctx : Contexts \cup {None}]]

Init ==
    /\ kind = [c \in Contexts |-> "none"]
    /\ native = {} /\ map = {} /\ freed = {} /\ stale = {} /\ inserted = {}
    /\ loop = Nobody /\ running = None /\ place = "user"
    /\ call = [t \in Threads |-> Idle]

\* The application's code has control in t and is not in a call of the wrapper.
User(t) ==
    /\ call[t] = Idle
    /\ loop = t => running # None /\ place = "user"

(***************************************************************************)
(* createMonitoredItemDataChange<Server>, addTimedCallback and             *)
(* addRepeatedCallback.  The C library has the pointer when its call ends. *)
(***************************************************************************)
Add(t, c, k) ==
    /\ User(t)
    /\ kind[c] = "none"
    /\ ("add in loop" \in Rules /\ k # "item") => loop \in {t, Nobody}
    /\ kind' = [kind EXCEPT ![c] = k]
    /\ call' = [call EXCEPT ![t] = [op |-> IF k = "item" THEN "creating" ELSE "adding", ctx |-> c]]
    /\ native' = native \cup {c}
    /\ UNCHANGED <<map, freed, stale, inserted, loop, running, place>>

\* The C library refuses (throwIfBad, or a bad result): the context is destroyed.
AddFails(t, c, k) ==
    /\ User(t)
    /\ kind[c] = "none"
    /\ kind' = [kind EXCEPT ![c] = k]
    /\ freed' = freed \cup {c}
    /\ UNCHANGED <<native, map, stale, inserted, loop, running, place, call>>

BugErased == map  \* sweeps everything
\* ContextMap::eraseStale: insert destroys the stale objects first.  Only the
\* callbacks' contexts can be stale.
Erased == map \cap stale

\* ContextMap::insert of a timer.
InsertCallback(t) ==
    /\ call[t].op = "adding"
    /\ map' = (map \ Erased) \cup {call[t].ctx}
    /\ freed' = freed \cup Erased
    /\ call' = [call EXCEPT ![t] = Idle]
    /\ UNCHANGED <<kind, native, stale, inserted, loop, running, place>>

BugInsertItem(t) ==  \* opens the gate and leaves the insertion to a later step
    /\ call[t].op = "creating"
    /\ call[t].ctx \notin inserted
    /\ inserted' = inserted \cup {call[t].ctx}
    /\ UNCHANGED <<kind, native, map, freed, stale, loop, running, place, call>>
\* storeMonitoredItemContext: the item can be looked up before the gate opens.
InsertItem(t) ==
    /\ call[t].op = "creating"
    /\ call[t].ctx \notin map
    /\ map' = map \cup {call[t].ctx}
    /\ UNCHANGED <<kind, native, freed, stale, inserted, loop, running, place, call>>
OpenGate(t) ==
    /\ call[t].op = "creating"
    /\ call[t].ctx \in map
    /\ inserted' = inserted \cup {call[t].ctx}
    /\ call' = [call EXCEPT ![t] = Idle]
    /\ UNCHANGED <<kind, native, map, freed, stale, loop, running, place>>

(***************************************************************************)
(* deleteMonitoredItem<Server> and removeCallback: the C library forgets   *)
(* the pointer, then the context is destroyed, whatever the C call says.   *)
(* The application knows the identifier from the call that returned it.    *)
(***************************************************************************)
Removable(c) ==
    /\ c \in map
    /\ \A t \in Threads : call[t].ctx # c
    /\ "no removal while running" \in Rules => running # c

BugRemove(t, c) ==  \* leaves the C library's pointer
    /\ User(t)
    /\ Removable(c)
    /\ call' = [call EXCEPT ![t] = [op |-> "removing", ctx |-> c]]
    /\ UNCHANGED <<kind, native, map, freed, stale, inserted, loop, running, place>>
Remove(t, c) ==
    /\ User(t)
    /\ Removable(c)
    /\ native' = native \ {c}
    /\ call' = [call EXCEPT ![t] = [op |-> "removing", ctx |-> c]]
    /\ UNCHANGED <<kind, map, freed, stale, inserted, loop, running, place>>

Erase(t) ==
    /\ call[t].op = "removing"
    /\ map' = map \ {call[t].ctx}
    /\ freed' = freed \cup (map \cap {call[t].ctx})
    /\ call' = [call EXCEPT ![t] = Idle]
    /\ UNCHANGED <<kind, native, stale, inserted, loop, running, place>>

(***************************************************************************)
(* The iteration.  A timed callback leaves the C library as it fires.      *)
(***************************************************************************)
Iterate(t) ==
    /\ loop = Nobody /\ call[t] = Idle
    /\ "add in loop" \in Rules => \A u \in Threads : call[u].op # "adding"
    /\ loop' = t
    /\ UNCHANGED <<kind, native, map, freed, stale, inserted, running, place, call>>

IterateEnd(t) ==
    /\ loop = t /\ running = None
    /\ loop' = Nobody
    /\ UNCHANGED <<kind, native, map, freed, stale, inserted, running, place, call>>

\* dataChangeCallbackNativeServer returns at once before the insertion.
Gate(c) == kind[c] = "item" => c \in inserted

Fire(t, c) ==
    /\ loop = t /\ running = None
    /\ c \in native
    /\ Gate(c)
    /\ running' = c /\ place' = "user"
    /\ native' = IF kind[c] = "timed" THEN native \ {c} ELSE native
    /\ UNCHANGED <<kind, map, freed, stale, inserted, loop, call>>

\* The user's function returns or throws; an exception does not get further.
CallbackReturn(t) ==
    /\ loop = t /\ running # None /\ kind[running] # "timed"
    /\ call[t] = Idle
    /\ running' = None
    /\ UNCHANGED <<kind, native, map, freed, stale, inserted, loop, place, call>>

BugMarkStale(t) ==  \* marks nothing
    /\ loop = t /\ running # None /\ kind[running] = "timed" /\ place = "user"
    /\ call[t] = Idle
    /\ place' = "reset"
    /\ UNCHANGED <<kind, native, map, freed, stale, inserted, loop, running, call>>
\* invokeCallback, after a timed callback: context->stale = true ...
MarkStale(t) ==
    /\ loop = t /\ running # None /\ kind[running] = "timed" /\ place = "user"
    /\ call[t] = Idle
    /\ stale' = stale \cup {running}
    /\ place' = "reset"
    /\ UNCHANGED <<kind, native, map, freed, inserted, loop, running, call>>
\* ... and context->item = {}, which destroys the std::function.
ResetItem(t) ==
    /\ loop = t /\ place = "reset"
    /\ running' = None /\ place' = "user"
    /\ UNCHANGED <<kind, native, map, freed, stale, inserted, loop, call>>

Next ==
    \E t \in Threads :
        \/ \E c \in Contexts, k \in Kinds : Add(t, c, k) \/ AddFails(t, c, k)
        \/ \E c \in Contexts : Remove(t, c) \/ Fire(t, c)
        \/ InsertCallback(t) \/ InsertItem(t) \/ OpenGate(t) \/ Erase(t)
        \/ Iterate(t) \/ IterateEnd(t)
        \/ CallbackReturn(t) \/ MarkStale(t) \/ ResetItem(t)

Spec == Init /\ [][Next]_vars

-----------------------------------------------------------------------------
\* The C library never holds a pointer to a destroyed context, whatever threads
\* add and remove: it forgets before the map destroys.
NativePointersAlive == native \cap freed = {}

\* The context whose callback runs is not destroyed before invokeCallback or the
\* callback adapter is done with it.
RunningContextAlive == running \notin freed

\* Nothing leaks: a context that the C library has forgotten leaves its map with
\* the next sweep, unless a callback or a call still works on it.
ForgottenIsCollected ==
    \A c \in map \ native :
        \/ c \in stale
        \/ running = c
        \/ \E t \in Threads : call[t].ctx = c

\* A monitored item's callback runs only for an item that can be looked up.
NotifiedIsFound ==
    [][\A c \in Contexts : running # c /\ running' = c /\ kind[c] = "item" => c \in map]_vars

=============================================================================
