----------------------------- MODULE Ownership -----------------------------
(***************************************************************************)
(* Who owns what when Server and Client objects are constructed, moved,    *)
(* assigned and destroyed.  A wrapper has two unique pointers: context_ to *)
(* the ServerContext or ClientContext, and server_ or client_ to the C     *)
(* object.  The C object finds its wrapper, and through it the context,    *)
(* by a back pointer in its configuration, which every move has to renew;  *)
(* deleting a C object calls back into the wrapper.  A context and the C   *)
(* object it was made with share one name here, a member of Handles.       *)
(* An operator Bug... is a wrong version of the one that follows it.       *)
(***************************************************************************)
CONSTANTS
    Wrappers,       \* C++ objects (places where one may live)
    Handles,        \* C objects, each with the context constructed with it
    None,
    AssignIdleOnly  \* TRUE: nothing is assigned to a wrapper whose C object is
                    \* started or connected, or has pointers to its context

ASSUME NoneAssumption == None \notin Wrappers \cup Handles
ASSUME AssignIdleOnlyAssumption == AssignIdleOnly \in BOOLEAN

VARIABLES
    kind,        \* "server" or "client": the class of all wrappers
    at,          \* where each wrapper is in its constructor, assignment or destructor
    context,     \* context_
    handle,      \* server_ or client_
    from,        \* the right-hand side of an assignment in progress
    dying,       \* the C object that the wrapper's deleter has got
    back,        \* ServerConfig::context or ClientConfig::clientContext of a C object
    state,       \* external: the C object's state
    registered,  \* external: the C object has pointers to things in its context
    living,      \* the contexts that exist
    running      \* ServerContext::running

vars == <<kind, at, context, handle, from, dying, back, state, registered, living, running>>

Labels == {"nothing",    \* no object lives here
           "idle",
           "assign",     \* operator=: context_ is assigned, the handle is next
           "deleter",    \* Deleter::operator()
           "shutdown",   \* Deleter: UA_Server_run_shutdown
           "delete",     \* Deleter: UA_Server_delete, UA_Client_delete
           "deleted",    \* the deleter has returned
           "setWrapper"} \* at setWrapperAsContextPointer

TypeOK ==
    /\ kind \in {"server", "client"}
    /\ at \in [Wrappers -> Labels]
    /\ context \in [Wrappers -> Handles \cup {None}]
    /\ handle \in [Wrappers -> Handles \cup {None}]
    /\ from \in [Wrappers -> Wrappers \cup {None}]
    /\ dying \in [Wrappers -> Handles \cup {None}]
    /\ back \in [Handles -> Wrappers \cup {None}]
    /\ state \in [Handles -> {"unborn", "off", "on", "deleted"}]
    /\ registered \in [Handles -> BOOLEAN]
    /\ living \subseteq Handles
    /\ running \in [Handles -> BOOLEAN]

Init ==
    /\ kind \in {"server", "client"}
    /\ at = [w \in Wrappers |-> "nothing"]
    /\ context = [w \in Wrappers |-> None]
    /\ handle = [w \in Wrappers |-> None]
    /\ from = [w \in Wrappers |-> None]
    /\ dying = [w \in Wrappers |-> None]
    /\ back = [h \in Handles |-> None]
    /\ state = [h \in Handles |-> "unborn"]
    /\ registered = [h \in Handles |-> FALSE]
    /\ living = {}
    /\ running = [h \in Handles |-> FALSE]

Goto(w, label) == at' = [at EXCEPT ![w] = label]

\* Not the other side of an assignment in progress.
Free(w) == at[w] = "idle" /\ \A u \in Wrappers : from[u] # w

\* Server(ServerConfig&&), Server(UA_Server*), Client(...).  Without memory they
\* throw, and nothing is left of the attempt.
Construct(w, h) ==
    /\ at[w] = "nothing" /\ state[h] = "unborn"
    /\ Goto(w, "idle")
    /\ context' = [context EXCEPT ![w] = h]
    /\ handle' = [handle EXCEPT ![w] = h]
    /\ back' = [back EXCEPT ![h] = w]
    /\ state' = [state EXCEPT ![h] = "off"]
    /\ living' = living \cup {h}
    /\ UNCHANGED <<kind, from, dying, registered, running>>

BugMoveConstruct(w, v) ==  \* without setWrapperAsContextPointer
    /\ at[w] = "nothing" /\ Free(v) /\ handle[v] # None
    /\ Goto(w, "idle")
    /\ context' = [context EXCEPT ![w] = context[v], ![v] = None]
    /\ handle' = [handle EXCEPT ![w] = handle[v], ![v] = None]
    /\ UNCHANGED <<kind, from, dying, back, state, registered, living, running>>

\* Server(Server&&).  Moving from a moved-from object is a null dereference.
MoveConstruct(w, v) ==
    /\ at[w] = "nothing" /\ Free(v) /\ handle[v] # None
    /\ Goto(w, "idle")
    /\ context' = [context EXCEPT ![w] = context[v], ![v] = None]
    /\ handle' = [handle EXCEPT ![w] = handle[v], ![v] = None]
    /\ back' = [back EXCEPT ![handle[v]] = w]
    /\ UNCHANGED <<kind, from, dying, state, registered, living, running>>

Idle(h) == state[h] # "on" /\ ~registered[h]

\* operator=(Server&&), from here to SetWrapper.  The contexts go first: the
\* assigned wrapper's own one is destroyed.
MoveAssign(w, v) ==
    /\ w # v /\ Free(w) /\ Free(v) /\ handle[v] # None
    /\ (AssignIdleOnly /\ handle[w] # None) => Idle(handle[w])
    /\ living' = living \ {context[w]}
    /\ context' = [context EXCEPT ![w] = context[v], ![v] = None]
    /\ from' = [from EXCEPT ![w] = v]
    /\ Goto(w, "assign")
    /\ UNCHANGED <<kind, handle, dying, back, state, registered, running>>

\* unique_ptr takes the new pointer over before it deletes the old one.
AssignHandle(w) ==
    /\ at[w] = "assign"
    /\ handle' = [handle EXCEPT ![w] = handle[from[w]], ![from[w]] = None]
    /\ dying' = [dying EXCEPT ![w] = handle[w]]
    /\ Goto(w, IF handle[w] = None THEN "setWrapper" ELSE "deleter")
    /\ UNCHANGED <<kind, context, from, back, state, registered, living, running>>

\* ~Server, ~Client: the C object goes first (members are destroyed in reverse
\* order), and the pointer to it is still there while it is deleted.
BugDestroy(w) ==  \* as if context_ were declared last
    /\ Free(w)
    /\ living' = living \ {context[w]}
    /\ context' = [context EXCEPT ![w] = None]
    /\ dying' = [dying EXCEPT ![w] = handle[w]]
    /\ handle' = [handle EXCEPT ![w] = None]
    /\ Goto(w, IF handle[w] = None THEN "deleted" ELSE "deleter")
    /\ UNCHANGED <<kind, from, back, state, registered, running>>

Destroy(w) ==
    /\ Free(w)
    /\ dying' = [dying EXCEPT ![w] = handle[w]]
    /\ handle' = [handle EXCEPT ![w] = None]
    /\ Goto(w, IF handle[w] = None THEN "deleted" ELSE "deleter")
    /\ UNCHANGED <<kind, context, from, back, state, registered, living, running>>

\* detail::getContext(server): the context that a callback of h gets.
ContextOf(h) == IF back[h] = None THEN None ELSE context[back[h]]

\* A started server is shut down before it is deleted; the flag that decides is
\* read through the back pointer.  A UA_Client disconnects by itself.
BugDeleter(w) ==  \* no shutdown
    /\ at[w] = "deleter"
    /\ Goto(w, "delete")
    /\ UNCHANGED <<kind, context, handle, from, dying, back, state, registered, living, running>>

Deleter(w) ==
    /\ at[w] = "deleter"
    /\ LET c == ContextOf(dying[w]) IN
        Goto(w, IF kind = "server" /\ c # None /\ running[c] THEN "shutdown" ELSE "delete")
    /\ UNCHANGED <<kind, context, handle, from, dying, back, state, registered, living, running>>

Shutdown(w) ==
    /\ at[w] = "shutdown"
    /\ state' = [state EXCEPT ![dying[w]] = "off"]
    /\ Goto(w, "delete")
    /\ UNCHANGED <<kind, context, handle, from, dying, back, registered, living, running>>

\* External: UA_Server_delete and UA_Client_delete call back while they close
\* sessions, items and the connection; afterwards no pointer is left.
Delete(w) ==
    /\ at[w] = "delete"
    /\ state' = [state EXCEPT ![dying[w]] = "deleted"]
    /\ registered' = [registered EXCEPT ![dying[w]] = FALSE]
    /\ Goto(w, IF from[w] = None THEN "deleted" ELSE "setWrapper")
    /\ UNCHANGED <<kind, context, handle, from, dying, back, living, running>>

DestroyContext(w) ==
    /\ at[w] = "deleted"
    /\ living' = living \ {context[w]}
    /\ context' = [context EXCEPT ![w] = None]
    /\ dying' = [dying EXCEPT ![w] = None]
    /\ Goto(w, "nothing")
    /\ UNCHANGED <<kind, handle, from, back, state, registered, running>>

\* setWrapperAsContextPointer(*this), the end of operator=.
SetWrapper(w) ==
    /\ at[w] = "setWrapper"
    /\ back' = [back EXCEPT ![handle[w]] = w]
    /\ from' = [from EXCEPT ![w] = None]
    /\ dying' = [dying EXCEPT ![w] = None]
    /\ Goto(w, "idle")
    /\ UNCHANGED <<kind, context, handle, state, registered, living, running>>

\* runIterate or connect, and stop or disconnect, on an owning wrapper.  That the flag
\* and the C server's state agree between calls is the subject of ServerLifecycle.
Start(w) ==
    /\ Free(w) /\ handle[w] # None /\ state[handle[w]] = "off"
    /\ state' = [state EXCEPT ![handle[w]] = "on"]
    /\ running' = [running EXCEPT ![context[w]] = (kind = "server")]
    /\ UNCHANGED <<kind, at, context, handle, from, dying, back, registered, living>>
Stop(w) ==
    /\ Free(w) /\ handle[w] # None /\ state[handle[w]] = "on"
    /\ state' = [state EXCEPT ![handle[w]] = "off"]
    /\ running' = [running EXCEPT ![context[w]] = FALSE]
    /\ UNCHANGED <<kind, at, context, handle, from, dying, back, registered, living>>

\* Callbacks and items are added, and the last one is removed.
Register(w) ==
    /\ Free(w) /\ handle[w] # None
    /\ registered' = [registered EXCEPT ![handle[w]] = ~@]
    /\ UNCHANGED <<kind, at, context, handle, from, dying, back, state, living, running>>

Next ==
    \/ \E w \in Wrappers, h \in Handles : Construct(w, h)
    \/ \E w, v \in Wrappers : MoveConstruct(w, v) \/ MoveAssign(w, v)
    \/ \E w \in Wrappers :
        \/ AssignHandle(w) \/ SetWrapper(w)
        \/ Destroy(w) \/ Deleter(w) \/ Shutdown(w) \/ Delete(w) \/ DestroyContext(w)
        \/ Start(w) \/ Stop(w) \/ Register(w)

Spec == Init /\ [][Next]_vars

-----------------------------------------------------------------------------
\* asWrapper() returns the object that owns the handle, whatever moves there were
\* (as the tests of Client and Server check after one move), and that object has
\* the context which was constructed with the handle.
FindsWrapper ==
    \A w \in Wrappers : (Free(w) /\ handle[w] # None)
        => /\ back[handle[w]] = w
           /\ context[w] = handle[w]

\* The C object runs callbacks: it is driven, or it is being shut down or deleted
\* and was connected or has items.
MayCallBack(h) ==
    \/ \E w \in Wrappers : Free(w) /\ handle[w] = h
    \/ ~Idle(h) /\ \E w \in Wrappers : dying[w] = h

\* A callback gets the context of its own C object from getContext(), also in the
\* middle of a deletion: exceptions, sessions and connection states are kept apart.
CallbacksFindContext ==
    \A h \in Handles : MayCallBack(h) => ContextOf(h) = h /\ h \in living

\* A context outlives the pointers to the objects in it that a C object holds.
ContextOutlivesPointers == \A h \in Handles : registered[h] => h \in living

\* Every C object and every context has one owner: nothing leaks and nothing is
\* deleted twice, in any sequence of moves.
Owners(h) == {w \in Wrappers : handle[w] = h \/ (dying[w] = h /\ at[w] \in {"deleter", "shutdown", "delete"})}
OneOwner ==
    \A h \in Handles :
        /\ state[h] \in {"off", "on"} <=> \E w \in Wrappers : Owners(h) = {w}
        /\ h \in living <=> \E w \in Wrappers : {v \in Wrappers : context[v] = h} = {w}

\* Types, and who owns what.
Bookkeeping == TypeOK /\ OneOwner /\ FindsWrapper

\* A started server is shut down before it is deleted, whoever deletes it.
ShutDownBeforeDelete ==
    [][\A h \in Handles : (kind = "server" /\ state[h] = "on") => state'[h] # "deleted"]_vars

=============================================================================
