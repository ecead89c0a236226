---------------------------- MODULE NodeContexts ----------------------------
(***************************************************************************)
(* Value callbacks, data sources and method callbacks of a Server's nodes. *)
(* The C server keeps for each node a bare context pointer and the native  *)
(* functions that are installed.  A NodeContext, owned by a ContextMap     *)
(* under the node's id, holds the user's objects.  Setting one takes       *)
(* several C calls, each of which can fail, and nothing locks the sequence;*)
(* the callbacks run in the iterating thread or in a thread that calls a   *)
(* local service.  Nodes can be deleted and added at any time.             *)
(* An operator Bug... is a wrong version of the one that follows it.       *)
(***************************************************************************)
CONSTANTS
    Threads, Nodes,
    Contexts,      \* NodeContext objects
    Objects,       \* the user's callback objects
    None,
    Rules          \* the rules the application keeps, see AllRules

ASSUME NoneAssumption == None \notin Nodes \cup Contexts \cup Objects
ASSUME ApartAssumption == Contexts \cap Objects = {}

(***************************************************************************)
(* "oneAtATime": while a thread sets a callback of a node, no other one    *)
(* does, nor adds the node again; deleting is allowed.                     *)
(* "notWhileRunning": no callback of a node is set while one of its        *)
(* callbacks runs.                                                         *)
(* "methodsWhenIdle": nobody calls a method while its callback is set.     *)
(***************************************************************************)
AllRules == {"oneAtATime", "notWhileRunning", "methodsWhenIdle"}

Kinds == {"value", "source", "method"}

VARIABLES
    class,    \* external: the class of each node, or "absent"
    pointer,  \* external: the node's context pointer
    native,   \* external: the kinds of native functions installed in the node
    map,      \* ServerContext::nodeContexts
    content,  \* the user's object of each kind in a NodeContext
    freed,    \* destroyed contexts and objects
    used,     \* contexts and objects that exist or have existed
    call,     \* each thread's configuration call in progress
    running   \* each thread's callback in progress

vars == <<class, pointer, native, map, content, freed, used, call, running>>

Idle == [at |-> "idle", node |-> None, ctx |-> None, kind |-> "none"]
NotRunning == [ctx |-> None, obj |-> None, node |-> None]

TypeOK ==
    /\ class \in [Nodes -> {"absent", "object", "variable", "method"}]
    /\ pointer \in [Nodes -> Contexts \cup {None}]
    /\ \A n \in Nodes : class[n] = "absent" => pointer[n] = None
    /\ native \in [Nodes -> SUBSET Kinds]
    /\ map \in [Nodes -> Contexts \cup {None}]
    /\ content \in [Contexts -> [Kinds -> Objects \cup {None}]]
    /\ freed \subseteq used /\ used \subseteq Contexts \cup Objects
    /\ call \in [Threads -> [at : {"idle", "setContext", "setFunctions", "methodContext", "insert"},
                             node : Nodes \cup {None}, ctx : Contexts \cup {None},
                             kind : Kinds \cup {"none"}]]
    /\ running \in [Threads -> [ctx : Contexts \cup {None}, obj : Objects \cup {None},
                                node : Nodes \cup {None}]]

Init ==
    /\ class = [n \in Nodes |-> "absent"]
    /\ pointer = [n \in Nodes |-> None]
    /\ native = [n \in Nodes |-> {}]
    /\ map = [n \in Nodes |-> None]
    /\ content = [c \in Contexts |-> [k \in Kinds |-> None]]
    /\ freed = {} /\ used = {}
    /\ call = [t \in Threads |-> Idle]
    /\ running = [t \in Threads |-> NotRunning]

Runs(n) == \E t \in Threads : running[t].node = n
Configured(n) == \E t \in Threads : call[t].node = n

\* Thread t may set a callback of n, at top level or in a callback.
MayConfigure(t, n) ==
    /\ call[t] = Idle
    /\ "oneAtATime" \in Rules => ~Configured(n)
    /\ "notWhileRunning" \in Rules => ~Runs(n)

Goto(t, at) == call' = [call EXCEPT ![t].at = at]
Done(t) == call' = [call EXCEPT ![t] = Idle]
ObjectsOf(c) == {content[c][k] : k \in Kinds} \ {None}

(***************************************************************************)
(* setVariableNodeValueCallback and setVariableNodeDataSource (kind k).    *)
(* ContextMap::operator[] finds or makes the context, and the object that  *)
(* was there is destroyed.                                                 *)
(***************************************************************************)
BugSet(t, n, k, o, c) ==  \* a new context every time, without the old objects
    /\ MayConfigure(t, n)
    /\ k # "method" /\ o \notin used /\ c \notin used
    /\ map' = [map EXCEPT ![n] = c]
    /\ content' = [content EXCEPT ![c][k] = o]
    /\ used' = used \cup {c, o}
    /\ call' = [call EXCEPT ![t] = [at |-> "setContext", node |-> n, ctx |-> c, kind |-> k]]
    /\ UNCHANGED <<class, pointer, native, freed, running>>
Set(t, n, k, o, c) ==
    /\ MayConfigure(t, n)
    /\ k # "method" /\ o \notin used
    /\ IF map[n] = None THEN c \notin used ELSE c = map[n]
    /\ map' = [map EXCEPT ![n] = c]
    /\ content' = [content EXCEPT ![c][k] = o]
    /\ used' = used \cup {c, o}
    /\ freed' = freed \cup ({content[c][k]} \ {None})
    /\ call' = [call EXCEPT ![t] = [at |-> "setContext", node |-> n, ctx |-> c, kind |-> k]]
    /\ UNCHANGED <<class, pointer, native, running>>

\* UA_Server_setNodeContext; when it fails the context stays in the map.
SetContext(t) ==
    /\ call[t].at = "setContext"
    /\ LET n == call[t].node IN
        IF class[n] = "absent"
        THEN Done(t) /\ UNCHANGED pointer
        ELSE Goto(t, "setFunctions") /\ pointer' = [pointer EXCEPT ![n] = call[t].ctx]
    /\ UNCHANGED <<class, native, map, content, freed, used, running>>

\* UA_Server_setVariableNode_valueCallback or _dataSource.
SetFunctions(t) ==
    /\ call[t].at = "setFunctions"
    /\ LET n == call[t].node IN
        native' = IF class[n] = "variable"
                  THEN [native EXCEPT ![n] = @ \cup {call[t].kind}]
                  ELSE native
    /\ Done(t)
    /\ UNCHANGED <<class, pointer, map, content, freed, used, running>>

(***************************************************************************)
(* setMethodCallback: a new context for the method; the native function    *)
(* comes first, then the pointer, and the map last.                        *)
(***************************************************************************)
NewContext(c, o) ==
    /\ c \notin used /\ o \notin used
    /\ used' = used \cup {c, o}
    /\ content' = [content EXCEPT ![c]["method"] = o]

BugSetMethod(t, n, o, c) ==  \* does not look at the status
    /\ MayConfigure(t, n)
    /\ NewContext(c, o)
    /\ native' = IF class[n] = "method" THEN [native EXCEPT ![n] = {"method"}] ELSE native
    /\ call' = [call EXCEPT ![t] = [at |-> "insert", node |-> n, ctx |-> c, kind |-> "method"]]
    /\ UNCHANGED <<class, pointer, map, freed, running>>
SetMethod(t, n, o, c) ==
    /\ MayConfigure(t, n)
    /\ "methodsWhenIdle" \in Rules => ~Runs(n)
    /\ NewContext(c, o)
    /\ IF class[n] = "method"
       THEN /\ native' = [native EXCEPT ![n] = {"method"}]
            /\ call' = [call EXCEPT ![t] = [at |-> "methodContext", node |-> n, ctx |-> c,
                                            kind |-> "method"]]
            /\ UNCHANGED freed
       ELSE /\ freed' = freed \cup {c, o}
            /\ UNCHANGED <<native, call>>
    /\ UNCHANGED <<class, pointer, map, running>>

MethodContext(t) ==
    /\ call[t].at = "methodContext"
    /\ LET n == call[t].node IN
        IF class[n] = "absent"
        THEN /\ Done(t)
             /\ freed' = freed \cup {call[t].ctx} \cup ObjectsOf(call[t].ctx)
             /\ UNCHANGED pointer
        ELSE /\ Goto(t, "insert")
             /\ pointer' = [pointer EXCEPT ![n] = call[t].ctx]
             /\ UNCHANGED freed
    /\ UNCHANGED <<class, native, map, content, used, running>>

\* addMethod: the C server makes the node with pointer and function in one call.
AddMethod(t, n, o, c) ==
    /\ MayConfigure(t, n)
    /\ NewContext(c, o)
    /\ IF class[n] = "absent"
       THEN /\ class' = [class EXCEPT ![n] = "method"]
            /\ pointer' = [pointer EXCEPT ![n] = c]
            /\ native' = [native EXCEPT ![n] = {"method"}]
            /\ call' = [call EXCEPT ![t] = [at |-> "insert", node |-> n, ctx |-> c,
                                            kind |-> "method"]]
            /\ UNCHANGED freed
       ELSE /\ freed' = freed \cup {c, o}
            /\ UNCHANGED <<class, pointer, native, call>>
    /\ UNCHANGED <<map, running>>

BugInsert(t) ==  \* std::map::insert, which keeps the old element
    /\ call[t].at = "insert"
    /\ LET n == call[t].node
           c == IF map[n] = None THEN None ELSE call[t].ctx
       IN  /\ map' = [map EXCEPT ![n] = IF @ = None THEN call[t].ctx ELSE @]
           /\ freed' = freed \cup (IF c = None THEN {} ELSE {c} \cup ObjectsOf(c))
    /\ Done(t)
    /\ UNCHANGED <<class, pointer, native, content, used, running>>
\* ContextMap::insert: insert_or_assign destroys the context that was there.
Insert(t) ==
    /\ call[t].at = "insert"
    /\ LET n == call[t].node IN
        /\ map' = [map EXCEPT ![n] = call[t].ctx]
        /\ freed' = freed \cup (IF map[n] = None THEN {} ELSE {map[n]} \cup ObjectsOf(map[n]))
    /\ Done(t)
    /\ UNCHANGED <<class, pointer, native, content, used, running>>

(***************************************************************************)
(* Nodes without callbacks, from addNode or a nodeset, and deletion.  The  *)
(* wrapper does nothing in deleteNode: the context stays in the map.       *)
(***************************************************************************)
AddNode(n, k) ==
    /\ class[n] = "absent"
    /\ "oneAtATime" \in Rules => ~Configured(n)
    /\ class' = [class EXCEPT ![n] = k]
    /\ UNCHANGED <<pointer, native, map, content, freed, used, call, running>>

BugDeleteNode(n) ==  \* cleans the map up as well
    /\ class[n] # "absent"
    /\ class' = [class EXCEPT ![n] = "absent"]
    /\ pointer' = [pointer EXCEPT ![n] = None]
    /\ native' = [native EXCEPT ![n] = {}]
    /\ map' = [map EXCEPT ![n] = None]
    /\ freed' = freed \cup (IF map[n] = None THEN {} ELSE {map[n]} \cup ObjectsOf(map[n]))
    /\ UNCHANGED <<content, used, call, running>>
DeleteNode(n) ==
    /\ class[n] # "absent"
    /\ class' = [class EXCEPT ![n] = "absent"]
    /\ pointer' = [pointer EXCEPT ![n] = None]
    /\ native' = [native EXCEPT ![n] = {}]
    /\ UNCHANGED <<map, content, freed, used, call, running>>

(***************************************************************************)
(* onReadNative, onWriteNative, readNative, writeNative and methodCallback *)
(* run the user's object of their kind, if the context has one.            *)
(***************************************************************************)
Invoke(t, n, k) ==
    /\ running[t] = NotRunning /\ call[t] = Idle
    /\ k \in native[n] /\ pointer[n] # None
    /\ "methodsWhenIdle" \in Rules /\ k = "method" =>
        \A u \in Threads : call[u].node = n => call[u].at # "methodContext"
    /\ content[pointer[n]][k] # None
    /\ running' = [running EXCEPT ![t] =
                    [ctx |-> pointer[n], obj |-> content[pointer[n]][k], node |-> n]]
    /\ UNCHANGED <<class, pointer, native, map, content, freed, used, call>>

Return(t) ==
    /\ running[t] # NotRunning /\ call[t] = Idle
    /\ running' = [running EXCEPT ![t] = NotRunning]
    /\ UNCHANGED <<class, pointer, native, map, content, freed, used, call>>

Next ==
    \/ \E t \in Threads :
        \/ \E n \in Nodes, o \in Objects, c \in Contexts :
            \/ \E k \in Kinds : Set(t, n, k, o, c)
            \/ SetMethod(t, n, o, c) \/ AddMethod(t, n, o, c)
        \/ SetContext(t) \/ SetFunctions(t) \/ MethodContext(t) \/ Insert(t)
        \/ \E n \in Nodes, k \in Kinds : Invoke(t, n, k)
        \/ Return(t)
    \/ \E n \in Nodes, k \in {"object", "variable", "method"} : AddNode(n, k)
    \/ \E n \in Nodes : DeleteNode(n)

Spec == Init /\ [][Next]_vars

-----------------------------------------------------------------------------
\* The C server never holds a pointer to a destroyed NodeContext, whichever step
\* of a call fails and however often nodes are deleted and added again.
NodePointersAlive == \A n \in Nodes : pointer[n] \notin freed

\* A native function finds its context and the user's object in it: the assertion
\* nodeContext != nullptr (methodContext != nullptr) holds whenever it is called.
CallbackReady ==
    \A n \in Nodes : \A k \in native[n] :
        \/ pointer[n] # None /\ content[pointer[n]][k] # None
        \/ "methodsWhenIdle" \in Rules /\ \E t \in Threads :
            call[t].node = n /\ call[t].at = "methodContext"

\* Neither a context nor the user's object is destroyed during its callback.
RunningAlive == \A t \in Threads : {running[t].ctx, running[t].obj} \cap freed = {}

\* Nothing leaks: what exists is in the map, or belongs to the call that made it;
\* an object belongs to the context it is in.
AllOwned ==
    /\ \A c \in (used \cap Contexts) \ freed :
        \/ \E n \in Nodes : map[n] = c
        \/ \E t \in Threads : call[t].ctx = c
    /\ \A o \in (used \cap Objects) \ freed :
        \E c \in Contexts \ freed : o \in ObjectsOf(c)

\* The context a node points to is the one that the map has for the node, once
\* no call is in progress: later calls find what the C server uses.
PointsIntoMap ==
    \A n \in Nodes : pointer[n] # None /\ ~Configured(n) => map[n] = pointer[n]

\* Types, and what the calls, the map and the C server know fits together.
Bookkeeping == TypeOK /\ AllOwned /\ PointsIntoMap

=============================================================================
