----------------------------- MODULE ClientItems -----------------------------
(***************************************************************************)
(* The contexts of a Client's subscriptions and monitored items.  Each     *)
(* subscription and monitored item has a context object that holds the     *)
(* user's callbacks.  The C client keeps a bare pointer to it; the object  *)
(* itself is owned by the function that creates the item, then by a        *)
(* ContextMap (ClientContext::subscriptions, ::monitoredItems), and is     *)
(* destroyed when a later call erases it as stale.                         *)
(*                                                                         *)
(* One thread drives the client.  What makes the lifetimes hard is that    *)
(* calls nest: a synchronous service processes network messages while it   *)
(* waits, messages run callbacks, and callbacks call services.  `stack`    *)
(* is that nesting, innermost first.  The C client is external: whenever   *)
(* it has control it may answer requests, notify, or lose the session.     *)
(* An operator Bug... is a wrong version of the one that follows it.       *)
(***************************************************************************)
EXTENDS Naturals, FiniteSets, Sequences

CONSTANTS
    Contexts,         \* MonitoredItemContext and SubscriptionContext objects
    SubIds, MonIds,   \* identifiers of subscriptions and of monitored items
    ParentOf,         \* the subscription of a monitored item
    None,             \* no context
    MaxBatch,         \* bound: items per request
    MaxRequests,      \* bound: asynchronous requests in flight
    MaxDepth,         \* bound: nesting of calls
    SyncInDataCallback,  \* TRUE: synchronous calls are made in notification callbacks
    MoveAssigned         \* TRUE: the Client ends as the target of a move assignment

ASSUME IdsAssumption == SubIds \cap MonIds = {} /\ ParentOf \in [MonIds -> SubIds]
ASSUME NoneAssumption == None \notin Contexts

Ids == SubIds \cup MonIds

VARIABLES
    owner,     \* who owns a context object
    inserted,  \* the contexts with MonitoredItemContext::inserted
    stale,     \* the contexts with the flag stale
    map,       \* the two ContextMaps, as one function of the identifiers
    native,    \* external: the C client's items, each with its context pointer
    requests,  \* external: asynchronous requests that are not answered yet
    stack,     \* the calls in progress, innermost first
    closed     \* the Client is destroyed

vars == <<owner, inserted, stale, map, native, requests, stack, closed>>

(***************************************************************************)
(* A frame of the stack.  The C client has control in "create", "remove"   *)
(* (a synchronous service waits for its answer), "loop" (runIterate),      *)
(* "purge" (it deletes items) and "close" (UA_Client_delete); "created"    *)
(* and "answered" are just before the wrapper gets control back; the       *)
(* user's callbacks are "data", "delete" and "handler".                    *)
(***************************************************************************)
Callbacks == {"data", "delete", "handler"}
Waiting == {"create", "remove", "loop"}

Frames == [at : Callbacks \cup Waiting \cup {"created", "answered", "purge", "close"},
           ctxs : SUBSET Contexts,
           ids : SUBSET Ids,
           res : SUBSET (Ids \X Contexts)]

Frame(at, cs, is) == [at |-> at, ctxs |-> cs, ids |-> is, res |-> {}]

TypeOK ==
    /\ owner \in [Contexts -> {"none", "caller", "request", "map", "freed"}]
    /\ inserted \subseteq Contexts
    /\ stale \subseteq Contexts
    /\ map \in [Ids -> Contexts \cup {None}]
    /\ native \in [Ids -> Contexts \cup {None}]
    /\ requests \subseteq [ctxs : SUBSET Contexts, ids : SUBSET Ids]
    /\ stack \in Seq(Frames)
    /\ closed \in BOOLEAN

Init ==
    /\ owner = [c \in Contexts |-> "none"]
    /\ inserted = {}
    /\ stale = {}
    /\ map = [i \in Ids |-> None]
    /\ native = [i \in Ids |-> None]
    /\ requests = {}
    /\ stack = <<>>
    /\ closed = FALSE

OnStack(at) == \E k \in DOMAIN stack : stack[k].at = at
At(labels) == stack # <<>> /\ Head(stack).at \in labels
Room == Len(stack) < MaxDepth
Push(f) == stack' = <<f>> \o stack
Pop == stack' = Tail(stack)
Replace(f) == stack' = <<f>> \o Tail(stack)

\* The user's code has control, at top level or in a callback.
User == ~closed /\ ~OnStack("close") /\ (stack = <<>> \/ At(Callbacks))
\* ... and makes a call that waits for the server, or that erases stale contexts.
UserSync == User /\ Room /\ (SyncInDataCallback \/ ~OnStack("data"))

\* The identifiers that share a ContextMap with i.
MapOf(is) == IF is \subseteq SubIds THEN SubIds ELSE MonIds
\* The identifiers an answer can give to new items: a request is for one
\* subscription, or for monitored items of one subscription.
Targets == {SubIds} \cup {{m \in MonIds : ParentOf[m] = s} : s \in SubIds}

NewContexts(cs, is) ==
    /\ cs \subseteq {c \in Contexts : owner[c] = "none"}
    /\ cs # {}
    /\ Cardinality(cs) <= (IF is = SubIds THEN 1 ELSE MaxBatch)

Create(cs, is) ==
    /\ UserSync
    /\ NewContexts(cs, is)
    /\ owner' = [c \in Contexts |-> IF c \in cs THEN "caller" ELSE owner[c]]
    /\ Push(Frame("create", cs, is))
    /\ UNCHANGED <<inserted, stale, map, native, requests, closed>>

\* The context objects move into the hook of the completion handler, which the
\* C client keeps as userdata until it has an answer.
CreateAsync(cs, is) ==
    /\ User
    /\ Cardinality(requests) < MaxRequests
    /\ NewContexts(cs, is)
    /\ owner' = [c \in Contexts |-> IF c \in cs THEN "request" ELSE owner[c]]
    /\ requests' = requests \cup {[ctxs |-> cs, ids |-> is]}
    /\ UNCHANGED <<inserted, stale, map, native, stack, closed>>

Delete(i) ==
    /\ UserSync
    /\ Push(Frame("remove", {}, {i}))
    /\ UNCHANGED <<owner, inserted, stale, map, native, requests, closed>>

DeleteAsync(i) ==
    /\ User
    /\ Cardinality(requests) < MaxRequests
    /\ requests' = requests \cup {[ctxs |-> {}, ids |-> {i}]}
    /\ UNCHANGED <<owner, inserted, stale, map, native, stack, closed>>

RunIterate ==
    /\ stack = <<>> /\ ~closed
    /\ Push(Frame("loop", {}, {}))
    /\ UNCHANGED <<owner, inserted, stale, map, native, requests, closed>>

(***************************************************************************)
(* ContextMap.  An object that leaves the map is destroyed.                *)
(***************************************************************************)
\* insert_or_assign of the pairs in r; the C client registers its items likewise.
Updated(base, r) ==
    [i \in Ids |-> IF \E c \in Contexts : <<i, c>> \in r
                   THEN CHOOSE c \in Contexts : <<i, c>> \in r
                   ELSE base[i]]

EraseStale(is) == [i \in Ids |-> IF i \in is /\ map[i] \in stale THEN None ELSE map[i]]

BugOwnersAfter(newMap, offered) ==  \* keeps the contexts of items that were not created
    [c \in Contexts |->
        IF \E i \in Ids : newMap[i] = c THEN "map"
        ELSE IF owner[c] = "map" THEN "freed" ELSE owner[c]]
OwnersAfter(newMap, offered) ==
    [c \in Contexts |->
        IF \E i \in Ids : newMap[i] = c THEN "map"
        ELSE IF c \in offered \/ owner[c] = "map" THEN "freed" ELSE owner[c]]

\* Client::subscriptions and Subscription::monitoredItems erase before they list.
List(is) ==
    /\ UserSync
    /\ map' = EraseStale(is)
    /\ owner' = OwnersAfter(map', {})
    /\ UNCHANGED <<inserted, stale, native, requests, stack, closed>>

(***************************************************************************)
(* External: the C client answers a request.  A server gives an identifier *)
(* to one item at a time, and not while the item that had it is deleted.   *)
(***************************************************************************)
Free(i) ==
    /\ native[i] = None
    /\ \A k \in DOMAIN stack : stack[k].at \in {"purge", "delete"} => i \notin stack[k].ids
    /\ i \in MonIds => native[ParentOf[i]] # None

Answers(cs, is) ==
    {r \in SUBSET ({i \in is : Free(i)} \X cs) :
        \A p, q \in r : (p[1] = q[1] \/ p[2] = q[2]) => p = q}

CreateAnswer ==
    /\ At({"create"})
    /\ \E r \in Answers(Head(stack).ctxs, Head(stack).ids) :
        /\ native' = Updated(native, r)
        /\ Replace([Head(stack) EXCEPT !.at = "created", !.res = r])
    /\ UNCHANGED <<owner, inserted, stale, map, requests, closed>>

\* In UA_Client_delete every request is answered, without a result.
CreateAsyncAnswer(q) ==
    /\ (At(Waiting) /\ Room) \/ At({"close"})
    /\ q.ctxs # {}
    /\ requests' = requests \ {q}
    /\ \E r \in (IF At({"close"}) THEN {{}} ELSE Answers(q.ctxs, q.ids)) :
        /\ native' = Updated(native, r)
        /\ Push([Frame("answered", q.ctxs, q.ids) EXCEPT !.res = r])
    /\ UNCHANGED <<owner, inserted, stale, map, closed>>

BugStoredAllOrNone(f) == IF Cardinality(f.res) < Cardinality(f.ctxs) THEN {} ELSE f.res
\* The items of a response that the wrapper stores: those with a good result.
Stored(f) == f.res

\* The wrapper is back from the C call, or in the hook of the answer: it stores
\* the contexts of the items that were created and destroys the others.
Store ==
    /\ At({"created", "answered"})
    /\ LET f == Head(stack)
           base == IF Stored(f) = {} THEN map ELSE EraseStale(MapOf(f.ids))
       IN  /\ map' = Updated(base, Stored(f))
           /\ owner' = OwnersAfter(map', f.ctxs)
           /\ inserted' = inserted \cup {p[2] : p \in Stored(f)}
           /\ IF f.at = "created" THEN Pop ELSE Replace(Frame("handler", {}, {}))
    /\ UNCHANGED <<stale, native, requests, closed>>

(***************************************************************************)
(* External: notifications.  The C client may notify an item as soon as it *)
(* has it, even before the create call returns; the context's own gate     *)
(* (inserted) suppresses that for a monitored item.                        *)
(***************************************************************************)
BugGate(i) == TRUE
Gate(i) == i \in MonIds => native[i] \in inserted

Notify(i) ==
    /\ At(Waiting) \/ (At({"created", "answered"}) /\ \E p \in Head(stack).res : p[1] = i)
    /\ Room
    /\ native[i] # None
    /\ Gate(i)
    /\ Push(Frame("data", {native[i]}, {i}))
    /\ UNCHANGED <<owner, inserted, stale, map, native, requests, closed>>

CallbackReturn ==
    /\ At({"data", "handler"})
    /\ Pop
    /\ UNCHANGED <<owner, inserted, stale, map, native, requests, closed>>

(***************************************************************************)
(* External: deletion, on request or because the session is lost.  The     *)
(* monitored items of a subscription go before it; each item is forgotten  *)
(* and its delete callback is run.                                         *)
(***************************************************************************)
Closure(i) == {i} \cup {m \in MonIds : ParentOf[m] = i}

DeleteAnswer ==
    /\ At({"remove"})
    /\ \/ Pop
       \/ \E i \in Head(stack).ids :
            native[i] # None /\ Replace(Frame("purge", {}, Closure(i)))
    /\ UNCHANGED <<owner, inserted, stale, map, native, requests, closed>>

DeleteAsyncAnswer(q) ==
    /\ (At(Waiting) /\ Room) \/ At({"close"})
    /\ q.ctxs = {}
    /\ requests' = requests \ {q}
    /\ \/ UNCHANGED stack
       \/ \E i \in q.ids : native[i] # None /\ ~At({"close"}) /\ Push(Frame("purge", {}, Closure(i)))
    /\ UNCHANGED <<owner, inserted, stale, map, native, closed>>

SessionLost ==
    /\ At(Waiting) /\ Room
    /\ \E i \in Ids : native[i] # None
    /\ Push(Frame("purge", {}, Ids))
    /\ UNCHANGED <<owner, inserted, stale, map, native, requests, closed>>

Doomed == {i \in Head(stack).ids : native[i] # None}
DeleteNext(i) ==
    /\ i \in Doomed
    /\ i \in SubIds => \A m \in MonIds \cap Doomed : ParentOf[m] # i
    /\ native' = [native EXCEPT ![i] = None]
    /\ Push(Frame("delete", {native[i]}, {i}))

BugPurge(i) ==  \* marks the context before it runs the user's callback
    /\ At({"purge", "close"})
    /\ DeleteNext(i)
    /\ stale' = stale \cup {native[i]}
    /\ UNCHANGED <<owner, inserted, map, requests, closed>>

Purge(i) ==
    /\ At({"purge", "close"})
    /\ DeleteNext(i)
    /\ UNCHANGED <<owner, inserted, stale, map, requests, closed>>

BugDeleteReturn ==  \* leaves the context unmarked
    /\ At({"delete"})
    /\ Pop
    /\ UNCHANGED <<owner, inserted, stale, map, native, requests, closed>>

DeleteReturn ==
    /\ At({"delete"})
    /\ stale' = stale \cup Head(stack).ctxs
    /\ Pop
    /\ UNCHANGED <<owner, inserted, map, native, requests, closed>>

PurgeEnd ==
    /\ At({"purge"}) /\ Doomed = {}
    /\ Pop
    /\ UNCHANGED <<owner, inserted, stale, map, native, requests, closed>>

LoopEnd ==
    /\ At({"loop"})
    /\ Pop
    /\ UNCHANGED <<owner, inserted, stale, map, native, requests, closed>>

(***************************************************************************)
(* ~Client deletes the C client, whose last callbacks still run, and then  *)
(* the ClientContext with all maps.  A move assignment onto the Client     *)
(* destroys them in the opposite order.                                    *)
(***************************************************************************)
DestroyContexts ==
    /\ map' = [i \in Ids |-> None]
    /\ owner' = OwnersAfter(map', {})

BugClose ==  \* destroys the contexts first
    /\ stack = <<>> /\ ~closed
    /\ Push(Frame("close", {}, Ids))
    /\ DestroyContexts
    /\ UNCHANGED <<inserted, stale, native, requests, closed>>

Close ==
    /\ stack = <<>> /\ ~closed
    /\ Push(Frame("close", {}, Ids))
    /\ IF MoveAssigned THEN DestroyContexts ELSE UNCHANGED <<owner, map>>
    /\ UNCHANGED <<inserted, stale, native, requests, closed>>

CloseEnd ==
    /\ At({"close"}) /\ Doomed = {} /\ requests = {}
    /\ Pop
    /\ DestroyContexts
    /\ closed' = TRUE
    /\ UNCHANGED <<inserted, stale, native, requests>>

Gone == closed /\ UNCHANGED vars

Next ==
    \/ \E cs \in SUBSET Contexts, is \in Targets : Create(cs, is) \/ CreateAsync(cs, is)
    \/ \E i \in Ids : Delete(i) \/ DeleteAsync(i) \/ Notify(i) \/ Purge(i)
    \/ \E is \in {SubIds, MonIds} : List(is)
    \/ \E q \in requests : CreateAsyncAnswer(q) \/ DeleteAsyncAnswer(q)
    \/ RunIterate \/ LoopEnd
    \/ CreateAnswer \/ Store \/ CallbackReturn
    \/ DeleteAnswer \/ SessionLost \/ DeleteReturn \/ PurgeEnd
    \/ Close \/ CloseEnd \/ Gone

Spec == Init /\ [][Next]_vars

-----------------------------------------------------------------------------
Alive(c) == owner[c] # "freed"

\* The C client never holds a pointer to a destroyed context: a context is
\* erased only after the C client has forgotten its item.
NativePointersAlive == \A i \in Ids : native[i] # None => Alive(native[i])

\* A context is not destroyed while one of its callbacks runs, however deep the
\* services, event loops and callbacks nest.
RunningContextsAlive ==
    \A k \in DOMAIN stack :
        stack[k].at \in {"data", "delete"} => \A c \in stack[k].ctxs : Alive(c)

\* Nothing leaks: a context in a map belongs to an item of the C client, or has
\* its delete callback running, or is marked for the next erasure.
StoredOrStale ==
    \A i \in Ids : map[i] # None =>
        \/ native[i] = map[i]
        \/ map[i] \in stale
        \/ \E k \in DOMAIN stack : stack[k].at = "delete" /\ map[i] \in stack[k].ctxs

\* ... and a context that is not in a map yet belongs to a create call that waits
\* for its answer, or to a request whose answer is still to come.
OffersPending ==
    \A c \in Contexts : owner[c] \in {"caller", "request"} =>
        \/ \E k \in DOMAIN stack : stack[k].at \in {"create", "created", "answered"} /\ c \in stack[k].ctxs
        \/ \E q \in requests : c \in q.ctxs

\* The maps agree with the C client: the item the C client knows by an
\* identifier, once inserted, is the one the application finds by it.
MapsAgree == \A i \in Ids : native[i] \in inserted => map[i] = native[i]

\* What the calls, the requests, the maps and the C client know fits together.
Bookkeeping == TypeOK /\ OffersPending /\ MapsAgree

\* When a monitored item's callback is called, the application can already look
\* the item up (MonitoredItem::nodeId throws otherwise).
NotifiedIsFound ==
    [][\A i \in MonIds : Notify(i) => map[i] = native[i]]_vars

\* No item disappears silently: an inserted context is destroyed only after its
\* delete callback has run.
DeleteCallbackRan == \A c \in inserted : Alive(c) \/ c \in stale

=============================================================================
