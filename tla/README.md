# Formal models of open62541pp

open62541pp wraps the C library open62541 (OPC UA) in C++: RAII handles for servers and clients,
typed values, services as function templates, and C++ callbacks in the place of function pointers
with `void*` contexts.  The values and the service calls are mostly translation.  What can go wrong
in a way that tests hardly reach is what the wrapper adds to the C library's state: flags and
mutexes around the main loops, the lifetime of the context objects the C library points to, the
order in which callbacks and bookkeeping happen, and exceptions that have to travel through C code.
These models are about that.

Everything below the wrapper (the C library, the network, the peer) is external: it is modelled only
as far as `src/` relies on it, and every definition of that kind is marked so.

Paths are relative to the repository; `server.cpp` is `src/src/server.cpp`, and so on.

## 1. The system's parts

| Part | State | Operations | Interacts with |
|---|---|---|---|
| Server lifecycle (`server.cpp`, `detail/server_context.hpp`) | `running`, `stopRequested`, `mutexStartup`, `mutexRun`, the C server | `run`, `runIterate`, `stop`, `isRunning`, `~Server` | every thread of the application; user callbacks inside an iteration |
| Exception catcher (`detail/exceptioncatcher.hpp`) | one `std::exception_ptr` | `invoke`, `setException`, `rethrow` | written by callbacks, read by the main loops |
| Session registry (`server.cpp`) | a map of active sessions, the plugin's two replaced functions | `applySessionRegistry`, `activateSession`, `closeSession`, `sessions` | the access control plugin, `runStartup`, application threads |
| Client main loop (`client.cpp`) | atomic `running`, exception slot | `run`, `runIterate`, `stop` | other threads through `stop` |
| Client connection states (`client.cpp`) | last channel and session state, four callbacks | `stateCallback` | re-entered from user callbacks that call services |
| Subscriptions and monitored items, client (`services_subscription.cpp`, `services_monitoreditem.cpp`, `detail/contextmap.hpp`, `services/detail/*`) | two `ContextMap`s of contexts, the flags `stale` and `inserted` | create, delete (sync and async), list, notifications, deletion callbacks | the C client holds bare pointers to the contexts |
| Monitored items, server (`services_monitoreditem.cpp`) | a `ContextMap`, erased at once | create, delete, notifications | runs in the server's iteration, and in any thread that writes a node |
| Timed callbacks (`callback.cpp`) | a `ContextMap` of callbacks, the flag `stale` | add, change, remove | the C timers |
| Asynchronous services (`async.hpp`, `services/detail/client_service.hpp`, `async_hook.hpp`) | the handler and its context, per request | initiate, complete, hook | the C client's request list |
| Node contexts (`plugin/nodestore.cpp`, `services_nodemanagement.cpp`) | one context per node: value callback, data source, method callback | set, invoke | the C server's node store |
| Ownership (`server.cpp`, `client.cpp`) | `context_` and the C handle, a back pointer in the C config | move, destroy | all callbacks find the wrapper through the config |
| Access control (`plugin/accesscontrol*.cpp`) | adapter, login list | session and rights callbacks | called by the C server |
| Browsing (`services/view.hpp`, `node.hpp`) | none; continuation points of the session | `browseAll`, `browseChildren`, `browseParent` | the session's few places for continuation points |
| Values and arrays (`wrapper.hpp`, `types.hpp`, `detail/types_handling.hpp`) | heap memory behind wrappers and Variants | copy, move, assign, borrow, clear | C++ ranges, `UA_copy`, `UA_clear` |
| Data types, nodes, service requests | values only | conversions | - |
| Events, configuration, logging, certificates, nodeset loader, generated tables | none | forwarding | - |

How they interact: the application calls the wrapper; the wrapper calls the C library; the C library
calls the wrapper's static functions with a `void*` context, which call the user's `std::function`
inside `ExceptionCatcher::invoke` or `tryInvoke`; and that function may call the wrapper again.  So
calls nest, and on the server other threads run beside them.

What is hard, and what makes each part correct:

* **Server lifecycle**: interleavings of `run`, `runIterate` and `stop`.  The C server's lifecycle
  functions are not made for two callers at a time.  `stop` must end `run` whenever it comes.
  Between calls `running` must tell the truth, since `~Server` decides by it.
* **Exceptions**: one slot, several writers.  An exception must get out of the loop, once, and the
  loop's flag must be right afterwards.
* **Session registry**: the wrapper takes the place of functions of a plugin that the application
  can replace.  It must call the configured plugin's functions, never its own, and list exactly the
  active sessions.
* **Client loop**: the flag is set by `run` and cleared by `stop`, without a lock.
* **Client states**: the last state is stored after the callbacks have run.  What the callbacks told
  the application must agree with the connection.
* **Client items**: a context must outlive each pointer the C client has to it and each of its
  running callbacks, must not leak, and must be found by the identifier that the application gets.
* **Server items and timers**: the same, without the nesting but with other threads; the Server
  erases an item's context right after the C call, and a timer's context is stored after the timer
  is armed.
* **Asynchronous services**: each completion handler is invoked or fails, once; if it fails, the
  reason must reach the application; what the C client points to must live until the client is gone.
* **Node contexts**: setting a callback takes three C calls that can fail one by one, in any order
  with deletions; the object that is replaced may be running.
* **Ownership**: two members, `context_` and the handle, move one after the other, and the deletion
  of the C object calls back into whichever wrapper its configuration names.
* **Access control**: who may log in, and what the C server is told if an override throws.
* **Browsing**: all references or an error, over any number of responses; continuation points given
  back.
* **Values**: each native is freed once, on every path of a copy that fails.

The components and the hazards, each with its line, are listed in `PROJECT.json`.

## 2. The modules

| Module | Uses | What it is |
|---|---|---|
| `NativeServer` | - | abstract: what a C server expects of its driver |
| `ServerLifecycle` | `NativeServer` (refinement) | `Server::run`, `runIterate`, `stop`, `~Server` by any number of threads |
| `MCServerLifecycle` | `ServerLifecycle` | a set of rules for TLC |
| `ClientLoop` | - | `Client::run`, `runIterate`, `stop` |
| `ClientStates` | - | `stateCallback` and its re-entrance |
| `ClientMain` | `ClientLoop`, `ClientStates` | their composition: reports and exceptions during the calls of a Client |
| `ClientItems`, `MCClientItems` | - | contexts of the client's subscriptions and monitored items |
| `AsyncRequest` | - | abstract: what an asynchronous service promises about a request |
| `AsyncServices` | `AsyncRequest` (refinement) | `initiate`, the answer, hook and handler, `~Client` |
| `ServerCallbacks` | - | monitored items of a Server, timed and repeated callbacks |
| `NodeContexts`, `MCNodeContexts` | - | value callbacks, data sources and method callbacks of nodes |
| `Ownership` | - | construction, moves and destruction of Server and Client |
| `AccessControl` | - | operators: the login decision of `AccessControlDefault` |
| `SessionRegistry`, `MCSessionRegistry` | `AccessControl` | `sessions()` and the wrapped access control functions |
| `NodeBrowsing` | - | `browseAll` and the functions of `Node` that browse |
| `Values`, `MCValues` | - | memory of wrappers, Variants and arrays |
| `..._proof` | the module and `TLAPS` | theorems, see section 5 |

Operators named `Bug...` are wrong versions of the operator that follows them.  No specification
uses them; each shows that a property can be violated by a plausible slip.

Several modules have a constant `Rules` or a flag.  The code documents few rules of use; the rules
are what the properties turn out to need of the application, and section 4 says what happens without
each of them.

### ServerLifecycle

`pc[t]` is the place where thread t is, `op[t]` the driving call it is in (a `stop` that a callback
makes runs inside one).  The two mutexes are variables with an owner.  Actions, in the order of the
code:

* `CallRun`, `CallRunIterate` (its first read of `running`), `CallStop`, `Destroy`: a call begins.
* `StartupSkip`, `StartupBegin`, `StartupEnd`, `StartupFail`: `runStartup` under `mutexStartup`; the
  C call has a begin and an end, so that other threads can act in between.
* `NotStarted`, `Started`: the read of `running` after `runStartup`.
* `Enter`, `Iterate`, `Leave`, `IterateEnd`, `NothingToRethrow`, `Rethrow`, `Unwind`: the loop of
  `run` under `mutexRun`, or the single iteration of `runIterate`, which takes no lock.
* `StopNotRunning`, `StopRunning`, `ShutdownBegin`, `ShutdownEnd`, `ShutdownFail`: `stop`.  Its
  first critical section is one step: nothing in it can wait.
* `CallbackThrows`, `CallbackStops`: what a user callback may do in an iteration.
* `CloseEnd`, `Delete`: `Server::Deleter`.

The environment is bound by C++ itself (no call on an object that is being destroyed) and by five
rules:

1. *one driver*: no `run` or `runIterate` while another is in progress.
2. *await stop*: none while a `stop` is in progress.  `stop` clears `running` (server.cpp:373)
   before it shuts the C server down (377); a startup in this gap is shut down by it.
3. *run stopped*: no `run` on a server that `runIterate` has started.
4. *await iterate*: no `stop` while a `runIterate` is in progress, which holds no mutex.
5. *inner stop late*: a callback calls `stop` only in an iteration of `run` and only when `running`
   is off already, as the second of two calls does.

`faulted` is a history variable: `run` threw or a shutdown failed, and no shutdown has followed.  In
that state `running` is false although the C server is started: that is what the code does
(server.cpp:361), and the properties say where they except it.

`NativeServer` is the abstract view: the C server's state, the lifecycle call that each thread is
in, and whether an error is outstanding.  The refinement mapping is `Native` in `ServerLifecycle`:
`calls` is computed from the program counters (`NativeCall`), so a loop's iterations, the shutdown
in `stop` and the one in `~Server` become calls of the same protocol.

### ClientLoop, ClientStates and ClientMain

`ClientLoop` has a program counter per thread as in `ServerLifecycle`, without mutexes.
`IterateFails` keeps the order of the code: the bad status is thrown before `rethrow()` is reached.
`run` has two rethrows, the one in `runIterate` and its own.

In `ClientStates`, `channel` and `session` are the C client's states, `stack` the calls of
`stateCallback` in progress.  A call compares the session state (`HandleSession`), runs a callback,
compares the channel state (`HandleChannel`), runs a callback, and stores both states (`Store`);
while a callback runs, a further report may come in if `NestedReports`.  The moves of the C client
follow the table in front of `stateCallback` (client.cpp:138).

`ClientMain` lets reports come only while a thread is inside a driving call or a synchronous service
(`StateReported`), and lets that thread go on only when the report has been handled
(`DriverReturns`).  A state callback that throws (`StateCallbackThrows`) fills the slot that the
loop empties, and `stateCallback` goes on.

### ClientItems

One thread drives a client, but calls nest.  `stack` holds the calls in progress; whenever the C
client has control (a synchronous service that waits, `runIterate`, a deletion, `UA_Client_delete`)
it may answer requests, notify items or lose the session.  `owner[c]` is the owner of a context: the
calling function, a pending request's hook, a map, or none any more.  `map` is the two `ContextMap`s
and `native` the pointers that the C client holds.  Subscription and monitored item share the
actions, as their code has the same shape; they differ by `Gate` (only monitored items have the flag
`inserted`).  `Close` is `~Client`, or with `MoveAssigned` the move assignment, in which the
contexts go first.

### AsyncServices

`state[r]` says who owns the context of request r: `initiate` while it calls the C function
(`Initiate`, `Accepted`, `Refused`), the C client until the answer (`Answer`, or `AnswerNull` for an
answer without a response), the callback while it runs the hook and the handler (`HookReturns`,
`HookThrows`, `HandlerReturns`, `HandlerThrows`).  `stack` has the handlers and the waiting C calls
in progress: a handler may start and await further requests, and runs in a synchronous service, in
an iteration or in `UA_Client_delete`, which answers what is left (`Close`, `CloseEnd`).  `slot`
holds the request whose exception is kept.  Requests are not started while the C client is being
deleted: `User` excludes it.  The mapping to `AsyncRequest` is `RequestOf`.

### ServerCallbacks

A context is `"item"`, `"timed"` or `"repeated"`.  `Add`, `Remove` make the C call, and
`InsertCallback`, `InsertItem`, `OpenGate`, `Erase` the change of the map that follows it; other
threads act in between.  `Iterate` to `IterateEnd` is one thread's iteration: `Fire` runs a
callback, through the gate `inserted` for items; `CallbackReturn`, `MarkStale` and `ResetItem` are
what the callback of a timer does after the user's function.  `Erased` is the sweep of stale
contexts that each insertion begins with.  Rules: *no removal while running* (neither by the
callback itself nor by another thread) and *add in loop* (while a thread iterates, only its
callbacks add timers).

### NodeContexts

`pointer`, `native` and `class` are what the C server knows of a node, `map` and `content` what the
wrapper owns.  `Set`, `SetContext`, `SetFunctions` are the three steps of
`setVariableNodeValueCallback` and `setVariableNodeDataSource`; `SetMethod`, `MethodContext`,
`Insert` those of `setMethodCallback`; `AddMethod` and `AddNode` make nodes and `DeleteNode` removes
one, while the map keeps its context (services_nodemanagement.cpp:242).  `Invoke` and `Return` are a
native function that runs the user's object.  Rules: *oneAtATime* (per node one setter, and no
re-adding during it), *notWhileRunning* (nothing is set on a node while one of its callbacks runs)
and *methodsWhenIdle* (no call of a method while its callback is set).

### Ownership

A C object and the context made with it have one name, a handle.  `at[w]` is the place of a wrapper
in a constructor, assignment or destructor.  `MoveAssign` destroys the old context, `AssignHandle`
hands the old C object to the deleter (`Deleter`, `Shutdown`, `Delete`), `SetWrapper` renews the
back pointer; `Destroy` does the same in the order of the members' destructors, with
`DestroyContext` last.  `ContextOf` is what a callback finds through the C configuration.  `kind`
makes all wrappers Servers or all Clients, as the two classes differ in the deleter.

### AccessControl and SessionRegistry

`AccessControl` has `ActivateStatus`, the login decision, beside `Invited`, what the documentation
says of it.  In `SessionRegistry`, `wrapped` says that the plugin object's two functions are the
Server's, `user` which plugin's functions the Server has kept.  `Startup` includes
`applySessionRegistry`.  The handlers `ActivateSession` and `CloseSession` stop between the plugin's
function and the map (`call`), since `sessions()` in another thread can look at the map there;
`Insert` and `Erase` are the locked parts.  An override that throws refuses the session.  The
constant `AnyTime` opens `setAccessControl` on a server that has sessions.

### NodeBrowsing

`answer` is the address space: the references that match a query.  `points` are the continuation
points of a session, shared by all callers.  `Call` begins a function of `Node`; `BrowseFits`,
`BrowseMore`, `BrowseRefused` are the three results of the first request, `BrowseNext` a further
one, `Fault` a bad service result, `ResponseLost` a response that the server sent and the client did
not get.  `Result` and `Finish` translate the references into the function's result.

### Values

`heap` has the live texts, the blocks' elements and the wrappers' texts.  Copies are sets of
outcomes (`Copy`, `Allocate`), since an allocation may fail.  The actions are the operations of a
wrapper (`WrapperConstruct`, `WrapperCopy`, `WrapperMove`), of a Variant (`Borrow`, `VariantCopy`,
`VariantMove`, `VariantClear`, `TakeScalar`) and the copy of a range into a Variant, element by
element (`AssignBegin`, `CopyElement`, `Grow`, `Throw`, `AssignEnd`; `AssignEmptyRange` with the
sentinel).  Rules: *wrappersOnly*, *lenderLasts*, *shortSinglePass*, see section 4.

## 3. Runs

| Run | Instance | Distinct states | Result |
|---|---|---|---|
| `server` | 3 threads, all rules, failures | 2148 | holds |
| `server_run_after_iterate` | 2 threads, without *run stopped* | | violated: finding 1 |
| `client_main` | 3 threads, no nested reports, `StopsRunning` | 6144 | holds |
| `client_items` | 4 contexts, 1 subscription, 2 items, nesting 5 | 283371 (up to symmetry) | holds |
| `async_services` | 3 requests, 1 with a hook, nesting 4 | 1675 | holds |
| `server_callbacks` | 2 threads, 3 contexts, both rules | 27516 | holds |
| `node_contexts` | 2 threads, 1 node, 4 contexts, 4 objects, all rules | 3677 (up to symmetry) | holds |
| `ownership` | 3 wrappers, 3 C objects, `AssignIdleOnly` | 370769 | holds |
| `session_registry` | 3 sessions, 23 tokens, 3 plugins | 334 (up to symmetry) | holds |
| `node_browsing` | 2 callers, 2 points, up to 4 references in pages of 1, faults | 73916 | holds |
| `node_browsing_parent` | 1 caller, no faults | | violated: finding 2 |
| `values` | 2 wrappers, 2 Variants, 4 texts, 3 blocks, first capacity 1, ranges up to 3 | 159810 (up to symmetry) | holds |

What they show:

* `server`: nothing deadlocks; the server never runs with a stop request pending; between calls the
  flag tells the state; the Server implements `NativeServer`, so the C server is started when
  stopped, iterated when started, shut down once, and deleted when shut down, one call at a time;
  `stop` ends `run`, `stop` returns, and the exception of a callback is thrown by the loop it was
  raised in.
* `client_main`: `isRunning` is true only during a `run`, also after an exception; `stop` ends
  `run`; the callbacks tell the truth about channel and session on each path and also if one of them
  throws, and SessionClosed comes before Disconnected.
* `client_items`: lifetimes, leaks and bookkeeping with batches that fail in part, notifications
  before the create call returns, nested calls, a session that is lost at any moment, and a client
  that is destroyed with requests in flight.
* `async_services`: what the C client points to is alive; a handler that will never be invoked
  leaves its exception in the slot; each request ends as `AsyncRequest` says, once, also if the
  client is destroyed.
* `server_callbacks`: pointers of the C server and running callbacks alive; the context of a timer
  that is gone will be collected; an item is notified only once it can be looked up.
* `node_contexts`: the native functions find a living context with the object they run, whichever
  step fails.
* `ownership`: each C object has one owner, callbacks find it and its context, pointers into a
  context end before it does, and a started server is shut down before it is deleted.
* `session_registry`: over restarts, failed startups and changes of plugin, `sessions()` lists the
  active sessions, and each of them has shown a token that entitles it.
* `node_browsing`: `browseAll` returns all references or an error, gives its points back, and ends.
* `values`: no text and no block has two owners or none, on each path of a copy that fails.

Bounds, and why they suffice.  Where a safety property is proved as well (section 5), the number of
threads, nodes, contexts, wrappers and so on is bounded only for TLC.  Three threads allow one in
`run`, one in `stop` and one in any further call.  In `ServerCallbacks` and `NodeContexts` two
threads are the one that runs callbacks and one that configures, and with three (four) contexts one
is used up, one is in use and one is new.  A single node in `NodeContexts` is deleted and added
again as another class; nodes share nothing but the threads.  In `Ownership` three wrappers allow an
assignment while a third object moves.  In `SessionRegistry` the sessions do not influence each
other; three plugins make a replacement, and the tokens are all combinations of an empty and a
non-empty text.  `ClientItems` has three bounds: `MaxBatch` = 2 lets one item of a request fail and
the other succeed; `MaxRequests` = 2 lets answers come in either order; `MaxDepth` = 5 has room for
a synchronous call in a callback in a deletion in a synchronous call.  Four contexts are two more
than the items of a batch, so that identifiers are reused while stale contexts are still there.
`AsyncServices` nests three requests and a waiting call.  `ClientStates` needs `MaxDepth` = 1 where
reports do not nest.  In `NodeBrowsing` four references in pages of one take three further requests,
and two points are fewer than the callers may need together with the lost ones.  In `Values` a first
capacity of 1 makes an array of three grow twice; the code's 16 would only make the same steps
rarer.

Deadlock is checked in all passing runs but `ownership`, where each wrapper and each C object can be
used up.

Fairness.  *Server*: weak fairness on the steps of a call in progress, for each thread (the
operating system goes on running threads, and a C call returns), and strong fairness on the end of
an iteration, which does not go on for ever because its callbacks call `stop` again and again.
Nobody has to make a call, throw or stop.  Under the rules no thread takes `mutexRun` over and over,
so weak fairness is enough to get it; starvation of a `std::mutex` is not modelled.  *Client*: weak
fairness on the steps of a call and of a report, strong fairness on the return of
`UA_Client_run_iterate` and of a service: they have a timeout, however often the state changes
meanwhile.  *AsyncServices*: calls return, by their timeout if not earlier (weak fairness); a
handler that calls services over and over returns in the end (strong fairness on `Progress`); and
while a client is iterated or destroyed a pending request is answered at some point, by the server,
by the C client's timeout or by `UA_Client_delete` (strong fairness on answers outside other
handlers).  The application is assumed to iterate its client until it destroys it (weak fairness on
`RunIterate`): responses are processed in `runIterate`, as client.hpp:225 says, and without it
nothing would end.  *NodeBrowsing*: weak fairness on each caller, since a service returns.

## 4. Findings and what the rules are for

Findings with a run:

1. `run()` on a server that `runIterate()` started (server.cpp:327).  A `stop()` between the call
   and `runStartup`'s lock finds `running` set, clears it and leaves no request; `runStartup` then
   starts the server again, and `run()` is not ended by that `stop()`, against server.hpp:192.
2. `browseParent` (node.hpp:646) asks for one reference and ignores the continuation point that a
   second parent brings.  Each call takes one of the session's places; with none left it throws,
   although node.hpp:635 says that the first parent is returned.

What happens without the rules; each can be tried by changing a constant:

* *inner stop late*: `stop()` in a callback of `run`'s own iteration waits for `mutexRun`, which its
  thread holds (server.cpp:376).  It returns only if `running` is off already.
* *one driver*, *await stop*, *await iterate*: two threads drive the C server at the same time
  (`NativeExclusive` fails), and without *await stop* the server may be left started with `running`
  off, or the reverse.
* `SyncInDataCallback` (contextmap.hpp:72): on a Client, a notification callback that deletes its
  own item synchronously and then lists or creates items destroys the `std::function` it runs on.
* `MoveAssigned` and `AssignIdleOnly`: move assignment onto a Client with items or a started Server
  (client.cpp:295, server.cpp:265) destroys the context before the C object.  The Client's delete
  callbacks then run on destroyed contexts; the Server's deleter reads `running` of the new context
  and deletes a started server without a shutdown.
* `NestedReports` (client.cpp:243): a state callback that makes a synchronous call during which the
  connection changes leaves the application with a wrong picture, as the outer call stores its older
  state last.
* `StopsRunning` (client.cpp:455): a `Client::stop()` between `run`'s check of `running` and its
  assignment is lost.
* `AnyTime`: `setAccessControl` on a server with sessions leaves `sessions()` without the new
  sessions and with closed ones until the next startup.
* *no removal while running*, *notWhileRunning*: an item, timer or node callback that is removed or
  replaced while it runs is a destroyed `std::function` that runs.
* *add in loop*: between the two statements with which a timed callback marks its context stale and
  destroys its function (callback.cpp:44, 46), another thread's `insert` sweeps the stale contexts
  and destroys it first.
* *oneAtATime*, *methodsWhenIdle*: two setters of a node leave the C server with the pointer of the
  one and the map with the context of the other; a method called between the C call and its context
  has none.
* *wrappersOnly*: a native that is moved in by `Variant::assign(T&&)` or out by `scalar() &&`
  (types.hpp:1337) stays in two places, as moving a native copies its pointers.
* *lenderLasts*: `assign(T*)` (types.hpp:1486) of a value that the Variant itself owns, or whose
  owner goes first, leaves a dangling pointer.
* *shortSinglePass*: `copyArray` of a single-pass range of wrappers (types_handling.hpp:234) that
  is longer than the first capacity assigns to elements that `realloc` has not initialised.
  tests/types_handling.cpp:95 copies 26 elements, of a type without memory of its own.

Further observations that no property states.  A second `stop()`, which tests/server.cpp:129 calls
one that "should do nothing", leaves a stop request that the next `run()` consumes by returning at
once.  Of two exceptions before a rethrow only the last gets out (exceptioncatcher.hpp:18), and on a
Client an exception waits for a later call if the iteration also returns a bad status.  An override
in an access control plugin that throws something other than a `std::exception` ends the process
(plugin/accesscontrol.cpp:58-60, in a `noexcept` function).  Handles such as `Node`, `Session` and
`Subscription` keep the wrapper's address (node.hpp:1389) and dangle after a move of the Server or
Client.

## 5. Proofs

All proofs are for any number of threads, sessions, contexts, nodes, wrappers and so on, and rest on
no assumptions but those of the modules (`ASSUME` of constants) and those in the theorems.

* `ServerLifecycle_proof`.  `TypeCorrect`.  `LockInv` holds for all rules: each mutex is held
  exactly by the threads whose program counter says so (`Locks`), a pc determines the call
  (`CallsMatch`), and during a startup both flags are off (`StartingOff`): without the last one,
  `StartupEnd` could set `running` over a stop request.  From it: `NoOverlookedStopCorrect` and
  `LoopExclusiveCorrect`.  `RuleInv` holds under `Rules = AllRules` and adds that the application's
  threads keep apart (`Order`), that whoever starts or shuts down finds `running` off and the two do
  not meet (`Off`), and how `running` and the C server's state go together at each point (`Agree`).
  From it: `NativeExclusiveCorrect`, `ShutdownIsFinalCorrect`, `FlagTellsStateCorrect` and
  `DrivesNativeServerCorrect`, the refinement: each step begins a call of the C server, ends one, or
  leaves `calls` as it is (`CallBegins`, `CallEnds`, `CallGoesOn`), and `NativeExclusive` after the
  step says that a call that begins finds no other.
* `ClientMain_proof`.  `ClientStatesCorrect`, for `NestedReports = FALSE`: the invariant says for
  each place of a report what has been compared and told so far.  `RunningMeansLoopCorrect` for the
  loop alone, with `PlaceOK`: only `run` is at the places that set the flag and handle exceptions.
  Each step of `ClientMain` is a step or a stutter of `ClientLoop` and of `ClientStates`
  (`MainStepsLoop`, `MainStepsStates`), so that what is proved of the parts holds of the whole:
  `ClientRunningMeansLoop`, `ClientKnowsItsState`, `SessionClosedFirstCorrect`.
* `ClientItems_proof`, for `SyncInDataCallback = FALSE` and `MoveAssigned = FALSE` (section 4 shows
  what goes wrong otherwise).  `ItemsInv` says how calls nest (`Nesting`: an answer is stored before
  anything but a data callback runs); that a context which is in no map yet has exactly one keeper,
  a frame or a request (`OffersOwned`, `OffersApart`); that the identifiers of an answer which is
  not stored yet are new to the map (`AnswersFit`); that each pointer of the C client is either
  about to be stored by a frame or stored and not stale (`NativeFits`); that an entry of the map
  owns its context (`MapOwns`); and that a delete callback runs on an entry the C client has
  forgotten (`DeletesFit`).  So what `eraseStale` or a deletion destroys is nothing the C client or
  a running callback still has.  `NativePointersAlive` alone is not inductive: without `AnswersFit`,
  storing an answer could overwrite an entry which is in use.  From it: `ItemsInvariant`,
  `BookkeepingCorrect`, `NativePointersAliveCorrect`, `RunningContextsAliveCorrect`,
  `StoredOrStaleCorrect`, `DeleteCallbackRanCorrect`, `NotifiedIsFoundCorrect`.
* `SessionRegistry_proof`.  `TypeCorrect`, `CallsThePluginCorrect`, and for `AnyTime = FALSE`
  `SessionsAreActiveCorrect` (the Server's functions are in place whenever there is a session) and
  `AdmittedCorrect`.
* `ServerCallbacks_proof`.  `NativePointersAliveCorrect` and `NotifiedIsFoundCorrect` without rules:
  the bookkeeping takes care of the C library's pointers on its own.  Also without rules
  `ForgottenIsCollectedCorrect`: `LeakInv` says that a context of the map which the C library has
  forgotten is stale already, or is that of a timer whose callback runs and will be marked, or of a
  call in progress (`Collected`); and that what a call is about to insert is known to the C library
  or has fired (`Held`), which is how a timer may fire before it is in the map and still be swept.
  `RunningContextAliveCorrect` under the rules.
* `Services_proof`, two components that share no state.  `AsyncServices`: the invariant says that
  each request in progress is in one place (a frame, or the C client) and has the outcome that
  belongs to it.  `EndsWithOutcomeCorrect`, `EachOnceCorrect` (the refinement of `AsyncRequest`,
  each step mapped to one of its moves or a stutter), `LossIsReportedCorrect`, `ServedAliveCorrect`.
  `NodeBrowsing`: `BrowseInv` says that a call in progress has collected exactly the references in
  front of its continuation point (`CallOK`), that no two calls have the same point (`PointsApart`),
  and that a point is in use exactly if a call has it or its response was lost (`PlacesKnown`).
  `AllReferencesCorrect`, `PointsReturnedCorrect`.  What the functions of `Node` filter is the
  opaque `LocalOf`: the proofs use that the result is `LocalOf` of all references, not what
  `SelectSeq` computes, which would need induction.
* `NodeContexts_proof`, under the three rules.  `NodesInv` says of each call in progress what it has
  and what it will leave behind (`CallOK`, `CallsApart`), of each node where its pointer may point
  at that moment (`NodeOK`, `MapApart`): to the map's context, or to that of a method that is about
  to be inserted; of each object that it is in one place (`ContentOK`, `ContentApart`); and of each
  callback which context it runs on (`RunningOK`).  `CallbackReady` alone is not inductive: when
  `SetFunctions` installs a function, its call's object must still be in the context that the node's
  pointer leads to, whatever was deleted or added meanwhile.  From it: `NodePointersAliveCorrect`,
  `CallbackReadyCorrect`, `RunningAliveCorrect`, `BookkeepingCorrect`.
* `Ownership_proof`, for `AssignIdleOnly`.  `OwnerInv` says who owns what at each place of a
  constructor, assignment or destructor (`Source`, `Place`, `Unique`), that an owned C object exists
  and its back pointer leads to an owner unless that is about to be renewed (`Exists`, `Native`).
  From it: `BookkeepingCorrect`, `CallbacksFindContextCorrect`, `ContextOutlivesPointersCorrect`,
  `ShutDownBeforeDeleteCorrect`. The same module proves `OwnedOnceCorrect` of `Values`, under its
  three rules and for any sizes. `ValuesInv` says that each live text is at exactly one place that
  counts and that no such place has a freed text (`Owned`); that each live block is one Variant's or
  the copy's, and nothing is borrowed from a block in the making (`BlocksOwned`); and of a copy in
  progress (`CopyOK`) that what it has yet to read is outside its block, that the elements it has
  yet to write are empty, unless natives are put there unseen, and that nobody borrows what its
  Variant is going to free.  Lemmas about the heap come first: what a write, an emptied, filled or
  moved place (`EmptyKeeps`, `FillKeeps`, `MoveKeeps`), a new or freed block (`Replaced`,
  `DeallocateKeeps`) or a block that moves element by element (`RelocateKeeps`) does to `Owned`.
  Each action is a chain of them. `OwnedOnce` alone is not inductive: without the empty elements of
  `CopyOK`, the assignment to the next element would free a text, which is what happens without
  *shortSinglePass*.

Only model-checked: `BrowsingTypeOK`, which says of `LocalOf` that its
result is a sequence of references; the liveness properties (`StopEndsRun`, `StopReturns`,
`CallbackExceptionRethrown`, `RequestsEnd`, `BrowsingEnds`), which need fairness and are out of the
prover's reach; and the absence of deadlock.

## 6. Not modelled

More than half of the repository's lines are constants: generated identifiers (`ua/nodeids.hpp`,
14650 lines), tables of data types and wrapper classes whose members are accessors.  They have no
behaviour to model, so the share of lines that the definitions cover stays small whatever is added.
Of the rest:

* C++ data races.  Where the code reads a shared object without a lock or an atomic
  (`ContextMap::eraseStale`'s `map_.size()`, the `std::exception_ptr`) the models make each access
  one step.  `stopRequested` is only used under `mutexStartup`, `running` is atomic.
* `Client::connect`, `disconnect` and the state callback of open62541 v1.0; modification of
  subscriptions and items, publishing and triggering, which forward to the C library.
* What a future or a deferred operation does with the value of an asynchronous service: the models
  end with the handler.
* In `Values`: lifetimes and swap of wrappers, arrays that a Variant borrows from a container,
  `DataValue` and `ExtensionObject`, which own their members in the same way; accessors and
  conversions.
* Attribute access, events, node registration, translation of browse paths, configuration setters:
  one forwarding call each.
* Handles (`Node`, `Session`, `Subscription`, `Event`) after a move of their Server or Client.
* Access control's rights and masks: overrides that return constants.
* Logging, certificates, nodeset loading, generated tables.

## 7. Plan

Done: all modules of section 2, in the order of the table of section 3, and the proofs of section 5.
What is left, in this order:

1. `AsyncServices` composed with `ClientItems`: its asynchronous requests are hooked requests, and
   are modelled there by their effect only.
2. `DataValue` beside `Variant` in `Values`.
3. A server that is moved while the threads of `ServerLifecycle` use it, which needs a rule of its
   own.
4. Pure operators against definitions: deep copy of data types and their lookup, `Result`.
