---------------------------- MODULE AsyncServices ----------------------------
(***************************************************************************)
(* Asynchronous services of a Client.  initiate() puts the completion      *)
(* handler into a context object and gives the C client a bare pointer to  *)
(* it; the callback of the answer takes the object over, runs the hook (if *)
(* any) and the handler, and destroys it.  Exceptions on the way go to the *)
(* client's one exception slot.                                            *)
(*                                                                         *)
(* One thread drives the client, and calls nest: `stack` has the requests  *)
(* being initiated or answered and the waiting C calls, innermost first.   *)
(* An operator Bug... is a wrong version of the one that follows it.       *)
(***************************************************************************)
EXTENDS Naturals, Sequences

CONSTANTS
    Requests,
    Hooked,       \* the requests with a HookToken
    NoRequest,    \* no request
    MaxDepth      \* bound: nesting of calls

ASSUME HookedAssumption == Hooked \subseteq Requests
ASSUME NoRequestAssumption == NoRequest \notin Requests
ASSUME MaxDepthAssumption == MaxDepth \in Nat

VARIABLES
    state,    \* where the context of each request is
    outcome,  \* whether the completion handler was invoked, or never will be
    slot,     \* ExceptionCatcher::exception_, by the request it is from
    stack,    \* the calls in progress
    closed    \* the Client is destroyed

vars == <<state, outcome, slot, stack, closed>>

(***************************************************************************)
(* The context belongs to initiate() in "initiating", to the C client in   *)
(* "pending", to the callback in "hook" and "handler"; in "done" it is     *)
(* destroyed.  A frame of the stack is such a request, or a call in which  *)
(* the C client waits: "service" (synchronous), "loop" (runIterate) or     *)
(* "close" (UA_Client_delete).                                             *)
(***************************************************************************)
Waits == {"service", "loop", "close"}
Busy == {"initiating", "hook", "handler"}

Frames == [wait : Waits \cup {"none"}, req : Requests \cup {NoRequest}]
Wait(w) == [wait |-> w, req |-> NoRequest]
Serve(r) == [wait |-> "none", req |-> r]

TypeOK ==
    /\ state \in [Requests -> {"idle", "pending", "done"} \cup Busy]
    /\ outcome \in [Requests -> {"none", "value", "lost"}]
    /\ slot \in Requests \cup {NoRequest}
    /\ stack \in Seq(Frames)
    /\ closed \in BOOLEAN

Init ==
    /\ state = [r \in Requests |-> "idle"]
    /\ outcome = [r \in Requests |-> "none"]
    /\ slot = NoRequest
    /\ stack = <<>>
    /\ closed = FALSE

Top == Head(stack)
Room == Len(stack) < MaxDepth
Push(f) == stack' = <<f>> \o stack
Pop == stack' = Tail(stack)
Serving(r) == stack # <<>> /\ Top = Serve(r)
Closing == \E k \in DOMAIN stack : stack[k].wait = "close"

\* The application's code has control: at top level, or in a completion handler.
User == ~closed /\ (stack = <<>> \/ \E r \in Requests : Serving(r) /\ state[r] = "handler")
\* The C client has control, and may answer requests: it waits, or it is in the
\* middle of an initiation.
Native ==
    /\ stack # <<>>
    /\ Top.wait # "none" \/ \E r \in Requests : Serving(r) /\ state[r] = "initiating"

(***************************************************************************)
(* AsyncServiceAdapter::initiate.  The handler moves into the context, and *)
(* the C function gets the context's address.                              *)
(***************************************************************************)
Initiate(r) ==
    /\ User /\ ~Closing /\ Room
    /\ state[r] = "idle"
    /\ state' = [state EXCEPT ![r] = "initiating"]
    /\ Push(Serve(r))
    /\ UNCHANGED <<outcome, slot, closed>>

\* The C client has taken the request: context.release().
Accepted(r) ==
    /\ Serving(r) /\ state[r] = "initiating"
    /\ state' = [state EXCEPT ![r] = "pending"]
    /\ Pop
    /\ UNCHANGED <<outcome, slot, closed>>

BugRefused(r) ==  \* forgets the exception
    /\ Serving(r) /\ state[r] = "initiating"
    /\ state' = [state EXCEPT ![r] = "done"]
    /\ outcome' = [outcome EXCEPT ![r] = "lost"]
    /\ Pop
    /\ UNCHANGED <<slot, closed>>
\* throwIfBad: the handler is destroyed with the context, and the reason goes to
\* the slot.  A promise in the handler is broken by that.
Refused(r) ==
    /\ Serving(r) /\ state[r] = "initiating"
    /\ state' = [state EXCEPT ![r] = "done"]
    /\ outcome' = [outcome EXCEPT ![r] = "lost"]
    /\ slot' = r
    /\ Pop
    /\ UNCHANGED closed

(***************************************************************************)
(* The C client answers: the callback takes the context over.  Without a   *)
(* response it throws BadUnexpectedError.                                  *)
(***************************************************************************)
MayAnswer(r) == Native /\ (Room \/ Closing) /\ state[r] = "pending"

Answer(r) ==
    /\ MayAnswer(r)
    /\ state' = [state EXCEPT ![r] = IF r \in Hooked THEN "hook" ELSE "handler"]
    /\ outcome' = IF r \in Hooked THEN outcome ELSE [outcome EXCEPT ![r] = "value"]
    /\ Push(Serve(r))
    /\ UNCHANGED <<slot, closed>>

AnswerNull(r) ==
    /\ MayAnswer(r)
    /\ state' = [state EXCEPT ![r] = "done"]
    /\ outcome' = [outcome EXCEPT ![r] = "lost"]
    /\ slot' = r
    /\ UNCHANGED <<stack, closed>>

\* The hook returns and the handler is invoked, or the hook throws and it is not.
HookReturns(r) ==
    /\ Serving(r) /\ state[r] = "hook"
    /\ state' = [state EXCEPT ![r] = "handler"]
    /\ outcome' = [outcome EXCEPT ![r] = "value"]
    /\ UNCHANGED <<slot, stack, closed>>

BugHookThrows(r) ==  \* invokes the handler all the same, with the context gone
    /\ Serving(r) /\ state[r] = "hook"
    /\ state' = [state EXCEPT ![r] = "done"]
    /\ outcome' = [outcome EXCEPT ![r] = "value"]
    /\ slot' = r
    /\ UNCHANGED <<stack, closed>>
HookThrows(r) ==
    /\ Serving(r) /\ state[r] = "hook"
    /\ state' = [state EXCEPT ![r] = "done"]
    /\ outcome' = [outcome EXCEPT ![r] = "lost"]
    /\ slot' = r
    /\ Pop
    /\ UNCHANGED closed

BugHandlerReturns(r) ==  \* leaves the userdata registered
    /\ Serving(r) /\ state[r] = "handler"
    /\ state' = [state EXCEPT ![r] = "pending"]
    /\ Pop
    /\ UNCHANGED <<outcome, slot, closed>>
HandlerReturns(r) ==
    /\ Serving(r) /\ state[r] = "handler"
    /\ state' = [state EXCEPT ![r] = "done"]
    /\ Pop
    /\ UNCHANGED <<outcome, slot, closed>>
HandlerThrows(r) ==
    /\ Serving(r) /\ state[r] = "handler"
    /\ state' = [state EXCEPT ![r] = "done"]
    /\ slot' = r
    /\ Pop
    /\ UNCHANGED <<outcome, closed>>

(***************************************************************************)
(* Calls in which the C client waits.  runIterate rethrows what is in the  *)
(* slot unless the C client reports a bad status, which is thrown first.   *)
(***************************************************************************)
CallService ==
    /\ User /\ ~Closing /\ Room
    /\ Push(Wait("service"))
    /\ UNCHANGED <<state, outcome, slot, closed>>
ServiceReturns ==
    /\ stack # <<>> /\ Top.wait = "service"
    /\ Pop
    /\ UNCHANGED <<state, outcome, slot, closed>>

RunIterate ==
    /\ stack = <<>> /\ ~closed
    /\ Push(Wait("loop"))
    /\ UNCHANGED <<state, outcome, slot, closed>>
IterateReturns(bad) ==
    /\ stack # <<>> /\ Top.wait = "loop"
    /\ slot' = IF bad THEN slot ELSE NoRequest
    /\ Pop
    /\ UNCHANGED <<state, outcome, closed>>

\* ~Client: UA_Client_delete answers all requests that are left.
Close ==
    /\ stack = <<>> /\ ~closed
    /\ Push(Wait("close"))
    /\ UNCHANGED <<state, outcome, slot, closed>>
BugCloseEnd ==  \* lets the contexts of unanswered requests go
    /\ stack # <<>> /\ Top.wait = "close"
    /\ closed' = TRUE
    /\ Pop
    /\ UNCHANGED <<state, outcome, slot>>
CloseEnd ==
    /\ stack # <<>> /\ Top.wait = "close"
    /\ \A r \in Requests : state[r] # "pending"
    /\ closed' = TRUE
    /\ Pop
    /\ UNCHANGED <<state, outcome, slot>>

Progress(r) ==
    \/ Accepted(r) \/ Refused(r)
    \/ HookReturns(r) \/ HookThrows(r) \/ HandlerReturns(r) \/ HandlerThrows(r)

Next ==
    \/ \E r \in Requests : Initiate(r) \/ Answer(r) \/ AnswerNull(r) \/ Progress(r)
    \/ CallService \/ ServiceReturns
    \/ RunIterate \/ \E bad \in BOOLEAN : IterateReturns(bad)
    \/ Close \/ CloseEnd
    \/ closed /\ UNCHANGED vars

Spec == Init /\ [][Next]_vars

(***************************************************************************)
(* Calls return, a handler that calls services returns in the end (hence   *)
(* SF of Progress), and the application iterates its client until it       *)
(* destroys it.  While a client is iterated or destroyed, each request is  *)
(* answered at some point: by the server, by the C client's timeout, or by *)
(* UA_Client_delete.                                                       *)
(***************************************************************************)
Fairness ==
    /\ \A r \in Requests :
        /\ SF_vars(Progress(r))
        /\ SF_vars((Answer(r) \/ AnswerNull(r)) /\ Len(stack) = 1)
    /\ WF_vars(ServiceReturns)
    /\ WF_vars(RunIterate)
    /\ WF_vars(\E bad \in BOOLEAN : IterateReturns(bad))
    /\ WF_vars(CloseEnd)

FairSpec == Spec /\ Fairness

-----------------------------------------------------------------------------
\* The context of a request is destroyed exactly when nothing refers to it any
\* more: a frame of the stack is for a request whose context still exists, and
\* for one only.
ServedAlive ==
    \A j, k \in DOMAIN stack :
        stack[j].req # NoRequest =>
            /\ state[stack[j].req] \in Busy
            /\ stack[k].req = stack[j].req => j = k

\* A request ends with an outcome, and not before its callback or initiate() does.
EndsWithOutcome ==
    \A r \in Requests :
        /\ state[r] = "done" => outcome[r] # "none"
        /\ state[r] \in {"idle", "initiating", "pending", "hook"} => outcome[r] = "none"

\* A handler that is never invoked leaves its reason in the slot: no request fails
\* in silence.
LossIsReported ==
    [][\A r \in Requests : outcome'[r] = "lost" /\ outcome[r] # "lost" => slot' = r]_vars

(***************************************************************************)
(* The abstract request.                                                   *)
(***************************************************************************)
RequestOf(r) ==
    CASE state[r] = "idle" -> "idle"
      [] outcome[r] = "value" -> "completed"
      [] outcome[r] = "lost" -> "failed"
      [] OTHER -> "pending"

Abstract == INSTANCE AsyncRequest WITH request <- [r \in Requests |-> RequestOf(r)]

\* The services implement the abstract request: each handler is invoked once, or
\* fails once, and never both.
EachOnce == Abstract!Safe

\* Every initiated request ends, also when the client is destroyed before.
RequestsEnd == Abstract!Ends

=============================================================================
