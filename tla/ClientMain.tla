----------------------------- MODULE ClientMain ------------------------------
(***************************************************************************)
(* A Client at work: its calls (ClientLoop) together with the reports that *)
(* the C client makes during them (ClientStates).  A report comes only     *)
(* while a thread drives the C client, and that thread goes on when the    *)
(* report has been handled.  A state callback that throws fills the slot   *)
(* that the loop empties: invokeStateCallback hands every callback to the  *)
(* ExceptionCatcher, and stateCallback goes on as if it had returned.      *)
(***************************************************************************)
EXTENDS ClientLoop, ClientStates

vars == <<loopVars, statesVars>>

Init == LoopInit /\ StatesInit

\* A thread is inside the C client.
Driving(t) == pc[t] \in {"iterating", "serving"}

\* What a thread does outside the C client leaves the connection alone.
ApplicationCalls(t) ==
    /\ CallRun(t) \/ CallRunIterate(t) \/ CallService(t)
    /\ UNCHANGED statesVars

StopCalled(t) ==
    /\ Driving(t) => stack = <<>> \/ InUserCode
    /\ Stop(t)
    /\ UNCHANGED statesVars

GoesOn(t) == LoopGoesOn(t) /\ UNCHANGED statesVars

\* A call of the C client ends when its reports have been handled.
DriverReturns(t) ==
    /\ stack = <<>>
    /\ NativeReturns(t)
    /\ UNCHANGED statesVars

StateReported(t) ==
    /\ Driving(t)
    /\ \E ch \in ChannelStates, ss \in SessionStates : Report(ch, ss)
    /\ UNCHANGED loopVars

HandleReport == HandleSession \/ HandleChannel \/ Store

ReportGoesOn(t) ==
    /\ Driving(t)
    /\ HandleReport \/ SessionCallbackReturn \/ ChannelCallbackReturn
    /\ UNCHANGED loopVars

BugStateCallbackThrows(t) ==  \* no catch: the exception takes stateCallback with it
    /\ CallbackThrows(t)
    /\ InUserCode
    /\ stack' = Tail(stack)
    /\ UNCHANGED <<native, last, heard>>

StateCallbackThrows(t) ==
    /\ CallbackThrows(t)
    /\ SessionCallbackReturn \/ ChannelCallbackReturn

\* A notification or an answer in the same call of the C client.
OtherCallbackThrows(t) ==
    /\ stack = <<>>
    /\ CallbackThrows(t)
    /\ UNCHANGED statesVars

Next == \E t \in Threads :
    \/ ApplicationCalls(t) \/ StopCalled(t)
    \/ GoesOn(t) \/ DriverReturns(t)
    \/ StateReported(t) \/ ReportGoesOn(t)
    \/ StateCallbackThrows(t) \/ OtherCallbackThrows(t)

\* A thread that is in a call goes on, callbacks return, and a call of the C client
\* (UA_Client_run_iterate has a timeout) ends however often the state changes.
Fairness == \A t \in Threads :
    /\ WF_vars(GoesOn(t))
    /\ WF_vars(ReportGoesOn(t))
    /\ SF_vars(DriverReturns(t))

Spec == Init /\ [][Next]_vars /\ Fairness

-----------------------------------------------------------------------------
TypeOK == LoopTypeOK /\ StatesTypeOK

=============================================================================
