---------------------------- MODULE AsyncRequest ----------------------------
(***************************************************************************)
(* What an asynchronous service promises about each request: once started, *)
(* it is completed (its completion handler is invoked) or fails (the       *)
(* handler will never be invoked, and the reason is stored), and only one  *)
(* of the two, once.                                                       *)
(***************************************************************************)
CONSTANT Requests

VARIABLE request  \* the state of each request

Init == request = [r \in Requests |-> "idle"]

Move(r, from, to) ==
    /\ request[r] = from
    /\ request' = [request EXCEPT ![r] = to]

Start(r) == Move(r, "idle", "pending")
Complete(r) == Move(r, "pending", "completed")
Fail(r) == Move(r, "pending", "failed")

Next == \E r \in Requests : Start(r) \/ Complete(r) \/ Fail(r)

\* Every started request comes to an end.
Ends == \A r \in Requests : request[r] = "pending" ~> request[r] \in {"completed", "failed"}

Safe == Init /\ [][Next]_request
=============================================================================
