---------------------------- MODULE NodeBrowsing ----------------------------
(***************************************************************************)
(* How nodes are browsed: services::browseAll collects the references of a *)
(* node over any number of responses, and Node's browseReferences,         *)
(* browseReferencedNodes, browseChildren and browseParent build on it or   *)
(* on a single browse.  A response that does not hold all references comes *)
(* with a continuation point, which takes up one of the few places that a  *)
(* session has until it has been read to the end or released.  A Server's  *)
(* own calls share the places of one session.                              *)
(* An operator Bug... is a wrong version of the one that follows it.       *)
(***************************************************************************)
EXTENDS Naturals, Sequences

CONSTANTS
    Callers,        \* threads that browse over one connection
    Queries,        \* what can be browsed: node, direction and filters
    Targets,        \* nodes that are referred to
    Local,          \* those that are in this server
    Points, None,   \* continuation points: the places of the session
    MaxReferences,  \* bound: references that answer a query
    Page,           \* bound: references in a response, if the server has a limit
    Faults,         \* TRUE: services fail, and responses get lost
    Kinds           \* the functions in use, of AllKinds

AllKinds == {"references", "nodes", "parent"}

ASSUME LocalAssumption == Local \subseteq Targets
ASSUME NoneAssumption == None \notin Points \cup Targets \cup Queries
ASSUME BoundsAssumption == MaxReferences \in Nat /\ Page \in Nat \ {0}
ASSUME KindsAssumption == Kinds \subseteq AllKinds /\ Faults \in BOOLEAN

Answers == UNION {[1 .. n -> Targets] : n \in 0 .. MaxReferences}

VARIABLES
    answer,  \* external: the references that match each query
    points,  \* external: the continuation points of the session
    call,    \* each caller's function in progress
    left     \* history: points that no caller will use again

browsingVars == <<answer, points, call, left>>

Statuses == {"Good", "BadNoContinuationPoints", "BadCommunication", "BadNotFound", "BadNodeIdUnknown"}
Unused == [query |-> None, next |-> 0]
Idle == [kind |-> "none", at |-> "idle", query |-> None, refs |-> <<>>, point |-> None, status |-> "Good"]

BrowsingTypeOK ==
    /\ answer \in [Queries -> Answers]
    /\ points \in [Points -> [query : Queries \cup {None}, next : 0 .. MaxReferences]]
    /\ call \in [Callers -> [kind : AllKinds \cup {"none"}, at : {"idle", "browse", "next", "done"},
                             query : Queries \cup {None}, refs : Answers,
                             point : Points \cup {None}, status : Statuses]]
    /\ left \subseteq Points

BrowsingInit ==
    /\ answer \in [Queries -> Answers]
    /\ points = [p \in Points |-> Unused]
    /\ call = [c \in Callers |-> Idle]
    /\ left = {}

Call(c, kind, q) ==
    /\ call[c] = Idle /\ kind \in Kinds
    /\ call' = [call EXCEPT ![c] = [Idle EXCEPT !.kind = kind, !.at = "browse", !.query = q]]
    /\ UNCHANGED <<answer, points, left>>

\* browseAll asks for all references, browseParent for one.
Requested(kind) == IF kind = "parent" THEN 1 ELSE MaxReferences
\* External: the last reference of a response that begins after `from`.
Until(from, q, max) ==
    LET n == Len(answer[q]) IN
    CHOOSE i \in from .. n : i = n \/ i = from + (IF max < Page THEN max ELSE Page)
IsLast(i, q) == i = Len(answer[q])

\* ref.nodeId().isLocal()
IsLocal(t) == t \in Local
LocalOf(refs) == SelectSeq(refs, IsLocal)

\* What the function makes of the references, when the last response is there.
Result(kind, refs, status) ==
    CASE status # "Good" -> [refs |-> <<>>, status |-> status]
      [] status = "Good" /\ kind = "parent" /\ refs = <<>> -> [refs |-> <<>>, status |-> "BadNotFound"]
      [] status = "Good" /\ kind = "parent" /\ refs # <<>> /\ ~IsLocal(Head(refs))
            -> [refs |-> <<>>, status |-> "BadNodeIdUnknown"]
      [] status = "Good" /\ kind = "nodes" -> [refs |-> LocalOf(refs), status |-> status]
      [] OTHER -> [refs |-> refs, status |-> status]

Finish(c, refs, status) ==
    LET r == Result(call[c].kind, refs, status) IN
    call' = [call EXCEPT ![c] = [@ EXCEPT !.at = "done", !.refs = r.refs, !.status = r.status, !.point = None]]

\* The response fits.
BrowseFits(c) ==
    LET q == call[c].query IN
    /\ call[c].at = "browse"
    /\ IsLast(Until(0, q, Requested(call[c].kind)), q)
    /\ Finish(c, answer[q], "Good")
    /\ UNCHANGED <<answer, points, left>>

\* The rest can be had with a continuation point; browseParent takes no notice of it.
BrowseMore(c, p) ==
    LET q == call[c].query
        i == Until(0, q, Requested(call[c].kind)) IN
    /\ call[c].at = "browse" /\ ~IsLast(i, q)
    /\ points[p] = Unused
    /\ points' = [points EXCEPT ![p] = [query |-> q, next |-> i]]
    /\ IF call[c].kind = "parent"
       THEN /\ Finish(c, SubSeq(answer[q], 1, i), "Good")
            /\ left' = left \cup {p}
       ELSE /\ call' = [call EXCEPT ![c].at = "next", ![c].refs = SubSeq(answer[q], 1, i), ![c].point = p]
            /\ UNCHANGED left
    /\ UNCHANGED answer

\* External: the session has no place for another continuation point.
BrowseRefused(c) ==
    LET q == call[c].query IN
    /\ call[c].at = "browse" /\ ~IsLast(Until(0, q, Requested(call[c].kind)), q)
    /\ \A p \in Points : points[p] # Unused
    /\ Finish(c, <<>>, "BadNoContinuationPoints")
    /\ UNCHANGED <<answer, points, left>>

BugBrowseNext(c) ==  \* takes the second response for the last
    /\ call[c].at = "next"
    /\ LET p == call[c].point
           q == call[c].query
           i == Until(points[p].next, q, MaxReferences) IN
        /\ Finish(c, call[c].refs \o SubSeq(answer[q], points[p].next + 1, i), "Good")
        /\ points' = [points EXCEPT ![p] = IF IsLast(i, q) THEN Unused ELSE [@ EXCEPT !.next = i]]
    /\ UNCHANGED <<answer, left>>

BugBrowseNextAgain(c) ==  \* clears the collected references in between
    /\ call[c].at = "next"
    /\ LET p == call[c].point
           q == call[c].query
           i == Until(points[p].next, q, MaxReferences)
           refs == SubSeq(answer[q], points[p].next + 1, i) IN
        IF IsLast(i, q)
        THEN Finish(c, refs, "Good") /\ points' = [points EXCEPT ![p] = Unused]
        ELSE /\ call' = [call EXCEPT ![c].refs = refs]
             /\ points' = [points EXCEPT ![p].next = i]
    /\ UNCHANGED <<answer, left>>

BugBrowseNextRestart(c) ==  \* browse() in the loop instead of browseNext()
    /\ call[c].at = "next"
    /\ LET p == call[c].point
           q == call[c].query
           i == Until(0, q, MaxReferences) IN
        IF IsLast(i, q)
        THEN Finish(c, answer[q], "Good") /\ points' = [points EXCEPT ![p] = Unused]
        ELSE UNCHANGED <<call, points>>
    /\ UNCHANGED <<answer, left>>

\* browseNext(connection, false, point) in the loop of browseAll.  The server
\* keeps the point while there is more to come.
BrowseNext(c) ==
    /\ call[c].at = "next"
    /\ LET p == call[c].point
           q == call[c].query
           i == Until(points[p].next, q, MaxReferences)
           refs == call[c].refs \o SubSeq(answer[q], points[p].next + 1, i) IN
        IF IsLast(i, q)
        THEN Finish(c, refs, "Good") /\ points' = [points EXCEPT ![p] = Unused]
        ELSE /\ call' = [call EXCEPT ![c].refs = refs]
             /\ points' = [points EXCEPT ![p].next = i]
    /\ UNCHANGED <<answer, left>>

\* A service fault: an empty result with the status of the response and no
\* continuation point, which ends the loop; the server keeps what it has.
Fault(c) ==
    /\ Faults
    /\ call[c].at \in {"browse", "next"}
    /\ left' = left \cup ({call[c].point} \ {None})
    /\ Finish(c, call[c].refs, "BadCommunication")
    /\ UNCHANGED <<answer, points>>

\* The server has taken a place for the rest, and the response does not arrive.
ResponseLost(c, p) ==
    LET q == call[c].query
        i == Until(0, q, Requested(call[c].kind)) IN
    /\ Faults
    /\ call[c].at = "browse" /\ ~IsLast(i, q)
    /\ points[p] = Unused
    /\ points' = [points EXCEPT ![p] = [query |-> q, next |-> i]]
    /\ left' = left \cup {p}
    /\ Finish(c, <<>>, "BadCommunication")
    /\ UNCHANGED answer

\* External: a session that is lost takes its continuation points with it.
SessionLost ==
    /\ Faults
    /\ \A c \in Callers : call[c] = Idle
    /\ left # {}
    /\ points' = [p \in Points |-> Unused]
    /\ left' = {}
    /\ UNCHANGED <<answer, call>>

Return(c) ==
    /\ call[c].at = "done"
    /\ call' = [call EXCEPT ![c] = Idle]
    /\ UNCHANGED <<answer, points, left>>

CallGoesOn(c) ==
    \/ BrowseFits(c) \/ (\E p \in Points : BrowseMore(c, p)) \/ BrowseRefused(c)
    \/ BrowseNext(c) \/ Return(c)

BrowsingNext ==
    \/ SessionLost
    \/ \E c \in Callers :
        \/ \E kind \in AllKinds, q \in Queries : Call(c, kind, q)
        \/ CallGoesOn(c)
        \/ Fault(c) \/ \E p \in Points : ResponseLost(c, p)

BrowsingSpec == BrowsingInit /\ [][BrowsingNext]_browsingVars
\* A thread in a call goes on, and the C library answers; nobody has to browse, and
\* nothing has to fail.
FairBrowsingSpec == BrowsingSpec /\ \A c \in Callers : WF_browsingVars(CallGoesOn(c))

-----------------------------------------------------------------------------
Done(c) == call[c].at = "done" /\ call[c].status = "Good"

\* browseAll, "Discover all the references of a specified node": what it returns without an
\* error is complete, in the server's order and without repetitions, over however many
\* responses it came; browseReferencedNodes has the local ones.
AllReferences ==
    \A c \in Callers : Done(c) =>
        LET all == answer[call[c].query] IN
        CASE call[c].kind = "references" -> call[c].refs = all
          [] call[c].kind = "nodes" -> call[c].refs = LocalOf(all)
          [] call[c].kind = "parent" -> call[c].refs # <<>> /\ call[c].refs[1] = all[1]

\* browseAll reads every point to its end: the session's places are those of the calls
\* in progress and those that a failure or browseParent has left behind.
PointsInUse == {p \in Points : points[p] # Unused}
PointsReturned == PointsInUse = left \cup ({call[c].point : c \in Callers} \ {None})

\* Every function returns: the loop over the responses ends.
BrowsingEnds == \A c \in Callers : call[c].at # "idle" ~> call[c].at = "idle"

\* browseParent: "A Node may have several parents, the first found is returned."  Without
\* failures it finds the first one, if that is in this server.
ParentFound ==
    \A c \in Callers : (call[c].kind = "parent" /\ call[c].at = "done")
        => LET all == answer[call[c].query] IN
           (~Faults /\ all # <<>> /\ IsLocal(Head(all))) => call[c].status = "Good"

=============================================================================
