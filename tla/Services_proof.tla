---------------------------- MODULE Services_proof ----------------------------
(***************************************************************************)
(* Proofs about what runs on top of a connection's services: AsyncServices *)
(* and NodeBrowsing, each for itself.                                      *)
(***************************************************************************)
EXTENDS AsyncServices, NodeBrowsing, SequenceTheorems, TLAPS

-----------------------------------------------------------------------------
(***************************************************************************)
(* AsyncServices, for any set of requests and any depth.                   *)
(***************************************************************************)

\* The stack as a sequence: what is pushed, and what is left.
LEMMA PushFrame ==
  ASSUME NEW s \in Seq(Frames), NEW f \in Frames
  PROVE  /\ <<f>> \o s \in Seq(Frames)
         /\ DOMAIN (<<f>> \o s) = 1 .. Len(s) + 1
         /\ (<<f>> \o s)[1] = f
         /\ \A k \in 2 .. Len(s) + 1 : (<<f>> \o s)[k] = s[k - 1]
  OBVIOUS

LEMMA PopFrame ==
  ASSUME NEW s \in Seq(Frames), s # <<>>
  PROVE  /\ Tail(s) \in Seq(Frames)
         /\ DOMAIN Tail(s) = 1 .. Len(s) - 1
         /\ \A k \in 1 .. Len(s) - 1 : Tail(s)[k] = s[k + 1]
         /\ DOMAIN s = 1 .. Len(s) /\ Len(s) \in Nat /\ Len(s) > 0
         /\ Head(s) = s[1] /\ Head(s) \in Frames
  OBVIOUS

LEMMA FramesOf == \A r \in Requests : Serve(r) \in Frames /\ Serve(r).req = r
  BY DEF Serve, Frames
LEMMA WaitsOf == \A w \in Waits : Wait(w) \in Frames /\ Wait(w).req = NoRequest
  BY DEF Wait, Frames

LEMMA FrameRequests == TypeOK => \A k \in DOMAIN stack : stack[k].req \in Requests \cup {NoRequest}
<1>1. ASSUME stack \in Seq(Frames), NEW k \in DOMAIN stack PROVE stack[k] \in Frames
  BY <1>1
<1>2. \A f \in Frames : f.req \in Requests \cup {NoRequest}
  BY DEF Frames
<1> QED
  BY <1>1, <1>2 DEF TypeOK

-----------------------------------------------------------------------------
LEMMA TypeInit == Init => TypeOK
<1>1. << >> \in Seq(Frames)
  OBVIOUS
<1> QED
  BY <1>1 DEF Init, TypeOK

LEMMA TypeStep == TypeOK /\ [Next]_vars => TypeOK'
<1> SUFFICES ASSUME TypeOK, [Next]_vars PROVE TypeOK'
  OBVIOUS
<1> USE DEF TypeOK, Busy
<1>1. ASSUME NEW r \in Requests, Initiate(r) PROVE TypeOK'
  BY <1>1, PushFrame, FramesOf DEF Initiate, Push
<1>2. ASSUME NEW r \in Requests, Answer(r) PROVE TypeOK'
  BY <1>2, PushFrame, FramesOf DEF Answer, Push
<1>3. ASSUME NEW r \in Requests, AnswerNull(r) PROVE TypeOK'
  BY <1>3 DEF AnswerNull
<1>4. ASSUME NEW r \in Requests, Accepted(r) \/ Refused(r) \/ HookThrows(r)
                                 \/ HandlerReturns(r) \/ HandlerThrows(r)
      PROVE TypeOK'
  <2>1. stack' \in Seq(Frames)
    BY <1>4, PopFrame
    DEF Accepted, Refused, HookThrows, HandlerReturns, HandlerThrows, Pop, Serving
  <2> QED
    BY <1>4, <2>1 DEF Accepted, Refused, HookThrows, HandlerReturns, HandlerThrows
<1>5. ASSUME NEW r \in Requests, HookReturns(r) PROVE TypeOK'
  BY <1>5 DEF HookReturns
<1>6. ASSUME CallService \/ RunIterate \/ Close PROVE TypeOK'
  <2>1. CASE CallService
    BY <2>1, PushFrame, WaitsOf DEF CallService, Push, Waits
  <2>2. CASE RunIterate
    BY <2>2, PushFrame, WaitsOf DEF RunIterate, Push, Waits
  <2>3. CASE Close
    BY <2>3, PushFrame, WaitsOf DEF Close, Push, Waits
  <2> QED
    BY <1>6, <2>1, <2>2, <2>3
<1>7. ASSUME ServiceReturns \/ CloseEnd \/ \E bad \in BOOLEAN : IterateReturns(bad) PROVE TypeOK'
  BY <1>7, PopFrame DEF ServiceReturns, CloseEnd, IterateReturns, Pop
<1>8. CASE UNCHANGED vars
  BY <1>8 DEF vars
<1> QED
  BY <1>1, <1>2, <1>3, <1>4, <1>5, <1>6, <1>7, <1>8 DEF Next, Progress

LEMMA TypeInvariant == Spec => []TypeOK
  BY TypeInit, TypeStep, PTL DEF Spec

-----------------------------------------------------------------------------
(***************************************************************************)
(* Outcomes.  A handler that runs is a completed request.                  *)
(***************************************************************************)
OutcomeInv ==
    /\ TypeOK
    /\ EndsWithOutcome
    /\ \A r \in Requests : state[r] = "handler" => outcome[r] = "value"

LEMMA OutcomeInit == Init => OutcomeInv
  BY TypeInit DEF Init, OutcomeInv, EndsWithOutcome

LEMMA OutcomeStep == OutcomeInv /\ [Next]_vars => OutcomeInv'
<1> SUFFICES ASSUME OutcomeInv, [Next]_vars PROVE OutcomeInv'
  OBVIOUS
<1>0. TypeOK /\ TypeOK'
  BY TypeStep DEF OutcomeInv
<1> USE <1>0 DEF OutcomeInv, EndsWithOutcome
<1>1. ASSUME NEW r \in Requests, Initiate(r) PROVE OutcomeInv'
  BY <1>1 DEF Initiate, TypeOK
<1>2. ASSUME NEW r \in Requests, Answer(r) PROVE OutcomeInv'
  BY <1>2 DEF Answer, MayAnswer, TypeOK
<1>3. ASSUME NEW r \in Requests, AnswerNull(r) PROVE OutcomeInv'
  BY <1>3 DEF AnswerNull, MayAnswer, TypeOK
<1>4. ASSUME NEW r \in Requests, Accepted(r) PROVE OutcomeInv'
  BY <1>4 DEF Accepted, TypeOK
<1>5. ASSUME NEW r \in Requests, Refused(r) \/ HookThrows(r) PROVE OutcomeInv'
  BY <1>5 DEF Refused, HookThrows, TypeOK
<1>6. ASSUME NEW r \in Requests, HookReturns(r) PROVE OutcomeInv'
  BY <1>6 DEF HookReturns, TypeOK
<1>7. ASSUME NEW r \in Requests, HandlerReturns(r) \/ HandlerThrows(r) PROVE OutcomeInv'
  BY <1>7 DEF HandlerReturns, HandlerThrows, TypeOK
<1>8. ASSUME \/ CallService \/ RunIterate \/ Close \/ ServiceReturns \/ CloseEnd
             \/ \E bad \in BOOLEAN : IterateReturns(bad)
             \/ UNCHANGED vars
      PROVE OutcomeInv'
  BY <1>8 DEF CallService, RunIterate, Close, ServiceReturns, CloseEnd, IterateReturns, vars
<1> QED
  BY <1>1, <1>2, <1>3, <1>4, <1>5, <1>6, <1>7, <1>8 DEF Next, Progress

\* A request has an outcome exactly when its callback, or initiate(), is through.
THEOREM EndsWithOutcomeCorrect == Spec => [](TypeOK /\ EndsWithOutcome)
<1>1. OutcomeInv => TypeOK /\ EndsWithOutcome
  BY DEF OutcomeInv
<1> QED
  BY <1>1, OutcomeInit, OutcomeStep, PTL DEF Spec

\* Each handler is invoked once, or never and the request failed: every step is a
\* step of the abstract requests or leaves them as they are.
THEOREM EachOnceCorrect == Spec => EachOnce
<1> DEFINE Req == [r \in Requests |-> RequestOf(r)]
<1>1. Init => Abstract!Init
  BY DEF Init, Abstract!Init, RequestOf
<1>2. OutcomeInv /\ OutcomeInv' /\ [Next]_vars => [Abstract!Next]_Req
  <2> SUFFICES ASSUME OutcomeInv, OutcomeInv', [Next]_vars PROVE [Abstract!Next]_Req
    OBVIOUS
  <2> USE DEF OutcomeInv, EndsWithOutcome, RequestOf, TypeOK, Busy
  <2>1. ASSUME NEW r \in Requests, Initiate(r) PROVE Abstract!Start(r)
    BY <2>1 DEF Initiate, Abstract!Start, Abstract!Move
  <2>2. ASSUME NEW r \in Requests, Answer(r) PROVE Abstract!Complete(r) \/ Req' = Req
    <3>1. CASE r \in Hooked
      BY <2>2, <3>1 DEF Answer, MayAnswer
    <3>2. CASE r \notin Hooked
      <4>1. Req[r] = "pending" /\ RequestOf(r)' = "completed"
        BY <2>2, <3>2 DEF Answer, MayAnswer
      <4>2. \A q \in Requests \ {r} : RequestOf(q)' = RequestOf(q)
        BY <2>2, <3>2 DEF Answer, MayAnswer
      <4> HIDE DEF RequestOf
      <4>3. Req' = [Req EXCEPT ![r] = "completed"]
        BY <4>1, <4>2
      <4> QED
        BY <4>1, <4>3 DEF Abstract!Complete, Abstract!Move
    <3> QED BY <3>1, <3>2
  <2>3. ASSUME NEW r \in Requests, AnswerNull(r) PROVE Abstract!Fail(r)
    BY <2>3 DEF AnswerNull, MayAnswer, Abstract!Fail, Abstract!Move
  <2>4. ASSUME NEW r \in Requests, Accepted(r) PROVE Req' = Req
    BY <2>4 DEF Accepted
  <2>5. ASSUME NEW r \in Requests, Refused(r) \/ HookThrows(r) PROVE Abstract!Fail(r)
    <3>1. Req[r] = "pending" /\ RequestOf(r)' = "failed"
      BY <2>5 DEF Refused, HookThrows
    <3>2. \A q \in Requests \ {r} : RequestOf(q)' = RequestOf(q)
      BY <2>5 DEF Refused, HookThrows
    <3> HIDE DEF RequestOf
    <3>3. Req' = [Req EXCEPT ![r] = "failed"]
      BY <3>1, <3>2
    <3> QED
      BY <3>1, <3>3 DEF Abstract!Fail, Abstract!Move
  <2>6. ASSUME NEW r \in Requests, HookReturns(r) PROVE Abstract!Complete(r)
    BY <2>6 DEF HookReturns, Abstract!Complete, Abstract!Move
  <2>7. ASSUME NEW r \in Requests, HandlerReturns(r) \/ HandlerThrows(r) PROVE Req' = Req
    BY <2>7 DEF HandlerReturns, HandlerThrows
  <2>8. ASSUME \/ CallService \/ RunIterate \/ Close \/ ServiceReturns \/ CloseEnd
               \/ \E bad \in BOOLEAN : IterateReturns(bad)
               \/ UNCHANGED vars
        PROVE Req' = Req
    BY <2>8 DEF CallService, RunIterate, Close, ServiceReturns, CloseEnd, IterateReturns, vars
  <2> QED
    BY <2>1, <2>2, <2>3, <2>4, <2>5, <2>6, <2>7, <2>8 DEF Next, Progress, Abstract!Next
<1> QED
  BY <1>1, <1>2, OutcomeInit, OutcomeStep, PTL DEF Spec, EachOnce, Abstract!Safe

-----------------------------------------------------------------------------
\* No request fails in silence: whoever gives up a handler stores the reason.
THEOREM LossIsReportedCorrect == Spec => LossIsReported
<1>1. TypeOK /\ [Next]_vars =>
        [\A r \in Requests : outcome'[r] = "lost" /\ outcome[r] # "lost" => slot' = r]_vars
  <2> SUFFICES ASSUME TypeOK, Next, NEW q \in Requests,
                      outcome'[q] = "lost", outcome[q] # "lost"
               PROVE  slot' = q
    OBVIOUS
  <2>1. PICK r \in Requests : AnswerNull(r) \/ Refused(r) \/ HookThrows(r)
    BY DEF Next, Progress, TypeOK, Initiate, Answer, Accepted, HookReturns, HandlerReturns,
       HandlerThrows, CallService, ServiceReturns, RunIterate, IterateReturns, Close, CloseEnd, vars
  <2> QED
    BY <2>1 DEF AnswerNull, Refused, HookThrows, TypeOK
<1> QED
  BY <1>1, TypeInvariant, PTL DEF Spec, LossIsReported

-----------------------------------------------------------------------------
(***************************************************************************)
(* The contexts of the frames.                                             *)
(***************************************************************************)
ServedInv == TypeOK /\ ServedAlive

\* A request that is not being served can be pushed when it becomes busy.
LEMMA ServedPush ==
  ASSUME ServedInv, NEW r \in Requests, state[r] \notin Busy,
         NEW b \in Busy, state' = [state EXCEPT ![r] = b], stack' = <<Serve(r)>> \o stack
  PROVE  ServedAlive'
<1>1. /\ stack \in Seq(Frames) /\ Serve(r) \in Frames /\ Serve(r).req = r
      /\ state \in [Requests -> {"idle", "pending", "done"} \cup Busy]
  BY FramesOf DEF ServedInv, TypeOK
<1>2. /\ DOMAIN stack' = 1 .. Len(stack) + 1
      /\ stack'[1].req = r
      /\ \A k \in 2 .. Len(stack) + 1 : stack'[k] = stack[k - 1]
  BY <1>1, PushFrame
<1>3. /\ \A k \in 2 .. Len(stack) + 1 : k - 1 \in DOMAIN stack
      /\ \A j, k \in 2 .. Len(stack) + 1 : j - 1 = k - 1 => j = k
  BY <1>1
<1>4. \A k \in DOMAIN stack : stack[k].req \in Requests \cup {NoRequest} /\ stack[k].req # r
  <2>1. \A k \in DOMAIN stack : stack[k].req \in Requests \cup {NoRequest}
    BY FrameRequests DEF ServedInv
  <2> QED
    BY <2>1, NoRequestAssumption DEF ServedInv, ServedAlive
<1>5. \A k \in 2 .. Len(stack) + 1 : stack'[k].req # r
  BY <1>2, <1>3, <1>4
<1>6. SUFFICES ASSUME NEW j \in DOMAIN stack', NEW k \in DOMAIN stack', stack'[j].req # NoRequest
               PROVE  /\ state'[stack'[j].req] \in Busy
                      /\ stack'[k].req = stack'[j].req => j = k
  BY DEF ServedAlive
<1>7. CASE j = 1
  BY <1>1, <1>2, <1>5, <1>7
<1>8. CASE j # 1
  <2>1. j \in 2 .. Len(stack) + 1 /\ j - 1 \in DOMAIN stack /\ stack'[j] = stack[j - 1]
    BY <1>1, <1>2, <1>3, <1>8
  <2>2. state'[stack'[j].req] \in Busy
    BY <1>1, <1>4, <1>6, <2>1 DEF ServedInv, ServedAlive
  <2>3. CASE k = 1
    BY <1>2, <1>5, <2>1, <2>3, <2>2
  <2>4. CASE k # 1
    <3>1. k \in 2 .. Len(stack) + 1 /\ k - 1 \in DOMAIN stack /\ stack'[k] = stack[k - 1]
      BY <1>1, <1>2, <1>3, <2>4
    <3> QED
      BY <1>3, <1>6, <2>1, <2>2, <3>1 DEF ServedInv, ServedAlive
  <2> QED BY <2>3, <2>4
<1> QED BY <1>7, <1>8

\* The frames below the top keep their contexts when the top one is left.
LEMMA ServedPop ==
  ASSUME ServedInv, stack # <<>>, stack' = Tail(stack),
         \A q \in Requests : q # Head(stack).req => state'[q] = state[q]
  PROVE  ServedAlive'
<1>1. /\ stack \in Seq(Frames)
      /\ DOMAIN stack' = 1 .. Len(stack) - 1
      /\ \A k \in 1 .. Len(stack) - 1 : stack'[k] = stack[k + 1]
      /\ DOMAIN stack = 1 .. Len(stack) /\ Len(stack) \in Nat /\ Len(stack) > 0
      /\ Head(stack) = stack[1]
  BY PopFrame DEF ServedInv, TypeOK
<1>2. SUFFICES ASSUME NEW j \in DOMAIN stack', NEW k \in DOMAIN stack', stack'[j].req # NoRequest
               PROVE  /\ state'[stack'[j].req] \in Busy
                      /\ stack'[k].req = stack'[j].req => j = k
  BY DEF ServedAlive
<1>3. /\ j + 1 \in DOMAIN stack /\ k + 1 \in DOMAIN stack /\ 1 \in DOMAIN stack
      /\ j + 1 # 1 /\ (j + 1 = k + 1 => j = k)
      /\ stack'[j] = stack[j + 1] /\ stack'[k] = stack[k + 1]
  BY <1>1
<1>4. /\ state[stack[j + 1].req] \in Busy
      /\ stack[k + 1].req = stack[j + 1].req => j + 1 = k + 1
      /\ stack[1].req # stack[j + 1].req
  BY <1>2, <1>3 DEF ServedInv, ServedAlive
<1>5. stack[j + 1].req \in Requests
  <2>1. stack[j + 1] \in Frames
    BY <1>1, <1>3
  <2> QED BY <2>1, <1>2, <1>3 DEF Frames
<1> QED BY <1>1, <1>3, <1>4, <1>5

\* Waiting calls have no context.
LEMMA ServedWait ==
  ASSUME ServedInv, NEW w \in Waits, state' = state, stack' = <<Wait(w)>> \o stack
  PROVE  ServedAlive'
<1>1. /\ stack \in Seq(Frames) /\ Wait(w) \in Frames /\ Wait(w).req = NoRequest
  BY WaitsOf DEF ServedInv, TypeOK
<1>2. /\ DOMAIN stack' = 1 .. Len(stack) + 1
      /\ stack'[1].req = NoRequest
      /\ \A k \in 2 .. Len(stack) + 1 : stack'[k] = stack[k - 1]
  BY <1>1, PushFrame
<1>3. SUFFICES ASSUME NEW j \in DOMAIN stack', NEW k \in DOMAIN stack', stack'[j].req # NoRequest
               PROVE  /\ state'[stack'[j].req] \in Busy
                      /\ stack'[k].req = stack'[j].req => j = k
  BY DEF ServedAlive
<1>4. j \in 2 .. Len(stack) + 1 /\ j - 1 \in DOMAIN stack /\ stack'[j] = stack[j - 1]
  BY <1>1, <1>2, <1>3
<1>5. CASE k = 1
  BY <1>2, <1>3, <1>4, <1>5 DEF ServedInv, ServedAlive
<1>6. CASE k # 1
  <2>1. k - 1 \in DOMAIN stack /\ stack'[k] = stack[k - 1] /\ (j - 1 = k - 1 => j = k)
    BY <1>1, <1>2, <1>4, <1>6
  <2> QED
    BY <1>3, <1>4, <2>1 DEF ServedInv, ServedAlive
<1> QED BY <1>5, <1>6

LEMMA ServedStep == ServedInv /\ [Next]_vars => ServedInv'
<1> SUFFICES ASSUME ServedInv, [Next]_vars PROVE ServedAlive'
  BY TypeStep DEF ServedInv
<1>0. TypeOK
  BY DEF ServedInv
<1>1. ASSUME NEW r \in Requests, Initiate(r) PROVE ServedAlive'
  <2>1. "initiating" \in Busy /\ state[r] \notin Busy
    BY <1>1 DEF Initiate, Busy
  <2> QED BY <1>1, <2>1, ServedPush DEF Initiate, Push
<1>2. ASSUME NEW r \in Requests, Answer(r) PROVE ServedAlive'
  <2>1. /\ state[r] \notin Busy
        /\ (IF r \in Hooked THEN "hook" ELSE "handler") \in Busy
    BY <1>2 DEF Answer, MayAnswer, Busy
  <2> QED BY <1>2, <2>1, ServedPush DEF Answer, Push
<1>3. ASSUME NEW r \in Requests, AnswerNull(r) PROVE ServedAlive'
  <2>1. /\ stack' = stack /\ state[r] \notin Busy
        /\ \A q \in Requests \ {r} : state'[q] = state[q]
    BY <1>3, <1>0 DEF AnswerNull, MayAnswer, Busy, TypeOK
  <2>2. \A k \in DOMAIN stack : stack[k].req \in Requests \cup {NoRequest}
    BY <1>0, FrameRequests
  <2> QED BY <2>1, <2>2 DEF ServedInv, ServedAlive
<1>4. ASSUME NEW r \in Requests, Accepted(r) \/ Refused(r) \/ HookThrows(r)
                                 \/ HandlerReturns(r) \/ HandlerThrows(r)
      PROVE ServedAlive'
  <2>1. /\ stack # <<>> /\ stack' = Tail(stack) /\ Head(stack).req = r
        /\ \A q \in Requests : q # r => state'[q] = state[q]
    BY <1>4, <1>0, FramesOf
    DEF Accepted, Refused, HookThrows, HandlerReturns, HandlerThrows, Pop, Serving, Top, TypeOK
  <2> QED BY <2>1, ServedPop
<1>5. ASSUME NEW r \in Requests, HookReturns(r) PROVE ServedAlive'
  <2>1. stack' = stack /\ \A q \in Requests : state[q] \in Busy => state'[q] \in Busy
    BY <1>5, <1>0 DEF HookReturns, TypeOK, Busy
  <2>2. \A k \in DOMAIN stack : stack[k].req \in Requests \cup {NoRequest}
    BY <1>0, FrameRequests
  <2> QED BY <2>1, <2>2 DEF ServedInv, ServedAlive
<1>6. ASSUME CallService \/ RunIterate \/ Close PROVE ServedAlive'
  <2>1. /\ state' = state
        /\ \E w \in Waits : stack' = <<Wait(w)>> \o stack
    BY <1>6 DEF CallService, RunIterate, Close, Push, Waits
  <2> QED BY <2>1, ServedWait
<1>7. ASSUME ServiceReturns \/ CloseEnd \/ \E bad \in BOOLEAN : IterateReturns(bad)
      PROVE ServedAlive'
  <2>1. stack # <<>> /\ stack' = Tail(stack) /\ state' = state
    BY <1>7 DEF ServiceReturns, CloseEnd, IterateReturns, Pop
  <2> QED BY <2>1, ServedPop
<1>8. CASE UNCHANGED vars
  BY <1>8 DEF vars, ServedInv, ServedAlive
<1> QED
  BY <1>1, <1>2, <1>3, <1>4, <1>5, <1>6, <1>7, <1>8 DEF Next, Progress

\* The context of each call in progress exists, and no two calls share one.
THEOREM ServedAliveCorrect == Spec => []ServedAlive
<1>1. Init => ServedInv
  BY TypeInit DEF Init, ServedInv, ServedAlive
<1>2. ServedInv => ServedAlive
  BY DEF ServedInv
<1> QED
  BY <1>1, <1>2, ServedStep, PTL DEF Spec

-----------------------------------------------------------------------------
(***************************************************************************)
(* NodeBrowsing, for any number of callers, continuation points,           *)
(* references and pages, with and without failures.  The argument: a call  *)
(* in progress has collected exactly the references that precede its       *)
(* continuation point, and nobody else has that point.                     *)
(***************************************************************************)
Collected == Answers \cup {LocalOf(s) : s \in Answers}
Calls == [kind : AllKinds \cup {"none"}, at : {"idle", "browse", "next", "done"},
          query : Queries \cup {None}, refs : Collected,
          point : Points \cup {None}, status : Statuses]
PointStates == [query : Queries \cup {None}, next : 0 .. MaxReferences]

BrowseTypes ==
    /\ answer \in [Queries -> Answers]
    /\ points \in [Points -> PointStates]
    /\ call \in [Callers -> Calls]
    /\ left \subseteq Points

\* What a finished call without an error has.
Complete(r, all) ==
    CASE r.kind = "references" -> r.refs = all
      [] r.kind = "nodes" -> r.refs = LocalOf(all)
      [] r.kind = "parent" -> r.refs # <<>> /\ r.refs[1] = all[1]

\* A call in progress has collected the references before its continuation point.
CallOK(c) ==
    /\ call[c].at # "next" => call[c].point = None
    /\ call[c].at # "idle" => call[c].kind \in AllKinds /\ call[c].query \in Queries
    /\ call[c].at = "next" =>
        LET p == call[c].point
            q == call[c].query IN
        /\ call[c].kind # "parent"
        /\ p \in Points
        /\ points[p].query = q /\ points[p].next \in 0 .. Len(answer[q])
        /\ call[c].refs = SubSeq(answer[q], 1, points[p].next)
    /\ call[c].at = "done" /\ call[c].status = "Good" => Complete(call[c], answer[call[c].query])

PointsApart ==
    \A c, d \in Callers : call[c].point # None /\ call[c].point = call[d].point => c = d

\* A place of the session is in use by one call, or left behind, but not both.
PlacesKnown ==
    \A p \in Points :
        /\ points[p] # Unused <=> p \in left \/ \E c \in Callers : call[c].point = p
        /\ p \in left => \A c \in Callers : call[c].point # p

BrowseInv ==
    /\ BrowseTypes
    /\ \A c \in Callers : CallOK(c)
    /\ PointsApart
    /\ PlacesKnown

-----------------------------------------------------------------------------
(***************************************************************************)
(* Sequences of references.                                                *)
(***************************************************************************)
LEMMA AnswersAre ==
  /\ \A s \in Answers : s \in Seq(Targets) /\ Len(s) \in 0 .. MaxReferences
  /\ \A s \in Seq(Targets) : Len(s) <= MaxReferences => s \in Answers
  /\ <<>> \in Answers
<1>1. ASSUME NEW s \in Answers PROVE s \in Seq(Targets) /\ Len(s) \in 0 .. MaxReferences
  <2>1. PICK n \in 0 .. MaxReferences : s \in [1 .. n -> Targets]
    BY DEF Answers
  <2> QED
    BY <2>1, BoundsAssumption
<1>2. ASSUME NEW s \in Seq(Targets), Len(s) <= MaxReferences PROVE s \in Answers
  <2>1. Len(s) \in 0 .. MaxReferences /\ s \in [1 .. Len(s) -> Targets]
    BY <1>2, BoundsAssumption
  <2> QED
    BY <2>1 DEF Answers
<1>3. <<>> \in Seq(Targets) /\ Len(<<>>) <= MaxReferences
  BY BoundsAssumption
<1> QED
  BY <1>1, <1>2, <1>3

LEMMA Prefix ==
  ASSUME NEW s \in Answers, NEW n \in 0 .. Len(s)
  PROVE  /\ SubSeq(s, 1, n) \in Answers
         /\ n > 0 => SubSeq(s, 1, n) # <<>> /\ SubSeq(s, 1, n)[1] = s[1]
<1>1. s \in Seq(Targets) /\ Len(s) \in 0 .. MaxReferences
  BY AnswersAre
<1>2. \A i \in 1 .. n : s[i] \in Targets
  BY <1>1
<1>3. /\ SubSeq(s, 1, n) \in Seq(Targets)
      /\ Len(SubSeq(s, 1, n)) = n
      /\ \A i \in 1 .. n : SubSeq(s, 1, n)[i] = s[i]
  BY <1>1, <1>2, SubSeqProperties
<1>4. n <= MaxReferences
  BY <1>1, BoundsAssumption
<1>5. SubSeq(s, 1, n) \in Answers
  BY <1>3, <1>4, AnswersAre
<1> QED
  BY <1>1, <1>3, <1>5

\* One more response continues the collected references.
LEMMA Continued ==
  ASSUME NEW s \in Answers, NEW m \in 0 .. Len(s), NEW n \in m .. Len(s)
  PROVE  SubSeq(s, 1, m) \o SubSeq(s, m + 1, n) = SubSeq(s, 1, n)
  BY AnswersAre, ConcatAdjacentSubSeq

LEMMA UntilIs ==
  ASSUME BrowseTypes, NEW q \in Queries, NEW n \in 0 .. Len(answer[q]), NEW max \in Nat
  PROVE  /\ Until(n, q, max) \in n .. Len(answer[q])
         /\ \/ Until(n, q, max) = Len(answer[q])
            \/ Until(n, q, max) = n + (IF max < Page THEN max ELSE Page)
<1>1. Len(answer[q]) \in Nat
  BY AnswersAre, BoundsAssumption DEF BrowseTypes
<1> DEFINE P(i) == i = Len(answer[q]) \/ i = n + (IF max < Page THEN max ELSE Page)
<1>2. Len(answer[q]) \in n .. Len(answer[q]) /\ P(Len(answer[q]))
  BY <1>1
<1>3. Until(n, q, max) = CHOOSE i \in n .. Len(answer[q]) : P(i)
  BY DEF Until
<1> HIDE DEF P
<1>4. Until(n, q, max) \in n .. Len(answer[q]) /\ P(Until(n, q, max))
  BY <1>2, <1>3
<1> QED
  BY <1>4 DEF P
-----------------------------------------------------------------------------
(***************************************************************************)
(* A step of one call changes its record and some continuation points,     *)
(* none of them another call's.                                            *)
(***************************************************************************)
\* The points in S are the call's own, or free.
Confined(c, S) ==
    /\ UNCHANGED answer /\ points' \in [Points -> PointStates] /\ left' \subseteq Points
    /\ S \subseteq Points
    /\ \A p \in Points \ S : points'[p] = points[p] /\ (p \in left' <=> p \in left)
    /\ \A d \in Callers \ {c} : call[d].point \notin S
    /\ call[c].point \in S \cup {None}
Settled(x, S) ==
    /\ x \in S \cup {None}
    /\ \A p \in S : /\ points'[p] # Unused <=> p \in left' \/ x = p
                    /\ p \in left' => x # p

LEMMA OthersKept ==
  ASSUME BrowseInv, NEW c \in Callers, NEW r \in Calls, call' = [call EXCEPT ![c] = r],
         NEW S, Confined(c, S), Settled(r.point, S), CallOK(c)'
  PROVE  BrowseInv'
<1> USE DEF Confined, Settled
<1>1. call'[c] = r /\ \A d \in Callers \ {c} : call'[d] = call[d]
  BY DEF BrowseInv, BrowseTypes
<1>2. BrowseTypes'
  BY DEF BrowseInv, BrowseTypes
<1>n. None \notin Points /\ \A d \in Callers : call[d].point \in Points \cup {None}
  BY NoneAssumption DEF BrowseInv, BrowseTypes, Calls
<1>3. ASSUME NEW d \in Callers \ {c} PROVE CallOK(d)'
  <2>1. call'[d] = call[d] /\ CallOK(d) /\ call[d].point \notin S
    BY <1>1 DEF BrowseInv
  <2>2. call[d].point \in Points => points'[call[d].point] = points[call[d].point]
    BY <2>1
  <2> QED
    BY <2>1, <2>2 DEF CallOK
<1>4. PointsApart'
  <2> SUFFICES ASSUME NEW d \in Callers, NEW e \in Callers,
                      call'[d].point # None, call'[d].point = call'[e].point
               PROVE  d = e
    BY DEF PointsApart
  <2> QED
    BY <1>1, <1>n DEF BrowseInv, PointsApart
<1>5. PlacesKnown'
  <2> SUFFICES ASSUME NEW p \in Points
               PROVE  /\ points'[p] # Unused <=>
                            p \in left' \/ \E d \in Callers : call'[d].point = p
                      /\ p \in left' => \A d \in Callers : call'[d].point # p
    BY DEF PlacesKnown, Unused
  <2>1. CASE p \in S
    <3>1. \A d \in Callers : call'[d].point = p <=> d = c /\ r.point = p
      BY <1>1, <2>1
    <3> QED
      BY <2>1, <3>1
  <2>2. CASE p \notin S
    <3>1. \A d \in Callers : call'[d].point = p <=> call[d].point = p
      BY <1>1, <1>n, <2>2
    <3>2. points'[p] = points[p] /\ (p \in left' <=> p \in left)
      BY <2>2
    <3> QED
      BY <3>1, <3>2 DEF BrowseInv, PlacesKnown
  <2> QED
    BY <2>1, <2>2
<1> QED
  BY <1>2, <1>3, <1>4, <1>5 DEF BrowseInv

\* What the function makes of a complete answer, or of browseParent's first page.
LEMMA ResultIs ==
  ASSUME NEW kind \in AllKinds, NEW all \in Answers, NEW refs \in Answers, NEW status \in Statuses,
         status = "Good" =>
            refs = all \/ (kind = "parent" /\ refs # <<>> /\ refs[1] = all[1])
  PROVE  /\ Result(kind, refs, status).refs \in Collected
         /\ Result(kind, refs, status).status \in Statuses
         /\ Result(kind, refs, status).status = "Good" =>
              Complete([kind |-> kind, refs |-> Result(kind, refs, status).refs], all)
<1> DEFINE R == Result(kind, refs, status)
<1>e. <<>> \in Collected /\ refs \in Collected /\ LocalOf(refs) \in Collected
  BY AnswersAre DEF Collected
<1>1. CASE status # "Good"
  <2>1. R = [refs |-> <<>>, status |-> status]
    BY <1>1 DEF Result
  <2> QED
    BY <1>1, <1>e, <2>1
<1>2. CASE status = "Good" /\ kind = "references"
  <2>1. R = [refs |-> refs, status |-> status]
    BY <1>2 DEF Result
  <2> QED
    BY <1>2, <1>e, <2>1 DEF Complete
<1>3. CASE status = "Good" /\ kind = "nodes"
  <2>1. R = [refs |-> LocalOf(refs), status |-> status]
    BY <1>3 DEF Result
  <2> QED
    BY <1>3, <1>e, <2>1 DEF Complete
<1>4. CASE status = "Good" /\ kind = "parent" /\ refs = <<>>
  <2>1. R = [refs |-> <<>>, status |-> "BadNotFound"]
    BY <1>4 DEF Result
  <2> QED
    BY <1>e, <2>1 DEF Statuses
<1>5. CASE status = "Good" /\ kind = "parent" /\ refs # <<>> /\ ~IsLocal(Head(refs))
  <2>1. R = [refs |-> <<>>, status |-> "BadNodeIdUnknown"]
    BY <1>5 DEF Result
  <2> QED
    BY <1>e, <2>1 DEF Statuses
<1>6. CASE status = "Good" /\ kind = "parent" /\ refs # <<>> /\ IsLocal(Head(refs))
  <2>1. R = [refs |-> refs, status |-> status]
    BY <1>6 DEF Result
  <2> QED
    BY <1>6, <1>e, <2>1 DEF Complete
<1> QED
  BY <1>1, <1>2, <1>3, <1>4, <1>5, <1>6 DEF AllKinds

LEMMA FinishIs ==
  ASSUME BrowseTypes, NEW c \in Callers, CallOK(c), call[c].at \in {"browse", "next"},
         UNCHANGED answer, NEW refs \in Answers, NEW status \in Statuses,
         LET all == answer[call[c].query] IN status = "Good" =>
            refs = all \/ (call[c].kind = "parent" /\ refs # <<>> /\ refs[1] = all[1]),
         Finish(c, refs, status)
  PROVE  \E r \in Calls : call' = [call EXCEPT ![c] = r] /\ r.point = None /\ CallOK(c)'
<1> DEFINE q == call[c].query
           k == call[c].kind
           res == Result(k, refs, status)
           r == [call[c] EXCEPT !.at = "done", !.refs = res.refs, !.status = res.status,
                                !.point = None]
<1>1. k \in AllKinds /\ q \in Queries /\ answer[q] \in Answers
  BY DEF CallOK, BrowseTypes
<1>2. /\ res.refs \in Collected /\ res.status \in Statuses
      /\ res.status = "Good" => Complete([kind |-> k, refs |-> res.refs], answer[q])
  BY <1>1, ResultIs
<1>3. call' = [call EXCEPT ![c] = r]
  BY DEF Finish
<1>c. call[c] \in Calls
  BY DEF BrowseTypes
<1> HIDE DEF res
<1>4. /\ r \in Calls /\ r.at = "done" /\ r.kind = k /\ r.query = q /\ r.point = None
      /\ r.refs = res.refs /\ r.status = res.status
  BY <1>2, <1>c DEF Calls
<1>5. r.status = "Good" => Complete(r, answer[q])
  BY <1>2, <1>4 DEF Complete
<1>6. call'[c] = r
  BY <1>3, <1>4 DEF BrowseTypes
<1> HIDE DEF r
<1>7. CallOK(c)'
  BY <1>1, <1>4, <1>5, <1>6 DEF CallOK
<1> QED
  BY <1>3, <1>4, <1>7
-----------------------------------------------------------------------------
(***************************************************************************)
(* The steps.                                                              *)
(***************************************************************************)
LEMMA BrowseInit == BrowsingInit => BrowseInv
<1> SUFFICES ASSUME BrowsingInit PROVE BrowseInv
  OBVIOUS
<1>1. <<>> \in Collected /\ Unused \in PointStates
  BY AnswersAre, BoundsAssumption DEF Collected, Unused, PointStates
<1>2. Idle \in Calls /\ Idle.at = "idle" /\ Idle.point = None
  BY <1>1 DEF Idle, Calls, Statuses
<1>3. BrowseTypes
  BY <1>1, <1>2 DEF BrowsingInit, BrowseTypes
<1>4. \A c \in Callers : call[c] = Idle
  BY DEF BrowsingInit
<1>5. \A c \in Callers : CallOK(c)
  BY <1>2, <1>4 DEF CallOK
<1>6. PointsApart
  BY <1>2, <1>4 DEF PointsApart
<1>7. PlacesKnown
  BY <1>2, <1>4, NoneAssumption DEF PlacesKnown, BrowsingInit
<1> QED
  BY <1>3, <1>5, <1>6, <1>7 DEF BrowseInv

\* The first response of a browse that does not hold all references.
LEMMA FirstPage ==
  ASSUME BrowseTypes, NEW q \in Queries, NEW kind \in AllKinds,
         ~IsLast(Until(0, q, Requested(kind)), q)
  PROVE  /\ Until(0, q, Requested(kind)) \in 0 .. Len(answer[q])
         /\ [query |-> q, next |-> Until(0, q, Requested(kind))] \in PointStates
         /\ [query |-> q, next |-> Until(0, q, Requested(kind))] # Unused
         /\ kind = "parent" => Until(0, q, Requested(kind)) > 0
<1>1. answer[q] \in Answers /\ Len(answer[q]) \in 0 .. MaxReferences
  BY AnswersAre DEF BrowseTypes
<1>2. Requested(kind) \in Nat /\ 0 \in 0 .. Len(answer[q])
  BY <1>1, BoundsAssumption DEF Requested
<1> DEFINE i == Until(0, q, Requested(kind))
<1>3. /\ i \in 0 .. Len(answer[q])
      /\ i = 0 + (IF Requested(kind) < Page THEN Requested(kind) ELSE Page)
  BY <1>2, UntilIs DEF IsLast
<1> HIDE DEF i
<1>4. i \in 0 .. MaxReferences
  BY <1>1, <1>3, BoundsAssumption
<1>5. [query |-> q, next |-> i] \in PointStates /\ [query |-> q, next |-> i] # Unused
  BY <1>4, NoneAssumption DEF PointStates, Unused
<1>6. kind = "parent" => i > 0
  BY <1>3, BoundsAssumption DEF Requested
<1> QED
  BY <1>3, <1>5, <1>6 DEF i

\* A call that ends, with or without the references.
LEMMA FinishStep ==
  ASSUME BrowseInv, NEW c \in Callers, call[c].at \in {"browse", "next"},
         NEW refs \in Answers, NEW status \in Statuses,
         LET all == answer[call[c].query] IN status = "Good" =>
            refs = all \/ (call[c].kind = "parent" /\ refs # <<>> /\ refs[1] = all[1]),
         Finish(c, refs, status), NEW S, Confined(c, S), Settled(None, S)
  PROVE  BrowseInv'
<1>1. PICK r \in Calls : call' = [call EXCEPT ![c] = r] /\ r.point = None /\ CallOK(c)'
  BY FinishIs DEF BrowseInv, Confined
<1> QED
  BY <1>1, OthersKept

\* A step that leaves all continuation points alone.
LEMMA NoneTouched ==
  ASSUME BrowseInv, NEW c \in Callers, call[c].point = None, UNCHANGED <<answer, points, left>>
  PROVE  Confined(c, {}) /\ Settled(None, {})
  BY DEF BrowseInv, BrowseTypes, Confined, Settled

LEMMA Unclaimed ==
  ASSUME BrowseInv, NEW p \in Points, points[p] = Unused
  PROVE  p \notin left /\ \A d \in Callers : call[d].point # p
  BY DEF BrowseInv, PlacesKnown

LEMMA CallStep ==
  ASSUME BrowseInv, NEW c \in Callers, NEW kind \in AllKinds, NEW q \in Queries, Call(c, kind, q)
  PROVE  BrowseInv'
<1> DEFINE r == [Idle EXCEPT !.kind = kind, !.at = "browse", !.query = q]
<1>1. r \in Calls /\ r.point = None /\ r.at = "browse" /\ r.kind = kind /\ r.query = q
  BY AnswersAre DEF Idle, Calls, Collected, Statuses
<1>2. call' = [call EXCEPT ![c] = r] /\ UNCHANGED <<answer, points, left>> /\ call[c].point = None
  BY DEF Call, Idle
<1>3. call'[c] = r
  BY <1>2 DEF BrowseInv, BrowseTypes
<1> HIDE DEF r
<1>4. CallOK(c)'
  BY <1>1, <1>3 DEF CallOK
<1>5. Confined(c, {}) /\ Settled(None, {})
  BY <1>2, NoneTouched
<1> QED
  BY <1>1, <1>2, <1>4, <1>5, OthersKept

LEMMA ReturnStep ==
  ASSUME BrowseInv, NEW c \in Callers, Return(c)
  PROVE  BrowseInv'
<1>1. Idle \in Calls /\ Idle.point = None /\ Idle.at = "idle"
  BY AnswersAre DEF Idle, Calls, Collected, Statuses
<1>2. /\ call' = [call EXCEPT ![c] = Idle] /\ UNCHANGED <<answer, points, left>>
      /\ call[c].point = None
  BY DEF Return, BrowseInv, CallOK
<1>3. call'[c] = Idle
  BY <1>2 DEF BrowseInv, BrowseTypes
<1>4. CallOK(c)'
  BY <1>1, <1>3 DEF CallOK
<1>5. Confined(c, {}) /\ Settled(None, {})
  BY <1>2, NoneTouched
<1> QED
  BY <1>1, <1>2, <1>4, <1>5, OthersKept

\* A browse that ends with its first response, or without one.
LEMMA BrowseEndStep ==
  ASSUME BrowseInv, NEW c \in Callers, BrowseFits(c) \/ BrowseRefused(c)
  PROVE  BrowseInv'
<1>1. /\ call[c].at = "browse" /\ call[c].point = None /\ answer[call[c].query] \in Answers
      /\ UNCHANGED <<answer, points, left>>
  BY DEF BrowseFits, BrowseRefused, BrowseInv, BrowseTypes, CallOK
<1>2. Confined(c, {}) /\ Settled(None, {})
  BY <1>1, NoneTouched
<1>5. CASE BrowseFits(c)
  <2>1. Finish(c, answer[call[c].query], "Good") /\ "Good" \in Statuses
    BY <1>5 DEF BrowseFits, Statuses
  <2> QED
    BY <1>1, <1>2, <2>1, FinishStep
<1>6. CASE BrowseRefused(c)
  <2>1. /\ Finish(c, <<>>, "BadNoContinuationPoints") /\ "BadNoContinuationPoints" \in Statuses
        /\ <<>> \in Answers
    BY <1>6, AnswersAre DEF BrowseRefused, Statuses
  <2> QED
    BY <1>1, <1>2, <2>1, FinishStep
<1> QED
  BY <1>5, <1>6

LEMMA BrowseMoreStep ==
  ASSUME BrowseInv, NEW c \in Callers, NEW p \in Points, BrowseMore(c, p)
  PROVE  BrowseInv'
<1> DEFINE q == call[c].query
           kind == call[c].kind
           i == Until(0, q, Requested(kind))
           n == [query |-> q, next |-> i]
<1>1. /\ call[c].at = "browse" /\ ~IsLast(i, q) /\ points[p] = Unused
      /\ points' = [points EXCEPT ![p] = n] /\ UNCHANGED answer
  BY DEF BrowseMore
<1>2. BrowseTypes /\ CallOK(c) /\ kind \in AllKinds /\ q \in Queries /\ call[c].point = None
  BY <1>1 DEF BrowseInv, CallOK
<1>3. i \in 0 .. Len(answer[q]) /\ n \in PointStates /\ n # Unused /\ (kind = "parent" => i > 0)
  BY <1>1, <1>2, FirstPage
<1>a. answer[q] \in Answers
  BY <1>2 DEF BrowseTypes
<1>r. /\ SubSeq(answer[q], 1, i) \in Answers
      /\ i > 0 => SubSeq(answer[q], 1, i) # <<>> /\ SubSeq(answer[q], 1, i)[1] = answer[q][1]
  BY <1>3, <1>a, Prefix
<1>b. /\ kind = "parent" => Finish(c, SubSeq(answer[q], 1, i), "Good") /\ left' = left \cup {p}
      /\ kind # "parent" =>
           /\ call' = [call EXCEPT ![c].at = "next", ![c].refs = SubSeq(answer[q], 1, i),
                                   ![c].point = p]
           /\ UNCHANGED left
  BY DEF BrowseMore
<1>n. n.query = q /\ n.next = i
  OBVIOUS
<1> HIDE DEF n, i
<1>4. /\ points' \in [Points -> PointStates] /\ points'[p] = n
      /\ \A o \in Points \ {p} : points'[o] = points[o]
  BY <1>1, <1>2, <1>3 DEF BrowseTypes
<1>5. p \notin left /\ \A d \in Callers : call[d].point # p
  BY <1>1, Unclaimed
<1>6. left' \subseteq Points /\ \A o \in Points \ {p} : o \in left' <=> o \in left
  BY <1>2, <1>b DEF BrowseTypes
<1>7. Confined(c, {p})
  BY <1>1, <1>2, <1>4, <1>5, <1>6 DEF Confined
<1>8. CASE kind = "parent"
  <2>1. Finish(c, SubSeq(answer[q], 1, i), "Good") /\ "Good" \in Statuses
    BY <1>8, <1>b DEF Statuses
  <2>2. Settled(None, {p})
    BY <1>3, <1>4, <1>8, <1>b, NoneAssumption DEF Settled
  <2>3. LET all == answer[call[c].query] IN
          \/ SubSeq(answer[q], 1, i) = all
          \/ /\ call[c].kind = "parent" /\ SubSeq(answer[q], 1, i) # <<>>
             /\ SubSeq(answer[q], 1, i)[1] = all[1]
    BY <1>3, <1>8, <1>r
  <2> QED
    BY <1>1, <1>7, <1>r, <2>1, <2>2, <2>3, FinishStep
<1>9. CASE kind # "parent"
  <2> DEFINE r == [call[c] EXCEPT !.at = "next", !.refs = SubSeq(answer[q], 1, i), !.point = p]
  <2>1. call[c] \in Calls /\ SubSeq(answer[q], 1, i) \in Collected
    BY <1>2, <1>r DEF BrowseTypes, Collected
  <2>2. /\ r \in Calls /\ r.at = "next" /\ r.kind = kind /\ r.query = q /\ r.point = p
        /\ r.refs = SubSeq(answer[q], 1, i)
    BY <2>1 DEF Calls
  <2>3. call' = [call EXCEPT ![c] = r] /\ UNCHANGED left
    BY <1>9, <1>b
  <2> HIDE DEF r
  <2>4. call'[c] = r
    BY <1>2, <2>3 DEF BrowseTypes
  <2>5. CallOK(c)'
    BY <1>1, <1>2, <1>3, <1>4, <1>9, <1>n, <2>2, <2>4 DEF CallOK
  <2>6. Settled(r.point, {p})
    BY <1>3, <1>4, <1>5, <2>2, <2>3 DEF Settled
  <2> QED
    BY <1>7, <2>2, <2>3, <2>5, <2>6, OthersKept
<1> QED
  BY <1>8, <1>9
\* The next response: it continues the references, and gives the point back at the end.
LEMMA BrowseNextStep ==
  ASSUME BrowseInv, NEW c \in Callers, BrowseNext(c)
  PROVE  BrowseInv'
<1> DEFINE p == call[c].point
           q == call[c].query
           m == points[p].next
           i == Until(m, q, MaxReferences)
           refs == call[c].refs \o SubSeq(answer[q], m + 1, i)
<1>1. /\ call[c].at = "next" /\ UNCHANGED <<answer, left>>
      /\ IsLast(i, q) => Finish(c, refs, "Good") /\ points' = [points EXCEPT ![p] = Unused]
      /\ ~IsLast(i, q) => /\ call' = [call EXCEPT ![c].refs = refs]
                          /\ points' = [points EXCEPT ![p].next = i]
  BY DEF BrowseNext
<1>2. /\ BrowseTypes /\ q \in Queries /\ call[c].kind \in AllKinds \ {"parent"} /\ p \in Points
      /\ points[p].query = q /\ m \in 0 .. Len(answer[q])
      /\ call[c].refs = SubSeq(answer[q], 1, m)
  BY <1>1 DEF BrowseInv, CallOK
<1>3. answer[q] \in Answers /\ Len(answer[q]) \in 0 .. MaxReferences
  BY <1>2, AnswersAre DEF BrowseTypes
<1>4. i \in m .. Len(answer[q])
  BY <1>2, UntilIs, BoundsAssumption
<1> HIDE DEF i
<1>5. i \in 0 .. Len(answer[q]) /\ i \in 0 .. MaxReferences
  BY <1>2, <1>3, <1>4, BoundsAssumption
<1>6. refs = SubSeq(answer[q], 1, i)
  BY <1>2, <1>3, <1>4, Continued
<1>7. refs \in Answers
  BY <1>3, <1>5, <1>6, Prefix
<1> HIDE DEF refs
<1>c. call[c] \in Calls /\ points[p] \in PointStates
  BY <1>2 DEF BrowseTypes
<1>8. /\ \A d \in Callers \ {c} : call[d].point # p
      /\ p # None /\ p \notin left /\ left \subseteq Points
  BY <1>2, NoneAssumption DEF BrowseInv, PointsApart, PlacesKnown, BrowseTypes
<1>9. CASE IsLast(i, q)
  <2>1. Finish(c, refs, "Good") /\ "Good" \in Statuses /\ points' = [points EXCEPT ![p] = Unused]
    BY <1>1, <1>9 DEF Statuses
  <2>2. refs = answer[q]
    BY <1>3, <1>6, <1>9, AnswersAre, SubSeqFull DEF IsLast
  <2>3. Unused \in PointStates
    BY BoundsAssumption DEF Unused, PointStates
  <2>4. /\ points' \in [Points -> PointStates] /\ points'[p] = Unused
        /\ \A o \in Points \ {p} : points'[o] = points[o]
    BY <1>2, <2>1, <2>3 DEF BrowseTypes
  <2>5. Confined(c, {p})
    BY <1>1, <1>2, <1>8, <2>4 DEF Confined
  <2>6. Settled(None, {p})
    BY <1>1, <1>8, <2>4 DEF Settled
  <2> QED
    BY <1>1, <1>7, <2>1, <2>2, <2>5, <2>6, FinishStep
<1>10. CASE ~IsLast(i, q)
  <2> DEFINE r == [call[c] EXCEPT !.refs = refs]
             n == [points[p] EXCEPT !.next = i]
  <2>1. call' = [call EXCEPT ![c] = r] /\ points' = [points EXCEPT ![p] = n]
    BY <1>1, <1>10
  <2>2. /\ r \in Calls /\ r.at = "next" /\ r.kind = call[c].kind /\ r.query = q /\ r.point = p
        /\ r.refs = refs
    BY <1>1, <1>7, <1>c DEF Calls, Collected
  <2>3. n \in PointStates /\ n.query = q /\ n.next = i /\ n # Unused
    BY <1>2, <1>5, <1>c, NoneAssumption DEF PointStates, Unused
  <2> HIDE DEF r, n
  <2>4. call'[c] = r
    BY <1>2, <2>1 DEF BrowseTypes
  <2>5. /\ points' \in [Points -> PointStates] /\ points'[p] = n
        /\ \A o \in Points \ {p} : points'[o] = points[o]
    BY <1>2, <2>1, <2>3 DEF BrowseTypes
  <2>6. CallOK(c)'
    BY <1>1, <1>2, <1>5, <1>6, <2>2, <2>3, <2>4, <2>5 DEF CallOK
  <2>7. Confined(c, {p})
    BY <1>1, <1>2, <1>8, <2>5 DEF Confined
  <2>8. Settled(r.point, {p})
    BY <1>1, <1>8, <2>2, <2>3, <2>5 DEF Settled
  <2> QED
    BY <2>1, <2>2, <2>6, <2>7, <2>8, OthersKept
<1> QED
  BY <1>9, <1>10

LEMMA FaultStep ==
  ASSUME BrowseInv, NEW c \in Callers, Fault(c)
  PROVE  BrowseInv'
<1> DEFINE S == {call[c].point} \ {None}
<1>1. /\ call[c].at \in {"browse", "next"} /\ left' = left \cup S
      /\ Finish(c, call[c].refs, "BadCommunication") /\ "BadCommunication" \in Statuses
      /\ UNCHANGED <<answer, points>>
  BY DEF Fault, Statuses
<1>2. BrowseTypes /\ PlacesKnown /\ PointsApart
  BY DEF BrowseInv
<1>3. S \subseteq Points
  BY <1>2 DEF BrowseTypes, Calls
<1>4. Confined(c, S)
  <2>1. points' \in [Points -> PointStates] /\ left' \subseteq Points
    BY <1>1, <1>2, <1>3 DEF BrowseTypes
  <2>2. \A d \in Callers \ {c} : call[d].point \notin S
    BY <1>2 DEF PointsApart
  <2> QED
    BY <1>1, <1>3, <2>1, <2>2 DEF Confined
<1>5. Settled(None, S)
  BY <1>1, <1>2, <1>3 DEF Settled, PlacesKnown
<1>6. \E refs \in Answers : Finish(c, refs, "BadCommunication")
  <2>1. Finish(c, <<>>, "BadCommunication")
    <3>1. "BadCommunication" # "Good"
      OBVIOUS
    <3> QED
      BY <1>1 DEF Finish, Result
  <2> QED
    BY <2>1, AnswersAre
<1> HIDE DEF S
<1> QED
  BY <1>1, <1>4, <1>5, <1>6, FinishStep

LEMMA ResponseLostStep ==
  ASSUME BrowseInv, NEW c \in Callers, NEW p \in Points, ResponseLost(c, p)
  PROVE  BrowseInv'
<1> DEFINE q == call[c].query
           i == Until(0, q, Requested(call[c].kind))
           n == [query |-> q, next |-> i]
<1>1. /\ call[c].at = "browse" /\ ~IsLast(i, q) /\ points[p] = Unused
      /\ points' = [points EXCEPT ![p] = n] /\ left' = left \cup {p} /\ UNCHANGED answer
      /\ Finish(c, <<>>, "BadCommunication")
  BY DEF ResponseLost
<1>2. BrowseTypes /\ call[c].kind \in AllKinds /\ q \in Queries /\ call[c].point = None
  BY <1>1 DEF BrowseInv, CallOK
<1>3. n \in PointStates /\ n # Unused
  BY <1>1, <1>2, FirstPage
<1> HIDE DEF n, i
<1>4. /\ points' \in [Points -> PointStates] /\ points'[p] = n
      /\ \A o \in Points \ {p} : points'[o] = points[o]
  BY <1>1, <1>2, <1>3 DEF BrowseTypes
<1>5. \A d \in Callers : call[d].point # p
  BY <1>1, Unclaimed
<1>6. Confined(c, {p})
  BY <1>1, <1>2, <1>4, <1>5 DEF Confined, BrowseTypes
<1>7. Settled(None, {p})
  BY <1>1, <1>3, <1>4, NoneAssumption DEF Settled
<1>8. <<>> \in Answers /\ "BadCommunication" \in Statuses /\ call[c].at \in {"browse", "next"}
  BY <1>1, AnswersAre DEF Statuses
<1>9. "BadCommunication" # "Good"
  OBVIOUS
<1> QED
  BY <1>1, <1>6, <1>7, <1>8, <1>9, FinishStep

LEMMA SessionLostStep ==
  ASSUME BrowseInv, SessionLost
  PROVE  BrowseInv'
<1>1. /\ \A c \in Callers : call[c] = Idle
      /\ points' = [p \in Points |-> Unused] /\ left' = {} /\ UNCHANGED <<answer, call>>
  BY DEF SessionLost
<1>2. Idle.at = "idle" /\ Idle.point = None /\ Unused \in PointStates
  BY BoundsAssumption DEF Idle, Unused, PointStates
<1>3. BrowseTypes'
  BY <1>1, <1>2 DEF BrowseInv, BrowseTypes
<1>4. \A c \in Callers : CallOK(c)'
  BY <1>1, <1>2 DEF CallOK
<1>5. PointsApart' /\ PlacesKnown'
  BY <1>1, <1>2, NoneAssumption DEF PointsApart, PlacesKnown, Unused
<1> QED
  BY <1>3, <1>4, <1>5 DEF BrowseInv

LEMMA BrowseStep == BrowseInv /\ [BrowsingNext]_browsingVars => BrowseInv'
<1> SUFFICES ASSUME BrowseInv, [BrowsingNext]_browsingVars PROVE BrowseInv'
  OBVIOUS
<1>1. ASSUME NEW c \in Callers, CallGoesOn(c) PROVE BrowseInv'
  BY <1>1, BrowseEndStep, BrowseMoreStep, BrowseNextStep, ReturnStep DEF CallGoesOn
<1>2. ASSUME NEW c \in Callers, NEW kind \in AllKinds, NEW q \in Queries, Call(c, kind, q)
      PROVE BrowseInv'
  BY <1>2, CallStep
<1>3. ASSUME NEW c \in Callers, Fault(c) \/ \E p \in Points : ResponseLost(c, p) PROVE BrowseInv'
  BY <1>3, FaultStep, ResponseLostStep
<1>4. CASE SessionLost
  BY <1>4, SessionLostStep
<1>5. CASE UNCHANGED browsingVars
  BY <1>5 DEF browsingVars, BrowseInv, BrowseTypes, CallOK, PointsApart, PlacesKnown
<1> QED
  BY <1>1, <1>2, <1>3, <1>4, <1>5 DEF BrowsingNext

LEMMA BrowseInvariant == BrowsingSpec => []BrowseInv
<1>1. BrowseInv /\ [BrowsingNext]_browsingVars => BrowseInv'
  BY BrowseStep
<1> QED
  BY <1>1, BrowseInit, PTL DEF BrowsingSpec

\* What browseAll and the functions on top of it return without an error is complete and
\* in order, over however many responses, pages and callers.
THEOREM AllReferencesCorrect == BrowsingSpec => []AllReferences
<1>1. BrowseInv => AllReferences
  <2> SUFFICES ASSUME BrowseInv, NEW c \in Callers, Done(c)
               PROVE  LET all == answer[call[c].query] IN
                      CASE call[c].kind = "references" -> call[c].refs = all
                        [] call[c].kind = "nodes" -> call[c].refs = LocalOf(all)
                        [] call[c].kind = "parent" ->
                              call[c].refs # <<>> /\ call[c].refs[1] = all[1]
    BY DEF AllReferences
  <2>1. Complete(call[c], answer[call[c].query])
    BY DEF BrowseInv, CallOK, Done
  <2> QED
    BY <2>1 DEF Complete
<1> QED
  BY <1>1, BrowseInvariant, PTL

\* The session's places are those of the calls in progress and those left behind by a
\* failure or browseParent: browseAll gives back what it takes.
THEOREM PointsReturnedCorrect == BrowsingSpec => []PointsReturned
<1>1. BrowseInv => PointsReturned
  <2> SUFFICES ASSUME BrowseInv PROVE PointsReturned
    OBVIOUS
  <2>1. /\ left \subseteq Points
        /\ \A c \in Callers : call[c].point \in Points \cup {None}
    BY DEF BrowseInv, BrowseTypes, Calls
  <2>2. \A p \in Points : points[p] # Unused <=> p \in left \/ \E c \in Callers : call[c].point = p
    BY DEF BrowseInv, PlacesKnown
  <2> QED
    BY <2>1, <2>2, NoneAssumption DEF PointsReturned, PointsInUse
<1> QED
  BY <1>1, BrowseInvariant, PTL

=============================================================================
