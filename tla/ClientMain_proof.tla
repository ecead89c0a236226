-------------------------- MODULE ClientMain_proof ---------------------------
(***************************************************************************)
(* Proofs about the Client's loop, the reports of its connection state,    *)
(* and ClientMain, which composes them.                                    *)
(***************************************************************************)
EXTENDS ClientMain, TLAPS

(***************************************************************************)
(* ClientStates, for an application whose state callbacks make no calls    *)
(* during which the state changes (NestedReports = FALSE).  What the       *)
(* application has heard is right for the last states as long as a report  *)
(* has not been handled, and for the C client's states once it has:        *)
(* StateInv follows the report through stateCallback.                      *)
(***************************************************************************)
\* What the application should have heard of a channel, and of a session, in a state.
ChannelHeard(ch) ==
    /\ ch = "open" => heardChannel = "Connected"
    /\ ch = "closed" => heardChannel # "Connected"

SessionHeard(ss) ==
    /\ ss = "activated" => heardSession = "SessionActivated"
    /\ ss = "closed" => heardSession # "SessionActivated"

SessionHandled(f) == f.at \in {"in session callback", "channel", "in channel callback", "store"}
ChannelHandled(f) == f.at \in {"in channel callback", "store"}

Single == stack = <<>> \/ \E f \in Reports : stack = <<f>>

StateInv ==
    /\ stack = <<>> =>
        /\ lastChannel = channel /\ lastSession = session
        /\ ChannelHeard(channel) /\ SessionHeard(session)
    /\ \A f \in Reports : stack = <<f>> =>
        /\ f.channel = channel /\ f.session = session
        /\ ChannelHeard(IF ChannelHandled(f) THEN channel ELSE lastChannel)
        /\ SessionHeard(IF SessionHandled(f) THEN session ELSE lastSession)

Inv == StatesTypeOK /\ Single /\ StateInv

LEMMA OneReport ==
    ASSUME NEW f
    PROVE  /\ Head(<<f>>) = f /\ Tail(<<f>>) = <<>>
           /\ <<f>> \o <<>> = <<f>> /\ <<f>> # <<>>
  OBVIOUS

LEMMA SameReport == ASSUME NEW f, NEW g, <<f>> = <<g>> PROVE f = g
  OBVIOUS

\* `Single` and the type of the stack once it holds the report g.
LEMMA SingleStack ==
    ASSUME stack' = <<>> \/ \E g \in Reports : stack' = <<g>>
    PROVE  Single' /\ stack' \in Seq(Reports)
<1>1. ASSUME NEW g \in Reports, stack' = <<g>> PROVE Single' /\ stack' \in Seq(Reports)
  <2>1. <<g>> \in Seq(Reports)
    OBVIOUS
  <2> QED BY <1>1, <2>1 DEF Single
<1>2. CASE stack' = <<>>
  BY <1>2 DEF Single
<1> QED BY <1>1, <1>2

LEMMA InvInit == StatesInit => Inv
<1> SUFFICES ASSUME StatesInit PROVE Inv
  OBVIOUS
<1>1. StatesTypeOK
  BY DEF StatesInit, StatesTypeOK, ChannelStates, SessionStates
<1>2. Single
  BY DEF StatesInit, Single
<1>3. StateInv
  BY OneReport DEF StatesInit, StateInv, ChannelHeard, SessionHeard
<1> QED BY <1>1, <1>2, <1>3 DEF Inv

\* A step within the one report in progress, to the place `label`.
LEMMA GotoOne ==
    ASSUME NEW f \in Reports, stack = <<f>>, NEW label \in
             {"session", "in session callback", "channel", "in channel callback", "store"},
           Proceed(label)
    PROVE  /\ stack' = <<[f EXCEPT !.at = label]>>
           /\ [f EXCEPT !.at = label] \in Reports
<1>1. [f EXCEPT !.at = label] \in Reports
  BY DEF Reports
<1> QED BY <1>1, OneReport DEF Proceed

LEMMA InvNext == ASSUME NestedReports = FALSE, Inv, [StatesNext]_statesVars PROVE Inv'
<1> USE DEF Inv
<1>1. ASSUME NEW ch \in ChannelStates, NEW ss \in SessionStates, Report(ch, ss) PROVE Inv'
  <2> DEFINE f == [channel |-> ch, session |-> ss, at |-> "session"]
  <2>1. stack = <<>> /\ f \in Reports
    BY <1>1 DEF Report, Reports
  <2>2. stack' = <<f>>
    BY <1>1, <2>1, OneReport DEF Report
  <2>3. Single' /\ stack' \in Seq(Reports)
    BY <2>1, <2>2, SingleStack
  <2>4. StatesTypeOK'
    BY <1>1, <2>3 DEF Report, StatesTypeOK, last, heard
  <2>5. StateInv'
    <3>1. /\ lastChannel = channel /\ lastSession = session
          /\ ChannelHeard(channel) /\ SessionHeard(session)
      BY <2>1 DEF StateInv
    <3>2. channel' = ch /\ session' = ss /\ UNCHANGED <<last, heard>>
      BY <1>1 DEF Report
    <3>3. ChannelHeard(lastChannel)' /\ SessionHeard(lastSession)'
      BY <3>1, <3>2 DEF ChannelHeard, SessionHeard, last, heard
    <3>4. \A h \in Reports : stack' = <<h>> => h = f
      BY <2>2, SameReport
    <3>5. f.channel = ch /\ f.session = ss /\ f.at = "session"
      OBVIOUS
    <3>6. stack' # <<>>
      BY <2>2
    <3>7. ~ChannelHandled(f) /\ ~SessionHandled(f)
      BY <3>5 DEF ChannelHandled, SessionHandled
    <3> HIDE DEF f
    <3> QED BY <3>2, <3>3, <3>4, <3>5, <3>6, <3>7 DEF StateInv
  <2> QED BY <2>3, <2>4, <2>5
<1>2. ASSUME NEW f \in Reports, stack = <<f>>, HandleSession PROVE Inv'
  <2>1. f.at = "session"
    BY <1>2, OneReport DEF HandleSession, At
  <2>2. CASE SessionNews(f.session) = {}
    <3>1. Proceed("channel") /\ UNCHANGED <<native, last, heard>>
      BY <1>2, <2>2, OneReport DEF HandleSession
    <3> DEFINE g == [f EXCEPT !.at = "channel"]
    <3>2. stack' = <<g>> /\ g \in Reports
      BY <1>2, <3>1, GotoOne
    <3>3. f.session = lastSession \/ f.session \notin {"activated", "closed"}
      BY <2>2 DEF SessionNews
    <3>4. g.at = "channel" /\ g.channel = f.channel /\ g.session = f.session
      BY DEF Reports
    <3>5. Single' /\ stack' \in Seq(Reports)
      BY <3>2, SingleStack
    <3>6. StatesTypeOK'
      BY <3>1, <3>5 DEF StatesTypeOK, native, last, heard
    <3>7. StateInv'
      BY <1>2, <2>1, <3>1, <3>2, <3>3, <3>4, OneReport, SameReport
      DEF StateInv, ChannelHeard, SessionHeard, SessionHandled, ChannelHandled, native, last, heard
    <3> QED BY <3>5, <3>6, <3>7
  <2>3. CASE SessionNews(f.session) # {}
    <3>1. /\ Proceed("in session callback") /\ heardSession' \in SessionNews(f.session)
          /\ UNCHANGED <<native, last, heardChannel>>
      BY <1>2, <2>3, OneReport DEF HandleSession
    <3> DEFINE g == [f EXCEPT !.at = "in session callback"]
    <3>2. stack' = <<g>> /\ g \in Reports
      BY <1>2, <3>1, GotoOne
    <3>3. \/ f.session = "activated" /\ heardSession' = "SessionActivated"
          \/ f.session = "closed" /\ heardSession' = "SessionClosed"
      BY <3>1 DEF SessionNews
    <3>4. g.at = "in session callback" /\ g.channel = f.channel /\ g.session = f.session
      BY DEF Reports
    <3>5. Single' /\ stack' \in Seq(Reports)
      BY <3>2, SingleStack
    <3>6. StatesTypeOK'
      BY <3>1, <3>3, <3>5 DEF StatesTypeOK, native, last
    <3>7. StateInv'
      BY <1>2, <2>1, <3>1, <3>2, <3>3, <3>4, OneReport, SameReport
      DEF StateInv, ChannelHeard, SessionHeard, SessionHandled, ChannelHandled, native, last
    <3> QED BY <3>5, <3>6, <3>7
  <2> QED BY <2>2, <2>3
<1>3. ASSUME NEW f \in Reports, stack = <<f>>, HandleChannel PROVE Inv'
  <2>1. f.at = "channel"
    BY <1>3, OneReport DEF HandleChannel, At
  <2>2. CASE ChannelNews(f.channel) = {}
    <3>1. Proceed("store") /\ UNCHANGED <<native, last, heard>>
      BY <1>3, <2>2, OneReport DEF HandleChannel
    <3> DEFINE g == [f EXCEPT !.at = "store"]
    <3>2. stack' = <<g>> /\ g \in Reports
      BY <1>3, <3>1, GotoOne
    <3>3. f.channel = lastChannel \/ f.channel \notin {"open", "closed"}
      BY <2>2 DEF ChannelNews
    <3>4. g.at = "store" /\ g.channel = f.channel /\ g.session = f.session
      BY DEF Reports
    <3>5. Single' /\ stack' \in Seq(Reports)
      BY <3>2, SingleStack
    <3>6. StatesTypeOK'
      BY <3>1, <3>5 DEF StatesTypeOK, native, last, heard
    <3>7. StateInv'
      BY <1>3, <2>1, <3>1, <3>2, <3>3, <3>4, OneReport, SameReport
      DEF StateInv, ChannelHeard, SessionHeard, SessionHandled, ChannelHandled, native, last, heard
    <3> QED BY <3>5, <3>6, <3>7
  <2>3. CASE ChannelNews(f.channel) # {}
    <3>1. /\ Proceed("in channel callback") /\ heardChannel' \in ChannelNews(f.channel)
          /\ UNCHANGED <<native, last, heardSession>>
      BY <1>3, <2>3, OneReport DEF HandleChannel
    <3> DEFINE g == [f EXCEPT !.at = "in channel callback"]
    <3>2. stack' = <<g>> /\ g \in Reports
      BY <1>3, <3>1, GotoOne
    <3>3. \/ f.channel = "open" /\ heardChannel' = "Connected"
          \/ f.channel = "closed" /\ heardChannel' = "Disconnected"
      BY <3>1 DEF ChannelNews
    <3>4. g.at = "in channel callback" /\ g.channel = f.channel /\ g.session = f.session
      BY DEF Reports
    <3>5. Single' /\ stack' \in Seq(Reports)
      BY <3>2, SingleStack
    <3>6. StatesTypeOK'
      BY <3>1, <3>3, <3>5 DEF StatesTypeOK, native, last
    <3>7. StateInv'
      BY <1>3, <2>1, <3>1, <3>2, <3>3, <3>4, OneReport, SameReport
      DEF StateInv, ChannelHeard, SessionHeard, SessionHandled, ChannelHandled, native, last
    <3> QED BY <3>5, <3>6, <3>7
  <2> QED BY <2>2, <2>3
<1>4. ASSUME NEW f \in Reports, stack = <<f>>, SessionCallbackReturn PROVE Inv'
  <2> DEFINE g == [f EXCEPT !.at = "channel"]
  <2>1. /\ f.at = "in session callback" /\ Proceed("channel")
        /\ UNCHANGED <<native, last, heard>>
    BY <1>4, OneReport DEF SessionCallbackReturn, At
  <2>2. stack' = <<g>> /\ g \in Reports
    BY <1>4, <2>1, GotoOne
  <2>3. g.at = "channel" /\ g.channel = f.channel /\ g.session = f.session
    BY DEF Reports
  <2>4. Single' /\ stack' \in Seq(Reports)
    BY <2>2, SingleStack
  <2>5. StatesTypeOK'
    BY <2>1, <2>4 DEF StatesTypeOK, native, last, heard
  <2>6. StateInv'
    BY <1>4, <2>1, <2>2, <2>3, OneReport, SameReport
    DEF StateInv, ChannelHeard, SessionHeard, SessionHandled, ChannelHandled, native, last, heard
  <2> QED BY <2>4, <2>5, <2>6
<1>5. ASSUME NEW f \in Reports, stack = <<f>>, ChannelCallbackReturn PROVE Inv'
  <2> DEFINE g == [f EXCEPT !.at = "store"]
  <2>1. /\ f.at = "in channel callback" /\ Proceed("store")
        /\ UNCHANGED <<native, last, heard>>
    BY <1>5, OneReport DEF ChannelCallbackReturn, At
  <2>2. stack' = <<g>> /\ g \in Reports
    BY <1>5, <2>1, GotoOne
  <2>3. g.at = "store" /\ g.channel = f.channel /\ g.session = f.session
    BY DEF Reports
  <2>4. Single' /\ stack' \in Seq(Reports)
    BY <2>2, SingleStack
  <2>5. StatesTypeOK'
    BY <2>1, <2>4 DEF StatesTypeOK, native, last, heard
  <2>6. StateInv'
    BY <1>5, <2>1, <2>2, <2>3, OneReport, SameReport
    DEF StateInv, ChannelHeard, SessionHeard, SessionHandled, ChannelHandled, native, last, heard
  <2> QED BY <2>4, <2>5, <2>6
<1>6. ASSUME NEW f \in Reports, stack = <<f>>, Store PROVE Inv'
  <2>1. /\ f.at = "store" /\ stack' = <<>>
        /\ lastChannel' = f.channel /\ lastSession' = f.session
        /\ UNCHANGED <<native, heard>>
    BY <1>6, OneReport DEF Store, At
  <2>2. Single' /\ stack' \in Seq(Reports)
    BY <2>1, SingleStack
  <2>3. StatesTypeOK'
    BY <2>1, <2>2 DEF StatesTypeOK, Reports, native, heard
  <2>4. StateInv'
    BY <1>6, <2>1, OneReport
    DEF StateInv, ChannelHeard, SessionHeard, SessionHandled, ChannelHandled, native, heard
  <2> QED BY <2>2, <2>3, <2>4
<1>7. CASE UNCHANGED statesVars
  BY <1>7 DEF statesVars, native, last, heard, StatesTypeOK, Single, StateInv, ChannelHeard, SessionHeard
<1>8. stack = <<>> \/ \E f \in Reports : stack = <<f>>
  BY DEF Single
<1>9. CASE stack = <<>>
  BY <1>1, <1>7, <1>9
  DEF StatesNext, HandleSession, HandleChannel, SessionCallbackReturn, ChannelCallbackReturn, Store, At
<1>10. CASE \E f \in Reports : stack = <<f>>
  BY <1>1, <1>2, <1>3, <1>4, <1>5, <1>6, <1>7, <1>10 DEF StatesNext
<1> QED BY <1>8, <1>9, <1>10

\* The Client's last states are those of the C client between two reports, and an
\* application that follows the four callbacks knows about channel and session.
THEOREM ClientStatesCorrect ==
    ASSUME NestedReports = FALSE
    PROVE  StatesSpec => [](StatesTypeOK /\ RemembersNative /\ ConnectionIsKnown /\ SessionIsKnown)
<1>1. StatesInit => Inv
  BY InvInit
<1>2. Inv /\ [StatesNext]_statesVars => Inv'
  BY InvNext
<1>3. Inv => StatesTypeOK /\ RemembersNative /\ ConnectionIsKnown /\ SessionIsKnown
  BY DEF Inv, StateInv, ChannelHeard, SessionHeard, Settled, RemembersNative, ConnectionIsKnown, SessionIsKnown
<1> QED BY <1>1, <1>2, <1>3, PTL DEF StatesSpec

-----------------------------------------------------------------------------
(***************************************************************************)
(* The loop.  What is proved of it and of the state reports on their own   *)
(* holds of the Client that composes them: a step of ClientMain is a step  *)
(* or a stutter of each.                                                   *)
(***************************************************************************)
\* Only run() sets the flag and only run() handles exceptions.
PlaceOK ==
    \A t \in Threads :
        /\ pc[t] \in {"entered", "cond", "again", "unwind"} => op[t] = "run"
        /\ pc[t] = "serving" => op[t] = "service"
        /\ pc[t] = "idle" <=> op[t] = "none"

LoopInv == LoopTypeOK /\ PlaceOK /\ RunningMeansLoop

LEMMA LoopInvInit == LoopInit => LoopInv
<1> SUFFICES ASSUME LoopInit PROVE LoopInv
  OBVIOUS
<1> QED BY DEF LoopInit, LoopInv, LoopTypeOK, Labels, PlaceOK, RunningMeansLoop

\* A thread goes on within its call.
LEMMA WentOn ==
  ASSUME LoopInv, NEW t \in Threads, NEW label \in Labels \ {"idle", "serving"},
         Goto(t, label), UNCHANGED <<op, asked>>, pc[t] # "idle",
         label \in {"entered", "cond", "again", "unwind"} => op[t] = "run",
         running' \in BOOLEAN, pending' \in BOOLEAN, running' => running \/ op[t] = "run"
  PROVE  LoopInv'
<1>1. /\ pc \in [Threads -> Labels] /\ pc' = [pc EXCEPT ![t] = label]
      /\ op' = op /\ asked' = asked
  BY DEF LoopInv, LoopTypeOK, Goto
<1>2. LoopTypeOK'
  BY <1>1 DEF LoopInv, LoopTypeOK
<1>3. PlaceOK'
  BY <1>1 DEF LoopInv, PlaceOK
<1>4. RunningMeansLoop'
  BY <1>1 DEF LoopInv, RunningMeansLoop
<1> QED BY <1>2, <1>3, <1>4 DEF LoopInv

\* A thread's call begins when there is no other.
LEMMA CallBegan ==
  ASSUME LoopInv, NEW t \in Threads, MayDrive(t),
         NEW label \in Labels \ {"idle"}, NEW name \in {"run", "runIterate", "service"},
         Goto(t, label), op' = [op EXCEPT ![t] = name], UNCHANGED <<running, pending, asked>>,
         label \in {"entered", "cond", "again", "unwind"} => name = "run",
         label = "serving" => name = "service"
  PROVE  LoopInv'
<1>1. /\ pc \in [Threads -> Labels] /\ pc' = [pc EXCEPT ![t] = label]
      /\ op \in [Threads -> {"none", "run", "runIterate", "service"}]
  BY DEF LoopInv, LoopTypeOK, Goto
<1>2. LoopTypeOK'
  BY <1>1 DEF LoopInv, LoopTypeOK
<1>3. PlaceOK'
  BY <1>1 DEF LoopInv, PlaceOK
<1>4. ~running
  BY DEF LoopInv, RunningMeansLoop, MayDrive
<1>5. RunningMeansLoop'
  BY <1>4 DEF RunningMeansLoop
<1> QED BY <1>2, <1>3, <1>5 DEF LoopInv

\* A thread's call ends: that of run() only if the flag is off.
LEMMA CallEnded ==
  ASSUME LoopInv, NEW t \in Threads, Return(t),
         running' \in BOOLEAN, pending' \in BOOLEAN,
         running' => running /\ op[t] # "run"
  PROVE  LoopInv'
<1>1. /\ pc \in [Threads -> Labels] /\ pc' = [pc EXCEPT ![t] = "idle"]
      /\ op \in [Threads -> {"none", "run", "runIterate", "service"}]
      /\ op' = [op EXCEPT ![t] = "none"]
      /\ asked \in [Threads -> BOOLEAN] /\ asked' = [asked EXCEPT ![t] = FALSE]
  BY DEF LoopInv, LoopTypeOK, Return, Goto
<1>2. LoopTypeOK'
  BY <1>1 DEF LoopInv, LoopTypeOK, Labels
<1>3. PlaceOK'
  BY <1>1 DEF LoopInv, PlaceOK
<1>4. ASSUME running' PROVE \E u \in Threads : op'[u] = "run"
  <2>1. PICK u \in Threads : op[u] = "run"
    BY <1>4 DEF LoopInv, RunningMeansLoop
  <2>2. u # t
    BY <1>4, <2>1
  <2> QED BY <1>1, <2>1, <2>2
<1>5. RunningMeansLoop'
  BY <1>4 DEF RunningMeansLoop
<1> QED BY <1>2, <1>3, <1>5 DEF LoopInv

\* An exception leaves runIterate, or the rethrow of run.
LEMMA Thrown ==
  ASSUME LoopInv, NEW t \in Threads, Throw(t), pc[t] # "idle",
         UNCHANGED running, pending' \in BOOLEAN
  PROVE  LoopInv'
<1>1. running \in BOOLEAN
  BY DEF LoopInv, LoopTypeOK
<1>2. CASE op[t] = "run"
  <2>1. Goto(t, "unwind") /\ UNCHANGED <<op, asked>>
    BY <1>2 DEF Throw
  <2> QED BY <1>1, <1>2, <2>1, WentOn DEF Labels
<1>3. CASE op[t] # "run"
  <2>1. Return(t)
    BY <1>3 DEF Throw
  <2> QED BY <1>1, <1>3, <2>1, CallEnded
<1> QED BY <1>2, <1>3

LEMMA LoopInvNext == LoopInv /\ [LoopNext]_loopVars => LoopInv'
<1> SUFFICES ASSUME LoopInv, [LoopNext]_loopVars PROVE LoopInv'
  OBVIOUS
<1>a. running \in BOOLEAN /\ pending \in BOOLEAN
  BY DEF LoopInv, LoopTypeOK
<1>b. ASSUME NEW t \in Threads, pc[t] \in {"entered", "cond", "again", "unwind"}
      PROVE  pc[t] # "idle" /\ op[t] = "run"
  BY <1>b DEF LoopInv, PlaceOK
<1>1. ASSUME NEW t \in Threads, CallRun(t) PROVE LoopInv'
  BY <1>1, CallBegan DEF CallRun, Labels
<1>2. ASSUME NEW t \in Threads, CallRunIterate(t) PROVE LoopInv'
  BY <1>2, CallBegan DEF CallRunIterate, Labels
<1>3. ASSUME NEW t \in Threads, CallService(t) PROVE LoopInv'
  BY <1>3, CallBegan DEF CallService, Labels
<1>4. ASSUME NEW t \in Threads, CallbackThrows(t) PROVE LoopInv'
  BY <1>4 DEF CallbackThrows, LoopInv, LoopTypeOK, PlaceOK, RunningMeansLoop
<1>5. ASSUME NEW t \in Threads, Stop(t) PROVE LoopInv'
  <2>1. asked' \in [Threads -> BOOLEAN]
    BY <1>5 DEF Stop, LoopInv, LoopTypeOK
  <2> QED BY <1>5, <2>1 DEF Stop, LoopInv, LoopTypeOK, PlaceOK, RunningMeansLoop
<1>6. ASSUME NEW t \in Threads, SetRunning(t) PROVE LoopInv'
  BY <1>a, <1>b, <1>6, WentOn DEF SetRunning, Labels
<1>7. ASSUME NEW t \in Threads, CheckRunning(t) PROVE LoopInv'
  <2>1. CASE running
    <3>1. /\ Goto(t, "iterating") /\ UNCHANGED <<op, asked>>
          /\ pc[t] = "cond" /\ UNCHANGED <<running, pending>>
      BY <1>7, <2>1 DEF CheckRunning
    <3> QED BY <1>a, <3>1, WentOn DEF Labels
  <2>2. CASE ~running
    <3>1. Return(t) /\ UNCHANGED <<running, pending>>
      BY <1>7, <2>2 DEF CheckRunning
    <3> QED BY <1>a, <2>2, <3>1, CallEnded
  <2> QED BY <2>1, <2>2
<1>8. ASSUME NEW t \in Threads, IterateFails(t) PROVE LoopInv'
  BY <1>a, <1>8, Thrown DEF IterateFails
<1>9. ASSUME NEW t \in Threads, IterateReturns(t) PROVE LoopInv'
  BY <1>a, <1>9, WentOn DEF IterateReturns, Labels
<1>10. ASSUME NEW t \in Threads, Rethrow(t) PROVE LoopInv'
  <2>1. pc[t] \in {"rethrow", "again"} /\ UNCHANGED running
    BY <1>10 DEF Rethrow
  <2>2. CASE pending
    <3>1. Throw(t) /\ pending' = FALSE
      BY <1>10, <2>2 DEF Rethrow
    <3> QED BY <2>1, <3>1, Thrown
  <2>3. CASE ~pending /\ op[t] = "run"
    <3> DEFINE label == IF pc[t] = "rethrow" THEN "again" ELSE "cond"
    <3>1. Goto(t, label) /\ UNCHANGED <<op, asked, pending>>
      BY <1>10, <2>3 DEF Rethrow
    <3>2. label \in Labels \ {"idle", "serving"}
      BY DEF Labels
    <3> HIDE DEF label
    <3> QED BY <1>a, <2>1, <2>3, <3>1, <3>2, WentOn
  <2>4. CASE ~pending /\ op[t] # "run"
    <3>1. Return(t) /\ UNCHANGED pending
      BY <1>10, <2>4 DEF Rethrow
    <3> QED BY <1>a, <2>1, <2>4, <3>1, CallEnded
  <2> QED BY <2>2, <2>3, <2>4
<1>11. ASSUME NEW t \in Threads, Unwind(t) PROVE LoopInv'
  BY <1>a, <1>11, CallEnded DEF Unwind
<1>12. ASSUME NEW t \in Threads, ServiceReturns(t) PROVE LoopInv'
  <2>1. op[t] = "service"
    BY <1>12 DEF ServiceReturns, LoopInv, PlaceOK
  <2> QED BY <1>a, <1>12, <2>1, CallEnded DEF ServiceReturns
<1>13. CASE UNCHANGED loopVars
  BY <1>13 DEF loopVars, LoopInv, LoopTypeOK, PlaceOK, RunningMeansLoop
<1> QED BY <1>1, <1>2, <1>3, <1>4, <1>5, <1>6, <1>7, <1>8, <1>9, <1>10, <1>11, <1>12, <1>13 DEF LoopNext, Continue,
     LoopGoesOn, NativeReturns

\* isRunning() is true only while a run() is in progress, whatever way the last one
\* ended: by stop(), by a bad status or by the exception of a callback.
THEOREM RunningMeansLoopCorrect == LoopSpec => []RunningMeansLoop
<1>1. LoopInv => RunningMeansLoop
  BY DEF LoopInv
<1> QED BY <1>1, LoopInvInit, LoopInvNext, PTL DEF LoopSpec

LEMMA MainStepsLoop == [Next]_vars => [LoopNext]_loopVars
<1> SUFFICES ASSUME [Next]_vars PROVE [LoopNext]_loopVars
  OBVIOUS
<1>1. ASSUME NEW t \in Threads,
             CallRun(t) \/ CallRunIterate(t) \/ CallService(t) \/ Stop(t) \/ CallbackThrows(t)
             \/ LoopGoesOn(t) \/ NativeReturns(t)
      PROVE  LoopNext
  BY <1>1 DEF LoopNext, Continue
<1>2. ASSUME NEW t \in Threads, ApplicationCalls(t) \/ StopCalled(t) \/ GoesOn(t) \/ DriverReturns(t)
      PROVE  LoopNext
  BY <1>1, <1>2 DEF ApplicationCalls, StopCalled, GoesOn, DriverReturns
<1>3. ASSUME NEW t \in Threads, StateCallbackThrows(t) \/ OtherCallbackThrows(t) PROVE LoopNext
  BY <1>1, <1>3 DEF StateCallbackThrows, OtherCallbackThrows
<1>4. ASSUME NEW t \in Threads, StateReported(t) \/ ReportGoesOn(t) PROVE UNCHANGED loopVars
  BY <1>4 DEF StateReported, ReportGoesOn
<1>5. CASE UNCHANGED vars
  BY <1>5 DEF vars
<1> QED BY <1>2, <1>3, <1>4, <1>5 DEF Next

LEMMA MainStepsStates == [Next]_vars => [StatesNext]_statesVars
<1> SUFFICES ASSUME [Next]_vars PROVE [StatesNext]_statesVars
  OBVIOUS
<1>1. ASSUME NEW t \in Threads, StateReported(t) \/ ReportGoesOn(t) \/ StateCallbackThrows(t)
      PROVE  StatesNext
  BY <1>1 DEF StatesNext, StateReported, ReportGoesOn, HandleReport, StateCallbackThrows
<1>2. ASSUME NEW t \in Threads,
             ApplicationCalls(t) \/ StopCalled(t) \/ GoesOn(t) \/ DriverReturns(t)
             \/ OtherCallbackThrows(t)
      PROVE  UNCHANGED statesVars
  BY <1>2 DEF ApplicationCalls, StopCalled, GoesOn, DriverReturns, OtherCallbackThrows
<1>3. CASE UNCHANGED vars
  BY <1>3 DEF vars
<1> QED BY <1>1, <1>2, <1>3 DEF Next

\* Of the Client as a whole: isRunning() is true only while a run() is in progress.
THEOREM ClientRunningMeansLoop == Spec => []RunningMeansLoop
<1>1. LoopInv => RunningMeansLoop
  BY DEF LoopInv
<1>2. Init => LoopInv
  BY LoopInvInit DEF Init
<1>3. LoopInv /\ [Next]_vars => LoopInv'
  BY LoopInvNext, MainStepsLoop
<1> QED BY <1>1, <1>2, <1>3, PTL DEF Spec

\* Whatever threads call, and whichever callbacks throw, the application knows the state
\* of channel and session between two reports, if its callbacks wait for no service.
THEOREM ClientKnowsItsState ==
    ASSUME NestedReports = FALSE
    PROVE  Spec => [](RemembersNative /\ ConnectionIsKnown /\ SessionIsKnown)
<1>1. Init => Inv
  BY InvInit DEF Init
<1>2. Inv /\ [Next]_vars => Inv'
  BY InvNext, MainStepsStates
<1>3. Inv => RemembersNative /\ ConnectionIsKnown /\ SessionIsKnown
  BY DEF Inv, StateInv, ChannelHeard, SessionHeard, Settled, RemembersNative, ConnectionIsKnown, SessionIsKnown
<1> QED BY <1>1, <1>2, <1>3, PTL DEF Spec

\* onSessionClosed comes before onDisconnected: when Disconnected is called for a report
\* that also closes the session, the application no longer thinks that it has one.
THEOREM SessionClosedFirstCorrect ==
    ASSUME NestedReports = FALSE
    PROVE  Spec => SessionClosedFirst
<1> DEFINE Told == ChannelCall("Disconnected") /\ Head(stack).session = "closed"
                       => heardSession # "SessionActivated"
<1>1. Init => Inv
  BY InvInit DEF Init
<1>2. Inv /\ [Next]_vars => Inv'
  BY InvNext, MainStepsStates
<1>3. Inv => Told
  <2> SUFFICES ASSUME Inv, At("channel"), Head(stack).session = "closed"
               PROVE  heardSession # "SessionActivated"
    BY DEF ChannelCall
  <2>1. PICK f \in Reports : stack = <<f>>
    BY DEF Inv, Single, At
  <2>2. f.at = "channel" /\ f.session = "closed"
    BY <2>1, OneReport DEF At
  <2>3. f.session = session /\ SessionHeard(session)
    BY <2>1, <2>2 DEF Inv, StateInv, SessionHandled
  <2> QED BY <2>2, <2>3 DEF SessionHeard
<1>4. Inv /\ [Next]_vars => [Told]_statesVars
  BY <1>3
<1> HIDE DEF Told
<1>5. Spec => [][Told]_statesVars
  BY <1>1, <1>2, <1>4, PTL DEF Spec
<1> QED BY <1>5 DEF SessionClosedFirst, Told
=============================================================================
