------------------------ MODULE ServerLifecycle_proof ------------------------
(***************************************************************************)
(* Proofs about ServerLifecycle, for any set of threads, any set of rules  *)
(* and with or without failures.                                           *)
(***************************************************************************)
EXTENDS ServerLifecycle, TLAPS

LEMMA TypeStep == TypeOK /\ [Next]_vars => TypeOK'
<1> SUFFICES ASSUME TypeOK, [Next]_vars PROVE TypeOK'
  OBVIOUS
<1> USE DEF TypeOK, Labels, Goto, Return, StopReturn, Store,
            locks, flags
<1>1. CASE UNCHANGED vars
  BY <1>1 DEF vars
<1>2. CASE Gone
  BY <1>2 DEF Gone, vars
<1>3. ASSUME NEW t \in Threads, Call(t) PROVE TypeOK'
  BY <1>3 DEF Call, CallRun, CallRunIterate, CallStop, Destroy
<1>4. ASSUME NEW t \in Threads, Callback(t) PROVE TypeOK'
  BY <1>4 DEF Callback, CallbackThrows, CallbackStops
<1>5. ASSUME NEW t \in Threads, Step(t) PROVE TypeOK'
  <2>1. CASE StartupSkip(t) \/ StartupBegin(t) \/ StartupEnd(t) \/ StartupFail(t)
    BY <2>1 DEF StartupSkip, StartupBegin, StartupEnd, StartupFail
  <2>2. CASE NotStarted(t) \/ Started(t) \/ Enter(t) \/ Iterate(t) \/ Leave(t)
    BY <2>2 DEF NotStarted, Started, Enter, Iterate, Leave
  <2>3. CASE IterateEnd(t) \/ NothingToRethrow(t) \/ Rethrow(t) \/ Unwind(t)
    BY <2>3 DEF IterateEnd, NothingToRethrow, Rethrow, Unwind
  <2>4. CASE StopNotRunning(t) \/ StopRunning(t)
    BY <2>4 DEF StopNotRunning, StopRunning
  <2>5. CASE ShutdownBegin(t) \/ ShutdownEnd(t) \/ ShutdownFail(t)
    BY <2>5 DEF ShutdownBegin, ShutdownEnd, ShutdownFail
  <2>6. CASE CloseEnd(t) \/ Delete(t)
    BY <2>6 DEF CloseEnd, Delete
  <2> QED
    BY <1>5, <2>1, <2>2, <2>3, <2>4, <2>5, <2>6 DEF Step
<1> QED
  BY <1>1, <1>2, <1>3, <1>4, <1>5 DEF Next

\* Every variable keeps its type.
THEOREM TypeCorrect == Spec => []TypeOK
<1>1. Init => TypeOK
  BY DEF Init, TypeOK, Labels
<1> QED
  BY <1>1, TypeStep, PTL DEF Spec

-----------------------------------------------------------------------------
(***************************************************************************)
(* What holds whatever the application does, because of the two mutexes.   *)
(***************************************************************************)

\* Which driving call a thread can be in at each point.
CallsMatch ==
    \A t \in Threads :
        /\ pc[t] \in {"idle", "closing", "closed"} => op[t] = "none"
        /\ pc[t] \in {"startup", "starting", "started", "iterating", "iterated"} => op[t] # "none"
        /\ pc[t] \in {"enter", "loop", "unwind"} => op[t] = "run"
        /\ pc[t] = "shutdown" => op[t] # "run"

\* A mutex has the owner that the program counters tell.
Locks ==
    \A t \in Threads :
        /\ pc[t] = "starting" <=> mutexStartup = t
        /\ InLoop(t) <=> mutexRun = t

\* While the C server is started nobody else changes the two flags.
StartingOff == mutexStartup # NoThread => ~running /\ ~stopRequested

LockInv == TypeOK /\ CallsMatch /\ Locks /\ StartingOff /\ NoOverlookedStop

LEMMA LockInvInductive == LockInv /\ [Next]_vars => LockInv'
<1> SUFFICES ASSUME LockInv, [Next]_vars PROVE LockInv'
  OBVIOUS
<1> TypeOK'
  BY TypeStep DEF LockInv
<1> USE NoThreadAssumption DEF LockInv, TypeOK, Labels, CallsMatch, Locks, StartingOff,
        NoOverlookedStop, InLoop, Goto, Return, StopReturn, Store, MustNotStart,
        locks, flags
<1>1. CASE UNCHANGED vars
  BY <1>1 DEF vars
<1>2. CASE Gone
  BY <1>2 DEF Gone, vars
<1>3. ASSUME NEW t \in Threads, Call(t) PROVE LockInv'
  <2>1. CASE CallRun(t)
    BY <2>1 DEF CallRun
  <2>2. CASE CallRunIterate(t)
    BY <2>2 DEF CallRunIterate
  <2>3. CASE CallStop(t)
    BY <2>3 DEF CallStop
  <2>4. CASE Destroy(t)
    BY <2>4 DEF Destroy, Quiet
  <2> QED
    BY <1>3, <2>1, <2>2, <2>3, <2>4 DEF Call
<1>4. ASSUME NEW t \in Threads, Callback(t) PROVE LockInv'
  <2>1. CASE CallbackThrows(t)
    BY <2>1 DEF CallbackThrows
  <2>2. CASE CallbackStops(t)
    BY <2>2 DEF CallbackStops
  <2> QED
    BY <1>4, <2>1, <2>2 DEF Callback
<1>5. ASSUME NEW t \in Threads, Step(t) PROVE LockInv'
  <2>1. CASE StartupSkip(t)
    BY <2>1 DEF StartupSkip
  <2>2. CASE StartupBegin(t)
    BY <2>2 DEF StartupBegin
  <2>3. CASE StartupEnd(t)
    BY <2>3 DEF StartupEnd
  <2>4. CASE StartupFail(t)
    BY <2>4 DEF StartupFail
  <2>5. CASE NotStarted(t)
    BY <2>5 DEF NotStarted
  <2>6. CASE Started(t)
    BY <2>6 DEF Started
  <2>7. CASE Enter(t)
    BY <2>7 DEF Enter
  <2>8. CASE Iterate(t)
    BY <2>8 DEF Iterate
  <2>9. CASE Leave(t)
    BY <2>9 DEF Leave
  <2>10. CASE IterateEnd(t)
    BY <2>10 DEF IterateEnd
  <2>11. CASE NothingToRethrow(t)
    BY <2>11 DEF NothingToRethrow
  <2>12. CASE Rethrow(t)
    BY <2>12 DEF Rethrow
  <2>13. CASE Unwind(t)
    BY <2>13 DEF Unwind
  <2>14. CASE StopNotRunning(t)
    BY <2>14 DEF StopNotRunning
  <2>15. CASE StopRunning(t)
    BY <2>15 DEF StopRunning
  <2>16. CASE ShutdownBegin(t)
    BY <2>16 DEF ShutdownBegin
  <2>17. CASE ShutdownEnd(t)
    BY <2>17 DEF ShutdownEnd
  <2>18. CASE ShutdownFail(t)
    BY <2>18 DEF ShutdownFail
  <2>19. CASE CloseEnd(t)
    BY <2>19 DEF CloseEnd
  <2>20. CASE Delete(t)
    BY <2>20 DEF Delete
  <2> QED
    BY <1>5, <2>1, <2>2, <2>3, <2>4, <2>5, <2>6, <2>7, <2>8, <2>9, <2>10, <2>11, <2>12,
       <2>13, <2>14, <2>15, <2>16, <2>17, <2>18, <2>19, <2>20 DEF Step
<1> QED
  BY <1>1, <1>2, <1>3, <1>4, <1>5 DEF Next

LEMMA LockInvCorrect == Spec => []LockInv
<1>1. Init => LockInv
  BY NoThreadAssumption DEF Init, LockInv, TypeOK, Labels, CallsMatch, Locks, StartingOff,
     NoOverlookedStop, InLoop
<1> QED
  BY <1>1, LockInvInductive, PTL DEF Spec

\* The server never runs while a stop request is pending, whatever the threads
\* do: runStartup and stop decide under the same mutex.
THEOREM NoOverlookedStopCorrect == Spec => []NoOverlookedStop
<1>1. LockInv => NoOverlookedStop
  BY DEF LockInv
<1> QED
  BY <1>1, LockInvCorrect, PTL

\* run's loop excludes other loops and stop's shutdown, whatever the threads do.
THEOREM LoopExclusiveCorrect == Spec => []LoopExclusive
<1>1. LockInv => LoopExclusive
  BY DEF LockInv, Locks, LoopExclusive
<1> QED
  BY <1>1, LockInvCorrect, PTL

-----------------------------------------------------------------------------
(***************************************************************************)
(* What holds in an application that keeps to all the rules.               *)
(***************************************************************************)
ShuttingDown(t) == pc[t] \in {"stopping", "shutdown"}

\* The threads of a disciplined application keep out of each other's way.
Order ==
    /\ \A t, u \in Threads : op[t] # "none" /\ op[u] # "none" => t = u
    /\ \A t \in Threads : Stopping(t) => op[t] = "none" \/ (op[t] = "run" /\ pc[t] = "stop" /\ ~running)
    /\ \A t, u \in Threads : op[t] = "runIterate" => ~Stopping(u)
    /\ \A t, u \in Threads : ShuttingDown(t) /\ ShuttingDown(u) => t = u
    /\ \A t, u \in Threads : pc[t] \in {"closing", "closed"} => t = u \/ pc[u] = "idle"
    /\ native = "deleted" => Quiet

\* A thread that starts the server, or shuts it down, finds `running` off, and
\* the two do not meet.
Off ==
    /\ \A t \in Threads : pc[t] \in {"startup", "starting"} => ~running
    /\ \A t \in Threads : ShuttingDown(t) => ~running
    /\ \A t, u \in Threads : ShuttingDown(t) => pc[u] \notin {"startup", "starting"}

\* How `running` and the C server's state go together.
Agree ==
    /\ running => native = "started" \/ native = "deleted" \/ \E t \in Threads : pc[t] = "closed"
    /\ native = "started" /\ ~running /\ ~faulted => \E t \in Threads : ShuttingDown(t)
    /\ \A t \in Threads : ShuttingDown(t) \/ pc[t] \in {"iterating", "iterated", "closing"} => native = "started"
    /\ \A t \in Threads : pc[t] = "stop" /\ op[t] = "run" => native = "started"
    /\ \A t \in Threads : pc[t] = "closing" => running
    /\ \A t \in Threads : pc[t] = "closed" /\ native = "started" => ~running

RuleInv == LockInv /\ Order /\ Off /\ Agree

LEMMA RuleInvInductive ==
    ASSUME Rules = AllRules
    PROVE  RuleInv /\ [Next]_vars => RuleInv'
<1> SUFFICES ASSUME RuleInv, [Next]_vars PROVE RuleInv'
  OBVIOUS
<1> LockInv'
  BY LockInvInductive DEF RuleInv
<1> LockInv
  BY DEF RuleInv
<1>r. /\ "one driver" \in Rules /\ "await stop" \in Rules /\ "run stopped" \in Rules
      /\ "await iterate" \in Rules /\ "inner stop late" \in Rules
  BY DEF AllRules
<1> USE NoThreadAssumption DEF RuleInv, Order, Off, Agree, ShuttingDown, Stopping, Quiet,
        Goto, Return, StopReturn, Store, MustNotStart, locks, flags
<1>1. CASE UNCHANGED vars
  BY <1>1 DEF vars
<1>2. CASE Gone
  BY <1>2 DEF Gone, vars
<1>3. ASSUME NEW t \in Threads, Call(t) PROVE RuleInv'
  <2>1. CASE CallRun(t)
    <3>1. /\ pc[t] = "idle" /\ op[t] = "none" /\ native # "deleted"
          /\ \A u \in Threads : pc[u] \notin {"closing", "closed"}
          /\ ~running /\ \A u \in Threads : op[u] = "none" /\ ~Stopping(u)
      BY <2>1, <1>r DEF CallRun, MayDrive, Alive, LockInv, CallsMatch
    <3>e. /\ pc'[t] = "startup" /\ op'[t] = "run" /\ UNCHANGED <<running, native>>
          /\ \A u \in Threads : u # t => pc'[u] = pc[u] /\ op'[u] = op[u]
      BY <2>1 DEF CallRun, LockInv, TypeOK
    <3>a. \A u \in Threads : ~Stopping(u)'
      BY <3>1, <3>e
    <3>2. Order'
      <4>1. ASSUME NEW u \in Threads, NEW v \in Threads, op'[u] # "none", op'[v] # "none"
            PROVE  u = v
        BY <4>1, <3>1, <3>e
      <4>2. ASSUME NEW u \in Threads PROVE pc'[u] \notin {"closing", "closed"} /\ ~ShuttingDown(u)'
        BY <3>1, <3>e
      <4> QED
        BY <4>1, <4>2, <3>1, <3>e, <3>a
    <3>3. Off'
      <4>1. ASSUME NEW u \in Threads PROVE ~ShuttingDown(u)'
        BY <3>a
      <4> QED
        BY <4>1, <3>1, <3>e
    <3>4. Agree'
      BY <2>1, <3>1 DEF CallRun, LockInv, TypeOK
    <3> QED
      BY <3>2, <3>3, <3>4
  <2>2. CASE CallRunIterate(t)
    <3>1. /\ pc[t] = "idle" /\ op[t] = "none" /\ native # "deleted"
          /\ \A u \in Threads : pc[u] \notin {"closing", "closed"}
          /\ \A u \in Threads : op[u] = "none" /\ ~Stopping(u)
      BY <2>2, <1>r DEF CallRunIterate, MayDrive, Alive, LockInv, CallsMatch
    <3>2. Order'
      BY <2>2, <3>1 DEF CallRunIterate, LockInv, TypeOK, CallsMatch
    <3>3. Off'
      BY <2>2, <3>1 DEF CallRunIterate, LockInv, TypeOK, CallsMatch
    <3>4. Agree'
      BY <2>2, <3>1 DEF CallRunIterate, LockInv, TypeOK
    <3> QED
      BY <3>2, <3>3, <3>4
  <2>3. CASE CallStop(t)
    <3>1. /\ pc[t] = "idle" /\ op[t] = "none" /\ native # "deleted"
          /\ \A u \in Threads : pc[u] \notin {"closing", "closed"}
          /\ \A u \in Threads : op[u] # "runIterate"
      BY <2>3, <1>r DEF CallStop, MayStop, Alive, LockInv, CallsMatch
    <3>2. Order'
      BY <2>3, <3>1 DEF CallStop, LockInv, TypeOK, CallsMatch
    <3>3. Off'
      BY <2>3, <3>1 DEF CallStop, LockInv, TypeOK, CallsMatch
    <3>4. Agree'
      BY <2>3, <3>1 DEF CallStop, LockInv, TypeOK
    <3> QED
      BY <3>2, <3>3, <3>4
  <2>4. CASE Destroy(t)
    BY <2>4 DEF Destroy, Alive, LockInv, TypeOK, Labels, CallsMatch, Locks, StartingOff, InLoop
  <2> QED
    BY <1>3, <2>1, <2>2, <2>3, <2>4 DEF Call
<1>4. ASSUME NEW t \in Threads, Callback(t) PROVE RuleInv'
  <2>1. CASE CallbackThrows(t)
    BY <2>1 DEF CallbackThrows, LockInv, TypeOK, Labels, CallsMatch, Locks, StartingOff, InLoop
  <2>2. CASE CallbackStops(t)
    <3>1. pc[t] = "iterating" /\ op[t] = "run" /\ ~running /\ native = "started"
      BY <2>2, <1>r DEF CallbackStops
    <3>a. /\ UNCHANGED <<op, running, native>> /\ pc'[t] = "stop"
          /\ \A u \in Threads \ {t} : pc'[u] = pc[u]
      BY <2>2 DEF CallbackStops, LockInv, TypeOK
    <3>b. \A u \in Threads : Stopping(u)' => op[u] = "none" \/ (op[u] = "run" /\ pc'[u] = "stop" /\ ~running)
      BY <3>1, <3>a
    <3>c. \A u \in Threads : op[u] # "runIterate"
      BY <3>1
    <3>2. Order'
      BY <3>1, <3>a, <3>b, <3>c
    <3>3. Off'
      BY <2>2, <3>1 DEF CallbackStops, LockInv, TypeOK
    <3>4. Agree'
      BY <2>2, <3>1 DEF CallbackStops, LockInv, TypeOK
    <3> QED
      BY <3>2, <3>3, <3>4
  <2> QED
    BY <1>4, <2>1, <2>2 DEF Callback
<1>5. ASSUME NEW t \in Threads, Step(t) PROVE RuleInv'
  <2>1. CASE StartupSkip(t)
    BY <2>1 DEF StartupSkip, LockInv, TypeOK, Labels, CallsMatch, Locks, StartingOff, InLoop
  <2>2. CASE StartupBegin(t)
    BY <2>2 DEF StartupBegin, LockInv, TypeOK, Labels, CallsMatch, Locks, StartingOff, InLoop
  <2>3. CASE StartupEnd(t)
    BY <2>3 DEF StartupEnd, LockInv, TypeOK, Labels, CallsMatch, Locks, StartingOff, InLoop
  <2>4. CASE StartupFail(t)
    BY <2>4 DEF StartupFail, LockInv, TypeOK, Labels, CallsMatch, Locks, StartingOff, InLoop
  <2>5. CASE NotStarted(t)
    BY <2>5 DEF NotStarted, LockInv, TypeOK, Labels, CallsMatch, Locks, StartingOff, InLoop
  <2>6. CASE Started(t)
    BY <2>6 DEF Started, LockInv, TypeOK, Labels, CallsMatch, Locks, StartingOff, InLoop
  <2>7. CASE Enter(t)
    BY <2>7 DEF Enter, LockInv, TypeOK, Labels, CallsMatch, Locks, StartingOff, InLoop
  <2>8. CASE Iterate(t)
    BY <2>8 DEF Iterate, LockInv, TypeOK, Labels, CallsMatch, Locks, StartingOff, InLoop
  <2>9. CASE Leave(t)
    BY <2>9 DEF Leave, LockInv, TypeOK, Labels, CallsMatch, Locks, StartingOff, InLoop
  <2>10. CASE IterateEnd(t)
    BY <2>10 DEF IterateEnd, LockInv, TypeOK, Labels, CallsMatch, Locks, StartingOff, InLoop
  <2>11. CASE NothingToRethrow(t)
    BY <2>11 DEF NothingToRethrow, LockInv, TypeOK, Labels, CallsMatch, Locks, StartingOff, InLoop
  <2>12. CASE Rethrow(t)
    BY <2>12 DEF Rethrow, LockInv, TypeOK, Labels, CallsMatch, Locks, StartingOff, InLoop
  <2>13. CASE Unwind(t)
    BY <2>13 DEF Unwind, LockInv, TypeOK, Labels, CallsMatch, Locks, StartingOff, InLoop
  <2>14. CASE StopNotRunning(t)
    BY <2>14 DEF StopNotRunning, LockInv, TypeOK, Labels, CallsMatch, Locks, StartingOff, InLoop
  <2>15. CASE StopRunning(t)
    BY <2>15 DEF StopRunning, LockInv, TypeOK, Labels, CallsMatch, Locks, StartingOff, InLoop
  <2>16. CASE ShutdownBegin(t)
    BY <2>16 DEF ShutdownBegin, LockInv, TypeOK, Labels, CallsMatch, Locks, StartingOff, InLoop
  <2>17. CASE ShutdownEnd(t)
    BY <2>17 DEF ShutdownEnd, LockInv, TypeOK, Labels, CallsMatch, Locks, StartingOff, InLoop
  <2>18. CASE ShutdownFail(t)
    BY <2>18 DEF ShutdownFail, LockInv, TypeOK, Labels, CallsMatch, Locks, StartingOff, InLoop
  <2>19. CASE CloseEnd(t)
    BY <2>19 DEF CloseEnd, LockInv, TypeOK, Labels, CallsMatch, Locks, StartingOff, InLoop
  <2>20. CASE Delete(t)
    BY <2>20 DEF Delete, LockInv, TypeOK, Labels, CallsMatch, Locks, StartingOff, InLoop
  <2> QED
    BY <1>5, <2>1, <2>2, <2>3, <2>4, <2>5, <2>6, <2>7, <2>8, <2>9, <2>10, <2>11, <2>12, <2>13, <2>14, <2>15, <2>16, <2>17, <2>18, <2>19, <2>20 DEF Step
<1> QED
  BY <1>1, <1>2, <1>3, <1>4, <1>5 DEF Next

LEMMA RuleInvCorrect ==
    ASSUME Rules = AllRules
    PROVE  Spec => []RuleInv
<1>1. Init => LockInv
  BY NoThreadAssumption DEF Init, LockInv, TypeOK, Labels, CallsMatch, Locks, StartingOff,
     NoOverlookedStop, InLoop
<1>2. Init => RuleInv
  BY <1>1 DEF Init, RuleInv, Order, Off, Agree, ShuttingDown, Stopping, Quiet
<1>3. RuleInv /\ [Next]_vars => RuleInv'
  BY RuleInvInductive
<1> QED
  BY <1>2, <1>3, PTL DEF Spec

LEMMA RuleInvExcludes == RuleInv => NativeExclusive
<1> SUFFICES ASSUME RuleInv, NEW t \in Threads, NEW u \in Threads,
                    InNative(t), InNative(u), t # u
             PROVE  FALSE
  BY DEF NativeExclusive
<1> USE DEF RuleInv, Order, Off, ShuttingDown, Stopping, InNative
<1>1. \A v \in Threads : InNative(v) =>
        \/ pc[v] \in {"starting", "iterating", "shutdown", "closing"}
        \/ pc[v] = "stop" /\ op[v] = "run"
  OBVIOUS
<1>2. CASE pc[t] = "closing" \/ pc[u] = "closing"
  BY <1>1, <1>2
<1>3. CASE pc[t] = "shutdown" /\ pc[u] \in {"iterating", "stop"}
  BY <1>3 DEF LockInv, Locks, CallsMatch, InLoop, TypeOK
<1>4. CASE pc[u] = "shutdown" /\ pc[t] \in {"iterating", "stop"}
  BY <1>4 DEF LockInv, Locks, CallsMatch, InLoop, TypeOK
<1> QED
  BY <1>1, <1>2, <1>3, <1>4 DEF LockInv, CallsMatch

\* The C server never sees two lifecycle calls at a time when the application
\* keeps to the rules.
THEOREM NativeExclusiveCorrect ==
    ASSUME Rules = AllRules
    PROVE  Spec => []NativeExclusive
<1> QED
  BY RuleInvExcludes, RuleInvCorrect, PTL

\* `running` is off for as long as stop shuts the server down.
THEOREM ShutdownIsFinalCorrect ==
    ASSUME Rules = AllRules
    PROVE  Spec => []ShutdownIsFinal
<1>1. RuleInv => ShutdownIsFinal
  BY DEF RuleInv, Off, ShuttingDown, ShutdownIsFinal
<1> QED
  BY <1>1, RuleInvCorrect, PTL

\* Between calls `running` tells the C server's state, so ~Server shuts a started
\* server down before it deletes it.
THEOREM FlagTellsStateCorrect ==
    ASSUME Rules = AllRules
    PROVE  Spec => []FlagTellsState
<1>1. RuleInv => FlagTellsState
  BY DEF RuleInv, Agree, ShuttingDown, Quiet, FlagTellsState
<1> QED
  BY <1>1, RuleInvCorrect, PTL

-----------------------------------------------------------------------------
(***************************************************************************)
(* A disciplined application drives the C server as NativeServer expects.  *)
(***************************************************************************)

\* No other thread moves.
Alone(t) == \A u \in Threads \ {t} : pc'[u] = pc[u] /\ op'[u] = op[u]

\* A thread that enters the C server finds nobody else in it.
LEMMA CallBegins ==
    ASSUME NEW t \in Threads, NEW call, NativeExclusive', Alone(t),
           NativeCall(t) = "none", NativeCall(t)' = call, call # "none",
           UNCHANGED <<native, faulted>>
    PROVE  Native!Begin(t, call)
<1>1. \A u \in Threads : NativeCall(u) = "none" <=> ~InNative(u)
  BY DEF NativeCall, InNative
<1>2. InNative(t)'
  BY DEF NativeCall, InNative
<1>3. ASSUME NEW u \in Threads \ {t} PROVE NativeCall(u)' = NativeCall(u) /\ InNative(u)' = InNative(u)
  BY DEF Alone, NativeCall, InNative
<1>4. \A u \in Threads : NativeCall(u) = "none"
  BY <1>1, <1>2, <1>3 DEF NativeExclusive
<1> QED
  BY <1>3, <1>4 DEF Native!Begin, Native!Free

LEMMA CallEnds ==
    ASSUME NEW t \in Threads, NEW call, Alone(t), NativeCall(t) = call, NativeCall(t)' = "none"
    PROVE  Native!End(t, call)
<1>1. ASSUME NEW u \in Threads \ {t} PROVE NativeCall(u)' = NativeCall(u)
  BY DEF Alone, NativeCall, InNative
<1> QED
  BY <1>1 DEF Native!End

LEMMA CallGoesOn ==
    ASSUME NEW t \in Threads, Alone(t), NativeCall(t)' = NativeCall(t),
           UNCHANGED <<native, faulted>>
    PROVE  UNCHANGED Native!vars
<1>1. ASSUME NEW u \in Threads PROVE NativeCall(u)' = NativeCall(u)
  BY DEF Alone, NativeCall, InNative
<1> QED
  BY <1>1 DEF Native!vars

LEMMA StepRefines ==
    ASSUME Rules = AllRules, RuleInv, NativeExclusive', [Next]_vars
    PROVE  [Native!Next]_(Native!vars)
<1>r. "inner stop late" \in Rules
  BY DEF AllRules
<1> USE DEF RuleInv, LockInv, TypeOK, CallsMatch, Alone, NativeCall, InNative, Goto, Return,
        StopReturn, Store, locks, flags
<1>1. CASE UNCHANGED vars
  BY <1>1 DEF vars, Native!vars
<1>2. CASE Gone
  BY <1>2 DEF Gone, vars, Native!vars
<1>3. ASSUME NEW t \in Threads, Call(t) PROVE [Native!Next]_(Native!vars)
  <2>1. CASE CallRun(t) \/ CallRunIterate(t) \/ CallStop(t)
    BY <2>1, CallGoesOn DEF CallRun, CallRunIterate, CallStop
  <2>2. CASE Destroy(t) /\ ~running
    BY <2>2, CallGoesOn DEF Destroy, Quiet
  <2>3. CASE Destroy(t) /\ running
    <3>1. native = "started"
      BY <2>3 DEF Destroy, Quiet, Alive, Agree
    <3>2. Native!Begin(t, "shutdown")
      BY <2>3, CallBegins DEF Destroy, Quiet
    <3> QED
      BY <3>1, <3>2 DEF Native!ShutdownBegin, Native!Next
  <2> QED
    BY <1>3, <2>1, <2>2, <2>3 DEF Call
<1>4. ASSUME NEW t \in Threads, Callback(t) PROVE [Native!Next]_(Native!vars)
  BY <1>4, <1>r, CallGoesOn DEF Callback, CallbackThrows, CallbackStops
<1>5. ASSUME NEW t \in Threads, Step(t) PROVE [Native!Next]_(Native!vars)
  <2>1. CASE StartupBegin(t)
    <3>1. native \in {"fresh", "stopped"} \/ (faulted /\ native # "deleted")
      BY <2>1 DEF StartupBegin, Order, Off, Agree, Quiet
    <3>2. Native!Begin(t, "startup")
      BY <2>1, CallBegins DEF StartupBegin
    <3> QED
      BY <3>1, <3>2 DEF Native!StartupBegin, Native!Next
  <2>2. CASE StartupEnd(t) \/ StartupFail(t)
    <3>1. Native!End(t, "startup")
      BY <2>2, CallEnds DEF StartupEnd, StartupFail
    <3> QED
      BY <2>2, <3>1 DEF StartupEnd, StartupFail, Native!StartupEnd, Native!Next
  <2>3. CASE (Started(t) /\ op[t] # "run") \/ Iterate(t)
    <3>1. native = "started"
      BY <2>3 DEF Started, Iterate, Order, Agree, Quiet
    <3>2. Native!Begin(t, "iterate")
      BY <2>3, CallBegins DEF Started, Iterate
    <3> QED
      BY <3>1, <3>2 DEF Native!IterateBegin, Native!Next
  <2>4. CASE IterateEnd(t)
    <3>1. Native!End(t, "iterate")
      BY <2>4, CallEnds DEF IterateEnd
    <3> QED
      BY <2>4, <3>1 DEF IterateEnd, Native!IterateEnd, Native!Next
  <2>5. CASE Rethrow(t) /\ op[t] = "run"
    <3>1. native = "started"
      BY <2>5 DEF Rethrow, Agree
    <3>2. \A u \in Threads : NativeCall(u) = "none"
      BY <2>5 DEF Rethrow, Order, Stopping, Locks, InLoop
    <3>3. \A u \in Threads : NativeCall(u)' = "none"
      BY <2>5, <3>2 DEF Rethrow
    <3> QED
      BY <2>5, <3>1, <3>2, <3>3 DEF Rethrow, Native!Free, Native!Abandon, Native!Next
  <2>6. CASE ShutdownBegin(t)
    <3>1. native = "started" /\ op[t] = "none"
      BY <2>6 DEF ShutdownBegin, Order, Agree, ShuttingDown, Stopping
    <3>2. Native!Begin(t, "shutdown")
      BY <2>6, <3>1, CallBegins DEF ShutdownBegin
    <3> QED
      BY <3>1, <3>2 DEF Native!ShutdownBegin, Native!Next
  <2>7. CASE ShutdownEnd(t) \/ ShutdownFail(t) \/ CloseEnd(t)
    <3>1. op[t] = "none"
      BY <2>7 DEF ShutdownEnd, ShutdownFail, CloseEnd, Order, Stopping
    <3>2. Native!End(t, "shutdown")
      BY <2>7, <3>1, CallEnds DEF ShutdownEnd, ShutdownFail, CloseEnd
    <3> QED
      BY <2>7, <3>1, <3>2 DEF ShutdownEnd, ShutdownFail, CloseEnd, Native!ShutdownEnd, Native!Next
  <2>8. CASE Delete(t)
    <3>1. \A u \in Threads \ {t} : pc[u] = "idle"
      BY <2>8 DEF Delete, Order
    <3>2. native \in {"fresh", "stopped"} \/ (faulted /\ native # "deleted")
      BY <2>8, <3>1 DEF Delete, Order, Agree, ShuttingDown, Quiet
    <3>3. \A u \in Threads : NativeCall(u) = "none" /\ NativeCall(u)' = "none"
      BY <2>8, <3>1 DEF Delete
    <3> QED
      BY <2>8, <3>2, <3>3 DEF Delete, Native!Free, Native!Delete, Native!Next
  <2>9. CASE StopNotRunning(t) \/ StopRunning(t)
    <3>1. op[t] = "none" \/ (op[t] = "run" /\ StopNotRunning(t))
      BY <2>9 DEF StopNotRunning, StopRunning, Order, Stopping
    <3> QED
      BY <2>9, <3>1, CallGoesOn DEF StopNotRunning, StopRunning
  <2>10. CASE \/ StartupSkip(t) \/ NotStarted(t) \/ (Started(t) /\ op[t] = "run")
              \/ Enter(t) \/ Leave(t) \/ NothingToRethrow(t) \/ Unwind(t)
    BY <2>10, CallGoesOn DEF StartupSkip, NotStarted, Started, Enter, Leave, NothingToRethrow, Unwind
  <2>11. CASE Rethrow(t) /\ op[t] # "run"
    BY <2>11, CallGoesOn DEF Rethrow
  <2> QED
    BY <1>5, <2>1, <2>2, <2>3, <2>4, <2>5, <2>6, <2>7, <2>8, <2>9, <2>10, <2>11 DEF Step
<1> QED
  BY <1>1, <1>2, <1>3, <1>4, <1>5 DEF Next

\* For any threads and failures, a Server whose application keeps to the rules
\* implements the driver that NativeServer describes.
THEOREM DrivesNativeServerCorrect ==
    ASSUME Rules = AllRules
    PROVE  Spec => DrivesNativeServer
<1>1. Init => Native!Init
  BY DEF Init, Native!Init, NativeCall, InNative
<1>2. RuleInv /\ NativeExclusive' /\ [Next]_vars => [Native!Next]_(Native!vars)
  BY StepRefines
<1> QED
  BY <1>1, <1>2, RuleInvCorrect, NativeExclusiveCorrect, PTL
     DEF Spec, DrivesNativeServer, Native!Spec

=============================================================================
