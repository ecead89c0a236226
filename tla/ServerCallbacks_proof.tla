------------------------ MODULE ServerCallbacks_proof ------------------------
(***************************************************************************)
(* Proofs about ServerCallbacks, for any number of threads and contexts.   *)
(* The first two invariants need no rules; the third is for AllRules.      *)
(***************************************************************************)
EXTENDS ServerCallbacks, TLAPS

(***************************************************************************)
(* What the C library has forgotten, and what it cannot know yet.          *)
(***************************************************************************)
Fresh == \A c \in Contexts : kind[c] = "none" =>
            c \notin native \cup map \cup freed \cup stale \cup inserted
Forgotten ==
    /\ stale \cap native = {}
    /\ \A t \in Threads : call[t].op = "removing" => call[t].ctx \notin native
    /\ running # None /\ kind[running] = "timed" => running \notin native
Calls == \A t \in Threads : call[t].op # "none" =>
            call[t].ctx \in Contexts /\ kind[call[t].ctx] # "none"
Gated == native \cap inserted \subseteq map
Runs ==
    /\ running # None => kind[running] # "none"
    /\ place = "reset" => running # None /\ kind[running] = "timed"

AliveInv == TypeOK /\ NativePointersAlive /\ Fresh /\ Forgotten /\ Calls /\ Gated /\ Runs

LEMMA AliveInit == Init => AliveInv
  BY NoneAssumption, NobodyAssumption
  DEF Init, AliveInv, TypeOK, NativePointersAlive, Fresh, Forgotten, Calls, Gated, Runs, Idle, Kinds

LEMMA AliveStep == AliveInv /\ [Next]_vars => AliveInv'
<1> SUFFICES ASSUME AliveInv, [Next]_vars PROVE AliveInv'
  OBVIOUS
<1>a. ASSUME NEW t \in Threads, NEW c \in Contexts, NEW k \in Kinds, Add(t, c, k)
      PROVE  /\ call[t].op = "none" /\ kind[c] = "none" /\ kind'[c] = k
             /\ \A d \in Contexts : d # c => kind'[d] = kind[d]
             /\ \A u \in Threads : u # t => call'[u] = call[u]
             /\ call'[t].op \in {"creating", "adding"} /\ call'[t].ctx = c
             /\ native' = native \cup {c}
             /\ UNCHANGED <<map, freed, stale, inserted, loop, running, place>>
  <2>1. TypeOK
    BY DEF AliveInv
  <2>2. call[t].op = "none" /\ kind[c] = "none"
    <3>1. User(t) /\ kind[c] = "none"
      BY <1>a DEF Add
    <3> QED  BY <3>1 DEF User, Idle
  <2>3. kind'[c] = k /\ \A d \in Contexts : d # c => kind'[d] = kind[d]
    BY <1>a, <2>1 DEF Add, TypeOK
  <2>4. \A u \in Threads : u # t => call'[u] = call[u]
    BY <1>a, <2>1 DEF Add, TypeOK
  <2>5. call'[t].op \in {"creating", "adding"} /\ call'[t].ctx = c
    BY <1>a, <2>1 DEF Add, TypeOK
  <2> QED
    BY <1>a, <2>2, <2>3, <2>4, <2>5 DEF Add
<1> USE NoneAssumption, NobodyAssumption
    DEF AliveInv, TypeOK, NativePointersAlive, Fresh, Forgotten, Calls, Gated, Runs, Idle, Kinds
<1>1. ASSUME NEW t \in Threads, NEW c \in Contexts, NEW k \in Kinds, Add(t, c, k) PROVE AliveInv'
  <2>e. /\ call[t].op = "none" /\ kind[c] = "none" /\ kind'[c] = k
        /\ \A d \in Contexts : d # c => kind'[d] = kind[d]
        /\ \A u \in Threads : u # t => call'[u] = call[u]
        /\ call'[t].op \in {"creating", "adding"} /\ call'[t].ctx = c
        /\ native' = native \cup {c}
        /\ UNCHANGED <<map, freed, stale, inserted, loop, running, place>>
    BY <1>1, <1>a
  <2>1. TypeOK'
    <3>1. kind' \in [Contexts -> Kinds \cup {"none"}]
      BY <1>1 DEF Add
    <3>2. call' \in [Threads -> [op : {"none", "creating", "adding", "removing"},
                                 ctx : Contexts \cup {None}]]
      BY <1>1 DEF Add
    <3> QED  BY <3>1, <3>2, <2>e
  <2>2. NativePointersAlive' /\ Fresh' /\ Gated'
    BY <2>e
  <2>3. Forgotten'
    BY <2>e
  <2>4. Calls' /\ Runs'
    BY <2>e
  <2> QED  BY <2>1, <2>2, <2>3, <2>4
<1>2. ASSUME NEW t \in Threads, NEW c \in Contexts, NEW k \in Kinds, AddFails(t, c, k)
      PROVE AliveInv'
  BY <1>2 DEF AddFails, User
<1>3. ASSUME NEW t \in Threads, NEW c \in Contexts, Remove(t, c) PROVE AliveInv'
  BY <1>3 DEF Remove, User, Removable
<1>4. ASSUME NEW t \in Threads, NEW c \in Contexts, Fire(t, c) PROVE AliveInv'
  BY <1>4 DEF Fire
<1>5. ASSUME NEW t \in Threads, InsertCallback(t) PROVE AliveInv'
  BY <1>5 DEF InsertCallback, Erased
<1>6. ASSUME NEW t \in Threads, InsertItem(t) PROVE AliveInv'
  BY <1>6 DEF InsertItem
<1>7. ASSUME NEW t \in Threads, OpenGate(t) PROVE AliveInv'
  BY <1>7 DEF OpenGate
<1>8. ASSUME NEW t \in Threads, Erase(t) PROVE AliveInv'
  BY <1>8 DEF Erase
<1>9. ASSUME NEW t \in Threads, Iterate(t) \/ IterateEnd(t) PROVE AliveInv'
  BY <1>9 DEF Iterate, IterateEnd
<1>10. ASSUME NEW t \in Threads, CallbackReturn(t) \/ ResetItem(t) PROVE AliveInv'
  BY <1>10 DEF CallbackReturn, ResetItem
<1>11. ASSUME NEW t \in Threads, MarkStale(t) PROVE AliveInv'
  BY <1>11 DEF MarkStale
<1>12. CASE UNCHANGED vars
  BY <1>12 DEF vars
<1> HIDE DEF AliveInv, TypeOK, NativePointersAlive, Fresh, Forgotten, Calls, Gated, Runs, Idle
<1>13. CASE Next
  BY <1>13, <1>1, <1>2, <1>3, <1>4, <1>5, <1>6, <1>7, <1>8, <1>9, <1>10, <1>11 DEF Next
<1> QED
  BY <1>12, <1>13

LEMMA AliveInvariant == Spec => []AliveInv
  BY AliveInit, AliveStep, PTL DEF Spec

\* Whatever threads add and remove at the same time, the C library's pointers
\* are alive.
THEOREM NativePointersAliveCorrect == Spec => [](TypeOK /\ NativePointersAlive)
<1>1. AliveInv => TypeOK /\ NativePointersAlive
  BY DEF AliveInv
<1> QED
  BY <1>1, AliveInvariant, PTL

\* A notified item is in the map, whatever threads add and remove.
THEOREM NotifiedIsFoundCorrect == Spec => NotifiedIsFound
<1>1. AliveInv /\ [Next]_vars =>
        [\A c \in Contexts : running # c /\ running' = c /\ kind[c] = "item" => c \in map]_vars
  <2> SUFFICES ASSUME AliveInv, Next, NEW c \in Contexts,
                      running # c, running' = c, kind[c] = "item"
               PROVE  c \in map
    OBVIOUS
  <2>1. PICK t \in Threads : Fire(t, c)
    BY NoneAssumption DEF Next, Add, AddFails, Remove, Fire, InsertCallback, InsertItem, OpenGate,
       Erase, Iterate, IterateEnd, CallbackReturn, MarkStale, ResetItem
  <2> QED
    BY <2>1 DEF Fire, Gate, AliveInv, Gated
<1> QED
  BY <1>1, AliveInvariant, PTL DEF Spec, NotifiedIsFound

-----------------------------------------------------------------------------
(***************************************************************************)
(* Nothing leaks.  What the C library has forgotten is a timer that fired, *)
(* which is marked before its callback ends, or is being removed; and a    *)
(* call that has not stored its context yet cannot lose it to a removal.   *)
(***************************************************************************)
Fired(c) == c \in stale \/ (running = c /\ kind[c] = "timed")
Collected == \A c \in map \ native : Fired(c) \/ \E t \in Threads : call[t].ctx = c
Held == \A t \in Threads : call[t].op \in {"creating", "adding"} =>
            call[t].ctx \in native \/ Fired(call[t].ctx)
Marked == place = "reset" => running \in stale

LeakInv == AliveInv /\ Collected /\ Held /\ Marked

LEMMA LeakInit == Init => LeakInv
  BY AliveInit DEF Init, LeakInv, Collected, Held, Marked, Idle

LEMMA LeakStep == LeakInv /\ [Next]_vars => LeakInv'
<1> SUFFICES ASSUME AliveInv, Collected, Held, Marked, [Next]_vars PROVE LeakInv'
  BY DEF LeakInv
<1>a. AliveInv'
  BY AliveStep
<1>b. TypeOK /\ Fresh /\ Calls /\ Runs
  BY DEF AliveInv
<1>c. \A t \in Threads : call[t] = Idle => call[t].op = "none" /\ call[t].ctx = None
  BY DEF Idle
<1> DEFINE Goal == Collected /\ Held /\ Marked
<1>d. Goal' => LeakInv'
  BY <1>a DEF LeakInv
<1>1. ASSUME NEW t \in Threads, NEW c \in Contexts, NEW k \in Kinds, Add(t, c, k) PROVE Goal'
  <2>1. call[t].ctx = None /\ kind[c] = "none" /\ c \notin map /\ c \notin stale /\ running # c
    BY <1>1, <1>b, <1>c, NoneAssumption DEF Add, User, Fresh, Runs
  <2>2. /\ native' = native \cup {c} /\ call'[t].ctx = c
        /\ \A u \in Threads : u # t => call'[u] = call[u]
        /\ \A d \in Contexts : d # c => kind'[d] = kind[d]
        /\ UNCHANGED <<map, stale, running, place>>
    BY <1>1, <1>b DEF Add, TypeOK
  <2>3. Collected'
    BY <2>1, <2>2, <1>b, NoneAssumption DEF Collected, Fired, TypeOK
  <2>4. Held'
    BY <2>1, <2>2, <1>b DEF Held, Fired, TypeOK, Calls
  <2> QED
    BY <2>2, <2>3, <2>4 DEF Marked
<1>2. ASSUME NEW t \in Threads, NEW c \in Contexts, NEW k \in Kinds, AddFails(t, c, k) PROVE Goal'
  <2>1. kind[c] = "none" /\ running # c /\ c \notin map
    BY <1>2, <1>b, NoneAssumption DEF AddFails, Runs, Fresh
  <2>2. /\ \A d \in Contexts : d # c => kind'[d] = kind[d]
        /\ UNCHANGED <<native, map, stale, running, place, call>>
    BY <1>2, <1>b DEF AddFails, TypeOK
  <2>3. Collected'
    BY <2>1, <2>2, <1>b DEF Collected, Fired, TypeOK
  <2>4. Held'
    BY <2>1, <2>2, <1>b DEF Held, Fired, TypeOK, Calls
  <2> QED
    BY <2>2, <2>3, <2>4 DEF Marked
<1>3. ASSUME NEW t \in Threads, NEW c \in Contexts, Remove(t, c) PROVE Goal'
  <2>1. call[t].ctx = None /\ \A u \in Threads : call[u].ctx # c
    BY <1>3, <1>c DEF Remove, User, Removable
  <2>2. /\ native' = native \ {c} /\ call'[t].op = "removing" /\ call'[t].ctx = c
        /\ \A u \in Threads : u # t => call'[u] = call[u]
        /\ UNCHANGED <<kind, map, stale, running, place>>
    BY <1>3, <1>b DEF Remove, TypeOK
  <2>3. Collected'
    BY <2>1, <2>2, <1>b, NoneAssumption DEF Collected, Fired, TypeOK
  <2>4. Held'
    BY <2>1, <2>2 DEF Held, Fired
  <2> QED
    BY <2>2, <2>3, <2>4 DEF Marked
<1>4. ASSUME NEW t \in Threads, NEW c \in Contexts, Fire(t, c) PROVE Goal'
  <2>1. /\ running = None /\ running' = c /\ place' = "user"
        /\ \A d \in native : d \in native' \/ (d = c /\ kind[c] = "timed")
        /\ UNCHANGED <<kind, map, stale, call>>
    BY <1>4 DEF Fire
  <2>2. Collected'
    BY <2>1, <1>b, NoneAssumption DEF Collected, Fired, TypeOK
  <2>3. Held'
    BY <2>1, <1>b, NoneAssumption DEF Held, Fired, TypeOK, Calls
  <2> QED
    BY <2>1, <2>2, <2>3 DEF Marked
<1>5. ASSUME NEW t \in Threads, InsertCallback(t) \/ OpenGate(t) PROVE Goal'
  <2>1. /\ call[t].op \in {"adding", "creating"} /\ call'[t].op = "none"
        /\ map' \subseteq map \cup {call[t].ctx}
        /\ \A u \in Threads : u # t => call'[u] = call[u]
        /\ UNCHANGED <<kind, native, stale, running, place>>
    BY <1>5, <1>b DEF InsertCallback, OpenGate, TypeOK, Idle
  <2>2. Collected'
    BY <2>1 DEF Collected, Held, Fired
  <2>3. Held'
    BY <2>1 DEF Held, Fired
  <2> QED
    BY <2>1, <2>2, <2>3 DEF Marked
<1>6. ASSUME NEW t \in Threads, InsertItem(t) PROVE Goal'
  <2>1. /\ map' = map \cup {call[t].ctx}
        /\ UNCHANGED <<kind, native, stale, running, place, call>>
    BY <1>6 DEF InsertItem
  <2> QED
    BY <2>1 DEF Collected, Held, Marked, Fired
<1>7. ASSUME NEW t \in Threads, Erase(t) PROVE Goal'
  <2>1. /\ map' = map \ {call[t].ctx} /\ call'[t].op = "none"
        /\ \A u \in Threads : u # t => call'[u] = call[u]
        /\ UNCHANGED <<kind, native, stale, running, place>>
    BY <1>7, <1>b DEF Erase, TypeOK, Idle
  <2> QED
    BY <2>1 DEF Collected, Held, Marked, Fired
<1>8. ASSUME NEW t \in Threads, CallbackReturn(t) PROVE Goal'
  <2>1. /\ kind[running] # "timed" /\ running' = None
        /\ UNCHANGED <<kind, native, map, stale, place, call>>
    BY <1>8 DEF CallbackReturn
  <2>2. place # "reset"
    BY <2>1, <1>b DEF Runs
  <2> QED
    BY <2>1, <2>2 DEF Collected, Held, Marked, Fired
<1>9. ASSUME NEW t \in Threads, MarkStale(t) PROVE Goal'
  <2>1. stale' = stale \cup {running} /\ UNCHANGED <<kind, native, map, running, call>>
    BY <1>9 DEF MarkStale
  <2> QED
    BY <2>1 DEF Collected, Held, Marked, Fired
<1>10. ASSUME NEW t \in Threads, ResetItem(t) PROVE Goal'
  <2>1. /\ place = "reset" /\ running' = None /\ place' = "user"
        /\ UNCHANGED <<kind, native, map, stale, call>>
    BY <1>10 DEF ResetItem
  <2> QED
    BY <2>1 DEF Collected, Held, Marked, Fired
<1>11. ASSUME \/ \E t \in Threads : Iterate(t) \/ IterateEnd(t)
              \/ UNCHANGED vars
       PROVE Goal'
  <2>1. UNCHANGED <<kind, native, map, stale, running, place, call>>
    BY <1>11 DEF Iterate, IterateEnd, vars
  <2> QED
    BY <2>1 DEF Collected, Held, Marked, Fired
<1> HIDE DEF Goal
<1> QED
  BY <1>1, <1>2, <1>3, <1>4, <1>5, <1>6, <1>7, <1>8, <1>9, <1>10, <1>11, <1>d DEF Next

\* Nothing leaks, whatever threads add and remove and whichever timers fire.
THEOREM ForgottenIsCollectedCorrect == Spec => []ForgottenIsCollected
<1>1. LeakInv => ForgottenIsCollected
  BY DEF LeakInv, Collected, Fired, ForgottenIsCollected
<1> QED
  BY <1>1, LeakInit, LeakStep, PTL DEF Spec

-----------------------------------------------------------------------------
(***************************************************************************)
(* With all rules: who adds a timer is alone with the callbacks, and who   *)
(* removes a context is not in its callback.                               *)
(***************************************************************************)
AddsInLoop == \A t \in Threads : call[t].op = "adding" =>
    /\ loop \in {t, Nobody}
    /\ loop = t => running # None /\ place = "user"
RemovesOther == \A t \in Threads : call[t].op = "removing" => running # call[t].ctx
NotYetStale == running # None /\ place = "user" => running \notin stale

RunInv == AliveInv /\ RunningContextAlive /\ AddsInLoop /\ RemovesOther /\ NotYetStale

LEMMA RunInit == Init => RunInv
  BY AliveInit, NoneAssumption, NobodyAssumption
  DEF Init, RunInv, RunningContextAlive, AddsInLoop, RemovesOther, NotYetStale, Idle

LEMMA RunStep ==
  ASSUME Rules = AllRules
  PROVE  RunInv /\ [Next]_vars => RunInv'
<1> SUFFICES ASSUME AliveInv, RunningContextAlive, AddsInLoop, RemovesOther, NotYetStale,
                    [Next]_vars
             PROVE  RunInv'
  BY DEF RunInv
<1>a. AliveInv'
  BY AliveStep
<1>b. TypeOK /\ NativePointersAlive /\ Fresh /\ Forgotten /\ Calls /\ Runs
  BY DEF AliveInv
<1>c. "add in loop" \in Rules /\ "no removal while running" \in Rules
  BY DEF AllRules
<1> DEFINE Goal == RunningContextAlive /\ AddsInLoop /\ RemovesOther /\ NotYetStale
<1>d. Goal' => RunInv'
  BY <1>a DEF RunInv
<1> HIDE DEF Goal
<1>1. ASSUME NEW t \in Threads, NEW c \in Contexts, NEW k \in Kinds, Add(t, c, k) PROVE Goal'
  <2>1. RunningContextAlive' /\ NotYetStale'
    BY <1>1 DEF Add, RunningContextAlive, NotYetStale
  <2>2. AddsInLoop'
    BY <1>1, <1>b, <1>c DEF Add, User, AddsInLoop, TypeOK
  <2>3. RemovesOther'
    BY <1>1, <1>b DEF Add, RemovesOther, TypeOK
  <2> QED BY <2>1, <2>2, <2>3 DEF Goal
<1>2. ASSUME NEW t \in Threads, NEW c \in Contexts, NEW k \in Kinds, AddFails(t, c, k) PROVE Goal'
  BY <1>2, <1>b, NoneAssumption
  DEF AddFails, Goal, RunningContextAlive, AddsInLoop, RemovesOther, NotYetStale, TypeOK, Runs
<1>3. ASSUME NEW t \in Threads, NEW c \in Contexts, Remove(t, c) PROVE Goal'
  BY <1>3, <1>b, <1>c
  DEF Remove, Removable, Goal, RunningContextAlive, AddsInLoop, RemovesOther, NotYetStale, TypeOK
<1>4. ASSUME NEW t \in Threads, NEW c \in Contexts, Fire(t, c) PROVE Goal'
  <2>1. RunningContextAlive' /\ RemovesOther' /\ NotYetStale'
    BY <1>4, <1>b
    DEF Fire, RunningContextAlive, RemovesOther, NotYetStale, NativePointersAlive, Forgotten
  <2>2. AddsInLoop'
    BY <1>4, <1>b, NoneAssumption DEF Fire, AddsInLoop, TypeOK
  <2> QED BY <2>1, <2>2 DEF Goal
<1>5. ASSUME NEW t \in Threads, InsertCallback(t) PROVE Goal'
  <2>1. running # None => running \notin stale
    BY <1>5, <1>b, NobodyAssumption
    DEF InsertCallback, AddsInLoop, NotYetStale, TypeOK
  <2>2. RunningContextAlive' /\ NotYetStale'
    BY <1>5, <1>b, <2>1, NoneAssumption
    DEF InsertCallback, Erased, RunningContextAlive, NotYetStale, TypeOK
  <2>3. AddsInLoop' /\ RemovesOther'
    BY <1>5, <1>b DEF InsertCallback, AddsInLoop, RemovesOther, TypeOK, Idle
  <2> QED BY <2>2, <2>3 DEF Goal
<1>6. ASSUME NEW t \in Threads, InsertItem(t) PROVE Goal'
  BY <1>6 DEF InsertItem, Goal, RunningContextAlive, AddsInLoop, RemovesOther, NotYetStale
<1>7. ASSUME NEW t \in Threads, OpenGate(t) PROVE Goal'
  BY <1>7, <1>b
  DEF OpenGate, Goal, RunningContextAlive, AddsInLoop, RemovesOther, NotYetStale, TypeOK, Idle
<1>8. ASSUME NEW t \in Threads, Erase(t) PROVE Goal'
  BY <1>8, <1>b
  DEF Erase, Goal, RunningContextAlive, AddsInLoop, RemovesOther, NotYetStale, TypeOK, Idle
<1>9. ASSUME NEW t \in Threads, Iterate(t) \/ IterateEnd(t) PROVE Goal'
  BY <1>9, <1>b, <1>c, NobodyAssumption
  DEF Iterate, IterateEnd, Goal, RunningContextAlive, AddsInLoop, RemovesOther, NotYetStale, TypeOK, Idle
<1>10. ASSUME NEW t \in Threads, CallbackReturn(t) \/ ResetItem(t) PROVE Goal'
  <2>1. RunningContextAlive' /\ NotYetStale' /\ RemovesOther'
    BY <1>10, <1>b, NoneAssumption
    DEF CallbackReturn, ResetItem, RunningContextAlive, NotYetStale, RemovesOther, TypeOK, Calls
  <2>2. AddsInLoop'
    BY <1>10, <1>b DEF CallbackReturn, ResetItem, AddsInLoop, TypeOK, Idle
  <2> QED BY <2>1, <2>2 DEF Goal
<1>11. ASSUME NEW t \in Threads, MarkStale(t) PROVE Goal'
  BY <1>11, <1>b
  DEF MarkStale, Goal, RunningContextAlive, AddsInLoop, RemovesOther, NotYetStale, TypeOK, Idle
<1>12. ASSUME UNCHANGED vars PROVE Goal'
  <2>1. RunningContextAlive' /\ NotYetStale'
    BY <1>12 DEF vars, RunningContextAlive, NotYetStale
  <2>2. AddsInLoop' /\ RemovesOther'
    BY <1>12 DEF vars, AddsInLoop, RemovesOther
  <2> QED BY <2>1, <2>2 DEF Goal
<1> QED
  BY <1>1, <1>2, <1>3, <1>4, <1>5, <1>6, <1>7, <1>8, <1>9, <1>10, <1>11, <1>12, <1>d DEF Next

\* With the two rules, no callback's context is destroyed under it.
THEOREM RunningContextAliveCorrect ==
  ASSUME Rules = AllRules
  PROVE  Spec => []RunningContextAlive
<1>1. RunInv => RunningContextAlive
  BY DEF RunInv
<1> QED
  BY <1>1, RunInit, RunStep, PTL DEF Spec

=============================================================================
