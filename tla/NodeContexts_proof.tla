------------------------- MODULE NodeContexts_proof --------------------------
(***************************************************************************)
(* Proofs about NodeContexts under its three rules, for any number of      *)
(* threads, nodes, contexts and objects.  The inductive invariant says of  *)
(* each call in progress what it has and which context it will leave       *)
(* behind, of each node where its pointer may point at that moment, of     *)
(* each object where it is, and of each callback whose context it runs on. *)
(***************************************************************************)
EXTENDS NodeContexts, TLAPS

\* What the rules and the constants give.
Given ==
    /\ "oneAtATime" \in Rules /\ "notWhileRunning" \in Rules /\ "methodsWhenIdle" \in Rules
    /\ None \notin Nodes /\ None \notin Contexts /\ None \notin Objects
    /\ \A c \in Contexts : c \notin Objects

\* The assumption of each lemma below holds under the rules.
LEMMA GivenByRules == Rules = AllRules => Given
BY NoneAssumption, ApartAssumption DEF AllRules, Given

\* The fields of a call.
Is(r, at, n, c, k) == r.at = at /\ r.node = n /\ r.ctx = c /\ r.kind = k

\* A call in progress knows its node and its context, which lives.
CallOK(t) ==
    /\ call[t].at = "idle" => call[t].node = None /\ call[t].ctx = None
    /\ call[t].at # "idle" =>
        /\ call[t].node \in Nodes
        /\ call[t].ctx \in used /\ call[t].ctx \notin freed /\ call[t].ctx \in Contexts
        /\ content[call[t].ctx][call[t].kind] # None
        /\ call[t].kind \in Kinds
    /\ call[t].at \in {"setContext", "setFunctions"} => map[call[t].node] = call[t].ctx
    /\ call[t].at \in {"methodContext", "insert"} =>
        /\ call[t].kind = "method"
        /\ \A n \in Nodes : map[n] # call[t].ctx
        /\ native[call[t].node] \subseteq {"method"}

\* The first rule, and what follows from it.
CallsApart(t, u) ==
    call[t].at # "idle" /\ t # u => call[t].node # call[u].node /\ call[t].ctx # call[u].ctx

\* The C server's pointer and functions, without and with a call in progress.
NodeOK(n) ==
    /\ class[n] = "absent" => pointer[n] = None /\ native[n] = {}
    /\ map[n] # None => map[n] \in used /\ map[n] \notin freed
    /\ pointer[n] # None /\ pointer[n] # map[n] =>
        \E t \in Threads : call[t].node = n /\ call[t].at = "insert" /\ pointer[n] = call[t].ctx
    /\ \A t \in Threads :
        call[t].node = n /\ call[t].at \in {"setFunctions", "insert"} /\ class[n] # "absent" =>
            pointer[n] = call[t].ctx

\* No context is in the map twice.
MapApart(n, m) == map[n] = map[m] /\ map[n] # None => n = m

\* The user's objects: each in one place of one context, and destroyed with it.
ContentOK(c) ==
    /\ c \notin used => \A k \in Kinds : content[c][k] = None
    /\ \A k \in Kinds : content[c][k] # None =>
        /\ content[c][k] \in used
        /\ c \notin freed => content[c][k] \notin freed

ContentApart(c, d) ==
    \A k, j \in Kinds : content[c][k] = content[d][j] /\ content[c][k] # None => c = d /\ k = j

\* A callback runs on the node's context, or on the one that is about to be.
RunningOK(t) ==
    IF running[t].node = None
    THEN running[t].ctx = None /\ running[t].obj = None
    ELSE
        /\ running[t].ctx # None /\ running[t].obj # None
        /\ \E k \in Kinds : content[running[t].ctx][k] = running[t].obj
        /\ \/ running[t].ctx = map[running[t].node]
           \/ \E u \in Threads : /\ call[u].node = running[t].node /\ call[u].at = "insert"
                                 /\ running[t].ctx = call[u].ctx
        /\ \A u \in Threads : call[u].node = running[t].node =>
            /\ call[u].at # "methodContext"
            /\ call[u].at = "insert" => running[t].ctx = call[u].ctx

NodesInv ==
    /\ TypeOK
    /\ \A t \in Threads : CallOK(t) /\ RunningOK(t)
    /\ \A t, u \in Threads : CallsApart(t, u)
    /\ \A n \in Nodes : NodeOK(n)
    /\ \A n, m \in Nodes : MapApart(n, m)
    /\ \A c \in Contexts : ContentOK(c)
    /\ \A c, d \in Contexts : ContentApart(c, d)
    /\ CallbackReady
    /\ AllOwned

Calls == [at : {"idle", "setContext", "setFunctions", "methodContext", "insert"},
          node : Nodes \cup {None}, ctx : Contexts \cup {None}, kind : Kinds \cup {"none"}]

\* TypeOK, element by element.
Types ==
    /\ \A t \in Threads :
        /\ call[t].at \in {"idle", "setContext", "setFunctions", "methodContext", "insert"}
        /\ call[t].node \in Nodes \cup {None} /\ call[t].ctx \in Contexts \cup {None}
        /\ running[t].node \in Nodes \cup {None} /\ running[t].ctx \in Contexts \cup {None}
        /\ running[t].obj \in Objects \cup {None}
    /\ \A n \in Nodes : pointer[n] \in Contexts \cup {None} /\ map[n] \in Contexts \cup {None}
    /\ \A n \in Nodes : native[n] \subseteq Kinds
    /\ \A c \in Contexts : \A k \in Kinds : content[c][k] \in Objects \cup {None}
    /\ freed \subseteq used
    /\ "method" \in Kinds

\* From the types of the variables to those of their elements, which is all that the
\* steps below need.
LEMMA TypesOf == TypeOK => Types
BY DEF TypeOK, Types, Kinds

-----------------------------------------------------------------------------
\* Each action keeps the invariant.  Step e says what the action does, element by
\* element; step t gives the types before and after; then one step per conjunct.

LEMMA SetKeeps ==
    ASSUME Given, NodesInv, NEW t \in Threads, NEW k \in Kinds,
           NEW n \in Nodes, NEW o \in Objects, NEW c \in Contexts,
           Set(t, n, k, o, c)
    PROVE  NodesInv'
<1> USE DEF Given, NodesInv, Is
<1>e. /\ call[t].at = "idle" /\ call[t].node = None
      /\ \A u \in Threads : call[u].node # n /\ running[u].node # n
      /\ k # "method" /\ o \notin used
      /\ IF map[n] = None THEN c \notin used ELSE c = map[n]
      /\ map'[n] = c
      /\ \A m \in Nodes : m # n => map'[m] = map[m]
      /\ content'[c][k] = o
      /\ \A d \in Contexts, j \in Kinds : d # c \/ j # k => content'[d][j] = content[d][j]
      /\ \A x : x \in used' <=> x \in used \/ x = c \/ x = o
      /\ \A x : x \in freed' <=> x \in freed \/ (x = content[c][k] /\ x # None)
      /\ \A u \in Threads : u # t => call'[u] = call[u]
      /\ Is(call'[t], "setContext", n, c, k)
      /\ UNCHANGED <<class, pointer, native, running>>
    BY DEF Set, MayConfigure, Configured, Runs, TypeOK, Kinds, Idle
<1>1. TypeOK'
    BY DEF Set, MayConfigure, Configured, Runs, TypeOK, Kinds, Idle, NotRunning, CallOK,
       NodeOK, ContentOK
<1>t. Types /\ Types'
    BY <1>1, TypesOf, PTL
<1>2. ASSUME NEW u \in Threads PROVE CallOK(u)'
  <2>1. CASE u = t
    BY <2>1, <1>e, <1>t DEF CallOK, Types, CallsApart, NodeOK, MapApart, ContentOK
  <2>2. CASE u # t /\ call[u].at = "idle"
    BY <2>2, <1>e, <1>t DEF CallOK
  <2>3. CASE u # t /\ call[u].at # "idle"
    <3>1. call'[u] = call[u] /\ call[u].ctx \in used /\ call[u].kind \in Kinds
          /\ call[u].ctx \in Contexts /\ call[u].node # n
      BY <2>3, <1>e, <1>t DEF CallOK
    <3>2. content'[call[u].ctx][call[u].kind] # None
      BY <2>3, <3>1, <1>e, <1>t DEF CallOK
    <3>3. call[u].ctx \in used' /\ call[u].ctx \notin freed'
      BY <2>3, <3>1, <1>e, <1>t DEF CallOK, Types
    <3>4. \A m \in Nodes : call[u].at \in {"methodContext", "insert"} => map'[m] # call[u].ctx
      BY <2>3, <3>1, <1>e, <1>t DEF CallOK
    <3> QED  BY <2>3, <3>1, <3>2, <3>3, <3>4, <1>e, <1>t DEF CallOK
  <2> QED  BY <2>1, <2>2, <2>3
<1>3. ASSUME NEW u \in Threads PROVE RunningOK(u)'
    BY <1>e, <1>t DEF RunningOK, Types, CallOK, CallsApart, NodeOK, MapApart
<1>4. ASSUME NEW u \in Threads, NEW v \in Threads PROVE CallsApart(u, v)'
    BY <1>e, <1>t DEF CallsApart, Types, CallOK, NodeOK, MapApart
<1>5. ASSUME NEW m \in Nodes PROVE NodeOK(m)'
    BY <1>e, <1>t DEF NodeOK, Types, CallOK, CallsApart, MapApart
<1>6. ASSUME NEW m \in Nodes, NEW q \in Nodes PROVE MapApart(m, q)'
    BY <1>e, <1>t DEF MapApart, Types, CallOK, NodeOK
<1>7. ASSUME NEW d \in Contexts PROVE ContentOK(d)'
    BY <1>e, <1>t DEF ContentOK, Types, CallOK, NodeOK, ContentApart
<1>8. ASSUME NEW d \in Contexts, NEW e \in Contexts PROVE ContentApart(d, e)'
    BY <1>e, <1>t DEF ContentApart, Types, CallOK, ContentOK
<1>9. CallbackReady'
    BY <1>e, <1>t DEF CallbackReady, Types, CallOK, CallsApart, NodeOK
<1>10. AllOwned'
    BY <1>e, <1>t DEF AllOwned, Types, ObjectsOf, CallOK, NodeOK, MapApart, ContentOK,
       ContentApart
<1> QED  BY <1>1, <1>2, <1>3, <1>4, <1>5, <1>6, <1>7, <1>8, <1>9, <1>10

\* A call that goes on to its next point keeps the type of the calls.
LEMMA GotoTyped ==
    ASSUME call \in [Threads -> Calls], NEW t \in Threads,
           NEW a \in {"idle", "setContext", "setFunctions", "methodContext", "insert"},
           Goto(t, a)
    PROVE  call' \in [Threads -> Calls]
<1>1. [call[t] EXCEPT !.at = a] \in Calls
    BY DEF Calls
<1> QED  BY <1>1 DEF Goto

LEMMA SetContextKeeps ==
    ASSUME Given, NodesInv, NEW t \in Threads,
           SetContext(t)
    PROVE  NodesInv'
<1> USE DEF Given, NodesInv, Is
<1>1. CASE class[call[t].node] = "absent"
  <2>e. /\ call[t].at = "setContext" /\ call[t].node \in Nodes /\ call[t].ctx \in Contexts
        /\ \A u \in Threads : u # t => call'[u] = call[u]
        /\ Is(call'[t], "idle", None, None, "none")
        /\ UNCHANGED <<class, pointer, native, map, content, freed, used, running>>
      BY <1>1 DEF SetContext, Goto, Done, TypeOK, Kinds, Idle, CallOK
  <2>1. TypeOK'
      BY <1>1 DEF SetContext, Goto, Done, TypeOK, Kinds, Idle, NotRunning, CallOK, NodeOK,
         ContentOK
  <2>t. Types /\ Types'
      BY <2>1, TypesOf, PTL
  <2>2. ASSUME NEW u \in Threads PROVE CallOK(u)'
    <3>1. CASE u = t
      BY <3>1, <2>e DEF CallOK
    <3>2. CASE u # t
      BY <3>2, <2>e DEF CallOK
    <3> QED  BY <3>1, <3>2
  <2>3. ASSUME NEW u \in Threads PROVE RunningOK(u)'
      BY <2>e, <2>t, <1>1 DEF RunningOK, Types, CallOK, CallsApart, NodeOK, MapApart
  <2>4. ASSUME NEW u \in Threads, NEW v \in Threads PROVE CallsApart(u, v)'
      BY <2>e, <2>t, <1>1 DEF CallsApart, Types, CallOK, NodeOK, MapApart
  <2>5. ASSUME NEW m \in Nodes PROVE NodeOK(m)'
      BY <2>e, <2>t, <1>1 DEF NodeOK, Types, CallOK, CallsApart, MapApart
  <2>6. ASSUME NEW m \in Nodes, NEW q \in Nodes PROVE MapApart(m, q)'
      BY <2>e, <2>t, <1>1 DEF MapApart
  <2>7. ASSUME NEW d \in Contexts PROVE ContentOK(d)'
      BY <2>e, <2>t, <1>1 DEF ContentOK
  <2>8. ASSUME NEW d \in Contexts, NEW e \in Contexts PROVE ContentApart(d, e)'
      BY <2>e, <2>t, <1>1 DEF ContentApart
  <2>9. CallbackReady'
      BY <2>e, <2>t, <1>1 DEF CallbackReady, Types, CallOK, CallsApart, NodeOK
  <2>10. AllOwned'
      BY <2>e, <2>t, <1>1 DEF AllOwned, Types, ObjectsOf, CallOK, NodeOK, MapApart, ContentOK,
         ContentApart
  <2> QED  BY <2>1, <2>2, <2>3, <2>4, <2>5, <2>6, <2>7, <2>8, <2>9, <2>10
<1>2. CASE class[call[t].node] # "absent"
  <2>e. /\ call[t].at = "setContext" /\ call[t].node \in Nodes /\ call[t].ctx \in Contexts
        /\ \A u \in Threads : u # t => call'[u] = call[u]
        /\ Is(call'[t], "setFunctions", call[t].node, call[t].ctx, call[t].kind)
        /\ pointer'[call[t].node] = call[t].ctx
        /\ \A m \in Nodes : m # call[t].node => pointer'[m] = pointer[m]
        /\ UNCHANGED <<class, native, map, content, freed, used, running>>
      BY <1>2 DEF SetContext, Goto, Done, TypeOK, Kinds, Idle, CallOK
  <2>1. TypeOK'
    <3>1. call' \in [Threads -> Calls]
      <4>1. Goto(t, "setFunctions") /\ call \in [Threads -> Calls]
        BY <1>2 DEF SetContext, TypeOK, Calls
      <4> QED  BY <4>1, GotoTyped
    <3>2. pointer' \in [Nodes -> Contexts \cup {None}]
      BY <2>e, <1>2 DEF SetContext, TypeOK
    <3>3. \A m \in Nodes : class'[m] = "absent" => pointer'[m] = None
      BY <2>e, <1>2 DEF TypeOK
    <3> QED  BY <3>1, <3>2, <3>3, <1>2 DEF SetContext, TypeOK, Calls
  <2>t. Types /\ Types'
      BY <2>1, TypesOf, PTL
  <2>2. ASSUME NEW u \in Threads PROVE CallOK(u)'
    <3>1. CASE u = t
      BY <3>1, <2>e DEF CallOK
    <3>2. CASE u # t
      BY <3>2, <2>e DEF CallOK
    <3> QED  BY <3>1, <3>2
  <2>3. ASSUME NEW u \in Threads PROVE RunningOK(u)'
      BY <2>e, <2>t, <1>2 DEF RunningOK, Types, CallOK, CallsApart, NodeOK, MapApart
  <2>4. ASSUME NEW u \in Threads, NEW v \in Threads PROVE CallsApart(u, v)'
      BY <2>e, <2>t, <1>2 DEF CallsApart, Types, CallOK, NodeOK, MapApart
  <2>5. ASSUME NEW m \in Nodes PROVE NodeOK(m)'
      BY <2>e, <2>t, <1>2 DEF NodeOK, Types, CallOK, CallsApart, MapApart
  <2>6. ASSUME NEW m \in Nodes, NEW q \in Nodes PROVE MapApart(m, q)'
      BY <2>e, <2>t, <1>2 DEF MapApart
  <2>7. ASSUME NEW d \in Contexts PROVE ContentOK(d)'
      BY <2>e, <2>t, <1>2 DEF ContentOK
  <2>8. ASSUME NEW d \in Contexts, NEW e \in Contexts PROVE ContentApart(d, e)'
      BY <2>e, <2>t, <1>2 DEF ContentApart
  <2>9. CallbackReady'
      BY <2>e, <2>t, <1>2 DEF CallbackReady, Types, CallOK, CallsApart, NodeOK
  <2>10. AllOwned'
      BY <2>e, <2>t, <1>2 DEF AllOwned, Types, ObjectsOf, CallOK, NodeOK, MapApart, ContentOK,
         ContentApart
  <2> QED  BY <2>1, <2>2, <2>3, <2>4, <2>5, <2>6, <2>7, <2>8, <2>9, <2>10
<1> QED  BY <1>1, <1>2

LEMMA SetFunctionsKeeps ==
    ASSUME Given, NodesInv, NEW t \in Threads,
           SetFunctions(t)
    PROVE  NodesInv'
<1> USE DEF Given, NodesInv, Is
<1>e. /\ call[t].at = "setFunctions" /\ call[t].node \in Nodes /\ call[t].ctx \in Contexts
      /\ \A u \in Threads : u # t => call'[u] = call[u]
      /\ Is(call'[t], "idle", None, None, "none")
      /\ \A m \in Nodes : m # call[t].node => native'[m] = native[m]
      /\ \A j \in native'[call[t].node] :
             j \in native[call[t].node] \/ (j = call[t].kind /\ class[call[t].node] # "absent")
      /\ UNCHANGED <<class, pointer, map, content, freed, used, running>>
    BY DEF SetFunctions, Done, TypeOK, Kinds, Idle, CallOK
<1>1. TypeOK'
    BY DEF SetFunctions, Done, TypeOK, Kinds, Idle, NotRunning, CallOK, NodeOK, ContentOK
<1>t. Types /\ Types'
    BY <1>1, TypesOf, PTL
<1>2. ASSUME NEW u \in Threads PROVE CallOK(u)'
  <2>1. CASE u = t
    BY <2>1, <1>e, <1>t DEF CallOK, Types, CallsApart, NodeOK, MapApart, ContentOK
  <2>2. CASE u # t /\ call[u].at = "idle"
    BY <2>2, <1>e DEF CallOK
  <2>3. CASE u # t /\ call[u].at # "idle"
    <3>1. call[u].node \in Nodes /\ call[u].node # call[t].node /\ call'[u] = call[u]
      BY <2>3, <1>e, <1>t DEF CallOK, CallsApart, Types
    <3>2. native'[call[u].node] = native[call[u].node]
      BY <3>1, <1>e
    <3> QED  BY <2>3, <3>1, <3>2, <1>e DEF CallOK
  <2> QED  BY <2>1, <2>2, <2>3
<1>3. ASSUME NEW u \in Threads PROVE RunningOK(u)'
    BY <1>e, <1>t DEF RunningOK, Types, CallOK, CallsApart, NodeOK, MapApart
<1>4. ASSUME NEW u \in Threads, NEW v \in Threads PROVE CallsApart(u, v)'
    BY <1>e, <1>t DEF CallsApart, Types, CallOK, NodeOK, MapApart
<1>5. ASSUME NEW m \in Nodes PROVE NodeOK(m)'
    BY <1>e, <1>t DEF NodeOK, Types, CallOK, CallsApart, MapApart
<1>6. ASSUME NEW m \in Nodes, NEW q \in Nodes PROVE MapApart(m, q)'
    BY <1>e, <1>t DEF MapApart
<1>7. ASSUME NEW d \in Contexts PROVE ContentOK(d)'
    BY <1>e, <1>t DEF ContentOK
<1>8. ASSUME NEW d \in Contexts, NEW e \in Contexts PROVE ContentApart(d, e)'
    BY <1>e, <1>t DEF ContentApart
<1>9. CallbackReady'
    BY <1>e, <1>t DEF CallbackReady, Types, CallOK, CallsApart, NodeOK
<1>10. AllOwned'
    BY <1>e, <1>t DEF AllOwned, Types, ObjectsOf, CallOK, NodeOK, MapApart, ContentOK,
       ContentApart
<1> QED  BY <1>1, <1>2, <1>3, <1>4, <1>5, <1>6, <1>7, <1>8, <1>9, <1>10

LEMMA SetMethodKeeps ==
    ASSUME Given, NodesInv, NEW t \in Threads, NEW n \in Nodes,
           NEW o \in Objects, NEW c \in Contexts,
           SetMethod(t, n, o, c)
    PROVE  NodesInv'
<1> USE DEF Given, NodesInv, Is
<1>1. CASE class[n] # "method"
  <2>e. /\ call[t].at = "idle" /\ call[t].node = None
        /\ \A u \in Threads : call[u].node # n /\ running[u].node # n
        /\ c \notin used /\ o \notin used
        /\ \A x : x \in used' <=> x \in used \/ x = c \/ x = o
        /\ content'[c]["method"] = o
        /\ \A d \in Contexts, j \in Kinds : d # c \/ j # "method" => content'[d][j] = content[d][j]
        /\ \A x : x \in freed' <=> x \in freed \/ x = c \/ x = o
        /\ UNCHANGED <<class, pointer, native, map, call, running>>
      BY <1>1 DEF SetMethod, NewContext, MayConfigure, Configured, Runs, TypeOK, Kinds, Idle
  <2>1. TypeOK'
      BY <1>1 DEF SetMethod, NewContext, MayConfigure, Configured, Runs, TypeOK, Kinds, Idle,
         NotRunning, CallOK, NodeOK, ContentOK
  <2>t. Types /\ Types'
      BY <2>1, TypesOf, PTL
  <2>2. ASSUME NEW u \in Threads PROVE CallOK(u)'
      BY <2>e, <2>t, <1>1 DEF CallOK, Types, CallsApart, NodeOK, MapApart, ContentOK
  <2>3. ASSUME NEW u \in Threads PROVE RunningOK(u)'
      BY <2>e, <2>t, <1>1 DEF RunningOK, Types, CallOK, CallsApart, NodeOK, MapApart
  <2>4. ASSUME NEW u \in Threads, NEW v \in Threads PROVE CallsApart(u, v)'
      BY <2>e, <2>t, <1>1 DEF CallsApart
  <2>5. ASSUME NEW m \in Nodes PROVE NodeOK(m)'
      BY <2>e, <2>t, <1>1 DEF NodeOK, Types, CallOK, CallsApart, MapApart
  <2>6. ASSUME NEW m \in Nodes, NEW q \in Nodes PROVE MapApart(m, q)'
      BY <2>e, <2>t, <1>1 DEF MapApart
  <2>7. ASSUME NEW d \in Contexts PROVE ContentOK(d)'
      BY <2>e, <2>t, <1>1 DEF ContentOK, Types, CallOK, NodeOK, ContentApart
  <2>8. ASSUME NEW d \in Contexts, NEW e \in Contexts PROVE ContentApart(d, e)'
      BY <2>e, <2>t, <1>1 DEF ContentApart, Types, CallOK, ContentOK
  <2>9. CallbackReady'
      BY <2>e, <2>t, <1>1 DEF CallbackReady, Types, CallOK, CallsApart, NodeOK
  <2>10. AllOwned'
      BY <2>e, <2>t, <1>1 DEF AllOwned, Types, ObjectsOf, CallOK, NodeOK, MapApart, ContentOK,
         ContentApart
  <2> QED  BY <2>1, <2>2, <2>3, <2>4, <2>5, <2>6, <2>7, <2>8, <2>9, <2>10
<1>2. CASE class[n] = "method"
  <2>e. /\ call[t].at = "idle" /\ call[t].node = None
        /\ \A u \in Threads : call[u].node # n /\ running[u].node # n
        /\ c \notin used /\ o \notin used
        /\ \A x : x \in used' <=> x \in used \/ x = c \/ x = o
        /\ content'[c]["method"] = o
        /\ \A d \in Contexts, j \in Kinds : d # c \/ j # "method" => content'[d][j] = content[d][j]
        /\ native'[n] = {"method"}
        /\ \A m \in Nodes : m # n => native'[m] = native[m]
        /\ \A u \in Threads : u # t => call'[u] = call[u]
        /\ Is(call'[t], "methodContext", n, c, "method")
        /\ UNCHANGED <<class, pointer, map, freed, running>>
      BY <1>2 DEF SetMethod, NewContext, MayConfigure, Configured, Runs, TypeOK, Kinds, Idle
  <2>1. TypeOK'
    <3>1. call' \in [Threads -> Calls]
      BY <2>e, <1>2 DEF SetMethod, TypeOK, Calls, NewContext, Kinds
    <3>2. native' \in [Nodes -> SUBSET Kinds]
      BY <2>e, <1>2 DEF SetMethod, TypeOK, Calls, NewContext, Kinds
    <3>3. content' \in [Contexts -> [Kinds -> Objects \cup {None}]]
      BY DEF SetMethod, TypeOK, NewContext
    <3> QED  BY <3>1, <3>2, <3>3, <1>2 DEF SetMethod, TypeOK, Calls, NewContext
  <2>t. Types /\ Types'
      BY <2>1, TypesOf, PTL
  <2>2. ASSUME NEW u \in Threads PROVE CallOK(u)'
    <3>1. CASE u = t
      BY <3>1, <2>e, <2>t, <1>2 DEF CallOK, Types, CallsApart, NodeOK, MapApart, ContentOK
    <3>2. CASE u # t /\ call[u].at = "idle"
      BY <3>2, <2>e, <2>t, <1>2 DEF CallOK
    <3>3. CASE u # t /\ call[u].at # "idle"
      <4>1. call'[u] = call[u] /\ call[u].ctx \in used /\ call[u].kind \in Kinds
            /\ call[u].ctx \in Contexts /\ call[u].node # n
        BY <3>3, <2>e, <2>t, <1>2 DEF CallOK
      <4>2. content'[call[u].ctx][call[u].kind] # None
        BY <3>3, <4>1, <2>e, <2>t, <1>2 DEF CallOK
      <4>3. call[u].ctx \in used' /\ call[u].ctx \notin freed'
        BY <3>3, <4>1, <2>e, <2>t, <1>2 DEF CallOK, Types
      <4>4. \A m \in Nodes : call[u].at \in {"methodContext", "insert"} => map'[m] # call[u].ctx
        BY <3>3, <4>1, <2>e, <2>t, <1>2 DEF CallOK
      <4> QED  BY <3>3, <4>1, <4>2, <4>3, <4>4, <2>e, <2>t, <1>2 DEF CallOK
    <3> QED  BY <3>1, <3>2, <3>3
  <2>3. ASSUME NEW u \in Threads PROVE RunningOK(u)'
      BY <2>e, <2>t, <1>2 DEF RunningOK, Types, CallOK, CallsApart, NodeOK, MapApart
  <2>4. ASSUME NEW u \in Threads, NEW v \in Threads PROVE CallsApart(u, v)'
      BY <2>e, <2>t, <1>2 DEF CallsApart, Types, CallOK, NodeOK, MapApart
  <2>5. ASSUME NEW m \in Nodes PROVE NodeOK(m)'
      BY <2>e, <2>t, <1>2 DEF NodeOK, Types, CallOK, CallsApart, MapApart
  <2>6. ASSUME NEW m \in Nodes, NEW q \in Nodes PROVE MapApart(m, q)'
      BY <2>e, <2>t, <1>2 DEF MapApart
  <2>7. ASSUME NEW d \in Contexts PROVE ContentOK(d)'
      BY <2>e, <2>t, <1>2 DEF ContentOK, Types, CallOK, NodeOK, ContentApart
  <2>8. ASSUME NEW d \in Contexts, NEW e \in Contexts PROVE ContentApart(d, e)'
      BY <2>e, <2>t, <1>2 DEF ContentApart, Types, CallOK, ContentOK
  <2>9. CallbackReady'
      BY <2>e, <2>t, <1>2 DEF CallbackReady, Types, CallOK, CallsApart, NodeOK
  <2>10. AllOwned'
      BY <2>e, <2>t, <1>2 DEF AllOwned, Types, ObjectsOf, CallOK, NodeOK, MapApart, ContentOK,
         ContentApart
  <2> QED  BY <2>1, <2>2, <2>3, <2>4, <2>5, <2>6, <2>7, <2>8, <2>9, <2>10
<1> QED  BY <1>1, <1>2

LEMMA MethodContextKeeps ==
    ASSUME Given, NodesInv, NEW t \in Threads,
           MethodContext(t)
    PROVE  NodesInv'
<1> USE DEF Given, NodesInv, Is
<1>1. CASE class[call[t].node] = "absent"
  <2>e. /\ call[t].at = "methodContext" /\ call[t].node \in Nodes /\ call[t].ctx \in Contexts
        /\ \A u \in Threads : u # t => call'[u] = call[u]
        /\ Is(call'[t], "idle", None, None, "none")
        /\ \A x : x \in freed' <=>
               x \in freed \/ x = call[t].ctx
               \/ \E j \in Kinds : x = content[call[t].ctx][j] /\ x # None
        /\ UNCHANGED <<class, pointer, native, map, content, used, running>>
      BY <1>1 DEF MethodContext, Goto, Done, ObjectsOf, TypeOK, Kinds, Idle, CallOK
  <2>1. TypeOK'
    <3>1. call' \in [Threads -> Calls]
      BY <2>e, <1>1 DEF MethodContext, TypeOK, Calls, Done, Idle
    <3>2. freed' \subseteq used'
      BY <2>e, <1>1 DEF MethodContext, TypeOK, Calls, Done, CallOK, ContentOK, Kinds, ObjectsOf
    <3> QED  BY <3>1, <3>2, <1>1 DEF MethodContext, TypeOK, Calls
  <2>t. Types /\ Types'
      BY <2>1, TypesOf, PTL
  <2>2. ASSUME NEW u \in Threads PROVE CallOK(u)'
    <3>1. CASE u = t
      BY <3>1, <2>e, <2>t, <1>1 DEF CallOK, Types, CallsApart, NodeOK, MapApart, ContentOK
    <3>2. CASE u # t /\ call[u].at = "idle"
      BY <3>2, <2>e DEF CallOK
    <3>3. CASE u # t /\ call[u].at # "idle"
      <4>1. call[u].ctx \in Contexts /\ call[u].ctx # call[t].ctx /\ call'[u] = call[u]
        BY <3>3, <2>e, <2>t DEF CallOK, CallsApart, Types
      <4>2. \A k \in Kinds : call[u].ctx # content[call[t].ctx][k] \/ call[u].ctx = None
        BY <4>1, <2>e, <2>t DEF Types
      <4>3. call[u].ctx \notin freed'
        BY <3>3, <4>1, <4>2, <2>e, <2>t DEF CallOK
      <4> QED  BY <3>3, <4>1, <4>3, <2>e DEF CallOK
    <3> QED  BY <3>1, <3>2, <3>3
  <2>3. ASSUME NEW u \in Threads PROVE RunningOK(u)'
      BY <2>e, <2>t, <1>1 DEF RunningOK, Types, CallOK, CallsApart, NodeOK, MapApart
  <2>4. ASSUME NEW u \in Threads, NEW v \in Threads PROVE CallsApart(u, v)'
      BY <2>e, <2>t, <1>1 DEF CallsApart, Types, CallOK, NodeOK, MapApart
  <2>5. ASSUME NEW m \in Nodes PROVE NodeOK(m)'
      BY <2>e, <2>t, <1>1 DEF NodeOK, Types, CallOK, CallsApart, MapApart
  <2>6. ASSUME NEW m \in Nodes, NEW q \in Nodes PROVE MapApart(m, q)'
      BY <2>e, <2>t, <1>1 DEF MapApart
  <2>7. ASSUME NEW d \in Contexts PROVE ContentOK(d)'
      BY <2>e, <2>t, <1>1 DEF ContentOK, Types, CallOK, NodeOK, ContentApart
  <2>8. ASSUME NEW d \in Contexts, NEW e \in Contexts PROVE ContentApart(d, e)'
      BY <2>e, <2>t, <1>1 DEF ContentApart
  <2>9. CallbackReady'
      BY <2>e, <2>t, <1>1 DEF CallbackReady, Types, CallOK, CallsApart, NodeOK
  <2>10. AllOwned'
      BY <2>e, <2>t, <1>1 DEF AllOwned, Types, ObjectsOf, CallOK, NodeOK, MapApart, ContentOK,
         ContentApart
  <2> QED  BY <2>1, <2>2, <2>3, <2>4, <2>5, <2>6, <2>7, <2>8, <2>9, <2>10
<1>2. CASE class[call[t].node] # "absent"
  <2>e. /\ call[t].at = "methodContext" /\ call[t].node \in Nodes /\ call[t].ctx \in Contexts
        /\ \A u \in Threads : u # t => call'[u] = call[u]
        /\ Is(call'[t], "insert", call[t].node, call[t].ctx, call[t].kind)
        /\ pointer'[call[t].node] = call[t].ctx
        /\ \A m \in Nodes : m # call[t].node => pointer'[m] = pointer[m]
        /\ UNCHANGED <<class, native, map, content, freed, used, running>>
      BY <1>2 DEF MethodContext, Goto, Done, ObjectsOf, TypeOK, Kinds, Idle, CallOK
  <2>1. TypeOK'
    <3>1. call' \in [Threads -> Calls]
      <4>1. Goto(t, "insert") /\ call \in [Threads -> Calls]
        BY <1>2 DEF MethodContext, TypeOK, Calls
      <4> QED  BY <4>1, GotoTyped
    <3>2. pointer' \in [Nodes -> Contexts \cup {None}]
      BY <2>e, <1>2 DEF MethodContext, TypeOK
    <3>3. \A m \in Nodes : class'[m] = "absent" => pointer'[m] = None
      BY <2>e, <1>2 DEF TypeOK
    <3> QED  BY <3>1, <3>2, <3>3, <1>2 DEF MethodContext, TypeOK, Calls
  <2>t. Types /\ Types'
      BY <2>1, TypesOf, PTL
  <2>2. ASSUME NEW u \in Threads PROVE CallOK(u)'
    <3>1. CASE u = t
      BY <3>1, <2>e DEF CallOK
    <3>2. CASE u # t
      BY <3>2, <2>e DEF CallOK
    <3> QED  BY <3>1, <3>2
  <2>3. ASSUME NEW u \in Threads PROVE RunningOK(u)'
      BY <2>e, <2>t, <1>2 DEF RunningOK, Types, CallOK, CallsApart, NodeOK, MapApart
  <2>4. ASSUME NEW u \in Threads, NEW v \in Threads PROVE CallsApart(u, v)'
      BY <2>e, <2>t, <1>2 DEF CallsApart, Types, CallOK, NodeOK, MapApart
  <2>5. ASSUME NEW m \in Nodes PROVE NodeOK(m)'
      BY <2>e, <2>t, <1>2 DEF NodeOK, Types, CallOK, CallsApart, MapApart
  <2>6. ASSUME NEW m \in Nodes, NEW q \in Nodes PROVE MapApart(m, q)'
      BY <2>e, <2>t, <1>2 DEF MapApart
  <2>7. ASSUME NEW d \in Contexts PROVE ContentOK(d)'
      BY <2>e, <2>t, <1>2 DEF ContentOK
  <2>8. ASSUME NEW d \in Contexts, NEW e \in Contexts PROVE ContentApart(d, e)'
      BY <2>e, <2>t, <1>2 DEF ContentApart
  <2>9. CallbackReady'
      BY <2>e, <2>t, <1>2 DEF CallbackReady, Types, CallOK, CallsApart, NodeOK
  <2>10. AllOwned'
      BY <2>e, <2>t, <1>2 DEF AllOwned, Types, ObjectsOf, CallOK, NodeOK, MapApart, ContentOK,
         ContentApart
  <2> QED  BY <2>1, <2>2, <2>3, <2>4, <2>5, <2>6, <2>7, <2>8, <2>9, <2>10
<1> QED  BY <1>1, <1>2

LEMMA AddMethodKeeps ==
    ASSUME Given, NodesInv, NEW t \in Threads, NEW n \in Nodes,
           NEW o \in Objects, NEW c \in Contexts,
           AddMethod(t, n, o, c)
    PROVE  NodesInv'
<1> USE DEF Given, NodesInv, Is
<1>1. CASE class[n] # "absent"
  <2>e. /\ call[t].at = "idle" /\ call[t].node = None
        /\ \A u \in Threads : call[u].node # n /\ running[u].node # n
        /\ c \notin used /\ o \notin used
        /\ \A x : x \in used' <=> x \in used \/ x = c \/ x = o
        /\ content'[c]["method"] = o
        /\ \A d \in Contexts, j \in Kinds : d # c \/ j # "method" => content'[d][j] = content[d][j]
        /\ \A x : x \in freed' <=> x \in freed \/ x = c \/ x = o
        /\ UNCHANGED <<class, pointer, native, map, call, running>>
      BY <1>1 DEF AddMethod, NewContext, MayConfigure, Configured, Runs, TypeOK, Kinds, Idle
  <2>1. TypeOK'
      BY <1>1 DEF AddMethod, NewContext, MayConfigure, Configured, Runs, TypeOK, Kinds, Idle,
         NotRunning, CallOK, NodeOK, ContentOK
  <2>t. Types /\ Types'
      BY <2>1, TypesOf, PTL
  <2>2. ASSUME NEW u \in Threads PROVE CallOK(u)'
      BY <2>e, <2>t, <1>1 DEF CallOK, Types, CallsApart, NodeOK, MapApart, ContentOK
  <2>3. ASSUME NEW u \in Threads PROVE RunningOK(u)'
      BY <2>e, <2>t, <1>1 DEF RunningOK, Types, CallOK, CallsApart, NodeOK, MapApart
  <2>4. ASSUME NEW u \in Threads, NEW v \in Threads PROVE CallsApart(u, v)'
      BY <2>e, <2>t, <1>1 DEF CallsApart
  <2>5. ASSUME NEW m \in Nodes PROVE NodeOK(m)'
      BY <2>e, <2>t, <1>1 DEF NodeOK, Types, CallOK, CallsApart, MapApart
  <2>6. ASSUME NEW m \in Nodes, NEW q \in Nodes PROVE MapApart(m, q)'
      BY <2>e, <2>t, <1>1 DEF MapApart
  <2>7. ASSUME NEW d \in Contexts PROVE ContentOK(d)'
      BY <2>e, <2>t, <1>1 DEF ContentOK, Types, CallOK, NodeOK, ContentApart
  <2>8. ASSUME NEW d \in Contexts, NEW e \in Contexts PROVE ContentApart(d, e)'
      BY <2>e, <2>t, <1>1 DEF ContentApart, Types, CallOK, ContentOK
  <2>9. CallbackReady'
      BY <2>e, <2>t, <1>1 DEF CallbackReady, Types, CallOK, CallsApart, NodeOK
  <2>10. AllOwned'
      BY <2>e, <2>t, <1>1 DEF AllOwned, Types, ObjectsOf, CallOK, NodeOK, MapApart, ContentOK,
         ContentApart
  <2> QED  BY <2>1, <2>2, <2>3, <2>4, <2>5, <2>6, <2>7, <2>8, <2>9, <2>10
<1>2. CASE class[n] = "absent"
  <2>e. /\ call[t].at = "idle" /\ call[t].node = None
        /\ \A u \in Threads : call[u].node # n /\ running[u].node # n
        /\ c \notin used /\ o \notin used
        /\ \A x : x \in used' <=> x \in used \/ x = c \/ x = o
        /\ content'[c]["method"] = o
        /\ \A d \in Contexts, j \in Kinds : d # c \/ j # "method" => content'[d][j] = content[d][j]
        /\ class'[n] = "method"
        /\ \A m \in Nodes : m # n => class'[m] = class[m]
        /\ pointer'[n] = c
        /\ \A m \in Nodes : m # n => pointer'[m] = pointer[m]
        /\ native'[n] = {"method"}
        /\ \A m \in Nodes : m # n => native'[m] = native[m]
        /\ \A u \in Threads : u # t => call'[u] = call[u]
        /\ Is(call'[t], "insert", n, c, "method")
        /\ UNCHANGED <<map, freed, running>>
      BY <1>2 DEF AddMethod, NewContext, MayConfigure, Configured, Runs, TypeOK, Kinds, Idle
  <2>1. TypeOK'
    <3>1. call' \in [Threads -> Calls]
      BY <2>e, <1>2 DEF AddMethod, TypeOK, Calls, NewContext, Kinds
    <3>2. native' \in [Nodes -> SUBSET Kinds]
      BY <2>e, <1>2 DEF AddMethod, TypeOK, Calls, NewContext, Kinds
    <3>3. content' \in [Contexts -> [Kinds -> Objects \cup {None}]]
      BY DEF AddMethod, TypeOK, NewContext
    <3>4. class' \in [Nodes -> {"absent", "object", "variable", "method"}]
      <4>1. class' = [class EXCEPT ![n] = "method"]
        BY <1>2 DEF AddMethod
      <4> QED  BY <4>1 DEF TypeOK
    <3>5. pointer' \in [Nodes -> Contexts \cup {None}]
      BY <2>e, <1>2 DEF AddMethod, TypeOK, Calls, NewContext
    <3>6. \A m \in Nodes : class'[m] = "absent" => pointer'[m] = None
      BY <2>e, <1>2 DEF AddMethod, TypeOK, Calls, NewContext
    <3> QED  BY <3>1, <3>2, <3>3, <3>4, <3>5, <3>6, <1>2 DEF AddMethod, TypeOK, Calls, NewContext
  <2>t. Types /\ Types'
      BY <2>1, TypesOf, PTL
  <2>2. ASSUME NEW u \in Threads PROVE CallOK(u)'
    <3>1. CASE u = t
      BY <3>1, <2>e, <2>t, <1>2 DEF CallOK, Types, CallsApart, NodeOK, MapApart, ContentOK
    <3>2. CASE u # t /\ call[u].at = "idle"
      BY <3>2, <2>e, <2>t, <1>2 DEF CallOK
    <3>3. CASE u # t /\ call[u].at # "idle"
      <4>1. call'[u] = call[u] /\ call[u].ctx \in used /\ call[u].kind \in Kinds
            /\ call[u].ctx \in Contexts /\ call[u].node # n
        BY <3>3, <2>e, <2>t, <1>2 DEF CallOK
      <4>2. content'[call[u].ctx][call[u].kind] # None
        BY <3>3, <4>1, <2>e, <2>t, <1>2 DEF CallOK
      <4>3. call[u].ctx \in used' /\ call[u].ctx \notin freed'
        BY <3>3, <4>1, <2>e, <2>t, <1>2 DEF CallOK, Types
      <4>4. \A m \in Nodes : call[u].at \in {"methodContext", "insert"} => map'[m] # call[u].ctx
        BY <3>3, <4>1, <2>e, <2>t, <1>2 DEF CallOK
      <4>5. call[u].at \in {"setContext", "setFunctions"} => map'[call[u].node] = call[u].ctx
        BY <3>3, <4>1, <2>e DEF CallOK
      <4>6. call[u].at \in {"methodContext", "insert"} =>
              call[u].kind = "method" /\ native'[call[u].node] \subseteq {"method"}
        BY <3>3, <4>1, <2>e DEF CallOK
      <4> QED  BY <3>3, <4>1, <4>2, <4>3, <4>4, <4>5, <4>6 DEF CallOK
    <3> QED  BY <3>1, <3>2, <3>3
  <2>3. ASSUME NEW u \in Threads PROVE RunningOK(u)'
      BY <2>e, <2>t, <1>2 DEF RunningOK, Types, CallOK, CallsApart, NodeOK, MapApart
  <2>4. ASSUME NEW u \in Threads, NEW v \in Threads PROVE CallsApart(u, v)'
      BY <2>e, <2>t, <1>2 DEF CallsApart, Types, CallOK, NodeOK, MapApart
  <2>5. ASSUME NEW m \in Nodes PROVE NodeOK(m)'
      BY <2>e, <2>t, <1>2 DEF NodeOK, Types, CallOK, CallsApart, MapApart
  <2>6. ASSUME NEW m \in Nodes, NEW q \in Nodes PROVE MapApart(m, q)'
      BY <2>e, <2>t, <1>2 DEF MapApart
  <2>7. ASSUME NEW d \in Contexts PROVE ContentOK(d)'
      BY <2>e, <2>t, <1>2 DEF ContentOK, Types, CallOK, NodeOK, ContentApart
  <2>8. ASSUME NEW d \in Contexts, NEW e \in Contexts PROVE ContentApart(d, e)'
      BY <2>e, <2>t, <1>2 DEF ContentApart, Types, CallOK, ContentOK
  <2>9. CallbackReady'
      BY <2>e, <2>t, <1>2 DEF CallbackReady, Types, CallOK, CallsApart, NodeOK
  <2>10. AllOwned'
      BY <2>e, <2>t, <1>2 DEF AllOwned, Types, ObjectsOf, CallOK, NodeOK, MapApart, ContentOK,
         ContentApart
  <2> QED  BY <2>1, <2>2, <2>3, <2>4, <2>5, <2>6, <2>7, <2>8, <2>9, <2>10
<1> QED  BY <1>1, <1>2

LEMMA InsertKeeps ==
    ASSUME Given, NodesInv, NEW t \in Threads,
           Insert(t)
    PROVE  NodesInv'
<1> USE DEF Given, NodesInv, Is
<1>1. CASE map[call[t].node] = None
  <2>e. /\ call[t].at = "insert" /\ call[t].node \in Nodes /\ call[t].ctx \in Contexts
        /\ \A u \in Threads : u # t => call'[u] = call[u]
        /\ Is(call'[t], "idle", None, None, "none")
        /\ map'[call[t].node] = call[t].ctx
        /\ \A m \in Nodes : m # call[t].node => map'[m] = map[m]
        /\ \A x : x \in freed' <=> x \in freed
        /\ UNCHANGED <<class, pointer, native, content, used, running>>
      BY <1>1 DEF Insert, Done, ObjectsOf, TypeOK, Kinds, Idle, CallOK
  <2>1. TypeOK'
      BY <1>1 DEF Insert, Done, ObjectsOf, TypeOK, Kinds, Idle, NotRunning, CallOK, NodeOK,
         ContentOK
  <2>t. Types /\ Types'
      BY <2>1, TypesOf, PTL
  <2>2. ASSUME NEW u \in Threads PROVE CallOK(u)'
    <3>1. CASE u = t
      BY <3>1, <2>e, <2>t, <1>1 DEF CallOK, Types, CallsApart, NodeOK, MapApart, ContentOK
    <3>2. CASE u # t /\ call[u].at = "idle"
      BY <3>2, <2>e DEF CallOK
    <3>3. CASE u # t /\ call[u].at # "idle"
      <4>1. /\ call[u].node \in Nodes /\ call[u].node # call[t].node
            /\ call[u].ctx \in Contexts /\ call[u].ctx # call[t].ctx /\ call'[u] = call[u]
        BY <3>3, <2>e, <2>t DEF CallOK, CallsApart, Types
      <4>2. map'[call[u].node] = map[call[u].node]
        BY <4>1, <2>e
      <4>3. call[u].ctx \notin freed'
        BY <3>3, <4>1, <2>e, <2>t DEF CallOK, MapApart, Types
      <4>4. ASSUME NEW n \in Nodes, call[u].at \in {"methodContext", "insert"}
            PROVE  map'[n] # call[u].ctx
        BY <3>3, <4>1, <4>4, <2>e DEF CallOK
      <4> QED  BY <3>3, <4>1, <4>2, <4>3, <4>4, <2>e DEF CallOK
    <3> QED  BY <3>1, <3>2, <3>3
  <2>3. ASSUME NEW u \in Threads PROVE RunningOK(u)'
      BY <2>e, <2>t, <1>1 DEF RunningOK, Types, CallOK, CallsApart, NodeOK, MapApart
  <2>4. ASSUME NEW u \in Threads, NEW v \in Threads PROVE CallsApart(u, v)'
      BY <2>e, <2>t, <1>1 DEF CallsApart, Types, CallOK, NodeOK, MapApart
  <2>5. ASSUME NEW m \in Nodes PROVE NodeOK(m)'
      BY <2>e, <2>t, <1>1 DEF NodeOK, Types, CallOK, CallsApart, MapApart
  <2>6. ASSUME NEW m \in Nodes, NEW q \in Nodes PROVE MapApart(m, q)'
      BY <2>e, <2>t, <1>1 DEF MapApart, Types, CallOK, NodeOK
  <2>7. ASSUME NEW d \in Contexts PROVE ContentOK(d)'
      BY <2>e, <2>t, <1>1 DEF ContentOK, Types, CallOK, NodeOK, ContentApart
  <2>8. ASSUME NEW d \in Contexts, NEW e \in Contexts PROVE ContentApart(d, e)'
      BY <2>e, <2>t, <1>1 DEF ContentApart
  <2>9. CallbackReady'
      BY <2>e, <2>t, <1>1 DEF CallbackReady, Types, CallOK, CallsApart, NodeOK
  <2>10. AllOwned'
      BY <2>e, <2>t, <1>1 DEF AllOwned, Types, ObjectsOf, CallOK, NodeOK, MapApart, ContentOK,
         ContentApart
  <2> QED  BY <2>1, <2>2, <2>3, <2>4, <2>5, <2>6, <2>7, <2>8, <2>9, <2>10
<1>2. CASE map[call[t].node] # None
  <2>e. /\ call[t].at = "insert" /\ call[t].node \in Nodes /\ call[t].ctx \in Contexts
        /\ \A u \in Threads : u # t => call'[u] = call[u]
        /\ Is(call'[t], "idle", None, None, "none")
        /\ map'[call[t].node] = call[t].ctx
        /\ \A m \in Nodes : m # call[t].node => map'[m] = map[m]
        /\ \A x : x \in freed' <=>
               x \in freed \/ x = map[call[t].node]
               \/ \E j \in Kinds : x = content[map[call[t].node]][j] /\ x # None
        /\ UNCHANGED <<class, pointer, native, content, used, running>>
      BY <1>2 DEF Insert, Done, ObjectsOf, TypeOK, Idle, CallOK
  <2>1. TypeOK'
    <3>1. call' \in [Threads -> Calls]
      BY DEF Insert, TypeOK, Calls, Done, Idle
    <3>2. map' \in [Nodes -> Contexts \cup {None}]
      BY <2>e DEF Insert, TypeOK
    <3>3. freed' \subseteq used'
      <4>1. map[call[t].node] \in used /\ map[call[t].node] \in Contexts
        BY <1>2, <2>e DEF NodeOK, TypeOK
      <4>2. \A j \in Kinds : content[map[call[t].node]][j] # None =>
                content[map[call[t].node]][j] \in used
        BY <4>1 DEF ContentOK
      <4>3. freed \subseteq used /\ used' = used
        BY <2>e DEF TypeOK
      <4> QED  BY <2>e, <4>1, <4>2, <4>3
    <3> QED  BY <3>1, <3>2, <3>3 DEF Insert, TypeOK, Calls
  <2>t. Types /\ Types'
      BY <2>1, TypesOf, PTL
  <2>2. ASSUME NEW u \in Threads PROVE CallOK(u)'
    <3>1. CASE u = t
      BY <3>1, <2>e, <2>t, <1>2 DEF CallOK, Types, CallsApart, NodeOK, MapApart, ContentOK
    <3>2. CASE u # t /\ call[u].at = "idle"
      BY <3>2, <2>e DEF CallOK
    <3>3. CASE u # t /\ call[u].at # "idle"
      <4>1. /\ call[u].node \in Nodes /\ call[u].node # call[t].node
            /\ call[u].ctx \in Contexts /\ call[u].ctx # call[t].ctx /\ call'[u] = call[u]
        BY <3>3, <2>e, <2>t DEF CallOK, CallsApart, Types
      <4>2. map'[call[u].node] = map[call[u].node]
        BY <4>1, <2>e
      <4>3. call[u].ctx \notin freed'
        <5>1. call[u].ctx \notin freed /\ call[u].ctx \notin Objects
          BY <3>3, <4>1 DEF CallOK
        <5>2. call[u].ctx # map[call[t].node]
          <6>1. CASE call[u].at \in {"setContext", "setFunctions"}
            BY <6>1, <4>1, <2>e, <1>2 DEF CallOK, MapApart
          <6>2. CASE call[u].at \in {"methodContext", "insert"}
            BY <6>2, <2>e DEF CallOK
          <6> QED  BY <6>1, <6>2, <3>3, <2>t DEF Types
        <5>3. \A j \in Kinds : content[map[call[t].node]][j] \in Objects \cup {None}
          BY <1>2, <2>e, <2>t DEF Types
        <5> QED  BY <5>1, <5>2, <5>3, <2>e
      <4>4. ASSUME NEW n \in Nodes, call[u].at \in {"methodContext", "insert"}
            PROVE  map'[n] # call[u].ctx
        BY <3>3, <4>1, <4>4, <2>e DEF CallOK
      <4> QED  BY <3>3, <4>1, <4>2, <4>3, <4>4, <2>e DEF CallOK
    <3> QED  BY <3>1, <3>2, <3>3
  <2>3. ASSUME NEW u \in Threads PROVE RunningOK(u)'
      BY <2>e, <2>t, <1>2 DEF RunningOK, Types, CallOK, CallsApart, NodeOK, MapApart
  <2>4. ASSUME NEW u \in Threads, NEW v \in Threads PROVE CallsApart(u, v)'
      BY <2>e, <2>t, <1>2 DEF CallsApart, Types, CallOK, NodeOK, MapApart
  <2>5. ASSUME NEW m \in Nodes PROVE NodeOK(m)'
      BY <2>e, <2>t, <1>2 DEF NodeOK, Types, CallOK, CallsApart, MapApart
  <2>6. ASSUME NEW m \in Nodes, NEW q \in Nodes PROVE MapApart(m, q)'
      BY <2>e, <2>t, <1>2 DEF MapApart, Types, CallOK, NodeOK
  <2>7. ASSUME NEW d \in Contexts PROVE ContentOK(d)'
      BY <2>e, <2>t, <1>2 DEF ContentOK, Types, CallOK, NodeOK, ContentApart
  <2>8. ASSUME NEW d \in Contexts, NEW e \in Contexts PROVE ContentApart(d, e)'
      BY <2>e, <2>t, <1>2 DEF ContentApart
  <2>9. CallbackReady'
      BY <2>e, <2>t, <1>2 DEF CallbackReady, Types, CallOK, CallsApart, NodeOK
  <2>10. AllOwned'
    <3>1. ASSUME NEW d \in (used' \cap Contexts) \ freed'
          PROVE  (\E m \in Nodes : map'[m] = d) \/ \E u \in Threads : call'[u].ctx = d
      <4>1. d \in (used \cap Contexts) \ freed /\ d # map[call[t].node]
        BY <2>e
      <4>2. CASE \E m \in Nodes : map[m] = d
        BY <2>e, <4>1, <4>2
      <4>3. CASE \E u \in Threads : call[u].ctx = d
        BY <2>e, <4>3
      <4> QED  BY <4>1, <4>2, <4>3 DEF AllOwned
    <3>2. ASSUME NEW o \in (used' \cap Objects) \ freed'
          PROVE  \E d \in Contexts \ freed' : o \in ObjectsOf(d)'
      <4>1. PICK d \in Contexts \ freed : o \in ObjectsOf(d)
        BY <2>e DEF AllOwned
      <4>2. d # map[call[t].node]
        BY <2>e, <4>1 DEF ObjectsOf
      <4>3. \A j \in Kinds : d # content[map[call[t].node]][j] \/ d = None
        BY <1>2, <2>e, <2>t, <4>1 DEF Types
      <4>4. d \notin freed' /\ content' = content
        BY <2>e, <4>1, <4>2, <4>3
      <4> QED  BY <4>1, <4>4 DEF ObjectsOf
    <3> QED  BY <3>1, <3>2 DEF AllOwned
  <2> QED  BY <2>1, <2>2, <2>3, <2>4, <2>5, <2>6, <2>7, <2>8, <2>9, <2>10
<1> QED  BY <1>1, <1>2

LEMMA AddNodeKeeps ==
    ASSUME Given, NodesInv, NEW n \in Nodes, NEW k \in {"object", "variable", "method"},
           AddNode(n, k)
    PROVE  NodesInv'
<1> USE DEF Given, NodesInv, Is
<1>1. TypeOK'
    BY DEF AddNode, TypeOK, Kinds, Idle, NotRunning, CallOK, NodeOK, ContentOK
<1>t. Types /\ Types'
    BY <1>1, TypesOf, PTL
<1>2. ASSUME NEW u \in Threads PROVE CallOK(u)'
    BY <1>t DEF AddNode, CallOK
<1>3. ASSUME NEW u \in Threads PROVE RunningOK(u)'
    BY <1>t DEF AddNode, RunningOK
<1>4. ASSUME NEW u \in Threads, NEW v \in Threads PROVE CallsApart(u, v)'
    BY <1>t DEF AddNode, CallsApart
<1>5. ASSUME NEW m \in Nodes PROVE NodeOK(m)'
  <2>1. CASE m = n
    BY <2>1, <1>t DEF AddNode, Configured, NodeOK, Types, TypeOK
  <2>2. CASE m # n
    BY <2>2, <1>t DEF AddNode, Configured, NodeOK, Types, TypeOK
  <2> QED  BY <2>1, <2>2
<1>6. ASSUME NEW m \in Nodes, NEW q \in Nodes PROVE MapApart(m, q)'
    BY <1>t DEF AddNode, MapApart
<1>7. ASSUME NEW d \in Contexts PROVE ContentOK(d)'
    BY <1>t DEF AddNode, ContentOK
<1>8. ASSUME NEW d \in Contexts, NEW e \in Contexts PROVE ContentApart(d, e)'
    BY <1>t DEF AddNode, ContentApart
<1>9. CallbackReady'
    BY <1>t DEF AddNode, CallbackReady
<1>10. AllOwned'
    BY <1>t DEF AddNode, AllOwned, ObjectsOf
<1> QED  BY <1>1, <1>2, <1>3, <1>4, <1>5, <1>6, <1>7, <1>8, <1>9, <1>10

LEMMA DeleteNodeKeeps ==
    ASSUME Given, NodesInv, NEW n \in Nodes,
           DeleteNode(n)
    PROVE  NodesInv'
<1> USE DEF Given, NodesInv, Is
<1>1. TypeOK'
    BY DEF DeleteNode, TypeOK, Kinds, Idle, NotRunning, CallOK, NodeOK, ContentOK
<1>t. Types /\ Types'
    BY <1>1, TypesOf, PTL
<1>2. ASSUME NEW u \in Threads PROVE CallOK(u)'
    BY <1>t DEF DeleteNode, CallOK, Types, CallsApart, NodeOK, MapApart, ContentOK
<1>3. ASSUME NEW u \in Threads PROVE RunningOK(u)'
    BY <1>t DEF DeleteNode, RunningOK
<1>4. ASSUME NEW u \in Threads, NEW v \in Threads PROVE CallsApart(u, v)'
    BY <1>t DEF DeleteNode, CallsApart
<1>5. ASSUME NEW m \in Nodes PROVE NodeOK(m)'
  <2>1. CASE m = n
    BY <2>1, <1>t DEF DeleteNode, NodeOK, Types, TypeOK
  <2>2. CASE m # n
    BY <2>2, <1>t DEF DeleteNode, NodeOK, Types, TypeOK
  <2> QED  BY <2>1, <2>2
<1>6. ASSUME NEW m \in Nodes, NEW q \in Nodes PROVE MapApart(m, q)'
    BY <1>t DEF DeleteNode, MapApart
<1>7. ASSUME NEW d \in Contexts PROVE ContentOK(d)'
    BY <1>t DEF DeleteNode, ContentOK
<1>8. ASSUME NEW d \in Contexts, NEW e \in Contexts PROVE ContentApart(d, e)'
    BY <1>t DEF DeleteNode, ContentApart
<1>9. CallbackReady'
  <2>1. ASSUME NEW m \in Nodes, NEW k \in native'[m]
        PROVE  m # n /\ k \in native[m] /\ pointer'[m] = pointer[m]
    BY <2>1 DEF DeleteNode, TypeOK
  <2> QED  BY <2>1 DEF DeleteNode, CallbackReady
<1>10. AllOwned'
    BY <1>t DEF DeleteNode, AllOwned, ObjectsOf
<1> QED  BY <1>1, <1>2, <1>3, <1>4, <1>5, <1>6, <1>7, <1>8, <1>9, <1>10

LEMMA InvokeKeeps ==
    ASSUME Given, NodesInv, NEW t \in Threads, NEW n \in Nodes, NEW k \in Kinds,
           Invoke(t, n, k)
    PROVE  NodesInv'
<1> USE DEF Given, NodesInv, Is
<1>1. TypeOK'
    BY DEF Invoke, TypeOK, Kinds, Idle, NotRunning, CallOK, NodeOK, ContentOK
<1>t. Types /\ Types'
    BY <1>1, TypesOf, PTL
<1>2. ASSUME NEW u \in Threads PROVE CallOK(u)'
    BY <1>t DEF Invoke, CallOK
<1>3. ASSUME NEW u \in Threads PROVE RunningOK(u)'
  <2>e. /\ running[t].node = None /\ call[t].node = None
        /\ k \in native[n] /\ pointer[n] \in Contexts /\ content[pointer[n]][k] # None
        /\ k = "method" => \A v \in Threads : call[v].node = n => call[v].at # "methodContext"
        /\ running'[t].ctx = pointer[n] /\ running'[t].obj = content[pointer[n]][k]
        /\ running'[t].node = n
        /\ \A v \in Threads : v # t => running'[v] = running[v]
        /\ UNCHANGED <<map, content, call>>
    BY <1>t DEF Invoke, NotRunning, Idle, TypeOK
  <2>1. CASE u # t
    BY <2>1, <2>e DEF RunningOK
  <2>2. CASE u = t
    <3>1. \/ pointer[n] = map[n]
          \/ \E v \in Threads : call[v].node = n /\ call[v].at = "insert" /\ pointer[n] = call[v].ctx
      BY <2>e DEF NodeOK
    <3>2. ASSUME NEW v \in Threads, call[v].node = n
          PROVE  /\ call[v].at # "methodContext"
                 /\ call[v].at = "insert" => pointer[n] = call[v].ctx
      <4>1. call[v].kind = "method" /\ native[n] \subseteq {"method"} =>
                call[v].at # "methodContext"
        BY <3>2, <2>e
      <4>2. class[n] # "absent"
        BY <2>e DEF NodeOK
      <4>3. call[v].at = "insert" => pointer[n] = call[v].ctx
        BY <3>2, <4>2 DEF NodeOK
      <4> QED  BY <3>2, <4>1, <4>3 DEF CallOK
    <3> QED  BY <2>2, <2>e, <1>t, <3>1, <3>2 DEF RunningOK, Types
  <2> QED  BY <2>1, <2>2
<1>4. ASSUME NEW u \in Threads, NEW v \in Threads PROVE CallsApart(u, v)'
    BY <1>t DEF Invoke, CallsApart
<1>5. ASSUME NEW m \in Nodes PROVE NodeOK(m)'
    BY <1>t DEF Invoke, NodeOK
<1>6. ASSUME NEW m \in Nodes, NEW q \in Nodes PROVE MapApart(m, q)'
    BY <1>t DEF Invoke, MapApart
<1>7. ASSUME NEW d \in Contexts PROVE ContentOK(d)'
    BY <1>t DEF Invoke, ContentOK
<1>8. ASSUME NEW d \in Contexts, NEW e \in Contexts PROVE ContentApart(d, e)'
    BY <1>t DEF Invoke, ContentApart
<1>9. CallbackReady'
    BY <1>t DEF Invoke, CallbackReady
<1>10. AllOwned'
    BY <1>t DEF Invoke, AllOwned, ObjectsOf
<1> QED  BY <1>1, <1>2, <1>3, <1>4, <1>5, <1>6, <1>7, <1>8, <1>9, <1>10

LEMMA ReturnKeeps ==
    ASSUME Given, NodesInv, NEW t \in Threads,
           Return(t)
    PROVE  NodesInv'
<1> USE DEF Given, NodesInv, Is
<1>1. TypeOK'
    BY DEF Return, TypeOK, Kinds, Idle, NotRunning, CallOK, NodeOK, ContentOK
<1>t. Types /\ Types'
    BY <1>1, TypesOf, PTL
<1>2. ASSUME NEW u \in Threads PROVE CallOK(u)'
    BY <1>t DEF Return, CallOK
<1>3. ASSUME NEW u \in Threads PROVE RunningOK(u)'
  <2>1. CASE u = t
    BY <2>1, <1>t DEF Return, NotRunning, RunningOK, Types, TypeOK
  <2>2. CASE u # t
    BY <2>2, <1>t DEF Return, NotRunning, RunningOK, Types, TypeOK
  <2> QED  BY <2>1, <2>2
<1>4. ASSUME NEW u \in Threads, NEW v \in Threads PROVE CallsApart(u, v)'
    BY <1>t DEF Return, CallsApart
<1>5. ASSUME NEW m \in Nodes PROVE NodeOK(m)'
    BY <1>t DEF Return, NodeOK
<1>6. ASSUME NEW m \in Nodes, NEW q \in Nodes PROVE MapApart(m, q)'
    BY <1>t DEF Return, MapApart
<1>7. ASSUME NEW d \in Contexts PROVE ContentOK(d)'
    BY <1>t DEF Return, ContentOK
<1>8. ASSUME NEW d \in Contexts, NEW e \in Contexts PROVE ContentApart(d, e)'
    BY <1>t DEF Return, ContentApart
<1>9. CallbackReady'
    BY <1>t DEF Return, CallbackReady
<1>10. AllOwned'
    BY <1>t DEF Return, AllOwned, ObjectsOf
<1> QED  BY <1>1, <1>2, <1>3, <1>4, <1>5, <1>6, <1>7, <1>8, <1>9, <1>10

-----------------------------------------------------------------------------
\* The invariant holds under the three rules.
LEMMA NodesInvHolds ==
    ASSUME Rules = AllRules
    PROVE  Spec => []NodesInv
<1>0. Given
    BY GivenByRules
<1>1. Init => NodesInv
  <2> SUFFICES ASSUME Init PROVE NodesInv
    OBVIOUS
  <2> USE <1>0 DEF Given, Init
  <2>1. TypeOK
    BY DEF TypeOK, Idle, NotRunning, Kinds
  <2>2. \A t \in Threads : CallOK(t) /\ RunningOK(t)
    BY DEF CallOK, RunningOK, Idle, NotRunning
  <2>3. \A t, u \in Threads : CallsApart(t, u)
    BY DEF CallsApart, Idle
  <2>4. \A n, m \in Nodes : NodeOK(n) /\ MapApart(n, m)
    BY DEF NodeOK, MapApart, Idle
  <2>5. \A c, d \in Contexts : ContentOK(c) /\ ContentApart(c, d)
    BY DEF ContentOK, ContentApart
  <2>6. CallbackReady /\ AllOwned
    BY DEF CallbackReady, AllOwned
  <2> QED  BY <2>1, <2>2, <2>3, <2>4, <2>5, <2>6 DEF NodesInv
<1>2. NodesInv /\ [Next]_vars => NodesInv'
  <2> SUFFICES ASSUME NodesInv, [Next]_vars PROVE NodesInv'
    OBVIOUS
  <2>1. CASE Next
    BY <1>0, <2>1, SetKeeps, SetContextKeeps, SetFunctionsKeeps, SetMethodKeeps,
       MethodContextKeeps,
       AddMethodKeeps, InsertKeeps, AddNodeKeeps, DeleteNodeKeeps, InvokeKeeps, ReturnKeeps DEF Next
  <2>2. CASE UNCHANGED vars
    <3> USE <2>2 DEF vars, NodesInv
    <3>1. TypeOK'
      BY DEF TypeOK
    <3>2. \A t \in Threads : CallOK(t)'
      BY DEF CallOK
    <3>3. \A t \in Threads : RunningOK(t)'
      BY DEF RunningOK
    <3>4. \A t, u \in Threads : CallsApart(t, u)'
      BY DEF CallsApart
    <3>5. \A n \in Nodes : NodeOK(n)'
      BY DEF NodeOK
    <3>6. \A n, m \in Nodes : MapApart(n, m)'
      BY DEF MapApart
    <3>7. \A c \in Contexts : ContentOK(c)'
      BY DEF ContentOK
    <3>8. \A c, d \in Contexts : ContentApart(c, d)'
      BY DEF ContentApart
    <3>9. CallbackReady'
      BY DEF CallbackReady
    <3>10. AllOwned'
      BY DEF AllOwned, ObjectsOf
    <3> QED  BY <3>1, <3>2, <3>3, <3>4, <3>5, <3>6, <3>7, <3>8, <3>9, <3>10
  <2> QED  BY <2>1, <2>2
<1> QED  BY <1>1, <1>2, PTL DEF Spec

\* The C server never points to a destroyed NodeContext.
THEOREM NodePointersAliveCorrect ==
    ASSUME Rules = AllRules
    PROVE  Spec => []NodePointersAlive
<1>1. NodesInv => NodePointersAlive
  <2> SUFFICES ASSUME NodesInv, NEW n \in Nodes PROVE pointer[n] \notin freed
    BY DEF NodePointersAlive
  <2>1. None \notin freed
    BY NoneAssumption DEF NodesInv, TypeOK
  <2> QED  BY <2>1 DEF NodesInv, NodeOK, CallOK
<1> QED  BY <1>1, NodesInvHolds, PTL

\* A native function finds its context and the user's object in it.
THEOREM CallbackReadyCorrect ==
    ASSUME Rules = AllRules
    PROVE  Spec => []CallbackReady
<1>1. NodesInv => CallbackReady
    BY DEF NodesInv
<1> QED  BY <1>1, NodesInvHolds, PTL

\* No context and no user's object is destroyed while it runs.
THEOREM RunningAliveCorrect ==
    ASSUME Rules = AllRules
    PROVE  Spec => []RunningAlive
<1>1. NodesInv => RunningAlive
  <2> SUFFICES ASSUME NodesInv, NEW t \in Threads
               PROVE  running[t].ctx \notin freed /\ running[t].obj \notin freed
    BY DEF RunningAlive
  <2>1. None \notin freed /\ Types
    BY NoneAssumption, TypesOf DEF NodesInv, TypeOK
  <2>2. CASE running[t].node = None
    BY <2>1, <2>2 DEF NodesInv, RunningOK
  <2>3. CASE running[t].node # None
    <3>1. running[t].ctx \notin freed
      BY <2>1, <2>3 DEF NodesInv, RunningOK, NodeOK, CallOK, Types
    <3>2. running[t].obj \notin freed
      BY <2>1, <2>3, <3>1 DEF NodesInv, RunningOK, ContentOK, Types
    <3> QED  BY <3>1, <3>2
  <2> QED  BY <2>2, <2>3
<1> QED  BY <1>1, NodesInvHolds, PTL

\* Nothing leaks, and between calls the node's pointer is what the map has.
THEOREM BookkeepingCorrect ==
    ASSUME Rules = AllRules
    PROVE  Spec => []Bookkeeping
<1>1. NodesInv => PointsIntoMap
    BY DEF NodesInv, NodeOK, PointsIntoMap, Configured
<1>2. NodesInv => Bookkeeping
    BY <1>1 DEF NodesInv, Bookkeeping
<1> QED  BY <1>2, NodesInvHolds, PTL
==============================================================================
