-------------------------- MODULE ClientItems_proof --------------------------
(***************************************************************************)
(* Proofs about ClientItems, for any identifiers, contexts and bounds, of  *)
(* an application that makes no synchronous calls in notification          *)
(* callbacks (SyncInDataCallback = FALSE) and a Client that is destroyed   *)
(* by its destructor (MoveAssigned = FALSE).                               *)
(*                                                                         *)
(* The argument: what the C client knows by an identifier is either        *)
(* offered, by a frame on top of the stack that is about to store it, or   *)
(* stored in the map and not stale.  So what an erasure destroys is        *)
(* nothing that the C client or a running callback still works with.       *)
(***************************************************************************)
EXTENDS ClientItems, SequenceTheorems, TLAPS

Offering == {"create", "created", "answered"}
Creating == {"create", "created"}
Answered == {"created", "answered"}

\* How calls nest: nothing is called in a data callback, only data callbacks run
\* before an answer is stored, and a Client that closes is called by nothing.
Nesting ==
    \A k \in DOMAIN stack :
        /\ stack[k].at = "data" => k = 1
        /\ stack[k].at \in Answered => k = 1 \/ (k = 2 /\ stack[1].at = "data")
        /\ stack[k].at = "close" => k = Len(stack) /\ stack[k].ids = Ids

\* A context that is not in a map yet has one place where it is kept.
OffersOwned ==
    /\ \A k \in DOMAIN stack : \A c \in stack[k].ctxs :
        /\ stack[k].at \in Creating => owner[c] = "caller"
        /\ stack[k].at = "answered" => owner[c] = "request"
    /\ \A q \in requests : \A c \in q.ctxs : owner[c] = "request"
OffersApart ==
    /\ \A k, l \in DOMAIN stack :
        stack[k].at \in Offering /\ stack[l].at \in Offering /\ k # l =>
            stack[k].ctxs \cap stack[l].ctxs = {}
    /\ \A k \in DOMAIN stack : \A q \in requests :
        stack[k].at = "answered" => stack[k].ctxs \cap q.ctxs = {}
    /\ \A p, q \in requests : p # q => p.ctxs \cap q.ctxs = {}

\* The identifiers of an answer that is not stored yet are free in the map.
FreeInMap(i) == map[i] = None \/ map[i] \in stale
Answer(f) ==
    /\ f.res \subseteq f.ids \X f.ctxs
    /\ \A p, q \in f.res : p[1] = q[1] \/ p[2] = q[2] => p = q
    /\ \A p \in f.res : native[p[1]] = p[2] /\ FreeInMap(p[1])
AnswersFit == \A k \in DOMAIN stack : stack[k].at \in Answered => Answer(stack[k])

Registering(i) ==
    \E k \in DOMAIN stack : stack[k].at \in Answered /\ <<i, native[i]>> \in stack[k].res
NativeFits ==
    /\ \A i \in Ids : native[i] # None =>
        Registering(i) \/ (map[i] = native[i] /\ native[i] \notin stale)
    /\ \A i, j \in Ids : native[i] # None /\ native[i] = native[j] => i = j

MapOwns ==
    /\ \A i \in Ids : map[i] # None => owner[map[i]] = "map" /\ map[i] \in inserted
    /\ \A c \in Contexts : owner[c] = "map" => \E i \in Ids : map[i] = c
    /\ \A i, j \in Ids : map[i] # None /\ map[i] = map[j] => i = j
    /\ \A c \in inserted \cup stale : owner[c] \in {"map", "freed"}

\* A delete callback runs for a context that is stored, forgotten and not marked.
Deleted(f) ==
    \E i \in Ids : /\ f.ids = {i} /\ f.ctxs = {map[i]}
                   /\ map[i] # None /\ map[i] \notin stale
                   /\ \A j \in Ids : native[j] # map[i]
DeletesFit ==
    /\ \A k \in DOMAIN stack : stack[k].at = "delete" => Deleted(stack[k])
    /\ \A k, l \in DOMAIN stack :
        stack[k].at = "delete" /\ stack[l].at = "delete" /\ k # l => stack[k].ctxs # stack[l].ctxs

DataAlive == \A k \in DOMAIN stack : stack[k].at = "data" => \A c \in stack[k].ctxs : Alive(c)

Core ==
    /\ OffersOwned /\ OffersApart /\ OffersPending /\ AnswersFit /\ NativeFits /\ MapOwns
    /\ DeletesFit /\ StoredOrStale /\ DeleteCallbackRan
ItemsInv == TypeOK /\ Nesting /\ DataAlive /\ Core

-----------------------------------------------------------------------------
(***************************************************************************)
(* The stack as a sequence.                                                *)
(***************************************************************************)
LEMMA PushFrame ==
  ASSUME NEW s \in Seq(Frames), NEW f \in Frames
  PROVE  /\ <<f>> \o s \in Seq(Frames)
         /\ Len(<<f>> \o s) = Len(s) + 1
         /\ (<<f>> \o s)[1] = f
         /\ \A k \in 2 .. Len(s) + 1 : (<<f>> \o s)[k] = s[k - 1]
  OBVIOUS

LEMMA PopFrame ==
  ASSUME NEW s \in Seq(Frames), s # <<>>
  PROVE  /\ Tail(s) \in Seq(Frames)
         /\ Len(Tail(s)) = Len(s) - 1
         /\ \A k \in 1 .. Len(s) - 1 : Tail(s)[k] = s[k + 1]
         /\ Len(s) \in Nat /\ Len(s) > 0
         /\ Head(s) = s[1] /\ Head(s) \in Frames
  OBVIOUS

LEMMA StackFrames == TypeOK =>
    /\ DOMAIN stack = 1 .. Len(stack) /\ Len(stack) \in Nat
    /\ \A k \in DOMAIN stack : stack[k] \in Frames
    /\ stack # <<>> => 1 \in DOMAIN stack /\ Head(stack) = stack[1] /\ Head(stack) \in Frames
<1> SUFFICES ASSUME stack \in Seq(Frames)
             PROVE /\ DOMAIN stack = 1 .. Len(stack) /\ Len(stack) \in Nat
                   /\ \A k \in DOMAIN stack : stack[k] \in Frames
                   /\ stack # <<>> => /\ 1 \in DOMAIN stack /\ Head(stack) = stack[1]
                                      /\ Head(stack) \in Frames
  BY DEF TypeOK
<1> QED
  OBVIOUS

\* What a push, a pop and an exchange of the innermost frame leave of the others.
Pushed(f) ==
    /\ f \in Frames
    /\ Len(stack') = Len(stack) + 1
    /\ stack'[1] = f
    /\ \A k \in 2 .. Len(stack) + 1 : stack'[k] = stack[k - 1]
Popped ==
    /\ stack # <<>>
    /\ Len(stack') = Len(stack) - 1
    /\ \A k \in 1 .. Len(stack) - 1 : stack'[k] = stack[k + 1]
Replaced(f) ==
    /\ stack # <<>> /\ f \in Frames
    /\ Len(stack') = Len(stack)
    /\ stack'[1] = f
    /\ \A k \in 2 .. Len(stack) : stack'[k] = stack[k]

LEMMA PushIs ==
  ASSUME TypeOK, NEW f \in Frames, Push(f)
  PROVE  stack' \in Seq(Frames) /\ Pushed(f)
  BY PushFrame DEF TypeOK, Push, Pushed

LEMMA PopIs ==
  ASSUME TypeOK, stack # <<>>, Pop
  PROVE  stack' \in Seq(Frames) /\ Popped
  BY PopFrame DEF TypeOK, Pop, Popped

LEMMA ReplaceIs ==
  ASSUME TypeOK, stack # <<>>, NEW f \in Frames, Replace(f)
  PROVE  stack' \in Seq(Frames) /\ Replaced(f)
<1>1. stack \in Seq(Frames)
  BY DEF TypeOK
<1> DEFINE s == Tail(stack)
<1>2. /\ s \in Seq(Frames) /\ Len(s) = Len(stack) - 1 /\ Len(stack) \in Nat
      /\ \A k \in 1 .. Len(stack) - 1 : s[k] = stack[k + 1]
  BY <1>1, PopFrame
<1>3. stack' = <<f>> \o s
  BY DEF Replace
<1> HIDE DEF s
<1>4. /\ stack' \in Seq(Frames) /\ Len(stack') = Len(stack) /\ stack'[1] = f
      /\ \A k \in 2 .. Len(s) + 1 : stack'[k] = s[k - 1]
  BY <1>2, <1>3, PushFrame
<1>5. \A k \in 2 .. Len(stack) : stack'[k] = stack[k]
  BY <1>2, <1>4
<1> QED
  BY <1>4, <1>5 DEF Replaced

LEMMA FrameIs ==
  ASSUME NEW at \in Callbacks \cup Waiting \cup {"created", "answered", "purge", "close"},
         NEW cs \in SUBSET Contexts, NEW is \in SUBSET Ids
  PROVE  /\ Frame(at, cs, is) \in Frames
         /\ Frame(at, cs, is).at = at /\ Frame(at, cs, is).ctxs = cs
         /\ Frame(at, cs, is).ids = is /\ Frame(at, cs, is).res = {}
  BY DEF Frame, Frames

LEMMA FrameFields ==
  ASSUME NEW f \in Frames
  PROVE  /\ f.at \in Callbacks \cup Waiting \cup {"created", "answered", "purge", "close"}
         /\ f.ctxs \in SUBSET Contexts /\ f.ids \in SUBSET Ids
         /\ f.res \in SUBSET (Ids \X Contexts)
  BY DEF Frames

LEMMA Top ==
  ASSUME TypeOK, NEW ls, At(ls)
  PROVE  /\ stack # <<>> /\ 1 \in DOMAIN stack /\ Len(stack) > 0
         /\ Head(stack) = stack[1] /\ stack[1] \in Frames /\ stack[1].at \in ls
  BY StackFrames DEF At

LEMMA Targeted ==
  ASSUME NEW is \in Targets
  PROVE  is \in SUBSET Ids
  BY DEF Targets, Ids

LEMMA ClosureIds == \A i \in Ids : Closure(i) \in SUBSET Ids
  BY DEF Closure, Ids

-----------------------------------------------------------------------------
(***************************************************************************)
(* What each operation does to the stack.                                  *)
(***************************************************************************)
LEMMA CreatePushes ==
  ASSUME TypeOK, NEW cs \in SUBSET Contexts, NEW is \in Targets, Create(cs, is)
  PROVE  stack' \in Seq(Frames) /\ Pushed(Frame("create", cs, is))
  BY PushIs, FrameIs, Targeted DEF Create, Waiting

LEMMA DeletePushes ==
  ASSUME TypeOK, NEW i \in Ids, Delete(i)
  PROVE  stack' \in Seq(Frames) /\ Pushed(Frame("remove", {}, {i}))
<1>1. {i} \in SUBSET Ids /\ {} \in SUBSET Contexts
  OBVIOUS
<1>2. Frame("remove", {}, {i}) \in Frames
  BY <1>1, FrameIs DEF Waiting
<1> QED
  BY <1>2, PushIs DEF Delete

LEMMA RunIteratePushes ==
  ASSUME TypeOK, RunIterate
  PROVE  stack' \in Seq(Frames) /\ Pushed(Frame("loop", {}, {}))
  BY PushIs, FrameIs DEF RunIterate, Waiting

LEMMA NotifyPushes ==
  ASSUME TypeOK, NEW i \in Ids, Notify(i)
  PROVE  /\ native[i] \in Contexts
         /\ stack' \in Seq(Frames) /\ Pushed(Frame("data", {native[i]}, {i}))
<1>1. native[i] \in Contexts
  BY DEF Notify, TypeOK
<1>2. {i} \in SUBSET Ids /\ {native[i]} \in SUBSET Contexts
  BY <1>1
<1>3. Frame("data", {native[i]}, {i}) \in Frames
  BY <1>2, FrameIs DEF Callbacks
<1> QED
  BY <1>1, <1>3, PushIs DEF Notify

LEMMA SessionLostPushes ==
  ASSUME TypeOK, SessionLost
  PROVE  stack' \in Seq(Frames) /\ Pushed(Frame("purge", {}, Ids))
  BY PushIs, FrameIs DEF SessionLost

LEMMA ClosePushes ==
  ASSUME TypeOK, Close
  PROVE  stack' \in Seq(Frames) /\ Pushed(Frame("close", {}, Ids))
  BY PushIs, FrameIs DEF Close

LEMMA PurgePushes ==
  ASSUME TypeOK, NEW i \in Ids, Purge(i)
  PROVE  /\ native[i] \in Contexts
         /\ stack' \in Seq(Frames) /\ Pushed(Frame("delete", {native[i]}, {i}))
<1>1. native[i] \in Contexts
  BY DEF Purge, DeleteNext, Doomed, TypeOK
<1>2. {i} \in SUBSET Ids /\ {native[i]} \in SUBSET Contexts
  BY <1>1
<1>3. Frame("delete", {native[i]}, {i}) \in Frames
  BY <1>2, FrameIs DEF Callbacks
<1> QED
  BY <1>1, <1>3, PushIs DEF Purge, DeleteNext

LEMMA DeleteAsyncAnswerPushes ==
  ASSUME TypeOK, NEW q \in requests, DeleteAsyncAnswer(q)
  PROVE  /\ stack' \in Seq(Frames)
         /\ \/ UNCHANGED stack
            \/ \E i \in Ids : ~At({"close"}) /\ Pushed(Frame("purge", {}, Closure(i)))
<1>1. q.ids \in SUBSET Ids
  BY DEF TypeOK
<1>2. CASE UNCHANGED stack
  BY <1>2 DEF TypeOK
<1>3. ASSUME NEW i \in q.ids, ~At({"close"}), Push(Frame("purge", {}, Closure(i)))
      PROVE  stack' \in Seq(Frames) /\ Pushed(Frame("purge", {}, Closure(i)))
  BY <1>1, <1>3, PushIs, FrameIs, ClosureIds
<1> QED
  BY <1>1, <1>2, <1>3 DEF DeleteAsyncAnswer

LEMMA CreateAsyncAnswerPushes ==
  ASSUME TypeOK, NEW q \in requests, CreateAsyncAnswer(q)
  PROVE  /\ stack' \in Seq(Frames)
         /\ \E r \in SUBSET (q.ids \X q.ctxs), f \in Frames :
              /\ At({"close"}) => r = {}
              /\ ~At({"close"}) => r \in Answers(q.ctxs, q.ids)
              /\ native' = Updated(native, r)
              /\ f.at = "answered" /\ f.ctxs = q.ctxs /\ f.ids = q.ids /\ f.res = r
              /\ Pushed(f)
<1>1. q.ctxs \in SUBSET Contexts /\ q.ids \in SUBSET Ids
  BY DEF TypeOK
<1>2. PICK r \in (IF At({"close"}) THEN {{}} ELSE Answers(q.ctxs, q.ids)) :
        /\ native' = Updated(native, r)
        /\ Push([Frame("answered", q.ctxs, q.ids) EXCEPT !.res = r])
  BY DEF CreateAsyncAnswer
<1>3. r \in SUBSET (q.ids \X q.ctxs)
  BY <1>2 DEF Answers
<1> DEFINE f == [Frame("answered", q.ctxs, q.ids) EXCEPT !.res = r]
<1>4. f \in Frames /\ f.at = "answered" /\ f.ctxs = q.ctxs /\ f.ids = q.ids /\ f.res = r
  BY <1>1, <1>3 DEF Frame, Frames
<1> HIDE DEF f
<1>5. stack' \in Seq(Frames) /\ Pushed(f)
  BY <1>2, <1>4, PushIs DEF f
<1> QED
  BY <1>2, <1>3, <1>4, <1>5

LEMMA CreateAnswerReplaces ==
  ASSUME TypeOK, CreateAnswer
  PROVE  /\ stack[1] \in Frames /\ stack[1].at = "create"
         /\ stack' \in Seq(Frames)
         /\ \E r \in Answers(stack[1].ctxs, stack[1].ids), f \in Frames :
              /\ r \in SUBSET (stack[1].ids \X stack[1].ctxs)
              /\ native' = Updated(native, r)
              /\ f.at = "created" /\ f.ctxs = stack[1].ctxs /\ f.ids = stack[1].ids /\ f.res = r
              /\ Replaced(f)
<1>1. /\ stack # <<>> /\ stack[1] \in Frames /\ stack[1].at = "create"
      /\ \E r \in Answers(stack[1].ctxs, stack[1].ids) :
           native' = Updated(native, r) /\ Replace([stack[1] EXCEPT !.at = "created", !.res = r])
  <2>1. stack # <<>> /\ Head(stack) = stack[1] /\ stack[1] \in Frames /\ stack[1].at = "create"
    BY Top DEF CreateAnswer
  <2>2. \E r \in Answers(Head(stack).ctxs, Head(stack).ids) :
           native' = Updated(native, r) /\ Replace([Head(stack) EXCEPT !.at = "created", !.res = r])
    BY DEF CreateAnswer
  <2> QED
    BY <2>1, <2>2
<1>2. PICK r \in Answers(stack[1].ctxs, stack[1].ids) :
        native' = Updated(native, r) /\ Replace([stack[1] EXCEPT !.at = "created", !.res = r])
  BY <1>1
<1>3. r \in SUBSET (stack[1].ids \X stack[1].ctxs)
  BY <1>2 DEF Answers
<1> DEFINE f == [stack[1] EXCEPT !.at = "created", !.res = r]
<1>4. f \in Frames /\ f.at = "created" /\ f.ctxs = stack[1].ctxs /\ f.ids = stack[1].ids /\ f.res = r
  BY <1>1, <1>3 DEF Frames
<1> HIDE DEF f
<1>5. stack' \in Seq(Frames) /\ Replaced(f)
  BY <1>1, <1>2, <1>4, ReplaceIs DEF f
<1> QED
  BY <1>1, <1>2, <1>3, <1>4, <1>5

LEMMA DeleteAnswerReplaces ==
  ASSUME TypeOK, DeleteAnswer
  PROVE  /\ stack[1].at = "remove"
         /\ stack' \in Seq(Frames)
         /\ Popped \/ \E i \in Ids : Replaced(Frame("purge", {}, Closure(i)))
<1>1. /\ stack # <<>> /\ stack[1] \in Frames /\ stack[1].at = "remove"
      /\ Pop \/ \E i \in stack[1].ids : Replace(Frame("purge", {}, Closure(i)))
  BY Top DEF DeleteAnswer
<1>2. CASE Pop
  BY <1>1, <1>2, PopIs
<1>3. ASSUME NEW i \in stack[1].ids, Replace(Frame("purge", {}, Closure(i)))
      PROVE  i \in Ids /\ stack' \in Seq(Frames) /\ Replaced(Frame("purge", {}, Closure(i)))
  <2>1. i \in Ids /\ Frame("purge", {}, Closure(i)) \in Frames
    BY <1>1, FrameFields, FrameIs, ClosureIds
  <2> QED
    BY <1>1, <1>3, <2>1, ReplaceIs
<1> QED
  BY <1>1, <1>2, <1>3

LEMMA StoreMoves ==
  ASSUME TypeOK, Store
  PROVE  /\ stack # <<>> /\ stack[1] \in Frames /\ stack[1].at \in Answered
         /\ stack' \in Seq(Frames)
         /\ stack[1].at = "created" => Popped
         /\ stack[1].at = "answered" => Replaced(Frame("handler", {}, {}))
<1>1. /\ stack # <<>> /\ stack[1] \in Frames /\ stack[1].at \in Answered
      /\ IF stack[1].at = "created" THEN Pop ELSE Replace(Frame("handler", {}, {}))
  BY Top DEF Store, Answered
<1>2. Frame("handler", {}, {}) \in Frames
  BY FrameIs DEF Callbacks
<1>3. CASE stack[1].at = "created"
  BY <1>1, <1>3, PopIs
<1>4. CASE stack[1].at = "answered"
  BY <1>1, <1>2, <1>4, ReplaceIs
<1> QED
  BY <1>1, <1>3, <1>4 DEF Answered

LEMMA Pops ==
  ASSUME TypeOK, CallbackReturn \/ PurgeEnd \/ LoopEnd \/ DeleteReturn \/ CloseEnd
  PROVE  stack' \in Seq(Frames) /\ Popped
  BY Top, PopIs DEF CallbackReturn, PurgeEnd, LoopEnd, DeleteReturn, CloseEnd

-----------------------------------------------------------------------------
(***************************************************************************)
(* The operators of the maps.                                              *)
(***************************************************************************)
Functional(r) == \A p, q \in r : p[1] = q[1] \/ p[2] = q[2] => p = q

LEMMA UpdatedIs ==
  ASSUME NEW r \in SUBSET (Ids \X Contexts), NEW base \in [Ids -> Contexts \cup {None}]
  PROVE  /\ Updated(base, r) \in [Ids -> Contexts \cup {None}]
         /\ \A i \in Ids : Updated(base, r)[i] = base[i] \/ <<i, Updated(base, r)[i]>> \in r
         /\ \A i \in Ids : (\A p \in r : p[1] # i) => Updated(base, r)[i] = base[i]
         /\ Functional(r) => \A p \in r : Updated(base, r)[p[1]] = p[2]
<1> DEFINE u == Updated(base, r)
<1>1. \A i \in Ids : u[i] = IF \E c \in Contexts : <<i, c>> \in r
                            THEN CHOOSE c \in Contexts : <<i, c>> \in r ELSE base[i]
  BY DEF Updated
<1>2. ASSUME NEW i \in Ids, \E c \in Contexts : <<i, c>> \in r
      PROVE  u[i] \in Contexts /\ <<i, u[i]>> \in r
  BY <1>1, <1>2
<1>3. ASSUME NEW i \in Ids, ~\E c \in Contexts : <<i, c>> \in r
      PROVE  u[i] = base[i]
  BY <1>1, <1>3
<1>4. u = [i \in Ids |-> u[i]]
  BY DEF Updated
<1> HIDE DEF u
<1>5. u \in [Ids -> Contexts \cup {None}]
  BY <1>2, <1>3, <1>4
<1>6. ASSUME NEW i \in Ids, \A p \in r : p[1] # i PROVE u[i] = base[i]
  <2>1. ~\E c \in Contexts : <<i, c>> \in r
    BY <1>6
  <2> QED  BY <1>3, <2>1
<1>7. ASSUME Functional(r), NEW p \in r PROVE u[p[1]] = p[2]
  <2>1. p[1] \in Ids /\ p[2] \in Contexts /\ <<p[1], p[2]>> \in r
    BY <1>7
  <2>2. <<p[1], u[p[1]]>> \in r
    BY <2>1, <1>2
  <2> DEFINE q == <<p[1], u[p[1]]>>
  <2>3. q \in r /\ q[1] = p[1] /\ q[2] = u[p[1]]
    BY <2>2
  <2> HIDE DEF q
  <2>4. q = p
    BY <2>3, <1>7 DEF Functional
  <2> QED  BY <2>3, <2>4
<1> QED
  BY <1>2, <1>3, <1>5, <1>6, <1>7 DEF u

LEMMA OwnersAre ==
  ASSUME TypeOK, NEW m, NEW o
  PROVE  /\ OwnersAfter(m, o) \in [Contexts -> {"none", "caller", "request", "map", "freed"}]
         /\ \A c \in Contexts :
              /\ (\E i \in Ids : m[i] = c) => OwnersAfter(m, o)[c] = "map"
              /\ (\A i \in Ids : m[i] # c) =>
                    OwnersAfter(m, o)[c] = IF c \in o \/ owner[c] = "map" THEN "freed" ELSE owner[c]
  BY DEF OwnersAfter, TypeOK

LEMMA ErasedIs ==
  ASSUME TypeOK, NEW is
  PROVE  /\ EraseStale(is) \in [Ids -> Contexts \cup {None}]
         /\ \A i \in Ids : EraseStale(is)[i] = map[i] \/ (EraseStale(is)[i] = None /\ map[i] \in stale)
  BY DEF EraseStale, TypeOK

-----------------------------------------------------------------------------
LEMMA TypeInit == Init => TypeOK
<1>1. << >> \in Seq(Frames)
  OBVIOUS
<1> QED
  BY <1>1 DEF Init, TypeOK

LEMMA TypeStep == TypeOK /\ [Next]_vars => TypeOK'
<1> SUFFICES ASSUME TypeOK, [Next]_vars PROVE TypeOK'
  OBVIOUS
<1> DEFINE Others == <<owner, inserted, stale, map, native, requests, closed>>
<1>s. ASSUME stack' \in Seq(Frames), UNCHANGED Others PROVE TypeOK'
  BY <1>s DEF TypeOK
<1>1. ASSUME NEW cs \in SUBSET Contexts, NEW is \in Targets, Create(cs, is) PROVE TypeOK'
  <2>1. stack' \in Seq(Frames)
    BY <1>1, CreatePushes
  <2> QED
    BY <1>1, <2>1 DEF Create, TypeOK
<1>2. ASSUME NEW cs \in SUBSET Contexts, NEW is \in Targets, CreateAsync(cs, is) PROVE TypeOK'
  <2>1. [ctxs |-> cs, ids |-> is] \in [ctxs : SUBSET Contexts, ids : SUBSET Ids]
    BY Targeted
  <2>2. requests' \subseteq [ctxs : SUBSET Contexts, ids : SUBSET Ids]
    BY <1>2, <2>1 DEF CreateAsync, TypeOK
  <2>3. owner' \in [Contexts -> {"none", "caller", "request", "map", "freed"}]
    BY <1>2 DEF CreateAsync, TypeOK
  <2> QED
    BY <1>2, <2>2, <2>3 DEF CreateAsync, TypeOK
<1>3. ASSUME NEW i \in Ids, Delete(i) PROVE TypeOK'
  BY <1>3, <1>s, DeletePushes DEF Delete
<1>4. ASSUME NEW i \in Ids, DeleteAsync(i) PROVE TypeOK'
  <2>1. [ctxs |-> {}, ids |-> {i}] \in [ctxs : SUBSET Contexts, ids : SUBSET Ids]
    OBVIOUS
  <2> QED
    BY <1>4, <2>1 DEF DeleteAsync, TypeOK
<1>5. ASSUME NEW i \in Ids, Notify(i) PROVE TypeOK'
  BY <1>5, <1>s, NotifyPushes DEF Notify
<1>6. ASSUME NEW i \in Ids, Purge(i) PROVE TypeOK'
  <2>1. stack' \in Seq(Frames)
    BY <1>6, PurgePushes
  <2> QED
    BY <1>6, <2>1 DEF Purge, DeleteNext, TypeOK
<1>7. ASSUME NEW is \in {SubIds, MonIds}, List(is) PROVE TypeOK'
  <2>1. map' \in [Ids -> Contexts \cup {None}]
    BY <1>7, ErasedIs DEF List
  <2>2. owner' \in [Contexts -> {"none", "caller", "request", "map", "freed"}]
    BY <1>7, OwnersAre DEF List
  <2> QED
    BY <1>7, <2>1, <2>2 DEF List, TypeOK
<1>8. ASSUME NEW q \in requests, CreateAsyncAnswer(q) PROVE TypeOK'
  <2>1. q.ctxs \in SUBSET Contexts /\ q.ids \in SUBSET Ids
    BY DEF TypeOK
  <2>2. PICK r \in SUBSET (q.ids \X q.ctxs) : native' = Updated(native, r)
    BY <1>8, CreateAsyncAnswerPushes
  <2>3. r \in SUBSET (Ids \X Contexts)
    BY <2>1
  <2>4. native' \in [Ids -> Contexts \cup {None}]
    BY <2>2, <2>3, UpdatedIs DEF TypeOK
  <2>5. stack' \in Seq(Frames)
    BY <1>8, CreateAsyncAnswerPushes
  <2> QED
    BY <1>8, <2>4, <2>5 DEF CreateAsyncAnswer, TypeOK
<1>9. ASSUME NEW q \in requests, DeleteAsyncAnswer(q) PROVE TypeOK'
  <2>1. stack' \in Seq(Frames)
    BY <1>9, DeleteAsyncAnswerPushes
  <2> QED
    BY <1>9, <2>1 DEF DeleteAsyncAnswer, TypeOK
<1>10. ASSUME CreateAnswer PROVE TypeOK'
  <2>1. stack[1].ctxs \in SUBSET Contexts /\ stack[1].ids \in SUBSET Ids
    BY <1>10, CreateAnswerReplaces, FrameFields
  <2>2. PICK r \in SUBSET (stack[1].ids \X stack[1].ctxs) : native' = Updated(native, r)
    BY <1>10, CreateAnswerReplaces
  <2>3. r \in SUBSET (Ids \X Contexts)
    BY <2>1
  <2>4. native' \in [Ids -> Contexts \cup {None}]
    BY <2>2, <2>3, UpdatedIs DEF TypeOK
  <2>5. stack' \in Seq(Frames)
    BY <1>10, CreateAnswerReplaces
  <2> QED
    BY <1>10, <2>4, <2>5 DEF CreateAnswer, TypeOK
<1>11. ASSUME Store PROVE TypeOK'
  <2> DEFINE f == stack[1]
             base == IF f.res = {} THEN map ELSE EraseStale(MapOf(f.ids))
  <2>1. f \in Frames /\ Head(stack) = f
    BY <1>11, StoreMoves, StackFrames
  <2>2. f.res \in SUBSET (Ids \X Contexts)
    BY <2>1, FrameFields
  <2>3. /\ map' = Updated(base, f.res) /\ owner' = OwnersAfter(map', f.ctxs)
        /\ inserted' = inserted \cup {p[2] : p \in f.res}
        /\ UNCHANGED <<stale, native, requests, closed>>
    BY <1>11, <2>1 DEF Store, Stored
  <2>4. base \in [Ids -> Contexts \cup {None}]
    BY ErasedIs DEF TypeOK
  <2>5. stack' \in Seq(Frames)
    BY <1>11, StoreMoves
  <2> HIDE DEF base, f
  <2>6. map' \in [Ids -> Contexts \cup {None}]
    BY <2>2, <2>3, <2>4, UpdatedIs
  <2>7. owner' \in [Contexts -> {"none", "caller", "request", "map", "freed"}]
    BY <2>3, OwnersAre
  <2>8. inserted' \subseteq Contexts
    BY <2>2, <2>3 DEF TypeOK
  <2> QED
    BY <2>3, <2>5, <2>6, <2>7, <2>8 DEF TypeOK
<1>12. ASSUME DeleteReturn PROVE TypeOK'
  <2>1. stack' \in Seq(Frames)
    BY <1>12, Pops
  <2>2. Head(stack).ctxs \in SUBSET Contexts
    BY <1>12, Top, FrameFields DEF DeleteReturn
  <2> QED
    BY <1>12, <2>1, <2>2 DEF DeleteReturn, TypeOK
<1>13. ASSUME Close PROVE TypeOK'
  <2>1. stack' \in Seq(Frames)
    BY <1>13, ClosePushes
  <2>2. CASE MoveAssigned
    <3>1. map' = [i \in Ids |-> None] /\ owner' = OwnersAfter(map', {})
      BY <1>13, <2>2 DEF Close, DestroyContexts
    <3>2. owner' \in [Contexts -> {"none", "caller", "request", "map", "freed"}]
      BY <3>1, OwnersAre
    <3> QED
      BY <1>13, <2>1, <3>1, <3>2 DEF Close, TypeOK
  <2>3. CASE ~MoveAssigned
    BY <1>13, <1>s, <2>1, <2>3 DEF Close
  <2> QED
    BY <2>2, <2>3
<1>14. ASSUME CloseEnd PROVE TypeOK'
  <2>1. stack' \in Seq(Frames)
    BY <1>14, Pops
  <2>2. map' = [i \in Ids |-> None] /\ owner' = OwnersAfter(map', {})
    BY <1>14 DEF CloseEnd, DestroyContexts
  <2>3. owner' \in [Contexts -> {"none", "caller", "request", "map", "freed"}]
    BY <2>2, OwnersAre
  <2> QED
    BY <1>14, <2>1, <2>2, <2>3 DEF CloseEnd, TypeOK
<1>15. ASSUME RunIterate \/ SessionLost PROVE TypeOK'
  BY <1>15, <1>s, RunIteratePushes, SessionLostPushes DEF RunIterate, SessionLost
<1>16. ASSUME LoopEnd \/ CallbackReturn \/ PurgeEnd PROVE TypeOK'
  BY <1>16, <1>s, Pops DEF LoopEnd, CallbackReturn, PurgeEnd
<1>17. ASSUME DeleteAnswer PROVE TypeOK'
  BY <1>17, <1>s, DeleteAnswerReplaces DEF DeleteAnswer
<1>18. ASSUME Gone \/ UNCHANGED vars PROVE TypeOK'
  BY <1>18 DEF Gone, vars, TypeOK
<1> QED
  BY <1>1, <1>2, <1>3, <1>4, <1>5, <1>6, <1>7, <1>8, <1>9, <1>10, <1>11, <1>12, <1>13, <1>14,
     <1>15, <1>16, <1>17, <1>18 DEF Next

-----------------------------------------------------------------------------
(***************************************************************************)
(* How calls nest.                                                         *)
(***************************************************************************)
Busy == Answered \cup {"data"}
NoneBusy == \A k \in DOMAIN stack : stack[k].at \notin Busy

\* Below a frame that is not busy, nothing is.
LEMMA Below ==
  ASSUME TypeOK, Nesting, stack = <<>> \/ stack[1].at \notin Busy
  PROVE  NoneBusy
<1>1. DOMAIN stack = 1 .. Len(stack) /\ (stack = <<>> => DOMAIN stack = {})
  BY StackFrames DEF TypeOK
<1> QED
  BY <1>1 DEF Nesting, NoneBusy, Busy

LEMMA BelowTop ==
  ASSUME TypeOK, Nesting, NEW ls, At(ls), ls \cap Busy = {}
  PROVE  NoneBusy
  BY Below, Top

LEMMA BelowUser ==
  ASSUME TypeOK, Nesting, ~SyncInDataCallback, UserSync
  PROVE  NoneBusy
<1>1. CASE stack = <<>>
  BY <1>1, Below
<1>2. CASE At(Callbacks)
  <2>1. 1 \in DOMAIN stack /\ stack[1].at \in Callbacks
    BY <1>2, Top
  <2>2. stack[1].at # "data"
    BY <2>1 DEF UserSync, OnStack
  <2> QED
    BY <2>1, <2>2, Below DEF Callbacks, Busy, Answered
<1> QED
  BY <1>1, <1>2 DEF UserSync, User

LEMMA NestPush ==
  ASSUME TypeOK, TypeOK', Nesting, NEW f, Pushed(f),
         \A k \in DOMAIN stack : stack[k].at # "data",
         f.at = "data" \/ NoneBusy,
         f.at = "close" => stack = <<>> /\ f.ids = Ids
  PROVE  Nesting'
<1>1. /\ DOMAIN stack = 1 .. Len(stack) /\ Len(stack) \in Nat
      /\ DOMAIN stack' = 1 .. Len(stack) + 1 /\ Len(stack') = Len(stack) + 1
      /\ stack = <<>> => Len(stack) = 0
  BY StackFrames DEF TypeOK, Pushed
<1> SUFFICES ASSUME NEW k \in DOMAIN stack'
             PROVE  /\ stack'[k].at = "data" => k = 1
                    /\ stack'[k].at \in Answered => k = 1 \/ (k = 2 /\ stack'[1].at = "data")
                    /\ stack'[k].at = "close" => k = Len(stack') /\ stack'[k].ids = Ids
  BY DEF Nesting
<1>2. CASE k = 1
  BY <1>1, <1>2 DEF Pushed, Answered
<1>3. CASE k # 1
  <2>1. k - 1 \in DOMAIN stack /\ stack'[k] = stack[k - 1] /\ stack'[1] = f
    BY <1>1, <1>3 DEF Pushed
  <2>2. stack[k - 1].at \in Answered => f.at = "data" /\ k = 2
    <3>1. stack[k - 1].at \in Answered => f.at = "data"
      BY <2>1 DEF NoneBusy, Busy
    <3>2. stack[k - 1].at \in Answered => k - 1 = 1 \/ (k - 1 = 2 /\ stack[1].at = "data")
      BY <2>1 DEF Nesting
    <3>3. k - 1 = 2 => 1 \in DOMAIN stack
      BY <1>1, <2>1
    <3> QED
      BY <1>1, <1>3, <3>1, <3>2, <3>3
  <2>3. stack[k - 1].at = "close" => k - 1 = Len(stack) /\ stack[k - 1].ids = Ids
    BY <2>1 DEF Nesting
  <2> QED
    BY <1>1, <2>1, <2>2, <2>3
<1> QED
  BY <1>2, <1>3

LEMMA NestPop ==
  ASSUME TypeOK, TypeOK', Nesting, Popped
  PROVE  Nesting'
<1>1. /\ DOMAIN stack = 1 .. Len(stack) /\ Len(stack) \in Nat
      /\ DOMAIN stack' = 1 .. Len(stack) - 1 /\ Len(stack') = Len(stack) - 1
  BY StackFrames DEF TypeOK, Popped
<1>2. ASSUME NEW k \in DOMAIN stack' PROVE k + 1 \in DOMAIN stack /\ stack'[k] = stack[k + 1]
  BY <1>1 DEF Popped
<1>3. ASSUME NEW k \in DOMAIN stack'
      PROVE  /\ stack'[k].at # "data"
             /\ stack'[k].at \in Answered => k = 1
             /\ stack'[k].at = "close" => k + 1 = Len(stack) /\ stack'[k].ids = Ids
  BY <1>1, <1>2 DEF Nesting
<1> QED
  BY <1>1, <1>3 DEF Nesting

LEMMA NestReplace ==
  ASSUME TypeOK, TypeOK', Nesting, NEW f, Replaced(f),
         stack[1].at # "data", f.at \notin {"data", "close"}
  PROVE  Nesting'
<1>1. /\ DOMAIN stack = 1 .. Len(stack) /\ DOMAIN stack' = 1 .. Len(stack)
      /\ Len(stack') = Len(stack)
  BY StackFrames DEF TypeOK, Replaced
<1>2. \A k \in DOMAIN stack' : k # 1 => k \in DOMAIN stack /\ stack'[k] = stack[k]
  BY <1>1 DEF Replaced
<1>3. stack'[1] = f
  BY DEF Replaced
<1> QED
  BY <1>1, <1>2, <1>3 DEF Nesting

LEMMA NestingStep ==
  ASSUME ~SyncInDataCallback
  PROVE  TypeOK /\ Nesting /\ [Next]_vars => Nesting'
<1> SUFFICES ASSUME TypeOK, Nesting, [Next]_vars PROVE Nesting'
  OBVIOUS
<1>t. TypeOK'
  BY TypeStep
<1>s. ASSUME UNCHANGED stack PROVE Nesting'
  BY <1>s DEF Nesting
\* A push where nothing is busy.
<1>p. ASSUME NEW f, Pushed(f), NoneBusy, f.at # "close" PROVE Nesting'
  <2>1. \A k \in DOMAIN stack : stack[k].at # "data"
    BY <1>p DEF NoneBusy, Busy
  <2> QED
    BY <1>t, <1>p, <2>1, NestPush
<1>w. At(Waiting) \/ At({"close"}) \/ At({"purge", "close"}) => NoneBusy
  <2>1. /\ Waiting \cap Busy = {} /\ {"close"} \cap Busy = {}
        /\ {"purge", "close"} \cap Busy = {}
    BY DEF Waiting, Busy, Answered
  <2> QED
    BY <2>1, BelowTop
<1>1. ASSUME NEW cs \in SUBSET Contexts, NEW is \in Targets, Create(cs, is) PROVE Nesting'
  <2>1. Frame("create", cs, is).at = "create"
    BY DEF Frame
  <2> QED
    BY <1>1, <1>p, <2>1, CreatePushes, BelowUser DEF Create
<1>2. ASSUME NEW i \in Ids, Delete(i) PROVE Nesting'
  <2>1. Frame("remove", {}, {i}).at = "remove"
    BY DEF Frame
  <2> QED
    BY <1>2, <1>p, <2>1, DeletePushes, BelowUser DEF Delete
<1>3. ASSUME NEW i \in Ids, Notify(i) PROVE Nesting'
  <2>1. Frame("data", {native[i]}, {i}).at = "data" /\ Pushed(Frame("data", {native[i]}, {i}))
    BY <1>3, NotifyPushes DEF Frame
  <2>2. \A k \in DOMAIN stack : stack[k].at # "data"
    <3>1. 1 \in DOMAIN stack /\ stack[1].at # "data"
      BY <1>3, Top DEF Notify, Waiting
    <3> QED
      BY <3>1 DEF Nesting
  <2> QED
    BY <1>t, <2>1, <2>2, NestPush
<1>4. ASSUME NEW i \in Ids, Purge(i) PROVE Nesting'
  <2>1. Frame("delete", {native[i]}, {i}).at = "delete"
    BY DEF Frame
  <2> QED
    BY <1>4, <1>p, <1>w, <2>1, PurgePushes DEF Purge
<1>5. ASSUME NEW q \in requests, CreateAsyncAnswer(q) PROVE Nesting'
  <2>1. PICK f \in Frames : f.at = "answered" /\ Pushed(f)
    BY <1>5, CreateAsyncAnswerPushes
  <2> QED
    BY <1>5, <1>p, <1>w, <2>1 DEF CreateAsyncAnswer
<1>6. ASSUME NEW q \in requests, DeleteAsyncAnswer(q) PROVE Nesting'
  <2>1. ASSUME NEW i \in Ids, Pushed(Frame("purge", {}, Closure(i))) PROVE Nesting'
    <3>1. Frame("purge", {}, Closure(i)).at = "purge"
      BY DEF Frame
    <3> QED
      BY <1>6, <1>p, <1>w, <2>1, <3>1 DEF DeleteAsyncAnswer
  <2> QED
    BY <1>6, <1>s, <2>1, DeleteAsyncAnswerPushes
<1>7. ASSUME CreateAnswer PROVE Nesting'
  <2>1. PICK f \in Frames : f.at = "created" /\ Replaced(f)
    BY <1>7, CreateAnswerReplaces
  <2> QED
    BY <1>7, <1>t, <2>1, CreateAnswerReplaces, NestReplace
<1>8. ASSUME Store PROVE Nesting'
  <2>1. Frame("handler", {}, {}).at = "handler"
    BY DEF Frame
  <2> QED
    BY <1>8, <1>t, <2>1, StoreMoves, NestPop, NestReplace DEF Answered
<1>9. ASSUME CallbackReturn \/ PurgeEnd \/ LoopEnd \/ DeleteReturn \/ CloseEnd PROVE Nesting'
  BY <1>9, <1>t, Pops, NestPop
<1>10. ASSUME DeleteAnswer PROVE Nesting'
  <2>1. ASSUME NEW i \in Ids, Replaced(Frame("purge", {}, Closure(i))) PROVE Nesting'
    <3>1. Frame("purge", {}, Closure(i)).at = "purge"
      BY DEF Frame
    <3> QED
      BY <1>10, <1>t, <2>1, <3>1, DeleteAnswerReplaces, NestReplace
  <2> QED
    BY <1>10, <1>t, <2>1, DeleteAnswerReplaces, NestPop
<1>11. ASSUME RunIterate \/ SessionLost PROVE Nesting'
  <2>1. Frame("loop", {}, {}).at = "loop" /\ Frame("purge", {}, Ids).at = "purge"
    BY DEF Frame
  <2>2. NoneBusy
    BY <1>11, <1>w, Below DEF RunIterate, SessionLost
  <2> QED
    BY <1>11, <1>p, <2>1, <2>2, RunIteratePushes, SessionLostPushes
<1>12. ASSUME Close PROVE Nesting'
  <2>1. Frame("close", {}, Ids).at = "close" /\ Frame("close", {}, Ids).ids = Ids
    BY DEF Frame
  <2>2. stack = <<>> /\ NoneBusy
    BY <1>12, Below DEF Close
  <2>3. \A k \in DOMAIN stack : stack[k].at # "data"
    BY <2>2 DEF NoneBusy, Busy
  <2> QED
    BY <1>12, <1>t, <2>1, <2>2, <2>3, ClosePushes, NestPush
<1>13. ASSUME \/ \E cs \in SUBSET Contexts, is \in Targets : CreateAsync(cs, is)
              \/ \E i \in Ids : DeleteAsync(i)
              \/ \E is \in {SubIds, MonIds} : List(is)
              \/ Gone \/ UNCHANGED vars
       PROVE Nesting'
  BY <1>13, <1>s DEF CreateAsync, DeleteAsync, List, Gone, vars
<1> QED
  BY <1>1, <1>2, <1>3, <1>4, <1>5, <1>6, <1>7, <1>8, <1>9, <1>10, <1>11, <1>12, <1>13 DEF Next

-----------------------------------------------------------------------------
(***************************************************************************)
(* The frames that the invariant speaks of keep their content, at d places *)
(* further in; those at "gone" are popped, those at "new" pushed.          *)
(***************************************************************************)
Lasting == Offering \cup {"delete"}
Keeps(d, gone, new) ==
    /\ d \in {-1, 0, 1}
    /\ DOMAIN stack \subseteq Nat /\ DOMAIN stack' \subseteq Nat
    /\ \A k \in DOMAIN stack \ gone : stack[k].at \in Lasting =>
          k + d \in DOMAIN stack' \ new /\ stack'[k + d] = stack[k]
    /\ \A k \in DOMAIN stack' \ new : stack'[k].at \in Lasting =>
          k - d \in DOMAIN stack \ gone /\ stack[k - d] = stack'[k]

LEMMA PushKeeps ==
  ASSUME TypeOK, TypeOK', NEW f, Pushed(f)
  PROVE  /\ 1 \in DOMAIN stack' /\ stack'[1] = f
         /\ Keeps(1, {}, {1})
         /\ f.at \notin Lasting => Keeps(1, {}, {})
<1>1. /\ DOMAIN stack = 1 .. Len(stack) /\ Len(stack) \in Nat
      /\ DOMAIN stack' = 1 .. Len(stack) + 1 /\ Len(stack') = Len(stack) + 1
  BY StackFrames DEF TypeOK, Pushed
<1>2. \A k \in DOMAIN stack : k + 1 \in DOMAIN stack' \ {1} /\ stack'[k + 1] = stack[k]
  BY <1>1 DEF Pushed
<1>3. \A k \in DOMAIN stack' \ {1} : k - 1 \in DOMAIN stack /\ stack[k - 1] = stack'[k]
  BY <1>1 DEF Pushed
<1>4. 1 \in DOMAIN stack' /\ stack'[1] = f
  BY <1>1 DEF Pushed
<1> QED
  BY <1>1, <1>2, <1>3, <1>4 DEF Keeps

LEMMA PopKeeps ==
  ASSUME TypeOK, TypeOK', Popped
  PROVE  /\ Keeps(-1, {1}, {})
         /\ stack[1].at \notin Lasting => Keeps(-1, {}, {})
<1>1. /\ DOMAIN stack = 1 .. Len(stack) /\ Len(stack) \in Nat
      /\ DOMAIN stack' = 1 .. Len(stack) - 1 /\ Len(stack') = Len(stack) - 1
  BY StackFrames DEF TypeOK, Popped
<1>2. \A k \in DOMAIN stack \ {1} : k - 1 \in DOMAIN stack' /\ stack'[k - 1] = stack[k]
  BY <1>1 DEF Popped
<1>3. \A k \in DOMAIN stack' : k + 1 \in DOMAIN stack \ {1} /\ stack[k + 1] = stack'[k]
  BY <1>1 DEF Popped
<1>4. \A k \in Nat : k - (-1) = k + 1 /\ k + (-1) = k - 1
  OBVIOUS
<1> QED
  BY <1>1, <1>2, <1>3, <1>4 DEF Keeps

LEMMA ReplaceKeeps ==
  ASSUME TypeOK, TypeOK', NEW f, Replaced(f)
  PROVE  /\ 1 \in DOMAIN stack' /\ 1 \in DOMAIN stack /\ stack'[1] = f
         /\ Keeps(0, {1}, {1})
         /\ f.at \notin Lasting => Keeps(0, {1}, {})
         /\ f.at \notin Lasting /\ stack[1].at \notin Lasting => Keeps(0, {}, {})
<1>1. /\ DOMAIN stack = 1 .. Len(stack) /\ DOMAIN stack' = 1 .. Len(stack)
      /\ Len(stack) \in Nat /\ 1 \in DOMAIN stack
  BY StackFrames DEF TypeOK, Replaced
<1>2. \A k \in DOMAIN stack : k # 1 => stack'[k] = stack[k]
  BY <1>1 DEF Replaced
<1>3. stack'[1] = f
  BY DEF Replaced
<1>4. \A k \in Nat : k - 0 = k /\ k + 0 = k
  OBVIOUS
<1> QED
  BY <1>1, <1>2, <1>3, <1>4 DEF Keeps

LEMMA StayKeeps ==
  ASSUME TypeOK, UNCHANGED stack
  PROVE  Keeps(0, {}, {})
<1>1. DOMAIN stack = 1 .. Len(stack) /\ Len(stack) \in Nat
  BY StackFrames
<1>2. \A k \in Nat : k - 0 = k /\ k + 0 = k
  OBVIOUS
<1> QED
  BY <1>1, <1>2 DEF Keeps

-----------------------------------------------------------------------------
(***************************************************************************)
(* The parts of the invariant that speak of frames, when these stay.       *)
(***************************************************************************)
LEMMA DeletesKept ==
  ASSUME DeletesFit, NEW d, NEW gone, NEW new, Keeps(d, gone, new),
         \A k \in DOMAIN stack' \cap new : stack'[k].at # "delete",
         \A k \in DOMAIN stack \ gone : stack[k].at = "delete" =>
            \A i \in Ids :
                /\ map[i] # None /\ map[i] \notin stale /\ stack[k].ctxs = {map[i]}
                /\ \A j \in Ids : native[j] # map[i]
                => /\ map'[i] = map[i] /\ map'[i] \notin stale'
                   /\ \A j \in Ids : native'[j] # map[i]
  PROVE  DeletesFit'
<1>1. ASSUME NEW k \in DOMAIN stack', stack'[k].at = "delete"
      PROVE  k - d \in DOMAIN stack \ gone /\ stack[k - d] = stack'[k]
  BY <1>1 DEF Keeps, Lasting
<1>2. ASSUME NEW k \in DOMAIN stack', stack'[k].at = "delete" PROVE Deleted(stack[k])'
  <2>1. PICK i \in Ids : /\ stack[k - d].ids = {i} /\ stack[k - d].ctxs = {map[i]}
                         /\ map[i] # None /\ map[i] \notin stale
                         /\ \A j \in Ids : native[j] # map[i]
    BY <1>1, <1>2 DEF DeletesFit, Deleted
  <2>2. map'[i] = map[i] /\ map'[i] \notin stale' /\ \A j \in Ids : native'[j] # map[i]
    BY <1>1, <1>2, <2>1
  <2> QED
    BY <1>1, <1>2, <2>1, <2>2 DEF Deleted
<1>3. ASSUME NEW k \in DOMAIN stack', NEW l \in DOMAIN stack',
             stack'[k].at = "delete", stack'[l].at = "delete", k # l
      PROVE  stack'[k].ctxs # stack'[l].ctxs
  <2>1. k - d # l - d
    BY <1>3 DEF Keeps
  <2> QED
    BY <1>1, <1>3, <2>1 DEF DeletesFit
<1> QED
  BY <1>2, <1>3 DEF DeletesFit

LEMMA StoredKept ==
  ASSUME StoredOrStale, NEW d, NEW gone, NEW new, Keeps(d, gone, new),
         \A k \in DOMAIN stack \cap gone : stack[k].at = "delete" => stack[k].ctxs \subseteq stale',
         \A i \in Ids : map'[i] # None =>
            \/ native'[i] = map'[i] \/ map'[i] \in stale'
            \/ map'[i] = map[i] /\ map[i] \notin stale /\ native[i] # map[i]
  PROVE  StoredOrStale'
<1> SUFFICES ASSUME NEW i \in Ids, map'[i] # None, native'[i] # map'[i], map'[i] \notin stale'
             PROVE  \E k \in DOMAIN stack' : stack'[k].at = "delete" /\ map'[i] \in stack'[k].ctxs
  BY DEF StoredOrStale
<1>1. PICK k \in DOMAIN stack : stack[k].at = "delete" /\ map'[i] \in stack[k].ctxs
  BY DEF StoredOrStale
<1>2. k + d \in DOMAIN stack' /\ stack'[k + d] = stack[k]
  BY <1>1 DEF Keeps, Lasting
<1> QED
  BY <1>1, <1>2

LEMMA PendingKept ==
  ASSUME OffersPending, NEW d, NEW gone, NEW new, Keeps(d, gone, new),
         \A c \in Contexts : owner'[c] \in {"caller", "request"} =>
            \/ \E k \in DOMAIN stack' : stack'[k].at \in Offering /\ c \in stack'[k].ctxs
            \/ \E q \in requests' : c \in q.ctxs
            \/ /\ owner[c] \in {"caller", "request"}
               /\ \A k \in DOMAIN stack \cap gone :
                     stack[k].at \notin Offering \/ c \notin stack[k].ctxs
               /\ \A q \in requests : c \in q.ctxs => q \in requests'
  PROVE  OffersPending'
<1> SUFFICES ASSUME NEW c \in Contexts, owner'[c] \in {"caller", "request"},
                    owner[c] \in {"caller", "request"},
                    \A k \in DOMAIN stack \cap gone :
                        stack[k].at \notin Offering \/ c \notin stack[k].ctxs,
                    \A q \in requests : c \in q.ctxs => q \in requests'
             PROVE  \/ \E k \in DOMAIN stack' : stack'[k].at \in Offering /\ c \in stack'[k].ctxs
                    \/ \E q \in requests' : c \in q.ctxs
  BY DEF OffersPending, Offering
<1>1. \/ \E k \in DOMAIN stack : stack[k].at \in Offering /\ c \in stack[k].ctxs
      \/ \E q \in requests : c \in q.ctxs
  BY DEF OffersPending, Offering
<1>2. ASSUME NEW k \in DOMAIN stack, stack[k].at \in Offering, c \in stack[k].ctxs
      PROVE  k + d \in DOMAIN stack' /\ stack'[k + d] = stack[k]
  BY <1>2 DEF Keeps, Lasting
<1> QED
  BY <1>1, <1>2

\* Contexts that are offered keep their owner until they are stored.
LEMMA OffersKept ==
  ASSUME OffersOwned, OffersApart, NEW d, NEW gone, NEW new, Keeps(d, gone, new),
         \A k \in DOMAIN stack' \cap new : stack'[k].at \notin Offering,
         requests' \subseteq requests,
         \A k \in DOMAIN stack \ gone : stack[k].at \in Offering =>
            \A c \in stack[k].ctxs : owner'[c] = owner[c],
         \A q \in requests' : \A c \in q.ctxs : owner'[c] = owner[c]
  PROVE  OffersOwned' /\ OffersApart'
<1>1. ASSUME NEW k \in DOMAIN stack', stack'[k].at \in Offering
      PROVE  k - d \in DOMAIN stack \ gone /\ stack[k - d] = stack'[k]
  BY <1>1 DEF Keeps, Lasting
<1>2. OffersOwned'
  <2>1. ASSUME NEW k \in DOMAIN stack', NEW c \in stack'[k].ctxs, stack'[k].at \in Offering
        PROVE  owner'[c] = owner[c] /\ k - d \in DOMAIN stack /\ stack[k - d] = stack'[k]
    BY <1>1, <2>1
  <2> QED
    BY <2>1 DEF OffersOwned, Offering, Creating
<1>3. \A k, l \in DOMAIN stack' :
        stack'[k].at \in Offering /\ stack'[l].at \in Offering /\ k # l =>
            stack'[k].ctxs \cap stack'[l].ctxs = {}
  <2>1. \A k, l \in DOMAIN stack' : k # l => k - d # l - d
    BY DEF Keeps
  <2> QED
    BY <1>1, <2>1 DEF OffersApart
<1>4. \A k \in DOMAIN stack' : \A q \in requests' :
        stack'[k].at = "answered" => stack'[k].ctxs \cap q.ctxs = {}
  BY <1>1 DEF OffersApart, Offering
<1>5. \A p, q \in requests' : p # q => p.ctxs \cap q.ctxs = {}
  BY DEF OffersApart
<1> QED
  BY <1>2, <1>3, <1>4, <1>5 DEF OffersApart

\* Where no frame is busy, no answer waits to be stored.
LEMMA NoAnswers ==
  ASSUME NoneBusy, NativeFits
  PROVE  /\ \A k \in DOMAIN stack : stack[k].at \notin Answered
         /\ \A i \in Ids : ~Registering(i)
         /\ \A i \in Ids : native[i] # None => map[i] = native[i] /\ native[i] \notin stale
  BY DEF NoneBusy, Busy, NativeFits, Registering

\* An offered context is in no map and with no item.
LEMMA OfferedApart ==
  ASSUME TypeOK, Core, NEW c \in Contexts, owner[c] \notin {"map", "freed"}
  PROVE  /\ \A i \in Ids : map[i] # c
         /\ c \notin stale /\ c \notin inserted
         /\ NoneBusy => \A i \in Ids : native[i] # c
<1>1. \A i \in Ids : map[i] # c
  BY NoneAssumption DEF Core, MapOwns, TypeOK
<1>2. c \notin stale /\ c \notin inserted
  BY DEF Core, MapOwns
<1>3. ASSUME NoneBusy PROVE \A i \in Ids : native[i] # c
  BY <1>1, <1>3, NoAnswers, NoneAssumption DEF Core
<1> QED
  BY <1>1, <1>2, <1>3

-----------------------------------------------------------------------------
(***************************************************************************)
(* Most steps only wait, return or call.                                   *)
(***************************************************************************)
SameOffers == \A q : q.ctxs # {} => (q \in requests' <=> q \in requests)

LEMMA QuietStep ==
  ASSUME Core, NEW d, Keeps(d, {}, {}), SameOffers,
         UNCHANGED <<owner, inserted, stale, map, native>>
  PROVE  Core'
<1>1. OffersOwned'
  BY DEF Keeps, Core, OffersOwned, Lasting, Offering, Creating, SameOffers
<1>2. OffersApart'
  <2>1. \A k, l \in DOMAIN stack' :
        stack'[k].at \in Offering /\ stack'[l].at \in Offering /\ k # l =>
            stack'[k].ctxs \cap stack'[l].ctxs = {}
    BY DEF Keeps, Core, OffersApart, Lasting
  <2>2. \A k \in DOMAIN stack' : \A q \in requests' :
        stack'[k].at = "answered" => stack'[k].ctxs \cap q.ctxs = {}
    BY DEF Keeps, Core, OffersApart, Lasting, Offering, SameOffers
  <2>3. \A p, q \in requests' : p # q => p.ctxs \cap q.ctxs = {}
    BY DEF Core, OffersApart, SameOffers
  <2> QED
    BY <2>1, <2>2, <2>3 DEF OffersApart
<1>3. OffersPending'
  BY PendingKept DEF Core, SameOffers
<1>4. AnswersFit'
  <2> SUFFICES ASSUME NEW k \in DOMAIN stack', stack'[k].at \in Answered
               PROVE  Answer(stack[k])'
    BY DEF AnswersFit
  <2>1. k - d \in DOMAIN stack /\ stack[k - d] = stack'[k]
    BY DEF Keeps, Lasting, Offering, Answered
  <2>2. Answer(stack[k - d])
    BY <2>1 DEF Core, AnswersFit
  <2> QED
    BY <2>1, <2>2 DEF Answer, FreeInMap
<1>5. NativeFits'
  <2>1. ASSUME NEW i \in Ids, Registering(i) PROVE Registering(i)'
    <3>1. PICK k \in DOMAIN stack : stack[k].at \in Answered /\ <<i, native[i]>> \in stack[k].res
      BY <2>1 DEF Registering
    <3>2. k + d \in DOMAIN stack' /\ stack'[k + d] = stack[k]
      BY <3>1 DEF Keeps, Lasting, Offering, Answered
    <3> QED
      BY <3>1, <3>2 DEF Registering
  <2> QED
    BY <2>1 DEF Core, NativeFits
<1>6. MapOwns'
  BY DEF Core, MapOwns
<1>7. DeletesFit'
  BY DeletesKept DEF Core
<1>8. StoredOrStale'
  BY StoredKept DEF Core
<1>9. DeleteCallbackRan'
  BY DEF Core, DeleteCallbackRan, Alive
<1> QED
  BY <1>1, <1>2, <1>3, <1>4, <1>5, <1>6, <1>7, <1>8, <1>9 DEF Core

LEMMA QuietActions ==
  ASSUME ~MoveAssigned, TypeOK, TypeOK', Core,
         \/ \E i \in Ids : Delete(i) \/ DeleteAsync(i) \/ Notify(i)
         \/ \E q \in requests : DeleteAsyncAnswer(q)
         \/ RunIterate \/ SessionLost \/ Close
         \/ LoopEnd \/ CallbackReturn \/ PurgeEnd \/ DeleteAnswer
         \/ Gone \/ UNCHANGED vars
  PROVE  Core'
<1> DEFINE Same == UNCHANGED <<owner, inserted, stale, map, native>>
<1>q. ASSUME NEW d, Keeps(d, {}, {}), Same, SameOffers PROVE Core'
  BY <1>q, QuietStep
<1>p. ASSUME NEW f, Pushed(f), f.at \notin Lasting, Same, SameOffers PROVE Core'
  BY <1>p, <1>q, PushKeeps
<1>u. UNCHANGED requests => SameOffers
  BY DEF SameOffers
<1>l. /\ "remove" \notin Lasting /\ "data" \notin Lasting /\ "loop" \notin Lasting
      /\ "purge" \notin Lasting /\ "close" \notin Lasting /\ "handler" \notin Lasting
  BY DEF Lasting, Offering
<1>1. ASSUME NEW i \in Ids, Delete(i) PROVE Core'
  <2>1. Frame("remove", {}, {i}).at = "remove"
    BY DEF Frame
  <2> QED
    BY <1>1, <1>p, <1>u, <1>l, <2>1, DeletePushes DEF Delete
<1>2. ASSUME NEW i \in Ids, DeleteAsync(i) PROVE Core'
  <2>1. SameOffers
    BY <1>2 DEF DeleteAsync, SameOffers
  <2> QED
    BY <1>2, <1>q, <2>1, StayKeeps DEF DeleteAsync
<1>3. ASSUME NEW i \in Ids, Notify(i) PROVE Core'
  <2>1. Frame("data", {native[i]}, {i}).at = "data"
    BY DEF Frame
  <2> QED
    BY <1>3, <1>p, <1>u, <1>l, <2>1, NotifyPushes DEF Notify
<1>4. ASSUME NEW q \in requests, DeleteAsyncAnswer(q) PROVE Core'
  <2>1. SameOffers /\ Same
    BY <1>4 DEF DeleteAsyncAnswer, SameOffers
  <2>2. ASSUME NEW i \in Ids, Pushed(Frame("purge", {}, Closure(i))) PROVE Core'
    <3>1. Frame("purge", {}, Closure(i)).at = "purge"
      BY DEF Frame
    <3> QED
      BY <1>p, <1>l, <2>1, <2>2, <3>1
  <2> QED
    BY <1>4, <1>q, <2>1, <2>2, StayKeeps, DeleteAsyncAnswerPushes
<1>5. ASSUME RunIterate PROVE Core'
  <2>1. Frame("loop", {}, {}).at = "loop"
    BY DEF Frame
  <2> QED
    BY <1>5, <1>p, <1>u, <1>l, <2>1, RunIteratePushes DEF RunIterate
<1>6. ASSUME SessionLost PROVE Core'
  <2>1. Frame("purge", {}, Ids).at = "purge"
    BY DEF Frame
  <2> QED
    BY <1>6, <1>p, <1>u, <1>l, <2>1, SessionLostPushes DEF SessionLost
<1>7. ASSUME Close PROVE Core'
  <2>1. Frame("close", {}, Ids).at = "close"
    BY DEF Frame
  <2> QED
    BY <1>7, <1>p, <1>u, <1>l, <2>1, ClosePushes DEF Close
<1>8. ASSUME LoopEnd \/ CallbackReturn \/ PurgeEnd PROVE Core'
  <2>1. stack[1].at \notin Lasting
    <3>1. stack[1].at \in {"loop", "data", "handler", "purge"}
      BY <1>8, Top DEF LoopEnd, CallbackReturn, PurgeEnd
    <3> QED
      BY <1>l, <3>1
  <2>2. Same /\ SameOffers
    BY <1>8, <1>u DEF LoopEnd, CallbackReturn, PurgeEnd
  <2> QED
    BY <1>8, <1>q, <2>1, <2>2, Pops, PopKeeps
<1>9. ASSUME DeleteAnswer PROVE Core'
  <2>1. stack[1].at = "remove" /\ Same /\ SameOffers
    BY <1>9, <1>u, DeleteAnswerReplaces DEF DeleteAnswer
  <2>2. ASSUME NEW i \in Ids, Replaced(Frame("purge", {}, Closure(i))) PROVE Core'
    <3>1. Frame("purge", {}, Closure(i)).at = "purge"
      BY DEF Frame
    <3> QED
      BY <1>l, <1>q, <2>1, <2>2, <3>1, ReplaceKeeps
  <2> QED
    BY <1>9, <1>l, <1>q, <2>1, <2>2, PopKeeps, DeleteAnswerReplaces
<1>10. ASSUME Gone \/ UNCHANGED vars PROVE Core'
  BY <1>10, <1>q, <1>u, StayKeeps DEF Gone, vars
<1> QED
  BY <1>1, <1>2, <1>3, <1>4, <1>5, <1>6, <1>7, <1>8, <1>9, <1>10

-----------------------------------------------------------------------------
(***************************************************************************)
(* A call offers new contexts.                                             *)
(***************************************************************************)
LEMMA CreateStep ==
  ASSUME TypeOK, TypeOK', Core,
         NEW cs \in SUBSET Contexts, NEW is \in Targets, Create(cs, is)
  PROVE  Core'
<1> DEFINE f == Frame("create", cs, is)
<1>f. f.at = "create" /\ f.ctxs = cs
  BY DEF Frame
<1>k. 1 \in DOMAIN stack' /\ stack'[1] = f /\ Keeps(1, {}, {1})
  BY CreatePushes, PushKeeps
<1>e. /\ UNCHANGED <<inserted, stale, map, native, requests>>
      /\ \A c \in cs : owner[c] = "none" /\ owner'[c] = "caller"
      /\ \A c \in Contexts \ cs : owner'[c] = owner[c]
  BY DEF Create, NewContexts
<1>o. /\ \A k \in DOMAIN stack : stack[k].at \in Offering => stack[k].ctxs \subseteq Contexts \ cs
      /\ \A q \in requests : q.ctxs \subseteq Contexts \ cs
  <2>1. ASSUME NEW k \in DOMAIN stack PROVE stack[k].ctxs \subseteq Contexts
    BY StackFrames, FrameFields
  <2>2. \A q \in requests : q.ctxs \subseteq Contexts
    BY DEF TypeOK
  <2> QED
    BY <1>e, <2>1, <2>2 DEF Core, OffersOwned, Offering, Creating
<1> HIDE DEF f
<1>1. OffersOwned'
  <2>1. ASSUME NEW k \in DOMAIN stack', NEW c \in stack'[k].ctxs, stack'[k].at \in Offering
        PROVE  IF stack'[k].at = "answered" THEN owner'[c] = "request" ELSE owner'[c] = "caller"
    <3>1. CASE k = 1
      BY <1>e, <1>f, <1>k, <2>1, <3>1
    <3>2. CASE k # 1
      BY <1>e, <1>k, <1>o, <2>1, <3>2 DEF Keeps, Core, OffersOwned, Lasting, Offering, Creating
    <3> QED  BY <3>1, <3>2
  <2>2. \A q \in requests' : \A c \in q.ctxs : owner'[c] = "request"
    BY <1>e, <1>o DEF Core, OffersOwned
  <2> QED
    BY <2>1, <2>2 DEF OffersOwned, Offering, Creating
<1>2. OffersApart'
  <2>1. ASSUME NEW k \in DOMAIN stack', k # 1, stack'[k].at \in Offering
        PROVE  k - 1 \in DOMAIN stack /\ stack[k - 1] = stack'[k] /\ stack'[k].ctxs \cap cs = {}
    BY <1>k, <1>o, <2>1 DEF Keeps, Lasting
  <2>2. ASSUME NEW k \in DOMAIN stack', NEW l \in DOMAIN stack', k # l,
               stack'[k].at \in Offering, stack'[l].at \in Offering
        PROVE  stack'[k].ctxs \cap stack'[l].ctxs = {}
    <3>1. CASE k = 1 \/ l = 1
      BY <1>f, <1>k, <2>1, <2>2, <3>1
    <3>2. CASE k # 1 /\ l # 1
      BY <1>k, <2>1, <2>2, <3>2 DEF Keeps, Core, OffersApart
    <3> QED  BY <3>1, <3>2
  <2>3. ASSUME NEW k \in DOMAIN stack', NEW q \in requests', stack'[k].at = "answered"
        PROVE  stack'[k].ctxs \cap q.ctxs = {}
    <3>1. k # 1
      BY <1>f, <1>k, <2>3
    <3> QED
      BY <1>e, <2>1, <2>3, <3>1 DEF Core, OffersApart, Offering
  <2>4. \A p, q \in requests' : p # q => p.ctxs \cap q.ctxs = {}
    BY <1>e DEF Core, OffersApart
  <2> QED
    BY <2>2, <2>3, <2>4 DEF OffersApart
<1>3. OffersPending'
  BY <1>e, <1>f, <1>k, PendingKept DEF Core, Offering
<1>4. AnswersFit'
  <2> SUFFICES ASSUME NEW k \in DOMAIN stack', stack'[k].at \in Answered
               PROVE  Answer(stack[k])'
    BY DEF AnswersFit
  <2>1. k # 1
    BY <1>f, <1>k DEF Answered
  <2>2. k - 1 \in DOMAIN stack /\ stack[k - 1] = stack'[k]
    BY <1>k, <2>1 DEF Keeps, Lasting, Offering, Answered
  <2>3. Answer(stack[k - 1])
    BY <2>2 DEF Core, AnswersFit
  <2> QED
    BY <1>e, <2>2, <2>3 DEF Answer, FreeInMap
<1>5. NativeFits'
  <2>1. ASSUME NEW i \in Ids, Registering(i) PROVE Registering(i)'
    <3>1. PICK k \in DOMAIN stack : stack[k].at \in Answered /\ <<i, native[i]>> \in stack[k].res
      BY <2>1 DEF Registering
    <3>2. k + 1 \in DOMAIN stack' /\ stack'[k + 1] = stack[k]
      BY <1>k, <3>1 DEF Keeps, Lasting, Offering, Answered
    <3> QED
      BY <1>e, <3>1, <3>2 DEF Registering
  <2> QED
    BY <1>e, <2>1 DEF Core, NativeFits
<1>6. MapOwns'
  <2>1. \A c \in Contexts : owner'[c] \in {"map", "freed"} <=> owner[c] \in {"map", "freed"}
    BY <1>e
  <2>2. \A c \in Contexts : owner'[c] = "map" <=> owner[c] = "map"
    BY <1>e
  <2> QED
    BY <1>e, <2>1, <2>2 DEF Core, MapOwns, TypeOK
<1>7. DeletesFit'
  BY <1>e, <1>f, <1>k, DeletesKept DEF Core
<1>8. StoredOrStale'
  BY <1>e, <1>k, StoredKept DEF Core
<1>9. DeleteCallbackRan'
  BY <1>e DEF Core, DeleteCallbackRan, Alive, TypeOK
<1> QED
  BY <1>1, <1>2, <1>3, <1>4, <1>5, <1>6, <1>7, <1>8, <1>9 DEF Core

LEMMA CreateAsyncStep ==
  ASSUME TypeOK, TypeOK', Core,
         NEW cs \in SUBSET Contexts, NEW is \in Targets, CreateAsync(cs, is)
  PROVE  Core'
<1> DEFINE n == [ctxs |-> cs, ids |-> is]
<1>k. Keeps(0, {}, {})
  BY StayKeeps DEF CreateAsync
<1>e. /\ UNCHANGED <<inserted, stale, map, native, stack>>
      /\ requests' = requests \cup {n} /\ n.ctxs = cs
      /\ \A c \in cs : owner[c] = "none" /\ owner'[c] = "request"
      /\ \A c \in Contexts \ cs : owner'[c] = owner[c]
  BY DEF CreateAsync, NewContexts
<1>o. /\ \A k \in DOMAIN stack : stack[k].at \in Offering => stack[k].ctxs \subseteq Contexts \ cs
      /\ \A q \in requests : q.ctxs \subseteq Contexts \ cs
  <2>1. ASSUME NEW k \in DOMAIN stack PROVE stack[k].ctxs \subseteq Contexts
    BY StackFrames, FrameFields
  <2>2. \A q \in requests : q.ctxs \subseteq Contexts
    BY DEF TypeOK
  <2> QED
    BY <1>e, <2>1, <2>2 DEF Core, OffersOwned, Offering, Creating
<1> HIDE DEF n
<1>1. OffersOwned'
  <2>1. ASSUME NEW k \in DOMAIN stack, NEW c \in stack[k].ctxs, stack[k].at \in Offering
        PROVE  owner'[c] = owner[c]
    BY <1>e, <1>o, <2>1
  <2>2. \A q \in requests : \A c \in q.ctxs : owner'[c] = owner[c]
    BY <1>e, <1>o
  <2> QED
    BY <1>e, <2>1, <2>2 DEF Core, OffersOwned, Offering, Creating
<1>2. OffersApart'
  BY <1>e, <1>o DEF Core, OffersApart, Offering
<1>3. OffersPending'
  BY <1>e, <1>k, PendingKept DEF Core
<1>4. AnswersFit'
  BY <1>e DEF Core, AnswersFit, Answer, FreeInMap
<1>5. NativeFits'
  BY <1>e DEF Core, NativeFits, Registering
<1>6. MapOwns'
  <2>1. \A c \in Contexts : owner'[c] \in {"map", "freed"} <=> owner[c] \in {"map", "freed"}
    BY <1>e
  <2>2. \A c \in Contexts : owner'[c] = "map" <=> owner[c] = "map"
    BY <1>e
  <2> QED
    BY <1>e, <2>1, <2>2 DEF Core, MapOwns, TypeOK
<1>7. DeletesFit'
  BY <1>e, <1>k, DeletesKept DEF Core
<1>8. StoredOrStale'
  BY <1>e, <1>k, StoredKept DEF Core
<1>9. DeleteCallbackRan'
  BY <1>e DEF Core, DeleteCallbackRan, Alive, TypeOK
<1> QED
  BY <1>1, <1>2, <1>3, <1>4, <1>5, <1>6, <1>7, <1>8, <1>9 DEF Core

-----------------------------------------------------------------------------
(***************************************************************************)
(* An answer registers items.  It finds the identifiers free: neither the  *)
(* C client nor a delete callback has them, so the map has at most a stale *)
(* context under them.                                                     *)
(***************************************************************************)
\* The C client's items become new, for the pairs in r.
NewItems(cs, is, r, new) ==
    /\ r \in SUBSET (is \X cs) /\ Functional(r)
    /\ \A p \in r : FreeInMap(p[1]) /\ native[p[1]] = None /\ new[p[1]] = p[2]
    /\ \A i \in Ids : new[i] = native[i] \/ (<<i, new[i]>> \in r /\ native[i] = None)
    /\ \A i, j \in Ids : new[i] # None /\ new[i] = new[j] => i = j

LEMMA AnswerRegisters ==
  ASSUME TypeOK, Core, NoneBusy,
         NEW cs \in SUBSET Contexts, NEW is \in SUBSET Ids,
         \A c \in cs : owner[c] \notin {"map", "freed"},
         NEW r \in Answers(cs, is) \cup {{}}
  PROVE  NewItems(cs, is, r, Updated(native, r))
<1>1. /\ r \in SUBSET (is \X cs) /\ r \in SUBSET (Ids \X Contexts) /\ Functional(r)
      /\ \A p \in r : p[1] \in Ids /\ Free(p[1])
  BY DEF Answers, Functional
<1>2. ASSUME NEW p \in r
      PROVE  (map[p[1]] = None \/ map[p[1]] \in stale) /\ native[p[1]] = None
  <2> DEFINE i == p[1]
  <2>1. i \in Ids /\ native[i] = None
    BY <1>1, <1>2 DEF Free
  <2>2. \A k \in DOMAIN stack : stack[k].at = "delete" => i \notin stack[k].ids
    BY <1>1, <1>2 DEF Free
  <2> HIDE DEF i
  <2>3. ASSUME map[i] # None, map[i] \notin stale PROVE FALSE
    <3>1. PICK k \in DOMAIN stack : stack[k].at = "delete" /\ map[i] \in stack[k].ctxs
      BY <2>1, <2>3 DEF Core, StoredOrStale
    <3>2. PICK j \in Ids : stack[k].ids = {j} /\ stack[k].ctxs = {map[j]} /\ map[j] # None
      BY <3>1 DEF Core, DeletesFit, Deleted
    <3>3. i = j
      BY <2>1, <3>1, <3>2 DEF Core, MapOwns
    <3> QED
      BY <2>2, <3>1, <3>2, <3>3
  <2> QED
    BY <2>1, <2>3 DEF i
<1>3. native \in [Ids -> Contexts \cup {None}]
  BY DEF TypeOK
<1> DEFINE u == Updated(native, r)
<1>4. /\ u \in [Ids -> Contexts \cup {None}]
      /\ \A i \in Ids : u[i] = native[i] \/ <<i, u[i]>> \in r
      /\ \A p \in r : u[p[1]] = p[2]
  BY <1>1, <1>3, UpdatedIs
<1> HIDE DEF u
<1>5. \A i \in Ids : u[i] = native[i] \/ (<<i, u[i]>> \in r /\ native[i] = None)
  <2> SUFFICES ASSUME NEW i \in Ids, <<i, u[i]>> \in r PROVE native[i] = None
    BY <1>4
  <2> QED
    BY <1>2
<1>6. ASSUME NEW i \in Ids, NEW j \in Ids, u[i] # None, u[i] = u[j] PROVE i = j
  <2>1. \A k \in Ids : <<k, u[k]>> \in r => u[k] \in cs
    BY <1>1
  <2>2. \A k \in Ids : \A c \in cs : native[k] # c
    BY OfferedApart
  <2>3. CASE <<i, u[i]>> \in r /\ <<j, u[j]>> \in r
    BY <1>1, <1>6, <2>3 DEF Functional
  <2>4. CASE u[i] = native[i] /\ u[j] = native[j]
    BY <1>6, <2>4 DEF Core, NativeFits
  <2> QED
    BY <1>4, <1>6, <2>1, <2>2, <2>3, <2>4
<1> QED
  BY <1>1, <1>2, <1>4, <1>5, <1>6 DEF u, NewItems, FreeInMap

\* What an answer on top of the stack means for the items and the maps.
LEMMA AnswerKeeps ==
  ASSUME TypeOK, TypeOK', Core, NoneBusy,
         NEW cs \in SUBSET Contexts, NEW is \in SUBSET Ids,
         \A c \in cs : owner[c] \notin {"map", "freed"},
         NEW r \in Answers(cs, is) \cup {{}}, native' = Updated(native, r),
         UNCHANGED <<owner, inserted, stale, map>>,
         1 \in DOMAIN stack', stack'[1].at \in Answered,
         stack'[1].ctxs = cs, stack'[1].ids = is, stack'[1].res = r,
         NEW d, NEW gone, Keeps(d, gone, {1}),
         \A k \in DOMAIN stack \cap gone : stack[k].at # "delete"
  PROVE  AnswersFit' /\ NativeFits' /\ MapOwns' /\ DeletesFit' /\ StoredOrStale' /\ DeleteCallbackRan'
<1>1. /\ r \in SUBSET (is \X cs) /\ Functional(r)
      /\ \A p \in r : FreeInMap(p[1]) /\ native[p[1]] = None /\ native'[p[1]] = p[2]
      /\ \A i \in Ids : native'[i] = native[i] \/ (<<i, native'[i]>> \in r /\ native[i] = None)
      /\ \A i, j \in Ids : native'[i] # None /\ native'[i] = native'[j] => i = j
  <2>1. NewItems(cs, is, r, Updated(native, r))
    BY AnswerRegisters
  <2>2. NewItems(cs, is, r, native')
    BY <2>1
  <2> QED
    BY <2>2 DEF NewItems
<1>2. \A c \in cs : \A i \in Ids : map[i] # c
  BY OfferedApart
<1>3. \A i \in Ids : native'[i] = native[i] \/ (native'[i] \in cs /\ native[i] = None)
  BY <1>1
<1>4. AnswersFit'
  <2> SUFFICES ASSUME NEW k \in DOMAIN stack', stack'[k].at \in Answered
               PROVE  Answer(stack[k])'
    BY DEF AnswersFit
  <2>1. k = 1
    <3>1. \A l \in DOMAIN stack : stack[l].at \notin Answered
      BY NoAnswers DEF Core
    <3> QED
      BY <3>1 DEF Keeps, Lasting, Offering, Answered
  <2>2. \A p \in r : FreeInMap(p[1])'
    BY <1>1 DEF FreeInMap
  <2> QED
    BY <1>1, <2>1, <2>2 DEF Answer, Functional
<1>5. NativeFits'
  <2>1. ASSUME NEW i \in Ids, native'[i] # None
        PROVE  Registering(i)' \/ (map'[i] = native'[i] /\ native'[i] \notin stale')
    <3>1. CASE native'[i] = native[i]
      BY <2>1, <3>1, NoAnswers DEF Core
    <3>2. CASE <<i, native'[i]>> \in r
      BY <3>2 DEF Registering
    <3> QED
      BY <1>1, <3>1, <3>2
  <2> QED
    BY <1>1, <2>1 DEF NativeFits
<1>6. MapOwns'
  BY DEF Core, MapOwns
<1>7. DeletesFit'
  <2>1. \A i \in Ids : (\A j \in Ids : native[j] # map[i]) => \A j \in Ids : native'[j] # map[i]
    BY <1>2, <1>3
  <2>2. \A k \in DOMAIN stack' \cap {1} : stack'[k].at # "delete"
    BY DEF Answered
  <2> QED
    BY <2>1, <2>2, DeletesKept DEF Core
<1>8. StoredOrStale'
  <2>1. \A i \in Ids : map[i] # None /\ native[i] = map[i] => native'[i] = map[i]
    BY <1>3
  <2> QED
    BY <2>1, StoredKept DEF Core
<1>9. DeleteCallbackRan'
  BY DEF Core, DeleteCallbackRan, Alive
<1> QED
  BY <1>4, <1>5, <1>6, <1>7, <1>8, <1>9

LEMMA CreateAnswerStep ==
  ASSUME TypeOK, TypeOK', Nesting, Core, CreateAnswer
  PROVE  Core'
<1> DEFINE cs == stack[1].ctxs
           is == stack[1].ids
<1>1. PICK r \in Answers(cs, is), f \in Frames :
        /\ native' = Updated(native, r)
        /\ f.at = "created" /\ f.ctxs = cs /\ f.ids = is /\ f.res = r
        /\ Replaced(f)
  BY CreateAnswerReplaces
<1>2. /\ stack # <<>> /\ stack[1].at = "create" /\ stack[1] \in Frames
      /\ UNCHANGED <<owner, inserted, stale, map, requests>>
  BY CreateAnswerReplaces, Top DEF CreateAnswer
<1>3. NoneBusy
  BY <1>2, Below DEF Busy, Answered
<1>k. 1 \in DOMAIN stack' /\ 1 \in DOMAIN stack /\ stack'[1] = f /\ Keeps(0, {1}, {1})
  BY <1>1, ReplaceKeeps
<1>4. cs \in SUBSET Contexts /\ is \in SUBSET Ids /\ \A c \in cs : owner[c] = "caller"
  BY <1>2, <1>k, FrameFields DEF Core, OffersOwned, Creating
<1>r. \A k \in DOMAIN stack' : k # 1 /\ stack'[k].at \in Lasting =>
          k \in DOMAIN stack /\ stack[k] = stack'[k]
  <2>1. \A k \in Nat : k - 0 = k
    OBVIOUS
  <2> QED
    BY <1>k, <2>1 DEF Keeps
<1> HIDE DEF cs, is
<1>5. AnswersFit' /\ NativeFits' /\ MapOwns' /\ DeletesFit' /\ StoredOrStale' /\ DeleteCallbackRan'
  <2>1. \A k \in DOMAIN stack \cap {1} : stack[k].at # "delete"
    BY <1>2
  <2>2. \A c \in cs : owner[c] \notin {"map", "freed"}
    BY <1>4
  <2> QED
    BY <1>1, <1>2, <1>3, <1>4, <1>k, <2>1, <2>2, AnswerKeeps DEF Answered
<1>6. OffersOwned'
  <2>1. ASSUME NEW k \in DOMAIN stack', NEW c \in stack'[k].ctxs, stack'[k].at \in Offering
        PROVE  IF stack'[k].at = "answered" THEN owner'[c] = "request" ELSE owner'[c] = "caller"
    <3>1. CASE k = 1
      BY <1>1, <1>2, <1>4, <1>k, <2>1, <3>1
    <3>2. CASE k # 1
      BY <1>2, <1>r, <2>1, <3>2 DEF Core, OffersOwned, Lasting, Offering, Creating
    <3> QED  BY <3>1, <3>2
  <2> QED
    BY <1>2, <2>1 DEF Core, OffersOwned, Offering, Creating
<1>7. OffersApart'
  <2>1. ASSUME NEW k \in DOMAIN stack', stack'[k].at \in Offering
        PROVE  k \in DOMAIN stack /\ stack[k].at \in Offering /\ stack[k].ctxs = stack'[k].ctxs
    BY <1>1, <1>2, <1>k, <1>r, <2>1 DEF Lasting, Offering, cs
  <2>2. ASSUME NEW k \in DOMAIN stack', stack'[k].at = "answered"
        PROVE  k \in DOMAIN stack /\ stack[k].at = "answered" /\ stack[k].ctxs = stack'[k].ctxs
    BY <1>1, <1>k, <1>r, <2>2 DEF Lasting, Offering
  <2>3. \A k, l \in DOMAIN stack' :
        stack'[k].at \in Offering /\ stack'[l].at \in Offering /\ k # l =>
            stack'[k].ctxs \cap stack'[l].ctxs = {}
    BY <2>1 DEF Core, OffersApart
  <2>4. \A k \in DOMAIN stack' : \A q \in requests' :
        stack'[k].at = "answered" => stack'[k].ctxs \cap q.ctxs = {}
    BY <1>2, <2>2 DEF Core, OffersApart
  <2>5. \A p, q \in requests' : p # q => p.ctxs \cap q.ctxs = {}
    BY <1>2 DEF Core, OffersApart
  <2> QED
    BY <2>3, <2>4, <2>5 DEF OffersApart
<1>8. OffersPending'
  <2>1. ASSUME NEW c \in cs
        PROVE  \E k \in DOMAIN stack' : stack'[k].at \in Offering /\ c \in stack'[k].ctxs
    BY <1>1, <1>k DEF Offering
  <2>2. ASSUME NEW c \in Contexts, c \notin cs, NEW k \in DOMAIN stack \cap {1}
        PROVE  c \notin stack[k].ctxs
    BY <2>2 DEF cs
  <2> QED
    BY <1>2, <1>k, <2>1, <2>2, PendingKept DEF Core
<1> QED
  BY <1>5, <1>6, <1>7, <1>8 DEF Core

LEMMA CreateAsyncAnswerStep ==
  ASSUME TypeOK, TypeOK', Nesting, Core, NEW q \in requests, CreateAsyncAnswer(q)
  PROVE  Core'
<1>1. PICK r \in SUBSET (q.ids \X q.ctxs), f \in Frames :
        /\ At({"close"}) => r = {}
        /\ ~At({"close"}) => r \in Answers(q.ctxs, q.ids)
        /\ native' = Updated(native, r)
        /\ f.at = "answered" /\ f.ctxs = q.ctxs /\ f.ids = q.ids /\ f.res = r
        /\ Pushed(f)
  BY CreateAsyncAnswerPushes
<1>2. /\ At(Waiting) \/ At({"close"})
      /\ requests' = requests \ {q}
      /\ UNCHANGED <<owner, inserted, stale, map>>
  BY DEF CreateAsyncAnswer
<1>3. NoneBusy
  <2>1. Waiting \cap Busy = {} /\ {"close"} \cap Busy = {}
    BY DEF Waiting, Busy, Answered
  <2> QED
    BY <1>2, <2>1, BelowTop
<1>k. 1 \in DOMAIN stack' /\ stack'[1] = f /\ Keeps(1, {}, {1})
  BY <1>1, PushKeeps
<1>4. q.ctxs \in SUBSET Contexts /\ q.ids \in SUBSET Ids /\ \A c \in q.ctxs : owner[c] = "request"
  BY DEF TypeOK, Core, OffersOwned
<1>r. \A k \in DOMAIN stack' : k # 1 /\ stack'[k].at \in Lasting =>
          k - 1 \in DOMAIN stack /\ stack[k - 1] = stack'[k]
  BY <1>k DEF Keeps
<1>5. AnswersFit' /\ NativeFits' /\ MapOwns' /\ DeletesFit' /\ StoredOrStale' /\ DeleteCallbackRan'
  <2>1. r \in Answers(q.ctxs, q.ids) \cup {{}}
    BY <1>1
  <2>2. \A c \in q.ctxs : owner[c] \notin {"map", "freed"}
    BY <1>4
  <2> QED
    BY <1>1, <1>2, <1>3, <1>4, <1>k, <2>1, <2>2, AnswerKeeps DEF Answered
<1>6. OffersOwned'
  <2>1. ASSUME NEW k \in DOMAIN stack', NEW c \in stack'[k].ctxs, stack'[k].at \in Offering
        PROVE  IF stack'[k].at = "answered" THEN owner'[c] = "request" ELSE owner'[c] = "caller"
    <3>1. CASE k = 1
      BY <1>1, <1>2, <1>4, <1>k, <2>1, <3>1
    <3>2. CASE k # 1
      BY <1>2, <1>r, <2>1, <3>2 DEF Core, OffersOwned, Lasting, Offering, Creating
    <3> QED  BY <3>1, <3>2
  <2> QED
    BY <1>2, <2>1 DEF Core, OffersOwned, Offering, Creating
<1>7. OffersApart'
  <2>1. ASSUME NEW k \in DOMAIN stack', k # 1, stack'[k].at \in Offering
        PROVE  /\ k - 1 \in DOMAIN stack /\ stack[k - 1] = stack'[k]
               /\ stack'[k].ctxs \cap q.ctxs = {}
    <3>1. k - 1 \in DOMAIN stack /\ stack[k - 1] = stack'[k]
      BY <1>r, <2>1 DEF Lasting
    <3>2. CASE stack'[k].at = "answered"
      BY <3>1, <3>2 DEF Core, OffersApart
    <3>3. CASE stack'[k].at \in Creating
      BY <1>4, <3>1, <3>3 DEF Core, OffersOwned
    <3> QED
      BY <2>1, <3>1, <3>2, <3>3 DEF Offering, Creating
  <2>2. ASSUME NEW k \in DOMAIN stack', NEW l \in DOMAIN stack', k # l,
               stack'[k].at \in Offering, stack'[l].at \in Offering
        PROVE  stack'[k].ctxs \cap stack'[l].ctxs = {}
    <3>1. CASE k = 1 \/ l = 1
      BY <1>1, <1>k, <2>1, <2>2, <3>1
    <3>2. CASE k # 1 /\ l # 1
      <4>1. k - 1 # l - 1
        BY <1>k, <2>2 DEF Keeps
      <4> QED
        BY <2>1, <2>2, <3>2, <4>1 DEF Core, OffersApart
    <3> QED  BY <3>1, <3>2
  <2>3. ASSUME NEW k \in DOMAIN stack', NEW p \in requests', stack'[k].at = "answered"
        PROVE  stack'[k].ctxs \cap p.ctxs = {}
    <3>1. CASE k = 1
      BY <1>1, <1>2, <1>k, <2>3, <3>1 DEF Core, OffersApart
    <3>2. CASE k # 1
      BY <1>2, <2>1, <2>3, <3>2 DEF Core, OffersApart, Offering
    <3> QED  BY <3>1, <3>2
  <2>4. \A p, o \in requests' : p # o => p.ctxs \cap o.ctxs = {}
    BY <1>2 DEF Core, OffersApart
  <2> QED
    BY <2>2, <2>3, <2>4 DEF OffersApart
<1>8. OffersPending'
  <2>1. ASSUME NEW c \in q.ctxs
        PROVE  \E k \in DOMAIN stack' : stack'[k].at \in Offering /\ c \in stack'[k].ctxs
    BY <1>1, <1>k DEF Offering
  <2>2. ASSUME NEW c \in Contexts, c \notin q.ctxs, NEW p \in requests, c \in p.ctxs
        PROVE  p \in requests'
    BY <1>2, <2>2
  <2> QED
    BY <1>2, <1>k, <2>1, <2>2, PendingKept DEF Core
<1> QED
  BY <1>5, <1>6, <1>7, <1>8 DEF Core

-----------------------------------------------------------------------------
(***************************************************************************)
(* A change of the map: the pairs in r come in, stale contexts may leave,  *)
(* and of the contexts that were offered none is left over.                *)
(***************************************************************************)
LEMMA MapChanges ==
  ASSUME TypeOK, TypeOK', Core,
         NEW o \in SUBSET Contexts, \A c \in o : owner[c] \in {"caller", "request"},
         NEW r \in SUBSET (Ids \X o), Functional(r),
         \A p \in r : map'[p[1]] = p[2] /\ native[p[1]] = p[2] /\ FreeInMap(p[1]),
         \A i \in Ids : \/ map'[i] = map[i]
                        \/ map'[i] = None /\ map[i] \in stale
                        \/ <<i, map'[i]>> \in r,
         \A i \in Ids : Registering(i) => <<i, native[i]>> \in r,
         owner' = OwnersAfter(map', o), inserted' = inserted \cup {p[2] : p \in r},
         UNCHANGED <<stale, native>>,
         \A k \in DOMAIN stack' : stack'[k].at \notin Answered,
         NEW d, NEW gone, Keeps(d, gone, {}),
         \A k \in DOMAIN stack \cap gone : stack[k].at # "delete"
  PROVE  /\ AnswersFit' /\ NativeFits' /\ MapOwns' /\ DeletesFit' /\ StoredOrStale'
         /\ DeleteCallbackRan'
         /\ \A c \in Contexts \ o : owner[c] \in {"caller", "request"} => owner'[c] = owner[c]
         /\ \A c \in Contexts : owner'[c] \in {"caller", "request"} => c \notin o /\ owner'[c] = owner[c]
<1> DEFINE oa == OwnersAfter(map', o)
<1>o. \A c \in Contexts :
        /\ (\E i \in Ids : map'[i] = c) => owner'[c] = "map"
        /\ (\A i \in Ids : map'[i] # c) =>
              owner'[c] = IF c \in o \/ owner[c] = "map" THEN "freed" ELSE owner[c]
  <2>1. \A c \in Contexts :
        /\ (\E i \in Ids : map'[i] = c) => oa[c] = "map"
        /\ (\A i \in Ids : map'[i] # c) =>
              oa[c] = IF c \in o \/ owner[c] = "map" THEN "freed" ELSE owner[c]
    BY OwnersAre
  <2> QED
    BY <2>1
<1> HIDE DEF oa
<1>m. \A i \in Ids : map[i] \in Contexts \cup {None} /\ map'[i] \in Contexts \cup {None}
  BY DEF TypeOK
<1>r. \A i \in Ids : <<i, map'[i]>> \in r =>
        /\ map'[i] \in o /\ native[i] = map'[i] /\ (map[i] = None \/ map[i] \in stale)
  <2> SUFFICES ASSUME NEW i \in Ids, <<i, map'[i]>> \in r
               PROVE  map'[i] \in o /\ native[i] = map'[i] /\ FreeInMap(i)
    BY DEF FreeInMap
  <2> DEFINE p == <<i, map'[i]>>
  <2>1. p \in r /\ p[1] = i /\ p[2] = map'[i]
    OBVIOUS
  <2> HIDE DEF p
  <2>2. native[p[1]] = p[2] /\ FreeInMap(p[1])
    BY <2>1
  <2> QED
    BY <2>1, <2>2
<1>a. \A c \in o : /\ \A i \in Ids : map[i] # c
                   /\ c \notin stale /\ c \notin inserted
  <2> TAKE c \in o
  <2>1. c \in Contexts /\ owner[c] \notin {"map", "freed"}
    OBVIOUS
  <2> QED
    BY <2>1, OfferedApart
<1>i. \A c \in inserted' : c \in inserted \/ \E i \in Ids : map'[i] = c
  OBVIOUS
<1>1. AnswersFit'
  BY DEF AnswersFit
<1>2. NativeFits'
  <2>1. ASSUME NEW i \in Ids, native[i] # None PROVE map'[i] = native[i] /\ native[i] \notin stale
    <3>1. CASE Registering(i)
      <4> DEFINE p == <<i, native[i]>>
      <4>1. p \in r /\ p[1] = i /\ p[2] = native[i] /\ p[2] \in o
        BY <3>1
      <4> HIDE DEF p
      <4>2. map'[p[1]] = p[2]
        BY <4>1
      <4> QED
        BY <1>a, <4>1, <4>2
    <3>2. CASE ~Registering(i)
      <4>1. map[i] = native[i] /\ native[i] \notin stale
        BY <2>1, <3>2 DEF Core, NativeFits
      <4> QED
        BY <1>r, <4>1
    <3> QED  BY <3>1, <3>2
  <2>2. \A i, j \in Ids : native'[i] # None /\ native'[i] = native'[j] => i = j
    BY DEF Core, NativeFits
  <2> QED
    BY <2>1, <2>2 DEF NativeFits
<1>3. MapOwns'
  <2>1. ASSUME NEW i \in Ids, map'[i] # None PROVE owner'[map'[i]] = "map" /\ map'[i] \in inserted'
    <3>1. map'[i] \in Contexts
      BY <1>m, <2>1
    <3>2. owner'[map'[i]] = "map"
      BY <1>o, <3>1
    <3>3. CASE map'[i] = map[i]
      BY <2>1, <3>2, <3>3 DEF Core, MapOwns
    <3>4. CASE <<i, map'[i]>> \in r
      <4> DEFINE p == <<i, map'[i]>>
      <4>1. p \in r /\ p[2] = map'[i]
        BY <3>4
      <4> HIDE DEF p
      <4>2. p[2] \in inserted'
        BY <4>1
      <4> QED
        BY <3>2, <4>1, <4>2
    <3> QED  BY <2>1, <3>3, <3>4
  <2>2. \A c \in Contexts : owner'[c] = "map" => \E i \in Ids : map'[i] = c
    BY <1>o
  <2>3. ASSUME NEW i \in Ids, NEW j \in Ids, map'[i] # None, map'[i] = map'[j] PROVE i = j
    <3>1. CASE <<i, map'[i]>> \in r /\ <<j, map'[j]>> \in r
      <4> DEFINE p == <<i, map'[i]>>
                 q == <<j, map'[j]>>
      <4>1. p \in r /\ q \in r /\ p[2] = q[2] /\ p[1] = i /\ q[1] = j
        BY <2>3, <3>1
      <4> HIDE DEF p, q
      <4>2. p = q
        BY <4>1 DEF Functional
      <4> QED
        BY <4>1, <4>2
    <3>2. CASE map'[i] = map[i] /\ map'[j] = map[j]
      <4>1. \A k, l \in Ids : map[k] # None /\ map[k] = map[l] => k = l
        BY DEF Core, MapOwns
      <4>2. map[i] # None /\ map[i] = map[j]
        BY ONLY <2>3, <3>2
      <4> QED
        BY ONLY <4>1, <4>2, i \in Ids, j \in Ids
    <3>3. CASE <<i, map'[i]>> \in r /\ map'[j] = map[j]
      BY <1>a, <1>r, <2>3, <3>3
    <3>4. CASE map'[i] = map[i] /\ <<j, map'[j]>> \in r
      BY <1>a, <1>r, <2>3, <3>4
    <3> QED  BY <2>3, <3>1, <3>2, <3>3, <3>4
  <2>4. ASSUME NEW c \in inserted' \cup stale' PROVE owner'[c] \in {"map", "freed"}
    <3>1. c \in Contexts
      BY DEF TypeOK
    <3>2. CASE \E i \in Ids : map'[i] = c
      BY <1>o, <3>1, <3>2
    <3>3. CASE \A i \in Ids : map'[i] # c
      <4>1. c \in inserted \cup stale
        BY <1>i, <3>3
      <4>2. owner[c] \in {"map", "freed"}
        BY <4>1 DEF Core, MapOwns
      <4> QED
        BY <1>o, <3>1, <3>3, <4>2
    <3> QED  BY <3>2, <3>3
  <2> QED
    BY <2>1, <2>2, <2>3, <2>4 DEF MapOwns
<1>4. DeletesFit'
  <2>1. \A i \in Ids : map[i] # None /\ map[i] \notin stale => map'[i] = map[i]
    BY <1>r
  <2> QED
    BY <2>1, DeletesKept DEF Core
<1>5. StoredOrStale'
  <2>1. \A i \in Ids : map'[i] # None => map'[i] = map[i] \/ native[i] = map'[i]
    BY <1>r
  <2> QED
    BY <2>1, StoredKept DEF Core
<1>6. DeleteCallbackRan'
  <2> SUFFICES ASSUME NEW c \in inserted', owner'[c] = "freed" PROVE c \in stale
    BY DEF DeleteCallbackRan, Alive
  <2>1. c \in Contexts
    BY DEF TypeOK
  <2>2. c \in inserted /\ \A i \in Ids : map'[i] # c
    BY <1>i, <1>o, <2>1
  <2>3. CASE owner[c] = "map"
    <3>1. PICK i \in Ids : map[i] = c
      BY <2>1, <2>3 DEF Core, MapOwns
    <3> QED
      BY <1>m, <1>r, <2>1, <2>2, <3>1, NoneAssumption
  <2>4. CASE owner[c] = "freed"
    BY <2>2, <2>4 DEF Core, DeleteCallbackRan, Alive
  <2> QED
    BY <2>2, <2>3, <2>4 DEF Core, MapOwns
<1>7. ASSUME NEW c \in Contexts \ o, owner[c] \in {"caller", "request"} PROVE owner'[c] = owner[c]
  <2>1. \A i \in Ids : map[i] # c
    BY <1>7, OfferedApart
  <2>2. \A i \in Ids : map'[i] # c
    BY <1>7, <1>r, <2>1, NoneAssumption
  <2> QED
    BY <1>7, <1>o, <2>2
<1>8. ASSUME NEW c \in Contexts, owner'[c] \in {"caller", "request"}
      PROVE  c \notin o /\ owner'[c] = owner[c]
  BY <1>o, <1>8
<1> QED
  BY <1>1, <1>2, <1>3, <1>4, <1>5, <1>6, <1>7, <1>8

LEMMA ListStep ==
  ASSUME ~SyncInDataCallback, TypeOK, TypeOK', Nesting, Core,
         NEW is \in {SubIds, MonIds}, List(is)
  PROVE  Core'
<1>1. /\ UserSync /\ map' = EraseStale(is) /\ owner' = OwnersAfter(map', {})
      /\ UNCHANGED <<inserted, stale, native, requests, stack>>
  BY DEF List
<1>2. NoneBusy
  BY <1>1, BelowUser
<1>k. Keeps(0, {}, {})
  BY <1>1, StayKeeps
<1>3. \A i \in Ids : map'[i] = map[i] \/ (map'[i] = None /\ map[i] \in stale)
  <2>1. \A i \in Ids : \/ EraseStale(is)[i] = map[i]
                       \/ EraseStale(is)[i] = None /\ map[i] \in stale
    BY ErasedIs
  <2> QED
    BY <1>1, <2>1
<1>n. /\ \A i \in Ids : ~Registering(i)
      /\ \A k \in DOMAIN stack' : stack'[k].at \notin Answered
  BY <1>1, <1>2, NoAnswers DEF Core
<1>4. inserted' = inserted \cup {p[2] : p \in {}}
  BY <1>1
<1>5. /\ AnswersFit' /\ NativeFits' /\ MapOwns' /\ DeletesFit' /\ StoredOrStale'
      /\ DeleteCallbackRan'
      /\ \A c \in Contexts \ {} : owner[c] \in {"caller", "request"} => owner'[c] = owner[c]
      /\ \A c \in Contexts : owner'[c] \in {"caller", "request"} => owner'[c] = owner[c]
  <2>1. {} \in SUBSET Contexts /\ {} \in SUBSET (Ids \X {}) /\ Functional({})
    BY DEF Functional
  <2> QED
    BY <1>1, <1>3, <1>4, <1>k, <1>n, <2>1, MapChanges
<1>6. OffersOwned' /\ OffersApart'
  <2>1. \A k \in DOMAIN stack : stack[k].at \in Offering =>
            \A c \in stack[k].ctxs : owner'[c] = owner[c]
    <3> SUFFICES ASSUME NEW k \in DOMAIN stack, stack[k].at \in Offering, NEW c \in stack[k].ctxs
                 PROVE  owner'[c] = owner[c]
      OBVIOUS
    <3>1. c \in Contexts
      BY StackFrames, FrameFields
    <3>2. owner[c] \in {"caller", "request"}
      BY DEF Core, OffersOwned, Offering, Creating
    <3> QED
      BY <1>5, <3>1, <3>2
  <2>2. \A q \in requests : \A c \in q.ctxs : owner'[c] = owner[c]
    BY <1>5 DEF Core, OffersOwned, TypeOK
  <2> QED
    BY <1>1, <1>k, <2>1, <2>2, OffersKept DEF Core
<1>7. OffersPending'
  BY <1>1, <1>5, <1>k, PendingKept DEF Core
<1> QED
  BY <1>5, <1>6, <1>7 DEF Core

LEMMA StoreStep ==
  ASSUME TypeOK, TypeOK', Nesting, Core, Store
  PROVE  Core'
<1> DEFINE f == stack[1]
           o == f.ctxs
           r == f.res
           base == IF r = {} THEN map ELSE EraseStale(MapOf(f.ids))
<1>1. stack # <<>> /\ f \in Frames /\ f.at \in Answered /\ Head(stack) = f /\ 1 \in DOMAIN stack
  BY StoreMoves, StackFrames
<1>2. /\ map' = Updated(base, r) /\ owner' = OwnersAfter(map', o)
      /\ inserted' = inserted \cup {p[2] : p \in r}
      /\ UNCHANGED <<stale, native, requests>>
  BY <1>1 DEF Store, Stored
<1>f. o \in SUBSET Contexts /\ r \in SUBSET (Ids \X Contexts) /\ f.ids \in SUBSET Ids
  BY <1>1, FrameFields
<1>3. Answer(f)
  BY <1>1 DEF Core, AnswersFit
<1>4. r \in SUBSET (Ids \X o) /\ Functional(r)
  BY <1>3, <1>f DEF Answer, Functional
<1>5. \A i \in Ids : base[i] = map[i] \/ (base[i] = None /\ map[i] \in stale)
  BY ErasedIs
<1>6. base \in [Ids -> Contexts \cup {None}]
  BY ErasedIs DEF TypeOK
<1>7. /\ \A p \in r : map'[p[1]] = p[2]
      /\ \A i \in Ids : map'[i] = base[i] \/ <<i, map'[i]>> \in r
  <2> DEFINE u == Updated(base, r)
  <2> HIDE DEF base
  <2>1. /\ \A p \in r : u[p[1]] = p[2]
        /\ \A i \in Ids : u[i] = base[i] \/ <<i, u[i]>> \in r
    BY <1>4, <1>6, <1>f, UpdatedIs
  <2>2. map' = u
    BY <1>2
  <2> QED
    BY <2>1, <2>2
<1>8. \A p \in r : map'[p[1]] = p[2] /\ native[p[1]] = p[2] /\ FreeInMap(p[1])
  BY <1>3, <1>7 DEF Answer
<1>9. \A i \in Ids : \/ map'[i] = map[i]
                     \/ map'[i] = None /\ map[i] \in stale
                     \/ <<i, map'[i]>> \in r
  BY <1>5, <1>7
<1>10. \A k \in DOMAIN stack : stack[k].at \in Answered => k = 1
  BY <1>1 DEF Nesting, Answered
<1>11. \A i \in Ids : Registering(i) => <<i, native[i]>> \in r
  BY <1>10 DEF Registering
<1>k. \E d \in {-1, 0} : Keeps(d, {1}, {})
  <2>1. Frame("handler", {}, {}).at \notin Lasting
    BY DEF Frame, Lasting, Offering
  <2> QED
    BY <1>1, <2>1, StoreMoves, PopKeeps, ReplaceKeeps DEF Answered
<1>12. PICK d \in {-1, 0} : Keeps(d, {1}, {})
  BY <1>k
<1>13. \A k \in DOMAIN stack' : stack'[k].at \notin Answered
  BY <1>10, <1>12 DEF Keeps, Lasting, Offering, Answered
<1>14. \A k \in DOMAIN stack \cap {1} : stack[k].at # "delete"
  BY <1>1 DEF Answered
<1>15. \A c \in o : owner[c] \in {"caller", "request"}
  BY <1>1 DEF Core, OffersOwned, Answered, Creating
<1> HIDE DEF f, o, r, base
<1>16. /\ AnswersFit' /\ NativeFits' /\ MapOwns' /\ DeletesFit' /\ StoredOrStale'
       /\ DeleteCallbackRan'
       /\ \A c \in Contexts \ o : owner[c] \in {"caller", "request"} => owner'[c] = owner[c]
       /\ \A c \in Contexts : owner'[c] \in {"caller", "request"} => c \notin o /\ owner'[c] = owner[c]
  BY <1>2, <1>f, <1>4, <1>8, <1>9, <1>11, <1>12, <1>13, <1>14, <1>15, MapChanges
<1>17. OffersOwned' /\ OffersApart'
  <2>1. ASSUME NEW k \in DOMAIN stack \ {1}, stack[k].at \in Offering, NEW c \in stack[k].ctxs
        PROVE  owner'[c] = owner[c]
    <3>1. c \in Contexts
      BY StackFrames, FrameFields
    <3>2. owner[c] \in {"caller", "request"}
      BY <2>1 DEF Core, OffersOwned, Offering, Creating
    <3>3. c \notin o
      BY <1>1, <2>1 DEF Core, OffersApart, Offering, Answered, f, o
    <3> QED
      BY <1>16, <3>1, <3>2, <3>3
  <2>2. ASSUME NEW q \in requests, NEW c \in q.ctxs PROVE owner'[c] = owner[c]
    <3>1. c \in Contexts /\ owner[c] = "request"
      BY DEF TypeOK, Core, OffersOwned
    <3>2. c \notin o
      <4>1. CASE f.at = "answered"
        BY <1>1, <4>1 DEF Core, OffersApart, f, o
      <4>2. CASE f.at = "created"
        BY <1>1, <3>1, <4>2 DEF Core, OffersOwned, Creating, f, o
      <4> QED
        BY <1>1, <4>1, <4>2 DEF Answered
    <3> QED
      BY <1>16, <3>1, <3>2
  <2> QED
    BY <1>2, <1>12, <2>1, <2>2, OffersKept DEF Core
<1>18. OffersPending'
  <2>1. \A c \in Contexts : owner'[c] \in {"caller", "request"} =>
            /\ owner[c] \in {"caller", "request"}
            /\ \A k \in DOMAIN stack \cap {1} : c \notin stack[k].ctxs
    BY <1>16 DEF f, o
  <2> QED
    BY <1>2, <1>12, <2>1, PendingKept DEF Core
<1> QED
  BY <1>16, <1>17, <1>18 DEF Core

-----------------------------------------------------------------------------
(***************************************************************************)
(* Deletion.  The C client forgets the item and runs the delete callback,  *)
(* which marks the context when it is through.                             *)
(***************************************************************************)
LEMMA PurgeStep ==
  ASSUME TypeOK, TypeOK', Nesting, Core, NEW i \in Ids, Purge(i)
  PROVE  Core'
<1> DEFINE f == Frame("delete", {native[i]}, {i})
<1>f. f.at = "delete" /\ f.ctxs = {native[i]} /\ f.ids = {i}
  BY DEF Frame
<1>1. /\ At({"purge", "close"}) /\ native[i] # None
      /\ native' = [native EXCEPT ![i] = None]
      /\ UNCHANGED <<owner, inserted, stale, map, requests>>
  BY DEF Purge, DeleteNext, Doomed
<1>2. NoneBusy
  <2>1. {"purge", "close"} \cap Busy = {}
    BY DEF Busy, Answered
  <2> QED
    BY <1>1, <2>1, BelowTop
<1>k. 1 \in DOMAIN stack' /\ stack'[1] = f /\ Keeps(1, {}, {1})
  BY PurgePushes, PushKeeps
<1> HIDE DEF f
<1>3. /\ native'[i] = None
      /\ \A j \in Ids : j # i => native'[j] = native[j]
      /\ None \notin Contexts
  BY <1>1, NoneAssumption DEF TypeOK
<1>4. /\ map[i] = native[i] /\ native[i] \notin stale
      /\ \A j \in Ids : native[j] # None => map[j] = native[j] /\ native[j] \notin stale
      /\ \A k \in DOMAIN stack : stack[k].at \notin Answered
  BY <1>1, <1>2, NoAnswers DEF Core
<1>5. \A j \in Ids : native'[j] # map[i]
  BY <1>1, <1>3, <1>4 DEF Core, NativeFits
<1>r. \A k \in DOMAIN stack' : k # 1 /\ stack'[k].at \in Lasting =>
          k - 1 \in DOMAIN stack /\ stack[k - 1] = stack'[k]
  BY <1>k DEF Keeps
<1>6. OffersOwned' /\ OffersApart'
  <2>1. \A k \in DOMAIN stack' \cap {1} : stack'[k].at \notin Offering
    BY <1>f, <1>k DEF Offering
  <2> QED
    BY <1>1, <1>k, <2>1, OffersKept DEF Core
<1>7. OffersPending'
  BY <1>1, <1>k, PendingKept DEF Core
<1>8. AnswersFit'
  <2>1. \A k \in DOMAIN stack' : stack'[k].at \notin Answered
    BY <1>f, <1>k, <1>r, <1>4 DEF Lasting, Offering, Answered
  <2> QED
    BY <2>1 DEF AnswersFit
<1>9. NativeFits'
  <2>1. \A j \in Ids : native'[j] # None => map'[j] = native'[j] /\ native'[j] \notin stale'
    BY <1>1, <1>3, <1>4
  <2>2. \A j, l \in Ids : native'[j] # None /\ native'[j] = native'[l] => j = l
    BY <1>3 DEF Core, NativeFits
  <2> QED
    BY <2>1, <2>2 DEF NativeFits
<1>10. MapOwns'
  BY <1>1 DEF Core, MapOwns
<1>11. DeletesFit'
  <2>1. ASSUME NEW k \in DOMAIN stack', stack'[k].at = "delete"
        PROVE  /\ Deleted(stack[k])'
               /\ k # 1 => /\ k - 1 \in DOMAIN stack /\ stack[k - 1] = stack'[k]
                           /\ stack'[k].ctxs # f.ctxs
    <3>1. CASE k = 1
      <4>1. /\ stack'[k].ids = {i} /\ stack'[k].ctxs = {map'[i]} /\ map'[i] # None
            /\ map'[i] \notin stale' /\ \A j \in Ids : native'[j] # map'[i]
        BY <1>1, <1>f, <1>k, <1>4, <1>5, <3>1
      <4> QED
        BY <3>1, <4>1 DEF Deleted
    <3>2. CASE k # 1
      <4>1. k - 1 \in DOMAIN stack /\ stack[k - 1] = stack'[k]
        BY <1>r, <2>1, <3>2 DEF Lasting
      <4>2. PICK l \in Ids : /\ stack'[k].ids = {l} /\ stack'[k].ctxs = {map[l]}
                             /\ map[l] # None /\ map[l] \notin stale
                             /\ \A j \in Ids : native[j] # map[l]
        BY <2>1, <4>1 DEF Core, DeletesFit, Deleted
      <4>3. \A j \in Ids : native'[j] # map[l]
        BY <1>3, <4>2
      <4> QED
        BY <1>1, <1>f, <4>1, <4>2, <4>3 DEF Deleted
    <3> QED  BY <3>1, <3>2
  <2>2. ASSUME NEW k \in DOMAIN stack', NEW l \in DOMAIN stack',
               stack'[k].at = "delete", stack'[l].at = "delete", k # l
        PROVE  stack'[k].ctxs # stack'[l].ctxs
    <3>1. CASE k = 1 \/ l = 1
      BY <1>k, <2>1, <2>2, <3>1
    <3>2. CASE k # 1 /\ l # 1
      <4>1. k - 1 # l - 1
        BY <1>k, <2>2 DEF Keeps
      <4>2. k - 1 \in DOMAIN stack /\ l - 1 \in DOMAIN stack
            /\ stack[k - 1] = stack'[k] /\ stack[l - 1] = stack'[l]
        BY <2>1, <2>2, <3>2
      <4> QED
        BY <2>2, <4>1, <4>2 DEF Core, DeletesFit
    <3> QED  BY <3>1, <3>2
  <2> QED
    BY <2>1, <2>2 DEF DeletesFit
<1>12. StoredOrStale'
  <2> SUFFICES ASSUME NEW j \in Ids, map[j] # None, native'[j] # map[j], map[j] \notin stale
               PROVE  \E k \in DOMAIN stack' : stack'[k].at = "delete" /\ map[j] \in stack'[k].ctxs
    BY <1>1 DEF StoredOrStale
  <2>1. CASE j = i
    BY <1>f, <1>k, <1>4, <2>1
  <2>2. CASE j # i
    <3>1. PICK k \in DOMAIN stack : stack[k].at = "delete" /\ map[j] \in stack[k].ctxs
      BY <1>3, <2>2 DEF Core, StoredOrStale
    <3>2. k + 1 \in DOMAIN stack' /\ stack'[k + 1] = stack[k]
      BY <1>k, <3>1 DEF Keeps, Lasting
    <3> QED
      BY <3>1, <3>2
  <2> QED  BY <2>1, <2>2
<1>13. DeleteCallbackRan'
  BY <1>1 DEF Core, DeleteCallbackRan, Alive
<1> QED
  BY <1>6, <1>7, <1>8, <1>9, <1>10, <1>11, <1>12, <1>13 DEF Core

LEMMA DeleteReturnStep ==
  ASSUME TypeOK, TypeOK', Nesting, Core, DeleteReturn
  PROVE  Core'
<1>1. /\ stack # <<>> /\ 1 \in DOMAIN stack /\ stack[1].at = "delete"
      /\ stale' = stale \cup stack[1].ctxs
      /\ UNCHANGED <<owner, inserted, map, native, requests>>
  BY Top DEF DeleteReturn
<1>2. NoneBusy
  BY <1>1, Below DEF Busy, Answered
<1>3. PICK i \in Ids : /\ stack[1].ctxs = {map[i]} /\ map[i] # None
                       /\ \A j \in Ids : native[j] # map[i]
  BY <1>1 DEF Core, DeletesFit, Deleted
<1>k. Keeps(-1, {1}, {})
  BY Pops, PopKeeps
<1>4. /\ \A j \in Ids : native[j] # None => map[j] = native[j] /\ native[j] \notin stale
      /\ \A k \in DOMAIN stack : stack[k].at \notin Answered
  BY <1>2, NoAnswers DEF Core
<1>5. OffersOwned' /\ OffersApart'
  BY <1>1, <1>k, OffersKept DEF Core
<1>6. OffersPending'
  BY <1>1, <1>k, PendingKept DEF Core, Offering
<1>7. AnswersFit'
  <2>1. \A k \in DOMAIN stack' : stack'[k].at \notin Answered
    BY <1>k, <1>4 DEF Keeps, Lasting, Offering, Answered
  <2> QED
    BY <2>1 DEF AnswersFit
<1>8. NativeFits'
  <2>1. \A j \in Ids : native'[j] # None => map'[j] = native'[j] /\ native'[j] \notin stale'
    BY <1>1, <1>3, <1>4
  <2> QED
    BY <1>1, <2>1 DEF Core, NativeFits
<1>9. MapOwns'
  <2>1. \A c \in stale' : c \in stale \/ (c = map[i] /\ owner[c] = "map")
    BY <1>1, <1>3 DEF Core, MapOwns
  <2> QED
    BY <1>1, <2>1 DEF Core, MapOwns
<1>10. DeletesFit'
  <2>1. \A k \in DOMAIN stack \ {1} : stack[k].at = "delete" => stack[k].ctxs # {map[i]}
    BY <1>1, <1>3 DEF Core, DeletesFit
  <2>2. \A k \in DOMAIN stack \ {1} : stack[k].at = "delete" =>
            \A j \in Ids : stack[k].ctxs = {map[j]} /\ map[j] \notin stale => map[j] \notin stale'
    BY <1>1, <1>3, <2>1
  <2>3. \A k \in DOMAIN stack \ {1} : stack[k].at = "delete" =>
            \A j \in Ids :
                /\ map[j] # None /\ map[j] \notin stale /\ stack[k].ctxs = {map[j]}
                /\ \A l \in Ids : native[l] # map[j]
                => /\ map'[j] = map[j] /\ map'[j] \notin stale'
                   /\ \A l \in Ids : native'[l] # map[j]
    BY <1>1, <2>2
  <2>4. \A k \in DOMAIN stack' \cap {} : stack'[k].at # "delete"
    OBVIOUS
  <2>5. DeletesFit
    BY DEF Core
  <2> QED
    BY <1>k, <2>3, <2>4, <2>5, DeletesKept
<1>11. StoredOrStale'
  BY <1>1, <1>k, StoredKept DEF Core
<1>12. DeleteCallbackRan'
  BY <1>1 DEF Core, DeleteCallbackRan, Alive
<1> QED
  BY <1>5, <1>6, <1>7, <1>8, <1>9, <1>10, <1>11, <1>12 DEF Core

-----------------------------------------------------------------------------
(***************************************************************************)
(* At the end of UA_Client_delete every context in a map is stale.         *)
(***************************************************************************)
LEMMA CloseEndStep ==
  ASSUME TypeOK, TypeOK', Nesting, Core, CloseEnd
  PROVE  Core'
<1>1. /\ stack # <<>> /\ 1 \in DOMAIN stack /\ stack[1].at = "close" /\ Head(stack) = stack[1]
      /\ Doomed = {} /\ requests = {}
      /\ map' = [i \in Ids |-> None] /\ owner' = OwnersAfter(map', {})
      /\ UNCHANGED <<inserted, stale, native, requests>>
  BY Top DEF CloseEnd, DestroyContexts
<1>2. Len(stack) = 1 /\ stack[1].ids = Ids /\ DOMAIN stack = {1}
  BY <1>1, StackFrames DEF Nesting
<1>3. DOMAIN stack' = {}
  <2>1. Len(stack') = 0 /\ stack' \in Seq(Frames)
    BY <1>2, Pops DEF Popped
  <2> QED
    BY <2>1
<1>4. \A i \in Ids : native[i] = None /\ map'[i] = None
  BY <1>1, <1>2 DEF Doomed
<1>5. \A i \in Ids : map[i] # None => map[i] \in stale
  <2> SUFFICES ASSUME NEW i \in Ids, map[i] # None, map[i] \notin stale PROVE FALSE
    OBVIOUS
  <2>1. native[i] = map[i] \/ \E k \in DOMAIN stack : stack[k].at = "delete"
    BY DEF Core, StoredOrStale
  <2> QED
    BY <1>1, <1>2, <1>4, <2>1
<1>6. \A c \in Contexts : owner'[c] = IF owner[c] = "map" THEN "freed" ELSE owner[c]
  <2> DEFINE u == OwnersAfter(map', {})
  <2>1. \A c \in Contexts : \A i \in Ids : map'[i] # c
    BY <1>4, NoneAssumption
  <2>2. \A c \in Contexts : u[c] = IF c \in {} \/ owner[c] = "map" THEN "freed" ELSE owner[c]
    BY <2>1, OwnersAre
  <2>3. owner' = u
    BY <1>1
  <2> QED
    BY <2>2, <2>3
<1>7. \A c \in Contexts : owner[c] \notin {"caller", "request"}
  <2> SUFFICES ASSUME NEW c \in Contexts, owner[c] \in {"caller", "request"} PROVE FALSE
    OBVIOUS
  <2>1. \E k \in DOMAIN stack : stack[k].at \in Offering
    BY <1>1 DEF Core, OffersPending, Offering
  <2> QED
    BY <1>1, <1>2, <2>1 DEF Offering
<1>8. OffersOwned' /\ OffersApart' /\ AnswersFit' /\ DeletesFit' /\ StoredOrStale'
  BY <1>1, <1>3, <1>4 DEF OffersOwned, OffersApart, AnswersFit, DeletesFit, StoredOrStale
<1>9. OffersPending'
  BY <1>6, <1>7 DEF OffersPending
<1>10. NativeFits'
  BY <1>1, <1>4 DEF NativeFits
<1>11. MapOwns'
  <2>1. \A c \in inserted' \cup stale' : c \in Contexts /\ owner[c] \in {"map", "freed"}
    BY <1>1 DEF Core, MapOwns, TypeOK
  <2> QED
    BY <1>4, <1>6, <2>1 DEF MapOwns
<1>12. DeleteCallbackRan'
  <2> SUFFICES ASSUME NEW c \in inserted, owner'[c] = "freed" PROVE c \in stale
    BY <1>1 DEF DeleteCallbackRan, Alive
  <2>1. c \in Contexts
    BY DEF TypeOK
  <2>2. CASE owner[c] = "map"
    BY <1>5, <2>1, <2>2, NoneAssumption DEF Core, MapOwns
  <2>3. CASE owner[c] = "freed"
    BY <2>3 DEF Core, DeleteCallbackRan, Alive
  <2> QED
    BY <1>6, <2>1, <2>2, <2>3
<1> QED
  BY <1>8, <1>9, <1>10, <1>11, <1>12 DEF Core

-----------------------------------------------------------------------------
(***************************************************************************)
(* Contexts with a running notification callback.                          *)
(***************************************************************************)
\* The C client's pointers are to live contexts.
LEMMA NativeAlive ==
  ASSUME TypeOK, Core
  PROVE  \A i \in Ids : native[i] # None => native[i] \in Contexts /\ owner[native[i]] # "freed"
<1> SUFFICES ASSUME NEW i \in Ids, native[i] # None
             PROVE  native[i] \in Contexts /\ owner[native[i]] # "freed"
  OBVIOUS
<1>1. native[i] \in Contexts
  BY DEF TypeOK
<1>2. CASE map[i] = native[i]
  BY <1>1, <1>2 DEF Core, MapOwns
<1>3. CASE Registering(i)
  <2>1. PICK k \in DOMAIN stack : stack[k].at \in Answered /\ <<i, native[i]>> \in stack[k].res
    BY <1>3 DEF Registering
  <2>2. native[i] \in stack[k].ctxs
    BY <2>1 DEF Core, AnswersFit, Answer
  <2>3. owner[native[i]] \in {"caller", "request"}
    BY <2>1, <2>2 DEF Core, OffersOwned, Answered, Creating
  <2> QED
    BY <1>1, <2>3
<1> QED
  BY <1>2, <1>3 DEF Core, NativeFits

LEMMA DataAliveStep ==
  ASSUME ~SyncInDataCallback
  PROVE  TypeOK /\ TypeOK' /\ Nesting /\ Nesting' /\ DataAlive /\ Core /\ [Next]_vars => DataAlive'
<1> SUFFICES ASSUME TypeOK, TypeOK', Nesting, Nesting', DataAlive, Core, [Next]_vars
             PROVE  DataAlive'
  OBVIOUS
<1> DEFINE NoData == \A k \in DOMAIN stack : stack[k].at # "data"
<1>n. ASSUME NoData' PROVE DataAlive'
  BY <1>n DEF DataAlive
<1>p. ASSUME NEW f, Pushed(f), f.at # "data" PROVE DataAlive'
  <2>1. NoData'
    BY <1>p, PushKeeps DEF Nesting
  <2> QED
    BY <1>n, <2>1
<1>r. ASSUME NEW f, Replaced(f), f.at # "data" PROVE DataAlive'
  <2>1. NoData'
    BY <1>r, ReplaceKeeps DEF Nesting
  <2> QED
    BY <1>n, <2>1
<1>o. ASSUME Popped PROVE DataAlive'
  <2>1. /\ DOMAIN stack = 1 .. Len(stack) /\ Len(stack) \in Nat
        /\ DOMAIN stack' = 1 .. Len(stack) - 1
    BY <1>o, StackFrames DEF TypeOK, Popped
  <2>2. \A k \in DOMAIN stack' : k + 1 \in DOMAIN stack /\ k + 1 # 1 /\ stack'[k] = stack[k + 1]
    BY <1>o, <2>1 DEF Popped
  <2>3. NoData'
    BY <2>2 DEF Nesting
  <2> QED
    BY <1>n, <2>3
<1>u. ASSUME UNCHANGED <<stack, owner>> PROVE DataAlive'
  BY <1>u DEF DataAlive, Alive
<1>1. ASSUME NEW cs \in SUBSET Contexts, NEW is \in Targets, Create(cs, is) PROVE DataAlive'
  <2>1. Frame("create", cs, is).at = "create"
    BY DEF Frame
  <2> QED
    BY <1>1, <1>p, <2>1, CreatePushes
<1>2. ASSUME NEW cs \in SUBSET Contexts, NEW is \in Targets, CreateAsync(cs, is)
      PROVE DataAlive'
  <2>1. \A c \in Contexts : Alive(c) => Alive(c)'
    BY <1>2 DEF CreateAsync, Alive
  <2>2. \A k \in DOMAIN stack : stack[k].ctxs \subseteq Contexts
    BY StackFrames, FrameFields
  <2>3. UNCHANGED stack
    BY <1>2 DEF CreateAsync
  <2> QED
    BY <2>1, <2>2, <2>3 DEF DataAlive
<1>3. ASSUME NEW i \in Ids, Delete(i) PROVE DataAlive'
  <2>1. Frame("remove", {}, {i}).at = "remove"
    BY DEF Frame
  <2> QED
    BY <1>3, <1>p, <2>1, DeletePushes
<1>4. ASSUME NEW i \in Ids, Notify(i) PROVE DataAlive'
  <2>1. Frame("data", {native[i]}, {i}).ctxs = {native[i]}
    BY DEF Frame
  <2>2. 1 \in DOMAIN stack' /\ stack'[1].ctxs = {native[i]}
    BY <1>4, <2>1, NotifyPushes, PushKeeps
  <2>3. owner'[native[i]] # "freed"
    BY <1>4, NativeAlive DEF Notify
  <2> QED
    BY <2>2, <2>3 DEF Nesting, DataAlive, Alive
<1>5. ASSUME NEW i \in Ids, Purge(i) PROVE DataAlive'
  <2>1. Frame("delete", {native[i]}, {i}).at = "delete"
    BY DEF Frame
  <2> QED
    BY <1>5, <1>p, <2>1, PurgePushes
<1>6. ASSUME NEW is \in {SubIds, MonIds}, List(is) PROVE DataAlive'
  <2>1. NoneBusy /\ UNCHANGED stack
    BY <1>6, BelowUser DEF List
  <2>2. NoData'
    BY <2>1 DEF NoneBusy, Busy
  <2> QED
    BY <1>n, <2>2
<1>7. ASSUME NEW q \in requests, CreateAsyncAnswer(q) PROVE DataAlive'
  <2>1. PICK f \in Frames : f.at = "answered" /\ Pushed(f)
    BY <1>7, CreateAsyncAnswerPushes
  <2> QED
    BY <1>p, <2>1
<1>8. ASSUME NEW q \in requests, DeleteAsyncAnswer(q) PROVE DataAlive'
  <2>1. ASSUME NEW i \in Ids, Pushed(Frame("purge", {}, Closure(i))) PROVE DataAlive'
    <3>1. Frame("purge", {}, Closure(i)).at = "purge"
      BY DEF Frame
    <3> QED
      BY <1>p, <2>1, <3>1
  <2>2. UNCHANGED owner
    BY <1>8 DEF DeleteAsyncAnswer
  <2> QED
    BY <1>8, <1>u, <2>1, <2>2, DeleteAsyncAnswerPushes
<1>9. ASSUME CreateAnswer PROVE DataAlive'
  <2>1. PICK f \in Frames : f.at = "created" /\ Replaced(f)
    BY <1>9, CreateAnswerReplaces
  <2> QED
    BY <1>r, <2>1
<1>10. ASSUME Store PROVE DataAlive'
  <2>1. Frame("handler", {}, {}).at = "handler"
    BY DEF Frame
  <2> QED
    BY <1>10, <1>r, <1>o, <2>1, StoreMoves DEF Answered
<1>11. ASSUME CallbackReturn \/ PurgeEnd \/ LoopEnd \/ DeleteReturn \/ CloseEnd PROVE DataAlive'
  BY <1>11, <1>o, Pops
<1>12. ASSUME DeleteAnswer PROVE DataAlive'
  <2>1. ASSUME NEW i \in Ids, Replaced(Frame("purge", {}, Closure(i))) PROVE DataAlive'
    <3>1. Frame("purge", {}, Closure(i)).at = "purge"
      BY DEF Frame
    <3> QED
      BY <1>r, <2>1, <3>1
  <2> QED
    BY <1>12, <1>o, <2>1, DeleteAnswerReplaces
<1>13. ASSUME RunIterate \/ SessionLost \/ Close PROVE DataAlive'
  <2>1. /\ Frame("loop", {}, {}).at # "data" /\ Frame("purge", {}, Ids).at # "data"
        /\ Frame("close", {}, Ids).at # "data"
    BY DEF Frame
  <2> QED
    BY <1>13, <1>p, <2>1, RunIteratePushes, SessionLostPushes, ClosePushes
<1>14. ASSUME (\E i \in Ids : DeleteAsync(i)) \/ Gone \/ UNCHANGED vars PROVE DataAlive'
  BY <1>14, <1>u DEF DeleteAsync, Gone, vars
<1> QED
  BY <1>1, <1>2, <1>3, <1>4, <1>5, <1>6, <1>7, <1>8, <1>9, <1>10, <1>11, <1>12, <1>13, <1>14
  DEF Next

-----------------------------------------------------------------------------
(***************************************************************************)
(* The invariant.                                                          *)
(***************************************************************************)
LEMMA ItemsInit == Init => ItemsInv
<1> SUFFICES ASSUME Init PROVE ItemsInv
  OBVIOUS
<1>1. TypeOK
  BY TypeInit
<1>2. /\ DOMAIN stack = {} /\ requests = {} /\ inserted = {} /\ stale = {}
      /\ \A i \in Ids : map[i] = None /\ native[i] = None
      /\ \A c \in Contexts : owner[c] = "none"
  BY DEF Init
<1>3. Nesting /\ DataAlive /\ AnswersFit /\ StoredOrStale /\ DeleteCallbackRan
  BY <1>2 DEF Nesting, DataAlive, AnswersFit, StoredOrStale, DeleteCallbackRan
<1>4. OffersOwned /\ OffersApart /\ OffersPending
  BY <1>2 DEF OffersOwned, OffersApart, OffersPending
<1>5. NativeFits /\ MapOwns /\ DeletesFit
  BY <1>2 DEF NativeFits, MapOwns, DeletesFit
<1> QED
  BY <1>1, <1>3, <1>4, <1>5 DEF ItemsInv, Core

LEMMA CoreStep ==
  ASSUME ~SyncInDataCallback, ~MoveAssigned
  PROVE  TypeOK /\ TypeOK' /\ Nesting /\ Core /\ [Next]_vars => Core'
<1> SUFFICES ASSUME TypeOK, TypeOK', Nesting, Core, [Next]_vars PROVE Core'
  OBVIOUS
<1>1. ASSUME NEW cs \in SUBSET Contexts, NEW is \in Targets, Create(cs, is) PROVE Core'
  BY <1>1, CreateStep
<1>2. ASSUME NEW cs \in SUBSET Contexts, NEW is \in Targets, CreateAsync(cs, is) PROVE Core'
  BY <1>2, CreateAsyncStep
<1>3. ASSUME NEW i \in Ids, Purge(i) PROVE Core'
  BY <1>3, PurgeStep
<1>4. ASSUME NEW is \in {SubIds, MonIds}, List(is) PROVE Core'
  BY <1>4, ListStep
<1>5. ASSUME NEW q \in requests, CreateAsyncAnswer(q) PROVE Core'
  BY <1>5, CreateAsyncAnswerStep
<1>6. ASSUME CreateAnswer PROVE Core'
  BY <1>6, CreateAnswerStep
<1>7. ASSUME Store PROVE Core'
  BY <1>7, StoreStep
<1>8. ASSUME DeleteReturn PROVE Core'
  BY <1>8, DeleteReturnStep
<1>9. ASSUME CloseEnd PROVE Core'
  BY <1>9, CloseEndStep
<1>10. ASSUME \/ \E i \in Ids : Delete(i) \/ DeleteAsync(i) \/ Notify(i)
              \/ \E q \in requests : DeleteAsyncAnswer(q)
              \/ RunIterate \/ SessionLost \/ Close
              \/ LoopEnd \/ CallbackReturn \/ PurgeEnd \/ DeleteAnswer
              \/ Gone \/ UNCHANGED vars
       PROVE Core'
  BY <1>10, QuietActions
<1> QED
  BY <1>1, <1>2, <1>3, <1>4, <1>5, <1>6, <1>7, <1>8, <1>9, <1>10 DEF Next

LEMMA ItemsStep ==
  ASSUME ~SyncInDataCallback, ~MoveAssigned
  PROVE  ItemsInv /\ [Next]_vars => ItemsInv'
  BY TypeStep, NestingStep, DataAliveStep, CoreStep DEF ItemsInv

\* The bookkeeping of contexts as a whole: every place that names a context, in
\* calls, requests, maps and the C client, agrees with who owns it.
THEOREM ItemsInvariant ==
  ASSUME ~SyncInDataCallback, ~MoveAssigned
  PROVE  Spec => []ItemsInv
<1>1. Init => ItemsInv
  BY ItemsInit
<1>2. ItemsInv /\ [Next]_vars => ItemsInv'
  BY ItemsStep
<1> QED
  BY <1>1, <1>2, PTL DEF Spec

-----------------------------------------------------------------------------
(***************************************************************************)
(* What follows from it.                                                   *)
(***************************************************************************)
LEMMA InsertedAgree == ItemsInv => MapsAgree
<1> SUFFICES ASSUME ItemsInv, NEW i \in Ids, native[i] \in inserted PROVE map[i] = native[i]
  BY DEF MapsAgree
<1>1. native[i] \in Contexts /\ native[i] # None
  BY NoneAssumption DEF ItemsInv, TypeOK
<1>2. owner[native[i]] \in {"map", "freed"}
  BY DEF ItemsInv, Core, MapOwns
<1>3. ~Registering(i)
  <2> SUFFICES ASSUME NEW k \in DOMAIN stack,
                      stack[k].at \in Answered, <<i, native[i]>> \in stack[k].res
               PROVE  FALSE
    BY DEF Registering
  <2>1. native[i] \in stack[k].ctxs
    BY DEF ItemsInv, Core, AnswersFit, Answer
  <2>2. owner[native[i]] \in {"caller", "request"}
    BY <2>1 DEF ItemsInv, Core, OffersOwned, Answered, Creating
  <2> QED
    BY <1>2, <2>2
<1> QED
  BY <1>1, <1>3 DEF ItemsInv, Core, NativeFits

LEMMA RunningAlive == ItemsInv => RunningContextsAlive
<1> SUFFICES ASSUME ItemsInv, NEW k \in DOMAIN stack, stack[k].at = "delete",
                    NEW c \in stack[k].ctxs
             PROVE  Alive(c)
  BY DEF ItemsInv, DataAlive, RunningContextsAlive
<1>1. PICK i \in Ids : stack[k].ctxs = {map[i]} /\ map[i] # None
  BY DEF ItemsInv, Core, DeletesFit, Deleted
<1> QED
  BY <1>1 DEF ItemsInv, Core, MapOwns, Alive

\* The identifiers, contexts, maps and the C client fit together: nothing that a
\* create call offers is lost, and an inserted item is the one the application finds.
THEOREM BookkeepingCorrect ==
  ASSUME ~SyncInDataCallback, ~MoveAssigned
  PROVE  Spec => []Bookkeeping
<1>1. ItemsInv => Bookkeeping
  BY InsertedAgree DEF ItemsInv, Core, Bookkeeping
<1>2. Spec => []ItemsInv
  BY ItemsInvariant
<1> QED
  BY <1>1, <1>2, PTL

\* The C client never holds a pointer to a context that an erasure has destroyed.
THEOREM NativePointersAliveCorrect ==
  ASSUME ~SyncInDataCallback, ~MoveAssigned
  PROVE  Spec => []NativePointersAlive
<1>1. ItemsInv => NativePointersAlive
  BY NativeAlive DEF ItemsInv, NativePointersAlive, Alive
<1>2. Spec => []ItemsInv
  BY ItemsInvariant
<1> QED
  BY <1>1, <1>2, PTL

\* A context outlives the callbacks that run for it, however deep calls nest.
THEOREM RunningContextsAliveCorrect ==
  ASSUME ~SyncInDataCallback, ~MoveAssigned
  PROVE  Spec => []RunningContextsAlive
<1>1. ItemsInv => RunningContextsAlive
  BY RunningAlive
<1>2. Spec => []ItemsInv
  BY ItemsInvariant
<1> QED
  BY <1>1, <1>2, PTL

\* A context in a map belongs to an item of the C client, or will be erased.
THEOREM StoredOrStaleCorrect ==
  ASSUME ~SyncInDataCallback, ~MoveAssigned
  PROVE  Spec => []StoredOrStale
<1>1. ItemsInv => StoredOrStale
  BY DEF ItemsInv, Core
<1>2. Spec => []ItemsInv
  BY ItemsInvariant
<1> QED
  BY <1>1, <1>2, PTL

\* A stored context is destroyed only after its delete callback has run.
THEOREM DeleteCallbackRanCorrect ==
  ASSUME ~SyncInDataCallback, ~MoveAssigned
  PROVE  Spec => []DeleteCallbackRan
<1>1. ItemsInv => DeleteCallbackRan
  BY DEF ItemsInv, Core
<1>2. Spec => []ItemsInv
  BY ItemsInvariant
<1> QED
  BY <1>1, <1>2, PTL

\* A monitored item whose callback is called can be looked up by its identifier.
THEOREM NotifiedIsFoundCorrect ==
  ASSUME ~SyncInDataCallback, ~MoveAssigned
  PROVE  Spec => NotifiedIsFound
<1> DEFINE A == \A i \in MonIds : Notify(i) => map[i] = native[i]
<1>1. ItemsInv /\ [Next]_vars => [A]_vars
  <2>1. ASSUME ItemsInv, NEW i \in MonIds, Notify(i) PROVE map[i] = native[i]
    <3>1. native[i] \in inserted /\ i \in Ids
      BY <2>1 DEF Notify, Gate, Ids
    <3> QED
      BY <2>1, <3>1, InsertedAgree DEF MapsAgree
  <2> QED
    BY <2>1
<1>2. Spec => []ItemsInv
  BY ItemsInvariant
<1>3. Spec => [][Next]_vars
  BY PTL DEF Spec
<1> HIDE DEF A
<1>4. Spec => [][A]_vars
  BY <1>1, <1>2, <1>3, PTL
<1> QED
  BY <1>4 DEF A, NotifiedIsFound

=============================================================================
