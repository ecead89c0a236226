--------------------------- MODULE Ownership_proof ---------------------------
(***************************************************************************)
(* Proofs about who owns what.                                             *)
(*                                                                         *)
(* Ownership, for any number of wrappers and C objects: the inductive      *)
(* invariant says for each place of a wrapper's life what its two pointers *)
(* are (Place), that no two wrappers have the same (Unique), and how that  *)
(* agrees with what exists (Exists, Native).                               *)
(*                                                                         *)
(* Values, for any number of values and any size of the heap: the          *)
(* inductive invariant says that the live texts are at one place each and  *)
(* the live blocks are one Variant's each, or the copy's (Sound), and what *)
(* a copy in progress has yet to read and to write (CopyOK).               *)
(***************************************************************************)
EXTENDS Ownership, Values, FiniteSetTheorems, SequenceTheorems, TLAPS

Deleting(w) == at[w] \in {"deleter", "shutdown", "delete"}
Live(h) == state[h] \in {"off", "on"}

\* The right-hand side of an assignment stays as it is until the end of it.
Source(w) ==
    from[w] # None =>
        /\ from[w] # w
        /\ at[from[w]] = "idle"
        /\ context[from[w]] = None

Place(w) ==
    /\ at[w] = "nothing" => handle[w] = None /\ context[w] = None /\ from[w] = None /\ dying[w] = None
    /\ at[w] = "idle" => from[w] = None /\ dying[w] = None
    /\ Free(w) => context[w] = handle[w] /\ (handle[w] # None => back[handle[w]] = w)
    /\ at[w] = "assign" =>
        /\ from[w] # None /\ dying[w] = None
        /\ handle[from[w]] # None /\ context[w] = handle[from[w]]
        /\ handle[w] # None => Idle(handle[w])
    /\ (Deleting(w) \/ at[w] = "setWrapper") /\ from[w] # None =>
        /\ handle[from[w]] = None
        /\ handle[w] # None /\ context[w] = handle[w]
    /\ at[w] = "setWrapper" => from[w] # None
    /\ Deleting(w) => dying[w] # None
    /\ Deleting(w) /\ from[w] # None => Idle(dying[w])
    /\ Deleting(w) /\ from[w] = None =>
        /\ handle[w] = None
        /\ context[w] = dying[w] /\ back[dying[w]] = w
    /\ at[w] = "deleted" => from[w] = None /\ handle[w] = None /\ context[w] = dying[w]

Unique(w, v) ==
    /\ handle[w] = handle[v] /\ handle[w] # None => w = v
    /\ context[w] = context[v] /\ context[w] # None => w = v
    /\ from[w] = from[v] /\ from[w] # None => w = v
    /\ Deleting(w) => handle[v] # dying[w]
    /\ Deleting(w) /\ Deleting(v) /\ dying[w] = dying[v] => w = v

\* Which C objects the wrappers have.
Exists ==
    /\ \A w \in Wrappers : handle[w] # None => Live(handle[w])
    /\ \A w \in Wrappers : Deleting(w) => Live(dying[w])
    /\ \A w \in Wrappers : at[w] \in {"deleted", "setWrapper"} /\ dying[w] # None => state[dying[w]] = "deleted"
    /\ \A h \in Handles : Live(h) => \E w \in Wrappers : handle[w] = h \/ (Deleting(w) /\ dying[w] = h)

\* Which contexts they have, and what the C objects know of them.
Native ==
    /\ \A w \in Wrappers : context[w] # None => context[w] \in living
    /\ \A h \in living : \E w \in Wrappers : context[w] = h
    /\ \A h \in Handles : state[h] = "unborn" => h \notin living
    /\ \A h \in Handles : registered[h] => Live(h)
    /\ \A h \in Handles : kind = "server" /\ state[h] = "on" => running[h]
    /\ \A w \in Wrappers : kind = "server" /\ at[w] = "delete" => state[dying[w]] = "off"

OwnerInv ==
    /\ TypeOK
    /\ \A w \in Wrappers : Source(w) /\ Place(w)
    /\ \A w, v \in Wrappers : Unique(w, v)
    /\ Exists
    /\ Native

-----------------------------------------------------------------------------
\* Each action keeps the invariant: one lemma per action, one step per conjunct.
LEMMA ConstructKeeps ==
    ASSUME AssignIdleOnly, OwnerInv, NEW w \in Wrappers, NEW h \in Handles, Construct(w, h)
    PROVE  OwnerInv'
<1> USE NoneAssumption DEF OwnerInv, TypeOK, Labels, Goto, Idle, Free, Deleting, Live
<1>1. TypeOK'
    BY DEF Construct, Place
<1>2. ASSUME NEW u \in Wrappers PROVE Source(u)'
    BY DEF Construct, Source, Place, Unique
<1>3. ASSUME NEW u \in Wrappers PROVE Place(u)'
    BY DEF Construct, Source, Place, Unique, Exists, Native
<1>4. ASSUME NEW u \in Wrappers, NEW t \in Wrappers PROVE Unique(u, t)'
    BY DEF Construct, Source, Place, Unique, Exists, Native
<1>5. Exists'
  <2>1. ASSUME NEW u \in Wrappers
        PROVE  /\ handle'[u] # None => Live(handle[u])'
               /\ Deleting(u)' => Live(dying[u])'
               /\ at'[u] \in {"deleted", "setWrapper"} /\ dying'[u] # None => state'[dying'[u]] = "deleted"
    BY DEF Construct, Place, Exists
  <2>2. ASSUME NEW g \in Handles, Live(g)', g # h
        PROVE  \E u \in Wrappers : handle'[u] = g \/ (Deleting(u)' /\ dying'[u] = g)
    <3>1. PICK u \in Wrappers : handle[u] = g \/ (Deleting(u) /\ dying[u] = g)
      BY <2>2 DEF Construct, Exists
    <3>2. u # w
      BY <3>1 DEF Construct, Place
    <3> QED  BY <3>1, <3>2 DEF Construct
  <2>3. handle'[w] = h
    BY DEF Construct
  <2> QED  BY <2>1, <2>2, <2>3 DEF Exists
<1>6. Native'
    BY DEF Construct, Source, Place, Unique, Exists, Native
<1> QED  BY <1>1, <1>2, <1>3, <1>4, <1>5, <1>6

LEMMA MoveConstructKeeps ==
    ASSUME AssignIdleOnly, OwnerInv, NEW w \in Wrappers, NEW v \in Wrappers, MoveConstruct(w, v)
    PROVE  OwnerInv'
<1> USE NoneAssumption DEF OwnerInv, TypeOK, Labels, Goto, Idle, Free, Deleting, Live
<1>1. TypeOK'
    BY DEF MoveConstruct, Place
<1>2. ASSUME NEW u \in Wrappers PROVE Source(u)'
    BY DEF MoveConstruct, Source, Place, Unique
<1>3. ASSUME NEW u \in Wrappers PROVE Place(u)'
    BY DEF MoveConstruct, Source, Place, Unique, Exists, Native
<1>4. ASSUME NEW u \in Wrappers, NEW t \in Wrappers PROVE Unique(u, t)'
    BY DEF MoveConstruct, Source, Place, Unique, Exists, Native
<1>5. Exists'
  <2>1. ASSUME NEW u \in Wrappers
        PROVE  /\ handle'[u] # None => Live(handle[u])'
               /\ Deleting(u)' => Live(dying[u])'
               /\ at'[u] \in {"deleted", "setWrapper"} /\ dying'[u] # None => state'[dying'[u]] = "deleted"
    BY DEF MoveConstruct, Place, Exists
  <2>2. ASSUME NEW g \in Handles, Live(g)'
        PROVE  \E u \in Wrappers : handle'[u] = g \/ (Deleting(u)' /\ dying'[u] = g)
    <3>1. PICK u \in Wrappers : handle[u] = g \/ (Deleting(u) /\ dying[u] = g)
      BY <2>2 DEF MoveConstruct, Exists
    <3>2. CASE u = v
      BY <3>1, <3>2 DEF MoveConstruct
    <3>3. CASE u # v
      BY <3>1, <3>3 DEF MoveConstruct, Place
    <3> QED  BY <3>2, <3>3
  <2> QED  BY <2>1, <2>2 DEF Exists
<1>6. Native'
  <2>1. ASSUME NEW u \in Wrappers
        PROVE  /\ context'[u] # None => context'[u] \in living'
               /\ kind' = "server" /\ at'[u] = "delete" => state'[dying'[u]] = "off"
    BY DEF MoveConstruct, Source, Place, Unique, Exists, Native
  <2>2. ASSUME NEW g \in living'
        PROVE  \E u \in Wrappers : context'[u] = g
    <3>1. PICK u \in Wrappers : context[u] = g
      BY <2>2 DEF MoveConstruct, Native
    <3>2. CASE u = v
      BY <3>1, <3>2 DEF MoveConstruct
    <3>3. CASE u # v
      BY <3>1, <3>3, <2>2 DEF MoveConstruct, Place
    <3> QED  BY <3>2, <3>3
  <2>3. ASSUME NEW g \in Handles
        PROVE  /\ state'[g] = "unborn" => g \notin living'
               /\ registered'[g] => Live(g)'
               /\ kind' = "server" /\ state'[g] = "on" => running'[g]
    BY DEF MoveConstruct, Place, Exists, Native
  <2> QED  BY <2>1, <2>2, <2>3 DEF Native
<1> QED  BY <1>1, <1>2, <1>3, <1>4, <1>5, <1>6

LEMMA MoveAssignKeeps ==
    ASSUME AssignIdleOnly, OwnerInv, NEW w \in Wrappers, NEW v \in Wrappers, MoveAssign(w, v)
    PROVE  OwnerInv'
<1> USE NoneAssumption DEF OwnerInv, TypeOK, Labels, Goto, Idle, Free, Deleting, Live
<1>1. TypeOK'
    BY DEF MoveAssign, Place
<1>2. ASSUME NEW u \in Wrappers PROVE Source(u)'
    BY DEF MoveAssign, Source, Place, Unique
<1>3. ASSUME NEW u \in Wrappers PROVE Place(u)'
    BY DEF MoveAssign, Source, Place, Unique, Exists, Native
<1>4. ASSUME NEW u \in Wrappers, NEW t \in Wrappers PROVE Unique(u, t)'
    BY DEF MoveAssign, Source, Place, Unique, Exists, Native
<1>5. Exists'
    BY DEF MoveAssign, Source, Place, Unique, Exists
<1>6. Native'
  <2>1. ASSUME NEW u \in Wrappers
        PROVE  /\ context'[u] # None => context'[u] \in living'
               /\ kind' = "server" /\ at'[u] = "delete" => state'[dying'[u]] = "off"
    BY DEF MoveAssign, Source, Place, Unique, Exists, Native
  <2>2. ASSUME NEW g \in living'
        PROVE  \E u \in Wrappers : context'[u] = g
    <3>1. PICK u \in Wrappers : context[u] = g
      BY <2>2 DEF MoveAssign, Native
    <3>2. CASE u = v
      BY <3>1, <3>2 DEF MoveAssign
    <3>3. CASE u # v
      BY <3>1, <3>3, <2>2 DEF MoveAssign
    <3> QED  BY <3>2, <3>3
  <2>3. ASSUME NEW g \in Handles
        PROVE  /\ state'[g] = "unborn" => g \notin living'
               /\ registered'[g] => Live(g)'
               /\ kind' = "server" /\ state'[g] = "on" => running'[g]
    BY DEF MoveAssign, Place, Exists, Native
  <2> QED  BY <2>1, <2>2, <2>3 DEF Native
<1> QED  BY <1>1, <1>2, <1>3, <1>4, <1>5, <1>6

LEMMA AssignHandleKeeps ==
    ASSUME AssignIdleOnly, OwnerInv, NEW w \in Wrappers, AssignHandle(w)
    PROVE  OwnerInv'
<1> USE NoneAssumption DEF OwnerInv, TypeOK, Labels, Goto, Idle, Free, Deleting, Live
<1>1. TypeOK'
    BY DEF AssignHandle, Place
<1>2. ASSUME NEW u \in Wrappers PROVE Source(u)'
    BY DEF AssignHandle, Source, Place, Unique
<1>3. ASSUME NEW u \in Wrappers PROVE Place(u)'
    BY DEF AssignHandle, Source, Place, Unique, Exists, Native
<1>4. ASSUME NEW u \in Wrappers, NEW t \in Wrappers PROVE Unique(u, t)'
    BY DEF AssignHandle, Source, Place, Unique, Exists, Native
<1>5. Exists'
  <2>1. ASSUME NEW u \in Wrappers
        PROVE  /\ handle'[u] # None => Live(handle[u])'
               /\ Deleting(u)' => Live(dying[u])'
               /\ at'[u] \in {"deleted", "setWrapper"} /\ dying'[u] # None
                    => state'[dying'[u]] = "deleted"
    <3>1. from[w] \in Wrappers /\ handle[from[w]] \in Handles /\ from[w] # w
      BY DEF AssignHandle, Source, Place
    <3>2. CASE u = w
      BY <3>1, <3>2 DEF AssignHandle, Place, Exists
    <3>3. CASE u # w
      BY <3>1, <3>3 DEF AssignHandle, Exists
    <3> QED  BY <3>2, <3>3
  <2>2. ASSUME NEW g \in Handles, Live(g)'
        PROVE  \E u \in Wrappers : handle'[u] = g \/ (Deleting(u)' /\ dying'[u] = g)
    <3>1. PICK u \in Wrappers : handle[u] = g \/ (Deleting(u) /\ dying[u] = g)
      BY <2>2 DEF AssignHandle, Exists
    <3>2. from[w] \in Wrappers /\ from[w] # w /\ at[from[w]] = "idle"
      BY DEF AssignHandle, Source, Place
    <3>3. CASE handle[u] = g /\ u = w
      BY <3>2, <3>3, <2>2 DEF AssignHandle
    <3>4. CASE handle[u] = g /\ u = from[w]
      BY <3>2, <3>4, <2>2 DEF AssignHandle
    <3>5. CASE handle[u] = g /\ u # w /\ u # from[w]
      BY <3>1, <3>2, <3>5 DEF AssignHandle
    <3>6. CASE Deleting(u) /\ dying[u] = g
      BY <3>1, <3>6 DEF AssignHandle
    <3> QED  BY <3>1, <3>3, <3>4, <3>5, <3>6
  <2> HIDE DEF OwnerInv, TypeOK, Live, Deleting
  <2> QED  BY <2>1, <2>2 DEF Exists
<1>6. Native'
    BY DEF AssignHandle, Source, Place, Unique, Exists, Native
<1> QED  BY <1>1, <1>2, <1>3, <1>4, <1>5, <1>6

LEMMA SetWrapperKeeps ==
    ASSUME AssignIdleOnly, OwnerInv, NEW w \in Wrappers, SetWrapper(w)
    PROVE  OwnerInv'
<1> USE NoneAssumption DEF OwnerInv, TypeOK, Labels, Goto, Idle, Free, Deleting, Live
<1>1. TypeOK'
    BY DEF SetWrapper, Place
<1>2. ASSUME NEW u \in Wrappers PROVE Source(u)'
    BY DEF SetWrapper, Source, Place, Unique
<1>3. ASSUME NEW u \in Wrappers PROVE Place(u)'
    BY DEF SetWrapper, Source, Place, Unique, Exists, Native
<1>4. ASSUME NEW u \in Wrappers, NEW t \in Wrappers PROVE Unique(u, t)'
    BY DEF SetWrapper, Source, Place, Unique, Exists, Native
<1>5. Exists'
    BY DEF SetWrapper, Source, Place, Unique, Exists
<1>6. Native'
    BY DEF SetWrapper, Source, Place, Unique, Exists, Native
<1> QED  BY <1>1, <1>2, <1>3, <1>4, <1>5, <1>6

LEMMA DestroyKeeps ==
    ASSUME AssignIdleOnly, OwnerInv, NEW w \in Wrappers, Destroy(w)
    PROVE  OwnerInv'
<1> USE NoneAssumption DEF OwnerInv, TypeOK, Labels, Goto, Idle, Free, Deleting, Live
<1>1. TypeOK'
    BY DEF Destroy, Place
<1>2. ASSUME NEW u \in Wrappers PROVE Source(u)'
    BY DEF Destroy, Source, Place, Unique
<1>3. ASSUME NEW u \in Wrappers PROVE Place(u)'
    BY DEF Destroy, Source, Place, Unique, Exists, Native
<1>4. ASSUME NEW u \in Wrappers, NEW t \in Wrappers PROVE Unique(u, t)'
    BY DEF Destroy, Source, Place, Unique, Exists, Native
<1>5. Exists'
    BY DEF Destroy, Source, Place, Unique, Exists
<1>6. Native'
    BY DEF Destroy, Source, Place, Unique, Exists, Native
<1> QED  BY <1>1, <1>2, <1>3, <1>4, <1>5, <1>6

LEMMA DeleterKeeps ==
    ASSUME AssignIdleOnly, OwnerInv, NEW w \in Wrappers, Deleter(w)
    PROVE  OwnerInv'
<1> USE NoneAssumption DEF OwnerInv, TypeOK, Labels, Goto, Idle, Free, Deleting, Live, ContextOf
<1>1. TypeOK'
    BY DEF Deleter, Place
<1>2. ASSUME NEW u \in Wrappers PROVE Source(u)'
    BY DEF Deleter, Source, Place, Unique
<1>3. ASSUME NEW u \in Wrappers PROVE Place(u)'
    BY DEF Deleter, Source, Place, Unique, Exists, Native
<1>4. ASSUME NEW u \in Wrappers, NEW t \in Wrappers PROVE Unique(u, t)'
    BY DEF Deleter, Source, Place, Unique, Exists, Native
<1>5. Exists'
    BY DEF Deleter, Source, Place, Unique, Exists
<1>6. Native'
    BY DEF Deleter, Source, Place, Unique, Exists, Native
<1> QED  BY <1>1, <1>2, <1>3, <1>4, <1>5, <1>6

LEMMA ShutdownKeeps ==
    ASSUME AssignIdleOnly, OwnerInv, NEW w \in Wrappers, Shutdown(w)
    PROVE  OwnerInv'
<1> USE NoneAssumption DEF OwnerInv, TypeOK, Labels, Goto, Idle, Free, Deleting, Live
<1>1. TypeOK'
    BY DEF Shutdown, Place
<1>2. ASSUME NEW u \in Wrappers PROVE Source(u)'
    BY DEF Shutdown, Source, Place, Unique
<1>3. ASSUME NEW u \in Wrappers PROVE Place(u)'
    BY DEF Shutdown, Source, Place, Unique, Exists, Native
<1>4. ASSUME NEW u \in Wrappers, NEW t \in Wrappers PROVE Unique(u, t)'
    BY DEF Shutdown, Source, Place, Unique, Exists, Native
<1>5. Exists'
    BY DEF Shutdown, Source, Place, Unique, Exists
<1>6. Native'
    BY DEF Shutdown, Source, Place, Unique, Exists, Native
<1> QED  BY <1>1, <1>2, <1>3, <1>4, <1>5, <1>6

LEMMA DeleteKeeps ==
    ASSUME AssignIdleOnly, OwnerInv, NEW w \in Wrappers, Delete(w)
    PROVE  OwnerInv'
<1> USE NoneAssumption DEF OwnerInv, TypeOK, Labels, Goto, Idle, Free, Deleting, Live
<1>1. TypeOK'
    BY DEF Delete, Place
<1>2. ASSUME NEW u \in Wrappers PROVE Source(u)'
    BY DEF Delete, Source, Place, Unique
<1>3. ASSUME NEW u \in Wrappers PROVE Place(u)'
    BY DEF Delete, Source, Place, Unique, Exists, Native
<1>4. ASSUME NEW u \in Wrappers, NEW t \in Wrappers PROVE Unique(u, t)'
    BY DEF Delete, Source, Place, Unique, Exists, Native
<1>5. Exists'
    BY DEF Delete, Source, Place, Unique, Exists
<1>6. Native'
    BY DEF Delete, Source, Place, Unique, Exists, Native
<1> QED  BY <1>1, <1>2, <1>3, <1>4, <1>5, <1>6

LEMMA DestroyContextKeeps ==
    ASSUME AssignIdleOnly, OwnerInv, NEW w \in Wrappers, DestroyContext(w)
    PROVE  OwnerInv'
<1> USE NoneAssumption DEF OwnerInv, TypeOK, Labels, Goto, Idle, Free, Deleting, Live
<1>1. TypeOK'
    BY DEF DestroyContext, Place
<1>2. ASSUME NEW u \in Wrappers PROVE Source(u)'
    BY DEF DestroyContext, Source, Place, Unique
<1>3. ASSUME NEW u \in Wrappers PROVE Place(u)'
    BY DEF DestroyContext, Source, Place, Unique, Exists, Native
<1>4. ASSUME NEW u \in Wrappers, NEW t \in Wrappers PROVE Unique(u, t)'
    BY DEF DestroyContext, Source, Place, Unique, Exists, Native
<1>5. Exists'
    BY DEF DestroyContext, Source, Place, Unique, Exists
<1>6. Native'
    BY DEF DestroyContext, Source, Place, Unique, Exists, Native
<1> QED  BY <1>1, <1>2, <1>3, <1>4, <1>5, <1>6

LEMMA StartKeeps ==
    ASSUME AssignIdleOnly, OwnerInv, NEW w \in Wrappers, Start(w)
    PROVE  OwnerInv'
<1> USE NoneAssumption DEF OwnerInv, TypeOK, Labels, Goto, Idle, Free, Deleting, Live
<1>1. TypeOK'
    BY DEF Start, Place
<1>2. ASSUME NEW u \in Wrappers PROVE Source(u)'
    BY DEF Start, Source, Place, Unique
<1>3. ASSUME NEW u \in Wrappers PROVE Place(u)'
    BY DEF Start, Source, Place, Unique, Exists, Native
<1>4. ASSUME NEW u \in Wrappers, NEW t \in Wrappers PROVE Unique(u, t)'
    BY DEF Start, Source, Place, Unique, Exists, Native
<1>5. Exists'
    BY DEF Start, Source, Place, Unique, Exists
<1>6. Native'
  <2>1. ASSUME NEW u \in Wrappers
        PROVE  /\ context'[u] # None => context'[u] \in living'
               /\ kind' = "server" /\ at'[u] = "delete" => state'[dying'[u]] = "off"
    BY DEF Start, Source, Place, Unique, Exists, Native
  <2>2. ASSUME NEW g \in living'
        PROVE  \E u \in Wrappers : context'[u] = g
    BY DEF Start, Native
  <2>3. ASSUME NEW g \in Handles
        PROVE  /\ state'[g] = "unborn" => g \notin living'
               /\ registered'[g] => Live(g)'
               /\ kind' = "server" /\ state'[g] = "on" => running'[g]
    <3>1. context[w] = handle[w] /\ handle[w] \in Handles
      BY DEF Start, Place
    <3>2. CASE g = handle[w]
      BY <3>1, <3>2 DEF Start, Native
    <3>3. CASE g # handle[w]
      BY <3>1, <3>3 DEF Start, Native
    <3> QED  BY <3>2, <3>3
  <2> QED  BY <2>1, <2>2, <2>3 DEF Native
<1> QED  BY <1>1, <1>2, <1>3, <1>4, <1>5, <1>6

LEMMA StopKeeps ==
    ASSUME AssignIdleOnly, OwnerInv, NEW w \in Wrappers, Stop(w)
    PROVE  OwnerInv'
<1> USE NoneAssumption DEF OwnerInv, TypeOK, Labels, Goto, Idle, Free, Deleting, Live
<1>1. TypeOK'
    BY DEF Stop, Place
<1>2. ASSUME NEW u \in Wrappers PROVE Source(u)'
    BY DEF Stop, Source, Place, Unique
<1>3. ASSUME NEW u \in Wrappers PROVE Place(u)'
    BY DEF Stop, Source, Place, Unique, Exists, Native
<1>4. ASSUME NEW u \in Wrappers, NEW t \in Wrappers PROVE Unique(u, t)'
    BY DEF Stop, Source, Place, Unique, Exists, Native
<1>5. Exists'
    BY DEF Stop, Source, Place, Unique, Exists
<1>6. Native'
    BY DEF Stop, Source, Place, Unique, Exists, Native
<1> QED  BY <1>1, <1>2, <1>3, <1>4, <1>5, <1>6

LEMMA RegisterKeeps ==
    ASSUME AssignIdleOnly, OwnerInv, NEW w \in Wrappers, Register(w)
    PROVE  OwnerInv'
<1> USE NoneAssumption DEF OwnerInv, TypeOK, Labels, Goto, Idle, Free, Deleting, Live
<1>1. TypeOK'
    BY DEF Register, Place
<1>2. ASSUME NEW u \in Wrappers PROVE Source(u)'
    BY DEF Register, Source, Place, Unique
<1>3. ASSUME NEW u \in Wrappers PROVE Place(u)'
    BY DEF Register, Source, Place, Unique, Exists, Native
<1>4. ASSUME NEW u \in Wrappers, NEW t \in Wrappers PROVE Unique(u, t)'
    BY DEF Register, Source, Place, Unique, Exists, Native
<1>5. Exists'
    BY DEF Register, Source, Place, Unique, Exists
<1>6. Native'
    BY DEF Register, Source, Place, Unique, Exists, Native
<1> QED  BY <1>1, <1>2, <1>3, <1>4, <1>5, <1>6

\* The invariant holds throughout, as long as only idle objects are assigned to.
LEMMA OwnerInvHolds ==
    ASSUME AssignIdleOnly
    PROVE  Spec => []OwnerInv
<1>1. Init => OwnerInv
    BY NoneAssumption
       DEF Init, OwnerInv, TypeOK, Labels, Source, Place, Unique, Exists, Native, Free, Deleting, Live
<1>2. OwnerInv /\ [Next]_vars => OwnerInv'
  <2> SUFFICES ASSUME OwnerInv, [Next]_vars PROVE OwnerInv'
    OBVIOUS
  <2>1. CASE Next
    BY <2>1, ConstructKeeps, MoveConstructKeeps, MoveAssignKeeps, AssignHandleKeeps,
       SetWrapperKeeps, DestroyKeeps, DeleterKeeps, ShutdownKeeps, DeleteKeeps,
       DestroyContextKeeps, StartKeeps, StopKeeps, RegisterKeeps DEF Next
  <2>2. CASE UNCHANGED vars
    BY <2>2
       DEF vars, OwnerInv, TypeOK, Source, Place, Unique, Exists, Native, Free, Deleting, Live, Idle
  <2> QED  BY <2>1, <2>2
<1> QED  BY <1>1, <1>2, PTL DEF Spec

-----------------------------------------------------------------------------
\* The context of a C object that is connected, started or has items is there,
\* whichever step of an assignment or a destruction its owner is in.
LEMMA OwnerHasContext ==
    ASSUME OwnerInv, NEW h \in Handles, Live(h), ~Idle(h)
    PROVE  h \in living
<1> USE NoneAssumption DEF OwnerInv, TypeOK, Labels
<1>1. PICK w \in Wrappers : handle[w] = h \/ (Deleting(w) /\ dying[w] = h)
    BY DEF Exists
<1>2. CASE handle[w] = h /\ Free(w)
    BY <1>2 DEF Place, Native
<1>3. CASE handle[w] = h /\ at[w] = "idle" /\ ~Free(w)
  <2>1. PICK u \in Wrappers : from[u] = w
    BY <1>3 DEF Free
  <2>2. at[u] = "assign"
    BY <1>3, <2>1 DEF Place, Deleting
  <2> QED  BY <1>3, <2>1, <2>2 DEF Place, Native
<1>4. CASE handle[w] = h /\ at[w] # "idle"
    BY <1>4 DEF Place, Native, Deleting
<1>5. CASE Deleting(w) /\ dying[w] = h
    BY <1>5 DEF Place, Native
<1> QED  BY <1>1, <1>2, <1>3, <1>4, <1>5 DEF Free

\* A context outlives the pointers into it, as long as nothing is assigned to a
\* Server or Client that is in use.
THEOREM ContextOutlivesPointersCorrect ==
    ASSUME AssignIdleOnly
    PROVE  Spec => []ContextOutlivesPointers
<1>1. OwnerInv => ContextOutlivesPointers
    BY OwnerHasContext DEF OwnerInv, Native, ContextOutlivesPointers, Idle
<1> QED  BY <1>1, OwnerInvHolds, PTL

\* Callbacks find the context of their own C object, after any moves and also while
\* the C object is deleted.
THEOREM CallbacksFindContextCorrect ==
    ASSUME AssignIdleOnly
    PROVE  Spec => []CallbacksFindContext
<1>1. OwnerInv => CallbacksFindContext
  <2> SUFFICES ASSUME OwnerInv, NEW h \in Handles, MayCallBack(h)
               PROVE  ContextOf(h) = h /\ h \in living
    BY DEF CallbacksFindContext
  <2> USE NoneAssumption DEF OwnerInv, TypeOK, Labels, ContextOf
  <2>1. CASE \E w \in Wrappers : Free(w) /\ handle[w] = h
    BY <2>1 DEF Place, Native
  <2>2. ASSUME NEW w \in Wrappers, dying[w] = h, ~Idle(h) PROVE ContextOf(h) = h /\ h \in living
    <3>1. Live(h)
      BY <2>2 DEF Idle, Live, Native
    <3>2. Deleting(w)
      BY <2>2, <3>1 DEF Place, Exists, Deleting, Live
    <3> QED  BY <2>2, <3>2 DEF Place, Native
  <2> QED  BY <2>1, <2>2 DEF MayCallBack
<1> QED  BY <1>1, OwnerInvHolds, PTL

\* Each C object and each context has one owner, and asWrapper() finds it.
THEOREM BookkeepingCorrect ==
    ASSUME AssignIdleOnly
    PROVE  Spec => []Bookkeeping
<1> USE NoneAssumption DEF OwnerInv
<1>1. OwnerInv => FindsWrapper
    BY DEF FindsWrapper, Place
<1>2. ASSUME OwnerInv, NEW h \in Handles
      PROVE  state[h] \in {"off", "on"} <=> \E w \in Wrappers : Owners(h) = {w}
  <2>1. \A w \in Wrappers : w \in Owners(h) <=> handle[w] = h \/ (Deleting(w) /\ dying[w] = h)
    BY DEF Owners, Deleting
  <2>2. ASSUME Live(h) PROVE \E w \in Wrappers : Owners(h) = {w}
    <3>1. PICK w \in Wrappers : w \in Owners(h)
      BY <1>2, <2>1, <2>2 DEF Exists
    <3>2. ASSUME NEW u \in Wrappers, u \in Owners(h) PROVE u = w
      BY <1>2, <2>1, <3>1, <3>2 DEF Unique
    <3>3. Owners(h) = {w}
      BY <3>1, <3>2 DEF Owners
    <3> QED  BY <3>3
  <2>3. ASSUME NEW w \in Wrappers, Owners(h) = {w} PROVE Live(h)
    BY <1>2, <2>1, <2>3 DEF Exists
  <2> QED  BY <2>2, <2>3 DEF Live
<1>3. ASSUME OwnerInv, NEW h \in Handles
      PROVE  h \in living <=> \E w \in Wrappers : {v \in Wrappers : context[v] = h} = {w}
  <2>1. ASSUME h \in living PROVE \E w \in Wrappers : {v \in Wrappers : context[v] = h} = {w}
    <3>1. PICK w \in Wrappers : context[w] = h
      BY <1>3, <2>1 DEF Native
    <3>2. ASSUME NEW u \in Wrappers, context[u] = h PROVE u = w
      BY <1>3, <3>1, <3>2 DEF Unique
    <3>3. {v \in Wrappers : context[v] = h} = {w}
      BY <3>1, <3>2
    <3> QED  BY <3>3
  <2>2. ASSUME NEW w \in Wrappers, {v \in Wrappers : context[v] = h} = {w} PROVE h \in living
    BY <1>3, <2>2 DEF Native
  <2> QED  BY <2>1, <2>2
<1>4. OwnerInv => OneOwner
    BY <1>2, <1>3 DEF OneOwner
<1>5. OwnerInv => Bookkeeping
    BY <1>1, <1>4 DEF Bookkeeping
<1> QED  BY <1>5, OwnerInvHolds, PTL

\* A started server is never deleted without a shutdown.
THEOREM ShutDownBeforeDeleteCorrect ==
    ASSUME AssignIdleOnly
    PROVE  Spec => ShutDownBeforeDelete
<1>1. OwnerInv /\ [Next]_vars =>
        [\A h \in Handles : (kind = "server" /\ state[h] = "on") => state'[h] # "deleted"]_vars
  <2> SUFFICES ASSUME OwnerInv, Next, NEW h \in Handles, kind = "server", state[h] = "on"
               PROVE  state'[h] # "deleted"
    OBVIOUS
  <2> USE DEF OwnerInv, TypeOK
  <2>1. ASSUME NEW w \in Wrappers, Delete(w) PROVE state'[h] # "deleted"
    BY <2>1 DEF Delete, Native
  <2>2. CASE ~\E w \in Wrappers : Delete(w)
    BY <2>2 DEF Next, vars, Construct, MoveConstruct, MoveAssign, AssignHandle, SetWrapper,
       Destroy, Deleter, Shutdown, DestroyContext, Start, Stop, Register
  <2> QED  BY <2>1, <2>2
<1> QED  BY <1>1, OwnerInvHolds, PTL DEF Spec, ShutDownBeforeDelete

-----------------------------------------------------------------------------
(***************************************************************************)
(* Values.  A heap h, the Variants' data d and a copy c in progress, or    *)
(* Null, are parameters, since an action passes through several of them.   *)
(***************************************************************************)
Contents == Texts \cup {Null, Junk}
Heaps == [texts : SUBSET Texts, blocks : [Blocks -> Seq(Contents)], slot : [Strings -> Contents]]
Data == [at : Addresses \cup Blocks \cup {Null, Sentinel}, shape : {"none", "scalar", "array"}]

\* Each live text is at one of the places H, which hold nothing else.
Owned(h, H) ==
    /\ h \in Heaps /\ H \subseteq Places(h)
    /\ \A p \in H : At(h, p) \in h.texts \cup {Null}
    /\ \A p, q \in H : At(h, p) = At(h, q) /\ At(h, p) # Null => p = q
    /\ \A x \in h.texts : \E p \in H : At(h, p) = x

Building(c, b) == c # Null /\ c.block = b
HoldersOf(h, c) ==
    {p \in Places(h) : c # Null /\ p \notin Strings /\ p[1] = c.block => p[2] <= c.index}

\* Each live block is a Variant's or the copy's; nothing is borrowed from the copy.
BlocksOwned(h, d, c) ==
    /\ d \in [Variants -> Data] /\ (c # Null => c \in Copies)
    /\ \A b \in Blocks : h.blocks[b] # Freed <=> Building(c, b) \/ \E v \in Variants : d[v].at = b
    /\ \A u, v \in Variants : d[u].at \in Blocks /\ d[u].at = d[v].at => u = v
    /\ \A v \in Variants : ~Building(c, d[v].at)
    /\ \A v \in Variants : d[v].at \in Blocks \X Nat =>
        d[v].at \in Places(h) /\ ~Building(c, d[v].at[1])
    /\ \A v \in Variants : d[v].shape = "scalar" => d[v].at \notin {Null, Sentinel}

Sound(h, d, c) == Owned(h, HoldersOf(h, c)) /\ BlocksOwned(h, d, c)

LentOut(d, a) == \E u \in Variants : d[u].at \in Blocks \X Nat /\ d[u].at[1] = a

\* What a copy in progress reads stays where it is, and what it will write is empty,
\* unless a native is going to be put there unseen.
CopyOK(h, d, c) ==
    /\ c.index <= Len(c.range) /\ Len(c.range) >= 1
    /\ c.index <= Len(h.blocks[c.block])
    /\ \A i \in 1 .. Len(c.range) :
        /\ c.range[i] \in Places(h)
        /\ c.range[i] \notin Strings => c.range[i][1] # c.block
    /\ c.kind \in {"scalar", "move"} => Len(c.range) = 1
    /\ c.kind = "move" => c.element = "wrapper"
    /\ c.kind # "singlePass" => Len(h.blocks[c.block]) = Len(c.range)
    /\ c.kind = "singlePass" /\ c.element = "wrapper" => Len(h.blocks[c.block]) >= Len(c.range)
    /\ c.element = "wrapper" \/ c.kind # "singlePass" =>
        \A i \in c.index + 1 .. Len(h.blocks[c.block]) : h.blocks[c.block][i] = Null
    /\ ~LentOut(d, d[c.to].at)

ValuesInv ==
    /\ Sound(heap, variant, copying)
    /\ ~NoCopy => CopyOK(heap, variant, copying)
-----------------------------------------------------------------------------
(***************************************************************************)
(* Places and what is at them.                                             *)
(***************************************************************************)
LEMMA ElementPlace ==
  ASSUME NEW h \in Heaps, NEW b \in Blocks, NEW i \in 1 .. Len(h.blocks[b])
  PROVE  /\ <<b, i>> \in Places(h) /\ <<b, i>> \in Elements(h, b)
         /\ <<b, i>> \notin Strings /\ <<b, i>> \in Blocks \X Nat
         /\ At(h, <<b, i>>) = h.blocks[b][i]
<1>1. h.blocks[b] \in Seq(Contents)
  BY DEF Heaps
<1>2. i \in DOMAIN h.blocks[b] /\ i \in Nat
  BY <1>1
<1>3. <<b, i>> \in Blocks \X Nat
  BY <1>2
<1>4. <<b, i>> \notin Strings
  BY <1>3, AddressAssumption
<1> QED BY <1>2, <1>3, <1>4 DEF Places, Elements, At

LEMMA PlaceCases ==
  ASSUME NEW h \in Heaps, NEW p \in Places(h)
  PROVE  p \in Strings \/ \E b \in Blocks : \E i \in 1 .. Len(h.blocks[b]) : p = <<b, i>>
<1> SUFFICES ASSUME p \notin Strings
             PROVE  \E b \in Blocks : \E i \in 1 .. Len(h.blocks[b]) : p = <<b, i>>
  OBVIOUS
<1>1. PICK b \in Blocks : p \in Elements(h, b)
  BY DEF Places
<1>2. h.blocks[b] \in Seq(Contents)
  BY DEF Heaps
<1> QED BY <1>1, <1>2 DEF Elements

LEMMA ElementOf ==
  ASSUME NEW h \in Heaps, NEW b \in Blocks, NEW p
  PROVE  p \in Elements(h, b) <=> p \in Places(h) /\ p \notin Strings /\ p[1] = b
<1>1. ASSUME p \in Elements(h, b) PROVE p \in Places(h) /\ p \notin Strings /\ p[1] = b
  <2>1. h.blocks[b] \in Seq(Contents)
    BY DEF Heaps
  <2>2. PICK i \in 1 .. Len(h.blocks[b]) : p = <<b, i>>
    BY <1>1, <2>1 DEF Elements
  <2> QED BY <2>2, ElementPlace
<1>2. ASSUME p \in Places(h), p \notin Strings, p[1] = b PROVE p \in Elements(h, b)
  <2>1. PICK c \in Blocks : \E i \in 1 .. Len(h.blocks[c]) : p = <<c, i>>
    BY <1>2, PlaceCases
  <2>2. PICK i \in 1 .. Len(h.blocks[c]) : p = <<c, i>>
    BY <2>1
  <2>3. c = b
    BY <1>2, <2>2
  <2> QED BY <2>2, <2>3, ElementPlace
<1> QED BY <1>1, <1>2

\* Heaps whose blocks have the same lengths have the same places.
SameShape(h, g) == \A b \in Blocks : Len(g.blocks[b]) = Len(h.blocks[b])

LEMMA SamePlaces ==
  ASSUME NEW h \in Heaps, NEW g \in Heaps, SameShape(h, g)
  PROVE  /\ Places(g) = Places(h)
         /\ \A b \in Blocks : Elements(g, b) = Elements(h, b)
         /\ \A b \in Blocks : g.blocks[b] = Freed <=> h.blocks[b] = Freed
<1>1. ASSUME NEW b \in Blocks
      PROVE  /\ DOMAIN g.blocks[b] = DOMAIN h.blocks[b]
             /\ g.blocks[b] = Freed <=> h.blocks[b] = Freed
  <2>1. g.blocks[b] \in Seq(Contents) /\ h.blocks[b] \in Seq(Contents)
    BY DEF Heaps
  <2>2. Len(g.blocks[b]) = Len(h.blocks[b])
    BY DEF SameShape
  <2> QED BY <2>1, <2>2 DEF Freed
<1>2. \A b \in Blocks : Elements(g, b) = Elements(h, b)
  BY <1>1 DEF Elements
<1> QED BY <1>1, <1>2 DEF Places

\* The heap g is h with x at the place p, and texts T.
Wrote(h, g, p, x, T) ==
    /\ g \in Heaps /\ g.texts = T
    /\ SameShape(h, g)
    /\ At(g, p) = x
    /\ \A q \in Places(h) : q # p => At(g, q) = At(h, q)

LEMMA PutWrites ==
  ASSUME NEW h \in Heaps, NEW p \in Places(h), NEW x \in Contents
  PROVE  Wrote(h, Put(h, p, x), p, x, h.texts)
<1> DEFINE g == Put(h, p, x)
<1>1. CASE p \in Strings
  <2>1. g = [h EXCEPT !.slot[p] = x]
    BY <1>1 DEF Put
  <2>2. /\ g \in Heaps /\ g.texts = h.texts /\ g.blocks = h.blocks
        /\ g.slot = [h.slot EXCEPT ![p] = x]
    BY <1>1, <2>1 DEF Heaps
  <2> HIDE DEF g
  <2>3. h.slot \in [Strings -> Contents]
    BY DEF Heaps
  <2>4. At(g, p) = x /\ \A q \in Places(h) : q # p => At(g, q) = At(h, q)
    BY <1>1, <2>2, <2>3 DEF At
  <2> QED BY <2>2, <2>4 DEF Wrote, SameShape, g
<1>2. CASE p \notin Strings
  <2>1. PICK b \in Blocks : \E i \in 1 .. Len(h.blocks[b]) : p = <<b, i>>
    BY <1>2, PlaceCases
  <2>2. PICK i \in 1 .. Len(h.blocks[b]) : p = <<b, i>>
    BY <2>1
  <2>3. h.blocks[b] \in Seq(Contents) /\ h.blocks \in [Blocks -> Seq(Contents)]
    BY DEF Heaps
  <2> DEFINE s == [h.blocks[b] EXCEPT ![i] = x]
  <2>4. s \in Seq(Contents) /\ Len(s) = Len(h.blocks[b]) /\ s[i] = x
        /\ \A j \in 1 .. Len(h.blocks[b]) : j # i => s[j] = h.blocks[b][j]
    BY <2>3
  <2>5. g = [h EXCEPT !.blocks[b][i] = x]
    BY <1>2, <2>2 DEF Put
  <2>6. /\ g.texts = h.texts /\ g.slot = h.slot
        /\ g.blocks = [h.blocks EXCEPT ![b] = s]
        /\ g = [texts |-> g.texts, blocks |-> g.blocks, slot |-> g.slot]
    BY <2>5 DEF Heaps
  <2> HIDE DEF s, g
  <2>7. g.blocks \in [Blocks -> Seq(Contents)]
    BY <2>3, <2>4, <2>6
  <2>8. g \in Heaps
    BY <2>6, <2>7 DEF Heaps
  <2>9. SameShape(h, g)
    BY <2>3, <2>4, <2>6 DEF SameShape
  <2>10. At(g, p) = x
    BY <1>2, <2>2, <2>3, <2>4, <2>6 DEF At
  <2>11. ASSUME NEW q \in Places(h), q # p PROVE At(g, q) = At(h, q)
    <3>1. CASE q \in Strings
      BY <3>1, <2>6 DEF At
    <3>2. CASE q \notin Strings
      <4>1. PICK c \in Blocks : \E j \in 1 .. Len(h.blocks[c]) : q = <<c, j>>
        BY <3>2, PlaceCases
      <4>2. PICK j \in 1 .. Len(h.blocks[c]) : q = <<c, j>>
        BY <4>1
      <4>3. At(g, q) = g.blocks[c][j] /\ At(h, q) = h.blocks[c][j]
        BY <3>2, <4>2 DEF At
      <4>4. CASE c # b
        BY <2>3, <2>6, <4>3, <4>4
      <4>5. CASE c = b
        <5>1. j # i
          BY <2>2, <2>11, <4>2, <4>5
        <5> QED BY <2>3, <2>4, <2>6, <4>2, <4>3, <4>5, <5>1
      <4> QED BY <4>4, <4>5
    <3> QED BY <3>1, <3>2
  <2> QED BY <2>6, <2>8, <2>9, <2>10, <2>11 DEF Wrote, g
<1> QED BY <1>1, <1>2

\* Only the set of live texts changes.
LEMMA TextsChange ==
  ASSUME NEW h \in Heaps, NEW T \in SUBSET Texts
  PROVE  LET g == [h EXCEPT !.texts = T] IN
         /\ g \in Heaps /\ g.texts = T /\ g.blocks = h.blocks /\ g.slot = h.slot
         /\ \A q : At(g, q) = At(h, q)
<1> DEFINE g == [h EXCEPT !.texts = T]
<1>1. g \in Heaps /\ g.texts = T /\ g.blocks = h.blocks /\ g.slot = h.slot
  BY DEF Heaps
<1> HIDE DEF g
<1>2. \A q : At(g, q) = At(h, q)
  BY <1>1 DEF At
<1> QED BY <1>1, <1>2 DEF g

LEMMA WroteTexts ==
  ASSUME NEW h \in Heaps, NEW p \in Places(h), NEW x \in Contents, NEW T \in SUBSET Texts
  PROVE  Wrote(h, [Put(h, p, x) EXCEPT !.texts = T], p, x, T)
<1>1. Wrote(h, Put(h, p, x), p, x, h.texts)
  BY PutWrites
<1>2. Put(h, p, x) \in Heaps
  BY <1>1 DEF Wrote
<1> DEFINE k == Put(h, p, x)
           g == [k EXCEPT !.texts = T]
<1>3. g \in Heaps /\ g.texts = T /\ g.blocks = k.blocks /\ \A q : At(g, q) = At(k, q)
  BY <1>2, TextsChange
<1> HIDE DEF g, k
<1>4. Wrote(h, k, p, x, h.texts)
  BY <1>1 DEF k
<1>5. Wrote(h, g, p, x, T)
  BY <1>3, <1>4 DEF Wrote, SameShape
<1> QED BY <1>5 DEF g, k
-----------------------------------------------------------------------------
(***************************************************************************)
(* Effects on the heap keep each text at one place.                        *)
(***************************************************************************)
\* The value at a place becomes empty, and its text is freed.
LEMMA EmptyKeeps ==
  ASSUME NEW h, NEW H, Owned(h, H), NEW p \in H, NEW g, Wrote(h, g, p, Null, h.texts \ {At(h, p)})
  PROVE  Owned(g, H)
<1>1. h \in Heaps /\ g \in Heaps /\ H \subseteq Places(h) /\ Places(g) = Places(h)
  BY SamePlaces DEF Owned, Wrote
<1>2. At(g, p) = Null /\ g.texts = h.texts \ {At(h, p)}
  BY DEF Wrote
<1>3. \A q \in H : q # p => At(g, q) = At(h, q)
  BY <1>1 DEF Wrote
<1>4. \A q \in H : At(g, q) \in g.texts \cup {Null}
  BY <1>2, <1>3 DEF Owned
<1>5. \A q, r \in H : At(g, q) = At(g, r) /\ At(g, q) # Null => q = r
  BY <1>2, <1>3 DEF Owned
<1>6. \A x \in g.texts : \E q \in H : At(g, q) = x
  BY <1>2, <1>3 DEF Owned
<1> QED BY <1>1, <1>4, <1>5, <1>6 DEF Owned

\* A new text is put to an empty or unused place.
LEMMA FillKeeps ==
  ASSUME NEW h, NEW H, Owned(h, H), NEW p \in Places(h), p \notin H \/ At(h, p) = Null,
         NEW y \in Texts \ h.texts, NEW g, Wrote(h, g, p, y, h.texts \cup {y})
  PROVE  Owned(g, H \cup {p})
<1>1. h \in Heaps /\ g \in Heaps /\ H \subseteq Places(h) /\ Places(g) = Places(h)
  BY SamePlaces DEF Owned, Wrote
<1>2. At(g, p) = y /\ g.texts = h.texts \cup {y} /\ y # Null
  BY AddressAssumption DEF Wrote
<1>3. \A q \in H : q # p => At(g, q) = At(h, q)
  BY <1>1 DEF Wrote
<1>4. \A q \in H \cup {p} : At(g, q) \in g.texts \cup {Null}
  BY <1>2, <1>3 DEF Owned
<1>5. \A q \in H : q # p => At(g, q) # y
  BY <1>2, <1>3 DEF Owned
<1>6. \A q, r \in H \cup {p} : At(g, q) = At(g, r) /\ At(g, q) # Null => q = r
  BY <1>2, <1>3, <1>5 DEF Owned
<1>7. \A x \in h.texts : \E q \in H : At(h, q) = x /\ q # p
  <2> SUFFICES ASSUME NEW x \in h.texts PROVE \E q \in H : At(h, q) = x /\ q # p
    OBVIOUS
  <2>1. PICK q \in H : At(h, q) = x
    BY DEF Owned
  <2>2. x # Null
    BY <1>1, AddressAssumption DEF Heaps
  <2> QED BY <2>1, <2>2
<1>8. \A x \in g.texts : \E q \in H \cup {p} : At(g, q) = x
  BY <1>2, <1>3, <1>7
<1> QED BY <1>1, <1>4, <1>6, <1>8 DEF Owned

\* An empty value is put to an empty or unused place.
LEMMA BlankKeeps ==
  ASSUME NEW h, NEW H, Owned(h, H), NEW p \in Places(h), p \notin H \/ At(h, p) = Null,
         NEW g, Wrote(h, g, p, Null, h.texts)
  PROVE  Owned(g, H \cup {p})
<1>1. h \in Heaps /\ g \in Heaps /\ H \subseteq Places(h) /\ Places(g) = Places(h)
  BY SamePlaces DEF Owned, Wrote
<1>2. At(g, p) = Null /\ g.texts = h.texts
  BY DEF Wrote
<1>3. \A q \in H : q # p => At(g, q) = At(h, q)
  BY <1>1 DEF Wrote
<1>4. \A q \in H \cup {p} : At(g, q) \in g.texts \cup {Null}
  BY <1>2, <1>3 DEF Owned
<1>5. \A q, r \in H \cup {p} : At(g, q) = At(g, r) /\ At(g, q) # Null => q = r
  BY <1>2, <1>3 DEF Owned
<1>6. \A x \in g.texts : \E q \in H \cup {p} : At(g, q) = x
  <2> SUFFICES ASSUME NEW x \in h.texts PROVE \E q \in H : At(g, q) = x
    BY <1>2
  <2>1. PICK q \in H : At(h, q) = x
    BY DEF Owned
  <2>2. x # Null
    BY <1>1, AddressAssumption DEF Heaps
  <2>3. q # p
    BY <2>1, <2>2
  <2> QED BY <1>3, <2>1, <2>3
<1> QED BY <1>1, <1>4, <1>5, <1>6 DEF Owned

\* A value moves from the place p to an empty or unused place q.
LEMMA MoveKeeps ==
  ASSUME NEW h, NEW H, Owned(h, H), NEW p \in H, NEW q \in Places(h), p # q,
         q \notin H \/ At(h, q) = Null,
         NEW g \in Heaps, SameShape(h, g), g.texts = h.texts, At(g, p) = Null, At(g, q) = At(h, p),
         \A r \in Places(h) : r # p /\ r # q => At(g, r) = At(h, r)
  PROVE  Owned(g, H \cup {q})
<1>1. h \in Heaps /\ H \subseteq Places(h) /\ Places(g) = Places(h)
  BY SamePlaces DEF Owned
<1>5. \A r \in H : r # p /\ r # q => At(g, r) = At(h, r)
  BY <1>1
<1>6. \A r \in H \cup {q} : At(g, r) \in g.texts \cup {Null}
  BY <1>5 DEF Owned
<1>7. \A r, s \in H \cup {q} : At(g, r) = At(g, s) /\ At(g, r) # Null => r = s
  BY <1>5 DEF Owned
<1>8. \A x \in g.texts : \E r \in H \cup {q} : At(g, r) = x
  <2> SUFFICES ASSUME NEW x \in h.texts PROVE \E r \in H \cup {q} : At(g, r) = x
    OBVIOUS
  <2>1. PICK r \in H : At(h, r) = x
    BY DEF Owned
  <2>2. x # Null
    BY <1>1, AddressAssumption DEF Heaps
  <2>3. r # q
    BY <2>1, <2>2
  <2>4. CASE r = p
    BY <2>1, <2>4
  <2>5. CASE r # p
    BY <1>5, <2>1, <2>3, <2>5
  <2> QED BY <2>4, <2>5
<1> QED BY <1>1, <1>6, <1>7, <1>8 DEF Owned

LEMMA TwoWrites ==
  ASSUME NEW h \in Heaps, NEW p \in Places(h), NEW x, NEW T, NEW k, Wrote(h, k, p, x, T),
         NEW q \in Places(h), p # q, NEW y, NEW U, NEW g, Wrote(k, g, q, y, U)
  PROVE  /\ g \in Heaps /\ SameShape(h, g) /\ g.texts = U
         /\ At(g, p) = x /\ At(g, q) = y
         /\ \A r \in Places(h) : r # p /\ r # q => At(g, r) = At(h, r)
<1>1. k \in Heaps /\ g \in Heaps /\ SameShape(h, g)
  BY DEF Wrote, SameShape
<1>2. Places(k) = Places(h)
  BY <1>1, SamePlaces DEF Wrote
<1> QED BY <1>1, <1>2 DEF Wrote

\* What a clear of a written place does is defined, and frees its text.
LEMMA ClearWrites ==
  ASSUME NEW h \in Heaps, NEW p \in Places(h), At(h, p) # Junk
  PROVE  \A g \in Clear(h, p) : Wrote(h, g, p, Null, h.texts \ {At(h, p)})
<1>1. Clear(h, p) = {[Put(h, p, Null) EXCEPT !.texts = @ \ {At(h, p)}]}
  BY DEF Clear
<1>2. Wrote(h, Put(h, p, Null), p, Null, h.texts)
  BY PutWrites DEF Contents
<1>3. Put(h, p, Null).texts = h.texts /\ h.texts \in SUBSET Texts
  BY <1>2 DEF Wrote, Heaps
<1> DEFINE T == h.texts \ {At(h, p)}
<1>4. [Put(h, p, Null) EXCEPT !.texts = @ \ {At(h, p)}] = [Put(h, p, Null) EXCEPT !.texts = T]
  BY <1>3
<1>5. Wrote(h, [Put(h, p, Null) EXCEPT !.texts = T], p, Null, T)
  <2>1. T \in SUBSET Texts /\ Null \in Contents
    BY <1>3 DEF Contents
  <2> HIDE DEF T
  <2> QED BY <2>1, WroteTexts
<1> QED BY <1>1, <1>4, <1>5

LEMMA ClearedWrites ==
  ASSUME NEW h, NEW H, Owned(h, H), NEW p \in H
  PROVE  /\ Wrote(h, Cleared(h, p), p, Null, h.texts \ {At(h, p)})
         /\ Owned(Cleared(h, p), H)
<1>1. h \in Heaps /\ p \in Places(h) /\ At(h, p) \in h.texts \cup {Null}
  BY DEF Owned
<1>2. At(h, p) # Junk
  BY <1>1, AddressAssumption DEF Heaps
<1>3. Clear(h, p) # {}
  BY <1>2 DEF Clear
<1>4. Cleared(h, p) \in Clear(h, p)
  BY <1>3 DEF Cleared
<1>5. Wrote(h, Cleared(h, p), p, Null, h.texts \ {At(h, p)})
  BY <1>1, <1>2, <1>4, ClearWrites
<1> QED BY <1>5, EmptyKeeps

LEMMA CopyKeeps ==
  ASSUME NEW h, NEW H, Owned(h, H), NEW p \in Places(h), p \notin H \/ At(h, p) = Null,
         NEW x, NEW g \in Copy(h, p, x)
  PROVE  Owned(g, H \cup {p}) /\ SameShape(h, g) /\ \E y : Wrote(h, g, p, y, g.texts)
<1>0. h \in Heaps /\ h.texts \in SUBSET Texts
  BY DEF Owned, Heaps
<1>1. CASE x = Null
  <2>1. g = Put(h, p, Null)
    BY <1>1 DEF Copy
  <2>2. Wrote(h, g, p, Null, h.texts)
    BY <1>0, <2>1, PutWrites DEF Contents
  <2> QED BY <2>2, BlankKeeps DEF Wrote
<1>2. CASE x # Null
  <2>1. PICK y \in Texts \ h.texts : g = [Put(h, p, y) EXCEPT !.texts = @ \cup {y}]
    BY <1>2 DEF Copy
  <2>2. Put(h, p, y).texts = h.texts
    BY <1>0, PutWrites DEF Contents, Wrote
  <2> DEFINE T == h.texts \cup {y}
  <2>3. g = [Put(h, p, y) EXCEPT !.texts = T]
    BY <2>1, <2>2
  <2>4. Wrote(h, g, p, y, T)
    <3>1. T \in SUBSET Texts /\ y \in Contents
      BY <1>0 DEF Contents
    <3> HIDE DEF T
    <3> QED BY <1>0, <2>3, <3>1, WroteTexts
  <2> QED BY <2>4, FillKeeps DEF Wrote
<1> QED BY <1>1, <1>2
-----------------------------------------------------------------------------
(***************************************************************************)
(* Blocks are allocated, filled, shortened and freed.                      *)
(***************************************************************************)
\* The heap g is h with the elements s in the block b, and texts T.
Replaced(h, g, b, s, T) ==
    /\ g \in Heaps /\ g.texts = T
    /\ g.blocks = [h.blocks EXCEPT ![b] = s]
    /\ g.slot = h.slot

LEMMA Replace ==
  ASSUME NEW h \in Heaps, NEW b \in Blocks, NEW s \in Seq(Contents), NEW T \in SUBSET Texts,
         NEW g, g = [texts |-> T, blocks |-> [h.blocks EXCEPT ![b] = s], slot |-> h.slot]
  PROVE  Replaced(h, g, b, s, T)
<1>1. [h.blocks EXCEPT ![b] = s] \in [Blocks -> Seq(Contents)]
  BY DEF Heaps
<1>2. h.slot \in [Strings -> Contents]
  BY DEF Heaps
<1> QED BY <1>1, <1>2 DEF Replaced, Heaps

LEMMA ReplacedPlaces ==
  ASSUME NEW h \in Heaps, NEW b \in Blocks, NEW s \in Seq(Contents), NEW T,
         NEW g, Replaced(h, g, b, s, T)
  PROVE  /\ Places(g) \ Elements(g, b) = Places(h) \ Elements(h, b)
         /\ Elements(g, b) \subseteq Places(g)
         /\ \A p : p \in Elements(g, b) <=> \E i \in 1 .. Len(s) : p = <<b, i>>
         /\ \A i \in 1 .. Len(s) : At(g, <<b, i>>) = s[i]
         /\ \A p \in Places(h) : p \notin Elements(h, b) => At(g, p) = At(h, p)
         /\ \A c \in Blocks : c # b => g.blocks[c] = h.blocks[c]
         /\ g.blocks[b] = s
<1>1. /\ g \in Heaps /\ g.slot = h.slot /\ g.blocks[b] = s
      /\ \A c \in Blocks : c # b => g.blocks[c] = h.blocks[c]
  BY DEF Replaced, Heaps
<1>2. \A c \in Blocks : c # b => Elements(g, c) = Elements(h, c)
  BY <1>1 DEF Elements
<1>3. \A p : p \in Elements(g, b) <=> \E i \in 1 .. Len(s) : p = <<b, i>>
  BY <1>1 DEF Elements
<1>4. \A i \in 1 .. Len(s) : At(g, <<b, i>>) = s[i]
  BY <1>1, ElementPlace
<1>5. Elements(g, b) \subseteq Places(g)
  BY DEF Places
<1>6. ASSUME NEW p PROVE p \in Places(g) \ Elements(g, b) <=> p \in Places(h) \ Elements(h, b)
  <2>1. CASE p \in Strings
    BY <1>1, <2>1, ElementOf DEF Places
  <2>2. CASE p \notin Strings
    <3>1. p \in Places(g) \ Elements(g, b) <=> \E c \in Blocks : c # b /\ p \in Elements(g, c)
      <4>1. \A c \in Blocks : p \in Elements(g, c) => p[1] = c
        BY <1>1, ElementOf
      <4> QED BY <2>2, <4>1 DEF Places
    <3>2. p \in Places(h) \ Elements(h, b) <=> \E c \in Blocks : c # b /\ p \in Elements(h, c)
      <4>1. \A c \in Blocks : p \in Elements(h, c) => p[1] = c
        BY ElementOf
      <4> QED BY <2>2, <4>1 DEF Places
    <3> QED BY <1>2, <3>1, <3>2
  <2> QED BY <2>1, <2>2
<1>7. ASSUME NEW p \in Places(h), p \notin Elements(h, b) PROVE At(g, p) = At(h, p)
  <2>1. CASE p \in Strings
    BY <1>1, <2>1 DEF At
  <2>2. CASE p \notin Strings
    <3>1. PICK c \in Blocks : p \in Elements(h, c)
      BY <2>2 DEF Places
    <3>2. c # b /\ p[1] = c
      BY <1>7, <3>1, ElementOf
    <3> QED BY <1>1, <2>2, <3>2 DEF At
  <2> QED BY <2>1, <2>2
<1>8. Places(g) \ Elements(g, b) = Places(h) \ Elements(h, b)
  BY <1>6
<1> QED BY <1>1, <1>3, <1>4, <1>5, <1>7, <1>8

LEMMA FreedIsEmpty ==
  ASSUME NEW h \in Heaps, NEW b \in Blocks
  PROVE  /\ h.blocks[b] = Freed <=> Len(h.blocks[b]) = 0
         /\ h.blocks[b] = Freed <=> Elements(h, b) = {}
         /\ Len(h.blocks[b]) \in Nat /\ h.blocks[b] \in Seq(Contents)
<1>1. h.blocks[b] \in Seq(Contents) /\ Len(h.blocks[b]) \in Nat
  BY DEF Heaps
<1>2. h.blocks[b] = Freed <=> Len(h.blocks[b]) = 0
  BY <1>1 DEF Freed
<1>3. Elements(h, b) = {} <=> Len(h.blocks[b]) = 0
  <2>1. CASE Len(h.blocks[b]) = 0
    <3>1. DOMAIN h.blocks[b] = {}
      BY <1>1, <2>1
    <3> QED BY <2>1, <3>1 DEF Elements
  <2>2. CASE Len(h.blocks[b]) # 0
    <3>1. 1 \in 1 .. Len(h.blocks[b])
      BY <1>1, <2>2
    <3> QED BY <2>2, <3>1, ElementPlace
  <2> QED BY <2>1, <2>2
<1> QED BY <1>1, <1>2, <1>3

\* deallocateArray frees the texts of the elements that it clears.
LEMMA DeallocateKeeps ==
  ASSUME NEW h, NEW H, Owned(h, H), NEW b \in Blocks, NEW n \in Nat, n <= Len(h.blocks[b]),
         \A i \in 1 .. Len(h.blocks[b]) :
             IF i <= n THEN <<b, i>> \in H \/ h.blocks[b][i] = Null ELSE <<b, i>> \notin H,
         NEW g, g = Deallocate(h, b, n)
  PROVE  /\ Replaced(h, g, b, Freed, g.texts)
         /\ Elements(g, b) = {}
         /\ Places(g) = Places(h) \ Elements(h, b)
         /\ Owned(g, H \ Elements(h, b))
<1>0. h \in Heaps /\ h.texts \in SUBSET Texts /\ h.blocks[b] \in Seq(Contents)
  BY DEF Owned, Heaps
<1> DEFINE T == h.texts \ {h.blocks[b][i] : i \in 1 .. n}
<1>1. g = [h EXCEPT !.texts = T, !.blocks[b] = Freed]
  BY DEF Deallocate
<1>2. T \in SUBSET Texts /\ Freed \in Seq(Contents)
  BY <1>0 DEF Freed
<1>3. Replaced(h, g, b, Freed, T)
  <2>1. g = [texts |-> T, blocks |-> [h.blocks EXCEPT ![b] = Freed], slot |-> h.slot]
    BY <1>0, <1>1 DEF Heaps
  <2> HIDE DEF T
  <2> QED BY <1>0, <1>2, <2>1, Replace
<1>4. g \in Heaps /\ g.texts = T /\ g.blocks[b] = Freed
  BY <1>0, <1>3 DEF Replaced, Heaps
<1>5. Elements(g, b) = {}
  BY <1>4, FreedIsEmpty
<1>6. Places(g) = Places(h) \ Elements(h, b)
  BY <1>0, <1>2, <1>3, <1>5, ReplacedPlaces
<1>7. \A p \in H \ Elements(h, b) : At(g, p) = At(h, p)
  BY <1>0, <1>2, <1>3, ReplacedPlaces DEF Owned
\* An element that is cleared holds no text of another place.
<1>8. \A p \in H \ Elements(h, b) : \A i \in 1 .. n : At(h, p) # Null => h.blocks[b][i] # At(h, p)
  <2> SUFFICES ASSUME NEW p \in H \ Elements(h, b), NEW i \in 1 .. n, At(h, p) # Null,
                      h.blocks[b][i] = At(h, p)
               PROVE  FALSE
    OBVIOUS
  <2>1. i \in 1 .. Len(h.blocks[b])
    BY <1>0
  <2>2. <<b, i>> \in H /\ At(h, <<b, i>>) = h.blocks[b][i] /\ <<b, i>> \in Elements(h, b)
    BY <1>0, <2>1, ElementPlace
  <2> QED BY <2>2 DEF Owned
<1>9. \A p \in H \ Elements(h, b) : At(g, p) \in g.texts \cup {Null}
  BY <1>4, <1>7, <1>8 DEF Owned
<1>10. \A p, q \in H \ Elements(h, b) : At(g, p) = At(g, q) /\ At(g, p) # Null => p = q
  BY <1>7 DEF Owned
<1>11. \A x \in g.texts : \E p \in H \ Elements(h, b) : At(g, p) = x
  <2> SUFFICES ASSUME NEW x \in h.texts, \A i \in 1 .. n : h.blocks[b][i] # x
               PROVE  \E p \in H \ Elements(h, b) : At(g, p) = x
    BY <1>4
  <2>1. PICK p \in H : At(h, p) = x
    BY DEF Owned
  <2>2. p \notin Elements(h, b)
    <3> SUFFICES ASSUME p \in Elements(h, b) PROVE FALSE
      OBVIOUS
    <3>1. PICK i \in 1 .. Len(h.blocks[b]) : p = <<b, i>>
      BY <1>0 DEF Elements
    <3>2. At(h, p) = h.blocks[b][i]
      BY <1>0, <3>1, ElementPlace
    <3>3. i <= n
      BY <3>1
    <3> QED BY <2>1, <3>2, <3>3
  <2> QED BY <1>7, <2>1, <2>2
<1>12. Replaced(h, g, b, Freed, g.texts)
  BY <1>3, <1>4
<1>13. H \ Elements(h, b) \subseteq Places(g)
  BY <1>6 DEF Owned
<1> HIDE DEF T
<1> QED BY <1>4, <1>5, <1>6, <1>9, <1>10, <1>11, <1>12, <1>13 DEF Owned

\* A block that nothing holds may have any elements, or others.
LEMMA ReplaceKeeps ==
  ASSUME NEW h, NEW H, Owned(h, H), NEW b \in Blocks, NEW s \in Seq(Contents),
         \A p \in H : p \notin Elements(h, b),
         NEW g, Replaced(h, g, b, s, h.texts)
  PROVE  Owned(g, H)
<1>1. h \in Heaps /\ g \in Heaps /\ g.texts = h.texts
  BY DEF Owned, Replaced
<1>2. \A p \in H : At(g, p) = At(h, p) /\ p \in Places(g)
  BY <1>1, ReplacedPlaces DEF Owned
<1> QED BY <1>1, <1>2 DEF Owned

\* Texts keep their owners when places are renamed.
LEMMA RelocateKeeps ==
  ASSUME NEW h, NEW H, NEW G, NEW g \in Heaps, Owned(h, H), g.texts = h.texts, G \subseteq Places(g),
         NEW f \in [G -> H], \A p \in G : At(g, p) = At(h, f[p]),
         \A p, q \in G : f[p] = f[q] => p = q,
         \A q \in H : \E p \in G : f[p] = q
  PROVE  Owned(g, G)
<1>1. \A p \in G : At(g, p) \in g.texts \cup {Null}
  BY DEF Owned
<1>2. \A p, q \in G : At(g, p) = At(g, q) /\ At(g, p) # Null => p = q
  BY DEF Owned
<1>3. \A x \in g.texts : \E p \in G : At(g, p) = x
  BY DEF Owned
<1> QED BY <1>1, <1>2, <1>3 DEF Owned
-----------------------------------------------------------------------------
(***************************************************************************)
(* The state of the program: heap, Variants and copy.                      *)
(***************************************************************************)
LEMMA Nowhere ==
  /\ \A a \in {Null, Sentinel} : a \notin Blocks /\ a \notin Strings /\ a \notin Blocks \X Nat
  /\ Empty \in Data /\ Empty.at = Null /\ Empty.shape = "none"
  /\ \A b \in Blocks : b \notin Strings /\ b \notin Blocks \X Nat
  /\ \A w \in Strings : w \notin Blocks \X Nat
  BY AddressAssumption DEF Empty, Data, Addresses

LEMMA CopyIsNotNull == \A c \in Copies : c # Null
  BY AddressAssumption

LEMMA IdleHolders == ASSUME NEW h PROVE HoldersOf(h, Null) = Places(h)
  BY DEF HoldersOf

LEMMA SameHolders ==
  ASSUME NEW h \in Heaps, NEW g \in Heaps, SameShape(h, g), NEW c
  PROVE  HoldersOf(g, c) = HoldersOf(h, c)
  BY SamePlaces DEF HoldersOf

LEMMA CopyHolders ==
  ASSUME NEW h \in Heaps, NEW c \in Copies
  PROVE  /\ \A p \in Places(h) : p \notin Elements(h, c.block) => p \in HoldersOf(h, c)
         /\ \A i \in 1 .. Len(h.blocks[c.block]) :
                <<c.block, i>> \in HoldersOf(h, c) <=> i <= c.index
         /\ HoldersOf(h, c) \subseteq Places(h)
<1>1. c # Null /\ c.block \in Blocks
  BY CopyIsNotNull DEF Copies
<1>2. \A p \in Places(h) : p \notin Elements(h, c.block) => p \in HoldersOf(h, c)
  BY <1>1, ElementOf DEF HoldersOf
<1>3. ASSUME NEW i \in 1 .. Len(h.blocks[c.block])
      PROVE  <<c.block, i>> \in HoldersOf(h, c) <=> i <= c.index
  <2> DEFINE p == <<c.block, i>>
  <2>1. p \in Places(h) /\ p \notin Strings /\ p[1] = c.block /\ p[2] = i
    BY <1>1, ElementPlace
  <2> HIDE DEF p
  <2>2. p \in HoldersOf(h, c) <=> i <= c.index
    BY <1>1, <2>1 DEF HoldersOf
  <2> QED BY <2>2 DEF p
<1> QED BY <1>2, <1>3 DEF HoldersOf

LEMMA BlocksSame ==
  ASSUME NEW h \in Heaps, NEW g \in Heaps, SameShape(h, g), NEW d, NEW c, NEW k,
         BlocksOwned(h, d, c), c = Null <=> k = Null, k # Null => k \in Copies /\ k.block = c.block
  PROVE  BlocksOwned(g, d, k)
<1>1. \A b : Building(k, b) <=> Building(c, b)
  BY DEF Building
<1>2. Places(g) = Places(h) /\ \A b \in Blocks : g.blocks[b] = Freed <=> h.blocks[b] = Freed
  BY SamePlaces
<1> QED BY <1>1, <1>2 DEF BlocksOwned

\* The contents of places change, not the places.
LEMMA WriteSound ==
  ASSUME NEW h, NEW d, NEW c, Sound(h, d, c), NEW g, SameShape(h, g), Owned(g, HoldersOf(h, c))
  PROVE  Sound(g, d, c)
<1>1. h \in Heaps /\ g \in Heaps
  BY DEF Sound, Owned
<1>2. BlocksOwned(g, d, c)
  <2>1. BlocksOwned(h, d, c)
    BY DEF Sound
  <2>2. c # Null => c \in Copies
    BY <2>1 DEF BlocksOwned
  <2> QED BY <1>1, <2>1, <2>2, BlocksSame
<1>3. HoldersOf(g, c) = HoldersOf(h, c)
  BY <1>1, SameHolders
<1> QED BY <1>2, <1>3 DEF Sound

\* A copy writes its next element.
LEMMA ElementSound ==
  ASSUME NEW h, NEW d, NEW c \in Copies, Sound(h, d, c), c.index < Len(h.blocks[c.block]),
         NEW g, SameShape(h, g), Owned(g, HoldersOf(h, c) \cup {<<c.block, c.index + 1>>}),
         NEW k \in Copies, k.block = c.block, k.index = c.index + 1
  PROVE  Sound(g, d, k)
<1>1. h \in Heaps /\ g \in Heaps
  BY DEF Sound, Owned
<1>2. c.index \in Nat /\ c.block \in Blocks
  BY DEF Copies
<1>3. BlocksOwned(g, d, k)
  <2>1. BlocksOwned(h, d, c)
    BY DEF Sound
  <2>2. (c = Null <=> k = Null) /\ (k # Null => k \in Copies /\ k.block = c.block)
    BY <1>2, CopyIsNotNull
  <2> HIDE DEF Copies
  <2> QED BY <1>1, <2>1, <2>2, BlocksSame
<1>4. HoldersOf(g, k) = HoldersOf(h, c) \cup {<<c.block, c.index + 1>>}
  <2>1. HoldersOf(g, k) = HoldersOf(h, k)
    BY <1>1, SameHolders
  <2>2. ASSUME NEW p \in Places(h)
        PROVE  p \in HoldersOf(h, k) <=> p \in HoldersOf(h, c) \/ p = <<c.block, c.index + 1>>
    <3>1. CASE p \notin Elements(h, c.block)
      <4>1. p \in HoldersOf(h, k) /\ p \in HoldersOf(h, c)
        BY <1>1, <1>2, <3>1, CopyHolders
      <4> QED BY <4>1
    <3>2. CASE p \in Elements(h, c.block)
      <4>1. Len(h.blocks[c.block]) \in Nat /\ h.blocks[c.block] \in Seq(Contents)
        BY <1>1, <1>2, FreedIsEmpty
      <4>2. PICK i \in 1 .. Len(h.blocks[c.block]) : p = <<c.block, i>>
        BY <3>2, <4>1 DEF Elements
      <4>3. p \in HoldersOf(h, k) <=> i <= c.index + 1
        BY <1>1, <1>2, <4>2, CopyHolders
      <4>4. p \in HoldersOf(h, c) <=> i <= c.index
        BY <1>1, <1>2, <4>2, CopyHolders
      <4>5. i <= c.index + 1 <=> i <= c.index \/ i = c.index + 1
        BY <1>2, <4>1
      <4> QED BY <4>2, <4>3, <4>4, <4>5
    <3> QED BY <3>1, <3>2
  <2>3. <<c.block, c.index + 1>> \in Places(h)
    <3>1. c.index + 1 \in 1 .. Len(h.blocks[c.block])
      BY <1>1, <1>2, FreedIsEmpty
    <3> QED BY <1>1, <1>2, <3>1, ElementPlace
  <2> QED BY <2>1, <2>2, <2>3 DEF HoldersOf
<1> QED BY <1>3, <1>4 DEF Sound

\* UA_clear of a Variant whose data nobody borrows.
LEMMA ClearSound ==
  ASSUME NEW h, NEW d, NEW c, Sound(h, d, c), NEW v \in Variants, ~LentOut(d, d[v].at),
         NEW g, g = ClearVariant(h, d[v])
  PROVE  /\ Sound(g, [d EXCEPT ![v] = Empty], c)
         /\ g \in Heaps /\ g.texts \subseteq h.texts
         /\ \A p \in Places(h) : (d[v].at \in Blocks => p \notin Elements(h, d[v].at)) =>
                p \in Places(g) /\ At(g, p) = At(h, p)
         /\ \A b \in Blocks : b # d[v].at => g.blocks[b] = h.blocks[b]
<1> DEFINE e == [d EXCEPT ![v] = Empty]
<1>1. h \in Heaps /\ d \in [Variants -> Data]
  BY DEF Sound, Owned, BlocksOwned
<1>2. e \in [Variants -> Data] /\ e[v].at = Null /\ e[v].shape = "none"
      /\ \A u \in Variants : u # v => e[u] = d[u]
  BY <1>1, Nowhere
<1> HIDE DEF e
<1>3. Null \notin Blocks /\ Null \notin Blocks \X Nat
  BY Nowhere
<1>4. CASE d[v].at \notin Blocks
  <2>1. g = h
    BY <1>4 DEF ClearVariant
  <2>2. \A b \in Blocks : (\E u \in Variants : e[u].at = b) <=> (\E u \in Variants : d[u].at = b)
    BY <1>2, <1>3, <1>4
  <2>3. \A u \in Variants : ~Building(c, e[u].at)
    <3>1. ~Building(c, Null)
      BY <1>3 DEF Sound, BlocksOwned, Building, Copies
    <3> QED BY <1>2, <3>1 DEF Sound, BlocksOwned
  <2>4. BlocksOwned(h, e, c)
    BY <1>2, <1>3, <2>2, <2>3 DEF Sound, BlocksOwned
  <2> QED BY <1>1, <1>4, <2>1, <2>4 DEF Sound, e
<1>5. CASE d[v].at \in Blocks
  <2> DEFINE b == d[v].at
             n == Len(h.blocks[b])
             H == HoldersOf(h, c)
  <2>1. g = Deallocate(h, b, n)
    BY <1>5 DEF ClearVariant
  <2>2. b \in Blocks /\ ~Building(c, b)
    BY <1>5 DEF Sound, BlocksOwned
  <2>3. n \in Nat /\ h.blocks[b] \in Seq(Contents)
    BY <1>1, <2>2, FreedIsEmpty
  <2>4. Elements(h, b) \subseteq H
    <3>1. \A p \in Elements(h, b) : p \in Places(h) /\ p[1] = b
      BY <1>1, <2>2, ElementOf
    <3> QED BY <2>2, <3>1 DEF HoldersOf, Building
  <2>5. \A i \in 1 .. n : <<b, i>> \in H
    BY <1>1, <2>2, <2>4, ElementPlace
  <2>6. Owned(h, H)
    BY DEF Sound
  <2> HIDE DEF b, n, H
  <2>7. n <= n /\ \A i \in 1 .. n : i <= n
    BY <2>3
  <2>8. /\ Replaced(h, g, b, Freed, g.texts)
        /\ Elements(g, b) = {}
        /\ Places(g) = Places(h) \ Elements(h, b)
        /\ Owned(g, H \ Elements(h, b))
    BY <2>1, <2>2, <2>3, <2>5, <2>6, <2>7, DeallocateKeeps DEF n
  <2>9. HoldersOf(g, c) = H \ Elements(h, b)
    BY <2>8 DEF HoldersOf, H
  <2>10. g \in Heaps /\ g.texts \subseteq h.texts
    <3>1. g.texts = h.texts \ {h.blocks[b][i] : i \in 1 .. n}
      BY <1>1, <2>1 DEF Deallocate, Heaps
    <3> QED BY <2>8, <3>1 DEF Replaced
  <2>11. /\ \A a \in Blocks : a # b => g.blocks[a] = h.blocks[a]
         /\ g.blocks[b] = Freed
         /\ \A p \in Places(h) : p \notin Elements(h, b) => p \in Places(g) /\ At(g, p) = At(h, p)
    <3>1. Freed \in Seq(Contents)
      BY DEF Freed
    <3> QED BY <1>1, <2>2, <2>8, <3>1, ReplacedPlaces
  <2>12. BlocksOwned(g, e, c)
    <3>1. \A a \in Blocks : g.blocks[a] # Freed <=> Building(c, a) \/ \E u \in Variants : e[u].at = a
      <4> SUFFICES ASSUME NEW a \in Blocks
                   PROVE  g.blocks[a] # Freed <=> Building(c, a) \/ \E u \in Variants : e[u].at = a
        OBVIOUS
      <4>1. CASE a # b
        <5>1. (\E u \in Variants : e[u].at = a) <=> (\E u \in Variants : d[u].at = a)
          BY <1>2, <1>3, <4>1 DEF b
        <5> QED BY <2>11, <4>1, <5>1 DEF Sound, BlocksOwned
      <4>2. CASE a = b
        <5>1. \A u \in Variants : e[u].at # b
          BY <1>2, <1>3, <2>2 DEF Sound, BlocksOwned, b
        <5> QED BY <2>2, <2>11, <4>2, <5>1
      <4> QED BY <4>1, <4>2
    <3>2. \A u \in Variants : ~Building(c, e[u].at)
      <4>1. ~Building(c, Null)
        BY <1>3 DEF Sound, BlocksOwned, Building, Copies
      <4> QED BY <1>2, <4>1 DEF Sound, BlocksOwned
    <3>3. ASSUME NEW u \in Variants, e[u].at \in Blocks \X Nat
          PROVE  e[u].at \in Places(g) /\ ~Building(c, e[u].at[1])
      <4>1. u # v /\ e[u].at = d[u].at
        BY <1>2, <1>3, <3>3
      <4>2. d[u].at \in Places(h) /\ ~Building(c, d[u].at[1])
        BY <3>3, <4>1 DEF Sound, BlocksOwned
      <4>3. d[u].at[1] # b
        BY <3>3, <4>1 DEF LentOut, b
      <4>4. d[u].at \notin Elements(h, b)
        BY <1>1, <2>2, <4>3, ElementOf
      <4> QED BY <2>11, <4>1, <4>2, <4>4
    <3>4. \A u \in Variants : e[u].shape = "scalar" => e[u].at \notin {Null, Sentinel}
      BY <1>2 DEF Sound, BlocksOwned
    <3>5. \A u, w \in Variants : e[u].at \in Blocks /\ e[u].at = e[w].at => u = w
      BY <1>2, <1>3 DEF Sound, BlocksOwned
    <3>6. c # Null => c \in Copies
      BY DEF Sound, BlocksOwned
    <3> QED BY <1>2, <3>1, <3>2, <3>3, <3>4, <3>5, <3>6 DEF BlocksOwned
  <2>13. Sound(g, e, c)
    BY <2>8, <2>9, <2>12 DEF Sound
  <2>14. \A p \in Places(h) : (d[v].at \in Blocks => p \notin Elements(h, d[v].at)) =>
             p \in Places(g) /\ At(g, p) = At(h, p)
    BY <1>5, <2>11 DEF b
  <2>15. \A a \in Blocks : a # d[v].at => g.blocks[a] = h.blocks[a]
    BY <2>11 DEF b
  <2> QED BY <2>10, <2>13, <2>14, <2>15 DEF e
<1> QED BY <1>4, <1>5
\* A Variant without a block borrows, or becomes an empty array.
LEMMA UseSound ==
  ASSUME NEW h, NEW d, NEW c, Sound(h, d, c), NEW v \in Variants, d[v].at \notin Blocks,
         NEW x \in Data, x.at \notin Blocks,
         x.at \in Blocks \X Nat => x.at \in Places(h) /\ ~Building(c, x.at[1]),
         x.shape = "scalar" => x.at \notin {Null, Sentinel}
  PROVE  Sound(h, [d EXCEPT ![v] = x], c)
<1> DEFINE e == [d EXCEPT ![v] = x]
<1>1. d \in [Variants -> Data] /\ (c # Null => c \in Copies)
  BY DEF Sound, BlocksOwned
<1>2. e \in [Variants -> Data] /\ e[v] = x /\ \A u \in Variants : u # v => e[u] = d[u]
  BY <1>1
<1> HIDE DEF e
<1>3. \A b \in Blocks : (\E u \in Variants : e[u].at = b) <=> (\E u \in Variants : d[u].at = b)
  BY <1>2
<1>4. ~Building(c, x.at)
  BY <1>1 DEF Building, Copies
<1>5. \A u \in Variants : ~Building(c, e[u].at)
  BY <1>2, <1>4 DEF Sound, BlocksOwned
<1>6. \A u, w \in Variants : e[u].at \in Blocks /\ e[u].at = e[w].at => u = w
  BY <1>2 DEF Sound, BlocksOwned
<1>7. \A u \in Variants : e[u].at \in Blocks \X Nat => e[u].at \in Places(h) /\ ~Building(c, e[u].at[1])
  BY <1>2 DEF Sound, BlocksOwned
<1>8. \A u \in Variants : e[u].shape = "scalar" => e[u].at \notin {Null, Sentinel}
  BY <1>2 DEF Sound, BlocksOwned
<1>9. \A b \in Blocks : h.blocks[b] # Freed <=> Building(c, b) \/ \E u \in Variants : e[u].at = b
  BY <1>3 DEF Sound, BlocksOwned
<1>10. BlocksOwned(h, e, c)
  BY <1>1, <1>2, <1>5, <1>6, <1>7, <1>8, <1>9 DEF BlocksOwned
<1> QED BY <1>10 DEF Sound, e

\* A Variant without a block takes that of a copy, all of which is written.
LEMMA TakeSound ==
  ASSUME NEW h, NEW d, NEW c \in Copies, Sound(h, d, c), NEW v \in Variants, d[v].at \notin Blocks,
         HoldersOf(h, c) = Places(h), NEW x \in Data, x.at = c.block
  PROVE  Sound(h, [d EXCEPT ![v] = x], Null)
<1> DEFINE e == [d EXCEPT ![v] = x]
<1>1. d \in [Variants -> Data] /\ c # Null /\ c.block \in Blocks
  BY CopyIsNotNull DEF Sound, BlocksOwned, Copies
<1>2. e \in [Variants -> Data] /\ e[v] = x /\ \A u \in Variants : u # v => e[u] = d[u]
  BY <1>1
<1> HIDE DEF e
<1>3. \A b : Building(c, b) <=> b = c.block
  BY <1>1 DEF Building
<1>4. \A b : ~Building(Null, b)
  BY DEF Building
<1>5. \A u \in Variants : d[u].at # c.block
  BY <1>3 DEF Sound, BlocksOwned
<1>6. \A u, w \in Variants : e[u].at \in Blocks /\ e[u].at = e[w].at => u = w
  BY <1>2, <1>5 DEF Sound, BlocksOwned
<1>7. \A u \in Variants : e[u].at \in Blocks \X Nat => e[u].at \in Places(h)
  BY <1>1, <1>2, Nowhere DEF Sound, BlocksOwned
<1>8. \A u \in Variants : e[u].shape = "scalar" => e[u].at \notin {Null, Sentinel}
  BY <1>1, <1>2, Nowhere DEF Sound, BlocksOwned
<1>9. ASSUME NEW b \in Blocks PROVE h.blocks[b] # Freed <=> \E u \in Variants : e[u].at = b
  <2>1. h.blocks[b] # Freed <=> b = c.block \/ \E u \in Variants : d[u].at = b
    BY <1>3 DEF Sound, BlocksOwned
  <2>2. (\E u \in Variants : e[u].at = b) <=> b = c.block \/ \E u \in Variants : d[u].at = b
    BY <1>2
  <2> QED BY <2>1, <2>2
<1>10. BlocksOwned(h, e, Null)
  BY <1>2, <1>4, <1>6, <1>7, <1>8, <1>9 DEF BlocksOwned
<1> QED BY <1>10, IdleHolders DEF Sound, e

\* A Variant without a block takes what another has.
LEMMA SwapSound ==
  ASSUME NEW h, NEW d, Sound(h, d, Null), NEW v \in Variants, NEW u \in Variants, u # v,
         d[v].at \notin Blocks
  PROVE  Sound(h, [d EXCEPT ![v] = d[u], ![u] = Empty], Null)
<1> DEFINE e == [d EXCEPT ![v] = d[u], ![u] = Empty]
<1>1. d \in [Variants -> Data]
  BY DEF Sound, BlocksOwned
<1>2. /\ e \in [Variants -> Data] /\ e[v] = d[u] /\ e[u] = Empty
      /\ \A w \in Variants : w \notin {u, v} => e[w] = d[w]
  BY <1>1, Nowhere
<1> HIDE DEF e
<1>3. \A b : ~Building(Null, b)
  BY DEF Building
<1>4. Empty.at \notin Blocks /\ Empty.at \notin Blocks \X Nat /\ Empty.shape = "none"
  BY Nowhere
<1>5. \A w, z \in Variants : e[w].at \in Blocks /\ e[w].at = e[z].at => w = z
  BY <1>2, <1>4 DEF Sound, BlocksOwned
<1>6. \A w \in Variants : e[w].at \in Blocks \X Nat => e[w].at \in Places(h)
  BY <1>2, <1>4 DEF Sound, BlocksOwned
<1>7. \A w \in Variants : e[w].shape = "scalar" => e[w].at \notin {Null, Sentinel}
  BY <1>2, <1>4 DEF Sound, BlocksOwned
<1>8. ASSUME NEW b \in Blocks PROVE h.blocks[b] # Freed <=> \E w \in Variants : e[w].at = b
  <2>1. h.blocks[b] # Freed <=> \E w \in Variants : d[w].at = b
    BY <1>3 DEF Sound, BlocksOwned
  <2>2. ASSUME NEW w \in Variants, d[w].at = b PROVE \E z \in Variants : e[z].at = b
    BY <1>2, <2>2
  <2>3. ASSUME NEW w \in Variants, e[w].at = b PROVE \E z \in Variants : d[z].at = b
    BY <1>2, <1>4, <2>3
  <2> QED BY <2>1, <2>2, <2>3
<1>9. BlocksOwned(h, e, Null)
  BY <1>2, <1>3, <1>5, <1>6, <1>7, <1>8 DEF BlocksOwned
<1> QED BY <1>9, IdleHolders DEF Sound, e

\* What no Variant has, and nothing is at, is a free block.
LEMMA FreeBlock ==
  ASSUME NEW h, NEW d, NEW c, Sound(h, d, c), NEW b \in Blocks, h.blocks[b] = Freed
  PROVE  /\ \A u \in Variants : d[u].at # b
         /\ ~Building(c, b)
         /\ Elements(h, b) = {}
         /\ \A p \in Places(h) : p \notin Strings => p[1] # b
<1>1. h \in Heaps
  BY DEF Sound, Owned
<1>2. Elements(h, b) = {}
  BY <1>1, FreedIsEmpty
<1> QED BY <1>1, <1>2, ElementOf DEF Sound, BlocksOwned

\* A copy begins: the elements of its new block do not count yet.
LEMMA BeginSound ==
  ASSUME NEW h, NEW d, Sound(h, d, Null), NEW b \in Blocks, h.blocks[b] = Freed,
         NEW s \in Seq(Contents), s # <<>>, NEW g, Replaced(h, g, b, s, h.texts),
         NEW c \in Copies, c.block = b, c.index = 0
  PROVE  /\ Sound(g, d, c)
         /\ \A p \in Places(h) : p \in Places(g) /\ (p \notin Strings => p[1] # b)
<1>1. h \in Heaps /\ g \in Heaps /\ c # Null
  BY CopyIsNotNull DEF Sound, Owned, Replaced
<1>2. /\ \A u \in Variants : d[u].at # b
      /\ Elements(h, b) = {}
      /\ \A p \in Places(h) : p \notin Strings => p[1] # b
  BY FreeBlock
<1>3. /\ Places(g) \ Elements(g, b) = Places(h)
      /\ \A p : p \in Elements(g, b) <=> \E i \in 1 .. Len(s) : p = <<b, i>>
      /\ \A a \in Blocks : a # b => g.blocks[a] = h.blocks[a]
      /\ g.blocks[b] = s
  BY <1>1, <1>2, ReplacedPlaces
<1>4. HoldersOf(g, c) = Places(h)
  <2>1. ASSUME NEW p \in Places(h) PROVE p \in HoldersOf(g, c)
    BY <1>1, <1>3, CopyHolders
  <2>2. ASSUME NEW p \in HoldersOf(g, c) PROVE p \in Places(h)
    <3>1. p \in Places(g)
      BY DEF HoldersOf
    <3>2. p \notin Elements(g, b)
      <4> SUFFICES ASSUME p \in Elements(g, b) PROVE FALSE
        OBVIOUS
      <4>1. PICK i \in 1 .. Len(s) : p = <<b, i>>
        BY <1>3
      <4>2. i <= 0
        BY <1>1, <1>3, <2>2, <4>1, CopyHolders
      <4> QED BY <4>2
    <3> QED BY <1>3, <3>1, <3>2
  <2> QED BY <2>1, <2>2
<1>5. Owned(g, Places(h))
  <2>1. Owned(h, Places(h))
    BY IdleHolders DEF Sound
  <2> QED BY <1>2, <2>1, ReplaceKeeps
<1>6. \A a : Building(c, a) <=> a = b
  BY <1>1 DEF Building
<1>7. \A a : ~Building(Null, a)
  BY DEF Building
<1>8. ASSUME NEW a \in Blocks
      PROVE  g.blocks[a] # Freed <=> Building(c, a) \/ \E u \in Variants : d[u].at = a
  <2>1. CASE a = b
    BY <1>3, <1>6, <2>1 DEF Freed
  <2>2. CASE a # b
    BY <1>3, <1>6, <1>7, <2>2 DEF Sound, BlocksOwned
  <2> QED BY <2>1, <2>2
<1>9. ASSUME NEW u \in Variants, d[u].at \in Blocks \X Nat
      PROVE  d[u].at \in Places(g) /\ ~Building(c, d[u].at[1])
  <2>1. d[u].at \in Places(h) /\ d[u].at \notin Strings
    BY <1>9, Nowhere DEF Sound, BlocksOwned
  <2> QED BY <1>2, <1>3, <1>6, <2>1
<1>10. BlocksOwned(g, d, c)
  BY <1>2, <1>6, <1>8, <1>9 DEF Sound, BlocksOwned
<1> QED BY <1>2, <1>3, <1>4, <1>5, <1>10 DEF Sound
\* A Variant without a block gets a new one with new texts.
LEMMA FillSound ==
  ASSUME NEW h, NEW d, Sound(h, d, Null), NEW v \in Variants, d[v].at \notin Blocks,
         NEW b \in Blocks, h.blocks[b] = Freed,
         NEW s \in Seq(Contents), s # <<>>,
         \A i \in 1 .. Len(s) : s[i] \in (Texts \ h.texts) \cup {Null},
         \A i, j \in 1 .. Len(s) : s[i] = s[j] /\ s[i] # Null => i = j,
         NEW T, \A y : y \in T <=> y \in h.texts \/ (y # Null /\ \E i \in 1 .. Len(s) : s[i] = y),
         NEW g, Replaced(h, g, b, s, T), NEW x \in Data, x.at = b
  PROVE  Sound(g, [d EXCEPT ![v] = x], Null)
<1> DEFINE e == [d EXCEPT ![v] = x]
<1>1. h \in Heaps /\ g \in Heaps /\ g.texts = T /\ d \in [Variants -> Data]
      /\ Owned(h, Places(h)) /\ h.texts \in SUBSET Texts
  BY IdleHolders DEF Sound, Owned, Replaced, BlocksOwned, Heaps
<1>2. /\ \A u \in Variants : d[u].at # b
      /\ Elements(h, b) = {}
  BY FreeBlock
<1>3. /\ Places(g) \ Elements(g, b) = Places(h) /\ Elements(g, b) \subseteq Places(g)
      /\ \A p : p \in Elements(g, b) <=> \E i \in 1 .. Len(s) : p = <<b, i>>
      /\ \A i \in 1 .. Len(s) : At(g, <<b, i>>) = s[i]
      /\ \A p \in Places(h) : At(g, p) = At(h, p)
      /\ \A a \in Blocks : a # b => g.blocks[a] = h.blocks[a]
      /\ g.blocks[b] = s
  BY <1>1, <1>2, ReplacedPlaces
<1>4. Owned(g, Places(g))
  <2>1. ASSUME NEW p \in Places(g)
        PROVE  \/ p \in Places(h) /\ At(g, p) = At(h, p) /\ At(g, p) \in h.texts \cup {Null}
               \/ \E i \in 1 .. Len(s) : p = <<b, i>> /\ At(g, p) = s[i]
    BY <1>1, <1>3 DEF Owned
  <2>2. \A p \in Places(g) : At(g, p) \in T \cup {Null}
    BY <2>1
  <2>3. \A p, q \in Places(g) : At(g, p) = At(g, q) /\ At(g, p) # Null => p = q
    <3> SUFFICES ASSUME NEW p \in Places(g), NEW q \in Places(g), At(g, p) = At(g, q), At(g, p) # Null
                 PROVE  p = q
      OBVIOUS
    <3>1. CASE p \in Places(h) /\ q \in Places(h)
      BY <1>1, <1>3, <3>1 DEF Owned
    <3>2. CASE p \in Places(h) /\ q \notin Places(h)
      BY <1>1, <1>3, <2>1, <3>2 DEF Owned
    <3>3. CASE p \notin Places(h) /\ q \in Places(h)
      BY <1>1, <1>3, <2>1, <3>3 DEF Owned
    <3>4. CASE p \notin Places(h) /\ q \notin Places(h)
      <4>1. PICK i \in 1 .. Len(s) : p = <<b, i>> /\ At(g, p) = s[i]
        BY <2>1, <3>4
      <4>2. PICK j \in 1 .. Len(s) : q = <<b, j>> /\ At(g, q) = s[j]
        BY <2>1, <3>4
      <4>3. i = j
        BY <4>1, <4>2
      <4> QED BY <4>1, <4>2, <4>3
    <3> QED BY <3>1, <3>2, <3>3, <3>4
  <2>4. ASSUME NEW y \in T PROVE \E p \in Places(g) : At(g, p) = y
    <3>1. CASE y \in h.texts
      <4>1. PICK p \in Places(h) : At(h, p) = y
        BY <1>1, <3>1 DEF Owned
      <4>2. p \in Places(g)
        BY <1>3
      <4> QED BY <1>3, <4>1, <4>2
    <3>2. CASE y \notin h.texts
      <4>1. PICK i \in 1 .. Len(s) : s[i] = y
        BY <2>4, <3>2
      <4>2. <<b, i>> \in Places(g) /\ At(g, <<b, i>>) = y
        BY <1>3, <4>1
      <4> QED BY <4>2
    <3> QED BY <3>1, <3>2
  <2> QED BY <1>1, <2>2, <2>3, <2>4 DEF Owned
<1>5. e \in [Variants -> Data] /\ e[v] = x /\ \A u \in Variants : u # v => e[u] = d[u]
  BY <1>1
<1> HIDE DEF e
<1>6. \A a : ~Building(Null, a)
  BY DEF Building
<1>7. ASSUME NEW a \in Blocks PROVE g.blocks[a] # Freed <=> \E u \in Variants : e[u].at = a
  <2>1. CASE a = b
    <3>1. e[v].at = a
      BY <1>5, <2>1
    <3> QED BY <1>3, <2>1, <3>1 DEF Freed
  <2>2. CASE a # b
    <3>1. (\E u \in Variants : e[u].at = a) <=> (\E u \in Variants : d[u].at = a)
      BY <1>5, <2>2
    <3> QED BY <1>3, <1>6, <2>2, <3>1 DEF Sound, BlocksOwned
  <2> QED BY <2>1, <2>2
<1>8. \A u, w \in Variants : e[u].at \in Blocks /\ e[u].at = e[w].at => u = w
  BY <1>2, <1>5 DEF Sound, BlocksOwned
<1>9. ASSUME NEW u \in Variants, e[u].at \in Blocks \X Nat PROVE e[u].at \in Places(g)
  <2>1. u # v
    BY <1>5, <1>9, Nowhere
  <2>2. e[u].at \in Places(h)
    BY <1>5, <1>9, <2>1 DEF Sound, BlocksOwned
  <2> QED BY <1>3, <2>2
<1>10. \A u \in Variants : e[u].shape = "scalar" => e[u].at \notin {Null, Sentinel}
  BY <1>5, Nowhere DEF Sound, BlocksOwned
<1>11. BlocksOwned(g, e, Null)
  BY <1>5, <1>6, <1>7, <1>8, <1>9, <1>10 DEF BlocksOwned
<1> QED BY <1>4, <1>11, IdleHolders DEF Sound, e

\* A copy that throws frees its block with what it has written.
LEMMA ThrowSound ==
  ASSUME NEW h, NEW d, NEW c \in Copies, Sound(h, d, c), NEW n \in Nat, c.index <= n,
         n <= Len(h.blocks[c.block]),
         \A i \in c.index + 1 .. n : h.blocks[c.block][i] = Null,
         NEW g, g = Deallocate(h, c.block, n)
  PROVE  Sound(g, d, Null)
<1> DEFINE b == c.block
           H == HoldersOf(h, c)
<1>1. h \in Heaps /\ b \in Blocks /\ c.index \in Nat /\ c # Null
  BY CopyIsNotNull DEF Sound, Owned, Copies
<1>2. Len(h.blocks[b]) \in Nat
  BY <1>1, FreedIsEmpty
<1>3. \A i \in 1 .. Len(h.blocks[b]) :
          IF i <= n THEN <<b, i>> \in H \/ h.blocks[b][i] = Null ELSE <<b, i>> \notin H
  <2> SUFFICES ASSUME NEW i \in 1 .. Len(h.blocks[b])
               PROVE  IF i <= n THEN <<b, i>> \in H \/ h.blocks[b][i] = Null ELSE <<b, i>> \notin H
    OBVIOUS
  <2>1. <<b, i>> \in H <=> i <= c.index
    BY <1>1, CopyHolders
  <2>2. i <= c.index \/ i \in c.index + 1 .. n \/ i > n
    BY <1>1, <1>2
  <2>3. i > n => ~(i <= c.index) /\ ~(i <= n)
    BY <1>1, <1>2
  <2> QED BY <1>1, <1>2, <2>1, <2>2, <2>3
<1>4. Owned(h, H)
  BY DEF Sound
<1>5. \A p \in Places(h) : p \notin Elements(h, b) => p \in H
  BY <1>1, CopyHolders
<1>6. H \subseteq Places(h)
  BY DEF HoldersOf
<1>e. \A a : Building(c, a) <=> a = b
  BY <1>1 DEF Building
<1>d. n <= Len(h.blocks[b]) /\ g = Deallocate(h, b, n)
  OBVIOUS
<1> HIDE DEF b, H
<1>7. /\ Replaced(h, g, b, Freed, g.texts)
      /\ Elements(g, b) = {}
      /\ Places(g) = Places(h) \ Elements(h, b)
      /\ Owned(g, H \ Elements(h, b))
  BY <1>1, <1>3, <1>4, <1>d, DeallocateKeeps
<1>8. H \ Elements(h, b) = Places(g)
  BY <1>5, <1>6, <1>7
<1>9. g.blocks[b] = Freed /\ \A a \in Blocks : a # b => g.blocks[a] = h.blocks[a]
  <2>1. Freed \in Seq(Contents)
    BY DEF Freed
  <2> QED BY <1>1, <1>7, <2>1, ReplacedPlaces
<1>10. \A a : ~Building(Null, a)
  BY DEF Building
<1>11. \A u \in Variants : d[u].at # b
  BY <1>e DEF Sound, BlocksOwned
<1>12. ASSUME NEW a \in Blocks PROVE g.blocks[a] # Freed <=> \E u \in Variants : d[u].at = a
  <2>1. CASE a = b
    BY <1>9, <1>11, <2>1
  <2>2. CASE a # b
    BY <1>9, <1>e, <2>2 DEF Sound, BlocksOwned
  <2> QED BY <2>1, <2>2
<1>13. ASSUME NEW u \in Variants, d[u].at \in Blocks \X Nat PROVE d[u].at \in Places(g)
  <2>1. d[u].at \in Places(h) /\ d[u].at[1] # b
    BY <1>13, <1>e DEF Sound, BlocksOwned
  <2>2. d[u].at \notin Elements(h, b)
    BY <1>1, <2>1, ElementOf
  <2> QED BY <1>7, <2>1, <2>2
<1>14. BlocksOwned(g, d, Null)
  BY <1>10, <1>12, <1>13 DEF Sound, BlocksOwned
<1> QED BY <1>7, <1>8, <1>14, IdleHolders DEF Sound

\* The block of a single-pass copy is cut to what is written.
LEMMA ShrinkSound ==
  ASSUME NEW h, NEW d, NEW c \in Copies, Sound(h, d, c),
         c.index >= 1, c.index <= Len(h.blocks[c.block]),
         NEW g, Replaced(h, g, c.block, SubSeq(h.blocks[c.block], 1, c.index), h.texts)
  PROVE  Sound(g, d, c) /\ HoldersOf(g, c) = Places(g)
<1> DEFINE b == c.block
           s == SubSeq(h.blocks[b], 1, c.index)
<1>1. h \in Heaps /\ g \in Heaps /\ b \in Blocks /\ c.index \in Nat /\ c # Null /\ g.texts = h.texts
  BY CopyIsNotNull DEF Sound, Owned, Copies, Replaced
<1>2. h.blocks[b] \in Seq(Contents) /\ Len(h.blocks[b]) \in Nat
  BY <1>1, FreedIsEmpty
<1>3. /\ s \in Seq(Contents) /\ Len(s) = c.index /\ s # <<>>
      /\ \A i \in 1 .. c.index : s[i] = h.blocks[b][i]
  BY <1>1, <1>2
<1>4. Replaced(h, g, b, s, h.texts)
  OBVIOUS
<1>e. \A a : Building(c, a) <=> a = b
  BY <1>1 DEF Building
<1>h. \A p \in Places(g) : p \notin Elements(g, b) => p \in HoldersOf(g, c)
  BY <1>1, CopyHolders
<1>k. \A p \in Places(h) : p \notin Elements(h, b) => p \in HoldersOf(h, c)
  BY <1>1, CopyHolders
<1>l. \A i \in 1 .. c.index : /\ <<b, i>> \in HoldersOf(h, c) /\ At(h, <<b, i>>) = h.blocks[b][i]
                              /\ <<b, i>> \in Elements(h, b)
  <2> SUFFICES ASSUME NEW i \in 1 .. c.index
               PROVE  /\ <<b, i>> \in HoldersOf(h, c) /\ At(h, <<b, i>>) = h.blocks[b][i]
                      /\ <<b, i>> \in Elements(h, b)
    OBVIOUS
  <2>1. i \in 1 .. Len(h.blocks[b]) /\ i <= c.index
    BY <1>1, <1>2
  <2> QED BY <1>1, <2>1, CopyHolders, ElementPlace
<1> HIDE DEF b, s
<1>5. /\ Places(g) \ Elements(g, b) = Places(h) \ Elements(h, b)
      /\ Elements(g, b) \subseteq Places(g)
      /\ \A p : p \in Elements(g, b) <=> \E i \in 1 .. c.index : p = <<b, i>>
      /\ \A i \in 1 .. c.index : At(g, <<b, i>>) = s[i]
      /\ \A p \in Places(h) : p \notin Elements(h, b) => At(g, p) = At(h, p)
      /\ \A a \in Blocks : a # b => g.blocks[a] = h.blocks[a]
      /\ g.blocks[b] = s
  BY <1>1, <1>3, <1>4, ReplacedPlaces
<1>6. HoldersOf(g, c) = Places(g)
  <2>1. \A i \in 1 .. c.index : <<b, i>> \in HoldersOf(g, c)
    <3> SUFFICES ASSUME NEW i \in 1 .. c.index PROVE <<b, i>> \in HoldersOf(g, c)
      OBVIOUS
    <3>1. i \in 1 .. Len(g.blocks[c.block]) /\ i <= c.index
      BY <1>1, <1>3, <1>5 DEF b
    <3> QED BY <1>1, <3>1, CopyHolders DEF b
  <2>2. \A p \in Places(g) : p \in HoldersOf(g, c)
    BY <1>h, <1>5, <2>1
  <2> QED BY <2>2 DEF HoldersOf
<1>7. \A p \in Places(g) : p \in HoldersOf(h, c) /\ At(g, p) = At(h, p)
  <2> SUFFICES ASSUME NEW p \in Places(g) PROVE p \in HoldersOf(h, c) /\ At(g, p) = At(h, p)
    OBVIOUS
  <2>1. CASE p \in Elements(g, b)
    BY <1>3, <1>5, <1>l, <2>1
  <2>2. CASE p \notin Elements(g, b)
    BY <1>5, <1>k, <2>2
  <2> QED BY <2>1, <2>2
<1>8. \A p \in HoldersOf(h, c) : p \in Places(g)
  <2> SUFFICES ASSUME NEW p \in HoldersOf(h, c) PROVE p \in Places(g)
    OBVIOUS
  <2>1. p \in Places(h)
    BY DEF HoldersOf
  <2>2. CASE p \in Elements(h, b)
    <3>1. PICK i \in 1 .. Len(h.blocks[b]) : p = <<b, i>>
      BY <1>2, <2>2 DEF Elements
    <3>2. i <= c.index
      BY <1>1, <3>1, CopyHolders DEF b
    <3>3. i \in 1 .. c.index
      BY <1>1, <1>2, <3>2
    <3> QED BY <1>5, <3>1, <3>3
  <2>3. CASE p \notin Elements(h, b)
    BY <1>5, <2>1, <2>3
  <2> QED BY <2>2, <2>3
<1>9. Owned(g, Places(g))
  <2>1. Owned(h, HoldersOf(h, c))
    BY DEF Sound
  <2> QED BY <1>1, <1>7, <1>8, <2>1 DEF Owned
<1>10. \A a \in Blocks : g.blocks[a] # Freed <=> Building(c, a) \/ \E u \in Variants : d[u].at = a
  <2> SUFFICES ASSUME NEW a \in Blocks
               PROVE  g.blocks[a] # Freed <=> Building(c, a) \/ \E u \in Variants : d[u].at = a
    OBVIOUS
  <2>1. CASE a = b
    BY <1>3, <1>5, <1>e, <2>1 DEF Freed
  <2>2. CASE a # b
    BY <1>5, <2>2 DEF Sound, BlocksOwned
  <2> QED BY <2>1, <2>2
<1>11. ASSUME NEW u \in Variants, d[u].at \in Blocks \X Nat
       PROVE  d[u].at \in Places(g) /\ ~Building(c, d[u].at[1])
  <2>1. d[u].at \in Places(h) /\ ~Building(c, d[u].at[1])
    BY <1>11 DEF Sound, BlocksOwned
  <2>2. d[u].at \notin Elements(h, b)
    BY <1>1, <1>e, <2>1, ElementOf
  <2> QED BY <1>5, <2>1, <2>2
<1>12. BlocksOwned(g, d, c)
  BY <1>10, <1>11 DEF Sound, BlocksOwned
<1> QED BY <1>6, <1>9, <1>12 DEF Sound
\* The elements of the block a have moved to the block b, which holds s.
Moved(h, g, a, b, s) ==
    /\ s \in Seq(Contents) /\ s # <<>> /\ Len(h.blocks[a]) <= Len(s)
    /\ \A i \in 1 .. Len(h.blocks[a]) : s[i] = h.blocks[a][i]
    /\ \E m : Replaced(h, m, b, s, h.texts) /\ Replaced(m, g, a, Freed, h.texts)

\* The places outside the block a are still there, and outside b.
Kept(h, g, a, b) ==
    \A p \in Places(h) : p \notin Elements(h, a) =>
        p \in Places(g) /\ (p \notin Strings => p[1] # b)

\* The copy c has filled its block; as k it goes on in the block b.
GoesOn(h, c, k, b) ==
    /\ c \in Copies /\ c.index = Len(h.blocks[c.block])
    /\ b \in Blocks /\ h.blocks[b] = Freed
    /\ k \in Copies /\ k.block = b /\ k.index = c.index

\* A full block gives way to a longer one.
LEMMA GrowSound ==
  ASSUME NEW h, NEW d, NEW c, Sound(h, d, c), NEW b, NEW k, GoesOn(h, c, k, b),
         NEW s, NEW g, Moved(h, g, c.block, b, s)
  PROVE  Sound(g, d, k) /\ g.blocks[b] = s /\ Kept(h, g, c.block, b)
<1>g. /\ c \in Copies /\ c.index = Len(h.blocks[c.block])
      /\ b \in Blocks /\ h.blocks[b] = Freed
      /\ k \in Copies /\ k.block = b /\ k.index = c.index
  BY DEF GoesOn
<1>m. /\ s \in Seq(Contents) /\ s # <<>> /\ c.index <= Len(s)
      /\ \A i \in 1 .. c.index : s[i] = h.blocks[c.block][i]
  BY <1>g DEF Moved
<1>0. PICK m : Replaced(h, m, b, s, h.texts) /\ Replaced(m, g, c.block, Freed, h.texts)
  BY DEF Moved
<1> DEFINE a == c.block
           n == c.index
<1>1. /\ h \in Heaps /\ m \in Heaps /\ g \in Heaps /\ a \in Blocks /\ n \in Nat
      /\ c # Null /\ k # Null /\ g.texts = h.texts /\ m.texts = h.texts
  BY <1>g, <1>0, CopyIsNotNull DEF Sound, Owned, Copies, Replaced
<1>2. /\ \A u \in Variants : d[u].at # b
      /\ ~Building(c, b) /\ Elements(h, b) = {}
      /\ \A p \in Places(h) : p \notin Strings => p[1] # b
  BY <1>g, FreeBlock
<1>3. b # a
  BY <1>1, <1>2 DEF Building
<1>4. Freed \in Seq(Contents)
  BY DEF Freed
<1>5. n = Len(h.blocks[a]) /\ \A i \in 1 .. n : s[i] = h.blocks[a][i]
  BY <1>g, <1>m
<1>6. /\ Places(m) \ Elements(m, b) = Places(h)
      /\ Elements(m, b) \subseteq Places(m)
      /\ \A p : p \in Elements(m, b) <=> \E i \in 1 .. Len(s) : p = <<b, i>>
      /\ \A i \in 1 .. Len(s) : At(m, <<b, i>>) = s[i]
      /\ \A p \in Places(h) : At(m, p) = At(h, p)
      /\ \A x \in Blocks : x # b => m.blocks[x] = h.blocks[x]
      /\ m.blocks[b] = s
  BY <1>0, <1>1, <1>2, <1>g, <1>m, ReplacedPlaces
<1>7. Elements(m, a) = Elements(h, a)
  BY <1>1, <1>3, <1>6 DEF Elements
<1>8. Replaced(m, g, a, Freed, h.texts)
  BY <1>0
<1>e. \A x : (Building(c, x) <=> x = a) /\ (Building(k, x) <=> x = b)
  BY <1>1, <1>g DEF Building
<1>k. /\ \A p \in Places(g) : p \notin Elements(g, b) => p \in HoldersOf(g, k)
      /\ \A i \in 1 .. Len(g.blocks[b]) : <<b, i>> \in HoldersOf(g, k) <=> i <= n
      /\ HoldersOf(g, k) \subseteq Places(g)
  BY <1>1, <1>g, CopyHolders
<1>c. /\ \A p \in Places(h) : p \notin Elements(h, a) => p \in HoldersOf(h, c)
      /\ \A i \in 1 .. n : <<a, i>> \in HoldersOf(h, c)
      /\ HoldersOf(h, c) \subseteq Places(h)
  BY <1>1, <1>g, CopyHolders
<1>v. \A u \in Variants : d[u].at \in Blocks \X Nat =>
          d[u].at \in Places(h) /\ ~Building(c, d[u].at[1])
  BY DEF Sound, BlocksOwned
<1>w. n <= Len(s) /\ Len(s) \in Nat
  BY <1>m
<1> HIDE DEF a, n
<1>9. /\ Places(g) \ Elements(g, a) = Places(m) \ Elements(m, a)
      /\ \A p \in Places(m) : p \notin Elements(m, a) => At(g, p) = At(m, p)
      /\ \A x \in Blocks : x # a => g.blocks[x] = m.blocks[x]
      /\ g.blocks[a] = Freed
  BY <1>1, <1>4, <1>8, ReplacedPlaces
<1>10. Elements(g, a) = {}
  BY <1>1, <1>9, FreedIsEmpty
<1>11. g.blocks[b] = s /\ Elements(g, b) = Elements(m, b)
  BY <1>3, <1>6, <1>9, <1>g DEF Elements
<1>12. \A p \in Elements(m, b) : p \notin Elements(m, a)
  BY <1>1, <1>3, <1>g, ElementOf
<1>13. /\ \A p \in Places(h) : p \notin Elements(h, a) => p \in Places(g) /\ At(g, p) = At(h, p)
       /\ \A p \in Places(g) : p \notin Elements(g, b) => p \in Places(h) /\ p \notin Elements(h, a)
       /\ \A i \in 1 .. Len(s) : <<b, i>> \in Places(g) /\ At(g, <<b, i>>) = s[i]
  <2>1. ASSUME NEW p \in Places(h), p \notin Elements(h, a) PROVE p \in Places(g) /\ At(g, p) = At(h, p)
    BY <1>6, <1>7, <1>9, <2>1
  <2>2. ASSUME NEW p \in Places(g), p \notin Elements(g, b) PROVE p \in Places(h) /\ p \notin Elements(h, a)
    BY <1>6, <1>7, <1>9, <1>10, <1>11, <2>2
  <2>3. ASSUME NEW i \in 1 .. Len(s) PROVE <<b, i>> \in Places(g) /\ At(g, <<b, i>>) = s[i]
    <3>1. <<b, i>> \in Elements(m, b) /\ <<b, i>> \in Places(m) /\ <<b, i>> \notin Elements(m, a)
      BY <1>6, <1>12
    <3> QED BY <1>6, <1>9, <3>1
  <2> QED BY <2>1, <2>2, <2>3
<1> DEFINE G == HoldersOf(g, k)
           H == HoldersOf(h, c)
           f == [p \in G |-> IF p \in Elements(g, b) THEN <<a, p[2]>> ELSE p]
\* What the copy has written, and everything else.
<1>14. ASSUME NEW p \in G
       PROVE  \/ p \in Elements(g, b) /\ \E i \in 1 .. n : p = <<b, i>>
              \/ p \notin Elements(g, b) /\ p \in Places(h) /\ p \notin Elements(h, a)
  <2>1. p \in Places(g)
    BY <1>k
  <2>2. CASE p \in Elements(g, b)
    <3>1. PICK i \in 1 .. Len(s) : p = <<b, i>>
      BY <1>6, <1>11, <2>2
    <3>2. i \in 1 .. Len(g.blocks[b]) /\ <<b, i>> \in G
      BY <1>11, <3>1
    <3>3. i <= n
      BY <1>k, <3>2
    <3>4. i \in 1 .. n
      BY <1>1, <1>w, <3>3
    <3> QED BY <2>2, <3>1, <3>4
  <2>3. CASE p \notin Elements(g, b)
    BY <1>13, <2>1, <2>3
  <2> QED BY <2>2, <2>3
<1>15. \A i \in 1 .. n : <<b, i>> \in G /\ <<b, i>> \in Elements(g, b)
  <2> SUFFICES ASSUME NEW i \in 1 .. n PROVE <<b, i>> \in G /\ <<b, i>> \in Elements(g, b)
    OBVIOUS
  <2>1. i \in 1 .. Len(s) /\ i <= n
    BY <1>1, <1>w
  <2> QED BY <1>6, <1>11, <1>k, <2>1
<1>16. \A p \in Places(h) : p \notin Elements(h, a) => p \in G /\ p \notin Elements(g, b)
  <2> SUFFICES ASSUME NEW p \in Places(h), p \notin Elements(h, a)
               PROVE  p \in G /\ p \notin Elements(g, b)
    OBVIOUS
  <2>1. p \notin Elements(g, b)
    BY <1>6, <1>11
  <2> QED BY <1>13, <1>k, <2>1
<1>17. \A p \in G : p \notin Elements(g, b) => f[p] = p
  OBVIOUS
<1>18. \A i \in 1 .. n : f[<<b, i>>] = <<a, i>>
  BY <1>15
<1>19. f = [p \in G |-> f[p]]
  OBVIOUS
<1> HIDE DEF f, G, H
<1>20. ASSUME NEW p \in G PROVE f[p] \in H /\ At(g, p) = At(h, f[p])
  <2>1. CASE p \in Elements(g, b)
    <3>1. PICK i \in 1 .. n : p = <<b, i>>
      BY <1>14, <2>1
    <3>2. f[p] = <<a, i>> /\ <<a, i>> \in H
      BY <1>18, <1>c, <3>1 DEF H
    <3>3. At(g, p) = s[i]
      BY <1>1, <1>13, <1>w, <3>1
    <3>4. At(h, <<a, i>>) = h.blocks[a][i]
      BY <1>1, <1>5, ElementPlace
    <3> QED BY <1>5, <3>2, <3>3, <3>4
  <2>2. CASE p \notin Elements(g, b)
    BY <1>13, <1>14, <1>17, <1>c, <2>2 DEF H
  <2> QED BY <2>1, <2>2
<1>21. f \in [G -> H]
  BY <1>19, <1>20
<1>22. ASSUME NEW p \in G, NEW q \in G, f[p] = f[q] PROVE p = q
  <2>1. \A i \in 1 .. n : <<a, i>> \in Elements(h, a)
    BY <1>1, <1>5, ElementPlace
  <2>2. CASE p \in Elements(g, b) /\ q \in Elements(g, b)
    <3>1. PICK i \in 1 .. n : p = <<b, i>>
      BY <1>14, <2>2
    <3>2. PICK j \in 1 .. n : q = <<b, j>>
      BY <1>14, <2>2
    <3>3. <<a, i>> = <<a, j>>
      BY <1>18, <1>22, <3>1, <3>2
    <3> QED BY <3>1, <3>2, <3>3
  <2>3. CASE p \in Elements(g, b) /\ q \notin Elements(g, b)
    <3>1. PICK i \in 1 .. n : p = <<b, i>>
      BY <1>14, <2>3
    <3> QED BY <1>14, <1>17, <1>18, <1>22, <2>1, <2>3, <3>1
  <2>4. CASE p \notin Elements(g, b) /\ q \in Elements(g, b)
    <3>1. PICK i \in 1 .. n : q = <<b, i>>
      BY <1>14, <2>4
    <3> QED BY <1>14, <1>17, <1>18, <1>22, <2>1, <2>4, <3>1
  <2>5. CASE p \notin Elements(g, b) /\ q \notin Elements(g, b)
    BY <1>17, <1>22, <2>5
  <2> QED BY <2>2, <2>3, <2>4, <2>5
<1>23. ASSUME NEW q \in H PROVE \E p \in G : f[p] = q
  <2>1. q \in Places(h)
    BY <1>c DEF H
  <2>2. CASE q \in Elements(h, a)
    <3>1. h.blocks[a] \in Seq(Contents)
      BY <1>1, FreedIsEmpty
    <3>2. PICK i \in 1 .. n : q = <<a, i>>
      BY <1>5, <2>2, <3>1 DEF Elements
    <3>3. f[<<b, i>>] = q /\ <<b, i>> \in G
      BY <1>15, <1>18, <3>2
    <3> QED BY <3>3
  <2>3. CASE q \notin Elements(h, a)
    BY <1>16, <1>17, <2>1, <2>3
  <2> QED BY <2>2, <2>3
<1>24. Owned(g, G)
  <2>1. Owned(h, H)
    BY DEF Sound, H
  <2>2. G \subseteq Places(g)
    BY <1>k DEF G
  <2> QED BY <1>1, <1>20, <1>21, <1>22, <1>23, <2>1, <2>2, RelocateKeeps
<1>25. ASSUME NEW x \in Blocks
       PROVE  g.blocks[x] # Freed <=> Building(k, x) \/ \E u \in Variants : d[u].at = x
  <2>1. CASE x = a
    <3>1. \A u \in Variants : d[u].at # a
      BY <1>e DEF Sound, BlocksOwned
    <3> QED BY <1>3, <1>9, <1>e, <2>1, <3>1
  <2>2. CASE x = b
    BY <1>11, <1>e, <1>m, <2>2 DEF Freed
  <2>3. CASE x # a /\ x # b
    <3>1. h.blocks[x] # Freed <=> Building(c, x) \/ \E u \in Variants : d[u].at = x
      BY DEF Sound, BlocksOwned
    <3> QED BY <1>6, <1>9, <1>e, <2>3, <3>1
  <2> QED BY <2>1, <2>2, <2>3
<1>26. ASSUME NEW u \in Variants, d[u].at \in Blocks \X Nat
       PROVE  d[u].at \in Places(g) /\ ~Building(k, d[u].at[1])
  <2>1. d[u].at \in Places(h) /\ d[u].at[1] # a
    BY <1>26, <1>v, <1>e
  <2>2. d[u].at \notin Strings /\ d[u].at \notin Elements(h, a)
    BY <1>1, <1>26, <2>1, ElementOf, Nowhere
  <2> QED BY <1>2, <1>13, <1>e, <2>1, <2>2
<1>27. BlocksOwned(g, d, k)
  BY <1>2, <1>25, <1>26, <1>e, <1>g DEF Sound, BlocksOwned
<1> QED BY <1>2, <1>11, <1>13, <1>24, <1>27 DEF Sound, Kept, G, a
-----------------------------------------------------------------------------
(***************************************************************************)
(* The actions of a program that copies no range.                          *)
(***************************************************************************)
LEMMA IdleState ==
  ASSUME ValuesInv, NoCopy
  PROVE  /\ Sound(heap, variant, Null) /\ Owned(heap, Places(heap))
         /\ heap \in Heaps /\ variant \in [Variants -> Data]
  BY IdleHolders DEF ValuesInv, NoCopy, Sound, BlocksOwned, Owned

LEMMA IdleSound ==
  ASSUME Sound(heap', variant', Null), copying' = Null
  PROVE  ValuesInv'
  BY DEF ValuesInv, NoCopy

LEMMA PlaceAddress ==
  ASSUME NEW h \in Heaps, NEW p \in Places(h)
  PROVE  /\ p \in Addresses /\ p \notin Blocks
         /\ p \notin Strings => p \in Blocks \X Nat
<1>1. CASE p \in Strings
  BY <1>1, Nowhere DEF Addresses
<1>2. CASE p \notin Strings
  <2>1. p \in Blocks \X Nat
    BY <1>2, PlaceCases, ElementPlace
  <2> QED BY <1>2, <2>1, Nowhere DEF Addresses
<1> QED BY <1>1, <1>2

\* What the program can name exists.
LEMMA ReadableExists == ASSUME ValuesInv, NoCopy PROVE Readable \subseteq Places(heap)
<1>1. heap \in Heaps /\ variant \in [Variants -> Data] /\ Sound(heap, variant, Null)
  BY IdleState
<1>2. Strings \subseteq Places(heap)
  BY DEF Places
<1>3. ASSUME NEW v \in Variants, NEW p \in Named(v) PROVE p \in Places(heap)
  <2>1. CASE variant[v].at \in Blocks
    <3>1. p \in Elements(heap, variant[v].at)
      BY <1>3, <2>1 DEF Named
    <3> QED BY <1>1, <2>1, <3>1, ElementOf
  <2>2. CASE variant[v].at \notin Blocks
    <3>1. p = variant[v].at /\ p \in Strings \cup (Blocks \X Nat)
      BY <1>3, <2>2 DEF Named, Borrowed, Addresses
    <3> QED BY <1>1, <1>2, <3>1 DEF Sound, BlocksOwned
  <2> QED BY <2>1, <2>2
<1> QED BY <1>2, <1>3 DEF Readable

LEMMA NotLent ==
  ASSUME Rules = AllRules, NEW v \in Variants, MayFree(variant[v])
  PROVE  ~LentOut(variant, variant[v].at)
  BY DEF AllRules, MayFree, Lent, LentOut

\* The heap after a write, when no copy is in progress.
LEMMA IdleWrite ==
  ASSUME ValuesInv, NoCopy, SameShape(heap, heap'), Owned(heap', Places(heap)),
         UNCHANGED <<variant, copying>>
  PROVE  ValuesInv'
<1>1. Sound(heap, variant, Null) /\ HoldersOf(heap, Null) = Places(heap)
  BY IdleState, IdleHolders
<1>2. Sound(heap', variant, Null)
  BY <1>1, WriteSound
<1> QED BY <1>2, IdleSound DEF NoCopy

LEMMA StringPlace == ASSUME NEW h, NEW w \in Strings PROVE w \in Places(h) /\ At(h, w) = h.slot[w]
  BY DEF Places, At

LEMMA ShapesCompose ==
  ASSUME NEW h, NEW k, NEW g, SameShape(h, k), SameShape(k, g)
  PROVE  SameShape(h, g)
  BY DEF SameShape

LEMMA WrapperConstructKeeps ==
  ASSUME ValuesInv, NEW w \in Strings, WrapperConstruct(w)
  PROVE  ValuesInv'
<1>1. NoCopy /\ heap.slot[w] = Null /\ UNCHANGED <<variant, copying>>
  BY DEF WrapperConstruct
<1>2. w \in Places(heap) /\ At(heap, w) = Null
  BY <1>1, StringPlace
<1>3. heap' \in Copy(heap, w, Junk)
  BY AddressAssumption DEF WrapperConstruct, Copy
<1>4. Owned(heap, Places(heap))
  BY <1>1, IdleState
<1>5. Owned(heap', Places(heap) \cup {w}) /\ SameShape(heap, heap')
  BY <1>2, <1>3, <1>4, CopyKeeps
<1>6. Places(heap) \cup {w} = Places(heap)
  BY <1>2
<1> QED BY <1>1, <1>5, <1>6, IdleWrite

\* The heap h in which the wrapper w has been cleared.
LEMMA ClearedString ==
  ASSUME ValuesInv, NoCopy, NEW w \in Strings, NEW h, h = Cleared(heap, w)
  PROVE  /\ h \in Heaps /\ Owned(h, Places(heap)) /\ SameShape(heap, h) /\ Places(h) = Places(heap)
         /\ h.texts \subseteq heap.texts /\ w \in Places(h) /\ At(h, w) = Null
         /\ \A p \in Places(heap) : p # w => At(h, p) = At(heap, p)
<1>1. Owned(heap, Places(heap)) /\ heap \in Heaps /\ w \in Places(heap)
  BY IdleState, StringPlace
<1>2. Wrote(heap, h, w, Null, heap.texts \ {At(heap, w)}) /\ Owned(h, Places(heap))
  BY <1>1, ClearedWrites
<1>3. h \in Heaps /\ SameShape(heap, h)
  BY <1>2 DEF Wrote
<1>4. Places(h) = Places(heap)
  BY <1>1, <1>3, SamePlaces
<1> QED BY <1>1, <1>2, <1>3, <1>4 DEF Wrote

LEMMA WrapperCopyKeeps ==
  ASSUME ValuesInv, NEW w \in Strings, NEW p \in Readable, WrapperCopy(w, p)
  PROVE  ValuesInv'
<1> DEFINE h == Cleared(heap, w)
           x == At(heap, p)
<1>1. NoCopy /\ UNCHANGED <<variant, copying>> /\ heap' \in Copy(h, w, x) \cup {h}
  BY DEF WrapperCopy
<1>2. /\ h \in Heaps /\ Owned(h, Places(heap)) /\ SameShape(heap, h) /\ Places(h) = Places(heap)
      /\ w \in Places(h) /\ At(h, w) = Null
  BY <1>1, ClearedString
<1> HIDE DEF h, x
<1>3. CASE heap' = h
  BY <1>1, <1>2, <1>3, IdleWrite
<1>4. CASE heap' \in Copy(h, w, x)
  <2>1. Owned(heap', Places(heap) \cup {w}) /\ SameShape(h, heap')
    BY <1>2, <1>4, CopyKeeps
  <2>2. Places(heap) \cup {w} = Places(heap)
    BY <1>2
  <2>3. SameShape(heap, heap')
    BY <1>2, <2>1, ShapesCompose
  <2> QED BY <1>1, <2>1, <2>2, <2>3, IdleWrite
<1> QED BY <1>1, <1>3, <1>4

LEMMA TextAt ==
  ASSUME NEW h, NEW H, Owned(h, H), NEW p \in H
  PROVE  At(h, p) \in Contents /\ At(h, p) # Junk
  BY AddressAssumption DEF Owned, Heaps, Contents

LEMMA WrapperMoveKeeps ==
  ASSUME ValuesInv, NEW w \in Strings, NEW p \in Readable, WrapperMove(w, p)
  PROVE  ValuesInv'
<1> DEFINE h == Cleared(heap, w)
           k == Put(h, w, At(heap, p))
<1>1. NoCopy /\ UNCHANGED <<variant, copying>> /\ p # w /\ heap' = Put(k, p, Null)
  BY DEF WrapperMove
<1>2. /\ h \in Heaps /\ Owned(h, Places(heap)) /\ SameShape(heap, h) /\ Places(h) = Places(heap)
      /\ w \in Places(h) /\ At(h, w) = Null
      /\ \A q \in Places(heap) : q # w => At(h, q) = At(heap, q)
  BY <1>1, ClearedString
<1>3. p \in Places(heap) /\ At(h, p) = At(heap, p)
  BY <1>1, <1>2, ReadableExists
<1> HIDE DEF h
<1>4. Wrote(h, k, w, At(h, p), h.texts)
  BY <1>2, <1>3, TextAt, PutWrites
<1> HIDE DEF k
<1>5. k \in Heaps /\ k.texts = h.texts /\ Places(k) = Places(h)
  BY <1>2, <1>4, SamePlaces DEF Wrote
<1>6. Wrote(k, heap', p, Null, h.texts)
  BY <1>1, <1>2, <1>3, <1>5, PutWrites DEF Contents
<1>7. /\ heap' \in Heaps /\ SameShape(h, heap') /\ heap'.texts = h.texts
      /\ At(heap', w) = At(h, p) /\ At(heap', p) = Null
      /\ \A r \in Places(h) : r # w /\ r # p => At(heap', r) = At(h, r)
  BY <1>1, <1>2, <1>3, <1>4, <1>6, TwoWrites
<1>8. Owned(heap', Places(heap) \cup {w})
  BY <1>1, <1>2, <1>3, <1>7, MoveKeeps
<1>9. Places(heap) \cup {w} = Places(heap)
  BY <1>2
<1>10. SameShape(heap, heap')
  BY <1>2, <1>7, ShapesCompose
<1> QED BY <1>1, <1>8, <1>9, <1>10, IdleWrite

LEMMA TakeScalarKeeps ==
  ASSUME ValuesInv, Rules = AllRules, NEW w \in Strings, NEW v \in Variants,
         NEW type \in {"wrapper", "native"}, TakeScalar(w, v, type)
  PROVE  ValuesInv'
<1> DEFINE d == variant[v]
           p == IF Borrowed(d) THEN d.at ELSE <<d.at, 1>>
           x == At(heap, p)
           h == Cleared(heap, w)
<1>1. /\ NoCopy /\ UNCHANGED <<variant, copying>> /\ d.shape = "scalar" /\ type = "wrapper"
      /\ IF Borrowed(d) /\ x # Null
         THEN \E y \in Texts \ heap.texts : heap' = [Put(h, w, y) EXCEPT !.texts = @ \cup {y}]
         ELSE heap' = Put(Put(h, p, Null), w, x)
  BY DEF TakeScalar, AllRules
<1>2. /\ h \in Heaps /\ Owned(h, Places(heap)) /\ SameShape(heap, h) /\ Places(h) = Places(heap)
      /\ h.texts \subseteq heap.texts /\ w \in Places(h) /\ At(h, w) = Null
      /\ \A q \in Places(heap) : q # w => At(h, q) = At(heap, q)
  BY <1>1, ClearedString
<1>3. /\ Sound(heap, variant, Null) /\ heap \in Heaps /\ Owned(heap, Places(heap))
      /\ variant \in [Variants -> Data]
  BY <1>1, IdleState
<1>4. p \in Places(heap) /\ (~Borrowed(d) => p # w)
  <2>1. d.at \notin {Null, Sentinel} /\ d \in Data
    BY <1>1, <1>3 DEF Sound, BlocksOwned
  <2>2. CASE Borrowed(d)
    <3>1. p = d.at
      BY <2>2
    <3>2. d.at \in Strings \cup (Blocks \X Nat)
      BY <2>2 DEF Borrowed, Addresses
    <3>3. d.at \in Places(heap)
      BY <1>3, <3>2, StringPlace DEF Sound, BlocksOwned
    <3> QED BY <2>2, <3>1, <3>3
  <2>3. CASE ~Borrowed(d)
    <3>1. p = <<d.at, 1>>
      BY <2>3
    <3>2. d.at \in Blocks
      BY <2>1, <2>3 DEF Data, Borrowed
    <3>3. heap.blocks[d.at] # Freed
      BY <1>3, <3>2 DEF Sound, BlocksOwned
    <3>4. 1 \in 1 .. Len(heap.blocks[d.at])
      BY <1>3, <3>2, <3>3, FreedIsEmpty
    <3>5. <<d.at, 1>> \in Places(heap) /\ <<d.at, 1>> \notin Strings
      BY <1>3, <3>2, <3>4, ElementPlace
    <3> QED BY <3>1, <3>5
  <2> QED BY <2>2, <2>3
<1>5. Places(heap) \cup {w} = Places(heap) /\ Places(heap) \cup {p} = Places(heap)
  BY <1>2, <1>4
<1> HIDE DEF h, p, x, d
<1>6. SameShape(h, heap') /\ Owned(heap', Places(heap))
  <2>1. CASE Borrowed(d) /\ x # Null
    <3>1. PICK y \in Texts \ heap.texts : heap' = [Put(h, w, y) EXCEPT !.texts = @ \cup {y}]
      BY <1>1, <2>1
    <3>2. y \in Texts \ h.texts
      BY <1>2
    <3>3. heap' \in Copy(h, w, Junk)
      BY <3>1, <3>2, AddressAssumption DEF Copy
    <3>4. Owned(heap', Places(heap) \cup {w}) /\ SameShape(h, heap')
      BY <1>2, <3>3, CopyKeeps
    <3> QED BY <1>5, <3>4
  <2>2. CASE ~(Borrowed(d) /\ x # Null)
    <3> DEFINE k == Put(h, p, Null)
    <3>1. heap' = Put(k, w, x)
      BY <1>1, <2>2
    <3>2. x \in Contents
      BY <1>3, <1>4, TextAt DEF x
    <3>3. Wrote(h, k, p, Null, h.texts)
      BY <1>2, <1>4, PutWrites DEF Contents
    <3> HIDE DEF k
    <3>4. k \in Heaps /\ k.texts = h.texts /\ Places(k) = Places(h) /\ SameShape(h, k)
      BY <1>2, <3>3, SamePlaces DEF Wrote
    <3>5. Wrote(k, heap', w, x, h.texts)
      BY <1>2, <3>1, <3>2, <3>4, PutWrites
    <3>6. CASE x = Null
      <4>1. At(h, p) = Null
        BY <1>2, <1>4, <3>6 DEF x
      <4>2. Owned(k, Places(heap) \cup {p})
        BY <1>2, <1>4, <3>3, <4>1, BlankKeeps
      <4>3. At(k, w) = Null
        BY <1>2, <3>3 DEF Wrote
      <4>4. Wrote(k, heap', w, Null, k.texts) /\ w \in Places(k)
        BY <1>2, <3>4, <3>5, <3>6
      <4>5. Owned(heap', Places(heap) \cup {w})
        BY <1>5, <4>2, <4>3, <4>4, BlankKeeps
      <4>6. SameShape(h, heap')
        BY <3>4, <3>5, ShapesCompose DEF Wrote
      <4> QED BY <1>5, <4>5, <4>6
    <3>7. CASE x # Null
      <4>1. p # w
        BY <1>4, <2>2, <3>7
      <4>2. At(h, p) = x
        BY <1>2, <1>4, <4>1 DEF x
      <4>3. /\ heap' \in Heaps /\ SameShape(h, heap') /\ heap'.texts = h.texts
            /\ At(heap', p) = Null /\ At(heap', w) = At(h, p)
            /\ \A r \in Places(h) : r # p /\ r # w => At(heap', r) = At(h, r)
        BY <1>2, <1>4, <3>3, <3>5, <4>1, <4>2, TwoWrites
      <4>4. Owned(heap', Places(heap) \cup {w})
        BY <1>2, <1>4, <4>1, <4>3, MoveKeeps
      <4> QED BY <1>5, <4>3, <4>4
    <3> QED BY <3>6, <3>7
  <2> QED BY <2>1, <2>2
<1>7. SameShape(heap, heap')
  BY <1>2, <1>6, ShapesCompose
<1> QED BY <1>1, <1>6, <1>7, IdleWrite

\* What a Variant's clear leaves, when no copy is in progress.
LEMMA IdleClear ==
  ASSUME ValuesInv, Rules = AllRules, NoCopy, NEW v \in Variants, MayFree(variant[v]),
         NEW g, g = ClearVariant(heap, variant[v]), NEW e, e = [variant EXCEPT ![v] = Empty]
  PROVE  /\ Sound(g, e, Null) /\ g \in Heaps /\ e[v].at \notin Blocks /\ e \in [Variants -> Data]
         /\ \A u \in Variants : u # v => e[u] = variant[u]
         /\ \A x : [variant EXCEPT ![v] = x] = [e EXCEPT ![v] = x]
         /\ \A p \in Places(heap) :
                (variant[v].at \in Blocks => p \notin Elements(heap, variant[v].at)) => p \in Places(g)
<1>1. Sound(heap, variant, Null) /\ variant \in [Variants -> Data]
  BY IdleState
<1>2. ~LentOut(variant, variant[v].at)
  BY NotLent
<1>3. /\ Sound(g, e, Null) /\ g \in Heaps
      /\ \A p \in Places(heap) :
             (variant[v].at \in Blocks => p \notin Elements(heap, variant[v].at)) => p \in Places(g)
  BY <1>1, <1>2, ClearSound
<1>4. e[v].at \notin Blocks /\ \A u \in Variants : u # v => e[u] = variant[u]
  BY <1>1, Nowhere
<1>5. e \in [Variants -> Data]
  BY <1>3 DEF Sound, BlocksOwned
<1>6. \A x : [variant EXCEPT ![v] = x] = [e EXCEPT ![v] = x]
  BY <1>1
<1> QED BY <1>3, <1>4, <1>5, <1>6

LEMMA BorrowKeeps ==
  ASSUME ValuesInv, Rules = AllRules, NEW v \in Variants, NEW p \in Readable, Borrow(v, p)
  PROVE  ValuesInv'
<1> DEFINE g == ClearVariant(heap, variant[v])
           e == [variant EXCEPT ![v] = Empty]
           x == [at |-> p, shape |-> "scalar"]
<1>1. /\ NoCopy /\ MayFree(variant[v]) /\ heap' = g /\ copying' = Null
      /\ variant' = [variant EXCEPT ![v] = x]
      /\ variant[v].at \in Blocks => p \notin Named(v)
  BY DEF Borrow, AllRules, NoCopy
<1>2. p \in Places(heap)
  BY <1>1, ReadableExists
<1>3. /\ Sound(g, e, Null) /\ e[v].at \notin Blocks
      /\ [variant EXCEPT ![v] = x] = [e EXCEPT ![v] = x]
      /\ (variant[v].at \in Blocks => p \notin Elements(heap, variant[v].at)) => p \in Places(g)
  BY <1>1, <1>2, IdleClear
<1>4. p \in Places(g)
  BY <1>1, <1>3 DEF Named
<1>5. p \in Addresses /\ p \notin Blocks /\ heap \in Heaps
  BY <1>1, <1>2, PlaceAddress, IdleState
<1>6. x \in Data /\ x.at = p /\ p \notin {Null, Sentinel}
  BY <1>5, Nowhere, AddressAssumption DEF Data
<1>7. \A b : ~Building(Null, b)
  BY DEF Building
<1> HIDE DEF g, e, x
<1>8. Sound(g, [e EXCEPT ![v] = x], Null)
  BY <1>3, <1>4, <1>5, <1>6, <1>7, UseSound
<1>9. Sound(heap', variant', Null)
  BY <1>1, <1>3, <1>8
<1> QED BY <1>1, <1>9, IdleSound

LEMMA SentinelData ==
  LET x == [at |-> Sentinel, shape |-> "array"] IN
  /\ x \in Data /\ x.at \notin Blocks /\ x.at \notin Blocks \X Nat /\ x.shape # "scalar"
  BY Nowhere DEF Data

LEMMA AssignEmptyRangeKeeps ==
  ASSUME ValuesInv, Rules = AllRules, NEW v \in Variants, AssignEmptyRange(v)
  PROVE  ValuesInv'
<1> DEFINE g == ClearVariant(heap, variant[v])
           e == [variant EXCEPT ![v] = Empty]
           x == [at |-> Sentinel, shape |-> "array"]
<1>1. /\ NoCopy /\ MayFree(variant[v]) /\ heap' = g /\ copying' = Null
      /\ variant' = [variant EXCEPT ![v] = x]
  BY DEF AssignEmptyRange, Set, NoCopy
<1>2. Sound(g, e, Null) /\ e[v].at \notin Blocks /\ [variant EXCEPT ![v] = x] = [e EXCEPT ![v] = x]
  BY <1>1, IdleClear
<1>3. x \in Data /\ x.at \notin Blocks /\ x.at \notin Blocks \X Nat /\ x.shape # "scalar"
  BY SentinelData
<1> HIDE DEF g, e, x
<1>4. Sound(g, [e EXCEPT ![v] = x], Null)
  BY <1>2, <1>3, UseSound
<1>5. Sound(heap', variant', Null)
  BY <1>1, <1>2, <1>4
<1> QED BY <1>1, <1>5, IdleSound

LEMMA VariantClearKeeps ==
  ASSUME ValuesInv, Rules = AllRules, NEW v \in Variants, VariantClear(v)
  PROVE  ValuesInv'
<1>1. /\ NoCopy /\ MayFree(variant[v]) /\ heap' = ClearVariant(heap, variant[v]) /\ copying' = Null
      /\ variant' = [variant EXCEPT ![v] = Empty]
  BY DEF VariantClear, NoCopy
<1>2. Sound(heap', variant', Null)
  BY <1>1, IdleClear
<1> QED BY <1>1, <1>2, IdleSound

LEMMA VariantMoveKeeps ==
  ASSUME ValuesInv, Rules = AllRules, NEW v \in Variants, NEW u \in Variants, VariantMove(v, u)
  PROVE  ValuesInv'
<1> DEFINE g == ClearVariant(heap, variant[v])
           e == [variant EXCEPT ![v] = Empty]
<1>1. /\ NoCopy /\ v # u /\ MayFree(variant[v]) /\ heap' = g /\ copying' = Null
      /\ variant' = [variant EXCEPT ![v] = variant[u], ![u] = Empty]
  BY DEF VariantMove, NoCopy
<1>2. /\ Sound(g, e, Null) /\ e[v].at \notin Blocks /\ e \in [Variants -> Data]
      /\ e[u] = variant[u]
  BY <1>1, IdleClear
<1>3. variant \in [Variants -> Data]
  BY <1>1, IdleState
<1>4. variant' = [e EXCEPT ![v] = e[u], ![u] = Empty]
  BY <1>1, <1>2, <1>3
<1> HIDE DEF g, e
<1>5. Sound(g, [e EXCEPT ![v] = e[u], ![u] = Empty], Null)
  BY <1>1, <1>2, SwapSound
<1>6. Sound(heap', variant', Null)
  BY <1>1, <1>4, <1>5
<1> QED BY <1>1, <1>6, IdleSound

\* The elements that a copy of a Variant reads: none is empty space.
LEMMA ContainedElements ==
  ASSUME ValuesInv, NoCopy, NEW u \in Variants, variant[u].at \notin {Null, Sentinel}
  PROVE  \E n \in Nat \ {0} : DOMAIN Contained(variant[u]) = 1 .. n
<1> DEFINE a == variant[u].at
<1>1. /\ Sound(heap, variant, Null) /\ heap \in Heaps /\ Owned(heap, Places(heap))
      /\ variant[u] \in Data
  BY IdleState
<1>2. CASE Borrowed(variant[u])
  <2>1. Contained(variant[u]) = <<At(heap, a)>>
    BY <1>2 DEF Contained
  <2>2. DOMAIN <<At(heap, a)>> = 1 .. 1
    OBVIOUS
  <2> QED BY <2>1, <2>2
<1>3. CASE ~Borrowed(variant[u])
  <2>1. a \in Blocks
    BY <1>1, <1>3 DEF Data, Borrowed
  <2>2. heap.blocks[a] # Freed
    BY <1>1, <2>1 DEF Sound, BlocksOwned
  <2>3. Contained(variant[u]) = heap.blocks[a]
    BY <1>3 DEF Contained
  <2>4. heap.blocks[a] \in Seq(Contents) /\ Len(heap.blocks[a]) \in Nat \ {0}
    BY <1>1, <2>1, <2>2, FreedIsEmpty
  <2>5. DOMAIN heap.blocks[a] = 1 .. Len(heap.blocks[a])
    BY <2>4
  <2> QED BY <2>3, <2>4, <2>5
<1> QED BY <1>2, <1>3

\* A block filled with copies of its own.
LEMMA FillKeepsSound ==
  ASSUME NEW h, NEW d, Sound(h, d, Null), NEW v \in Variants, d[v].at \notin Blocks,
         NEW b \in Blocks, h.blocks[b] = Freed,
         NEW xs, NEW n \in Nat \ {0}, DOMAIN xs = 1 .. n, NEW ys \in Duplicates(h, xs),
         NEW x \in Data, x.at = b, NEW g, g = Fill(h, b, ys)
  PROVE  Sound(g, [d EXCEPT ![v] = x], Null)
<1> DEFINE T == h.texts \cup ({ys[i] : i \in DOMAIN ys} \ {Null})
<1>1. h \in Heaps
  BY DEF Sound, Owned
<1>2. /\ ys \in [1 .. n -> (Texts \ h.texts) \cup {Null}]
      /\ \A i, j \in 1 .. n : i # j /\ ys[i] # Null => ys[i] # ys[j]
  BY DEF Duplicates
<1>3. ys \in [1 .. n -> Contents]
  BY <1>2 DEF Contents
<1>4. ys \in Seq(Contents) /\ Len(ys) = n /\ DOMAIN ys = 1 .. n
  BY <1>3
<1>5. ys # <<>>
  BY <1>4
<1>6. \A i \in 1 .. Len(ys) : ys[i] \in (Texts \ h.texts) \cup {Null}
  BY <1>2, <1>4
<1>7. \A i, j \in 1 .. Len(ys) : ys[i] = ys[j] /\ ys[i] # Null => i = j
  BY <1>2, <1>4
<1>8. \A y : y \in T <=> y \in h.texts \/ (y # Null /\ \E i \in 1 .. Len(ys) : ys[i] = y)
  BY <1>4
<1>9. T \in SUBSET Texts
  <2>1. h.texts \in SUBSET Texts
    BY <1>1 DEF Heaps
  <2> QED BY <1>2, <1>4, <2>1
<1>10. g = [texts |-> T, blocks |-> [h.blocks EXCEPT ![b] = ys], slot |-> h.slot]
  <2>1. g = [h EXCEPT !.texts = T, !.blocks[b] = ys]
    BY DEF Fill
  <2> HIDE DEF T
  <2> QED BY <1>1, <2>1 DEF Heaps
<1> HIDE DEF T
<1>11. Replaced(h, g, b, ys, T)
  BY <1>1, <1>4, <1>9, <1>10, Replace
<1> QED BY <1>4, <1>5, <1>6, <1>7, <1>8, <1>11, FillSound

LEMMA VariantCopyKeeps ==
  ASSUME ValuesInv, Rules = AllRules, NEW v \in Variants, NEW u \in Variants, VariantCopy(v, u)
  PROVE  ValuesInv'
<1> DEFINE h == ClearVariant(heap, variant[v])
           e == [variant EXCEPT ![v] = Empty]
           d == variant[u]
<1>1. /\ NoCopy /\ v # u /\ MayFree(variant[v]) /\ copying' = Null
      /\ \/ /\ d.at \in {Null, Sentinel}
            /\ heap' = h
            /\ variant' = [variant EXCEPT ![v] = d]
         \/ /\ d.at \notin {Null, Sentinel}
            /\ \E b \in {c \in Blocks : h.blocks[c] = Freed}, ys \in Duplicates(h, Contained(d)) :
                 /\ heap' = Fill(h, b, ys)
                 /\ variant' = [variant EXCEPT ![v] = [at |-> b, shape |-> d.shape]]
         \/ /\ d.at \notin {Null, Sentinel}
            /\ heap' = h
            /\ variant' = [variant EXCEPT ![v] = Empty]
  BY DEF VariantCopy, NoCopy
<1>2. /\ Sound(h, e, Null) /\ e[v].at \notin Blocks
      /\ \A x : [variant EXCEPT ![v] = x] = [e EXCEPT ![v] = x]
  BY <1>1, IdleClear
<1>3. d \in Data /\ Sound(heap, variant, Null)
  BY <1>1, IdleState
<1>4. e = [variant EXCEPT ![v] = Empty]
  OBVIOUS
<1>5. d.at \notin {Null, Sentinel} => \E n \in Nat \ {0} : DOMAIN Contained(d) = 1 .. n
  BY <1>1, ContainedElements
<1>6. d.shape = "scalar" => d.at \notin {Null, Sentinel}
  BY <1>3 DEF Sound, BlocksOwned
<1> HIDE DEF h, e, d
<1>7. CASE d.at \in {Null, Sentinel} /\ heap' = h /\ variant' = [variant EXCEPT ![v] = d]
  <2>1. d.at \notin Blocks /\ d.at \notin Blocks \X Nat
    BY <1>7, Nowhere
  <2>2. Sound(h, [e EXCEPT ![v] = d], Null)
    BY <1>2, <1>3, <1>6, <2>1, UseSound
  <2>3. Sound(heap', variant', Null)
    BY <1>2, <1>7, <2>2
  <2> QED BY <1>1, <2>3, IdleSound
<1>8. CASE heap' = h /\ variant' = [variant EXCEPT ![v] = Empty]
  <2>1. Sound(heap', variant', Null)
    BY <1>2, <1>4, <1>8
  <2> QED BY <1>1, <2>1, IdleSound
<1>9. ASSUME d.at \notin {Null, Sentinel}, NEW b \in Blocks, h.blocks[b] = Freed,
             NEW ys \in Duplicates(h, Contained(d)), heap' = Fill(h, b, ys),
             variant' = [variant EXCEPT ![v] = [at |-> b, shape |-> d.shape]]
      PROVE  ValuesInv'
  <2> DEFINE x == [at |-> b, shape |-> d.shape]
  <2>1. PICK n \in Nat \ {0} : DOMAIN Contained(d) = 1 .. n
    BY <1>5, <1>9
  <2>2. x \in Data /\ x.at = b
    BY <1>3 DEF Data
  <2>3. variant' = [e EXCEPT ![v] = x]
    BY <1>2, <1>9
  <2> HIDE DEF x
  <2>4. Sound(Fill(h, b, ys), [e EXCEPT ![v] = x], Null)
    BY <1>2, <1>9, <2>1, <2>2, FillKeepsSound
  <2>5. Sound(heap', variant', Null)
    BY <1>9, <2>3, <2>4
  <2> QED BY <1>1, <2>5, IdleSound
<1> QED BY <1>1, <1>7, <1>8, <1>9
-----------------------------------------------------------------------------
(***************************************************************************)
(* The copy into a Variant.                                                *)
(***************************************************************************)
LEMMA RangePlaces ==
  ASSUME ValuesInv, NoCopy, NEW range \in Ranges
  PROVE  /\ range \in Seq(Addresses) /\ Len(range) \in Nat \ {0}
         /\ \A i \in 1 .. Len(range) : range[i] \in Places(heap)
<1>1. heap \in Heaps /\ variant \in [Variants -> Data] /\ Sound(heap, variant, Null)
  BY IdleState
<1>2. CASE \E p \in Readable : range = <<p>>
  <2>1. PICK p \in Readable : range = <<p>>
    BY <1>2
  <2>2. p \in Places(heap) /\ p \in Addresses
    BY <1>1, ReadableExists, PlaceAddress
  <2>3. <<p>> \in Seq(Addresses) /\ Len(<<p>>) = 1 /\ \A i \in 1 .. 1 : <<p>>[i] = p
    BY <2>2
  <2> QED BY <2>1, <2>2, <2>3
<1>3. CASE \E n \in 2 .. MaxLength : range \in [1 .. n -> Strings]
  <2>1. PICK n \in 2 .. MaxLength : range \in [1 .. n -> Strings]
    BY <1>3
  <2>2. n \in Nat \ {0}
    BY CapacityAssumption
  <2>3. range \in Seq(Strings) /\ Len(range) = n
    BY <2>1, <2>2
  <2>4. range \in [1 .. n -> Addresses]
    BY <2>1 DEF Addresses
  <2>5. range \in Seq(Addresses)
    BY <2>2, <2>4
  <2>6. \A i \in 1 .. n : range[i] \in Strings
    BY <2>1
  <2> QED BY <2>2, <2>3, <2>5, <2>6, StringPlace
<1>4. CASE \E u \in Variants : /\ variant[u].at \in Blocks
                               /\ range = [i \in DOMAIN heap.blocks[variant[u].at] |-> <<variant[u].at, i>>]
  <2>1. PICK b \in Blocks : /\ \E u \in Variants : variant[u].at = b
                            /\ range = [i \in DOMAIN heap.blocks[b] |-> <<b, i>>]
    BY <1>4
  <2> DEFINE n == Len(heap.blocks[b])
  <2>2. heap.blocks[b] # Freed
    BY <1>1, <2>1 DEF Sound, BlocksOwned
  <2>3. n \in Nat \ {0} /\ heap.blocks[b] \in Seq(Contents)
    BY <1>1, <2>2, FreedIsEmpty
  <2>4. DOMAIN heap.blocks[b] = 1 .. n
    BY <2>3
  <2>5. \A i \in 1 .. n : <<b, i>> \in Places(heap) /\ <<b, i>> \in Addresses
    BY <1>1, ElementPlace, PlaceAddress
  <2> HIDE DEF n
  <2>6. range = [i \in 1 .. n |-> <<b, i>>]
    BY <2>1, <2>4
  <2>7. range \in [1 .. n -> Addresses]
    BY <2>5, <2>6
  <2>8. range \in Seq(Addresses) /\ Len(range) = n
    BY <2>3, <2>7
  <2>9. \A i \in 1 .. n : range[i] = <<b, i>>
    BY <2>6
  <2> QED BY <2>3, <2>5, <2>8, <2>9
<1>5. \/ \E p \in Readable : range = <<p>>
      \/ \E n \in 2 .. MaxLength : range \in [1 .. n -> Strings]
      \/ \E b \in {variant[u].at : u \in {w \in Variants : variant[w].at \in Blocks}} :
             range = [i \in DOMAIN heap.blocks[b] |-> <<b, i>>]
  <2> DEFINE A == {<<p>> : p \in Readable}
             B == UNION {[1 .. n -> Strings] : n \in 2 .. MaxLength}
             D == {[i \in DOMAIN heap.blocks[b] |-> <<b, i>>] :
                      b \in {variant[u].at : u \in {w \in Variants : variant[w].at \in Blocks}}}
  <2>1. Ranges = A \cup B \cup D
    BY DEF Ranges
  <2>2. range \in A => \E p \in Readable : range = <<p>>
    OBVIOUS
  <2>3. range \in B => \E n \in 2 .. MaxLength : range \in [1 .. n -> Strings]
    OBVIOUS
  <2>4. range \in D => \E b \in {variant[u].at : u \in {w \in Variants : variant[w].at \in Blocks}} :
                           range = [i \in DOMAIN heap.blocks[b] |-> <<b, i>>]
    BY Zenon
  <2> HIDE DEF A, B, D
  <2> QED BY <2>1, <2>2, <2>3, <2>4
<1> QED BY <1>2, <1>3, <1>4, <1>5

\* The first allocation is of another block, which nothing refers to.
LEMMA AllocatedBlock ==
  ASSUME NEW h \in Heaps, NEW n \in Nat \ {0}, NEW s, s = [i \in 1 .. n |-> Null], NEW g \in Allocate(h, s),
         NEW b, b = CHOOSE a \in Blocks : g.blocks[a] # h.blocks[a]
  PROVE  /\ b \in Blocks /\ h.blocks[b] = Freed /\ Replaced(h, g, b, s, h.texts)
         /\ s \in Seq(Contents) /\ s # <<>> /\ Len(s) = n /\ \A i \in 1 .. n : s[i] = Null
<1>1. s \in Seq(Contents) /\ Len(s) = n /\ \A i \in 1 .. n : s[i] = Null
  <2>1. s \in [1 .. n -> Contents]
    BY DEF Contents
  <2> QED BY <2>1
<1>2. s # <<>>
  BY <1>1
<1>3. PICK a \in Blocks : h.blocks[a] = Freed /\ g = [h EXCEPT !.blocks[a] = s]
  BY DEF Allocate
<1>4. g = [texts |-> h.texts, blocks |-> [h.blocks EXCEPT ![a] = s], slot |-> h.slot]
  BY <1>3 DEF Heaps
<1>5. h.texts \in SUBSET Texts
  BY DEF Heaps
<1>6. Replaced(h, g, a, s, h.texts)
  BY <1>1, <1>4, <1>5, Replace
<1>7. g.blocks[a] # h.blocks[a] /\ \A e \in Blocks : g.blocks[e] # h.blocks[e] => e = a
  <2>1. g.blocks[a] = s /\ \A e \in Blocks : e # a => g.blocks[e] = h.blocks[e]
    BY <1>1, <1>6, ReplacedPlaces
  <2> QED BY <1>2, <1>3, <2>1 DEF Freed
<1>8. b = a
  BY <1>7
<1> QED BY <1>1, <1>2, <1>3, <1>6, <1>8

LEMMA AssignBeginKeeps ==
  ASSUME ValuesInv, Rules = AllRules, NEW v \in Variants, NEW range \in Ranges, NEW how \in Kinds,
         NEW element \in {"wrapper", "native"}, AssignBegin(v, range, how, element)
  PROVE  ValuesInv'
<1> DEFINE size == IF how = "singlePass" THEN InitialCapacity ELSE Len(range)
           s == [i \in 1 .. size |-> Null]
           b == CHOOSE a \in Blocks : heap'.blocks[a] # heap.blocks[a]
           c == [to |-> v, range |-> range, kind |-> how, element |-> element, block |-> b, index |-> 0]
<1>1. /\ NoCopy /\ MayFree(variant[v]) /\ variant' = variant
      /\ how \in {"scalar", "move"} => Len(range) = 1
      /\ how = "move" => element = "wrapper"
      /\ how = "singlePass" /\ element = "wrapper" => Len(range) <= InitialCapacity
  BY DEF AssignBegin, AllRules
<1>2. heap' \in Allocate(heap, s)
  BY DEF AssignBegin
<1>3. copying' = c
  BY DEF AssignBegin
<1>4. Sound(heap, variant, Null) /\ heap \in Heaps
  BY <1>1, IdleState
<1>5. /\ range \in Seq(Addresses) /\ Len(range) \in Nat \ {0}
      /\ \A i \in 1 .. Len(range) : range[i] \in Places(heap)
  BY <1>1, RangePlaces
<1>6. size \in Nat \ {0}
  BY <1>5, CapacityAssumption
<1>7. /\ b \in Blocks /\ heap.blocks[b] = Freed /\ Replaced(heap, heap', b, s, heap.texts)
      /\ s \in Seq(Contents) /\ s # <<>> /\ Len(s) = size /\ \A i \in 1 .. size : s[i] = Null
  <2> HIDE DEF size
  <2> QED BY <1>2, <1>4, <1>6, AllocatedBlock
<1>8. ~LentOut(variant, variant[v].at)
  BY <1>1, NotLent
<1>9. /\ how # "singlePass" => size = Len(range)
      /\ how = "singlePass" /\ element = "wrapper" => size >= Len(range)
  BY <1>1, <1>5, CapacityAssumption
<1> HIDE DEF s, b, size
<1>10. /\ c \in Copies /\ c.to = v /\ c.range = range /\ c.kind = how /\ c.element = element
       /\ c.block = b /\ c.index = 0
  BY <1>5, <1>7 DEF Copies
<1> HIDE DEF c
<1>11. /\ Sound(heap', variant, c)
       /\ \A p \in Places(heap) : p \in Places(heap') /\ (p \notin Strings => p[1] # b)
  BY <1>4, <1>7, <1>10, BeginSound
<1>12. heap'.blocks[b] = s
  BY <1>4, <1>7, ReplacedPlaces
<1>13. CopyOK(heap', variant, c)
  <2>1. c.index <= Len(c.range) /\ Len(c.range) >= 1 /\ c.index <= Len(heap'.blocks[c.block])
    BY <1>5, <1>6, <1>7, <1>10, <1>12
  <2>2. \A i \in 1 .. Len(c.range) : /\ c.range[i] \in Places(heap')
                                     /\ c.range[i] \notin Strings => c.range[i][1] # c.block
    BY <1>5, <1>10, <1>11
  <2>3. /\ c.kind \in {"scalar", "move"} => Len(c.range) = 1
        /\ c.kind = "move" => c.element = "wrapper"
        /\ ~LentOut(variant, variant[c.to].at)
    BY <1>1, <1>8, <1>10
  <2>4. /\ c.kind # "singlePass" => Len(heap'.blocks[c.block]) = Len(c.range)
        /\ c.kind = "singlePass" /\ c.element = "wrapper" => Len(heap'.blocks[c.block]) >= Len(c.range)
    BY <1>7, <1>9, <1>10, <1>12
  <2>5. \A i \in c.index + 1 .. Len(heap'.blocks[c.block]) : heap'.blocks[c.block][i] = Null
    BY <1>6, <1>7, <1>10, <1>12
  <2> QED BY <2>1, <2>2, <2>3, <2>4, <2>5 DEF CopyOK
<1> QED BY <1>1, <1>3, <1>11, <1>13 DEF ValuesInv

LEMMA CopyState ==
  ASSUME ValuesInv, ~NoCopy
  PROVE  /\ copying \in Copies /\ Sound(heap, variant, copying) /\ CopyOK(heap, variant, copying)
         /\ heap \in Heaps /\ Owned(heap, HoldersOf(heap, copying))
         /\ copying.block \in Blocks /\ copying.index \in Nat /\ copying.to \in Variants
         /\ copying.range \in Seq(Addresses) /\ Len(copying.range) \in Nat
         /\ heap.blocks[copying.block] \in Seq(Contents) /\ Len(heap.blocks[copying.block]) \in Nat
<1>1. /\ copying \in Copies /\ Sound(heap, variant, copying) /\ CopyOK(heap, variant, copying)
      /\ heap \in Heaps /\ Owned(heap, HoldersOf(heap, copying))
  BY DEF ValuesInv, NoCopy, Sound, BlocksOwned, Owned
<1>2. /\ copying.block \in Blocks /\ copying.index \in Nat /\ copying.to \in Variants
      /\ copying.range \in Seq(Addresses)
  BY <1>1 DEF Copies
<1>3. Len(copying.range) \in Nat
  BY <1>2
<1> QED BY <1>1, <1>2, <1>3, FreedIsEmpty

\* The next element is a place that is not yet held, its source one that is.
LEMMA NextElement ==
  ASSUME ValuesInv, ~NoCopy, copying.index < Len(copying.range),
         copying.index < Len(heap.blocks[copying.block]),
         NEW p, p = <<copying.block, copying.index + 1>>, NEW q, q = copying.range[copying.index + 1]
  PROVE  /\ p \in Places(heap) /\ p \notin HoldersOf(heap, copying)
         /\ q \in HoldersOf(heap, copying) /\ q \in Places(heap) /\ p # q
         /\ copying.element = "wrapper" => At(heap, p) = Null
<1> DEFINE b == copying.block
           j == copying.index + 1
<1>1. /\ copying \in Copies /\ heap \in Heaps /\ CopyOK(heap, variant, copying)
      /\ b \in Blocks /\ copying.index \in Nat /\ Len(copying.range) \in Nat
      /\ Len(heap.blocks[b]) \in Nat
  BY CopyState
<1>2. j \in 1 .. Len(copying.range) /\ j \in 1 .. Len(heap.blocks[b]) /\ ~(j <= copying.index)
      /\ j \in copying.index + 1 .. Len(heap.blocks[b])
  BY <1>1
<1>3. p = <<b, j>> /\ q = copying.range[j]
  OBVIOUS
<1>4. q \in Places(heap) /\ (q \notin Strings => q[1] # b)
  BY <1>1, <1>2, <1>3 DEF CopyOK
<1>5. copying.element = "wrapper" => heap.blocks[b][j] = Null
  BY <1>1, <1>2 DEF CopyOK
<1> HIDE DEF j
<1>6. /\ p \in Places(heap) /\ p \in Elements(heap, b) /\ At(heap, p) = heap.blocks[b][j]
      /\ p \notin HoldersOf(heap, copying)
  BY <1>1, <1>2, <1>3, ElementPlace, CopyHolders
<1>7. q \notin Elements(heap, b)
  BY <1>1, <1>4, ElementOf
<1>8. q \in HoldersOf(heap, copying)
  BY <1>1, <1>4, <1>7, CopyHolders
<1> QED BY <1>4, <1>5, <1>6, <1>7, <1>8

\* What a wrapper does first: it clears the element, which is empty.
LEMMA ElementCleared ==
  ASSUME NEW h, NEW H, Owned(h, H), NEW p \in Places(h), p \notin H, At(h, p) = Null, NEW g \in Clear(h, p)
  PROVE  /\ g \in Heaps /\ Owned(g, H) /\ SameShape(h, g) /\ Places(g) = Places(h) /\ g.texts = h.texts
         /\ \A q \in Places(h) : q # p => At(g, q) = At(h, q)
<1>1. h \in Heaps /\ h.texts \in SUBSET Texts
  BY DEF Owned, Heaps
<1>2. h.texts \ {At(h, p)} = h.texts
  BY <1>1, AddressAssumption
<1>3. Wrote(h, g, p, Null, h.texts)
  BY <1>1, <1>2, ClearWrites, AddressAssumption
<1>4. /\ g \in Heaps /\ SameShape(h, g) /\ g.texts = h.texts
      /\ \A q \in Places(h) : q # p => At(g, q) = At(h, q)
  BY <1>3 DEF Wrote
<1>5. Places(g) = Places(h)
  BY <1>1, <1>4, SamePlaces
<1>6. Owned(g, H)
  BY <1>4, <1>5 DEF Owned
<1> QED BY <1>4, <1>5, <1>6

\* What the copy of an element does to the heap.
LEMMA ElementWritten ==
  ASSUME ValuesInv, CopyElement,
         NEW p, p = <<copying.block, copying.index + 1>>, NEW q, q = copying.range[copying.index + 1]
  PROVE  /\ Owned(heap', HoldersOf(heap, copying) \cup {p}) /\ SameShape(heap, heap')
         /\ \A r \in Places(heap) : r # p /\ r # q => At(heap', r) = At(heap, r)
<1> DEFINE H == HoldersOf(heap, copying)
           x == At(heap, q)
<1>1. /\ ~NoCopy /\ copying.index < Len(copying.range) /\ copying.index < Len(heap.blocks[copying.block])
      /\ \E h \in IF copying.element = "wrapper" THEN Clear(heap, p) ELSE {heap} :
            IF copying.kind = "move"
            THEN heap' = Put(Put(h, p, x), q, IF copying.element = "wrapper" THEN Null ELSE x)
            ELSE heap' \in Copy(h, p, x)
  BY DEF CopyElement, More, Capacity
<1>2. /\ copying.kind = "move" => copying.element = "wrapper"
      /\ heap \in Heaps /\ Owned(heap, H)
  BY <1>1, CopyState DEF CopyOK
<1>3. /\ p \in Places(heap) /\ p \notin H /\ q \in H /\ q \in Places(heap) /\ p # q
      /\ copying.element = "wrapper" => At(heap, p) = Null
  BY <1>1, NextElement
<1>4. x \in Contents
  BY <1>2, <1>3, TextAt
<1> HIDE DEF H, x
<1>5. PICK h : /\ h \in IF copying.element = "wrapper" THEN Clear(heap, p) ELSE {heap}
               /\ IF copying.kind = "move" THEN heap' = Put(Put(h, p, x), q, Null) ELSE heap' \in Copy(h, p, x)
  BY <1>1, <1>2
<1>6. /\ h \in Heaps /\ Owned(h, H) /\ SameShape(heap, h) /\ Places(h) = Places(heap) /\ h.texts = heap.texts
      /\ \A r \in Places(heap) : r # p => At(h, r) = At(heap, r)
  <2>1. CASE copying.element = "wrapper"
    BY <1>2, <1>3, <1>5, <2>1, ElementCleared
  <2>2. CASE copying.element # "wrapper"
    BY <1>2, <1>5, <2>2 DEF SameShape
  <2> QED BY <2>1, <2>2
<1>7. CASE copying.kind = "move"
  <2> DEFINE k == Put(h, p, x)
  <2>1. heap' = Put(k, q, Null)
    BY <1>5, <1>7
  <2>2. Wrote(h, k, p, x, h.texts)
    BY <1>3, <1>4, <1>6, PutWrites
  <2> HIDE DEF k
  <2>3. k \in Heaps /\ Places(k) = Places(h) /\ k.texts = h.texts
    BY <1>6, <2>2, SamePlaces DEF Wrote
  <2>4. Wrote(k, heap', q, Null, h.texts)
    BY <1>3, <1>6, <2>1, <2>3, PutWrites DEF Contents
  <2>5. /\ heap' \in Heaps /\ SameShape(h, heap') /\ heap'.texts = h.texts
        /\ At(heap', p) = x /\ At(heap', q) = Null
        /\ \A r \in Places(h) : r # p /\ r # q => At(heap', r) = At(h, r)
    BY <1>3, <1>6, <2>2, <2>4, TwoWrites
  <2>6. x = At(h, q)
    BY <1>3, <1>6 DEF x
  <2>7. Owned(heap', H \cup {p})
    BY <1>3, <1>6, <2>5, <2>6, MoveKeeps
  <2>8. SameShape(heap, heap')
    BY <1>6, <2>5, ShapesCompose
  <2> QED BY <1>6, <2>5, <2>7, <2>8 DEF H
<1>8. CASE copying.kind # "move"
  <2>1. Owned(heap', H \cup {p}) /\ SameShape(h, heap') /\ \E y : Wrote(h, heap', p, y, heap'.texts)
    BY <1>3, <1>5, <1>6, <1>8, CopyKeeps
  <2>2. \A r \in Places(h) : r # p => At(heap', r) = At(h, r)
    BY <2>1 DEF Wrote
  <2>3. SameShape(heap, heap')
    BY <1>6, <2>1, ShapesCompose
  <2> QED BY <1>6, <2>1, <2>2, <2>3 DEF H
<1> QED BY <1>7, <1>8

LEMMA CopyElementKeeps ==
  ASSUME ValuesInv, CopyElement
  PROVE  ValuesInv'
<1> DEFINE c == copying
           k == copying'
           b == c.block
           p == <<c.block, c.index + 1>>
           q == c.range[c.index + 1]
<1>1. ~NoCopy /\ c.index < Len(c.range) /\ c.index < Len(heap.blocks[b]) /\ variant' = variant
  BY DEF CopyElement, More, Capacity
<1>2. k = [c EXCEPT !.index = @ + 1]
  BY DEF CopyElement
<1>3. /\ c \in Copies /\ Sound(heap, variant, c) /\ CopyOK(heap, variant, c) /\ heap \in Heaps
      /\ b \in Blocks /\ c.index \in Nat /\ Len(c.range) \in Nat /\ Len(heap.blocks[b]) \in Nat
  BY <1>1, CopyState
<1>4. /\ Owned(heap', HoldersOf(heap, c) \cup {p}) /\ SameShape(heap, heap')
      /\ \A r \in Places(heap) : r # p /\ r # q => At(heap', r) = At(heap, r)
  BY ElementWritten
<1>5. p # q /\ (q \notin Strings => q[1] # b)
  <2>1. c.index + 1 \in 1 .. Len(c.range)
    BY <1>1, <1>3
  <2>2. p # q
    BY <1>1, NextElement
  <2> QED BY <1>3, <2>1, <2>2 DEF CopyOK
<1>6. /\ k \in Copies /\ k.index = c.index + 1 /\ k.block = b /\ k.range = c.range /\ k.to = c.to
      /\ k.kind = c.kind /\ k.element = c.element
  BY <1>2, <1>3 DEF Copies
<1> HIDE DEF c, k
<1>7. Sound(heap', variant, k)
  <2> HIDE DEF q
  <2> QED BY <1>1, <1>3, <1>4, <1>6, ElementSound
<1>8. heap' \in Heaps /\ Places(heap') = Places(heap) /\ Len(heap'.blocks[b]) = Len(heap.blocks[b])
  <2>1. heap' \in Heaps
    BY <1>4 DEF Owned
  <2> QED BY <1>3, <1>4, <2>1, SamePlaces DEF SameShape
<1>9. ASSUME NEW i \in k.index + 1 .. Len(heap'.blocks[b]), heap.blocks[b][i] = Null
      PROVE  heap'.blocks[b][i] = Null
  <2>1. i \in 1 .. Len(heap.blocks[b]) /\ i \in 1 .. Len(heap'.blocks[b]) /\ i # c.index + 1
    BY <1>3, <1>6, <1>8
  <2>2. /\ <<b, i>> \in Places(heap) /\ At(heap, <<b, i>>) = heap.blocks[b][i] /\ <<b, i>> \notin Strings
        /\ At(heap', <<b, i>>) = heap'.blocks[b][i]
    BY <1>3, <1>8, <2>1, ElementPlace
  <2>3. <<b, i>> # p /\ <<b, i>> # q
    BY <1>5, <2>1, <2>2
  <2> QED BY <1>4, <1>9, <2>2, <2>3
<1> HIDE DEF b, p, q
<1>10. CopyOK(heap', variant, k)
  <2>1. /\ k.index <= Len(k.range) /\ Len(k.range) >= 1 /\ k.index <= Len(heap'.blocks[k.block])
    BY <1>1, <1>3, <1>6, <1>8 DEF CopyOK, b
  <2>2. k.element = "wrapper" \/ k.kind # "singlePass" =>
            \A i \in k.index + 1 .. Len(heap'.blocks[k.block]) : heap'.blocks[k.block][i] = Null
    <3> SUFFICES ASSUME k.element = "wrapper" \/ k.kind # "singlePass",
                        NEW i \in k.index + 1 .. Len(heap'.blocks[k.block])
                 PROVE  heap'.blocks[k.block][i] = Null
      OBVIOUS
    <3>1. i \in c.index + 1 .. Len(heap.blocks[b])
      BY <1>3, <1>6, <1>8
    <3>2. heap.blocks[b][i] = Null
      BY <1>3, <1>6, <3>1 DEF CopyOK, b
    <3> QED BY <1>6, <1>9, <3>2
  <2>3. k.block = c.block
    BY <1>6 DEF b
  <2> QED BY <1>3, <1>6, <1>8, <2>1, <2>2, <2>3 DEF CopyOK, b
<1> QED BY <1>1, <1>7, <1>10 DEF ValuesInv, k

LEMMA BlockUpdate ==
  ASSUME NEW h \in Heaps, NEW b \in Blocks, NEW s, NEW g, g = [h EXCEPT !.blocks[b] = s]
  PROVE  g = [texts |-> h.texts, blocks |-> [h.blocks EXCEPT ![b] = s], slot |-> h.slot]
  BY DEF Heaps

LEMMA Reallocated ==
  ASSUME NEW h \in Heaps, NEW a \in Blocks, h.blocks[a] # Freed, NEW b \in Blocks,
         NEW g, g = Reallocate(h, a, b)
  PROVE  \E s : Moved(h, g, a, b, s)
<1> DEFINE old == h.blocks[a]
           n == Len(old)
           junk == [i \in DOMAIN old |-> Junk]
           s == old \o junk
           m == [texts |-> h.texts, blocks |-> [h.blocks EXCEPT ![b] = s], slot |-> h.slot]
<1>1. old \in Seq(Contents) /\ n \in Nat \ {0}
  BY FreedIsEmpty
<1>2. g = [h EXCEPT !.blocks[b] = s, !.blocks[a] = Freed]
  BY DEF Reallocate
<1>3. h.texts \in SUBSET Texts
  BY DEF Heaps
<1> HIDE DEF old
<1>4. DOMAIN old = 1 .. n
  BY <1>1
<1>5. junk \in Seq(Contents)
  <2>1. junk \in [1 .. n -> Contents]
    BY <1>4 DEF Contents
  <2> HIDE DEF junk, n
  <2> QED BY <1>1, <2>1
<1> HIDE DEF junk
<1>6. s \in Seq(Contents) /\ Len(s) = n + Len(junk) /\ \A i \in 1 .. n : s[i] = old[i]
  BY <1>1, <1>5, ConcatProperties
<1>7. Len(junk) \in Nat
  BY <1>5
<1> HIDE DEF n, s
<1>8. s # <<>> /\ n <= Len(s)
  BY <1>1, <1>6, <1>7
<1>9. Replaced(h, m, b, s, h.texts)
  BY <1>3, <1>6, Replace
<1>10. g = [texts |-> m.texts, blocks |-> [m.blocks EXCEPT ![a] = Freed], slot |-> m.slot]
  BY <1>2 DEF Heaps
<1>11. m.texts = h.texts
  OBVIOUS
<1> HIDE DEF m
<1>12. Replaced(m, g, a, Freed, h.texts)
  <2>1. m \in Heaps /\ Freed \in Seq(Contents)
    BY <1>9 DEF Replaced, Freed
  <2> QED BY <1>3, <1>10, <1>11, <2>1, Replace
<1> QED BY <1>6, <1>8, <1>9, <1>12 DEF Moved, n, old

\* Only a single-pass copy of natives grows: the elements that realloc adds hold no text.
LEMMA GrowKeeps ==
  ASSUME ValuesInv, Grow
  PROVE  ValuesInv'
<1> DEFINE c == copying
           a == c.block
           k == copying'
<1>1. ~NoCopy /\ c.index < Len(c.range) /\ c.index = Len(heap.blocks[a]) /\ variant' = variant
  BY DEF Grow, More, Capacity
<1>2. PICK b \in Blocks : /\ heap.blocks[b] = Freed
                          /\ heap' = Reallocate(heap, a, b)
                          /\ copying' = [c EXCEPT !.block = b]
  BY DEF Grow
<1>3. /\ c \in Copies /\ Sound(heap, variant, c) /\ CopyOK(heap, variant, c) /\ heap \in Heaps
      /\ a \in Blocks /\ c.index \in Nat /\ Len(c.range) \in Nat
  BY <1>1, CopyState
<1>4. heap.blocks[a] # Freed
  <2>1. Building(c, a)
    BY <1>1 DEF Building, NoCopy
  <2> QED BY <1>3, <2>1 DEF Sound, BlocksOwned
<1>5. /\ k \in Copies /\ k.index = c.index /\ k.block = b /\ k.range = c.range /\ k.to = c.to
      /\ k.kind = c.kind /\ k.element = c.element
  BY <1>2, <1>3 DEF Copies
<1>6. heap.blocks[b] = Freed /\ c.block = a
  BY <1>2
<1>7. PICK s : Moved(heap, heap', a, b, s)
  <2> HIDE DEF a, c
  <2> QED BY <1>2, <1>3, <1>4, Reallocated
<1> HIDE DEF a, c, k
<1>8. /\ Sound(heap', variant, k) /\ heap'.blocks[b] = s
      /\ \A p \in Places(heap) : p \notin Elements(heap, a) =>
             p \in Places(heap') /\ (p \notin Strings => p[1] # b)
  <2>1. c.index = Len(heap.blocks[c.block]) /\ Moved(heap, heap', c.block, b, s)
    BY <1>1, <1>6, <1>7
  <2>2. GoesOn(heap, c, k, b)
    BY <1>3, <1>5, <1>6, <2>1 DEF GoesOn
  <2>3. Sound(heap, variant, c)
    BY <1>3
  <2>4. Sound(heap', variant, k) /\ heap'.blocks[b] = s /\ Kept(heap, heap', c.block, b)
    BY <2>1, <2>2, <2>3, GrowSound
  <2> QED BY <1>6, <2>4 DEF Kept
<1>9. c.kind = "singlePass" /\ c.element # "wrapper"
  BY <1>1, <1>3, <1>6 DEF CopyOK
<1>10. CopyOK(heap', variant, k)
  <2>1. k.index <= Len(k.range) /\ Len(k.range) >= 1 /\ k.index <= Len(heap'.blocks[k.block])
    BY <1>1, <1>3, <1>5, <1>7, <1>8 DEF CopyOK, Moved
  <2>2. \A i \in 1 .. Len(c.range) : c.range[i] \in Places(heap) /\ c.range[i] \notin Elements(heap, a)
    BY <1>3, <1>6, ElementOf DEF CopyOK
  <2>3. \A i \in 1 .. Len(k.range) : /\ k.range[i] \in Places(heap')
                                     /\ k.range[i] \notin Strings => k.range[i][1] # k.block
    BY <1>5, <1>8, <2>2
  <2>4. ~LentOut(variant, variant[k.to].at)
    BY <1>3, <1>5 DEF CopyOK
  <2> QED BY <1>5, <1>9, <2>1, <2>3, <2>4 DEF CopyOK
<1> QED BY <1>1, <1>8, <1>10 DEF ValuesInv, k

LEMMA ThrowKeeps ==
  ASSUME ValuesInv, Throw
  PROVE  ValuesInv'
<1> DEFINE c == copying
           n == IF c.kind = "singlePass" THEN c.index ELSE Len(heap.blocks[c.block])
<1>1. ~NoCopy /\ variant' = variant /\ copying' = Null /\ heap' = Deallocate(heap, c.block, n)
  BY DEF Throw, Capacity
<1>2. /\ c \in Copies /\ Sound(heap, variant, c) /\ CopyOK(heap, variant, c)
      /\ c.index \in Nat /\ Len(heap.blocks[c.block]) \in Nat
  BY <1>1, CopyState
<1> HIDE DEF c
<1>3. n \in Nat /\ c.index <= n /\ n <= Len(heap.blocks[c.block])
  BY <1>2 DEF CopyOK
<1>4. \A i \in c.index + 1 .. n : heap.blocks[c.block][i] = Null
  BY <1>2 DEF CopyOK
<1> HIDE DEF n
<1>5. Sound(heap', variant, Null)
  BY <1>1, <1>2, <1>3, <1>4, ThrowSound
<1> QED BY <1>1, <1>5, IdleSound

LEMMA AssignEndKeeps ==
  ASSUME ValuesInv, AssignEnd
  PROVE  ValuesInv'
<1> DEFINE c == copying
           b == c.block
           v == c.to
           s == SubSeq(heap.blocks[b], 1, c.index)
           x == [at |-> b, shape |-> IF c.kind \in {"scalar", "move"} THEN "scalar" ELSE "array"]
           g == [texts |-> heap.texts, blocks |-> [heap.blocks EXCEPT ![b] = s], slot |-> heap.slot]
           e == [variant EXCEPT ![v] = Empty]
<1>1. ~NoCopy /\ ~(c.index < Len(c.range)) /\ copying' = Null
  BY DEF AssignEnd, More
<1>2. /\ heap' = ClearVariant([heap EXCEPT !.blocks[b] = SubSeq(@, 1, c.index)], variant[v])
      /\ variant' = [variant EXCEPT ![v] = x]
  BY DEF AssignEnd, Set
<1>3. /\ c \in Copies /\ Sound(heap, variant, c) /\ CopyOK(heap, variant, c) /\ heap \in Heaps
      /\ b \in Blocks /\ v \in Variants /\ c.index \in Nat /\ Len(c.range) \in Nat
      /\ heap.blocks[b] \in Seq(Contents) /\ Len(heap.blocks[b]) \in Nat
  BY <1>1, CopyState
<1>4. c.index >= 1 /\ c.index <= Len(heap.blocks[b]) /\ ~LentOut(variant, variant[v].at)
  <2> HIDE DEF c
  <2> QED BY <1>1, <1>3 DEF CopyOK, b, v
<1>5. s \in Seq(Contents) /\ Len(s) = c.index
  BY <1>3, <1>4
<1>6. [heap EXCEPT !.blocks[b] = SubSeq(@, 1, c.index)] = g
  <2>1. [heap EXCEPT !.blocks[b] = SubSeq(@, 1, c.index)] = [heap EXCEPT !.blocks[b] = s]
    OBVIOUS
  <2> HIDE DEF b, c, s
  <2>2. [heap EXCEPT !.blocks[b] = s] = g
    BY <1>3, BlockUpdate
  <2> QED BY <2>1, <2>2
<1>7. Replaced(heap, g, b, s, heap.texts)
  <2>1. heap.texts \in SUBSET Texts
    BY <1>3 DEF Heaps
  <2> HIDE DEF s
  <2> QED BY <1>3, <1>5, <2>1, Replace
<1>8. g.blocks[b] = s
  <2> HIDE DEF s
  <2> QED BY <1>3 DEF Heaps
<1> HIDE DEF g
<1>9. Sound(g, variant, c)
  BY <1>3, <1>4, <1>7, ShrinkSound
<1> HIDE DEF c, s
<1>10. /\ heap' = ClearVariant(g, variant[v])
       /\ c.block = b /\ c # Null
  BY <1>1, <1>2, <1>6 DEF NoCopy, b, c
<1> HIDE DEF v, b
<1>11. /\ Sound(heap', e, c) /\ heap' \in Heaps
       /\ \A a \in Blocks : a # variant[v].at => heap'.blocks[a] = g.blocks[a]
  BY <1>3, <1>4, <1>9, <1>10, ClearSound
<1>12. variant \in [Variants -> Data] /\ variant[v].at # b
  BY <1>3, <1>10 DEF Sound, BlocksOwned, Building
<1>13. heap'.blocks[b] = s
  BY <1>3, <1>8, <1>11, <1>12
<1>14. HoldersOf(heap', c) = Places(heap')
  <2>1. \A i \in 1 .. Len(heap'.blocks[b]) : <<b, i>> \in HoldersOf(heap', c)
    BY <1>3, <1>5, <1>10, <1>11, <1>13, CopyHolders
  <2>2. \A p \in Places(heap') : p \in Elements(heap', b) => p \in HoldersOf(heap', c)
    BY <1>5, <1>13, <2>1 DEF Elements
  <2>3. \A p \in Places(heap') : p \notin Elements(heap', b) => p \in HoldersOf(heap', c)
    BY <1>3, <1>10, <1>11, CopyHolders
  <2>4. HoldersOf(heap', c) \subseteq Places(heap')
    BY DEF HoldersOf
  <2> QED BY <2>2, <2>3, <2>4
<1>15. x \in Data /\ x.at = b
  BY <1>3 DEF Data
<1>16. e[v].at \notin Blocks /\ [variant EXCEPT ![v] = x] = [e EXCEPT ![v] = x]
  BY <1>3, <1>12, Nowhere
<1> HIDE DEF x, e
<1>17. Sound(heap', [e EXCEPT ![v] = x], Null)
  BY <1>3, <1>10, <1>11, <1>14, <1>15, <1>16, TakeSound
<1>18. Sound(heap', variant', Null)
  BY <1>2, <1>16, <1>17
<1> QED BY <1>1, <1>18, IdleSound

-----------------------------------------------------------------------------
LEMMA ValuesInitInv == ValuesInit => ValuesInv
<1> SUFFICES ASSUME ValuesInit PROVE ValuesInv
  OBVIOUS
<1>1. /\ heap = [texts |-> {}, blocks |-> [b \in Blocks |-> Freed], slot |-> [w \in Strings |-> Null]]
      /\ variant = [v \in Variants |-> Empty] /\ copying = Null
  BY DEF ValuesInit
<1>2. heap \in Heaps
  <2>1. [b \in Blocks |-> Freed] \in [Blocks -> Seq(Contents)]
    BY DEF Freed
  <2>2. [w \in Strings |-> Null] \in [Strings -> Contents]
    BY DEF Contents
  <2> QED BY <1>1, <2>1, <2>2 DEF Heaps
<1>3. \A p \in Places(heap) : At(heap, p) = Null
  <2> SUFFICES ASSUME NEW p \in Places(heap) PROVE At(heap, p) = Null
    OBVIOUS
  <2>1. \A b \in Blocks : Len(heap.blocks[b]) = 0
    BY <1>1 DEF Freed
  <2>2. p \in Strings
    BY <1>2, <2>1, PlaceCases
  <2> QED BY <1>1, <2>2, StringPlace
<1>4. Owned(heap, Places(heap))
  BY <1>1, <1>2, <1>3 DEF Owned
<1>5. BlocksOwned(heap, variant, Null)
  <2>1. \A b : ~Building(Null, b)
    BY DEF Building
  <2>2. variant \in [Variants -> Data] /\ \A v \in Variants : variant[v].at = Null /\ variant[v].shape = "none"
    BY <1>1, Nowhere
  <2>3. \A b \in Blocks : heap.blocks[b] = Freed
    BY <1>1
  <2>4. Null \notin Blocks /\ Null \notin Blocks \X Nat
    BY Nowhere
  <2> QED BY <2>1, <2>2, <2>3, <2>4 DEF BlocksOwned
<1>6. Sound(heap, variant, Null)
  BY <1>4, <1>5, IdleHolders DEF Sound
<1> QED BY <1>1, <1>6 DEF ValuesInv, NoCopy

LEMMA ValuesStep == ASSUME Rules = AllRules, ValuesInv, ValuesNext PROVE ValuesInv'
<1>1. ASSUME NEW w \in Strings, WrapperConstruct(w) PROVE ValuesInv'
  BY <1>1, WrapperConstructKeeps
<1>2. ASSUME NEW w \in Strings, NEW p \in Readable, WrapperCopy(w, p) \/ WrapperMove(w, p) PROVE ValuesInv'
  BY <1>2, WrapperCopyKeeps, WrapperMoveKeeps
<1>3. ASSUME NEW v \in Variants, NEW p \in Readable, Borrow(v, p) PROVE ValuesInv'
  BY <1>3, BorrowKeeps
<1>4. ASSUME NEW v \in Variants, NEW u \in Variants, VariantCopy(v, u) \/ VariantMove(v, u) PROVE ValuesInv'
  BY <1>4, VariantCopyKeeps, VariantMoveKeeps
<1>5. ASSUME NEW v \in Variants, VariantClear(v) \/ AssignEmptyRange(v) PROVE ValuesInv'
  BY <1>5, VariantClearKeeps, AssignEmptyRangeKeeps
<1>6. ASSUME NEW w \in Strings, NEW v \in Variants, NEW type \in {"wrapper", "native"},
             TakeScalar(w, v, type)
      PROVE  ValuesInv'
  BY <1>6, TakeScalarKeeps
<1>7. ASSUME NEW v \in Variants, NEW range \in Ranges, NEW how \in Kinds,
             NEW element \in {"wrapper", "native"}, AssignBegin(v, range, how, element)
      PROVE  ValuesInv'
  BY <1>7, AssignBeginKeeps
<1>8. ASSUME CopyElement \/ Grow \/ Throw \/ AssignEnd PROVE ValuesInv'
  BY <1>8, CopyElementKeeps, GrowKeeps, ThrowKeeps, AssignEndKeeps
<1> QED BY <1>1, <1>2, <1>3, <1>4, <1>5, <1>6, <1>7, <1>8 DEF ValuesNext

LEMMA ValuesOwnedOnce == ValuesInv => OwnedOnce
<1> SUFFICES ASSUME ValuesInv PROVE OwnedOnce
  OBVIOUS
<1>1. Owned(heap, HoldersOf(heap, copying)) /\ BlocksOwned(heap, variant, copying)
  BY DEF ValuesInv, Sound
<1>2. Holders = HoldersOf(heap, copying)
  BY DEF Holders, HoldersOf, NoCopy
<1>3. ASSUME NEW x \in heap.texts PROVE Cardinality({p \in Holders : At(heap, p) = x}) = 1
  <2>1. PICK p \in Holders : At(heap, p) = x
    BY <1>1, <1>2 DEF Owned
  <2>2. x # Null
    BY <1>1, AddressAssumption DEF Owned, Heaps
  <2>3. {q \in Holders : At(heap, q) = x} = {p}
    BY <1>1, <1>2, <2>1, <2>2 DEF Owned
  <2> QED BY <2>3, FS_Singleton
<1>4. \A p \in Holders : At(heap, p) \in heap.texts \cup {Null}
  BY <1>1, <1>2 DEF Owned
<1>5. ASSUME NEW b \in Blocks
      PROVE  heap.blocks[b] # Freed <=>
                 Cardinality({v \in Variants : variant[v].at = b}) +
                     (IF ~NoCopy /\ copying.block = b THEN 1 ELSE 0) = 1
  <2> DEFINE S == {v \in Variants : variant[v].at = b}
  <2>1. Building(copying, b) <=> ~NoCopy /\ copying.block = b
    BY DEF Building, NoCopy
  <2>2. heap.blocks[b] # Freed <=> Building(copying, b) \/ \E v \in Variants : variant[v].at = b
    BY <1>1 DEF BlocksOwned
  <2>3. Building(copying, b) => S = {}
    BY <1>1 DEF BlocksOwned
  <2>4. (\E v \in Variants : variant[v].at = b) => \E v \in Variants : S = {v}
    BY <1>1 DEF BlocksOwned
  <2>5. ~(\E v \in Variants : variant[v].at = b) => S = {}
    OBVIOUS
  <2>6. Cardinality({}) = 0 /\ \A v : Cardinality({v}) = 1
    BY FS_EmptySet, FS_Singleton
  <2> HIDE DEF S
  <2>7. CASE Building(copying, b)
    <3>1. Cardinality(S) = 0
      BY <2>3, <2>6, <2>7
    <3> QED BY <2>1, <2>2, <2>7, <3>1 DEF S
  <2>8. CASE ~Building(copying, b) /\ \E v \in Variants : variant[v].at = b
    <3>1. Cardinality(S) = 1
      BY <2>4, <2>6, <2>8
    <3> QED BY <2>1, <2>2, <2>8, <3>1 DEF S
  <2>9. CASE ~Building(copying, b) /\ ~\E v \in Variants : variant[v].at = b
    <3>1. Cardinality(S) = 0
      BY <2>5, <2>6, <2>9
    <3> QED BY <2>1, <2>2, <2>9, <3>1 DEF S
  <2> QED BY <2>7, <2>8, <2>9
<1>6. ASSUME NEW v \in Variants, Borrowed(variant[v]) PROVE variant[v].at \in Places(heap)
  <2>1. variant[v].at \in Strings \/ variant[v].at \in Blocks \X Nat
    BY <1>6 DEF Borrowed, Addresses
  <2> QED BY <1>1, <2>1, StringPlace DEF BlocksOwned
<1> QED BY <1>3, <1>4, <1>5, <1>6 DEF OwnedOnce

\* Under the three rules of use, every text and every block of the heap has one owner
\* through copies, moves, borrowing and the copies of ranges (wrapper.hpp, types.hpp,
\* detail/types_handling.hpp), wherever an allocation fails: nothing leaks and nothing
\* is freed twice.
THEOREM OwnedOnceCorrect == ASSUME Rules = AllRules PROVE ValuesSpec => []OwnedOnce
<1>1. ValuesInit => ValuesInv
  BY ValuesInitInv
<1>2. ValuesInv /\ [ValuesNext]_valuesVars => ValuesInv'
  <2> SUFFICES ASSUME ValuesInv, [ValuesNext]_valuesVars PROVE ValuesInv'
    OBVIOUS
  <2>1. CASE ValuesNext
    BY <2>1, ValuesStep
  <2>2. CASE UNCHANGED valuesVars
    BY <2>2 DEF valuesVars, ValuesInv, NoCopy
  <2> QED BY <2>1, <2>2
<1>3. ValuesInv => OwnedOnce
  BY ValuesOwnedOnce
<1> QED BY <1>1, <1>2, <1>3, PTL DEF ValuesSpec
=============================================================================
