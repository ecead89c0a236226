------------------------------- MODULE Values -------------------------------
(***************************************************************************)
(* Who owns the memory of native values: wrappers such as String           *)
(* (wrapper.hpp) own a text; a Variant (types.hpp) owns a scalar or an     *)
(* array of them on the heap, or borrows one that stays somebody else's;   *)
(* copyArray (detail/types_handling.hpp) builds an array while             *)
(* allocations may fail.  UA_clear, UA_copy and the allocator are          *)
(* external.  An operator Bug... is a wrong version of the one that        *)
(* follows it.                                                             *)
(***************************************************************************)
EXTENDS Naturals, Sequences, FiniteSets

CONSTANTS
    Strings,          \* the program's wrapper objects, such as String, alive all the time
    Variants,         \* its Variant objects
    Texts,            \* character buffers on the heap
    Blocks,           \* scalars and arrays on the heap
    Null,             \* the null pointer
    Sentinel,         \* the data pointer of an empty array
    InitialCapacity,  \* of a copy from a single-pass range (16 in the code)
    MaxLength,        \* bound: elements of a range
    Rules             \* how the program uses the values

\* "wrappersOnly": no native is moved into a Variant or, by scalar() &&, out of one.
\* "lenderLasts": what a Variant borrows is not freed, by itself or by its owner.
\* "shortSinglePass": no single-pass range of wrappers exceeds the first capacity.
AllRules == {"wrappersOnly", "lenderLasts", "shortSinglePass"}

ASSUME CapacityAssumption == InitialCapacity \in Nat \ {0} /\ MaxLength \in Nat
ASSUME RulesAssumption == Rules \subseteq AllRules

VARIABLES
    heap,      \* live texts, the blocks' elements, the wrappers' texts
    variant,   \* where each Variant's data is, and its shape
    copying    \* the copy into a Variant in progress, if any

valuesVars == <<heap, variant, copying>>

Junk == "junk"          \* memory that realloc has added
Freed == <<>>           \* a live block has elements
Empty == [at |-> Null, shape |-> "none"]

Kinds == {"scalar", "move", "range", "singlePass"}

\* Where a text's pointer may be, and a copy in progress: from the places in `range`
\* to `block`, of which `index` elements are written.
Addresses == Strings \cup (Blocks \X Nat)
Copies == [to : Variants, range : Seq(Addresses), kind : Kinds,
           element : {"wrapper", "native"}, block : Blocks, index : Nat]

\* What is somewhere is nowhere else.
ASSUME AddressAssumption ==
    /\ \A a \in {Null, Sentinel} : a \notin Addresses \cup Blocks
    /\ \A w \in Strings : w \notin Blocks /\ w \notin Blocks \X Nat
    /\ \A b \in Blocks : b \notin Blocks \X Nat
    /\ Null \notin Texts /\ Null # Junk /\ Junk \notin Texts
    /\ Null \notin Copies

\* A text's pointer is in a wrapper or in an element of a block.
Elements(h, b) == {<<b, i>> : i \in DOMAIN h.blocks[b]}
Places(h) == Strings \cup UNION {Elements(h, b) : b \in Blocks}

At(h, p) == IF p \in Strings THEN h.slot[p] ELSE h.blocks[p[1]][p[2]]

Put(h, p, x) == IF p \in Strings THEN [h EXCEPT !.slot[p] = x] ELSE [h EXCEPT !.blocks[p[1]][p[2]] = x]

ValuesInit ==
    /\ heap = [texts |-> {}, blocks |-> [b \in Blocks |-> Freed], slot |-> [w \in Strings |-> Null]]
    /\ variant = [v \in Variants |-> Empty]
    /\ copying = Null

-----------------------------------------------------------------------------
(***************************************************************************)
(* Effects on the heap.  An operator that allocates gives the set of its   *)
(* possible results.                                                       *)
(***************************************************************************)
\* clear of the value at p; what it does to memory that was never written is
\* undefined: it may free any text.
Clear(h, p) ==
    IF At(h, p) = Junk THEN {[Put(h, p, Null) EXCEPT !.texts = @ \ {x}] : x \in Texts \cup {Null}}
    ELSE {[Put(h, p, Null) EXCEPT !.texts = @ \ {At(h, p)}]}

Cleared(h, p) == CHOOSE g \in Clear(h, p) : TRUE

\* deallocateArray: clears the first n elements, then frees the block.
Deallocate(h, b, n) ==
    [h EXCEPT !.texts = @ \ {h.blocks[b][i] : i \in 1..n}, !.blocks[b] = Freed]

\* UA_clear of a Variant; borrowed data is left alone.
ClearVariant(h, d) ==
    IF d.at \in Blocks THEN Deallocate(h, d.at, Len(h.blocks[d.at])) ELSE h

\* UA_copy of a text into the place p, if the allocation succeeds.
Copy(h, p, x) ==
    IF x = Null THEN {Put(h, p, Null)}
    ELSE {[Put(h, p, y) EXCEPT !.texts = @ \cup {y}] : y \in Texts \ h.texts}

\* realloc: the elements of a move to the block b, the rest of it is not written.
Reallocate(h, a, b) ==
    [h EXCEPT !.blocks[b] = h.blocks[a] \o [i \in DOMAIN h.blocks[a] |-> Junk], !.blocks[a] = Freed]

Allocate(h, elements) == {[h EXCEPT !.blocks[b] = elements] : b \in {c \in Blocks : h.blocks[c] = Freed}}

\* UA_copy of the texts xs, each to one of its own, and a block that holds the copies.
Duplicates(h, xs) ==
    {ys \in [DOMAIN xs -> (Texts \ h.texts) \cup {Null}] :
        \A i, j \in DOMAIN xs : /\ ys[i] = Null <=> xs[i] = Null
                                /\ i # j /\ ys[i] # Null => ys[i] # ys[j]}
Fill(h, b, ys) == [h EXCEPT !.texts = @ \cup ({ys[i] : i \in DOMAIN ys} \ {Null}), !.blocks[b] = ys]

-----------------------------------------------------------------------------
Borrowed(d) == d.at \in Addresses

\* Somebody borrows from the data d.
Lent(d) == \E u \in Variants : variant[u].at \in Blocks \X Nat /\ variant[u].at[1] = d.at
MayFree(d) == "lenderLasts" \in Rules => ~Lent(d)

\* What d owns or borrows.
Contained(d) == IF Borrowed(d) THEN <<At(heap, d.at)>> ELSE heap.blocks[d.at]

\* What the program can name: its wrappers, and the elements of its Variants.
Named(v) ==
    IF variant[v].at \in Blocks THEN Elements(heap, variant[v].at)
    ELSE IF Borrowed(variant[v]) THEN {variant[v].at} ELSE {}
Readable == Strings \cup UNION {Named(v) : v \in Variants}

NoCopy == copying = Null

\* String{"..."}.
WrapperConstruct(w) ==
    /\ NoCopy
    /\ heap.slot[w] = Null
    /\ \E x \in Texts \ heap.texts : heap' = [Put(heap, w, x) EXCEPT !.texts = @ \cup {x}]
    /\ UNCHANGED <<variant, copying>>

\* Wrapper::operator= from an lvalue: the old value is gone even if the copy throws.
WrapperCopy(w, p) ==
    /\ NoCopy
    /\ p # w
    /\ LET h == Cleared(heap, w)
       IN heap' \in Copy(h, w, At(heap, p)) \cup {h}
    /\ UNCHANGED <<variant, copying>>

\* Wrapper::operator= from an rvalue: TypeHandlerNative::move leaves the source empty.
WrapperMove(w, p) ==
    /\ NoCopy
    /\ p # w
    /\ heap' = Put(Put(Cleared(heap, w), w, At(heap, p)), p, Null)
    /\ UNCHANGED <<variant, copying>>

\* Variant::assign(T*), without a copy.
Borrow(v, p) ==
    /\ NoCopy
    /\ MayFree(variant[v])
    /\ ("lenderLasts" \in Rules /\ variant[v].at \in Blocks) => p \notin Named(v)
    /\ heap' = ClearVariant(heap, variant[v])
    /\ variant' = [variant EXCEPT ![v] = [at |-> p, shape |-> "scalar"]]
    /\ UNCHANGED copying

\* Variant's copy assignment clears first; UA_copy also copies what u borrows.
VariantCopy(v, u) ==
    /\ NoCopy
    /\ v # u
    /\ MayFree(variant[v])
    /\ LET h == ClearVariant(heap, variant[v])
           d == variant[u]
       IN \/ /\ d.at \in {Null, Sentinel}
             /\ heap' = h
             /\ variant' = [variant EXCEPT ![v] = d]
          \/ /\ d.at \notin {Null, Sentinel}
             /\ \E b \in {c \in Blocks : h.blocks[c] = Freed}, ys \in Duplicates(h, Contained(d)) :
                  /\ heap' = Fill(h, b, ys)
                  /\ variant' = [variant EXCEPT ![v] = [at |-> b, shape |-> d.shape]]
          \/ /\ d.at \notin {Null, Sentinel}  \* BadOutOfMemory
             /\ heap' = h
             /\ variant' = [variant EXCEPT ![v] = Empty]
    /\ UNCHANGED copying

VariantMove(v, u) ==
    /\ NoCopy
    /\ v # u
    /\ MayFree(variant[v])
    /\ heap' = ClearVariant(heap, variant[v])
    /\ variant' = [variant EXCEPT ![v] = variant[u], ![u] = Empty]
    /\ UNCHANGED copying

\* Its destruction, or assign(nullptr).
VariantClear(v) ==
    /\ NoCopy
    /\ variant[v] # Empty
    /\ MayFree(variant[v])
    /\ heap' = ClearVariant(heap, variant[v])
    /\ variant' = [variant EXCEPT ![v] = Empty]
    /\ UNCHANGED copying

\* w = std::move(v).scalar<T>(): what v owns is moved out, what it borrows is copied.
\* A native T has no move of its own: the result and v share the text.
TakeScalar(w, v, type) ==
    /\ NoCopy
    /\ variant[v].shape = "scalar"
    /\ "wrappersOnly" \in Rules => type = "wrapper"
    /\ LET d == variant[v]
           p == IF Borrowed(d) THEN d.at ELSE <<d.at, 1>>
           x == At(heap, p)
           h == Cleared(heap, w)
       IN IF Borrowed(d) /\ x # Null
          THEN \E y \in Texts \ heap.texts : heap' = [Put(h, w, y) EXCEPT !.texts = @ \cup {y}]
          ELSE heap' = Put(IF type = "wrapper" THEN Put(h, p, Null) ELSE h, w, x)
    /\ UNCHANGED <<variant, copying>>

-----------------------------------------------------------------------------
(***************************************************************************)
(* Variant::assign with a copy: a scalar is copied or moved, a range is    *)
(* copied by copyArray, which knows the length of all but a single-pass    *)
(* one.  A copy that throws is unwound by the owner of the new block       *)
(* (makeUnique, makeUniqueArray).                                          *)
(***************************************************************************)
\* One value, a container of wrappers, or the array of a Variant.
Ranges ==
    {<<p>> : p \in Readable}
    \cup (UNION {[1..n -> Strings] : n \in 2..MaxLength})
    \cup {[i \in DOMAIN heap.blocks[b] |-> <<b, i>>] :
             b \in {variant[v].at : v \in {u \in Variants : variant[u].at \in Blocks}}}

\* setArrayImpl: only now is the old value freed.
Set(h, v, d) ==
    /\ heap' = ClearVariant(h, variant[v])
    /\ variant' = [variant EXCEPT ![v] = d]

AssignEmptyRange(v) ==
    /\ NoCopy
    /\ MayFree(variant[v])
    /\ Set(heap, v, [at |-> Sentinel, shape |-> "array"])
    /\ UNCHANGED copying

\* The first allocation; if it fails, nothing has happened.
AssignBegin(v, range, kind, element) ==
    /\ NoCopy
    /\ MayFree(variant[v])
    /\ kind \in {"scalar", "move"} => Len(range) = 1
    /\ kind = "move" /\ "wrappersOnly" \in Rules => element = "wrapper"
    /\ kind = "singlePass" /\ element = "wrapper" /\ "shortSinglePass" \in Rules =>
           Len(range) <= InitialCapacity
    /\ LET size == IF kind = "singlePass" THEN InitialCapacity ELSE Len(range)
       IN heap' \in Allocate(heap, [i \in 1..size |-> Null])
    /\ copying' = [to |-> v, range |-> range, kind |-> kind, element |-> element,
                   block |-> CHOOSE b \in Blocks : heap'.blocks[b] # heap.blocks[b], index |-> 0]
    /\ UNCHANGED variant

Capacity == Len(heap.blocks[copying.block])
More == copying.index < Len(copying.range)

\* dst[index] = copy(*it): a native is overwritten, a wrapper clears what it held.
\* A wrapper that was moved is empty, a native keeps its pointer.
CopyElement ==
    /\ ~NoCopy
    /\ More /\ copying.index < Capacity
    /\ LET p == <<copying.block, copying.index + 1>>
           source == copying.range[copying.index + 1]
           x == At(heap, source)
       IN \E h \in IF copying.element = "wrapper" THEN Clear(heap, p) ELSE {heap} :
             IF copying.kind = "move"
             THEN heap' = Put(Put(h, p, x), source, IF copying.element = "wrapper" THEN Null ELSE x)
             ELSE heap' \in Copy(h, p, x)
    /\ copying' = [copying EXCEPT !.index = @ + 1]
    /\ UNCHANGED variant

\* A single-pass copy doubles its block.
Grow ==
    /\ ~NoCopy
    /\ More /\ copying.index = Capacity
    /\ \E b \in {c \in Blocks : heap.blocks[c] = Freed} :
          /\ heap' = Reallocate(heap, copying.block, b)
          /\ copying' = [copying EXCEPT !.block = b]
    /\ UNCHANGED variant

BugThrow ==  \* frees the new block, but not its elements
    /\ ~NoCopy
    /\ \/ More /\ copying.index = Capacity
       \/ More /\ copying.kind # "move" /\ At(heap, copying.range[copying.index + 1]) # Null
       \/ ~More /\ copying.kind = "singlePass"
    /\ heap' = Deallocate(heap, copying.block, 0)
    /\ copying' = Null
    /\ UNCHANGED variant

\* A copy of a text, the growth, or the final shrinking of the block fails; the
\* elements that count are cleared, and the Variant has its old value.
Throw ==
    /\ ~NoCopy
    /\ \/ More /\ copying.index = Capacity
       \/ More /\ copying.kind # "move" /\ At(heap, copying.range[copying.index + 1]) # Null
       \/ ~More /\ copying.kind = "singlePass"
    /\ heap' = Deallocate(heap, copying.block,
                          IF copying.kind = "singlePass" THEN copying.index ELSE Capacity)
    /\ copying' = Null
    /\ UNCHANGED variant

\* A single-pass copy shrinks the block to what it holds; then the Variant takes it.
AssignEnd ==
    /\ ~NoCopy /\ ~More
    /\ LET b == copying.block
           shape == IF copying.kind \in {"scalar", "move"} THEN "scalar" ELSE "array"
       IN Set([heap EXCEPT !.blocks[b] = SubSeq(@, 1, copying.index)], copying.to,
              [at |-> b, shape |-> shape])
    /\ copying' = Null

ValuesNext ==
    \/ \E w \in Strings : WrapperConstruct(w)
    \/ \E w \in Strings, p \in Readable : WrapperCopy(w, p) \/ WrapperMove(w, p)
    \/ \E v \in Variants, p \in Readable : Borrow(v, p)
    \/ \E v, u \in Variants : VariantCopy(v, u) \/ VariantMove(v, u)
    \/ \E v \in Variants : VariantClear(v) \/ AssignEmptyRange(v)
    \/ \E w \in Strings, v \in Variants, type \in {"wrapper", "native"} : TakeScalar(w, v, type)
    \/ \E v \in Variants, range \in Ranges, kind \in Kinds, element \in {"wrapper", "native"} :
          AssignBegin(v, range, kind, element)
    \/ CopyElement \/ Grow \/ Throw \/ AssignEnd

ValuesSpec == ValuesInit /\ [][ValuesNext]_valuesVars

-----------------------------------------------------------------------------
\* The elements of a block that hold a value: not those a copy has yet to write.
Holders ==
    {p \in Places(heap) : ~NoCopy /\ p \notin Strings /\ p[1] = copying.block => p[2] <= copying.index}

\* Every text is owned once: nothing leaks, also if a copy throws in the middle of an
\* array; nothing is freed twice or while it is in use, whatever is moved, borrowed,
\* copied from a value's own part, or assigned over; and the same of the blocks.
OwnedOnce ==
    /\ \A x \in heap.texts : Cardinality({p \in Holders : At(heap, p) = x}) = 1
    /\ \A p \in Holders : At(heap, p) \in heap.texts \cup {Null}
    /\ \A b \in Blocks : heap.blocks[b] # Freed <=>
           Cardinality({v \in Variants : variant[v].at = b}) +
               (IF ~NoCopy /\ copying.block = b THEN 1 ELSE 0) = 1
    /\ \A v \in Variants : Borrowed(variant[v]) => variant[v].at \in Places(heap)
=============================================================================
