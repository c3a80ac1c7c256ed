-------------------------------- MODULE Slab --------------------------------
(***************************************************************************)
(* The slab object cache on top of an object pool.  The pool is a stack of *)
(* the free objects; the slab constructs an object when it is handed out   *)
(* for the first time and remembers how far down the stack the objects are *)
(* still raw, in one index, although objects come back in any order.       *)
(*                                                                         *)
(* Objects are numbered by their place in the pool's memory (pool_get_raw) *)
(* The constructor and the destructor are given.                           *)
(***************************************************************************)
EXTENDS Integers

CONSTANTS
  ItemCount,  \* the item_count asked for
  ItemSize,   \* words of an object, aligned
  Pointer     \* sizeof(void *)

ASSUME SlabAssumption == ItemCount \in Nat
ASSUME SizeAssumption == ItemSize \in Nat \ {0} /\ Pointer \in {4, 8}

(* pool_init makes room for two objects at least.                          *)
Count == IF ItemCount < 2 THEN 2 ELSE ItemCount
Objects == 0..(Count - 1)

VARIABLES
  slab,          \* "new", "failed" (no memory), "ready" or "clean"
  stack, current, \* the pool's list, whose first `current' slots hold
                 \* the free objects
  const_bottom,  \* the highest slot whose object is still raw
  built,         \* constructor calls less destructor calls of each object
  held,          \* the objects the user has
  lowest         \* the smallest current since slab_init

slabVars == <<slab, stack, current, const_bottom, built, held, lowest>>

FreshSlab ==
  /\ slab = "new"
  /\ stack = [i \in Objects |-> 0]
  /\ current = 0
  /\ const_bottom = Count
  /\ built = [o \in Objects |-> 0]
  /\ held = {}
  /\ lowest = 0

(* Faulty variant: const_bottom is one too high.                           *)
SlabInitAbove ==
  /\ slab # "ready"
  /\ slab' = "ready"
  /\ stack' = [i \in Objects |-> i]
  /\ current' = Count
  /\ const_bottom' = Count
  /\ lowest' = Count
  /\ UNCHANGED <<built, held>>

(* slab_init: pool_free of every object, in the order of their addresses.  *)
SlabInit ==
  /\ slab # "ready"
  /\ \/ /\ slab' = "failed"
        /\ current' = 0
        /\ UNCHANGED <<stack, const_bottom, built, held, lowest>>
     \/ /\ slab' = "ready"
        /\ stack' = [i \in Objects |-> i]
        /\ current' = Count
        /\ const_bottom' = Count - 1
        /\ lowest' = Count
        /\ UNCHANGED <<built, held>>

(* Faulty variant: the constructor is not called.                          *)
SlabAllocRaw ==
  /\ slab = "ready"
  /\ current > 0
  /\ held' = held \cup {stack[current - 1]}
  /\ current' = current - 1
  /\ lowest' = IF current' < lowest THEN current' ELSE lowest
  /\ const_bottom' = IF const_bottom = current' THEN const_bottom - 1
                     ELSE const_bottom
  /\ UNCHANGED <<slab, stack, built>>

(* slab_alloc; an empty pool gives a null pointer.                         *)
SlabAlloc ==
  /\ slab = "ready"
  /\ IF current = 0 THEN UNCHANGED slabVars
     ELSE LET object == stack[current - 1]
              raw == const_bottom = current - 1
          IN  /\ current' = current - 1
              /\ held' = held \cup {object}
              /\ const_bottom' = IF raw THEN const_bottom - 1 ELSE const_bottom
              /\ built' = IF raw THEN [built EXCEPT ![object] = @ + 1]
                          ELSE built
              /\ lowest' = IF current - 1 < lowest THEN current - 1 ELSE lowest
              /\ UNCHANGED <<slab, stack>>

(* Faulty variant: the stack pointer stays.                                *)
SlabFreeInPlace(x) ==
  /\ slab = "ready" /\ x \in held
  /\ held' = held \ {x}
  /\ stack' = IF current < Count THEN [stack EXCEPT ![current] = x] ELSE stack
  /\ UNCHANGED <<slab, current, const_bottom, built, lowest>>

(* slab_free, of an object the user has: dropped if the stack is full.     *)
SlabFree(x) ==
  /\ slab = "ready" /\ x \in held
  /\ held' = held \ {x}
  /\ IF current < Count
     THEN /\ stack' = [stack EXCEPT ![current] = x]
          /\ current' = current + 1
     ELSE UNCHANGED <<stack, current>>
  /\ UNCHANGED <<slab, const_bottom, built, lowest>>

(* slab_cleanup: the destructor for the objects above const_bottom, those  *)
(* the user still has included, which he may not use any more.             *)
SlabCleanup ==
  /\ slab = "ready"
  /\ slab' = "clean"
  /\ const_bottom' = Count
  /\ held' = {}
  /\ built' = [o \in Objects |-> IF o > const_bottom THEN built[o] - 1
                                 ELSE built[o]]
  /\ UNCHANGED <<stack, current, lowest>>

SlabNext ==
  SlabInit \/ SlabAlloc \/ SlabCleanup \/ \E x \in Objects : SlabFree(x)

SlabSpec == FreshSlab /\ [][SlabNext]_slabVars

-----------------------------------------------------------------------------
(* Every variable has its type.                                            *)
SlabTypes ==
  /\ slab \in {"new", "failed", "ready", "clean"}
  /\ stack \in [Objects -> Objects]
  /\ current \in 0..Count
  /\ const_bottom \in -1..Count
  /\ built \in [Objects -> Int]
  /\ held \subseteq Objects
  /\ lowest \in 0..Count

Free == {stack[i] : i \in 0..(current - 1)}

(* Every object is either with the user or in exactly one slot of the      *)
(* stack, so none is lost to the silent drop in pool_free, none handed out *)
(* twice, and a null pointer means that the user has them all.             *)
NothingLost ==
  slab = "ready" =>
    /\ held = Objects \ Free
    /\ \A i, j \in 0..(current - 1) : stack[i] = stack[j] => i = j

(* An object the user has is constructed, no object is constructed twice,  *)
(* and slab_cleanup destructs what was constructed and nothing else.       *)
BuiltOnce ==
  /\ \A o \in Objects : built[o] \in {0, 1}
  /\ \A o \in held : built[o] = 1
  /\ slab # "ready" => \A o \in Objects : built[o] = 0

(* Objects are constructed only when the user has more of them than ever   *)
(* before: freed objects are used again first.                             *)
LazyConstruction == slab = "ready" => const_bottom + 1 = lowest

(* The slab implements the cache.                                          *)
Cache == INSTANCE ObjectCache
           WITH built <- {o \in Objects : built[o] = 1}

ImplementsCache == Cache!Spec

-----------------------------------------------------------------------------
(* The memory of the pool in words: what malloc is asked for, and where    *)
(* pool_get_raw finds an object.                                           *)
PoolWords == ItemSize * Count + Count
RawAddress(o) == Pointer * Count + ItemSize * o

(* Comment at the head of the pool: the stack array and the objects are    *)
(* allocated as a single memory item.  An object the user has lies in it.  *)
ObjectsInItem ==
  \A o \in held : RawAddress(o) + ItemSize <= PoolWords
=============================================================================
