---------------------------- MODULE AllocatorProofs --------------------------
(***************************************************************************)
(* Proofs about the object cache and about the heap, for every number of   *)
(* objects, any size of the heap and of its blocks.                        *)
(***************************************************************************)
EXTENDS Slab, Heap, FiniteSetTheorems, WellFoundedInduction, TLAPS

-----------------------------------------------------------------------------
(* The object cache: objects are constructed as they are first needed, and *)
(* a stack of slots keeps those that are not in use.                       *)

LEMMA CountType == Count \in Nat /\ Count >= 2
BY SlabAssumption DEF Count

-----------------------------------------------------------------------------
(* The slots at and below const_bottom hold the raw objects in the order   *)
(* of their addresses; the stack and the user share out the objects; what  *)
(* is above const_bottom, and nothing else, is constructed.                *)
StackInv ==
  slab = "ready" =>
    /\ const_bottom < current
    /\ \A i \in Objects : i <= const_bottom => stack[i] = i
    /\ NothingLost
    /\ built = [o \in Objects |-> IF o > const_bottom THEN 1 ELSE 0]
    /\ LazyConstruction

IdleInv ==
  slab # "ready" => held = {} /\ built = [o \in Objects |-> 0]

IInv == SlabTypes /\ StackInv /\ IdleInv

(* A stack that is not full when the user has an object: the slots hold    *)
(* different objects, all of which the user does not have.                 *)
LEMMA RoomForHeld ==
  ASSUME SlabTypes, NothingLost, slab = "ready", NEW x \in held
  PROVE  current < Count
<1> DEFINE slots == 0..(current - 1)
<1> DEFINE place == [i \in slots |-> stack[i]]
<1>1. Count \in Nat /\ current \in 0..Count
  BY CountType DEF SlabTypes
<1>2. IsFiniteSet(Objects) /\ Cardinality(Objects) = Count
  BY CountType, FS_Interval DEF Objects
<1>3. IsFiniteSet(slots) /\ Cardinality(slots) = current
  BY <1>1, FS_Interval
<1>4. place \in [slots -> Objects \ {x}]
  BY <1>1 DEF SlabTypes, NothingLost, Free, Objects
<1>5. \A i, j \in slots : place[i] = place[j] => i = j
  BY DEF NothingLost
<1>6. x \in Objects
  BY DEF SlabTypes
<1>7. IsFiniteSet(Objects \ {x}) /\ Cardinality(Objects \ {x}) = Count - 1
  BY <1>2, <1>6, FS_RemoveElement
<1>8. place \in Injection(slots, Objects \ {x})
  BY <1>4, <1>5 DEF Injection, IsInjective
<1>9. Cardinality(slots) <= Cardinality(Objects \ {x})
  BY <1>7, <1>8, FS_Injection
<1>10. QED
  BY <1>1, <1>3, <1>7, <1>9

-----------------------------------------------------------------------------
LEMMA InitIInv == FreshSlab => IInv
BY CountType DEF FreshSlab, IInv, SlabTypes, StackInv, IdleInv, Objects

LEMMA SlabInitIInv ==
  ASSUME IInv, SlabInit
  PROVE  IInv'
<1>1. CASE slab' = "failed"
  <2>1. /\ slab # "ready" /\ current' = 0
        /\ UNCHANGED <<stack, const_bottom, built, held, lowest>>
    BY <1>1 DEF SlabInit
  <2>2. SlabTypes'
    BY <1>1, <2>1, CountType DEF IInv, SlabTypes
  <2>3. StackInv' /\ IdleInv'
    BY <1>1, <2>1 DEF IInv, StackInv, IdleInv
  <2>4. QED
    BY <2>2, <2>3 DEF IInv
<1>2. CASE slab' = "ready"
  <2>1. /\ current' = Count /\ const_bottom' = Count - 1 /\ lowest' = Count
        /\ stack' = [i \in Objects |-> i]
        /\ held' = {} /\ built' = [o \in Objects |-> 0]
    BY <1>2 DEF IInv, IdleInv, SlabInit
  <2>2. SlabTypes'
    <3>1. current' \in 0..Count /\ lowest' \in 0..Count
      BY <2>1, CountType
    <3>2. const_bottom' \in -1..Count
      BY <2>1, CountType
    <3>3. stack' \in [Objects -> Objects]
      BY <2>1
    <3>4. built' \in [Objects -> Int] /\ held' \subseteq Objects
      BY <2>1
    <3>5. QED
      BY <1>2, <3>1, <3>2, <3>3, <3>4 DEF SlabTypes
  <2>3. NothingLost'
    BY <2>1, CountType DEF NothingLost, Free, Objects
  <2>4. StackInv'
    BY <2>1, <2>3, CountType DEF StackInv, LazyConstruction, Objects
  <2>5. IdleInv'
    BY <1>2 DEF IdleInv
  <2>6. QED
    BY <2>2, <2>4, <2>5 DEF IInv
<1>3. QED
  BY <1>1, <1>2 DEF SlabInit

(* The object on top of the stack goes to the user; if it is the highest   *)
(* raw one, it is the one whose number is its slot.                        *)
LEMMA SlabAllocIInv ==
  ASSUME IInv, SlabAlloc
  PROVE  IInv'
<1>1. CASE current = 0
  BY <1>1 DEF SlabAlloc, IInv, SlabTypes, StackInv, IdleInv, NothingLost, Free,
              LazyConstruction, slabVars
<1>2. CASE current # 0
  <2> DEFINE top == current - 1
  <2> DEFINE object == stack[top]
  <2>1. /\ slab = "ready" /\ slab' = "ready"
        /\ current' = top /\ stack' = stack
        /\ held' = held \cup {object}
        /\ lowest' = IF top < lowest THEN top ELSE lowest
    BY <1>2 DEF SlabAlloc
  <2>2. SlabTypes /\ StackInv /\ NothingLost /\ LazyConstruction
    BY <2>1 DEF IInv, StackInv
  <2>3. /\ Count \in Nat /\ current \in 1..Count /\ top \in Objects
        /\ const_bottom \in Int /\ const_bottom < current
        /\ object \in Objects
        /\ lowest = const_bottom + 1
    BY <1>2, <2>1, <2>2, CountType
       DEF SlabTypes, StackInv, Objects, LazyConstruction
  <2>4. NothingLost'
    <3>1. Free = Free' \cup {object}
      BY <2>1, <2>3 DEF Free
    <3>2. object \notin Free'
      BY <2>1, <2>2, <2>3 DEF Free, NothingLost
    <3>3. object \notin held
      BY <2>1, <2>2, <3>1 DEF NothingLost
    <3>4. held' = Objects \ Free'
      BY <2>1, <2>2, <2>3, <3>1, <3>2, <3>3 DEF NothingLost
    <3>5. \A i, j \in 0..(current' - 1) : stack'[i] = stack'[j] => i = j
      BY <2>1, <2>2, <2>3 DEF NothingLost
    <3>6. QED
      BY <3>4, <3>5 DEF NothingLost
  <2>5. /\ stack' \in [Objects -> Objects] /\ held' \subseteq Objects
        /\ current' \in 0..Count /\ lowest' \in 0..Count
    <3>1. current' \in 0..Count
      BY <2>1, <2>3
    <3>2. lowest' \in 0..Count
      BY <2>1, <2>2, <2>3, <3>1 DEF SlabTypes
    <3>3. stack' \in [Objects -> Objects] /\ held' \subseteq Objects
      BY <2>1, <2>2, <2>3 DEF SlabTypes
    <3>4. QED
      BY <3>1, <3>2, <3>3
  <2>6. CASE const_bottom = top
    <3>1. /\ const_bottom' = top - 1
          /\ built' = [built EXCEPT ![object] = @ + 1]
      BY <1>2, <2>6 DEF SlabAlloc
    <3>2. object = top
      BY <2>1, <2>2, <2>3, <2>6 DEF StackInv
    <3>3. built' = [o \in Objects |-> IF o > top - 1 THEN 1 ELSE 0]
      <4>1. built = [o \in Objects |-> IF o > top THEN 1 ELSE 0]
        BY <2>1, <2>2, <2>6 DEF StackInv
      <4>2. built' = [o \in Objects |-> IF o = top THEN 1
                                        ELSE IF o > top THEN 1 ELSE 0]
        BY <2>3, <3>1, <3>2, <4>1
      <4>3. \A o \in Objects : o > top - 1 <=> o = top \/ o > top
        BY <2>3 DEF Objects
      <4>4. QED
        BY <4>2, <4>3
    <3>4. LazyConstruction'
      BY <2>1, <2>3, <2>6, <3>1 DEF LazyConstruction
    <3>5. StackInv'
      <4>1. const_bottom' < current'
        BY <2>1, <2>3, <3>1
      <4>2. \A i \in Objects : i <= const_bottom' => stack'[i] = i
        BY <2>1, <2>2, <2>3, <2>6, <3>1 DEF StackInv, Objects
      <4>3. built' = [o \in Objects |-> IF o > const_bottom' THEN 1 ELSE 0]
        BY <3>1, <3>3
      <4>4. QED
        BY <2>4, <3>4, <4>1, <4>2, <4>3 DEF StackInv
    <3>6. SlabTypes'
      <4>1. const_bottom' \in -1..Count
        BY <2>3, <3>1 DEF Objects
      <4>2. built' \in [Objects -> Int]
        BY <3>3
      <4>3. QED
        BY <2>1, <2>5, <4>1, <4>2 DEF SlabTypes
    <3>7. QED
      BY <2>1, <3>5, <3>6 DEF IInv, IdleInv
  <2>7. CASE const_bottom # top
    <3>1. const_bottom' = const_bottom /\ built' = built
      BY <1>2, <2>7 DEF SlabAlloc
    <3>2. LazyConstruction'
      BY <2>1, <2>3, <2>7, <3>1 DEF LazyConstruction
    <3>3. StackInv'
      <4>1. const_bottom' < current'
        BY <2>1, <2>3, <2>7, <3>1
      <4>2. QED
        BY <2>1, <2>2, <2>4, <3>1, <3>2, <4>1 DEF StackInv
    <3>4. SlabTypes'
      BY <2>1, <2>2, <2>5, <3>1 DEF SlabTypes
    <3>5. QED
      BY <2>1, <3>3, <3>4 DEF IInv, IdleInv
  <2>8. QED
    BY <2>6, <2>7
<1>3. QED
  BY <1>1, <1>2

LEMMA SlabFreeIInv ==
  ASSUME IInv, NEW x \in Objects, SlabFree(x)
  PROVE  IInv'
<1>1. slab = "ready" /\ x \in held
  BY DEF SlabFree
<1>2. SlabTypes /\ StackInv /\ NothingLost /\ LazyConstruction
  BY <1>1 DEF IInv, StackInv
<1>3. current < Count
  BY <1>1, <1>2, RoomForHeld
<1>4. /\ slab' = "ready" /\ held' = held \ {x}
      /\ stack' = [stack EXCEPT ![current] = x] /\ current' = current + 1
      /\ const_bottom' = const_bottom /\ built' = built /\ lowest' = lowest
  BY <1>1, <1>3 DEF SlabFree
<1>5. /\ Count \in Nat /\ current \in Objects
      /\ const_bottom \in Int /\ const_bottom < current
  BY <1>1, <1>2, <1>3, CountType DEF SlabTypes, StackInv, Objects
<1>6. \A i \in Objects : stack'[i] = IF i = current THEN x ELSE stack[i]
  BY <1>2, <1>4 DEF SlabTypes
<1>7. NothingLost'
  <2>1. 0..(current' - 1) = (0..(current - 1)) \cup {current}
    BY <1>4, <1>5 DEF Objects
  <2>2. 0..(current' - 1) \subseteq Objects
    BY <1>4, <1>5 DEF Objects
  <2>3. Free' = Free \cup {x}
    BY <1>5, <1>6, <2>1, <2>2 DEF Free, Objects
  <2>4. held' = Objects \ Free'
    BY <1>1, <1>2, <1>4, <2>3 DEF NothingLost
  <2>5. x \notin Free
    BY <1>1, <1>2 DEF NothingLost
  <2>6. \A i \in 0..(current - 1) : stack[i] # x
    BY <2>5 DEF Free
  <2>7. \A i, j \in 0..(current' - 1) : stack'[i] = stack'[j] => i = j
    BY <1>1, <1>2, <1>6, <2>1, <2>2, <2>6 DEF NothingLost
  <2>8. QED
    BY <2>4, <2>7 DEF NothingLost
<1>8. StackInv'
  BY <1>1, <1>2, <1>4, <1>5, <1>6, <1>7 DEF StackInv, LazyConstruction, Objects
<1>9. SlabTypes'
  <2>1. current' \in 0..Count
    BY <1>4, <1>5 DEF Objects
  <2>2. stack' \in [Objects -> Objects]
    BY <1>2, <1>4, <1>5 DEF SlabTypes
  <2>3. QED
    BY <1>2, <1>4, <2>1, <2>2 DEF SlabTypes
<1>10. QED
  BY <1>4, <1>8, <1>9 DEF IInv, IdleInv

LEMMA SlabCleanupIInv ==
  ASSUME IInv, SlabCleanup
  PROVE  IInv'
<1>1. slab = "ready" /\ slab' = "clean" /\ held' = {}
  BY DEF SlabCleanup
<1>2. built' = [o \in Objects |-> 0]
  BY <1>1, CountType DEF SlabCleanup, IInv, SlabTypes, StackInv, Objects
<1>3. SlabTypes'
  BY <1>1, <1>2, CountType DEF SlabCleanup, IInv, SlabTypes, Objects
<1>4. QED
  BY <1>1, <1>2, <1>3 DEF IInv, StackInv, IdleInv

LEMMA Inductive == IInv /\ [SlabNext]_slabVars => IInv'
<1> SUFFICES ASSUME IInv, [SlabNext]_slabVars
             PROVE  IInv'
  OBVIOUS
<1>1. CASE SlabInit
  BY <1>1, SlabInitIInv
<1>2. CASE SlabAlloc
  BY <1>2, SlabAllocIInv
<1>3. CASE SlabCleanup
  BY <1>3, SlabCleanupIInv
<1>4. ASSUME NEW x \in Objects, SlabFree(x)
      PROVE  IInv'
  BY <1>4, SlabFreeIInv
<1>5. CASE UNCHANGED slabVars
  BY <1>5 DEF slabVars, IInv, SlabTypes, StackInv, IdleInv, NothingLost, Free,
              LazyConstruction
<1>6. QED
  BY <1>1, <1>2, <1>3, <1>4, <1>5 DEF SlabNext

(* An object the user has is above const_bottom: those at or below it are  *)
(* on the stack.                                                           *)
LEMMA InvariantBuiltOnce ==
  ASSUME IInv
  PROVE  BuiltOnce
<1>1. CASE slab = "ready"
  <2>1. /\ built = [o \in Objects |-> IF o > const_bottom THEN 1 ELSE 0]
        /\ NothingLost /\ const_bottom < current
        /\ \A i \in Objects : i <= const_bottom => stack[i] = i
    BY <1>1 DEF IInv, StackInv
  <2>2. ASSUME NEW o \in held
        PROVE  o > const_bottom
    <3>1. o \in Objects /\ o \notin Free
      BY <1>1, <2>1 DEF NothingLost
    <3>2. ASSUME o <= const_bottom
          PROVE  FALSE
      <4>1. stack[o] = o /\ o \in 0..(current - 1)
        BY <2>1, <3>1, <3>2, CountType DEF IInv, SlabTypes, Objects
      <4>2. QED
        BY <3>1, <4>1 DEF Free
    <3>3. QED
      BY <3>1, <3>2, CountType DEF IInv, SlabTypes, Objects
  <2>3. held \subseteq Objects
    BY DEF IInv, SlabTypes
  <2>4. QED
    BY <1>1, <2>1, <2>2, <2>3 DEF BuiltOnce
<1>2. CASE slab # "ready"
  BY <1>2 DEF IInv, IdleInv, BuiltOnce
<1>3. QED
  BY <1>1, <1>2

(* The invariant holds throughout.                                         *)
THEOREM SlabInvariant == SlabSpec => []IInv
<1>1. QED
  BY InitIInv, Inductive, PTL DEF SlabSpec

(* No object is lost or handed out twice, whatever the order in which the  *)
(* user gives objects back.                                                *)
THEOREM SlabLosesNothing == SlabSpec => []NothingLost
<1>1. IInv => NothingLost
  BY DEF IInv, StackInv, NothingLost
<1>2. QED
  BY <1>1, SlabInvariant, PTL

(* Objects are constructed before they are handed out, once, and the       *)
(* cleanup destructs exactly those.                                        *)
THEOREM SlabBuildsOnce == SlabSpec => []BuiltOnce
BY InvariantBuiltOnce, SlabInvariant, PTL

(* Freed objects are used again before another one is constructed.         *)
THEOREM SlabIsLazy == SlabSpec => []LazyConstruction
<1>1. IInv => LazyConstruction
  BY DEF IInv, StackInv, LazyConstruction
<1>2. QED
  BY <1>1, SlabInvariant, PTL

-----------------------------------------------------------------------------
(* Refinement.                                                             *)
LEMMA CacheInit == FreshSlab => Cache!Init
BY DEF FreshSlab, Cache!Init

(* slab_init does nothing the user sees: he has no object then.            *)
LEMMA CacheSlabInit ==
  ASSUME SlabInit
  PROVE  held' = held /\ built' = built
BY DEF SlabInit

LEMMA CacheAlloc ==
  ASSUME IInv, BuiltOnce', SlabAlloc
  PROVE  \/ held' = held /\ built' = built
         \/ \E o \in Objects : Cache!Alloc(o)
<1>1. CASE current = 0
  BY <1>1 DEF SlabAlloc, slabVars
<1>2. CASE current # 0
  <2> DEFINE object == stack[current - 1]
  <2>1. /\ slab = "ready" /\ held' = held \cup {object}
        /\ built' = IF const_bottom = current - 1
                    THEN [built EXCEPT ![object] = @ + 1] ELSE built
    BY <1>2 DEF SlabAlloc
  <2>2. SlabTypes /\ NothingLost
    BY <2>1 DEF IInv, StackInv
  <2>3. object \in Objects \ held
    <3>1. current - 1 \in Objects /\ current - 1 \in 0..(current - 1)
      BY <1>2, <2>2, CountType DEF SlabTypes, Objects
    <3>2. object \in Free
      BY <3>1 DEF Free
    <3>3. QED
      BY <2>1, <2>2, <3>1, <3>2 DEF SlabTypes, NothingLost
  <2>4. built'[object] = 1
    BY <2>1 DEF BuiltOnce
  <2>5. \A o \in Objects \ {object} : built'[o] = built[o]
    BY <2>1, <2>2 DEF SlabTypes
  <2>6. Cache!Alloc(object)
    BY <2>1, <2>3, <2>4, <2>5 DEF Cache!Alloc
  <2>7. QED
    BY <2>3, <2>6 DEF Cache!Alloc
<1>3. QED
  BY <1>1, <1>2

(* Every step of the slab is a step of the cache or changes nothing.       *)
LEMMA CacheStep ==
  ASSUME IInv, IInv', BuiltOnce', [SlabNext]_slabVars
  PROVE  [Cache!Next]_<<held, {o \in Objects : built[o] = 1}>>
<1>1. CASE SlabInit
  BY <1>1, CacheSlabInit
<1>2. CASE SlabAlloc
  BY <1>2, CacheAlloc DEF Cache!Next
<1>3. CASE SlabCleanup
  <2>1. held' = {} /\ slab' = "clean"
    BY <1>3 DEF SlabCleanup
  <2>2. \A o \in Objects : built'[o] = 0
    BY <2>1 DEF IInv, IdleInv
  <2>3. Cache!Cleanup
    BY <2>1, <2>2 DEF Cache!Cleanup
  <2>4. QED
    BY <2>3 DEF Cache!Next
<1>4. ASSUME NEW x \in Objects, SlabFree(x)
      PROVE  Cache!Free(x)
  BY <1>4 DEF SlabFree, Cache!Free
<1>5. CASE UNCHANGED slabVars
  BY <1>5 DEF slabVars
<1>6. QED
  BY <1>1, <1>2, <1>3, <1>4, <1>5 DEF SlabNext, Cache!Next

(* The slab implements the cache, for every number of objects.             *)
THEOREM SlabImplementsCache == SlabSpec => ImplementsCache
<1>1. IInv /\ IInv' /\ BuiltOnce' /\ [SlabNext]_slabVars
         => [Cache!Next]_<<held, {o \in Objects : built[o] = 1}>>
  BY CacheStep
<1>2. QED
  BY <1>1, CacheInit, SlabInvariant, SlabBuildsOnce, PTL
     DEF SlabSpec, ImplementsCache, Cache!Spec

-----------------------------------------------------------------------------
(* The heap: the headers are at all times one chain through the whole      *)
(* heap, and no operation but heap_free makes a chunk free.                *)

(* The shape of the memory.                                                *)

(* Where the chunk behind c begins.                                        *)
Behind(m, c) == c + 1 + m[c].size

(* The headers of m are those at C.  Each leads to the next one and is led *)
(* to by it; no header lies in another chunk; elsewhere is none.           *)
Chain(m, C) ==
  /\ m \in [Units -> Header \union {Joined, Data}]
  /\ C \subseteq Units /\ 0 \in C
  /\ \A u \in Units \ C : m[u] \in {Joined, Data}
  /\ \A c \in C : m[c] \in Header
  /\ \A c \in C : m[c].last => c + m[c].size = HeapSize - 1
  /\ \A c \in C : ~m[c].last =>
       Behind(m, c) \in C /\ m[Behind(m, c)].size_prev = m[c].size
  /\ m[0].size_prev = 0
  /\ \A c \in C \ {0} : \E p \in C : ~m[p].last /\ Behind(m, p) = c
  /\ \A c, d \in C : c < d => c + m[c].size < d

(* Of two neighbours at least one is in use, where the first is not r.     *)
PartedBut(m, C, r) ==
  \A c \in C \ {r} : ~m[c].last /\ ~m[c].taken => m[Behind(m, c)].taken

Parted(m, C) ==
  \A c \in C : ~m[c].last /\ ~m[c].taken => m[Behind(m, c)].taken

-----------------------------------------------------------------------------
(* A set of numbers has a least one.                                       *)
LEMMA LeastNumber ==
  ASSUME NEW T, T \subseteq Nat, T # {}
  PROVE  \E n \in T : \A m \in T : n <= m
<1> DEFINE R == OpToRel(<, Nat)
<1>1. IsWellFoundedOn(R, Nat)
  BY NatLessThanWellFounded
<1>2. \A a, b \in Nat : <<a, b>> \in R <=> a < b
  BY DEF OpToRel
<1> HIDE DEF R
<1>3. PICK n \in T : \A m \in T : ~ (<<m, n>> \in R)
  BY <1>1, WFMin
<1>4. ASSUME NEW m \in T PROVE n <= m
  <2>1. n \in Nat /\ m \in Nat /\ <<m, n>> \notin R
    BY <1>3
  <2>2. ~ (m < n)
    BY <1>2, <2>1
  <2> QED BY <2>1, <2>2
<1> QED BY <1>3, <1>4

(* What a header holds.                                                    *)
LEMMA HeaderFields ==
  ASSUME HeapAssumption, NEW h \in Header
  PROVE  /\ h.size \in Nat /\ h.size <= HeapSize /\ h.size \in Int
         /\ h.size_prev \in Nat /\ h.size_prev <= HeapSize
         /\ h.taken \in BOOLEAN /\ h.last \in BOOLEAN
BY DEF HeapAssumption, Header

(* Chunks are where they are in the chain, and end before it does.         *)
LEMMA ChunkEnds ==
  ASSUME HeapAssumption, NEW m, NEW C, Chain(m, C), NEW c \in C
  PROVE  /\ c \in Int /\ 0 <= c /\ c < HeapSize /\ HeapSize \in Nat
         /\ m[c] \in Header /\ m[c].size \in Nat /\ m[c].last \in BOOLEAN
         /\ m[c].taken \in BOOLEAN /\ m[c].size_prev \in Nat
         /\ c + m[c].size < HeapSize
         /\ ~m[c].last => /\ Behind(m, c) \in C
                          /\ Behind(m, c) = c + 1 + m[c].size
                          /\ m[Behind(m, c)].size_prev = m[c].size
                          /\ Behind(m, c) < HeapSize
<1>1. HeapSize \in Nat /\ c \in Units /\ C \subseteq Units
  BY DEF HeapAssumption, Chain
<1>2. m[c] \in Header
  BY DEF Chain
<1>3. /\ m[c].size \in Nat /\ m[c].last \in BOOLEAN
      /\ m[c].taken \in BOOLEAN /\ m[c].size_prev \in Nat
  BY <1>2, HeaderFields
<1>4. ~m[c].last => Behind(m, c) \in C /\ m[Behind(m, c)].size_prev = m[c].size
  BY DEF Chain
<1>5. m[c].last => c + m[c].size = HeapSize - 1
  BY DEF Chain
<1>6. Behind(m, c) = c + 1 + m[c].size
  BY DEF Behind
<1>7. c \in Int /\ 0 <= c /\ c < HeapSize
  BY <1>1 DEF Units
<1>8. ~m[c].last => Behind(m, c) < HeapSize
  <2>1. ~m[c].last => Behind(m, c) \in Units
    BY <1>1, <1>4
  <2>2. \A u \in Units : u < HeapSize
    BY <1>1 DEF Units
  <2> QED BY <2>1, <2>2
<1>9. c + m[c].size < HeapSize
  BY <1>1, <1>3, <1>5, <1>6, <1>7, <1>8
<1> QED BY <1>1, <1>2, <1>3, <1>4, <1>6, <1>7, <1>8, <1>9

(* Chunks do not overlap, and a chunk is behind one other at most.         *)
LEMMA ChunksApart ==
  ASSUME HeapAssumption, NEW m, NEW C, Chain(m, C), NEW c \in C, NEW d \in C
  PROVE  /\ c < d => c + m[c].size < d
         /\ ~m[c].last /\ c < d => Behind(m, c) <= d
         /\ ~m[c].last /\ ~m[d].last /\ Behind(m, c) = Behind(m, d) => c = d
<1>1. \A a, b \in C : a < b => a + m[a].size < b
  BY DEF Chain
<1>2. /\ c \in Int /\ m[c].size \in Nat /\ Behind(m, c) = c + 1 + m[c].size
      /\ d \in Int /\ m[d].size \in Nat /\ Behind(m, d) = d + 1 + m[d].size
  BY ChunkEnds DEF Behind
<1>3. /\ c < d => c + m[c].size < d
      /\ d < c => d + m[d].size < c
  BY <1>1
<1> QED BY <1>2, <1>3

(* heap_marker_next and heap_marker_prev.                                  *)
LEMMA Neighbours ==
  ASSUME HeapAssumption, NEW m, NEW C, Chain(m, C), NEW c \in C
  PROVE  /\ MarkerNext(m, c) = IF m[c].last THEN None ELSE Behind(m, c)
         /\ None \notin Units
         /\ c = 0 => MarkerPrev(m, c) = None
         /\ c # 0 => /\ MarkerPrev(m, c) \in C
                     /\ ~m[MarkerPrev(m, c)].last
                     /\ Behind(m, MarkerPrev(m, c)) = c
                     /\ m[MarkerPrev(m, c)].size = m[c].size_prev
<1>1. HeapSize \in Nat /\ C \subseteq Units
  BY DEF HeapAssumption, Chain
<1>2. MarkerNext(m, c) = IF m[c].last THEN None ELSE Behind(m, c)
  <2>1. ~m[c].last => Behind(m, c) \in Units
    BY <1>1, ChunkEnds
  <2>2. m[c].last \in BOOLEAN
    BY ChunkEnds
  <2> QED BY <2>1, <2>2 DEF MarkerNext, Behind
<1>3. None \notin Units
  BY DEF None, Units
<1>4. ASSUME c = 0 PROVE MarkerPrev(m, c) = None
  <2>1. m[0].size_prev = 0
    BY DEF Chain
  <2>2. 0 - 1 - m[0].size_prev = -1
    BY <2>1
  <2> QED BY <1>3, <1>4, <2>2 DEF MarkerPrev, None
<1>5. ASSUME c # 0
      PROVE  /\ MarkerPrev(m, c) \in C
             /\ ~m[MarkerPrev(m, c)].last
             /\ Behind(m, MarkerPrev(m, c)) = c
             /\ m[MarkerPrev(m, c)].size = m[c].size_prev
  <2>1. PICK p \in C : ~m[p].last /\ Behind(m, p) = c
    BY <1>5 DEF Chain
  <2>2. /\ p \in Int /\ m[p].size \in Nat /\ Behind(m, p) = p + 1 + m[p].size
        /\ m[c].size_prev = m[p].size
    BY <2>1, ChunkEnds
  <2>3. c - 1 - m[c].size_prev = p
    BY <2>1, <2>2
  <2>4. p \in Units
    BY <1>1
  <2>5. MarkerPrev(m, c) = p
    BY <2>3, <2>4 DEF MarkerPrev
  <2> QED BY <2>1, <2>2, <2>5
<1> QED BY <1>2, <1>3, <1>4, <1>5

(* The walk of heap_alloc: whatever function answers its recursion, what   *)
(* it finds from c on are the chunks from c on.                            *)
Reached(m, c, F) ==
  {c} \union (IF MarkerNext(m, c) = None THEN {} ELSE F[MarkerNext(m, c)])

LEMMA WalkFromChunk ==
  ASSUME HeapAssumption, NEW m, NEW C, Chain(m, C), NEW F,
         \A u \in Units : F[u] = Reached(m, u, F)
  PROVE  F[0] = C
<1> DEFINE Onward(c) == {d \in C : c <= d}
           T == {k \in Nat : \E c \in C : k = HeapSize - c /\ F[c] # Onward(c)}
<1>0. HeapSize \in Nat /\ C \subseteq Units /\ 0 \in C
  BY DEF HeapAssumption, Chain
<1>1. ASSUME NEW c \in C,
             \A d \in C : c < d => F[d] = Onward(d)
      PROVE  F[c] = Onward(c)
  <2>1. F[c] = Reached(m, c, F)
    BY <1>0
  <2>2. CASE m[c].last
    <3>1. F[c] = {c}
      BY <2>1, <2>2, Neighbours DEF Reached
    <3>2. c + m[c].size = HeapSize - 1 /\ c \in Int /\ m[c].size \in Nat
      BY <2>2, ChunkEnds DEF Chain
    <3>3. \A d \in C : c <= d <=> d = c
      BY <1>0, <3>2, ChunksApart, ChunkEnds
    <3> QED BY <3>1, <3>2, <3>3
  <2>3. CASE ~m[c].last
    <3> DEFINE n == Behind(m, c)
    <3>1. n \in C /\ c < n /\ c \in Int /\ n \in Int
      BY <2>3, ChunkEnds
    <3>2. F[n] = Onward(n)
      BY <1>1, <3>1
    <3>3. F[c] = {c} \union F[n]
      <4>1. MarkerNext(m, c) = n /\ n # None
        BY <1>0, <2>3, <3>1, Neighbours
      <4> QED BY <2>1, <4>1 DEF Reached
    <3>4. \A d \in C : d \in Int /\ (c < d => n <= d)
      BY <2>3, ChunksApart, ChunkEnds
    <3> HIDE DEF n
    <3>5. \A d \in C : c <= d <=> d = c \/ n <= d
      BY <3>1, <3>4
    <3> QED BY <3>2, <3>3, <3>5
  <2>4. m[c].last \in BOOLEAN
    BY ChunkEnds
  <2> QED BY <2>2, <2>3, <2>4
<1>2. T = {}
  <2>1. SUFFICES ASSUME T # {} PROVE FALSE
    OBVIOUS
  <2>2. PICK k \in T : \A j \in T : k <= j
    BY <2>1, LeastNumber
  <2>3. PICK c \in C : k = HeapSize - c /\ F[c] # Onward(c)
    BY <2>2
  <2>4. ASSUME NEW d \in C, c < d PROVE F[d] = Onward(d)
    <3>1. HeapSize - d \in Nat /\ HeapSize - d < k /\ k \in Nat
      BY <2>2, <2>3, <2>4, ChunkEnds
    <3>2. HeapSize - d \notin T
      BY <2>2, <3>1
    <3> QED BY <3>1, <3>2
  <2> QED BY <1>1, <2>3, <2>4
<1>3. F[0] = Onward(0)
  <2>1. HeapSize - 0 \in Nat
    BY <1>0
  <2> QED BY <1>0, <1>2, <2>1
<1>4. \A d \in C : 0 <= d
  BY ChunkEnds
<1> QED BY <1>3, <1>4

(* The chunks are those of the chain.                                      *)
LEMMA ChunksOfChain ==
  ASSUME HeapAssumption, NEW m, NEW C, Chain(m, C)
  PROVE  Chunks(m) = C
<1> DEFINE Walks(f) == f = [u \in Units |-> Reached(m, u, f)]
           F == CHOOSE f : Walks(f)
           G == [u \in Units |-> IF u \in C THEN {d \in C : u <= d} ELSE {u}]
<1>0. HeapSize \in Nat /\ C \subseteq Units /\ 0 \in C
  BY DEF HeapAssumption, Chain
<1>1. Chunks(m) = F[0]
  BY DEF Chunks, Reached
<1>2. ASSUME NEW u \in Units PROVE G[u] = Reached(m, u, G)
  <2>1. CASE u \notin C
    <3>1. m[u] \in {Joined, Data}
      BY <2>1 DEF Chain
    <3>2. m[u].last = TRUE
      BY <3>1 DEF Joined, Data
    <3>3. MarkerNext(m, u) = None
      BY <3>2 DEF MarkerNext
    <3> QED BY <2>1, <3>3 DEF Reached
  <2>2. CASE u \in C /\ m[u].last
    <3>1. MarkerNext(m, u) = None
      BY <2>2, Neighbours
    <3>2. u + m[u].size = HeapSize - 1 /\ u \in Int /\ m[u].size \in Nat
      BY <2>2, ChunkEnds DEF Chain
    <3>3. \A d \in C : u <= d <=> d = u
      BY <1>0, <2>2, <3>2, ChunksApart, ChunkEnds
    <3> QED BY <2>2, <3>1, <3>3 DEF Reached
  <2>3. CASE u \in C /\ ~m[u].last
    <3> DEFINE n == Behind(m, u)
    <3>1. n \in C /\ u < n /\ u \in Int /\ n \in Int
      BY <2>3, ChunkEnds
    <3>2. MarkerNext(m, u) = n /\ n # None /\ n \in Units
      BY <1>0, <2>3, <3>1, Neighbours
    <3>3. \A d \in C : d \in Int /\ (u < d => n <= d)
      BY <2>3, ChunksApart, ChunkEnds
    <3> HIDE DEF n
    <3>4. \A d \in C : u <= d <=> d = u \/ n <= d
      BY <3>1, <3>3
    <3>5. G[u] = {d \in C : u <= d} /\ G[n] = {d \in C : n <= d}
      BY <2>3, <3>1, <3>2
    <3> HIDE DEF G
    <3>6. Reached(m, u, G) = {u} \union G[n]
      BY <3>2 DEF Reached
    <3> QED BY <2>3, <3>4, <3>5, <3>6
  <2> QED BY <2>1, <2>2, <2>3
<1>3. Walks(G)
  <2> DEFINE W == [u \in Units |-> Reached(m, u, G)]
  <2>1. \A u \in Units : G[u] = W[u]
    BY <1>2
  <2>2. G = [u \in Units |-> G[u]] /\ W = [u \in Units |-> W[u]]
    OBVIOUS
  <2> HIDE DEF G
  <2> QED BY <2>1, <2>2
<1> HIDE DEF G
<1>4. Walks(F)
  <2> HIDE DEF Walks
  <2> QED BY <1>3
<1>5. \A u \in Units : F[u] = Reached(m, u, F)
  <2> HIDE DEF F
  <2> QED BY <1>4
<1> HIDE DEF F
<1> QED BY <1>1, <1>5, WalkFromChunk

-----------------------------------------------------------------------------
(* What the operations do to the chain.                                    *)

(* Two chains that differ in nothing that links them.                      *)
SameLinks(m, n, C) ==
  \A c \in C : /\ n[c].size = m[c].size /\ n[c].size_prev = m[c].size_prev
               /\ n[c].last = m[c].last

LEMMA SameLinksChain ==
  ASSUME HeapAssumption, NEW m, NEW n, NEW C, Chain(m, C), SameLinks(m, n, C),
         n \in [Units -> Header \union {Joined, Data}],
         \A u \in Units \ C : n[u] \in {Joined, Data},
         \A c \in C : n[c] \in Header
  PROVE  Chain(n, C) /\ \A c \in C : Behind(n, c) = Behind(m, c)
<1>1. \A c \in C : Behind(n, c) = Behind(m, c)
  BY DEF SameLinks, Behind
<1>2. \A c \in C : n[c].last => c + n[c].size = HeapSize - 1
  BY DEF SameLinks, Chain
<1>3. \A c \in C : ~n[c].last =>
        Behind(n, c) \in C /\ n[Behind(n, c)].size_prev = n[c].size
  BY <1>1 DEF SameLinks, Chain
<1>4. n[0].size_prev = 0
  BY DEF SameLinks, Chain
<1>5. \A c \in C \ {0} : \E p \in C : ~n[p].last /\ Behind(n, p) = c
  BY <1>1 DEF SameLinks, Chain
<1>6. \A c, d \in C : c < d => c + n[c].size < d
  BY DEF SameLinks, Chain
<1> QED BY <1>1, <1>2, <1>3, <1>4, <1>5, <1>6 DEF Chain

(* set_taken, clear_taken.                                                 *)
Mark(m, c, v) == [m EXCEPT ![c].taken = v]

LEMMA Marked ==
  ASSUME HeapAssumption, NEW m, NEW C, Chain(m, C), NEW c \in C,
         NEW v \in BOOLEAN
  PROVE  LET n == Mark(m, c, v)
         IN  /\ Chain(n, C) /\ SameLinks(m, n, C)
             /\ \A d \in C : Behind(n, d) = Behind(m, d)
             /\ n[c].taken = v
             /\ \A u \in Units \ {c} : n[u] = m[u]
<1> DEFINE n == Mark(m, c, v)
<1>1. /\ m \in [Units -> Header \union {Joined, Data}] /\ c \in Units
      /\ C \subseteq Units
  BY DEF Chain
<1>2. m[c] \in Header
  BY DEF Chain
<1>3. /\ n \in [Units -> Header \union {Joined, Data}]
      /\ n[c] = [m[c] EXCEPT !.taken = v]
      /\ \A u \in Units \ {c} : n[u] = m[u]
  <2>1. [m[c] EXCEPT !.taken = v] \in Header
    BY <1>2 DEF Header
  <2> QED BY <1>1, <2>1 DEF Mark
<1> HIDE DEF n
<1>4. /\ n[c] \in Header /\ n[c].taken = v /\ n[c].size = m[c].size
      /\ n[c].size_prev = m[c].size_prev /\ n[c].last = m[c].last
  BY <1>2, <1>3 DEF Header
<1>5. SameLinks(m, n, C)
  BY <1>1, <1>3, <1>4 DEF SameLinks
<1>6. \A d \in C : n[d] \in Header
  BY <1>1, <1>3, <1>4 DEF Chain
<1>7. \A u \in Units \ C : n[u] \in {Joined, Data}
  BY <1>3 DEF Chain
<1>8. Chain(n, C) /\ \A d \in C : Behind(n, d) = Behind(m, d)
  BY <1>3, <1>5, <1>6, <1>7, SameLinksChain
<1> QED BY <1>3, <1>4, <1>5, <1>8 DEF n

(* heap_join: b, behind a and both free, becomes part of a.                *)
JoinedWith(m, C, a, b, n) ==
  /\ Chain(n, C \ {b})
  /\ n[b] = Joined
  /\ \A u \in Units \ C : n[u] = m[u]
  /\ \A d \in C \ {b} : n[d].taken = m[d].taken
  /\ \A d \in C \ {a, b} :
       /\ n[d].size = m[d].size /\ n[d].last = m[d].last
       /\ Behind(n, d) = Behind(m, d)
  /\ n[a].last = m[b].last
  /\ Behind(n, a) = Behind(m, b)

LEMMA JoinChain ==
  ASSUME HeapAssumption, NEW m, NEW C, Chain(m, C), NEW a \in C, ~m[a].last,
         NEW b, b = Behind(m, a), ~m[a].taken, ~m[b].taken
  PROVE  b \in C /\ JoinedWith(m, C, a, b, Join(m, a, b))
<1> DEFINE n == Join(m, a, b)
           e == Behind(m, b)
           sum == m[a].size + m[b].size + 1
           D == C \ {b}
<1>1. /\ HeapSize \in Nat /\ C \subseteq Units /\ 0 \in C
      /\ m \in [Units -> Header \union {Joined, Data}]
  BY DEF Chain, HeapAssumption
<1>2. /\ b \in C /\ a \in Int /\ b \in Int /\ 0 <= a /\ a < b
      /\ b = a + 1 + m[a].size
      /\ m[a].size \in Nat /\ m[b].size \in Nat
      /\ m[b].size_prev = m[a].size
      /\ m[a] \in Header /\ m[b] \in Header
      /\ m[b].last \in BOOLEAN
  BY ChunkEnds
<1>3. /\ e = b + 1 + m[b].size
      /\ m[b].last => b + m[b].size = HeapSize - 1
      /\ ~m[b].last => e \in C /\ m[e].size_prev = m[b].size
  BY <1>2, ChunkEnds DEF Behind, Chain
<1>4. sum \in 0..HeapSize /\ a + 1 + sum = e
  BY <1>2, <1>3, ChunkEnds
<1> DEFINE longer == [m EXCEPT ![a].size = @ + m[b].size + 1,
                               ![a].last = @ \/ m[b].last]
<1>5. /\ longer \in [Units -> Header \union {Joined, Data}]
      /\ longer[a].size = sum /\ longer[a].last = m[b].last
      /\ longer[a].taken = m[a].taken /\ longer[a].size_prev = m[a].size_prev
      /\ longer[a] \in Header
      /\ \A u \in Units \ {a} : longer[u] = m[u]
  <2> DEFINE h == [m[a] EXCEPT !.size = sum, !.last = m[a].last \/ m[b].last]
  <2>1. h \in Header /\ h.size = sum /\ h.last = m[b].last
        /\ h.taken = m[a].taken /\ h.size_prev = m[a].size_prev
    <3> HIDE DEF sum
    <3> QED BY <1>2, <1>4 DEF Header
  <2>2. longer = [m EXCEPT ![a] = h]
    BY <1>1, <1>2
  <2> HIDE DEF h, longer
  <2> QED BY <1>1, <2>1, <2>2
<1>6. n = [TellNext(longer, a) EXCEPT ![b] = Joined]
  <2>1. MarkerNext(m, a) = b
    BY Neighbours
  <2> QED BY <2>1 DEF Join
<1> HIDE DEF longer, n, sum, e
<1>7. MarkerNext(longer, a) = IF m[b].last THEN None ELSE e
  <2>1. ~m[b].last => e \in Units
    BY <1>1, <1>3
  <2> QED BY <1>2, <1>4, <1>5, <2>1 DEF MarkerNext
<1>8. /\ a # b /\ (~m[b].last => e # a /\ e # b /\ e # None)
      /\ a \in Units /\ b \in Units
  <2>1. a # b /\ a \in Units /\ b \in Units
    BY <1>1, <1>2
  <2>2. b < e /\ e \in Int
    BY <1>2, <1>3
  <2>3. e # a /\ e # b /\ e # None
    BY <1>2, <2>2 DEF None
  <2> QED BY <2>1, <2>3
<1>9. /\ n \in [Units -> Header \union {Joined, Data}]
      /\ n[b] = Joined
      /\ n[a] \in Header /\ n[a].size = sum /\ n[a].last = m[b].last
      /\ n[a].taken = m[a].taken /\ n[a].size_prev = m[a].size_prev
      /\ ~m[b].last => /\ n[e] \in Header /\ n[e].size_prev = sum
                       /\ n[e].size = m[e].size /\ n[e].last = m[e].last
                       /\ n[e].taken = m[e].taken
      /\ \A u \in Units \ {a, b} : (u = e /\ ~m[b].last) \/ n[u] = m[u]
  <2>1. CASE m[b].last
    <3>1. n = [longer EXCEPT ![b] = Joined]
      BY <1>6, <1>7, <2>1 DEF TellNext
    <3> QED BY <1>5, <1>8, <2>1, <3>1
  <2>2. CASE ~m[b].last
    <3> DEFINE h == [m[e] EXCEPT !.size_prev = sum]
    <3>1. e \in Units /\ m[e] \in Header /\ longer[e] = m[e]
      BY <1>1, <1>3, <1>5, <1>8, <2>2, ChunkEnds
    <3>2. TellNext(longer, a) = [longer EXCEPT ![e] = h]
      BY <1>5, <1>7, <1>8, <2>2, <3>1 DEF TellNext
    <3>3. h \in Header /\ h.size_prev = sum /\ h.size = m[e].size
          /\ h.last = m[e].last /\ h.taken = m[e].taken
      BY <1>4, <3>1 DEF Header
    <3>4. n = [[longer EXCEPT ![e] = h] EXCEPT ![b] = Joined]
      BY <1>6, <3>2
    <3> HIDE DEF h
    <3> QED BY <1>5, <1>8, <2>2, <3>1, <3>3, <3>4
  <2> QED BY <1>2, <2>1, <2>2
<1>9a. a + n[a].size = b + m[b].size
  <2>1. a + 1 + sum = b + 1 + m[b].size
    BY <1>3, <1>4
  <2>2. a \in Int /\ b \in Int /\ m[b].size \in Nat /\ sum \in Int
    BY <1>2, <1>4
  <2> DEFINE k == m[b].size
  <2>3. a + 1 + sum = b + 1 + k /\ a \in Int /\ b \in Int /\ k \in Int /\ sum \in Int
    BY <2>1, <2>2
  <2> HIDE DEF k, sum
  <2>4. a + sum = b + k
    BY <2>3
  <2> USE DEF k
  <2> QED BY <1>9, <2>4
<1>10. ASSUME NEW d \in D
       PROVE  d = a \/ (d = e /\ ~m[b].last) \/ n[d] = m[d]
  <2>1. d \in Units /\ d # b
    BY <1>1
  <2>2. CASE d = a
    BY <2>2
  <2>3. CASE d # a
    <3>1. d \in Units \ {a, b}
      BY <2>1, <2>3
    <3> QED BY <1>9, <3>1
  <2> QED BY <2>2, <2>3
<1>11. \A d \in D : n[d] \in Header /\ n[d].taken = m[d].taken
  <2>1. \A d \in D : m[d] \in Header
    BY DEF Chain
  <2> QED BY <1>9, <1>10, <2>1
<1>12. \A d \in D \ {a} : /\ n[d].size = m[d].size /\ n[d].last = m[d].last
                          /\ Behind(n, d) = Behind(m, d)
  BY <1>9, <1>10 DEF Behind
<1>13. n[a].last = m[b].last /\ Behind(n, a) = e
  BY <1>4, <1>9 DEF Behind
<1>14. Chain(n, D)
  <2>0. 0 # b /\ a # b
    BY <1>2
  <2>1. D \subseteq Units /\ 0 \in D /\ a \in D
    BY <1>1, <2>0
  <2>2. \A u \in Units \ D : n[u] \in {Joined, Data}
    <3>1. \A u \in Units \ C : u # a /\ u # b /\ ~(u = e /\ ~m[b].last)
      BY <1>2, <1>3
    <3> QED BY <1>9, <3>1 DEF Chain
  <2>3. \A d \in D : n[d].last => d + n[d].size = HeapSize - 1
    <3>1. n[a].last => a + n[a].size = HeapSize - 1
      BY <1>3, <1>9, <1>9a
    <3>2. \A d \in D \ {a} : n[d].last => d + n[d].size = HeapSize - 1
      BY <1>12 DEF Chain
    <3> QED BY <3>1, <3>2
  <2>4. ASSUME NEW d \in D, ~n[d].last
        PROVE  Behind(n, d) \in D /\ n[Behind(n, d)].size_prev = n[d].size
    <3>1. CASE d = a
      BY <1>3, <1>8, <1>9, <1>13, <2>4, <3>1
    <3>2. CASE d # a
      <4> DEFINE f == Behind(m, d)
      <4>1. ~m[d].last /\ Behind(n, d) = f /\ n[d].size = m[d].size
        BY <1>12, <2>4, <3>2
      <4>2. f \in C /\ m[f].size_prev = m[d].size
        BY <4>1 DEF Chain
      <4>3. f # b
        BY <1>2, <3>2, <4>1, ChunksApart
      <4>4. f # e \/ m[b].last
        BY <1>2, <1>3, <4>1, ChunksApart DEF e
      <4> HIDE DEF f
      <4>5. n[f].size_prev = m[f].size_prev
        BY <1>9, <1>10, <4>2, <4>3, <4>4
      <4> QED BY <4>1, <4>2, <4>3, <4>5
    <3> QED BY <3>1, <3>2
  <2>5. n[0].size_prev = 0
    <3>1. e # 0 \/ m[b].last
      BY <1>2, <1>3
    <3>2. m[0].size_prev = 0
      BY DEF Chain
    <3> QED BY <1>9, <1>10, <2>1, <3>1, <3>2
  <2>6. ASSUME NEW d \in D \ {0}
        PROVE  \E p \in D : ~n[p].last /\ Behind(n, p) = d
    <3>1. PICK p \in C : ~m[p].last /\ Behind(m, p) = d
      BY DEF Chain
    <3>2. p # a
      BY <3>1
    <3>3. CASE p = b
      BY <1>13, <2>1, <3>1, <3>3 DEF e
    <3>4. CASE p # b
      BY <1>12, <3>1, <3>2, <3>4
    <3> QED BY <3>3, <3>4
  <2>7. ASSUME NEW c \in D, NEW d \in D, c < d PROVE c + n[c].size < d
    <3>1. c + m[c].size < d
      BY <2>7 DEF Chain
    <3>2. CASE c = a
      <4>1. b < d => b + m[b].size < d
        BY <1>2 DEF Chain
      <4>2. d \in Int /\ d # b
        BY ChunkEnds
      <4>3. b < d
        BY <1>2, <3>1, <3>2, <4>2
      <4> QED BY <1>9a, <3>2, <4>1, <4>3
    <3>3. CASE c # a
      BY <1>12, <3>1, <3>3
    <3> QED BY <3>2, <3>3
  <2> HIDE DEF D
  <2> QED BY <1>9, <1>11, <2>1, <2>2, <2>3, <2>4, <2>5, <2>6, <2>7 DEF Chain
<1>15. \A u \in Units \ C : n[u] = m[u]
  BY <1>2, <1>3, <1>9
<1> QED BY <1>2, <1>9, <1>11, <1>12, <1>13, <1>14, <1>15 DEF JoinedWith, n, e

(* heap_split: the end of a chunk, a header and the rest of its memory,    *)
(* becomes a chunk of its own unless it is too short.                      *)
SplitAt(m, C, c, size, n, D) ==
  /\ Chain(n, D)
  /\ C \subseteq D /\ D \cap (c..(c + size)) = {c}
  /\ \A d \in D \ C : ~n[d].taken /\ (n[d].last \/ Behind(n, d) \in C \ {c})
  /\ n[c].size \in Nat /\ n[c].size >= size /\ n[c].taken = m[c].taken
  /\ \A u \in Units \ D : n[u] = m[u]
  /\ \A d \in C : n[d].taken = m[d].taken
  /\ \A d \in C \ {c} :
       /\ n[d].size = m[d].size /\ n[d].last = m[d].last
       /\ Behind(n, d) = Behind(m, d)
  /\ \A d \in D \ C : ~n[d].last => ~m[c].last /\ Behind(n, d) = Behind(m, c)

LEMMA SplitChain ==
  ASSUME HeapAssumption, NEW m, NEW C, Chain(m, C), NEW c \in C,
         NEW size \in Nat, size <= m[c].size, ~m[c].taken
  PROVE  \E D : SplitAt(m, C, c, size, Split(m, c, size), D)
<1> DEFINE n == Split(m, c, size)
           rest == c + 1 + size
           remain == m[c].size - size
           e == Behind(m, c)
           D == C \union {rest}
<1>1. /\ HeapSize \in Nat /\ C \subseteq Units /\ 0 \in C
      /\ m \in [Units -> Header \union {Joined, Data}]
  BY DEF Chain, HeapAssumption
<1>2. /\ c \in Int /\ 0 <= c /\ m[c].size \in Nat /\ m[c] \in Header
      /\ c + m[c].size < HeapSize /\ m[c].last \in BOOLEAN
      /\ e = c + 1 + m[c].size
      /\ ~m[c].last => e \in C /\ m[e].size_prev = m[c].size /\ e \in Units
      /\ m[c].last => c + m[c].size = HeapSize - 1
  BY <1>1, ChunkEnds DEF Behind, Chain
<1>3. \A d \in C : /\ d \in Int
                   /\ c < d => c + m[c].size < d
                   /\ d < c => d + m[d].size < c /\ m[d].size \in Nat
  BY ChunksApart, ChunkEnds
<1> HIDE DEF e
<1>4. CASE remain <= 1
  <2>1. n = m
    BY <1>4 DEF Split
  <2>2. \A d \in C : d \in c..(c + size) <=> d = c
    BY <1>2, <1>3
  <2>3. C \cap (c..(c + size)) = {c}
    BY <2>2
  <2> HIDE DEF n
  <2>4. SplitAt(m, C, c, size, n, C)
    BY <1>2, <2>1, <2>3 DEF SplitAt
  <2> QED BY <2>4 DEF n
<1>5. CASE ~ (remain <= 1)
  <2>1. /\ rest \in Int /\ rest \in Units /\ c < rest /\ rest < c + m[c].size
        /\ remain - 1 \in 0..HeapSize /\ size \in 0..HeapSize
        /\ rest + 1 + (remain - 1) = e
    <3>1. /\ HeapSize \in Nat /\ c \in Int /\ 0 <= c /\ m[c].size \in Nat
          /\ c + m[c].size < HeapSize /\ 1 < remain
          /\ e = c + 1 + m[c].size
      BY <1>1, <1>2, <1>5
    <3>2. rest \in Int /\ c < rest /\ rest < c + m[c].size
      BY <3>1
    <3>3. rest \in Units
      BY <3>1, <3>2 DEF Units
    <3>4. remain - 1 \in 0..HeapSize /\ size \in 0..HeapSize
      BY <3>1
    <3>5. rest + 1 + (remain - 1) = e
      BY <3>1
    <3> QED BY <3>2, <3>3, <3>4, <3>5
  <2>2. rest \notin C
    <3> HIDE DEF rest, remain
    <3> SUFFICES ASSUME rest \in C PROVE FALSE
      OBVIOUS
    <3>1. c + m[c].size < rest
      BY <1>3, <2>1
    <3>2. rest < c + m[c].size /\ rest \in Int
      BY <2>1
    <3> QED BY <1>2, <3>1, <3>2
  <2> DEFINE left == remain - 1
             h == [m[rest] EXCEPT !.size = left, !.size_prev = size,
                                  !.taken = m[c].taken, !.last = m[c].last]
             k == [m[c] EXCEPT !.size = size, !.last = FALSE]
             both == [m EXCEPT ![rest] = h, ![c] = k]
  <2>3. /\ h \in Header /\ h.size = left /\ h.size_prev = size
        /\ h.taken = m[c].taken /\ h.last = m[c].last
    <3>1. m[rest] \in {Joined, Data}
      BY <2>1, <2>2 DEF Chain
    <3>2. left \in 0..HeapSize /\ size \in 0..HeapSize
          /\ m[c].taken \in BOOLEAN /\ m[c].last \in BOOLEAN
      BY <2>1, ChunkEnds
    <3> HIDE DEF left
    <3> QED BY <3>1, <3>2 DEF Joined, Data, Header
  <2>4. /\ k \in Header /\ k.size = size /\ k.last = FALSE
        /\ k.taken = m[c].taken /\ k.size_prev = m[c].size_prev
    BY <1>2, <2>1 DEF Header
  <2>5. both = [m EXCEPT ![rest] = [@ EXCEPT !.size = remain - 1,
                                             !.size_prev = size,
                                             !.taken = m[c].taken,
                                             !.last = m[c].last],
                         ![c].size = size,
                         ![c].last = FALSE]
    <3> HIDE DEF remain, rest
    <3>1. c # rest /\ c \in Units /\ rest \in Units
      BY <1>1, <2>1, <1>2
    <3> QED BY <1>1, <3>1
  <2>6. n = TellNext(both, rest)
    BY <1>5, <2>5 DEF Split
  <2> HIDE DEF n, h, k, left
  <2>7. /\ both \in [Units -> Header \union {Joined, Data}]
        /\ both[rest] = h /\ both[c] = k
        /\ \A u \in Units \ {rest, c} : both[u] = m[u]
    <3>1. rest # c /\ rest \in Units /\ c \in Units
      BY <1>1, <1>2, <2>1
    <3> HIDE DEF rest
    <3> QED BY <1>1, <2>3, <2>4, <3>1
  <2> HIDE DEF both
  <2>8. MarkerNext(both, rest) = IF m[c].last THEN None ELSE e
    <3>1. rest + 1 + left = e
      BY <2>1 DEF left
    <3> HIDE DEF rest
    <3> QED BY <1>2, <2>3, <2>7, <3>1 DEF MarkerNext
  <2>9. /\ c # rest /\ c \in Units
        /\ ~m[c].last => e # c /\ e # rest /\ e # None /\ e \in Units
    BY <1>1, <1>2, <2>1 DEF None
  <2>10. /\ n \in [Units -> Header \union {Joined, Data}]
         /\ n[rest] = h /\ n[c] = k
         /\ ~m[c].last => /\ n[e] \in Header /\ n[e].size_prev = left
                          /\ n[e].size = m[e].size /\ n[e].last = m[e].last
                          /\ n[e].taken = m[e].taken
         /\ \A u \in Units \ {rest, c} : (u = e /\ ~m[c].last) \/ n[u] = m[u]
    <3> HIDE DEF rest
    <3>1. CASE m[c].last
      <4>1. n = both
        BY <2>6, <2>8, <3>1 DEF TellNext
      <4> QED BY <2>7, <3>1, <4>1
    <3>2. CASE ~m[c].last
      <4> DEFINE g == [m[e] EXCEPT !.size_prev = left]
      <4>1. m[e] \in Header /\ both[e] = m[e]
        BY <1>2, <2>7, <2>9, <3>2 DEF Chain
      <4>2. n = [both EXCEPT ![e] = g]
        BY <2>3, <2>6, <2>7, <2>8, <2>9, <3>2, <4>1 DEF TellNext
      <4>3. left \in 0..HeapSize
        BY <2>1 DEF left
      <4>4. g \in Header /\ g.size_prev = left /\ g.size = m[e].size
            /\ g.last = m[e].last /\ g.taken = m[e].taken
        BY <4>1, <4>3 DEF Header
      <4> HIDE DEF g
      <4> QED BY <2>1, <2>7, <2>9, <3>2, <4>2, <4>4
    <3> QED BY <1>2, <3>1, <3>2
  <2>11. \A d \in C \ {c} : (d = e /\ ~m[c].last) \/ n[d] = m[d]
    BY <1>1, <2>2, <2>10
  <2>12. \A d \in C : n[d] \in Header /\ n[d].taken = m[d].taken
    <3>1. \A d \in C : m[d] \in Header
      BY DEF Chain
    <3> QED BY <2>4, <2>10, <2>11, <3>1
  <2>13. \A d \in C \ {c} : /\ n[d].size = m[d].size /\ n[d].last = m[d].last
                            /\ Behind(n, d) = Behind(m, d)
    BY <2>10, <2>11 DEF Behind
  <2>14. /\ Behind(n, c) = rest /\ n[c].size = size /\ ~n[c].last
         /\ Behind(n, rest) = e /\ n[rest].last = m[c].last
         /\ n[rest].size = left /\ n[rest].size_prev = size
    BY <2>1, <2>3, <2>4, <2>10 DEF Behind, left
  <2> HIDE DEF rest, remain
  <2>15. Chain(n, D)
    <3>1. D \subseteq Units /\ 0 \in D /\ c \in D /\ rest \in D
      BY <1>1, <2>1
    <3>2. \A u \in Units \ D : n[u] \in {Joined, Data}
      <4>1. \A u \in Units \ D : u \in Units \ C /\ u # c /\ u # rest
                                 /\ ~(u = e /\ ~m[c].last)
        BY <1>2
      <4> QED BY <2>10, <4>1 DEF Chain
    <3>3. \A d \in D : n[d].last => d + n[d].size = HeapSize - 1
      <4>1. n[rest].last => rest + n[rest].size = HeapSize - 1
        BY <1>2, <2>1, <2>14 DEF left
      <4>2. \A d \in C \ {c} : n[d].last => d + n[d].size = HeapSize - 1
        BY <2>13 DEF Chain
      <4> QED BY <2>14, <4>1, <4>2
    <3>4. ASSUME NEW d \in D, ~n[d].last
          PROVE  Behind(n, d) \in D /\ n[Behind(n, d)].size_prev = n[d].size
      <4>1. CASE d = c
        BY <2>14, <3>1, <4>1
      <4>2. CASE d = rest
        BY <1>2, <2>10, <2>14, <3>4, <4>2
      <4>3. CASE d # c /\ d # rest
        <5> DEFINE f == Behind(m, d)
        <5>1. d \in C \ {c} /\ ~m[d].last /\ Behind(n, d) = f
              /\ n[d].size = m[d].size
          BY <2>13, <3>4, <4>3
        <5>2. f \in C /\ m[f].size_prev = m[d].size
          BY <5>1 DEF Chain
        <5>3. f # e \/ m[c].last
          BY <1>2, <5>1, ChunksApart DEF e
        <5> HIDE DEF f
        <5>4. n[f].size_prev = m[f].size_prev
          BY <2>4, <2>10, <2>11, <5>2, <5>3
        <5> QED BY <5>1, <5>2, <5>4
      <4> QED BY <4>1, <4>2, <4>3
    <3>5. n[0].size_prev = 0
      <4>1. e # 0 \/ m[c].last
        BY <1>2
      <4>2. m[0].size_prev = 0
        BY DEF Chain
      <4> QED BY <1>1, <2>4, <2>10, <2>11, <4>1, <4>2
    <3>6. ASSUME NEW d \in D \ {0}
          PROVE  \E p \in D : ~n[p].last /\ Behind(n, p) = d
      <4>1. CASE d = rest
        BY <2>14, <3>1, <4>1
      <4>2. CASE d # rest
        <5>1. PICK p \in C : ~m[p].last /\ Behind(m, p) = d
          BY <4>2 DEF Chain
        <5>2. CASE p = c
          BY <2>14, <3>1, <5>1, <5>2 DEF e
        <5>3. CASE p # c
          BY <2>13, <5>1, <5>3
        <5> QED BY <5>2, <5>3
      <4> QED BY <4>1, <4>2
    <3>7. ASSUME NEW a \in D, NEW b \in D, a < b PROVE a + n[a].size < b
      <4>1. a \in Int /\ b \in Int
        BY <1>3, <2>1
      <4>2. CASE a = c
        <5>1. b \in C => c + m[c].size < b
          BY <1>3, <3>7, <4>2
        <5>2. rest <= b
          BY <1>2, <2>1, <4>1, <5>1
        <5>3. c + size < rest
          BY <1>2 DEF rest
        <5> QED BY <1>2, <2>1, <2>14, <4>1, <4>2, <5>2, <5>3
      <4>3. CASE a = rest
        <5>1. b \in C /\ c < b
          BY <1>2, <2>1, <3>7, <4>1, <4>3
        <5>2. c + m[c].size < b
          BY <1>3, <5>1
        <5> QED BY <1>2, <2>1, <2>14, <4>1, <4>3, <5>2 DEF left
      <4>4. CASE a # c /\ a # rest
        <5>1. n[a].size = m[a].size /\ a \in C /\ m[a].size \in Nat
          BY <2>13, <4>4, ChunkEnds
        <5>2. CASE b = rest
          <6>1. a < c
            BY <1>2, <1>3, <2>1, <3>7, <4>1, <4>4, <5>1, <5>2
          <6>2. a + m[a].size < c
            BY <1>3, <5>1, <6>1
          <6> QED BY <1>2, <2>1, <4>1, <5>1, <5>2, <6>2
        <5>3. CASE b # rest
          BY <3>7, <5>1, <5>3, ChunksApart
        <5> QED BY <5>2, <5>3
      <4> QED BY <4>2, <4>3, <4>4
    <3>8. \A d \in D : n[d] \in Header
      BY <2>3, <2>10, <2>12
    <3> HIDE DEF D
    <3> QED BY <2>10, <3>1, <3>2, <3>3, <3>4, <3>5, <3>6, <3>7, <3>8 DEF Chain
  <2>16. D \cap (c..(c + size)) = {c}
    <3>1. \A d \in D : d \in c..(c + size) <=> d = c
      <4>1. ~ (rest \in c..(c + size)) /\ rest # c
        BY <1>2, <2>1 DEF rest
      <4>2. \A d \in C : d \in c..(c + size) <=> d = c
        BY <1>2, <1>3
      <4> QED BY <4>1, <4>2
    <3>2. c \in D
      OBVIOUS
    <3> QED BY <3>1, <3>2
  <2>17. \A d \in D \ C : d = rest
    OBVIOUS
  <2>18. ~m[c].last => e \in C \ {c}
    BY <1>2, <2>9
  <2>19. \A u \in Units \ D : n[u] = m[u]
    <3>1. \A u \in Units \ D : u \in Units /\ u # c /\ u # rest
                               /\ ~(u = e /\ ~m[c].last)
      BY <1>2
    <3> QED BY <2>10, <3>1
  <2>20. ~n[rest].taken
    BY <2>3, <2>10
  <2>21. SplitAt(m, C, c, size, n, D)
    BY <2>12, <2>13, <2>14, <2>15, <2>16, <2>17, <2>18, <2>19, <2>20
       DEF SplitAt, e
  <2> QED BY <2>21 DEF n
<1>6. remain <= 1 \/ ~ (remain <= 1)
  OBVIOUS
<1> QED BY <1>4, <1>5, <1>6

(* What heap_free leaves: c is free or part of another chunk, no two       *)
(* neighbours are free, and the chunks in use stay as they are.            *)
Released(m, C, c, n, D) ==
  /\ Chain(n, D) /\ Parted(n, D) /\ D \subseteq C
  /\ \A u \in Units \ C : n[u] = m[u]
  /\ \A d \in C \ D : n[d] = Joined /\ (d = c \/ ~m[d].taken)
  /\ \A d \in D \ {c} : n[d].taken = m[d].taken
  /\ c \in D => ~n[c].taken
  /\ \A d \in D \ {c} : m[d].taken => n[d].size = m[d].size

(* The same when c has been joined with the chunk before it, but the chunk *)
(* r that it is now, or is part of, may be joined with the next one.       *)
HalfReleased(m, C, c, n, D, r) ==
  /\ Chain(n, D) /\ D \subseteq C /\ r \in D
  /\ n[r].last = m[c].last /\ Behind(n, r) = Behind(m, c) /\ ~n[r].taken
  /\ \A u \in Units \ C : n[u] = m[u]
  /\ \A d \in C \ D : n[d] = Joined /\ d = c
  /\ \A d \in D \ {c} : n[d].taken = m[d].taken
  /\ c \in D => r = c
  /\ r = c \/ ~m[r].taken
  /\ \A d \in D \ {c} : m[d].taken => n[d].size = m[d].size
  /\ PartedBut(n, D, r)

LEMMA HalfOfRelease ==
  ASSUME HeapAssumption, NEW m, NEW C, Chain(m, C), Parted(m, C), NEW c \in C
  PROVE  LET prev == MarkerPrev(m, c)
             free == Mark(m, c, FALSE)
         IN  /\ prev # None /\ ~m[prev].taken =>
                  HalfReleased(m, C, c, Join(free, prev, c), C \ {c}, prev)
             /\ ~ (prev # None /\ ~m[prev].taken) =>
                  HalfReleased(m, C, c, free, C, c)
<1> DEFINE prev == MarkerPrev(m, c)
           free == Mark(m, c, FALSE)
<1>1. /\ Chain(free, C) /\ SameLinks(m, free, C)
      /\ \A d \in C : Behind(free, d) = Behind(m, d)
      /\ ~free[c].taken
      /\ \A u \in Units \ {c} : free[u] = m[u]
  <2> DEFINE v == FALSE
  <2>1. v \in BOOLEAN
    OBVIOUS
  <2> HIDE DEF v, prev
  <2>2. LET f == Mark(m, c, v)
        IN  /\ Chain(f, C) /\ SameLinks(m, f, C)
            /\ \A d \in C : Behind(f, d) = Behind(m, d)
            /\ f[c].taken = v
            /\ \A u \in Units \ {c} : f[u] = m[u]
    BY <2>1, Marked
  <2> QED BY <2>2 DEF v
<1>2. C \subseteq Units /\ None \notin Units /\ c \in Int
  BY Neighbours, ChunkEnds DEF Chain
<1>3. /\ \A d \in C : free[d].size = m[d].size /\ free[d].last = m[d].last
      /\ \A d \in C \ {c} : free[d].taken = m[d].taken
      /\ \A u \in Units \ C : free[u] = m[u]
  BY <1>1, <1>2 DEF SameLinks
<1>4. prev # None => /\ prev \in C /\ ~m[prev].last /\ Behind(m, prev) = c
                     /\ prev # c
  <2>1. prev # None => prev \in C /\ ~m[prev].last /\ Behind(m, prev) = c
    BY Neighbours
  <2>2. prev # None => prev \in Int /\ m[prev].size \in Nat
                       /\ Behind(m, prev) = prev + 1 + m[prev].size
    BY <2>1, ChunkEnds DEF Behind
  <2>3. prev # None => prev # c
    BY <1>2, <2>1, <2>2
  <2> QED BY <2>1, <2>3
<1>5. \A d \in C : ~m[d].last /\ Behind(m, d) = c => d = prev
  <2> TAKE d \in C
  <2>1. ASSUME ~m[d].last, Behind(m, d) = c PROVE d = prev
    <3>1. d \in Int /\ 0 <= d /\ m[d].size \in Nat /\ Behind(m, d) = d + 1 + m[d].size
      BY ChunkEnds DEF Behind
    <3>2. c # 0
      BY <1>2, <2>1, <3>1
    <3>3. prev \in C /\ ~m[prev].last /\ Behind(m, prev) = c
      BY <3>2, Neighbours
    <3> HIDE DEF prev
    <3> QED BY <2>1, <3>3, ChunksApart
  <2> QED BY <2>1
<1>6. \A d \in C : ~m[d].last => Behind(m, d) \in C
  BY DEF Chain
<1> HIDE DEF prev, free
<1>7. ASSUME prev # None, ~m[prev].taken
      PROVE  HalfReleased(m, C, c, Join(free, prev, c), C \ {c}, prev)
  <2> DEFINE n == Join(free, prev, c)
             D == C \ {c}
  <2>1. JoinedWith(free, C, prev, c, n)
    <3>1. prev \in C /\ ~free[prev].last /\ c = Behind(free, prev)
          /\ ~free[prev].taken /\ ~free[c].taken
      BY <1>1, <1>3, <1>4, <1>7
    <3> QED BY <1>1, <3>1, JoinChain
  <2> HIDE DEF n
  <2>2. /\ Chain(n, D) /\ n[c] = Joined
        /\ \A u \in Units \ C : n[u] = free[u]
        /\ \A d \in D : n[d].taken = free[d].taken
        /\ \A d \in C \ {prev, c} :
             /\ n[d].size = free[d].size /\ n[d].last = free[d].last
             /\ Behind(n, d) = Behind(free, d)
        /\ n[prev].last = free[c].last
        /\ Behind(n, prev) = Behind(free, c)
    BY <2>1 DEF JoinedWith
  <2>3. PartedBut(n, D, prev)
    <3> SUFFICES ASSUME NEW d \in D \ {prev}, ~n[d].last, ~n[d].taken
                 PROVE  n[Behind(n, d)].taken
      BY DEF PartedBut
    <3>1. ~m[d].last /\ ~m[d].taken /\ Behind(n, d) = Behind(m, d)
      BY <1>1, <1>3, <2>2
    <3>2. Behind(m, d) \in C /\ Behind(m, d) # c
      BY <1>5, <1>6, <3>1
    <3>3. m[Behind(m, d)].taken
      BY <3>1 DEF Parted
    <3> HIDE DEF D
    <3>4. n[Behind(m, d)].taken = m[Behind(m, d)].taken
      BY <1>3, <2>2, <3>2 DEF D
    <3> QED BY <3>1, <3>3, <3>4
  <2>4. /\ D \subseteq C /\ prev \in D /\ c \notin D
        /\ \A d \in C \ D : d = c
    BY <1>4, <1>7
  <2>5. n[prev].last = m[c].last /\ Behind(n, prev) = Behind(m, c) /\ ~n[prev].taken
    BY <1>1, <1>3, <1>4, <1>7, <2>2
  <2>6. /\ \A u \in Units \ C : n[u] = m[u]
        /\ \A d \in D \ {c} : n[d].taken = m[d].taken
        /\ \A d \in D \ {c} : m[d].taken => n[d].size = m[d].size
    BY <1>3, <1>7, <2>2
  <2> HIDE DEF D
  <2>7. HalfReleased(m, C, c, n, D, prev)
    BY <1>7, <2>2, <2>3, <2>4, <2>5, <2>6 DEF HalfReleased
  <2> QED BY <2>7 DEF n, D
<1>8. ASSUME ~ (prev # None /\ ~m[prev].taken)
      PROVE  HalfReleased(m, C, c, free, C, c)
  <2>1. PartedBut(free, C, c)
    <3> SUFFICES ASSUME NEW d \in C \ {c}, ~free[d].last, ~free[d].taken
                 PROVE  free[Behind(free, d)].taken
      BY DEF PartedBut
    <3>1. ~m[d].last /\ ~m[d].taken /\ Behind(free, d) = Behind(m, d)
      BY <1>1, <1>3
    <3>2. Behind(m, d) \in C /\ Behind(m, d) # c
      <4>1. d \in Units /\ None \notin Units
        BY <1>2
      <4> QED BY <1>5, <1>6, <1>8, <3>1, <4>1
    <3>3. m[Behind(m, d)].taken
      BY <3>1 DEF Parted
    <3> QED BY <1>3, <3>1, <3>2, <3>3
  <2> QED BY <1>1, <1>3, <2>1 DEF HalfReleased
<1> QED BY <1>7, <1>8 DEF prev, free

LEMMA ReleaseChain ==
  ASSUME HeapAssumption, NEW m, NEW C, Chain(m, C), Parted(m, C), NEW c \in C
  PROVE  \E D : Released(m, C, c, Release(m, c), D)
<1> DEFINE prev == MarkerPrev(m, c)
           next == MarkerNext(m, c)
           free == Mark(m, c, FALSE)
           joined == prev # None /\ ~m[prev].taken
           before == IF joined THEN Join(free, prev, c) ELSE free
           r == IF joined THEN prev ELSE c
           E == IF joined THEN C \ {c} ELSE C
           n == Release(m, c)
<1>1. HalfReleased(m, C, c, before, E, r)
  BY HalfOfRelease
<1>2. n = IF next # None /\ ~m[next].taken THEN Join(before, r, next) ELSE before
  BY DEF Release, Mark
<1>3. /\ next = IF m[c].last THEN None ELSE Behind(m, c)
      /\ ~m[c].last => next \in C /\ next # None /\ next # c
  <2>1. next = IF m[c].last THEN None ELSE Behind(m, c)
    BY Neighbours
  <2>2. ~m[c].last => /\ Behind(m, c) \in C /\ c \in Int /\ m[c].size \in Nat
                      /\ Behind(m, c) = c + 1 + m[c].size
    BY ChunkEnds
  <2>3. C \subseteq Units /\ None \notin Units
    BY Neighbours DEF Chain
  <2> QED BY <2>1, <2>2, <2>3
<1> HIDE DEF prev, next, free, joined, before, r, E, n
<1>4. /\ Chain(before, E) /\ E \subseteq C /\ r \in E
      /\ before[r].last = m[c].last /\ Behind(before, r) = Behind(m, c)
      /\ ~before[r].taken
      /\ \A u \in Units \ C : before[u] = m[u]
      /\ \A d \in C \ E : before[d] = Joined /\ d = c
      /\ \A d \in E \ {c} : before[d].taken = m[d].taken
      /\ c \in E => r = c
      /\ r = c \/ ~m[r].taken
      /\ \A d \in E \ {c} : m[d].taken => before[d].size = m[d].size
      /\ PartedBut(before, E, r)
  BY <1>1 DEF HalfReleased
<1>5. ~m[c].last => /\ next \in E /\ before[next].taken = m[next].taken
                    /\ next = Behind(before, r)
  BY <1>3, <1>4
<1>6. CASE next # None /\ ~m[next].taken
  <2> DEFINE D == E \ {next}
  <2>1. n = Join(before, r, next) /\ ~m[c].last
    BY <1>2, <1>3, <1>6
  <2>2. JoinedWith(before, E, r, next, n)
    BY <1>4, <1>5, <1>6, <2>1, JoinChain
  <2>3. /\ Chain(n, D) /\ n[next] = Joined
        /\ \A u \in Units \ E : n[u] = before[u]
        /\ \A d \in D : n[d].taken = before[d].taken
        /\ \A d \in E \ {r, next} :
             /\ n[d].size = before[d].size /\ n[d].last = before[d].last
             /\ Behind(n, d) = Behind(before, d)
        /\ n[r].last = before[next].last
        /\ Behind(n, r) = Behind(before, next)
    BY <2>2 DEF JoinedWith
  <2>4. next \in E /\ r # next
    <3>1. next \in Int /\ r \in Int /\ before[r].size \in Nat
          /\ next = r + 1 + before[r].size
      BY <1>4, <1>5, <2>1, ChunkEnds DEF Behind
    <3> QED BY <1>5, <2>1, <3>1
  <2>5. Parted(n, D)
    <3> SUFFICES ASSUME NEW d \in D, ~n[d].last, ~n[d].taken
                 PROVE  n[Behind(n, d)].taken
      BY DEF Parted
    <3>1. Behind(n, d) \in D
      BY <2>3 DEF Chain
    <3>2. CASE d = r
      <4>1. ~before[next].last /\ ~before[next].taken
        BY <1>5, <1>6, <2>1, <2>3, <3>2
      <4>2. before[Behind(before, next)].taken
        BY <1>4, <2>4, <4>1 DEF PartedBut
      <4> QED BY <2>3, <3>1, <3>2, <4>2
    <3>3. CASE d # r
      <4>1. ~before[d].last /\ ~before[d].taken /\ Behind(n, d) = Behind(before, d)
        BY <2>3, <3>3
      <4>2. before[Behind(before, d)].taken
        BY <1>4, <3>3, <4>1 DEF PartedBut
      <4> QED BY <2>3, <3>1, <4>1, <4>2
    <3> QED BY <3>2, <3>3
  <2>6. D \subseteq C /\ D \subseteq E
    BY <1>4
  <2>7. \A u \in Units \ C : n[u] = m[u]
    BY <1>4, <2>3
  <2>8. \A d \in C \ D : n[d] = Joined /\ (d = c \/ ~m[d].taken)
    <3> TAKE d \in C \ D
    <3>1. CASE d = next
      BY <1>6, <2>3, <3>1
    <3>2. CASE d # next
      <4>1. d \in C \ E /\ d \in Units
        BY <3>2 DEF Chain
      <4> QED BY <1>4, <2>3, <4>1
    <3> QED BY <3>1, <3>2
  <2>9. \A d \in D \ {c} : n[d].taken = m[d].taken
    BY <1>4, <2>3, <2>6
  <2>10. c \in D => ~n[c].taken
    BY <1>4, <2>3, <2>6
  <2>11. \A d \in D \ {c} : m[d].taken => n[d].size = m[d].size
    BY <1>4, <2>3, <2>6
  <2> HIDE DEF D
  <2>12. Released(m, C, c, n, D)
    BY <2>3, <2>5, <2>6, <2>7, <2>8, <2>9, <2>10, <2>11 DEF Released
  <2> QED BY <2>12 DEF n
<1>7. CASE ~ (next # None /\ ~m[next].taken)
  <2>1. n = before
    BY <1>2, <1>7
  <2>2. Parted(n, E)
    <3> SUFFICES ASSUME NEW d \in E, ~before[d].last, ~before[d].taken
                 PROVE  before[Behind(before, d)].taken
      BY <2>1 DEF Parted
    <3>1. CASE d = r
      BY <1>3, <1>4, <1>5, <1>7, <3>1
    <3>2. CASE d # r
      BY <1>4, <3>2 DEF PartedBut
    <3> QED BY <3>1, <3>2
  <2>3. Released(m, C, c, n, E)
    BY <1>4, <2>1, <2>2 DEF Released
  <2> QED BY <2>3 DEF n
<1> QED BY <1>6, <1>7

(* What heap_alloc leaves: c is in use and large enough, what is left of   *)
(* it is free, and the other chunks stay as they are.                      *)
Allocated(m, C, c, size, n, D) ==
  /\ Chain(n, D) /\ Parted(n, D) /\ C \subseteq D
  /\ n[c].taken /\ n[c].size >= size
  /\ \A d \in C \ {c} : n[d].taken = m[d].taken /\ n[d].size = m[d].size
  /\ \A d \in D \ C : ~n[d].taken
  /\ \A u \in Units \ D : u \notin (c + 1)..(c + size) => n[u] = m[u]

Overwritten(m, mine) == [u \in Units |-> IF u \in mine THEN Data ELSE m[u]]

LEMMA OverwrittenChain ==
  ASSUME HeapAssumption, NEW m, NEW C, Chain(m, C),
         NEW mine, \A c \in C : c \notin mine
  PROVE  LET n == Overwritten(m, mine)
         IN  /\ Chain(n, C)
             /\ \A c \in C : Behind(n, c) = Behind(m, c) /\ n[c] = m[c]
             /\ \A u \in Units : u \notin mine => n[u] = m[u]
<1> DEFINE n == Overwritten(m, mine)
<1>1. /\ m \in [Units -> Header \union {Joined, Data}]
      /\ \A u \in Units : n[u] = IF u \in mine THEN Data ELSE m[u]
      /\ n \in [Units -> Header \union {Joined, Data}]
      /\ C \subseteq Units
  BY DEF Overwritten, Chain
<1> HIDE DEF n
<1>2. \A c \in C : n[c] = m[c]
  BY <1>1
<1>3. SameLinks(m, n, C)
  BY <1>2 DEF SameLinks
<1>4. \A c \in C : n[c] \in Header
  BY <1>2 DEF Chain
<1>5. \A u \in Units \ C : n[u] \in {Joined, Data}
  BY <1>1 DEF Chain
<1>6. Chain(n, C) /\ \A c \in C : Behind(n, c) = Behind(m, c)
  BY <1>1, <1>3, <1>4, <1>5, SameLinksChain
<1> QED BY <1>1, <1>2, <1>6 DEF n

LEMMA AllocChain ==
  ASSUME HeapAssumption, NEW m, NEW C, Chain(m, C), Parted(m, C), NEW c \in C,
         NEW size \in Nat, size <= m[c].size, ~m[c].taken
  PROVE  \E D : Allocated(m, C, c, size,
                  Overwritten(Mark(Split(m, c, size), c, TRUE),
                              (c + 1)..(c + size)), D)
<1> DEFINE s == Split(m, c, size)
           t == Mark(s, c, TRUE)
           mine == (c + 1)..(c + size)
           n == Overwritten(t, mine)
<1>1. PICK D : SplitAt(m, C, c, size, s, D)
  BY SplitChain
<1> HIDE DEF s
<1>2. /\ Chain(s, D)
      /\ C \subseteq D /\ D \cap (c..(c + size)) = {c}
      /\ \A d \in D \ C : ~s[d].taken /\ (s[d].last \/ Behind(s, d) \in C \ {c})
      /\ s[c].size \in Nat /\ s[c].size >= size
      /\ \A u \in Units \ D : s[u] = m[u]
      /\ \A d \in C : s[d].taken = m[d].taken
      /\ \A d \in C \ {c} :
           /\ s[d].size = m[d].size /\ s[d].last = m[d].last
           /\ Behind(s, d) = Behind(m, d)
      /\ \A d \in D \ C : ~s[d].last => ~m[c].last /\ Behind(s, d) = Behind(m, c)
  BY <1>1 DEF SplitAt
<1>3. /\ c \in D /\ D \subseteq Units /\ c \in Int /\ C \subseteq Units
  BY <1>2, ChunkEnds DEF Chain
<1>4. /\ Chain(t, D) /\ SameLinks(s, t, D)
      /\ \A d \in D : Behind(t, d) = Behind(s, d)
      /\ t[c].taken = TRUE
      /\ \A u \in Units \ {c} : t[u] = s[u]
  <2>1. TRUE \in BOOLEAN
    OBVIOUS
  <2> QED BY <1>2, <1>3, <2>1, Marked
<1>5. \A d \in D : d \notin mine
  <2> SUFFICES ASSUME NEW d \in D, d \in mine PROVE FALSE
    OBVIOUS
  <2>1. d \in c..(c + size) /\ d # c
    BY <1>3
  <2> QED BY <1>2, <2>1
<1> HIDE DEF t, mine
<1>6. /\ Chain(n, D)
      /\ \A d \in D : Behind(n, d) = Behind(t, d) /\ n[d] = t[d]
      /\ \A u \in Units : u \notin mine => n[u] = t[u]
  BY <1>4, <1>5, OverwrittenChain
<1> HIDE DEF n
<1>7. /\ n[c].taken /\ n[c].size = s[c].size /\ n[c].last = s[c].last
      /\ \A d \in D \ {c} : n[d] = s[d]
      /\ \A d \in D : Behind(n, d) = Behind(s, d)
  BY <1>3, <1>4, <1>6 DEF SameLinks
<1>8. \A d \in C \ {c} :
        /\ n[d].taken = m[d].taken /\ n[d].size = m[d].size
        /\ n[d].last = m[d].last /\ Behind(n, d) = Behind(m, d)
  BY <1>2, <1>7
<1>9. \A d \in D \ C : /\ ~n[d].taken
                       /\ ~n[d].last => ~m[c].last /\ Behind(n, d) = Behind(m, c)
                       /\ ~n[d].last => Behind(n, d) \in C \ {c}
  BY <1>2, <1>3, <1>7
<1>10. Parted(n, D)
  <2> SUFFICES ASSUME NEW d \in D, ~n[d].last, ~n[d].taken
               PROVE  n[Behind(n, d)].taken
    BY DEF Parted
  <2>1. d # c
    BY <1>7
  <2>2. CASE d \in C
    <3>1. ~m[d].last /\ ~m[d].taken /\ Behind(n, d) = Behind(m, d)
      BY <1>8, <2>1, <2>2
    <3>2. Behind(m, d) \in C /\ m[Behind(m, d)].taken
      BY <2>2, <3>1 DEF Parted, Chain
    <3> QED BY <1>7, <1>8, <3>1, <3>2
  <2>3. CASE d \notin C
    <3>1. ~m[c].last /\ Behind(n, d) = Behind(m, c) /\ Behind(m, c) \in C \ {c}
      BY <1>9, <2>3
    <3>2. m[Behind(m, c)].taken
      BY <3>1 DEF Parted
    <3> QED BY <1>8, <3>1, <3>2
  <2> QED BY <2>2, <2>3
<1>11. \A u \in Units \ D : u \notin mine => n[u] = m[u]
  BY <1>2, <1>3, <1>4, <1>6
<1>12. n[c].size >= size
  BY <1>2, <1>7
<1>13. Allocated(m, C, c, size, n, D)
  BY <1>2, <1>6, <1>7, <1>8, <1>9, <1>10, <1>11, <1>12 DEF Allocated, mine
<1> QED BY <1>13 DEF n, t, s, mine

(* Among the chunks that are large enough there is a best one.             *)
LEMMA BestFitExists ==
  ASSUME HeapAssumption, NEW m, NEW C, Chain(m, C), NEW size \in Nat,
         Candidates(m, size) # {}
  PROVE  /\ BestFit(m, size) \in Candidates(m, size)
         /\ \A c \in Candidates(m, size) :
              \/ m[BestFit(m, size)].size < m[c].size
              \/ /\ m[BestFit(m, size)].size = m[c].size
                 /\ BestFit(m, size) <= c
<1> DEFINE K == Candidates(m, size)
           Best(b) == \A c \in K :
             m[b].size < m[c].size \/ (m[b].size = m[c].size /\ b <= c)
<1>1. \A c \in K : c \in Nat /\ m[c].size \in Nat
  <2>1. Chunks(m) = C
    BY ChunksOfChain
  <2> QED BY <2>1, ChunkEnds DEF Candidates
<1> HIDE DEF K
<1> DEFINE S == {m[c].size : c \in K}
<1>2. S \subseteq Nat /\ S # {}
  BY <1>1 DEF K
<1>3. PICK z \in S : \A y \in S : z <= y
  BY <1>2, LeastNumber
<1> DEFINE A == {c \in K : m[c].size = z}
<1>4. A \subseteq Nat /\ A # {}
  BY <1>1, <1>3
<1>5. PICK b \in A : \A a \in A : b <= a
  BY <1>4, LeastNumber
<1>6. Best(b)
  <2> SUFFICES ASSUME NEW c \in K
               PROVE  m[b].size < m[c].size \/ (m[b].size = m[c].size /\ b <= c)
    OBVIOUS
  <2>1. z <= m[c].size /\ z \in Nat /\ m[c].size \in Nat /\ m[b].size = z
    BY <1>1, <1>2, <1>3, <1>5
  <2>2. CASE m[c].size = z
    BY <1>5, <2>1, <2>2
  <2>3. CASE m[c].size # z
    BY <2>1, <2>3
  <2> QED BY <2>2, <2>3
<1>7. BestFit(m, size) = CHOOSE x \in K : Best(x)
  BY DEF BestFit, K
<1>8. b \in K
  BY <1>5
<1>9. BestFit(m, size) \in K /\ Best(BestFit(m, size))
  <2> HIDE DEF Best
  <2> QED BY <1>6, <1>7, <1>8
<1> QED BY <1>9 DEF K

(* The sanity checks of heap_free pass a chunk in use and no other.        *)
LEMMA LooksAreRight ==
  ASSUME HeapAssumption, NEW m, NEW C, Chain(m, C), NEW u \in Units
  PROVE  /\ u \in C /\ m[u].taken => LooksAllocated(m, u)
         /\ u \in C /\ ~m[u].taken => ~LooksAllocated(m, u)
         /\ m[u] = Joined => ~LooksAllocated(m, u)
<1>1. ASSUME u \in C, m[u].taken PROVE LooksAllocated(m, u)
  <2>1. MarkerPrev(m, u) # None => m[u].size_prev = m[MarkerPrev(m, u)].size
    BY <1>1, Neighbours
  <2>2. MarkerNext(m, u) # None => m[MarkerNext(m, u)].size_prev = m[u].size
    BY <1>1, Neighbours, ChunkEnds
  <2> QED BY <1>1, <2>1, <2>2 DEF LooksAllocated
<1>2. ASSUME u \in C, ~m[u].taken PROVE ~LooksAllocated(m, u)
  BY <1>2 DEF LooksAllocated
<1>3. ASSUME m[u] = Joined PROVE ~LooksAllocated(m, u)
  <2>1. m[u].size_prev = -1 /\ m[u].size = -2
    BY <1>3 DEF Joined
  <2>2. u \in Int /\ None \notin Units
    BY DEF HeapAssumption, Units, None
  <2>3. u - 1 - m[u].size_prev = u
    BY <2>1, <2>2
  <2>4. MarkerPrev(m, u) = u
    BY <2>3 DEF MarkerPrev
  <2>5. m[u].size_prev # m[MarkerPrev(m, u)].size
    BY <2>1, <2>4
  <2> QED BY <2>2, <2>4, <2>5 DEF LooksAllocated
<1> QED BY <1>1, <1>2, <1>3

-----------------------------------------------------------------------------
(* The inductive invariant.                                                *)

(* Memory m has chunks C: those in use are the blocks in h, and the blocks *)
(* in f, which were given back, begin at free chunks or inside of chunks,  *)
(* behind what heap_join left of their headers.                            *)
HeapState(m, C, h, f) ==
  /\ Chain(m, C) /\ Parted(m, C)
  /\ h \subseteq [adr : Nat, size : Nat \ {0}]
  /\ \A x \in h : /\ x.adr - 1 \in C /\ m[x.adr - 1].taken
                  /\ m[x.adr - 1].size >= x.size
  /\ \A x, y \in h : x.adr = y.adr => x = y
  /\ \A c \in C : m[c].taken => \E x \in h : x.adr = c + 1
  /\ f \subseteq Int
  /\ \A a \in f : /\ a - 1 \in Units
                  /\ IF a - 1 \in C THEN ~m[a - 1].taken
                     ELSE m[a - 1] = Joined

HeapInv == HeapState(heap, Chunks(heap), blocks, freed)

(* What a heap in such a state promises.                                   *)
LEMMA StateIsInv ==
  ASSUME HeapAssumption, NEW C, HeapState(heap, C, blocks, freed)
  PROVE  HeapInv
<1>1. Chunks(heap) = C
  BY ChunksOfChain DEF HeapState
<1> QED BY <1>1 DEF HeapInv

LEMMA InitHolds == ASSUME HeapAssumption, HeapInit PROVE HeapInv
<1> DEFINE C == {0}
           first == [size |-> HeapSize - 1, size_prev |-> 0,
                     taken |-> FALSE, last |-> TRUE]
<1>1. HeapSize \in Nat /\ HeapSize >= 2 /\ 0 \in Units
  BY DEF HeapAssumption, Units
<1>2. /\ first \in Header /\ first.size = HeapSize - 1 /\ first.size_prev = 0
      /\ ~first.taken /\ first.last
  BY <1>1 DEF Header
<1>3. heap = [u \in Units |-> IF u = 0 THEN first ELSE Data]
  BY DEF HeapInit
<1> HIDE DEF first
<1>4. /\ heap \in [Units -> Header \union {Joined, Data}]
      /\ heap[0] = first /\ \A u \in Units \ {0} : heap[u] = Data
  BY <1>1, <1>2, <1>3
<1>5. Chain(heap, C) /\ Parted(heap, C)
  BY <1>1, <1>2, <1>4 DEF Chain, Parted
<1>6. blocks = {} /\ freed = {}
  BY DEF HeapInit
<1>7. \A c \in C : ~heap[c].taken
  BY <1>2, <1>4
<1> HIDE DEF C
<1>8. HeapState(heap, C, blocks, freed)
  BY <1>5, <1>6, <1>7 DEF HeapState
<1> QED BY <1>8, StateIsInv

LEMMA AllocStep ==
  ASSUME HeapAssumption, HeapInv, NEW size \in Nat \ {0}, HeapAlloc(size)
  PROVE  HeapInv'
<1> DEFINE C == Chunks(heap)
           best == BestFit(heap, size)
           mine == (best + 1)..(best + size)
           n == Overwritten(Mark(Split(heap, best, size), best, TRUE), mine)
           block == [adr |-> best + 1, size |-> size]
<1>1. /\ Candidates(heap, size) # {} /\ heap' = n
      /\ blocks' = blocks \union {block}
      /\ freed' = {a \in freed : a - 1 \notin {best} \union mine}
  BY DEF HeapAlloc, Overwritten, Mark
<1>2. Chain(heap, C) /\ Parted(heap, C)
  BY DEF HeapInv, HeapState
<1>3. best \in C /\ ~heap[best].taken /\ heap[best].size >= size
  <2>1. best \in Candidates(heap, size)
    BY <1>1, <1>2, BestFitExists
  <2> QED BY <2>1 DEF Candidates
<1>4. /\ best \in Int /\ 0 <= best /\ heap[best].size \in Nat
      /\ C \subseteq Units /\ Units \subseteq Int
  <2>1. C \subseteq Units
    BY <1>2 DEF Chain
  <2>2. Units \subseteq Int
    BY DEF HeapAssumption, Units
  <2>3. best \in Int /\ 0 <= best /\ heap[best].size \in Nat
    BY <1>2, <1>3, ChunkEnds
  <2> QED BY <2>1, <2>2, <2>3
<1>5. PICK D : Allocated(heap, C, best, size, n, D)
  <2>1. size \in Nat /\ size <= heap[best].size
    BY <1>3, <1>4
  <2> QED BY <1>2, <1>3, <2>1, AllocChain
<1> HIDE DEF C, best, n
<1>6. /\ Chain(n, D) /\ Parted(n, D) /\ C \subseteq D
      /\ n[best].taken /\ n[best].size >= size
      /\ \A d \in C \ {best} : /\ n[d].taken = heap[d].taken
                               /\ n[d].size = heap[d].size
      /\ \A d \in D \ C : ~n[d].taken
      /\ \A u \in Units \ D : u \notin mine => n[u] = heap[u]
  BY <1>5 DEF Allocated
<1>7. /\ blocks \subseteq [adr : Nat, size : Nat \ {0}]
      /\ \A x \in blocks : /\ x.adr - 1 \in C /\ heap[x.adr - 1].taken
                         /\ heap[x.adr - 1].size >= x.size
      /\ \A x, y \in blocks : x.adr = y.adr => x = y
      /\ \A c \in C : heap[c].taken => \E x \in blocks : x.adr = c + 1
      /\ freed \subseteq Int
      /\ \A a \in freed : /\ a - 1 \in Units
                          /\ IF a - 1 \in C THEN ~heap[a - 1].taken
                             ELSE heap[a - 1] = Joined
  BY DEF HeapInv, HeapState, C
<1>8. block \in [adr : Nat, size : Nat \ {0}] /\ block.adr = best + 1
      /\ block.size = size /\ block.adr - 1 = best
  BY <1>4
<1> HIDE DEF block
<1>9. \A x \in blocks : x.adr - 1 # best
  BY <1>3, <1>7
<1>10. \A x \in blocks' : /\ x.adr - 1 \in D /\ n[x.adr - 1].taken
                        /\ n[x.adr - 1].size >= x.size
  <2>1. \A x \in blocks : /\ x.adr - 1 \in D /\ n[x.adr - 1].taken
                        /\ n[x.adr - 1].size >= x.size
    <3> TAKE x \in blocks
    <3> DEFINE c == x.adr - 1
    <3>1. c \in C \ {best} /\ heap[c].taken /\ heap[c].size >= x.size
      BY <1>7, <1>9
    <3> HIDE DEF c
    <3>2. c \in D /\ n[c].taken /\ n[c].size >= x.size
      BY <1>6, <3>1
    <3> QED BY <3>2 DEF c
  <2>2. best \in D
    BY <1>3, <1>6
  <2> QED BY <1>1, <1>6, <1>8, <2>1, <2>2
<1>11. \A x, y \in blocks' : x.adr = y.adr => x = y
  <2>1. \A x \in blocks : x.adr # block.adr
    BY <1>8, <1>9
  <2> QED BY <1>1, <1>7, <2>1
<1>12. \A c \in D : n[c].taken => \E x \in blocks' : x.adr = c + 1
  <2> TAKE c \in D
  <2>1. ASSUME n[c].taken PROVE \E x \in blocks' : x.adr = c + 1
    <3>1. CASE c = best
      BY <1>1, <1>8, <3>1
    <3>2. CASE c # best
      <4>1. c \in C /\ heap[c].taken
        BY <1>6, <2>1, <3>2
      <4> QED BY <1>1, <1>7, <4>1
    <3> QED BY <3>1, <3>2
  <2> QED BY <2>1
<1>13. \A a \in freed' : /\ a - 1 \in Units
                         /\ IF a - 1 \in D THEN ~n[a - 1].taken
                            ELSE n[a - 1] = Joined
  <2> TAKE a \in freed'
  <2> DEFINE u == a - 1
  <2>1. /\ u \in Units /\ u # best /\ u \notin mine
        /\ IF u \in C THEN ~heap[u].taken ELSE heap[u] = Joined
    BY <1>1, <1>7
  <2> HIDE DEF u, mine
  <2>2. u \in Units /\ IF u \in D THEN ~n[u].taken ELSE n[u] = Joined
    BY <1>6, <2>1
  <2> QED BY <2>2 DEF u
<1>14. freed' \subseteq Int /\ blocks' \subseteq [adr : Nat, size : Nat \ {0}]
  BY <1>1, <1>7, <1>8
<1>15. HeapState(n, D, blocks', freed')
  BY <1>6, <1>10, <1>11, <1>12, <1>13, <1>14 DEF HeapState
<1>16. Chunks(heap') = D
  BY <1>1, <1>6, ChunksOfChain
<1> QED BY <1>1, <1>15, <1>16 DEF HeapInv

LEMMA FreeStep ==
  ASSUME HeapAssumption, HeapInv, NEW adr, HeapFree(adr)
  PROVE  HeapInv'
<1> DEFINE C == Chunks(heap)
           c == adr - 1
<1>1. /\ Chain(heap, C) /\ Parted(heap, C)
      /\ blocks \subseteq [adr : Nat, size : Nat \ {0}]
      /\ \A x \in blocks : /\ x.adr - 1 \in C /\ heap[x.adr - 1].taken
                         /\ heap[x.adr - 1].size >= x.size
      /\ \A x, y \in blocks : x.adr = y.adr => x = y
      /\ \A d \in C : heap[d].taken => \E x \in blocks : x.adr = d + 1
      /\ freed \subseteq Int
      /\ \A a \in freed : /\ a - 1 \in Units
                          /\ IF a - 1 \in C THEN ~heap[a - 1].taken
                             ELSE heap[a - 1] = Joined
  BY DEF HeapInv, HeapState
<1>2. /\ adr \in {block.adr : block \in blocks} \union freed
      /\ blocks' = {block \in blocks : block.adr # adr}
      /\ freed' = freed \union {adr}
      /\ heap' = IF LooksAllocated(heap, c)
                   THEN Release(heap, c) ELSE heap
  BY DEF HeapFree
<1> HIDE DEF C
<1>3. C \subseteq Units /\ adr \in Int
  <2>1. \A x \in blocks : x.adr \in Int
    BY <1>1
  <2>2. C \subseteq Units
    BY <1>1 DEF Chain
  <2>3. CASE adr \in freed
    BY <1>1, <2>2, <2>3
  <2>4. CASE adr \notin freed
    <3>1. PICK x \in blocks : x.adr = adr
      BY <1>2, <2>4
    <3> QED BY <2>1, <2>2, <3>1
  <2> QED BY <2>3, <2>4
<1>4. ASSUME NEW block \in blocks, adr = block.adr PROVE HeapInv'
  <2>1. c \in C /\ heap[c].taken
    BY <1>1, <1>4
  <2> HIDE DEF c
  <2>2. heap' = Release(heap, c)
    <3>1. LooksAllocated(heap, c)
      BY <1>1, <1>3, <2>1, LooksAreRight
    <3> QED BY <1>2, <3>1
  <2> DEFINE n == Release(heap, c)
  <2>3. PICK D : Released(heap, C, c, n, D)
    BY <1>1, <2>1, ReleaseChain
  <2> HIDE DEF n
  <2>4. /\ Chain(n, D) /\ Parted(n, D) /\ D \subseteq C
        /\ \A u \in Units \ C : n[u] = heap[u]
        /\ \A d \in C \ D : n[d] = Joined /\ (d = c \/ ~heap[d].taken)
        /\ \A d \in D \ {c} : n[d].taken = heap[d].taken
        /\ c \in D => ~n[c].taken
        /\ \A d \in D \ {c} : heap[d].taken => n[d].size = heap[d].size
    BY <2>3 DEF Released
  <2>5. \A x \in blocks' : /\ x.adr - 1 \in D /\ n[x.adr - 1].taken
                         /\ n[x.adr - 1].size >= x.size
    <3> TAKE x \in blocks'
    <3> DEFINE d == x.adr - 1
    <3>1. /\ x \in blocks /\ d \in C /\ heap[d].taken
          /\ heap[d].size >= x.size /\ x.adr # adr
      BY <1>1, <1>2
    <3>2. d # c
      BY <1>1, <1>3, <3>1 DEF c
    <3> HIDE DEF d
    <3>3. d \in D /\ n[d].taken /\ n[d].size >= x.size
      BY <2>4, <3>1, <3>2
    <3> QED BY <3>3 DEF d
  <2>6. \A x, y \in blocks' : x.adr = y.adr => x = y
    BY <1>1, <1>2
  <2>7. \A d \in D : n[d].taken => \E x \in blocks' : x.adr = d + 1
    <3> TAKE d \in D
    <3>1. ASSUME n[d].taken PROVE \E x \in blocks' : x.adr = d + 1
      <4>1. d # c /\ heap[d].taken /\ d \in C
        BY <2>4, <3>1
      <4>2. PICK x \in blocks : x.adr = d + 1
        BY <1>1, <4>1
      <4>3. x.adr # adr
        <5>1. d \in Int
          BY <1>1, <4>1, ChunkEnds
        <5> QED BY <1>3, <4>1, <4>2, <5>1 DEF c
      <4> QED BY <1>2, <4>2, <4>3
    <3> QED BY <3>1
  <2>8. \A a \in freed' : /\ a - 1 \in Units
                          /\ IF a - 1 \in D THEN ~n[a - 1].taken
                             ELSE n[a - 1] = Joined
    <3> TAKE a \in freed'
    <3> DEFINE u == a - 1
    <3>1. CASE u = c
      <4>1. c \in Units /\ IF c \in D THEN ~n[c].taken ELSE n[c] = Joined
        BY <1>3, <2>1, <2>4
      <4> QED BY <3>1, <4>1
    <3>2. CASE u # c
      <4>1. a \in freed
        BY <1>2, <3>2 DEF c
      <4>2. u \in Units /\ IF u \in C THEN ~heap[u].taken
                           ELSE heap[u] = Joined
        BY <1>1, <4>1
      <4> HIDE DEF u
      <4>3. u \in Units /\ IF u \in D THEN ~n[u].taken ELSE n[u] = Joined
        BY <2>4, <3>2, <4>2
      <4> QED BY <4>3 DEF u
    <3> QED BY <3>1, <3>2
  <2>9. freed' \subseteq Int /\ blocks' \subseteq [adr : Nat, size : Nat \ {0}]
    BY <1>1, <1>2, <1>3
  <2>10. HeapState(n, D, blocks', freed')
    BY <2>4, <2>5, <2>6, <2>7, <2>8, <2>9 DEF HeapState
  <2>11. heap' = n
    BY <2>2 DEF n
  <2>12. Chunks(heap') = D
    BY <2>4, <2>11, ChunksOfChain
  <2> QED BY <2>10, <2>11, <2>12 DEF HeapInv
<1>5. ASSUME adr \in freed PROVE HeapInv'
  <2>1. c \in Units /\ IF c \in C THEN ~heap[c].taken ELSE heap[c] = Joined
    BY <1>1, <1>5
  <2>2. ~LooksAllocated(heap, c)
    BY <1>1, <2>1, LooksAreRight
  <2>3. heap' = heap
    BY <1>2, <2>2
  <2>4. freed' = freed
    BY <1>2, <1>5
  <2>5. blocks' = blocks
    <3>1. \A x \in blocks : x.adr # adr
      BY <1>1, <2>1
    <3> QED BY <1>2, <3>1
  <2> QED BY <2>3, <2>4, <2>5 DEF HeapInv
<1> QED BY <1>2, <1>4, <1>5

LEMMA Step == ASSUME HeapAssumption, HeapInv, [HeapNext]_heapVars PROVE HeapInv'
<1>1. ASSUME NEW u \in Units, HeapAlloc(u + 1) PROVE HeapInv'
  <2>1. u + 1 \in Nat \ {0}
    BY DEF HeapAssumption, Units
  <2> QED BY <1>1, <2>1, AllocStep
<1>2. ASSUME NEW u \in Units, HeapFree(u) PROVE HeapInv'
  BY <1>2, FreeStep
<1>3. CASE UNCHANGED heapVars
  BY <1>3 DEF heapVars, HeapInv
<1> QED BY <1>1, <1>2, <1>3 DEF HeapNext

THEOREM Invariance == HeapAssumption /\ HeapSpec => []HeapInv
<1> SUFFICES ASSUME HeapAssumption PROVE HeapSpec => []HeapInv
  OBVIOUS
<1>1. HeapInit => HeapInv
  BY InitHolds
<1>2. HeapInv /\ [HeapNext]_heapVars => HeapInv'
  BY Step
<1> QED BY <1>1, <1>2, PTL DEF HeapSpec

-----------------------------------------------------------------------------
(* What follows from it.                                                   *)

(* Every unit of the heap is in a chunk.                                   *)
LEMMA UnitsCovered ==
  ASSUME HeapAssumption, NEW m, NEW C, Chain(m, C), NEW u \in Units
  PROVE  \E c \in C : c <= u /\ u <= c + m[c].size
<1> DEFINE T == {k \in Nat : \E c \in C : k = u - c /\ c <= u}
<1>1. HeapSize \in Nat /\ u \in Int /\ 0 <= u /\ u < HeapSize /\ 0 \in C
  BY DEF HeapAssumption, Units, Chain
<1>2. u \in T
  BY <1>1
<1>3. PICK k \in T : \A j \in T : k <= j
  BY <1>2, LeastNumber
<1>4. PICK c \in C : k = u - c /\ c <= u
  BY <1>3
<1>5. c \in Int /\ m[c].size \in Nat /\ m[c].last \in BOOLEAN
  BY ChunkEnds
<1>6. CASE m[c].last
  <2>1. c + m[c].size = HeapSize - 1
    BY <1>6 DEF Chain
  <2> QED BY <1>1, <1>4, <1>5, <2>1
<1>7. CASE ~m[c].last
  <2> DEFINE d == Behind(m, c)
  <2>1. d \in C /\ d = c + 1 + m[c].size
    BY <1>7, ChunkEnds
  <2> HIDE DEF d
  <2>2. CASE d <= u
    <3>1. u - d \in Nat /\ u - d < k /\ k \in Nat
      BY <1>1, <1>3, <1>4, <1>5, <2>1, <2>2
    <3>2. u - d \in T
      BY <2>1, <2>2, <3>1
    <3> QED BY <1>3, <3>1, <3>2
  <2>3. CASE ~ (d <= u)
    BY <1>1, <1>4, <1>5, <2>1, <2>3
  <2> QED BY <2>2, <2>3
<1> QED BY <1>5, <1>6, <1>7

(* The headers hold sizes that fit the heap, chain all of it, lead back to *)
(* where they are led to from, and those in use are the blocks of users,   *)
(* which heap_free will not refuse.                                        *)
LEMMA InvCovers == ASSUME HeapAssumption, HeapInv PROVE ChainCoversHeap
<1> DEFINE C == Chunks(heap)
<1>1. HeapState(heap, C, blocks, freed)
  BY DEF HeapInv
<1>2. Chain(heap, C) /\ C \subseteq Units
  BY <1>1 DEF HeapState, Chain
<1> HIDE DEF C
<1>3. heap \in [Units -> Header \union {Joined, Data}]
  BY <1>2 DEF Chain
<1>4. UNION {Extent(c) : c \in C} = Units
  <2>1. ASSUME NEW u \in Units PROVE u \in UNION {Extent(c) : c \in C}
    <3>1. PICK c \in C : c <= u /\ u <= c + heap[c].size
      BY <1>2, UnitsCovered
    <3>2. u \in Extent(c)
      <4>1. u \in Int /\ c \in Int /\ heap[c].size \in Nat
        BY <1>2, ChunkEnds DEF Units, HeapAssumption
      <4> QED BY <3>1, <4>1 DEF Extent
    <3> QED BY <3>2
  <2>2. ASSUME NEW c \in C, NEW u \in Extent(c) PROVE u \in Units
    <3>1. c \in Int /\ 0 <= c /\ heap[c].size \in Nat /\ HeapSize \in Nat
          /\ c + heap[c].size < HeapSize
      BY <1>2, ChunkEnds
    <3> QED BY <3>1 DEF Extent, Units
  <2> QED BY <2>1, <2>2
<1>5. \A c \in C :
        IF heap[c].last THEN c + heap[c].size = HeapSize - 1
        ELSE MarkerPrev(heap, MarkerNext(heap, c)) = c
  <2> SUFFICES ASSUME NEW c \in C, ~heap[c].last
               PROVE  MarkerPrev(heap, MarkerNext(heap, c)) = c
    BY <1>2 DEF Chain
  <2> DEFINE d == Behind(heap, c)
  <2>1. d \in C /\ d # 0 /\ MarkerNext(heap, c) = d
    <3>1. d \in C /\ d = c + 1 + heap[c].size /\ 0 <= c /\ c \in Int
          /\ heap[c].size \in Nat
      BY <1>2, ChunkEnds
    <3>2. MarkerNext(heap, c) = d
      BY <1>2, Neighbours
    <3> QED BY <3>1, <3>2
  <2> HIDE DEF d
  <2>2. /\ MarkerPrev(heap, d) \in C
        /\ ~heap[MarkerPrev(heap, d)].last
        /\ Behind(heap, MarkerPrev(heap, d)) = d
    BY <1>2, <2>1, Neighbours
  <2>3. MarkerPrev(heap, d) = c
    BY <1>2, <2>2, ChunksApart DEF d
  <2> QED BY <2>1, <2>3
<1>6. Taken = {block.adr - 1 : block \in blocks}
  <2>1. Taken = {c \in C : heap[c].taken}
    BY DEF Taken, C
  <2>2. ASSUME NEW c \in C, heap[c].taken
        PROVE  c \in {block.adr - 1 : block \in blocks}
    <3>1. PICK x \in blocks : x.adr = c + 1
      BY <1>1, <2>2 DEF HeapState
    <3>2. c = x.adr - 1
      BY <1>2, <3>1, ChunkEnds
    <3> QED BY <3>2
  <2>3. ASSUME NEW x \in blocks PROVE x.adr - 1 \in C /\ heap[x.adr - 1].taken
    BY <1>1 DEF HeapState
  <2> QED BY <2>1, <2>2, <2>3
<1>7. \A x \in blocks : /\ heap[x.adr - 1].size >= x.size
                      /\ LooksAllocated(heap, x.adr - 1)
  <2> TAKE x \in blocks
  <2>1. /\ x.adr - 1 \in C /\ heap[x.adr - 1].taken
        /\ heap[x.adr - 1].size >= x.size
    BY <1>1 DEF HeapState
  <2>2. LooksAllocated(heap, x.adr - 1)
    BY <1>2, <2>1, LooksAreRight
  <2> QED BY <2>1, <2>2
<1> QED BY <1>3, <1>4, <1>5, <1>6, <1>7 DEF ChainCoversHeap, C

(* The headers of the heap chain all of it, whatever is allocated and      *)
(* freed: heap_alloc loses no memory, and heap_free finds the neighbours.  *)
THEOREM HeadersChainHeap == HeapAssumption /\ HeapSpec => []ChainCoversHeap
<1> SUFFICES ASSUME HeapAssumption PROVE HeapSpec => []ChainCoversHeap
  OBVIOUS
<1>1. HeapInv => ChainCoversHeap
  BY InvCovers
<1>2. HeapSpec => []HeapInv
  BY Invariance
<1> QED BY <1>1, <1>2, PTL

(* A free piece of the heap is in one chunk: its neighbours are in use.    *)
LEMMA InvFindsRoom == ASSUME HeapAssumption, HeapInv PROVE FreeRoomIsFound
<1> DEFINE C == Chunks(heap)
           free == Units \ UNION {Extent(c) : c \in Taken}
<1>1. Chain(heap, C) /\ Parted(heap, C) /\ C \subseteq Units
  BY DEF HeapInv, HeapState, Chain
<1>2. Taken = {c \in C : heap[c].taken}
  BY DEF Taken
<1> HIDE DEF C
<1>3. SUFFICES ASSUME NEW size \in Units \ {0}, NEW u \in Units,
                      u..(u + size) \subseteq free
               PROVE  Candidates(heap, size) # {}
  BY DEF FreeRoomIsFound
<1>4. HeapSize \in Nat /\ u \in Int /\ size \in Int /\ 0 < size
  BY DEF HeapAssumption, Units
<1>5. PICK c \in C : c <= u /\ u <= c + heap[c].size
  BY <1>1, UnitsCovered
<1>6. c \in Int /\ heap[c].size \in Nat
  BY <1>1, ChunkEnds
<1>7. ASSUME NEW d \in C, NEW v \in Extent(d), v \in u..(u + size)
      PROVE  ~heap[d].taken
  BY <1>2, <1>3, <1>7
<1>8. ~heap[c].taken
  <2>1. u \in Extent(c) /\ u \in u..(u + size)
    BY <1>4, <1>5, <1>6 DEF Extent
  <2> QED BY <1>7, <2>1
<1>9. u + size <= c + heap[c].size
  <2> SUFFICES ASSUME ~ (u + size <= c + heap[c].size) PROVE FALSE
    OBVIOUS
  <2>1. u + size \in Units
    <3>1. u + size \in u..(u + size)
      BY <1>4
    <3> QED BY <1>3, <3>1
  <2>2. ~heap[c].last
    <3>1. heap[c].last => c + heap[c].size = HeapSize - 1
      BY <1>1 DEF Chain
    <3>2. u + size <= HeapSize - 1
      BY <1>4, <2>1 DEF Units
    <3> QED BY <1>4, <1>6, <3>1, <3>2
  <2> DEFINE d == Behind(heap, c)
  <2>3. d \in C /\ d = c + 1 + heap[c].size /\ d \in Int
        /\ heap[d].size \in Nat
    BY <1>1, <2>2, ChunkEnds
  <2>4. heap[d].taken
    BY <1>1, <1>8, <2>2 DEF Parted
  <2> HIDE DEF d
  <2>5. d \in Extent(d) /\ d \in u..(u + size)
    BY <1>4, <1>5, <1>6, <2>3 DEF Extent
  <2> QED BY <1>7, <2>3, <2>4, <2>5
<1>10. heap[c].size >= size
  BY <1>4, <1>5, <1>6, <1>9
<1>11. c \in Candidates(heap, size)
  BY <1>8, <1>10 DEF Candidates, C
<1> QED BY <1>11

(* heap_alloc fails only when no piece of free memory is long enough.      *)
THEOREM FreeMemoryIsJoined == HeapAssumption /\ HeapSpec => []FreeRoomIsFound
<1> SUFFICES ASSUME HeapAssumption PROVE HeapSpec => []FreeRoomIsFound
  OBVIOUS
<1>1. HeapInv => FreeRoomIsFound
  BY InvFindsRoom
<1>2. HeapSpec => []HeapInv
  BY Invariance
<1> QED BY <1>1, <1>2, PTL

(* heap_free refuses a block that was given back before, as long as its    *)
(* header was not overwritten.                                             *)
THEOREM SecondFreeIsRefused == HeapAssumption /\ HeapSpec => []DoubleFreeIsRefused
<1> SUFFICES ASSUME HeapAssumption PROVE HeapSpec => []DoubleFreeIsRefused
  OBVIOUS
<1>1. HeapInv => DoubleFreeIsRefused
  <2> SUFFICES ASSUME HeapInv, NEW a \in freed
               PROVE  ~LooksAllocated(heap, a - 1)
    BY DEF DoubleFreeIsRefused
  <2> DEFINE C == Chunks(heap)
  <2>1. /\ Chain(heap, C) /\ a - 1 \in Units
        /\ IF a - 1 \in C THEN ~heap[a - 1].taken ELSE heap[a - 1] = Joined
    BY DEF HeapInv, HeapState
  <2> HIDE DEF C
  <2> QED BY <2>1, LooksAreRight
<1>2. HeapSpec => []HeapInv
  BY Invariance
<1> QED BY <1>1, <1>2, PTL

(* The promises of the heap's bookkeeping, for a heap of any size: the     *)
(* headers chain all of it and tell the truth, heap_alloc finds every      *)
(* piece that is long enough, and heap_free refuses a second free.         *)
THEOREM HeapIsWhole == HeapAssumption /\ HeapSpec => []HeapHolds
<1>1. ChainCoversHeap /\ FreeRoomIsFound /\ DoubleFreeIsRefused => HeapHolds
  BY DEF HeapHolds
<1> QED BY <1>1, HeadersChainHeap, FreeMemoryIsJoined, SecondFreeIsRefused, PTL

-----------------------------------------------------------------------------
(* The heap is an allocator.                                               *)

Piece(block) == block.adr..(block.adr + block.size - 1)
Pieces == {Piece(block) : block \in blocks}

(* A user's block lies behind the header of its chunk.                     *)
LEMMA PieceInChunk ==
  ASSUME HeapAssumption, HeapInv, NEW x \in blocks
  PROVE  /\ x.adr \in Int /\ x.size \in Nat \ {0}
         /\ x.adr - 1 \in Chunks(heap)
         /\ heap[x.adr - 1].taken
         /\ \A u \in Piece(x) : u \in Int /\ x.adr - 1 < u
                                /\ u <= x.adr - 1 + heap[x.adr - 1].size
<1> DEFINE c == x.adr - 1
<1>1. /\ x.adr \in Nat /\ x.size \in Nat \ {0} /\ c \in Chunks(heap)
      /\ heap[c].taken /\ heap[c].size >= x.size
      /\ Chain(heap, Chunks(heap))
  BY DEF HeapInv, HeapState
<1>2. heap[c].size \in Nat
  BY <1>1, ChunkEnds
<1> QED BY <1>1, <1>2 DEF Piece

(* Two blocks share no memory.                                             *)
LEMMA PiecesApart ==
  ASSUME HeapAssumption, HeapInv, NEW x \in blocks, NEW y \in blocks,
         NEW u \in Piece(x), u \in Piece(y)
  PROVE  x = y
<1> DEFINE c == x.adr - 1
           d == y.adr - 1
           C == Chunks(heap)
<1>1. Chain(heap, C)
  BY DEF HeapInv, HeapState
<1>2. /\ c \in C /\ u \in Int /\ c < u /\ u <= c + heap[c].size
      /\ d \in C /\ d < u /\ u <= d + heap[d].size
      /\ x.adr \in Int /\ y.adr \in Int
  BY PieceInChunk
<1> HIDE DEF C
<1>3. c = d
  <2> HIDE DEF c, d
  <2>1. /\ c \in Int /\ d \in Int
        /\ heap[c].size \in Nat /\ heap[d].size \in Nat
        /\ c < d => c + heap[c].size < d
        /\ d < c => d + heap[d].size < c
    BY <1>1, <1>2, ChunkEnds, ChunksApart
  <2> QED BY <1>2, <2>1
<1>4. x.adr = y.adr
  BY <1>2, <1>3
<1> QED BY <1>4 DEF HeapInv, HeapState

(* A new piece of the heap that overlaps none is a step of the allocator.  *)
LEMMA NewPiece ==
  ASSUME NEW lo \in Units, NEW hi \in Units, lo <= hi, lo..hi \subseteq Units,
         \A x \in blocks : Piece(x) \cap (lo..hi) = {},
         Pieces' = Pieces \union {lo..hi}
  PROVE  Abstract!Next
<1>1. \A p \in Pieces : p \cap (lo..hi) = {}
  BY DEF Pieces
<1> QED BY <1>1 DEF Abstract!Next, Abstract!Alloc, Pieces, Piece

(* A block that heap_alloc returns is a piece of the heap and nobody's.    *)
LEMMA AllocRefines ==
  ASSUME HeapAssumption, HeapInv, NEW size \in Nat \ {0}, HeapAlloc(size)
  PROVE  Abstract!Next
<1> DEFINE C == Chunks(heap)
           best == BestFit(heap, size)
           lo == best + 1
           hi == best + size
           block == [adr |-> best + 1, size |-> size]
<1>1. Candidates(heap, size) # {} /\ blocks' = blocks \union {block}
  BY DEF HeapAlloc
<1>2. Chain(heap, C)
  BY DEF HeapInv, HeapState
<1>3. best \in C /\ ~heap[best].taken /\ heap[best].size >= size
  <2>1. best \in Candidates(heap, size)
    BY <1>1, <1>2, BestFitExists
  <2> QED BY <2>1 DEF Candidates
<1>4. /\ best \in Int /\ 0 <= best /\ heap[best].size \in Nat
      /\ best + heap[best].size < HeapSize /\ HeapSize \in Nat
  BY <1>2, <1>3, ChunkEnds
<1>5. Piece(block) = lo..hi
  <2>1. best + 1 + size - 1 = best + size
    BY <1>4
  <2> QED BY <2>1 DEF Piece
<1>6. \A x \in blocks : Piece(x) \cap (lo..hi) = {}
  <2> SUFFICES ASSUME NEW x \in blocks, NEW u \in Piece(x), u \in lo..hi
               PROVE  FALSE
    OBVIOUS
  <2> DEFINE c == x.adr - 1
  <2>1. /\ c \in C /\ heap[c].taken /\ u \in Int
        /\ c < u /\ u <= c + heap[c].size
    BY PieceInChunk
  <2>2. best < u /\ u <= best + heap[best].size
    BY <1>3, <1>4, <2>1
  <2> HIDE DEF c, best, C
  <2>3. c # best
    BY <1>3, <2>1
  <2>4. /\ c \in Int /\ heap[c].size \in Nat
        /\ c < best => c + heap[c].size < best
        /\ best < c => best + heap[best].size < c
    BY <1>2, <1>3, <2>1, ChunkEnds, ChunksApart
  <2> QED BY <1>4, <2>1, <2>2, <2>3, <2>4
<1>7. Pieces' = Pieces \union {lo..hi}
  <2> HIDE DEF best, block, lo, hi
  <2> QED BY <1>1, <1>5 DEF Pieces
<1>8. lo \in Units /\ hi \in Units /\ lo <= hi /\ lo..hi \subseteq Units
  BY <1>3, <1>4 DEF Units
<1> HIDE DEF lo, hi, best
<1> QED BY <1>6, <1>7, <1>8, NewPiece

(* heap_free gives back one block, or nothing when it was given back.      *)
LEMMA FreeRefines ==
  ASSUME HeapAssumption, HeapInv, NEW adr, HeapFree(adr)
  PROVE  Abstract!Next \/ Pieces' = Pieces
<1>1. blocks' = {block \in blocks : block.adr # adr}
  BY DEF HeapFree
<1>2. CASE \A x \in blocks : x.adr # adr
  <2>1. blocks' = blocks
    BY <1>1, <1>2
  <2> QED BY <2>1 DEF Pieces
<1>3. CASE \E x \in blocks : x.adr = adr
  <2>1. PICK x \in blocks : x.adr = adr
    BY <1>3
  <2>2. blocks' = blocks \ {x}
    BY <1>1, <2>1 DEF HeapInv, HeapState
  <2>3. ASSUME NEW y \in blocks, Piece(y) = Piece(x) PROVE y = x
    <3>1. x.adr \in Piece(x)
      BY PieceInChunk DEF Piece
    <3> QED BY <2>3, <3>1, PiecesApart
  <2>4. Pieces' = Pieces \ {Piece(x)}
    BY <2>2, <2>3 DEF Pieces
  <2>5. Piece(x) \in Pieces
    BY DEF Pieces
  <2>6. Abstract!Free(Piece(x))
    BY <2>4 DEF Abstract!Free, Pieces, Piece
  <2> QED BY <2>5, <2>6 DEF Abstract!Next, Pieces, Piece
<1> QED BY <1>2, <1>3

(* The heap hands out its own memory, each piece to one user.              *)
THEOREM HeapIsAllocator == HeapAssumption /\ HeapSpec => ImplementsAllocator
<1> SUFFICES ASSUME HeapAssumption PROVE HeapSpec => ImplementsAllocator
  OBVIOUS
<1>1. HeapInit => Abstract!Init
  BY DEF HeapInit, Abstract!Init
<1>2. HeapInv /\ [HeapNext]_heapVars => [Abstract!Next]_(Abstract!vars)
  <2> SUFFICES ASSUME HeapInv, [HeapNext]_heapVars
               PROVE  Abstract!Next \/ Pieces' = Pieces
    BY DEF Abstract!vars, Pieces, Piece
  <2>1. ASSUME NEW u \in Units, HeapAlloc(u + 1) PROVE Abstract!Next
    <3>1. u + 1 \in Nat \ {0}
      BY DEF HeapAssumption, Units
    <3> QED BY <2>1, <3>1, AllocRefines
  <2>2. ASSUME NEW u \in Units, HeapFree(u)
        PROVE  Abstract!Next \/ Pieces' = Pieces
    BY <2>2, FreeRefines
  <2>3. CASE UNCHANGED heapVars
    BY <2>3 DEF heapVars, Pieces
  <2> QED BY <2>1, <2>2, <2>3 DEF HeapNext
<1>3. HeapSpec => []HeapInv
  BY Invariance
<1> QED BY <1>1, <1>2, <1>3, PTL DEF HeapSpec, ImplementsAllocator, Abstract!Spec
=============================================================================
