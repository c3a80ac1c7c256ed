---------------------------- MODULE ObjectLists ----------------------------
(***************************************************************************)
(* The other containers of the utility library: the list of objects in an  *)
(* array that grows, and the bit set.  SIZE_INITIAL and the words of a bit *)
(* set are constants, to be small.                                         *)
(***************************************************************************)
EXTENDS Integers, FiniteSets

CONSTANTS
  Objs,          \* the objects, each on a list once
  SIZE_INITIAL,
  Step,          \* what SIZE_NEXT adds
  WordBits,      \* the bits of a word
  SetSizes       \* the sizes of bit sets asked for

ObjectsAssumption ==
  /\ IsFiniteSet(Objs) /\ 0 \notin Objs
  /\ SIZE_INITIAL \in Nat \ {0} /\ Step \in Nat
  /\ WordBits \in Nat \ {0} /\ SetSizes \subseteq Nat

VARIABLES
  curr, size, list,  \* the object list; list is its array
  onList,            \* the objects the user has put on it and not taken off
  bits, data,        \* the size of the bit set and its words
  members            \* what the user has last set of each bit

olistVars == <<curr, size, list, onList>>
bitsetVars == <<bits, data, members>>

NoObject == 0
SIZE_NEXT(x) == x * 2 + Step

(* olist_init and bitset_init; a bit set is not cleared.                   *)
RoundedUp(n) == ((n + WordBits - 1) \div WordBits) * WordBits
ObjectsInit ==
  /\ curr = 0 /\ size = SIZE_INITIAL
  /\ list = [k \in 0..(SIZE_INITIAL - 1) |-> NoObject]
  /\ onList = {}
  /\ \E n \in SetSizes : bits = RoundedUp(n)
  /\ data \in [0..(bits \div WordBits - 1) -> {{}, 0..(WordBits - 1)}]
  /\ members = [n \in 0..(bits - 1) |-> n % WordBits \in data[n \div WordBits]]

(* olist_grow: a new array with the objects of the old one.                *)
Grown(l) == [k \in 0..(SIZE_NEXT(size) - 1) |-> IF k < curr THEN l[k] ELSE NoObject]

(* olist_item_push: the array grows with a place left; without memory for  *)
(* it the object is refused.                                               *)
ItemPush(o) ==
  /\ o \in Objs \ onList
  /\ LET full == curr >= size - 1
     IN  \/ full /\ UNCHANGED olistVars
         \/ /\ size' = IF full THEN SIZE_NEXT(size) ELSE size
            /\ list' = [(IF full THEN Grown(list) ELSE list) EXCEPT ![curr] = o]
            /\ curr' = curr + 1
            /\ onList' = onList \cup {o}

(* olist_item_get                                                          *)
ItemGet(k) == IF k < 0 \/ k >= curr THEN NoObject ELSE list[k]

(* olist_item_pop                                                          *)
ItemPop ==
  /\ curr' = IF curr = 0 THEN 0 ELSE curr - 1
  /\ onList' = onList \ {ItemGet(curr - 1)}
  /\ UNCHANGED <<size, list>>

(* olist_item_remove: the last object takes the place.                     *)
ItemRemove(k) ==
  /\ IF k < 0 \/ k >= curr THEN UNCHANGED <<curr, list>>
     ELSE /\ curr' = curr - 1
          /\ list' = IF k = curr - 1 THEN list ELSE [list EXCEPT ![k] = list[curr - 1]]
  /\ onList' = onList \ {ItemGet(k)}
  /\ UNCHANGED size

OlistNext ==
  \/ \E o \in Objs : ItemPush(o)
  \/ ItemPop
  \/ \E k \in -1..Cardinality(Objs) : ItemRemove(k)

-----------------------------------------------------------------------------
(* bitset_set, a bit of a word; one outside the set is ignored.            *)
BitsetSet(n, value) ==
  IF n < 0 \/ n >= bits THEN UNCHANGED bitsetVars
  ELSE /\ data' = [data EXCEPT ![n \div WordBits] =
                     IF value THEN @ \cup {n % WordBits} ELSE @ \ {n % WordBits}]
       /\ members' = [members EXCEPT ![n] = value]
       /\ UNCHANGED bits

(* bitset_set_all, a word at a time                                        *)
BitsetSetAll(value) ==
  /\ data' = [w \in 0..(bits \div WordBits - 1) |->
                IF value THEN 0..(WordBits - 1) ELSE {}]
  /\ members' = [n \in 0..(bits - 1) |-> value]
  /\ UNCHANGED bits

(* bitset_get                                                              *)
BitsetGet(n) ==
  n >= 0 /\ n < bits /\ n % WordBits \in data[n \div WordBits]

BitsetNext ==
  \E value \in BOOLEAN : \/ BitsetSetAll(value)
                         \/ \E n \in -1..(bits + 1) : BitsetSet(n, value)

-----------------------------------------------------------------------------
(* The object list has the objects of its user, each once and inside the   *)
(* array, and the bit set the bits he set.                                 *)
ObjectsHold ==
  /\ curr <= size
  /\ Cardinality(onList) = curr
  /\ {ItemGet(k) : k \in 0..(curr - 1)} = onList
  /\ \A n \in 0..(bits - 1) : BitsetGet(n) = members[n]
  /\ ~BitsetGet(-1) /\ ~BitsetGet(bits)
=============================================================================
