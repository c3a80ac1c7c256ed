-------------------------- MODULE ContainersProofs --------------------------
(***************************************************************************)
(* Proofs about the containers, for any number of lists, items, objects    *)
(* and bits: a list is known from its links alone, the array of objects    *)
(* from its first places, and a bit from one word.                         *)
(***************************************************************************)
EXTENDS Containers, TLAPS, FiniteSetTheorems, SequenceTheorems, WellFoundedInduction

-----------------------------------------------------------------------------
(* Lists.                                                                  *)

(* The node at place k of the ring that the root and the items s make: the *)
(* root is in front and behind.                                            *)
Node(root, s, k) == IF k \in 1..Len(s) THEN s[k] ELSE root

Distinct(s) == \A h, k \in 1..Len(s) : s[h] = s[k] => h = k

(* The ring is linked in both directions.                                  *)
Linked(n, p, root, s) ==
  \A k \in 0..Len(s) : /\ n[Node(root, s, k)] = Node(root, s, k + 1)
                       /\ p[Node(root, s, k + 1)] = Node(root, s, k)

InNone(item, ls) == \A r \in Roots : ~Contains(ls[r], item)

(* Every list is a ring of its own, and every other item is linked to      *)
(* itself, or to nothing yet.                                              *)
Rings(n, p, ls) ==
  /\ n \in [ListNodes -> ListNodes \cup {Wild}]
  /\ p \in [ListNodes -> ListNodes \cup {Wild}]
  /\ ls \in [Roots -> Seq(Items)]
  /\ \A r \in Roots : Distinct(ls[r]) /\ Linked(n, p, r, ls[r])
  /\ \A r, q \in Roots : r # q =>
       \A i \in Items : ~(Contains(ls[r], i) /\ Contains(ls[q], i))
  /\ \A i \in Items : InNone(i, ls) =>
       (n[i] = i /\ p[i] = i) \/ (n[i] = Wild /\ p[i] = Wild)

ListsInv == Rings(next, prev, listed)

-----------------------------------------------------------------------------
(* The object list and the bit set.                                        *)

(* The first places hold the objects of the user, each once, and one place *)
(* is always left.                                                         *)
OlistInv ==
  /\ curr \in Nat /\ size \in Nat /\ curr < size
  /\ list \in [0..(size - 1) -> Objs \cup {NoObject}]
  /\ \A h, k \in 0..(curr - 1) : list[h] = list[k] => h = k
  /\ onList = {list[k] : k \in 0..(curr - 1)}
  /\ onList \subseteq Objs
  /\ Cardinality(onList) = curr

(* There are whole words, and the bits of the set are theirs.              *)
BitsetInv ==
  /\ bits \in Nat /\ bits % WordBits = 0
  /\ data \in [0..(bits \div WordBits - 1) -> SUBSET (0..(WordBits - 1))]
  /\ members \in [0..(bits - 1) -> BOOLEAN]
  /\ \A n \in 0..(bits - 1) : members[n] <=> n % WordBits \in data[n \div WordBits]

-----------------------------------------------------------------------------
(* The object list keeps its invariant.                                    *)

(* An object is appended: a place was left for it, or there is a larger    *)
(* array.                                                                  *)
LEMMA PushKeeps ==
  ASSUME ObjectsAssumption, OlistInv, NEW o \in Objs, ItemPush(o)
  PROVE  OlistInv'
<1> DEFINE full == curr >= size - 1
           room == IF full THEN SIZE_NEXT(size) ELSE size
           copy == IF full THEN Grown(list) ELSE list
<1>1. CASE UNCHANGED olistVars
  BY <1>1 DEF olistVars, OlistInv
<1>2. CASE ~UNCHANGED olistVars
  <2>1. /\ o \notin onList
        /\ size' = room /\ list' = [copy EXCEPT ![curr] = o]
        /\ curr' = curr + 1 /\ onList' = onList \cup {o}
    BY <1>2 DEF ItemPush
  <2>2. room \in Nat /\ curr + 1 < room /\ size <= room
    BY DEF ObjectsAssumption, OlistInv, SIZE_NEXT
  <2>3. /\ copy \in [0..(room - 1) -> Objs \cup {NoObject}]
        /\ \A k \in 0..(curr - 1) : copy[k] = list[k]
    <3>1. CASE full
      <4>1. \A k \in 0..(room - 1) : k < curr => k \in 0..(size - 1)
        BY DEF OlistInv
      <4>2. \A k \in 0..(curr - 1) : k \in 0..(room - 1) /\ k < curr
        BY <2>2 DEF OlistInv
      <4>3. copy = [k \in 0..(room - 1) |-> IF k < curr THEN list[k] ELSE NoObject]
        BY <3>1 DEF Grown
      <4> HIDE DEF copy, room
      <4> QED BY <4>1, <4>2, <4>3 DEF OlistInv
    <3>2. CASE ~full
      BY <3>2 DEF OlistInv
    <3> QED BY <3>1, <3>2
  <2> HIDE DEF room, copy, full
  <2>4. /\ list' \in [0..(room - 1) -> Objs \cup {NoObject}]
        /\ list'[curr] = o
        /\ \A k \in 0..(curr - 1) : list'[k] = list[k]
    <3>1. curr \in 0..(room - 1) /\ \A k \in 0..(curr - 1) : k # curr /\ k \in 0..(room - 1)
      BY <2>2 DEF OlistInv
    <3> QED BY <2>1, <2>3, <3>1
  <2>5. \A k \in 0..(curr' - 1) : k = curr \/ k \in 0..(curr - 1)
    BY <2>1 DEF OlistInv
  <2>6. \A k \in 0..(curr - 1) : list[k] # o
    BY <2>1 DEF OlistInv
  <2>7. \A h, k \in 0..(curr' - 1) : list'[h] = list'[k] => h = k
    BY <2>4, <2>5, <2>6 DEF OlistInv
  <2>8. onList' = {list'[k] : k \in 0..(curr' - 1)}
    <3>1. curr \in 0..(curr' - 1) /\ \A k \in 0..(curr - 1) : k \in 0..(curr' - 1)
      BY <2>1 DEF OlistInv
    <3> QED BY <2>1, <2>4, <2>5, <3>1 DEF OlistInv
  <2>9. Cardinality(onList') = curr'
    <3>1. IsFiniteSet(onList)
      BY FS_Subset DEF ObjectsAssumption, OlistInv
    <3> QED BY <2>1, <3>1, FS_AddElement DEF OlistInv
  <2> QED BY <2>1, <2>2, <2>4, <2>7, <2>8, <2>9 DEF OlistInv
<1> QED BY <1>1, <1>2

(* An object is taken out and the last one takes its place.                *)
LEMMA RemoveKeeps ==
  ASSUME ObjectsAssumption, OlistInv, NEW k \in Int, ItemRemove(k)
  PROVE  OlistInv'
<1>1. CASE k < 0 \/ k >= curr
  <2>1. ItemGet(k) \notin onList
    BY <1>1 DEF ItemGet, NoObject, ObjectsAssumption, OlistInv
  <2>2. onList' = onList /\ UNCHANGED <<curr, size, list>>
    BY <1>1, <2>1 DEF ItemRemove
  <2> QED BY <2>2 DEF OlistInv
<1>2. CASE ~(k < 0 \/ k >= curr)
  <2> DEFINE last == curr - 1
  <2>1. k \in 0..last /\ last \in 0..last /\ last \in Nat /\ last < size /\ 0..last \subseteq 0..(size - 1)
    BY <1>2 DEF OlistInv
  <2>2. /\ curr' = last /\ size' = size
        /\ list' = IF k = last THEN list ELSE [list EXCEPT ![k] = list[last]]
        /\ onList' = onList \ {list[k]}
    BY <1>2 DEF ItemRemove, ItemGet
  <2>3. \A h \in 0..last : list'[h] = IF h = k THEN list[last] ELSE list[h]
    BY <2>1, <2>2 DEF OlistInv
  <2>4. list' \in [0..(size - 1) -> Objs \cup {NoObject}]
    BY <2>1, <2>2 DEF OlistInv
  <2>5. \A g, h \in 0..last : list[g] = list[h] => g = h
    BY DEF OlistInv
  <2>6. \A h \in 0..(last - 1) : h \in 0..last /\ h # last
    BY <2>1
  <2>7. \A g, h \in 0..(last - 1) : list'[g] = list'[h] => g = h
    BY <2>1, <2>3, <2>5, <2>6
  <2>8. onList' = {list'[h] : h \in 0..(last - 1)}
    <3>1. onList = {list[h] : h \in 0..last}
      BY DEF OlistInv
    <3>2. \A h \in 0..last : h = last \/ h \in 0..(last - 1)
      BY <2>1
    <3> HIDE DEF last
    <3>3. ASSUME NEW x \in onList' PROVE x \in {list'[h] : h \in 0..(last - 1)}
      <4>1. PICK h \in 0..last : x = list[h]
        BY <2>2, <3>1
      <4>2. h # k
        BY <2>2, <4>1
      <4>3. CASE h = last
        <5>1. k \in 0..(last - 1) /\ list'[k] = x
          BY <2>1, <2>3, <3>2, <4>1, <4>2, <4>3
        <5> QED BY <5>1
      <4>4. CASE h # last
        <5>1. h \in 0..(last - 1) /\ list'[h] = x
          BY <2>3, <3>2, <4>1, <4>2, <4>4
        <5> QED BY <5>1
      <4> QED BY <4>3, <4>4
    <3>4. ASSUME NEW h \in 0..(last - 1) PROVE list'[h] \in onList'
      <4>1. h \in 0..last /\ h # last
        BY <2>6
      <4>2. list'[h] = IF h = k THEN list[last] ELSE list[h]
        BY <2>3, <4>1
      <4>3. list'[h] # list[k]
        BY <2>1, <2>5, <4>1, <4>2
      <4> QED BY <2>1, <2>2, <3>1, <4>1, <4>2, <4>3
    <3> QED BY <3>3, <3>4
  <2>9. Cardinality(onList') = last
    <3>1. IsFiniteSet(onList)
      BY FS_Subset DEF ObjectsAssumption, OlistInv
    <3>2. list[k] \in onList
      BY <2>1 DEF OlistInv
    <3>3. Cardinality(onList \ {list[k]}) = Cardinality(onList) - 1
      BY <3>1, <3>2, FS_RemoveElement
    <3>4. Cardinality(onList) = curr
      BY DEF OlistInv
    <3> QED BY <2>2, <3>3, <3>4
  <2> QED BY <2>1, <2>2, <2>4, <2>7, <2>8, <2>9 DEF OlistInv
<1> QED BY <1>1, <1>2

(* A pop is the removal of the last object.                                *)
LEMMA PopRemoves ==
  ASSUME OlistInv, ItemPop PROVE ItemRemove(curr - 1)
BY DEF OlistInv, ItemPop, ItemRemove, ItemGet

LEMMA OlistStep ==
  ASSUME ObjectsAssumption, OlistInv, OlistNext PROVE OlistInv'
<1>1. ASSUME NEW o \in Objs, ItemPush(o) PROVE OlistInv'
  BY <1>1, PushKeeps
<1>2. ASSUME ItemPop PROVE OlistInv'
  <2>1. curr - 1 \in Int
    BY DEF OlistInv
  <2> QED BY <1>2, <2>1, PopRemoves, RemoveKeeps
<1>3. ASSUME NEW k \in -1..Cardinality(Objs), ItemRemove(k) PROVE OlistInv'
  <2>1. k \in Int
    OBVIOUS
  <2> QED BY <1>3, <2>1, RemoveKeeps
<1> QED BY <1>1, <1>2, <1>3 DEF OlistNext

-----------------------------------------------------------------------------
(* The bit set keeps its invariant.                                        *)

(* A bit has a word and a place in it, and no other bit has both.          *)
LEMMA Places ==
  ASSUME ObjectsAssumption, NEW n \in Nat
  PROVE  /\ n % WordBits \in 0..(WordBits - 1)
         /\ n \div WordBits \in Nat
         /\ n % WordBits = n - WordBits * (n \div WordBits)
BY DEF ObjectsAssumption

(* The words of a bit set that is whole words hold its bits.               *)
LEMMA WordOf ==
  ASSUME ObjectsAssumption, NEW b \in Nat, b % WordBits = 0, NEW n \in 0..(b - 1)
  PROVE  n \div WordBits \in 0..(b \div WordBits - 1)
<1> DEFINE w == b \div WordBits
           v == n \div WordBits
           r == n % WordBits
<1>3. WordBits \in Nat \ {0} /\ n \in Nat
  BY DEF ObjectsAssumption
<1>1. w \in Nat /\ b % WordBits = b - WordBits * w
  BY Places
<1>2. v \in Nat /\ r \in 0..(WordBits - 1) /\ r = n - WordBits * v
  BY <1>3, Places
<1> HIDE DEF w, v, r
<1>4. v < w
  <2>1. SUFFICES ASSUME v >= w PROVE FALSE
    BY <1>1, <1>2
  <2>2. WordBits * v >= WordBits * w
    BY <1>1, <1>2, <1>3, <2>1
  <2> QED BY <1>1, <1>2, <1>3, <2>2
<1> QED BY <1>1, <1>2, <1>4 DEF w, v

(* What is asked for is rounded up to whole words.                         *)
LEMMA WholeWords ==
  ASSUME ObjectsAssumption, NEW n \in Nat
  PROVE  RoundedUp(n) \in Nat /\ RoundedUp(n) % WordBits = 0
<1> DEFINE w == (n + WordBits - 1) \div WordBits
<1>1. n + WordBits - 1 \in Nat /\ WordBits \in Nat \ {0}
  BY DEF ObjectsAssumption
<1>2. w \in Nat
  BY <1>1, Places
<1>3. RoundedUp(n) = w * WordBits
  BY DEF RoundedUp
<1> HIDE DEF w
<1>4. w * WordBits \in Nat /\ (w * WordBits) % WordBits = 0
  BY <1>1, <1>2
<1> QED BY <1>3, <1>4

LEMMA BitsetInitially ==
  ASSUME ObjectsAssumption, ObjectsInit PROVE BitsetInv
<1>1. bits \in Nat /\ bits % WordBits = 0
  BY WholeWords DEF ObjectsInit, ObjectsAssumption
<1>2. {{}, 0..(WordBits - 1)} \subseteq SUBSET (0..(WordBits - 1))
  OBVIOUS
<1>3. data \in [0..(bits \div WordBits - 1) -> SUBSET (0..(WordBits - 1))]
  BY <1>2 DEF ObjectsInit
<1>4. members = [n \in 0..(bits - 1) |-> n % WordBits \in data[n \div WordBits]]
  BY DEF ObjectsInit
<1>5. members \in [0..(bits - 1) -> BOOLEAN]
  BY <1>4
<1>6. \A n \in 0..(bits - 1) : members[n] <=> n % WordBits \in data[n \div WordBits]
  BY <1>4, Zenon
<1> QED BY <1>1, <1>3, <1>5, <1>6 DEF BitsetInv

(* One bit of one word is set or cleared, and no other bit is in its place. *)
LEMMA SetKeeps ==
  ASSUME ObjectsAssumption, BitsetInv, NEW n \in Int, NEW value \in BOOLEAN, BitsetSet(n, value)
  PROVE  BitsetInv'
<1>1. CASE n < 0 \/ n >= bits
  BY <1>1 DEF BitsetSet, bitsetVars, BitsetInv
<1>2. CASE ~(n < 0 \/ n >= bits)
  <2> DEFINE w == n \div WordBits
             r == n % WordBits
             word == IF value THEN data[w] \cup {r} ELSE data[w] \ {r}
  <2>1. n \in 0..(bits - 1) /\ n \in Nat /\ bits \in Nat /\ bits % WordBits = 0
    BY <1>2 DEF BitsetInv
  <2>2. w \in 0..(bits \div WordBits - 1)
    BY <2>1, WordOf
  <2>3. r \in 0..(WordBits - 1)
    BY <2>1, Places
  <2>4. /\ data' = [data EXCEPT ![w] = word]
        /\ members' = [members EXCEPT ![n] = value]
        /\ bits' = bits
    BY <1>2 DEF BitsetSet
  <2> HIDE DEF w, r
  <2>5. word \in SUBSET (0..(WordBits - 1))
    BY <2>2, <2>3 DEF BitsetInv
  <2>6. \A x : x # r => (x \in word <=> x \in data[w])
    OBVIOUS
  <2>7. r \in word <=> value
    OBVIOUS
  <2> HIDE DEF word
  <2>8. data' \in [0..(bits \div WordBits - 1) -> SUBSET (0..(WordBits - 1))]
    BY <2>2, <2>4, <2>5 DEF BitsetInv
  <2>9. members' \in [0..(bits - 1) -> BOOLEAN]
    BY <2>1, <2>4, Zenon DEF BitsetInv
  <2>10. ASSUME NEW m \in 0..(bits - 1)
         PROVE  members'[m] <=> m % WordBits \in data'[m \div WordBits]
    <3> DEFINE v == m \div WordBits
               q == m % WordBits
    <3>1. m \in Nat
      BY <2>1
    <3>2. v \in 0..(bits \div WordBits - 1)
      BY <2>1, WordOf
    <3>3. (v = w /\ q = r) => m = n
      <4>1. w \in Nat /\ r = n - WordBits * w
        BY <2>1, Places DEF w, r
      <4>3. v \in Nat /\ q = m - WordBits * v
        BY <3>1, Places
      <4>2. WordBits \in Nat
        BY DEF ObjectsAssumption
      <4> HIDE DEF v, q
      <4> QED BY <2>1, <3>1, <4>1, <4>2, <4>3
    <3>4. m = n => (v = w /\ q = r)
      BY DEF w, r
    <3>5. members[m] <=> q \in data[v]
      BY DEF BitsetInv
    <3>6. data'[v] = IF v = w THEN word ELSE data[v]
      BY <2>4, <3>2 DEF BitsetInv
    <3> HIDE DEF v, q
    <3>7. members'[m] = IF m = n THEN value ELSE members[m]
      BY <2>4, Zenon DEF BitsetInv
    <3>8. members'[m] <=> q \in data'[v]
      <4>1. CASE m = n
        BY <4>1, <3>4, <3>6, <3>7, <2>7, Zenon
      <4>2. CASE m # n /\ v = w
        BY <4>2, <3>3, <3>5, <3>6, <3>7, <2>6, Zenon
      <4>3. CASE m # n /\ v # w
        BY <4>3, <3>5, <3>6, <3>7, Zenon
      <4> QED BY <4>1, <4>2, <4>3
    <3> QED BY <3>8 DEF v, q
  <2> QED BY <2>1, <2>4, <2>8, <2>9, <2>10 DEF BitsetInv
<1> QED BY <1>1, <1>2

LEMMA SetAllKeeps ==
  ASSUME ObjectsAssumption, BitsetInv, NEW value \in BOOLEAN, BitsetSetAll(value)
  PROVE  BitsetInv'
<1> DEFINE word == IF value THEN 0..(WordBits - 1) ELSE {}
<1>1. /\ data' = [w \in 0..(bits \div WordBits - 1) |-> word]
      /\ members' = [n \in 0..(bits - 1) |-> value]
      /\ bits' = bits
  BY DEF BitsetSetAll
<1>2. word \in SUBSET (0..(WordBits - 1))
  OBVIOUS
<1>3. \A x \in 0..(WordBits - 1) : x \in word <=> value
  OBVIOUS
<1> HIDE DEF word
<1>4. data' \in [0..(bits \div WordBits - 1) -> SUBSET (0..(WordBits - 1))]
  BY <1>1, <1>2
<1>5. members' \in [0..(bits - 1) -> BOOLEAN]
  BY <1>1, Zenon
<1>6. ASSUME NEW m \in 0..(bits - 1)
      PROVE  members'[m] <=> m % WordBits \in data'[m \div WordBits]
  <2>1. bits \in Nat /\ bits % WordBits = 0 /\ m \in Nat
    BY DEF BitsetInv
  <2>2. m \div WordBits \in 0..(bits \div WordBits - 1)
    BY <2>1, WordOf
  <2>3. m % WordBits \in 0..(WordBits - 1)
    BY <2>1, Places
  <2>4. data'[m \div WordBits] = word
    BY <1>1, <2>2
  <2>5. members'[m] = value
    BY <1>1, Zenon
  <2> QED BY <1>3, <2>3, <2>4, <2>5, Zenon
<1> QED BY <1>1, <1>4, <1>5, <1>6 DEF BitsetInv

LEMMA BitsetStep ==
  ASSUME ObjectsAssumption, BitsetInv, BitsetNext PROVE BitsetInv'
<1>1. ASSUME NEW value \in BOOLEAN, NEW n \in -1..(bits + 1), BitsetSet(n, value)
      PROVE  BitsetInv'
  <2>1. n \in Int
    BY DEF BitsetInv
  <2> QED BY <1>1, <2>1, SetKeeps
<1> QED BY <1>1, SetAllKeeps DEF BitsetNext

LEMMA OlistInitially ==
  ASSUME ObjectsAssumption, ObjectsInit PROVE OlistInv
<1>1. /\ curr = 0 /\ size = SIZE_INITIAL /\ onList = {}
      /\ list = [k \in 0..(SIZE_INITIAL - 1) |-> NoObject]
  BY DEF ObjectsInit
<1>2. SIZE_INITIAL \in Nat \ {0} /\ 0..(0 - 1) = {}
  BY DEF ObjectsAssumption
<1>3. Cardinality({}) = 0
  BY FS_EmptySet
<1> QED BY <1>1, <1>2, <1>3 DEF OlistInv

(* The user finds his objects and his bits.                                *)
LEMMA ObjectsAreKept ==
  ASSUME OlistInv, BitsetInv PROVE ObjectsHold
<1>1. curr <= size /\ Cardinality(onList) = curr
  BY DEF OlistInv
<1>2. {ItemGet(k) : k \in 0..(curr - 1)} = onList
  <2>1. \A k \in 0..(curr - 1) : ItemGet(k) = list[k]
    BY DEF OlistInv, ItemGet
  <2> QED BY <2>1 DEF OlistInv
<1>3. \A n \in 0..(bits - 1) : BitsetGet(n) = members[n]
  <2>1. \A n \in 0..(bits - 1) : n >= 0 /\ n < bits
    BY DEF BitsetInv
  <2> QED BY <2>1, Zenon DEF BitsetGet, BitsetInv
<1>4. ~BitsetGet(-1) /\ ~BitsetGet(bits)
  BY DEF BitsetGet, BitsetInv
<1> QED BY <1>1, <1>2, <1>3, <1>4 DEF ObjectsHold

-----------------------------------------------------------------------------
(* Rings.                                                                  *)

(* The nodes of a ring are its root and its items, and no two places but   *)
(* the two of the root are the same node.                                  *)
LEMMA Apart ==
  ASSUME NEW root, root \notin Items, NEW s \in Seq(Items), Distinct(s)
  PROVE  /\ Len(s) \in Nat
         /\ \A k \in 1..Len(s) : Node(root, s, k) = s[k] /\ s[k] \in Items
         /\ Node(root, s, 0) = root /\ Node(root, s, Len(s) + 1) = root
         /\ \A h, k \in 0..Len(s) : Node(root, s, h) = Node(root, s, k) => h = k
         /\ \A h, k \in 1..(Len(s) + 1) : Node(root, s, h) = Node(root, s, k) => h = k
         /\ \A k \in 0..(Len(s) + 1) : Node(root, s, k) \in Items \cup {root}
<1> DEFINE N(k) == Node(root, s, k)
<1>1. Len(s) \in Nat /\ \A k \in 1..Len(s) : s[k] \in Items
  BY ElementOfSeq, LenProperties
<1>2. \A k : N(k) = IF k \in 1..Len(s) THEN s[k] ELSE root
  BY DEF Node
<1>3. \A h, k \in 1..Len(s) : s[h] = s[k] => h = k
  BY DEF Distinct
<1>4. \A k \in 0..(Len(s) + 1) : k \in 1..Len(s) \/ k = 0 \/ k = Len(s) + 1
  BY <1>1
<1>5. 0 \notin 1..Len(s) /\ Len(s) + 1 \notin 1..Len(s)
  BY <1>1
<1> HIDE DEF N
<1>6. \A k \in 1..Len(s) : N(k) = s[k] /\ N(k) \in Items /\ N(k) # root
  BY <1>1, <1>2
<1>7. N(0) = root /\ N(Len(s) + 1) = root
  BY <1>2, <1>5
<1>8. \A h, k \in 0..Len(s) : N(h) = N(k) => h = k
  <2>1. \A k \in 0..Len(s) : k \in 1..Len(s) \/ k = 0
    BY <1>1
  <2> QED BY <1>3, <1>6, <1>7, <2>1
<1>9. \A h, k \in 1..(Len(s) + 1) : N(h) = N(k) => h = k
  <2>1. \A k \in 1..(Len(s) + 1) : k \in 1..Len(s) \/ k = Len(s) + 1
    BY <1>1
  <2> QED BY <1>3, <1>6, <1>7, <2>1
<1>10. \A k \in 0..(Len(s) + 1) : N(k) \in Items \cup {root}
  BY <1>4, <1>6, <1>7
<1> QED BY <1>1, <1>6, <1>7, <1>8, <1>9, <1>10 DEF N

(* A sequence t that is s without its place j.                             *)
Skips(s, t, j) ==
  /\ t \in Seq(Items) /\ Len(t) = Len(s) - 1
  /\ \A k \in 1..Len(t) : t[k] = IF k < j THEN s[k] ELSE s[k + 1]

LEMMA SkippedNodes ==
  ASSUME NEW root, NEW s \in Seq(Items), NEW j \in 1..Len(s), NEW t, Skips(s, t, j)
  PROVE  \A k \in 0..Len(s) :
           Node(root, t, k) = IF k < j THEN Node(root, s, k) ELSE Node(root, s, k + 1)
<1>1. Len(s) \in Nat /\ j \in Nat /\ 1 <= j /\ j <= Len(s) /\ Len(t) = Len(s) - 1
  BY LenProperties DEF Skips
<1> SUFFICES ASSUME NEW k \in 0..Len(s)
             PROVE  Node(root, t, k) = IF k < j THEN Node(root, s, k) ELSE Node(root, s, k + 1)
  OBVIOUS
<1>2. CASE k = 0
  <2>1. k \notin 1..Len(t) /\ k \notin 1..Len(s) /\ k < j
    BY <1>1, <1>2
  <2> QED BY <2>1 DEF Node
<1>3. CASE k = Len(s)
  <2>1. k \notin 1..Len(t) /\ k + 1 \notin 1..Len(s) /\ ~(k < j)
    BY <1>1, <1>3
  <2> QED BY <2>1 DEF Node
<1>4. CASE k # 0 /\ k # Len(s)
  <2>1. k \in 1..Len(t) /\ k \in 1..Len(s) /\ k + 1 \in 1..Len(s)
    BY <1>1, <1>4
  <2> QED BY <2>1 DEF Node, Skips
<1> QED BY <1>2, <1>3, <1>4

(* The ring is closed around the place that is left out, and nothing else  *)
(* of it is touched.                                                       *)
LEMMA CutRing ==
  ASSUME NEW root, root \notin Items, NEW s \in Seq(Items), Distinct(s),
         NEW n, NEW p, Linked(n, p, root, s),
         NEW j \in 1..Len(s), NEW t, Skips(s, t, j), NEW m, NEW q,
         m[Node(root, s, j - 1)] = Node(root, s, j + 1),
         q[Node(root, s, j + 1)] = Node(root, s, j - 1),
         \A x \in Items \cup {root} :
           x # Node(root, s, j - 1) /\ x # Node(root, s, j) => m[x] = n[x],
         \A x \in Items \cup {root} :
           x # Node(root, s, j + 1) /\ x # Node(root, s, j) => q[x] = p[x]
  PROVE  Distinct(t) /\ Linked(m, q, root, t)
<1> DEFINE N(k) == Node(root, s, k)
           M(k) == Node(root, t, k)
<1>1. Len(s) \in Nat /\ j \in Nat /\ 1 <= j /\ j <= Len(s) /\ Len(t) = Len(s) - 1
  BY LenProperties DEF Skips
<1>2. /\ \A h, k \in 0..Len(s) : N(h) = N(k) => h = k
      /\ \A h, k \in 1..(Len(s) + 1) : N(h) = N(k) => h = k
      /\ \A k \in 0..(Len(s) + 1) : N(k) \in Items \cup {root}
  BY Apart
<1>3. \A k \in 0..Len(s) : M(k) = IF k < j THEN N(k) ELSE N(k + 1)
  BY SkippedNodes
<1>4. \A k \in 0..Len(s) : n[N(k)] = N(k + 1) /\ p[N(k + 1)] = N(k)
  BY DEF Linked
<1>5. /\ m[N(j - 1)] = N(j + 1) /\ q[N(j + 1)] = N(j - 1)
      /\ \A x \in Items \cup {root} : x # N(j - 1) /\ x # N(j) => m[x] = n[x]
      /\ \A x \in Items \cup {root} : x # N(j + 1) /\ x # N(j) => q[x] = p[x]
  OBVIOUS
<1> HIDE DEF N, M
<1>6. ASSUME NEW k \in 0..Len(t) PROVE m[M(k)] = M(k + 1) /\ q[M(k + 1)] = M(k)
  <2>1. k \in Nat /\ k \in 0..Len(s) /\ k + 1 \in 0..Len(s)
    BY <1>1
  <2>2. CASE k < j - 1
    <3>1. k < j /\ k + 1 < j /\ k \in 0..Len(s) /\ j - 1 \in 0..Len(s) /\ j \in 0..Len(s)
          /\ k # j - 1 /\ k # j
      BY <1>1, <2>1, <2>2
    <3>2. /\ k + 1 \in 1..(Len(s) + 1) /\ j + 1 \in 1..(Len(s) + 1) /\ j \in 1..(Len(s) + 1)
          /\ k + 1 # j + 1 /\ k + 1 # j /\ k \in 0..(Len(s) + 1) /\ k + 1 \in 0..(Len(s) + 1)
      BY <1>1, <2>1, <2>2
    <3>3. m[N(k)] = n[N(k)]
      BY <1>2, <1>5, <3>1, <3>2
    <3>4. q[N(k + 1)] = p[N(k + 1)]
      BY <1>2, <1>5, <3>2
    <3> QED BY <1>3, <1>4, <2>1, <3>1, <3>3, <3>4
  <2>3. CASE k = j - 1
    <3>1. k < j /\ ~(k + 1 < j) /\ (k + 1) + 1 = j + 1
      BY <1>1, <2>3
    <3>2. M(k) = N(j - 1) /\ M(k + 1) = N(j + 1)
      BY <1>3, <2>1, <2>3, <3>1
    <3> QED BY <1>5, <3>2
  <2>4. CASE k > j - 1
    <3> DEFINE h == k + 1
    <3>1. ~(k < j) /\ ~(h < j) /\ h \in 0..Len(s) /\ j - 1 \in 0..Len(s) /\ j \in 0..Len(s)
          /\ h # j - 1 /\ h # j
      BY <1>1, <2>1, <2>4
    <3>2. /\ h + 1 \in 1..(Len(s) + 1) /\ j + 1 \in 1..(Len(s) + 1) /\ j \in 1..(Len(s) + 1)
          /\ h + 1 # j + 1 /\ h + 1 # j /\ h \in 0..(Len(s) + 1) /\ h + 1 \in 0..(Len(s) + 1)
      BY <1>1, <2>1, <2>4
    <3>3. M(k) = N(h) /\ M(h) = N(h + 1)
      BY <1>3, <2>1, <3>1
    <3> HIDE DEF h
    <3>4. m[N(h)] = n[N(h)]
      BY <1>2, <1>5, <3>1, <3>2
    <3>5. q[N(h + 1)] = p[N(h + 1)]
      BY <1>2, <1>5, <3>2
    <3>6. m[M(k)] = M(h) /\ q[M(h)] = M(k)
      BY <1>4, <3>1, <3>3, <3>4, <3>5
    <3> QED BY <3>6 DEF h
  <2> QED BY <1>1, <2>1, <2>2, <2>3, <2>4
<1>7. Linked(m, q, root, t)
  BY <1>6 DEF Linked, M
<1>8. ASSUME NEW h \in 1..Len(t), NEW k \in 1..Len(t), t[h] = t[k] PROVE h = k
  <2> DEFINE f == IF h < j THEN h ELSE h + 1
             g == IF k < j THEN k ELSE k + 1
  <2>1. f \in 1..Len(s) /\ g \in 1..Len(s) /\ (f = g => h = k)
    BY <1>1
  <2>2. t[h] = s[f] /\ t[k] = s[g]
    BY DEF Skips
  <2>3. s[f] = s[g]
    BY <1>8, <2>2
  <2> HIDE DEF f, g
  <2> QED BY <2>1, <2>3 DEF Distinct
<1> QED BY <1>7, <1>8 DEF Distinct

(* A new item between the root and the first item.                         *)
Enters(root, s, n, p, item, m, q) ==
  /\ m[root] = item /\ m[item] = Node(root, s, 1)
  /\ q[Node(root, s, 1)] = item /\ q[item] = root
  /\ \A x \in Items \cup {root} : x # root /\ x # item => m[x] = n[x]
  /\ \A x \in Items \cup {root} : x # Node(root, s, 1) /\ x # item => q[x] = p[x]

LEMMA AddToRing ==
  ASSUME NEW root, root \notin Items, NEW s \in Seq(Items), Distinct(s),
         NEW n, NEW p, Linked(n, p, root, s), NEW item \in Items, ~Contains(s, item),
         NEW m, NEW q, Enters(root, s, n, p, item, m, q)
  PROVE  /\ <<item>> \o s \in Seq(Items)
         /\ Distinct(<<item>> \o s) /\ Linked(m, q, root, <<item>> \o s)
         /\ \A x : Contains(<<item>> \o s, x) <=> x = item \/ Contains(s, x)
<1> DEFINE t == <<item>> \o s
           one == <<item>>
           N(k) == Node(root, s, k)
           M(k) == Node(root, t, k)
<1>1. Len(s) \in Nat /\ one \in Seq(Items) /\ Len(one) = 1 /\ one[1] = item
  BY LenProperties
<1>2. /\ t \in Seq(Items) /\ Len(t) = Len(one) + Len(s)
      /\ \A k \in 1..(Len(one) + Len(s)) :
           t[k] = IF k <= Len(one) THEN one[k] ELSE s[k - Len(one)]
  BY <1>1, ConcatProperties
<1> HIDE DEF one, t
<1>3. /\ t \in Seq(Items) /\ Len(t) = Len(s) + 1 /\ t[1] = item
      /\ \A k \in 2..(Len(s) + 1) : t[k] = s[k - 1]
  <2>1. 1 \in 1..(1 + Len(s)) /\ 1 <= 1
    BY <1>1
  <2>2. \A k \in 2..(Len(s) + 1) : k \in 1..(1 + Len(s)) /\ ~(k <= 1)
    BY <1>1
  <2> QED BY <1>1, <1>2, <2>1, <2>2
<1>4. /\ \A k \in 1..Len(s) : N(k) = s[k] /\ s[k] \in Items
      /\ N(0) = root /\ N(Len(s) + 1) = root
      /\ \A h, k \in 1..(Len(s) + 1) : N(h) = N(k) => h = k
      /\ \A k \in 0..(Len(s) + 1) : N(k) \in Items \cup {root}
  BY Apart
<1>5. \A k \in 1..Len(s) : s[k] # item
  BY DEF Contains
<1>6. \A k \in 0..Len(s) : n[N(k)] = N(k + 1) /\ p[N(k + 1)] = N(k)
  BY DEF Linked
<1>7. M(0) = root /\ M(1) = item /\ \A k \in 2..(Len(s) + 2) : M(k) = N(k - 1)
  <2>1. 0 \notin 1..Len(t) /\ 1 \in 1..Len(t)
    BY <1>1, <1>3
  <2>2. ASSUME NEW k \in 2..(Len(s) + 2) PROVE M(k) = N(k - 1)
    <3>1. CASE k = Len(s) + 2
      <4>1. k \notin 1..Len(t) /\ k - 1 \notin 1..Len(s)
        BY <1>1, <1>3, <3>1
      <4> QED BY <4>1 DEF Node
    <3>2. CASE k # Len(s) + 2
      <4>1. k \in 1..Len(t) /\ k - 1 \in 1..Len(s) /\ k \in 2..(Len(s) + 1)
        BY <1>1, <1>3, <3>2
      <4> QED BY <1>3, <4>1 DEF Node
    <3> QED BY <3>1, <3>2
  <2> QED BY <1>3, <2>1, <2>2 DEF Node
<1>8. /\ m[root] = item /\ m[item] = N(1) /\ q[N(1)] = item /\ q[item] = root
      /\ \A x \in Items \cup {root} : x # root /\ x # item => m[x] = n[x]
      /\ \A x \in Items \cup {root} : x # N(1) /\ x # item => q[x] = p[x]
  BY DEF Enters
<1> HIDE DEF N, M
<1>9. ASSUME NEW k \in 0..Len(t) PROVE m[M(k)] = M(k + 1) /\ q[M(k + 1)] = M(k)
  <2>1. CASE k = 0
    BY <1>7, <1>8, <2>1
  <2>2. CASE k = 1
    <3>1. 2 \in 2..(Len(s) + 2) /\ 2 - 1 = 1 /\ k + 1 = 2
      BY <1>1, <2>2
    <3>2. M(2) = N(1)
      BY <1>7, <3>1
    <3> QED BY <1>7, <1>8, <2>2, <3>1, <3>2
  <2>3. CASE k # 0 /\ k # 1
    <3> DEFINE h == k - 1
    <3>1. /\ h \in 1..Len(s) /\ h \in 0..Len(s) /\ h + 1 = k /\ h + 1 # 1
          /\ 1 \in 1..(Len(s) + 1) /\ h + 1 \in 1..(Len(s) + 1) /\ h + 1 \in 0..(Len(s) + 1)
          /\ k \in 2..(Len(s) + 2) /\ k + 1 \in 2..(Len(s) + 2) /\ (k + 1) - 1 = h + 1
      BY <1>1, <1>3, <2>3
    <3>2. M(k) = N(h) /\ M(k + 1) = N(h + 1)
      BY <1>7, <3>1
    <3> HIDE DEF h
    <3>3. N(h) \in Items /\ N(h) # root /\ N(h) # item
      BY <1>4, <1>5, <3>1
    <3>4. N(h + 1) # N(1) /\ N(h + 1) \in Items \cup {root} /\ N(h + 1) # item
      <4>1. h + 1 \in 1..Len(s) \/ h + 1 = Len(s) + 1
        BY <1>1, <3>1
      <4> QED BY <1>4, <1>5, <3>1, <4>1
    <3> QED BY <1>6, <1>8, <3>1, <3>2, <3>3, <3>4
  <2> QED BY <2>1, <2>2, <2>3
<1>10. Linked(m, q, root, t)
  BY <1>9 DEF Linked, M
<1>11. \A k \in 1..Len(t) : k = 1 \/ (k \in 2..(Len(s) + 1) /\ k - 1 \in 1..Len(s))
  BY <1>1, <1>3
<1>12. Distinct(t)
  <2> SUFFICES ASSUME NEW h \in 1..Len(t), NEW k \in 1..Len(t), t[h] = t[k] PROVE h = k
    BY DEF Distinct
  <2>1. CASE h = 1 \/ k = 1
    <3>1. \A g \in 1..Len(t) : g = 1 \/ t[g] # item
      <4>1. \A g \in 2..(Len(s) + 1) : g - 1 \in 1..Len(s)
        BY <1>1
      <4>2. \A g \in 2..(Len(s) + 1) : t[g] # item
        BY <1>3, <1>5, <4>1
      <4> QED BY <1>11, <4>2
    <3>2. t[h] = item /\ t[k] = item
      BY <1>3, <2>1
    <3> QED BY <3>1, <3>2
  <2>2. CASE h # 1 /\ k # 1
    <3>1. h - 1 \in 1..Len(s) /\ k - 1 \in 1..Len(s) /\ s[h - 1] = s[k - 1]
      BY <1>3, <1>11, <2>2
    <3>2. h - 1 = k - 1
      BY <3>1 DEF Distinct
    <3> QED BY <3>2
  <2> QED BY <2>1, <2>2
<1>13. \A x : Contains(t, x) <=> x = item \/ Contains(s, x)
  <2>1. 1 \in 1..Len(t) /\ \A k \in 1..Len(s) : k + 1 \in 1..Len(t) /\ t[k + 1] = s[k]
    <3>1. \A k \in 1..Len(s) : k + 1 \in 2..(Len(s) + 1) /\ k + 1 \in 1..Len(t) /\ (k + 1) - 1 = k
      BY <1>1, <1>3
    <3>2. 1 \in 1..Len(t)
      BY <1>1, <1>3
    <3> QED BY <1>3, <3>1, <3>2
  <2>2. ASSUME NEW x, Contains(t, x) PROVE x = item \/ Contains(s, x)
    <3>1. PICK k \in 1..Len(t) : t[k] = x
      BY <2>2 DEF Contains
    <3> QED BY <1>3, <1>11, <3>1 DEF Contains
  <2>3. ASSUME NEW x, x = item \/ Contains(s, x) PROVE Contains(t, x)
    <3>1. CASE x = item
      BY <1>3, <2>1, <3>1 DEF Contains
    <3>2. CASE Contains(s, x)
      <4>1. PICK k \in 1..Len(s) : s[k] = x
        BY <3>2 DEF Contains
      <4>2. k + 1 \in 1..Len(t) /\ t[k + 1] = x
        BY <2>1, <4>1
      <4> QED BY <4>2 DEF Contains
    <3> QED BY <2>3, <3>1, <3>2
  <2> QED BY <2>2, <2>3
<1> QED BY <1>3, <1>10, <1>12, <1>13 DEF t, one

(* What the user knows is his list without the place of the item.          *)
LEMMA WithoutSkips ==
  ASSUME NEW s \in Seq(Items), Distinct(s), NEW j \in 1..Len(s)
  PROVE  Skips(s, Without(s, s[j]), j)
<1> DEFINE a == SubSeq(s, 1, j - 1)
           b == SubSeq(s, j + 1, Len(s))
<1>1. Len(s) \in Nat /\ j \in Nat /\ 1 <= j /\ j <= Len(s) /\ \A k \in 1..Len(s) : s[k] \in Items
  BY LenProperties, ElementOfSeq
<1>2. Contains(s, s[j]) /\ (CHOOSE k \in 1..Len(s) : s[k] = s[j]) = j
  BY DEF Contains, Distinct
<1>3. Without(s, s[j]) = a \o b
  BY <1>2 DEF Without, RemoveAt
<1>4. a \in Seq(Items) /\ Len(a) = j - 1 /\ \A k \in 1..(j - 1) : a[k] = s[k]
  <2>1. \A k \in 1..(j - 1) : s[k] \in Items
    BY <1>1
  <2>2. /\ a \in Seq(Items)
        /\ Len(a) = IF 1 <= j - 1 THEN (j - 1) - 1 + 1 ELSE 0
        /\ \A k \in 1..((j - 1) - 1 + 1) : a[k] = s[1 + k - 1]
    BY <1>1, <2>1, SubSeqProperties
  <2> HIDE DEF a
  <2> QED BY <1>1, <2>2
<1>5. b \in Seq(Items) /\ Len(b) = Len(s) - j /\ \A k \in 1..(Len(s) - j) : b[k] = s[k + j]
  <2>1. \A k \in (j + 1)..Len(s) : s[k] \in Items
    BY <1>1
  <2>2. /\ b \in Seq(Items)
        /\ Len(b) = IF j + 1 <= Len(s) THEN Len(s) - (j + 1) + 1 ELSE 0
        /\ \A k \in 1..(Len(s) - (j + 1) + 1) : b[k] = s[(j + 1) + k - 1]
    BY <1>1, <2>1, SubSeqProperties
  <2> HIDE DEF b
  <2>3. \A k \in 1..(Len(s) - j) : k \in 1..(Len(s) - (j + 1) + 1) /\ (j + 1) + k - 1 = k + j
    BY <1>1
  <2>4. Len(b) = Len(s) - j
    BY <1>1, <2>2
  <2> QED BY <2>2, <2>3, <2>4
<1> HIDE DEF a, b
<1>6. /\ a \o b \in Seq(Items) /\ Len(a \o b) = Len(a) + Len(b)
      /\ \A k \in 1..(Len(a) + Len(b)) : (a \o b)[k] = IF k <= Len(a) THEN a[k] ELSE b[k - Len(a)]
  BY <1>4, <1>5, ConcatProperties
<1> DEFINE t == a \o b
<1> HIDE DEF t
<1>7. ASSUME NEW k \in 1..Len(t) PROVE t[k] = IF k < j THEN s[k] ELSE s[k + 1]
  <2>1. k \in 1..(Len(a) + Len(b)) /\ t[k] = IF k <= Len(a) THEN a[k] ELSE b[k - Len(a)]
    BY <1>6 DEF t
  <2>2. CASE k < j
    <3>1. k <= Len(a) /\ k \in 1..(j - 1)
      BY <1>1, <1>4, <2>1, <2>2
    <3> QED BY <1>4, <2>1, <2>2, <3>1
  <2>3. CASE ~(k < j)
    <3>1. ~(k <= Len(a)) /\ k - Len(a) \in 1..(Len(s) - j) /\ (k - Len(a)) + j = k + 1
      BY <1>1, <1>4, <1>5, <2>1, <2>3
    <3> QED BY <1>5, <2>1, <2>3, <3>1
  <2> QED BY <2>2, <2>3
<1>8. t \in Seq(Items) /\ Len(t) = Len(s) - 1
  BY <1>1, <1>4, <1>5, <1>6 DEF t
<1> QED BY <1>3, <1>7, <1>8 DEF Skips, t

LEMMA SkipsContains ==
  ASSUME NEW s \in Seq(Items), Distinct(s), NEW j \in 1..Len(s), NEW t, Skips(s, t, j)
  PROVE  \A x : Contains(t, x) <=> Contains(s, x) /\ x # s[j]
<1>1. Len(s) \in Nat /\ j \in Nat /\ 1 <= j /\ j <= Len(s) /\ Len(t) = Len(s) - 1
  BY LenProperties DEF Skips
<1>2. \A h, k \in 1..Len(s) : s[h] = s[k] => h = k
  BY DEF Distinct
<1>3. \A k \in 1..Len(t) : t[k] = IF k < j THEN s[k] ELSE s[k + 1]
  BY DEF Skips
<1>4. ASSUME NEW x, Contains(t, x) PROVE Contains(s, x) /\ x # s[j]
  <2>1. PICK k \in 1..Len(t) : t[k] = x
    BY <1>4 DEF Contains
  <2> DEFINE h == IF k < j THEN k ELSE k + 1
  <2>2. h \in 1..Len(s) /\ h # j
    BY <1>1
  <2>3. s[h] = x
    BY <1>3, <2>1
  <2> HIDE DEF h
  <2> QED BY <1>2, <2>2, <2>3 DEF Contains
<1>5. ASSUME NEW x, Contains(s, x), x # s[j] PROVE Contains(t, x)
  <2>1. PICK k \in 1..Len(s) : s[k] = x
    BY <1>5 DEF Contains
  <2>2. k # j
    BY <1>5, <2>1
  <2>3. CASE k < j
    <3>1. k \in 1..Len(t) /\ t[k] = x
      BY <1>1, <1>3, <2>1, <2>3
    <3> QED BY <3>1 DEF Contains
  <2>4. CASE k > j
    <3>1. k - 1 \in 1..Len(t) /\ ~(k - 1 < j) /\ (k - 1) + 1 = k
      BY <1>1, <2>1, <2>4
    <3>2. t[k - 1] = x
      BY <1>3, <2>1, <3>1
    <3> QED BY <3>1, <3>2 DEF Contains
  <2> QED BY <1>1, <2>2, <2>3, <2>4
<1> QED BY <1>4, <1>5

-----------------------------------------------------------------------------
(* The walk.                                                               *)

(* A set of numbers has a least one.                                       *)
LEMMA LeastNumber ==
  ASSUME NEW T, T \subseteq Nat, T # {}
  PROVE  \E n \in T : \A m \in T : n <= m
<1> DEFINE R == OpToRel(<, Nat)
<1>1. IsWellFoundedOn(R, Nat)
  BY NatLessThanWellFounded
<1>2. \A a, b \in Nat : <<a, b>> \in R <=> a < b
  BY DEF OpToRel
<1> HIDE DEF R
<1>3. PICK n \in T : \A m \in T : ~ (<<m, n>> \in R)
  BY <1>1, WFMin
<1>4. ASSUME NEW m \in T PROVE n <= m
  <2>1. n \in Nat /\ m \in Nat /\ <<m, n>> \notin R
    BY <1>3
  <2>2. ~ (m < n)
    BY <1>2, <2>1
  <2> QED BY <2>1, <2>2
<1> QED BY <1>3, <1>4

(* A list has no more items than there are.                                *)
LEMMA FewItems ==
  ASSUME ListsAssumption, NEW s \in Seq(Items), Distinct(s)
  PROVE  Cardinality(Items) \in Nat /\ Len(s) <= Cardinality(Items)
<1>1. IsFiniteSet(Items) /\ Len(s) \in Nat
  BY LenProperties DEF ListsAssumption
<1>2. Cardinality(Items) \in Nat
  BY <1>1, FS_CardinalityType
<1>3. s \in [1..Len(s) -> Items]
  BY LenProperties
<1>4. s \in Injection(1..Len(s), Items)
  BY <1>3 DEF Injection, IsInjective, Distinct
<1>5. Cardinality(1..Len(s)) <= Cardinality(Items)
  BY <1>1, <1>4, FS_Injection
<1>6. Cardinality(1..Len(s)) = IF 1 > Len(s) THEN 0 ELSE Len(s) - 1 + 1
  BY <1>1, FS_Interval
<1> QED BY <1>1, <1>2, <1>5, <1>6

(* One step of the walk.                                                   *)
Met(link, root, f, k) ==
  IF k = 0 THEN link[root]
  ELSE IF f[k - 1] \in Items THEN link[f[k - 1]]
  ELSE f[k - 1]

(* A walk meets the nodes of the ring one after the other and stays at the *)
(* root, and there is no other walk.                                       *)
LEMMA WalkMeets ==
  ASSUME ListsAssumption, NEW link, NEW root \in Roots, NEW s \in Seq(Items), Distinct(s),
         \A k \in 0..Len(s) : link[Node(root, s, k)] = Node(root, s, k + 1),
         NEW f, \A k \in 0..Cardinality(Items) : f[k] = Met(link, root, f, k)
  PROVE  \A k \in 0..Cardinality(Items) : f[k] = Node(root, s, k + 1)
<1> DEFINE c == Cardinality(Items)
           T == {k \in 0..c : f[k] # Node(root, s, k + 1)}
<1>1. c \in Nat /\ Len(s) \in Nat /\ root \notin Items
  BY FewItems, LenProperties DEF ListsAssumption
<1>2. \A k \in 0..c : f[k] = Met(link, root, f, k)
  OBVIOUS
<1>3. /\ \A k \in 1..Len(s) : Node(root, s, k) \in Items
      /\ \A k : k \notin 1..Len(s) => Node(root, s, k) = root
  BY <1>1, Apart DEF Node
<1> HIDE DEF c
<1>4. SUFFICES ASSUME T # {} PROVE FALSE
  BY DEF c
<1>5. T \subseteq Nat
  BY <1>1
<1>6. PICK k \in T : \A h \in T : k <= h
  BY <1>4, <1>5, LeastNumber
<1>7. k \in 0..c /\ k \in Nat /\ f[k] # Node(root, s, k + 1) /\ f[k] = Met(link, root, f, k)
  BY <1>1, <1>2, <1>6
<1>8. CASE k = 0
  <2>1. 0 \in 0..Len(s) /\ 0 \notin 1..Len(s) /\ 0 + 1 = 1
    BY <1>1
  <2>2. link[Node(root, s, 0)] = Node(root, s, 1) /\ Node(root, s, 0) = root
    BY <1>3, <2>1
  <2> QED BY <1>7, <1>8, <2>2 DEF Met
<1>9. CASE k # 0
  <2>1. k - 1 \in 0..c /\ ~(k <= k - 1) /\ (k - 1) + 1 = k
    BY <1>1, <1>7, <1>9
  <2>2. f[k - 1] = Node(root, s, k)
    BY <1>6, <2>1
  <2>3. CASE k \in 1..Len(s)
    <3>1. k \in 0..Len(s)
      BY <2>3
    <3>2. f[k - 1] \in Items /\ link[f[k - 1]] = Node(root, s, k + 1)
      BY <1>3, <2>2, <2>3, <3>1
    <3> QED BY <1>7, <1>9, <3>2 DEF Met
  <2>4. CASE k \notin 1..Len(s)
    <3>1. k + 1 \notin 1..Len(s)
      BY <1>1, <1>7, <1>9, <2>4
    <3>2. f[k - 1] \notin Items /\ f[k - 1] = Node(root, s, k + 1)
      BY <1>1, <1>3, <2>2, <2>4, <3>1
    <3> QED BY <1>7, <1>9, <3>2 DEF Met
  <2> QED BY <2>3, <2>4
<1> QED BY <1>8, <1>9

(* The walk of a ring is its items.                                        *)
LEMMA WalkOfRing ==
  ASSUME ListsAssumption, NEW link, NEW root \in Roots, NEW s \in Seq(Items), Distinct(s),
         \A k \in 0..Len(s) : link[Node(root, s, k)] = Node(root, s, k + 1)
  PROVE  WalkLinks(link, root) = s
<1> DEFINE c == Cardinality(Items)
           Walks(f) == f = [k \in 0..c |-> Met(link, root, f, k)]
           F == CHOOSE f : Walks(f)
           G == [k \in 0..c |-> Node(root, s, k + 1)]
           Length == CHOOSE k \in 0..c : /\ k = c \/ F[k] \notin Items
                                         /\ \A h \in 0..(k - 1) : F[h] \in Items
<1>1. c \in Nat /\ Len(s) \in Nat /\ Len(s) <= c /\ root \notin Items
  BY FewItems, LenProperties DEF ListsAssumption
<1>2. WalkLinks(link, root) = [h \in 1..Length |-> F[h - 1]]
  BY DEF WalkLinks, Met
<1>3. /\ \A k \in 1..Len(s) : Node(root, s, k) = s[k] /\ Node(root, s, k) \in Items
      /\ \A k : k \notin 1..Len(s) => Node(root, s, k) = root
  BY <1>1, Apart DEF Node
<1>4. ASSUME NEW k \in 0..c PROVE G[k] = Met(link, root, G, k)
  <2>1. CASE k = 0
    <3>1. 0 \in 0..Len(s) /\ 0 \notin 1..Len(s) /\ 0 + 1 = 1
      BY <1>1
    <3>2. link[root] = Node(root, s, 1)
      BY <1>3, <3>1
    <3> QED BY <2>1, <3>1, <3>2 DEF Met
  <2>2. CASE k # 0
    <3>1. k - 1 \in 0..c /\ (k - 1) + 1 = k
      BY <1>1, <2>2
    <3>2. G[k - 1] = Node(root, s, k) /\ G[k] = Node(root, s, k + 1)
      BY <3>1
    <3>3. CASE k \in 1..Len(s)
      <4>1. k \in 0..Len(s)
        BY <3>3
      <4> QED BY <1>3, <2>2, <3>2, <3>3, <4>1 DEF Met
    <3>4. CASE k \notin 1..Len(s)
      <4>1. k + 1 \notin 1..Len(s)
        BY <1>1, <2>2, <3>4
      <4>2. Node(root, s, k) = root /\ Node(root, s, k + 1) = root
        BY <1>3, <3>4, <4>1
      <4> HIDE DEF G
      <4> QED BY <1>1, <2>2, <3>2, <4>2 DEF Met
    <3> QED BY <3>3, <3>4
  <2> QED BY <2>1, <2>2
<1>5. Walks(G)
  <2> DEFINE W == [k \in 0..c |-> Met(link, root, G, k)]
  <2>1. \A k \in 0..c : G[k] = W[k]
    BY <1>4
  <2>2. G = [k \in 0..c |-> G[k]] /\ W = [k \in 0..c |-> W[k]]
    OBVIOUS
  <2> HIDE DEF G
  <2> QED BY <2>1, <2>2
<1> HIDE DEF G
<1>6. Walks(F)
  <2> HIDE DEF Walks
  <2> QED BY <1>5
<1>7. \A k \in 0..c : F[k] = Met(link, root, F, k)
  <2> HIDE DEF F
  <2> QED BY <1>6
<1> HIDE DEF F
<1>8. \A k \in 0..c : F[k] = Node(root, s, k + 1)
  BY <1>7, WalkMeets
<1> HIDE DEF c
<1>9. /\ \A k \in 0..(Len(s) - 1) : F[k] = s[k + 1] /\ F[k] \in Items
      /\ F[Len(s)] \notin Items
  <2>1. \A k \in 0..(Len(s) - 1) : k \in 0..c /\ k + 1 \in 1..Len(s)
    BY <1>1
  <2>2. Len(s) \in 0..c /\ Len(s) + 1 \notin 1..Len(s)
    BY <1>1
  <2> QED BY <1>1, <1>3, <1>8, <2>1, <2>2
<1>10. Length = Len(s)
  <2> DEFINE Ends(k) == /\ k = c \/ F[k] \notin Items
                        /\ \A h \in 0..(k - 1) : F[h] \in Items
  <2>1. Len(s) \in 0..c /\ Ends(Len(s))
    BY <1>1, <1>9
  <2>2. ASSUME NEW k \in 0..c, Ends(k) PROVE k = Len(s)
    <3>1. ~(k < Len(s))
      <4>1. k < Len(s) => k # c /\ k \in 0..(Len(s) - 1)
        BY <1>1
      <4> QED BY <1>9, <2>2, <4>1
    <3>2. ~(Len(s) < k)
      <4>1. Len(s) < k => Len(s) \in 0..(k - 1)
        BY <1>1
      <4> QED BY <1>9, <2>2, <4>1
    <3> QED BY <1>1, <3>1, <3>2
  <2>3. Length = CHOOSE k \in 0..c : Ends(k)
    OBVIOUS
  <2> HIDE DEF Ends, Length
  <2> QED BY <2>1, <2>2, <2>3
<1> HIDE DEF Length
<1>11. WalkLinks(link, root) = [h \in 1..Len(s) |-> s[h]]
  <2>1. \A h \in 1..Len(s) : h - 1 \in 0..(Len(s) - 1) /\ (h - 1) + 1 = h
    BY <1>1
  <2>2. \A h \in 1..Len(s) : F[h - 1] = s[h]
    BY <1>9, <2>1
  <2> QED BY <1>2, <1>10, <2>2
<1>12. s \in [1..Len(s) -> Items]
  BY LenProperties
<1> QED BY <1>11, <1>12

(* And backwards.                                                          *)
LEMMA WalkBack ==
  ASSUME ListsAssumption, NEW n, NEW p, NEW root \in Roots, NEW s \in Seq(Items), Distinct(s),
         Linked(n, p, root, s)
  PROVE  WalkLinks(p, root) = Reverse(s)
<1> DEFINE t == Reverse(s)
<1>1. Len(s) \in Nat /\ \A k \in 1..Len(s) : s[k] \in Items
  BY LenProperties, ElementOfSeq
<1>2. \A k \in 1..Len(s) : Len(s) - k + 1 \in 1..Len(s)
  BY <1>1
<1>3. t = [k \in 1..Len(s) |-> s[(Len(s) - k) + 1]]
  BY DEF Reverse
<1>4. t \in Seq(Items) /\ Len(t) = Len(s)
  <2> HIDE DEF t
  <2>1. t \in [1..Len(s) -> Items]
    BY <1>1, <1>2, <1>3
  <2> QED BY <1>1, <2>1, SeqDef
<1>5. \A k \in 1..Len(s) : t[k] = s[(Len(s) - k) + 1]
  BY <1>3
<1> HIDE DEF t
<1>6. Distinct(t)
  <2> SUFFICES ASSUME NEW h \in 1..Len(s), NEW k \in 1..Len(s), t[h] = t[k] PROVE h = k
    BY <1>4 DEF Distinct
  <2>1. (Len(s) - h) + 1 = (Len(s) - k) + 1
    BY <1>2, <1>5 DEF Distinct
  <2> QED BY <1>1, <2>1
<1>7. ASSUME NEW k \in 0..(Len(s) + 1) PROVE Node(root, t, k) = Node(root, s, (Len(s) - k) + 1)
  <2>1. k \in 1..Len(s) <=> (Len(s) - k) + 1 \in 1..Len(s)
    BY <1>1
  <2> QED BY <1>4, <1>5, <2>1 DEF Node
<1>8. ASSUME NEW k \in 0..Len(t) PROVE p[Node(root, t, k)] = Node(root, t, k + 1)
  <2>1. /\ k \in 0..(Len(s) + 1) /\ k + 1 \in 0..(Len(s) + 1) /\ Len(s) - k \in 0..Len(s)
        /\ (Len(s) - (k + 1)) + 1 = Len(s) - k
    BY <1>1, <1>4
  <2>2. Node(root, t, k) = Node(root, s, (Len(s) - k) + 1)
    BY <1>7, <2>1
  <2>3. Node(root, t, k + 1) = Node(root, s, Len(s) - k)
    BY <1>7, <2>1
  <2>4. p[Node(root, s, (Len(s) - k) + 1)] = Node(root, s, Len(s) - k)
    BY <2>1 DEF Linked
  <2> QED BY <2>2, <2>3, <2>4
<1>9. WalkLinks(p, root) = t
  BY <1>4, <1>6, <1>8, WalkOfRing
<1> QED BY <1>9 DEF t

-----------------------------------------------------------------------------
(* What the calls do to the rings.                                         *)

(* What a ring of the invariant is.                                        *)
LEMMA RingFacts ==
  ASSUME ListsAssumption, NEW n, NEW p, NEW ls, Rings(n, p, ls), NEW r \in Roots
  PROVE  /\ r \notin Items /\ r \in ListNodes /\ Items \subseteq ListNodes
         /\ ls[r] \in Seq(Items) /\ Distinct(ls[r]) /\ Linked(n, p, r, ls[r])
         /\ \A k \in 0..(Len(ls[r]) + 1) :
              LET x == Node(r, ls[r], k)
              IN  x \in ListNodes /\ (x = r \/ (x \in Items /\ Contains(ls[r], x)))
<1>1. r \notin Items /\ r \in ListNodes /\ Items \subseteq ListNodes
  BY DEF ListsAssumption, ListNodes
<1>2. ls[r] \in Seq(Items) /\ Distinct(ls[r]) /\ Linked(n, p, r, ls[r])
  BY DEF Rings
<1>3. ASSUME NEW k \in 0..(Len(ls[r]) + 1)
      PROVE  LET x == Node(r, ls[r], k)
             IN  x \in ListNodes /\ (x = r \/ (x \in Items /\ Contains(ls[r], x)))
  <2>1. CASE k \in 1..Len(ls[r])
    BY <1>1, <1>2, <2>1, ElementOfSeq DEF Node, Contains
  <2>2. CASE k \notin 1..Len(ls[r])
    BY <1>1, <2>2 DEF Node
  <2> QED BY <2>1, <2>2
<1> QED BY <1>1, <1>2, <1>3

(* One list changes, by one item: the new links m and q are right for it   *)
(* and are the old ones of whatever it does not have.                      *)
Changes(n, p, ls, root, item, t, m, q) ==
  /\ \A r \in Roots \ {root} : ~Contains(ls[r], item)
  /\ t \in Seq(Items) /\ Distinct(t) /\ Linked(m, q, root, t)
  /\ \A x : x # item => (Contains(t, x) <=> Contains(ls[root], x))
  /\ m \in [ListNodes -> ListNodes \cup {Wild}]
  /\ q \in [ListNodes -> ListNodes \cup {Wild}]
  /\ ~Contains(t, item) => m[item] = item /\ q[item] = item
  /\ \A x \in ListNodes :
       (x # root /\ x # item /\ ~Contains(ls[root], x)) => m[x] = n[x] /\ q[x] = p[x]

(* The other rings are as they were.                                       *)
LEMMA OneListChanges ==
  ASSUME ListsAssumption, NEW n, NEW p, NEW ls, Rings(n, p, ls), NEW root \in Roots,
         NEW item \in Items, NEW t, NEW m, NEW q, Changes(n, p, ls, root, item, t, m, q)
  PROVE  Rings(m, q, [ls EXCEPT ![root] = t])
<1> DEFINE new == [ls EXCEPT ![root] = t]
<1>1. /\ ls \in [Roots -> Seq(Items)]
      /\ \A r, g \in Roots : r # g => \A i \in Items : ~(Contains(ls[r], i) /\ Contains(ls[g], i))
      /\ \A i \in Items : InNone(i, ls) =>
           (n[i] = i /\ p[i] = i) \/ (n[i] = Wild /\ p[i] = Wild)
  BY DEF Rings
<1>0. /\ \A r \in Roots \ {root} : ~Contains(ls[r], item)
      /\ t \in Seq(Items) /\ Distinct(t) /\ Linked(m, q, root, t)
      /\ \A x : x # item => (Contains(t, x) <=> Contains(ls[root], x))
      /\ ~Contains(t, item) => m[item] = item /\ q[item] = item
      /\ \A x \in ListNodes :
           (x # root /\ x # item /\ ~Contains(ls[root], x)) => m[x] = n[x] /\ q[x] = p[x]
  BY DEF Changes
<1>2. new \in [Roots -> Seq(Items)] /\ new[root] = t /\ \A r \in Roots \ {root} : new[r] = ls[r]
  BY <1>0, <1>1
<1> HIDE DEF new
<1>3. ASSUME NEW r \in Roots PROVE Distinct(new[r]) /\ Linked(m, q, r, new[r])
  <2>1. CASE r = root
    BY <1>0, <1>2, <2>1
  <2>2. CASE r # root
    <3> DEFINE s == ls[r]
    <3>1. /\ Distinct(s) /\ Linked(n, p, r, s)
          /\ \A k \in 0..(Len(s) + 1) :
               LET x == Node(r, s, k)
               IN  x \in ListNodes /\ (x = r \/ (x \in Items /\ Contains(s, x)))
      BY RingFacts
    <3>2. new[r] = s /\ r # item /\ ~Contains(s, item) /\ Len(s) \in Nat
      BY <1>0, <1>1, <1>2, <2>2, RingFacts, LenProperties
    <3>3. root \notin Items
      BY RingFacts
    <3>4. \A i \in Items : Contains(s, i) => ~Contains(ls[root], i)
      BY <1>1, <2>2
    <3>5. ~Contains(ls[root], r)
      <4>1. \A k \in 1..Len(ls[root]) : ls[root][k] \in Items
        BY RingFacts, ElementOfSeq
      <4>2. r \notin Items
        BY RingFacts
      <4> QED BY <4>1, <4>2 DEF Contains
    <3> HIDE DEF s
    <3>6. ASSUME NEW k \in 0..(Len(s) + 1)
          PROVE  m[Node(r, s, k)] = n[Node(r, s, k)] /\ q[Node(r, s, k)] = p[Node(r, s, k)]
      <4> DEFINE x == Node(r, s, k)
      <4>1. x \in ListNodes /\ (x = r \/ (x \in Items /\ Contains(s, x)))
        BY <3>1
      <4> HIDE DEF x
      <4>2. x # root /\ x # item /\ ~Contains(ls[root], x)
        BY <2>2, <3>2, <3>3, <3>4, <3>5, <4>1
      <4>3. m[x] = n[x] /\ q[x] = p[x]
        BY <1>0, <4>1, <4>2
      <4> QED BY <4>3 DEF x
    <3>7. \A k \in 0..Len(s) : k \in 0..(Len(s) + 1) /\ k + 1 \in 0..(Len(s) + 1)
      BY <3>2
    <3>8. Linked(m, q, r, s)
      BY <3>1, <3>6, <3>7 DEF Linked
    <3> QED BY <3>1, <3>2, <3>8
  <2> QED BY <2>1, <2>2
<1>4. ASSUME NEW r \in Roots, NEW g \in Roots, r # g, NEW i \in Items,
             Contains(new[r], i), Contains(new[g], i)
      PROVE  FALSE
  <2>1. CASE i = item
    BY <1>0, <1>2, <1>4, <2>1
  <2>2. CASE i # item
    <3>1. Contains(ls[r], i) /\ Contains(ls[g], i)
      BY <1>0, <1>2, <1>4, <2>2
    <3> QED BY <1>1, <1>4, <3>1
  <2> QED BY <2>1, <2>2
<1>5. ASSUME NEW i \in Items, InNone(i, new)
      PROVE  (m[i] = i /\ q[i] = i) \/ (m[i] = Wild /\ q[i] = Wild)
  <2>1. ~Contains(t, i) /\ \A r \in Roots \ {root} : ~Contains(ls[r], i)
    BY <1>2, <1>5 DEF InNone
  <2>2. CASE i = item
    BY <1>0, <2>1, <2>2
  <2>3. CASE i # item
    <3>1. ~Contains(ls[root], i) /\ InNone(i, ls)
      BY <1>0, <2>1, <2>3 DEF InNone
    <3>2. i # root /\ i \in ListNodes
      BY RingFacts
    <3> QED BY <1>0, <1>1, <2>3, <3>1, <3>2
  <2> QED BY <2>2, <2>3
<1> QED BY <1>2, <1>3, <1>4, <1>5 DEF Rings, new, Changes

(* An item that is taken out of the ring it is in.                         *)
LEMMA TakeKeeps ==
  ASSUME ListsAssumption, ListsInv, NEW root \in Roots, NEW j \in 1..Len(listed[root]),
         list_remove(listed[root][j]),
         listed' = [listed EXCEPT ![root] = Without(listed[root], listed[root][j])]
  PROVE  ListsInv'
<1> DEFINE s == listed[root]
           item == s[j]
           t == Without(s, item)
           a == Node(root, s, j - 1)
           b == Node(root, s, j + 1)
<1>1. /\ root \notin Items /\ Items \subseteq ListNodes /\ root \in ListNodes
      /\ s \in Seq(Items) /\ Distinct(s) /\ Linked(next, prev, root, s)
      /\ \A k \in 0..(Len(s) + 1) :
           LET x == Node(root, s, k)
           IN  x \in ListNodes /\ (x = root \/ (x \in Items /\ Contains(s, x)))
  BY RingFacts DEF ListsInv
<1>2. Len(s) \in Nat /\ j \in Nat /\ 1 <= j /\ j <= Len(s)
  BY <1>1, LenProperties
<1>3. /\ \A k \in 1..Len(s) : Node(root, s, k) = s[k] /\ s[k] \in Items
      /\ \A h, k \in 0..Len(s) : Node(root, s, h) = Node(root, s, k) => h = k
      /\ \A h, k \in 1..(Len(s) + 1) : Node(root, s, h) = Node(root, s, k) => h = k
  BY <1>1, Apart
<1>4. Skips(s, t, j)
  BY <1>1, WithoutSkips
<1>5. t \in Seq(Items) /\ \A x : Contains(t, x) <=> Contains(s, x) /\ x # item
  BY <1>1, <1>4, SkipsContains DEF Skips
<1>6. Node(root, s, j) = item /\ item \in Items /\ item \in ListNodes /\ Contains(s, item)
  BY <1>1, <1>3 DEF Contains
<1>7. next[item] = b /\ prev[item] = a
  <2>1. j \in 0..Len(s) /\ j - 1 \in 0..Len(s) /\ (j - 1) + 1 = j
    BY <1>2
  <2> QED BY <1>1, <1>6, <2>1 DEF Linked
<1>8. a \in ListNodes /\ b \in ListNodes /\ a # item /\ b # item
  <2>1. /\ j - 1 \in 0..(Len(s) + 1) /\ j + 1 \in 0..(Len(s) + 1) /\ j - 1 \in 0..Len(s)
        /\ j \in 0..Len(s) /\ j # j - 1 /\ j + 1 \in 1..(Len(s) + 1) /\ j \in 1..(Len(s) + 1)
        /\ j # j + 1
    BY <1>2
  <2> QED BY <1>1, <1>3, <1>6, <2>1
<1>9. (a = root \/ Contains(s, a)) /\ (b = root \/ Contains(s, b))
  <2>1. j - 1 \in 0..(Len(s) + 1) /\ j + 1 \in 0..(Len(s) + 1)
    BY <1>2
  <2> QED BY <1>1, <2>1
<1>10. /\ prev' = [prev EXCEPT ![next[item]] = prev[item], ![item] = item]
       /\ next' = [next EXCEPT ![prev[item]] = next[item], ![item] = item]
       /\ listed' = [listed EXCEPT ![root] = t]
  BY DEF list_remove
<1>11. /\ next \in [ListNodes -> ListNodes \cup {Wild}]
       /\ prev \in [ListNodes -> ListNodes \cup {Wild}]
       /\ \A r \in Roots \ {root} : \A i \in Items : ~(Contains(listed[r], i) /\ Contains(s, i))
  BY DEF ListsInv, Rings
<1> HIDE DEF a, b, item, t, s
<1>12. /\ next' \in [ListNodes -> ListNodes \cup {Wild}]
       /\ next'[a] = b /\ next'[item] = item
       /\ \A x \in ListNodes : x # a /\ x # item => next'[x] = next[x]
  BY <1>6, <1>7, <1>8, <1>10, <1>11
<1>13. /\ prev' \in [ListNodes -> ListNodes \cup {Wild}]
       /\ prev'[b] = a /\ prev'[item] = item
       /\ \A x \in ListNodes : x # b /\ x # item => prev'[x] = prev[x]
  BY <1>6, <1>7, <1>8, <1>10, <1>11
<1>14. Items \cup {root} \subseteq ListNodes
  BY <1>1
<1>15. Distinct(t) /\ Linked(next', prev', root, t)
  <2>1. next'[Node(root, s, j - 1)] = Node(root, s, j + 1)
    BY <1>12 DEF a, b
  <2>2. prev'[Node(root, s, j + 1)] = Node(root, s, j - 1)
    BY <1>13 DEF a, b
  <2>3. \A x \in Items \cup {root} :
          x # Node(root, s, j - 1) /\ x # Node(root, s, j) => next'[x] = next[x]
    BY <1>6, <1>12, <1>14 DEF a
  <2>4. \A x \in Items \cup {root} :
          x # Node(root, s, j + 1) /\ x # Node(root, s, j) => prev'[x] = prev[x]
    BY <1>6, <1>13, <1>14 DEF b
  <2>5. j \in 1..Len(s)
    BY <1>2
  <2> QED BY <1>1, <1>4, <2>1, <2>2, <2>3, <2>4, <2>5, CutRing
<1>16. \A x \in ListNodes : (x # root /\ x # item /\ ~Contains(s, x)) =>
         next'[x] = next[x] /\ prev'[x] = prev[x]
  BY <1>9, <1>12, <1>13
<1>17. \A r \in Roots \ {root} : ~Contains(listed[r], item)
  BY <1>6, <1>11
<1>18. Rings(next, prev, listed)
  BY DEF ListsInv
<1>19. \A x : x # item => (Contains(t, x) <=> Contains(listed[root], x))
  BY <1>5 DEF s
<1>20. \A x \in ListNodes : (x # root /\ x # item /\ ~Contains(listed[root], x)) =>
         next'[x] = next[x] /\ prev'[x] = prev[x]
  BY <1>16 DEF s
<1>21. ~Contains(t, item) => next'[item] = item /\ prev'[item] = item
  BY <1>12, <1>13
<1>22. Rings(next', prev', [listed EXCEPT ![root] = t])
  <2>1. Changes(next, prev, listed, root, item, t, next', prev')
    BY <1>5, <1>12, <1>13, <1>15, <1>17, <1>19, <1>20, <1>21 DEF Changes
  <2> QED BY <1>6, <1>18, <2>1, OneListChanges
<1> QED BY <1>10, <1>22 DEF ListsInv

(* An item that is in no list is taken out of its own ring again.          *)
LEMMA TakeAgain ==
  ASSUME ListsAssumption, ListsInv, NEW item \in Items, InNone(item, listed), ListRemove(item)
  PROVE  ListsInv'
<1>1. /\ next \in [ListNodes -> ListNodes \cup {Wild}]
      /\ prev \in [ListNodes -> ListNodes \cup {Wild}]
      /\ listed \in [Roots -> Seq(Items)]
      /\ next[item] = item /\ prev[item] = item /\ item \in ListNodes
  BY DEF ListsInv, Rings, ListRemove, ListNodes
<1>2. next' = next /\ prev' = prev
  BY <1>1 DEF ListRemove, list_remove
<1>3. \A r \in Roots : Without(listed[r], item) = listed[r]
  BY DEF InNone, Without
<1>4. listed' = listed
  <2>1. listed' = [r \in Roots |-> Without(listed[r], item)]
    BY DEF ListRemove
  <2> QED BY <1>1, <1>3, <2>1
<1> QED BY <1>2, <1>4 DEF ListsInv

LEMMA RemoveKeepsRings ==
  ASSUME ListsAssumption, ListsInv, NEW item \in Items, ListRemove(item)
  PROVE  ListsInv'
<1>1. CASE InNone(item, listed)
  BY <1>1, TakeAgain
<1>2. CASE ~InNone(item, listed)
  <2>1. PICK root \in Roots : Contains(listed[root], item)
    BY <1>2 DEF InNone
  <2>2. PICK j \in 1..Len(listed[root]) : listed[root][j] = item
    BY <2>1 DEF Contains
  <2>3. /\ listed \in [Roots -> Seq(Items)]
        /\ \A r \in Roots \ {root} : ~Contains(listed[r], item)
    BY <2>1 DEF ListsInv, Rings
  <2>4. \A r \in Roots \ {root} : Without(listed[r], item) = listed[r]
    BY <2>3 DEF Without
  <2>5. listed' = [r \in Roots |-> Without(listed[r], item)] /\ list_remove(item)
    BY DEF ListRemove
  <2>6. listed' = [listed EXCEPT ![root] = Without(listed[root], item)]
    BY <2>3, <2>4, <2>5
  <2> QED BY <2>2, <2>5, <2>6, TakeKeeps
<1> QED BY <1>1, <1>2

LEMMA PopKeepsRings ==
  ASSUME ListsAssumption, ListsInv, NEW root \in Roots, ListPop(root)
  PROVE  ListsInv'
<1> DEFINE s == listed[root]
<1>1. CASE next[root] = root
  BY <1>1 DEF ListPop, ListsInv
<1>2. CASE next[root] # root
  <2>1. s \in Seq(Items) /\ Linked(next, prev, root, s)
    BY RingFacts DEF ListsInv
  <2>2. Len(s) \in Nat
    BY <2>1, LenProperties
  <2>3. next[root] = Node(root, s, 1)
    <3>1. 0 \in 0..Len(s) /\ 0 \notin 1..Len(s) /\ 0 + 1 = 1
      BY <2>2
    <3>2. Node(root, s, 0) = root
      BY <3>1 DEF Node
    <3> QED BY <2>1, <3>1, <3>2 DEF Linked
  <2>4. 1 \in 1..Len(s) /\ next[root] = s[1]
    BY <1>2, <2>3 DEF Node
  <2>5. list_remove(s[1]) /\ listed' = [listed EXCEPT ![root] = Without(s, s[1])]
    BY <1>2, <2>4 DEF ListPop
  <2> QED BY <2>4, <2>5, TakeKeeps
<1> QED BY <1>1, <1>2

LEMMA AddKeepsRings ==
  ASSUME ListsAssumption, ListsInv, NEW root \in Roots, NEW item \in Items, ListAdd(root, item)
  PROVE  ListsInv'
<1> DEFINE s == listed[root]
           t == <<item>> \o s
           b == next[root]
<1>1. CASE list_find(root, item)
  BY <1>1 DEF ListAdd, ListsInv
<1>2. CASE ~list_find(root, item)
  <2>1. /\ root \notin Items /\ Items \subseteq ListNodes /\ root \in ListNodes
        /\ s \in Seq(Items) /\ Distinct(s) /\ Linked(next, prev, root, s)
        /\ \A k \in 0..(Len(s) + 1) :
             LET x == Node(root, s, k)
             IN  x \in ListNodes /\ (x = root \/ (x \in Items /\ Contains(s, x)))
    BY RingFacts DEF ListsInv
  <2>2. \A k \in 0..Len(s) : next[Node(root, s, k)] = Node(root, s, k + 1)
    BY <2>1 DEF Linked
  <2>3. WalkLinks(next, root) = s
    BY <2>1, <2>2, WalkOfRing
  <2>4. ~Contains(s, item)
    BY <1>2, <2>3 DEF list_find
  <2>5. Len(s) \in Nat
    BY <2>1, LenProperties
  <2>6. b = Node(root, s, 1)
    <3>1. 0 \in 0..Len(s) /\ 0 \notin 1..Len(s) /\ 0 + 1 = 1
      BY <2>5
    <3>2. Node(root, s, 0) = root
      BY <3>1 DEF Node
    <3> QED BY <2>2, <3>1, <3>2
  <2>7. b \in ListNodes /\ (b = root \/ Contains(s, b)) /\ b # item /\ root # item
    <3>1. 1 \in 0..(Len(s) + 1)
      BY <2>5
    <3> QED BY <2>1, <2>4, <2>6, <3>1
  <2>8. /\ prev' = [prev EXCEPT ![b] = item, ![item] = root]
        /\ next' = [next EXCEPT ![item] = b, ![root] = item]
        /\ listed' = [listed EXCEPT ![root] = t]
        /\ \A r \in Roots \ {root} : ~Contains(listed[r], item)
    BY <1>2 DEF ListAdd, list_add_between
  <2>9. /\ next \in [ListNodes -> ListNodes \cup {Wild}]
        /\ prev \in [ListNodes -> ListNodes \cup {Wild}]
        /\ Rings(next, prev, listed) /\ item \in ListNodes
    BY DEF ListsInv, Rings, ListNodes
  <2> HIDE DEF s, b
  <2>10. /\ next' \in [ListNodes -> ListNodes \cup {Wild}]
         /\ next'[root] = item /\ next'[item] = b
         /\ \A x \in ListNodes : x # root /\ x # item => next'[x] = next[x]
    BY <2>1, <2>7, <2>8, <2>9
  <2>11. /\ prev' \in [ListNodes -> ListNodes \cup {Wild}]
         /\ prev'[b] = item /\ prev'[item] = root
         /\ \A x \in ListNodes : x # b /\ x # item => prev'[x] = prev[x]
    BY <2>1, <2>7, <2>8, <2>9
  <2>12. Items \cup {root} \subseteq ListNodes
    BY <2>1
  <2>13. /\ t \in Seq(Items) /\ Distinct(t) /\ Linked(next', prev', root, t)
         /\ \A x : Contains(t, x) <=> x = item \/ Contains(s, x)
    <3>1. next'[item] = Node(root, s, 1) /\ prev'[Node(root, s, 1)] = item
      BY <2>6, <2>10, <2>11
    <3>2. \A x \in Items \cup {root} : x # root /\ x # item => next'[x] = next[x]
      BY <2>10, <2>12
    <3>3. \A x \in Items \cup {root} : x # Node(root, s, 1) /\ x # item => prev'[x] = prev[x]
      BY <2>6, <2>11, <2>12
    <3>4. Enters(root, s, next, prev, item, next', prev')
      BY <2>10, <2>11, <3>1, <3>2, <3>3 DEF Enters
    <3> QED BY <2>1, <2>4, <3>4, AddToRing
  <2>14. \A x \in ListNodes : (x # root /\ x # item /\ ~Contains(s, x)) =>
           next'[x] = next[x] /\ prev'[x] = prev[x]
    BY <2>7, <2>10, <2>11
  <2> HIDE DEF t
  <2>15. \A x : x # item => (Contains(t, x) <=> Contains(listed[root], x))
    BY <2>13 DEF s
  <2>16. \A x \in ListNodes : (x # root /\ x # item /\ ~Contains(listed[root], x)) =>
           next'[x] = next[x] /\ prev'[x] = prev[x]
    BY <2>14 DEF s
  <2>17. ~Contains(t, item) => next'[item] = item /\ prev'[item] = item
    BY <2>13
  <2>18. Rings(next', prev', [listed EXCEPT ![root] = t])
    <3>1. Changes(next, prev, listed, root, item, t, next', prev')
      BY <2>8, <2>10, <2>11, <2>13, <2>15, <2>16, <2>17 DEF Changes
    <3> QED BY <2>9, <3>1, OneListChanges
  <2> QED BY <2>8, <2>18 DEF ListsInv
<1> QED BY <1>1, <1>2

LEMMA ListsStep ==
  ASSUME ListsAssumption, ListsInv, ListsNext PROVE ListsInv'
BY AddKeepsRings, RemoveKeepsRings, PopKeepsRings DEF ListsNext

LEMMA ListsInitially ==
  ASSUME ListsAssumption, ListsInit PROVE ListsInv
<1>1. /\ next = [n \in ListNodes |-> IF n \in Roots THEN n ELSE Wild]
      /\ prev = next /\ listed = [r \in Roots |-> <<>>]
  BY DEF ListsInit
<1>2. next \in [ListNodes -> ListNodes \cup {Wild}] /\ listed \in [Roots -> Seq(Items)]
  BY <1>1 DEF ListNodes
<1>3. Len(<<>>) = 0 /\ \A k : k \notin 1..0
  OBVIOUS
<1>4. ASSUME NEW r \in Roots PROVE Distinct(listed[r]) /\ Linked(next, prev, r, listed[r])
  <2>1. listed[r] = <<>> /\ next[r] = r
    BY <1>1 DEF ListNodes
  <2>2. Distinct(<<>>) /\ \A k : Node(r, <<>>, k) = r
    BY <1>3 DEF Distinct, Node
  <2> QED BY <1>1, <2>1, <2>2 DEF Linked
<1>5. \A r \in Roots : \A i : ~Contains(listed[r], i)
  BY <1>1, <1>3 DEF Contains
<1>6. \A i \in Items : next[i] = Wild
  BY <1>1 DEF ListNodes, ListsAssumption
<1> QED BY <1>1, <1>2, <1>4, <1>5, <1>6 DEF ListsInv, Rings

(* The user finds his items, in either direction.                          *)
LEMMA ListsAreKept ==
  ASSUME ListsAssumption, ListsInv PROVE ListsHold
<1> SUFFICES ASSUME NEW root \in Roots
             PROVE  /\ WalkLinks(next, root) = listed[root]
                    /\ WalkLinks(prev, root) = Reverse(listed[root])
  BY DEF ListsHold
<1>1. /\ listed[root] \in Seq(Items) /\ Distinct(listed[root])
      /\ Linked(next, prev, root, listed[root])
  BY RingFacts DEF ListsInv
<1>2. \A k \in 0..Len(listed[root]) :
        next[Node(root, listed[root], k)] = Node(root, listed[root], k + 1)
  BY <1>1 DEF Linked
<1> QED BY <1>1, <1>2, WalkOfRing, WalkBack

-----------------------------------------------------------------------------
(* The containers together.                                                *)
ContainersInv == ListsInv /\ OlistInv /\ BitsetInv

(* The three containers keep what they are.                                *)
THEOREM ContainersInvariance ==
  ListsAssumption /\ ObjectsAssumption /\ ContainersSpec => []ContainersInv
<1> SUFFICES ASSUME ListsAssumption, ObjectsAssumption
             PROVE  ContainersSpec => []ContainersInv
  OBVIOUS
<1>1. ContainersInit => ContainersInv
  BY ListsInitially, OlistInitially, BitsetInitially DEF ContainersInit, ContainersInv
<1>2. ContainersInv /\ [UseLists \/ UseOlist \/ UseBitset]_containerVars => ContainersInv'
  <2> SUFFICES ASSUME ListsInv, OlistInv, BitsetInv,
                      [UseLists \/ UseOlist \/ UseBitset]_containerVars
               PROVE  ListsInv' /\ OlistInv' /\ BitsetInv'
    BY DEF ContainersInv
  <2>1. ASSUME UNCHANGED listVars PROVE ListsInv'
    BY <2>1 DEF listVars, ListsInv
  <2>2. ASSUME UNCHANGED olistVars PROVE OlistInv'
    BY <2>2 DEF olistVars, OlistInv
  <2>3. ASSUME UNCHANGED bitsetVars PROVE BitsetInv'
    BY <2>3 DEF bitsetVars, BitsetInv
  <2>4. CASE UseLists
    BY <2>2, <2>3, <2>4, ListsStep DEF UseLists
  <2>5. CASE UseOlist
    BY <2>1, <2>3, <2>5, OlistStep DEF UseOlist
  <2>6. CASE UseBitset
    BY <2>1, <2>2, <2>6, BitsetStep DEF UseBitset
  <2>7. CASE UNCHANGED containerVars
    BY <2>1, <2>2, <2>3, <2>7 DEF containerVars
  <2> QED BY <2>4, <2>5, <2>6, <2>7
<1> QED BY <1>1, <1>2, PTL DEF ContainersSpec

(* The links of list.h are right after any calls of list_add, list_remove  *)
(* and list_pop, for any number of lists and items; the array of olist.c   *)
(* has each object of its user once and a place left; bitset.c changes one *)
(* bit and no other.  So what was put in is found, and nothing else.       *)
THEOREM ContainersKeep ==
  ListsAssumption /\ ObjectsAssumption /\ ContainersSpec => []ContainersHold
<1> SUFFICES ASSUME ListsAssumption, ObjectsAssumption
             PROVE  ContainersSpec => []ContainersHold
  OBVIOUS
<1>1. ContainersInv => ContainersHold
  BY ListsAreKept, ObjectsAreKept DEF ContainersInv, ContainersHold
<1> QED BY <1>1, ContainersInvariance, PTL
=============================================================================
