-------------------------------- MODULE Heap --------------------------------
(***************************************************************************)
(* The heap behind malloc and free.  Its memory is a chain of chunks, each *)
(* a header and the memory behind it; a header holds the size of its chunk *)
(* and of the chunk before, and nothing else says where chunks begin.      *)
(*                                                                         *)
(* Memory is counted in the 8 bytes that a header takes and that sizes are *)
(* rounded up to, and addresses from the start of the heap.                *)
(***************************************************************************)
EXTENDS Integers

CONSTANT HeapSize  \* the size given to heap_init

HeapAssumption == HeapSize \in Nat \ {0, 1}

Units == 0..(HeapSize - 1)

VARIABLES
  heap,  \* the headers; what is behind them is kept as Data
  blocks,  \* the blocks the user has: where they begin and the size asked for
  freed    \* addresses given back whose headers the user could not overwrite

heapVars == <<heap, blocks, freed>>

(* A header whose two words are -1.  Both flags of it are set, its size    *)
(* without the flags differs from its size_prev, and a size_prev of -1     *)
(* leads back to the header itself.                                        *)
Joined == [size |-> -2, size_prev |-> -1, taken |-> TRUE, last |-> TRUE]

(* A place that holds no header.                                           *)
Data == [size |-> -3, size_prev |-> -3, taken |-> TRUE, last |-> TRUE]

Header ==
  [size : 0..HeapSize, size_prev : 0..HeapSize, taken : BOOLEAN, last : BOOLEAN]

None == -1

MarkerPrev(m, mark) ==
  LET prev == mark - 1 - m[mark].size_prev
  IN  IF prev \in Units THEN prev ELSE None

MarkerNext(m, mark) ==
  LET next == mark + 1 + m[mark].size
  IN  IF ~m[mark].last /\ next \in Units THEN next ELSE None

(* The chunk's successor learns the new size of the chunk.                 *)
TellNext(m, mark) ==
  LET next == MarkerNext(m, mark)
  IN  IF next = None THEN m
      ELSE [m EXCEPT ![next].size_prev = m[mark].size]

Join(m, m1, m2) ==
  IF m2 # MarkerNext(m, m1) \/ m[m1].taken \/ m[m2].taken
  THEN m
  ELSE LET longer == [m EXCEPT ![m1].size = @ + m[m2].size + 1,
                               ![m1].last = @ \/ m[m2].last]
       IN  [TellNext(longer, m1) EXCEPT ![m2] = Joined]

(* Faulty variant: the remainder's own header is counted as free memory.   *)
SplitGreedy(m, mark, size) ==
  LET rest == mark + 1 + size
      remain == m[mark].size - size
  IN  IF remain <= 1 THEN m
      ELSE [m EXCEPT ![rest] = [size |-> remain, size_prev |-> size,
                                taken |-> m[mark].taken, last |-> m[mark].last],
                     ![mark].size = size, ![mark].last = FALSE]

(* What is left must hold a header and 8 bytes.                            *)
Split(m, mark, size) ==
  LET rest == mark + 1 + size
      remain == m[mark].size - size
  IN  IF remain <= 1 THEN m
      ELSE TellNext([m EXCEPT ![rest] = [@ EXCEPT !.size = remain - 1,
                                                   !.size_prev = size,
                                                   !.taken = m[mark].taken,
                                                   !.last = m[mark].last],
                              ![mark].size = size,
                              ![mark].last = FALSE], rest)

(* The chunks, as a walk from the first header finds them.                 *)
Chunks(m) ==
  LET From[mark \in Units] ==
        {mark} \union (LET next == MarkerNext(m, mark)
                       IN  IF next = None THEN {} ELSE From[next])
  IN  From[0]

(* The free chunks that are large enough, and the best one: of the         *)
(* smallest the first.                                                     *)
Candidates(m, size) == {c \in Chunks(m) : ~m[c].taken /\ m[c].size >= size}

BestFit(m, size) ==
  CHOOSE b \in Candidates(m, size) :
    \A c \in Candidates(m, size) :
      m[b].size < m[c].size \/ (m[b].size = m[c].size /\ b <= c)

(* The sanity checks of heap_free.                                         *)
LooksAllocated(m, mark) ==
  LET prev == MarkerPrev(m, mark)
      next == MarkerNext(m, mark)
  IN  /\ prev # None => m[mark].size_prev = m[prev].size
      /\ next # None => m[next].size_prev = m[mark].size
      /\ m[mark].taken

(* Faulty variant: the chunk that was freed is joined with the next one    *)
(* although it is part of the previous one by then.                        *)
ReleaseStale(m, mark) ==
  LET prev == MarkerPrev(m, mark)
      next == MarkerNext(m, mark)
      free == [m EXCEPT ![mark].taken = FALSE]
      before == IF prev # None /\ ~m[prev].taken
                THEN Join(free, prev, mark) ELSE free
  IN  IF next # None /\ ~m[next].taken
      THEN Join(before, mark, next)
      ELSE before

(* A chunk becomes free and joins its free neighbours.                     *)
Release(m, mark) ==
  LET prev == MarkerPrev(m, mark)
      next == MarkerNext(m, mark)
      free == [m EXCEPT ![mark].taken = FALSE]
      joined == prev # None /\ ~m[prev].taken
      before == IF joined THEN Join(free, prev, mark) ELSE free
  IN  IF next # None /\ ~m[next].taken
      THEN Join(before, IF joined THEN prev ELSE mark, next)
      ELSE before

-----------------------------------------------------------------------------
(* heap_init                                                               *)
HeapInit ==
  /\ heap = [u \in Units |->
       IF u = 0 THEN [size |-> HeapSize - 1, size_prev |-> 0,
                      taken |-> FALSE, last |-> TRUE]
       ELSE Data]
  /\ blocks = {}
  /\ freed = {}

(* heap_alloc.  The user overwrites what it asked for.                     *)
HeapAlloc(size) ==
  /\ Candidates(heap, size) # {}
  /\ LET best == BestFit(heap, size)
         mine == (best + 1)..(best + size)
         after == [Split(heap, best, size) EXCEPT ![best].taken = TRUE]
     IN  /\ heap' = [u \in Units |-> IF u \in mine THEN Data ELSE after[u]]
         /\ blocks' = blocks \union {[adr |-> best + 1, size |-> size]}
         /\ freed' = {a \in freed : a - 1 \notin {best} \union mine}

(* heap_free of a block the user has, or of one it has given back before.  *)
HeapFree(adr) ==
  /\ adr \in {block.adr : block \in blocks} \union freed
  /\ blocks' = {block \in blocks : block.adr # adr}
  /\ freed' = freed \union {adr}
  /\ heap' = IF LooksAllocated(heap, adr - 1)
               THEN Release(heap, adr - 1) ELSE heap

HeapNext == \E u \in Units : HeapAlloc(u + 1) \/ HeapFree(u)

HeapSpec == HeapInit /\ [][HeapNext]_heapVars

-----------------------------------------------------------------------------
Taken == {c \in Chunks(heap) : heap[c].taken}
Extent(c) == c..(c + heap[c].size)

(* Headers hold sizes that fit the heap and chain all of it: every chunk   *)
(* ends where the next one begins or where the heap ends, and              *)
(* heap_marker_prev undoes heap_marker_next.  The chunks marked as taken   *)
(* are those the user has: no memory is lost, and heap_free refuses none   *)
(* of them.                                                                *)
ChainCoversHeap ==
  /\ heap \in [Units -> Header \union {Joined, Data}]
  /\ UNION {Extent(c) : c \in Chunks(heap)} = Units
  /\ \A c \in Chunks(heap) :
       IF heap[c].last THEN c + heap[c].size = HeapSize - 1
       ELSE MarkerPrev(heap, MarkerNext(heap, c)) = c
  /\ Taken = {block.adr - 1 : block \in blocks}
  /\ \A block \in blocks :
       /\ heap[block.adr - 1].size >= block.size
       /\ LooksAllocated(heap, block.adr - 1)

(* heap_alloc fails only when no piece of free memory is long enough: free *)
(* neighbours have always been joined.                                     *)
FreeRoomIsFound ==
  LET free == Units \ UNION {Extent(c) : c \in Taken}
  IN  \A size \in Units \ {0} :
        (\E u \in Units : u..(u + size) \subseteq free)
          => Candidates(heap, size) # {}

(* "Is this block already free??": a block that was given back is refused  *)
(* the second time, whatever it has been joined with since, as long as its *)
(* header was not overwritten.                                             *)
DoubleFreeIsRefused == \A adr \in freed : ~LooksAllocated(heap, adr - 1)

(* The promises of the heap's bookkeeping: the headers tell the truth, the *)
(* memory nobody has can be had, and a second free does no harm.           *)
HeapHolds == ChainCoversHeap /\ FreeRoomIsFound /\ DoubleFreeIsRefused

Abstract == INSTANCE Allocator WITH
  space <- Units,
  held <- {block.adr..(block.adr + block.size - 1) : block \in blocks}

(* The heap hands out its own memory, each piece to one user.              *)
ImplementsAllocator == Abstract!Spec
=============================================================================
