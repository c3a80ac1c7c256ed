---------------------------- MODULE BuddyContext ----------------------------
(***************************************************************************)
(* The buddy allocator of one piece of memory, as operators on its         *)
(* context b:                                                              *)
(*   b.index_max   the number of pages                                     *)
(*   b.order       the number of free lists                                *)
(*   b.free[o]     the first page of the list of order o, or Empty         *)
(*   b.all[i]      the two words of page i, taken apart.                   *)
(* The words of a page say something only while a block begins there; the  *)
(* lists run through the words, and a page that points to itself is the    *)
(* end.  Addresses are page numbers relative to the base.                  *)
(***************************************************************************)
EXTENDS Integers

Empty == -1

Pages(b) == 0..(b.index_max - 1)

(* What is left of a page's words by memset and by block->prev = 0.        *)
Cleared == [free |-> FALSE, next |-> 0, order |-> 0, prev |-> 0]

(* The pages of a block of this order, 1 << order.                         *)
Power[order \in Nat] == IF order = 0 THEN 1 ELSE 2 * Power[order - 1]

(* The smallest order whose blocks hold size pages.                        *)
OrderOf(size) ==
  CHOOSE o \in 0..size :
    size <= Power[o] /\ \A smaller \in 0..(o - 1) : Power[smaller] < size

(* The other half of the block of twice the size, index ^ (1 << order).    *)
BuddyOf(index, order) ==
  IF (index \div Power[order]) % 2 = 0 THEN index + Power[order]
  ELSE index - Power[order]

AddFree(b, index, order) ==
  LET first == b.free[order]
      mine == [free |-> TRUE, order |-> order, prev |-> index,
               next |-> IF first = Empty THEN index ELSE first]
      second == IF first = Empty THEN b.all
                ELSE [b.all EXCEPT ![first].prev = index]
  IN  [b EXCEPT !.all = [second EXCEPT ![index] = mine],
                !.free[order] = index]

(* Faulty variant: the last page of a list stays linked to it.             *)
RemoveFreeLinked(b, index, order) ==
  LET next == b.all[index].next
      prev == b.all[index].prev
      head == prev = index
      tail == next = index
  IN  CASE head /\ tail -> [b EXCEPT !.free[order] = Empty]
        [] head /\ ~tail -> [b EXCEPT !.free[order] = next,
                                      !.all[next].prev = next]
        [] ~head /\ tail -> b
        [] OTHER -> [b EXCEPT !.all[next].prev = prev, !.all[prev].next = next]

(* The words of the removed page stay as they are.                         *)
RemoveFree(b, index, order) ==
  LET next == b.all[index].next
      prev == b.all[index].prev
      head == prev = index
      tail == next = index
  IN  CASE head /\ tail -> [b EXCEPT !.free[order] = Empty]
        [] head /\ ~tail -> [b EXCEPT !.free[order] = next,
                                      !.all[next].prev = next]
        [] ~head /\ tail -> [b EXCEPT !.all[prev].next = prev]
        [] OTHER -> [b EXCEPT !.all[next].prev = prev, !.all[prev].next = next]

(* The buddy can be merged with a free block of this order.                *)
Mergeable(b, buddy, order) ==
  /\ buddy < b.index_max
  /\ b.all[buddy].free
  /\ b.all[buddy].order = order

(* Faulty variant: only a buddy that lies before the block is merged.      *)
MergeBackwards(m, order) ==
  LET buddy == BuddyOf(m.index, order)
  IN  IF m.order # order \/ buddy > m.index \/ ~Mergeable(m.ctxt, buddy, order) THEN m
      ELSE [ctxt |-> RemoveFree(m.ctxt, buddy, order), index |-> buddy, order |-> order + 1]

(* One round of buddy_free's loop, at the order of m.                      *)
Merge(m, order) ==
  LET buddy == BuddyOf(m.index, order)
  IN  IF m.order # order \/ ~Mergeable(m.ctxt, buddy, order) THEN m
      ELSE [ctxt |-> RemoveFree(m.ctxt, buddy, order),
            index |-> IF buddy < m.index THEN buddy ELSE m.index,
            order |-> order + 1]

(* buddy_free: the largest order is never merged any further.              *)
BuddyFree(b, index) ==
  IF index \notin Pages(b) \/ b.all[index].free THEN b
  ELSE LET first == b.all[index].order
           Merged[order \in first..(b.order - 1)] ==
             IF order = first THEN [ctxt |-> b, index |-> index, order |-> first]
             ELSE Merge(Merged[order - 1], order - 1)
           last == Merged[b.order - 1]
       IN  AddFree(last.ctxt, last.index, last.order)

(* The count pages from first on are freed one by one, but for the kept    *)
(* ones.                                                                   *)
FreeEach(b, first, count, kept) ==
  LET Freed[n \in 0..count] ==
        IF n = 0 THEN b
        ELSE IF first + n - 1 \in kept THEN Freed[n - 1]
        ELSE BuddyFree(Freed[n - 1], first + n - 1)
  IN  Freed[count]

(* buddy_allocate_subset: the free block at index1 is taken out, the part  *)
(* at index2 stays out, and the other pages are freed.  Inside the part    *)
(* that stays out only the words of its first page are written.            *)
AllocateSubset(b, index1, order1, index2, order2) ==
  LET whole == index1..(index1 + Power[order1] - 1)
      part == index2..(index2 + Power[order2] - 1)
      out == RemoveFree(b, index1, order1)
      inUse == [out EXCEPT !.all =
        [i \in Pages(b) |->
           IF i = index2 THEN [Cleared EXCEPT !.order = order2]
           ELSE IF i \in whole \ part THEN Cleared ELSE out.all[i]]]
  IN  FreeEach(inUse, index1, Power[order1], part)

(* buddy_init: every page is freed that lies between first and last.       *)
BuddyInit(size, first, last) ==
  LET orders == OrderOf(size) + 1
      none == [index_max |-> size, order |-> orders,
               free |-> [o \in 0..(orders - 1) |-> Empty],
               all |-> [i \in 0..(size - 1) |-> Cleared]]
  IN  FreeEach(none, 0, size, Pages(none) \ (first..last))

(* The orders from this one on whose lists are not empty.                  *)
OrdersWithBlocks(b, order) == {o \in order..(b.order - 1) : b.free[o] # Empty}

(* The block buddy_alloc takes: the first of the first list that has one.  *)
FirstFit(b, order) ==
  LET from == CHOOSE o \in OrdersWithBlocks(b, order) :
                \A other \in OrdersWithBlocks(b, order) : o <= other
  IN  [page |-> b.free[from], order |-> from]

(* The pages buddy_alloc_at meets in a list, one after the other; it stays *)
(* at the last one.                                                        *)
Walk(b, order) ==
  LET At[n \in Pages(b)] ==
        IF n = 0 THEN b.free[order] ELSE b.all[At[n - 1]].next
  IN  At

FreeBlocks(b) ==
  {[page |-> Walk(b, o)[n], order |-> o] :
     o \in OrdersWithBlocks(b, 0), n \in Pages(b)}

(* The blocks buddy_alloc_at may take a block of this order at page from:  *)
(* none when page is not aligned.                                          *)
FreeBlocksAt(b, page, order) ==
  {block \in FreeBlocks(b) :
     /\ page % Power[order] = 0
     /\ block.order >= order
     /\ block.page <= page
     /\ page + Power[order] <= block.page + Power[block.order]}

(* The smaller block at page is taken out of the free block.               *)
TakeFrom(b, block, page, order) ==
  AllocateSubset(b, block.page, block.order, page, order)
=============================================================================
