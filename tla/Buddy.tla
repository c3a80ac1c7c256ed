------------------------------- MODULE Buddy -------------------------------
(***************************************************************************)
(* One buddy allocator and its user, who takes blocks of any order,        *)
(* anywhere or at a page of its choice, and gives them back in any order.  *)
(***************************************************************************)
EXTENDS BuddyContext

CONSTANT BuddySizes  \* the sizes, in pages, an allocator may be made with

BuddyAssumption == BuddySizes \subseteq Nat \ {0}

VARIABLES
  ctxt,   \* the buddy_ctxt_t
  given,  \* the pages between first_free and last_free
  pages   \* the blocks the user has, [page, order]

contextVars == <<ctxt, given, pages>>

Orders == 0..(ctxt.order - 1)

ContextInit ==
  /\ \E size \in BuddySizes : \E first, last \in 0..(size - 1) :
       /\ ctxt = BuddyInit(size, first, last)
       /\ given = first..last
  /\ pages = {}

(* buddy_alloc                                                             *)
BuddyAlloc(order) ==
  /\ OrdersWithBlocks(ctxt, order) # {}
  /\ LET block == FirstFit(ctxt, order)
     IN  /\ ctxt' = TakeFrom(ctxt, block, block.page, order)
         /\ pages' = pages \union {[page |-> block.page, order |-> order]}
  /\ UNCHANGED given

(* buddy_alloc_at                                                          *)
BuddyAllocAt(page, order) ==
  /\ \E block \in FreeBlocksAt(ctxt, page, order) :
       ctxt' = TakeFrom(ctxt, block, page, order)
  /\ pages' = pages \union {[page |-> page, order |-> order]}
  /\ UNCHANGED given

(* buddy_free is told the page only, the order is in the page's words.     *)
FreeBlock(block) ==
  /\ ctxt' = BuddyFree(ctxt, block.page)
  /\ pages' = pages \ {block}
  /\ UNCHANGED given

ContextNext ==
  \/ \E order \in Orders :
       BuddyAlloc(order) \/ \E page \in Pages(ctxt) : BuddyAllocAt(page, order)
  \/ \E block \in pages : FreeBlock(block)

ContextSpec == ContextInit /\ [][ContextNext]_contextVars

-----------------------------------------------------------------------------
Run(page, order) == page..(page + Power[order] - 1)

(* Every list is doubly linked, ends, and holds blocks of its own order    *)
(* that are marked free; a block in use is not, and tells buddy_free its   *)
(* order.  So the words that matter are true, although those of many other *)
(* pages are out of date.                                                  *)
WordsAreTrue ==
  /\ \A page \in Pages(ctxt) :
       {ctxt.all[page].next, ctxt.all[page].prev} \subseteq Pages(ctxt)
  /\ \A o \in OrdersWithBlocks(ctxt, 0) :
       LET at == Walk(ctxt, o)
           last == at[ctxt.index_max - 1]
       IN  /\ \A n \in Pages(ctxt) :
                /\ ctxt.all[at[n]].free
                /\ ctxt.all[at[n]].order = o
                /\ n > 0 /\ at[n] # at[n - 1] => ctxt.all[at[n]].prev = at[n - 1]
           /\ ctxt.all[at[0]].prev = at[0]
           /\ ctxt.all[last].next = last
  /\ \A block \in pages :
       /\ ~ctxt.all[block.page].free
       /\ ctxt.all[block.page].order = block.order

(* No page is lost, free twice, or free and in use.                        *)
PagesAreShared ==
  LET blocks == FreeBlocks(ctxt) \union pages
  IN  /\ UNION {Run(b.page, b.order) : b \in blocks} = given
      /\ \A b, c \in blocks : b # c =>
           Run(b.page, b.order) \cap Run(c.page, c.order) = {}

(* Free buddies have always been merged: free pages that could be a block  *)
(* lie in one, so that an allocation fails only when there are none.       *)
RoomIsFound ==
  LET free == given \ UNION {Run(b.page, b.order) : b \in pages}
  IN  \A o \in Orders, page \in Pages(ctxt) :
        page % Power[o] = 0 /\ Run(page, o) \subseteq free =>
          \E b \in FreeBlocks(ctxt) : Run(page, o) \subseteq Run(b.page, b.order)

(* A buddy allocator shares out its pages, finds the room that there is,   *)
(* and keeps its words such that it can.                                   *)
BuddyHolds == WordsAreTrue /\ PagesAreShared /\ RoomIsFound
=============================================================================
