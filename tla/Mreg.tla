-------------------------------- MODULE Mreg --------------------------------
(***************************************************************************)
(* Memory regions: whole megabytes are kept in a list of free ranges, and  *)
(* a megabyte from which less is wanted becomes a buddy allocator of its   *)
(* own.  The pieces of an attached region before its first and behind its  *)
(* last megabyte are buddy allocators from the start.                      *)
(*                                                                         *)
(* Addresses and sizes are in pages, and wrap around as addr_t and size_t  *)
(* do.  The allocation of memory for the bookkeeping itself succeeds.      *)
(***************************************************************************)
EXTENDS BuddyContext, SequencesExt

CONSTANTS
  W,        \* pages of the address space: addresses are modulo W
  Meg,      \* pages of a megabyte
  Regions,  \* the regions the user may attach, [adr, size]
  Sizes,    \* the sizes the user asks for
  MaxHeld   \* blocks the user has at most

MregAssumption ==
  /\ Meg \in {2^n : n \in 1..10}
  /\ W \in {Meg * 2^n : n \in 0..12}
  /\ Regions \subseteq [adr : 0..(W - 1), size : 2..(W - 1)]
  /\ Sizes \subseteq 1..(W - 1)
  /\ MaxHeld \in Nat

VARIABLES
  free_megs,     \* the free ranges, [start, end]
  free_buddies,  \* the buddy allocators, [start, end, buddy]
  held,          \* the blocks the user has, [start, end, parent]
  attached       \* the regions the user has attached

vars == <<free_megs, free_buddies, held, attached>>

NoParent == -1

MegOrder == OrderOf(Meg)

AlignUp(x) == (((x + Meg - 1) \div Meg) * Meg) % W
AlignDown(x) == (x \div Meg) * Meg

RangeOf(first, last) == [start |-> first % W, end |-> last % W]
Length(range) == (range.end - range.start + 1) % W

-----------------------------------------------------------------------------
(* Level 1, on the list of free ranges: list_add adds at the front.        *)

(* The first range of the list that starts (ends) at an address.           *)
Starting(megs, adr) == SelectInSeq(megs, LAMBDA r : r.start = adr % W)
Ending(megs, adr) == SelectInSeq(megs, LAMBDA r : r.end = adr % W)

JoinHead(megs, range) ==
  LET i == Ending(megs, range.start - 1)
  IN  IF i = 0 THEN [megs |-> megs, range |-> range]
      ELSE LET longer == RangeOf(megs[i].start, range.end)
           IN  [megs |-> Remove(ReplaceAt(megs, i, longer), range),
                range |-> longer]

JoinTail(megs, range) ==
  LET i == Starting(megs, range.end + 1)
  IN  IF i = 0 THEN megs
      ELSE LET longer == RangeOf(range.start, megs[i].end)
           IN  Remove(ReplaceAll(megs, range, longer), megs[i])

Level1Free(megs, range) ==
  LET head == JoinHead(<<range>> \o megs, range)
  IN  JoinTail(head.megs, head.range)

(* What mreg_level1_split leaves in the list of a range cut at adr.        *)
Before(range, adr) ==
  IF range.start < adr THEN <<RangeOf(range.start, adr - 1)>> ELSE <<>>
After(range, last) ==
  IF range.end > last THEN <<RangeOf(last + 1, range.end)>> ELSE <<>>

(* The shortest of the ranges that are long enough, of those the first.    *)
BestFit(megs, size) ==
  LET fits == {i \in DOMAIN megs : Length(megs[i]) >= size}
      best == {i \in fits : \A j \in fits : Length(megs[i]) <= Length(megs[j])}
  IN  IF fits = {} THEN 0 ELSE CHOOSE i \in best : \A j \in best : i <= j

(* Level 1 allocations return the range they take, and the others.         *)
NoRange == [start |-> -1, end |-> -1]

Level1Allocate(megs, size) ==
  LET i == BestFit(megs, size)
  IN  IF i = 0 THEN [range |-> NoRange, megs |-> megs]
      ELSE LET mine == RangeOf(megs[i].start, megs[i].start + size - 1)
               rest == RangeOf(mine.end + 1, megs[i].end)
           IN  [range |-> mine,
                megs |-> (IF Length(megs[i]) > size THEN <<rest>> ELSE <<>>)
                           \o RemoveAt(megs, i)]

(* Faulty variant: what is before the megabyte is not put back.            *)
Level1AllocateAtLoseHead(megs, adr, size) ==
  LET last == (adr + size - 1) % W
      i == SelectInSeq(megs, LAMBDA r : r.start <= adr /\ last <= r.end)
  IN  IF adr % Meg # 0 \/ i = 0 THEN [range |-> NoRange, megs |-> megs]
      ELSE [range |-> RangeOf(adr, last),
            megs |-> After(megs[i], last) \o RemoveAt(megs, i)]

Level1AllocateAt(megs, adr, size) ==
  LET last == (adr + size - 1) % W
      i == SelectInSeq(megs, LAMBDA r : r.start <= adr /\ last <= r.end)
  IN  IF adr % Meg # 0 \/ i = 0 THEN [range |-> NoRange, megs |-> megs]
      ELSE [range |-> RangeOf(adr, last),
            megs |-> After(megs[i], last) \o Before(megs[i], adr)
                       \o RemoveAt(megs, i)]

-----------------------------------------------------------------------------
(* Level 2, on the list of buddy allocators.                               *)

(* memregion_attach_buddy: all of the range is free in its allocator.      *)
Attach(range) ==
  LET size == Length(range)
  IN  <<[start |-> range.start, end |-> range.end,
         buddy |-> BuddyInit(size, 0, size - 1)]>>

(* The index of adr in the allocator of region, as buddy.c computes it.    *)
IndexOf(region, adr) == (adr - region.start) % W

(* Level 2 allocations return the block, and the list after it.            *)
NoBlock == [start |-> -1, end |-> -1, parent |-> NoParent]

TakeBlock(buddies, i, block, index, order) ==
  LET start == (buddies[i].start + index) % W
  IN  [block |-> [start |-> start, end |-> (start + Power[order] - 1) % W,
                  parent |-> buddies[i].start],
       buddies |-> [buddies EXCEPT ![i].buddy =
                      TakeFrom(@, block, index, order)]]

(* The first allocator that can is asked; it hands out a power of two.     *)
Level2Allocate(buddies, size) ==
  LET order == OrderOf(size)
      i == SelectInSeq(buddies,
             LAMBDA r : OrdersWithBlocks(r.buddy, order) # {})
  IN  IF i = 0 THEN [block |-> NoBlock, buddies |-> buddies]
      ELSE LET block == FirstFit(buddies[i].buddy, order)
           IN  TakeBlock(buddies, i, block, block.page, order)

Level2AllocateAt(buddies, adr, size) ==
  LET order == OrderOf(size)
      Blocks(r) == FreeBlocksAt(r.buddy, IndexOf(r, adr), order)
      i == SelectInSeq(buddies, LAMBDA r : Blocks(r) # {})
  IN  IF i = 0 THEN [block |-> NoBlock, buddies |-> buddies]
      ELSE TakeBlock(buddies, i, CHOOSE b \in Blocks(buddies[i]) : TRUE,
                     IndexOf(buddies[i], adr), order)

Level2Free(buddies, block) ==
  [i \in DOMAIN buddies |->
     IF buddies[i].start = block.parent
     THEN [buddies[i] EXCEPT !.buddy =
             BuddyFree(@, IndexOf(buddies[i], block.start))]
     ELSE buddies[i]]

(* mreg_level2_shrink: allocators of whole megabytes that have a block of  *)
(* a whole megabyte go back to level 1, in the order of the list.          *)
IsWhole(region) ==
  /\ MegOrder < region.buddy.order
  /\ region.buddy.free[MegOrder] # Empty

Level2Shrink(megs, buddies) ==
  LET GiveBack(m, r) ==
        IF IsWhole(r) THEN Level1Free(m, RangeOf(r.start, r.end)) ELSE m
  IN  [megs |-> FoldLeft(GiveBack, megs, buddies),
       buddies |-> SelectSeq(buddies, LAMBDA r : ~IsWhole(r))]

-----------------------------------------------------------------------------
Init ==
  /\ free_megs = <<>>
  /\ free_buddies = <<>>
  /\ held = {}
  /\ attached = {}

PagesOf(first, size) == {(first + i) % W : i \in 0..(size - 1)}
Attached == UNION {PagesOf(r.adr, r.size) : r \in attached}

(* mreg_region_attach of memory that is not attached yet.                  *)
RegionAttach(r) ==
  /\ PagesOf(r.adr, r.size) \cap Attached = {}
  /\ LET end0 == (r.adr + r.size - 1) % W
         adr1 == AlignUp(r.adr)
         size1 == AlignDown((r.size + r.adr - adr1) % W)
         end1 == (adr1 + size1 - 1) % W
         head == IF r.adr < adr1 THEN Attach(RangeOf(r.adr, adr1 - 1)) ELSE <<>>
         tail == IF end0 # end1 /\ end0 >= (1 + end1) % W
                 THEN Attach(RangeOf(end1 + 1, end0)) ELSE <<>>
     IN  /\ free_megs' = IF size1 = 0 THEN free_megs
                         ELSE Level1Free(free_megs, RangeOf(adr1, end1))
         /\ free_buddies' = tail \o head \o free_buddies
  /\ attached' = attached \union {r}
  /\ UNCHANGED held

(* mreg_alloc of a megabyte or more: full megabytes, once again after the  *)
(* buddy allocators that are not used have been given back.                *)
AllocMegs(size) ==
  LET megs == AlignDown(size + Meg - 1)
      first == Level1Allocate(free_megs, megs)
      shrunk == Level2Shrink(free_megs, free_buddies)
      second == Level1Allocate(shrunk.megs, megs)
  IN  IF first.range # NoRange
      THEN [block |-> first.range, megs |-> first.megs,
            buddies |-> free_buddies]
      ELSE [block |-> second.range, megs |-> second.megs,
            buddies |-> shrunk.buddies]

(* mreg_alloc of less: once again after one more megabyte has become a     *)
(* buddy allocator.                                                        *)
AllocPages(size) ==
  LET first == Level2Allocate(free_buddies, size)
      one == Level1Allocate(free_megs, Meg)
      expanded == IF one.range = NoRange THEN free_buddies
                  ELSE Attach(one.range) \o free_buddies
      second == Level2Allocate(expanded, size)
  IN  IF first.block # NoBlock
      THEN [block |-> first.block, megs |-> free_megs,
            buddies |-> first.buddies]
      ELSE [block |-> second.block, megs |-> one.megs,
            buddies |-> second.buddies]

MregAlloc(size) ==
  LET result == IF size >= Meg THEN AllocMegs(size) ELSE AllocPages(size)
      parent == IF size >= Meg THEN NoParent ELSE result.block.parent
  IN  /\ free_megs' = result.megs
      /\ free_buddies' = result.buddies
      /\ held' = IF result.block.start = -1 THEN held
                 ELSE held \union {[start |-> result.block.start,
                                    end |-> result.block.end,
                                    parent |-> parent]}
      /\ UNCHANGED attached

(* mreg_alloc_at, inside one megabyte only.                                *)
AllocAt(adr, size) ==
  LET first == Level2AllocateAt(free_buddies, adr, size)
      one == Level1AllocateAt(free_megs, AlignDown(adr), Meg)
      second == Level2AllocateAt(Attach(one.range) \o free_buddies, adr, size)
  IN  IF first.block # NoBlock
      THEN [block |-> first.block, megs |-> free_megs,
            buddies |-> first.buddies]
      ELSE IF one.range = NoRange
      THEN [block |-> NoBlock, megs |-> free_megs, buddies |-> free_buddies]
      ELSE [block |-> second.block, megs |-> one.megs,
            buddies |-> second.buddies]

MregAllocAt(adr, size) ==
  /\ AlignDown(adr) = AlignDown((adr + size - 1) % W)
  /\ LET result == AllocAt(adr, size)
     IN  /\ free_megs' = result.megs
         /\ free_buddies' = result.buddies
         /\ held' = IF result.block = NoBlock THEN held
                    ELSE held \union {result.block}
  /\ UNCHANGED attached

(* mreg_free                                                               *)
MregFree(block) ==
  /\ IF block.parent = NoParent
     THEN /\ free_megs' = Level1Free(free_megs, RangeOf(block.start, block.end))
          /\ UNCHANGED free_buddies
     ELSE /\ free_buddies' = Level2Free(free_buddies, block)
          /\ UNCHANGED free_megs
  /\ held' = held \ {block}
  /\ UNCHANGED attached

Next ==
  \/ \E r \in Regions : RegionAttach(r)
  \/ /\ Cardinality(held) < MaxHeld
     /\ \E size \in Sizes :
          MregAlloc(size) \/ \E adr \in 0..(W - 1) : MregAllocAt(adr, size)
  \/ \E block \in held : MregFree(block)

Spec == Init /\ [][Next]_vars

-----------------------------------------------------------------------------
Extent(range) == PagesOf(range.start, Length(range))

(* The free pages of a buddy allocator.                                    *)
FreePages(region) ==
  UNION {PagesOf(region.start + b.page, Power[b.order]) :
         b \in FreeBlocks(region.buddy)}

FreeMegPages == UNION {Extent(free_megs[i]) : i \in DOMAIN free_megs}
FreeBuddyPages == UNION {FreePages(free_buddies[i]) : i \in DOMAIN free_buddies}
HeldPages == UNION {Extent(block) : block \in held}

(* Everything the allocator has to give was attached to it.                *)
OnlyAttached == FreeMegPages \union FreeBuddyPages \subseteq Attached

(* Every page that was attached is free at one level, free at the other,   *)
(* or in use, and only one of these; ranges of level 1 are whole           *)
(* megabytes.                                                              *)
PagesAreShared ==
  /\ \A i \in DOMAIN free_megs :
       free_megs[i].start % Meg = 0 /\ Length(free_megs[i]) % Meg = 0
  /\ FreeMegPages \union FreeBuddyPages \union HeldPages = Attached
  /\ FreeMegPages \cap FreeBuddyPages = {}
  /\ (FreeMegPages \union FreeBuddyPages) \cap HeldPages = {}
  /\ \A i, j \in DOMAIN free_buddies : i # j =>
       Extent(free_buddies[i]) \cap Extent(free_buddies[j]) = {}

(* A block of a buddy allocator keeps its allocator: none is given back to *)
(* level 1 while a block of it is in use, and its words know the order.    *)
BlocksHaveParents ==
  \A block \in held : block.parent # NoParent =>
    \E i \in DOMAIN free_buddies :
      LET region == free_buddies[i]
          word == region.buddy.all[IndexOf(region, block.start)]
      IN  /\ region.start = block.parent
          /\ Extent(block) \subseteq Extent(region)
          /\ ~word.free /\ Power[word.order] = Length(block)

(* An allocation fails only when no run of free pages is long enough, with *)
(* runs that begin at a multiple of what is allocated.  Megabytes are free *)
(* again once nothing in them is used, however they were cut before.       *)
RoomIsFound ==
  LET free == Attached \ HeldPages
      MegsAt(size) == {m \in 0..(W - size) : m % Meg = 0}
      RunsAt(size) == {p \in 0..(W - size) : p % size = 0}
  IN  /\ \A size \in {Meg * n : n \in 1..(W \div Meg - 1)} :
           (\E m \in MegsAt(size) : m..(m + size - 1) \subseteq free)
             => AllocMegs(size).block # NoRange
      /\ \A order \in 0..(MegOrder - 1) :
           (\E p \in RunsAt(Power[order]) : p..(p + Power[order] - 1) \subseteq free)
             => AllocPages(Power[order]).block # NoBlock

Abstract == INSTANCE Allocator WITH
  space <- Attached,
  held <- {Extent(block) : block \in held}

(* The user gets attached memory, and gets each page once.                 *)
ImplementsAllocator == Abstract!Spec
=============================================================================
