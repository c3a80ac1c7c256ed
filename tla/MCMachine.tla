----------------------------- MODULE MCMachine -----------------------------
(***************************************************************************)
(* The parts of the hypervisor that run for any guest, and its libraries,  *)
(* in one run: the guest modes under software that does whatever it can,   *)
(* the page tables under Linux (MCLinuxMm), the tables it boots with, the  *)
(* guests' way to their addresses, the containers and the allocators, each *)
(* with a user of its own.  These parts share neither variables nor, in    *)
(* the model, time, so that one of them, `part', runs: its steps are       *)
(* explored, the others stay as they begin.                                *)
(***************************************************************************)
EXTENDS GuestModes, MCLinuxMm, BootMap, GuestImages, Containers, Slab, Heap,
        Buddy

CONSTANTS W, Meg, Regions, MregSizes, MaxHeld

VARIABLES
  part,
  free_megs, free_buddies, extents, attached  \* the memory regions

M == INSTANCE Mreg WITH Sizes <- MregSizes, held <- extents

regions == <<free_megs, free_buddies, extents, attached>>
guestParts == <<vars, ptVars, bootVars, imageVars>>
allocators == <<slabVars, heapVars, contextVars, regions>>

ASSUME BootMapAssumption /\ GuestImagesAssumption
ASSUME ListsAssumption /\ ObjectsAssumption
ASSUME HeapAssumption /\ BuddyAssumption /\ M!MregAssumption

(* The least that can be assumed of the software that GuestModes runs:     *)
(* every mode takes every trap it can take, in any order.                  *)
AllTraps == [m \in Modes |-> Traps]

(* Files of two, one and three words, and two that come too many.          *)
SomeImages == <<2, 1, 3, 1, 1>>

(* A region that begins and ends inside a megabyte, and one next to it.    *)
TwoRegions == {[adr |-> 3, size |-> 5], [adr |-> 8, size |-> 5]}

MachineInit ==
  /\ part \in {"modes", "mm", "boot", "images", "lists", "olist", "bitset",
               "slab", "heap", "buddy", "mreg"}
  /\ Init /\ PtInit /\ BootInit /\ ImagesInit /\ ContainersInit
  /\ FreshSlab /\ HeapInit /\ M!Init
  /\ part # "boot" => board = "beagleboard" /\ trusted
  /\ part # "bitset" => bits = 3 /\ \A w \in DOMAIN data : data[w] = {}
  /\ IF part = "buddy" THEN ContextInit
     ELSE ctxt = BuddyInit(1, 0, 0) /\ given = {0} /\ pages = {}

RunsForGuest ==
  /\ UNCHANGED <<containerVars, allocators>>
  /\ \/ part = "modes" /\ Next /\ UNCHANGED <<ptVars, bootVars, imageVars>>
     \/ part = "mm" /\ MmNext /\ UNCHANGED <<vars, bootVars, imageVars>>
     \/ part = "boot" /\ BootNext /\ UNCHANGED <<vars, ptVars, imageVars>>
     \/ part = "images" /\ ImagesNext /\ UNCHANGED <<vars, ptVars, bootVars>>

UsesContainer ==
  /\ UNCHANGED <<guestParts, allocators>>
  /\ \/ part = "lists" /\ UseLists
     \/ part = "olist" /\ UseOlist
     \/ part = "bitset" /\ UseBitset

UsesAllocator ==
  /\ UNCHANGED <<guestParts, containerVars>>
  /\ \/ /\ part = "slab" /\ SlabNext
        /\ UNCHANGED <<heapVars, contextVars, regions>>
     \/ /\ part = "heap" /\ HeapNext
        /\ UNCHANGED <<slabVars, contextVars, regions>>
     \/ /\ part = "buddy" /\ ContextNext
        /\ UNCHANGED <<slabVars, heapVars, regions>>
     \/ /\ part = "mreg" /\ M!Next
        /\ UNCHANGED <<slabVars, heapVars, contextVars>>

MachineNext ==
  /\ UNCHANGED part
  /\ RunsForGuest \/ UsesContainer \/ UsesAllocator

MachineSpec ==
  /\ MachineInit
  /\ [][MachineNext]_<<part, guestParts, containerVars, allocators>>

-----------------------------------------------------------------------------
(* Memory regions lose no page, free none twice and find the room that     *)
(* there is, at both levels; and a megabyte keeps its allocator as long as *)
(* a block of it is in use.                                                *)
RegionsHold ==
  part = "mreg" => M!BlocksHaveParents /\ M!PagesAreShared /\ M!RoomIsFound

(* The regions hand out their own pages, each to one user at a time.       *)
RegionsAreAllocator == M!ImplementsAllocator
=============================================================================
