------------------------------ MODULE LinuxMm ------------------------------
(***************************************************************************)
(* The page tables under the memory management of the Linux port, which    *)
(* makes and frees level 1 tables for its processes, maps pages of level 2 *)
(* tables in them and in its own table, and switches between processes.    *)
(* The port is not part of the repository: its side is what the hypercalls *)
(* are documented to be used for.                                          *)
(***************************************************************************)
EXTENDS PageTables

CONSTANTS
  UserPmds,     \* the entries, in pairs, where processes map memory
  KernelPmds,   \* those of the vmalloc area
  TablePages,   \* the pages Linux allocates tables in
  Mistakes      \* pages outside its memory that Linux may pass

ASSUME LinuxAssumption ==
  /\ UserPmds \cup KernelPmds \subseteq Nat
  /\ \A i \in UserPmds : i + 1 < MODULES_VADDR
  /\ \A i \in KernelPmds : /\ PAGE_OFFSET + GuestSize <= i
                           /\ i + 1 < VMALLOC_END
  /\ \A i \in UserPmds \cup KernelPmds : i + 1 \notin UserPmds \cup KernelPmds
  /\ TablePages \subseteq GuestPages
  /\ Mistakes \subseteq Nat \ GuestPages

(* The level 1 tables of the processes.                                    *)
mms == DOMAIN pgd

(* Pages of level 2 tables that some entry refers to.                      *)
PtesOf(table) == {table[i].at : i \in {j \in Indexes : table[j].type = "pte"}}
PtePages == UNION {PtesOf(Entries(p)) : p \in mms \cup {Swapper}}

(* The pages that hold page tables, and those Linux may allocate.          *)
InUse == PgdSpan(Swapper) \cup (UNION {PgdSpan(p) : p \in mms}) \cup PtePages
Mapped(page) == flpt[LinearIndex(page)].type # "fault"
FreePages == {q \in TablePages \ InUse : Mapped(q)}
FreeSpans == {p \in FreePages : p % PgdPages = 0 /\ PgdSpan(p) \subseteq FreePages}

(* At boot, before any process: the memory the initial map leaves out, or  *)
(* sections that the guest should not ask for.                             *)
MapLowmem ==
  /\ mms = {} /\ PtePages = {}
  /\ \/ \E m \in 0..(GuestSize - 1) :
          /\ flpt[PAGE_OFFSET + m] = Fault \/ m = 0
          /\ CreateSection(PAGE_OFFSET + m, m)
     \/ /\ Mistakes # {}
        /\ \/ CreateSection(PAGE_OFFSET, GuestSize)
           \/ CreateSection(HAL_VIRT_START, 0)
           \/ CreateSection(LastIndex, 0)

NewMm == \E p \in FreeSpans \cup Mistakes : NewPgd(p)

(* A process that is not running, after its mappings are gone.             *)
FreeMm ==
  \/ \E p \in mms \ {ttb} :
       /\ \A i \in UserPmds : pgd[p][i] = Fault
       /\ FreePgd(p)
  \/ \E p \in Mistakes : FreePgd(p)

SwitchTo == \E p \in mms \cup {Swapper} \cup Mistakes : SwitchMm(p)

(* A page of level 2 tables for a process, or for the kernel itself.       *)
MapPmd ==
  \/ \E p \in mms, i \in UserPmds, page \in FreePages \cup Mistakes :
       /\ pgd[p][i] = Fault
       /\ SetPmd(p, i, page)
  \/ \E p \in Mistakes, i \in UserPmds, page \in FreePages : SetPmd(p, i, page)
  \/ \E i \in KernelPmds, page \in FreePages :
       /\ flpt[i] = Fault
       /\ SetPmd(Swapper, i, page)

(* The fault handler copies an entry of the kernel that is newer than the  *)
(* process.                                                                *)
CopyKernelPmd ==
  \E p \in mms, i \in KernelPmds :
    /\ flpt[i] # Fault /\ pgd[p][i] = Fault
    /\ SetPmd(p, i, flpt[i].at)

UnmapPmd ==
  \/ \E p \in mms, i \in UserPmds : pgd[p][i] # Fault /\ ClearPmd(p, i)
  \/ \E p \in Mistakes, i \in UserPmds : ClearPmd(p, i)

Stopped ==
  /\ mm_status \in {"panic", "wild", "astray"}
  /\ UNCHANGED ptVars

MmNext ==
  \/ ClearLinuxMappings \/ MapLowmem \/ NewMm \/ FreeMm \/ SwitchTo
  \/ MapPmd \/ CopyKernelPmd \/ UnmapPmd \/ Stopped

MmSpec == PtInit /\ [][MmNext]_ptVars

-----------------------------------------------------------------------------
(* In the master table a page of the guest is read only exactly while it   *)
(* holds a page table, of either level, in any process: protection is set  *)
(* when a table comes into use and lifted when the page can be used again. *)
ReadOnlyExactlyTables ==
  mm_status = "running" =>
    \A q \in GuestPages : Mapped(q) => (Access(flpt, q) = "ro" <=> q \in InUse)

(* Every table in use maps the linear map to the memory it is the map of,  *)
(* whatever was split before or after the table was copied, and no two     *)
(* megabytes share a level 2 table.                                        *)
LinearMapTrue ==
  \A p \in mms \cup {Swapper}, m \in 0..(GuestSize - 1) :
    LET e == Entries(p)[PAGE_OFFSET + m]
    IN  /\ e.type = "section" => e.at = m
        /\ e.type = "coarse" => /\ slpt[e.at].pa = m
                                /\ e = flpt[PAGE_OFFSET + m]

(* Whenever the MMU walks a table in the guest's memory, every page of it, *)
(* not only the one that SWITCH_MM tests, is read only in the master       *)
(* table.  WalksGuestTables is about the tables elsewhere.                 *)
ActiveTableProtected ==
  mm_status = "running" /\ ttb \in GuestPages =>
    \A q \in PgdSpan(ttb) : Access(flpt, q) = "ro"

(* For a page of the guest, a handler loses a megabyte, or follows an      *)
(* entry that is no table, only when the hypervisor has given away its     *)
(* last level 2 table.  For an address outside the guest's memory it may   *)
(* go astray at any time.                                                  *)
WildOnlyOutOfTables == mm_status = "wild" => l2_index_p = MaxTable + 1

-----------------------------------------------------------------------------
(* Manual, 5.6 and 5.8: NEW_PGD makes the address space of the table READ  *)
(* ONLY for the guest, and page tables are protected by read only access.  *)
(* The guest runs under the table of some process: there, too, no page     *)
(* that holds a page table is writable.                                    *)
ReadOnlyUnderActive ==
  mm_status = "running" => \A q \in InUse : Access(Entries(ttb), q) # "rw"

(* hyp_mmu.c, 63 to 68: SWITCH_MM checks that the table base is inside the *)
(* allowed regions and resides in kernel address space.  Whatever address  *)
(* Linux passes, the MMU walks a table in the guest's memory.              *)
WalksGuestTables == mm_status = "running" => ttb \in GuestPages

(* Manual, 5.1: GUEST_INIT clears out all the page table mappings below    *)
(* the kernel image.                                                       *)
NothingBelowKernel ==
  mm_status = "running" => \A i \in 0..(PAGE_OFFSET - 1) : flpt[i] = Fault
=============================================================================
