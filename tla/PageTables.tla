----------------------------- MODULE PageTables -----------------------------
(***************************************************************************)
(* The page tables of the guest: the master table of the hypervisor, which *)
(* is also Linux's swapper table, the level 2 tables it takes from its own *)
(* memory, the level 1 tables Linux allocates for its processes, and the   *)
(* hypercalls that change them.                                            *)
(*                                                                         *)
(* Addresses are counted in the units the code shifts them to: the index   *)
(* of a level 1 entry (1 MB) for virtual addresses, a page for physical    *)
(* ones, page 0 being PHYS_OFFSET.  A table in guest memory is named by    *)
(* its first page; a virtual address of the linear map is counted from     *)
(* PAGE_OFFSET, so that it has the number of the page it maps, and one     *)
(* below PAGE_OFFSET wraps to a number beyond all tables.  Each handler    *)
(* runs to its end, as in GuestModes.                                      *)
(***************************************************************************)
EXTENDS Naturals, FiniteSets

CONSTANTS
  PAGE_OFFSET,   \* first entry of the kernel's linear map (0xC00)
  MODULES_VADDR, \* entries below it belong to the user (0xBF0)
  GuestSize,     \* megabytes of guest memory (guest_info.guest_size)
  VMALLOC_END,   \* end of the kernel's entries, not above HAL_VIRT_START
  HAL_VIRT_START,\* entry of the hypervisor (0xF00)
  MAX_TRUSTED_SIZE, \* entries CREATE_SECTION keeps from the guest (16)
  LastIndex,     \* last entry of a level 1 table (0xFFF)
  LinuxSpan,     \* entries that LINUX_VA can name (256)
  RamStart,      \* entry of the 1:1 map of the guest's memory at boot
  InitialMap,    \* megabytes of the linear map that init_linux_page makes
  MBPages,       \* pages in a megabyte (256)
  PgdPages,      \* pages of a level 1 table (4)
  MaxTable       \* last level 2 table that pt_get_empty_l2 gives away

ASSUME LayoutAssumption ==
  /\ {PAGE_OFFSET, MODULES_VADDR, GuestSize, VMALLOC_END, HAL_VIRT_START,
      RamStart, InitialMap, MBPages, PgdPages, MaxTable,
      MAX_TRUSTED_SIZE, LastIndex, LinuxSpan} \subseteq Nat
  /\ 0 < InitialMap /\ InitialMap <= GuestSize
  /\ MODULES_VADDR < PAGE_OFFSET
  /\ PAGE_OFFSET + GuestSize <= VMALLOC_END /\ VMALLOC_END <= HAL_VIRT_START
  /\ VMALLOC_END <= 2 * (PAGE_OFFSET - 1)   \* see ClearedEntries
  /\ RamStart + GuestSize <= MODULES_VADDR
  /\ GuestSize <= LinuxSpan /\ PAGE_OFFSET + LinuxSpan <= HAL_VIRT_START
  /\ HAL_VIRT_START + MAX_TRUSTED_SIZE <= LastIndex
  /\ 0 < PgdPages /\ 2 * PgdPages <= MBPages /\ MBPages % PgdPages = 0

Indexes == 0..LastIndex
GuestPages == 0..(GuestSize * MBPages - 1)

(* The swapper table: pages 0x4000 to 0x8000 of the linear map.            *)
Swapper == PgdPages

MB(page) == page \div MBPages
Offset(page) == page % MBPages
LinearIndex(page) == PAGE_OFFSET + MB(page)

(* LINUX_VA keeps eight bits of the megabyte: every address has an entry   *)
(* between PAGE_OFFSET and the hypervisor.                                 *)
LINUX_VA(page) == PAGE_OFFSET + (MB(page) % LinuxSpan)
PgdSpan(pgd) == pgd..(pgd + PgdPages - 1)

(* Level 1 entries: of a section of memory, of a level 2 table of the      *)
(* hypervisor, or of half of a page in which the guest keeps two of them.  *)
Fault      == [type |-> "fault", at |-> 0]
Section(m) == [type |-> "section", at |-> m]
Coarse(t)  == [type |-> "coarse", at |-> t]
Pte(page)  == [type |-> "pte", at |-> page]

VARIABLES
  flpt,        \* the master table, flpt_va
  slpt,        \* the level 2 tables, slpt_va: the memory and its RO pages
  l2_index_p,  \* the next level 2 table to give away
  pgd,         \* the contents of the guest's level 1 tables
  ttb,         \* the table the MMU walks, TTBR0
  mm_status       \* "boot", "running", "panic", or, after the handler followed
               \* an entry that is no table, "wild" for a page of the guest
               \* and "astray" for another address

ptVars == <<flpt, slpt, l2_index_p, pgd, ttb, mm_status>>

NoTable == [pa |-> 0, ro |-> {}]

(* memory_init and init_linux_page: the 1:1 map, the first megabyte of the *)
(* linear map in pages with the swapper table read only, then sections.    *)
PtInit ==
  /\ flpt = [i \in Indexes |->
       CASE i \in RamStart..(RamStart + GuestSize - 1) -> Section(i - RamStart)
         [] i = PAGE_OFFSET                            -> Coarse(0)
         [] i \in PAGE_OFFSET + 1..PAGE_OFFSET + InitialMap - 1
                                                   -> Section(i - PAGE_OFFSET)
         [] OTHER                                      -> Fault]
  /\ slpt = [t \in 0..MaxTable |->
       IF t = 0 THEN [pa |-> 0, ro |-> PgdSpan(Swapper)] ELSE NoTable]
  /\ l2_index_p = 1
  /\ pgd = [p \in {} |-> Fault]
  /\ ttb = Swapper
  /\ mm_status = "boot"

-----------------------------------------------------------------------------
Fail(how) ==
  /\ mm_status' = how
  /\ UNCHANGED <<flpt, slpt, l2_index_p, pgd, ttb>>

Panic == Fail("panic")

(* The handler uses what it takes for a level 2 table of the hypervisor,   *)
(* or an address that may not be mapped: what it did by then is not kept.  *)
LosesWay(page) == Fail(IF page \in GuestPages THEN "wild" ELSE "astray")

(* The checks of addresses: of the first word of a table, that the table   *)
(* ends below the hypervisor, of an entry, that it is below.               *)
BelowHypervisor(page) == LinearIndex(page) < HAL_VIRT_START
TableBelow(p) == BelowHypervisor(p + PgdPages - 1)

(* GUEST_INIT, clear_linux_mappings: steps of 2 MB, whose entry is taken   *)
(* to be the address shifted by 21, and the one after it.                  *)
Steps(from, end) == {a \in from..(end - 1) : (a - from) % 2 = 0}
ClearedIndex(a) == a \div 2

ClearedEntries ==
  UNION {{ClearedIndex(a), ClearedIndex(a) + 1} :
           a \in Steps(0, PAGE_OFFSET)
                   \cup Steps(PAGE_OFFSET + GuestSize, VMALLOC_END)}

ClearLinuxMappings ==
  /\ mm_status = "boot"
  /\ mm_status' = "running"
  /\ flpt' = [i \in Indexes |-> IF i \in ClearedEntries THEN Fault ELSE flpt[i]]
  /\ UNCHANGED <<slpt, l2_index_p, pgd, ttb>>

(* CREATE_SECTION of megabyte m at entry v.                                *)
OfHypervisor == HAL_VIRT_START..(HAL_VIRT_START + MAX_TRUSTED_SIZE - 1)

CreateSection(v, m) ==
  /\ mm_status = "running"
  /\ IF v \in OfHypervisor \/ m >= GuestSize THEN Panic
     ELSE /\ flpt' = IF v = PAGE_OFFSET THEN flpt
                     ELSE [flpt EXCEPT ![v] = Section(m)]
          /\ UNCHANGED <<slpt, l2_index_p, pgd, ttb, mm_status>>

-----------------------------------------------------------------------------
(* Access rights of single pages, in the level 2 table of their megabyte   *)
(* in the master table.  A section is replaced by a table first, with all  *)
(* its pages writable (pt_create_coarse).                                  *)
IsSection(v) == flpt[v].type = "section"

SplitSection(v) ==
  IF IsSection(v) THEN [flpt EXCEPT ![v] = Coarse(l2_index_p)] ELSE flpt

TableAt(v) == SplitSection(v)[v].at

SplitTable(v) ==
  IF IsSection(v) THEN [pa |-> flpt[v].at, ro |-> {}] ELSE slpt[TableAt(v)]

(* Faulty variant: the new table is not counted.                           *)
SetAccessNotCounted(v, pages, readonly) ==
  /\ slpt' = [slpt EXCEPT ![TableAt(v)] =
       [SplitTable(v) EXCEPT !.ro = IF readonly THEN @ \cup pages
                                    ELSE @ \ pages]]
  /\ UNCHANGED l2_index_p

SetAccess(v, pages, readonly) ==
  /\ slpt' = [slpt EXCEPT ![TableAt(v)] =
       [SplitTable(v) EXCEPT !.ro = IF readonly THEN @ \cup pages
                                    ELSE @ \ pages]]
  /\ l2_index_p' = IF IsSection(v) THEN l2_index_p + 1 ELSE l2_index_p

(* Faulty variant first: the last table is never given away.               *)
(*                                                                         *)
(* No table is left: the entry was cleared already, the handler goes on    *)
(* with a null table and the megabyte stays unmapped.                      *)
OutOfTablesEarly(v) == IsSection(v) /\ l2_index_p >= MaxTable
OutOfTables(v) == IsSection(v) /\ l2_index_p > MaxTable

LoseMegabyte(v) ==
  /\ flpt' = [flpt EXCEPT ![v] = Fault]
  /\ mm_status' = "wild"
  /\ UNCHANGED <<slpt, l2_index_p, pgd, ttb>>

Offsets(p) == {Offset(q) : q \in PgdSpan(p)}

(* Faulty variant: the first page alone is made read only.                 *)
NewPgdFirstPage(p) ==
  /\ mm_status = "running"
  /\ p \in GuestPages
  /\ SetAccess(LinearIndex(p), {Offset(p)}, TRUE)
  /\ flpt' = SplitSection(LinearIndex(p))
  /\ pgd' = [q \in DOMAIN pgd \cup {p} |->
       IF q # p THEN pgd[q]
       ELSE [i \in Indexes |-> IF i < MODULES_VADDR THEN Fault ELSE flpt'[i]]]
  /\ UNCHANGED <<ttb, mm_status>>

(* NEW_PGD: read only pages, no user entries, the kernel's from the master *)
NewPgd(p) ==
  /\ mm_status = "running"
  /\ LET v == LinearIndex(p)
     IN  IF ~TableBelow(p) THEN Panic
         ELSE IF flpt[v].type \notin {"section", "coarse"} THEN LosesWay(p)
         ELSE IF OutOfTables(v) THEN LoseMegabyte(v)
         ELSE /\ SetAccess(v, Offsets(p), TRUE)
              /\ flpt' = SplitSection(v)
              /\ pgd' = [q \in DOMAIN pgd \cup {p} |->
                   IF q # p THEN pgd[q]
                   ELSE [i \in Indexes |->
                           IF i < MODULES_VADDR THEN Fault ELSE flpt'[i]]]
              /\ UNCHANGED <<ttb, mm_status>>

(* FREE_PGD: the pages are writable again.                                 *)
FreePgd(p) ==
  /\ mm_status = "running"
  /\ LET v == LinearIndex(p)
     IN  IF ~TableBelow(p) THEN Panic
         ELSE IF flpt[v].type # "coarse" THEN LosesWay(p)
         ELSE /\ SetAccess(v, Offsets(p), FALSE)
              /\ pgd' = [q \in DOMAIN pgd \ {p} |-> pgd[q]]
              /\ UNCHANGED <<flpt, ttb, mm_status>>

(* SWITCH_MM: the first page of the table must be read only, or the page   *)
(* of the guest that LINUX_VA takes for it.  The test of the entry against *)
(* PAGE_OFFSET and the hypervisor never fails (LayoutAssumption).          *)
SwitchMm(p) ==
  /\ mm_status = "running"
  /\ LET v == LINUX_VA(p)
     IN  IF flpt[v].type # "coarse" THEN LosesWay(p)
         ELSE IF Offset(p) \notin slpt[flpt[v].at].ro THEN Panic
         ELSE /\ ttb' = p
              /\ UNCHANGED <<flpt, slpt, l2_index_p, pgd, mm_status>>

-----------------------------------------------------------------------------
(* The table at p, and the update of two entries of it, a pmd of Linux.    *)
Entries(p) == IF p = Swapper THEN flpt ELSE pgd[p]

PutPmd(p, i, master, e0, e1) ==
  IF p = Swapper
  THEN flpt' = [master EXCEPT ![i] = e0, ![i + 1] = e1] /\ UNCHANGED pgd
  ELSE flpt' = master /\ pgd' = [pgd EXCEPT ![p][i] = e0, ![p][i + 1] = e1]

(* SET_PMD with a page of two level 2 tables, which becomes read only. The *)
(* split takes the section's address from bit 12 on, where NEW_PGD takes   *)
(* it from bit 20: the bits between are 0 in the sections of the boot map. *)
SetPmd(p, i, page) ==
  /\ mm_status = "running"
  /\ LET v == LinearIndex(page)
     IN  IF ~BelowHypervisor(p) \/ page \notin GuestPages THEN Panic
         ELSE IF p \notin GuestPages THEN LosesWay(p)
         ELSE IF flpt[v].type = "fault" THEN LosesWay(page)
         ELSE IF OutOfTables(v) THEN LoseMegabyte(v)
         ELSE /\ SetAccess(v, {Offset(page)}, TRUE)
              /\ PutPmd(p, i, SplitSection(v), Pte(page), Pte(page))
              /\ UNCHANGED <<ttb, mm_status>>

(* Faulty variant: the page stays read only.                               *)
ClearPmdStillReadOnly(p, i) ==
  /\ mm_status = "running"
  /\ PutPmd(p, i, flpt, Fault, Fault)
  /\ UNCHANGED <<slpt, l2_index_p, ttb, mm_status>>

(* SET_PMD with 0: the page is found in the entry, and writable again.     *)
ClearPmd(p, i) ==
  /\ mm_status = "running"
  /\ IF ~BelowHypervisor(p) THEN Panic
     ELSE IF p \notin GuestPages \/ Entries(p)[i].type = "fault" THEN LosesWay(p)
     ELSE LET page == Entries(p)[i].at
              v == LinearIndex(page)
          IN  IF OutOfTables(v) THEN LoseMegabyte(v)
              ELSE /\ SetAccess(v, {Offset(page)}, FALSE)
                   /\ PutPmd(p, i, SplitSection(v), Fault, Fault)
                   /\ UNCHANGED <<ttb, mm_status>>

-----------------------------------------------------------------------------
(* What the guest may do to a page of its linear map under a given table.  *)
Access(table, page) ==
  LET e == table[LinearIndex(page)]
  IN  CASE e.type = "section" -> "rw"
        [] e.type = "coarse"  -> IF Offset(page) \in slpt[e.at].ro
                                 THEN "ro" ELSE "rw"
        [] OTHER              -> "none"
=============================================================================
