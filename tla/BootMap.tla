------------------------------ MODULE BootMap ------------------------------
(***************************************************************************)
(* The page tables the hypervisor builds before the first guest runs, with *)
(* the numbers of the boards: its own megabyte, the ranges of the board's  *)
(* memory layout, the exception vectors, the start of Linux' memory and    *)
(* the trusted guest.  Level 2 tables are taken one after the other from a *)
(* block, slpt, and a table belongs to the whole megabyte in which the     *)
(* first of its pages was mapped.                                          *)
(*                                                                         *)
(* Virtual and physical addresses are numbers of pages of 4 KB; a level 1  *)
(* entry stands for 256 of them.                                           *)
(***************************************************************************)
EXTENDS Integers, Sequences

CONSTANTS
  Boards,       \* those of the boards below that are booted
  FlptOffset,   \* the page of flpt in the hypervisor's megabyte, which arm_pt.S
                \* checks to be aligned to the 16 KB of a level 1 table
  VectorOffset  \* the page of the exception vectors there

BootMapAssumption ==
  /\ Boards \subseteq {"beagleboard", "integratorCP"}
  /\ {FlptOffset, VectorOffset} \subseteq 0..255
  /\ FlptOffset % 4 = 0

Entry(first, last, type) == [page_start |-> first, page_count |-> last, type |-> type]

beagleboard_layout == <<
  Entry(\h48002, \h48003, "IO_RO"), Entry(\h48004, \h48006, "IO_RO"),
  Entry(\h4806a, \h4806b, "IO_RW"), Entry(\h4806c, \h4806d, "IO_RW"),
  Entry(\h48200, \h48201, "IO_HYP"), Entry(\h48304, \h48305, "IO_RO"),
  Entry(\h48306, \h48308, "IO_RO"), Entry(\h48320, \h48321, "IO_RO"),
  Entry(\h4830A, \h4830B, "IO_RO"), Entry(\h49020, \h49021, "IO_RW"),
  Entry(\h81000, \h88000, "USER_RAM")>>

integratorCP_layout == <<
  Entry(\h00100, \h00500, "TRUSTED_RAM"), Entry(\h01000, \h08000, "USER_RAM"),
  Entry(\h10000, \h10001, "IO_RO"), Entry(\h14000, \h14001, "IO_RW"),
  Entry(\h13000, \h13001, "IO_RO"), Entry(\h1a000, \h1a001, "IO_RO"),
  Entry(\h18000, \h18001, "IO_RO"), Entry(\h19000, \h19001, "IO_RO"),
  Entry(\h15000, \h15001, "IO_RO"), Entry(\h16000, \h16001, "IO_RW"),
  Entry(\h17000, \h17001, "IO_RW")>>

VARIABLES
  board, trusted,  \* the board, and whether the trusted guest is built in
  stage,           \* "layout", "vectors", "linux", "guests" or "start"
  layoutEntry,     \* list: the number of the next entry of the layout
  l1,              \* the level 1 table: the entries that are not faults
  slpt_va,         \* the words of the level 2 tables that are not faults
  next_l2,         \* l2_index_p: the next level 2 table
  corrupted        \* whether a section was taken for the address of a table

Tables ==
  [l1 |-> l1, slpt |-> slpt_va, l2_index_p |-> next_l2, corrupted |-> corrupted]
bootVars == <<board, trusted, stage, layoutEntry, l1, slpt_va, next_l2, corrupted>>

layout == IF board = "beagleboard" THEN beagleboard_layout ELSE integratorCP_layout
PhysStart == IF board = "beagleboard" THEN \h80000 ELSE 0
IO_VA_ADDRESS(page) ==
  IF board = "beagleboard" THEN page + \hB2000 ELSE (page \div 16) + \hF0000
HypervisorStart == \hF0000
VectorsStart == \hFFFF0
LinuxStart == \hC0000
TrustedStart == \hF0100

L1Index(page) == page \div 256
L2Index(page) == page % 256
IsIo(type) == type \in {"IO_RW", "IO_RO", "IO_HYP"}

(* The table f, and g where f has no entry.                                *)
Over(f, g) ==
  [x \in DOMAIN f \cup DOMAIN g |-> IF x \in DOMAIN f THEN f[x] ELSE g[x]]

(* arm_setup_initial_pt: the hypervisor's megabyte, for itself.            *)
HypervisorSection ==
  [type |-> "section", at |-> PhysStart, ap |-> "SUP_RW", domain |-> "DEFAULT"]
BootInit ==
  /\ board \in Boards /\ trusted \in BOOLEAN
  /\ stage = "layout" /\ layoutEntry = 1
  /\ l1 = [v \in {L1Index(HypervisorStart)} |-> HypervisorSection]
  /\ slpt_va = [w \in {} |-> 0]
  /\ next_l2 = 0
  /\ corrupted = FALSE

(* pt_get_empty_l2 has tables 0 to 32.                                     *)
NoTableLeft(tables) == tables.l2_index_p * 1024 > 32768

Domain(type) == CASE type = "TRUSTED_RAM" -> "TRUSTED" [] type = "USER_RAM" -> "KERNEL"
                  [] OTHER -> "DEFAULT"
Rights(type) == CASE type = "IO_HYP" -> "SUP_RW" [] type \in {"IO_RO", "USER_ROM"} -> "USER_RO"
                  [] OTHER -> "USER_RW"

Table(n, type) == [type |-> "coarse", at |-> n, domain |-> Domain(type)]
PagesFrom(first, pa, count, type) ==
  [w \in first..(first + count - 1) |-> [pa |-> pa + (w - first), ap |-> Rights(type)]]

(* Faulty variant: each range gets a table of its own.                     *)
pt_create_coarse_new(tables, va, pa, count, type) ==
  LET n == tables.l2_index_p
  IN  [tables EXCEPT
         !.l1 = Over([v \in {L1Index(va)} |-> Table(n, type)], @),
         !.slpt = Over(PagesFrom(256 * n + L2Index(va), pa, count, type), @),
         !.l2_index_p = n + 1]

(* pt_create_coarse: the pages of a range, in the table of its first       *)
(* megabyte and in what lies behind it.  It returns the tables.            *)
pt_create_coarse(tables, va, pa, count, type) ==
  LET v == L1Index(va)
      fault == v \notin DOMAIN tables.l1
      n == IF fault THEN tables.l2_index_p ELSE tables.l1[v].at
  IN  IF fault /\ NoTableLeft(tables) THEN tables
      ELSE IF ~fault /\ tables.l1[v].type = "section"
      THEN [tables EXCEPT !.corrupted = TRUE]
      ELSE [l1 |-> Over(tables.l1, [u \in {v} |-> Table(n, type)]),
            slpt |-> Over(PagesFrom(256 * n + L2Index(va), pa, count, type), tables.slpt),
            l2_index_p |-> IF fault THEN n + 1 ELSE tables.l2_index_p,
            corrupted |-> tables.corrupted]

(* pt_create_section of the megabytes ms, each at ms[m]: only of memory    *)
(* for guests, and where nothing is mapped.                                *)
RamSection(pa, type) ==
  [type |-> "section", at |-> pa, ap |-> "USER_RW", domain |-> Domain(type)]
pt_create_section(tables, ms, type) ==
  IF type \notin {"USER_RAM", "TRUSTED_RAM"} THEN tables
  ELSE [tables EXCEPT !.l1 = Over(@, [v \in DOMAIN ms |-> RamSection(ms[v], type)])]

Become(tables) ==
  /\ l1' = tables.l1 /\ slpt_va' = tables.slpt
  /\ next_l2' = tables.l2_index_p /\ corrupted' = tables.corrupted

(* memory_init, an entry of the layout; the last one is MLF_LAST.          *)
RangeMapped(e) ==
  IF IsIo(e.type)
  THEN pt_create_coarse(Tables, IO_VA_ADDRESS(e.page_start), e.page_start,
                        e.page_count - e.page_start, e.type)
  ELSE pt_create_section(Tables,
         [j \in L1Index(e.page_start)..(L1Index(e.page_count) - 1) |-> 256 * j], e.type)
MapRange ==
  /\ stage = "layout"
  /\ Become(RangeMapped(layout[layoutEntry]))
  /\ layoutEntry' = layoutEntry + 1
  /\ stage' = IF layoutEntry = Len(layout) THEN "vectors" ELSE "layout"
  /\ UNCHANGED <<board, trusted>>

(* memory_init, the exception vectors.                       *)
MapVectors ==
  /\ stage = "vectors"
  /\ Become(pt_create_coarse(Tables, VectorsStart, PhysStart + VectorOffset, 1, "USER_ROM"))
  /\ stage' = "linux"
  /\ UNCHANGED <<board, trusted, layoutEntry>>

(* init_linux_page: a megabyte in pages, 79 in sections, and pages 4 to 7  *)
(* of the table that was made last become the level 1 table, read only.    *)
LinuxRam == PhysStart + \h1000
SwapperPages(last) ==
  [w \in (256 * last + 4)..(256 * last + 7) |->
     [pa |-> PhysStart + FlptOffset + w - (256 * last + 4), ap |-> "USER_RO"]]
LinuxSections ==
  [v \in L1Index(LinuxStart) + 1..L1Index(LinuxStart) + 79 |->
     LinuxRam + 256 * (v - L1Index(LinuxStart))]
LinuxMapped ==
  LET first == pt_create_coarse(Tables, LinuxStart, LinuxRam, 256, "USER_RAM")
      all == pt_create_section(first, LinuxSections, "USER_RAM")
  IN  [all EXCEPT !.slpt = Over(SwapperPages(all.l2_index_p - 1), @)]
InitLinuxPage ==
  /\ stage = "linux"
  /\ Become(LinuxMapped)
  /\ stage' = "guests"
  /\ UNCHANGED <<board, trusted, layoutEntry>>

(* guests_init, with TRUSTED: the trusted guest's megabyte.                *)
TrustedSection == [v \in {L1Index(TrustedStart)} |-> PhysStart + \h100]
MapTrusted ==
  /\ stage = "guests"
  /\ Become(IF trusted THEN pt_create_section(Tables, TrustedSection, "TRUSTED_RAM")
            ELSE Tables)
  /\ stage' = "start"
  /\ UNCHANGED <<board, trusted, layoutEntry>>

Started == stage = "start" /\ UNCHANGED bootVars

BootNext == MapRange \/ MapVectors \/ InitLinuxPage \/ MapTrusted \/ Started

BootSpec == BootInit /\ [][BootNext]_bootVars

-----------------------------------------------------------------------------
(* Where page k of entry v leads, with its rights, or nothing.             *)
Nowhere == [pa |-> -1, ap |-> "NONE", domain |-> "DEFAULT"]
Translate(tables, v, k) ==
  IF v \notin DOMAIN tables.l1 THEN Nowhere
  ELSE LET d == tables.l1[v]
           w == 256 * d.at + k
       IN  IF d.type = "section"
           THEN [pa |-> d.at + k, ap |-> d.ap, domain |-> d.domain]
           ELSE IF w \notin DOMAIN tables.slpt THEN Nowhere
           ELSE [pa |-> tables.slpt[w].pa, ap |-> tables.slpt[w].ap, domain |-> d.domain]

MapsTo(tables, va, pa, ap) ==
  LET t == Translate(tables, L1Index(va), L2Index(va)) IN t.pa = pa /\ t.ap = ap

Hypervisor == PhysStart..(PhysStart + 255)
FlptPages == (PhysStart + FlptOffset)..(PhysStart + FlptOffset + 3)

(* No guest can reach the hypervisor's megabyte but to read the vectors    *)
(* and the level 1 table, and the modes of Linux cannot reach the trusted  *)
(* guest.                                                                  *)
Harmless(t) ==
  /\ t.pa \in Hypervisor /\ t.ap # "SUP_RW" =>
       t.ap = "USER_RO" /\ t.pa \in FlptPages \cup {PhysStart + VectorOffset}
  /\ t.pa \in PhysStart + 256..PhysStart + 511 => t.domain = "TRUSTED"
Separated(tables) ==
  \A v \in DOMAIN tables.l1, k \in 0..255 : Harmless(Translate(tables, v, k))

(* A device is at its address with the rights of the layout.               *)
DeviceMapped(tables, e) ==
  IsIo(e.type) =>
    \A p \in e.page_start..(e.page_count - 1) :
      MapsTo(tables, IO_VA_ADDRESS(e.page_start) + (p - e.page_start), p, Rights(e.type))

(* Linux finds its memory and in it the level 1 table.                     *)
LinuxPage(tables, k) ==
  IF k \in 4..7
  THEN MapsTo(tables, LinuxStart + k, PhysStart + FlptOffset + (k - 4), "USER_RO")
  ELSE MapsTo(tables, LinuxStart + k, LinuxRam + k, "USER_RW")
LinuxFindsMemory(tables) == \A k \in 0..(80 * 256 - 1) : LinuxPage(tables, k)

(* When the guest starts, the guests are separated from the hypervisor and *)
(* from each other, the hypervisor is where it runs, and the devices,      *)
(* Linux' memory and the trusted guest's are where they belong.            *)
BootMapSeparates ==
  stage = "start" =>
    /\ ~corrupted
    /\ Separated(Tables)
    /\ \A k \in 0..255 : MapsTo(Tables, HypervisorStart + k, PhysStart + k, "SUP_RW")
    /\ \A n \in 1..Len(layout) : DeviceMapped(Tables, layout[n])
    /\ LinuxFindsMemory(Tables)
    /\ trusted => \A k \in 0..255 :
         MapsTo(Tables, TrustedStart + k, PhysStart + 256 + k, "USER_RW")
=============================================================================
