--------------------------- MODULE LinuxMmProofs ---------------------------
(***************************************************************************)
(* Proofs about LinuxMm, for any memory layout that LayoutAssumption       *)
(* allows, any number of level 2 tables and any choice of pairs of         *)
(* entries: the linear map is true in every table, and a page is read only *)
(* in the master table exactly while it holds a page table.                *)
(***************************************************************************)
EXTENDS LinuxMm, Integers, TLAPS

(* Multiplying keeps the order.                                            *)
LEMMA Scales ==
  ASSUME NEW a \in Nat, NEW b \in Nat, NEW c \in Nat, a >= b
  PROVE  c * a >= c * b
OBVIOUS

(* The parts of LayoutAssumption that most steps use.                      *)
LEMMA Sizes ==
  /\ MBPages \in Nat \ {0} /\ PgdPages \in Nat \ {0}
  /\ GuestSize \in Nat \ {0} /\ PAGE_OFFSET \in Nat
BY LayoutAssumption

(* A page number is a megabyte and an offset in it,                        *)
LEMMA Splitting ==
  ASSUME NEW q \in Nat
  PROVE  /\ MB(q) \in Nat /\ Offset(q) \in Nat /\ Offset(q) < MBPages
         /\ q = MBPages * MB(q) + Offset(q)
<1>1. MB(q) \in Nat /\ Offset(q) \in 0..(MBPages - 1)
  BY Sizes DEF MB, Offset
<1>2. q = MBPages * MB(q) + Offset(q)
  BY Sizes DEF MB, Offset
<1> QED BY <1>1, <1>2, Sizes

(* in one way only,                                                        *)
LEMMA SplittingUnique ==
  ASSUME NEW q \in Nat, NEW m \in Nat, NEW r \in Nat,
         r < MBPages, q = MBPages * m + r
  PROVE  MB(q) = m
<1> DEFINE k == MB(q)
<1>1. k \in Nat /\ Offset(q) \in Nat /\ Offset(q) < MBPages /\ q = MBPages * k + Offset(q)
  BY Splitting
<1> HIDE DEF k
<1>2. ~(k >= m + 1)
  <2>1. k >= m + 1 => MBPages * k >= MBPages * (m + 1)
    BY <1>1, Sizes, Scales
  <2> QED BY <1>1, <2>1, Sizes
<1>3. ~(m >= k + 1)
  <2>1. m >= k + 1 => MBPages * m >= MBPages * (k + 1)
    BY <1>1, Sizes, Scales
  <2> QED BY <1>1, <2>1, Sizes
<1>4. k = m
  BY <1>1, <1>2, <1>3
<1> QED BY <1>4 DEF k

(* so that the two name one page.                                          *)
LEMMA SamePage ==
  ASSUME NEW q \in Nat, NEW r \in Nat, MB(q) = MB(r), Offset(q) = Offset(r)
  PROVE  q = r
BY Splitting

(* The pages of the guest lie in its megabytes.                            *)
LEMMA PageInGuest ==
  ASSUME NEW q \in GuestPages
  PROVE  q \in Nat /\ MB(q) \in 0..(GuestSize - 1)
BY Sizes DEF MB, GuestPages

(* The pages of an aligned level 1 table lie in one megabyte: NEW_PGD      *)
(* changes the access to all of them in one level 2 table.                 *)
LEMMA SpanInMegabyte ==
  ASSUME NEW p \in Nat, p % PgdPages = 0, NEW q \in PgdSpan(p)
  PROVE  q \in Nat /\ MB(q) = MB(p)
<1> DEFINE m == MB(p)
           a == p \div PgdPages
           b == MBPages \div PgdPages
           d == q - p
<1>1. m \in Nat /\ Offset(p) \in Nat /\ Offset(p) < MBPages /\ p = MBPages * m + Offset(p)
  BY Splitting
<1>2. a \in Nat /\ p = PgdPages * a
  BY Sizes
<1>3. b \in Nat /\ MBPages = PgdPages * b
  BY Sizes, LayoutAssumption
<1>4. d \in Nat /\ d < PgdPages /\ q = p + d
  BY Sizes DEF PgdSpan
<1> HIDE DEF m, a, b, d
<1>5. Offset(p) = PgdPages * (a - b * m)
  BY <1>1, <1>2, <1>3, Sizes
<1>6. a - b * m \in Int
  BY <1>1, <1>2, <1>3
<1> DEFINE c == a - b * m
<1>7. c \in Int /\ Offset(p) = PgdPages * c
  BY <1>5, <1>6
<1> HIDE DEF c
<1>8. c < b
  <2>1. c >= b => PgdPages * c >= PgdPages * b
    <3> SUFFICES ASSUME c >= b PROVE PgdPages * c >= PgdPages * b
      OBVIOUS
    <3>1. c \in Nat
      BY <1>3, <1>7
    <3> QED BY <3>1, <1>3, Sizes, Scales
  <2> QED BY <2>1, <1>1, <1>3, <1>7, Sizes
<1>9. PgdPages * c + PgdPages <= PgdPages * b
  <2>1. c \in Nat
    <3>1. c < 0 => PgdPages * c < 0
      BY <1>7, Sizes
    <3> QED BY <3>1, <1>1, <1>7
  <2>2. PgdPages * b >= PgdPages * (c + 1)
    BY <2>1, <1>3, <1>8, Sizes, Scales
  <2> QED BY <2>1, <2>2, <1>3, Sizes
<1>10. Offset(p) + d < MBPages
  BY <1>1, <1>3, <1>4, <1>7, <1>9, Sizes
<1>11. q = MBPages * m + (Offset(p) + d)
  BY <1>1, <1>4, Sizes
<1>12. q \in Nat /\ Offset(p) + d \in Nat
  BY <1>1, <1>4
<1>13. MB(q) = m
  BY <1>1, <1>10, <1>11, <1>12, SplittingUnique
<1> QED BY <1>12, <1>13 DEF m

(* The swapper table is such a table, in the first megabyte.               *)
LEMMA SwapperSpan ==
  /\ Swapper \in Nat /\ Swapper % PgdPages = 0 /\ MB(Swapper) = 0
  /\ PgdSpan(Swapper) \subseteq GuestPages
<1>1. Swapper \in Nat /\ Swapper % PgdPages = 0
  BY Sizes DEF Swapper
<1>2. MB(Swapper) = 0
  <2>1. Swapper < MBPages /\ Swapper = MBPages * 0 + Swapper
    BY Sizes, LayoutAssumption DEF Swapper
  <2> QED BY <1>1, <2>1, SplittingUnique
<1>3. MBPages * GuestSize >= MBPages * 1
  BY Sizes, Scales
<1>4. GuestSize * MBPages >= MBPages
  BY <1>3, Sizes
<1>5. PgdSpan(Swapper) \subseteq GuestPages
  BY <1>4, LayoutAssumption, Sizes DEF PgdSpan, Swapper, GuestPages
<1> QED BY <1>1, <1>2, <1>5

(* The linear map lies in the table, above the user's entries.             *)
LEMMA Positions ==
  ASSUME NEW m \in 0..(GuestSize - 1)
  PROVE  /\ PAGE_OFFSET + m \in Indexes
         /\ PAGE_OFFSET + m >= MODULES_VADDR
BY LayoutAssumption DEF Indexes
-----------------------------------------------------------------------------
(* Entries, by what the handlers tell apart: from here on only Forms and   *)
(* Kinds look into the records.                                            *)
Entry == {Fault} \cup {Section(m) : m \in Nat} \cup {Coarse(t) : t \in Nat}
           \cup {Pte(q) : q \in Nat}

(* What the four kinds of entry are made of.                               *)
LEMMA Forms ==
  /\ Fault.type = "fault"
  /\ \A n : Section(n).type = "section" /\ Section(n).at = n
  /\ \A n : Coarse(n).type = "coarse" /\ Coarse(n).at = n
  /\ \A n : Pte(n).type = "pte" /\ Pte(n).at = n
BY DEF Fault, Section, Coarse, Pte

(* An entry is of the kind that its type says.                             *)
LEMMA Kinds ==
  ASSUME NEW e \in Entry
  PROVE  /\ e.type \in {"fault", "section", "coarse", "pte"}
         /\ e.type = "fault" => e = Fault
         /\ e.type = "section" => e = Section(e.at)
         /\ e.type = "coarse" => e = Coarse(e.at)
         /\ e.type = "pte" => e = Pte(e.at) /\ e.at \in Nat
BY Forms DEF Entry

-----------------------------------------------------------------------------
(* The megabytes of the linear map, and the level 1 tables in use.         *)
Lowmem == 0..(GuestSize - 1)
Tables == mms \cup {Swapper}

(* The shapes of the variables.                                            *)
MmTypes ==
  /\ flpt \in [Indexes -> Entry]
  /\ slpt \in [0..MaxTable -> [pa : Nat, ro : SUBSET Nat]]
  /\ l2_index_p \in 1..(MaxTable + 1)
  /\ mms \subseteq GuestPages
  /\ pgd \in [mms -> [Indexes -> Entry]]
  /\ mm_status \in {"boot", "running", "panic", "wild", "astray"}

(* Entry e maps megabyte m, by a section or by a table that was given away *)
(* and holds the pages of m. Two megabytes cannot share a table.           *)
Maps(e, m) ==
  \/ e = Fault
  \/ e = Section(m)
  \/ \E t \in 0..(l2_index_p - 1) : e = Coarse(t) /\ slpt[t].pa = m

MasterMaps == \A m \in Lowmem : Maps(flpt[PAGE_OFFSET + m], m)

(* Of a process table, only sections may be out of date: a table in an     *)
(* entry is that of the master table.                                      *)
CopiesMap ==
  \A p \in mms, m \in Lowmem :
    LET e == pgd[p][PAGE_OFFSET + m]
    IN  \/ e = Fault
        \/ e = Section(m)
        \/ e.type = "coarse" /\ e = flpt[PAGE_OFFSET + m]

(* Page q is read only in the master table.                                *)
Protected(q) ==
  LET e == flpt[LinearIndex(q)]
  IN  e.type = "coarse" /\ Offset(q) \in slpt[e.at].ro

(* The entries of level 2 tables come in the pairs that Linux uses,        *)
KeptIn(table, pmds) ==
  \A i \in pmds :
    /\ table[i + 1] = table[i]
    /\ table[i] = Fault \/ \E q \in TablePages : table[i] = Pte(q)

(* and nowhere else.                                                       *)
PtesIn(table, pmds) ==
  \A j \in Indexes :
    table[j].type = "pte" => \E i \in pmds : j \in {i, i + 1}

(* Nothing else is mapped from the guest's memory to the hypervisor, so    *)
(* that a handler that follows an entry there follows no table.            *)
Between == {j \in Indexes : PAGE_OFFSET + GuestSize <= j /\ j < HAL_VIRT_START}
NoTableIn(table) == \A j \in Between : table[j].type \in {"fault", "pte"}

(* In the master table these are the pairs of the vmalloc area; in that of *)
(* a process its own, and copies.                                          *)
MasterPmds ==
  KeptIn(flpt, KernelPmds) /\ PtesIn(flpt, KernelPmds) /\ NoTableIn(flpt)

ProcessPmds ==
  \A p \in mms :
    /\ KeptIn(pgd[p], UserPmds)
    /\ \A j \in Indexes :
         pgd[p][j].type = "pte" =>
           \/ \E i \in UserPmds : j \in {i, i + 1}
           \/ pgd[p][j] = flpt[j]

(* No page is part of two tables.                                          *)
Aligned(p) == p % PgdPages = 0 /\ PgdSpan(p) \subseteq GuestPages

TablesApart ==
  /\ Swapper \notin mms
  /\ \A p \in mms : Aligned(p)
  /\ \A p, r \in Tables : p # r => PgdSpan(p) \cap PgdSpan(r) = {}
  /\ \A p \in Tables : PgdSpan(p) \cap PtePages = {}

(* No page of level 2 tables is used by two processes, by one twice, or by *)
(* a process and the kernel: clearing one entry would make it writable     *)
(* under the other.                                                        *)
PtesApart ==
  /\ \A p, r \in mms, i, j \in UserPmds :
       pgd[p][i] # Fault /\ pgd[p][i] = pgd[r][j] => p = r /\ i = j
  /\ \A p \in mms, i \in UserPmds, j \in KernelPmds :
       pgd[p][i] # Fault => pgd[p][i] # flpt[j]

(* The heart of the invariant: a page is read only exactly while it holds  *)
(* a table. Unlike ReadOnlyExactlyTables it also says that a page that is  *)
(* not mapped holds none.                                                  *)
InUseProtected ==
  /\ InUse \subseteq GuestPages
  /\ \A q \in GuestPages : q \in InUse <=> Protected(q)

(* What holds as long as no handler has stopped the machine.               *)
Works ==
  /\ ttb \in Tables \cup Mistakes
  /\ MasterPmds /\ ProcessPmds /\ TablesApart /\ PtesApart /\ InUseProtected

(* The inductive invariant. The linear map stays true even then.           *)
MmInv ==
  /\ MmTypes /\ MasterMaps /\ CopiesMap
  /\ mm_status = "boot" => mms = {}
  /\ mm_status \in {"boot", "running"} => Works
  /\ WildOnlyOutOfTables

-----------------------------------------------------------------------------
(* The entry of a page is one of the linear map.                           *)
LEMMA IndexOfPage ==
  ASSUME NEW q \in GuestPages
  PROVE  /\ MB(q) \in Lowmem /\ LinearIndex(q) = PAGE_OFFSET + MB(q)
         /\ LinearIndex(q) \in Indexes
BY PageInGuest, Positions DEF LinearIndex, Lowmem

(* Pages of the guest, and tables in them, are below the hypervisor; a     *)
(* page of its memory is its own alias.                                    *)
LEMMA GuestIsBelow ==
  ASSUME NEW q \in GuestPages
  PROVE  BelowHypervisor(q) /\ LINUX_VA(q) = LinearIndex(q)
<1>1. MB(q) \in Nat /\ MB(q) < GuestSize
  BY PageInGuest, Sizes
<1>2. GuestSize <= LinuxSpan /\ PAGE_OFFSET + GuestSize <= HAL_VIRT_START
      /\ LinuxSpan \in Nat /\ HAL_VIRT_START \in Nat
  BY LayoutAssumption
<1>3. MB(q) % LinuxSpan = MB(q)
  BY <1>1, <1>2, Sizes
<1> QED BY <1>1, <1>2, <1>3, Sizes DEF BelowHypervisor, LINUX_VA, LinearIndex

LEMMA TableIsBelow ==
  ASSUME NEW p \in Nat, PgdSpan(p) \subseteq GuestPages
  PROVE  TableBelow(p)
<1>1. p + PgdPages - 1 \in PgdSpan(p)
  BY Sizes DEF PgdSpan
<1> QED BY <1>1, GuestIsBelow DEF TableBelow

(* The invariant has the four properties.                                  *)
LEMMA InvLinearMapTrue == MmInv => LinearMapTrue
<1> SUFFICES ASSUME MmInv, NEW p \in mms \cup {Swapper}, NEW m \in 0..(GuestSize - 1)
             PROVE  LET e == Entries(p)[PAGE_OFFSET + m]
                    IN  /\ e.type = "section" => e.at = m
                        /\ e.type = "coarse" => /\ slpt[e.at].pa = m
                                                /\ e = flpt[PAGE_OFFSET + m]
  BY DEF LinearMapTrue
<1> DEFINE f == flpt[PAGE_OFFSET + m]
<1>1. \/ f = Fault \/ f = Section(m)
      \/ \E t \in 0..(l2_index_p - 1) : f = Coarse(t) /\ slpt[t].pa = m
  BY DEF MmInv, MasterMaps, Maps, Lowmem
<1>2. /\ f.type = "section" => f.at = m
      /\ f.type = "coarse" => slpt[f.at].pa = m
  BY <1>1, Forms
<1>3. CASE p = Swapper
  BY <1>2, <1>3 DEF Entries
<1>4. CASE p # Swapper
  <2> DEFINE e == pgd[p][PAGE_OFFSET + m]
  <2>1. e = Fault \/ e = Section(m) \/ (e.type = "coarse" /\ e = f)
    BY <1>4 DEF MmInv, CopiesMap, Lowmem
  <2>2. Entries(p)[PAGE_OFFSET + m] = e
    BY <1>4 DEF Entries
  <2> HIDE DEF e, f
  <2>3. /\ e.type = "section" => e.at = m
        /\ e.type = "coarse" => slpt[e.at].pa = m /\ e = f
    BY <1>2, <2>1, Forms
  <2> QED BY <2>2, <2>3 DEF f
<1> QED BY <1>3, <1>4

(* What the guest may do to a page follows from its entry.                 *)
LEMMA AccessOfPage ==
  ASSUME MmTypes, NEW q \in GuestPages
  PROVE  /\ Access(flpt, q) = "ro" <=> Protected(q)
         /\ Protected(q) => Mapped(q)
<1>1. Protected(q) => Mapped(q)
  BY DEF Protected, Mapped
<1>2. Protected(q) => Access(flpt, q) = "ro"
  BY DEF Protected, Access
<1>3. ~Protected(q) => Access(flpt, q) # "ro"
  BY DEF Protected, Access
<1> QED BY <1>1, <1>2, <1>3

(* The master table, and the table that the MMU walks.                     *)
LEMMA InvProtection ==
  MmInv => ReadOnlyExactlyTables /\ ActiveTableProtected
<1> SUFFICES ASSUME MmInv, mm_status = "running"
             PROVE  /\ \A q \in GuestPages : Mapped(q) => (Access(flpt, q) = "ro" <=> q \in InUse)
                    /\ ttb \in GuestPages => \A q \in PgdSpan(ttb) : Access(flpt, q) = "ro"
  BY DEF ReadOnlyExactlyTables, ActiveTableProtected
<1>1. MmTypes /\ Works
  BY DEF MmInv
<1>2. \A q \in GuestPages : Access(flpt, q) = "ro" <=> q \in InUse
  BY <1>1, AccessOfPage DEF Works, InUseProtected
<1>3. ttb \in GuestPages => PgdSpan(ttb) \subseteq InUse /\ InUse \subseteq GuestPages
  <2>1. ttb \in GuestPages => ttb \in Tables
    BY <1>1, LinuxAssumption DEF Works
  <2> QED BY <1>1, <2>1 DEF Works, InUseProtected, InUse, Tables
<1> QED BY <1>2, <1>3

(* The pages of level 2 tables, by the first entry of each pair.           *)
Refers(q) ==
  \/ \E p \in mms, i \in UserPmds : pgd[p][i] = Pte(q)
  \/ \E i \in KernelPmds : flpt[i] = Pte(q)

(* Where the pairs of entries lie.                                         *)
LEMMA PmdPositions ==
  /\ \A i \in UserPmds : i \in Indexes /\ i + 1 \in Indexes /\ i + 1 < MODULES_VADDR
  /\ \A i \in KernelPmds : i \in Indexes /\ i + 1 \in Indexes /\ PAGE_OFFSET + GuestSize <= i
BY LayoutAssumption, LinuxAssumption DEF Indexes

(* It is enough to look at the first entries.                              *)
LEMMA PtePagesReferred ==
  MmTypes /\ MasterPmds /\ ProcessPmds /\ Swapper \notin mms =>
    \A q : q \in PtePages <=> Refers(q)
<1> SUFFICES ASSUME MmTypes, MasterPmds, ProcessPmds, Swapper \notin mms, NEW q
             PROVE  q \in PtePages <=> Refers(q)
  OBVIOUS
<1>1. ASSUME q \in PtePages PROVE Refers(q)
  <2>1. PICK p \in mms \cup {Swapper}, j \in Indexes :
          Entries(p)[j].type = "pte" /\ Entries(p)[j].at = q
    BY <1>1 DEF PtePages, PtesOf
  <2>2. ASSUME NEW k \in Indexes, flpt[k].type = "pte", flpt[k].at = q
        PROVE  Refers(q)
    <3>1. flpt[k] = Pte(q)
      BY <2>2, Kinds DEF MmTypes
    <3>2. PICK i \in KernelPmds : k \in {i, i + 1}
      BY <2>2 DEF MasterPmds, PtesIn
    <3>3. flpt[i] = Pte(q)
      BY <3>1, <3>2 DEF MasterPmds, KeptIn
    <3> QED BY <3>3 DEF Refers
  <2>3. CASE p = Swapper
    BY <2>1, <2>2, <2>3 DEF Entries
  <2>4. CASE p \in mms
    <3>1. pgd[p][j].type = "pte" /\ pgd[p][j].at = q
      BY <2>1, <2>4 DEF Entries
    <3>2. pgd[p][j] = Pte(q)
      BY <2>4, <3>1, Kinds DEF MmTypes
    <3>3. CASE pgd[p][j] = flpt[j]
      BY <2>2, <3>1, <3>3
    <3>4. CASE \E i \in UserPmds : j \in {i, i + 1}
      <4>1. PICK i \in UserPmds : j \in {i, i + 1}
        BY <3>4
      <4>2. pgd[p][i] = Pte(q)
        BY <2>4, <3>2, <4>1 DEF ProcessPmds, KeptIn
      <4> QED BY <2>4, <4>2 DEF Refers
    <3> QED BY <2>4, <3>1, <3>3, <3>4 DEF ProcessPmds
  <2> QED BY <2>1, <2>3, <2>4
<1>2. ASSUME Refers(q) PROVE q \in PtePages
  <2>1. ASSUME NEW p \in mms, NEW i \in UserPmds, pgd[p][i] = Pte(q)
        PROVE  q \in PtePages
    <3>1. i \in Indexes
      BY PmdPositions
    <3>2. Entries(p)[i] = Pte(q)
      BY <2>1 DEF Entries
    <3> QED BY <3>1, <3>2, Forms DEF PtePages, PtesOf
  <2>2. ASSUME NEW i \in KernelPmds, flpt[i] = Pte(q)
        PROVE  q \in PtePages
    <3>1. i \in Indexes
      BY PmdPositions
    <3>2. Entries(Swapper)[i] = Pte(q)
      BY <2>2 DEF Entries
    <3> QED BY <3>1, <3>2, Forms DEF PtePages, PtesOf
  <2> QED BY <1>2, <2>1, <2>2 DEF Refers
<1> QED BY <1>1, <1>2

-----------------------------------------------------------------------------
(* SetAccess, on the pages S of the megabyte of p: what its two cases, a   *)
(* table and a section that is split, have in common.                      *)
Changed(S, readonly, q) ==
  IF readonly THEN Protected(q) \/ q \in S ELSE Protected(q) /\ q \notin S

ChangesAccess(S, readonly) ==
  /\ slpt' \in [0..MaxTable -> [pa : Nat, ro : SUBSET Nat]]
  /\ l2_index_p' \in 1..(MaxTable + 1)
  /\ MasterMaps'
  /\ \A m \in Lowmem :
       LET e == flpt[PAGE_OFFSET + m]
       IN  /\ e.type = "coarse" => flpt'[PAGE_OFFSET + m] = e
           /\ e = Fault <=> flpt'[PAGE_OFFSET + m] = Fault
           /\ flpt'[PAGE_OFFSET + m].type # "pte"
  /\ \A q \in GuestPages : Protected(q)' <=> Changed(S, readonly, q)

(* One table t changes, from the read only pages old to new, and the entry *)
(* of p refers to it: t is new, or was there.                              *)
OneTable(p, S, readonly) ==
  \E t \in 0..MaxTable, old \in SUBSET Nat, new \in SUBSET Nat :
    /\ slpt' = [slpt EXCEPT ![t] = [pa |-> MB(p), ro |-> new]]
    /\ new = IF readonly THEN old \cup {Offset(q) : q \in S}
             ELSE old \ {Offset(q) : q \in S}
    /\ SplitSection(LinearIndex(p))[LinearIndex(p)] = Coarse(t)
    /\ l2_index_p' \in 1..(MaxTable + 1)
    /\ t < l2_index_p' /\ l2_index_p <= l2_index_p'
    /\ \/ flpt[LinearIndex(p)] = Section(MB(p)) /\ old = {} /\ t = l2_index_p
       \/ /\ flpt[LinearIndex(p)] = Coarse(t) /\ old = slpt[t].ro
          /\ slpt[t].pa = MB(p) /\ t < l2_index_p

(* Table numbers.                                                          *)
LEMMA Below ==
  ASSUME NEW a \in Nat, NEW b \in Nat, a < b
  PROVE  a \in 0..(b - 1)
OBVIOUS

(* The update of a level 2 table's read only pages.                        *)
LEMMA RecordUpdate ==
  ASSUME NEW r \in [pa : Nat, ro : SUBSET Nat], NEW x
  PROVE  [r EXCEPT !.ro = x] = [pa |-> r.pa, ro |-> x]
OBVIOUS

(* SetAccess changes one table: of a section that is split the new one,    *)
(* else the one its entry refers to.                                       *)
LEMMA OneTableChanges ==
  ASSUME MmTypes, MasterMaps, NEW p \in GuestPages, NEW S \in SUBSET Nat,
         NEW readonly \in BOOLEAN,
         flpt[LinearIndex(p)].type # "fault", ~OutOfTables(LinearIndex(p)),
         SetAccess(LinearIndex(p), {Offset(q) : q \in S}, readonly)
  PROVE  OneTable(p, S, readonly)
<1> DEFINE v == LinearIndex(p)
           O == {Offset(q) : q \in S}
           f == flpt[v]
<1>1. MB(p) \in Lowmem /\ v = PAGE_OFFSET + MB(p) /\ v \in Indexes
  BY IndexOfPage
<1>2. O \in SUBSET Nat
  BY Splitting
<1>3. f # Fault
  BY Forms
<1>4. f = Section(MB(p)) \/ \E t \in 0..(l2_index_p - 1) : f = Coarse(t) /\ slpt[t].pa = MB(p)
  BY <1>1, <1>3 DEF MasterMaps, Maps
<1>5. MaxTable \in Nat /\ l2_index_p \in 1..(MaxTable + 1)
  BY LayoutAssumption DEF MmTypes
<1>6. CASE f = Section(MB(p))
  <2>1. IsSection(v) /\ l2_index_p \in 0..MaxTable
    BY <1>5, <1>6, Forms DEF IsSection, OutOfTables
  <2>2. SplitSection(v)[v] = Coarse(l2_index_p) /\ TableAt(v) = l2_index_p
    BY <1>1, <2>1, Forms DEF SplitSection, TableAt, MmTypes
  <2>3. SplitTable(v) = [pa |-> MB(p), ro |-> {}]
    BY <1>6, <2>1, Forms DEF SplitTable
  <2> DEFINE new == IF readonly THEN {} \cup O ELSE {} \ O
  <2>4. slpt' = [slpt EXCEPT ![l2_index_p] = [pa |-> MB(p), ro |-> new]]
    <3>1. slpt' = [slpt EXCEPT ![l2_index_p] = [SplitTable(v) EXCEPT !.ro =
                     IF readonly THEN @ \cup O ELSE @ \ O]]
      BY <2>2 DEF SetAccess
    <3>2. SplitTable(v).ro = {} /\ SplitTable(v).pa = MB(p)
      BY <2>3
    <3>3. SplitTable(v) \in [pa : Nat, ro : SUBSET Nat]
      BY <1>1, <2>3, Sizes DEF Lowmem
    <3>4. slpt' = [slpt EXCEPT ![l2_index_p] = [SplitTable(v) EXCEPT !.ro = new]]
      BY <3>1, <3>2
    <3>5. [SplitTable(v) EXCEPT !.ro = new] = [pa |-> MB(p), ro |-> new]
      BY <3>2, <3>3, RecordUpdate
    <3> QED BY <3>4, <3>5
  <2>5. l2_index_p' = l2_index_p + 1
    BY <2>1 DEF SetAccess
  <2>6. new \in SUBSET Nat
    BY <1>2
  <2> HIDE DEF v, f
  <2>7. l2_index_p' \in 1..(MaxTable + 1) /\ l2_index_p < l2_index_p' /\ l2_index_p <= l2_index_p'
    BY <1>5, <2>1, <2>5
  <2>8. new = IF readonly THEN {} \cup O ELSE {} \ O
    OBVIOUS
  <2> HIDE DEF new, O
  <2> QED BY <1>6, <2>1, <2>2, <2>4, <2>6, <2>7, <2>8 DEF v, f, O, OneTable
<1>7. CASE \E t \in 0..(l2_index_p - 1) : f = Coarse(t) /\ slpt[t].pa = MB(p)
  <2>1. PICK t \in 0..(l2_index_p - 1) : f = Coarse(t) /\ slpt[t].pa = MB(p)
    BY <1>7
  <2>2. t \in 0..MaxTable /\ t < l2_index_p
    BY <1>5
  <2>3. ~IsSection(v) /\ SplitSection(v) = flpt /\ TableAt(v) = t /\ SplitTable(v) = slpt[t]
    BY <2>1, Forms DEF IsSection, SplitSection, TableAt, SplitTable
  <2>4. slpt[t] \in [pa : Nat, ro : SUBSET Nat]
    BY <2>2 DEF MmTypes
  <2> DEFINE new == IF readonly THEN slpt[t].ro \cup O ELSE slpt[t].ro \ O
  <2>5. slpt' = [slpt EXCEPT ![t] = [slpt[t] EXCEPT !.ro = new]]
    BY <2>3 DEF SetAccess
  <2>6. [slpt[t] EXCEPT !.ro = new] = [pa |-> MB(p), ro |-> new]
    BY <2>1, <2>4, RecordUpdate
  <2>7. l2_index_p' = l2_index_p
    BY <2>3 DEF SetAccess
  <2>8. new \in SUBSET Nat /\ slpt[t].ro \in SUBSET Nat
    BY <1>2, <2>4
  <2>9. l2_index_p' \in 1..(MaxTable + 1) /\ t < l2_index_p' /\ l2_index_p <= l2_index_p'
    BY <1>5, <2>2, <2>7
  <2>10. SplitSection(v)[v] = Coarse(t)
    BY <2>1, <2>3
  <2>11. new = IF readonly THEN slpt[t].ro \cup O ELSE slpt[t].ro \ O
    OBVIOUS
  <2>12. slpt' = [slpt EXCEPT ![t] = [pa |-> MB(p), ro |-> new]]
    BY <2>5, <2>6
  <2> HIDE DEF v, f, new, O
  <2> QED BY <2>1, <2>2, <2>8, <2>9, <2>10, <2>11, <2>12 DEF v, f, O, OneTable
<1> QED BY <1>4, <1>6, <1>7

(* The pages of S change their access and no other page does, because no   *)
(* other megabyte is mapped by that table.                                 *)
LEMMA AccessChange ==
  ASSUME MmTypes, MasterMaps, NEW p \in GuestPages, NEW S \in SUBSET GuestPages,
         \A q \in S : MB(q) = MB(p), NEW readonly \in BOOLEAN,
         flpt[LinearIndex(p)].type # "fault", ~OutOfTables(LinearIndex(p)),
         SetAccess(LinearIndex(p), {Offset(q) : q \in S}, readonly),
         \A m \in Lowmem :
           flpt'[PAGE_OFFSET + m] = SplitSection(LinearIndex(p))[PAGE_OFFSET + m]
  PROVE  ChangesAccess(S, readonly)
<1> DEFINE v == LinearIndex(p)
           O == {Offset(q) : q \in S}
<1>1. MB(p) \in Lowmem /\ v = PAGE_OFFSET + MB(p) /\ v \in Indexes
  BY IndexOfPage
<1>2. S \in SUBSET Nat
  BY DEF GuestPages
<1>3. PICK t \in 0..MaxTable, old \in SUBSET Nat, new \in SUBSET Nat :
        /\ slpt' = [slpt EXCEPT ![t] = [pa |-> MB(p), ro |-> new]]
        /\ new = IF readonly THEN old \cup O ELSE old \ O
        /\ SplitSection(v)[v] = Coarse(t)
        /\ l2_index_p' \in 1..(MaxTable + 1)
        /\ t < l2_index_p' /\ l2_index_p <= l2_index_p'
        /\ \/ flpt[v] = Section(MB(p)) /\ old = {} /\ t = l2_index_p
           \/ /\ flpt[v] = Coarse(t) /\ old = slpt[t].ro
              /\ slpt[t].pa = MB(p) /\ t < l2_index_p
  <2>1. OneTable(p, S, readonly)
    BY <1>2, OneTableChanges
  <2> QED BY <2>1 DEF OneTable
<1>4. MB(p) \in Nat /\ l2_index_p \in Nat /\ l2_index_p <= MaxTable + 1 /\ MaxTable \in Nat
  BY <1>1, Sizes, LayoutAssumption DEF MmTypes, Lowmem
<1>5. /\ slpt'[t] = [pa |-> MB(p), ro |-> new]
      /\ \A u \in 0..MaxTable : u # t => slpt'[u] = slpt[u]
  BY <1>3 DEF MmTypes
<1>6. slpt' \in [0..MaxTable -> [pa : Nat, ro : SUBSET Nat]]
  BY <1>3, <1>4 DEF MmTypes
<1>7. flpt'[v] = Coarse(t)
  BY <1>1, <1>3
<1>8. ASSUME NEW m \in Lowmem, m # MB(p)
      PROVE  flpt'[PAGE_OFFSET + m] = flpt[PAGE_OFFSET + m]
  <2>1. PAGE_OFFSET + m # v
    BY <1>1, <1>4, <1>8, Sizes DEF Lowmem
  <2>2. SplitSection(v)[PAGE_OFFSET + m] = flpt[PAGE_OFFSET + m]
    BY <2>1 DEF SplitSection, MmTypes
  <2> QED BY <2>2
<1>9. ASSUME NEW m \in Lowmem, m # MB(p), NEW u \in 0..(l2_index_p - 1),
             slpt[u].pa = m
      PROVE  u \in 0..MaxTable /\ u # t
  <2>1. u \in 0..MaxTable /\ u < l2_index_p
    BY <1>4
  <2>2. CASE t = l2_index_p
    BY <1>4, <2>1, <2>2
  <2>3. CASE slpt[t].pa = MB(p)
    BY <1>9, <2>1, <2>3
  <2> QED BY <1>3, <2>1, <2>2, <2>3
<1>10. MasterMaps'
  <2> SUFFICES ASSUME NEW m \in Lowmem
               PROVE  \/ flpt'[PAGE_OFFSET + m] = Fault
                      \/ flpt'[PAGE_OFFSET + m] = Section(m)
                      \/ \E u \in 0..(l2_index_p' - 1) :
                           flpt'[PAGE_OFFSET + m] = Coarse(u) /\ slpt'[u].pa = m
    BY DEF MasterMaps, Maps
  <2>1. CASE m = MB(p)
    <3>1. t \in 0..(l2_index_p' - 1)
      <4>1. t < l2_index_p' /\ l2_index_p' \in 1..(MaxTable + 1) /\ t \in 0..MaxTable
        BY <1>3
      <4>2. t \in Nat /\ l2_index_p' \in Nat
        BY <1>4, <4>1
      <4> QED BY <4>1, <4>2, Below
    <3>2. slpt'[t].pa = m
      BY <1>5, <2>1
    <3>3. flpt'[PAGE_OFFSET + m] = Coarse(t)
      BY <1>1, <1>7, <2>1
    <3> QED BY <3>1, <3>2, <3>3
  <2>2. CASE m # MB(p)
    <3> DEFINE e == flpt[PAGE_OFFSET + m]
    <3>1. flpt'[PAGE_OFFSET + m] = e
      BY <1>8, <2>2
    <3>2. e = Fault \/ e = Section(m) \/ \E u \in 0..(l2_index_p - 1) : e = Coarse(u) /\ slpt[u].pa = m
      BY DEF MasterMaps, Maps
    <3>3. ASSUME NEW u \in 0..(l2_index_p - 1), slpt[u].pa = m
          PROVE  u \in 0..(l2_index_p' - 1) /\ slpt'[u].pa = m
      <4>1. u \in 0..MaxTable /\ u # t
        BY <1>9, <2>2, <3>3
      <4>2. slpt'[u] = slpt[u]
        BY <1>5, <4>1
      <4>3. u \in 0..(l2_index_p' - 1)
        BY <1>3, <1>4
      <4> QED BY <3>3, <4>2, <4>3
    <3> HIDE DEF e
    <3> QED BY <3>1, <3>2, <3>3
  <2> QED BY <2>1, <2>2
<1>11. ASSUME NEW m \in Lowmem
       PROVE  LET e == flpt[PAGE_OFFSET + m]
              IN  /\ e.type = "coarse" => flpt'[PAGE_OFFSET + m] = e
                  /\ e = Fault <=> flpt'[PAGE_OFFSET + m] = Fault
                  /\ flpt'[PAGE_OFFSET + m].type # "pte"
  <2> DEFINE e == flpt[PAGE_OFFSET + m]
  <2>1. CASE m = MB(p)
    <3>1. e = Section(MB(p)) \/ e = Coarse(t)
      BY <1>1, <1>3, <2>1
    <3>2. flpt'[PAGE_OFFSET + m] = Coarse(t)
      BY <1>1, <1>7, <2>1
    <3> HIDE DEF e
    <3>3. /\ e.type = "coarse" => Coarse(t) = e
          /\ e # Fault /\ Coarse(t) # Fault /\ Coarse(t).type # "pte"
      BY <3>1, Forms
    <3> QED BY <3>2, <3>3 DEF e
  <2>2. CASE m # MB(p)
    <3>1. flpt'[PAGE_OFFSET + m] = e
      BY <1>8, <2>2
    <3>2. e.type # "pte"
      <4>1. e = Fault \/ e = Section(m) \/ \E u \in 0..(l2_index_p - 1) : e = Coarse(u)
        BY DEF MasterMaps, Maps
      <4> QED BY <4>1, Forms
    <3> QED BY <3>1, <3>2
  <2> QED BY <2>1, <2>2
<1>12. ASSUME NEW q \in GuestPages
       PROVE  Protected(q)' <=> Changed(S, readonly, q)
  <2>1. MB(q) \in Lowmem /\ LinearIndex(q) = PAGE_OFFSET + MB(q) /\ q \in Nat
    BY IndexOfPage, PageInGuest
  <2>2. CASE MB(q) = MB(p)
    <3>1. LinearIndex(q) = v
      BY <1>1, <2>1, <2>2
    <3>2. Protected(q)' <=> Offset(q) \in new
      BY <1>5, <1>7, <3>1, Forms DEF Protected
    <3>3. Protected(q) <=> Offset(q) \in old
      BY <1>3, <3>1, Forms DEF Protected
    <3>4. q \in S <=> Offset(q) \in O
      <4>1. ASSUME NEW r \in S, Offset(q) = Offset(r) PROVE q = r
        BY <1>2, <2>1, <2>2, <4>1, SamePage
      <4> QED BY <4>1
    <3> HIDE DEF O
    <3> QED BY <1>3, <3>2, <3>3, <3>4 DEF Changed
  <2>3. CASE MB(q) # MB(p)
    <3>1. q \notin S
      BY <2>3
    <3> DEFINE e == flpt[LinearIndex(q)]
    <3>2. flpt'[LinearIndex(q)] = e
      BY <1>8, <2>1, <2>3
    <3>3. e = Fault \/ e = Section(MB(q)) \/ \E u \in 0..(l2_index_p - 1) : e = Coarse(u) /\ slpt[u].pa = MB(q)
      BY <2>1 DEF MasterMaps, Maps
    <3>4. ASSUME NEW u \in 0..(l2_index_p - 1), e = Coarse(u), slpt[u].pa = MB(q)
          PROVE  slpt'[e.at] = slpt[e.at]
      BY <1>5, <1>9, <2>1, <2>3, <3>4, Forms
    <3>5. e.type = "coarse" => slpt'[e.at] = slpt[e.at]
      BY <3>3, <3>4, Forms
    <3>6. Protected(q)' <=> Protected(q)
      BY <3>2, <3>5 DEF Protected
    <3> QED BY <3>1, <3>6 DEF Changed
  <2> QED BY <2>2, <2>3
<1> QED BY <1>3, <1>6, <1>10, <1>11, <1>12 DEF ChangesAccess

(* PtePagesReferred after a step.                                          *)
LEMMA ReferredAfter ==
  (MmTypes /\ MasterPmds /\ ProcessPmds /\ Swapper \notin mms =>
    \A q : q \in PtePages <=> Refers(q))'
BY PtePagesReferred, PTL

-----------------------------------------------------------------------------
(* The ranges of PtInit do not meet.                                       *)
LEMMA InitialIndexes ==
  /\ PAGE_OFFSET + 0 = PAGE_OFFSET /\ 0 \in Lowmem
  /\ \A m \in Lowmem : m # 0 => PAGE_OFFSET + m # PAGE_OFFSET
  /\ \A i \in RamStart..(RamStart + GuestSize - 1) : i < PAGE_OFFSET /\ i - RamStart \in Nat
  /\ \A i \in PAGE_OFFSET + 1..PAGE_OFFSET + InitialMap - 1 :
       i - PAGE_OFFSET \in Lowmem /\ i - PAGE_OFFSET # 0
  /\ Lowmem \subseteq Nat
BY LayoutAssumption DEF Lowmem

(* At boot, the variables have their shapes,                               *)
LEMMA InitTypes == PtInit => MmTypes
<1> SUFFICES ASSUME PtInit PROVE MmTypes
  OBVIOUS
<1>1. \A n \in Nat : {Fault, Section(n), Coarse(n), Pte(n)} \subseteq Entry
  BY DEF Entry
<1>2. flpt \in [Indexes -> Entry]
  <2>1. ASSUME NEW i \in Indexes
        PROVE  (CASE i \in RamStart..(RamStart + GuestSize - 1) -> Section(i - RamStart)
                  [] i = PAGE_OFFSET -> Coarse(0)
                  [] i \in PAGE_OFFSET + 1..PAGE_OFFSET + InitialMap - 1
                       -> Section(i - PAGE_OFFSET)
                  [] OTHER -> Fault) \in Entry
    <3>1. CASE i \in RamStart..(RamStart + GuestSize - 1)
      BY <1>1, <3>1, InitialIndexes, LayoutAssumption
    <3>2. CASE i = PAGE_OFFSET
      BY <1>1, <3>2, InitialIndexes
    <3>3. CASE i \in PAGE_OFFSET + 1..PAGE_OFFSET + InitialMap - 1
      BY <1>1, <3>3, InitialIndexes
    <3>4. CASE /\ i \notin RamStart..(RamStart + GuestSize - 1)
               /\ i # PAGE_OFFSET
               /\ i \notin PAGE_OFFSET + 1..PAGE_OFFSET + InitialMap - 1
      BY <1>1, <3>4
    <3> QED BY <3>1, <3>2, <3>3, <3>4
  <2> QED BY <2>1 DEF PtInit
<1>3. slpt \in [0..MaxTable -> [pa : Nat, ro : SUBSET Nat]]
  <2>1. PgdSpan(Swapper) \in SUBSET Nat
    BY SwapperSpan, PageInGuest
  <2>2. NoTable \in [pa : Nat, ro : SUBSET Nat]
    BY DEF NoTable
  <2>3. [pa |-> 0, ro |-> PgdSpan(Swapper)] \in [pa : Nat, ro : SUBSET Nat]
    BY <2>1
  <2> QED BY <2>2, <2>3 DEF PtInit
<1>4. mms = {} /\ pgd \in [mms -> [Indexes -> Entry]]
  BY DEF PtInit, mms
<1>5. l2_index_p \in 1..(MaxTable + 1)
  BY LayoutAssumption DEF PtInit
<1> QED BY <1>2, <1>3, <1>4, <1>5 DEF PtInit, MmTypes

(* and the swapper table is the one table, read only.                      *)
LEMMA InitInv == PtInit => MmInv
<1> SUFFICES ASSUME PtInit PROVE MmInv
  OBVIOUS
<1>1. MmTypes /\ mms = {} /\ Tables = {Swapper}
  BY InitTypes DEF PtInit, mms, Tables
<1>2. flpt[PAGE_OFFSET] = Coarse(0)
  BY InitialIndexes, Positions DEF PtInit, Lowmem
<1>3. ASSUME NEW j \in Indexes
      PROVE  flpt[j].type # "pte"
  BY Forms DEF PtInit
<1>4. ASSUME NEW j \in Indexes, j >= PAGE_OFFSET + GuestSize
      PROVE  flpt[j] = Fault
  <2>1. /\ j \notin RamStart..(RamStart + GuestSize - 1) /\ j # PAGE_OFFSET
        /\ j \notin PAGE_OFFSET + 1..PAGE_OFFSET + InitialMap - 1
    BY <1>4, LayoutAssumption DEF Indexes
  <2> QED BY <2>1 DEF PtInit
<1>5. ASSUME NEW m \in Lowmem, m # 0
      PROVE  flpt[PAGE_OFFSET + m] = Fault \/ flpt[PAGE_OFFSET + m] = Section(m)
  <2> DEFINE i == PAGE_OFFSET + m
  <2>1. i \in Indexes /\ i # PAGE_OFFSET /\ i - PAGE_OFFSET = m
    BY <1>5, Positions, LayoutAssumption DEF Lowmem
  <2>2. i \notin RamStart..(RamStart + GuestSize - 1)
    BY LayoutAssumption DEF Lowmem
  <2> HIDE DEF i
  <2>3. flpt[i] = Fault \/ flpt[i] = Section(i - PAGE_OFFSET)
    BY <2>1, <2>2 DEF PtInit
  <2> QED BY <2>1, <2>3 DEF i
<1>6. slpt[0] = [pa |-> 0, ro |-> PgdSpan(Swapper)] /\ l2_index_p = 1 /\ 0 \in 0..(l2_index_p - 1)
  BY LayoutAssumption DEF PtInit
<1>7. MasterMaps
  <2>1. Maps(flpt[PAGE_OFFSET + 0], 0)
    BY <1>2, <1>6, InitialIndexes DEF Maps
  <2>2. ASSUME NEW m \in Lowmem, m # 0 PROVE Maps(flpt[PAGE_OFFSET + m], m)
    BY <1>5, <2>2 DEF Maps
  <2> QED BY <2>1, <2>2 DEF MasterMaps
<1>8. MasterPmds /\ ProcessPmds
  <2>1. \A i \in KernelPmds : flpt[i] = Fault /\ flpt[i + 1] = Fault
    <3> TAKE i \in KernelPmds
    <3>1. i \in Indexes /\ i + 1 \in Indexes /\ i >= PAGE_OFFSET + GuestSize
          /\ i + 1 >= PAGE_OFFSET + GuestSize
      BY PmdPositions, LayoutAssumption, LinuxAssumption
    <3> QED BY <1>4, <3>1
  <2>2. NoTableIn(flpt)
    BY <1>4, Forms DEF NoTableIn, Between
  <2> QED BY <1>1, <1>3, <2>1, <2>2 DEF MasterPmds, ProcessPmds, KeptIn, PtesIn
<1>9. PtePages = {}
  <2>1. \A q : ~Refers(q)
    <3>1. \A i \in KernelPmds : i \in Indexes
      BY PmdPositions
    <3> QED BY <1>1, <1>3, <3>1, Forms DEF Refers
  <2> QED BY <1>1, <1>8, <2>1, PtePagesReferred
<1>10. InUse = PgdSpan(Swapper)
  BY <1>1, <1>9 DEF InUse
<1>11. InUseProtected
  <2>1. ASSUME NEW q \in GuestPages, MB(q) = 0 PROVE q \in InUse <=> Protected(q)
    <3>1. LinearIndex(q) = PAGE_OFFSET
      BY <2>1, IndexOfPage, InitialIndexes
    <3>2. Offset(q) = q
      <4>1. q \in Nat /\ q = MBPages * 0 + Offset(q) /\ Offset(q) \in Nat
        BY <2>1, PageInGuest, Splitting
      <4> QED BY <4>1, Sizes
    <3> QED BY <1>2, <1>6, <1>10, <3>1, <3>2, Forms DEF Protected
  <2>2. ASSUME NEW q \in GuestPages, MB(q) # 0 PROVE q \in InUse <=> Protected(q)
    <3>1. q \notin PgdSpan(Swapper)
      BY <2>2, SwapperSpan, SpanInMegabyte
    <3>2. flpt[LinearIndex(q)] = Fault \/ flpt[LinearIndex(q)] = Section(MB(q))
      BY <1>5, <2>2, IndexOfPage
    <3> QED BY <1>10, <3>1, <3>2, Forms DEF Protected
  <2> QED BY <1>10, <2>1, <2>2, SwapperSpan DEF InUseProtected
<1>12. TablesApart /\ PtesApart
  BY <1>1, <1>9 DEF TablesApart, PtesApart
<1>13. ttb \in Tables \cup Mistakes /\ mm_status = "boot"
  BY <1>1 DEF PtInit
<1>14. CopiesMap
  BY <1>1 DEF CopiesMap
<1> QED BY <1>1, <1>7, <1>8, <1>11, <1>12, <1>13, <1>14
        DEF MmInv, Works, WildOnlyOutOfTables

-----------------------------------------------------------------------------
(* What the hypercalls do to the master table below and above the kernel's *)
(* own entries: they put no page of level 2 tables there.                  *)
MasterKept ==
  /\ flpt' \in [Indexes -> Entry]
  /\ \A j \in Indexes :
       \/ flpt'[j] = flpt[j]
       \/ /\ j < PAGE_OFFSET + GuestSize \/ j >= HAL_VIRT_START
          /\ flpt'[j].type # "pte"

(* Such a step keeps the pairs of the master table, and with them the      *)
(* copies of the processes.                                                *)
LEMMA MasterPmdsKept ==
  ASSUME MmTypes, MasterPmds, MasterKept
  PROVE  /\ MasterPmds'
         /\ \A i \in KernelPmds : flpt'[i] = flpt[i]
         /\ \A j \in Indexes : flpt[j].type = "pte" => flpt'[j] = flpt[j]
<1>1. \A i \in KernelPmds : flpt'[i] = flpt[i] /\ flpt'[i + 1] = flpt[i + 1]
  <2> TAKE i \in KernelPmds
  <2>1. /\ i \in Indexes /\ i + 1 \in Indexes
        /\ ~(i < PAGE_OFFSET + GuestSize) /\ ~(i + 1 < PAGE_OFFSET + GuestSize)
        /\ ~(i >= HAL_VIRT_START) /\ ~(i + 1 >= HAL_VIRT_START)
    BY PmdPositions, LayoutAssumption, LinuxAssumption
  <2> QED BY <2>1 DEF MasterKept
<1>2. \A j \in Indexes : flpt'[j].type = "pte" => flpt[j].type = "pte"
  BY DEF MasterKept
<1>3. \A j \in Indexes : flpt[j].type = "pte" => flpt'[j] = flpt[j]
  <2> SUFFICES ASSUME NEW j \in Indexes, flpt[j].type = "pte" PROVE flpt'[j] = flpt[j]
    OBVIOUS
  <2>1. PICK i \in KernelPmds : j \in {i, i + 1}
    BY DEF MasterPmds, PtesIn
  <2> QED BY <1>1, <2>1
<1>4. KeptIn(flpt', KernelPmds)
  BY <1>1 DEF MasterPmds, KeptIn
<1>5. PtesIn(flpt', KernelPmds)
  BY <1>2 DEF MasterPmds, PtesIn
<1>6. NoTableIn(flpt')
  <2> SUFFICES ASSUME NEW j \in Between PROVE flpt'[j].type \in {"fault", "pte"}
    BY DEF NoTableIn
  <2>1. j \in Indexes /\ ~(j < PAGE_OFFSET + GuestSize) /\ ~(j >= HAL_VIRT_START)
    BY LayoutAssumption DEF Between, Indexes
  <2>2. flpt'[j] = flpt[j]
    BY <2>1 DEF MasterKept
  <2> QED BY <2>2 DEF MasterPmds, NoTableIn
<1> QED BY <1>1, <1>3, <1>4, <1>5, <1>6 DEF MasterPmds

(* The tables of the processes, where they do not change.                  *)
LEMMA ProcessPmdsKept ==
  ASSUME MmTypes, MasterPmds, ProcessPmds, MasterKept, NEW p \in mms,
         pgd'[p] = pgd[p]
  PROVE  /\ KeptIn(pgd'[p], UserPmds)
         /\ \A j \in Indexes :
              pgd'[p][j].type = "pte" =>
                \/ \E i \in UserPmds : j \in {i, i + 1}
                \/ pgd'[p][j] = flpt'[j]
<1>1. \A j \in Indexes : flpt[j].type = "pte" => flpt'[j] = flpt[j]
  BY MasterPmdsKept
<1> QED BY <1>1 DEF ProcessPmds

(* A split, which may be of a section of the linear map alone.             *)
LEMMA SplitKeeps ==
  ASSUME MmTypes, MasterMaps, NEW p \in GuestPages
  PROVE  LET f == SplitSection(LinearIndex(p))
         IN  /\ f \in [Indexes -> Entry]
             /\ \A j \in Indexes :
                  \/ f[j] = flpt[j]
                  \/ /\ j < PAGE_OFFSET + GuestSize /\ j >= PAGE_OFFSET
                     /\ f[j].type # "pte"
<1> DEFINE v == LinearIndex(p)
<1>1. v \in Indexes /\ v = PAGE_OFFSET + MB(p) /\ MB(p) \in Lowmem
  BY IndexOfPage
<1>2. v < PAGE_OFFSET + GuestSize /\ v >= PAGE_OFFSET
  BY <1>1, LayoutAssumption DEF Lowmem
<1>3. Coarse(l2_index_p) \in Entry /\ Coarse(l2_index_p).type # "pte"
  <2>1. l2_index_p \in Nat
    BY LayoutAssumption DEF MmTypes
  <2>2. Coarse(l2_index_p) \in Entry
    BY <2>1 DEF Entry
  <2>3. Coarse(l2_index_p).type = "coarse"
    BY Forms
  <2> QED BY <2>2, <2>3
<1> HIDE DEF v
<1>4. CASE IsSection(v)
  <2>1. SplitSection(v) = [flpt EXCEPT ![v] = Coarse(l2_index_p)]
    BY <1>4 DEF SplitSection
  <2> QED BY <1>1, <1>2, <1>3, <2>1 DEF MmTypes, v
<1>5. CASE ~IsSection(v)
  BY <1>5 DEF SplitSection, MmTypes, v
<1> QED BY <1>4, <1>5

(* Copies stay true as long as tables in the linear map stay.              *)
LEMMA CopiesKept ==
  ASSUME CopiesMap,
         \A m \in Lowmem :
           LET e == flpt[PAGE_OFFSET + m]
           IN  e.type = "coarse" => flpt'[PAGE_OFFSET + m] = e,
         MasterMaps',
         \A p \in mms', m \in Lowmem :
           \/ p \in mms /\ pgd'[p][PAGE_OFFSET + m] = pgd[p][PAGE_OFFSET + m]
           \/ pgd'[p][PAGE_OFFSET + m] = flpt'[PAGE_OFFSET + m]
  PROVE  CopiesMap'
<1> SUFFICES ASSUME NEW p \in mms', NEW m \in Lowmem
             PROVE  LET e == pgd'[p][PAGE_OFFSET + m]
                    IN  \/ e = Fault
                        \/ e = Section(m)
                        \/ e.type = "coarse" /\ e = flpt'[PAGE_OFFSET + m]
  BY DEF CopiesMap
<1>1. CASE p \in mms /\ pgd'[p][PAGE_OFFSET + m] = pgd[p][PAGE_OFFSET + m]
  BY <1>1 DEF CopiesMap
<1>2. CASE pgd'[p][PAGE_OFFSET + m] = flpt'[PAGE_OFFSET + m]
  <2> DEFINE e == flpt'[PAGE_OFFSET + m]
  <2>1. e = Fault \/ e = Section(m) \/ \E t \in 0..(l2_index_p' - 1) : e = Coarse(t)
    BY DEF MasterMaps, Maps
  <2>2. e = Fault \/ e = Section(m) \/ e.type = "coarse"
    BY <2>1, Forms
  <2> QED BY <1>2, <2>2
<1> QED BY <1>1, <1>2

-----------------------------------------------------------------------------
(* Steps after which the machine has stopped, or stops.                    *)
LEMMA FailStep ==
  ASSUME MmInv, NEW how \in {"panic", "astray"}, Fail(how)
  PROVE  MmInv'
<1>1. /\ mm_status' \in {"panic", "astray"} /\ mms' = mms
      /\ UNCHANGED <<flpt, slpt, l2_index_p, pgd, ttb>>
  BY DEF Fail, mms
<1>2. MmTypes' /\ MasterMaps' /\ CopiesMap'
  BY <1>1 DEF MmInv, MmTypes, MasterMaps, Maps, CopiesMap
<1> QED BY <1>1, <1>2 DEF MmInv, WildOnlyOutOfTables

LEMMA PanicStep == MmInv /\ Panic => MmInv'
BY FailStep DEF Panic

(* A handler goes astray with a page outside the guest's memory.           *)
LEMMA AstrayStep ==
  ASSUME MmInv, NEW p \in Mistakes, LosesWay(p)
  PROVE  MmInv'
<1>1. p \notin GuestPages
  BY LinuxAssumption
<1>2. Fail("astray")
  BY <1>1 DEF LosesWay
<1> QED BY <1>2, FailStep

LEMMA LostStep ==
  ASSUME MmInv, NEW p \in GuestPages, OutOfTables(LinearIndex(p)),
         LoseMegabyte(LinearIndex(p))
  PROVE  MmInv'
<1> DEFINE v == LinearIndex(p)
<1>1. /\ flpt' = [flpt EXCEPT ![v] = Fault] /\ mm_status' = "wild" /\ mms' = mms
      /\ UNCHANGED <<slpt, l2_index_p, pgd, ttb>>
  BY DEF LoseMegabyte, mms
<1>2. v \in Indexes /\ flpt[v].type = "section" /\ l2_index_p > MaxTable
  BY IndexOfPage DEF OutOfTables, IsSection
<1>3. Fault \in Entry
  BY DEF Entry
<1> HIDE DEF v
<1>4. flpt'[v] = Fault /\ \A j \in Indexes : j # v => flpt'[j] = flpt[j]
  BY <1>1, <1>2 DEF MmInv, MmTypes
<1>5. MmTypes'
  BY <1>1, <1>2, <1>3 DEF MmInv, MmTypes
<1>6. MasterMaps'
  <2> SUFFICES ASSUME NEW m \in Lowmem PROVE Maps(flpt[PAGE_OFFSET + m], m)'
    BY DEF MasterMaps
  <2>1. CASE PAGE_OFFSET + m = v
    BY <1>4, <2>1 DEF Maps
  <2>2. CASE PAGE_OFFSET + m # v
    <3>1. flpt'[PAGE_OFFSET + m] = flpt[PAGE_OFFSET + m]
      BY <1>4, <2>2, Positions DEF Lowmem
    <3> QED BY <1>1, <3>1 DEF MmInv, MasterMaps, Maps
  <2> QED BY <2>1, <2>2
<1>7. CopiesMap'
  <2>1. \A m \in Lowmem :
          LET e == flpt[PAGE_OFFSET + m]
          IN  e.type = "coarse" => flpt'[PAGE_OFFSET + m] = e
    BY <1>2, <1>4, Positions DEF Lowmem
  <2> QED BY <1>1, <1>6, <2>1, CopiesKept DEF MmInv
<1>8. l2_index_p' = MaxTable + 1
  <2>1. l2_index_p \in 1..(MaxTable + 1) /\ l2_index_p' = l2_index_p
    BY <1>1 DEF MmInv, MmTypes
  <2>2. MaxTable \in Nat
    BY LayoutAssumption
  <2> QED BY <1>2, <2>1, <2>2
<1> QED BY <1>1, <1>5, <1>6, <1>7, <1>8 DEF MmInv, WildOnlyOutOfTables

(* A page that holds a table is in a level 2 table of the hypervisor.      *)
LEMMA UsedIsCoarse ==
  ASSUME Works, NEW q \in InUse
  PROVE  q \in GuestPages /\ Protected(q) /\ flpt[LinearIndex(q)].type = "coarse"
BY DEF Works, InUseProtected, Protected

LEMMA TableIsUsed ==
  ASSUME MmTypes, Works, NEW p \in Tables
  PROVE  p \in InUse /\ PgdSpan(p) \subseteq InUse /\ p \in Nat /\ Aligned(p)
<1>1. Swapper \in GuestPages /\ Aligned(Swapper)
  BY SwapperSpan, Sizes DEF PgdSpan, Aligned
<1>2. p \in Nat /\ Aligned(p)
  <2>1. CASE p = Swapper
    BY <1>1, <2>1, SwapperSpan
  <2>2. CASE p \in mms
    BY <2>2, PageInGuest DEF Works, TablesApart, MmTypes
  <2> QED BY <2>1, <2>2 DEF Tables
<1>3. p \in PgdSpan(p)
  BY <1>2, Sizes DEF PgdSpan
<1> QED BY <1>2, <1>3 DEF InUse, Tables

(* The pages in use, before and after a step.                              *)
LEMMA InUsePages ==
  \A q : q \in InUse <=> (\E r \in Tables : q \in PgdSpan(r)) \/ q \in PtePages
<1> SUFFICES ASSUME NEW q
             PROVE  q \in InUse <=> (\E r \in Tables : q \in PgdSpan(r)) \/ q \in PtePages
  OBVIOUS
<1> DEFINE spans == UNION {PgdSpan(p) : p \in mms}
<1>1. q \in spans <=> \E r \in mms : q \in PgdSpan(r)
  OBVIOUS
<1>2. InUse = PgdSpan(Swapper) \cup spans \cup PtePages
  BY DEF InUse
<1> HIDE DEF spans
<1> QED BY <1>1, <1>2 DEF Tables

LEMMA InUsePagesAfter ==
  (\A q : q \in InUse <=> (\E r \in Tables : q \in PgdSpan(r)) \/ q \in PtePages)'
BY InUsePages, PTL

(* Putting a working state together.                                       *)
LEMMA WorksInv ==
  MmTypes' /\ MasterMaps' /\ CopiesMap' /\ mm_status' = "running" /\ Works' => MmInv'
BY DEF MmInv, WildOnlyOutOfTables

(* Access that changes for the pages whose use changes.                    *)
LEMMA InUseFollows ==
  ASSUME NEW S, NEW readonly \in BOOLEAN, ChangesAccess(S, readonly),
         InUseProtected, S \subseteq GuestPages,
         InUse' = IF readonly THEN InUse \cup S ELSE InUse \ S
  PROVE  InUseProtected'
<1>1. \A q \in GuestPages : Protected(q)' <=> Changed(S, readonly, q)
  BY DEF ChangesAccess
<1>2. \A q \in GuestPages : q \in InUse' <=> Changed(S, readonly, q)
  BY DEF Changed, InUseProtected
<1>3. InUse' \subseteq GuestPages
  BY DEF InUseProtected
<1> QED BY <1>1, <1>2, <1>3 DEF InUseProtected

-----------------------------------------------------------------------------
(* NEW_PGD on free pages: no process has them, and no copy is taken of an  *)
(* entry but the kernel's.                                                 *)
LEMMA NewMmStep ==
  ASSUME MmInv, NEW p \in FreeSpans, NewPgd(p)
  PROVE  MmInv'
<1> DEFINE v == LinearIndex(p)
           S == PgdSpan(p)
<1>1. /\ p \in GuestPages /\ p \in Nat /\ p % PgdPages = 0 /\ S \subseteq GuestPages
      /\ Mapped(p) /\ S \cap InUse = {} /\ p \in S
  <2>1. p \in FreePages /\ p % PgdPages = 0 /\ S \subseteq FreePages
    BY DEF FreeSpans
  <2>2. FreePages \subseteq GuestPages /\ FreePages \cap InUse = {}
    BY LinuxAssumption DEF FreePages
  <2>3. Mapped(p)
    BY <2>1 DEF FreePages
  <2>4. p \in S
    BY <2>1, <2>2, PageInGuest, Sizes DEF PgdSpan
  <2> QED BY <2>1, <2>2, <2>3, <2>4, PageInGuest
<1>2. mm_status = "running" /\ flpt[v].type \in {"section", "coarse"} /\ TableBelow(p)
  <2>1. \/ flpt[v] = Fault \/ flpt[v] = Section(MB(p))
        \/ \E t \in 0..(l2_index_p - 1) : flpt[v] = Coarse(t)
    BY <1>1, IndexOfPage DEF MmInv, MasterMaps, Maps
  <2>2. flpt[v].type # "fault"
    BY <1>1 DEF Mapped
  <2>3. flpt[v].type \in {"section", "coarse"}
    BY <2>1, <2>2, Forms
  <2> QED BY <1>1, <2>3, TableIsBelow DEF NewPgd
<1>3. MmTypes /\ MasterMaps /\ CopiesMap /\ Works
  BY <1>2 DEF MmInv
<1>4. CASE OutOfTables(v)
  <2>1. LoseMegabyte(v)
    BY <1>1, <1>2, <1>4 DEF NewPgd
  <2> QED BY <1>1, <1>4, <2>1, LostStep
<1>5. CASE ~OutOfTables(v)
  <2>1. /\ SetAccess(v, {Offset(q) : q \in S}, TRUE)
        /\ flpt' = SplitSection(v)
        /\ pgd' = [q \in DOMAIN pgd \cup {p} |->
             IF q # p THEN pgd[q]
             ELSE [i \in Indexes |-> IF i < MODULES_VADDR THEN Fault ELSE flpt'[i]]]
        /\ UNCHANGED <<ttb, mm_status>>
    BY <1>1, <1>2, <1>5 DEF NewPgd, Offsets
  <2>2. \A q \in S : MB(q) = MB(p)
    BY <1>1, SpanInMegabyte
  <2>3. ChangesAccess(S, TRUE)
    BY <1>1, <1>2, <1>3, <1>5, <2>1, <2>2, AccessChange
  <2>4. MasterKept /\ flpt' \in [Indexes -> Entry]
    BY <1>1, <1>3, <2>1, SplitKeeps DEF MasterKept
  <2>5. p \notin mms /\ p # Swapper
    <3>1. p \notin InUse
      BY <1>1
    <3> QED BY <3>1, <1>3, TableIsUsed DEF Tables
  <2>6. /\ mms' = mms \cup {p} /\ Tables' = Tables \cup {p}
        /\ \A r \in mms : pgd'[r] = pgd[r]
        /\ pgd'[p] = [i \in Indexes |-> IF i < MODULES_VADDR THEN Fault ELSE flpt'[i]]
    BY <2>1, <2>5 DEF mms, Tables
  <2>7. \A i \in Indexes : pgd'[p][i] = Fault \/ pgd'[p][i] = flpt'[i]
    BY <2>6
  <2>8. \A i \in UserPmds : pgd'[p][i] = Fault /\ pgd'[p][i + 1] = Fault
    <3> TAKE i \in UserPmds
    <3>1. i \in Indexes /\ i + 1 \in Indexes /\ i < MODULES_VADDR /\ i + 1 < MODULES_VADDR
      BY PmdPositions, LinuxAssumption, LayoutAssumption
    <3> QED BY <2>6, <3>1
  <2>9. \A m \in Lowmem : pgd'[p][PAGE_OFFSET + m] = flpt'[PAGE_OFFSET + m]
    <3> TAKE m \in Lowmem
    <3>1. PAGE_OFFSET + m \in Indexes /\ ~(PAGE_OFFSET + m < MODULES_VADDR)
      BY Positions, LayoutAssumption DEF Lowmem
    <3> QED BY <2>6, <3>1
  <2>10. MmTypes'
    <3>1. Fault \in Entry
      BY DEF Entry
    <3>2. pgd'[p] \in [Indexes -> Entry]
      BY <2>4, <2>6, <3>1
    <3>3. pgd' \in [mms' -> [Indexes -> Entry]]
      BY <1>3, <2>1, <2>6, <3>2 DEF MmTypes, mms
    <3>4. mms' \subseteq GuestPages
      BY <1>1, <1>3, <2>6 DEF MmTypes
    <3> QED BY <1>2, <2>1, <2>3, <2>4, <3>3, <3>4 DEF MmTypes, ChangesAccess
  <2>11. MasterMaps' /\ CopiesMap'
    BY <1>3, <2>3, <2>6, <2>9, CopiesKept DEF ChangesAccess
  <2>12. MasterPmds' /\ ProcessPmds'
    <3>1. MasterPmds'
      BY <1>3, <2>4, MasterPmdsKept DEF Works
    <3>2. ASSUME NEW r \in mms'
          PROVE  /\ KeptIn(pgd'[r], UserPmds)
                 /\ \A j \in Indexes :
                      pgd'[r][j].type = "pte" =>
                        \/ \E i \in UserPmds : j \in {i, i + 1}
                        \/ pgd'[r][j] = flpt'[j]
      <4>1. CASE r \in mms
        BY <1>3, <2>4, <2>6, <4>1, ProcessPmdsKept DEF Works
      <4>2. CASE r = p
        BY <2>7, <2>8, <4>2, Forms DEF KeptIn
      <4> QED BY <2>6, <4>1, <4>2
    <3> QED BY <3>1, <3>2 DEF ProcessPmds
  <2>13. PtePages' = PtePages
    <3>1. \A i \in KernelPmds : flpt'[i] = flpt[i]
      BY <1>3, <2>4, MasterPmdsKept DEF Works
    <3>2. \A q : Refers(q)' <=> Refers(q)
      BY <2>6, <2>8, <3>1, Forms DEF Refers
    <3>3. Swapper \notin mms /\ Swapper \notin mms'
      BY <1>3, <2>5, <2>6 DEF Works, TablesApart
    <3>4. \A q : q \in PtePages' <=> Refers(q)'
      BY <2>10, <2>12, <3>3, ReferredAfter
    <3>5. \A q : q \in PtePages <=> Refers(q)
      BY <1>3, <3>3, PtePagesReferred DEF Works
    <3> QED BY <3>2, <3>4, <3>5
  <2>14. InUse' = InUse \cup S
    BY <2>6, <2>13 DEF InUse
  <2>15. InUseProtected'
    BY <1>1, <1>3, <2>3, <2>14, InUseFollows DEF Works
  <2>16. TablesApart'
    <3>1. \A r \in Tables : PgdSpan(r) \cap S = {}
      BY <1>1, <1>3, TableIsUsed
    <3>2. S \cap PtePages = {}
      <4>1. PtePages \subseteq InUse
        BY InUsePages
      <4> QED BY <1>1, <4>1
    <3>3. Aligned(p)
      BY <1>1 DEF Aligned
    <3> QED BY <1>3, <2>5, <2>6, <2>13, <3>1, <3>2, <3>3 DEF Works, TablesApart, Tables
  <2>17. PtesApart'
    <3>1. \A i \in KernelPmds : flpt'[i] = flpt[i]
      BY <1>3, <2>4, MasterPmdsKept DEF Works
    <3> QED BY <1>3, <2>6, <2>8, <3>1 DEF Works, PtesApart
  <2>18. ttb' \in Tables' \cup Mistakes
    BY <1>3, <2>1, <2>6 DEF Works
  <2> QED BY <1>2, <2>1, <2>10, <2>11, <2>12, <2>15, <2>16, <2>17, <2>18, WorksInv
          DEF Works
<1> QED BY <1>4, <1>5

(* FREE_PGD of a process that maps nothing: its pages are no one else's.   *)
(* Their megabyte has a level 2 table, since they were read only.          *)
LEMMA FreeMmStep ==
  ASSUME MmInv, NEW p \in mms \ {ttb}, \A i \in UserPmds : pgd[p][i] = Fault,
         FreePgd(p)
  PROVE  MmInv'
<1> DEFINE v == LinearIndex(p)
           S == PgdSpan(p)
<1>1. mm_status = "running" /\ MmTypes /\ MasterMaps /\ CopiesMap /\ Works
  BY DEF MmInv, FreePgd
<1>2. /\ p \in Tables /\ p \in GuestPages /\ p \in InUse /\ S \subseteq InUse
      /\ p \in Nat /\ p % PgdPages = 0 /\ S \subseteq GuestPages /\ p # Swapper
  BY <1>1, TableIsUsed, PageInGuest DEF Tables, MmTypes, Aligned, Works, TablesApart
<1>3. flpt[v].type = "coarse" /\ TableBelow(p)
  BY <1>1, <1>2, UsedIsCoarse, TableIsBelow
<1>4. /\ SetAccess(v, {Offset(q) : q \in S}, FALSE)
      /\ pgd' = [q \in DOMAIN pgd \ {p} |-> pgd[q]]
      /\ UNCHANGED <<flpt, ttb, mm_status>>
  BY <1>2, <1>3 DEF FreePgd, Offsets
<1>5. ~OutOfTables(v) /\ SplitSection(v) = flpt /\ flpt[v].type # "fault"
  BY <1>3 DEF OutOfTables, IsSection, SplitSection
<1>6. \A q \in S : MB(q) = MB(p)
  BY <1>2, SpanInMegabyte
<1>7. ChangesAccess(S, FALSE)
  <2>1. \A m \in Lowmem : flpt'[PAGE_OFFSET + m] = SplitSection(v)[PAGE_OFFSET + m]
    BY <1>4, <1>5
  <2> QED BY <1>1, <1>2, <1>4, <1>5, <1>6, <2>1, AccessChange
<1>8. /\ mms' = mms \ {p} /\ Tables' = Tables \ {p}
      /\ \A r \in mms' : r \in mms /\ pgd'[r] = pgd[r]
  BY <1>2, <1>4 DEF mms, Tables
<1>9. MmTypes'
  <2>1. pgd' \in [mms' -> [Indexes -> Entry]]
    BY <1>1, <1>4, <1>8 DEF MmTypes, mms
  <2> QED BY <1>1, <1>4, <1>7, <1>8, <2>1 DEF MmTypes, ChangesAccess
<1>10. MasterMaps' /\ CopiesMap'
  BY <1>1, <1>4, <1>7, <1>8, CopiesKept DEF ChangesAccess
<1>11. MasterKept
  BY <1>1, <1>4 DEF MasterKept, MmTypes
<1>12. MasterPmds' /\ ProcessPmds'
  <2>1. flpt' = flpt
    BY <1>4
  <2>2. MasterPmds'
    BY <1>1, <2>1 DEF Works, MasterPmds, KeptIn, PtesIn, NoTableIn
  <2>3. ProcessPmds'
    BY <1>1, <1>8, <2>1 DEF Works, ProcessPmds
  <2> QED BY <2>2, <2>3
<1>13. PtePages' = PtePages
  <2>1. \A q : Refers(q)' <=> Refers(q)
    <3> TAKE q
    <3>1. \A r \in mms, i \in UserPmds : pgd[r][i] = Pte(q) => r \in mms'
      <4>1. Fault # Pte(q)
        BY Forms
      <4> QED BY <1>8, <4>1
    <3>2. flpt' = flpt
      BY <1>4
    <3> QED BY <1>8, <3>1, <3>2 DEF Refers
  <2>2. Swapper \notin mms /\ Swapper \notin mms'
    BY <1>1, <1>8 DEF Works, TablesApart
  <2>3. \A q : q \in PtePages' <=> Refers(q)'
    BY <1>9, <1>12, <2>2, ReferredAfter
  <2>4. \A q : q \in PtePages <=> Refers(q)
    BY <1>1, <2>2, PtePagesReferred DEF Works
  <2> QED BY <2>1, <2>3, <2>4
<1>14. InUse' = InUse \ S
  <2>1. \A r \in Tables : r # p => PgdSpan(r) \cap S = {}
    BY <1>1, <1>2 DEF Works, TablesApart
  <2>2. S \cap PtePages = {}
    BY <1>1, <1>2 DEF Works, TablesApart
  <2>3. ASSUME NEW q PROVE q \in InUse' <=> q \in InUse \ S
    <3>1. q \in InUse <=> (\E r \in Tables : q \in PgdSpan(r)) \/ q \in PtePages
      BY InUsePages
    <3>2. q \in InUse' <=> (\E r \in Tables' : q \in PgdSpan(r)) \/ q \in PtePages
      BY <1>13, InUsePagesAfter
    <3>3. (\E r \in Tables' : q \in PgdSpan(r)) <=> (\E r \in Tables : q \in PgdSpan(r)) /\ q \notin S
      BY <1>8, <2>1
    <3> QED BY <2>2, <3>1, <3>2, <3>3
  <2> QED BY <2>3
<1>15. InUseProtected'
  BY <1>1, <1>2, <1>7, <1>14, InUseFollows DEF Works
<1>16. TablesApart' /\ PtesApart'
  <2>1. flpt' = flpt
    BY <1>4
  <2>2. TablesApart'
    BY <1>1, <1>8, <1>13 DEF Works, TablesApart
  <2>3. PtesApart'
    BY <1>1, <1>8, <2>1 DEF Works, PtesApart
  <2> QED BY <2>2, <2>3
<1>17. ttb' \in Tables' \cup Mistakes
  BY <1>1, <1>2, <1>4, <1>8 DEF Works
<1> QED BY <1>1, <1>4, <1>9, <1>10, <1>12, <1>15, <1>16, <1>17, WorksInv DEF Works

-----------------------------------------------------------------------------
(* An update of a pair of entries in the table of a process.               *)
Puts(p, i, e) ==
  /\ mms' = mms /\ pgd' \in [mms -> [Indexes -> Entry]]
  /\ \A r \in mms : r # p => pgd'[r] = pgd[r]
  /\ \A j \in Indexes : pgd'[p][j] = IF j \in {i, i + 1} THEN e ELSE pgd[p][j]

(* PutPmd is one.                                                          *)
LEMMA PutsPair ==
  ASSUME MmTypes, NEW p \in mms, NEW i \in Indexes, i + 1 \in Indexes,
         NEW e \in Entry,
         pgd' = [pgd EXCEPT ![p][i] = e, ![p][i + 1] = e]
  PROVE  Puts(p, i, e)
<1> DEFINE once == [pgd EXCEPT ![p][i] = e]
<1>1. pgd \in [mms -> [Indexes -> Entry]] /\ pgd[p] \in [Indexes -> Entry]
  BY DEF MmTypes
<1>2. once = [pgd EXCEPT ![p] = [pgd[p] EXCEPT ![i] = e]]
  OBVIOUS
<1>3. /\ once \in [mms -> [Indexes -> Entry]]
      /\ once[p] = [pgd[p] EXCEPT ![i] = e]
      /\ \A r \in mms : r # p => once[r] = pgd[r]
  BY <1>1, <1>2
<1>4. pgd' = [once EXCEPT ![p] = [once[p] EXCEPT ![i + 1] = e]]
  OBVIOUS
<1> HIDE DEF once
<1>5. /\ pgd' \in [mms -> [Indexes -> Entry]]
      /\ pgd'[p] = [once[p] EXCEPT ![i + 1] = e]
      /\ \A r \in mms : r # p => pgd'[r] = once[r]
  <2>1. [once[p] EXCEPT ![i + 1] = e] \in [Indexes -> Entry]
    BY <1>1, <1>3
  <2> QED BY <1>3, <1>4, <2>1
<1>6. mms' = mms
  BY <1>5 DEF mms
<1>7. \A j \in Indexes : pgd'[p][j] = IF j \in {i, i + 1} THEN e ELSE pgd[p][j]
  BY <1>1, <1>3, <1>5
<1> QED BY <1>3, <1>5, <1>6, <1>7 DEF Puts

(* The pairs of the processes do not overlap, nor reach the linear map.    *)
LEMMA PairsApart ==
  /\ \A i, k \in UserPmds : k # i => k \notin {i, i + 1} /\ k + 1 \notin {i, i + 1}
  /\ \A i, k \in KernelPmds : k # i => k \notin {i, i + 1} /\ k + 1 \notin {i, i + 1}
  /\ \A i \in KernelPmds, k \in UserPmds : k \notin {i, i + 1} /\ k + 1 \notin {i, i + 1}
  /\ \A i \in UserPmds \cup KernelPmds, m \in Lowmem : PAGE_OFFSET + m \notin {i, i + 1}
<1>1. UserPmds \cup KernelPmds \subseteq Nat
  BY LinuxAssumption
<1>2. \A i, k \in UserPmds \cup KernelPmds :
        k # i => k \notin {i, i + 1} /\ k + 1 \notin {i, i + 1}
  <2> TAKE i, k \in UserPmds \cup KernelPmds
  <2>1. i \in Nat /\ k \in Nat /\ i + 1 # k /\ k + 1 # i
    BY <1>1, LinuxAssumption
  <2> QED BY <2>1
<1>3. \A i \in KernelPmds, k \in UserPmds : k # i
  <2> TAKE i \in KernelPmds, k \in UserPmds
  <2>1. i \in Nat /\ k \in Nat /\ k + 1 < MODULES_VADDR /\ PAGE_OFFSET + GuestSize <= i
    BY <1>1, LinuxAssumption
  <2> QED BY <2>1, LayoutAssumption
<1>4. \A i \in UserPmds, m \in Lowmem : PAGE_OFFSET + m \notin {i, i + 1}
  <2> TAKE i \in UserPmds, m \in Lowmem
  <2>1. i \in Nat /\ i + 1 < MODULES_VADDR /\ m \in Nat
    BY <1>1, LinuxAssumption DEF Lowmem
  <2> QED BY <2>1, LayoutAssumption
<1>5. \A i \in KernelPmds, m \in Lowmem : PAGE_OFFSET + m \notin {i, i + 1}
  <2> TAKE i \in KernelPmds, m \in Lowmem
  <2>1. i \in Nat /\ PAGE_OFFSET + GuestSize <= i
    BY <1>1, LinuxAssumption
  <2>2. PAGE_OFFSET + m < PAGE_OFFSET + GuestSize /\ PAGE_OFFSET + m \in Nat
    BY Sizes DEF Lowmem
  <2> QED BY <2>1, <2>2, Sizes
<1> QED BY <1>2, <1>3, <1>4, <1>5

(* The pairs Linux updates: its own in a process, or a copy of the         *)
(* kernel's.                                                               *)
PairOf(i, e) ==
  \/ i \in UserPmds /\ (e = Fault \/ \E q \in TablePages : e = Pte(q))
  \/ i \in KernelPmds /\ e = flpt[i]

(* No other pair changes.                                                  *)
LEMMA ProcessEntries ==
  ASSUME MmTypes, Works, MasterKept,
         NEW p \in mms, NEW i, NEW e, PairOf(i, e), Puts(p, i, e)
  PROVE  /\ mms' = mms
         /\ \A k \in KernelPmds : flpt'[k] = flpt[k]
         /\ \A r \in mms, k \in UserPmds :
              /\ pgd'[r][k] = IF r = p /\ k = i THEN e ELSE pgd[r][k]
              /\ pgd'[r][k + 1] = IF r = p /\ k = i THEN e ELSE pgd[r][k + 1]
<1>1. mms' = mms
  BY DEF Puts
<1>2. \A k \in KernelPmds : flpt'[k] = flpt[k]
  BY MasterPmdsKept DEF Works
<1>3. ASSUME NEW r \in mms, NEW k \in UserPmds
      PROVE  /\ pgd'[r][k] = IF r = p /\ k = i THEN e ELSE pgd[r][k]
             /\ pgd'[r][k + 1] = IF r = p /\ k = i THEN e ELSE pgd[r][k + 1]
  <2>1. k \in Indexes /\ k + 1 \in Indexes
    BY PmdPositions
  <2>2. k # i => k \notin {i, i + 1} /\ k + 1 \notin {i, i + 1}
    BY PairsApart DEF PairOf
  <2> QED BY <2>1, <2>2 DEF Puts
<1> QED BY <1>1, <1>2, <1>3

(* The tables keep their shape.                                            *)
LEMMA ProcessTables ==
  ASSUME MmTypes, MasterMaps, CopiesMap, Works, mm_status = "running",
         NEW S, NEW readonly \in BOOLEAN, ChangesAccess(S, readonly), MasterKept,
         NEW p \in mms, NEW i, NEW e, PairOf(i, e), Puts(p, i, e),
         UNCHANGED <<ttb, mm_status>>
  PROVE  /\ MmTypes' /\ MasterMaps' /\ CopiesMap'
         /\ MasterPmds' /\ ProcessPmds'
         /\ Tables' = Tables /\ Swapper \notin mms'
         /\ \A q : q \in PtePages' <=> Refers(q)'
<1>1. mms' = mms /\ Tables' = Tables /\ Swapper \notin mms'
  BY DEF Puts, Tables, Works, TablesApart
<1>2. MmTypes'
  BY <1>1 DEF MmTypes, Puts, ChangesAccess, MasterKept
<1>3. MasterPmds' /\ \A k \in KernelPmds : flpt'[k] = flpt[k]
  BY MasterPmdsKept DEF Works
<1>4. \A j \in Indexes : flpt[j].type = "pte" => flpt'[j] = flpt[j]
  BY MasterPmdsKept DEF Works
<1>5. MasterMaps'
  BY DEF ChangesAccess
<1>6. CopiesMap'
  <2>1. ASSUME NEW r \in mms, NEW m \in Lowmem
        PROVE  pgd'[r][PAGE_OFFSET + m] = pgd[r][PAGE_OFFSET + m]
    <3>1. PAGE_OFFSET + m \notin {i, i + 1}
      BY PairsApart DEF PairOf
    <3>2. PAGE_OFFSET + m \in Indexes
      BY Positions DEF Lowmem
    <3> QED BY <3>1, <3>2 DEF Puts
  <2> QED BY <1>1, <1>5, <2>1, CopiesKept DEF ChangesAccess
<1>7. \A r \in mms, k \in UserPmds :
        /\ pgd'[r][k] = IF r = p /\ k = i THEN e ELSE pgd[r][k]
        /\ pgd'[r][k + 1] = IF r = p /\ k = i THEN e ELSE pgd[r][k + 1]
  BY ProcessEntries
<1>8. ProcessPmds'
  <2>1. ASSUME NEW r \in mms, r # p
        PROVE  /\ KeptIn(pgd'[r], UserPmds)
               /\ \A j \in Indexes :
                    pgd'[r][j].type = "pte" =>
                      \/ \E k \in UserPmds : j \in {k, k + 1}
                      \/ pgd'[r][j] = flpt'[j]
    BY <2>1, ProcessPmdsKept DEF Puts, Works
  <2>2. KeptIn(pgd'[p], UserPmds)
    <3> SUFFICES ASSUME NEW k \in UserPmds
                 PROVE  /\ pgd'[p][k + 1] = pgd'[p][k]
                        /\ pgd'[p][k] = Fault \/ \E q \in TablePages : pgd'[p][k] = Pte(q)
      BY DEF KeptIn
    <3>1. CASE k = i
      <4>1. e = Fault \/ \E q \in TablePages : e = Pte(q)
        BY <3>1, PairsApart DEF PairOf
      <4> QED BY <1>7, <3>1, <4>1
    <3>2. CASE k # i
      BY <1>7, <3>2 DEF Works, ProcessPmds, KeptIn
    <3> QED BY <3>1, <3>2
  <2>3. ASSUME NEW j \in Indexes, pgd'[p][j].type = "pte"
        PROVE  \/ \E k \in UserPmds : j \in {k, k + 1}
               \/ pgd'[p][j] = flpt'[j]
    <3>1. CASE j \notin {i, i + 1}
      <4>1. pgd'[p][j] = pgd[p][j]
        BY <3>1 DEF Puts
      <4> QED BY <1>4, <2>3, <4>1 DEF Works, ProcessPmds
    <3>2. CASE j \in {i, i + 1} /\ i \in UserPmds
      BY <3>2
    <3>3. CASE j \in {i, i + 1} /\ i \in KernelPmds /\ e = flpt[i]
      <4>1. pgd'[p][j] = flpt[i]
        BY <3>3 DEF Puts
      <4>2. flpt[j] = flpt[i]
        BY <3>3 DEF Works, MasterPmds, KeptIn
      <4> QED BY <1>4, <2>3, <4>1, <4>2
    <3> QED BY <3>1, <3>2, <3>3 DEF PairOf
  <2> QED BY <1>1, <2>1, <2>2, <2>3 DEF ProcessPmds
<1>9. \A q : q \in PtePages' <=> Refers(q)'
  BY <1>1, <1>2, <1>3, <1>8, ReferredAfter
<1> QED BY <1>1, <1>2, <1>3, <1>5, <1>6, <1>8, <1>9

(* The pages of level 2 tables after an update, given that of its pair.    *)
LEMMA ProcessStep ==
  ASSUME MmTypes, MasterMaps, CopiesMap, Works, mm_status = "running",
         NEW page \in GuestPages, NEW readonly \in BOOLEAN,
         ChangesAccess({page}, readonly), MasterKept,
         NEW p \in mms, NEW i, NEW e, PairOf(i, e), Puts(p, i, e),
         UNCHANGED <<ttb, mm_status>>,
         \A r \in Tables : page \notin PgdSpan(r),
         \A q : Refers(q)' <=> IF readonly THEN Refers(q) \/ q = page
                               ELSE Refers(q) /\ q # page,
         PtesApart'
  PROVE  MmInv'
<1>1. /\ MmTypes' /\ MasterMaps' /\ CopiesMap' /\ MasterPmds' /\ ProcessPmds'
      /\ Tables' = Tables /\ Swapper \notin mms' /\ mms' = mms
      /\ \A q : q \in PtePages' <=> Refers(q)'
  BY ProcessTables DEF Puts
<1>2. \A q : q \in PtePages <=> Refers(q)
  BY PtePagesReferred DEF Works, TablesApart
<1>3. InUse' = IF readonly THEN InUse \cup {page} ELSE InUse \ {page}
  <2>1. \A q : q \in InUse' <=> (\E r \in Tables : q \in PgdSpan(r)) \/ Refers(q)'
    BY <1>1, InUsePagesAfter
  <2>2. \A q : q \in InUse <=> (\E r \in Tables : q \in PgdSpan(r)) \/ Refers(q)
    BY <1>2, InUsePages
  <2> QED BY <2>1, <2>2
<1>4. InUseProtected'
  BY <1>3, InUseFollows DEF Works
<1>5. TablesApart'
  <2>1. \A r \in Tables : PgdSpan(r) \cap PtePages' = {}
    BY <1>1, <1>2 DEF Works, TablesApart
  <2> QED BY <1>1, <2>1 DEF Works, TablesApart
<1>6. ttb' \in Tables' \cup Mistakes
  BY <1>1 DEF Works
<1>7. Works'
  BY <1>1, <1>4, <1>5, <1>6 DEF Works
<1>8. mm_status' = "running"
  OBVIOUS
<1> QED BY <1>1, <1>7, <1>8, WorksInv

(* A page that Linux takes is in no use.                                   *)
LEMMA FreePageUnused ==
  ASSUME MmTypes, Works, NEW page \in FreePages
  PROVE  /\ page \in GuestPages /\ page \in TablePages /\ ~Refers(page)
         /\ flpt[LinearIndex(page)].type # "fault"
         /\ \A r \in Tables : page \notin PgdSpan(r)
<1>1. page \in TablePages /\ page \notin InUse /\ flpt[LinearIndex(page)].type # "fault"
  BY DEF FreePages, Mapped
<1>2. page \notin PtePages /\ \A r \in Tables : page \notin PgdSpan(r)
  BY <1>1, InUsePages
<1>3. ~Refers(page)
  BY <1>2, PtePagesReferred DEF Works, TablesApart
<1> QED BY <1>1, <1>2, <1>3, LinuxAssumption

(* A page of level 2 tables in use is not one of a level 1 table.          *)
LEMMA ReferredPage ==
  ASSUME MmTypes, Works, NEW page, Refers(page)
  PROVE  /\ page \in GuestPages /\ flpt[LinearIndex(page)].type = "coarse"
         /\ \A r \in Tables : page \notin PgdSpan(r)
<1>1. page \in PtePages
  BY PtePagesReferred DEF Works, TablesApart
<1>2. page \in InUse
  BY <1>1, InUsePages
<1>3. \A r \in Tables : page \notin PgdSpan(r)
  BY <1>1 DEF Works, TablesApart
<1> QED BY <1>2, <1>3, UsedIsCoarse

(* What SET_PMD on the table of a process has done, where it went through. *)
LEMMA SetPmdOfProcess ==
  ASSUME MmTypes, MasterMaps, Works, NEW page \in GuestPages, NEW p \in mms,
         NEW i \in UserPmds \cup KernelPmds, NEW e \in Entry, NEW readonly \in BOOLEAN,
         flpt[LinearIndex(page)].type # "fault", ~OutOfTables(LinearIndex(page)),
         SetAccess(LinearIndex(page), {Offset(page)}, readonly),
         PutPmd(p, i, SplitSection(LinearIndex(page)), e, e)
  PROVE  ChangesAccess({page}, readonly) /\ MasterKept /\ Puts(p, i, e)
<1>1. p # Swapper /\ i \in Indexes /\ i + 1 \in Indexes
  BY PmdPositions DEF Works, TablesApart
<1>2. /\ flpt' = SplitSection(LinearIndex(page))
      /\ pgd' = [pgd EXCEPT ![p][i] = e, ![p][i + 1] = e]
  BY <1>1 DEF PutPmd
<1>3. Puts(p, i, e)
  BY <1>1, <1>2, PutsPair
<1>4. MasterKept
  BY <1>2, SplitKeeps DEF MasterKept
<1>5. ChangesAccess({page}, readonly)
  <2>1. {Offset(page)} = {Offset(q) : q \in {page}}
    OBVIOUS
  <2>2. SetAccess(LinearIndex(page), {Offset(q) : q \in {page}}, readonly)
    BY <2>1
  <2>3. /\ {page} \in SUBSET GuestPages /\ \A q \in {page} : MB(q) = MB(page)
        /\ \A m \in Lowmem :
             flpt'[PAGE_OFFSET + m] = SplitSection(LinearIndex(page))[PAGE_OFFSET + m]
    BY <1>2
  <2> QED BY <2>2, <2>3, AccessChange
<1> QED BY <1>3, <1>4, <1>5

(* SET_PMD with a new page in a process: nothing refers to it yet.         *)
LEMMA MapUserStep ==
  ASSUME MmInv, NEW p \in mms, NEW i \in UserPmds, NEW page \in FreePages,
         pgd[p][i] = Fault, SetPmd(p, i, page)
  PROVE  MmInv'
<1> DEFINE v == LinearIndex(page)
           e == Pte(page)
<1>1. mm_status = "running" /\ MmTypes /\ MasterMaps /\ CopiesMap /\ Works
  BY DEF MmInv, SetPmd
<1>2. /\ page \in GuestPages /\ page \in TablePages /\ ~Refers(page) /\ flpt[v].type # "fault"
      /\ \A r \in Tables : page \notin PgdSpan(r)
  BY <1>1, FreePageUnused
<1>3. p \in GuestPages /\ BelowHypervisor(p)
  BY <1>1, GuestIsBelow DEF MmTypes
<1>4. CASE OutOfTables(v)
  <2>1. LoseMegabyte(v)
    BY <1>2, <1>3, <1>4 DEF SetPmd
  <2> QED BY <1>2, <1>4, <2>1, LostStep
<1>5. CASE ~OutOfTables(v)
  <2>1. /\ SetAccess(v, {Offset(page)}, TRUE) /\ PutPmd(p, i, SplitSection(v), e, e)
        /\ UNCHANGED <<ttb, mm_status>>
    BY <1>2, <1>3, <1>5 DEF SetPmd
  <2>2. e \in Entry /\ PairOf(i, e)
    BY <1>2, PageInGuest DEF Entry, PairOf
  <2>3. ChangesAccess({page}, TRUE) /\ MasterKept /\ Puts(p, i, e)
    BY <1>1, <1>2, <1>5, <2>1, <2>2, SetPmdOfProcess
  <2>4. /\ mms' = mms
        /\ \A k \in KernelPmds : flpt'[k] = flpt[k]
        /\ \A r \in mms, k \in UserPmds :
             pgd'[r][k] = IF r = p /\ k = i THEN e ELSE pgd[r][k]
    BY <1>1, <2>2, <2>3, ProcessEntries
  <2> HIDE DEF e
  <2>5. /\ e # Fault /\ \A q : e = Pte(q) <=> q = page
        /\ \A q : Fault # Pte(q)
    BY Forms DEF e
  <2>6. \A q : Refers(q)' <=> Refers(q) \/ q = page
    BY <2>4, <2>5 DEF Refers
  <2>7. PtesApart'
    <3>1. /\ \A r \in mms, k \in UserPmds : pgd[r][k] # e
          /\ \A k \in KernelPmds : flpt[k] # e
      BY <1>2 DEF Refers, e
    <3>2. /\ \A r, s \in mms, j, k \in UserPmds :
               pgd'[r][j] # Fault /\ pgd'[r][j] = pgd'[s][k] => r = s /\ j = k
      BY <1>1, <2>4, <3>1 DEF Works, PtesApart
    <3>3. \A r \in mms, j \in UserPmds, k \in KernelPmds :
            pgd'[r][j] # Fault => pgd'[r][j] # flpt'[k]
      BY <1>1, <2>4, <3>1 DEF Works, PtesApart
    <3> QED BY <2>4, <3>2, <3>3 DEF PtesApart
  <2> QED BY <1>1, <1>2, <2>1, <2>2, <2>3, <2>6, <2>7, ProcessStep
<1> QED BY <1>4, <1>5

(* SET_PMD with a page of the kernel: it is read only already.             *)
LEMMA CopyStep ==
  ASSUME MmInv, NEW p \in mms, NEW i \in KernelPmds, flpt[i] # Fault,
         SetPmd(p, i, flpt[i].at)
  PROVE  MmInv'
<1> DEFINE page == flpt[i].at
           v == LinearIndex(page)
           e == Pte(page)
<1>1. mm_status = "running" /\ MmTypes /\ MasterMaps /\ CopiesMap /\ Works
  BY DEF MmInv, SetPmd
<1>2. flpt[i] = e
  <2>1. PICK q \in TablePages : flpt[i] = Pte(q)
    BY <1>1 DEF Works, MasterPmds, KeptIn
  <2> QED BY <2>1, Forms
<1>3. Refers(page)
  BY <1>2 DEF Refers
<1> HIDE DEF page
<1>4. /\ page \in GuestPages /\ flpt[v].type = "coarse"
      /\ \A r \in Tables : page \notin PgdSpan(r)
  BY <1>1, <1>3, ReferredPage
<1>5. /\ p \in GuestPages /\ BelowHypervisor(p)
      /\ ~OutOfTables(v) /\ flpt[v].type # "fault"
  BY <1>1, <1>4, GuestIsBelow DEF MmTypes, OutOfTables, IsSection
<1>6. SetPmd(p, i, page)
  BY DEF page
<1>7. /\ SetAccess(v, {Offset(page)}, TRUE) /\ PutPmd(p, i, SplitSection(v), e, e)
      /\ UNCHANGED <<ttb, mm_status>>
  BY <1>4, <1>5, <1>6 DEF SetPmd
<1>8. e \in Entry /\ PairOf(i, e)
  BY <1>2, <1>4, PageInGuest DEF Entry, PairOf
<1>9. ChangesAccess({page}, TRUE) /\ MasterKept /\ Puts(p, i, e)
  BY <1>1, <1>4, <1>5, <1>7, <1>8, SetPmdOfProcess
<1>10. /\ mms' = mms
       /\ \A k \in KernelPmds : flpt'[k] = flpt[k]
       /\ \A r \in mms, k \in UserPmds :
            pgd'[r][k] = IF r = p /\ k = i THEN e ELSE pgd[r][k]
  BY <1>1, <1>8, <1>9, ProcessEntries
<1> HIDE DEF e
<1>11. \A r \in mms, k \in UserPmds : pgd'[r][k] = pgd[r][k]
  BY <1>10, PairsApart
<1>12. \A q : Refers(q)' <=> Refers(q) \/ q = page
  BY <1>3, <1>10, <1>11 DEF Refers
<1>13. PtesApart'
  BY <1>1, <1>10, <1>11 DEF Works, PtesApart
<1> QED BY <1>1, <1>4, <1>7, <1>8, <1>9, <1>12, <1>13, ProcessStep

(* SET_PMD with 0: the page was referred to by this pair alone, and gets   *)
(* writable as it leaves use. No section is split, so no table is lost.    *)
LEMMA UnmapStep ==
  ASSUME MmInv, NEW p \in mms, NEW i \in UserPmds, pgd[p][i] # Fault,
         ClearPmd(p, i)
  PROVE  MmInv'
<1> DEFINE page == pgd[p][i].at
           v == LinearIndex(page)
<1>1. mm_status = "running" /\ MmTypes /\ MasterMaps /\ CopiesMap /\ Works
  BY DEF MmInv, ClearPmd
<1>2. pgd[p][i] = Pte(page) /\ pgd[p][i].type # "fault"
  <2>1. PICK q \in TablePages : pgd[p][i] = Pte(q)
    BY <1>1 DEF Works, ProcessPmds, KeptIn
  <2> QED BY <2>1, Forms
<1>3. Refers(page)
  BY <1>2 DEF Refers
<1>4. p \in GuestPages /\ BelowHypervisor(p) /\ Entries(p) = pgd[p]
  BY <1>1, GuestIsBelow DEF Works, TablesApart, Entries, MmTypes
<1> HIDE DEF page
<1>5. /\ page \in GuestPages /\ flpt[v].type = "coarse"
      /\ \A r \in Tables : page \notin PgdSpan(r)
  BY <1>1, <1>3, ReferredPage
<1>6. ~OutOfTables(v) /\ flpt[v].type # "fault"
  BY <1>5 DEF OutOfTables, IsSection
<1>7. /\ SetAccess(v, {Offset(page)}, FALSE) /\ PutPmd(p, i, SplitSection(v), Fault, Fault)
      /\ UNCHANGED <<ttb, mm_status>>
  BY <1>2, <1>4, <1>6 DEF ClearPmd, page
<1>8. Fault \in Entry /\ PairOf(i, Fault)
  BY DEF Entry, PairOf
<1>9. ChangesAccess({page}, FALSE) /\ MasterKept /\ Puts(p, i, Fault)
  BY <1>1, <1>5, <1>6, <1>7, <1>8, SetPmdOfProcess
<1>10. /\ mms' = mms
       /\ \A k \in KernelPmds : flpt'[k] = flpt[k]
       /\ \A r \in mms, k \in UserPmds :
            pgd'[r][k] = IF r = p /\ k = i THEN Fault ELSE pgd[r][k]
  BY <1>1, <1>8, <1>9, ProcessEntries
<1>11. /\ \A r \in mms, k \in UserPmds : pgd[r][k] = Pte(page) <=> r = p /\ k = i
       /\ \A k \in KernelPmds : flpt[k] # Pte(page)
  BY <1>1, <1>2 DEF Works, PtesApart
<1>12. \A q : Refers(q)' <=> Refers(q) /\ q # page
  <2> TAKE q
  <2>1. Fault # Pte(q) /\ (Pte(q) = Pte(page) => q = page)
    BY Forms
  <2> QED BY <1>2, <1>10, <1>11, <2>1 DEF Refers
<1>13. PtesApart'
  BY <1>1, <1>10 DEF Works, PtesApart
<1> QED BY <1>1, <1>5, <1>7, <1>8, <1>9, <1>12, <1>13, ProcessStep

-----------------------------------------------------------------------------
(* SET_PMD on the swapper table, which is the master table.                *)
LEMMA MapKernelStep ==
  ASSUME MmInv, NEW i \in KernelPmds, NEW page \in FreePages,
         flpt[i] = Fault, SetPmd(Swapper, i, page)
  PROVE  MmInv'
<1> DEFINE v == LinearIndex(page)
           e == Pte(page)
<1>1. mm_status = "running" /\ MmTypes /\ MasterMaps /\ CopiesMap /\ Works
  BY DEF MmInv, SetPmd
<1>2. /\ page \in GuestPages /\ page \in TablePages /\ ~Refers(page) /\ flpt[v].type # "fault"
      /\ \A r \in Tables : page \notin PgdSpan(r)
  BY <1>1, FreePageUnused
<1>3. Swapper \in GuestPages /\ BelowHypervisor(Swapper)
  <2>1. Swapper \in GuestPages
    BY SwapperSpan, Sizes DEF PgdSpan
  <2> QED BY <2>1, GuestIsBelow
<1>4. CASE OutOfTables(v)
  <2>1. LoseMegabyte(v)
    BY <1>2, <1>3, <1>4 DEF SetPmd
  <2> QED BY <1>2, <1>4, <2>1, LostStep
<1>5. CASE ~OutOfTables(v)
  <2> DEFINE f == SplitSection(v)
  <2>1. /\ SetAccess(v, {Offset(page)}, TRUE)
        /\ flpt' = [f EXCEPT ![i] = e, ![i + 1] = e]
        /\ UNCHANGED <<pgd, ttb, mm_status>>
    BY <1>2, <1>3, <1>5 DEF SetPmd, PutPmd
  <2>2. i \in Indexes /\ i + 1 \in Indexes /\ e \in Entry
    BY <1>2, PmdPositions, PageInGuest DEF Entry
  <2>3. /\ f \in [Indexes -> Entry]
        /\ \A j \in Indexes :
             \/ f[j] = flpt[j]
             \/ /\ j < PAGE_OFFSET + GuestSize /\ j >= PAGE_OFFSET
                /\ f[j].type # "pte"
    BY <1>1, <1>2, SplitKeeps
  <2> HIDE DEF f
  <2>4. /\ flpt' \in [Indexes -> Entry]
        /\ flpt'[i] = e /\ flpt'[i + 1] = e
        /\ \A j \in Indexes : j \notin {i, i + 1} => flpt'[j] = f[j]
    BY <2>1, <2>2, <2>3
  <2>5. ChangesAccess({page}, TRUE)
    <3>1. {Offset(page)} = {Offset(q) : q \in {page}}
      OBVIOUS
    <3>2. SetAccess(v, {Offset(q) : q \in {page}}, TRUE)
      BY <2>1, <3>1
    <3>3. \A m \in Lowmem : flpt'[PAGE_OFFSET + m] = SplitSection(v)[PAGE_OFFSET + m]
      <4> TAKE m \in Lowmem
      <4>1. PAGE_OFFSET + m \in Indexes /\ PAGE_OFFSET + m \notin {i, i + 1}
        BY Positions, PairsApart DEF Lowmem
      <4> QED BY <2>4, <4>1 DEF f
    <3>4. {page} \in SUBSET GuestPages /\ \A q \in {page} : MB(q) = MB(page)
      BY <1>2
    <3> QED BY <1>1, <1>2, <1>5, <3>2, <3>3, <3>4, AccessChange
  <2>6. mms' = mms /\ Tables' = Tables /\ pgd' = pgd
    BY <2>1 DEF mms, Tables
  <2>7. MmTypes'
    BY <1>1, <2>1, <2>4, <2>5, <2>6 DEF MmTypes, ChangesAccess
  <2>8. MasterMaps' /\ CopiesMap'
    BY <1>1, <2>5, <2>6, CopiesKept DEF ChangesAccess
  <2>9. \A k \in KernelPmds :
          /\ flpt'[k] = IF k = i THEN e ELSE flpt[k]
          /\ flpt'[k + 1] = IF k = i THEN e ELSE flpt[k + 1]
    <3> TAKE k \in KernelPmds
    <3>1. k \in Indexes /\ k + 1 \in Indexes
      BY PmdPositions
    <3>2. f[k] = flpt[k] /\ f[k + 1] = flpt[k + 1]
      <4>1. ~(k < PAGE_OFFSET + GuestSize) /\ ~(k + 1 < PAGE_OFFSET + GuestSize)
        BY LayoutAssumption, LinuxAssumption
      <4> QED BY <2>3, <3>1, <4>1
    <3>3. k # i => k \notin {i, i + 1} /\ k + 1 \notin {i, i + 1}
      BY PairsApart
    <3> QED BY <2>4, <3>1, <3>2, <3>3
  <2>10. \A j \in Indexes : flpt[j].type = "pte" => flpt'[j] = flpt[j]
    <3> SUFFICES ASSUME NEW j \in Indexes, flpt[j].type = "pte" PROVE flpt'[j] = flpt[j]
      OBVIOUS
    <3>1. PICK k \in KernelPmds : j \in {k, k + 1}
      BY <1>1 DEF Works, MasterPmds, PtesIn
    <3>2. flpt[k].type = "pte"
      BY <1>1, <3>1 DEF Works, MasterPmds, KeptIn
    <3>3. k # i
      BY <3>2, Forms
    <3> QED BY <2>9, <3>1, <3>3
  <2>11. MasterPmds'
    <3>1. KeptIn(flpt', KernelPmds)
      BY <1>1, <1>2, <2>9 DEF Works, MasterPmds, KeptIn
    <3>2. PtesIn(flpt', KernelPmds)
      <4> SUFFICES ASSUME NEW j \in Indexes, flpt'[j].type = "pte"
                   PROVE  \E k \in KernelPmds : j \in {k, k + 1}
        BY DEF PtesIn
      <4>1. CASE j \in {i, i + 1}
        BY <4>1
      <4>2. CASE j \notin {i, i + 1}
        <5>1. f[j].type = "pte"
          BY <2>4, <4>2
        <5>2. flpt[j].type = "pte"
          BY <2>3, <5>1
        <5> QED BY <1>1, <5>2 DEF Works, MasterPmds, PtesIn
      <4> QED BY <4>1, <4>2
    <3>3. NoTableIn(flpt')
      <4> SUFFICES ASSUME NEW j \in Between PROVE flpt'[j].type \in {"fault", "pte"}
        BY DEF NoTableIn
      <4>1. j \in Indexes /\ ~(j < PAGE_OFFSET + GuestSize)
        BY LayoutAssumption DEF Between, Indexes
      <4>2. CASE j \in {i, i + 1}
        BY <2>4, <4>2, Forms
      <4>3. CASE j \notin {i, i + 1}
        <5>1. flpt'[j] = flpt[j]
          BY <2>3, <2>4, <4>1, <4>3
        <5> QED BY <1>1, <5>1 DEF Works, MasterPmds, NoTableIn
      <4> QED BY <4>2, <4>3
    <3> QED BY <3>1, <3>2, <3>3 DEF MasterPmds
  <2>12. ProcessPmds'
    BY <1>1, <2>6, <2>10 DEF Works, ProcessPmds
  <2> HIDE DEF e
  <2>13. /\ e # Fault /\ \A q : e = Pte(q) <=> q = page
         /\ \A q : Fault # Pte(q)
    BY Forms DEF e
  <2>14. \A q : Refers(q)' <=> Refers(q) \/ q = page
    BY <2>6, <2>9, <2>13 DEF Refers
  <2>15. PtesApart'
    <3>1. \A r \in mms, k \in UserPmds : pgd[r][k] # e
      BY <1>2 DEF Refers, e
    <3> QED BY <1>1, <2>6, <2>9, <3>1 DEF Works, PtesApart
  <2>16. /\ \A q : q \in PtePages' <=> Refers(q)'
         /\ \A q : q \in PtePages <=> Refers(q)
    BY <1>1, <2>6, <2>7, <2>11, <2>12, ReferredAfter, PtePagesReferred
       DEF Works, TablesApart
  <2>17. InUse' = InUse \cup {page}
    BY <2>6, <2>14, <2>16, InUsePages, InUsePagesAfter
  <2>18. InUseProtected'
    <3> DEFINE S == {page}
    <3>1. InUse' = IF TRUE THEN InUse \cup S ELSE InUse \ S
      BY <2>17
    <3>2. S \subseteq GuestPages /\ InUseProtected /\ ChangesAccess(S, TRUE)
      BY <1>1, <1>2, <2>5 DEF Works
    <3> HIDE DEF S, v
    <3> QED BY <3>1, <3>2, InUseFollows
  <2>19. TablesApart'
    <3>1. \A r \in Tables : PgdSpan(r) \cap PtePages' = {}
      BY <1>1, <1>2, <2>14, <2>16 DEF Works, TablesApart
    <3> QED BY <1>1, <2>6, <3>1 DEF Works, TablesApart
  <2>20. Works'
    BY <1>1, <2>1, <2>6, <2>11, <2>12, <2>15, <2>18, <2>19 DEF Works
  <2> QED BY <1>1, <2>1, <2>7, <2>8, <2>20, WorksInv
<1> QED BY <1>4, <1>5

(* The MMU walks another table, of the guest or not.                       *)
LEMMA WalksStep ==
  ASSUME MmInv, mm_status = "running", NEW p \in Tables \cup Mistakes, ttb' = p,
         UNCHANGED <<flpt, slpt, l2_index_p, pgd, mm_status>>
  PROVE  MmInv'
<1>1. MmTypes /\ Works
  BY DEF MmInv
<1>4. ttb' = p /\ UNCHANGED <<flpt, slpt, l2_index_p, pgd, mm_status>>
  OBVIOUS
<1>5. mms' = mms /\ Tables' = Tables /\ PtePages' = PtePages /\ InUse' = InUse
  BY <1>4 DEF mms, Tables, PtePages, InUse, Entries
<1>6. MmTypes' /\ MasterMaps' /\ CopiesMap'
  BY <1>4, <1>5 DEF MmInv, MmTypes, MasterMaps, Maps, CopiesMap
<1>7. MasterPmds' /\ ProcessPmds' /\ TablesApart' /\ PtesApart'
  BY <1>1, <1>4, <1>5
     DEF Works, MasterPmds, ProcessPmds, KeptIn, PtesIn, NoTableIn, TablesApart,
           PtesApart
<1>8. InUseProtected'
  BY <1>1, <1>4, <1>5 DEF Works, InUseProtected, Protected
<1>9. Works' /\ mm_status' = "running"
  BY <1>1, <1>4, <1>5, <1>7, <1>8 DEF Works
<1> QED BY <1>6, <1>9, WorksInv

(* SWITCH_MM to a table in use goes through; to one outside the guest's    *)
(* memory it may.                                                          *)
LEMMA SwitchStep ==
  ASSUME MmInv, NEW p \in Tables, SwitchMm(p)
  PROVE  MmInv'
<1>1. mm_status = "running" /\ MmTypes /\ Works
  BY DEF MmInv, SwitchMm
<1>2. p \in InUse
  BY <1>1, TableIsUsed
<1>3. p \in GuestPages /\ Protected(p) /\ LINUX_VA(p) = LinearIndex(p)
  BY <1>1, <1>2, UsedIsCoarse, GuestIsBelow
<1>4. ttb' = p /\ UNCHANGED <<flpt, slpt, l2_index_p, pgd, mm_status>>
  BY <1>3 DEF SwitchMm, Protected
<1> QED BY <1>1, <1>4, WalksStep

LEMMA SwitchMistaken ==
  ASSUME MmInv, NEW p \in Mistakes, SwitchMm(p)
  PROVE  MmInv'
<1>1. mm_status = "running"
  BY DEF SwitchMm
<1>2. \/ LosesWay(p) \/ Panic
      \/ ttb' = p /\ UNCHANGED <<flpt, slpt, l2_index_p, pgd, mm_status>>
  BY DEF SwitchMm
<1> QED BY <1>1, <1>2, AstrayStep, PanicStep, WalksStep

(* Before the first process the master table alone maps memory.            *)
LEMMA EarlyStep ==
  ASSUME MmInv, mm_status \in {"boot", "running"}, mms = {}, MasterKept,
         MasterMaps', UNCHANGED <<slpt, l2_index_p, pgd, ttb>>,
         mm_status' = "running",
         \A q \in GuestPages : Protected(q)' <=> Protected(q)
  PROVE  MmInv'
<1>1. mms' = mms /\ Tables' = Tables
  BY DEF mms, Tables
<1>2. MmTypes /\ Works
  BY DEF MmInv
<1>3. MmTypes' /\ CopiesMap'
  BY <1>1, <1>2 DEF MmTypes, MasterKept, CopiesMap
<1>4. MasterPmds' /\ \A k \in KernelPmds : flpt'[k] = flpt[k]
  BY <1>2, MasterPmdsKept DEF Works
<1>5. ProcessPmds' /\ PtesApart'
  BY <1>1 DEF ProcessPmds, PtesApart
<1>6. PtePages' = PtePages
  <2>1. \A q : Refers(q)' <=> Refers(q)
    BY <1>1, <1>4 DEF Refers
  <2>2. Swapper \notin mms /\ Swapper \notin mms'
    BY <1>1
  <2>3. \A q : q \in PtePages' <=> Refers(q)'
    BY <1>3, <1>4, <1>5, <2>2, ReferredAfter
  <2>4. \A q : q \in PtePages <=> Refers(q)
    BY <1>2, <2>2, PtePagesReferred DEF Works
  <2> QED BY <2>1, <2>3, <2>4
<1>7. InUse' = InUse
  BY <1>1, <1>6, InUsePages, InUsePagesAfter
<1>8. InUseProtected' /\ TablesApart' /\ ttb' \in Tables' \cup Mistakes
  BY <1>1, <1>2, <1>6, <1>7 DEF Works, InUseProtected, TablesApart
<1> QED BY <1>3, <1>4, <1>5, <1>8, WorksInv DEF Works

(* The wrong index of clear_linux_mappings is below the linear map.        *)
LEMMA ClearedBelow == \A i \in ClearedEntries : i < PAGE_OFFSET
<1> SUFFICES ASSUME NEW a \in Nat, a < VMALLOC_END \/ a < PAGE_OFFSET
             PROVE  a \div 2 < PAGE_OFFSET /\ a \div 2 + 1 < PAGE_OFFSET
  BY LayoutAssumption DEF ClearedEntries, Steps, ClearedIndex
<1>1. a + 1 <= 2 * (PAGE_OFFSET - 1)
  BY LayoutAssumption
<1>2. PAGE_OFFSET \in Nat
  BY Sizes
<1> QED BY <1>1, <1>2

(* GUEST_INIT clears no entry of the linear map.                           *)
LEMMA GuestInitStep == MmInv /\ ClearLinuxMappings => MmInv'
<1> SUFFICES ASSUME MmInv, ClearLinuxMappings PROVE MmInv'
  OBVIOUS
<1>1. /\ mm_status = "boot" /\ mm_status' = "running" /\ mms = {}
      /\ UNCHANGED <<slpt, l2_index_p, pgd, ttb>>
      /\ flpt' = [i \in Indexes |-> IF i \in ClearedEntries THEN Fault ELSE flpt[i]]
      /\ MmTypes /\ MasterMaps
  BY DEF MmInv, ClearLinuxMappings
<1>2. Fault \in Entry /\ Fault.type # "pte"
  BY Forms DEF Entry
<1>3. MasterKept
  <2>1. flpt' \in [Indexes -> Entry]
    BY <1>1, <1>2 DEF MmTypes
  <2>2. \A j \in Indexes : flpt'[j] = flpt[j] \/ (j < PAGE_OFFSET /\ flpt'[j].type # "pte")
    BY <1>1, <1>2, ClearedBelow
  <2>3. \A j \in Indexes : j < PAGE_OFFSET => j < PAGE_OFFSET + GuestSize
    BY LayoutAssumption DEF Indexes
  <2> QED BY <2>1, <2>2, <2>3 DEF MasterKept
<1>4. \A m \in Lowmem : flpt'[PAGE_OFFSET + m] = flpt[PAGE_OFFSET + m]
  <2> TAKE m \in Lowmem
  <2>1. PAGE_OFFSET + m \in Indexes /\ ~(PAGE_OFFSET + m < PAGE_OFFSET)
    BY Positions, LayoutAssumption DEF Lowmem
  <2> QED BY <1>1, <2>1, ClearedBelow
<1>5. MasterMaps'
  BY <1>1, <1>4 DEF MasterMaps, Maps
<1>6. \A q \in GuestPages : Protected(q)' <=> Protected(q)
  <2> TAKE q \in GuestPages
  <2>1. flpt'[LinearIndex(q)] = flpt[LinearIndex(q)]
    BY <1>4, IndexOfPage
  <2> QED BY <1>1, <2>1 DEF Protected
<1> QED BY <1>1, <1>3, <1>5, <1>6, EarlyStep

(* CREATE_SECTION above the hypervisor goes through, and maps nothing in   *)
(* the guest's entries.                                                    *)
LEMMA HighSectionStep ==
  ASSUME MmInv, mms = {}, NEW v \in Indexes, v >= HAL_VIRT_START,
         CreateSection(v, 0)
  PROVE  MmInv'
<1>1. CASE Panic
  BY <1>1, PanicStep
<1>2. CASE ~Panic
  <2>1. v # PAGE_OFFSET /\ \A m \in Lowmem : v # PAGE_OFFSET + m
    BY LayoutAssumption DEF Lowmem, Indexes
  <2>2. /\ mm_status = "running" /\ UNCHANGED <<slpt, l2_index_p, pgd, ttb, mm_status>>
        /\ flpt' = [flpt EXCEPT ![v] = Section(0)]
    BY <1>2, <2>1 DEF CreateSection
  <2>3. Section(0) \in Entry /\ Section(0).type # "pte" /\ MmTypes /\ MasterMaps
    BY Forms DEF Entry, MmInv
  <2>4. /\ flpt'[v] = Section(0) /\ flpt' \in [Indexes -> Entry]
        /\ \A j \in Indexes : j # v => flpt'[j] = flpt[j]
    BY <2>2, <2>3 DEF MmTypes
  <2>5. MasterKept
    BY <2>3, <2>4 DEF MasterKept
  <2>6. \A m \in Lowmem : flpt'[PAGE_OFFSET + m] = flpt[PAGE_OFFSET + m]
    BY <2>1, <2>4, Positions DEF Lowmem
  <2>7. MasterMaps'
    BY <2>2, <2>3, <2>6 DEF MasterMaps, Maps
  <2>8. \A q \in GuestPages : Protected(q)' <=> Protected(q)
    <3> TAKE q \in GuestPages
    <3>1. flpt'[LinearIndex(q)] = flpt[LinearIndex(q)]
      BY <2>6, IndexOfPage
    <3> QED BY <2>2, <3>1 DEF Protected
  <2> QED BY <2>2, <2>5, <2>7, <2>8, EarlyStep
<1> QED BY <1>1, <1>2

(* CREATE_SECTION maps memory no table is in.                              *)
LEMMA MapLowmemStep == MmInv /\ MapLowmem => MmInv'
<1> SUFFICES ASSUME MmInv, MapLowmem PROVE MmInv'
  OBVIOUS
<1>1. /\ mms = {} /\ MmTypes /\ MasterMaps
      /\ HAL_VIRT_START \in Indexes /\ LastIndex \in Indexes
      /\ HAL_VIRT_START >= HAL_VIRT_START /\ LastIndex >= HAL_VIRT_START
  BY LayoutAssumption DEF MapLowmem, MmInv, Indexes
<1>2. ASSUME NEW m \in Lowmem, flpt[PAGE_OFFSET + m] = Fault \/ m = 0,
             CreateSection(PAGE_OFFSET + m, m)
      PROVE  MmInv'
  <2> DEFINE v == PAGE_OFFSET + m
  <2>1. /\ v \in Indexes /\ v < PAGE_OFFSET + GuestSize /\ m \in Nat /\ m < GuestSize
        /\ v < HAL_VIRT_START /\ (v = PAGE_OFFSET <=> m = 0)
    BY LayoutAssumption DEF Lowmem, Indexes
  <2>2. /\ mm_status = "running"
        /\ flpt' = IF v = PAGE_OFFSET THEN flpt ELSE [flpt EXCEPT ![v] = Section(m)]
        /\ UNCHANGED <<slpt, l2_index_p, pgd, ttb, mm_status>>
    <3>1. v \notin OfHypervisor /\ ~(m >= GuestSize)
      BY <2>1, Sizes, LayoutAssumption DEF Indexes, OfHypervisor
    <3>2. CreateSection(v, m)
      BY <1>2
    <3> HIDE DEF v
    <3> QED BY <3>1, <3>2 DEF CreateSection
  <2>3. Section(m) \in Entry /\ Section(m).type # "pte" /\ Section(m).type # "coarse"
    BY <2>1, Forms DEF Entry
  <2>4. CASE v = PAGE_OFFSET
    <3>1. flpt' = flpt
      BY <2>2, <2>4
    <3>2. MasterKept /\ MasterMaps'
      BY <1>1, <2>2, <3>1 DEF MasterKept, MasterMaps, Maps, MmTypes
    <3>3. \A q \in GuestPages : Protected(q)' <=> Protected(q)
      BY <2>2, <3>1 DEF Protected
    <3> QED BY <1>1, <2>2, <3>2, <3>3, EarlyStep
  <2>5. CASE v # PAGE_OFFSET
    <3>1. flpt' = [flpt EXCEPT ![v] = Section(m)] /\ flpt[v] = Fault
      BY <1>2, <2>1, <2>2, <2>5
    <3>2. flpt'[v] = Section(m) /\ \A j \in Indexes : j # v => flpt'[j] = flpt[j]
      BY <1>1, <2>1, <3>1 DEF MmTypes
    <3>3. flpt' \in [Indexes -> Entry]
      BY <1>1, <2>1, <2>3, <3>1 DEF MmTypes
    <3>4. MasterKept
      BY <2>1, <2>3, <3>2, <3>3 DEF MasterKept
    <3>5. MasterMaps'
      <4> SUFFICES ASSUME NEW k \in Lowmem PROVE Maps(flpt[PAGE_OFFSET + k], k)'
        BY DEF MasterMaps
      <4>1. CASE k = m
        BY <3>2, <4>1 DEF Maps
      <4>2. CASE k # m
        <5>1. PAGE_OFFSET + k \in Indexes /\ PAGE_OFFSET + k # v
          BY <2>1, <4>2, Positions, Sizes DEF Lowmem
        <5>2. flpt'[PAGE_OFFSET + k] = flpt[PAGE_OFFSET + k]
          BY <3>2, <5>1
        <5> QED BY <1>1, <2>2, <5>2 DEF MasterMaps, Maps
      <4> QED BY <4>1, <4>2
    <3>6. \A q \in GuestPages : Protected(q)' <=> Protected(q)
      <4> TAKE q \in GuestPages
      <4>1. CASE LinearIndex(q) = v
        BY <2>3, <3>1, <3>2, <4>1, Forms DEF Protected
      <4>2. CASE LinearIndex(q) # v
        BY <2>2, <3>2, <4>2, IndexOfPage DEF Protected
      <4> QED BY <4>1, <4>2
    <3> QED BY <1>1, <2>2, <3>4, <3>5, <3>6, EarlyStep
  <2> QED BY <2>4, <2>5
<1>3. ASSUME \/ CreateSection(PAGE_OFFSET, GuestSize)
             \/ CreateSection(HAL_VIRT_START, 0)
      PROVE  MmInv'
  <2>1. CASE CreateSection(PAGE_OFFSET, GuestSize)
    <3>1. Panic
      BY <2>1, Sizes DEF CreateSection
    <3> QED BY <3>1, PanicStep
  <2>2. CASE CreateSection(HAL_VIRT_START, 0)
    <3>1. CASE HAL_VIRT_START \in OfHypervisor
      BY <2>2, <3>1, PanicStep DEF CreateSection
    <3>2. CASE HAL_VIRT_START \notin OfHypervisor
      BY <1>1, <2>2, <3>2, HighSectionStep
    <3> QED BY <3>1, <3>2
  <2> QED BY <1>3, <2>1, <2>2
<1>4. ASSUME CreateSection(LastIndex, 0) PROVE MmInv'
  BY <1>1, <1>4, HighSectionStep
<1> QED BY <1>2, <1>3, <1>4 DEF MapLowmem, Lowmem

(* Handlers given a page outside the guest's memory: they refuse it, or    *)
(* follow an entry that is no table.                                       *)
LEMMA EntryOfMistake ==
  ASSUME MmInv, mm_status = "running", NEW p \in Mistakes, BelowHypervisor(p)
  PROVE  flpt[LinearIndex(p)].type \in {"fault", "pte"}
<1>1. p \in Nat /\ p \notin GuestPages
  BY LinuxAssumption
<1>2. MB(p) \in Nat /\ MB(p) >= GuestSize
  <2>1. MB(p) \in Nat /\ Offset(p) \in Nat /\ Offset(p) < MBPages
        /\ p = MBPages * MB(p) + Offset(p)
    BY <1>1, Splitting
  <2>2. p >= GuestSize * MBPages
    <3>1. GuestSize * MBPages \in Nat
      BY Sizes
    <3> QED BY <1>1, <3>1 DEF GuestPages
  <2> DEFINE m == MB(p)
  <2> HIDE DEF m
  <2>3. m + 1 <= GuestSize => MBPages * GuestSize >= MBPages * (m + 1)
    BY <2>1, Sizes, Scales DEF m
  <2>4. MBPages * (m + 1) = MBPages * m + MBPages
    BY <2>1, Sizes DEF m
  <2>5. m \in Nat /\ p = MBPages * m + Offset(p)
    BY <2>1 DEF m
  <2>6. ~(m + 1 <= GuestSize)
    BY <2>1, <2>2, <2>3, <2>4, <2>5, Sizes
  <2> QED BY <2>5, <2>6, Sizes DEF m
<1>3. LinearIndex(p) \in Between
  BY <1>2, LayoutAssumption DEF LinearIndex, BelowHypervisor, Between, Indexes
<1> QED BY <1>3 DEF MmInv, Works, MasterPmds, NoTableIn

LEMMA TableOfMistake ==
  ASSUME MmInv, mm_status = "running", NEW p \in Mistakes, TableBelow(p)
  PROVE  flpt[LinearIndex(p)].type \in {"fault", "pte"}
<1>1. p \in Nat /\ p + PgdPages - 1 \in Nat
  BY LinuxAssumption, Sizes
<1> DEFINE q == p + PgdPages - 1
<1>2. p <= q /\ q \in Nat
  BY <1>1, Sizes
<1> HIDE DEF q
<1>3. MB(p) <= MB(q)
  BY <1>1, <1>2, Sizes DEF MB
<1>4. BelowHypervisor(p)
  <2>1. BelowHypervisor(q)
    BY DEF TableBelow, q
  <2>2. MB(p) \in Nat /\ MB(q) \in Nat
    BY <1>1, <1>2, Splitting
  <2> QED BY <1>3, <2>1, <2>2, LayoutAssumption DEF BelowHypervisor, LinearIndex
<1> QED BY <1>4, EntryOfMistake

LEMMA MistakeStep ==
  ASSUME MmInv, NEW p \in Mistakes,
         \/ NewPgd(p) \/ FreePgd(p)
         \/ \E i, page : SetPmd(p, i, page)
         \/ \E i : ClearPmd(p, i)
  PROVE  MmInv'
<1>1. p \notin GuestPages
  BY LinuxAssumption
<1>2. CASE NewPgd(p)
  <2>1. mm_status = "running"
    BY <1>2 DEF NewPgd
  <2>2. TableBelow(p) => flpt[LinearIndex(p)].type \notin {"section", "coarse"}
    BY <2>1, TableOfMistake
  <2>3. Panic \/ LosesWay(p)
    BY <1>2, <2>2 DEF NewPgd
  <2> QED BY <2>3, PanicStep, AstrayStep
<1>3. CASE FreePgd(p)
  <2>1. mm_status = "running"
    BY <1>3 DEF FreePgd
  <2>2. TableBelow(p) => flpt[LinearIndex(p)].type # "coarse"
    BY <2>1, TableOfMistake
  <2>3. Panic \/ LosesWay(p)
    BY <1>3, <2>2 DEF FreePgd
  <2> QED BY <2>3, PanicStep, AstrayStep
<1>4. ASSUME NEW i, NEW page, SetPmd(p, i, page) PROVE MmInv'
  <2>1. Panic \/ LosesWay(p)
    BY <1>1, <1>4 DEF SetPmd
  <2> QED BY <2>1, PanicStep, AstrayStep
<1>5. ASSUME NEW i, ClearPmd(p, i) PROVE MmInv'
  <2>1. Panic \/ LosesWay(p)
    BY <1>1, <1>5 DEF ClearPmd
  <2> QED BY <2>1, PanicStep, AstrayStep
<1> QED BY <1>2, <1>3, <1>4, <1>5

LEMMA MistakenPageStep ==
  ASSUME MmInv, NEW p \in GuestPages, NEW i, NEW page \in Mistakes, SetPmd(p, i, page)
  PROVE  MmInv'
<1>1. page \notin GuestPages
  BY LinuxAssumption
<1>2. Panic
  BY <1>1 DEF SetPmd
<1> QED BY <1>2, PanicStep

(* Nothing changes.                                                        *)
LEMMA StayStep == MmInv /\ UNCHANGED ptVars => MmInv'
<1> SUFFICES ASSUME MmInv, UNCHANGED ptVars PROVE MmInv'
  OBVIOUS
<1>1. UNCHANGED <<flpt, slpt, l2_index_p, pgd, ttb, mm_status>>
  BY DEF ptVars
<1>2. mms' = mms /\ Tables' = Tables /\ PtePages' = PtePages /\ InUse' = InUse
  BY <1>1 DEF mms, Tables, PtePages, InUse, Entries
<1>3. MmTypes' /\ MasterMaps' /\ CopiesMap'
  BY <1>1, <1>2 DEF MmInv, MmTypes, MasterMaps, Maps, CopiesMap
<1>4. Works => Works'
  <2> SUFFICES ASSUME Works PROVE Works'
    OBVIOUS
  <2>1. MasterPmds' /\ ProcessPmds' /\ TablesApart' /\ PtesApart'
    BY <1>1, <1>2
       DEF Works, MasterPmds, ProcessPmds, KeptIn, PtesIn, NoTableIn, TablesApart,
           PtesApart
  <2>2. InUseProtected'
    BY <1>1, <1>2 DEF Works, InUseProtected, Protected
  <2> QED BY <1>1, <1>2, <2>1, <2>2 DEF Works
<1> QED BY <1>1, <1>2, <1>3, <1>4 DEF MmInv, WildOnlyOutOfTables

(* The invariant, over the steps of Linux.                                 *)
LEMMA NextInv == MmInv /\ [MmNext]_ptVars => MmInv'
<1> SUFFICES ASSUME MmInv, [MmNext]_ptVars PROVE MmInv'
  OBVIOUS
<1>1. CASE ClearLinuxMappings
  BY <1>1, GuestInitStep
<1>2. CASE MapLowmem
  BY <1>2, MapLowmemStep
<1>3. CASE NewMm
  <2>1. ASSUME NEW p \in FreeSpans, NewPgd(p) PROVE MmInv'
    BY <2>1, NewMmStep
  <2>2. ASSUME NEW p \in Mistakes, NewPgd(p) PROVE MmInv'
    BY <2>2, MistakeStep
  <2> QED BY <1>3, <2>1, <2>2 DEF NewMm
<1>4. CASE FreeMm
  <2>1. ASSUME NEW p \in mms \ {ttb}, \A i \in UserPmds : pgd[p][i] = Fault, FreePgd(p)
        PROVE  MmInv'
    BY <2>1, FreeMmStep
  <2>2. ASSUME NEW p \in Mistakes, FreePgd(p) PROVE MmInv'
    BY <2>2, MistakeStep
  <2> QED BY <1>4, <2>1, <2>2 DEF FreeMm
<1>5. CASE SwitchTo
  <2>1. ASSUME NEW p \in Tables, SwitchMm(p) PROVE MmInv'
    BY <2>1, SwitchStep
  <2>2. ASSUME NEW p \in Mistakes, SwitchMm(p) PROVE MmInv'
    BY <2>2, SwitchMistaken
  <2> QED BY <1>5, <2>1, <2>2 DEF SwitchTo, Tables
<1>6. CASE MapPmd
  <2>1. ASSUME NEW p \in mms, NEW i \in UserPmds, NEW page \in FreePages,
               pgd[p][i] = Fault, SetPmd(p, i, page)
        PROVE  MmInv'
    BY <2>1, MapUserStep
  <2>2. ASSUME NEW p \in mms, NEW i, NEW page \in Mistakes, SetPmd(p, i, page)
        PROVE  MmInv'
    BY <2>2, MistakenPageStep DEF MmInv, MmTypes
  <2>4. ASSUME NEW p \in Mistakes, NEW i, NEW page, SetPmd(p, i, page)
        PROVE  MmInv'
    BY <2>4, MistakeStep
  <2>3. ASSUME NEW i \in KernelPmds, NEW page \in FreePages, flpt[i] = Fault,
               SetPmd(Swapper, i, page)
        PROVE  MmInv'
    BY <2>3, MapKernelStep
  <2> QED BY <1>6, <2>1, <2>2, <2>3, <2>4 DEF MapPmd
<1>7. CASE CopyKernelPmd
  BY <1>7, CopyStep DEF CopyKernelPmd
<1>8. CASE UnmapPmd
  <2>1. ASSUME NEW p \in mms, NEW i \in UserPmds, pgd[p][i] # Fault, ClearPmd(p, i)
        PROVE  MmInv'
    BY <2>1, UnmapStep
  <2>2. ASSUME NEW p \in Mistakes, NEW i, ClearPmd(p, i) PROVE MmInv'
    BY <2>2, MistakeStep
  <2> QED BY <1>8, <2>1, <2>2 DEF UnmapPmd
<1>9. CASE Stopped \/ UNCHANGED ptVars
  BY <1>9, StayStep DEF Stopped
<1> QED BY <1>1, <1>2, <1>3, <1>4, <1>5, <1>6, <1>7, <1>8, <1>9 DEF MmNext

(* The invariant holds, for every layout, every number of level 2 tables,  *)
(* and whatever Linux does with its processes.                             *)
THEOREM MmInvariant == MmSpec => []MmInv
<1>1. PtInit => MmInv
  BY InitInv
<1>2. MmInv /\ [MmNext]_ptVars => MmInv'
  BY NextInv
<1> QED BY <1>1, <1>2, PTL DEF MmSpec

(* In the master table a page is read only exactly while it holds a page   *)
(* table: NEW_PGD, FREE_PGD and SET_PMD protect and release the right      *)
(* pages, shared entries included.                                         *)
THEOREM TablesAreReadOnly == MmSpec => []ReadOnlyExactlyTables
<1>1. MmInv => ReadOnlyExactlyTables
  BY InvProtection
<1> QED BY <1>1, MmInvariant, PTL

(* All pages of a table in the guest's memory that the MMU walks are read  *)
(* only, although SWITCH_MM tests only the first: also after a handler got *)
(* an address outside that memory, and let it through or not.              *)
THEOREM ActiveIsReadOnly == MmSpec => []ActiveTableProtected
<1>1. MmInv => ActiveTableProtected
  BY InvProtection
<1> QED BY <1>1, MmInvariant, PTL

(* Splitting sections never maps a megabyte to another's memory, in any    *)
(* table.                                                                  *)
THEOREM LinearMapCorrect == MmSpec => []LinearMapTrue
<1>1. MmInv => LinearMapTrue
  BY InvLinearMapTrue
<1> QED BY <1>1, MmInvariant, PTL

(* Given pages of the guest, no handler follows an entry that is no table, *)
(* nor unmaps a megabyte, unless pt_get_empty_l2 had given away its last   *)
(* table.                                                                  *)
THEOREM OnlyTablesRunOut == MmSpec => []WildOnlyOutOfTables
<1>1. MmInv => WildOnlyOutOfTables
  BY DEF MmInv
<1> QED BY <1>1, MmInvariant, PTL
=============================================================================
