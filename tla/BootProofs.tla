----------------------------- MODULE BootProofs -----------------------------
(***************************************************************************)
(* Proofs about how the system comes up.  The page tables the hypervisor   *)
(* boots with separate the guests, on both boards: the rules the layouts   *)
(* keep to, what mapping a range or sections does to the pages, and an     *)
(* invariant of one part per stage.  And the guest images, for any number  *)
(* of guests, images of any length and any addresses: the packing tool     *)
(* sorts by address, and that is why no guest is moved over one that is    *)
(* still to be moved.                                                      *)
(***************************************************************************)
EXTENDS BootMap, GuestImages, TLAPS, SequenceTheorems, WellFoundedInduction

-----------------------------------------------------------------------------
(* The tables.                                                             *)

(* An entry that leads to a level 2 table.                                 *)
Coarse(d) == d.type # "section"

(* Every table belongs to one megabyte and has been taken from the block,  *)
(* no page is mapped in a table that has not been taken, and no section    *)
(* was taken for a table.                                                  *)
TablesOk(t) ==
  /\ t = [l1 |-> t.l1, slpt |-> t.slpt, l2_index_p |-> t.l2_index_p, corrupted |-> FALSE]
  /\ t.l2_index_p \in Nat
  /\ DOMAIN t.l1 \subseteq Nat
  /\ \A v \in DOMAIN t.l1 : Coarse(t.l1[v]) => t.l1[v].at \in 0..(t.l2_index_p - 1)
  /\ \A u, v \in DOMAIN t.l1 :
       Coarse(t.l1[u]) /\ Coarse(t.l1[v]) /\ t.l1[u].at = t.l1[v].at => u = v
  /\ DOMAIN t.slpt \subseteq 0..(256 * t.l2_index_p - 1)

(* What Over has, where.                                                   *)
LEMMA OverIs ==
  ASSUME NEW f, NEW g
  PROVE  /\ DOMAIN Over(f, g) = DOMAIN f \cup DOMAIN g
         /\ \A x \in DOMAIN f : Over(f, g)[x] = f[x]
         /\ \A x \in DOMAIN g : x \notin DOMAIN f => Over(f, g)[x] = g[x]
  BY DEF Over

(* A page's number in its level 1 entry and in its table.                  *)
LEMMA SplitVa ==
  ASSUME NEW va \in Nat
  PROVE  /\ L1Index(va) \in Nat /\ L2Index(va) \in 0..255
         /\ va = 256 * L1Index(va) + L2Index(va)
  BY DEF L1Index, L2Index

At(a, v, k) == a = 256 * v + k

(* The entry and the page make up the address.                             *)
LEMMA JoinVa ==
  ASSUME NEW a, NEW v \in Nat, NEW k \in 0..255, At(a, v, k)
  PROVE  L1Index(a) = v /\ L2Index(a) = k
  BY DEF L1Index, L2Index, At

(* Whether page k of table a is a word of a range of table n.              *)
WordIn(a, k, n, o, pages) == 256 * a + k \in (256 * n + o)..(256 * n + o + pages - 1)

(* It is not when the table or the page is another one.                    *)
LEMMA WordOfRange ==
  ASSUME NEW a \in Nat, NEW n \in Nat, NEW k \in 0..255, NEW o \in 0..255,
         NEW pages \in Nat, o + pages <= 256
  PROVE  WordIn(a, k, n, o, pages) <=> (a = n /\ k \in o..(o + pages - 1))
<1>1. CASE a = n
  BY <1>1 DEF WordIn
<1>2. CASE a # n
  BY <1>2 DEF WordIn
<1>. QED  BY <1>1, <1>2

(* The tables as a record, with one part replaced.                         *)
RecordAs(a, b, c, d) == [l1 |-> a, slpt |-> b, l2_index_p |-> c, corrupted |-> d]
WithL1(t, x) == [t EXCEPT !.l1 = x]
WithSlpt(t, x) == [t EXCEPT !.slpt = x]

(* What replacing a part leaves.                                           *)
LEMMA RecordExcept ==
  ASSUME NEW a, NEW b, NEW c, NEW d, NEW x
  PROVE  /\ WithL1(RecordAs(a, b, c, d), x) = RecordAs(x, b, c, d)
         /\ WithSlpt(RecordAs(a, b, c, d), x) = RecordAs(a, x, c, d)
<1>2. WithL1(RecordAs(a, b, c, d), x) = RecordAs(x, b, c, d)
  BY DEF RecordAs, WithL1
<1>3. WithSlpt(RecordAs(a, b, c, d), x) = RecordAs(a, x, c, d)
  BY DEF RecordAs, WithSlpt
<1>. QED  BY <1>2, <1>3

(* When a range can be mapped by pages: it ends in its megabyte's table,   *)
(* there is a table left, and the megabyte is no section.                  *)
CoarseReady(t, va, pa, pages) ==
  /\ TablesOk(t) /\ ~NoTableLeft(t)
  /\ va \in Nat /\ pa \in Int /\ pages \in Nat
  /\ L2Index(va) + pages <= 256
  /\ L1Index(va) \in DOMAIN t.l1 => Coarse(t.l1[L1Index(va)])

(* Page k of entry v belongs to the range.                                 *)
InRange(va, pages, v, k) ==
  v = L1Index(va) /\ k \in L2Index(va)..(L2Index(va) + pages - 1)

(* No entry of the level 1 table is lost or changed.                       *)
KeepsEntries(t, r) ==
  \A v \in DOMAIN t.l1 : v \in DOMAIN r.l1 /\ r.l1[v] = t.l1[v]

(* What pt_create_coarse does then: the pages of the range lead to its     *)
(* memory, and every other page where it led before.                       *)
CoarseDone(t, r, va, pa, pages, type) ==
  /\ TablesOk(r)
  /\ KeepsEntries(t, r)
  /\ DOMAIN r.l1 = DOMAIN t.l1 \cup {L1Index(va)}
  /\ Coarse(r.l1[L1Index(va)])
  /\ r.l2_index_p \in t.l2_index_p..(t.l2_index_p + 1)
  /\ L1Index(va) \notin DOMAIN t.l1 =>
       r.l1[L1Index(va)] = Table(t.l2_index_p, type) /\ r.l2_index_p = t.l2_index_p + 1
  /\ \A v \in DOMAIN r.l1, k \in 0..255 :
       IF InRange(va, pages, v, k)
       THEN /\ Translate(r, v, k).pa = pa + (k - L2Index(va))
            /\ Translate(r, v, k).ap = Rights(type)
       ELSE Translate(r, v, k) = Translate(t, v, k)

(* It does that: the words it writes belong to no other megabyte.          *)
LEMMA CoarseEffect ==
  ASSUME NEW t, NEW va, NEW pa, NEW pages, NEW type, CoarseReady(t, va, pa, pages)
  PROVE  CoarseDone(t, pt_create_coarse(t, va, pa, pages, type), va, pa, pages, type)
<1> DEFINE m == L1Index(va)
           o == L2Index(va)
           fault == m \notin DOMAIN t.l1
           n == IF fault THEN t.l2_index_p ELSE t.l1[m].at
           i == t.l2_index_p
           entry == [u \in {m} |-> Table(n, type)]
           here == PagesFrom(256 * n + o, pa, pages, type)
           r == pt_create_coarse(t, va, pa, pages, type)
           Goal == CoarseDone(t, r, va, pa, pages, type)
<1> SUFFICES Goal  OBVIOUS
<1>1. /\ t = [l1 |-> t.l1, slpt |-> t.slpt, l2_index_p |-> i, corrupted |-> FALSE]
      /\ i \in Nat /\ DOMAIN t.l1 \subseteq Nat /\ DOMAIN t.slpt \subseteq 0..(256 * i - 1)
      /\ ~NoTableLeft(t) /\ pa \in Int /\ pages \in Nat /\ o + pages <= 256
      /\ ~fault => Coarse(t.l1[m])
  BY DEF CoarseReady, TablesOk
<1>2. m \in Nat /\ o \in 0..255
  BY SplitVa DEF CoarseReady
<1>3. \A v \in DOMAIN t.l1 : Coarse(t.l1[v]) => t.l1[v].at \in 0..(i - 1)
  BY DEF CoarseReady, TablesOk
<1>4. \A u, v \in DOMAIN t.l1 :
        Coarse(t.l1[u]) /\ Coarse(t.l1[v]) /\ t.l1[u].at = t.l1[v].at => u = v
  BY DEF CoarseReady, TablesOk
<1>5. /\ r = [l1 |-> Over(t.l1, entry), slpt |-> Over(here, t.slpt),
              l2_index_p |-> IF fault THEN i + 1 ELSE i, corrupted |-> FALSE]
  <2>1. t.corrupted = FALSE
    BY <1>1
  <2>2. r = [l1 |-> Over(t.l1, entry), slpt |-> Over(here, t.slpt),
             l2_index_p |-> IF fault THEN n + 1 ELSE i, corrupted |-> FALSE]
    BY <2>1, <1>1 DEF pt_create_coarse, Coarse
  <2>3. fault => n = i
    OBVIOUS
  <2>. HIDE DEF r, entry, here, fault, i, n
  <2>. QED  BY <2>2, <2>3
<1>6. /\ r.l1 = Over(t.l1, entry) /\ r.slpt = Over(here, t.slpt)
      /\ r.l2_index_p = IF fault THEN i + 1 ELSE i
      /\ r = [l1 |-> r.l1, slpt |-> r.slpt, l2_index_p |-> r.l2_index_p, corrupted |-> FALSE]
  BY <1>5
<1>7. DOMAIN entry = {m} /\ entry[m] = Table(n, type)
  OBVIOUS
<1> HIDE DEF r, entry
<1>17. /\ DOMAIN Over(t.l1, entry) = DOMAIN t.l1 \cup DOMAIN entry
       /\ \A x \in DOMAIN t.l1 : Over(t.l1, entry)[x] = t.l1[x]
       /\ \A x \in DOMAIN entry : x \notin DOMAIN t.l1 => Over(t.l1, entry)[x] = entry[x]
  BY OverIs
<1>8. /\ KeepsEntries(t, r)
      /\ DOMAIN r.l1 = DOMAIN t.l1 \cup {m}
      /\ fault => r.l1[m] = Table(n, type)
  BY <1>6, <1>7, <1>17 DEF KeepsEntries
<1>9. Coarse(r.l1[m]) /\ r.l1[m].at = n
  <2>1. CASE fault
    BY <2>1, <1>8 DEF Coarse, Table
  <2>2. CASE ~fault
    BY <2>2, <1>8, <1>1 DEF KeepsEntries
  <2>. QED  BY <2>1, <2>2
<1>10. /\ n \in 0..(r.l2_index_p - 1) /\ r.l2_index_p \in i..(i + 1) /\ r.l2_index_p \in Nat
       /\ n \in Nat
  <2>1. CASE fault
    BY <2>1, <1>6, <1>1
  <2>2. CASE ~fault
    <3>1. n \in 0..(i - 1)
      BY <2>2, <1>1, <1>3
    <3>. HIDE DEF n
    <3>. QED  BY <3>1, <2>2, <1>6, <1>1
  <2>. QED  BY <2>1, <2>2
<1>11. \A v \in DOMAIN t.l1 : Coarse(t.l1[v]) /\ v # m => t.l1[v].at # n
  <2>1. CASE fault
    BY <2>1, <1>3, <1>1
  <2>2. CASE ~fault
    BY <2>2, <1>4, <1>1
  <2>. QED  BY <2>1, <2>2
<1>12. /\ DOMAIN r.slpt = ((256 * n + o)..(256 * n + o + pages - 1)) \cup DOMAIN t.slpt
       /\ \A w \in (256 * n + o)..(256 * n + o + pages - 1) :
            r.slpt[w] = [pa |-> pa + (w - (256 * n + o)), ap |-> Rights(type)]
       /\ \A w \in DOMAIN t.slpt :
            w \notin (256 * n + o)..(256 * n + o + pages - 1) => r.slpt[w] = t.slpt[w]
  <2>1. /\ DOMAIN here = (256 * n + o)..(256 * n + o + pages - 1)
        /\ \A w \in (256 * n + o)..(256 * n + o + pages - 1) :
             here[w] = [pa |-> pa + (w - (256 * n + o)), ap |-> Rights(type)]
    BY DEF PagesFrom
  <2>. HIDE DEF here, n
  <2>2. /\ DOMAIN Over(here, t.slpt) = DOMAIN here \cup DOMAIN t.slpt
        /\ \A x \in DOMAIN here : Over(here, t.slpt)[x] = here[x]
        /\ \A x \in DOMAIN t.slpt : x \notin DOMAIN here => Over(here, t.slpt)[x] = t.slpt[x]
    BY OverIs
  <2>. QED  BY <2>1, <2>2, <1>6
<1> HIDE DEF n
<1>13. TablesOk(r)
  <2>1. DOMAIN r.l1 \subseteq Nat
    BY <1>8, <1>1, <1>2
  <2>2. ASSUME NEW v \in DOMAIN r.l1, Coarse(r.l1[v])
        PROVE  r.l1[v].at \in 0..(r.l2_index_p - 1)
    <3>1. CASE v = m
      BY <3>1, <1>9, <1>10
    <3>2. CASE v # m
      <4>1. r.l1[v].at \in 0..(i - 1)
        BY <3>2, <2>2, <1>8, <1>3 DEF KeepsEntries
      <4>. QED  BY <4>1, <1>10, <1>1
    <3>. QED  BY <3>1, <3>2
  <2>3. ASSUME NEW u \in DOMAIN r.l1, NEW v \in DOMAIN r.l1,
               Coarse(r.l1[u]), Coarse(r.l1[v]), r.l1[u].at = r.l1[v].at
        PROVE  u = v
    BY <2>3, <1>4, <1>8, <1>9, <1>11 DEF KeepsEntries
  <2>4. DOMAIN r.slpt \subseteq 0..(256 * r.l2_index_p - 1)
    <3>1. ASSUME NEW w \in (256 * n + o)..(256 * n + o + pages - 1)
          PROVE  w \in 0..(256 * r.l2_index_p - 1)
      <4>1. 256 * n + o >= 0 /\ 256 * n + o + pages - 1 < 256 * (n + 1)
        BY <1>1, <1>2, <1>10
      <4>2. 256 * (n + 1) <= 256 * r.l2_index_p
        BY <1>10
      <4>. QED  BY <3>1, <4>1, <4>2, <1>1, <1>2, <1>10
    <3>2. \A w \in 0..(256 * i - 1) : w \in 0..(256 * r.l2_index_p - 1)
      BY <1>10, <1>1
    <3>. QED  BY <3>1, <3>2, <1>12, <1>1
  <2>. QED  BY <2>1, <2>2, <2>3, <2>4, <1>6, <1>10 DEF TablesOk
<1>14. ASSUME NEW v \in DOMAIN r.l1, NEW k \in 0..255, InRange(va, pages, v, k)
       PROVE  /\ Translate(r, v, k).pa = pa + (k - o)
              /\ Translate(r, v, k).ap = Rights(type)
  <2>1. v = m /\ k \in o..(o + pages - 1)
    BY <1>14 DEF InRange
  <2>2. 256 * n + k \in (256 * n + o)..(256 * n + o + pages - 1)
    BY <2>1, <1>1, <1>2, <1>10
  <2>3. /\ r.slpt[256 * n + k].pa = pa + ((256 * n + k) - (256 * n + o))
        /\ r.slpt[256 * n + k].ap = Rights(type)
        /\ 256 * n + k \in DOMAIN r.slpt
    <3>. DEFINE w == 256 * n + k
    <3>1. w \in (256 * n + o)..(256 * n + o + pages - 1)
      BY <2>2
    <3>. HIDE DEF w
    <3>2. r.slpt[w] = [pa |-> pa + (w - (256 * n + o)), ap |-> Rights(type)]
          /\ w \in DOMAIN r.slpt
      BY <3>1, <1>12
    <3>3. r.slpt[w].pa = pa + (w - (256 * n + o)) /\ r.slpt[w].ap = Rights(type)
      BY <3>2
    <3>. QED  BY <3>2, <3>3 DEF w
  <2>4. (256 * n + k) - (256 * n + o) = k - o
    BY <1>2, <1>10
  <2>. QED  BY <2>1, <2>3, <2>4, <1>9, <1>14 DEF Translate, Coarse
<1>15. ASSUME NEW v \in DOMAIN r.l1, NEW k \in 0..255, ~InRange(va, pages, v, k)
       PROVE  Translate(r, v, k) = Translate(t, v, k)
  <2>1. CASE v # m
    <3>1. v \in DOMAIN t.l1 /\ r.l1[v] = t.l1[v]
      BY <2>1, <1>8 DEF KeepsEntries
    <3>2. CASE ~Coarse(t.l1[v])
      BY <3>1, <3>2 DEF Translate, Coarse
    <3>3. CASE Coarse(t.l1[v])
      <4> DEFINE a == t.l1[v].at
      <4>1. a # n /\ a \in Nat
        BY <3>3, <3>1, <2>1, <1>11, <1>3, <1>1
      <4> HIDE DEF a
      <4>2. 256 * a + k \notin (256 * n + o)..(256 * n + o + pages - 1)
        <5>1. /\ a \in Nat /\ n \in Nat /\ k \in 0..255 /\ o \in 0..255 /\ pages \in Nat
              /\ o + pages <= 256
          BY <4>1, <1>1, <1>2, <1>10
        <5>. HIDE DEF o
        <5>2. WordIn(a, k, n, o, pages) <=> (a = n /\ k \in o..(o + pages - 1))
          BY <5>1, WordOfRange
        <5>. QED  BY <5>2, <4>1 DEF WordIn
      <4>3. /\ 256 * a + k \in DOMAIN r.slpt <=> 256 * a + k \in DOMAIN t.slpt
            /\ 256 * a + k \in DOMAIN t.slpt =>
                 r.slpt[256 * a + k] = t.slpt[256 * a + k]
        BY <4>2, <1>12
      <4>. QED  BY <4>3, <3>1, <3>3 DEF Translate, Coarse, a
    <3>. QED  BY <3>2, <3>3
  <2>2. CASE v = m
    <3>1. k \notin o..(o + pages - 1)
      BY <2>2, <1>15 DEF InRange
    <3>2. 256 * n + k \notin (256 * n + o)..(256 * n + o + pages - 1)
      <4>1. /\ n \in Nat /\ k \in 0..255 /\ o \in 0..255 /\ pages \in Nat
            /\ o + pages <= 256
        BY <1>1, <1>2, <1>10
      <4>. HIDE DEF o
      <4>2. WordIn(n, k, n, o, pages) <=> (n = n /\ k \in o..(o + pages - 1))
        BY <4>1, WordOfRange
      <4>. QED  BY <4>2, <3>1 DEF WordIn
    <3>3. /\ 256 * n + k \in DOMAIN r.slpt <=> 256 * n + k \in DOMAIN t.slpt
          /\ 256 * n + k \in DOMAIN t.slpt => r.slpt[256 * n + k] = t.slpt[256 * n + k]
      BY <3>2, <1>12
    <3>4. CASE fault
      <4>1. n = i
        BY <3>4 DEF n
      <4>2. 256 * n + k \notin 0..(256 * i - 1)
        BY <4>1, <1>1
      <4>3. 256 * n + k \notin DOMAIN r.slpt
        BY <4>2, <3>3, <1>1
      <4>. QED  BY <4>3, <2>2, <3>4, <1>9 DEF Translate, Coarse
    <3>5. CASE ~fault
      <4>1. r.l1[v] = t.l1[v] /\ v \in DOMAIN t.l1 /\ t.l1[v].at = n
        BY <3>5, <2>2, <1>8, <1>9 DEF KeepsEntries
      <4>. QED  BY <4>1, <2>2, <3>3, <1>9 DEF Translate, Coarse
    <3>. QED  BY <3>4, <3>5
  <2>. QED  BY <2>1, <2>2
<1>16. fault => r.l1[m] = Table(i, type) /\ r.l2_index_p = i + 1
  BY <1>8, <1>6 DEF n
<1>. QED  BY <1>8, <1>9, <1>10, <1>13, <1>14, <1>15, <1>16 DEF CoarseDone

(* When sections can be mapped, and what pt_create_section does then: it   *)
(* fills entries that were faults.                                         *)
SectionsReady(t, ms, type) ==
  /\ TablesOk(t) /\ type \in {"USER_RAM", "TRUSTED_RAM"}
  /\ DOMAIN ms \subseteq Nat
SectionsDone(t, r, ms, type) ==
  /\ TablesOk(r)
  /\ KeepsEntries(t, r)
  /\ DOMAIN r.l1 = DOMAIN t.l1 \cup DOMAIN ms
  /\ r.l2_index_p = t.l2_index_p /\ r.slpt = t.slpt
  /\ \A v \in DOMAIN ms : v \notin DOMAIN t.l1 => r.l1[v] = RamSection(ms[v], type)
  /\ \A v \in DOMAIN t.l1, k \in 0..255 : Translate(r, v, k) = Translate(t, v, k)
  /\ \A v \in DOMAIN ms, k \in 0..255 :
       v \notin DOMAIN t.l1 =>
         Translate(r, v, k) = [pa |-> ms[v] + k, ap |-> "USER_RW", domain |-> Domain(type)]

(* It does that.                                                           *)
LEMMA SectionsEffect ==
  ASSUME NEW t, NEW ms, NEW type, SectionsReady(t, ms, type)
  PROVE  SectionsDone(t, pt_create_section(t, ms, type), ms, type)
<1> DEFINE i == t.l2_index_p
           more == [v \in DOMAIN ms |-> RamSection(ms[v], type)]
           r == pt_create_section(t, ms, type)
           Goal == SectionsDone(t, r, ms, type)
<1> SUFFICES Goal  OBVIOUS
<1>1. /\ t = [l1 |-> t.l1, slpt |-> t.slpt, l2_index_p |-> i, corrupted |-> FALSE]
      /\ i \in Nat /\ DOMAIN t.l1 \subseteq Nat /\ DOMAIN t.slpt \subseteq 0..(256 * i - 1)
  BY DEF SectionsReady, TablesOk
<1>2. r = [l1 |-> Over(t.l1, more), slpt |-> t.slpt, l2_index_p |-> i, corrupted |-> FALSE]
  <2>1. r = WithL1(t, Over(t.l1, more))
    BY DEF pt_create_section, SectionsReady, WithL1
  <2>2. t = RecordAs(t.l1, t.slpt, i, FALSE)
    BY <1>1 DEF RecordAs
  <2>. HIDE DEF r, more, i
  <2>3. WithL1(t, Over(t.l1, more)) = WithL1(RecordAs(t.l1, t.slpt, i, FALSE), Over(t.l1, more))
    BY <2>2, Zenon
  <2>4. r = RecordAs(Over(t.l1, more), t.slpt, i, FALSE)
    <3>. DEFINE no == FALSE
    <3>1. t = RecordAs(t.l1, t.slpt, i, no)
      BY <2>2
    <3>. HIDE DEF no
    <3>2. WithL1(RecordAs(t.l1, t.slpt, i, no), Over(t.l1, more))
            = RecordAs(Over(t.l1, more), t.slpt, i, no)
      BY RecordExcept
    <3>3. r = RecordAs(Over(t.l1, more), t.slpt, i, no)
      BY <2>1, <3>1, <3>2, Zenon
    <3>. QED  BY <3>3 DEF no
  <2>. QED  BY <2>4 DEF RecordAs
<1>3. /\ r.l1 = Over(t.l1, more) /\ r.slpt = t.slpt /\ r.l2_index_p = i
      /\ r = [l1 |-> r.l1, slpt |-> r.slpt, l2_index_p |-> r.l2_index_p, corrupted |-> FALSE]
  BY <1>2
<1>4. DOMAIN more = DOMAIN ms /\ \A v \in DOMAIN ms : more[v] = RamSection(ms[v], type)
  OBVIOUS
<1> HIDE DEF r, more
<1>10. /\ DOMAIN Over(t.l1, more) = DOMAIN t.l1 \cup DOMAIN more
       /\ \A x \in DOMAIN t.l1 : Over(t.l1, more)[x] = t.l1[x]
       /\ \A x \in DOMAIN more : x \notin DOMAIN t.l1 => Over(t.l1, more)[x] = more[x]
  BY OverIs
<1>5. /\ KeepsEntries(t, r)
      /\ DOMAIN r.l1 = DOMAIN t.l1 \cup DOMAIN ms
      /\ \A v \in DOMAIN ms : v \notin DOMAIN t.l1 => r.l1[v] = RamSection(ms[v], type)
  BY <1>3, <1>4, <1>10 DEF KeepsEntries
<1>6. \A v \in DOMAIN ms : v \notin DOMAIN t.l1 => ~Coarse(r.l1[v])
  <2>1. \A pa : ~Coarse(RamSection(pa, type))
    BY DEF Coarse, RamSection
  <2>. QED  BY <1>5, <2>1
<1>7. TablesOk(r)
  <2>1. DOMAIN r.l1 \subseteq Nat
    BY <1>5, <1>1 DEF SectionsReady
  <2>2. \A v \in DOMAIN r.l1 :
          Coarse(r.l1[v]) => v \in DOMAIN t.l1 /\ r.l1[v] = t.l1[v]
    BY <1>5, <1>6 DEF KeepsEntries
  <2>3. \A v \in DOMAIN r.l1 : Coarse(r.l1[v]) => r.l1[v].at \in 0..(r.l2_index_p - 1)
    BY <2>2, <1>3 DEF SectionsReady, TablesOk
  <2>4. \A u, v \in DOMAIN r.l1 :
          Coarse(r.l1[u]) /\ Coarse(r.l1[v]) /\ r.l1[u].at = r.l1[v].at => u = v
    BY <2>2 DEF SectionsReady, TablesOk
  <2>. QED  BY <2>1, <2>3, <2>4, <1>1, <1>3 DEF TablesOk
<1>8. \A v \in DOMAIN t.l1, k \in 0..255 : Translate(r, v, k) = Translate(t, v, k)
  BY <1>3, <1>5 DEF Translate, KeepsEntries
<1>9. ASSUME NEW v \in DOMAIN ms, NEW k \in 0..255, v \notin DOMAIN t.l1
      PROVE  Translate(r, v, k) = [pa |-> ms[v] + k, ap |-> "USER_RW", domain |-> Domain(type)]
  <2>1. v \in DOMAIN r.l1 /\ r.l1[v] = RamSection(ms[v], type)
    BY <1>9, <1>5
  <2>2. \A pa : /\ RamSection(pa, type).type = "section" /\ RamSection(pa, type).at = pa
                /\ RamSection(pa, type).ap = "USER_RW"
                /\ RamSection(pa, type).domain = Domain(type)
    BY DEF RamSection
  <2>. QED  BY <2>1, <2>2 DEF Translate
<1>. QED  BY <1>3, <1>5, <1>7, <1>8, <1>9 DEF SectionsDone

-----------------------------------------------------------------------------
(* The layouts of the boards.                                              *)

(* What every entry of a layout keeps to: a device has an address at the   *)
(* top of the address space, ends in its megabyte, and is neither the      *)
(* hypervisor's memory nor the trusted guest's; memory for guests is below *)
(* Linux' addresses and behind the hypervisor, and the trusted guest's     *)
(* megabyte is only in trusted memory.                                     *)
EntryRule(phys, first, last, type, va) ==
  /\ first \in Nat /\ last \in Nat /\ first < last
  /\ IsIo(type) =>
       /\ va \in Nat
       /\ L1Index(va) \in \hF02..\hFFE
       /\ L2Index(va) + (last - first) <= 256
       /\ (last <= phys \/ phys + 512 <= first)
  /\ ~IsIo(type) =>
       /\ type \in {"USER_RAM", "TRUSTED_RAM"}
       /\ L1Index(first) \in Nat /\ L1Index(last) \in 0..\hC00
       /\ \/ L1Index(first) * 256 >= phys + 512
          \/ (L1Index(first) * 256 >= phys + 256 /\ type = "TRUSTED_RAM")

(* The layout of the BeagleBoard, entry by entry.                          *)
BeagleEntry(n, first, last, type) ==
  \/ n = 1 /\ first = \h48002 /\ last = \h48003 /\ type = "IO_RO"
  \/ n = 2 /\ first = \h48004 /\ last = \h48006 /\ type = "IO_RO"
  \/ n = 3 /\ first = \h4806a /\ last = \h4806b /\ type = "IO_RW"
  \/ n = 4 /\ first = \h4806c /\ last = \h4806d /\ type = "IO_RW"
  \/ n = 5 /\ first = \h48200 /\ last = \h48201 /\ type = "IO_HYP"
  \/ n = 6 /\ first = \h48304 /\ last = \h48305 /\ type = "IO_RO"
  \/ n = 7 /\ first = \h48306 /\ last = \h48308 /\ type = "IO_RO"
  \/ n = 8 /\ first = \h48320 /\ last = \h48321 /\ type = "IO_RO"
  \/ n = 9 /\ first = \h4830A /\ last = \h4830B /\ type = "IO_RO"
  \/ n = 10 /\ first = \h49020 /\ last = \h49021 /\ type = "IO_RW"
  \/ n = 11 /\ first = \h81000 /\ last = \h88000 /\ type = "USER_RAM"
BeagleVa(page) == page + \hB2000

(* It has these entries.                                                   *)
LEMMA BeagleEntries ==
  ASSUME NEW n \in 1..11
  PROVE  BeagleEntry(n, beagleboard_layout[n].page_start, beagleboard_layout[n].page_count, beagleboard_layout[n].type)
<1>1. n = 1 \/ n = 2 \/ n = 3 \/ n = 4 \/ n = 5 \/ n = 6 \/ n = 7 \/ n = 8 \/ n = 9
      \/ n = 10 \/ n = 11
  OBVIOUS
<1>. QED  BY <1>1 DEF beagleboard_layout, BeagleEntry, Entry

(* They keep to the rule.                                                  *)
LEMMA BeagleRules ==
  ASSUME NEW n \in 1..11, NEW first, NEW last, NEW type, BeagleEntry(n, first, last, type)
  PROVE  EntryRule(\h80000, first, last, type, BeagleVa(first))
  BY DEF BeagleEntry, EntryRule, BeagleVa, IsIo, L1Index, L2Index

(* No two of its devices overlap.                                          *)
LEMMA BeagleApart ==
  ASSUME NEW n \in 1..11, NEW m \in 1..11, n # m,
         NEW a, NEW b, NEW s, NEW c, NEW d, NEW t, IsIo(s), IsIo(t),
         BeagleEntry(n, a, b, s), BeagleEntry(m, c, d, t)
  PROVE  BeagleVa(a) + (b - a) <= BeagleVa(c) \/ BeagleVa(c) + (d - c) <= BeagleVa(a)
  BY DEF BeagleEntry, BeagleVa, IsIo

(* The layout of the Integrator/CP.                                        *)
IntegratorEntry(n, first, last, type) ==
  \/ n = 1 /\ first = \h00100 /\ last = \h00500 /\ type = "TRUSTED_RAM"
  \/ n = 2 /\ first = \h01000 /\ last = \h08000 /\ type = "USER_RAM"
  \/ n = 3 /\ first = \h10000 /\ last = \h10001 /\ type = "IO_RO"
  \/ n = 4 /\ first = \h14000 /\ last = \h14001 /\ type = "IO_RW"
  \/ n = 5 /\ first = \h13000 /\ last = \h13001 /\ type = "IO_RO"
  \/ n = 6 /\ first = \h1a000 /\ last = \h1a001 /\ type = "IO_RO"
  \/ n = 7 /\ first = \h18000 /\ last = \h18001 /\ type = "IO_RO"
  \/ n = 8 /\ first = \h19000 /\ last = \h19001 /\ type = "IO_RO"
  \/ n = 9 /\ first = \h15000 /\ last = \h15001 /\ type = "IO_RO"
  \/ n = 10 /\ first = \h16000 /\ last = \h16001 /\ type = "IO_RW"
  \/ n = 11 /\ first = \h17000 /\ last = \h17001 /\ type = "IO_RW"
IntegratorVa(page) == (page \div 16) + \hF0000

(* It has these entries.                                                   *)
LEMMA IntegratorEntries ==
  ASSUME NEW n \in 1..11
  PROVE  IntegratorEntry(n, integratorCP_layout[n].page_start, integratorCP_layout[n].page_count, integratorCP_layout[n].type)
<1>1. n = 1 \/ n = 2 \/ n = 3 \/ n = 4 \/ n = 5 \/ n = 6 \/ n = 7 \/ n = 8 \/ n = 9
      \/ n = 10 \/ n = 11
  OBVIOUS
<1>. QED  BY <1>1 DEF integratorCP_layout, IntegratorEntry, Entry

(* They keep to the rule.                                                  *)
LEMMA IntegratorRules ==
  ASSUME NEW n \in 1..11, NEW first, NEW last, NEW type, IntegratorEntry(n, first, last, type)
  PROVE  EntryRule(0, first, last, type, IntegratorVa(first))
<1>1. CASE n \in 1..2
  BY <1>1 DEF IntegratorEntry, EntryRule, IsIo, L1Index
<1>2. CASE n \in 3..11
  <2> DEFINE va == IntegratorVa(first)
  <2>1. /\ first \in Nat /\ last = first + 1 /\ first >= 512 /\ IsIo(type)
    BY <1>2 DEF IntegratorEntry, IsIo
  <2>2. va \in {\hF1000, \hF1400, \hF1300, \hF1A00, \hF1800, \hF1900, \hF1500,
                \hF1600, \hF1700}
    BY <1>2 DEF IntegratorEntry, IntegratorVa
  <2>. HIDE DEF va
  <2>3. va \in Nat /\ L1Index(va) \in \hF02..\hFFE /\ L2Index(va) = 0
    BY <2>2 DEF L1Index, L2Index
  <2>. QED  BY <2>1, <2>3 DEF EntryRule, va
<1>. QED  BY <1>1, <1>2

(* No two of its devices overlap.                                          *)
LEMMA IntegratorApart ==
  ASSUME NEW n \in 1..11, NEW m \in 1..11, n # m,
         NEW a, NEW b, NEW s, NEW c, NEW d, NEW t, IsIo(s), IsIo(t),
         IntegratorEntry(n, a, b, s), IntegratorEntry(m, c, d, t)
  PROVE  IntegratorVa(a) + (b - a) <= IntegratorVa(c) \/ IntegratorVa(c) + (d - c) <= IntegratorVa(a)
  BY DEF IntegratorEntry, IntegratorVa, IsIo

(* The pages of a device, and the two rules for the board that was booted. *)
DeviceVa(e) == IO_VA_ADDRESS(e.page_start)
DevicePages(e) == e.page_count - e.page_start
LayoutRule(e) == EntryRule(PhysStart, e.page_start, e.page_count, e.type, DeviceVa(e))
Apart(e, f) ==
  \/ DeviceVa(e) + DevicePages(e) <= DeviceVa(f)
  \/ DeviceVa(f) + DevicePages(f) <= DeviceVa(e)

(* The board is one of the two.                                            *)
LEMMA BoardIs ==
  ASSUME BootMapAssumption, board \in Boards
  PROVE  /\ \/ /\ board = "beagleboard" /\ layout = beagleboard_layout
               /\ PhysStart = \h80000 /\ \A page : IO_VA_ADDRESS(page) = BeagleVa(page)
            \/ /\ board = "integratorCP" /\ layout = integratorCP_layout
               /\ PhysStart = 0 /\ \A page : IO_VA_ADDRESS(page) = IntegratorVa(page)
         /\ Len(layout) = 11
<1>1. board = "beagleboard" \/ (board = "integratorCP" /\ board # "beagleboard")
  BY DEF BootMapAssumption
<1>2. Len(beagleboard_layout) = 11 /\ Len(integratorCP_layout) = 11
  BY DEF beagleboard_layout, integratorCP_layout
<1>. QED  BY <1>1, <1>2 DEF layout, PhysStart, IO_VA_ADDRESS, BeagleVa, IntegratorVa

(* Every entry of its layout keeps to the rule.                            *)
LEMMA LayoutRules ==
  ASSUME BootMapAssumption, board \in Boards, NEW n \in 1..11
  PROVE  LayoutRule(layout[n])
<1>1. CASE board = "beagleboard" /\ layout = beagleboard_layout
           /\ PhysStart = \h80000 /\ \A page : IO_VA_ADDRESS(page) = BeagleVa(page)
  BY <1>1, BeagleEntries, BeagleRules DEF LayoutRule, DeviceVa
<1>2. CASE board = "integratorCP" /\ layout = integratorCP_layout
           /\ PhysStart = 0 /\ \A page : IO_VA_ADDRESS(page) = IntegratorVa(page)
  BY <1>2, IntegratorEntries, IntegratorRules DEF LayoutRule, DeviceVa
<1>. QED  BY <1>1, <1>2, BoardIs

(* No two of its devices overlap.                                          *)
LEMMA LayoutApart ==
  ASSUME BootMapAssumption, board \in Boards, NEW n \in 1..11, NEW m \in 1..11, n # m,
         IsIo(layout[n].type), IsIo(layout[m].type)
  PROVE  Apart(layout[n], layout[m])
<1>1. CASE board = "beagleboard" /\ layout = beagleboard_layout
           /\ PhysStart = \h80000 /\ \A page : IO_VA_ADDRESS(page) = BeagleVa(page)
  BY <1>1, BeagleEntries, BeagleApart DEF Apart, DeviceVa, DevicePages
<1>2. CASE board = "integratorCP" /\ layout = integratorCP_layout
           /\ PhysStart = 0 /\ \A page : IO_VA_ADDRESS(page) = IntegratorVa(page)
  BY <1>2, IntegratorEntries, IntegratorApart DEF Apart, DeviceVa, DevicePages
<1>. QED  BY <1>1, <1>2, BoardIs

-----------------------------------------------------------------------------
(* What a step leaves as it is.                                            *)

(* A page that leads where it led.                                         *)
SameAt(t, r, v, k) == Translate(r, v, k) = Translate(t, v, k)

(* Mapping a range changes no page out of it.                              *)
LEMMA CoarseElsewhere ==
  ASSUME NEW t, NEW r, NEW va, NEW pa, NEW pages, NEW type,
         CoarseDone(t, r, va, pa, pages, type),
         NEW v, NEW k \in 0..255, ~InRange(va, pages, v, k)
  PROVE  SameAt(t, r, v, k)
<1>1. CASE v \in DOMAIN r.l1
  BY <1>1 DEF CoarseDone, SameAt
<1>2. CASE v \notin DOMAIN r.l1
  <2>1. v \notin DOMAIN t.l1
    BY <1>2 DEF CoarseDone
  <2>. QED  BY <1>2, <2>1 DEF Translate, SameAt
<1>. QED  BY <1>1, <1>2

(* Sections change no entry that was there.                                *)
LEMMA SectionsElsewhere ==
  ASSUME NEW t, NEW r, NEW ms, NEW type, SectionsDone(t, r, ms, type),
         NEW v, NEW k \in 0..255, v \in DOMAIN t.l1 \/ v \notin DOMAIN ms
  PROVE  SameAt(t, r, v, k)
<1>1. CASE v \in DOMAIN t.l1
  BY <1>1 DEF SectionsDone, SameAt
<1>2. CASE v \notin DOMAIN t.l1 /\ v \notin DOMAIN ms
  <2>1. v \notin DOMAIN r.l1
    BY <1>2 DEF SectionsDone
  <2>. QED  BY <1>2, <2>1 DEF Translate, SameAt
<1>. QED  BY <1>1, <1>2

(* A mapping stays as long as its page does.                               *)
LEMMA MappingKept ==
  ASSUME NEW t, NEW r, NEW a, NEW pa, NEW ap, MapsTo(t, a, pa, ap),
         SameAt(t, r, L1Index(a), L2Index(a))
  PROVE  MapsTo(r, a, pa, ap)
  BY DEF MapsTo, SameAt

(* A page of a range has an address in it, and the other way round.        *)
LEMMA RangeMeans ==
  ASSUME NEW va \in Nat, NEW pages \in Nat, NEW a \in Nat,
         InRange(va, pages, L1Index(a), L2Index(a))
  PROVE  a \in va..(va + pages - 1)
<1>1. /\ L1Index(va) \in Nat /\ L2Index(va) \in 0..255 /\ va = 256 * L1Index(va) + L2Index(va)
  BY SplitVa
<1>2. /\ L1Index(a) \in Nat /\ L2Index(a) \in 0..255 /\ a = 256 * L1Index(a) + L2Index(a)
  BY SplitVa
<1>3. L1Index(a) = L1Index(va) /\ L2Index(a) \in L2Index(va)..(L2Index(va) + pages - 1)
  BY DEF InRange
<1>. QED  BY <1>1, <1>2, <1>3

(* The other way round.                                                    *)
LEMMA RangeIs ==
  ASSUME NEW va \in Nat, NEW pages \in Nat, L2Index(va) + pages <= 256,
         NEW a \in va..(va + pages - 1)
  PROVE  /\ L1Index(a) = L1Index(va) /\ L2Index(a) = L2Index(va) + (a - va)
         /\ InRange(va, pages, L1Index(a), L2Index(a))
         /\ L2Index(a) \in 0..255 /\ L1Index(va) \in Nat
<1>1. /\ L1Index(va) \in Nat /\ L2Index(va) \in 0..255 /\ va = 256 * L1Index(va) + L2Index(va)
  BY SplitVa
<1> DEFINE v == L1Index(va)
           k == L2Index(va)
           i == k + (a - va)
<1>2. v \in Nat /\ k \in 0..255 /\ va = 256 * v + k /\ k + pages <= 256
  BY <1>1
<1> HIDE DEF v, k
<1>3. i \in 0..255 /\ a = 256 * v + i /\ i \in k..(k + pages - 1)
  BY <1>2
<1> HIDE DEF i
<1>4. At(a, v, i)
  BY <1>3 DEF At
<1>5. L1Index(a) = v /\ L2Index(a) = i
  BY <1>2, <1>3, <1>4, JoinVa
<1>. QED  BY <1>2, <1>3, <1>5 DEF InRange, v, k, i

(* While the layout is mapped: the hypervisor's megabyte is there, all     *)
(* other entries are memory below Linux' addresses or tables of devices    *)
(* above the hypervisor, nothing is reachable that must not be, and the    *)
(* devices so far are where they belong.                                   *)
HypervisorIn(t) == \hF00 \in DOMAIN t.l1 /\ t.l1[\hF00] = HypervisorSection
LowOrDevice(t) ==
  \A v \in DOMAIN t.l1 : v = \hF00 \/ v < \hC00 \/ (v >= \hF02 /\ Coarse(t.l1[v]))
Devices(t, next) == \A n \in 1..(next - 1) : DeviceMapped(t, layout[n])
Before(t, next) ==
  /\ TablesOk(t) /\ HypervisorIn(t) /\ LowOrDevice(t)
  /\ Separated(t) /\ Devices(t, next)

(* The numbers of the board; the level 1 table ends in the hypervisor's    *)
(* megabyte because it is aligned.                                         *)
LEMMA PhysStartIs ==
  ASSUME BootMapAssumption, board \in Boards
  PROVE  /\ PhysStart \in Nat
         /\ FlptOffset \in 0..252 /\ VectorOffset \in 0..255
<1>1. FlptOffset \in 0..255 /\ VectorOffset \in 0..255 /\ FlptOffset % 4 = 0
  BY DEF BootMapAssumption
<1>2. FlptOffset <= 252
  BY <1>1
<1>. QED  BY <1>1, <1>2, BoardIs

(* Memory that is neither the hypervisor's nor the trusted guest's.        *)
LEMMA HarmlessAway ==
  ASSUME BootMapAssumption, board \in Boards, NEW t,
         t.pa \in Int, t.pa \notin PhysStart..(PhysStart + 511)
  PROVE  Harmless(t)
  BY PhysStartIs DEF Harmless, Hypervisor

(* Mapping a harmless range, or harmless sections, leaves the guests       *)
(* separated.                                                              *)
LEMMA CoarseSeparated ==
  ASSUME BootMapAssumption, board \in Boards,
         NEW t, NEW r, NEW va, NEW pa, NEW pages, NEW type,
         CoarseDone(t, r, va, pa, pages, type), Separated(t),
         \A v, k : v \in DOMAIN r.l1 /\ k \in 0..255 /\ InRange(va, pages, v, k) =>
                     Harmless(Translate(r, v, k))
  PROVE  Separated(r)
<1> SUFFICES ASSUME NEW v \in DOMAIN r.l1, NEW k \in 0..255
             PROVE  Harmless(Translate(r, v, k))
  BY DEF Separated
<1>1. CASE InRange(va, pages, v, k)
  BY <1>1
<1>2. CASE ~InRange(va, pages, v, k)
  <2>1. Translate(r, v, k) = Translate(t, v, k)
    BY <1>2, CoarseElsewhere DEF SameAt
  <2>2. CASE v \in DOMAIN t.l1
    BY <2>1, <2>2 DEF Separated
  <2>3. CASE v \notin DOMAIN t.l1
    <3>1. Translate(t, v, k) = Nowhere
      BY <2>3 DEF Translate
    <3>2. Harmless(Nowhere)
      <4>1. Nowhere.pa = -1
        BY DEF Nowhere
      <4>. QED  BY <4>1, PhysStartIs, HarmlessAway
    <3>. QED  BY <2>1, <3>1, <3>2
  <2>. QED  BY <2>2, <2>3
<1>. QED  BY <1>1, <1>2

(* The same of sections.                                                   *)
LEMMA SectionsSeparated ==
  ASSUME BootMapAssumption, board \in Boards,
         NEW t, NEW r, NEW ms, NEW type, SectionsDone(t, r, ms, type), Separated(t),
         \A v \in DOMAIN ms, k \in 0..255 :
           Harmless([pa |-> ms[v] + k, ap |-> "USER_RW", domain |-> Domain(type)])
  PROVE  Separated(r)
<1> SUFFICES ASSUME NEW v \in DOMAIN r.l1, NEW k \in 0..255
             PROVE  Harmless(Translate(r, v, k))
  BY DEF Separated
<1>1. CASE v \in DOMAIN t.l1
  <2>1. Translate(r, v, k) = Translate(t, v, k)
    <3>1. v \in DOMAIN t.l1 \/ v \notin DOMAIN ms
      BY <1>1
    <3>2. SameAt(t, r, v, k)
      BY <3>1, SectionsElsewhere, Zenon
    <3>. QED  BY <3>2 DEF SameAt
  <2>. QED  BY <1>1, <2>1 DEF Separated
<1>2. CASE v \notin DOMAIN t.l1
  <2>1. v \in DOMAIN ms
    BY <1>2 DEF SectionsDone
  <2>2. Translate(r, v, k) = [pa |-> ms[v] + k, ap |-> "USER_RW", domain |-> Domain(type)]
    BY <1>2, <2>1 DEF SectionsDone
  <2>. QED  BY <2>1, <2>2
<1>. QED  BY <1>1, <1>2

(* Where the pages of a device are.                                        *)
LEMMA DeviceAt ==
  ASSUME NEW e, LayoutRule(e), IsIo(e.type), NEW p \in e.page_start..(e.page_count - 1)
  PROVE  LET a == DeviceVa(e) + (p - e.page_start)
         IN  /\ a \in Nat /\ L1Index(a) = L1Index(DeviceVa(e))
             /\ L1Index(a) \in \hF02..\hFFE
             /\ L2Index(a) = L2Index(DeviceVa(e)) + (p - e.page_start)
             /\ L2Index(a) \in 0..255
             /\ InRange(DeviceVa(e), DevicePages(e), L1Index(a), L2Index(a))
             /\ a \in DeviceVa(e)..(DeviceVa(e) + DevicePages(e) - 1)
<1> DEFINE va == DeviceVa(e)
           pages == DevicePages(e)
           a == va + (p - e.page_start)
<1>1. /\ va \in Nat /\ pages \in Nat /\ L2Index(va) + pages <= 256
      /\ L1Index(va) \in \hF02..\hFFE
      /\ a \in va..(va + pages - 1) /\ a \in Nat /\ a - va = p - e.page_start
  BY DEF LayoutRule, EntryRule, DevicePages
<1> HIDE DEF va, pages, a
<1>2. /\ L1Index(a) = L1Index(va) /\ L2Index(a) = L2Index(va) + (a - va)
      /\ InRange(va, pages, L1Index(a), L2Index(a))
      /\ L2Index(a) \in 0..255
  BY <1>1, RangeIs
<1>. QED  BY <1>1, <1>2 DEF va, pages, a

(* A device stays where it is as long as its pages do.                     *)
LEMMA DeviceKept ==
  ASSUME NEW t, NEW r, NEW e, LayoutRule(e), DeviceMapped(t, e),
         \A p \in e.page_start..(e.page_count - 1) :
           IsIo(e.type) =>
             SameAt(t, r, L1Index(DeviceVa(e) + (p - e.page_start)),
                          L2Index(DeviceVa(e) + (p - e.page_start)))
  PROVE  DeviceMapped(r, e)
  BY MappingKept DEF DeviceMapped, DeviceVa

-----------------------------------------------------------------------------
(* The steps.                                                              *)

(* A range at a device's address leaves the other entries alone.           *)
LEMMA CoarseLowOrDevice ==
  ASSUME NEW t, NEW r, NEW va, NEW pa, NEW pages, NEW type,
         CoarseDone(t, r, va, pa, pages, type), LowOrDevice(t), HypervisorIn(t),
         L1Index(va) \in Nat, L1Index(va) >= \hF02
  PROVE  LowOrDevice(r) /\ HypervisorIn(r)
<1>1. /\ \A v \in DOMAIN r.l1 : v \in DOMAIN t.l1 \/ v = L1Index(va)
      /\ \A v \in DOMAIN t.l1 : v \in DOMAIN r.l1 /\ r.l1[v] = t.l1[v]
      /\ Coarse(r.l1[L1Index(va)])
  BY DEF CoarseDone, KeepsEntries
<1>. QED  BY <1>1 DEF LowOrDevice, HypervisorIn

(* A device of the layout.                                                 *)
DeviceRange(t, e) ==
  pt_create_coarse(t, DeviceVa(e), e.page_start, DevicePages(e), e.type)

(* Mapping it leaves the devices before it where they are.                 *)
LEMMA DeviceStep ==
  ASSUME BootMapAssumption, board \in Boards, NEW t, NEW n \in 1..11,
         IsIo(layout[n].type), Before(t, n), t.l2_index_p < n
  PROVE  /\ Before(DeviceRange(t, layout[n]), n + 1)
         /\ DeviceRange(t, layout[n]).l2_index_p < n + 1
<1> DEFINE e == layout[n]
           va == DeviceVa(e)
           pa == e.page_start
           pages == DevicePages(e)
           type == e.type
           r == DeviceRange(t, e)
           Goal == Before(r, n + 1) /\ r.l2_index_p < n + 1
<1> SUFFICES Goal  OBVIOUS
<1>1. LayoutRule(e) /\ IsIo(type)
  BY LayoutRules
<1>2. /\ va \in Nat /\ pa \in Nat /\ pages \in Nat /\ L2Index(va) + pages <= 256
      /\ L1Index(va) \in \hF02..\hFFE
      /\ pa + pages <= PhysStart \/ PhysStart + 512 <= pa
      /\ pa + pages = e.page_count
  BY <1>1 DEF LayoutRule, EntryRule, DevicePages
<1>3. /\ TablesOk(t) /\ HypervisorIn(t) /\ LowOrDevice(t) /\ Separated(t) /\ Devices(t, n)
      /\ t.l2_index_p \in Nat
  BY DEF Before, TablesOk
<1>4. r = pt_create_coarse(t, va, pa, pages, type)
  BY DEF DeviceRange
<1> HIDE DEF va, pages, r, type
<1>5. CoarseReady(t, va, pa, pages)
  <2>1. ~NoTableLeft(t)
    BY <1>3 DEF NoTableLeft
  <2>2. L1Index(va) \in DOMAIN t.l1 => Coarse(t.l1[L1Index(va)])
    BY <1>2, <1>3 DEF LowOrDevice
  <2>. QED  BY <1>2, <1>3, <2>1, <2>2 DEF CoarseReady
<1>6. CoarseDone(t, r, va, pa, pages, type)
  BY <1>4, <1>5, CoarseEffect
<1>7. r.l2_index_p < n + 1
  BY <1>6, <1>3 DEF CoarseDone
<1>8. LowOrDevice(r) /\ HypervisorIn(r)
  BY <1>2, <1>3, <1>6, CoarseLowOrDevice
<1>9. Separated(r)
  <2>1. ASSUME NEW v \in DOMAIN r.l1, NEW k \in 0..255, InRange(va, pages, v, k)
        PROVE  Harmless(Translate(r, v, k))
    <3>1. Translate(r, v, k).pa = pa + (k - L2Index(va))
      BY <2>1, <1>6 DEF CoarseDone
    <3>2. k \in L2Index(va)..(L2Index(va) + pages - 1)
      BY <2>1 DEF InRange
    <3>3. L2Index(va) \in 0..255
      BY <1>2, SplitVa
    <3>4. pa + (k - L2Index(va)) \in Int
          /\ pa + (k - L2Index(va)) \notin PhysStart..(PhysStart + 511)
      <4> DEFINE o == L2Index(va)
                 x == pa + (k - o)
      <4>1. o \in 0..255 /\ k \in o..(o + pages - 1)
        BY <3>2, <3>3
      <4> HIDE DEF o
      <4>2. x \in Int /\ x >= pa /\ x < pa + pages
        BY <4>1, <1>2
      <4> HIDE DEF x
      <4>3. x \in Int /\ x \notin PhysStart..(PhysStart + 511)
        BY <4>2, <1>2, PhysStartIs
      <4>. QED  BY <4>3 DEF x, o
    <3>. QED  BY <3>1, <3>4, HarmlessAway
  <2>. QED  BY <2>1, <1>3, <1>6, CoarseSeparated
<1>10. DeviceMapped(r, e)
  <2>1. ASSUME NEW p \in e.page_start..(e.page_count - 1)
        PROVE  MapsTo(r, va + (p - pa), p, Rights(type))
    <3> DEFINE a == va + (p - pa)
    <3>1. /\ L1Index(a) = L1Index(va) /\ L2Index(a) = L2Index(va) + (p - pa)
          /\ L2Index(a) \in 0..255
          /\ InRange(va, pages, L1Index(a), L2Index(a))
      BY <1>1, DeviceAt DEF va, pages, type
    <3> HIDE DEF a
    <3>2. L1Index(a) \in DOMAIN r.l1
      BY <3>1, <1>6 DEF CoarseDone
    <3>3. /\ Translate(r, L1Index(a), L2Index(a)).pa = pa + (L2Index(a) - L2Index(va))
          /\ Translate(r, L1Index(a), L2Index(a)).ap = Rights(type)
      BY <3>1, <3>2, <1>6 DEF CoarseDone
    <3>4. pa + (L2Index(a) - L2Index(va)) = p
      <4>1. L2Index(va) \in 0..255
        BY <1>2, SplitVa
      <4>. QED  BY <4>1, <3>1, <1>2
    <3>5. MapsTo(r, a, p, Rights(type))
      BY <3>3, <3>4 DEF MapsTo
    <3>. QED  BY <3>5 DEF a
  <2>. QED  BY <2>1 DEF DeviceMapped, va, DeviceVa, type
<1>11. ASSUME NEW m \in 1..(n - 1)
       PROVE  DeviceMapped(r, layout[m])
  <2> DEFINE f == layout[m]
  <2>1. /\ LayoutRule(f) /\ DeviceMapped(t, f) /\ m \in 1..11 /\ m # n
    BY <1>3, LayoutRules DEF Devices
  <2> HIDE DEF f
  <2>2. ASSUME NEW p \in f.page_start..(f.page_count - 1), IsIo(f.type)
        PROVE  SameAt(t, r, L1Index(DeviceVa(f) + (p - f.page_start)),
                            L2Index(DeviceVa(f) + (p - f.page_start)))
    <3> DEFINE a == DeviceVa(f) + (p - f.page_start)
    <3>1. a \in Nat /\ a \in DeviceVa(f)..(DeviceVa(f) + DevicePages(f) - 1)
          /\ L2Index(a) \in 0..255
      BY <2>1, <2>2, DeviceAt
    <3> HIDE DEF a
    <3>2. Apart(f, e)
      BY <1>1, <2>1, <2>2, LayoutApart DEF f, type
    <3>3. DeviceVa(f) \in Nat /\ DevicePages(f) \in Nat
      BY <2>1, <2>2 DEF LayoutRule, EntryRule, DevicePages
    <3>4. a \notin va..(va + pages - 1)
      BY <3>1, <3>2, <3>3, <1>2 DEF Apart, va, pages
    <3>5. ~InRange(va, pages, L1Index(a), L2Index(a))
      BY <3>1, <3>4, <1>2, RangeMeans
    <3>6. SameAt(t, r, L1Index(a), L2Index(a))
      BY <3>1, <3>5, <1>6, CoarseElsewhere
    <3>. QED  BY <3>6 DEF a
  <2>. QED  BY <2>1, <2>2, DeviceKept DEF f
<1>12. Devices(r, n + 1)
  <2>1. \A m \in 1..((n + 1) - 1) : m = n \/ m \in 1..(n - 1)
    OBVIOUS
  <2>. QED  BY <2>1, <1>10, <1>11 DEF Devices
<1>. QED  BY <1>6, <1>7, <1>8, <1>9, <1>12 DEF Before, CoarseDone

(* Memory for guests.                                                      *)
RamSections(e) == [i \in L1Index(e.page_start)..(L1Index(e.page_count) - 1) |-> 256 * i]
RamRange(t, e) == pt_create_section(t, RamSections(e), e.type)

(* Mapping it changes no device.                                           *)
LEMMA RamStep ==
  ASSUME BootMapAssumption, board \in Boards, NEW t, NEW n \in 1..11,
         ~IsIo(layout[n].type), Before(t, n), t.l2_index_p < n
  PROVE  /\ Before(RamRange(t, layout[n]), n + 1)
         /\ RamRange(t, layout[n]).l2_index_p < n + 1
<1> DEFINE e == layout[n]
           ms == RamSections(e)
           type == e.type
           r == RamRange(t, e)
           first == L1Index(e.page_start)
           last == L1Index(e.page_count)
           Goal == Before(r, n + 1) /\ r.l2_index_p < n + 1
<1> SUFFICES Goal  OBVIOUS
<1>1. LayoutRule(e)
  BY LayoutRules
<1>2. /\ type \in {"USER_RAM", "TRUSTED_RAM"} /\ first \in Nat /\ last \in 0..\hC00
      /\ \/ first * 256 >= PhysStart + 512
         \/ (first * 256 >= PhysStart + 256 /\ type = "TRUSTED_RAM")
  BY <1>1 DEF LayoutRule, EntryRule
<1>3. /\ TablesOk(t) /\ HypervisorIn(t) /\ LowOrDevice(t) /\ Separated(t) /\ Devices(t, n)
      /\ t.l2_index_p \in Nat
  BY DEF Before, TablesOk
<1>4. r = pt_create_section(t, ms, type)
  BY DEF RamRange
<1>5. DOMAIN ms = first..(last - 1) /\ \A i \in first..(last - 1) : ms[i] = 256 * i
  BY DEF RamSections
<1> HIDE DEF ms, r, type, first, last, e
<1>6. \A i \in DOMAIN ms : i \in Nat /\ i < \hC00
  <2>1. ASSUME NEW i \in first..(last - 1)
        PROVE  i \in Nat /\ i < \hC00
    BY <1>2
  <2>. QED  BY <2>1, <1>5
<1>7. SectionsDone(t, r, ms, type)
  <2>1. SectionsReady(t, ms, type)
    BY <1>2, <1>3, <1>6 DEF SectionsReady
  <2>. QED  BY <2>1, <1>4, SectionsEffect
<1>8. r.l2_index_p < n + 1
  BY <1>7, <1>3 DEF SectionsDone
<1>9. LowOrDevice(r) /\ HypervisorIn(r)
  <2>1. /\ \A v \in DOMAIN r.l1 : v \in DOMAIN t.l1 \/ v \in DOMAIN ms
        /\ \A v \in DOMAIN t.l1 : v \in DOMAIN r.l1 /\ r.l1[v] = t.l1[v]
    BY <1>7 DEF SectionsDone, KeepsEntries
  <2>. QED  BY <2>1, <1>3, <1>6 DEF LowOrDevice, HypervisorIn
<1>10. Separated(r)
  <2>1. ASSUME NEW v \in DOMAIN ms, NEW k \in 0..255
        PROVE  Harmless([pa |-> ms[v] + k, ap |-> "USER_RW", domain |-> Domain(type)])
    <3> DEFINE x == [pa |-> ms[v] + k, ap |-> "USER_RW", domain |-> Domain(type)]
    <3>1. x.pa = 256 * v + k /\ x.domain = Domain(type)
      BY <1>5
    <3> HIDE DEF x
    <3>2. v \in Nat /\ first <= v
      BY <1>5, <1>6, <1>2
    <3>3. CASE first * 256 >= PhysStart + 512
      <4>1. x.pa \in Int /\ x.pa \notin PhysStart..(PhysStart + 511)
        BY <3>1, <3>2, <3>3, <1>2, PhysStartIs
      <4>. QED  BY <4>1, HarmlessAway DEF x
    <3>4. CASE first * 256 >= PhysStart + 256 /\ type = "TRUSTED_RAM"
      <4>1. x.pa \notin Hypervisor
        BY <3>1, <3>2, <3>4, <1>2, PhysStartIs DEF Hypervisor
      <4>2. x.domain = "TRUSTED"
        BY <3>1, <3>4 DEF Domain
      <4>3. Harmless(x)
        BY <4>1, <4>2 DEF Harmless
      <4>. QED  BY <4>3 DEF x
    <3>. QED  BY <3>3, <3>4, <1>2
  <2>. QED  BY <2>1, <1>3, <1>7, SectionsSeparated
<1>11. ASSUME NEW m \in 1..n
       PROVE  DeviceMapped(r, layout[m])
  <2>1. CASE m = n
    BY <2>1 DEF DeviceMapped
  <2>2. CASE m # n
    <3> DEFINE f == layout[m]
    <3>1. LayoutRule(f) /\ DeviceMapped(t, f)
      <4>1. m \in 1..11 /\ m \in 1..(n - 1)
        BY <2>2
      <4>. QED  BY <4>1, <1>3, LayoutRules DEF Devices
    <3> HIDE DEF f
    <3>2. ASSUME NEW p \in f.page_start..(f.page_count - 1), IsIo(f.type)
          PROVE  SameAt(t, r, L1Index(DeviceVa(f) + (p - f.page_start)),
                              L2Index(DeviceVa(f) + (p - f.page_start)))
      <4> DEFINE a == DeviceVa(f) + (p - f.page_start)
      <4>1. L1Index(a) \in \hF02..\hFFE /\ L2Index(a) \in 0..255
        BY <3>1, <3>2, DeviceAt
      <4> HIDE DEF a
      <4>2. L1Index(a) \notin DOMAIN ms
        BY <4>1, <1>6
      <4>3. SameAt(t, r, L1Index(a), L2Index(a))
        BY <4>1, <4>2, <1>7, SectionsElsewhere
      <4>. QED  BY <4>3 DEF a
    <3>. QED  BY <3>1, <3>2, DeviceKept DEF f
  <2>. QED  BY <2>1, <2>2
<1>12. Devices(r, n + 1)
  BY <1>11 DEF Devices
<1>. QED  BY <1>7, <1>8, <1>9, <1>10, <1>12 DEF Before, SectionsDone

(* The exception vectors.                                                  *)
VectorRange(t) == pt_create_coarse(t, VectorsStart, PhysStart + VectorOffset, 1, "USER_ROM")

(* They are the only page of the hypervisor's that guests can read so far. *)
LEMMA VectorStep ==
  ASSUME BootMapAssumption, board \in Boards, NEW t, Before(t, 12), t.l2_index_p < 12
  PROVE  Before(VectorRange(t), 12) /\ VectorRange(t).l2_index_p < 13
<1> DEFINE va == VectorsStart
           pa == PhysStart + VectorOffset
           type == "USER_ROM"
           r == VectorRange(t)
           Goal == Before(r, 12) /\ r.l2_index_p < 13
<1> SUFFICES Goal  OBVIOUS
<1>1. va \in Nat /\ L1Index(va) = \hFFF /\ L2Index(va) = 240 /\ pa \in Int
  BY PhysStartIs DEF L1Index, L2Index, VectorsStart
<1>2. /\ TablesOk(t) /\ HypervisorIn(t) /\ LowOrDevice(t) /\ Separated(t) /\ Devices(t, 12)
      /\ t.l2_index_p \in Nat
  BY DEF Before, TablesOk
<1>3. r = pt_create_coarse(t, va, pa, 1, type)
  BY DEF VectorRange
<1> HIDE DEF r, va
<1>4. CoarseReady(t, va, pa, 1)
  <2>1. ~NoTableLeft(t)
    BY <1>2 DEF NoTableLeft
  <2>2. L1Index(va) \in DOMAIN t.l1 => Coarse(t.l1[L1Index(va)])
    BY <1>1, <1>2 DEF LowOrDevice
  <2>. QED  BY <1>1, <1>2, <2>1, <2>2 DEF CoarseReady
<1> HIDE DEF pa
<1>5. CoarseDone(t, r, va, pa, 1, type)
  BY <1>3, <1>4, CoarseEffect
<1>6. r.l2_index_p < 13
  BY <1>5, <1>2 DEF CoarseDone
<1>7. LowOrDevice(r) /\ HypervisorIn(r)
  <2>1. L1Index(va) \in Nat /\ L1Index(va) >= \hF02
    BY <1>1
  <2>. QED  BY <2>1, <1>2, <1>5, CoarseLowOrDevice
<1>8. Separated(r)
  <2>1. ASSUME NEW v \in DOMAIN r.l1, NEW k \in 0..255, InRange(va, 1, v, k)
        PROVE  Harmless(Translate(r, v, k))
    <3>1. /\ Translate(r, v, k).pa = pa + (k - L2Index(va))
          /\ Translate(r, v, k).ap = Rights(type)
      BY <2>1, <1>5 DEF CoarseDone
    <3>2. k = 240
      BY <2>1, <1>1 DEF InRange
    <3>3. Translate(r, v, k).pa = PhysStart + VectorOffset
      BY <3>1, <3>2, <1>1 DEF pa
    <3>4. Translate(r, v, k).ap = "USER_RO"
      BY <3>1 DEF Rights
    <3>5. PhysStart + VectorOffset \notin PhysStart + 256..PhysStart + 511
      BY PhysStartIs
    <3>. QED  BY <3>3, <3>4, <3>5 DEF Harmless
  <2>. QED  BY <2>1, <1>2, <1>5, CoarseSeparated
<1>9. ASSUME NEW m \in 1..11
       PROVE  DeviceMapped(r, layout[m])
  <2> DEFINE f == layout[m]
  <2>1. LayoutRule(f) /\ DeviceMapped(t, f)
    BY <1>2, LayoutRules DEF Devices
  <2> HIDE DEF f
  <2>2. ASSUME NEW p \in f.page_start..(f.page_count - 1), IsIo(f.type)
        PROVE  SameAt(t, r, L1Index(DeviceVa(f) + (p - f.page_start)),
                            L2Index(DeviceVa(f) + (p - f.page_start)))
    <3> DEFINE a == DeviceVa(f) + (p - f.page_start)
    <3>1. L1Index(a) \in \hF02..\hFFE /\ L2Index(a) \in 0..255
      BY <2>1, <2>2, DeviceAt
    <3> HIDE DEF a
    <3>2. ~InRange(va, 1, L1Index(a), L2Index(a))
      BY <3>1, <1>1 DEF InRange
    <3>3. SameAt(t, r, L1Index(a), L2Index(a))
      BY <3>1, <3>2, <1>5, CoarseElsewhere
    <3>. QED  BY <3>3 DEF a
  <2>. QED  BY <2>1, <2>2, DeviceKept DEF f
<1>10. Devices(r, 12)
  BY <1>9 DEF Devices
<1>. QED  BY <1>5, <1>6, <1>7, <1>8, <1>10 DEF Before, CoarseDone

(* The pages of the level 1 table, in the table of megabyte m, when that   *)
(* was made last.                                                          *)
SwapperReady(t, m, last) ==
  /\ TablesOk(t) /\ last = t.l2_index_p - 1
  /\ m \in DOMAIN t.l1 /\ Coarse(t.l1[m]) /\ t.l1[m].at = last
SwapperIn(t) == WithSlpt(t, Over(SwapperPages(t.l2_index_p - 1), t.slpt))
SwapperDone(t, r, m) ==
  /\ TablesOk(r) /\ r.l1 = t.l1 /\ r.l2_index_p = t.l2_index_p
  /\ \A k \in 4..7 : /\ Translate(r, m, k).pa = PhysStart + FlptOffset + (k - 4)
                     /\ Translate(r, m, k).ap = "USER_RO"
  /\ \A v, k : k \in 0..255 /\ ~(v = m /\ k \in 4..7) => SameAt(t, r, v, k)

(* Pages 4 to 7 of it now lead there, read only, and nothing else has      *)
(* changed.                                                                *)
LEMMA SwapperEffect ==
  ASSUME BootMapAssumption, board \in Boards, NEW t, NEW m, NEW last, SwapperReady(t, m, last)
  PROVE  SwapperDone(t, SwapperIn(t), m)
<1> DEFINE i == t.l2_index_p
           pages == SwapperPages(last)
           r == SwapperIn(t)
           Goal == SwapperDone(t, r, m)
<1> SUFFICES Goal  OBVIOUS
<1>1. /\ t = [l1 |-> t.l1, slpt |-> t.slpt, l2_index_p |-> i, corrupted |-> FALSE]
      /\ i \in Nat /\ DOMAIN t.l1 \subseteq Nat /\ DOMAIN t.slpt \subseteq 0..(256 * i - 1)
      /\ \A v \in DOMAIN t.l1 : Coarse(t.l1[v]) => t.l1[v].at \in 0..(i - 1)
      /\ \A u, v \in DOMAIN t.l1 :
           Coarse(t.l1[u]) /\ Coarse(t.l1[v]) /\ t.l1[u].at = t.l1[v].at => u = v
      /\ last = i - 1 /\ m \in DOMAIN t.l1 /\ Coarse(t.l1[m]) /\ t.l1[m].at = last
  BY DEF SwapperReady, TablesOk
<1>2. last \in Nat
  BY <1>1
<1>3. /\ r.l1 = t.l1 /\ r.l2_index_p = i /\ r.slpt = Over(pages, t.slpt)
      /\ r = [l1 |-> r.l1, slpt |-> r.slpt, l2_index_p |-> r.l2_index_p, corrupted |-> FALSE]
  <2> DEFINE no == FALSE
             over == Over(pages, t.slpt)
  <2>1. t = RecordAs(t.l1, t.slpt, i, no) /\ r = WithSlpt(t, over)
    BY <1>1 DEF RecordAs, SwapperIn, SwapperReady
  <2>. HIDE DEF no, over, r, i
  <2>2. WithSlpt(RecordAs(t.l1, t.slpt, i, no), over) = RecordAs(t.l1, over, i, no)
    BY RecordExcept
  <2>3. r = RecordAs(t.l1, over, i, no)
    BY <2>1, <2>2, Zenon
  <2>4. r = [l1 |-> t.l1, slpt |-> over, l2_index_p |-> i, corrupted |-> FALSE]
    BY <2>3 DEF RecordAs, no
  <2>. QED  BY <2>4 DEF over
<1>4. /\ DOMAIN pages = (256 * last + 4)..(256 * last + 7)
      /\ \A w \in (256 * last + 4)..(256 * last + 7) :
           pages[w] = [pa |-> PhysStart + FlptOffset + w - (256 * last + 4), ap |-> "USER_RO"]
  BY DEF SwapperPages
<1> HIDE DEF r, pages
<1>5. /\ DOMAIN Over(pages, t.slpt) = DOMAIN pages \cup DOMAIN t.slpt
      /\ \A x \in DOMAIN pages : Over(pages, t.slpt)[x] = pages[x]
      /\ \A x \in DOMAIN t.slpt : x \notin DOMAIN pages => Over(pages, t.slpt)[x] = t.slpt[x]
  BY OverIs
<1>6. /\ DOMAIN r.slpt = ((256 * last + 4)..(256 * last + 7)) \cup DOMAIN t.slpt
      /\ \A w \in (256 * last + 4)..(256 * last + 7) :
           r.slpt[w] = [pa |-> PhysStart + FlptOffset + w - (256 * last + 4), ap |-> "USER_RO"]
      /\ \A w \in DOMAIN t.slpt :
           w \notin (256 * last + 4)..(256 * last + 7) => r.slpt[w] = t.slpt[w]
  BY <1>3, <1>4, <1>5
<1>7. TablesOk(r)
  <2>1. \A w \in (256 * last + 4)..(256 * last + 7) : w \in 0..(256 * i - 1)
    BY <1>1, <1>2
  <2>2. DOMAIN r.slpt \subseteq 0..(256 * i - 1)
    BY <2>1, <1>1, <1>6
  <2>. QED  BY <2>2, <1>1, <1>3 DEF TablesOk
<1>8. ASSUME NEW k \in 4..7
      PROVE  /\ Translate(r, m, k).pa = PhysStart + FlptOffset + (k - 4)
             /\ Translate(r, m, k).ap = "USER_RO"
  <2> DEFINE w == 256 * last + k
  <2>1. /\ w \in (256 * last + 4)..(256 * last + 7)
        /\ PhysStart + FlptOffset + w - (256 * last + 4) = PhysStart + FlptOffset + (k - 4)
    BY <1>2, PhysStartIs
  <2>2. w = 256 * last + k
    OBVIOUS
  <2> HIDE DEF w
  <2>3. w \in DOMAIN r.slpt /\ r.slpt[w].ap = "USER_RO"
        /\ r.slpt[w].pa = PhysStart + FlptOffset + (k - 4)
    <3>1. r.slpt[w] = [pa |-> PhysStart + FlptOffset + w - (256 * last + 4), ap |-> "USER_RO"]
          /\ w \in DOMAIN r.slpt
      BY <2>1, <1>6
    <3>2. /\ r.slpt[w].ap = "USER_RO"
          /\ r.slpt[w].pa = PhysStart + FlptOffset + w - (256 * last + 4)
      BY <3>1
    <3>. QED  BY <3>1, <3>2, <2>1
  <2>. QED  BY <2>2, <2>3, <1>1, <1>3 DEF Translate, Coarse
<1>9. ASSUME NEW v, NEW k \in 0..255, ~(v = m /\ k \in 4..7)
      PROVE  SameAt(t, r, v, k)
  <2>1. CASE v \notin DOMAIN t.l1 \/ ~Coarse(t.l1[v])
    BY <2>1, <1>3 DEF Translate, Coarse, SameAt
  <2>2. CASE v \in DOMAIN t.l1 /\ Coarse(t.l1[v])
    <3> DEFINE a == t.l1[v].at
               w == 256 * a + k
    <3>1. a \in Nat /\ (a = last => v = m)
      BY <2>2, <1>1
    <3> HIDE DEF a
    <3>2. w \notin (256 * last + 4)..(256 * last + 7)
      BY <3>1, <1>2, <1>9
    <3> HIDE DEF w
    <3>3. /\ w \in DOMAIN r.slpt <=> w \in DOMAIN t.slpt
          /\ w \in DOMAIN t.slpt => r.slpt[w] = t.slpt[w]
      BY <3>2, <1>6
    <3>. QED  BY <3>3, <2>2, <1>3 DEF Translate, Coarse, SameAt, a, w
  <2>. QED  BY <2>1, <2>2
<1>. QED  BY <1>3, <1>7, <1>8, <1>9 DEF SwapperDone

(* When the memory of Linux is mapped: all but the trusted guest is there. *)
LinuxPlaces(t) ==
  \A v \in DOMAIN t.l1 : v # \hF01
After(t) ==
  /\ TablesOk(t) /\ HypervisorIn(t) /\ LinuxPlaces(t)
  /\ Separated(t) /\ Devices(t, 12) /\ LinuxFindsMemory(t)

(* The steps of init_linux_page.                                           *)
LinuxFirst(t) == pt_create_coarse(t, LinuxStart, LinuxRam, 256, "USER_RAM")
LinuxAll(t) == pt_create_section(LinuxFirst(t), LinuxSections, "USER_RAM")

(* The entry that page k of Linux' memory has.                             *)
LEMMA LinuxMegabyte ==
  ASSUME NEW v \in Nat, NEW o \in Nat, NEW k \in Nat, o < 256, k < 80 * 256,
         NEW b, b = LinuxStart + k, At(b, v, o)
  PROVE  v \in \hC00..\hC4F /\ k = 256 * (v - \hC00) + o
<1>1. 256 * v + o = LinuxStart + k
  BY DEF At
<1>2. v >= \hC00 /\ v <= \hC4F
  BY <1>1 DEF LinuxStart
<1>3. v \in \hC00..\hC4F
  BY <1>2
<1>4. k = 256 * (v - \hC00) + o
  BY <1>1 DEF LinuxStart
<1>. QED  BY <1>3, <1>4

(* Its megabytes were free, so that Linux gets a table of its own, and it  *)
(* is the one made last.                                                   *)
LEMMA LinuxStep ==
  ASSUME BootMapAssumption, board \in Boards, NEW t, Before(t, 12), t.l2_index_p < 13
  PROVE  After(SwapperIn(LinuxAll(t)))
<1> DEFINE va == LinuxStart
           pa == LinuxRam
           type == "USER_RAM"
           ms == LinuxSections
           f == LinuxFirst(t)
           a == LinuxAll(t)
           r == SwapperIn(a)
           Goal == After(r)
<1> SUFFICES Goal  OBVIOUS
<1>1. va \in Nat /\ L1Index(va) = \hC00 /\ L2Index(va) = 0 /\ pa \in Int
      /\ pa = PhysStart + \h1000 /\ PhysStart \in Nat
  BY PhysStartIs DEF L1Index, L2Index, LinuxRam, LinuxStart
<1>2. /\ TablesOk(t) /\ HypervisorIn(t) /\ LowOrDevice(t) /\ Separated(t) /\ Devices(t, 12)
      /\ t.l2_index_p \in Nat
  BY DEF Before, TablesOk
<1>3. f = pt_create_coarse(t, va, pa, 256, type) /\ a = pt_create_section(f, ms, type)
  BY DEF LinuxFirst, LinuxAll
<1>4. /\ DOMAIN ms = \hC01..\hC4F
      /\ \A v \in DOMAIN ms : ms[v] = pa + 256 * (v - \hC00)
  BY DEF LinuxSections, L1Index, LinuxStart
<1>5. \hC00 \notin DOMAIN t.l1 /\ \hF01 \notin DOMAIN t.l1
      /\ \A v \in DOMAIN ms : v \notin DOMAIN t.l1
  BY <1>2, <1>4 DEF LowOrDevice
<1> HIDE DEF f, a, r, va, ms, pa
<1>6. CoarseReady(t, va, pa, 256)
  <2>1. ~NoTableLeft(t)
    BY <1>2 DEF NoTableLeft
  <2>. QED  BY <1>1, <1>2, <1>5, <2>1 DEF CoarseReady
<1>7. CoarseDone(t, f, va, pa, 256, type)
  BY <1>3, <1>6, CoarseEffect
<1>8. /\ \hC00 \in DOMAIN f.l1 /\ Coarse(f.l1[\hC00])
      /\ f.l1[\hC00].at = f.l2_index_p - 1
      /\ DOMAIN f.l1 = DOMAIN t.l1 \cup {\hC00}
  <2>1. /\ f.l1[\hC00] = Table(t.l2_index_p, type) /\ f.l2_index_p = t.l2_index_p + 1
        /\ DOMAIN f.l1 = DOMAIN t.l1 \cup {\hC00} /\ Coarse(f.l1[\hC00])
    BY <1>1, <1>5, <1>7 DEF CoarseDone
  <2>2. f.l1[\hC00].at = t.l2_index_p
    BY <2>1 DEF Table
  <2>. QED  BY <2>1, <2>2, <1>2
<1>9. SectionsDone(f, a, ms, type)
  <2>1. SectionsReady(f, ms, type)
    BY <1>7, <1>4 DEF SectionsReady, CoarseDone
  <2>. QED  BY <2>1, <1>3, SectionsEffect
<1>10. SwapperDone(a, r, \hC00)
  <2>1. SwapperReady(a, \hC00, a.l2_index_p - 1)
    BY <1>8, <1>9 DEF SwapperReady, SectionsDone, KeepsEntries
  <2>. QED  BY <2>1, SwapperEffect DEF r
<1>11. /\ TablesOk(r) /\ r.l1 = a.l1
       /\ DOMAIN r.l1 = DOMAIN t.l1 \cup {\hC00} \cup (\hC01..\hC4F)
       /\ KeepsEntries(t, r)
  <2>1. TablesOk(r) /\ r.l1 = a.l1
    BY <1>10 DEF SwapperDone
  <2>2. DOMAIN a.l1 = DOMAIN f.l1 \cup DOMAIN ms
    BY <1>9 DEF SectionsDone
  <2>3. KeepsEntries(t, f) /\ KeepsEntries(f, a)
    BY <1>7, <1>9 DEF CoarseDone, SectionsDone
  <2>. QED  BY <2>1, <2>2, <2>3, <1>4, <1>8 DEF KeepsEntries
<1>12. HypervisorIn(r)
  BY <1>2, <1>11 DEF HypervisorIn, KeepsEntries
<1>13. LinuxPlaces(r)
  BY <1>5, <1>11 DEF LinuxPlaces
<1>14. Separated(f)
  <2>1. ASSUME NEW v \in DOMAIN f.l1, NEW k \in 0..255, InRange(va, 256, v, k)
        PROVE  Harmless(Translate(f, v, k))
    <3>1. Translate(f, v, k).pa = pa + (k - L2Index(va))
      BY <2>1, <1>7 DEF CoarseDone
    <3>2. Translate(f, v, k).pa = pa + k
      BY <3>1, <1>1
    <3>. QED  BY <3>2, <1>1, HarmlessAway
  <2>. QED  BY <2>1, <1>2, <1>7, CoarseSeparated
<1>15. Separated(a)
  <2>1. ASSUME NEW v \in DOMAIN ms, NEW k \in 0..255
        PROVE  Harmless([pa |-> ms[v] + k, ap |-> "USER_RW", domain |-> Domain(type)])
    <3> DEFINE x == [pa |-> ms[v] + k, ap |-> "USER_RW", domain |-> Domain(type)]
    <3>1. x.pa = pa + 256 * (v - \hC00) + k /\ v \in \hC01..\hC4F
      BY <1>4
    <3> HIDE DEF x
    <3>2. x.pa \in Int /\ x.pa \notin PhysStart..(PhysStart + 511)
      BY <3>1, <1>1
    <3>3. Harmless(x)
      BY <3>2, HarmlessAway
    <3>. QED  BY <3>3 DEF x
  <2>. QED  BY <2>1, <1>14, <1>9, SectionsSeparated
<1>16. Separated(r)
  <2> SUFFICES ASSUME NEW v \in DOMAIN r.l1, NEW k \in 0..255
               PROVE  Harmless(Translate(r, v, k))
    BY DEF Separated
  <2>1. CASE v = \hC00 /\ k \in 4..7
    <3>1. /\ Translate(r, v, k).pa = PhysStart + FlptOffset + (k - 4)
          /\ Translate(r, v, k).ap = "USER_RO"
      BY <2>1, <1>10 DEF SwapperDone
    <3>2. PhysStart + FlptOffset + (k - 4) \in FlptPages
          /\ PhysStart + FlptOffset + (k - 4) \notin PhysStart + 256..PhysStart + 511
      BY <2>1, PhysStartIs DEF FlptPages
    <3>. QED  BY <3>1, <3>2 DEF Harmless
  <2>2. CASE ~(v = \hC00 /\ k \in 4..7)
    <3>1. Translate(r, v, k) = Translate(a, v, k)
      BY <2>2, <1>10 DEF SwapperDone, SameAt
    <3>. QED  BY <3>1, <1>11, <1>15 DEF Separated
  <2>. QED  BY <2>1, <2>2
<1>17. ASSUME NEW m \in 1..11
       PROVE  DeviceMapped(r, layout[m])
  <2> DEFINE e == layout[m]
  <2>1. LayoutRule(e) /\ DeviceMapped(t, e)
    BY <1>2, LayoutRules DEF Devices
  <2> HIDE DEF e
  <2>2. ASSUME NEW p \in e.page_start..(e.page_count - 1), IsIo(e.type)
        PROVE  SameAt(t, r, L1Index(DeviceVa(e) + (p - e.page_start)),
                            L2Index(DeviceVa(e) + (p - e.page_start)))
    <3> DEFINE b == DeviceVa(e) + (p - e.page_start)
    <3>1. L1Index(b) \in \hF02..\hFFE /\ L2Index(b) \in 0..255
      BY <2>1, <2>2, DeviceAt
    <3> HIDE DEF b
    <3>2. ~InRange(va, 256, L1Index(b), L2Index(b)) /\ L1Index(b) \notin DOMAIN ms
          /\ L1Index(b) # \hC00
      BY <3>1, <1>1, <1>4 DEF InRange
    <3>3. SameAt(t, f, L1Index(b), L2Index(b))
      BY <3>1, <3>2, <1>7, CoarseElsewhere
    <3>4. SameAt(f, a, L1Index(b), L2Index(b))
      BY <3>1, <3>2, <1>9, SectionsElsewhere
    <3>5. SameAt(a, r, L1Index(b), L2Index(b))
      BY <3>1, <3>2, <1>10 DEF SwapperDone
    <3>. QED  BY <3>3, <3>4, <3>5 DEF SameAt, b
  <2>. QED  BY <2>1, <2>2, DeviceKept DEF e
<1>18. Devices(r, 12)
  BY <1>17 DEF Devices
<1>19. LinuxFindsMemory(r)
  <2> SUFFICES ASSUME NEW k \in 0..(80 * 256 - 1)
               PROVE  LinuxPage(r, k)
    BY DEF LinuxFindsMemory
  <2> DEFINE b == LinuxStart + k
             v == L1Index(b)
             o == L2Index(b)
  <2>1. /\ v \in Nat /\ o \in 0..255 /\ b = 256 * v + o
    <3>1. b \in Nat
      BY DEF LinuxStart
    <3>. HIDE DEF b
    <3>. QED  BY <3>1, SplitVa
  <2>2. b = LinuxStart + k
    OBVIOUS
  <2> HIDE DEF b, v, o
  <2>3. /\ v \in \hC00..\hC4F /\ k = 256 * (v - \hC00) + o
    <3>1. At(b, v, o)
      BY <2>1 DEF At
    <3>2. o \in Nat /\ k \in Nat /\ o < 256 /\ k < 80 * 256
      BY <2>1
    <3>3. v \in Nat
      BY <2>1
    <3>. QED  BY <3>1, <3>2, <3>3, <2>2, LinuxMegabyte
  <2>4. CASE v = \hC00
    <3>1. k = o
      BY <2>1, <2>3, <2>4
    <3>2. InRange(va, 256, v, o) /\ v \in DOMAIN f.l1
      <4>1. v = L1Index(va) /\ o \in L2Index(va)..(L2Index(va) + 256 - 1)
        BY <2>4, <2>1, <1>1
      <4>. QED  BY <4>1, <2>4, <1>8 DEF InRange
    <3>3. Translate(f, v, o).pa = pa + (o - L2Index(va)) /\ Translate(f, v, o).ap = Rights(type)
      BY <2>1, <3>2, <1>7 DEF CoarseDone
    <3>4. Translate(f, v, o).pa = pa + k /\ Translate(f, v, o).ap = "USER_RW"
      BY <3>1, <3>3, <1>1, <2>1 DEF Rights
    <3>5. SameAt(f, a, v, o)
      BY <2>1, <3>2, <1>9, SectionsElsewhere
    <3>6. CASE k \in 4..7
      <4>1. /\ Translate(r, v, o).pa = PhysStart + FlptOffset + (k - 4)
            /\ Translate(r, v, o).ap = "USER_RO"
        BY <3>1, <3>6, <2>4, <1>10 DEF SwapperDone
      <4>2. MapsTo(r, b, PhysStart + FlptOffset + (k - 4), "USER_RO")
        BY <4>1 DEF MapsTo, v, o
      <4>. QED  BY <4>2, <3>6, Zenon DEF b, LinuxPage
    <3>7. CASE k \notin 4..7
      <4>1. SameAt(a, r, v, o)
        BY <2>1, <3>1, <3>7, <1>10 DEF SwapperDone
      <4>2. MapsTo(r, b, LinuxRam + k, "USER_RW")
        BY <4>1, <3>4, <3>5 DEF MapsTo, SameAt, v, o, pa
      <4>. QED  BY <4>2, <3>7, Zenon DEF b, LinuxPage
    <3>. QED  BY <3>6, <3>7
  <2>5. CASE v # \hC00
    <3>1. v \in DOMAIN ms /\ k \notin 4..7
      <4>1. v \in \hC01..\hC4F
        BY <2>3, <2>5
      <4>2. k >= 256
        BY <4>1, <2>1, <2>3
      <4>. QED  BY <4>1, <4>2, <1>4
    <3>2. v \notin DOMAIN f.l1
      BY <3>1, <2>5, <1>5, <1>8
    <3>3. Translate(a, v, o) = [pa |-> ms[v] + o, ap |-> "USER_RW", domain |-> Domain(type)]
      <4>1. o \in 0..255
        BY <2>1
      <4>. QED  BY <4>1, <3>1, <3>2, <1>9, ZenonT(40) DEF SectionsDone
    <3>4. SameAt(a, r, v, o)
      BY <2>1, <2>5, <1>10 DEF SwapperDone
    <3>5. ms[v] + o = pa + k
      <4>1. ms[v] = pa + 256 * (v - \hC00)
        BY <3>1, <1>4
      <4>. QED  BY <4>1, <2>1, <2>3, <1>1
    <3>6. MapsTo(r, b, LinuxRam + k, "USER_RW")
      BY <3>3, <3>4, <3>5 DEF MapsTo, SameAt, v, o, pa
    <3>. QED  BY <3>1, <3>6, Zenon DEF b, LinuxPage
  <2>. QED  BY <2>4, <2>5
<1>. QED  BY <1>11, <1>12, <1>13, <1>16, <1>18, <1>19 DEF After

(* The trusted guest's megabyte.                                           *)
TrustedAll(t) == pt_create_section(t, TrustedSection, "TRUSTED_RAM")
TrustedIn(t) ==
  \hF01 \in DOMAIN t.l1 /\ t.l1[\hF01] = RamSection(PhysStart + \h100, "TRUSTED_RAM")
Ready(t) ==
  /\ TablesOk(t) /\ HypervisorIn(t)
  /\ Separated(t) /\ Devices(t, 12) /\ LinuxFindsMemory(t)

(* It was free, too.                                                       *)
LEMMA TrustedStep ==
  ASSUME BootMapAssumption, board \in Boards, NEW t, After(t)
  PROVE  Ready(TrustedAll(t)) /\ TrustedIn(TrustedAll(t))
<1> DEFINE type == "TRUSTED_RAM"
           ms == TrustedSection
           r == TrustedAll(t)
           Goal == Ready(r) /\ TrustedIn(r)
<1> SUFFICES Goal  OBVIOUS
<1>1. /\ TablesOk(t) /\ HypervisorIn(t) /\ LinuxPlaces(t) /\ Separated(t) /\ Devices(t, 12)
      /\ LinuxFindsMemory(t)
  BY DEF After
<1>2. DOMAIN ms = {\hF01} /\ ms[\hF01] = PhysStart + \h100
  BY DEF TrustedSection, L1Index, TrustedStart
<1>3. r = pt_create_section(t, ms, type)
  BY DEF TrustedAll
<1>4. \hF01 \notin DOMAIN t.l1
  BY <1>1 DEF LinuxPlaces
<1> HIDE DEF ms, r
<1>5. SectionsDone(t, r, ms, type)
  <2>1. SectionsReady(t, ms, type)
    BY <1>1, <1>2 DEF SectionsReady
  <2>. QED  BY <2>1, <1>3, SectionsEffect
<1>6. TablesOk(r) /\ HypervisorIn(r)
  BY <1>1, <1>5 DEF SectionsDone, KeepsEntries, HypervisorIn
<1>7. TrustedIn(r)
  BY <1>2, <1>4, <1>5 DEF SectionsDone, TrustedIn
<1>8. Separated(r)
  <2>1. ASSUME NEW v \in DOMAIN ms, NEW k \in 0..255
        PROVE  Harmless([pa |-> ms[v] + k, ap |-> "USER_RW", domain |-> Domain(type)])
    <3> DEFINE x == [pa |-> ms[v] + k, ap |-> "USER_RW", domain |-> Domain(type)]
    <3>1. x.pa = PhysStart + 256 + k /\ x.domain = "TRUSTED"
      BY <1>2 DEF Domain
    <3> HIDE DEF x
    <3>2. x.pa \notin Hypervisor
      BY <3>1, PhysStartIs DEF Hypervisor
    <3>3. Harmless(x)
      BY <3>1, <3>2 DEF Harmless
    <3>. QED  BY <3>3 DEF x
  <2>. QED  BY <2>1, <1>1, <1>5, SectionsSeparated
<1>9. ASSUME NEW a \in Nat, NEW pa, NEW ap, MapsTo(t, a, pa, ap), L1Index(a) # \hF01
      PROVE  MapsTo(r, a, pa, ap)
  <2>1. L2Index(a) \in 0..255
    BY SplitVa
  <2>2. L1Index(a) \notin DOMAIN ms
    BY <1>9, <1>2
  <2>3. SameAt(t, r, L1Index(a), L2Index(a))
    BY <2>1, <2>2, <1>5, SectionsElsewhere
  <2>. QED  BY <2>3, <1>9, MappingKept
<1>10. ASSUME NEW m \in 1..11
       PROVE  DeviceMapped(r, layout[m])
  <2> DEFINE e == layout[m]
  <2>1. LayoutRule(e) /\ DeviceMapped(t, e)
    BY <1>1, LayoutRules DEF Devices
  <2> HIDE DEF e
  <2>2. ASSUME NEW p \in e.page_start..(e.page_count - 1), IsIo(e.type)
        PROVE  SameAt(t, r, L1Index(DeviceVa(e) + (p - e.page_start)),
                            L2Index(DeviceVa(e) + (p - e.page_start)))
    <3> DEFINE b == DeviceVa(e) + (p - e.page_start)
    <3>1. L1Index(b) \in \hF02..\hFFE /\ L2Index(b) \in 0..255
      BY <2>1, <2>2, DeviceAt
    <3> HIDE DEF b
    <3>2. L1Index(b) \notin DOMAIN ms
      BY <3>1, <1>2
    <3>3. SameAt(t, r, L1Index(b), L2Index(b))
      BY <3>1, <3>2, <1>5, SectionsElsewhere
    <3>. QED  BY <3>3 DEF b
  <2>. QED  BY <2>1, <2>2, DeviceKept DEF e
<1>11. Devices(r, 12)
  BY <1>10 DEF Devices
<1>12. LinuxFindsMemory(r)
  <2> SUFFICES ASSUME NEW k \in 0..(80 * 256 - 1)
               PROVE  LinuxPage(r, k)
    BY DEF LinuxFindsMemory
  <2> DEFINE b == LinuxStart + k
  <2>1. b \in Nat /\ L1Index(b) # \hF01
    BY DEF LinuxStart, L1Index
  <2>2. LinuxPage(t, k)
    BY <1>1 DEF LinuxFindsMemory
  <2> HIDE DEF b
  <2>3. CASE k \in 4..7
    <3>1. MapsTo(t, b, PhysStart + FlptOffset + (k - 4), "USER_RO")
      BY <2>2, <2>3 DEF LinuxPage, b
    <3>2. MapsTo(r, b, PhysStart + FlptOffset + (k - 4), "USER_RO")
      BY <3>1, <2>1, <1>9
    <3>. QED  BY <3>2, <2>3 DEF LinuxPage, b
  <2>4. CASE k \notin 4..7
    <3>1. MapsTo(t, b, LinuxRam + k, "USER_RW")
      BY <2>2, <2>4 DEF LinuxPage, b
    <3>2. MapsTo(r, b, LinuxRam + k, "USER_RW")
      BY <3>1, <2>1, <1>9
    <3>. QED  BY <3>2, <2>4 DEF LinuxPage, b
  <2>. QED  BY <2>3, <2>4
<1>. QED  BY <1>6, <1>7, <1>8, <1>11, <1>12 DEF Ready

-----------------------------------------------------------------------------
(* The invariant.                                                          *)

(* The parts of the invariant, for the tables of the next state.           *)
LEMMA TablesOkNext ==
  ASSUME NEW x, Tables' = x, TablesOk(x)
  PROVE  TablesOk(Tables)'
  BY DEF TablesOk, Coarse

(* The hypervisor's megabyte.                                              *)
LEMMA HypervisorInNext ==
  ASSUME NEW x, board' = board, Tables' = x, HypervisorIn(x)
  PROVE  HypervisorIn(Tables)'
  BY DEF HypervisorIn, HypervisorSection, PhysStart

(* Where entries are.                                                      *)
LEMMA LowOrDeviceNext ==
  ASSUME NEW x, board' = board, Tables' = x, LowOrDevice(x)
  PROVE  LowOrDevice(Tables)'
  BY DEF LowOrDevice, Coarse

(* Who can reach what.                                                     *)
LEMMA SeparatedNext ==
  ASSUME NEW x, board' = board, Tables' = x, Separated(x)
  PROVE  Separated(Tables)'
<1>1. PhysStart' = PhysStart
  BY DEF PhysStart
<1>2. Hypervisor' = Hypervisor /\ FlptPages' = FlptPages
  BY <1>1 DEF Hypervisor, FlptPages
<1>3. ASSUME NEW t, Harmless(t)
      PROVE  Harmless(t)'
  BY <1>1, <1>2, <1>3 DEF Harmless
<1>4. Separated(x)'
  BY <1>3 DEF Separated
<1>. QED  BY <1>4 DEF Separated

(* The devices.                                                            *)
LEMMA DevicesNext ==
  ASSUME NEW x, NEW n, board' = board, Tables' = x, Devices(x, n), n = layoutEntry'
  PROVE  Devices(Tables, layoutEntry)'
  BY DEF Devices, DeviceMapped, MapsTo, layout, IO_VA_ADDRESS

(* Linux' memory.                                                          *)
LEMMA LinuxFindsMemoryNext ==
  ASSUME NEW x, board' = board, Tables' = x, LinuxFindsMemory(x)
  PROVE  LinuxFindsMemory(Tables)'
<1>1. PhysStart' = PhysStart
  BY DEF PhysStart
<1>2. LinuxRam' = LinuxRam
  BY <1>1 DEF LinuxRam
<1>. QED  BY <1>1, <1>2 DEF LinuxFindsMemory, LinuxPage, MapsTo

(* The inductive invariant: what the tables hold at each stage, and how    *)
(* many level 2 tables are gone at most.                                   *)
BootInv ==
  /\ board \in Boards
  /\ \/ /\ stage = "layout" /\ layoutEntry \in 1..11
        /\ Before(Tables, layoutEntry) /\ next_l2 < layoutEntry
     \/ stage = "vectors" /\ layoutEntry = 12 /\ Before(Tables, layoutEntry) /\ next_l2 < 12
     \/ stage = "linux" /\ layoutEntry = 12 /\ Before(Tables, layoutEntry) /\ next_l2 < 13
     \/ stage = "guests" /\ layoutEntry = 12 /\ After(Tables)
     \/ /\ stage = "start" /\ layoutEntry = 12 /\ Ready(Tables)
        /\ trusted => TrustedIn(Tables)

(* The tables of the next state.                                           *)
LEMMA BecomeIs ==
  ASSUME NEW x, TablesOk(x), Become(x)
  PROVE  Tables' = x /\ next_l2' = x.l2_index_p
<1>1. x = [l1 |-> x.l1, slpt |-> x.slpt, l2_index_p |-> x.l2_index_p, corrupted |-> FALSE]
  BY DEF TablesOk
<1>2. x.corrupted = FALSE
  BY <1>1
<1>3. Tables' = [l1 |-> x.l1, slpt |-> x.slpt, l2_index_p |-> x.l2_index_p, corrupted |-> FALSE]
  BY <1>2 DEF Become, Tables
<1>. QED  BY <1>1, <1>3 DEF Become

(* While the layout is mapped.                                             *)
LEMMA BeforeNext ==
  ASSUME NEW x, board' = board, Become(x), Before(x, layoutEntry')
  PROVE  Before(Tables, layoutEntry)' /\ next_l2' = x.l2_index_p
<1>1. TablesOk(x) /\ HypervisorIn(x) /\ LowOrDevice(x) /\ Separated(x)
      /\ Devices(x, layoutEntry')
  BY DEF Before
<1>2. Tables' = x /\ next_l2' = x.l2_index_p
  BY <1>1, BecomeIs
<1>3. /\ TablesOk(Tables)' /\ HypervisorIn(Tables)' /\ LowOrDevice(Tables)'
      /\ Separated(Tables)' /\ Devices(Tables, layoutEntry)'
  BY <1>1, <1>2, TablesOkNext, HypervisorInNext, LowOrDeviceNext, SeparatedNext, DevicesNext
<1>. QED  BY <1>2, <1>3 DEF Before

(* When Linux' memory is.                                                  *)
LEMMA AfterNext ==
  ASSUME NEW x, board' = board, Become(x), After(x), layoutEntry' = 12
  PROVE  After(Tables)'
<1>1. TablesOk(x) /\ HypervisorIn(x) /\ LinuxPlaces(x) /\ Separated(x)
      /\ Devices(x, layoutEntry') /\ LinuxFindsMemory(x)
  BY DEF After
<1>2. Tables' = x
  BY <1>1, BecomeIs
<1>3. /\ TablesOk(Tables)' /\ HypervisorIn(Tables)' /\ Separated(Tables)'
      /\ Devices(Tables, layoutEntry)' /\ LinuxFindsMemory(Tables)'
  BY <1>1, <1>2, TablesOkNext, HypervisorInNext, SeparatedNext, DevicesNext,
     LinuxFindsMemoryNext
<1>4. LinuxPlaces(Tables)'
  BY <1>1, <1>2 DEF LinuxPlaces
<1>5. Devices(Tables, 12)'
  BY <1>3 DEF Devices
<1>. QED  BY <1>3, <1>4, <1>5 DEF After

(* When the guest starts.                                                  *)
LEMMA ReadyNext ==
  ASSUME NEW x, board' = board, Become(x), Ready(x), layoutEntry' = 12
  PROVE  Ready(Tables)' /\ Tables' = x
<1>1. TablesOk(x) /\ HypervisorIn(x) /\ Separated(x)
      /\ Devices(x, layoutEntry') /\ LinuxFindsMemory(x)
  BY DEF Ready
<1>2. Tables' = x
  BY <1>1, BecomeIs
<1>3. /\ TablesOk(Tables)' /\ HypervisorIn(Tables)' /\ Separated(Tables)'
      /\ Devices(Tables, layoutEntry)' /\ LinuxFindsMemory(Tables)'
  BY <1>1, <1>2, TablesOkNext, HypervisorInNext, SeparatedNext, DevicesNext,
     LinuxFindsMemoryNext
<1>5. Devices(Tables, 12)'
  BY <1>3 DEF Devices
<1>. QED  BY <1>2, <1>3, <1>5 DEF Ready

(* An entry of the layout, of either kind.                                 *)
LEMMA RangeStep ==
  ASSUME BootMapAssumption, board \in Boards, NEW n \in 1..11,
         Before(Tables, n), next_l2 < n
  PROVE  /\ Before(RangeMapped(layout[n]), n + 1)
         /\ RangeMapped(layout[n]).l2_index_p < n + 1
<1>1. Tables.l2_index_p < n
  BY DEF Tables
<1>2. CASE IsIo(layout[n].type)
  <2>1. RangeMapped(layout[n]) = DeviceRange(Tables, layout[n])
    BY <1>2 DEF RangeMapped, DeviceRange, DeviceVa, DevicePages
  <2>. QED  BY <2>1, <1>1, <1>2, DeviceStep
<1>3. CASE ~IsIo(layout[n].type)
  <2>1. RangeMapped(layout[n]) = RamRange(Tables, layout[n])
    BY <1>3 DEF RangeMapped, RamRange, RamSections
  <2>. QED  BY <2>1, <1>1, <1>3, RamStep
<1>. QED  BY <1>2, <1>3

(* The hypervisor's own megabyte.                                          *)
LEMMA BootInvInit ==
  ASSUME BootMapAssumption, BootInit
  PROVE  BootInv
<1>1. board \in Boards /\ stage = "layout" /\ layoutEntry = 1 /\ next_l2 = 0
  BY DEF BootInit
<1>2. /\ DOMAIN l1 = {\hF00} /\ l1[\hF00] = HypervisorSection
      /\ DOMAIN slpt_va = {} /\ corrupted = FALSE
  BY DEF BootInit, L1Index, HypervisorStart
<1>3. HypervisorSection.type = "section" /\ HypervisorSection.at = PhysStart
      /\ HypervisorSection.ap = "SUP_RW" /\ HypervisorSection.domain = "DEFAULT"
  BY DEF HypervisorSection
<1>4. /\ Tables.l1 = l1 /\ Tables.slpt = slpt_va /\ Tables.l2_index_p = 0
      /\ Tables = [l1 |-> Tables.l1, slpt |-> Tables.slpt,
                   l2_index_p |-> Tables.l2_index_p, corrupted |-> FALSE]
  <2>1. Tables = [l1 |-> l1, slpt |-> slpt_va, l2_index_p |-> 0, corrupted |-> FALSE]
    <3>. DEFINE no == FALSE
    <3>1. corrupted = no
      BY <1>2
    <3>. HIDE DEF no
    <3>2. Tables = [l1 |-> l1, slpt |-> slpt_va, l2_index_p |-> 0, corrupted |-> no]
      BY <3>1, <1>1, Zenon DEF Tables
    <3>. QED  BY <3>2 DEF no
  <2>2. Tables.l1 = l1 /\ Tables.slpt = slpt_va /\ Tables.l2_index_p = 0
    BY <2>1
  <2>. QED  BY <2>1, <2>2
<1>5. TablesOk(Tables)
  BY <1>2, <1>3, <1>4 DEF TablesOk, Coarse
<1>6. HypervisorIn(Tables) /\ LowOrDevice(Tables)
  BY <1>2, <1>4 DEF HypervisorIn, LowOrDevice
<1>7. Separated(Tables)
  <2> SUFFICES ASSUME NEW v \in DOMAIN Tables.l1, NEW k \in 0..255
               PROVE  Harmless(Translate(Tables, v, k))
    BY DEF Separated
  <2> DEFINE x == Translate(Tables, v, k)
  <2>1. x.pa = PhysStart + k /\ x.ap = "SUP_RW"
    BY <1>2, <1>3, <1>4 DEF Translate
  <2> HIDE DEF x
  <2>2. x.pa \notin PhysStart + 256..PhysStart + 511
    BY <2>1, <1>1, PhysStartIs
  <2>3. Harmless(x)
    BY <2>1, <2>2 DEF Harmless
  <2>. QED  BY <2>3 DEF x
<1>8. Devices(Tables, 1)
  BY DEF Devices
<1>9. Before(Tables, layoutEntry)
  BY <1>1, <1>5, <1>6, <1>7, <1>8 DEF Before
<1>. QED  BY <1>1, <1>9 DEF BootInv

(* A step that changes nothing.                                            *)
LEMMA BootInvUnchanged ==
  ASSUME BootInv, UNCHANGED bootVars
  PROVE  BootInv'
<1>1. /\ board' = board /\ trusted' = trusted /\ stage' = stage
      /\ layoutEntry' = layoutEntry /\ next_l2' = next_l2 /\ Tables' = Tables
  BY DEF bootVars, Tables
<1>2. PICK x : x = Tables
  OBVIOUS
<1>3. Become(x)
  BY <1>2 DEF Become, Tables, bootVars
<1>4. ASSUME Before(Tables, layoutEntry)
      PROVE  Before(Tables, layoutEntry)'
  <2>1. Before(x, layoutEntry')
    BY <1>1, <1>2, <1>4, Zenon
  <2>. QED  BY <1>1, <1>3, <2>1, BeforeNext
<1>5. ASSUME After(Tables), layoutEntry = 12
      PROVE  After(Tables)'
  <2>1. After(x)
    BY <1>2, <1>5, Zenon
  <2>. QED  BY <1>1, <1>3, <1>5, <2>1, AfterNext
<1>6. ASSUME Ready(Tables), layoutEntry = 12
      PROVE  Ready(Tables)'
  <2>1. Ready(x)
    BY <1>2, <1>6, Zenon
  <2>. QED  BY <1>1, <1>3, <1>6, <2>1, ReadyNext
<1>7. TrustedIn(Tables) => TrustedIn(Tables)'
  BY <1>1 DEF TrustedIn, RamSection, PhysStart
<1>. QED  BY <1>1, <1>4, <1>5, <1>6, <1>7 DEF BootInv

(* Each stage leads to the next.                                           *)
LEMMA BootInvStep ==
  ASSUME BootMapAssumption, BootInv, BootNext
  PROVE  BootInv'
<1>0. board \in Boards /\ Len(layout) = 11
  BY BoardIs DEF BootInv
<1>1. CASE MapRange
  <2> DEFINE n == layoutEntry
             r == RangeMapped(layout[n])
  <2>1. n \in 1..11 /\ Before(Tables, n) /\ next_l2 < n
    BY <1>1 DEF MapRange, BootInv
  <2>2. /\ Become(r) /\ layoutEntry' = n + 1 /\ board' = board
        /\ stage' = IF n = 11 THEN "vectors" ELSE "layout"
    BY <1>0, <1>1 DEF MapRange
  <2>3. Before(r, n + 1) /\ r.l2_index_p < n + 1
    BY <1>0, <2>1, RangeStep
  <2> HIDE DEF r
  <2>4. Before(Tables, layoutEntry)' /\ next_l2' < n + 1
    BY <2>2, <2>3, BeforeNext
  <2>5. board' \in Boards
    BY <1>0, <2>2
  <2>. QED  BY <2>1, <2>2, <2>4, <2>5 DEF BootInv
<1>2. CASE MapVectors
  <2> DEFINE r == VectorRange(Tables)
  <2>1. layoutEntry = 12 /\ Before(Tables, 12) /\ Tables.l2_index_p < 12
    BY <1>2 DEF MapVectors, BootInv, Tables
  <2>2. Become(r) /\ layoutEntry' = 12 /\ board' = board /\ stage' = "linux"
    BY <1>2, <2>1 DEF MapVectors, VectorRange
  <2>3. Before(r, 12) /\ r.l2_index_p < 13
    BY <1>0, <2>1, VectorStep
  <2> HIDE DEF r
  <2>4. Before(Tables, layoutEntry)' /\ next_l2' < 13
    BY <2>2, <2>3, BeforeNext
  <2>. QED  BY <1>0, <2>2, <2>4 DEF BootInv
<1>3. CASE InitLinuxPage
  <2> DEFINE r == SwapperIn(LinuxAll(Tables))
  <2>1. layoutEntry = 12 /\ Before(Tables, 12) /\ Tables.l2_index_p < 13
    BY <1>3 DEF InitLinuxPage, BootInv, Tables
  <2>2. r = LinuxMapped
    BY DEF LinuxMapped, SwapperIn, LinuxAll, LinuxFirst, WithSlpt
  <2>3. Become(r) /\ layoutEntry' = 12 /\ board' = board /\ stage' = "guests"
    BY <1>3, <2>1, <2>2 DEF InitLinuxPage
  <2>4. After(r)
    BY <1>0, <2>1, LinuxStep
  <2> HIDE DEF r
  <2>5. After(Tables)'
    BY <2>3, <2>4, AfterNext
  <2>. QED  BY <1>0, <2>3, <2>5 DEF BootInv
<1>4. CASE MapTrusted
  <2> DEFINE r == IF trusted THEN TrustedAll(Tables) ELSE Tables
  <2>1. layoutEntry = 12 /\ After(Tables)
    BY <1>4 DEF MapTrusted, BootInv
  <2>2. /\ Become(r) /\ layoutEntry' = 12 /\ board' = board /\ stage' = "start"
        /\ trusted' = trusted
    BY <1>4, <2>1 DEF MapTrusted, TrustedAll
  <2>3. Ready(r) /\ (trusted => TrustedIn(r))
    <3>1. CASE trusted
      <4>1. Ready(TrustedAll(Tables)) /\ TrustedIn(TrustedAll(Tables))
        BY <1>0, <2>1, TrustedStep
      <4>. QED  BY <3>1, <4>1
    <3>2. CASE ~trusted
      <4>1. Ready(Tables)
        BY <2>1 DEF After, Ready
      <4>. QED  BY <3>2, <4>1
    <3>. QED  BY <3>1, <3>2
  <2> HIDE DEF r
  <2>4. Ready(Tables)' /\ Tables' = r
    BY <2>2, <2>3, ReadyNext
  <2>5. (trusted => TrustedIn(Tables))'
    BY <2>2, <2>3, <2>4 DEF TrustedIn, RamSection, PhysStart
  <2>. QED  BY <1>0, <2>2, <2>4, <2>5 DEF BootInv
<1>5. CASE Started
  BY <1>5, BootInvUnchanged DEF Started
<1>. QED  BY <1>1, <1>2, <1>3, <1>4, <1>5 DEF BootNext

(* What holds at the start of the guest is what the tables promise.        *)
LEMMA BootInvSeparates ==
  ASSUME BootMapAssumption, BootInv
  PROVE  BootMapSeparates
<1> SUFFICES ASSUME stage = "start"
             PROVE  /\ ~corrupted
                    /\ Separated(Tables)
                    /\ \A k \in 0..255 :
                         MapsTo(Tables, HypervisorStart + k, PhysStart + k, "SUP_RW")
                    /\ \A n \in 1..Len(layout) : DeviceMapped(Tables, layout[n])
                    /\ LinuxFindsMemory(Tables)
                    /\ trusted => \A k \in 0..255 :
                         MapsTo(Tables, TrustedStart + k, PhysStart + 256 + k, "USER_RW")
  BY DEF BootMapSeparates
<1>1. Ready(Tables) /\ (trusted => TrustedIn(Tables)) /\ board \in Boards
  BY DEF BootInv
<1>2. /\ TablesOk(Tables) /\ HypervisorIn(Tables)
      /\ Separated(Tables) /\ Devices(Tables, 12) /\ LinuxFindsMemory(Tables)
  BY <1>1 DEF Ready
<1>3. ~corrupted
  <2>1. Tables.corrupted = FALSE
    BY <1>2 DEF TablesOk
  <2>2. Tables.corrupted = corrupted
    BY DEF Tables
  <2>. QED  BY <2>1, <2>2, Zenon
<1>4. ASSUME NEW k \in 0..255
      PROVE  MapsTo(Tables, HypervisorStart + k, PhysStart + k, "SUP_RW")
  <2> DEFINE a == HypervisorStart + k
  <2>1. L1Index(a) = \hF00 /\ L2Index(a) = k
    BY DEF L1Index, L2Index, HypervisorStart
  <2> HIDE DEF a
  <2>2. /\ Translate(Tables, \hF00, k).pa = PhysStart + k
        /\ Translate(Tables, \hF00, k).ap = "SUP_RW"
    BY <1>2 DEF HypervisorIn, HypervisorSection, Translate
  <2>3. MapsTo(Tables, a, PhysStart + k, "SUP_RW")
    BY <2>1, <2>2 DEF MapsTo
  <2>. QED  BY <2>3 DEF a
<1>5. \A n \in 1..Len(layout) : DeviceMapped(Tables, layout[n])
  <2>1. Len(layout) = 11
    BY <1>1, BoardIs
  <2>. QED  BY <2>1, <1>2 DEF Devices
<1>6. ASSUME trusted, NEW k \in 0..255
      PROVE  MapsTo(Tables, TrustedStart + k, PhysStart + 256 + k, "USER_RW")
  <2> DEFINE a == TrustedStart + k
  <2>1. L1Index(a) = \hF01 /\ L2Index(a) = k
    BY DEF L1Index, L2Index, TrustedStart
  <2> HIDE DEF a
  <2>2. /\ Translate(Tables, \hF01, k).pa = PhysStart + 256 + k
        /\ Translate(Tables, \hF01, k).ap = "USER_RW"
    BY <1>1, <1>6 DEF TrustedIn, RamSection, Translate
  <2>3. MapsTo(Tables, a, PhysStart + 256 + k, "USER_RW")
    BY <2>1, <2>2 DEF MapsTo
  <2>. QED  BY <2>3 DEF a
<1>. QED  BY <1>2, <1>3, <1>4, <1>5, <1>6

(* BootMapSeparates, on both boards, with or without the trusted guest,    *)
(* wherever the vectors and the aligned level 1 table lie in the           *)
(* hypervisor's megabyte: when the guest starts, the page tables of        *)
(* memory_init, init_linux_page and guests_init separate the hypervisor,   *)
(* the trusted guest and Linux, and map each of them and every device.     *)
THEOREM BootTablesSeparate == BootMapAssumption => (BootSpec => []BootMapSeparates)
<1> SUFFICES ASSUME BootMapAssumption
             PROVE  BootSpec => []BootMapSeparates
  OBVIOUS
<1>1. BootInit => BootInv
  BY BootInvInit
<1>2. BootInv /\ [BootNext]_bootVars => BootInv'
  BY BootInvStep, BootInvUnchanged
<1>3. BootInv => BootMapSeparates
  BY BootInvSeparates
<1>. QED  BY <1>1, <1>2, <1>3, PTL DEF BootSpec

-----------------------------------------------------------------------------
(* The guest images.                                                       *)

(* A guest that was asked for, and what a word of memory can be.           *)
Asked == [file : 1..UTIL_GUESTS, adr : Addresses]
Words == Nat \X Int

Length(g) == ImageSize[g.file]

-----------------------------------------------------------------------------
(* Where the guests are packed.                                            *)

(* The guests gs lie one after the other, each behind the two words at     *)
(* top[n]; top[Len(gs) + 1] is the end.                                    *)
Laid(gs, top) ==
  /\ top \in [1..(Len(gs) + 1) -> Nat]
  /\ top[1] = DataEnd + 2
  /\ \A n \in 1..Len(gs) : top[n + 1] = top[n] + 2 + Length(gs[n])

Tops(gs) == CHOOSE top : Laid(gs, top)
Top(gs, n) == Tops(gs)[n]
Source(gs, n) == Top(gs, n) + 2

(* The words of guest n are where they were packed.                        *)
Original(gs, m, n) ==
  /\ m[Top(gs, n)] = Word(Length(gs[n])) /\ m[Top(gs, n) + 1] = Word(gs[n].adr)
  /\ \A k \in 1..Length(gs[n]) : m[Source(gs, n) + k - 1] = <<gs[n].file, k>>

-----------------------------------------------------------------------------
(* What the tool and the boot code keep.                                   *)

NoneEmpty(gs) == \A n \in 1..Len(gs) : Length(gs[n]) > 0

(* The first k places have the highest addresses, in their order.          *)
SortedTo(gs, k) ==
  \A h, i \in 1..Len(gs) : (h < i /\ h <= k) => gs[i].adr <= gs[h].adr

(* No two of the guests overlap and none goes below where it is packed.    *)
AllFit(gs) ==
  /\ \A h, i \in 1..Len(gs) : h # i => Span(gs[h]) \cap Span(gs[i]) = {}
  /\ \A n \in 1..Len(gs) : Source(gs, n) <= gs[n].adr

(* After c guests, whether they fit or not: the two words in front of a    *)
(* guest to come are those packed, or words of an image; and no image has  *)
(* become two such words.                                                  *)
Unharmed(gs, m, c) ==
  /\ \A n \in (c + 1)..Len(gs) :
       /\ m[Top(gs, n)] = Word(Length(gs[n])) \/ m[Top(gs, n)][1] # 0
       /\ m[Top(gs, n) + 1] = Word(gs[n].adr) \/ m[Top(gs, n) + 1][1] # 0
  /\ \A n \in 1..Len(gs) : \A k \in 1..Length(gs[n]) : m[Source(gs, n) + k - 1][1] # 0

(* After c guests of which the last has its first l words still to move,   *)
(* when they fit: each word is at its old or its new place.                *)
Moved(gs, m, c, l) ==
  /\ \A n \in (c + 1)..Len(gs) : Original(gs, m, n)
  /\ \A n \in 1..c : \A k \in 1..Length(gs[n]) :
       m[(IF n = c /\ k <= l THEN Source(gs, n) ELSE gs[n].adr) + k - 1] = <<gs[n].file, k>>

(* The words of the guest in front that are still to move.                 *)
Left == IF phase = "copy" THEN r6 - Source(guests, count) ELSE 0

Entries == [ptr_phy : Int, ptr_phy_tmp : Int, size : Int]
ImagesTyped ==
  /\ memory \in [DataEnd..MemoryEnd -> Words]
  /\ db \in [1..MAX_GUESTS -> Entries]

Moving ==
  /\ count \in 0..Len(guests) /\ count <= MAX_GUESTS
  /\ r0 = Top(guests, count + 1) /\ r1 = Top(guests, Len(guests) + 1)
  /\ phase = "guest" => count < Len(guests)
  /\ phase = "started" => count = Len(guests)
  /\ phase = "copy" => /\ count > 0 /\ Left \in 1..Length(guests[count])
                       /\ r6 = Source(guests, count) + Left
                       /\ r4 = guests[count].adr + Left
  /\ \A n \in 1..count :
       db[n] = [ptr_phy |-> guests[n].adr, ptr_phy_tmp |-> Source(guests, n),
                size |-> Length(guests[n])]
  /\ Unharmed(guests, memory, count)
  /\ AllFit(guests) => Moved(guests, memory, count, Left)

(* With an empty guest the boot code copies a word that is none of its, so *)
(* nothing is said of that.                                                *)
ImagesInv ==
  /\ guests \in Seq(Asked) /\ Len(guests) <= UTIL_GUESTS
  /\ phase \in {"parse", "exit", "sort", "check", "guest", "copy", "fail", "lost", "started"}
  /\ phase \in {"parse", "sort", "check"} => ImagesTyped
  /\ phase = "parse" => j = 1 /\ memory[DataEnd] = Word(0)
  /\ phase = "sort" => j \in Nat \ {0} /\ guests # <<>> /\ SortedTo(guests, j - 1)
  /\ phase = "check" =>
       \/ memory[DataEnd] = Word(0)
       \/ /\ memory[DataEnd + 1] = Word(Top(guests, Len(guests) + 1) - (DataEnd + 2))
          /\ guests # <<>> /\ SortedTo(guests, Len(guests))
          /\ \A n \in 1..Len(guests) : Original(guests, memory, n)
  /\ phase \in {"guest", "copy", "started"} =>
       /\ guests # <<>> /\ SortedTo(guests, Len(guests))
       /\ NoneEmpty(guests) => ImagesTyped /\ Moving

-----------------------------------------------------------------------------
(* A set of numbers has a least one.                                       *)
LEMMA LeastNumber ==
  ASSUME NEW T, T \subseteq Nat, T # {}
  PROVE  \E n \in T : \A m \in T : n <= m
<1> DEFINE R == OpToRel(<, Nat)
<1>1. IsWellFoundedOn(R, Nat)
  BY NatLessThanWellFounded
<1>2. \A a, b \in Nat : <<a, b>> \in R <=> a < b
  BY DEF OpToRel
<1> HIDE DEF R
<1>3. PICK n \in T : \A m \in T : ~ (<<m, n>> \in R)
  BY <1>1, WFMin
<1>4. ASSUME NEW m \in T PROVE n <= m
  <2>1. n \in Nat /\ m \in Nat /\ <<m, n>> \notin R
    BY <1>3
  <2>2. ~ (m < n)
    BY <1>2, <2>1
  <2> QED BY <2>1, <2>2
<1> QED BY <1>3, <1>4

-----------------------------------------------------------------------------
(* Packing.                                                                *)

(* A guest and the two words in front of it.                               *)
Header(g) == <<Word(ImageSize[g.file]), Word(g.adr)>>
Behind(s, g) == s \o Header(g) \o Image(g)

(* What is packed after n guests, from what was packed before.             *)
WithNext(gs, f, n) == IF n = 0 THEN <<>> ELSE Behind(f[n - 1], gs[n])

LEMMA AskedFields ==
  ASSUME GuestImagesAssumption, NEW g \in Asked
  PROVE  /\ Length(g) \in Nat /\ g.adr \in Nat /\ g.file \in Nat /\ g.file # 0
         /\ g.adr \in Addresses /\ g.file \in 1..UTIL_GUESTS
         /\ DataEnd < g.adr /\ g.adr + Length(g) <= MemoryEnd
         /\ DataEnd \in Nat /\ MemoryEnd \in Nat
<1>1. g.file \in 1..UTIL_GUESTS /\ g.adr \in Addresses
  BY DEF Asked
<1>2. UTIL_GUESTS \in Nat /\ Len(ImageSize) \in Nat /\ UTIL_GUESTS <= Len(ImageSize)
  BY LenProperties DEF GuestImagesAssumption
<1>3. g.file \in 1..Len(ImageSize)
  BY <1>1, <1>2
<1>4. ImageSize[g.file] \in Nat
  BY <1>3, ElementOfSeq DEF GuestImagesAssumption
<1>5. g.adr \in Nat /\ DataEnd < g.adr /\ MemoryEnd \in Nat /\ DataEnd \in Nat
  BY <1>1 DEF GuestImagesAssumption
<1>6. g.adr + ImageSize[g.file] <= MemoryEnd
  BY <1>1 DEF GuestImagesAssumption
<1> QED BY <1>1, <1>2, <1>4, <1>5, <1>6 DEF Length

(* One guest is packed behind the others.                                  *)
LEMMA Packing ==
  ASSUME GuestImagesAssumption, NEW g \in Asked, NEW s \in Seq(Words)
  PROVE  /\ Behind(s, g) \in Seq(Words)
         /\ Len(Behind(s, g)) = Len(s) + 2 + Length(g)
         /\ \A k \in 1..Len(s) : Behind(s, g)[k] = s[k]
         /\ Behind(s, g)[Len(s) + 1] = Word(Length(g))
         /\ Behind(s, g)[Len(s) + 2] = Word(g.adr)
         /\ \A k \in 1..Length(g) : Behind(s, g)[Len(s) + 2 + k] = <<g.file, k>>
<1> DEFINE h == Header(g)
           b == s \o h
           m == Image(g)
           size == Length(g)
<1>1. size \in Nat /\ g.adr \in Nat /\ g.file \in Nat /\ Len(s) \in Nat
  BY AskedFields, LenProperties
<1>2. Word(size) \in Words /\ Word(g.adr) \in Words
  BY <1>1 DEF Words, Word
<1>3. h \in Seq(Words) /\ Len(h) = 2 /\ h[1] = Word(size) /\ h[2] = Word(g.adr)
  BY <1>2 DEF Header, Length
<1>4. m = [k \in 1..size |-> <<g.file, k>>]
  BY DEF Image, Length
<1> HIDE DEF h, m, size
<1>5. m \in [1..size -> Words]
  BY <1>1, <1>4 DEF Words
<1>6. m \in Seq(Words) /\ Len(m) = size /\ \A k \in 1..size : m[k] = <<g.file, k>>
  BY <1>1, <1>4, <1>5, SeqDef
<1>7. /\ b \in Seq(Words) /\ Len(b) = Len(s) + Len(h)
      /\ \A i \in 1..(Len(s) + Len(h)) : b[i] = IF i <= Len(s) THEN s[i] ELSE h[i - Len(s)]
  BY <1>3, ConcatProperties
<1> HIDE DEF b
<1>8. /\ b \o m \in Seq(Words) /\ Len(b \o m) = Len(b) + Len(m)
      /\ \A i \in 1..(Len(b) + Len(m)) : (b \o m)[i] = IF i <= Len(b) THEN b[i] ELSE m[i - Len(b)]
  BY <1>6, <1>7, ConcatProperties
<1> DEFINE t == b \o m
<1> HIDE DEF t
<1>9. /\ t \in Seq(Words) /\ Len(t) = Len(b) + Len(m)
      /\ \A i \in 1..(Len(b) + Len(m)) : t[i] = IF i <= Len(b) THEN b[i] ELSE m[i - Len(b)]
  BY <1>8 DEF t
<1>10. Len(b) = Len(s) + 2 /\ Len(t) = Len(s) + 2 + size
  BY <1>1, <1>3, <1>6, <1>7, <1>9
<1>11. ASSUME NEW k \in 1..Len(s) PROVE t[k] = s[k]
  <2>1. k \in 1..(Len(b) + Len(m)) /\ k <= Len(b) /\ k \in 1..(Len(s) + Len(h)) /\ k <= Len(s)
    BY <1>1, <1>3, <1>6, <1>10
  <2> QED BY <1>7, <1>9, <2>1
<1>12. t[Len(s) + 1] = Word(size) /\ t[Len(s) + 2] = Word(g.adr)
  <2>1. /\ Len(s) + 1 \in 1..(Len(b) + Len(m)) /\ Len(s) + 1 <= Len(b)
        /\ Len(s) + 1 \in 1..(Len(s) + Len(h)) /\ ~(Len(s) + 1 <= Len(s))
        /\ Len(s) + 2 \in 1..(Len(b) + Len(m)) /\ Len(s) + 2 <= Len(b)
        /\ Len(s) + 2 \in 1..(Len(s) + Len(h)) /\ ~(Len(s) + 2 <= Len(s))
        /\ (Len(s) + 1) - Len(s) = 1 /\ (Len(s) + 2) - Len(s) = 2
    BY <1>1, <1>3, <1>6, <1>10
  <2> QED BY <1>3, <1>7, <1>9, <2>1
<1>13. ASSUME NEW k \in 1..size PROVE t[Len(s) + 2 + k] = <<g.file, k>>
  <2>1. /\ Len(s) + 2 + k \in 1..(Len(b) + Len(m)) /\ ~(Len(s) + 2 + k <= Len(b))
        /\ (Len(s) + 2 + k) - Len(b) = k
    BY <1>1, <1>6, <1>10
  <2> QED BY <1>6, <1>9, <2>1
<1>14. Behind(s, g) = t
  BY DEF Behind, t, b, h, m
<1> QED BY <1>9, <1>10, <1>11, <1>12, <1>13, <1>14 DEF size

(* There is such a packing.                                                *)
LEMMA PackExists ==
  ASSUME NEW gs, Len(gs) \in Nat
  PROVE  \E f : f = [n \in 0..Len(gs) |-> WithNext(gs, f, n)]
<1> DEFINE N == Len(gs)
           Made(f, n) == f = [k \in 0..n |-> WithNext(gs, f, k)]
           T == {n \in 0..N : ~ \E f : Made(f, n)}
<1>1. SUFFICES ASSUME T # {} PROVE FALSE
  <2>1. N \in 0..N
    OBVIOUS
  <2> QED BY <1>1, <2>1
<1>2. T \subseteq Nat
  OBVIOUS
<1>3. PICK n \in T : \A m \in T : n <= m
  BY <1>1, <1>2, LeastNumber
<1>4. n \in 0..N /\ n \in Nat /\ ~ \E f : Made(f, n)
  BY <1>3
<1>5. CASE n = 0
  <2> DEFINE f == [k \in 0..0 |-> <<>>]
             W == [k \in 0..0 |-> WithNext(gs, f, k)]
  <2>1. \A k \in 0..0 : k = 0
    OBVIOUS
  <2>2. \A k \in 0..0 : W[k] = <<>>
    BY <2>1 DEF WithNext
  <2>3. f = W
    BY <2>2
  <2>4. Made(f, n)
    BY <1>5, <2>3
  <2> QED BY <1>4, <2>4
<1>6. CASE n # 0
  <2>1. n - 1 \in 0..N /\ ~(n <= n - 1)
    BY <1>4, <1>6
  <2>2. n - 1 \notin T
    BY <1>3, <2>1
  <2>3. PICK g : Made(g, n - 1)
    BY <2>1, <2>2
  <2>4. \A k \in 0..(n - 1) : g[k] = WithNext(gs, g, k)
    BY <2>3
  <2> DEFINE f == [k \in 0..n |-> IF k = n THEN WithNext(gs, g, n) ELSE g[k]]
             W == [k \in 0..n |-> WithNext(gs, f, k)]
  <2>5. \A k \in 0..n : k # n => k \in 0..(n - 1)
    BY <1>4
  <2>6. \A k \in 0..n : k # 0 => k - 1 \in 0..n /\ k - 1 # n
    BY <1>4
  <2>7. ASSUME NEW k \in 0..n PROVE f[k] = WithNext(gs, f, k)
    <3>1. WithNext(gs, f, k) = WithNext(gs, g, k)
      <4>1. CASE k = 0
        BY <4>1 DEF WithNext
      <4>2. CASE k # 0
        <5>1. f[k - 1] = g[k - 1]
          BY <2>6, <4>2
        <5> HIDE DEF f
        <5> QED BY <4>2, <5>1 DEF WithNext
      <4> QED BY <4>1, <4>2
    <3>2. CASE k = n
      BY <3>1, <3>2
    <3>3. CASE k # n
      <4>1. f[k] = g[k]
        BY <3>3
      <4> HIDE DEF f
      <4> QED BY <2>4, <2>5, <3>1, <3>3, <4>1
    <3> QED BY <3>2, <3>3
  <2>8. f = W
    <3>1. f = [k \in 0..n |-> f[k]] /\ W = [k \in 0..n |-> W[k]]
      OBVIOUS
    <3>2. \A k \in 0..n : W[k] = f[k]
      BY <2>7
    <3> HIDE DEF f
    <3> QED BY <3>1, <3>2
  <2>9. Made(f, n)
    BY <2>8
  <2> QED BY <1>4, <2>9
<1> QED BY <1>5, <1>6

(* What n guests have packed stays where it is.                            *)
LEMMA PackFacts ==
  ASSUME GuestImagesAssumption, NEW gs \in Seq(Asked), NEW f,
         \A n \in 0..Len(gs) : f[n] = WithNext(gs, f, n)
  PROVE  /\ \A n \in 0..Len(gs) : f[n] \in Seq(Words)
         /\ \A n \in 1..Len(gs) : Len(f[n]) = Len(f[n - 1]) + 2 + Length(gs[n])
         /\ Len(f[0]) = 0
         /\ \A m, n \in 0..Len(gs) : m <= n =>
              Len(f[m]) <= Len(f[n]) /\ \A k \in 1..Len(f[m]) : f[n][k] = f[m][k]
<1> DEFINE N == Len(gs)
<1>1. N \in Nat /\ \A n \in 1..N : gs[n] \in Asked
  BY LenProperties, ElementOfSeq
<1>2. f[0] = <<>> /\ \A n \in 1..N : f[n] = Behind(f[n - 1], gs[n])
  <2>1. 0 \in 0..N /\ \A n \in 1..N : n \in 0..N /\ n # 0
    BY <1>1
  <2> QED BY <2>1 DEF WithNext
<1> HIDE DEF N
<1>3. \A n \in 0..N : f[n] \in Seq(Words)
  <2> DEFINE T == {n \in 0..N : f[n] \notin Seq(Words)}
  <2>1. SUFFICES ASSUME T # {} PROVE FALSE
    OBVIOUS
  <2>2. T \subseteq Nat
    BY <1>1
  <2>3. PICK n \in T : \A m \in T : n <= m
    BY <2>1, <2>2, LeastNumber
  <2>4. n \in 0..N /\ n \in Nat /\ f[n] \notin Seq(Words)
    BY <1>1, <2>3
  <2>5. n # 0
    BY <1>2, <2>4, EmptySeq
  <2>6. n - 1 \in 0..N /\ ~(n <= n - 1) /\ n \in 1..N
    BY <1>1, <2>4, <2>5
  <2>7. f[n - 1] \in Seq(Words)
    BY <2>3, <2>6
  <2>8. Behind(f[n - 1], gs[n]) \in Seq(Words)
    BY <1>1, <2>6, <2>7, Packing
  <2> QED BY <1>2, <2>4, <2>6, <2>8
<1>4. ASSUME NEW n \in 1..N
      PROVE  /\ Len(f[n - 1]) \in Nat /\ Len(f[n]) = Len(f[n - 1]) + 2 + Length(gs[n])
             /\ Length(gs[n]) \in Nat
             /\ \A k \in 1..Len(f[n - 1]) : f[n][k] = f[n - 1][k]
  <2>1. n - 1 \in 0..N
    BY <1>1
  <2>2. f[n - 1] \in Seq(Words) /\ gs[n] \in Asked
    BY <1>1, <1>3, <2>1
  <2> DEFINE s == f[n - 1]
             g == gs[n]
  <2>3. f[n] = Behind(s, g) /\ s \in Seq(Words) /\ g \in Asked
    BY <1>2, <2>2
  <2> HIDE DEF s, g
  <2>4. /\ Len(s) \in Nat /\ Len(f[n]) = Len(s) + 2 + Length(g) /\ Length(g) \in Nat
        /\ \A k \in 1..Len(s) : f[n][k] = s[k]
    BY <2>3, Packing, AskedFields, LenProperties
  <2> QED BY <2>4 DEF s, g
<1>5. ASSUME NEW m \in 0..N, NEW n \in 0..N, m <= n
      PROVE  Len(f[m]) <= Len(f[n]) /\ \A k \in 1..Len(f[m]) : f[n][k] = f[m][k]
  <2> DEFINE Keeps(i) == Len(f[m]) <= Len(f[i]) /\ \A k \in 1..Len(f[m]) : f[i][k] = f[m][k]
             T == {i \in m..N : ~Keeps(i)}
  <2>1. SUFFICES ASSUME T # {} PROVE FALSE
    <3>1. n \in m..N
      BY <1>1, <1>5
    <3> QED BY <2>1, <3>1
  <2>2. T \subseteq Nat
    BY <1>1
  <2>3. PICK i \in T : \A h \in T : i <= h
    BY <2>1, <2>2, LeastNumber
  <2>4. i \in m..N /\ i \in Nat /\ ~Keeps(i)
    BY <1>1, <2>3
  <2>5. i # m
    <3>1. Len(f[m]) \in Nat
      BY <1>3, LenProperties
    <3> QED BY <2>4, <3>1
  <2>6. i - 1 \in m..N /\ ~(i <= i - 1) /\ i \in 1..N
    BY <1>1, <2>4, <2>5
  <2>7. Keeps(i - 1)
    BY <2>3, <2>6
  <2>8. Len(f[m]) \in Nat
    BY <1>3, LenProperties
  <2>9. Len(f[m]) <= Len(f[i])
    BY <1>4, <2>6, <2>7, <2>8
  <2>10. ASSUME NEW k \in 1..Len(f[m]) PROVE f[i][k] = f[m][k]
    <3>1. k \in 1..Len(f[i - 1])
      BY <1>4, <2>6, <2>7, <2>8
    <3> QED BY <1>4, <2>6, <2>7, <3>1
  <2> QED BY <2>4, <2>9, <2>10
<1> QED BY <1>2, <1>3, <1>4, <1>5 DEF N

(* The places are those of the lengths, and no others.                     *)
LEMMA PlacesOfPack ==
  ASSUME GuestImagesAssumption, NEW gs \in Seq(Asked), NEW f,
         \A n \in 0..Len(gs) : f[n] = WithNext(gs, f, n)
  PROVE  /\ Laid(gs, Tops(gs))
         /\ \A n \in 1..(Len(gs) + 1) : Top(gs, n) = DataEnd + 2 + Len(f[n - 1])
<1> DEFINE N == Len(gs)
           top == [n \in 1..(N + 1) |-> DataEnd + 2 + Len(f[n - 1])]
<1>1. N \in Nat /\ DataEnd \in Nat /\ \A n \in 1..N : Length(gs[n]) \in Nat
  BY LenProperties, ElementOfSeq, AskedFields DEF GuestImagesAssumption
<1>2. /\ \A n \in 0..N : Len(f[n]) \in Nat
      /\ \A n \in 1..N : Len(f[n]) = Len(f[n - 1]) + 2 + Length(gs[n])
      /\ Len(f[0]) = 0
  BY PackFacts, LenProperties
<1> HIDE DEF N
<1>3. Laid(gs, top)
  <2>1. \A n \in 1..(N + 1) : n - 1 \in 0..N
    BY <1>1
  <2>2. top \in [1..(N + 1) -> Nat]
    <3>1. ASSUME NEW n \in 1..(N + 1) PROVE DataEnd + 2 + Len(f[n - 1]) \in Nat
      <4> DEFINE len == Len(f[n - 1])
      <4>1. len \in Nat
        BY <1>2, <2>1
      <4> HIDE DEF len
      <4>2. DataEnd + 2 + len \in Nat
        BY <1>1, <4>1
      <4> QED BY <4>2 DEF len
    <3> QED BY <3>1
  <2>3. top[1] = DataEnd + 2
    <3>1. 1 \in 1..(N + 1) /\ 1 - 1 = 0
      BY <1>1
    <3>2. top[1] = DataEnd + 2 + Len(f[0])
      BY <3>1
    <3> HIDE DEF top
    <3> QED BY <1>1, <1>2, <3>2
  <2>4. ASSUME NEW n \in 1..N PROVE top[n + 1] = top[n] + 2 + Length(gs[n])
    <3>1. n \in 1..(N + 1) /\ n + 1 \in 1..(N + 1) /\ (n + 1) - 1 = n /\ n - 1 \in 0..N
      BY <1>1
    <3>2. top[n + 1] = DataEnd + 2 + Len(f[n]) /\ top[n] = DataEnd + 2 + Len(f[n - 1])
      BY <3>1
    <3>3. Len(f[n]) = Len(f[n - 1]) + 2 + Length(gs[n]) /\ Length(gs[n]) \in Nat
      BY <1>1, <1>2
    <3>4. Len(f[n]) \in Nat /\ Len(f[n - 1]) \in Nat
      <4>1. n \in 0..N
        BY <1>1
      <4> QED BY <1>2, <3>1, <4>1
    <3> DEFINE len == Len(f[n])
               before == Len(f[n - 1])
               size == Length(gs[n])
    <3>5. /\ top[n + 1] = DataEnd + 2 + len /\ top[n] = DataEnd + 2 + before
          /\ len = before + 2 + size /\ before \in Nat /\ size \in Nat
      BY <3>2, <3>3, <3>4
    <3> HIDE DEF top, len, before, size
    <3>6. top[n + 1] = top[n] + 2 + size
      BY <1>1, <3>5
    <3> QED BY <3>6 DEF size
  <2> HIDE DEF top
  <2> QED BY <2>2, <2>3, <2>4 DEF Laid, N
<1>4. Laid(gs, Tops(gs))
  <2> HIDE DEF top
  <2> QED BY <1>3 DEF Tops
<1>5. ASSUME NEW n \in 1..(N + 1) PROVE Tops(gs)[n] = top[n]
  <2> DEFINE u == Tops(gs)
             T == {i \in 1..(N + 1) : u[i] # top[i]}
  <2> HIDE DEF top, u
  <2>1. SUFFICES ASSUME T # {} PROVE FALSE
    BY DEF u
  <2>2. T \subseteq Nat
    BY <1>1
  <2>3. PICK i \in T : \A h \in T : i <= h
    BY <2>1, <2>2, LeastNumber
  <2>4. i \in 1..(N + 1) /\ i \in Nat /\ u[i] # top[i]
    BY <1>1, <2>3
  <2>5. /\ u[1] = DataEnd + 2 /\ top[1] = DataEnd + 2
        /\ \A k \in 1..N : /\ u[k + 1] = u[k] + 2 + Length(gs[k])
                           /\ top[k + 1] = top[k] + 2 + Length(gs[k])
    BY <1>3, <1>4 DEF Laid, u, N
  <2>6. i # 1
    BY <2>4, <2>5
  <2>7. i - 1 \in 1..N /\ i - 1 \in 1..(N + 1) /\ ~(i <= i - 1) /\ (i - 1) + 1 = i
    BY <1>1, <2>4, <2>6
  <2>8. u[i - 1] = top[i - 1]
    BY <2>3, <2>7
  <2> QED BY <2>4, <2>5, <2>7, <2>8
<1> QED BY <1>4, <1>5 DEF N, Top

LEMMA TopsLaid ==
  ASSUME GuestImagesAssumption, NEW gs \in Seq(Asked)
  PROVE  Laid(gs, Tops(gs))
<1>1. Len(gs) \in Nat
  BY LenProperties
<1>2. PICK f : f = [n \in 0..Len(gs) |-> WithNext(gs, f, n)]
  BY <1>1, PackExists
<1>3. \A n \in 0..Len(gs) : f[n] = WithNext(gs, f, n)
  BY <1>2
<1> QED BY <1>3, PlacesOfPack

(* The guests lie behind each other.                                       *)
LEMMA TopsRise ==
  ASSUME GuestImagesAssumption, NEW gs \in Seq(Asked)
  PROVE  /\ Len(gs) \in Nat /\ DataEnd \in Nat /\ MemoryEnd \in Nat
         /\ \A n \in 1..Len(gs) : gs[n] \in Asked /\ Length(gs[n]) \in Nat
         /\ \A n \in 1..(Len(gs) + 1) : Top(gs, n) \in Nat /\ DataEnd + 2 <= Top(gs, n)
         /\ Top(gs, 1) = DataEnd + 2
         /\ \A n \in 1..Len(gs) : Top(gs, n + 1) = Source(gs, n) + Length(gs[n])
         /\ \A m, n \in 1..(Len(gs) + 1) : m < n => Source(gs, m) + Length(gs[m]) <= Top(gs, n)
<1> DEFINE N == Len(gs)
           t(n) == Top(gs, n)
<1>1. N \in Nat /\ DataEnd \in Nat /\ \A n \in 1..N : gs[n] \in Asked /\ Length(gs[n]) \in Nat
  BY LenProperties, ElementOfSeq, AskedFields DEF GuestImagesAssumption
<1>2. /\ \A n \in 1..(N + 1) : t(n) \in Nat
      /\ t(1) = DataEnd + 2
      /\ \A n \in 1..N : t(n + 1) = t(n) + 2 + Length(gs[n])
  BY TopsLaid DEF Laid, Top
<1>3. \A n \in 1..(N + 1) : Source(gs, n) = t(n) + 2
  BY DEF Source
<1>4. MemoryEnd \in Nat
  BY DEF GuestImagesAssumption
<1> HIDE DEF N, t
<1>5. ASSUME NEW m \in 1..(N + 1), NEW n \in 1..(N + 1), m < n
      PROVE  t(m) + 2 + Length(gs[m]) <= t(n)
  <2> DEFINE T == {i \in (m + 1)..(N + 1) : ~(t(m) + 2 + Length(gs[m]) <= t(i))}
  <2>1. SUFFICES ASSUME T # {} PROVE FALSE
    <3>1. n \in (m + 1)..(N + 1)
      BY <1>1, <1>5
    <3> QED BY <2>1, <3>1
  <2>2. T \subseteq Nat
    BY <1>1
  <2>3. PICK i \in T : \A h \in T : i <= h
    BY <2>1, <2>2, LeastNumber
  <2>4. i \in (m + 1)..(N + 1) /\ i \in Nat /\ ~(t(m) + 2 + Length(gs[m]) <= t(i))
    BY <1>1, <2>3
  <2>5. m \in 1..N
    BY <1>1, <1>5
  <2>6. i # m + 1
    BY <1>1, <1>2, <2>4, <2>5
  <2>7. i - 1 \in (m + 1)..(N + 1) /\ ~(i <= i - 1) /\ i - 1 \in 1..N /\ (i - 1) + 1 = i /\ i - 1 \in 1..(N + 1)
    BY <1>1, <2>4, <2>6
  <2>8. t(m) + 2 + Length(gs[m]) <= t(i - 1)
    BY <2>3, <2>7
  <2>9. t(i) = t(i - 1) + 2 + Length(gs[i - 1])
    BY <1>2, <2>7
  <2>10. t(i) \in Nat /\ t(i - 1) \in Nat /\ t(m) \in Nat /\ Length(gs[m]) \in Nat /\ Length(gs[i - 1]) \in Nat
    <3>1. i \in 1..(N + 1)
      BY <1>1, <2>4
    <3> QED BY <1>1, <1>2, <2>5, <2>7, <3>1
  <2> QED BY <2>4, <2>8, <2>9, <2>10
<1>6. \A n \in 1..(N + 1) : DataEnd + 2 <= t(n)
  <2> SUFFICES ASSUME NEW n \in 1..(N + 1) PROVE DataEnd + 2 <= t(n)
    OBVIOUS
  <2>1. CASE n = 1
    BY <1>1, <1>2, <2>1
  <2>2. CASE n # 1
    <3>1. 1 \in 1..(N + 1) /\ 1 < n /\ 1 \in 1..N
      BY <1>1, <2>2
    <3>2. t(1) + 2 + Length(gs[1]) <= t(n)
      BY <1>5, <3>1
    <3> QED BY <1>1, <1>2, <3>1, <3>2
  <2> QED BY <2>1, <2>2
<1>7. \A n \in 1..N : t(n + 1) = Source(gs, n) + Length(gs[n])
  <2>1. \A n \in 1..N : n \in 1..(N + 1)
    BY <1>1
  <2> QED BY <1>2, <1>3, <2>1
<1>8. \A m, n \in 1..(N + 1) : m < n => Source(gs, m) + Length(gs[m]) <= t(n)
  BY <1>3, <1>5
<1> QED BY <1>1, <1>2, <1>4, <1>6, <1>7, <1>8 DEF N, t

(* There is memory for them.                                               *)
LEMMA PackFits ==
  ASSUME GuestImagesAssumption, NEW gs \in Seq(Asked), Len(gs) <= UTIL_GUESTS
  PROVE  \A n \in 1..(Len(gs) + 1) : Top(gs, n) <= MemoryEnd
<1>1. PICK longest \in 0..MemoryEnd :
        /\ DataEnd + 2 + UTIL_GUESTS * (2 + longest) <= MemoryEnd
        /\ \A i \in 1..UTIL_GUESTS : ImageSize[i] <= longest
  BY DEF GuestImagesAssumption
<1> DEFINE N == Len(gs)
           t(n) == Top(gs, n)
           most == 2 + longest
           T == {n \in 1..(N + 1) : ~(t(n) <= DataEnd + 2 + (n - 1) * most)}
<1>2. /\ N \in Nat /\ DataEnd \in Nat /\ MemoryEnd \in Nat /\ UTIL_GUESTS \in Nat
      /\ \A n \in 1..(N + 1) : t(n) \in Nat
      /\ t(1) = DataEnd + 2
      /\ \A n \in 1..N : Length(gs[n]) \in Nat /\ t(n + 1) = (t(n) + 2) + Length(gs[n])
  BY TopsRise DEF GuestImagesAssumption, Source
<1>3. \A n \in 1..N : Length(gs[n]) + 2 <= most
  <2>1. \A n \in 1..N : gs[n] \in Asked
    BY TopsRise
  <2>2. \A n \in 1..N : gs[n].file \in 1..UTIL_GUESTS
    BY <2>1, AskedFields
  <2>3. \A n \in 1..N : Length(gs[n]) <= longest
    BY <1>1, <2>2 DEF Length
  <2> QED BY <1>1, <1>2, <2>3
<1>4. most \in Nat /\ N <= UTIL_GUESTS /\ DataEnd + 2 + UTIL_GUESTS * most <= MemoryEnd
  BY <1>1, <1>2
<1> HIDE DEF N, t, most
<1>5. T = {}
  <2>1. SUFFICES ASSUME T # {} PROVE FALSE
    OBVIOUS
  <2>2. T \subseteq Nat
    BY <1>2
  <2>3. PICK i \in T : \A h \in T : i <= h
    BY <2>1, <2>2, LeastNumber
  <2>4. i \in 1..(N + 1) /\ i \in Nat /\ ~(t(i) <= DataEnd + 2 + (i - 1) * most)
    BY <1>2, <2>3
  <2>5. i # 1
    <3>1. (1 - 1) * most = 0
      BY <1>4
    <3> QED BY <1>2, <2>4, <3>1
  <2> DEFINE h == i - 1
  <2>6. h \in 1..(N + 1) /\ h \in 1..N /\ ~(i <= h) /\ h + 1 = i /\ h \in Nat /\ i - 1 = h
    BY <1>2, <2>4, <2>5
  <2>7. t(h) <= DataEnd + 2 + (h - 1) * most
    BY <2>3, <2>6
  <2>8. t(i) = t(h) + 2 + Length(gs[h])
    BY <1>2, <2>6
  <2> HIDE DEF h
  <2>9. (h - 1) * most + most = h * most /\ (h - 1) * most \in Int /\ h * most \in Int
    BY <1>4, <2>6
  <2>10. t(i) \in Nat /\ t(h) \in Nat /\ Length(gs[h]) \in Nat /\ Length(gs[h]) + 2 <= most
    BY <1>2, <1>3, <2>4, <2>6
  <2> DEFINE a == (h - 1) * most
             b == h * most
  <2>11. ~(t(i) <= DataEnd + 2 + b) /\ t(h) <= DataEnd + 2 + a /\ a + most = b /\ a \in Int /\ b \in Int
    BY <2>4, <2>6, <2>7, <2>9
  <2> HIDE DEF a, b
  <2> QED BY <1>2, <1>4, <2>8, <2>10, <2>11
<1>6. ASSUME NEW n \in 1..(N + 1) PROVE t(n) <= MemoryEnd
  <2>1. t(n) <= DataEnd + 2 + (n - 1) * most
    BY <1>5
  <2>2. n - 1 \in Nat /\ n - 1 <= UTIL_GUESTS
    BY <1>2, <1>4
  <2>3. (n - 1) * most <= UTIL_GUESTS * most /\ (n - 1) * most \in Int /\ UTIL_GUESTS * most \in Int
    BY <1>2, <1>4, <2>2
  <2> DEFINE a == (n - 1) * most
             b == UTIL_GUESTS * most
  <2>4. t(n) <= DataEnd + 2 + a /\ a <= b /\ a \in Int /\ b \in Int /\ DataEnd + 2 + b <= MemoryEnd
    BY <1>4, <2>1, <2>3
  <2> HIDE DEF a, b
  <2> QED BY <1>2, <2>4
<1> QED BY <1>6 DEF N, t

(* The words of each guest in what is packed.                              *)
LEMMA PackedWords ==
  ASSUME GuestImagesAssumption, guests \in Seq(Asked)
  PROVE  /\ Packed \in Seq(Words)
         /\ Len(Packed) = Top(guests, Len(guests) + 1) - (DataEnd + 2)
         /\ \A n \in 1..Len(guests) :
              LET at == Top(guests, n) - (DataEnd + 2)
              IN  /\ Packed[at + 1] = Word(Length(guests[n]))
                  /\ Packed[at + 2] = Word(guests[n].adr)
                  /\ \A k \in 1..Length(guests[n]) : Packed[at + 2 + k] = <<guests[n].file, k>>
<1> DEFINE N == Len(guests)
           Made(f) == f = [n \in 0..N |-> WithNext(guests, f, n)]
           F == CHOOSE f : Made(f)
<1>1. Packed = F[N]
  BY DEF Packed, WithNext, Behind, Header
<1>2. N \in Nat
  BY LenProperties
<1>3. Made(F)
  <2>1. \E f : Made(f)
    BY <1>2, PackExists
  <2> HIDE DEF Made
  <2> QED BY <2>1
<1> HIDE DEF F
<1>4. \A n \in 0..N : F[n] = WithNext(guests, F, n)
  BY <1>3
<1>5. /\ \A n \in 0..N : F[n] \in Seq(Words)
      /\ \A m, n \in 0..N : m <= n =>
           Len(F[m]) <= Len(F[n]) /\ \A k \in 1..Len(F[m]) : F[n][k] = F[m][k]
      /\ \A n \in 1..N : Len(F[n]) = Len(F[n - 1]) + 2 + Length(guests[n])
  BY <1>4, PackFacts
<1>6. \A n \in 1..(N + 1) : Top(guests, n) = DataEnd + 2 + Len(F[n - 1])
  BY <1>4, PlacesOfPack
<1>7. DataEnd \in Nat
  BY DEF GuestImagesAssumption
<1>8. F[N] \in Seq(Words) /\ Len(F[N]) = Top(guests, N + 1) - (DataEnd + 2)
  <2>1. N \in 0..N /\ N + 1 \in 1..(N + 1) /\ (N + 1) - 1 = N
    BY <1>2
  <2>2. F[N] \in Seq(Words) /\ Top(guests, N + 1) = DataEnd + 2 + Len(F[N])
    BY <1>5, <1>6, <2>1
  <2>3. Len(F[N]) \in Nat
    BY <2>2, LenProperties
  <2> DEFINE len == Len(F[N])
             top == Top(guests, N + 1)
  <2>4. top = DataEnd + 2 + len /\ len \in Nat
    BY <2>2, <2>3
  <2> HIDE DEF len, top
  <2>5. len = top - (DataEnd + 2)
    BY <1>7, <2>4
  <2> QED BY <2>2, <2>5 DEF len, top
<1>9. ASSUME NEW n \in 1..N
      PROVE  LET at == Top(guests, n) - (DataEnd + 2)
             IN  /\ F[N][at + 1] = Word(Length(guests[n]))
                 /\ F[N][at + 2] = Word(guests[n].adr)
                 /\ \A k \in 1..Length(guests[n]) : F[N][at + 2 + k] = <<guests[n].file, k>>
  <2> DEFINE g == guests[n]
             s == F[n - 1]
             at == Top(guests, n) - (DataEnd + 2)
  <2>1. n \in 0..N /\ n # 0 /\ n - 1 \in 0..N /\ N \in 0..N /\ n <= N /\ n \in 1..(N + 1)
    BY <1>2
  <2>2. g \in Asked /\ s \in Seq(Words)
    BY <1>5, <2>1, ElementOfSeq
  <2>3. F[n] = Behind(s, g)
    BY <1>4, <2>1 DEF WithNext
  <2>4. Len(s) \in Nat /\ Length(g) \in Nat
    BY <2>2, LenProperties, AskedFields
  <2>5. at = Len(s)
    <3> DEFINE top == Top(guests, n)
               len == Len(s)
    <3>1. top = DataEnd + 2 + len /\ len \in Nat
      BY <1>6, <2>1, <2>4
    <3> HIDE DEF top, len
    <3>2. top - (DataEnd + 2) = len
      BY <1>7, <3>1
    <3> QED BY <3>2 DEF top, len
  <2>6. /\ F[n][Len(s) + 1] = Word(Length(g)) /\ F[n][Len(s) + 2] = Word(g.adr)
        /\ \A k \in 1..Length(g) : F[n][Len(s) + 2 + k] = <<g.file, k>>
        /\ Len(F[n]) = Len(s) + 2 + Length(g)
    <3> HIDE DEF s, g
    <3>1. /\ Behind(s, g)[Len(s) + 1] = Word(Length(g)) /\ Behind(s, g)[Len(s) + 2] = Word(g.adr)
          /\ \A k \in 1..Length(g) : Behind(s, g)[Len(s) + 2 + k] = <<g.file, k>>
          /\ Len(Behind(s, g)) = Len(s) + 2 + Length(g)
      BY <2>2, Packing
    <3> QED BY <2>3, <3>1
  <2>7. \A k \in 1..Len(F[n]) : F[N][k] = F[n][k]
    BY <1>5, <2>1
  <2>8. /\ Len(s) + 1 \in 1..Len(F[n]) /\ Len(s) + 2 \in 1..Len(F[n])
        /\ \A k \in 1..Length(g) : Len(s) + 2 + k \in 1..Len(F[n])
    <3> DEFINE len == Len(s)
               all == Len(F[n])
               size == Length(g)
    <3>1. len \in Nat /\ size \in Nat /\ all = len + 2 + size
      BY <2>4, <2>6
    <3> HIDE DEF len, all, size
    <3>2. len + 1 \in 1..all /\ len + 2 \in 1..all /\ \A k \in 1..size : len + 2 + k \in 1..all
      BY <3>1
    <3> QED BY <3>2 DEF len, all, size
  <2> HIDE DEF at, g, s
  <2>9. /\ F[N][at + 1] = Word(Length(g)) /\ F[N][at + 2] = Word(g.adr)
        /\ \A k \in 1..Length(g) : F[N][at + 2 + k] = <<g.file, k>>
    BY <2>5, <2>6, <2>7, <2>8
  <2> QED BY <2>9 DEF at, g
<1> QED BY <1>1, <1>8, <1>9 DEF N

-----------------------------------------------------------------------------
(* Sorting.                                                                *)

(* A swap moves two guests and no other.                                   *)
LEMMA SwappedFacts ==
  ASSUME NEW S, NEW s \in Seq(S), NEW a \in 1..Len(s), NEW b \in 1..Len(s)
  PROVE  /\ Swapped(s, a, b) \in Seq(S) /\ Len(Swapped(s, a, b)) = Len(s)
         /\ \A k \in 1..Len(s) :
              Swapped(s, a, b)[k] = s[IF k = a THEN b ELSE IF k = b THEN a ELSE k]
<1>1. s[a] \in S /\ s[b] \in S
  BY ElementOfSeq
<1> DEFINE x == s[a]
           y == s[b]
           t == [s EXCEPT ![a] = y]
<1> HIDE DEF x, y
<1>2. /\ t \in Seq(S) /\ Len(t) = Len(s)
      /\ \A k \in 1..Len(s) : t[k] = IF k = a THEN y ELSE s[k]
  BY <1>1, ExceptSeq DEF y
<1> DEFINE u == [t EXCEPT ![b] = x]
<1>3. Swapped(s, a, b) = u
  BY DEF Swapped, x, y
<1> HIDE DEF t
<1>4. /\ u \in Seq(S) /\ Len(u) = Len(t)
      /\ \A k \in 1..Len(t) : u[k] = IF k = b THEN x ELSE t[k]
  BY <1>1, <1>2, ExceptSeq DEF x
<1> HIDE DEF u
<1>5. ASSUME NEW k \in 1..Len(s)
      PROVE  u[k] = s[IF k = a THEN b ELSE IF k = b THEN a ELSE k]
  <2>1. u[k] = IF k = b THEN x ELSE IF k = a THEN y ELSE s[k]
    BY <1>2, <1>4
  <2> QED BY <2>1 DEF x, y
<1> QED BY <1>2, <1>3, <1>4, <1>5

(* The first of the highest from place p on.                               *)
IsHighest(gs, p, i) ==
  /\ \A k \in p..Len(gs) : gs[k].adr <= gs[i].adr
  /\ \A k \in p..(i - 1) : gs[k].adr < gs[i].adr

LEMMA HighestExists ==
  ASSUME GuestImagesAssumption, NEW gs \in Seq(Asked), NEW p \in 1..Len(gs)
  PROVE  \E i \in p..Len(gs) : IsHighest(gs, p, i)
<1> DEFINE N == Len(gs)
           below(k) == MemoryEnd - gs[k].adr
           T == {below(k) : k \in p..N}
<1>1. N \in Nat /\ MemoryEnd \in Nat /\ p \in Nat /\ p <= N
  BY LenProperties DEF GuestImagesAssumption
<1>2. \A k \in p..N : gs[k].adr \in Nat /\ gs[k].adr <= MemoryEnd
  <2> SUFFICES ASSUME NEW k \in p..N PROVE gs[k].adr \in Nat /\ gs[k].adr <= MemoryEnd
    OBVIOUS
  <2>1. k \in 1..N
    BY <1>1
  <2>2. gs[k] \in Asked
    BY <2>1, ElementOfSeq
  <2>3. gs[k].adr \in Nat /\ gs[k].adr + Length(gs[k]) <= MemoryEnd /\ Length(gs[k]) \in Nat
    BY <2>2, AskedFields
  <2> QED BY <1>1, <2>3
<1> HIDE DEF N
<1>3. T \subseteq Nat /\ T # {}
  <2>1. \A k \in p..N : below(k) \in Nat
    BY <1>1, <1>2
  <2>2. p \in p..N
    BY <1>1
  <2> HIDE DEF below
  <2> QED BY <2>1, <2>2
<1>4. PICK b \in T : \A m \in T : b <= m
  BY <1>3, LeastNumber
<1> DEFINE U == {k \in p..N : below(k) = b}
<1>5. U \subseteq Nat /\ U # {}
  BY <1>1, <1>4
<1>6. PICK i \in U : \A k \in U : i <= k
  BY <1>5, LeastNumber
<1>7. i \in p..N /\ below(i) = b
  BY <1>6
<1>8. \A k \in p..N : below(i) <= below(k)
  BY <1>4, <1>7
<1>9. ASSUME NEW k \in p..N PROVE gs[k].adr <= gs[i].adr
  <2> DEFINE x == gs[k].adr
             y == gs[i].adr
  <2>1. x \in Nat /\ y \in Nat /\ MemoryEnd - y <= MemoryEnd - x
    BY <1>2, <1>7, <1>8
  <2> HIDE DEF x, y
  <2>2. x <= y
    BY <1>1, <2>1
  <2> QED BY <2>2 DEF x, y
<1>10. ASSUME NEW k \in p..(i - 1) PROVE gs[k].adr < gs[i].adr
  <2>1. k \in p..N /\ ~(i <= k)
    BY <1>1, <1>7
  <2>2. below(k) # b
    BY <1>6, <2>1
  <2> QED BY <1>1, <1>2, <1>7, <1>9, <2>1, <2>2
<1> QED BY <1>7, <1>9, <1>10 DEF IsHighest, N

(* A round puts one more guest in its place.                               *)
LEMMA SortOne ==
  ASSUME GuestImagesAssumption, NEW gs \in Seq(Asked), NEW p \in 1..Len(gs),
         SortedTo(gs, p - 1), NEW m \in p..Len(gs), IsHighest(gs, p, m)
  PROVE  SortedTo(Swapped(gs, p, m), p)
<1> DEFINE N == Len(gs)
           t == Swapped(gs, p, m)
           old(k) == IF k = p THEN m ELSE IF k = m THEN p ELSE k
<1>1. N \in Nat
  BY LenProperties
<1>2. m \in 1..N /\ p \in 1..N /\ p <= m
  BY <1>1
<1>3. Len(t) = N /\ \A k \in 1..N : t[k] = gs[old(k)]
  <2>1. /\ Len(Swapped(gs, p, m)) = Len(gs)
        /\ \A k \in 1..Len(gs) :
             Swapped(gs, p, m)[k] = gs[IF k = p THEN m ELSE IF k = m THEN p ELSE k]
    BY <1>2, SwappedFacts
  <2> QED BY <2>1
<1>4. /\ \A h, i \in 1..N : (h < i /\ h <= p - 1) => gs[i].adr <= gs[h].adr
      /\ \A k \in p..N : gs[k].adr <= gs[m].adr
  BY DEF SortedTo, IsHighest
<1> HIDE DEF N, t
<1>5. ASSUME NEW h \in 1..N, NEW i \in 1..N, h < i, h <= p
      PROVE  t[i].adr <= t[h].adr
  <2>1. CASE h < p
    <3>1. old(h) = h /\ old(i) \in 1..N /\ h < old(i) /\ h <= p - 1
      BY <1>1, <1>2, <1>5, <2>1
    <3> HIDE DEF old
    <3> QED BY <1>3, <1>4, <3>1
  <2>2. CASE ~(h < p)
    <3>1. h = p /\ old(h) = m /\ old(i) \in p..N
      BY <1>1, <1>2, <1>5, <2>2
    <3> HIDE DEF old
    <3> QED BY <1>3, <1>4, <3>1
  <2> QED BY <2>1, <2>2
<1> QED BY <1>3, <1>5 DEF SortedTo, t

-----------------------------------------------------------------------------
(* Moving.                                                                 *)

(* Sources and targets are in memory.                                      *)
LEMMA Places ==
  ASSUME GuestImagesAssumption, NEW gs \in Seq(Asked), Len(gs) <= UTIL_GUESTS,
         NEW n \in 1..Len(gs)
  PROVE  /\ Top(gs, n) \in DataEnd..MemoryEnd /\ Top(gs, n) + 1 \in DataEnd..MemoryEnd
         /\ \A k \in 1..Length(gs[n]) : /\ Source(gs, n) + k - 1 \in DataEnd..MemoryEnd
                                        /\ gs[n].adr + k - 1 \in DataEnd..MemoryEnd
<1> DEFINE top == Top(gs, n)
           next == Top(gs, n + 1)
           size == Length(gs[n])
           adr == gs[n].adr
<1>1. n \in 1..(Len(gs) + 1) /\ n + 1 \in 1..(Len(gs) + 1)
  BY LenProperties
<1>2. /\ DataEnd \in Nat /\ MemoryEnd \in Nat /\ size \in Nat /\ gs[n] \in Asked
      /\ top \in Nat /\ DataEnd + 2 <= top /\ next = Source(gs, n) + size
  BY <1>1, TopsRise
<1>3. next <= MemoryEnd
  BY <1>1, PackFits
<1>4. adr \in Nat /\ DataEnd < adr /\ adr + size <= MemoryEnd
  BY <1>2, AskedFields
<1>5. Source(gs, n) = top + 2
  BY DEF Source
<1> HIDE DEF top, next, size, adr
<1>6. /\ top \in DataEnd..MemoryEnd /\ top + 1 \in DataEnd..MemoryEnd
      /\ \A k \in 1..size : (top + 2) + k - 1 \in DataEnd..MemoryEnd /\ adr + k - 1 \in DataEnd..MemoryEnd
  BY <1>2, <1>3, <1>4, <1>5
<1> QED BY <1>5, <1>6 DEF top, size, adr

(* A sorted guest goes above the place of every guest that is still to     *)
(* come: it goes above their targets, and those are not below their places.*)
LEMMA AboveSources ==
  ASSUME GuestImagesAssumption, NEW gs \in Seq(Asked), SortedTo(gs, Len(gs)),
         NoneEmpty(gs), AllFit(gs),
         NEW c \in 1..Len(gs), NEW n \in 1..Len(gs), c < n
  PROVE  Top(gs, n + 1) <= gs[c].adr
<1> DEFINE next == Top(gs, n + 1)
           source == Source(gs, n)
           size == Length(gs[n])
           adr == gs[n].adr
           other == Length(gs[c])
           high == gs[c].adr
<1>1. gs[c] \in Asked /\ gs[n] \in Asked /\ next = source + size
  BY TopsRise
<1>2. size \in Nat /\ other \in Nat /\ adr \in Nat /\ high \in Nat
  BY <1>1, AskedFields
<1>3. size > 0 /\ other > 0
  BY DEF NoneEmpty
<1>4. adr <= high
  <2>1. c <= Len(gs)
    BY LenProperties
  <2> QED BY <2>1 DEF SortedTo
<1>5. source <= adr
  <2>1. \A k \in 1..Len(gs) : Source(gs, k) <= gs[k].adr
    BY DEF AllFit
  <2> QED BY <2>1
<1>6. (high..(high + other - 1)) \cap (adr..(adr + size - 1)) = {}
  <2>1. \A h, i \in 1..Len(gs) : h # i => Span(gs[h]) \cap Span(gs[i]) = {}
    BY DEF AllFit
  <2>2. c # n
    BY LenProperties
  <2>3. Span(gs[c]) \cap Span(gs[n]) = {}
    BY <2>1, <2>2
  <2> QED BY <2>3 DEF Span, Length
<1>7. source \in Nat
  <2>1. n \in 1..(Len(gs) + 1)
    BY LenProperties
  <2>2. Top(gs, n) \in Nat
    BY <2>1, TopsRise
  <2> QED BY <2>2 DEF Source
<1> HIDE DEF next, source, size, adr, other, high
<1>8. high \notin adr..(adr + size - 1)
  <2>1. high \in high..(high + other - 1)
    BY <1>2, <1>3
  <2> QED BY <1>6, <2>1
<1>9. next <= high
  BY <1>1, <1>2, <1>4, <1>5, <1>7, <1>8
<1> QED BY <1>9 DEF next, high

(* Memory after word l of guest c is copied.                               *)
Copied(gs, m, c, l) == [m EXCEPT ![gs[c].adr + l - 1] = m[Source(gs, c) + l - 1]]

LEMMA CopiedWords ==
  ASSUME GuestImagesAssumption, NEW gs \in Seq(Asked), Len(gs) <= UTIL_GUESTS,
         NEW m \in [DataEnd..MemoryEnd -> Words],
         NEW c \in 1..Len(gs), NEW l \in 1..Length(gs[c])
  PROVE  /\ Copied(gs, m, c, l) \in [DataEnd..MemoryEnd -> Words]
         /\ \A x \in DataEnd..MemoryEnd :
              Copied(gs, m, c, l)[x] = IF x = gs[c].adr + l - 1 THEN m[Source(gs, c) + l - 1]
                                       ELSE m[x]
<1> DEFINE D == DataEnd..MemoryEnd
           to == gs[c].adr + l - 1
           from == Source(gs, c) + l - 1
<1>1. to \in D /\ from \in D
  BY Places
<1> HIDE DEF D, to, from
<1>2. /\ [m EXCEPT ![to] = m[from]] \in [D -> Words]
      /\ \A x \in D : [m EXCEPT ![to] = m[from]][x] = IF x = to THEN m[from] ELSE m[x]
  BY <1>1 DEF D
<1> QED BY <1>2 DEF Copied, D, to, from

(* Copying puts words of an image over others, and those are no numbers.   *)
LEMMA CopyUnharmed ==
  ASSUME GuestImagesAssumption, NEW gs \in Seq(Asked), Len(gs) <= UTIL_GUESTS,
         NEW m \in [DataEnd..MemoryEnd -> Words],
         NEW c \in 1..Len(gs), NEW l \in 1..Length(gs[c]), Unharmed(gs, m, c)
  PROVE  Unharmed(gs, Copied(gs, m, c, l), c)
<1> DEFINE D == DataEnd..MemoryEnd
           t == Copied(gs, m, c, l)
<1>1. \A x \in D : t[x] = m[x] \/ t[x][1] # 0
  <2>1. m[Source(gs, c) + l - 1][1] # 0
    BY DEF Unharmed
  <2> SUFFICES ASSUME NEW x \in D PROVE t[x] = m[x] \/ t[x][1] # 0
    OBVIOUS
  <2>2. t[x] = IF x = gs[c].adr + l - 1 THEN m[Source(gs, c) + l - 1] ELSE m[x]
    BY CopiedWords
  <2> HIDE DEF t
  <2> QED BY <2>1, <2>2
<1> HIDE DEF t
<1>2. ASSUME NEW n \in (c + 1)..Len(gs)
      PROVE  /\ t[Top(gs, n)] = Word(Length(gs[n])) \/ t[Top(gs, n)][1] # 0
             /\ t[Top(gs, n) + 1] = Word(gs[n].adr) \/ t[Top(gs, n) + 1][1] # 0
  <2>1. n \in 1..Len(gs)
    BY LenProperties
  <2>2. Top(gs, n) \in D /\ Top(gs, n) + 1 \in D
    BY <2>1, Places
  <2>3. /\ m[Top(gs, n)] = Word(Length(gs[n])) \/ m[Top(gs, n)][1] # 0
        /\ m[Top(gs, n) + 1] = Word(gs[n].adr) \/ m[Top(gs, n) + 1][1] # 0
    BY DEF Unharmed
  <2> HIDE DEF D
  <2> QED BY <1>1, <2>2, <2>3
<1>3. ASSUME NEW n \in 1..Len(gs), NEW k \in 1..Length(gs[n])
      PROVE  t[Source(gs, n) + k - 1][1] # 0
  <2>1. Source(gs, n) + k - 1 \in D
    BY Places
  <2>2. m[Source(gs, n) + k - 1][1] # 0
    BY DEF Unharmed
  <2> DEFINE x == Source(gs, n) + k - 1
  <2> HIDE DEF D, x
  <2>3. t[x][1] # 0
    BY <1>1, <2>1, <2>2 DEF x
  <2> QED BY <2>3 DEF x
<1> QED BY <1>2, <1>3 DEF Unharmed, t

(* When the guests fit, one more word is in its new place, and no word     *)
(* that is still to move or has moved is lost.                             *)
LEMMA CopyMoves ==
  ASSUME GuestImagesAssumption, NEW gs \in Seq(Asked), Len(gs) <= UTIL_GUESTS,
         SortedTo(gs, Len(gs)), NoneEmpty(gs), AllFit(gs),
         NEW m \in [DataEnd..MemoryEnd -> Words],
         NEW c \in 1..Len(gs), NEW l \in 1..Length(gs[c]), Moved(gs, m, c, l)
  PROVE  Moved(gs, Copied(gs, m, c, l), c, l - 1)
<1> DEFINE D == DataEnd..MemoryEnd
           t == Copied(gs, m, c, l)
           to == gs[c].adr + l - 1
           from == Source(gs, c) + l - 1
           adr(n) == gs[n].adr
           source(n) == Source(gs, n)
           size(n) == Length(gs[n])
           place(n, k) == (IF n = c /\ k <= l THEN source(n) ELSE adr(n)) + k - 1
           new(n, k) == (IF n = c /\ k <= l - 1 THEN source(n) ELSE adr(n)) + k - 1
<1>1. \A x \in D : t[x] = IF x = to THEN m[from] ELSE m[x]
  BY CopiedWords
<1>2. /\ \A n \in (c + 1)..Len(gs) : Original(gs, m, n)
      /\ \A n \in 1..c : \A k \in 1..size(n) : m[place(n, k)] = <<gs[n].file, k>>
  BY DEF Moved
<1>3. ASSUME NEW n \in 1..Len(gs)
      PROVE  /\ adr(n) \in Nat /\ source(n) \in Nat /\ size(n) \in Nat
             /\ Top(gs, n) \in Nat /\ source(n) = Top(gs, n) + 2
             /\ Top(gs, n + 1) = source(n) + size(n) /\ source(n) <= adr(n)
  <2>1. n \in 1..(Len(gs) + 1) /\ gs[n] \in Asked
    BY LenProperties, ElementOfSeq
  <2>2. Top(gs, n) \in Nat /\ Source(gs, n) = Top(gs, n) + 2
    BY <2>1, TopsRise DEF Source
  <2>3. Source(gs, n) <= gs[n].adr
    BY DEF AllFit
  <2>4. Length(gs[n]) \in Nat /\ gs[n].adr \in Nat
    BY <2>1, AskedFields
  <2>5. Top(gs, n + 1) = Source(gs, n) + Length(gs[n])
    BY TopsRise
  <2>6. Source(gs, n) \in Nat
    BY <2>2
  <2> QED BY <2>2, <2>3, <2>4, <2>5, <2>6
<1>4. \A n \in 1..Len(gs) : n # c => Span(gs[n]) \cap Span(gs[c]) = {}
  BY DEF AllFit
<1>5. ASSUME NEW n \in 1..Len(gs), c < n PROVE Top(gs, n + 1) <= adr(c)
  BY <1>5, AboveSources
<1>6. Len(gs) \in Nat /\ c \in Nat /\ c <= Len(gs) /\ l \in Nat /\ 1 <= l /\ l <= size(c)
  <2>1. Len(gs) \in Nat
    BY LenProperties
  <2>2. size(c) \in Nat
    BY <1>3
  <2> HIDE DEF size
  <2>3. l \in 1..size(c)
    BY DEF size
  <2> QED BY <2>1, <2>2, <2>3
<1>7. to = adr(c) + l - 1 /\ from = source(c) + l - 1
  OBVIOUS
<1>8. ASSUME NEW n \in (c + 1)..Len(gs) PROVE Original(gs, t, n)
  <2>1. n \in 1..Len(gs) /\ c < n
    BY <1>6
  <2>2. /\ Top(gs, n) \in D /\ Top(gs, n) + 1 \in D
        /\ \A k \in 1..size(n) : source(n) + k - 1 \in D
    BY <2>1, Places
  <2>3. Original(gs, m, n)
    BY <1>2
  <2>4. Top(gs, n + 1) <= adr(c)
    BY <1>5, <2>1
  <2>5. /\ adr(c) \in Nat /\ source(n) \in Nat /\ size(n) \in Nat
        /\ Top(gs, n) \in Nat /\ source(n) = Top(gs, n) + 2
        /\ Top(gs, n + 1) = source(n) + size(n)
    BY <1>3, <2>1
  <2> DEFINE top == Top(gs, n)
             next == Top(gs, n + 1)
  <2> HIDE DEF to, adr, source, size, top, next, t, D
  <2>6. /\ top # to /\ top + 1 # to
        /\ \A k \in 1..size(n) : source(n) + k - 1 # to
    <3> DEFINE first == source(n)
               long == size(n)
               high == adr(c)
    <3>1. /\ next <= high /\ high \in Nat /\ first \in Nat /\ long \in Nat /\ top \in Nat
          /\ first = top + 2 /\ next = first + long /\ to = high + l - 1
      BY <1>7, <2>4, <2>5 DEF top, next
    <3> HIDE DEF first, long, high
    <3>2. top # to /\ top + 1 # to /\ \A k \in 1..long : first + k - 1 # to
      BY <1>6, <3>1
    <3> QED BY <3>2 DEF first, long
  <2>7. /\ t[top] = m[top] /\ t[top + 1] = m[top + 1]
        /\ \A k \in 1..size(n) : t[source(n) + k - 1] = m[source(n) + k - 1]
    BY <1>1, <2>2, <2>6 DEF top
  <2> QED BY <2>3, <2>7 DEF Original, top, source, size
<1>9. ASSUME NEW n \in 1..c, NEW k \in 1..size(n) PROVE t[new(n, k)] = <<gs[n].file, k>>
  <2>1. n \in 1..Len(gs)
    BY <1>6
  <2>2. source(n) + k - 1 \in D /\ adr(n) + k - 1 \in D /\ to \in D
    <3>1. source(n) + k - 1 \in D /\ adr(n) + k - 1 \in D
      BY <2>1, Places
    <3>2. to \in D
      BY Places
    <3> QED BY <3>1, <3>2
  <2>3. m[place(n, k)] = <<gs[n].file, k>>
    BY <1>2
  <2>4. adr(n) \in Nat /\ source(n) \in Nat /\ size(n) \in Nat /\ source(n) <= adr(n)
    BY <1>3, <2>1
  <2>5. k \in Nat /\ 1 <= k /\ k <= size(n)
    <3> HIDE DEF size
    <3> QED BY <2>4
  <2>6. CASE n = c /\ k = l
    <3>1. new(n, k) = to /\ place(n, k) = from
      <4> HIDE DEF adr, source, size, to, from
      <4> QED BY <1>6, <1>7, <2>4, <2>6
    <3> HIDE DEF new, place, to, from, t, D
    <3> QED BY <1>1, <2>2, <2>3, <3>1
  <2>7. CASE n = c /\ k # l
    <3>1. new(n, k) # to /\ place(n, k) = new(n, k) /\ new(n, k) \in D
      <4> HIDE DEF adr, source, size, to, from, D
      <4> QED BY <1>6, <1>7, <2>2, <2>4, <2>5, <2>7
    <3> HIDE DEF new, place, to, from, t, D
    <3> QED BY <1>1, <2>3, <3>1
  <2>8. CASE n # c
    <3>1. new(n, k) = adr(n) + k - 1 /\ place(n, k) = adr(n) + k - 1
      BY <2>8
    <3>2. adr(n) + k - 1 \in Span(gs[n])
      <4>1. Span(gs[n]) = adr(n)..(adr(n) + size(n) - 1)
        BY DEF Span, Length
      <4> HIDE DEF adr, size
      <4> QED BY <2>4, <2>5, <4>1
    <3>3. to \in Span(gs[c])
      <4>1. Span(gs[c]) = adr(c)..(adr(c) + size(c) - 1) /\ adr(c) \in Nat /\ size(c) \in Nat
        BY <1>3 DEF Span, Length
      <4> HIDE DEF adr, size, to
      <4> QED BY <1>6, <1>7, <4>1
    <3>4. adr(n) + k - 1 # to
      BY <1>4, <2>1, <2>8, <3>2, <3>3
    <3>5. new(n, k) # to /\ place(n, k) = new(n, k) /\ new(n, k) \in D
      BY <2>2, <3>1, <3>4
    <3> HIDE DEF new, place, to, from, t, D
    <3> QED BY <1>1, <2>3, <3>5
  <2> QED BY <2>6, <2>7, <2>8
<1> QED BY <1>8, <1>9 DEF Moved

(* What is packed for a guest is no image, and its image is no number.     *)
LEMMA OriginalUnharmed ==
  ASSUME GuestImagesAssumption, NEW gs \in Seq(Asked), NEW m,
         \A n \in 1..Len(gs) : Original(gs, m, n)
  PROVE  Unharmed(gs, m, 0)
<1>1. \A n \in (0 + 1)..Len(gs) : n \in 1..Len(gs)
  BY LenProperties
<1>2. ASSUME NEW n \in 1..Len(gs), NEW k \in 1..Length(gs[n])
      PROVE  m[Source(gs, n) + k - 1][1] # 0
  <2>1. gs[n].file # 0
    BY ElementOfSeq, AskedFields
  <2>2. m[Source(gs, n) + k - 1] = <<gs[n].file, k>>
    BY DEF Original
  <2> QED BY <2>1, <2>2
<1> QED BY <1>1, <1>2 DEF Unharmed, Original

(* With the next guest, none of its words has moved.                       *)
LEMMA NextMoved ==
  ASSUME NEW gs, NEW m, NEW c \in Nat, c < Len(gs), Len(gs) \in Nat, Moved(gs, m, c, 0),
         Length(gs[c + 1]) \in Nat
  PROVE  Moved(gs, m, c + 1, Length(gs[c + 1]))
<1> DEFINE l == Length(gs[c + 1])
<1>1. /\ \A n \in (c + 1)..Len(gs) : Original(gs, m, n)
      /\ \A n \in 1..c : \A k \in 1..Length(gs[n]) :
           m[(IF n = c /\ k <= 0 THEN Source(gs, n) ELSE gs[n].adr) + k - 1] = <<gs[n].file, k>>
  BY DEF Moved
<1>2. \A n \in ((c + 1) + 1)..Len(gs) : Original(gs, m, n)
  <2>1. \A n \in ((c + 1) + 1)..Len(gs) : n \in (c + 1)..Len(gs)
    OBVIOUS
  <2> QED BY <1>1, <2>1
<1>3. ASSUME NEW n \in 1..(c + 1), NEW k \in 1..Length(gs[n])
      PROVE  m[(IF n = c + 1 /\ k <= l THEN Source(gs, n) ELSE gs[n].adr) + k - 1] = <<gs[n].file, k>>
  <2>1. CASE n = c + 1
    <3>1. k <= l
      BY <2>1
    <3>2. Original(gs, m, n)
      BY <1>1, <2>1
    <3> HIDE DEF l
    <3> QED BY <2>1, <3>1, <3>2 DEF Original
  <2>2. CASE n # c + 1
    <3>1. n \in 1..c
      BY <2>2
    <3>2. ~(k <= 0)
      <4> DEFINE size == Length(gs[n])
      <4> HIDE DEF size
      <4>1. \A i \in 1..size : ~(i <= 0)
        OBVIOUS
      <4> QED BY <4>1 DEF size
    <3>3. m[(IF n = c /\ k <= 0 THEN Source(gs, n) ELSE gs[n].adr) + k - 1] = <<gs[n].file, k>>
      BY <1>1, <3>1
    <3> HIDE DEF l
    <3> QED BY <2>2, <3>2, <3>3
  <2> QED BY <2>1, <2>2
<1> HIDE DEF l
<1>4. Moved(gs, m, c + 1, l)
  BY <1>2, <1>3 DEF Moved
<1> QED BY <1>4 DEF l

-----------------------------------------------------------------------------
(* The actions.                                                            *)

LEMMA ImagesInvInit ==
  ASSUME GuestImagesAssumption, ImagesInit
  PROVE  ImagesInv
<1>1. guests \in Seq(Asked) /\ Len(guests) = 0
  BY EmptySeq DEF ImagesInit
<1>2. ImagesTyped
  <2>1. Word(0) \in Words
    BY DEF Word, Words
  <2> QED BY <2>1 DEF ImagesInit, ImagesTyped, Entries
<1>3. memory[DataEnd] = Word(0)
  <2>1. DataEnd \in Nat /\ MemoryEnd \in Nat /\ DataEnd < MemoryEnd
    BY DEF GuestImagesAssumption
  <2>2. DataEnd \in DataEnd..MemoryEnd
    BY <2>1
  <2> QED BY <2>2 DEF ImagesInit
<1>4. UTIL_GUESTS \in Nat /\ phase = "parse" /\ j = 1
  BY DEF GuestImagesAssumption, ImagesInit
<1> QED BY <1>1, <1>2, <1>3, <1>4 DEF ImagesInv

LEMMA InvParseGuest ==
  ASSUME GuestImagesAssumption, ImagesInv, ParseGuest
  PROVE  ImagesInv'
<1>1. /\ guests \in Seq(Asked) /\ ImagesTyped /\ j = 1 /\ memory[DataEnd] = Word(0)
      /\ phase = "parse" /\ Len(guests) < UTIL_GUESTS
  BY DEF ImagesInv, ParseGuest
<1>2. PICK a \in Addresses : guests' = Append(guests, [file |-> Len(guests) + 1, adr |-> a])
  BY DEF ParseGuest
<1> DEFINE g == [file |-> Len(guests) + 1, adr |-> a]
<1>3. Len(guests) \in Nat /\ UTIL_GUESTS \in Nat
  BY <1>1, LenProperties DEF GuestImagesAssumption
<1>4. g \in Asked
  BY <1>1, <1>3 DEF Asked
<1> HIDE DEF g
<1>5. guests' \in Seq(Asked) /\ Len(guests') = Len(guests) + 1
  BY <1>1, <1>2, <1>4, AppendProperties DEF g
<1>6. Len(guests') <= UTIL_GUESTS
  BY <1>1, <1>3, <1>5
<1>7. phase' \in {"parse", "exit"}
  BY DEF ParseGuest
<1>8. memory' = memory /\ db' = db /\ j' = j
  BY DEF ParseGuest
<1>9. ImagesTyped'
  BY <1>1, <1>8 DEF ImagesTyped
<1> QED BY <1>1, <1>5, <1>6, <1>7, <1>8, <1>9 DEF ImagesInv

LEMMA InvParsedAll ==
  ASSUME GuestImagesAssumption, ImagesInv, ParsedAll
  PROVE  ImagesInv'
<1>1. /\ guests \in Seq(Asked) /\ Len(guests) <= UTIL_GUESTS /\ ImagesTyped /\ j = 1
      /\ phase' = "sort" /\ guests # <<>>
      /\ guests' = guests /\ memory' = memory /\ db' = db /\ j' = j
  BY DEF ImagesInv, ParsedAll
<1>2. ImagesTyped'
  BY <1>1 DEF ImagesTyped
<1>3. SortedTo(guests, j - 1)
  <2>1. Len(guests) \in Nat
    BY <1>1, LenProperties
  <2> QED BY <1>1, <2>1 DEF SortedTo
<1>4. SortedTo(guests', j' - 1)
  BY <1>1, <1>3
<1> QED BY <1>1, <1>2, <1>4 DEF ImagesInv

LEMMA InvNoGuests ==
  ASSUME GuestImagesAssumption, ImagesInv, NoGuests
  PROVE  ImagesInv'
<1>1. /\ guests \in Seq(Asked) /\ Len(guests) <= UTIL_GUESTS /\ ImagesTyped
      /\ memory[DataEnd] = Word(0) /\ phase' = "check"
      /\ guests' = guests /\ memory' = memory /\ db' = db
  BY DEF ImagesInv, NoGuests
<1>2. ImagesTyped'
  BY <1>1 DEF ImagesTyped
<1> QED BY <1>1, <1>2 DEF ImagesInv

LEMMA InvSortRound ==
  ASSUME GuestImagesAssumption, ImagesInv, SortRound
  PROVE  ImagesInv'
<1>1. /\ guests \in Seq(Asked) /\ Len(guests) <= UTIL_GUESTS /\ ImagesTyped
      /\ j \in Nat \ {0} /\ guests # <<>> /\ SortedTo(guests, j - 1)
      /\ phase = "sort" /\ j < Len(guests) /\ j' = j + 1
      /\ phase' = phase /\ memory' = memory /\ db' = db
  BY DEF ImagesInv, SortRound
<1> DEFINE H(i) == /\ \A k \in j..Len(guests) : guests[k].adr <= guests[i].adr
                   /\ \A k \in j..(i - 1) : guests[k].adr < guests[i].adr
           min == CHOOSE i \in j..Len(guests) : H(i)
<1>2. guests' = Swapped(guests, j, min)
  BY DEF SortRound
<1>3. Len(guests) \in Nat
  BY <1>1, LenProperties
<1>4. j \in 1..Len(guests)
  BY <1>1, <1>3
<1>5. \E i \in j..Len(guests) : H(i)
  BY <1>1, <1>4, HighestExists DEF IsHighest
<1>6. min \in j..Len(guests) /\ H(min)
  <2> HIDE DEF H
  <2> QED BY <1>5
<1> HIDE DEF min
<1>7. IsHighest(guests, j, min)
  BY <1>6 DEF IsHighest
<1>8. min \in 1..Len(guests)
  BY <1>3, <1>4, <1>6
<1>9. Swapped(guests, j, min) \in Seq(Asked) /\ Len(Swapped(guests, j, min)) = Len(guests)
  BY <1>1, <1>4, <1>8, SwappedFacts
<1>10. SortedTo(Swapped(guests, j, min), j)
  BY <1>1, <1>4, <1>6, <1>7, SortOne
<1>11. j' - 1 = j /\ j' \in Nat \ {0}
  BY <1>1
<1>12. ImagesTyped'
  BY <1>1 DEF ImagesTyped
<1>13. guests' # <<>>
  <2>1. Len(guests') # 0
    BY <1>1, <1>2, <1>3, <1>9
  <2> QED BY <2>1
<1>14. SortedTo(guests', j' - 1)
  BY <1>2, <1>10, <1>11
<1> QED BY <1>1, <1>2, <1>9, <1>11, <1>12, <1>13, <1>14 DEF ImagesInv

(* What is loaded: the two words in front, then what was packed.           *)
LEMMA Loaded ==
  ASSUME GuestImagesAssumption, guests \in Seq(Asked), Len(guests) <= UTIL_GUESTS,
         ImagesTyped, PrintAsm
  PROVE  /\ memory' \in [DataEnd..MemoryEnd -> Words]
         /\ memory'[DataEnd + 1] = Word(Len(Packed))
         /\ \A x \in DataEnd..MemoryEnd :
              (DataEnd + 2 <= x /\ x < DataEnd + 2 + Len(Packed)) =>
                memory'[x] = Packed[x - DataEnd - 1]
<1> DEFINE D == DataEnd..MemoryEnd
           len == Len(Packed)
           front == <<GUESTS_MAGIC, Word(len)>>
           blob == front \o Packed
           new == [a \in D |-> IF a - DataEnd < Len(blob) THEN blob[a - DataEnd + 1] ELSE memory[a]]
<1>1. memory \in [D -> Words] /\ DOMAIN memory = D
  BY DEF ImagesTyped
<1>2. memory' = new
  BY <1>1 DEF PrintAsm
<1>3. Packed \in Seq(Words) /\ len \in Nat
  BY PackedWords, LenProperties
<1>4. DataEnd \in Nat /\ MemoryEnd \in Nat /\ DataEnd < MemoryEnd /\ DataEnd + 1 \in D
  <2>1. DataEnd \in Nat /\ MemoryEnd \in Nat /\ DataEnd < MemoryEnd
    BY DEF GuestImagesAssumption
  <2> QED BY <2>1
<1> HIDE DEF len
<1>5. front \in Seq(Words) /\ Len(front) = 2 /\ front[2] = Word(len)
  <2>1. GUESTS_MAGIC \in Words /\ Word(len) \in Words
    BY <1>3 DEF Words, Word, GUESTS_MAGIC
  <2> QED BY <2>1
<1> HIDE DEF front
<1>6. /\ blob \in Seq(Words) /\ Len(blob) = Len(front) + Len(Packed)
      /\ \A i \in 1..(Len(front) + Len(Packed)) :
           blob[i] = IF i <= Len(front) THEN front[i] ELSE Packed[i - Len(front)]
  BY <1>3, <1>5, ConcatProperties
<1>7. /\ Len(blob) = 2 + len
      /\ \A i \in 1..(2 + len) : blob[i] = IF i <= 2 THEN front[i] ELSE Packed[i - 2]
  BY <1>5, <1>6 DEF len
<1> HIDE DEF blob
<1>8. \A i \in 1..Len(blob) : blob[i] \in Words
  BY <1>6, ElementOfSeq
<1>9. ASSUME NEW a \in D
      PROVE  (IF a - DataEnd < Len(blob) THEN blob[a - DataEnd + 1] ELSE memory[a]) \in Words
  <2>1. CASE a - DataEnd < Len(blob)
    <3>1. a - DataEnd + 1 \in 1..Len(blob)
      <4> DEFINE all == Len(blob)
      <4>1. all \in Nat /\ a - DataEnd < all /\ a \in Nat /\ DataEnd <= a
        BY <1>3, <1>4, <1>7, <2>1
      <4> HIDE DEF all, D
      <4>2. a - DataEnd + 1 \in 1..all
        BY <1>4, <4>1
      <4> QED BY <4>2 DEF all
    <3> QED BY <1>8, <2>1, <3>1
  <2>2. CASE ~(a - DataEnd < Len(blob))
    BY <1>1, <2>2
  <2> QED BY <2>1, <2>2
<1>10. new \in [D -> Words]
  <2> HIDE DEF D
  <2> QED BY <1>9
<1>11. new[DataEnd + 1] = Word(len)
  <2>1. (DataEnd + 1) - DataEnd < Len(blob) /\ (DataEnd + 1) - DataEnd + 1 = 2 /\ 2 \in 1..(2 + len)
    BY <1>3, <1>4, <1>7
  <2>2. new[DataEnd + 1] = blob[(DataEnd + 1) - DataEnd + 1]
    BY <1>4, <2>1
  <2> HIDE DEF new
  <2> QED BY <1>5, <1>7, <2>1, <2>2
<1>12. ASSUME NEW x \in D, DataEnd + 2 <= x, x < DataEnd + 2 + len
       PROVE  new[x] = Packed[x - DataEnd - 1]
  <2>1. /\ x - DataEnd < Len(blob) /\ x - DataEnd + 1 \in 1..(2 + len)
        /\ ~(x - DataEnd + 1 <= 2) /\ (x - DataEnd + 1) - 2 = x - DataEnd - 1
    BY <1>3, <1>4, <1>7, <1>12
  <2>2. new[x] = blob[x - DataEnd + 1]
    BY <2>1
  <2> HIDE DEF new
  <2> QED BY <1>7, <2>1, <2>2
<1> HIDE DEF new
<1> QED BY <1>2, <1>10, <1>11, <1>12 DEF len, D

LEMMA InvPrintAsm ==
  ASSUME GuestImagesAssumption, ImagesInv, PrintAsm
  PROVE  ImagesInv'
<1> DEFINE N == Len(guests)
           len == Len(Packed)
           m == memory'
           end == Top(guests, N + 1)
<1>1. /\ guests \in Seq(Asked) /\ N <= UTIL_GUESTS /\ ImagesTyped
      /\ j \in Nat \ {0} /\ guests # <<>> /\ SortedTo(guests, j - 1)
      /\ j >= N /\ phase' = "check" /\ guests' = guests /\ db' = db
  BY DEF ImagesInv, PrintAsm
<1>2. /\ m \in [DataEnd..MemoryEnd -> Words]
      /\ m[DataEnd + 1] = Word(len)
      /\ \A x \in DataEnd..MemoryEnd :
           (DataEnd + 2 <= x /\ x < DataEnd + 2 + len) => m[x] = Packed[x - DataEnd - 1]
  BY <1>1, Loaded
<1>3. N \in Nat /\ DataEnd \in Nat /\ end \in Nat /\ len \in Nat /\ len = end - (DataEnd + 2)
  <2>1. N \in Nat
    BY <1>1, LenProperties
  <2>2. N + 1 \in 1..(N + 1)
    BY <2>1
  <2> QED BY <1>1, <2>1, <2>2, TopsRise, PackedWords, LenProperties
<1>4. ASSUME NEW n \in 1..N PROVE Original(guests, m, n)
  <2> DEFINE top == Top(guests, n)
             size == Length(guests[n])
             file == guests[n].file
             at == top - (DataEnd + 2)
             source == Source(guests, n)
  <2>1. /\ Packed[at + 1] = Word(size) /\ Packed[at + 2] = Word(guests[n].adr)
        /\ \A k \in 1..size : Packed[at + 2 + k] = <<file, k>>
    BY <1>1, PackedWords
  <2>2. /\ top \in DataEnd..MemoryEnd /\ top + 1 \in DataEnd..MemoryEnd
        /\ \A k \in 1..size : source + k - 1 \in DataEnd..MemoryEnd
    BY <1>1, Places
  <2>3. /\ top \in Nat /\ DataEnd + 2 <= top /\ size \in Nat /\ source = top + 2
        /\ top + 2 + size <= end
    <3>1. n \in 1..(N + 1) /\ N + 1 \in 1..(N + 1) /\ n < N + 1
      BY <1>3
    <3>2. Source(guests, n) + Length(guests[n]) <= Top(guests, N + 1)
      BY <1>1, <3>1, TopsRise
    <3>3. top \in Nat /\ DataEnd + 2 <= top /\ size \in Nat
      BY <1>1, <3>1, TopsRise
    <3> QED BY <3>2, <3>3 DEF Source
  <2> HIDE DEF top, size, file, source, m, len, end
  <2>4. m[top] = Packed[at + 1] /\ m[top + 1] = Packed[at + 2]
    <3>1. /\ DataEnd + 2 <= top /\ top < DataEnd + 2 + len /\ top - DataEnd - 1 = at + 1
          /\ DataEnd + 2 <= top + 1 /\ top + 1 < DataEnd + 2 + len /\ (top + 1) - DataEnd - 1 = at + 2
      BY <1>3, <2>3
    <3> HIDE DEF at
    <3> QED BY <1>2, <2>2, <3>1
  <2>5. ASSUME NEW k \in 1..size PROVE m[source + k - 1] = Packed[at + 2 + k]
    <3>1. /\ DataEnd + 2 <= source + k - 1 /\ source + k - 1 < DataEnd + 2 + len
          /\ (source + k - 1) - DataEnd - 1 = at + 2 + k
      BY <1>3, <2>3
    <3> HIDE DEF at
    <3> QED BY <1>2, <2>2, <3>1
  <2> HIDE DEF at
  <2>6. /\ m[top] = Word(size) /\ m[top + 1] = Word(guests[n].adr)
        /\ \A k \in 1..size : m[source + k - 1] = <<file, k>>
    BY <2>1, <2>4, <2>5
  <2> QED BY <2>6 DEF Original, top, size, source, file
<1>5. SortedTo(guests, N)
  <2> HIDE DEF N
  <2>1. \A h, i \in 1..N : (h < i /\ h <= N) => h <= j - 1
    BY <1>1, <1>3
  <2> QED BY <1>1, <2>1 DEF SortedTo, N
<1>6. ImagesTyped'
  BY <1>1, <1>2 DEF ImagesTyped
<1>7. m[DataEnd + 1] = Word(end - (DataEnd + 2))
  BY <1>2, <1>3
<1> QED BY <1>1, <1>4, <1>5, <1>6, <1>7 DEF ImagesInv

LEMMA InvCheckBlob ==
  ASSUME GuestImagesAssumption, ImagesInv, CheckBlob
  PROVE  ImagesInv'
<1> DEFINE N == Len(guests)
           end == Top(guests, N + 1)
<1>1. /\ guests \in Seq(Asked) /\ N <= UTIL_GUESTS /\ ImagesTyped
      /\ \/ memory[DataEnd] = Word(0)
         \/ /\ memory[DataEnd + 1] = Word(end - (DataEnd + 2))
            /\ guests # <<>> /\ SortedTo(guests, N)
            /\ \A n \in 1..N : Original(guests, memory, n)
      /\ guests' = guests /\ memory' = memory /\ db' = db
  BY DEF ImagesInv, CheckBlob
<1>2. CASE phase' = "fail"
  BY <1>1, <1>2 DEF ImagesInv
<1>3. CASE phase' # "fail"
  <2>1. /\ memory[DataEnd] = GUESTS_MAGIC /\ phase' = "guest" /\ count' = 0
        /\ r0' = DataEnd + 2 /\ r1' = r0' + Number(memory[DataEnd + 1])
    BY <1>3 DEF CheckBlob
  <2>2. memory[DataEnd] # Word(0)
    BY <2>1 DEF GUESTS_MAGIC, Word
  <2>3. /\ memory[DataEnd + 1] = Word(end - (DataEnd + 2))
        /\ guests # <<>> /\ SortedTo(guests, N)
        /\ \A n \in 1..N : Original(guests, memory, n)
    BY <1>1, <2>2
  <2>4. N \in Nat /\ N > 0
    <3>1. N \in Nat /\ N # 0
      BY <1>1, <2>3, LenProperties, EmptySeq
    <3> QED BY <3>1
  <2>5. DataEnd \in Nat /\ MAX_GUESTS \in Nat /\ end \in Nat /\ Top(guests, 0 + 1) = DataEnd + 2
    <3>1. N + 1 \in 1..(N + 1) /\ 0 + 1 = 1
      BY <2>4
    <3>2. MAX_GUESTS \in Nat
      BY DEF GuestImagesAssumption
    <3>3. DataEnd \in Nat /\ Top(guests, 1) = DataEnd + 2 /\ end \in Nat
      BY <1>1, <3>1, TopsRise
    <3> QED BY <3>1, <3>2, <3>3
  <2>6. r1' = end
    <3>1. Number(memory[DataEnd + 1]) = end - (DataEnd + 2)
      BY <2>3 DEF Number, Word
    <3> HIDE DEF end
    <3> QED BY <2>1, <2>5, <3>1
  <2>7. Unharmed(guests, memory, 0)
    BY <1>1, <2>3, OriginalUnharmed
  <2>8. Moved(guests, memory, 0, 0)
    <3>1. \A n \in (0 + 1)..N : n \in 1..N
      BY <2>4
    <3>2. \A n \in 1..0 : FALSE
      OBVIOUS
    <3> QED BY <2>3, <3>1, <3>2 DEF Moved
  <2>9. Left' = 0
    BY <2>1 DEF Left
  <2>10. ImagesTyped'
    BY <1>1 DEF ImagesTyped
  <2>11. /\ count' \in 0..Len(guests') /\ count' <= MAX_GUESTS /\ count' < Len(guests')
         /\ \A n \in 1..count' : FALSE
    BY <1>1, <2>1, <2>4, <2>5
  <2>12. /\ r0' = Top(guests', count' + 1) /\ r1' = Top(guests', Len(guests') + 1)
         /\ Unharmed(guests', memory', count') /\ Moved(guests', memory', count', Left')
    BY <1>1, <2>1, <2>5, <2>6, <2>7, <2>8, <2>9
  <2>13. Moving'
    BY <2>1, <2>11, <2>12 DEF Moving
  <2> QED BY <1>1, <2>1, <2>3, <2>10, <2>13 DEF ImagesInv
<1> QED BY <1>2, <1>3

LEMMA InvForeachGuest ==
  ASSUME GuestImagesAssumption, ImagesInv, ForeachGuest
  PROVE  ImagesInv'
<1> DEFINE N == Len(guests)
           size == Number(memory[r0])
           adr == Number(memory[r0 + 1])
           entry == [ptr_phy |-> adr, ptr_phy_tmp |-> r0 + 2, size |-> size]
<1>1. /\ guests \in Seq(Asked) /\ N <= UTIL_GUESTS /\ phase = "guest"
      /\ guests # <<>> /\ SortedTo(guests, N)
      /\ NoneEmpty(guests) => ImagesTyped /\ Moving
      /\ guests' = guests /\ memory' = memory /\ r1' = r1
  BY DEF ImagesInv, ForeachGuest
<1>2. /\ db' = [db EXCEPT ![count + 1] = entry]
      /\ IF count + 1 >= MAX_GUESTS THEN phase' = "fail"
         ELSE /\ phase' = "copy" /\ count' = count + 1 /\ r0' = r0 + 2 + size
              /\ r4' = adr + size /\ r6' = r0 + 2 + size
  BY DEF ForeachGuest
<1>3. CASE phase' = "fail"
  BY <1>1, <1>3 DEF ImagesInv
<1>4. CASE phase' # "fail"
  <2>1. /\ ~(count + 1 >= MAX_GUESTS) /\ phase' = "copy" /\ count' = count + 1
        /\ r0' = r0 + 2 + size /\ r4' = adr + size /\ r6' = r0 + 2 + size
    BY <1>2, <1>4
  <2>2. SUFFICES ASSUME NoneEmpty(guests) PROVE ImagesTyped' /\ Moving'
    BY <1>1, <2>1 DEF ImagesInv
  <2>3. /\ ImagesTyped
        /\ count \in 0..N /\ count <= MAX_GUESTS /\ count < N
        /\ r0 = Top(guests, count + 1) /\ r1 = Top(guests, N + 1)
        /\ \A n \in 1..count :
             db[n] = [ptr_phy |-> guests[n].adr, ptr_phy_tmp |-> Source(guests, n),
                      size |-> Length(guests[n])]
        /\ Unharmed(guests, memory, count)
        /\ AllFit(guests) => Moved(guests, memory, count, 0)
    BY <1>1, <2>2 DEF Moving, Left
  <2> DEFINE c == count + 1
             g == guests[c]
             top == Top(guests, c)
             source == Source(guests, c)
             long == Length(g)
  <2>4. /\ N \in Nat /\ MAX_GUESTS \in Nat /\ count \in Nat /\ c \in 1..N /\ c > 0
        /\ c \in (count + 1)..N /\ c \in 0..N /\ c < MAX_GUESTS /\ c \in 1..MAX_GUESTS
        /\ c \in 1..(N + 1) /\ c <= MAX_GUESTS
    <3>1. N \in Nat /\ MAX_GUESTS \in Nat
      BY <1>1, LenProperties DEF GuestImagesAssumption
    <3> HIDE DEF N
    <3> QED BY <2>1, <2>3, <3>1
  <2>5. /\ g \in Asked /\ long \in Nat /\ g.adr \in Nat /\ top \in Nat /\ source = top + 2
        /\ Top(guests, c + 1) = source + long
    <3>1. g \in Asked
      BY <1>1, <2>4, ElementOfSeq
    <3>2. top \in Nat /\ Top(guests, c + 1) = source + long
      BY <1>1, <2>4, TopsRise
    <3> QED BY <3>1, <3>2, AskedFields DEF Source
  <2>6. long > 0
    BY <2>2, <2>4 DEF NoneEmpty
  <2>7. memory[top] = Word(long) /\ memory[top + 1] = Word(g.adr)
    <3>1. memory[r0][1] = 0 /\ memory[r0 + 1][1] = 0
      BY DEF ForeachGuest, IsHeader
    <3>2. /\ memory[top] = Word(long) \/ memory[top][1] # 0
          /\ memory[top + 1] = Word(g.adr) \/ memory[top + 1][1] # 0
      BY <2>3, <2>4 DEF Unharmed
    <3> HIDE DEF top
    <3> QED BY <2>3, <3>1, <3>2 DEF top
  <2>8. size = long /\ adr = g.adr
    BY <2>3, <2>7 DEF Number, Word
  <2>9. r0 = top /\ r0 + 2 = source
    BY <2>3, <2>5
  <2> HIDE DEF size, adr, top, source, long
  <2>10. r0' = source + long /\ r6' = source + long /\ r4' = g.adr + long
    <3>1. r0 + 2 + size = source + size
      BY <2>9
    <3> QED BY <2>1, <2>8, <3>1
  <2>11. entry \in Entries /\ entry = [ptr_phy |-> g.adr, ptr_phy_tmp |-> source, size |-> long]
    <3>1. source \in Int
      BY <2>5
    <3> HIDE DEF g
    <3> QED BY <2>5, <2>8, <2>9, <3>1 DEF Entries
  <2> HIDE DEF entry
  <2>12. /\ db' \in [1..MAX_GUESTS -> Entries]
         /\ \A n \in 1..MAX_GUESTS : db'[n] = IF n = c THEN entry ELSE db[n]
    <3>1. db \in [1..MAX_GUESTS -> Entries]
      BY <2>3 DEF ImagesTyped
    <3> QED BY <1>2, <2>11, <3>1
  <2>13. ImagesTyped'
    BY <1>1, <2>3, <2>12 DEF ImagesTyped
  <2>14. ASSUME NEW n \in 1..c
         PROVE  db'[n] = [ptr_phy |-> guests[n].adr, ptr_phy_tmp |-> Source(guests, n),
                          size |-> Length(guests[n])]
    <3>1. n \in 1..MAX_GUESTS /\ (n # c => n \in 1..count)
      BY <2>4
    <3>2. CASE n = c
      BY <2>11, <2>12, <3>1, <3>2 DEF source, long
    <3>3. CASE n # c
      BY <2>3, <2>12, <3>1, <3>3
    <3> QED BY <3>2, <3>3
  <2>15. Left' = long
    <3>1. Left' = r6' - source
      BY <1>1, <2>1 DEF Left, source
    <3> QED BY <2>5, <2>10, <3>1
  <2>16. Unharmed(guests, memory, c)
    <3>1. \A n \in (c + 1)..N : n \in (count + 1)..N
      BY <2>4
    <3> QED BY <2>3, <3>1 DEF Unharmed
  <2>17. AllFit(guests) => Moved(guests, memory, c, long)
    <3>1. N \in Nat /\ count \in Nat /\ count < N /\ long \in Nat
      BY <2>3, <2>4, <2>5
    <3> QED BY <2>3, <3>1, NextMoved DEF long
  <2>18. /\ count' \in 0..Len(guests') /\ count' <= MAX_GUESTS /\ count' > 0
         /\ r0' = Top(guests', count' + 1) /\ r1' = Top(guests', Len(guests') + 1)
         /\ Left' \in 1..Length(guests'[count'])
         /\ r6' = Source(guests', count') + Left'
         /\ r4' = guests'[count'].adr + Left'
    <3>1. count' = c /\ guests' = guests /\ long \in 1..long
      BY <1>1, <2>1, <2>5, <2>6
    <3> HIDE DEF c
    <3> QED BY <1>1, <2>3, <2>4, <2>5, <2>10, <2>15, <3>1 DEF long, source
  <2>19. /\ \A n \in 1..count' :
             db'[n] = [ptr_phy |-> guests'[n].adr, ptr_phy_tmp |-> Source(guests', n),
                       size |-> Length(guests'[n])]
         /\ Unharmed(guests', memory', count')
         /\ AllFit(guests') => Moved(guests', memory', count', Left')
    <3>1. count' = c /\ guests' = guests /\ memory' = memory
      BY <1>1, <2>1
    <3> HIDE DEF c
    <3> QED BY <2>14, <2>15, <2>16, <2>17, <3>1
  <2>20. Moving'
    BY <2>1, <2>18, <2>19 DEF Moving
  <2> QED BY <2>13, <2>20
<1> QED BY <1>3, <1>4

LEMMA InvCopyOne ==
  ASSUME GuestImagesAssumption, ImagesInv, CopyOne
  PROVE  ImagesInv'
<1> DEFINE N == Len(guests)
           c == count
           g == guests[c]
           l == Left
           source == Source(guests, c)
<1>1. /\ guests \in Seq(Asked) /\ N <= UTIL_GUESTS /\ phase = "copy"
      /\ guests # <<>> /\ SortedTo(guests, N)
      /\ NoneEmpty(guests) => ImagesTyped /\ Moving
      /\ guests' = guests /\ db' = db /\ count' = count /\ r0' = r0 /\ r1' = r1
      /\ r6' = r6 - 1 /\ r4' = r4 - 1 /\ memory' = [memory EXCEPT ![r4'] = memory[r6']]
      /\ phase' = IF r6' > db[c].ptr_phy_tmp THEN "copy" ELSE IF r0 < r1 THEN "guest" ELSE "started"
  BY DEF ImagesInv, CopyOne
<1>2. phase' \in {"copy", "guest", "started"}
  BY <1>1
<1>3. SUFFICES ASSUME NoneEmpty(guests) PROVE ImagesTyped' /\ Moving'
  BY <1>1, <1>2 DEF ImagesInv
<1>4. /\ ImagesTyped
      /\ c \in 0..N /\ c <= MAX_GUESTS /\ c > 0
      /\ r0 = Top(guests, c + 1) /\ r1 = Top(guests, N + 1)
      /\ l \in 1..Length(g) /\ r6 = source + l /\ r4 = g.adr + l
      /\ \A n \in 1..c :
           db[n] = [ptr_phy |-> guests[n].adr, ptr_phy_tmp |-> Source(guests, n),
                    size |-> Length(guests[n])]
      /\ Unharmed(guests, memory, c)
      /\ AllFit(guests) => Moved(guests, memory, c, l)
  BY <1>1, <1>3 DEF Moving
<1>5. N \in Nat /\ c \in 1..N /\ c \in 1..c /\ c \in 1..(N + 1) /\ c + 1 \in 1..(N + 1) /\ N + 1 \in 1..(N + 1)
  <2>1. N \in Nat
    BY <1>1, LenProperties
  <2> HIDE DEF N
  <2> QED BY <1>4, <2>1
<1>6. /\ g \in Asked /\ Length(g) \in Nat /\ g.adr \in Nat /\ source \in Nat
      /\ Top(guests, c + 1) \in Nat /\ Top(guests, N + 1) \in Nat
  <2>1. g \in Asked
    BY <1>1, <1>5, ElementOfSeq
  <2>2. Top(guests, c) \in Nat /\ Top(guests, c + 1) \in Nat /\ Top(guests, N + 1) \in Nat
    BY <1>1, <1>5, TopsRise
  <2>3. source \in Nat
    BY <2>2 DEF Source
  <2> QED BY <2>1, <2>2, <2>3, AskedFields
<1>7. l \in Nat /\ 1 <= l /\ l <= Length(g)
  <2> DEFINE long == Length(g)
  <2>1. l \in 1..long /\ long \in Nat
    BY <1>4, <1>6
  <2> HIDE DEF long, l
  <2>2. l \in Nat /\ 1 <= l /\ l <= long
    BY <2>1
  <2> QED BY <2>2 DEF long
<1>8. memory \in [DataEnd..MemoryEnd -> Words]
  BY <1>4 DEF ImagesTyped
<1>9. memory' = Copied(guests, memory, c, l)
  <2>1. r6' = source + l - 1 /\ r4' = g.adr + l - 1
    <3> DEFINE adr == g.adr
    <3>1. r6 = source + l /\ r4 = adr + l /\ adr \in Nat /\ source \in Nat /\ l \in Nat
      BY <1>4, <1>6, <1>7
    <3> HIDE DEF adr, source, l
    <3>2. r6 - 1 = source + l - 1 /\ r4 - 1 = adr + l - 1
      BY <3>1
    <3> QED BY <1>1, <3>2 DEF adr
  <2> QED BY <1>1, <2>1 DEF Copied
<1> HIDE DEF l
<1>21. /\ guests \in Seq(Asked) /\ Len(guests) <= UTIL_GUESTS /\ SortedTo(guests, Len(guests))
       /\ c \in 1..Len(guests) /\ l \in 1..Length(guests[c])
       /\ Unharmed(guests, memory, c)
       /\ AllFit(guests) => Moved(guests, memory, c, l)
  BY <1>1, <1>4, <1>5
<1>10. ImagesTyped'
  <2>1. memory' \in [DataEnd..MemoryEnd -> Words]
    BY <1>8, <1>9, <1>21, CopiedWords
  <2> QED BY <1>1, <1>4, <2>1 DEF ImagesTyped
<1>11. Unharmed(guests, memory', c)
  BY <1>8, <1>9, <1>21, CopyUnharmed
<1>12. AllFit(guests) => Moved(guests, memory', c, l - 1)
  BY <1>3, <1>8, <1>9, <1>21, CopyMoves
<1>13. r6' = source + (l - 1) /\ r4' = g.adr + (l - 1)
  <2> DEFINE adr == g.adr
  <2>1. r6 = source + l /\ r4 = adr + l /\ adr \in Nat /\ source \in Nat /\ l \in Nat
    BY <1>4, <1>6, <1>7
  <2> HIDE DEF adr, source
  <2>2. r6 - 1 = source + (l - 1) /\ r4 - 1 = adr + (l - 1)
    BY <2>1
  <2> QED BY <1>1, <2>2 DEF adr
<1>14. phase' = "copy" <=> l > 1
  <2>1. db[c].ptr_phy_tmp = source
    <3>1. db[c] = [ptr_phy |-> g.adr, ptr_phy_tmp |-> source, size |-> Length(g)]
      BY <1>4, <1>5
    <3> QED BY <3>1
  <2>2. phase' = "copy" <=> r6' > source
    BY <1>1, <2>1
  <2> HIDE DEF source
  <2> QED BY <1>6, <1>7, <1>13, <2>2
<1>15. Left' = l - 1
  <2>1. CASE phase' = "copy"
    <3>1. Left' = r6' - source
      BY <1>1, <2>1 DEF Left
    <3> HIDE DEF source
    <3> QED BY <1>6, <1>7, <1>13, <3>1
  <2>2. CASE phase' # "copy"
    <3>1. Left' = 0
      BY <2>2 DEF Left
    <3> QED BY <1>7, <1>14, <2>2, <3>1
  <2> QED BY <2>1, <2>2
<1>16. phase' = "copy" => Left' \in 1..Length(g)
  <2> DEFINE long == Length(g)
  <2>1. long \in Nat /\ l <= long
    BY <1>6, <1>7
  <2> HIDE DEF long
  <2>2. phase' = "copy" => l - 1 \in 1..long
    BY <1>7, <1>14, <2>1
  <2> QED BY <1>15, <2>2 DEF long
<1>17. /\ phase' = "guest" => c < N
       /\ phase' = "started" => c = N
  <2> DEFINE next == Top(guests, c + 1)
             end == Top(guests, N + 1)
  <2>1. /\ phase' = "guest" => next < end
        /\ phase' = "started" => ~(next < end)
    <3>1. r0 = next /\ r1 = end
      BY <1>4
    <3> HIDE DEF next, end
    <3> QED BY <1>1, <3>1
  <2>2. c = N \/ c < N
    BY <1>5
  <2>3. CASE c = N
    <3>1. next = end /\ ~(next < next)
      BY <1>6, <2>3
    <3> HIDE DEF next, end
    <3> QED BY <2>1, <2>3, <3>1
  <2>4. CASE c < N
    <3>1. c + 1 < N + 1 /\ c + 1 \in 1..N
      BY <1>5, <2>4
    <3>2. Source(guests, c + 1) + Length(guests[c + 1]) <= end
      BY <1>1, <1>5, <3>1, TopsRise
    <3>3. Length(guests[c + 1]) \in Nat
      BY <1>1, <3>1, TopsRise
    <3>4. Source(guests, c + 1) = next + 2
      BY DEF Source
    <3> DEFINE long == Length(guests[c + 1])
    <3>5. next + 2 + long <= end /\ long \in Nat /\ next \in Nat /\ end \in Nat
      BY <1>6, <3>2, <3>3, <3>4
    <3> HIDE DEF next, end, long
    <3>6. next < end
      BY <3>5
    <3> QED BY <2>1, <2>4, <3>6
  <2> QED BY <2>2, <2>3, <2>4
<1>18. /\ count' \in 0..Len(guests') /\ count' <= MAX_GUESTS
       /\ r0' = Top(guests', count' + 1) /\ r1' = Top(guests', Len(guests') + 1)
       /\ phase' = "guest" => count' < Len(guests')
       /\ phase' = "started" => count' = Len(guests')
       /\ phase' = "copy" => /\ count' > 0 /\ Left' \in 1..Length(guests'[count'])
                             /\ r6' = Source(guests', count') + Left'
                             /\ r4' = guests'[count'].adr + Left'
  BY <1>1, <1>4, <1>13, <1>15, <1>16, <1>17
<1>19. /\ \A n \in 1..count' :
            db'[n] = [ptr_phy |-> guests'[n].adr, ptr_phy_tmp |-> Source(guests', n),
                      size |-> Length(guests'[n])]
       /\ Unharmed(guests', memory', count')
       /\ AllFit(guests') => Moved(guests', memory', count', Left')
  BY <1>1, <1>4, <1>11, <1>12, <1>15
<1>20. Moving'
  BY <1>18, <1>19 DEF Moving
<1> QED BY <1>10, <1>20

(* Every step keeps the invariant.                                         *)
LEMMA ImagesInvNext ==
  ASSUME GuestImagesAssumption, ImagesInv, [ImagesNext]_imageVars
  PROVE  ImagesInv'
<1>1. CASE HeaderOverwritten
  <2>1. guests' = guests /\ phase' = "lost"
    BY <1>1 DEF HeaderOverwritten
  <2> QED BY <2>1 DEF ImagesInv
<1>2. CASE UNCHANGED imageVars
  <2>1. /\ phase' = phase /\ guests' = guests /\ j' = j /\ memory' = memory /\ db' = db
        /\ count' = count /\ r0' = r0 /\ r1' = r1 /\ r4' = r4 /\ r6' = r6
    BY <1>2 DEF imageVars
  <2>2. ImagesTyped' = ImagesTyped
    BY <2>1 DEF ImagesTyped
  <2>3. Left' = Left
    BY <2>1 DEF Left
  <2>4. Moving' = Moving
    BY <2>1, <2>3 DEF Moving
  <2> QED BY <2>1, <2>2, <2>4 DEF ImagesInv
<1>3. CASE Booted
  BY <1>2, <1>3 DEF Booted
<1> QED
  BY <1>1, <1>2, <1>3, InvParseGuest, InvParsedAll, InvSortRound, InvPrintAsm, InvNoGuests,
     InvCheckBlob, InvForeachGuest, InvCopyOne DEF ImagesNext

-----------------------------------------------------------------------------
(* What the helper packs and the boot code moves is never lost on the way: *)
(* the invariant of arm_move_guest_blob.                                   *)
THEOREM ImagesInvariance == GuestImagesAssumption /\ ImagesSpec => []ImagesInv
<1> SUFFICES ASSUME GuestImagesAssumption PROVE ImagesSpec => []ImagesInv
  OBVIOUS
<1>1. ImagesInit => ImagesInv
  BY ImagesInvInit
<1>2. ImagesInv /\ [ImagesNext]_imageVars => ImagesInv'
  BY ImagesInvNext
<1> QED BY <1>1, <1>2, PTL DEF ImagesSpec

LEMMA InvArrives ==
  ASSUME GuestImagesAssumption, ImagesInv
  PROVE  GuestsArrive
<1> DEFINE N == Len(guests)
<1>1. SUFFICES ASSUME phase = "started", Fits
      PROVE  /\ GetGuest(N) = NoGuest
             /\ \A n \in 1..N :
                  /\ \E i \in 0..(N - 1) :
                       LET g == GetGuest(i)
                       IN  /\ g # NoGuest
                           /\ g.ptr_phy = guests[n].adr
                           /\ g.size = ImageSize[guests[n].file]
                  /\ \A k \in 1..ImageSize[guests[n].file] :
                       memory[guests[n].adr + k - 1] = Image(guests[n])[k]
  BY DEF GuestsArrive
<1>2. guests \in Seq(Asked) /\ N \in Nat
  BY LenProperties DEF ImagesInv
<1>3. NoneEmpty(guests)
  BY <1>1 DEF Fits, NoneEmpty, Length
<1>4. Moving
  BY <1>1, <1>3 DEF ImagesInv
<1>5. /\ count = N
      /\ \A n \in 1..N :
           db[n] = [ptr_phy |-> guests[n].adr, ptr_phy_tmp |-> Source(guests, n),
                    size |-> Length(guests[n])]
      /\ AllFit(guests) => Moved(guests, memory, N, 0)
  BY <1>1, <1>4 DEF Moving, Left
<1>6. ASSUME NEW n \in 1..N
      PROVE  /\ Length(guests[n]) \in Nat /\ guests[n].adr \in Nat /\ Source(guests, n) \in Nat
             /\ Length(guests[n]) > 0
             /\ db[n].ptr_phy = guests[n].adr /\ db[n].ptr_phy_tmp = Source(guests, n)
             /\ db[n].size = Length(guests[n])
  <2>1. guests[n] \in Asked /\ n \in 1..(N + 1)
    BY <1>2, ElementOfSeq
  <2>2. Length(guests[n]) \in Nat /\ guests[n].adr \in Nat
    BY <2>1, AskedFields
  <2>3. Top(guests, n) \in Nat
    BY <1>2, <2>1, TopsRise
  <2>4. Length(guests[n]) > 0
    BY <1>3 DEF NoneEmpty
  <2>5. db[n] = [ptr_phy |-> guests[n].adr, ptr_phy_tmp |-> Source(guests, n),
                 size |-> Length(guests[n])]
    BY <1>5
  <2> QED BY <2>2, <2>3, <2>4, <2>5 DEF Source
<1>7. AllFit(guests)
  <2>1. \A h, i \in 1..N : h # i => Span(guests[h]) \cap Span(guests[i]) = {}
    BY <1>1 DEF Fits
  <2>2. ASSUME NEW n \in 1..N PROVE Source(guests, n) <= guests[n].adr
    <3>1. db[n].ptr_phy >= db[n].ptr_phy_tmp
      BY <1>1, <1>5 DEF Fits
    <3> DEFINE a == guests[n].adr
               b == Source(guests, n)
    <3>2. a >= b /\ a \in Nat /\ b \in Nat
      BY <1>6, <3>1
    <3> HIDE DEF a, b
    <3>3. b <= a
      BY <3>2
    <3> QED BY <3>3 DEF a, b
  <2> QED BY <2>1, <2>2 DEF AllFit
<1>8. GetGuest(N) = NoGuest
  <2>1. N >= count
    BY <1>2, <1>5
  <2> QED BY <2>1 DEF GetGuest
<1>9. ASSUME NEW n \in 1..N
      PROVE  \E i \in 0..(N - 1) :
               LET g == GetGuest(i)
               IN  /\ g # NoGuest
                   /\ g.ptr_phy = guests[n].adr
                   /\ g.size = ImageSize[guests[n].file]
  <2> DEFINE i == n - 1
  <2>1. i \in 0..(N - 1) /\ i + 1 = n /\ ~(i < 0) /\ ~(i >= N)
    BY <1>2
  <2>2. ~(db[n].size <= 0)
    <3> DEFINE size == Length(guests[n])
    <3>1. size \in Nat /\ size > 0 /\ db[n].size = size
      BY <1>6
    <3> HIDE DEF size
    <3>2. ~(size <= 0)
      BY <3>1
    <3> QED BY <3>1, <3>2
  <2> HIDE DEF i
  <2>3. GetGuest(i) = db[n]
    BY <1>5, <2>1, <2>2 DEF GetGuest
  <2>4. GetGuest(i).size = ImageSize[guests[n].file] /\ GetGuest(i).ptr_phy = guests[n].adr
    BY <1>6, <2>3 DEF Length
  <2>5. GetGuest(i) # NoGuest
    <3>1. NoGuest.size = 0
      BY DEF NoGuest
    <3>2. ~(GetGuest(i).size <= 0)
      BY <2>2, <2>3
    <3> QED BY <3>1, <3>2
  <2> QED BY <2>1, <2>4, <2>5
<1>10. ASSUME NEW n \in 1..N, NEW k \in 1..ImageSize[guests[n].file]
       PROVE  memory[guests[n].adr + k - 1] = Image(guests[n])[k]
  <2>1. k \in 1..Length(guests[n])
    BY DEF Length
  <2>2. memory[(IF n = N /\ k <= 0 THEN Source(guests, n) ELSE guests[n].adr) + k - 1]
          = <<guests[n].file, k>>
    BY <1>5, <1>7, <2>1 DEF Moved
  <2>3. ~(k <= 0)
    <3> DEFINE size == Length(guests[n])
    <3> HIDE DEF size
    <3>1. \A i \in 1..size : ~(i <= 0)
      OBVIOUS
    <3> QED BY <2>1, <3>1 DEF size
  <2>4. memory[guests[n].adr + k - 1] = <<guests[n].file, k>>
    BY <2>2, <2>3
  <2>5. Image(guests[n])[k] = <<guests[n].file, k>>
    BY DEF Image
  <2> QED BY <2>4, <2>5
<1> QED BY <1>8, <1>9, <1>10

(* When the guests fit, every one of them is whole at its address after    *)
(* the move, and get_guest finds it: for any number of guests, images of   *)
(* any length and any addresses.                                           *)
THEOREM ImagesArrive == GuestImagesAssumption /\ ImagesSpec => []GuestsArrive
<1> SUFFICES ASSUME GuestImagesAssumption PROVE ImagesSpec => []GuestsArrive
  OBVIOUS
<1>1. ImagesInv => GuestsArrive
  BY InvArrives
<1> QED BY <1>1, ImagesInvariance, PTL
=============================================================================
