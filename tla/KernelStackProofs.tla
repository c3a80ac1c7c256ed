------------------------- MODULE KernelStackProofs -------------------------
(***************************************************************************)
(* Proofs about KernelStack, for every guest that keeps to PortSoftware    *)
(* and however deep faults nest in the kernel: the stack is a row of       *)
(* kernel frames above at most one frame of a task.  *)
(***************************************************************************)
EXTENDS KernelStack, GuestModesProofs, SequenceTheorems

-----------------------------------------------------------------------------
(* The shape of the stack.  Offsets are from the stack pointer.            *)

Words == [mode : Modes, reg : Nat, val : BOOLEAN]

(* The context of mode m, in words o + 1 to o + 17 of s.                   *)
ContextAt(s, o, m) ==
  \A j \in 0..16 : s[o + 1 + j].mode = m /\ s[o + 1 + j].reg = j

(* A frame of 18 words that a fault in the kernel pushed.                  *)
KernelFrame(s, o) == ContextAt(s, o, KERNEL) /\ s[o + 16].val = TRUE

(* The frame of a task: of 18 words after a fault, and of 20 after a       *)
(* system call, with the arguments on top.                                 *)
FaultFrame(s, o) ==
  /\ ContextAt(s, o, TASK)
  /\ s[o + 16].val = FALSE /\ s[o + 17].val = FALSE

CallFrame(s, o) ==
  /\ s[o + 1].reg = 4 /\ s[o + 16].val = FALSE
  /\ FaultFrame(s, o + 2)

TaskFrame(s, o, size) ==
  \/ size = 18 /\ FaultFrame(s, o)
  \/ size = 20 /\ CallFrame(s, o)

Frames(s, depth, size) ==
  /\ Len(s) = 18 * depth + size
  /\ \A i \in Nat : i < depth => KernelFrame(s, 18 * i)
  /\ size # 0 => TaskFrame(s, 18 * depth, size)

StackShape ==
  /\ kstack \in Seq(Words)
  /\ \E depth \in Nat, size \in {0, 18, 20} :
       Frames(kstack, depth, size)

(* No frame is left where a task runs, or is about to be resumed.          *)
NoFrameBelowTask ==
  TASK \in {current_guest_mode, interrupted_mode, rpc_for[TRUSTED]} =>
    kstack = <<>>

StackInv ==
  /\ StackShape
  /\ NoFrameBelowTask
  /\ irq_off[TASK] = FALSE
  /\ ResumesWhereTrapped

KInv == Bookkeeping /\ StackInv

-----------------------------------------------------------------------------
(* Sequences of words put together, and what is below their first n.      *)
LEMMA ConcatWords ==
  ASSUME NEW f \in Seq(Words), NEW s \in Seq(Words)
  PROVE  /\ f \o s \in Seq(Words)
         /\ Len(f \o s) = Len(f) + Len(s)
         /\ \A i \in 1..Len(f) : (f \o s)[i] = f[i]
         /\ \A i \in 1..Len(s) : (f \o s)[Len(f) + i] = s[i]
BY ConcatProperties

LEMMA DropWords ==
  ASSUME NEW s \in Seq(Words), NEW n \in Nat, n <= Len(s)
  PROVE  /\ SubSeq(s, n + 1, Len(s)) \in Seq(Words)
         /\ Len(SubSeq(s, n + 1, Len(s))) = Len(s) - n
         /\ \A i \in 1..Len(s) - n : SubSeq(s, n + 1, Len(s))[i] = s[n + i]
<1>1. Len(s) \in Nat /\ n + 1 \in Int /\ \A i \in n + 1 .. Len(s) : s[i] \in Words
  OBVIOUS
<1> DEFINE a == n + 1
           z == Len(s)
<1>2. /\ SubSeq(s, a, z) \in Seq(Words)
      /\ Len(SubSeq(s, a, z)) = IF a <= z THEN z - a + 1 ELSE 0
      /\ \A i \in 1 .. z - a + 1 : SubSeq(s, a, z)[i] = s[a + i - 1]
  <2> HIDE DEF a, z
  <2>1. a \in Int /\ z \in Int /\ \A i \in a..z : s[i] \in Words
    BY <1>1 DEF a, z
  <2>2. QED
    BY <2>1, SubSeqProperties
<1>3. \A i \in 1..Len(s) - n : a + i - 1 = n + i /\ i \in 1 .. z - a + 1
  BY <1>1
<1>4. QED
  BY <1>1, <1>2, <1>3

-----------------------------------------------------------------------------
(* What the frames are made of.                                            *)

(* c is the context of mode m whose stack pointer has value sp.            *)
ContextOf(c, m, sp) ==
  /\ c \in Seq(Words)
  /\ Len(c) = 17
  /\ \A j \in 0..16 : c[j + 1].mode = m /\ c[j + 1].reg = j
  /\ c[14].val = sp
  /\ c[16].val = (m # TASK)
  /\ c[17].val = irq_off[m]

LEMMA ContextWords ==
  ASSUME TypeOK, NEW m \in {KERNEL, TASK}, NEW sp \in BOOLEAN
  PROVE  ContextOf(Context(m, sp), m, sp)
<1> DEFINE v(i) == CASE i = 14 -> sp
                     [] i = 16 -> m # TASK
                     [] i = 17 -> irq_off[m]
                     [] OTHER -> FALSE
<1>1. irq_off[m] \in BOOLEAN /\ m \in Modes
  BY ModesDistinct DEF TypeOK
<1>2. \A i \in 1..17 : v(i) \in BOOLEAN
  BY <1>1
<1>3. v(14) = sp /\ v(16) = (m # TASK) /\ v(17) = irq_off[m]
  OBVIOUS
<1>4. Context(m, sp) = [i \in 1..17 |-> Word(m, i - 1, v(i))]
  BY DEF Context
<1> HIDE DEF v
<1>5. \A i \in 1..17 : Word(m, i - 1, v(i)) \in Words
  BY <1>1, <1>2 DEF Word, Words
<1>6. QED
  BY <1>3, <1>4, <1>5 DEF Word, ContextOf

LEMMA AbortFrameWords ==
  ASSUME TypeOK, NEW m \in {KERNEL, TASK}, NEW sp \in BOOLEAN
  PROVE  /\ AbortFrame(m, sp) \in Seq(Words)
         /\ Len(AbortFrame(m, sp)) = 18
         /\ m = KERNEL => KernelFrame(AbortFrame(m, sp), 0)
         /\ m = TASK /\ irq_off[TASK] = FALSE =>
              TaskFrame(AbortFrame(m, sp), 0, 18)
<1> DEFINE c == Context(m, sp)
           z == <<Word(m, 17, FALSE)>>
           f == AbortFrame(m, sp)
<1>1. z \in Seq(Words) /\ Len(z) = 1
  BY ModesDistinct DEF Word, Words
<1>2. /\ c \in Seq(Words) /\ Len(c) = 17
      /\ \A j \in 0..16 : c[j + 1].mode = m /\ c[j + 1].reg = j
      /\ c[16].val = (m # TASK) /\ c[17].val = irq_off[m]
  <2>1. ContextOf(c, m, sp)
    BY ContextWords
  <2> HIDE DEF c
  <2>2. QED
    BY <2>1 DEF ContextOf
<1>3. f = c \o z
  BY DEF AbortFrame
<1> HIDE DEF c, z, f
<1>4. /\ f \in Seq(Words) /\ Len(f) = Len(c) + Len(z)
      /\ \A i \in 1..Len(c) : f[i] = c[i]
  BY <1>1, <1>2, <1>3, ConcatWords
<1>5. Len(f) = 18 /\ \A i \in 1..17 : f[i] = c[i]
  BY <1>1, <1>2, <1>4
<1>6. \A j \in 0..16 : f[0 + 1 + j] = c[j + 1]
  BY <1>5
<1>7. ContextAt(f, 0, m)
  BY <1>2, <1>6 DEF ContextAt
<1>8. f[16].val = (m # TASK) /\ f[17].val = irq_off[m]
  BY <1>2, <1>5
<1>9. m = KERNEL => KernelFrame(f, 0)
  <2>1. m = KERNEL => f[16].val = TRUE
    BY <1>8, ModesDistinct
  <2>2. 0 + 16 = 16
    OBVIOUS
  <2>3. QED
    BY <1>7, <2>1, <2>2 DEF KernelFrame
<1>10. m = TASK /\ irq_off[TASK] = FALSE => TaskFrame(f, 0, 18)
  <2>1. 0 + 16 = 16 /\ 0 + 17 = 17
    OBVIOUS
  <2>2. m = TASK /\ irq_off[TASK] = FALSE =>
          f[16].val = FALSE /\ f[17].val = FALSE
    BY <1>8
  <2>3. QED
    BY <1>7, <2>1, <2>2 DEF TaskFrame, FaultFrame
<1>11. QED
  BY <1>4, <1>5, <1>9, <1>10 DEF f

LEMMA SyscallFrameWords ==
  ASSUME TypeOK, irq_off[TASK] = FALSE
  PROVE  /\ SyscallFrame(FALSE) \in Seq(Words)
         /\ Len(SyscallFrame(FALSE)) = 20
         /\ TaskFrame(SyscallFrame(FALSE), 0, 20)
<1> DEFINE c == Context(TASK, FALSE)
           a == <<Word(TASK, 4, FALSE), Word(TASK, 5, FALSE)>>
           z == <<Word(TASK, 0, FALSE)>>
           f == SyscallFrame(FALSE)
<1>1. /\ a \in Seq(Words) /\ Len(a) = 2 /\ a[1].reg = 4
      /\ z \in Seq(Words) /\ Len(z) = 1
  BY ModesDistinct DEF Word, Words
<1>2. c \in Seq(Words) /\ Len(c) = 17
  BY ContextWords DEF ContextOf
<1>3. f = (a \o c) \o z
  BY DEF SyscallFrame
<1>4. /\ f \in Seq(Words) /\ Len(f) = 20 /\ f[1] = a[1]
      /\ \A i \in 1..17 : f[i + 2] = c[i]
  <2> HIDE DEF c, a, z, f
  <2> DEFINE ac == a \o c
  <2>1. /\ ac \in Seq(Words) /\ Len(ac) = 19 /\ ac[1] = a[1]
        /\ \A i \in 1..17 : ac[i + 2] = c[i]
    <3>1. /\ ac \in Seq(Words) /\ Len(ac) = Len(a) + Len(c)
          /\ \A i \in 1..Len(a) : ac[i] = a[i]
          /\ \A i \in 1..Len(c) : ac[Len(a) + i] = c[i]
      BY <1>1, <1>2, ConcatWords
    <3> HIDE DEF ac
    <3>2. \A i \in 1..17 : 2 + i = i + 2
      OBVIOUS
    <3>3. QED
      BY <1>1, <1>2, <3>1, <3>2
  <2> HIDE DEF ac
  <2>2. f = ac \o z
    BY <1>3 DEF ac
  <2>3. f \in Seq(Words) /\ Len(f) = 20 /\ \A i \in 1..19 : f[i] = ac[i]
    <3>1. /\ f \in Seq(Words) /\ Len(f) = Len(ac) + Len(z)
          /\ \A i \in 1..Len(ac) : f[i] = ac[i]
      BY <1>1, <2>1, <2>2, ConcatWords
    <3>2. QED
      BY <1>1, <2>1, <3>1
  <2>4. QED
    BY <2>1, <2>3
<1>5. /\ \A j \in 0..16 : c[j + 1].mode = TASK /\ c[j + 1].reg = j
      /\ c[14].val = FALSE /\ c[16].val = FALSE /\ c[17].val = FALSE
  BY ContextWords DEF ContextOf
<1> HIDE DEF c, a, z, f
<1>6. ContextAt(f, 2, TASK)
  <2>1. \A j \in 0..16 : f[2 + 1 + j] = c[j + 1]
    BY <1>4
  <2>2. QED
    BY <1>5, <2>1 DEF ContextAt
<1>7. f[1].reg = 4 /\ f[16].val = FALSE /\ f[18].val = FALSE /\ f[19].val = FALSE
  BY <1>1, <1>4, <1>5
<1>8. TaskFrame(f, 0, 20)
  <2>1. 0 + 1 = 1 /\ 0 + 16 = 16 /\ 0 + 2 = 2 /\ 2 + 16 = 18 /\ 2 + 17 = 19
    OBVIOUS
  <2>2. FaultFrame(f, 2)
    BY <1>6, <1>7, <2>1 DEF FaultFrame
  <2>3. CallFrame(f, 0)
    BY <1>7, <2>1, <2>2 DEF CallFrame
  <2>4. QED
    BY <2>3 DEF TaskFrame
<1>9. QED
  BY <1>4, <1>8 DEF f

-----------------------------------------------------------------------------
(* Frames stay what they are when another is pushed or popped above them.  *)

(* The k words of s from offset o on are those of t from offset p on.      *)
Same(s, o, t, p, k) == \A n \in 1..k : t[p + n] = s[o + n]

(* Words moved from offset o to offset p are the same frame there.         *)
LEMMA MovedContext ==
  ASSUME NEW s, NEW t, NEW o \in Nat, NEW p \in Nat, NEW m,
         \A n \in 1..17 : t[p + n] = s[o + n], ContextAt(s, o, m)
  PROVE  ContextAt(t, p, m)
<1>1. \A j \in 0..16 : t[p + 1 + j] = s[o + 1 + j]
  <2> TAKE j \in 0..16
  <2>1. /\ 1 + j \in 1..17
        /\ p + (1 + j) = p + 1 + j /\ o + (1 + j) = o + 1 + j
    OBVIOUS
  <2>2. t[p + (1 + j)] = s[o + (1 + j)]
    BY <2>1
  <2>3. QED
    BY <2>1, <2>2
<1>2. QED
  BY <1>1 DEF ContextAt

LEMMA MovedKernelFrame ==
  ASSUME NEW s, NEW t, NEW o \in Nat, NEW p \in Nat,
         Same(s, o, t, p, 18), KernelFrame(s, o)
  PROVE  KernelFrame(t, p)
<1>0. \A n \in 1..18 : t[p + n] = s[o + n]
  BY DEF Same
<1>1. ContextAt(t, p, KERNEL)
  <2>1. \A n \in 1..17 : t[p + n] = s[o + n]
    BY <1>0
  <2>2. ContextAt(s, o, KERNEL)
    BY DEF KernelFrame
  <2>3. QED
    BY <2>1, <2>2, MovedContext
<1>2. t[p + 16] = s[o + 16]
  BY <1>0
<1>3. QED
  BY <1>1, <1>2 DEF KernelFrame

LEMMA MovedFaultFrame ==
  ASSUME NEW s, NEW t, NEW o \in Nat, NEW p \in Nat,
         Same(s, o, t, p, 18), FaultFrame(s, o)
  PROVE  FaultFrame(t, p)
<1>0. \A n \in 1..18 : t[p + n] = s[o + n]
  BY DEF Same
<1>1. ContextAt(t, p, TASK)
  <2>1. \A n \in 1..17 : t[p + n] = s[o + n]
    BY <1>0
  <2>2. ContextAt(s, o, TASK)
    BY DEF FaultFrame
  <2>3. QED
    BY <2>1, <2>2, MovedContext
<1>2. t[p + 16] = s[o + 16] /\ t[p + 17] = s[o + 17]
  BY <1>0
<1>3. QED
  BY <1>1, <1>2 DEF FaultFrame

LEMMA MovedCallFrame ==
  ASSUME NEW s, NEW t, NEW o \in Nat, NEW p \in Nat,
         Same(s, o, t, p, 20), CallFrame(s, o)
  PROVE  CallFrame(t, p)
<1> DEFINE a == o + 2
           b == p + 2
<1>0. \A n \in 1..20 : t[p + n] = s[o + n]
  BY DEF Same
<1>1. FaultFrame(s, a) /\ a \in Nat /\ b \in Nat
  BY DEF CallFrame
<1>2. \A n \in 1..18 : t[b + n] = s[a + n]
  <2> TAKE n \in 1..18
  <2>1. 2 + n \in 1..20 /\ p + (2 + n) = b + n /\ o + (2 + n) = a + n
    OBVIOUS
  <2>2. t[p + (2 + n)] = s[o + (2 + n)]
    BY <1>0, <2>1
  <2>3. QED
    BY <2>1, <2>2
<1>3. t[p + 1] = s[o + 1] /\ t[p + 16] = s[o + 16]
  BY <1>0
<1>4. FaultFrame(t, b)
  <2> HIDE DEF a, b
  <2>1. Same(s, a, t, b, 18)
    BY <1>2 DEF Same
  <2>2. QED
    BY <1>1, <2>1, MovedFaultFrame
<1>5. QED
  BY <1>3, <1>4 DEF CallFrame

(* The arithmetic of a frame more or less.                                 *)
LEMMA Longer ==
  ASSUME NEW below \in Nat, NEW size \in {0, 18, 20},
         NEW long, NEW short, NEW base, base = 18 + below
  PROVE  /\ long = 18 + short /\ short = below + size => long = base + size
         /\ short = long - 18 /\ long = base + size => short = below + size
OBVIOUS

LEMMA PushKernelFrame ==
  ASSUME NEW s \in Seq(Words), NEW f \in Seq(Words), NEW depth \in Nat,
         NEW size \in {0, 18, 20}, Frames(s, depth, size),
         Len(f) = 18, KernelFrame(f, 0)
  PROVE  f \o s \in Seq(Words) /\ Frames(f \o s, depth + 1, size)
<1> DEFINE t == f \o s
           base == 18 * depth
           newBase == 18 * (depth + 1)
<1>1. /\ Len(s) \in Nat /\ Len(s) = base + size
      /\ base \in Nat /\ newBase \in Nat /\ newBase = 18 + base
  BY DEF Frames
<1>2. /\ t \in Seq(Words) /\ Len(t) = Len(f) + Len(s)
      /\ \A n \in 1..Len(f) : t[n] = f[n]
      /\ \A n \in 1..Len(s) : t[Len(f) + n] = s[n]
  BY ConcatWords, ZenonT(40)
<1> HIDE DEF t
<1>3. /\ Len(t) = 18 + Len(s)
      /\ \A n \in 1..18 : t[n] = f[n]
      /\ \A n \in 1..Len(s) : t[18 + n] = s[n]
  BY <1>2
<1>4. ASSUME NEW i \in Nat, i < depth + 1 PROVE KernelFrame(t, 18 * i)
  <2>1. CASE i = 0
    <3> DEFINE o == 0
    <3>1. o \in Nat /\ o = 18 * i /\ KernelFrame(f, o)
      BY <2>1
    <3>2. \A n \in 1..18 : o + n = n
      OBVIOUS
    <3> HIDE DEF o
    <3>3. Same(f, o, t, o, 18)
      BY <1>3, <3>2 DEF Same
    <3>4. o \in Nat /\ KernelFrame(f, o)
      BY <3>1
    <3>5. KernelFrame(t, o)
      BY <3>3, <3>4, MovedKernelFrame
    <3>6. QED
      BY <3>1, <3>5
  <2>2. CASE i # 0
    <3> DEFINE o == 18 * (i - 1)
               p == 18 * i
    <3>1. i - 1 \in Nat /\ i - 1 < depth
      BY <1>4, <2>2
    <3>2. KernelFrame(s, o)
      BY <3>1 DEF Frames
    <3>3. o \in Nat /\ p \in Nat /\ p = 18 + o /\ o + 18 <= Len(s)
      BY <1>1, <3>1
    <3> HIDE DEF o, p
    <3>4. \A n \in 1..18 : t[p + n] = s[o + n]
      <4> TAKE n \in 1..18
      <4>1. o + n \in 1..Len(s) /\ 18 + (o + n) = p + n
        BY <1>1, <3>3
      <4>2. t[18 + (o + n)] = s[o + n]
        BY <1>3, <4>1
      <4>3. QED
        BY <4>1, <4>2
    <3>5. Same(s, o, t, p, 18)
      BY <3>4 DEF Same
    <3>6. KernelFrame(t, p)
      BY <3>2, <3>3, <3>5, MovedKernelFrame
    <3>7. QED
      BY <3>6 DEF p
  <2>3. QED
    BY <2>1, <2>2
<1>5. ASSUME size # 0 PROVE TaskFrame(t, newBase, size)
  <2>1. TaskFrame(s, base, size)
    BY <1>5 DEF Frames
  <2>0. size \in {18, 20}
    BY <1>5
  <2> HIDE DEF base, newBase
  <2>2. Same(s, base, t, newBase, size)
    <3> SUFFICES ASSUME NEW n \in 1..size
                 PROVE  t[newBase + n] = s[base + n]
      BY DEF Same
    <3>1. base + n \in 1..Len(s) /\ 18 + (base + n) = newBase + n
      BY <1>1, <2>1
    <3>2. t[18 + (base + n)] = s[base + n]
      BY <1>3, <3>1
    <3>3. QED
      BY <3>1, <3>2
  <2>3. base \in Nat /\ newBase \in Nat
    BY <1>1
  <2>4. CASE size = 18
    <3>1. FaultFrame(s, base) /\ Same(s, base, t, newBase, 18)
      BY <2>1, <2>2, <2>4 DEF TaskFrame
    <3>2. FaultFrame(t, newBase)
      BY <2>3, <3>1, MovedFaultFrame
    <3>3. QED
      BY <2>4, <3>2 DEF TaskFrame
  <2>5. CASE size = 20
    <3>1. CallFrame(s, base) /\ Same(s, base, t, newBase, 20)
      BY <2>1, <2>2, <2>5 DEF TaskFrame
    <3>2. CallFrame(t, newBase)
      BY <2>3, <3>1, MovedCallFrame
    <3>3. QED
      BY <2>5, <3>2 DEF TaskFrame
  <2>6. QED
    BY <2>0, <2>4, <2>5
<1>6. Len(t) = newBase + size
  <2> HIDE DEF base, newBase
  <2>1. Len(t) = 18 + Len(s)
    BY <1>3
  <2>2. Len(s) = base + size /\ newBase = 18 + base /\ base \in Nat
    BY <1>1
  <2>3. QED
    BY <2>1, <2>2, Longer
<1>7. QED
  BY <1>2, <1>4, <1>5, <1>6 DEF Frames, t

LEMMA PopKernelFrame ==
  ASSUME NEW s \in Seq(Words), NEW depth \in Nat \ {0},
         NEW size \in {0, 18, 20}, Frames(s, depth, size)
  PROVE  /\ SubSeq(s, 19, Len(s)) \in Seq(Words)
         /\ Frames(SubSeq(s, 19, Len(s)), depth - 1, size)
<1> DEFINE t == SubSeq(s, 19, Len(s))
           base == 18 * depth
           newBase == 18 * (depth - 1)
<1>1. /\ Len(s) \in Nat /\ Len(s) = base + size
      /\ base \in Nat /\ newBase \in Nat /\ base = 18 + newBase
  BY DEF Frames
<1>2. /\ t \in Seq(Words) /\ Len(t) = Len(s) - 18
      /\ \A n \in 1..Len(s) - 18 : t[n] = s[18 + n]
  <2> HIDE DEF base, newBase
  <2> DEFINE k == 18
  <2>1. k \in Nat /\ k <= Len(s) /\ k + 1 = 19 /\ k = 18
    BY <1>1
  <2> HIDE DEF k
  <2>2. /\ SubSeq(s, k + 1, Len(s)) \in Seq(Words)
        /\ Len(SubSeq(s, k + 1, Len(s))) = Len(s) - k
        /\ \A i \in 1..Len(s) - k : SubSeq(s, k + 1, Len(s))[i] = s[k + i]
    BY <2>1, DropWords
  <2>3. QED
    BY <2>1, <2>2
<1> HIDE DEF t
<1>3. ASSUME NEW i \in Nat, i < depth - 1 PROVE KernelFrame(t, 18 * i)
  <2> DEFINE o == 18 * (i + 1)
             p == 18 * i
  <2>1. i + 1 \in Nat /\ i + 1 < depth
    BY <1>3
  <2>2. KernelFrame(s, o)
    BY <2>1 DEF Frames
  <2>3. o \in Nat /\ p \in Nat /\ o = 18 + p /\ o + 18 <= Len(s)
    BY <1>1, <2>1
  <2> HIDE DEF o, p, base, newBase
  <2>4. Same(s, o, t, p, 18)
    <3> SUFFICES ASSUME NEW n \in 1..18
                 PROVE  t[p + n] = s[o + n]
      BY DEF Same
    <3>1. p + n \in 1..Len(s) - 18 /\ 18 + (p + n) = o + n
      BY <1>1, <2>3
    <3>2. t[p + n] = s[18 + (p + n)]
      BY <1>2, <3>1
    <3>3. QED
      BY <3>1, <3>2
  <2>5. o \in Nat /\ p \in Nat
    BY <2>3
  <2>6. KernelFrame(t, p)
    BY <2>2, <2>4, <2>5, MovedKernelFrame
  <2>7. QED
    BY <2>6 DEF p
<1>4. ASSUME size # 0 PROVE TaskFrame(t, newBase, size)
  <2>1. TaskFrame(s, base, size)
    BY <1>4 DEF Frames
  <2>0. size \in {18, 20}
    BY <1>4
  <2> HIDE DEF base, newBase
  <2>2. Same(s, base, t, newBase, size)
    <3> SUFFICES ASSUME NEW n \in 1..size
                 PROVE  t[newBase + n] = s[base + n]
      BY DEF Same
    <3>1. newBase + n \in 1..Len(s) - 18 /\ 18 + (newBase + n) = base + n
      BY <1>1, <2>1
    <3>2. t[newBase + n] = s[18 + (newBase + n)]
      BY <1>2, <3>1
    <3>3. QED
      BY <3>1, <3>2
  <2>3. base \in Nat /\ newBase \in Nat
    BY <1>1
  <2>4. CASE size = 18
    <3>1. FaultFrame(s, base) /\ Same(s, base, t, newBase, 18)
      BY <2>1, <2>2, <2>4 DEF TaskFrame
    <3>2. FaultFrame(t, newBase)
      BY <2>3, <3>1, MovedFaultFrame
    <3>3. QED
      BY <2>4, <3>2 DEF TaskFrame
  <2>5. CASE size = 20
    <3>1. CallFrame(s, base) /\ Same(s, base, t, newBase, 20)
      BY <2>1, <2>2, <2>5 DEF TaskFrame
    <3>2. CallFrame(t, newBase)
      BY <2>3, <3>1, MovedCallFrame
    <3>3. QED
      BY <2>5, <3>2 DEF TaskFrame
  <2>6. QED
    BY <2>0, <2>4, <2>5
<1>5. Len(t) = newBase + size
  <2> HIDE DEF base, newBase
  <2>1. Len(t) = Len(s) - 18
    BY <1>2
  <2>2. Len(s) = base + size /\ base = 18 + newBase /\ newBase \in Nat
    BY <1>1
  <2>3. QED
    BY <2>1, <2>2, Longer
<1>6. QED
  BY <1>2, <1>3, <1>4, <1>5 DEF Frames, t

-----------------------------------------------------------------------------
(* The steps.                                                              *)

(* What the Linux port is assumed to keep to: its calls, arguments in its  *)
(* own memory, and the stacks of tasks in the memory of tasks.             *)
LinuxPort ==
  /\ PortSoftware
  /\ "valid" \in Args
  /\ TaskSp = {FALSE}

LEMMA EmptyFrames == Frames(<<>>, 0, 0) /\ <<>> \in Seq(Words)
BY DEF Frames

(* One frame of a task makes a stack.                                      *)
LEMMA OneFrame ==
  ASSUME NEW f \in Seq(Words), NEW size \in {18, 20}, Len(f) = size,
         TaskFrame(f, 0, size)
  PROVE  Frames(f, 0, size)
<1>1. 18 * 0 = 0 /\ 0 + size = size /\ \A i \in Nat : ~(i < 0)
  OBVIOUS
<1>2. QED
  BY <1>1 DEF Frames

(* While the kernel runs nothing waits below it.                           *)
LEMMA KernelAloneNext ==
  ASSUME Bookkeeping', current_guest_mode' = KERNEL
  PROVE  NoFrameBelowTask'
BY ModesDistinct, NoneIsNoMode
   DEF Bookkeeping, Synchrony, RpcSynchronous, InterruptedBelow, Client,
       NoFrameBelowTask

LEMMA SyscallStep ==
  ASSUME LinuxPort, KInv, KSyscall
  PROVE  [Next]_vars /\ KInv'
<1> USE ModesDistinct, NoneIsNoMode
<1>1. Next
  BY DEF KSyscall, Next
<1>2. Bookkeeping'
  BY <1>1, BookkeepingStep DEF KInv, LinuxPort
<1>3. current_guest_mode = TASK /\ current_guest_mode' = KERNEL
  BY DEF KSyscall, Syscall, ChangeGuestMode
<1>4. TypeOK /\ irq_off[TASK] = FALSE /\ kstack = <<>>
  BY <1>3 DEF KInv, Bookkeeping, StackInv, NoFrameBelowTask
<1>5. irq_off'[TASK] = FALSE
  BY <1>4 DEF KSyscall, Syscall, SetIrqOff, TypeOK
<1>6. kstack' = SyscallFrame(FALSE) \o <<>> /\ resumed' = <<>>
  BY <1>4 DEF KSyscall, Push, LinuxPort
<1>7. kstack' = SyscallFrame(FALSE) /\ kstack' \in Seq(Words)
  BY <1>4, <1>6, SyscallFrameWords, ConcatEmptySeq
<1>8. Frames(kstack', 0, 20)
  BY <1>4, <1>7, SyscallFrameWords, OneFrame
<1>9. StackShape'
  BY <1>7, <1>8 DEF StackShape
<1>10. NoFrameBelowTask'
  BY <1>2, <1>3, KernelAloneNext
<1>11. ResumesWhereTrapped'
  BY <1>6 DEF ResumesWhereTrapped
<1>12. QED
  BY <1>1, <1>2, <1>5, <1>9, <1>10, <1>11 DEF KInv, StackInv

LEMMA AbortStep ==
  ASSUME LinuxPort, KInv, KAbort
  PROVE  [Next]_vars /\ KInv'
<1> USE ModesDistinct, NoneIsNoMode
<1>1. Next
  BY DEF KAbort, Next
<1>2. Bookkeeping'
  BY <1>1, BookkeepingStep DEF KInv, LinuxPort
<1>3. current_guest_mode \in {KERNEL, TASK} /\ current_guest_mode' = KERNEL
  <2>1. current_guest_mode \in {KERNEL, TASK}
    BY TransfersFrom DEF KAbort, KInv, Bookkeeping, LinuxPort
  <2>2. QED
    BY <2>1 DEF KAbort, Abort, ChangeGuestMode
<1>4. TypeOK /\ irq_off[TASK] = FALSE
  BY DEF KInv, Bookkeeping, StackInv
<1>5. irq_off'[TASK] = FALSE
  BY <1>4 DEF KAbort, Abort, SetIrqOff, TypeOK
<1>6. PICK sp \in StackPointers(current_guest_mode) :
        /\ kstack' = AbortFrame(current_guest_mode, sp) \o kstack
        /\ resumed' = <<>>
  BY DEF KAbort, Push
<1>7. sp \in BOOLEAN
  BY DEF StackPointers, LinuxPort
<1>8. StackShape'
  <2>1. CASE current_guest_mode = TASK
    <3> DEFINE f == AbortFrame(TASK, sp)
    <3>1. kstack = <<>>
      BY <2>1 DEF KInv, StackInv, NoFrameBelowTask
    <3>2. f \in Seq(Words) /\ Len(f) = 18 /\ TaskFrame(f, 0, 18)
      BY <1>4, <1>7, AbortFrameWords
    <3>3. kstack' = f \o <<>>
      BY <1>6, <2>1, <3>1
    <3> HIDE DEF f
    <3>4. kstack' = f
      BY <3>2, <3>3, ConcatEmptySeq
    <3>5. Frames(f, 0, 18)
      BY <3>2, OneFrame
    <3>6. QED
      BY <3>2, <3>4, <3>5 DEF StackShape
  <2>2. CASE current_guest_mode = KERNEL
    <3> DEFINE f == AbortFrame(KERNEL, sp)
    <3>1. f \in Seq(Words) /\ Len(f) = 18 /\ KernelFrame(f, 0)
      BY <1>4, <1>7, AbortFrameWords
    <3>2. kstack' = f \o kstack
      BY <1>6, <2>2
    <3> HIDE DEF f
    <3>3. PICK depth \in Nat, size \in {0, 18, 20} : Frames(kstack, depth, size)
      BY DEF KInv, StackInv, StackShape
    <3>4. kstack \in Seq(Words)
      BY DEF KInv, StackInv, StackShape
    <3>5. kstack' \in Seq(Words) /\ Frames(kstack', depth + 1, size)
      BY <3>1, <3>2, <3>3, <3>4, PushKernelFrame
    <3>6. depth + 1 \in Nat
      BY <3>3
    <3>7. QED
      BY <3>5, <3>6 DEF StackShape
  <2>3. QED
    BY <1>3, <2>1, <2>2
<1>9. NoFrameBelowTask'
  BY <1>2, <1>3, KernelAloneNext
<1>10. ResumesWhereTrapped'
  BY <1>6 DEF ResumesWhereTrapped
<1>11. QED
  BY <1>1, <1>2, <1>5, <1>8, <1>9, <1>10 DEF KInv, StackInv

LEMMA NewTaskStep ==
  ASSUME LinuxPort, KInv, NewTask
  PROVE  [Next]_vars /\ KInv'
<1> USE ModesDistinct, NoneIsNoMode
<1>1. UNCHANGED vars /\ UNCHANGED resumed /\ current_guest_mode = KERNEL
  BY DEF NewTask
<1>2. Bookkeeping'
  BY <1>1, BookkeepingStep DEF KInv, LinuxPort
<1> DEFINE c == [i \in 1..17 |-> Word(TASK, i - 1, FALSE)]
           z == <<Word(TASK, 17, FALSE)>>
<1>3. kstack' = c \o z
  BY DEF NewTask
<1>4. /\ c \in Seq(Words) /\ Len(c) = 17 /\ z \in Seq(Words) /\ Len(z) = 1
      /\ \A j \in 0..16 : c[j + 1].mode = TASK /\ c[j + 1].reg = j
      /\ c[16].val = FALSE /\ c[17].val = FALSE
  <2>1. \A i \in 1..17 : Word(TASK, i - 1, FALSE) \in Words
    BY DEF Word, Words
  <2>2. Word(TASK, 17, FALSE) \in Words
    BY DEF Word, Words
  <2>3. QED
    BY <2>1, <2>2 DEF Word
<1> HIDE DEF c, z
<1>5. /\ kstack' \in Seq(Words) /\ Len(kstack') = Len(c) + Len(z)
      /\ \A i \in 1..Len(c) : kstack'[i] = c[i]
  <2>1. c \in Seq(Words) /\ z \in Seq(Words)
    BY <1>4
  <2>2. /\ c \o z \in Seq(Words) /\ Len(c \o z) = Len(c) + Len(z)
        /\ \A i \in 1..Len(c) : (c \o z)[i] = c[i]
    BY <2>1, ConcatWords
  <2>3. QED
    BY <1>3, <2>2
<1>6. Len(kstack') = 18 /\ \A i \in 1..17 : kstack'[i] = c[i]
  BY <1>4, <1>5
<1>7. \A j \in 0..16 : kstack'[0 + 1 + j] = c[j + 1]
  BY <1>6
<1>8. FaultFrame(kstack', 0)
  <2>1. ContextAt(kstack', 0, TASK)
    BY <1>4, <1>7 DEF ContextAt
  <2>2. kstack'[16].val = FALSE /\ kstack'[17].val = FALSE
    BY <1>4, <1>6
  <2>3. 0 + 16 = 16 /\ 0 + 17 = 17
    OBVIOUS
  <2>4. QED
    BY <2>1, <2>2, <2>3 DEF FaultFrame
<1>9. TaskFrame(kstack', 0, 18)
  BY <1>8 DEF TaskFrame
<1>10. Frames(kstack', 0, 18)
  BY <1>5, <1>6, <1>9, OneFrame
<1>11. StackShape'
  BY <1>5, <1>10 DEF StackShape
<1>12. NoFrameBelowTask'
  BY <1>1, <1>2, KernelAloneNext DEF vars, machine, modeVars
<1>13. ResumesWhereTrapped' /\ irq_off'[TASK] = FALSE
  BY <1>1 DEF KInv, StackInv, ResumesWhereTrapped, vars, machine, modeVars
<1>14. QED
  BY <1>1, <1>2, <1>11, <1>12, <1>13 DEF KInv, StackInv

(* Back to the kernel: a frame of the kernel is on top, not the frame of a *)
(* system call, and its pc is in the kernel.                               *)
LEMMA KernelReturn ==
  ASSUME LinuxPort, KInv, KRestoreLinuxRegs,
         NEW depth \in Nat \ {0}, NEW size \in {0, 18, 20},
         Frames(kstack, depth, size)
  PROVE  [Next]_vars /\ KInv'
<1> USE ModesDistinct, NoneIsNoMode
<1>1. KernelFrame(kstack, 0)
  <2>1. 0 \in Nat /\ 0 < depth /\ 18 * 0 = 0
    OBVIOUS
  <2>2. KernelFrame(kstack, 18 * 0)
    BY <2>1 DEF Frames
  <2>3. QED
    BY <2>1, <2>2
<1>2. \A j \in 0..16 : kstack[j + 1].mode = KERNEL /\ kstack[j + 1].reg = j
  <2>1. ContextAt(kstack, 0, KERNEL)
    BY <1>1 DEF KernelFrame
  <2>2. \A j \in 0..16 : 0 + 1 + j = j + 1
    OBVIOUS
  <2>3. QED
    BY <2>1, <2>2 DEF ContextAt
<1>3. kstack[16].val = TRUE
  <2>1. kstack[0 + 16].val = TRUE /\ 0 + 16 = 16
    BY <1>1 DEF KernelFrame
  <2>2. QED
    BY <2>1
<1>4. kstack \in Seq(Words) /\ Len(kstack) \in Nat /\ Len(kstack) >= 18
  BY DEF KInv, StackInv, StackShape, Frames
<1>5. kstack[17].val \in BOOLEAN
  <2>1. kstack[17] \in Words
    BY <1>4
  <2>2. QED
    BY <2>1 DEF Words
<1>6. ToKernel(0)
  <2>1. At(0).reg = 0 /\ At(15).val = TRUE
    BY <1>2, <1>3 DEF At
  <2>2. ~SyscallOnTop
    BY <2>1 DEF SyscallOnTop
  <2>3. QED
    BY <2>1, <2>2 DEF KRestoreLinuxRegs
<1>7. /\ kstack' = SubSeq(kstack, 19, Len(kstack))
      /\ ResumeFrame(KERNEL, kstack[17].val)
      /\ \A j \in 0..16 :
           resumed'[j] = CASE j = 13 -> Word(KERNEL, 13, TRUE)
                           [] j = 16 -> kstack[17]
                           [] OTHER  -> kstack[j + 1]
  <2>1. 18 + 1 = 19 /\ 16 + 0 = 16 /\ 16 + 1 = 17
    OBVIOUS
  <2>2. QED
    BY <1>6, <2>1 DEF ToKernel, Pop, At, PSR
<1>8. RestoreLinuxRegs
  BY <1>5, <1>7 DEF KRestoreLinuxRegs, RestoreLinuxRegs, LinuxPort
<1>9. Next
  BY <1>8 DEF Next
<1>10. Bookkeeping'
  BY <1>9, BookkeepingStep DEF KInv, LinuxPort
<1>11. current_guest_mode' = KERNEL
  BY <1>7 DEF ResumeFrame, ChangeGuestMode
<1>12. irq_off'[TASK] = FALSE
  BY <1>7 DEF ResumeFrame, SetIrqOff, KInv, StackInv, Bookkeeping, TypeOK
<1>13. StackShape'
  <2>1. kstack' \in Seq(Words) /\ Frames(kstack', depth - 1, size)
    BY <1>4, <1>7, PopKernelFrame
  <2>2. depth - 1 \in Nat
    OBVIOUS
  <2>3. QED
    BY <2>1, <2>2 DEF StackShape
<1>14. NoFrameBelowTask'
  BY <1>10, <1>11, KernelAloneNext
<1>15. ResumesWhereTrapped'
  <2>1. ASSUME NEW j \in 0..16
        PROVE  resumed'[j].mode = KERNEL /\ resumed'[j].reg = j
    <3>1. CASE j = 13
      BY <1>7, <3>1 DEF Word
    <3>2. CASE j = 16
      BY <1>2, <1>7, <3>2
    <3>3. CASE j # 13 /\ j # 16
      BY <1>2, <1>7, <3>3
    <3>4. QED
      BY <3>1, <3>2, <3>3
  <2>2. QED
    BY <1>11, <2>1 DEF ResumesWhereTrapped
<1>16. QED
  BY <1>9, <1>10, <1>12, <1>13, <1>14, <1>15 DEF KInv, StackInv

(* Back to a task: its frame is the only one, and all of it is taken off.  *)
LEMMA TaskReturn ==
  ASSUME LinuxPort, KInv, KRestoreLinuxRegs, NEW size \in {0, 18, 20},
         Frames(kstack, 0, size)
  PROVE  [Next]_vars /\ KInv'
<1> USE ModesDistinct, NoneIsNoMode
<1>1. kstack \in Seq(Words) /\ Len(kstack) = size
  <2>1. 18 * 0 + size = size
    OBVIOUS
  <2>2. QED
    BY <2>1 DEF KInv, StackInv, StackShape, Frames
<1>2. size # 0
  BY <1>1 DEF KRestoreLinuxRegs
<1>3. TaskFrame(kstack, 0, size)
  <2>1. 18 * 0 = 0
    OBVIOUS
  <2>2. QED
    BY <1>2, <2>1 DEF Frames
<1>4. ASSUME resumed' # <<>> =>
               \A j \in 0..16 : resumed'[j].mode = TASK /\ resumed'[j].reg = j,
             ResumeFrame(TASK, FALSE),
             kstack' = SubSeq(kstack, size + 1, Len(kstack))
      PROVE  [Next]_vars /\ KInv'
  <2>1. Next
    BY <1>4 DEF KRestoreLinuxRegs, RestoreLinuxRegs, LinuxPort, Next
  <2>2. Bookkeeping'
    BY <2>1, BookkeepingStep DEF KInv, LinuxPort
  <2>3. current_guest_mode' = TASK /\ irq_off'[TASK] = FALSE
    BY <1>4 DEF ResumeFrame, ChangeGuestMode, SetIrqOff, KInv, Bookkeeping,
                TypeOK
  <2>4. kstack' = <<>>
    <3>1. size + 1 \in Int /\ size \in Int /\ size < size + 1
      OBVIOUS
    <3>2. SubSeq(kstack, size + 1, size) = <<>>
      BY <3>1, SubSeqEmpty
    <3>3. QED
      BY <1>1, <1>4, <3>2
  <2>5. StackShape'
    BY <2>4, EmptyFrames DEF StackShape
  <2>6. NoFrameBelowTask' /\ ResumesWhereTrapped'
    BY <1>4, <2>3, <2>4 DEF NoFrameBelowTask, ResumesWhereTrapped
  <2>7. QED
    BY <2>1, <2>2, <2>3, <2>5, <2>6 DEF KInv, StackInv
<1>5. CASE size = 18
  <2>1. FaultFrame(kstack, 0)
    BY <1>3, <1>5 DEF TaskFrame
  <2>2. /\ \A j \in 0..16 : kstack[j + 1].mode = TASK /\ kstack[j + 1].reg = j
        /\ kstack[16].val = FALSE /\ kstack[17].val = FALSE
    <3>1. \A j \in 0..16 : 0 + 1 + j = j + 1
      OBVIOUS
    <3>2. 0 + 16 = 16 /\ 0 + 17 = 17
      OBVIOUS
    <3>3. QED
      BY <2>1, <3>1, <3>2 DEF FaultFrame, ContextAt
  <2>3. ToTask(FALSE, 0)
    <3>1. At(0).reg = 0 /\ At(15).val = FALSE
      BY <2>2 DEF At
    <3>2. SyscallOnTop = FALSE
      BY <3>1 DEF SyscallOnTop
    <3>3. QED
      BY <3>1, <3>2 DEF KRestoreLinuxRegs
  <2>4. 18 + 0 = size /\ 16 + 0 = 16 /\ 16 + 1 = 17
    BY <1>5
  <2>5. /\ kstack' = SubSeq(kstack, size + 1, Len(kstack))
        /\ ResumeFrame(TASK, FALSE)
    BY <2>2, <2>3, <2>4 DEF ToTask, Pop, At
  <2>6. \A j \in 0..16 : resumed'[j] = IF j = 16 THEN kstack[17] ELSE kstack[j + 1]
    BY <2>3, <2>4 DEF ToTask, At, PSR
  <2>7. \A j \in 0..16 : resumed'[j].mode = TASK /\ resumed'[j].reg = j
    <3> TAKE j \in 0..16
    <3>1. resumed'[j] = kstack[j + 1]
      BY <2>6
    <3>2. QED
      BY <2>2, <3>1
  <2>8. QED
    BY <1>4, <2>5, <2>7
<1>6. CASE size = 20
  <2>1. CallFrame(kstack, 0)
    BY <1>3, <1>6 DEF TaskFrame
  <2>2. /\ \A j \in 0..16 : kstack[j + 3].mode = TASK /\ kstack[j + 3].reg = j
        /\ kstack[1].reg = 4 /\ kstack[16].val = FALSE /\ kstack[19].val = FALSE
    <3>1. \A j \in 0..16 : 2 + 1 + j = j + 3
      OBVIOUS
    <3>2. 0 + 16 = 16 /\ 0 + 1 = 1 /\ 0 + 2 = 2 /\ 2 + 17 = 19
      OBVIOUS
    <3>3. FaultFrame(kstack, 2) /\ kstack[1].reg = 4 /\ kstack[16].val = FALSE
      BY <2>1, <3>2 DEF CallFrame
    <3>4. QED
      BY <3>1, <3>2, <3>3 DEF FaultFrame, ContextAt
  <2>3. ToTask(TRUE, 2)
    <3>1. At(0).reg = 4 /\ At(15).val = FALSE
      BY <2>2 DEF At
    <3>2. SyscallOnTop = TRUE
      BY <3>1 DEF SyscallOnTop
    <3>3. QED
      BY <3>1, <3>2 DEF KRestoreLinuxRegs
  <2>4. 18 + 2 = size /\ 16 + 2 = 18 /\ 18 + 1 = 19
    BY <1>6
  <2>5. /\ kstack' = SubSeq(kstack, size + 1, Len(kstack))
        /\ ResumeFrame(TASK, FALSE)
    BY <2>2, <2>3, <2>4 DEF ToTask, Pop, At
  <2>6. \A j \in 0..16 :
          resumed'[j] = CASE j = 16 -> kstack[19]
                          [] j = 0  -> Word(TASK, 0, FALSE)
                          [] j > 0 /\ j # 16 -> kstack[j + 2 + 1]
                          [] OTHER -> kstack[j + 1]
    BY <2>3, <2>4 DEF ToTask, At, PSR
  <2>7. \A j \in 0..16 : resumed'[j].mode = TASK /\ resumed'[j].reg = j
    <3> TAKE j \in 0..16
    <3>1. CASE j = 0
      BY <2>6, <3>1 DEF Word
    <3>2. CASE j = 16
      <4>1. resumed'[j] = kstack[19] /\ j + 3 = 19
        BY <2>6, <3>2
      <4>2. QED
        BY <2>2, <4>1
    <3>3. CASE j # 0 /\ j # 16
      <4>1. resumed'[j] = kstack[j + 2 + 1] /\ j + 2 + 1 = j + 3
        BY <2>6, <3>3
      <4>2. QED
        BY <2>2, <4>1
    <3>4. QED
      BY <3>1, <3>2, <3>3
  <2>8. QED
    BY <1>4, <2>5, <2>7
<1>7. QED
  BY <1>2, <1>5, <1>6

LEMMA OtherStep ==
  ASSUME LinuxPort, KInv, KOther
  PROVE  [Next]_vars /\ KInv'
<1> USE ModesDistinct, NoneIsNoMode
<1>1. Next /\ NoFrame /\ UNCHANGED kstack
  BY DEF KOther, Next, NoFrame
<1>2. Bookkeeping /\ Bookkeeping'
  BY <1>1, BookkeepingStep DEF KInv, LinuxPort
<1>3. StackShape'
  BY <1>1 DEF KInv, StackInv, StackShape
<1>4. irq_off'[TASK] = FALSE
  <2>1. TypeOK /\ irq_off[TASK] = FALSE
    BY <1>2 DEF Bookkeeping, KInv, StackInv
  <2>2. ASSUME NEW m \in Modes \ {TASK}, NEW off, SetIrqOff(m, off)
        PROVE  irq_off'[TASK] = FALSE
    BY <2>1, <2>2 DEF SetIrqOff, TypeOK
  <2>3. CASE UNCHANGED irq_off
    BY <2>1, <2>3
  <2>4. ASSUME NEW r, Halt(r) PROVE UNCHANGED irq_off
    BY <2>4 DEF Halt, machine
  <2>5. CASE InterruptSet \/ RestoreRegs
    <3>1. current_guest_mode \in Modes \ {TASK}
      BY <2>1, <2>5 DEF InterruptSet, RestoreRegs, Hypercall, Takes, TypeOK
    <3>2. QED
      BY <2>2, <2>3, <2>4, <2>5, <3>1 DEF InterruptSet, RestoreRegs
  <2>6. CASE StartGuest \/ Irq
    BY <2>2, <2>6 DEF StartGuest, Irq
  <2>7. CASE Rpc
    BY <2>2, <2>3, <2>4, <2>7 DEF Rpc, StartRpc
  <2>8. CASE GuestInit \/ EndInterrupt \/ EndRpc
    BY <2>3, <2>4, <2>8 DEF GuestInit, EndInterrupt, EndRpc
  <2>9. CASE OtherHypercall \/ UnknownHypercall \/ Undef \/ Spin
    BY <2>3, <2>4, <2>9 DEF OtherHypercall, UnknownHypercall, Undef, Spin, vars,
                            machine
  <2>10. QED
    BY <1>1, <2>5, <2>6, <2>7, <2>8, <2>9 DEF NoFrame
<1>5. NoFrameBelowTask'
  <2> DEFINE Waiting == {current_guest_mode, interrupted_mode, rpc_for[TRUSTED]}
  <2>1. TASK \in Waiting' => TASK \in Waiting
    <3>1. CASE Halts \/ Stays
      BY <3>1 DEF Halts, Halt, Stays, machine, modeVars, rpcVars
    <3>2. CASE Starts
      BY <3>2 DEF Starts, ChangeGuestMode, rpcVars
    <3>3. CASE Interrupts \/ EndsInterrupt
      BY <3>3 DEF Interrupts, EndsInterrupt, ChangeGuestMode, rpcVars
    <3>4. CASE Calls
      BY <1>2, <3>4 DEF Calls, ChangeGuestMode, Bookkeeping, TypeOK
    <3>5. CASE Replies
      <4>1. /\ current_guest_mode \in Modes
            /\ rpc_for[current_guest_mode] \in Modes
        BY <1>2, <3>5 DEF Replies, Bookkeeping, TypeOK
      <4>2. current_guest_mode = TRUSTED
        BY <1>2, <3>5, <4>1 DEF Replies, Bookkeeping, RpcPaired
      <4>3. QED
        BY <1>2, <3>5, <4>1, <4>2
           DEF Replies, ChangeGuestMode, Bookkeeping, TypeOK
    <3>6. QED
      BY <1>1, <3>1, <3>2, <3>3, <3>4, <3>5, NoFrameKinds
  <2>2. QED
    BY <1>1, <2>1 DEF NoFrameBelowTask, KInv, StackInv
<1>6. ResumesWhereTrapped'
  BY DEF KOther, KInv, StackInv, ResumesWhereTrapped
<1>7. QED
  BY <1>1, <1>2, <1>3, <1>4, <1>5, <1>6 DEF KInv, StackInv

LEMMA KStep ==
  ASSUME LinuxPort, KInv, [KNext]_<<vars, stackVars>>
  PROVE  [Next]_vars /\ KInv'
<1>1. CASE KRestoreLinuxRegs
  <2>1. PICK depth \in Nat, size \in {0, 18, 20} : Frames(kstack, depth, size)
    BY DEF KInv, StackInv, StackShape
  <2>2. CASE depth = 0
    BY <1>1, <2>1, <2>2, TaskReturn
  <2>3. CASE depth \in Nat \ {0}
    BY <1>1, <2>1, <2>3, KernelReturn
  <2>4. QED
    BY <2>2, <2>3
<1>2. CASE UNCHANGED <<vars, stackVars>>
  <2>1. UNCHANGED vars /\ UNCHANGED <<kstack, resumed>>
    BY <1>2 DEF stackVars
  <2>2. Bookkeeping'
    BY <2>1, BookkeepingStep DEF KInv, LinuxPort
  <2>3. StackInv'
    BY <2>1 DEF KInv, StackInv, StackShape, NoFrameBelowTask,
                ResumesWhereTrapped, vars, machine, modeVars, rpcVars
  <2>4. QED
    BY <2>1, <2>2, <2>3 DEF KInv
<1>3. QED
  BY <1>1, <1>2, SyscallStep, AbortStep, NewTaskStep, OtherStep DEF KNext

LEMMA KInvInit == KInit => KInv
<1>1. Init => Bookkeeping
  BY BookkeepingInit
<1>2. Init => irq_off[TASK] = FALSE
  BY ModesDistinct DEF Init
<1>3. KInit => StackShape /\ NoFrameBelowTask /\ ResumesWhereTrapped
  BY EmptyFrames DEF KInit, StackShape, NoFrameBelowTask, ResumesWhereTrapped
<1>4. QED
  BY <1>1, <1>2, <1>3 DEF KInit, KInv, StackInv

LEMMA KInvariant ==
  ASSUME LinuxPort
  PROVE  KSpec => []KInv
<1>1. KInv /\ [KNext]_<<vars, stackVars>> => KInv'
  BY KStep
<1>2. QED
  BY <1>1, KInvInit, PTL DEF KSpec

-----------------------------------------------------------------------------
(* No return path of RESTORE_LINUX_REGS takes too much or too little off   *)
(* the kernel's stack, however deep faults nest: nothing is left on it     *)
(* when a task runs.                                                       *)
THEOREM StackIsEmptied ==
  ASSUME LinuxPort
  PROVE  KSpec => []StackEmptyInTask
<1>1. KInv => StackEmptyInTask
  BY DEF KInv, StackInv, NoFrameBelowTask, StackEmptyInTask
<1>2. QED
  BY <1>1, KInvariant, PTL

(* Each register is restored from the word it was saved to, in the mode it *)
(* was saved in, from either size of frame.                                *)
THEOREM ResumeCorrect ==
  ASSUME LinuxPort
  PROVE  KSpec => []ResumesWhereTrapped
<1>1. KInv => ResumesWhereTrapped
  BY DEF KInv, StackInv
<1>2. QED
  BY <1>1, KInvariant, PTL

(* The I bit that is restored with a frame is never one of a kernel frame  *)
(* that had interrupts off: a task runs with them on.                      *)
THEOREM TaskIrqOn ==
  ASSUME LinuxPort
  PROVE  KSpec => []TaskRunsWithIrqOn
<1>1. KInv => TaskRunsWithIrqOn
  BY DEF KInv, StackInv, TaskRunsWithIrqOn
<1>2. QED
  BY <1>1, KInvariant, PTL

(* With its frames the machine still is a machine of GuestModes, so that   *)
(* the theorems about every guest hold for it too.                         *)
THEOREM StackRefinesModes ==
  ASSUME LinuxPort
  PROVE  KSpec => Spec
<1>1. KInit => Init
  BY DEF KInit
<1>2. KInv /\ [KNext]_<<vars, stackVars>> => [Next]_vars
  BY KStep
<1>3. QED
  BY <1>1, <1>2, KInvariant, PTL DEF KSpec, Spec
=============================================================================
