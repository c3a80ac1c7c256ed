---------------------------- MODULE KernelStack ----------------------------
(***************************************************************************)
(* The frames the hypervisor pushes on the stack of the guest kernel when  *)
(* it delivers a system call or an abort, and takes off it again when the  *)
(* kernel returns with RESTORE_LINUX_REGS, on top of the mode switches of  *)
(* GuestModes.  Pushing and popping are written in different functions,    *)
(* word by word, with two frame sizes and two ways back: the module keeps  *)
(* every word of the stack and which register of which mode it is.         *)
(***************************************************************************)
EXTENDS GuestModes, Naturals, Sequences

CONSTANTS
  TaskSp,    \* where the stack pointer of a task may be: TRUE in kernel space
  MaxWords   \* bound: the words of the kernel's stack that frames may fill

ASSUME TaskSpAssumption == TaskSp \subseteq BOOLEAN /\ TaskSp # {}
ASSUME MaxWordsAssumption == MaxWords \in Nat

VARIABLES
  kstack,   \* the words from the KERNEL sp up to the base of the stack
  resumed   \* registers 0..16 as the last RESTORE_LINUX_REGS set them, if
            \* nothing trapped since

stackVars == <<kstack, resumed>>

(* A word that holds register reg of a mode (13 sp, 15 pc, 16 psr, and 17  *)
(* for the marker that aborts push).  Of a pc or an sp only matters if it  *)
(* is in kernel space, of a psr only its I bit.                            *)
Word(m, reg, val) == [mode |-> m, reg |-> reg, val |-> val]

PC  == 15
PSR == 16

(* Faulty variant: the psr saved is the one KERNEL had before.             *)
ContextKernelPsr(m, sp) ==
  [i \in 1..17 |->
     Word(m, i - 1, CASE i = 14 -> sp
                      [] i = 16 -> m # TASK
                      [] i = 17 -> irq_off[KERNEL]
                      [] OTHER -> FALSE)]

(* reg[0..16] of the context of mode m, at a trap with this stack pointer. *)
Context(m, sp) ==
  [i \in 1..17 |->
     Word(m, i - 1, CASE i = 14 -> sp
                      [] i = 16 -> m # TASK
                      [] i = 17 -> irq_off[m]
                      [] OTHER -> FALSE)]

StackPointers(m) == IF m = TASK THEN TaskSp ELSE {TRUE}

(* 72 bytes: the context and ORIG_R0.                                      *)
AbortFrame(m, sp) == Context(m, sp) \o <<Word(m, 17, FALSE)>>

(* 80 bytes: the arguments in r4 and r5, the context and OLD_R0.           *)
SyscallFrame(sp) ==
  <<Word(TASK, 4, FALSE), Word(TASK, 5, FALSE)>> \o Context(TASK, sp)
    \o <<Word(TASK, 0, FALSE)>>

Push(frame) ==
  /\ Len(kstack) + Len(frame) <= MaxWords
  /\ kstack' = frame \o kstack
  /\ resumed' = <<>>

(* Faulty variant: every frame is taken for the frame of an abort.         *)
PopAbortFrame(words) == kstack' = SubSeq(kstack, 19, Len(kstack))

Pop(words) == kstack' = SubSeq(kstack, words + 1, Len(kstack))

KInit ==
  /\ Init
  /\ kstack = <<>>
  /\ resumed = <<>>

-----------------------------------------------------------------------------
KSyscall ==
  /\ Syscall
  /\ \E sp \in TaskSp : Push(SyscallFrame(sp))

(* Both abort handlers.                                                    *)
KAbort ==
  /\ Abort
  /\ \E sp \in StackPointers(current_guest_mode) :
       Push(AbortFrame(current_guest_mode, sp))

(* The kernel makes the first task and fills in a frame for it: code of    *)
(* the Linux port, needed to reach a task at all.                          *)
NewTask ==
  /\ Takes("RESTORE_LINUX_REGS")
  /\ current_guest_mode = KERNEL
  /\ kstack = <<>>
  /\ LET regs == [i \in 1..17 |-> Word(TASK, i - 1, FALSE)]
     IN  kstack' = regs \o <<Word(TASK, 17, FALSE)>>
  /\ UNCHANGED <<vars, resumed>>

(* Words by their offset from sp, as the code indexes them.                *)
At(n) == kstack[n + 1]

(* Back to the kernel: r0-r12, lr, pc and psr from the frame, sp reused.   *)
ToKernel(offset) ==
  /\ resumed' = [j \in 0..16 |->
       CASE j = 13  -> Word(KERNEL, 13, TRUE)
         [] j = PSR -> At(16 + offset)
         [] OTHER   -> At(j)]
  /\ Pop(18)
  /\ ResumeFrame(KERNEL, At(16 + offset).val)

(* Faulty variants: the frame not shifted, the wrong context.              *)
ToTaskUnshifted(syscall, offset) ==
  /\ resumed' = [j \in 0..16 |-> IF j = PSR THEN At(16 + offset) ELSE At(j)]
  /\ Pop(18 + offset)
  /\ ResumeFrame(TASK, At(16 + offset).val)

ToTaskSlot0(syscall, offset) ==
  /\ resumed' = [j \in 0..16 |-> At(j + offset)]
  /\ Pop(18 + offset)
  /\ SetIrqOff(TASK, At(16 + offset).val)
  /\ ChangeGuestMode(TASK, 0)
  /\ UNCHANGED <<interrupted_mode, rpcVars, boot>>

(* Back to a task: after a system call r0 is the result and the frame      *)
(* starts two words up.                                                    *)
ToTask(syscall, offset) ==
  /\ resumed' = [j \in 0..16 |->
       CASE j = PSR           -> At(16 + offset)
         [] j = 0 /\ syscall  -> Word(TASK, 0, FALSE)
         [] j > 0 /\ syscall /\ j # PSR -> At(j + 2)
         [] OTHER             -> At(j)]
  /\ Pop(18 + offset)
  /\ ResumeFrame(TASK, At(16 + offset).val)

(* The port passes syscall = TRUE exactly on its way out of a system call, *)
(* when the argument words are on top.                                     *)
SyscallOnTop == At(0).reg = 4

KRestoreLinuxRegs ==
  /\ Hypercall("RESTORE_LINUX_REGS")
  /\ kstack # <<>>
  /\ LET syscall == SyscallOnTop
         offset == IF syscall THEN 2 ELSE 0
         stack_pc == At(15).val
     IN  IF stack_pc THEN ToKernel(offset) ELSE ToTask(syscall, offset)

(* Traps that leave the kernel's frames alone.                             *)
KOther ==
  /\ \/ StartGuest \/ GuestInit \/ InterruptSet \/ RestoreRegs
     \/ EndInterrupt \/ Rpc \/ EndRpc \/ OtherHypercall
     \/ UnknownHypercall \/ Irq \/ Undef \/ Spin
  /\ kstack' = kstack
  /\ resumed' = IF current_guest_mode' = current_guest_mode
                THEN resumed ELSE <<>>

KNext == KSyscall \/ KAbort \/ NewTask \/ KRestoreLinuxRegs \/ KOther

KSpec == KInit /\ [][KNext]_<<vars, stackVars>>

(* The fairness of GuestModes: the service replies, and interrupt handlers *)
(* come to their end.                                                      *)
KFairSpec ==
  /\ KSpec
  /\ SF_<<vars, stackVars>>(EndRpc /\ KOther)
  /\ SF_<<vars, stackVars>>(EndInterrupt /\ KOther)

-----------------------------------------------------------------------------
(* Whatever the nesting of system calls, faults in them, interrupts and    *)
(* RPCs, the frames are all gone when a task runs: no return path takes    *)
(* too much or too little off the kernel's stack.                          *)
StackEmptyInTask ==
  status = "running" /\ current_guest_mode = TASK => kstack = <<>>

(* The mode that RESTORE_LINUX_REGS resumes gets into each register the    *)
(* word that was saved from that register of that same mode, so it goes    *)
(* on where it trapped and in the mode it trapped in (manual, 5.14: the    *)
(* hypervisor makes sure the correct virtual guest mode is set).           *)
ResumesWhereTrapped ==
  resumed # <<>> =>
    \A j \in 0..16 : /\ resumed[j].mode = current_guest_mode
                     /\ resumed[j].reg = j

(* A task always runs with its interrupts on: the I bit survives every     *)
(* round trip through frames, although kernel frames nested above have     *)
(* interrupts off.                                                         *)
TaskRunsWithIrqOn ==
  status = "running" /\ current_guest_mode = TASK => ~irq_off[TASK]

(* The frames decide no mode switch that GuestModes does not have, and     *)
(* starve no reply of the service and no end of an interrupt.              *)
RefinesGuestModes == FairSpec
=============================================================================
