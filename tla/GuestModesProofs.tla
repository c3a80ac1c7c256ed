-------------------------- MODULE GuestModesProofs --------------------------
(***************************************************************************)
(* Proofs about GuestModes, for every behaviour of the guest's software.   *)
(*                                                                         *)
(* A step of any handler is of one of eight kinds as far as modes, RPCs    *)
(* and the interrupted mode go (StepKinds).  Each invariant is proved by   *)
(* one step per kind.                                                      *)
(***************************************************************************)
EXTENDS GuestModes, TLAPS

LEMMA NoneIsNoMode == NONE \notin Modes
BY DEF NONE, Modes, TRUSTED, KERNEL, TASK, INTERRUPT

LEMMA ModesDistinct ==
  /\ Modes = {TRUSTED, KERNEL, TASK, INTERRUPT}
  /\ TRUSTED # KERNEL /\ TRUSTED # TASK /\ TRUSTED # INTERRUPT
  /\ KERNEL # TASK /\ KERNEL # INTERRUPT /\ TASK # INTERRUPT
BY DEF Modes, TRUSTED, KERNEL, TASK, INTERRUPT

(* The domains of each mode, one line of the configuration after another.  *)
LEMMA DomainACValues ==
  /\ DomainAC[TRUSTED] = {"default", "trusted"}
  /\ DomainAC[KERNEL] = {"default", "kernel", "task"}
  /\ DomainAC[TASK] = {"default", "task"}
  /\ DomainAC[INTERRUPT] = {"default", "kernel", "task"}
BY DEF DomainAC, Modes, TRUSTED, KERNEL, TASK, INTERRUPT

-----------------------------------------------------------------------------
(* The kinds of step.                                                      *)

Halts ==
  /\ status = "running"
  /\ \E r \in Reasons : Halt(r)

Stays == UNCHANGED <<status, modeVars, interrupted_mode, rpcVars>>

Starts ==
  /\ status = "boot"
  /\ ChangeGuestMode(KERNEL, 0)
  /\ UNCHANGED <<interrupted_mode, rpcVars>>

Transfers(m) ==
  /\ status = "running"
  /\ ChangeGuestMode(m, 1)
  /\ UNCHANGED <<interrupted_mode, rpcVars>>

Interrupts ==
  /\ status = "running"
  /\ current_guest_mode # INTERRUPT
  /\ ~irq_off[current_guest_mode]
  /\ interrupted_mode' = current_guest_mode
  /\ ChangeGuestMode(INTERRUPT, 1)
  /\ UNCHANGED rpcVars

EndsInterrupt ==
  /\ status = "running"
  /\ current_guest_mode = INTERRUPT
  /\ interrupted_mode \in Modes
  /\ ChangeGuestMode(interrupted_mode, 1)
  /\ interrupted_mode' = NONE
  /\ UNCHANGED rpcVars

Calls ==
  /\ status = "running"
  /\ current_guest_mode # TRUSTED
  /\ rpc_to[current_guest_mode] = NONE
  /\ rpc_for[TRUSTED] = NONE
  /\ rpc_to' = [rpc_to EXCEPT ![current_guest_mode] = TRUSTED]
  /\ rpc_for' = [rpc_for EXCEPT ![TRUSTED] = current_guest_mode]
  /\ ChangeGuestMode(TRUSTED, 1)
  /\ UNCHANGED interrupted_mode

Replies ==
  LET caller == rpc_for[current_guest_mode]
  IN  /\ status = "running"
      /\ caller # NONE
      /\ rpc_to[caller] = current_guest_mode
      /\ rpc_for' = [rpc_for EXCEPT ![current_guest_mode] = NONE]
      /\ rpc_to' = [rpc_to EXCEPT ![caller] = NONE]
      /\ ChangeGuestMode(caller, 1)
      /\ UNCHANGED interrupted_mode

(* What leaves the frames on the kernel's stack alone is never a plain     *)
(* transfer of control.                                                    *)
NoFrame ==
  \/ StartGuest \/ GuestInit \/ InterruptSet \/ RestoreRegs \/ EndInterrupt
  \/ Rpc \/ EndRpc \/ OtherHypercall \/ UnknownHypercall \/ Irq \/ Undef
  \/ Spin

LEMMA NoFrameKinds ==
  ASSUME NoFrame
  PROVE  \/ Halts \/ Stays \/ Starts \/ Interrupts \/ EndsInterrupt
         \/ Calls \/ Replies
<1>1. CASE StartGuest
  BY <1>1 DEF StartGuest, Starts
<1>2. CASE GuestInit
  BY <1>2 DEF GuestInit, Hypercall, Takes, Halts, Stays, Reasons
<1>3. CASE InterruptSet
  BY <1>3 DEF InterruptSet, Hypercall, Takes, Halts, Stays, Reasons
<1>4. CASE RestoreRegs
  BY <1>4 DEF RestoreRegs, Hypercall, Takes, Halts, Stays, Reasons
<1>5. CASE EndInterrupt
  BY <1>5 DEF EndInterrupt, Hypercall, Takes, Halts, EndsInterrupt, Reasons
<1>6. CASE Rpc
  BY <1>6 DEF Rpc, StartRpc, Takes, Halts, Calls, Reasons, HandlingMode
<1>7. CASE EndRpc
  BY <1>7 DEF EndRpc, Takes, Halts, Replies, Reasons
<1>8. CASE OtherHypercall
  BY <1>8 DEF OtherHypercall, Hypercall, Takes, Halts, Stays, Reasons, vars,
              machine
<1>9. CASE UnknownHypercall
  BY <1>9 DEF UnknownHypercall, Hypercall, Takes, Halts, Reasons
<1>10. CASE Irq
  BY <1>10 DEF Irq, Interrupts, Stays
<1>11. CASE Undef
  BY <1>11 DEF Undef, Takes, Halts, Reasons
<1>12. CASE Spin
  BY <1>12 DEF Spin, Stays, vars, machine
<1>13. QED
  BY <1>1, <1>2, <1>3, <1>4, <1>5, <1>6, <1>7, <1>8, <1>9, <1>10, <1>11,
     <1>12 DEF NoFrame

(* The others transfer control to the kernel or a task, or stop.           *)
LEMMA FrameKinds ==
  ASSUME Syscall \/ Abort \/ RestoreLinuxRegs
  PROVE  Halts \/ Transfers(KERNEL) \/ Transfers(TASK)
<1>1. CASE RestoreLinuxRegs
  BY <1>1 DEF RestoreLinuxRegs, ResumeFrame, Hypercall, Takes, Halts,
              Transfers, Reasons
<1>2. CASE Syscall
  BY <1>2 DEF Syscall, Takes, Transfers
<1>3. CASE Abort
  BY <1>3 DEF Abort, Takes, Transfers
<1>4. QED
  BY <1>1, <1>2, <1>3

LEMMA NextCases ==
  ASSUME [Next]_vars
  PROVE  NoFrame \/ Syscall \/ Abort \/ RestoreLinuxRegs \/ UNCHANGED vars
BY DEF Next, NoFrame

(* Every step of every handler is of one of these kinds.                   *)
LEMMA StepKinds ==
  ASSUME [Next]_vars
  PROVE  \/ Halts \/ Stays \/ Starts
         \/ Transfers(KERNEL) \/ Transfers(TASK)
         \/ Interrupts \/ EndsInterrupt \/ Calls \/ Replies
<1>1. CASE UNCHANGED vars
  BY <1>1 DEF Stays, vars, machine
<1>2. QED
  BY <1>1, NoFrameKinds, FrameKinds, NextCases

-----------------------------------------------------------------------------
(* Type correctness.                                                       *)

LEMMA InitType == Init => TypeOK
<1> SUFFICES ASSUME Init PROVE TypeOK
  OBVIOUS
<1>1. irq_off \in [Modes -> BOOLEAN]
  <2>1. \A m \in Modes : (m = TRUSTED) \in BOOLEAN
    OBVIOUS
  <2>2. QED
    BY <2>1, Zenon DEF Init
<1>2. context_stack \in [{0, 1} -> Modes \cup {NONE}]
  BY ModesDistinct DEF Init
<1>3. QED
  BY <1>1, <1>2 DEF Init, TypeOK

(* The flags keep their type in every step: each handler sets the I bit of *)
(* one mode, if any.                                                       *)
LEMMA IrqOffType ==
  ASSUME TypeOK, [Next]_vars
  PROVE  irq_off' \in [Modes -> BOOLEAN]
<1> USE DEF TypeOK
<1>1. CASE \E m \in Modes, off \in BOOLEAN : SetIrqOff(m, off)
  BY <1>1 DEF SetIrqOff
<1>2. CASE UNCHANGED irq_off
  BY <1>2
<1>3. ASSUME NEW r, Halt(r) PROVE UNCHANGED irq_off
  BY <1>3 DEF Halt, machine
<1>4. CASE StartGuest
  BY <1>4, <1>1, ModesDistinct DEF StartGuest
<1>5. CASE GuestInit
  BY <1>5, <1>2, <1>3 DEF GuestInit
<1>6. CASE InterruptSet
  <2>1. CASE status = "running"
    <3>1. current_guest_mode \in Modes
      BY <2>1
    <3>2. QED
      BY <1>6, <1>1, <1>2, <1>3, <3>1 DEF InterruptSet
  <2>2. QED
    BY <1>6, <2>1 DEF InterruptSet, Hypercall, Takes
<1>7. CASE RestoreRegs
  <2>1. current_guest_mode \in Modes
    BY <1>7 DEF RestoreRegs, Hypercall, Takes
  <2>2. QED
    BY <1>7, <1>1, <1>2, <1>3, <2>1 DEF RestoreRegs
<1>8. CASE RestoreLinuxRegs
  BY <1>8, <1>1, <1>2, <1>3, ModesDistinct DEF RestoreLinuxRegs, ResumeFrame
<1>9. CASE EndInterrupt
  BY <1>9, <1>2, <1>3 DEF EndInterrupt
<1>10. CASE Rpc
  BY <1>10, <1>1, <1>2, <1>3, ModesDistinct DEF Rpc, StartRpc
<1>11. CASE EndRpc
  BY <1>11, <1>2, <1>3 DEF EndRpc
<1>12. CASE OtherHypercall \/ UnknownHypercall \/ Undef \/ Spin \/ UNCHANGED vars
  BY <1>12, <1>2, <1>3 DEF OtherHypercall, UnknownHypercall, Undef, Spin, vars,
                           machine
<1>13. CASE Syscall \/ Abort \/ Irq
  BY <1>13, <1>1, ModesDistinct DEF Syscall, Abort, Irq
<1>14. QED
  BY <1>4, <1>5, <1>6, <1>7, <1>8, <1>9, <1>10, <1>11, <1>12, <1>13 DEF Next

(* GUEST_INIT alone changes boot.                                          *)
LEMMA BootType ==
  ASSUME TypeOK, [Next]_vars
  PROVE  boot' \in BOOLEAN
BY DEF TypeOK, Next, StartGuest, GuestInit, InterruptSet, RestoreRegs,
       RestoreLinuxRegs, ResumeFrame, EndInterrupt, Rpc, StartRpc, EndRpc,
       OtherHypercall, UnknownHypercall, Syscall, Abort, Irq, Undef, Spin,
       Halt, vars, machine

(* A switch to a mode leaves the mode variables well typed.                *)
LEMMA SwitchType ==
  ASSUME TypeOK, NEW m \in Modes, NEW depth \in {0, 1},
         ChangeGuestMode(m, depth)
  PROVE  /\ status' = "running"
         /\ current_guest_mode' = m
         /\ current_guest_mode' # NONE
         /\ context_stack' \in [{0, 1} -> Modes \cup {NONE}]
         /\ domain_ac' \in SUBSET {"default", "kernel", "task", "trusted"}
<1>1. DomainAC[m] \in SUBSET {"default", "kernel", "task", "trusted"}
  BY DomainACValues, ModesDistinct
<1>2. QED
  BY <1>1, NoneIsNoMode DEF ChangeGuestMode, TypeOK

LEMMA StepType ==
  ASSUME TypeOK, [Next]_vars
  PROVE  TypeOK'
<1> USE ModesDistinct, IrqOffType, BootType DEF TypeOK
<1>1. CASE Halts
  BY <1>1 DEF Halts, Halt, machine, modeVars, rpcVars, Reasons
<1>2. CASE Stays
  BY <1>2 DEF Stays, modeVars, rpcVars
<1>3. CASE Starts
  BY <1>3, SwitchType DEF Starts, rpcVars
<1>4. CASE Transfers(KERNEL) \/ Transfers(TASK)
  BY <1>4, SwitchType DEF Transfers, rpcVars
<1>5. CASE Interrupts
  BY <1>5, SwitchType DEF Interrupts, rpcVars
<1>6. CASE EndsInterrupt
  BY <1>6, SwitchType DEF EndsInterrupt, rpcVars
<1>7. CASE Calls
  BY <1>7, SwitchType DEF Calls
<1>8. CASE Replies
  BY <1>8, SwitchType DEF Replies
<1>9. QED
  BY <1>1, <1>2, <1>3, <1>4, <1>5, <1>6, <1>7, <1>8, StepKinds

(* Every variable of the mode machine has its type in every reachable      *)
(* state, for every guest.                                                 *)
THEOREM TypeCorrect == Spec => []TypeOK
BY InitType, StepType, PTL DEF Spec

-----------------------------------------------------------------------------
(* What protects the running mode: its context slot and its domains.       *)

(* The domain register is that of the mode record once the guest started.  *)
DomainOfRunningMode ==
  status = "running" => domain_ac = DomainAC[current_guest_mode]

Protection == ContextOfRunningMode /\ DomainOfRunningMode

(* Slot 1 holds the kernel's context already before the start, which       *)
(* writes slot 0: the one fact about the boot that ContextOfRunningMode    *)
(* needs to be inductive.                                                  *)
BootContext == status = "boot" => context_stack[1] = KERNEL

LEMMA ProtectionStep ==
  ASSUME TypeOK, Protection, BootContext, [Next]_vars
  PROVE  Protection' /\ BootContext'
<1> USE DEF Protection, ContextOfRunningMode, DomainOfRunningMode, BootContext
<1>1. CASE Halts
  BY <1>1 DEF Halts, Halt, Reasons
<1>2. CASE Stays
  BY <1>2 DEF Stays, modeVars
<1>3. CASE Starts
  BY <1>3, ModesDistinct DEF Starts, ChangeGuestMode, TypeOK
<1>4. ASSUME NEW m \in Modes, ChangeGuestMode(m, 1)
      PROVE  Protection' /\ BootContext'
  BY <1>4 DEF ChangeGuestMode, TypeOK
<1>5. CASE Transfers(KERNEL) \/ Transfers(TASK)
  BY <1>5, <1>4, ModesDistinct DEF Transfers
<1>6. CASE Interrupts \/ EndsInterrupt \/ Calls
  BY <1>6, <1>4, ModesDistinct DEF Interrupts, EndsInterrupt, Calls
<1>7. CASE Replies
  <2>1. current_guest_mode \in Modes
    BY <1>7 DEF Replies, TypeOK
  <2>2. rpc_for[current_guest_mode] \in Modes
    BY <1>7, <2>1 DEF Replies, TypeOK
  <2>3. QED
    BY <1>7, <1>4, <2>2 DEF Replies
<1>8. QED
  BY <1>1, <1>2, <1>3, <1>5, <1>6, <1>7, StepKinds

THEOREM ProtectionInvariant == Spec => [](Protection /\ BootContext)
<1>1. Init => Protection /\ BootContext
  BY DEF Init, Protection, ContextOfRunningMode, DomainOfRunningMode,
         BootContext
<1>2. QED
  BY <1>1, ProtectionStep, TypeCorrect, PTL DEF Spec

(* An exception always saves the registers of the running mode into that   *)
(* mode's context.                                                         *)
THEOREM ContextCorrect == Spec => []ContextOfRunningMode
BY ProtectionInvariant, PTL DEF Protection

(* Memory isolation between the modes, for every sequence of traps.        *)
THEOREM IsolationCorrect == Spec => []DomainIsolation
<1>1. TypeOK /\ DomainOfRunningMode => DomainIsolation
  <2> SUFFICES ASSUME TypeOK, DomainOfRunningMode, status = "running"
               PROVE  /\ "trusted" \in domain_ac <=> current_guest_mode = TRUSTED
                      /\ "kernel" \in domain_ac
                           <=> current_guest_mode \in {KERNEL, INTERRUPT}
                      /\ "task" \in domain_ac <=> current_guest_mode # TRUSTED
    BY DEF DomainIsolation
  <2>1. current_guest_mode \in {TRUSTED, KERNEL, TASK, INTERRUPT}
    BY ModesDistinct DEF TypeOK
  <2>2. QED
    BY <2>1, ModesDistinct, DomainACValues DEF DomainOfRunningMode
<1>2. QED
  BY <1>1, TypeCorrect, ProtectionInvariant, PTL DEF Protection

-----------------------------------------------------------------------------
(* Remote procedure calls.                                                 *)

LEMMA RpcPairedStep ==
  ASSUME TypeOK, RpcPaired, [Next]_vars
  PROVE  RpcPaired'
<1> USE ModesDistinct, NoneIsNoMode DEF RpcPaired
<1>1. CASE Halts \/ Stays
  BY <1>1 DEF Halts, Halt, Stays, machine, rpcVars
<1>2. CASE \/ Starts \/ Transfers(KERNEL) \/ Transfers(TASK)
           \/ Interrupts \/ EndsInterrupt
  BY <1>2 DEF Starts, Transfers, Interrupts, EndsInterrupt, rpcVars
<1>3. CASE Calls
  <2>1. current_guest_mode \in Modes
    BY <1>3 DEF Calls, TypeOK
  <2>2. \A m, n \in Modes : rpc_to'[m] = n <=> rpc_for'[n] = m
    BY <1>3, <2>1 DEF Calls, TypeOK
  <2>3. \A m, n \in Modes : rpc_to'[m] = n => m # TRUSTED /\ n = TRUSTED
    BY <1>3, <2>1 DEF Calls, TypeOK
  <2>4. QED
    BY <2>2, <2>3
<1>4. CASE Replies
  <2> DEFINE server == current_guest_mode
             caller == rpc_for[current_guest_mode]
  <2>1. server \in Modes /\ caller \in Modes
    BY <1>4 DEF Replies, TypeOK
  <2>2. \A m \in Modes : rpc_to'[m] = IF m = caller THEN NONE ELSE rpc_to[m]
    BY <1>4, <2>1 DEF Replies, TypeOK
  <2>3. \A n \in Modes : rpc_for'[n] = IF n = server THEN NONE ELSE rpc_for[n]
    BY <1>4, <2>1 DEF Replies, TypeOK
  <2>4. rpc_to[caller] = server /\ rpc_for[server] = caller
    BY <1>4 DEF Replies
  <2> HIDE DEF server, caller
  <2>5. QED
    BY <2>1, <2>2, <2>3, <2>4
<1>5. QED
  BY <1>1, <1>2, <1>3, <1>4, StepKinds

(* The caller's and the service's record of an RPC never disagree: the     *)
(* "caller did not start one" panic is dead code.                          *)
THEOREM RpcPairing == Spec => []RpcPaired
<1>1. Init => RpcPaired
  BY NoneIsNoMode DEF Init, RpcPaired
<1>2. QED
  BY <1>1, RpcPairedStep, TypeCorrect, PTL DEF Spec

(* Service runs only for a caller is not inductive alone: when it replies, *)
(* it must not still be the interrupted mode.  It is not, because only     *)
(* END_INTERRUPT can have resumed it, and a new call is refused as long as *)
(* it is interrupted with the old one open.                                *)
TrustedNotTwice ==
  current_guest_mode = TRUSTED => interrupted_mode # TRUSTED

LEMMA TrustedRunsStep ==
  ASSUME TypeOK, RpcPaired, TrustedRunsForCaller, TrustedNotTwice, [Next]_vars
  PROVE  TrustedRunsForCaller' /\ TrustedNotTwice'
<1> USE ModesDistinct, NoneIsNoMode DEF TrustedRunsForCaller, TrustedNotTwice
<1>1. CASE Halts \/ Stays
  BY <1>1 DEF Halts, Halt, Stays, machine, modeVars, rpcVars
<1>2. CASE Starts \/ Transfers(KERNEL) \/ Transfers(TASK)
  BY <1>2 DEF Starts, Transfers, ChangeGuestMode, rpcVars
<1>3. CASE Interrupts \/ EndsInterrupt
  BY <1>3 DEF Interrupts, EndsInterrupt, ChangeGuestMode, rpcVars
<1>4. CASE Calls
  <2>1. rpc_for'[TRUSTED] = current_guest_mode /\ current_guest_mode \in Modes
    BY <1>4 DEF Calls, TypeOK
  <2>2. interrupted_mode # TRUSTED /\ UNCHANGED interrupted_mode
    BY <1>4 DEF Calls
  <2>3. QED
    BY <2>1, <2>2
<1>5. CASE Replies
  <2>1. /\ current_guest_mode \in Modes
        /\ rpc_for[current_guest_mode] \in Modes
    BY <1>5 DEF Replies, TypeOK
  <2>2. current_guest_mode = TRUSTED /\ rpc_for[TRUSTED] # TRUSTED
    BY <1>5, <2>1 DEF Replies, RpcPaired
  <2>3. current_guest_mode' # TRUSTED /\ UNCHANGED interrupted_mode
    BY <1>5, <2>1, <2>2 DEF Replies, ChangeGuestMode
  <2>4. QED
    BY <2>2, <2>3
<1>6. QED
  BY <1>1, <1>2, <1>3, <1>4, <1>5, StepKinds

LEMMA TrustedRunsInvariant == Spec => [](TrustedRunsForCaller /\ TrustedNotTwice)
<1>1. Init => TrustedRunsForCaller /\ TrustedNotTwice
  BY NoneIsNoMode, ModesDistinct DEF Init, TrustedRunsForCaller, TrustedNotTwice
<1>2. QED
  BY <1>1, TrustedRunsStep, TypeCorrect, RpcPairing, PTL DEF Spec

(* The service never runs, and is never about to be resumed, without an    *)
(* open RPC, whatever the guest does.                                      *)
THEOREM ServiceForCaller == Spec => []TrustedRunsForCaller
BY TrustedRunsInvariant, PTL

(* Interrupt mode is never recorded as interrupted: irq_handler does not   *)
(* enter it from itself.  Needed for InterruptReturnKnown.                 *)
InterruptNotInItself == interrupted_mode # INTERRUPT

(* It holds in every behaviour.                                            *)
LEMMA InterruptNeverNested == Spec => []InterruptNotInItself
<1>1. Init => InterruptNotInItself
  BY DEF Init, InterruptNotInItself, NONE, INTERRUPT
<1>2. ASSUME TypeOK, InterruptNotInItself, [Next]_vars
      PROVE  InterruptNotInItself'
  BY <1>2, StepKinds, ModesDistinct, NoneIsNoMode
     DEF InterruptNotInItself, Halts, Halt, Stays, Starts, Transfers,
         Interrupts, EndsInterrupt, Calls, Replies, machine
<1>3. QED
  BY <1>1, <1>2, TypeCorrect, PTL DEF Spec

-----------------------------------------------------------------------------
(* A call whose service was taken away stays open and unanswered: the one  *)
(* who could call again is refused, the one who could reply does not run,  *)
(* and no interrupt returns to the service.                                *)
LEMMA AbandonedStep ==
  ASSUME TypeOK, RpcPaired, CallAbandoned, [Next]_vars
  PROVE  CallAbandoned'
<1> USE ModesDistinct, NoneIsNoMode DEF CallAbandoned
<1>1. CASE Halts \/ Stays
  BY <1>1 DEF Halts, Halt, Stays, machine, modeVars, rpcVars
<1>2. CASE Starts \/ Transfers(KERNEL) \/ Transfers(TASK)
  BY <1>2 DEF Starts, Transfers, ChangeGuestMode, rpcVars
<1>3. CASE Interrupts
  BY <1>3 DEF Interrupts, ChangeGuestMode, rpcVars
<1>4. CASE EndsInterrupt
  BY <1>4 DEF EndsInterrupt, ChangeGuestMode, rpcVars
<1>5. CASE Calls
  BY <1>5 DEF Calls
<1>6. CASE Replies
  <2>1. /\ current_guest_mode \in Modes
        /\ rpc_for[current_guest_mode] \in Modes
    BY <1>6 DEF Replies, TypeOK
  <2>2. current_guest_mode = TRUSTED
    BY <2>1 DEF RpcPaired
  <2>3. QED
    BY <2>2
<1>7. QED
  BY <1>1, <1>2, <1>3, <1>4, <1>5, <1>6, StepKinds

(* What a fault of the service left half done is never resumed and never   *)
(* started over, whatever the guest does.                                  *)
THEOREM AbandonedCallStays == Spec => AbandonedForGood
<1>1. TypeOK /\ RpcPaired /\ [Next]_vars => [CallAbandoned => CallAbandoned']_vars
  BY AbandonedStep
<1>2. QED
  BY <1>1, TypeCorrect, RpcPairing, PTL DEF Spec, AbandonedForGood

-----------------------------------------------------------------------------
(* The modes implement the RPC channel.                                    *)

ChannelVars == <<current_guest_mode, rpc_for[TRUSTED]>>

LEMMA ChannelStep ==
  ASSUME TypeOK, TypeOK', RpcPaired, TrustedRunsForCaller', [Next]_vars
  PROVE  [Channel!Next]_ChannelVars
<1> USE ModesDistinct, NoneIsNoMode DEF ChannelVars
<1>1. CASE Halts \/ Stays
  BY <1>1 DEF Halts, Halt, Stays, machine, modeVars, rpcVars
<1>2. CASE Starts \/ Transfers(KERNEL) \/ Transfers(TASK) \/ Interrupts
  <2>1. current_guest_mode' \in Modes \ {TRUSTED} /\ UNCHANGED rpc_for
    BY <1>2 DEF Starts, Transfers, Interrupts, ChangeGuestMode, rpcVars
  <2>2. QED
    BY <2>1 DEF Channel!Next, Channel!Switch
<1>3. CASE EndsInterrupt
  <2>1. current_guest_mode' \in Modes /\ UNCHANGED rpc_for
    BY <1>3 DEF EndsInterrupt, ChangeGuestMode, rpcVars
  <2>2. QED
    BY <2>1 DEF Channel!Next, Channel!Switch, TrustedRunsForCaller
<1>4. CASE Calls
  <2>1. current_guest_mode \in Modes \ {TRUSTED}
    BY <1>4 DEF Calls, TypeOK
  <2>2. rpc_for'[TRUSTED] = current_guest_mode /\ current_guest_mode' = TRUSTED
    BY <1>4, <2>1 DEF Calls, ChangeGuestMode, TypeOK
  <2>3. QED
    BY <1>4, <2>1, <2>2 DEF Channel!Next, Channel!Call, Calls
<1>5. CASE Replies
  <2>1. /\ current_guest_mode \in Modes
        /\ rpc_for[current_guest_mode] \in Modes
    BY <1>5 DEF Replies, TypeOK
  <2>2. current_guest_mode = TRUSTED /\ rpc_for[TRUSTED] # TRUSTED
    BY <1>5, <2>1 DEF Replies, RpcPaired
  <2>3. rpc_for'[TRUSTED] = NONE /\ current_guest_mode' = rpc_for[TRUSTED]
    BY <1>5, <2>1, <2>2 DEF Replies, ChangeGuestMode, TypeOK
  <2>4. QED
    BY <2>1, <2>2, <2>3 DEF Channel!Next, Channel!Return
<1>6. QED
  BY <1>1, <1>2, <1>3, <1>4, <1>5, StepKinds

(* Every behaviour of the handlers is one of the RPC channel: no handler   *)
(* can lose an open RPC, answer the wrong mode or start the service        *)
(* unasked.                                                                *)
THEOREM ChannelRefinement == Spec => ImplementsRpcChannel
<1>1. Init => Channel!Init
  BY ModesDistinct DEF Init, Channel!Init
<1>2. QED
  BY <1>1, ChannelStep, TypeCorrect, RpcPairing, ServiceForCaller, PTL
     DEF Spec, ImplementsRpcChannel, Channel!Spec, ChannelVars

-----------------------------------------------------------------------------
(* A service that keeps its interrupts off.                                *)

(* Nobody else clears the I bit of the service: the other handlers set     *)
(* flags of the caller, the kernel, a task or interrupt mode, and RPC sets *)
(* it.                                                                     *)
LEMMA ServiceMasked ==
  ASSUME ServiceKeepsIrqOff, TypeOK, irq_off[TRUSTED], [Next]_vars
  PROVE  irq_off'[TRUSTED]
<1> USE ModesDistinct DEF TypeOK
<1>1. ASSUME NEW m \in Modes \ {TRUSTED}, NEW off, SetIrqOff(m, off)
      PROVE  irq_off'[TRUSTED]
  BY <1>1 DEF SetIrqOff
<1>2. CASE UNCHANGED irq_off
  BY <1>2
<1>3. ASSUME NEW r, Halt(r) PROVE UNCHANGED irq_off
  BY <1>3 DEF Halt, machine
<1>4. CASE InterruptSet \/ RestoreRegs
  <2>1. current_guest_mode \in Modes \ {TRUSTED}
    BY <1>4 DEF InterruptSet, RestoreRegs, Hypercall, Takes, ServiceKeepsIrqOff
  <2>2. QED
    BY <1>4, <1>1, <1>2, <1>3, <2>1 DEF InterruptSet, RestoreRegs
<1>5. CASE RestoreLinuxRegs
  BY <1>5, <1>1, <1>2, <1>3 DEF RestoreLinuxRegs, ResumeFrame
<1>6. CASE StartGuest \/ Syscall \/ Abort \/ Irq
  BY <1>6, <1>1 DEF StartGuest, Syscall, Abort, Irq
<1>7. CASE GuestInit \/ EndInterrupt \/ EndRpc
  BY <1>7, <1>2, <1>3 DEF GuestInit, EndInterrupt, EndRpc
<1>8. CASE Rpc
  <2>1. CASE SetIrqOff(TRUSTED, TRUE)
    BY <2>1 DEF SetIrqOff
  <2>2. QED
    BY <1>8, <2>1, <1>2, <1>3 DEF Rpc, StartRpc
<1>9. CASE OtherHypercall \/ UnknownHypercall \/ Undef \/ Spin \/ UNCHANGED vars
  BY <1>9, <1>2, <1>3 DEF OtherHypercall, UnknownHypercall, Undef, Spin, vars,
                          machine
<1>10. QED
  BY <1>4, <1>5, <1>6, <1>7, <1>8, <1>9 DEF Next

(* Why interrupt mode always has a return: the service is masked, so it is *)
(* never the interrupted mode, and the interrupt that was on its way when  *)
(* a handler called the service is still recorded when the service replies.*)
ReturnKnown ==
  /\ irq_off[TRUSTED]
  /\ interrupted_mode # TRUSTED
  /\ InterruptHasReturn
  /\ current_guest_mode = TRUSTED /\ rpc_for[TRUSTED] = INTERRUPT
       => interrupted_mode \in Modes

LEMMA ReturnKnownStep ==
  ASSUME ServiceKeepsIrqOff, TypeOK, RpcPaired, InterruptNotInItself,
         ReturnKnown, [Next]_vars
  PROVE  ReturnKnown'
<1> USE ModesDistinct, NoneIsNoMode DEF ReturnKnown, InterruptHasReturn
<1>0. irq_off'[TRUSTED]
  BY ServiceMasked
<1>1. CASE Halts \/ Stays
  BY <1>0, <1>1 DEF Halts, Halt, Stays, machine, modeVars, rpcVars
<1>2. CASE Starts \/ Transfers(KERNEL) \/ Transfers(TASK)
  BY <1>0, <1>2 DEF Starts, Transfers, ChangeGuestMode
<1>3. CASE Interrupts
  <2>1. current_guest_mode \in Modes \ {TRUSTED}
    BY <1>3 DEF Interrupts, TypeOK
  <2>2. QED
    BY <1>0, <1>3, <2>1 DEF Interrupts, ChangeGuestMode
<1>4. CASE EndsInterrupt
  BY <1>0, <1>4 DEF EndsInterrupt, ChangeGuestMode, InterruptNotInItself
<1>5. CASE Calls
  <2>1. current_guest_mode \in Modes
    BY <1>5 DEF Calls, TypeOK
  <2>2. rpc_for'[TRUSTED] = current_guest_mode /\ current_guest_mode' = TRUSTED
    BY <1>5, <2>1 DEF Calls, ChangeGuestMode, TypeOK
  <2>3. QED
    BY <1>0, <1>5, <2>1, <2>2 DEF Calls
<1>6. CASE Replies
  <2>1. /\ current_guest_mode \in Modes
        /\ rpc_for[current_guest_mode] \in Modes
    BY <1>6 DEF Replies, TypeOK
  <2>2. current_guest_mode = TRUSTED /\ rpc_for[TRUSTED] # TRUSTED
    BY <1>6, <2>1 DEF Replies, RpcPaired
  <2>3. current_guest_mode' = rpc_for[TRUSTED] /\ UNCHANGED interrupted_mode
    BY <1>6, <2>1, <2>2 DEF Replies, ChangeGuestMode
  <2>4. QED
    BY <1>0, <2>1, <2>2, <2>3
<1>7. QED
  BY <1>1, <1>2, <1>3, <1>4, <1>5, <1>6, StepKinds

(* END_INTERRUPT in interrupt mode always finds a mode to return to, if    *)
(* the service keeps its interrupts off as RPC leaves them.                *)
THEOREM InterruptReturnKnown ==
  ASSUME ServiceKeepsIrqOff
  PROVE  Spec => []InterruptHasReturn
<1>1. Init => ReturnKnown
  BY ModesDistinct, NoneIsNoMode DEF Init, ReturnKnown, InterruptHasReturn,
     INTERRUPT, TRUSTED, NONE
<1>2. ReturnKnown /\ TypeOK /\ RpcPaired /\ InterruptNotInItself /\ [Next]_vars
        => ReturnKnown'
  BY ReturnKnownStep
<1>3. ReturnKnown => InterruptHasReturn
  BY DEF ReturnKnown
<1>4. QED
  BY <1>1, <1>2, <1>3, TypeCorrect, RpcPairing, InterruptNeverNested, PTL
     DEF Spec

-----------------------------------------------------------------------------
(* A service that only replies.                                            *)

Synchrony ==
  /\ irq_off[TRUSTED]
  /\ interrupted_mode # TRUSTED
  /\ RpcSynchronous

LEMMA SynchronyStep ==
  ASSUME ServiceOnlyReplies, TypeOK, RpcPaired, Synchrony, [Next]_vars
  PROVE  Synchrony'
<1> USE ModesDistinct, NoneIsNoMode DEF Synchrony, RpcSynchronous
<1>0. irq_off'[TRUSTED]
  <2>1. ServiceKeepsIrqOff
    BY DEF ServiceOnlyReplies, ServiceKeepsIrqOff
  <2>2. QED
    BY <2>1, ServiceMasked
<1>1. CASE current_guest_mode = TRUSTED /\ status = "running"
  <2>1. EndRpc \/ UNCHANGED vars
    BY <1>1 DEF Next, StartGuest, GuestInit, InterruptSet, RestoreRegs,
                RestoreLinuxRegs, EndInterrupt, Rpc, OtherHypercall,
                UnknownHypercall, Syscall, Abort, Irq, Undef, Spin,
                Hypercall, Takes, ServiceOnlyReplies
  <2>2. CASE EndRpc
    <3>1. CASE \E r : Halt(r)
      BY <1>0, <3>1 DEF Halt, machine, modeVars, rpcVars
    <3>2. CASE ~ \E r : Halt(r)
      BY <1>0, <1>1, <2>2, <3>2 DEF EndRpc, TypeOK
    <3>3. QED
      BY <3>1, <3>2
  <2>3. QED
    BY <1>0, <2>1, <2>2 DEF vars, machine, modeVars, rpcVars
<1>2. CASE ~(current_guest_mode = TRUSTED /\ status = "running")
  <2>1. CASE Halts \/ Stays
    BY <1>0, <2>1 DEF Halts, Halt, Stays, machine, modeVars, rpcVars
  <2>2. CASE Starts \/ Transfers(KERNEL) \/ Transfers(TASK)
    BY <1>0, <1>2, <2>2 DEF Starts, Transfers, TypeOK, rpcVars
  <2>3. CASE Interrupts \/ EndsInterrupt
    BY <1>0, <1>2, <2>3 DEF Interrupts, EndsInterrupt, TypeOK, rpcVars
  <2>4. CASE Calls
    BY <1>0, <2>4 DEF Calls, ChangeGuestMode
  <2>5. CASE Replies
    BY <1>0, <1>2, <2>5 DEF Replies, RpcPaired, TypeOK
  <2>6. QED
    BY <2>1, <2>2, <2>3, <2>4, <2>5, StepKinds
<1>3. QED
  BY <1>1, <1>2

(* While an RPC is open nothing but the service runs, if the service does  *)
(* nothing but work and reply, as trusted_service.c does.                  *)
THEOREM RpcIsSynchronous ==
  ASSUME ServiceOnlyReplies
  PROVE  Spec => []RpcSynchronous
<1>1. Init => Synchrony
  BY ModesDistinct, NoneIsNoMode DEF Init, Synchrony, RpcSynchronous, TRUSTED,
     NONE
<1>2. Synchrony /\ TypeOK /\ RpcPaired /\ [Next]_vars => Synchrony'
  BY SynchronyStep
<1>3. Synchrony => RpcSynchronous
  BY DEF Synchrony
<1>4. QED
  BY <1>1, <1>2, <1>3, TypeCorrect, RpcPairing, PTL DEF Spec
-----------------------------------------------------------------------------
(* The software the hypervisor was written for.                            *)

(* Only the service replies, and does nothing else; interrupt mode runs    *)
(* handlers that do not fault and are left with END_INTERRUPT, which       *)
(* nobody else calls.  (From a task END_INTERRUPT is a system call.)       *)
PortSoftware ==
  /\ ServiceOnlyReplies
  /\ Software[INTERRUPT] \cap {"RESTORE_LINUX_REGS", "ABORT", "END_RPC"} = {}
  /\ Software[KERNEL] \cap {"END_INTERRUPT", "END_RPC"} = {}
  /\ "END_RPC" \notin Software[TASK]

(* The mode on whose behalf the machine works.                             *)
Client ==
  IF rpc_for[TRUSTED] # NONE THEN rpc_for[TRUSTED] ELSE current_guest_mode

(* Exactly the handlers of interrupts, and the service when they call it,  *)
(* run with a mode interrupted: the kernel or a task.                      *)
InterruptedBelow ==
  IF Client = INTERRUPT THEN interrupted_mode \in {KERNEL, TASK}
                        ELSE interrupted_mode = NONE

Bookkeeping ==
  /\ TypeOK
  /\ RpcPaired
  /\ TrustedRunsForCaller /\ TrustedNotTwice
  /\ Synchrony
  /\ InterruptedBelow

(* A transfer of control starts from the kernel or a task.                 *)
LEMMA TransfersFrom ==
  ASSUME PortSoftware, TypeOK, Syscall \/ Abort \/ RestoreLinuxRegs
  PROVE  current_guest_mode \in {KERNEL, TASK}
BY ModesDistinct
   DEF PortSoftware, ServiceOnlyReplies, Syscall, Abort, RestoreLinuxRegs,
       Hypercall, Takes, TypeOK

LEMMA BookkeepingStep ==
  ASSUME PortSoftware, Bookkeeping, [Next]_vars
  PROVE  Bookkeeping'
<1> USE ModesDistinct, NoneIsNoMode
<1> USE DEF Bookkeeping
<1>1. /\ TypeOK' /\ RpcPaired' /\ Synchrony'
      /\ TrustedRunsForCaller' /\ TrustedNotTwice'
  BY StepType, RpcPairedStep, SynchronyStep, TrustedRunsStep DEF PortSoftware
<1> DEFINE Quiet == rpc_for[TRUSTED] = NONE
<1>2. current_guest_mode # TRUSTED => Quiet
  BY DEF Synchrony, RpcSynchronous
<1>3. CASE UNCHANGED vars
  BY <1>1, <1>3 DEF InterruptedBelow, Client, vars, machine, modeVars, rpcVars
<1>4. CASE Syscall \/ Abort \/ RestoreLinuxRegs
  <2>1. current_guest_mode \in {KERNEL, TASK} /\ Quiet
    BY <1>2, <1>4, TransfersFrom
  <2>2. CASE Halts
    BY <1>1, <2>2 DEF Halts, Halt, machine, modeVars, rpcVars, InterruptedBelow,
                      Client
  <2>3. CASE Transfers(KERNEL) \/ Transfers(TASK)
    <3>1. current_guest_mode' \in {KERNEL, TASK}
      BY <2>3 DEF Transfers, ChangeGuestMode
    <3>2. UNCHANGED <<interrupted_mode, rpc_for>>
      BY <2>3 DEF Transfers, rpcVars
    <3>3. QED
      BY <1>1, <2>1, <3>1, <3>2 DEF InterruptedBelow, Client
  <2>4. QED
    BY <1>4, <2>2, <2>3, FrameKinds
<1>5. CASE NoFrame
  <2>1. CASE Halts \/ Stays
    BY <1>1, <2>1 DEF Halts, Halt, Stays, machine, modeVars, rpcVars,
                      InterruptedBelow, Client
  <2>2. CASE Starts
    <3>1. current_guest_mode = NONE /\ Quiet
      BY <1>2, <2>2 DEF Starts, TypeOK
    <3>2. current_guest_mode' = KERNEL /\ UNCHANGED <<interrupted_mode, rpc_for>>
      BY <2>2 DEF Starts, ChangeGuestMode, rpcVars
    <3>3. QED
      BY <1>1, <3>1, <3>2 DEF InterruptedBelow, Client, INTERRUPT, NONE
  <2>3. CASE Interrupts
    <3>1. current_guest_mode \in {KERNEL, TASK} /\ Quiet
      BY <1>2, <2>3 DEF Interrupts, TypeOK, Synchrony
    <3>2. /\ current_guest_mode' = INTERRUPT /\ UNCHANGED rpc_for
          /\ interrupted_mode' = current_guest_mode
      BY <2>3 DEF Interrupts, ChangeGuestMode, rpcVars
    <3>3. QED
      BY <1>1, <3>1, <3>2 DEF InterruptedBelow, Client
  <2>4. CASE EndsInterrupt
    <3>1. Quiet /\ interrupted_mode \in {KERNEL, TASK}
      BY <1>2, <2>4 DEF EndsInterrupt, InterruptedBelow, Client
    <3>2. /\ current_guest_mode' = interrupted_mode /\ UNCHANGED rpc_for
          /\ interrupted_mode' = NONE
      BY <2>4 DEF EndsInterrupt, ChangeGuestMode, rpcVars
    <3>3. QED
      BY <1>1, <3>1, <3>2 DEF InterruptedBelow, Client
  <2>5. CASE Calls
    <3>1. current_guest_mode \in Modes
      BY <2>5 DEF Calls, TypeOK
    <3>2. /\ rpc_for'[TRUSTED] = current_guest_mode
          /\ UNCHANGED interrupted_mode
      BY <2>5, <3>1 DEF Calls, TypeOK
    <3>3. QED
      BY <1>1, <2>5, <3>1, <3>2 DEF Calls, InterruptedBelow, Client
  <2>6. CASE Replies
    <3>1. /\ current_guest_mode \in Modes
          /\ rpc_for[current_guest_mode] \in Modes
      BY <2>6 DEF Replies, TypeOK
    <3>2. current_guest_mode = TRUSTED
      BY <2>6, <3>1 DEF Replies, RpcPaired
    <3>3. /\ current_guest_mode' = rpc_for[TRUSTED] /\ rpc_for'[TRUSTED] = NONE
          /\ UNCHANGED interrupted_mode
      BY <2>6, <3>1, <3>2 DEF Replies, ChangeGuestMode, TypeOK
    <3>4. QED
      BY <1>1, <3>1, <3>2, <3>3 DEF InterruptedBelow, Client
  <2>7. QED
    BY <1>5, <2>1, <2>2, <2>3, <2>4, <2>5, <2>6, NoFrameKinds
<1>6. QED
  BY <1>3, <1>4, <1>5, NextCases

LEMMA BookkeepingInit == Init => Bookkeeping
<1> USE ModesDistinct, NoneIsNoMode
<1>1. Init => Synchrony
  BY DEF Init, Synchrony, RpcSynchronous, TRUSTED, NONE
<1>2. Init => RpcPaired
  BY DEF Init, RpcPaired
<1>3. Init => TrustedRunsForCaller /\ TrustedNotTwice
  BY DEF Init, TrustedRunsForCaller, TrustedNotTwice
<1>4. Init => InterruptedBelow
  BY DEF Init, InterruptedBelow, Client, NONE, INTERRUPT
<1>5. QED
  BY <1>1, <1>2, <1>3, <1>4, InitType DEF Bookkeeping

(* A switch to a mode stops nothing.                                       *)
LEMMA SwitchRuns ==
  ASSUME NEW m \in Modes, NEW depth, ChangeGuestMode(m, depth)
  PROVE  status' = "running"
BY DEF ChangeGuestMode

LEMMA NoPanicStep ==
  ASSUME PortSoftware, Bookkeeping, NoBookkeepingPanic, [Next]_vars
  PROVE  NoBookkeepingPanic'
<1> USE ModesDistinct, NoneIsNoMode, SwitchRuns
<1> USE DEF NoBookkeepingPanic
<1>1. CASE EndInterrupt
  <2>1. current_guest_mode = INTERRUPT
    BY <1>1 DEF EndInterrupt, Hypercall, Takes, PortSoftware,
                ServiceOnlyReplies, Bookkeeping, TypeOK
  <2>2. interrupted_mode \in {KERNEL, TASK}
    BY <2>1 DEF Bookkeeping, InterruptedBelow, Client, Synchrony,
                RpcSynchronous
  <2>3. QED
    BY <1>1, <2>1, <2>2 DEF EndInterrupt
<1>2. CASE Rpc
  <2>1. current_guest_mode \in Modes \ {TRUSTED}
    BY <1>2 DEF Rpc, Takes, PortSoftware, ServiceOnlyReplies, Bookkeeping,
                TypeOK
  <2>2. rpc_for[TRUSTED] = NONE
    BY <2>1 DEF Bookkeeping, Synchrony, RpcSynchronous
  <2>3. rpc_to[current_guest_mode] = NONE
    BY <2>1, <2>2 DEF Bookkeeping, RpcPaired, TypeOK
  <2>4. QED
    BY <1>2, <2>1, <2>2, <2>3 DEF Rpc, StartRpc, Halt, HandlingMode
<1>3. CASE EndRpc
  <2>1. current_guest_mode = TRUSTED
    BY <1>3 DEF EndRpc, Takes, PortSoftware, Bookkeeping, TypeOK
  <2>2. rpc_for[TRUSTED] \in Modes
    BY <2>1 DEF Bookkeeping, TrustedRunsForCaller, TypeOK
  <2>3. rpc_to[rpc_for[TRUSTED]] = TRUSTED
    BY <2>2 DEF Bookkeeping, RpcPaired
  <2>4. QED
    BY <1>3, <2>1, <2>2, <2>3 DEF EndRpc
<1>4. CASE Syscall \/ Abort \/ RestoreLinuxRegs \/ Irq \/ StartGuest
  BY <1>4 DEF Syscall, Abort, RestoreLinuxRegs, ResumeFrame, Irq, StartGuest,
              Halt
<1>5. CASE \/ GuestInit \/ InterruptSet \/ RestoreRegs \/ OtherHypercall
           \/ UnknownHypercall \/ Undef \/ Spin \/ UNCHANGED vars
  BY <1>5 DEF GuestInit, InterruptSet, RestoreRegs, OtherHypercall,
              UnknownHypercall, Undef, Spin, Halt, vars
<1>6. QED
  BY <1>1, <1>2, <1>3, <1>4, <1>5 DEF Next

LEMMA BookkeepingInvariant ==
  ASSUME PortSoftware
  PROVE  Spec => []Bookkeeping
<1>1. Bookkeeping /\ [Next]_vars => Bookkeeping'
  BY BookkeepingStep
<1>2. QED
  BY <1>1, BookkeepingInit, PTL DEF Spec

(* Under the Linux port and its service the machine never stops on a check *)
(* of the hypervisor's own bookkeeping, however interrupts, faults, system *)
(* calls and RPCs follow each other.                                       *)
THEOREM NoPanic ==
  ASSUME PortSoftware
  PROVE  Spec => []NoBookkeepingPanic
<1>1. Init => NoBookkeepingPanic
  BY DEF Init, NoBookkeepingPanic
<1>2. Bookkeeping /\ NoBookkeepingPanic /\ [Next]_vars => NoBookkeepingPanic'
  BY NoPanicStep
<1>3. QED
  BY <1>1, <1>2, BookkeepingInvariant, PTL DEF Spec
=============================================================================
