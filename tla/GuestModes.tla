----------------------------- MODULE GuestModes -----------------------------
(***************************************************************************)
(* The virtual guest modes of the one virtual machine STH runs (vm_0), and *)
(* every way control passes between them: hypercalls, system calls, aborts *)
(* interrupts, the RPC to the trusted service, and the panics that stop    *)
(* the machine.                                                            *)
(*                                                                         *)
(* The processor takes an exception into the hypervisor with interrupts    *)
(* off and there is one core, so a handler runs to its end before any      *)
(* guest code does: one action per handler.  The contents of the guest's   *)
(* kernel stack are in KernelStack, the page tables in PageTables.         *)
(***************************************************************************)

CONSTANTS
  Software,  \* Software[m]: the traps that the code running in mode m takes
  Args       \* the classes of argument that code passes to a hypercall

(* Guest modes, HC_GM_* of the guest configuration; NONE is MODE_NONE.     *)
TRUSTED   == "TRUSTED"
KERNEL    == "KERNEL"
TASK      == "TASK"
INTERRUPT == "INTERRUPT"
NONE      == "NONE"

Modes == {TRUSTED, KERNEL, TASK, INTERRUPT}

(* SWI numbers, those without effect on the modes gathered in OTHER (cache *)
(* maintenance, TLS, context id, page tables); UNKNOWN is any other number *)
Hypercalls == {"GUEST_INIT", "INTERRUPT_SET", "END_INTERRUPT", "RESTORE_REGS",
               "RESTORE_LINUX_REGS", "RPC", "END_RPC", "OTHER", "UNKNOWN"}

Traps == Hypercalls \cup {"ABORT", "UNDEF"}

ASSUME SoftwareAssumption == Software \in [Modes -> SUBSET Traps]
ASSUME ArgsAssumption == Args \subseteq {"valid", "invalid"}

(* The mode that handles RPCs.                                             *)
HandlingMode == TRUSTED

(* The memory domains each mode may access (domain_ac of its mode_config). *)
DomainAC ==
  [m \in Modes |->
     CASE m = TRUSTED               -> {"default", "trusted"}
       [] m \in {KERNEL, INTERRUPT} -> {"default", "kernel", "task"}
       [] m = TASK                  -> {"default", "task"}]

VARIABLES
  status,              \* "boot", "running" or the reason the machine stopped
  current_guest_mode,  \* and current_mode_state, always assigned with it
  interrupted_mode,
  rpc_for, rpc_to,     \* per mode state
  irq_off,             \* per mode state: the I bit of ctx.psr
  context_stack,       \* slots 0 and 1: the context an exception saves to
  domain_ac,           \* the domain access control register
  boot                 \* whether GUEST_INIT was done

rpcVars == <<rpc_for, rpc_to>>
modeVars == <<current_guest_mode, context_stack, domain_ac>>
machine == <<modeVars, interrupted_mode, rpcVars, irq_off, boot>>
vars == <<status, machine>>

(* The state guests_init leaves, before the guest starts.  The I bit of    *)
(* TRUSTED is set with its stack, the others start from zeroed memory or   *)
(* ARM_MODE_USER; start() enters the kernel with 0xD0.                     *)
Init ==
  /\ status = "boot"
  /\ current_guest_mode = NONE
  /\ interrupted_mode = NONE
  /\ rpc_for = [m \in Modes |-> NONE]
  /\ rpc_to = [m \in Modes |-> NONE]
  /\ irq_off = [m \in Modes |-> m = TRUSTED]
  /\ context_stack = [d \in {0, 1} |-> IF d = 1 THEN KERNEL ELSE NONE]
  /\ domain_ac = {"default", "kernel", "task", "trusted"}
  /\ boot = FALSE

-----------------------------------------------------------------------------
(* Helpers of the handlers.                                                *)

(* hyper_panic, terminate and undef_handler: the hypervisor loops forever. *)
Halt(reason) ==
  /\ status' = reason
  /\ UNCHANGED machine

(* Faulty variants of ChangeGuestMode, below: it always uses the first     *)
(* context slot, or leaves the domains as they are.                        *)
ChangeGuestModeSlot0(m, depth) ==
  /\ current_guest_mode' = m
  /\ context_stack' = [context_stack EXCEPT ![0] = m]
  /\ domain_ac' = DomainAC[m]
  /\ status' = "running"

ChangeGuestModeOldDomains(m, depth) ==
  /\ current_guest_mode' = m
  /\ context_stack' = [context_stack EXCEPT ![depth] = m]
  /\ status' = "running"
  /\ UNCHANGED domain_ac

(* The mode record, the context that the next exception saves to and the   *)
(* domain access register.  depth is context_stack_curr: 1 in a handler,   *)
(* 0 before the first guest instruction.                                   *)
ChangeGuestMode(m, depth) ==
  IF m \in Modes
  THEN /\ current_guest_mode' = m
       /\ context_stack' = [context_stack EXCEPT ![depth] = m]
       /\ domain_ac' = DomainAC[m]
       /\ status' = "running"
  ELSE /\ status' = "unknown_mode"
       /\ UNCHANGED modeVars

SetIrqOff(m, off) == irq_off' = [irq_off EXCEPT ![m] = off]

Takes(trap) ==
  /\ status = "running"
  /\ trap \in Software[current_guest_mode]

(* The switch of swi_handler is reached from every mode but TASK.          *)
Hypercall(h) ==
  /\ Takes(h)
  /\ current_guest_mode # TASK

-----------------------------------------------------------------------------
(* Start of the guest, by start_guest and start.                           *)
StartGuest ==
  /\ status = "boot"
  /\ ChangeGuestMode(KERNEL, 0)
  /\ SetIrqOff(KERNEL, TRUE)
  /\ UNCHANGED <<interrupted_mode, rpcVars, boot>>

(* GUEST_INIT: once, with a pointer into the kernel's space.               *)
GuestInit ==
  /\ Hypercall("GUEST_INIT")
  /\ \/ boot /\ Halt("boot_twice")
     \/ ~boot /\ "invalid" \in Args /\ Halt("bad_pointer")
     \/ /\ ~boot /\ "valid" \in Args
        /\ boot' = TRUE
        /\ UNCHANGED <<status, modeVars, interrupted_mode, rpcVars, irq_off>>

(* INTERRUPT_SET: enable, disable or restore the flags of the caller, any  *)
(* of which leaves the I bit set or clear according to the argument.       *)
InterruptSet ==
  /\ Hypercall("INTERRUPT_SET")
  /\ \/ "invalid" \in Args /\ Halt("irq_op")
     \/ /\ "valid" \in Args
        /\ \E off \in BOOLEAN : SetIrqOff(current_guest_mode, off)
        /\ UNCHANGED <<status, modeVars, interrupted_mode, rpcVars, boot>>

(* RESTORE_REGS: registers and psr of the caller, from its memory.         *)
RestoreRegs ==
  /\ Hypercall("RESTORE_REGS")
  /\ \/ "invalid" \in Args /\ Halt("bad_pointer")
     \/ /\ "valid" \in Args
        /\ \E off \in BOOLEAN : SetIrqOff(current_guest_mode, off)
        /\ UNCHANGED <<status, modeVars, interrupted_mode, rpcVars, boot>>

(* RESTORE_LINUX_REGS: to whichever of KERNEL and TASK the frame on the    *)
(* kernel stack is for, with the I bit of the frame.  The interrupted mode *)
(* is left as it is.                                                       *)
ResumeFrame(m, off) ==
  /\ SetIrqOff(m, off)
  /\ ChangeGuestMode(m, 1)
  /\ UNCHANGED <<interrupted_mode, rpcVars, boot>>

RestoreLinuxRegs ==
  /\ Hypercall("RESTORE_LINUX_REGS")
  /\ \/ "invalid" \in Args /\ Halt("bad_pointer")
     \/ /\ "valid" \in Args
        /\ \E m \in {KERNEL, TASK}, off \in BOOLEAN : ResumeFrame(m, off)

(* Faulty variants: no reset of interrupted_mode, always to the kernel.    *)
EndInterruptKeepsMode ==
  /\ Hypercall("END_INTERRUPT")
  /\ current_guest_mode = INTERRUPT
  /\ interrupted_mode \in Modes
  /\ ChangeGuestMode(interrupted_mode, 1)
  /\ UNCHANGED <<interrupted_mode, rpcVars, irq_off, boot>>

EndInterruptToKernel ==
  /\ Hypercall("END_INTERRUPT")
  /\ current_guest_mode = INTERRUPT
  /\ interrupted_mode \in Modes
  /\ ChangeGuestMode(KERNEL, 1)
  /\ interrupted_mode' = NONE
  /\ UNCHANGED <<rpcVars, irq_off, boot>>

(* END_INTERRUPT.                                                          *)
EndInterrupt ==
  /\ Hypercall("END_INTERRUPT")
  /\ IF current_guest_mode # INTERRUPT THEN Halt("end_irq_mode")
     ELSE IF interrupted_mode \notin Modes THEN Halt("end_irq_none")
     ELSE /\ ChangeGuestMode(interrupted_mode, 1)
          /\ interrupted_mode' = NONE
          /\ UNCHANGED <<rpcVars, irq_off, boot>>

(* The caller waits, the handling mode works with the I bit given.         *)
StartRpc(m, off) ==
  /\ rpc_to' = [rpc_to EXCEPT ![m] = HandlingMode]
  /\ rpc_for' = [rpc_for EXCEPT ![HandlingMode] = m]
  /\ ChangeGuestMode(TRUSTED, 1)
  /\ SetIrqOff(TRUSTED, off)
  /\ UNCHANGED <<interrupted_mode, boot>>

(* Faulty variants: the service gets the psr of any other mode, the check  *)
(* that the service is free is missing.                                    *)
RpcIrqOn ==
  /\ Takes("RPC")
  /\ current_guest_mode # HandlingMode
  /\ rpc_for[HandlingMode] = NONE
  /\ StartRpc(current_guest_mode, FALSE)

RpcWhenBusy ==
  /\ Takes("RPC")
  /\ current_guest_mode # HandlingMode
  /\ rpc_to[current_guest_mode] = NONE
  /\ StartRpc(current_guest_mode, TRUE)

(* RPC, from any mode, TASK included: the first check that fails stops the *)
(* machine.  An invalid argument is an rpc_op above 4.                     *)
Rpc ==
  /\ Takes("RPC")
  /\ LET m == current_guest_mode
     IN  IF rpc_to[m] # NONE THEN Halt("rpc_nested")
         ELSE IF m = HandlingMode THEN Halt("rpc_self")
         ELSE IF rpc_for[HandlingMode] # NONE THEN Halt("rpc_busy")
         ELSE \/ "invalid" \in Args /\ Halt("rpc_op")
              \/ /\ "valid" \in Args
                 /\ StartRpc(m, TRUE)

(* Faulty variants: the caller goes on waiting, the reply goes to KERNEL.  *)
EndRpcStillWaiting ==
  /\ Takes("END_RPC")
  /\ LET m == current_guest_mode
     IN  /\ rpc_for[m] # NONE
         /\ rpc_for' = [rpc_for EXCEPT ![m] = NONE]
         /\ ChangeGuestMode(rpc_for[m], 1)
         /\ UNCHANGED <<rpc_to, interrupted_mode, irq_off, boot>>

EndRpcToKernel ==
  /\ Takes("END_RPC")
  /\ LET m == current_guest_mode
     IN  /\ rpc_for[m] # NONE
         /\ rpc_for' = [rpc_for EXCEPT ![m] = NONE]
         /\ rpc_to' = [rpc_to EXCEPT ![rpc_for[m]] = NONE]
         /\ ChangeGuestMode(KERNEL, 1)
         /\ UNCHANGED <<interrupted_mode, irq_off, boot>>

(* END_RPC, from any mode.                                                 *)
EndRpc ==
  /\ Takes("END_RPC")
  /\ LET m == current_guest_mode
         caller == rpc_for[m]
     IN  IF caller = NONE THEN Halt("end_rpc_none")
         ELSE IF rpc_to[caller] # m THEN Halt("end_rpc_orphan")
         ELSE /\ rpc_for' = [rpc_for EXCEPT ![m] = NONE]
              /\ rpc_to' = [rpc_to EXCEPT ![caller] = NONE]
              /\ ChangeGuestMode(caller, 1)
              /\ UNCHANGED <<interrupted_mode, irq_off, boot>>

(* The hypercalls that leave the modes alone, or reject their arguments.   *)
OtherHypercall ==
  /\ Hypercall("OTHER")
  /\ \/ "invalid" \in Args /\ Halt("rejected")
     \/ "valid" \in Args /\ UNCHANGED vars

UnknownHypercall ==
  /\ Hypercall("UNKNOWN")
  /\ Halt("unknown_call")

-----------------------------------------------------------------------------
(* The other exceptions.                                                   *)

(* From TASK every SWI but the two RPC ones is a system call.              *)
Syscall ==
  /\ current_guest_mode = TASK
  /\ \E h \in Hypercalls \ {"RPC", "END_RPC"} : Takes(h)
  /\ ChangeGuestMode(KERNEL, 1)
  /\ SetIrqOff(KERNEL, FALSE)
  /\ UNCHANGED <<interrupted_mode, rpcVars, boot>>

(* Prefetch and data aborts differ in the frame they push only.  The low   *)
(* bits of a guest's psr are never set (guests run in user mode), so the   *)
(* test on the KERNEL psr always masks interrupts.                         *)
Abort ==
  /\ Takes("ABORT")
  /\ ChangeGuestMode(KERNEL, 1)
  /\ SetIrqOff(KERNEL, TRUE)
  /\ UNCHANGED <<interrupted_mode, rpcVars, boot>>

(* An interrupt reaches the hypervisor when the running mode lets it.      *)
Irq ==
  /\ status = "running"
  /\ ~irq_off[current_guest_mode]
  /\ SetIrqOff(INTERRUPT, TRUE)
  /\ UNCHANGED <<rpcVars, boot>>
  /\ IF current_guest_mode = INTERRUPT
     THEN UNCHANGED <<status, modeVars, interrupted_mode>>
     ELSE /\ interrupted_mode' = current_guest_mode
          /\ ChangeGuestMode(INTERRUPT, 1)

Undef ==
  /\ Takes("UNDEF")
  /\ Halt("undef")

(* The endless loop of terminate and undef_handler.                        *)
Spin ==
  /\ status \notin {"boot", "running"}
  /\ UNCHANGED vars

Next ==
  \/ StartGuest
  \/ GuestInit \/ InterruptSet \/ RestoreRegs \/ RestoreLinuxRegs
  \/ EndInterrupt \/ Rpc \/ EndRpc \/ OtherHypercall \/ UnknownHypercall
  \/ Syscall \/ Abort \/ Irq \/ Undef
  \/ Spin

Spec == Init /\ [][Next]_vars

(* The software is not obliged to make progress, except that the trusted   *)
(* service ends every RPC (handler_rpc always comes to finish_rpc) and an  *)
(* interrupt handler, however many hypercalls and RPCs it makes, comes to  *)
(* its END_INTERRUPT.                                                      *)
FairSpec == Spec /\ SF_vars(EndRpc) /\ SF_vars(EndInterrupt)

-----------------------------------------------------------------------------
(* Properties for every guest.                                             *)

Reasons == {"boot_twice", "bad_pointer", "irq_op", "end_irq_mode",
            "end_irq_none", "rpc_nested", "rpc_self", "rpc_busy", "rpc_op",
            "end_rpc_none", "end_rpc_orphan", "rejected", "unknown_call",
            "undef", "unknown_mode"}

(* Every variable has its type; the guest runs in one of its modes.        *)
TypeOK ==
  /\ status \in {"boot", "running"} \cup Reasons
  /\ current_guest_mode \in Modes \cup {NONE}
  /\ status = "boot" <=> current_guest_mode = NONE
  /\ interrupted_mode \in Modes \cup {NONE}
  /\ rpc_for \in [Modes -> Modes \cup {NONE}]
  /\ rpc_to \in [Modes -> Modes \cup {NONE}]
  /\ irq_off \in [Modes -> BOOLEAN]
  /\ context_stack \in [{0, 1} -> Modes \cup {NONE}]
  /\ domain_ac \in SUBSET {"default", "kernel", "task", "trusted"}
  /\ boot \in BOOLEAN

(* The next exception saves the registers of the mode that runs into the   *)
(* context of that mode, from the first instruction of the guest on: the   *)
(* start uses slot 0 and every handler slot 1.                             *)
ContextOfRunningMode ==
  status = "running" => context_stack[1] = current_guest_mode

(* The trusted domain is open exactly while the trusted service runs, the  *)
(* service cannot reach the kernel or the tasks, and a task cannot reach   *)
(* the kernel, whatever sequence of exceptions led there.                  *)
DomainIsolation ==
  status = "running" =>
    /\ "trusted" \in domain_ac <=> current_guest_mode = TRUSTED
    /\ "kernel" \in domain_ac <=> current_guest_mode \in {KERNEL, INTERRUPT}
    /\ "task" \in domain_ac <=> current_guest_mode # TRUSTED

(* The two halves of an open RPC, kept in the states of two modes, point   *)
(* at each other: the caller waits for TRUSTED and TRUSTED answers that    *)
(* caller, no other mode waits or answers, so the check of END_RPC that    *)
(* the caller really started one can never fail.                           *)
RpcPaired ==
  /\ \A m, n \in Modes : rpc_to[m] = n <=> rpc_for[n] = m
  /\ \A m, n \in Modes : rpc_to[m] = n => m # TRUSTED /\ n = TRUSTED

(* The trusted service runs, or is about to be resumed by END_INTERRUPT,   *)
(* only while the RPC of some caller is open, whatever interrupts, aborts  *)
(* and context restores happened since the call.                           *)
TrustedRunsForCaller ==
  TRUSTED \in {current_guest_mode, interrupted_mode} =>
    rpc_for[TRUSTED] # NONE

(* A call is abandoned when a fault of the service, or a context restore,  *)
(* has given the processor to someone else without an END_RPC and no       *)
(* interrupt is going to return to the service: handlers.c:195 leaves the  *)
(* RPC open.  Its caller never gets an answer.  But what the service left  *)
(* half done is neither resumed nor started over on top of it by a later   *)
(* call, whoever makes it and whatever interrupts come in between.         *)
CallAbandoned ==
  /\ rpc_for[TRUSTED] # NONE
  /\ TRUSTED \notin {current_guest_mode, interrupted_mode}

AbandonedForGood == [][CallAbandoned => CallAbandoned']_vars

(* The modes implement the RPC channel: every step of every handler is a   *)
(* call, a return to the caller, a switch that leaves the channel open or  *)
(* closed, or invisible.                                                   *)
Channel == INSTANCE RpcChannel
  WITH Clients <- Modes \ {TRUSTED}, Service <- TRUSTED, Nobody <- NONE,
       running <- current_guest_mode, caller <- rpc_for[TRUSTED]

ImplementsRpcChannel == Channel!Spec

-----------------------------------------------------------------------------
(* Properties that need the software to keep to what it is written for.    *)

(* The service leaves its interrupts off: RPC starts it with 0xD0.         *)
ServiceKeepsIrqOff ==
  Software[TRUSTED] \cap {"INTERRUPT_SET", "RESTORE_REGS"} = {}

(* The service does nothing but work and reply, without a fault.           *)
ServiceOnlyReplies == Software[TRUSTED] \subseteq {"END_RPC"}

(* Interrupt mode always has a mode to return to, also after an RPC from   *)
(* inside an interrupt handler: END_INTERRUPT in interrupt mode never      *)
(* meets an invalid interrupted_mode.                                      *)
InterruptHasReturn ==
  current_guest_mode = INTERRUPT => interrupted_mode \in Modes

(* An RPC is synchronous: from the call to the reply nothing but the       *)
(* service runs, so neither the caller nor anyone else sees a half-done    *)
(* operation.                                                              *)
RpcSynchronous ==
  rpc_for[TRUSTED] # NONE => current_guest_mode = TRUSTED

(* The machine never stops on a check of the hypervisor's own bookkeeping  *)
(* of interrupts and RPCs.                                                 *)
NoBookkeepingPanic ==
  status \notin {"end_irq_mode", "end_irq_none", "rpc_nested", "rpc_self",
                 "rpc_busy", "end_rpc_none", "end_rpc_orphan", "unknown_mode"}

(* Every RPC is answered: the mode that called runs again.                 *)
RpcReturns ==
  \A m \in Modes : rpc_for[TRUSTED] = m ~> current_guest_mode = m

(* Every interrupted mode is resumed.                                      *)
InterruptReturns ==
  \A m \in Modes : interrupted_mode = m ~> current_guest_mode = m
=============================================================================
