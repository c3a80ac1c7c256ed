--------------------------- MODULE MCKernelStack ---------------------------
(* Software for the instances of KernelStack that TLC checks.              *)
EXTENDS KernelStack

(* The Linux port with the trusted service, and a kernel that may crash.   *)
StackSoftware ==
  [m \in Modes |->
     CASE m = TRUSTED -> {"END_RPC"}
       [] m = KERNEL -> {"GUEST_INIT", "INTERRUPT_SET", "RESTORE_REGS", "OTHER",
                         "RESTORE_LINUX_REGS", "RPC", "ABORT", "UNKNOWN",
                         "UNDEF"}
       [] m = TASK -> {"UNKNOWN", "RPC", "ABORT"}
       [] m = INTERRUPT -> {"INTERRUPT_SET", "END_INTERRUPT", "RPC", "OTHER"}]

(* Room for a system call with two nested faults.                          *)
ThreeFrames == 20 + 18 + 18
=============================================================================
