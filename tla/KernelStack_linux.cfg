SPECIFICATION KFairSpec
CONSTANTS
  Software <- StackSoftware
  Args = {"valid"}
  TaskSp = {FALSE}
  MaxWords <- ThreeFrames
INVARIANT StackEmptyInTask
INVARIANT ResumesWhereTrapped
INVARIANT TaskRunsWithIrqOn
INVARIANT InterruptHasReturn
INVARIANT RpcSynchronous
INVARIANT NoBookkeepingPanic
PROPERTY RefinesGuestModes
PROPERTY RpcReturns
PROPERTY InterruptReturns
