SPECIFICATION KSpec
CONSTANTS
  Software <- StackSoftware
  Args = {"valid"}
  TaskSp = {FALSE, TRUE}
  MaxWords <- ThreeFrames
INVARIANT ResumesWhereTrapped
