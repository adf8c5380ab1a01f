SPECIFICATION Spec
CONSTANTS
  MAX_PROCESS_COUNT = 3
  Pid = {0, 1, 2}
  NoPid = NoPid
  MaxOverkill = 1
  PROCESS_QUEUE_SIZE = 2
  Workload = {"Preempt"}
INVARIANTS GuardCoherent ChildStillToReturn
CHECK_DEADLOCK FALSE
