SPECIFICATION Spec
CONSTANTS
  MAX_PROCESS_COUNT = 4
  Pid = {0, 1, 2, 3}
  NoPid = NoPid
  MaxOverkill = 1
  PROCESS_QUEUE_SIZE = 3
  Workload = {"WildKill"}
INVARIANTS CountExact PointerAtFreeSlot 
PROPERTIES NeverRevived
CHECK_DEADLOCK FALSE
