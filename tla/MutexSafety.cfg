SPECIFICATION Spec
CONSTANTS
  Pid = {p1, p2, p3}
  NoPid = NoPid
  PROCESS_QUEUE_SIZE = 2
  Mutex = {m1, m2}
  NoMutex = NoMutex
  MaxHeld = 2
  Workload = {}
SYMMETRY Symmetry
INVARIANTS TypeOK MutualExclusion NoOrphanMutex NoLostWaiter
PROPERTIES ServesInOrder
CHECK_DEADLOCK FALSE
