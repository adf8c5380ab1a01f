SPECIFICATION FairSpec
CONSTANTS
  Pid = {p1, p2, p3}
  NoPid = NoPid
  PROCESS_QUEUE_SIZE = 2
  Mutex = {m1}
  NoMutex = NoMutex
  MaxHeld = 1
  Workload = {}
PROPERTIES EveryWaitEnds
