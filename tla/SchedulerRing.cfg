SPECIFICATION FairSpec
CONSTANTS
  p1 = p1
  p2 = p2
  p3 = p3
  Pid = {p1, p2, p3}
  NoPid = NoPid
  MAX_NODES = 3
  SIZE = 2
  Priority = {0}
  Workload = {}
INVARIANTS NoProcessLost RingSound
PROPERTIES EveryReadyRuns
