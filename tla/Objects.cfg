SPECIFICATION ObjectsSpec
CONSTANTS
  maxOrder = 2
  BLOCK_SIZE = 2
  a = a
  b = b
  Name <- Names
  NoName = NoName
  Long = {}
  Cut = Cut
  MAX_MUTEXES = 3
  MAX_MAILBOXES = 1
  Size <- StructSizes
  DataSize = {0, 2, 4}
  Workload = {}
SYMMETRY Symmetry
INVARIANTS MemorySound HandlesGood DirectoriesSound NoBlockForgotten
PROPERTIES KeepsPromises
