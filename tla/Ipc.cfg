SPECIFICATION Spec
CONSTANTS
  p1 = p1
  p2 = p2
  p3 = p3
  Pid <- Three
  NoPid = NoPid
  PROCESS_QUEUE_SIZE = 4
  Message <- Messages
  MAILBOX_BUFFER_SIZE = 2
  StartValue = 1
  MaxTokens = 2
  MaxWakes = 1
  Workload = {"Shared", "ReaderWoken"}
SYMMETRY Symmetry
INVARIANTS TokensSound NobodyForgotten
PROPERTIES ServesInOrder KeepsBytes
CHECK_DEADLOCK FALSE
