SPECIFICATION Spec
CONSTANTS
  File <- Files
  Kernel <- KernelBytes
  bss = 5
  endOfKernel = 8
  moduleAddresses <- Addresses
  MemorySize = 16
  Junk = 99
  Shipped <- ShippedFiles
  Process = {1, 2}
  Sleeper = {1}
  Hours = 1
  Minutes = 2
  Seconds = 11
  MaxSleep = 2
INVARIANTS   ReadsTheTime
PROPERTIES SleepsAsAsked SleepEnds
CHECK_DEADLOCK FALSE
