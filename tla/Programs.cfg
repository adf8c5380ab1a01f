SPECIFICATION Spec
CONSTANTS
  NoPid = NoPid
  TRAYS_QTY = 2
  MAX_PRODCONS = 2
  MaxStaff = 3
  MaxDismissals = 1
  MAX_PHILOSOPHERS = 3
  MaxHired = 3
  MaxRemovals = 1
INVARIANTS TraysAccounted CleansUp  TableShared
PROPERTIES EverybodyServed
CHECK_DEADLOCK FALSE
