CONSTANTS
  KERNEL_MAX_HEAP_OBJECTS = 5
  Pid = {1, 2}
  UptimeObjects = 2
  MaxNesting = 3
SPECIFICATION HeapSpec
INVARIANTS
  Exclusive
  UsedIsHeld
  NullOnlyWhenFull
CHECK_DEADLOCK FALSE
