CONSTANT MAX_PROCESSES = 5
SPECIFICATION Spec
INVARIANTS
  TypeOK
  OneRunning
  OwnAddressSpace
  PanicOnlyWhenFull
PROPERTY
  SlotNotReused
CHECK_DEADLOCK FALSE
