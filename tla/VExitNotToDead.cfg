CONSTANT MAX_PROCESSES = 5
SPECIFICATION Spec
PROPERTY
  ExitNotToDead
CHECK_DEADLOCK FALSE
