CONSTANTS
  MAX_PROCESSES = 5
  CounterModulus = 2
SPECIFICATION TimesSpec
INVARIANTS
  CallChain
  Accounted
PROPERTY
  ResumesSleeper
CHECK_DEADLOCK FALSE
