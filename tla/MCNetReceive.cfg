CONSTANTS
  PSTART = 2
  PSTOP = 7
  MaxPages = 2
  MAX_QUEUED_PACKETS = 2
  Ids = 3
  Requests = 2
SPECIFICATION NetFairSpec
INVARIANTS
  RingHoldsPending
  ReadsIntactPacket
  DeliversWhatArrived
PROPERTY
  ReceiveEnds
