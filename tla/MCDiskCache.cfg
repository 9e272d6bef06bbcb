CONSTANTS
  CACHE_SIZE = 2
  EXT2_SECTOR_START = 1
  SectorsPerBlock = 2
  Blocks = 2
  Data = {d0, d1}
  Zero = d0
  ClockModulus = 5
SPECIFICATION HistorySpec
INVARIANTS
  Coherent
  NoAlias
PROPERTIES
  ImplementsSectorStore
  EvictsLeastRecentlyUsed
