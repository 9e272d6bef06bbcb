CONSTANTS
  MAX_SYSTEM_OPEN_FILES = 7
  MAX_FILE_DESCRIPTORS = 5
  Pid = {1, 2}
  Inode = {5}
  Name = {a}
  NoName = NoName
  Data = {d0}
  Zero = d0
SPECIFICATION ClosingSpec
INVARIANTS
  TypeOK
  OneLockPerInode
  Reachable
CHECK_DEADLOCK FALSE
