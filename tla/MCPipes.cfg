CONSTANTS
  MAX_SYSTEM_OPEN_FILES = 7
  MAX_FILE_DESCRIPTORS = 6
  Pid = {1, 2}
  Inode = {5}
  Name = {a}
  NoName = NoName
  Data = {d0, d1}
  Zero = d0
SPECIFICATION RolesSpec
INVARIANT
  WriterIsCreator
PROPERTY
  ImplementsPipeBuffer
CHECK_DEADLOCK FALSE
