CONSTANTS
  NumBlocks = 5
  UsedBlocks = 1
  NumInodes = 5
  UsedInodes = 2
  InodesLoaded = 4
  Direct = 1
  Dir = {1, 2}
  ROOTDIR_INODE = 2
  Name = {"a", "bb"}
  LongName = {"bb"}
  DirectorySize = 5
  BufferBlocks = {1, 3}
SPECIFICATION Spec
INVARIANTS
  TypeOK
  DirectoryIsCovered
  BlocksAreOwned
  NameHasInode
  DirectBlocksIntact
PROPERTY
  OnlyDeleteUnnames
