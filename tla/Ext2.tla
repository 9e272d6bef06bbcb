-------------------------------- MODULE Ext2 --------------------------------
(***************************************************************************)
(* The calls of fs.cpp that change the file system: createFile (with       *)
(* allocateInode, writeInodeEntry, writeBufferToDisk, allocateFreeBlock),  *)
(* deleteFile, moveFile and deleteDirectoryEntry, one action per block     *)
(* they write.  System calls run one at a time with interrupts off, so two *)
(* of these calls never mix, but the machine may lose its power between    *)
(* two writes.  A block is written whole here; its sectors and the read    *)
(* cache under it are DiskCache.                                           *)
(*                                                                         *)
(* loadFileFromInodeStruct is left to the student ("ASSIGNMENT 2 TO DO");  *)
(* FileBlock reads a file the way fs.h describes it.                       *)
(*                                                                         *)
(* Left out: permission bits, sizes in bytes, time stamps, and directories *)
(* as files that are created, moved or deleted (only the image tool makes  *)
(* directories).                                                           *)
(***************************************************************************)
EXTENDS Integers, Sequences, SequencesExt, FiniteSets, Scan

CONSTANTS
  NumBlocks,      \* blocks the usage map has bits for (16000)
  UsedBlocks,     \* of which the image tool used the first
  NumInodes,      \* inodes the usage map has bits for (8000)
  UsedInodes,     \* of which the image tool used the first
  InodesLoaded,   \* inodes that are read and written together, from the first
                  \* (MAX_FILES_PER_DIRECTORY, 64)
  Direct,         \* direct blocks of an inode (12)
  Dir,            \* inodes of the directories
  ROOTDIR_INODE,
  Name, LongName, \* names of files; a long one needs a larger record
  DirectorySize,  \* size of a directory's block, in smallest records
  BufferBlocks    \* sizes, in blocks, of the buffers that are saved

ASSUME Ext2Assumption ==
  /\ UsedBlocks \in Nat /\ NumBlocks \in Nat /\ UsedBlocks <= NumBlocks
  /\ UsedInodes \in Nat /\ NumInodes \in Nat /\ UsedInodes <= NumInodes
  /\ InodesLoaded \in UsedInodes .. NumInodes
  /\ Direct \in Nat \ {0}
  /\ Dir \subseteq 1 .. UsedInodes /\ ROOTDIR_INODE \in Dir
  /\ LongName \subseteq Name
  /\ "." \notin Name /\ ".." \notin Name
  /\ DirectorySize \in Nat /\ DirectorySize >= 2
  /\ BufferBlocks \subseteq Nat \ {0}

Block == 0 .. NumBlocks     \* block 0 holds the superblock
Inode == 1 .. NumInodes

VARIABLES
  blockUsage,   \* blocks marked in the usage map on the disk
  inodeUsage,   \* inodes marked in theirs
  inodeTable,   \* the inode table on the disk
  tempStructs,  \* EXT2_TEMP_INODE_STRUCTS, behind the inodes that are reloaded
  directory,    \* the records of each directory on the disk
  content,      \* the blocks on the disk
  operation,    \* the call in progress
  deleted       \* history: inodes that deleteFile zeroed

disk == <<blockUsage, inodeUsage, inodeTable, directory, content>>
vars == <<blockUsage, inodeUsage, inodeTable, tempStructs, directory, content,
          operation, deleted>>

Idle == [kind |-> "idle"]

\* i_block as it is on the disk, and i_size in blocks.
ZeroInode == [direct |-> <<>>, indirect |-> 0, size |-> 0]

\* A block of a file's data, or a block of block numbers.
DataBlock(inode, part) == [file |-> inode, part |-> part, pointers |-> <<>>]
PointerBlock(blocks) == [file |-> 0, part |-> 0, pointers |-> blocks]

RecordSize(name) == IF name \in LongName THEN 2 ELSE 1

Record(inode, name, recLength) ==
  [inode |-> inode, name |-> name, recLength |-> recLength]

Init ==
  /\ blockUsage = 1 .. UsedBlocks
  /\ inodeUsage = 1 .. UsedInodes
  /\ inodeTable = [i \in Inode |-> ZeroInode]
  /\ tempStructs = [i \in Inode |-> ZeroInode]
  /\ directory = [d \in Dir |->
       << Record(d, ".", 1), Record(ROOTDIR_INODE, "..", DirectorySize - 1) >>]
  /\ content = [b \in Block |-> PointerBlock(<<>>)]
  /\ operation = Idle
  /\ deleted = {}

-----------------------------------------------------------------------------
(* Directories *)

\* The last record has room behind its name for a record of this name.
Fits(d, name) ==
  LET last == Last(directory[d])
  IN last.recLength >= RecordSize(last.name) + RecordSize(name)

\* Mutant: the new record keeps the length of the one it was split from.
Appended_NotSplit(d, inode, name) ==
  LET last == Last(directory[d])
  IN Front(directory[d])
       \o << Record(last.inode, last.name, RecordSize(last.name)),
             Record(inode, name, last.recLength) >>

\* The last record is cut to its size and the new one takes what is left.
Appended(d, inode, name) ==
  LET last == Last(directory[d])
  IN Front(directory[d])
       \o << Record(last.inode, last.name, RecordSize(last.name)),
             Record(inode, name, last.recLength - RecordSize(last.name)) >>

Matches(d, name) == { j \in DOMAIN directory[d] : directory[d][j].name = name }

returnInodeofFileName(name, d) == directory[d][FirstOf(Matches(d, name))].inode

\* Mutant: the record with the name is emptied, and so are those behind it.
Removed_Truncates(d, inode) ==
  LET j == FirstOf({ k \in DOMAIN directory[d] : directory[d][k].inode = inode })
  IN SubSeq(directory[d], 1, j - 1)

\* The first record of the inode goes and the one before it takes its length.
\* (The first record of all, ".", is no file.)
Removed(d, inode) ==
  LET j == FirstOf({ k \in DOMAIN directory[d] : directory[d][k].inode = inode })
  IN RemoveAt([directory[d] EXCEPT ![j - 1].recLength =
                 @ + directory[d][j].recLength], j)

-----------------------------------------------------------------------------
(* createFile *)

FreeInodes == Inode \ inodeUsage
FreeBlocks == (Block \ {0}) \ blockUsage

\* Up to the write of allocateInode.  Bound of the model: there is a free
\* inode (without one the code fills the memory before the table).
createFile(d, name, blocks) ==
  /\ operation = Idle
  /\ Fits(d, name)
  /\ FreeInodes # {}
  /\ inodeUsage' = inodeUsage \cup {FirstOf(FreeInodes)}
  /\ operation' = [kind |-> "create", phase |-> "allocate", dir |-> d,
                   name |-> name, inode |-> FirstOf(FreeInodes),
                   total |-> blocks, got |-> <<>>]
  /\ UNCHANGED <<blockUsage, inodeTable, tempStructs, directory, content, deleted>>

Creates(phase) == operation.kind = "create" /\ operation.phase = phase

\* Mutant: the loops take one block more than the buffer has.
PhaseAfter_OneMore(got) ==
  IF Len(got) <= operation.total THEN "allocate"
  ELSE IF operation.total > Direct THEN "pointers" ELSE "table"

\* Where the loops of writeBufferToDisk go on.
PhaseAfter(got) ==
  IF Len(got) < operation.total THEN "allocate"
  ELSE IF operation.total > Direct THEN "pointers" ELSE "table"

\* Mutant: the map is marked in memory and not written.
allocateFreeBlock_NotWritten ==
  /\ Creates("allocate")
  /\ LET block == IF FreeBlocks = {} THEN 0 ELSE FirstOf(FreeBlocks)
         got == Append(operation.got, block)
     IN operation' = [operation EXCEPT !.got = got,
            !.phase = IF Len(got) = Direct + 1 THEN PhaseAfter(got) ELSE "data"]
  /\ UNCHANGED <<blockUsage, inodeUsage, inodeTable, tempStructs, directory,
                 content, deleted>>

\* The block behind the direct ones is the indirect block; it takes the place
\* of a block of data.  On a full disk every block is block 0.
allocateFreeBlock ==
  /\ Creates("allocate")
  /\ LET block == IF FreeBlocks = {} THEN 0 ELSE FirstOf(FreeBlocks)
         got == Append(operation.got, block)
     IN /\ blockUsage' = blockUsage \cup ({block} \ {0})
        /\ operation' = [operation EXCEPT !.got = got,
             !.phase = IF Len(got) = Direct + 1 THEN PhaseAfter(got) ELSE "data"]
  /\ UNCHANGED <<inodeUsage, inodeTable, tempStructs, directory, content, deleted>>

\* Mutant: parts are counted from one.
WriteData_OneBased ==
  /\ Creates("data")
  /\ content' = [content EXCEPT ![Last(operation.got)] =
                   DataBlock(operation.inode, Len(operation.got))]
  /\ operation' = [operation EXCEPT !.phase = PhaseAfter(operation.got)]
  /\ UNCHANGED <<blockUsage, inodeUsage, inodeTable, tempStructs, directory, deleted>>

WriteData ==
  /\ Creates("data")
  /\ content' = [content EXCEPT ![Last(operation.got)] =
                   DataBlock(operation.inode, Len(operation.got) - 1)]
  /\ operation' = [operation EXCEPT !.phase = PhaseAfter(operation.got)]
  /\ UNCHANGED <<blockUsage, inodeUsage, inodeTable, tempStructs, directory, deleted>>

WritePointers ==
  /\ Creates("pointers")
  /\ content' = [content EXCEPT ![operation.got[Direct + 1]] =
       PointerBlock(SubSeq(operation.got, Direct + 2, operation.total))]
  /\ operation' = [operation EXCEPT !.phase = "table"]
  /\ UNCHANGED <<blockUsage, inodeUsage, inodeTable, tempStructs, directory, deleted>>

\* The first InodesLoaded inodes were read into tempStructs and are written
\* back; an inode behind them stays in memory.
StoreInode(inode, value) ==
  IF inode <= InodesLoaded
  THEN /\ inodeTable' = [inodeTable EXCEPT ![inode] = value]
       /\ UNCHANGED tempStructs
  ELSE /\ tempStructs' = [tempStructs EXCEPT ![inode] = value]
       /\ UNCHANGED inodeTable

\* Mutant: the table is not written back.
writeInodeEntry_NotWritten ==
  /\ Creates("table")
  /\ UNCHANGED <<inodeTable, tempStructs>>
  /\ operation' = [operation EXCEPT !.phase = "directory"]
  /\ UNCHANGED <<blockUsage, inodeUsage, directory, content, deleted>>

writeInodeEntry ==
  /\ Creates("table")
  /\ LET got == operation.got
         n == operation.total
     IN StoreInode(operation.inode,
          [direct |-> SubSeq(got, 1, IF n > Direct THEN Direct ELSE n),
           indirect |-> IF n > Direct THEN got[Direct + 1] ELSE 0,
           size |-> n])
  /\ operation' = [operation EXCEPT !.phase = "directory"]
  /\ UNCHANGED <<blockUsage, inodeUsage, directory, content, deleted>>

\* The last write of createFile: the directory's block.
WriteDirectory ==
  /\ Creates("directory")
  /\ directory' = [directory EXCEPT ![operation.dir] =
                     Appended(operation.dir, operation.inode, operation.name)]
  /\ operation' = Idle
  /\ UNCHANGED <<blockUsage, inodeUsage, inodeTable, tempStructs, content, deleted>>

-----------------------------------------------------------------------------
(* deleteFile and moveFile *)

\* Up to the write of the table.  Neither map is changed.
deleteFile(d, name) ==
  /\ operation = Idle
  /\ Matches(d, name) # {}
  /\ LET inode == returnInodeofFileName(name, d)
     IN /\ StoreInode(inode, ZeroInode)
        /\ deleted' = deleted \cup {inode}
        /\ operation' = [kind |-> "delete", dir |-> d, name |-> name, inode |-> inode]
  /\ UNCHANGED <<blockUsage, inodeUsage, directory, content>>

\* Mutant: the old name goes first.
moveFile_RemovesFirst(source, destination, name) ==
  /\ operation = Idle
  /\ Matches(source, name) # {}
  /\ Fits(destination, name)
  /\ LET inode == returnInodeofFileName(name, source)
     IN /\ directory' = [directory EXCEPT ![source] = Removed(source, inode)]
        /\ operation' = Idle
  /\ UNCHANGED <<blockUsage, inodeUsage, inodeTable, tempStructs, content, deleted>>

\* Up to the write of the destination's block.
moveFile(source, destination, name) ==
  /\ operation = Idle
  /\ Matches(source, name) # {}
  /\ Fits(destination, name)
  /\ LET inode == returnInodeofFileName(name, source)
     IN /\ directory' = [directory EXCEPT ![destination] =
                           Appended(destination, inode, name)]
        /\ operation' = [kind |-> "move", dir |-> source, name |-> name,
                         inode |-> inode]
  /\ UNCHANGED <<blockUsage, inodeUsage, inodeTable, tempStructs, content, deleted>>

\* The last write of both.
deleteDirectoryEntry ==
  /\ operation.kind \in {"delete", "move"}
  /\ LET d == operation.dir
     IN directory' = [directory EXCEPT ![d] =
                        Removed(d, returnInodeofFileName(operation.name, d))]
  /\ operation' = Idle
  /\ UNCHANGED <<blockUsage, inodeUsage, inodeTable, tempStructs, content, deleted>>

\* External: the disk keeps what was written; memory is zero after the boot.
PowerLoss ==
  /\ operation' = Idle
  /\ tempStructs' = [i \in Inode |-> ZeroInode]
  /\ UNCHANGED <<disk, deleted>>

Next ==
  \/ \E d \in Dir, name \in Name :
       \/ \E blocks \in BufferBlocks : createFile(d, name, blocks)
       \/ deleteFile(d, name)
       \/ \E destination \in Dir : moveFile(d, destination, name)
  \/ allocateFreeBlock
  \/ WriteData
  \/ WritePointers
  \/ writeInodeEntry
  \/ WriteDirectory
  \/ deleteDirectoryEntry
  \/ PowerLoss

Spec == Init /\ [][Next]_vars

-----------------------------------------------------------------------------
(* Properties *)

InodeValue == [direct : Seq(Block), indirect : Block, size : Nat]

\* The types of all the state.
TypeOK ==
  /\ blockUsage \subseteq Block \ {0}
  /\ inodeUsage \subseteq Inode
  /\ inodeTable \in [Inode -> InodeValue]
  /\ tempStructs \in [Inode -> InodeValue]
  /\ \A d \in Dir : \A j \in DOMAIN directory[d] :
       directory[d][j].inode \in Inode /\ directory[d][j].recLength \in Nat \ {0}
  /\ \A b \in Block : content[b].pointers \in Seq(Block)
  /\ operation.kind \in {"idle", "create", "delete", "move"}
  /\ operation.kind = "create" => Len(operation.got) <= operation.total
  /\ deleted \subseteq inodeUsage

\* Where a scan that steps from record to record stands behind record j.
Offset(records) ==
  LET offset[j \in 0 .. Len(records)] ==
        IF j = 0 THEN 0 ELSE offset[j - 1] + records[j].recLength
  IN offset

\* The records of a directory cover its block exactly and each has room for
\* its name, after any order of creates, deletes and moves: the scans of
\* fs.cpp, which step from record to record, see every file.
DirectoryIsCovered ==
  \A d \in Dir :
    /\ Offset(directory[d])[Len(directory[d])] = DirectorySize
    /\ \A j \in DOMAIN directory[d] :
         directory[d][j].recLength >= RecordSize(directory[d][j].name)

\* The blocks the table refers to, with their place in the file.
BlockAt(i, k) ==
  LET value == inodeTable[i]
  IN IF k < Len(value.direct) THEN value.direct[k + 1]
     ELSE IF k = Direct THEN value.indirect
     ELSE content[value.indirect].pointers[k - Direct]

References(i) ==
  LET value == inodeTable[i]
  IN { k \in 0 .. Direct + Len(content[value.indirect].pointers) :
         /\ (k < Len(value.direct) \/ (k >= Direct /\ value.indirect # 0))
         /\ BlockAt(i, k) # 0 }

\* No block belongs to two files or to two places of one, and every block of a
\* file is marked, also after a power loss between any two writes: the map is
\* on the disk before the block is used.
BlocksAreOwned ==
  \A i \in Inode : \A k \in References(i) :
    /\ BlockAt(i, k) \in blockUsage \ (1 .. UsedBlocks)
    /\ \A j \in Inode : \A m \in References(j) :
         BlockAt(j, m) = BlockAt(i, k) => i = j /\ k = m

Named(i) == \E d \in Dir : \E j \in DOMAIN directory[d] : directory[d][j].inode = i

\* A name never stands on the disk before its inode does: whatever write the
\* power fails after, a name means a file that was written or one that was
\* being deleted.
NameHasInode ==
  \A i \in 1 .. InodesLoaded :
    Named(i) /\ i \notin Dir /\ i \notin deleted => inodeTable[i] # ZeroInode

\* What createFile wrote stays as long as the file is there: later creates and
\* deletes, also those a power loss cuts off, take none of its direct blocks.
DirectBlocksIntact ==
  \A i \in 1 .. InodesLoaded :
    Named(i) => \A k \in 0 .. Len(inodeTable[i].direct) - 1 :
      inodeTable[i].direct[k + 1] # 0 =>
        content[inodeTable[i].direct[k + 1]] = DataBlock(i, k)

\* A file loses its last name in nothing but its own deletion: a move that a
\* power loss cuts off leaves it two names, never none.
OnlyDeleteUnnames ==
  [][\A i \in Inode : Named(i) /\ ~Named(i)' =>
       operation.kind = "delete" /\ operation.inode = i]_vars

\* External: the block loadFileFromInodeStruct reads for part k of a file.
FileBlock(i, k) ==
  IF k < Direct THEN inodeTable[i].direct[k + 1]
  ELSE LET pointers == content[inodeTable[i].indirect].pointers
       IN IF k - Direct < Len(pointers) THEN pointers[k - Direct + 1] ELSE 0

\* fs.h:265, writeBufferToDisk: "Given a file name and inode entry, writes the
\* buffer to disk": every part of a file of i_size can be read back.
WritesWholeBuffer ==
  \A i \in 1 .. InodesLoaded : Named(i) =>
    \A k \in 0 .. inodeTable[i].size - 1 : content[FileBlock(i, k)] = DataBlock(i, k)
=============================================================================
