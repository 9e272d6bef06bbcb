---------------------------- MODULE OpenObjects ----------------------------
(***************************************************************************)
(* The global object table of file.cpp, the file descriptors of the        *)
(* processes, and named pipes: sysOpen, sysOpenEmpty, sysCreatePipe,       *)
(* sysCreateNetworkPipe, sysOpenPipe, sysRead and sysWrite.                *)
(*                                                                         *)
(* System calls run with interrupts off on one processor, so a call is one *)
(* step and processes interleave between calls.  Calls that fail before    *)
(* they reach the table (no such file, no page, no descriptor) change      *)
(* nothing here.  A pipe carries whole blocks of PIPE_BUF_SIZE bytes; a    *)
(* block is a value of Data.  What sockets carry is left out.              *)
(*                                                                         *)
(* sysClose is left to the student ("ASSIGNMENT 4 TO DO"); it is modelled  *)
(* after closeAllFiles.  The shipped one does nothing, so Spec has no      *)
(* close and ClosingSpec has.                                              *)
(***************************************************************************)
EXTENDS Integers, Scan

CONSTANTS
  MAX_SYSTEM_OPEN_FILES,  \* entries of the table (0x40)
  MAX_FILE_DESCRIPTORS,   \* descriptors of a process (0xF)
  Pid,                    \* processes
  Inode,                  \* inodes of the files there are
  Name,                   \* names of pipes
  NoName,
  Data,                   \* contents of a block
  Zero                    \* the block fillMemory leaves

Empty == "empty"          \* no block (PipeBuffer)

ASSUME ObjectAssumption ==
  /\ MAX_SYSTEM_OPEN_FILES \in Nat /\ MAX_SYSTEM_OPEN_FILES > 3
  /\ MAX_FILE_DESCRIPTORS \in Nat /\ MAX_FILE_DESCRIPTORS > 3
  /\ Pid \subseteq 1 .. 254
  /\ Inode \subseteq Nat \ {0}
  /\ NoName \notin Name
  /\ Zero \in Data
  /\ Empty \notin Data

KERNEL_OWNED == 255
FULL == 1023              \* PIPE_BUF_SIZE - 1

Entry == 0 .. MAX_SYSTEM_OPEN_FILES - 1

\* The last one is past the end of the array: it is the field binaryName.
Fd == 0 .. MAX_FILE_DESCRIPTORS

\* Blocks of the kernel heap that pipes use, and the one all sockets use.
KernelBuffer == 1 .. MAX_SYSTEM_OPEN_FILES
NETWORK_INCOMING_PAYLOAD_BUFFER == MAX_SYSTEM_OPEN_FILES + 1

NoEntry == -1

VARIABLES
  objects,        \* GLOBAL_OBJECT_TABLE
  fileDescriptor, \* fileDescriptor[] of each task, entry numbers
  nextAvailableFileDescriptor,
  userspaceBuffer,  \* the block at an entry's userspaceBuffer
  delivered,        \* history: that block was put there by sysRead
  kernelBuffer,     \* the block at a kernelSpaceBuffer
  panicked

vars == <<objects, fileDescriptor, nextAvailableFileDescriptor,
          userspaceBuffer, delivered, kernelBuffer, panicked>>

Object ==
  [openedByPid : {0, KERNEL_OWNED} \cup Pid,
   inode : {0} \cup Inode,
   type : {"none", "BUFFER", "FILE", "PIPE", "SOCKET"},
   kernelSpaceBuffer : {0, NETWORK_INCOMING_PAYLOAD_BUFFER} \cup KernelBuffer,
   name : {NoName} \cup Name,
   writeOffset : {0, FULL},
   lockedForWriting : {0} \cup Pid]

ZeroObject ==
  [openedByPid |-> 0, inode |-> 0, type |-> "none", kernelSpaceBuffer |-> 0,
   name |-> NoName, writeOffset |-> 0, lockedForWriting |-> 0]

\* createOpenFileTable: STDIN, STDOUT and STDERR; initializeTask gives them to
\* every process.
Init ==
  /\ objects = [e \in Entry |->
       IF e \in 0 .. 2
       THEN [ZeroObject EXCEPT !.openedByPid = KERNEL_OWNED, !.type = "BUFFER"]
       ELSE ZeroObject]
  /\ fileDescriptor = [p \in Pid |-> [fd \in Fd |-> IF fd \in 0 .. 2 THEN fd
                                                                    ELSE NoEntry]]
  /\ nextAvailableFileDescriptor = [p \in Pid |-> 3]
  /\ userspaceBuffer = [e \in Entry |-> Zero]
  /\ delivered = [e \in Entry |-> FALSE]
  /\ kernelBuffer = [b \in KernelBuffer |-> Zero]
  /\ panicked = FALSE

-----------------------------------------------------------------------------
(* insertGlobalObjectTableEntry *)

FreeEntries == { e \in Entry : objects[e].openedByPid = 0 }

\* The scan panics when it looks at the last entry, free or not.
TableFull == \A e \in FreeEntries : e = MAX_SYSTEM_OPEN_FILES - 1

NewEntry == FirstOf(FreeEntries)

Panic ==
  /\ panicked' = TRUE
  /\ UNCHANGED <<objects, fileDescriptor, nextAvailableFileDescriptor,
                 userspaceBuffer, delivered, kernelBuffer>>

\* The new object is in the table, its block zeroed and its descriptor set;
\* only sysOpenEmpty does not move nextAvailableFileDescriptor.
Opened(p, table, moves) ==
  /\ objects' = table
  /\ userspaceBuffer' = [userspaceBuffer EXCEPT ![NewEntry] = Zero]
  /\ delivered' = [delivered EXCEPT ![NewEntry] = FALSE]
  /\ LET fd == nextAvailableFileDescriptor[p]
     IN /\ fileDescriptor' = [fileDescriptor EXCEPT ![p][fd] = NewEntry]
        /\ nextAvailableFileDescriptor' =
             [nextAvailableFileDescriptor EXCEPT ![p] = fd + moves]
  /\ UNCHANGED <<kernelBuffer, panicked>>

Inserted(object) == [objects EXCEPT ![NewEntry] = object]

\* The check of sysOpen and sysOpenEmpty.
FdLeft(p) ==
  /\ ~panicked
  /\ nextAvailableFileDescriptor[p] < MAX_FILE_DESCRIPTORS

\* Bound of the model, not of the code: at most one descriptor past the end.
FdCapped(p) ==
  /\ ~panicked
  /\ nextAvailableFileDescriptor[p] <= MAX_FILE_DESCRIPTORS

-----------------------------------------------------------------------------
(* Files *)

\* Mutant: the first scan is left out.
lockFile_NoScan(table, pid, inode) ==
  LET own == { e \in Entry : /\ table[e].inode = inode
                             /\ table[e].openedByPid = pid }
  IN IF own = {}
     THEN table
     ELSE [table EXCEPT ![FirstOf(own)].lockedForWriting = pid]

lockFile(table, pid, inode) ==
  LET own == { e \in Entry : /\ table[e].inode = inode
                             /\ table[e].openedByPid = pid }
  IN IF \/ \E e \in Entry : table[e].inode = inode /\ table[e].lockedForWriting # 0
        \/ own = {}
     THEN table
     ELSE [table EXCEPT ![FirstOf(own)].lockedForWriting = pid]

\* A file that is locked is opened all the same: sysOpen only prints.
sysOpen(p, inode, permissions) ==
  /\ FdLeft(p)
  /\ LET table == Inserted([ZeroObject EXCEPT !.openedByPid = p, !.inode = inode,
                              !.type = "FILE"])
     IN IF TableFull THEN Panic
        ELSE Opened(p, IF permissions = "RDWRITE" THEN lockFile(table, p, inode)
                                                  ELSE table, 1)

sysOpenEmpty(p) ==
  /\ FdLeft(p)
  /\ IF TableFull THEN Panic
     ELSE Opened(p, Inserted([ZeroObject EXCEPT !.openedByPid = p,
                                                !.type = "FILE"]), 0)

-----------------------------------------------------------------------------
(* Pipes and sockets *)

\* kMalloc gives a pipe the first block of the heap that no pipe has.
NewKernelBuffer ==
  FirstOf({ b \in KernelBuffer : \A e \in Entry : objects[e].kernelSpaceBuffer # b })

sysCreatePipe(p, name) ==
  /\ FdCapped(p)
  /\ IF TableFull THEN Panic
     ELSE Opened(p, Inserted([ZeroObject EXCEPT !.openedByPid = p, !.type = "PIPE",
                       !.kernelSpaceBuffer = NewKernelBuffer, !.name = name,
                       !.lockedForWriting = p]), 1)

sysCreateNetworkPipe(p) ==
  /\ FdCapped(p)
  /\ IF TableFull THEN Panic
     ELSE Opened(p, Inserted([ZeroObject EXCEPT !.openedByPid = p, !.type = "SOCKET",
                       !.kernelSpaceBuffer = NETWORK_INCOMING_PAYLOAD_BUFFER,
                       !.lockedForWriting = p]), 1)

Pipes(name) == { e \in Entry : objects[e].type = "PIPE" /\ objects[e].name = name }

\* Mutant: the descriptor is not moved on.
sysOpenPipe_NotMoved(p, name) ==
  /\ FdCapped(p)
  /\ Pipes(name) # {}
  /\ IF TableFull THEN Panic
     ELSE LET found == FirstOf(Pipes(name))
          IN Opened(p, Inserted([ZeroObject EXCEPT !.openedByPid = p, !.type = "PIPE",
                         !.kernelSpaceBuffer = objects[found].kernelSpaceBuffer,
                         !.name = name]), 0)

sysOpenPipe(p, name) ==
  /\ FdCapped(p)
  /\ Pipes(name) # {}
  /\ IF TableFull THEN Panic
     ELSE LET found == FirstOf(Pipes(name))
          IN Opened(p, Inserted([ZeroObject EXCEPT !.openedByPid = p, !.type = "PIPE",
                         !.kernelSpaceBuffer = objects[found].kernelSpaceBuffer,
                         !.name = name]), 1)

\* The descriptors of a process that are pipes.
IsPipe(p, fd) ==
  /\ ~panicked
  /\ fileDescriptor[p][fd] # NoEntry
  /\ objects[fileDescriptor[p][fd]].type = "PIPE"

\* The process stores into the block of a pipe it has open.
UserStore(p, fd, data) ==
  /\ IsPipe(p, fd)
  /\ userspaceBuffer' = [userspaceBuffer EXCEPT ![fileDescriptor[p][fd]] = data]
  /\ delivered' = [delivered EXCEPT ![fileDescriptor[p][fd]] = FALSE]
  /\ UNCHANGED <<objects, fileDescriptor, nextAvailableFileDescriptor,
                 kernelBuffer, panicked>>

\* Mutant: the offset is set to PIPE_BUF_SIZE.
sysWrite_OffByOne(p, fd) ==
  LET own == fileDescriptor[p][fd]
  IN /\ IsPipe(p, fd)
     /\ objects[own].writeOffset # FULL
     /\ kernelBuffer' = [kernelBuffer EXCEPT
                           ![objects[own].kernelSpaceBuffer] = userspaceBuffer[own]]
     /\ objects' = [objects EXCEPT ![own].writeOffset = FULL + 1]
     /\ UNCHANGED <<fileDescriptor, nextAvailableFileDescriptor, userspaceBuffer,
                    delivered, panicked>>

\* A full pipe refuses the write.
sysWrite(p, fd) ==
  LET own == fileDescriptor[p][fd]
  IN /\ IsPipe(p, fd)
     /\ objects[own].writeOffset # FULL
     /\ kernelBuffer' = [kernelBuffer EXCEPT
                           ![objects[own].kernelSpaceBuffer] = userspaceBuffer[own]]
     /\ objects' = [objects EXCEPT ![own].writeOffset = FULL]
     /\ UNCHANGED <<fileDescriptor, nextAvailableFileDescriptor, userspaceBuffer,
                    delivered, panicked>>

\* Mutant: the scan does not stop at the first.
Writer_Last(e) ==
  CHOOSE w \in Entry :
    /\ objects[w].kernelSpaceBuffer = objects[e].kernelSpaceBuffer
    /\ \A v \in Entry :
         objects[v].kernelSpaceBuffer = objects[e].kernelSpaceBuffer => v <= w

\* sysRead takes the first entry with the same kernel buffer for the writer.
Writer(e) ==
  FirstOf({ w \in Entry :
              objects[w].kernelSpaceBuffer = objects[e].kernelSpaceBuffer })

\* Mutant: the reader's own entry is emptied, the writer's is not.
sysRead_OwnOnly(p, fd) ==
  LET own == fileDescriptor[p][fd]
  IN /\ IsPipe(p, fd)
     /\ objects[Writer(own)].writeOffset # 0
     /\ userspaceBuffer' = [userspaceBuffer EXCEPT
                              ![own] = kernelBuffer[objects[own].kernelSpaceBuffer]]
     /\ delivered' = [delivered EXCEPT ![own] = TRUE]
     /\ objects' = [objects EXCEPT ![own].writeOffset = 0]
     /\ UNCHANGED <<fileDescriptor, nextAvailableFileDescriptor, kernelBuffer,
                    panicked>>

\* An empty pipe refuses the read.
sysRead(p, fd) ==
  LET own == fileDescriptor[p][fd]
  IN /\ IsPipe(p, fd)
     /\ objects[Writer(own)].writeOffset # 0
     /\ userspaceBuffer' = [userspaceBuffer EXCEPT
                              ![own] = kernelBuffer[objects[own].kernelSpaceBuffer]]
     /\ delivered' = [delivered EXCEPT ![own] = TRUE]
     /\ objects' = [[objects EXCEPT ![own].writeOffset = FULL]
                      EXCEPT ![Writer(own)].writeOffset = 0]
     /\ UNCHANGED <<fileDescriptor, nextAvailableFileDescriptor, kernelBuffer,
                    panicked>>

\* External: sysClose(fileDescriptor, currentPid).
sysClose(p, fd) ==
  /\ ~panicked
  /\ fileDescriptor[p][fd] \notin {NoEntry, 0, 1, 2}
  /\ objects' = [objects EXCEPT ![fileDescriptor[p][fd]] = ZeroObject]
  /\ fileDescriptor' = [fileDescriptor EXCEPT ![p][fd] = NoEntry]
  /\ UNCHANGED <<nextAvailableFileDescriptor, userspaceBuffer, delivered,
                 kernelBuffer, panicked>>

-----------------------------------------------------------------------------
\* The shipped kernel.
Next ==
  \E p \in Pid :
    \/ \E inode \in Inode, permissions \in {"RDONLY", "RDWRITE"} :
         sysOpen(p, inode, permissions)
    \/ sysOpenEmpty(p)
    \/ \E name \in Name : sysCreatePipe(p, name) \/ sysOpenPipe(p, name)
    \/ sysCreateNetworkPipe(p)
    \/ \E fd \in Fd :
         \/ \E data \in Data : UserStore(p, fd, data)
         \/ sysWrite(p, fd)
         \/ sysRead(p, fd)

Spec == Init /\ [][Next]_vars

\* With the close of the assignment.
ClosingSpec == Init /\ [][Next \/ \E p \in Pid, fd \in Fd : sysClose(p, fd)]_vars

\* An entry sysCreatePipe or sysCreateNetworkPipe made, or a locked file's.
Creator(e) == objects[e].lockedForWriting # 0

\* The users keep the roles that the check in syscalls.cpp:186-193, which is
\* commented out, would enforce: only the creator's entry is written.
RolesNext ==
  \E p \in Pid :
    \/ \E name \in Name : sysCreatePipe(p, name) \/ sysOpenPipe(p, name)
    \/ \E fd \in Fd :
         \/ \E data \in Data : UserStore(p, fd, data)
         \/ sysWrite(p, fd) /\ Creator(fileDescriptor[p][fd])
         \/ sysRead(p, fd)

RolesSpec == Init /\ [][RolesNext]_vars

-----------------------------------------------------------------------------
(* Properties *)

\* The types of all the state.
TypeOK ==
  /\ objects \in [Entry -> Object]
  /\ fileDescriptor \in [Pid -> [Fd -> {NoEntry} \cup Entry]]
  /\ nextAvailableFileDescriptor \in [Pid -> 3 .. MAX_FILE_DESCRIPTORS + 1]
  /\ userspaceBuffer \in [Entry -> Data]
  /\ delivered \in [Entry -> BOOLEAN]
  /\ kernelBuffer \in [KernelBuffer -> Data]
  /\ panicked \in BOOLEAN

\* Whatever order processes open a file in, at most one entry of an inode is
\* locked: lockFile looks at every entry of the inode, not only at its own.
OneLockPerInode ==
  \A e, f \in Entry :
    /\ objects[e].inode # 0 /\ objects[e].inode = objects[f].inode
    /\ objects[e].lockedForWriting # 0 /\ objects[f].lockedForWriting # 0
    => e = f

\* An open object can be reached from a descriptor of the process that opened
\* it, so it can be read, written and closed.  The objects of sysOpenEmpty are
\* excepted: their descriptor is given out again.
Reachable ==
  \A e \in Entry :
    /\ objects[e].openedByPid \in Pid
    /\ objects[e].type # "FILE" \/ objects[e].inode # 0
    => \E fd \in Fd : fileDescriptor[objects[e].openedByPid][fd] = e

\* The entry sysRead takes for the writer is the one sysCreatePipe made,
\* however many processes open the pipe and in whatever order.
WriterIsCreator ==
  \A e \in Entry : objects[e].type = "PIPE" => Creator(Writer(e))

\* The block that waits in a pipe, as the creator's writeOffset tells it.
Unread(b) ==
  IF \E e \in Entry : /\ objects[e].kernelSpaceBuffer = b
                      /\ Creator(e) /\ objects[e].writeOffset = FULL
  THEN kernelBuffer[b] ELSE Empty

Pipe == INSTANCE PipeBuffer WITH
          Descriptor <- Entry, Pipe <- KernelBuffer,
          block <- userspaceBuffer, unread <- [b \in KernelBuffer |-> Unread(b)]

\* With one side writing, a named pipe delivers every block exactly once, to
\* one of the processes that have it open.
ImplementsPipeBuffer == Pipe!Spec
=============================================================================
