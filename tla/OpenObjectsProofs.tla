-------------------------- MODULE OpenObjectsProofs --------------------------
(***************************************************************************)
(* Proofs about the open object table: the types, one lock per inode and   *)
(* reachable objects for the kernel with and without a close; that the     *)
(* entry sysRead takes for the writer is the creator's, and that a named   *)
(* pipe implements PipeBuffer, when its users keep the roles.              *)
(***************************************************************************)
EXTENDS OpenObjects, ScanProofs

CloseAny == \E p \in Pid, fd \in Fd : sysClose(p, fd)

\* A free entry is zero, and the entries with a kernel buffer are the pipes.
ObjectKinds ==
  \A e \in Entry :
    /\ objects[e].openedByPid = 0 => objects[e] = ZeroObject
    /\ objects[e].type = "PIPE" <=> objects[e].kernelSpaceBuffer \in KernelBuffer

\* Only the three standard entries are the kernel's.
StandardEntries ==
  \A e \in Entry : objects[e].openedByPid = KERNEL_OWNED <=> e \in 0 .. 2

\* A descriptor refers to an entry its own process opened, no other descriptor
\* refers to it, and the descriptors that will be given out are free or hold
\* what sysOpenEmpty left there.
Descriptors ==
  \A p \in Pid, fd \in Fd :
    fileDescriptor[p][fd] \notin {NoEntry, 0, 1, 2} =>
      /\ objects[fileDescriptor[p][fd]].openedByPid = p
      /\ \A g \in Fd : fileDescriptor[p][g] = fileDescriptor[p][fd] => g = fd
      /\ fd >= nextAvailableFileDescriptor[p] =>
           /\ objects[fileDescriptor[p][fd]].type = "FILE"
           /\ objects[fileDescriptor[p][fd]].inode = 0

TableInv ==
  TypeOK /\ ObjectKinds /\ StandardEntries /\ Descriptors /\ Reachable

-----------------------------------------------------------------------------
(* What the scans of an open return *)

\* When the scan does not panic, the entry it returns is free, and the first
\* that is.
LEMMA EntryIsFree ==
  ASSUME ~TableFull
  PROVE  /\ NewEntry \in Entry
         /\ objects[NewEntry].openedByPid = 0
         /\ \A e \in Entry : objects[e].openedByPid = 0 => NewEntry <= e
<1>1. FreeEntries \in SUBSET Nat /\ FreeEntries # {}
  BY ObjectAssumption DEF TableFull, FreeEntries, Entry
<1> QED
  BY <1>1, FirstOfIsFirst DEF NewEntry, FreeEntries

\* kMalloc finds a block for a new pipe: there are as many blocks as entries,
\* and the entry the pipe will use has none.
LEMMA BufferIsFree ==
  ASSUME ObjectKinds, ~TableFull
  PROVE  /\ NewKernelBuffer \in KernelBuffer
         /\ \A e \in Entry : objects[e].kernelSpaceBuffer # NewKernelBuffer
<1> DEFINE Unused == { b \in KernelBuffer :
                         \A e \in Entry : objects[e].kernelSpaceBuffer # b }
           Other == Entry \ {NewEntry}
           bufferOf == [e \in Other |-> objects[e].kernelSpaceBuffer]
           Held == { objects[e].kernelSpaceBuffer : e \in Other }
<1>1. IsFiniteSet(Entry) /\ Cardinality(Entry) = MAX_SYSTEM_OPEN_FILES
  BY ObjectAssumption, FS_Interval DEF Entry
<1>2. IsFiniteSet(KernelBuffer) /\ Cardinality(KernelBuffer) = MAX_SYSTEM_OPEN_FILES
  BY ObjectAssumption, FS_Interval DEF KernelBuffer
<1>3. IsFiniteSet(Other) /\ Cardinality(Other) = MAX_SYSTEM_OPEN_FILES - 1
  BY <1>1, EntryIsFree, FS_RemoveElement
<1>4. IsFiniteSet(Held) /\ Cardinality(Held) <= MAX_SYSTEM_OPEN_FILES - 1
  <2>1. bufferOf \in Surjection(Other, Held)
    BY DEF Surjection
  <2> HIDE DEF bufferOf, Other, Held
  <2> QED
    BY <1>3, <2>1, FS_Surjection
<1>5. objects[NewEntry].kernelSpaceBuffer \notin KernelBuffer
  BY EntryIsFree DEF ObjectKinds, ZeroObject, KernelBuffer
<1>6. ASSUME Unused = {}
      PROVE  FALSE
  <2>1. KernelBuffer \subseteq Held
    BY <1>5, <1>6
  <2> QED
    BY <1>2, <1>4, <2>1, FS_Subset, FS_CardinalityType, ObjectAssumption
<1>7. Unused \in SUBSET Nat
  BY DEF KernelBuffer
<1>8. FirstOf(Unused) \in Unused
  BY <1>6, <1>7, FirstOfIsFirst
<1> QED
  BY <1>8 DEF NewKernelBuffer

\* sysRead finds a writer for every pipe, and it is a pipe.
LEMMA WriterIsPipe ==
  ASSUME NEW e \in Entry, ObjectKinds, objects[e].type = "PIPE"
  PROVE  /\ Writer(e) \in Entry
         /\ objects[Writer(e)].kernelSpaceBuffer = objects[e].kernelSpaceBuffer
         /\ objects[Writer(e)].type = "PIPE"
         /\ \A v \in Entry : objects[v].kernelSpaceBuffer = objects[e].kernelSpaceBuffer
              => Writer(e) <= v
<1> DEFINE same == { w \in Entry :
                       objects[w].kernelSpaceBuffer = objects[e].kernelSpaceBuffer }
<1>1. same \in SUBSET Nat /\ e \in same
  BY ObjectAssumption DEF Entry
<1>2. FirstOf(same) \in same /\ \A v \in same : FirstOf(same) <= v
  BY <1>1, FirstOfIsFirst
<1> QED
  BY <1>2 DEF Writer, ObjectKinds

\* At most one entry of an inode is locked, in this table.
OneLock(table) ==
  \A e, f \in Entry :
    /\ table[e].inode # 0 /\ table[e].inode = table[f].inode
    /\ table[e].lockedForWriting # 0 /\ table[f].lockedForWriting # 0
    => e = f

\* lockFile changes one entry's lock at most, one of this process, and when it
\* does, no entry of the inode was locked.
LEMMA Locking ==
  ASSUME NEW table \in [Entry -> Object], NEW pid \in Pid, NEW inode \in Inode
  PROVE  \/ lockFile(table, pid, inode) = table
         \/ \E l \in Entry :
              /\ lockFile(table, pid, inode) = [table EXCEPT ![l].lockedForWriting = pid]
              /\ table[l].openedByPid = pid
              /\ table[l].inode = inode
              /\ \A e \in Entry : table[e].inode = inode => table[e].lockedForWriting = 0
<1> DEFINE own == { e \in Entry : /\ table[e].inode = inode
                                  /\ table[e].openedByPid = pid }
<1>1. CASE \/ \E e \in Entry : table[e].inode = inode /\ table[e].lockedForWriting # 0
           \/ own = {}
  BY <1>1 DEF lockFile
<1>2. CASE ~ \/ \E e \in Entry : table[e].inode = inode /\ table[e].lockedForWriting # 0
             \/ own = {}
  <2>1. own \in SUBSET Nat /\ own # {}
    BY <1>2, ObjectAssumption DEF Entry
  <2>2. FirstOf(own) \in own
    BY <2>1, FirstOfIsFirst
  <2>3. lockFile(table, pid, inode) = [table EXCEPT ![FirstOf(own)].lockedForWriting = pid]
    BY <1>2 DEF lockFile
  <2> QED
    BY <1>2, <2>2, <2>3
<1> QED
  BY <1>1, <1>2

-----------------------------------------------------------------------------
(* What a step does to the table *)

\* The table an open makes: the entry is the process's, a pipe exactly when it
\* has a block, and empty; of the others at most a lock of the process's own is
\* new, and it is the only one of its inode.
NewTable(p, table) ==
  /\ table \in [Entry -> Object]
  /\ table[NewEntry].openedByPid = p
  /\ table[NewEntry].type = "PIPE" <=> table[NewEntry].kernelSpaceBuffer \in KernelBuffer
  /\ \A e \in Entry \ {NewEntry} :
       \/ table[e] = objects[e]
       \/ /\ objects[e].openedByPid = p
          /\ table[e] = [objects[e] EXCEPT !.lockedForWriting = p]
  /\ OneLock(objects) => OneLock(table)

\* An open that succeeds; sysOpenEmpty is the one that does not move on.
Opens(p, table, moves) ==
  /\ ~panicked /\ ~TableFull
  /\ nextAvailableFileDescriptor[p] <= MAX_FILE_DESCRIPTORS
  /\ moves \in {0, 1}
  /\ moves = 0 => table[NewEntry].type = "FILE" /\ table[NewEntry].inode = 0
  /\ NewTable(p, table)
  /\ Opened(p, table, moves)

\* What UserStore, sysWrite and sysRead change: blocks, and offsets of pipes.
Transfers ==
  /\ objects' \in [Entry -> Object]
  /\ \A e \in Entry :
       /\ objects'[e] = [objects[e] EXCEPT !.writeOffset = objects'[e].writeOffset]
       /\ objects'[e] = objects[e] \/ objects[e].type = "PIPE"
  /\ userspaceBuffer' \in [Entry -> Data]
  /\ delivered' \in [Entry -> BOOLEAN]
  /\ kernelBuffer' \in [KernelBuffer -> Data]
  /\ UNCHANGED <<fileDescriptor, nextAvailableFileDescriptor, panicked>>

\* An entry put into the table makes a NewTable, when it is no locked file.
LEMMA InsertedTable ==
  ASSUME TypeOK, ~TableFull, NEW p \in Pid, NEW object \in Object,
         object.openedByPid = p,
         object.type = "PIPE" <=> object.kernelSpaceBuffer \in KernelBuffer,
         object.inode = 0 \/ object.lockedForWriting = 0
  PROVE  NewTable(p, Inserted(object)) /\ Inserted(object)[NewEntry] = object
<1>1. NewEntry \in Entry
  BY EntryIsFree
<1>2. Inserted(object) \in [Entry -> Object]
  BY <1>1 DEF Inserted, TypeOK
<1>3. /\ Inserted(object)[NewEntry] = object
      /\ \A e \in Entry \ {NewEntry} : Inserted(object)[e] = objects[e]
  BY <1>1 DEF Inserted, TypeOK
<1>4. OneLock(objects) => OneLock(Inserted(object))
  BY <1>1, <1>3 DEF OneLock
<1> QED
  BY <1>2, <1>3, <1>4 DEF NewTable

\* The object of a free entry.
LEMMA ZeroObjectIsObject ==
  /\ ZeroObject \in Object
  /\ ZeroObject.openedByPid = 0 /\ ZeroObject.inode = 0
  /\ ZeroObject.lockedForWriting = 0 /\ ZeroObject.kernelSpaceBuffer = 0
  /\ ZeroObject.type = "none" /\ ZeroObject.writeOffset = 0
  /\ ZeroObject.kernelSpaceBuffer \notin KernelBuffer
BY DEF ZeroObject, Object, KernelBuffer

\* sysOpen, locking or not, is an open.
LEMMA OpenOpens ==
  ASSUME TypeOK, ObjectKinds, NEW p \in Pid, ~TableFull,
         NEW inode \in Inode, NEW permissions, sysOpen(p, inode, permissions)
  PROVE  \E table, moves : Opens(p, table, moves)
<1> DEFINE object == [ZeroObject EXCEPT !.openedByPid = p, !.inode = inode, !.type = "FILE"]
           table == Inserted(object)
           locked == lockFile(table, p, inode)
<1>1. object \in Object /\ object.openedByPid = p /\ object.inode = inode
      /\ object.type = "FILE" /\ object.lockedForWriting = 0
      /\ object.kernelSpaceBuffer \notin KernelBuffer
  <2>1. ZeroObject \in Object
    BY ZeroObjectIsObject
  <2>2. object \in Object
    BY <2>1 DEF Object
  <2>3. /\ object.openedByPid = p /\ object.inode = inode /\ object.type = "FILE"
        /\ object.lockedForWriting = ZeroObject.lockedForWriting
        /\ object.kernelSpaceBuffer = ZeroObject.kernelSpaceBuffer
    BY <2>1 DEF Object
  <2> HIDE DEF object
  <2> QED
    BY <2>2, <2>3, ZeroObjectIsObject
<1>2. NewTable(p, table) /\ table[NewEntry] = object
  <2> HIDE DEF object
  <2> QED
    BY <1>1, InsertedTable
<1>3. NewTable(p, locked)
  <2> HIDE DEF table
  <2>1. CASE locked = table
    BY <2>1, <1>2
  <2>2. ASSUME NEW l \in Entry,
               locked = [table EXCEPT ![l].lockedForWriting = p],
               table[l].openedByPid = p, table[l].inode = inode,
               \A e \in Entry : table[e].inode = inode => table[e].lockedForWriting = 0
        PROVE  NewTable(p, locked)
    <3> HIDE DEF object, locked
    <3>1. table \in [Entry -> Object]
      BY <1>2 DEF NewTable
    <3>2. locked \in [Entry -> Object]
      BY <2>2, <3>1 DEF Object
    <3>3. /\ locked[l] = [table[l] EXCEPT !.lockedForWriting = p]
          /\ \A e \in Entry \ {l} : locked[e] = table[e]
      BY <2>2, <3>1
    <3>4. \A e \in Entry : /\ locked[e].openedByPid = table[e].openedByPid
                           /\ locked[e].type = table[e].type
                           /\ locked[e].inode = table[e].inode
                           /\ locked[e].kernelSpaceBuffer = table[e].kernelSpaceBuffer
      BY <3>1, <3>3 DEF Object
    <3>5. OneLock(table) => OneLock(locked)
      BY <2>2, <3>3, <3>4 DEF OneLock
    <3>6. \A e \in Entry \ {NewEntry} :
            \/ locked[e] = objects[e]
            \/ /\ objects[e].openedByPid = p
               /\ locked[e] = [objects[e] EXCEPT !.lockedForWriting = p]
      <4> TAKE e \in Entry \ {NewEntry}
      <4>1. CASE e # l
        BY <4>1, <1>2, <3>3 DEF NewTable
      <4>2. CASE e = l
        <5>1. table[e] = objects[e] \/ table[e] = [objects[e] EXCEPT !.lockedForWriting = p]
          BY <1>2 DEF NewTable
        <5>2. objects[e] \in Object
          BY DEF TypeOK
        <5>3. objects[e].openedByPid = p
          BY <1>2, <2>2, <4>2 DEF NewTable
        <5> QED
          BY <3>3, <4>2, <5>1, <5>2, <5>3 DEF Object
      <4> QED
        BY <4>1, <4>2
    <3> QED
      BY <1>2, <3>2, <3>4, <3>5, <3>6, EntryIsFree DEF NewTable
  <2>3. table \in [Entry -> Object]
    BY <1>2 DEF NewTable
  <2> QED
    BY <2>1, <2>2, <2>3, Locking
<1>4. PICK t \in {table, locked} : Opened(p, t, 1)
  BY DEF sysOpen
<1>5. NewTable(p, t)
  BY <1>2, <1>3
<1>6. Opens(p, t, 1)
  <2> HIDE DEF table, locked
  <2> QED
    BY <1>4, <1>5, ObjectAssumption DEF Opens, sysOpen, FdLeft, TypeOK
<1> QED
  BY <1>6

\* An object that is neither a locked file nor out of its kind is inserted by
\* an open.
LEMMA InsertOpens ==
  ASSUME TypeOK, ~TableFull, ~panicked, NEW p \in Pid, NEW object \in Object,
         NEW moves \in {0, 1},
         nextAvailableFileDescriptor[p] <= MAX_FILE_DESCRIPTORS,
         object.openedByPid = p,
         object.type = "PIPE" <=> object.kernelSpaceBuffer \in KernelBuffer,
         object.inode = 0,
         moves = 0 => object.type = "FILE",
         Opened(p, Inserted(object), moves)
  PROVE  Opens(p, Inserted(object), moves)
<1>1. NewTable(p, Inserted(object)) /\ Inserted(object)[NewEntry] = object
  BY InsertedTable
<1> QED
  BY <1>1 DEF Opens

\* sysOpenEmpty puts one object into the table, as Opens says.
LEMMA OpenEmptyOpens ==
  ASSUME TypeOK, NEW p \in Pid, ~TableFull, sysOpenEmpty(p)
  PROVE  \E table, moves : Opens(p, table, moves)
<1> DEFINE object == [ZeroObject EXCEPT !.openedByPid = p, !.type = "FILE"]
<1>1. object \in Object
  BY ZeroObjectIsObject DEF Object
<1>2. /\ object.openedByPid = p /\ object.type = "FILE"
      /\ object.inode = ZeroObject.inode
      /\ object.kernelSpaceBuffer = ZeroObject.kernelSpaceBuffer
  BY ZeroObjectIsObject DEF Object
<1>3. Opened(p, Inserted(object), 0)
  BY DEF sysOpenEmpty
<1>4. ~panicked /\ nextAvailableFileDescriptor[p] <= MAX_FILE_DESCRIPTORS
  BY ObjectAssumption DEF sysOpenEmpty, FdLeft, TypeOK
<1> HIDE DEF object
<1>5. Opens(p, Inserted(object), 0)
  BY <1>1, <1>2, <1>3, <1>4, ZeroObjectIsObject, InsertOpens
<1> QED
  BY <1>5

\* A pipe gets the block NewKernelBuffer.
CreatedPipe(p, name) ==
  [ZeroObject EXCEPT !.openedByPid = p, !.type = "PIPE",
     !.kernelSpaceBuffer = NewKernelBuffer, !.name = name, !.lockedForWriting = p]

\* What sysCreatePipe stores is an object.
LEMMA CreatedPipeIsObject ==
  ASSUME ObjectKinds, ~TableFull, NEW p \in Pid, NEW name \in Name
  PROVE  /\ CreatedPipe(p, name) \in Object
         /\ CreatedPipe(p, name).openedByPid = p
         /\ CreatedPipe(p, name).type = "PIPE"
         /\ CreatedPipe(p, name).inode = 0
         /\ CreatedPipe(p, name).kernelSpaceBuffer = NewKernelBuffer
         /\ CreatedPipe(p, name).lockedForWriting = p
         /\ CreatedPipe(p, name).writeOffset = 0
<1>1. NewKernelBuffer \in KernelBuffer
  BY BufferIsFree
<1>2. CreatedPipe(p, name) \in Object
  BY <1>1, ZeroObjectIsObject DEF Object, CreatedPipe
<1>3. /\ CreatedPipe(p, name).openedByPid = p
      /\ CreatedPipe(p, name).type = "PIPE"
      /\ CreatedPipe(p, name).inode = ZeroObject.inode
      /\ CreatedPipe(p, name).kernelSpaceBuffer = NewKernelBuffer
      /\ CreatedPipe(p, name).lockedForWriting = p
      /\ CreatedPipe(p, name).writeOffset = ZeroObject.writeOffset
  BY ZeroObjectIsObject DEF Object, CreatedPipe
<1> QED
  BY <1>2, <1>3, ZeroObjectIsObject

\* sysCreatePipe puts one object into the table.
LEMMA CreatePipeOpens ==
  ASSUME TypeOK, ObjectKinds, NEW p \in Pid, ~TableFull, NEW name \in Name,
         sysCreatePipe(p, name)
  PROVE  Opens(p, Inserted(CreatedPipe(p, name)), 1)
<1>1. Opened(p, Inserted(CreatedPipe(p, name)), 1)
  BY DEF sysCreatePipe, CreatedPipe
<1>2. ~panicked /\ nextAvailableFileDescriptor[p] <= MAX_FILE_DESCRIPTORS
  BY DEF sysCreatePipe, FdCapped
<1>3. NewKernelBuffer \in KernelBuffer
  BY BufferIsFree
<1> QED
  BY <1>1, <1>2, <1>3, CreatedPipeIsObject, InsertOpens

\* So does the call for a network pipe.
LEMMA CreateNetworkPipeOpens ==
  ASSUME TypeOK, NEW p \in Pid, ~TableFull, sysCreateNetworkPipe(p)
  PROVE  \E table, moves : Opens(p, table, moves)
<1> DEFINE object == [ZeroObject EXCEPT !.openedByPid = p, !.type = "SOCKET",
                        !.kernelSpaceBuffer = NETWORK_INCOMING_PAYLOAD_BUFFER,
                        !.lockedForWriting = p]
<1>1. object \in Object
  BY ZeroObjectIsObject DEF Object
<1>2. /\ object.openedByPid = p /\ object.type = "SOCKET"
      /\ object.inode = ZeroObject.inode
      /\ object.kernelSpaceBuffer = NETWORK_INCOMING_PAYLOAD_BUFFER
  BY ZeroObjectIsObject DEF Object
<1>3. Opened(p, Inserted(object), 1)
  BY DEF sysCreateNetworkPipe
<1>4. ~panicked /\ nextAvailableFileDescriptor[p] <= MAX_FILE_DESCRIPTORS
  BY DEF sysCreateNetworkPipe, FdCapped
<1>5. NETWORK_INCOMING_PAYLOAD_BUFFER \notin KernelBuffer
  BY ObjectAssumption DEF NETWORK_INCOMING_PAYLOAD_BUFFER, KernelBuffer
<1> HIDE DEF object
<1>6. Opens(p, Inserted(object), 1)
  BY <1>1, <1>2, <1>3, <1>4, <1>5, ZeroObjectIsObject, InsertOpens
<1> QED
  BY <1>6

\* A pipe that is opened by name shares the block of the first of that name.
OpenedPipe(p, name) ==
  [ZeroObject EXCEPT !.openedByPid = p, !.type = "PIPE",
     !.kernelSpaceBuffer = objects[FirstOf(Pipes(name))].kernelSpaceBuffer,
     !.name = name]

\* What sysOpenPipe stores is an object.
LEMMA OpenedPipeIsObject ==
  ASSUME TypeOK, ObjectKinds, NEW p \in Pid, NEW name \in Name, Pipes(name) # {}
  PROVE  /\ OpenedPipe(p, name) \in Object
         /\ OpenedPipe(p, name).openedByPid = p
         /\ OpenedPipe(p, name).type = "PIPE"
         /\ OpenedPipe(p, name).inode = 0
         /\ OpenedPipe(p, name).lockedForWriting = 0
         /\ OpenedPipe(p, name).writeOffset = 0
         /\ OpenedPipe(p, name).kernelSpaceBuffer \in KernelBuffer
         /\ \E e \in Entry : /\ objects[e].type = "PIPE"
                             /\ OpenedPipe(p, name).kernelSpaceBuffer
                                  = objects[e].kernelSpaceBuffer
<1>1. Pipes(name) \in SUBSET Nat
  BY ObjectAssumption DEF Pipes, Entry
<1>2. FirstOf(Pipes(name)) \in Pipes(name)
  BY <1>1, FirstOfIsFirst
<1>3. /\ FirstOf(Pipes(name)) \in Entry
      /\ objects[FirstOf(Pipes(name))].type = "PIPE"
      /\ objects[FirstOf(Pipes(name))].kernelSpaceBuffer \in KernelBuffer
  BY <1>2 DEF Pipes, ObjectKinds
<1>4. OpenedPipe(p, name) \in Object
  BY <1>3, ZeroObjectIsObject DEF Object, OpenedPipe
<1>5. /\ OpenedPipe(p, name).openedByPid = p
      /\ OpenedPipe(p, name).type = "PIPE"
      /\ OpenedPipe(p, name).inode = ZeroObject.inode
      /\ OpenedPipe(p, name).kernelSpaceBuffer
           = objects[FirstOf(Pipes(name))].kernelSpaceBuffer
      /\ OpenedPipe(p, name).lockedForWriting = ZeroObject.lockedForWriting
      /\ OpenedPipe(p, name).writeOffset = ZeroObject.writeOffset
  BY ZeroObjectIsObject DEF Object, OpenedPipe
<1> QED
  BY <1>3, <1>4, <1>5, ZeroObjectIsObject

\* sysOpenPipe puts one object into the table.
LEMMA OpenPipeOpens ==
  ASSUME TypeOK, ObjectKinds, NEW p \in Pid, ~TableFull, NEW name \in Name,
         sysOpenPipe(p, name)
  PROVE  Pipes(name) # {} /\ Opens(p, Inserted(OpenedPipe(p, name)), 1)
<1>1. Opened(p, Inserted(OpenedPipe(p, name)), 1) /\ Pipes(name) # {}
  BY DEF sysOpenPipe, OpenedPipe
<1>2. ~panicked /\ nextAvailableFileDescriptor[p] <= MAX_FILE_DESCRIPTORS
  BY DEF sysOpenPipe, FdCapped
<1> QED
  BY <1>1, <1>2, OpenedPipeIsObject, InsertOpens

\* A pipe's descriptor refers to an entry that is a pipe and has a block.
LEMMA PipeDescriptor ==
  ASSUME TypeOK, ObjectKinds, NEW p \in Pid, NEW fd \in Fd, IsPipe(p, fd)
  PROVE  /\ fileDescriptor[p][fd] \in Entry
         /\ objects[fileDescriptor[p][fd]].type = "PIPE"
         /\ objects[fileDescriptor[p][fd]].kernelSpaceBuffer \in KernelBuffer
BY DEF IsPipe, TypeOK, ObjectKinds

\* A program that stores into a block it shares leaves the table as it is.
LEMMA StoreTransfers ==
  ASSUME TypeOK, ObjectKinds, NEW p \in Pid, NEW fd \in Fd, NEW data \in Data,
         UserStore(p, fd, data)
  PROVE  Transfers
<1>1. \A e \in Entry : objects[e] = [objects[e] EXCEPT !.writeOffset = objects[e].writeOffset]
  BY DEF TypeOK, Object
<1> QED
  BY <1>1, PipeDescriptor DEF UserStore, Transfers, TypeOK

\* A write changes the position of a pipe and the buffers.
LEMMA WriteTransfers ==
  ASSUME TypeOK, ObjectKinds, NEW p \in Pid, NEW fd \in Fd, sysWrite(p, fd)
  PROVE  Transfers
<1> DEFINE own == fileDescriptor[p][fd]
<1>1. own \in Entry /\ objects[own].type = "PIPE"
      /\ objects[own].kernelSpaceBuffer \in KernelBuffer
  BY PipeDescriptor DEF sysWrite
<1>2. objects' = [objects EXCEPT ![own].writeOffset = FULL]
  BY DEF sysWrite
<1> HIDE DEF own
<1>3. objects \in [Entry -> Object]
  BY DEF TypeOK
<1>4. ASSUME NEW e \in Entry
      PROVE  /\ objects'[e] = [objects[e] EXCEPT !.writeOffset = objects'[e].writeOffset]
             /\ objects'[e] = objects[e] \/ objects[e].type = "PIPE"
             /\ objects'[e] \in Object
  <2>1. objects[e] \in Object
    BY <1>3
  <2>2. CASE e = own
    <3>1. objects'[e] = [objects[e] EXCEPT !.writeOffset = FULL]
      BY <1>2, <1>3, <2>2
    <3> QED
      BY <1>1, <2>1, <2>2, <3>1 DEF Object
  <2>3. CASE e # own
    <3>1. objects'[e] = objects[e]
      BY <1>2, <1>3, <2>3
    <3> QED
      BY <2>1, <3>1 DEF Object
  <2> QED
    BY <2>2, <2>3
<1>5. objects' \in [Entry -> Object]
  <2>1. DOMAIN objects' = Entry /\ objects' = [e \in Entry |-> objects'[e]]
    BY <1>2, <1>3
  <2> QED
    BY <1>4, <2>1
<1>6. kernelBuffer' \in [KernelBuffer -> Data]
  BY <1>1 DEF sysWrite, TypeOK, own
<1> QED
  BY <1>4, <1>5, <1>6 DEF Transfers, sysWrite, TypeOK

\* What sysRead leaves: the reader's offset is full, then the writer's empty.
LEMMA ReadOffsets ==
  ASSUME TypeOK, ObjectKinds, NEW p \in Pid, NEW fd \in Fd, sysRead(p, fd),
         NEW own, own = fileDescriptor[p][fd]
  PROVE  /\ own \in Entry /\ objects[own].type = "PIPE"
         /\ objects[own].kernelSpaceBuffer \in KernelBuffer
         /\ Writer(own) \in Entry
         /\ objects[Writer(own)].type = "PIPE"
         /\ objects[Writer(own)].kernelSpaceBuffer = objects[own].kernelSpaceBuffer
         /\ objects' \in [Entry -> Object]
         /\ \A e \in Entry :
              objects'[e] = [objects[e] EXCEPT !.writeOffset =
                               CASE e = Writer(own) -> 0
                                 [] e # Writer(own) /\ e = own -> FULL
                                 [] OTHER -> objects[e].writeOffset]
<1>1. /\ own \in Entry /\ objects[own].type = "PIPE"
      /\ objects[own].kernelSpaceBuffer \in KernelBuffer
  BY PipeDescriptor DEF sysRead
<1>2. /\ Writer(own) \in Entry
      /\ objects[Writer(own)].kernelSpaceBuffer = objects[own].kernelSpaceBuffer
      /\ objects[Writer(own)].type = "PIPE"
  BY <1>1, WriterIsPipe
<1> DEFINE writer == Writer(own)
           first == [objects EXCEPT ![own].writeOffset = FULL]
<1>3. objects' = [first EXCEPT ![writer].writeOffset = 0]
  BY DEF sysRead
<1>4. first \in [Entry -> Object]
  <2>1. objects \in [Entry -> Object] /\ own \in Entry
    BY <1>1 DEF TypeOK
  <2>2. [objects[own] EXCEPT !.writeOffset = FULL] \in Object
    BY <2>1 DEF Object
  <2>3. first = [objects EXCEPT ![own] = [objects[own] EXCEPT !.writeOffset = FULL]]
    OBVIOUS
  <2> HIDE DEF first
  <2> QED
    BY <2>1, <2>2, <2>3
<1>5. \A e \in Entry : first[e] = IF e = own THEN [objects[e] EXCEPT !.writeOffset = FULL]
                                            ELSE objects[e]
  BY <1>1 DEF TypeOK, Object
<1> HIDE DEF first, writer
<1>6. objects' \in [Entry -> Object]
  BY <1>2, <1>3, <1>4 DEF Object, writer
<1>7. \A e \in Entry : objects'[e] = IF e = writer THEN [first[e] EXCEPT !.writeOffset = 0]
                                                   ELSE first[e]
  BY <1>2, <1>3, <1>4 DEF Object, writer
<1>8. ASSUME NEW e \in Entry
      PROVE  objects'[e] = [objects[e] EXCEPT !.writeOffset =
                              CASE e = Writer(own) -> 0
                                [] e # Writer(own) /\ e = own -> FULL
                                [] OTHER -> objects[e].writeOffset]
  <2>1. objects[e] \in Object
    BY DEF TypeOK
  <2>2. CASE e = writer
    <3>1. /\ objects'[e] = [first[e] EXCEPT !.writeOffset = 0]
          /\ first[e] = [objects[e] EXCEPT !.writeOffset = FULL] \/ first[e] = objects[e]
      BY <1>5, <1>7, <2>2
    <3>2. objects'[e] = [objects[e] EXCEPT !.writeOffset = 0]
      BY <2>1, <3>1 DEF Object
    <3> QED
      BY <2>2, <3>2 DEF writer
  <2>3. CASE e # writer /\ e = own
    <3>1. objects'[e] = [objects[e] EXCEPT !.writeOffset = FULL]
      BY <1>5, <1>7, <2>3
    <3> QED
      BY <2>3, <3>1 DEF writer
  <2>4. CASE e # writer /\ e # own
    BY <2>1, <2>4, <1>5, <1>7 DEF Object, writer
  <2> QED
    BY <2>2, <2>3, <2>4
<1> QED
  BY <1>1, <1>2, <1>6, <1>8

\* So does a read.
LEMMA ReadTransfers ==
  ASSUME TypeOK, ObjectKinds, NEW p \in Pid, NEW fd \in Fd, sysRead(p, fd)
  PROVE  Transfers
<1> DEFINE own == fileDescriptor[p][fd]
<1>1. /\ own \in Entry /\ objects[own].type = "PIPE"
      /\ objects[own].kernelSpaceBuffer \in KernelBuffer
      /\ objects[Writer(own)].type = "PIPE"
      /\ objects' \in [Entry -> Object]
      /\ \A e \in Entry :
           objects'[e] = [objects[e] EXCEPT !.writeOffset =
                            CASE e = Writer(own) -> 0
                              [] e # Writer(own) /\ e = own -> FULL
                              [] OTHER -> objects[e].writeOffset]
  BY ReadOffsets
<1>2. ASSUME NEW e \in Entry
      PROVE  /\ objects'[e] = [objects[e] EXCEPT !.writeOffset = objects'[e].writeOffset]
             /\ objects'[e] = objects[e] \/ objects[e].type = "PIPE"
  <2>1. objects[e] \in Object
    BY DEF TypeOK
  <2>2. CASE e = Writer(own)
    BY <1>1, <2>1, <2>2 DEF Object
  <2>3. CASE e # Writer(own) /\ e = own
    BY <1>1, <2>1, <2>3 DEF Object
  <2>4. CASE e # Writer(own) /\ e # own
    BY <1>1, <2>1, <2>4 DEF Object
  <2> QED
    BY <2>2, <2>3, <2>4
<1>3. userspaceBuffer' \in [Entry -> Data] /\ delivered' \in [Entry -> BOOLEAN]
  BY <1>1 DEF sysRead, TypeOK
<1> QED
  BY <1>1, <1>2, <1>3 DEF Transfers, sysRead, TypeOK

\* Every step of the kernel panics, opens one entry, or transfers.
LEMMA NextEffect ==
  ASSUME TypeOK, ObjectKinds, Next
  PROVE  \/ Panic
         \/ \E p \in Pid : \E table, moves : Opens(p, table, moves)
         \/ Transfers
<1>1. PICK p \in Pid :
        \/ \E inode \in Inode, permissions \in {"RDONLY", "RDWRITE"} :
             sysOpen(p, inode, permissions)
        \/ sysOpenEmpty(p)
        \/ \E name \in Name : sysCreatePipe(p, name) \/ sysOpenPipe(p, name)
        \/ sysCreateNetworkPipe(p)
        \/ \E fd \in Fd :
             \/ \E data \in Data : UserStore(p, fd, data)
             \/ sysWrite(p, fd)
             \/ sysRead(p, fd)
  BY DEF Next
<1>2. CASE \E inode \in Inode, permissions \in {"RDONLY", "RDWRITE"} :
             sysOpen(p, inode, permissions)
  BY <1>2, OpenOpens DEF sysOpen
<1>3. CASE sysOpenEmpty(p)
  BY <1>3, OpenEmptyOpens DEF sysOpenEmpty
<1>4. ASSUME NEW name \in Name, sysCreatePipe(p, name)
      PROVE  Panic \/ \E table, moves : Opens(p, table, moves)
  BY <1>4, CreatePipeOpens DEF sysCreatePipe
<1>5. ASSUME NEW name \in Name, sysOpenPipe(p, name)
      PROVE  Panic \/ \E table, moves : Opens(p, table, moves)
  BY <1>5, OpenPipeOpens DEF sysOpenPipe
<1>6. CASE sysCreateNetworkPipe(p)
  BY <1>6, CreateNetworkPipeOpens DEF sysCreateNetworkPipe
<1>7. ASSUME NEW fd \in Fd,
             \/ \E data \in Data : UserStore(p, fd, data)
             \/ sysWrite(p, fd)
             \/ sysRead(p, fd)
      PROVE  Transfers
  BY <1>7, StoreTransfers, WriteTransfers, ReadTransfers
<1> QED
  BY <1>1, <1>2, <1>3, <1>4, <1>5, <1>6, <1>7

-----------------------------------------------------------------------------
(* Types, descriptors, reachable objects *)

\* An empty table.
LEMMA TableInitially == Init => TableInv /\ OneLockPerInode
<1> SUFFICES ASSUME Init
             PROVE  TableInv /\ OneLockPerInode
  OBVIOUS
<1> DEFINE standard == [ZeroObject EXCEPT !.openedByPid = KERNEL_OWNED, !.type = "BUFFER"]
<1>1. /\ standard \in Object /\ standard.openedByPid = KERNEL_OWNED
      /\ standard.type = "BUFFER"
      /\ standard.kernelSpaceBuffer = ZeroObject.kernelSpaceBuffer
      /\ standard.inode = ZeroObject.inode
  BY ZeroObjectIsObject DEF Object
<1>2. objects = [e \in Entry |-> IF e \in 0 .. 2 THEN standard ELSE ZeroObject]
  BY DEF Init
<1> HIDE DEF standard
<1>3. TypeOK
  <2>1. objects \in [Entry -> Object]
    BY <1>1, <1>2, ZeroObjectIsObject
  <2>2. fileDescriptor \in [Pid -> [Fd -> {NoEntry} \cup Entry]]
    BY ObjectAssumption DEF Init, Entry
  <2>3. nextAvailableFileDescriptor \in [Pid -> 3 .. MAX_FILE_DESCRIPTORS + 1]
    BY ObjectAssumption DEF Init
  <2> QED
    BY <2>1, <2>2, <2>3, ObjectAssumption DEF Init, TypeOK
<1>4. ObjectKinds
  BY <1>1, <1>2, ZeroObjectIsObject DEF ObjectKinds, KERNEL_OWNED
<1>5. StandardEntries
  BY <1>1, <1>2, ZeroObjectIsObject DEF StandardEntries, KERNEL_OWNED
<1>6. Descriptors
  <2>1. \A p \in Pid, fd \in Fd : fileDescriptor[p][fd] \in {NoEntry, 0, 1, 2}
    BY DEF Init
  <2> QED
    BY <2>1 DEF Descriptors
<1>7. Reachable
  <2>1. \A e \in Entry : objects[e].openedByPid \notin Pid
    BY <1>1, <1>2, ZeroObjectIsObject, ObjectAssumption DEF KERNEL_OWNED
  <2> QED
    BY <2>1 DEF Reachable
<1>8. OneLockPerInode
  <2>1. \A e \in Entry : objects[e].inode = 0
    BY <1>1, <1>2, ZeroObjectIsObject
  <2> QED
    BY <2>1 DEF OneLockPerInode
<1> QED
  BY <1>3, <1>4, <1>5, <1>6, <1>7, <1>8 DEF TableInv

\* What an open leaves: a process's slot holds the new entry, and the fields of
\* the other entries but the lock are as they were.
OpenedAt(p, slot, moves) ==
  /\ NewEntry \in Entry /\ objects[NewEntry].openedByPid = 0
  /\ slot \in Fd /\ slot \in 3 .. MAX_FILE_DESCRIPTORS
  /\ objects' \in [Entry -> Object]
  /\ objects'[NewEntry].openedByPid = p
  /\ objects'[NewEntry].type = "PIPE" <=>
       objects'[NewEntry].kernelSpaceBuffer \in KernelBuffer
  /\ \A e \in Entry \ {NewEntry} :
       /\ objects'[e].openedByPid = objects[e].openedByPid
       /\ objects'[e].type = objects[e].type
       /\ objects'[e].inode = objects[e].inode
       /\ objects'[e].kernelSpaceBuffer = objects[e].kernelSpaceBuffer
       /\ objects[e].openedByPid = 0 => objects'[e] = objects[e]
  /\ \A q \in Pid, fd \in Fd :
       fileDescriptor'[q][fd] = IF q = p /\ fd = slot THEN NewEntry
                                                      ELSE fileDescriptor[q][fd]
  /\ nextAvailableFileDescriptor' = [nextAvailableFileDescriptor EXCEPT ![p] = slot + moves]

\* What an open leaves in the table and among the descriptors.
LEMMA OpenEffect ==
  ASSUME TypeOK, NEW p \in Pid, NEW table, NEW moves, Opens(p, table, moves)
  PROVE  OpenedAt(p, nextAvailableFileDescriptor[p], moves)
<1> DEFINE slot == nextAvailableFileDescriptor[p]
<1>1. NewEntry \in Entry /\ objects[NewEntry].openedByPid = 0
  BY EntryIsFree DEF Opens
<1>2. slot \in Fd /\ slot \in 3 .. MAX_FILE_DESCRIPTORS
  BY ObjectAssumption DEF Opens, TypeOK, Fd
<1>3. objects' = table /\ NewTable(p, table)
  BY DEF Opens, Opened
<1>4. \A e \in Entry \ {NewEntry} :
        /\ objects'[e].openedByPid = objects[e].openedByPid
        /\ objects'[e].type = objects[e].type
        /\ objects'[e].inode = objects[e].inode
        /\ objects'[e].kernelSpaceBuffer = objects[e].kernelSpaceBuffer
        /\ objects[e].openedByPid = 0 => objects'[e] = objects[e]
  <2> TAKE e \in Entry \ {NewEntry}
  <2>1. CASE table[e] = objects[e]
    BY <1>3, <2>1
  <2>2. CASE /\ objects[e].openedByPid = p
             /\ table[e] = [objects[e] EXCEPT !.lockedForWriting = p]
    <3>1. objects[e] \in Object /\ p # 0
      BY ObjectAssumption DEF TypeOK
    <3> QED
      BY <1>3, <2>2, <3>1 DEF Object
  <2> QED
    BY <1>3, <2>1, <2>2 DEF NewTable
<1>5. fileDescriptor' = [fileDescriptor EXCEPT ![p][slot] = NewEntry]
  BY DEF Opens, Opened
<1>6. \A q \in Pid, fd \in Fd :
        fileDescriptor'[q][fd] = IF q = p /\ fd = slot THEN NewEntry
                                                       ELSE fileDescriptor[q][fd]
  BY <1>2, <1>5 DEF TypeOK
<1>7. nextAvailableFileDescriptor' = [nextAvailableFileDescriptor EXCEPT ![p] = slot + moves]
  BY DEF Opens, Opened
<1> QED
  BY <1>1, <1>2, <1>3, <1>4, <1>6, <1>7 DEF NewTable, OpenedAt

\* Every open keeps the table in order.
LEMMA OpenPreserves ==
  ASSUME TableInv, NEW p \in Pid, NEW table, NEW moves, Opens(p, table, moves)
  PROVE  TableInv'
<1> DEFINE slot == nextAvailableFileDescriptor[p]
<1> USE DEF TableInv
<1>1. OpenedAt(p, slot, moves)
  BY OpenEffect
<1>2. p \in 1 .. 254 /\ moves \in {0, 1}
      /\ (moves = 0 => objects'[NewEntry].type = "FILE" /\ objects'[NewEntry].inode = 0)
  BY ObjectAssumption DEF Opens, Opened
<1>3. TypeOK'
  <2>1. fileDescriptor' \in [Pid -> [Fd -> {NoEntry} \cup Entry]]
    BY <1>1 DEF Opens, Opened, TypeOK, OpenedAt
  <2>2. nextAvailableFileDescriptor' \in [Pid -> 3 .. MAX_FILE_DESCRIPTORS + 1]
    BY <1>1, <1>2, ObjectAssumption DEF TypeOK, OpenedAt
  <2>3. /\ userspaceBuffer' \in [Entry -> Data] /\ delivered' \in [Entry -> BOOLEAN]
        /\ kernelBuffer' \in [KernelBuffer -> Data] /\ panicked' \in BOOLEAN
    BY ObjectAssumption DEF Opens, Opened, TypeOK
  <2> QED
    BY <1>1, <2>1, <2>2, <2>3 DEF TypeOK, OpenedAt
<1>4. ObjectKinds'
  BY <1>1, <1>2 DEF ObjectKinds, OpenedAt
<1>5. StandardEntries'
  BY <1>1, <1>2 DEF StandardEntries, KERNEL_OWNED, OpenedAt
<1>6. Descriptors'
  <2> SUFFICES ASSUME NEW q \in Pid, NEW fd \in Fd,
                      fileDescriptor'[q][fd] \notin {NoEntry, 0, 1, 2}
               PROVE  /\ objects'[fileDescriptor'[q][fd]].openedByPid = q
                      /\ \A g \in Fd : fileDescriptor'[q][g] = fileDescriptor'[q][fd]
                                         => g = fd
                      /\ fd >= nextAvailableFileDescriptor'[q] =>
                           /\ objects'[fileDescriptor'[q][fd]].type = "FILE"
                           /\ objects'[fileDescriptor'[q][fd]].inode = 0
    BY DEF Descriptors
  <2>1. NewEntry \notin {NoEntry, 0, 1, 2}
    BY <1>1 DEF StandardEntries, KERNEL_OWNED, NoEntry, Entry, OpenedAt
  <2>2. \A r \in Pid, g \in Fd : fileDescriptor[r][g] # NewEntry
    BY <1>1, <2>1, ObjectAssumption DEF Descriptors, OpenedAt
  <2>3. CASE q = p /\ fd = slot
    BY <1>1, <1>2, <2>2, <2>3 DEF TypeOK, OpenedAt
  <2>4. CASE ~(q = p /\ fd = slot)
    <3>1. fileDescriptor'[q][fd] = fileDescriptor[q][fd]
          /\ fileDescriptor[q][fd] \in Entry \ {NewEntry}
      BY <1>1, <2>2, <2>4 DEF TypeOK, OpenedAt
    <3>2. \A g \in Fd : fileDescriptor'[q][g] = fileDescriptor'[q][fd] => g = fd
      BY <1>1, <2>2, <3>1 DEF Descriptors, OpenedAt
    <3>3. fd >= nextAvailableFileDescriptor'[q] => fd >= nextAvailableFileDescriptor[q]
      BY <1>1, <1>2, ObjectAssumption DEF TypeOK, Fd, OpenedAt
    <3> QED
      BY <1>1, <3>1, <3>2, <3>3 DEF Descriptors, OpenedAt
  <2> QED
    BY <2>3, <2>4
<1>7. Reachable'
  <2> SUFFICES ASSUME NEW e \in Entry, objects'[e].openedByPid \in Pid,
                      objects'[e].type # "FILE" \/ objects'[e].inode # 0
               PROVE  \E fd \in Fd : fileDescriptor'[objects'[e].openedByPid][fd] = e
    BY DEF Reachable
  <2>1. CASE e = NewEntry
    BY <1>1, <2>1 DEF OpenedAt
  <2>2. CASE e # NewEntry
    <3>1. PICK fd \in Fd : fileDescriptor[objects[e].openedByPid][fd] = e
      BY <1>1, <2>2 DEF Reachable, OpenedAt
    <3>2. e \notin {NoEntry, 0, 1, 2}
      BY <1>1, <2>2, ObjectAssumption DEF StandardEntries, KERNEL_OWNED, NoEntry, Entry, OpenedAt
    <3>3. ~(objects[e].openedByPid = p /\ fd = slot)
      BY <1>1, <2>2, <3>1, <3>2 DEF Descriptors, OpenedAt
    <3> QED
      BY <1>1, <2>2, <3>1, <3>3 DEF OpenedAt
  <2> QED
    BY <2>1, <2>2
<1> QED
  BY <1>3, <1>4, <1>5, <1>6, <1>7

\* Every transfer keeps the table in order.
LEMMA TransferPreserves ==
  ASSUME TableInv, Transfers
  PROVE  TableInv' /\ (OneLockPerInode => OneLockPerInode')
<1> USE DEF TableInv
<1>1. \A e \in Entry :
        /\ objects'[e].openedByPid = objects[e].openedByPid
        /\ objects'[e].type = objects[e].type
        /\ objects'[e].inode = objects[e].inode
        /\ objects'[e].kernelSpaceBuffer = objects[e].kernelSpaceBuffer
        /\ objects'[e].lockedForWriting = objects[e].lockedForWriting
  BY DEF Transfers, TypeOK, Object
<1>2. TypeOK'
  BY DEF Transfers, TypeOK
<1>3. ObjectKinds'
  <2> SUFFICES ASSUME NEW e \in Entry
               PROVE  /\ objects'[e].openedByPid = 0 => objects'[e] = ZeroObject
                      /\ objects'[e].type = "PIPE" <=>
                           objects'[e].kernelSpaceBuffer \in KernelBuffer
    BY DEF ObjectKinds
  <2>1. ASSUME objects[e].openedByPid = 0
        PROVE  objects'[e] = objects[e]
    BY <2>1, ZeroObjectIsObject DEF Transfers, ObjectKinds
  <2> QED
    BY <1>1, <2>1 DEF ObjectKinds
<1>4. StandardEntries'
  BY <1>1 DEF StandardEntries
<1>5. Descriptors'
  <2> SUFFICES ASSUME NEW p \in Pid, NEW fd \in Fd,
                      fileDescriptor[p][fd] \notin {NoEntry, 0, 1, 2}
               PROVE  /\ objects'[fileDescriptor[p][fd]].openedByPid = p
                      /\ \A g \in Fd : fileDescriptor[p][g] = fileDescriptor[p][fd] => g = fd
                      /\ fd >= nextAvailableFileDescriptor[p] =>
                           /\ objects'[fileDescriptor[p][fd]].type = "FILE"
                           /\ objects'[fileDescriptor[p][fd]].inode = 0
    BY DEF Descriptors, Transfers
  <2>1. fileDescriptor[p][fd] \in Entry
    BY DEF TypeOK
  <2> QED
    BY <1>1, <2>1 DEF Descriptors
<1>6. Reachable'
  BY <1>1 DEF Reachable, Transfers
<1>7. OneLockPerInode => OneLockPerInode'
  BY <1>1 DEF OneLockPerInode
<1> QED
  BY <1>2, <1>3, <1>4, <1>5, <1>6, <1>7

\* A full table stops the kernel and changes nothing else.
LEMMA PanicPreserves ==
  ASSUME TableInv, Panic \/ UNCHANGED vars
  PROVE  TableInv' /\ (OneLockPerInode => OneLockPerInode')
<1>1. /\ UNCHANGED <<objects, fileDescriptor, nextAvailableFileDescriptor,
                     userspaceBuffer, delivered, kernelBuffer>>
      /\ panicked' \in BOOLEAN
  BY DEF Panic, vars, TableInv, TypeOK
<1>2. TypeOK'
  BY <1>1 DEF TableInv, TypeOK
<1>3. ObjectKinds' /\ StandardEntries'
  BY <1>1 DEF TableInv, ObjectKinds, StandardEntries
<1>4. Descriptors' /\ Reachable'
  BY <1>1 DEF TableInv, Descriptors, Reachable
<1>5. OneLockPerInode => OneLockPerInode'
  BY <1>1 DEF OneLockPerInode
<1> QED
  BY <1>2, <1>3, <1>4, <1>5 DEF TableInv

\* A close zeroes the only entry its descriptor refers to, and no other
\* descriptor referred to it.
LEMMA ClosePreserves ==
  ASSUME TableInv, NEW p \in Pid, NEW fd \in Fd, sysClose(p, fd)
  PROVE  TableInv' /\ (OneLockPerInode => OneLockPerInode')
<1> DEFINE closed == fileDescriptor[p][fd]
<1> USE DEF TableInv
<1>1. closed \in Entry \ 0 .. 2 /\ objects[closed].openedByPid = p
  BY DEF sysClose, TypeOK, Descriptors, NoEntry
<1>2. /\ objects' \in [Entry -> Object]
      /\ objects'[closed] = ZeroObject
      /\ \A e \in Entry \ {closed} : objects'[e] = objects[e]
  BY <1>1, ZeroObjectIsObject DEF sysClose, TypeOK
<1>3. /\ fileDescriptor' \in [Pid -> [Fd -> {NoEntry} \cup Entry]]
      /\ \A q \in Pid, g \in Fd :
           fileDescriptor'[q][g] = IF q = p /\ g = fd THEN NoEntry ELSE fileDescriptor[q][g]
  BY DEF sysClose, TypeOK
<1>4. TypeOK'
  BY <1>2, <1>3 DEF sysClose, TypeOK
<1>5. ObjectKinds'
  BY <1>2, ZeroObjectIsObject DEF ObjectKinds
<1>6. StandardEntries'
  BY <1>1, <1>2, ZeroObjectIsObject DEF StandardEntries, KERNEL_OWNED
<1>7. \A q \in Pid, g \in Fd : fileDescriptor'[q][g] # closed
  <2> SUFFICES ASSUME NEW q \in Pid, NEW g \in Fd, fileDescriptor[q][g] = closed
               PROVE  q = p /\ g = fd
    BY <1>1, <1>3, ObjectAssumption DEF NoEntry, Entry
  <2>1. closed \notin {NoEntry, 0, 1, 2}
    BY <1>1, ObjectAssumption DEF NoEntry, Entry
  <2>2. q = p
    BY <1>1, <2>1 DEF Descriptors
  <2> QED
    BY <2>1, <2>2 DEF Descriptors
<1>8. Descriptors'
  <2> SUFFICES ASSUME NEW q \in Pid, NEW g \in Fd,
                      fileDescriptor'[q][g] \notin {NoEntry, 0, 1, 2}
               PROVE  /\ objects'[fileDescriptor'[q][g]].openedByPid = q
                      /\ \A h \in Fd : fileDescriptor'[q][h] = fileDescriptor'[q][g] => h = g
                      /\ g >= nextAvailableFileDescriptor'[q] =>
                           /\ objects'[fileDescriptor'[q][g]].type = "FILE"
                           /\ objects'[fileDescriptor'[q][g]].inode = 0
    BY DEF Descriptors
  <2>1. /\ fileDescriptor'[q][g] = fileDescriptor[q][g]
        /\ fileDescriptor[q][g] \in Entry \ {closed}
    BY <1>3, <1>7 DEF TypeOK
  <2>2. objects'[fileDescriptor[q][g]] = objects[fileDescriptor[q][g]]
    BY <1>2, <2>1
  <2>3. \A h \in Fd : fileDescriptor'[q][h] = fileDescriptor'[q][g] => h = g
    BY <1>3, <2>1 DEF Descriptors
  <2> QED
    BY <2>1, <2>2, <2>3 DEF Descriptors, sysClose
<1>9. Reachable'
  <2> SUFFICES ASSUME NEW e \in Entry, objects'[e].openedByPid \in Pid,
                      objects'[e].type # "FILE" \/ objects'[e].inode # 0
               PROVE  \E g \in Fd : fileDescriptor'[objects'[e].openedByPid][g] = e
    BY DEF Reachable
  <2>1. e # closed
    BY <1>2, ZeroObjectIsObject, ObjectAssumption
  <2>2. PICK g \in Fd : fileDescriptor[objects[e].openedByPid][g] = e
    BY <1>2, <2>1 DEF Reachable
  <2>3. ~(objects[e].openedByPid = p /\ g = fd)
    BY <2>1, <2>2
  <2> QED
    BY <1>2, <1>3, <2>1, <2>2, <2>3
<1>10. OneLockPerInode => OneLockPerInode'
  BY <1>2, ZeroObjectIsObject DEF OneLockPerInode
<1> QED
  BY <1>4, <1>5, <1>6, <1>8, <1>9, <1>10

\* Every step keeps the table in order.
LEMMA NextPreserves ==
  TableInv /\ [Next \/ CloseAny]_vars => TableInv' /\ (OneLockPerInode => OneLockPerInode')
<1> SUFFICES ASSUME TableInv, [Next \/ CloseAny]_vars
             PROVE  TableInv' /\ (OneLockPerInode => OneLockPerInode')
  OBVIOUS
<1>1. ASSUME NEW p \in Pid, NEW table, NEW moves, Opens(p, table, moves)
      PROVE  OneLockPerInode => OneLockPerInode'
  BY <1>1 DEF Opens, Opened, NewTable, OneLock, OneLockPerInode
<1>2. CASE Next
  BY <1>1, <1>2, NextEffect, PanicPreserves, OpenPreserves, TransferPreserves DEF TableInv
<1>3. CASE CloseAny
  BY <1>3, ClosePreserves DEF CloseAny
<1>4. CASE UNCHANGED vars
  BY <1>4, PanicPreserves
<1> QED
  BY <1>2, <1>3, <1>4

\* TableInv and OneLockPerInode are kept whatever is opened and closed in
\* whatever order.
LEMMA TableInvariant == ClosingSpec => [](TableInv /\ OneLockPerInode)
<1>1. Init => TableInv /\ OneLockPerInode
  BY TableInitially
<1>2. /\ TableInv /\ OneLockPerInode
      /\ [Next \/ \E p \in Pid, fd \in Fd : sysClose(p, fd)]_vars
      => (TableInv /\ OneLockPerInode)'
  BY NextPreserves DEF CloseAny
<1> QED
  BY <1>1, <1>2, PTL DEF ClosingSpec

\* The state of insertGlobalObjectTableEntry, of the descriptors and of the
\* pipes has its types; that a new pipe finds a block of its own is part of it.
THEOREM TypeCorrect == ClosingSpec => []TypeOK
<1>1. TableInv => TypeOK
  BY DEF TableInv
<1> QED
  BY <1>1, TableInvariant, PTL

\* lockFile never locks a second entry of an inode.
THEOREM OneLock_ClosingSpec == ClosingSpec => []OneLockPerInode
BY TableInvariant, PTL

\* The process that opened an object has a descriptor of it as long as it is
\* open, though sysOpenEmpty gives its descriptor out again.
THEOREM ObjectsReachable == ClosingSpec => []Reachable
<1>1. TableInv => Reachable
  BY DEF TableInv
<1> QED
  BY <1>1, TableInvariant, PTL

\* The same for the kernel as it is shipped, where nothing is closed.
THEOREM ShippedTableCorrect == Spec => [](TypeOK /\ OneLockPerInode /\ Reachable)
<1>1. [Next]_vars => [Next \/ \E p \in Pid, fd \in Fd : sysClose(p, fd)]_vars
  OBVIOUS
<1>2. Spec => ClosingSpec
  BY <1>1, PTL DEF Spec, ClosingSpec
<1> QED
  BY <1>2, TypeCorrect, OneLock_ClosingSpec, ObjectsReachable, PTL

-----------------------------------------------------------------------------
(* Pipes whose users keep the roles *)

\* Without a close, entries are taken in order.
TakenInOrder ==
  \A e, f \in Entry : objects[e].openedByPid = 0 /\ e < f => objects[f].openedByPid = 0

\* Entries f and e have the same block.
SameBuffer(f, e) == objects[f].kernelSpaceBuffer = objects[e].kernelSpaceBuffer

\* The first entry with a pipe's block is a creator's, and the only one.
FirstIsCreator ==
  \A e \in Entry : objects[e].type = "PIPE" =>
    \E w \in Entry : /\ SameBuffer(w, e)
                     /\ Creator(w)
                     /\ \A v \in Entry : SameBuffer(v, e) => w <= v

OneCreator ==
  \A e, f \in Entry : Creator(e) /\ Creator(f) /\ SameBuffer(e, f) => e = f

RolesInv == TableInv /\ TakenInOrder /\ FirstIsCreator /\ OneCreator

\* No pipe is open.
LEMMA RolesInitially == Init => RolesInv
<1> SUFFICES ASSUME Init
             PROVE  RolesInv
  OBVIOUS
<1> DEFINE standard == [ZeroObject EXCEPT !.openedByPid = KERNEL_OWNED, !.type = "BUFFER"]
<1>1. /\ standard.type = "BUFFER" /\ standard.openedByPid = KERNEL_OWNED
      /\ standard.lockedForWriting = ZeroObject.lockedForWriting
  BY ZeroObjectIsObject DEF Object
<1>2. objects = [e \in Entry |-> IF e \in 0 .. 2 THEN standard ELSE ZeroObject]
  BY DEF Init
<1> HIDE DEF standard
<1>3. TakenInOrder
  BY <1>1, <1>2, ZeroObjectIsObject, ObjectAssumption DEF TakenInOrder, Entry, KERNEL_OWNED
<1>4. FirstIsCreator /\ OneCreator
  BY <1>1, <1>2, ZeroObjectIsObject DEF FirstIsCreator, OneCreator, Creator
<1> QED
  BY <1>3, <1>4, TableInitially DEF RolesInv

\* What an open of a pipe does to the table under RolesSpec.
PipeInserted(object) ==
  /\ NewEntry \in Entry
  /\ objects[NewEntry] = ZeroObject
  /\ \A e \in Entry : e < NewEntry <=> objects[e].openedByPid # 0
  /\ objects'[NewEntry] = object
  /\ \A e \in Entry \ {NewEntry} : objects'[e] = objects[e]

\* A pipe is opened in the first free entry.
LEMMA PipeOpenInserts ==
  ASSUME TableInv, TakenInOrder, NEW p \in Pid, NEW object, NEW moves,
         object \in Object, Opens(p, Inserted(object), moves)
  PROVE  PipeInserted(object)
<1>1. /\ NewEntry \in Entry /\ objects[NewEntry].openedByPid = 0
      /\ \A e \in Entry : objects[e].openedByPid = 0 => NewEntry <= e
  BY EntryIsFree DEF Opens
<1>2. \A e \in Entry : e < NewEntry <=> objects[e].openedByPid # 0
  BY <1>1, ObjectAssumption DEF TakenInOrder, Entry
<1>3. objects' = [objects EXCEPT ![NewEntry] = object]
  BY DEF Opens, Opened, Inserted
<1> QED
  BY <1>1, <1>2, <1>3 DEF PipeInserted, TableInv, ObjectKinds, TypeOK

\* The entries in use stay in front of the free ones.
LEMMA PipeInsertedKeepsOrder ==
  ASSUME TableInv, TakenInOrder, NEW object, PipeInserted(object),
         object.openedByPid # 0
  PROVE  TakenInOrder'
<1> SUFFICES ASSUME NEW e \in Entry, NEW f \in Entry, e < f,
                    objects'[e].openedByPid = 0
             PROVE  objects'[f].openedByPid = 0
  BY DEF TakenInOrder
<1>1. e # NewEntry /\ objects[e].openedByPid = 0
  BY DEF PipeInserted
<1>2. NewEntry < e
  BY <1>1, ObjectAssumption DEF PipeInserted, Entry
<1>3. f # NewEntry /\ objects[f].openedByPid = 0
  BY <1>1, <1>2, ObjectAssumption DEF TakenInOrder, PipeInserted, Entry
<1> QED
  BY <1>3 DEF PipeInserted

\* A new pipe has its creator in front.
LEMMA CreateKeepsRoles ==
  ASSUME RolesInv, NEW p \in Pid, ~TableFull, NEW name \in Name, sysCreatePipe(p, name)
  PROVE  RolesInv'
<1> DEFINE object == CreatedPipe(p, name)
<1> USE DEF RolesInv
<1>1. ObjectKinds /\ TypeOK
  BY DEF TableInv
<1>2. /\ object \in Object /\ object.openedByPid = p /\ object.type = "PIPE"
      /\ object.kernelSpaceBuffer = NewKernelBuffer
      /\ object.lockedForWriting = p
      /\ p # 0
  BY <1>1, CreatedPipeIsObject, ObjectAssumption
<1>3. /\ NewKernelBuffer \in KernelBuffer
      /\ \A e \in Entry : objects[e].kernelSpaceBuffer # NewKernelBuffer
  BY <1>1, BufferIsFree
<1>4. Opens(p, Inserted(object), 1)
  BY <1>1, CreatePipeOpens
<1> HIDE DEF object
<1>5. PipeInserted(object)
  BY <1>2, <1>4, PipeOpenInserts
<1>6. TableInv' /\ TakenInOrder'
  BY <1>2, <1>4, <1>5, OpenPreserves, PipeInsertedKeepsOrder
<1>7. FirstIsCreator'
  <2> SUFFICES ASSUME NEW e \in Entry, objects'[e].type = "PIPE"
               PROVE  \E w \in Entry : /\ SameBuffer(w, e)' /\ Creator(w)'
                                       /\ \A v \in Entry : SameBuffer(v, e)' => w <= v
    BY DEF FirstIsCreator
  <2>1. CASE e = NewEntry
    <3>1. \A v \in Entry : SameBuffer(v, e)' => v = NewEntry
      BY <1>2, <1>3, <1>5, <2>1 DEF PipeInserted, SameBuffer
    <3>2. SameBuffer(e, e)' /\ Creator(e)'
      BY <1>2, <1>5, <2>1 DEF PipeInserted, SameBuffer, Creator
    <3> QED
      BY <2>1, <3>1, <3>2, ObjectAssumption DEF Entry
  <2>2. CASE e # NewEntry
    <3>1. objects[e].type = "PIPE" /\ objects[e].kernelSpaceBuffer \in KernelBuffer
      BY <1>1, <1>5, <2>2 DEF PipeInserted, ObjectKinds
    <3>2. PICK w \in Entry : /\ SameBuffer(w, e) /\ Creator(w)
                             /\ \A v \in Entry : SameBuffer(v, e) => w <= v
      BY <3>1 DEF FirstIsCreator
    <3>3. w # NewEntry
      BY <1>5, <3>1, <3>2, ZeroObjectIsObject DEF PipeInserted, SameBuffer
    <3>4. SameBuffer(w, e)' /\ Creator(w)'
      BY <1>5, <2>2, <3>2, <3>3 DEF PipeInserted, SameBuffer, Creator
    <3>5. \A v \in Entry : SameBuffer(v, e)' => SameBuffer(v, e)
      BY <1>2, <1>3, <1>5, <2>2 DEF PipeInserted, SameBuffer
    <3> QED
      BY <3>2, <3>4, <3>5
  <2> QED
    BY <2>1, <2>2
<1>8. OneCreator'
  BY <1>2, <1>3, <1>5 DEF OneCreator, Creator, SameBuffer, PipeInserted
<1> QED
  BY <1>6, <1>7, <1>8

\* A reader that opens the pipe comes behind its creator.
LEMMA OpenKeepsRoles ==
  ASSUME RolesInv, NEW p \in Pid, ~TableFull, NEW name \in Name, sysOpenPipe(p, name)
  PROVE  RolesInv'
<1> DEFINE object == OpenedPipe(p, name)
<1> USE DEF RolesInv
<1>1. ObjectKinds /\ TypeOK
  BY DEF TableInv
<1>2. Pipes(name) # {} /\ Opens(p, Inserted(object), 1)
  BY <1>1, OpenPipeOpens
<1>3. /\ object \in Object /\ object.openedByPid = p /\ object.type = "PIPE"
      /\ object.kernelSpaceBuffer \in KernelBuffer
      /\ object.lockedForWriting = 0
      /\ p # 0
  BY <1>1, <1>2, OpenedPipeIsObject, ObjectAssumption
<1>4. PICK found \in Entry : /\ objects[found].type = "PIPE"
                             /\ object.kernelSpaceBuffer = objects[found].kernelSpaceBuffer
  BY <1>1, <1>2, OpenedPipeIsObject
<1> HIDE DEF object
<1>5. PipeInserted(object)
  BY <1>2, <1>3, PipeOpenInserts
<1>6. TableInv' /\ TakenInOrder'
  BY <1>2, <1>3, <1>5, OpenPreserves, PipeInsertedKeepsOrder
<1>7. FirstIsCreator'
  <2> SUFFICES ASSUME NEW e \in Entry, objects'[e].type = "PIPE"
               PROVE  \E w \in Entry : /\ SameBuffer(w, e)' /\ Creator(w)'
                                       /\ \A v \in Entry : SameBuffer(v, e)' => w <= v
    BY DEF FirstIsCreator
  <2>1. PICK f \in Entry : /\ objects[f].type = "PIPE"
                           /\ objects[f].kernelSpaceBuffer = objects'[e].kernelSpaceBuffer
    BY <1>4, <1>5 DEF PipeInserted
  <2>2. PICK w \in Entry : /\ SameBuffer(w, f) /\ Creator(w)
                           /\ \A v \in Entry : SameBuffer(v, f) => w <= v
    BY <2>1 DEF FirstIsCreator
  <2>3. w # NewEntry /\ w < NewEntry
    <3>1. objects[w].openedByPid # 0
      BY <1>1, <2>2, ZeroObjectIsObject DEF ObjectKinds, Creator
    <3> QED
      BY <1>5, <3>1, ObjectAssumption DEF PipeInserted, Entry
  <2>4. SameBuffer(w, e)' /\ Creator(w)'
    BY <1>5, <2>1, <2>2, <2>3 DEF PipeInserted, SameBuffer, Creator
  <2>5. \A v \in Entry : SameBuffer(v, e)' => v = NewEntry \/ SameBuffer(v, f)
    BY <1>5, <2>1 DEF PipeInserted, SameBuffer
  <2> QED
    BY <1>5, <2>2, <2>3, <2>4, <2>5, ObjectAssumption DEF Entry
<1>8. OneCreator'
  BY <1>3, <1>5 DEF OneCreator, Creator, SameBuffer, PipeInserted
<1> QED
  BY <1>6, <1>7, <1>8

\* A transfer and a panic leave blocks and locks where they were.
LEMMA TransferKeepsRoles ==
  ASSUME RolesInv, Transfers \/ Panic \/ UNCHANGED vars
  PROVE  RolesInv'
<1>1. TableInv'
  BY TransferPreserves, PanicPreserves DEF RolesInv
<1>2. \A e \in Entry :
        /\ objects'[e].openedByPid = objects[e].openedByPid
        /\ objects'[e].type = objects[e].type
        /\ objects'[e].kernelSpaceBuffer = objects[e].kernelSpaceBuffer
        /\ objects'[e].lockedForWriting = objects[e].lockedForWriting
  <2>1. TypeOK
    BY DEF RolesInv, TableInv
  <2>2. CASE Panic \/ UNCHANGED vars
    BY <2>2 DEF Panic, vars
  <2>3. CASE Transfers
    <3> TAKE e \in Entry
    <3>1. objects[e] \in Object
      BY <2>1 DEF TypeOK
    <3>2. objects'[e] = [objects[e] EXCEPT !.writeOffset = objects'[e].writeOffset]
      BY <2>3 DEF Transfers
    <3>3. PICK old, new, offset : /\ old = objects[e] /\ new = objects'[e]
                                  /\ offset = objects'[e].writeOffset
      OBVIOUS
    <3>4. old \in Object /\ new = [old EXCEPT !.writeOffset = offset]
      BY <3>1, <3>2, <3>3
    <3>5. /\ new.openedByPid = old.openedByPid /\ new.type = old.type
          /\ new.kernelSpaceBuffer = old.kernelSpaceBuffer
          /\ new.lockedForWriting = old.lockedForWriting
      BY <3>4 DEF Object
    <3> QED
      BY <3>3, <3>5
  <2> QED
    BY <2>2, <2>3
<1>3. TakenInOrder'
  BY <1>2 DEF RolesInv, TakenInOrder
<1>4. /\ \A e, f \in Entry : SameBuffer(e, f)' <=> SameBuffer(e, f)
      /\ \A e \in Entry : Creator(e)' <=> Creator(e)
  BY <1>2 DEF SameBuffer, Creator
<1>5. FirstIsCreator'
  BY <1>2, <1>4 DEF RolesInv, FirstIsCreator
<1>6. OneCreator'
  BY <1>4 DEF RolesInv, OneCreator
<1> QED
  BY <1>1, <1>3, <1>5, <1>6 DEF RolesInv

\* Every step of programs that keep to their roles keeps the invariant.
LEMMA RolesPreserved == RolesInv /\ [RolesNext]_vars => RolesInv'
<1> SUFFICES ASSUME RolesInv, [RolesNext]_vars
             PROVE  RolesInv'
  OBVIOUS
<1> USE DEF RolesInv, TableInv
<1>1. CASE UNCHANGED vars
  BY <1>1, TransferKeepsRoles
<1>2. ASSUME NEW p \in Pid, NEW name \in Name, sysCreatePipe(p, name)
      PROVE  RolesInv'
  <2>1. CASE TableFull
    BY <1>2, <2>1, TransferKeepsRoles DEF sysCreatePipe
  <2>2. CASE ~TableFull
    BY <1>2, <2>2, CreateKeepsRoles
  <2> QED
    BY <2>1, <2>2
<1>3. ASSUME NEW p \in Pid, NEW name \in Name, sysOpenPipe(p, name)
      PROVE  RolesInv'
  <2>1. CASE TableFull
    BY <1>3, <2>1, TransferKeepsRoles DEF sysOpenPipe
  <2>2. CASE ~TableFull
    BY <1>3, <2>2, OpenKeepsRoles
  <2> QED
    BY <2>1, <2>2
<1>4. ASSUME NEW p \in Pid, NEW fd \in Fd,
             \/ \E data \in Data : UserStore(p, fd, data)
             \/ sysWrite(p, fd)
             \/ sysRead(p, fd)
      PROVE  RolesInv'
  BY <1>4, StoreTransfers, WriteTransfers, ReadTransfers, TransferKeepsRoles
<1> QED
  BY <1>1, <1>2, <1>3, <1>4 DEF RolesNext

\* Every reachable state of such programs satisfies the invariant.
LEMMA RolesInvariant == RolesSpec => []RolesInv
BY RolesInitially, RolesPreserved, PTL DEF RolesSpec

\* The writer sysRead finds is the creator.
LEMMA CreatorIsWriter ==
  ASSUME RolesInv, NEW e \in Entry, objects[e].type = "PIPE"
  PROVE  Creator(Writer(e))
<1>1. /\ Writer(e) \in Entry /\ SameBuffer(Writer(e), e)
      /\ \A v \in Entry : SameBuffer(v, e) => Writer(e) <= v
  BY WriterIsPipe DEF RolesInv, TableInv, SameBuffer
<1>2. PICK w \in Entry : /\ SameBuffer(w, e) /\ Creator(w)
                         /\ \A v \in Entry : SameBuffer(v, e) => w <= v
  BY DEF RolesInv, FirstIsCreator
<1>3. w = Writer(e)
  BY <1>1, <1>2, ObjectAssumption DEF Entry
<1> QED
  BY <1>2, <1>3

\* However many processes open a pipe and in whatever order, the first entry
\* with its block, which sysRead takes for the writer, is the creator's.
THEOREM WriterIsCreator_RolesSpec == RolesSpec => []WriterIsCreator
<1>1. RolesInv => WriterIsCreator
  BY CreatorIsWriter DEF WriterIsCreator
<1> QED
  BY <1>1, RolesInvariant, PTL

-----------------------------------------------------------------------------
(* A named pipe implements PipeBuffer *)

UnreadOf == [b \in KernelBuffer |-> Unread(b)]

\* With one creator per block, what waits in a pipe is told by its entry.
LEMMA UnreadOfCreator ==
  ASSUME RolesInv, NEW w \in Entry, Creator(w), NEW b \in KernelBuffer,
         objects[w].kernelSpaceBuffer = b
  PROVE  Unread(b) = IF objects[w].writeOffset = FULL THEN kernelBuffer[b] ELSE Empty
<1>1. \A e \in Entry : objects[e].kernelSpaceBuffer = b /\ Creator(e) => e = w
  BY DEF RolesInv, OneCreator, SameBuffer
<1> QED
  BY <1>1 DEF Unread

\* What waits in a pipe changes only with its block and its creator's entry.
LEMMA UnreadUnchanged ==
  ASSUME NEW b \in KernelBuffer, kernelBuffer'[b] = kernelBuffer[b],
         \A e \in Entry :
           (objects'[e].kernelSpaceBuffer = b /\ Creator(e)' /\ objects'[e].writeOffset = FULL)
           <=> (objects[e].kernelSpaceBuffer = b /\ Creator(e) /\ objects[e].writeOffset = FULL)
  PROVE  Unread(b)' = Unread(b)
BY DEF Unread

\* No pipe is open and the buffer is empty.
LEMMA InitRefines == Init => Pipe!Init
<1> SUFFICES ASSUME Init
             PROVE  Pipe!Init
  OBVIOUS
<1>1. \A e \in Entry : ~Creator(e) \/ objects[e].kernelSpaceBuffer \notin KernelBuffer
  BY TableInitially, ZeroObjectIsObject DEF Init, Creator, KernelBuffer
<1>2. \A b \in KernelBuffer : Unread(b) = Empty
  BY <1>1 DEF Unread
<1> QED
  BY <1>2 DEF Pipe!Init, Init

\* An open changes its own block, and nothing waits in the new entry's name.
LEMMA OpenRefines ==
  ASSUME NEW p \in Pid, NEW object, NEW moves, object.writeOffset = 0,
         PipeInserted(object), Opened(p, Inserted(object), moves)
  PROVE  Pipe!Next
<1>1. ASSUME NEW b \in KernelBuffer
      PROVE  Unread(b)' = Unread(b)
  <2>1. kernelBuffer'[b] = kernelBuffer[b]
    BY DEF Opened
  <2>2. ASSUME NEW e \in Entry
        PROVE  (objects'[e].kernelSpaceBuffer = b /\ Creator(e)' /\ objects'[e].writeOffset = FULL)
               <=> (objects[e].kernelSpaceBuffer = b /\ Creator(e) /\ objects[e].writeOffset = FULL)
    <3>1. CASE e = NewEntry
      BY <3>1, ZeroObjectIsObject DEF PipeInserted, Creator, FULL
    <3>2. CASE e # NewEntry
      BY <3>2 DEF PipeInserted, Creator
    <3> QED
      BY <3>1, <3>2
  <2> QED
    BY <2>1, <2>2, UnreadUnchanged
<1>2. NewEntry \in Entry
  BY DEF PipeInserted
<1>3. /\ userspaceBuffer' = [userspaceBuffer EXCEPT ![NewEntry] = Zero]
      /\ delivered' = [delivered EXCEPT ![NewEntry] = FALSE]
  BY DEF Opened
<1>4. Pipe!Store(NewEntry)
  BY <1>1, <1>3, ObjectAssumption DEF Pipe!Store
<1> QED
  BY <1>2, <1>4 DEF Pipe!Next

\* A program stores into its own block, which is a step of the buffer.
LEMMA StoreRefines ==
  ASSUME TypeOK, ObjectKinds, NEW p \in Pid, NEW fd \in Fd, NEW data \in Data,
         UserStore(p, fd, data)
  PROVE  Pipe!Next
<1>1. fileDescriptor[p][fd] \in Entry
  BY PipeDescriptor DEF UserStore
<1>2. \A b \in KernelBuffer : Unread(b)' = Unread(b)
  BY DEF UserStore, Unread, Creator
<1>3. Pipe!Store(fileDescriptor[p][fd])
  BY <1>2 DEF Pipe!Store, UserStore
<1> QED
  BY <1>1, <1>3 DEF Pipe!Next

\* The creator's write is accepted exactly when nothing waits.
LEMMA WriteRefines ==
  ASSUME RolesInv, RolesInv', NEW p \in Pid, NEW fd \in Fd, sysWrite(p, fd),
         Creator(fileDescriptor[p][fd])
  PROVE  Pipe!Next
<1>1. TypeOK /\ ObjectKinds
  BY DEF RolesInv, TableInv
<1>2. PICK own \in Entry, block \in KernelBuffer :
        own = fileDescriptor[p][fd] /\ block = objects[own].kernelSpaceBuffer
  BY <1>1, PipeDescriptor DEF sysWrite
<1>3. /\ objects' = [objects EXCEPT ![own].writeOffset = FULL]
      /\ kernelBuffer' = [kernelBuffer EXCEPT ![block] = userspaceBuffer[own]]
      /\ objects[own].writeOffset # FULL
      /\ UNCHANGED <<userspaceBuffer, delivered>>
  BY <1>2 DEF sysWrite
<1>4. Creator(own)
  BY <1>2
<1>5. /\ objects'[own] = [objects[own] EXCEPT !.writeOffset = FULL]
      /\ objects[own] \in Object
      /\ \A e \in Entry \ {own} : objects'[e] = objects[e]
  BY <1>1, <1>2, <1>3 DEF TypeOK
<1>6. /\ objects'[own].kernelSpaceBuffer = block
      /\ objects'[own].writeOffset = FULL
      /\ objects'[own].lockedForWriting = objects[own].lockedForWriting
  BY <1>2, <1>5 DEF Object
<1>7. Unread(block) = Empty
  BY <1>2, <1>3, <1>4, UnreadOfCreator
<1>8. Unread(block)' = userspaceBuffer[own]
  <2>1. \E e \in Entry : /\ objects'[e].kernelSpaceBuffer = block
                         /\ Creator(e)' /\ objects'[e].writeOffset = FULL
    BY <1>2, <1>4, <1>6 DEF Creator
  <2>2. Unread(block)' = kernelBuffer'[block]
    BY <2>1 DEF Unread
  <2> QED
    BY <1>1, <1>2, <1>3, <2>2 DEF TypeOK
<1>9. ASSUME NEW b \in KernelBuffer, b # block
      PROVE  Unread(b)' = Unread(b)
  <2>1. kernelBuffer'[b] = kernelBuffer[b]
    BY <1>1, <1>3, <1>9 DEF TypeOK
  <2>2. objects[own].kernelSpaceBuffer # b /\ objects'[own].kernelSpaceBuffer # b
    BY <1>2, <1>6, <1>9
  <2>3. \A e \in Entry :
          (objects'[e].kernelSpaceBuffer = b /\ Creator(e)' /\ objects'[e].writeOffset = FULL)
          <=> (objects[e].kernelSpaceBuffer = b /\ Creator(e) /\ objects[e].writeOffset = FULL)
    BY <1>5, <2>2 DEF Creator
  <2> QED
    BY <2>1, <2>3, UnreadUnchanged
<1>10. UnreadOf' = [UnreadOf EXCEPT ![block] = userspaceBuffer[own]]
  BY <1>2, <1>8, <1>9 DEF UnreadOf
<1>11. Pipe!Write(own, block)
  BY <1>2, <1>3, <1>7, <1>10 DEF Pipe!Write, UnreadOf
<1> QED
  BY <1>2, <1>11 DEF Pipe!Next

\* A read is accepted exactly when a block waits; it takes that block out.
LEMMA ReadRefines ==
  ASSUME RolesInv, RolesInv', NEW p \in Pid, NEW fd \in Fd, sysRead(p, fd)
  PROVE  Pipe!Next
<1>1. TypeOK /\ ObjectKinds
  BY DEF RolesInv, TableInv
<1>2. PICK own \in Entry, block \in KernelBuffer, writer \in Entry :
      /\ own = fileDescriptor[p][fd] /\ objects[own].type = "PIPE"
      /\ block = objects[own].kernelSpaceBuffer
      /\ writer = Writer(own)
      /\ objects[writer].kernelSpaceBuffer = block
      /\ \A e \in Entry :
           objects'[e] = [objects[e] EXCEPT !.writeOffset =
                            CASE e = writer -> 0
                              [] e # writer /\ e = own -> FULL
                              [] OTHER -> objects[e].writeOffset]
  BY <1>1, ReadOffsets
<1>3. /\ userspaceBuffer' = [userspaceBuffer EXCEPT ![own] = kernelBuffer[block]]
      /\ delivered' = [delivered EXCEPT ![own] = TRUE]
      /\ objects[writer].writeOffset # 0
      /\ UNCHANGED kernelBuffer
  BY <1>2 DEF sysRead
<1>4. Creator(writer)
  BY <1>2, CreatorIsWriter
<1>5. ASSUME NEW e \in Entry
      PROVE  /\ objects'[e].kernelSpaceBuffer = objects[e].kernelSpaceBuffer
             /\ objects'[e].lockedForWriting = objects[e].lockedForWriting
             /\ e = writer => objects'[e].writeOffset = 0
             /\ e \notin {writer, own} => objects'[e] = objects[e]
  <2>1. objects[e] \in Object
    BY <1>1 DEF TypeOK
  <2>2. CASE e = writer
    BY <1>2, <2>1, <2>2 DEF Object
  <2>3. CASE e # writer /\ e = own
    BY <1>2, <2>1, <2>3 DEF Object
  <2>4. CASE e # writer /\ e # own
    BY <1>2, <2>1, <2>4 DEF Object
  <2> QED
    BY <2>2, <2>3, <2>4
<1>6. Unread(block) = kernelBuffer[block]
  <2>1. objects[writer].writeOffset = FULL
    BY <1>1, <1>2, <1>3 DEF TypeOK, Object
  <2> QED
    BY <1>2, <1>4, <2>1, UnreadOfCreator
<1>7. Unread(block)' = Empty
  <2>1. ASSUME NEW e \in Entry, objects'[e].kernelSpaceBuffer = block, Creator(e)'
        PROVE  objects'[e].writeOffset # FULL
    <3>1. Creator(e) /\ objects[e].kernelSpaceBuffer = block
      BY <1>5, <2>1 DEF Creator
    <3>2. e = writer
      BY <1>2, <1>4, <3>1 DEF RolesInv, OneCreator, SameBuffer
    <3> QED
      BY <1>5, <3>2 DEF FULL
  <2> QED
    BY <2>1 DEF Unread
<1>8. ASSUME NEW b \in KernelBuffer, b # block
      PROVE  Unread(b)' = Unread(b)
  <2>1. objects[own].kernelSpaceBuffer # b /\ objects[writer].kernelSpaceBuffer # b
    BY <1>2, <1>8
  <2>2. \A e \in Entry :
          (objects'[e].kernelSpaceBuffer = b /\ Creator(e)' /\ objects'[e].writeOffset = FULL)
          <=> (objects[e].kernelSpaceBuffer = b /\ Creator(e) /\ objects[e].writeOffset = FULL)
    BY <1>5, <2>1 DEF Creator
  <2> QED
    BY <1>3, <2>2, UnreadUnchanged
<1>9. UnreadOf' = [UnreadOf EXCEPT ![block] = Empty]
  <2>1. \A b \in KernelBuffer : Unread(b)' = IF b = block THEN Empty ELSE Unread(b)
    BY <1>7, <1>8
  <2>2. UnreadOf' = [b \in KernelBuffer |-> IF b = block THEN Empty ELSE Unread(b)]
    BY <2>1 DEF UnreadOf
  <2> QED
    BY <1>2, <2>2 DEF UnreadOf
<1>10. kernelBuffer[block] # Empty
  <2>1. kernelBuffer[block] \in Data
    BY <1>1, <1>2 DEF TypeOK
  <2> QED
    BY <2>1, ObjectAssumption
<1>11. Pipe!Read(own, block)
  BY <1>2, <1>3, <1>6, <1>9, <1>10 DEF Pipe!Read, UnreadOf
<1> QED
  BY <1>2, <1>11 DEF Pipe!Next

\* Every step of such programs is a step of the buffer or none.
LEMMA RolesStepRefines ==
  RolesInv /\ RolesInv' /\ [RolesNext]_vars => [Pipe!Next]_(Pipe!bufferVars)
<1> SUFFICES ASSUME RolesInv, RolesInv', [RolesNext]_vars
             PROVE  Pipe!Next \/ UNCHANGED Pipe!bufferVars
  OBVIOUS
<1>1. TypeOK /\ ObjectKinds /\ TableInv /\ TakenInOrder
  BY DEF RolesInv, TableInv
<1>2. CASE Panic \/ UNCHANGED vars
  <2>1. \A b \in KernelBuffer : Unread(b)' = Unread(b)
    BY <1>2 DEF Panic, vars, Unread, Creator
  <2> QED
    BY <1>2, <2>1 DEF Pipe!bufferVars, Panic, vars
<1>3. ASSUME NEW p \in Pid, NEW name \in Name, sysCreatePipe(p, name)
      PROVE  Pipe!Next \/ Panic
  <2>1. CASE TableFull
    BY <1>3, <2>1 DEF sysCreatePipe
  <2>2. CASE ~TableFull
    <3>1. /\ Opens(p, Inserted(CreatedPipe(p, name)), 1)
          /\ CreatedPipe(p, name) \in Object
          /\ CreatedPipe(p, name).writeOffset = 0
      BY <1>1, <1>3, <2>2, CreatePipeOpens, CreatedPipeIsObject
    <3>2. PipeInserted(CreatedPipe(p, name))
      BY <1>1, <3>1, PipeOpenInserts
    <3> QED
      BY <3>1, <3>2, OpenRefines DEF Opens
  <2> QED
    BY <2>1, <2>2
<1>4. ASSUME NEW p \in Pid, NEW name \in Name, sysOpenPipe(p, name)
      PROVE  Pipe!Next \/ Panic
  <2>1. CASE TableFull
    BY <1>4, <2>1 DEF sysOpenPipe
  <2>2. CASE ~TableFull
    <3>1. Opens(p, Inserted(OpenedPipe(p, name)), 1) /\ Pipes(name) # {}
      BY <1>1, <1>4, <2>2, OpenPipeOpens
    <3>2. OpenedPipe(p, name) \in Object /\ OpenedPipe(p, name).writeOffset = 0
      BY <1>1, <3>1, OpenedPipeIsObject
    <3>3. PipeInserted(OpenedPipe(p, name))
      BY <1>1, <3>1, <3>2, PipeOpenInserts
    <3> QED
      BY <3>1, <3>2, <3>3, OpenRefines DEF Opens
  <2> QED
    BY <2>1, <2>2
<1>5. ASSUME NEW p \in Pid, NEW fd \in Fd,
             \/ \E data \in Data : UserStore(p, fd, data)
             \/ sysWrite(p, fd) /\ Creator(fileDescriptor[p][fd])
             \/ sysRead(p, fd)
      PROVE  Pipe!Next
  BY <1>1, <1>5, StoreRefines, WriteRefines, ReadRefines
<1> QED
  BY <1>2, <1>3, <1>4, <1>5 DEF RolesNext

\* With one side writing, a named pipe delivers every block exactly once: the
\* kernel's pipes implement PipeBuffer, for every number of processes, entries,
\* names and blocks.
THEOREM ImplementsPipeBuffer_RolesSpec == RolesSpec => ImplementsPipeBuffer
BY InitRefines, RolesStepRefines, RolesInvariant, PTL
   DEF RolesSpec, ImplementsPipeBuffer, Pipe!Spec
=============================================================================
