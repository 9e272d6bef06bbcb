# ikanOS v5 in TLA+

A verification development for ikanOS v5, a 32-bit x86 teaching kernel with its
user programs (`src/ikanOSv5-1-Bootloader-Base/`, called `B/` below; the other
two directories of `src/` hold one or two files of a later assignment each). The
repository is the student edition: some functions have an empty body marked
`ASSIGNMENT n TO DO`. Where the modules need one of them they state what its
header comment and its callers require, and mark it *external*.

Modules are plain TLA+. `X.tla` is a component and `XProofs.tla` its theorems
(`KernelServicesProofs.tla` those of the kernel heap, the disk cache and the receive ring,
`UserProgramsProofs.tla` those of the user programs and the timer, `ToolchainProofs.tla` those of
the compiler and the assembler, `ProgramsProofs.tla` those of all programs together), and
`MC*.cfg` a model-checking run that must pass; `V*.cfg` is a run that shows, by a
counterexample, that the code does not do what a comment or a message in it says.

## 1. The system

### How it runs

One processor runs the kernel and one process at a time. (A second processor is
started and counts ticks.) A process enters the kernel by `int 0x80`, with
interrupts off; the call runs to its end, changes tables at fixed physical
addresses and returns to the same process or to another one. Two exceptions to
"a system call is atomic" matter:

- `systemInterruptHandler` (timer) turns interrupts on again before it prints
  the uptime, and allocates from the kernel heap while it does; so do `sysWait`
  and a few viewers.
- the disk outlives the machine: a power loss can come between any two sectors.

There is no preemption between user processes: a process gives the processor away
by a call (`exec`, `exit`, `switch`). `scheduler()` is called after each call and is
a stub.

### Components

| component | state | operations | what makes it correct |
|---|---|---|---|
| Block layer and read cache (`fs.cpp:18-147`) | sectors on the disk, 168 cache lines with tags, a 32-bit access clock | `readBlock`, `writeBlock`, `diskReadSector`, `diskWriteSector` | a reader sees what was last written; a line is never stale, no sector is in two lines; the victim is the least recently used |
| Process table (`vm.cpp`, `syscalls.cpp`, `init.cpp`, `trap.cpp`) | 32 task structs, `RUNNING_PID_LOC`, CR3 | `initializeTask`, `sysExec`, `sysExit`, `sysSwitchToParent`, `sysKill`, `sysFree`, `sysSwitch`, fault handlers, init's recovery | one process runs, in its own address space; nobody dead is resumed; slots are neither lost nor given out twice |
| Object table, descriptors, pipes (`file.cpp`, `syscalls.cpp`) | 64 table entries, 15 descriptors a process, pipe buffers | `sysOpen`, `sysOpenEmpty`, `sysCreatePipe`, `sysOpenPipe`, `sysCreateNetworkPipe`, `sysRead`, `sysWrite`, `sysClose`, `lockFile` | one writer per file; what is open can be reached and closed; a pipe loses and repeats nothing |
| Kernel heap (`libc-main.cpp:555-627`) | 768 slots of one pid byte and data | `kMalloc`, `kFree`, `kFreeAll` | no slot has two owners, none is lost, null means full, also under nested interrupts |
| Ext2 (`fs.cpp:149-914`) | usage maps, inode table, directory blocks, data blocks | `createFile`, `deleteFile`, `moveFile`, `changeFileMode`, lookups | directories stay scannable, a block has one owner, a crash leaves no name without an inode and no file without a name |
| Semaphores (`vm.cpp:175-252`) | semaphore words | `createSemaphore`, `acquireLock`, `releaseLock` | every path that takes a lock releases it (one processor, interrupts off: never contended) |
| Network (`net.cpp`) | NE2000 ring pointers, queue of ten UDP packets, sockets' buffers | `netInit`, `netUDPRcv`, `netUDPSend`, checksum, ARP replies | packets whole, in order, none twice, pages handed back in time, a call that ends |
| Keyboard and command line (`keyboard.cpp`, `readInputLine` of `edlin.cpp` and `adventure.cpp`) | scan codes and characters in one buffer, shift | `readKeyboard`, `readCommand`, `readInputLine` | the line handed on is the one that was typed |
| Timer and waits (`syscalls.cpp`) | tick counters, run and sleep times of processes | `sysWait`, `systemInterruptHandler` | a wait ends and not early; the times of a process add up to its age |
| Kernel log (`syscalls.cpp:2923`) | 768 events | `insertKernelLog` | the last events survive |
| Paging and frames (`vm.cpp`, `frame-allocator.cpp`) | page tables, frame map | `requestSpecificPage`, `freePage`, ... | stubs |
| Shell (`sh.cpp`) | history of 30 rows of 30 bytes | recording and listing lines; one branch per command, scripts, pipelines | the history lists what was typed, in order |
| Line editor (`edlin.cpp`) | 250 lines, the current line, a temporary file | `editTextLine`, `startInsert`, `insertNewLine`, `deleteTextLine`, loading, saving | a command changes one line; what was saved is loaded again |
| C compiler (`cc.cpp`) | symbol table, data and text of the assembler file | a recursive descent parser that emits as it goes | the program does what the source says |
| Assembler (`al.cpp`) | labels, code and data sections | two passes over the lines, the ELF file | both passes agree on every address |
| Adventure (`adventure.cpp`) | rooms, places of objects, grate, vase | `go`, `take`, `drop`, magic words, keys | the game of the walkthrough can be played |
| Screen editor, viewers, other games and tests (`ex`, `cat`, `dungeon`, ...) | their own buffers | commands | not modelled |

### How components interact

System calls are the only callers. `sysExec` uses the file system to find the
file, the heap for its name and arguments, the process table and the pages;
`sysOpen` uses the file system and the object table; pipes take their buffers from
the kernel heap; `createFile` takes its data from an open object's user buffer; the
file system sits on the block layer, the block layer on the ATA registers. The
timer interrupt touches only the heap, the tick counters and the screen. The network
card writes its own ring at any time; `sysRead` of a socket polls it. Objects
share state by aliasing: every entry that has a pipe open holds the same kernel
buffer address, and `sysRead` recovers the writer from that address.

User programs meet the kernel through the system calls only, and each other through
files: `cc` writes the assembler file that `al` reads, the editor and the shell's
pipelines pass files of fixed names (`edtmp`, `pipein`, `pipeout`).

### What is hard

Interleavings of processes between calls (pipes, locks, process life), nested
timer interrupts inside `kMalloc`, power losses between writes, tables and
counters at their limits (the last slot, block 12 of a file, inode 65, the clock
wrap), and stale references to processes that were killed meanwhile. In the programs
it is long sequences of commands: two passes of an assembler that must agree on every
length, arrays shifted in place, rings and cursors at their ends, and a save that the
power may cut in two. `hazards` in
`PROJECT.json` lists them by line, with the property that watches each or the
reason why none does.

## 2. Modules

### `Scan`, `ScanProofs`
`FirstOf(S)`, the slot a scan from the lowest index finds. Every table of the kernel
is searched this way. The theorem `FirstOfIsFirst` says it is the least member. Two lemmas that stand for
induction over places are beside it: what holds at 0 and goes on from each place to the next holds everywhere
(`AllPlaces`), and a recursive equation has a solution (`SolutionExists`).

### `DiskCache`, with `SectorStore` as its specification
`SectorStore` is a disk without a cache: a transfer of some sectors begins and goes on
sector by sector; a power loss drops the transfer and keeps the disk. `DiskCache` is
the code: `ReadBlock`/`WriteBlock` start a transfer (the loops of `readBlock` and
`writeBlock`); `CacheHit`, `CacheFill` and `CacheEvict` are the three ways through
`diskReadSector`; `diskWriteSector` zeroes the whole cache and writes one sector. The
access clock wraps at `ClockModulus` (2^32 in the code), and the victim is chosen by
the code's strict comparison against the largest value. `DiskCacheLRU` adds the
history of uses, which of two cached sectors was asked for before the other, in which "least recently used" can
be said without the clock.

The ATA bodies of `diskReadSector` and `diskWriteSector` are stubs: `DiskRead` and
`DiskWrite` read or write one sector, whole.

### `ProcessTable`, `ProcessTableProofs`
A slot is numbered by the pid it would hold. `sysExec` is four actions, one per way out
of the function: the table is full (panic), a page is missing (panic), the file is
rejected (the child is killed and CR3 goes back to the caller), the program starts.
`sysExit`, `sysSwitchToParent`, `SwitchTask` (`switch` or the scheduler), `KillTask`,
`sysFree`, and the two steps of init's `main` in an init that a fault handler started.
The guards are those of the libc wrappers (`systemKill`, `systemTaskSwitch`,
`systemSwitchToParent`), through which all programs call. A freed process that still
has the processor (its parent freed it) can only fault: `Launchable`.

Two specifications: `Spec` is everything; `LaunchSpec` leaves out kill, switch and
recovery, that is, what shells and programs that only start others can do. The call
stack property holds of the second only, and the run `VExitNotToDead` shows why.

### `OpenObjects`, `OpenObjectsProofs`, with `PipeBuffer` as its specification
The object table, descriptors and pipes. Each open (`sysOpen`, `sysOpenEmpty`, the pipe
calls) is one action with the code's order of tests; the table's scan panics at the
last entry, used or not. `lockFile` keeps both scans. A pipe's payload is one value:
`sysWrite` and `sysRead` always copy the whole buffer and set the offset to
`PIPE_BUF_SIZE - 1` or 0, so an offset is full or empty. `PipeBuffer` says what a pipe
promises: one block at a time, each delivered once.

Three specifications: `Spec` is the shipped kernel (`sysClose` is empty),
`ClosingSpec` adds a close written after `closeAllFiles`, and `RolesSpec` restricts
programs to the roles that the commented-out check at `syscalls.cpp:186-193` would
enforce (only the creator writes). Pipes are correct under the third and not under the
first: a process that opened a pipe by name and writes to it overwrites unread data.

### `KernelHeap`
System calls allocate in one step (interrupts are off). A timer interrupt pushes a
handler, which runs `kMalloc` access by access - test a slot, take it - five times and
then frees; another interrupt may nest between any two accesses. A byte of pid is the
whole state of a slot.

### `Timer`, `ProcessTimes`
`Timer` is one caller, a user program in `wait` or a system call, of `sysWait` or `sysWaitOneInterrupt` beside the interrupts: the wait computes
its end from the counter of the system timer, and ends at a poll that finds the counter past it.
Counters have `CounterModulus` values (2^32). Interrupts come at any time, which is every
time they are on: in user mode and in waits.

`ProcessTimes` is `ProcessTable` (its `LaunchNext`) with the times in the task structs. A call zeroes
them as it launches and frees processes; the interrupt between two calls adds to the time of the
process that runs and of every one that sleeps.

### `Ext2`, `Ext2Proofs`
One action per write: the inode map, the block map, a data block, the indirect block,
the inode table, the directory. Between two of them `PowerLoss` may happen, which
loses the call and keeps the disk. A directory is the sequence of its records with
their lengths; the smallest record is the unit of length. A data block remembers which
part of which file it was written for, which is all that reading back needs. Files are
named by small values, some long (a record of two units).

`tempStructs` is the memory behind the first 64 inodes: `writeInodeEntry` and
`deleteFile` read and write back only those, whatever the inode.

### `NetReceive`
The card and `netUDPRcv`. The card (external) stores packets round its ring of pages and
moves `CURR`; the driver reads the boundary, then `CURR` once, then takes packet after
packet: header, data, release, each a step of its own, because the card may receive
between any two. `SkipBad` is the path of an invalid header. `Process` releases the pages
and then works on the copy, so what it does with the copy (queue it, answer an ARP
request, ignore it) is in the same step: the card cannot see it. `pending` is a history
of what arrived and was not taken; `expected` remembers which UDP packets were there when
`CURR` was read. A page knows which part of which packet it holds, which is how a mixed
copy would show. One assumption about the card is stated in `Arrives`: it never lets
`CURR` reach the boundary, because the driver would take the full ring for one that
starts anew. The last packet's copy in `NETWORK_INCOMING_RCV_BUFFER` is left out (nothing
reads it), as are the bytes of addresses and headers.

### `Compiler`, `Assembler`, `Processor`, composed by `Toolchain`
`AssemblerLines` has the lines that pass between the two programs, with their operands
parsed. `Compiler` takes a source file one statement or brace at a time; the statement is
a choice, so the behaviours of the module are source files. One action is one branch of
`parseStatement` with the code it emits; a block remembers the label that its end will
need. `compileSource`, which puts the data section in front of the text, is the action
that ends it. `Assembler` is the two passes: `firstPass` adds up the sizes the first pass
*expects*, `secondPass` emits the instructions, each of the length it *has*; labels,
relocation of strings and the entry of the ELF header follow the code. `FirstPass` and `SecondPass` are functions of the
number of lines passed, each value made from the one before by `FirstPassLine` or `SecondPassLine`. `Fits` says of a file that
neither a section buffer nor the table of labels is full: the passes say nothing when one is. `Processor`
(external) executes the instructions `al` can encode and writes library calls, `int 0x80`
and stores through pointers into a trace.

`Toolchain` joins the three as `code/compiler.sh` does and states what the C source means
without looking at the compiler: `SourceRun` executes the statements themselves, with a
local environment, calls and loops. `RunsAsWritten` compares its trace with that of the
program. It is claimed of `Translated` sources: those that use only what the two
programs handle (`Untranslated` lists the rest, and the end of section 3 says why).
`ToolchainInputs` has the statements to choose from. `ToolPrograms` has the variables, the instance of `Toolchain`
and the assumption on its constants: the buffers have some room, and statements are parsed (`StatementsParsed`: what an
expression adds are integers, a string has a length, the arguments of a call are a sequence).

### `Edlin`
The array of lines with its current line, shifted in place as the code does (line `i`
takes what line `i - 1` *now* holds), insertion mode, and the three steps of a save: the
temporary file is created (`openTemp`), the target is created from the buffer (`writeTarget`), the temporary file is
deleted (`deleteTemp`). `loadFileContent` cuts a file into lines: `LineEnd` is where its inner loop stops,
`LineStart` the function, defined by recursion, of where each line begins. A line that is typed holds no newline and no
zero (`EdlinConstants`): enter ends it. Power may fail between the steps of a save; the editor starts again on the directory that is
left. A directory is a sequence of entries, because `createFile` appends without looking
for the name and `fsFindFile` takes the first match. `Word` stands for 2^32: the current line
is an unsigned number that wraps below zero, and the start of the listing wraps above: paging down after a jump to the
end of the range gives a low line, or line 0, from which nothing is listed (`edlin.cpp:140`).

### `LineInput`
`readCommand` keeps scan codes and characters in one stretch of memory, 64 bytes
apart, and moves one pointer for both; `readInputLine` keeps characters only.
Both are compared with `typed`, what the user means: a key adds a character, a backspace
takes one back. `misled` marks the inputs after which the buffer of `readCommand` is known
not to hold what was typed (section 3).

### `Shell`
`history_buf` is one stretch of bytes, the rows one behind the other. `record` copies a fixed number of bytes of the line
typed, whatever its length, and writes the zero behind the row, which is the first byte of the next; `ShownEnd` is where a
row that is listed ends, in its own row or in a later one. Of the commands only `q` is followed, which ends the shell: what the others
call is in the modules of the kernel.

### `Adventure`
One action per command that changes the game. `connections` is the map of the code, with the
walkthrough's part of it apart (`connections_Walkthrough`).

### `ConsolePrograms`, `Programs`
`ConsolePrograms` has an INSTANCE of `LineInput`, `Shell` and `Edlin`, each with variables of its own, their properties and
the assumption on their constants. `Programs` extends it, `ToolPrograms`, the adventure and the timer: its
behaviours are those of one of the programs at a time, so that one run has the
properties of all. Their theorems are in `UserProgramsProofs` and `ToolchainProofs`, and `ProgramsProofs` has them for `Programs`. No state is shared between programs: what starts is zeroed memory.

## 3. Runs

Deadlock is checked except where the system really stops: after a panic (process
table, object table), and after a write through null (heap). All runs use two workers
and take less than three minutes.

| run | instance | what it shows |
|---|---|---|
| `MCDiskCache` | 2 blocks of 2 sectors, a boot sector, 2 lines, clock modulo 5 | `Coherent`, `NoAlias`, the refinement of `SectorStore`, and that evictions are LRU until the clock wraps |
| `MCProcessTable` | 5 slots, all actions | `OneRunning`, `OwnAddressSpace`, `PanicOnlyWhenFull`, `SlotNotReused` |
| `MCProcessTableLaunch` | `ProcessTimes` (`TimesSpec`, which is `LaunchSpec` with interrupts), 5 slots, times modulo 2 | `CallChain`, `ResumesSleeper`, `Accounted` |
| `MCOpenObjects` | 7 entries, 5 descriptors, 2 processes, 1 file, 1 pipe name, `ClosingSpec` | `OneLockPerInode`, `Reachable` |
| `MCPipes` | 7 entries, 6 descriptors, 2 processes, 2 contents, `RolesSpec` | `WriterIsCreator`, the refinement of `PipeBuffer` |
| `MCKernelHeap` | 5 slots, 2 processes, 2 strings a handler, 3 handlers nested | `Exclusive`, `UsedIsHeld`, `NullOnlyWhenFull` |
| `MCExt2` | 2 directories, 3 free inodes (one behind the table's loaded part), 4 free blocks, 1 direct block, files of 1 or 3 blocks, 2 names | `DirectoryIsCovered`, `BlocksAreOwned`, `NameHasInode`, `DirectBlocksIntact`, `OnlyDeleteUnnames` |
| `MCNetReceive` | a ring of 5 pages, packets of 1 or 2, a queue of 2, `NetFairSpec` | `RingHoldsPending`, `ReadsIntactPacket`, `DeliversWhatArrived`, and `ReceiveEnds` |
| `MCPrograms` | source files of up to 8 places with a function `f`, texts of 3 lines of 3 characters, a directory of 3, a keyboard buffer of 3, a history of 3 rows of 3 bytes and lines of up to 4, 8 objects of the adventure, a timer of 2 ticks a second with counters modulo 8; `ProgramsFairSpec` | `LabelsArePositions`, `RunsAsWritten`, `EditsOneLine`, `SavedTextIsLoaded`, `LineIsTyped`, `HistoryInOrder`, `EggsOutOfReach`, `WaitsFullTime`, and `WaitsEnd` |

Why the bounds are enough.
*DiskCache*: a block read fills the cache, the next sector evicts, a second sector of
the same read evicts again; a write in the middle empties it; five reads wrap the
clock. More lines or blocks repeat these.
*ProcessTable*: five slots hold init, a chain of two, a sibling and the slot at which
the code panics; parents die while children run, slots are freed and given out in a
different order.
*OpenObjects*: three entries are the standard streams and the last is never used, so
three remain: two processes with the same file, a pipe, and the full table.
*KernelHeap*: two calls hold slots while three nested handlers want six of five slots,
so the heap gets full at every depth.
*Timer*: eight values of a counter and waits of one and two ticks start before, at and behind its wrap, and both counters wrap
again and again, at different times. *ProcessTimes*: four usable slots are given out, freed and given out again, with
up to three callers asleep, while the times wrap; the proof is for any width.
*Ext2*: with four free blocks the disk gets full in the middle of a file, in the
direct and in the indirect part; a directory of five units has room for one long
record more or none; a move within a directory, moves of a file that already has two
names after a power loss, and names used twice all occur.
*NetReceive*: three packets can lie in the ring, one more than the queue takes; packets
of two pages wrap at the end; the card refills pages while the driver works on the rest.
*Programs*: source files reach a loop, a nested condition, a call of a function of the file and of the
library, a system call, strings at two addresses, and immediates on both sides of 127, where the length of an instruction
changes; the arrays of the compiler have room for 4 symbols, 500 characters and 5 arguments (64, 4096 and 5 in the code), so that
some source files overflow and end there; `Fuel` is more than any of these programs executes. The text is filled, cut and emptied, and its
last page is filled to the last character, where a zero no longer fits (pages have four characters here); the directory gets full,
and a temporary file is left over from a power loss. Five keys pass the boundary of a
buffer of three; four lines pass the end of a history of three rows, and lines shorter than a row, as long as one and longer
follow each other in every order. The eight
objects are those any rule of the adventure names; the others are only carried. Things are dropped in
room 18, the end of the way the map has; the theorem covers every object and every room.

`MaxNesting` (heap) is a bound that is not a size of the system: the kernel
stack bounds nesting in the code. So are `Ids` and `Requests` (network), the moduli of the two
packet counters; `Ids` is large enough to tell all packets in the ring apart. `EditedEntries`, `MaxPosition` and
`MaxRecorded` bound the files there are while a text is edited, the keys of a line and the
commands of a session. The descriptor that may be stored one past the array
(`Fd`) is followed once (`FdCapped`); the code would go on. `createFile` in `Ext2` is
guarded by a free inode; the code has no such guard and would write in front of the
inode table.

Every property of a passing run has a mutant in the module it is about, an operator
`X_Something` above the definition `X` that changes it as a slip in the code would;
the property fails when it replaces `X`.

### Where the code and its words disagree

| run | property | the code |
|---|---|---|
| `VExitNotToDead` | `ExitNotToDead` | `syscalls.cpp:862` tests `!= SLEEPING \|\| != RUNNING`, which is always true, so `sysExit` resumes a parent that was killed |
| `VWritesWholeBuffer` | `WritesWholeBuffer` | `fs.cpp:568` skips block 12 of a buffer: the index has counted the indirect block |
| `VTextIsWritten` | `TextIsWritten` | `cc.cpp:1418` moves the text behind a data header of fourteen characters also when none is written, although `cc.cpp:1392` says the output is assembled "with data and text sections" |

These have no run. They are in the modules all the same, which follow the code, and
properties that they would break say so in their condition.

*Kernel.* `sysWrite` tests fullness in the caller's entry and not in the writer's
(`syscalls.cpp:195`), so a process that opened a pipe by name overwrites an unread block.
`createFile` writes back 64 inodes whatever the number of the one it changed
(`fs.cpp:526`): a file with a later inode has a name and no inode on the disk. `init.cpp:20` kills the pid before init's own, which need not be
the process that faulted once slots are reused; `initializeTask` panics at the last free slot, so 31
processes is the most, not the 32 of `README.md:55`; `sysCreatePipe` and its
siblings do not test the descriptor limit that `sysOpen` tests (`syscalls.cpp:81`)
and store the sixteenth descriptor into `binaryName`; `sysOpen` of a file locked by
another process goes on without the lock although `file.h:72` says a lock means
"opened with RDWRITE permissions"; `kFreeAll` compares one byte of pid as four. `kInit` zeroes 4096 bytes of a process table of 6144 (`kernel.cpp:40`); the models start with a table of zeroes.

*Timer.* A wait whose end wraps ends at once, and one whose end is the largest value of the counter never ends
(`syscalls.cpp:2164` compares with `<=`); after 331 days both can happen. Otherwise a wait takes one tick more than a second,
and `sysWaitOneInterrupt` two. The uptime
is divided out of the count of all interrupts, the keyboard's too, and is put back to 0 when it is 60 and at no other minute (`syscalls.cpp:3491`): 59 is followed by 0
and then by 61, although `syscalls.h:81` calls it "The uptime in seconds."

*Keyboard.* A backspace at the start of a command says "Do nothing" (`keyboard.cpp:256`) and still moves
the pointer, which leaves a hole before the command; so does a key without a character. The 65th key overwrites the first
character. `LineIsTyped` is about lines without these.

*Shell.* A row of the history has 30 bytes, and the zero behind 30 characters goes to the first byte of the row below
(`sh.cpp:128`). The next line overwrites it, so a line of 30 characters or more (the keyboard's buffer allows 63) is listed with the line
below it behind; `HistoryInOrder` says so. Behind the last row the zero goes to `history_index`; there `HistoryInOrder` ends.

*Editor.* `edlin.md:80` says that a save "overwrites existing files"; `createFile` appends a
second entry of that name and the first is loaded. After the only line is deleted, or `i` and `.` at the start, the
current line is 0xFFFFFFFF. A line number far beyond the text is accepted, and an insertion there is
stored outside the text. A temporary file left over by a power loss takes the next save, and a full directory loses it without a word.

*Compiler and assembler.* `if` is compiled to `je`, which `al` does not know; a comparison of
a register with memory becomes one with zero; labels of `if` and of `while` share their numbers; a
declaration with a value enters its name twice; the result of a system call is lost by the `popa`
behind it; the program starts at its first function, whatever its name; a
call of a function that is nowhere has a size and no code; a statement that is not recognised is never passed, so the compiler does not end.
`Untranslated` and `Translated` name the ones that a source file of the runs can meet.
`cc` tests none of its arrays: it prints that there are too many variables and stores the 65th behind the table (`cc.cpp:113`), reads a
string of 50 characters or more into a token of 50 bytes (`cc.cpp:255`), and has room for five arguments where it tests for six
(`cc.cpp:1005`); the code of an expression and the output have no test at all. The models follow the sources that fit: the behaviours of `Compiler`
end where an array would overflow (`InArrays`). The two passes of `al` disagree about a `mov` of a small number to memory: the first counts
four bytes for the number (`al.cpp:486`, whose comment says "mov mem, imm32") and the second emits one (`al.cpp:742`), so that every
label behind it is off. A string of 62 characters or more, which fits no token of `cc`, emits nothing. `cc` writes no such lines, and
`LabelsArePositions` is about what `cc` writes.

*Adventure.* The walkthrough in the file's first comment goes east from room 18 to room 21; the map
has no such exit, so the eggs cannot be had and the game cannot be won: `EggsOutOfReach`, proved.

## 4. Fairness

Two specifications state fairness. `NetFairSpec` of `NetReceive`: weak fairness of the steps of a
call that has begun. The code justifies it: a system call runs with interrupts off and
gives the processor to nobody, and each wait for the card gives up after 100000 polls
(`net.cpp:176-182`, `222-228`). Nothing is assumed of the card or of the programs: no
packet need ever arrive, no call need ever be made. `ReceiveEnds` holds although the card
may receive for ever, because `CURR` is read once.

`ProgramsFairSpec`, for a program that waits: the system timer goes on ticking (weak fairness of `TimerInterrupt`), which is the hardware's part, with
interrupts on in a wait; and the loop of a wait polls again and again (strong fairness of `WaitEnds`). The
strong form is needed because the counter is past the end only until it wraps; the loop makes thousands of polls in a tick, so
it sees the counter at every value. No wait need ever begin, and no other interrupt need come.

Elsewhere no liveness is claimed. A process that runs may compute for ever or wait for a
key, nothing preempts it, and the scheduler that could is a stub; no process is promised
the processor. The user programs wait for keys, which nobody promises.

## 5. Proofs

`tlapm` checks these for every value of the constants that satisfies the named
assumptions of the modules (sizes are natural numbers large enough to hold the fixed
entries).

**`KernelServicesProofs`**. The disk cache: `TypeCorrect`, `CacheCoherent`, `CacheHasNoAlias`, `Refinement`, `EvictionIsLRU`.
The inductive invariant is `CacheInv == TypeOK /\ Coherent /\ NoAlias`. None of the parts is
inductive alone: coherence of a fill needs that the line chosen is a line (`TypeOK`),
and absence of aliases needs that a fill happens only after a miss of *all* lines.
`TransferInDisk` bounds the sector index by the disk, the arithmetic of block numbers.
`Refinement` maps the state one to one, forgetting the cache; a hit is the abstract read of
that sector because of `Coherent` - that is where the theorem is not a matter of form.
`EvictionIsLRU` compares the victim, which the code chooses by the times it stored, with the history. `HistoryInv`
adds `TimesInOrder`: until the clock wraps, no valid line has a time beyond the clock's, no two have the same,
and times are ordered as the history orders the sectors. It needs `NoAlias`: a sector in two lines has two times.

The kernel heap: `HeapTypeCorrect`, `SlotsAreExclusive`, `NothingIsLost`, `NullMeansFull`, for any size of the
heap and any depth of nesting. `Exclusive` is not inductive: a handler takes the slot it tested earlier, and others
ran in between. `HeapInv` adds `ScansRight`: the slots that an interrupted handler has passed, and
that it will not test again, are still held by callers or by handlers below it, because the ones above free only their own; and the slot it is
about to take is held by none of these. It needs the order of the stack, which is why interrupts may nest in a `kMalloc` that has no lock.

The receive ring: `PacketsStayInTheRing`, `CopiesArePackets`, `DeliversInOrder`, for any ring of at least the pages that one
packet and one free page need, any packets and any size of the queue. `RingInv` lays the pending
packets one behind the other (`Laid`: an offset for each, the total leaves a page free) from the page behind the
boundary to `CURR`, and says of every page what it holds. A page of the ring is its distance from the first (`Behind`), so
round the end of the ring is no case of its own once distances add up (`BehindAdds`). In a call, `Calling` says how many of the pending
packets were there when `CURR` was read: the driver stops after these, whatever arrives meanwhile, and the ids it has queued
and those it will still queue are together what `expected` is. A reader of `DeliversWhatArrived` alone would miss both: it says something of idle
states only.

**`ProcessTableProofs`**: `TypeCorrect`, `OneProcessRuns`, `AddressSpaceIsOwn`, `NoSlotIsLost`,
`SlotsAreNotReused` of `Spec`, and `CallersWait`, `OnlySleepersResume` of `LaunchSpec`.
`ProcessInv` joins `TypeOK`, `OneRunning`, `OwnAddressSpace`, `PanicOnlyWhenFull` with
`HasParent`: the running process, if it is not process 1, has a parent that is a slot of the
table. Without that, `sysExit` could index the table by `KERNEL_OWNED` (255). `LaunchInv`
adds `Chained`: a chain of callers of some length `n`, each asleep and the parent of the
next, from process 1 to the running one. A launch extends the chain, a return cuts it, `sysFree`
touches only zombies and killed processes, which are not in it. `CallChain` bounds the
length by the table; the bound follows because a chain has no process twice
(`ChainFits`, by cardinality).

`TimesAddUp` is about `ProcessTimes`, on top of `LaunchInv`. The chain of callers is what makes it true: `sysExit` wakes a
parent without a look at its state, and if that parent were dead, the interrupts since its death would be missing
(`Continues`: nobody is alive after a call who was not alive before or launched by it). A process launched in a
used slot starts from zero because a free slot has slept for no time (`FreeSlotsClean`).

**`OpenObjectsProofs`**: `TypeCorrect`, `OneLock_ClosingSpec`, `ObjectsReachable` for a kernel with a close, and
`ShippedTableCorrect`, the same of the shipped one, which takes fewer steps. `TableInv` is the inductive
invariant of the table. `Reachable` alone is not inductive: a new descriptor overwrites what stands in its
place, and a close clears an entry, so `Descriptors` says that no two descriptors refer to one entry, that
an entry is its opener's, and that the descriptors still to be given out hold at most an object of
`sysOpenEmpty`; `ObjectKinds` that a free entry is all zero, so that a close leaves no lock behind.
`OneLockPerInode` rests on `TableInv` and on the scan of `lockFile`, which meets every entry of the inode
before it locks one. `WriterIsCreator_RolesSpec` and `ImplementsPipeBuffer_RolesSpec` are about programs that keep to the roles of
the pipe. `RolesInv` adds that entries are taken in order (`TakenInOrder`: nothing closes one, so that none is used a second time, and of entries that are used again
nothing is claimed), hence that the first
entry with a pipe's block, at which the scan of `sysRead` stops, is the creator's (`FirstIsCreator`), and that there is one
creator (`OneCreator`). The refinement reads the waiting block off the creator's offset; each action of the kernel is a
step of `PipeBuffer` or a stutter, and an open of a pipe must not change what the others wait for.

**`Ext2Proofs`**: `TypeCorrect`, `InodeBeforeName`, `MoveKeepsAName`, `ScansSeeEveryFile`, `BlocksHaveOneOwner`,
`FilesKeepTheirBlocks`, for any disk, directories, names and files, write by write and with power losses
between. `StructureInv` joins the types with the shape of a directory (itself and its parent, then files), with what a create in
progress has reached (`Creating`: its inode is marked and no directory's, there is room for its
record, and from the directory phase on its inode is in the table) and what a delete or a move still relies on (`Removing`: the
record it will remove is there, and a move has named the inode twice - hence `MoveKeepsAName`).
`Covered` says the lengths of the records add up to the block *by an offset function that exists*; creates split the last
record, deletes give a length to the record in front, and `OffsetCovers` shows that `Offset` is that
function. `BlocksInv` is the invariant of blocks: one owner for each block a file refers to (`Owned`), but also
for those a create has taken and not yet written into its inode (`GotOwned`, without which two files could get the same block), the contents of
the blocks the create has written so far (`GotWritten`), and those of every file on the disk.

**`ScanProofs`**: `FirstOfIsFirst`, from the well-ordering of the naturals.

**`UserProgramsProofs`**: `GameIsNeverWon`, `EggsOutOfReach` in every play, for every set of objects the player
touches (a subset of the game's) and every room they are dropped in. `EggsOutOfReach` is not inductive: that the player
stays out of the rooms cut off (19 to 23) needs that no exit from outside leads into them
(`ExitsStayOutside`, over the whole map), that the eggs stay needs that they can be taken only in their own
room and that all places are rooms (`TypeOK`), and that the game is not won needs that the win counts the eggs in the building
(`NoWinWithoutEggs`).

`TypeCorrect` and `WaitsAreFull` are about `Timer`, for any width of the counters and any rate of the timer. `Elapsed` relates the
counter to the interrupts since the wait began: the counter has not come further than these account for, and a counter that wrapped is only
behind.

`ReadsWhatIsTyped` is `LineIsTyped` for any lengths of the buffers and any letters. The property speaks of the line handed on, so
`ReadingInv` follows the memory at every key: the characters typed and not taken back stand where the reader will look for them
(`CommandRead`, `LineRead`), and enter leaves a newline or a zero behind them - what an older, longer line left there is overwritten
or lies behind that end. It uses that the ends of a string are values no key gives (`CharactersAreApart`).

`HistoryIsInOrder` is `HistoryInOrder` for any number and width of rows and lines of any length. `HistoryInv` says what every byte of the
rows recorded is (`RowByte`), and that a zero stands behind the last of them; a line that is recorded takes that zero's place (`RunKeepsHistory`).
What is listed of a row is then found from the place where it ends (`ShownEndIs`): a line shorter than its row ends in it, and one
that fills its row ends where the row below ends, so that the list has the one in front of the other (`LineIsShown`).

`EditorKeepsItsTypes` and `EditsStayInPlace` are about `Edlin`, for buffers of any size, a file with anything in it and any lines
typed that fit a line. The types of the text rest on those of the files: loading must give at most `MAX_LINES` lines of at most
`MAX_LINE_LENGTH` characters out of whatever the disk holds (`LoadedIs`), for which every line must start in the content
(`LineStartIs`). `EditorInv` adds that a file being saved has its temporary file, which the later steps of the save and a
restart rely on. `EditsOneLine` then compares two texts, each the first lines of the array (`TextIs`): an insertion that shifts the array in place is
`InsertAt` of the sequence and a deletion is `RemoveAt` of it, line by line (`InsertedIs`, `RemovedIs`), also when the current line is
the last, the text is full, or the deleted line was the only one and the number of the current line wraps.

`SavedIsLoaded` is `SavedTextIsLoaded` for any text and any page size. `CharactersAreLaid` says where each line lies among the characters
that are written, `LineIsReadBack` that the inner loop of loading stops at the end of that line and nowhere before, also when the line
has the full length, and `RoundTrip` that the outer loop makes the same lines and stops at the zero behind them. The zero is there
because the pages have room (`PagesHaveRoom`), unless the characters fill the last page - the exception the property makes.
`SaveInv` carries from the first step of the save to the second that the temporary file has pages for the
text of *now*; `SaveIsLoaded` is the bookkeeping of the directory when the new file is added behind it, and `DeletionKeepsFile` that
the file saved is still the first of its name when the temporary file goes away in front of it.

**`ToolchainProofs`**: `ToolchainTyped` and `LabelsAreTruePositions`, for any statements a source file may have, files of any
length that fits cc's arrays and any sizes of al's buffers. `LabelsArePositions` is not true of every assembler file, so the proof begins with
the compiler: `CompilerInv` says that every line cc has written is of one of a few forms (`CodeLine`, `DataLine`), that every jump it has
written has its label or belongs to a block that is still open (`CodeInv`), that the label of an open `while` stands in the code (`Nested`), and
that a string has two lines, its label and its bytes. A file that is done (`CompilerLaysOut`) is then a data section
in front of a text section, with a label for each of its jumps (`Layout`). For a line of these forms the two passes of al agree although they
compute the size in different code: `LineSize`, which the first pass adds up, is the number of the bytes the second emits
(`CodeLineBytes`, `DataLineKinds`; one lemma for each kind of instruction) - unless the label is unknown, when the second emits nothing. That
cannot happen in a file that fits: a label entered by any line is found afterwards (`LabelsAreFound`, because the table
only grows, `TableGrows`). So after every line the second pass is where the first was (`PassesAgree`): in the same
section and with as many bytes, none of them dropped because the total the first pass counted fits (`FirstGrows`). The address of a label is
where the first pass was at the label's first line; that line is found by its entry in the table (`LabelIsPosition`).
`ToolInv` joins these with the buffers, which `emitBytes` cuts at `MAX_CODE` and `addLabel` at `MAX_LABELS`.

**`ProgramsProofs`**: `EachProgramRuns` says that `Programs` is each of the programs side by side (`StepsAreOfPrograms`: a step of one
leaves the variables of the others alone, so it is a stutter of these). All that is proved of a single program then holds of
`Programs` (`ProgramsKeepTheirPromises`), and `ProgramsTyped` is the type invariant of them together. Its two parts that
were not needed before are `StaysInLine` (the pointer of `readCommand` goes two back and one forward at a backspace and
never before the buffer; `readInputLine` never passes the end of the line) and `StaysInRows` (the index of the history goes round its rows).
It says of the editor, the assembler, the line that is read and the history that their indices stay in their arrays. It says nothing of
the compiler's arrays, which the code does not test, and the start of the editor's listing may be 0.

Functions defined by recursion (the offsets of records and of packets, the ids taken from a ring, the starts of lines, characters of a text, the passes of al) are proved about without the induction theorems,
whose operator parameter the provers cannot instantiate: that a property goes from place to place (`AllPlaces`, also that two
solutions of the equation agree) and that a solution exists (`SolutionExists`) follow from a least counterexample, by the
well-ordering of the naturals.

Only model-checked: `RunsAsWritten` of the compiler and the assembler, and the two liveness properties (`ReceiveEnds`,
`WaitsEnd`). What a program computes (`RunsAsWritten`) would need an induction over the steps of two machines, with a relation between
their environments that no step of the model states; the proofs of `ToolchainProofs` end where the bytes are in the file.
Liveness is out of the prover's reach.

## 6. Not modelled

- Paging and the frame allocator: the functions are stubs, there is no code.
- Boot, interrupt tables, screen, sound: straight-line hardware set-up and output. Their
  result is the `Init` of the modules.
- `kFreeAll`, `freeBlock`, `freeAllBlocks`, `readNextAvailableBlock`: no caller.
- `netUDPSend`: straight-line frame building and one transmission; semaphores: never contended as shipped.
- The viewers among the system calls (`ps`, dumps): they print.
- Kernel log: an
  append to a table only its viewer reads. The user heap is the kernel heap's code with one caller at a time.
- Of the programs modelled: the compiler's scanner and what it does with sources it rejects, the machine code as bits, the
  map and help of the adventure, the shell's arguments, system calls and pipelines, its prompt and the heap it allocates words from, the editor's screen, a save of an empty text.
- `ex` and the viewers: they show lists and files. `dungeon`: its layout is drawn from a fixed seed, so it is one computation; its
  fights are arithmetic on a few numbers. The tests and samples only make system calls.
- Contents: file data, names and packets are values of small sets.

## 7. Plan

1. `Scan`, `DiskCache` with `SectorStore`, `ProcessTable`, `OpenObjects` with `PipeBuffer`, `KernelHeap`,
   `Ext2`, `NetReceive`; proofs for the first three. *Done.*
2. The command line (`LineInput`), the shell, the editor with its files, the compiler and assembler with the
   processor, the adventure and its proof; `Programs` over them. *Done.*
3. `Timer` with the fairness of the timer, `ProcessTimes` over `ProcessTable`, and their proofs; the proof of
   `KernelHeap`. *Done.*
4. The reading side of `Ext2` (path lookup, sizes), `changeFileMode`, the usage-map counts against the maps.
5. `KernelLog`, checksum and number conversions as operators checked against reference definitions; the screen of `ex`.
6. Proofs: `OneLockPerInode`, `Reachable` and the refinement of `PipeBuffer`;
   `DirectoryIsCovered` and `BlocksAreOwned` for any disk; `RingHoldsPending` and `ReadsIntactPacket` for any ring; `LineIsTyped` and
   `HistoryInOrder` for any sizes; `EditsOneLine` and `SavedTextIsLoaded` for any text; `EvictsLeastRecentlyUsed` for any cache. *Done.*
7. Proofs: the sizes of the assembler's two passes, with the invariant of what the compiler has written; the types of
   all programs. *Done.*
8. Proofs: the meaning of a single statement as a relation between `Processor` and `SourceRun`, as a first part of `RunsAsWritten`.

Compositions worth having: `Ext2` over `DiskCache` (a block write is four sectors, so a power loss may
tear the directory block), `Edlin`'s save over `Ext2`, and `OpenObjects` with the pipe buffers of `KernelHeap`.
