----------------------------- MODULE DiskCache -----------------------------
(***************************************************************************)
(* The block layer of fs.cpp as the kernel uses it (cacheActive = true):   *)
(* readBlock and writeBlock move a block sector by sector through the      *)
(* fully associative LRU read cache of diskReadSector, and diskWriteSector *)
(* empties that cache before it writes the sector to the disk.             *)
(*                                                                         *)
(* The bodies that talk to the ATA controller are left to the student      *)
(* ("ASSIGNMENT 2 TO DO"): DiskRead and DiskWrite stand for them, after    *)
(* the comments of fs.h.  The statistics KERNEL_CACHE_HITS and _MISSES,    *)
(* which only a viewer prints, are left out.                               *)
(*                                                                         *)
(* A power loss may happen between two sectors.  The disk keeps what was   *)
(* written and the next boot finds the cache memory zero.                  *)
(***************************************************************************)
EXTENDS Integers, Scan

CONSTANTS
  CACHE_SIZE,         \* lines of the cache (168 in constants.h)
  EXT2_SECTOR_START,  \* first sector of the file system (0x200)
  SectorsPerBlock,    \* BLOCK_SIZE / SECTOR_SIZE (4)
  Blocks,             \* blocks of the file system
  Data,               \* contents of one sector
  Zero,               \* the contents fillMemory leaves
  ClockModulus        \* accessTime counts modulo this (2^32)

ASSUME CacheAssumption ==
  /\ CACHE_SIZE \in Nat \ {0}
  /\ EXT2_SECTOR_START \in Nat
  /\ SectorsPerBlock \in Nat \ {0}
  /\ Blocks \in Nat \ {0}
  /\ Zero \in Data
  /\ ClockModulus \in Nat \ {0}

Sector == 0 .. EXT2_SECTOR_START + Blocks * SectorsPerBlock - 1
Line == 0 .. CACHE_SIZE - 1
Block == 0 .. Blocks - 1

VARIABLES
  disk,             \* sectors of the ATA disk
  transfer,         \* the readBlock, writeBlock or sector read in progress
  destination,      \* destinationMemory, one cell per sector of a block
  CacheLineDetail,  \* DISK_READ_CACHE_LOC: [sector, valid, accessTime]
  cacheData,        \* DISK_READ_CACHE_DATA, one cell per line
  cacheLRUtime      \* fs.cpp:15, wraps at ClockModulus

Store == INSTANCE SectorStore WITH MaxTransfer <- SectorsPerBlock

cacheVars == <<CacheLineDetail, cacheData, cacheLRUtime>>
vars == <<disk, transfer, destination, CacheLineDetail, cacheData, cacheLRUtime>>

Detail == [sector : Sector, valid : {0, 1}, accessTime : 0 .. ClockModulus - 1]
ZeroDetail == [sector |-> 0, valid |-> 0, accessTime |-> 0]

Init ==
  /\ Store!Init
  /\ CacheLineDetail = [l \in Line |-> ZeroDetail]
  /\ cacheData = [l \in Line |-> Zero]
  /\ cacheLRUtime = 0

-----------------------------------------------------------------------------
(* The transfers *)

SectorStart(blockNumber) ==
  blockNumber * SectorsPerBlock + EXT2_SECTOR_START

\* readBlock: up to the first diskReadSector.
ReadBlock(blockNumber) ==
  /\ transfer = Store!Idle
  /\ transfer' = Store!Read(SectorStart(blockNumber), SectorsPerBlock)
  /\ UNCHANGED <<disk, destination, cacheVars>>

\* writeBlock: up to the first diskWriteSector.
WriteBlock(blockNumber, source) ==
  /\ transfer = Store!Idle
  /\ transfer' = Store!Write(SectorStart(blockNumber), SectorsPerBlock, source)
  /\ UNCHANGED <<disk, destination, cacheVars>>

\* A bare diskReadSector: sysDiskSectorDump, startApplicationProcessor.
ReadOneSector(sector) ==
  /\ transfer = Store!Idle
  /\ transfer' = Store!Read(sector, 1)
  /\ UNCHANGED <<disk, destination, cacheVars>>

-----------------------------------------------------------------------------
(* diskReadSector with cacheActive *)

sectorNumber == transfer.first + transfer.x

\* Mutant: the lookup leaves out the last line.
Hits_OffByOne == { l \in Line : /\ CacheLineDetail[l].valid = 1
                                /\ CacheLineDetail[l].sector = sectorNumber
                                /\ l < CACHE_SIZE - 1 }

Hits == { l \in Line : /\ CacheLineDetail[l].valid = 1
                       /\ CacheLineDetail[l].sector = sectorNumber }

InvalidLines == { l \in Line : CacheLineDetail[l].valid = 0 }

\* The line with the lowest accessTime, the first of them, when none is
\* invalid; line 0 when the strict test against 0xFFFFFFFF never holds.
LRULine ==
  LET below == { l \in Line : CacheLineDetail[l].accessTime < ClockModulus - 1 }
      oldest == { l \in below : \A k \in below :
                    CacheLineDetail[l].accessTime <= CacheLineDetail[k].accessTime }
  IN IF below = {} THEN 0 ELSE FirstOf(oldest)

Tick == (cacheLRUtime + 1) % ClockModulus

CopyOut(contents) ==
  destination' = [destination EXCEPT ![transfer.x] = contents]

\* Mutant: a hit does not count as a use of the line.
CacheHit_NoTouch ==
  /\ transfer.kind = "read"
  /\ Hits # {}
  /\ CopyOut(cacheData[FirstOf(Hits)])
  /\ Store!Advance
  /\ UNCHANGED <<disk, cacheVars>>

CacheHit ==
  /\ transfer.kind = "read"
  /\ Hits # {}
  /\ LET l == FirstOf(Hits) IN
       /\ CopyOut(cacheData[l])
       /\ CacheLineDetail' = [CacheLineDetail EXCEPT ![l].accessTime = Tick]
  /\ cacheLRUtime' = Tick
  /\ Store!Advance
  /\ UNCHANGED <<disk, cacheData>>

\* External: diskReadSector(sectorNumber, tempBuffer, false).
DiskRead(sector) == disk[sector]

\* Mutant: the caller's copy is made before the line is loaded.
LoadLine_CopyFirst(l) ==
  /\ cacheData' = [cacheData EXCEPT ![l] = DiskRead(sectorNumber)]
  /\ CacheLineDetail' = [CacheLineDetail EXCEPT
       ![l] = [sector |-> sectorNumber, valid |-> 1, accessTime |-> Tick]]
  /\ cacheLRUtime' = Tick
  /\ CopyOut(cacheData[l])
  /\ Store!Advance
  /\ UNCHANGED disk

\* The part of a miss after a line is chosen.
LoadLine(l) ==
  /\ cacheData' = [cacheData EXCEPT ![l] = DiskRead(sectorNumber)]
  /\ CacheLineDetail' = [CacheLineDetail EXCEPT
       ![l] = [sector |-> sectorNumber, valid |-> 1, accessTime |-> Tick]]
  /\ cacheLRUtime' = Tick
  /\ CopyOut(DiskRead(sectorNumber))
  /\ Store!Advance
  /\ UNCHANGED disk

CacheFill ==
  /\ transfer.kind = "read"
  /\ Hits = {}
  /\ InvalidLines # {}
  /\ LoadLine(FirstOf(InvalidLines))

CacheEvict ==
  /\ transfer.kind = "read"
  /\ Hits = {}
  /\ InvalidLines = {}
  /\ LoadLine(LRULine)

-----------------------------------------------------------------------------
(* diskWriteSector with cacheActive *)

\* Mutant: the data is zeroed, the tags are not.
FlushCache_DataOnly ==
  /\ UNCHANGED CacheLineDetail
  /\ cacheData' = [l \in Line |-> Zero]

FlushCache ==
  /\ CacheLineDetail' = [l \in Line |-> ZeroDetail]
  /\ cacheData' = [l \in Line |-> Zero]

\* External: the ATA write of one sector.
DiskWrite(sector, contents) == disk' = [disk EXCEPT ![sector] = contents]

diskWriteSector ==
  /\ transfer.kind = "write"
  /\ FlushCache
  /\ DiskWrite(sectorNumber, transfer.source[transfer.x])
  /\ Store!Advance
  /\ UNCHANGED <<destination, cacheLRUtime>>

\* External: the machine stops and boots again with zeroed memory.
PowerLoss ==
  /\ transfer' = Store!Idle
  /\ destination' = [i \in 0 .. SectorsPerBlock - 1 |-> Zero]
  /\ CacheLineDetail' = [l \in Line |-> ZeroDetail]
  /\ cacheData' = [l \in Line |-> Zero]
  /\ cacheLRUtime' = 0
  /\ UNCHANGED disk

Next ==
  \/ \E b \in Block : ReadBlock(b)
  \/ \E b \in Block, source \in Store!Buffer : WriteBlock(b, source)
  \/ \E s \in Sector : ReadOneSector(s)
  \/ CacheHit
  \/ CacheFill
  \/ CacheEvict
  \/ diskWriteSector
  \/ PowerLoss

Spec == Init /\ [][Next]_vars

-----------------------------------------------------------------------------
(* Properties *)

Transfer ==
  { Store!Idle }
    \cup [kind : {"read"}, first : Sector, count : 1 .. SectorsPerBlock,
          x : 0 .. SectorsPerBlock - 1]
    \cup [kind : {"write"}, first : Sector, count : 1 .. SectorsPerBlock,
          x : 0 .. SectorsPerBlock - 1, source : Store!Buffer]

\* The types of all the state, and that a transfer never runs past its last
\* sector or past the end of the disk.
TypeOK ==
  /\ disk \in [Sector -> Data]
  /\ destination \in Store!Buffer
  /\ CacheLineDetail \in [Line -> Detail]
  /\ cacheData \in [Line -> Data]
  /\ cacheLRUtime \in 0 .. ClockModulus - 1
  /\ transfer \in Transfer
  /\ transfer # Store!Idle =>
       /\ transfer.x < transfer.count
       /\ transfer.first + transfer.count - 1 \in Sector

\* A valid cache line holds what the disk holds for its sector, whatever the
\* order of block reads, block writes and evictions: the flush of
\* diskWriteSector is never too late and the fill never stores another sector.
Coherent ==
  \A l \in Line :
    CacheLineDetail[l].valid = 1 => cacheData[l] = disk[CacheLineDetail[l].sector]

\* The lookup and the fill of diskReadSector never leave one sector in two
\* lines, so a hit does not depend on the order of the scan.
NoAlias ==
  \A l, k \in Line :
    /\ CacheLineDetail[l].valid = 1
    /\ CacheLineDetail[k].valid = 1
    /\ CacheLineDetail[l].sector = CacheLineDetail[k].sector
    => l = k

\* With its cache hidden, fs.cpp is the plain sector store.
ImplementsSectorStore == Store!Spec
=============================================================================
