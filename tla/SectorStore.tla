---------------------------- MODULE SectorStore ----------------------------
(***************************************************************************)
(* What the block layer of fs.cpp promises its callers, the cache left     *)
(* out: a transfer (readBlock, writeBlock, or a bare diskReadSector) moves *)
(* consecutive sectors one at a time, every sector read is the one on the  *)
(* disk at that moment, and a power loss stops a transfer half way but     *)
(* never changes the disk.  DiskCache implements this specification.       *)
(***************************************************************************)
EXTENDS Naturals

CONSTANTS
  Sector,       \* LBA numbers of the ATA disk, a range starting at 0
  Data,         \* contents of one 512-byte sector
  Zero,         \* the all-zero sector
  MaxTransfer   \* sectors of the longest transfer (BLOCK_SIZE / SECTOR_SIZE)

VARIABLES
  disk,         \* sectors of the ATA disk
  transfer,     \* the transfer in progress, or Idle
  destination   \* destinationMemory: the caller's buffer, one cell per sector

storeVars == <<disk, transfer, destination>>

Buffer == [0 .. MaxTransfer - 1 -> Data]

\* Transfers the callers ask for: sectors first .. first + count - 1.  The
\* source buffer of a write is part of the request.
Read(first, count) ==
  [kind |-> "read", first |-> first, count |-> count, x |-> 0]

Write(first, count, source) ==
  [kind |-> "write", first |-> first, count |-> count, x |-> 0,
   source |-> source]

Idle == [kind |-> "idle"]

\* The extents a transfer may cover: whole, inside the disk and the buffer.
Extent == { e \in Sector \X (1 .. MaxTransfer) :
              \A i \in 0 .. e[2] - 1 : e[1] + i \in Sector }

Init ==
  /\ disk \in [Sector -> Data]
  /\ transfer = Idle
  /\ destination = [i \in 0 .. MaxTransfer - 1 |-> Zero]

Begin ==
  /\ transfer = Idle
  /\ \E e \in Extent :
       \/ transfer' = Read(e[1], e[2])
       \/ \E source \in Buffer : transfer' = Write(e[1], e[2], source)
  /\ UNCHANGED <<disk, destination>>

\* One sector done: the loop of readBlock and writeBlock.
Advance ==
  transfer' = IF transfer.x + 1 = transfer.count
              THEN Idle
              ELSE [transfer EXCEPT !.x = @ + 1]

ReadSector ==
  /\ transfer.kind = "read"
  /\ destination' = [destination EXCEPT
                       ![transfer.x] = disk[transfer.first + transfer.x]]
  /\ Advance
  /\ UNCHANGED disk

WriteSector ==
  /\ transfer.kind = "write"
  /\ disk' = [disk EXCEPT
                ![transfer.first + transfer.x] = transfer.source[transfer.x]]
  /\ Advance
  /\ UNCHANGED destination

PowerLoss ==
  /\ transfer' = Idle
  /\ destination' = [i \in 0 .. MaxTransfer - 1 |-> Zero]
  /\ UNCHANGED disk

Next == Begin \/ ReadSector \/ WriteSector \/ PowerLoss

Spec == Init /\ [][Next]_storeVars
=============================================================================
