----------------------------- MODULE Ext2Proofs -----------------------------
(***************************************************************************)
(* Proofs about the file system calls: the invariant that a power loss     *)
(* between any two writes keeps, and from it what the runs check.          *)
(***************************************************************************)
EXTENDS Ext2, ScanProofs, SequenceTheorems

-----------------------------------------------------------------------------
(* The inductive invariant *)

RecordType == [inode : Inode, name : Name \cup {".", ".."}, recLength : Nat \ {0}]

BlockType == [file : Nat, part : Nat, pointers : Seq(Block)]

CreateType ==
  [kind : {"create"}, phase : {"allocate", "data", "pointers", "table", "directory"},
   dir : Dir, name : Name, inode : Inode, total : Nat \ {0}, got : Seq(Block)]

RemoveType == [kind : {"delete", "move"}, dir : Dir, name : Name, inode : Inode]

\* The types, finer than TypeOK, and what the image tool used stays used.
Types ==
  /\ blockUsage \subseteq Block \ {0} /\ 1 .. UsedBlocks \subseteq blockUsage
  /\ inodeUsage \subseteq Inode /\ 1 .. UsedInodes \subseteq inodeUsage
  /\ inodeTable \in [Inode -> InodeValue]
  /\ tempStructs \in [Inode -> InodeValue]
  /\ directory \in [Dir -> Seq(RecordType)]
  /\ content \in [Block -> BlockType]
  /\ operation \in {Idle} \cup CreateType \cup RemoveType
  /\ deleted \subseteq inodeUsage

\* A directory starts with itself and its parent; what follows are files, whose
\* inodes are in use and no directory's.
Directories ==
  \A d \in Dir :
    /\ Len(directory[d]) >= 2
    /\ \A j \in 1 .. 2 : directory[d][j].name \notin Name /\ directory[d][j].inode \in Dir
    /\ \A j \in 3 .. Len(directory[d]) :
         directory[d][j].name \in Name /\ directory[d][j].inode \in inodeUsage \ Dir
    /\ \A j \in 1 .. Len(directory[d]) :
         directory[d][j].recLength >= RecordSize(directory[d][j].name)

\* A create has an inode of its own, there is room for its record, and it has
\* taken as many blocks as its phase says.
Creating ==
  operation.kind = "create" =>
    /\ operation.inode \in inodeUsage \ Dir
    /\ Fits(operation.dir, operation.name)
    /\ Len(operation.got) <= operation.total
    /\ operation.phase = "allocate" => Len(operation.got) < operation.total
    /\ operation.phase = "data" =>
         Len(operation.got) \in (1 .. operation.total) \ {Direct + 1}
    /\ operation.phase \in {"pointers", "table"} => Len(operation.got) = operation.total
    /\ operation.phase = "pointers" => operation.total > Direct
    /\ operation.phase = "directory" /\ operation.inode <= InodesLoaded =>
         inodeTable[operation.inode] # ZeroInode

\* Two records of an inode.
NamedTwice(i) ==
  \E d \in Dir : \E j \in DOMAIN directory[d] : \E e \in Dir : \E k \in DOMAIN directory[e] :
    /\ directory[d][j].inode = i /\ directory[e][k].inode = i
    /\ d # e \/ j # k

\* The record a delete or a move will remove is there; a move has named its
\* inode a second time.
Removing ==
  operation.kind \in {"delete", "move"} =>
    /\ Matches(operation.dir, operation.name) # {}
    /\ returnInodeofFileName(operation.name, operation.dir) = operation.inode
    /\ operation.kind = "move" => NamedTwice(operation.inode)

\* Place k of inode i in the table refers to block b.
Refers(i, k, b) ==
  LET value == inodeTable[i]
  IN /\ b # 0
     /\ \/ k \in 0 .. Len(value.direct) - 1 /\ b = value.direct[k + 1]
        \/ value.indirect # 0 /\ k = Direct /\ b = value.indirect
        \/ /\ value.indirect # 0
           /\ k \in Direct + 1 .. Direct + Len(content[value.indirect].pointers)
           /\ b = content[value.indirect].pointers[k - Direct]

DirectFits == \A i \in Inode : Len(inodeTable[i].direct) <= Direct

Owned ==
  \A i \in Inode, k \in Nat, b \in Block : Refers(i, k, b) =>
    /\ b \in blockUsage \ (1 .. UsedBlocks)
    /\ \A j \in Inode, m \in Nat : Refers(j, m, b) => i = j /\ k = m

\* A create that has not written its inode.
Collecting == operation.kind = "create" /\ operation.phase # "directory"

\* Its blocks are marked, each taken once, and no file's.
GotOwned ==
  Collecting => \A k \in 1 .. Len(operation.got), b \in Block :
    b # 0 /\ operation.got[k] = b =>
      /\ b \in blockUsage \ (1 .. UsedBlocks)
      /\ \A m \in 1 .. Len(operation.got) : operation.got[m] = b => m = k
      /\ \A i \in Inode, m \in Nat : ~Refers(i, m, b)

\* The blocks it has written hold their parts, and the indirect block the
\* numbers of those behind it.
GotWritten ==
  Collecting =>
    /\ \A k \in 1 .. Len(operation.got) :
         /\ operation.got[k] # 0 /\ k <= Direct
         /\ operation.phase = "data" => k < Len(operation.got)
         => content[operation.got[k]] = DataBlock(operation.inode, k - 1)
    /\ operation.phase = "table" /\ operation.total > Direct
         /\ operation.got[Direct + 1] # 0
         => content[operation.got[Direct + 1]].pointers
              = SubSeq(operation.got, Direct + 2, operation.total)

\* The direct blocks of every inode on the disk hold its parts.
DirectWritten ==
  \A i \in Inode : \A k \in 1 .. Len(inodeTable[i].direct) :
    inodeTable[i].direct[k] # 0 =>
      content[inodeTable[i].direct[k]] = DataBlock(i, k - 1)

StructureInv == Types /\ Directories /\ Creating /\ Removing

BlocksInv == DirectFits /\ Owned /\ GotOwned /\ GotWritten /\ DirectWritten

-----------------------------------------------------------------------------
(* Sequences of records *)

\* Front leaves all but the last.
LEMMA FrontOf ==
  ASSUME NEW S, NEW s \in Seq(S), Len(s) >= 1
  PROVE  /\ Front(s) \in Seq(S) /\ Len(Front(s)) = Len(s) - 1
         /\ \A j \in 1 .. Len(s) - 1 : Front(s)[j] = s[j]
<1> DEFINE n == Len(s) - 1
<1>1. n \in Nat /\ \A i \in 1 .. n : s[i] \in S
  OBVIOUS
<1>2. Front(s) = SubSeq(s, 1, n)
  BY DEF Front
<1> HIDE DEF n
<1>3. /\ SubSeq(s, 1, n) \in Seq(S) /\ Len(SubSeq(s, 1, n)) = n
      /\ \A j \in 1 .. n : SubSeq(s, 1, n)[j] = s[j]
  BY <1>1, SubSeqProperties
<1> QED
  BY <1>2, <1>3 DEF n

\* The last element of a sequence replaced by others.
LEMMA SplitLast ==
  ASSUME NEW S, NEW s \in Seq(S), Len(s) >= 1, NEW r \in Seq(S)
  PROVE  /\ Front(s) \o r \in Seq(S)
         /\ Len(Front(s) \o r) = Len(s) - 1 + Len(r)
         /\ \A j \in 1 .. Len(s) - 1 : (Front(s) \o r)[j] = s[j]
         /\ \A j \in 1 .. Len(r) : (Front(s) \o r)[Len(s) - 1 + j] = r[j]
<1> DEFINE l == Front(s)
           t == l \o r
<1>1. l \in Seq(S)
  BY FrontOf
<1>2. Len(l) = Len(s) - 1 /\ \A j \in 1 .. Len(s) - 1 : l[j] = s[j]
  BY FrontOf
<1> HIDE DEF l
<1>3. /\ t \in Seq(S) /\ Len(t) = Len(l) + Len(r)
      /\ \A k \in 1 .. Len(l) : t[k] = l[k]
      /\ \A k \in 1 .. Len(r) : t[Len(l) + k] = r[k]
  BY <1>1
<1> HIDE DEF t
<1> QED
  BY <1>2, <1>3 DEF t, l

\* An element removed.
LEMMA RemovedAt ==
  ASSUME NEW S, NEW u \in Seq(S), NEW j \in 1 .. Len(u)
  PROVE  /\ RemoveAt(u, j) \in Seq(S)
         /\ Len(RemoveAt(u, j)) = Len(u) - 1
         /\ \A k \in 1 .. j - 1 : RemoveAt(u, j)[k] = u[k]
         /\ \A k \in j .. Len(u) - 1 : RemoveAt(u, j)[k] = u[k + 1]
<1> DEFINE n == Len(u)
           m == j - 1
           h == n - j
           l == SubSeq(u, 1, m)
           r == SubSeq(u, j + 1, n)
           t == l \o r
<1>1. n \in Nat /\ j \in 1 .. n /\ m \in Nat /\ h \in Nat /\ m = j - 1 /\ h = n - j
  OBVIOUS
<1>2. \A k \in 1 .. n : u[k] \in S
  OBVIOUS
<1>3. RemoveAt(u, j) = t /\ n = Len(u)
  BY DEF RemoveAt
<1> HIDE DEF n, m, h
<1>4. /\ l \in Seq(S) /\ Len(l) = m
      /\ \A k \in 1 .. m : l[k] = u[k]
  BY <1>1, <1>2
<1>5. r \in Seq(S) /\ Len(r) = h
  BY <1>1, <1>2
<1>6. \A k \in 1 .. h : r[k] = u[j + k]
  BY <1>1, <1>2
<1> HIDE DEF l, r
<1>7. /\ t \in Seq(S) /\ Len(t) = Len(l) + Len(r)
      /\ \A k \in 1 .. Len(l) : t[k] = l[k]
      /\ \A k \in 1 .. Len(r) : t[Len(l) + k] = r[k]
  <2>1. PICK all : all = t
    OBVIOUS
  <2>2. /\ all \in Seq(S) /\ Len(all) = Len(l) + Len(r)
        /\ \A k \in 1 .. Len(l) + Len(r) :
             all[k] = IF k <= Len(l) THEN l[k] ELSE r[k - Len(l)]
    BY <1>4, <1>5, <2>1, ConcatProperties
  <2>3. Len(l) \in Nat /\ Len(r) \in Nat
    BY <1>1, <1>4, <1>5
  <2>4. ASSUME NEW k \in 1 .. Len(l)
        PROVE  all[k] = l[k]
    BY <2>2, <2>3
  <2>5. ASSUME NEW k \in 1 .. Len(r)
        PROVE  all[Len(l) + k] = r[k]
    <3>1. PICK i : i = Len(l) + k
      OBVIOUS
    <3>2. i \in 1 .. Len(l) + Len(r) /\ ~(i <= Len(l)) /\ i - Len(l) = k
      BY <2>3, <3>1
    <3> QED
      BY <2>2, <3>1, <3>2
  <2> QED
    BY <2>1, <2>2, <2>4, <2>5
<1> HIDE DEF t
<1>8. t \in Seq(S) /\ Len(t) = n - 1 /\ \A k \in 1 .. j - 1 : t[k] = u[k]
  BY <1>1, <1>4, <1>5, <1>7
<1>9. ASSUME NEW k \in j .. n - 1
      PROVE  t[k] = u[k + 1]
  <2> DEFINE i == k - m
  <2>1. i \in 1 .. h /\ m + i = k /\ j + i = k + 1
    BY <1>1
  <2> HIDE DEF i
  <2>2. t[m + i] = r[i] /\ r[i] = u[j + i]
    BY <1>4, <1>5, <1>6, <1>7, <2>1
  <2> QED
    BY <2>1, <2>2
<1> QED
  BY <1>3, <1>8, <1>9

\* The offsets of a sequence of records.
OffsetsOf(offset, records) ==
  offset = [j \in 0 .. Len(records) |->
              IF j = 0 THEN 0 ELSE offset[j - 1] + records[j].recLength]

\* Offset is what its equation says, when anything is.
LEMMA OffsetExists ==
  ASSUME NEW records, NEW offset, OffsetsOf(offset, records)
  PROVE  OffsetsOf(Offset(records), records)
<1>1. Offset(records) = CHOOSE f : OffsetsOf(f, records)
  BY DEF Offset, OffsetsOf
<1> QED
  BY <1>1

\* Two functions that satisfy the equation agree.
LEMMA OffsetUnique ==
  ASSUME NEW records, Len(records) \in Nat, NEW f, NEW g,
         OffsetsOf(f, records), OffsetsOf(g, records)
  PROVE  f = g
<1>1. /\ \A j \in 0 .. Len(records) :
           f[j] = IF j = 0 THEN 0 ELSE f[j - 1] + records[j].recLength
      /\ \A j \in 0 .. Len(records) :
           g[j] = IF j = 0 THEN 0 ELSE g[j - 1] + records[j].recLength
  BY DEF OffsetsOf
<1>2. f[0] = g[0] /\ \A j \in 1 .. Len(records) : f[j - 1] = g[j - 1] => f[j] = g[j]
  BY <1>1
<1>3. \A j \in 0 .. Len(records) : f[j] = g[j]
  <2> DEFINE n == Len(records)
  <2> DEFINE same == { j \in 0 .. n : f[j] = g[j] }
  <2>1. n \in Nat
    BY Len(records) \in Nat
  <2>2. 0 \in same
    BY <1>2, <2>1
  <2>3. ASSUME NEW j \in 1 .. n, j - 1 \in same
        PROVE  j \in same
    BY <1>2, <2>1, <2>3
  <2>4. 0 .. n \subseteq same
    <3> HIDE DEF same
    <3> QED
      BY ONLY <2>1, <2>2, <2>3, AllPlaces
  <2> QED
    BY <2>4
<1> QED
  BY <1>3 DEF OffsetsOf

-----------------------------------------------------------------------------
(* What a call does to a directory *)

\* t is s with its last record split for a new one.
SplitFor(t, s, inode, name) ==
  /\ t \in Seq(RecordType) /\ Len(t) = Len(s) + 1
  /\ \A j \in 1 .. Len(s) - 1 : t[j] = s[j]
  /\ t[Len(s)].inode = s[Len(s)].inode
  /\ t[Len(s)].name = s[Len(s)].name
  /\ t[Len(s)].recLength = RecordSize(s[Len(s)].name)
  /\ t[Len(s) + 1].inode = inode
  /\ t[Len(s) + 1].name = name
  /\ t[Len(s) + 1].recLength = s[Len(s)].recLength - RecordSize(s[Len(s)].name)
  /\ t[Len(s) + 1].recLength >= RecordSize(name)

\* t is s without record j, whose length the one before it has taken.
MergedAt(t, s, j) ==
  /\ t \in Seq(RecordType) /\ Len(t) = Len(s) - 1
  /\ \A k \in 1 .. j - 2 : t[k] = s[k]
  /\ t[j - 1].inode = s[j - 1].inode
  /\ t[j - 1].name = s[j - 1].name
  /\ t[j - 1].recLength = s[j - 1].recLength + s[j].recLength
  /\ \A k \in j .. Len(s) - 1 : t[k] = s[k + 1]

\* A directory record takes room.
LEMMA RecordSizes == \A name : RecordSize(name) \in Nat \ {0}
BY DEF RecordSize

\* A record that is added behind the last takes its room from it.
LEMMA AppendedSplits ==
  ASSUME Types, Directories, NEW d \in Dir, NEW name \in Name, NEW inode \in Inode,
         Fits(d, name)
  PROVE  SplitFor(Appended(d, inode, name), directory[d], inode, name)
<1> DEFINE s == directory[d]
           last == s[Len(s)]
           first == Record(last.inode, last.name, RecordSize(last.name))
           second == Record(inode, name, last.recLength - RecordSize(last.name))
           r == << first, second >>
<1>1. s \in Seq(RecordType) /\ Len(s) >= 1
  BY DEF Types, Directories
<1>2. last \in RecordType
  BY <1>1
<1>3. last.recLength >= RecordSize(last.name) + RecordSize(name)
  BY DEF Fits, Last
<1>4. /\ RecordSize(last.name) \in Nat \ {0} /\ RecordSize(name) \in Nat \ {0}
      /\ last.recLength \in Nat
  BY <1>2, RecordSizes DEF RecordType
<1>5. first \in RecordType
  BY <1>2, <1>4 DEF RecordType, Record
<1>6. second \in RecordType /\ last.recLength - RecordSize(last.name) >= RecordSize(name)
  BY <1>2, <1>3, <1>4 DEF RecordType, Record
<1>7. /\ first.inode = last.inode /\ first.name = last.name
      /\ first.recLength = RecordSize(last.name)
      /\ second.inode = inode /\ second.name = name
      /\ second.recLength = last.recLength - RecordSize(last.name)
  BY DEF Record
<1>8. Appended(d, inode, name) = Front(s) \o r
  BY DEF Appended, Last
<1> HIDE DEF first, second
<1>9. r \in Seq(RecordType) /\ Len(r) = 2 /\ r[1] = first /\ r[2] = second
  BY <1>5, <1>6
<1>10. r \in Seq(RecordType)
  BY <1>9
<1> DEFINE t == Front(s) \o r
<1> HIDE DEF s, r
<1>11. /\ t \in Seq(RecordType) /\ Len(t) = Len(s) - 1 + Len(r)
       /\ \A j \in 1 .. Len(s) - 1 : t[j] = s[j]
       /\ \A j \in 1 .. Len(r) : t[Len(s) - 1 + j] = r[j]
  <2>1. /\ Front(s) \o r \in Seq(RecordType)
        /\ Len(Front(s) \o r) = Len(s) - 1 + Len(r)
        /\ \A j \in 1 .. Len(s) - 1 : (Front(s) \o r)[j] = s[j]
        /\ \A j \in 1 .. Len(r) : (Front(s) \o r)[Len(s) - 1 + j] = r[j]
    BY <1>1, <1>10, SplitLast
  <2>2. t = Front(s) \o r
    OBVIOUS
  <2> HIDE DEF t
  <2> QED
    BY <2>1, <2>2
<1> HIDE DEF t
<1>12. Len(s) - 1 + 1 = Len(s) /\ Len(s) - 1 + 2 = Len(s) + 1 /\ Len(s) \in Nat
  BY <1>1
<1>13. t[Len(s) - 1 + 1] = r[1] /\ t[Len(s) - 1 + 2] = r[2]
  BY <1>9, <1>11
<1>14. t[Len(s)] = first /\ t[Len(s) + 1] = second
  BY <1>9, <1>12, <1>13
<1>15. SplitFor(t, s, inode, name)
  BY <1>6, <1>7, <1>9, <1>11, <1>12, <1>14 DEF SplitFor
<1> QED
  BY <1>8, <1>15 DEF t, s

\* The record that goes stands behind "." and "..", which are no files.
LEMMA RemovedMerges ==
  ASSUME Types, Directories, NEW d \in Dir, NEW inode \in Inode \ Dir,
         NEW i \in DOMAIN directory[d], directory[d][i].inode = inode
  PROVE  \E j \in 3 .. Len(directory[d]) :
           /\ directory[d][j].inode = inode
           /\ \A k \in DOMAIN directory[d] : directory[d][k].inode = inode => j <= k
           /\ MergedAt(Removed(d, inode), directory[d], j)
<1> DEFINE s == directory[d]
           Of == { k \in DOMAIN s : s[k].inode = inode }
           j == FirstOf(Of)
           before == [s[j - 1] EXCEPT !.recLength = @ + s[j].recLength]
           u == [s EXCEPT ![j - 1] = before]
<1>1. s \in Seq(RecordType) /\ DOMAIN s = 1 .. Len(s) /\ Len(s) \in Nat
  BY DEF Types
<1>2. Of \in SUBSET Nat /\ Of # {}
  BY <1>1
<1>3. j \in Of /\ \A k \in Of : j <= k
  <2> HIDE DEF Of
  <2> QED
    BY <1>2, FirstOfIsFirst
<1>4. j \in 3 .. Len(s)
  <2>1. j \in 1 .. Len(s) /\ s[j].inode = inode
    BY <1>1, <1>3
  <2> HIDE DEF j
  <2>2. \A k \in 1 .. 2 : s[k].inode \in Dir
    BY DEF Directories
  <2> QED
    BY <1>1, <2>1, <2>2
<1>5. Removed(d, inode) = RemoveAt(u, j)
  BY DEF Removed
<1> HIDE DEF j, Of, s
<1>6. s[j - 1] \in RecordType /\ s[j] \in RecordType
  BY <1>1, <1>4
<1>7. before \in RecordType
  BY <1>6 DEF RecordType
<1>8. /\ before.inode = s[j - 1].inode /\ before.name = s[j - 1].name
      /\ before.recLength = s[j - 1].recLength + s[j].recLength
  BY <1>6 DEF RecordType
<1> HIDE DEF before
<1>9. /\ u \in Seq(RecordType) /\ Len(u) = Len(s) /\ u[j - 1] = before
      /\ \A k \in 1 .. Len(s) : k # j - 1 => u[k] = s[k]
  BY <1>1, <1>4, <1>7
<1> HIDE DEF u
<1> DEFINE t == RemoveAt(u, j)
<1>10. /\ t \in Seq(RecordType) /\ Len(t) = Len(u) - 1
       /\ \A k \in 1 .. j - 1 : t[k] = u[k]
       /\ \A k \in j .. Len(u) - 1 : t[k] = u[k + 1]
  <2>1. u \in Seq(RecordType) /\ j \in 1 .. Len(u)
    BY <1>1, <1>4, <1>9
  <2> QED
    BY <2>1, RemovedAt
<1> HIDE DEF t
<1>11. \A k \in 1 .. j - 2 : t[k] = s[k]
  <2> TAKE k \in 1 .. j - 2
  <2>1. k \in 1 .. j - 1 /\ k \in 1 .. Len(s) /\ k # j - 1
    BY <1>1, <1>4
  <2> QED
    BY <1>9, <1>10, <2>1
<1>12. t[j - 1] = before
  <2>1. j - 1 \in 1 .. j - 1
    BY <1>4
  <2> QED
    BY <1>9, <1>10, <2>1
<1>13. \A k \in j .. Len(s) - 1 : t[k] = s[k + 1]
  <2> TAKE k \in j .. Len(s) - 1
  <2>1. k + 1 \in 1 .. Len(s) /\ k + 1 # j - 1 /\ k \in j .. Len(u) - 1
    BY <1>1, <1>4, <1>9
  <2> QED
    BY <1>9, <1>10, <2>1
<1>14. MergedAt(t, s, j)
  BY <1>8, <1>9, <1>10, <1>11, <1>12, <1>13 DEF MergedAt
<1> QED
  BY <1>3, <1>4, <1>5, <1>14 DEF t, s, Of

-----------------------------------------------------------------------------
(* The directories and the call in progress *)

\* A name that is looked up and found is a file's, never "." or "..".
LEMMA MatchIsFile ==
  ASSUME Types, Directories, NEW d \in Dir, NEW name \in Name, Matches(d, name) # {}
  PROVE  \E j \in 3 .. Len(directory[d]) :
           /\ j = FirstOf(Matches(d, name))
           /\ directory[d][j].name = name
           /\ \A k \in 1 .. j - 1 : directory[d][k].name # name
           /\ returnInodeofFileName(name, d) = directory[d][j].inode
           /\ returnInodeofFileName(name, d) \in inodeUsage \ Dir
<1> DEFINE s == directory[d]
           j == FirstOf(Matches(d, name))
<1>1. s \in Seq(RecordType) /\ DOMAIN s = 1 .. Len(s) /\ Len(s) \in Nat
  BY DEF Types
<1>2. Matches(d, name) = { k \in 1 .. Len(s) : s[k].name = name }
  BY <1>1 DEF Matches
<1>3. j \in Matches(d, name) /\ \A k \in Matches(d, name) : j <= k
  <2>1. Matches(d, name) \in SUBSET Nat
    BY <1>2
  <2> QED
    BY <2>1, FirstOfIsFirst
<1>4. returnInodeofFileName(name, d) = s[j].inode
  BY DEF returnInodeofFileName
<1>5. /\ \A k \in 1 .. 2 : s[k].name \notin Name
      /\ \A k \in 3 .. Len(s) : s[k].inode \in inodeUsage \ Dir
  BY DEF Directories
<1> HIDE DEF s
<1>6. j \in 1 .. Len(s) /\ s[j].name = name
  BY <1>2, <1>3
<1>7. j \in 3 .. Len(s)
  BY <1>1, <1>5, <1>6
<1>8. \A k \in 1 .. Len(s) : s[k].name = name => j <= k
  BY <1>2, <1>3
<1>9. \A k \in 1 .. j - 1 : s[k].name # name
  <2> HIDE DEF j
  <2> QED
    BY <1>1, <1>7, <1>8
<1> QED
  BY <1>4, <1>5, <1>6, <1>7, <1>9 DEF s

\* The step writes directory d, which gets a record of its own for the inode.
AddsTo(d, inode, name) ==
  /\ directory' \in [Dir -> Seq(RecordType)]
  /\ SplitFor(directory'[d], directory[d], inode, name)
  /\ \A e \in Dir \ {d} : directory'[e] = directory[e]

\* The step takes record j of the inode, its first, from directory d.
TakesFrom(d, inode, j) ==
  /\ directory' \in [Dir -> Seq(RecordType)]
  /\ j \in 3 .. Len(directory[d])
  /\ directory[d][j].inode = inode
  /\ MergedAt(directory'[d], directory[d], j)
  /\ \A e \in Dir \ {d} : directory'[e] = directory[e]

\* A write of Appended adds a record.
LEMMA Adds ==
  ASSUME Types, Directories, NEW d \in Dir, NEW name \in Name, NEW inode \in Inode,
         Fits(d, name),
         directory' = [directory EXCEPT ![d] = Appended(d, inode, name)]
  PROVE  AddsTo(d, inode, name)
<1>1. SplitFor(Appended(d, inode, name), directory[d], inode, name)
  BY AppendedSplits
<1>2. Appended(d, inode, name) \in Seq(RecordType) /\ directory \in [Dir -> Seq(RecordType)]
  BY <1>1 DEF SplitFor, Types
<1>3. directory'[d] = Appended(d, inode, name)
  BY <1>2
<1> QED
  BY <1>1, <1>2, <1>3 DEF AddsTo

\* A write of Removed takes one away.
LEMMA Takes ==
  ASSUME Types, Directories, NEW d \in Dir, NEW inode \in Inode \ Dir,
         NEW i \in DOMAIN directory[d], directory[d][i].inode = inode,
         directory' = [directory EXCEPT ![d] = Removed(d, inode)]
  PROVE  \E j \in 3 .. Len(directory[d]) : TakesFrom(d, inode, j)
<1>1. PICK j \in 3 .. Len(directory[d]) :
        /\ directory[d][j].inode = inode
        /\ MergedAt(Removed(d, inode), directory[d], j)
  BY RemovedMerges
<1>2. Removed(d, inode) \in Seq(RecordType) /\ directory \in [Dir -> Seq(RecordType)]
  BY <1>1 DEF MergedAt, Types
<1>3. directory'[d] = Removed(d, inode)
  BY <1>2
<1>4. TakesFrom(d, inode, j)
  BY <1>1, <1>2, <1>3 DEF TakesFrom
<1> QED
  BY <1>4

\* A directory with one record more is still one.
LEMMA AddsKeepsDirectories ==
  ASSUME Types, Directories, NEW d \in Dir, NEW name \in Name,
         NEW inode \in inodeUsage \ Dir, AddsTo(d, inode, name),
         inodeUsage' = inodeUsage
  PROVE  Directories'
<1>1. SUFFICES ASSUME NEW e \in Dir
               PROVE  /\ Len(directory'[e]) >= 2
                      /\ \A j \in 1 .. 2 : /\ directory'[e][j].name \notin Name
                                           /\ directory'[e][j].inode \in Dir
                      /\ \A j \in 3 .. Len(directory'[e]) :
                           /\ directory'[e][j].name \in Name
                           /\ directory'[e][j].inode \in inodeUsage \ Dir
                      /\ \A j \in 1 .. Len(directory'[e]) :
                           directory'[e][j].recLength >= RecordSize(directory'[e][j].name)
  BY Zenon DEF Directories, RecordSize
<1>2. CASE e # d
  BY <1>2 DEF AddsTo, Directories
<1>3. CASE e = d
  <2> DEFINE s == directory[d]
             t == directory'[d]
             n == Len(s)
  <2>1. s \in Seq(RecordType)
    BY DEF Types
  <2>2. /\ n \in Nat /\ n >= 2
        /\ \A j \in 1 .. 2 : s[j].name \notin Name /\ s[j].inode \in Dir
        /\ \A j \in 3 .. n : s[j].name \in Name /\ s[j].inode \in inodeUsage \ Dir
        /\ \A j \in 1 .. n : s[j].recLength >= RecordSize(s[j].name)
    BY <2>1 DEF Directories
  <2>3. SplitFor(t, s, inode, name)
    BY DEF AddsTo
  <2> HIDE DEF s, t
  <2>4. /\ Len(t) = n + 1
        /\ \A j \in 1 .. n - 1 : t[j] = s[j]
        /\ t[n].inode = s[n].inode /\ t[n].name = s[n].name
        /\ t[n].recLength = RecordSize(s[n].name)
        /\ t[n + 1].inode = inode /\ t[n + 1].name = name
        /\ t[n + 1].recLength >= RecordSize(name)
    BY <2>3 DEF SplitFor
  <2>5. RecordSize(s[n].name) \in Nat
    BY RecordSizes
  <2> HIDE DEF n
  <2>6. \A j \in 1 .. n : t[j].name = s[j].name /\ t[j].inode = s[j].inode
    BY <2>2, <2>4
  <2>7. \A j \in 1 .. n : t[j].recLength >= RecordSize(t[j].name)
    BY <2>2, <2>4, <2>5
  <2>8. /\ \A j \in 1 .. 2 : t[j].name \notin Name /\ t[j].inode \in Dir
        /\ \A j \in 3 .. n + 1 : t[j].name \in Name /\ t[j].inode \in inodeUsage \ Dir
        /\ \A j \in 1 .. n + 1 : t[j].recLength >= RecordSize(t[j].name)
    BY <2>2, <2>4, <2>6, <2>7
  <2> QED
    BY <1>3, <2>2, <2>4, <2>8 DEF t
<1> QED
  BY <1>2, <1>3

\* And so is one with a record less.
LEMMA TakesKeepsDirectories ==
  ASSUME Types, Directories, NEW d \in Dir, NEW inode, NEW i, TakesFrom(d, inode, i),
         inodeUsage' = inodeUsage
  PROVE  Directories'
<1>1. SUFFICES ASSUME NEW e \in Dir
               PROVE  /\ Len(directory'[e]) >= 2
                      /\ \A j \in 1 .. 2 : /\ directory'[e][j].name \notin Name
                                           /\ directory'[e][j].inode \in Dir
                      /\ \A j \in 3 .. Len(directory'[e]) :
                           /\ directory'[e][j].name \in Name
                           /\ directory'[e][j].inode \in inodeUsage \ Dir
                      /\ \A j \in 1 .. Len(directory'[e]) :
                           directory'[e][j].recLength >= RecordSize(directory'[e][j].name)
  BY Zenon DEF Directories, RecordSize
<1>2. CASE e # d
  BY <1>2 DEF TakesFrom, Directories
<1>3. CASE e = d
  <2> DEFINE s == directory[d]
             t == directory'[d]
             n == Len(s)
  <2>1. /\ n \in Nat /\ n >= 2
        /\ \A j \in 1 .. 2 : s[j].name \notin Name /\ s[j].inode \in Dir
        /\ \A j \in 3 .. n : s[j].name \in Name /\ s[j].inode \in inodeUsage \ Dir
        /\ \A j \in 1 .. n : s[j].recLength >= RecordSize(s[j].name)
        /\ s \in Seq(RecordType)
    BY DEF Types, Directories
  <2>2. MergedAt(t, s, i) /\ i \in 3 .. n
    BY DEF TakesFrom
  <2> HIDE DEF s, t
  <2>3. /\ Len(t) = n - 1
        /\ \A k \in 1 .. i - 2 : t[k] = s[k]
        /\ t[i - 1].inode = s[i - 1].inode /\ t[i - 1].name = s[i - 1].name
        /\ t[i - 1].recLength = s[i - 1].recLength + s[i].recLength
        /\ \A k \in i .. n - 1 : t[k] = s[k + 1]
    BY <2>2 DEF MergedAt
  <2>4. s[i] \in RecordType /\ s[i - 1] \in RecordType
    BY <2>1, <2>2
  <2>5. s[i].recLength \in Nat /\ s[i - 1].recLength \in Nat /\ RecordSize(s[i - 1].name) \in Nat
    BY <2>4, RecordSizes DEF RecordType
  <2> HIDE DEF n
  <2>6. \A k \in 1 .. i - 1 : t[k].name = s[k].name /\ t[k].inode = s[k].inode
    BY <2>2, <2>3
  <2>7. ASSUME NEW k \in 1 .. i - 1
        PROVE  t[k].recLength >= RecordSize(t[k].name)
    <3>1. k \in 1 .. n /\ i - 1 \in 1 .. n /\ (k # i - 1 => k \in 1 .. i - 2)
      BY <2>1, <2>2
    <3>2. CASE k # i - 1
      BY <2>1, <2>3, <3>1, <3>2
    <3>3. CASE k = i - 1
      <4>1. s[i - 1].recLength >= RecordSize(s[i - 1].name)
        BY <2>1, <3>1
      <4>2. t[k].name = s[i - 1].name /\ t[k].recLength = s[i - 1].recLength + s[i].recLength
        BY <2>3, <3>3
      <4> QED
        BY <2>5, <4>1, <4>2
    <3> QED
      BY <3>2, <3>3
  <2>8. \A k \in i .. n - 1 : t[k] = s[k + 1] /\ k + 1 \in 3 .. n
    BY <2>1, <2>2, <2>3
  <2>9. \A k \in i .. n - 1 : /\ t[k].name \in Name
                               /\ t[k].inode \in inodeUsage \ Dir
                               /\ t[k].recLength >= RecordSize(t[k].name)
    BY <2>1, <2>2, <2>8
  <2>10. /\ \A j \in 1 .. 2 : t[j].name \notin Name /\ t[j].inode \in Dir
         /\ \A j \in 3 .. n - 1 : t[j].name \in Name /\ t[j].inode \in inodeUsage \ Dir
         /\ \A j \in 1 .. n - 1 : t[j].recLength >= RecordSize(t[j].name)
    BY <2>1, <2>2, <2>6, <2>7, <2>9
  <2> QED
    BY <1>3, <2>1, <2>2, <2>3, <2>10 DEF t
<1> QED
  BY <1>2, <1>3

-----------------------------------------------------------------------------
(* The structure is kept *)

\* What kind of call is in progress tells its other fields.
LEMMA Kinds ==
  ASSUME Types
  PROVE  /\ operation = Idle \/ operation \in CreateType \/ operation \in RemoveType
         /\ operation = Idle <=> operation.kind = "idle"
         /\ operation.kind = "create" => operation \in CreateType
         /\ operation.kind \in {"delete", "move"} => operation \in RemoveType
<1>1. operation = Idle => operation.kind = "idle"
  BY DEF Idle
<1>2. operation \in CreateType => operation.kind = "create"
  BY DEF CreateType
<1>3. operation \in RemoveType => operation.kind \in {"delete", "move"}
  BY DEF RemoveType
<1> QED
  BY <1>1, <1>2, <1>3 DEF Types

\* An empty directory, and nothing under way.
LEMMA StructureInitially == Init => StructureInv
<1> SUFFICES ASSUME Init
             PROVE  StructureInv
  OBVIOUS
<1> USE Ext2Assumption
<1>1. Dir \subseteq Inode /\ ROOTDIR_INODE \in Inode
  BY DEF Inode
<1>2. ZeroInode \in InodeValue /\ PointerBlock(<<>>) \in BlockType
  BY DEF ZeroInode, InodeValue, Block, PointerBlock, BlockType
<1>3. ASSUME NEW d \in Dir
      PROVE  /\ Record(d, ".", 1) \in RecordType
             /\ Record(ROOTDIR_INODE, "..", DirectorySize - 1) \in RecordType
  BY <1>1 DEF Record, RecordType
<1>4. directory \in [Dir -> Seq(RecordType)]
  BY <1>3 DEF Init
<1>5. Types
  BY <1>2, <1>4 DEF Types, Init, Block, Inode
<1>6. Directories
  <2>1. "." \notin LongName /\ ".." \notin LongName
    OBVIOUS
  <2>2. ASSUME NEW d \in Dir
        PROVE  /\ Len(directory[d]) = 2
               /\ directory[d][1] = Record(d, ".", 1)
               /\ directory[d][2] = Record(ROOTDIR_INODE, "..", DirectorySize - 1)
    BY DEF Init
  <2>3. ASSUME NEW d \in Dir
        PROVE  /\ directory[d][1].name = "." /\ directory[d][1].inode = d
               /\ directory[d][1].recLength = 1
               /\ directory[d][2].name = ".." /\ directory[d][2].inode = ROOTDIR_INODE
               /\ directory[d][2].recLength = DirectorySize - 1
    <3>1. \A i, n, l : /\ Record(i, n, l).inode = i /\ Record(i, n, l).name = n
                       /\ Record(i, n, l).recLength = l
      BY DEF Record
    <3>2. directory[d][1].name = "." /\ directory[d][1].inode = d /\ directory[d][1].recLength = 1
      BY <2>2, <3>1
    <3>3. /\ directory[d][2].name = ".." /\ directory[d][2].inode = ROOTDIR_INODE
          /\ directory[d][2].recLength = DirectorySize - 1
      BY <2>2, <3>1
    <3> QED
      BY <3>2, <3>3
  <2> QED
    BY <2>1, <2>2, <2>3 DEF Directories, RecordSize
<1>7. Creating /\ Removing
  BY DEF Init, Idle, Creating, Removing
<1> QED
  BY <1>5, <1>6, <1>7 DEF StructureInv

\* The inode of a new file is nobody's yet.
LEMMA NewInode ==
  ASSUME Types, FreeInodes # {}
  PROVE  FirstOf(FreeInodes) \in Inode \ inodeUsage /\ FirstOf(FreeInodes) \notin Dir
<1>1. FreeInodes \in SUBSET Nat
  BY DEF FreeInodes, Inode
<1>2. FirstOf(FreeInodes) \in FreeInodes
  BY <1>1, FirstOfIsFirst
<1> QED
  BY <1>2, Ext2Assumption DEF FreeInodes, Types

\* A creation begins with a free inode.
LEMMA createKeepsStructure ==
  ASSUME StructureInv, NEW d \in Dir, NEW name \in Name, NEW blocks \in BufferBlocks,
         createFile(d, name, blocks)
  PROVE  StructureInv'
<1> USE DEF StructureInv
<1> DEFINE inode == FirstOf(FreeInodes)
<1>1. inode \in Inode \ inodeUsage /\ inode \notin Dir
  BY NewInode DEF createFile
<1>2. /\ Fits(d, name) /\ inodeUsage' = inodeUsage \cup {inode}
      /\ operation' = [kind |-> "create", phase |-> "allocate", dir |-> d,
                       name |-> name, inode |-> inode, total |-> blocks, got |-> <<>>]
      /\ UNCHANGED <<blockUsage, inodeTable, tempStructs, directory, content, deleted>>
  BY DEF createFile
<1> HIDE DEF inode
<1>3. blocks \in Nat \ {0}
  BY Ext2Assumption
<1>4. /\ operation'.kind = "create" /\ operation'.phase = "allocate" /\ operation'.dir = d
      /\ operation'.name = name /\ operation'.inode = inode /\ operation'.total = blocks
      /\ operation'.got = <<>>
  BY <1>2
<1>5. operation' \in CreateType
  BY <1>1, <1>2, <1>3 DEF CreateType
<1>6. Types'
  BY <1>1, <1>2, <1>5 DEF Types
<1>7. Directories'
  BY <1>2 DEF Directories, RecordSize
<1>8. Fits(operation.dir, operation.name)'
  BY <1>2, <1>4 DEF Fits, RecordSize
<1>9. Creating'
  BY <1>1, <1>2, <1>3, <1>4, <1>8 DEF Creating
<1>10. Removing'
  BY <1>4 DEF Removing
<1> QED
  BY <1>6, <1>7, <1>9, <1>10

\* What a create keeps while it writes its blocks.
CreateGoesOn ==
  /\ operation' \in CreateType
  /\ operation'.dir = operation.dir /\ operation'.name = operation.name
  /\ operation'.inode = operation.inode /\ operation'.total = operation.total
  /\ UNCHANGED <<inodeUsage, directory, deleted>>

\* A creation that goes on leaves the directories and its own inode alone.
LEMMA GoesOn ==
  ASSUME StructureInv, operation.kind = "create", CreateGoesOn, Types'
  PROVE  /\ Directories' /\ Removing' /\ operation'.kind = "create"
         /\ operation'.inode \in inodeUsage' \ Dir
         /\ Fits(operation.dir, operation.name)'
<1> USE DEF StructureInv, CreateGoesOn
<1>1. Directories'
  BY DEF Directories, RecordSize
<1>2. operation'.kind = "create"
  BY DEF CreateType
<1>3. Removing'
  BY <1>2 DEF Removing
<1>4. Fits(operation.dir, operation.name)'
  BY DEF Creating, Fits, RecordSize
<1> QED
  BY <1>1, <1>2, <1>3, <1>4 DEF Creating

\* A block that was free is added to those the creation got.
LEMMA allocateKeepsStructure ==
  ASSUME StructureInv, allocateFreeBlock
  PROVE  StructureInv'
<1> DEFINE block == IF FreeBlocks = {} THEN 0 ELSE FirstOf(FreeBlocks)
           got == Append(operation.got, block)
           phase == IF Len(got) = Direct + 1 THEN PhaseAfter(got) ELSE "data"
<1>1. operation.kind = "create" /\ operation.phase = "allocate"
  BY DEF allocateFreeBlock, Creates
<1>2. operation \in CreateType
  BY <1>1, Kinds DEF StructureInv
<1>3. /\ operation' = [operation EXCEPT !.got = got, !.phase = phase]
      /\ blockUsage' = blockUsage \cup ({block} \ {0})
      /\ UNCHANGED <<inodeUsage, inodeTable, tempStructs, directory, content, deleted>>
  BY DEF allocateFreeBlock
<1>4. block \in Block
  <2>1. FreeBlocks \in SUBSET Nat
    BY Ext2Assumption DEF FreeBlocks, Block
  <2>2. FreeBlocks # {} => FirstOf(FreeBlocks) \in FreeBlocks
    BY <2>1, FirstOfIsFirst
  <2> QED
    BY <2>2, Ext2Assumption DEF FreeBlocks, Block
<1>5. /\ operation.got \in Seq(Block) /\ operation.total \in Nat \ {0}
      /\ Len(operation.got) < operation.total
  BY <1>1, <1>2 DEF StructureInv, Creating, CreateType
<1> HIDE DEF block
<1>6. got \in Seq(Block) /\ Len(got) = Len(operation.got) + 1 /\ Len(got) \in Nat
  BY <1>4, <1>5
<1> HIDE DEF got
<1>7. /\ Len(got) \in 1 .. operation.total
      /\ phase = "allocate" => Len(got) < operation.total
      /\ phase = "data" => Len(got) # Direct + 1
      /\ phase \in {"pointers", "table"} => Len(got) = operation.total
      /\ phase = "pointers" => operation.total > Direct
      /\ phase \in {"allocate", "data", "pointers", "table"}
  BY <1>5, <1>6, Ext2Assumption DEF PhaseAfter
<1> HIDE DEF phase
<1>8. /\ operation' \in CreateType
      /\ operation'.phase = phase /\ operation'.got = got
      /\ operation'.dir = operation.dir /\ operation'.name = operation.name
      /\ operation'.inode = operation.inode /\ operation'.total = operation.total
  BY <1>2, <1>3, <1>6, <1>7 DEF CreateType
<1>9. Types'
  BY <1>3, <1>4, <1>8 DEF StructureInv, Types
<1>10. /\ Directories' /\ Removing' /\ operation'.kind = "create"
       /\ operation'.inode \in inodeUsage' \ Dir
       /\ Fits(operation.dir, operation.name)'
  BY <1>1, <1>3, <1>8, <1>9, GoesOn DEF CreateGoesOn
<1>11. Creating'
  BY <1>5, <1>7, <1>8, <1>10 DEF Creating
<1> QED
  BY <1>9, <1>10, <1>11 DEF StructureInv

\* The data go to the blocks the creation got.
LEMMA WriteDataKeepsStructure ==
  ASSUME StructureInv, WriteData
  PROVE  StructureInv'
<1> DEFINE part == Len(operation.got) - 1
           data == DataBlock(operation.inode, part)
           phase == PhaseAfter(operation.got)
<1>1. operation.kind = "create" /\ operation.phase = "data"
  BY DEF WriteData, Creates
<1>2. operation \in CreateType
  BY <1>1, Kinds DEF StructureInv
<1>3. /\ operation' = [operation EXCEPT !.phase = phase]
      /\ content' = [content EXCEPT ![Last(operation.got)] = data]
      /\ UNCHANGED <<blockUsage, inodeUsage, inodeTable, tempStructs, directory, deleted>>
  BY DEF WriteData
<1>4. /\ operation.got \in Seq(Block) /\ operation.total \in Nat \ {0}
      /\ Len(operation.got) \in (1 .. operation.total) \ {Direct + 1}
      /\ operation.inode \in Nat
  BY <1>1, <1>2 DEF StructureInv, Creating, CreateType, Inode
<1>5. data \in BlockType
  BY <1>4 DEF DataBlock, BlockType
<1>6. /\ phase = "allocate" => Len(operation.got) < operation.total
      /\ phase \in {"pointers", "table"} => Len(operation.got) = operation.total
      /\ phase = "pointers" => operation.total > Direct
      /\ phase \in {"allocate", "pointers", "table"}
  BY <1>4, Ext2Assumption DEF PhaseAfter
<1> HIDE DEF phase, data
<1>7. /\ operation' \in CreateType
      /\ operation'.phase = phase /\ operation'.got = operation.got
      /\ operation'.dir = operation.dir /\ operation'.name = operation.name
      /\ operation'.inode = operation.inode /\ operation'.total = operation.total
  BY <1>2, <1>3, <1>6 DEF CreateType
<1>8. content' \in [Block -> BlockType]
  BY <1>3, <1>5 DEF StructureInv, Types
<1>9. Types'
  BY <1>3, <1>7, <1>8 DEF StructureInv, Types
<1>10. /\ Directories' /\ Removing' /\ operation'.kind = "create"
       /\ operation'.inode \in inodeUsage' \ Dir
       /\ Fits(operation.dir, operation.name)'
  BY <1>1, <1>3, <1>7, <1>9, GoesOn DEF CreateGoesOn
<1>11. Creating'
  BY <1>4, <1>6, <1>7, <1>10 DEF Creating
<1> QED
  BY <1>9, <1>10, <1>11 DEF StructureInv

\* The pointers go to the indirect block.
LEMMA WritePointersKeepsStructure ==
  ASSUME StructureInv, WritePointers
  PROVE  StructureInv'
<1> DEFINE blocks == SubSeq(operation.got, Direct + 2, operation.total)
           data == PointerBlock(blocks)
<1>1. operation.kind = "create" /\ operation.phase = "pointers"
  BY DEF WritePointers, Creates
<1>2. operation \in CreateType
  BY <1>1, Kinds DEF StructureInv
<1>3. /\ operation' = [operation EXCEPT !.phase = "table"]
      /\ content' = [content EXCEPT ![operation.got[Direct + 1]] = data]
      /\ UNCHANGED <<blockUsage, inodeUsage, inodeTable, tempStructs, directory, deleted>>
  BY DEF WritePointers
<1>4. /\ operation.got \in Seq(Block) /\ operation.total \in Nat \ {0}
      /\ Len(operation.got) = operation.total
  BY <1>1, <1>2 DEF StructureInv, Creating, CreateType
<1>5. data \in BlockType
  <2>1. blocks \in Seq(Block)
    <3>1. /\ Direct + 2 \in Nat \ {0} /\ operation.total \in Nat
          /\ operation.total <= Len(operation.got)
      BY <1>4, Ext2Assumption
    <3>2. \A k \in Direct + 2 .. operation.total : operation.got[k] \in Block
      BY <1>4, Ext2Assumption
    <3> QED
      BY <3>1, <3>2, SubSeqProperties
  <2> HIDE DEF blocks
  <2> QED
    BY <2>1 DEF PointerBlock, BlockType
<1> HIDE DEF data, blocks
<1>6. /\ operation' \in CreateType
      /\ operation'.phase = "table" /\ operation'.got = operation.got
      /\ operation'.dir = operation.dir /\ operation'.name = operation.name
      /\ operation'.inode = operation.inode /\ operation'.total = operation.total
  BY <1>2, <1>3 DEF CreateType
<1>7. content' \in [Block -> BlockType]
  BY <1>3, <1>5 DEF StructureInv, Types
<1>8. Types'
  BY <1>3, <1>6, <1>7 DEF StructureInv, Types
<1>9. /\ Directories' /\ Removing' /\ operation'.kind = "create"
      /\ operation'.inode \in inodeUsage' \ Dir
      /\ Fits(operation.dir, operation.name)'
  BY <1>1, <1>3, <1>6, <1>8, GoesOn DEF CreateGoesOn
<1>10. Creating'
  BY <1>4, <1>6, <1>9 DEF Creating
<1> QED
  BY <1>8, <1>9, <1>10 DEF StructureInv

\* An inode is written to the table or stays in memory.
LEMMA StoredTypes ==
  ASSUME Types, NEW inode \in Inode, NEW value \in InodeValue, StoreInode(inode, value)
  PROVE  /\ inodeTable' \in [Inode -> InodeValue] /\ tempStructs' \in [Inode -> InodeValue]
         /\ inode <= InodesLoaded =>
              inodeTable' = [inodeTable EXCEPT ![inode] = value]
         /\ ~(inode <= InodesLoaded) => inodeTable' = inodeTable
BY DEF Types, StoreInode

\* The value a create stores.
Stored ==
  LET got == operation.got
      n == operation.total
  IN [direct |-> SubSeq(got, 1, IF n > Direct THEN Direct ELSE n),
      indirect |-> IF n > Direct THEN got[Direct + 1] ELSE 0,
      size |-> n]

\* It refers to the blocks the create has got, at their places.
LEMMA StoredIs ==
  ASSUME StructureInv, operation.kind = "create", operation.phase = "table"
  PROVE  /\ Stored \in InodeValue /\ Stored # ZeroInode
         /\ Len(Stored.direct) = IF operation.total > Direct THEN Direct ELSE operation.total
         /\ \A k \in 1 .. Len(Stored.direct) : Stored.direct[k] = operation.got[k]
         /\ Stored.indirect = IF operation.total > Direct THEN operation.got[Direct + 1] ELSE 0
         /\ Stored.size = operation.total
<1> DEFINE got == operation.got
           n == operation.total
           m == IF n > Direct THEN Direct ELSE n
           direct == SubSeq(got, 1, m)
           indirect == IF n > Direct THEN got[Direct + 1] ELSE 0
<1>1. operation \in CreateType
  BY Kinds DEF StructureInv
<1>2. got \in Seq(Block) /\ n \in Nat \ {0} /\ Len(got) = n
  BY <1>1 DEF StructureInv, Creating, CreateType
<1>3. m \in Nat /\ m <= n
  BY <1>2, Ext2Assumption
<1>4. \A k \in 1 .. n : got[k] \in Block
  BY <1>2
<1>5. Stored = [direct |-> direct, indirect |-> indirect, size |-> n]
  BY DEF Stored
<1>6. indirect \in Block
  BY <1>2, <1>4, Ext2Assumption DEF Block
<1>7. m = IF n > Direct THEN Direct ELSE n
  OBVIOUS
<1>8. indirect = IF n > Direct THEN got[Direct + 1] ELSE 0
  OBVIOUS
<1> HIDE DEF m, indirect
<1>9. direct \in Seq(Block) /\ Len(direct) = m /\ \A k \in 1 .. m : direct[k] = got[k]
  BY <1>2, <1>3, <1>4
<1> HIDE DEF direct
<1>10. Stored \in InodeValue
  BY <1>2, <1>5, <1>6, <1>9 DEF InodeValue
<1>11. Stored # ZeroInode
  <2>1. Stored.size = n /\ ZeroInode.size = 0
    BY <1>5 DEF ZeroInode
  <2> QED
    BY <1>2, <2>1
<1>12. Stored.direct = direct /\ Stored.indirect = indirect /\ Stored.size = n
  BY <1>5
<1> QED
  BY <1>9, <1>10, <1>11, <1>7, <1>8, <1>12

\* The inode is written with the blocks the creation got.
LEMMA writeInodeKeepsStructure ==
  ASSUME StructureInv, writeInodeEntry
  PROVE  StructureInv'
<1>1. operation.kind = "create" /\ operation.phase = "table"
  BY DEF writeInodeEntry, Creates
<1>2. operation \in CreateType /\ operation.inode \in Inode
  BY <1>1, Kinds DEF StructureInv, CreateType
<1>3. /\ operation' = [operation EXCEPT !.phase = "directory"]
      /\ StoreInode(operation.inode, Stored)
      /\ UNCHANGED <<blockUsage, inodeUsage, directory, content, deleted>>
  BY DEF writeInodeEntry, Stored
<1>4. Stored \in InodeValue /\ Stored # ZeroInode
  BY <1>1, StoredIs
<1>5. /\ inodeTable' \in [Inode -> InodeValue] /\ tempStructs' \in [Inode -> InodeValue]
      /\ operation.inode <= InodesLoaded =>
           inodeTable' = [inodeTable EXCEPT ![operation.inode] = Stored]
  BY <1>2, <1>3, <1>4, StoredTypes DEF StructureInv
<1>6. /\ operation' \in CreateType
      /\ operation'.phase = "directory" /\ operation'.got = operation.got
      /\ operation'.dir = operation.dir /\ operation'.name = operation.name
      /\ operation'.inode = operation.inode /\ operation'.total = operation.total
  BY <1>2, <1>3 DEF CreateType
<1>7. Types'
  BY <1>3, <1>5, <1>6 DEF StructureInv, Types
<1>8. /\ Directories' /\ Removing' /\ operation'.kind = "create"
      /\ operation'.inode \in inodeUsage' \ Dir
      /\ Fits(operation.dir, operation.name)'
  BY <1>1, <1>3, <1>6, <1>7, GoesOn DEF CreateGoesOn
<1>9. operation.inode <= InodesLoaded => inodeTable'[operation.inode] # ZeroInode
  BY <1>2, <1>4, <1>5 DEF StructureInv, Types
<1>10. Len(operation.got) = operation.total
  BY <1>1 DEF StructureInv, Creating
<1>11. Creating'
  BY <1>2, <1>6, <1>8, <1>9, <1>10 DEF Creating, CreateType
<1> QED
  BY <1>7, <1>8, <1>11 DEF StructureInv

\* A record that is added moves no other.
LEMMA AddsKeepsRecords ==
  ASSUME Types, Directories, NEW d \in Dir, NEW inode, NEW name, AddsTo(d, inode, name)
  PROVE  /\ \A e \in Dir : /\ Len(directory'[e]) \in Nat
                          /\ Len(directory'[e]) >= Len(directory[e])
         /\ \A e \in Dir : \A k \in 1 .. Len(directory[e]) :
              /\ directory'[e][k].inode = directory[e][k].inode
              /\ directory'[e][k].name = directory[e][k].name
         /\ Len(directory'[d]) = Len(directory[d]) + 1
         /\ directory'[d][Len(directory[d]) + 1].inode = inode
<1>1. \A e \in Dir : /\ directory[e] \in Seq(RecordType) /\ Len(directory[e]) \in Nat
                   /\ Len(directory[e]) >= 2
  BY DEF Types, Directories
<1>2. SplitFor(directory'[d], directory[d], inode, name)
  BY DEF AddsTo
<1>3. \A k \in 1 .. Len(directory[d]) : /\ directory'[d][k].inode = directory[d][k].inode
                                       /\ directory'[d][k].name = directory[d][k].name
  <2> TAKE k \in 1 .. Len(directory[d])
  <2>1. CASE k = Len(directory[d])
    BY <1>2, <2>1 DEF SplitFor
  <2>2. CASE k # Len(directory[d])
    <3>1. k \in 1 .. Len(directory[d]) - 1
      BY <1>1, <2>2
    <3> QED
      BY <1>2, <3>1 DEF SplitFor
  <2> QED
    BY <2>1, <2>2
<1>4. \A e \in Dir \ {d} : directory'[e] = directory[e]
  BY DEF AddsTo
<1>5. /\ Len(directory'[d]) = Len(directory[d]) + 1
      /\ directory'[d][Len(directory[d]) + 1].inode = inode
  BY <1>2 DEF SplitFor
<1>6. ASSUME NEW e \in Dir
      PROVE  /\ Len(directory'[e]) \in Nat /\ Len(directory'[e]) >= Len(directory[e])
             /\ \A k \in 1 .. Len(directory[e]) :
                  /\ directory'[e][k].inode = directory[e][k].inode
                  /\ directory'[e][k].name = directory[e][k].name
  <2>1. CASE e = d
    <3>1. Len(directory'[d]) \in Nat /\ Len(directory'[d]) >= Len(directory[d])
      BY <1>1, <1>5
    <3> QED
      BY <1>3, <2>1, <3>1
  <2>2. CASE e # d
    <3>1. directory'[e] = directory[e] /\ Len(directory[e]) \in Nat
      BY <1>1, <1>4, <2>2
    <3> QED
      BY <3>1
  <2> QED
    BY <2>1, <2>2
<1> QED
  BY <1>5, <1>6

\* A creation adds its name behind the others.
LEMMA WriteDirectoryAdds ==
  ASSUME StructureInv, WriteDirectory
  PROVE  /\ operation \in CreateType /\ operation.phase = "directory"
         /\ AddsTo(operation.dir, operation.inode, operation.name)
         /\ operation.inode \in inodeUsage \ Dir
         /\ operation' = Idle
         /\ UNCHANGED <<blockUsage, inodeUsage, inodeTable, tempStructs, content, deleted>>
<1>1. operation.kind = "create" /\ operation.phase = "directory"
  BY DEF WriteDirectory, Creates
<1>2. operation \in CreateType
  BY <1>1, Kinds DEF StructureInv
<1>3. operation.dir \in Dir /\ operation.name \in Name /\ operation.inode \in Inode
  BY <1>2 DEF CreateType
<1>4. Fits(operation.dir, operation.name) /\ operation.inode \in inodeUsage \ Dir
  BY <1>1 DEF StructureInv, Creating
<1>5. directory' = [directory EXCEPT ![operation.dir] =
                     Appended(operation.dir, operation.inode, operation.name)]
  BY DEF WriteDirectory
<1>6. AddsTo(operation.dir, operation.inode, operation.name)
  BY <1>3, <1>4, <1>5, Adds DEF StructureInv
<1> QED
  BY <1>1, <1>2, <1>4, <1>6 DEF WriteDirectory

\* The last step of a creation.
LEMMA WriteDirectoryKeepsStructure ==
  ASSUME StructureInv, WriteDirectory
  PROVE  StructureInv'
<1>1. /\ operation \in CreateType /\ operation.phase = "directory"
      /\ AddsTo(operation.dir, operation.inode, operation.name)
      /\ operation.inode \in inodeUsage \ Dir
      /\ operation' = Idle
      /\ UNCHANGED <<blockUsage, inodeUsage, inodeTable, tempStructs, content, deleted>>
  BY WriteDirectoryAdds
<1>2. operation.dir \in Dir /\ operation.name \in Name
  BY <1>1 DEF CreateType
<1>3. Directories'
  BY <1>1, <1>2, AddsKeepsDirectories DEF StructureInv
<1>4. directory' \in [Dir -> Seq(RecordType)]
  BY <1>1 DEF AddsTo
<1>5. Types'
  BY <1>1, <1>4 DEF StructureInv, Types
<1>6. Creating' /\ Removing'
  BY <1>1 DEF Creating, Removing, Idle
<1> QED
  BY <1>3, <1>5, <1>6 DEF StructureInv

\* A deletion clears the inode of a name it found.
LEMMA deleteKeepsStructure ==
  ASSUME StructureInv, NEW d \in Dir, NEW name \in Name, deleteFile(d, name)
  PROVE  StructureInv'
<1> DEFINE inode == returnInodeofFileName(name, d)
<1>1. Matches(d, name) # {}
  BY DEF deleteFile
<1>2. inode \in inodeUsage \ Dir
  BY <1>1, MatchIsFile DEF StructureInv
<1>3. inode \in Inode
  BY <1>2 DEF StructureInv, Types
<1>4. /\ StoreInode(inode, ZeroInode) /\ deleted' = deleted \cup {inode}
      /\ operation' = [kind |-> "delete", dir |-> d, name |-> name, inode |-> inode]
      /\ UNCHANGED <<blockUsage, inodeUsage, directory, content>>
  BY DEF deleteFile
<1>5. ZeroInode \in InodeValue
  BY Ext2Assumption DEF ZeroInode, InodeValue, Block
<1>6. inodeTable' \in [Inode -> InodeValue] /\ tempStructs' \in [Inode -> InodeValue]
  BY <1>3, <1>4, <1>5, StoredTypes DEF StructureInv
<1>7. Matches(d, name)' # {} /\ returnInodeofFileName(name, d)' = inode
  BY <1>1, <1>4 DEF Matches, returnInodeofFileName
<1> HIDE DEF inode
<1>8. /\ operation' \in RemoveType /\ operation'.kind = "delete"
      /\ operation'.dir = d /\ operation'.name = name /\ operation'.inode = inode
  BY <1>3, <1>4 DEF RemoveType
<1>9. Types'
  BY <1>2, <1>4, <1>6, <1>8 DEF StructureInv, Types
<1>10. Directories'
  BY <1>4 DEF StructureInv, Directories, RecordSize
<1>11. Creating'
  BY <1>8 DEF Creating
<1>12. Removing'
  BY <1>8, <1>7 DEF Removing, Matches, returnInodeofFileName
<1> QED
  BY <1>9, <1>10, <1>11, <1>12 DEF StructureInv

\* A move leaves the new name and, in front of it, the old one.
LEMMA moveAdds ==
  ASSUME StructureInv, NEW source \in Dir, NEW destination \in Dir, NEW name \in Name,
         moveFile(source, destination, name)
  PROVE  /\ returnInodeofFileName(name, source) \in (inodeUsage \cap Inode) \ Dir
         /\ AddsTo(destination, returnInodeofFileName(name, source), name)
         /\ operation' = [kind |-> "move", dir |-> source, name |-> name,
                         inode |-> returnInodeofFileName(name, source)]
         /\ UNCHANGED <<blockUsage, inodeUsage, inodeTable, tempStructs, content, deleted>>
<1> DEFINE inode == returnInodeofFileName(name, source)
<1>1. Matches(source, name) # {} /\ Fits(destination, name)
  BY DEF moveFile
<1>2. inode \in inodeUsage \ Dir
  BY <1>1, MatchIsFile DEF StructureInv
<1>3. inode \in Inode
  BY <1>2 DEF StructureInv, Types
<1>4. /\ directory' = [directory EXCEPT ![destination] = Appended(destination, inode, name)]
      /\ operation' = [kind |-> "move", dir |-> source, name |-> name, inode |-> inode]
      /\ UNCHANGED <<blockUsage, inodeUsage, inodeTable, tempStructs, content, deleted>>
  BY DEF moveFile
<1> HIDE DEF inode
<1>5. AddsTo(destination, inode, name)
  BY <1>1, <1>3, <1>4, Adds DEF StructureInv
<1> QED
  BY <1>2, <1>3, <1>4, <1>5 DEF inode

\* A move begins.
LEMMA moveKeepsStructure ==
  ASSUME StructureInv, NEW source \in Dir, NEW destination \in Dir, NEW name \in Name,
         moveFile(source, destination, name)
  PROVE  StructureInv'
<1> DEFINE inode == returnInodeofFileName(name, source)
           s == directory[source]
           t == directory'[source]
<1>1. /\ inode \in (inodeUsage \cap Inode) \ Dir
      /\ AddsTo(destination, inode, name)
      /\ operation' = [kind |-> "move", dir |-> source, name |-> name, inode |-> inode]
      /\ UNCHANGED <<blockUsage, inodeUsage, inodeTable, tempStructs, content, deleted>>
  BY moveAdds
<1>2. PICK i \in 3 .. Len(s) :
        /\ s[i].name = name /\ \A k \in 1 .. i - 1 : s[k].name # name
        /\ s[i].inode = inode
  <2>1. Matches(source, name) # {}
    BY DEF moveFile
  <2> QED
    BY <2>1, MatchIsFile DEF StructureInv
<1>3. returnInodeofFileName(name, source)' = t[FirstOf(Matches(source, name)')].inode
  BY DEF returnInodeofFileName
<1> HIDE DEF inode
<1>4. /\ operation' \in RemoveType /\ operation'.kind = "move"
      /\ operation'.dir = source /\ operation'.name = name /\ operation'.inode = inode
  BY <1>1 DEF RemoveType
<1>5. directory' \in [Dir -> Seq(RecordType)]
  BY <1>1 DEF AddsTo
<1>6. Types'
  BY <1>1, <1>4, <1>5 DEF StructureInv, Types
<1>7. Directories'
  BY <1>1, AddsKeepsDirectories DEF StructureInv
<1>8. /\ \A e \in Dir : Len(directory'[e]) \in Nat /\ Len(directory'[e]) >= Len(directory[e])
      /\ \A e \in Dir : \A k \in 1 .. Len(directory[e]) :
           /\ directory'[e][k].inode = directory[e][k].inode
           /\ directory'[e][k].name = directory[e][k].name
      /\ Len(directory'[destination]) = Len(directory[destination]) + 1
      /\ directory'[destination][Len(directory[destination]) + 1].inode = inode
  BY <1>1, AddsKeepsRecords DEF StructureInv
<1>9. \A e \in Dir : DOMAIN directory'[e] = 1 .. Len(directory'[e])
  BY <1>5
<1>10. Len(s) \in Nat /\ Len(directory[destination]) \in Nat
  BY DEF StructureInv, Types
<1>11. Matches(source, name)' # {} /\ returnInodeofFileName(name, source)' = inode
  <2>1. Matches(source, name)' = { k \in 1 .. Len(t) : t[k].name = name }
    BY <1>9 DEF Matches
  <2>2. Len(t) \in Nat /\ Len(t) >= Len(s) /\ i \in 3 .. Len(s)
    BY <1>8
  <2>3. \A k \in 1 .. Len(s) : t[k].name = s[k].name /\ t[k].inode = s[k].inode
    BY <1>8
  <2> HIDE DEF s, t
  <2>4. i \in Matches(source, name)'
    BY <1>2, <1>10, <2>1, <2>2, <2>3
  <2>5. \A k \in Matches(source, name)' : i <= k
    BY <1>2, <1>10, <2>1, <2>2, <2>3
  <2>6. FirstOf(Matches(source, name)') = i
    <3>1. Matches(source, name)' \in SUBSET Nat
      BY <2>1
    <3>2. /\ FirstOf(Matches(source, name)') \in Matches(source, name)'
          /\ FirstOf(Matches(source, name)') <= i
      BY <2>4, <3>1, FirstOfIsFirst
    <3>3. FirstOf(Matches(source, name)') \in Nat /\ i <= FirstOf(Matches(source, name)')
      BY <2>5, <3>1, <3>2
    <3> QED
      BY <3>2, <3>3
  <2>7. t[i].inode = inode
    BY <1>2, <1>10, <2>2, <2>3
  <2> QED
    BY <1>3, <2>4, <2>6, <2>7
<1>12. PICK number \in Inode : number = inode
  BY <1>1
<1>13. NamedTwice(number)'
  <2> DEFINE last == Len(directory[destination]) + 1
  <2>1. last \in DOMAIN directory'[destination] /\ directory'[destination][last].inode = inode
    BY <1>8, <1>9, <1>10
  <2>2. i \in DOMAIN t /\ t[i].inode = inode
    BY <1>2, <1>8, <1>9, <1>10
  <2>3. destination # source \/ last # i
    BY <1>10
  <2> HIDE DEF last
  <2> QED
    BY <1>12, <2>1, <2>2, <2>3 DEF NamedTwice
<1>14. Creating'
  BY <1>4 DEF Creating
<1>15. Removing'
  <2>1. Matches(operation.dir, operation.name)' = Matches(source, name)'
    BY <1>4 DEF Matches
  <2>2. returnInodeofFileName(operation.name, operation.dir)' = returnInodeofFileName(name, source)'
    BY <1>4, <2>1 DEF returnInodeofFileName
  <2>3. NamedTwice(operation.inode)'
    BY <1>4, <1>13, <1>12 DEF NamedTwice
  <2> QED
    BY <1>4, <1>11, <2>1, <2>2, <2>3 DEF Removing
<1> QED
  BY <1>6, <1>7, <1>14, <1>15 DEF StructureInv

\* The second step of a deletion or a move takes one name out.
LEMMA deleteEntryTakes ==
  ASSUME StructureInv, deleteDirectoryEntry
  PROVE  /\ operation \in RemoveType
         /\ \E j \in 3 .. Len(directory[operation.dir]) :
              TakesFrom(operation.dir, operation.inode, j)
         /\ operation' = Idle
         /\ UNCHANGED <<blockUsage, inodeUsage, inodeTable, tempStructs, content, deleted>>
<1> DEFINE d == operation.dir
           inode == operation.inode
<1>1. operation.kind \in {"delete", "move"}
  BY DEF deleteDirectoryEntry
<1>2. operation \in RemoveType
  BY <1>1, Kinds DEF StructureInv
<1>3. d \in Dir /\ operation.name \in Name /\ inode \in Inode
  BY <1>2 DEF RemoveType
<1>4. /\ Matches(d, operation.name) # {}
      /\ returnInodeofFileName(operation.name, d) = inode
  BY <1>1 DEF StructureInv, Removing
<1>5. directory' = [directory EXCEPT ![d] = Removed(d, inode)]
  BY <1>4 DEF deleteDirectoryEntry
<1>6. PICK i \in 3 .. Len(directory[d]) : directory[d][i].inode = inode /\ inode \notin Dir
  BY <1>3, <1>4, MatchIsFile DEF StructureInv
<1>7. i \in DOMAIN directory[d]
  BY <1>3 DEF StructureInv, Types
<1> HIDE DEF d, inode
<1>8. \E j \in 3 .. Len(directory[d]) : TakesFrom(d, inode, j)
  BY <1>3, <1>5, <1>6, <1>7, Takes DEF StructureInv
<1> QED
  BY <1>2, <1>8 DEF deleteDirectoryEntry, d, inode

\* The second step of a deletion or a move.
LEMMA deleteEntryKeepsStructure ==
  ASSUME StructureInv, deleteDirectoryEntry
  PROVE  StructureInv'
<1>1. /\ operation \in RemoveType
      /\ operation' = Idle
      /\ UNCHANGED <<blockUsage, inodeUsage, inodeTable, tempStructs, content, deleted>>
  BY deleteEntryTakes
<1>2. PICK j \in 3 .. Len(directory[operation.dir]) :
        TakesFrom(operation.dir, operation.inode, j)
  BY deleteEntryTakes
<1>3. operation.dir \in Dir
  BY <1>1 DEF RemoveType
<1>4. Directories'
  BY <1>1, <1>2, <1>3, TakesKeepsDirectories DEF StructureInv
<1>5. directory' \in [Dir -> Seq(RecordType)]
  BY <1>2 DEF TakesFrom
<1>6. Types'
  BY <1>1, <1>5 DEF StructureInv, Types
<1>7. Creating' /\ Removing'
  BY <1>1 DEF Creating, Removing, Idle
<1> QED
  BY <1>4, <1>6, <1>7 DEF StructureInv

\* A failure of the power forgets the operation and keeps the disk.
LEMMA PowerLossKeepsStructure ==
  ASSUME StructureInv, PowerLoss
  PROVE  StructureInv'
<1>1. ZeroInode \in InodeValue
  BY Ext2Assumption DEF ZeroInode, InodeValue, Block
<1>2. Types'
  BY <1>1 DEF StructureInv, Types, PowerLoss, disk
<1>3. Directories'
  BY DEF StructureInv, Directories, RecordSize, PowerLoss, disk
<1>4. Creating' /\ Removing'
  BY DEF Creating, Removing, Idle, PowerLoss
<1> QED
  BY <1>2, <1>3, <1>4 DEF StructureInv

\* Every step keeps the structure, one lemma for each action.
LEMMA NextKeepsStructure == StructureInv /\ [Next]_vars => StructureInv'
<1> SUFFICES ASSUME StructureInv, [Next]_vars
             PROVE  StructureInv'
  OBVIOUS
<1>1. ASSUME NEW d \in Dir, NEW name \in Name, NEW blocks \in BufferBlocks,
             createFile(d, name, blocks)
      PROVE  StructureInv'
  BY <1>1, createKeepsStructure
<1>2. ASSUME NEW d \in Dir, NEW name \in Name, deleteFile(d, name)
      PROVE  StructureInv'
  BY <1>2, deleteKeepsStructure
<1>3. ASSUME NEW d \in Dir, NEW name \in Name, NEW destination \in Dir,
             moveFile(d, destination, name)
      PROVE  StructureInv'
  BY <1>3, moveKeepsStructure
<1>4. CASE UNCHANGED vars
  <2>1. Types' /\ Directories' /\ Creating'
    BY <1>4 DEF vars, StructureInv, Types, Directories, RecordSize, Creating, Fits
  <2>2. Removing'
    BY <1>4 DEF vars, StructureInv, Removing, Matches, returnInodeofFileName, NamedTwice
  <2> QED
    BY <2>1, <2>2 DEF StructureInv
<1> QED
  BY <1>1, <1>2, <1>3, <1>4, allocateKeepsStructure, WriteDataKeepsStructure,
     WritePointersKeepsStructure, writeInodeKeepsStructure, WriteDirectoryKeepsStructure,
     deleteEntryKeepsStructure, PowerLossKeepsStructure DEF Next

\* Every reachable state has the structure.
LEMMA StructureHolds == Spec => []StructureInv
<1>1. StructureInv /\ [Next]_vars => StructureInv'
  BY NextKeepsStructure
<1> QED
  BY StructureInitially, <1>1, PTL DEF Spec

\* The types of all the state hold whatever call or power loss comes next.
THEOREM TypeCorrect == Spec => []TypeOK
<1>1. ASSUME StructureInv
      PROVE  TypeOK
  <2>1. \A d \in Dir : \A j \in DOMAIN directory[d] :
          directory[d][j].inode \in Inode /\ directory[d][j].recLength \in Nat \ {0}
    <3> TAKE d \in Dir
    <3> TAKE j \in DOMAIN directory[d]
    <3>1. directory[d][j] \in RecordType
      BY <1>1 DEF StructureInv, Types
    <3> QED
      BY <3>1 DEF RecordType
  <2>2. \A b \in Block : content[b].pointers \in Seq(Block)
    BY <1>1 DEF StructureInv, Types, BlockType
  <2>3. operation.kind \in {"idle", "create", "delete", "move"}
    BY <1>1 DEF StructureInv, Types, Idle, CreateType, RemoveType
  <2> QED
    BY <1>1, <2>1, <2>2, <2>3 DEF StructureInv, Types, Creating, TypeOK
<1> QED
  BY StructureHolds, <1>1, PTL

-----------------------------------------------------------------------------
(* Names *)

\* A record that is added gives its inode a name and takes no other's.
LEMMA AddsNames ==
  ASSUME Types, Directories, NEW d \in Dir, NEW inode, NEW name, AddsTo(d, inode, name)
  PROVE  \A i : Named(i)' <=> Named(i) \/ i = inode
<1> TAKE i
<1>1. /\ \A e \in Dir : Len(directory'[e]) \in Nat /\ Len(directory'[e]) >= Len(directory[e])
      /\ \A e \in Dir : \A k \in 1 .. Len(directory[e]) :
           directory'[e][k].inode = directory[e][k].inode
      /\ Len(directory'[d]) = Len(directory[d]) + 1
      /\ directory'[d][Len(directory[d]) + 1].inode = inode
  BY AddsKeepsRecords
<1>2. \A e \in Dir : /\ DOMAIN directory[e] = 1 .. Len(directory[e])
                   /\ Len(directory[e]) \in Nat
                   /\ DOMAIN directory'[e] = 1 .. Len(directory'[e])
  BY DEF Types, AddsTo
<1>3. \A e \in Dir : e # d => directory'[e] = directory[e]
  BY DEF AddsTo
<1>4. ASSUME Named(i)
      PROVE  Named(i)'
  <2>1. PICK e \in Dir : \E k \in DOMAIN directory[e] : directory[e][k].inode = i
    BY <1>4 DEF Named
  <2>2. PICK k \in DOMAIN directory[e] : directory[e][k].inode = i
    BY <2>1
  <2>3. k \in DOMAIN directory'[e] /\ directory'[e][k].inode = i
    BY <1>1, <1>2, <2>2
  <2> QED
    BY <2>3 DEF Named
<1>5. ASSUME i = inode
      PROVE  Named(i)'
  <2>1. Len(directory[d]) + 1 \in DOMAIN directory'[d]
    BY <1>1, <1>2
  <2> QED
    BY <1>1, <1>5, <2>1 DEF Named
<1>6. ASSUME Named(i)', i # inode
      PROVE  Named(i)
  <2>1. PICK e \in Dir : \E k \in DOMAIN directory'[e] : directory'[e][k].inode = i
    BY <1>6 DEF Named
  <2>2. PICK k \in DOMAIN directory'[e] : directory'[e][k].inode = i
    BY <2>1
  <2>3. k \in DOMAIN directory[e]
    <3>1. CASE e = d
      <4>1. k \in 1 .. Len(directory[d]) + 1 /\ k # Len(directory[d]) + 1
        BY <1>1, <1>2, <1>6, <2>2, <3>1
      <4> QED
        BY <1>2, <3>1, <4>1
    <3>2. CASE e # d
      BY <1>3, <2>2, <3>2
    <3> QED
      BY <3>1, <3>2
  <2>4. directory[e][k].inode = i
    BY <1>1, <1>2, <2>2, <2>3
  <2> QED
    BY <2>3, <2>4 DEF Named
<1> QED
  BY <1>4, <1>5, <1>6

\* A record that goes takes one name, of its own inode.
LEMMA TakesNames ==
  ASSUME Types, Directories, NEW d \in Dir, NEW inode, NEW j, TakesFrom(d, inode, j)
  PROVE  /\ \A i : Named(i)' => Named(i)
         /\ \A i : Named(i) /\ i # inode => Named(i)'
         /\ NamedTwice(inode) => Named(inode)'
<1> DEFINE s == directory[d]
           t == directory'[d]
<1>1. \A e \in Dir : /\ DOMAIN directory[e] = 1 .. Len(directory[e])
                   /\ Len(directory[e]) \in Nat
                   /\ DOMAIN directory'[e] = 1 .. Len(directory'[e])
  BY DEF Types, TakesFrom
<1>2. /\ \A e \in Dir : e # d => directory'[e] = directory[e]
      /\ j \in 3 .. Len(s) /\ s[j].inode = inode
  BY DEF TakesFrom
<1>3. /\ Len(t) = Len(s) - 1
      /\ \A k \in 1 .. j - 2 : t[k] = s[k]
      /\ t[j - 1].inode = s[j - 1].inode
      /\ \A k \in j .. Len(s) - 1 : t[k] = s[k + 1]
  BY DEF TakesFrom, MergedAt
<1>4. ASSUME NEW k \in DOMAIN s, k # j
      PROVE  \E m \in DOMAIN t : t[m].inode = s[k].inode
  <2> DEFINE m == IF k < j THEN k ELSE k - 1
  <2>1. DOMAIN s = 1 .. Len(s) /\ DOMAIN t = 1 .. Len(t) /\ Len(s) \in Nat
    BY <1>1
  <2> HIDE DEF s, t
  <2>2. m \in DOMAIN t
    BY <1>2, <1>3, <1>4, <2>1
  <2>3. t[m].inode = s[k].inode
    <3>1. CASE k \in 1 .. j - 2
      BY <1>2, <1>3, <3>1
    <3>2. CASE k = j - 1
      BY <1>2, <1>3, <3>2
    <3>3. CASE k > j
      <4>1. k - 1 \in j .. Len(s) - 1 /\ (k - 1) + 1 = k /\ m = k - 1
        BY <1>2, <2>1, <3>3
      <4> QED
        BY <1>3, <4>1
    <3> QED
      BY <1>2, <1>4, <2>1, <3>1, <3>2, <3>3
  <2> QED
    BY <2>2, <2>3
<1>5. ASSUME NEW m \in DOMAIN t
      PROVE  \E k \in DOMAIN s : t[m].inode = s[k].inode
  <2>1. DOMAIN s = 1 .. Len(s) /\ DOMAIN t = 1 .. Len(t) /\ Len(s) \in Nat
    BY <1>1
  <2> HIDE DEF s, t
  <2> DEFINE k == IF m < j THEN m ELSE m + 1
  <2>2. k \in DOMAIN s
    BY <1>2, <1>3, <1>5, <2>1
  <2>3. t[m].inode = s[k].inode
    <3>1. CASE m \in 1 .. j - 2
      <4>1. k = m
        BY <1>2, <2>1, <3>1
      <4> QED
        BY <1>3, <3>1, <4>1
    <3>2. CASE m = j - 1
      <4>1. k = j - 1
        BY <1>2, <2>1, <3>2
      <4> QED
        BY <1>3, <3>2, <4>1
    <3>3. CASE m \in j .. Len(s) - 1
      <4>1. k = m + 1
        BY <1>2, <2>1, <3>3
      <4> QED
        BY <1>3, <3>3, <4>1
    <3> QED
      BY <1>2, <1>3, <1>5, <2>1, <3>1, <3>2, <3>3
  <2> QED
    BY <2>2, <2>3
<1>6. ASSUME NEW i, Named(i)'
      PROVE  Named(i)
  BY <1>2, <1>5, <1>6 DEF Named
<1>7. ASSUME NEW i, Named(i), i # inode
      PROVE  Named(i)'
  BY <1>2, <1>4, <1>7 DEF Named
<1>8. ASSUME NamedTwice(inode)
      PROVE  Named(inode)'
  <2>1. PICK e \in Dir : \E k \in DOMAIN directory[e] :
          directory[e][k].inode = inode /\ (e # d \/ k # j)
    BY <1>8 DEF NamedTwice
  <2>2. PICK k \in DOMAIN directory[e] :
          directory[e][k].inode = inode /\ (e # d \/ k # j)
    BY <2>1
  <2>3. \E m \in DOMAIN directory'[e] : directory'[e][m].inode = inode
    BY <1>2, <1>4, <2>2
  <2> QED
    BY <2>3 DEF Named
<1> QED
  BY <1>6, <1>7, <1>8

\* No step leaves a name without an inode.
LEMMA NextNames == StructureInv /\ NameHasInode /\ [Next]_vars => NameHasInode'
<1> SUFFICES ASSUME StructureInv, NameHasInode, [Next]_vars
             PROVE  NameHasInode'
  OBVIOUS
<1> DEFINE Same == UNCHANGED <<directory, inodeTable, deleted>>
<1>1. ASSUME Same
      PROVE  NameHasInode'
  BY <1>1 DEF NameHasInode, Named
<1>2. ASSUME NEW d \in Dir, NEW name \in Name, NEW blocks \in BufferBlocks,
             createFile(d, name, blocks)
      PROVE  Same
  BY <1>2 DEF createFile
<1>3. ASSUME NEW d \in Dir, NEW name \in Name, deleteFile(d, name)
      PROVE  NameHasInode'
  <2> DEFINE inode == returnInodeofFileName(name, d)
  <2>1. /\ StoreInode(inode, ZeroInode) /\ deleted' = deleted \cup {inode}
        /\ directory' = directory
    BY <1>3 DEF deleteFile
  <2>2. \A i \in Inode \ {inode} : inodeTable'[i] = inodeTable[i]
    BY <2>1 DEF StoreInode, StructureInv, Types
  <2>3. \A i \in 1 .. InodesLoaded : i \in Inode
    BY Ext2Assumption DEF Inode
  <2> HIDE DEF inode
  <2> QED
    BY <2>1, <2>2, <2>3 DEF NameHasInode, Named
<1>4. ASSUME NEW d \in Dir, NEW name \in Name, NEW destination \in Dir,
             moveFile(d, destination, name)
      PROVE  NameHasInode'
  <2> DEFINE inode == returnInodeofFileName(name, d)
  <2>1. AddsTo(destination, inode, name) /\ UNCHANGED <<inodeTable, deleted>>
    BY <1>4, moveAdds
  <2>2. Named(inode)
    <3>1. Matches(d, name) # {}
      BY <1>4 DEF moveFile
    <3>2. PICK j \in 3 .. Len(directory[d]) : directory[d][j].inode = inode
      BY <3>1, MatchIsFile DEF StructureInv
    <3>3. j \in DOMAIN directory[d]
      BY <3>2 DEF StructureInv, Types
    <3> QED
      BY <3>2, <3>3 DEF Named
  <2> HIDE DEF inode
  <2>3. \A i : Named(i)' => Named(i)
    BY <2>1, <2>2, AddsNames DEF StructureInv
  <2> QED
    BY <2>1, <2>3 DEF NameHasInode
<1>5. ASSUME writeInodeEntry
      PROVE  NameHasInode'
  <2>1. operation.kind = "create" /\ operation.phase = "table"
    BY <1>5 DEF writeInodeEntry, Creates
  <2>2. /\ StoreInode(operation.inode, Stored) /\ UNCHANGED <<directory, deleted>>
    BY <1>5 DEF writeInodeEntry, Stored
  <2>3. Stored # ZeroInode
    BY <2>1, StoredIs
  <2>4. \A i \in Inode : inodeTable'[i] = inodeTable[i] \/ inodeTable'[i] = Stored
    BY <2>2 DEF StoreInode, StructureInv, Types
  <2>5. \A i \in 1 .. InodesLoaded : i \in Inode
    BY Ext2Assumption DEF Inode
  <2> QED
    BY <2>2, <2>3, <2>4, <2>5 DEF NameHasInode, Named
<1>6. ASSUME WriteDirectory
      PROVE  NameHasInode'
  <2>1. /\ operation \in CreateType /\ operation.phase = "directory"
        /\ AddsTo(operation.dir, operation.inode, operation.name)
        /\ UNCHANGED <<inodeTable, deleted>>
    BY <1>6, WriteDirectoryAdds
  <2>2. operation.dir \in Dir /\ operation.kind = "create"
    BY <2>1 DEF CreateType
  <2>3. operation.inode <= InodesLoaded => inodeTable[operation.inode] # ZeroInode
    BY <2>1, <2>2 DEF StructureInv, Creating
  <2>4. \A i : Named(i)' => Named(i) \/ i = operation.inode
    BY <2>1, <2>2, AddsNames DEF StructureInv
  <2>5. \A i \in 1 .. InodesLoaded : i <= InodesLoaded
    BY Ext2Assumption
  <2> QED
    BY <2>1, <2>3, <2>4, <2>5 DEF NameHasInode
<1>7. ASSUME deleteDirectoryEntry
      PROVE  NameHasInode'
  <2>1. operation.dir \in Dir /\ UNCHANGED <<inodeTable, deleted>>
    BY <1>7, deleteEntryTakes DEF RemoveType
  <2>2. PICK j : TakesFrom(operation.dir, operation.inode, j)
    BY <1>7, deleteEntryTakes
  <2>3. \A i : Named(i)' => Named(i)
    BY <2>1, <2>2, TakesNames DEF StructureInv
  <2> QED
    BY <2>1, <2>3 DEF NameHasInode
<1>8. ASSUME allocateFreeBlock \/ WriteData \/ WritePointers \/ PowerLoss \/ UNCHANGED vars
      PROVE  Same
  BY <1>8 DEF allocateFreeBlock, WriteData, WritePointers, PowerLoss, disk, vars
<1> HIDE DEF Same
<1> QED
  BY <1>1, <1>2, <1>3, <1>4, <1>5, <1>6, <1>7, <1>8 DEF Next

\* A name never stands on the disk before its inode does, whatever write the
\* power fails after: createFile writes the inode table before the directory,
\* and no inode that was given out is given out again.
THEOREM InodeBeforeName == Spec => []NameHasInode
<1>1. Init => NameHasInode
  <2> SUFFICES ASSUME Init, NEW i \in 1 .. InodesLoaded, Named(i)
               PROVE  i \in Dir
    BY DEF NameHasInode
  <2>1. PICK d \in Dir : \E j \in DOMAIN directory[d] : directory[d][j].inode = i
    BY DEF Named
  <2>2. PICK j \in DOMAIN directory[d] : directory[d][j].inode = i
    BY <2>1
  <2>3. j \in 1 .. 2 /\ Len(directory[d]) = 2 /\ directory[d][j].inode \in Dir
    <3>1. Types /\ Directories
      BY StructureInitially DEF StructureInv
    <3>2. directory[d] \in Seq(RecordType) /\ Len(directory[d]) = 2
      BY <3>1 DEF Types, Init
    <3> QED
      BY <3>1, <3>2, <2>2 DEF Directories
  <2> QED
    BY <2>2, <2>3
<1>2. StructureInv /\ NameHasInode /\ [Next]_vars => NameHasInode'
  BY NextNames
<1> QED
  BY StructureHolds, <1>1, <1>2, PTL DEF Spec

\* A file loses its last name in its own deletion only: every other write of
\* a directory adds a record, or removes one of an inode with two names.
THEOREM MoveKeepsAName == Spec => OnlyDeleteUnnames
<1> DEFINE Step == \A i \in Inode : Named(i) /\ ~Named(i)' =>
                     operation.kind = "delete" /\ operation.inode = i
<1>1. ASSUME StructureInv, [Next]_vars
      PROVE  [Step]_vars
  <2> USE <1>1
  <2>1. ASSUME directory' = directory
        PROVE  Step
    BY <2>1 DEF Named
  <2>2. ASSUME NEW d \in Dir, NEW name \in Name, NEW destination \in Dir,
               moveFile(d, destination, name)
        PROVE  Step
    <3>1. AddsTo(destination, returnInodeofFileName(name, d), name)
      BY <2>2, moveAdds
    <3>2. \A i : Named(i) => Named(i)'
      BY <3>1, AddsNames DEF StructureInv
    <3> QED
      BY <3>2
  <2>3. ASSUME WriteDirectory
        PROVE  Step
    <3>1. /\ operation.dir \in Dir
          /\ AddsTo(operation.dir, operation.inode, operation.name)
      BY <2>3, WriteDirectoryAdds DEF CreateType
    <3>2. \A i : Named(i) => Named(i)'
      BY <3>1, AddsNames DEF StructureInv
    <3> QED
      BY <3>2
  <2>4. ASSUME deleteDirectoryEntry
        PROVE  Step
    <3>1. operation.dir \in Dir /\ operation.kind \in {"delete", "move"}
      BY <2>4, deleteEntryTakes DEF RemoveType
    <3>2. PICK j : TakesFrom(operation.dir, operation.inode, j)
      BY <2>4, deleteEntryTakes
    <3>3. /\ \A i : Named(i) /\ i # operation.inode => Named(i)'
          /\ NamedTwice(operation.inode) => \A i : i = operation.inode => Named(i)'
      <4>1. PICK inode : inode = operation.inode
        OBVIOUS
      <4>2. TakesFrom(operation.dir, inode, j)
        BY <3>2, <4>1
      <4>3. /\ \A i : Named(i) /\ i # inode => Named(i)'
            /\ NamedTwice(inode) => Named(inode)'
        BY <3>1, <4>2, TakesNames DEF StructureInv
      <4> QED
        BY <4>1, <4>3
    <3>4. operation.kind = "move" => NamedTwice(operation.inode)
      BY DEF StructureInv, Removing
    <3> QED
      BY <3>1, <3>3, <3>4
  <2>5. ASSUME \/ \E d \in Dir, name \in Name :
                    \/ \E blocks \in BufferBlocks : createFile(d, name, blocks)
                    \/ deleteFile(d, name)
               \/ allocateFreeBlock \/ WriteData \/ WritePointers \/ writeInodeEntry
               \/ PowerLoss
        PROVE  directory' = directory
    BY <2>5 DEF createFile, deleteFile, allocateFreeBlock, WriteData, WritePointers,
         writeInodeEntry, PowerLoss, disk
  <2> HIDE DEF Step
  <2> QED
    BY <2>1, <2>2, <2>3, <2>4, <2>5 DEF Next
<1> QED
  BY StructureHolds, <1>1, PTL DEF Spec, OnlyDeleteUnnames

-----------------------------------------------------------------------------
(* Records cover their block *)

\* f are the offsets of the records, and the last of them is the block's end.
CoveredBy(f, records) ==
  /\ f \in [0 .. Len(records) -> Nat]
  /\ \A j \in 0 .. Len(records) :
       f[j] = IF j = 0 THEN 0 ELSE f[j - 1] + records[j].recLength
  /\ f[Len(records)] = DirectorySize

Covered == \A d \in Dir : \E f : CoveredBy(f, directory[d])

\* Then Offset, which CHOOSEs a solution of the same equation, ends there too.
LEMMA OffsetCovers ==
  ASSUME NEW records, Len(records) \in Nat, NEW f, CoveredBy(f, records)
  PROVE  Offset(records)[Len(records)] = DirectorySize
<1>1. OffsetsOf(f, records)
  BY DEF CoveredBy, OffsetsOf
<1>2. OffsetsOf(Offset(records), records)
  BY <1>1, OffsetExists
<1>3. Offset(records) = f
  BY <1>1, <1>2, OffsetUnique
<1> QED
  BY <1>3 DEF CoveredBy

\* A record split in two covers what it covered.
LEMMA SplitCovers ==
  ASSUME NEW s \in Seq(RecordType), Len(s) >= 2, NEW t, NEW inode, NEW name,
         SplitFor(t, s, inode, name), NEW f, CoveredBy(f, s)
  PROVE  \E g : CoveredBy(g, t)
<1> DEFINE n == Len(s)
           size == RecordSize(s[n].name)
           g == [j \in 0 .. n + 1 |-> IF j < n THEN f[j]
                                     ELSE IF j = n THEN f[n - 1] + size ELSE DirectorySize]
<1>1. n \in Nat /\ n >= 2 /\ size \in Nat /\ s[n].recLength \in Nat
  <2>1. s[n] \in RecordType
    OBVIOUS
  <2> QED
    BY <2>1, RecordSizes DEF RecordType
<1>2. /\ Len(t) = n + 1 /\ \A j \in 1 .. n - 1 : t[j] = s[j]
      /\ t[n].recLength = size
      /\ t[n + 1].recLength = s[n].recLength - size
  BY DEF SplitFor
<1>3. /\ f \in [0 .. n -> Nat] /\ f[n] = DirectorySize
      /\ \A j \in 0 .. n : f[j] = IF j = 0 THEN 0 ELSE f[j - 1] + s[j].recLength
  BY DEF CoveredBy
<1> HIDE DEF n, size
<1>4. f[n - 1] \in Nat /\ DirectorySize = f[n - 1] + s[n].recLength
  BY <1>1, <1>3
<1>5. g \in [0 .. n + 1 -> Nat]
  <2>1. DirectorySize \in Nat
    BY Ext2Assumption
  <2>2. ASSUME NEW j \in 0 .. n + 1
        PROVE  (IF j < n THEN f[j] ELSE IF j = n THEN f[n - 1] + size ELSE DirectorySize) \in Nat
    <3>1. j < n => j \in 0 .. n
      BY <1>1
    <3>2. j < n => f[j] \in Nat
      BY <1>3, <3>1
    <3>3. f[n - 1] + size \in Nat
      BY <1>1, <1>4
    <3> QED
      BY <2>1, <3>2, <3>3
  <2> QED
    BY <2>2
<1>6. /\ \A j \in 0 .. n - 1 : g[j] = f[j]
      /\ g[n] = f[n - 1] + size /\ g[n + 1] = DirectorySize
  BY <1>1
<1> HIDE DEF g
<1>7. ASSUME NEW j \in 0 .. n + 1
      PROVE  g[j] = IF j = 0 THEN 0 ELSE g[j - 1] + t[j].recLength
  <2>1. CASE j \in 0 .. n - 1
    <3>1. j # 0 => j \in 1 .. n - 1 /\ j - 1 \in 0 .. n - 1
      BY <1>1, <2>1
    <3>2. j \in 0 .. n
      BY <1>1, <2>1
    <3> QED
      BY <1>2, <1>3, <1>6, <2>1, <3>1, <3>2
  <2>2. CASE j = n
    <3>1. n - 1 \in 0 .. n - 1 /\ n # 0
      BY <1>1
    <3> QED
      BY <1>2, <1>6, <2>2, <3>1
  <2>3. CASE j = n + 1
    <3>1. n + 1 # 0 /\ (n + 1) - 1 = n
      BY <1>1
    <3>2. g[n + 1] = g[n] + t[n + 1].recLength
      BY <1>1, <1>2, <1>4, <1>6
    <3> QED
      BY <2>3, <3>1, <3>2
  <2> QED
    BY <1>1, <2>1, <2>2, <2>3
<1>8. CoveredBy(g, t)
  BY <1>2, <1>5, <1>6, <1>7 DEF CoveredBy
<1> QED
  BY <1>8

\* And so do two records made one.
LEMMA MergeCovers ==
  ASSUME NEW s \in Seq(RecordType), NEW j \in 3 .. Len(s), NEW t,
         MergedAt(t, s, j), NEW f, CoveredBy(f, s)
  PROVE  \E g : CoveredBy(g, t)
<1> DEFINE n == Len(s)
           g == [k \in 0 .. n - 1 |-> IF k < j - 1 THEN f[k] ELSE f[k + 1]]
<1>1. n \in Nat /\ j \in 3 .. n
  OBVIOUS
<1>2. /\ Len(t) = n - 1
      /\ \A k \in 1 .. j - 2 : t[k] = s[k]
      /\ t[j - 1].recLength = s[j - 1].recLength + s[j].recLength
      /\ \A k \in j .. n - 1 : t[k] = s[k + 1]
  BY DEF MergedAt
<1>3. /\ f \in [0 .. n -> Nat] /\ f[n] = DirectorySize
      /\ \A k \in 0 .. n : f[k] = IF k = 0 THEN 0 ELSE f[k - 1] + s[k].recLength
  BY DEF CoveredBy
<1>4. s[j].recLength \in Nat /\ s[j - 1].recLength \in Nat
  <2>1. s[j] \in RecordType /\ s[j - 1] \in RecordType
    BY <1>1
  <2> QED
    BY <2>1 DEF RecordType
<1> HIDE DEF n
<1>5. g \in [0 .. n - 1 -> Nat]
  <2>1. ASSUME NEW k \in 0 .. n - 1
        PROVE  (IF k < j - 1 THEN f[k] ELSE f[k + 1]) \in Nat
    <3>1. k \in 0 .. n /\ k + 1 \in 0 .. n
      BY <1>1
    <3>2. f[k] \in Nat /\ f[k + 1] \in Nat
      BY <1>3, <3>1
    <3> QED
      BY <3>2
  <2> QED
    BY <2>1
<1>6. /\ \A k \in 0 .. j - 2 : g[k] = f[k]
      /\ \A k \in j - 1 .. n - 1 : g[k] = f[k + 1]
  BY <1>1
<1> HIDE DEF g
<1>7. ASSUME NEW k \in 0 .. n - 1
      PROVE  g[k] = IF k = 0 THEN 0 ELSE g[k - 1] + t[k].recLength
  <2>1. CASE k \in 0 .. j - 2
    <3>1. k # 0 => k \in 1 .. j - 2 /\ k - 1 \in 0 .. j - 2
      BY <1>1, <2>1
    <3>2. k \in 0 .. n
      BY <1>1, <2>1
    <3>3. f[k] = IF k = 0 THEN 0 ELSE f[k - 1] + s[k].recLength
      BY <1>3, <3>2
    <3>4. k # 0 => t[k] = s[k] /\ g[k - 1] = f[k - 1]
      BY <1>2, <1>6, <3>1
    <3>5. g[k] = f[k]
      BY <1>6, <2>1
    <3> QED
      BY <3>3, <3>4, <3>5
  <2>2. CASE k = j - 1
    <3>1. f[j] = f[j - 1] + s[j].recLength /\ f[j - 1] = f[j - 2] + s[j - 1].recLength
      <4>1. j \in 0 .. n /\ j # 0 /\ j - 1 \in 0 .. n /\ j - 1 # 0 /\ (j - 1) - 1 = j - 2
        BY <1>1
      <4>2. f[j - 1] = f[(j - 1) - 1] + s[j - 1].recLength
        BY <1>3, <4>1
      <4> QED
        BY <1>3, <4>1, <4>2
    <3>2. f[j - 2] \in Nat
      BY <1>1, <1>3
    <3>3. g[j - 1] = f[j] /\ g[j - 2] = f[j - 2]
      BY <1>1, <1>6
    <3>4. (j - 1) - 1 = j - 2 /\ j - 1 # 0
      BY <1>1
    <3>5. f[j] = f[j - 2] + (s[j - 1].recLength + s[j].recLength)
      BY <1>4, <3>1, <3>2
    <3> QED
      BY <1>2, <2>2, <3>3, <3>4, <3>5
  <2>3. CASE k \in j .. n - 1
    <3>1. k \in j - 1 .. n - 1 /\ k - 1 \in j - 1 .. n - 1 /\ k # 0 /\ k + 1 # 0
          /\ (k - 1) + 1 = k /\ (k + 1) - 1 = k /\ k + 1 \in 0 .. n
      BY <1>1, <2>3
    <3>2. g[k] = f[k + 1] /\ g[k - 1] = f[k]
      BY <1>6, <3>1
    <3>3. f[k + 1] = f[k] + s[k + 1].recLength
      BY <1>3, <3>1
    <3> QED
      BY <1>2, <2>3, <3>1, <3>2, <3>3
  <2> QED
    BY <1>1, <2>1, <2>2, <2>3
<1>8. g[n - 1] = DirectorySize
  <2>1. n - 1 \in j - 1 .. n - 1 /\ (n - 1) + 1 = n
    BY <1>1
  <2> QED
    BY <1>3, <1>6, <2>1
<1>9. CoveredBy(g, t)
  BY <1>2, <1>5, <1>7, <1>8 DEF CoveredBy
<1> QED
  BY <1>9

\* No step leaves a name where a scan does not come by.
LEMMA NextCovers == StructureInv /\ Covered /\ [Next]_vars => Covered'
<1> SUFFICES ASSUME StructureInv, Covered, [Next]_vars
             PROVE  Covered'
  OBVIOUS
<1>1. ASSUME directory' = directory
      PROVE  Covered'
  BY <1>1 DEF Covered, CoveredBy
<1>2. ASSUME NEW d \in Dir, NEW inode, NEW name, AddsTo(d, inode, name)
      PROVE  Covered'
  <2>1. SplitFor(directory'[d], directory[d], inode, name)
    BY <1>2 DEF AddsTo
  <2>2. directory[d] \in Seq(RecordType) /\ Len(directory[d]) >= 2
    BY DEF StructureInv, Types, Directories
  <2>3. PICK f : CoveredBy(f, directory[d])
    BY DEF Covered
  <2>4. \E g : CoveredBy(g, directory'[d])
    BY <2>1, <2>2, <2>3, SplitCovers
  <2>5. \A e \in Dir : e # d => directory'[e] = directory[e]
    BY <1>2 DEF AddsTo
  <2>6. \A e \in Dir : \E g : CoveredBy(g, directory'[e])
    BY <2>4, <2>5 DEF Covered
  <2> QED
    BY <2>6 DEF Covered, CoveredBy
<1>3. ASSUME NEW d \in Dir, NEW inode, NEW j, TakesFrom(d, inode, j)
      PROVE  Covered'
  <2>1. MergedAt(directory'[d], directory[d], j) /\ j \in 3 .. Len(directory[d])
    BY <1>3 DEF TakesFrom
  <2>2. directory[d] \in Seq(RecordType)
    BY DEF StructureInv, Types
  <2>3. PICK f : CoveredBy(f, directory[d])
    BY DEF Covered
  <2>4. \E g : CoveredBy(g, directory'[d])
    BY <2>1, <2>2, <2>3, MergeCovers
  <2>5. \A e \in Dir : e # d => directory'[e] = directory[e]
    BY <1>3 DEF TakesFrom
  <2>6. \A e \in Dir : \E g : CoveredBy(g, directory'[e])
    BY <2>4, <2>5 DEF Covered
  <2> QED
    BY <2>6 DEF Covered, CoveredBy
<1>4. ASSUME NEW d \in Dir, NEW name \in Name, NEW destination \in Dir,
             moveFile(d, destination, name)
      PROVE  Covered'
  <2>1. PICK inode : inode = returnInodeofFileName(name, d)
    OBVIOUS
  <2> QED
    BY <1>2, <1>4, <2>1, moveAdds
<1>5. ASSUME WriteDirectory
      PROVE  Covered'
  <2>1. operation.dir \in Dir /\ AddsTo(operation.dir, operation.inode, operation.name)
    BY <1>5, WriteDirectoryAdds DEF CreateType
  <2>2. PICK d, inode, name :
          d = operation.dir /\ inode = operation.inode /\ name = operation.name
    OBVIOUS
  <2>3. d \in Dir /\ AddsTo(d, inode, name)
    BY <2>1, <2>2
  <2> QED
    BY <1>2, <2>3
<1>6. ASSUME deleteDirectoryEntry
      PROVE  Covered'
  <2>1. operation.dir \in Dir
    BY <1>6, deleteEntryTakes DEF RemoveType
  <2>2. PICK j : TakesFrom(operation.dir, operation.inode, j)
    BY <1>6, deleteEntryTakes
  <2>3. PICK d, inode : d = operation.dir /\ inode = operation.inode
    OBVIOUS
  <2>4. d \in Dir /\ TakesFrom(d, inode, j)
    BY <2>1, <2>2, <2>3
  <2> QED
    BY <1>3, <2>4
<1>7. ASSUME \/ \E d \in Dir, name \in Name :
                  \/ \E blocks \in BufferBlocks : createFile(d, name, blocks)
                  \/ deleteFile(d, name)
             \/ allocateFreeBlock \/ WriteData \/ WritePointers \/ writeInodeEntry
             \/ PowerLoss \/ UNCHANGED vars
      PROVE  directory' = directory
  BY <1>7 DEF createFile, deleteFile, allocateFreeBlock, WriteData, WritePointers,
       writeInodeEntry, PowerLoss, disk, vars
<1> QED
  BY <1>1, <1>4, <1>5, <1>6, <1>7 DEF Next

\* The records of a directory cover its block exactly and each has room for
\* its name, after any order of creates, deletes, moves and power losses, so the
\* scans of fs.cpp, which step from record to record, see every file.
THEOREM ScansSeeEveryFile == Spec => []DirectoryIsCovered
<1>1. Init => Covered
  <2> SUFFICES ASSUME Init, NEW d \in Dir
               PROVE  \E f : CoveredBy(f, directory[d])
    BY DEF Covered
  <2> DEFINE f == [j \in 0 .. 2 |-> IF j = 0 THEN 0 ELSE IF j = 1 THEN 1 ELSE DirectorySize]
  <2>1. /\ Len(directory[d]) = 2 /\ directory[d][1] = Record(d, ".", 1)
        /\ directory[d][2] = Record(ROOTDIR_INODE, "..", DirectorySize - 1)
    BY DEF Init
  <2>2. \A i, n, l : Record(i, n, l).recLength = l
    BY DEF Record
  <2>3. directory[d][1].recLength = 1 /\ directory[d][2].recLength = DirectorySize - 1
    BY <2>1, <2>2
  <2>4. /\ f \in [0 .. 2 -> Nat] /\ f[0] = 0 /\ f[1] = 1 /\ f[2] = DirectorySize
    BY Ext2Assumption
  <2> HIDE DEF f
  <2>5. \A j \in 0 .. 2 : f[j] = IF j = 0 THEN 0 ELSE f[j - 1] + directory[d][j].recLength
    BY <2>3, <2>4, Ext2Assumption
  <2>6. CoveredBy(f, directory[d])
    BY <2>1, <2>4, <2>5 DEF CoveredBy
  <2> QED
    BY <2>6
<1>2. StructureInv /\ Covered /\ [Next]_vars => Covered'
  BY NextCovers
<1>3. ASSUME StructureInv, Covered
      PROVE  DirectoryIsCovered
  <2> SUFFICES ASSUME NEW d \in Dir
               PROVE  /\ Offset(directory[d])[Len(directory[d])] = DirectorySize
                      /\ \A j \in DOMAIN directory[d] :
                           directory[d][j].recLength >= RecordSize(directory[d][j].name)
    BY DEF DirectoryIsCovered
  <2>1. /\ directory[d] \in Seq(RecordType)
        /\ \A j \in 1 .. Len(directory[d]) :
             directory[d][j].recLength >= RecordSize(directory[d][j].name)
    BY <1>3 DEF StructureInv, Types, Directories
  <2>2. PICK f : CoveredBy(f, directory[d])
    BY <1>3 DEF Covered
  <2>3. Len(directory[d]) \in Nat
    BY <2>1
  <2>4. Offset(directory[d])[Len(directory[d])] = DirectorySize
    BY <2>2, <2>3, OffsetCovers
  <2> QED
    BY <2>1, <2>4
<1> QED
  BY StructureHolds, <1>1, <1>2, <1>3, PTL DEF Spec

-----------------------------------------------------------------------------
(* Who a block belongs to *)

\* A write of a block no inode refers to, or of block 0, changes no reference:
\* the block of an inode's pointers is one it refers to.
LEMMA RefersKept ==
  ASSUME Types, NEW x, NEW data, inodeTable' = inodeTable,
         content' = [content EXCEPT ![x] = data],
         x # 0 => \A i \in Inode, k \in Nat : ~Refers(i, k, x)
  PROVE  \A i \in Inode, k \in Nat, b \in Block : Refers(i, k, b)' <=> Refers(i, k, b)
<1> TAKE i \in Inode, k \in Nat, b \in Block
<1>1. inodeTable[i].indirect \in Block
  BY DEF Types, InodeValue
<1>2. inodeTable[i].indirect # 0 => inodeTable[i].indirect # x
  <2> SUFFICES ASSUME inodeTable[i].indirect = x, x # 0
               PROVE  FALSE
    OBVIOUS
  <2>1. Refers(i, Direct, x)
    BY DEF Refers
  <2> QED
    BY <2>1, Ext2Assumption
<1>3. inodeTable[i].indirect # 0 =>
        content'[inodeTable[i].indirect] = content[inodeTable[i].indirect]
  BY <1>1, <1>2 DEF Types
<1> QED
  BY <1>3 DEF Refers

\* A zeroed inode refers to nothing, and the others to what they did.
LEMMA RefersLost ==
  ASSUME Types, NEW inode \in Inode, content' = content,
         inodeTable' = [inodeTable EXCEPT ![inode] = ZeroInode]
  PROVE  \A i \in Inode, k \in Nat, b \in Block : Refers(i, k, b)' => Refers(i, k, b)
<1> TAKE i \in Inode, k \in Nat, b \in Block
<1>1. CASE i = inode
  <2>1. inodeTable'[i].direct = <<>> /\ inodeTable'[i].indirect = 0
    BY <1>1 DEF Types, ZeroInode
  <2> QED
    BY <2>1 DEF Refers
<1>2. CASE i # inode
  <2>1. inodeTable'[i] = inodeTable[i]
    BY <1>2 DEF Types
  <2> QED
    BY <2>1 DEF Refers
<1> QED
  BY <1>1, <1>2

\* What is kept when no reference is new and no mark goes.
LEMMA OwnedKept ==
  ASSUME Owned, blockUsage \subseteq blockUsage',
         \A i \in Inode, k \in Nat, b \in Block : Refers(i, k, b)' => Refers(i, k, b)
  PROVE  Owned'
BY DEF Owned

\* The invariant behind a step that leaves the blocks and the table alone and
\* in which no create is under way.
LEMMA BlocksLeftAlone ==
  ASSUME Types, BlocksInv, UNCHANGED <<blockUsage, inodeTable, content>>,
         operation'.kind # "create"
  PROVE  BlocksInv'
<1>1. \A i \in Inode, k \in Nat, b \in Block : Refers(i, k, b)' => Refers(i, k, b)
  BY DEF Refers
<1>2. Owned'
  BY <1>1, OwnedKept DEF BlocksInv
<1>3. DirectFits' /\ DirectWritten'
  BY DEF BlocksInv, DirectFits, DirectWritten
<1>4. ~Collecting'
  BY DEF Collecting
<1> QED
  BY <1>2, <1>3, <1>4 DEF BlocksInv, GotOwned, GotWritten

\* No blocks are used and none are got.
LEMMA BlocksInitially == Init => BlocksInv
<1> SUFFICES ASSUME Init
             PROVE  BlocksInv
  OBVIOUS
<1>1. \A i \in Inode : inodeTable[i].direct = <<>> /\ inodeTable[i].indirect = 0
  BY DEF Init, ZeroInode
<1>2. \A i \in Inode, k \in Nat, b \in Block : ~Refers(i, k, b)
  BY <1>1 DEF Refers
<1>3. ~Collecting
  BY DEF Init, Idle, Collecting
<1>4. DirectFits /\ DirectWritten
  BY <1>1, Ext2Assumption DEF DirectFits, DirectWritten
<1> QED
  BY <1>2, <1>3, <1>4 DEF BlocksInv, Owned, GotOwned, GotWritten

\* A creation has got no block when it begins.
LEMMA createKeepsBlocks ==
  ASSUME StructureInv, BlocksInv, NEW d \in Dir, NEW name \in Name,
         NEW blocks \in BufferBlocks, createFile(d, name, blocks)
  PROVE  BlocksInv'
<1>1. /\ UNCHANGED <<blockUsage, inodeTable, content>>
      /\ operation'.got = <<>> /\ operation'.phase = "allocate"
  BY DEF createFile
<1>2. \A i \in Inode, k \in Nat, b \in Block : Refers(i, k, b)' => Refers(i, k, b)
  BY <1>1 DEF Refers
<1>3. Owned'
  BY <1>1, <1>2, OwnedKept DEF BlocksInv
<1>4. DirectFits' /\ DirectWritten'
  BY <1>1 DEF BlocksInv, DirectFits, DirectWritten
<1>5. GotOwned' /\ GotWritten'
  BY <1>1 DEF GotOwned, GotWritten
<1> QED
  BY <1>3, <1>4, <1>5 DEF BlocksInv

\* The block that is got was free, so no file owns it.
LEMMA allocateKeepsBlocks ==
  ASSUME StructureInv, BlocksInv, allocateFreeBlock
  PROVE  BlocksInv'
<1> DEFINE block == IF FreeBlocks = {} THEN 0 ELSE FirstOf(FreeBlocks)
           old == operation.got
           got == Append(old, block)
           phase == IF Len(got) = Direct + 1 THEN PhaseAfter(got) ELSE "data"
<1>1. operation.kind = "create" /\ operation.phase = "allocate"
  BY DEF allocateFreeBlock, Creates
<1>2. operation \in CreateType
  BY <1>1, Kinds DEF StructureInv
<1>3. /\ operation' = [operation EXCEPT !.got = got, !.phase = phase]
      /\ blockUsage' = blockUsage \cup ({block} \ {0})
      /\ UNCHANGED <<inodeTable, content>>
  BY DEF allocateFreeBlock
<1>4. block \in Block /\ (block # 0 => block \notin blockUsage)
  <2>1. FreeBlocks \in SUBSET Nat
    BY Ext2Assumption DEF FreeBlocks, Block
  <2>2. FreeBlocks # {} => FirstOf(FreeBlocks) \in FreeBlocks
    BY <2>1, FirstOfIsFirst
  <2> QED
    BY <2>2, Ext2Assumption DEF FreeBlocks, Block
<1>5. old \in Seq(Block) /\ operation.total \in Nat /\ Len(old) < operation.total
  BY <1>1, <1>2 DEF StructureInv, Creating, CreateType
<1>6. Collecting
  BY <1>1 DEF Collecting
<1>7. operation'.got = got /\ operation'.phase = phase /\ operation'.inode = operation.inode
      /\ operation'.total = operation.total
  BY <1>2, <1>3 DEF CreateType
<1>8. phase = "table" => Len(got) = Direct + 1 /\ ~(operation.total > Direct)
  BY DEF PhaseAfter
<1>9. phase # "data" => Len(got) = Direct + 1
  OBVIOUS
<1> HIDE DEF block, phase
<1>10. /\ got \in Seq(Block) /\ Len(got) = Len(old) + 1 /\ Len(old) \in Nat
       /\ \A k \in 1 .. Len(old) : got[k] = old[k]
       /\ got[Len(old) + 1] = block
  BY <1>4, <1>5
<1> HIDE DEF got, old
<1>11. \A k \in 1 .. Len(old) : old[k] \in Block
  BY <1>5
<1>12. /\ \A k \in 1 .. Len(old) : old[k] # 0 =>
            /\ old[k] \in blockUsage \ (1 .. UsedBlocks)
            /\ \A m \in 1 .. Len(old) : old[m] = old[k] => m = k
            /\ \A i \in Inode, m \in Nat : ~Refers(i, m, old[k])
       /\ \A k \in 1 .. Len(old) : old[k] # 0 /\ k <= Direct =>
            content[old[k]] = DataBlock(operation.inode, k - 1)
  BY <1>1, <1>6, <1>11 DEF BlocksInv, GotOwned, GotWritten, old
<1>13. \A i \in Inode, k \in Nat, b \in Block : Refers(i, k, b)' <=> Refers(i, k, b)
  BY <1>3 DEF Refers
<1>14. Owned'
  BY <1>3, <1>13, OwnedKept DEF BlocksInv
<1>15. DirectFits' /\ DirectWritten'
  BY <1>3 DEF BlocksInv, DirectFits, DirectWritten
<1>16. ASSUME NEW k \in 1 .. Len(got), got[k] # 0
       PROVE  /\ got[k] \in blockUsage' \ (1 .. UsedBlocks)
              /\ \A m \in 1 .. Len(got) : got[m] = got[k] => m = k
              /\ \A i \in Inode, m \in Nat : ~Refers(i, m, got[k])
  <2>1. \A m \in 1 .. Len(old) : got[m] # 0 => got[m] \in blockUsage
    BY <1>10, <1>12
  <2>2. CASE k \in 1 .. Len(old)
    <3>1. got[k] = old[k] /\ got[k] \in blockUsage
      BY <1>10, <1>16, <2>1, <2>2
    <3>2. got[Len(old) + 1] # got[k]
      BY <1>4, <1>10, <1>16, <3>1
    <3>3. \A m \in 1 .. Len(got) : got[m] = got[k] => m = k
      BY <1>10, <1>12, <1>16, <2>2, <3>1, <3>2
    <3> QED
      BY <1>3, <1>12, <1>16, <2>2, <3>1, <3>3
  <2>3. CASE k = Len(old) + 1
    <3>1. got[k] = block /\ block # 0 /\ block \notin blockUsage /\ block \in blockUsage'
      BY <1>3, <1>4, <1>10, <1>16, <2>3
    <3>2. \A m \in 1 .. Len(got) : got[m] = got[k] => m = k
      BY <1>10, <2>1, <2>3, <3>1
    <3>3. \A i \in Inode, m \in Nat : ~Refers(i, m, block)
      BY <1>4, <3>1 DEF BlocksInv, Owned
    <3>4. block \notin 1 .. UsedBlocks
      BY <3>1 DEF StructureInv, Types
    <3> QED
      BY <3>1, <3>2, <3>3, <3>4
  <2> QED
    BY <1>10, <2>2, <2>3
<1>17. GotOwned'
  <2>1. ASSUME NEW k \in 1 .. Len(got), NEW b \in Block, b # 0, got[k] = b
        PROVE  /\ b \in blockUsage' \ (1 .. UsedBlocks)
               /\ \A m \in 1 .. Len(got) : got[m] = b => m = k
               /\ \A i \in Inode, m \in Nat : ~Refers(i, m, b)'
    BY <1>13, <1>16, <2>1
  <2> QED
    BY <1>7, <2>1 DEF GotOwned
<1>18. GotWritten'
  <2>1. ASSUME NEW k \in 1 .. Len(got), got[k] # 0, k <= Direct,
               phase = "data" => k < Len(got)
        PROVE  content'[got[k]] = DataBlock(operation.inode, k - 1)
    <3>1. k \in 1 .. Len(old)
      BY <1>10, <1>9, <2>1, Ext2Assumption
    <3> QED
      BY <1>3, <1>10, <1>12, <2>1, <3>1
  <2> QED
    BY <1>7, <1>8, <2>1 DEF GotWritten
<1> QED
  BY <1>14, <1>15, <1>17, <1>18 DEF BlocksInv

\* A create that has written a block it got goes on: what such a write keeps.
LEMMA WriteKeepsOwners ==
  ASSUME StructureInv, BlocksInv, operation.kind = "create", operation.phase # "directory",
         NEW n \in 1 .. Len(operation.got), NEW data,
         operation.got \in Seq(Block),
         content' = [content EXCEPT ![operation.got[n]] = data],
         operation'.got = operation.got, UNCHANGED <<blockUsage, inodeTable>>
  PROVE  /\ DirectFits' /\ Owned' /\ GotOwned' /\ DirectWritten'
         /\ content'[operation.got[n]] = data
         /\ \A k \in 1 .. Len(operation.got) : operation.got[k] # 0 /\ k # n =>
              content'[operation.got[k]] = content[operation.got[k]]
<1>1. PICK x \in Block : x = operation.got[n]
  OBVIOUS
<1>2. content \in [Block -> BlockType]
  BY DEF StructureInv, Types
<1>3. content' = [content EXCEPT ![x] = data]
  BY <1>1
<1>4. /\ content'[x] = data
      /\ \A b \in Block : b # x => content'[b] = content[b]
  BY <1>2, <1>3
<1>5. Collecting
  BY DEF Collecting
<1>6. x # 0 => /\ \A i \in Inode, k \in Nat : ~Refers(i, k, x)
               /\ \A m \in 1 .. Len(operation.got) : operation.got[m] = x => m = n
  BY <1>1, <1>5 DEF BlocksInv, GotOwned
<1>7. \A i \in Inode, k \in Nat, b \in Block : Refers(i, k, b)' <=> Refers(i, k, b)
  BY <1>3, <1>6, RefersKept DEF StructureInv
<1>8. Owned'
  BY <1>7, OwnedKept DEF BlocksInv
<1>9. GotOwned'
  BY <1>5, <1>7 DEF BlocksInv, GotOwned
<1>10. DirectFits'
  BY DEF BlocksInv, DirectFits
<1>11. DirectWritten'
  <2> SUFFICES ASSUME NEW i \in Inode, NEW k \in 1 .. Len(inodeTable[i].direct),
                      inodeTable[i].direct[k] # 0
               PROVE  content'[inodeTable[i].direct[k]] = DataBlock(i, k - 1)
    BY DEF DirectWritten, DataBlock
  <2> DEFINE b == inodeTable[i].direct[k]
  <2>1. inodeTable[i].direct \in Seq(Block)
    BY DEF StructureInv, Types, InodeValue
  <2>2. b \in Block /\ k - 1 \in Nat /\ k - 1 \in 0 .. Len(inodeTable[i].direct) - 1
        /\ (k - 1) + 1 = k
    BY <2>1
  <2>3. Refers(i, k - 1, b)
    BY <2>2 DEF Refers
  <2>4. b # x
    BY <1>6, <2>2, <2>3
  <2>5. content[b] = DataBlock(i, k - 1)
    BY DEF BlocksInv, DirectWritten
  <2> QED
    BY <1>4, <2>2, <2>4, <2>5
<1>12. \A k \in 1 .. Len(operation.got) : operation.got[k] # 0 /\ k # n =>
         content'[operation.got[k]] = content[operation.got[k]]
  <2> TAKE k \in 1 .. Len(operation.got)
  <2>1. operation.got[k] \in Block
    OBVIOUS
  <2> QED
    BY <1>4, <1>6, <2>1
<1> QED
  BY <1>1, <1>4, <1>8, <1>9, <1>10, <1>11, <1>12

\* The data reach only blocks that the creation got.
LEMMA WriteDataKeepsBlocks ==
  ASSUME StructureInv, BlocksInv, WriteData
  PROVE  BlocksInv'
<1> DEFINE got == operation.got
           n == Len(operation.got)
           data == DataBlock(operation.inode, n - 1)
           phase == PhaseAfter(operation.got)
<1>1. operation.kind = "create" /\ operation.phase = "data"
  BY DEF WriteData, Creates
<1>2. operation \in CreateType
  BY <1>1, Kinds DEF StructureInv
<1>3. /\ operation' = [operation EXCEPT !.phase = phase]
      /\ content' = [content EXCEPT ![got[n]] = data]
      /\ UNCHANGED <<blockUsage, inodeTable>>
  BY DEF WriteData, Last
<1>4. got \in Seq(Block) /\ n \in Nat /\ n \in (1 .. operation.total) \ {Direct + 1}
  BY <1>1, <1>2 DEF StructureInv, Creating, CreateType
<1>5. phase = "table" => ~(operation.total > Direct)
  BY DEF PhaseAfter
<1>6. phase # "data"
  BY DEF PhaseAfter
<1> HIDE DEF phase
<1>7. /\ operation'.phase = phase /\ operation'.got = got
      /\ operation'.inode = operation.inode /\ operation'.total = operation.total
  BY <1>2, <1>3 DEF CreateType
<1>8. n \in 1 .. Len(got)
  BY <1>4
<1> HIDE DEF data
<1>9. /\ DirectFits' /\ Owned' /\ GotOwned' /\ DirectWritten'
      /\ content'[got[n]] = data
      /\ \A k \in 1 .. Len(got) : got[k] # 0 /\ k # n => content'[got[k]] = content[got[k]]
  BY <1>1, <1>3, <1>4, <1>7, <1>8, WriteKeepsOwners
<1>10. \A k \in 1 .. Len(got) : got[k] # 0 /\ k <= Direct /\ k < n =>
         content[got[k]] = DataBlock(operation.inode, k - 1)
  BY <1>1 DEF BlocksInv, GotWritten, Collecting
<1>11. ASSUME NEW k \in 1 .. Len(got), got[k] # 0, k <= Direct
       PROVE  content'[got[k]] = DataBlock(operation.inode, k - 1)
  <2>1. CASE k = n
    BY <1>9, <2>1 DEF data
  <2>2. CASE k # n
    <3>1. k < n
      BY <1>4, <2>2
    <3> QED
      BY <1>9, <1>10, <1>11, <2>2, <3>1
  <2> QED
    BY <2>1, <2>2
<1>12. GotWritten'
  BY <1>5, <1>7, <1>11 DEF GotWritten
<1> QED
  BY <1>9, <1>12 DEF BlocksInv

\* The pointers reach only the indirect block.
LEMMA WritePointersKeepsBlocks ==
  ASSUME StructureInv, BlocksInv, WritePointers
  PROVE  BlocksInv'
<1> DEFINE got == operation.got
           n == Direct + 1
           blocks == SubSeq(got, Direct + 2, operation.total)
           data == PointerBlock(blocks)
<1>1. operation.kind = "create" /\ operation.phase = "pointers"
  BY DEF WritePointers, Creates
<1>2. operation \in CreateType
  BY <1>1, Kinds DEF StructureInv
<1>3. /\ operation' = [operation EXCEPT !.phase = "table"]
      /\ content' = [content EXCEPT ![got[n]] = data]
      /\ UNCHANGED <<blockUsage, inodeTable>>
  BY DEF WritePointers
<1>4. got \in Seq(Block) /\ Len(got) = operation.total /\ operation.total > Direct
      /\ operation.total \in Nat
  BY <1>1, <1>2 DEF StructureInv, Creating, CreateType
<1>5. /\ operation'.phase = "table" /\ operation'.got = got
      /\ operation'.inode = operation.inode /\ operation'.total = operation.total
  BY <1>2, <1>3 DEF CreateType
<1>6. n \in 1 .. Len(got)
  BY <1>4, Ext2Assumption
<1>7. data.pointers = blocks
  BY DEF PointerBlock
<1> HIDE DEF data
<1>8. /\ DirectFits' /\ Owned' /\ GotOwned' /\ DirectWritten'
      /\ content'[got[n]] = data
      /\ \A k \in 1 .. Len(got) : got[k] # 0 /\ k # n => content'[got[k]] = content[got[k]]
  BY <1>1, <1>3, <1>4, <1>5, <1>6, WriteKeepsOwners
<1>9. \A k \in 1 .. Len(got) : got[k] # 0 /\ k <= Direct =>
        content[got[k]] = DataBlock(operation.inode, k - 1)
  BY <1>1 DEF BlocksInv, GotWritten, Collecting
<1>10. ASSUME NEW k \in 1 .. Len(got), got[k] # 0, k <= Direct
       PROVE  content'[got[k]] = DataBlock(operation.inode, k - 1)
  <2>1. k # n
    BY <1>10, Ext2Assumption
  <2> QED
    BY <1>8, <1>9, <1>10, <2>1
<1>11. GotWritten'
  BY <1>7, <1>5, <1>8, <1>10 DEF GotWritten
<1> QED
  BY <1>8, <1>11 DEF BlocksInv

\* The inode that is written refers to the blocks the create got and no other:
\* place k of the file is the block got as the one with number k + 1.
LEMMA NewRefers ==
  ASSUME StructureInv, BlocksInv, operation.kind = "create", operation.phase = "table",
         NEW inode \in Inode, inode = operation.inode,
         content' = content, inodeTable' = [inodeTable EXCEPT ![inode] = Stored]
  PROVE  /\ \A k \in Nat, b \in Block : Refers(inode, k, b)' =>
              k + 1 \in 1 .. Len(operation.got) /\ b = operation.got[k + 1] /\ b # 0
         /\ \A i \in Inode, k \in Nat, b \in Block :
              i # inode => (Refers(i, k, b)' <=> Refers(i, k, b))
<1> DEFINE got == operation.got
           n == operation.total
<1>1. operation \in CreateType
  BY Kinds DEF StructureInv
<1>2. got \in Seq(Block) /\ n \in Nat \ {0} /\ Len(got) = n
  BY <1>1 DEF StructureInv, Creating, CreateType
<1>3. /\ Len(Stored.direct) = IF n > Direct THEN Direct ELSE n
      /\ \A k \in 1 .. Len(Stored.direct) : Stored.direct[k] = got[k]
      /\ Stored.indirect = IF n > Direct THEN got[Direct + 1] ELSE 0
  BY StoredIs
<1>4. n > Direct /\ got[Direct + 1] # 0 =>
       content[got[Direct + 1]].pointers = SubSeq(got, Direct + 2, n)
  BY DEF BlocksInv, GotWritten, Collecting
<1>5. inodeTable'[inode] = Stored
  BY <1>2 DEF StructureInv, Types
<1>6. \A i \in Inode : i # inode => inodeTable'[i] = inodeTable[i]
  BY <1>2 DEF StructureInv, Types
<1> HIDE DEF got, n
<1>7. ASSUME n > Direct
      PROVE  /\ Len(SubSeq(got, Direct + 2, n)) = n - Direct - 1
             /\ \A m \in 1 .. n - Direct - 1 :
                  SubSeq(got, Direct + 2, n)[m] = got[m + Direct + 1]
  <2> DEFINE h == Direct + 2
  <2>1. h \in Nat /\ h = Direct + 2 /\ Direct \in Nat /\ h <= n + 1
    BY <1>2, <1>7, Ext2Assumption
  <2>2. \A k \in h .. n : got[k] \in Block
    BY <1>2, <2>1
  <2> HIDE DEF h
  <2>3. /\ Len(SubSeq(got, h, n)) = n - h + 1
        /\ \A m \in 1 .. n - h + 1 : SubSeq(got, h, n)[m] = got[h + m - 1]
    BY <1>2, <2>1, <2>2
  <2>4. n - h + 1 = n - Direct - 1 /\ \A m \in Nat : h + m - 1 = m + Direct + 1
    BY <1>2, <2>1
  <2> QED
    BY <1>2, <2>1, <2>3, <2>4
<1>8. ASSUME NEW k \in Nat, NEW b \in Block, b # 0,
             \/ k \in 0 .. Len(Stored.direct) - 1 /\ b = Stored.direct[k + 1]
             \/ Stored.indirect # 0 /\ k = Direct /\ b = Stored.indirect
             \/ /\ Stored.indirect # 0
                /\ k \in Direct + 1 .. Direct + Len(content[Stored.indirect].pointers)
                /\ b = content[Stored.indirect].pointers[k - Direct]
      PROVE  k + 1 \in 1 .. Len(got) /\ b = got[k + 1] /\ b # 0
  <2>1. CASE k \in 0 .. Len(Stored.direct) - 1 /\ b = Stored.direct[k + 1]
    <3>1. k + 1 \in 1 .. Len(Stored.direct) /\ k + 1 \in 1 .. n
      BY <1>2, <1>3, <2>1, Ext2Assumption
    <3> QED
      BY <1>2, <1>8, <1>3, <2>1, <3>1
  <2>2. CASE Stored.indirect # 0 /\ k = Direct /\ b = Stored.indirect
    <3>1. n > Direct /\ b = got[Direct + 1]
      BY <1>3, <2>2
    <3> QED
      BY <1>2, <1>8, <2>2, <3>1, Ext2Assumption
  <2>3. CASE /\ Stored.indirect # 0
             /\ k \in Direct + 1 .. Direct + Len(content[Stored.indirect].pointers)
             /\ b = content[Stored.indirect].pointers[k - Direct]
    <3>1. n > Direct /\ Stored.indirect = got[Direct + 1] /\ got[Direct + 1] # 0
      BY <1>3, <2>3
    <3>2. content[Stored.indirect].pointers = SubSeq(got, Direct + 2, n)
      BY <1>4, <3>1
    <3>3. /\ Len(content[Stored.indirect].pointers) = n - Direct - 1
          /\ \A m \in 1 .. n - Direct - 1 :
               content[Stored.indirect].pointers[m] = got[m + Direct + 1]
      BY <1>7, <3>1, <3>2
    <3>4. /\ k - Direct \in 1 .. n - Direct - 1 /\ (k - Direct) + Direct + 1 = k + 1
          /\ k + 1 \in 1 .. n
      BY <1>2, <2>3, <3>1, <3>3, Ext2Assumption
    <3> QED
      BY <1>2, <1>8, <2>3, <3>3, <3>4
  <2> QED
    BY <1>8, <2>1, <2>2, <2>3
<1>9. ASSUME NEW k \in Nat, NEW b \in Block, Refers(inode, k, b)'
      PROVE  k + 1 \in 1 .. Len(got) /\ b = got[k + 1] /\ b # 0
  BY <1>5, <1>8, <1>9 DEF Refers
<1>10. ASSUME NEW i \in Inode, NEW k \in Nat, NEW b \in Block, i # inode
       PROVE  Refers(i, k, b)' <=> Refers(i, k, b)
  BY <1>6, <1>10 DEF Refers
<1> QED
  BY <1>9, <1>10 DEF got

\* The blocks that were got become those of the new file.
LEMMA writeInodeKeepsBlocks ==
  ASSUME StructureInv, BlocksInv, writeInodeEntry
  PROVE  BlocksInv'
<1> DEFINE got == operation.got
<1>1. operation.kind = "create" /\ operation.phase = "table"
  BY DEF writeInodeEntry, Creates
<1>2. operation \in CreateType
  BY <1>1, Kinds DEF StructureInv
<1>3. PICK inode \in Inode : inode = operation.inode
  BY <1>2 DEF CreateType
<1>4. /\ operation' = [operation EXCEPT !.phase = "directory"]
      /\ StoreInode(inode, Stored)
      /\ UNCHANGED <<blockUsage, content>>
  BY <1>3 DEF writeInodeEntry, Stored
<1>5. operation'.phase = "directory"
  BY <1>2, <1>4 DEF CreateType
<1>6. GotOwned' /\ GotWritten'
  BY <1>5 DEF GotOwned, GotWritten, Collecting
<1>7. ASSUME inodeTable' = inodeTable
      PROVE  Owned' /\ DirectFits' /\ DirectWritten'
  <2>1. \A i \in Inode, k \in Nat, b \in Block : Refers(i, k, b)' => Refers(i, k, b)
    BY <1>4, <1>7 DEF Refers
  <2>2. Owned'
    BY <1>4, <2>1, OwnedKept DEF BlocksInv
  <2> QED
    BY <1>4, <1>7, <2>2 DEF BlocksInv, DirectFits, DirectWritten
<1>8. ASSUME inodeTable' = [inodeTable EXCEPT ![inode] = Stored]
      PROVE  Owned' /\ DirectFits' /\ DirectWritten'
  <2>1. /\ \A k \in Nat, b \in Block : Refers(inode, k, b)' =>
             k + 1 \in 1 .. Len(got) /\ b = got[k + 1] /\ b # 0
        /\ \A i \in Inode, k \in Nat, b \in Block :
             i # inode => (Refers(i, k, b)' <=> Refers(i, k, b))
    BY <1>1, <1>3, <1>4, <1>8, NewRefers
  <2>2. \A k \in 1 .. Len(got), b \in Block : b # 0 /\ got[k] = b =>
          /\ b \in blockUsage \ (1 .. UsedBlocks)
          /\ \A m \in 1 .. Len(got) : got[m] = b => m = k
          /\ \A i \in Inode, m \in Nat : ~Refers(i, m, b)
    BY <1>1 DEF BlocksInv, GotOwned, Collecting
  <2> HIDE DEF got
  <2>3. ASSUME NEW i \in Inode, NEW k \in Nat, NEW b \in Block, Refers(i, k, b)'
        PROVE  /\ b \in blockUsage \ (1 .. UsedBlocks)
               /\ \A j \in Inode, m \in Nat : Refers(j, m, b)' => i = j /\ k = m
    <3>1. CASE i = inode
      <4>1. k + 1 \in 1 .. Len(got) /\ b = got[k + 1] /\ b # 0
        BY <2>1, <2>3, <3>1
      <4>2. /\ b \in blockUsage \ (1 .. UsedBlocks)
            /\ \A m \in 1 .. Len(got) : got[m] = b => m = k + 1
            /\ \A j \in Inode, m \in Nat : ~Refers(j, m, b)
        BY <2>2, <4>1
      <4>3. ASSUME NEW j \in Inode, NEW m \in Nat, Refers(j, m, b)'
            PROVE  i = j /\ k = m
        <5>1. j = inode
          BY <2>1, <4>2, <4>3
        <5>2. m + 1 \in 1 .. Len(got) /\ b = got[m + 1]
          BY <2>1, <4>3, <5>1
        <5>3. m + 1 = k + 1
          BY <4>2, <5>2
        <5> QED
          BY <3>1, <5>1, <5>3
      <4> QED
        BY <4>2, <4>3
    <3>2. CASE i # inode
      <4>1. Refers(i, k, b)
        BY <2>1, <2>3, <3>2
      <4>2. /\ b \in blockUsage \ (1 .. UsedBlocks)
            /\ \A j \in Inode, m \in Nat : Refers(j, m, b) => i = j /\ k = m
        BY <4>1 DEF BlocksInv, Owned
      <4>3. ASSUME NEW j \in Inode, NEW m \in Nat, Refers(j, m, b)'
            PROVE  i = j /\ k = m
        <5>1. CASE j = inode
          <6>1. m + 1 \in 1 .. Len(got) /\ b = got[m + 1] /\ b # 0
            BY <2>1, <4>3, <5>1
          <6> QED
            BY <2>2, <4>1, <6>1
        <5>2. CASE j # inode
          BY <2>1, <4>2, <4>3, <5>2
        <5> QED
          BY <5>1, <5>2
      <4> QED
        BY <4>2, <4>3
    <3> QED
      BY <3>1, <3>2
  <2>4. Owned'
    BY <1>4, <2>3 DEF Owned
  <2>5. inodeTable'[inode] = Stored /\ \A i \in Inode : i # inode => inodeTable'[i] = inodeTable[i]
    BY <1>8 DEF StructureInv, Types
  <2>6. /\ Len(Stored.direct) = IF operation.total > Direct THEN Direct ELSE operation.total
        /\ \A k \in 1 .. Len(Stored.direct) : Stored.direct[k] = got[k]
    BY <1>1, StoredIs DEF got
  <2>7. Len(got) = operation.total /\ operation.total \in Nat
    BY <1>1, <1>2 DEF StructureInv, Creating, CreateType, got
  <2>8. DirectFits'
    BY <2>5, <2>6, <2>7, Ext2Assumption DEF BlocksInv, DirectFits
  <2>9. \A k \in 1 .. Len(got) : got[k] # 0 /\ k <= Direct =>
          content[got[k]] = DataBlock(inode, k - 1)
    BY <1>1, <1>3 DEF BlocksInv, GotWritten, Collecting, got
  <2>10. \A k \in 1 .. Len(Stored.direct) : k \in 1 .. Len(got) /\ k <= Direct
    BY <2>6, <2>7, Ext2Assumption
  <2>11. \A k \in 1 .. Len(Stored.direct) : Stored.direct[k] # 0 =>
           content[Stored.direct[k]] = DataBlock(inode, k - 1)
    BY <2>6, <2>9, <2>10
  <2>12. DirectWritten'
    <3> SUFFICES ASSUME NEW i \in Inode, NEW k \in 1 .. Len(inodeTable'[i].direct),
                        inodeTable'[i].direct[k] # 0
                 PROVE  content[inodeTable'[i].direct[k]] = DataBlock(i, k - 1)
      BY <1>4 DEF DirectWritten, DataBlock
    <3>1. CASE i = inode
      BY <2>5, <2>11, <3>1
    <3>2. CASE i # inode
      BY <2>5, <3>2 DEF BlocksInv, DirectWritten
    <3> QED
      BY <3>1, <3>2
  <2> QED
    BY <2>4, <2>8, <2>12
<1>9. inodeTable' = inodeTable \/ inodeTable' = [inodeTable EXCEPT ![inode] = Stored]
  BY <1>4 DEF StoreInode
<1> QED
  BY <1>6, <1>7, <1>8, <1>9 DEF BlocksInv

\* A deletion clears an inode and keeps every block marked as used.
LEMMA deleteKeepsBlocks ==
  ASSUME StructureInv, BlocksInv, NEW d \in Dir, NEW name \in Name, deleteFile(d, name)
  PROVE  BlocksInv'
<1>1. PICK inode \in Inode : inode = returnInodeofFileName(name, d)
  <2>1. Matches(d, name) # {}
    BY DEF deleteFile
  <2>2. returnInodeofFileName(name, d) \in inodeUsage
    BY <2>1, MatchIsFile DEF StructureInv
  <2> QED
    BY <2>2 DEF StructureInv, Types
<1>2. /\ StoreInode(inode, ZeroInode) /\ UNCHANGED <<blockUsage, content>>
      /\ operation'.kind = "delete"
  BY <1>1 DEF deleteFile
<1>3. CASE inodeTable' = inodeTable
  BY <1>2, <1>3, BlocksLeftAlone DEF StructureInv
<1>4. CASE inodeTable' = [inodeTable EXCEPT ![inode] = ZeroInode]
  <2>1. \A i \in Inode, k \in Nat, b \in Block : Refers(i, k, b)' => Refers(i, k, b)
    BY <1>2, <1>4, RefersLost DEF StructureInv
  <2>2. Owned'
    BY <1>2, <2>1, OwnedKept DEF BlocksInv
  <2>3. \A i \in Inode : inodeTable'[i] = inodeTable[i] \/ inodeTable'[i].direct = <<>>
    BY <1>4 DEF StructureInv, Types, ZeroInode
  <2>4. DirectFits' /\ DirectWritten'
    <3>1. Len(<<>>) = 0 /\ Direct \in Nat
      BY Ext2Assumption
    <3>2. DirectFits'
      BY <2>3, <3>1 DEF BlocksInv, DirectFits
    <3>3. DirectWritten'
      <4> SUFFICES ASSUME NEW i \in Inode, NEW k \in 1 .. Len(inodeTable'[i].direct),
                          inodeTable'[i].direct[k] # 0
                   PROVE  content[inodeTable'[i].direct[k]] = DataBlock(i, k - 1)
        BY <1>2 DEF DirectWritten, DataBlock
      <4>1. inodeTable'[i] = inodeTable[i]
        BY <2>3, <3>1
      <4> QED
        BY <4>1 DEF BlocksInv, DirectWritten
    <3> QED
      BY <3>2, <3>3
  <2>5. GotOwned' /\ GotWritten'
    BY <1>2 DEF GotOwned, GotWritten, Collecting
  <2> QED
    BY <2>2, <2>4, <2>5 DEF BlocksInv
<1> QED
  BY <1>2, <1>3, <1>4 DEF StoreInode

\* Every step keeps who owns the blocks, one lemma for each action that writes
\* a block, a mark or an inode.
LEMMA NextKeepsBlocks == StructureInv /\ BlocksInv /\ [Next]_vars => BlocksInv'
<1> SUFFICES ASSUME StructureInv, BlocksInv, [Next]_vars
             PROVE  BlocksInv'
  OBVIOUS
<1>1. ASSUME NEW d \in Dir, NEW name \in Name, NEW blocks \in BufferBlocks,
             createFile(d, name, blocks)
      PROVE  BlocksInv'
  BY <1>1, createKeepsBlocks
<1>2. ASSUME NEW d \in Dir, NEW name \in Name, deleteFile(d, name)
      PROVE  BlocksInv'
  BY <1>2, deleteKeepsBlocks
<1>3. ASSUME \/ \E d \in Dir, name \in Name, destination \in Dir :
                  moveFile(d, destination, name)
             \/ WriteDirectory \/ deleteDirectoryEntry \/ PowerLoss
      PROVE  BlocksInv'
  <2>1. UNCHANGED <<blockUsage, inodeTable, content>> /\ operation'.kind # "create"
    BY <1>3 DEF moveFile, WriteDirectory, deleteDirectoryEntry, PowerLoss, Idle, disk
  <2> QED
    BY <2>1, BlocksLeftAlone DEF StructureInv
<1>4. CASE UNCHANGED vars
  <2>1. \A i \in Inode, k \in Nat, b \in Block : Refers(i, k, b)' <=> Refers(i, k, b)
    BY <1>4 DEF Refers, vars
  <2>2. Owned'
    BY <1>4, <2>1, OwnedKept DEF BlocksInv, vars
  <2>3. GotOwned'
    BY <1>4, <2>1 DEF BlocksInv, GotOwned, Collecting, vars
  <2>4. DirectFits' /\ GotWritten' /\ DirectWritten'
    BY <1>4 DEF BlocksInv, DirectFits, GotWritten, Collecting, DirectWritten, DataBlock, vars
  <2> QED
    BY <2>2, <2>3, <2>4 DEF BlocksInv
<1> QED
  BY <1>1, <1>2, <1>3, <1>4, allocateKeepsBlocks, WriteDataKeepsBlocks,
     WritePointersKeepsBlocks, writeInodeKeepsBlocks DEF Next

\* Every reachable state keeps its blocks apart.
LEMMA BlocksHold == Spec => [](StructureInv /\ BlocksInv)
<1>1. Init => StructureInv /\ BlocksInv
  BY StructureInitially, BlocksInitially
<1>2. StructureInv /\ BlocksInv /\ [Next]_vars => (StructureInv /\ BlocksInv)'
  BY NextKeepsStructure, NextKeepsBlocks
<1> QED
  BY <1>1, <1>2, PTL DEF Spec

\* No block belongs to two files or to two places of one, and every block of a
\* file is marked, also after a power loss between any two writes of
\* writeBufferToDisk: the map is on the disk before the block is used.
THEOREM BlocksHaveOneOwner == Spec => []BlocksAreOwned
<1>1. ASSUME StructureInv, BlocksInv
      PROVE  BlocksAreOwned
  <2>1. ASSUME NEW i \in Inode, NEW k \in References(i)
        PROVE  k \in Nat /\ BlockAt(i, k) \in Block /\ Refers(i, k, BlockAt(i, k))
    <3> DEFINE value == inodeTable[i]
    <3>1. /\ value.direct \in Seq(Block) /\ value.indirect \in Block
          /\ content[value.indirect].pointers \in Seq(Block)
          /\ Len(value.direct) <= Direct /\ Direct \in Nat
      BY <1>1, Ext2Assumption
         DEF StructureInv, Types, InodeValue, BlockType, BlocksInv, DirectFits
    <3>2. /\ k \in 0 .. Direct + Len(content[value.indirect].pointers)
          /\ k < Len(value.direct) \/ (k >= Direct /\ value.indirect # 0)
          /\ BlockAt(i, k) # 0
      BY <2>1 DEF References
    <3>3. BlockAt(i, k) = IF k < Len(value.direct) THEN value.direct[k + 1]
                          ELSE IF k = Direct THEN value.indirect
                          ELSE content[value.indirect].pointers[k - Direct]
      BY DEF BlockAt
    <3>4. \A b : Refers(i, k, b) <=>
            /\ b # 0
            /\ \/ k \in 0 .. Len(value.direct) - 1 /\ b = value.direct[k + 1]
               \/ value.indirect # 0 /\ k = Direct /\ b = value.indirect
               \/ /\ value.indirect # 0
                  /\ k \in Direct + 1 .. Direct + Len(content[value.indirect].pointers)
                  /\ b = content[value.indirect].pointers[k - Direct]
      BY DEF Refers
    <3>5. PICK b : b = BlockAt(i, k)
      OBVIOUS
    <3> HIDE DEF value
    <3>6. CASE k < Len(value.direct)
      <4>1. k \in 0 .. Len(value.direct) - 1 /\ k + 1 \in 1 .. Len(value.direct) /\ k \in Nat
        BY <3>1, <3>2, <3>6
      <4>2. b = value.direct[k + 1] /\ b \in Block
        BY <3>1, <3>3, <3>5, <3>6, <4>1
      <4> QED
        BY <3>2, <3>4, <3>5, <4>1, <4>2
    <3>7. CASE ~(k < Len(value.direct)) /\ k = Direct
      BY <3>1, <3>2, <3>3, <3>4, <3>5, <3>7
    <3>8. CASE ~(k < Len(value.direct)) /\ k # Direct
      <4>1. /\ k \in Direct + 1 .. Direct + Len(content[value.indirect].pointers)
            /\ k - Direct \in 1 .. Len(content[value.indirect].pointers)
            /\ k \in Nat /\ value.indirect # 0
        BY <3>1, <3>2, <3>8
      <4>2. b = content[value.indirect].pointers[k - Direct] /\ b \in Block
        BY <3>1, <3>3, <3>5, <3>8, <4>1
      <4> QED
        BY <3>2, <3>4, <3>5, <4>1, <4>2
    <3> QED
      BY <3>6, <3>7, <3>8
  <2> QED
    BY <1>1, <2>1 DEF BlocksAreOwned, BlocksInv, Owned
<1> QED
  BY BlocksHold, <1>1, PTL

\* What createFile wrote stays as long as the file is there: later creates and
\* deletes, also those a power loss cuts off, take none of its direct blocks.
THEOREM FilesKeepTheirBlocks == Spec => []DirectBlocksIntact
<1>1. ASSUME StructureInv, BlocksInv
      PROVE  DirectBlocksIntact
  <2> SUFFICES ASSUME NEW i \in 1 .. InodesLoaded,
                      NEW k \in 0 .. Len(inodeTable[i].direct) - 1,
                      inodeTable[i].direct[k + 1] # 0
               PROVE  content[inodeTable[i].direct[k + 1]] = DataBlock(i, k)
    BY DEF DirectBlocksIntact
  <2>1. i \in Inode
    BY Ext2Assumption DEF Inode
  <2>2. inodeTable[i].direct \in Seq(Block)
    BY <1>1, <2>1 DEF StructureInv, Types, InodeValue
  <2>3. k + 1 \in 1 .. Len(inodeTable[i].direct) /\ (k + 1) - 1 = k
    BY <2>2
  <2>4. content[inodeTable[i].direct[k + 1]] = DataBlock(i, (k + 1) - 1)
    BY <1>1, <2>1, <2>3 DEF BlocksInv, DirectWritten
  <2> QED
    BY <2>3, <2>4
<1> QED
  BY BlocksHold, <1>1, PTL
=============================================================================
