----------------------------- MODULE FileSystem -----------------------------
(***************************************************************************)
(* The Nachos file system (code/filesys: filesys.cc, filehdr.cc,           *)
(* directory.cc, openfile.cc; code/userprog/bitmap.cc).                    *)
(*                                                                         *)
(* "This implementation assumes there is no concurrent access": there is   *)
(* one user.  What an operation reads it reads at once, but every sector   *)
(* that it writes is a step of its own, and the machine may stop between   *)
(* any two: `todo' holds the writes that are left, in the order in which   *)
(* the code makes them.                                                    *)
(*                                                                         *)
(* A sector holds a file header, the bitmap (it fits one sector, as in the *)
(* code), a part of the directory, or bytes.                               *)
(***************************************************************************)
EXTENDS Integers, Sequences, FiniteSets, FiniteSetsExt, SequencesExt

CONSTANTS Name,              \* names of files
          Byte,              \* what a byte of data can be
          NumSectors,
          SectorSize,        \* bytes of data in a sector
          NumDirEntries,
          EntriesPerSector,
          FileSizes,         \* sizes of new files
          MaxOpen,           \* BOUND: files open at a time
          Transfers,         \* numbers of bytes to read or write at once
          NoFile             \* no file of that name

Sector == 0..(NumSectors - 1)
FreeMapSector == 0
DirectorySector == 1

divRoundUp(n, s) == (n + s - 1) \div s
NumDirSectors == divRoundUp(NumDirEntries, EntriesPerSector)

ASSUME FileSystemAssumption ==
    /\ NumSectors \in Nat /\ NumSectors >= 3 + NumDirSectors
    /\ SectorSize \in Nat \ {0} /\ NumDirEntries \in Nat \ {0}
    /\ EntriesPerSector \in Nat \ {0}
    /\ FileSizes \subseteq Nat /\ Transfers \subseteq Nat /\ MaxOpen \in Nat

\* Bytes of a sector that holds something else, or was never written.
Garbage == "?"
Blank == [kind |-> "data", bytes |-> [i \in 1..SectorSize |-> Garbage]]

VARIABLES
    disk,      \* what each sector holds
    todo,      \* sectors still to be written by the operation in progress
    openFiles, \* the OpenFile objects of the user
    answer,    \* what Read has just returned
    state      \* "format", "up", or "crashed" (only read from then on), or
               \* "abort" on an ASSERT

vars == <<disk, todo, openFiles, answer, state>>

-----------------------------------------------------------------------------
(***************************************************************************)
(* BitMap: the set of marked bits                                          *)
(***************************************************************************)
Mark(map, which) == map \cup {which}
Clear(map, which) == map \ {which}
Test(map, which) == which \in map

\* The first clear bit, and the map in which it is marked.
Find(map) ==
    LET clear == {i \in Sector : ~Test(map, i)}
    IN  IF clear = {} THEN [bit |-> -1, map |-> map]
        ELSE [bit |-> Min(clear), map |-> Mark(map, Min(clear))]

NumClear(map) == Cardinality({i \in Sector : ~Test(map, i)})

-----------------------------------------------------------------------------
(***************************************************************************)
(* FileHeader                                                              *)
(***************************************************************************)
Header(size, sectors) == [kind |-> "header", numBytes |-> size, dataSectors |-> sectors]

\* The first n clear bits, one Find after the other.
FindMany(map, n) ==
    LET found[k \in 0..n] ==
            IF k = 0 THEN [bits |-> << >>, map |-> map]
            ELSE LET f == Find(found[k - 1].map)
                 IN  [bits |-> Append(found[k - 1].bits, f.bit), map |-> f.map]
    IN  found[n]

CanAllocate(map, size) == NumClear(map) >= divRoundUp(size, SectorSize)

Allocate(map, size) == FindMany(map, divRoundUp(size, SectorSize))

\* MUTANT of Deallocate: the last data sector is forgotten.
DeallocateAllButLast(map, hdr) ==
    map \ Range(SubSeq(hdr.dataSectors, 1, Len(hdr.dataSectors) - 1))

Deallocate(map, hdr) == map \ Range(hdr.dataSectors)

\* ASSERT(freeMap->Test(...))
MayDeallocate(map, hdr) == \A s \in Range(hdr.dataSectors) : Test(map, s)

FileLength(hdr) == hdr.numBytes

HeaderAt(s) == disk[s]

-----------------------------------------------------------------------------
(***************************************************************************)
(* The files of the file system itself.  They stay open.                   *)
(***************************************************************************)
FreeMapData == 2
DirData == [k \in 1..NumDirSectors |-> FreeMapData + k]

DirectoryEntry(inUse, n, s) == [inUse |-> inUse, name |-> n, sector |-> s]
Unused == DirectoryEntry(FALSE, NoFile, 0)

\* BitMap::FetchFrom, Directory::FetchFrom; entries are numbered from 1
FetchFreeMap == disk[FreeMapData].map
FetchDirectory ==
    [i \in 1..NumDirEntries |->
        disk[DirData[(i - 1) \div EntriesPerSector + 1]].entries[i]]

\* BitMap::WriteBack, Directory::WriteBack
WriteFreeMap(map) == <<[sector |-> FreeMapData, to |-> [kind |-> "map", map |-> map]]>>
WriteDirectory(table) ==
    [k \in 1..NumDirSectors |->
        [sector |-> DirData[k],
         to |-> [kind |-> "dir",
                 entries |-> [i \in {j \in 1..NumDirEntries :
                                        (j - 1) \div EntriesPerSector + 1 = k} |-> table[i]]]]]
WriteHeader(s, hdr) == <<[sector |-> s, to |-> hdr]>>

-----------------------------------------------------------------------------
(***************************************************************************)
(* Directory                                                               *)
(***************************************************************************)
FindIndex(table, n) ==
    LET found == {i \in 1..NumDirEntries : table[i].inUse /\ table[i].name = n}
    IN  IF found = {} THEN -1 ELSE Min(found)

Lookup(table, n) == IF FindIndex(table, n) = -1 THEN -1 ELSE table[FindIndex(table, n)].sector

CanAdd(table) == \E i \in 1..NumDirEntries : ~table[i].inUse

Add(table, n, s) ==
    [table EXCEPT ![Min({i \in 1..NumDirEntries : ~table[i].inUse})] =
        DirectoryEntry(TRUE, n, s)]

\* The entry keeps its name and sector.
RemoveEntry(table, n) == [table EXCEPT ![FindIndex(table, n)].inUse = FALSE]

-----------------------------------------------------------------------------
(***************************************************************************)
(* FileSystem                                                              *)
(***************************************************************************)

\* FileSystem(TRUE): an empty directory, and the sectors of the file system
\* marked.
Init ==
    LET map == {FreeMapSector, DirectorySector}
        mapHdr == Allocate(map, SectorSize)
        dirHdr == Allocate(mapHdr.map, NumDirSectors * SectorSize)
    IN  /\ disk = [s \in Sector |-> Blank]
        /\ todo = WriteHeader(FreeMapSector, Header(SectorSize, mapHdr.bits))
                    \o WriteHeader(DirectorySector,
                                   Header(NumDirSectors * SectorSize, dirHdr.bits))
                    \o WriteFreeMap(dirHdr.map)
                    \o WriteDirectory([i \in 1..NumDirEntries |-> Unused])
        /\ openFiles = << >>
        /\ answer = << >>
        /\ state = "format"

Ready == state = "up" /\ todo = << >>

\* MUTANT of Flush: the directory names the file before its header is written.
FlushDirectoryFirst(s, hdr, table, map) ==
    WriteDirectory(table) \o WriteHeader(s, hdr) \o WriteFreeMap(map)

\* The order in which Create writes its changes back.
Flush(s, hdr, table, map) ==
    WriteHeader(s, hdr) \o WriteDirectory(table) \o WriteFreeMap(map)

\* A Create that fails leaves the disk alone.
Create(n, size) ==
    LET table == FetchDirectory
        f == Find(FetchFreeMap)
        blocks == Allocate(f.map, size)
    IN  /\ Ready
        /\ Lookup(table, n) = -1
        /\ f.bit # -1
        /\ CanAdd(table)
        /\ CanAllocate(f.map, size)
        /\ todo' = Flush(f.bit, Header(size, blocks.bits), Add(table, n, f.bit), blocks.map)
        /\ answer' = << >>
        /\ UNCHANGED <<disk, openFiles, state>>

\* Files are removed only when nobody has them open: an OpenFile keeps a copy
\* of the header.
IsOpen(n) == \E h \in 1..Len(openFiles) : openFiles[h].name = n

RemoveFile(n) ==
    LET table == FetchDirectory
        s == Lookup(table, n)
        map == FetchFreeMap
    IN  /\ Ready /\ ~IsOpen(n)
        /\ s # -1
        /\ todo' = IF MayDeallocate(map, HeaderAt(s))
                   THEN WriteFreeMap(Clear(Deallocate(map, HeaderAt(s)), s))
                            \o WriteDirectory(RemoveEntry(table, n))
                   ELSE << >>
        /\ state' = IF MayDeallocate(map, HeaderAt(s)) THEN state ELSE "abort"
        /\ answer' = << >>
        /\ UNCHANGED <<disk, openFiles>>

\* SynchDisk::WriteSector of the next sector
WriteSector ==
    /\ todo # << >>
    /\ disk' = [disk EXCEPT ![Head(todo).sector] = Head(todo).to]
    /\ todo' = Tail(todo)
    /\ state' = IF state = "format" /\ Len(todo) = 1 THEN "up" ELSE state
    /\ answer' = << >>
    /\ UNCHANGED openFiles

\* Nachos stops and is started again without formatting.  In the middle of an
\* operation this "may corrupt the disk": the model then goes on to read, and
\* writes no more.
Crash ==
    /\ state = "up"
    /\ state' = IF todo = << >> THEN "up" ELSE "crashed"
    /\ todo' = << >>
    /\ openFiles' = << >>
    /\ answer' = << >>
    /\ UNCHANGED disk

-----------------------------------------------------------------------------
(***************************************************************************)
(* OpenFile                                                                *)
(***************************************************************************)
\* The constructor OpenFile, for the header in sector s
OpenFile(n, s) == [name |-> n, hdr |-> HeaderAt(s), seekPosition |-> 0]

MayUse == state \in {"up", "crashed"} /\ todo = << >>

Open(n) ==
    LET s == Lookup(FetchDirectory, n)
    IN  /\ MayUse /\ Len(openFiles) < MaxOpen
        /\ s # -1
        /\ openFiles' = Append(openFiles, OpenFile(n, s))
        /\ answer' = << >>
        /\ UNCHANGED <<disk, todo, state>>

Close(h) ==
    /\ MayUse
    /\ openFiles' = RemoveAt(openFiles, h)
    /\ answer' = << >>
    /\ UNCHANGED <<disk, todo, state>>

Seek(h, position) ==
    /\ MayUse
    /\ openFiles' = [openFiles EXCEPT ![h].seekPosition = position]
    /\ answer' = << >>
    /\ UNCHANGED <<disk, todo, state>>

BytesAt(s) == IF disk[s].kind = "data" THEN disk[s].bytes ELSE Blank.bytes

\* The sector that holds byte number `offset' of the file, from 0 on.
ByteToSector(hdr, offset) == hdr.dataSectors[offset \div SectorSize + 1]
ByteAt(hdr, offset) == BytesAt(ByteToSector(hdr, offset))[(offset % SectorSize) + 1]

\* The number of bytes that a request for num bytes at position gets.
Granted(hdr, num, position) ==
    IF num <= 0 \/ position >= FileLength(hdr) THEN 0
    ELSE IF position + num > FileLength(hdr) THEN FileLength(hdr) - position ELSE num

ReadAt(hdr, num, position) ==
    [i \in 1..Granted(hdr, num, position) |-> ByteAt(hdr, position + i - 1)]

Read(h, num) ==
    LET f == openFiles[h]
        got == Granted(f.hdr, num, f.seekPosition)
    IN  /\ MayUse
        /\ answer' = ReadAt(f.hdr, num, f.seekPosition)
        /\ openFiles' = [openFiles EXCEPT ![h].seekPosition = @ + got]
        /\ UNCHANGED <<disk, todo, state>>

\* MUTANT of Merged: a sector that is written in part is not read in first.
MergedBlind(hdr, k, from, num, position) ==
    [i \in 1..SectorSize |->
        LET offset == k * SectorSize + i - 1
        IN  IF offset \in position..(position + num - 1) THEN from[offset - position + 1]
            ELSE Garbage]

\* Sector number k of the file after the bytes `from' went to `position'.
Merged(hdr, k, from, num, position) ==
    [i \in 1..SectorSize |->
        LET offset == k * SectorSize + i - 1
        IN  IF offset \in position..(position + num - 1) THEN from[offset - position + 1]
            ELSE IF offset < FileLength(hdr) THEN ByteAt(hdr, offset) ELSE Garbage]

WriteAt(hdr, from, position) ==
    LET num == Granted(hdr, Len(from), position)
        first == position \div SectorSize
        last == (position + num - 1) \div SectorSize
    IN  IF num = 0 THEN << >>
        ELSE [k \in 1..(last - first + 1) |->
                [sector |-> ByteToSector(hdr, (first + k - 1) * SectorSize),
                 to |-> [kind |-> "data",
                         bytes |-> Merged(hdr, first + k - 1, from, num, position)]]]

Write(h, from) ==
    LET f == openFiles[h]
        got == Granted(f.hdr, Len(from), f.seekPosition)
    IN  /\ Ready
        /\ todo' = WriteAt(f.hdr, from, f.seekPosition)
        /\ openFiles' = [openFiles EXCEPT ![h].seekPosition = @ + got]
        /\ answer' = << >>
        /\ UNCHANGED <<disk, state>>

Use(h) ==
    \/ Close(h)
    \/ \E size \in FileSizes : \E position \in 0..size : Seek(h, position)
    \/ \E num \in Transfers :
          Read(h, num) \/ \E b \in Byte : Write(h, [i \in 1..num |-> b])

Next ==
    \/ WriteSector \/ Crash
    \/ \E n \in Name : RemoveFile(n) \/ Open(n) \/ \E size \in FileSizes : Create(n, size)
    \/ \E h \in 1..Len(openFiles) : Use(h)
    \/ state \in {"crashed", "abort"} /\ UNCHANGED vars

Spec == Init /\ [][Next]_vars

-----------------------------------------------------------------------------
(***************************************************************************)
(* Properties.  They speak of the disk in every state, so of what a crash  *)
(* leaves behind.                                                          *)
(***************************************************************************)
Formatted == state # "format"

\* The files that the directory on disk names, and their sectors.
Listed == {i \in 1..NumDirEntries : FetchDirectory[i].inUse}
SectorsOf(i) ==
    LET s == FetchDirectory[i].sector
    IN  <<s>> \o disk[s].dataSectors

\* A name in the directory leads to a header, and no sector belongs to two
\* files or twice to one file, in whatever state the machine stops (Create
\* writes the header first; BitMap::Find).
NoSectorShared ==
    Formatted =>
        /\ \A i \in Listed : disk[FetchDirectory[i].sector].kind = "header"
        /\ \A i \in Listed :
              /\ \A k \in 1..Len(SectorsOf(i)) :
                    SectorsOf(i)[k] \notin {FreeMapSector, DirectorySector, FreeMapData}
                                              \cup Range(DirData)
              /\ IsInjective(SectorsOf(i))
              /\ \A j \in Listed \ {i} :
                    Range(SectorsOf(i)) \cap Range(SectorsOf(j)) = {}

\* Between operations the free map marks the sectors of the files and of the
\* file system and no others: none is lost or given away, through any sequence
\* of Create and Remove, and no ASSERT of Deallocate fails (FileHeader::Allocate,
\* Deallocate).
MapIsExact ==
    /\ state # "abort"
    /\ (state = "up" /\ todo = << >>) =>
        FetchFreeMap = {FreeMapSector, DirectorySector, FreeMapData} \cup Range(DirData)
                          \cup UNION {Range(SectorsOf(i)) : i \in Listed}

\* The contents of the files as they are on disk.
Content ==
    [n \in {m \in Name : Formatted /\ Lookup(FetchDirectory, m) # -1} |->
        LET hdr == HeaderAt(Lookup(FetchDirectory, n))
        IN  [i \in 1..hdr.numBytes |-> ByteAt(hdr, i - 1)]]

F == INSTANCE Files WITH content <- Content

\* Seen through its directory the disk is a set of files: each sector that is
\* written changes one file as its operation says, Create and Remove take
\* effect at once, and Read returns what the file holds, crash or no crash.
ImplementsFiles == F!Spec
=============================================================================
