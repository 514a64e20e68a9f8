-------------------------- MODULE FileSystemProofs --------------------------
(***************************************************************************)
(* Theorems about the file system (code/filesys) for disks, sectors,       *)
(* directories and files of any size.                                      *)
(*                                                                         *)
(* The invariant compares the disk with its image: the disk as it will be  *)
(* when the writes of the operation in progress are done.  A step that     *)
(* writes a sector leaves the image alone, and a step that begins an       *)
(* operation leaves the disk alone.                                        *)
(***************************************************************************)
EXTENDS FileSystem, TLAPS, FiniteSetTheorems, SequenceTheorems, WellFoundedInduction

-----------------------------------------------------------------------------
(***************************************************************************)
(* The invariant                                                           *)
(***************************************************************************)
SystemSectors == {FreeMapSector, DirectorySector, FreeMapData} \cup Range(DirData)

\* The part of the directory in which entry i is, and the entries of part k.
PartOf(i) == (i - 1) \div EntriesPerSector + 1
Part(k) == {i \in 1..NumDirEntries : PartOf(i) = k}

\* What a sector can hold.
Entry == [inUse : BOOLEAN, name : Name \cup {NoFile}, sector : Sector]
FileHeader == [kind : {"header"}, numBytes : Nat, dataSectors : Seq(Sector)]
MapSector == [kind : {"map"}, map : SUBSET Sector]
DirSector(k) == [kind : {"dir"}, entries : [Part(k) -> Entry]]
DataSector == [kind : {"data"}, bytes : [1..SectorSize -> Byte \cup {Garbage}]]
Contents == FileHeader \cup MapSector \cup DataSector
                \cup UNION {DirSector(k) : k \in 1..NumDirSectors}

WriteTo == [sector : Sector, to : Contents]
OpenedFile == [name : Name, hdr : FileHeader, seekPosition : Nat]

\* Of a disk d: its directory, the entries in use, the header of entry i and
\* the sectors that belong to that file.
Table(d) == [i \in 1..NumDirEntries |-> d[DirData[PartOf(i)]].entries[i]]
Used(d) == {i \in 1..NumDirEntries : Table(d)[i].inUse}
HeaderOf(d, i) == d[Table(d)[i].sector]
Owned(d, i) == {Table(d)[i].sector} \cup Range(HeaderOf(d, i).dataSectors)

\* A disk d as it will be when the writes t are done, and the disk as it will be.
PendingIn(t, s) == \E k \in 1..Len(t) : t[k].sector = s
ImageOf(d, t) ==
    [s \in Sector |-> IF PendingIn(t, s)
                      THEN t[CHOOSE k \in 1..Len(t) : t[k].sector = s].to
                      ELSE d[s]]

Pending(s) == PendingIn(todo, s)
Image == ImageOf(disk, todo)

\* The directory and the free map are where they belong.
Formed(d) ==
    /\ d \in [Sector -> Contents]
    /\ d[FreeMapData] \in MapSector
    /\ \A k \in 1..NumDirSectors : d[DirData[k]] \in DirSector(k)

\* A name in use leads to a header that can hold the file.
Headed(d, i) ==
    /\ Table(d)[i].name \in Name
    /\ HeaderOf(d, i) \in FileHeader
    /\ HeaderOf(d, i).numBytes <= Len(HeaderOf(d, i).dataSectors) * SectorSize
    /\ IsInjective(HeaderOf(d, i).dataSectors)
    /\ Table(d)[i].sector \notin Range(HeaderOf(d, i).dataSectors)
    /\ Owned(d, i) \cap SystemSectors = {}

Sane(d) ==
    \A i \in Used(d) :
        /\ Headed(d, i)
        /\ \A j \in Used(d) : i # j =>
              /\ Table(d)[i].name # Table(d)[j].name
              /\ Owned(d, i) \cap Owned(d, j) = {}

\* The free map marks what belongs to somebody.
Exact(d) == d[FreeMapData].map = SystemSectors \cup UNION {Owned(d, i) : i \in Used(d)}

\* Files that both disks name have the same entries and headers on both.
Agree(d, e) ==
    \A i \in Used(d) \cap Used(e) : Table(d)[i] = Table(e)[i] /\ HeaderOf(d, i) = HeaderOf(e, i)

\* A Create is in progress: the image has at most one file more than the disk,
\* and its header is written before anything else.
Creating ==
    /\ Used(disk) \subseteq Used(Image)
    /\ \A i, j \in Used(Image) \ Used(disk) : i = j
    /\ \A k \in 1..Len(todo) : todo[k].sector \notin SystemSectors =>
          /\ k = 1
          /\ \E i \in Used(Image) \ Used(disk) : todo[k].sector = Table(Image)[i].sector

\* A Remove is in progress: the disk has at most one file more.
Removing ==
    /\ Used(Image) \subseteq Used(disk)
    /\ \A i, j \in Used(disk) \ Used(Image) : i = j
    /\ \A k \in 1..Len(todo) : todo[k].sector \in SystemSectors

\* What may be written to a sector of a file: bytes of the user, or what it
\* holds.
Overwrites(w, hdr, k) ==
    /\ w.sector = hdr.dataSectors[k]
    /\ w.to \in DataSector
    /\ \A b \in 1..SectorSize : (k - 1) * SectorSize + b <= hdr.numBytes =>
          w.to.bytes[b] \in Byte \cup {BytesAt(w.sector)[b]}

\* A Write is in progress.
Writing ==
    /\ Used(Image) = Used(disk)
    /\ \A m \in 1..Len(todo) : \E i \in Used(disk) :
          \E k \in 1..Len(HeaderOf(disk, i).dataSectors) : Overwrites(todo[m], HeaderOf(disk, i), k)

Typed ==
    /\ disk \in [Sector -> Contents]
    /\ todo \in Seq(WriteTo)
    /\ \A k, m \in 1..Len(todo) : todo[k].sector = todo[m].sector => k = m
    /\ openFiles \in Seq(OpenedFile)
    /\ state \in {"format", "up", "crashed"}

\* An open file is in the directory and has the header of its name.
Opened ==
    \A h \in 1..Len(openFiles) : \E i \in Used(Image) :
        /\ Table(Image)[i].name = openFiles[h].name
        /\ HeaderOf(Image, i) = openFiles[h].hdr

Inv ==
    /\ Typed /\ Opened
    /\ Formed(Image)
    /\ state # "crashed" => Sane(Image) /\ Exact(Image)
    /\ state = "format" => todo # << >> /\ Used(Image) = {} /\ openFiles = << >>
    /\ state # "format" => Formed(disk) /\ Sane(disk) /\ Agree(disk, Image)
    /\ state = "up" => Creating \/ Removing \/ Writing
    /\ state = "crashed" => todo = << >>

-----------------------------------------------------------------------------
(***************************************************************************)
(* Where things are on the disk                                            *)
(***************************************************************************)

\* Quotient and rest (divRoundUp, the offset in a sector).
LEMMA DivMod ==
    ASSUME NEW z \in Nat, NEW p \in Nat \ {0}
    PROVE  /\ (z \div p) \in Nat /\ (z % p) \in 0..(p - 1)
           /\ z = (z \div p) * p + (z % p)
<1>1. z \div p \in Nat
  OBVIOUS
<1>2. (z % p) \in 0..(p - 1)
  OBVIOUS
<1>3. z = (z \div p) * p + (z % p)
  OBVIOUS
<1>4. QED
  BY <1>1, <1>2, <1>3

\* A multiple of a number divided by it, rounded up or not, or increased by less
\* than it (divRoundUp, ByteToSector).
LEMMA Divided ==
    ASSUME NEW a \in Nat, NEW s \in Nat \ {0}, NEW r \in 0..(s - 1)
    PROVE  (a * s + r) \div s = a /\ (a * s + r) % s = r
<1>1. a * s \in Nat
  OBVIOUS
<1>2. PICK z \in Nat : z = a * s + r
  BY <1>1
<1>3. PICK q \in Nat, t \in 0..(s - 1) : q = z \div s /\ t = z % s /\ z = q * s + t
  BY DivMod
<1>4. (q - a) * s = r - t
  <2>1. (q - a) * s = q * s - a * s /\ q * s \in Nat
    OBVIOUS
  <2>2. QED
    BY <1>1, <1>2, <1>3, <2>1
<1>5. q - a = 0
  <2>1. PICK d \in Int : d = q - a
    OBVIOUS
  <2>2. d >= 1 => d * s >= s
    OBVIOUS
  <2>3. d <= -1 => d * s <= -s
    OBVIOUS
  <2>4. QED
    BY <1>4, <2>1, <2>2, <2>3
<1>6. QED
  BY <1>2, <1>3, <1>4, <1>5

\* The parts of the directory are enough for its entries
\* (Directory::Directory, FileSystem::FileSystem).
LEMMA DirParts ==
    /\ NumDirSectors \in Nat \ {0}
    /\ \A i \in 1..NumDirEntries : PartOf(i) \in 1..NumDirSectors
<1> DEFINE E == EntriesPerSector
<1>1. NumDirEntries \in Nat \ {0} /\ E \in Nat \ {0}
  BY FileSystemAssumption
<1>2. ASSUME NEW z \in Nat PROVE (z + E) \div E = z \div E + 1
  <2>1. PICK q \in Nat, r \in 0..(E - 1) : q = z \div E /\ r = z % E /\ z = q * E + r
    BY <1>1, DivMod
  <2>2. z + E = (q + 1) * E + r
    BY <1>1, <2>1
  <2>3. ((q + 1) * E + r) \div E = q + 1
    BY <1>1, Divided
  <2>4. QED
    BY <2>1, <2>2, <2>3
<1>3. PICK m \in Nat : NumDirEntries = m + 1
  BY <1>1
<1>4. NumDirSectors = m \div E + 1
  <2>1. NumDirEntries + E - 1 = m + E
    BY <1>1, <1>3
  <2>2. QED
    BY <1>2, <2>1 DEF NumDirSectors, divRoundUp
<1>5. \A z \in 0..m : z \div E \in Nat /\ z \div E <= m \div E
  <2>1. SUFFICES ASSUME NEW z \in 0..m, ~(z \div E <= m \div E) PROVE FALSE
    BY <1>1
  <2>2. PICK a, b \in Nat : /\ a = z \div E /\ b = m \div E
                            /\ a * E <= z /\ m < b * E + E
    BY <1>1
  <2>3. a >= b + 1
    BY <2>1, <2>2, <1>1
  <2>4. a * E >= (b + 1) * E
    BY <1>1, <2>3
  <2>5. (b + 1) * E = b * E + E /\ a * E \in Nat /\ b * E \in Nat
    BY <1>1
  <2>6. QED
    BY <1>1, <2>2, <2>4, <2>5
<1>6. m \div E \in Nat
  BY <1>1
<1>7. ASSUME NEW i \in 1..NumDirEntries PROVE PartOf(i) \in 1..NumDirSectors
  <2>1. i - 1 \in 0..m
    BY <1>3
  <2>2. PICK z \in 0..m : z = i - 1
    BY <2>1
  <2>3. z \div E \in Nat /\ z \div E <= m \div E
    BY <1>5
  <2>4. PartOf(i) = z \div E + 1
    BY <2>2 DEF PartOf
  <2>5. QED
    BY <1>4, <1>6, <2>3, <2>4
<1>8. QED
  BY <1>4, <1>6, <1>7

\* The sectors of the file system are the first ones (FileSystem::FileSystem).
LEMMA Layout ==
    /\ NumSectors \in Nat /\ SectorSize \in Nat \ {0}
    /\ NumDirSectors + 3 <= NumSectors
    /\ SystemSectors = 0..(NumDirSectors + 2)
    /\ SystemSectors \subseteq Sector
    /\ FreeMapData \in SystemSectors /\ Range(DirData) \subseteq SystemSectors
    /\ \A k \in 1..NumDirSectors : DirData[k] = FreeMapData + k /\ DirData[k] \in SystemSectors
    /\ \A s \in Range(DirData) : \E k \in 1..NumDirSectors : s = DirData[k]
    /\ \A k, m \in 1..NumDirSectors : DirData[k] = DirData[m] => k = m
    /\ \A k \in 1..NumDirSectors : DirData[k] \notin {FreeMapSector, DirectorySector, FreeMapData}
<1>1. NumDirSectors \in Nat \ {0}
  BY DirParts
<1>2. \A k \in 1..NumDirSectors : DirData[k] = k + 2
  BY <1>1 DEF DirData, FreeMapData
<1>3. Range(DirData) = 3..(NumDirSectors + 2)
  <2>1. \A s \in 3..(NumDirSectors + 2) : s - 2 \in 1..NumDirSectors /\ s = (s - 2) + 2
    BY <1>1
  <2>2. DOMAIN DirData = 1..NumDirSectors
    BY DEF DirData
  <2>3. QED
    <3>1. \A s : s \in Range(DirData) <=> \E k \in 1..NumDirSectors : s = DirData[k]
      BY <2>2 DEF Range
    <3>2. \A s : s \in Range(DirData) <=> \E k \in 1..NumDirSectors : s = k + 2
      BY <1>2, <3>1
    <3>3. \A s : s \in Range(DirData) <=> s \in 3..(NumDirSectors + 2)
      BY <1>1, <2>1, <3>2
    <3>4. QED
      BY <3>3
<1>4. SystemSectors = 0..(NumDirSectors + 2)
  BY <1>1, <1>3 DEF SystemSectors, FreeMapSector, DirectorySector, FreeMapData
<1>5. /\ NumSectors \in Nat /\ SectorSize \in Nat \ {0}
      /\ NumDirSectors + 3 <= NumSectors
  BY <1>1, FileSystemAssumption
<1>6. SystemSectors \subseteq Sector
  BY <1>1, <1>4, <1>5 DEF Sector
<1>7. \A s \in Range(DirData) : \E k \in 1..NumDirSectors : s = DirData[k]
  BY DEF Range, DirData
<1>8. QED
  BY <1>1, <1>2, <1>3, <1>4, <1>5, <1>6, <1>7 DEF FreeMapSector, DirectorySector, FreeMapData

\* Every entry of the directory of a disk is an entry of one of its sectors.
LEMMA TableTyped ==
    ASSUME NEW d, Formed(d)
    PROVE  /\ Table(d) \in [1..NumDirEntries -> Entry]
           /\ Used(d) \subseteq 1..NumDirEntries
           /\ \A i \in 1..NumDirEntries : Table(d)[i].sector \in Sector
           /\ \A i \in 1..NumDirEntries : HeaderOf(d, i) \in Contents
<1>1. ASSUME NEW i \in 1..NumDirEntries PROVE d[DirData[PartOf(i)]].entries[i] \in Entry
  <2>1. PartOf(i) \in 1..NumDirSectors
    BY DirParts
  <2>2. d[DirData[PartOf(i)]] \in DirSector(PartOf(i))
    BY <2>1 DEF Formed
  <2>3. d[DirData[PartOf(i)]].entries \in [Part(PartOf(i)) -> Entry]
    BY <2>2 DEF DirSector
  <2>4. i \in Part(PartOf(i))
    BY DEF Part
  <2>5. QED
    BY <2>3, <2>4
<1>2. Table(d) \in [1..NumDirEntries -> Entry]
  BY <1>1 DEF Table
<1>3. ASSUME NEW i \in 1..NumDirEntries PROVE Table(d)[i].sector \in Sector
  BY <1>2 DEF Entry
<1>4. QED
  BY <1>2, <1>3 DEF Used, HeaderOf, Formed

\* What the code reads is the table of the disk.
LEMMA Fetched == FetchDirectory = Table(disk)
BY DEF FetchDirectory, Table, PartOf

-----------------------------------------------------------------------------
(***************************************************************************)
(* The image, and how a write moves the disk towards it                    *)
(***************************************************************************)

\* Writes to different sectors: the image shows what they write, and otherwise
\* the disk.
LEMMA Shown ==
    ASSUME NEW d \in [Sector -> Contents], NEW t \in Seq(WriteTo),
           \A k, m \in 1..Len(t) : t[k].sector = t[m].sector => k = m
    PROVE  /\ ImageOf(d, t) \in [Sector -> Contents]
           /\ \A k \in 1..Len(t) : /\ t[k].sector \in Sector /\ t[k].to \in Contents
                                   /\ ImageOf(d, t)[t[k].sector] = t[k].to
           /\ \A s \in Sector : ~PendingIn(t, s) => ImageOf(d, t)[s] = d[s]
<1>1. ASSUME NEW k \in 1..Len(t)
      PROVE  /\ t[k].sector \in Sector /\ t[k].to \in Contents
             /\ ImageOf(d, t)[t[k].sector] = t[k].to
  <2>1. t[k] \in WriteTo
    OBVIOUS
  <2>2. t[k].sector \in Sector /\ t[k].to \in Contents
    BY <2>1 DEF WriteTo
  <2>3. PICK c : c = CHOOSE m \in 1..Len(t) : t[m].sector = t[k].sector
    OBVIOUS
  <2>4. c \in 1..Len(t) /\ t[c].sector = t[k].sector
    BY <2>3
  <2>5. c = k
    BY <2>4
  <2>6. PendingIn(t, t[k].sector)
    BY DEF PendingIn
  <2>7. QED
    BY <2>2, <2>3, <2>5, <2>6 DEF ImageOf
<1>2. ASSUME NEW s \in Sector PROVE ImageOf(d, t)[s] \in Contents
  <2>1. CASE PendingIn(t, s)
    BY <1>1, <2>1 DEF PendingIn
  <2>2. CASE ~PendingIn(t, s)
    BY <2>2 DEF ImageOf
  <2>3. QED
    BY <2>1, <2>2
<1>3. QED
  BY <1>1, <1>2 DEF ImageOf

\* The same for the writes of the operation in progress.
LEMMA ImageShows ==
    ASSUME Typed
    PROVE  /\ Image \in [Sector -> Contents]
           /\ \A k \in 1..Len(todo) : /\ todo[k].sector \in Sector /\ todo[k].to \in Contents
                                      /\ Image[todo[k].sector] = todo[k].to
           /\ \A s \in Sector : ~Pending(s) => Image[s] = disk[s]
BY Shown DEF Typed, Image, Pending

\* Between operations nothing is missing from the disk.
LEMMA ImageIsDisk ==
    ASSUME Typed, todo = << >>
    PROVE  Image = disk
<1>1. \A s \in Sector : ~Pending(s)
  BY DEF Pending, PendingIn
<1>2. QED
  BY <1>1 DEF Image, ImageOf, Pending, Typed

\* WriteSector makes one sector what it is in the image, and leaves the image
\* alone.
LEMMA WriteStep ==
    ASSUME Typed, WriteSector
    PROVE  /\ Len(todo) \in Nat \ {0} /\ Len(todo') = Len(todo) - 1
           /\ \A k \in 1..Len(todo') : k + 1 \in 1..Len(todo) /\ todo'[k] = todo[k + 1]
           /\ todo[1].sector \in Sector
           /\ disk' = [disk EXCEPT ![todo[1].sector] = Image[todo[1].sector]]
           /\ disk' \in [Sector -> Contents] /\ todo' \in Seq(WriteTo)
           /\ \A k, m \in 1..Len(todo') : todo'[k].sector = todo'[m].sector => k = m
           /\ \A k \in 1..Len(todo') : todo'[k].sector # todo[1].sector
           /\ Image' = Image
<1>1. /\ todo # << >> /\ todo \in Seq(WriteTo) /\ todo' = Tail(todo)
      /\ disk' = [disk EXCEPT ![Head(todo).sector] = Head(todo).to]
      /\ disk \in [Sector -> Contents]
  BY DEF WriteSector, Typed
<1>2. /\ Len(todo) \in Nat \ {0} /\ Len(todo') = Len(todo) - 1 /\ todo' \in Seq(WriteTo)
      /\ Head(todo) = todo[1] /\ 1 \in 1..Len(todo)
      /\ \A k \in 1..Len(todo') : k + 1 \in 1..Len(todo) /\ todo'[k] = todo[k + 1]
  BY <1>1
<1>3. /\ todo[1].sector \in Sector /\ todo[1].to \in Contents
      /\ Image[todo[1].sector] = todo[1].to
  BY <1>2, ImageShows
<1>4. /\ \A k, m \in 1..Len(todo') : todo'[k].sector = todo'[m].sector => k = m
      /\ \A k \in 1..Len(todo') : todo'[k].sector # todo[1].sector
  <2>1. \A k, m \in 1..Len(todo) : todo[k].sector = todo[m].sector => k = m
    BY DEF Typed
  <2>2. ASSUME NEW k \in 1..Len(todo'), NEW m \in 1..Len(todo'),
               todo'[k].sector = todo'[m].sector
        PROVE  k = m
    <3>1. k + 1 = m + 1
      BY <1>2, <2>1, <2>2
    <3>2. k \in Int /\ m \in Int
      BY <1>2
    <3>3. QED
      BY <3>1, <3>2
  <2>3. ASSUME NEW k \in 1..Len(todo'), todo'[k].sector = todo[1].sector PROVE FALSE
    <3>1. k + 1 = 1
      BY <1>2, <2>1, <2>3
    <3>2. k \in Int /\ k >= 1
      BY <1>2
    <3>3. QED
      BY <3>1, <3>2
  <2>4. QED
    BY <2>2, <2>3
<1>5. disk' = [disk EXCEPT ![todo[1].sector] = Image[todo[1].sector]]
      /\ disk' \in [Sector -> Contents]
  BY <1>1, <1>2, <1>3
<1>7. ASSUME NEW s \in Sector PROVE Image'[s] = Image[s]
  <2>1. CASE \E k \in 1..Len(todo') : todo'[k].sector = s
    <3>1. PICK k \in 1..Len(todo') : todo'[k].sector = s
      BY <2>1
    <3>2. PICK c : c = CHOOSE m \in 1..Len(todo') : todo'[m].sector = s
      OBVIOUS
    <3>3. c \in 1..Len(todo') /\ todo'[c].sector = s
      BY <3>1, <3>2
    <3>4. Image'[s] = todo'[c].to
      BY <2>1, <3>2 DEF Image, ImageOf, Pending, PendingIn
    <3>5. todo'[c] = todo[c + 1] /\ c + 1 \in 1..Len(todo)
      BY <1>2, <3>3
    <3>6. Image[s] = todo[c + 1].to
      BY <3>3, <3>5, ImageShows
    <3>7. QED
      BY <3>4, <3>5, <3>6
  <2>2. CASE ~\E k \in 1..Len(todo') : todo'[k].sector = s
    <3>1. Image'[s] = disk'[s]
      BY <2>2 DEF Image, ImageOf, Pending, PendingIn
    <3>2. CASE s = todo[1].sector
      BY <1>1, <1>5, <3>1, <3>2
    <3>3. CASE s # todo[1].sector
      <4>1. ASSUME NEW k \in 1..Len(todo), todo[k].sector = s PROVE FALSE
        <5>1. k # 1
          BY <3>3, <4>1
        <5>2. k - 1 \in 1..Len(todo') /\ (k - 1) + 1 = k
          BY <1>2, <5>1
        <5>3. todo'[k - 1] = todo[k]
          BY <1>2, <5>2
        <5>4. QED
          BY <2>2, <4>1, <5>2, <5>3
      <4>2. ~Pending(s)
        BY <4>1 DEF Pending, PendingIn
      <4>3. Image[s] = disk[s]
        BY <4>2, ImageShows
      <4>4. disk'[s] = disk[s]
        BY <1>1, <1>5, <3>3
      <4>5. QED
        BY <3>1, <4>3, <4>4
    <3>4. QED
      BY <3>2, <3>3
  <2>3. QED
    BY <2>1, <2>2
<1>8. Image' = Image
  BY <1>7 DEF Image, ImageOf, Pending
<1>9. QED
  BY <1>2, <1>3, <1>4, <1>5, <1>8

\* What such a write does to the directory, if a write of the directory is
\* pending its entries are those of the image.
LEMMA WriteTable ==
    ASSUME Typed, WriteSector, Formed(disk), Formed(Image)
    PROVE  /\ Formed(disk')
           /\ \A i \in 1..NumDirEntries :
                 Table(disk')[i] = IF todo[1].sector = DirData[PartOf(i)]
                                   THEN Table(Image)[i] ELSE Table(disk)[i]
<1> DEFINE s == todo[1].sector
<1>1. /\ s \in Sector
      /\ disk' = [disk EXCEPT ![s] = Image[s]]
      /\ disk' \in [Sector -> Contents] /\ disk \in [Sector -> Contents]
  BY WriteStep DEF Formed
<1>2. \A x \in Sector : disk'[x] = IF x = s THEN Image[x] ELSE disk[x]
  BY <1>1
<1>3. FreeMapData \in Sector /\ \A k \in 1..NumDirSectors : DirData[k] \in Sector
  BY Layout
<1>4. Formed(disk')
  BY <1>1, <1>2, <1>3 DEF Formed
<1>5. ASSUME NEW i \in 1..NumDirEntries
      PROVE  Table(disk')[i] = IF s = DirData[PartOf(i)] THEN Table(Image)[i] ELSE Table(disk)[i]
  <2>1. PartOf(i) \in 1..NumDirSectors
    BY DirParts
  <2>2. DirData[PartOf(i)] \in Sector
    BY <1>3, <2>1
  <2>3. QED
    BY <1>2, <2>2 DEF Table
<1>6. QED
  BY <1>4, <1>5

-----------------------------------------------------------------------------
(***************************************************************************)
(* WriteSector keeps the invariant                                         *)
(***************************************************************************)

\* A disk that names fewer files, all of them as they are on a sane disk, is
\* sane.
LEMMA FewerFiles ==
    ASSUME NEW d, NEW e, Sane(d), Used(e) \subseteq Used(d), Agree(d, e)
    PROVE  Sane(e)
<1>1. ASSUME NEW i \in Used(e)
      PROVE  /\ i \in Used(d) /\ Table(e)[i] = Table(d)[i]
             /\ HeaderOf(e, i) = HeaderOf(d, i) /\ Owned(e, i) = Owned(d, i)
  <2>1. i \in Used(d) /\ Table(e)[i] = Table(d)[i] /\ HeaderOf(e, i) = HeaderOf(d, i)
    BY <1>1 DEF Agree
  <2>2. QED
    BY <2>1 DEF Owned
<1>2. ASSUME NEW i \in Used(e) PROVE Headed(e, i)
  BY <1>1 DEF Sane, Headed
<1>3. ASSUME NEW i \in Used(e), NEW j \in Used(e), i # j
      PROVE  Table(e)[i].name # Table(e)[j].name /\ Owned(e, i) \cap Owned(e, j) = {}
  BY <1>1, <1>3 DEF Sane
<1>4. QED
  BY <1>2, <1>3 DEF Sane

\* In the middle of a Create: what is on the disk of the new directory and of
\* the new header is what the image has.
LEMMA CreatingStep ==
    ASSUME Inv, state = "up", Creating, WriteSector
    PROVE  /\ Creating' /\ Sane(disk') /\ Agree(disk', Image)
           /\ Used(disk) \subseteq Used(disk')
<1> DEFINE s == todo[1].sector
<1>1. /\ Typed /\ Formed(disk) /\ Formed(Image) /\ Agree(disk, Image)
      /\ Sane(Image) /\ Used(disk) \subseteq Used(Image)
  BY DEF Inv, Creating
<1>2. /\ Len(todo) \in Nat \ {0} /\ Len(todo') = Len(todo) - 1
      /\ \A k \in 1..Len(todo') : k + 1 \in 1..Len(todo) /\ todo'[k] = todo[k + 1]
      /\ disk' = [disk EXCEPT ![s] = Image[s]]
      /\ Image' = Image
  BY <1>1, WriteStep
<1>3. /\ Formed(disk')
      /\ \A i \in 1..NumDirEntries :
            Table(disk')[i] = IF s = DirData[PartOf(i)] THEN Table(Image)[i] ELSE Table(disk)[i]
  BY <1>1, WriteTable
<1>4. ASSUME NEW i \in Used(disk')
      PROVE  /\ i \in Used(Image) /\ Table(disk')[i] = Table(Image)[i]
             /\ i \in Used(disk) \/ s = DirData[PartOf(i)]
  <2>1. i \in 1..NumDirEntries /\ Table(disk')[i].inUse
    BY <1>4 DEF Used
  <2>2. CASE s = DirData[PartOf(i)]
    BY <1>3, <2>1, <2>2 DEF Used
  <2>3. CASE s # DirData[PartOf(i)]
    <3>1. Table(disk')[i] = Table(disk)[i]
      BY <1>3, <2>1, <2>3
    <3>2. i \in Used(disk)
      BY <2>1, <3>1 DEF Used
    <3>3. QED
      BY <1>1, <3>1, <3>2 DEF Agree
  <2>4. QED
    BY <2>2, <2>3
<1>5. ASSUME NEW i \in Used(disk) PROVE i \in Used(disk')
  <2>1. i \in 1..NumDirEntries /\ Table(disk)[i].inUse /\ Table(Image)[i].inUse
    BY <1>1 DEF Used
  <2>2. QED
    BY <1>3, <2>1 DEF Used
<1>6. ASSUME NEW i \in Used(disk') PROVE HeaderOf(disk', i) = HeaderOf(Image, i)
  <2> DEFINE x == Table(Image)[i].sector
  <2>1. x \in Sector /\ disk \in [Sector -> Contents]
    BY <1>1, <1>4, TableTyped DEF Used, Formed
  <2>2. x \notin SystemSectors
    BY <1>1, <1>4 DEF Sane, Headed, Owned
  <2>3. HeaderOf(disk', i) = disk'[x] /\ HeaderOf(Image, i) = Image[x]
    BY <1>4 DEF HeaderOf
  <2>4. CASE x = s
    BY <1>2, <2>1, <2>3, <2>4
  <2>5. CASE x # s /\ i \in Used(disk)
    <3>1. HeaderOf(disk, i) = HeaderOf(Image, i) /\ Table(disk)[i] = Table(Image)[i]
      BY <1>1, <1>4, <2>5 DEF Agree
    <3>2. disk[x] = Image[x]
      BY <3>1 DEF HeaderOf
    <3>3. disk'[x] = disk[x]
      BY <1>2, <2>1, <2>5
    <3>4. QED
      BY <2>3, <3>2, <3>3
  <2>6. CASE x # s /\ s = DirData[PartOf(i)]
    <3>1. s \in SystemSectors
      BY <1>4, <2>6, DirParts, Layout DEF Used
    <3>2. ASSUME NEW k \in 1..Len(todo), todo[k].sector = x PROVE FALSE
      <4>1. k = 1
        BY <2>2, <3>2 DEF Creating
      <4>2. QED
        BY <2>6, <3>2, <4>1
    <3>3. Image[x] = disk[x]
      BY <1>1, <2>1, <3>2, ImageShows DEF Pending, PendingIn
    <3>4. disk'[x] = disk[x]
      BY <1>2, <2>1, <2>6
    <3>5. QED
      BY <2>3, <3>3, <3>4
  <2>7. QED
    BY <1>4, <2>4, <2>5, <2>6
<1>7. Agree(disk', Image) /\ Agree(Image, disk')
  BY <1>4, <1>6 DEF Agree
<1>8. Sane(disk')
  BY <1>1, <1>4, <1>7, FewerFiles
<1>9. Creating'
  <2>1. Used(disk') \subseteq Used(Image)
    BY <1>4
  <2>2. \A i, j \in Used(Image) \ Used(disk') : i = j
    BY <1>5 DEF Creating
  <2>3. ASSUME NEW k \in 1..Len(todo') PROVE todo'[k].sector \in SystemSectors
    <3>1. k + 1 \in 1..Len(todo) /\ todo'[k] = todo[k + 1] /\ k + 1 # 1
      BY <1>2
    <3>2. QED
      BY <3>1 DEF Creating
  <2>4. QED
    BY <1>2, <2>1, <2>2, <2>3 DEF Creating
<1>10. QED
  BY <1>5, <1>7, <1>8, <1>9

\* In the middle of a Remove no header changes, and an entry only goes.
LEMMA RemovingStep ==
    ASSUME Inv, state = "up", Removing, WriteSector
    PROVE  /\ Removing' /\ Sane(disk') /\ Agree(disk', Image)
           /\ Used(disk') \subseteq Used(disk) /\ Agree(disk, disk')
<1> DEFINE s == todo[1].sector
<1>1. /\ Typed /\ Formed(disk) /\ Formed(Image) /\ Agree(disk, Image)
      /\ Sane(disk) /\ Used(Image) \subseteq Used(disk)
  BY DEF Inv, Removing
<1>2. /\ Len(todo) \in Nat \ {0} /\ Len(todo') = Len(todo) - 1
      /\ \A k \in 1..Len(todo') : k + 1 \in 1..Len(todo) /\ todo'[k] = todo[k + 1]
      /\ disk' = [disk EXCEPT ![s] = Image[s]]
      /\ Image' = Image
  BY <1>1, WriteStep
<1>3. /\ Formed(disk')
      /\ \A i \in 1..NumDirEntries :
            Table(disk')[i] = IF s = DirData[PartOf(i)] THEN Table(Image)[i] ELSE Table(disk)[i]
  BY <1>1, WriteTable
<1>4. ASSUME NEW i \in Used(disk')
      PROVE  i \in Used(disk) /\ Table(disk')[i] = Table(disk)[i]
  <2>1. i \in 1..NumDirEntries /\ Table(disk')[i].inUse
    BY <1>4 DEF Used
  <2>2. CASE s = DirData[PartOf(i)]
    <3>1. Table(disk')[i] = Table(Image)[i]
      BY <1>3, <2>1, <2>2
    <3>2. i \in Used(Image)
      BY <2>1, <3>1 DEF Used
    <3>3. QED
      BY <1>1, <3>1, <3>2 DEF Agree
  <2>3. CASE s # DirData[PartOf(i)]
    BY <1>3, <2>1, <2>3 DEF Used
  <2>4. QED
    BY <2>2, <2>3
<1>5. ASSUME NEW i \in Used(Image) PROVE i \in Used(disk')
  <2>1. i \in 1..NumDirEntries /\ Table(disk)[i].inUse /\ Table(Image)[i].inUse
    BY <1>1 DEF Used
  <2>2. QED
    BY <1>3, <2>1 DEF Used
<1>6. ASSUME NEW i \in Used(disk') PROVE HeaderOf(disk', i) = HeaderOf(disk, i)
  <2> DEFINE x == Table(disk)[i].sector
  <2>1. x \in Sector /\ disk \in [Sector -> Contents]
    BY <1>1, <1>4, TableTyped DEF Used, Formed
  <2>2. x \notin SystemSectors
    BY <1>1, <1>4 DEF Sane, Headed, Owned
  <2>3. s \in SystemSectors
    BY <1>2 DEF Removing
  <2>4. disk'[x] = disk[x]
    BY <1>2, <2>1, <2>2, <2>3
  <2>5. QED
    BY <1>4, <2>4 DEF HeaderOf
<1>7. Agree(disk, disk') /\ Agree(disk', Image)
  BY <1>1, <1>4, <1>6 DEF Agree
<1>8. Sane(disk')
  BY <1>1, <1>4, <1>7, FewerFiles
<1>9. Removing'
  <2>1. Used(Image) \subseteq Used(disk') /\ \A i, j \in Used(disk') \ Used(Image) : i = j
    BY <1>4, <1>5 DEF Removing
  <2>2. ASSUME NEW k \in 1..Len(todo') PROVE todo'[k].sector \in SystemSectors
    BY <1>2 DEF Removing
  <2>3. QED
    BY <1>2, <2>1, <2>2 DEF Removing
<1>10. QED
  BY <1>4, <1>7, <1>8, <1>9

\* A data sector of a file is no sector of the file system and no header.
LEMMA DataSectors ==
    ASSUME NEW d, Sane(d), NEW i \in Used(d), NEW k \in 1..Len(HeaderOf(d, i).dataSectors)
    PROVE  LET x == HeaderOf(d, i).dataSectors[k]
           IN  /\ x \in Sector /\ x \in Owned(d, i) /\ x \notin SystemSectors
               /\ \A j \in Used(d) : x # Table(d)[j].sector
<1> DEFINE q == HeaderOf(d, i).dataSectors
<1>1. Headed(d, i) /\ \A j \in Used(d) : i # j => Owned(d, i) \cap Owned(d, j) = {}
  BY DEF Sane
<1>2. q \in Seq(Sector)
  BY <1>1 DEF Headed, FileHeader
<1>3. q[k] \in Sector /\ q[k] \in Range(q)
  BY <1>2 DEF Range
<1>4. q[k] \in Owned(d, i) /\ q[k] \notin SystemSectors
  BY <1>1, <1>3 DEF Owned, Headed
<1>5. ASSUME NEW j \in Used(d) PROVE q[k] # Table(d)[j].sector
  BY <1>1, <1>3, <1>4 DEF Owned, Headed
<1>6. QED
  BY <1>3, <1>4, <1>5

\* In the middle of a Write neither the directory nor a header changes.
LEMMA WritingStep ==
    ASSUME Inv, state = "up", Writing, WriteSector
    PROVE  /\ Writing' /\ Sane(disk') /\ Agree(disk', Image)
           /\ Used(disk') = Used(disk) /\ Agree(disk, disk')
           /\ \A i \in 1..NumDirEntries : Table(disk')[i] = Table(disk)[i]
<1> DEFINE s == todo[1].sector
<1>1. /\ Typed /\ Formed(disk) /\ Formed(Image) /\ Agree(disk, Image)
      /\ Sane(disk) /\ Used(Image) = Used(disk)
  BY DEF Inv, Writing
<1>2. /\ Len(todo) \in Nat \ {0} /\ Len(todo') = Len(todo) - 1
      /\ \A k \in 1..Len(todo') : k + 1 \in 1..Len(todo) /\ todo'[k] = todo[k + 1]
      /\ \A k \in 1..Len(todo') : todo'[k].sector # s
      /\ disk' = [disk EXCEPT ![s] = Image[s]]
      /\ Image' = Image
  BY <1>1, WriteStep
<1>3. /\ Formed(disk')
      /\ \A i \in 1..NumDirEntries :
            Table(disk')[i] = IF s = DirData[PartOf(i)] THEN Table(Image)[i] ELSE Table(disk)[i]
  BY <1>1, WriteTable
<1>4. PICK i0 \in Used(disk) : \E k \in 1..Len(HeaderOf(disk, i0).dataSectors) :
                                    Overwrites(todo[1], HeaderOf(disk, i0), k)
  BY <1>2 DEF Writing
<1>5. s \notin SystemSectors /\ \A j \in Used(disk) : s # Table(disk)[j].sector
  BY <1>1, <1>4, DataSectors DEF Overwrites
<1>6. \A i \in 1..NumDirEntries : Table(disk')[i] = Table(disk)[i]
  BY <1>3, <1>5, DirParts, Layout
<1>7. Used(disk') = Used(disk)
  BY <1>6 DEF Used
<1>8. \A i \in Used(disk) : Table(disk')[i] = Table(disk)[i]
  BY <1>6 DEF Used
<1>9. ASSUME NEW i \in Used(disk) PROVE HeaderOf(disk', i) = HeaderOf(disk, i)
  <2> DEFINE x == Table(disk)[i].sector
  <2>1. x \in Sector /\ disk \in [Sector -> Contents]
    BY <1>1, TableTyped DEF Used, Formed
  <2>2. disk'[x] = disk[x]
    BY <1>2, <1>5, <2>1
  <2>3. QED
    BY <1>8, <2>2 DEF HeaderOf
<1>10. Agree(disk, disk') /\ Agree(disk', Image)
  BY <1>1, <1>7, <1>8, <1>9 DEF Agree
<1>11. Sane(disk')
  BY <1>1, <1>7, <1>10, FewerFiles
<1>12. Writing'
  <2>1. ASSUME NEW m \in 1..Len(todo')
        PROVE  \E i \in Used(disk') : \E k \in 1..Len(HeaderOf(disk', i).dataSectors) :
                  Overwrites(todo[m], HeaderOf(disk, i), k)'
    <3>1. m + 1 \in 1..Len(todo) /\ todo'[m] = todo[m + 1] /\ todo'[m].sector # s
      BY <1>2
    <3>2. PICK i \in Used(disk) : \E k \in 1..Len(HeaderOf(disk, i).dataSectors) :
                                      Overwrites(todo[m + 1], HeaderOf(disk, i), k)
      BY <3>1 DEF Writing
    <3>3. PICK k \in 1..Len(HeaderOf(disk, i).dataSectors) :
              Overwrites(todo[m + 1], HeaderOf(disk, i), k)
      BY <3>2
    <3>4. todo[m + 1].sector \in Sector /\ todo[m + 1].sector # s
      BY <1>1, <3>1, <3>3, DataSectors DEF Overwrites
    <3>5. disk'[todo[m + 1].sector] = disk[todo[m + 1].sector]
      BY <1>1, <1>2, <3>4 DEF Formed
    <3>6. Overwrites(todo[m], HeaderOf(disk, i), k)'
      BY <1>9, <3>1, <3>3, <3>5 DEF Overwrites, BytesAt
    <3>7. QED
      BY <1>7, <1>9, <3>6
  <2>2. QED
    BY <1>1, <1>2, <1>7, <2>1 DEF Writing
<1>13. QED
  BY <1>6, <1>7, <1>10, <1>11, <1>12

\* Every sector that is written keeps the invariant (SynchDisk::WriteSector).
LEMMA WriteSectorKeeps ==
    ASSUME Inv, WriteSector
    PROVE  Inv'
<1> DEFINE s == todo[1].sector
<1>1. /\ Typed /\ Opened /\ Formed(Image)
      /\ state \in {"format", "up"}
      /\ Sane(Image) /\ Exact(Image)
  BY DEF Inv, Typed, WriteSector
<1>2. /\ Len(todo) \in Nat \ {0} /\ Len(todo') = Len(todo) - 1
      /\ Image' = Image /\ openFiles' = openFiles
      /\ disk' \in [Sector -> Contents] /\ todo' \in Seq(WriteTo)
      /\ \A k, m \in 1..Len(todo') : todo'[k].sector = todo'[m].sector => k = m
      /\ state' = IF state = "format" /\ Len(todo) = 1 THEN "up" ELSE state
  BY <1>1, WriteStep DEF WriteSector
<1>3. Typed'
  BY <1>1, <1>2 DEF Typed
<1>4. Opened' /\ Formed(Image') /\ Sane(Image') /\ Exact(Image')
  BY <1>1, <1>2 DEF Opened
<1>5. CASE state = "up"
  <2>1. state' = "up" /\ Formed(disk) /\ Agree(disk, Image)
    BY <1>2, <1>5 DEF Inv
  <2>2. Formed(disk')
    BY <1>1, <2>1, WriteTable
  <2>3. Creating \/ Removing \/ Writing
    BY <1>5 DEF Inv
  <2>4. (Creating \/ Removing \/ Writing)' /\ Sane(disk') /\ Agree(disk', Image)
    BY <1>5, <2>3, CreatingStep, RemovingStep, WritingStep
  <2>5. Agree(disk', Image')
    BY <1>2, <2>4
  <2>6. QED
    BY <1>3, <1>4, <2>1, <2>2, <2>4, <2>5 DEF Inv
<1>6. CASE state = "format" /\ Len(todo) # 1
  <2>1. state' = "format" /\ Len(todo') # 0
    BY <1>2, <1>6
  <2>2. todo' # << >>
    BY <2>1
  <2>3. Used(Image') = {} /\ openFiles' = << >>
    BY <1>2, <1>6 DEF Inv
  <2>4. QED
    BY <1>3, <1>4, <2>1, <2>2, <2>3 DEF Inv
<1>7. CASE state = "format" /\ Len(todo) = 1
  <2>1. state' = "up" /\ Len(todo') = 0
    BY <1>2, <1>7
  <2>2. todo' = << >>
    BY <1>2, <2>1
  <2>3. Image' = disk'
    <3>1. \A x \in Sector : ~Pending(x)'
      BY <2>2 DEF Pending, PendingIn
    <3>2. QED
      BY <1>3, <3>1 DEF Image, ImageOf, Pending, Typed
  <2>4. Formed(disk') /\ Sane(disk') /\ Agree(disk', Image') /\ Used(disk') = {}
        /\ Used(Image') = Used(disk')
    <3>1. Used(Image) = {}
      BY <1>7 DEF Inv
    <3>2. QED
      BY <1>1, <1>2, <2>3, <3>1 DEF Agree
  <2>5. Writing'
    BY <2>1, <2>4 DEF Writing
  <2>6. QED
    BY <1>3, <1>4, <2>1, <2>2, <2>4, <2>5 DEF Inv
<1>8. QED
  BY <1>1, <1>5, <1>6, <1>7

-----------------------------------------------------------------------------
(***************************************************************************)
(* Crash, and the calls of OpenFile that write nothing                     *)
(***************************************************************************)

\* A step that leaves the disk, what is to be written and the state alone, and
\* opens no file that is not there.
LEMMA SameDisk ==
    ASSUME Inv, UNCHANGED <<disk, todo, state>>, state # "format",
           openFiles' \in Seq(OpenedFile),
           \A h \in 1..Len(openFiles') : \E i \in Used(Image) :
               /\ Table(Image)[i].name = openFiles'[h].name
               /\ HeaderOf(Image, i) = openFiles'[h].hdr
    PROVE  Inv'
<1>1. Image' = Image
  BY DEF Image, ImageOf, Pending, PendingIn
<1>2. Typed'
  BY DEF Inv, Typed
<1>3. Opened'
  BY <1>1 DEF Opened
<1>4. (Creating \/ Removing \/ Writing) => (Creating \/ Removing \/ Writing)'
  <2>1. Creating => Creating'
    BY <1>1 DEF Creating
  <2>2. Removing => Removing'
    BY <1>1 DEF Removing
  <2>3. Writing => Writing'
    BY <1>1 DEF Writing, Overwrites, BytesAt
  <2>4. QED
    BY <2>1, <2>2, <2>3
<1>5. /\ Formed(Image')
      /\ state' # "crashed" => Sane(Image') /\ Exact(Image')
      /\ state' # "format" => Formed(disk') /\ Sane(disk') /\ Agree(disk', Image')
      /\ state' = "crashed" => todo' = << >>
      /\ state' # "format"
  BY <1>1 DEF Inv
<1>6. state' = "up" => (Creating \/ Removing \/ Writing)'
  BY <1>4 DEF Inv
<1>7. QED
  BY <1>2, <1>3, <1>5, <1>6 DEF Inv

\* Nothing to write: the disk is the image (used where a new operation or a
\* restart finds the disk).
LEMMA Idle ==
    ASSUME Typed', Formed(disk'), Sane(disk'), todo' = << >>, state' \in {"up", "crashed"},
           state' = "up" => Exact(disk'),
           \A h \in 1..Len(openFiles') : \E i \in Used(disk') :
               /\ Table(disk')[i].name = openFiles'[h].name
               /\ HeaderOf(disk', i) = openFiles'[h].hdr
    PROVE  Inv'
<1>1. Image' = disk'
  <2>1. \A x \in Sector : ~Pending(x)'
    BY DEF Pending, PendingIn
  <2>2. QED
    BY <2>1 DEF Image, ImageOf, Pending, Typed
<1>2. Opened'
  BY <1>1 DEF Opened
<1>3. Agree(disk', disk')
  BY DEF Agree
<1>4. Writing'
  BY <1>1 DEF Writing
<1>5. QED
  BY <1>1, <1>2, <1>3, <1>4 DEF Inv

\* A crash between two writes leaves a sane disk (Create and Remove write in
\* the right order).
LEMMA CrashKeeps ==
    ASSUME Inv, Crash
    PROVE  Inv'
<1>1. /\ state = "up" /\ todo' = << >> /\ openFiles' = << >> /\ disk' = disk
      /\ state' = IF todo = << >> THEN "up" ELSE "crashed"
  BY DEF Crash
<1>2. Formed(disk') /\ Sane(disk') /\ Typed
  BY <1>1 DEF Inv
<1>3. Typed'
  BY <1>1, <1>2 DEF Typed
<1>4. state' = "up" => Exact(disk')
  <2>1. state' = "up" => todo = << >>
    BY <1>1
  <2>2. todo = << >> => Image = disk
    BY <1>2, ImageIsDisk
  <2>3. QED
    BY <1>1, <2>1, <2>2 DEF Inv
<1>5. QED
  BY <1>1, <1>2, <1>3, <1>4, Idle

\* An OpenFile that is moved is the same file (OpenFile::Seek, Read, Write).
LEMMA Moved ==
    ASSUME openFiles \in Seq(OpenedFile), NEW h \in 1..Len(openFiles), NEW p \in Nat
    PROVE  LET o == [openFiles EXCEPT ![h].seekPosition = p]
           IN  /\ o \in Seq(OpenedFile) /\ Len(o) = Len(openFiles)
               /\ \A k \in 1..Len(openFiles) : /\ o[k].name = openFiles[k].name
                                               /\ o[k].hdr = openFiles[k].hdr
<1> DEFINE o == [openFiles EXCEPT ![h].seekPosition = p]
<1>1. openFiles \in [1..Len(openFiles) -> OpenedFile] /\ Len(openFiles) \in Nat
  OBVIOUS
<1>2. ASSUME NEW k \in 1..Len(openFiles)
      PROVE  /\ o[k] \in OpenedFile /\ o[k].name = openFiles[k].name
             /\ o[k].hdr = openFiles[k].hdr
  <2>1. openFiles[k] \in OpenedFile
    BY <1>1
  <2>2. CASE k = h
    <3>1. o[k] = [openFiles[k] EXCEPT !.seekPosition = p]
      BY <1>1, <2>2
    <3>2. QED
      BY <2>1, <3>1 DEF OpenedFile
  <2>3. CASE k # h
    <3>1. o[k] = openFiles[k]
      BY <1>1, <2>3
    <3>2. QED
      BY <2>1, <3>1
  <2>4. QED
    BY <2>2, <2>3
<1>3. o \in [1..Len(openFiles) -> OpenedFile]
  <2>1. DOMAIN o = 1..Len(openFiles) /\ o = [k \in 1..Len(openFiles) |-> o[k]]
    BY <1>1
  <2>2. QED
    BY <1>2, <2>1
<1>4. o \in Seq(OpenedFile) /\ Len(o) = Len(openFiles)
  <2> HIDE DEF o
  <2>1. QED
    BY <1>1, <1>3
<1>5. QED
  BY <1>2, <1>4

\* What a transfer gets is no more than asked for and ends in the file.
LEMMA GrantedBounds ==
    ASSUME NEW hdr \in FileHeader, NEW num \in Nat, NEW position \in Nat
    PROVE  /\ Granted(hdr, num, position) \in Nat
           /\ Granted(hdr, num, position) <= num
           /\ Granted(hdr, num, position) # 0 =>
                 position + Granted(hdr, num, position) <= hdr.numBytes
<1>1. hdr.numBytes \in Nat
  BY DEF FileHeader
<1>2. QED
  BY <1>1 DEF Granted, FileLength

\* Close, Seek and Read leave the disk and the other open files alone.
LEMMA CloseKeeps ==
    ASSUME Inv, NEW h \in 1..Len(openFiles), Close(h)
    PROVE  Inv'
<1> DEFINE a == SubSeq(openFiles, 1, h - 1)
<1> DEFINE b == SubSeq(openFiles, h + 1, Len(openFiles))
<1>1. /\ openFiles \in Seq(OpenedFile) /\ Opened
      /\ UNCHANGED <<disk, todo, state>> /\ state # "format"
      /\ openFiles' = a \o b
  BY DEF Inv, Typed, Close, MayUse, RemoveAt
<1>2. Len(openFiles) \in Nat /\ h \in Nat /\ h >= 1 /\ h <= Len(openFiles)
  BY <1>1
<1>3. /\ a \in Seq(OpenedFile) /\ Len(a) = h - 1
      /\ \A k \in 1..(h - 1) : a[k] = openFiles[k]
  BY <1>1, <1>2
<1>4. /\ b \in Seq(OpenedFile) /\ Len(b) = Len(openFiles) - h
      /\ \A k \in 1..(Len(openFiles) - h) : b[k] = openFiles[h + k]
  BY <1>1, <1>2, SubSeqProperties
<1> HIDE DEF a, b
<1>5. a \o b \in Seq(OpenedFile)
  BY <1>3, <1>4, ConcatProperties
<1>6. Len(a \o b) = Len(a) + Len(b)
  BY <1>3, <1>4, ConcatProperties
<1>7. ASSUME NEW k \in 1..Len(a \o b) PROVE \E m \in 1..Len(openFiles) : (a \o b)[k] = openFiles[m]
  <2>1. CASE k <= h - 1
    <3>1. k \in 1..Len(a) /\ k \in 1..(h - 1) /\ k \in 1..Len(openFiles)
      BY <1>2, <1>3, <1>6, <2>1
    <3>2. (a \o b)[k] = a[k]
      BY <1>3, <1>4, <1>6, <1>7, <3>1, ConcatProperties
    <3>3. QED
      BY <1>3, <3>1, <3>2
  <2>2. CASE k > h - 1
    <3>1. k - Len(a) \in 1..(Len(openFiles) - h) /\ h + (k - Len(a)) \in 1..Len(openFiles)
      BY <1>2, <1>3, <1>4, <1>6, <2>2
    <3>2. (a \o b)[k] = b[k - Len(a)]
      BY <1>2, <1>3, <1>4, <1>6, <1>7, <2>2, ConcatProperties
    <3>3. QED
      BY <1>4, <3>1, <3>2
  <2>3. QED
    BY <1>2, <1>6, <2>1, <2>2
<1>8. ASSUME NEW k \in 1..Len(openFiles')
      PROVE  \E i \in Used(Image) : /\ Table(Image)[i].name = openFiles'[k].name
                                    /\ HeaderOf(Image, i) = openFiles'[k].hdr
  <2>1. PICK m \in 1..Len(openFiles) : openFiles'[k] = openFiles[m]
    BY <1>1, <1>7
  <2>2. PICK i \in Used(Image) : /\ Table(Image)[i].name = openFiles[m].name
                                 /\ HeaderOf(Image, i) = openFiles[m].hdr
    BY <1>1 DEF Opened
  <2>3. QED
    BY <2>1, <2>2
<1>9. QED
  BY <1>1, <1>5, <1>8, SameDisk

\* The same for a step that only moves one file.
LEMMA MoveKeeps ==
    ASSUME Inv, UNCHANGED <<disk, todo, state>>, state # "format",
           NEW h \in 1..Len(openFiles), NEW p \in Nat,
           openFiles' = [openFiles EXCEPT ![h].seekPosition = p]
    PROVE  Inv'
<1>1. openFiles \in Seq(OpenedFile) /\ Opened
  BY DEF Inv, Typed
<1>2. /\ openFiles' \in Seq(OpenedFile) /\ Len(openFiles') = Len(openFiles)
      /\ \A k \in 1..Len(openFiles) : /\ openFiles'[k].name = openFiles[k].name
                                      /\ openFiles'[k].hdr = openFiles[k].hdr
  BY <1>1, Moved
<1>3. \A k \in 1..Len(openFiles') : \E i \in Used(Image) :
          /\ Table(Image)[i].name = openFiles'[k].name
          /\ HeaderOf(Image, i) = openFiles'[k].hdr
  BY <1>1, <1>2 DEF Opened
<1>4. QED
  BY <1>2, <1>3, SameDisk

\* Seek and Read move one file.
LEMMA SeekKeeps ==
    ASSUME Inv, NEW h \in 1..Len(openFiles), NEW p \in Nat, Seek(h, p)
    PROVE  Inv'
<1>1. UNCHANGED <<disk, todo, state>> /\ state # "format"
      /\ openFiles' = [openFiles EXCEPT ![h].seekPosition = p]
  BY DEF Seek, MayUse
<1>2. QED
  BY <1>1, MoveKeeps

\* Read moves the file on by what it has read.
LEMMA ReadKeeps ==
    ASSUME Inv, NEW h \in 1..Len(openFiles), NEW num \in Nat, Read(h, num)
    PROVE  Inv'
<1> DEFINE f == openFiles[h]
<1>1. openFiles \in Seq(OpenedFile)
  BY DEF Inv, Typed
<1>2. f.hdr \in FileHeader /\ f.seekPosition \in Nat
  <2>1. f \in OpenedFile
    BY <1>1
  <2>2. QED
    BY <2>1 DEF OpenedFile
<1>3. Granted(f.hdr, num, f.seekPosition) \in Nat
  BY <1>2, GrantedBounds
<1>4. PICK p \in Nat : p = f.seekPosition + Granted(f.hdr, num, f.seekPosition)
  BY <1>2, <1>3
<1>5. UNCHANGED <<disk, todo, state>> /\ state # "format"
      /\ openFiles' = [openFiles EXCEPT ![h].seekPosition = p]
  BY <1>4 DEF Read, MayUse
<1>6. QED
  BY <1>5, MoveKeeps

-----------------------------------------------------------------------------
(***************************************************************************)
(* Looking names up                                                        *)
(***************************************************************************)

\* Names are unique, so Directory::FindIndex finds the only entry there is.
LEMMA LookupFinds ==
    ASSUME NEW d, Formed(d), Sane(d), NEW n
    PROVE  /\ \A i \in Used(d) : Table(d)[i].name = n =>
                 /\ FindIndex(Table(d), n) = i
                 /\ Lookup(Table(d), n) = Table(d)[i].sector
                 /\ Lookup(Table(d), n) # -1
           /\ Lookup(Table(d), n) # -1 => \E i \in Used(d) : Table(d)[i].name = n
<1> DEFINE found == {i \in 1..NumDirEntries : Table(d)[i].inUse /\ Table(d)[i].name = n}
<1>1. found = {i \in Used(d) : Table(d)[i].name = n}
  BY DEF Used
<1>2. ASSUME NEW i \in Used(d), Table(d)[i].name = n
      PROVE  /\ FindIndex(Table(d), n) = i
             /\ Lookup(Table(d), n) = Table(d)[i].sector
             /\ Lookup(Table(d), n) # -1
  <2>1. found = {i}
    BY <1>1, <1>2 DEF Sane
  <2>2. i \in 1..NumDirEntries /\ NumDirEntries \in Nat
    BY FileSystemAssumption DEF Used
  <2>3. Min({i}) = i
    BY <2>2 DEF Min
  <2>4. FindIndex(Table(d), n) = i
    BY <2>1, <2>3 DEF FindIndex
  <2>5. Lookup(Table(d), n) = Table(d)[i].sector
    BY <2>2, <2>4 DEF Lookup
  <2>6. Table(d)[i].sector \in Sector /\ NumSectors \in Nat
    BY <2>2, TableTyped, Layout
  <2>7. QED
    BY <2>4, <2>5, <2>6 DEF Sector
<1>3. ASSUME Lookup(Table(d), n) # -1 PROVE \E i \in Used(d) : Table(d)[i].name = n
  <2>1. found # {}
    BY <1>3 DEF Lookup, FindIndex
  <2>2. QED
    BY <1>1, <2>1
<1>4. QED
  BY <1>2, <1>3

\* A file that is opened is in the directory (FileSystem::Open).
LEMMA OpenKeeps ==
    ASSUME Inv, NEW n \in Name, Open(n)
    PROVE  Inv'
<1>1. /\ openFiles \in Seq(OpenedFile) /\ Opened /\ Typed /\ todo = << >>
      /\ UNCHANGED <<disk, todo, state>> /\ state # "format"
      /\ Formed(disk) /\ Sane(disk)
  BY DEF Inv, Typed, Open, MayUse
<1>2. Image = disk
  BY <1>1, ImageIsDisk
<1>3. PICK i \in Used(disk) : Table(disk)[i].name = n
  BY <1>1, Fetched, LookupFinds DEF Open
<1>4. Lookup(FetchDirectory, n) = Table(disk)[i].sector
  BY <1>1, <1>3, Fetched, LookupFinds
<1>5. PICK o : o = OpenFile(n, Lookup(FetchDirectory, n))
  OBVIOUS
<1>6. openFiles' = Append(openFiles, o)
  BY <1>5 DEF Open
<1>7. o.name = n /\ o.hdr = HeaderOf(disk, i) /\ o \in OpenedFile
  <2>1. HeaderOf(disk, i) \in FileHeader
    BY <1>1 DEF Sane, Headed
  <2>2. QED
    BY <1>4, <1>5, <2>1 DEF OpenFile, HeaderAt, HeaderOf, OpenedFile
<1>8. /\ openFiles' \in Seq(OpenedFile)
      /\ \A k \in 1..Len(openFiles') :
            \/ /\ k \in 1..Len(openFiles)
               /\ openFiles'[k] = openFiles[k]
            \/ openFiles'[k] = o
  BY <1>1, <1>6, <1>7
<1>9. ASSUME NEW k \in 1..Len(openFiles')
      PROVE  \E j \in Used(Image) : /\ Table(Image)[j].name = openFiles'[k].name
                                    /\ HeaderOf(Image, j) = openFiles'[k].hdr
  <2>1. CASE k \in 1..Len(openFiles) /\ openFiles'[k] = openFiles[k]
    BY <1>1, <2>1 DEF Opened
  <2>2. CASE openFiles'[k] = o
    BY <1>2, <1>3, <1>7, <2>2
  <2>3. QED
    BY <1>8, <2>1, <2>2
<1>10. QED
  BY <1>1, <1>8, <1>9, SameDisk

-----------------------------------------------------------------------------
(***************************************************************************)
(* Finding clear bits                                                      *)
(***************************************************************************)

\* A set of numbers that is not empty has a least one (BitMap::Find,
\* Directory::Add look for the first).
LEMMA MinOf ==
    ASSUME NEW S, S \subseteq Nat, S # {}
    PROVE  Min(S) \in S /\ \A y \in S : Min(S) <= y
<1> DEFINE Less == {p \in Nat \X Nat : p[1] < p[2]}
<1>1. IsWellFoundedOn(Less, Nat)
  BY NatLessThanWellFounded, Zenon DEF OpToRel
<1>2. PICK x \in S : \A y \in S : ~ (<<y, x>> \in Less)
  <2> HIDE DEF Less
  <2>1. QED
    BY <1>1, WFMin
<1>3. ASSUME NEW y \in S PROVE x <= y
  <2>1. y \in Nat /\ x \in Nat
    OBVIOUS
  <2>2. ~(y < x)
    <3>1. y < x => <<y, x>> \in Less
      BY <2>1
    <3>2. QED
      BY <1>2, <3>1
  <2>3. QED
    BY <2>1, <2>2
<1>4. QED
  BY <1>2, <1>3 DEF Min

\* Induction: a set that contains 0 and with each number the next one contains
\* all natural numbers (used for the sectors that Allocate finds).
LEMMA SetInduction ==
    ASSUME NEW T, 0 \in T, \A n \in Nat : n \in T => n + 1 \in T
    PROVE  \A n \in Nat : n \in T
<1> DEFINE Rest == Nat \ T
<1> SUFFICES ASSUME Rest # {} PROVE FALSE
  OBVIOUS
<1>1. Min(Rest) \in Rest /\ \A y \in Rest : Min(Rest) <= y
  BY MinOf
<1>2. PICK x \in Rest : \A y \in Rest : x <= y
  BY <1>1
<1>3. x # 0 /\ x - 1 \in Nat
  OBVIOUS
<1>4. x - 1 \in T
  BY <1>2, <1>3
<1>5. (x - 1) + 1 \in T
  BY <1>3, <1>4
<1>6. QED
  BY <1>3, <1>5

\* A bit that Find finds was clear, and is marked (BitMap::Find).
LEMMA FindFinds ==
    ASSUME NEW map \in SUBSET Sector, Find(map).bit # -1
    PROVE  /\ Find(map).bit \in Sector \ map
           /\ Find(map).map = map \cup {Find(map).bit}
           /\ \A s \in Sector \ map : Find(map).bit <= s
<1> DEFINE clear == {i \in Sector : ~Test(map, i)}
<1>1. clear # {}
  BY DEF Find
<1>2. Sector \subseteq Nat /\ clear = Sector \ map
  BY Layout DEF Sector, Test
<1>3. Find(map) = [bit |-> Min(clear), map |-> map \cup {Min(clear)}]
  BY <1>1 DEF Find, Mark
<1>4. Min(clear) \in clear /\ \A y \in clear : Min(clear) <= y
  BY <1>1, <1>2, MinOf
<1>5. QED
  BY <1>2, <1>3, <1>4

\* The sectors that a size takes hold that many bytes, and no more than needed
\* when it is a multiple (divRoundUp).
LEMMA RoundedUp ==
    /\ \A size \in Nat : /\ divRoundUp(size, SectorSize) \in Nat
                         /\ size <= divRoundUp(size, SectorSize) * SectorSize
    /\ \A k \in Nat : divRoundUp(k * SectorSize, SectorSize) = k
<1> SectorSize \in Nat \ {0}
  BY FileSystemAssumption
<1>1. ASSUME NEW size \in Nat
      PROVE  /\ divRoundUp(size, SectorSize) \in Nat
             /\ size <= divRoundUp(size, SectorSize) * SectorSize
  <2>1. PICK z \in Nat : z = size + SectorSize - 1
    OBVIOUS
  <2>2. /\ z \div SectorSize \in Nat /\ z % SectorSize \in 0..(SectorSize - 1)
        /\ z = (z \div SectorSize) * SectorSize + (z % SectorSize)
    BY <2>1, DivMod
  <2>3. PICK q \in Nat, r \in 0..(SectorSize - 1) : q = z \div SectorSize /\ z = q * SectorSize + r
    BY <2>2
  <2>4. q * SectorSize \in Nat
    OBVIOUS
  <2>5. size <= q * SectorSize
    BY <2>1, <2>3, <2>4
  <2>6. QED
    BY <2>1, <2>3, <2>5 DEF divRoundUp
<1>2. ASSUME NEW k \in Nat PROVE divRoundUp(k * SectorSize, SectorSize) = k
  <2>1. SectorSize - 1 \in 0..(SectorSize - 1)
    OBVIOUS
  <2>2. (k * SectorSize + (SectorSize - 1)) \div SectorSize = k
    BY <2>1, Divided
  <2>3. k * SectorSize \in Nat
    OBVIOUS
  <2>4. k * SectorSize + SectorSize - 1 = k * SectorSize + (SectorSize - 1)
    BY <2>3
  <2>5. QED
    BY <2>2, <2>4 DEF divRoundUp
<1>3. QED
  BY <1>1, <1>2

\* The values that a loop goes through: Advance gives the next from the last.
Iteration(N, X, x0, Advance, g) ==
    g \in [0..N -> X] /\ g[0] = x0 /\ \A i \in 1..N : g[i] = Advance[g[i - 1]]

\* A function that is defined by going on from its last value exists (the loop
\* of FileHeader::Allocate has this form).
LEMMA Iterates ==
    ASSUME NEW N \in Nat, NEW X, NEW x0 \in X, NEW Advance \in [X -> X]
    PROVE  \E g : Iteration(N, X, x0, Advance, g)
<1> DEFINE Upto(n, g) == \A i \in 0..n : g[i] = IF i = 0 THEN x0 ELSE Advance[g[i - 1]]
<1> DEFINE T == {n \in Nat : n <= N => \E g \in [0..n -> X] : Upto(n, g)}
<1>1. 0 \in T
  <2> DEFINE g == [i \in 0..0 |-> x0]
  <2>1. g \in [0..0 -> X] /\ Upto(0, g)
    OBVIOUS
  <2>2. QED
    BY <2>1
<1>2. ASSUME NEW n \in Nat, n \in T
      PROVE  n + 1 \in T
  <2> SUFFICES ASSUME n + 1 <= N
               PROVE  \E g \in [0..(n + 1) -> X] : Upto(n + 1, g)
    OBVIOUS
  <2>1. PICK h \in [0..n -> X] : Upto(n, h)
    BY <1>2
  <2> DEFINE g == [i \in 0..(n + 1) |-> IF i <= n THEN h[i] ELSE Advance[h[n]]]
  <2>2. g \in [0..(n + 1) -> X]
    OBVIOUS
  <2>3. Upto(n + 1, g)
    <3> SUFFICES ASSUME NEW i \in 0..(n + 1)
                 PROVE  g[i] = IF i = 0 THEN x0 ELSE Advance[g[i - 1]]
      OBVIOUS
    <3>1. CASE i \in 0..n
      <4>1. g[i] = h[i] /\ (i # 0 => i - 1 \in 0..n /\ g[i - 1] = h[i - 1])
        BY <3>1
      <4> HIDE DEF g
      <4>2. QED
        BY <2>1, <3>1, <4>1
    <3>2. CASE i = n + 1
      <4>1. g[n + 1] = Advance[h[n]] /\ g[n] = h[n] /\ n + 1 - 1 = n /\ n + 1 # 0
        OBVIOUS
      <4> HIDE DEF g
      <4>2. QED
        BY <3>2, <4>1
    <3>3. QED
      BY <3>1, <3>2
  <2>4. QED
    BY <2>2, <2>3
<1>3. N \in T
  <2> HIDE DEF T
  <2>1. QED
    BY <1>1, <1>2, SetInduction
<1>4. PICK g \in [0..N -> X] : Upto(N, g)
  BY <1>3
<1>5. g[0] = x0
  <2>1. 0 \in 0..N
    OBVIOUS
  <2>2. QED
    BY <1>4, <2>1
<1>6. ASSUME NEW i \in 1..N PROVE g[i] = Advance[g[i - 1]]
  <2>1. i \in 0..N /\ i # 0
    OBVIOUS
  <2>2. QED
    BY <1>4, <2>1
<1>7. QED
  BY <1>5, <1>6 DEF Iteration

\* One turn of the loop of Allocate, and all turns.
FoundState == [bits : Seq(Int), map : SUBSET Sector]
FoundNext(s) == [bits |-> Append(s.bits, Find(s.map).bit), map |-> Find(s.map).map]
FoundAll(map, n) ==
    CHOOSE found : found = [k \in 0..n |-> IF k = 0 THEN [bits |-> << >>, map |-> map]
                                           ELSE FoundNext(found[k - 1])]

\* FindMany is the last of these.
LEMMA FindManyAll == \A map, n : FindMany(map, n) = FoundAll(map, n)[n]
BY DEF FindMany, FoundAll, FoundNext

\* The loop is well defined: the recursion equation holds.
LEMMA FoundEquation ==
    ASSUME NEW map \in SUBSET Sector, NEW n \in Nat
    PROVE  /\ FoundAll(map, n)[0] = [bits |-> << >>, map |-> map]
           /\ \A k \in 1..n : FoundAll(map, n)[k] = FoundNext(FoundAll(map, n)[k - 1])
<1> DEFINE x0 == [bits |-> << >>, map |-> map]
<1> DEFINE Advance == [s \in FoundState |-> FoundNext(s)]
<1> DEFINE Eq(g) == g = [k \in 0..n |-> IF k = 0 THEN x0 ELSE FoundNext(g[k - 1])]
<1>1. x0 \in FoundState
  BY DEF FoundState
<1>2. ASSUME NEW s \in FoundState PROVE FoundNext(s) \in FoundState
  <2>1. s.bits \in Seq(Int) /\ s.map \in SUBSET Sector
    BY DEF FoundState
  <2>2. Find(s.map).bit \in Int /\ Find(s.map).map \in SUBSET Sector
    <3>1. CASE Find(s.map).bit = -1
      <4>1. CASE {i \in Sector : ~Test(s.map, i)} = {}
        BY <2>1, <4>1 DEF Find
      <4>2. CASE {i \in Sector : ~Test(s.map, i)} # {}
        <5>1. Min({i \in Sector : ~Test(s.map, i)}) \in {i \in Sector : ~Test(s.map, i)}
          BY <4>2, Layout, MinOf DEF Sector
        <5>2. PICK m \in Sector : m = Min({i \in Sector : ~Test(s.map, i)})
          BY <5>1
        <5>3. Find(s.map) = [bit |-> m, map |-> s.map \cup {m}]
          BY <4>2, <5>2 DEF Find, Mark
        <5>4. m \in Int
          BY Layout DEF Sector
        <5>5. QED
          BY <2>1, <5>3, <5>4
      <4>3. QED
        BY <4>1, <4>2
    <3>2. CASE Find(s.map).bit # -1
      BY <2>1, <3>2, FindFinds, Layout DEF Sector
    <3>3. QED
      BY <3>1, <3>2
  <2>3. Append(s.bits, Find(s.map).bit) \in Seq(Int)
    BY <2>1, <2>2
  <2>4. QED
    BY <2>2, <2>3 DEF FoundNext, FoundState
<1>3. Advance \in [FoundState -> FoundState]
  BY <1>2
<1>4. PICK g \in [0..n -> FoundState] : g[0] = x0 /\ \A k \in 1..n : g[k] = Advance[g[k - 1]]
  <2> HIDE DEF Advance, x0
  <2>1. PICK g : Iteration(n, FoundState, x0, Advance, g)
    BY <1>1, <1>3, Iterates
  <2>2. QED
    BY <2>1 DEF Iteration
<1>5. ASSUME NEW k \in 1..n PROVE Advance[g[k - 1]] = FoundNext(g[k - 1])
  <2>1. k - 1 \in 0..n
    OBVIOUS
  <2>2. QED
    BY <1>4, <2>1
<1>6. Eq(g)
  <2> HIDE DEF Advance, x0
  <2>1. ASSUME NEW k \in 0..n PROVE g[k] = IF k = 0 THEN x0 ELSE FoundNext(g[k - 1])
    <3>1. k # 0 => k \in 1..n
      OBVIOUS
    <3>2. QED
      BY <1>4, <1>5, <3>1
  <2>2. QED
    BY <1>4, <2>1
<1>7. Eq(FoundAll(map, n))
  <2> HIDE DEF Advance
  <2>1. QED
    BY <1>6 DEF FoundAll
<1> HIDE DEF Advance
<1>8. 0 \in 0..n /\ \A k \in 1..n : k \in 0..n /\ k # 0
  OBVIOUS
<1>9. QED
  BY <1>7, <1>8

\* What has been found after some turns.
Found(s, map, k) ==
    /\ s.bits \in Seq(Sector) /\ Len(s.bits) = k
    /\ s.map \in SUBSET Sector
    /\ s.map = map \cup Range(s.bits)
    /\ IsInjective(s.bits)
    /\ Range(s.bits) \cap map = {}

\* One more bit.
LEMMA FoundOneMore ==
    ASSUME NEW s, NEW map \in SUBSET Sector, NEW k \in Nat, Found(s, map, k),
           Find(s.map).bit # -1
    PROVE  Found(FoundNext(s), map, k + 1)
<1>1. PICK b : b = Find(s.map).bit
  OBVIOUS
<1>2. b \in Sector /\ b \notin s.map /\ Find(s.map).map = s.map \cup {b}
  BY <1>1, FindFinds DEF Found
<1>3. PICK q : q = Append(s.bits, b)
  OBVIOUS
<1>4. /\ q \in Seq(Sector) /\ Len(q) = k + 1 /\ q[k + 1] = b
      /\ \A i \in 1..k : q[i] = s.bits[i]
  BY <1>2, <1>3 DEF Found
<1>5. ASSUME NEW x PROVE x \in Range(q) <=> x \in Range(s.bits) \/ x = b
  <2>1. x \in Range(q) <=> \E i \in 1..(k + 1) : x = q[i]
    BY <1>4 DEF Range
  <2>2. x \in Range(s.bits) <=> \E i \in 1..k : x = s.bits[i]
    BY DEF Found, Range
  <2>3. QED
    BY <1>4, <2>1, <2>2
<1>6. Range(q) = Range(s.bits) \cup {b}
  BY <1>5
<1>7. IsInjective(q)
  <2>1. \A i, j \in 1..k : s.bits[i] = s.bits[j] => i = j
    BY DEF Found, IsInjective
  <2>2. \A i \in 1..k : s.bits[i] # b
    BY <1>2 DEF Found, Range
  <2>3. \A i, j \in 1..(k + 1) : q[i] = q[j] => i = j
    BY <1>4, <2>1, <2>2
  <2>4. DOMAIN q = 1..(k + 1)
    BY <1>4
  <2>5. QED
    BY <2>3, <2>4 DEF IsInjective
<1>8. FoundNext(s) = [bits |-> q, map |-> s.map \cup {b}]
  BY <1>1, <1>2, <1>3 DEF FoundNext
<1>9. Found(FoundNext(s), map, k + 1)
  BY <1>2, <1>4, <1>6, <1>7, <1>8 DEF Found
<1>10. QED
  BY <1>9

\* As long as enough bits are clear each turn finds a new one
\* (FileHeader::Allocate asks for NumClear first).
LEMMA FindManyFinds ==
    ASSUME NEW map \in SUBSET Sector, NEW n \in Nat, n <= NumClear(map)
    PROVE  Found(FindMany(map, n), map, n)
<1> DEFINE all == FoundAll(map, n)
<1> DEFINE T == {k \in Nat : k <= n => /\ Found(all[k], map, k)
                                       /\ Cardinality(Sector \ all[k].map) = NumClear(map) - k}
<1>1. /\ all[0] = [bits |-> << >>, map |-> map]
      /\ \A k \in 1..n : all[k] = FoundNext(all[k - 1])
  BY FoundEquation
<1>2. IsFiniteSet(Sector)
  BY Layout, FS_Interval DEF Sector
<1>3. NumClear(map) = Cardinality(Sector \ map) /\ NumClear(map) \in Nat
  <2>1. {i \in Sector : ~Test(map, i)} = Sector \ map
    BY DEF Test
  <2>2. IsFiniteSet(Sector \ map)
    BY <1>2, FS_Subset
  <2>3. QED
    BY <2>1, <2>2, FS_CardinalityType DEF NumClear
<1> HIDE DEF all
<1>4. 0 \in T
  <2>1. all[0].bits = << >> /\ all[0].map = map
    BY <1>1
  <2>2. Range(<< >>) = {} /\ IsInjective(<< >>)
    BY DEF Range, IsInjective
  <2>3. << >> \in Seq(Sector) /\ Len(<< >>) = 0
    OBVIOUS
  <2>4. Found(all[0], map, 0)
    BY <2>1, <2>2, <2>3 DEF Found
  <2>5. Cardinality(Sector \ all[0].map) = NumClear(map)
    BY <1>3, <2>1
  <2>6. NumClear(map) - 0 = NumClear(map)
    BY <1>3
  <2>7. QED
    BY <2>4, <2>5, <2>6
<1>5. ASSUME NEW k \in Nat, k \in T PROVE k + 1 \in T
  <2> SUFFICES ASSUME k + 1 <= n
               PROVE  /\ Found(all[k + 1], map, k + 1)
                      /\ Cardinality(Sector \ all[k + 1].map) = NumClear(map) - (k + 1)
    OBVIOUS
  <2>1. Found(all[k], map, k) /\ Cardinality(Sector \ all[k].map) = NumClear(map) - k
    BY <1>5
  <2>2. all[k + 1] = FoundNext(all[k])
    <3>1. k + 1 \in 1..n /\ (k + 1) - 1 = k
      OBVIOUS
    <3>2. QED
      BY <1>1, <3>1
  <2> DEFINE M == all[k].map
  <2>3. M \in SUBSET Sector
    BY <2>1 DEF Found
  <2>4. Find(M).bit # -1
    <3>1. Sector \ M # {}
      <4>1. Cardinality(Sector \ M) # 0
        BY <1>3, <2>1
      <4>2. QED
        BY <4>1, FS_EmptySet
    <3>2. {i \in Sector : ~Test(M, i)} = Sector \ M
      BY DEF Test
    <3>3. Find(M).bit = Min(Sector \ M)
      BY <3>1, <3>2 DEF Find
    <3>4. Min(Sector \ M) \in Sector \ M
      <4>1. Sector \ M \subseteq Nat
        BY Layout DEF Sector
      <4>2. QED
        BY <3>1, <4>1, MinOf
    <3>5. QED
      BY <3>3, <3>4, Layout DEF Sector
  <2>5. Found(all[k + 1], map, k + 1)
    BY <2>1, <2>2, <2>4, FoundOneMore
  <2>6. PICK b \in Sector \ M : all[k + 1].map = M \cup {b}
    BY <2>2, <2>3, <2>4, FindFinds DEF FoundNext
  <2>7. Sector \ all[k + 1].map = (Sector \ M) \ {b}
    BY <2>6
  <2>8. Cardinality((Sector \ M) \ {b}) = Cardinality(Sector \ M) - 1
    BY <1>2, <2>6, FS_Subset, FS_RemoveElement
  <2>9. Cardinality(Sector \ all[k + 1].map) = NumClear(map) - (k + 1)
    <3>1. Cardinality(Sector \ all[k + 1].map) = Cardinality(Sector \ M) - 1
      BY <2>7, <2>8
    <3>2. (NumClear(map) - k) - 1 = NumClear(map) - (k + 1)
      BY <1>3
    <3>3. QED
      BY <2>1, <3>1, <3>2
  <2>10. QED
    BY <2>5, <2>9
<1>6. n \in T
  <2> HIDE DEF T
  <2>1. QED
    BY <1>4, <1>5, SetInduction
<1>7. QED
  BY <1>6, FindManyAll DEF all

\* On a disk that is in use up to some sector the next ones are found
\* (FileSystem::FileSystem, with format).
LEMMA FindManyNext ==
    ASSUME NEW m \in Nat, NEW n \in Nat, m + n <= NumSectors
    PROVE  /\ Found(FindMany(0..(m - 1), n), 0..(m - 1), n)
           /\ FindMany(0..(m - 1), n).map = 0..(m + n - 1)
<1> DEFINE map == 0..(m - 1)
<1> DEFINE all == FoundAll(map, n)
<1> DEFINE T == {k \in Nat : k <= n => Found(all[k], map, k) /\ all[k].map = 0..(m + k - 1)}
<1>1. map \in SUBSET Sector /\ NumSectors \in Nat
  BY Layout DEF Sector
<1>2. /\ all[0] = [bits |-> << >>, map |-> map]
      /\ \A k \in 1..n : all[k] = FoundNext(all[k - 1])
  BY <1>1, FoundEquation
<1> HIDE DEF all
<1>3. 0 \in T
  <2>1. all[0].bits = << >> /\ all[0].map = map
    BY <1>2
  <2>2. Range(<< >>) = {} /\ IsInjective(<< >>)
    BY DEF Range, IsInjective
  <2>3. << >> \in Seq(Sector) /\ Len(<< >>) = 0
    OBVIOUS
  <2>4. Found(all[0], map, 0)
    BY <1>1, <2>1, <2>2, <2>3 DEF Found
  <2>5. QED
    BY <2>1, <2>4
<1>4. ASSUME NEW k \in Nat, k \in T PROVE k + 1 \in T
  <2> SUFFICES ASSUME k + 1 <= n
               PROVE  Found(all[k + 1], map, k + 1) /\ all[k + 1].map = 0..(m + (k + 1) - 1)
    OBVIOUS
  <2>1. Found(all[k], map, k) /\ all[k].map = 0..(m + k - 1)
    BY <1>4
  <2>2. all[k + 1] = FoundNext(all[k])
    <3>1. k + 1 \in 1..n /\ (k + 1) - 1 = k
      OBVIOUS
    <3>2. QED
      BY <1>2, <3>1
  <2> DEFINE M == all[k].map
  <2>3. M \in SUBSET Sector /\ m + k \in Sector \ M
    BY <1>1, <2>1 DEF Found, Sector
  <2>4. Find(M).bit # -1
    <3>1. {i \in Sector : ~Test(M, i)} = Sector \ M
      BY DEF Test
    <3>2. Find(M).bit = Min(Sector \ M)
      BY <2>3, <3>1 DEF Find
    <3>3. Min(Sector \ M) \in Sector \ M
      BY <2>3, MinOf, <1>1 DEF Sector
    <3>4. QED
      BY <1>1, <3>2, <3>3 DEF Sector
  <2>5. Found(all[k + 1], map, k + 1)
    BY <1>1, <2>1, <2>2, <2>4, FoundOneMore
  <2>6. PICK b : b = Find(M).bit
    OBVIOUS
  <2>7. b \in Sector \ M /\ b <= m + k /\ all[k + 1].map = M \cup {b}
    BY <2>2, <2>3, <2>4, <2>6, FindFinds DEF FoundNext
  <2>8. b = m + k
    BY <1>1, <2>1, <2>7 DEF Sector
  <2>9. 0..(m + k - 1) \cup {m + k} = 0..(m + (k + 1) - 1)
    OBVIOUS
  <2>10. QED
    BY <2>1, <2>5, <2>7, <2>8, <2>9
<1>5. n \in T
  <2> HIDE DEF T
  <2>1. QED
    BY <1>3, <1>4, SetInduction
<1>6. QED
  BY <1>5, FindManyAll DEF all

-----------------------------------------------------------------------------
(***************************************************************************)
(* The writes of an operation                                              *)
(***************************************************************************)
Distinct(t) == \A k, m \in 1..Len(t) : t[k].sector = t[m].sector => k = m
Writes(t, s, c) == \E k \in 1..Len(t) : t[k] = [sector |-> s, to |-> c]

MapOf(map) == [kind |-> "map", map |-> map]
DirPart(table, k) == [kind |-> "dir", entries |-> [i \in Part(k) |-> table[i]]]

\* One sector is written (FileHeader::WriteBack, BitMap::WriteBack).
LEMMA OneWrite ==
    ASSUME NEW s \in Sector, NEW c \in Contents
    PROVE  LET t == <<[sector |-> s, to |-> c]>>
           IN  t \in Seq(WriteTo) /\ Len(t) = 1 /\ t[1].sector = s /\ t[1].to = c
               /\ Distinct(t) /\ t[1] = [sector |-> s, to |-> c]
<1> DEFINE w == [sector |-> s, to |-> c]
<1>1. w \in WriteTo /\ w.sector = s /\ w.to = c
  BY DEF WriteTo
<1> HIDE DEF w
<1>2. <<w>> \in Seq(WriteTo) /\ Len(<<w>>) = 1 /\ <<w>>[1] = w
  BY <1>1
<1>3. Distinct(<<w>>)
  BY <1>2 DEF Distinct
<1>4. QED
  BY <1>1, <1>2, <1>3 DEF w

\* A free map and the parts of a directory are what a sector can hold.
LEMMA SystemContents ==
    /\ \A map \in SUBSET Sector : MapOf(map) \in MapSector /\ MapOf(map) \in Contents
    /\ \A table \in [1..NumDirEntries -> Entry] : \A k \in 1..NumDirSectors :
          DirPart(table, k) \in DirSector(k) /\ DirPart(table, k) \in Contents
<1>1. ASSUME NEW map \in SUBSET Sector PROVE MapOf(map) \in MapSector
  BY DEF MapOf, MapSector
<1>2. ASSUME NEW table \in [1..NumDirEntries -> Entry], NEW k \in 1..NumDirSectors
      PROVE  DirPart(table, k) \in DirSector(k)
  <2>1. [i \in Part(k) |-> table[i]] \in [Part(k) -> Entry]
    BY DEF Part
  <2>2. QED
    BY <2>1 DEF DirPart, DirSector
<1>3. QED
  BY <1>1, <1>2 DEF Contents

\* The directory is written part by part (Directory::WriteBack).
LEMMA DirectoryWrites ==
    ASSUME NEW table \in [1..NumDirEntries -> Entry]
    PROVE  LET t == WriteDirectory(table)
           IN  /\ t \in Seq(WriteTo) /\ Len(t) = NumDirSectors /\ Distinct(t)
               /\ \A k \in 1..NumDirSectors :
                     t[k] = [sector |-> DirData[k], to |-> DirPart(table, k)]
<1> DEFINE t == WriteDirectory(table)
<1>1. t = [k \in 1..NumDirSectors |-> [sector |-> DirData[k], to |-> DirPart(table, k)]]
  BY DEF WriteDirectory, DirPart, Part, PartOf
<1>2. ASSUME NEW k \in 1..NumDirSectors
      PROVE  /\ t[k] = [sector |-> DirData[k], to |-> DirPart(table, k)]
             /\ t[k] \in WriteTo
  <2>1. DirData[k] \in Sector /\ DirPart(table, k) \in Contents
    BY Layout, SystemContents
  <2>2. QED
    BY <1>1, <2>1 DEF WriteTo
<1>3. NumDirSectors \in Nat
  BY DirParts
<1>4. t \in Seq(WriteTo) /\ Len(t) = NumDirSectors
  <2>1. t \in [1..NumDirSectors -> WriteTo]
    <3>1. DOMAIN t = 1..NumDirSectors /\ t = [k \in 1..NumDirSectors |-> t[k]]
      BY <1>1
    <3>2. QED
      BY <1>2, <3>1
  <2> HIDE DEF t
  <2>2. QED
    BY <1>3, <2>1
<1>5. Distinct(t)
  <2>1. \A k \in 1..Len(t) : t[k].sector = DirData[k]
    BY <1>2, <1>4
  <2>2. \A k, m \in 1..Len(t) : DirData[k] = DirData[m] => k = m
    BY <1>4, Layout
  <2> HIDE DEF t
  <2>3. QED
    BY <2>1, <2>2 DEF Distinct
<1>6. QED
  BY <1>2, <1>4, <1>5

\* Writes one after the other.
LEMMA Joined ==
    ASSUME NEW a \in Seq(WriteTo), NEW b \in Seq(WriteTo), Distinct(a), Distinct(b),
           \A k \in 1..Len(a) : \A m \in 1..Len(b) : a[k].sector # b[m].sector
    PROVE  LET t == a \o b
           IN  /\ t \in Seq(WriteTo) /\ Len(t) = Len(a) + Len(b) /\ Distinct(t)
               /\ \A k \in 1..Len(a) : k \in 1..Len(t) /\ t[k] = a[k]
               /\ \A m \in 1..Len(b) : Len(a) + m \in 1..Len(t) /\ t[Len(a) + m] = b[m]
               /\ \A k \in 1..Len(t) : \/ k \in 1..Len(a)
                                       \/ \E m \in 1..Len(b) : k = Len(a) + m
<1> DEFINE t == a \o b
<1>1. t \in Seq(WriteTo) /\ Len(t) = Len(a) + Len(b) /\ Len(a) \in Nat /\ Len(b) \in Nat
  BY ConcatProperties
<1>2. ASSUME NEW k \in 1..Len(a) PROVE k \in 1..Len(t) /\ t[k] = a[k]
  BY <1>1, ConcatProperties
<1>3. ASSUME NEW m \in 1..Len(b) PROVE Len(a) + m \in 1..Len(t) /\ t[Len(a) + m] = b[m]
  <2>1. Len(a) + m \in 1..(Len(a) + Len(b)) /\ Len(a) + m > Len(a) /\ (Len(a) + m) - Len(a) = m
    BY <1>1
  <2>2. QED
    BY <1>1, <2>1, ConcatProperties
<1>4. ASSUME NEW k \in 1..Len(t)
      PROVE  k \in 1..Len(a) \/ \E m \in 1..Len(b) : k = Len(a) + m
  <2>1. CASE k > Len(a)
    <3>1. PICK la, lb \in Nat : la = Len(a) /\ lb = Len(b)
      BY <1>1
    <3>2. k \in 1..(la + lb) /\ k > la
      BY <1>1, <2>1, <3>1
    <3>3. k - la \in 1..lb /\ k = la + (k - la)
      BY <3>2
    <3>4. QED
      BY <3>1, <3>3
  <2>2. CASE k <= Len(a)
    BY <1>1, <2>2
  <2>3. QED
    BY <1>1, <2>1, <2>2
<1> HIDE DEF t
<1>5. Distinct(t)
  <2> SUFFICES ASSUME NEW k \in 1..Len(t), NEW m \in 1..Len(t), t[k].sector = t[m].sector
               PROVE  k = m
    BY DEF Distinct
  <2>1. CASE k \in 1..Len(a) /\ m \in 1..Len(a)
    BY <1>2, <2>1 DEF Distinct
  <2>2. CASE \E x, y \in 1..Len(b) : k = Len(a) + x /\ m = Len(a) + y
    <3>1. PICK x, y \in 1..Len(b) : k = Len(a) + x /\ m = Len(a) + y
      BY <2>2
    <3>2. b[x].sector = b[y].sector
      BY <1>3, <3>1
    <3>3. x = y
      BY <3>2 DEF Distinct
    <3>4. QED
      BY <3>1, <3>3
  <2>3. CASE k \in 1..Len(a) /\ \E y \in 1..Len(b) : m = Len(a) + y
    BY <1>2, <1>3, <2>3
  <2>4. CASE m \in 1..Len(a) /\ \E x \in 1..Len(b) : k = Len(a) + x
    BY <1>2, <1>3, <2>4
  <2>5. QED
    BY <1>4, <2>1, <2>2, <2>3, <2>4
<1>6. QED
  BY <1>1, <1>2, <1>3, <1>4, <1>5 DEF t

\* When the free map and the directory have been written they are on the disk.
LEMMA Flushed ==
    ASSUME NEW d \in [Sector -> Contents], NEW t \in Seq(WriteTo), Distinct(t),
           NEW map \in SUBSET Sector, NEW table \in [1..NumDirEntries -> Entry],
           Writes(t, FreeMapData, MapOf(map)),
           \A k \in 1..NumDirSectors : Writes(t, DirData[k], DirPart(table, k))
    PROVE  /\ Formed(ImageOf(d, t))
           /\ Table(ImageOf(d, t)) = table
           /\ ImageOf(d, t)[FreeMapData].map = map
<1> DEFINE e == ImageOf(d, t)
<1>1. /\ e \in [Sector -> Contents]
      /\ \A k \in 1..Len(t) : e[t[k].sector] = t[k].to
  BY Shown DEF Distinct
<1>2. ASSUME NEW s, NEW c, Writes(t, s, c) PROVE e[s] = c
  BY <1>1, <1>2 DEF Writes
<1>3. e[FreeMapData] = MapOf(map)
  BY <1>2
<1>4. \A k \in 1..NumDirSectors : e[DirData[k]] = DirPart(table, k)
  BY <1>2
<1> HIDE DEF e
<1>5. Formed(e)
  BY <1>1, <1>3, <1>4, SystemContents DEF Formed
<1>6. ASSUME NEW i \in 1..NumDirEntries PROVE Table(e)[i] = table[i]
  <2>1. PartOf(i) \in 1..NumDirSectors /\ i \in Part(PartOf(i))
    BY DirParts DEF Part
  <2>2. e[DirData[PartOf(i)]] = DirPart(table, PartOf(i))
    BY <1>4, <2>1
  <2>3. QED
    BY <2>1, <2>2 DEF Table, DirPart
<1>7. Table(e) = table
  BY <1>6 DEF Table
<1>8. QED
  BY <1>3, <1>5, <1>7 DEF MapOf, e

\* The sectors and contents of writes one after the other.
LEMMA JoinedShows ==
    ASSUME NEW a \in Seq(WriteTo), NEW b \in Seq(WriteTo), Distinct(a), Distinct(b),
           \A s : ~(PendingIn(a, s) /\ PendingIn(b, s))
    PROVE  LET t == a \o b
           IN  /\ t \in Seq(WriteTo) /\ Len(t) = Len(a) + Len(b) /\ Distinct(t)
               /\ \A s : PendingIn(t, s) => PendingIn(a, s) \/ PendingIn(b, s)
               /\ \A s, c : Writes(a, s, c) \/ Writes(b, s, c) => Writes(t, s, c)
<1> DEFINE t == a \o b
<1>1. \A k \in 1..Len(a) : \A m \in 1..Len(b) : a[k].sector # b[m].sector
  BY DEF PendingIn
<1>2. /\ t \in Seq(WriteTo) /\ Len(t) = Len(a) + Len(b) /\ Distinct(t)
      /\ \A k \in 1..Len(a) : k \in 1..Len(t) /\ t[k] = a[k]
      /\ \A m \in 1..Len(b) : Len(a) + m \in 1..Len(t) /\ t[Len(a) + m] = b[m]
      /\ \A k \in 1..Len(t) : \/ k \in 1..Len(a)
                              \/ \E m \in 1..Len(b) : k = Len(a) + m
  BY <1>1, Joined
<1> HIDE DEF t
<1>3. ASSUME NEW s, PendingIn(t, s) PROVE PendingIn(a, s) \/ PendingIn(b, s)
  <2>1. PICK k \in 1..Len(t) : t[k].sector = s
    BY <1>3 DEF PendingIn
  <2>2. CASE k \in 1..Len(a)
    <3>1. a[k].sector = s
      BY <1>2, <2>1, <2>2
    <3>2. QED
      BY <2>2, <3>1 DEF PendingIn
  <2>3. CASE \E m \in 1..Len(b) : k = Len(a) + m
    <3>1. PICK m \in 1..Len(b) : k = Len(a) + m
      BY <2>3
    <3>2. b[m].sector = s
      BY <1>2, <2>1, <3>1
    <3>3. QED
      BY <3>2 DEF PendingIn
  <2>4. QED
    BY <1>2, <2>2, <2>3
<1>4. ASSUME NEW s, NEW c, Writes(a, s, c) \/ Writes(b, s, c) PROVE Writes(t, s, c)
  <2>1. CASE Writes(a, s, c)
    BY <1>2, <2>1 DEF Writes
  <2>2. CASE Writes(b, s, c)
    <3>1. PICK m \in 1..Len(b) : b[m] = [sector |-> s, to |-> c]
      BY <2>2 DEF Writes
    <3>2. QED
      BY <1>2, <3>1 DEF Writes
  <2>3. QED
    BY <1>4, <2>1, <2>2
<1>5. QED
  BY <1>2, <1>3, <1>4 DEF t

\* One write, seen the same way.
LEMMA OneShows ==
    ASSUME NEW s \in Sector, NEW c \in Contents
    PROVE  LET t == <<[sector |-> s, to |-> c]>>
           IN  /\ t \in Seq(WriteTo) /\ Len(t) = 1 /\ Distinct(t)
               /\ t[1] = [sector |-> s, to |-> c]
               /\ \A x : PendingIn(t, x) => x = s
               /\ Writes(t, s, c)
<1> DEFINE t == <<[sector |-> s, to |-> c]>>
<1>1. /\ t \in Seq(WriteTo) /\ Len(t) = 1 /\ Distinct(t)
      /\ t[1] = [sector |-> s, to |-> c] /\ t[1].sector = s
  BY OneWrite
<1> HIDE DEF t
<1>2. \A k \in 1..Len(t) : k = 1
  BY <1>1
<1>3. \A x : PendingIn(t, x) => x = s
  BY <1>1, <1>2 DEF PendingIn
<1>4. 1 \in 1..Len(t)
  BY <1>1
<1>5. Writes(t, s, c)
  BY <1>1, <1>4 DEF Writes
<1>6. QED
  BY <1>1, <1>3, <1>5 DEF t

\* The directory, seen the same way.
LEMMA DirectoryShows ==
    ASSUME NEW table \in [1..NumDirEntries -> Entry]
    PROVE  LET t == WriteDirectory(table)
           IN  /\ t \in Seq(WriteTo) /\ Len(t) = NumDirSectors /\ Distinct(t)
               /\ \A x : PendingIn(t, x) =>
                     x \in SystemSectors \ {FreeMapSector, DirectorySector, FreeMapData}
               /\ \A k \in 1..NumDirSectors : Writes(t, DirData[k], DirPart(table, k))
<1> DEFINE t == WriteDirectory(table)
<1>1. /\ t \in Seq(WriteTo) /\ Len(t) = NumDirSectors /\ Distinct(t)
      /\ \A k \in 1..NumDirSectors : t[k] = [sector |-> DirData[k], to |-> DirPart(table, k)]
  BY DirectoryWrites
<1> HIDE DEF t
<1>2. \A x : PendingIn(t, x) => x \in SystemSectors \ {FreeMapSector, DirectorySector, FreeMapData}
  BY <1>1, Layout DEF PendingIn
<1>3. \A k \in 1..NumDirSectors : Writes(t, DirData[k], DirPart(table, k))
  BY <1>1 DEF Writes
<1>4. QED
  BY <1>1, <1>2, <1>3 DEF t

-----------------------------------------------------------------------------
(***************************************************************************)
(* Formatting                                                              *)
(***************************************************************************)

\* The sectors of the file system are the first ones there are
\* (FileSystem::FileSystem, with format).
LEMMA FormatAllocates ==
    LET mapHdr == Allocate({FreeMapSector, DirectorySector}, SectorSize)
        dirHdr == Allocate(mapHdr.map, NumDirSectors * SectorSize)
    IN  /\ mapHdr.bits \in Seq(Sector) /\ dirHdr.bits \in Seq(Sector)
        /\ dirHdr.map = SystemSectors
<1> DEFINE mapHdr == Allocate({FreeMapSector, DirectorySector}, SectorSize)
<1> DEFINE dirHdr == Allocate(mapHdr.map, NumDirSectors * SectorSize)
<1>1. NumDirSectors \in Nat /\ NumSectors \in Nat /\ NumDirSectors + 3 <= NumSectors
      /\ SectorSize \in Nat
  BY DirParts, Layout
<1>2. divRoundUp(SectorSize, SectorSize) = 1
  <2>1. divRoundUp(1 * SectorSize, SectorSize) = 1
    BY RoundedUp
  <2>2. 1 * SectorSize = SectorSize
    BY <1>1
  <2>3. QED
    BY <2>1, <2>2
<1>3. divRoundUp(NumDirSectors * SectorSize, SectorSize) = NumDirSectors
  BY <1>1, RoundedUp
<1>4. {FreeMapSector, DirectorySector} = 0..(2 - 1)
  BY DEF FreeMapSector, DirectorySector
<1>5. /\ Found(FindMany(0..(2 - 1), 1), 0..(2 - 1), 1)
      /\ FindMany(0..(2 - 1), 1).map = 0..(2 + 1 - 1)
  <2>1. 2 \in Nat /\ 1 \in Nat /\ 2 + 1 <= NumSectors
    BY <1>1
  <2>2. QED
    BY <2>1, FindManyNext
<1>6. mapHdr = FindMany(0..(2 - 1), 1)
  BY <1>2, <1>4 DEF Allocate
<1>7. mapHdr.map = 0..(3 - 1)
  BY <1>5, <1>6
<1>8. /\ Found(FindMany(0..(3 - 1), NumDirSectors), 0..(3 - 1), NumDirSectors)
      /\ FindMany(0..(3 - 1), NumDirSectors).map = 0..(3 + NumDirSectors - 1)
  <2>1. 3 \in Nat /\ 3 + NumDirSectors <= NumSectors
    BY <1>1
  <2>2. QED
    BY <1>1, <2>1, FindManyNext
<1> HIDE DEF mapHdr
<1>9. dirHdr = FindMany(0..(3 - 1), NumDirSectors)
  BY <1>3, <1>7 DEF Allocate
<1> HIDE DEF dirHdr
<1>10. mapHdr.bits \in Seq(Sector) /\ dirHdr.bits \in Seq(Sector)
  BY <1>5, <1>6, <1>8, <1>9 DEF Found
<1>11. dirHdr.map = SystemSectors
  BY <1>1, <1>8, <1>9, Layout
<1>12. QED
  BY <1>10, <1>11 DEF mapHdr, dirHdr

\* A disk that is about to be formatted.
LEMMA InitInv == Init => Inv
<1> SUFFICES ASSUME Init PROVE Inv
  OBVIOUS
<1> DEFINE mapHdr == Allocate({FreeMapSector, DirectorySector}, SectorSize)
<1> DEFINE dirHdr == Allocate(mapHdr.map, NumDirSectors * SectorSize)
<1> DEFINE H0 == Header(SectorSize, mapHdr.bits)
<1> DEFINE H1 == Header(NumDirSectors * SectorSize, dirHdr.bits)
<1> DEFINE table == [i \in 1..NumDirEntries |-> Unused]
<1> DEFINE a == <<[sector |-> FreeMapSector, to |-> H0]>>
<1> DEFINE b == <<[sector |-> DirectorySector, to |-> H1]>>
<1> DEFINE c == <<[sector |-> FreeMapData, to |-> MapOf(SystemSectors)]>>
<1> DEFINE t == WriteDirectory(table)
<1>1. /\ mapHdr.bits \in Seq(Sector) /\ dirHdr.bits \in Seq(Sector)
      /\ dirHdr.map = SystemSectors
  BY FormatAllocates
<1>2. todo = a \o b \o c \o t
  BY <1>1 DEF Init, WriteHeader, WriteFreeMap, MapOf
<1>3. disk = [s \in Sector |-> Blank] /\ openFiles = << >> /\ state = "format"
  BY DEF Init
<1> HIDE DEF mapHdr, dirHdr
<1>4. NumDirSectors \in Nat \ {0} /\ SectorSize \in Nat /\ NumDirSectors * SectorSize \in Nat
  <2>1. NumDirSectors \in Nat \ {0} /\ SectorSize \in Nat
    BY DirParts, Layout
  <2>2. QED
    BY <2>1
<1>5. H0 \in Contents /\ H1 \in Contents
  <2>1. H0 \in FileHeader /\ H1 \in FileHeader
    BY <1>1, <1>4 DEF Header, FileHeader
  <2>2. QED
    BY <2>1 DEF Contents
<1> HIDE DEF H0, H1
<1>6. 0 \in Sector /\ SystemSectors \in SUBSET Sector /\ FreeMapSector \in Sector
      /\ DirectorySector \in Sector /\ FreeMapData \in Sector
      /\ FreeMapSector # DirectorySector /\ FreeMapSector # FreeMapData
      /\ DirectorySector # FreeMapData
  BY Layout, <1>4 DEF SystemSectors, FreeMapSector, DirectorySector, FreeMapData, Sector
<1>7. table \in [1..NumDirEntries -> Entry]
  BY <1>6 DEF Unused, DirectoryEntry, Entry
<1>8. MapOf(SystemSectors) \in Contents
  BY <1>6, SystemContents
<1>9. /\ a \in Seq(WriteTo) /\ Distinct(a) /\ \A x : PendingIn(a, x) => x = FreeMapSector
      /\ Len(a) = 1
  BY <1>5, <1>6, OneShows
<1>10. /\ b \in Seq(WriteTo) /\ Distinct(b) /\ \A x : PendingIn(b, x) => x = DirectorySector
       /\ Len(b) = 1
  BY <1>5, <1>6, OneShows
<1>11. /\ c \in Seq(WriteTo) /\ Distinct(c) /\ \A x : PendingIn(c, x) => x = FreeMapData
       /\ Writes(c, FreeMapData, MapOf(SystemSectors)) /\ Len(c) = 1
  BY <1>6, <1>8, OneShows
<1>12. /\ t \in Seq(WriteTo) /\ Distinct(t) /\ Len(t) = NumDirSectors
       /\ \A x : PendingIn(t, x) =>
             x \in SystemSectors \ {FreeMapSector, DirectorySector, FreeMapData}
       /\ \A k \in 1..NumDirSectors : Writes(t, DirData[k], DirPart(table, k))
  BY <1>7, DirectoryShows
<1> HIDE DEF a, b, c, t, table
<1>13. /\ a \o b \in Seq(WriteTo) /\ Distinct(a \o b) /\ Len(a \o b) = 2
       /\ \A x : PendingIn(a \o b, x) => x \in {FreeMapSector, DirectorySector}
  <2>1. \A x : ~(PendingIn(a, x) /\ PendingIn(b, x))
    BY <1>6, <1>9, <1>10
  <2>2. /\ a \o b \in Seq(WriteTo) /\ Len(a \o b) = Len(a) + Len(b) /\ Distinct(a \o b)
        /\ \A x : PendingIn(a \o b, x) => PendingIn(a, x) \/ PendingIn(b, x)
    <3>1. a \in Seq(WriteTo) /\ b \in Seq(WriteTo) /\ Distinct(a) /\ Distinct(b)
      BY <1>9, <1>10
    <3>2. QED
      BY <2>1, <3>1, JoinedShows
  <2>3. QED
    BY <1>9, <1>10, <2>2
<1> DEFINE ab == a \o b
<1> HIDE DEF ab
<1>14. /\ ab \o c \in Seq(WriteTo) /\ Distinct(ab \o c) /\ Len(ab \o c) = 3
       /\ \A x : PendingIn(ab \o c, x) => x \in {FreeMapSector, DirectorySector, FreeMapData}
       /\ Writes(ab \o c, FreeMapData, MapOf(SystemSectors))
  <2>1. ab \in Seq(WriteTo) /\ Distinct(ab) /\ Len(ab) = 2
        /\ \A x : PendingIn(ab, x) => x \in {FreeMapSector, DirectorySector}
    BY <1>13 DEF ab
  <2>2. \A x : ~(PendingIn(ab, x) /\ PendingIn(c, x))
    BY <1>6, <1>11, <2>1
  <2>3. /\ ab \o c \in Seq(WriteTo) /\ Len(ab \o c) = Len(ab) + Len(c) /\ Distinct(ab \o c)
        /\ \A x : PendingIn(ab \o c, x) => PendingIn(ab, x) \/ PendingIn(c, x)
        /\ \A x, w : Writes(ab, x, w) \/ Writes(c, x, w) => Writes(ab \o c, x, w)
    <3>1. c \in Seq(WriteTo) /\ Distinct(c)
      BY <1>11
    <3>2. QED
      BY <2>1, <2>2, <3>1, JoinedShows
  <2>4. QED
    BY <1>11, <2>1, <2>3
<1> DEFINE abc == ab \o c
<1> HIDE DEF abc
<1>15. /\ abc \o t \in Seq(WriteTo) /\ Distinct(abc \o t) /\ Len(abc \o t) = 3 + NumDirSectors
       /\ Writes(abc \o t, FreeMapData, MapOf(SystemSectors))
       /\ \A k \in 1..NumDirSectors : Writes(abc \o t, DirData[k], DirPart(table, k))
  <2>1. /\ abc \in Seq(WriteTo) /\ Distinct(abc) /\ Len(abc) = 3
        /\ \A x : PendingIn(abc, x) => x \in {FreeMapSector, DirectorySector, FreeMapData}
        /\ Writes(abc, FreeMapData, MapOf(SystemSectors))
    BY <1>14 DEF abc
  <2>2. \A x : ~(PendingIn(abc, x) /\ PendingIn(t, x))
    BY <1>12, <2>1
  <2>3. /\ abc \o t \in Seq(WriteTo) /\ Len(abc \o t) = Len(abc) + Len(t)
        /\ Distinct(abc \o t)
        /\ \A x, w : Writes(abc, x, w) \/ Writes(t, x, w) => Writes(abc \o t, x, w)
    <3>1. t \in Seq(WriteTo) /\ Distinct(t)
      BY <1>12
    <3>2. QED
      BY <2>1, <2>2, <3>1, JoinedShows
  <2>4. QED
    BY <1>12, <2>1, <2>3
<1>16. todo = abc \o t
  BY <1>2 DEF ab, abc
<1>17. disk \in [Sector -> Contents]
  <2>1. Blank \in DataSector
    BY DEF Blank, DataSector
  <2>2. Blank \in Contents
    BY <2>1 DEF Contents
  <2>3. QED
    BY <1>3, <2>2
<1>18. Typed
  BY <1>3, <1>15, <1>16, <1>17 DEF Typed, Distinct
<1>19. /\ Formed(Image) /\ Table(Image) = table /\ Image[FreeMapData].map = SystemSectors
  BY <1>6, <1>7, <1>15, <1>16, <1>17, Flushed DEF Image
<1>20. Used(Image) = {}
  BY <1>19 DEF Used, table, Unused, DirectoryEntry
<1>21. Sane(Image) /\ Exact(Image)
  BY <1>19, <1>20 DEF Sane, Exact
<1>22. Opened
  BY <1>3 DEF Opened
<1>23. todo # << >>
  BY <1>4, <1>15, <1>16
<1>24. QED
  BY <1>3, <1>18, <1>19, <1>20, <1>21, <1>22, <1>23 DEF Inv

-----------------------------------------------------------------------------
(***************************************************************************)
(* Create                                                                  *)
(***************************************************************************)

\* Of a sane and exact disk: what the free map marks.
LEMMA Marked ==
    ASSUME NEW d, Formed(d), Sane(d), Exact(d)
    PROVE  /\ d[FreeMapData].map \in SUBSET Sector
           /\ SystemSectors \subseteq d[FreeMapData].map
           /\ \A i \in Used(d) : /\ Owned(d, i) \subseteq d[FreeMapData].map
                                 /\ Table(d)[i].sector \in d[FreeMapData].map
                                 /\ Table(d)[i].sector \notin SystemSectors
                                 /\ Table(d)[i].sector \in Sector
<1>1. d[FreeMapData].map \in SUBSET Sector
  BY DEF Formed, MapSector
<1>2. d[FreeMapData].map = SystemSectors \cup UNION {Owned(d, i) : i \in Used(d)}
  BY DEF Exact
<1>3. ASSUME NEW i \in Used(d) PROVE Owned(d, i) \subseteq d[FreeMapData].map
  BY <1>2
<1>4. ASSUME NEW i \in Used(d)
      PROVE  Table(d)[i].sector \in Owned(d, i) /\ Table(d)[i].sector \notin SystemSectors
  BY DEF Owned, Sane, Headed
<1>5. SystemSectors \subseteq d[FreeMapData].map
  BY <1>2
<1>6. QED
  BY <1>1, <1>3, <1>4, <1>5

\* The disk e has a file more than d: n, with its header in sector s and its data
\* in the sectors q, in entry i0 of the directory.
Adds(d, e, i0, n, size, q, s) ==
    /\ Formed(d) /\ Formed(e) /\ Sane(d) /\ Exact(d)
    /\ i0 \in 1..NumDirEntries /\ i0 \notin Used(d)
    /\ n \in Name /\ \A i \in Used(d) : Table(d)[i].name # n
    /\ size \in Nat /\ q \in Seq(Sector) /\ IsInjective(q) /\ size <= Len(q) * SectorSize
    /\ s \in Sector /\ s \notin d[FreeMapData].map /\ s \notin Range(q)
    /\ Range(q) \cap d[FreeMapData].map = {}
    /\ Table(e) = [Table(d) EXCEPT ![i0] = DirectoryEntry(TRUE, n, s)]
    /\ e[s] = Header(size, q)
    /\ \A x \in Sector : x \notin SystemSectors /\ x # s => e[x] = d[x]
    /\ e[FreeMapData].map = d[FreeMapData].map \cup {s} \cup Range(q)

\* Such a disk is sane and its free map exact, if those of d are.
LEMMA NewFile ==
    ASSUME NEW d, NEW e, NEW i0, NEW n, NEW size, NEW q, NEW s, Adds(d, e, i0, n, size, q, s)
    PROVE  /\ Used(e) = Used(d) \cup {i0}
           /\ Table(e)[i0].name = n /\ Table(e)[i0].sector = s
           /\ Sane(e) /\ Exact(e) /\ Agree(d, e)
<1> USE DEF Adds
<1>1. /\ Table(d) \in [1..NumDirEntries -> Entry]
      /\ Used(d) \subseteq 1..NumDirEntries
  BY TableTyped
<1>2. Table(e)[i0] = DirectoryEntry(TRUE, n, s)
      /\ \A i \in 1..NumDirEntries : i # i0 => Table(e)[i] = Table(d)[i]
  BY <1>1
<1>3. Table(e)[i0].inUse /\ Table(e)[i0].name = n /\ Table(e)[i0].sector = s
  BY <1>2 DEF DirectoryEntry
<1>4. Used(e) = Used(d) \cup {i0}
  <2>1. \A i \in 1..NumDirEntries : i # i0 => (i \in Used(e) <=> i \in Used(d))
    BY <1>2 DEF Used
  <2>2. i0 \in Used(e) /\ Used(e) \subseteq 1..NumDirEntries
    BY <1>3 DEF Used
  <2>3. QED
    BY <1>1, <2>1, <2>2
<1>5. /\ SystemSectors \subseteq d[FreeMapData].map
      /\ \A i \in Used(d) : /\ Owned(d, i) \subseteq d[FreeMapData].map
                            /\ Table(d)[i].sector \in d[FreeMapData].map
                            /\ Table(d)[i].sector \notin SystemSectors
                            /\ Table(d)[i].sector \in Sector
  BY Marked
<1>6. ASSUME NEW i \in Used(d)
      PROVE  /\ Table(e)[i] = Table(d)[i] /\ HeaderOf(e, i) = HeaderOf(d, i)
             /\ Owned(e, i) = Owned(d, i) /\ i # i0
  <2>1. i # i0 /\ Table(e)[i] = Table(d)[i]
    BY <1>1, <1>2
  <2>2. HeaderOf(e, i) = HeaderOf(d, i)
    BY <1>5, <2>1 DEF HeaderOf
  <2>3. QED
    BY <2>1, <2>2 DEF Owned
<1>7. Agree(d, e)
  BY <1>6 DEF Agree
<1>8. HeaderOf(e, i0) = Header(size, q) /\ Owned(e, i0) = {s} \cup Range(q)
  <2>1. HeaderOf(e, i0) = Header(size, q)
    BY <1>3 DEF HeaderOf
  <2>2. HeaderOf(e, i0).dataSectors = q
    BY <2>1 DEF Header
  <2>3. Owned(e, i0) = {Table(e)[i0].sector} \cup Range(HeaderOf(e, i0).dataSectors)
    BY DEF Owned
  <2>4. QED
    BY <1>3, <2>1, <2>2, <2>3
<1>9. Headed(e, i0)
  <2>1. Header(size, q) \in FileHeader /\ Header(size, q).numBytes = size
        /\ Header(size, q).dataSectors = q
    BY DEF Header, FileHeader
  <2>2. ({s} \cup Range(q)) \cap SystemSectors = {}
    BY <1>5
  <2>3. QED
    BY <1>3, <1>8, <2>1, <2>2 DEF Headed
<1>10. ASSUME NEW i \in Used(d) PROVE Headed(e, i)
  BY <1>6 DEF Sane, Headed
<1>11. ASSUME NEW i \in Used(d)
       PROVE  Table(e)[i].name # Table(e)[i0].name /\ Owned(e, i) \cap Owned(e, i0) = {}
  <2>1. Table(e)[i].name # Table(e)[i0].name
    BY <1>3, <1>6
  <2>2. Owned(e, i) \subseteq d[FreeMapData].map
    BY <1>5, <1>6
  <2>3. ({s} \cup Range(q)) \cap d[FreeMapData].map = {}
    OBVIOUS
  <2>4. QED
    BY <1>8, <2>1, <2>2, <2>3
<1>12. ASSUME NEW i \in Used(d), NEW j \in Used(d), i # j
       PROVE  Table(e)[i].name # Table(e)[j].name /\ Owned(e, i) \cap Owned(e, j) = {}
  BY <1>6, <1>12 DEF Sane
<1>13. Sane(e)
  BY <1>4, <1>9, <1>10, <1>11, <1>12 DEF Sane
<1>14. Exact(e)
  <2>1. UNION {Owned(e, i) : i \in Used(e)}
            = (UNION {Owned(d, i) : i \in Used(d)}) \cup {s} \cup Range(q)
    <3>1. \A x : x \in UNION {Owned(e, i) : i \in Used(e)}
                    <=> \E i \in Used(d) \cup {i0} : x \in Owned(e, i)
      BY <1>4
    <3>2. \A x : (\E i \in Used(d) \cup {i0} : x \in Owned(e, i))
                    <=> (\E i \in Used(d) : x \in Owned(d, i)) \/ x \in {s} \cup Range(q)
      BY <1>6, <1>8
    <3>3. QED
      BY <3>1, <3>2
  <2>2. QED
    BY <2>1 DEF Exact
<1>15. QED
  BY <1>3, <1>4, <1>7, <1>13, <1>14

\* The writes of Create, in their order, and what the disk becomes.
LEMMA CreateWrites ==
    ASSUME NEW d \in [Sector -> Contents], NEW s \in Sector, s \notin SystemSectors,
           NEW hdr \in FileHeader, NEW table \in [1..NumDirEntries -> Entry],
           NEW map \in SUBSET Sector
    PROVE  LET t == Flush(s, hdr, table, map)
           IN  /\ t \in Seq(WriteTo) /\ Distinct(t) /\ t # << >> /\ 1 \in 1..Len(t)
               /\ t[1] = [sector |-> s, to |-> hdr]
               /\ \A k \in 1..Len(t) : k # 1 => t[k].sector \in SystemSectors
               /\ Formed(ImageOf(d, t)) /\ Table(ImageOf(d, t)) = table
               /\ ImageOf(d, t)[FreeMapData].map = map
               /\ ImageOf(d, t)[s] = hdr
               /\ \A x \in Sector : x \notin SystemSectors /\ x # s => ImageOf(d, t)[x] = d[x]
<1> DEFINE a == <<[sector |-> s, to |-> hdr]>>
<1> DEFINE b == WriteDirectory(table)
<1> DEFINE c == <<[sector |-> FreeMapData, to |-> MapOf(map)]>>
<1> DEFINE ab == a \o b
<1> DEFINE t == ab \o c
<1>1. Flush(s, hdr, table, map) = t
  BY DEF Flush, WriteHeader, WriteFreeMap, MapOf
<1>2. hdr \in Contents /\ MapOf(map) \in Contents /\ FreeMapData \in Sector
  <2>1. hdr \in Contents
    BY DEF Contents
  <2>2. QED
    BY <2>1, SystemContents, Layout
<1>3. /\ a \in Seq(WriteTo) /\ Distinct(a) /\ \A x : PendingIn(a, x) => x = s
      /\ Len(a) = 1 /\ a[1] = [sector |-> s, to |-> hdr]
  BY <1>2, OneShows
<1>4. /\ b \in Seq(WriteTo) /\ Distinct(b)
      /\ \A x : PendingIn(b, x) => x \in SystemSectors \ {FreeMapSector, DirectorySector, FreeMapData}
      /\ \A k \in 1..NumDirSectors : Writes(b, DirData[k], DirPart(table, k))
  BY DirectoryShows
<1>5. /\ c \in Seq(WriteTo) /\ Distinct(c) /\ \A x : PendingIn(c, x) => x = FreeMapData
      /\ Writes(c, FreeMapData, MapOf(map)) /\ Len(c) = 1
  BY <1>2, OneShows
<1> HIDE DEF a, b, c
<1>6. \A x : ~(PendingIn(a, x) /\ PendingIn(b, x))
  BY <1>3, <1>4
<1>7. /\ ab \in Seq(WriteTo) /\ Len(ab) = Len(a) + Len(b) /\ Distinct(ab)
      /\ \A x : PendingIn(ab, x) => PendingIn(a, x) \/ PendingIn(b, x)
      /\ \A x, w : Writes(a, x, w) \/ Writes(b, x, w) => Writes(ab, x, w)
  <2>1. a \in Seq(WriteTo) /\ b \in Seq(WriteTo) /\ Distinct(a) /\ Distinct(b)
    BY <1>3, <1>4
  <2>2. QED
    BY <1>6, <2>1, JoinedShows
<1>8. ab[1] = a[1] /\ Len(ab) \in Nat /\ Len(ab) >= 1
  <2>1. a \in Seq(WriteTo) /\ b \in Seq(WriteTo) /\ Len(a) \in Nat /\ Len(b) \in Nat
    BY <1>3, <1>4
  <2>2. 1 \in 1..(Len(a) + Len(b)) /\ 1 <= Len(a)
    BY <1>3, <2>1
  <2>3. QED
    BY <1>7, <2>1, <2>2, ConcatProperties
<1> HIDE DEF ab
<1>9. \A x : ~(PendingIn(ab, x) /\ PendingIn(c, x))
  BY <1>3, <1>4, <1>5, <1>7, Layout
<1>10. /\ t \in Seq(WriteTo) /\ Len(t) = Len(ab) + Len(c) /\ Distinct(t)
       /\ \A x : PendingIn(t, x) => PendingIn(ab, x) \/ PendingIn(c, x)
       /\ \A x, w : Writes(ab, x, w) \/ Writes(c, x, w) => Writes(t, x, w)
  <2>1. c \in Seq(WriteTo) /\ Distinct(c) /\ ab \in Seq(WriteTo) /\ Distinct(ab)
    BY <1>5, <1>7
  <2>2. QED
    BY <1>9, <2>1, JoinedShows
<1>11. t[1] = [sector |-> s, to |-> hdr] /\ 1 \in 1..Len(t)
  <2>1. 1 \in 1..(Len(ab) + Len(c)) /\ 1 <= Len(ab)
    BY <1>5, <1>8
  <2>2. t[1] = ab[1]
    BY <1>5, <1>7, <2>1, ConcatProperties
  <2>3. QED
    BY <1>3, <1>8, <1>10, <2>1, <2>2
<1> HIDE DEF t
<1>12. \A x : PendingIn(t, x) => x = s \/ x \in SystemSectors
  BY <1>3, <1>4, <1>5, <1>7, <1>10, Layout
<1>13. \A k \in 1..Len(t) : k # 1 => t[k].sector \in SystemSectors
  <2>1. \A k \in 1..Len(t) : t[k].sector = s => k = 1
    BY <1>10, <1>11 DEF Distinct
  <2>2. \A k \in 1..Len(t) : PendingIn(t, t[k].sector)
    BY DEF PendingIn
  <2>3. QED
    BY <1>12, <2>1, <2>2
<1>14. /\ Formed(ImageOf(d, t)) /\ Table(ImageOf(d, t)) = table
       /\ ImageOf(d, t)[FreeMapData].map = map
  <2>1. Writes(t, FreeMapData, MapOf(map))
    BY <1>5, <1>10
  <2>2. \A k \in 1..NumDirSectors : Writes(t, DirData[k], DirPart(table, k))
    BY <1>4, <1>7, <1>10
  <2>3. QED
    BY <1>10, <2>1, <2>2, Flushed
<1>15. /\ \A k \in 1..Len(t) : ImageOf(d, t)[t[k].sector] = t[k].to
       /\ \A x \in Sector : ~PendingIn(t, x) => ImageOf(d, t)[x] = d[x]
  BY <1>10, Shown DEF Distinct
<1>16. ImageOf(d, t)[s] = hdr
  BY <1>11, <1>15
<1>17. \A x \in Sector : x \notin SystemSectors /\ x # s => ImageOf(d, t)[x] = d[x]
  BY <1>12, <1>15
<1>18. t # << >>
  BY <1>11
<1>19. QED
  BY <1>1, <1>10, <1>11, <1>13, <1>14, <1>16, <1>17, <1>18

\* Create takes free sectors for the header and the data (FileSystem::Create).
LEMMA CreateKeeps ==
    ASSUME Inv, NEW n \in Name, NEW size \in FileSizes, Create(n, size)
    PROVE  Inv'
<1> DEFINE map == disk[FreeMapData].map
<1> DEFINE s == Find(map).bit
<1> DEFINE blocks == Allocate(map \cup {s}, size)
<1> DEFINE hdr == Header(size, blocks.bits)
<1> DEFINE i0 == Min({i \in 1..NumDirEntries : ~Table(disk)[i].inUse})
<1> DEFINE new == [Table(disk) EXCEPT ![i0] = DirectoryEntry(TRUE, n, s)]
<1> DEFINE t == Flush(s, hdr, new, blocks.map)
<1>1. /\ Typed /\ Opened /\ todo = << >> /\ state = "up"
      /\ Formed(disk) /\ Sane(disk) /\ Image = disk /\ Sane(Image) /\ Exact(Image)
  BY ImageIsDisk DEF Inv, Create, Ready
<1>2. Exact(disk) /\ size \in Nat /\ disk \in [Sector -> Contents]
  BY <1>1, FileSystemAssumption DEF Formed
<1>3. /\ map \in SUBSET Sector /\ SystemSectors \subseteq map
  BY <1>1, <1>2, Marked
<1>4. FetchFreeMap = map /\ FetchDirectory = Table(disk)
  BY Fetched DEF FetchFreeMap
<1>5. s # -1
  BY <1>4 DEF Create
<1>6. s \in Sector /\ s \notin map /\ Find(map).map = map \cup {s}
  BY <1>3, <1>5, FindFinds
<1>7. /\ Lookup(Table(disk), n) = -1 /\ CanAdd(Table(disk))
      /\ CanAllocate(map \cup {s}, size)
      /\ todo' = t
      /\ disk' = disk /\ openFiles' = openFiles /\ state' = state
  <2>1. /\ Lookup(Table(disk), n) = -1 /\ CanAdd(Table(disk))
        /\ CanAllocate(Find(map).map, size)
        /\ disk' = disk /\ openFiles' = openFiles /\ state' = state
    BY <1>4 DEF Create
  <2>2. todo' = Flush(s, Header(size, Allocate(Find(map).map, size).bits),
                      Add(Table(disk), n, s), Allocate(Find(map).map, size).map)
    BY <1>4 DEF Create
  <2>3. Add(Table(disk), n, s) = new
    BY DEF Add
  <2>4. QED
    BY <1>6, <2>1, <2>2, <2>3
<1> HIDE DEF s, map
<1>8. Found(blocks, map \cup {s}, divRoundUp(size, SectorSize))
  <2>1. divRoundUp(size, SectorSize) \in Nat /\ map \cup {s} \in SUBSET Sector
    BY <1>2, <1>3, <1>6, RoundedUp
  <2>2. divRoundUp(size, SectorSize) <= NumClear(map \cup {s})
    <3>1. NumClear(map \cup {s}) \in Nat
      <4>1. IsFiniteSet({i \in Sector : ~Test(map \cup {s}, i)})
        <5>1. IsFiniteSet(Sector)
          BY Layout, FS_Interval DEF Sector
        <5>2. QED
          BY <5>1, FS_Subset
      <4>2. QED
        BY <4>1, FS_CardinalityType DEF NumClear
    <3>2. QED
      BY <1>7, <2>1, <3>1 DEF CanAllocate
  <2>3. QED
    BY <2>1, <2>2, FindManyFinds DEF Allocate
<1>9. /\ blocks.bits \in Seq(Sector) /\ IsInjective(blocks.bits)
      /\ Len(blocks.bits) = divRoundUp(size, SectorSize)
      /\ blocks.map \in SUBSET Sector
      /\ blocks.map = map \cup {s} \cup Range(blocks.bits)
      /\ s \notin Range(blocks.bits) /\ Range(blocks.bits) \cap map = {}
  BY <1>8 DEF Found
<1>10. size <= Len(blocks.bits) * SectorSize
  BY <1>2, <1>9, RoundedUp
<1> HIDE DEF blocks
<1>11. hdr \in FileHeader
  BY <1>2, <1>9 DEF Header, FileHeader
<1>12. i0 \in 1..NumDirEntries /\ i0 \notin Used(disk)
  <2> DEFINE free == {i \in 1..NumDirEntries : ~Table(disk)[i].inUse}
  <2>1. free # {} /\ free \subseteq Nat
    BY <1>7 DEF CanAdd
  <2>2. Min(free) \in free
    BY <2>1, MinOf
  <2>3. QED
    BY <2>2 DEF Used
<1> HIDE DEF i0
<1>13. new \in [1..NumDirEntries -> Entry]
  <2>1. DirectoryEntry(TRUE, n, s) \in Entry
    BY <1>6 DEF DirectoryEntry, Entry
  <2>2. QED
    BY <1>1, <2>1, TableTyped
<1> HIDE DEF hdr, new
<1>14. s \notin SystemSectors
  BY <1>3, <1>6
<1>15. /\ t \in Seq(WriteTo) /\ Distinct(t) /\ t # << >> /\ 1 \in 1..Len(t)
       /\ t[1] = [sector |-> s, to |-> hdr]
       /\ \A k \in 1..Len(t) : k # 1 => t[k].sector \in SystemSectors
       /\ Formed(ImageOf(disk, t)) /\ Table(ImageOf(disk, t)) = new
       /\ ImageOf(disk, t)[FreeMapData].map = blocks.map
       /\ ImageOf(disk, t)[s] = hdr
       /\ \A x \in Sector : x \notin SystemSectors /\ x # s => ImageOf(disk, t)[x] = disk[x]
  <2>1. /\ disk \in [Sector -> Contents] /\ s \in Sector /\ s \notin SystemSectors
        /\ hdr \in FileHeader /\ new \in [1..NumDirEntries -> Entry]
        /\ blocks.map \in SUBSET Sector
    BY <1>2, <1>6, <1>9, <1>11, <1>13, <1>14
  <2>2. QED
    BY <2>1, CreateWrites
<1> HIDE DEF t
<1> DEFINE e == ImageOf(disk, t)
<1> HIDE DEF e
<1>16. /\ Used(e) = Used(disk) \cup {i0}
       /\ Table(e)[i0].name = n /\ Table(e)[i0].sector = s
       /\ Sane(e) /\ Exact(e) /\ Agree(disk, e)
  <2>1. \A i \in Used(disk) : Table(disk)[i].name # n
    BY <1>1, <1>7, LookupFinds
  <2>2. /\ Formed(e) /\ Table(e) = [Table(disk) EXCEPT ![i0] = DirectoryEntry(TRUE, n, s)]
        /\ e[s] = Header(size, blocks.bits)
        /\ \A x \in Sector : x \notin SystemSectors /\ x # s => e[x] = disk[x]
        /\ e[FreeMapData].map = disk[FreeMapData].map \cup {s} \cup Range(blocks.bits)
    BY <1>9, <1>15 DEF e, new, hdr, map
  <2>3. s \notin disk[FreeMapData].map /\ Range(blocks.bits) \cap disk[FreeMapData].map = {}
    BY <1>6, <1>9 DEF map
  <2>4. /\ blocks.bits \in Seq(Sector) /\ IsInjective(blocks.bits)
        /\ size <= Len(blocks.bits) * SectorSize
        /\ s \notin Range(blocks.bits) /\ s \in Sector /\ size \in Nat
        /\ i0 \in 1..NumDirEntries /\ i0 \notin Used(disk)
        /\ Formed(disk) /\ Sane(disk) /\ Exact(disk)
    BY <1>1, <1>2, <1>6, <1>9, <1>10, <1>12
  <2>5. Adds(disk, e, i0, n, size, blocks.bits, s)
    BY <2>1, <2>2, <2>3, <2>4 DEF Adds
  <2>6. QED
    BY <2>5, NewFile
<1>17. Image' = e /\ disk' = disk
  BY <1>7 DEF Image, e
<1>18. Typed'
  BY <1>1, <1>7, <1>15 DEF Typed, Distinct
<1>19. Opened'
  <2>1. \A i \in Used(disk) : /\ i \in Used(e) /\ Table(e)[i] = Table(disk)[i]
                              /\ HeaderOf(e, i) = HeaderOf(disk, i)
    BY <1>16 DEF Agree
  <2>2. ASSUME NEW h \in 1..Len(openFiles)
        PROVE  \E i \in Used(e) : Table(e)[i].name = openFiles[h].name
                                  /\ HeaderOf(e, i) = openFiles[h].hdr
    BY <1>1, <2>1 DEF Opened
  <2>3. QED
    BY <1>7, <1>17, <2>2 DEF Opened
<1>20. Creating'
  <2>1. \A i, j \in Used(e) \ Used(disk) : i = j
    BY <1>16
  <2>2. ASSUME NEW k \in 1..Len(t), t[k].sector \notin SystemSectors
        PROVE  k = 1 /\ \E i \in Used(e) \ Used(disk) : t[k].sector = Table(e)[i].sector
    <3>1. k = 1
      BY <1>15, <2>2
    <3>2. t[k].sector = s
      BY <1>15, <3>1
    <3>3. QED
      BY <1>12, <1>16, <3>1, <3>2
  <2>3. QED
    BY <1>7, <1>16, <1>17, <2>1, <2>2 DEF Creating
<1>21. Formed(e)
  BY <1>15 DEF e
<1>22. QED
  BY <1>1, <1>7, <1>16, <1>17, <1>18, <1>19, <1>20, <1>21 DEF Inv

-----------------------------------------------------------------------------
(***************************************************************************)
(* Remove                                                                  *)
(***************************************************************************)

\* The disk e is d without the file in entry i0.
Drops(d, e, i0) ==
    /\ Formed(d) /\ Formed(e) /\ Sane(d) /\ Exact(d)
    /\ i0 \in Used(d)
    /\ Table(e) = [Table(d) EXCEPT ![i0].inUse = FALSE]
    /\ \A x \in Sector : x \notin SystemSectors => e[x] = d[x]
    /\ e[FreeMapData].map = d[FreeMapData].map \ Owned(d, i0)

\* Such a disk is sane and its free map exact, if those of d are.
LEMMA FileGone ==
    ASSUME NEW d, NEW e, NEW i0, Drops(d, e, i0)
    PROVE  Used(e) = Used(d) \ {i0} /\ Sane(e) /\ Exact(e) /\ Agree(d, e)
<1> USE DEF Drops
<1>1. /\ Table(d) \in [1..NumDirEntries -> Entry]
      /\ Used(d) \subseteq 1..NumDirEntries
  BY TableTyped
<1>2. /\ \A i \in 1..NumDirEntries : i # i0 => Table(e)[i] = Table(d)[i]
      /\ ~Table(e)[i0].inUse
  <2>1. i0 \in 1..NumDirEntries /\ Table(e)[i0] = [Table(d)[i0] EXCEPT !.inUse = FALSE]
    BY <1>1
  <2>2. Table(d)[i0] \in Entry
    BY <1>1, <2>1
  <2>3. ~Table(e)[i0].inUse
    BY <2>1, <2>2 DEF Entry
  <2>4. QED
    BY <1>1, <2>3
<1>3. Used(e) = Used(d) \ {i0}
  BY <1>1, <1>2 DEF Used
<1>4. ASSUME NEW i \in Used(e)
      PROVE  /\ i \in Used(d) /\ Table(e)[i] = Table(d)[i] /\ HeaderOf(e, i) = HeaderOf(d, i)
             /\ Owned(e, i) = Owned(d, i)
  <2>1. i \in Used(d) /\ i # i0 /\ Table(e)[i] = Table(d)[i]
    BY <1>1, <1>2, <1>3
  <2>2. HeaderOf(e, i) = HeaderOf(d, i)
    BY <2>1, Marked DEF HeaderOf
  <2>3. QED
    BY <2>1, <2>2 DEF Owned
<1>5. Agree(d, e)
  BY <1>4 DEF Agree
<1>6. Sane(e)
  BY <1>3, <1>5, FewerFiles
<1>7. Exact(e)
  <2>1. \A x : x \in UNION {Owned(e, i) : i \in Used(e)}
                  <=> \E i \in Used(d) \ {i0} : x \in Owned(d, i)
    BY <1>3, <1>4
  <2>2. \A x : x \in UNION {Owned(d, i) : i \in Used(d)}
                  <=> \E i \in Used(d) : x \in Owned(d, i)
    OBVIOUS
  <2>3. \A i \in Used(d) \ {i0} : Owned(d, i) \cap Owned(d, i0) = {}
    BY DEF Sane
  <2>4. Owned(d, i0) \cap SystemSectors = {}
    BY DEF Sane, Headed
  <2>5. (SystemSectors \cup UNION {Owned(d, i) : i \in Used(d)}) \ Owned(d, i0)
            = SystemSectors \cup UNION {Owned(e, i) : i \in Used(e)}
    <3>1. \A x : x \in (SystemSectors \cup UNION {Owned(d, i) : i \in Used(d)}) \ Owned(d, i0)
                    <=> x \in SystemSectors \cup UNION {Owned(e, i) : i \in Used(e)}
      BY <2>1, <2>2, <2>3, <2>4
    <3>2. QED
      BY <3>1
  <2>6. QED
    BY <2>5 DEF Exact
<1>8. QED
  BY <1>3, <1>5, <1>6, <1>7

\* The writes of Remove, and what the disk becomes.
LEMMA RemoveWrites ==
    ASSUME NEW d \in [Sector -> Contents], NEW table \in [1..NumDirEntries -> Entry],
           NEW map \in SUBSET Sector
    PROVE  LET t == WriteFreeMap(map) \o WriteDirectory(table)
           IN  /\ t \in Seq(WriteTo) /\ Distinct(t)
               /\ \A k \in 1..Len(t) : t[k].sector \in SystemSectors
               /\ Formed(ImageOf(d, t)) /\ Table(ImageOf(d, t)) = table
               /\ ImageOf(d, t)[FreeMapData].map = map
               /\ \A x \in Sector : x \notin SystemSectors => ImageOf(d, t)[x] = d[x]
<1> DEFINE b == WriteDirectory(table)
<1> DEFINE c == <<[sector |-> FreeMapData, to |-> MapOf(map)]>>
<1> DEFINE t == c \o b
<1>1. WriteFreeMap(map) \o WriteDirectory(table) = t
  BY DEF WriteFreeMap, MapOf
<1>2. MapOf(map) \in Contents /\ FreeMapData \in Sector /\ FreeMapData \in SystemSectors
  BY SystemContents, Layout
<1>3. /\ b \in Seq(WriteTo) /\ Distinct(b)
      /\ \A x : PendingIn(b, x) => x \in SystemSectors \ {FreeMapSector, DirectorySector, FreeMapData}
      /\ \A k \in 1..NumDirSectors : Writes(b, DirData[k], DirPart(table, k))
  BY DirectoryShows
<1>4. /\ c \in Seq(WriteTo) /\ Distinct(c) /\ \A x : PendingIn(c, x) => x = FreeMapData
      /\ Writes(c, FreeMapData, MapOf(map))
  BY <1>2, OneShows
<1> HIDE DEF b, c
<1>5. \A x : ~(PendingIn(c, x) /\ PendingIn(b, x))
  BY <1>3, <1>4
<1>6. /\ t \in Seq(WriteTo) /\ Distinct(t)
      /\ \A x : PendingIn(t, x) => PendingIn(c, x) \/ PendingIn(b, x)
      /\ \A x, w : Writes(c, x, w) \/ Writes(b, x, w) => Writes(t, x, w)
  <2>1. c \in Seq(WriteTo) /\ Distinct(c) /\ b \in Seq(WriteTo) /\ Distinct(b)
    BY <1>3, <1>4
  <2>2. QED
    BY <1>5, <2>1, JoinedShows
<1> HIDE DEF t
<1>7. \A x : PendingIn(t, x) => x \in SystemSectors
  BY <1>2, <1>3, <1>4, <1>6
<1>8. \A k \in 1..Len(t) : t[k].sector \in SystemSectors
  BY <1>7 DEF PendingIn
<1>9. /\ Formed(ImageOf(d, t)) /\ Table(ImageOf(d, t)) = table
      /\ ImageOf(d, t)[FreeMapData].map = map
  <2>1. Writes(t, FreeMapData, MapOf(map))
    BY <1>4, <1>6
  <2>2. \A k \in 1..NumDirSectors : Writes(t, DirData[k], DirPart(table, k))
    BY <1>3, <1>6
  <2>3. QED
    BY <1>6, <2>1, <2>2, Flushed
<1>10. \A x \in Sector : ~PendingIn(t, x) => ImageOf(d, t)[x] = d[x]
  BY <1>6, Shown DEF Distinct
<1>11. QED
  BY <1>1, <1>6, <1>7, <1>8, <1>9, <1>10

\* Remove gives back the sectors of a file that nobody has open; the ASSERT of
\* Deallocate holds (FileSystem::Remove).
LEMMA RemoveKeeps ==
    ASSUME Inv, NEW n \in Name, RemoveFile(n)
    PROVE  Inv'
<1> DEFINE map == disk[FreeMapData].map
<1> DEFINE s == Lookup(Table(disk), n)
<1> DEFINE freed == map \ Owned(disk, FindIndex(Table(disk), n))
<1> DEFINE new == RemoveEntry(Table(disk), n)
<1> DEFINE t == WriteFreeMap(freed) \o WriteDirectory(new)
<1>1. /\ Typed /\ Opened /\ todo = << >> /\ state = "up"
      /\ Formed(disk) /\ Sane(disk) /\ Image = disk /\ Sane(Image) /\ Exact(Image)
  BY ImageIsDisk DEF Inv, RemoveFile, Ready
<1>2. Exact(disk) /\ disk \in [Sector -> Contents]
  BY <1>1 DEF Formed
<1>3. FetchFreeMap = map /\ FetchDirectory = Table(disk) /\ s # -1
  BY Fetched DEF FetchFreeMap, RemoveFile
<1>4. PICK i0 \in Used(disk) : Table(disk)[i0].name = n
  BY <1>1, <1>3, LookupFinds
<1>5. FindIndex(Table(disk), n) = i0 /\ s = Table(disk)[i0].sector
  BY <1>1, <1>4, LookupFinds
<1>6. Owned(disk, i0) = {s} \cup Range(HeaderAt(s).dataSectors)
  BY <1>5 DEF Owned, HeaderOf, HeaderAt
<1>7. Owned(disk, i0) \subseteq map /\ map \in SUBSET Sector
  BY <1>1, <1>2, Marked
<1>8. MayDeallocate(map, HeaderAt(s))
  BY <1>6, <1>7 DEF MayDeallocate, Test
<1>9. Clear(Deallocate(map, HeaderAt(s)), s) = freed
  BY <1>5, <1>6 DEF Clear, Deallocate
<1>10. /\ ~IsOpen(n) /\ todo' = t
       /\ disk' = disk /\ openFiles' = openFiles /\ state' = state
  BY <1>3, <1>8, <1>9 DEF RemoveFile
<1> HIDE DEF s, map
<1>11. new = [Table(disk) EXCEPT ![i0].inUse = FALSE] /\ new \in [1..NumDirEntries -> Entry]
  <2>1. new = [Table(disk) EXCEPT ![i0].inUse = FALSE]
    BY <1>5 DEF RemoveEntry
  <2>2. Table(disk) \in [1..NumDirEntries -> Entry] /\ i0 \in 1..NumDirEntries
    BY <1>1, TableTyped
  <2>3. [Table(disk)[i0] EXCEPT !.inUse = FALSE] \in Entry
    BY <2>2 DEF Entry
  <2>4. QED
    BY <2>1, <2>2, <2>3
<1>12. freed \in SUBSET Sector /\ freed = map \ Owned(disk, i0)
  BY <1>5, <1>7
<1> HIDE DEF new, freed
<1>13. /\ t \in Seq(WriteTo) /\ Distinct(t)
       /\ \A k \in 1..Len(t) : t[k].sector \in SystemSectors
       /\ Formed(ImageOf(disk, t)) /\ Table(ImageOf(disk, t)) = new
       /\ ImageOf(disk, t)[FreeMapData].map = freed
       /\ \A x \in Sector : x \notin SystemSectors => ImageOf(disk, t)[x] = disk[x]
  <2>1. /\ disk \in [Sector -> Contents] /\ new \in [1..NumDirEntries -> Entry]
        /\ freed \in SUBSET Sector
    BY <1>2, <1>11, <1>12
  <2>2. QED
    BY <2>1, RemoveWrites
<1> HIDE DEF t
<1> DEFINE e == ImageOf(disk, t)
<1> HIDE DEF e
<1>14. Used(e) = Used(disk) \ {i0} /\ Sane(e) /\ Exact(e) /\ Agree(disk, e)
  <2>1. Drops(disk, e, i0)
    BY <1>1, <1>2, <1>11, <1>12, <1>13 DEF Drops, e, map
  <2>2. QED
    BY <2>1, FileGone
<1>15. Image' = e /\ disk' = disk
  BY <1>10 DEF Image, e
<1>16. Typed'
  BY <1>1, <1>10, <1>13 DEF Typed, Distinct
<1>17. Opened'
  <2>1. ASSUME NEW h \in 1..Len(openFiles)
        PROVE  \E i \in Used(e) : Table(e)[i].name = openFiles[h].name
                                  /\ HeaderOf(e, i) = openFiles[h].hdr
    <3>1. PICK i \in Used(disk) : Table(disk)[i].name = openFiles[h].name
                                  /\ HeaderOf(disk, i) = openFiles[h].hdr
      BY <1>1 DEF Opened
    <3>2. openFiles[h].name # n
      BY <1>10 DEF IsOpen
    <3>3. i \in Used(e)
      BY <1>4, <1>14, <3>1, <3>2
    <3>4. QED
      BY <1>14, <3>1, <3>3 DEF Agree
  <2>2. QED
    BY <1>10, <1>15, <2>1 DEF Opened
<1>18. Removing'
  <2>1. \A i, j \in Used(disk) \ Used(e) : i = j
    BY <1>14
  <2>2. QED
    BY <1>10, <1>13, <1>14, <1>15, <2>1 DEF Removing
<1>19. Formed(e)
  BY <1>13 DEF e
<1>20. QED
  BY <1>1, <1>10, <1>14, <1>15, <1>16, <1>17, <1>18, <1>19 DEF Inv

-----------------------------------------------------------------------------
(***************************************************************************)
(* Write                                                                   *)
(***************************************************************************)

\* What is read from any sector is a sector of bytes.
LEMMA BytesTyped ==
    ASSUME disk \in [Sector -> Contents], NEW s \in Sector
    PROVE  BytesAt(s) \in [1..SectorSize -> Byte \cup {Garbage}]
<1>1. CASE disk[s].kind = "data"
  <2>1. disk[s] \in Contents
    OBVIOUS
  <2>2. disk[s] \in DataSector
    <3>1. disk[s] \notin FileHeader /\ disk[s] \notin MapSector
      BY <1>1 DEF FileHeader, MapSector
    <3>2. \A k \in 1..NumDirSectors : disk[s] \notin DirSector(k)
      BY <1>1 DEF DirSector
    <3>3. QED
      BY <2>1, <3>1, <3>2 DEF Contents
  <2>3. QED
    BY <1>1, <2>2 DEF BytesAt, DataSector
<1>2. CASE disk[s].kind # "data"
  BY <1>2 DEF BytesAt, Blank
<1>3. QED
  BY <1>1, <1>2

\* Byte number b of sector number m of a file (OpenFile::ReadAt, WriteAt;
\* FileHeader::ByteToSector).
LEMMA SectorOfByte ==
    ASSUME NEW hdr, NEW m \in Nat, NEW b \in 1..SectorSize
    PROVE  /\ m * SectorSize + b - 1 \in Nat
           /\ ByteToSector(hdr, m * SectorSize + b - 1) = hdr.dataSectors[m + 1]
           /\ ByteToSector(hdr, m * SectorSize) = hdr.dataSectors[m + 1]
           /\ ByteAt(hdr, m * SectorSize + b - 1) = BytesAt(hdr.dataSectors[m + 1])[b]
<1>1. SectorSize \in Nat \ {0} /\ b - 1 \in 0..(SectorSize - 1) /\ 0 \in 0..(SectorSize - 1)
  BY FileSystemAssumption
<1>2. m * SectorSize \in Nat
  BY <1>1
<1>3. PICK r \in 0..(SectorSize - 1) : r = b - 1
  BY <1>1
<1>4. m * SectorSize + b - 1 = m * SectorSize + r
  BY <1>2, <1>3
<1>5. (m * SectorSize + r) \div SectorSize = m /\ (m * SectorSize + r) % SectorSize = r
  BY <1>1, Divided
<1>6. (m * SectorSize) \div SectorSize = m
  <2>1. (m * SectorSize + 0) \div SectorSize = m
    BY <1>1, Divided
  <2>2. QED
    BY <1>2, <2>1
<1>7. ByteToSector(hdr, m * SectorSize + b - 1) = hdr.dataSectors[m + 1]
  BY <1>4, <1>5 DEF ByteToSector
<1>8. ByteToSector(hdr, m * SectorSize) = hdr.dataSectors[m + 1]
  BY <1>6 DEF ByteToSector
<1>9. ((m * SectorSize + b - 1) % SectorSize) + 1 = b
  BY <1>1, <1>3, <1>4, <1>5
<1>10. ByteAt(hdr, m * SectorSize + b - 1) = BytesAt(hdr.dataSectors[m + 1])[b]
  BY <1>7, <1>9 DEF ByteAt
<1>11. QED
  BY <1>1, <1>2, <1>7, <1>8, <1>10

\* The sectors that a transfer touches are sectors of the file.
LEMMA TouchedSectors ==
    ASSUME NEW len \in Nat, NEW position \in Nat, NEW num \in Nat \ {0},
           position + num <= len * SectorSize
    PROVE  LET first == position \div SectorSize
               last == (position + num - 1) \div SectorSize
           IN  first \in Nat /\ last \in Nat /\ first <= last /\ last < len
<1>1. SectorSize \in Nat \ {0}
  BY FileSystemAssumption
<1>2. PICK z \in Nat : z = position + num - 1
  OBVIOUS
<1>3. PICK q1 \in Nat, r1 \in 0..(SectorSize - 1) :
          q1 = position \div SectorSize /\ position = q1 * SectorSize + r1
  BY <1>1, DivMod
<1>4. PICK q2 \in Nat, r2 \in 0..(SectorSize - 1) :
          q2 = z \div SectorSize /\ z = q2 * SectorSize + r2
  BY <1>1, DivMod
<1>5. q1 <= q2
  <2> SUFFICES ASSUME q1 >= q2 + 1 PROVE FALSE
    BY <1>3, <1>4
  <2>1. q1 * SectorSize >= (q2 + 1) * SectorSize
    BY <1>1
  <2>2. /\ (q2 + 1) * SectorSize = q2 * SectorSize + SectorSize
        /\ q1 * SectorSize \in Nat /\ q2 * SectorSize \in Nat
    BY <1>1
  <2>3. position <= z
    BY <1>2
  <2>4. QED
    BY <1>1, <1>3, <1>4, <2>1, <2>2, <2>3
<1>6. q2 < len
  <2> SUFFICES ASSUME q2 >= len PROVE FALSE
    BY <1>4
  <2>1. q2 * SectorSize >= len * SectorSize
    BY <1>1
  <2>2. q2 * SectorSize \in Nat /\ len * SectorSize \in Nat
    BY <1>1
  <2>3. z < len * SectorSize
    BY <1>2, <2>2
  <2>4. QED
    BY <1>1, <1>4, <2>1, <2>2, <2>3
<1>7. QED
  BY <1>2, <1>3, <1>4, <1>5, <1>6

\* A sector that is written in part keeps the rest of its bytes.
LEMMA MergedKeeps ==
    ASSUME disk \in [Sector -> Contents], NEW hdr \in FileHeader, NEW from \in Seq(Byte),
           NEW m \in Nat, m < Len(hdr.dataSectors), NEW position \in Nat,
           NEW num \in Nat, num <= Len(from)
    PROVE  LET bytes == Merged(hdr, m, from, num, position)
               s == hdr.dataSectors[m + 1]
           IN  /\ bytes \in [1..SectorSize -> Byte \cup {Garbage}]
               /\ \A b \in 1..SectorSize : m * SectorSize + b <= hdr.numBytes =>
                     bytes[b] \in Byte \cup {BytesAt(s)[b]}
<1> DEFINE bytes == Merged(hdr, m, from, num, position)
<1> DEFINE s == hdr.dataSectors[m + 1]
<1>1. hdr.numBytes \in Nat /\ hdr.dataSectors \in Seq(Sector) /\ SectorSize \in Nat \ {0}
  BY FileSystemAssumption DEF FileHeader
<1>2. s \in Sector
  BY <1>1
<1>3. BytesAt(s) \in [1..SectorSize -> Byte \cup {Garbage}]
  BY <1>2, BytesTyped
<1>4. ASSUME NEW b \in 1..SectorSize
      PROVE  /\ bytes[b] \in Byte \cup {Garbage}
             /\ m * SectorSize + b <= hdr.numBytes => bytes[b] \in Byte \cup {BytesAt(s)[b]}
  <2>1. m * SectorSize \in Nat /\ m * SectorSize + b - 1 \in Nat
    BY <1>1
  <2>2. PICK offset \in Nat : offset = m * SectorSize + b - 1
    BY <2>1
  <2>3. bytes[b] = IF offset \in position..(position + num - 1) THEN from[offset - position + 1]
                   ELSE IF offset < hdr.numBytes THEN ByteAt(hdr, offset) ELSE Garbage
    BY <2>2 DEF Merged, FileLength
  <2>4. offset \in position..(position + num - 1) => from[offset - position + 1] \in Byte
    <3>1. SUFFICES ASSUME offset \in position..(position + num - 1)
                   PROVE  offset - position + 1 \in 1..Len(from)
      OBVIOUS
    <3>2. QED
      BY <3>1
  <2>5. ByteAt(hdr, offset) = BytesAt(s)[b]
    BY <2>2, SectorOfByte
  <2>6. m * SectorSize + b <= hdr.numBytes => offset < hdr.numBytes
    BY <1>1, <2>1, <2>2
  <2>7. BytesAt(s)[b] \in Byte \cup {Garbage}
    BY <1>3
  <2>8. QED
    BY <2>3, <2>4, <2>5, <2>6, <2>7
<1>5. bytes = [b \in 1..SectorSize |-> bytes[b]]
  BY DEF Merged
<1> HIDE DEF bytes
<1>6. bytes \in [1..SectorSize -> Byte \cup {Garbage}]
  BY <1>4, <1>5
<1>7. QED
  BY <1>4, <1>6 DEF bytes

\* A Write replaces sectors of its file, each once (OpenFile::WriteAt).
LEMMA WriteAtWrites ==
    ASSUME disk \in [Sector -> Contents], NEW hdr \in FileHeader, IsInjective(hdr.dataSectors),
           hdr.numBytes <= Len(hdr.dataSectors) * SectorSize,
           NEW from \in Seq(Byte), NEW position \in Nat
    PROVE  LET t == WriteAt(hdr, from, position)
           IN  /\ t \in Seq(WriteTo) /\ Distinct(t)
               /\ \A k \in 1..Len(t) : \E m \in 1..Len(hdr.dataSectors) : Overwrites(t[k], hdr, m)
<1> DEFINE num == Granted(hdr, Len(from), position)
<1> DEFINE first == position \div SectorSize
<1> DEFINE last == (position + num - 1) \div SectorSize
<1> DEFINE t == WriteAt(hdr, from, position)
<1> DEFINE len == Len(hdr.dataSectors)
<1>1. hdr.numBytes \in Nat /\ hdr.dataSectors \in Seq(Sector) /\ len \in Nat
      /\ SectorSize \in Nat \ {0} /\ len * SectorSize \in Nat /\ Len(from) \in Nat
  <2>1. hdr.dataSectors \in Seq(Sector) /\ hdr.numBytes \in Nat
    BY DEF FileHeader
  <2>2. len \in Nat /\ SectorSize \in Nat \ {0}
    BY <2>1, FileSystemAssumption
  <2>3. QED
    BY <2>1, <2>2
<1>2. num \in Nat /\ num <= Len(from) /\ (num # 0 => position + num <= hdr.numBytes)
  BY <1>1, GrantedBounds
<1>3. CASE num = 0
  <2>1. t = << >>
    BY <1>3 DEF WriteAt
  <2>2. QED
    BY <2>1 DEF Distinct
<1>4. CASE num # 0
  <2> HIDE DEF num
  <2>1. position + num <= len * SectorSize
    BY <1>1, <1>2, <1>4
  <2>2. first \in Nat /\ last \in Nat /\ first <= last /\ last < len
    BY <1>1, <1>2, <1>4, <2>1, TouchedSectors
  <2>3. t = [k \in 1..(last - first + 1) |->
                [sector |-> ByteToSector(hdr, (first + k - 1) * SectorSize),
                 to |-> [kind |-> "data",
                         bytes |-> Merged(hdr, first + k - 1, from, num, position)]]]
    BY <1>4 DEF WriteAt, num
  <2> HIDE DEF first, last, t
  <2>4. ASSUME NEW k \in 1..(last - first + 1)
        PROVE  /\ first + k \in 1..len
               /\ t[k] \in WriteTo
               /\ t[k].sector = hdr.dataSectors[first + k]
               /\ Overwrites(t[k], hdr, first + k)
    <3>1. PICK m \in Nat : m = first + k - 1 /\ m < len
      BY <1>1, <2>2
    <3>2. m + 1 = first + k /\ m + 1 \in 1..len
      BY <1>1, <2>2, <3>1
    <3>3. 1 \in 1..SectorSize
      BY <1>1
    <3>4. ByteToSector(hdr, m * SectorSize) = hdr.dataSectors[m + 1]
      BY <3>3, SectorOfByte
    <3>5. PICK bytes : bytes = Merged(hdr, m, from, num, position)
      OBVIOUS
    <3>6. /\ bytes \in [1..SectorSize -> Byte \cup {Garbage}]
          /\ \A b \in 1..SectorSize : m * SectorSize + b <= hdr.numBytes =>
                bytes[b] \in Byte \cup {BytesAt(hdr.dataSectors[m + 1])[b]}
      BY <1>2, <3>1, <3>5, MergedKeeps
    <3>7. t[k] = [sector |-> hdr.dataSectors[m + 1], to |-> [kind |-> "data", bytes |-> bytes]]
      BY <2>3, <3>1, <3>4, <3>5
    <3>8. [kind |-> "data", bytes |-> bytes] \in DataSector
      BY <3>6 DEF DataSector
    <3>9. [kind |-> "data", bytes |-> bytes] \in Contents
      BY <3>8 DEF Contents
    <3>10. hdr.dataSectors[m + 1] \in Sector
      BY <1>1, <3>2
    <3>11. t[k] \in WriteTo
      BY <3>7, <3>9, <3>10 DEF WriteTo
    <3>12. t[k].sector = hdr.dataSectors[m + 1] /\ t[k].to = [kind |-> "data", bytes |-> bytes]
           /\ t[k].to.bytes = bytes
      BY <3>7
    <3>13. (m + 1) - 1 = m
      BY <3>1
    <3>14. Overwrites(t[k], hdr, m + 1)
      BY <3>6, <3>8, <3>12, <3>13 DEF Overwrites
    <3>15. QED
      BY <3>2, <3>11, <3>12, <3>14
  <2>5. t \in Seq(WriteTo) /\ Len(t) = last - first + 1
    <3>1. DOMAIN t = 1..(last - first + 1)
      BY <2>3
    <3>2. t = [k \in 1..(last - first + 1) |-> t[k]]
      BY <2>3
    <3>3. t \in [1..(last - first + 1) -> WriteTo]
      BY <2>4, <3>2
    <3>4. last - first + 1 \in Nat
      BY <2>2
    <3>5. QED
      BY <3>1, <3>3, <3>4
  <2>6. Distinct(t)
    <3> SUFFICES ASSUME NEW k \in 1..(last - first + 1), NEW j \in 1..(last - first + 1),
                        t[k].sector = t[j].sector
                 PROVE  k = j
      BY <2>5 DEF Distinct
    <3>1. hdr.dataSectors[first + k] = hdr.dataSectors[first + j]
      BY <2>4
    <3>2. first + k \in DOMAIN hdr.dataSectors /\ first + j \in DOMAIN hdr.dataSectors
      BY <1>1, <2>4
    <3>3. first + k = first + j
      BY <3>1, <3>2 DEF IsInjective
    <3>4. QED
      BY <2>2, <3>3
  <2>7. QED
    BY <2>4, <2>5, <2>6 DEF t
<1>5. QED
  BY <1>3, <1>4

\* A Write changes neither the directory nor a header nor the free map.
LEMMA WriteKeeps ==
    ASSUME Inv, NEW h \in 1..Len(openFiles), NEW from \in Seq(Byte), Write(h, from)
    PROVE  Inv'
<1> DEFINE f == openFiles[h]
<1> DEFINE t == WriteAt(f.hdr, from, f.seekPosition)
<1>1. /\ Typed /\ Opened /\ todo = << >> /\ state = "up"
      /\ Formed(disk) /\ Sane(disk) /\ Image = disk /\ Sane(Image) /\ Exact(Image)
      /\ openFiles \in Seq(OpenedFile)
  BY ImageIsDisk DEF Inv, Write, Ready, Typed
<1>2. Exact(disk) /\ disk \in [Sector -> Contents]
  BY <1>1 DEF Formed
<1>3. f \in OpenedFile
  BY <1>1
<1>4. f.hdr \in FileHeader /\ f.seekPosition \in Nat
  BY <1>3 DEF OpenedFile
<1>5. PICK i0 \in Used(disk) : HeaderOf(disk, i0) = f.hdr
  BY <1>1 DEF Opened
<1>6. Headed(disk, i0)
  BY <1>1 DEF Sane
<1>7. /\ IsInjective(f.hdr.dataSectors)
      /\ f.hdr.numBytes <= Len(f.hdr.dataSectors) * SectorSize
  BY <1>5, <1>6 DEF Headed
<1>8. /\ t \in Seq(WriteTo) /\ Distinct(t)
      /\ \A k \in 1..Len(t) : \E m \in 1..Len(f.hdr.dataSectors) : Overwrites(t[k], f.hdr, m)
  BY <1>2, <1>4, <1>7, WriteAtWrites
<1>9. Granted(f.hdr, Len(from), f.seekPosition) \in Nat
  <2>1. Len(from) \in Nat
    OBVIOUS
  <2>2. QED
    BY <1>4, <2>1, GrantedBounds
<1>10. PICK p \in Nat : p = f.seekPosition + Granted(f.hdr, Len(from), f.seekPosition)
  BY <1>4, <1>9
<1>11. /\ todo' = t /\ openFiles' = [openFiles EXCEPT ![h].seekPosition = p]
       /\ disk' = disk /\ state' = state
  BY <1>10 DEF Write
<1> HIDE DEF t
<1>12. /\ openFiles' \in Seq(OpenedFile) /\ Len(openFiles') = Len(openFiles)
       /\ \A k \in 1..Len(openFiles) : /\ openFiles'[k].name = openFiles[k].name
                                       /\ openFiles'[k].hdr = openFiles[k].hdr
  BY <1>1, <1>11, Moved
<1> DEFINE e == ImageOf(disk, t)
<1>13. /\ e \in [Sector -> Contents]
       /\ \A x \in Sector : ~PendingIn(t, x) => e[x] = disk[x]
  BY <1>2, <1>8, Shown DEF Distinct
<1>14. ASSUME NEW x \in Sector, x \in SystemSectors \/ \E j \in Used(disk) : x = Table(disk)[j].sector
       PROVE  e[x] = disk[x]
  <2>1. ASSUME NEW k \in 1..Len(t), t[k].sector = x PROVE FALSE
    <3>1. PICK m \in 1..Len(HeaderOf(disk, i0).dataSectors) : Overwrites(t[k], HeaderOf(disk, i0), m)
      BY <1>5, <1>8
    <3>2. x = HeaderOf(disk, i0).dataSectors[m]
      BY <2>1, <3>1 DEF Overwrites
    <3>3. QED
      BY <1>1, <1>14, <3>2, DataSectors
  <2>2. ~PendingIn(t, x)
    BY <2>1 DEF PendingIn
  <2>3. QED
    BY <1>13, <2>2
<1> HIDE DEF e
<1>15. \A x \in SystemSectors : e[x] = disk[x]
  BY <1>14, Layout
<1>16. Table(e) = Table(disk) /\ e[FreeMapData] = disk[FreeMapData]
  <2>1. \A i \in 1..NumDirEntries : DirData[PartOf(i)] \in SystemSectors
    BY DirParts, Layout
  <2>2. FreeMapData \in SystemSectors
    BY Layout
  <2>3. QED
    BY <1>15, <2>1, <2>2 DEF Table
<1>17. Used(e) = Used(disk)
  BY <1>16 DEF Used
<1>18. ASSUME NEW i \in Used(disk) PROVE HeaderOf(e, i) = HeaderOf(disk, i)
  <2>1. Table(disk)[i].sector \in Sector
    BY <1>1, TableTyped DEF Used
  <2>2. QED
    BY <1>14, <1>16, <2>1 DEF HeaderOf
<1>19. Agree(disk, e)
  BY <1>16, <1>18 DEF Agree
<1>20. Sane(e)
  BY <1>1, <1>17, <1>19, FewerFiles
<1>21. Exact(e)
  <2>1. \A i \in Used(disk) : Owned(e, i) = Owned(disk, i)
    BY <1>16, <1>18 DEF Owned
  <2>2. QED
    BY <1>2, <1>16, <1>17, <2>1 DEF Exact
<1>22. Formed(e)
  <2>1. FreeMapData \in SystemSectors /\ \A k \in 1..NumDirSectors : DirData[k] \in SystemSectors
    BY Layout
  <2>2. e \in [Sector -> Contents]
    BY <1>13 DEF e
  <2>3. QED
    BY <1>1, <1>15, <2>1, <2>2 DEF Formed
<1>23. Image' = e /\ disk' = disk
  BY <1>11 DEF Image, e
<1>24. Typed'
  BY <1>1, <1>8, <1>11, <1>12 DEF Typed, Distinct
<1>25. Opened'
  <2>1. ASSUME NEW k \in 1..Len(openFiles')
        PROVE  \E i \in Used(e) : Table(e)[i].name = openFiles'[k].name
                                  /\ HeaderOf(e, i) = openFiles'[k].hdr
    <3>1. PICK i \in Used(disk) : Table(disk)[i].name = openFiles[k].name
                                  /\ HeaderOf(disk, i) = openFiles[k].hdr
      BY <1>1, <1>12 DEF Opened
    <3>2. QED
      BY <1>12, <1>16, <1>17, <1>18, <3>1
  <2>2. QED
    BY <1>23, <2>1 DEF Opened
<1>26. Writing'
  <2>1. ASSUME NEW k \in 1..Len(t)
        PROVE  \E i \in Used(disk) : \E m \in 1..Len(HeaderOf(disk, i).dataSectors) :
                  Overwrites(t[k], HeaderOf(disk, i), m)
    BY <1>5, <1>8
  <2>2. QED
    BY <1>11, <1>17, <1>23, <2>1 DEF Writing, Overwrites, BytesAt
<1>27. QED
  BY <1>1, <1>11, <1>19, <1>20, <1>21, <1>22, <1>23, <1>24, <1>25, <1>26 DEF Inv

-----------------------------------------------------------------------------
(***************************************************************************)
(* The theorems                                                            *)
(***************************************************************************)

\* Every step keeps the invariant.
LEMMA StepInv == Inv /\ [Next]_vars => Inv'
<1> SUFFICES ASSUME Inv, [Next]_vars PROVE Inv'
  OBVIOUS
<1> FileSizes \subseteq Nat /\ Transfers \subseteq Nat
  BY FileSystemAssumption
<1>1. CASE WriteSector
  BY <1>1, WriteSectorKeeps
<1>2. CASE Crash
  BY <1>2, CrashKeeps
<1>3. ASSUME NEW n \in Name, RemoveFile(n) PROVE Inv'
  BY <1>3, RemoveKeeps
<1>4. ASSUME NEW n \in Name, Open(n) PROVE Inv'
  BY <1>4, OpenKeeps
<1>5. ASSUME NEW n \in Name, NEW size \in FileSizes, Create(n, size) PROVE Inv'
  BY <1>5, CreateKeeps
<1>6. ASSUME NEW h \in 1..Len(openFiles), Use(h) PROVE Inv'
  <2>1. CASE Close(h)
    BY <2>1, CloseKeeps
  <2>2. ASSUME NEW size \in FileSizes, NEW position \in 0..size, Seek(h, position) PROVE Inv'
    <3>1. position \in Nat
      OBVIOUS
    <3>2. QED
      BY <2>2, <3>1, SeekKeeps
  <2>3. ASSUME NEW num \in Transfers, Read(h, num) PROVE Inv'
    BY <2>3, ReadKeeps
  <2>4. ASSUME NEW num \in Transfers, NEW b \in Byte, Write(h, [i \in 1..num |-> b]) PROVE Inv'
    <3>1. [i \in 1..num |-> b] \in Seq(Byte)
      OBVIOUS
    <3>2. QED
      BY <2>4, <3>1, WriteKeeps
  <2>5. QED
    BY <1>6, <2>1, <2>2, <2>3, <2>4 DEF Use
<1>7. CASE UNCHANGED vars
  <2>1. UNCHANGED <<disk, todo, openFiles, state>>
    BY <1>7 DEF vars
  <2>2. Image' = Image
    BY <2>1 DEF Image
  <2>3. Typed' /\ Opened'
    BY <2>1, <2>2 DEF Inv, Typed, Opened
  <2>4. /\ Creating => Creating'
        /\ Removing => Removing'
        /\ Writing => Writing'
    BY <2>1, <2>2 DEF Creating, Removing, Writing, Overwrites, BytesAt
  <2>5. QED
    BY <2>1, <2>2, <2>3, <2>4 DEF Inv
<1>8. QED
  BY <1>1, <1>2, <1>3, <1>4, <1>5, <1>6, <1>7 DEF Next

\* The invariant holds in every state.
LEMMA AlwaysInv == Spec => []Inv
BY InitInv, StepInv, PTL DEF Spec

\* The sectors of a file in the words of the specification.
LEMMA SectorsShow ==
    ASSUME Formed(disk), Sane(disk)
    PROVE  /\ Listed = Used(disk)
           /\ \A i \in Listed :
                 /\ FetchDirectory[i].sector = Table(disk)[i].sector
                 /\ HeaderOf(disk, i) \in FileHeader
                 /\ IsInjective(SectorsOf(i)) /\ Range(SectorsOf(i)) = Owned(disk, i)
                 /\ \A k \in 1..Len(SectorsOf(i)) : SectorsOf(i)[k] \in Owned(disk, i)
<1>1. Listed = Used(disk)
  BY Fetched DEF Listed, Used
<1>2. ASSUME NEW i \in Used(disk)
      PROVE  /\ HeaderOf(disk, i) \in FileHeader
             /\ IsInjective(SectorsOf(i)) /\ Range(SectorsOf(i)) = Owned(disk, i)
             /\ \A k \in 1..Len(SectorsOf(i)) : SectorsOf(i)[k] \in Owned(disk, i)
  <2>1. PICK s : s = Table(disk)[i].sector
    OBVIOUS
  <2>2. PICK q : q = HeaderOf(disk, i).dataSectors
    OBVIOUS
  <2>3. PICK all : all = SectorsOf(i)
    OBVIOUS
  <2>4. all = <<s>> \o q
    BY <2>1, <2>2, <2>3, Fetched DEF SectorsOf, HeaderOf
  <2>5. HeaderOf(disk, i) \in FileHeader /\ q \in Seq(Sector) /\ IsInjective(q)
        /\ s \notin Range(q) /\ Owned(disk, i) = {s} \cup Range(q)
    BY <2>1, <2>2 DEF Sane, Headed, FileHeader, Owned
  <2>6. s \in Sector
    BY <2>1, TableTyped DEF Used
  <2>7. Len(q) \in Nat /\ \A k \in 1..Len(q) : q[k] \in Range(q)
    BY <2>5 DEF Range
  <2>8. /\ all \in Seq(Sector) /\ Len(all) = Len(q) + 1
        /\ all[1] = s /\ \A k \in 2..(Len(q) + 1) : all[k] = q[k - 1]
    <3>1. <<s>> \in Seq(Sector) /\ Len(<<s>>) = 1 /\ <<s>>[1] = s
      BY <2>6
    <3>2. all \in Seq(Sector) /\ Len(all) = Len(q) + 1
      BY <2>4, <2>5, <2>7, <3>1, ConcatProperties
    <3>3. \A k \in 1..(Len(<<s>>) + Len(q)) :
             all[k] = IF k <= Len(<<s>>) THEN <<s>>[k] ELSE q[k - Len(<<s>>)]
      BY <2>4, <2>5, <3>1, ConcatProperties
    <3>4. 1 \in 1..(Len(q) + 1) /\ 1 <= 1
      BY <2>7
    <3>5. all[1] = s
      BY <2>7, <3>1, <3>3, <3>4
    <3>6. \A k \in 2..(Len(q) + 1) : all[k] = q[k - 1]
      BY <2>7, <3>1, <3>3
    <3>7. QED
      BY <3>2, <3>5, <3>6
  <2>9. DOMAIN all = 1..(Len(q) + 1)
    BY <2>8
  <2>10. \A k \in 2..(Len(q) + 1) : k - 1 \in 1..Len(q) /\ all[k] \in Range(q)
    BY <2>7, <2>8
  <2>11. \A k \in 1..(Len(q) + 1) : k = 1 \/ k \in 2..(Len(q) + 1)
    BY <2>7
  <2>12. IsInjective(all)
    <3> SUFFICES ASSUME NEW k \in 1..(Len(q) + 1), NEW m \in 1..(Len(q) + 1), all[k] = all[m]
                 PROVE  k = m
      BY <2>9 DEF IsInjective
    <3>1. CASE k = 1 \/ m = 1
      BY <2>5, <2>8, <2>10, <2>11, <3>1
    <3>2. CASE k # 1 /\ m # 1
      <4>1. k \in 2..(Len(q) + 1) /\ m \in 2..(Len(q) + 1)
        BY <2>11, <3>2
      <4>2. q[k - 1] = q[m - 1] /\ k - 1 \in 1..Len(q) /\ m - 1 \in 1..Len(q)
        BY <2>8, <2>10, <4>1
      <4>3. DOMAIN q = 1..Len(q)
        BY <2>5
      <4>4. k - 1 = m - 1
        BY <2>5, <4>2, <4>3 DEF IsInjective
      <4>5. QED
        BY <4>1, <4>4
    <3>3. QED
      BY <3>1, <3>2
  <2>13. \A k \in 1..Len(all) : all[k] \in Owned(disk, i)
    BY <2>5, <2>8, <2>10, <2>11
  <2>14. Range(all) = Owned(disk, i)
    <3>1. ASSUME NEW x \in Range(q) PROVE x \in Range(all)
      <4>1. PICK k \in 1..Len(q) : x = q[k]
        BY <2>5 DEF Range
      <4>2. k + 1 \in 2..(Len(q) + 1) /\ (k + 1) - 1 = k /\ k + 1 \in 1..(Len(q) + 1)
        BY <2>7
      <4>3. all[k + 1] = x
        BY <2>8, <4>1, <4>2
      <4>4. QED
        BY <2>9, <4>2, <4>3 DEF Range
    <3>2. s \in Range(all)
      <4>1. 1 \in 1..(Len(q) + 1)
        BY <2>7
      <4>2. QED
        BY <2>8, <2>9, <4>1 DEF Range
    <3>3. Range(all) \subseteq Owned(disk, i)
      BY <2>8, <2>9, <2>13 DEF Range
    <3>4. QED
      BY <2>5, <3>1, <3>2, <3>3
  <2>15. QED
    BY <2>3, <2>5, <2>12, <2>13, <2>14
<1>3. QED
  BY <1>1, <1>2, Fetched

\* A name in the directory leads to a header, and no sector belongs to two files
\* or twice to one file, wherever the machine stops (the order of the writes of
\* Create and Remove; BitMap::Find).
THEOREM SpecNoSectorShared == Spec => []NoSectorShared
<1>1. Inv => NoSectorShared
  <2> SUFFICES ASSUME Inv, Formatted PROVE NoSectorShared
    BY DEF NoSectorShared
  <2>1. Formed(disk) /\ Sane(disk)
    BY DEF Inv, Formatted
  <2>2. /\ Listed = Used(disk)
        /\ \A i \in Listed :
              /\ FetchDirectory[i].sector = Table(disk)[i].sector
              /\ HeaderOf(disk, i) \in FileHeader
              /\ IsInjective(SectorsOf(i)) /\ Range(SectorsOf(i)) = Owned(disk, i)
              /\ \A k \in 1..Len(SectorsOf(i)) : SectorsOf(i)[k] \in Owned(disk, i)
    BY <2>1, SectorsShow
  <2>3. ASSUME NEW i \in Listed PROVE disk[FetchDirectory[i].sector].kind = "header"
    BY <2>2 DEF HeaderOf, FileHeader
  <2>4. ASSUME NEW i \in Listed
        PROVE  /\ \A k \in 1..Len(SectorsOf(i)) :
                     SectorsOf(i)[k] \notin {FreeMapSector, DirectorySector, FreeMapData}
                                               \cup Range(DirData)
               /\ \A j \in Listed \ {i} : Range(SectorsOf(i)) \cap Range(SectorsOf(j)) = {}
    <3>1. Owned(disk, i) \cap SystemSectors = {}
      BY <2>1, <2>2 DEF Sane, Headed
    <3>2. \A j \in Listed \ {i} : Owned(disk, i) \cap Owned(disk, j) = {}
      BY <2>1, <2>2 DEF Sane
    <3>3. QED
      BY <2>2, <3>1, <3>2 DEF SystemSectors
  <2>5. QED
    BY <2>2, <2>3, <2>4 DEF NoSectorShared
<1>2. QED
  BY <1>1, AlwaysInv, PTL

\* Between operations the free map marks the sectors of the files and of the file
\* system and no others, and no ASSERT of Deallocate fails (FileHeader::Allocate,
\* Deallocate).
THEOREM SpecMapIsExact == Spec => []MapIsExact
<1>1. Inv => MapIsExact
  <2> SUFFICES ASSUME Inv PROVE MapIsExact
    OBVIOUS
  <2>1. state # "abort"
    BY DEF Inv, Typed
  <2>2. ASSUME state = "up", todo = << >>
        PROVE  FetchFreeMap = {FreeMapSector, DirectorySector, FreeMapData} \cup Range(DirData)
                                 \cup UNION {Range(SectorsOf(i)) : i \in Listed}
    <3>1. Image = disk
      BY <2>2, ImageIsDisk DEF Inv
    <3>2. Exact(disk) /\ Formed(disk) /\ Sane(disk)
      BY <2>2, <3>1 DEF Inv
    <3>3. Listed = Used(disk) /\ \A i \in Listed : Range(SectorsOf(i)) = Owned(disk, i)
      BY <3>2, SectorsShow
    <3>4. {Range(SectorsOf(i)) : i \in Listed} = {Owned(disk, i) : i \in Used(disk)}
      BY <3>3
    <3>5. QED
      BY <3>2, <3>4 DEF Exact, FetchFreeMap, SystemSectors
  <2>3. QED
    BY <2>1, <2>2 DEF MapIsExact
<1>2. QED
  BY <1>1, AlwaysInv, PTL

-----------------------------------------------------------------------------
(***************************************************************************)
(* The refinement of Files                                                 *)
(***************************************************************************)

\* The bytes of the file with header hdr on a disk d, and of all its files.
BytesOf(d, s) == IF d[s].kind = "data" THEN d[s].bytes ELSE Blank.bytes
FileBytes(d, hdr) ==
    [b \in 1..hdr.numBytes |->
        BytesOf(d, hdr.dataSectors[(b - 1) \div SectorSize + 1])[((b - 1) % SectorSize) + 1]]

Holds(d, c) ==
    /\ DOMAIN c = {Table(d)[i].name : i \in Used(d)}
    /\ \A i \in Used(d) : c[Table(d)[i].name] = FileBytes(d, HeaderOf(d, i))

\* A byte of a file is in one of its sectors (FileHeader::ByteToSector).
LEMMA ByteInFile ==
    ASSUME NEW size \in Nat, NEW len \in Nat, size <= len * SectorSize, NEW b \in 1..size
    PROVE  /\ (b - 1) \div SectorSize + 1 \in 1..len
           /\ ((b - 1) % SectorSize) + 1 \in 1..SectorSize
           /\ b - 1 = ((b - 1) \div SectorSize) * SectorSize + ((b - 1) % SectorSize)
<1>1. SectorSize \in Nat \ {0}
  BY FileSystemAssumption
<1>2. PICK z \in Nat : z = b - 1
  OBVIOUS
<1>3. PICK q \in Nat, r \in 0..(SectorSize - 1) :
          q = z \div SectorSize /\ r = z % SectorSize /\ z = q * SectorSize + r
  BY <1>1, DivMod
<1>4. q < len
  <2> SUFFICES ASSUME q >= len PROVE FALSE
    BY <1>3
  <2>1. q * SectorSize >= len * SectorSize
    BY <1>1
  <2>2. q * SectorSize \in Nat /\ len * SectorSize \in Nat
    BY <1>1
  <2>3. QED
    BY <1>1, <1>2, <1>3, <2>1, <2>2
<1>5. QED
  BY <1>1, <1>2, <1>3, <1>4

\* Files whose data sectors are the same on two disks have the same bytes on both.
LEMMA SameBytes ==
    ASSUME NEW d, NEW e, NEW hdr \in FileHeader,
           hdr.numBytes <= Len(hdr.dataSectors) * SectorSize,
           \A k \in 1..Len(hdr.dataSectors) : d[hdr.dataSectors[k]] = e[hdr.dataSectors[k]]
    PROVE  FileBytes(d, hdr) = FileBytes(e, hdr)
<1>1. hdr.numBytes \in Nat /\ Len(hdr.dataSectors) \in Nat
  BY DEF FileHeader
<1>2. ASSUME NEW b \in 1..hdr.numBytes
      PROVE  BytesOf(d, hdr.dataSectors[(b - 1) \div SectorSize + 1])
                = BytesOf(e, hdr.dataSectors[(b - 1) \div SectorSize + 1])
  <2>1. (b - 1) \div SectorSize + 1 \in 1..Len(hdr.dataSectors)
    BY <1>1, ByteInFile
  <2>2. QED
    BY <2>1 DEF BytesOf
<1>3. QED
  BY <1>2 DEF FileBytes

\* The contents of the files are those that the disk holds.
Shows == IF Formatted THEN Holds(disk, Content) ELSE Content = << >>

\* Directory and headers lead to the contents (FileSystem::Open).
LEMMA ContentShows == Inv => Shows
<1> SUFFICES ASSUME Inv PROVE Shows
  OBVIOUS
<1>1. ASSUME ~Formatted PROVE Content = << >>
  <2>1. {m \in Name : Formatted /\ Lookup(FetchDirectory, m) # -1} = {}
    BY <1>1
  <2>2. QED
    BY <2>1 DEF Content
<1>2. ASSUME Formatted PROVE Holds(disk, Content)
  <2>1. Formed(disk) /\ Sane(disk)
    BY <1>2 DEF Inv, Formatted
  <2> DEFINE D == {m \in Name : Formatted /\ Lookup(FetchDirectory, m) # -1}
  <2>2. ASSUME NEW m PROVE m \in D <=> m \in {Table(disk)[i].name : i \in Used(disk)}
    <3>1. \A i \in Used(disk) : Table(disk)[i].name \in Name
      BY <2>1 DEF Sane, Headed
    <3>2. \A i \in Used(disk) : Table(disk)[i].name = m => Lookup(Table(disk), m) # -1
      BY <2>1, LookupFinds
    <3>3. Lookup(Table(disk), m) # -1 => \E i \in Used(disk) : Table(disk)[i].name = m
      BY <2>1, LookupFinds
    <3>4. QED
      BY <1>2, <3>1, <3>2, <3>3, Fetched
  <2>3. D = {Table(disk)[i].name : i \in Used(disk)}
    BY <2>2
  <2>4. DOMAIN Content = D
    BY DEF Content
  <2>5. ASSUME NEW i \in Used(disk)
        PROVE  Content[Table(disk)[i].name] = FileBytes(disk, HeaderOf(disk, i))
    <3>1. Table(disk)[i].name \in D
      BY <2>3
    <3>2. HeaderAt(Lookup(FetchDirectory, Table(disk)[i].name)) = HeaderOf(disk, i)
      BY <2>1, Fetched, LookupFinds DEF HeaderAt, HeaderOf
    <3>3. Content[Table(disk)[i].name] =
             [b \in 1..HeaderOf(disk, i).numBytes |-> ByteAt(HeaderOf(disk, i), b - 1)]
      BY <3>1, <3>2 DEF Content
    <3>4. QED
      BY <3>3 DEF FileBytes, ByteAt, BytesAt, BytesOf, ByteToSector
  <2>6. QED
    BY <2>3, <2>4, <2>5 DEF Holds
<1>3. QED
  BY <1>1, <1>2 DEF Shows

\* The same in the next state.
LEMMA ContentShowsNext == Inv' => Shows'
BY ContentShows, PTL

\* A step that changes neither the disk nor whether it is formatted changes no
\* file.
LEMMA SameContent ==
    ASSUME disk' = disk, Formatted' <=> Formatted
    PROVE  Content' = Content
<1>1. FetchDirectory' = FetchDirectory
  BY DEF FetchDirectory
<1>2. \A hdr : \A b : ByteAt(hdr, b)' = ByteAt(hdr, b)
  BY DEF ByteAt, BytesAt, ByteToSector
<1>3. \A s : HeaderAt(s)' = HeaderAt(s)
  BY DEF HeaderAt
<1>4. \A n : Lookup(FetchDirectory, n)' = Lookup(FetchDirectory, n)
  BY <1>1
<1>5. QED
  BY <1>1, <1>2, <1>3, <1>4 DEF Content, HeaderAt, ByteAt, BytesAt, ByteToSector

\* A write outside a file leaves its bytes alone.
LEMMA WroteElsewhere ==
    ASSUME Sane(disk), NEW e, NEW i \in Used(disk), NEW s,
           \A x \in Sector : x # s => e[x] = disk[x], s \notin Owned(disk, i)
    PROVE  FileBytes(disk, HeaderOf(disk, i)) = FileBytes(e, HeaderOf(disk, i))
<1> DEFINE hdr == HeaderOf(disk, i)
<1>1. hdr \in FileHeader /\ hdr.numBytes <= Len(hdr.dataSectors) * SectorSize
  BY DEF Sane, Headed
<1>2. ASSUME NEW k \in 1..Len(hdr.dataSectors)
      PROVE  disk[hdr.dataSectors[k]] = e[hdr.dataSectors[k]]
  BY DataSectors
<1> HIDE DEF hdr
<1>3. FileBytes(disk, hdr) = FileBytes(e, hdr)
  BY <1>1, <1>2, SameBytes
<1>4. QED
  BY <1>3 DEF hdr

\* Files that two disks share and whose bytes are the same have the same contents.
LEMMA Carried ==
    ASSUME NEW d, NEW c, NEW e, NEW f, Holds(d, c), Holds(e, f), Agree(d, e),
           \A i \in Used(d) \cap Used(e) :
               FileBytes(d, HeaderOf(d, i)) = FileBytes(e, HeaderOf(d, i))
    PROVE  \A i \in Used(d) \cap Used(e) :
               /\ Table(e)[i].name = Table(d)[i].name
               /\ Table(d)[i].name \in DOMAIN c /\ Table(d)[i].name \in DOMAIN f
               /\ f[Table(d)[i].name] = c[Table(d)[i].name]
<1> SUFFICES ASSUME NEW i \in Used(d) \cap Used(e)
             PROVE  /\ Table(e)[i].name = Table(d)[i].name
                    /\ Table(d)[i].name \in DOMAIN c /\ Table(d)[i].name \in DOMAIN f
                    /\ f[Table(d)[i].name] = c[Table(d)[i].name]
  OBVIOUS
<1>1. Table(e)[i] = Table(d)[i] /\ HeaderOf(e, i) = HeaderOf(d, i)
  BY DEF Agree
<1>2. Table(d)[i].name \in DOMAIN c /\ c[Table(d)[i].name] = FileBytes(d, HeaderOf(d, i))
  BY DEF Holds
<1>3. Table(e)[i].name \in DOMAIN f /\ f[Table(e)[i].name] = FileBytes(e, HeaderOf(e, i))
  BY DEF Holds
<1>4. QED
  BY <1>1, <1>2, <1>3

\* The names of the files.
LEMMA FileNames ==
    ASSUME NEW d, NEW c, Holds(d, c)
    PROVE  \A n : n \in DOMAIN c <=> \E i \in Used(d) : Table(d)[i].name = n
BY DEF Holds

\* Content is a function: it is known by what it says of each file.
LEMMA ContentEqual ==
    ASSUME DOMAIN Content' = DOMAIN Content, \A n \in DOMAIN Content : Content'[n] = Content[n]
    PROVE  Content' = Content
<1>1. Content = [n \in DOMAIN Content |-> Content[n]]
  BY DEF Content
<1>2. Content' = [n \in DOMAIN Content' |-> Content'[n]]
  BY DEF Content
<1>3. QED
  BY <1>1, <1>2

\* A sector that Create writes adds its file, or changes none.
LEMMA CreatingRefines ==
    ASSUME Inv, Inv', state = "up", Creating, WriteSector
    PROVE  [F!Next]_F!fvars
<1>1. /\ Creating' /\ Sane(disk') /\ Agree(disk', Image) /\ Used(disk) \subseteq Used(disk')
  BY CreatingStep
<1>2. /\ Typed /\ Sane(disk) /\ Sane(Image) /\ Agree(disk, Image)
      /\ Used(disk) \subseteq Used(Image)
      /\ \A i, j \in Used(Image) \ Used(disk) : i = j
  BY DEF Inv, Creating
<1>3. /\ todo[1].sector \in Sector /\ Len(todo) \in Nat \ {0}
      /\ disk' = [disk EXCEPT ![todo[1].sector] = Image[todo[1].sector]]
      /\ Image' = Image
  BY <1>2, WriteStep
<1>4. /\ state' = "up" /\ Formatted /\ Formatted' /\ answer' = << >>
  BY DEF WriteSector, Formatted
<1>5. Holds(disk, Content) /\ Holds(disk', Content')
  BY <1>4, ContentShows, ContentShowsNext DEF Shows
<1>6. Used(disk') \subseteq Used(Image)
  BY <1>1, <1>3 DEF Creating
<1>7. Agree(disk, disk')
  BY <1>1, <1>2, <1>6 DEF Agree
<1>8. ASSUME NEW i \in Used(disk)
      PROVE  FileBytes(disk, HeaderOf(disk, i)) = FileBytes(disk', HeaderOf(disk, i))
  <2> DEFINE s == todo[1].sector
  <2>1. s \notin Owned(disk, i)
    <3>1. Owned(disk, i) = Owned(Image, i)
      BY <1>2 DEF Agree, Owned
    <3>2. CASE s \in SystemSectors
      BY <1>2, <3>2 DEF Sane, Headed
    <3>3. CASE s \notin SystemSectors
      <4>1. 1 \in 1..Len(todo)
        BY <1>3
      <4>2. PICK j \in Used(Image) \ Used(disk) : s = Table(Image)[j].sector
        BY <3>3, <4>1 DEF Creating
      <4>3. s \in Owned(Image, j) /\ Owned(Image, i) \cap Owned(Image, j) = {}
        BY <1>2, <4>2 DEF Sane, Owned
      <4>4. QED
        BY <3>1, <4>3
    <3>4. QED
      BY <3>2, <3>3
  <2>2. \A x \in Sector : x # s => disk'[x] = disk[x]
    BY <1>2, <1>3 DEF Typed
  <2>3. QED
    BY <1>2, <2>1, <2>2, WroteElsewhere
<1>9. PICK c, f : c = Content /\ f = Content'
  OBVIOUS
<1>10. \A i \in Used(disk) :
          /\ Table(disk')[i].name = Table(disk)[i].name
          /\ Table(disk)[i].name \in DOMAIN c /\ Table(disk)[i].name \in DOMAIN f
          /\ f[Table(disk)[i].name] = c[Table(disk)[i].name]
  BY <1>1, <1>5, <1>7, <1>8, <1>9, Carried
<1>11. /\ \A n : n \in DOMAIN c <=> \E i \in Used(disk) : Table(disk)[i].name = n
       /\ \A n : n \in DOMAIN f <=> \E i \in Used(disk') : Table(disk')[i].name = n
  BY <1>5, <1>9, FileNames
<1>12. \A n \in DOMAIN c : n \in DOMAIN f /\ f[n] = c[n]
  BY <1>10, <1>11
<1>13. CASE Used(disk') = Used(disk)
  <2>1. \A n : n \in DOMAIN f <=> n \in DOMAIN c
    BY <1>10, <1>11, <1>13
  <2>2. DOMAIN f = DOMAIN c
    BY <2>1
  <2>3. Content' = Content
    BY <1>9, <1>12, <2>2, ContentEqual
  <2>4. QED
    BY <1>4, <2>3 DEF F!Next, F!Forget
<1>14. CASE Used(disk') # Used(disk)
  <2>1. PICK j \in Used(disk') : j \notin Used(disk)
    BY <1>1, <1>14
  <2>2. \A i \in Used(disk') : i = j \/ i \in Used(disk)
    BY <1>2, <1>6, <2>1
  <2>3. PICK n : n = Table(disk')[j].name
    OBVIOUS
  <2>4. n \in Name /\ \A i \in Used(disk) : Table(disk)[i].name # n
    BY <1>1, <1>10, <2>1, <2>3 DEF Sane, Headed
  <2>5. n \notin DOMAIN c /\ n \in DOMAIN f
    BY <1>11, <2>1, <2>3, <2>4
  <2>6. \A m : m \in DOMAIN f <=> m \in DOMAIN c \/ m = n
    BY <1>1, <1>10, <1>11, <2>1, <2>2, <2>3
  <2>7. DOMAIN f \ {n} = DOMAIN c \ {n}
    BY <2>6
  <2>8. F!Create(n)
    BY <1>4, <1>9, <1>12, <2>5, <2>7 DEF F!Create, F!Others, F!File, F!Forget
  <2>9. QED
    BY <2>4, <2>8 DEF F!Next
<1>15. QED
  BY <1>13, <1>14

\* A sector that Remove writes takes its file away, or changes none.
LEMMA RemovingRefines ==
    ASSUME Inv, Inv', state = "up", Removing, WriteSector
    PROVE  [F!Next]_F!fvars
<1>1. /\ Removing' /\ Sane(disk') /\ Agree(disk, disk') /\ Used(disk') \subseteq Used(disk)
  BY RemovingStep
<1>2. /\ Typed /\ Sane(disk)
      /\ Used(Image) \subseteq Used(disk)
      /\ \A i, j \in Used(disk) \ Used(Image) : i = j
  BY DEF Inv, Removing
<1>3. /\ todo[1].sector \in Sector /\ Len(todo) \in Nat \ {0}
      /\ disk' = [disk EXCEPT ![todo[1].sector] = Image[todo[1].sector]]
      /\ Image' = Image
  BY <1>2, WriteStep
<1>4. /\ state' = "up" /\ Formatted /\ Formatted' /\ answer' = << >>
  BY DEF WriteSector, Formatted
<1>5. Holds(disk, Content) /\ Holds(disk', Content')
  BY <1>4, ContentShows, ContentShowsNext DEF Shows
<1>6. Used(Image) \subseteq Used(disk')
  BY <1>1, <1>3 DEF Removing
<1>7. ASSUME NEW i \in Used(disk)
      PROVE  FileBytes(disk, HeaderOf(disk, i)) = FileBytes(disk', HeaderOf(disk, i))
  <2> DEFINE s == todo[1].sector
  <2>1. s \notin Owned(disk, i)
    <3>1. s \in SystemSectors
      BY <1>3 DEF Removing
    <3>2. QED
      BY <1>2, <3>1 DEF Sane, Headed
  <2>2. \A x \in Sector : x # s => disk'[x] = disk[x]
    BY <1>2, <1>3 DEF Typed
  <2>3. QED
    BY <1>2, <2>1, <2>2, WroteElsewhere
<1>8. PICK c, f : c = Content /\ f = Content'
  OBVIOUS
<1>9. \A i \in Used(disk') :
         /\ i \in Used(disk)
         /\ Table(disk')[i].name = Table(disk)[i].name
         /\ Table(disk)[i].name \in DOMAIN c /\ Table(disk)[i].name \in DOMAIN f
         /\ f[Table(disk)[i].name] = c[Table(disk)[i].name]
  BY <1>1, <1>5, <1>7, <1>8, Carried
<1>10. /\ \A n : n \in DOMAIN c <=> \E i \in Used(disk) : Table(disk)[i].name = n
       /\ \A n : n \in DOMAIN f <=> \E i \in Used(disk') : Table(disk')[i].name = n
  BY <1>5, <1>8, FileNames
<1>11. \A n \in DOMAIN f : n \in DOMAIN c /\ f[n] = c[n]
  BY <1>9, <1>10
<1>12. CASE Used(disk') = Used(disk)
  <2>1. \A n : n \in DOMAIN f <=> n \in DOMAIN c
    BY <1>9, <1>10, <1>12
  <2>2. DOMAIN f = DOMAIN c
    BY <2>1
  <2>3. Content' = Content
    BY <1>8, <1>11, <2>2, ContentEqual
  <2>4. QED
    BY <1>4, <2>3 DEF F!Next, F!Forget
<1>13. CASE Used(disk') # Used(disk)
  <2>1. PICK j \in Used(disk) : j \notin Used(disk')
    BY <1>1, <1>13
  <2>2. \A i \in Used(disk) : i = j \/ i \in Used(disk')
    BY <1>2, <1>6, <2>1
  <2>3. PICK n : n = Table(disk)[j].name
    OBVIOUS
  <2>4. n \in Name /\ \A i \in Used(disk') : Table(disk)[i].name # n
    BY <1>2, <1>9, <2>1, <2>3 DEF Sane, Headed
  <2>5. n \in DOMAIN c /\ n \notin DOMAIN f
    BY <1>9, <1>10, <2>1, <2>3, <2>4
  <2>6. \A m : m \in DOMAIN c <=> m \in DOMAIN f \/ m = n
    BY <1>9, <1>10, <2>1, <2>2, <2>3
  <2>7. DOMAIN f \ {n} = DOMAIN c \ {n}
    BY <2>6
  <2>8. F!Remove(n)
    BY <1>4, <1>8, <1>11, <2>5, <2>7 DEF F!Remove, F!Others, F!File, F!Forget
  <2>9. QED
    BY <2>4, <2>8 DEF F!Next
<1>14. QED
  BY <1>12, <1>13

\* The bytes of a file after one of its sectors has been written.
LEMMA WroteInside ==
    ASSUME Sane(disk), NEW e, NEW i \in Used(disk), NEW k \in 1..Len(HeaderOf(disk, i).dataSectors),
           NEW w, Overwrites(w, HeaderOf(disk, i), k),
           e[w.sector] = w.to, \A x \in Sector : x # w.sector => e[x] = disk[x],
           NEW b \in 1..HeaderOf(disk, i).numBytes
    PROVE  \/ FileBytes(e, HeaderOf(disk, i))[b] = FileBytes(disk, HeaderOf(disk, i))[b]
           \/ /\ b \in ((k - 1) * SectorSize + 1)..(k * SectorSize)
              /\ FileBytes(e, HeaderOf(disk, i))[b] \in Byte
<1> DEFINE hdr == HeaderOf(disk, i)
<1>1. /\ hdr \in FileHeader /\ hdr.numBytes <= Len(hdr.dataSectors) * SectorSize
      /\ IsInjective(hdr.dataSectors)
  BY DEF Sane, Headed
<1>2. hdr.numBytes \in Nat /\ hdr.dataSectors \in Seq(Sector) /\ Len(hdr.dataSectors) \in Nat
      /\ SectorSize \in Nat \ {0}
  BY <1>1, FileSystemAssumption DEF FileHeader
<1> HIDE DEF hdr
<1>3. b \in 1..hdr.numBytes /\ k \in 1..Len(hdr.dataSectors) /\ Overwrites(w, hdr, k)
  BY DEF hdr
<1>4. PICK q \in Int, r \in Int : q = (b - 1) \div SectorSize /\ r = (b - 1) % SectorSize
  BY <1>2, <1>3
<1>5. /\ q + 1 \in 1..Len(hdr.dataSectors) /\ r + 1 \in 1..SectorSize
      /\ b - 1 = q * SectorSize + r
  BY <1>1, <1>2, <1>3, <1>4, ByteInFile
<1>6. \A d : FileBytes(d, hdr)[b] = BytesOf(d, hdr.dataSectors[q + 1])[r + 1]
  BY <1>3, <1>4 DEF FileBytes
<1>7. CASE hdr.dataSectors[q + 1] # w.sector
  <2>1. hdr.dataSectors[q + 1] \in Sector
    BY <1>2, <1>5
  <2>2. e[hdr.dataSectors[q + 1]] = disk[hdr.dataSectors[q + 1]]
    BY <1>7, <2>1
  <2>3. FileBytes(e, hdr)[b] = FileBytes(disk, hdr)[b]
    BY <1>6, <2>2 DEF BytesOf
  <2>4. QED
    BY <2>3 DEF hdr
<1>8. CASE hdr.dataSectors[q + 1] = w.sector
  <2>1. q + 1 = k
    <3>1. hdr.dataSectors[q + 1] = hdr.dataSectors[k]
      BY <1>3, <1>8 DEF Overwrites
    <3>2. DOMAIN hdr.dataSectors = 1..Len(hdr.dataSectors)
      BY <1>2
    <3>3. QED
      BY <1>1, <1>3, <1>5, <3>1, <3>2 DEF IsInjective
  <2>2. w.to \in DataSector
    BY <1>3 DEF Overwrites
  <2>3. FileBytes(e, hdr)[b] = w.to.bytes[r + 1]
    BY <1>6, <1>8, <2>2 DEF BytesOf, DataSector
  <2> k \in Nat /\ k >= 1 /\ b \in Nat /\ q \in Int /\ r \in Int /\ r >= 0 /\ r < SectorSize
    BY <1>2, <1>3, <1>4, <1>5
  <2>4. (k - 1) * SectorSize \in Nat /\ b = (k - 1) * SectorSize + (r + 1)
    <3>1. k - 1 = q /\ q \in Nat
      BY <2>1
    <3>2. q * SectorSize \in Nat
      BY <1>2, <3>1
    <3>3. b - 1 = q * SectorSize + r
      BY <1>5
    <3>4. PICK z \in Nat : z = q * SectorSize
      BY <3>2
    <3>5. b = z + (r + 1)
      BY <3>3, <3>4
    <3>6. QED
      BY <3>1, <3>2, <3>4, <3>5
  <2>5. (k - 1) * SectorSize + (r + 1) <= hdr.numBytes
    BY <1>3, <2>4
  <2>6. w.to.bytes[r + 1] \in Byte \cup {BytesAt(w.sector)[r + 1]}
    BY <1>3, <1>5, <2>5 DEF Overwrites
  <2>7. FileBytes(disk, hdr)[b] = BytesAt(w.sector)[r + 1]
    BY <1>6, <1>8 DEF BytesOf, BytesAt
  <2>8. b \in ((k - 1) * SectorSize + 1)..(k * SectorSize)
    <3>1. k * SectorSize = (k - 1) * SectorSize + SectorSize
      BY <1>2
    <3>2. PICK z \in Nat : z = (k - 1) * SectorSize
      BY <2>4
    <3>3. b \in (z + 1)..(z + SectorSize)
      BY <1>2, <2>4, <3>2
    <3>4. QED
      BY <3>1, <3>2, <3>3
  <2>9. QED
    BY <2>3, <2>6, <2>7, <2>8 DEF hdr
<1>9. QED
  BY <1>7, <1>8

\* The bytes of a file are a sequence, as long as its header says.
LEMMA FileBytesSeq ==
    ASSUME NEW d, NEW hdr \in FileHeader
    PROVE  LET g == FileBytes(d, hdr)
           IN  /\ hdr.numBytes \in Nat
               /\ g \in Seq({g[b] : b \in 1..hdr.numBytes}) /\ Len(g) = hdr.numBytes
               /\ g = [b \in 1..hdr.numBytes |-> g[b]]
<1> DEFINE g == FileBytes(d, hdr)
<1>1. hdr.numBytes \in Nat
  BY DEF FileHeader
<1>2. g = [b \in 1..hdr.numBytes |-> g[b]]
  BY DEF FileBytes
<1> HIDE DEF g
<1>3. g \in [1..hdr.numBytes -> {g[b] : b \in 1..hdr.numBytes}]
  BY <1>2
<1>4. g \in Seq({g[b] : b \in 1..hdr.numBytes}) /\ Len(g) = hdr.numBytes
  BY <1>1, <1>3
<1>5. QED
  BY <1>1, <1>2, <1>4 DEF g

\* A sector that Write writes changes bytes of that sector of its file to what the
\* user writes.
LEMMA WritingRefines ==
    ASSUME Inv, Inv', state = "up", Writing, WriteSector
    PROVE  [F!Next]_F!fvars
<1> DEFINE s == todo[1].sector
<1>1. /\ Sane(disk') /\ Agree(disk, disk') /\ Used(disk') = Used(disk)
  BY WritingStep
<1>2. Typed /\ Sane(disk)
  BY DEF Inv
<1>3. /\ s \in Sector /\ Len(todo) \in Nat \ {0}
      /\ disk' = [disk EXCEPT ![s] = Image[s]]
  BY <1>2, WriteStep
<1>4. /\ state' = "up" /\ Formatted /\ Formatted' /\ answer' = << >>
  BY DEF WriteSector, Formatted
<1>5. Holds(disk, Content) /\ Holds(disk', Content')
  BY <1>4, ContentShows, ContentShowsNext DEF Shows
<1>6. 1 \in 1..Len(todo)
  BY <1>3
<1>7. PICK i0 \in Used(disk) : \E k \in 1..Len(HeaderOf(disk, i0).dataSectors) :
                                   Overwrites(todo[1], HeaderOf(disk, i0), k)
  BY <1>6 DEF Writing
<1> DEFINE hdr == HeaderOf(disk, i0)
<1>8. PICK k0 \in 1..Len(hdr.dataSectors) : Overwrites(todo[1], hdr, k0)
  BY <1>7
<1>9. s \in Owned(disk, i0)
  BY <1>2, <1>8, DataSectors DEF Overwrites
<1>10. /\ disk'[s] = todo[1].to
       /\ \A x \in Sector : x # s => disk'[x] = disk[x]
  BY <1>2, <1>3, <1>6, ImageShows DEF Typed
<1>11. PICK c, f : c = Content /\ f = Content'
  OBVIOUS
<1>12. PICK n : n = Table(disk)[i0].name
  OBVIOUS
<1>13. /\ \A m : m \in DOMAIN c <=> \E i \in Used(disk) : Table(disk)[i].name = m
       /\ \A m : m \in DOMAIN f <=> \E i \in Used(disk') : Table(disk')[i].name = m
  BY <1>5, <1>11, FileNames
<1>14. \A i \in Used(disk) : Table(disk')[i] = Table(disk)[i] /\ HeaderOf(disk', i) = HeaderOf(disk, i)
  BY <1>1 DEF Agree
<1>15. DOMAIN f = DOMAIN c /\ n \in DOMAIN c
  <2>1. \A m : m \in DOMAIN f <=> m \in DOMAIN c
    BY <1>1, <1>13, <1>14
  <2>2. QED
    BY <1>12, <1>13, <2>1
<1>16. ASSUME NEW m \in DOMAIN c, m # n PROVE f[m] = c[m]
  <2>1. PICK i \in Used(disk) : Table(disk)[i].name = m
    BY <1>13
  <2>2. i # i0
    BY <1>12, <1>16, <2>1
  <2>3. s \notin Owned(disk, i)
    BY <1>2, <1>9, <2>2 DEF Sane
  <2>4. FileBytes(disk, HeaderOf(disk, i)) = FileBytes(disk', HeaderOf(disk, i))
    BY <1>2, <1>10, <2>3, WroteElsewhere
  <2>5. c[m] = FileBytes(disk, HeaderOf(disk, i)) /\ f[m] = FileBytes(disk', HeaderOf(disk', i))
    BY <1>1, <1>5, <1>11, <1>14, <2>1 DEF Holds
  <2>6. QED
    BY <1>14, <2>4, <2>5
<1>17. c[n] = FileBytes(disk, hdr) /\ f[n] = FileBytes(disk', hdr)
  BY <1>1, <1>5, <1>11, <1>12, <1>14 DEF Holds
<1>18. hdr \in FileHeader
  BY <1>2 DEF Sane, Headed
<1>19. \A b \in 1..hdr.numBytes :
          \/ f[n][b] = c[n][b]
          \/ b \in ((k0 - 1) * SectorSize + 1)..(k0 * SectorSize) /\ f[n][b] \in Byte
  BY <1>2, <1>8, <1>10, <1>17, WroteInside
<1> HIDE DEF hdr, s
<1>20. /\ hdr.numBytes \in Nat /\ Len(c[n]) = hdr.numBytes /\ Len(f[n]) = hdr.numBytes
       /\ c[n] = [b \in 1..hdr.numBytes |-> c[n][b]]
       /\ f[n] = [b \in 1..hdr.numBytes |-> f[n][b]]
  <2>1. /\ hdr.numBytes \in Nat /\ Len(FileBytes(disk, hdr)) = hdr.numBytes
        /\ FileBytes(disk, hdr) = [b \in 1..hdr.numBytes |-> FileBytes(disk, hdr)[b]]
    BY <1>18, FileBytesSeq
  <2>2. /\ Len(FileBytes(disk', hdr)) = hdr.numBytes
        /\ FileBytes(disk', hdr) = [b \in 1..hdr.numBytes |-> FileBytes(disk', hdr)[b]]
    BY <1>18, FileBytesSeq
  <2>3. QED
    BY <1>17, <2>1, <2>2
<1>21. k0 \in Nat /\ k0 >= 1
  OBVIOUS
<1>22. CASE k0 - 1 <= hdr.numBytes
  <2>1. PICK k \in 0..Len(c[n]) : k = k0 - 1
    BY <1>20, <1>21, <1>22
  <2>2. k + 1 = k0
    BY <1>21, <2>1
  <2>3. \A b \in 1..Len(c[n]) :
          \/ f[n][b] = c[n][b]
          \/ b \in (k * SectorSize + 1)..((k + 1) * SectorSize) /\ f[n][b] \in Byte
    <3>1. PICK lo, hi : lo = (k0 - 1) * SectorSize + 1 /\ hi = k0 * SectorSize
      OBVIOUS
    <3>2. \A b \in 1..Len(c[n]) : f[n][b] = c[n][b] \/ (b \in lo..hi /\ f[n][b] \in Byte)
      BY <1>19, <1>20, <3>1
    <3>3. lo = k * SectorSize + 1 /\ hi = (k + 1) * SectorSize
      BY <2>1, <2>2, <3>1
    <3>4. QED
      BY <3>2, <3>3
  <2>4. F!Write(n, k)
    BY <1>4, <1>11, <1>15, <1>16, <1>20, <2>3 DEF F!Write, F!Others, F!File, F!Forget
  <2>5. QED
    BY <1>11, <1>15, <2>1, <2>4 DEF F!Next, F!File
<1>23. CASE ~(k0 - 1 <= hdr.numBytes)
  <2>1. (k0 - 1) * SectorSize >= k0 - 1
    BY <1>21, FileSystemAssumption
  <2>2. (k0 - 1) * SectorSize \in Nat
    BY <1>21, FileSystemAssumption
  <2>3. \A b \in 1..hdr.numBytes : b \notin ((k0 - 1) * SectorSize + 1)..(k0 * SectorSize)
    BY <1>20, <1>21, <1>23, <2>1, <2>2
  <2>4. \A b \in 1..hdr.numBytes : f[n][b] = c[n][b]
    BY <1>19, <2>3
  <2>5. f[n] = c[n]
    BY <1>20, <2>4
  <2>6. Content' = Content
    BY <1>11, <1>15, <1>16, <2>5, ContentEqual
  <2>7. QED
    BY <1>4, <2>6 DEF F!Next, F!Forget
<1>24. QED
  BY <1>22, <1>23

\* Where the part of a sequence from p + 1 to p + got lies.
LEMMA InMiddle ==
    ASSUME NEW p \in Nat, NEW got \in Nat, NEW nb \in Nat, p + got <= nb
    PROVE  /\ p \in 0..nb /\ got \in 0..nb
           /\ p + 1 \in 1..(nb + 1) /\ p + got \in p..nb
           /\ p + got - (p + 1) + 1 = got
           /\ \A b \in 1..got : /\ p + b \in 1..nb
                               /\ p + b - 1 = (p + b) - 1
                               /\ p + 1 + b - 1 = p + b
  OBVIOUS

\* That part is a sequence of the elements there.
LEMMA Middle ==
    ASSUME NEW S, NEW q \in Seq(S), NEW nb \in Nat, Len(q) = nb,
           NEW p \in Nat, NEW got \in Nat, p + got <= nb
    PROVE  SubSeq(q, p + 1, p + got) = [b \in 1..got |-> q[p + b]]
<1>1. p + 1 \in 1..(Len(q) + 1) /\ p + got \in p..Len(q)
  BY InMiddle
<1>2. SubSeq(q, p + 1, p + got) = [b \in 1..(p + got - (p + 1) + 1) |-> q[p + 1 + b - 1]]
  BY <1>1
<1>3. QED
  BY <1>2, InMiddle

\* Read returns bytes of the file, as they are on disk.
LEMMA ReadRefines ==
    ASSUME Inv, NEW h \in 1..Len(openFiles), NEW num \in Nat, Read(h, num)
    PROVE  [F!Next]_F!fvars
<1> DEFINE o == openFiles[h]
<1>1. /\ Typed /\ Opened /\ todo = << >> /\ disk' = disk /\ state' = state /\ Formatted
      /\ answer' = ReadAt(o.hdr, num, o.seekPosition)
      /\ Sane(disk)
  BY DEF Inv, Read, MayUse, Formatted
<1>2. Image = disk
  BY <1>1, ImageIsDisk
<1>3. o \in OpenedFile
  BY <1>1 DEF Typed
<1>4. PICK hdr \in FileHeader, p \in Nat, n \in Name : hdr = o.hdr /\ p = o.seekPosition /\ n = o.name
  BY <1>3 DEF OpenedFile
<1>5. PICK got \in Nat : /\ got = Granted(hdr, num, p)
                         /\ got # 0 => p + got <= hdr.numBytes
  BY GrantedBounds
<1>6. answer' = [i \in 1..got |-> ByteAt(hdr, p + i - 1)]
  BY <1>1, <1>4, <1>5 DEF ReadAt
<1>7. Content' = Content
  BY <1>1, SameContent DEF Formatted
<1>8. CASE got = 0
  <2>1. answer' = << >>
    BY <1>6, <1>8
  <2>2. QED
    BY <1>7, <2>1 DEF F!Next, F!Forget
<1>9. CASE got # 0
  <2>1. PICK i \in Used(disk) : Table(disk)[i].name = n /\ HeaderOf(disk, i) = hdr
    BY <1>1, <1>2, <1>4 DEF Opened
  <2>2. Holds(disk, Content)
    BY <1>1, ContentShows DEF Shows
  <2>3. PICK c : c = Content
    OBVIOUS
  <2>4. n \in DOMAIN c /\ c[n] = FileBytes(disk, hdr)
    BY <2>1, <2>2, <2>3 DEF Holds
  <2>5. /\ hdr.numBytes \in Nat /\ Len(c[n]) = hdr.numBytes
        /\ c[n] \in Seq({c[n][b] : b \in 1..hdr.numBytes})
    BY <2>4, FileBytesSeq
  <2>6. PICK nb \in Nat : nb = hdr.numBytes
    BY <2>5
  <2>7. Len(c[n]) = nb /\ p + got <= nb
    BY <1>5, <1>9, <2>5, <2>6
  <2>8. \A b \in 1..nb : c[n][b] = ByteAt(hdr, b - 1)
    BY <2>4, <2>6 DEF FileBytes, ByteAt, BytesAt, BytesOf, ByteToSector
  <2>9. SubSeq(c[n], p + 1, p + got) = [b \in 1..got |-> c[n][p + b]]
    BY <2>5, <2>7, Middle
  <2>10. \A b \in 1..got : p + b \in 1..nb /\ p + b - 1 = (p + b) - 1
    BY <2>7, InMiddle
  <2>11. answer' = SubSeq(c[n], p + 1, p + got)
    BY <1>6, <2>8, <2>9, <2>10
  <2>12. p \in 0..Len(c[n]) /\ got \in 0..Len(c[n]) /\ p + got <= Len(c[n])
    BY <2>7, InMiddle
  <2>13. F!Read(n, p, got)
    BY <1>7, <2>3, <2>11, <2>12 DEF F!Read
  <2>14. QED
    BY <2>3, <2>4, <2>12, <2>13 DEF F!Next, F!File
<1>10. QED
  BY <1>8, <1>9

\* The last sector that formatting writes shows a disk without files (the
\* constructor FileSystem).
LEMMA FormatRefines ==
    ASSUME Inv, Inv', state = "format", WriteSector
    PROVE  [F!Next]_F!fvars
<1>1. Typed /\ Used(Image) = {} /\ answer' = << >> /\ state' \in {"format", "up"}
  BY DEF Inv, WriteSector
<1>2. Content = << >>
  BY ContentShows DEF Shows, Formatted
<1>3. CASE state' = "format"
  <2>1. Content' = << >>
    BY <1>3, ContentShowsNext DEF Shows, Formatted
  <2>2. QED
    BY <1>1, <1>2, <2>1 DEF F!Next, F!Forget
<1>4. CASE state' = "up"
  <2>1. Len(todo) = 1 /\ Len(todo') = 0 /\ todo' \in Seq(WriteTo) /\ Image' = Image
    BY <1>1, <1>4, WriteStep DEF WriteSector
  <2>2. todo' = << >> /\ disk' \in [Sector -> Contents]
    BY <1>1, <2>1, WriteStep
  <2>3. Image' = disk'
    <3>1. \A x \in Sector : ~Pending(x)'
      BY <2>2 DEF Pending, PendingIn
    <3>2. QED
      BY <2>2, <3>1 DEF Image, ImageOf, Pending
  <2>4. Used(disk') = {}
    BY <1>1, <2>1, <2>3
  <2>5. Holds(disk', Content')
    BY <1>4, ContentShowsNext DEF Shows, Formatted
  <2>6. DOMAIN Content' = {}
    BY <2>4, <2>5 DEF Holds
  <2>7. DOMAIN Content = {}
    BY <1>2
  <2>8. Content' = Content
    BY <2>6, <2>7, ContentEqual
  <2>9. QED
    BY <1>1, <2>8 DEF F!Next, F!Forget
<1>5. QED
  BY <1>1, <1>3, <1>4

\* A step that writes no sector shows only what Read returns.
LEMMA QuietRefines ==
    ASSUME disk' = disk, Formatted' <=> Formatted, answer' = << >>
    PROVE  [F!Next]_F!fvars
<1>1. Content' = Content
  BY SameContent
<1>2. QED
  BY <1>1 DEF F!Next, F!Forget

\* Every step is a step of Files, or none.
LEMMA StepRefines == Inv /\ Inv' /\ [Next]_vars => [F!Next]_F!fvars
<1> SUFFICES ASSUME Inv, Inv', [Next]_vars PROVE [F!Next]_F!fvars
  OBVIOUS
<1> FileSizes \subseteq Nat /\ Transfers \subseteq Nat
  BY FileSystemAssumption
<1>1. CASE WriteSector
  <2>1. state \in {"format", "up"} /\ (state = "up" => Creating \/ Removing \/ Writing)
    BY <1>1 DEF Inv, Typed, WriteSector
  <2>2. CASE state = "format"
    BY <1>1, <2>2, FormatRefines
  <2>3. CASE state = "up"
    BY <1>1, <2>1, <2>3, CreatingRefines, RemovingRefines, WritingRefines
  <2>4. QED
    BY <2>1, <2>2, <2>3
<1>2. CASE Crash
  BY <1>2, QuietRefines DEF Crash, Formatted
<1>3. ASSUME NEW n \in Name, RemoveFile(n) PROVE [F!Next]_F!fvars
  <2>1. disk' = disk /\ answer' = << >> /\ state = "up" /\ state' \in {"up", "abort"}
    BY <1>3 DEF RemoveFile, Ready
  <2>2. QED
    BY <2>1, QuietRefines DEF Formatted
<1>4. ASSUME NEW n \in Name, Open(n) PROVE [F!Next]_F!fvars
  BY <1>4, QuietRefines DEF Open, Formatted
<1>5. ASSUME NEW n \in Name, NEW size \in FileSizes, Create(n, size) PROVE [F!Next]_F!fvars
  BY <1>5, QuietRefines DEF Create, Formatted
<1>6. ASSUME NEW h \in 1..Len(openFiles), Use(h) PROVE [F!Next]_F!fvars
  <2>1. CASE Close(h)
    BY <2>1, QuietRefines DEF Close, Formatted
  <2>2. ASSUME NEW size \in FileSizes, NEW position \in 0..size, Seek(h, position)
        PROVE  [F!Next]_F!fvars
    BY <2>2, QuietRefines DEF Seek, Formatted
  <2>3. ASSUME NEW num \in Transfers, Read(h, num) PROVE [F!Next]_F!fvars
    BY <2>3, ReadRefines
  <2>4. ASSUME NEW num \in Transfers, NEW b \in Byte, Write(h, [i \in 1..num |-> b])
        PROVE  [F!Next]_F!fvars
    BY <2>4, QuietRefines DEF Write, Formatted
  <2>5. QED
    BY <1>6, <2>1, <2>2, <2>3, <2>4 DEF Use
<1>7. CASE UNCHANGED vars
  <2>1. disk' = disk /\ answer' = answer /\ (Formatted' <=> Formatted)
    BY <1>7 DEF vars, Formatted
  <2>2. Content' = Content
    BY <2>1, SameContent
  <2>3. QED
    BY <2>1, <2>2 DEF F!fvars
<1>8. QED
  BY <1>1, <1>2, <1>3, <1>4, <1>5, <1>6, <1>7 DEF Next

\* Seen through its directory the disk is a set of files: each sector that is
\* written changes one file as its operation says, Create and Remove take effect
\* at once, and Read returns what the file holds, crash or no crash.
THEOREM SpecImplementsFiles == Spec => ImplementsFiles
<1>1. Init => F!Init
  <2> SUFFICES ASSUME Init PROVE F!Init
    OBVIOUS
  <2>1. Content = << >>
    BY InitInv, ContentShows DEF Shows, Formatted, Init
  <2>2. answer = << >>
    BY DEF Init
  <2>3. QED
    BY <2>1, <2>2 DEF F!Init
<1>2. QED
  BY <1>1, AlwaysInv, StepRefines, PTL DEF Spec, ImplementsFiles, F!Spec
=============================================================================
