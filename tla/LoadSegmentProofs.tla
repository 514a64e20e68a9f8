------------------------- MODULE LoadSegmentProofs -------------------------
(***************************************************************************)
(* Proofs about loading programs (modules Noff and LoadSegment): from the  *)
(* sections of the COFF file to the bytes in memory, for every size of a   *)
(* page, of memory and of a section.                                       *)
(*                                                                         *)
(* The argument has two halves.  coff2noff: each segment of the NOFF file  *)
(* holds a section, and each section with contents is in its segment       *)
(* (NoffInv, an induction over the sections).  LoadSegment: every section  *)
(* is loaded, is being loaded or is in a call still to come, and memory    *)
(* outside the sections is as the constructor found it (LoadInv, the       *)
(* inductive invariant of LoadSpec).                                       *)
(***************************************************************************)
EXTENDS LoadSegment, AddrSpaceProofs

-----------------------------------------------------------------------------
(***************************************************************************)
(* The converter                                                           *)
(***************************************************************************)

\* The NOFF file and the sections of the COFF file.
Segment == [virtualAddr : Nat, inFileAddr : Nat, size : Nat]
NoffHeader == [code : Segment, initData : Segment, uninitData : Segment]
NoffFile == [noffH : NoffHeader, body : Seq(Nat), exit : BOOLEAN]
SectionNames == {".text", ".rdata", ".data", ".sbss", ".bss"}
CoffSection == [s_name : SectionNames, s_paddr : Nat, s_size : Nat, s_scnptr : Nat]

\* The NOFF file after a section has been copied to it (CopySegment), field by
\* field.
LEMMA CopiedFields ==
    ASSUME NEW noff \in NoffFile, NEW section \in CoffSection,
           NEW part \in {"code", "initData"}
    PROVE  LET r == CopySegment(noff, part, section)
               g == [virtualAddr |-> section.s_paddr, inFileAddr |-> inNoffFile(noff),
                     size |-> section.s_size]
           IN  /\ r \in NoffFile
               /\ g \in Segment
               /\ r.noffH.code = IF part = "code" THEN g ELSE noff.noffH.code
               /\ r.noffH.initData = IF part = "initData" THEN g ELSE noff.noffH.initData
               /\ r.noffH.uninitData = noff.noffH.uninitData
               /\ r.body = noff.body \o Contents(section)
               /\ r.exit = noff.exit
<1> DEFINE r == CopySegment(noff, part, section)
<1> DEFINE g == [virtualAddr |-> section.s_paddr, inFileAddr |-> inNoffFile(noff),
                 size |-> section.s_size]
<1>1. noff.noffH \in NoffHeader /\ noff.body \in Seq(Nat) /\ noff.exit \in BOOLEAN
  BY DEF NoffFile
<1>2. g \in Segment
  BY <1>1 DEF Segment, CoffSection, inNoffFile, SizeofNoffHeader
<1>3. Contents(section) \in Seq(Nat)
  BY DEF Contents, CoffSection
<1>4. /\ r.noffH = [noff.noffH EXCEPT ![part] = g]
      /\ r.body = noff.body \o Contents(section)
      /\ r.exit = noff.exit
      /\ r = [noffH |-> r.noffH, body |-> r.body, exit |-> r.exit]
  BY DEF CopySegment
<1> HIDE DEF g, r
<1>5. /\ r.noffH \in NoffHeader
      /\ r.noffH.code = IF part = "code" THEN g ELSE noff.noffH.code
      /\ r.noffH.initData = IF part = "initData" THEN g ELSE noff.noffH.initData
      /\ r.noffH.uninitData = noff.noffH.uninitData
  <2>1. CASE part = "code"
    BY <1>1, <1>2, <1>4, <2>1 DEF NoffHeader
  <2>2. CASE part = "initData"
    BY <1>1, <1>2, <1>4, <2>2 DEF NoffHeader
  <2> QED BY <2>1, <2>2
<1>6. r.body \in Seq(Nat)
  BY <1>1, <1>3, <1>4
<1>7. r.exit \in BOOLEAN
  BY <1>1, <1>4
<1>8. r \in NoffFile
  BY <1>4, <1>5, <1>6, <1>7, Zenon DEF NoffFile
<1> QED BY <1>2, <1>4, <1>5, <1>8 DEF r, g

\* The converter gives up: nothing but exit changes.
LEMMA GaveUpFields ==
    ASSUME NEW noff \in NoffFile
    PROVE  /\ GiveUp(noff) \in NoffFile
           /\ GiveUp(noff).exit
           /\ GiveUp(noff).noffH = noff.noffH
           /\ GiveUp(noff).body = noff.body
<1>1. GiveUp(noff) \in NoffFile
  BY Zenon DEF GiveUp, NoffFile
<1> QED BY <1>1 DEF GiveUp, NoffFile

\* A section without contents (Reserve) leaves the bytes and the segments with
\* contents alone.
LEMMA ReservedFields ==
    ASSUME NEW noff \in NoffFile, NEW section \in CoffSection
    PROVE  LET r == Reserve(noff, section)
           IN  /\ r \in NoffFile
               /\ r.noffH.code = noff.noffH.code
               /\ r.noffH.initData = noff.noffH.initData
               /\ r.body = noff.body
               /\ ~r.exit => ~noff.exit
<1> DEFINE u == noff.noffH.uninitData
<1>1. ASSUME NEW g \in Segment
      PROVE  LET r == [noff EXCEPT !.noffH.uninitData = g]
             IN  /\ r \in NoffFile
                 /\ r.noffH.code = noff.noffH.code
                 /\ r.noffH.initData = noff.noffH.initData
                 /\ r.body = noff.body
                 /\ r.exit = noff.exit
  <2> DEFINE h == [noff.noffH EXCEPT !.uninitData = g]
  <2> DEFINE r == [noff EXCEPT !.noffH = h]
  <2>1. h \in NoffHeader /\ h.code = noff.noffH.code /\ h.initData = noff.noffH.initData
    BY DEF NoffFile, NoffHeader
  <2>2. [noff EXCEPT !.noffH.uninitData = g] = r
    BY Zenon
  <2> HIDE DEF h
  <2>3. r \in NoffFile
    BY <2>1, Zenon DEF NoffFile
  <2>4. r.noffH = h /\ r.body = noff.body /\ r.exit = noff.exit
    BY DEF NoffFile
  <2> HIDE DEF r
  <2> QED BY <2>1, <2>2, <2>3, <2>4
<1>2. u \in Segment
  BY DEF NoffFile, NoffHeader
<1>3. CASE u.size = 0
  <2> DEFINE g == [virtualAddr |-> section.s_paddr, inFileAddr |-> 0, size |-> section.s_size]
  <2>1. g \in Segment
    BY DEF Segment, CoffSection
  <2>2. Reserve(noff, section) = [noff EXCEPT !.noffH.uninitData = g]
    BY <1>3 DEF Reserve
  <2> HIDE DEF g
  <2> QED BY <1>1, <2>1, <2>2
<1>4. CASE u.size # 0 /\ section.s_paddr = u.virtualAddr + u.size
  <2>1. Reserve(noff, section) = GiveUp(noff)
    BY <1>4 DEF Reserve
  <2> QED BY <2>1, GaveUpFields
<1>5. CASE u.size # 0 /\ section.s_paddr # u.virtualAddr + u.size
  <2> DEFINE g == [u EXCEPT !.size = @ + section.s_size]
  <2>1. g \in Segment
    BY <1>2 DEF Segment, CoffSection
  <2>2. Reserve(noff, section) = [noff EXCEPT !.noffH.uninitData = g]
    BY <1>5 DEF Reserve
  <2> HIDE DEF g
  <2> QED BY <1>1, <2>1, <2>2
<1> QED BY <1>3, <1>4, <1>5

\* The file is empty at first.
LEMMA EmptyIsNoff == EmptyNoff \in NoffFile
<1>1. NoSegment \in Segment
  BY DEF NoSegment, Segment
<1>2. << >> \in Seq(Nat) /\ FALSE \in BOOLEAN
  OBVIOUS
<1> QED BY <1>1, <1>2, Zenon DEF EmptyNoff, NoffFile, NoffHeader

\* Whatever the section, the result is a NOFF file.
LEMMA AddSectionTyped ==
    ASSUME NEW noff \in NoffFile, NEW section \in CoffSection
    PROVE  AddSection(noff, section) \in NoffFile
BY CopiedFields, ReservedFields, GaveUpFields DEF AddSection

\* Segment g of a NOFF file holds section s.
Holds(body, g, s) ==
    /\ g.virtualAddr = s.s_paddr /\ g.size = s.s_size
    /\ g.inFileAddr >= SizeofNoffHeader
    /\ g.inFileAddr + g.size <= SizeofNoffHeader + Len(body)
    /\ \A k \in 0..(s.s_size - 1) :
           body[g.inFileAddr - SizeofNoffHeader + k + 1] = s.s_scnptr + k

HasContents(s) == s.s_name \notin {".bss", ".sbss"}

\* The segment a section goes to.
SegmentFor(noffH, s) == IF s.s_name = ".text" THEN noffH.code ELSE noffH.initData

\* The NOFF file when n sections have been added.
NoffInv(secs, noff, n) ==
    /\ ~noff.exit => \A i \in 1..n : HasContents(secs[i]) /\ secs[i].s_size # 0 =>
           Holds(noff.body, SegmentFor(noff.noffH, secs[i]), secs[i])
    /\ \A g \in {noff.noffH.code, noff.noffH.initData} : g.size # 0 =>
           \E i \in 1..n : HasContents(secs[i]) /\ Holds(noff.body, g, secs[i])

\* What is in the file stays there when bytes are added at the end.
LEMMA HoldsAppended ==
    ASSUME NEW b \in Seq(Nat), NEW c \in Seq(Nat), NEW g \in Segment, NEW s \in CoffSection,
           Holds(b, g, s)
    PROVE  Holds(b \o c, g, s)
<1>1. Len(b \o c) = Len(b) + Len(c) /\ Len(b) \in Nat /\ Len(c) \in Nat
  OBVIOUS
<1>2. PICK at \in Nat, n \in Nat : g.inFileAddr = at /\ g.size = n /\ s.s_size = n
  BY DEF Segment, CoffSection, Holds
<1>3. at >= SizeofNoffHeader /\ at + n <= SizeofNoffHeader + Len(b)
  BY <1>2 DEF Holds
<1>4. ASSUME NEW k \in 0..(n - 1)
      PROVE  at - SizeofNoffHeader + k + 1 \in 1..Len(b)
  BY <1>1, <1>2, <1>3 DEF SizeofNoffHeader
<1>5. ASSUME NEW i \in 1..Len(b) PROVE (b \o c)[i] = b[i]
  OBVIOUS
<1>6. at + n <= SizeofNoffHeader + Len(b \o c)
  BY <1>1, <1>2, <1>3 DEF SizeofNoffHeader
<1>7. ASSUME NEW k \in 0..(n - 1)
      PROVE  (b \o c)[at - SizeofNoffHeader + k + 1] = s.s_scnptr + k
  BY <1>2, <1>4, <1>5 DEF Holds
<1> QED BY <1>2, <1>3, <1>6, <1>7 DEF Holds

\* The bytes added at the end are the contents of the section.
LEMMA HoldsCopied ==
    ASSUME NEW b \in Seq(Nat), NEW s \in CoffSection
    PROVE  Holds(b \o Contents(s),
                 [virtualAddr |-> s.s_paddr, inFileAddr |-> SizeofNoffHeader + Len(b),
                  size |-> s.s_size], s)
<1>1. PICK n \in Nat, at \in Nat : s.s_size = n /\ s.s_scnptr = at
  BY DEF CoffSection
<1>2. PICK c \in Seq(Nat) : c = Contents(s) /\ c = [k \in 1..n |-> at + k - 1]
  <2>1. Contents(s) = [k \in 1..n |-> at + k - 1]
    BY <1>1 DEF Contents
  <2>2. [k \in 1..n |-> at + k - 1] \in Seq(Nat)
    OBVIOUS
  <2> QED BY <2>1, <2>2
<1>3. Len(c) = n /\ \A k \in 1..n : c[k] = at + k - 1
  BY <1>2
<1>4. Len(b \o c) = Len(b) + n /\ Len(b) \in Nat
  <2>1. Len(b \o c) = Len(b) + Len(c) /\ Len(b) \in Nat
    OBVIOUS
  <2> QED BY <1>3, <2>1
<1>5. ASSUME NEW k \in 0..(n - 1)
      PROVE  (b \o c)[SizeofNoffHeader + Len(b) - SizeofNoffHeader + k + 1] = at + k
  <2>1. k + 1 \in 1..Len(c)
    BY <1>3
  <2>2. (b \o c)[Len(b) + (k + 1)] = c[k + 1]
    BY <2>1
  <2>3. SizeofNoffHeader + Len(b) - SizeofNoffHeader + k + 1 = Len(b) + (k + 1)
    BY <1>4 DEF SizeofNoffHeader
  <2> QED BY <1>3, <2>1, <2>2, <2>3
<1> QED BY <1>1, <1>2, <1>4, <1>5 DEF Holds, SizeofNoffHeader

\* A section is copied: what was in the file stays there.
LEMMA CopyHolds ==
    ASSUME NEW noff \in NoffFile, NEW s \in CoffSection, NEW part \in {"code", "initData"}
    PROVE  LET r == CopySegment(noff, part, s)
           IN  /\ Holds(r.body, IF part = "code" THEN r.noffH.code ELSE r.noffH.initData, s)
               /\ \A g \in Segment, t \in CoffSection :
                      Holds(noff.body, g, t) => Holds(r.body, g, t)
<1> DEFINE r == CopySegment(noff, part, s)
<1> DEFINE h == IF part = "code" THEN r.noffH.code ELSE r.noffH.initData
<1>1. /\ r.body = noff.body \o Contents(s)
      /\ h = [virtualAddr |-> s.s_paddr, inFileAddr |-> inNoffFile(noff), size |-> s.s_size]
  BY CopiedFields
<1>2. noff.body \in Seq(Nat)
  BY DEF NoffFile
<1>3. Contents(s) \in Seq(Nat)
  BY DEF Contents, CoffSection
<1> HIDE DEF r, h
<1>4. Holds(r.body, h, s)
  BY <1>1, <1>2, HoldsCopied DEF inNoffFile
<1> QED BY <1>1, <1>2, <1>3, <1>4, HoldsAppended DEF r, h

\* The sections of a COFF file: only one of them is the text.
CoffSections(secs) ==
    /\ secs \in Seq(CoffSection)
    /\ \A i, j \in 1..Len(secs) :
           secs[i].s_name = ".text" /\ secs[j].s_name = ".text" => i = j

\* Each turn of the loop of coff2noff keeps the segments and sections together.
LEMMA AddSectionInv ==
    ASSUME NEW secs, CoffSections(secs), NEW n \in 1..Len(secs), NEW noff \in NoffFile,
           NoffInv(secs, noff, n - 1)
    PROVE  /\ AddSection(noff, secs[n]) \in NoffFile
           /\ NoffInv(secs, AddSection(noff, secs[n]), n)
<1> DEFINE s == secs[n]
<1> DEFINE r == AddSection(noff, secs[n])
<1>1. s \in CoffSection /\ n \in Nat /\ Len(secs) \in Nat
      /\ \A i \in 1..Len(secs) : secs[i] \in CoffSection
  BY DEF CoffSections
<1>2. \A i \in 1..n : i \in 1..(n - 1) \/ i = n
  BY <1>1
<1>3. \A i \in 1..(n - 1) : i \in 1..n /\ i \in 1..Len(secs) /\ i # n
  BY <1>1
<1>4. noff.noffH \in NoffHeader /\ noff.noffH.code \in Segment /\ noff.noffH.initData \in Segment
  BY DEF NoffFile, NoffHeader
<1>5. ASSUME NEW t \in NoffFile, t.noffH.code = noff.noffH.code,
             t.noffH.initData = noff.noffH.initData, t.body = noff.body,
             t.exit \/ (~noff.exit /\ (s.s_size = 0 \/ ~HasContents(s)))
      PROVE  NoffInv(secs, t, n)
  BY <1>2, <1>3, <1>5 DEF NoffInv, SegmentFor
<1>6. CASE noff.exit \/ s.s_size = 0
  <2>1. r = noff
    BY <1>6 DEF AddSection
  <2> HIDE DEF r, s
  <2> QED BY <1>5, <1>6, <2>1 DEF r, s
<1>7. CASE ~noff.exit /\ s.s_size # 0 /\ s.s_name = ".text"
  <2>1. r = CopySegment(noff, "code", s)
    BY <1>7 DEF AddSection
  <2>2. /\ r \in NoffFile /\ r.noffH.initData = noff.noffH.initData /\ r.exit = noff.exit
    <3> HIDE DEF r, s
    <3> QED BY <1>1, <2>1, CopiedFields, Zenon
  <2>3. /\ Holds(r.body, r.noffH.code, s)
        /\ \A g \in Segment, t \in CoffSection :
               Holds(noff.body, g, t) => Holds(r.body, g, t)
    BY <1>1, <2>1, CopyHolds
  <2>4. \A i \in 1..(n - 1) : secs[i].s_name # ".text"
    BY <1>1, <1>3, <1>7 DEF CoffSections
  <2>5. HasContents(s) /\ SegmentFor(r.noffH, s) = r.noffH.code
    BY <1>7 DEF HasContents, SegmentFor
  <2> HIDE DEF r
  <2>6. ASSUME NEW i \in 1..n, HasContents(secs[i]), secs[i].s_size # 0
        PROVE  Holds(r.body, SegmentFor(r.noffH, secs[i]), secs[i])
    <3>1. CASE i = n
      BY <2>3, <2>5, <3>1
    <3>2. CASE i \in 1..(n - 1)
      <4>1. SegmentFor(r.noffH, secs[i]) = noff.noffH.initData
        BY <2>2, <2>4, <3>2 DEF SegmentFor
      <4>2. Holds(noff.body, noff.noffH.initData, secs[i])
        BY <1>7, <2>4, <2>6, <3>2 DEF NoffInv, SegmentFor
      <4> QED BY <1>1, <1>3, <1>4, <2>3, <3>2, <4>1, <4>2
    <3> QED BY <1>2, <3>1, <3>2
  <2>7. ASSUME NEW g \in {r.noffH.code, r.noffH.initData}, g.size # 0
        PROVE  \E i \in 1..n : HasContents(secs[i]) /\ Holds(r.body, g, secs[i])
    <3>1. CASE g = r.noffH.code
      BY <1>1, <2>3, <2>5, <3>1
    <3>2. CASE g = noff.noffH.initData
      <4>1. PICK i \in 1..(n - 1) : HasContents(secs[i]) /\ Holds(noff.body, g, secs[i])
        BY <2>7, <3>2 DEF NoffInv
      <4> QED BY <1>1, <1>3, <1>4, <2>3, <3>2, <4>1
    <3> QED BY <2>2, <2>7, <3>1, <3>2
  <2>8. NoffInv(secs, r, n)
    BY <2>6, <2>7 DEF NoffInv
  <2> QED BY <2>2, <2>8 DEF r
<1>8. CASE /\ ~noff.exit /\ s.s_size # 0 /\ s.s_name \in {".data", ".rdata"}
           /\ noff.noffH.initData.size = 0
  <2>1. r = CopySegment(noff, "initData", s)
    BY <1>8 DEF AddSection
  <2>2. /\ r \in NoffFile /\ r.noffH.code = noff.noffH.code /\ r.exit = noff.exit
    <3> HIDE DEF r, s
    <3> QED BY <1>1, <2>1, CopiedFields, Zenon
  <2>3. /\ Holds(r.body, r.noffH.initData, s)
        /\ \A g \in Segment, t \in CoffSection :
               Holds(noff.body, g, t) => Holds(r.body, g, t)
    BY <1>1, <2>1, CopyHolds
  <2>4. ASSUME NEW i \in 1..(n - 1), HasContents(secs[i]), secs[i].s_size # 0
        PROVE  secs[i].s_name = ".text"
    BY <1>8, <2>4 DEF NoffInv, SegmentFor, Holds
  <2>5. HasContents(s) /\ SegmentFor(r.noffH, s) = r.noffH.initData
    BY <1>8 DEF HasContents, SegmentFor
  <2> HIDE DEF r
  <2>6. ASSUME NEW i \in 1..n, HasContents(secs[i]), secs[i].s_size # 0
        PROVE  Holds(r.body, SegmentFor(r.noffH, secs[i]), secs[i])
    <3>1. CASE i = n
      BY <2>3, <2>5, <3>1
    <3>2. CASE i \in 1..(n - 1)
      <4>1. SegmentFor(r.noffH, secs[i]) = noff.noffH.code
        BY <2>2, <2>4, <2>6, <3>2 DEF SegmentFor
      <4>2. Holds(noff.body, noff.noffH.code, secs[i])
        BY <1>8, <2>4, <2>6, <3>2 DEF NoffInv, SegmentFor
      <4> QED BY <1>1, <1>3, <1>4, <2>3, <3>2, <4>1, <4>2
    <3> QED BY <1>2, <3>1, <3>2
  <2>7. ASSUME NEW g \in {r.noffH.code, r.noffH.initData}, g.size # 0
        PROVE  \E i \in 1..n : HasContents(secs[i]) /\ Holds(r.body, g, secs[i])
    <3>1. CASE g = r.noffH.initData
      BY <1>1, <2>3, <2>5, <3>1
    <3>2. CASE g = noff.noffH.code
      <4>1. PICK i \in 1..(n - 1) : HasContents(secs[i]) /\ Holds(noff.body, g, secs[i])
        BY <2>7, <3>2 DEF NoffInv
      <4> QED BY <1>1, <1>3, <1>4, <2>3, <3>2, <4>1
    <3> QED BY <2>2, <2>7, <3>1, <3>2
  <2>8. NoffInv(secs, r, n)
    BY <2>6, <2>7 DEF NoffInv
  <2> QED BY <2>2, <2>8 DEF r
<1>9. CASE ~noff.exit /\ s.s_size # 0 /\ s.s_name \in {".bss", ".sbss"}
  <2>1. r = Reserve(noff, s)
    BY <1>9 DEF AddSection
  <2>2. /\ r \in NoffFile /\ r.noffH.code = noff.noffH.code
        /\ r.noffH.initData = noff.noffH.initData /\ r.body = noff.body
    BY <1>1, <2>1, ReservedFields
  <2>3. ~HasContents(s)
    BY <1>9 DEF HasContents
  <2> HIDE DEF r, s
  <2> QED BY <1>5, <1>9, <2>2, <2>3 DEF r
<1>10. CASE \/ ~noff.exit /\ s.s_size # 0 /\ s.s_name \in {".data", ".rdata"}
               /\ noff.noffH.initData.size # 0
            \/ ~noff.exit /\ s.s_size # 0
               /\ s.s_name \notin {".text", ".data", ".rdata", ".bss", ".sbss"}
  <2>1. r = GiveUp(noff)
    BY <1>10 DEF AddSection
  <2>2. /\ r \in NoffFile /\ r.exit /\ r.noffH = noff.noffH /\ r.body = noff.body
    BY <2>1, GaveUpFields
  <2> HIDE DEF r, s
  <2> QED BY <1>5, <2>2 DEF r
<1> QED BY <1>6, <1>7, <1>8, <1>9, <1>10

\* The loop of coff2noff is well defined: the recursion equation holds.
LEMMA AddedEquation ==
    ASSUME NEW secs, secs \in Seq(CoffSection)
    PROVE  /\ Added(secs)[0] = EmptyNoff
           /\ \A i \in 1..Len(secs) : Added(secs)[i] = AddSection(Added(secs)[i - 1], secs[i])
<1> DEFINE N == Len(secs)
<1> DEFINE F == [p \in NoffFile \X (1..N) |-> AddSection(p[1], secs[p[2]])]
<1> DEFINE Eq(g) == g = [i \in 0..N |-> IF i = 0 THEN EmptyNoff
                                       ELSE AddSection(g[i - 1], secs[i])]
<1>0. N \in Nat /\ \A i \in 1..N : secs[i] \in CoffSection
  OBVIOUS
<1>1. EmptyNoff \in NoffFile
  BY EmptyIsNoff
<1>2. ASSUME NEW s \in NoffFile, NEW i \in 1..N
      PROVE  AddSection(s, secs[i]) \in NoffFile
  BY <1>0, AddSectionTyped
<1>3. F \in [NoffFile \X (1..N) -> NoffFile]
  BY <1>2
<1>4. PICK g : Recursion(N, NoffFile, EmptyNoff, F, g)
  <2> HIDE DEF F
  <2> QED BY <1>0, <1>1, <1>3, RecursiveFunction
<1>5. \A i \in 1..N : /\ i - 1 \in 0..N
                      /\ F[<<g[i - 1], i>>] = AddSection(g[i - 1], secs[i])
  <2> TAKE i \in 1..N
  <2>1. i - 1 \in 0..N
    BY <1>0
  <2>2. PICK x \in NoffFile : g[i - 1] = x
    BY <1>4, <2>1 DEF Recursion
  <2>3. F[<<x, i>>] = AddSection(x, secs[i])
    BY Zenon
  <2> HIDE DEF F
  <2> QED BY <2>1, <2>2, <2>3
<1>6. Eq(g)
  <2> HIDE DEF F
  <2>1. ASSUME NEW i \in 0..N
        PROVE  g[i] = IF i = 0 THEN EmptyNoff ELSE AddSection(g[i - 1], secs[i])
    <3>1. i # 0 => i \in 1..N
      BY <1>0
    <3> QED BY <1>4, <1>5, <3>1 DEF Recursion
  <2> QED BY <1>4, <2>1 DEF Recursion
<1>7. Eq(Added(secs))
  <2> HIDE DEF F
  <2> QED BY <1>6 DEF Added
<1> HIDE DEF F
<1> QED BY <1>0, <1>7

\* The converter has copied each section with contents to the segment for it,
\* or has given up.
LEMMA AddedInv ==
    ASSUME NEW secs, CoffSections(secs)
    PROVE  LET r == Added(secs)[Len(secs)]
           IN  r \in NoffFile /\ NoffInv(secs, r, Len(secs))
<1> DEFINE A(i) == Added(secs)[i]
<1> DEFINE T == {i \in Nat : i <= Len(secs) => A(i) \in NoffFile /\ NoffInv(secs, A(i), i)}
<1>0. Len(secs) \in Nat /\ secs \in Seq(CoffSection)
  BY DEF CoffSections
<1>1. A(0) = EmptyNoff /\ \A i \in 1..Len(secs) : A(i) = AddSection(A(i - 1), secs[i])
  BY <1>0, AddedEquation
<1> HIDE DEF A
<1>2. 0 \in T
  <2>1. EmptyNoff.noffH.code.size = 0 /\ EmptyNoff.noffH.initData.size = 0
    BY DEF EmptyNoff, NoSegment
  <2> QED BY <1>1, <2>1, EmptyIsNoff DEF NoffInv
<1>3. ASSUME NEW i \in Nat, i \in T PROVE i + 1 \in T
  <2> SUFFICES ASSUME i + 1 <= Len(secs)
               PROVE  A(i + 1) \in NoffFile /\ NoffInv(secs, A(i + 1), i + 1)
    OBVIOUS
  <2>1. i + 1 \in 1..Len(secs) /\ (i + 1) - 1 = i /\ i <= Len(secs)
    BY <1>0
  <2>2. A(i) \in NoffFile /\ NoffInv(secs, A(i), i)
    BY <1>3, <2>1
  <2>3. A(i + 1) = AddSection(A(i), secs[i + 1])
    BY <1>1, <2>1
  <2> HIDE DEF T
  <2> QED BY <2>1, <2>2, <2>3, AddSectionInv
<1>4. Len(secs) \in T
  <2> HIDE DEF T
  <2> QED BY <1>0, <1>2, <1>3, SetInduction
<1> QED BY <1>0, <1>4 DEF A

-----------------------------------------------------------------------------
(***************************************************************************)
(* The files of the linker                                                 *)
(***************************************************************************)

\* Sections with contents do not overlap.
Apart(secs) ==
    \A i, j \in 1..Len(secs) :
        i # j /\ HasContents(secs[i]) /\ HasContents(secs[j]) =>
            \/ secs[i].s_paddr + secs[i].s_size <= secs[j].s_paddr
            \/ secs[j].s_paddr + secs[j].s_size <= secs[i].s_paddr

\* What the linker makes has one text section, which is not empty, and sections
\* that do not overlap.
LEMMA CoffFacts ==
    ASSUME NEW l \in Layouts
    PROVE  LET secs == Coff(l).sections
           IN  /\ CoffSections(secs) /\ Apart(secs) /\ Len(secs) = 5
               /\ secs[1].s_name = ".text" /\ secs[1].s_size # 0
               /\ Coff(l).f_magic = MIPSELMAGIC /\ Coff(l).magic = OMAGIC
<1>1. PICK t \in Nat \ {0}, gap \in Nat, r \in Nat, d \in Nat, sb \in Nat, b \in Nat :
          /\ l.text = t /\ l.gap = gap /\ l.rdata = r /\ l.data = d
          /\ l.sbss = sb /\ l.bss = b
  BY DEF Layouts
<1> DEFINE secs == <<Section(".text", 0, t, 0),
                     Section(".rdata", t + gap, r, t),
                     Section(".data", t + gap + r, d, t + r),
                     Section(".sbss", t + gap + (r + d), sb, 0),
                     Section(".bss", t + gap + (r + d) + sb, b, 0)>>
<1>2. /\ Coff(l).sections = secs
      /\ Coff(l).f_magic = MIPSELMAGIC /\ Coff(l).magic = OMAGIC
  BY <1>1 DEF Coff
<1>3. Len(secs) = 5 /\ \A i \in 1..5 : i \in {1, 2, 3, 4, 5}
  OBVIOUS
<1>4. /\ secs[1] = Section(".text", 0, t, 0)
      /\ secs[2] = Section(".rdata", t + gap, r, t)
      /\ secs[3] = Section(".data", t + gap + r, d, t + r)
      /\ secs[4] = Section(".sbss", t + gap + (r + d), sb, 0)
      /\ secs[5] = Section(".bss", t + gap + (r + d) + sb, b, 0)
  OBVIOUS
<1>5. ASSUME NEW name \in SectionNames, NEW a \in Nat, NEW n \in Nat, NEW at \in Nat
      PROVE  Section(name, a, n, at) \in CoffSection
  BY DEF Section, CoffSection
<1>6. secs \in Seq(CoffSection)
  <2>1. \A x \in CoffSection, y \in CoffSection, z \in CoffSection,
            u \in CoffSection, v \in CoffSection : <<x, y, z, u, v>> \in Seq(CoffSection)
    OBVIOUS
  <2>2. /\ Section(".text", 0, t, 0) \in CoffSection
        /\ Section(".rdata", t + gap, r, t) \in CoffSection
        /\ Section(".data", t + gap + r, d, t + r) \in CoffSection
        /\ Section(".sbss", t + gap + (r + d), sb, 0) \in CoffSection
        /\ Section(".bss", t + gap + (r + d) + sb, b, 0) \in CoffSection
    <3>1. /\ 0 \in Nat /\ t \in Nat /\ t + gap \in Nat /\ t + gap + r \in Nat
          /\ t + r \in Nat /\ t + gap + (r + d) \in Nat /\ t + gap + (r + d) + sb \in Nat
      OBVIOUS
    <3> QED BY <1>1, <1>5, <3>1, Zenon DEF SectionNames
  <2> QED BY <2>1, <2>2, Zenon
<1> HIDE DEF secs
<1>7. /\ secs[1].s_name = ".text" /\ secs[1].s_paddr = 0 /\ secs[1].s_size = t
      /\ secs[2].s_name = ".rdata" /\ secs[2].s_paddr = t + gap /\ secs[2].s_size = r
      /\ secs[3].s_name = ".data" /\ secs[3].s_paddr = t + gap + r /\ secs[3].s_size = d
      /\ secs[4].s_name = ".sbss" /\ secs[5].s_name = ".bss"
  BY <1>4 DEF Section
<1>8. CoffSections(secs)
  BY <1>3, <1>6, <1>7 DEF CoffSections
<1>9. Apart(secs)
  BY <1>3, <1>7 DEF Apart, HasContents
<1> QED BY <1>2, <1>3, <1>7, <1>8, <1>9

\* A program of the linker that the converter does not refuse has a NOFF file
\* with a code segment, which holds its sections with contents.
LEMMA NoffFacts ==
    ASSUME NEW l \in Layouts, ~coff2noff(Coff(l)).exit
    PROVE  LET secs == Coff(l).sections
               noff == coff2noff(Coff(l))
           IN  /\ noff \in NoffFile /\ NoffInv(secs, noff, Len(secs))
               /\ noff.noffH.code.size # 0
               /\ PagesFor(noff.noffH) \in Nat \ {0}
<1> DEFINE secs == Coff(l).sections
<1> DEFINE noff == coff2noff(Coff(l))
<1>1. noff = Added(secs)[Len(secs)]
  BY CoffFacts DEF coff2noff
<1>2. CoffSections(secs) /\ Len(secs) = 5 /\ secs[1].s_name = ".text" /\ secs[1].s_size # 0
  BY CoffFacts
<1> HIDE DEF secs
<1>3. noff \in NoffFile /\ NoffInv(secs, noff, Len(secs))
  BY <1>1, <1>2, AddedInv
<1>4. ~noff.exit
  OBVIOUS
<1> HIDE DEF noff
<1>5. noff.noffH.code.size # 0
  <2>1. HasContents(secs[1]) /\ 1 \in 1..Len(secs)
    BY <1>2 DEF HasContents
  <2> QED BY <1>2, <1>3, <1>4, <2>1 DEF NoffInv, SegmentFor, Holds
<1>6. PagesFor(noff.noffH) \in Nat \ {0}
  <2>1. PICK c \in Nat, i \in Nat, u \in Nat :
            /\ noff.noffH.code.size = c /\ noff.noffH.initData.size = i
            /\ noff.noffH.uninitData.size = u
    BY <1>3 DEF NoffFile, NoffHeader, Segment
  <2>2. PICK n \in Nat : n = c + i + u + UserStackSize + PageSize - 1 /\ n >= PageSize
    BY LoadSegmentAssumption
  <2>3. n \div PageSize \in Nat \ {0}
    BY <2>2, LoadSegmentAssumption
  <2> QED BY <2>1, <2>2, <2>3 DEF PagesFor
<1> QED BY <1>3, <1>5, <1>6 DEF secs, noff

-----------------------------------------------------------------------------
(***************************************************************************)
(* The inductive invariant                                                 *)
(***************************************************************************)

\* The physical address of byte v of the new address space.
Physical(v) == v + new.StartHere * PageSize

Place(i) == Start(i)..(Start(i) + sections[i].s_size - 1)

\* What the byte of section i at physical address a must be.
ByteOf(i, a) == sections[i].s_scnptr + (a - Start(i))

Loaded(i) == \A a \in Bytes : a \in Place(i) => mainMemory[a] = ByteOf(i, a)

\* The rest of the file is what section i has from addr on.
Source(i) ==
    /\ inFileAddr >= SizeofNoffHeader
    /\ inFileAddr + size <= SizeofNoffHeader + Len(executable.body)
    /\ \A k \in 0..(size - 1) :
           executable.body[inFileAddr - SizeofNoffHeader + k + 1] = ByteOf(i, Physical(addr) + k)

\* LoadSegment is at work on section i.
Current(i) ==
    /\ i \in WithContents
    /\ addr \in Nat /\ size \in Nat /\ inFileAddr \in Nat
    /\ sections[i].s_paddr <= addr
    /\ addr + size <= sections[i].s_paddr + sections[i].s_size
    /\ pc = "unaligned" => addr = sections[i].s_paddr /\ size = sections[i].s_size
    /\ pc = "pages" => loops \in Nat /\ size - loops * PageSize \in 0..(PageSize - 1)
    /\ Whole(i) =>
          /\ Source(i)
          /\ \A a \in Bytes :
                a \in Place(i) /\ a \notin Physical(addr)..(Physical(addr) + size - 1) =>
                    mainMemory[a] = ByteOf(i, a)

\* LoadSegment will be called for section i.
Pending(i) == \E k \in 1..Len(calls) : Holds(executable.body, calls[k], sections[i])

Loading == pc \in {"unaligned", "pages"}

\* What the constructor works with.
Job ==
    /\ CoffSections(sections) /\ Apart(sections)
    /\ new.StartHere \in Nat
    /\ executable.body \in Seq(Nat)
    /\ calls \in Seq(Segment)
    /\ \A k \in 1..Len(calls) : \E i \in WithContents :
           Holds(executable.body, calls[k], sections[i])

\* Outside the sections with contents, memory is as the constructor found it,
\* zeroed where it belongs to the new address space.
Around ==
    \A a \in Bytes : (\A i \in WithContents : a \notin Place(i)) =>
        mainMemory[a] = IF In(a, new) THEN Zero ELSE Other

\* Every section is loaded, being loaded, or will be.
Progress ==
    \A i \in WithContents : sections[i].s_size # 0 /\ Whole(i) =>
        Loaded(i) \/ (Loading /\ Current(i)) \/ Pending(i)

LoadInv ==
    /\ Inv
    /\ pc \in {"idle", "unaligned", "pages", "done"}
    /\ mainMemory = [a \in Bytes |-> mainMemory[a]]
    /\ pc = "idle" =>
          /\ sections = << >> /\ new = [StartHere |-> 0, numPages |-> 0]
          /\ mainMemory = [a \in Bytes |-> Other]
    /\ pc # "idle" => Job /\ Around /\ Progress
    /\ Loading => \E i \in WithContents : Current(i)
    /\ pc = "done" => calls = << >>

-----------------------------------------------------------------------------
(***************************************************************************)
(* Numbers of bytes and pages                                              *)
(***************************************************************************)

\* A multiple of p below p is 0.
LEMMA Multiples ==
    ASSUME NEW p \in Nat \ {0}, NEW d \in Int, NEW r \in 0..(p - 1), d * p = r
    PROVE  r = 0
<1>1. CASE d >= 1
  <2>1. d * p >= p
    BY <1>1
  <2> QED BY <2>1
<1>2. CASE d <= 0
  <2>1. d * p <= 0
    BY <1>2
  <2> QED BY <2>1
<1> QED BY <1>1, <1>2

\* Quotient and rest: the page and the offset of an address (Translate).
LEMMA DivMod ==
    ASSUME NEW z \in Nat, NEW p \in Nat \ {0}
    PROVE  /\ (z \div p) \in Nat /\ (z % p) \in 0..(p - 1)
           /\ z = (z \div p) * p + (z % p)
<1>1. z \div p \in Nat
  OBVIOUS
<1>2. (z % p) \in 0..(p - 1)
  OBVIOUS
<1>3. z = (z \div p) * p + (z % p)
  OBVIOUS
<1> QED BY <1>1, <1>2, <1>3

\* Without the rest, a number of bytes is a number of whole pages (LoadSegment).
LEMMA WithoutRest ==
    ASSUME NEW z \in Nat, NEW p \in Nat \ {0}
    PROVE  (z % p) \in 0..z /\ (z % p) < p /\ (z - (z % p)) % p = 0
<1>1. PICK q \in Nat, r \in 0..(p - 1) : q = z \div p /\ r = z % p /\ z = q * p + r
  BY DivMod
<1>2. q * p \in Nat
  OBVIOUS
<1>3. PICK y \in Nat : y = q * p
  BY <1>2
<1>4. z - r = y /\ r <= z
  BY <1>1, <1>2, <1>3
<1>5. PICK q2 \in Nat, r2 \in 0..(p - 1) : r2 = y % p /\ y = q2 * p + r2
  BY DivMod
<1>6. (q - q2) * p = r2
  <2>1. (q - q2) * p = q * p - q2 * p
    OBVIOUS
  <2>2. q2 * p \in Nat
    OBVIOUS
  <2> QED BY <1>2, <1>3, <1>5, <2>1, <2>2
<1>7. r2 = 0
  BY <1>6, Multiples
<1> QED BY <1>1, <1>4, <1>5, <1>7

-----------------------------------------------------------------------------
(***************************************************************************)
(* The steps of LoadSegment                                                *)
(***************************************************************************)

\* AddrSpace::Translate: the pages of an address space lie one behind the other.
LEMMA TranslateIsPhysical ==
    ASSUME addr \in Nat, new.StartHere \in Nat
    PROVE  Translate(addr) = Physical(addr) /\ Physical(addr) \in Nat
<1>1. PICK s \in Nat : new.StartHere = s
  OBVIOUS
<1>2. ((addr \div PageSize) + s) * PageSize + (addr % PageSize) = addr + s * PageSize
  BY LoadSegmentAssumption
<1>3. addr + s * PageSize \in Nat
  BY LoadSegmentAssumption
<1> QED BY <1>1, <1>2, <1>3 DEF Translate, Physical

\* The numbers of a section, and the place of an address space, are natural.
LEMMA SectionNumbers ==
    ASSUME NEW secs, CoffSections(secs), NEW i \in 1..Len(secs), NEW h \in Nat
    PROVE  /\ secs[i].s_paddr \in Nat /\ secs[i].s_size \in Nat /\ secs[i].s_scnptr \in Nat
           /\ secs[i].s_paddr + h * PageSize \in Nat
<1>1. secs[i] \in CoffSection
  BY DEF CoffSections
<1>2. /\ secs[i].s_paddr \in Nat /\ secs[i].s_size \in Nat /\ secs[i].s_scnptr \in Nat
  BY <1>1 DEF CoffSection
<1>3. h * PageSize \in Nat
  BY LoadSegmentAssumption
<1> QED BY <1>2, <1>3

\* The types of what is known about a section with contents.
LEMMA SectionFacts ==
    ASSUME Job, NEW i \in WithContents
    PROVE  /\ i \in 1..Len(sections) /\ HasContents(sections[i])
           /\ sections[i].s_paddr \in Nat /\ sections[i].s_size \in Nat
           /\ sections[i].s_scnptr \in Nat
           /\ Start(i) \in Nat /\ Start(i) = sections[i].s_paddr + new.StartHere * PageSize
<1>1. sections \in Seq(CoffSection) /\ new.StartHere \in Nat
  BY DEF Job, CoffSections
<1>2. i \in 1..Len(sections) /\ HasContents(sections[i])
  BY <1>1 DEF WithContents, HasContents
<1> QED BY <1>1, <1>2, SectionNumbers DEF Start, Job

\* ReadAt writes n bytes from the place of addr on, and what it writes there
\* is what the section has.
LEMMA ReadAtFacts ==
    ASSUME Job, NEW i, Current(i), NEW n \in 0..size, ReadAt(n),
           mainMemory = [a \in Bytes |-> mainMemory[a]]
    PROVE  /\ mainMemory' = [a \in Bytes |-> mainMemory'[a]]
           /\ \A a \in Bytes : a \notin Physical(addr)..(Physical(addr) + n - 1) =>
                  mainMemory'[a] = mainMemory[a]
           /\ Whole(i) => \A a \in Bytes : a \in Physical(addr)..(Physical(addr) + n - 1) =>
                  mainMemory'[a] = ByteOf(i, a)
           /\ \A a \in Physical(addr)..(Physical(addr) + n - 1) : a \in Place(i)
<1>0. i \in WithContents /\ addr \in Nat /\ size \in Nat /\ inFileAddr \in Nat
  BY DEF Current
<1>1. Translate(addr) = Physical(addr)
  BY <1>0, TranslateIsPhysical DEF Job
<1>2. PICK f \in Nat : f = Physical(addr)
  BY <1>0, TranslateIsPhysical DEF Job
<1>3. PICK b \in Seq(Nat) : b = executable.body
  BY DEF Job
<1>4. DOMAIN mainMemory = Bytes
  OBVIOUS
<1> DEFINE W(a) == a \in f..(f + n - 1) /\ inFileAddr - SizeofNoffHeader + (a - f) < Len(b)
<1> DEFINE V(a) == b[inFileAddr - SizeofNoffHeader + (a - f) + 1]
<1>5. mainMemory' = [a \in Bytes |-> IF W(a) THEN V(a) ELSE mainMemory[a]]
  BY <1>1, <1>2, <1>3, <1>4 DEF ReadAt
<1>6. /\ mainMemory' = [a \in Bytes |-> mainMemory'[a]]
      /\ \A a \in Bytes : mainMemory'[a] = IF W(a) THEN V(a) ELSE mainMemory[a]
  <2> HIDE DEF W, V
  <2> QED BY <1>5
<1>7. \A a \in f..(f + n - 1) : a \in Place(i)
  <2>1. PICK q \in Nat, z \in Nat, s \in Nat :
            /\ q = sections[i].s_paddr /\ z = sections[i].s_size
            /\ s = Start(i)
    BY <1>0, SectionFacts
  <2>2. f - addr = s - q
    <3>1. PICK h \in Nat : h = new.StartHere
      BY DEF Job
    <3>2. f = addr + h * PageSize /\ s = q + h * PageSize
      BY <1>0, <1>2, <2>1, <3>1, SectionFacts DEF Physical
    <3> QED BY <1>0, <2>1, <3>2, LoadSegmentAssumption
  <2>3. q <= addr /\ addr + size <= q + z
    BY <2>1 DEF Current
  <2>4. \A a \in f..(f + n - 1) : a \in s..(s + z - 1)
    BY <1>0, <2>2, <2>3
  <2> QED BY <2>1, <2>4 DEF Place
<1>8. ASSUME Whole(i), NEW a \in Bytes, a \in f..(f + n - 1)
      PROVE  mainMemory'[a] = ByteOf(i, a)
  <2>1. Source(i)
    BY <1>8 DEF Current
  <2>2. PICK k \in 0..(size - 1) : a = f + k
    <3>1. a - f \in 0..(size - 1) /\ a = f + (a - f)
      BY <1>0, <1>8
    <3> QED BY <3>1
  <2>3. inFileAddr >= SizeofNoffHeader /\ inFileAddr + size <= SizeofNoffHeader + Len(b)
    BY <1>3, <2>1 DEF Source
  <2>4. /\ inFileAddr - SizeofNoffHeader + (a - f) = inFileAddr - SizeofNoffHeader + k
        /\ inFileAddr - SizeofNoffHeader + k < Len(b)
    BY <1>0, <2>2, <2>3 DEF SizeofNoffHeader
  <2>5. W(a) /\ V(a) = b[inFileAddr - SizeofNoffHeader + k + 1]
    BY <1>8, <2>4
  <2>6. b[inFileAddr - SizeofNoffHeader + k + 1] = ByteOf(i, f + k)
    BY <1>2, <1>3, <2>1 DEF Source
  <2> HIDE DEF W, V
  <2> QED BY <1>6, <2>2, <2>5, <2>6
<1>9. ASSUME NEW a \in Bytes, a \notin f..(f + n - 1)
      PROVE  mainMemory'[a] = mainMemory[a]
  <2>1. ~W(a)
    BY <1>9
  <2> HIDE DEF W, V
  <2> QED BY <1>6, <2>1
<1> QED BY <1>2, <1>6, <1>7, <1>8, <1>9

\* The memory that a step reads into is the only one it changes.
LEMMA ReadKeeps ==
    ASSUME Job, Around, NEW i, Current(i), NEW n \in 0..size, ReadAt(n),
           mainMemory = [a \in Bytes |-> mainMemory[a]],
           UNCHANGED <<new, sections>>
    PROVE  /\ Around'
           /\ \A j \in WithContents : j # i /\ Loaded(j) => Loaded(j)'
<1>1. i \in WithContents /\ Physical(addr) \in Nat
  BY TranslateIsPhysical DEF Current, Job
<1> DEFINE Read == Physical(addr)..(Physical(addr) + n - 1)
<1>2. /\ \A a \in Bytes : a \notin Read => mainMemory'[a] = mainMemory[a]
      /\ \A a \in Read : a \in Place(i)
  BY ReadAtFacts
<1> HIDE DEF Read
<1>3. /\ WithContents' = WithContents
      /\ \A j : Place(j)' = Place(j) /\ \A a : ByteOf(j, a)' = ByteOf(j, a)
      /\ \A a : In(a, new)' = In(a, new)
  BY DEF WithContents, Place, ByteOf, Start, In
<1>4. Around'
  BY <1>1, <1>2, <1>3 DEF Around
<1>5. ASSUME NEW j \in WithContents, j # i, Loaded(j) PROVE Loaded(j)'
  <2>1. ASSUME NEW a, a \in Place(i), a \in Place(j) PROVE FALSE
    <3>1. PICK qi \in Nat, zi \in Nat, qj \in Nat, zj \in Nat, h \in Nat :
              /\ qi = sections[i].s_paddr /\ zi = sections[i].s_size
              /\ qj = sections[j].s_paddr /\ zj = sections[j].s_size
              /\ h = new.StartHere
      BY <1>1, SectionFacts DEF Job
    <3>2. PICK m \in Nat : m = h * PageSize
      BY LoadSegmentAssumption
    <3>3. Start(i) = qi + m /\ Start(j) = qj + m
      BY <1>1, <3>1, <3>2, SectionFacts
    <3>4. qi + zi <= qj \/ qj + zj <= qi
      BY <1>1, <1>5, <3>1, SectionFacts DEF Job, Apart
    <3> QED BY <2>1, <3>1, <3>3, <3>4 DEF Place
  <2> QED BY <1>2, <1>3, <1>5, <2>1 DEF Loaded
<1> QED BY <1>4, <1>5

\* The first step of LoadSegment, with a block that does not start at the
\* beginning of a page.
LEMMA UnalignedCurrent ==
    ASSUME Job, NEW i, Current(i), LoadUnaligned,
           mainMemory = [a \in Bytes |-> mainMemory[a]]
    PROVE  Current(i)'
<1>0. /\ pc = "unaligned" /\ pc' = "pages" /\ loops' = size' \div PageSize
      /\ UNCHANGED <<new, sections, executable>>
  BY DEF LoadUnaligned
<1>1. /\ i \in WithContents /\ addr \in Nat /\ size \in Nat /\ inFileAddr \in Nat
      /\ addr = sections[i].s_paddr /\ size = sections[i].s_size
  BY <1>0 DEF Current
<1>2. PICK f \in Nat : f = Physical(addr)
  BY <1>1, TranslateIsPhysical DEF Job
<1>3. /\ WithContents' = WithContents /\ Whole(i)' = Whole(i)
      /\ Place(i)' = Place(i) /\ \A a : ByteOf(i, a)' = ByteOf(i, a)
  BY <1>0 DEF WithContents, Place, ByteOf, Start, Whole
<1>4. CASE addr % PageSize = 0
  <2>1. UNCHANGED <<mainMemory, size, addr, inFileAddr>>
    BY <1>4 DEF LoadUnaligned
  <2>2. loops' \in Nat /\ size - loops' * PageSize \in 0..(PageSize - 1)
    <3>1. PICK n \in Nat, p \in Nat \ {0} : n = size /\ p = PageSize
      BY <1>1, LoadSegmentAssumption
    <3>2. n \div p \in Nat /\ n - (n \div p) * p \in 0..(p - 1)
      OBVIOUS
    <3> QED BY <1>0, <2>1, <3>1, <3>2
  <2>3. Physical(addr)' = Physical(addr)
    BY <1>0, <2>1 DEF Physical
  <2>4. Source(i)' <=> Source(i)
    BY <1>0, <1>3, <2>1, <2>3 DEF Source
  <2> QED BY <1>0, <1>1, <1>3, <2>1, <2>2, <2>3, <2>4 DEF Current
<1>5. CASE addr % PageSize # 0
  <2> DEFINE n == size % PageSize
  <2>1. ReadAt(n) /\ size' = size - n /\ addr' = addr + (size' % PageSize)
        /\ inFileAddr' = inFileAddr + (size' % PageSize)
    BY <1>5 DEF LoadUnaligned
  <2>2. /\ n \in 0..size /\ n < PageSize
        /\ (size - n) % PageSize = 0
        /\ (size - n) \div PageSize \in Nat
        /\ (size - n) - ((size - n) \div PageSize) * PageSize \in 0..(PageSize - 1)
    <3>1. PICK z \in Nat, p \in Nat \ {0} : z = size /\ p = PageSize
      BY <1>1, LoadSegmentAssumption
    <3>2. (z % p) \in 0..z /\ (z % p) < p /\ (z - (z % p)) % p = 0
      BY WithoutRest
    <3>3. PICK y \in Nat : y = z - (z % p)
      BY <3>2
    <3>4. y \div p \in Nat /\ y - (y \div p) * p \in 0..(p - 1)
      OBVIOUS
    <3>5. n = z % p
      BY <3>1
    <3> HIDE DEF n
    <3>6. size - n = y
      BY <3>1, <3>3, <3>5, Zenon
    <3>7. y % p = 0
      BY <3>2, <3>3
    <3> QED BY <3>1, <3>2, <3>4, <3>5, <3>6, <3>7
  <2> HIDE DEF n
  <2>3. /\ size' = size - n /\ size' \in Nat /\ addr' = addr /\ inFileAddr' = inFileAddr
        /\ loops' \in Nat /\ size' - loops' * PageSize \in 0..(PageSize - 1)
    BY <1>0, <1>1, <2>1, <2>2
  <2>4. Physical(addr)' = f
    BY <1>0, <1>2, <2>3 DEF Physical
  <2>5. ASSUME Whole(i)
        PROVE  /\ Source(i)'
               /\ \A a \in Bytes : a \in Place(i) => mainMemory'[a] = ByteOf(i, a)
    <3>1. n = size
      <4>1. size < PageSize
        BY <1>1, <1>5, <2>5 DEF Whole
      <4>2. PICK z \in Nat, p \in Nat \ {0} : z = size /\ p = PageSize
        BY <1>1, LoadSegmentAssumption
      <4>3. z < p => z % p = z
        OBVIOUS
      <4> QED BY <4>1, <4>2, <4>3 DEF n
    <3>2. size' = 0
      BY <1>1, <2>3, <3>1
    <3>3. Source(i)
      BY <2>5 DEF Current
    <3>4. Source(i)'
      <4>1. PICK b \in Seq(Nat) : b = executable.body
        BY DEF Job
      <4>2. Len(b) \in Nat
        OBVIOUS
      <4>3. inFileAddr >= SizeofNoffHeader /\ inFileAddr + 0 <= SizeofNoffHeader + Len(b)
        BY <1>1, <3>3, <4>1, <4>2 DEF Source, SizeofNoffHeader
      <4> QED BY <1>0, <2>3, <3>2, <4>1, <4>3 DEF Source
    <3>5. ASSUME NEW a \in Bytes, a \in Place(i)
          PROVE  mainMemory'[a] = ByteOf(i, a)
      <4>1. CASE a \in Physical(addr)..(Physical(addr) + n - 1)
        BY <2>1, <2>2, <2>5, <4>1, ReadAtFacts
      <4>2. CASE a \notin Physical(addr)..(Physical(addr) + n - 1)
        <5>1. mainMemory'[a] = mainMemory[a]
          BY <2>1, <2>2, <4>2, ReadAtFacts
        <5>2. mainMemory[a] = ByteOf(i, a)
          BY <2>5, <3>1, <3>5, <4>2 DEF Current
        <5> QED BY <5>1, <5>2
      <4> QED BY <4>1, <4>2
    <3> QED BY <3>4, <3>5
  <2>6. /\ (sections[i].s_paddr <= addr)'
        /\ (addr + size <= sections[i].s_paddr + sections[i].s_size)'
    BY <1>0, <1>1, <2>2, <2>3
  <2> QED BY <1>0, <1>1, <1>3, <2>3, <2>5, <2>6 DEF Current
<1> QED BY <1>4, <1>5

\* A page is loaded.
LEMMA PageCurrent ==
    ASSUME Job, NEW i, Current(i), LoadPage,
           mainMemory = [a \in Bytes |-> mainMemory[a]]
    PROVE  Current(i)' /\ PageSize \in 0..size
<1>0. /\ pc = "pages" /\ pc' = "pages" /\ loops' = loops - 1 /\ loops > 0
      /\ size' = size - PageSize /\ addr' = addr + PageSize
      /\ inFileAddr' = inFileAddr + PageSize
      /\ ReadAt(PageSize)
      /\ UNCHANGED <<new, sections, executable>>
  BY DEF LoadPage
<1>1. /\ i \in WithContents /\ addr \in Nat /\ size \in Nat /\ inFileAddr \in Nat
      /\ loops \in Nat /\ size - loops * PageSize \in 0..(PageSize - 1)
      /\ sections[i].s_paddr <= addr
      /\ addr + size <= sections[i].s_paddr + sections[i].s_size
  BY <1>0 DEF Current
<1>2. PICK f \in Nat : f = Physical(addr)
  BY <1>1, TranslateIsPhysical DEF Job
<1>3. /\ WithContents' = WithContents /\ Whole(i)' = Whole(i)
      /\ Place(i)' = Place(i) /\ \A a : ByteOf(i, a)' = ByteOf(i, a)
  BY <1>0 DEF WithContents, Place, ByteOf, Start, Whole
<1>4. /\ PageSize \in 0..size /\ size' \in Nat /\ addr' \in Nat /\ inFileAddr' \in Nat
      /\ loops' \in Nat /\ size' - loops' * PageSize \in 0..(PageSize - 1)
  <2>1. PICK p \in Nat \ {0}, m \in Nat, z \in Nat : p = PageSize /\ m = loops /\ z = size
    BY <1>1, LoadSegmentAssumption
  <2>2. m * p >= p /\ (m - 1) * p = m * p - p
    BY <1>0, <2>1
  <2>3. z - m * p \in 0..(p - 1)
    BY <1>1, <2>1
  <2>4. z - p - (m - 1) * p = z - m * p /\ z - p \in Nat
    BY <2>2, <2>3
  <2> QED BY <1>0, <1>1, <2>1, <2>3, <2>4
<1>5. Physical(addr)' = f + PageSize
  <2>1. PICK h \in Nat : h = new.StartHere
    BY DEF Job
  <2>2. f = addr + h * PageSize /\ Physical(addr)' = (addr + PageSize) + h * PageSize
    BY <1>0, <1>2, <2>1 DEF Physical
  <2> QED BY <1>1, <2>2, LoadSegmentAssumption
<1>6. ASSUME NEW q \in Nat, NEW z \in Nat, q = sections[i].s_paddr, z = sections[i].s_size
      PROVE  q <= addr' /\ addr' + size' <= q + z
  BY <1>0, <1>1, <1>4, <1>6
<1>7. ASSUME Whole(i) PROVE Source(i)'
  <2>1. Source(i)
    BY <1>7 DEF Current
  <2>2. PICK b \in Seq(Nat) : b = executable.body
    BY DEF Job
  <2>3. PICK L \in Nat : L = Len(b)
    OBVIOUS
  <2>4. inFileAddr >= SizeofNoffHeader /\ inFileAddr + size <= SizeofNoffHeader + L
    BY <2>1, <2>2, <2>3 DEF Source
  <2> DEFINE y == inFileAddr
  <2> DEFINE z == size
  <2>0. y \in Nat /\ z \in Nat /\ PageSize \in Nat /\ inFileAddr' = y + PageSize
        /\ size' = z - PageSize /\ PageSize <= z
    BY <1>0, <1>1, <1>4, LoadSegmentAssumption
  <2>5. inFileAddr' >= SizeofNoffHeader /\ inFileAddr' + size' <= SizeofNoffHeader + L
    <3>1. y >= 40 /\ y + z <= 40 + L
      BY <2>4 DEF SizeofNoffHeader
    <3> HIDE DEF y, z
    <3>2. y + PageSize >= 40 /\ (y + PageSize) + (z - PageSize) <= 40 + L
      BY <2>0, <3>1
    <3> QED BY <2>0, <3>2 DEF SizeofNoffHeader
  <2>6. ASSUME NEW k \in 0..(size' - 1)
        PROVE  b[inFileAddr' - SizeofNoffHeader + k + 1] = ByteOf(i, f + PageSize + k)
    <3>1. /\ PageSize + k \in 0..(size - 1)
          /\ inFileAddr' - SizeofNoffHeader + k + 1
                = inFileAddr - SizeofNoffHeader + (PageSize + k) + 1
          /\ f + PageSize + k = f + (PageSize + k)
      <4>1. k \in 0..(z - PageSize - 1) /\ k \in Nat
        BY <2>0, <2>6
      <4>2. inFileAddr' - SizeofNoffHeader + k + 1 = (y + PageSize) - SizeofNoffHeader + k + 1
        BY <2>0
      <4>3. z = size /\ y = inFileAddr
        OBVIOUS
      <4> HIDE DEF y, z
      <4>4. (y + PageSize) - SizeofNoffHeader + k + 1 = y - SizeofNoffHeader + (PageSize + k) + 1
        BY <2>0, <4>1 DEF SizeofNoffHeader
      <4>5. PageSize + k \in 0..(z - 1) /\ f + PageSize + k = f + (PageSize + k)
        BY <2>0, <4>1
      <4> QED BY <4>2, <4>3, <4>4, <4>5
    <3>2. b[inFileAddr - SizeofNoffHeader + (PageSize + k) + 1] = ByteOf(i, f + (PageSize + k))
      BY <1>2, <2>1, <2>2, <3>1 DEF Source
    <3> QED BY <3>1, <3>2
  <2> QED BY <1>0, <1>3, <1>5, <2>2, <2>3, <2>5, <2>6 DEF Source
<1>8. ASSUME Whole(i), NEW a \in Bytes, a \in Place(i),
             a \notin (f + PageSize)..(f + PageSize + size' - 1)
      PROVE  mainMemory'[a] = ByteOf(i, a)
  <2>1. CASE a \in f..(f + PageSize - 1)
    BY <1>0, <1>2, <1>4, <1>8, <2>1, ReadAtFacts
  <2>2. CASE a \notin f..(f + PageSize - 1)
    <3>1. mainMemory'[a] = mainMemory[a]
      BY <1>0, <1>2, <1>4, <2>2, ReadAtFacts
    <3>2. a \notin f..(f + size - 1)
      BY <1>0, <1>1, <1>4, <1>8, <2>2, LoadSegmentAssumption
    <3> QED BY <1>2, <1>8, <3>1, <3>2 DEF Current
  <2> QED BY <2>1, <2>2
<1>9. sections[i].s_paddr \in Nat /\ sections[i].s_size \in Nat
  BY <1>1, SectionFacts
<1>10. /\ sections'[i].s_paddr <= addr'
       /\ addr' + size' <= sections'[i].s_paddr + sections'[i].s_size
  BY <1>0, <1>6, <1>9
<1> QED BY <1>0, <1>1, <1>3, <1>4, <1>5, <1>7, <1>8, <1>10 DEF Current

\* The rest is loaded: the section is complete.
LEMMA RestLoaded ==
    ASSUME Job, NEW i, Current(i), LoadRest,
           mainMemory = [a \in Bytes |-> mainMemory[a]]
    PROVE  Whole(i) => Loaded(i)'
<1> SUFFICES ASSUME Whole(i) PROVE Loaded(i)'
  OBVIOUS
<1>0. /\ pc = "pages" /\ loops = 0 /\ UNCHANGED <<new, sections, executable>>
      /\ IF size % PageSize # 0 THEN ReadAt(size % PageSize) ELSE UNCHANGED mainMemory
  BY DEF LoadRest
<1>1. /\ i \in WithContents /\ addr \in Nat /\ size \in Nat
      /\ size - 0 * PageSize \in 0..(PageSize - 1)
  BY <1>0 DEF Current
<1>2. size % PageSize = size /\ size \in 0..size
  <2>1. PICK p \in Nat \ {0}, z \in Nat : p = PageSize /\ z = size
    BY <1>1, LoadSegmentAssumption
  <2>2. z < p
    BY <1>1, <2>1
  <2> QED BY <2>1, <2>2
<1>3. Place(i)' = Place(i) /\ \A a : ByteOf(i, a)' = ByteOf(i, a)
  BY <1>0 DEF Place, ByteOf, Start
<1>4. ASSUME NEW a \in Bytes, a \in Place(i)
      PROVE  mainMemory'[a] = ByteOf(i, a)
  <2>0. Physical(addr) \in Nat
    BY <1>1, TranslateIsPhysical DEF Job
  <2>1. CASE a \in Physical(addr)..(Physical(addr) + size - 1)
    <3>1. ReadAt(size)
      BY <1>0, <1>1, <1>2, <2>0, <2>1
    <3> QED BY <1>2, <2>1, <3>1, ReadAtFacts
  <2>2. CASE a \notin Physical(addr)..(Physical(addr) + size - 1)
    <3>1. mainMemory[a] = ByteOf(i, a)
      BY <1>4, <2>2 DEF Current
    <3>2. CASE ReadAt(size)
      BY <1>2, <2>2, <3>1, <3>2, ReadAtFacts
    <3>3. CASE UNCHANGED mainMemory
      BY <3>1, <3>3
    <3> QED BY <1>0, <1>2, <3>2, <3>3
  <2> QED BY <2>1, <2>2
<1> QED BY <1>3, <1>4 DEF Loaded

-----------------------------------------------------------------------------
(***************************************************************************)
(* The invariant is inductive                                              *)
(***************************************************************************)

\* The first call and the calls after it.
LEMMA HeadTail ==
    ASSUME NEW S, NEW s \in Seq(S), NEW c \in S
    PROVE  Head(<<c>> \o s) = c /\ Tail(<<c>> \o s) = s
<1>1. Head(<<c>> \o s) = c
  OBVIOUS
<1>2. Len(Tail(<<c>> \o s)) = Len(s) /\ Tail(<<c>> \o s) \in Seq(S)
  OBVIOUS
<1>3. \A i \in 1..Len(s) : Tail(<<c>> \o s)[i] = s[i]
  OBVIOUS
<1> QED BY <1>1, <1>2, <1>3

\* A call of LoadSegment: the segment was pending and is current now.
LEMMA CallCurrent ==
    ASSUME CoffSections(sections'), new'.StartHere \in Nat,
           NEW g \in Segment, NEW i \in WithContents',
           Holds(executable'.body, g, sections'[i]), Call(g)
    PROVE  Current(i)'
<1>0. /\ addr' = g.virtualAddr /\ size' = g.size /\ inFileAddr' = g.inFileAddr
      /\ pc' = "unaligned"
  BY DEF Call
<1>1. /\ g.virtualAddr \in Nat /\ g.size \in Nat /\ g.inFileAddr \in Nat
      /\ g.virtualAddr = sections'[i].s_paddr /\ g.size = sections'[i].s_size
  BY DEF Segment, Holds
<1>2. i \in 1..Len(sections')
  BY DEF WithContents, CoffSections
<1>3. Physical(addr)' = Start(i)'
  BY <1>0, <1>1 DEF Physical, Start
<1>4. Start(i)' \in Nat /\ sections'[i].s_scnptr \in Nat /\ sections'[i].s_size \in Nat
  BY <1>2, SectionNumbers DEF Start
<1>5. Source(i)'
  <2>1. ASSUME NEW k \in 0..(g.size - 1)
        PROVE  ByteOf(i, Physical(addr) + k)' = sections'[i].s_scnptr + k
    BY <1>1, <1>3, <1>4 DEF ByteOf
  <2> QED BY <1>0, <1>1, <2>1 DEF Source, Holds
<1>6. (\A a \in Bytes :
         a \in Place(i) /\ a \notin Physical(addr)..(Physical(addr) + size - 1) =>
             mainMemory[a] = ByteOf(i, a))'
  BY <1>0, <1>1, <1>3 DEF Place
<1>7. /\ sections'[i].s_paddr <= addr' /\ addr' + size' <= sections'[i].s_paddr + sections'[i].s_size
      /\ addr' = sections'[i].s_paddr /\ size' = sections'[i].s_size
  BY <1>0, <1>1
<1> QED BY <1>0, <1>1, <1>5, <1>6, <1>7 DEF Current

\* The header is read, frames are found and zeroed, and the first call of
\* LoadSegment is made.
LEMMA ConstructKeepsInv ==
    ASSUME LoadInv, NEW l \in Layouts, Construct(Coff(l))
    PROVE  LoadInv'
<1> DEFINE noff == coff2noff(Coff(l))
<1> DEFINE secs == Coff(l).sections
<1> DEFINE toLoad == Unless0(noff.noffH.code) \o Unless0(noff.noffH.initData)
<1>1. /\ ~noff.exit /\ NewAddrSpace(PagesFor(noff.noffH))
      /\ sections' = secs /\ executable' = noff
      /\ Call(Head(toLoad)) /\ calls' = Tail(toLoad)
  BY DEF Construct
<1>2. PICK sp \in spaces' \ spaces :
          new' = sp /\ mainMemory' = [a \in Bytes |-> IF In(a, sp) THEN Zero ELSE Other]
  BY DEF Construct
<1>3. /\ noff \in NoffFile /\ NoffInv(secs, noff, Len(secs)) /\ noff.noffH.code.size # 0
      /\ PagesFor(noff.noffH) \in Nat \ {0}
  BY <1>1, NoffFacts
<1>4. CoffSections(secs) /\ Apart(secs)
  BY CoffFacts
<1> HIDE DEF noff, secs
<1>5. Inv' /\ sp.StartHere \in Nat
  <2>1. Inv
    BY DEF LoadInv
  <2>2. /\ Inv'
        /\ \E x \in [StartHere : Frames, numPages : {PagesFor(noff.noffH)}] :
               spaces' = spaces \cup {x}
    BY <1>1, <1>3, <2>1, NewAddrSpaceKeepsInv
  <2>3. sp \in [StartHere : Frames, numPages : {PagesFor(noff.noffH)}]
    BY <1>2, <2>2
  <2>4. sp.StartHere \in Frames
    BY <2>3
  <2> QED BY <2>2, <2>4, AddrSpaceAssumption DEF Frames
<1>6. /\ noff.noffH.code \in Segment /\ noff.noffH.initData \in Segment
      /\ noff.body \in Seq(Nat)
  BY <1>3 DEF NoffFile, NoffHeader
<1>7. PICK c \in Segment, d \in Segment : c = noff.noffH.code /\ d = noff.noffH.initData
  BY <1>6
<1>8. c.size > 0 /\ d.size \in Nat
  BY <1>3, <1>7 DEF Segment
<1>9. /\ Head(toLoad) = c
      /\ Tail(toLoad) = IF d.size > 0 THEN <<d>> ELSE << >>
  <2>1. toLoad = <<c>> \o Unless0(d)
    BY <1>7, <1>8 DEF Unless0
  <2> HIDE DEF toLoad
  <2>2. Unless0(d) \in Seq(Segment)
    BY DEF Unless0
  <2>3. Head(toLoad) = c /\ Tail(toLoad) = Unless0(d)
    BY <2>1, <2>2, HeadTail
  <2> QED BY <2>3 DEF Unless0
<1> HIDE DEF toLoad
<1>10. /\ calls' \in Seq(Segment)
       /\ \A k \in 1..Len(calls') : calls'[k] = d /\ d.size # 0
       /\ d.size # 0 => 1 \in 1..Len(calls') /\ calls'[1] = d
  <2>1. CASE d.size > 0
    <3>1. calls' = <<d>>
      BY <1>1, <1>9, <2>1
    <3>2. <<d>> \in Seq(Segment) /\ Len(<<d>>) = 1 /\ \A k \in 1..1 : <<d>>[k] = d
      OBVIOUS
    <3> QED BY <1>8, <2>1, <3>1, <3>2
  <2>2. CASE d.size = 0
    <3>1. calls' = << >>
      BY <1>1, <1>9, <2>2
    <3>2. << >> \in Seq(Segment) /\ Len(<< >>) = 0
      OBVIOUS
    <3> QED BY <2>2, <3>1, <3>2
  <2> QED BY <1>8, <2>1, <2>2
<1>11. secs \in Seq(CoffSection) /\ DOMAIN secs = 1..Len(secs)
  BY <1>4 DEF CoffSections
<1>12. WithContents' = {i \in 1..Len(secs) : HasContents(secs[i])}
  BY <1>1, <1>11 DEF WithContents, HasContents
<1>13. PICK i \in WithContents' : Holds(noff.body, c, secs[i])
  BY <1>3, <1>7, <1>8, <1>12 DEF NoffInv
<1>14. Job'
  <2>1. \A k \in 1..Len(calls') : \E j \in WithContents' : Holds(noff.body, calls'[k], secs[j])
    BY <1>3, <1>7, <1>10, <1>12 DEF NoffInv
  <2> QED BY <1>1, <1>2, <1>4, <1>5, <1>6, <1>10, <2>1 DEF Job
<1>15. Around'
  BY <1>2 DEF Around
<1>16. ASSUME NEW j \in WithContents', Holds(noff.body, c, secs[j]) PROVE Current(j)'
  BY <1>1, <1>2, <1>4, <1>5, <1>9, <1>16, CallCurrent
<1>17. pc' = "unaligned"
  BY <1>1 DEF Call
<1>18. Progress'
  <2> SUFFICES ASSUME NEW j \in WithContents', secs[j].s_size # 0
               PROVE  (Loading /\ Current(j))' \/ Pending(j)'
    BY <1>1 DEF Progress
  <2>1. j \in 1..Len(secs) /\ HasContents(secs[j])
    BY <1>12
  <2>2. Holds(noff.body, SegmentFor(noff.noffH, secs[j]), secs[j])
    BY <1>1, <1>3, <2>1 DEF NoffInv
  <2>3. CASE secs[j].s_name = ".text"
    <3>1. Holds(noff.body, c, secs[j])
      BY <1>7, <2>2, <2>3 DEF SegmentFor
    <3> QED BY <1>16, <1>17, <3>1 DEF Loading
  <2>4. CASE secs[j].s_name # ".text"
    <3>1. Holds(noff.body, d, secs[j])
      BY <1>7, <2>2, <2>4 DEF SegmentFor
    <3>2. d.size # 0
      BY <3>1 DEF Holds
    <3> QED BY <1>1, <1>10, <3>1, <3>2 DEF Pending
  <2> QED BY <2>3, <2>4
<1> QED BY <1>2, <1>5, <1>13, <1>14, <1>15, <1>16, <1>17, <1>18 DEF LoadInv, Loading

\* A block or a page is loaded: the invariant holds if the section stays current.
LEMMA ReadKeepsInv ==
    ASSUME LoadInv, Loading, pc' = "pages", UNCHANGED <<new, sections, executable, calls, vars>>,
           NEW n, \A i : Current(i) => Current(i)' /\ n \in 0..size,
           ReadAt(n) \/ UNCHANGED mainMemory
    PROVE  LoadInv'
<1>0. /\ Inv /\ Job /\ Around /\ Progress /\ mainMemory = [a \in Bytes |-> mainMemory[a]]
  BY DEF LoadInv, Loading
<1>1. PICK i \in WithContents : Current(i)
  BY DEF LoadInv
<1>2. Inv' /\ WithContents' = WithContents
  BY <1>0 DEF Inv, Memory, FramesOwned, vars, WithContents
<1>3. Job'
  BY <1>0, <1>2 DEF Job
<1>4. /\ mainMemory' = [a \in Bytes |-> mainMemory'[a]]
      /\ Around'
      /\ \A j \in WithContents : j # i /\ Loaded(j) => Loaded(j)'
  <2>1. CASE ReadAt(n)
    BY <1>0, <1>1, <2>1, ReadAtFacts, ReadKeeps
  <2>2. CASE UNCHANGED mainMemory
    <3>1. \A a : In(a, new)' = In(a, new)
      BY DEF In
    <3>2. \A j : Place(j)' = Place(j) /\ \A a : ByteOf(j, a)' = ByteOf(j, a)
      BY DEF Place, ByteOf, Start
    <3> QED BY <1>0, <1>2, <2>2, <3>1, <3>2 DEF Around, Loaded
  <2> QED BY <2>1, <2>2
<1>5. Progress'
  <2> SUFFICES ASSUME NEW j \in WithContents, sections[j].s_size # 0, Whole(j)
               PROVE  Loaded(j)' \/ (Loading /\ Current(j))' \/ Pending(j)'
    BY <1>2 DEF Progress, Whole
  <2>1. CASE Loaded(j) /\ j # i
    BY <1>4, <2>1
  <2>2. CASE j = i \/ Current(j)
    BY <1>1, <2>2 DEF Loading
  <2>3. CASE Pending(j)
    BY <2>3 DEF Pending
  <2> QED BY <1>0, <2>1, <2>2, <2>3 DEF Progress
<1> QED BY <1>1, <1>2, <1>3, <1>4, <1>5 DEF LoadInv, Loading

\* LoadSegment returns, and is called again or the constructor is done.
LEMMA LoadRestKeepsInv ==
    ASSUME LoadInv, LoadRest
    PROVE  LoadInv'
<1>0. /\ Inv /\ Job /\ Around /\ Progress /\ mainMemory = [a \in Bytes |-> mainMemory[a]]
      /\ pc = "pages"
  BY DEF LoadInv, Loading, LoadRest
<1>1. PICK i \in WithContents : Current(i)
  BY <1>0 DEF LoadInv, Loading
<1>2. /\ UNCHANGED <<new, sections, executable, vars>> /\ NextCall
      /\ loops = 0
  BY DEF LoadRest
<1>3. Inv' /\ WithContents' = WithContents
  BY <1>0, <1>2 DEF Inv, Memory, FramesOwned, vars, WithContents
<1>4. \A j : Place(j)' = Place(j) /\ \A a : ByteOf(j, a)' = ByteOf(j, a)
  BY <1>2 DEF Place, ByteOf, Start
<1>5. /\ mainMemory' = [a \in Bytes |-> mainMemory'[a]]
      /\ Around'
      /\ \A j \in WithContents : j # i /\ Loaded(j) => Loaded(j)'
  <2> DEFINE n == size % PageSize
  <2>1. CASE ReadAt(n)
    <3>1. n \in 0..size
      BY <1>1, WithoutRest, LoadSegmentAssumption DEF Current
    <3> HIDE DEF n
    <3> QED BY <1>0, <1>1, <1>2, <2>1, <3>1, ReadAtFacts, ReadKeeps
  <2>2. CASE UNCHANGED mainMemory
    <3>1. \A a : In(a, new)' = In(a, new)
      BY <1>2 DEF In
    <3> QED BY <1>0, <1>3, <1>4, <2>2, <3>1 DEF Around, Loaded
  <2> QED BY <2>1, <2>2 DEF LoadRest
<1>6. ASSUME NEW j \in WithContents, sections[j].s_size # 0, Whole(j)
      PROVE  Loaded(j)' \/ Pending(j)
  <2>1. CASE Current(j)
    BY <1>0, <1>6, <2>1, RestLoaded
  <2>2. CASE Loaded(j) /\ j # i
    BY <1>5, <2>2
  <2> QED BY <1>0, <1>1, <1>6, <2>1, <2>2 DEF Progress
<1>7. CASE calls = << >>
  <2>1. pc' = "done" /\ calls' = << >>
    BY <1>2, <1>7 DEF NextCall
  <2>2. Job'
    BY <1>0, <1>2, <1>3, <1>7, <2>1 DEF Job
  <2>3. \A j : ~Pending(j)
    BY <1>7 DEF Pending
  <2>4. Progress'
    BY <1>2, <1>3, <1>6, <2>3 DEF Progress, Whole
  <2> QED BY <1>3, <1>5, <2>1, <2>2, <2>4 DEF LoadInv, Loading
<1>8. CASE calls # << >>
  <2>1. Call(Head(calls)) /\ calls' = Tail(calls)
    BY <1>2, <1>8 DEF NextCall
  <2>2. calls \in Seq(Segment) /\ Len(calls) \in Nat
    BY <1>0 DEF Job
  <2>3. /\ Head(calls) = calls[1] /\ calls[1] \in Segment /\ 1 \in 1..Len(calls)
        /\ calls' \in Seq(Segment) /\ Len(calls') = Len(calls) - 1
        /\ \A k \in 1..Len(calls') : calls'[k] = calls[k + 1]
    BY <1>8, <2>1, <2>2
  <2>4. \A k \in 1..Len(calls') : k + 1 \in 1..Len(calls)
    BY <2>2, <2>3
  <2>5. Job'
    BY <1>0, <1>2, <1>3, <2>3, <2>4 DEF Job
  <2>6. ASSUME NEW j \in WithContents, Holds(executable.body, calls[1], sections[j])
        PROVE  Current(j)'
    BY <1>2, <1>3, <2>1, <2>3, <2>5, <2>6, CallCurrent DEF Job
  <2>7. pc' = "unaligned"
    BY <2>1 DEF Call
  <2>8. Progress'
    <3> SUFFICES ASSUME NEW j \in WithContents, sections[j].s_size # 0, Whole(j)
                 PROVE  Loaded(j)' \/ (Loading /\ Current(j))' \/ Pending(j)'
      BY <1>2, <1>3 DEF Progress, Whole
    <3>1. ASSUME NEW k \in 1..Len(calls), Holds(executable.body, calls[k], sections[j])
          PROVE  (Loading /\ Current(j))' \/ Pending(j)'
      <4>1. CASE k = 1
        BY <2>6, <2>7, <3>1, <4>1 DEF Loading
      <4>2. CASE k # 1
        <5>1. k - 1 \in 1..Len(calls') /\ (k - 1) + 1 = k
          BY <2>2, <2>3, <4>2
        <5>2. calls'[k - 1] = calls[k]
          BY <2>3, <5>1
        <5> QED BY <1>2, <3>1, <5>1, <5>2 DEF Pending
      <4> QED BY <4>1, <4>2
    <3> QED BY <1>6, <3>1 DEF Pending
  <2>9. \E j \in WithContents : Current(j)'
    BY <1>0, <2>3, <2>6 DEF Job
  <2> QED BY <1>3, <1>5, <2>5, <2>7, <2>8, <2>9 DEF LoadInv, Loading
<1> QED BY <1>7, <1>8

\* No constructor is running at first.
LEMMA LoadInitInv == LoadInit => LoadInv
<1> SUFFICES ASSUME LoadInit PROVE LoadInv
  OBVIOUS
<1>1. Inv /\ pc = "idle" /\ sections = << >> /\ new = [StartHere |-> 0, numPages |-> 0]
  BY InitInv DEF LoadInit
<1>2. mainMemory = [a \in Bytes |-> Other] /\ mainMemory = [a \in Bytes |-> mainMemory[a]]
  BY DEF LoadInit
<1> QED BY <1>1, <1>2 DEF LoadInv, Loading

\* Every step of the constructors and destructors keeps the invariant.
LEMMA LoadNextKeepsInv == LoadInv /\ [LoadNext]_<<vars, loadvars>> => LoadInv'
<1> SUFFICES ASSUME LoadInv, [LoadNext]_<<vars, loadvars>> PROVE LoadInv'
  OBVIOUS
<1>0. Inv /\ mainMemory = [a \in Bytes |-> mainMemory[a]]
  BY DEF LoadInv
<1>1. ASSUME UNCHANGED <<vars, loadvars>> PROVE LoadInv'
  BY <1>1 DEF vars, loadvars, LoadInv, Inv, Memory, FramesOwned, Job, Around, Progress, Loading,
              Pending, Current, Source, Loaded, ByteOf, Place, Physical, WithContents, Start,
              Whole, In
<1>2. ASSUME LoadUnaligned PROVE LoadInv'
  <2> DEFINE n == size % PageSize
  <2>1. Loading /\ pc' = "pages" /\ UNCHANGED <<new, sections, executable, calls, vars>>
    BY <1>2 DEF LoadUnaligned, Loading
  <2>2. ReadAt(n) \/ UNCHANGED mainMemory
    BY <1>2 DEF LoadUnaligned
  <2>3. ASSUME NEW i, Current(i) PROVE Current(i)' /\ n \in 0..size
    <3>1. n \in 0..size
      BY <2>3, WithoutRest, LoadSegmentAssumption DEF Current
    <3>2. Job
      BY <2>1 DEF LoadInv, Loading
    <3> QED BY <1>0, <1>2, <2>3, <3>1, <3>2, UnalignedCurrent
  <2> HIDE DEF n
  <2> QED BY <2>1, <2>2, <2>3, ReadKeepsInv
<1>3. ASSUME LoadPage PROVE LoadInv'
  <2>1. /\ Loading /\ pc' = "pages" /\ UNCHANGED <<new, sections, executable, calls, vars>>
        /\ ReadAt(PageSize)
    BY <1>3 DEF LoadPage, Loading
  <2>2. ASSUME NEW i, Current(i) PROVE Current(i)' /\ PageSize \in 0..size
    <3>1. Job
      BY <2>1 DEF LoadInv, Loading
    <3> QED BY <1>0, <1>3, <2>2, <3>1, PageCurrent
  <2> QED BY <2>1, <2>2, ReadKeepsInv
<1>4. ASSUME Return PROVE LoadInv'
  <2>1. /\ pc' = "idle" /\ sections' = << >> /\ new' = [StartHere |-> 0, numPages |-> 0]
        /\ mainMemory' = [a \in Bytes |-> Other] /\ UNCHANGED vars
    BY <1>4 DEF Return
  <2>2. Inv' /\ mainMemory' = [a \in Bytes |-> mainMemory'[a]]
    BY <1>0, <2>1 DEF Inv, Memory, FramesOwned, vars
  <2> QED BY <2>1, <2>2 DEF LoadInv, Loading
<1>5. ASSUME NEW sp \in spaces, Destroy(sp) PROVE LoadInv'
  <2>1. DeleteAddrSpace(sp) /\ UNCHANGED loadvars /\ pc = "idle"
    BY <1>5 DEF Destroy
  <2>2. Inv'
    BY <1>0, <2>1, DeleteAddrSpaceKeepsInv
  <2> QED BY <2>1, <2>2 DEF LoadInv, loadvars, Loading
<1> QED BY <1>1, <1>2, <1>3, <1>4, <1>5, ConstructKeepsInv, LoadRestKeepsInv DEF LoadNext

-----------------------------------------------------------------------------
(***************************************************************************)
(* What follows from it                                                    *)
(***************************************************************************)

\* With loading, too, a frame is marked exactly when an address space has it,
\* and no frame belongs to two address spaces (the constructor and the
\* destructor of AddrSpace, for the sizes of the programs).
THEOREM LoadedSpacesOwnFrames == LoadSpec => []FramesOwned
<1>1. LoadInv => FramesOwned
  BY DEF LoadInv, Inv
<1> QED BY <1>1, LoadInitInv, LoadNextKeepsInv, PTL DEF LoadSpec

\* The three algorithms are right in every state of the bitmap that loading
\* programs and destroying address spaces leads to (MemoryAllocation).
THEOREM LoadedAllocationIsRight == LoadSpec => []FitIsRight
<1>1. LoadInv => FitIsRight
  BY FitIsRightInMemory DEF LoadInv, Inv
<1> QED BY <1>1, LoadInitInv, LoadNextKeepsInv, PTL DEF LoadSpec

\* The value that Wanted chooses at a byte of a section.
LEMMA WantedInside ==
    ASSUME Job, NEW a \in Bytes, NEW j \in WithContents, a \in Place(j)
    PROVE  \E i \in WithContents :
               a \in Place(i) /\ Wanted[a] = ByteOf(i, a) /\ Wanted[a] \in Nat
<1> DEFINE at == {i \in WithContents : a \in Start(i)..(Start(i) + sections[i].s_size - 1)}
<1> DEFINE i == CHOOSE i \in at : TRUE
<1>1. i \in at
  BY DEF Place
<1>2. Wanted[a] = sections[i].s_scnptr + (a - Start(i))
  BY <1>1 DEF Wanted
<1> HIDE DEF i
<1>3. i \in WithContents /\ a \in Place(i) /\ Wanted[a] = ByteOf(i, a)
  BY <1>1, <1>2 DEF Place, ByteOf
<1>4. ByteOf(i, a) \in Nat
  BY <1>3, SectionFacts DEF Place, ByteOf
<1> QED BY <1>3, <1>4

\* The value of Wanted at a byte of no section.
LEMMA WantedOutside ==
    ASSUME NEW a \in Bytes, \A i \in WithContents : a \notin Place(i)
    PROVE  Wanted[a] = IF In(a, new) THEN Zero ELSE Other
<1> DEFINE at == {i \in WithContents : a \in Start(i)..(Start(i) + sections[i].s_size - 1)}
<1>1. at = {}
  BY DEF Place
<1> QED BY <1>1 DEF Wanted

\* Loading a program writes nothing outside its sections: not the frames of
\* other address spaces, not the zeroed bytes around the sections, whatever the
\* sizes and addresses of the sections and the size of a page (LoadSegment).
THEOREM LoadingStaysInside == LoadSpec => []StaysInside
<1>1. LoadInv => StaysInside
  <2> SUFFICES ASSUME LoadInv, NEW a \in Bytes, Wanted[a] \in {Zero, Other}
               PROVE  mainMemory[a] = Wanted[a]
    BY DEF StaysInside
  <2>1. CASE pc = "idle"
    <3>1. WithContents = {} /\ ~In(a, new) /\ mainMemory[a] = Other
      <4>1. sections = << >> /\ new = [StartHere |-> 0, numPages |-> 0]
            /\ mainMemory = [b \in Bytes |-> Other]
        BY <2>1 DEF LoadInv
      <4>2. WithContents = {}
        BY <4>1 DEF WithContents
      <4> QED BY <4>1, <4>2 DEF In, FramesOf
    <3> QED BY <3>1, WantedOutside
  <2>2. CASE pc # "idle"
    <3>1. Job /\ Around
      BY <2>2 DEF LoadInv
    <3>2. \A i \in WithContents : a \notin Place(i)
      BY <3>1, WantedInside DEF Zero, Other
    <3> QED BY <3>1, <3>2, WantedOutside DEF Around
  <2> QED BY <2>1, <2>2
<1> QED BY <1>1, LoadInitInv, LoadNextKeepsInv, PTL DEF LoadSpec

\* A program whose sections each start at the beginning of a page, or are
\* shorter than a page, is in memory as the linker made it when the constructor
\* returns: no byte of it is lost, moved or overwritten by coff2noff or by
\* LoadSegment.
THEOREM AlignedProgramsLoad == LoadSpec => []AlignedIsLoaded
<1>1. LoadInv => AlignedIsLoaded
  <2> SUFFICES ASSUME LoadInv, pc = "done", \A i \in WithContents : Whole(i)
               PROVE  mainMemory = Wanted
    BY DEF AlignedIsLoaded
  <2>1. /\ Job /\ Around /\ Progress /\ calls = << >> /\ ~Loading
        /\ mainMemory = [a \in Bytes |-> mainMemory[a]]
    BY DEF LoadInv, Loading
  <2>2. \A i : ~Pending(i)
    BY <2>1 DEF Pending
  <2>3. ASSUME NEW a \in Bytes PROVE mainMemory[a] = Wanted[a]
    <3>1. CASE \A i \in WithContents : a \notin Place(i)
      BY <2>1, <3>1, WantedOutside DEF Around
    <3>2. ASSUME NEW j \in WithContents, a \in Place(j) PROVE mainMemory[a] = Wanted[a]
      <4>1. PICK i \in WithContents : a \in Place(i) /\ Wanted[a] = ByteOf(i, a)
        BY <2>1, <3>2, WantedInside
      <4>2. sections[i].s_size # 0
        BY <2>1, <4>1, SectionFacts DEF Place
      <4>3. Loaded(i)
        BY <2>1, <2>2, <4>2 DEF Progress
      <4> QED BY <4>1, <4>3 DEF Loaded
    <3> QED BY <3>1, <3>2
  <2>4. Wanted = [a \in Bytes |-> Wanted[a]]
    BY DEF Wanted
  <2> QED BY <2>1, <2>3, <2>4
<1> QED BY <1>1, LoadInitInv, LoadNextKeepsInv, PTL DEF LoadSpec
=============================================================================
