---------------------------- MODULE LoadSegment ----------------------------
(***************************************************************************)
(* The whole constructor of an address space: read the header of the NOFF  *)
(* file (module Noff), find and mark the frames (module AddrSpace), zero   *)
(* them, and load the code and the initialized data into them              *)
(* (code/userprog/addrspace.cc: LoadSegment and Translate).  The           *)
(* constructor makes no kernel call, so no other process runs in between.  *)
(*                                                                         *)
(* A byte of the program is represented by its offset in the COFF file, a  *)
(* zeroed byte by Zero, any byte outside the new address space by Other.   *)
(***************************************************************************)
EXTENDS AddrSpace, Noff

CONSTANTS PageSize,      \* bytes per page
          UserStackSize  \* bytes left for the stack

ASSUME LoadSegmentAssumption ==
    /\ PageSize \in Nat \ {0}
    /\ UserStackSize \in Nat \ {0}

Zero  == -1
Other == -2
Bytes == 0..(NumPhysPages * PageSize - 1)

VARIABLES pc,          \* "idle" when no constructor is running
          new,         \* the address space under construction
          sections,    \* of the COFF file its program comes from
          executable,  \* the NOFF file
          calls,       \* arguments of the calls of LoadSegment still to come
          addr, size, inFileAddr, loops,
          mainMemory

loadvars == <<pc, new, sections, executable, calls, addr, size, inFileAddr, loops,
              mainMemory>>

LoadInit ==
    /\ Init
    /\ pc = "idle"
    /\ new = [StartHere |-> 0, numPages |-> 0]
    /\ sections = << >> /\ executable = EmptyNoff
    /\ calls = << >>
    /\ addr = 0 /\ size = 0 /\ inFileAddr = 0 /\ loops = 0
    /\ mainMemory = [a \in Bytes |-> Other]

\* AddrSpace::Translate for a valid page of the new address space.
Translate(virtAddr) ==
    LET vpn == virtAddr \div PageSize
        offset == virtAddr % PageSize
    IN  (vpn + new.StartHere) * PageSize + offset

\* What the linker makes: text from address 0 on, the other sections behind
\* it, with a gap of up to the size of the stack in front of the data.
Layouts ==
    LET max == PageSize * CHOOSE n \in Sizes : \A m \in Sizes : m <= n
    IN  {l \in [text : 1..max, gap : 0..UserStackSize, rdata : 0..max, data : 0..max,
                sbss : 0..1, bss : 0..1] :
            l.text + l.rdata + l.data + l.sbss + l.bss + UserStackSize <= max}

Section(name, paddr, n, scnptr) ==
    [s_name |-> name, s_paddr |-> paddr, s_size |-> n, s_scnptr |-> scnptr]

Coff(l) ==
    LET paddr == l.text + l.gap
        end == l.rdata + l.data
    IN  [f_magic |-> MIPSELMAGIC, magic |-> OMAGIC,
         sections |-> <<Section(".text", 0, l.text, 0),
                        Section(".rdata", paddr, l.rdata, l.text),
                        Section(".data", paddr + l.rdata, l.data, l.text + l.rdata),
                        Section(".sbss", paddr + end, l.sbss, 0),
                        Section(".bss", paddr + end + l.sbss, l.bss, 0)>>]

\* How big is the address space?
PagesFor(noffH) ==
    (noffH.code.size + noffH.initData.size + noffH.uninitData.size + UserStackSize
        + PageSize - 1) \div PageSize

\* The byte at physical address a belongs to address space sp.
In(a, sp) == a \div PageSize \in FramesOf(sp)

\* The next call of LoadSegment, for the segment s
Call(s) ==
    /\ addr' = s.virtualAddr
    /\ size' = s.size
    /\ inFileAddr' = s.inFileAddr
    /\ loops' = 0
    /\ pc' = "unaligned"

\* An empty segment is not loaded.
Unless0(s) == IF s.size > 0 THEN <<s>> ELSE << >>

\* The constructor up to the first call of LoadSegment: the pages are zeroed.
Construct(coff) ==
    LET noff == coff2noff(coff)
        toLoad == Unless0(noff.noffH.code) \o Unless0(noff.noffH.initData)
    IN  /\ pc = "idle"
        /\ ~noff.exit
        /\ NewAddrSpace(PagesFor(noff.noffH))
        /\ \E sp \in spaces' \ spaces :
               /\ new' = sp
               /\ mainMemory' = [a \in Bytes |-> IF In(a, sp) THEN Zero ELSE Other]
        /\ sections' = coff.sections /\ executable' = noff
        /\ Call(Head(toLoad)) /\ calls' = Tail(toLoad)

\* executable->ReadAt(&mainMemory[physAddr], n, inFileAddr)
ReadAt(n) ==
    LET physAddr == Translate(addr)
        at == inFileAddr - SizeofNoffHeader
    IN  mainMemory' = [a \in DOMAIN mainMemory |->
                          IF /\ a \in physAddr..(physAddr + n - 1)
                             /\ at + (a - physAddr) < Len(executable.body)
                          THEN executable.body[at + (a - physAddr) + 1]
                          ELSE mainMemory[a]]

\* A block that does not start at the beginning of a page.  size is reduced
\* before addr and inFileAddr are advanced by "size % PageSize".
LoadUnaligned ==
    /\ pc = "unaligned"
    /\ pc' = "pages"
    /\ IF addr % PageSize # 0
       THEN /\ ReadAt(size % PageSize)
            /\ size' = size - (size % PageSize)
            /\ addr' = addr + (size' % PageSize)
            /\ inFileAddr' = inFileAddr + (size' % PageSize)
       ELSE UNCHANGED <<mainMemory, size, addr, inFileAddr>>
    /\ loops' = size' \div PageSize
    /\ UNCHANGED <<new, sections, executable, calls, vars>>

LoadPage ==
    /\ pc = "pages"
    /\ loops > 0
    /\ ReadAt(PageSize)
    /\ loops' = loops - 1
    /\ size' = size - PageSize
    /\ addr' = addr + PageSize
    /\ inFileAddr' = inFileAddr + PageSize
    /\ UNCHANGED <<pc, new, sections, executable, calls, vars>>

\* LoadSegment returns; the constructor calls it again, or is done.
NextCall ==
    IF calls # << >> THEN Call(Head(calls)) /\ calls' = Tail(calls)
    ELSE pc' = "done" /\ UNCHANGED <<addr, size, inFileAddr, loops, calls>>

\* MUTANT of LoadRest: a whole page is read for the rest.
LoadRestPage ==
    /\ pc = "pages"
    /\ loops = 0
    /\ IF size % PageSize # 0 THEN ReadAt(PageSize) ELSE UNCHANGED mainMemory
    /\ NextCall
    /\ UNCHANGED <<new, sections, executable, vars>>

\* The rest, less than a page.
LoadRest ==
    /\ pc = "pages"
    /\ loops = 0
    /\ IF size % PageSize # 0 THEN ReadAt(size % PageSize)
                              ELSE UNCHANGED mainMemory
    /\ NextCall
    /\ UNCHANGED <<new, sections, executable, vars>>

\* The constructor returns; what the memory holds is no longer followed.
Return ==
    /\ pc = "done"
    /\ pc' = "idle"
    /\ new' = [StartHere |-> 0, numPages |-> 0]
    /\ sections' = << >> /\ executable' = EmptyNoff
    /\ addr' = 0 /\ size' = 0 /\ inFileAddr' = 0
    /\ mainMemory' = [a \in Bytes |-> Other]
    /\ UNCHANGED <<calls, loops, vars>>

Destroy(sp) == pc = "idle" /\ DeleteAddrSpace(sp) /\ UNCHANGED loadvars

LoadNext ==
    \/ \E l \in Layouts : Construct(Coff(l))
    \/ LoadUnaligned \/ LoadPage \/ LoadRest \/ Return
    \/ \E sp \in spaces : Destroy(sp)

LoadSpec == LoadInit /\ [][LoadNext]_<<vars, loadvars>>

-----------------------------------------------------------------------------
(***************************************************************************)
(* Properties                                                              *)
(***************************************************************************)
WithContents == {i \in DOMAIN sections : sections[i].s_name \notin {".bss", ".sbss"}}
Start(i) == sections[i].s_paddr + new.StartHere * PageSize

\* What memory must hold in the end: the sections of the COFF file that have
\* contents, zeroes around them, and nothing else changed.
Wanted ==
    [a \in Bytes |->
        LET at == {i \in WithContents : a \in Start(i)..(Start(i) + sections[i].s_size - 1)}
        IN  IF at # {} THEN LET i == CHOOSE i \in at : TRUE
                            IN  sections[i].s_scnptr + (a - Start(i))
            ELSE IF In(a, new) THEN Zero ELSE Other]

\* Loading never touches memory outside the sections with contents: the
\* frames of other processes, the zeroed bytes around them (ReadAt writes
\* where Translate of the first byte says, for a whole block).
StaysInside ==
    \A a \in Bytes : Wanted[a] \in {Zero, Other} => mainMemory[a] = Wanted[a]

Whole(i) == sections[i].s_paddr % PageSize = 0 \/ sections[i].s_size < PageSize

\* A program whose sections each start at the beginning of a page, or are
\* shorter than a page, arrives in memory as the linker made it, converted by
\* coff2noff and loaded in pieces (AddSection, Construct, LoadSegment).
AlignedIsLoaded ==
    pc = "done" /\ (\A i \in WithContents : Whole(i)) => mainMemory = Wanted

\* "translate for block not starting at the beginning of a page": such a
\* segment is loaded too.
SegmentIsLoaded == pc = "done" => mainMemory = Wanted
=============================================================================
