-------------------------------- MODULE Noff --------------------------------
(***************************************************************************)
(* Programs on their way into memory, before the kernel sees them: the     *)
(* converter from the COFF files of the linker to the NOFF files of Nachos *)
(* (code/bin/coff2noff.c), which an address space is made from.            *)
(*                                                                         *)
(* The byte at offset k of the COFF file is represented by the number k.   *)
(***************************************************************************)
EXTENDS Integers, Sequences

MIPSELMAGIC == 354  \* 0x0162
OMAGIC == 263       \* 0407

SizeofNoffHeader == 40

NoSegment == [virtualAddr |-> 0, inFileAddr |-> 0, size |-> 0]

\* The NOFF file while it is written: its header, the bytes after the header,
\* and whether the converter has given up and deleted the file.
EmptyNoff ==
    [noffH |-> [code |-> NoSegment, initData |-> NoSegment, uninitData |-> NoSegment],
     body |-> << >>, exit |-> FALSE]

GiveUp(noff) == [noff EXCEPT !.exit = TRUE]

inNoffFile(noff) == SizeofNoffHeader + Len(noff.body)

\* The bytes of a section in the COFF file.
Contents(section) == [k \in 1..section.s_size |-> section.s_scnptr + k - 1]

\* MUTANT of CopySegment: inNoffFile is not advanced for the next segment.
CopySegmentInPlace(noff, part, section) ==
    LET segment == [virtualAddr |-> section.s_paddr, inFileAddr |-> SizeofNoffHeader,
                    size |-> section.s_size]
    IN  [noffH |-> [noff.noffH EXCEPT ![part] = segment],
         body |-> noff.body \o Contents(section),
         exit |-> noff.exit]

\* A section with contents becomes segment `part'.
CopySegment(noff, part, section) ==
    LET segment == [virtualAddr |-> section.s_paddr, inFileAddr |-> inNoffFile(noff),
                    size |-> section.s_size]
    IN  [noffH |-> [noff.noffH EXCEPT ![part] = segment],
         body |-> noff.body \o Contents(section),
         exit |-> noff.exit]

\* A section without contents: a second one is added to the first, but not
\* if it follows directly.
Reserve(noff, section) ==
    LET u == noff.noffH.uninitData
    IN  IF u.size = 0
        THEN [noff EXCEPT !.noffH.uninitData =
                [virtualAddr |-> section.s_paddr, inFileAddr |-> 0, size |-> section.s_size]]
        ELSE IF section.s_paddr = u.virtualAddr + u.size THEN GiveUp(noff)
        ELSE [noff EXCEPT !.noffH.uninitData = [u EXCEPT !.size = @ + section.s_size]]

AddSection(noff, section) ==
    IF noff.exit \/ section.s_size = 0 THEN noff
    ELSE CASE section.s_name = ".text" -> CopySegment(noff, "code", section)
           [] section.s_name \in {".data", ".rdata"} ->
                 IF noff.noffH.initData.size # 0 THEN GiveUp(noff)
                 ELSE CopySegment(noff, "initData", section)
           [] section.s_name \in {".bss", ".sbss"} -> Reserve(noff, section)
           [] OTHER -> GiveUp(noff)

\* The loop over the sections: the NOFF file when i sections have been added.
Added(sections) ==
    LET added[i \in 0..Len(sections)] ==
          IF i = 0 THEN EmptyNoff ELSE AddSection(added[i - 1], sections[i])
    IN  added

\* main of coff2noff.  The files of the host can be read and written.
coff2noff(coff) ==
    IF coff.f_magic # MIPSELMAGIC \/ coff.magic # OMAGIC THEN GiveUp(EmptyNoff)
    ELSE Added(coff.sections)[Len(coff.sections)]
=============================================================================
