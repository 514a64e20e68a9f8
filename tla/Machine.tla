------------------------------ MODULE Machine -------------------------------
(***************************************************************************)
(* The simulated processor on which user programs run, shared by several   *)
(* processes: instructions, delay slots, address translation, exceptions   *)
(* and the context switch (code/machine/mipssim.cc, machine.cc,            *)
(* translate.cc; code/threads/thread.cc, scheduler.cc;                     *)
(* code/userprog/exception.cc, addrspace.cc).                              *)
(*                                                                         *)
(* A step is one turn of the loop of Machine::Run, or an interrupt that is *)
(* due after one.  When that is, and who gets the processor, is left open: *)
(* it is the business of modules Interrupts and Kernel.  Memory is kept by *)
(* words: a word holds four bytes of data or one instruction, and programs *)
(* neither read nor write their own text.                                  *)
(***************************************************************************)
EXTENDS Mips

CONSTANTS Proc,          \* the processes
          Main,          \* the process that runs in the thread "main"
          GPRegs,        \* numbers of the general purpose registers
          PageSize, NumPhysPages,
          numPages,      \* pages of each address space
          StartHere,     \* first frame of each address space
          Images         \* the ways to give each process its program

SpecialRegs == {HiReg, LoReg, PCReg, NextPCReg, PrevPCReg, LoadReg, LoadValueReg,
                BadVAddrReg}
Registers == GPRegs \cup SpecialRegs

ASSUME MachineAssumption ==
    /\ Main \in Proc
    /\ {0, 2, 4, 5, 6, StackReg, R31} \subseteq GPRegs /\ GPRegs \subseteq 0..31
    /\ PageSize \in Nat \ {0} /\ PageSize % 4 = 0
    /\ \A p \in Proc :
          StartHere[p] \in Nat /\ StartHere[p] + numPages[p] <= NumPhysPages
    /\ \A p, q \in Proc :
          p = q \/ StartHere[p] + numPages[p] <= StartHere[q]
                \/ StartHere[q] + numPages[q] <= StartHere[p]

WordsPerPage == PageSize \div 4
Byte == 0..(2^ByteBits - 1)
Zero == [data |-> <<0, 0, 0, 0>>]

TranslationEntry ==
    [physicalPage : 0..(NumPhysPages - 1), valid : BOOLEAN, readOnly : BOOLEAN,
     use : BOOLEAN, dirty : BOOLEAN]

VARIABLES
    registers,      \* of the machine
    mainMemory,     \* of each physical word
    pageTable,      \* of each process
    userRegisters,  \* of each thread, while another one runs
    currentThread,
    kpc,            \* "new", in "user" code, in a "Yield", or "done"
    halted          \* "no", "Halt", "Abort", or "Hang" in the kernel

vars == <<registers, mainMemory, pageTable, userRegisters, currentThread, kpc, halted>>

-----------------------------------------------------------------------------
\* AddrSpace::InitRegisters
InitRegisters(p) ==
    [r \in Registers |-> CASE r = NextPCReg -> 4
                           [] r = StackReg -> numPages[p] * PageSize - 16
                           [] OTHER -> 0]

Init ==
    /\ registers = InitRegisters(Main)
    /\ \E image \in Images :
          mainMemory =
            [w \in 0..(NumPhysPages * WordsPerPage - 1) |->
               IF \E p \in Proc :
                     w - StartHere[p] * WordsPerPage \in 0..(Len(image[p]) - 1)
               THEN LET p == CHOOSE p \in Proc :
                               w - StartHere[p] * WordsPerPage \in 0..(Len(image[p]) - 1)
                    IN  [instr |-> image[p][w - StartHere[p] * WordsPerPage + 1]]
               ELSE Zero]
    /\ pageTable =
         [p \in Proc |->
            [v \in 0..(numPages[p] - 1) |->
               [physicalPage |-> StartHere[p] + v, valid |-> TRUE, readOnly |-> FALSE,
                use |-> FALSE, dirty |-> FALSE]]]
    /\ userRegisters = [p \in Proc |-> [r \in Registers |-> 0]]
    /\ currentThread = Main
    /\ kpc = [p \in Proc |-> IF p = Main THEN "user" ELSE "new"]
    /\ halted = "no"

-----------------------------------------------------------------------------
(***************************************************************************)
(* Translate, ReadMem and WriteMem for process p                           *)
(***************************************************************************)
Vpn(addr) == Unsigned(addr) \div PageSize

\* The exception of a translation, "NoException" if there is none.
Exception(p, addr, size, writing) ==
    CASE addr % size # 0 -> "AddressErrorException"
      [] Vpn(addr) >= numPages[p] -> "AddressErrorException"
      [] ~pageTable[p][Vpn(addr)].valid -> "PageFaultException"
      [] writing /\ pageTable[p][Vpn(addr)].readOnly -> "ReadOnlyException"
      [] pageTable[p][Vpn(addr)].physicalPage >= NumPhysPages -> "BusErrorException"
      [] OTHER -> "NoException"

PhysAddr(p, addr) ==
    pageTable[p][Vpn(addr)].physicalPage * PageSize + (Unsigned(addr) % PageSize)

\* MUTANT of Marked: a write does not set the dirty bit.
MarkedClean(p, used, written) ==
    [pageTable EXCEPT ![p] =
        [v \in DOMAIN pageTable[p] |->
            [pageTable[p][v] EXCEPT !.use = @ \/ \E a \in used \cup written : Vpn(a) = v]]]

\* The use and dirty bits after the translations of the given addresses.
Marked(p, used, written) ==
    [pageTable EXCEPT ![p] =
        [v \in DOMAIN pageTable[p] |->
            [pageTable[p][v] EXCEPT
                !.use = @ \/ \E a \in used \cup written : Vpn(a) = v,
                !.dirty = @ \/ \E a \in written : Vpn(a) = v]]]

Cell(p, addr) == mainMemory[PhysAddr(p, addr) \div 4]

\* `size' bytes at addr as an unsigned number; the host is little endian.
ReadMem(p, addr, size) ==
    LET at == addr % 4
        b == Cell(p, addr).data
    IN  CASE size = 1 -> b[at + 1]
          [] size = 2 -> b[at + 1] + b[at + 2] * 2^ByteBits
          [] size = 4 -> b[1] + b[2] * 2^ByteBits + b[3] * 2^(2 * ByteBits)
                              + b[4] * 2^(3 * ByteBits)

ByteOf(n, k) == (Unsigned(n) \div 2^(k * ByteBits)) % 2^ByteBits

WriteMem(p, addr, size, val) ==
    LET at == addr % 4
    IN  [mainMemory EXCEPT ![PhysAddr(p, addr) \div 4].data =
            [k \in 1..4 |-> IF k - 1 \in at..(at + size - 1)
                            THEN ByteOf(val, k - 1 - at) ELSE @[k]]]

-----------------------------------------------------------------------------
(***************************************************************************)
(* The end of an instruction                                               *)
(***************************************************************************)
\* MUTANT of DelayedLoad: R0 is not forced back to zero.
DelayedLoadR0(R, nextReg, nextValue) ==
    [R EXCEPT ![R[LoadReg]] = R[LoadValueReg],
              ![LoadReg] = nextReg, ![LoadValueReg] = nextValue]

DelayedLoad(R, nextReg, nextValue) ==
    [R EXCEPT ![R[LoadReg]] = R[LoadValueReg],
              ![LoadReg] = nextReg, ![LoadValueReg] = nextValue, ![0] = 0]

\* R are the registers as the instruction left them.
Completed(R, nextReg, nextValue, pcAfter) ==
    [DelayedLoad(R, nextReg, nextValue) EXCEPT
        ![PrevPCReg] = R[PCReg], ![PCReg] = R[NextPCReg], ![NextPCReg] = pcAfter]

\* RaiseException before it calls the handler.
Trapped(R, badVAddr) == DelayedLoad([R EXCEPT ![BadVAddrReg] = badVAddr], 0, 0)

AdvancePC(R) ==
    [R EXCEPT ![PrevPCReg] = R[PCReg], ![PCReg] = R[NextPCReg],
              ![NextPCReg] = Signed(R[NextPCReg] + 4)]

pcAfter == Signed(registers[NextPCReg] + 4)
LinkAddr == pcAfter

-----------------------------------------------------------------------------
(***************************************************************************)
(* What the instructions compute.  R are the registers, i is decoded.      *)
(***************************************************************************)
Immediate == {"ADDI", "ADDIU", "ANDI", "LUI", "ORI", "SLTI", "SLTIU", "XORI"}
ThreeRegister == {"ADD", "ADDU", "AND", "MFHI", "MFLO", "NOR", "OR", "SLL", "SLLV",
                  "SLT", "SLTU", "SRA", "SRAV", "SRL", "SRLV", "SUB", "SUBU", "XOR"}
Arithmetic == Immediate \cup ThreeRegister
HiLo == {"DIV", "DIVU", "MTHI", "MTLO", "MULT", "MULTU"}
Branches == {"BEQ", "BGEZ", "BGEZAL", "BGTZ", "BLEZ", "BLTZ", "BLTZAL", "BNE"}
Jumps == {"J", "JAL", "JALR", "JR"}
Loads == {"LB", "LBU", "LH", "LHU", "LW", "LWL", "LWR"}
Stores == {"SB", "SH", "SW", "SWL", "SWR"}
OpCode == Arithmetic \cup HiLo \cup Branches \cup Jumps \cup Loads \cup Stores
             \cup {"SYSCALL", "RES", "UNIMP"}

\* Every entry of the tables is handled by OneInstruction.
ASSUME OpCodesAssumption ==
    \A k \in 1..64 : opTable[k] \in OpCode \cup {"SPECIAL", "BCOND"}
                        /\ specialTable[k] \in OpCode

\* ADD, ADDI and SUB trap on a signed overflow.
Overflows(R, i) ==
    LET a == R[i.rs]
        b == IF i.opCode = "ADDI" THEN i.extra ELSE R[i.rt]
    IN  \/ /\ i.opCode \in {"ADD", "ADDI"}
           /\ Negative(a) = Negative(b) /\ Negative(a) # Negative(Signed(a + b))
        \/ /\ i.opCode = "SUB"
           /\ Negative(a) # Negative(b) /\ Negative(a) # Negative(Signed(a - b))

Zext(n) == n % 2^HalfBits

Compute(R, i) ==
    LET a == R[i.rs]
        b == R[i.rt]
        x == i.extra
        shift == Unsigned(a) % W
    IN  CASE i.opCode \in {"ADD", "ADDU"} -> Signed(a + b)
          [] i.opCode \in {"ADDI", "ADDIU"} -> Signed(a + x)
          [] i.opCode = "AND" -> WordAnd(a, b)
          [] i.opCode = "ANDI" -> WordAnd(a, Zext(x))
          [] i.opCode = "LUI" -> Signed(x * 2^HalfBits)
          [] i.opCode = "MFHI" -> R[HiReg]
          [] i.opCode = "MFLO" -> R[LoReg]
          [] i.opCode = "NOR" -> Complement(WordOr(a, b))
          [] i.opCode = "OR" -> WordOr(a, a)
          [] i.opCode = "ORI" -> WordOr(a, Zext(x))
          [] i.opCode = "SLL" -> ShiftLeft(b, x)
          [] i.opCode = "SLLV" -> ShiftLeft(b, shift)
          [] i.opCode = "SLT" -> Truth(a < b)
          [] i.opCode = "SLTI" -> Truth(a < x)
          [] i.opCode = "SLTIU" -> Truth(Unsigned(a) < Unsigned(x))
          [] i.opCode = "SLTU" -> Truth(Unsigned(a) < Unsigned(b))
          [] i.opCode \in {"SRA", "SRL"} -> ShiftRight(b, x)
          [] i.opCode \in {"SRAV", "SRLV"} -> ShiftRight(b, shift)
          [] i.opCode \in {"SUB", "SUBU"} -> Signed(a - b)
          [] i.opCode = "XOR" -> WordXor(a, b)
          [] i.opCode = "XORI" -> WordXor(a, Zext(x))

\* The quotient of the least word and -1 is no word: the host's division traps.
DivideTraps(R, i) ==
    i.opCode = "DIV" /\ R[i.rt] = -1 /\ R[i.rs] = -(2^(W - 1))

\* <<HiReg, LoReg>> after the instruction
ComputeHiLo(R, i) ==
    LET a == R[i.rs]
        b == R[i.rt]
    IN  CASE i.opCode = "MTHI" -> <<a, R[LoReg]>>
          [] i.opCode = "MTLO" -> <<R[HiReg], a>>
          [] i.opCode \in {"MULT", "MULTU"} -> Mult(a, b, i.opCode = "MULT")
          [] i.opCode \in {"DIV", "DIVU"} /\ b = 0 -> <<0, 0>>
          [] i.opCode = "DIV" /\ b # 0 -> <<Remainder(a, b), Quotient(a, b)>>
          [] i.opCode = "DIVU" /\ b # 0 -> <<Signed(Unsigned(a) % Unsigned(b)),
                                             Signed(Unsigned(a) \div Unsigned(b))>>

\* The registers after the link of a call.
Linked(R, i) ==
    CASE i.opCode \in {"BGEZAL", "BLTZAL", "JAL"} -> [R EXCEPT ![R31] = LinkAddr]
      [] i.opCode = "JALR" -> [R EXCEPT ![i.rd] = LinkAddr]
      [] OTHER -> R

\* Is the branch taken?  L are the registers after the link.
Taken(L, i) ==
    CASE i.opCode = "BEQ" -> L[i.rs] = L[i.rt]
      [] i.opCode = "BNE" -> L[i.rs] # L[i.rt]
      [] i.opCode \in {"BGEZ", "BGEZAL"} -> ~Negative(L[i.rs])
      [] i.opCode \in {"BLTZ", "BLTZAL"} -> Negative(L[i.rs])
      [] i.opCode = "BGTZ" -> L[i.rs] > 0
      [] i.opCode = "BLEZ" -> L[i.rs] <= 0

Target(L, i) ==
    CASE i.opCode \in Branches ->
            IF Taken(L, i) THEN Signed(L[NextPCReg] + IndexToAddr(i.extra)) ELSE pcAfter
      [] i.opCode \in {"J", "JAL"} -> Signed(Region(pcAfter) + IndexToAddr(i.extra))
      [] i.opCode \in {"JR", "JALR"} -> L[i.rs]

\* Loads and stores
Addr(R, i) == Signed(R[i.rs] + i.extra)
SizeOf(i) ==
    CASE i.opCode \in {"LB", "LBU", "SB"} -> 1
      [] i.opCode \in {"LH", "LHU", "SH"} -> 2
      [] OTHER -> 4

\* The value of register r that is still on its way, or in place.
Arriving(R, r) == IF R[LoadReg] = r THEN R[LoadValueReg] ELSE R[r]

\* LWL and LWR of an aligned word (they assert it): LWL loads it whole, LWR
\* puts its highest byte into the lowest one of the register.
Loaded(p, R, i) ==
    LET v == ReadMem(p, Addr(R, i), SizeOf(i))
    IN  CASE i.opCode = "LB" -> Extend(v, ByteBits)
          [] i.opCode = "LH" -> Extend(v, HalfBits)
          [] i.opCode \in {"LBU", "LHU"} -> v
          [] i.opCode \in {"LW", "LWL"} -> Signed(v)
          [] i.opCode = "LWR" -> LET old == Unsigned(Arriving(R, i.rt))
                                 IN  Signed(old - (old % 2^ByteBits) + ByteOf(v, 3))

\* SWL and SWR of an aligned word: SWL stores the register whole, SWR its
\* lowest byte into the highest one of the word.
Stored(p, R, i) ==
    IF i.opCode = "SWR"
    THEN (ReadMem(p, Addr(R, i), 4) % 2^(3 * ByteBits))
            + ByteOf(R[i.rt], 0) * 2^(3 * ByteBits)
    ELSE R[i.rt]

Asserts(R, i) == i.opCode \in {"LWL", "LWR", "SWL", "SWR"} /\ Addr(R, i) % 4 # 0

-----------------------------------------------------------------------------
(***************************************************************************)
(* OneInstruction                                                          *)
(***************************************************************************)
Running(p) == halted = "no" /\ currentThread = p /\ kpc[p] = "user"

FetchException(p) == Exception(p, registers[PCReg], 4, FALSE)
Fetched(p) == Running(p) /\ FetchException(p) = "NoException"
Instr(p) == Decode(Cell(p, registers[PCReg]).instr)

Stop(how) ==
    /\ halted' = how
    /\ UNCHANGED <<registers, mainMemory, pageTable, userRegisters, currentThread, kpc>>

Computes(p) ==
    LET i == Instr(p)
        rd == IF i.opCode \in Immediate THEN i.rt ELSE i.rd
    IN  /\ Fetched(p)
        /\ i.opCode \in Arithmetic /\ ~Overflows(registers, i)
        /\ registers' = Completed([registers EXCEPT ![rd] = Compute(registers, i)],
                                  0, 0, pcAfter)
        /\ pageTable' = Marked(p, {registers[PCReg]}, {})
        /\ UNCHANGED <<mainMemory, userRegisters, currentThread, kpc, halted>>

MultipliesDivides(p) ==
    LET i == Instr(p)
        hilo == ComputeHiLo(registers, i)
    IN  /\ Fetched(p)
        /\ i.opCode \in HiLo /\ ~DivideTraps(registers, i)
        /\ registers' = Completed([registers EXCEPT ![HiReg] = hilo[1], ![LoReg] = hilo[2]],
                                  0, 0, pcAfter)
        /\ pageTable' = Marked(p, {registers[PCReg]}, {})
        /\ UNCHANGED <<mainMemory, userRegisters, currentThread, kpc, halted>>

Jump(p) ==
    LET i == Instr(p)
        L == Linked(registers, i)
    IN  /\ Fetched(p)
        /\ i.opCode \in Branches \cup Jumps
        /\ registers' = Completed(L, 0, 0, Target(L, i))
        /\ pageTable' = Marked(p, {registers[PCReg]}, {})
        /\ UNCHANGED <<mainMemory, userRegisters, currentThread, kpc, halted>>

AccessException(p, i) ==
    Exception(p, Addr(registers, i), SizeOf(i), i.opCode \in Stores)

Load(p) ==
    LET i == Instr(p)
    IN  /\ Fetched(p)
        /\ i.opCode \in Loads /\ ~Asserts(registers, i)
        /\ AccessException(p, i) = "NoException"
        /\ registers' = Completed(registers, i.rt, Loaded(p, registers, i), pcAfter)
        /\ pageTable' = Marked(p, {registers[PCReg], Addr(registers, i)}, {})
        /\ UNCHANGED <<mainMemory, userRegisters, currentThread, kpc, halted>>

Store(p) ==
    LET i == Instr(p)
    IN  /\ Fetched(p)
        /\ i.opCode \in Stores /\ ~Asserts(registers, i)
        /\ AccessException(p, i) = "NoException"
        /\ mainMemory' = WriteMem(p, Addr(registers, i), SizeOf(i), Stored(p, registers, i))
        /\ registers' = Completed(registers, 0, 0, pcAfter)
        /\ pageTable' = Marked(p, {registers[PCReg]}, {Addr(registers, i)})
        /\ UNCHANGED <<userRegisters, currentThread, kpc, halted>>

\* An ASSERT of LWL, LWR, SWL and SWR, or the host's division trap.
Crash(p) ==
    /\ Fetched(p)
    /\ Asserts(registers, Instr(p)) \/ DivideTraps(registers, Instr(p))
    /\ Stop("Abort")

-----------------------------------------------------------------------------
(***************************************************************************)
(* Exceptions: the handler asserts FALSE on an illegal instruction, and on *)
(* other exceptions if it takes the thread for "main" (it compares the     *)
(* addresses of two literals).  Otherwise the instruction is tried again,  *)
(* with any load in progress done.                                         *)
(***************************************************************************)
Fault(p, which, badVAddr, used) ==
    \/ /\ which # "IllegalInstrException"
       /\ registers' = Trapped(registers, badVAddr)
       /\ pageTable' = Marked(p, used, {})
       /\ UNCHANGED <<mainMemory, userRegisters, currentThread, kpc, halted>>
    \/ /\ p = Main \/ which = "IllegalInstrException"
       /\ Stop("Abort")

FetchFaults(p) ==
    /\ Running(p)
    /\ FetchException(p) # "NoException"
    /\ Fault(p, FetchException(p), registers[PCReg], {})

ComputeFaults(p) ==
    LET i == Instr(p)
    IN  /\ Fetched(p)
        /\ \/ /\ Overflows(registers, i)
              /\ Fault(p, "OverflowException", 0, {registers[PCReg]})
           \/ /\ i.opCode \in {"RES", "UNIMP"}
              /\ Fault(p, "IllegalInstrException", 0, {registers[PCReg]})

AccessFaults(p) ==
    LET i == Instr(p)
    IN  /\ Fetched(p)
        /\ i.opCode \in Loads \cup Stores /\ ~Asserts(registers, i)
        /\ AccessException(p, i) # "NoException"
        /\ Fault(p, AccessException(p, i), Addr(registers, i), {registers[PCReg]})

-----------------------------------------------------------------------------
(***************************************************************************)
(* System calls.  Exec and Join are in module Process.                     *)
(***************************************************************************)
SC_Halt == 0
SC_Exit == 1
SC_Exec == 2
SC_Join == 3
SC_Read == 6
SC_Write == 7
SC_Yield == 10

InCall == Trapped(registers, 0)
Calls(p, code) == Fetched(p) /\ Instr(p).opCode = "SYSCALL" /\ InCall[2] = code

\* The processor is given away before the program counter advances.
CallYield(p) ==
    /\ Calls(p, SC_Yield)
    /\ registers' = InCall
    /\ kpc' = [kpc EXCEPT ![p] = "Yield"]
    /\ pageTable' = Marked(p, {registers[PCReg]}, {})
    /\ UNCHANGED <<mainMemory, userRegisters, currentThread, halted>>

\* ~AddrSpace, which does not return
CallExit(p) ==
    /\ Calls(p, SC_Exit)
    /\ registers' = AdvancePC(InCall)
    /\ kpc' = [kpc EXCEPT ![p] = "done"]
    /\ pageTable' = Marked(p, {registers[PCReg]}, {})
    /\ UNCHANGED <<mainMemory, userRegisters, currentThread, halted>>

CallHalt(p) == Calls(p, SC_Halt) /\ Stop("Halt")

\* Does ReadMem or WriteMem of one byte at a succeed?
Reaches(p, a) == Exception(p, a, 1, FALSE) = "NoException"

\* SWrite gets the bytes up to a zero byte; a byte that cannot be read is
\* tried again for ever, if its exception does not end in an ASSERT.
CallWrite(p) ==
    LET from == InCall[4]
        ends == {n \in 0..(numPages[p] * PageSize) :
                    ~Reaches(p, from + n) \/ ReadMem(p, from + n, 1) = 0}
        end == CHOOSE n \in ends : \A m \in ends : n <= m
    IN  /\ Calls(p, SC_Write)
        /\ \/ /\ Reaches(p, from + end)
              /\ registers' = AdvancePC(InCall)
              /\ pageTable' = Marked(p, {registers[PCReg]} \cup {from + n : n \in 0..end}, {})
              /\ UNCHANGED <<mainMemory, userRegisters, currentThread, kpc, halted>>
           \/ ~Reaches(p, from + end) /\ Stop("Hang")
           \/ ~Reaches(p, from + end) /\ p = Main /\ Stop("Abort")

\* The bytes that SRead writes, as <<how many that are not zero, is there a
\* zero byte after them>>.  A file ends the string with a zero byte or fills
\* the size asked for.  A word from the keyboard has at least one character;
\* scanf puts a zero byte after it, and size + 1 characters are let through.
\* A negative size reads nothing.
AtLeastZero(n) == IF n < 0 THEN 0 ELSE n
ReadFile(size) == {<<n, TRUE>> : n \in 0..(size - 1)} \cup {<<AtLeastZero(size), FALSE>>}
ReadKeyboard(size) ==
    {<<n, TRUE>> : n \in 1..(size + 1)} \cup {<<AtLeastZero(size + 1), FALSE>>}
SRead(size, id) == IF id = 0 THEN ReadKeyboard(size) ELSE ReadFile(size)

\* Memory after one WriteMem per byte of s from `to' on; bytes that cannot be
\* written are skipped.
Copied(p, to, s) ==
    LET last == s[1] + Truth(s[2])
        Hit(w, k) == {m \in 1..last : /\ Reaches(p, to + m - 1)
                                      /\ PhysAddr(p, to + m - 1) = 4 * w + k - 1}
    IN  [w \in DOMAIN mainMemory |->
            IF \A k \in 1..4 : Hit(w, k) = {} THEN mainMemory[w]
            ELSE [data |-> [k \in 1..4 |-> IF Hit(w, k) = {} THEN mainMemory[w].data[k]
                                           ELSE Truth(\A m \in Hit(w, k) : m <= s[1])]]]

CallRead(p) ==
    LET to == InCall[4]
        size == InCall[5]
        Missed(s) == {m \in 1..(s[1] + Truth(s[2])) : ~Reaches(p, to + m - 1)}
        BadVAddr(s) == IF Missed(s) = {} THEN 0
                       ELSE to + (CHOOSE m \in Missed(s) : \A k \in Missed(s) : k <= m) - 1
    IN  /\ Calls(p, SC_Read)
        /\ \E s \in SRead(size, InCall[6]) :
              \/ /\ mainMemory' = Copied(p, to, s)
                 /\ registers' = AdvancePC([InCall EXCEPT ![2] = s[1],
                                                          ![BadVAddrReg] = BadVAddr(s)])
                 /\ pageTable' = Marked(p, {registers[PCReg]},
                                        {to + m - 1 : m \in 1..(s[1] + Truth(s[2]))})
                 /\ UNCHANGED <<userRegisters, currentThread, kpc, halted>>
              \/ Missed(s) # {} /\ p = Main /\ Stop("Abort")

\* "Unprogrammed system call"
CallOther(p) ==
    /\ InCall[2] \notin {SC_Halt, SC_Exit, SC_Exec, SC_Join, SC_Read, SC_Write, SC_Yield}
    /\ Calls(p, InCall[2])
    /\ registers' = AdvancePC(InCall)
    /\ pageTable' = Marked(p, {registers[PCReg]}, {})
    /\ UNCHANGED <<mainMemory, userRegisters, currentThread, kpc, halted>>

-----------------------------------------------------------------------------
(***************************************************************************)
(* The context switch (Scheduler::Run)                                     *)
(***************************************************************************)
\* MUTANT of CheckIfDue: the load in progress is given up.
CheckIfDueDrops(R) == [R EXCEPT ![LoadReg] = 0, ![LoadValueReg] = 0]

\* What CheckIfDue does to the registers R before it calls a handler: a load in
\* progress is done.
CheckIfDue(R) == DelayedLoad(R, 0, 0)

\* OneTick of p's program finds an interrupt due, and p goes on: no timer, or
\* nobody else to run.  (In the kernel no load is in progress.)
Interrupted(p) ==
    /\ Running(p)
    /\ registers' = CheckIfDue(registers)
    /\ UNCHANGED <<mainMemory, pageTable, userRegisters, currentThread, kpc, halted>>

SaveUserState(p, R) == userRegisters' = [userRegisters EXCEPT ![p] = R]

\* What q has in the machine's registers when it goes on: a new process sets
\* them up, one that called Yield advances its program counter now.
Resumed(q, R) ==
    CASE kpc[q] = "new" -> InitRegisters(q)
      [] kpc[q] = "user" -> R
      [] kpc[q] = "Yield" -> AdvancePC(R)

Runnable(q) == kpc[q] # "done"

\* The timer's Yield comes after CheckIfDue has called its handler; a system
\* call that gives the processor away has done the load in RaiseException.
Switch(p, q) ==
    /\ halted = "no" /\ currentThread = p /\ p # q /\ Runnable(q)
    /\ SaveUserState(p, CheckIfDue(registers))
    /\ currentThread' = q
    /\ registers' = Resumed(q, userRegisters[q])
    /\ kpc' = [kpc EXCEPT ![q] = "user"]
    /\ UNCHANGED <<mainMemory, pageTable, halted>>

\* Yield finds nobody to run.
YieldReturns(p) ==
    /\ halted = "no" /\ currentThread = p /\ kpc[p] = "Yield"
    /\ registers' = Resumed(p, registers)
    /\ kpc' = [kpc EXCEPT ![p] = "user"]
    /\ UNCHANGED <<mainMemory, pageTable, userRegisters, currentThread, halted>>

Terminated ==
    /\ halted # "no" \/ \A p \in Proc : kpc[p] = "done"
    /\ UNCHANGED vars

Step(p) ==
    \/ Computes(p) \/ MultipliesDivides(p) \/ Jump(p) \/ Load(p) \/ Store(p) \/ Crash(p)
    \/ FetchFaults(p) \/ ComputeFaults(p) \/ AccessFaults(p)
    \/ CallYield(p) \/ CallExit(p) \/ CallHalt(p) \/ CallWrite(p) \/ CallRead(p)
    \/ CallOther(p)
    \/ Interrupted(p) \/ YieldReturns(p) \/ \E q \in Proc : Switch(p, q)

Next == (\E p \in Proc : Step(p)) \/ Terminated

Spec == Init /\ [][Next]_vars

-----------------------------------------------------------------------------
(***************************************************************************)
(* Properties                                                              *)
(***************************************************************************)
\* The registers of p, wherever they are kept now.
Context(p) ==
    CASE kpc[p] = "new" -> InitRegisters(p)
      [] currentThread = p -> registers
      [] OTHER -> userRegisters[p]

\* The machine as the program of p sees it, a load in progress done.
E(p) == INSTANCE Execute WITH
    GPR <- GPRegs, StackPtr <- numPages[p] * PageSize - 16,
    Reg <- [r \in GPRegs |-> IF r = 0 THEN 0 ELSE Arriving(Context(p), r)],
    HI <- Context(p)[HiReg], LO <- Context(p)[LoReg],
    pc <- Context(p)[PCReg], npc <- Context(p)[NextPCReg],
    mem <- [w \in 0..(numPages[p] * WordsPerPage - 1) |-> Cell(p, 4 * w)]

\* Types; register R0 is zero between instructions, whatever was computed
\* into it or loaded into it (DelayedLoad).
TypeOK ==
    /\ registers \in [Registers -> Word] /\ registers[0] = 0
    /\ userRegisters \in [Proc -> [Registers -> Word]]
    /\ registers[LoadReg] \in GPRegs
    /\ DOMAIN mainMemory = 0..(NumPhysPages * WordsPerPage - 1)
    /\ \A p \in Proc : pageTable[p] \in [0..(numPages[p] - 1) -> TranslationEntry]
    /\ currentThread \in Proc
    /\ kpc \in [Proc -> {"new", "user", "Yield", "done"}]
    /\ halted \in {"no", "Halt", "Abort", "Hang"}

\* Every process computes what it would compute alone, in a flat memory, on
\* the interpreter of bin/execute.c: no interrupt that does a load early, no
\* context switch in a delay slot, no fault that is tried again, no other process
\* and no page boundary shows (OneInstruction, DelayedLoad, RaiseException,
\* CheckIfDue, Translate, SaveUserState).
RunsLikeExecute ==
    /\ \A p \in Proc : E(p)!Init
    /\ [][\A p \in Proc : UNCHANGED E(p)!evars \/ E(p)!Next]_vars

\* What a process wrote can be told from its page table: a page with data in
\* it that was not loaded is marked dirty and used (Translate).
WrittenIsDirty ==
    \A p \in Proc : \A v \in DOMAIN pageTable[p] :
        (\E w \in 0..(WordsPerPage - 1) :
            LET cell == mainMemory[pageTable[p][v].physicalPage * WordsPerPage + w]
            IN  "data" \in DOMAIN cell /\ cell # Zero)
        => pageTable[p][v].dirty /\ pageTable[p][v].use

\* The double word that MULT and MULTU leave in HiReg and LoReg is the product
\* of the factors, for all signs and carries (Mult).
ProductIsExact ==
    [][\A p \in Proc :
         MultipliesDivides(p) =>
            LET i == Instr(p)
                a == registers[i.rs]
                b == registers[i.rt]
                hi == registers'[HiReg] * 2^W
                lo == Unsigned(registers'[LoReg])
            IN  /\ i.opCode = "MULT" => hi + lo = a * b
                /\ i.opCode = "MULTU" =>
                      Unsigned(registers'[HiReg]) * 2^W + lo = Unsigned(a) * Unsigned(b)
      ]_vars
=============================================================================
