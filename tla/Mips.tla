-------------------------------- MODULE Mips --------------------------------
(***************************************************************************)
(* Words, instructions and their decoding on the simulated MIPS            *)
(* (code/machine/mipssim.h, mipssim.cc: Instruction::Decode, Mult).        *)
(*                                                                         *)
(* A word has W bits, four bytes of W \div 4 bits; the code has W = 32.    *)
(* An instruction word is the record of its fields, each the number that   *)
(* its bits hold; `imm' is unsigned, `target' the field of a jump.         *)
(***************************************************************************)
EXTENDS Integers, Sequences, Bitwise

CONSTANT W

ASSUME WordAssumption == W \in Nat /\ W > 4 /\ W % 4 = 0

ByteBits == W \div 4
HalfBits == W \div 2

Word == -(2^(W - 1))..(2^(W - 1) - 1)

Unsigned(n) == n % 2^W
Signed(n) == IF Unsigned(n) >= 2^(W - 1) THEN Unsigned(n) - 2^W ELSE Unsigned(n)
Negative(n) == n < 0
\* The low `bits' bits of n as a signed number.
Extend(n, bits) ==
    LET low == n % 2^bits IN IF low >= 2^(bits - 1) THEN low - 2^bits ELSE low

WordAnd(a, b) == Signed(Unsigned(a) & Unsigned(b))
WordOr(a, b) == Signed(Unsigned(a) | Unsigned(b))
WordXor(a, b) == Signed(Unsigned(a) ^^ Unsigned(b))
Complement(a) == -a - 1
ShiftLeft(a, k) == Signed(a * 2^k)
\* >> of an int keeps the sign, >> of an unsigned int does not.
ShiftRight(a, k) == a \div 2^k
ShiftRightUnsigned(a, k) == Signed(Unsigned(a) \div 2^k)

\* / and % of C truncate towards zero.
Abs(n) == IF n < 0 THEN -n ELSE n
Quotient(a, b) ==
    LET q == Abs(a) \div Abs(b) IN IF Negative(a) = Negative(b) THEN q ELSE -q
Remainder(a, b) == a - b * Quotient(a, b)

Truth(b) == IF b THEN 1 ELSE 0

IndexToAddr(x) == 4 * x
\* & 0xf0000000
Region(a) == Signed(Unsigned(a) - (Unsigned(a) % 2^(W - 4)))

\* Numbers of the registers that are not general purpose registers.
R31 == 31
StackReg == 29
HiReg == 32
LoReg == 33
PCReg == 34
NextPCReg == 35
PrevPCReg == 36
LoadReg == 37
LoadValueReg == 38
BadVAddrReg == 39

-----------------------------------------------------------------------------
(***************************************************************************)
(* Decode                                                                  *)
(***************************************************************************)
opTable ==
    <<"SPECIAL", "BCOND", "J", "JAL", "BEQ", "BNE", "BLEZ", "BGTZ",
      "ADDI", "ADDIU", "SLTI", "SLTIU", "ANDI", "ORI", "XORI", "LUI",
      "UNIMP", "UNIMP", "UNIMP", "UNIMP", "RES", "RES", "RES", "RES",
      "RES", "RES", "RES", "RES", "RES", "RES", "RES", "RES",
      "LB", "LH", "LWL", "LW", "LBU", "LHU", "LWR", "RES",
      "SB", "SH", "SWL", "SW", "RES", "RES", "SWR", "RES",
      "UNIMP", "UNIMP", "UNIMP", "UNIMP", "RES", "RES", "RES", "RES",
      "UNIMP", "UNIMP", "UNIMP", "UNIMP", "RES", "RES", "RES", "RES">>

specialTable ==
    <<"SLL", "RES", "SRL", "SRA", "SLLV", "RES", "SRLV", "SRAV",
      "JR", "JALR", "RES", "RES", "SYSCALL", "UNIMP", "RES", "RES",
      "MFHI", "MTHI", "MFLO", "MTLO", "RES", "RES", "RES", "RES",
      "MULT", "MULTU", "DIV", "DIVU", "RES", "RES", "RES", "RES",
      "ADD", "ADDU", "SUB", "SUBU", "AND", "OR", "XOR", "NOR",
      "RES", "RES", "SLT", "SLTU", "RES", "RES", "RES", "RES",
      "RES", "RES", "RES", "RES", "RES", "RES", "RES", "RES",
      "RES", "RES", "RES", "RES", "RES", "RES", "RES", "RES">>

Bcond(rt) ==
    CASE rt = 0 -> "BLTZ" [] rt = 1 -> "BGEZ"
      [] rt = 16 -> "BLTZAL" [] rt = 17 -> "BGEZAL" [] OTHER -> "UNIMP"

Decode(w) ==
    LET entry == opTable[w.op + 1]
    IN  [rs |-> w.rs, rt |-> w.rt, rd |-> w.rd,
         opCode |-> CASE entry = "SPECIAL" -> specialTable[w.funct + 1]
                      [] entry = "BCOND" -> Bcond(w.rt)
                      [] OTHER -> entry,
         extra |-> CASE entry = "SPECIAL" -> w.shamt
                     [] entry \in {"J", "JAL"} -> w.target
                     [] OTHER -> Extend(w.imm, HalfBits)]

-----------------------------------------------------------------------------
(***************************************************************************)
(* Mult: shift and add on unsigned words, one bit of a per round           *)
(***************************************************************************)
\* MUTANT of AddIn: the carry out of the low word is lost.
AddInNoCarry(s) ==
    [s EXCEPT !.lo = Unsigned(s.lo + s.bLo), !.hi = Unsigned(s.hi + s.bHi)]

AddIn(s) ==
    LET lo == Unsigned(s.lo + s.bLo)
    IN  [s EXCEPT !.lo = lo, !.hi = Unsigned(s.hi + Truth(lo < s.bLo) + s.bHi)]

Round(s) ==
    LET t == IF s.a % 2 = 1 THEN AddIn(s) ELSE s
    IN  IF s.a % 2 = 1 /\ Unsigned(s.a) \div 2 = 0
        THEN [t EXCEPT !.done = TRUE]
        ELSE [t EXCEPT !.bHi = Unsigned(2 * t.bHi + Truth(t.bLo >= 2^(W - 1))),
                       !.bLo = Unsigned(2 * t.bLo),
                       !.a = ShiftRight(t.a, 1)]

Rounds(start) ==
    LET after[i \in 0..W] ==
            IF i = 0 THEN start
            ELSE IF after[i - 1].done THEN after[i - 1] ELSE Round(after[i - 1])
    IN  after[W]

\* <<hi, lo>>; -a of the least word is the least word again.
Mult(a, b, signedArith) ==
    LET negative == signedArith /\ Negative(a) # Negative(b)
        Positive(n) == IF signedArith /\ Negative(n) THEN Signed(-n) ELSE n
        end == Rounds([a |-> Positive(a), bLo |-> Unsigned(Positive(b)), bHi |-> 0,
                       lo |-> 0, hi |-> 0, done |-> FALSE])
        lo == Unsigned(Complement(end.lo) + 1)
        hi == Complement(end.hi) + Truth(lo = 0)
    IN  IF a = 0 \/ b = 0 THEN <<0, 0>>
        ELSE IF negative THEN <<Signed(hi), Signed(lo)>>
        ELSE <<Signed(end.hi), Signed(end.lo)>>
=============================================================================
