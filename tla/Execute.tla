------------------------------ MODULE Execute -------------------------------
(***************************************************************************)
(* The other interpreter of MIPS instructions in the repository,           *)
(* runprogram in code/bin/execute.c: one program in a flat memory of its   *)
(* own, no translation, no load delay, nobody to share the processor with. *)
(* It stands here for what a user program may assume of its machine.       *)
(*                                                                         *)
(* Words, memory words and instruction words are those of module Mips and  *)
(* module Machine; fields are decoded here by the codes of encode.h.       *)
(***************************************************************************)
EXTENDS Mips

CONSTANTS GPR,       \* numbers of the general purpose registers
          StackPtr   \* initial Reg[29]

VARIABLES Reg, HI, LO, pc, npc, mem

evars == <<Reg, HI, LO, pc, npc, mem>>

\* encode.h: normal, special and bcond opcodes
I == [SPECIAL |-> \o00, BCOND |-> \o01, J |-> \o02, JAL |-> \o03, BEQ |-> \o04,
      BNE |-> \o05, BLEZ |-> \o06, BGTZ |-> \o07, ADDI |-> \o10, ADDIU |-> \o11,
      SLTI |-> \o12, SLTIU |-> \o13, ANDI |-> \o14, ORI |-> \o15, XORI |-> \o16,
      LUI |-> \o17, LB |-> \o40, LH |-> \o41, LWL |-> \o42, LW |-> \o43,
      LBU |-> \o44, LHU |-> \o45, LWR |-> \o46, SB |-> \o50, SH |-> \o51, SW |-> \o53]

S == [SLL |-> \o00, SRL |-> \o02, SRA |-> \o03, SLLV |-> \o04, SRLV |-> \o06,
      SRAV |-> \o07, JR |-> \o10, JALR |-> \o11, SYSCALL |-> \o14, BREAK |-> \o15, MFHI |-> \o20,
      MTHI |-> \o21, MFLO |-> \o22, MTLO |-> \o23, MULT |-> \o30, MULTU |-> \o31,
      DIV |-> \o32, DIVU |-> \o33, ADD |-> \o40, ADDU |-> \o41, SUB |-> \o42,
      SUBU |-> \o43, AND |-> \o44, OR |-> \o45, XOR |-> \o46, NOR |-> \o47,
      SLT |-> \o52, SLTU |-> \o53]

B == [BLTZ |-> \o00, BGEZ |-> \o01, BLTZAL |-> \o20, BGEZAL |-> \o21]

-----------------------------------------------------------------------------
ifetch == mem[Unsigned(pc) \div 4].instr
immed(w) == Extend(w.imm, HalfBits)

\* The instruction is normal, or special, with one of the given codes.
IsNormal(codes) == ifetch.op \in codes
IsSpecial(codes) == ifetch.op = I.SPECIAL /\ ifetch.funct \in codes
IsBcond(codes) == ifetch.op = I.BCOND /\ ifetch.rt \in codes

rs == Reg[ifetch.rs]
rt == Reg[ifetch.rt]

\* Register r gets v; Reg[0] is forced to zero before the next instruction,
\* here at the end of this one.
SetReg(r, v) == Reg' = [Reg EXCEPT ![r] = v, ![0] = 0]

\* The instruction after the delay slot is at `target'.
GoOn(target) == pc' = npc /\ npc' = Signed(target)
NextInstr == GoOn(npc + 4)

Special(w) ==
    CASE w.funct = S.SLL -> ShiftLeft(rt, w.shamt)
      [] w.funct = S.SRL -> ShiftRightUnsigned(rt, w.shamt)
      [] w.funct = S.SRA -> ShiftRight(rt, w.shamt)
      [] w.funct = S.SLLV -> ShiftLeft(rt, Unsigned(rs) % W)
      [] w.funct = S.SRLV -> ShiftRightUnsigned(rt, Unsigned(rs) % W)
      [] w.funct = S.SRAV -> ShiftRight(rt, Unsigned(rs) % W)
      [] w.funct = S.MFHI -> HI
      [] w.funct = S.MFLO -> LO
      [] w.funct \in {S.ADD, S.ADDU} -> Signed(rs + rt)
      [] w.funct \in {S.SUB, S.SUBU} -> Signed(rs - rt)
      [] w.funct = S.AND -> WordAnd(rs, rt)
      [] w.funct = S.OR -> WordOr(rs, rt)
      [] w.funct = S.XOR -> WordXor(rs, rt)
      [] w.funct = S.NOR -> Complement(WordOr(rs, rt))
      [] w.funct = S.SLT -> Truth(rs < rt)
      [] w.funct = S.SLTU -> Truth(Unsigned(rs) < Unsigned(rt))

SpecialOp ==
    /\ IsSpecial({S.SLL, S.SRL, S.SRA, S.SLLV, S.SRLV, S.SRAV, S.MFHI, S.MFLO, S.ADD,
                  S.ADDU, S.SUB, S.SUBU, S.AND, S.OR, S.XOR, S.NOR, S.SLT, S.SLTU})
    /\ SetReg(ifetch.rd, Special(ifetch))
    /\ NextInstr
    /\ UNCHANGED <<HI, LO, mem>>

Normal(w) ==
    CASE w.op \in {I.ADDI, I.ADDIU} -> Signed(rs + immed(w))
      [] w.op = I.SLTI -> Truth(rs < immed(w))
      [] w.op = I.SLTIU -> Truth(Unsigned(rs) < Unsigned(immed(w)))
      [] w.op = I.ANDI -> WordAnd(rs, immed(w))
      [] w.op = I.ORI -> WordOr(rs, immed(w))
      [] w.op = I.XORI -> WordXor(rs, immed(w))
      [] w.op = I.LUI -> Signed(w.imm * 2^HalfBits)

NormalOp ==
    /\ IsNormal({I.ADDI, I.ADDIU, I.SLTI, I.SLTIU, I.ANDI, I.ORI, I.XORI, I.LUI})
    /\ SetReg(ifetch.rt, Normal(ifetch))
    /\ NextInstr
    /\ UNCHANGED <<HI, LO, mem>>

\* The high word of a product from the halves of its factors.
ProductHigh(a, b) ==
    LET Low(n) == n % 2^HalfBits
        High(n) == (Unsigned(n) \div 2^HalfBits) % 2^HalfBits
    IN  Signed(High(a) * High(b) + (High(a) * Low(b)) \div 2^HalfBits
                                 + (High(b) * Low(a)) \div 2^HalfBits)

MultOp ==
    LET negative == ifetch.funct = S.MULT /\ Negative(rs) # Negative(rt)
        Positive(n) == IF ifetch.funct = S.MULT /\ Negative(n) THEN Signed(-n) ELSE n
        hi == ProductHigh(Positive(rs), Positive(rt))
        lo == Signed(Positive(rs) * Positive(rt))
    IN  /\ IsSpecial({S.MULT, S.MULTU})
        /\ LO' = IF negative THEN Signed(-lo) ELSE lo
        /\ HI' = IF negative THEN Signed(Complement(hi) + Truth(LO' = 0)) ELSE hi
        /\ NextInstr
        /\ UNCHANGED <<Reg, mem>>

DivOp ==
    /\ IsSpecial({S.DIV, S.DIVU}) /\ rt # 0
    /\ LO' = IF ifetch.funct = S.DIV THEN Quotient(rs, rt)
             ELSE Signed(Unsigned(rs) \div Unsigned(rt))
    /\ HI' = IF ifetch.funct = S.DIV THEN Remainder(rs, rt)
             ELSE Signed(Unsigned(rs) % Unsigned(rt))
    /\ NextInstr
    /\ UNCHANGED <<Reg, mem>>

MoveOp ==
    /\ IsSpecial({S.MTHI, S.MTLO})
    /\ HI' = IF ifetch.funct = S.MTHI THEN rs ELSE HI
    /\ LO' = IF ifetch.funct = S.MTLO THEN rs ELSE LO
    /\ NextInstr
    /\ UNCHANGED <<Reg, mem>>

\* J, JAL, JR and JALR
JumpOp ==
    /\ \/ /\ IsNormal({I.J, I.JAL})
          /\ GoOn(Region(pc) + IndexToAddr(ifetch.target))
          /\ IF ifetch.op = I.JAL THEN SetReg(31, Signed(pc + 8)) ELSE UNCHANGED Reg
       \/ /\ IsSpecial({S.JR, S.JALR})
          /\ GoOn(rs)
          /\ IF ifetch.funct = S.JALR THEN SetReg(ifetch.rd, Signed(pc + 8)) ELSE UNCHANGED Reg
    /\ UNCHANGED <<HI, LO, mem>>

BranchOp ==
    LET linked == IF IsBcond({B.BLTZAL, B.BGEZAL})
                  THEN [Reg EXCEPT ![31] = Signed(pc + 8)] ELSE Reg
        s == linked[ifetch.rs]
        taken == \/ ifetch.op = I.BEQ /\ rs = rt
                 \/ ifetch.op = I.BNE /\ rs # rt
                 \/ ifetch.op = I.BLEZ /\ rs <= 0
                 \/ ifetch.op = I.BGTZ /\ rs > 0
                 \/ IsBcond({B.BLTZ, B.BLTZAL}) /\ s < 0
                 \/ IsBcond({B.BGEZ, B.BGEZAL}) /\ s >= 0
    IN  /\ \/ IsNormal({I.BEQ, I.BNE, I.BLEZ, I.BGTZ})
           \/ IsBcond({B.BLTZ, B.BGEZ, B.BLTZAL, B.BGEZAL})
        /\ GoOn(IF taken THEN pc + 4 + IndexToAddr(immed(ifetch)) ELSE npc + 4)
        /\ Reg' = linked
        /\ UNCHANGED <<HI, LO, mem>>

-----------------------------------------------------------------------------
(***************************************************************************)
(* Memory.  The host is little endian.                                     *)
(***************************************************************************)
addr == Unsigned(rs + immed(ifetch))
bytes == mem[addr \div 4].data
\* Other alignments than that of the size do not occur here.
Size(w) == CASE w.op \in {I.LB, I.LBU, I.SB} -> 1 [] w.op \in {I.LH, I.LHU, I.SH} -> 2
             [] OTHER -> 4
fetch(n) ==
    LET at == addr % 4
        Weight(k) == bytes[at + k] * 2^((k - 1) * ByteBits)
    IN  CASE n = 1 -> Weight(1) [] n = 2 -> Weight(1) + Weight(2)
          [] n = 4 -> Weight(1) + Weight(2) + Weight(3) + Weight(4)

LoadOp ==
    /\ IsNormal({I.LB, I.LBU, I.LH, I.LHU, I.LW}) /\ addr % Size(ifetch) = 0
    /\ SetReg(ifetch.rt, CASE ifetch.op = I.LB -> Extend(fetch(1), ByteBits)
                           [] ifetch.op = I.LBU -> fetch(1)
                           [] ifetch.op = I.LH -> Extend(fetch(2), HalfBits)
                           [] ifetch.op = I.LHU -> fetch(2)
                           [] ifetch.op = I.LW -> Signed(fetch(4)))
    /\ NextInstr
    /\ UNCHANGED <<HI, LO, mem>>

\* LWL keeps all bits of the register under the word; LWR of an aligned word
\* loads it whole.
LoadPartOp ==
    /\ IsNormal({I.LWL, I.LWR}) /\ addr % 4 = 0
    /\ SetReg(ifetch.rt, IF ifetch.op = I.LWL THEN WordOr(rt, Signed(fetch(4)))
                         ELSE Signed(fetch(4)))
    /\ NextInstr
    /\ UNCHANGED <<HI, LO, mem>>

StoreOp ==
    LET at == addr % 4
        n == Size(ifetch)
        Byte(k) == (Unsigned(rt) \div 2^(k * ByteBits)) % 2^ByteBits
    IN  /\ IsNormal({I.SB, I.SH, I.SW}) /\ addr % Size(ifetch) = 0
        /\ mem' = [mem EXCEPT ![addr \div 4].data =
                     [k \in 1..4 |-> IF k - 1 \in at..(at + n - 1) THEN Byte(k - 1 - at)
                                     ELSE @[k]]]
        /\ NextInstr
        /\ UNCHANGED <<Reg, HI, LO>>

\* SYSCALL, and BREAK through system_break.  The calls of system.c are those
\* of Unix, with the result in Reg[1], the calls of Nachos have theirs in
\* Reg[2]: both registers, and data, are left open; exit takes no step.
system_trap ==
    /\ IsSpecial({S.SYSCALL, S.BREAK})
    /\ \A r \in GPR \ {1, 2} : Reg'[r] = Reg[r]
    /\ \A w \in DOMAIN mem : "instr" \in DOMAIN mem[w] => mem'[w] = mem[w]
    /\ NextInstr
    /\ UNCHANGED <<HI, LO>>

Init ==
    /\ Reg = [r \in GPR |-> IF r = StackReg THEN StackPtr ELSE 0]
    /\ HI = 0 /\ LO = 0
    /\ pc = 0 /\ npc = 4

Next ==
    \/ SpecialOp \/ NormalOp \/ MultOp \/ DivOp \/ MoveOp \/ JumpOp \/ BranchOp
    \/ LoadOp \/ LoadPartOp \/ StoreOp \/ system_trap

Spec == Init /\ [][Next]_evars
=============================================================================
