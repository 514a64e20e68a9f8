----------------------------- MODULE MCMachine ------------------------------
(***************************************************************************)
(* Module Machine with two processes: one runs a program of a family that  *)
(* tries every instruction, the other a fixed one.  Their view of the      *)
(* machine is compared with module Execute.                                *)
(***************************************************************************)
EXTENDS Machine

-----------------------------------------------------------------------------
(***************************************************************************)
(* An assembler                                                            *)
(***************************************************************************)
RType(f, s, t, d, sh) ==
    [op |-> 0, rs |-> s, rt |-> t, rd |-> d, shamt |-> sh, funct |-> f, imm |-> 0,
     target |-> 0]
IType(o, s, t, i) ==
    [op |-> o, rs |-> s, rt |-> t, rd |-> 0, shamt |-> 0, funct |-> 0,
     imm |-> i % 2^HalfBits, target |-> 0]
JType(o, a) ==
    [op |-> o, rs |-> 0, rt |-> 0, rd |-> 0, shamt |-> 0, funct |-> 0, imm |-> 0,
     target |-> a]

Nop == RType(0, 0, 0, 0, 0)
SysCall == RType(12, 0, 0, 0, 0)
\* r gets a small number, or any word
Li(r, n) == IType(9, 0, r, n)
La(r, n) ==
    LET low == Extend(n, HalfBits)
    IN  <<IType(15, 0, r, (n - low) \div 2^HalfBits), IType(9, r, r, low)>>
Sys(code) == <<Li(2, code), SysCall>>
Exits == Sys(SC_Exit)

Max == 2^(W - 1) - 1
Min == -(2^(W - 1))

\* Words, and pairs of words, that an operation may go wrong on.
Words == {-1, Max, Min}
Pairs == {<<5, -1>>, <<-1, 5>>, <<Max, 5>>, <<Min, -1>>, <<Max, Min>>, <<Min, Max>>}

\* The result is stored, read back as halves, and the program exits.
Ending == <<IType(\o53, 29, 3, 0), IType(\o41, 29, 5, 2), IType(\o45, 29, 6, 2)>> \o Exits

Signeds == {RType(f, 4, 5, 3, 0) : f \in {\o40, \o41, \o42, \o43, \o44, \o46, \o47, \o52,
                                          \o53, \o04, \o07}}
Shifts == {RType(f, 0, 4, 3, sh) : f \in {\o00, \o03}, sh \in {1, W - 1}}
Immediates == {IType(o, 4, 3, i) : o \in {\o10, \o11, \o12, \o13}, i \in {-3, 1}}
               \cup {IType(o, 4, 3, 6) : o \in {\o14, \o15, \o16}}

Computing ==
    {La(4, m[1]) \o La(5, m[2]) \o <<o>> \o Ending : m \in Pairs, o \in Signeds}
    \cup {La(4, a) \o <<o>> \o Ending : a \in Words, o \in Shifts \cup Immediates}

\* MULT and MULTU of words whose product execute.c gets right, DIV and DIVU
Unsigneds == {<<-1, 1>>, <<0, Min>>, <<Min, 2>>, <<64, 64>>}
Products == Unsigneds \cup {<<3, Max>>, <<-3, Max>>, <<5, -1>>, <<-3, -5>>}
Multiplying ==
    {La(4, m[1]) \o La(5, m[2]) \o <<RType(m[3], 4, 5, 0, 0), RType(\o20, 0, 0, 3, 0),
                                     RType(\o22, 0, 0, 6, 0)>> \o Exits :
        m \in {q \o <<\o30>> : q \in Products} \cup {q \o <<\o31>> : q \in Unsigneds}}
    \cup {La(4, a) \o La(5, b) \o <<RType(f, 4, 5, 0, 0), RType(\o21, 5, 0, 0, 0),
                                    RType(\o23, 4, 0, 0, 0)>> \o Exits :
             a \in {0, 5, -7, Max, Min}, b \in {2, -3}, f \in {\o32, \o33}}

\* A branch or jump over one instruction, its delay slot in front.
Skip(branch) ==
    <<branch, Li(3, 1), Li(3, 2)>> \o Exits
Branching ==
    {<<Li(4, a), Li(5, b)>> \o Skip(IType(o, 4, 5, 2)) :
        a \in {-1, 0, 1}, b \in {0, 1}, o \in {4, 5}}
    \cup {<<Li(4, a), Nop>> \o Skip(IType(o, 4, 0, 2)) : a \in {-1, 0, 1}, o \in {6, 7}}
    \cup {<<Li(4, a), Nop>> \o Skip(IType(1, 4, c, 2)) :
             a \in {-1, 0, 1}, c \in {0, 1, 16, 17}}
    \cup {<<Nop, Nop>> \o Skip(JType(o, 5)) : o \in {2, 3}}
    \cup {<<Li(4, 20), Nop>> \o Skip(RType(8, 4, 0, 0, 0)),
          <<Li(4, 20), Nop>> \o Skip(RType(9, 4, 0, 31, 0)),
          \* a loop that counts down
          <<Li(4, 2), IType(9, 4, 4, -1), IType(5, 4, 0, -2), Li(3, 1)>> \o Exits}

\* Stores and loads at any distance from the stack pointer, some of them
\* unaligned or outside the address space, in front of a fault or a call.
Storing ==
    {La(4, Min + 7) \o <<IType(s, 29, 4, d[1]), IType(l, 29, 3, d[1])>> \o d[2] :
        s \in {\o50, \o51, \o53}, l \in {\o40, \o41, \o42, \o43, \o44, \o45},
        d \in {<<0, Exits>>, <<1, Exits>>, <<16, Exits>>, <<0, Sys(SC_Yield) \o Exits>>,
               <<2, <<IType(\o53, 29, 4, 1)>>>>}}

\* System calls: Yield, Write of a string, Read of a few bytes, an unknown one
Calling ==
    {<<IType(9, 29, 4, d), Li(5, 2), Li(6, id)>> \o Sys(c) \o Exits :
        d \in {0, 7}, id \in {0, 2}, c \in {SC_Read, SC_Write, SC_Halt, 9}}
    \cup {<<IType(9, 29, 4, 7), Li(5, n), Li(6, id)>> \o Sys(SC_Read) \o Exits :
              n \in {-1, -2}, id \in {0, 2}}
    \cup {<<Li(4, 1), IType(\o50, 29, 4, 15), IType(9, 29, 4, 15)>> \o Sys(SC_Write),
          <<IType(\o76, 0, 0, 0)>>, <<IType(\o20, 0, 0, 0)>>,
          La(4, Min) \o <<Li(5, -1), RType(\o32, 4, 5, 0, 0)>>,
          <<IType(\o46, 29, 3, 2)>>, <<Li(4, 21), RType(8, 4, 0, 0, 0), Nop>>,
          \* R0 as a target, of a load too
          <<Li(0, 5), RType(\o41, 0, 0, 3, 0)>> \o Exits,
          <<IType(\o53, 29, 29, 0), IType(\o43, 29, 0, 0), Nop,
            RType(\o41, 0, 0, 3, 0)>> \o Exits}

\* OR and SRL: the two interpreters agree on a second operand that adds no bit
\* to the first, and on a word that is not negative.
Agreeing ==
    {La(4, Max) \o La(5, 5) \o <<o>> \o Ending :
        o \in {RType(\o45, 4, 5, 3, 0), RType(\o02, 0, 4, 3, 1)}}

Other == <<Li(2, 10), IType(\o53, 29, 2, 4), IType(\o43, 29, 3, 4), SysCall,
           IType(9, 3, 4, 3), Li(2, 1), SysCall>>

MCNumPages == [p \in Proc |-> 4]
MCStartHere == [p \in Proc |-> IF p = Main THEN 4 ELSE 0]
MCImages ==
    {[p \in Proc |-> IF p = Main THEN program ELSE Other] :
        program \in Computing \cup Agreeing \cup Multiplying \cup Branching \cup Storing
                       \cup Calling}
=============================================================================
