------------------------------ MODULE Process ------------------------------
(***************************************************************************)
(* User processes: Exec, Join, Exit, Yield and Halt, the process control   *)
(* block and the destructor of an address space, as threads of the Nachos  *)
(* kernel (code/userprog/exception.cc, progtest.cc, addrspace.cc).         *)
(*                                                                         *)
(* A thread is named by its PID.  A step is the code from one kernel call  *)
(* to the next; a system call that makes none ends with the tick that      *)
(* Machine::Run makes after each instruction.  What a program computes,    *)
(* which calls it makes and when is left open.                             *)
(***************************************************************************)
EXTENDS Integers, Sequences, FiniteSets

CONSTANTS MaxProc,       \* BOUND: PIDs handed out
          NumPhysPages,  \* number of frames
          Sizes,         \* numbers of pages that programs need
          MemAll,        \* the allocation algorithm
          Orderly,       \* programs join only their own children and exit
                         \* only after these have exited
          TimeSlice      \* -rs

ASSUME ProcessAssumption ==
    /\ MaxProc \in Nat \ {0}
    /\ NumPhysPages \in Nat \ {0}
    /\ Sizes \subseteq Nat \ {0}
    /\ MemAll \in {"FirstFit", "BestFit", "WorstFit"}
    /\ Orderly \in BOOLEAN
    /\ TimeSlice \in BOOLEAN

Pid == 1..MaxProc
NoSpace == [StartHere |-> -1, numPages |-> 0]

MutexNumProc == <<"MutexNumProc", 0>>
ProcessSemaphore(p) == <<"ProcessSemaphore", p>>
Semaphores == {MutexNumProc} \cup {ProcessSemaphore(p) : p \in Pid}

\* What register 2 holds when a call leaves it alone: the call's own code.
SC_Exec == 2
SC_Join == 3

VARIABLES currentThread, threadToBeDestroyed, readyList, status, kpc, waitsOn,
          value, queue, pending, idle, halted

kvars == <<currentThread, threadToBeDestroyed, readyList, status, kpc,
           waitsOn, value, queue, pending, idle, halted>>

VARIABLES
    pc,          \* where the code of each process stands
    arg,         \* the PID that its Exec creates or its Join waits for
    r2,          \* the result of its last system call
    ParentPID,   \* of each ProcessElement
    Valid,       \* of each ProcessElement
    space,       \* its address space, NoSpace before and after
    MainMemMap,  \* the frames marked in the bitmap
    ProcessId,   \* the last PID handed out
    NumProcess,
    PCB,         \* ProcessList from Head to Tail
    tailIsNull,  \* Tail->Next is NULL, not Tail itself
    stopped      \* "no", "Halt", "Abort" on an ASSERT, or the system call
                 \* ("Join", "Exit") in which the kernel dereferenced NULL

pvars == <<ParentPID, Valid, space, MainMemMap, ProcessId, NumProcess, PCB,
           tailIsNull>>
vars == <<kvars, pc, arg, r2, pvars, stopped>>

K == INSTANCE Kernel WITH
        Thread <- Pid, Main <- 1, NoThread <- 0, Sem <- Semaphores,
        NoSem <- <<"none", 0>>,
        InitialValue <- [s \in Semaphores |-> IF s = MutexNumProc THEN 1 ELSE 0],
        Device <- {}, UserThread <- Pid, MaxValue <- MaxProc

\* Physical memory, as module AddrSpace describes it.
A == INSTANCE AddrSpace WITH
        Algorithms <- {MemAll}, MaxSpaces <- MaxProc,
        spaces <- {space[p] : p \in {q \in Pid : space[q] # NoSpace}}

Init ==
    /\ K!Init
    /\ pc = [p \in Pid |-> IF p = 1 THEN "load" ELSE "creator"]
    /\ arg = [p \in Pid |-> 0]
    /\ r2 = [p \in Pid |-> 0]
    /\ ParentPID = [p \in Pid |-> 0]
    /\ Valid = [p \in Pid |-> FALSE]
    /\ space = [p \in Pid |-> NoSpace]
    /\ MainMemMap = {}
    /\ ProcessId = 0
    /\ NumProcess = 0
    /\ PCB = << >>
    /\ tailIsNull = FALSE
    /\ stopped = "no"

-----------------------------------------------------------------------------
(***************************************************************************)
(* ProcessList.  A new element points to itself; removing the tail leaves  *)
(* NULL in the Next of the new one.                                        *)
(***************************************************************************)
InPCB(p) == \E k \in 1..Len(PCB) : PCB[k] = p

AppendPCB(p) == PCB' = Append(PCB, p) /\ tailIsNull' = FALSE

\* MUTANT of RemovePCB: the neighbours are not linked to each other, so the
\* elements after p are lost too.
RemovePCBTruncates(p) ==
    /\ PCB' = SelectSeq(PCB, LAMBDA q : q < p)
    /\ tailIsNull' = (IF Len(PCB) > 1 /\ InPCB(p) THEN TRUE ELSE tailIsNull)

\* MUTANT of RemovePCB: an element that is both head and tail stays.
RemovePCBKeepsLast(p) ==
    /\ PCB' = IF Len(PCB) = 1 THEN PCB ELSE SelectSeq(PCB, LAMBDA q : q # p)
    /\ tailIsNull' = (IF Len(PCB) > 1 /\ PCB[Len(PCB)] = p THEN TRUE ELSE tailIsNull)

\* The list without the element of p, whose neighbours are linked to each other.
Without(p) ==
    LET at == CHOOSE k \in 1..Len(PCB) : PCB[k] = p
    IN  IF InPCB(p) THEN SubSeq(PCB, 1, at - 1) \o SubSeq(PCB, at + 1, Len(PCB)) ELSE PCB

RemovePCB(p) ==
    /\ PCB' = Without(p)
    /\ tailIsNull' = (IF Len(PCB) > 1 /\ PCB[Len(PCB)] = p THEN TRUE ELSE tailIsNull)

\* ProcessList::Return(p) follows Next before it looks whether it is at the
\* tail, so it dereferences NULL when the only element is not p and its
\* Next was set to NULL.
ReturnCrashes(p) == Len(PCB) = 1 /\ ~InPCB(p) /\ tailIsNull

-----------------------------------------------------------------------------
Goto(p, to) == pc' = [pc EXCEPT ![p] = to]
At(p, from) == stopped = "no" /\ pc[p] = from
Result(p, v) == r2' = [r2 EXCEPT ![p] = v]

\* The kernel stops in the code of p.
Stop(p, where) ==
    /\ K!AtBody(p)
    /\ stopped' = where
    /\ UNCHANGED <<kvars, pc, arg, r2, pvars>>

\* The constructor of AddrSpace for process p; Valid is its SpaceFound.
NewAddrSpace(p, n) ==
    LET start == A!MemoryAllocation(MemAll, MainMemMap, n)
        found == start # A!NoSpace
        sp == [StartHere |-> start, numPages |-> n]
    IN  /\ Valid' = [Valid EXCEPT ![p] = found]
        /\ space' = [space EXCEPT ![p] = IF found THEN sp ELSE NoSpace]
        /\ MainMemMap' = IF found THEN MainMemMap \cup A!FramesOf(sp) ELSE MainMemMap

\* StartProcess for the first program.
StartProcess(n) ==
    /\ At(1, "load")
    /\ ProcessId' = 1
    /\ NewAddrSpace(1, n)
    /\ \/ /\ Valid'[1]
          /\ AppendPCB(1)
          /\ K!P(1, MutexNumProc)
          /\ Goto(1, "count")
       \/ /\ ~Valid'[1]
          /\ K!Finish(1)
          /\ Goto(1, "done")
          /\ UNCHANGED <<PCB, tailIsNull>>
    /\ UNCHANGED <<arg, r2, ParentPID, NumProcess, stopped>>

\* StartProcess returns to main, which finishes its thread.
StartProcessNoFile ==
    /\ At(1, "load")
    /\ K!Finish(1)
    /\ Goto(1, "done")
    /\ UNCHANGED <<arg, r2, pvars, stopped>>

\* MUTANT of Count: the process is not counted.
CountForgets(p, from, to) ==
    /\ At(p, from)
    /\ K!V(p, MutexNumProc)
    /\ Goto(p, to)
    /\ UNCHANGED <<arg, r2, pvars, stopped>>

\* ++NumProcess and MutexNumProc->V(), in StartProcess and in Exec.
Count(p, from, to) ==
    /\ At(p, from)
    /\ NumProcess' = NumProcess + 1
    /\ K!V(p, MutexNumProc)
    /\ Goto(p, to)
    /\ UNCHANGED <<arg, r2, ParentPID, Valid, space, MainMemMap, ProcessId, PCB,
                   tailIsNull, stopped>>

\* processCreator: a new process yields once, then runs its program.
Creator(p) ==
    /\ At(p, "creator")
    /\ K!Yield(p)
    /\ Goto(p, "user")
    /\ UNCHANGED <<arg, r2, pvars, stopped>>

\* An instruction of the program that is no system call, or one that has no
\* effect on processes.
Instruction(p) ==
    /\ At(p, "user")
    /\ K!UserTick(p)
    /\ UNCHANGED <<pc, arg, r2, pvars, stopped>>

-----------------------------------------------------------------------------
(***************************************************************************)
(* SC_Exec                                                                 *)
(***************************************************************************)

\* A new PID is taken in any case; a name that cannot be read returns it, a
\* file that cannot be opened leaves register 2 alone.
ExecFails(p) ==
    /\ At(p, "user")
    /\ ProcessId < MaxProc
    /\ ProcessId' = ProcessId + 1
    /\ Result(p, ProcessId') \/ Result(p, SC_Exec)
    /\ K!UserTick(p)
    /\ UNCHANGED <<pc, arg, ParentPID, Valid, space, MainMemMap, NumProcess, PCB,
                   tailIsNull, stopped>>

Exec(p, n) ==
    /\ At(p, "user")
    /\ ProcessId < MaxProc
    /\ ProcessId' = ProcessId + 1
    /\ NewAddrSpace(ProcessId', n)
    /\ ParentPID' = [ParentPID EXCEPT ![ProcessId'] = p]
    /\ \/ /\ Valid'[ProcessId']
          /\ arg' = [arg EXCEPT ![p] = ProcessId']
          /\ K!P(p, MutexNumProc)
          /\ Goto(p, "execCount")
          /\ UNCHANGED <<PCB, tailIsNull, r2>>
       \/ /\ ~Valid'[ProcessId']
          /\ AppendPCB(ProcessId')
          /\ Result(p, ProcessId')
          /\ K!UserTick(p)
          /\ UNCHANGED <<pc, arg>>
    /\ UNCHANGED <<NumProcess, stopped>>

ExecFork(p) ==
    /\ At(p, "execFork")
    /\ K!Fork(p, arg[p])
    /\ Goto(p, "execAppend")
    /\ UNCHANGED <<arg, r2, pvars, stopped>>

\* PCB->Append comes after the Fork.
ExecAppend(p) ==
    /\ At(p, "execAppend")
    /\ AppendPCB(arg[p])
    /\ Result(p, arg[p])
    /\ K!UserTick(p)
    /\ Goto(p, "user")
    /\ UNCHANGED <<arg, ParentPID, Valid, space, MainMemMap, ProcessId, NumProcess,
                   stopped>>

-----------------------------------------------------------------------------
(***************************************************************************)
(* SC_Join                                                                 *)
(***************************************************************************)

\* A PID that is not in the PCB gives -1, a process without memory leaves
\* register 2 alone.
JoinReturns(p, c) ==
    /\ At(p, "user")
    /\ ~ReturnCrashes(c)
    /\ \/ ~InPCB(c) /\ Result(p, -1)
       \/ InPCB(c) /\ ~Valid[c] /\ Result(p, SC_Join)
    /\ K!UserTick(p)
    /\ UNCHANGED <<pc, arg, pvars, stopped>>

\* The caller waits on the semaphore of the parent of c.
JoinWaits(p, c) ==
    /\ At(p, "user")
    /\ InPCB(c) /\ Valid[c] /\ InPCB(ParentPID[c])
    /\ arg' = [arg EXCEPT ![p] = c]
    /\ K!P(p, ProcessSemaphore(ParentPID[c]))
    /\ Goto(p, "joined")
    /\ UNCHANGED <<r2, pvars, stopped>>

Joined(p) ==
    /\ At(p, "joined")
    /\ Result(p, 0)
    /\ K!UserTick(p)
    /\ Goto(p, "user")
    /\ UNCHANGED <<arg, pvars, stopped>>

\* Return(c) runs into NULL, or there is no element for the parent of c.
JoinCrashes(p, c) ==
    /\ At(p, "user")
    /\ \/ ReturnCrashes(c)
       \/ InPCB(c) /\ Valid[c] /\ ~InPCB(ParentPID[c])
    /\ K!AtBody(p)
    /\ arg' = [arg EXCEPT ![p] = c]
    /\ stopped' = "Join"
    /\ UNCHANGED <<kvars, pc, r2, pvars>>

-----------------------------------------------------------------------------
(***************************************************************************)
(* SC_Exit: the destructor of AddrSpace, which does not return             *)
(***************************************************************************)
\* MUTANT of FreeFrames: Clear(i) instead of Clear(i + StartHere).
FreeFramesFromZero(p) ==
    /\ MainMemMap' = MainMemMap \ 0..(space[p].numPages - 1)
    /\ space' = [space EXCEPT ![p] = NoSpace]

FreeFrames(p) ==
    /\ MainMemMap' = MainMemMap \ A!FramesOf(space[p])
    /\ space' = [space EXCEPT ![p] = NoSpace]

\* CleanupExit reads ParentPID from a fresh, uninitialized element if p is
\* not in the PCB.
ParentRead(p) == IF InPCB(p) THEN {ParentPID[p]} ELSE 0..(MaxProc + 1)

\* MUTANT of ExitWakes: the semaphore of the child is V'd, not the parent's.
ExitWakesItself(p) ==
    /\ At(p, "user")
    /\ ~ReturnCrashes(p)
    /\ FreeFrames(p)
    /\ RemovePCB(p)
    /\ \E q \in ParentRead(p) :
          \/ q = 0 /\ K!P(p, MutexNumProc) /\ Goto(p, "exitCount")
          \/ /\ \E k \in 1..Len(PCB') : PCB'[k] = q
             /\ K!V(p, ProcessSemaphore(p))
             /\ Goto(p, "exitMutex")
    /\ UNCHANGED <<arg, r2, ParentPID, Valid, ProcessId, NumProcess, stopped>>

ExitWakes(p) ==
    /\ At(p, "user")
    /\ ~ReturnCrashes(p)
    /\ FreeFrames(p)
    /\ RemovePCB(p)
    /\ \E q \in ParentRead(p) :
          \/ q = 0 /\ K!P(p, MutexNumProc) /\ Goto(p, "exitCount")
          \/ /\ \E k \in 1..Len(PCB') : PCB'[k] = q
             /\ K!V(p, ProcessSemaphore(q))
             /\ Goto(p, "exitMutex")
    /\ UNCHANGED <<arg, r2, ParentPID, Valid, ProcessId, NumProcess, stopped>>

\* Return(p) runs into NULL, or the parent that p wants to wake is gone from
\* the list when p is removed.
ExitCrashes(p) ==
    /\ At(p, "user")
    /\ \/ ReturnCrashes(p)
       \/ \E q \in ParentRead(p) \ {0} :
              ~\E k \in 1..Len(Without(p)) : Without(p)[k] = q
    /\ Stop(p, "Exit")

ExitMutex(p) ==
    /\ At(p, "exitMutex")
    /\ K!P(p, MutexNumProc)
    /\ Goto(p, "exitCount")
    /\ UNCHANGED <<arg, r2, pvars, stopped>>

ExitCount(p) ==
    /\ At(p, "exitCount")
    /\ NumProcess' = NumProcess - 1
    /\ K!V(p, MutexNumProc)
    /\ Goto(p, "exitFinish")
    /\ UNCHANGED <<arg, r2, ParentPID, Valid, space, MainMemMap, ProcessId, PCB,
                   tailIsNull, stopped>>

ExitFinish(p) ==
    /\ At(p, "exitFinish")
    /\ K!Finish(p)
    /\ Goto(p, "done")
    /\ UNCHANGED <<arg, r2, pvars, stopped>>

\* SC_Yield and SC_Halt
YieldCall(p) ==
    /\ At(p, "user")
    /\ K!Yield(p)
    /\ UNCHANGED <<pc, arg, r2, pvars, stopped>>

\* An exception of the program: the kernel asserts FALSE if the handler takes
\* the thread for "main" (it compares the addresses of two literals) or the
\* instruction is illegal; otherwise the instruction is tried again.
Fault(p) == At(p, "user") /\ Stop(p, "Abort")

Halt(p) == At(p, "user") /\ Stop(p, "Halt")

-----------------------------------------------------------------------------
\* p has executed its Exit.
Exited(p) == pc[p] \in {"exitMutex", "exitCount", "exitFinish", "done"}
Children(p) == {c \in Pid : ParentPID[c] = p /\ Valid[c]}

MayJoin(p) == IF Orderly THEN {c \in Pid : ParentPID[c] = p} ELSE Pid
MayExit(p) == Orderly => \A c \in Children(p) : Exited(c)

ProcessStep(p) ==
    \/ Count(p, "execCount", "execFork") \/ Creator(p) \/ Instruction(p)
    \/ ExecFails(p) \/ (\E n \in Sizes : Exec(p, n)) \/ ExecFork(p) \/ ExecAppend(p)
    \/ \E c \in MayJoin(p) : JoinReturns(p, c) \/ JoinWaits(p, c) \/ JoinCrashes(p, c)
    \/ Joined(p)
    \/ MayExit(p) /\ (ExitWakes(p) \/ ExitCrashes(p))
    \/ ExitMutex(p) \/ ExitCount(p) \/ ExitFinish(p)
    \/ YieldCall(p) \/ Halt(p) \/ Fault(p)

KernelStep(p) ==
    /\ stopped = "no"
    /\ K!KernelStep(p)
    /\ UNCHANGED <<pc, arg, r2, pvars, stopped>>

Terminated == (halted \/ stopped # "no") /\ UNCHANGED vars

Next ==
    \/ (\E n \in Sizes : StartProcess(n)) \/ StartProcessNoFile
    \/ Count(1, "count", "user")
    \/ \E p \in Pid : ProcessStep(p) \/ KernelStep(p)
    \/ Terminated

Spec == Init /\ [][Next]_vars

-----------------------------------------------------------------------------
(***************************************************************************)
(* Properties                                                              *)
(***************************************************************************)
Code == {"load", "count", "creator", "user", "execCount", "execFork", "execAppend",
         "joined", "exitMutex", "exitCount", "exitFinish", "done"}

\* The types of the variables; the count of processes is never negative and
\* the PCB holds no process twice.
TypeOK ==
    /\ pc \in [Pid -> Code]
    /\ arg \in [Pid -> Pid \cup {0}]
    /\ r2 \in [Pid -> Pid \cup {-1, 0, SC_Exec, SC_Join}]
    /\ ParentPID \in [Pid -> Pid \cup {0}]
    /\ Valid \in [Pid -> BOOLEAN]
    /\ \A p \in Pid : space[p] # NoSpace => A!FramesOf(space[p]) \subseteq A!Frames
    /\ MainMemMap \subseteq A!Frames
    /\ ProcessId \in 0..MaxProc
    /\ NumProcess \in 0..MaxProc
    /\ PCB \in Seq(Pid) /\ K!NoDuplicates(PCB)
    /\ tailIsNull \in BOOLEAN
    /\ stopped \in {"no", "Halt", "Abort", "Join", "Exit"}

\* Through Exec and Exit of interleaved processes, physical memory behaves as
\* module AddrSpace says: a frame is taken for one process, and given back
\* once, by the process that owns it (AddrSpace::AddrSpace, ~AddrSpace).
ImplementsAddrSpace == A!Spec

\* The Exec that creates c has forked it and not yet appended it to the PCB.
Unlisted(c) == \E p \in Pid : pc[p] = "execAppend" /\ arg[p] = c

\* A process that runs is in the PCB from the return of the Exec that created
\* it until its Exit (ProcessList::Append and Remove).
LiveIsListed ==
    \A c \in Pid : (Valid[c] /\ kpc[c] # "new" /\ ~Exited(c)) => InPCB(c) \/ Unlisted(c)

\* "process to wait for has not finished yet" (SC_Join): no process that has
\* exited comes to be found in the PCB, but for one that runs to its end while
\* the Exec that creates it is between Fork and Append.
ListedIsLive ==
    [][\A c \in Pid : (InPCB(c) /\ Valid[c] /\ Exited(c))'
                       => Exited(c) /\ (InPCB(c) \/ Unlisted(c))]_vars

\* The element without which Join(c), or the Exit of c, cannot go on: that of
\* the parent of c, which is read from the element of c, so that of c first.
Sought(c) == IF InPCB(c) THEN ParentPID[c] ELSE c

\* c has no element to be found: its Exec failed or is not done, or c exited.
Gone(c) == c \in Pid /\ (~Valid[c] \/ kpc[c] = "new" \/ Exited(c) \/ Unlisted(c))

\* Whatever programs do and whenever the timer switches, Join and Exit
\* dereference NULL only for the sake of a process that has exited, that never
\* ran, or whose Exec has not reached its Append, and never because the PCB
\* lost somebody (ProcessList::Remove, Return).  Join may name the first
\* process, whose ParentPID 0 is nobody's.
OnlyGoneAreMissed ==
    /\ stopped = "Exit" => Gone(Sought(currentThread))
    /\ stopped = "Join" => LET c == arg[currentThread]
                           IN  Sought(c) = 0 \/ Gone(Sought(c))

\* If parents outlive their children, the machine does not come to a stop with
\* a process left over: whoever joins a child is woken (SC_Join, SC_Exit).
NobodyLeftOver ==
    (Orderly /\ halted) => \A p \in Pid : kpc[p] # "new" => pc[p] = "done"

\* "Only return once the the user program "id" has finished.": the caller of
\* Join gets past the semaphore only when the process it named has exited.
JoinWaitsForChild ==
    \A p \in Pid : (pc[p] = "joined" /\ kpc[p] # "P") => Exited(arg[p])
=============================================================================
