------------------------------ MODULE ProcessProofs --------------------------
(***************************************************************************)
(* Theorems about user processes (code/userprog/exception.cc, progtest.cc, *)
(* addrspace.cc) for any number of processes, frames and sizes of programs *)
(* and any allocation algorithm.                                           *)
(***************************************************************************)
EXTENDS Process, TLAPS, FiniteSetTheorems, FunctionTheorems, SequenceTheorems

\* The theorems about the kernel and about physical memory, for this client.
KI == INSTANCE KernelProofs WITH
        Thread <- Pid, Main <- 1, NoThread <- 0, Sem <- Semaphores,
        NoSem <- <<"none", 0>>,
        InitialValue <- [s \in Semaphores |-> IF s = MutexNumProc THEN 1 ELSE 0],
        Device <- {}, UserThread <- Pid, MaxValue <- MaxProc

Spaces == {space[p] : p \in {q \in Pid : space[q] # NoSpace}}

AI == INSTANCE AddrSpaceProofs WITH
        Algorithms <- {MemAll}, MaxSpaces <- MaxProc, spaces <- Spaces

-----------------------------------------------------------------------------
(***************************************************************************)
(* The invariant                                                           *)
(***************************************************************************)

\* The types of what Exec, Join and Exit keep; all but the count of processes.
Types ==
    /\ pc \in [Pid -> Code]
    /\ arg \in [Pid -> Pid \cup {0}]
    /\ r2 \in [Pid -> Pid \cup {-1, 0, SC_Exec, SC_Join}]
    /\ ParentPID \in [Pid -> Pid \cup {0}]
    /\ Valid \in [Pid -> BOOLEAN]
    /\ ProcessId \in 0..MaxProc
    /\ PCB \in Seq(Pid) /\ K!NoDuplicates(PCB)
    /\ tailIsNull \in BOOLEAN
    /\ stopped \in {"no", "Halt", "Abort", "Join", "Exit"}

\* The address spaces: one for each process that has one, on frames of its own.
Memory ==
    /\ space \in [Pid -> [StartHere : A!Frames, numPages : Sizes] \cup {NoSpace}]
    /\ \A p, q \in Pid : space[p] = space[q] /\ space[p] # NoSpace => p = q
    /\ \A p \in Pid : p > ProcessId => space[p] = NoSpace
    /\ AI!Inv

\* p is in an Exec that makes process c.
Makes(p, c) == pc[p] \in {"execCount", "execFork", "execAppend"} /\ arg[p] = c

\* PIDs that were not handed out yet.
Fresh(c) == kpc[c] = "new" /\ ~Valid[c] /\ ParentPID[c] = 0 /\ ~InPCB(c)

\* Who has no PID yet.
NotYet ==
    \A c \in Pid : c > ProcessId =>
        IF c = 1 THEN pc[c] \in {"load", "done"} /\ ~Valid[c] /\ ~InPCB(c)
                 ELSE Fresh(c)

\* Where a process can be, and that it has memory when it runs.
Stages ==
    \A c \in Pid :
        /\ kpc[c] = "new" => pc[c] = "creator"
        /\ pc[c] = "creator" => c # 1
        /\ pc[c] = "load" => c = 1 /\ ProcessId = 0
        /\ pc[c] = "count" => c = 1
        /\ (kpc[c] # "new" /\ pc[c] \notin {"load", "done"}) => Valid[c]

\* A parent is older than its children and has started.
Parents ==
    \A c \in Pid : ParentPID[c] # 0 =>
        /\ ParentPID[c] < c /\ ParentPID[c] <= ProcessId
        /\ kpc[ParentPID[c]] # "new" /\ pc[ParentPID[c]] # "load"

\* The process that an Exec makes is not listed yet, and new until the Fork.
Making ==
    /\ \A p \in Pid : pc[p] \in {"execCount", "execFork", "execAppend"} => arg[p] \in Pid
    /\ \A p, c \in Pid : Makes(p, c) =>
          /\ ParentPID[c] = p /\ Valid[c] /\ c <= ProcessId /\ ~InPCB(c)
          /\ kpc[c] = "new" <=> pc[p] # "execAppend"

\* Who is listed and has memory has started.
ListedStarted == \A c \in Pid : InPCB(c) /\ Valid[c] => kpc[c] # "new"

Family == NotYet /\ Stages /\ Parents /\ Making /\ ListedStarted

\* The processes that NumProcess counts.
Counted ==
    {c \in Pid : /\ Valid[c]
                 /\ pc[c] \notin {"count", "exitFinish", "done"}
                 /\ \A p \in Pid : ~(pc[p] = "execCount" /\ arg[p] = c)}

Counting == NumProcess = Cardinality(Counted)

\* If parents outlive their children, the children of a process that has
\* exited have exited.
Orphans ==
    Orderly => \A c \in Pid :
        Valid[c] /\ ParentPID[c] # 0 /\ Exited(ParentPID[c]) => Exited(c)

\* Without the timer nobody runs between the Fork and the Append of an Exec.
Appending ==
    \A p \in Pid : pc[p] = "execAppend" =>
        /\ currentThread = p /\ kpc[p] \in {"enable", "body"}
        /\ pc[arg[p]] = "creator"

\* Without the timer, who is listed and has memory has not exited.
NoneDead == \A c \in Pid : InPCB(c) /\ Valid[c] => ~Exited(c)

\* Without the timer, and if parents outlive their children, no Exit runs into
\* NULL.
ExitFinds == Orderly => stopped # "Exit"

\* Who waits for what: for the mutex, or in a Join.
Waiting ==
    \A p \in Pid : waitsOn[p] # <<"none", 0>> =>
        \/ waitsOn[p] = MutexNumProc /\ pc[p] \in {"count", "execCount", "exitCount"}
        \/ /\ pc[p] = "joined" /\ arg[p] \in Pid
           /\ waitsOn[p] = ProcessSemaphore(ParentPID[arg[p]])
           /\ Orderly => ParentPID[arg[p]] = p

\* If MutexNumProc is taken, somebody has it.
Holding ==
    value[MutexNumProc] = 0 =>
        \E p \in Pid : /\ pc[p] \in {"count", "execCount", "exitCount"}
                       /\ waitsOn[p] # MutexNumProc

\* Who waits for a child in vain so far waits for one that has not exited.
Joining ==
    Orderly => \A p \in Pid :
        (waitsOn[p] = ProcessSemaphore(p) /\ value[ProcessSemaphore(p)] = 0) =>
            ~Exited(arg[p]) /\ kpc[arg[p]] # "new"

Finishing == \A p \in Pid : kpc[p] = "finish" => pc[p] = "done"

-----------------------------------------------------------------------------
(***************************************************************************)
(* The kernel                                                              *)
(***************************************************************************)

\* The kernel of the user processes meets the assumptions of module Kernel.
LEMMA ProcessKernel == KI!KernelAssumption
<1>1. IsFiniteSet(Pid)
  BY FS_Interval, ProcessAssumption DEF Pid
<1>2. KI!IsFiniteSet(Pid)
  BY <1>1 DEF KI!IsFiniteSet, IsFiniteSet
<1>3. 1 \in Pid /\ 0 \notin Pid /\ MaxProc \in Nat
  BY ProcessAssumption DEF Pid
<1>4. [s \in Semaphores |-> IF s = MutexNumProc THEN 1 ELSE 0] \in [Semaphores -> Nat]
  OBVIOUS
<1>5. <<"none", 0>> \notin Semaphores
  BY DEF Semaphores, MutexNumProc, ProcessSemaphore
<1>6. TimeSlice \in BOOLEAN
  BY ProcessAssumption
<1>7. QED
  BY <1>2, <1>3, <1>4, <1>5, <1>6 DEF KI!KernelAssumption

\* The calls of processes are those of module Kernel.
LEMMA ProcessCalls ==
    ASSUME NEW t, NEW s
    PROVE  /\ K!P(t, s) => KI!P(t, s)
           /\ K!V(t, s) => KI!V(t, s)
           /\ K!Yield(t) => KI!Yield(t)
           /\ K!Finish(t) => KI!Finish(t)
           /\ K!Fork(t, s) => KI!Fork(t, s)
           /\ K!UserTick(t) => KI!UserTick(t)
           /\ K!KernelStep(t) => KI!KernelStep(t)
           /\ K!Init => KI!Init
<1>1. K!P(t, s) => KI!P(t, s)
  BY DEF K!P, K!PLoop, K!AtBody, KI!P, KI!PLoop, KI!AtBody
<1>2. K!V(t, s) => KI!V(t, s)
  BY DEF K!V, K!VBody, K!AtBody, KI!V, KI!VBody, KI!AtBody
<1>3. K!Yield(t) => KI!Yield(t)
  BY DEF K!Yield, K!YieldToNext, K!Run, K!AtBody,
         KI!Yield, KI!YieldToNext, KI!Run, KI!AtBody
<1>4. (K!Finish(t) => KI!Finish(t)) /\ (K!Fork(t, s) => KI!Fork(t, s))
  BY DEF K!Finish, K!Fork, K!AtBody, KI!Finish, KI!Fork, KI!AtBody
<1>5. K!UserTick(t) => KI!UserTick(t)
  BY DEF K!UserTick, K!AtBody, KI!UserTick, KI!AtBody
<1>6. K!KernelStep(t) => KI!KernelStep(t)
  BY DEF K!KernelStep, K!Enable, K!AtTick, K!TimerYield, K!YieldToNext,
         K!Run, K!SleepSwitch, K!Sleeping, K!IdleHalt, K!PResume, K!PLoop,
         KI!KernelStep, KI!Enable, KI!AtTick, KI!TimerYield, KI!YieldToNext,
         KI!Run, KI!SleepSwitch, KI!Sleeping, KI!IdleHalt, KI!PResume, KI!PLoop
<1>7. K!Init => KI!Init
  BY DEF K!Init, KI!Init
<1>8. QED
  BY <1>1, <1>2, <1>3, <1>4, <1>5, <1>6, <1>7

\* Nobody becomes new or finished, and nothing happens to the semaphores.
NewStay == \A x \in Pid : kpc'[x] = "new" <=> kpc[x] = "new"
FinishStay == \A x \in Pid : kpc'[x] = "finish" <=> kpc[x] = "finish"
SemStay == UNCHANGED <<value, waitsOn>>

\* t takes a unit of s; t begins to wait for s, whose value is 0; somebody
\* gives a unit of s.
Take(t, s) ==
    /\ value[s] > 0
    /\ value' = [value EXCEPT ![s] = @ - 1]
    /\ waitsOn' = [waitsOn EXCEPT ![t] = <<"none", 0>>]
Wait(t, s) ==
    /\ value[s] = 0 /\ value' = value
    /\ waitsOn' = [waitsOn EXCEPT ![t] = s]
Give(s) ==
    /\ value' = [value EXCEPT ![s] = @ + 1]
    /\ waitsOn' = waitsOn

\* What the calls do to the stacks and to the semaphores.
LEMMA ProcessEffects ==
    ASSUME KI!KernelInv, NEW t \in Pid
    PROVE  /\ K!AtBody(t) => /\ kpc[t] = "body" /\ waitsOn[t] = <<"none", 0>>
                             /\ currentThread = t /\ ~halted
           /\ (K!Yield(t) \/ K!UserTick(t)) => K!AtBody(t) /\ NewStay /\ FinishStay /\ SemStay
           /\ \A s \in Semaphores : K!P(t, s) =>
                 K!AtBody(t) /\ NewStay /\ FinishStay /\ (Take(t, s) \/ Wait(t, s))
           /\ \A s \in Semaphores : K!V(t, s) =>
                 K!AtBody(t) /\ NewStay /\ FinishStay /\ Give(s)
           /\ K!Finish(t) =>
                 /\ K!AtBody(t) /\ NewStay /\ SemStay
                 /\ \A x \in Pid : kpc'[x] = "finish" <=> kpc[x] = "finish" \/ x = t
           /\ \A u \in Pid : K!Fork(t, u) =>
                 /\ K!AtBody(t) /\ kpc[u] = "new" /\ FinishStay /\ SemStay
                 /\ \A x \in Pid : kpc'[x] = "new" <=> kpc[x] = "new" /\ x # u
                 /\ currentThread' = t /\ kpc'[t] \in {"enable", "root"} /\ (t # u => kpc'[t] = "enable")
           /\ K!KernelStep(t) =>
                 /\ NewStay /\ FinishStay
                 /\ SemStay \/ \E s \in Semaphores : waitsOn[t] = s /\ Take(t, s)
<1>1. /\ kpc \in [Pid -> KI!Place] /\ waitsOn \in [Pid -> Semaphores \cup {<<"none", 0>>}]
      /\ value \in [Semaphores -> Nat]
      /\ \A x \in Pid : kpc[x] = "P" <=> waitsOn[x] # <<"none", 0>>
      /\ \A x \in Pid : status[x] = "JUST_CREATED" <=> kpc[x] = "new"
  BY DEF KI!KernelInv, KI!PlaceInv, KI!TypeOK, KI!StackPlace
<1>2. K!AtBody(t) => /\ kpc[t] = "body" /\ waitsOn[t] = <<"none", 0>>
                     /\ currentThread = t /\ ~halted
  BY <1>1 DEF K!AtBody
<1>3. (K!Yield(t) \/ K!UserTick(t)) => K!AtBody(t) /\ NewStay /\ FinishStay /\ SemStay
  BY <1>1 DEF K!Yield, K!YieldToNext, K!UserTick, K!AtBody, NewStay, FinishStay, SemStay
<1>4. ASSUME NEW s \in Semaphores, K!P(t, s)
      PROVE  K!AtBody(t) /\ NewStay /\ FinishStay /\ (Take(t, s) \/ Wait(t, s))
  BY <1>1, <1>4 DEF K!P, K!PLoop, K!AtBody, NewStay, FinishStay, Take, Wait
<1>5. ASSUME NEW s \in Semaphores, K!V(t, s)
      PROVE  K!AtBody(t) /\ NewStay /\ FinishStay /\ Give(s)
  BY <1>1, <1>5 DEF K!V, K!VBody, K!AtBody, NewStay, FinishStay, Give
<1>6. K!Finish(t) =>
         /\ K!AtBody(t) /\ NewStay /\ SemStay
         /\ \A x \in Pid : kpc'[x] = "finish" <=> kpc[x] = "finish" \/ x = t
  BY <1>1 DEF K!Finish, K!AtBody, NewStay, SemStay
<1>7. ASSUME NEW u \in Pid, K!Fork(t, u)
      PROVE  /\ K!AtBody(t) /\ kpc[u] = "new" /\ FinishStay /\ SemStay
             /\ \A x \in Pid : kpc'[x] = "new" <=> kpc[x] = "new" /\ x # u
             /\ currentThread' = t /\ kpc'[t] \in {"enable", "root"} /\ (t # u => kpc'[t] = "enable")
  BY <1>1, <1>7 DEF K!Fork, K!AtBody, FinishStay, SemStay
<1>8. K!KernelStep(t) => NewStay /\ FinishStay
  BY ProcessCalls, ProcessKernel, KI!StacksStay DEF NewStay, FinishStay
<1>9. K!KernelStep(t) => SemStay \/ \E s \in Semaphores : waitsOn[t] = s /\ Take(t, s)
  BY ProcessCalls, ProcessKernel, KI!QuietStep DEF SemStay, Take, KI!Promise!Take
<1>10. QED
  BY <1>2, <1>3, <1>4, <1>5, <1>6, <1>7, <1>8, <1>9

-----------------------------------------------------------------------------
(***************************************************************************)
(* The list of processes                                                   *)
(***************************************************************************)
\* q is in the list after the step exactly if it was and p is another one.
Leaves(p) == \A q : InPCB(q)' <=> InPCB(q) /\ q # p
Enters(p) == \A q : InPCB(q)' <=> InPCB(q) \/ q = p
ListStay  == \A q : InPCB(q)' <=> InPCB(q)

\* A list that does not change (ProcessList).
LEMMA SameList == PCB' = PCB => ListStay
BY DEF ListStay, InPCB

\* Append adds its element at the end (ProcessList::Append).
LEMMA AppendEnters ==
    ASSUME PCB \in Seq(Pid), K!NoDuplicates(PCB), NEW p \in Pid, ~InPCB(p), AppendPCB(p)
    PROVE  PCB' \in Seq(Pid) /\ K!NoDuplicates(PCB)' /\ Enters(p)
<1>1. PCB' = Append(PCB, p)
  BY DEF AppendPCB
<1>2. /\ PCB' \in Seq(Pid) /\ Len(PCB') = Len(PCB) + 1 /\ Len(PCB) \in Nat
      /\ \A k \in 1..Len(PCB) : PCB'[k] = PCB[k]
      /\ PCB'[Len(PCB) + 1] = p
  BY <1>1
<1>3. \A k \in 1..Len(PCB') : k \in 1..Len(PCB) \/ k = Len(PCB) + 1
  BY <1>2
<1>4. K!NoDuplicates(PCB)'
  BY <1>2, <1>3 DEF K!NoDuplicates, InPCB
<1>5. Enters(p)
  <2>1. \A k \in 1..Len(PCB) : k \in 1..Len(PCB')
    BY <1>2
  <2>2. Len(PCB) + 1 \in 1..Len(PCB')
    BY <1>2
  <2>3. QED
    BY <1>2, <1>3, <2>1, <2>2 DEF Enters, InPCB
<1>6. QED
  BY <1>2, <1>4, <1>5

\* A sequence without its element at k.
LEMMA CutFacts ==
    ASSUME NEW S, NEW s \in Seq(S), NEW k \in 1..Len(s), NEW t,
           t = SubSeq(s, 1, k - 1) \o SubSeq(s, k + 1, Len(s))
    PROVE  /\ t \in Seq(S) /\ Len(t) = Len(s) - 1
           /\ \A i \in 1..(Len(s) - 1) : t[i] = IF i < k THEN s[i] ELSE s[i + 1]
<1> DEFINE a == SubSeq(s, 1, k - 1)
           b == SubSeq(s, k + 1, Len(s))
<1>1. Len(s) \in Nat /\ k \in Nat /\ k >= 1 /\ k <= Len(s)
  OBVIOUS
<1>2. a \in Seq(S) /\ Len(a) = k - 1 /\ \A i \in 1..(k - 1) : a[i] = s[i]
  BY <1>1, SubSeqProperties
<1>3. b \in Seq(S) /\ Len(b) = Len(s) - k /\ \A i \in 1..(Len(s) - k) : b[i] = s[k + i]
  BY <1>1, SubSeqProperties
<1>4. t = a \o b
  OBVIOUS
<1> HIDE DEF a, b
<1>5. /\ a \o b \in Seq(S) /\ Len(a \o b) = Len(a) + Len(b)
      /\ \A i \in 1..(Len(a) + Len(b)) :
             (a \o b)[i] = IF i <= Len(a) THEN a[i] ELSE b[i - Len(a)]
  BY <1>2, <1>3, ConcatProperties
<1>6. PICK n \in Nat : n = Len(s)
  BY <1>1
<1>7. k \in 1..n /\ Len(a) = k - 1 /\ Len(b) = n - k /\ Len(a) + Len(b) = n - 1
  BY <1>1, <1>2, <1>3, <1>6
<1>8. /\ t \in Seq(S) /\ Len(t) = n - 1
      /\ \A i \in 1..(n - 1) : t[i] = IF i <= k - 1 THEN a[i] ELSE b[i - (k - 1)]
  BY <1>4, <1>5, <1>7
<1>9. \A i \in 1..(k - 1) : a[i] = s[i]
  BY <1>2
<1>10. \A i \in 1..(n - k) : b[i] = s[k + i]
  BY <1>3, <1>6
<1>11. ASSUME NEW i \in 1..(n - 1)
       PROVE  t[i] = IF i < k THEN s[i] ELSE s[i + 1]
  <2>1. CASE i < k
    <3>1. i \in 1..(k - 1) /\ i <= k - 1
      BY <1>7, <2>1
    <3>2. t[i] = a[i]
      BY <1>8, <3>1
    <3>3. QED
      BY <1>9, <2>1, <3>1, <3>2
  <2>2. CASE ~(i < k)
    <3>1. i - (k - 1) \in 1..(n - k) /\ k + (i - (k - 1)) = i + 1 /\ ~(i <= k - 1)
      BY <1>7, <2>2
    <3>2. t[i] = b[i - (k - 1)]
      BY <1>8, <3>1
    <3>3. QED
      BY <1>10, <2>2, <3>1, <3>2
  <2>3. QED
    BY <2>1, <2>2
<1>12. QED
  BY <1>6, <1>8, <1>11

\* Remove takes out the element of p and no other (ProcessList::Remove).
LEMMA WithoutFacts ==
    ASSUME PCB \in Seq(Pid), K!NoDuplicates(PCB), NEW p
    PROVE  /\ Without(p) \in Seq(Pid) /\ K!NoDuplicates(Without(p))
           /\ \A q : (\E k \in 1..Len(Without(p)) : Without(p)[k] = q) <=> InPCB(q) /\ q # p
<1>1. CASE ~InPCB(p)
  <2>1. Without(p) = PCB
    BY <1>1 DEF Without
  <2>2. QED
    BY <1>1, <2>1 DEF InPCB
<1>2. CASE InPCB(p)
  <2> DEFINE at == CHOOSE k \in 1..Len(PCB) : PCB[k] = p
  <2>1. at \in 1..Len(PCB) /\ PCB[at] = p
    BY <1>2 DEF InPCB
  <2>2. PICK t : t = SubSeq(PCB, 1, at - 1) \o SubSeq(PCB, at + 1, Len(PCB))
    OBVIOUS
  <2>3. Without(p) = t
    BY <1>2, <2>2 DEF Without
  <2> HIDE DEF at
  <2>4. /\ t \in Seq(Pid) /\ Len(t) = Len(PCB) - 1
        /\ \A i \in 1..(Len(PCB) - 1) : t[i] = IF i < at THEN PCB[i] ELSE PCB[i + 1]
    BY <2>1, <2>2, CutFacts
  <2>5. at \in Nat /\ Len(PCB) \in Nat
    BY <2>1
  <2> DEFINE old(i) == IF i < at THEN i ELSE i + 1
  <2>6. \A i \in 1..Len(t) : old(i) \in 1..Len(PCB) /\ old(i) # at /\ t[i] = PCB[old(i)]
    BY <2>4, <2>5
  <2>7. \A i, j \in 1..Len(t) : old(i) = old(j) => i = j
    BY <2>4, <2>5
  <2>8. \A k \in 1..Len(PCB) : k # at => \E i \in 1..Len(t) : old(i) = k
    <3> SUFFICES ASSUME NEW k \in 1..Len(PCB), k # at
                 PROVE  \E i \in 1..Len(t) : old(i) = k
      OBVIOUS
    <3>1. CASE k < at
      <4>1. k \in 1..Len(t) /\ old(k) = k
        BY <2>1, <2>4, <2>5, <3>1
      <4>2. QED
        BY <4>1
    <3>2. CASE ~(k < at)
      <4>1. k - 1 \in 1..Len(t) /\ old(k - 1) = k
        BY <2>1, <2>4, <2>5, <3>2
      <4>2. QED
        BY <4>1
    <3>3. QED
      BY <3>1, <3>2
  <2> HIDE DEF old
  <2>9. K!NoDuplicates(t)
    BY <2>6, <2>7 DEF K!NoDuplicates
  <2>10. ASSUME NEW q
         PROVE  (\E k \in 1..Len(t) : t[k] = q) <=> InPCB(q) /\ q # p
    <3>1. ASSUME NEW k \in 1..Len(t), t[k] = q
          PROVE  InPCB(q) /\ q # p
      BY <2>1, <2>6, <3>1 DEF InPCB, K!NoDuplicates
    <3>2. ASSUME NEW k \in 1..Len(PCB), PCB[k] = q, q # p
          PROVE  \E i \in 1..Len(t) : t[i] = q
      <4>1. PICK i \in 1..Len(t) : old(i) = k
        BY <2>1, <2>8, <3>2
      <4>2. QED
        BY <2>6, <3>2, <4>1
    <3>3. QED
      BY <3>1, <3>2 DEF InPCB
  <2>11. QED
    BY <2>3, <2>4, <2>9, <2>10
<1>3. QED
  BY <1>1, <1>2

\* What an Exit does to the list (AddrSpace::CleanupExit).
LEMMA RemoveLeaves ==
    ASSUME PCB \in Seq(Pid), K!NoDuplicates(PCB), NEW p, RemovePCB(p)
    PROVE  PCB' \in Seq(Pid) /\ K!NoDuplicates(PCB)' /\ Leaves(p)
<1>1. PCB' = Without(p)
  BY DEF RemovePCB
<1>2. PCB' \in Seq(Pid) /\ K!NoDuplicates(PCB')
  BY <1>1, WithoutFacts
<1>3. \A q : (\E k \in 1..Len(PCB') : PCB'[k] = q) <=> InPCB(q) /\ q # p
  <2>1. \A q : (\E k \in 1..Len(Without(p)) : Without(p)[k] = q) <=> InPCB(q) /\ q # p
    BY WithoutFacts
  <2>2. QED
    BY <1>1, <2>1
<1>4. QED
  BY <1>2, <1>3 DEF Leaves, InPCB, K!NoDuplicates

-----------------------------------------------------------------------------
(***************************************************************************)
(* The moves: what a step does to the place of the process that makes it,  *)
(* to the family of processes, to the count and to the semaphores          *)
(***************************************************************************)
Runs(p) == currentThread = p /\ kpc[p] = "body" /\ waitsOn[p] = <<"none", 0>> /\ ~halted

Goes(p, from, to) == pc[p] = from /\ pc' = [pc EXCEPT ![p] = to]

SameFamily == UNCHANGED <<ParentPID, Valid, ProcessId>> /\ ListStay

Rest == UNCHANGED <<arg, NumProcess>> /\ NewStay /\ FinishStay

TakeOrWait(p, s) == Take(p, s) \/ Wait(p, s)

\* Instructions, failing calls, and what the kernel does by itself.
Quiet ==
    /\ UNCHANGED pc /\ SameFamily /\ Rest
    /\ SemStay \/ \E t \in Pid, s \in Semaphores : waitsOn[t] = s /\ Take(t, s)

\* Creator and Joined
Onward(p) ==
    /\ \E from \in {"creator", "joined"} : Goes(p, from, "user")
    /\ SameFamily /\ Rest /\ SemStay

\* JoinWaits
Joins(p, c) ==
    /\ Goes(p, "user", "joined")
    /\ InPCB(c) /\ Valid[c] /\ ParentPID[c] \in Pid /\ (Orderly => ParentPID[c] = p)
    /\ arg' = [arg EXCEPT ![p] = c]
    /\ SameFamily /\ UNCHANGED NumProcess /\ NewStay /\ FinishStay
    /\ TakeOrWait(p, ProcessSemaphore(ParentPID[c]))

\* JoinCrashes
Breaks(p, c) ==
    /\ pc[p] = "user" /\ UNCHANGED pc /\ arg' = [arg EXCEPT ![p] = c]
    /\ SameFamily /\ UNCHANGED NumProcess /\ NewStay /\ FinishStay /\ SemStay

\* ExitMutex
WantsMutex(p) ==
    /\ Goes(p, "exitMutex", "exitCount")
    /\ SameFamily /\ Rest /\ TakeOrWait(p, MutexNumProc)

\* Count and ExitCount
CountsOne(p) ==
    /\ \/ p = 1 /\ Goes(p, "count", "user") /\ NumProcess' = NumProcess + 1
       \/ Goes(p, "execCount", "execFork") /\ NumProcess' = NumProcess + 1
       \/ Goes(p, "exitCount", "exitFinish") /\ NumProcess' = NumProcess - 1
    /\ SameFamily /\ UNCHANGED arg /\ NewStay /\ FinishStay /\ Give(MutexNumProc)

\* StartProcess with space, and without space or file
Starts ==
    /\ Goes(1, "load", "count")
    /\ ProcessId' = 1 /\ Valid' = [Valid EXCEPT ![1] = TRUE] /\ UNCHANGED ParentPID
    /\ Enters(1) /\ Rest /\ TakeOrWait(1, MutexNumProc)

NotStarted ==
    /\ Goes(1, "load", "done")
    /\ ProcessId' \in {0, 1} /\ Valid' = Valid /\ UNCHANGED ParentPID
    /\ ListStay /\ UNCHANGED <<arg, NumProcess>> /\ NewStay /\ SemStay
    /\ \A x \in Pid : kpc'[x] = "finish" <=> kpc[x] = "finish" \/ x = 1

\* ExitFinish
Ends(p) ==
    /\ Goes(p, "exitFinish", "done")
    /\ SameFamily /\ UNCHANGED <<arg, NumProcess>> /\ NewStay /\ SemStay
    /\ \A x \in Pid : kpc'[x] = "finish" <=> kpc[x] = "finish" \/ x = p

\* ExecFails, and Exec without space
Refused(p, c) ==
    /\ pc[p] = "user" /\ c = ProcessId + 1 /\ ProcessId' = c
    /\ Valid' = Valid /\ UNCHANGED pc
    /\ ParentPID' = ParentPID \/ ParentPID' = [ParentPID EXCEPT ![c] = p]
    /\ ListStay \/ Enters(c)
    /\ Rest /\ SemStay

\* Exec with space
Execs(p, c) ==
    /\ Goes(p, "user", "execCount") /\ c = ProcessId + 1 /\ ProcessId' = c
    /\ Valid' = [Valid EXCEPT ![c] = TRUE]
    /\ ParentPID' = [ParentPID EXCEPT ![c] = p]
    /\ arg' = [arg EXCEPT ![p] = c]
    /\ ListStay /\ UNCHANGED NumProcess /\ NewStay /\ FinishStay
    /\ TakeOrWait(p, MutexNumProc)

\* ExecFork and ExecAppend
Forks(p) ==
    /\ Goes(p, "execFork", "execAppend")
    /\ SameFamily /\ UNCHANGED <<arg, NumProcess>> /\ FinishStay /\ SemStay
    /\ \A x \in Pid : kpc'[x] = "new" <=> kpc[x] = "new" /\ x # arg[p]
    /\ currentThread' = p /\ kpc'[p] = "enable"

Appends(p) ==
    /\ Goes(p, "execAppend", "user")
    /\ UNCHANGED <<ParentPID, Valid, ProcessId>> /\ Enters(arg[p]) /\ Rest /\ SemStay

\* ExitWakes, where q is the parent read
Exits(p, q) ==
    /\ MayExit(p) /\ Leaves(p)
    /\ UNCHANGED <<ParentPID, Valid, ProcessId>> /\ Rest
    /\ InPCB(p) => q = ParentPID[p]
    /\ \/ q = 0 /\ Goes(p, "user", "exitCount") /\ TakeOrWait(p, MutexNumProc)
       \/ q \in Pid /\ Goes(p, "user", "exitMutex") /\ Give(ProcessSemaphore(q))

Moves(p) ==
    /\ Runs(p) /\ stopped = "no"
    /\ \/ Onward(p)
       \/ WantsMutex(p)
       \/ CountsOne(p)
       \/ Ends(p)
       \/ Forks(p)
       \/ Appends(p)
       \/ p = 1 /\ (Starts \/ NotStarted)
       \/ \E c \in Pid : Joins(p, c) \/ Breaks(p, c) \/ Refused(p, c) \/ Execs(p, c)
       \/ \E q \in Pid \cup {0} : Exits(p, q)

\* Semaphores of processes.
LEMMA SemaphoreNames ==
    /\ MutexNumProc \in Semaphores
    /\ \A p \in Pid : ProcessSemaphore(p) \in Semaphores
    /\ \A p, q : ProcessSemaphore(p) = ProcessSemaphore(q) => p = q
    /\ \A p : ProcessSemaphore(p) # MutexNumProc /\ ProcessSemaphore(p) # <<"none", 0>>
    /\ MutexNumProc # <<"none", 0>>
BY DEF Semaphores, MutexNumProc, ProcessSemaphore

\* One process is there from the start; PIDs are numbers.
LEMMA Pids == 1 \in Pid /\ 0 \notin Pid /\ Pid \subseteq Nat /\ MaxProc \in Nat \ {0}
BY ProcessAssumption DEF Pid

\* What has no memory is not a place in memory (AddrSpace::AddrSpace).
LEMMA SpaceValid ==
    ASSUME Types, NEW p \in Pid, NEW n, NewAddrSpace(p, n)
    PROVE  /\ Valid'[p] \in BOOLEAN
           /\ Valid' = [Valid EXCEPT ![p] = Valid'[p]]
BY DEF Types, NewAddrSpace

\* The first program (StartProcess).
LEMMA StartMoves ==
    ASSUME KI!KernelInv, Types, Family,
           StartProcessNoFile \/ \E n \in Sizes : StartProcess(n)
    PROVE  Types' /\ Moves(1)
<1>1. /\ pc[1] = "load" /\ stopped = "no" /\ ProcessId = 0 /\ Valid[1] = FALSE /\ 1 \in Pid
      /\ ~InPCB(1) /\ MaxProc \in Nat \ {0} /\ stopped' = stopped
  <2>1. pc[1] = "load" /\ stopped = "no" /\ stopped' = stopped
    BY DEF StartProcessNoFile, StartProcess, At
  <2>2. ProcessId = 0 /\ 1 > ProcessId
    BY <2>1, Pids DEF Family, Stages, Types
  <2>3. QED
    BY <2>1, <2>2, Pids DEF Family, NotYet, Types
<1>2. CASE StartProcessNoFile
  <2>1. K!Finish(1) /\ pc' = [pc EXCEPT ![1] = "done"] /\ UNCHANGED <<arg, r2, pvars, stopped>>
    BY <1>2 DEF StartProcessNoFile, Goto
  <2>2. Runs(1) /\ NotStarted
    BY <1>1, <2>1, ProcessEffects, SameList DEF NotStarted, Runs, Goes, pvars
  <2>3. Types'
    BY <1>1, <2>1 DEF Types, pvars, Code, K!NoDuplicates
  <2>4. QED
    BY <1>1, <2>2, <2>3 DEF Moves
<1>3. ASSUME NEW n \in Sizes, StartProcess(n)
      PROVE  Types' /\ Moves(1)
  <2>1. /\ ProcessId' = 1 /\ NewAddrSpace(1, n)
        /\ UNCHANGED <<arg, r2, ParentPID, NumProcess, stopped>>
    BY <1>3 DEF StartProcess
  <2>2. Valid'[1] \in BOOLEAN /\ Valid' = [Valid EXCEPT ![1] = Valid'[1]]
    BY <1>1, <2>1, SpaceValid
  <2>3. CASE Valid'[1]
    <3>1. AppendPCB(1) /\ K!P(1, MutexNumProc) /\ pc' = [pc EXCEPT ![1] = "count"]
      BY <1>3, <2>3 DEF StartProcess, Goto
    <3>2. PCB' \in Seq(Pid) /\ K!NoDuplicates(PCB)' /\ Enters(1)
      BY <1>1, <3>1, AppendEnters DEF Types
    <3>3. Valid' = [Valid EXCEPT ![1] = TRUE]
      BY <2>2, <2>3
    <3>4. Runs(1) /\ Starts
      BY <1>1, <2>1, <3>1, <3>2, <3>3, ProcessEffects, SemaphoreNames
         DEF Starts, Runs, Goes, Rest, TakeOrWait
    <3>5. Types'
      <4>1. pc' \in [Pid -> Code] /\ Valid' \in [Pid -> BOOLEAN] /\ 1 \in 0..MaxProc
        BY <1>1, <3>1, <3>3 DEF Types, Code
      <4>2. tailIsNull' = FALSE
        BY <3>1 DEF AppendPCB
      <4>3. QED
        BY <1>1, <2>1, <3>2, <4>1, <4>2 DEF Types, K!NoDuplicates
    <3>6. QED
      BY <1>1, <3>4, <3>5 DEF Moves
  <2>4. CASE ~Valid'[1]
    <3>1. K!Finish(1) /\ pc' = [pc EXCEPT ![1] = "done"] /\ UNCHANGED <<PCB, tailIsNull>>
      BY <1>3, <2>4 DEF StartProcess, Goto
    <3>2. Valid' = Valid
      BY <1>1, <2>2, <2>4 DEF Types
    <3>3. Runs(1) /\ NotStarted
      BY <1>1, <2>1, <3>1, <3>2, ProcessEffects, SameList DEF NotStarted, Runs, Goes
    <3>4. Types'
      BY <1>1, <2>1, <3>1, <3>2 DEF Types, Code, K!NoDuplicates
    <3>5. QED
      BY <1>1, <3>3, <3>4 DEF Moves
  <2>5. QED
    BY <2>3, <2>4
<1>4. QED
  BY <1>2, <1>3

\* A process that makes no or an unsuccessful call (SC_Exec, SC_Join, SC_Yield,
\* SC_Halt, faults), or the kernel by itself.
LEMMA QuietMoves ==
    ASSUME KI!KernelInv, Types, Family, NEW p \in Pid,
           \/ Instruction(p) \/ YieldCall(p) \/ Halt(p) \/ Fault(p) \/ KernelStep(p)
           \/ ExitCrashes(p) \/ \E c \in MayJoin(p) : JoinReturns(p, c)
    PROVE  Types' /\ Quiet
<1>1. CASE KernelStep(p) \/ Instruction(p) \/ YieldCall(p)
  <2>1. /\ UNCHANGED <<pc, arg, r2, pvars, stopped>>
        /\ K!KernelStep(p) \/ K!UserTick(p) \/ K!Yield(p)
    BY <1>1 DEF KernelStep, Instruction, YieldCall
  <2>2. Types'
    BY <2>1 DEF Types, pvars, K!NoDuplicates
  <2>3. /\ NewStay /\ FinishStay
        /\ SemStay \/ \E t \in Pid, s \in Semaphores : waitsOn[t] = s /\ Take(t, s)
    BY <2>1, ProcessEffects
  <2>4. QED
    BY <2>1, <2>2, <2>3, SameList DEF Quiet, Rest, pvars, SameFamily
<1>3. CASE Halt(p) \/ Fault(p) \/ ExitCrashes(p)
  <2>1. \E where \in {"Halt", "Abort", "Exit"} : Stop(p, where)
    BY <1>3 DEF Halt, Fault, ExitCrashes
  <2>2. UNCHANGED <<kvars, pc, arg, r2, pvars>> /\ stopped' \in {"Halt", "Abort", "Exit"}
    BY <2>1 DEF Stop
  <2>3. QED
    BY <2>2, SameList
       DEF Quiet, Types, Rest, pvars, SameFamily, K!NoDuplicates, kvars, NewStay, FinishStay,
           SemStay
<1>4. ASSUME NEW c \in MayJoin(p), JoinReturns(p, c)
      PROVE  Types' /\ Quiet
  <2>1. \E v \in {-1, SC_Join} : r2' = [r2 EXCEPT ![p] = v]
    BY <1>4 DEF JoinReturns, Result
  <2>2. K!UserTick(p) /\ UNCHANGED <<pc, arg, pvars, stopped>>
    BY <1>4 DEF JoinReturns
  <2>3. r2' \in [Pid -> Pid \cup {-1, 0, SC_Exec, SC_Join}]
    BY <2>1 DEF Types
  <2>4. QED
    BY <2>2, <2>3, ProcessEffects, SameList
       DEF Quiet, Types, Rest, pvars, SameFamily, K!NoDuplicates
<1>5. QED
  BY <1>1, <1>3, <1>4

\* Exec, Join and Exit, step by step.
LEMMA CallMoves ==
    ASSUME KI!KernelInv, Types, Family, NEW p \in Pid,
           \/ Creator(p) \/ Joined(p) \/ ExitMutex(p) \/ ExitFinish(p)
           \/ ExecFork(p) \/ ExecAppend(p)
    PROVE  Types' /\ Moves(p)
<1>1. CASE Creator(p) \/ Joined(p)
  <2>1. /\ K!Yield(p) \/ K!UserTick(p)
        /\ stopped = "no" /\ r2' \in {r2, [r2 EXCEPT ![p] = 0]}
        /\ pc[p] \in {"creator", "joined"} /\ pc' = [pc EXCEPT ![p] = "user"]
        /\ UNCHANGED <<arg, pvars, stopped>>
    BY <1>1 DEF Creator, Joined, At, Goto, Result
  <2>2. Runs(p) /\ Onward(p)
    BY <2>1, ProcessEffects, SameList DEF Runs, Onward, Goes, SameFamily, Rest, pvars
  <2>3. Types'
    BY <2>1 DEF Types, Code, pvars, K!NoDuplicates
  <2>4. QED
    BY <2>1, <2>2, <2>3 DEF Moves
<1>2. CASE ExitMutex(p)
  <2>1. /\ K!P(p, MutexNumProc) /\ stopped = "no"
        /\ pc[p] = "exitMutex" /\ pc' = [pc EXCEPT ![p] = "exitCount"]
        /\ UNCHANGED <<arg, r2, pvars, stopped>>
    BY <1>2 DEF ExitMutex, At, Goto
  <2>2. Runs(p) /\ WantsMutex(p)
    BY <2>1, ProcessEffects, SameList, SemaphoreNames
       DEF Runs, WantsMutex, Goes, SameFamily, Rest, pvars, TakeOrWait
  <2>3. Types'
    BY <2>1 DEF Types, Code, pvars, K!NoDuplicates
  <2>4. QED
    BY <2>1, <2>2, <2>3 DEF Moves
<1>3. CASE ExitFinish(p)
  <2>1. /\ K!Finish(p) /\ stopped = "no"
        /\ pc[p] = "exitFinish" /\ pc' = [pc EXCEPT ![p] = "done"]
        /\ UNCHANGED <<arg, r2, pvars, stopped>>
    BY <1>3 DEF ExitFinish, At, Goto
  <2>2. Runs(p) /\ Ends(p)
    BY <2>1, ProcessEffects, SameList DEF Runs, Ends, Goes, SameFamily, pvars
  <2>3. Types'
    BY <2>1 DEF Types, Code, pvars, K!NoDuplicates
  <2>4. QED
    BY <2>1, <2>2, <2>3 DEF Moves
<1>4. CASE ExecFork(p) \/ ExecAppend(p)
  <2>1. stopped = "no" /\ pc[p] \in {"execFork", "execAppend"} /\ UNCHANGED <<arg, stopped>>
    BY <1>4 DEF ExecFork, ExecAppend, At
  <2>2. arg[p] \in Pid /\ ~InPCB(arg[p]) /\ p # arg[p]
    <3>1. arg[p] \in Pid
      BY <2>1 DEF Family, Making
    <3>2. Makes(p, arg[p])
      BY <2>1 DEF Makes
    <3>3. ParentPID[arg[p]] = p /\ ~InPCB(arg[p]) /\ p # 0
      BY <3>1, <3>2, Pids DEF Family, Making
    <3>4. ParentPID[arg[p]] < arg[p]
      BY <3>1, <3>3 DEF Family, Parents
    <3>5. QED
      BY <3>1, <3>3, <3>4, Pids
  <2>3. CASE ExecFork(p)
    <3>1. K!Fork(p, arg[p]) /\ Goes(p, "execFork", "execAppend") /\ UNCHANGED <<arg, r2, pvars>>
      BY <2>3 DEF ExecFork, At, Goto, Goes
    <3>2. Runs(p) /\ Forks(p)
      BY <2>2, <3>1, ProcessEffects, SameList DEF Runs, Forks, SameFamily, pvars
    <3>3. Types'
      BY <2>1, <3>1 DEF Types, Code, pvars, K!NoDuplicates, Goes
    <3>4. QED
      BY <2>1, <3>2, <3>3 DEF Moves
  <2>4. CASE ExecAppend(p)
    <3>1. /\ AppendPCB(arg[p]) /\ r2' = [r2 EXCEPT ![p] = arg[p]] /\ K!UserTick(p)
          /\ Goes(p, "execAppend", "user")
          /\ UNCHANGED <<ParentPID, Valid, ProcessId, NumProcess>>
      BY <2>4 DEF ExecAppend, At, Goto, Goes, Result
    <3>2. PCB' \in Seq(Pid) /\ K!NoDuplicates(PCB)' /\ Enters(arg[p])
      BY <2>2, <3>1, AppendEnters DEF Types
    <3>3. Runs(p) /\ Appends(p)
      BY <2>1, <3>1, <3>2, ProcessEffects DEF Runs, Appends, Rest
    <3>4. Types'
      <4>1. r2' \in [Pid -> Pid \cup {-1, 0, SC_Exec, SC_Join}]
        BY <2>2, <3>1 DEF Types
      <4>2. tailIsNull' = FALSE
        BY <3>1 DEF AppendPCB
      <4>3. QED
        BY <2>1, <3>1, <3>2, <4>1, <4>2 DEF Types, Code, K!NoDuplicates, Goes
    <3>5. QED
      BY <2>1, <3>3, <3>4 DEF Moves
  <2>5. QED
    BY <1>4, <2>3, <2>4
<1>5. QED
  BY <1>1, <1>2, <1>3, <1>4

\* The count of processes goes up and down (StartProcess, SC_Exec, SC_Exit).
LEMMA CountMoves ==
    ASSUME KI!KernelInv, Types, NEW p \in Pid,
           \/ p = 1 /\ Count(p, "count", "user")
           \/ Count(p, "execCount", "execFork") \/ ExitCount(p)
    PROVE  Types' /\ Moves(p)
<1>1. /\ K!V(p, MutexNumProc) /\ stopped = "no"
      /\ \/ p = 1 /\ Goes(p, "count", "user") /\ NumProcess' = NumProcess + 1
         \/ Goes(p, "execCount", "execFork") /\ NumProcess' = NumProcess + 1
         \/ Goes(p, "exitCount", "exitFinish") /\ NumProcess' = NumProcess - 1
      /\ UNCHANGED <<arg, r2, ParentPID, Valid, ProcessId, PCB, tailIsNull, stopped>>
  BY DEF Count, ExitCount, At, Goto, Goes
<1>2. Runs(p) /\ CountsOne(p)
  BY <1>1, ProcessEffects, SameList, SemaphoreNames DEF Runs, CountsOne, SameFamily
<1>3. Types'
  BY <1>1 DEF Types, Code, K!NoDuplicates, Goes
<1>4. QED
  BY <1>1, <1>2, <1>3 DEF Moves

\* Exec with and without memory for the program (SC_Exec).
LEMMA ExecMoves ==
    ASSUME KI!KernelInv, Types, Family, NEW p \in Pid,
           ExecFails(p) \/ \E n \in Sizes : Exec(p, n)
    PROVE  Types' /\ Moves(p)
<1> DEFINE c == ProcessId + 1
<1>1. /\ c \in Pid /\ ProcessId' = c /\ pc[p] = "user" /\ stopped = "no" /\ stopped' = stopped
      /\ UNCHANGED NumProcess
  <2>1. ProcessId < MaxProc /\ ProcessId \in 0..MaxProc
    BY DEF ExecFails, Exec, Types
  <2>2. QED
    BY <2>1, Pids DEF ExecFails, Exec, At, Pid
<1>2. c > ProcessId /\ c \in 0..MaxProc /\ c \in Nat
  BY <1>1, Pids DEF Types, Pid
<1> HIDE DEF c
<1>3. ~Valid[c] /\ ~InPCB(c)
  BY <1>1, <1>2 DEF Family, NotYet, Fresh
<1>4. CASE ExecFails(p)
  <2>1. /\ K!UserTick(p) /\ \E v \in {c, SC_Exec} : r2' = [r2 EXCEPT ![p] = v]
        /\ UNCHANGED <<pc, arg, ParentPID, Valid, NumProcess, PCB, tailIsNull>>
    BY <1>1, <1>4 DEF ExecFails, Result
  <2>2. Runs(p) /\ Refused(p, c)
    BY <1>1, <2>1, ProcessEffects, SameList DEF Runs, Refused, Rest, c
  <2>3. r2' \in [Pid -> Pid \cup {-1, 0, SC_Exec, SC_Join}]
    BY <1>1, <2>1 DEF Types
  <2>4. Types'
    BY <1>1, <1>2, <2>1, <2>3 DEF Types, K!NoDuplicates
  <2>5. QED
    BY <1>1, <2>2, <2>4 DEF Moves
<1>5. ASSUME NEW n \in Sizes, Exec(p, n)
      PROVE  Types' /\ Moves(p)
  <2>1. /\ NewAddrSpace(c, n) /\ ParentPID' = [ParentPID EXCEPT ![c] = p]
    BY <1>1, <1>5 DEF Exec
  <2>2. Valid'[c] \in BOOLEAN /\ Valid' = [Valid EXCEPT ![c] = Valid'[c]]
    BY <1>1, <2>1, SpaceValid
  <2>3. ParentPID' \in [Pid -> Pid \cup {0}]
    BY <1>1, <2>1 DEF Types
  <2>4. CASE Valid'[c]
    <3>1. /\ arg' = [arg EXCEPT ![p] = c] /\ K!P(p, MutexNumProc)
          /\ Goes(p, "user", "execCount") /\ UNCHANGED <<PCB, tailIsNull, r2>>
      BY <1>1, <1>5, <2>4 DEF Exec, Goto, Goes
    <3>2. Valid' = [Valid EXCEPT ![c] = TRUE]
      BY <2>2, <2>4
    <3>3. Runs(p) /\ Execs(p, c)
      BY <1>1, <2>1, <3>1, <3>2, ProcessEffects, SameList, SemaphoreNames
         DEF Runs, Execs, TakeOrWait, c
    <3>4. Types'
      BY <1>1, <1>2, <2>3, <3>1, <3>2 DEF Types, Code, K!NoDuplicates, Goes
    <3>5. QED
      BY <1>1, <3>3, <3>4 DEF Moves
  <2>5. CASE ~Valid'[c]
    <3>1. /\ AppendPCB(c) /\ r2' = [r2 EXCEPT ![p] = c] /\ K!UserTick(p)
          /\ UNCHANGED <<pc, arg>>
      BY <1>1, <1>5, <2>5 DEF Exec, Result
    <3>2. Valid' = Valid
      BY <1>1, <1>3, <2>2, <2>5 DEF Types
    <3>3. PCB' \in Seq(Pid) /\ K!NoDuplicates(PCB)' /\ Enters(c)
      BY <1>1, <1>3, <3>1, AppendEnters DEF Types
    <3>4. Runs(p) /\ Refused(p, c)
      BY <1>1, <2>1, <3>1, <3>2, <3>3, ProcessEffects DEF Runs, Refused, Rest, c
    <3>5. Types'
      <4>1. r2' \in [Pid -> Pid \cup {-1, 0, SC_Exec, SC_Join}]
        BY <1>1, <3>1 DEF Types
      <4>2. tailIsNull' = FALSE
        BY <3>1 DEF AppendPCB
      <4>3. QED
        BY <1>1, <1>2, <2>3, <3>1, <3>2, <3>3, <4>1, <4>2 DEF Types, K!NoDuplicates
    <3>6. QED
      BY <1>1, <3>4, <3>5 DEF Moves
  <2>6. QED
    BY <2>4, <2>5
<1>6. QED
  BY <1>4, <1>5

\* A Join that waits (SC_Join) and an Exit (SC_Exit).
LEMMA JoinMoves ==
    ASSUME KI!KernelInv, Types, NEW p \in Pid, NEW c \in MayJoin(p), JoinWaits(p, c)
    PROVE  Types' /\ Moves(p)
<1>1. /\ c \in Pid /\ (Orderly => ParentPID[c] = p)
  BY DEF MayJoin
<1>2. /\ Goes(p, "user", "joined") /\ stopped = "no" /\ InPCB(c) /\ Valid[c]
      /\ InPCB(ParentPID[c])
      /\ arg' = [arg EXCEPT ![p] = c] /\ K!P(p, ProcessSemaphore(ParentPID[c]))
      /\ UNCHANGED <<r2, pvars, stopped>>
  BY DEF JoinWaits, At, Goto, Goes
<1>3. ParentPID[c] \in Pid
  BY <1>2 DEF InPCB, Types
<1>4. Runs(p) /\ Joins(p, c)
  BY <1>1, <1>2, <1>3, ProcessEffects, SameList, SemaphoreNames
     DEF Runs, Joins, SameFamily, pvars, TakeOrWait
<1>5. Types'
  BY <1>1, <1>2 DEF Types, Code, pvars, K!NoDuplicates, Goes
<1>6. QED
  BY <1>1, <1>2, <1>4, <1>5 DEF Moves

\* A Join that runs into NULL (SC_Join).
LEMMA BreakMoves ==
    ASSUME KI!KernelInv, Types, NEW p \in Pid, NEW c \in MayJoin(p), JoinCrashes(p, c)
    PROVE  Types' /\ Moves(p)
<1>1. c \in Pid
  BY DEF MayJoin
<1>2. /\ pc[p] = "user" /\ stopped = "no" /\ K!AtBody(p) /\ stopped' = "Join"
      /\ arg' = [arg EXCEPT ![p] = c] /\ UNCHANGED <<kvars, pc, r2, pvars>>
  BY DEF JoinCrashes, At
<1>3. Runs(p) /\ Breaks(p, c)
  BY <1>2, ProcessEffects, SameList
     DEF Runs, Breaks, SameFamily, pvars, kvars, NewStay, FinishStay, SemStay
<1>4. Types'
  BY <1>1, <1>2 DEF Types, pvars, K!NoDuplicates
<1>5. QED
  BY <1>1, <1>2, <1>3, <1>4 DEF Moves

\* Exit takes the process out of the PCB and moves it to where it wakes others
\* (AddrSpace::CleanupExit).
LEMMA ExitMoves ==
    ASSUME KI!KernelInv, Types, NEW p \in Pid, MayExit(p), ExitWakes(p)
    PROVE  Types' /\ Moves(p)
<1>1. /\ pc[p] = "user" /\ stopped = "no" /\ RemovePCB(p)
      /\ UNCHANGED <<arg, r2, ParentPID, Valid, ProcessId, NumProcess, stopped>>
  BY DEF ExitWakes, At
<1>2. PCB' \in Seq(Pid) /\ K!NoDuplicates(PCB)' /\ Leaves(p)
  BY <1>1, RemoveLeaves DEF Types
<1>3. tailIsNull' \in BOOLEAN
  BY <1>1 DEF RemovePCB, Types
<1>4. PICK q \in ParentRead(p) :
          \/ q = 0 /\ K!P(p, MutexNumProc) /\ Goto(p, "exitCount")
          \/ /\ \E k \in 1..Len(PCB') : PCB'[k] = q
             /\ K!V(p, ProcessSemaphore(q))
             /\ Goto(p, "exitMutex")
  BY DEF ExitWakes
<1>5. InPCB(p) => q = ParentPID[p]
  BY DEF ParentRead
<1>6. q = 0 \/ q \in Pid
  BY <1>2, <1>4
<1>7. Runs(p) /\ Exits(p, q)
  <2>1. CASE q = 0 /\ K!P(p, MutexNumProc) /\ Goto(p, "exitCount")
    BY <1>1, <1>2, <1>5, <2>1, ProcessEffects, SemaphoreNames
       DEF Runs, Exits, Rest, Goes, Goto, TakeOrWait
  <2>2. CASE q \in Pid /\ K!V(p, ProcessSemaphore(q)) /\ Goto(p, "exitMutex")
    <3>1. ProcessSemaphore(q) \in Semaphores
      BY <2>2, SemaphoreNames
    <3>2. K!AtBody(p) /\ NewStay /\ FinishStay /\ Give(ProcessSemaphore(q))
      BY <2>2, <3>1, ProcessEffects
    <3>3. Runs(p)
      BY <3>2, ProcessEffects DEF Runs
    <3>4. QED
      BY <1>1, <1>2, <1>5, <2>2, <3>2, <3>3 DEF Exits, Rest, Goes, Goto
  <2>3. QED
    BY <1>2, <1>4, <1>6, <2>1, <2>2, Pids
<1>8. Types'
  BY <1>1, <1>2, <1>3, <1>4 DEF Types, Code, Goto, K!NoDuplicates
<1>9. QED
  BY <1>1, <1>6, <1>7, <1>8 DEF Moves

\* Every step is a move of a process, or nobody notices it.
LEMMA EveryStepMoves ==
    ASSUME KI!KernelInv, Types, Family, Next
    PROVE  Types' /\ (Quiet \/ \E p \in Pid : Moves(p))
<1>1. CASE StartProcessNoFile \/ (\E n \in Sizes : StartProcess(n)) \/ Count(1, "count", "user")
  BY <1>1, StartMoves, CountMoves, Pids
<1>2. ASSUME NEW p \in Pid, ProcessStep(p) \/ KernelStep(p)
      PROVE  Types' /\ (Quiet \/ Moves(p))
  BY <1>2, QuietMoves, CallMoves, CountMoves, ExecMoves, JoinMoves, BreakMoves, ExitMoves
     DEF ProcessStep
<1>3. CASE Terminated
  BY <1>3, SameList
     DEF Terminated, vars, Quiet, Types, Rest, pvars, SameFamily, K!NoDuplicates, kvars,
         NewStay, FinishStay, SemStay
<1>4. QED
  BY <1>1, <1>2, <1>3 DEF Next

-----------------------------------------------------------------------------
(***************************************************************************)
(* Every move keeps the family in order                                    *)
(***************************************************************************)

\* Most moves only take one process from one place to the next.
Steps(p) ==
    /\ \/ pc' = pc /\ arg' = arg
       \/ pc' = pc /\ pc[p] = "user" /\ \E c \in Pid : arg' = [arg EXCEPT ![p] = c]
       \/ \E from, to \in Code :
             /\ Goes(p, from, to) /\ kpc[p] # "new"
             /\ from \notin {"execAppend", "load", "done"}
             /\ to \notin {"load", "creator", "count", "execCount", "execAppend"}
             /\ to = "execFork" <=> from = "execCount"
             /\ arg' = arg \/ (from = "user" /\ to = "joined" /\ \E c \in Pid : arg' = [arg EXCEPT ![p] = c])
    /\ UNCHANGED <<ParentPID, Valid, ProcessId>> /\ NewStay
    /\ ListStay \/ (Leaves(p) /\ Exited(p)')
    /\ Exited(p) => Exited(p)'

\* Such a move keeps who is whose parent, and how far each process has come.
LEMMA StepsKeepFamily ==
    ASSUME Types, Family, NEW p \in Pid, Steps(p)
    PROVE  Family'
<1>1. ParentPID \in [Pid -> Pid \cup {0}] /\ pc \in [Pid -> Code] /\ arg \in [Pid -> Pid \cup {0}]
  BY DEF Types
<1>2. UNCHANGED <<ParentPID, Valid, ProcessId>> /\ NewStay /\ \A q : InPCB(q)' => InPCB(q)
  BY DEF Steps, ListStay, Leaves
<1>3. \A c \in Pid : pc'[c] # pc[c] =>
          /\ kpc[c] # "new" /\ pc[c] \notin {"execAppend", "load", "done"}
          /\ pc'[c] \notin {"load", "creator", "count", "execCount", "execAppend"}
          /\ pc'[c] = "execFork" => pc[c] = "execCount"
  BY <1>1 DEF Steps, Goes
<1>4. \A c \in Pid : pc'[c] \in {"execCount", "execFork", "execAppend"} =>
          /\ arg'[c] = arg[c]
          /\ pc[c] \in {"execCount", "execFork", "execAppend"}
          /\ pc'[c] # "execAppend" <=> pc[c] # "execAppend"
  BY <1>1 DEF Steps, Goes
<1>5. NotYet'
  <2>1. NotYet /\ Stages
    BY DEF Family
  <2>2. ASSUME NEW c \in Pid, c > ProcessId
        PROVE  IF c = 1 THEN pc'[c] \in {"load", "done"} /\ ~Valid[c] /\ ~InPCB(c)'
                        ELSE Fresh(c)'
    BY <1>2, <1>3, <2>1, <2>2 DEF NotYet, Stages, Fresh, NewStay
  <2>3. QED
    BY <1>2, <2>2 DEF NotYet
<1>6. Stages'
  BY <1>2, <1>3 DEF Family, Stages, NewStay
<1>7. Parents'
  BY <1>1, <1>2, <1>3 DEF Family, Parents, NewStay
<1>8. Making'
  BY <1>2, <1>4 DEF Family, Making, Makes, NewStay
<1>9. ListedStarted'
  BY <1>2 DEF Family, ListedStarted, NewStay
<1>10. QED
  BY <1>5, <1>6, <1>7, <1>8, <1>9 DEF Family

\* Forking the new process (Thread::Fork in SC_Exec).
LEMMA ForkKeepsFamily ==
    ASSUME Types, Family, NEW p \in Pid, Runs(p), Forks(p)
    PROVE  Family'
<1>1. ParentPID \in [Pid -> Pid \cup {0}] /\ pc \in [Pid -> Code] /\ arg \in [Pid -> Pid \cup {0}]
  BY DEF Types
<1>2. /\ UNCHANGED <<ParentPID, Valid, ProcessId, arg>> /\ \A q : InPCB(q)' <=> InPCB(q)
      /\ \A x \in Pid : kpc'[x] = "new" <=> kpc[x] = "new" /\ x # arg[p]
      /\ pc[p] = "execFork" /\ pc' = [pc EXCEPT ![p] = "execAppend"] /\ kpc[p] # "new"
  BY DEF Forks, Goes, SameFamily, ListStay, Runs
<1>3. /\ arg[p] \in Pid /\ ParentPID[arg[p]] = p /\ Valid[arg[p]] /\ arg[p] <= ProcessId
      /\ kpc[arg[p]] = "new" /\ p # arg[p]
  BY <1>2 DEF Family, Making, Makes
<1>4. \A c \in Pid : pc'[c] = IF c = p THEN "execAppend" ELSE pc[c]
  BY <1>1, <1>2
<1>5. NotYet'
  <2>1. NotYet
    BY DEF Family
  <2>2. ProcessId \in Nat /\ Pid \subseteq Nat
    BY Pids DEF Types
  <2>3. ASSUME NEW c \in Pid, c > ProcessId
        PROVE  IF c = 1 THEN pc'[c] \in {"load", "done"} /\ ~Valid[c] /\ ~InPCB(c)'
                        ELSE Fresh(c)'
    <3>1. c # arg[p] /\ c # p
      BY <1>2, <1>3, <2>1, <2>2, <2>3 DEF NotYet, Fresh
    <3>2. QED
      BY <1>2, <1>4, <2>1, <2>3, <3>1 DEF NotYet, Fresh
  <2>4. QED
    BY <1>2, <2>3 DEF NotYet
<1>6. Stages'
  BY <1>2, <1>3, <1>4 DEF Family, Stages
<1>7. Parents'
  BY <1>1, <1>2, <1>4 DEF Family, Parents
<1>8. Making'
  BY <1>2, <1>3, <1>4 DEF Family, Making, Makes
<1>9. ListedStarted'
  BY <1>2 DEF Family, ListedStarted
<1>10. QED
  BY <1>5, <1>6, <1>7, <1>8, <1>9 DEF Family

\* Listing the new process (PCB->Append in SC_Exec).
LEMMA AppendKeepsFamily ==
    ASSUME Types, Family, NEW p \in Pid, Runs(p), Appends(p)
    PROVE  Family'
<1>1. ParentPID \in [Pid -> Pid \cup {0}] /\ pc \in [Pid -> Code] /\ arg \in [Pid -> Pid \cup {0}]
  BY DEF Types
<1>2. /\ UNCHANGED <<ParentPID, Valid, ProcessId, arg>>
      /\ \A q : InPCB(q)' <=> InPCB(q) \/ q = arg[p]
      /\ NewStay /\ kpc[p] # "new"
      /\ pc[p] = "execAppend" /\ pc' = [pc EXCEPT ![p] = "user"]
  BY DEF Appends, Goes, Enters, Rest, Runs
<1>3. /\ arg[p] \in Pid /\ ParentPID[arg[p]] = p /\ Valid[arg[p]] /\ arg[p] <= ProcessId
      /\ kpc[arg[p]] # "new"
  BY <1>2 DEF Family, Making, Makes
<1>4. \A c \in Pid : pc'[c] = IF c = p THEN "user" ELSE pc[c]
  BY <1>1, <1>2
<1>5. NotYet'
  <2>1. NotYet
    BY DEF Family
  <2>2. ProcessId \in Nat /\ Pid \subseteq Nat
    BY Pids DEF Types
  <2>3. ASSUME NEW c \in Pid, c > ProcessId
        PROVE  IF c = 1 THEN pc'[c] \in {"load", "done"} /\ ~Valid[c] /\ ~InPCB(c)'
                        ELSE Fresh(c)'
    <3>1. c # arg[p] /\ c # p
      BY <1>2, <1>3, <2>1, <2>2, <2>3 DEF NotYet, Fresh
    <3>2. QED
      BY <1>2, <1>4, <2>1, <2>3, <3>1 DEF NotYet, Fresh, NewStay
  <2>4. QED
    BY <1>2, <2>3 DEF NotYet
<1>6. Stages'
  BY <1>2, <1>4 DEF Family, Stages, NewStay
<1>7. Parents'
  BY <1>1, <1>2, <1>4 DEF Family, Parents, NewStay
<1>8. Making'
  <2>1. \A q, c \in Pid : Makes(q, c)' <=> Makes(q, c) /\ q # p
    BY <1>2, <1>4 DEF Makes
  <2>2. \A q \in Pid : Makes(q, arg[p]) => q = p
    BY <1>3 DEF Family, Making
  <2>3. QED
    BY <1>2, <1>3, <1>4, <2>1, <2>2 DEF Family, Making, NewStay
<1>9. ListedStarted'
  BY <1>2, <1>3 DEF Family, ListedStarted, NewStay
<1>10. QED
  BY <1>5, <1>6, <1>7, <1>8, <1>9 DEF Family

\* The PID of a process that is being made or was refused (SC_Exec).
LEMMA NewPid ==
    ASSUME Types, Family, NEW p \in Pid, NEW c \in Pid, kpc[p] # "new", pc[p] = "user",
           c = ProcessId + 1
    PROVE  /\ c # 1 /\ Fresh(c) /\ p <= ProcessId /\ p < c /\ p # c /\ ProcessId \in Nat /\ c > ProcessId
           /\ \A q \in Pid : ParentPID[q] # c
           /\ \A q \in Pid : ~Makes(q, c)
<1>1. ProcessId \in Nat /\ Pid \subseteq Nat /\ NotYet /\ c > ProcessId
  BY Pids DEF Types, Family
<1>2. p <= ProcessId
  BY <1>1 DEF NotYet, Fresh
<1>3. c # 1 /\ p < c /\ p # c
  <2>1. p \in Nat /\ p # 0
    BY <1>1, Pids
  <2>2. QED
    BY <1>1, <1>2, <2>1
<1>4. Fresh(c)
  BY <1>1, <1>3 DEF NotYet
<1>5. \A q \in Pid : ParentPID[q] # c
  <2>1. 0 # c
    BY <1>1
  <2>2. QED
    BY <1>1, <2>1 DEF Family, Parents
<1>6. \A q \in Pid : ~Makes(q, c)
  BY <1>4 DEF Family, Making, Fresh
<1>7. QED
  BY <1>1, <1>2, <1>3, <1>4, <1>5, <1>6

\* A PID that was there before is not above the new last one.
LEMMA LaterPid ==
    ASSUME Types, NEW p \in Pid, p <= ProcessId, ProcessId' = ProcessId + 1
    PROVE  p <= ProcessId'
BY Pids DEF Types

\* An Exec that fails, before or after it asks for memory (SC_Exec).
LEMMA RefusalKeepsFamily ==
    ASSUME Types, Family, NEW p \in Pid, NEW c \in Pid, Runs(p), Refused(p, c)
    PROVE  Family'
<1>1. /\ ParentPID \in [Pid -> Pid \cup {0}] /\ pc \in [Pid -> Code]
      /\ ProcessId \in Nat /\ Pid \subseteq Nat
  BY Pids DEF Types
<1>2. /\ pc[p] = "user" /\ c = ProcessId + 1 /\ ProcessId' = c /\ kpc[p] # "new"
      /\ UNCHANGED <<Valid, pc, arg>> /\ NewStay
      /\ \A q \in Pid : ParentPID'[q] = ParentPID[q] \/ (q = c /\ ParentPID'[q] = p)
      /\ \A q : InPCB(q)' => InPCB(q) \/ q = c
  BY <1>1 DEF Refused, Rest, ListStay, Enters, Runs
<1>3. /\ c # 1 /\ Fresh(c) /\ p <= ProcessId /\ p < c /\ p # c /\ c > ProcessId
      /\ \A q \in Pid : ~Makes(q, c)
  BY <1>2, NewPid
<1>4. NotYet'
  <2>1. NotYet
    BY DEF Family
  <2>2. ASSUME NEW q \in Pid, q > c
        PROVE  IF q = 1 THEN pc'[q] \in {"load", "done"} /\ ~Valid'[q] /\ ~InPCB(q)'
                        ELSE Fresh(q)'
    <3>1. q > ProcessId /\ q # c
      BY <1>1, <1>2, <1>3, <2>2
    <3>2. QED
      BY <1>2, <2>1, <3>1 DEF NotYet, Fresh, NewStay
  <2>3. QED
    BY <1>2, <2>2 DEF NotYet
<1>5. Stages'
  <2>1. \A q \in Pid : pc[q] # "load"
    <3>1. NotYet /\ Stages /\ (p > 0)
      BY <1>1, Pids DEF Family
    <3>2. ProcessId # 0
      BY <1>1, <1>3, <3>1
    <3>3. QED
      BY <3>1, <3>2 DEF Stages
  <2>2. QED
    BY <1>2, <2>1 DEF Family, Stages, NewStay
<1>6. Parents'
  <2>1. ASSUME NEW q \in Pid, q # c, ParentPID[q] # 0
        PROVE  /\ ParentPID'[q] < q /\ ParentPID'[q] <= ProcessId'
               /\ kpc'[ParentPID'[q]] # "new" /\ pc'[ParentPID'[q]] # "load"
    <3>1. ParentPID'[q] = ParentPID[q] /\ ParentPID[q] \in Pid /\ ParentPID[q] \in Nat
      BY <1>1, <1>2, <2>1
    <3>2. ParentPID[q] < q /\ ParentPID[q] <= ProcessId
          /\ kpc[ParentPID[q]] # "new" /\ pc[ParentPID[q]] # "load"
      BY <2>1 DEF Family, Parents
    <3>3. ParentPID[q] <= ProcessId'
      BY <1>1, <1>2, <3>1, <3>2
    <3>4. QED
      BY <1>2, <3>1, <3>2, <3>3 DEF NewStay
  <2>2. p <= ProcessId' /\ ParentPID[c] = 0
    BY <1>2, <1>3, LaterPid DEF Fresh
  <2>3. QED
    BY <1>2, <1>3, <2>1, <2>2 DEF Parents, NewStay
<1>7. Making'
  <2>1. \A q, d \in Pid : Makes(q, d)' <=> Makes(q, d)
    BY <1>2 DEF Makes
  <2>2. \A q, d \in Pid : Makes(q, d) => d # c /\ d <= ProcessId'
    BY <1>1, <1>2, <1>3 DEF Family, Making
  <2>3. QED
    BY <1>2, <2>1, <2>2 DEF Family, Making, NewStay
<1>8. ListedStarted'
  BY <1>2, <1>3 DEF Family, ListedStarted, NewStay, Fresh
<1>9. QED
  BY <1>4, <1>5, <1>6, <1>7, <1>8 DEF Family

\* An Exec that gets memory (SC_Exec).
LEMMA ExecKeepsFamily ==
    ASSUME Types, Family, NEW p \in Pid, NEW c \in Pid, Runs(p), Execs(p, c)
    PROVE  Family'
<1>1. /\ ParentPID \in [Pid -> Pid \cup {0}] /\ pc \in [Pid -> Code] /\ Valid \in [Pid -> BOOLEAN]
      /\ arg \in [Pid -> Pid \cup {0}] /\ ProcessId \in Nat /\ Pid \subseteq Nat
  BY Pids DEF Types
<1>2. /\ pc[p] = "user" /\ c = ProcessId + 1 /\ ProcessId' = c /\ kpc[p] # "new"
      /\ NewStay /\ \A q : InPCB(q)' <=> InPCB(q)
  BY DEF Execs, Goes, ListStay, Runs
<1>3. \A q \in Pid : /\ pc'[q] = IF q = p THEN "execCount" ELSE pc[q]
                     /\ arg'[q] = IF q = p THEN c ELSE arg[q]
                     /\ Valid'[q] = IF q = c THEN TRUE ELSE Valid[q]
                     /\ ParentPID'[q] = IF q = c THEN p ELSE ParentPID[q]
  BY <1>1 DEF Execs, Goes
<1>4. /\ c # 1 /\ Fresh(c) /\ p <= ProcessId /\ p < c /\ p # c /\ c > ProcessId
      /\ \A q \in Pid : ~Makes(q, c)
  BY <1>2, NewPid
<1>5. NotYet'
  <2>1. NotYet
    BY DEF Family
  <2>2. ASSUME NEW q \in Pid, q > c
        PROVE  IF q = 1 THEN pc'[q] \in {"load", "done"} /\ ~Valid'[q] /\ ~InPCB(q)'
                        ELSE Fresh(q)'
    <3>1. q > ProcessId /\ q # c /\ q # p
      BY <1>1, <1>2, <1>4, <2>2
    <3>2. /\ pc'[q] = pc[q] /\ Valid'[q] = Valid[q] /\ ParentPID'[q] = ParentPID[q]
          /\ InPCB(q)' <=> InPCB(q)
          /\ kpc'[q] = "new" <=> kpc[q] = "new"
      BY <1>2, <1>3, <3>1 DEF NewStay
    <3>3. IF q = 1 THEN pc[q] \in {"load", "done"} /\ ~Valid[q] /\ ~InPCB(q) ELSE Fresh(q)
      BY <2>1, <3>1 DEF NotYet
    <3>4. CASE q = 1
      BY <3>2, <3>3, <3>4
    <3>5. CASE q # 1
      BY <3>2, <3>3, <3>5 DEF Fresh
    <3>6. QED
      BY <3>4, <3>5
  <2>3. QED
    BY <1>2, <2>2 DEF NotYet
<1>6. Stages'
  <2>1. \A q \in Pid : pc[q] # "load"
    <3>1. NotYet /\ Stages /\ (p > 0)
      BY <1>1, Pids DEF Family
    <3>2. ProcessId # 0
      BY <1>1, <1>4, <3>1
    <3>3. QED
      BY <3>1, <3>2 DEF Stages
  <2>2. Stages
    BY DEF Family
  <2>3. ASSUME NEW q \in Pid
        PROVE  /\ kpc'[q] = "new" => pc'[q] = "creator"
               /\ pc'[q] = "creator" => q # 1
               /\ pc'[q] # "load"
               /\ pc'[q] = "count" => q = 1
               /\ (kpc'[q] # "new" /\ pc'[q] \notin {"load", "done"}) => Valid'[q]
    <3>1. kpc'[q] = "new" <=> kpc[q] = "new"
      BY <1>2 DEF NewStay
    <3>2. CASE q = p
      <4>1. pc'[q] = "execCount" /\ Valid'[q] = Valid[q] /\ kpc[q] # "new" /\ pc[q] = "user"
        BY <1>2, <1>3, <1>4, <3>2
      <4>2. QED
        BY <2>2, <3>1, <4>1 DEF Stages
    <3>3. CASE q # p
      <4>1. pc'[q] = pc[q] /\ (Valid'[q] \/ Valid'[q] = Valid[q])
        BY <1>3, <3>3
      <4>2. QED
        BY <2>1, <2>2, <3>1, <4>1 DEF Stages
    <3>4. QED
      BY <3>2, <3>3
  <2>4. QED
    BY <2>3 DEF Stages
<1>7. Parents'
  <2>2. p <= ProcessId' /\ pc'[p] # "load"
    BY <1>2, <1>3, <1>4, LaterPid
  <2>3. ASSUME NEW q \in Pid, q # c, ParentPID[q] # 0
        PROVE  /\ ParentPID'[q] < q /\ ParentPID'[q] <= ProcessId'
               /\ kpc'[ParentPID'[q]] # "new" /\ pc'[ParentPID'[q]] # "load"
    <3>1. ParentPID'[q] = ParentPID[q] /\ ParentPID[q] \in Pid /\ ParentPID[q] \in Nat
      BY <1>1, <1>3, <2>3
    <3>2. ParentPID[q] < q /\ ParentPID[q] <= ProcessId
          /\ kpc[ParentPID[q]] # "new" /\ pc[ParentPID[q]] # "load"
      BY <2>3 DEF Family, Parents
    <3>3. ParentPID[q] <= ProcessId'
      BY <1>1, <1>2, <3>1, <3>2
    <3>4. pc'[ParentPID[q]] # "load"
      BY <1>3, <3>1, <3>2
    <3>5. QED
      BY <1>2, <3>1, <3>2, <3>3, <3>4 DEF NewStay
  <2>4. QED
    BY <1>2, <1>3, <1>4, <2>2, <2>3 DEF Parents, NewStay
<1>8. Making'
  <2>1. \A q, d \in Pid : Makes(q, d)' <=> Makes(q, d) \/ (q = p /\ d = c)
    <3>1. \A d \in Pid : ~Makes(p, d)
      BY <1>2 DEF Makes
    <3>2. QED
      BY <1>3, <3>1 DEF Makes
  <2>2. \A q, d \in Pid : Makes(q, d) => d # c /\ q # p /\ d <= ProcessId'
    <3>1. \A d \in Pid : ~Makes(p, d)
      BY <1>2 DEF Makes
    <3>2. QED
      BY <1>1, <1>2, <1>4, <3>1 DEF Family, Making
  <2>3. \A q \in Pid : pc'[q] \in {"execCount", "execFork", "execAppend"} => arg'[q] \in Pid
    BY <1>3 DEF Family, Making
  <2>4. ASSUME NEW q \in Pid, NEW d \in Pid, Makes(q, d)
        PROVE  /\ ParentPID'[d] = q /\ Valid'[d] /\ d <= ProcessId' /\ ~InPCB(d)'
               /\ kpc'[d] = "new" <=> pc'[q] # "execAppend"
    <3>1. d # c /\ q # p /\ d <= ProcessId'
      BY <2>2, <2>4
    <3>2. /\ ParentPID[d] = q /\ Valid[d] /\ ~InPCB(d)
          /\ kpc[d] = "new" <=> pc[q] # "execAppend"
      BY <2>4 DEF Family, Making
    <3>3. ParentPID'[d] = ParentPID[d] /\ Valid'[d] = Valid[d] /\ pc'[q] = pc[q]
      BY <1>3, <3>1
    <3>4. QED
      BY <1>2, <3>1, <3>2, <3>3 DEF NewStay
  <2>5. /\ ParentPID'[c] = p /\ Valid'[c] /\ c <= ProcessId' /\ ~InPCB(c)'
        /\ kpc'[c] = "new" <=> pc'[p] # "execAppend"
    <3>1. ParentPID'[c] = p /\ Valid'[c] /\ pc'[p] = "execCount"
      BY <1>3
    <3>2. c <= ProcessId'
      BY <1>1, <1>2
    <3>3. QED
      BY <1>2, <1>4, <3>1, <3>2 DEF Fresh, NewStay
  <2>6. QED
    BY <2>1, <2>3, <2>4, <2>5 DEF Making
<1>9. ListedStarted'
  BY <1>2, <1>3, <1>4 DEF Family, ListedStarted, NewStay, Fresh
<1>10. QED
  BY <1>5, <1>6, <1>7, <1>8, <1>9 DEF Family

\* The first program finds memory (StartProcess).
LEMMA StartKeepsFamily ==
    ASSUME Types, Family, Runs(1), Starts
    PROVE  Family'
<1>1. /\ ParentPID \in [Pid -> Pid \cup {0}] /\ pc \in [Pid -> Code] /\ Valid \in [Pid -> BOOLEAN]
      /\ 1 \in Pid /\ Pid \subseteq Nat /\ 0 \notin Pid
  BY Pids DEF Types
<1>2. /\ pc[1] = "load" /\ ProcessId = 0 /\ ProcessId' = 1 /\ kpc[1] # "new"
      /\ UNCHANGED <<ParentPID, arg>>
      /\ NewStay /\ \A q : InPCB(q)' <=> InPCB(q) \/ q = 1
  BY <1>1 DEF Starts, Goes, Enters, Rest, Runs, Family, Stages
<1>3. \A q \in Pid : /\ pc'[q] = IF q = 1 THEN "count" ELSE pc[q]
                     /\ Valid'[q] = IF q = 1 THEN TRUE ELSE Valid[q]
  BY <1>1 DEF Starts, Goes
<1>4. \A q \in Pid : q > ProcessId /\ (q # 1 => q > ProcessId')
  BY <1>1, <1>2
<1>5. \A q \in Pid : q # 1 => Fresh(q)
  BY <1>4 DEF Family, NotYet
<1>6. \A q \in Pid : q # 1 => Fresh(q)'
  BY <1>2, <1>3, <1>5 DEF Fresh, NewStay
<1>7. \A q \in Pid : q > ProcessId' => q # 1
  BY <1>2
<1>8. \A q \in Pid : ParentPID[q] = 0 /\ ~(pc[q] \in {"execCount", "execFork", "execAppend"})
  <2>1. ParentPID[1] = 0
    <3>1. ASSUME ParentPID[1] # 0 PROVE FALSE
      <4>1. ParentPID[1] \in Pid /\ ParentPID[1] <= ProcessId
        BY <1>1, <3>1 DEF Family, Parents
      <4>2. ParentPID[1] \in Nat /\ ParentPID[1] # 0
        BY <1>1, <4>1
      <4>3. QED
        BY <1>2, <4>1, <4>2
    <3>2. QED
      BY <3>1
  <2>2. QED
    BY <1>2, <1>5, <2>1 DEF Fresh, Family, Stages
<1>9. NotYet'
  BY <1>6, <1>7 DEF NotYet
<1>10. Stages'
  BY <1>2, <1>3, <1>5 DEF Family, Stages, NewStay, Fresh
<1>11. Parents' /\ Making'
  BY <1>2, <1>3, <1>8 DEF Parents, Making, Makes
<1>12. ListedStarted'
  BY <1>2, <1>3 DEF Family, ListedStarted, NewStay
<1>13. QED
  BY <1>9, <1>10, <1>11, <1>12 DEF Family

\* There is no first program (StartProcess).
LEMMA NoStartKeepsFamily ==
    ASSUME Types, Family, Runs(1), NotStarted
    PROVE  Family'
<1>1. /\ ParentPID \in [Pid -> Pid \cup {0}] /\ pc \in [Pid -> Code]
      /\ 1 \in Pid /\ Pid \subseteq Nat /\ 0 \notin Pid
  BY Pids DEF Types
<1>2. /\ pc[1] = "load" /\ ProcessId = 0 /\ ProcessId' \in {0, 1} /\ kpc[1] # "new"
      /\ UNCHANGED <<ParentPID, Valid, arg>>
      /\ NewStay /\ \A q : InPCB(q)' <=> InPCB(q)
  BY <1>1 DEF NotStarted, Goes, ListStay, Runs, Family, Stages
<1>3. \A q \in Pid : pc'[q] = IF q = 1 THEN "done" ELSE pc[q]
  BY <1>1 DEF NotStarted, Goes
<1>4. \A q \in Pid : q > ProcessId
  BY <1>1, <1>2
<1>5. (\A q \in Pid : q # 1 => Fresh(q)) /\ ~Valid[1] /\ ~InPCB(1)
  BY <1>1, <1>4 DEF Family, NotYet
<1>6. \A q \in Pid : q # 1 => Fresh(q)'
  BY <1>2, <1>3, <1>5 DEF Fresh, NewStay
<1>7. \A q \in Pid : ParentPID[q] = 0 /\ ~(pc[q] \in {"execCount", "execFork", "execAppend"})
  <2>1. ParentPID[1] = 0
    <3>1. ASSUME ParentPID[1] # 0 PROVE FALSE
      <4>1. ParentPID[1] \in Pid /\ ParentPID[1] <= ProcessId
        BY <1>1, <3>1 DEF Family, Parents
      <4>2. ParentPID[1] \in Nat /\ ParentPID[1] # 0
        BY <1>1, <4>1
      <4>3. QED
        BY <1>2, <4>1, <4>2
    <3>2. QED
      BY <3>1
  <2>2. QED
    BY <1>2, <1>5, <2>1 DEF Fresh, Family, Stages
<1>8. NotYet'
  BY <1>2, <1>3, <1>5, <1>6 DEF NotYet
<1>9. Stages'
  BY <1>2, <1>3, <1>5 DEF Family, Stages, NewStay, Fresh
<1>10. Parents' /\ Making'
  BY <1>2, <1>3, <1>7 DEF Parents, Making, Makes
<1>11. ListedStarted'
  BY <1>2 DEF Family, ListedStarted, NewStay
<1>12. QED
  BY <1>8, <1>9, <1>10, <1>11 DEF Family

\* The other moves are steps from one place to the next.
LEMMA MovesAreSteps ==
    ASSUME Types, NEW p \in Pid, Runs(p),
           \/ Onward(p)
           \/ WantsMutex(p)
           \/ CountsOne(p)
           \/ Ends(p)
           \/ \E c \in Pid : Joins(p, c) \/ Breaks(p, c)
           \/ \E q \in Pid \cup {0} : Exits(p, q)
    PROVE  Steps(p)
<1>0. pc \in [Pid -> Code]
  BY DEF Types
<1>1. CASE Onward(p)
  BY <1>0, <1>1 DEF Onward, Runs, Steps, Code, Exited, Goes, SameFamily, Rest
<1>2. CASE WantsMutex(p) \/ Ends(p)
  BY <1>0, <1>2 DEF WantsMutex, Ends, Runs, Steps, Code, Exited, Goes, SameFamily, Rest
<1>3. CASE CountsOne(p)
  BY <1>0, <1>3 DEF CountsOne, Runs, Steps, Code, Exited, Goes, SameFamily
<1>4. ASSUME NEW c \in Pid, Joins(p, c) PROVE Steps(p)
  BY <1>0, <1>4 DEF Joins, Runs, Steps, Code, Exited, Goes, SameFamily
<1>5. ASSUME NEW q, Exits(p, q) PROVE Steps(p)
  BY <1>0, <1>5 DEF Exits, Runs, Steps, Code, Exited, Goes, Rest
<1>6. ASSUME NEW c \in Pid, Breaks(p, c) PROVE Steps(p)
  BY <1>0, <1>6 DEF Breaks, Steps, Exited, SameFamily
<1>7. QED
  BY <1>1, <1>2, <1>3, <1>4, <1>5, <1>6

\* Every step keeps the family in order.
LEMMA FamilyNext ==
    ASSUME KI!KernelInv, Types, Family, Next
    PROVE  Family'
<1>1. Quiet => Family'
  <2>1. Quiet => Steps(1)
    BY DEF Quiet, Steps, SameFamily, Rest, Exited
  <2>2. QED
    BY <2>1, StepsKeepFamily, Pids
<1>2. ASSUME NEW p \in Pid, Moves(p) PROVE Family'
  <2>1. Runs(p)
    BY <1>2 DEF Moves
  <2>2. QED
    BY <1>2, <2>1, MovesAreSteps, StepsKeepFamily, ForkKeepsFamily, AppendKeepsFamily,
       RefusalKeepsFamily, ExecKeepsFamily, StartKeepsFamily, NoStartKeepsFamily DEF Moves
<1>3. QED
  BY <1>1, <1>2, EveryStepMoves

-----------------------------------------------------------------------------
(***************************************************************************)
(* Who lives is listed                                                     *)
(***************************************************************************)
\* A process that is listed or about to be stays so unless it leaves.
LEMMA ListedBy ==
    ASSUME LiveIsListed,
           NEW p \in Pid,
           \A c \in Pid : (Valid'[c] /\ kpc'[c] # "new" /\ ~Exited(c)') =>
               \/ /\ Valid[c] /\ kpc[c] # "new" /\ ~Exited(c)
                  /\ InPCB(c) => InPCB(c)' \/ Unlisted(c)'
                  /\ Unlisted(c) => InPCB(c)' \/ Unlisted(c)'
               \/ InPCB(c)' \/ Unlisted(c)'
    PROVE  LiveIsListed'
BY DEF LiveIsListed

\* Every step keeps it: a process enters the list when its Exec ends, and
\* leaves it when it exits.
LEMMA ListedNext ==
    ASSUME KI!KernelInv, Types, Family, LiveIsListed, Next
    PROVE  LiveIsListed'
<1>1. /\ pc \in [Pid -> Code] /\ arg \in [Pid -> Pid \cup {0}] /\ 1 \in Pid
      /\ ParentPID \in [Pid -> Pid \cup {0}] /\ Valid \in [Pid -> BOOLEAN]
  BY Pids DEF Types
<1>2. ASSUME NEW p \in Pid, Steps(p) PROVE LiveIsListed'
  <2>1. Valid' = Valid /\ NewStay
    BY <1>2 DEF Steps
  <2>2. \A q \in Pid : pc[q] = "execAppend" => pc'[q] = pc[q] /\ arg'[q] = arg[q]
    BY <1>1, <1>2 DEF Steps, Goes
  <2>3. \A c \in Pid : Unlisted(c) => Unlisted(c)'
    BY <2>2 DEF Unlisted
  <2>4. ASSUME NEW c \in Pid, Exited(c) PROVE Exited(c)'
    <3>1. CASE c = p
      BY <1>2, <2>4, <3>1 DEF Steps
    <3>2. CASE c # p
      BY <1>1, <1>2, <2>4, <3>2 DEF Steps, Goes, Exited
    <3>3. QED
      BY <3>1, <3>2
  <2>5. ASSUME NEW c \in Pid, InPCB(c), ~Exited(c)' PROVE InPCB(c)'
    BY <1>2, <2>5 DEF Steps, ListStay, Leaves
  <2>6. QED
    BY <2>1, <2>3, <2>4, <2>5, ListedBy DEF NewStay
<1>3. ASSUME NEW p \in Pid, Runs(p), Forks(p) PROVE LiveIsListed'
  <2>1. /\ pc[p] = "execFork" /\ Valid' = Valid /\ arg' = arg
        /\ \A x \in Pid : kpc'[x] = "new" <=> kpc[x] = "new" /\ x # arg[p]
        /\ \A q : InPCB(q)' <=> InPCB(q)
    BY <1>3 DEF Forks, Goes, SameFamily, ListStay
  <2>2. \A q \in Pid : pc'[q] = IF q = p THEN "execAppend" ELSE pc[q]
    BY <1>1, <1>3 DEF Forks, Goes
  <2>3. Unlisted(arg[p])'
    BY <2>1, <2>2 DEF Unlisted
  <2>4. \A c \in Pid : (Unlisted(c) => Unlisted(c)') /\ (Exited(c)' <=> Exited(c))
    BY <2>1, <2>2 DEF Unlisted, Exited
  <2>5. QED
    BY <2>1, <2>3, <2>4, ListedBy
<1>4. ASSUME NEW p \in Pid, Runs(p), Appends(p) PROVE LiveIsListed'
  <2>1. /\ pc[p] = "execAppend" /\ Valid' = Valid /\ arg' = arg /\ NewStay
        /\ \A q : InPCB(q)' <=> InPCB(q) \/ q = arg[p]
    BY <1>4 DEF Appends, Goes, Enters, Rest
  <2>2. \A q \in Pid : pc'[q] = IF q = p THEN "user" ELSE pc[q]
    BY <1>1, <1>4 DEF Appends, Goes
  <2>3. \A c \in Pid : /\ Unlisted(c) => InPCB(c)' \/ Unlisted(c)'
                       /\ Exited(c)' <=> Exited(c)
    BY <2>1, <2>2 DEF Unlisted, Exited
  <2>4. QED
    BY <2>1, <2>3, ListedBy DEF NewStay
<1>5. ASSUME NEW p \in Pid, NEW c \in Pid, Runs(p), Refused(p, c) PROVE LiveIsListed'
  <2>1. /\ Valid' = Valid /\ pc' = pc /\ arg' = arg /\ NewStay
        /\ \A q : InPCB(q) => InPCB(q)'
    BY <1>5 DEF Refused, Rest, ListStay, Enters
  <2>2. \A d \in Pid : (Unlisted(d) => Unlisted(d)') /\ (Exited(d)' <=> Exited(d))
    BY <2>1 DEF Unlisted, Exited
  <2>3. QED
    BY <2>1, <2>2, ListedBy DEF NewStay
<1>6. ASSUME NEW p \in Pid, NEW c \in Pid, Runs(p), Execs(p, c) PROVE LiveIsListed'
  <2>1. /\ pc[p] = "user" /\ c = ProcessId + 1 /\ kpc[p] # "new" /\ NewStay
        /\ \A q : InPCB(q)' <=> InPCB(q)
    BY <1>6 DEF Execs, Goes, ListStay, Runs
  <2>2. \A q \in Pid : /\ pc'[q] = IF q = p THEN "execCount" ELSE pc[q]
                       /\ q # p => arg'[q] = arg[q]
                       /\ q # c => Valid'[q] = Valid[q]
    BY <1>1, <1>6 DEF Execs, Goes
  <2>3. kpc[c] = "new"
    BY <2>1, NewPid DEF Fresh
  <2>4. \A d \in Pid : (Unlisted(d) => Unlisted(d)') /\ (Exited(d)' <=> Exited(d))
    BY <2>1, <2>2 DEF Unlisted, Exited
  <2>5. QED
    BY <2>1, <2>2, <2>3, <2>4, ListedBy DEF NewStay
<1>7. ASSUME Runs(1), Starts PROVE LiveIsListed'
  <2>1. /\ pc[1] = "load" /\ arg' = arg /\ NewStay
        /\ \A q : InPCB(q)' <=> InPCB(q) \/ q = 1
    BY <1>7 DEF Starts, Goes, Enters, Rest
  <2>2. \A q \in Pid : /\ pc'[q] = IF q = 1 THEN "count" ELSE pc[q]
                       /\ q # 1 => Valid'[q] = Valid[q]
    BY <1>1, <1>7 DEF Starts, Goes
  <2>3. \A d \in Pid : (Unlisted(d) => Unlisted(d)') /\ (Exited(d)' <=> Exited(d))
    BY <2>1, <2>2 DEF Unlisted, Exited
  <2>4. QED
    BY <1>1, <2>1, <2>2, <2>3, ListedBy DEF NewStay
<1>8. ASSUME Runs(1), NotStarted PROVE LiveIsListed'
  <2>1. /\ pc[1] = "load" /\ arg' = arg /\ Valid' = Valid /\ NewStay
        /\ \A q : InPCB(q)' <=> InPCB(q)
    BY <1>8 DEF NotStarted, Goes, ListStay
  <2>2. \A q \in Pid : pc'[q] = IF q = 1 THEN "done" ELSE pc[q]
    BY <1>1, <1>8 DEF NotStarted, Goes
  <2>3. \A d \in Pid : (Unlisted(d) => Unlisted(d)') /\ (Exited(d) => Exited(d)')
    BY <2>1, <2>2 DEF Unlisted, Exited
  <2>4. QED
    BY <1>1, <2>1, <2>3, ListedBy DEF NewStay
<1>9. Quiet => LiveIsListed'
  <2>1. Quiet => Steps(1)
    BY DEF Quiet, Steps, SameFamily, Rest, Exited
  <2>2. QED
    BY <1>1, <1>2, <2>1
<1>10. ASSUME NEW p \in Pid, Moves(p) PROVE LiveIsListed'
  <2>1. Runs(p)
    BY <1>10 DEF Moves
  <2>2. QED
    BY <1>2, <1>3, <1>4, <1>5, <1>6, <1>7, <1>8, <1>10, <2>1, MovesAreSteps DEF Moves
<1>11. QED
  BY <1>9, <1>10, EveryStepMoves

-----------------------------------------------------------------------------
(***************************************************************************)
(* The number of processes                                                 *)
(***************************************************************************)

\* Counted is finite and no larger than the number of PIDs.
LEMMA CountedSize == IsFiniteSet(Counted) /\ Cardinality(Counted) \in 0..MaxProc
<1>1. Counted \subseteq Pid
  BY DEF Counted
<1>2. IsFiniteSet(Pid) /\ Cardinality(Pid) = MaxProc
  BY FS_Interval, ProcessAssumption DEF Pid
<1>3. IsFiniteSet(Counted) /\ Cardinality(Counted) <= Cardinality(Pid)
  BY <1>1, <1>2, FS_Subset
<1>4. Cardinality(Counted) \in Nat
  BY <1>3, FS_CardinalityType
<1>5. QED
  BY <1>2, <1>3, <1>4, ProcessAssumption

\* A process is counted from Count to ExitCount.
LEMMA CountedBy ==
    ASSUME NEW p, Types, Family, p \in Pid, CountsOne(p), kpc[p] # "new"
    PROVE  \/ /\ NumProcess' = NumProcess + 1
              /\ \E c \in Pid : c \notin Counted /\ Counted' = Counted \cup {c}
           \/ NumProcess' = NumProcess - 1 /\ p \in Counted /\ Counted' = Counted \ {p}
<1>1. /\ pc \in [Pid -> Code] /\ arg \in [Pid -> Pid \cup {0}]
      /\ UNCHANGED <<Valid, arg>>
  BY DEF Types, CountsOne, SameFamily
<1>2. CASE p = 1 /\ Goes(p, "count", "user") /\ NumProcess' = NumProcess + 1
  <2>1. \A q \in Pid : pc'[q] = IF q = 1 THEN "user" ELSE pc[q]
    BY <1>1, <1>2 DEF Goes
  <2>2. pc[1] = "count" /\ Valid[1]
    BY <1>2 DEF Goes, Family, Stages
  <2>3. \A q \in Pid : ~(pc[q] = "execCount" /\ arg[q] = 1)
    <3>1. ASSUME NEW q \in Pid, Makes(q, 1) PROVE FALSE
      <4>1. ParentPID[1] = q /\ q # 0 /\ q < 1 /\ q \in Nat
        BY <1>1, <3>1, Pids DEF Family, Making, Parents
      <4>2. QED
        BY <4>1
    <3>2. QED
      BY <3>1, Pids DEF Makes
  <2>4. \A q \in Pid : /\ pc'[q] = "execCount" <=> pc[q] = "execCount"
                       /\ q # 1 => pc'[q] = pc[q]
    BY <2>1, <2>2
  <2>5. \A q \in Pid : q \in Counted' <=> q \in Counted \/ q = 1
    BY <1>1, <2>1, <2>2, <2>3, <2>4, Pids DEF Counted
  <2>6. 1 \notin Counted /\ Counted \subseteq Pid /\ Counted' \subseteq Pid /\ 1 \in Pid
    BY <2>2, Pids DEF Counted
  <2>7. Counted' = Counted \cup {1}
    BY <2>5, <2>6
  <2>8. QED
    BY <1>2, <2>6, <2>7
<1>3. CASE Goes(p, "execCount", "execFork") /\ NumProcess' = NumProcess + 1
  <2>1. \A q \in Pid : pc'[q] = IF q = p THEN "execFork" ELSE pc[q]
    BY <1>1, <1>3 DEF Goes
  <2>2. pc[p] = "execCount" /\ arg[p] \in Pid /\ Makes(p, arg[p])
    BY <1>3 DEF Goes, Family, Making, Makes
  <2>3. /\ Valid[arg[p]] /\ ParentPID[arg[p]] = p /\ pc[arg[p]] = "creator"
    BY <2>2 DEF Family, Making, Stages
  <2>4. \A q \in Pid : pc[q] = "execCount" /\ arg[q] = arg[p] => q = p
    BY <2>2, <2>3 DEF Family, Making, Makes
  <2>5. arg[p] \notin Counted
    BY <2>2 DEF Counted
  <2>6. p # arg[p]
    BY <2>2, <2>3
  <2>7. Counted' = Counted \cup {arg[p]}
    BY <1>1, <2>1, <2>2, <2>3, <2>4, <2>6 DEF Counted
  <2>8. QED
    BY <1>3, <2>2, <2>5, <2>7
<1>4. CASE Goes(p, "exitCount", "exitFinish") /\ NumProcess' = NumProcess - 1
  <2>1. \A q \in Pid : pc'[q] = IF q = p THEN "exitFinish" ELSE pc[q]
    BY <1>1, <1>4 DEF Goes
  <2>2. pc[p] = "exitCount" /\ Valid[p]
    BY <1>4 DEF Goes, Family, Stages
  <2>3. \A q \in Pid : ~(pc[q] = "execCount" /\ arg[q] = p)
    BY <2>2 DEF Family, Making, Makes
  <2>4. p \in Counted /\ Counted' = Counted \ {p}
    BY <1>1, <2>1, <2>2, <2>3 DEF Counted
  <2>5. QED
    BY <1>4, <2>4
<1>5. QED
  BY <1>2, <1>3, <1>4 DEF CountsOne

\* Every other move leaves the set of counted processes alone.
LEMMA CountedStay ==
    ASSUME Types, Family, NEW p \in Pid, Moves(p), ~CountsOne(p)
    PROVE  Counted' = Counted /\ NumProcess' = NumProcess
<1>1. /\ pc \in [Pid -> Code] /\ arg \in [Pid -> Pid \cup {0}] /\ 1 \in Pid
      /\ Valid \in [Pid -> BOOLEAN]
  BY Pids DEF Types
<1>2. Runs(p)
  BY DEF Moves
<1>3. CASE \/ Onward(p)
           \/ WantsMutex(p)
           \/ Ends(p)
           \/ Forks(p)
           \/ Appends(p)
           \/ \E c \in Pid : Joins(p, c)
           \/ \E q \in Pid \cup {0} : Exits(p, q)
  <2>1. /\ Valid' = Valid /\ NumProcess' = NumProcess
        /\ \A q \in Pid : q # p => arg'[q] = arg[q]
        /\ \E from, to \in Code :
              /\ pc[p] = from /\ pc' = [pc EXCEPT ![p] = to]
              /\ from \notin {"count", "execCount"} /\ to \notin {"count", "execCount"}
              /\ from \in {"exitFinish", "done"} <=> to \in {"exitFinish", "done"}
    <3>1. CASE Onward(p) \/ WantsMutex(p) \/ Ends(p)
      BY <1>1, <3>1 DEF Onward, WantsMutex, Ends, Goes, SameFamily, Rest, Code
    <3>2. CASE Forks(p) \/ Appends(p)
      BY <1>1, <3>2 DEF Forks, Appends, Goes, SameFamily, Rest, Code
    <3>3. ASSUME NEW c \in Pid, Joins(p, c)
          PROVE  /\ Valid' = Valid /\ NumProcess' = NumProcess
                 /\ \A q \in Pid : q # p => arg'[q] = arg[q]
                 /\ pc[p] = "user" /\ pc' = [pc EXCEPT ![p] = "joined"]
      BY <1>1, <3>3 DEF Joins, Goes, SameFamily
    <3>4. ASSUME NEW q, Exits(p, q)
          PROVE  /\ Valid' = Valid /\ NumProcess' = NumProcess /\ arg' = arg
                 /\ pc[p] = "user" /\ \E to \in {"exitCount", "exitMutex"} : pc' = [pc EXCEPT ![p] = to]
      BY <3>4 DEF Exits, Goes, Rest
    <3>5. QED
      BY <1>3, <3>1, <3>2, <3>3, <3>4 DEF Code
  <2>2. \A q \in Pid : /\ pc'[q] = "execCount" <=> pc[q] = "execCount"
                       /\ pc'[q] = "execCount" => arg'[q] = arg[q]
                       /\ pc'[q] \in {"count", "exitFinish", "done"}
                             <=> pc[q] \in {"count", "exitFinish", "done"}
    BY <1>1, <2>1
  <2>3. QED
    BY <2>1, <2>2 DEF Counted
<1>4. ASSUME NEW c \in Pid, Refused(p, c)
      PROVE  Counted' = Counted /\ NumProcess' = NumProcess
  BY <1>4 DEF Refused, Rest, Counted
<1>5. ASSUME NEW c \in Pid, Execs(p, c)
      PROVE  Counted' = Counted /\ NumProcess' = NumProcess
  <2>1. /\ pc[p] = "user" /\ c = ProcessId + 1 /\ kpc[p] # "new" /\ NumProcess' = NumProcess
    BY <1>2, <1>5 DEF Execs, Goes, Runs
  <2>2. \A q \in Pid : /\ pc'[q] = IF q = p THEN "execCount" ELSE pc[q]
                       /\ arg'[q] = IF q = p THEN c ELSE arg[q]
                       /\ Valid'[q] = IF q = c THEN TRUE ELSE Valid[q]
    BY <1>1, <1>5 DEF Execs, Goes
  <2>3. ~Valid[c] /\ p # c
    BY <2>1, NewPid DEF Fresh
  <2>4. c \notin Counted /\ c \notin Counted'
    BY <2>2, <2>3 DEF Counted
  <2>5. \A q \in Pid : q # c => (q \in Counted' <=> q \in Counted)
    <3>1. \A q \in Pid : q # c => (Valid'[q] = Valid[q]
              /\ (pc'[q] \in {"count", "exitFinish", "done"} <=> pc[q] \in {"count", "exitFinish", "done"}))
      BY <2>1, <2>2
    <3>2. \A q, d \in Pid : q # c => (pc'[d] = "execCount" /\ arg'[d] = q <=> pc[d] = "execCount" /\ arg[d] = q)
      BY <2>1, <2>2
    <3>3. QED
      BY <3>1, <3>2 DEF Counted
  <2>6. Counted \subseteq Pid /\ Counted' \subseteq Pid
    BY DEF Counted
  <2>7. \A q : q \in Counted' <=> q \in Counted
    BY <2>4, <2>5, <2>6
  <2>8. Counted' = Counted
    BY <2>7
  <2>9. QED
    BY <2>1, <2>8
<1>6. ASSUME p = 1, Starts
      PROVE  Counted' = Counted /\ NumProcess' = NumProcess
  <2>1. \A q \in Pid : /\ pc'[q] = IF q = 1 THEN "count" ELSE pc[q]
                       /\ Valid'[q] = IF q = 1 THEN TRUE ELSE Valid[q]
    BY <1>1, <1>6 DEF Starts, Goes
  <2>2. pc[1] = "load" /\ arg' = arg /\ NumProcess' = NumProcess
    BY <1>6 DEF Starts, Goes, Rest
  <2>3. ~Valid[1]
    BY <1>1, <2>2, Pids DEF Family, Stages, NotYet
  <2>4. \A q \in Pid : /\ pc'[q] = "execCount" <=> pc[q] = "execCount"
                       /\ q # 1 => pc'[q] = pc[q] /\ Valid'[q] = Valid[q]
    BY <2>1, <2>2
  <2>5. 1 \notin Counted /\ 1 \notin Counted'
    BY <2>1, <2>3, Pids DEF Counted
  <2>6. \A q \in Pid : q # 1 => (q \in Counted' <=> q \in Counted)
    BY <2>2, <2>4 DEF Counted
  <2>7. Counted \subseteq Pid /\ Counted' \subseteq Pid
    BY DEF Counted
  <2>8. \A q : q \in Counted' <=> q \in Counted
    BY <2>5, <2>6, <2>7
  <2>9. Counted' = Counted
    BY <2>8
  <2>10. QED
    BY <2>2, <2>9
<1>7. ASSUME p = 1, NotStarted
      PROVE  Counted' = Counted /\ NumProcess' = NumProcess
  <2>1. \A q \in Pid : pc'[q] = IF q = 1 THEN "done" ELSE pc[q]
    BY <1>1, <1>7 DEF NotStarted, Goes
  <2>2. pc[1] = "load" /\ arg' = arg /\ NumProcess' = NumProcess /\ Valid' = Valid
    BY <1>7 DEF NotStarted, Goes
  <2>3. ~Valid[1]
    BY <1>1, <2>2, Pids DEF Family, Stages, NotYet
  <2>4. \A q \in Pid : /\ pc'[q] = "execCount" <=> pc[q] = "execCount"
                       /\ q # 1 => pc'[q] = pc[q]
    BY <2>1, <2>2
  <2>5. 1 \notin Counted /\ 1 \notin Counted'
    BY <2>2, <2>3 DEF Counted
  <2>6. \A q \in Pid : q # 1 => (q \in Counted' <=> q \in Counted)
    BY <2>2, <2>4 DEF Counted
  <2>7. Counted \subseteq Pid /\ Counted' \subseteq Pid
    BY DEF Counted
  <2>8. \A q : q \in Counted' <=> q \in Counted
    BY <2>5, <2>6, <2>7
  <2>9. Counted' = Counted
    BY <2>8
  <2>10. QED
    BY <2>2, <2>9
<1>8. ASSUME NEW c \in Pid, Breaks(p, c)
      PROVE  Counted' = Counted /\ NumProcess' = NumProcess
  <2>1. /\ pc' = pc /\ pc[p] = "user" /\ Valid' = Valid /\ NumProcess' = NumProcess
        /\ \A q \in Pid : q # p => arg'[q] = arg[q]
    BY <1>1, <1>8 DEF Breaks, SameFamily
  <2>2. \A q \in Pid : pc[q] = "execCount" => arg'[q] = arg[q]
    BY <2>1
  <2>3. QED
    BY <2>1, <2>2 DEF Counted
<1>9. QED
  BY <1>3, <1>4, <1>5, <1>6, <1>7, <1>8 DEF Moves

\* NumProcess is the number of processes that are counted.
LEMMA CountingNext ==
    ASSUME KI!KernelInv, Types, Family, Counting, Next
    PROVE  Counting'
<1>1. IsFiniteSet(Counted) /\ Cardinality(Counted) \in Nat
  BY CountedSize
<1>2. CASE Quiet
  BY <1>2 DEF Quiet, Rest, SameFamily, Counting, Counted
<1>3. ASSUME NEW p \in Pid, Moves(p) PROVE Counting'
  <2>1. CASE ~CountsOne(p)
    BY <1>3, <2>1, CountedStay DEF Counting
  <2>2. CASE CountsOne(p)
    <3>1. kpc[p] # "new"
      BY <1>3 DEF Moves, Runs
    <3>2. CASE /\ NumProcess' = NumProcess + 1
               /\ \E c \in Pid : c \notin Counted /\ Counted' = Counted \cup {c}
      <4>1. PICK c \in Pid : c \notin Counted /\ Counted' = Counted \cup {c}
        BY <3>2
      <4>2. Cardinality(Counted \cup {c}) = Cardinality(Counted) + 1
        BY <1>1, <4>1, FS_AddElement
      <4>3. QED
        BY <3>2, <4>1, <4>2 DEF Counting
    <3>3. CASE NumProcess' = NumProcess - 1 /\ p \in Counted /\ Counted' = Counted \ {p}
      <4>1. Cardinality(Counted \ {p}) = Cardinality(Counted) - 1
        BY <1>1, <3>3, FS_RemoveElement
      <4>2. QED
        BY <3>3, <4>1 DEF Counting
    <3>4. QED
      BY <2>2, <3>1, <3>2, <3>3, CountedBy
  <2>3. QED
    BY <2>1, <2>2
<1>4. QED
  BY <1>2, <1>3, EveryStepMoves

-----------------------------------------------------------------------------
(***************************************************************************)
(* Physical memory                                                         *)
(***************************************************************************)

\* The physical memory of the processes meets the assumptions of AddrSpace.
LEMMA ProcessMemory == AI!AddrSpaceAssumption
BY ProcessAssumption DEF AI!AddrSpaceAssumption

\* The two instances of AddrSpace speak of the same memory.
LEMMA SameMemory ==
    /\ A!Frames = AI!Frames /\ A!NoSpace = AI!NoSpace
    /\ \A sp : A!FramesOf(sp) = AI!FramesOf(sp)
    /\ \A alg, used, n : A!MemoryAllocation(alg, used, n) = AI!MemoryAllocation(alg, used, n)
<1>1. A!Frames = AI!Frames /\ A!NoSpace = AI!NoSpace
  BY DEF A!Frames, AI!Frames, A!NoSpace, AI!NoSpace
<1>2. \A sp : A!FramesOf(sp) = AI!FramesOf(sp)
  BY DEF A!FramesOf, AI!FramesOf
<1>3. \A alg, used, n : A!MemoryAllocation(alg, used, n) = AI!MemoryAllocation(alg, used, n)
  BY DEF A!MemoryAllocation, AI!MemoryAllocation, A!FirstFit, AI!FirstFit, A!BestFit,
         AI!BestFit, A!WorstFit, AI!WorstFit, A!FitLoop, AI!FitLoop, A!Grow, AI!Grow,
         A!NoSpace, AI!NoSpace
<1>4. QED
  BY <1>1, <1>2, <1>3

\* What a step does to memory: nothing, or a process that gets the next PID
\* takes the place that was found, or a process gives its frames back.
SpaceStay == UNCHANGED <<space, MainMemMap>> /\ ProcessId' >= ProcessId

Place(n) == [StartHere |-> AI!MemoryAllocation(MemAll, MainMemMap, n), numPages |-> n]

TakesSpace(p, n) ==
    /\ p > ProcessId /\ ProcessId' = p
    /\ AI!MemoryAllocation(MemAll, MainMemMap, n) # AI!NoSpace
    /\ space' = [space EXCEPT ![p] = Place(n)]
    /\ MainMemMap' = MainMemMap \cup AI!FramesOf(Place(n))

FreesSpace(p) ==
    /\ ProcessId' = ProcessId
    /\ MainMemMap' = MainMemMap \ AI!FramesOf(space[p])
    /\ space' = [space EXCEPT ![p] = NoSpace]

\* The constructor of a new process takes a place or leaves memory alone
\* (AddrSpace::AddrSpace).
LEMMA ConstructorTakes ==
    ASSUME Types, Memory, NEW p \in Pid, NEW n, NewAddrSpace(p, n),
           p > ProcessId, ProcessId' = p
    PROVE  SpaceStay \/ TakesSpace(p, n)
<1>1. space[p] = NoSpace /\ space \in [Pid -> [StartHere : A!Frames, numPages : Sizes] \cup {NoSpace}]
  BY DEF Memory
<1>2. CASE AI!MemoryAllocation(MemAll, MainMemMap, n) # AI!NoSpace
  BY <1>2, SameMemory DEF NewAddrSpace, TakesSpace, Place
<1>3. CASE AI!MemoryAllocation(MemAll, MainMemMap, n) = AI!NoSpace
  <2>1. MainMemMap' = MainMemMap /\ space' = [space EXCEPT ![p] = NoSpace]
    BY <1>3, SameMemory DEF NewAddrSpace
  <2>2. space' = space
    BY <1>1, <2>1
  <2>3. ProcessId' >= ProcessId
    BY Pids DEF Types
  <2>4. QED
    BY <2>1, <2>2, <2>3 DEF SpaceStay
<1>4. QED
  BY <1>2, <1>3

\* Every step leaves memory alone, takes a place or gives one back.
LEMMA EveryStepMemory ==
    ASSUME Types, Memory, Family, Next
    PROVE  \/ SpaceStay
           \/ \E p \in Pid, n \in Sizes : TakesSpace(p, n)
           \/ \E p \in Pid : FreesSpace(p)
<1>0. ProcessId \in Nat
  BY Pids DEF Types
<1>1. ASSUME NEW n \in Sizes, StartProcess(n)
      PROVE  SpaceStay \/ TakesSpace(1, n)
  <2>1. pc[1] = "load" /\ ProcessId' = 1 /\ NewAddrSpace(1, n)
    BY <1>1 DEF StartProcess, At
  <2>2. ProcessId = 0
    BY <2>1, Pids DEF Family, Stages
  <2>3. 1 > ProcessId
    BY <2>2
  <2>4. QED
    BY <2>1, <2>3, ConstructorTakes, Pids
<1>2. ASSUME NEW p \in Pid, NEW n \in Sizes, Exec(p, n)
      PROVE  SpaceStay \/ \E c \in Pid : TakesSpace(c, n)
  <2>1. /\ ProcessId < MaxProc /\ ProcessId' = ProcessId + 1 /\ NewAddrSpace(ProcessId', n)
    BY <1>2 DEF Exec
  <2>2. ProcessId' \in Pid /\ ProcessId' > ProcessId
    BY <1>0, <2>1, Pids DEF Pid
  <2>3. QED
    BY <2>1, <2>2, ConstructorTakes
<1>3. ASSUME NEW p \in Pid, ExecFails(p) PROVE SpaceStay
  BY <1>0, <1>3 DEF ExecFails, SpaceStay
<1>4. ASSUME NEW p \in Pid, ExitWakes(p) PROVE FreesSpace(p)
  BY <1>4, SameMemory DEF ExitWakes, FreeFrames, FreesSpace
<1>5. ASSUME UNCHANGED <<space, MainMemMap, ProcessId>> PROVE SpaceStay
  BY <1>0, <1>5 DEF SpaceStay
<1>6. ASSUME NEW p \in Pid, ProcessStep(p) \/ KernelStep(p)
      PROVE  \/ UNCHANGED <<space, MainMemMap, ProcessId>>
             \/ ExecFails(p) \/ ExitWakes(p) \/ \E n \in Sizes : Exec(p, n)
  BY <1>6 DEF ProcessStep, KernelStep, pvars, Count, Creator, Instruction, ExecFork,
        ExecAppend, JoinReturns, JoinWaits, JoinCrashes, Joined, ExitCrashes, ExitMutex,
        ExitCount, ExitFinish, YieldCall, Halt, Fault, Stop
<1>7. CASE StartProcessNoFile \/ Count(1, "count", "user") \/ Terminated
  BY <1>5, <1>7 DEF StartProcessNoFile, Count, Terminated, vars, pvars
<1>8. QED
  BY <1>1, <1>2, <1>3, <1>4, <1>5, <1>6, <1>7, Pids DEF Next

\* A place that is found is free: nobody's space is there (AddrSpace::AddrSpace).
LEMMA PlaceIsNew ==
    ASSUME Memory, NEW n \in Sizes, AI!MemoryAllocation(MemAll, MainMemMap, n) # AI!NoSpace
    PROVE  /\ Place(n) \in [StartHere : A!Frames, numPages : Sizes]
           /\ Place(n) # NoSpace
           /\ \A q \in Pid : space[q] # Place(n)
<1> DEFINE a == AI!MemoryAllocation(MemAll, MainMemMap, n)
<1>1. n \in Nat \ {0} /\ MemAll \in {"FirstFit", "BestFit", "WorstFit"}
  BY ProcessAssumption
<1>2. MainMemMap \in SUBSET AI!Frames /\ AI!FramesOwned
  BY DEF Memory, AI!Inv, AI!Memory
<1>3. a \in AI!Frames /\ a + n <= NumPhysPages /\ AI!Free(MainMemMap, a, a + n - 1)
  BY <1>1, <1>2, AI!PlaceFound, ProcessMemory
<1>4. a \in Nat
  BY <1>3, ProcessAssumption DEF AI!Frames
<1> HIDE DEF a
<1>5. a \in a..(a + n - 1)
  BY <1>1, <1>4
<1>6. Place(n) = [StartHere |-> a, numPages |-> n]
  BY DEF a, Place
<1>7. a \in AI!FramesOf(Place(n)) /\ a \notin MainMemMap
  BY <1>1, <1>3, <1>4, <1>5, <1>6, AI!FramesOfInterval, ProcessMemory DEF AI!Free
<1>8. Place(n) \in [StartHere : A!Frames, numPages : Sizes]
  BY <1>3, <1>6, SameMemory
<1>9. Place(n) # NoSpace
  <2>1. Place(n).StartHere = a /\ NoSpace.StartHere = -1
    BY <1>6 DEF NoSpace
  <2>2. QED
    BY <1>4, <2>1
<1>10. ASSUME NEW q \in Pid, space[q] = Place(n) PROVE FALSE
  <2>1. Place(n) \in Spaces
    BY <1>9, <1>10 DEF Spaces
  <2>2. AI!FramesOf(Place(n)) \subseteq MainMemMap
    BY <1>2, <2>1 DEF AI!FramesOwned
  <2>3. QED
    BY <1>7, <2>2
<1>11. QED
  BY <1>8, <1>9, <1>10

\* There are at most as many address spaces as PIDs handed out.
LEMMA FewSpaces ==
    ASSUME Memory, ProcessId \in Nat, ProcessId < MaxProc
    PROVE  Cardinality(Spaces) < MaxProc
<1> DEFINE D == {q \in Pid : space[q] # NoSpace}
           f == [q \in D |-> space[q]]
<1>1. D \subseteq 1..ProcessId
  BY Pids DEF Memory, Pid
<1>2. IsFiniteSet(1..ProcessId) /\ Cardinality(1..ProcessId) = ProcessId
  BY FS_Interval
<1>3. IsFiniteSet(D) /\ Cardinality(D) <= ProcessId
  BY <1>1, <1>2, FS_Subset
<1>4. f \in Surjection(D, Spaces)
  BY DEF Surjection, Spaces
<1>5. IsFiniteSet(Spaces) /\ Cardinality(Spaces) <= Cardinality(D)
  BY <1>3, <1>4, FS_Surjection
<1>6. Cardinality(Spaces) \in Nat /\ Cardinality(D) \in Nat
  BY <1>3, <1>5, FS_CardinalityType
<1>7. MaxProc \in Nat
  BY Pids
<1> HIDE DEF D
<1>8. QED
  BY <1>3, <1>5, <1>6, <1>7

\* Exec takes frames as NewAddrSpace of module AddrSpace does.
LEMMA TakingIsNewAddrSpace ==
    ASSUME Types, Memory, NEW p \in Pid, NEW n \in Sizes, TakesSpace(p, n), ProcessId' \in 0..MaxProc
    PROVE  Memory' /\ AI!NewAddrSpace(n)
<1>1. space \in [Pid -> [StartHere : A!Frames, numPages : Sizes] \cup {NoSpace}]
  BY DEF Memory
<1>2. /\ Place(n) \in [StartHere : A!Frames, numPages : Sizes] /\ Place(n) # NoSpace
      /\ \A q \in Pid : space[q] # Place(n)
  BY PlaceIsNew DEF TakesSpace
<1>3. ProcessId \in Nat /\ ProcessId < MaxProc /\ p > ProcessId /\ ProcessId' = p
  BY Pids DEF Types, TakesSpace, Pid
<1>4. /\ space[p] = NoSpace
      /\ \A q \in Pid : space'[q] = IF q = p THEN Place(n) ELSE space[q]
  BY <1>1, <1>3 DEF TakesSpace, Memory
<1>5. Spaces' = Spaces \cup {Place(n)}
  <2>1. ASSUME NEW s, s \in Spaces' PROVE s \in Spaces \cup {Place(n)}
    BY <1>4, <2>1 DEF Spaces
  <2>2. ASSUME NEW s, s \in Spaces PROVE s \in Spaces'
    BY <1>4, <2>2 DEF Spaces
  <2>3. Place(n) \in Spaces'
    BY <1>2, <1>4 DEF Spaces
  <2>4. QED
    BY <2>1, <2>2, <2>3
<1>6. AI!NewAddrSpace(n)
  <2>1. Cardinality(Spaces) < MaxProc
    BY <1>3, FewSpaces
  <2>2. AI!MemoryAllocation(MemAll, MainMemMap, n) # AI!NoSpace
    BY DEF TakesSpace
  <2>3. MainMemMap' = MainMemMap \cup AI!FramesOf(Place(n))
    BY DEF TakesSpace
  <2>4. AI!Cardinality(Spaces) = Cardinality(Spaces)
    BY DEF AI!Cardinality, Cardinality
  <2>5. AI!Cardinality(Spaces) < MaxProc
    BY <2>1, <2>4
  <2>6. QED
    BY <1>5, <2>2, <2>3, <2>5, Zenon DEF AI!NewAddrSpace, Place
<1>7. AI!Inv'
  BY <1>6, AI!NewAddrSpaceKeepsInv, ProcessMemory, ProcessAssumption DEF Memory
<1>8. space' \in [Pid -> [StartHere : A!Frames, numPages : Sizes] \cup {NoSpace}]
  BY <1>1, <1>2 DEF TakesSpace
<1>9. \A q, r \in Pid : space'[q] = space'[r] /\ space'[q] # NoSpace => q = r
  BY <1>2, <1>4 DEF Memory
<1>10. \A q \in Pid : q > ProcessId' => space'[q] = NoSpace
  BY <1>3, <1>4, Pids DEF Memory
<1>11. Memory'
  BY <1>7, <1>8, <1>9, <1>10 DEF Memory, A!Frames
<1>12. QED
  BY <1>6, <1>11

\* Exit gives back the frames of its own address space, if there is one.
LEMMA FreeingIsDelete ==
    ASSUME Types, Memory, NEW p \in Pid, FreesSpace(p)
    PROVE  /\ Memory'
           /\ \/ UNCHANGED <<MainMemMap, Spaces>>
              \/ space[p] \in Spaces /\ AI!DeleteAddrSpace(space[p])
<1>1. /\ space \in [Pid -> [StartHere : A!Frames, numPages : Sizes] \cup {NoSpace}]
      /\ ProcessId' = ProcessId
  BY DEF Memory, FreesSpace
<1>2. \A q \in Pid : space'[q] = IF q = p THEN NoSpace ELSE space[q]
  BY <1>1 DEF FreesSpace
<1>3. /\ space' \in [Pid -> [StartHere : A!Frames, numPages : Sizes] \cup {NoSpace}]
      /\ \A q, r \in Pid : space'[q] = space'[r] /\ space'[q] # NoSpace => q = r
      /\ \A q \in Pid : q > ProcessId' => space'[q] = NoSpace
  <2>1. space' \in [Pid -> [StartHere : A!Frames, numPages : Sizes] \cup {NoSpace}]
    BY <1>1 DEF FreesSpace
  <2>2. QED
    BY <1>1, <1>2, <2>1 DEF Memory
<1>4. CASE space[p] = NoSpace
  <2>1. space' = space
    BY <1>1, <1>4 DEF FreesSpace
  <2>2. AI!FramesOf(NoSpace) = {}
    BY DEF AI!FramesOf, NoSpace
  <2>3. MainMemMap' = MainMemMap
    BY <1>4, <2>2 DEF FreesSpace
  <2>4. Spaces' = Spaces
    BY <2>1 DEF Spaces
  <2>5. AI!Inv'
    BY <2>3, <2>4 DEF Memory, AI!Inv, AI!Memory, AI!FramesOwned, AI!FramesOf
  <2>6. QED
    BY <1>3, <2>3, <2>4, <2>5 DEF Memory, A!Frames
<1>5. CASE space[p] # NoSpace
  <2>1. space[p] \in Spaces
    BY <1>5 DEF Spaces
  <2>2. Spaces' = Spaces \ {space[p]}
    <3>1. ASSUME NEW s, s \in Spaces' PROVE s \in Spaces \ {space[p]}
      BY <1>2, <1>5, <3>1 DEF Spaces, Memory
    <3>2. ASSUME NEW s, s \in Spaces, s # space[p] PROVE s \in Spaces'
      BY <1>2, <3>2 DEF Spaces
    <3>3. QED
      BY <3>1, <3>2
  <2>3. AI!DeleteAddrSpace(space[p])
    BY <2>2 DEF AI!DeleteAddrSpace, FreesSpace
  <2>4. AI!Inv'
    BY <2>1, <2>3, AI!DeleteAddrSpaceKeepsInv, ProcessMemory DEF Memory
  <2>5. QED
    BY <1>3, <2>1, <2>3, <2>4 DEF Memory, A!Frames
<1>6. QED
  BY <1>4, <1>5

\* Every step keeps the frames in order, and is one that module AddrSpace
\* describes or leaves memory alone.
LEMMA MemoryNext ==
    ASSUME Types, Memory, Family, Next, ProcessId' \in 0..MaxProc
    PROVE  /\ Memory'
           /\ \/ UNCHANGED <<MainMemMap, Spaces>>
              \/ \E n \in Sizes : AI!NewAddrSpace(n)
              \/ \E s \in Spaces : AI!DeleteAddrSpace(s)
<1>1. CASE SpaceStay
  <2>1. ProcessId' >= ProcessId /\ space' = space /\ MainMemMap' = MainMemMap
    BY <1>1 DEF SpaceStay
  <2>2. Spaces' = Spaces
    BY <2>1 DEF Spaces
  <2>3. AI!Inv'
    BY <2>1, <2>2 DEF Memory, AI!Inv, AI!Memory, AI!FramesOwned, AI!FramesOf
  <2>4. \A q \in Pid : q > ProcessId' => q > ProcessId
    BY <2>1, Pids DEF Types
  <2>5. Memory'
    BY <2>1, <2>3, <2>4 DEF Memory, A!Frames
  <2>6. QED
    BY <2>1, <2>2, <2>5
<1>2. QED
  BY <1>1, EveryStepMemory, TakingIsNewAddrSpace, FreeingIsDelete

-----------------------------------------------------------------------------
(***************************************************************************)
(* Theorems with and without the timer                                     *)
(***************************************************************************)

\* A process is a client of the kernel.
LEMMA ProcessClient ==
    ASSUME Types, Family, Next
    PROVE  [KI!ClientNext]_(KI!kvars)
<1>1. ASSUME NEW t \in Pid,
             \/ \E s \in Semaphores : K!P(t, s) \/ K!V(t, s)
             \/ K!Yield(t) \/ K!Finish(t) \/ K!UserTick(t) \/ K!KernelStep(t)
             \/ \E u \in Pid : K!Fork(t, u)
      PROVE  KI!ClientNext
  BY <1>1, ProcessCalls DEF KI!ClientNext, KI!Call
<1>2. CASE UNCHANGED kvars
  BY <1>2 DEF kvars, KI!kvars
<1>3. CASE StartProcessNoFile \/ (\E n \in Sizes : StartProcess(n)) \/ Count(1, "count", "user")
  BY <1>1, <1>3, Pids, SemaphoreNames DEF StartProcessNoFile, StartProcess, Count
<1>4. ASSUME NEW p \in Pid, ProcessStep(p) PROVE KI!ClientNext \/ UNCHANGED kvars
  <2>1. CASE Count(p, "execCount", "execFork") \/ Creator(p) \/ Instruction(p) \/ ExecFails(p)
    BY <1>1, <2>1, SemaphoreNames DEF Count, Creator, Instruction, ExecFails
  <2>2. ASSUME NEW n \in Sizes, Exec(p, n) PROVE KI!ClientNext
    BY <1>1, <2>2, SemaphoreNames DEF Exec
  <2>3. CASE ExecFork(p) \/ ExecAppend(p)
    <3>1. pc[p] = "execFork" => arg[p] \in Pid
      BY DEF Family, Making
    <3>2. QED
      BY <1>1, <2>3, <3>1 DEF ExecFork, ExecAppend, At
  <2>4. ASSUME NEW c \in MayJoin(p), JoinReturns(p, c) \/ JoinWaits(p, c) \/ JoinCrashes(p, c)
        PROVE  KI!ClientNext \/ UNCHANGED kvars
    <3>1. InPCB(ParentPID[c]) => ParentPID[c] \in Pid
      BY DEF InPCB, Types
    <3>2. QED
      BY <1>1, <2>4, <3>1, SemaphoreNames DEF JoinReturns, JoinWaits, JoinCrashes, Stop
  <2>5. CASE Joined(p) \/ ExitCrashes(p) \/ ExitMutex(p) \/ ExitCount(p) \/ ExitFinish(p)
    BY <1>1, <2>5, SemaphoreNames DEF Joined, ExitCrashes, Stop, ExitMutex, ExitCount, ExitFinish
  <2>6. CASE ExitWakes(p)
    <3>1. PCB' \in Seq(Pid)
      BY <2>6, RemoveLeaves DEF ExitWakes, Types
    <3>2. \A q : (\E k \in 1..Len(PCB') : PCB'[k] = q) => q \in Pid
      BY <3>1
    <3>3. K!P(p, MutexNumProc) \/ \E q \in Pid : K!V(p, ProcessSemaphore(q))
      BY <2>6, <3>2 DEF ExitWakes
    <3>4. QED
      BY <1>1, <3>3, SemaphoreNames
  <2>7. CASE YieldCall(p) \/ Halt(p) \/ Fault(p)
    BY <1>1, <2>7 DEF YieldCall, Halt, Fault, Stop
  <2>8. QED
    BY <1>4, <2>1, <2>2, <2>3, <2>4, <2>5, <2>6, <2>7 DEF ProcessStep
<1>5. ASSUME NEW p \in Pid, KernelStep(p) PROVE KI!ClientNext
  BY <1>1, <1>5 DEF KernelStep
<1>6. CASE Terminated
  BY <1>2, <1>6 DEF Terminated, vars
<1>7. QED
  BY <1>1, <1>2, <1>3, <1>4, <1>5, <1>6 DEF Next, kvars, KI!kvars

\* What holds for every scheduler.
Always ==
    /\ KI!KernelInv /\ Types /\ Family
    /\ LiveIsListed /\ Counting /\ Memory

\* Before the first program there is no process and no memory in use.
LEMMA AlwaysInit == Init => Always
<1> SUFFICES ASSUME Init PROVE Always
  OBVIOUS
<1>1. KI!KernelInv
  BY ProcessCalls, ProcessKernel, KI!KernelInit DEF Init
<1>2. /\ pc = [p \in Pid |-> IF p = 1 THEN "load" ELSE "creator"]
      /\ arg = [p \in Pid |-> 0] /\ r2 = [p \in Pid |-> 0] /\ ParentPID = [p \in Pid |-> 0]
      /\ Valid = [p \in Pid |-> FALSE] /\ space = [p \in Pid |-> NoSpace]
      /\ MainMemMap = {} /\ ProcessId = 0 /\ NumProcess = 0 /\ PCB = << >>
      /\ tailIsNull = FALSE /\ stopped = "no"
  BY DEF Init
<1>3. kpc = [t \in Pid |-> IF t = 1 THEN "body" ELSE "new"]
  BY DEF Init, K!Init
<1>4. \A q : ~InPCB(q)
  BY <1>2 DEF InPCB
<1>5. Types
  <2>1. PCB \in Seq(Pid) /\ K!NoDuplicates(PCB)
    BY <1>2 DEF K!NoDuplicates
  <2>2. pc \in [Pid -> Code] /\ Valid \in [Pid -> BOOLEAN]
    BY <1>2 DEF Code
  <2>3. arg \in [Pid -> Pid \cup {0}] /\ ParentPID \in [Pid -> Pid \cup {0}]
    BY <1>2
  <2>4. r2 \in [Pid -> Pid \cup {-1, 0, SC_Exec, SC_Join}]
    BY <1>2
  <2>5. ProcessId \in 0..MaxProc
    BY <1>2, Pids
  <2>6. tailIsNull \in BOOLEAN
    BY <1>2
  <2>7. QED
    BY <1>2, <2>1, <2>2, <2>3, <2>4, <2>5, <2>6 DEF Types
<1>6. Family
  <2>1. NotYet /\ ListedStarted
    BY <1>2, <1>3, <1>4 DEF NotYet, Fresh, ListedStarted
  <2>2. Stages
    BY <1>2, <1>3 DEF Stages
  <2>3. Parents /\ Making
    BY <1>2 DEF Parents, Making, Makes
  <2>4. QED
    BY <2>1, <2>2, <2>3 DEF Family
<1>7. LiveIsListed
  BY <1>2 DEF LiveIsListed
<1>8. Counting
  <2>1. Counted = {}
    BY <1>2 DEF Counted
  <2>2. QED
    BY <1>2, <2>1, FS_EmptySet DEF Counting
<1>9. Memory
  <2>1. Spaces = {}
    BY <1>2 DEF Spaces
  <2>2. AI!Inv
    BY <1>2, <2>1 DEF AI!Inv, AI!Memory, AI!FramesOwned
  <2>3. QED
    BY <1>2, <2>2 DEF Memory
<1>10. QED
  BY <1>1, <1>5, <1>6, <1>7, <1>8, <1>9 DEF Always

\* Every step keeps it.
LEMMA AlwaysNext == Always /\ [Next]_vars => Always'
<1> SUFFICES ASSUME Always, [Next]_vars PROVE Always'
  OBVIOUS
<1>1. CASE Next
  <2>1. KI!KernelInv'
    BY <1>1, ProcessClient, ProcessKernel, KI!KernelNext DEF Always
  <2>2. Types'
    BY <1>1, EveryStepMoves DEF Always
  <2>3. Family' /\ LiveIsListed' /\ Counting'
    BY <1>1, FamilyNext, ListedNext, CountingNext DEF Always
  <2>4. ProcessId' \in 0..MaxProc
    BY <2>2 DEF Types
  <2>5. Memory'
    BY <1>1, <2>4, MemoryNext DEF Always
  <2>6. QED
    BY <2>1, <2>2, <2>3, <2>5 DEF Always
<1>2. CASE UNCHANGED vars
  <2>1. Terminated \/ UNCHANGED vars
    BY <1>2
  <2>2. UNCHANGED <<kvars, pc, arg, r2, pvars, stopped>>
    BY <1>2 DEF vars
  <2>3. UNCHANGED kvars
    BY <2>2
  <2>4. KI!KernelInv'
    <3>1. UNCHANGED KI!kvars
      BY <2>3 DEF kvars, KI!kvars
    <3>2. QED
      BY <3>1, ProcessKernel, KI!KernelNext DEF Always
  <2>5. Types' /\ Family' /\ LiveIsListed' /\ Counting'
    BY <2>2 DEF kvars, pvars, Always, Types, K!NoDuplicates, Family, NotYet, Fresh, Stages,
       Parents, Making, Makes, ListedStarted, LiveIsListed, Unlisted, Exited, InPCB, Counting, Counted
  <2>6. Memory'
    <3>1. Spaces' = Spaces
      BY <2>2 DEF pvars, Spaces
    <3>2. QED
      BY <2>2, <3>1 DEF pvars, Always, Memory, A!Frames, AI!Inv, AI!Memory, AI!FramesOwned,
         AI!FramesOf
  <2>7. QED
    BY <2>4, <2>5, <2>6 DEF Always
<1>3. QED
  BY <1>1, <1>2

\* In every reachable state, for any number of processes, any size of memory
\* and any scheduler, NumProcess counts the processes between Count and
\* ExitCount, so it is never negative nor more than the PIDs; the PCB holds no
\* process twice, and what processes own lies inside memory (StartProcess,
\* SC_Exec, SC_Exit).
THEOREM ProcessTypes == Spec => []TypeOK
<1>1. ASSUME Always PROVE TypeOK
  <2>1. NumProcess \in 0..MaxProc
    BY <1>1, CountedSize DEF Always, Counting
  <2>2. MainMemMap \subseteq A!Frames
    BY <1>1, SameMemory DEF Always, Memory, AI!Inv, AI!Memory
  <2>3. ASSUME NEW p \in Pid, space[p] # NoSpace
        PROVE  A!FramesOf(space[p]) \subseteq A!Frames
    <3>1. space[p] \in Spaces
      BY <2>3 DEF Spaces
    <3>2. AI!FramesOf(space[p]) \subseteq MainMemMap
      BY <1>1, <3>1 DEF Always, Memory, AI!Inv, AI!FramesOwned
    <3>3. QED
      BY <2>2, <3>2, SameMemory
  <2>4. QED
    BY <1>1, <2>1, <2>2, <2>3 DEF Always, Types, TypeOK
<1>2. QED
  BY <1>1, AlwaysInit, AlwaysNext, PTL DEF Spec

\* A process that runs is in the PCB, or about to be appended by the Exec that
\* made it, until its Exit, whatever the timer does (ProcessList::Append,
\* ProcessList::Remove).
THEOREM LivesInPCB == Spec => []LiveIsListed
<1>1. Always => LiveIsListed
  BY DEF Always
<1>2. QED
  BY <1>1, AlwaysInit, AlwaysNext, PTL DEF Spec

\* Whatever processes do and however they interleave, each Exec and each Exit
\* is a step of physical memory as module AddrSpace describes it, or leaves it
\* alone: a frame is given back once, by the process that owns it
\* (AddrSpace::AddrSpace, ~AddrSpace).
THEOREM ProcessesImplementAddrSpace == Spec => ImplementsAddrSpace
<1>1. Init => A!Init
  <2>1. ASSUME Init PROVE A!Init
    <3>1. Spaces = {}
      BY <2>1 DEF Init, Spaces
    <3>2. MainMemMap = {}
      BY <2>1 DEF Init
    <3>3. QED
      BY <3>1, <3>2 DEF A!Init, Spaces
  <2>2. QED
    BY <2>1
<1>2. Always /\ [Next]_vars => [A!Next]_(A!vars)
  <2> SUFFICES ASSUME Always, [Next]_vars PROVE [A!Next]_(A!vars)
    OBVIOUS
  <2>1. CASE UNCHANGED <<MainMemMap, Spaces>>
    BY <2>1 DEF A!vars, Spaces
  <2>2. ASSUME NEW n \in Sizes, AI!NewAddrSpace(n) PROVE A!NewAddrSpace(n)
    <3>1. A!Cardinality(Spaces) = AI!Cardinality(Spaces)
      BY DEF A!Cardinality, AI!Cardinality
    <3>2. QED
      BY <2>2, <3>1, SameMemory DEF AI!NewAddrSpace, A!NewAddrSpace, Spaces
  <2>3. ASSUME NEW s \in Spaces, AI!DeleteAddrSpace(s) PROVE A!DeleteAddrSpace(s)
    BY <2>3, SameMemory DEF AI!DeleteAddrSpace, A!DeleteAddrSpace, Spaces
  <2>4. CASE Next
    <3>1. ProcessId' \in 0..MaxProc
      BY <2>4, EveryStepMoves DEF Always, Types
    <3>2. QED
      BY <2>1, <2>2, <2>3, <2>4, <3>1, MemoryNext DEF Always, A!Next, Spaces
  <2>5. CASE UNCHANGED vars
    BY <2>1, <2>5 DEF vars, pvars, Spaces
  <2>6. QED
    BY <2>4, <2>5
<1>3. QED
  BY <1>1, <1>2, AlwaysInit, AlwaysNext, PTL DEF Spec, ImplementsAddrSpace, A!Spec

-----------------------------------------------------------------------------
(***************************************************************************)
(* Parents that outlive their children                                     *)
(***************************************************************************)

\* Exited for good: only Exit takes a process there, or a start that fails.
LEMMA ExitedBy ==
    ASSUME Types, NEW p \in Pid, Moves(p), NEW c \in Pid
    PROVE  Exited(c)' <=> \/ Exited(c)
                          \/ c = p /\ \E q \in Pid \cup {0} : Exits(p, q)
                          \/ c = p /\ p = 1 /\ NotStarted
<1>1. pc \in [Pid -> Code]
  BY DEF Types
<1>2. CASE Onward(p) \/ WantsMutex(p) \/ Ends(p) \/ Forks(p) \/ Appends(p)
  <2>1. \E from, to : /\ Goes(p, from, to)
                      /\ <<from, to>> \in {<<"creator", "user">>, <<"joined", "user">>,
                            <<"exitMutex", "exitCount">>, <<"exitFinish", "done">>,
                            <<"execFork", "execAppend">>, <<"execAppend", "user">>}
    BY <1>2 DEF Onward, WantsMutex, Ends, Forks, Appends
  <2>2. ~(\E q : Exits(p, q)) /\ ~(p = 1 /\ NotStarted)
    BY <2>1 DEF Exits, NotStarted, Goes
  <2>3. QED
    BY <1>1, <2>1, <2>2 DEF Goes, Exited
<1>3. CASE CountsOne(p)
  <2>1. \E from, to : /\ Goes(p, from, to)
                      /\ <<from, to>> \in {<<"count", "user">>, <<"execCount", "execFork">>,
                            <<"exitCount", "exitFinish">>}
    BY <1>3 DEF CountsOne
  <2>2. ~(\E q : Exits(p, q)) /\ ~(p = 1 /\ NotStarted)
    BY <2>1 DEF Exits, NotStarted, Goes
  <2>3. QED
    BY <1>1, <2>1, <2>2 DEF Goes, Exited
<1>4. CASE p = 1 /\ Starts
  BY <1>1, <1>4 DEF Starts, NotStarted, Exits, Goes, Exited
<1>5. CASE p = 1 /\ NotStarted
  BY <1>1, <1>5 DEF NotStarted, Goes, Exited
<1>6. ASSUME NEW d \in Pid, Joins(p, d) \/ Execs(p, d)
      PROVE  (Exited(c)' <=> Exited(c)) /\ ~(\E q : Exits(p, q)) /\ ~(p = 1 /\ NotStarted)
  BY <1>1, <1>6 DEF Joins, Execs, Exits, NotStarted, Goes, Exited
<1>7. ASSUME NEW d \in Pid, Refused(p, d) \/ Breaks(p, d)
      PROVE  (Exited(c)' <=> Exited(c)) /\ ~(\E q : Exits(p, q)) /\ ~(p = 1 /\ NotStarted)
  BY <1>1, <1>7 DEF Refused, Breaks, Exits, NotStarted, Goes, Exited
<1>8. ASSUME NEW q \in Pid \cup {0}, Exits(p, q)
      PROVE  Exited(c)' <=> Exited(c) \/ c = p
  BY <1>1, <1>8 DEF Exits, Goes, Exited
<1>9. QED
  BY <1>2, <1>3, <1>4, <1>5, <1>6, <1>7, <1>8 DEF Moves

\* Moves that neither make processes nor take PIDs.
LEMMA FamilyStays ==
    ASSUME NEW p \in Pid, Moves(p)
    PROVE  \/ UNCHANGED <<ParentPID, Valid>>
           \/ p = 1 /\ Starts
           \/ \E c \in Pid : Refused(p, c) \/ Execs(p, c)
BY DEF Moves, Onward, WantsMutex, CountsOne, Ends, Forks, Appends, Joins, Breaks, Exits,
       NotStarted, SameFamily

\* The children of a process that has exited have exited.
LEMMA OrphansNext ==
    ASSUME KI!KernelInv, Types, Family, Orphans, Next
    PROVE  Orphans'
<1>1. /\ ParentPID \in [Pid -> Pid \cup {0}] /\ Valid \in [Pid -> BOOLEAN] /\ pc \in [Pid -> Code]
      /\ Types'
  BY EveryStepMoves DEF Types
<1>2. CASE Quiet
  BY <1>2 DEF Quiet, SameFamily, Orphans, Exited
<1>3. ASSUME NEW p \in Pid, Moves(p), Orderly, NEW c \in Pid, NEW q \in Pid,
             Valid'[c], ParentPID'[c] = q, Exited(q)'
      PROVE  Exited(c)'
  <2>0. q # 0
    BY Pids
  <2>1. CASE UNCHANGED <<ParentPID, Valid>>
    <3>1. ParentPID[c] = q /\ Valid[c]
      BY <1>3, <2>1
    <3>2. CASE Exited(q)
      BY <1>3, <2>0, <3>1, <3>2, ExitedBy DEF Orphans
    <3>3. CASE ~Exited(q) /\ \E r \in Pid \cup {0} : Exits(p, r)
      <4>1. q = p \/ (p = 1 /\ NotStarted)
        BY <1>3, <3>3, ExitedBy
      <4>2. MayExit(p) /\ pc[p] = "user"
        BY <3>3 DEF Exits, Goes
      <4>3. q = p
        BY <4>1, <4>2 DEF NotStarted, Goes
      <4>4. Exited(c)
        BY <1>3, <3>1, <4>2, <4>3 DEF MayExit, Children
      <4>5. QED
        BY <1>3, <4>4, ExitedBy
    <3>4. CASE ~Exited(q) /\ ~\E r \in Pid \cup {0} : Exits(p, r)
      <4>1. q = 1 /\ NotStarted
        BY <1>3, <3>4, ExitedBy
      <4>2. pc[q] # "load"
        BY <2>0, <3>1 DEF Family, Parents
      <4>3. QED
        BY <4>1, <4>2 DEF NotStarted, Goes
    <3>5. QED
      BY <3>2, <3>3, <3>4
  <2>2. CASE p = 1 /\ Starts
    <3>1. ParentPID[c] = q /\ (c # 1 => Valid[c])
      BY <1>1, <1>3, <2>2 DEF Starts
    <3>2. c # 1
      <4>1. q < c
        BY <2>0, <3>1 DEF Family, Parents
      <4>2. QED
        BY <4>1, Pids DEF Pid
    <3>3. pc'[1] = "count" /\ pc[1] = "load" /\ \A x \in Pid : x # 1 => pc'[x] = pc[x]
      BY <1>1, <2>2, Pids DEF Starts, Goes
    <3>4. Exited(q)
      BY <1>3, <3>3 DEF Exited
    <3>5. Exited(c)
      BY <1>3, <2>0, <3>1, <3>2, <3>4 DEF Orphans
    <3>6. QED
      BY <3>2, <3>3, <3>5 DEF Exited
  <2>3. ASSUME NEW d \in Pid, Refused(p, d) PROVE Exited(c)'
    <3>1. kpc[p] # "new" /\ pc[p] = "user" /\ d = ProcessId + 1 /\ Valid' = Valid /\ pc' = pc
      BY <1>3, <2>3 DEF Moves, Runs, Refused
    <3>2. ~Valid[d]
      BY <3>1, NewPid DEF Fresh
    <3>3. ParentPID[c] = q /\ Valid[c]
      BY <1>1, <1>3, <2>3, <3>1, <3>2 DEF Refused
    <3>4. Exited(q) /\ (Exited(c) => Exited(c)')
      BY <1>3, <3>1 DEF Exited
    <3>5. QED
      BY <1>3, <2>0, <3>3, <3>4 DEF Orphans
  <2>4. ASSUME NEW d \in Pid, Execs(p, d) PROVE Exited(c)'
    <3>1. /\ pc'[p] = "execCount" /\ pc[p] = "user" /\ \A x \in Pid : x # p => pc'[x] = pc[x]
          /\ \A x \in Pid : x # d => Valid'[x] = Valid[x] /\ ParentPID'[x] = ParentPID[x]
          /\ ParentPID'[d] = p
      BY <1>1, <2>4 DEF Execs, Goes
    <3>2. q # p
      BY <1>3, <3>1 DEF Exited
    <3>3. ParentPID[c] = q /\ Valid[c]
      BY <1>3, <3>1, <3>2
    <3>4. Exited(q)
      BY <1>3, <3>1, <3>2 DEF Exited
    <3>5. Exited(c)
      BY <1>3, <2>0, <3>3, <3>4 DEF Orphans
    <3>6. QED
      BY <3>1, <3>5 DEF Exited
  <2>5. QED
    BY <1>3, <2>1, <2>2, <2>3, <2>4, FamilyStays
<1>4. ASSUME NEW p \in Pid, Moves(p) PROVE Orphans'
  <2> SUFFICES ASSUME Orderly, NEW c \in Pid, Valid'[c], ParentPID'[c] # 0, Exited(ParentPID[c])'
               PROVE  Exited(c)'
    BY DEF Orphans
  <2>1. ParentPID'[c] \in Pid
    BY <1>1 DEF Types
  <2>2. PICK q \in Pid : q = ParentPID'[c]
    BY <2>1
  <2>3. Exited(q)'
    BY <2>2 DEF Exited
  <2>4. QED
    BY <1>3, <1>4, <2>2, <2>3
<1>5. QED
  BY <1>2, <1>4, EveryStepMoves

-----------------------------------------------------------------------------
(***************************************************************************)
(* Without the timer: nobody runs between the Fork and the Append of an    *)
(* Exec                                                                    *)
(***************************************************************************)

\* Who makes a step that is no move.
LEMMA QuietBy ==
    ASSUME KI!KernelInv, Types, Family, Next
    PROVE  \/ \E p \in Pid : Moves(p)
           \/ /\ Quiet
              /\ \/ UNCHANGED kvars
                 \/ \E t \in Pid : K!KernelStep(t)
                 \/ \E t \in Pid : Runs(t) /\ pc[t] = "user"
<1>1. CASE StartProcessNoFile \/ (\E n \in Sizes : StartProcess(n)) \/ Count(1, "count", "user")
  BY <1>1, StartMoves, CountMoves, Pids
<1>2. ASSUME NEW p \in Pid,
             \/ Instruction(p) \/ YieldCall(p) \/ Halt(p) \/ Fault(p) \/ KernelStep(p)
             \/ ExitCrashes(p) \/ \E c \in MayJoin(p) : JoinReturns(p, c)
      PROVE  /\ Quiet
             /\ K!KernelStep(p) \/ (Runs(p) /\ pc[p] = "user")
  <2>1. Quiet
    BY <1>2, QuietMoves
  <2>2. K!AtBody(p) => Runs(p)
    BY ProcessEffects DEF Runs
  <2>3. (K!Yield(p) \/ K!UserTick(p)) => K!AtBody(p)
    BY DEF K!Yield, K!UserTick
  <2>4. K!KernelStep(p) \/ (K!AtBody(p) /\ pc[p] = "user")
    BY <1>2, <2>3 DEF Instruction, YieldCall, Halt, Fault, Stop, KernelStep, ExitCrashes,
       JoinReturns, At
  <2>5. QED
    BY <2>1, <2>2, <2>4
<1>3. ASSUME NEW p \in Pid, ProcessStep(p) \/ KernelStep(p)
      PROVE  \/ Moves(p)
             \/ /\ Quiet
                /\ K!KernelStep(p) \/ (Runs(p) /\ pc[p] = "user")
  BY <1>2, <1>3, CallMoves, CountMoves, ExecMoves, JoinMoves, BreakMoves, ExitMoves
     DEF ProcessStep
<1>4. CASE Terminated
  <2>1. UNCHANGED kvars
    BY <1>4 DEF Terminated, vars
  <2>2. Quiet
    BY <1>4, SameList DEF Terminated, vars, Quiet, Rest, pvars, SameFamily, kvars, NewStay,
       FinishStay, SemStay
  <2>3. QED
    BY <2>1, <2>2
<1>5. QED
  BY <1>1, <1>3, <1>4 DEF Next

\* Without the timer a thread that runs its own code keeps the CPU
\* (Interrupt::OneTick).
LEMMA KeepsCpu ==
    ASSUME KI!KernelInv, ~TimeSlice, NEW t \in Pid, NEW p \in Pid, K!KernelStep(t),
           currentThread = p, kpc[p] \in {"enable", "body"}
    PROVE  currentThread' = p /\ kpc'[p] \in {"enable", "body"}
<1>1. kpc \in [Pid -> KI!Place]
  BY DEF KI!KernelInv, KI!PlaceInv, KI!TypeOK
<1>2. status[p] = "RUNNING"
  BY ProcessKernel, KI!CurrentRuns DEF KI!KernelInv
<1>3. CASE K!Enable(t)
  BY <1>1, <1>3 DEF K!Enable, K!AtTick
<1>4. ~K!TimerYield(t)
  BY DEF K!TimerYield
<1>5. ~K!SleepSwitch(t) /\ ~K!IdleHalt(t)
  BY <1>2 DEF K!SleepSwitch, K!IdleHalt, K!Sleeping
<1>6. ~K!PResume(t)
  BY DEF K!PResume
<1>7. QED
  BY <1>3, <1>4, <1>5, <1>6 DEF K!KernelStep

\* No other process runs while one is in its Exec after the Fork.
LEMMA AppendingNext ==
    ASSUME KI!KernelInv, Types, Family, Appending, ~TimeSlice, Next
    PROVE  Appending'
<1>1. pc \in [Pid -> Code] /\ arg \in [Pid -> Pid \cup {0}]
  BY DEF Types
<1>2. ASSUME NEW p \in Pid, Moves(p) PROVE Appending'
  <2>0. Runs(p)
    BY <1>2 DEF Moves
  <2>1. \A x \in Pid : pc[x] = "execAppend" => x = p
    BY <2>0 DEF Appending, Runs
  <2>2. CASE Forks(p)
    <3>1. /\ \A x \in Pid : pc'[x] = IF x = p THEN "execAppend" ELSE pc[x]
          /\ arg' = arg /\ currentThread' = p /\ kpc'[p] = "enable" /\ pc[p] = "execFork"
      BY <1>1, <2>2 DEF Forks, Goes
    <3>2. arg[p] \in Pid /\ kpc[arg[p]] = "new"
      BY <3>1 DEF Family, Making, Makes
    <3>3. pc[arg[p]] = "creator" /\ arg[p] # p
      BY <3>1, <3>2 DEF Family, Stages
    <3>4. QED
      BY <2>1, <3>1, <3>2, <3>3 DEF Appending
  <2>3. CASE ~Forks(p)
    <3>1. \A x \in Pid : pc'[x] # "execAppend"
      <4>1. pc'[p] # "execAppend" /\ \A x \in Pid : x # p => pc'[x] = pc[x]
        <5>1. CASE Onward(p) \/ WantsMutex(p) \/ CountsOne(p) \/ Ends(p) \/ Appends(p)
          BY <1>1, <5>1 DEF Onward, WantsMutex, CountsOne, Ends, Appends, Goes
        <5>2. CASE p = 1 /\ (Starts \/ NotStarted)
          BY <1>1, <5>2 DEF Starts, NotStarted, Goes
        <5>3. ASSUME NEW c \in Pid, Joins(p, c) \/ Breaks(p, c) \/ Execs(p, c) \/ Refused(p, c)
              PROVE  pc'[p] # "execAppend" /\ \A x \in Pid : x # p => pc'[x] = pc[x]
          BY <1>1, <5>3 DEF Joins, Breaks, Execs, Refused, Goes
        <5>4. ASSUME NEW q \in Pid \cup {0}, Exits(p, q)
              PROVE  pc'[p] # "execAppend" /\ \A x \in Pid : x # p => pc'[x] = pc[x]
          BY <1>1, <5>4 DEF Exits, Goes
        <5>5. QED
          BY <1>2, <2>3, <5>1, <5>2, <5>3, <5>4 DEF Moves
      <4>2. QED
        BY <2>1, <4>1
    <3>2. QED
      BY <3>1 DEF Appending
  <2>4. QED
    BY <2>2, <2>3
<1>3. CASE Quiet /\ UNCHANGED kvars
  BY <1>3 DEF Quiet, Rest, kvars, Appending
<1>4. ASSUME Quiet, NEW t \in Pid, K!KernelStep(t) PROVE Appending'
  BY <1>4, KeepsCpu DEF Quiet, Rest, Appending
<1>5. ASSUME Quiet, NEW t \in Pid, Runs(t), pc[t] = "user" PROVE Appending'
  <2>1. \A x \in Pid : pc[x] # "execAppend"
    BY <1>5 DEF Appending, Runs
  <2>2. QED
    BY <1>5, <2>1 DEF Quiet, Appending
<1>6. QED
  BY <1>2, <1>3, <1>4, <1>5, QuietBy

\* A process that exits is taken off the list, and one that enters it has not
\* exited.
LEMMA NoneDeadNext ==
    ASSUME KI!KernelInv, Types, Family, Appending, NoneDead, Next
    PROVE  NoneDead'
<1>1. /\ pc \in [Pid -> Code] /\ Valid \in [Pid -> BOOLEAN]
  BY DEF Types
<1>2. CASE Quiet
  BY <1>2 DEF Quiet, SameFamily, ListStay, NoneDead, Exited
<1>3. ASSUME NEW p \in Pid, Moves(p), NEW c \in Pid, InPCB(c)', Valid'[c], Exited(c)'
      PROVE  FALSE
  <2>0. Runs(p)
    BY <1>3 DEF Moves
  <2>1. ASSUME NEW q \in Pid \cup {0}, Exits(p, q) PROVE FALSE
    <3>1. c # p /\ InPCB(c) /\ Valid[c]
      BY <1>3, <2>1 DEF Exits, Leaves
    <3>2. Exited(c)
      BY <1>3, <2>1, <3>1, ExitedBy DEF Exits, NotStarted, Goes
    <3>3. QED
      BY <3>1, <3>2 DEF NoneDead
  <2>2. CASE p = 1 /\ NotStarted
    <3>1. InPCB(c) /\ Valid[c]
      BY <1>3, <2>2 DEF NotStarted, ListStay
    <3>2. pc[1] = "load"
      BY <2>2 DEF NotStarted, Goes
    <3>3. c # 1
      BY <3>1, <3>2, Pids DEF Family, Stages, NotYet
    <3>4. ~\E q \in Pid \cup {0} : Exits(p, q)
      BY <2>1
    <3>5. Exited(c)
      BY <1>3, <2>2, <3>3, <3>4, ExitedBy
    <3>6. QED
      BY <3>1, <3>5 DEF NoneDead
  <2>3. CASE ~(p = 1 /\ NotStarted)
    <3>1. ~\E q \in Pid \cup {0} : Exits(p, q)
      BY <2>1
    <3>2. Exited(c)
      BY <1>3, <2>3, <3>1, ExitedBy
    <3>3. ~(InPCB(c) /\ Valid[c])
      BY <3>2 DEF NoneDead
    <3>4. CASE Appends(p)
      <4>1. pc[p] = "execAppend" /\ Valid' = Valid /\ (InPCB(c)' <=> InPCB(c) \/ c = arg[p])
        BY <3>4 DEF Appends, Goes, Enters
      <4>2. c = arg[p]
        BY <1>3, <3>3, <4>1
      <4>3. pc[c] = "creator"
        BY <4>1, <4>2 DEF Appending
      <4>4. QED
        BY <3>2, <4>3 DEF Exited
    <3>5. CASE p = 1 /\ Starts
      <4>1. c # 1 => Valid'[c] = Valid[c] /\ (InPCB(c)' <=> InPCB(c))
        BY <1>1, <3>5 DEF Starts, Enters
      <4>2. pc[1] = "load"
        BY <3>5 DEF Starts, Goes
      <4>3. QED
        BY <1>3, <3>2, <3>3, <4>1, <4>2 DEF Exited
    <3>6. ASSUME NEW d \in Pid, Refused(p, d) PROVE FALSE
      <4>1. /\ pc[p] = "user" /\ d = ProcessId + 1 /\ Valid' = Valid
            /\ InPCB(c)' => InPCB(c) \/ c = d
        BY <3>6 DEF Refused, ListStay, Enters
      <4>2. ~Valid[d]
        BY <2>0, <4>1, NewPid DEF Fresh, Runs
      <4>3. QED
        BY <1>3, <3>3, <4>1, <4>2
    <3>7. ASSUME NEW d \in Pid, Execs(p, d) PROVE FALSE
      <4>1. /\ pc[p] = "user" /\ d = ProcessId + 1 /\ kpc[p] # "new"
            /\ c # d => Valid'[c] = Valid[c]
            /\ InPCB(c)' <=> InPCB(c)
        BY <1>1, <2>0, <3>7 DEF Execs, ListStay, Goes, Runs
      <4>2. ~InPCB(d)
        BY <4>1, NewPid DEF Fresh
      <4>3. QED
        BY <1>3, <3>3, <4>1, <4>2
    <3>8. CASE \/ Onward(p) \/ WantsMutex(p) \/ CountsOne(p) \/ Ends(p) \/ Forks(p)
               \/ \E d \in Pid : Joins(p, d) \/ Breaks(p, d)
      <4>1. Valid' = Valid /\ (InPCB(c)' <=> InPCB(c))
        BY <3>8 DEF Onward, WantsMutex, CountsOne, Ends, Forks, Joins, Breaks, SameFamily, ListStay
      <4>2. QED
        BY <1>3, <3>3, <4>1
    <3>9. QED
      BY <1>3, <2>1, <2>3, <3>4, <3>5, <3>6, <3>7, <3>8 DEF Moves
  <2>4. QED
    BY <2>2, <2>3
<1>4. QED
  BY <1>2, <1>3, EveryStepMoves DEF NoneDead

-----------------------------------------------------------------------------
(***************************************************************************)
(* Who waits for what                                                      *)
(***************************************************************************)
MutexPlaces == {"count", "execCount", "exitCount"}

\* A move is the business of one process; who is between P and V of
\* MutexNumProc counts next; nobody becomes new.
LEMMA MoveFacts ==
    ASSUME Types, NEW p \in Pid, Moves(p)
    PROVE  /\ \A x \in Pid : x # p => pc'[x] = pc[x] /\ arg'[x] = arg[x]
           /\ pc[p] \in MutexPlaces => CountsOne(p)
           /\ \A x \in Pid : kpc'[x] = "new" => kpc[x] = "new"
           /\ waitsOn[p] = <<"none", 0>> /\ kpc[p] = "body" /\ currentThread = p
<1>1. pc \in [Pid -> Code] /\ arg \in [Pid -> Pid \cup {0}]
  BY DEF Types
<1>2. waitsOn[p] = <<"none", 0>> /\ kpc[p] = "body" /\ currentThread = p
  BY DEF Moves, Runs
<1> DEFINE Others == \A x \in Pid : x # p => pc'[x] = pc[x] /\ arg'[x] = arg[x]
           Shrinks == \A x \in Pid : kpc'[x] = "new" => kpc[x] = "new"
<1>3. ASSUME Onward(p) \/ WantsMutex(p) \/ Ends(p) \/ Forks(p) \/ Appends(p)
      PROVE  Others /\ Shrinks /\ (pc[p] \in MutexPlaces => CountsOne(p))
  <2>1. Others /\ Shrinks
    BY <1>1, <1>3 DEF Onward, WantsMutex, Ends, Forks, Appends, Goes, Rest, NewStay
  <2>2. pc[p] \notin MutexPlaces
    BY <1>3 DEF Onward, WantsMutex, Ends, Forks, Appends, Goes, MutexPlaces
  <2>3. QED
    BY <1>2, <2>1, <2>2
<1>4. ASSUME CountsOne(p)
      PROVE  Others /\ Shrinks /\ (pc[p] \in MutexPlaces => CountsOne(p))
  <2>1. Others /\ Shrinks
    BY <1>1, <1>4 DEF CountsOne, Goes, NewStay
  <2>2. QED
    BY <1>2, <1>4, <2>1
<1>5. ASSUME p = 1 /\ (Starts \/ NotStarted)
      PROVE  Others /\ Shrinks /\ (pc[p] \in MutexPlaces => CountsOne(p))
  <2>1. Others /\ Shrinks
    BY <1>1, <1>5 DEF Starts, NotStarted, Goes, Rest, NewStay
  <2>2. pc[p] \notin MutexPlaces
    BY <1>5 DEF Starts, NotStarted, Goes, MutexPlaces
  <2>3. QED
    BY <1>2, <2>1, <2>2
<1>6. ASSUME NEW c \in Pid, Joins(p, c) \/ Breaks(p, c) \/ Refused(p, c) \/ Execs(p, c)
      PROVE  Others /\ Shrinks /\ pc[p] \notin MutexPlaces
  BY <1>1, <1>6 DEF Joins, Breaks, Refused, Execs, Goes, Rest, NewStay, MutexPlaces
<1>7. ASSUME NEW q \in Pid \cup {0}, Exits(p, q)
      PROVE  Others /\ Shrinks /\ pc[p] \notin MutexPlaces
  BY <1>1, <1>7 DEF Exits, Goes, Rest, NewStay, MutexPlaces
<1> HIDE DEF Others, Shrinks
<1>8. Others /\ Shrinks /\ (pc[p] \in MutexPlaces => CountsOne(p))
  BY <1>3, <1>4, <1>5, <1>6, <1>7, <1>2 DEF Moves
<1>9. QED
  BY <1>2, <1>8 DEF Others, Shrinks

\* What a move does to the semaphores.
LEMMA SemMoves ==
    ASSUME Types, NEW p \in Pid, Moves(p)
    PROVE  \/ SemStay
           \/ CountsOne(p) /\ Give(MutexNumProc)
           \/ \E q \in Pid : Exits(p, q) /\ Give(ProcessSemaphore(q))
           \/ /\ TakeOrWait(p, MutexNumProc)
              /\ pc[p] \notin MutexPlaces /\ pc'[p] \in MutexPlaces
           \/ \E c \in Pid : Joins(p, c)
<1>1. pc \in [Pid -> Code]
  BY DEF Types
<1>2. CASE Onward(p) \/ Ends(p) \/ Forks(p) \/ Appends(p)
  BY <1>2 DEF Onward, Ends, Forks, Appends
<1>3. CASE WantsMutex(p) \/ (p = 1 /\ Starts)
  BY <1>1, <1>3 DEF WantsMutex, Starts, Goes, MutexPlaces
<1>4. CASE CountsOne(p)
  BY <1>4 DEF CountsOne
<1>5. CASE p = 1 /\ NotStarted
  BY <1>5 DEF NotStarted
<1>6. ASSUME NEW c \in Pid, Refused(p, c) \/ Breaks(p, c) PROVE SemStay
  BY <1>6 DEF Refused, Breaks
<1>7. ASSUME NEW c \in Pid, Execs(p, c)
      PROVE  /\ TakeOrWait(p, MutexNumProc)
             /\ pc[p] \notin MutexPlaces /\ pc'[p] \in MutexPlaces
  BY <1>1, <1>7 DEF Execs, Goes, MutexPlaces
<1>8. ASSUME NEW q \in Pid \cup {0}, Exits(p, q)
      PROVE  \/ q \in Pid /\ Give(ProcessSemaphore(q))
             \/ /\ TakeOrWait(p, MutexNumProc)
                /\ pc[p] \notin MutexPlaces /\ pc'[p] \in MutexPlaces
  BY <1>1, <1>8 DEF Exits, Goes, MutexPlaces
<1>9. QED
  BY <1>2, <1>3, <1>4, <1>5, <1>6, <1>7, <1>8 DEF Moves

\* The parent of a process is its parent for ever.
LEMMA ParentStays ==
    ASSUME Types, Family, NEW p \in Pid, Moves(p), NEW c \in Pid, ParentPID[c] # 0
    PROVE  ParentPID'[c] = ParentPID[c]
<1>1. ParentPID \in [Pid -> Pid \cup {0}] /\ kpc[p] # "new"
  BY DEF Types, Moves, Runs
<1>2. CASE UNCHANGED ParentPID
  BY <1>2
<1>3. ASSUME NEW d \in Pid, Refused(p, d) \/ Execs(p, d)
      PROVE  ParentPID'[c] = ParentPID[c]
  <2>1. /\ pc[p] = "user" /\ d = ProcessId + 1
        /\ ParentPID' = ParentPID \/ ParentPID' = [ParentPID EXCEPT ![d] = p]
    BY <1>3 DEF Refused, Execs, Goes
  <2>2. ParentPID[d] = 0
    BY <1>1, <2>1, NewPid DEF Fresh
  <2>3. QED
    BY <1>1, <2>1, <2>2
<1>4. QED
  BY <1>2, <1>3, FamilyStays DEF Starts

\* The types of the semaphores.
LEMMA ProcessWaits ==
    ASSUME KI!KernelInv
    PROVE  /\ value \in [Semaphores -> Nat]
           /\ waitsOn \in [Pid -> Semaphores \cup {<<"none", 0>>}]
BY DEF KI!KernelInv, KI!PlaceInv, KI!TypeOK

\* A wait in a Join is for a child that has a parent.
LEMMA JoinedParent ==
    ASSUME KI!KernelInv, Types, Waiting, NEW x \in Pid, waitsOn[x] # <<"none", 0>>,
           waitsOn[x] # MutexNumProc
    PROVE  /\ pc[x] = "joined" /\ arg[x] \in Pid /\ ParentPID[arg[x]] \in Pid
           /\ waitsOn[x] = ProcessSemaphore(ParentPID[arg[x]])
           /\ Orderly => ParentPID[arg[x]] = x
<1>1. /\ pc[x] = "joined" /\ arg[x] \in Pid
      /\ waitsOn[x] = ProcessSemaphore(ParentPID[arg[x]])
      /\ Orderly => ParentPID[arg[x]] = x
  BY DEF Waiting
<1>2. waitsOn[x] \in Semaphores
  BY ProcessWaits
<1>3. PICK q \in Pid : waitsOn[x] = ProcessSemaphore(q)
  BY <1>2 DEF Semaphores
<1>4. QED
  BY <1>1, <1>3, SemaphoreNames

\* Every step keeps who waits for what.
LEMMA WaitingNext ==
    ASSUME KI!KernelInv, Types, Family, Waiting, Next
    PROVE  Waiting'
<1>1. /\ pc \in [Pid -> Code] /\ arg \in [Pid -> Pid \cup {0}]
      /\ waitsOn \in [Pid -> Semaphores \cup {<<"none", 0>>}]
  BY ProcessWaits DEF Types
<1>2. CASE Quiet
  <2>1. \A x \in Pid : waitsOn'[x] = waitsOn[x] \/ waitsOn'[x] = <<"none", 0>>
    BY <1>1, <1>2 DEF Quiet, SemStay, Take
  <2>2. UNCHANGED <<pc, arg, ParentPID>>
    BY <1>2 DEF Quiet, SameFamily, Rest
  <2>3. QED
    BY <2>1, <2>2 DEF Waiting
<1>3. ASSUME NEW p \in Pid, Moves(p), NEW x \in Pid, waitsOn'[x] # <<"none", 0>>
      PROVE  \/ waitsOn'[x] = MutexNumProc /\ pc'[x] \in MutexPlaces
             \/ /\ pc'[x] = "joined" /\ arg'[x] \in Pid
                /\ waitsOn'[x] = ProcessSemaphore(ParentPID'[arg'[x]])
                /\ Orderly => ParentPID'[arg'[x]] = x
  <2>1. CASE x = p
    <3>1. waitsOn[p] = <<"none", 0>>
      BY <1>3, MoveFacts
    <3>2. ~SemStay /\ \A s : ~Give(s)
      BY <1>3, <2>1, <3>1 DEF SemStay, Give
    <3>3. CASE TakeOrWait(p, MutexNumProc) /\ pc'[p] \in MutexPlaces
      BY <1>1, <1>3, <2>1, <3>3 DEF TakeOrWait, Take, Wait
    <3>4. ASSUME NEW c \in Pid, Joins(p, c)
          PROVE  /\ pc'[x] = "joined" /\ arg'[x] = c
                 /\ waitsOn'[x] = ProcessSemaphore(ParentPID'[c])
                 /\ Orderly => ParentPID'[c] = x
      <4>1. /\ pc' = [pc EXCEPT ![p] = "joined"] /\ arg' = [arg EXCEPT ![p] = c]
            /\ ParentPID' = ParentPID /\ (Orderly => ParentPID[c] = p)
            /\ TakeOrWait(p, ProcessSemaphore(ParentPID[c]))
        BY <3>4 DEF Joins, Goes, SameFamily
      <4>2. waitsOn'[p] = ProcessSemaphore(ParentPID[c])
        BY <1>1, <1>3, <2>1, <4>1 DEF TakeOrWait, Take, Wait
      <4>3. QED
        BY <1>1, <2>1, <4>1, <4>2
    <3>5. QED
      BY <1>3, <2>1, <3>2, <3>3, <3>4, SemMoves
  <2>2. CASE x # p
    <3>1. pc'[x] = pc[x] /\ arg'[x] = arg[x]
      BY <1>3, <2>2, MoveFacts
    <3>2. waitsOn'[x] = waitsOn[x]
      <4>1. SemStay \/ (\E s : Give(s)) \/ (\E s : TakeOrWait(p, s))
        BY <1>3, SemMoves DEF Joins
      <4>2. QED
        BY <1>1, <2>2, <4>1 DEF SemStay, Give, TakeOrWait, Take, Wait
    <3>3. CASE waitsOn[x] = MutexNumProc
      BY <3>1, <3>2, <3>3, SemaphoreNames DEF Waiting, MutexPlaces, ProcessSemaphore, MutexNumProc
    <3>4. CASE waitsOn[x] # MutexNumProc
      <4>1. /\ pc[x] = "joined" /\ arg[x] \in Pid /\ ParentPID[arg[x]] \in Pid
            /\ waitsOn[x] = ProcessSemaphore(ParentPID[arg[x]])
            /\ Orderly => ParentPID[arg[x]] = x
        BY <1>3, <3>2, <3>4, JoinedParent
      <4>2. ParentPID'[arg[x]] = ParentPID[arg[x]]
        BY <1>3, <4>1, ParentStays, Pids
      <4>3. QED
        BY <3>1, <3>2, <4>1, <4>2
    <3>5. QED
      BY <3>3, <3>4
  <2>3. QED
    BY <2>1, <2>2
<1>4. QED
  BY <1>2, <1>3, EveryStepMoves DEF Waiting, MutexPlaces

\* Whoever has taken MutexNumProc is still there.
LEMMA HoldingNext ==
    ASSUME KI!KernelInv, Types, Family, Waiting, Holding, Next
    PROVE  Holding'
<1>1. /\ pc \in [Pid -> Code] /\ value \in [Semaphores -> Nat]
      /\ waitsOn \in [Pid -> Semaphores \cup {<<"none", 0>>}]
      /\ MutexNumProc \in Semaphores /\ MutexNumProc # <<"none", 0>>
  BY ProcessWaits, SemaphoreNames DEF Types
<1>2. ASSUME value'[MutexNumProc] = value[MutexNumProc], pc' = pc,
             \A x \in Pid : waitsOn'[x] = waitsOn[x] \/ waitsOn'[x] = <<"none", 0>>
      PROVE  Holding'
  BY <1>1, <1>2 DEF Holding
<1>3. CASE Quiet
  <2>1. pc' = pc
    BY <1>3 DEF Quiet
  <2>2. CASE SemStay
    BY <1>2, <2>1, <2>2 DEF SemStay
  <2>3. ASSUME NEW t \in Pid, NEW s \in Semaphores, waitsOn[t] = s, Take(t, s)
        PROVE  Holding'
    <3>1. CASE s = MutexNumProc
      <4>1. pc[t] \in MutexPlaces
        BY <1>1, <2>3, <3>1, SemaphoreNames DEF Waiting, MutexPlaces, ProcessSemaphore, MutexNumProc
      <4>2. waitsOn'[t] = <<"none", 0>>
        BY <1>1, <2>3 DEF Take
      <4>3. QED
        BY <1>1, <2>1, <4>1, <4>2 DEF Holding, MutexPlaces
    <3>2. CASE s # MutexNumProc
      <4>1. value'[MutexNumProc] = value[MutexNumProc]
        BY <1>1, <2>3, <3>2 DEF Take
      <4>2. \A x \in Pid : waitsOn'[x] = waitsOn[x] \/ waitsOn'[x] = <<"none", 0>>
        BY <1>1, <2>3 DEF Take
      <4>3. QED
        BY <1>2, <2>1, <4>1, <4>2
    <3>3. QED
      BY <3>1, <3>2
  <2>4. QED
    BY <1>3, <2>2, <2>3 DEF Quiet
<1>4. ASSUME NEW p \in Pid, Moves(p), value'[MutexNumProc] = 0
      PROVE  \E x \in Pid : pc'[x] \in MutexPlaces /\ waitsOn'[x] # MutexNumProc
  <2>1. CASE CountsOne(p)
    <3>1. value' = [value EXCEPT ![MutexNumProc] = value[MutexNumProc] + 1]
      BY <2>1 DEF CountsOne, Give
    <3>2. QED
      BY <1>1, <1>4, <3>1
  <2>2. CASE TakeOrWait(p, MutexNumProc) /\ pc[p] \notin MutexPlaces /\ pc'[p] \in MutexPlaces
    <3>1. CASE Take(p, MutexNumProc)
      <4>1. waitsOn'[p] = <<"none", 0>>
        BY <1>1, <3>1 DEF Take
      <4>2. QED
        BY <1>1, <2>2, <4>1
    <3>2. CASE Wait(p, MutexNumProc)
      <4>1. value[MutexNumProc] = 0 /\ \A x \in Pid : x # p => waitsOn'[x] = waitsOn[x]
        BY <1>1, <3>2 DEF Wait
      <4>2. PICK x \in Pid : pc[x] \in MutexPlaces /\ waitsOn[x] # MutexNumProc
        BY <4>1 DEF Holding, MutexPlaces
      <4>3. x # p
        BY <2>2, <4>2
      <4>4. QED
        BY <1>4, <4>1, <4>2, <4>3, MoveFacts
    <3>3. QED
      BY <2>2, <3>1, <3>2 DEF TakeOrWait
  <2>3. CASE ~CountsOne(p) /\ ~(TakeOrWait(p, MutexNumProc) /\ pc[p] \notin MutexPlaces /\ pc'[p] \in MutexPlaces)
    <3>1. pc[p] \notin MutexPlaces
      BY <1>4, <2>3, MoveFacts
    <3>2. \/ SemStay
          \/ \E q \in Pid : Give(ProcessSemaphore(q)) \/ TakeOrWait(p, ProcessSemaphore(q))
      BY <1>4, <2>3, SemMoves DEF Joins
    <3>3. /\ value[MutexNumProc] = 0
          /\ \A x \in Pid : x # p => waitsOn'[x] = waitsOn[x]
      <4>1. CASE SemStay
        BY <1>4, <4>1 DEF SemStay
      <4>2. ASSUME NEW q \in Pid, Give(ProcessSemaphore(q)) \/ TakeOrWait(p, ProcessSemaphore(q))
            PROVE  /\ value[MutexNumProc] = 0
                   /\ \A x \in Pid : x # p => waitsOn'[x] = waitsOn[x]
        <5>1. ProcessSemaphore(q) # MutexNumProc /\ ProcessSemaphore(q) \in Semaphores
          BY SemaphoreNames
        <5>2. QED
          BY <1>1, <1>4, <4>2, <5>1 DEF Give, TakeOrWait, Take, Wait
      <4>3. QED
        BY <3>2, <4>1, <4>2
    <3>4. PICK x \in Pid : pc[x] \in MutexPlaces /\ waitsOn[x] # MutexNumProc
      BY <3>3 DEF Holding, MutexPlaces
    <3>5. QED
      BY <1>4, <3>1, <3>3, <3>4, MoveFacts
  <2>4. QED
    BY <2>1, <2>2, <2>3
<1>5. QED
  BY <1>3, <1>4, EveryStepMoves DEF Holding, MutexPlaces

-----------------------------------------------------------------------------
(***************************************************************************)
(* Join and Exit when parents outlive their children and there is no timer *)
(***************************************************************************)

\* A process that runs is in the list.
LEMMA RunningIsListed ==
    ASSUME Types, Family, LiveIsListed, Appending, NEW p \in Pid, Runs(p), pc[p] = "user"
    PROVE  Valid[p] /\ InPCB(p) /\ \A x \in Pid : pc[x] # "execAppend"
<1>1. \A x \in Pid : pc[x] # "execAppend"
  BY DEF Appending, Runs
<1>2. Valid[p] /\ ~Exited(p) /\ kpc[p] # "new"
  BY DEF Family, Stages, Exited, Runs
<1>3. QED
  BY <1>1, <1>2 DEF LiveIsListed, Unlisted

\* Whoever waits in vain for a child waits for one that has not exited: its
\* Exit gives a unit of the semaphore of its parent.
LEMMA JoiningNext ==
    ASSUME KI!KernelInv, Types, Family, LiveIsListed, Appending, NoneDead, Waiting, Joining, Next
    PROVE  Joining'
<1>1. /\ pc \in [Pid -> Code] /\ arg \in [Pid -> Pid \cup {0}]
      /\ waitsOn \in [Pid -> Semaphores \cup {<<"none", 0>>}]
      /\ value \in [Semaphores -> Nat]
  BY ProcessWaits DEF Types
<1>2. ASSUME NEW x \in Pid, waitsOn[x] = ProcessSemaphore(x), Orderly
      PROVE  arg[x] \in Pid /\ ParentPID[arg[x]] = x
  BY <1>2, JoinedParent, SemaphoreNames
<1>3. ASSUME Quiet, Orderly, NEW x \in Pid, waitsOn'[x] = ProcessSemaphore(x),
             value'[ProcessSemaphore(x)] = 0
      PROVE  ~Exited(arg[x])' /\ arg'[x] = arg[x] /\ kpc'[arg[x]] # "new"
  <2>1. UNCHANGED <<pc, arg>> /\ NewStay
    BY <1>3 DEF Quiet, Rest
  <2>2. waitsOn[x] = ProcessSemaphore(x) /\ value[ProcessSemaphore(x)] = 0
    <3>1. CASE SemStay
      BY <1>3, <3>1 DEF SemStay
    <3>2. ASSUME NEW t \in Pid, NEW s \in Semaphores, waitsOn[t] = s, Take(t, s)
          PROVE  waitsOn[x] = ProcessSemaphore(x) /\ value[ProcessSemaphore(x)] = 0
      <4>1. x # t /\ waitsOn[x] = ProcessSemaphore(x)
        BY <1>1, <1>3, <3>2, SemaphoreNames DEF Take
      <4>2. s # ProcessSemaphore(x)
        <5>1. ASSUME s = ProcessSemaphore(x) PROVE FALSE
          <6>1. waitsOn[t] = ProcessSemaphore(ParentPID[arg[t]]) /\ ParentPID[arg[t]] = t
            BY <1>3, <3>2, <5>1, JoinedParent, SemaphoreNames
          <6>2. QED
            BY <3>2, <4>1, <5>1, <6>1, SemaphoreNames
        <5>2. QED
          BY <5>1
      <4>3. value'[ProcessSemaphore(x)] = value[ProcessSemaphore(x)]
        BY <1>1, <3>2, <4>2, SemaphoreNames DEF Take
      <4>4. QED
        BY <1>3, <4>1, <4>3
    <3>3. QED
      BY <1>3, <3>1, <3>2 DEF Quiet
  <2>3. arg[x] \in Pid /\ ~Exited(arg[x]) /\ kpc[arg[x]] # "new"
    BY <1>2, <1>3, <2>2 DEF Joining
  <2>4. QED
    BY <2>1, <2>3 DEF Exited, NewStay
<1>4. ASSUME NEW p \in Pid, Moves(p), Orderly, NEW x \in Pid,
             waitsOn'[x] = ProcessSemaphore(x), value'[ProcessSemaphore(x)] = 0
      PROVE  \E c \in Pid : arg'[x] = c /\ ~Exited(c)' /\ kpc'[c] # "new"
  <2>1. CASE x = p
    <3>1. waitsOn[p] = <<"none", 0>>
      BY <1>4, MoveFacts
    <3>2. PICK c \in Pid : Joins(p, c)
      <4>1. ~SemStay /\ \A s : ~Give(s)
        BY <1>4, <2>1, <3>1, SemaphoreNames DEF SemStay, Give
      <4>2. ~TakeOrWait(p, MutexNumProc)
        BY <1>1, <1>4, <2>1, SemaphoreNames DEF TakeOrWait, Take, Wait
      <4>3. QED
        BY <1>4, <4>1, <4>2, SemMoves
    <3>3. /\ InPCB(c) /\ Valid[c] /\ ParentPID[c] = p /\ arg' = [arg EXCEPT ![p] = c]
          /\ pc' = [pc EXCEPT ![p] = "joined"] /\ NewStay
      BY <1>4, <3>2 DEF Joins, Goes
    <3>4. ~Exited(c) /\ kpc[c] # "new"
      BY <3>3 DEF NoneDead, Family, ListedStarted
    <3>5. arg'[x] = c /\ ~Exited(c)'
      BY <1>1, <2>1, <3>3, <3>4 DEF Exited
    <3>6. QED
      BY <3>3, <3>4, <3>5 DEF NewStay
  <2>2. CASE x # p
    <3>1. arg'[x] = arg[x] /\ pc'[x] = pc[x]
      BY <1>4, <2>2, MoveFacts
    <3>2. waitsOn[x] = ProcessSemaphore(x)
      <4>1. SemStay \/ (\E s : Give(s)) \/ (\E s : TakeOrWait(p, s))
        BY <1>4, SemMoves DEF Joins
      <4>2. QED
        BY <1>1, <1>4, <2>2, <4>1 DEF SemStay, Give, TakeOrWait, Take, Wait
    <3>3. value[ProcessSemaphore(x)] = 0
      <4>0. ProcessSemaphore(x) \in Semaphores /\ ProcessSemaphore(x) # MutexNumProc
        BY SemaphoreNames
      <4>1. CASE SemStay
        BY <1>4, <4>1 DEF SemStay
      <4>2. ASSUME NEW s \in Semaphores, Give(s) PROVE value[ProcessSemaphore(x)] = 0
        BY <1>1, <1>4, <4>0, <4>2 DEF Give
      <4>3. ASSUME NEW s \in Semaphores, s # ProcessSemaphore(x), TakeOrWait(p, s)
            PROVE  value[ProcessSemaphore(x)] = 0
        BY <1>1, <1>4, <4>0, <4>3 DEF TakeOrWait, Take, Wait
      <4>4. ASSUME NEW c \in Pid, Joins(p, c) PROVE value[ProcessSemaphore(x)] = 0
        <5>1. ParentPID[c] = p /\ TakeOrWait(p, ProcessSemaphore(p))
          BY <1>4, <4>4 DEF Joins
        <5>2. ProcessSemaphore(p) \in Semaphores /\ ProcessSemaphore(p) # ProcessSemaphore(x)
          BY <2>2, SemaphoreNames
        <5>3. QED
          BY <4>3, <5>1, <5>2
      <4>5. QED
        BY <1>4, <4>0, <4>1, <4>2, <4>3, <4>4, SemMoves, SemaphoreNames
    <3>4. PICK a \in Pid : a = arg[x] /\ ParentPID[a] = x /\ ~Exited(a) /\ kpc[a] # "new"
      BY <1>2, <1>4, <3>2, <3>3 DEF Joining
    <3>5. kpc'[a] # "new"
      BY <1>4, <3>4, MoveFacts
    <3>6. ~(p = 1 /\ NotStarted /\ a = p)
      <4>1. x < a /\ x \in Nat /\ x # 0
        BY <3>4, Pids DEF Family, Parents
      <4>2. QED
        BY <4>1
    <3>7. ASSUME a = p, NEW q \in Pid \cup {0}, Exits(p, q) PROVE FALSE
      <4>1. Runs(p) /\ pc[p] = "user"
        BY <1>4, <3>7 DEF Moves, Exits, Goes
      <4>2. InPCB(p)
        BY <4>1, RunningIsListed
      <4>3. q = x /\ q # 0
        BY <3>4, <3>7, <4>2, Pids DEF Exits
      <4>4. value' = [value EXCEPT ![ProcessSemaphore(x)] = value[ProcessSemaphore(x)] + 1]
        BY <3>7, <4>3 DEF Exits, Give
      <4>5. QED
        BY <1>1, <1>4, <4>4, SemaphoreNames
    <3>8. ~Exited(a)'
      BY <1>4, <3>4, <3>6, <3>7, ExitedBy
    <3>9. QED
      BY <3>1, <3>4, <3>5, <3>8
  <2>3. QED
    BY <2>1, <2>2
<1>5. CASE Quiet
  <2>1. arg' = arg
    BY <1>5 DEF Quiet, Rest
  <2>2. QED
    BY <1>3, <1>5, <2>1 DEF Joining, Exited
<1>6. ASSUME NEW p \in Pid, Moves(p) PROVE Joining'
  BY <1>4, <1>6 DEF Joining, Exited
<1>7. QED
  BY <1>5, <1>6, EveryStepMoves

\* A thread that has finished is one that is done.
LEMMA FinishingNext ==
    ASSUME KI!KernelInv, Types, Family, Finishing, Next
    PROVE  Finishing'
<1>1. pc \in [Pid -> Code]
  BY DEF Types
<1>2. CASE Quiet
  BY <1>2 DEF Quiet, Rest, FinishStay, Finishing
<1>3. ASSUME NEW p \in Pid, Moves(p) PROVE Finishing'
  <2>1. kpc[p] = "body" /\ \A x \in Pid : x # p => pc'[x] = pc[x]
    BY <1>3, MoveFacts
  <2>2. CASE FinishStay
    BY <2>1, <2>2 DEF FinishStay, Finishing
  <2>3. CASE Ends(p) \/ (p = 1 /\ NotStarted)
    <3>1. pc'[p] = "done" /\ \A x \in Pid : kpc'[x] = "finish" => kpc[x] = "finish" \/ x = p
      BY <1>1, <2>3 DEF Ends, NotStarted, Goes
    <3>2. QED
      BY <2>1, <3>1 DEF Finishing
  <2>4. FinishStay \/ Ends(p) \/ (p = 1 /\ NotStarted)
    <3>1. CASE Onward(p) \/ WantsMutex(p) \/ Ends(p) \/ Appends(p) \/ Forks(p) \/ CountsOne(p)
      BY <3>1 DEF Onward, WantsMutex, Appends, Forks, CountsOne, Rest
    <3>2. CASE p = 1 /\ (Starts \/ NotStarted)
      BY <3>2 DEF Starts, Rest
    <3>3. CASE \/ \E c \in Pid : Joins(p, c) \/ Breaks(p, c) \/ Refused(p, c) \/ Execs(p, c)
               \/ \E q \in Pid \cup {0} : Exits(p, q)
      BY <3>3 DEF Joins, Breaks, Refused, Execs, Exits, Rest
    <3>4. QED
      BY <1>3, <3>1, <3>2, <3>3 DEF Moves
  <2>5. QED
    BY <2>2, <2>3, <2>4
<1>4. QED
  BY <1>2, <1>3, EveryStepMoves

\* Only an Exit that runs into NULL stops the kernel in SC_Exit.
LEMMA StopsInExit ==
    ASSUME Next, stopped # "Exit", stopped' = "Exit"
    PROVE  \E p \in Pid : MayExit(p) /\ ExitCrashes(p)
<1>1. ASSUME NEW p \in Pid, ProcessStep(p) PROVE MayExit(p) /\ ExitCrashes(p)
  <2>1. ~Count(p, "execCount", "execFork") /\ ~Creator(p) /\ ~Instruction(p) /\ ~ExecFails(p)
    BY DEF Count, Creator, Instruction, ExecFails
  <2>2. /\ \A n \in Sizes : ~Exec(p, n)
        /\ ~ExecFork(p) /\ ~ExecAppend(p) /\ ~Joined(p) /\ ~ExitMutex(p)
    BY DEF Exec, ExecFork, ExecAppend, Joined, ExitMutex
  <2>3. /\ \A c : ~JoinReturns(p, c) /\ ~JoinWaits(p, c) /\ ~JoinCrashes(p, c)
        /\ ~ExitCount(p) /\ ~ExitFinish(p) /\ ~ExitWakes(p)
    BY DEF JoinReturns, JoinWaits, JoinCrashes, Stop, ExitCount, ExitFinish, ExitWakes
  <2>4. ~YieldCall(p) /\ ~Halt(p) /\ ~Fault(p)
    BY DEF YieldCall, Halt, Fault, Stop
  <2>5. QED
    BY <1>1, <2>1, <2>2, <2>3, <2>4 DEF ProcessStep
<1>2. /\ \A n \in Sizes : ~StartProcess(n)
      /\ ~StartProcessNoFile /\ ~Count(1, "count", "user")
      /\ \A p \in Pid : ~KernelStep(p)
      /\ ~Terminated
  BY DEF StartProcess, StartProcessNoFile, Count, KernelStep, Terminated, vars
<1>3. QED
  BY <1>1, <1>2 DEF Next

\* No Exit does: the parent of a process that runs is in the list.
LEMMA ExitFindsNext ==
    ASSUME KI!KernelInv, Types, Family, LiveIsListed, Orphans, Appending, Next, Orderly,
           stopped # "Exit"
    PROVE  stopped' # "Exit"
<1> SUFFICES ASSUME NEW p \in Pid, MayExit(p), ExitCrashes(p) PROVE FALSE
  BY StopsInExit
<1>1. pc[p] = "user" /\ K!AtBody(p)
  BY DEF ExitCrashes, At, Stop
<1>2. Runs(p)
  BY <1>1, ProcessEffects DEF Runs
<1>3. Valid[p] /\ InPCB(p) /\ \A x \in Pid : pc[x] # "execAppend"
  BY <1>1, <1>2, RunningIsListed
<1>4. ~ReturnCrashes(p)
  BY <1>3 DEF ReturnCrashes
<1>5. PICK q \in ParentRead(p) \ {0} : ~\E k \in 1..Len(Without(p)) : Without(p)[k] = q
  BY <1>4 DEF ExitCrashes
<1>6. q = ParentPID[p] /\ q # 0
  BY <1>3, <1>5 DEF ParentRead
<1>7. q \in Pid
  BY <1>6 DEF Types
<1>8. q < p /\ kpc[q] # "new" /\ pc[q] # "load"
  BY <1>6 DEF Family, Parents
<1>9. q # p
  BY <1>7, <1>8, Pids
<1>10. ~InPCB(q)
  BY <1>5, <1>9, WithoutFacts DEF Types
<1>11. Exited(q)
  <2>1. ASSUME ~Exited(q) PROVE FALSE
    <3>1. Valid[q]
      BY <1>7, <1>8, <2>1 DEF Family, Stages, Exited
    <3>2. ~Unlisted(q)
      BY <1>3 DEF Unlisted
    <3>3. QED
      BY <1>7, <1>8, <1>10, <2>1, <3>1, <3>2 DEF LiveIsListed
  <2>2. QED
    BY <2>1
<1>12. Exited(p)
  BY <1>3, <1>6, <1>11 DEF Orphans
<1>13. QED
  BY <1>1, <1>12 DEF Exited

-----------------------------------------------------------------------------
(***************************************************************************)
(* The PCB, whatever programs do and whenever the timer switches           *)
(***************************************************************************)

\* Who comes to be listed and exited has exited before, and was in the list or
\* about to be appended: an Exit takes its process off the list.
LEMMA ListedAndExited ==
    ASSUME Always, Next, NEW c \in Pid, InPCB(c)', Valid'[c], Exited(c)'
    PROVE  Exited(c) /\ (InPCB(c) \/ Unlisted(c))
<1>1. /\ KI!KernelInv /\ Types /\ Family
      /\ pc \in [Pid -> Code] /\ Valid \in [Pid -> BOOLEAN]
  BY DEF Always, Types
<1>2. CASE Quiet
  BY <1>2 DEF Quiet, SameFamily, ListStay, Exited
<1>3. ASSUME NEW p \in Pid, Moves(p)
      PROVE  Exited(c) /\ (InPCB(c) \/ Unlisted(c))
  <2>0. Runs(p)
    BY <1>3 DEF Moves
  <2>1. ASSUME NEW q \in Pid \cup {0}, Exits(p, q)
        PROVE  Exited(c) /\ InPCB(c)
    <3>1. c # p /\ InPCB(c)
      BY <2>1 DEF Exits, Leaves
    <3>2. QED
      BY <1>1, <1>3, <2>1, <3>1, ExitedBy DEF Exits, NotStarted, Goes
  <2>2. CASE p = 1 /\ NotStarted
    <3>1. InPCB(c) /\ pc[1] = "load"
      BY <2>2 DEF NotStarted, ListStay, Goes
    <3>2. c # 1
      BY <1>1, <3>1, Pids DEF Family, Stages, NotYet
    <3>3. Exited(c)
      BY <1>1, <1>3, <2>1, <2>2, <3>2, ExitedBy
    <3>4. QED
      BY <3>1, <3>3
  <2>3. CASE ~(p = 1 /\ NotStarted) /\ ~\E q \in Pid \cup {0} : Exits(p, q)
    <3>1. Exited(c)
      BY <1>1, <1>3, <2>3, ExitedBy
    <3>2. CASE Appends(p)
      BY <3>1, <3>2 DEF Appends, Goes, Enters, Unlisted
    <3>3. CASE p = 1 /\ Starts
      <4>1. c # 1
        BY <3>1, <3>3 DEF Starts, Goes, Exited
      <4>2. QED
        BY <3>1, <3>3, <4>1 DEF Starts, Enters
    <3>4. ASSUME NEW d \in Pid, Refused(p, d) PROVE InPCB(c)
      <4>1. /\ pc[p] = "user" /\ d = ProcessId + 1 /\ Valid' = Valid
            /\ InPCB(c)' => InPCB(c) \/ c = d
        BY <3>4 DEF Refused, ListStay, Enters
      <4>2. ~Valid[d]
        BY <1>1, <2>0, <4>1, NewPid DEF Fresh, Runs
      <4>3. QED
        BY <4>1, <4>2
    <3>5. CASE \/ Onward(p) \/ WantsMutex(p) \/ CountsOne(p) \/ Ends(p) \/ Forks(p)
               \/ \E d \in Pid : Joins(p, d) \/ Breaks(p, d) \/ Execs(p, d)
      <4>1. ListStay
        BY <3>5 DEF Onward, WantsMutex, CountsOne, Ends, Forks, Joins, Breaks, Execs, SameFamily
      <4>2. InPCB(c)' <=> InPCB(c)
        BY <4>1 DEF ListStay
      <4>3. QED
        BY <3>1, <4>2
    <3>6. QED
      BY <1>3, <2>3, <3>1, <3>2, <3>3, <3>4, <3>5 DEF Moves
  <2>4. QED
    BY <2>1, <2>2, <2>3
<1>4. QED
  BY <1>1, <1>2, <1>3, EveryStepMoves

\* Whoever has no element in the list has none because it is gone.
LEMMA MissingAreGone ==
    ASSUME LiveIsListed, NEW q \in Pid, ~InPCB(q)
    PROVE  Gone(q)
BY DEF LiveIsListed, Gone

\* Only a Join that runs into NULL stops the kernel in SC_Join.
LEMMA StopsInJoin ==
    ASSUME Next, stopped # "Join", stopped' = "Join"
    PROVE  \E p \in Pid : \E c \in MayJoin(p) : JoinCrashes(p, c)
<1>1. ASSUME NEW p \in Pid, ProcessStep(p)
      PROVE  \E c \in MayJoin(p) : JoinCrashes(p, c)
  <2>1. ~Count(p, "execCount", "execFork") /\ ~Creator(p) /\ ~Instruction(p) /\ ~ExecFails(p)
    BY DEF Count, Creator, Instruction, ExecFails
  <2>2. /\ \A n \in Sizes : ~Exec(p, n)
        /\ ~ExecFork(p) /\ ~ExecAppend(p) /\ ~Joined(p) /\ ~ExitMutex(p)
    BY DEF Exec, ExecFork, ExecAppend, Joined, ExitMutex
  <2>3. /\ \A c : ~JoinReturns(p, c) /\ ~JoinWaits(p, c)
        /\ ~ExitCount(p) /\ ~ExitFinish(p) /\ ~ExitWakes(p) /\ ~ExitCrashes(p)
    BY DEF JoinReturns, JoinWaits, Stop, ExitCount, ExitFinish, ExitWakes, ExitCrashes
  <2>4. ~YieldCall(p) /\ ~Halt(p) /\ ~Fault(p)
    BY DEF YieldCall, Halt, Fault, Stop
  <2>5. QED
    BY <1>1, <2>1, <2>2, <2>3, <2>4 DEF ProcessStep
<1>2. /\ \A n \in Sizes : ~StartProcess(n)
      /\ ~StartProcessNoFile /\ ~Count(1, "count", "user")
      /\ \A p \in Pid : ~KernelStep(p)
      /\ ~Terminated
  BY DEF StartProcess, StartProcessNoFile, Count, KernelStep, Terminated, vars
<1>3. QED
  BY <1>1, <1>2 DEF Next

\* Once the kernel has stopped, nothing happens any more.
LEMMA StoppedForGood ==
    ASSUME Next, stopped # "no"
    PROVE  UNCHANGED vars
<1>1. ASSUME NEW p \in Pid, NEW from PROVE ~At(p, from)
  BY DEF At
<1>2. \A p \in Pid : ~ProcessStep(p)
  BY DEF ProcessStep, At, Count, Creator, Instruction, ExecFails, Exec, ExecFork, ExecAppend,
     JoinReturns, JoinWaits, JoinCrashes, Joined, ExitWakes, ExitCrashes, ExitMutex, ExitCount,
     ExitFinish, YieldCall, Halt, Fault
<1>3. QED
  BY <1>2 DEF Next, At, StartProcess, StartProcessNoFile, Count, KernelStep, Terminated

\* A process for which an Exit runs into NULL is gone.
LEMMA ExitMissesGone ==
    ASSUME Always, NEW p \in Pid, ExitCrashes(p)
    PROVE  Gone(Sought(p)) /\ currentThread = p
<1>1. KI!KernelInv /\ Types /\ Family /\ LiveIsListed
  BY DEF Always
<1>2. currentThread = p
  BY <1>1, ProcessEffects DEF ExitCrashes, Stop
<1>3. CASE ~InPCB(p)
  BY <1>1, <1>2, <1>3, MissingAreGone DEF Sought
<1>4. CASE InPCB(p)
  <2>1. PICK q \in ParentRead(p) \ {0} : ~\E k \in 1..Len(Without(p)) : Without(p)[k] = q
    BY <1>4 DEF ExitCrashes, ReturnCrashes
  <2>2. q = ParentPID[p] /\ q # 0
    BY <1>4, <2>1 DEF ParentRead
  <2>3. q \in Pid /\ q # p
    BY <1>1, <2>2, Pids DEF Types, Family, Parents
  <2>4. ~InPCB(q)
    BY <1>1, <2>1, <2>3, WithoutFacts DEF Types
  <2>5. QED
    BY <1>1, <1>2, <1>4, <2>2, <2>3, <2>4, MissingAreGone DEF Sought
<1>5. QED
  BY <1>3, <1>4

\* A process for which a Join runs into NULL is gone, or is nobody's parent.
LEMMA JoinMissesGone ==
    ASSUME Always, NEW p \in Pid, NEW c \in Pid, JoinCrashes(p, c)
    PROVE  /\ Sought(c) = 0 \/ Gone(Sought(c))
           /\ currentThread = p /\ pc[p] = "user" /\ arg'[p] = c
           /\ \A x \in Pid : x # p => arg'[x] = arg[x]
<1>1. KI!KernelInv /\ Types /\ Family /\ LiveIsListed
  BY DEF Always
<1>2. /\ currentThread = p /\ pc[p] = "user" /\ arg'[p] = c
      /\ \A x \in Pid : x # p => arg'[x] = arg[x]
  BY <1>1, ProcessEffects DEF JoinCrashes, At, Types
<1>3. CASE ~InPCB(c)
  BY <1>1, <1>2, <1>3, MissingAreGone DEF Sought
<1>4. CASE InPCB(c)
  <2>1. ~InPCB(ParentPID[c]) /\ ParentPID[c] \in Pid \cup {0}
    BY <1>1, <1>4 DEF JoinCrashes, ReturnCrashes, Types
  <2>2. QED
    BY <1>1, <1>2, <1>4, <2>1, MissingAreGone DEF Sought
<1>5. QED
  BY <1>3, <1>4

\* Every step keeps that.
LEMMA MissedNext ==
    ASSUME Always, OnlyGoneAreMissed, [Next]_vars
    PROVE  OnlyGoneAreMissed'
<1>1. CASE UNCHANGED vars
  BY <1>1 DEF vars, kvars, pvars, OnlyGoneAreMissed, Sought, Gone, Unlisted, Exited, InPCB
<1>2. CASE Next /\ stopped = "no" /\ stopped' = "Exit"
  <2>1. PICK p \in Pid : ExitCrashes(p)
    BY <1>2, StopsInExit
  <2>2. UNCHANGED <<kvars, pc, arg, r2, pvars>>
    BY <2>1 DEF ExitCrashes, Stop
  <2>3. Gone(Sought(currentThread))
    BY <2>1, ExitMissesGone
  <2>4. Gone(Sought(currentThread))'
    BY <2>2, <2>3 DEF kvars, pvars, Sought, Gone, Unlisted, Exited, InPCB
  <2>5. QED
    BY <1>2, <2>4 DEF OnlyGoneAreMissed
<1>3. CASE Next /\ stopped = "no" /\ stopped' = "Join"
  <2>1. PICK p \in Pid : \E c \in MayJoin(p) : JoinCrashes(p, c)
    BY <1>3, StopsInJoin
  <2>2. PICK c \in Pid : JoinCrashes(p, c)
    BY <2>1 DEF MayJoin
  <2>3. UNCHANGED <<kvars, pc, r2, pvars>>
    BY <2>2 DEF JoinCrashes
  <2>4. /\ Sought(c) = 0 \/ Gone(Sought(c))
        /\ currentThread = p /\ pc[p] = "user" /\ arg'[p] = c
        /\ \A x \in Pid : x # p => arg'[x] = arg[x]
    BY <2>2, JoinMissesGone
  <2>5. \A x \in Pid : Unlisted(x)' <=> Unlisted(x)
    BY <2>3, <2>4 DEF Unlisted
  <2>6. currentThread' = p /\ Sought(c)' = Sought(c)
    BY <2>3, <2>4 DEF kvars, pvars, Sought, InPCB
  <2>7. Gone(Sought(c)) => Gone(Sought(c))'
    BY <2>3, <2>5, <2>6 DEF kvars, pvars, Gone, Exited
  <2>8. Sought(arg[currentThread])' = 0 \/ Gone(Sought(arg[currentThread]))'
    BY <2>4, <2>6, <2>7 DEF Sought, Gone, Unlisted, Exited, InPCB
  <2>9. QED
    BY <1>3, <2>8 DEF OnlyGoneAreMissed
<1>4. CASE stopped' \notin {"Exit", "Join"}
  BY <1>4 DEF OnlyGoneAreMissed
<1>5. QED
  BY <1>1, <1>2, <1>3, <1>4, StoppedForGood

\* For any number of processes, any scheduler and any programs: no process that
\* has exited comes to be found in the PCB, but for one that runs to its end
\* while the Exec that creates it is between Fork and Append
\* (ProcessList::Append, ProcessList::Remove).
THEOREM ExitedStayOut == Spec => ListedIsLive
<1>1. Always /\ [Next]_vars =>
        [\A c \in Pid : (InPCB(c) /\ Valid[c] /\ Exited(c))'
                        => Exited(c) /\ (InPCB(c) \/ Unlisted(c))]_vars
  BY ListedAndExited
<1>2. QED
  BY <1>1, AlwaysInit, AlwaysNext, PTL DEF Spec, ListedIsLive

\* For any number of processes, any scheduler and any programs: when Join or
\* Exit follows NULL, the process it looks for has exited, never ran or is not
\* appended yet; no element was lost by the PCB (ProcessList::Return, Remove).
THEOREM NobodyElseIsMissed == Spec => []OnlyGoneAreMissed
<1>1. Init => OnlyGoneAreMissed
  BY DEF Init, OnlyGoneAreMissed
<1>2. Always /\ OnlyGoneAreMissed /\ [Next]_vars => OnlyGoneAreMissed'
  BY MissedNext
<1>3. QED
  BY <1>1, <1>2, AlwaysInit, AlwaysNext, PTL DEF Spec

-----------------------------------------------------------------------------
(***************************************************************************)
(* What holds without the timer                                            *)
(***************************************************************************)

\* All of it.
Untimed ==
    /\ Always /\ Orphans
    /\ Appending /\ NoneDead /\ ExitFinds
    /\ Waiting /\ Holding /\ Joining /\ Finishing

\* It holds at the start.
LEMMA UntimedInit == Init => Untimed
<1> SUFFICES ASSUME Init PROVE Untimed
  OBVIOUS
<1>1. Always
  BY AlwaysInit
<1>2. /\ pc = [p \in Pid |-> IF p = 1 THEN "load" ELSE "creator"]
      /\ Valid = [p \in Pid |-> FALSE] /\ stopped = "no"
      /\ kpc = [t \in Pid |-> IF t = 1 THEN "body" ELSE "new"]
      /\ waitsOn = [t \in Pid |-> <<"none", 0>>]
      /\ value = [s \in Semaphores |-> IF s = MutexNumProc THEN 1 ELSE 0]
  BY DEF Init, K!Init
<1>3. Orphans /\ NoneDead
  BY <1>2 DEF Orphans, NoneDead
<1>4. Appending /\ Finishing /\ ExitFinds
  BY <1>2 DEF Appending, Finishing, ExitFinds
<1>5. Waiting /\ Joining
  BY <1>2, SemaphoreNames DEF Waiting, Joining
<1>6. Holding
  <2>1. value[MutexNumProc] = 1
    BY <1>2, SemaphoreNames
  <2>2. QED
    BY <2>1 DEF Holding
<1>7. QED
  BY <1>1, <1>3, <1>4, <1>5, <1>6 DEF Untimed

\* Every step keeps it.
LEMMA UntimedNext == ~TimeSlice /\ Untimed /\ [Next]_vars => Untimed'
<1> SUFFICES ASSUME ~TimeSlice, Untimed, [Next]_vars PROVE Untimed'
  OBVIOUS
<1>1. Always'
  BY AlwaysNext DEF Untimed
<1>2. CASE Next
  <2>1. Appending' /\ NoneDead' /\ Orphans'
    BY <1>2, AppendingNext, NoneDeadNext, OrphansNext DEF Untimed, Always
  <2>2. Waiting' /\ Holding' /\ Finishing'
    BY <1>2, WaitingNext, HoldingNext, FinishingNext DEF Untimed, Always
  <2>3. Joining'
    BY <1>2, JoiningNext DEF Untimed, Always
  <2>4. ExitFinds'
    BY <1>2, ExitFindsNext DEF Untimed, Always, ExitFinds
  <2>5. QED
    BY <1>1, <2>1, <2>2, <2>3, <2>4 DEF Untimed
<1>3. CASE UNCHANGED vars
  <2>1. UNCHANGED <<kvars, pc, arg, r2, pvars, stopped>>
    BY <1>3 DEF vars
  <2>2. Orphans' /\ Appending' /\ NoneDead' /\ ExitFinds'
    BY <2>1 DEF kvars, pvars, Untimed, Orphans, Appending, NoneDead, ExitFinds,
       Exited, InPCB
  <2>3. Waiting' /\ Holding' /\ Joining' /\ Finishing'
    BY <2>1 DEF kvars, pvars, Untimed, Waiting, Holding, Joining, Finishing, Exited
  <2>4. QED
    BY <1>1, <2>2, <2>3 DEF Untimed
<1>4. QED
  BY <1>2, <1>3

\* When the machine has halted, nobody waits for the mutex, nor for a child:
\* the youngest that waits would wait for a younger one that has not exited.
LEMMA NobodyWaits ==
    ASSUME Untimed, Orderly, halted, NEW p \in Pid
    PROVE  waitsOn[p] = <<"none", 0>>
<1>1. /\ KI!KernelInv /\ Types /\ Family
      /\ waitsOn \in [Pid -> Semaphores \cup {<<"none", 0>>}]
  BY ProcessWaits DEF Untimed, Always
<1>2. ASSUME NEW x \in Pid, kpc[x] # "new", pc[x] # "done"
      PROVE  waitsOn[x] # <<"none", 0>> /\ value[waitsOn[x]] = 0
  BY <1>1, <1>2, ProcessKernel, KI!HaltedThreads DEF Untimed, Finishing
<1>3. ASSUME NEW x \in Pid PROVE waitsOn[x] # MutexNumProc
  <2>1. SUFFICES ASSUME waitsOn[x] = MutexNumProc PROVE FALSE
    OBVIOUS
  <2>2. pc[x] \in MutexPlaces
    BY <2>1, SemaphoreNames DEF Untimed, Waiting, MutexPlaces, ProcessSemaphore, MutexNumProc
  <2>3. kpc[x] # "new" /\ pc[x] # "done"
    BY <1>1, <2>2 DEF Family, Stages, MutexPlaces
  <2>4. value[MutexNumProc] = 0
    BY <1>2, <2>1, <2>3
  <2>5. PICK y \in Pid : pc[y] \in MutexPlaces /\ waitsOn[y] # MutexNumProc
    BY <2>4 DEF Untimed, Holding, MutexPlaces
  <2>6. kpc[y] # "new" /\ pc[y] # "done"
    BY <1>1, <2>5 DEF Family, Stages, MutexPlaces
  <2>7. waitsOn[y] # <<"none", 0>>
    BY <1>2, <2>6
  <2>8. pc[y] = "joined"
    BY <1>1, <2>5, <2>7, JoinedParent DEF Untimed
  <2>9. QED
    BY <2>5, <2>8 DEF MutexPlaces
<1>4. ASSUME NEW x \in Pid, waitsOn[x] # <<"none", 0>>
      PROVE  \E y \in Pid : x < y /\ waitsOn[y] # <<"none", 0>>
  <2>1. /\ pc[x] = "joined" /\ arg[x] \in Pid /\ ParentPID[arg[x]] = x
        /\ waitsOn[x] = ProcessSemaphore(x)
    BY <1>1, <1>3, <1>4, JoinedParent DEF Untimed
  <2>2. kpc[x] # "new" /\ pc[x] # "done"
    BY <1>1, <2>1 DEF Family, Stages
  <2>3. value[ProcessSemaphore(x)] = 0
    BY <1>2, <2>1, <2>2
  <2>4. ~Exited(arg[x]) /\ kpc[arg[x]] # "new"
    BY <2>1, <2>3 DEF Untimed, Joining
  <2>5. waitsOn[arg[x]] # <<"none", 0>>
    BY <1>2, <2>1, <2>4 DEF Exited
  <2>6. x < arg[x]
    BY <1>1, <2>1, Pids DEF Family, Parents
  <2>7. QED
    BY <2>1, <2>5, <2>6
<1>5. \A n \in Nat : \A x \in Pid : x > MaxProc - n => waitsOn[x] = <<"none", 0>>
  <2> DEFINE T == {n \in Nat : \A x \in Pid : x > MaxProc - n => waitsOn[x] = <<"none", 0>>}
  <2>1. 0 \in T
    <3>1. \A x \in Pid : ~(x > MaxProc - 0)
      BY Pids DEF Pid
    <3>2. QED
      BY <3>1
  <2>2. ASSUME NEW n \in Nat, n \in T PROVE n + 1 \in T
    <3>1. ASSUME NEW x \in Pid, x > MaxProc - (n + 1), waitsOn[x] # <<"none", 0>>
          PROVE  FALSE
      <4>1. PICK y \in Pid : x < y /\ waitsOn[y] # <<"none", 0>>
        BY <1>4, <3>1
      <4>2. y > MaxProc - n
        BY <3>1, <4>1, Pids
      <4>3. QED
        BY <2>2, <4>1, <4>2
    <3>2. QED
      BY <3>1
  <2> HIDE DEF T
  <2>3. \A n \in Nat : n \in T
    BY <2>1, <2>2, AI!SetInduction, ProcessMemory
  <2>4. QED
    BY <2>3 DEF T
<1>6. p > MaxProc - MaxProc
  BY Pids DEF Pid
<1>7. QED
  BY <1>5, <1>6, Pids

-----------------------------------------------------------------------------
(***************************************************************************)
(* Theorems for a machine without the timer (-rs is off)                   *)
(***************************************************************************)

\* What the theorems below rest on.
LEMMA UntimedAlways == Spec => [](~TimeSlice => Untimed)
<1>1. Init => (~TimeSlice => Untimed)
  BY UntimedInit
<1>2. (~TimeSlice => Untimed) /\ [Next]_vars => (~TimeSlice => Untimed)'
  BY UntimedNext
<1>3. QED
  BY <1>1, <1>2, PTL DEF Spec

\* Without the timer a process that Join finds in the PCB, and that has memory,
\* has not exited (ProcessList::Return, SC_Join).
THEOREM ListedProcessesLive == Spec => [](~TimeSlice => NoneDead)
<1>1. (~TimeSlice => Untimed) => (~TimeSlice => NoneDead)
  BY DEF Untimed
<1>2. QED
  BY <1>1, UntimedAlways, PTL

\* Without the timer, and if parents outlive their children, no Exit runs into
\* NULL when it looks for the parent to wake (AddrSpace::CleanupExit).
THEOREM ParentsAreFound == Spec => [](~TimeSlice => ExitFinds)
<1>1. (~TimeSlice => Untimed) => (~TimeSlice => ExitFinds)
  BY DEF Untimed
<1>2. QED
  BY <1>1, UntimedAlways, PTL

\* Without the timer, and if programs join only their own children and outlive
\* them, the machine halts only when every process is done: for any number of
\* processes no Join is left waiting, and no process for MutexNumProc (SC_Join,
\* SC_Exit).
THEOREM EveryJoinReturns == Spec => [](~TimeSlice => NobodyLeftOver)
<1>1. ASSUME Untimed, Orderly, halted, NEW p \in Pid, kpc[p] # "new"
      PROVE  pc[p] = "done"
  <2>1. waitsOn[p] = <<"none", 0>>
    BY <1>1, NobodyWaits
  <2>2. kpc[p] = "finish"
    BY <1>1, <2>1, ProcessKernel, KI!HaltedThreads DEF Untimed, Always
  <2>3. QED
    BY <1>1, <2>2 DEF Untimed, Finishing
<1>2. (~TimeSlice => Untimed) => (~TimeSlice => NobodyLeftOver)
  BY <1>1 DEF NobodyLeftOver
<1>3. QED
  BY <1>2, UntimedAlways, PTL
=============================================================================
