---------------------------- MODULE KernelProofs ----------------------------
(***************************************************************************)
(* Theorems about module Kernel, for any finite set of threads, any        *)
(* semaphores, with and without the timer.                                 *)
(***************************************************************************)
EXTENDS Kernel, FiniteSetTheorems, TLAPS

-----------------------------------------------------------------------------
(***************************************************************************)
(* Lists (List::Append, List::Remove)                                      *)
(***************************************************************************)

\* Appending x to a list adds x to its members.
LEMMA AppendMembers ==
    ASSUME NEW S, NEW seq \in Seq(S), NEW x \in S
    PROVE  Members(Append(seq, x)) = Members(seq) \cup {x}
<1> DEFINE new == Append(seq, x)
<1>1. /\ Len(new) = Len(seq) + 1
      /\ Len(seq) \in Nat
      /\ \A i \in 1..Len(seq) : new[i] = seq[i]
      /\ new[Len(seq) + 1] = x
  OBVIOUS
<1> HIDE DEF new
<1>2. ASSUME NEW y \in Members(new) PROVE y \in Members(seq) \cup {x}
  BY <1>1, <1>2 DEF Members
<1>3. ASSUME NEW y \in Members(seq) \cup {x} PROVE y \in Members(new)
  <2>1. CASE y = x
    <3>1. Len(seq) + 1 \in 1..Len(new)
      BY <1>1
    <3>2. QED
      BY <1>1, <2>1, <3>1 DEF Members
  <2>2. CASE y \in Members(seq)
    <3>1. PICK i \in 1..Len(seq) : y = seq[i]
      BY <2>2 DEF Members
    <3>2. i \in 1..Len(new) /\ new[i] = y
      BY <1>1, <3>1
    <3>3. QED
      BY <3>2 DEF Members
  <2>3. QED
    BY <1>3, <2>1, <2>2
<1>4. QED
  BY <1>2, <1>3 DEF new

\* Appending a new member keeps a list free of duplicates.
LEMMA AppendNoDuplicates ==
    ASSUME NEW S, NEW seq \in Seq(S), NEW x \in S,
           NoDuplicates(seq), x \notin Members(seq)
    PROVE  NoDuplicates(Append(seq, x))
BY DEF NoDuplicates, Members

\* The head is a member.
LEMMA HeadMember ==
    ASSUME NEW S, NEW seq \in Seq(S), seq # << >>
    PROVE  Head(seq) \in Members(seq) /\ Head(seq) \in S
BY DEF Members

\* Removing the head of a list without duplicates removes it for good.
LEMMA TailMembers ==
    ASSUME NEW S, NEW seq \in Seq(S), seq # << >>, NoDuplicates(seq)
    PROVE  Members(Tail(seq)) = Members(seq) \ {Head(seq)}
<1> DEFINE new == Tail(seq)
<1>1. /\ Len(seq) \in Nat \ {0}
      /\ Len(new) = Len(seq) - 1
      /\ \A i \in 1..Len(new) : new[i] = seq[i + 1]
      /\ Head(seq) = seq[1]
  OBVIOUS
<1> HIDE DEF new
<1>2. ASSUME NEW y \in Members(new) PROVE y \in Members(seq) \ {Head(seq)}
  <2>1. PICK i \in 1..Len(new) : y = new[i]
    BY <1>2 DEF Members
  <2>2. y = seq[i + 1] /\ i + 1 \in 1..Len(seq) /\ i + 1 # 1 /\ 1 \in 1..Len(seq)
    BY <1>1, <2>1
  <2>3. y # seq[1]
    BY <2>2 DEF NoDuplicates
  <2>4. QED
    BY <1>1, <2>2, <2>3 DEF Members
<1>3. ASSUME NEW y \in Members(seq) \ {Head(seq)} PROVE y \in Members(new)
  <2>1. PICK i \in 1..Len(seq) : y = seq[i]
    BY <1>3 DEF Members
  <2>2. i # 1
    BY <1>1, <1>3, <2>1
  <2>3. i - 1 \in 1..Len(new) /\ new[i - 1] = y
    BY <1>1, <2>1, <2>2
  <2>4. QED
    BY <2>3 DEF Members
<1>4. QED
  BY <1>2, <1>3 DEF new

\* Removing the head keeps a list free of duplicates.
LEMMA TailNoDuplicates ==
    ASSUME NEW S, NEW seq \in Seq(S), seq # << >>, NoDuplicates(seq)
    PROVE  NoDuplicates(Tail(seq)) /\ Tail(seq) \in Seq(S)
BY DEF NoDuplicates

-----------------------------------------------------------------------------
(***************************************************************************)
(* Types                                                                   *)
(***************************************************************************)

\* Run leaves the variables it sets in their types.
LEMMA RunType ==
    ASSUME TypeOK, NEW next \in Thread, NEW st \in [Thread -> Status],
           Run(next, st)
    PROVE  /\ currentThread' \in Thread
           /\ threadToBeDestroyed' \in Thread \cup {NoThread}
           /\ status' \in [Thread -> Status]
BY DEF Run, TypeOK, Status

\* Thread::Yield to the head of the ready list keeps the types.
LEMMA YieldToNextType ==
    ASSUME TypeOK, NEW t \in Thread, YieldToNext(t)
    PROVE  TypeOK'
<1>1. Head(readyList) \in Thread /\ Append(Tail(readyList), t) \in Seq(Thread)
  BY DEF TypeOK, YieldToNext
<1>2. [status EXCEPT ![t] = "READY"] \in [Thread -> Status]
  BY DEF TypeOK, Status
<1>3. Run(Head(readyList), [status EXCEPT ![t] = "READY"])
  BY DEF YieldToNext
<1>4. /\ currentThread' \in Thread
      /\ threadToBeDestroyed' \in Thread \cup {NoThread}
      /\ status' \in [Thread -> Status]
  BY <1>1, <1>2, <1>3, RunType
<1>5. QED
  BY <1>1, <1>4 DEF TypeOK, YieldToNext, Place

\* A turn of the loop of Semaphore::P keeps the types; the value is
\* decremented only when it is positive.
LEMMA PLoopType ==
    ASSUME TypeOK, NEW t \in Thread, NEW s \in Sem \cup {NoSem}, PLoop(t, s),
           UNCHANGED <<currentThread, threadToBeDestroyed, readyList, pending,
                       idle, halted>>
    PROVE  TypeOK'
<1>1. kpc' \in [Thread -> Place]
  BY DEF TypeOK, PLoop, Place
<1>2. waitsOn' \in [Thread -> Sem \cup {NoSem}]
  BY DEF TypeOK, PLoop
<1>3. status' \in [Thread -> Status]
  BY DEF TypeOK, PLoop, Status
<1>4. queue' \in [Sem -> Seq(Thread)]
  <2>1. \A q \in Seq(Thread) : Append(q, t) \in Seq(Thread)
    OBVIOUS
  <2>2. CASE queue' = queue
    BY <2>2 DEF TypeOK
  <2>3. CASE queue' = [queue EXCEPT ![s] = Append(@, t)]
    BY <2>1, <2>3 DEF TypeOK
  <2>4. QED
    BY <2>2, <2>3 DEF PLoop
<1>5. value' \in [Sem -> Nat]
  <2>1. CASE value' = value
    BY <2>1 DEF TypeOK
  <2>2. CASE value[s] > 0 /\ value' = [value EXCEPT ![s] = @ - 1]
    <3>1. value' = [i \in Sem |-> IF i = s THEN value[s] - 1 ELSE value[i]]
      BY <2>2 DEF TypeOK
    <3>2. \A i \in Sem : value[i] \in Nat
      BY DEF TypeOK
    <3>3. ASSUME s \in Sem PROVE value[s] - 1 \in Nat
      BY <2>2, <3>2, <3>3
    <3>4. QED
      BY <3>1, <3>2, <3>3
  <2>3. QED
    BY <2>1, <2>2 DEF PLoop
<1>6. QED
  BY <1>1, <1>2, <1>3, <1>4, <1>5 DEF TypeOK

\* The body of Semaphore::V keeps the types.
LEMMA VBodyType ==
    ASSUME TypeOK, NEW s \in Sem, VBody(s)
    PROVE  /\ queue' \in [Sem -> Seq(Thread)]
           /\ status' \in [Thread -> Status]
           /\ readyList' \in Seq(Thread)
           /\ value' \in [Sem -> Nat]
<1>1. value' \in [Sem -> Nat]
  BY DEF TypeOK, VBody
<1>2. CASE queue[s] = << >>
  BY <1>1, <1>2 DEF TypeOK, VBody
<1>3. CASE queue[s] # << >>
  <2>1. Head(queue[s]) \in Thread /\ Tail(queue[s]) \in Seq(Thread)
    BY <1>3 DEF TypeOK
  <2>2. queue' \in [Sem -> Seq(Thread)]
    <3>1. queue' = [queue EXCEPT ![s] = Tail(queue[s])]
      BY <1>3 DEF VBody
    <3>2. QED
      BY <2>1, <3>1 DEF TypeOK
  <2>3. status' \in [Thread -> Status]
    BY <1>3, <2>1 DEF TypeOK, VBody, Status
  <2>4. readyList' \in Seq(Thread)
    <3>1. readyList' = Append(readyList, Head(queue[s]))
      BY <1>3 DEF VBody
    <3>2. QED
      BY <2>1, <3>1 DEF TypeOK
  <2>5. QED
    BY <1>1, <2>2, <2>3, <2>4
<1>4. QED
  BY <1>2, <1>3

\* The initial state and every step are well typed.
LEMMA TypeInit == Init => TypeOK
<1> SUFFICES ASSUME Init PROVE TypeOK
  OBVIOUS
<1>1. << >> \in Seq(Thread)
  OBVIOUS
<1>2. /\ status \in [Thread -> Status]
      /\ kpc \in [Thread -> Place]
      /\ waitsOn \in [Thread -> Sem \cup {NoSem}]
      /\ queue \in [Sem -> Seq(Thread)]
  BY <1>1 DEF Init, Status, Place
<1>3. QED
  BY <1>1, <1>2, KernelAssumption DEF Init, TypeOK

(***************************************************************************)
(* What any client may do: Next without the bound that makes its states    *)
(* finite.  The modules that model a concrete client take such steps.      *)
(***************************************************************************)
Call(t) ==
    \/ \E u \in Thread : Fork(t, u)
    \/ Yield(t)
    \/ Finish(t)
    \/ \E s \in Sem : P(t, s)
    \/ \E s \in Sem : V(t, s)
    \/ \E s \in Device : Request(t, s)
    \/ UserTick(t)

ClientNext == (\E t \in Thread : KernelStep(t) \/ Call(t)) \/ Terminated

\* The most general client of Kernel is one.
LEMMA NextIsClient == [Next]_kvars => [ClientNext]_kvars
BY DEF Next, ClientNext, ThreadCall, Call

\* Every step of the kernel keeps the types.
LEMMA TypeNext == TypeOK /\ [ClientNext]_kvars => TypeOK'
<1> SUFFICES ASSUME TypeOK, [ClientNext]_kvars PROVE TypeOK'
  OBVIOUS
<1>1. ASSUME NEW t \in Thread, KernelStep(t) PROVE TypeOK'
  <2>1. CASE Enable(t)
    BY <2>1 DEF TypeOK, Enable, Place
  <2>2. CASE TimerYield(t)
    BY <2>2, YieldToNextType DEF TimerYield
  <2>3. ASSUME NEW s \in Device, Handler(s) PROVE idle' \in BOOLEAN => TypeOK'
    <3>1. s \in Sem
      BY KernelAssumption
    <3>2. VBody(s)
      BY <2>3 DEF Handler
    <3>3. QED
      BY <2>3, <3>1, <3>2, VBodyType DEF TypeOK, Handler
  <2>4. CASE \E s \in Device : TickInterrupt(t, s)
    BY <2>3, <2>4 DEF TickInterrupt, TypeOK
  <2>5. CASE SleepSwitch(t)
    <3>1. Head(readyList) \in Thread /\ Tail(readyList) \in Seq(Thread)
      BY <2>5 DEF TypeOK, SleepSwitch
    <3>2. Run(Head(readyList), status) /\ status \in [Thread -> Status]
      BY <2>5 DEF TypeOK, SleepSwitch
    <3>3. QED
      BY <2>5, <3>1, <3>2, RunType DEF TypeOK, SleepSwitch
  <2>6. CASE \E s \in Device : IdleInterrupt(t, s)
    BY <2>3, <2>6 DEF IdleInterrupt
  <2>7. CASE IdleHalt(t)
    BY <2>7 DEF TypeOK, IdleHalt
  <2>8. CASE PResume(t)
    <3>1. waitsOn[t] \in Sem \cup {NoSem}
      BY DEF TypeOK
    <3>2. QED
      BY <2>8, <3>1, PLoopType DEF PResume
  <2>9. QED
    BY <1>1, <2>1, <2>2, <2>4, <2>5, <2>6, <2>7, <2>8 DEF KernelStep
<1>2. ASSUME NEW t \in Thread, Call(t) PROVE TypeOK'
  <2>1. CASE \E u \in Thread : Fork(t, u)
    <3>1. PICK u \in Thread : Fork(t, u)
      BY <2>1
    <3>2. kpc' \in [Thread -> Place]
      BY <3>1 DEF TypeOK, Fork, Place
    <3>3. status' \in [Thread -> Status] /\ readyList' \in Seq(Thread)
      BY <3>1 DEF TypeOK, Fork, Status
    <3>4. QED
      BY <3>1, <3>2, <3>3 DEF TypeOK, Fork
  <2>2. CASE Yield(t)
    <3>1. CASE YieldToNext(t)
      BY <3>1, YieldToNextType
    <3>2. CASE ~YieldToNext(t)
      BY <2>2, <3>2 DEF TypeOK, Yield, Place
    <3>3. QED
      BY <3>1, <3>2
  <2>3. CASE Finish(t)
    BY <2>3 DEF TypeOK, Finish, Status, Place
  <2>4. CASE \E s \in Sem : P(t, s)
    BY <2>4, PLoopType DEF P
  <2>5. CASE \E s \in Sem : V(t, s)
    <3>1. PICK s \in Sem : V(t, s)
      BY <2>5
    <3>2. VBody(s)
      BY <3>1 DEF V
    <3>3. QED
      BY <3>1, <3>2, VBodyType DEF TypeOK, V, Place
  <2>6. CASE \E s \in Device : Request(t, s)
    BY <2>6 DEF TypeOK, Request
  <2>7. CASE UserTick(t)
    BY <2>7 DEF TypeOK, UserTick, Place
  <2>8. QED
    BY <1>2, <2>1, <2>2, <2>3, <2>4, <2>5, <2>6, <2>7 DEF Call
<1>3. CASE UNCHANGED kvars
  BY <1>3 DEF TypeOK, kvars
<1>4. QED
  BY <1>1, <1>2, <1>3 DEF ClientNext, Terminated

\* In every reachable state of the kernel the variables have their types; in
\* particular no semaphore value is ever negative (Semaphore::P decrements
\* only after its while loop has found value > 0).
THEOREM TypeCorrect == Spec => []TypeOK
<1>1. QED
  BY TypeInit, TypeNext, NextIsClient, PTL DEF Spec

-----------------------------------------------------------------------------
(***************************************************************************)
(* Where the threads are.  OnePlace and CarcassSafe are inductive only     *)
(* together with what the status of a thread says of its kernel stack.     *)
(***************************************************************************)
StackPlace ==
    \A t \in Thread :
        /\ kpc[t] = "P" <=> waitsOn[t] # NoSem
        /\ status[t] = "JUST_CREATED" <=> kpc[t] = "new"
        /\ status[t] = "BLOCKED" => kpc[t] \in {"P", "finish"}

PlaceInv == TypeOK /\ OnePlace /\ StackPlace /\ CarcassSafe

\* The current thread is RUNNING when it runs its own code or ticks.
LEMMA CurrentRuns ==
    ASSUME PlaceInv, kpc[currentThread] \in {"root", "body", "enable"}
    PROVE  status[currentThread] = "RUNNING"
BY DEF PlaceInv, OnePlace, CpuPlace

\* The invariant holds when Initialize() has made the main thread.
LEMMA PlaceInit == Init => PlaceInv
<1> SUFFICES ASSUME Init PROVE PlaceInv
  OBVIOUS
<1>1. TypeOK
  BY TypeInit
<1>2. Members(<< >>) = {} /\ NoDuplicates(<< >>)
  BY DEF Members, NoDuplicates
<1>3. ReadyPlace
  BY <1>2 DEF Init, ReadyPlace
<1>4. QueuePlace
  BY <1>2 DEF Init, QueuePlace
<1>5. CpuPlace /\ StackPlace /\ CarcassSafe
  BY KernelAssumption DEF Init, CpuPlace, StackPlace, CarcassSafe
<1>6. QED
  BY <1>1, <1>3, <1>4, <1>5 DEF PlaceInv, OnePlace

\* A step that only moves the kernel stack of the running thread between
\* "root", "body" and "enable".
LEMMA StackStepPlace ==
    ASSUME PlaceInv, TypeOK', NEW k \in {"body", "enable"},
           kpc[currentThread] \in {"root", "body", "enable"},
           kpc' = [kpc EXCEPT ![currentThread] = k],
           UNCHANGED <<currentThread, threadToBeDestroyed, readyList, status,
                       waitsOn, queue>>
    PROVE  PlaceInv'
<1> USE DEF PlaceInv, OnePlace
<1>1. status[currentThread] = "RUNNING" /\ currentThread \in Thread
  BY CurrentRuns DEF TypeOK
<1>2. \A u \in Thread : kpc'[u] = IF u = currentThread THEN k ELSE kpc[u]
  BY DEF TypeOK
<1>3. ReadyPlace'
  BY DEF ReadyPlace
<1>4. QueuePlace'
  BY <1>1, <1>2 DEF QueuePlace
<1>5. CpuPlace'
  BY <1>1 DEF CpuPlace, TypeOK
<1>6. StackPlace'
  BY <1>1, <1>2 DEF StackPlace
<1>7. CarcassSafe'
  BY <1>1, <1>2, KernelAssumption DEF CarcassSafe, TypeOK
<1>8. QED
  BY <1>3, <1>4, <1>5, <1>6, <1>7

\* Thread::Fork keeps every thread in one place.
LEMMA ForkPlace ==
    ASSUME PlaceInv, TypeOK', NEW t \in Thread, NEW u \in Thread, Fork(t, u)
    PROVE  PlaceInv'
<1> USE DEF PlaceInv, OnePlace
<1>1. /\ t = currentThread /\ kpc[t] = "body" /\ status[t] = "RUNNING"
      /\ kpc[u] = "new" /\ status[u] = "JUST_CREATED" /\ u # t
  BY CurrentRuns DEF Fork, AtBody, StackPlace
<1>2. \A x \in Thread :
        /\ kpc'[x] = IF x = t THEN "enable" ELSE IF x = u THEN "root" ELSE kpc[x]
        /\ status'[x] = IF x = u THEN "READY" ELSE status[x]
  BY <1>1 DEF TypeOK, Fork
<1>3. /\ Members(readyList') = Members(readyList) \cup {u}
      /\ u \notin Members(readyList)
      /\ NoDuplicates(readyList')
  <2>1. u \notin Members(readyList)
    BY <1>1 DEF ReadyPlace
  <2>2. QED
    BY <2>1, AppendMembers, AppendNoDuplicates DEF Fork, TypeOK, ReadyPlace
<1>4. ReadyPlace'
  BY <1>2, <1>3 DEF ReadyPlace
<1>5. QueuePlace'
  <2>1. queue' = queue /\ waitsOn' = waitsOn
    BY DEF Fork
  <2>2. ASSUME NEW s \in Sem, NEW x \in Thread
        PROVE  x \in Members(queue[s]) <=>
                  status'[x] = "BLOCKED" /\ kpc'[x] = "P" /\ waitsOn[x] = s
    BY <1>1, <1>2 DEF QueuePlace
  <2>3. QED
    BY <2>1, <2>2 DEF QueuePlace
<1>6. CpuPlace'
  BY <1>1, <1>2 DEF CpuPlace, Fork, TypeOK
<1>7. StackPlace'
  <2>1. waitsOn' = waitsOn
    BY DEF Fork
  <2>2. QED
    BY <1>1, <1>2, <2>1 DEF StackPlace
<1>8. CarcassSafe'
  BY <1>1, <1>2, KernelAssumption DEF CarcassSafe, Fork, TypeOK
<1>9. QED
  BY <1>4, <1>5, <1>6, <1>7, <1>8

\* Thread::Finish keeps every thread in one place.
LEMMA FinishPlace ==
    ASSUME PlaceInv, TypeOK', NEW t \in Thread, Finish(t)
    PROVE  PlaceInv'
<1> USE DEF PlaceInv, OnePlace
<1>1. t = currentThread /\ kpc[t] = "body" /\ status[t] = "RUNNING"
  BY CurrentRuns DEF Finish, AtBody
<1>2. \A x \in Thread :
        /\ kpc'[x] = IF x = t THEN "finish" ELSE kpc[x]
        /\ status'[x] = IF x = t THEN "BLOCKED" ELSE status[x]
  BY DEF TypeOK, Finish
<1>3. ReadyPlace'
  BY <1>1, <1>2 DEF ReadyPlace, Finish
<1>4. QueuePlace'
  BY <1>1, <1>2 DEF QueuePlace, Finish
<1>5. CpuPlace'
  BY <1>1, <1>2 DEF CpuPlace, Finish, TypeOK
<1>6. StackPlace'
  BY <1>1, <1>2 DEF StackPlace, Finish
<1>7. CarcassSafe'
  BY <1>1, <1>2, KernelAssumption DEF CarcassSafe, Finish, TypeOK
<1>8. QED
  BY <1>3, <1>4, <1>5, <1>6, <1>7

\* One turn of the loop of P by the running thread.
LEMMA PLoopPlace ==
    ASSUME PlaceInv, TypeOK', NEW t \in Thread, NEW s \in Sem, PLoop(t, s),
           t = currentThread, status[t] = "RUNNING",
           \/ kpc[t] = "body"
           \/ kpc[t] = "P" /\ waitsOn[t] = s,
           UNCHANGED <<currentThread, threadToBeDestroyed, readyList>>
    PROVE  PlaceInv'
<1> USE DEF PlaceInv, OnePlace
<1>0. s # NoSem
  BY KernelAssumption
<1>1. CASE value[s] = 0 /\ queue' = [queue EXCEPT ![s] = Append(@, t)]
           /\ status' = [status EXCEPT ![t] = "BLOCKED"]
           /\ kpc' = [kpc EXCEPT ![t] = "P"]
           /\ waitsOn' = [waitsOn EXCEPT ![t] = s]
  <2>1. \A x \in Thread :
          /\ kpc'[x] = IF x = t THEN "P" ELSE kpc[x]
          /\ status'[x] = IF x = t THEN "BLOCKED" ELSE status[x]
          /\ waitsOn'[x] = IF x = t THEN s ELSE waitsOn[x]
    BY <1>1 DEF TypeOK
  <2>2. /\ Members(Append(queue[s], t)) = Members(queue[s]) \cup {t}
        /\ NoDuplicates(Append(queue[s], t))
    <3>1. queue[s] \in Seq(Thread) /\ t \notin Members(queue[s])
          /\ NoDuplicates(queue[s])
      BY DEF TypeOK, QueuePlace
    <3>2. QED
      BY <3>1, AppendMembers, AppendNoDuplicates
  <2>3. ReadyPlace'
    BY <2>1 DEF ReadyPlace
  <2>4. QueuePlace'
    <3>1. \A r \in Sem : queue'[r] = IF r = s THEN Append(queue[s], t) ELSE queue[r]
      BY <1>1 DEF TypeOK
    <3>2. ASSUME NEW r \in Sem PROVE NoDuplicates(queue'[r])
      BY <2>2, <3>1 DEF QueuePlace
    <3>3. ASSUME NEW r \in Sem
          PROVE  Members(queue'[r]) =
                    IF r = s THEN Members(queue[s]) \cup {t} ELSE Members(queue[r])
      BY <2>2, <3>1
    <3>4. ASSUME NEW r \in Sem, NEW x \in Thread
          PROVE  x \in Members(queue'[r]) <=>
                    status'[x] = "BLOCKED" /\ kpc'[x] = "P" /\ waitsOn'[x] = r
      BY <2>1, <3>3 DEF QueuePlace
    <3>5. QED
      BY <3>2, <3>4 DEF QueuePlace
  <2>5. CpuPlace'
    BY <2>1 DEF CpuPlace
  <2>6. StackPlace'
    BY <1>0, <2>1 DEF StackPlace
  <2>7. CarcassSafe'
    BY <2>1, KernelAssumption DEF CarcassSafe, TypeOK
  <2>8. QED
    BY <2>3, <2>4, <2>5, <2>6, <2>7
<1>2. CASE value[s] > 0 /\ queue' = queue /\ status' = status
           /\ kpc' = [kpc EXCEPT ![t] = "enable"]
           /\ waitsOn' = [waitsOn EXCEPT ![t] = NoSem]
  <2>1. \A x \in Thread :
          /\ kpc'[x] = IF x = t THEN "enable" ELSE kpc[x]
          /\ waitsOn'[x] = IF x = t THEN NoSem ELSE waitsOn[x]
    BY <1>2 DEF TypeOK
  <2>2. ReadyPlace'
    BY <1>2 DEF ReadyPlace
  <2>3. QueuePlace'
    BY <1>2, <2>1 DEF QueuePlace
  <2>4. CpuPlace'
    BY <1>2, <2>1 DEF CpuPlace
  <2>5. StackPlace'
    BY <1>2, <2>1 DEF StackPlace
  <2>6. CarcassSafe'
    BY <1>2, <2>1, KernelAssumption DEF CarcassSafe, TypeOK
  <2>7. QED
    BY <2>2, <2>3, <2>4, <2>5, <2>6
<1>3. QED
  BY <1>1, <1>2 DEF PLoop

\* V moves the head of the queue to the ready list, whether a thread calls it
\* (and is then about to re-enable interrupts) or an interrupt handler.
LEMMA VBodyPlace ==
    ASSUME PlaceInv, NEW s \in Sem, VBody(s), TypeOK',
           UNCHANGED <<currentThread, threadToBeDestroyed, waitsOn>>,
           \/ kpc' = kpc
           \/ /\ kpc[currentThread] = "body"
              /\ kpc' = [kpc EXCEPT ![currentThread] = "enable"]
    PROVE  PlaceInv'
<1> USE DEF PlaceInv, OnePlace
<1>0. \A x \in Thread :
        \/ kpc'[x] = kpc[x]
        \/ /\ x = currentThread
           /\ kpc[x] = "body" /\ kpc'[x] = "enable"
           /\ status[x] = "RUNNING"
  BY CurrentRuns DEF TypeOK
<1>1. CASE queue[s] = << >>
  <2>1. UNCHANGED <<queue, status, readyList>>
    BY <1>1 DEF VBody
  <2>2. ReadyPlace'
    BY <2>1 DEF ReadyPlace
  <2>3. QueuePlace'
    BY <1>0, <2>1 DEF QueuePlace
  <2>4. CpuPlace'
    BY <1>0, <2>1 DEF CpuPlace, TypeOK
  <2>5. StackPlace'
    BY <1>0, <2>1 DEF StackPlace
  <2>6. CarcassSafe'
    BY <1>0, <2>1, KernelAssumption DEF CarcassSafe, TypeOK
  <2>7. QED
    BY <2>2, <2>3, <2>4, <2>5, <2>6
<1>2. CASE queue[s] # << >>
  <2> DEFINE h == Head(queue[s])
  <2>1. queue[s] \in Seq(Thread) /\ NoDuplicates(queue[s])
    BY DEF TypeOK, QueuePlace
  <2>2. h \in Thread /\ h \in Members(queue[s])
    BY <1>2, <2>1, HeadMember
  <2>3. status[h] = "BLOCKED" /\ kpc[h] = "P" /\ waitsOn[h] = s
    BY <2>2 DEF QueuePlace
  <2>4. /\ queue' = [queue EXCEPT ![s] = Tail(queue[s])]
        /\ status' = [status EXCEPT ![h] = "READY"]
        /\ readyList' = Append(readyList, h)
    BY <1>2 DEF VBody
  <2> HIDE DEF h
  <2>5. \A x \in Thread : status'[x] = IF x = h THEN "READY" ELSE status[x]
    BY <2>2, <2>4 DEF TypeOK
  <2>6. /\ Members(readyList') = Members(readyList) \cup {h}
        /\ NoDuplicates(readyList')
    <3>1. h \notin Members(readyList)
      BY <2>2, <2>3 DEF ReadyPlace
    <3>2. QED
      BY <2>2, <2>4, <3>1, AppendMembers, AppendNoDuplicates DEF TypeOK, ReadyPlace
  <2>7. /\ Members(Tail(queue[s])) = Members(queue[s]) \ {h}
        /\ NoDuplicates(Tail(queue[s]))
    BY <1>2, <2>1, TailMembers, TailNoDuplicates DEF h
  <2>8. ReadyPlace'
    BY <2>5, <2>6 DEF ReadyPlace
  <2>9. QueuePlace'
    <3>1. \A r \in Sem : queue'[r] = IF r = s THEN Tail(queue[s]) ELSE queue[r]
      BY <2>4 DEF TypeOK
    <3>2. ASSUME NEW r \in Sem PROVE NoDuplicates(queue'[r])
      BY <2>7, <3>1 DEF QueuePlace
    <3>3. ASSUME NEW r \in Sem
          PROVE  Members(queue'[r]) =
                    IF r = s THEN Members(queue[s]) \ {h} ELSE Members(queue[r])
      BY <2>7, <3>1
    <3>4. ASSUME NEW r \in Sem, NEW x \in Thread
          PROVE  x \in Members(queue'[r]) <=>
                    status'[x] = "BLOCKED" /\ kpc'[x] = "P" /\ waitsOn[x] = r
      BY <1>0, <2>3, <2>5, <3>3 DEF QueuePlace
    <3>5. QED
      BY <3>2, <3>4 DEF QueuePlace
  <2>10. CpuPlace'
    BY <1>0, <2>3, <2>5 DEF CpuPlace, TypeOK
  <2>11. StackPlace'
    BY <1>0, <2>3, <2>5 DEF StackPlace
  <2>12. CarcassSafe'
    BY <1>0, <2>3, <2>5, KernelAssumption DEF CarcassSafe, TypeOK
  <2>13. QED
    BY <2>8, <2>9, <2>10, <2>11, <2>12
<1>3. QED
  BY <1>1, <1>2

\* What Run does to the status of each thread when it dispatches the head of
\* the ready list: the carcass is never the thread it switches to.
LEMMA RunStatus ==
    ASSUME PlaceInv, readyList # << >>, NEW st \in [Thread -> Status],
           Run(Head(readyList), st)
    PROVE  /\ Head(readyList) \in Thread
           /\ status[Head(readyList)] = "READY"
           /\ Head(readyList) # threadToBeDestroyed
           /\ currentThread' = Head(readyList)
           /\ \A x \in Thread :
                \/ status'[x] = IF x = Head(readyList) THEN "RUNNING" ELSE st[x]
                \/ /\ status'[x] = "DELETED"
                   /\ kpc[x] = "finish" /\ x # Head(readyList)
                   /\ threadToBeDestroyed' = NoThread
           /\ \/ threadToBeDestroyed' = threadToBeDestroyed
              \/ threadToBeDestroyed' = NoThread
           /\ \A x \in Thread : st[x] = "DELETED" /\ status[x] = "DELETED"
                => status'[x] = "DELETED"
<1> USE DEF PlaceInv, OnePlace
<1>1. Head(readyList) \in Thread /\ Head(readyList) \in Members(readyList)
  BY HeadMember DEF TypeOK
<1>2. status[Head(readyList)] = "READY"
  BY <1>1 DEF ReadyPlace
<1>3. threadToBeDestroyed # NoThread =>
        kpc[threadToBeDestroyed] = "finish" /\ threadToBeDestroyed \in Thread
  BY DEF CarcassSafe, TypeOK
<1>4. Head(readyList) # threadToBeDestroyed
  BY <1>1, <1>2, <1>3, KernelAssumption DEF CarcassSafe
<1>5. currentThread' = Head(readyList)
  BY DEF Run
<1>6. CASE kpc[Head(readyList)] = "root"
  <2>1. /\ \A x \in Thread :
              status'[x] = IF x = Head(readyList) THEN "RUNNING" ELSE st[x]
        /\ threadToBeDestroyed' = threadToBeDestroyed
    BY <1>1, <1>6 DEF Run
  <2>2. QED
    BY <1>1, <1>2, <1>4, <1>5, <2>1
<1>7. CASE kpc[Head(readyList)] # "root"
  <2>1. /\ \A x \in Thread :
              status'[x] = IF x = threadToBeDestroyed THEN "DELETED"
                           ELSE IF x = Head(readyList) THEN "RUNNING" ELSE st[x]
        /\ threadToBeDestroyed' = NoThread
    BY <1>7 DEF Run
  <2>2. \A x \in Thread : x = threadToBeDestroyed => kpc[x] = "finish"
    BY <1>3, KernelAssumption
  <2>3. QED
    BY <1>1, <1>2, <1>4, <1>5, <2>1, <2>2
<1>8. QED
  BY <1>6, <1>7

\* Thread::Yield keeps every thread in one place: the caller and the head
\* of the ready list change places.
LEMMA YieldToNextPlace ==
    ASSUME PlaceInv, TypeOK', NEW t \in Thread, YieldToNext(t),
           t = currentThread, kpc[t] \in {"root", "body", "enable"}
    PROVE  PlaceInv'
<1> USE DEF PlaceInv, OnePlace
<1> DEFINE h  == Head(readyList)
           st == [status EXCEPT ![t] = "READY"]
<1>1. status[t] = "RUNNING"
  BY CurrentRuns
<1>2. /\ readyList # << >> /\ st \in [Thread -> Status] /\ Run(h, st)
      /\ UNCHANGED <<waitsOn, queue>>
  BY DEF YieldToNext, TypeOK, Status
<1>3. \A x \in Thread : st[x] = IF x = t THEN "READY" ELSE status[x]
  BY DEF TypeOK
<1>4. \A x \in Thread : kpc'[x] = IF x = t THEN "enable" ELSE kpc[x]
  BY DEF YieldToNext, TypeOK
<1>5. /\ Members(readyList') = (Members(readyList) \ {h}) \cup {t}
      /\ NoDuplicates(readyList')
      /\ h \in Members(readyList)
  <2>1. readyList \in Seq(Thread) /\ NoDuplicates(readyList)
    BY DEF TypeOK, ReadyPlace
  <2>2. /\ Members(Tail(readyList)) = Members(readyList) \ {h}
        /\ NoDuplicates(Tail(readyList)) /\ Tail(readyList) \in Seq(Thread)
    BY <1>2, <2>1, TailMembers, TailNoDuplicates
  <2>3. t \notin Members(Tail(readyList))
    BY <1>1, <2>2 DEF ReadyPlace
  <2>4. h \in Members(readyList)
    BY <1>2, <2>1, HeadMember
  <2>5. readyList' = Append(Tail(readyList), t)
    BY DEF YieldToNext
  <2>6. Members(readyList') = Members(Tail(readyList)) \cup {t}
    <3>1. PICK rest \in Seq(Thread) : rest = Tail(readyList)
      BY <2>2
    <3>2. Members(Append(rest, t)) = Members(rest) \cup {t}
      BY AppendMembers
    <3>3. QED
      BY <2>5, <3>1, <3>2
  <2>7. NoDuplicates(readyList')
    BY <2>2, <2>3, <2>5, AppendNoDuplicates
  <2>8. QED
    BY <2>2, <2>4, <2>6, <2>7
<1>6. /\ h \in Thread /\ status[h] = "READY" /\ h # threadToBeDestroyed
      /\ currentThread' = h
      /\ \A x \in Thread :
           \/ status'[x] = IF x = h THEN "RUNNING" ELSE st[x]
           \/ /\ status'[x] = "DELETED" /\ kpc[x] = "finish" /\ x # h
              /\ threadToBeDestroyed' = NoThread
      /\ \/ threadToBeDestroyed' = threadToBeDestroyed
         \/ threadToBeDestroyed' = NoThread
  BY <1>2, RunStatus
<1> HIDE DEF h, st
<1>7. \A x \in Thread : kpc[x] = "finish" => status[x] \in {"BLOCKED", "DELETED"}
  BY DEF CarcassSafe
<1>8. ReadyPlace'
  <2>1. ASSUME NEW x \in Thread
        PROVE  x \in Members(readyList') <=> status'[x] = "READY"
    BY <1>1, <1>3, <1>5, <1>6, <1>7 DEF ReadyPlace
  <2>2. QED
    BY <1>5, <2>1 DEF ReadyPlace
<1>9. QueuePlace'
  <2>1. ASSUME NEW s \in Sem, NEW x \in Thread
        PROVE  x \in Members(queue[s]) <=>
                  status'[x] = "BLOCKED" /\ kpc'[x] = "P" /\ waitsOn[x] = s
    BY <1>1, <1>3, <1>4, <1>6 DEF QueuePlace
  <2>2. QED
    BY <1>2, <2>1 DEF QueuePlace
<1>10. CpuPlace'
  <2>1. ASSUME NEW x \in Thread, status'[x] = "RUNNING" PROVE x = h
    BY <1>1, <1>3, <1>6, <2>1 DEF CpuPlace
  <2>2. status'[h] = "RUNNING"
    BY <1>6
  <2>3. QED
    BY <1>6, <2>1, <2>2 DEF CpuPlace
<1>11. StackPlace'
  <2>1. ASSUME NEW x \in Thread
        PROVE  /\ kpc'[x] = "P" <=> waitsOn[x] # NoSem
               /\ status'[x] = "JUST_CREATED" <=> kpc'[x] = "new"
               /\ status'[x] = "BLOCKED" => kpc'[x] \in {"P", "finish"}
    BY <1>1, <1>3, <1>4, <1>6 DEF StackPlace
  <2>2. QED
    BY <1>2, <2>1 DEF StackPlace
<1>12. CarcassSafe'
  <2>1. ASSUME NEW x \in Thread
        PROVE  /\ kpc'[x] = "finish" => status'[x] \in {"BLOCKED", "DELETED"}
               /\ status'[x] = "DELETED" =>
                    kpc'[x] = "finish" /\ x # h /\ x # threadToBeDestroyed'
    BY <1>1, <1>3, <1>4, <1>6, KernelAssumption DEF CarcassSafe, TypeOK
  <2>2. threadToBeDestroyed' # NoThread => kpc'[threadToBeDestroyed'] = "finish"
    BY <1>4, <1>6 DEF CarcassSafe, TypeOK
  <2>3. QED
    BY <1>6, <2>1, <2>2 DEF CarcassSafe
<1>13. QED
  BY <1>8, <1>9, <1>10, <1>11, <1>12

\* The switch at the end of Thread::Sleep keeps every thread in one place.
LEMMA SleepSwitchPlace ==
    ASSUME PlaceInv, TypeOK', NEW t \in Thread, SleepSwitch(t)
    PROVE  PlaceInv'
<1> USE DEF PlaceInv, OnePlace
<1> DEFINE h  == Head(readyList)
<1>1. t = currentThread /\ status[t] # "RUNNING"
  BY DEF SleepSwitch, Sleeping
<1>2. /\ readyList # << >> /\ status \in [Thread -> Status] /\ Run(h, status)
      /\ UNCHANGED <<waitsOn, queue, kpc>>
  BY DEF SleepSwitch, TypeOK
<1>3. /\ Members(readyList') = Members(readyList) \ {h}
      /\ NoDuplicates(readyList')
      /\ h \in Members(readyList)
  <2>1. readyList \in Seq(Thread) /\ NoDuplicates(readyList)
    BY DEF TypeOK, ReadyPlace
  <2>2. QED
    BY <1>2, <2>1, HeadMember, TailMembers, TailNoDuplicates DEF SleepSwitch
<1>4. /\ h \in Thread /\ status[h] = "READY" /\ h # threadToBeDestroyed
      /\ currentThread' = h
      /\ \A x \in Thread :
           \/ status'[x] = IF x = h THEN "RUNNING" ELSE status[x]
           \/ /\ status'[x] = "DELETED" /\ kpc[x] = "finish" /\ x # h
              /\ threadToBeDestroyed' = NoThread
      /\ \/ threadToBeDestroyed' = threadToBeDestroyed
         \/ threadToBeDestroyed' = NoThread
  BY <1>2, RunStatus
<1> HIDE DEF h
<1>5. \A x \in Thread : kpc[x] = "finish" => status[x] \in {"BLOCKED", "DELETED"}
  BY DEF CarcassSafe
<1>6. ReadyPlace'
  <2>1. ASSUME NEW x \in Thread
        PROVE  x \in Members(readyList') <=> status'[x] = "READY"
    BY <1>3, <1>4, <1>5 DEF ReadyPlace
  <2>2. QED
    BY <1>3, <2>1 DEF ReadyPlace
<1>7. QueuePlace'
  <2>1. ASSUME NEW s \in Sem, NEW x \in Thread
        PROVE  x \in Members(queue[s]) <=>
                  status'[x] = "BLOCKED" /\ kpc[x] = "P" /\ waitsOn[x] = s
    BY <1>4 DEF QueuePlace
  <2>2. QED
    BY <1>2, <2>1 DEF QueuePlace
<1>8. CpuPlace'
  <2>1. ASSUME NEW x \in Thread, status'[x] = "RUNNING" PROVE x = h
    BY <1>1, <1>4, <2>1 DEF CpuPlace
  <2>2. status'[h] = "RUNNING"
    BY <1>4
  <2>3. QED
    BY <1>4, <2>1, <2>2 DEF CpuPlace
<1>9. StackPlace'
  <2>1. ASSUME NEW x \in Thread
        PROVE  /\ status'[x] = "JUST_CREATED" <=> kpc[x] = "new"
               /\ status'[x] = "BLOCKED" => kpc[x] \in {"P", "finish"}
    BY <1>4 DEF StackPlace
  <2>2. QED
    BY <1>2, <2>1 DEF StackPlace
<1>10. CarcassSafe'
  <2>1. ASSUME NEW x \in Thread
        PROVE  /\ kpc[x] = "finish" => status'[x] \in {"BLOCKED", "DELETED"}
               /\ status'[x] = "DELETED" =>
                    kpc[x] = "finish" /\ x # h /\ x # threadToBeDestroyed'
    BY <1>4, KernelAssumption DEF CarcassSafe, TypeOK
  <2>2. threadToBeDestroyed' # NoThread => kpc[threadToBeDestroyed'] = "finish"
    BY <1>4 DEF CarcassSafe, TypeOK
  <2>3. QED
    BY <1>2, <1>4, <2>1, <2>2 DEF CarcassSafe
<1>11. QED
  BY <1>6, <1>7, <1>8, <1>9, <1>10

\* Every step keeps every thread in its place.
LEMMA PlaceNext == PlaceInv /\ [ClientNext]_kvars => PlaceInv'
<1> SUFFICES ASSUME PlaceInv, [ClientNext]_kvars PROVE PlaceInv'
  OBVIOUS
<1>0. TypeOK /\ TypeOK'
  BY TypeNext DEF PlaceInv
<1>1. ASSUME NEW t \in Thread, KernelStep(t) PROVE PlaceInv'
  <2>1. CASE Enable(t)
    BY <1>0, <2>1, StackStepPlace DEF Enable, AtTick
  <2>2. CASE TimerYield(t)
    BY <1>0, <2>2, YieldToNextPlace DEF TimerYield, AtTick
  <2>3. ASSUME NEW s \in Device, Handler(s) PROVE PlaceInv'
    <3>1. s \in Sem
      BY KernelAssumption
    <3>2. QED
      BY <1>0, <2>3, <3>1, VBodyPlace DEF Handler
  <2>4. CASE \E s \in Device : TickInterrupt(t, s)
    BY <2>3, <2>4 DEF TickInterrupt
  <2>5. CASE SleepSwitch(t)
    BY <1>0, <2>5, SleepSwitchPlace
  <2>6. CASE \E s \in Device : IdleInterrupt(t, s)
    BY <2>3, <2>6 DEF IdleInterrupt
  <2>7. CASE IdleHalt(t)
    BY <1>0, <2>7 DEF IdleHalt, PlaceInv, OnePlace, ReadyPlace, QueuePlace,
                      CpuPlace, StackPlace, CarcassSafe
  <2>8. CASE PResume(t)
    <3>1. waitsOn[t] \in Sem
      BY <1>0, <2>8 DEF PResume, PlaceInv, StackPlace, TypeOK
    <3>2. QED
      BY <1>0, <2>8, <3>1, PLoopPlace DEF PResume
  <2>9. QED
    BY <1>1, <2>1, <2>2, <2>4, <2>5, <2>6, <2>7, <2>8 DEF KernelStep
<1>2. ASSUME NEW t \in Thread, Call(t) PROVE PlaceInv'
  <2>1. CASE \E u \in Thread : Fork(t, u)
    BY <1>0, <2>1, ForkPlace
  <2>2. CASE Yield(t)
    <3>1. CASE YieldToNext(t)
      BY <1>0, <2>2, <3>1, YieldToNextPlace DEF Yield, AtBody
    <3>2. CASE ~YieldToNext(t)
      BY <1>0, <2>2, <3>2, StackStepPlace DEF Yield, AtBody
    <3>3. QED
      BY <3>1, <3>2
  <2>3. CASE Finish(t)
    BY <1>0, <2>3, FinishPlace
  <2>4. CASE \E s \in Sem : P(t, s)
    <3>1. PICK s \in Sem : P(t, s)
      BY <2>4
    <3>2. status[t] = "RUNNING"
      BY <3>1, CurrentRuns DEF P, AtBody
    <3>3. QED
      BY <1>0, <3>1, <3>2, PLoopPlace DEF P, AtBody
  <2>5. CASE \E s \in Sem : V(t, s)
    BY <1>0, <2>5, VBodyPlace DEF V, AtBody
  <2>6. CASE \E s \in Device : Request(t, s)
    BY <1>0, <2>6 DEF Request, PlaceInv, OnePlace, ReadyPlace, QueuePlace,
                      CpuPlace, StackPlace, CarcassSafe
  <2>7. CASE UserTick(t)
    BY <1>0, <2>7, StackStepPlace DEF UserTick, AtBody
  <2>8. QED
    BY <1>2, <2>1, <2>2, <2>3, <2>4, <2>5, <2>6, <2>7 DEF Call
<1>3. CASE UNCHANGED kvars
  BY <1>0, <1>3 DEF kvars, PlaceInv, OnePlace, ReadyPlace, QueuePlace,
                    CpuPlace, StackPlace, CarcassSafe
<1>4. QED
  BY <1>1, <1>2, <1>3 DEF ClientNext, Terminated

\* The inductive invariant holds in every state of the kernel.
LEMMA PlaceAlways == Spec => []PlaceInv
BY PlaceInit, PlaceNext, NextIsClient, PTL DEF Spec

\* Every thread is always in exactly one place: the CPU, the ready list or
\* the queue of the one semaphore it waits on (Semaphore::P and V,
\* Scheduler::ReadyToRun, FindNextToRun and Run).
THEOREM EveryThreadHasOnePlace == Spec => []OnePlace
<1>1. PlaceInv => OnePlace
  BY DEF PlaceInv
<1>2. QED
  BY PlaceAlways, <1>1, PTL

\* A finished thread never runs again and a deleted one is neither current
\* nor still to be deleted (Thread::Finish, Scheduler::Run, ~Thread).
THEOREM CarcassesAreSafe == Spec => []CarcassSafe
<1>1. PlaceInv => CarcassSafe
  BY DEF PlaceInv
<1>2. QED
  BY PlaceAlways, <1>1, PTL

-----------------------------------------------------------------------------
(***************************************************************************)
(* No wakeup is lost, and the machine halts only when nothing can run.     *)
(***************************************************************************)

\* The threads on their way are finitely many.
LEMMA WokenFinite == \A s : IsFiniteSet(Woken(s)) /\ Cardinality(Woken(s)) \in Nat
<1> TAKE s
<1>1. Woken(s) \subseteq Thread
  BY DEF Woken
<1>2. QED
  BY <1>1, KernelAssumption, FS_Subset, FS_CardinalityType

\* A step that changes no value, no queue and no set of woken threads.
LEMMA QuietWakeup ==
    ASSUME PlaceInv, NoLostWakeup, UNCHANGED <<value, queue, waitsOn>>,
           \A x \in Thread :
               kpc[x] = "P" \/ kpc'[x] = "P" =>
                   kpc'[x] = kpc[x] /\ (status[x] = "BLOCKED" <=> status'[x] = "BLOCKED")
    PROVE  NoLostWakeup'
<1>1. ASSUME NEW s \in Sem PROVE Woken(s)' = Woken(s)
  BY DEF Woken
<1>2. QED
  BY <1>1 DEF NoLostWakeup

\* A dispatch (Scheduler::Run) loses no wakeup: it moves no thread from or
\* to the queue of a semaphore.
LEMMA DispatchWakeup ==
    ASSUME PlaceInv, NoLostWakeup, readyList # << >>,
           NEW st \in [Thread -> Status], Run(Head(readyList), st),
           UNCHANGED <<value, queue, waitsOn>>,
           \A x \in Thread :
               kpc[x] = "P" \/ kpc'[x] = "P" => kpc'[x] = kpc[x] /\ st[x] = status[x]
    PROVE  NoLostWakeup'
<1>1. /\ Head(readyList) \in Thread
      /\ status[Head(readyList)] = "READY"
      /\ \A x \in Thread :
           \/ status'[x] = IF x = Head(readyList) THEN "RUNNING" ELSE st[x]
           \/ kpc[x] = "finish"
  BY RunStatus
<1>2. QED
  BY <1>1, QuietWakeup

\* One turn of P: the thread that decrements the value, or goes back to the
\* queue because the value is 0, is one of those on their way, or none.
LEMMA PLoopWakeup ==
    ASSUME PlaceInv, NoLostWakeup, NEW t \in Thread, NEW s \in Sem, PLoop(t, s),
           t = currentThread, status[t] = "RUNNING",
           \/ kpc[t] = "body"
           \/ kpc[t] = "P" /\ waitsOn[t] = s
    PROVE  NoLostWakeup'
<1> USE DEF PlaceInv
<1>0. s # NoSem
  BY KernelAssumption
<1>1. ASSUME NEW r \in Sem, r # s PROVE Woken(r)' = Woken(r)
  <2>1. \A x \in Thread : x # t => /\ kpc'[x] = kpc[x] /\ waitsOn'[x] = waitsOn[x]
                                   /\ status'[x] = status[x]
    BY DEF PLoop, TypeOK
  <2>2. t \notin Woken(r)
    BY <1>1 DEF Woken
  <2>3. waitsOn'[t] # r
    BY <1>0, <1>1, KernelAssumption DEF PLoop, TypeOK
  <2>4. QED
    BY <2>1, <2>2, <2>3 DEF Woken
<1>2. ASSUME NEW r \in Sem, r # s PROVE queue'[r] = queue[r] /\ value'[r] = value[r]
  BY <1>2 DEF PLoop, TypeOK
<1>3. queue'[s] # << >> => value'[s] <= Cardinality(Woken(s)')
  <2>1. CASE value[s] = 0 /\ value' = value
    <3>1. Cardinality(Woken(s)') \in Nat
      <4>1. Woken(s)' \subseteq Thread
        BY DEF Woken
      <4>2. QED
        BY <4>1, KernelAssumption, FS_Subset, FS_CardinalityType
    <3>2. QED
      BY <2>1, <3>1
  <2>2. CASE /\ value[s] > 0 /\ value' = [value EXCEPT ![s] = @ - 1]
             /\ kpc' = [kpc EXCEPT ![t] = "enable"]
             /\ waitsOn' = [waitsOn EXCEPT ![t] = NoSem]
             /\ UNCHANGED <<queue, status>>
    <3>1. Woken(s)' = Woken(s) \ {t}
      BY <1>0, <2>2 DEF Woken, TypeOK
    <3>2. /\ Cardinality(Woken(s)) \in Nat
          /\ IsFiniteSet(Woken(s))
      BY WokenFinite
    <3>3. Cardinality(Woken(s) \ {t}) >= Cardinality(Woken(s)) - 1
      BY <3>2, FS_RemoveElement
    <3>4. value'[s] = value[s] - 1 /\ value[s] \in Nat
      BY <2>2 DEF TypeOK
    <3>5. Cardinality(Woken(s) \ {t}) \in Nat
      BY <3>2, FS_RemoveElement, FS_CardinalityType
    <3>6. QED
      BY <2>2, <3>1, <3>2, <3>3, <3>4, <3>5 DEF NoLostWakeup
  <2>3. QED
    BY <2>1, <2>2 DEF PLoop
<1>4. QED
  BY <1>1, <1>2, <1>3 DEF NoLostWakeup

\* V adds a unit, and a thread on its way to take it if anybody is queued.
LEMMA VBodyWakeup ==
    ASSUME PlaceInv, NoLostWakeup, NEW s \in Sem, VBody(s), UNCHANGED waitsOn,
           \A x \in Thread : kpc[x] = "P" \/ kpc'[x] = "P" => kpc'[x] = kpc[x]
    PROVE  NoLostWakeup'
<1> USE DEF PlaceInv
<1>1. CASE queue[s] = << >>
  <2>1. UNCHANGED <<queue, status>> /\ value' = [value EXCEPT ![s] = @ + 1]
    BY <1>1 DEF VBody
  <2>2. ASSUME NEW r \in Sem PROVE Woken(r)' = Woken(r)
    BY <2>1 DEF Woken
  <2>3. ASSUME NEW r \in Sem, queue'[r] # << >> PROVE value'[r] = value[r]
    BY <1>1, <2>1, <2>3 DEF TypeOK
  <2>4. QED
    BY <2>1, <2>2, <2>3 DEF NoLostWakeup
<1>2. CASE queue[s] # << >>
  <2> DEFINE h == Head(queue[s])
  <2>1. h \in Thread /\ h \in Members(queue[s])
    BY <1>2, HeadMember DEF TypeOK
  <2>2. status[h] = "BLOCKED" /\ kpc[h] = "P" /\ waitsOn[h] = s
    BY <2>1 DEF OnePlace, QueuePlace
  <2>3. /\ queue' = [queue EXCEPT ![s] = Tail(queue[s])]
        /\ status' = [status EXCEPT ![h] = "READY"]
        /\ value' = [value EXCEPT ![s] = @ + 1]
    BY <1>2 DEF VBody
  <2> HIDE DEF h
  <2>4. \A x \in Thread : status'[x] = IF x = h THEN "READY" ELSE status[x]
    BY <2>3 DEF TypeOK
  <2>5. ASSUME NEW r \in Sem, r # s
        PROVE  Woken(r)' = Woken(r) /\ queue'[r] = queue[r] /\ value'[r] = value[r]
    <3>1. Woken(r)' = Woken(r)
      BY <2>2, <2>4, <2>5 DEF Woken
    <3>2. QED
      BY <2>3, <2>5, <3>1 DEF TypeOK
  <2>6. Woken(s)' = Woken(s) \cup {h} /\ h \notin Woken(s)
    BY <2>1, <2>2, <2>4 DEF Woken
  <2>7. Cardinality(Woken(s)') = Cardinality(Woken(s)) + 1
    BY <2>6, WokenFinite, FS_AddElement
  <2>8. value'[s] = value[s] + 1 /\ value[s] \in Nat
    BY <2>3 DEF TypeOK
  <2>9. value[s] <= Cardinality(Woken(s)) /\ Cardinality(Woken(s)) \in Nat
    BY <1>2, WokenFinite DEF NoLostWakeup
  <2>10. value'[s] <= Cardinality(Woken(s)')
    BY <2>7, <2>8, <2>9
  <2>11. QED
    BY <2>5, <2>10 DEF NoLostWakeup
<1>3. QED
  BY <1>1, <1>2

\* No step of the kernel loses a wakeup.
LEMMA WakeupNext == PlaceInv /\ NoLostWakeup /\ [ClientNext]_kvars => NoLostWakeup'
<1> SUFFICES ASSUME PlaceInv, NoLostWakeup, [ClientNext]_kvars PROVE NoLostWakeup'
  OBVIOUS
<1> USE DEF PlaceInv
<1>1. ASSUME NEW t \in Thread, KernelStep(t) PROVE NoLostWakeup'
  <2>1. CASE Enable(t)
    BY <2>1, QuietWakeup DEF Enable, AtTick, TypeOK
  <2>2. ASSUME YieldToNext(t), t = currentThread, kpc[t] # "P" PROVE NoLostWakeup'
    <3>1. [status EXCEPT ![t] = "READY"] \in [Thread -> Status]
      BY DEF TypeOK, Status
    <3>2. \A x \in Thread : kpc[x] = "P" \/ kpc'[x] = "P" =>
             kpc'[x] = kpc[x] /\ [status EXCEPT ![t] = "READY"][x] = status[x]
      BY <2>2 DEF YieldToNext, TypeOK
    <3>3. QED
      BY <2>2, <3>1, <3>2, DispatchWakeup DEF YieldToNext
  <2>3. CASE TimerYield(t)
    BY <2>2, <2>3 DEF TimerYield, AtTick
  <2>4. ASSUME NEW s \in Device, Handler(s) PROVE NoLostWakeup'
    <3>1. s \in Sem
      BY KernelAssumption
    <3>2. QED
      BY <2>4, <3>1, VBodyWakeup DEF Handler
  <2>5. CASE \E s \in Device : TickInterrupt(t, s)
    BY <2>4, <2>5 DEF TickInterrupt
  <2>6. CASE SleepSwitch(t)
    <3>1. status \in [Thread -> Status]
      BY DEF TypeOK
    <3>2. QED
      BY <2>6, <3>1, DispatchWakeup DEF SleepSwitch
  <2>7. CASE \E s \in Device : IdleInterrupt(t, s)
    BY <2>4, <2>7 DEF IdleInterrupt
  <2>8. CASE IdleHalt(t)
    BY <2>8, QuietWakeup DEF IdleHalt
  <2>9. CASE PResume(t)
    <3>1. waitsOn[t] \in Sem
      BY <2>9 DEF PResume, StackPlace, TypeOK
    <3>2. QED
      BY <2>9, <3>1, PLoopWakeup DEF PResume
  <2>10. QED
    BY <1>1, <2>1, <2>3, <2>5, <2>6, <2>7, <2>8, <2>9 DEF KernelStep
<1>2. ASSUME NEW t \in Thread, Call(t) PROVE NoLostWakeup'
  <2>1. CASE \E u \in Thread : Fork(t, u)
    <3>1. PICK u \in Thread : Fork(t, u)
      BY <2>1
    <3>2. kpc[t] = "body" /\ kpc[u] = "new" /\ status[u] = "JUST_CREATED"
      BY <3>1 DEF Fork, AtBody, StackPlace
    <3>3. \A x \in Thread : kpc[x] = "P" \/ kpc'[x] = "P" =>
             kpc'[x] = kpc[x] /\ status'[x] = status[x]
      BY <3>1, <3>2 DEF Fork, TypeOK
    <3>4. QED
      BY <3>1, <3>3, QuietWakeup DEF Fork
  <2>2. CASE Yield(t)
    <3>1. CASE YieldToNext(t)
      <4>1. [status EXCEPT ![t] = "READY"] \in [Thread -> Status]
        BY DEF TypeOK, Status
      <4>2. \A x \in Thread : kpc[x] = "P" \/ kpc'[x] = "P" =>
               kpc'[x] = kpc[x] /\ [status EXCEPT ![t] = "READY"][x] = status[x]
        BY <2>2, <3>1 DEF Yield, AtBody, YieldToNext, TypeOK
      <4>3. QED
        BY <3>1, <4>1, <4>2, DispatchWakeup DEF YieldToNext
    <3>2. CASE ~YieldToNext(t)
      BY <2>2, <3>2, QuietWakeup DEF Yield, AtBody, TypeOK
    <3>3. QED
      BY <3>1, <3>2
  <2>3. CASE Finish(t)
    BY <2>3, QuietWakeup DEF Finish, AtBody, TypeOK
  <2>4. CASE \E s \in Sem : P(t, s)
    <3>1. PICK s \in Sem : P(t, s)
      BY <2>4
    <3>2. status[t] = "RUNNING"
      BY <3>1, CurrentRuns DEF P, AtBody
    <3>3. QED
      BY <3>1, <3>2, PLoopWakeup DEF P, AtBody
  <2>5. CASE \E s \in Sem : V(t, s)
    <3>1. PICK s \in Sem : V(t, s)
      BY <2>5
    <3>2. \A x \in Thread : kpc[x] = "P" \/ kpc'[x] = "P" => kpc'[x] = kpc[x]
      BY <3>1 DEF V, AtBody, TypeOK
    <3>3. QED
      BY <3>1, <3>2, VBodyWakeup DEF V
  <2>6. CASE \E s \in Device : Request(t, s)
    BY <2>6, QuietWakeup DEF Request
  <2>7. CASE UserTick(t)
    BY <2>7, QuietWakeup DEF UserTick, AtBody, TypeOK
  <2>8. QED
    BY <1>2, <2>1, <2>2, <2>3, <2>4, <2>5, <2>6, <2>7 DEF Call
<1>3. CASE UNCHANGED kvars
  BY <1>3, QuietWakeup DEF kvars
<1>4. QED
  BY <1>1, <1>2, <1>3 DEF ClientNext, Terminated

\* While somebody is queued on a semaphore, every unit of its value has a
\* woken thread on its way, however the threads interleave (Semaphore::V
\* wakes before it increments, Semaphore::P tests again after it slept).
THEOREM NoWakeupIsLost == Spec => []NoLostWakeup
<1>1. Init => NoLostWakeup
  BY DEF Init, NoLostWakeup
<1>2. QED
  BY <1>1, PlaceAlways, WakeupNext, NextIsClient, PTL DEF Spec

\* The machine halts only when no thread is ready or running and every thread
\* in P waits for a semaphore that really is at 0 (Interrupt::Idle).
LEMMA HaltNext ==
    ASSUME PlaceInv, NoLostWakeup, HaltIsQuiescent, [ClientNext]_kvars
    PROVE  HaltIsQuiescent'
<1>1. ASSUME PlaceInv, NoLostWakeup, NEW t \in Thread, IdleHalt(t)
      PROVE  HaltIsQuiescent'
  <2> USE DEF PlaceInv, OnePlace
  <2>1. /\ t = currentThread /\ status[t] # "RUNNING" /\ readyList = << >>
        /\ UNCHANGED <<status, kpc, waitsOn, value>>
    BY <1>1 DEF IdleHalt, Sleeping
  <2>2. Members(readyList) = {}
    BY <2>1 DEF Members
  <2>3. ASSUME NEW x \in Thread
        PROVE  status[x] \in {"JUST_CREATED", "BLOCKED", "DELETED"}
    BY <1>1, <2>1, <2>2 DEF ReadyPlace, CpuPlace, TypeOK, Status
  <2>4. ASSUME NEW x \in Thread, kpc[x] = "P" PROVE value[waitsOn[x]] = 0
    <3>1. status[x] = "BLOCKED" /\ waitsOn[x] \in Sem
      BY <1>1, <2>3, <2>4 DEF StackPlace, CarcassSafe, TypeOK
    <3>2. x \in Members(queue[waitsOn[x]])
      BY <1>1, <2>4, <3>1 DEF QueuePlace
    <3>3. queue[waitsOn[x]] # << >>
      BY <3>2 DEF Members
    <3>4. Woken(waitsOn[x]) = {}
      BY <1>1, <2>3 DEF Woken, StackPlace, CarcassSafe
    <3>5. value[waitsOn[x]] <= 0
      BY <1>1, <3>1, <3>3, <3>4, FS_EmptySet DEF NoLostWakeup
    <3>6. QED
      BY <1>1, <3>1, <3>5 DEF TypeOK
  <2>5. QED
    BY <2>1, <2>3, <2>4 DEF HaltIsQuiescent
<1>2. CASE UNCHANGED kvars
  BY <1>2 DEF HaltIsQuiescent, kvars
<1>3. CASE \E t \in Thread : IdleHalt(t)
  BY <1>1, <1>3
<1>4. ASSUME NEW t \in Thread, KernelStep(t) \/ Call(t), ~IdleHalt(t)
      PROVE  ~halted'
  <2>1. CASE KernelStep(t)
    BY <1>4, <2>1 DEF KernelStep, Enable, TimerYield, AtTick, YieldToNext,
         TickInterrupt, Handler, SleepSwitch, Sleeping, IdleInterrupt, PResume
  <2>2. CASE Call(t)
    BY <2>2 DEF Call, AtBody, Fork, Yield, YieldToNext, Finish, P, V,
         Request, UserTick
  <2>3. QED
    BY <1>4, <2>1, <2>2
<1>5. QED
  BY <1>2, <1>3, <1>4 DEF ClientNext, Terminated, HaltIsQuiescent

\* When Interrupt::Idle halts the machine, no thread is ready or running and
\* every thread in P waits for a semaphore that really is at 0.
THEOREM HaltsOnlyWhenQuiescent == Spec => []HaltIsQuiescent
<1>1. Init => HaltIsQuiescent
  BY DEF Init, HaltIsQuiescent
<1>2. QED
  BY <1>1, HaltNext, PlaceAlways, NoWakeupIsLost, NextIsClient, PTL DEF Spec

-----------------------------------------------------------------------------
(***************************************************************************)
(* Deletion                                                                *)
(***************************************************************************)

\* Only Run deletes, and only a thread that is inside Finish.
LEMMA OnlyRunDeletes ==
    ASSUME PlaceInv, [Next]_kvars, NEW x \in Thread,
           status[x] # "DELETED", status'[x] = "DELETED"
    PROVE  kpc[x] = "finish"
<1> USE DEF PlaceInv
<1>1. ASSUME NEW st \in [Thread -> Status], readyList # << >>,
             Run(Head(readyList), st), st[x] # "DELETED"
      PROVE  kpc[x] = "finish"
  BY <1>1, RunStatus
<1>2. ASSUME NEW t \in Thread, YieldToNext(t) PROVE kpc[x] = "finish"
  <2>1. /\ [status EXCEPT ![t] = "READY"] \in [Thread -> Status]
        /\ [status EXCEPT ![t] = "READY"][x] # "DELETED"
    BY DEF TypeOK, Status
  <2>2. QED
    BY <1>1, <1>2, <2>1 DEF YieldToNext
<1>3. ASSUME NEW s \in Sem, VBody(s) PROVE FALSE
  BY <1>3 DEF VBody, TypeOK
<1>4. ASSUME NEW t \in Thread, NEW s, PLoop(t, s) PROVE FALSE
  BY <1>4 DEF PLoop, TypeOK
<1>5. ASSUME NEW t \in Thread, KernelStep(t) PROVE kpc[x] = "finish"
  <2>1. CASE SleepSwitch(t)
    BY <1>1, <2>1 DEF SleepSwitch, TypeOK
  <2>2. CASE \E s \in Device : Handler(s)
    BY <1>3, <2>2, KernelAssumption DEF Handler
  <2>3. QED
    BY <1>2, <1>4, <1>5, <2>1, <2>2 DEF KernelStep, Enable, TimerYield,
       TickInterrupt, IdleInterrupt, IdleHalt, PResume
<1>6. ASSUME NEW t \in Thread, ThreadCall(t) PROVE kpc[x] = "finish"
  <2>1. CASE \E u \in Thread : Fork(t, u)
    BY <2>1 DEF Fork, TypeOK
  <2>2. CASE Finish(t)
    BY <2>2 DEF Finish, TypeOK
  <2>3. QED
    BY <1>2, <1>3, <1>4, <1>6, <2>1, <2>2 DEF ThreadCall, Yield, P, V, Request,
       UserTick
<1>7. QED
  BY <1>5, <1>6 DEF Next, Terminated, kvars

\* A thread is deleted only after the CPU was switched away from it, so the
\* ASSERT(this != currentThread) of ~Thread never fails.
THEOREM DeletedOffItsStack == Spec => DeleteOffStack
<1>1. PlaceInv /\ PlaceInv' /\ [Next]_kvars =>
        [\A t \in Thread : status[t] # "DELETED" /\ status'[t] = "DELETED"
            => kpc[t] = "finish" /\ currentThread' # t]_kvars
  BY OnlyRunDeletes DEF PlaceInv, CarcassSafe
<1>2. QED
  BY <1>1, PlaceAlways, PTL DEF Spec, DeleteOffStack

-----------------------------------------------------------------------------
(***************************************************************************)
(* The kernel implements atomic semaphores                                 *)
(***************************************************************************)
LEMMA PLoopPromise ==
    ASSUME PlaceInv, NEW t \in Thread, NEW s \in Sem, PLoop(t, s),
           \/ kpc[t] = "body"
           \/ kpc[t] = "P" /\ waitsOn[t] = s
    PROVE  [Promise!Next]_(Promise!svars)
<1> USE DEF PlaceInv
<1>1. waitsOn[t] \in {NoSem, s}
  BY DEF StackPlace
<1>2. CASE value[s] = 0 /\ waitsOn' = [waitsOn EXCEPT ![t] = s] /\ value' = value
  <2>1. CASE waitsOn[t] = NoSem
    BY <1>2, <2>1 DEF Promise!Next, Promise!Wait
  <2>2. CASE waitsOn[t] = s
    BY <1>2, <2>2 DEF TypeOK, Promise!svars
  <2>3. QED
    BY <1>1, <2>1, <2>2
<1>3. CASE /\ value[s] > 0 /\ value' = [value EXCEPT ![s] = @ - 1]
           /\ waitsOn' = [waitsOn EXCEPT ![t] = NoSem]
  BY <1>1, <1>3 DEF Promise!Next, Promise!Take
<1>4. QED
  BY <1>2, <1>3 DEF PLoop

\* Every step of the kernel is an atomic P, V or start of a wait, or it
\* changes neither the values nor who waits.
LEMMA PromiseNext ==
    PlaceInv /\ [Next]_kvars => [Promise!Next]_(Promise!svars)
<1> SUFFICES ASSUME PlaceInv, [Next]_kvars PROVE [Promise!Next]_(Promise!svars)
  OBVIOUS
<1>1. ASSUME NEW s \in Sem, VBody(s), waitsOn' = waitsOn PROVE Promise!Next
  BY <1>1 DEF VBody, Promise!Next, Promise!Give
<1>2. ASSUME NEW t \in Thread, KernelStep(t) PROVE [Promise!Next]_(Promise!svars)
  <2>1. CASE PResume(t)
    <3>1. waitsOn[t] \in Sem
      BY <2>1 DEF PResume, PlaceInv, StackPlace, TypeOK
    <3>2. QED
      BY <2>1, <3>1, PLoopPromise DEF PResume
  <2>2. CASE \E s \in Device : Handler(s)
    BY <1>1, <2>2, KernelAssumption DEF Handler
  <2>3. QED
    BY <1>2, <2>1, <2>2 DEF KernelStep, Enable, TimerYield, YieldToNext,
       TickInterrupt, SleepSwitch, IdleInterrupt, IdleHalt, Promise!svars
<1>3. ASSUME NEW t \in Thread, ThreadCall(t) PROVE [Promise!Next]_(Promise!svars)
  <2>1. CASE \E s \in Sem : P(t, s)
    BY <2>1, PLoopPromise DEF P, AtBody
  <2>2. CASE \E s \in Sem : V(t, s)
    BY <1>1, <2>2 DEF V
  <2>3. QED
    BY <1>3, <2>1, <2>2 DEF ThreadCall, Fork, Yield, YieldToNext, Finish,
       Request, UserTick, Promise!svars
<1>4. QED
  BY <1>2, <1>3 DEF Next, Terminated, kvars, Promise!svars

\* P and V of the kernel, with their queues, wakeups and overtaking, behave
\* as the atomic P and V that synch.h promises.
THEOREM KernelImplementsSemaphores == Spec => ImplementsSemaphores
<1>1. Init => Promise!Init
  BY DEF Init, Promise!Init
<1>2. QED
  BY <1>1, PromiseNext, PlaceAlways, PTL
     DEF Spec, ImplementsSemaphores, Promise!Spec

-----------------------------------------------------------------------------
(***************************************************************************)
(* What the proofs about a concrete client use of the kernel: its          *)
(* invariant, and each call as a step of the atomic semaphores.            *)
(***************************************************************************)
KernelInv == PlaceInv /\ NoLostWakeup /\ HaltIsQuiescent

\* The invariant of the kernel holds at the start, and whatever a client calls.
LEMMA KernelInit == Init => KernelInv
<1>1. Init => NoLostWakeup /\ HaltIsQuiescent
  BY DEF Init, NoLostWakeup, HaltIsQuiescent
<1>2. QED
  BY <1>1, PlaceInit DEF KernelInv

\* Every step of any client keeps it.
LEMMA KernelNext == KernelInv /\ [ClientNext]_kvars => KernelInv'
BY PlaceNext, WakeupNext, HaltNext DEF KernelInv

\* A thread that can call the kernel does not wait; its Yield, Finish and Fork
\* change neither the values nor who waits.
LEMMA QuietCall ==
    ASSUME KernelInv, NEW t \in Thread,
           Yield(t) \/ Finish(t) \/ \E u \in Thread : Fork(t, u)
    PROVE  waitsOn[t] = NoSem /\ UNCHANGED <<value, waitsOn>>
BY DEF KernelInv, PlaceInv, StackPlace, Yield, YieldToNext, Finish, Fork, AtBody

\* P takes a unit or starts a wait (Semaphore::P).
LEMMA PCall ==
    ASSUME KernelInv, NEW t \in Thread, NEW s \in Sem, P(t, s)
    PROVE  waitsOn[t] = NoSem /\ (Promise!Wait(t, s) \/ Promise!Take(t, s))
BY DEF KernelInv, PlaceInv, StackPlace, P, PLoop, AtBody, Promise!Wait, Promise!Take

\* V gives a unit (Semaphore::V).
LEMMA VCall ==
    ASSUME KernelInv, NEW t \in Thread, NEW s \in Sem, V(t, s)
    PROVE  waitsOn[t] = NoSem /\ Promise!Give(s)
BY DEF KernelInv, PlaceInv, StackPlace, V, VBody, AtBody, Promise!Give

\* Without devices the kernel by itself only lets a waiting thread take a unit
\* of the semaphore it waits for.
LEMMA QuietStep ==
    ASSUME KernelInv, Device = {}, NEW t \in Thread, KernelStep(t)
    PROVE  \/ UNCHANGED <<value, waitsOn>>
           \/ \E s \in Sem : waitsOn[t] = s /\ Promise!Take(t, s)
<1>1. CASE PResume(t)
  <2>1. waitsOn[t] \in Sem
    BY <1>1 DEF PResume, KernelInv, PlaceInv, StackPlace, TypeOK
  <2>2. PICK s \in Sem : s = waitsOn[t]
    BY <2>1
  <2>3. PLoop(t, s)
    BY <1>1, <2>2 DEF PResume
  <2>4. CASE value[s] = 0
    <3>1. value' = value /\ waitsOn' = [waitsOn EXCEPT ![t] = s]
      BY <2>3, <2>4 DEF PLoop
    <3>2. waitsOn \in [Thread -> Sem \cup {NoSem}]
      BY DEF KernelInv, PlaceInv, TypeOK
    <3>3. QED
      BY <2>2, <3>1, <3>2
  <2>5. CASE value[s] # 0
    <3>1. Promise!Take(t, s)
      BY <2>2, <2>3, <2>5 DEF PLoop, Promise!Take
    <3>2. QED
      BY <2>2, <3>1
  <2>6. QED
    BY <2>4, <2>5
<1>2. QED
  BY <1>1 DEF KernelStep, Enable, TimerYield, YieldToNext, SleepSwitch, IdleHalt

\* The types of the values and of who waits.
LEMMA WaitTypes ==
    ASSUME KernelInv
    PROVE  /\ value \in [Sem -> Nat]
           /\ waitsOn \in [Thread -> Sem \cup {NoSem}]
           /\ \A t \in Thread : kpc[t] = "P" <=> waitsOn[t] # NoSem
BY DEF KernelInv, PlaceInv, TypeOK, StackPlace

\* Only Fork takes a thread from "new" (Thread::Fork), and only Finish takes
\* one to "finish" (Thread::Finish).
LEMMA StacksStay ==
    ASSUME KernelInv, NEW t \in Thread, NEW x \in Thread,
           KernelStep(t) \/ Yield(t) \/ \E s \in Sem : P(t, s) \/ V(t, s)
    PROVE  /\ kpc'[x] = "new" <=> kpc[x] = "new"
           /\ kpc'[x] = "finish" <=> kpc[x] = "finish"
<1>1. kpc \in [Thread -> Place]
  BY DEF KernelInv, PlaceInv, TypeOK
<1>2. \/ kpc' = kpc
      \/ /\ kpc[t] \in {"root", "body", "enable", "P"}
         /\ \E k \in {"body", "enable", "P"} : kpc' = [kpc EXCEPT ![t] = k]
  <2>1. CASE KernelStep(t)
    BY <2>1 DEF KernelStep, Enable, TimerYield, TickInterrupt, Handler, SleepSwitch,
       IdleInterrupt, IdleHalt, PResume, PLoop, AtTick, YieldToNext
  <2>2. CASE ~KernelStep(t)
    BY <2>2 DEF Yield, YieldToNext, P, PLoop, V, AtBody
  <2>3. QED
    BY <2>1, <2>2
<1>3. QED
  BY <1>1, <1>2

\* Fork starts the thread it is given, Finish ends the thread that calls it.
LEMMA StacksMove ==
    ASSUME KernelInv, NEW t \in Thread, NEW u \in Thread, NEW x \in Thread
    PROVE  /\ Fork(t, u) => /\ kpc'[x] = "new" <=> kpc[x] = "new" /\ x # u
                            /\ kpc'[x] = "finish" <=> kpc[x] = "finish"
           /\ Finish(t) => /\ kpc'[x] = "new" <=> kpc[x] = "new"
                           /\ kpc'[x] = "finish" <=> kpc[x] = "finish" \/ x = t
<1>1. kpc \in [Thread -> Place]
  BY DEF KernelInv, PlaceInv, TypeOK
<1>2. ASSUME Fork(t, u)
      PROVE  kpc[t] = "body" /\ kpc[u] = "new" /\ kpc' = [kpc EXCEPT ![u] = "root", ![t] = "enable"]
  BY <1>2 DEF Fork, AtBody, KernelInv, PlaceInv, StackPlace
<1>3. Finish(t) => kpc[t] = "body" /\ kpc' = [kpc EXCEPT ![t] = "finish"]
  BY DEF Finish, AtBody
<1>4. QED
  BY <1>1, <1>2, <1>3

\* When the machine has halted, a thread was never started, has finished, or
\* waits for a semaphore whose value is 0.
LEMMA HaltedThreads ==
    ASSUME KernelInv, halted, NEW x \in Thread
    PROVE  kpc[x] = "new" \/ kpc[x] = "finish" \/ (waitsOn[x] # NoSem /\ value[waitsOn[x]] = 0)
BY DEF KernelInv, PlaceInv, HaltIsQuiescent, StackPlace, CarcassSafe
=============================================================================
