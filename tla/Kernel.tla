------------------------------- MODULE Kernel -------------------------------
(***************************************************************************)
(* The Nachos thread kernel: Thread, Scheduler, Semaphore and the places   *)
(* where the simulated machine may take the CPU away (code/threads/        *)
(* thread.cc, scheduler.cc, synch.cc; code/machine/interrupt.cc).          *)
(*                                                                         *)
(* The machine is a uniprocessor and kernel code runs to completion except *)
(*   - in Thread::Sleep and Thread::Yield, which switch threads, and       *)
(*   - when interrupts go from off to on (Interrupt::SetLevel calls        *)
(*     OneTick), where device handlers run and the timer may force a       *)
(*     Yield.  A user program also ticks after each instruction.           *)
(* So one action stands for the code between two such places.  kpc[t] says *)
(* where the kernel stack of t stands:                                     *)
(*   "new"     constructed, Fork not called yet                            *)
(*   "root"    forked, at the first instruction of ThreadRoot              *)
(*   "body"    in the forked function, interrupts on                       *)
(*   "enable"  about to re-enable interrupts (end of P, V, Fork, Yield)    *)
(*   "P"       inside the while loop of Semaphore::P                       *)
(*   "finish"  inside Thread::Finish                                       *)
(* Interrupts are enabled exactly when the current thread is at "body".    *)
(*                                                                         *)
(* Next is the most general client: every thread calls what it likes.      *)
(* Modules that model a concrete client reuse the operations below.        *)
(***************************************************************************)
EXTENDS Integers, Sequences, FiniteSets

CONSTANTS Thread,      \* the Thread objects
          Main,        \* the one Initialize() makes the current thread
          NoThread,    \* the NULL thread pointer
          Sem,         \* the Semaphore objects
          NoSem,       \* a thread that is not in P waits on no semaphore
          InitialValue,\* InitialValue[s]: the constructor's initialValue
          Device,      \* semaphores that a device interrupt handler V's
          UserThread,  \* threads that run a user program
          TimeSlice,   \* TRUE with -rs: the timer forces context switches
          MaxValue     \* BOUND: V and Request are not called above this value

ASSUME KernelAssumption ==
    /\ IsFiniteSet(Thread)
    /\ Main \in Thread
    /\ NoThread \notin Thread
    /\ NoSem \notin Sem
    /\ InitialValue \in [Sem -> Nat]
    /\ Device \subseteq Sem
    /\ UserThread \subseteq Thread
    /\ TimeSlice \in BOOLEAN
    /\ MaxValue \in Nat

VARIABLES
    currentThread,        \* the thread that has the CPU
    threadToBeDestroyed,  \* the thread that finished, or NoThread
    readyList,            \* Scheduler::readyList
    status,               \* Thread::status; "DELETED" after the destructor
    kpc,                  \* where each kernel stack stands, see above
    waitsOn,              \* the semaphore whose P the thread is in
    value,                \* Semaphore::value
    queue,                \* Semaphore::queue
    pending,              \* device semaphores with an interrupt scheduled
    idle,                 \* Interrupt::Idle is firing interrupts (IdleMode)
    halted                \* Interrupt::Halt was called

kvars == <<currentThread, threadToBeDestroyed, readyList, status, kpc,
           waitsOn, value, queue, pending, idle, halted>>

Status == {"JUST_CREATED", "RUNNING", "READY", "BLOCKED", "DELETED"}
Place  == {"new", "root", "body", "enable", "P", "finish"}

Init ==
    /\ currentThread = Main
    /\ threadToBeDestroyed = NoThread
    /\ readyList = << >>
    /\ status = [t \in Thread |->
                    IF t = Main THEN "RUNNING" ELSE "JUST_CREATED"]
    /\ kpc = [t \in Thread |-> IF t = Main THEN "body" ELSE "new"]
    /\ waitsOn = [t \in Thread |-> NoSem]
    /\ value = InitialValue
    /\ queue = [s \in Sem |-> << >>]
    /\ pending = {}
    /\ idle = FALSE
    /\ halted = FALSE

-----------------------------------------------------------------------------
(***************************************************************************)
(* Scheduler                                                               *)
(***************************************************************************)

\* Scheduler::Run.  After SWITCH, the thread that was switched *to* deletes
\* the carcass, unless it starts in ThreadRoot and so never returns from Run.
\* st is the status function when Run is called.
Run(next, st) ==
    /\ currentThread' = next
    /\ IF kpc[next] = "root"
       THEN /\ status' = [st EXCEPT ![next] = "RUNNING"]
            /\ UNCHANGED threadToBeDestroyed
       ELSE /\ status' = [u \in Thread |->
                            IF u = threadToBeDestroyed THEN "DELETED"
                            ELSE IF u = next THEN "RUNNING" ELSE st[u]]
            /\ threadToBeDestroyed' = NoThread

\* MUTANT of YieldToNext: the caller goes to the front of the ready list.
YieldPrepends(t) ==
    /\ readyList # << >>
    /\ readyList' = <<t>> \o Tail(readyList)
    /\ kpc' = [kpc EXCEPT ![t] = "enable"]
    /\ Run(Head(readyList), [status EXCEPT ![t] = "READY"])
    /\ UNCHANGED <<waitsOn, value, queue, pending, idle, halted>>

\* Thread::Yield when the ready list is not empty: FindNextToRun takes the
\* head before ReadyToRun puts the caller at the tail.  The caller will
\* re-enable interrupts when it is switched back to.
YieldToNext(t) ==
    /\ readyList # << >>
    /\ readyList' = Append(Tail(readyList), t)
    /\ kpc' = [kpc EXCEPT ![t] = "enable"]
    /\ Run(Head(readyList), [status EXCEPT ![t] = "READY"])
    /\ UNCHANGED <<waitsOn, value, queue, pending, idle, halted>>

-----------------------------------------------------------------------------
(***************************************************************************)
(* Semaphore                                                               *)
(***************************************************************************)

\* One turn of the while loop of Semaphore::P, up to where it sleeps or
\* re-enables interrupts.
PLoop(t, s) ==
    \/ /\ value[s] = 0
       /\ queue' = [queue EXCEPT ![s] = Append(@, t)]
       /\ status' = [status EXCEPT ![t] = "BLOCKED"]
       /\ kpc' = [kpc EXCEPT ![t] = "P"]
       /\ waitsOn' = [waitsOn EXCEPT ![t] = s]
       /\ UNCHANGED value
    \/ /\ value[s] > 0
       /\ value' = [value EXCEPT ![s] = @ - 1]
       /\ kpc' = [kpc EXCEPT ![t] = "enable"]
       /\ waitsOn' = [waitsOn EXCEPT ![t] = NoSem]
       /\ UNCHANGED <<queue, status>>

\* MUTANT of VBody: the woken thread stays on the queue.
VBodyKeepsWaiter(s) ==
    /\ IF queue[s] = << >>
       THEN UNCHANGED <<status, readyList>>
       ELSE /\ status' = [status EXCEPT ![Head(queue[s])] = "READY"]
            /\ readyList' = Append(readyList, Head(queue[s]))
    /\ value' = [value EXCEPT ![s] = @ + 1]
    /\ UNCHANGED queue

\* MUTANT of VBody: a waiter is woken only if the value was 0.
VBodyWakesAtZero(s) ==
    /\ IF queue[s] = << >> \/ value[s] > 0
       THEN UNCHANGED <<queue, status, readyList>>
       ELSE /\ queue' = [queue EXCEPT ![s] = Tail(@)]
            /\ status' = [status EXCEPT ![Head(queue[s])] = "READY"]
            /\ readyList' = Append(readyList, Head(queue[s]))
    /\ value' = [value EXCEPT ![s] = @ + 1]

\* MUTANT of VBody: nobody is woken.
VBodyNoWake(s) ==
    /\ value' = [value EXCEPT ![s] = @ + 1]
    /\ UNCHANGED <<queue, status, readyList>>

\* The body of Semaphore::V: wake the first waiter, then increment.
VBody(s) ==
    /\ IF queue[s] = << >>
       THEN UNCHANGED <<queue, status, readyList>>
       ELSE /\ queue' = [queue EXCEPT ![s] = Tail(@)]
            /\ status' = [status EXCEPT ![Head(queue[s])] = "READY"]
            /\ readyList' = Append(readyList, Head(queue[s]))
    /\ value' = [value EXCEPT ![s] = @ + 1]

-----------------------------------------------------------------------------
(***************************************************************************)
(* What a thread can call                                                  *)
(***************************************************************************)

\* t has the CPU and runs its own code.
AtBody(t) == ~halted /\ currentThread = t /\ kpc[t] = "body"

\* Thread::Fork
Fork(t, u) ==
    /\ AtBody(t)
    /\ status[u] = "JUST_CREATED"
    /\ status' = [status EXCEPT ![u] = "READY"]
    /\ readyList' = Append(readyList, u)
    /\ kpc' = [kpc EXCEPT ![u] = "root", ![t] = "enable"]
    /\ UNCHANGED <<currentThread, threadToBeDestroyed, waitsOn, value, queue,
                   pending, idle, halted>>

\* Thread::Yield
Yield(t) ==
    /\ AtBody(t)
    /\ \/ YieldToNext(t)
       \/ /\ readyList = << >>
          /\ kpc' = [kpc EXCEPT ![t] = "enable"]
          /\ UNCHANGED <<currentThread, threadToBeDestroyed, readyList, status,
                         waitsOn, value, queue, pending, idle, halted>>

\* MUTANT of Finish: the thread deletes itself.
FinishDeletes(t) ==
    /\ AtBody(t)
    /\ status' = [status EXCEPT ![t] = "DELETED"]
    /\ kpc' = [kpc EXCEPT ![t] = "finish"]
    /\ UNCHANGED <<currentThread, threadToBeDestroyed, readyList, waitsOn,
                   value, queue, pending, idle, halted>>

\* Thread::Finish, called by ThreadFinish when the forked function returns.
Finish(t) ==
    /\ AtBody(t)
    /\ threadToBeDestroyed' = t
    /\ status' = [status EXCEPT ![t] = "BLOCKED"]
    /\ kpc' = [kpc EXCEPT ![t] = "finish"]
    /\ UNCHANGED <<currentThread, readyList, waitsOn, value, queue, pending,
                   idle, halted>>

\* Semaphore::P, first turn of the loop
P(t, s) ==
    /\ AtBody(t)
    /\ PLoop(t, s)
    /\ UNCHANGED <<currentThread, threadToBeDestroyed, readyList, pending,
                   idle, halted>>

\* Semaphore::V
V(t, s) ==
    /\ AtBody(t)
    /\ VBody(s)
    /\ kpc' = [kpc EXCEPT ![t] = "enable"]
    /\ UNCHANGED <<currentThread, threadToBeDestroyed, waitsOn, pending,
                   idle, halted>>

\* A request to a device whose completion handler will V semaphore s
\* (Disk::ReadRequest, Console::PutChar, Network::Send: Interrupt::Schedule).
\* A device accepts no second request while one is in progress.
Request(t, s) ==
    /\ AtBody(t)
    /\ s \notin pending
    /\ pending' = pending \cup {s}
    /\ UNCHANGED <<currentThread, threadToBeDestroyed, readyList, status, kpc,
                   waitsOn, value, queue, idle, halted>>

\* Machine::Run: a user instruction, then OneTick.
UserTick(t) ==
    /\ AtBody(t)
    /\ t \in UserThread
    /\ kpc' = [kpc EXCEPT ![t] = "enable"]
    /\ UNCHANGED <<currentThread, threadToBeDestroyed, readyList, status,
                   waitsOn, value, queue, pending, idle, halted>>

-----------------------------------------------------------------------------
(***************************************************************************)
(* What happens inside the kernel                                          *)
(***************************************************************************)

\* t is in OneTick: interrupts are going from off to on.
AtTick(t) == ~halted /\ currentThread = t /\ kpc[t] \in {"root", "enable"}

\* OneTick finds nothing (more) due, and the thread goes on with its code.
Enable(t) ==
    /\ AtTick(t)
    /\ kpc' = [kpc EXCEPT ![t] = "body"]
    /\ UNCHANGED <<currentThread, threadToBeDestroyed, readyList, status,
                   waitsOn, value, queue, pending, idle, halted>>

\* OneTick runs the timer's handler, which asks for a yield on return.  With
\* nobody ready, Yield comes straight back to OneTick.
TimerYield(t) ==
    /\ AtTick(t)
    /\ TimeSlice
    /\ YieldToNext(t)

\* The handler of a device runs: it V's the semaphore with interrupts off.
Handler(s) ==
    /\ s \in pending
    /\ pending' = pending \ {s}
    /\ VBody(s)
    /\ UNCHANGED <<currentThread, threadToBeDestroyed, kpc, waitsOn, halted>>

\* OneTick fires a device interrupt.
TickInterrupt(t, s) == AtTick(t) /\ Handler(s) /\ UNCHANGED idle

\* The current thread is in the loop of Thread::Sleep.  It is READY if the
\* interrupt handler that Idle ran woke the sleeper itself.
Sleeping(t) == ~halted /\ currentThread = t /\ status[t] # "RUNNING"

\* Sleep found a thread to run.
SleepSwitch(t) ==
    /\ Sleeping(t)
    /\ readyList # << >>
    /\ readyList' = Tail(readyList)
    /\ Run(Head(readyList), status)
    /\ idle' = FALSE
    /\ UNCHANGED <<kpc, waitsOn, value, queue, pending, halted>>

\* Sleep found nobody: Interrupt::Idle advances the clock to the next device
\* interrupt, and fires those that are due at the same time after it.
IdleInterrupt(t, s) ==
    /\ Sleeping(t)
    /\ readyList = << >> \/ idle
    /\ Handler(s)
    /\ idle' = TRUE

\* Idle finds no device interrupt: the machine halts.
IdleHalt(t) ==
    /\ Sleeping(t)
    /\ readyList = << >>
    /\ pending = {}
    /\ halted' = TRUE
    /\ UNCHANGED <<currentThread, threadToBeDestroyed, readyList, status, kpc,
                   waitsOn, value, queue, pending, idle>>

\* MUTANT of PResume: "if (value == 0)" instead of "while (value == 0)".
PResumeNoRetest(t) ==
    /\ ~halted
    /\ currentThread = t
    /\ status[t] = "RUNNING"
    /\ kpc[t] = "P"
    /\ value' = [value EXCEPT ![waitsOn[t]] = @ - 1]
    /\ kpc' = [kpc EXCEPT ![t] = "enable"]
    /\ waitsOn' = [waitsOn EXCEPT ![t] = NoSem]
    /\ UNCHANGED <<currentThread, threadToBeDestroyed, readyList, status,
                   queue, pending, idle, halted>>

\* A thread switched back to inside P tests the value again.
PResume(t) ==
    /\ ~halted
    /\ currentThread = t
    /\ status[t] = "RUNNING"
    /\ kpc[t] = "P"
    /\ PLoop(t, waitsOn[t])
    /\ UNCHANGED <<currentThread, threadToBeDestroyed, readyList, pending,
                   idle, halted>>

\* Everything that is not a call by a thread.
KernelStep(t) ==
    \/ Enable(t)
    \/ TimerYield(t)
    \/ \E s \in Device : TickInterrupt(t, s)
    \/ SleepSwitch(t)
    \/ \E s \in Device : IdleInterrupt(t, s)
    \/ IdleHalt(t)
    \/ PResume(t)

ThreadCall(t) ==
    \/ \E u \in Thread : Fork(t, u)
    \/ Yield(t)
    \/ Finish(t)
    \/ \E s \in Sem : P(t, s)
    \/ \E s \in Sem : value[s] < MaxValue /\ V(t, s)
    \/ \E s \in Device : value[s] < MaxValue /\ Request(t, s)
    \/ UserTick(t)

Terminated == halted /\ UNCHANGED kvars

Next == (\E t \in Thread : KernelStep(t) \/ ThreadCall(t)) \/ Terminated

Spec == Init /\ [][Next]_kvars

\* A running thread always reaches the next call or tick, and the timer
\* interrupt comes again and again, so it hits an unbounded number of ticks.
Fairness == WF_kvars(Next) /\ \A t \in Thread : SF_kvars(TimerYield(t))

FairSpec == Spec /\ Fairness

-----------------------------------------------------------------------------
(***************************************************************************)
(* Properties                                                              *)
(***************************************************************************)
Members(seq) == {seq[i] : i \in 1..Len(seq)}

NoDuplicates(seq) ==
    \A i, j \in 1..Len(seq) : seq[i] = seq[j] => i = j

\* The types of the variables; semaphore values are never negative
\* (synch.h: "a non-negative integer").
TypeOK ==
    /\ currentThread \in Thread
    /\ threadToBeDestroyed \in Thread \cup {NoThread}
    /\ readyList \in Seq(Thread)
    /\ status \in [Thread -> Status]
    /\ kpc \in [Thread -> Place]
    /\ waitsOn \in [Thread -> Sem \cup {NoSem}]
    /\ value \in [Sem -> Nat]
    /\ queue \in [Sem -> Seq(Thread)]
    /\ pending \subseteq Device
    /\ idle \in BOOLEAN
    /\ halted \in BOOLEAN

\* A thread is on the ready list exactly when it is READY, and once.
ReadyPlace ==
    /\ NoDuplicates(readyList)
    /\ \A t \in Thread : t \in Members(readyList) <=> status[t] = "READY"

\* A thread is on the queue of a semaphore exactly when it is blocked in the
\* P of that semaphore, and once.
QueuePlace ==
    \A s \in Sem :
        /\ NoDuplicates(queue[s])
        /\ \A t \in Thread : t \in Members(queue[s]) <=>
               status[t] = "BLOCKED" /\ kpc[t] = "P" /\ waitsOn[t] = s

\* Only the current thread is RUNNING; it is not RUNNING only in the loop
\* of Sleep.
CpuPlace ==
    /\ \A t \in Thread : status[t] = "RUNNING" => t = currentThread
    /\ status[currentThread] # "RUNNING" => kpc[currentThread] \in {"P", "finish"}

\* Every thread is in exactly one place: the CPU, the ready list, or the
\* queue of the one semaphore it waits on (Scheduler::ReadyToRun,
\* FindNextToRun, Run, Semaphore::P and V move it).
OnePlace == ReadyPlace /\ QueuePlace /\ CpuPlace

\* Threads that V took from the queue of s and that have not yet tested the
\* value again.
Woken(s) ==
    {t \in Thread : kpc[t] = "P" /\ waitsOn[t] = s /\ status[t] # "BLOCKED"}

\* No wakeup is lost: while somebody is queued on a semaphore, every unit of
\* its value has a woken thread on its way to take it, whoever barges in
\* between V and the return from Sleep (Semaphore::P and V).
NoLostWakeup ==
    \A s \in Sem : queue[s] # << >> => value[s] <= Cardinality(Woken(s))

\* The machine halts by itself only when nobody can run and nobody waits for
\* a semaphore that is available (Interrupt::Idle: "No threads ready or
\* runnable, and no pending interrupts").
HaltIsQuiescent ==
    halted => \A t \in Thread :
                  /\ status[t] \in {"JUST_CREATED", "BLOCKED", "DELETED"}
                  /\ kpc[t] = "P" => value[waitsOn[t]] = 0

\* A finished thread is gone for good: it is on no list, it is not dispatched
\* again, and a deleted one has finished (Thread::Finish, ~Thread).
CarcassSafe ==
    /\ \A t \in Thread : kpc[t] = "finish" => status[t] \in {"BLOCKED", "DELETED"}
    /\ \A t \in Thread : status[t] = "DELETED" =>
           kpc[t] = "finish" /\ t # currentThread /\ t # threadToBeDestroyed
    /\ threadToBeDestroyed # NoThread => kpc[threadToBeDestroyed] = "finish"

\* The destructor never runs on the stack of the thread it deletes: when a
\* thread becomes deleted the CPU has been switched away from it (the ASSERT
\* in Thread::~Thread).
DeleteOffStack ==
    [][\A t \in Thread : status[t] # "DELETED" /\ status'[t] = "DELETED"
          => kpc[t] = "finish" /\ currentThread' # t]_kvars

\* The comment on Thread::Finish: "we set "threadToBeDestroyed", so that
\* Scheduler::Run() will call the destructor, once we're running in the
\* context of a different thread".
FinishedIsDestroyed ==
    \A t \in Thread : kpc[t] = "finish" =>
        \/ status[t] = "DELETED"
        \/ threadToBeDestroyed = t

\* A ready thread gets the CPU: the ready list is served in FIFO order and
\* the timer takes the CPU from a thread that does not give it up.
ReadyRuns == \A t \in Thread : status[t] = "READY" ~> currentThread = t

\* A semaphore does not stay available while somebody is queued on it.
AvailableIsTaken ==
    \A s \in Sem : (queue[s] # << >> /\ value[s] > 0)
                       ~> (queue[s] = << >> \/ value[s] = 0)

Promise == INSTANCE Semaphores

\* P and V keep the promise of synch.h: seen through the values and who
\* waits, every step of the kernel is one atomic P, V or start of a wait,
\* although P can be overtaken between the V that wakes it and its return.
ImplementsSemaphores == Promise!Spec
=============================================================================
