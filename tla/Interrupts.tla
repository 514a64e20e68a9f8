----------------------------- MODULE Interrupts -----------------------------
(***************************************************************************)
(* Simulated time and the list of pending interrupts (machine/interrupt.cc *)
(* over threads/list.cc), the timer (machine/timer.cc), and the two        *)
(* semaphore operations that the users of devices wait with.               *)
(*                                                                         *)
(* Kernel says which thread runs next; here every thread that can run may. *)
(* What counts is time: it passes only when a thread enables interrupts    *)
(* (OneTick) or when none can run (Idle), and devices are heard only then. *)
(***************************************************************************)
EXTENDS Integers, Sequences, FiniteSets, SequencesExt

CONSTANTS Node,        \* machines, each a Nachos of its own
          SystemTick,
          TimerDelays, \* what TimeOfNextInterrupt may return; {} if there is no timer
          MaxTicks     \* BOUND on simulated time

ASSUME InterruptsAssumption ==
    /\ SystemTick \in Nat \ {0} /\ MaxTicks \in Nat
    /\ TimerDelays \subseteq Nat \ {0}

VARIABLES
    totalTicks, \* [Node -> Nat]
    pending,    \* [Node -> Seq([when : Nat, type : IntType])], as the list is
    phase,      \* [Node -> "run", "tick" (in OneTick), "idle" (in Idle), "halt",
                \*  "abort" (an ASSERT failed)]
    value,      \* [Node -> [SemName -> Nat]], Semaphore::value
    yielded     \* [Node -> Nat], threads that the timer made Yield and that have
                \* not returned from it

machine == <<totalTicks, pending, phase, value, yielded>>

IntType == {"Timer", "Disk", "ConsoleWrite", "ConsoleRead", "NetworkSend", "NetworkRecv"}
SemName == {"disk", "readAvail", "writeDone", "messageAvailable", "messageSent"}

-----------------------------------------------------------------------------
(***************************************************************************)
(* List                                                                    *)
(***************************************************************************)

\* MUTANT of SortedInsert: an item that is not first goes to the end.
SortedInsertEnds(list, item) ==
    IF list # << >> /\ item.when < Head(list).when THEN <<item>> \o list
    ELSE Append(list, item)

\* In front of the first element that is bigger.
SortedInsert(list, item) ==
    LET bigger == {i \in 1..Len(list) : item.when < list[i].when}
        at == IF bigger = {} THEN Len(list) + 1
              ELSE CHOOSE i \in bigger : \A j \in bigger : i <= j
    IN  InsertAt(list, at, item)

-----------------------------------------------------------------------------
(***************************************************************************)
(* Interrupt                                                               *)
(***************************************************************************)

\* Schedule on machine n, in the list `list', `fromNow' ticks after `now'.
Schedule(list, now, fromNow, type) ==
    SortedInsert(list, [when |-> now + fromNow, type |-> type])

\* The list of machine n after SortedRemove.
Rest(n) == Tail(pending[n])
Due(n) == pending[n] # << >> /\ Head(pending[n]).when <= totalTicks[n]

\* "If the pending interrupt is just the time-slice daemon, we're done": in
\* IdleMode CheckIfDue puts it back.
OnlyTimer(n) == Len(pending[n]) = 1 /\ Head(pending[n]).type = "Timer"

\* CheckIfDue takes the first interrupt of the list and calls its handler:
\* `type' and `rest' are for the handler, a device's action.
Fires(n, type) ==
    /\ phase[n] \in {"tick", "idle"}
    /\ Due(n)
    /\ Head(pending[n]).type = type
    /\ ~(phase[n] = "idle" /\ OnlyTimer(n))

\* CheckIfDue(FALSE) returns FALSE: OneTick or Idle is over.
NothingDue(n) ==
    /\ phase[n] \in {"tick", "idle"}
    /\ ~Due(n) \/ (phase[n] = "idle" /\ OnlyTimer(n))
    /\ phase' = [phase EXCEPT ![n] = "run"]
    /\ UNCHANGED <<totalTicks, pending, value, yielded>>

\* SetLevel(IntOn), by a thread, at the end of P, V and Yield.
OneTick(n) ==
    /\ totalTicks' = [totalTicks EXCEPT ![n] = @ + SystemTick]
    /\ phase' = [phase EXCEPT ![n] = "tick"]

\* A thread is running and time is left.
Running(n) == phase[n] = "run" /\ totalTicks[n] < MaxTicks

\* No thread can run.  Idle moves the clock to the next interrupt, or halts.
Idle(n) ==
    /\ Running(n) /\ yielded[n] = 0
    /\ IF pending[n] = << >> \/ OnlyTimer(n)
       THEN phase' = [phase EXCEPT ![n] = "halt"] /\ UNCHANGED totalTicks
       ELSE /\ phase' = [phase EXCEPT ![n] = "idle"]
            /\ totalTicks' = [totalTicks EXCEPT ![n] =
                                IF Head(pending[n]).when > @ THEN Head(pending[n]).when ELSE @]
    /\ UNCHANGED <<pending, value, yielded>>

Halt(n) ==
    /\ phase' = [phase EXCEPT ![n] = "halt"]
    /\ UNCHANGED <<totalTicks, pending, value, yielded>>

\* An ASSERT fails.
Abort(n) ==
    /\ phase' = [phase EXCEPT ![n] = "abort"]
    /\ UNCHANGED <<totalTicks, pending, value, yielded>>

-----------------------------------------------------------------------------
(***************************************************************************)
(* Timer and Semaphore                                                     *)
(***************************************************************************)

\* TimerExpired asks for a Yield, which the thread in OneTick makes when that is
\* over (Idle clears yieldOnReturn).  Any thread may run next.
TimerExpired(n) ==
    /\ Fires(n, "Timer")
    /\ \E delay \in TimerDelays :
          pending' = [pending EXCEPT ![n] = Schedule(Rest(n), totalTicks[n], delay, "Timer")]
    /\ yielded' = [yielded EXCEPT ![n] = IF phase[n] = "tick" THEN @ + 1 ELSE @]
    /\ UNCHANGED <<totalTicks, phase, value>>

\* A thread returns from the Yield, which turns interrupts on again.  Which one
\* it is, and what others have done meanwhile, is left open.
YieldReturns(n) ==
    /\ Running(n)
    /\ yielded[n] > 0
    /\ yielded' = [yielded EXCEPT ![n] = @ - 1]
    /\ OneTick(n)
    /\ UNCHANGED <<pending, value>>

\* P by a thread that finds the value positive, at once or when it is woken.
P(n, s) ==
    /\ value[n][s] > 0
    /\ value' = [value EXCEPT ![n][s] = @ - 1]
    /\ OneTick(n)
    /\ UNCHANGED <<pending, yielded>>

\* V from an interrupt handler: interrupts stay off, no tick.
V(n, s) == value' = [value EXCEPT ![n][s] = @ + 1]
=============================================================================
