----------------------------- MODULE Semaphores -----------------------------
(***************************************************************************)
(* What code/threads/synch.h promises of a semaphore, with no queues, no   *)
(* scheduler and no interrupts: "P() -- waits until value > 0, then        *)
(* decrement", "V() -- increment, waking up a thread waiting in P() if     *)
(* necessary", each in one step.  Module Kernel is shown to implement it.  *)
(***************************************************************************)
EXTENDS Naturals

CONSTANTS Thread, Sem, NoSem, InitialValue

VARIABLES value,    \* the value of each semaphore
          waitsOn   \* the semaphore a thread waits for, or NoSem

svars == <<value, waitsOn>>

Init ==
    /\ value = InitialValue
    /\ waitsOn = [t \in Thread |-> NoSem]

\* P finds the value 0.
Wait(t, s) ==
    /\ waitsOn[t] = NoSem
    /\ value[s] = 0
    /\ waitsOn' = [waitsOn EXCEPT ![t] = s]
    /\ UNCHANGED value

\* P takes a unit and returns, at once or after a wait.
Take(t, s) ==
    /\ waitsOn[t] \in {NoSem, s}
    /\ value[s] > 0
    /\ value' = [value EXCEPT ![s] = @ - 1]
    /\ waitsOn' = [waitsOn EXCEPT ![t] = NoSem]

\* V, by a thread or by an interrupt handler.
Give(s) ==
    /\ value' = [value EXCEPT ![s] = @ + 1]
    /\ UNCHANGED waitsOn

Next == \E s \in Sem : Give(s) \/ \E t \in Thread : Wait(t, s) \/ Take(t, s)

Spec == Init /\ [][Next]_svars
=============================================================================
