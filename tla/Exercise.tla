------------------------------ MODULE Exercise ------------------------------
(***************************************************************************)
(* What the exercises of ThreadTest (code/threads/threadtest.cc, tasks 1   *)
(* to 6) have in common: the numbers the user types in, one thread per     *)
(* person forked by the main thread, and the state of the kernel they run  *)
(* on.  Each exercise instantiates module Kernel with its semaphores.      *)
(***************************************************************************)
EXTENDS Integers, Sequences, FiniteSets

CONSTANTS NumPeople,    \* P: philosophers or people, at least 2
          M,            \* meals to be eaten or messages to be sent
          S,            \* capacity of a mailbox
          Tries,        \* failed looks at a chopstick before giving up: 5
          StallCycles,  \* the values Random() % 4 + 2 draws, within 2..5
          TimeSlice     \* -rs

ASSUME ExerciseAssumption ==
    /\ NumPeople \in Nat \ {0, 1}
    /\ M \in Nat
    /\ S \in Nat \ {0}
    /\ Tries \in 1..5
    /\ StallCycles # {} /\ StallCycles \subseteq 2..5
    /\ TimeSlice \in BOOLEAN

Person == 0..(NumPeople - 1)
MainThread == NumPeople
Threads == Person \cup {MainThread}

\* The variables of Kernel
VARIABLES currentThread, threadToBeDestroyed, readyList, status, kpc, waitsOn,
          value, queue, pending, idle, halted

kvars == <<currentThread, threadToBeDestroyed, readyList, status, kpc,
           waitsOn, value, queue, pending, idle, halted>>

VARIABLES pc,  \* where the code of each thread stands
          cnt  \* its loop counter

\* The main thread starts with the loop that forks the others.
ExerciseInit(first) ==
    /\ pc = [t \in Threads |-> IF t = MainThread THEN "fork" ELSE first]
    /\ cnt = [t \in Threads |-> 0]
=============================================================================
