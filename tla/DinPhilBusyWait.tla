--------------------------- MODULE DinPhilBusyWait ---------------------------
(***************************************************************************)
(* Task 3 of ThreadTest (code/threads/threadtest.cc): the dining           *)
(* philosophers without semaphores.  The only kernel call is Yield, so the *)
(* code between two Yields is one step, and a step begins where the last   *)
(* Yield of a BusyWaitingLoop has returned (cnt[i] = 0).                   *)
(***************************************************************************)
EXTENDS Exercise

Phil == Person

LeftStick(i)  == i % NumPeople
RightStick(i) == (i + 1) % NumPeople

VARIABLES
    CheckCnt,     \* failed looks in ReachChopStick
    chopstick,    \* 1: on the table
    MealLeft,
    NumPhilNotIn,
    PhilosopherLeaveRdy

dvars == <<CheckCnt, chopstick, MealLeft, NumPhilNotIn, PhilosopherLeaveRdy>>
vars == <<kvars, pc, cnt, dvars>>

K == INSTANCE Kernel WITH
        Thread <- Threads, Main <- MainThread, NoThread <- NumPeople + 1,
        Sem <- {}, NoSem <- "none", InitialValue <- << >>,
        Device <- {}, UserThread <- {}, TimeSlice <- TimeSlice, MaxValue <- 0

Init ==
    /\ K!Init
    /\ ExerciseInit("enter")
    /\ CheckCnt = [i \in Phil |-> 0]
    /\ chopstick = [c \in Phil |-> 1]
    /\ MealLeft = M
    /\ NumPhilNotIn = NumPeople
    /\ PhilosopherLeaveRdy = 0

-----------------------------------------------------------------------------
\* ThreadTest: the main thread forks the philosophers and finishes.
ForkPhilosophers ==
    /\ pc[MainThread] = "fork"
    /\ \/ /\ cnt[MainThread] < NumPeople
          /\ K!Fork(MainThread, cnt[MainThread])
          /\ cnt' = [cnt EXCEPT ![MainThread] = @ + 1]
          /\ UNCHANGED pc
       \/ /\ cnt[MainThread] = NumPeople
          /\ K!Finish(MainThread)
          /\ pc' = [pc EXCEPT ![MainThread] = "finished"]
          /\ UNCHANGED cnt
    /\ UNCHANGED dvars

At(i, from) == pc[i] = from /\ cnt[i] = 0

\* The first Yield of a BusyWaitingLoop, after which the code goes on at "to".
BusyWaitingLoop(i, to) ==
    /\ \E stallCycle \in StallCycles :
           cnt' = [cnt EXCEPT ![i] = stallCycle - 1]
    /\ pc' = [pc EXCEPT ![i] = to]
    /\ K!Yield(i)

\* Its other Yields.
Stall(i) ==
    /\ i \in Phil /\ cnt[i] > 0
    /\ cnt' = [cnt EXCEPT ![i] = @ - 1]
    /\ K!Yield(i)
    /\ UNCHANGED <<pc, dvars>>

Drop(sticks) == [c \in Phil |-> IF c \in sticks THEN 1 ELSE chopstick[c]]

\* A failed look at a chopstick in ReachChopStick.
LookAgain(i, n, at) ==
    /\ CheckCnt' = [CheckCnt EXCEPT ![i] = n + 1]
    /\ BusyWaitingLoop(i, at)
    /\ UNCHANGED MealLeft

\* MUTANT of EatOrDrop: the meals are not looked at again.
EatAnyway(i) ==
    /\ CheckCnt' = [CheckCnt EXCEPT ![i] = 0]
    /\ MealLeft' = MealLeft - 1
    /\ chopstick' = [chopstick EXCEPT ![LeftStick(i)] = 0, ![RightStick(i)] = 0]
    /\ BusyWaitingLoop(i, "eat")

\* Both chopsticks are picked up: eat, if there is a meal left.
EatOrDrop(i) ==
    /\ CheckCnt' = [CheckCnt EXCEPT ![i] = 0]
    /\ \/ /\ MealLeft = 0
          /\ chopstick' = Drop({LeftStick(i), RightStick(i)})
          /\ BusyWaitingLoop(i, "think")
          /\ UNCHANGED MealLeft
       \/ /\ MealLeft # 0
          /\ MealLeft' = MealLeft - 1
          /\ chopstick' = [chopstick EXCEPT ![LeftStick(i)] = 0,
                                            ![RightStick(i)] = 0]
          /\ BusyWaitingLoop(i, "eat")

\* MUTANT of ReachRight: the left chopstick is kept when giving up.
ReachRightKeepsLeft(i, n) ==
    \/ n # Tries /\ chopstick[RightStick(i)] = 1 /\ EatOrDrop(i)
    \/ /\ n # Tries /\ chopstick[RightStick(i)] = 0
       /\ chopstick' = [chopstick EXCEPT ![LeftStick(i)] = 0]
       /\ LookAgain(i, n, "reachRight")
    \/ /\ n = Tries
       /\ CheckCnt' = [CheckCnt EXCEPT ![i] = 0]
       /\ BusyWaitingLoop(i, "think")
       /\ UNCHANGED <<chopstick, MealLeft>>

\* ReachChopStick for the right one, the left one being in hand, after n
\* failed looks.
ReachRight(i, n) ==
    \/ n # Tries /\ chopstick[RightStick(i)] = 1 /\ EatOrDrop(i)
    \/ /\ n # Tries /\ chopstick[RightStick(i)] = 0
       /\ chopstick' = [chopstick EXCEPT ![LeftStick(i)] = 0]
       /\ LookAgain(i, n, "reachRight")
    \/ /\ n = Tries
       /\ chopstick' = Drop({LeftStick(i)})
       /\ CheckCnt' = [CheckCnt EXCEPT ![i] = 0]
       /\ BusyWaitingLoop(i, "think")
       /\ UNCHANGED MealLeft

\* ReachChopStick for the left one, after n failed looks.
ReachLeft(i, n) ==
    \/ n # Tries /\ chopstick[LeftStick(i)] = 1 /\ ReachRight(i, 0)
    \/ /\ n # Tries /\ chopstick[LeftStick(i)] = 0
       /\ LookAgain(i, n, "reachLeft")
       /\ UNCHANGED chopstick
    \/ /\ n = Tries
       /\ CheckCnt' = [CheckCnt EXCEPT ![i] = 0]
       /\ BusyWaitingLoop(i, "think")
       /\ UNCHANGED <<chopstick, MealLeft>>

\* MUTANT of WaitToLeave: one philosopher too few is waited for.
WaitToLeaveEarly(i, ready) ==
    \/ ready < NumPeople - 1 /\ BusyWaitingLoop(i, "leave")
    \/ /\ ready >= NumPeople - 1
       /\ K!Finish(i)
       /\ pc' = [pc EXCEPT ![i] = "finished"]
       /\ UNCHANGED cnt

\* Waiting for the others at the end, or leaving with them.
WaitToLeave(i, ready) ==
    \/ ready < NumPeople /\ BusyWaitingLoop(i, "leave")
    \/ /\ ready >= NumPeople
       /\ K!Finish(i)
       /\ pc' = [pc EXCEPT ![i] = "finished"]
       /\ UNCHANGED cnt

\* The head of the dinner loop.
Dinner(i) ==
    \/ /\ MealLeft # 0
       /\ ReachLeft(i, 0)
       /\ UNCHANGED PhilosopherLeaveRdy
    \/ /\ MealLeft = 0
       /\ PhilosopherLeaveRdy' = PhilosopherLeaveRdy + 1
       /\ WaitToLeave(i, PhilosopherLeaveRdy')
       /\ UNCHANGED <<CheckCnt, chopstick, MealLeft>>

\* Waiting for the others at the start: one Yield per turn.
WaitToSit(i, notIn) ==
    \/ /\ notIn > 0
       /\ K!Yield(i)
       /\ pc' = [pc EXCEPT ![i] = "sit"]
       /\ UNCHANGED <<cnt, CheckCnt, chopstick, MealLeft, PhilosopherLeaveRdy>>
    \/ notIn = 0 /\ Dinner(i)

Enter(i) ==
    /\ At(i, "enter")
    /\ NumPhilNotIn' = NumPhilNotIn - 1
    /\ WaitToSit(i, NumPhilNotIn')

Sit(i) ==
    /\ At(i, "sit")
    /\ WaitToSit(i, NumPhilNotIn)
    /\ UNCHANGED NumPhilNotIn

Reach(i) ==
    /\ \/ At(i, "reachLeft") /\ ReachLeft(i, CheckCnt[i])
       \/ At(i, "reachRight") /\ ReachRight(i, CheckCnt[i])
    /\ UNCHANGED <<NumPhilNotIn, PhilosopherLeaveRdy>>

FinishEating(i) ==
    /\ At(i, "eat")
    /\ chopstick' = Drop({LeftStick(i), RightStick(i)})
    /\ BusyWaitingLoop(i, "think")
    /\ UNCHANGED <<CheckCnt, MealLeft, NumPhilNotIn, PhilosopherLeaveRdy>>

Think(i) == At(i, "think") /\ Dinner(i) /\ UNCHANGED NumPhilNotIn

Leave(i) ==
    /\ At(i, "leave")
    /\ WaitToLeave(i, PhilosopherLeaveRdy)
    /\ UNCHANGED dvars

Philosopher(i) ==
    \/ Enter(i) \/ Sit(i) \/ Reach(i) \/ FinishEating(i) \/ Think(i)
    \/ Leave(i) \/ Stall(i)

Terminated == halted /\ UNCHANGED vars

Next ==
    \/ ForkPhilosophers
    \/ \E i \in Phil : Philosopher(i)
    \/ \E t \in Threads : K!KernelStep(t) /\ UNCHANGED <<pc, cnt, dvars>>
    \/ Terminated

Spec == Init /\ [][Next]_vars

-----------------------------------------------------------------------------
(***************************************************************************)
(* Properties                                                              *)
(***************************************************************************)
TypeOK ==
    /\ K!TypeOK
    /\ chopstick \in [Phil -> {0, 1}]
    /\ MealLeft \in 0..M
    /\ NumPhilNotIn \in 0..NumPeople
    /\ PhilosopherLeaveRdy \in 0..NumPeople
    /\ CheckCnt \in [Phil -> 0..Tries]

\* The philosophers who have chopstick c in hand.
Holders(c) ==
    {i \in Phil : \/ pc[i] = "eat" /\ c \in {LeftStick(i), RightStick(i)}
                  \/ pc[i] = "reachRight" /\ c = LeftStick(i)}

\* A chopstick is off the table exactly when one philosopher has it, and
\* never two: no stick is taken twice, dropped twice or left behind when an
\* attempt is aborted (chopstick[] is not protected by any semaphore).
SticksConserved ==
    \A c \in Phil : Cardinality(Holders(c)) = 1 - chopstick[c]

\* Where the promise of Dinner sees philosopher i.
Place(i) ==
    CASE pc[i] = "enter"    -> "outside"
      [] pc[i] = "eat"      -> "eating"
      [] pc[i] = "finished" -> "left"
      [] OTHER              -> "table"
=============================================================================
