-------------------------- MODULE DinPhilSemaphore --------------------------
(***************************************************************************)
(* Task 4 of ThreadTest (code/threads/threadtest.cc): the dining           *)
(* philosophers with semaphores, as threads of the Nachos kernel.          *)
(*                                                                         *)
(* A step of a philosopher is the code from one kernel call to the next,   *)
(* with the call that ends it: pc[i] names the place where the call that   *)
(* precedes has returned.  The kernel (module Kernel) decides who runs.    *)
(***************************************************************************)
EXTENDS Exercise

Phil == Person

Left(i)  == (i - 1 + NumPeople) % NumPeople
Right(i) == (i + 1) % NumPeople

mutex           == <<"mutex", 0>>
EnterMutex      == <<"EnterMutex", 0>>
LeaveMutex      == <<"LeaveMutex", 0>>
MealLeftMutex   == <<"MealLeftMutex", 0>>
SitSemaphore    == <<"SitSemaphore", 0>>
LeaveSemaphore  == <<"LeaveSemaphore", 0>>
PhilGrant(i)    == <<"PhilGrantSemaphore", i>>

Semaphores == {mutex, EnterMutex, LeaveMutex, MealLeftMutex, SitSemaphore,
               LeaveSemaphore} \cup {PhilGrant(i) : i \in Phil}

VARIABLES
    PhilState,     \* THINKING, ISHUNGRY or ISEATING
    done,          \* done[i]: philosopher i found no meal left
    MealLeft,
    NumPhilNotIn,
    NumRdyLeave,
    NumGrantLeave,
    LeaveGrant

dvars == <<PhilState, done, MealLeft, NumPhilNotIn, NumRdyLeave,
           NumGrantLeave, LeaveGrant>>
vars == <<kvars, pc, cnt, dvars>>

InitialValue ==
    [s \in Semaphores |->
        IF s \in {mutex, EnterMutex, LeaveMutex, MealLeftMutex} THEN 1 ELSE 0]

\* MaxValue: PutSticks runs at most M + P times and each makes at most two
\* philosophers go round the loop of GetSticks once more.
K == INSTANCE Kernel WITH
        Thread <- Threads, Main <- MainThread,
        NoThread <- NumPeople + 1, Sem <- Semaphores, NoSem <- <<"none", 0>>,
        InitialValue <- InitialValue, Device <- {}, UserThread <- {},
        TimeSlice <- TimeSlice, MaxValue <- 2 * (M + NumPeople) + 2

Init ==
    /\ K!Init
    /\ ExerciseInit("enter")
    /\ PhilState = [i \in Phil |-> "THINKING"]
    /\ done = [i \in Phil |-> FALSE]
    /\ MealLeft = M
    /\ NumPhilNotIn = NumPeople
    /\ NumRdyLeave = 0
    /\ NumGrantLeave = 0
    /\ LeaveGrant = FALSE

-----------------------------------------------------------------------------
Goto(t, from, to) == pc[t] = from /\ pc' = [pc EXCEPT ![t] = to]

\* ThreadTest: the main thread forks the philosophers and finishes.
ForkPhilosophers ==
    /\ pc[MainThread] = "fork"
    /\ \/ /\ cnt[MainThread] < NumPeople
          /\ K!Fork(MainThread, cnt[MainThread])
          /\ cnt' = [cnt EXCEPT ![MainThread] = @ + 1]
          /\ UNCHANGED pc
       \/ /\ cnt[MainThread] = NumPeople
          /\ K!Finish(MainThread)
          /\ pc' = [pc EXCEPT ![MainThread] = "finished"]
          /\ UNCHANGED cnt
    /\ UNCHANGED dvars

\* BusyWaitingLoop, called at "from": two to five Yields, then on to "to".
BusyWaitingLoop(i, from, to) ==
    /\ pc[i] = from
    /\ K!Yield(i)
    /\ IF cnt[i] = 0
       THEN \E stallCycle \in StallCycles :
                /\ cnt' = [cnt EXCEPT ![i] = stallCycle - 1]
                /\ UNCHANGED pc
       ELSE /\ cnt' = [cnt EXCEPT ![i] = @ - 1]
            /\ pc' = [pc EXCEPT ![i] = IF cnt[i] = 1 THEN to ELSE from]
    /\ UNCHANGED dvars

\* MUTANT of GrantAll: one grant is missing.
GrantAllButOne(i, from, s, mx, to) ==
    /\ pc[i] = from
    /\ IF cnt[i] < NumPeople - 1
       THEN /\ K!V(i, s)
            /\ cnt' = [cnt EXCEPT ![i] = @ + 1]
            /\ UNCHANGED pc
       ELSE /\ K!V(i, mx)
            /\ cnt' = [cnt EXCEPT ![i] = 0]
            /\ pc' = [pc EXCEPT ![i] = to]
    /\ UNCHANGED dvars

\* "for (j = 0; j < P; j++) s -> V()" at "from", then mx -> V() and on to "to".
GrantAll(i, from, s, mx, to) ==
    /\ pc[i] = from
    /\ IF cnt[i] < NumPeople
       THEN /\ K!V(i, s)
            /\ cnt' = [cnt EXCEPT ![i] = @ + 1]
            /\ UNCHANGED pc
       ELSE /\ K!V(i, mx)
            /\ cnt' = [cnt EXCEPT ![i] = 0]
            /\ pc' = [pc EXCEPT ![i] = to]
    /\ UNCHANGED dvars

\* MUTANT of Enter: EnterMutex is not claimed.
EnterFreely(i) ==
    /\ Goto(i, "enter", "entered")
    /\ K!Yield(i)
    /\ UNCHANGED <<cnt, dvars>>

\* DinPhilSemaphore, up to the table
Enter(i) ==
    /\ Goto(i, "enter", "entered")
    /\ K!P(i, EnterMutex)
    /\ UNCHANGED <<cnt, dvars>>

Entered(i) ==
    /\ pc[i] = "entered"
    /\ NumPhilNotIn' = NumPhilNotIn - 1
    /\ IF NumPhilNotIn' = 0
       THEN /\ K!V(i, SitSemaphore)
            /\ cnt' = [cnt EXCEPT ![i] = 1]
            /\ pc' = [pc EXCEPT ![i] = "grantSit"]
       ELSE /\ K!V(i, EnterMutex)
            /\ pc' = [pc EXCEPT ![i] = "sit"]
            /\ UNCHANGED cnt
    /\ UNCHANGED <<PhilState, done, MealLeft, NumRdyLeave, NumGrantLeave,
                   LeaveGrant>>

Sit(i) ==
    /\ Goto(i, "sit", "dinner")
    /\ K!P(i, SitSemaphore)
    /\ UNCHANGED <<cnt, dvars>>

\* The head of the dinner loop: GetSticks starts with mutex->P(), LeaveRoom
\* with LeaveMutex->P().
Dinner(i) ==
    /\ \/ ~done[i] /\ Goto(i, "dinner", "hungry") /\ K!P(i, mutex)
       \/ done[i] /\ Goto(i, "dinner", "ready") /\ K!P(i, LeaveMutex)
    /\ UNCHANGED <<cnt, dvars>>

\* MUTANT of SticksFree: only the left neighbour is looked at.
SticksFreeLeft(i) == NumPeople > 2 => PhilState[Left(i)] # "ISEATING"

\* The condition of GetSticks; with two philosophers only Right is tested.
SticksFree(i) ==
    /\ NumPeople > 2 => PhilState[Left(i)] # "ISEATING"
    /\ PhilState[Right(i)] # "ISEATING"

\* One turn of the loop of GetSticks, up to its first kernel call.  The first
\* turn has just set ISHUNGRY; a later one finds it still set.
TrySticks(i) ==
    \/ /\ SticksFree(i)
       /\ PhilState' = [PhilState EXCEPT ![i] = "ISEATING"]
       /\ K!V(i, PhilGrant(i))
       /\ pc' = [pc EXCEPT ![i] = "gotSticks"]
    \/ /\ ~SticksFree(i)
       /\ PhilState' = [PhilState EXCEPT ![i] = "ISHUNGRY"]
       /\ K!V(i, mutex)
       /\ pc' = [pc EXCEPT ![i] = "await"]

Hungry(i) ==
    /\ pc[i] = "hungry"
    /\ TrySticks(i)
    /\ UNCHANGED <<cnt, done, MealLeft, NumPhilNotIn, NumRdyLeave,
                   NumGrantLeave, LeaveGrant>>

GotSticks(i) ==
    /\ Goto(i, "gotSticks", "await")
    /\ K!V(i, mutex)
    /\ UNCHANGED <<cnt, dvars>>

Await(i) ==
    /\ Goto(i, "await", "recheck")
    /\ K!P(i, PhilGrant(i))
    /\ UNCHANGED <<cnt, dvars>>

\* The loop test of GetSticks; mutex is not taken again.  When it is left,
\* Eat starts with MealLeftMutex->P().
Recheck(i) ==
    /\ pc[i] = "recheck"
    /\ \/ PhilState[i] = "ISHUNGRY" /\ TrySticks(i)
       \/ /\ PhilState[i] # "ISHUNGRY"
          /\ K!P(i, MealLeftMutex)
          /\ pc' = [pc EXCEPT ![i] = "meal"]
          /\ UNCHANGED PhilState
    /\ UNCHANGED <<cnt, done, MealLeft, NumPhilNotIn, NumRdyLeave,
                   NumGrantLeave, LeaveGrant>>

\* Eat
Eat(i) ==
    /\ Goto(i, "meal", "eating")
    /\ IF MealLeft # 0
       THEN MealLeft' = MealLeft - 1 /\ UNCHANGED done
       ELSE done' = [done EXCEPT ![i] = TRUE] /\ UNCHANGED MealLeft
    /\ K!V(i, MealLeftMutex)
    /\ UNCHANGED <<cnt, PhilState, NumPhilNotIn, NumRdyLeave, NumGrantLeave,
                   LeaveGrant>>

\* PutSticks: wake the left neighbour, then the right one, if they are
\* hungry; each V is a kernel call.  Only then stop eating.
PutSticks(i) ==
    /\ Goto(i, "put", "wakeLeft")
    /\ K!P(i, mutex)
    /\ UNCHANGED <<cnt, dvars>>

StopEating(i) ==
    /\ PhilState' = [PhilState EXCEPT ![i] = "THINKING"]
    /\ K!V(i, mutex)
    /\ pc' = [pc EXCEPT ![i] = "think"]

WakeRight(i) ==
    \/ /\ NumPeople > 2 /\ PhilState[Right(i)] = "ISHUNGRY"
       /\ K!V(i, PhilGrant(Right(i)))
       /\ pc' = [pc EXCEPT ![i] = "wokeRight"]
       /\ UNCHANGED PhilState
    \/ /\ ~(NumPeople > 2 /\ PhilState[Right(i)] = "ISHUNGRY")
       /\ StopEating(i)

\* MUTANT of WakeLeft: the left neighbour is not woken.
WakeLeftNot(i) == WakeRight(i)

WakeLeft(i) ==
    \/ /\ PhilState[Left(i)] = "ISHUNGRY"
       /\ K!V(i, PhilGrant(Left(i)))
       /\ pc' = [pc EXCEPT ![i] = "wokeLeft"]
       /\ UNCHANGED PhilState
    \/ /\ PhilState[Left(i)] # "ISHUNGRY"
       /\ WakeRight(i)

PutSticksStep(i) ==
    /\ \/ pc[i] = "wakeLeft" /\ WakeLeft(i)
       \/ pc[i] = "wokeLeft" /\ WakeRight(i)
       \/ pc[i] = "wokeRight" /\ StopEating(i)
    /\ UNCHANGED <<cnt, done, MealLeft, NumPhilNotIn, NumRdyLeave,
                   NumGrantLeave, LeaveGrant>>

\* LeaveRoom
ReadyToLeave(i) ==
    /\ pc[i] = "ready"
    /\ NumRdyLeave' = NumRdyLeave + 1
    /\ IF NumRdyLeave' = NumPeople
       THEN /\ K!V(i, LeaveSemaphore)
            /\ cnt' = [cnt EXCEPT ![i] = 1]
            /\ pc' = [pc EXCEPT ![i] = "grantLeave"]
       ELSE /\ K!V(i, LeaveMutex)
            /\ pc' = [pc EXCEPT ![i] = "waitLeave"]
            /\ UNCHANGED cnt
    /\ UNCHANGED <<PhilState, done, MealLeft, NumPhilNotIn, NumGrantLeave,
                   LeaveGrant>>

WaitLeave(i) ==
    /\ \/ Goto(i, "waitLeave", "granted") /\ K!P(i, LeaveSemaphore)
       \/ Goto(i, "granted", "leave") /\ K!P(i, LeaveMutex)
    /\ UNCHANGED <<cnt, dvars>>

\* The last one to leave does not release LeaveMutex and returns at once.
Leave(i) ==
    /\ pc[i] = "leave"
    /\ \/ /\ NumGrantLeave < NumPeople - 1
          /\ NumGrantLeave' = NumGrantLeave + 1
          /\ K!V(i, LeaveMutex)
          /\ pc' = [pc EXCEPT ![i] = "return"]
          /\ UNCHANGED LeaveGrant
       \/ /\ NumGrantLeave >= NumPeople - 1
          /\ LeaveGrant' = TRUE
          /\ K!Finish(i)
          /\ pc' = [pc EXCEPT ![i] = "finished"]
          /\ UNCHANGED NumGrantLeave
    /\ UNCHANGED <<cnt, PhilState, done, MealLeft, NumPhilNotIn, NumRdyLeave>>

Return(i) ==
    /\ Goto(i, "return", "finished")
    /\ K!Finish(i)
    /\ UNCHANGED <<cnt, dvars>>

Philosopher(i) ==
    \/ Enter(i) \/ Entered(i)
    \/ GrantAll(i, "grantSit", SitSemaphore, EnterMutex, "sit")
    \/ Sit(i) \/ Dinner(i)
    \/ Hungry(i) \/ GotSticks(i) \/ Await(i) \/ Recheck(i)
    \/ Eat(i) \/ BusyWaitingLoop(i, "eating", "put")
    \/ PutSticks(i) \/ PutSticksStep(i)
    \/ BusyWaitingLoop(i, "think", "dinner")
    \/ ReadyToLeave(i)
    \/ GrantAll(i, "grantLeave", LeaveSemaphore, LeaveMutex, "waitLeave")
    \/ WaitLeave(i) \/ Leave(i) \/ Return(i)

Terminated == halted /\ UNCHANGED vars

Next ==
    \/ ForkPhilosophers
    \/ \E i \in Phil : Philosopher(i)
    \/ \E t \in Threads :
           K!KernelStep(t) /\ UNCHANGED <<pc, cnt, dvars>>
    \/ Terminated

Spec == Init /\ [][Next]_vars

-----------------------------------------------------------------------------
(***************************************************************************)
(* Properties                                                              *)
(***************************************************************************)

\* The types of the variables; the counters stay within P and M.
TypeOK ==
    /\ K!TypeOK
    /\ PhilState \in [Phil -> {"THINKING", "ISHUNGRY", "ISEATING"}]
    /\ MealLeft \in 0..M
    /\ NumPhilNotIn \in 0..NumPeople
    /\ NumRdyLeave \in 0..NumPeople
    /\ NumGrantLeave \in 0..NumPeople

\* Where the promise of Dinner sees philosopher i.
Place(i) ==
    CASE pc[i] \in {"enter", "entered"}  -> "outside"
      [] pc[i] \in {"return", "finished"} -> "left"
      [] PhilState[i] = "ISEATING" ->
            IF ~done[i] /\ pc[i] \in {"eating", "put", "wakeLeft", "wokeLeft", "wokeRight"}
            THEN "eating" ELSE "holding"
      [] OTHER -> "table"

\* t is past the P of mutex s, at one of the places "in".
Inside(in) == {i \in Phil : pc[i] \in in /\ kpc[i] # "P"}

\* At most one philosopher is between the P and the V of EnterMutex, of
\* MealLeftMutex and of LeaveMutex, also while it hands out P grants.
MutexRegions ==
    /\ Cardinality(Inside({"entered", "grantSit"})) <= 1
    /\ Cardinality(Inside({"meal"})) <= 1
    /\ Cardinality(Inside({"ready", "grantLeave", "leave"})) <= 1
=============================================================================
