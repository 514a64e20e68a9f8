------------------------------- MODULE Dinner -------------------------------
(***************************************************************************)
(* What a solution of the dining philosophers promises (ThreadTest, tasks  *)
(* 3 and 4): the philosophers sit down together, neighbours never eat at   *)
(* the same time, every meal is eaten by one philosopher who has both      *)
(* chopsticks, one per time he has them, and they leave together when no   *)
(* meal is left.  No threads, no semaphores, no chopsticks.                *)
(***************************************************************************)
EXTENDS Integers

CONSTANTS NumPeople,  \* number of philosophers
          M           \* number of meals

Phil == 0..(NumPeople - 1)

VARIABLES place,  \* where each philosopher is
          meals   \* the meals left

vars == <<place, meals>>

\* "holding" has both chopsticks and no meal yet.
Place == {"outside", "table", "holding", "eating", "left"}

Init ==
    /\ place = [i \in Phil |-> "outside"]
    /\ meals = M

Move(i, to) == place' = [place EXCEPT ![i] = to]

Others(i) == Phil \ {i}

\* i is at the table and everybody is in the room; the last one to come may
\* go on at once.
Seated(i) ==
    /\ place[i] \in {"outside", "table"}
    /\ \A j \in Others(i) : place[j] # "outside"

SitDown(i) == place[i] = "outside" /\ Move(i, "table") /\ UNCHANGED meals

NeighboursRest(i) ==
    \A j \in {(i + 1) % NumPeople, (i - 1 + NumPeople) % NumPeople} :
        place[j] \notin {"holding", "eating"}

\* Take both chopsticks, and perhaps the meal in the same step.
StartEating(i) ==
    /\ Seated(i)
    /\ NeighboursRest(i)
    /\ \/ Move(i, "holding") /\ UNCHANGED meals
       \/ meals > 0 /\ Move(i, "eating") /\ meals' = meals - 1

TakeMeal(i) ==
    /\ place[i] = "holding"
    /\ meals > 0
    /\ Move(i, "eating")
    /\ meals' = meals - 1

\* Put both chopsticks down; without a meal only if there is none left.
StopEating(i) ==
    /\ place[i] = "eating" \/ (place[i] = "holding" /\ meals = 0)
    /\ Move(i, "table")
    /\ UNCHANGED meals

Leave(i) ==
    /\ Seated(i)
    /\ meals = 0
    /\ \A j \in Others(i) : place[j] \in {"table", "left"}
    /\ Move(i, "left")
    /\ UNCHANGED meals

Next ==
    \E i \in Phil : \/ SitDown(i) \/ StartEating(i) \/ TakeMeal(i)
                    \/ StopEating(i) \/ Leave(i)

Spec == Init /\ [][Next]_vars
=============================================================================
