--------------------------- MODULE ExerciseProofs ---------------------------
(***************************************************************************)
(* Theorems about the dining philosophers of ThreadTest (code/threads/     *)
(* threadtest.cc, tasks 3 and 4) for any number of philosophers and meals; *)
(* and what the people of both post offices (tasks 5 and 6) do: the moves  *)
(* from place to place, and that every step of a task is such a move.      *)
(* PostOfficeProofs concludes from these lemmas.                           *)
(***************************************************************************)
EXTENDS ThreadTest, FiniteSetTheorems, TLAPS

-----------------------------------------------------------------------------
(***************************************************************************)
(* Counting                                                                *)
(***************************************************************************)

\* The set of the people is finite.
LEMMA PersonFinite == IsFiniteSet(Person) /\ Cardinality(Person) = NumPeople
BY FS_Interval, ExerciseAssumption DEF Person

\* The main thread is a thread of its own.
LEMMA MainIsNobody ==
    MainThread \in Threads /\ \A i \in Person : i \in Threads /\ i # MainThread
BY ExerciseAssumption DEF Threads, MainThread, Person

\* How the number of people in a set changes when one of them comes or goes.
LEMMA Counted ==
    ASSUME NEW A \in SUBSET Person, NEW i \in Person
    PROVE  /\ IsFiniteSet(A)
           /\ Cardinality(A) \in Nat
           /\ i \notin A => Cardinality(A \cup {i}) = Cardinality(A) + 1
           /\ i \in A => Cardinality(A \ {i}) = Cardinality(A) - 1
           /\ i \in A => Cardinality(A) >= 1
<1>1. IsFiniteSet(A)
  BY PersonFinite, FS_Subset
<1>2. Cardinality(A) \in Nat /\ (i \in A => Cardinality(A) # 0)
  BY <1>1, FS_CardinalityType, FS_EmptySet
<1>3. Cardinality(A \cup {i}) = IF i \in A THEN Cardinality(A) ELSE Cardinality(A) + 1
  BY <1>1, FS_AddElement
<1>4. Cardinality(A \ {i}) = IF i \in A THEN Cardinality(A) - 1 ELSE Cardinality(A)
  BY <1>1, FS_RemoveElement
<1>5. QED
  BY <1>1, <1>2, <1>3, <1>4

\* A set of people that counts them all is the set of all people; one that
\* counts nobody is empty.
LEMMA CountedAll ==
    ASSUME NEW A \in SUBSET Person
    PROVE  /\ Cardinality(A) = 0 => A = {}
           /\ Cardinality(A) >= NumPeople => A = Person
           /\ Cardinality(A) <= NumPeople
<1>1. IsFiniteSet(A) /\ Cardinality(A) \in Nat
  BY PersonFinite, FS_Subset, FS_CardinalityType
<1>2. Cardinality(A) = 0 => A = {}
  BY <1>1, FS_EmptySet
<1>3. Cardinality(A) <= Cardinality(Person)
  BY PersonFinite, FS_Subset
<1>4. Cardinality(A) = Cardinality(Person) => A = Person
  BY PersonFinite, FS_Subset
<1>5. QED
  BY <1>1, <1>2, <1>3, <1>4, PersonFinite, ExerciseAssumption

\* The people at one of the places `at'.
AreAt(at) == {i \in Person : pc[i] \in at}

\* How many are at some places when i goes from one place to another.
LEMMA Goes ==
    ASSUME NEW i \in Person, NEW to, NEW at, DOMAIN pc = Threads,
           pc' = [pc EXCEPT ![i] = to]
    PROVE  /\ Cardinality(AreAt(at)) \in Nat
           /\ to \in at /\ pc[i] \notin at =>
                 Cardinality(AreAt(at)') = Cardinality(AreAt(at)) + 1
           /\ to \notin at /\ pc[i] \in at =>
                 /\ Cardinality(AreAt(at)') = Cardinality(AreAt(at)) - 1
                 /\ Cardinality(AreAt(at)) >= 1
           /\ (to \in at <=> pc[i] \in at) => AreAt(at)' = AreAt(at)
<1> DEFINE A == {j \in Person : pc[j] \in at}
           B == {j \in Person : pc'[j] \in at}
<1>1. \A j \in Person : pc'[j] = IF j = i THEN to ELSE pc[j]
  BY DEF Threads
<1>2. A \in SUBSET Person /\ AreAt(at) = A /\ AreAt(at)' = B
  BY DEF AreAt
<1>3. \/ B = A \cup {i} /\ i \notin A /\ to \in at /\ pc[i] \notin at
      \/ B = A \ {i} /\ i \in A /\ to \notin at /\ pc[i] \in at
      \/ B = A /\ (to \in at <=> pc[i] \in at)
  <2>1. CASE to \in at /\ pc[i] \notin at
    BY <1>1, <2>1
  <2>2. CASE to \notin at /\ pc[i] \in at
    BY <1>1, <2>2
  <2>3. CASE to \in at <=> pc[i] \in at
    BY <1>1, <2>3
  <2>4. QED
    BY <2>1, <2>2, <2>3
<1> HIDE DEF A, B
<1>4. /\ Cardinality(A) \in Nat
      /\ i \notin A => Cardinality(A \cup {i}) = Cardinality(A) + 1
      /\ i \in A => Cardinality(A \ {i}) = Cardinality(A) - 1
      /\ i \in A => Cardinality(A) >= 1
  BY <1>2, Counted
<1>5. QED
  BY <1>2, <1>3, <1>4

-----------------------------------------------------------------------------
(***************************************************************************)
(* Task 3: the philosophers who look at the chopsticks                     *)
(***************************************************************************)

\* The chopsticks philosopher i has in hand at a place of his code.
Hand(i, at) ==
    CASE at = "eat"        -> {DB!LeftStick(i), DB!RightStick(i)}
      [] at = "reachRight" -> {DB!LeftStick(i)}
      [] OTHER             -> {}

\* Which chopsticks are on the table, when each philosopher has those in hand.
OffTheTable(stick, hand) ==
    \A c \in Person :
        \/ stick[c] = 1 /\ \A j \in Person : c \notin hand[j]
        \/ stick[c] = 0 /\ \E j \in Person : \A k \in Person : c \in hand[k] <=> k = j

\* A philosopher who takes only chopsticks that are on the table and puts the
\* others down keeps the account (chopstick[] in ReachChopStick).
LEMMA HandChanges ==
    ASSUME NEW hand, NEW i \in Person, NEW mine,
           NEW stick, NEW hand2, NEW stick2, OffTheTable(stick, hand),
           hand2 = [j \in Person |-> IF j = i THEN mine ELSE hand[j]],
           \A c \in mine \ hand[i] : stick[c] = 1,
           stick2 = [c \in Person |-> IF c \in mine THEN 0
                                      ELSE IF c \in hand[i] THEN 1 ELSE stick[c]]
    PROVE  OffTheTable(stick2, hand2)
<1> SUFFICES ASSUME NEW c \in Person
             PROVE  \/ stick2[c] = 1 /\ \A j \in Person : c \notin hand2[j]
                    \/ stick2[c] = 0 /\ \E j \in Person :
                                          \A k \in Person : c \in hand2[k] <=> k = j
  BY DEF OffTheTable
<1>1. \/ stick[c] = 1 /\ \A j \in Person : c \notin hand[j]
      \/ stick[c] = 0 /\ \E j \in Person : \A k \in Person : c \in hand[k] <=> k = j
  BY DEF OffTheTable
<1>2. CASE c \in mine
  <2>1. \A k \in Person : c \in hand2[k] <=> k = i
    BY <1>1, <1>2
  <2>2. QED
    BY <1>2, <2>1
<1>3. CASE c \notin mine /\ c \in hand[i]
  BY <1>1, <1>3
<1>4. CASE c \notin mine /\ c \notin hand[i]
  <2>1. \A k \in Person : c \in hand2[k] <=> c \in hand[k]
    BY <1>4
  <2>2. QED
    BY <1>1, <1>4, <2>1
<1>5. QED
  BY <1>2, <1>3, <1>4

BusyPlace == {"fork", "enter", "sit", "reachLeft", "reachRight", "eat", "think",
              "leave", "finished"}

Going == {"leave", "finished"}

InHand == [j \in Person |-> Hand(j, pc[j])]

\* Who is where, and what the counters say of it.
BusyInv ==
    /\ pc \in [Threads -> BusyPlace]
    /\ \A i \in Person : pc[i] # "fork"
    /\ chopstick \in [Person -> {0, 1}]
    /\ CheckCnt \in [Person -> 0..Tries]
    /\ MealLeft \in 0..M
    /\ NumPhilNotIn = Cardinality(AreAt({"enter"}))
    /\ PhilosopherLeaveRdy = Cardinality(AreAt(Going))
    /\ \A i \in Person : pc[i] \in Going => MealLeft = 0
    /\ \A i \in Person : pc[i] \notin {"enter", "sit"} => NumPhilNotIn = 0
    /\ OffTheTable(chopstick, InHand)

\* What a philosopher does to the chopsticks and the meals when he goes on to
\* place `to'.
Handles(i, to) ==
    /\ pc' = [pc EXCEPT ![i] = to]
    /\ CheckCnt' \in [Person -> 0..Tries]
    /\ chopstick' = [c \in Person |-> IF c \in Hand(i, to) THEN 0
                                      ELSE IF c \in Hand(i, pc[i]) THEN 1
                                      ELSE chopstick[c]]
    /\ \A c \in Hand(i, to) \ Hand(i, pc[i]) : chopstick[c] = 1
    /\ IF to = "eat" THEN MealLeft # 0 /\ pc[i] # "eat" /\ MealLeft' = MealLeft - 1
                     ELSE UNCHANGED MealLeft

\* ... and to the counters.
BusyMove(i, to) ==
    /\ Handles(i, to)
    /\ to \in BusyPlace \ {"fork", "enter"}
    /\ to = "sit" => pc[i] \in {"enter", "sit"}
    /\ to # "sit" => NumPhilNotIn' = 0
    /\ to \in Going => MealLeft = 0 /\ pc[i] \notin {"eat", "reachRight"}
    /\ to = "finished" => PhilosopherLeaveRdy' >= NumPeople
    /\ pc[i] # "finished"
    /\ pc[i] \in Going => to \in Going
    /\ NumPhilNotIn' = IF pc[i] = "enter" THEN NumPhilNotIn - 1 ELSE NumPhilNotIn
    /\ PhilosopherLeaveRdy' = IF to \in Going /\ pc[i] \notin Going
                              THEN PhilosopherLeaveRdy + 1 ELSE PhilosopherLeaveRdy

\* The chopsticks of philosopher i are two, numbered as he is and as the next.
LEMMA Sticks ==
    ASSUME NEW i \in Person
    PROVE  /\ DB!LeftStick(i) = i
           /\ DB!RightStick(i) = IF i = NumPeople - 1 THEN 0 ELSE i + 1
           /\ DB!RightStick(i) \in Person
           /\ DB!RightStick(i) # i
<1>1. NumPeople \in Nat /\ NumPeople > 1 /\ i \in Nat /\ i < NumPeople
  BY ExerciseAssumption DEF Person
<1>2. i % NumPeople = i
  BY <1>1
<1>3. (i + 1) % NumPeople = IF i = NumPeople - 1 THEN 0 ELSE i + 1
  <2>1. CASE i = NumPeople - 1
    BY <1>1, <2>1
  <2>2. CASE i # NumPeople - 1
    BY <1>1, <2>2
  <2>3. QED
    BY <2>1, <2>2
<1>4. QED
  BY <1>1, <1>2, <1>3 DEF DB!LeftStick, DB!RightStick, Person

\* The chopsticks a philosopher has in hand at each place.
LEMMA Hands ==
    ASSUME NEW i \in Person, NEW at
    PROVE  /\ at = "eat" => Hand(i, at) = {i, DB!RightStick(i)}
           /\ at = "reachRight" => Hand(i, at) = {i}
           /\ at \notin {"eat", "reachRight"} => Hand(i, at) = {}
BY Sticks DEF Hand

\* A philosopher with both chopsticks eats or puts them back (ReachChopStick).
LEMMA EatsOrDrops ==
    ASSUME NEW i \in Person, BusyInv, DB!EatOrDrop(i), chopstick[DB!RightStick(i)] = 1,
           pc[i] # "eat", pc[i] # "reachRight" => chopstick[i] = 1
    PROVE  \E to \in {"think", "eat"} : Handles(i, to)
<1> USE DEF DB!Phil, DB!Person, Person
<1>1. 0 \in 0..Tries
  BY ExerciseAssumption
<1>2. CheckCnt' \in [Person -> 0..Tries]
  BY <1>1 DEF BusyInv, DB!EatOrDrop
<1>3. /\ Hand(i, "eat") = {i, DB!RightStick(i)} /\ Hand(i, "think") = {}
      /\ pc[i] = "reachRight" => Hand(i, pc[i]) = {i}
      /\ pc[i] # "reachRight" => Hand(i, pc[i]) = {}
  BY Hands
<1>4. chopstick \in [Person -> {0, 1}] /\ DB!LeftStick(i) = i /\ DB!RightStick(i) \in Person
  BY Sticks DEF BusyInv
<1>5. CASE MealLeft = 0
  <2>1. /\ pc' = [pc EXCEPT ![i] = "think"]
        /\ chopstick' = DB!Drop({DB!LeftStick(i), DB!RightStick(i)})
        /\ MealLeft' = MealLeft
    BY <1>5 DEF DB!EatOrDrop, DB!BusyWaitingLoop
  <2>2. chopstick' = [c \in Person |-> IF c \in Hand(i, "think") THEN 0
                                       ELSE IF c \in Hand(i, pc[i]) THEN 1
                                       ELSE chopstick[c]]
    BY <1>3, <1>4, <2>1 DEF DB!Drop
  <2>3. Handles(i, "think")
    BY <1>2, <1>3, <2>1, <2>2 DEF Handles
  <2>4. QED
    BY <2>3
<1>6. CASE MealLeft # 0
  <2>1. /\ pc' = [pc EXCEPT ![i] = "eat"]
        /\ chopstick' = [chopstick EXCEPT ![i] = 0, ![DB!RightStick(i)] = 0]
        /\ MealLeft' = MealLeft - 1
    BY <1>4, <1>6 DEF DB!EatOrDrop, DB!BusyWaitingLoop
  <2>2. chopstick' = [c \in Person |-> IF c \in Hand(i, "eat") THEN 0
                                       ELSE IF c \in Hand(i, pc[i]) THEN 1
                                       ELSE chopstick[c]]
    BY <1>3, <1>4, <2>1
  <2>3. Handles(i, "eat")
    BY <1>2, <1>3, <1>6, <2>1, <2>2 DEF Handles
  <2>4. QED
    BY <2>3
<1>7. QED
  BY <1>5, <1>6

\* Reaching for the right chopstick, the left one being in hand or to be
\* picked up in the same step.
LEMMA ReachesRight ==
    ASSUME NEW i \in Person, NEW n \in 0..Tries, BusyInv, DB!ReachRight(i, n),
           pc[i] # "eat", pc[i] # "reachRight" => chopstick[i] = 1
    PROVE  \E to \in {"think", "eat", "reachRight"} : Handles(i, to)
<1> USE DEF DB!Phil, DB!Person, Person
<1>1. /\ Hand(i, "reachRight") = {i} /\ Hand(i, "think") = {}
      /\ pc[i] = "reachRight" => Hand(i, pc[i]) = {i}
      /\ pc[i] # "reachRight" => Hand(i, pc[i]) = {}
  BY Hands
<1>2. chopstick \in [Person -> {0, 1}] /\ DB!LeftStick(i) = i
  BY Sticks DEF BusyInv
<1>3. CASE n # Tries /\ chopstick[DB!RightStick(i)] = 1 /\ DB!EatOrDrop(i)
  BY <1>3, EatsOrDrops
<1>4. CASE /\ n # Tries
           /\ chopstick' = [chopstick EXCEPT ![DB!LeftStick(i)] = 0]
           /\ DB!LookAgain(i, n, "reachRight")
  <2>1. n + 1 \in 0..Tries
    BY <1>4, ExerciseAssumption
  <2>2. CheckCnt' \in [Person -> 0..Tries]
    BY <1>4, <2>1 DEF BusyInv, DB!LookAgain
  <2>3. pc' = [pc EXCEPT ![i] = "reachRight"] /\ MealLeft' = MealLeft
    BY <1>4 DEF DB!LookAgain, DB!BusyWaitingLoop
  <2>4. chopstick' = [c \in Person |-> IF c \in Hand(i, "reachRight") THEN 0
                                       ELSE IF c \in Hand(i, pc[i]) THEN 1
                                       ELSE chopstick[c]]
    BY <1>1, <1>2, <1>4
  <2>5. Handles(i, "reachRight")
    BY <1>1, <2>2, <2>3, <2>4 DEF Handles
  <2>6. QED
    BY <2>5
<1>5. CASE /\ chopstick' = DB!Drop({DB!LeftStick(i)})
           /\ CheckCnt' = [CheckCnt EXCEPT ![i] = 0]
           /\ DB!BusyWaitingLoop(i, "think")
           /\ MealLeft' = MealLeft
  <2>1. 0 \in 0..Tries
    BY ExerciseAssumption
  <2>2. CheckCnt' \in [Person -> 0..Tries]
    BY <1>5, <2>1 DEF BusyInv
  <2>3. pc' = [pc EXCEPT ![i] = "think"]
    BY <1>5 DEF DB!BusyWaitingLoop
  <2>4. chopstick' = [c \in Person |-> IF c \in Hand(i, "think") THEN 0
                                       ELSE IF c \in Hand(i, pc[i]) THEN 1
                                       ELSE chopstick[c]]
    BY <1>1, <1>2, <1>5 DEF DB!Drop
  <2>5. Handles(i, "think")
    BY <1>1, <1>5, <2>2, <2>3, <2>4 DEF Handles
  <2>6. QED
    BY <2>5
<1>6. QED
  BY <1>3, <1>4, <1>5 DEF DB!ReachRight

\* Reaching for the left chopstick with none in hand.
LEMMA ReachesLeft ==
    ASSUME NEW i \in Person, NEW n \in 0..Tries, BusyInv, DB!ReachLeft(i, n),
           pc[i] \notin {"eat", "reachRight"}
    PROVE  \E to \in {"think", "eat", "reachRight", "reachLeft"} : Handles(i, to)
<1> USE DEF DB!Phil, DB!Person, Person
<1>1. \A at \in {"reachLeft", "think"} : Hand(i, at) = {}
  BY Hands
<1>2. Hand(i, pc[i]) = {}
  BY Hands
<1>3. chopstick = [c \in Person |-> chopstick[c]] /\ DB!LeftStick(i) = i
  BY Sticks DEF BusyInv
<1>4. 0 \in 0..Tries
  BY ExerciseAssumption
<1>5. ASSUME NEW at \in {"reachLeft", "think"}, pc' = [pc EXCEPT ![i] = at],
             UNCHANGED <<chopstick, MealLeft>>, CheckCnt' \in [Person -> 0..Tries]
      PROVE  Handles(i, at)
  <2>1. chopstick' = [c \in Person |-> IF c \in Hand(i, at) THEN 0
                                       ELSE IF c \in Hand(i, pc[i]) THEN 1
                                       ELSE chopstick[c]]
    BY <1>1, <1>2, <1>3, <1>5
  <2>2. QED
    BY <1>1, <1>5, <2>1 DEF Handles
<1>6. CASE n # Tries /\ chopstick[DB!LeftStick(i)] = 1 /\ DB!ReachRight(i, 0)
  BY <1>3, <1>4, <1>6, ReachesRight
<1>7. CASE n # Tries /\ DB!LookAgain(i, n, "reachLeft") /\ chopstick' = chopstick
  <2>1. n + 1 \in 0..Tries
    BY <1>7, ExerciseAssumption
  <2>2. CheckCnt' \in [Person -> 0..Tries]
    BY <1>7, <2>1 DEF BusyInv, DB!LookAgain
  <2>3. pc' = [pc EXCEPT ![i] = "reachLeft"] /\ MealLeft' = MealLeft
    BY <1>7 DEF DB!LookAgain, DB!BusyWaitingLoop
  <2>4. QED
    BY <1>5, <1>7, <2>2, <2>3
<1>8. CASE /\ CheckCnt' = [CheckCnt EXCEPT ![i] = 0]
           /\ DB!BusyWaitingLoop(i, "think")
           /\ UNCHANGED <<chopstick, MealLeft>>
  <2>1. CheckCnt' \in [Person -> 0..Tries]
    BY <1>4, <1>8 DEF BusyInv
  <2>2. pc' = [pc EXCEPT ![i] = "think"]
    BY <1>8 DEF DB!BusyWaitingLoop
  <2>3. QED
    BY <1>5, <1>8, <2>1, <2>2
<1>9. QED
  BY <1>6, <1>7, <1>8 DEF DB!ReachLeft

\* Nothing on the table changes when a philosopher without chopsticks goes
\* where he needs none.
LEMMA EmptyHands ==
    ASSUME NEW i \in Person, NEW to, BusyInv, pc' = [pc EXCEPT ![i] = to],
           pc[i] \notin {"eat", "reachRight"}, to \notin {"eat", "reachRight"},
           UNCHANGED <<CheckCnt, chopstick, MealLeft>>
    PROVE  Handles(i, to)
<1>1. Hand(i, to) = {} /\ Hand(i, pc[i]) = {}
  BY Hands
<1>2. chopstick = [c \in Person |-> chopstick[c]] /\ CheckCnt' \in [Person -> 0..Tries]
  BY DEF BusyInv
<1>3. QED
  BY <1>1, <1>2 DEF Handles

\* Waiting for the others at the end, or leaving with them.
LEMMA WaitsToLeave ==
    ASSUME NEW i \in Person, NEW ready, DB!WaitToLeave(i, ready)
    PROVE  \E to \in Going : /\ pc' = [pc EXCEPT ![i] = to]
                             /\ to = "finished" => ready >= NumPeople
BY DEF DB!WaitToLeave, DB!BusyWaitingLoop, Going

\* The head of the dinner loop, when everybody is in.
LEMMA Dines ==
    ASSUME NEW i \in Person, BusyInv, DB!Dinner(i), NumPhilNotIn' = 0,
           pc[i] \in {"enter", "sit", "think"},
           NumPhilNotIn' = IF pc[i] = "enter" THEN NumPhilNotIn - 1 ELSE NumPhilNotIn
    PROVE  \E to : BusyMove(i, to)
<1>1. CASE MealLeft # 0 /\ DB!ReachLeft(i, 0) /\ UNCHANGED PhilosopherLeaveRdy
  <2>1. 0 \in 0..Tries
    BY ExerciseAssumption
  <2>2. PICK to \in {"think", "eat", "reachRight", "reachLeft"} : Handles(i, to)
    BY <1>1, <2>1, ReachesLeft
  <2>3. BusyMove(i, to)
    BY <1>1, <2>2 DEF BusyMove, BusyPlace, Going
  <2>4. QED
    BY <2>3
<1>2. CASE /\ MealLeft = 0
           /\ PhilosopherLeaveRdy' = PhilosopherLeaveRdy + 1
           /\ DB!WaitToLeave(i, PhilosopherLeaveRdy')
           /\ UNCHANGED <<CheckCnt, chopstick, MealLeft>>
  <2>1. PICK to \in Going : /\ pc' = [pc EXCEPT ![i] = to]
                            /\ to = "finished" => PhilosopherLeaveRdy' >= NumPeople
    BY <1>2, WaitsToLeave
  <2>2. Handles(i, to)
    BY <1>2, <2>1, EmptyHands DEF Going
  <2>3. BusyMove(i, to)
    BY <1>2, <2>1, <2>2 DEF BusyMove, BusyPlace, Going
  <2>4. QED
    BY <2>3
<1>3. QED
  BY <1>1, <1>2 DEF DB!Dinner

\* Coming in and waiting for the others.
LEMMA WaitsToSit ==
    ASSUME NEW i \in Person, BusyInv, DB!WaitToSit(i, NumPhilNotIn'),
           pc[i] \in {"enter", "sit"},
           NumPhilNotIn' = IF pc[i] = "enter" THEN NumPhilNotIn - 1 ELSE NumPhilNotIn
    PROVE  \E to : BusyMove(i, to)
<1>1. CASE /\ pc' = [pc EXCEPT ![i] = "sit"]
           /\ UNCHANGED <<CheckCnt, chopstick, MealLeft, PhilosopherLeaveRdy>>
  <2>1. Handles(i, "sit")
    BY <1>1, EmptyHands
  <2>2. BusyMove(i, "sit")
    BY <1>1, <2>1 DEF BusyMove, BusyPlace, Going
  <2>3. QED
    BY <2>2
<1>2. CASE NumPhilNotIn' = 0 /\ DB!Dinner(i)
  BY <1>2, Dines
<1>3. QED
  BY <1>1, <1>2 DEF DB!WaitToSit

\* Every step of a philosopher is such a move, or a Yield of a BusyWaitingLoop.
LEMMA BusyMoves ==
    ASSUME NEW i \in Person, BusyInv, DB!Philosopher(i)
    PROVE  (\E to : BusyMove(i, to)) \/ UNCHANGED <<pc, DB!dvars>>
<1> USE DEF DB!At
<1>1. NumPhilNotIn \in Nat /\ (pc[i] \notin {"enter", "sit"} => NumPhilNotIn = 0)
  BY CountedAll, Counted DEF BusyInv, AreAt
<1>2. CASE DB!Enter(i)
  BY <1>2, WaitsToSit DEF DB!Enter
<1>3. CASE DB!Sit(i)
  <2>1. DB!WaitToSit(i, NumPhilNotIn') /\ pc[i] = "sit" /\ NumPhilNotIn' = NumPhilNotIn
    BY <1>3 DEF DB!Sit
  <2>2. QED
    BY <2>1, WaitsToSit
<1>4. CASE DB!Reach(i)
  <2>1. CheckCnt[i] \in 0..Tries
    BY DEF BusyInv
  <2>2. pc[i] \in {"reachLeft", "reachRight"} /\ UNCHANGED <<NumPhilNotIn, PhilosopherLeaveRdy>>
    BY <1>4 DEF DB!Reach
  <2>3. \E to \in {"think", "eat", "reachRight", "reachLeft"} : Handles(i, to)
    <3>1. CASE pc[i] = "reachLeft"
      <4>1. DB!ReachLeft(i, CheckCnt[i])
        BY <1>4, <3>1 DEF DB!Reach
      <4>2. QED
        BY <2>1, <3>1, <4>1, ReachesLeft
    <3>2. CASE pc[i] = "reachRight"
      <4>1. DB!ReachRight(i, CheckCnt[i])
        BY <1>4, <3>2 DEF DB!Reach
      <4>2. QED
        BY <2>1, <3>2, <4>1, ReachesRight
    <3>3. QED
      BY <2>2, <3>1, <3>2
  <2>4. PICK to \in {"think", "eat", "reachRight", "reachLeft"} : Handles(i, to)
    BY <2>3
  <2>5. BusyMove(i, to)
    BY <1>1, <2>2, <2>4 DEF BusyMove, BusyPlace, Going
  <2>6. QED
    BY <2>5
<1>5. CASE DB!FinishEating(i)
  <2>1. Hand(i, pc[i]) = {DB!LeftStick(i), DB!RightStick(i)} /\ Hand(i, "think") = {}
    BY <1>5, Hands, Sticks DEF DB!FinishEating
  <2>2. chopstick' = [c \in Person |-> IF c \in Hand(i, "think") THEN 0
                                       ELSE IF c \in Hand(i, pc[i]) THEN 1
                                       ELSE chopstick[c]]
    BY <1>5, <2>1 DEF DB!FinishEating, DB!Drop, DB!Phil, DB!Person, Person
  <2>3. pc' = [pc EXCEPT ![i] = "think"] /\ CheckCnt' \in [Person -> 0..Tries]
    BY <1>5 DEF DB!FinishEating, DB!BusyWaitingLoop, BusyInv
  <2>4. Handles(i, "think")
    BY <1>5, <2>1, <2>2, <2>3 DEF DB!FinishEating, Handles
  <2>5. BusyMove(i, "think")
    BY <1>1, <1>5, <2>4 DEF DB!FinishEating, BusyMove, BusyPlace, Going
  <2>6. QED
    BY <2>5
<1>6. CASE DB!Think(i)
  BY <1>1, <1>6, Dines DEF DB!Think
<1>7. CASE DB!Leave(i)
  <2>1. /\ pc[i] = "leave" /\ DB!WaitToLeave(i, PhilosopherLeaveRdy)
        /\ UNCHANGED <<CheckCnt, chopstick, MealLeft, NumPhilNotIn, PhilosopherLeaveRdy>>
    BY <1>7 DEF DB!Leave, DB!dvars
  <2>2. PICK to \in Going : /\ pc' = [pc EXCEPT ![i] = to]
                            /\ to = "finished" => PhilosopherLeaveRdy' >= NumPeople
    BY <2>1, WaitsToLeave
  <2>3. Handles(i, to)
    BY <2>1, <2>2, EmptyHands DEF Going
  <2>4. MealLeft = 0
    BY <2>1 DEF BusyInv, Going
  <2>5. BusyMove(i, to)
    BY <1>1, <2>1, <2>2, <2>3, <2>4 DEF BusyMove, BusyPlace, Going
  <2>6. QED
    BY <2>5
<1>8. CASE DB!Stall(i)
  BY <1>8 DEF DB!Stall
<1>9. QED
  BY <1>2, <1>3, <1>4, <1>5, <1>6, <1>7, <1>8 DEF DB!Philosopher

\* A move keeps the invariant.
LEMMA BusyMoveKeeps ==
    ASSUME NEW i \in Person, NEW to, BusyInv, BusyMove(i, to)
    PROVE  BusyInv'
<1>1. /\ pc' = [pc EXCEPT ![i] = to] /\ i \in Threads /\ DOMAIN pc = Threads
      /\ to \in BusyPlace \ {"fork", "enter"}
  BY DEF BusyInv, BusyMove, Handles, Threads
<1>2. pc' \in [Threads -> BusyPlace] /\ (\A j \in Person : pc'[j] = IF j = i THEN to ELSE pc[j])
  BY <1>1 DEF BusyInv, Threads
<1>3. \A j \in Person : pc'[j] # "fork"
  BY <1>1, <1>2 DEF BusyInv
<1>4. chopstick' \in [Person -> {0, 1}] /\ CheckCnt' \in [Person -> 0..Tries]
  BY DEF BusyInv, BusyMove, Handles
<1>5. MealLeft' \in 0..M /\ (MealLeft = 0 => MealLeft' = 0)
  BY ExerciseAssumption DEF BusyInv, BusyMove, Handles
<1>6. NumPhilNotIn' = Cardinality(AreAt({"enter"})')
  BY <1>1, Goes DEF BusyInv, BusyMove
<1>7. PhilosopherLeaveRdy' = Cardinality(AreAt(Going)')
  <2>1. pc[i] \in Going => to \in Going
    BY DEF BusyMove
  <2>2. QED
    BY <1>1, <2>1, Goes DEF BusyInv, BusyMove
<1>8. ASSUME NEW j \in Person, pc'[j] \in Going PROVE MealLeft' = 0
  BY <1>2, <1>5, <1>8 DEF BusyInv, BusyMove
<1>9. ASSUME NEW j \in Person, pc'[j] \notin {"enter", "sit"} PROVE NumPhilNotIn' = 0
  <2>1. CASE j = i
    BY <1>2, <1>9, <2>1 DEF BusyMove
  <2>2. CASE j # i
    <3>1. NumPhilNotIn = 0
      BY <1>2, <1>9, <2>2 DEF BusyInv
    <3>2. AreAt({"enter"}) = {}
      BY <3>1, CountedAll DEF BusyInv, AreAt
    <3>3. pc[i] # "enter"
      BY <3>2 DEF AreAt
    <3>4. QED
      BY <3>1, <3>3 DEF BusyMove
  <2>3. QED
    BY <2>1, <2>2
<1>10. OffTheTable(chopstick', InHand')
  <2>1. InHand' = [j \in Person |-> IF j = i THEN Hand(i, to) ELSE InHand[j]]
    BY <1>2 DEF InHand
  <2>2. InHand[i] = Hand(i, pc[i])
    BY DEF InHand
  <2>3. /\ \A c \in Hand(i, to) \ InHand[i] : chopstick[c] = 1
        /\ chopstick' = [c \in Person |-> IF c \in Hand(i, to) THEN 0
                                          ELSE IF c \in InHand[i] THEN 1 ELSE chopstick[c]]
    BY <2>2 DEF BusyMove, Handles
  <2>4. OffTheTable(chopstick, InHand)
    BY DEF BusyInv
  <2>5. QED
    BY <2>1, <2>3, <2>4, HandChanges
<1>11. QED
  BY <1>2, <1>3, <1>4, <1>5, <1>6, <1>7, <1>8, <1>9, <1>10 DEF BusyInv

\* Everybody is outside and every chopstick is on the table at the start.
LEMMA BusyInit == Init /\ Task = 3 => BusyInv
<1> SUFFICES ASSUME Init, Task = 3 PROVE BusyInv
  OBVIOUS
<1> USE DEF DB!Phil, DB!Person, DB!Threads, DB!MainThread, Person, Threads, MainThread
<1>1. DB!Init
  BY DEF Init
<1>2. pc = [t \in Threads |-> IF t = MainThread THEN "fork" ELSE "enter"]
  BY <1>1 DEF DB!Init, DB!ExerciseInit
<1>3. \A i \in Person : i \in Threads /\ i # MainThread /\ pc[i] = "enter"
  BY <1>2, ExerciseAssumption
<1>4. pc \in [Threads -> BusyPlace]
  BY <1>2 DEF BusyPlace
<1>5. AreAt({"enter"}) = Person /\ AreAt(Going) = {}
  BY <1>3 DEF AreAt, Going
<1>6. Cardinality(AreAt({"enter"})) = NumPeople /\ Cardinality(AreAt(Going)) = 0
  BY <1>5, PersonFinite, FS_EmptySet
<1>7. InHand = [j \in Person |-> {}]
  BY <1>3, Hands DEF InHand
<1>8. /\ chopstick = [c \in Person |-> 1]
      /\ CheckCnt = [c \in Person |-> 0]
      /\ MealLeft = M /\ NumPhilNotIn = NumPeople /\ PhilosopherLeaveRdy = 0
  BY <1>1 DEF DB!Init
<1>9. OffTheTable(chopstick, InHand)
  BY <1>7, <1>8 DEF OffTheTable
<1>10. MealLeft \in 0..M /\ CheckCnt \in [Person -> 0..Tries]
  BY <1>8, ExerciseAssumption
<1>11. QED
  BY <1>3, <1>4, <1>6, <1>8, <1>9, <1>10 DEF BusyInv, Going

\* The main thread only forks, and is nobody's place.
LEMMA BusyMain ==
    ASSUME BusyInv, UNCHANGED DB!dvars,
           pc' = [pc EXCEPT ![MainThread] = "finished"] \/ pc' = pc
    PROVE  BusyInv'
<1>1. pc' \in [Threads -> BusyPlace] /\ \A i \in Person : pc'[i] = pc[i]
  <2>1. pc \in [Threads -> BusyPlace] /\ "finished" \in BusyPlace
    BY DEF BusyInv, BusyPlace
  <2>2. QED
    BY <2>1, MainIsNobody
<1>2. /\ AreAt({"enter"})' = AreAt({"enter"}) /\ AreAt(Going)' = AreAt(Going)
      /\ InHand' = InHand
  BY <1>1 DEF AreAt, InHand
<1>3. QED
  BY <1>1, <1>2 DEF BusyInv, DB!dvars

\* Every step of task 3 keeps the invariant.
LEMMA BusyNext == BusyInv /\ Task = 3 /\ [Next]_vars => BusyInv'
<1> SUFFICES ASSUME BusyInv, Task = 3, [Next]_vars PROVE BusyInv'
  OBVIOUS
<1>1. DB!Next \/ UNCHANGED vars
  BY DEF Next, ShoutStep, BusyWaitStep, SemaphoreStep, MailLoopStep, MailSemaphoreStep
<1>2. CASE DB!ForkPhilosophers
  BY <1>2, BusyMain DEF DB!ForkPhilosophers, DB!MainThread, MainThread
<1>3. CASE \E i \in Person : DB!Philosopher(i)
  BY <1>3, BusyMoves, BusyMoveKeeps, BusyMain
<1>4. CASE UNCHANGED <<pc, DB!dvars>>
  BY <1>4, BusyMain
<1>5. QED
  BY <1>1, <1>2, <1>3, <1>4
     DEF DB!Next, DB!Terminated, DB!vars, DB!Phil, DB!Person, Person, vars, dvars, bvars,
         DB!dvars

\* The task does not change.
LEMMA TaskStays == [Next]_vars => Task' = Task
BY DEF Next, vars, ShoutStep, BusyWaitStep, SemaphoreStep, MailLoopStep, MailSemaphoreStep

\* In every reachable state of the dinner with busy waiting, for any number of
\* philosophers and meals, a chopstick is off the table exactly when one
\* philosopher has it in hand, and never when two have (ReachChopStick, Eat and
\* the aborted attempts change chopstick[], which no semaphore protects).
THEOREM ChopsticksConserved == Spec => []SticksConserved
<1> DEFINE Inv == Task = 3 => BusyInv
<1>1. Init => Inv
  BY BusyInit
<1>2. Inv /\ [Next]_vars => Inv'
  BY BusyNext, TaskStays
<1>3. Inv => SticksConserved
  <2> SUFFICES ASSUME BusyInv, NEW c \in Person
               PROVE  DB!Cardinality(DB!Holders(c)) = 1 - chopstick[c]
    BY DEF SticksConserved, DB!SticksConserved, DB!Phil, DB!Person, Person
  <2>1. DB!Holders(c) = {j \in Person : c \in InHand[j]}
    BY DEF DB!Holders, InHand, Hand, DB!Phil, DB!Person, Person
  <2>2. \/ chopstick[c] = 1 /\ DB!Holders(c) = {}
        \/ chopstick[c] = 0 /\ \E j \in Person : DB!Holders(c) = {j}
    BY <2>1 DEF BusyInv, OffTheTable
  <2>3. Cardinality(DB!Holders(c)) = 1 - chopstick[c]
    BY <2>2, FS_EmptySet, FS_Singleton
  <2>4. QED
    BY <2>3 DEF DB!Cardinality, Cardinality
<1>4. QED
  BY <1>1, <1>2, <1>3, PTL DEF Spec

-----------------------------------------------------------------------------
(***************************************************************************)
(* Tasks 3 and 4 keep the promise of Dinner                                *)
(***************************************************************************)

\* Philosopher i goes, for Dinner, to place `to'.
SeenMove(i, to) == SeenPlace' = [SeenPlace EXCEPT ![i] = to]

Neighbours(i) == {(i + 1) % NumPeople, (i - 1 + NumPeople) % NumPeople}

\* The steps of Dinner, in terms of what it sees.
LEMMA SeenSitDown ==
    ASSUME NEW i \in Person, SeenPlace[i] = "outside", SeenMove(i, "table"),
           SeenMeals' = SeenMeals
    PROVE  D!Next
<1>1. D!SitDown(i)
  BY DEF D!SitDown, D!Move, SeenMove
<1>2. QED
  BY <1>1 DEF D!Next, D!Phil, Person

\* Likewise, taking both chopsticks.
LEMMA SeenStartEating ==
    ASSUME NEW i \in Person, SeenPlace[i] \in {"outside", "table"},
           \A j \in Person \ {i} : SeenPlace[j] # "outside",
           \A j \in Neighbours(i) : SeenPlace[j] \notin {"holding", "eating"},
           \/ SeenMove(i, "holding") /\ SeenMeals' = SeenMeals
           \/ SeenMeals > 0 /\ SeenMove(i, "eating") /\ SeenMeals' = SeenMeals - 1
    PROVE  D!Next
<1>1. D!Seated(i) /\ D!NeighboursRest(i)
  BY DEF D!Seated, D!Others, D!Phil, Person, D!NeighboursRest, Neighbours
<1>2. D!StartEating(i)
  BY <1>1 DEF D!StartEating, D!Move, SeenMove
<1>3. QED
  BY <1>2 DEF D!Next, D!Phil, Person

\* Likewise, taking a meal with the chopsticks in hand.
LEMMA SeenTakeMeal ==
    ASSUME NEW i \in Person, SeenPlace[i] = "holding", SeenMeals > 0,
           SeenMove(i, "eating"), SeenMeals' = SeenMeals - 1
    PROVE  D!Next
<1>1. D!TakeMeal(i)
  BY DEF D!TakeMeal, D!Move, SeenMove
<1>2. QED
  BY <1>1 DEF D!Next, D!Phil, Person

\* Likewise, putting the chopsticks down.
LEMMA SeenStopEating ==
    ASSUME NEW i \in Person,
           SeenPlace[i] = "eating" \/ (SeenPlace[i] = "holding" /\ SeenMeals = 0),
           SeenMove(i, "table"), SeenMeals' = SeenMeals
    PROVE  D!Next
<1>1. D!StopEating(i)
  BY DEF D!StopEating, D!Move, SeenMove
<1>2. QED
  BY <1>1 DEF D!Next, D!Phil, Person

\* Likewise, leaving.
LEMMA SeenLeave ==
    ASSUME NEW i \in Person, SeenPlace[i] \in {"outside", "table"}, SeenMeals = 0,
           \A j \in Person \ {i} : SeenPlace[j] \in {"table", "left"},
           SeenMove(i, "left"), SeenMeals' = SeenMeals
    PROVE  D!Next
<1>1. D!Seated(i)
  BY DEF D!Seated, D!Others, D!Phil, Person
<1>2. D!Leave(i)
  BY <1>1 DEF D!Leave, D!Move, SeenMove, D!Others, D!Phil, Person
<1>3. QED
  BY <1>2 DEF D!Next, D!Phil, Person

\* A neighbour is somebody else, and neighbours share a chopstick.
LEMMA NeighboursShare ==
    ASSUME NEW i \in Person, NEW j \in Neighbours(i)
    PROVE  /\ j \in Person /\ j # i
           /\ j = DB!RightStick(i) \/ i = DB!RightStick(j)
<1>1. NumPeople \in Nat /\ NumPeople > 1 /\ i \in Nat /\ i < NumPeople
  BY ExerciseAssumption DEF Person
<1>2. CASE j = (i + 1) % NumPeople
  BY <1>2, Sticks DEF DB!RightStick
<1>3. CASE j = (i - 1 + NumPeople) % NumPeople
  <2>1. j = IF i = 0 THEN NumPeople - 1 ELSE i - 1
    <3>1. CASE i = 0
      BY <1>1, <1>3, <3>1
    <3>2. CASE i # 0
      <4>1. i - 1 + NumPeople = NumPeople + (i - 1) /\ i - 1 \in Nat /\ i - 1 < NumPeople
        BY <1>1, <3>2
      <4>2. (NumPeople + (i - 1)) % NumPeople = i - 1
        BY <1>1, <4>1
      <4>3. QED
        BY <1>3, <3>2, <4>1, <4>2
    <3>3. QED
      BY <3>1, <3>2
  <2>2. j \in Person /\ j # i
    BY <1>1, <2>1 DEF Person
  <2>3. DB!RightStick(j) = IF j = NumPeople - 1 THEN 0 ELSE j + 1
    BY <2>2, Sticks
  <2>4. QED
    BY <1>1, <2>1, <2>2, <2>3
<1>4. QED
  BY <1>2, <1>3 DEF Neighbours

\* A philosopher who takes his second chopstick has no neighbour who eats.
LEMMA NeighboursDoNotEat ==
    ASSUME NEW i \in Person, NEW j \in Neighbours(i), BusyInv, Handles(i, "eat")
    PROVE  pc[j] # "eat"
<1> SUFFICES ASSUME pc[j] = "eat" PROVE FALSE
  OBVIOUS
<1>1. /\ j \in Person /\ j # i /\ (j = DB!RightStick(i) \/ i = DB!RightStick(j))
  BY NeighboursShare
<1>2. InHand[j] = {j, DB!RightStick(j)}
  BY <1>1, Hands DEF InHand
<1>3. pc[i] # "eat" /\ \A c \in {i, DB!RightStick(i)} \ Hand(i, pc[i]) : chopstick[c] = 1
  BY Hands DEF Handles
<1>4. Hand(i, pc[i]) = IF pc[i] = "reachRight" THEN {i} ELSE {}
  BY <1>3, Hands
<1>5. DB!RightStick(i) \in Person /\ DB!RightStick(i) # i
  BY Sticks
<1>6. OffTheTable(chopstick, InHand) /\ InHand[i] = Hand(i, pc[i])
  BY DEF BusyInv, InHand
<1>7. CASE j = DB!RightStick(i)
  <2>1. chopstick[j] = 1 /\ j \in InHand[j]
    BY <1>2, <1>3, <1>4, <1>5, <1>7
  <2>2. QED
    BY <1>1, <1>6, <2>1 DEF OffTheTable
<1>8. CASE i = DB!RightStick(j)
  <2>1. i \in InHand[j]
    BY <1>2, <1>8
  <2>2. CASE pc[i] = "reachRight"
    BY <1>1, <1>4, <1>6, <2>1, <2>2 DEF OffTheTable
  <2>3. CASE pc[i] # "reachRight"
    BY <1>1, <1>3, <1>4, <1>6, <2>1, <2>3 DEF OffTheTable
  <2>4. QED
    BY <2>2, <2>3
<1>9. QED
  BY <1>1, <1>7, <1>8

\* Where Dinner sees a philosopher of task 3.
BusySeen(at) ==
    CASE at = "enter"    -> "outside"
      [] at = "eat"      -> "eating"
      [] at = "finished" -> "left"
      [] OTHER           -> "table"

\* Every move of task 3 is a step of Dinner or changes nothing it sees.
LEMMA BusyDines ==
    ASSUME NEW i \in Person, NEW to, BusyInv, BusyMove(i, to), Task = 3, Task' = 3
    PROVE  D!Next \/ UNCHANGED <<SeenPlace, SeenMeals>>
<1>1. /\ SeenMeals = MealLeft /\ SeenMeals' = MealLeft'
      /\ SeenPlace = [j \in Person |-> BusySeen(pc[j])]
      /\ SeenPlace' = [j \in Person |-> BusySeen(pc'[j])]
  BY DEF SeenMeals, SeenPlace, Place, DB!Place, BusySeen
<1>2. \A j \in Person : pc'[j] = IF j = i THEN to ELSE pc[j]
  BY DEF BusyMove, Handles, BusyInv, Threads
<1>3. SeenMove(i, BusySeen(to)) /\ SeenPlace[i] = BusySeen(pc[i])
  BY <1>1, <1>2 DEF SeenMove
<1>4. /\ pc[i] # "finished" /\ pc[i] # "fork"
      /\ to \in BusyPlace \ {"fork", "enter"} /\ pc[i] \in BusyPlace
      /\ IF to = "eat" THEN MealLeft # 0 /\ pc[i] # "eat" /\ MealLeft' = MealLeft - 1
                       ELSE MealLeft' = MealLeft
      /\ MealLeft \in Nat
  BY MainIsNobody DEF BusyInv, BusyMove, Handles
<1>5. to # "sit" => \A j \in Person \ {i} : SeenPlace[j] # "outside"
  <2> SUFFICES ASSUME to # "sit", NEW j \in Person \ {i} PROVE pc[j] # "enter"
    BY <1>1 DEF BusySeen
  <2>1. BusyInv' /\ NumPhilNotIn' = 0
    BY BusyMoveKeeps DEF BusyMove
  <2>2. Cardinality({k \in Person : pc'[k] \in {"enter"}}) = 0
    BY <2>1 DEF BusyInv, AreAt
  <2>3. {k \in Person : pc'[k] \in {"enter"}} = {}
    BY <2>2, CountedAll
  <2>4. QED
    BY <1>2, <2>3
<1>6. CASE to = "eat"
  <2>1. SeenMove(i, "eating") /\ SeenMeals > 0 /\ SeenMeals' = SeenMeals - 1
    BY <1>1, <1>3, <1>4, <1>6 DEF BusySeen
  <2>2. \A j \in Neighbours(i) : SeenPlace[j] \notin {"holding", "eating"}
    <3> SUFFICES ASSUME NEW j \in Neighbours(i)
                 PROVE  SeenPlace[j] \notin {"holding", "eating"}
      OBVIOUS
    <3>1. j \in Person /\ pc[j] # "eat"
      BY <1>6, NeighboursShare, NeighboursDoNotEat DEF BusyMove
    <3>2. QED
      BY <1>1, <3>1 DEF BusySeen
  <2>3. SeenPlace[i] \in {"outside", "table"}
    BY <1>3, <1>4, <1>6 DEF BusySeen
  <2>4. QED
    BY <1>5, <1>6, <2>1, <2>2, <2>3, SeenStartEating
<1>7. CASE to = "finished"
  <2>1. SeenMove(i, "left") /\ SeenMeals = 0 /\ SeenMeals' = SeenMeals
    BY <1>1, <1>3, <1>4, <1>7 DEF BusySeen, BusyMove, Going
  <2>2. SeenPlace[i] \in {"outside", "table"}
    BY <1>3, <1>4, <1>7 DEF BusySeen, BusyMove, Going
  <2>3. \A j \in Person \ {i} : SeenPlace[j] \in {"table", "left"}
    <3> SUFFICES ASSUME NEW j \in Person \ {i} PROVE pc[j] \in Going
      BY <1>1 DEF BusySeen, Going
    <3>1. BusyInv' /\ PhilosopherLeaveRdy' >= NumPeople
      BY <1>7, BusyMoveKeeps DEF BusyMove
    <3>2. Cardinality({k \in Person : pc'[k] \in Going}) >= NumPeople
      BY <3>1 DEF BusyInv, AreAt
    <3>3. {k \in Person : pc'[k] \in Going} = Person
      BY <3>2, CountedAll
    <3>4. QED
      BY <1>2, <3>3
  <2>4. QED
    BY <2>1, <2>2, <2>3, SeenLeave
<1>8. CASE to \notin {"eat", "finished"}
  <2>1. SeenMove(i, "table") /\ SeenMeals' = SeenMeals
    BY <1>1, <1>3, <1>4, <1>8 DEF BusySeen
  <2>2. CASE pc[i] = "enter"
    BY <1>3, <2>1, <2>2, SeenSitDown DEF BusySeen
  <2>3. CASE pc[i] = "eat"
    BY <1>3, <2>1, <2>3, SeenStopEating DEF BusySeen
  <2>4. CASE pc[i] \notin {"enter", "eat"}
    <3>1. SeenPlace[i] = "table"
      BY <1>3, <1>4, <2>4 DEF BusySeen
    <3>2. SeenPlace' = SeenPlace
      BY <1>1, <2>1, <3>1 DEF SeenMove
    <3>3. QED
      BY <2>1, <3>2
  <2>5. QED
    BY <2>2, <2>3, <2>4
<1>9. QED
  BY <1>6, <1>7, <1>8

-----------------------------------------------------------------------------
(***************************************************************************)
(* Task 4: the philosophers with semaphores                                *)
(***************************************************************************)
NoSem == <<"none", 0>>

\* The semaphore a thread that waits at a place waits for.
WaitsAt(i, at) ==
    CASE at = "entered"              -> DS!EnterMutex
      [] at = "dinner"               -> DS!SitSemaphore
      [] at \in {"hungry", "wakeLeft"} -> DS!mutex
      [] at \in {"ready", "leave"}   -> DS!LeaveMutex
      [] at = "recheck"              -> DS!PhilGrant(i)
      [] at = "meal"                 -> DS!MealLeftMutex
      [] at = "granted"              -> DS!LeaveSemaphore
      [] OTHER                       -> NoSem

Waiting == {"entered", "dinner", "hungry", "wakeLeft", "ready", "leave", "recheck",
            "meal", "granted"}

\* Philosopher i has both chopsticks, or may have them.
Served == {"gotSticks", "meal", "eating", "put", "wakeLeft", "wokeLeft", "wokeRight"}
MayBeServed == {"await", "recheck"}

\* The places behind "NumRdyLeave ++".
Leaving == {"grantLeave", "waitLeave", "granted", "leave", "return", "finished"}

SemPlace == {"fork", "enter", "grantSit", "sit", "think"}
                \cup Waiting \cup Served \cup MayBeServed \cup Leaving

\* Types, and what a thread that waits waits for.
SemTypes ==
    /\ pc \in [Threads -> SemPlace]
    /\ PhilState \in [Person -> {"THINKING", "ISHUNGRY", "ISEATING"}]
    /\ done \in [Person -> BOOLEAN]
    /\ MealLeft \in 0..M
    /\ NumGrantLeave \in 0..NumPeople
    /\ \A t \in Threads : waitsOn[t] # NoSem =>
           t \in Person /\ pc[t] \in Waiting /\ waitsOn[t] = WaitsAt(t, pc[t])

\* Nobody is past SitSemaphore before all are in.
Sitting ==
    /\ NumPhilNotIn = Cardinality(AreAt({"enter", "entered"}))
    /\ value[DS!SitSemaphore] > 0 => NumPhilNotIn = 0
    /\ \A i \in Person :
           \/ pc[i] \in {"enter", "entered", "sit"}
           \/ pc[i] = "dinner" /\ waitsOn[i] # NoSem
           \/ NumPhilNotIn = 0

\* Nobody is past LeaveSemaphore before all are ready to leave.
Departing ==
    /\ NumRdyLeave = Cardinality(AreAt(Leaving))
    /\ value[DS!LeaveSemaphore] > 0 => NumRdyLeave = NumPeople
    /\ \A i \in Person :
           \/ pc[i] \notin Leaving \/ pc[i] = "waitLeave"
           \/ pc[i] = "granted" /\ waitsOn[i] # NoSem
           \/ NumRdyLeave = NumPeople

\* Who is done found no meal left; who leaves is done.
Finding ==
    /\ \A i \in Person : done[i] => MealLeft = 0
    /\ \A i \in Person : pc[i] \in Leaving \cup {"ready"} => done[i]
    /\ \A i \in Person : pc[i] \in {"hungry", "gotSticks", "meal"} \cup MayBeServed => ~done[i]

\* Who eats has the chopsticks, and his neighbours do not.
Sharing ==
    /\ \A i \in Person : PhilState[i] = "ISEATING" => pc[i] \in Served \cup MayBeServed
    /\ \A i \in Person : pc[i] \in Served => PhilState[i] = "ISEATING"
    /\ \A i \in Person : pc[i] \in MayBeServed => PhilState[i] # "THINKING"
    /\ \A i \in Person : PhilState[i] = "ISEATING" =>
           \A j \in Neighbours(i) : PhilState[j] # "ISEATING"

\* The philosophers past the P of a mutex.
Within(at) == {i \in Person : pc[i] \in at /\ waitsOn[i] = NoSem}

\* A mutex is free, or one philosopher has it.
Excluding ==
    /\ value[DS!EnterMutex] + Cardinality(Within({"entered", "grantSit"})) <= 1
    /\ value[DS!MealLeftMutex] + Cardinality(Within({"meal"})) <= 1
    /\ value[DS!LeaveMutex] + Cardinality(Within({"ready", "grantLeave", "leave"})) <= 1

SemInv == SemTypes /\ Sitting /\ Departing /\ Finding /\ Sharing /\ Excluding

\* The semaphores of task 4 are different from each other.
LEMMA SemNames ==
    /\ {DS!mutex, DS!EnterMutex, DS!LeaveMutex, DS!MealLeftMutex, DS!SitSemaphore,
        DS!LeaveSemaphore} \subseteq DS!Semaphores
    /\ \A i \in Person : DS!PhilGrant(i) \in DS!Semaphores
    /\ NoSem \notin DS!Semaphores
    /\ DS!EnterMutex \notin {DS!mutex, DS!LeaveMutex, DS!MealLeftMutex, DS!SitSemaphore,
                             DS!LeaveSemaphore}
    /\ DS!LeaveMutex \notin {DS!mutex, DS!MealLeftMutex, DS!SitSemaphore,
                             DS!LeaveSemaphore}
    /\ DS!MealLeftMutex \notin {DS!mutex, DS!SitSemaphore, DS!LeaveSemaphore}
    /\ DS!SitSemaphore \notin {DS!mutex, DS!LeaveSemaphore}
    /\ DS!LeaveSemaphore # DS!mutex
    /\ \A i \in Person : DS!PhilGrant(i) \notin
           {DS!mutex, DS!EnterMutex, DS!LeaveMutex, DS!MealLeftMutex, DS!SitSemaphore,
            DS!LeaveSemaphore}
<1> USE DEF DS!mutex, DS!EnterMutex, DS!LeaveMutex, DS!MealLeftMutex, DS!SitSemaphore,
            DS!LeaveSemaphore, DS!PhilGrant
<1>1. NoSem \notin DS!Semaphores
  BY DEF NoSem, DS!Semaphores
<1>2. \A i \in Person : DS!PhilGrant(i) \in DS!Semaphores
  BY DEF DS!Semaphores, DS!Phil, DS!Person, Person
<1>3. {DS!mutex, DS!EnterMutex, DS!LeaveMutex, DS!MealLeftMutex, DS!SitSemaphore,
        DS!LeaveSemaphore} \subseteq DS!Semaphores
  BY DEF DS!Semaphores
<1>4. QED
  BY <1>1, <1>2, <1>3

\* An atomic P by a thread that does not wait, and an atomic V.
Claims(i, s) ==
    \/ value[s] = 0 /\ value' = value /\ waitsOn' = [waitsOn EXCEPT ![i] = s]
    \/ value[s] > 0 /\ value' = [value EXCEPT ![s] = @ - 1] /\ waitsOn' = waitsOn

Gives(s) == value' = [value EXCEPT ![s] = @ + 1] /\ waitsOn' = waitsOn

(***************************************************************************)
(* The moves of a philosopher from place to place, each with what it does  *)
(* to the variables of the exercise and to the semaphores                  *)
(***************************************************************************)
Claiming == {<<"enter", "entered">>, <<"sit", "dinner">>, <<"dinner", "hungry">>,
             <<"dinner", "ready">>, <<"await", "recheck">>, <<"recheck", "meal">>,
             <<"put", "wakeLeft">>, <<"waitLeave", "granted">>, <<"granted", "leave">>}

ClaimMove(i, to) ==
    /\ <<pc[i], to>> \in Claiming
    /\ to = "hungry" => ~done[i]
    /\ to = "ready" => done[i]
    /\ to = "meal" => PhilState[i] # "ISHUNGRY"
    /\ Claims(i, WaitsAt(i, to))
    /\ UNCHANGED DS!dvars

Quietly == {<<"eating", "eating">>, <<"eating", "put">>, <<"think", "think">>,
            <<"think", "dinner">>, <<"return", "finished">>}

QuietMove(i, to) ==
    /\ <<pc[i], to>> \in Quietly
    /\ UNCHANGED <<value, waitsOn, DS!dvars>>

EnteredMove(i, to) ==
    /\ pc[i] = "entered"
    /\ NumPhilNotIn' = NumPhilNotIn - 1
    /\ \/ to = "grantSit" /\ NumPhilNotIn' = 0 /\ Gives(DS!SitSemaphore)
       \/ to = "sit" /\ NumPhilNotIn' # 0 /\ Gives(DS!EnterMutex)
    /\ UNCHANGED <<PhilState, done, MealLeft, NumRdyLeave, NumGrantLeave>>

ReadyMove(i, to) ==
    /\ pc[i] = "ready"
    /\ NumRdyLeave' = NumRdyLeave + 1
    /\ \/ to = "grantLeave" /\ NumRdyLeave' = NumPeople /\ Gives(DS!LeaveSemaphore)
       \/ to = "waitLeave" /\ NumRdyLeave' # NumPeople /\ Gives(DS!LeaveMutex)
    /\ UNCHANGED <<PhilState, done, MealLeft, NumPhilNotIn, NumGrantLeave>>

\* V of a semaphore and nothing else.
GiveMove(i, to) ==
    /\ \/ pc[i] = "grantSit" /\ to = "grantSit" /\ Gives(DS!SitSemaphore)
       \/ pc[i] = "grantSit" /\ to = "sit" /\ Gives(DS!EnterMutex)
       \/ pc[i] = "grantLeave" /\ to = "grantLeave" /\ Gives(DS!LeaveSemaphore)
       \/ pc[i] = "grantLeave" /\ to = "waitLeave" /\ Gives(DS!LeaveMutex)
       \/ pc[i] = "gotSticks" /\ to = "await" /\ Gives(DS!mutex)
       \/ /\ pc[i] \in {"wakeLeft", "wokeLeft"} /\ to \in {"wokeLeft", "wokeRight"}
          /\ \E j \in Person : Gives(DS!PhilGrant(j))
    /\ UNCHANGED DS!dvars

TryMove(i, to) ==
    /\ pc[i] = "hungry" \/ (pc[i] = "recheck" /\ PhilState[i] = "ISHUNGRY")
    /\ \/ /\ to = "gotSticks" /\ DS!SticksFree(i)
          /\ PhilState' = [PhilState EXCEPT ![i] = "ISEATING"]
          /\ Gives(DS!PhilGrant(i))
       \/ /\ to = "await"
          /\ PhilState' = [PhilState EXCEPT ![i] = "ISHUNGRY"]
          /\ Gives(DS!mutex)
    /\ UNCHANGED <<done, MealLeft, NumPhilNotIn, NumRdyLeave, NumGrantLeave>>

EatMove(i, to) ==
    /\ pc[i] = "meal" /\ to = "eating"
    /\ \/ MealLeft # 0 /\ MealLeft' = MealLeft - 1 /\ done' = done
       \/ MealLeft = 0 /\ MealLeft' = MealLeft /\ done' = [done EXCEPT ![i] = TRUE]
    /\ Gives(DS!MealLeftMutex)
    /\ UNCHANGED <<PhilState, NumPhilNotIn, NumRdyLeave, NumGrantLeave>>

StopMove(i, to) ==
    /\ pc[i] \in {"wakeLeft", "wokeLeft", "wokeRight"} /\ to = "think"
    /\ PhilState' = [PhilState EXCEPT ![i] = "THINKING"]
    /\ Gives(DS!mutex)
    /\ UNCHANGED <<done, MealLeft, NumPhilNotIn, NumRdyLeave, NumGrantLeave>>

LeaveMove(i, to) ==
    /\ pc[i] = "leave"
    /\ \/ /\ to = "return" /\ NumGrantLeave < NumPeople - 1
          /\ NumGrantLeave' = NumGrantLeave + 1 /\ Gives(DS!LeaveMutex)
       \/ /\ to = "finished" /\ NumGrantLeave' = NumGrantLeave
          /\ UNCHANGED <<value, waitsOn>>
    /\ UNCHANGED <<PhilState, done, MealLeft, NumPhilNotIn, NumRdyLeave>>

SemMove(i, to) ==
    /\ waitsOn[i] = NoSem
    /\ pc' = [pc EXCEPT ![i] = to]
    /\ \/ ClaimMove(i, to) \/ QuietMove(i, to) \/ EnteredMove(i, to) \/ ReadyMove(i, to)
       \/ GiveMove(i, to) \/ TryMove(i, to) \/ EatMove(i, to) \/ StopMove(i, to)
       \/ LeaveMove(i, to)

\* The kernel lets a waiting philosopher have what he waits for.
Served4(t) ==
    /\ waitsOn[t] \in DS!Semaphores
    /\ value[waitsOn[t]] > 0
    /\ value' = [value EXCEPT ![waitsOn[t]] = @ - 1]
    /\ waitsOn' = [waitsOn EXCEPT ![t] = NoSem]

\* What the kernel's invariant says of the values and of who waits.
WaitTypes ==
    /\ value \in [DS!Semaphores -> Nat]
    /\ waitsOn \in [Threads -> DS!Semaphores \cup {NoSem}]

\* A thread other than the one that moves keeps its place and its wait.
LEMMA OthersStay ==
    ASSUME SemInv, WaitTypes, NEW i \in Person, NEW to, SemMove(i, to)
    PROVE  /\ DOMAIN pc = Threads /\ i \in Threads
           /\ \A t \in Threads : pc'[t] = IF t = i THEN to ELSE pc[t]
           /\ \A t \in Threads \ {i} : waitsOn'[t] = waitsOn[t]
           /\ waitsOn'[i] # NoSem => waitsOn'[i] = WaitsAt(i, to) /\ ClaimMove(i, to)
<1>1. DOMAIN pc = Threads /\ i \in Threads /\ waitsOn \in [Threads -> DS!Semaphores \cup {NoSem}]
  BY MainIsNobody DEF SemInv, SemTypes, WaitTypes
<1>2. pc' = [pc EXCEPT ![i] = to] /\ waitsOn[i] = NoSem
  BY DEF SemMove
<1>3. waitsOn' = waitsOn \/ (ClaimMove(i, to) /\ waitsOn' = [waitsOn EXCEPT ![i] = WaitsAt(i, to)])
  <2>1. CASE ClaimMove(i, to)
    BY <2>1 DEF ClaimMove, Claims
  <2>2. CASE ~ClaimMove(i, to)
    BY <2>2 DEF SemMove, QuietMove, EnteredMove, ReadyMove, GiveMove, TryMove, EatMove,
                StopMove, LeaveMove, Gives
  <2>3. QED
    BY <2>1, <2>2
<1>4. QED
  BY <1>1, <1>2, <1>3

\* A move leads to a place, and where the thread may wait it waits for the
\* semaphore of that place.
LEMMA SemTypesMove ==
    ASSUME SemInv, WaitTypes, NEW i \in Person, NEW to, SemMove(i, to)
    PROVE  SemTypes'
<1>1. /\ pc \in [Threads -> SemPlace]
      /\ PhilState \in [Person -> {"THINKING", "ISHUNGRY", "ISEATING"}]
      /\ done \in [Person -> BOOLEAN]
      /\ MealLeft \in 0..M
      /\ NumGrantLeave \in 0..NumPeople
  BY DEF SemInv, SemTypes
<1>2. to \in SemPlace
  BY DEF SemMove, ClaimMove, QuietMove, EnteredMove, ReadyMove, GiveMove, TryMove, EatMove,
         StopMove, LeaveMove, Claiming, Quietly, SemPlace, Waiting, Served, MayBeServed, Leaving
<1>3. pc' \in [Threads -> SemPlace]
  BY <1>1, <1>2 DEF SemMove
<1>4. PhilState' \in [Person -> {"THINKING", "ISHUNGRY", "ISEATING"}]
  <2>1. PhilState' = PhilState \/ \E x \in {"THINKING", "ISHUNGRY", "ISEATING"} :
                                      PhilState' = [PhilState EXCEPT ![i] = x]
    BY DEF SemMove, ClaimMove, QuietMove, EnteredMove, ReadyMove, GiveMove, TryMove, EatMove,
           StopMove, LeaveMove, DS!dvars
  <2>2. QED
    BY <1>1, <2>1
<1>5. done' \in [Person -> BOOLEAN]
  <2>1. done' = done \/ done' = [done EXCEPT ![i] = TRUE]
    BY DEF SemMove, ClaimMove, QuietMove, EnteredMove, ReadyMove, GiveMove, TryMove, EatMove,
           StopMove, LeaveMove, DS!dvars
  <2>2. QED
    BY <1>1, <2>1
<1>6. MealLeft' \in 0..M
  <2>1. MealLeft' = MealLeft \/ (MealLeft # 0 /\ MealLeft' = MealLeft - 1)
    BY DEF SemMove, ClaimMove, QuietMove, EnteredMove, ReadyMove, GiveMove, TryMove, EatMove,
           StopMove, LeaveMove, DS!dvars
  <2>2. QED
    BY <1>1, <2>1, ExerciseAssumption
<1>7. NumGrantLeave' \in 0..NumPeople
  <2>1. \/ NumGrantLeave' = NumGrantLeave
        \/ NumGrantLeave < NumPeople - 1 /\ NumGrantLeave' = NumGrantLeave + 1
    BY DEF SemMove, ClaimMove, QuietMove, EnteredMove, ReadyMove, GiveMove, TryMove, EatMove,
           StopMove, LeaveMove, DS!dvars
  <2>2. QED
    BY <1>1, <2>1, ExerciseAssumption
<1>8. ASSUME NEW t \in Threads, waitsOn'[t] # NoSem
      PROVE  t \in Person /\ pc'[t] \in Waiting /\ waitsOn'[t] = WaitsAt(t, pc'[t])
  <2>1. CASE t = i
    <3>1. waitsOn'[i] = WaitsAt(i, to) /\ ClaimMove(i, to) /\ pc'[i] = to
      BY <1>8, <2>1, OthersStay
    <3>2. to \in Waiting
      BY <3>1 DEF ClaimMove, Claiming, Waiting
    <3>3. QED
      BY <2>1, <3>1, <3>2
  <2>2. CASE t # i
    BY <1>8, <2>2, OthersStay DEF SemInv, SemTypes
  <2>3. QED
    BY <2>1, <2>2
<1>9. QED
  BY <1>3, <1>4, <1>5, <1>6, <1>7, <1>8 DEF SemTypes

\* The value of a semaphore changes only by its P and its V.
LEMMA SemValues ==
    ASSUME SemInv, WaitTypes, NEW i \in Person, NEW to, SemMove(i, to)
    PROVE  /\ value'[DS!SitSemaphore] > value[DS!SitSemaphore] =>
                 pc[i] \in {"entered", "grantSit"} /\ to = "grantSit"
           /\ value'[DS!LeaveSemaphore] > value[DS!LeaveSemaphore] =>
                 pc[i] \in {"ready", "grantLeave"} /\ to = "grantLeave"
           /\ to = "dinner" /\ pc[i] = "sit" /\ waitsOn'[i] = NoSem => value[DS!SitSemaphore] > 0
           /\ to = "granted" /\ waitsOn'[i] = NoSem => value[DS!LeaveSemaphore] > 0
<1>1. /\ value \in [DS!Semaphores -> Nat]
      /\ waitsOn \in [Threads -> DS!Semaphores \cup {NoSem}] /\ i \in Threads
  BY MainIsNobody DEF WaitTypes
<1>2. ASSUME NEW s \in DS!Semaphores, value'[s] > value[s] PROVE Gives(s)
  <2>1. PICK r \in DS!Semaphores : Gives(r) \/ value' = value \/ value' = [value EXCEPT ![r] = @ - 1]
    <3>1. CASE ClaimMove(i, to)
      <4>1. WaitsAt(i, to) \in DS!Semaphores
        BY <3>1, SemNames DEF ClaimMove, Claiming, WaitsAt
      <4>2. QED
        BY <3>1, <4>1 DEF ClaimMove, Claims
    <3>2. CASE ~ClaimMove(i, to)
      BY <3>2, SemNames DEF SemMove, QuietMove, EnteredMove, ReadyMove, GiveMove, TryMove,
             EatMove, StopMove, LeaveMove
    <3>3. QED
      BY <3>1, <3>2
  <2>2. QED
    BY <1>1, <1>2, <2>1 DEF Gives
<1>3. ASSUME NEW s \in DS!Semaphores, NEW r \in DS!Semaphores, Gives(s), Gives(r) PROVE s = r
  BY <1>1, <1>3 DEF Gives
<1>4. Gives(DS!SitSemaphore) => pc[i] \in {"entered", "grantSit"} /\ to = "grantSit"
  <2> SUFFICES ASSUME Gives(DS!SitSemaphore)
               PROVE  pc[i] \in {"entered", "grantSit"} /\ to = "grantSit"
    OBVIOUS
  <2>1. \A r \in DS!Semaphores : Gives(r) => r = DS!SitSemaphore
    BY <1>3, SemNames
  <2>2. value' # value /\ ~ClaimMove(i, to)
    <3>1. value'[DS!SitSemaphore] = value[DS!SitSemaphore] + 1 /\ value[DS!SitSemaphore] \in Nat
      BY <1>1, SemNames DEF Gives
    <3>2. CASE ClaimMove(i, to)
      <4>1. WaitsAt(i, to) \in DS!Semaphores
        BY <3>2, SemNames DEF ClaimMove, Claiming, WaitsAt
      <4>2. value'[DS!SitSemaphore] <= value[DS!SitSemaphore]
        BY <1>1, <3>2, <4>1, SemNames DEF ClaimMove, Claims
      <4>3. QED
        BY <1>1, <3>1, <4>2
    <3>3. QED
      BY <3>1, <3>2
  <2>3. QED
    BY <2>1, <2>2, SemNames DEF SemMove, QuietMove, EnteredMove, ReadyMove, GiveMove, TryMove,
             EatMove, StopMove, LeaveMove
<1>5. Gives(DS!LeaveSemaphore) => pc[i] \in {"ready", "grantLeave"} /\ to = "grantLeave"
  <2> SUFFICES ASSUME Gives(DS!LeaveSemaphore)
               PROVE  pc[i] \in {"ready", "grantLeave"} /\ to = "grantLeave"
    OBVIOUS
  <2>1. \A r \in DS!Semaphores : Gives(r) => r = DS!LeaveSemaphore
    BY <1>3, SemNames
  <2>2. value' # value /\ ~ClaimMove(i, to)
    <3>1. value'[DS!LeaveSemaphore] = value[DS!LeaveSemaphore] + 1 /\ value[DS!LeaveSemaphore] \in Nat
      BY <1>1, SemNames DEF Gives
    <3>2. CASE ClaimMove(i, to)
      <4>1. WaitsAt(i, to) \in DS!Semaphores
        BY <3>2, SemNames DEF ClaimMove, Claiming, WaitsAt
      <4>2. value'[DS!LeaveSemaphore] <= value[DS!LeaveSemaphore]
        BY <1>1, <3>2, <4>1, SemNames DEF ClaimMove, Claims
      <4>3. QED
        BY <1>1, <3>1, <4>2
    <3>3. QED
      BY <3>1, <3>2
  <2>3. QED
    BY <2>1, <2>2, SemNames DEF SemMove, QuietMove, EnteredMove, ReadyMove, GiveMove, TryMove,
             EatMove, StopMove, LeaveMove
<1>6. ASSUME (to = "dinner" /\ pc[i] = "sit") \/ to = "granted", waitsOn'[i] = NoSem
      PROVE  value[WaitsAt(i, to)] > 0
  <2>1. ClaimMove(i, to)
    BY <1>6 DEF SemMove, QuietMove, Quietly, EnteredMove, ReadyMove, GiveMove, TryMove,
             EatMove, StopMove, LeaveMove
  <2>2. WaitsAt(i, to) \in DS!Semaphores
    BY <2>1, SemNames DEF ClaimMove, Claiming, WaitsAt
  <2>3. WaitsAt(i, to) # NoSem /\ value[WaitsAt(i, to)] \in Nat
    BY <1>1, <2>2, SemNames
  <2>4. QED
    BY <1>1, <1>6, <2>1, <2>3 DEF ClaimMove, Claims
<1>7. WaitsAt(i, "dinner") = DS!SitSemaphore /\ WaitsAt(i, "granted") = DS!LeaveSemaphore
  BY DEF WaitsAt
<1>8. QED
  BY <1>2, <1>4, <1>5, <1>6, <1>7, SemNames

\* The last one to come in lets them sit, and nobody else does.
LEMMA SittingMove ==
    ASSUME SemInv, WaitTypes, NEW i \in Person, NEW to, SemMove(i, to)
    PROVE  Sitting'
<1> DEFINE Out == {"enter", "entered"}
<1>1. /\ DOMAIN pc = Threads /\ i \in Threads /\ pc' = [pc EXCEPT ![i] = to]
      /\ waitsOn[i] = NoSem
      /\ \A t \in Threads : pc'[t] = IF t = i THEN to ELSE pc[t]
      /\ \A t \in Threads \ {i} : waitsOn'[t] = waitsOn[t]
  BY OthersStay DEF SemMove
<1>2. /\ NumPhilNotIn = Cardinality(AreAt(Out))
      /\ value[DS!SitSemaphore] > 0 => NumPhilNotIn = 0
      /\ \A j \in Person : \/ pc[j] \in {"enter", "entered", "sit"}
                           \/ pc[j] = "dinner" /\ waitsOn[j] # NoSem
                           \/ NumPhilNotIn = 0
  BY DEF SemInv, Sitting
<1>3. IF pc[i] = "entered" THEN /\ NumPhilNotIn' = NumPhilNotIn - 1
                                /\ to \notin Out /\ (to # "sit" => NumPhilNotIn' = 0)
                           ELSE NumPhilNotIn' = NumPhilNotIn /\ (to \in Out <=> pc[i] \in Out)
  BY DEF SemMove, ClaimMove, QuietMove, EnteredMove, ReadyMove, GiveMove, TryMove,
         EatMove, StopMove, LeaveMove, Claiming, Quietly, DS!dvars
<1>4. NumPhilNotIn' = Cardinality(AreAt(Out)')
  <2>1. CASE pc[i] = "entered"
    <3>1. to \notin Out /\ pc[i] \in Out /\ NumPhilNotIn' = NumPhilNotIn - 1
      BY <1>3, <2>1
    <3> HIDE DEF Out
    <3>2. Cardinality(AreAt(Out)') = Cardinality(AreAt(Out)) - 1
      BY <1>1, <3>1, Goes
    <3>3. QED
      BY <1>2, <3>1, <3>2
  <2>2. CASE pc[i] # "entered"
    <3>1. (to \in Out <=> pc[i] \in Out) /\ NumPhilNotIn' = NumPhilNotIn
      BY <1>3, <2>2
    <3> HIDE DEF Out
    <3>2. AreAt(Out)' = AreAt(Out)
      BY <1>1, <3>1, Goes
    <3>3. QED
      BY <1>2, <3>1, <3>2
  <2>3. QED
    BY <2>1, <2>2
<1>5. NumPhilNotIn = 0 => pc[i] \notin Out
  <2> SUFFICES ASSUME Cardinality(AreAt(Out)) = 0 PROVE pc[i] \notin Out
    BY <1>2
  <2>1. AreAt(Out) = {}
    BY CountedAll DEF AreAt
  <2>2. QED
    BY <2>1 DEF AreAt
<1>6. NumPhilNotIn = 0 => NumPhilNotIn' = 0
  BY <1>3, <1>5
<1>7. value'[DS!SitSemaphore] > 0 => NumPhilNotIn' = 0
  <2>1. CASE value'[DS!SitSemaphore] > value[DS!SitSemaphore]
    <3>1. pc[i] \in {"entered", "grantSit"} /\ to = "grantSit"
      BY <2>1, SemValues
    <3>2. QED
      BY <1>2, <1>3, <1>6, <3>1
  <2>2. CASE ~(value'[DS!SitSemaphore] > value[DS!SitSemaphore])
    <3>1. value[DS!SitSemaphore] \in Nat /\ value'[DS!SitSemaphore] \in Int
      <4>1. value \in [DS!Semaphores -> Nat] /\ DS!SitSemaphore \in DS!Semaphores
        BY SemNames DEF WaitTypes
      <4>2. PICK r \in DS!Semaphores :
               \/ value' = value \/ value' = [value EXCEPT ![r] = @ - 1]
               \/ value' = [value EXCEPT ![r] = @ + 1]
        <5>1. CASE ClaimMove(i, to)
          <6>1. WaitsAt(i, to) \in DS!Semaphores
            BY <5>1, SemNames DEF ClaimMove, Claiming, WaitsAt
          <6>2. QED
            BY <5>1, <6>1 DEF ClaimMove, Claims
        <5>2. CASE ~ClaimMove(i, to)
          BY <5>2, SemNames DEF SemMove, QuietMove, EnteredMove, ReadyMove, GiveMove,
                 TryMove, EatMove, StopMove, LeaveMove, Gives
        <5>3. QED
          BY <5>1, <5>2
      <4>3. QED
        BY <4>1, <4>2
    <3>2. QED
      BY <1>2, <1>6, <2>2, <3>1
  <2>3. QED
    BY <2>1, <2>2
<1>8. ASSUME NEW j \in Person
      PROVE  \/ pc'[j] \in {"enter", "entered", "sit"}
             \/ pc'[j] = "dinner" /\ waitsOn'[j] # NoSem
             \/ NumPhilNotIn' = 0
  <2>1. CASE j # i
    BY <1>1, <1>2, <1>6, <2>1, MainIsNobody
  <2>2. CASE j = i /\ pc[i] = "sit"
    <3>1. to = "dinner"
      BY <2>2 DEF SemMove, ClaimMove, QuietMove, EnteredMove, ReadyMove, GiveMove, TryMove,
             EatMove, StopMove, LeaveMove, Claiming, Quietly
    <3>2. waitsOn'[i] = NoSem => NumPhilNotIn = 0
      BY <1>2, <2>2, <3>1, SemValues
    <3>3. QED
      BY <1>1, <1>6, <2>2, <3>1, <3>2
  <2>3. CASE j = i /\ pc[i] \in Out
    <3>1. to = "entered" \/ to = "sit" \/ NumPhilNotIn' = 0
      BY <2>3 DEF SemMove, ClaimMove, QuietMove, EnteredMove, ReadyMove, GiveMove, TryMove,
             EatMove, StopMove, LeaveMove, Claiming, Quietly
    <3>2. QED
      BY <1>1, <2>3, <3>1
  <2>4. CASE j = i /\ pc[i] \notin {"enter", "entered", "sit"}
    BY <1>1, <1>2, <1>6, <2>4
  <2>5. QED
    BY <2>1, <2>2, <2>3, <2>4
<1>9. QED
  BY <1>4, <1>7, <1>8 DEF Sitting

\* The last one to be ready lets them leave, and nobody else does.
LEMMA DepartingMove ==
    ASSUME SemInv, WaitTypes, WaitTypes', NEW i \in Person, NEW to, SemMove(i, to)
    PROVE  Departing'
<1> USE DEF Leaving
<1>1. /\ DOMAIN pc = Threads /\ i \in Threads /\ pc' = [pc EXCEPT ![i] = to]
      /\ waitsOn[i] = NoSem
      /\ \A t \in Threads : pc'[t] = IF t = i THEN to ELSE pc[t]
      /\ \A t \in Threads \ {i} : waitsOn'[t] = waitsOn[t]
  BY OthersStay DEF SemMove
<1>2. /\ NumRdyLeave = Cardinality(AreAt(Leaving))
      /\ value[DS!LeaveSemaphore] > 0 => NumRdyLeave = NumPeople
      /\ \A j \in Person : \/ pc[j] \notin Leaving \/ pc[j] = "waitLeave"
                           \/ pc[j] = "granted" /\ waitsOn[j] # NoSem
                           \/ NumRdyLeave = NumPeople
  BY DEF SemInv, Departing
<1>3. IF pc[i] = "ready" THEN /\ NumRdyLeave' = NumRdyLeave + 1
                              /\ to \in Leaving /\ (to # "waitLeave" => NumRdyLeave' = NumPeople)
                         ELSE NumRdyLeave' = NumRdyLeave /\ (to \in Leaving <=> pc[i] \in Leaving)
  BY DEF SemMove, ClaimMove, QuietMove, EnteredMove, ReadyMove, GiveMove, TryMove,
         EatMove, StopMove, LeaveMove, Claiming, Quietly, DS!dvars
<1>4. NumRdyLeave' = Cardinality(AreAt(Leaving)')
  <2>1. CASE pc[i] = "ready"
    <3>1. to \in Leaving /\ pc[i] \notin Leaving /\ NumRdyLeave' = NumRdyLeave + 1
      BY <1>3, <2>1
    <3> HIDE DEF Leaving
    <3>2. Cardinality(AreAt(Leaving)') = Cardinality(AreAt(Leaving)) + 1
      BY <1>1, <3>1, Goes
    <3>3. QED
      BY <1>2, <3>1, <3>2
  <2>2. CASE pc[i] # "ready"
    <3>1. (to \in Leaving <=> pc[i] \in Leaving) /\ NumRdyLeave' = NumRdyLeave
      BY <1>3, <2>2
    <3> HIDE DEF Leaving
    <3>2. AreAt(Leaving)' = AreAt(Leaving)
      BY <1>1, <3>1, Goes
    <3>3. QED
      BY <1>2, <3>1, <3>2
  <2>3. QED
    BY <2>1, <2>2
<1>5. NumRdyLeave = NumPeople => pc[i] \in Leaving
  <2> SUFFICES ASSUME Cardinality(AreAt(Leaving)) = NumPeople PROVE pc[i] \in Leaving
    BY <1>2
  <2> HIDE DEF Leaving
  <2>1. AreAt(Leaving) = Person
    BY CountedAll, ExerciseAssumption DEF AreAt
  <2>2. QED
    BY <2>1 DEF AreAt
<1>6. NumRdyLeave = NumPeople => NumRdyLeave' = NumPeople
  BY <1>3, <1>5
<1>7. value'[DS!LeaveSemaphore] > 0 => NumRdyLeave' = NumPeople
  <2>1. CASE value'[DS!LeaveSemaphore] > value[DS!LeaveSemaphore]
    <3>1. pc[i] \in {"ready", "grantLeave"} /\ to = "grantLeave"
      BY <2>1, SemValues
    <3>2. QED
      BY <1>1, <1>2, <1>3, <1>6, <3>1
  <2>2. CASE ~(value'[DS!LeaveSemaphore] > value[DS!LeaveSemaphore])
    <3>1. value[DS!LeaveSemaphore] \in Nat /\ value'[DS!LeaveSemaphore] \in Nat
      BY SemNames DEF WaitTypes
    <3>2. QED
      BY <1>2, <1>6, <2>2, <3>1
  <2>3. QED
    BY <2>1, <2>2
<1>8. ASSUME NEW j \in Person
      PROVE  \/ pc'[j] \notin Leaving \/ pc'[j] = "waitLeave"
             \/ pc'[j] = "granted" /\ waitsOn'[j] # NoSem
             \/ NumRdyLeave' = NumPeople
  <2>1. CASE j # i
    BY <1>1, <1>2, <1>6, <2>1, MainIsNobody
  <2>2. CASE j = i /\ pc[i] = "waitLeave"
    <3>1. to = "granted"
      BY <2>2 DEF SemMove, ClaimMove, QuietMove, EnteredMove, ReadyMove, GiveMove, TryMove,
             EatMove, StopMove, LeaveMove, Claiming, Quietly
    <3>2. waitsOn'[i] = NoSem => NumRdyLeave = NumPeople
      BY <1>2, <3>1, SemValues
    <3>3. QED
      BY <1>1, <1>6, <2>2, <3>1, <3>2
  <2>3. CASE j = i /\ pc[i] = "ready"
    BY <1>1, <1>3, <2>3
  <2>4. CASE j = i /\ pc[i] \notin Leaving \cup {"ready"}
    BY <1>1, <1>3, <2>4
  <2>5. CASE j = i /\ pc[i] \in Leaving \ {"waitLeave"}
    BY <1>1, <1>2, <1>6, <2>5
  <2>6. QED
    BY <2>1, <2>2, <2>3, <2>4, <2>5
<1>9. QED
  BY <1>4, <1>7, <1>8 DEF Departing

\* A philosopher is done when he finds no meal left, and only then leaves.
LEMMA FindingMove ==
    ASSUME SemInv, WaitTypes, NEW i \in Person, NEW to, SemMove(i, to)
    PROVE  Finding'
<1>1. /\ i \in Threads /\ \A t \in Person : pc'[t] = IF t = i THEN to ELSE pc[t]
  BY OthersStay, MainIsNobody
<1>2. /\ done \in [Person -> BOOLEAN]
      /\ \A j \in Person : done[j] => MealLeft = 0
      /\ \A j \in Person : pc[j] \in Leaving \cup {"ready"} => done[j]
      /\ \A j \in Person : pc[j] \in {"hungry", "gotSticks", "meal"} \cup MayBeServed => ~done[j]
  BY DEF SemInv, SemTypes, Finding
<1>3. CASE EatMove(i, to)
  <2>1. \A j \in Person : pc'[j] \in Leaving \cup {"ready"} => pc[j] \in Leaving \cup {"ready"}
    BY <1>1, <1>3 DEF EatMove, Leaving
  <2>2. \A j \in Person : pc'[j] \in {"hungry", "gotSticks", "meal"} \cup MayBeServed =>
            j # i /\ pc[j] \in {"hungry", "gotSticks", "meal"} \cup MayBeServed
    BY <1>1, <1>3 DEF EatMove, MayBeServed
  <2>3. CASE MealLeft # 0 /\ done' = done
    BY <1>2, <2>1, <2>2, <2>3 DEF Finding
  <2>4. CASE MealLeft = 0 /\ MealLeft' = 0 /\ done' = [done EXCEPT ![i] = TRUE]
    <3>1. \A j \in Person : done'[j] = IF j = i THEN TRUE ELSE done[j]
      BY <1>2, <2>4
    <3>2. QED
      BY <1>2, <2>1, <2>2, <2>4, <3>1 DEF Finding
  <2>5. QED
    BY <1>3, <2>3, <2>4 DEF EatMove
<1>4. CASE ~EatMove(i, to)
  <2>1. done' = done /\ MealLeft' = MealLeft
    BY <1>4 DEF SemMove, ClaimMove, QuietMove, EnteredMove, ReadyMove, GiveMove, TryMove,
         StopMove, LeaveMove, DS!dvars
  <2>2. to \in Leaving \cup {"ready"} => done[i]
    BY <1>2, <1>4 DEF SemMove, ClaimMove, QuietMove, EnteredMove, ReadyMove, GiveMove, TryMove,
         StopMove, LeaveMove, Claiming, Quietly, Leaving
  <2>3. to \in {"hungry", "gotSticks", "meal"} \cup MayBeServed => ~done[i]
    BY <1>2, <1>4 DEF SemMove, ClaimMove, QuietMove, EnteredMove, ReadyMove, GiveMove, TryMove,
         StopMove, LeaveMove, Claiming, Quietly, MayBeServed
  <2>4. QED
    BY <1>1, <1>2, <2>1, <2>2, <2>3 DEF Finding
<1>5. QED
  BY <1>3, <1>4

\* With two philosophers the left neighbour is the right one, so that the
\* condition of GetSticks speaks of all neighbours; a neighbour has i for
\* a neighbour.
LEMMA NeighboursLook ==
    ASSUME NEW i \in Person
    PROVE  /\ DS!SticksFree(i) => \A j \in Neighbours(i) : PhilState[j] # "ISEATING"
           /\ \A j \in Neighbours(i) : j \in Person /\ j # i /\ i \in Neighbours(j)
<1>1. NumPeople \in Nat /\ NumPeople > 1 /\ i \in Nat /\ i < NumPeople
  BY ExerciseAssumption DEF Person
<1>2. \A k \in Person :
          /\ (k + 1) % NumPeople = IF k = NumPeople - 1 THEN 0 ELSE k + 1
          /\ (k - 1 + NumPeople) % NumPeople = IF k = 0 THEN NumPeople - 1 ELSE k - 1
  <2> SUFFICES ASSUME NEW k \in Person
               PROVE  /\ (k + 1) % NumPeople = IF k = NumPeople - 1 THEN 0 ELSE k + 1
                      /\ (k - 1 + NumPeople) % NumPeople = IF k = 0 THEN NumPeople - 1 ELSE k - 1
    OBVIOUS
  <2>1. (k + 1) % NumPeople = IF k = NumPeople - 1 THEN 0 ELSE k + 1
    BY Sticks DEF DB!RightStick
  <2>2. k \in Nat /\ k < NumPeople
    BY <1>1 DEF Person
  <2>3. CASE k = 0
    BY <1>1, <2>1, <2>3
  <2>4. CASE k # 0
    <3>1. k - 1 + NumPeople = NumPeople + (k - 1) /\ k - 1 \in Nat /\ k - 1 < NumPeople
      BY <1>1, <2>2, <2>4
    <3>2. (NumPeople + (k - 1)) % NumPeople = k - 1
      BY <1>1, <3>1
    <3>3. QED
      BY <2>1, <2>4, <3>1, <3>2
  <2>5. QED
    BY <2>3, <2>4
<1>3. ASSUME DS!SticksFree(i), NEW j \in Neighbours(i) PROVE PhilState[j] # "ISEATING"
  <2>1. PhilState[(i + 1) % NumPeople] # "ISEATING"
    BY <1>3 DEF DS!SticksFree, DS!Right
  <2>2. NumPeople = 2 => (i + 1) % NumPeople = (i - 1 + NumPeople) % NumPeople
    BY <1>1, <1>2
  <2>3. PhilState[(i - 1 + NumPeople) % NumPeople] # "ISEATING"
    BY <1>1, <1>3, <2>1, <2>2 DEF DS!SticksFree, DS!Left
  <2>4. QED
    BY <1>3, <2>1, <2>3 DEF Neighbours
<1>4. ASSUME NEW j \in Neighbours(i) PROVE j \in Person /\ j # i /\ i \in Neighbours(j)
  <2>1. j \in Person /\ j # i
    BY NeighboursShare
  <2>2. \/ j = (IF i = NumPeople - 1 THEN 0 ELSE i + 1)
        \/ j = (IF i = 0 THEN NumPeople - 1 ELSE i - 1)
    BY <1>2, <1>4 DEF Neighbours
  <2>3. \/ i = (IF j = NumPeople - 1 THEN 0 ELSE j + 1)
        \/ i = (IF j = 0 THEN NumPeople - 1 ELSE j - 1)
    BY <1>1, <2>2
  <2>4. QED
    BY <1>2, <2>1, <2>3 DEF Neighbours
<1>5. QED
  BY <1>3, <1>4

\* Who takes both chopsticks has no neighbour who has them.
LEMMA SharingMove ==
    ASSUME SemInv, WaitTypes, NEW i \in Person, NEW to, SemMove(i, to)
    PROVE  Sharing'
<1>1. /\ i \in Threads /\ \A t \in Person : pc'[t] = IF t = i THEN to ELSE pc[t]
  BY OthersStay, MainIsNobody
<1>2. /\ PhilState \in [Person -> {"THINKING", "ISHUNGRY", "ISEATING"}]
      /\ \A j \in Person : PhilState[j] = "ISEATING" => pc[j] \in Served \cup MayBeServed
      /\ \A j \in Person : pc[j] \in Served => PhilState[j] = "ISEATING"
      /\ \A j \in Person : pc[j] \in MayBeServed => PhilState[j] # "THINKING"
      /\ \A j \in Person : PhilState[j] = "ISEATING" =>
             \A k \in Neighbours(j) : PhilState[k] # "ISEATING"
  BY DEF SemInv, SemTypes, Sharing
<1>3. PICK x \in {"THINKING", "ISHUNGRY", "ISEATING"} :
          \A j \in Person : PhilState'[j] = IF j = i THEN x ELSE PhilState[j]
  <2>1. PhilState' = PhilState \/ \E x \in {"THINKING", "ISHUNGRY", "ISEATING"} :
                                      PhilState' = [PhilState EXCEPT ![i] = x]
    BY DEF SemMove, ClaimMove, QuietMove, EnteredMove, ReadyMove, GiveMove, TryMove, EatMove,
           StopMove, LeaveMove, DS!dvars
  <2>2. QED
    BY <1>2, <2>1
<1>4. /\ x = "ISEATING" => to \in Served \cup MayBeServed
      /\ to \in Served => x = "ISEATING"
      /\ to \in MayBeServed => x # "THINKING"
      /\ x = "ISEATING" /\ PhilState[i] # "ISEATING" => DS!SticksFree(i)
  <2>1. PhilState'[i] = x /\ PhilState[i] \in {"THINKING", "ISHUNGRY", "ISEATING"}
    BY <1>2, <1>3
  <2>2. CASE TryMove(i, to) \/ StopMove(i, to)
    <3>1. \/ /\ to = "gotSticks" /\ DS!SticksFree(i)
             /\ PhilState' = [PhilState EXCEPT ![i] = "ISEATING"]
          \/ to = "await" /\ PhilState' = [PhilState EXCEPT ![i] = "ISHUNGRY"]
          \/ to = "think" /\ PhilState' = [PhilState EXCEPT ![i] = "THINKING"]
      BY <2>2 DEF TryMove, StopMove
    <3>2. QED
      BY <1>2, <2>1, <3>1 DEF Served, MayBeServed
  <2>3. CASE ~(TryMove(i, to) \/ StopMove(i, to))
    <3>1. x = PhilState[i]
      BY <2>1, <2>3 DEF SemMove, ClaimMove, QuietMove, EnteredMove, ReadyMove, GiveMove, EatMove,
           LeaveMove, DS!dvars
    <3>2. /\ pc[i] \in Served \cup MayBeServed => to \in Served \cup MayBeServed
          /\ to \in Served => pc[i] \in Served \/ (pc[i] \in MayBeServed /\ x # "ISHUNGRY")
          /\ to \in MayBeServed => pc[i] \in Served \cup MayBeServed
      BY <2>3, <3>1 DEF SemMove, ClaimMove, QuietMove, EnteredMove, ReadyMove, GiveMove, EatMove,
           LeaveMove, Claiming, Quietly, Served, MayBeServed
    <3>3. QED
      BY <1>2, <2>1, <3>1, <3>2
  <2>4. QED
    BY <2>2, <2>3
<1>5. ASSUME NEW j \in Person, PhilState'[j] = "ISEATING", NEW k \in Neighbours(j)
      PROVE  PhilState'[k] # "ISEATING"
  <2>1. k \in Person /\ k # j /\ j \in Neighbours(k)
    BY NeighboursLook
  <2>2. CASE j = i
    BY <1>2, <1>3, <1>4, <1>5, <2>1, <2>2, NeighboursLook
  <2>3. CASE k = i
    BY <1>2, <1>3, <1>4, <1>5, <2>1, <2>3, NeighboursLook
  <2>4. CASE j # i /\ k # i
    BY <1>2, <1>3, <1>5, <2>1, <2>4
  <2>5. QED
    BY <2>2, <2>3, <2>4
<1>6. QED
  BY <1>1, <1>2, <1>3, <1>4, <1>5 DEF Sharing

\* The mutex s admits one philosopher at a time to the places `at'.
Guards(s, at) == value[s] + Cardinality(Within(at)) <= 1

\* A set of people changes by one person.
LEMMA WithinChanges ==
    ASSUME NEW A \in SUBSET Person, NEW B \in SUBSET Person, NEW i \in Person,
           \A j \in Person \ {i} : j \in A <=> j \in B
    PROVE  /\ Cardinality(A) \in Nat /\ Cardinality(B) \in Nat
           /\ i \in B /\ i \notin A => Cardinality(B) = Cardinality(A) + 1
           /\ i \notin B /\ i \in A => Cardinality(B) = Cardinality(A) - 1
           /\ (i \in A <=> i \in B) => Cardinality(B) = Cardinality(A)
<1>1. /\ Cardinality(A) \in Nat /\ Cardinality(B) \in Nat
      /\ i \notin A => Cardinality(A \cup {i}) = Cardinality(A) + 1
      /\ i \in A => Cardinality(A \ {i}) = Cardinality(A) - 1
  BY Counted
<1>2. /\ i \in B /\ i \notin A => B = A \cup {i}
      /\ i \notin B /\ i \in A => B = A \ {i}
      /\ (i \in A <=> i \in B) => B = A
  OBVIOUS
<1>3. QED
  BY <1>1, <1>2

\* P and V of the mutex s at the border of the places `at' keep its promise.
LEMMA GuardsMove ==
    ASSUME SemInv, WaitTypes, WaitTypes', NEW i \in Person, NEW to, SemMove(i, to),
           NEW s \in DS!Semaphores, NEW at, Guards(s, at),
           \/ pc[i] \notin at /\ Claims(i, s) /\ to \in at
           \/ pc[i] \in at /\ to \notin at /\ (Gives(s) \/ value'[s] <= value[s])
           \/ (to \in at <=> pc[i] \in at) /\ waitsOn'[i] = NoSem /\ value'[s] <= value[s]
           \/ to \notin at /\ pc[i] \notin at /\ value'[s] <= value[s]
    PROVE  Guards(s, at)'
<1> DEFINE A == {j \in Person : pc[j] \in at /\ waitsOn[j] = NoSem}
           B == {j \in Person : pc'[j] \in at /\ waitsOn'[j] = NoSem}
<1>1. /\ i \in Threads /\ waitsOn[i] = NoSem
      /\ \A t \in Person : pc'[t] = IF t = i THEN to ELSE pc[t]
      /\ \A t \in Person \ {i} : waitsOn'[t] = waitsOn[t]
  BY OthersStay, MainIsNobody DEF SemMove
<1>2. /\ A \in SUBSET Person /\ B \in SUBSET Person /\ Within(at) = A /\ Within(at)' = B
      /\ \A j \in Person \ {i} : j \in A <=> j \in B
      /\ i \in A <=> pc[i] \in at
      /\ i \in B <=> to \in at /\ waitsOn'[i] = NoSem
  BY <1>1 DEF Within
<1> HIDE DEF A, B
<1>3. /\ Cardinality(A) \in Nat /\ Cardinality(B) \in Nat
      /\ i \in B /\ i \notin A => Cardinality(B) = Cardinality(A) + 1
      /\ i \notin B /\ i \in A => Cardinality(B) = Cardinality(A) - 1
      /\ (i \in A <=> i \in B) => Cardinality(B) = Cardinality(A)
  BY <1>2, WithinChanges
<1>4. value[s] \in Nat /\ value'[s] \in Nat /\ s # NoSem
  BY SemNames DEF WaitTypes
<1>5. Claims(i, s) => \/ value'[s] = value[s] /\ waitsOn'[i] # NoSem
                      \/ value'[s] = value[s] - 1 /\ waitsOn'[i] = NoSem
  BY <1>1, <1>4 DEF Claims, WaitTypes
<1>6. Gives(s) => value'[s] = value[s] + 1 /\ waitsOn'[i] = NoSem
  BY <1>1 DEF Gives, WaitTypes
<1>7. value[s] + Cardinality(A) <= 1
  BY <1>2 DEF Guards
<1>8. value'[s] + Cardinality(B) <= 1
  <2>1. CASE pc[i] \notin at /\ Claims(i, s) /\ to \in at
    BY <1>2, <1>3, <1>4, <1>5, <1>7, <2>1
  <2>2. CASE pc[i] \in at /\ to \notin at /\ (Gives(s) \/ value'[s] <= value[s])
    BY <1>2, <1>3, <1>4, <1>6, <1>7, <2>2
  <2>3. CASE (to \in at <=> pc[i] \in at) /\ waitsOn'[i] = NoSem /\ value'[s] <= value[s]
    BY <1>2, <1>3, <1>4, <1>7, <2>3
  <2>4. CASE to \notin at /\ pc[i] \notin at /\ value'[s] <= value[s]
    BY <1>2, <1>3, <1>4, <1>7, <2>4
  <2>5. QED
    BY <2>1, <2>2, <2>3, <2>4
<1>9. QED
  BY <1>2, <1>8 DEF Guards

\* P and V of another semaphore do not raise the value of s.
LEMMA OtherSemaphore ==
    ASSUME WaitTypes, NEW s \in DS!Semaphores, NEW r \in DS!Semaphores, NEW i,
           r # s, Claims(i, r) \/ Gives(r)
    PROVE  value'[s] <= value[s]
BY DEF WaitTypes, Claims, Gives

\* Each of the three mutexes goes on admitting one philosopher at a time.
LEMMA ExcludingMove ==
    ASSUME SemInv, WaitTypes, WaitTypes', NEW i \in Person, NEW to, SemMove(i, to)
    PROVE  Excluding'
<1> DEFINE In == {"entered", "grantSit"}
           Out == {"ready", "grantLeave", "leave"}
<1>1. /\ Guards(DS!EnterMutex, In) /\ Guards(DS!MealLeftMutex, {"meal"})
      /\ Guards(DS!LeaveMutex, Out)
  BY DEF SemInv, Excluding, Guards
<1>2. /\ i \in Threads /\ waitsOn[i] = NoSem /\ waitsOn \in [Threads -> DS!Semaphores \cup {NoSem}]
      /\ ClaimMove(i, to) \/ waitsOn'[i] = NoSem
      /\ \A s \in DS!Semaphores : value[s] \in Nat
  BY OthersStay DEF SemMove, WaitTypes
<1>3. CASE ClaimMove(i, to)
  <2>1. Claims(i, WaitsAt(i, to)) /\ <<pc[i], to>> \in Claiming
    BY <1>3 DEF ClaimMove
  <2>2. WaitsAt(i, to) \in DS!Semaphores
    BY <2>1, SemNames DEF Claiming, WaitsAt
  <2>3. \A s \in DS!Semaphores : s # WaitsAt(i, to) => value'[s] <= value[s]
    BY <2>1, <2>2, OtherSemaphore
  <2>4. /\ pc[i] \notin In \cup Out \cup {"meal"}
        /\ WaitsAt(i, to) = DS!EnterMutex <=> to \in In
        /\ WaitsAt(i, to) = DS!MealLeftMutex <=> to \in {"meal"}
        /\ WaitsAt(i, to) = DS!LeaveMutex <=> to \in Out
    BY <2>1, SemNames DEF Claiming, WaitsAt
  <2>5. Guards(DS!EnterMutex, In)'
    BY <1>1, <2>1, <2>3, <2>4, GuardsMove, SemNames
  <2>6. Guards(DS!MealLeftMutex, {"meal"})'
    BY <1>1, <2>1, <2>3, <2>4, GuardsMove, SemNames
  <2>7. Guards(DS!LeaveMutex, Out)'
    BY <1>1, <2>1, <2>3, <2>4, GuardsMove, SemNames
  <2>8. QED
    BY <2>5, <2>6, <2>7 DEF Guards, Excluding
<1>4. CASE ~ClaimMove(i, to)
  <2>1. waitsOn'[i] = NoSem
    BY <1>2, <1>4
  <2>2. value' = value \/ \E r \in DS!Semaphores : Gives(r)
    BY <1>4, SemNames DEF SemMove, QuietMove, EnteredMove, ReadyMove, GiveMove, TryMove,
             EatMove, StopMove, LeaveMove
  <2>3. ASSUME NEW s \in DS!Semaphores, ~Gives(s) PROVE value'[s] <= value[s]
    <3>1. CASE value' = value
      BY <1>2, <3>1
    <3>2. CASE \E r \in DS!Semaphores : Gives(r)
      BY <2>3, <3>2, OtherSemaphore
    <3>3. QED
      BY <2>2, <3>1, <3>2
  <2>4. ASSUME NEW s \in DS!Semaphores, Gives(s)
        PROVE  value' # value /\ \A r \in DS!Semaphores : Gives(r) => r = s
    BY <1>2, <2>4 DEF Gives, WaitTypes
  <2>5. /\ to \in In => pc[i] \in In
        /\ to # "meal"
        /\ to \in Out => pc[i] \in Out
    BY <1>4 DEF SemMove, QuietMove, EnteredMove, ReadyMove, GiveMove, TryMove,
             EatMove, StopMove, LeaveMove, Quietly
  <2>6. Gives(DS!EnterMutex) => pc[i] \in In /\ to \notin In
    <3> SUFFICES ASSUME Gives(DS!EnterMutex) PROVE pc[i] \in In /\ to \notin In
      OBVIOUS
    <3>1. value' # value /\ \A r \in DS!Semaphores : Gives(r) => r = DS!EnterMutex
      BY <2>4, SemNames
    <3>2. QED
      BY <1>4, <3>1, SemNames DEF SemMove, QuietMove, EnteredMove, ReadyMove, GiveMove, TryMove,
             EatMove, StopMove, LeaveMove
  <2>7. Gives(DS!MealLeftMutex) => pc[i] = "meal"
    <3> SUFFICES ASSUME Gives(DS!MealLeftMutex) PROVE pc[i] = "meal"
      OBVIOUS
    <3>1. value' # value /\ \A r \in DS!Semaphores : Gives(r) => r = DS!MealLeftMutex
      BY <2>4, SemNames
    <3>2. QED
      BY <1>4, <3>1, SemNames DEF SemMove, QuietMove, EnteredMove, ReadyMove, GiveMove, TryMove,
             EatMove, StopMove, LeaveMove
  <2>8. Gives(DS!LeaveMutex) => pc[i] \in Out /\ to \notin Out
    <3> SUFFICES ASSUME Gives(DS!LeaveMutex) PROVE pc[i] \in Out /\ to \notin Out
      OBVIOUS
    <3>1. value' # value /\ \A r \in DS!Semaphores : Gives(r) => r = DS!LeaveMutex
      BY <2>4, SemNames
    <3>2. QED
      BY <1>4, <3>1, SemNames DEF SemMove, QuietMove, EnteredMove, ReadyMove, GiveMove, TryMove,
             EatMove, StopMove, LeaveMove
  <2> HIDE DEF In, Out
  <2>9. Guards(DS!EnterMutex, In)'
    BY <1>1, <2>1, <2>3, <2>5, <2>6, GuardsMove, SemNames
  <2>10. Guards(DS!MealLeftMutex, {"meal"})'
    BY <1>1, <2>1, <2>3, <2>5, <2>7, GuardsMove, SemNames
  <2>11. Guards(DS!LeaveMutex, Out)'
    BY <1>1, <2>1, <2>3, <2>5, <2>8, GuardsMove, SemNames
  <2>12. QED
    BY <2>9, <2>10, <2>11 DEF Guards, Excluding, In, Out
<1>5. QED
  BY <1>3, <1>4

\* Every move keeps the invariant.
LEMMA SemMoveKeeps ==
    ASSUME SemInv, WaitTypes, WaitTypes', NEW i \in Person, NEW to, SemMove(i, to)
    PROVE  SemInv'
<1>1. SemTypes' /\ Sitting'
  BY SemTypesMove, SittingMove
<1>2. Departing' /\ Finding'
  BY DepartingMove, FindingMove
<1>3. Sharing' /\ Excluding'
  BY SharingMove, ExcludingMove
<1>4. QED
  BY <1>1, <1>2, <1>3 DEF SemInv

\* A philosopher who gets what he waited for stays where he is.
LEMMA ServedKeeps ==
    ASSUME SemInv, WaitTypes, WaitTypes', NEW t \in Threads, Served4(t),
           UNCHANGED <<pc, DS!dvars>>
    PROVE  SemInv'
<1>1. /\ t \in Person /\ pc[t] \in Waiting /\ waitsOn[t] = WaitsAt(t, pc[t])
      /\ waitsOn[t] \in DS!Semaphores /\ waitsOn[t] # NoSem
  BY SemNames DEF SemInv, SemTypes, Served4
<1>2. \A j \in Threads : waitsOn'[j] = IF j = t THEN NoSem ELSE waitsOn[j]
  BY DEF WaitTypes, Served4
<1>3. \A s \in DS!Semaphores : /\ value[s] \in Nat /\ value'[s] \in Nat
                               /\ s # waitsOn[t] => value'[s] = value[s]
                               /\ s = waitsOn[t] => value'[s] = value[s] - 1 /\ value[s] > 0
  BY DEF WaitTypes, Served4
<1>4. SemTypes'
  BY <1>2 DEF SemInv, SemTypes, DS!dvars
<1>5. Sitting'
  <2>1. AreAt({"enter", "entered"})' = AreAt({"enter", "entered"})
    BY DEF AreAt
  <2>2. pc[t] = "dinner" => value[DS!SitSemaphore] > 0
    BY <1>1, <1>3, SemNames DEF WaitsAt
  <2>3. value'[DS!SitSemaphore] > 0 => value[DS!SitSemaphore] > 0
    BY <1>3, SemNames
  <2>4. QED
    BY <1>2, <2>1, <2>2, <2>3, MainIsNobody DEF SemInv, Sitting, DS!dvars
<1>6. Departing'
  <2>1. AreAt(Leaving)' = AreAt(Leaving)
    BY DEF AreAt
  <2>2. pc[t] = "granted" => value[DS!LeaveSemaphore] > 0
    BY <1>1, <1>3, SemNames DEF WaitsAt
  <2>3. value'[DS!LeaveSemaphore] > 0 => value[DS!LeaveSemaphore] > 0
    BY <1>3, SemNames
  <2>4. QED
    BY <1>2, <2>1, <2>2, <2>3, MainIsNobody DEF SemInv, Departing, DS!dvars
<1>7. Finding' /\ Sharing'
  BY DEF SemInv, Finding, Sharing, DS!dvars
<1>8. ASSUME NEW s \in DS!Semaphores, NEW at, pc[t] \in at => waitsOn[t] = s, Guards(s, at)
      PROVE  Guards(s, at)'
  <2> DEFINE A == {j \in Person : pc[j] \in at /\ waitsOn[j] = NoSem}
             B == {j \in Person : pc'[j] \in at /\ waitsOn'[j] = NoSem}
  <2>1. /\ A \in SUBSET Person /\ B \in SUBSET Person /\ Within(at) = A /\ Within(at)' = B
        /\ \A j \in Person \ {t} : j \in A <=> j \in B
        /\ t \notin A
        /\ t \in B <=> pc[t] \in at
    BY <1>1, <1>2, MainIsNobody DEF Within
  <2> HIDE DEF A, B
  <2>2. /\ Cardinality(A) \in Nat /\ Cardinality(B) \in Nat
        /\ t \in B /\ t \notin A => Cardinality(B) = Cardinality(A) + 1
        /\ (t \in A <=> t \in B) => Cardinality(B) = Cardinality(A)
    BY <1>1, <2>1, WithinChanges
  <2>3. value[s] + Cardinality(A) <= 1
    BY <1>8, <2>1 DEF Guards
  <2>4. value'[s] + Cardinality(B) <= 1
    BY <1>3, <1>8, <2>1, <2>2, <2>3
  <2>5. QED
    BY <2>1, <2>4 DEF Guards
<1>9. Excluding'
  <2>1. /\ pc[t] \in {"entered", "grantSit"} => waitsOn[t] = DS!EnterMutex
        /\ pc[t] \in {"meal"} => waitsOn[t] = DS!MealLeftMutex
        /\ pc[t] \in {"ready", "grantLeave", "leave"} => waitsOn[t] = DS!LeaveMutex
    BY <1>1 DEF Waiting, WaitsAt
  <2>2. /\ Guards(DS!EnterMutex, {"entered", "grantSit"}) /\ Guards(DS!MealLeftMutex, {"meal"})
        /\ Guards(DS!LeaveMutex, {"ready", "grantLeave", "leave"})
    BY DEF SemInv, Excluding, Guards
  <2>3. Guards(DS!EnterMutex, {"entered", "grantSit"})'
    BY <1>8, <2>1, <2>2, SemNames
  <2>4. Guards(DS!MealLeftMutex, {"meal"})'
    BY <1>8, <2>1, <2>2, SemNames
  <2>5. Guards(DS!LeaveMutex, {"ready", "grantLeave", "leave"})'
    BY <1>8, <2>1, <2>2, SemNames
  <2>6. QED
    BY <2>3, <2>4, <2>5 DEF Guards, Excluding
<1>10. QED
  BY <1>4, <1>5, <1>6, <1>7, <1>9 DEF SemInv

\* The main thread is nobody's place, and waits for nothing.
LEMMA SemMain ==
    ASSUME SemInv, UNCHANGED <<value, waitsOn, DS!dvars>>,
           \/ pc' = [pc EXCEPT ![MainThread] = "finished"] /\ waitsOn[MainThread] = NoSem
           \/ pc' = pc
    PROVE  SemInv'
<1>1. pc' \in [Threads -> SemPlace] /\ \A i \in Person : pc'[i] = pc[i]
  <2>1. pc \in [Threads -> SemPlace] /\ "finished" \in SemPlace
    BY DEF SemInv, SemTypes, SemPlace, Leaving
  <2>2. QED
    BY <2>1, MainIsNobody
<1>2. SemTypes'
  BY <1>1, MainIsNobody DEF SemInv, SemTypes, DS!dvars
<1>3. \A at : AreAt(at)' = AreAt(at) /\ Within(at)' = Within(at)
  BY <1>1 DEF AreAt, Within
<1>4. Sitting' /\ Departing'
  BY <1>1, <1>3 DEF SemInv, Sitting, Departing, DS!dvars
<1>5. Finding' /\ Sharing'
  BY <1>1 DEF SemInv, Finding, Sharing, DS!dvars
<1>6. Excluding'
  BY <1>3 DEF SemInv, Excluding
<1>7. QED
  BY <1>2, <1>4, <1>5, <1>6 DEF SemInv

-----------------------------------------------------------------------------
(***************************************************************************)
(* Task 4: each step of a philosopher as a move between places together    *)
(* with an atomic P or V                                                   *)
(***************************************************************************)
KS == INSTANCE KernelProofs WITH
        Thread <- DS!Threads, Main <- DS!MainThread,
        NoThread <- NumPeople + 1, Sem <- DS!Semaphores, NoSem <- NoSem,
        InitialValue <- DS!InitialValue, Device <- {}, UserThread <- {},
        TimeSlice <- TimeSlice, MaxValue <- 2 * (M + NumPeople) + 2

\* The kernel of task 4 meets the assumptions of module Kernel.
LEMMA SemKernel == KS!KernelAssumption
<1>1. IsFiniteSet(DS!Threads)
  <2>1. IsFiniteSet(DS!Person)
    BY FS_Interval, ExerciseAssumption DEF DS!Person
  <2>2. QED
    BY <2>1, FS_AddElement DEF DS!Threads
<1>2. KS!IsFiniteSet(DS!Threads)
  BY <1>1 DEF KS!IsFiniteSet, IsFiniteSet
<1>3. DS!MainThread \in DS!Threads /\ NumPeople + 1 \notin DS!Threads
  BY ExerciseAssumption DEF DS!Threads, DS!Person, DS!MainThread
<1>4. DS!InitialValue \in [DS!Semaphores -> Nat]
  BY DEF DS!InitialValue
<1>5. NoSem \notin DS!Semaphores
  BY DEF NoSem, DS!Semaphores, DS!mutex, DS!EnterMutex, DS!LeaveMutex, DS!MealLeftMutex,
         DS!SitSemaphore, DS!LeaveSemaphore, DS!PhilGrant
<1>6. 2 * (M + NumPeople) + 2 \in Nat /\ TimeSlice \in BOOLEAN
  BY ExerciseAssumption
<1>7. QED
  BY <1>2, <1>3, <1>4, <1>5, <1>6 DEF KS!KernelAssumption

\* The calls of the kernel of task 4 are those of module Kernel.
LEMMA SemCalls ==
    ASSUME NEW t, NEW s
    PROVE  /\ DS!K!P(t, s) => KS!P(t, s)
           /\ DS!K!V(t, s) => KS!V(t, s)
           /\ DS!K!Yield(t) => KS!Yield(t)
           /\ DS!K!Finish(t) => KS!Finish(t)
           /\ DS!K!Fork(t, s) => KS!Fork(t, s)
           /\ DS!K!KernelStep(t) => KS!KernelStep(t)
           /\ KS!KernelInv => DS!K!TypeOK
           /\ DS!K!Init => KS!Init
<1> USE DEF NoSem
<1>1. DS!K!P(t, s) => KS!P(t, s)
  BY DEF DS!K!P, DS!K!PLoop, DS!K!AtBody, KS!P, KS!PLoop, KS!AtBody
<1>2. DS!K!V(t, s) => KS!V(t, s)
  BY DEF DS!K!V, DS!K!VBody, DS!K!AtBody, KS!V, KS!VBody, KS!AtBody
<1>3. DS!K!Yield(t) => KS!Yield(t)
  BY DEF DS!K!Yield, DS!K!YieldToNext, DS!K!Run, DS!K!AtBody,
         KS!Yield, KS!YieldToNext, KS!Run, KS!AtBody
<1>4. (DS!K!Finish(t) => KS!Finish(t)) /\ (DS!K!Fork(t, s) => KS!Fork(t, s))
  BY DEF DS!K!Finish, DS!K!Fork, DS!K!AtBody, KS!Finish, KS!Fork, KS!AtBody
<1>5. DS!K!KernelStep(t) => KS!KernelStep(t)
  BY DEF DS!K!KernelStep, DS!K!Enable, DS!K!AtTick, DS!K!TimerYield, DS!K!YieldToNext,
         DS!K!Run, DS!K!SleepSwitch, DS!K!Sleeping, DS!K!IdleHalt, DS!K!PResume, DS!K!PLoop,
         KS!KernelStep, KS!Enable, KS!AtTick, KS!TimerYield, KS!YieldToNext,
         KS!Run, KS!SleepSwitch, KS!Sleeping, KS!IdleHalt, KS!PResume, KS!PLoop
<1>6. KS!TypeOK => DS!K!TypeOK
  BY DEF DS!K!TypeOK, KS!TypeOK, DS!K!Status, KS!Status, DS!K!Place, KS!Place
<1>7. DS!K!Init => KS!Init
  BY DEF DS!K!Init, KS!Init
<1>8. QED
  BY <1>1, <1>2, <1>3, <1>4, <1>5, <1>6, <1>7 DEF KS!KernelInv, KS!PlaceInv

\* What the calls of task 4 do to the values and to who waits.
LEMMA SemEffects ==
    ASSUME KS!KernelInv, NEW t \in Threads, NEW s
    PROVE  /\ value \in [DS!Semaphores -> Nat]
           /\ waitsOn \in [Threads -> DS!Semaphores \cup {NoSem}]
           /\ kpc[t] = "P" <=> waitsOn[t] # NoSem
           /\ s \in DS!Semaphores /\ DS!K!P(t, s) => waitsOn[t] = NoSem /\ Claims(t, s)
           /\ s \in DS!Semaphores /\ DS!K!V(t, s) => waitsOn[t] = NoSem /\ Gives(s)
           /\ DS!K!Yield(t) \/ DS!K!Finish(t) \/ (s \in Threads /\ DS!K!Fork(t, s)) =>
                 waitsOn[t] = NoSem /\ UNCHANGED <<value, waitsOn>>
           /\ DS!K!KernelStep(t) =>
                 \/ UNCHANGED <<value, waitsOn>>
                 \/ /\ waitsOn[t] \in DS!Semaphores
                    /\ value[waitsOn[t]] > 0
                    /\ value' = [value EXCEPT ![waitsOn[t]] = @ - 1]
                    /\ waitsOn' = [waitsOn EXCEPT ![t] = NoSem]
<1>1. Threads = DS!Threads
  BY DEF Threads, DS!Threads, Person, DS!Person, MainThread, DS!MainThread
<1>2. /\ value \in [DS!Semaphores -> Nat]
      /\ waitsOn \in [Threads -> DS!Semaphores \cup {NoSem}]
      /\ kpc[t] = "P" <=> waitsOn[t] # NoSem
  BY <1>1, KS!WaitTypes, SemKernel
<1>3. ASSUME s \in DS!Semaphores, DS!K!P(t, s)
      PROVE  waitsOn[t] = NoSem /\ Claims(t, s)
  <2>1. KS!P(t, s)
    BY <1>3, SemCalls
  <2>2. waitsOn[t] = NoSem /\ (KS!Promise!Wait(t, s) \/ KS!Promise!Take(t, s))
    BY <1>1, <1>3, <2>1, KS!PCall, SemKernel
  <2>3. QED
    BY <1>2, <2>2 DEF KS!Promise!Wait, KS!Promise!Take, Claims
<1>4. ASSUME s \in DS!Semaphores, DS!K!V(t, s)
      PROVE  waitsOn[t] = NoSem /\ Gives(s)
  <2>1. KS!V(t, s)
    BY <1>4, SemCalls
  <2>2. waitsOn[t] = NoSem /\ KS!Promise!Give(s)
    BY <1>1, <1>4, <2>1, KS!VCall, SemKernel
  <2>3. QED
    BY <2>2 DEF KS!Promise!Give, Gives
<1>5. ASSUME DS!K!Yield(t) \/ DS!K!Finish(t) \/ (s \in Threads /\ DS!K!Fork(t, s))
      PROVE  waitsOn[t] = NoSem /\ UNCHANGED <<value, waitsOn>>
  <2>1. KS!Yield(t) \/ KS!Finish(t) \/ \E u \in DS!Threads : KS!Fork(t, u)
    BY <1>1, <1>5, SemCalls
  <2>2. QED
    BY <1>1, <2>1, KS!QuietCall, SemKernel
<1>6. ASSUME DS!K!KernelStep(t)
      PROVE  \/ UNCHANGED <<value, waitsOn>>
             \/ /\ waitsOn[t] \in DS!Semaphores
                /\ value[waitsOn[t]] > 0
                /\ value' = [value EXCEPT ![waitsOn[t]] = @ - 1]
                /\ waitsOn' = [waitsOn EXCEPT ![t] = NoSem]
  <2>1. KS!KernelStep(t)
    BY <1>6, SemCalls
  <2>2. \/ UNCHANGED <<value, waitsOn>>
        \/ \E r \in DS!Semaphores : waitsOn[t] = r /\ KS!Promise!Take(t, r)
    BY <1>1, <2>1, KS!QuietStep, SemKernel
  <2>3. QED
    BY <2>2 DEF KS!Promise!Take
<1>7. QED
  BY <1>2, <1>3, <1>4, <1>5, <1>6

\* Every step of a philosopher of task 4 is a move.
LEMMA SemMoves ==
    ASSUME KS!KernelInv, SemInv, NEW i \in Person, DS!Philosopher(i)
    PROVE  \E to : SemMove(i, to)
<1>1. i \in Threads /\ pc \in [Threads -> SemPlace] /\ Threads = DS!Threads
  BY MainIsNobody DEF SemInv, SemTypes, Threads, DS!Threads, Person, DS!Person, MainThread,
     DS!MainThread
<1>2. pc = [pc EXCEPT ![i] = pc[i]]
  BY <1>1
<1>3. ASSUME NEW s \in DS!Semaphores
      PROVE  /\ DS!K!P(i, s) => waitsOn[i] = NoSem /\ Claims(i, s)
             /\ DS!K!V(i, s) => waitsOn[i] = NoSem /\ Gives(s)
  BY <1>1, SemEffects
<1>4. /\ DS!K!Yield(i) => waitsOn[i] = NoSem /\ UNCHANGED <<value, waitsOn>>
      /\ DS!K!Finish(i) => waitsOn[i] = NoSem /\ UNCHANGED <<value, waitsOn>>
  BY <1>1, SemEffects
<1>5. /\ DS!Left(i) \in Person /\ DS!Right(i) \in Person
  BY NeighboursLook DEF DS!Left, DS!Right, Neighbours
<1>6. CASE DS!Enter(i) \/ DS!Sit(i) \/ DS!Dinner(i) \/ DS!Await(i) \/ DS!PutSticks(i)
           \/ DS!WaitLeave(i)
  <2>1. /\ WaitsAt(i, "entered") = DS!EnterMutex /\ WaitsAt(i, "dinner") = DS!SitSemaphore
        /\ WaitsAt(i, "hungry") = DS!mutex /\ WaitsAt(i, "ready") = DS!LeaveMutex
        /\ WaitsAt(i, "recheck") = DS!PhilGrant(i) /\ WaitsAt(i, "wakeLeft") = DS!mutex
        /\ WaitsAt(i, "granted") = DS!LeaveSemaphore /\ WaitsAt(i, "leave") = DS!LeaveMutex
    BY DEF WaitsAt
  <2>2. ASSUME NEW to, to \in Waiting \ {"meal"}, <<pc[i], to>> \in Claiming,
               pc' = [pc EXCEPT ![i] = to], to = "hungry" => ~done[i], to = "ready" => done[i],
               DS!K!P(i, WaitsAt(i, to)), UNCHANGED DS!dvars
        PROVE  \E at : SemMove(i, at)
    <3>1. WaitsAt(i, to) \in DS!Semaphores
      BY <2>1, <2>2, SemNames DEF Claiming
    <3>2. SemMove(i, to)
      BY <1>3, <2>2, <3>1 DEF SemMove, ClaimMove
    <3>3. QED
      BY <3>2
  <2>3. CASE DS!Enter(i)
    <3>1. pc[i] = "enter" /\ pc' = [pc EXCEPT ![i] = "entered"]
      BY <2>3 DEF DS!Enter, DS!Goto
    <3>2. DS!K!P(i, WaitsAt(i, "entered")) /\ UNCHANGED DS!dvars
      BY <2>1, <2>3 DEF DS!Enter
    <3>3. QED
      BY <2>2, <3>1, <3>2 DEF Claiming, Waiting
  <2>4. CASE DS!Sit(i)
    <3>1. pc[i] = "sit" /\ pc' = [pc EXCEPT ![i] = "dinner"]
      BY <2>4 DEF DS!Sit, DS!Goto
    <3>2. DS!K!P(i, WaitsAt(i, "dinner")) /\ UNCHANGED DS!dvars
      BY <2>1, <2>4 DEF DS!Sit
    <3>3. QED
      BY <2>2, <3>1, <3>2 DEF Claiming, Waiting
  <2>5. CASE DS!Dinner(i)
    <3>1. CASE ~done[i]
      <4>1. pc[i] = "dinner" /\ pc' = [pc EXCEPT ![i] = "hungry"]
        BY <2>5, <3>1 DEF DS!Dinner, DS!Goto
      <4>2. DS!K!P(i, WaitsAt(i, "hungry")) /\ UNCHANGED DS!dvars
        BY <2>1, <2>5, <3>1 DEF DS!Dinner
      <4>3. QED
        BY <2>2, <3>1, <4>1, <4>2 DEF Claiming, Waiting
    <3>2. CASE done[i]
      <4>1. pc[i] = "dinner" /\ pc' = [pc EXCEPT ![i] = "ready"]
        BY <2>5, <3>2 DEF DS!Dinner, DS!Goto
      <4>2. DS!K!P(i, WaitsAt(i, "ready")) /\ UNCHANGED DS!dvars
        BY <2>1, <2>5, <3>2 DEF DS!Dinner
      <4>3. QED
        BY <2>2, <3>2, <4>1, <4>2 DEF Claiming, Waiting
    <3>3. QED
      BY <3>1, <3>2
  <2>6. CASE DS!Await(i)
    <3>1. pc[i] = "await" /\ pc' = [pc EXCEPT ![i] = "recheck"]
      BY <2>6 DEF DS!Await, DS!Goto
    <3>2. DS!K!P(i, WaitsAt(i, "recheck")) /\ UNCHANGED DS!dvars
      BY <2>1, <2>6 DEF DS!Await
    <3>3. QED
      BY <2>2, <3>1, <3>2 DEF Claiming, Waiting
  <2>7. CASE DS!PutSticks(i)
    <3>1. pc[i] = "put" /\ pc' = [pc EXCEPT ![i] = "wakeLeft"]
      BY <2>7 DEF DS!PutSticks, DS!Goto
    <3>2. DS!K!P(i, WaitsAt(i, "wakeLeft")) /\ UNCHANGED DS!dvars
      BY <2>1, <2>7 DEF DS!PutSticks
    <3>3. QED
      BY <2>2, <3>1, <3>2 DEF Claiming, Waiting
  <2>8. CASE DS!WaitLeave(i)
    <3>1. CASE DS!Goto(i, "waitLeave", "granted") /\ DS!K!P(i, DS!LeaveSemaphore)
      <4>1. pc[i] = "waitLeave" /\ pc' = [pc EXCEPT ![i] = "granted"]
        BY <3>1 DEF DS!Goto
      <4>2. DS!K!P(i, WaitsAt(i, "granted")) /\ UNCHANGED DS!dvars
        BY <2>1, <2>8, <3>1 DEF DS!WaitLeave
      <4>3. QED
        BY <2>2, <4>1, <4>2 DEF Claiming, Waiting
    <3>2. CASE DS!Goto(i, "granted", "leave") /\ DS!K!P(i, DS!LeaveMutex)
      <4>1. pc[i] = "granted" /\ pc' = [pc EXCEPT ![i] = "leave"]
        BY <3>2 DEF DS!Goto
      <4>2. DS!K!P(i, WaitsAt(i, "leave")) /\ UNCHANGED DS!dvars
        BY <2>1, <2>8, <3>2 DEF DS!WaitLeave
      <4>3. QED
        BY <2>2, <4>1, <4>2 DEF Claiming, Waiting
    <3>3. QED
      BY <2>8, <3>1, <3>2 DEF DS!WaitLeave
  <2>9. QED
    BY <1>6, <2>3, <2>4, <2>5, <2>6, <2>7, <2>8
<1>7. CASE DS!Entered(i)
  BY <1>3, <1>7, SemNames DEF DS!Entered, SemMove, EnteredMove
<1>8. CASE DS!ReadyToLeave(i)
  BY <1>3, <1>8, SemNames DEF DS!ReadyToLeave, SemMove, ReadyMove
<1>9. CASE DS!GrantAll(i, "grantSit", DS!SitSemaphore, DS!EnterMutex, "sit")
  BY <1>2, <1>3, <1>9, SemNames DEF DS!GrantAll, SemMove, GiveMove
<1>10. CASE DS!GrantAll(i, "grantLeave", DS!LeaveSemaphore, DS!LeaveMutex, "waitLeave")
  BY <1>2, <1>3, <1>10, SemNames DEF DS!GrantAll, SemMove, GiveMove
<1>11. CASE DS!GotSticks(i)
  BY <1>3, <1>11, SemNames DEF DS!GotSticks, DS!Goto, SemMove, GiveMove
<1>12. ASSUME DS!TrySticks(i), pc[i] = "hungry" \/ (pc[i] = "recheck" /\ PhilState[i] = "ISHUNGRY"),
              UNCHANGED <<done, MealLeft, NumPhilNotIn, NumRdyLeave, NumGrantLeave>>
       PROVE  \E to : SemMove(i, to)
  BY <1>3, <1>12, SemNames DEF DS!TrySticks, SemMove, TryMove
<1>13. CASE DS!Hungry(i)
  BY <1>12, <1>13 DEF DS!Hungry
<1>14. CASE DS!Recheck(i)
  <2>1. CASE PhilState[i] = "ISHUNGRY"
    BY <1>12, <1>14, <2>1 DEF DS!Recheck
  <2>2. CASE PhilState[i] # "ISHUNGRY"
    <3>1. /\ pc[i] = "recheck" /\ DS!K!P(i, DS!MealLeftMutex) /\ pc' = [pc EXCEPT ![i] = "meal"]
          /\ UNCHANGED DS!dvars
      BY <1>14, <2>2 DEF DS!Recheck, DS!dvars
    <3>2. <<pc[i], "meal">> \in Claiming /\ WaitsAt(i, "meal") = DS!MealLeftMutex
      BY <3>1 DEF Claiming, WaitsAt
    <3>3. ClaimMove(i, "meal") /\ waitsOn[i] = NoSem
      BY <1>3, <2>2, <3>1, <3>2, SemNames DEF ClaimMove
    <3>4. QED
      BY <3>1, <3>3 DEF SemMove
  <2>3. QED
    BY <2>1, <2>2
<1>15. CASE DS!Eat(i)
  BY <1>3, <1>15, SemNames DEF DS!Eat, DS!Goto, SemMove, EatMove
<1>16. ASSUME DS!BusyWaitingLoop(i, "eating", "put") \/ DS!BusyWaitingLoop(i, "think", "dinner")
       PROVE  \E to : SemMove(i, to)
  <2>1. PICK to : /\ <<pc[i], to>> \in Quietly /\ pc' = [pc EXCEPT ![i] = to]
                  /\ UNCHANGED DS!dvars /\ DS!K!Yield(i)
    <3>1. CASE DS!BusyWaitingLoop(i, "eating", "put")
      BY <1>2, <3>1 DEF DS!BusyWaitingLoop, Quietly
    <3>2. CASE DS!BusyWaitingLoop(i, "think", "dinner")
      BY <1>2, <3>2 DEF DS!BusyWaitingLoop, Quietly
    <3>3. QED
      BY <1>16, <3>1, <3>2
  <2>2. QED
    BY <1>4, <2>1 DEF SemMove, QuietMove
<1>17. CASE DS!PutSticksStep(i)
  <2>1. /\ pc[i] \in {"wakeLeft", "wokeLeft", "wokeRight"}
        /\ UNCHANGED <<done, MealLeft, NumPhilNotIn, NumRdyLeave, NumGrantLeave, LeaveGrant>>
    BY <1>17 DEF DS!PutSticksStep
  <2>2. \/ DS!StopEating(i)
        \/ /\ pc[i] \in {"wakeLeft", "wokeLeft"}
           /\ \E j \in Person : DS!K!V(i, DS!PhilGrant(j))
           /\ \E to \in {"wokeLeft", "wokeRight"} : pc' = [pc EXCEPT ![i] = to]
           /\ UNCHANGED PhilState
    BY <1>5, <1>17 DEF DS!PutSticksStep, DS!WakeLeft, DS!WakeRight
  <2>3. CASE DS!StopEating(i)
    BY <1>3, <2>1, <2>3, SemNames DEF DS!StopEating, SemMove, StopMove
  <2>4. CASE ~DS!StopEating(i)
    <3>1. PICK j \in Person, to \in {"wokeLeft", "wokeRight"} :
             /\ pc[i] \in {"wakeLeft", "wokeLeft"} /\ DS!K!V(i, DS!PhilGrant(j))
             /\ pc' = [pc EXCEPT ![i] = to] /\ UNCHANGED DS!dvars
      BY <2>1, <2>2, <2>4 DEF DS!dvars
    <3>2. waitsOn[i] = NoSem /\ Gives(DS!PhilGrant(j))
      BY <1>3, <3>1, SemNames
    <3>3. GiveMove(i, to)
      BY <3>1, <3>2 DEF GiveMove
    <3>4. QED
      BY <3>1, <3>2, <3>3 DEF SemMove
  <2>5. QED
    BY <2>3, <2>4
<1>18. CASE DS!Leave(i)
  BY <1>3, <1>4, <1>18, SemNames DEF DS!Leave, SemMove, LeaveMove
<1>19. CASE DS!Return(i)
  BY <1>4, <1>19 DEF DS!Return, DS!Goto, SemMove, QuietMove, Quietly
<1>20. QED
  BY <1>6, <1>7, <1>8, <1>9, <1>10, <1>11, <1>13, <1>14, <1>15, <1>16, <1>17, <1>18, <1>19
     DEF DS!Philosopher

\* The loop counters.
Counters == cnt \in [Threads -> Nat]

\* Every step of task 4 keeps the counters natural numbers.
LEMMA SemCounters == Counters /\ DS!Next => Counters'
<1> SUFFICES ASSUME cnt \in [Threads -> Nat], DS!Next PROVE cnt' \in [Threads -> Nat]
  BY DEF Counters
<1>1. MainThread \in Threads /\ MainThread = DS!MainThread /\ \A i \in DS!Phil : i \in Threads
  BY MainIsNobody DEF Threads, Person, DS!Person, DS!Phil, MainThread, DS!MainThread
<1>2. CASE DS!ForkPhilosophers
  BY <1>1, <1>2 DEF DS!ForkPhilosophers
<1>3. ASSUME NEW i \in DS!Phil, DS!Philosopher(i) PROVE cnt' \in [Threads -> Nat]
  <2>1. i \in Threads /\ \A n \in StallCycles : n - 1 \in Nat
    BY <1>1, ExerciseAssumption
  <2>2. \/ cnt' = cnt \/ cnt' = [cnt EXCEPT ![i] = @ + 1] \/ \E n \in Nat : cnt' = [cnt EXCEPT ![i] = n]
        \/ cnt[i] # 0 /\ cnt' = [cnt EXCEPT ![i] = @ - 1]
    BY <1>3, <2>1 DEF DS!Philosopher, DS!Enter, DS!Entered, DS!Sit, DS!Dinner, DS!Hungry, DS!GotSticks,
         DS!Await, DS!Recheck, DS!Eat, DS!PutSticks, DS!PutSticksStep, DS!ReadyToLeave,
         DS!WaitLeave, DS!Leave, DS!Return, DS!GrantAll, DS!BusyWaitingLoop
  <2>3. QED
    BY <2>1, <2>2
<1>4. QED
  BY <1>2, <1>3 DEF DS!Next, DS!Terminated, DS!vars

\* The main thread forks a thread of the exercise, or finishes.
LEMMA MainForks ==
    ASSUME Counters, DS!ForkPhilosophers
    PROVE  DS!K!Finish(MainThread) \/ \E u \in Threads : DS!K!Fork(MainThread, u)
<1>1. cnt[MainThread] \in Nat /\ MainThread = DS!MainThread
  BY MainIsNobody DEF Counters, MainThread, DS!MainThread
<1>2. CASE cnt[MainThread] < NumPeople /\ DS!K!Fork(MainThread, cnt[MainThread])
  <2>1. cnt[MainThread] \in Threads
    BY <1>1, <1>2, ExerciseAssumption DEF Threads, Person
  <2>2. QED
    BY <1>2, <2>1
<1>3. QED
  BY <1>1, <1>2 DEF DS!ForkPhilosophers

\* Every step of task 4 calls the kernel once, or is one of the kernel's own.
LEMMA SemClient == Counters /\ DS!Next => [KS!ClientNext]_(KS!kvars)
<1> SUFFICES ASSUME Counters, DS!Next PROVE [KS!ClientNext]_(KS!kvars)
  OBVIOUS
<1>1. Threads = DS!Threads /\ MainThread = DS!MainThread /\ Person = DS!Phil
  BY DEF Threads, DS!Threads, Person, DS!Person, DS!Phil, MainThread, DS!MainThread
<1>2. ASSUME NEW t \in Threads,
             \/ \E s \in DS!Semaphores : DS!K!P(t, s) \/ DS!K!V(t, s)
             \/ DS!K!Yield(t) \/ DS!K!Finish(t)
             \/ \E u \in Threads : DS!K!Fork(t, u)
      PROVE  KS!ClientNext
  BY <1>1, <1>2, SemCalls DEF KS!ClientNext, KS!Call
<1>3. CASE DS!ForkPhilosophers
  <2>1. DS!K!Finish(MainThread) \/ \E u \in Threads : DS!K!Fork(MainThread, u)
    BY <1>1, <1>3, MainForks
  <2>2. QED
    BY <1>2, <2>1, MainIsNobody
<1>4. ASSUME NEW i \in Person, DS!Philosopher(i) PROVE KS!ClientNext
  <2>1. i \in Threads /\ DS!Left(i) \in Person /\ DS!Right(i) \in Person
    BY MainIsNobody, NeighboursLook DEF DS!Left, DS!Right, Neighbours
  <2>2. \/ \E s \in DS!Semaphores : DS!K!P(i, s) \/ DS!K!V(i, s)
        \/ DS!K!Yield(i) \/ DS!K!Finish(i)
    <3>1. CASE DS!Enter(i) \/ DS!Entered(i) \/ DS!Sit(i) \/ DS!Dinner(i)
      BY <3>1, SemNames DEF DS!Enter, DS!Entered, DS!Sit, DS!Dinner
    <3>2. CASE DS!Hungry(i) \/ DS!GotSticks(i) \/ DS!Await(i) \/ DS!Recheck(i)
      BY <3>2, SemNames DEF DS!Hungry, DS!GotSticks, DS!Await, DS!Recheck, DS!TrySticks
    <3>3. CASE DS!Eat(i) \/ DS!PutSticks(i) \/ DS!PutSticksStep(i)
      BY <2>1, <3>3, SemNames DEF DS!Eat, DS!PutSticks, DS!PutSticksStep, DS!WakeLeft,
         DS!WakeRight, DS!StopEating
    <3>4. CASE DS!ReadyToLeave(i) \/ DS!WaitLeave(i) \/ DS!Leave(i) \/ DS!Return(i)
      BY <3>4, SemNames DEF DS!ReadyToLeave, DS!WaitLeave, DS!Leave, DS!Return
    <3>5. CASE \/ DS!GrantAll(i, "grantSit", DS!SitSemaphore, DS!EnterMutex, "sit")
               \/ DS!GrantAll(i, "grantLeave", DS!LeaveSemaphore, DS!LeaveMutex, "waitLeave")
      BY <3>5, SemNames DEF DS!GrantAll
    <3>6. CASE \/ DS!BusyWaitingLoop(i, "eating", "put")
               \/ DS!BusyWaitingLoop(i, "think", "dinner")
      BY <3>6 DEF DS!BusyWaitingLoop
    <3>7. QED
      BY <1>4, <3>1, <3>2, <3>3, <3>4, <3>5, <3>6 DEF DS!Philosopher
  <2>3. QED
    BY <1>2, <2>1, <2>2
<1>5. CASE \E t \in Threads : DS!K!KernelStep(t)
  BY <1>1, <1>5, SemCalls DEF KS!ClientNext
<1>6. CASE DS!Terminated
  BY <1>6 DEF DS!Terminated, DS!vars, DS!kvars, KS!kvars
<1>7. QED
  BY <1>1, <1>3, <1>4, <1>5, <1>6 DEF DS!Next

\* The invariant of task 4, with that of its kernel.
SemaphoreInv == KS!KernelInv /\ Counters /\ SemInv

\* The kernel's invariant types the values and the waits.
LEMMA SemWaits == KS!KernelInv => WaitTypes
<1>1. Threads = DS!Threads
  BY DEF Threads, DS!Threads, Person, DS!Person, MainThread, DS!MainThread
<1>2. QED
  BY <1>1, KS!WaitTypes, SemKernel DEF WaitTypes

\* Everybody is outside and no mutex is taken at the start.
LEMMA SemInit == Init /\ Task = 4 => SemaphoreInv
<1> SUFFICES ASSUME Init, Task = 4 PROVE SemaphoreInv
  OBVIOUS
<1> USE DEF DS!Phil, DS!Person, DS!Threads, DS!MainThread, Person, Threads, MainThread
<1>1. DS!Init
  BY DEF Init
<1>2. pc = [t \in Threads |-> IF t = MainThread THEN "fork" ELSE "enter"]
  BY <1>1 DEF DS!Init, DS!ExerciseInit
<1>3. \A i \in Person : i \in Threads /\ i # MainThread /\ pc[i] = "enter"
  BY <1>2, ExerciseAssumption
<1>4. KS!KernelInv
  BY <1>1, SemCalls, KS!KernelInit, SemKernel DEF DS!Init
<1>5. /\ \A t \in Threads : waitsOn[t] = NoSem
      /\ value = DS!InitialValue
  BY <1>1 DEF DS!Init, DS!K!Init, NoSem
<1>6. value[DS!SitSemaphore] = 0 /\ value[DS!LeaveSemaphore] = 0
  <2>1. DS!SitSemaphore \in DS!Semaphores /\ DS!LeaveSemaphore \in DS!Semaphores
    BY SemNames
  <2>2. DS!SitSemaphore \notin {DS!mutex, DS!EnterMutex, DS!LeaveMutex, DS!MealLeftMutex}
    BY SemNames
  <2>3. DS!LeaveSemaphore \notin {DS!mutex, DS!EnterMutex, DS!LeaveMutex, DS!MealLeftMutex}
    BY SemNames
  <2>4. QED
    BY <1>5, <2>1, <2>2, <2>3 DEF DS!InitialValue
<1>7. /\ value[DS!EnterMutex] = 1 /\ value[DS!MealLeftMutex] = 1 /\ value[DS!LeaveMutex] = 1
  <2>1. {DS!EnterMutex, DS!MealLeftMutex, DS!LeaveMutex} \subseteq DS!Semaphores
    BY SemNames
  <2>2. QED
    BY <1>5, <2>1 DEF DS!InitialValue
<1>8. /\ PhilState = [i \in Person |-> "THINKING"] /\ done = [i \in Person |-> FALSE]
      /\ MealLeft = M /\ NumPhilNotIn = NumPeople /\ NumRdyLeave = 0 /\ NumGrantLeave = 0
  BY <1>1 DEF DS!Init
<1>9. SemTypes
  <2>1. pc \in [Threads -> SemPlace]
    BY <1>2 DEF SemPlace
  <2>2. MealLeft \in 0..M /\ NumGrantLeave \in 0..NumPeople
    BY <1>8, ExerciseAssumption
  <2>3. QED
    BY <1>5, <1>8, <2>1, <2>2 DEF SemTypes
<1>10. Sitting
  <2>1. AreAt({"enter", "entered"}) = Person
    BY <1>3 DEF AreAt
  <2>2. QED
    BY <1>3, <1>6, <1>8, <2>1, PersonFinite DEF Sitting
<1>11. Departing
  <2>1. AreAt(Leaving) = {}
    BY <1>3 DEF AreAt, Leaving
  <2>2. "enter" \notin Leaving
    BY DEF Leaving
  <2>3. QED
    BY <1>3, <1>6, <1>8, <2>1, <2>2, FS_EmptySet DEF Departing
<1>12. Finding /\ Sharing
  BY <1>3, <1>8 DEF Finding, Sharing, Leaving, MayBeServed, Served
<1>13. Excluding
  <2>1. /\ Within({"entered", "grantSit"}) = {} /\ Within({"meal"}) = {}
        /\ Within({"ready", "grantLeave", "leave"}) = {}
    BY <1>3 DEF Within
  <2>2. QED
    BY <1>7, <2>1, FS_EmptySet DEF Excluding
<1>14. QED
  BY <1>1, <1>4, <1>9, <1>10, <1>11, <1>12, <1>13
     DEF SemaphoreInv, SemInv, Counters, DS!Init, DS!ExerciseInit

\* A step of task 4 is a move of a philosopher, lets one have what he waits
\* for, or changes nothing the philosophers see.
LEMMA SemSteps ==
    ASSUME SemaphoreInv, Task = 4, [Next]_vars
    PROVE  /\ KS!KernelInv' /\ Counters'
           /\ \/ \E i \in Person : \E to : SemMove(i, to)
              \/ \E t \in Threads : Served4(t) /\ UNCHANGED <<pc, DS!dvars>>
              \/ /\ UNCHANGED <<value, waitsOn, DS!dvars>>
                 /\ \/ pc' = [pc EXCEPT ![MainThread] = "finished"] /\ waitsOn[MainThread] = NoSem
                    \/ pc' = pc
<1>1. Threads = DS!Threads /\ MainThread = DS!MainThread /\ Person = DS!Phil
  BY DEF Threads, DS!Threads, Person, DS!Person, DS!Phil, MainThread, DS!MainThread
<1>2. DS!Next \/ UNCHANGED vars
  BY DEF Next, ShoutStep, BusyWaitStep, SemaphoreStep, MailLoopStep, MailSemaphoreStep
<1>3. [KS!ClientNext]_(KS!kvars)
  BY <1>2, SemClient DEF vars, kvars, KS!kvars, SemaphoreInv
<1>4. KS!KernelInv' /\ Counters'
  <2>1. KS!KernelInv'
    BY <1>3, KS!KernelNext, SemKernel DEF SemaphoreInv
  <2>2. Counters'
    BY <1>2, SemCounters DEF SemaphoreInv, Counters, vars
  <2>3. QED
    BY <2>1, <2>2
<1>5. CASE DS!ForkPhilosophers
  <2>1. DS!K!Finish(MainThread) \/ \E u \in Threads : DS!K!Fork(MainThread, u)
    BY <1>5, MainForks DEF SemaphoreInv
  <2>2. waitsOn[MainThread] = NoSem /\ UNCHANGED <<value, waitsOn>>
    BY <2>1, SemEffects, MainIsNobody DEF SemaphoreInv
  <2>3. QED
    BY <1>1, <1>4, <1>5, <2>2 DEF DS!ForkPhilosophers
<1>6. CASE \E i \in Person : DS!Philosopher(i)
  BY <1>4, <1>6, SemMoves DEF SemaphoreInv
<1>7. ASSUME NEW t \in Threads, DS!K!KernelStep(t), UNCHANGED <<pc, DS!dvars>>
      PROVE  Served4(t) \/ UNCHANGED <<value, waitsOn>>
  BY <1>7, SemEffects DEF SemaphoreInv, Served4
<1>8. CASE DS!Terminated \/ UNCHANGED vars
  BY <1>4, <1>8 DEF DS!Terminated, DS!vars, DS!kvars, vars, kvars, dvars, svars, DS!dvars
<1>9. QED
  BY <1>1, <1>2, <1>4, <1>5, <1>6, <1>7, <1>8 DEF DS!Next

\* Every step of task 4 keeps the invariant.
LEMMA SemNext == SemaphoreInv /\ Task = 4 /\ [Next]_vars => SemaphoreInv'
<1> SUFFICES ASSUME SemaphoreInv, Task = 4, [Next]_vars PROVE SemaphoreInv'
  OBVIOUS
<1>1. SemInv /\ WaitTypes
  BY SemWaits DEF SemaphoreInv
<1>2. KS!KernelInv' /\ Counters' /\ WaitTypes'
  <2>1. KS!KernelInv' /\ Counters'
    BY SemSteps
  <2>2. QED
    BY <2>1, SemWaits, PTL
<1>3. SemInv'
  BY <1>1, <1>2, SemSteps, SemMoveKeeps, ServedKeeps, SemMain
<1>4. QED
  BY <1>2, <1>3 DEF SemaphoreInv

\* In every reachable state of the dinner with semaphores, for any number of
\* philosophers and meals, whatever the kernel and the timer do, at most one
\* philosopher is between the P and the V of EnterMutex, of MealLeftMutex and
\* of LeaveMutex (DinPhilSemaphore, Eat, LeaveRoom).
THEOREM MutexesExclude == Spec => []MutexRegions
<1> DEFINE Inv == Task = 4 => SemaphoreInv
<1>1. Init => Inv
  BY SemInit
<1>2. Inv /\ [Next]_vars => Inv'
  BY SemNext, TaskStays
<1>3. Inv => MutexRegions
  <2> SUFFICES ASSUME SemaphoreInv PROVE DS!MutexRegions
    BY DEF MutexRegions
  <2>1. \A i \in Person : kpc[i] # "P" <=> waitsOn[i] = NoSem
    BY SemEffects, MainIsNobody DEF SemaphoreInv
  <2>2. \A at : DS!Inside(at) = Within(at)
    BY <2>1 DEF DS!Inside, Within, DS!Phil, DS!Person, Person
  <2>3. /\ value[DS!EnterMutex] \in Nat /\ value[DS!MealLeftMutex] \in Nat
        /\ value[DS!LeaveMutex] \in Nat
    BY SemWaits, SemNames DEF SemaphoreInv, WaitTypes
  <2>4. \A at : Cardinality(Within(at)) \in Nat
    <3> SUFFICES ASSUME NEW at PROVE Cardinality(Within(at)) \in Nat
      OBVIOUS
    <3>1. Within(at) \in SUBSET Person /\ 0 \in Person
      BY ExerciseAssumption DEF Within, Person
    <3>2. QED
      BY <3>1, Counted
  <2>5. /\ Cardinality(Within({"entered", "grantSit"})) <= 1
        /\ Cardinality(Within({"meal"})) <= 1
        /\ Cardinality(Within({"ready", "grantLeave", "leave"})) <= 1
    BY <2>3, <2>4 DEF SemaphoreInv, SemInv, Excluding
  <2>6. \A at : DS!Cardinality(DS!Inside(at)) = Cardinality(Within(at))
    BY <2>2 DEF DS!Cardinality, Cardinality
  <2>7. QED
    BY <2>5, <2>6 DEF DS!MutexRegions
<1>4. QED
  BY <1>1, <1>2, <1>3, PTL DEF Spec

\* Where Dinner sees a philosopher of task 4.
SemSeen(at, state, dn) ==
    IF at \in {"enter", "entered"} THEN "outside"
    ELSE IF at \in {"return", "finished"} THEN "left"
    ELSE IF state # "ISEATING" THEN "table"
    ELSE IF ~dn /\ at \in {"eating", "put", "wakeLeft", "wokeLeft", "wokeRight"}
    THEN "eating" ELSE "holding"

\* The alternatives of Place exclude each other, since who eats is neither
\* outside nor gone.
LEMMA SemSees ==
    ASSUME SemInv, Task = 4
    PROVE  /\ SeenMeals = MealLeft
           /\ SeenPlace = [j \in Person |-> SemSeen(pc[j], PhilState[j], done[j])]
<1>1. ASSUME NEW j \in Person PROVE DS!Place(j) = SemSeen(pc[j], PhilState[j], done[j])
  <2>1. PhilState[j] = "ISEATING" => pc[j] \in Served \cup MayBeServed
    BY DEF SemInv, Sharing
  <2>2. CASE PhilState[j] = "ISEATING"
    <3>1. pc[j] \notin {"enter", "entered"} /\ pc[j] \notin {"return", "finished"}
      BY <2>1, <2>2 DEF Served, MayBeServed
    <3>2. QED
      BY <2>2, <3>1 DEF DS!Place, SemSeen
  <2>3. CASE PhilState[j] # "ISEATING" /\ pc[j] \in {"enter", "entered"}
    <3>1. pc[j] \notin {"return", "finished"}
      BY <2>3
    <3>2. QED
      BY <2>3, <3>1 DEF DS!Place, SemSeen
  <2>4. CASE PhilState[j] # "ISEATING" /\ pc[j] \notin {"enter", "entered"}
    BY <2>4 DEF DS!Place, SemSeen
  <2>5. QED
    BY <2>2, <2>3, <2>4
<1>2. \A j \in Person : Place(j) = DS!Place(j)
  BY DEF Place
<1>3. QED
  BY <1>1, <1>2 DEF SeenMeals, SeenPlace

\* Past the semaphore SitSemaphore nobody is outside.
LEMMA NobodyOutside ==
    ASSUME SemInv, NEW i \in Person, waitsOn[i] = NoSem,
           pc[i] \notin {"enter", "entered", "sit"}
    PROVE  \A j \in Person : pc[j] \notin {"enter", "entered"}
<1>1. NumPhilNotIn = 0 /\ NumPhilNotIn = Cardinality(AreAt({"enter", "entered"}))
  BY DEF SemInv, Sitting
<1>2. AreAt({"enter", "entered"}) = {}
  BY <1>1, CountedAll DEF AreAt
<1>3. QED
  BY <1>2 DEF AreAt

\* Past the semaphore LeaveSemaphore everybody is ready to leave.
LEMMA EverybodyLeaving ==
    ASSUME SemInv, NEW i \in Person, waitsOn[i] = NoSem, pc[i] \in Leaving \ {"waitLeave"}
    PROVE  \A j \in Person : pc[j] \in Leaving
<1>1. NumRdyLeave = NumPeople /\ NumRdyLeave = Cardinality(AreAt(Leaving))
  BY DEF SemInv, Departing
<1>2. AreAt(Leaving) = Person
  BY <1>1, CountedAll, ExerciseAssumption DEF AreAt
<1>3. QED
  BY <1>2 DEF AreAt

\* Every move of task 4 is a step of Dinner or changes nothing it sees.
LEMMA SemDines ==
    ASSUME NEW i \in Person, NEW to, SemInv, SemInv', WaitTypes, SemMove(i, to),
           Task = 4, Task' = 4
    PROVE  D!Next \/ UNCHANGED <<SeenPlace, SeenMeals>>
<1> DEFINE from == SemSeen(pc[i], PhilState[i], done[i])
           goal == SemSeen(to, PhilState'[i], done'[i])
<1>1. /\ SeenMeals = MealLeft
      /\ SeenPlace = [j \in Person |-> SemSeen(pc[j], PhilState[j], done[j])]
  BY SemSees
<1>2. /\ SeenMeals' = MealLeft'
      /\ SeenPlace' = [j \in Person |-> SemSeen(pc'[j], PhilState'[j], done'[j])]
  <2>1. (SemInv /\ Task = 4 => /\ SeenMeals = MealLeft
              /\ SeenPlace = [j \in Person |-> SemSeen(pc[j], PhilState[j], done[j])])'
    BY SemSees, PTL
  <2>2. QED
    BY <2>1
<1>3. /\ \A j \in Person : pc'[j] = IF j = i THEN to ELSE pc[j]
      /\ \A j \in Person \ {i} : PhilState'[j] = PhilState[j] /\ done'[j] = done[j]
      /\ waitsOn[i] = NoSem /\ MealLeft \in Nat
      /\ PhilState[i] \in {"THINKING", "ISHUNGRY", "ISEATING"} /\ done[i] \in BOOLEAN
  <2>1. \A j \in Person : pc'[j] = IF j = i THEN to ELSE pc[j]
    BY OthersStay, MainIsNobody
  <2>2. /\ PhilState \in [Person -> {"THINKING", "ISHUNGRY", "ISEATING"}]
        /\ done \in [Person -> BOOLEAN] /\ MealLeft \in Nat /\ waitsOn[i] = NoSem
    BY ExerciseAssumption DEF SemInv, SemTypes, SemMove
  <2>3. PhilState' = PhilState \/ \E x : PhilState' = [PhilState EXCEPT ![i] = x]
    BY DEF SemMove, ClaimMove, QuietMove, EnteredMove, ReadyMove, GiveMove, TryMove, EatMove,
           StopMove, LeaveMove, DS!dvars
  <2>4. done' = done \/ done' = [done EXCEPT ![i] = TRUE]
    BY DEF SemMove, ClaimMove, QuietMove, EnteredMove, ReadyMove, GiveMove, TryMove, EatMove,
           StopMove, LeaveMove, DS!dvars
  <2>5. QED
    BY <2>1, <2>2, <2>3, <2>4
<1>4. SeenMove(i, goal) /\ SeenPlace[i] = from
  BY <1>1, <1>2, <1>3 DEF SeenMove
<1>5. ASSUME goal = from, MealLeft' = MealLeft PROVE UNCHANGED <<SeenPlace, SeenMeals>>
  <2>1. SeenPlace' = [SeenPlace EXCEPT ![i] = SeenPlace[i]]
    BY <1>4, <1>5 DEF SeenMove
  <2>2. SeenPlace' = SeenPlace
    <3> HIDE DEF goal, from
    <3>1. SeenPlace \in [Person -> {SeenPlace[j] : j \in Person}]
      BY <1>1
    <3>2. QED
      BY <2>1, <3>1
  <2>3. QED
    BY <1>1, <1>2, <1>5, <2>2
<1>6. \A j \in Person :
        /\ pc[j] \in Leaving => PhilState[j] # "ISEATING"
        /\ pc[j] \in Served => PhilState[j] = "ISEATING"
        /\ PhilState[j] = "ISEATING" => pc[j] \in Served \cup MayBeServed
  BY DEF SemInv, Sharing, Leaving, Served, MayBeServed
<1>7. CASE ClaimMove(i, to) \/ QuietMove(i, to) \/ ReadyMove(i, to) \/ GiveMove(i, to)
  <2>1. PhilState' = PhilState /\ done' = done /\ MealLeft' = MealLeft
    BY <1>7 DEF ClaimMove, QuietMove, ReadyMove, GiveMove, DS!dvars
  <2>2. pc[i] = "recheck" => to = "meal"
    BY <1>7 DEF ClaimMove, QuietMove, ReadyMove, GiveMove, Claiming, Quietly
  <2>3. goal = from
    BY <1>6, <1>7, <2>1 DEF SemSeen, ClaimMove, QuietMove, ReadyMove, GiveMove, Claiming, Quietly,
       Served, MayBeServed
  <2>4. QED
    BY <1>5, <2>1, <2>3
<1>8. CASE EnteredMove(i, to)
  <2>1. PhilState[i] # "ISEATING" /\ PhilState' = PhilState /\ MealLeft' = MealLeft
    BY <1>6, <1>8 DEF EnteredMove, Served, MayBeServed
  <2>2. from = "outside" /\ goal = "table"
    BY <1>8, <2>1 DEF EnteredMove, SemSeen
  <2>3. QED
    BY <1>1, <1>2, <1>4, <2>1, <2>2, SeenSitDown
<1>9. CASE TryMove(i, to)
  <2>1. /\ PhilState[i] # "ISEATING" /\ from = "table" /\ MealLeft' = MealLeft
    BY <1>6, <1>9 DEF TryMove, SemSeen, Served, MayBeServed
  <2>2. CASE to = "await"
    <3>1. PhilState' = [PhilState EXCEPT ![i] = "ISHUNGRY"]
      BY <1>9, <2>2 DEF TryMove
    <3>2. goal = "table"
      BY <2>2, <3>1 DEF SemSeen, SemInv, SemTypes
    <3>3. QED
      BY <1>5, <2>1, <3>2
  <2>3. CASE to = "gotSticks"
    <3>1. PhilState' = [PhilState EXCEPT ![i] = "ISEATING"] /\ DS!SticksFree(i)
      BY <1>9, <2>3 DEF TryMove
    <3>2. goal = "holding"
      BY <2>3, <3>1 DEF SemSeen, SemInv, SemTypes
    <3>3. \A j \in Person : pc[j] \notin {"enter", "entered"}
      BY <1>3, <1>9, NobodyOutside DEF TryMove
    <3>4. \A j \in Person \ {i} : SeenPlace[j] # "outside"
      BY <1>1, <3>3 DEF SemSeen
    <3>5. \A j \in Neighbours(i) : SeenPlace[j] \notin {"holding", "eating"}
      BY <1>1, <3>1, NeighboursLook DEF SemSeen
    <3>6. QED
      BY <1>1, <1>2, <1>4, <2>1, <3>2, <3>4, <3>5, SeenStartEating
  <2>4. QED
    BY <1>9, <2>2, <2>3 DEF TryMove
<1>10. CASE EatMove(i, to)
  <2>1. /\ pc[i] = "meal" /\ to = "eating" /\ PhilState[i] = "ISEATING" /\ PhilState' = PhilState
        /\ ~done[i]
    BY <1>6, <1>10 DEF EatMove, Served, SemInv, Finding
  <2>2. from = "holding"
    BY <2>1 DEF SemSeen
  <2>3. CASE MealLeft # 0 /\ MealLeft' = MealLeft - 1 /\ done' = done
    <3>1. goal = "eating"
      BY <2>1, <2>3 DEF SemSeen
    <3>2. QED
      BY <1>1, <1>2, <1>3, <1>4, <2>2, <2>3, <3>1, SeenTakeMeal
  <2>4. CASE MealLeft' = MealLeft /\ done' = [done EXCEPT ![i] = TRUE]
    <3>1. goal = "holding"
      BY <2>1, <2>4 DEF SemSeen, SemInv, SemTypes
    <3>2. QED
      BY <1>5, <2>2, <2>4, <3>1
  <2>5. QED
    BY <1>10, <2>3, <2>4 DEF EatMove
<1>11. CASE StopMove(i, to)
  <2>1. /\ pc[i] \in {"wakeLeft", "wokeLeft", "wokeRight"} /\ to = "think"
        /\ PhilState' = [PhilState EXCEPT ![i] = "THINKING"] /\ MealLeft' = MealLeft
        /\ PhilState[i] = "ISEATING"
    BY <1>6, <1>11 DEF StopMove, Served
  <2>2. goal = "table"
    BY <2>1 DEF SemSeen, SemInv, SemTypes
  <2>3. from = "eating" \/ (from = "holding" /\ MealLeft = 0)
    BY <2>1 DEF SemSeen, SemInv, Finding
  <2>4. QED
    BY <1>1, <1>2, <1>4, <2>1, <2>2, <2>3, SeenStopEating
<1>12. CASE LeaveMove(i, to)
  <2>1. pc[i] = "leave" /\ to \in {"return", "finished"} /\ MealLeft' = MealLeft
    BY <1>12 DEF LeaveMove
  <2>2. PhilState[i] # "ISEATING" /\ MealLeft = 0
    BY <1>6, <2>1 DEF SemInv, Finding, Leaving
  <2>3. from = "table" /\ goal = "left"
    BY <2>1, <2>2 DEF SemSeen
  <2>4. \A j \in Person : pc[j] \in Leaving /\ PhilState[j] # "ISEATING"
    <3>1. pc[i] \in Leaving \ {"waitLeave"}
      BY <2>1 DEF Leaving
    <3>2. QED
      BY <1>3, <1>6, <3>1, EverybodyLeaving
  <2>5. \A j \in Person \ {i} : SeenPlace[j] \in {"table", "left"}
    BY <1>1, <2>4 DEF SemSeen, Leaving
  <2>6. QED
    BY <1>1, <1>2, <1>4, <2>1, <2>2, <2>3, <2>5, SeenLeave
<1>13. QED
  BY <1>7, <1>8, <1>9, <1>10, <1>11, <1>12 DEF SemMove

\* What Dinner sees depends on these variables only.
LEMMA SeenStays ==
    ASSUME Task' = Task,
           Task \in {3, 4} => MealLeft' = MealLeft /\ \A i \in Person : pc'[i] = pc[i],
           Task = 4 => PhilState' = PhilState /\ done' = done
    PROVE  UNCHANGED <<SeenPlace, SeenMeals>>
<1>1. SeenMeals' = SeenMeals
  BY DEF SeenMeals
<1>2. ASSUME NEW i \in Person PROVE Place(i)' = Place(i)
  <2>1. CASE Task = 3
    BY <2>1 DEF Place, DB!Place
  <2>2. CASE Task = 4
    BY <2>2 DEF Place, DS!Place
  <2>3. CASE Task \notin {3, 4}
    BY <2>3 DEF Place
  <2>4. QED
    BY <2>1, <2>2, <2>3
<1>3. QED
  BY <1>1, <1>2 DEF SeenPlace

\* Dinner sees everybody outside and no meal eaten at the start.
LEMMA DinnerInit == Init => D!Init
<1> SUFFICES ASSUME Init PROVE SeenPlace = [i \in Person |-> "outside"] /\ SeenMeals = M
  BY DEF D!Init, D!Phil, Person
<1>1. CASE Task = 3
  <2>1. pc = [t \in DB!Threads |-> IF t = DB!MainThread THEN "fork" ELSE "enter"] /\ MealLeft = M
    BY <1>1 DEF Init, DB!Init, DB!ExerciseInit
  <2>2. \A i \in Person : pc[i] = "enter"
    BY <2>1, MainIsNobody DEF DB!Threads, DB!MainThread, DB!Person, Threads, MainThread, Person
  <2>3. \A i \in Person : Place(i) = "outside"
    BY <1>1, <2>2 DEF Place, DB!Place
  <2>4. QED
    BY <1>1, <2>1, <2>3 DEF SeenPlace, SeenMeals
<1>2. CASE Task = 4
  <2>1. pc = [t \in DS!Threads |-> IF t = DS!MainThread THEN "fork" ELSE "enter"] /\ MealLeft = M
    BY <1>2 DEF Init, DS!Init, DS!ExerciseInit
  <2>2. \A i \in Person : pc[i] = "enter"
    BY <2>1, MainIsNobody DEF DS!Threads, DS!MainThread, DS!Person, Threads, MainThread, Person
  <2>3. SemInv
    BY <1>2, SemInit DEF SemaphoreInv
  <2>4. QED
    BY <1>2, <2>1, <2>2, <2>3, SemSees DEF SemSeen
<1>3. CASE Task \notin {3, 4}
  BY <1>3 DEF SeenPlace, SeenMeals, Place
<1>4. QED
  BY <1>1, <1>2, <1>3

\* The dinner with busy waiting and the dinner with semaphores keep, for any
\* number of philosophers and meals, the promise of Dinner: all sit before one
\* eats, neighbours do not eat together, a meal is taken once per pair of
\* chopsticks and never after the last, all leave together with no meal left
\* (DinPhilBusyWait and DinPhilSemaphore of threadtest.cc).
THEOREM DinnersKeepTheirPromise == Spec => ImplementsDinner
<1> DEFINE Inv == (Task = 3 => BusyInv) /\ (Task = 4 => SemaphoreInv)
<1>1. Init => Inv /\ D!Init
  BY BusyInit, SemInit, DinnerInit
<1>2. Inv /\ [Next]_vars => Inv'
  BY BusyNext, SemNext, TaskStays
<1>3. Inv /\ Inv' /\ [Next]_vars => [D!Next]_(D!vars)
  <2> SUFFICES ASSUME Inv, Inv', [Next]_vars
               PROVE  D!Next \/ UNCHANGED <<SeenPlace, SeenMeals>>
    BY DEF D!vars
  <2>1. Task' = Task
    BY TaskStays
  <2>2. CASE Task = 3
    <3>1. BusyInv /\ (DB!Next \/ UNCHANGED vars)
      BY <2>2 DEF Next, ShoutStep, BusyWaitStep, SemaphoreStep, MailLoopStep, MailSemaphoreStep
    <3>2. CASE \E i \in Person : DB!Philosopher(i)
      <4>1. PICK i \in Person : DB!Philosopher(i)
        BY <3>2
      <4>2. (\E to : BusyMove(i, to)) \/ UNCHANGED <<pc, DB!dvars>>
        BY <3>1, <4>1, BusyMoves
      <4>3. QED
        BY <2>1, <2>2, <3>1, <4>2, BusyDines, SeenStays DEF DB!dvars
    <3>3. CASE ~\E i \in Person : DB!Philosopher(i)
      <4>1. /\ MealLeft' = MealLeft
            /\ pc' = [pc EXCEPT ![MainThread] = "finished"] \/ pc' = pc
        BY <3>1, <3>3 DEF DB!Next, DB!ForkPhilosophers, DB!Terminated, DB!vars, DB!dvars, vars, dvars,
           DB!Phil, DB!Person, Person, DB!MainThread, MainThread
      <4>2. \A i \in Person : pc'[i] = pc[i]
        <5>1. pc \in [Threads -> BusyPlace]
          BY <3>1 DEF BusyInv
        <5>2. QED
          BY <4>1, <5>1, MainIsNobody
      <4>3. QED
        BY <2>1, <2>2, <4>1, <4>2, SeenStays
    <3>4. QED
      BY <3>2, <3>3
  <2>3. CASE Task = 4
    <3>1. SemInv /\ SemInv' /\ WaitTypes
      BY <2>1, <2>3, SemWaits DEF SemaphoreInv
    <3>2. CASE \E i \in Person : \E to : SemMove(i, to)
      BY <2>1, <2>3, <3>1, <3>2, SemDines
    <3>3. CASE ~\E i \in Person : \E to : SemMove(i, to)
      <4>1. /\ UNCHANGED DS!dvars
            /\ pc' = [pc EXCEPT ![MainThread] = "finished"] \/ pc' = pc
        BY <2>3, <3>3, SemSteps
      <4>2. \A i \in Person : pc'[i] = pc[i]
        <5>1. pc \in [Threads -> SemPlace]
          BY <3>1 DEF SemInv, SemTypes
        <5>2. QED
          BY <4>1, <5>1, MainIsNobody
      <4>3. QED
        BY <2>1, <2>3, <4>1, <4>2, SeenStays DEF DS!dvars
    <3>4. QED
      BY <3>2, <3>3
  <2>4. CASE Task \notin {3, 4}
    BY <2>1, <2>4, SeenStays
  <2>5. QED
    BY <2>2, <2>3, <2>4
<1>4. QED
  BY <1>1, <1>2, <1>3, PTL DEF Spec, ImplementsDinner, D!Spec

-----------------------------------------------------------------------------
(***************************************************************************)
(* The types of both tasks                                                 *)
(***************************************************************************)
KB == INSTANCE KernelProofs WITH
        Thread <- DB!Threads, Main <- DB!MainThread,
        NoThread <- NumPeople + 1, Sem <- {}, NoSem <- "none",
        InitialValue <- << >>, Device <- {}, UserThread <- {},
        TimeSlice <- TimeSlice, MaxValue <- 0

\* The kernel of task 3, which has no semaphores, meets the assumptions of
\* module Kernel.
LEMMA BusyKernel == KB!KernelAssumption
<1>1. IsFiniteSet(DB!Threads)
  <2>1. IsFiniteSet(DB!Person)
    BY FS_Interval, ExerciseAssumption DEF DB!Person
  <2>2. QED
    BY <2>1, FS_AddElement DEF DB!Threads
<1>2. KB!IsFiniteSet(DB!Threads)
  BY <1>1 DEF KB!IsFiniteSet, IsFiniteSet
<1>3. DB!MainThread \in DB!Threads /\ NumPeople + 1 \notin DB!Threads
  BY ExerciseAssumption DEF DB!Threads, DB!Person, DB!MainThread
<1>4. << >> \in [{} -> Nat]
  OBVIOUS
<1>5. TimeSlice \in BOOLEAN
  BY ExerciseAssumption
<1>6. QED
  BY <1>2, <1>3, <1>4, <1>5 DEF KB!KernelAssumption

\* The calls of the kernel of task 3 are those of module Kernel.
LEMMA BusyCalls ==
    ASSUME NEW t, NEW s
    PROVE  /\ DB!K!Yield(t) => KB!Yield(t)
           /\ DB!K!Finish(t) => KB!Finish(t)
           /\ DB!K!Fork(t, s) => KB!Fork(t, s)
           /\ DB!K!KernelStep(t) => KB!KernelStep(t)
           /\ KB!KernelInv => DB!K!TypeOK
           /\ DB!K!Init => KB!Init
<1>1. DB!K!Yield(t) => KB!Yield(t)
  BY DEF DB!K!Yield, DB!K!YieldToNext, DB!K!Run, DB!K!AtBody,
         KB!Yield, KB!YieldToNext, KB!Run, KB!AtBody
<1>2. (DB!K!Finish(t) => KB!Finish(t)) /\ (DB!K!Fork(t, s) => KB!Fork(t, s))
  BY DEF DB!K!Finish, DB!K!Fork, DB!K!AtBody, KB!Finish, KB!Fork, KB!AtBody
<1>3. DB!K!KernelStep(t) => KB!KernelStep(t)
  BY DEF DB!K!KernelStep, DB!K!Enable, DB!K!AtTick, DB!K!TimerYield, DB!K!YieldToNext,
         DB!K!Run, DB!K!SleepSwitch, DB!K!Sleeping, DB!K!IdleHalt, DB!K!PResume, DB!K!PLoop,
         KB!KernelStep, KB!Enable, KB!AtTick, KB!TimerYield, KB!YieldToNext,
         KB!Run, KB!SleepSwitch, KB!Sleeping, KB!IdleHalt, KB!PResume, KB!PLoop
<1>4. KB!TypeOK => DB!K!TypeOK
  BY DEF DB!K!TypeOK, KB!TypeOK, DB!K!Status, KB!Status, DB!K!Place, KB!Place
<1>5. DB!K!Init => KB!Init
  BY DEF DB!K!Init, KB!Init
<1>6. QED
  BY <1>1, <1>2, <1>3, <1>4, <1>5 DEF KB!KernelInv, KB!PlaceInv

\* A philosopher of task 3 yields or finishes, and counts his Yields.
LEMMA BusyClientStep ==
    ASSUME Counters, NEW i \in Person, DB!Philosopher(i)
    PROVE  Counters' /\ (DB!K!Yield(i) \/ DB!K!Finish(i))
<1>1. cnt \in [Threads -> Nat] /\ i \in Threads /\ \A n \in StallCycles : n - 1 \in Nat
  BY MainIsNobody, ExerciseAssumption DEF Counters
<1>2. ASSUME NEW to, DB!BusyWaitingLoop(i, to)
      PROVE  cnt' \in [Threads -> Nat] /\ DB!K!Yield(i)
  BY <1>1, <1>2 DEF DB!BusyWaitingLoop
<1> DEFINE Goal == cnt' \in [Threads -> Nat] /\ (DB!K!Yield(i) \/ DB!K!Finish(i))
<1>3. ASSUME NEW n, DB!ReachRight(i, n) PROVE Goal
  BY <1>2, <1>3 DEF DB!ReachRight, DB!EatOrDrop, DB!LookAgain
<1>4. ASSUME NEW n, DB!ReachLeft(i, n) PROVE Goal
  BY <1>2, <1>3, <1>4 DEF DB!ReachLeft, DB!LookAgain
<1>5. ASSUME NEW n, DB!WaitToLeave(i, n) PROVE Goal
  BY <1>1, <1>2, <1>5 DEF DB!WaitToLeave
<1>6. ASSUME DB!Dinner(i) PROVE Goal
  BY <1>4, <1>5, <1>6 DEF DB!Dinner
<1>7. ASSUME NEW n, DB!WaitToSit(i, n) PROVE Goal
  BY <1>1, <1>6, <1>7 DEF DB!WaitToSit
<1>8. CASE DB!Stall(i)
  <2>1. cnt[i] \in Nat /\ cnt[i] > 0
    BY <1>1, <1>8 DEF DB!Stall
  <2>2. QED
    BY <1>1, <1>8, <2>1 DEF DB!Stall, Counters
<1>9. CASE DB!Enter(i) \/ DB!Sit(i)
  BY <1>7, <1>9 DEF DB!Enter, DB!Sit, Counters
<1>10. CASE DB!Reach(i) \/ DB!FinishEating(i)
  BY <1>2, <1>3, <1>4, <1>10 DEF DB!Reach, DB!FinishEating, Counters
<1>11. CASE DB!Think(i) \/ DB!Leave(i)
  BY <1>5, <1>6, <1>11 DEF DB!Think, DB!Leave, Counters
<1>12. QED
  BY <1>8, <1>9, <1>10, <1>11 DEF DB!Philosopher

\* Every step of task 3 calls the kernel once, or is one of the kernel's own.
LEMMA BusyClient == Counters /\ DB!Next => Counters' /\ [KB!ClientNext]_(KB!kvars)
<1> SUFFICES ASSUME Counters, DB!Next PROVE Counters' /\ [KB!ClientNext]_(KB!kvars)
  OBVIOUS
<1>1. Threads = DB!Threads /\ MainThread = DB!MainThread /\ Person = DB!Phil
  BY DEF Threads, DB!Threads, Person, DB!Person, DB!Phil, MainThread, DB!MainThread
<1>2. ASSUME NEW t \in Threads,
             DB!K!Yield(t) \/ DB!K!Finish(t) \/ \E u \in Threads : DB!K!Fork(t, u)
      PROVE  KB!ClientNext
  BY <1>1, <1>2, BusyCalls DEF KB!ClientNext, KB!Call
<1>3. CASE DB!ForkPhilosophers
  <2>1. cnt \in [Threads -> Nat] /\ cnt[MainThread] \in Nat /\ MainThread \in Threads
    BY MainIsNobody DEF Counters
  <2>2. DB!K!Finish(MainThread) \/ \E u \in Threads : DB!K!Fork(MainThread, u)
    <3>1. CASE cnt[MainThread] < NumPeople /\ DB!K!Fork(MainThread, cnt[MainThread])
      <4>1. cnt[MainThread] \in Threads
        BY <2>1, <3>1, ExerciseAssumption DEF Threads, Person
      <4>2. QED
        BY <3>1, <4>1
    <3>2. QED
      BY <1>1, <1>3, <3>1 DEF DB!ForkPhilosophers
  <2>3. Counters'
    BY <1>1, <1>3, <2>1 DEF DB!ForkPhilosophers, Counters
  <2>4. QED
    BY <1>2, <2>1, <2>2, <2>3
<1>4. ASSUME NEW i \in Person, DB!Philosopher(i) PROVE Counters' /\ KB!ClientNext
  BY <1>2, <1>4, BusyClientStep, MainIsNobody
<1>5. ASSUME NEW t \in Threads, DB!K!KernelStep(t), UNCHANGED <<pc, cnt, DB!dvars>>
      PROVE  Counters' /\ KB!ClientNext
  BY <1>1, <1>5, BusyCalls DEF KB!ClientNext, Counters
<1>6. CASE DB!Terminated
  BY <1>6 DEF DB!Terminated, DB!vars, DB!kvars, KB!kvars, Counters
<1>7. QED
  BY <1>1, <1>3, <1>4, <1>5, <1>6 DEF DB!Next

\* The invariant of task 3, with that of its kernel.
BusyWaitInv == KB!KernelInv /\ Counters /\ BusyInv

\* Task 3 starts in its invariant ...
LEMMA BusyWaitInit == Init /\ Task = 3 => BusyWaitInv
<1> SUFFICES ASSUME Init, Task = 3 PROVE BusyWaitInv
  OBVIOUS
<1>1. DB!Init
  BY DEF Init
<1>2. KB!KernelInv
  BY <1>1, BusyCalls, KB!KernelInit, BusyKernel DEF DB!Init
<1>3. Counters
  BY <1>1 DEF DB!Init, DB!ExerciseInit, Counters, Threads, DB!Threads, Person, DB!Person,
     MainThread, DB!MainThread
<1>4. QED
  BY <1>2, <1>3, BusyInit DEF BusyWaitInv

\* ... and keeps it.
LEMMA BusyWaitNext == BusyWaitInv /\ Task = 3 /\ [Next]_vars => BusyWaitInv'
<1> SUFFICES ASSUME BusyWaitInv, Task = 3, [Next]_vars PROVE BusyWaitInv'
  OBVIOUS
<1>1. KB!KernelInv /\ Counters /\ BusyInv
  BY DEF BusyWaitInv
<1>2. DB!Next \/ UNCHANGED vars
  BY DEF Next, ShoutStep, BusyWaitStep, SemaphoreStep, MailLoopStep, MailSemaphoreStep
<1>3. Counters' /\ [KB!ClientNext]_(KB!kvars)
  BY <1>1, <1>2, BusyClient DEF vars, kvars, KB!kvars, Counters
<1>4. KB!KernelInv'
  BY <1>1, <1>3, KB!KernelNext, BusyKernel
<1>5. QED
  BY <1>1, <1>3, <1>4, BusyNext DEF BusyWaitInv

\* The invariants of tasks 3 and 4 give the types of their variables.
LEMMA DinnerTypes ==
    /\ BusyWaitInv => DB!TypeOK
    /\ SemaphoreInv => DS!TypeOK
<1>1. ASSUME BusyWaitInv PROVE DB!TypeOK
  <2>1. DB!Phil = Person /\ BusyInv
    BY <1>1 DEF DB!Phil, DB!Person, Person, BusyWaitInv
  <2>2. DB!K!TypeOK
    BY <1>1, BusyCalls DEF BusyWaitInv
  <2>3. NumPhilNotIn \in 0..NumPeople /\ PhilosopherLeaveRdy \in 0..NumPeople
    <3>1. AreAt({"enter"}) \in SUBSET Person /\ AreAt(Going) \in SUBSET Person
      BY DEF AreAt
    <3>2. /\ Cardinality(AreAt({"enter"})) \in Nat /\ Cardinality(AreAt({"enter"})) <= NumPeople
          /\ Cardinality(AreAt(Going)) \in Nat /\ Cardinality(AreAt(Going)) <= NumPeople
      BY <3>1, PersonFinite, FS_Subset, FS_CardinalityType, CountedAll
    <3>3. NumPhilNotIn = Cardinality(AreAt({"enter"})) /\ PhilosopherLeaveRdy = Cardinality(AreAt(Going))
      BY <2>1 DEF BusyInv
    <3>4. QED
      BY <3>2, <3>3, ExerciseAssumption
  <2>4. QED
    BY <2>1, <2>2, <2>3 DEF DB!TypeOK, BusyInv
<1>2. ASSUME SemaphoreInv PROVE DS!TypeOK
  <2>1. DS!Phil = Person /\ SemInv
    BY <1>2 DEF DS!Phil, DS!Person, Person, SemaphoreInv
  <2>2. DS!K!TypeOK
    BY <1>2, SemCalls DEF SemaphoreInv
  <2>3. NumPhilNotIn \in 0..NumPeople /\ NumRdyLeave \in 0..NumPeople
    <3>1. \A at : AreAt(at) \in SUBSET Person
      BY DEF AreAt
    <3>2. \A at : Cardinality(AreAt(at)) \in Nat /\ Cardinality(AreAt(at)) <= NumPeople
      BY <3>1, PersonFinite, FS_Subset, FS_CardinalityType, CountedAll
    <3>3. (\E at : NumPhilNotIn = Cardinality(AreAt(at))) /\ (\E at : NumRdyLeave = Cardinality(AreAt(at)))
      BY <2>1 DEF SemInv, Sitting, Departing
    <3>4. QED
      BY <3>2, <3>3, ExerciseAssumption
  <2>4. QED
    BY <2>1, <2>2, <2>3 DEF DS!TypeOK, SemInv, SemTypes
<1>3. QED
  BY <1>1, <1>2

-----------------------------------------------------------------------------
(***************************************************************************)
(* Tasks 5 and 6: what is in which hands                                   *)
(***************************************************************************)

\* The semaphores of both post offices: the mutex of a mailbox, its free
\* slots (task 6) and the message counter.
mb(i) == <<"mailbox", i>>
fs(i) == <<"freeSpace", i>>
mc    == <<"MsgCnt", 0>>

MailSem == {mc} \cup {mb(i) : i \in Person}
                \cup {s \in {fs(i) : i \in Person} : Task = 6}

\* The semaphore that person i, who sends to d, waits for at a place.
WaitsFor(i, at, d) ==
    CASE at = "read"     -> mb(i)
      [] at = "claimed"  -> mc
      [] at = "gotSpace" -> fs(d)
      [] at = "gotBox"   -> mb(d)
      [] at = "send"     -> IF Task = 5 THEN mb(d) ELSE mc
      [] OTHER           -> NoSem

\* The semaphores of which that person has a unit, once the wait is over.
HeldAt(i, at, d) ==
    CASE at \in {"read", "hasRead"}         -> {mb(i)}
      [] at = "gotSpace"                    -> {fs(d)}
      [] at = "gotBox"                      -> {fs(d), mb(d)}
      [] at = "send"                        -> {fs(d), mb(d), mc}
      [] at = "abort"                       -> {mb(d), mc}
      [] at \in {"claimed", "full", "sent"} -> {mc}
      [] OTHER                              -> {}

Owners(s) == {i \in Person : s \in HeldAt(i, pc[i], iSendTo[i]) /\ waitsOn[i] # s}

LoopPlace  == {"claimed", "full"}
SpacePlace == {"hasRead", "gotSpace", "gotBox", "abort"}
MailPlace  == {"fork", "visit", "decide", "read", "readYield", "stall", "finished", "send", "sent"}
                  \cup LoopPlace \cup SpacePlace

\* Types, and what a thread that waits waits for.
MailTypes ==
    /\ pc \in [Threads -> MailPlace]
    /\ \A i \in Person : pc[i] \notin (IF Task = 5 THEN SpacePlace ELSE LoopPlace)
    /\ iSendTo \in [Person -> Person]
    /\ MsgPtr \in [Person -> 0..S]
    /\ MailBox \in [Person -> [1..S -> Nat]]
    /\ MsgSentCnt \in 0..M
    /\ done \in [Person -> BOOLEAN]
    /\ \A t \in Threads : waitsOn[t] # NoSem =>
           t \in Person /\ waitsOn[t] = WaitsFor(t, pc[t], iSendTo[t])

\* Everything was sent, and every mailbox is empty.
Empty == MsgSentCnt = M /\ \A j \in Person : MsgPtr[j] = 0

\* Who reads finds a message; who has gone home left nothing behind.
Reading ==
    /\ \A i \in Person : pc[i] = "read" => MsgPtr[i] > 0
    /\ \A i \in Person : pc[i] = "finished" <=> done[i]
    /\ \A i \in Person : done[i] => Empty

\* Task 5: nobody else changes what a sender has seen.
Sending ==
    /\ \A i \in Person : Task = 5 /\ pc[i] \in {"full", "send"} => MsgSentCnt < M
    /\ \A i \in Person : Task = 5 /\ pc[i] = "send" => MsgPtr[iSendTo[i]] < S

\* Every unit of a semaphore is there or in the hands of one person; every
\* slot of a mailbox is free, taken, or promised to a sender.
Accounts ==
    /\ \A s \in {mc} \cup {mb(j) : j \in Person} : value[s] + Cardinality(Owners(s)) = 1
    /\ Task = 6 => \A j \in Person :
                      value[fs(j)] + MsgPtr[j] + Cardinality(Owners(fs(j))) = S

\* Nobody sends to himself; of two people who wait for room in each other's
\* mailbox one has no mail.
Facing ==
    /\ \A i \in Person : pc[i] = "gotSpace" => iSendTo[i] # i
    /\ NumPeople = 2 =>
          \A i, j \in Person :
              \/ i = j \/ pc[i] # "gotSpace" \/ pc[j] # "gotSpace"
              \/ waitsOn[i] = NoSem \/ waitsOn[j] = NoSem
              \/ MsgPtr[i] = 0 \/ MsgPtr[j] = 0

MailInv == MailTypes /\ Reading /\ Sending /\ Accounts /\ Facing

\* What the kernel's invariant says of the values and of who waits.
MailWaits ==
    /\ value \in [MailSem -> Nat]
    /\ waitsOn \in [Threads -> MailSem \cup {NoSem}]

\* The semaphores of the post offices are different from each other.
LEMMA MailNames ==
    /\ NoSem \notin MailSem /\ mc \in MailSem /\ mc # NoSem
    /\ \A i \in Person : mb(i) \in MailSem /\ mb(i) # mc /\ mb(i) # NoSem
    /\ \A i \in Person : (fs(i) \in MailSem <=> Task = 6) /\ fs(i) # mc /\ fs(i) # NoSem
    /\ \A i, j \in Person : fs(i) # mb(j) /\ (mb(i) = mb(j) => i = j) /\ (fs(i) = fs(j) => i = j)
    /\ \A s \in MailSem : s = mc \/ (\E j \in Person : s = mb(j))
                                 \/ (Task = 6 /\ \E j \in Person : s = fs(j))
BY DEF MailSem, NoSem, mb, fs, mc

\* HeldAt and WaitsFor, place by place.
LEMMA MailPlaces ==
    ASSUME NEW i, NEW d
    PROVE  /\ HeldAt(i, "read", d) = {mb(i)} /\ HeldAt(i, "hasRead", d) = {mb(i)}
           /\ HeldAt(i, "gotSpace", d) = {fs(d)} /\ HeldAt(i, "gotBox", d) = {fs(d), mb(d)}
           /\ HeldAt(i, "send", d) = {fs(d), mb(d), mc} /\ HeldAt(i, "abort", d) = {mb(d), mc}
           /\ HeldAt(i, "claimed", d) = {mc} /\ HeldAt(i, "full", d) = {mc}
           /\ HeldAt(i, "sent", d) = {mc}
           /\ HeldAt(i, "visit", d) = {} /\ HeldAt(i, "decide", d) = {}
           /\ HeldAt(i, "readYield", d) = {} /\ HeldAt(i, "stall", d) = {}
           /\ HeldAt(i, "finished", d) = {}
           /\ WaitsFor(i, "read", d) = mb(i) /\ WaitsFor(i, "claimed", d) = mc
           /\ WaitsFor(i, "gotSpace", d) = fs(d) /\ WaitsFor(i, "gotBox", d) = mb(d)
           /\ Task = 5 => WaitsFor(i, "send", d) = mb(d)
           /\ Task = 6 => WaitsFor(i, "send", d) = mc
           /\ \A at : at \notin {"read", "claimed", "gotSpace", "gotBox", "send"} =>
                         WaitsFor(i, at, d) = NoSem
<1>1. /\ HeldAt(i, "read", d) = {mb(i)} /\ HeldAt(i, "hasRead", d) = {mb(i)}
      /\ HeldAt(i, "gotSpace", d) = {fs(d)} /\ HeldAt(i, "gotBox", d) = {fs(d), mb(d)}
      /\ HeldAt(i, "send", d) = {fs(d), mb(d), mc} /\ HeldAt(i, "abort", d) = {mb(d), mc}
      /\ HeldAt(i, "claimed", d) = {mc} /\ HeldAt(i, "full", d) = {mc}
      /\ HeldAt(i, "sent", d) = {mc}
  BY DEF HeldAt
<1>2. /\ HeldAt(i, "visit", d) = {} /\ HeldAt(i, "decide", d) = {}
      /\ HeldAt(i, "readYield", d) = {} /\ HeldAt(i, "stall", d) = {}
      /\ HeldAt(i, "finished", d) = {}
  BY DEF HeldAt
<1>3. /\ WaitsFor(i, "read", d) = mb(i) /\ WaitsFor(i, "claimed", d) = mc
      /\ WaitsFor(i, "gotSpace", d) = fs(d) /\ WaitsFor(i, "gotBox", d) = mb(d)
      /\ Task = 5 => WaitsFor(i, "send", d) = mb(d)
      /\ Task = 6 => WaitsFor(i, "send", d) = mc
      /\ \A at : at \notin {"read", "claimed", "gotSpace", "gotBox", "send"} =>
                    WaitsFor(i, at, d) = NoSem
  BY DEF WaitsFor
<1>4. QED
  BY <1>1, <1>2, <1>3

(***************************************************************************)
(* The moves of person i, who then sends to d, from place to place, each   *)
(* with what it does to the variables of the exercise and the semaphores   *)
(***************************************************************************)
MailClaim(i, to, d) ==
    /\ \/ pc[i] \in {"visit", "decide"} /\ to = "read" /\ MsgPtr[i] # 0 /\ d = iSendTo[i]
       \/ Task = 5 /\ pc[i] \in {"visit", "decide"} /\ to = "claimed" /\ d = iSendTo[i]
       \/ /\ Task = 5 /\ pc[i] \in {"claimed", "full"} /\ to = "send" /\ MsgPtr[d] # S
          /\ pc[i] = "claimed" => MsgSentCnt < M
          /\ pc[i] = "full" => d = iSendTo[i]
       \/ /\ Task = 6 /\ pc[i] \in {"visit", "decide"} /\ to = "gotSpace"
          /\ MsgPtr[i] = 0 /\ d # i
       \/ Task = 6 /\ pc[i] = "gotSpace" /\ to = "gotBox" /\ d = iSendTo[i]
       \/ Task = 6 /\ pc[i] = "gotBox" /\ to = "send" /\ d = iSendTo[i]
    /\ Claims(i, WaitsFor(i, to, d))
    /\ UNCHANGED <<MsgPtr, MailBox, MsgSentCnt, done>>

MailGive(i, to, d) ==
    /\ \/ pc[i] \in {"claimed", "full", "sent"} /\ to = "stall" /\ Gives(mc)
       \/ pc[i] = "hasRead" /\ to = "readYield" /\ Gives(mb(i))
       \/ Task = 6 /\ pc[i] = "send" /\ to = "abort" /\ Gives(fs(d))
       \/ pc[i] = "abort" /\ to = "sent" /\ Gives(mb(d))
    /\ d = iSendTo[i]
    /\ UNCHANGED <<MsgPtr, MailBox, MsgSentCnt, done>>

MailQuiet(i, to, d) ==
    /\ \/ pc[i] = "readYield" /\ to = "visit"
       \/ pc[i] = "stall" /\ to \in {"stall", "decide"}
       \/ /\ Task = 5 /\ pc[i] \in {"claimed", "full"} /\ to = "full"
          /\ pc[i] = "claimed" => MsgSentCnt < M
    /\ UNCHANGED <<value, waitsOn, MsgPtr, MailBox, MsgSentCnt, done>>

MailTake(i, to, d) ==
    /\ pc[i] = "read" /\ d = iSendTo[i]
    /\ \/ Task = 5 /\ to = "readYield" /\ Gives(mb(i))
       \/ Task = 6 /\ to = "hasRead" /\ Gives(fs(i))
    /\ MsgPtr' = [MsgPtr EXCEPT ![i] = @ - 1]
    /\ UNCHANGED <<MailBox, MsgSentCnt, done>>

MailPut(i, to, d) ==
    /\ pc[i] = "send" /\ to = "sent" /\ d = iSendTo[i]
    /\ Task = 6 => MsgSentCnt < M
    /\ Gives(mb(d))
    /\ MsgPtr' = [MsgPtr EXCEPT ![d] = @ + 1]
    /\ MsgSentCnt' = MsgSentCnt + 1
    /\ MailBox' = [MailBox EXCEPT ![d] = [@ EXCEPT ![MsgPtr[d] + 1] = MsgSentCnt + 1]]
    /\ UNCHANGED done

MailHome(i, to, d) ==
    /\ pc[i] = "decide" /\ to = "finished" /\ d = iSendTo[i]
    /\ Empty
    /\ done' = [done EXCEPT ![i] = TRUE]
    /\ UNCHANGED <<value, waitsOn, MsgPtr, MailBox, MsgSentCnt>>

MailMove(i, to, d) ==
    /\ waitsOn[i] = NoSem
    /\ d \in Person
    /\ pc' = [pc EXCEPT ![i] = to]
    /\ iSendTo' = [iSendTo EXCEPT ![i] = d]
    /\ \/ MailClaim(i, to, d) \/ MailGive(i, to, d) \/ MailQuiet(i, to, d)
       \/ MailTake(i, to, d) \/ MailPut(i, to, d) \/ MailHome(i, to, d)

\* The kernel lets a waiting person have what he waits for.
MailServed(t) ==
    /\ waitsOn[t] \in MailSem
    /\ value[waitsOn[t]] > 0
    /\ value' = [value EXCEPT ![waitsOn[t]] = @ - 1]
    /\ waitsOn' = [waitsOn EXCEPT ![t] = NoSem]

-----------------------------------------------------------------------------
(***************************************************************************)
(* The kernels of both tasks                                               *)
(***************************************************************************)

\* Which threads have not been forked and which have finished: no change, u is
\* forked, t finishes.
StacksStay ==
    \A x \in Threads :
        /\ kpc'[x] = "new" <=> kpc[x] = "new"
        /\ kpc'[x] = "finish" <=> kpc[x] = "finish"
Starts(u) ==
    \A x \in Threads :
        /\ kpc'[x] = "new" <=> kpc[x] = "new" /\ x # u
        /\ kpc'[x] = "finish" <=> kpc[x] = "finish"
Ends(t) ==
    \A x \in Threads :
        /\ kpc'[x] = "new" <=> kpc[x] = "new"
        /\ kpc'[x] = "finish" <=> kpc[x] = "finish" \/ x = t

KL == INSTANCE KernelProofs WITH
        Thread <- PL!Threads, Main <- PL!MainThread,
        NoThread <- NumPeople + 1, Sem <- PL!Semaphores, NoSem <- NoSem,
        InitialValue <- [s \in PL!Semaphores |-> IF s[1] = "freeSpace" THEN S ELSE 1],
        Device <- {}, UserThread <- {}, TimeSlice <- TimeSlice, MaxValue <- S + 1

\* The kernel of task 5 meets the assumptions of module Kernel.
LEMMA LoopKernel == KL!KernelAssumption
<1>1. IsFiniteSet(PL!Threads)
  <2>1. IsFiniteSet(PL!Person)
    BY FS_Interval, ExerciseAssumption DEF PL!Person
  <2>2. QED
    BY <2>1, FS_AddElement DEF PL!Threads
<1>2. KL!IsFiniteSet(PL!Threads)
  BY <1>1 DEF KL!IsFiniteSet, IsFiniteSet
<1>3. PL!MainThread \in PL!Threads /\ NumPeople + 1 \notin PL!Threads
  BY ExerciseAssumption DEF PL!Threads, PL!Person, PL!MainThread
<1>4. [s \in PL!Semaphores |-> IF s[1] = "freeSpace" THEN S ELSE 1] \in [PL!Semaphores -> Nat]
  <2>1. S \in Nat
    BY ExerciseAssumption
  <2>2. QED
    BY <2>1
<1>5. NoSem \notin PL!Semaphores
  BY DEF NoSem, PL!Semaphores, PL!mailboxSemaphore, PL!freeSpaceSemaphore, PL!MsgCntSemaphore
<1>6. S + 1 \in Nat /\ TimeSlice \in BOOLEAN
  BY ExerciseAssumption
<1>7. QED
  BY <1>2, <1>3, <1>4, <1>5, <1>6 DEF KL!KernelAssumption

\* The calls of the kernel of task 5 are those of module Kernel.
LEMMA LoopCalls ==
    ASSUME NEW t, NEW s
    PROVE  /\ PL!K!P(t, s) => KL!P(t, s)
           /\ PL!K!V(t, s) => KL!V(t, s)
           /\ PL!K!Yield(t) => KL!Yield(t)
           /\ PL!K!Finish(t) => KL!Finish(t)
           /\ PL!K!Fork(t, s) => KL!Fork(t, s)
           /\ PL!K!KernelStep(t) => KL!KernelStep(t)
           /\ KL!KernelInv => PL!K!TypeOK
           /\ PL!K!Init => KL!Init
<1> USE DEF NoSem
<1>1. PL!K!P(t, s) => KL!P(t, s)
  BY DEF PL!K!P, PL!K!PLoop, PL!K!AtBody, KL!P, KL!PLoop, KL!AtBody
<1>2. PL!K!V(t, s) => KL!V(t, s)
  BY DEF PL!K!V, PL!K!VBody, PL!K!AtBody, KL!V, KL!VBody, KL!AtBody
<1>3. PL!K!Yield(t) => KL!Yield(t)
  BY DEF PL!K!Yield, PL!K!YieldToNext, PL!K!Run, PL!K!AtBody,
         KL!Yield, KL!YieldToNext, KL!Run, KL!AtBody
<1>4. (PL!K!Finish(t) => KL!Finish(t)) /\ (PL!K!Fork(t, s) => KL!Fork(t, s))
  BY DEF PL!K!Finish, PL!K!Fork, PL!K!AtBody, KL!Finish, KL!Fork, KL!AtBody
<1>5. PL!K!KernelStep(t) => KL!KernelStep(t)
  BY DEF PL!K!KernelStep, PL!K!Enable, PL!K!AtTick, PL!K!TimerYield, PL!K!YieldToNext,
         PL!K!Run, PL!K!SleepSwitch, PL!K!Sleeping, PL!K!IdleHalt, PL!K!PResume, PL!K!PLoop,
         KL!KernelStep, KL!Enable, KL!AtTick, KL!TimerYield, KL!YieldToNext,
         KL!Run, KL!SleepSwitch, KL!Sleeping, KL!IdleHalt, KL!PResume, KL!PLoop
<1>6. KL!TypeOK => PL!K!TypeOK
  BY DEF PL!K!TypeOK, KL!TypeOK, PL!K!Status, KL!Status, PL!K!Place, KL!Place
<1>7. PL!K!Init => KL!Init
  BY DEF PL!K!Init, KL!Init
<1>8. QED
  BY <1>1, <1>2, <1>3, <1>4, <1>5, <1>6, <1>7 DEF KL!KernelInv, KL!PlaceInv

\* Names of task 5 and of this module.
LEMMA LoopNames ==
    /\ Threads = PL!Threads /\ MainThread = PL!MainThread /\ Person = PL!Person
    /\ Task = 5 => MailSem = PL!Semaphores
    /\ PL!MsgCntSemaphore = mc
    /\ \A i : PL!mailboxSemaphore(i) = mb(i) /\ PL!freeSpaceSemaphore(i) = fs(i)
<1>1. /\ PL!MsgCntSemaphore = mc
      /\ \A i : PL!mailboxSemaphore(i) = mb(i) /\ PL!freeSpaceSemaphore(i) = fs(i)
  BY DEF PL!MsgCntSemaphore, PL!mailboxSemaphore, PL!freeSpaceSemaphore, mc, mb, fs
<1>2. Threads = PL!Threads /\ MainThread = PL!MainThread /\ Person = PL!Person
  BY DEF Threads, PL!Threads, MainThread, PL!MainThread, Person, PL!Person
<1>3. Task = 5 => MailSem = PL!Semaphores
  BY <1>1, <1>2 DEF MailSem, PL!Semaphores
<1>4. QED
  BY <1>1, <1>2, <1>3

\* What the calls of task 5 do to the values, to who waits and to the stacks.
LEMMA LoopEffects ==
    ASSUME KL!KernelInv, Task = 5, NEW t \in Threads, NEW s
    PROVE  /\ MailWaits
           /\ s \in MailSem /\ PL!K!P(t, s) => waitsOn[t] = NoSem /\ Claims(t, s) /\ StacksStay
           /\ s \in MailSem /\ PL!K!V(t, s) => waitsOn[t] = NoSem /\ Gives(s) /\ StacksStay
           /\ PL!K!Yield(t) => waitsOn[t] = NoSem /\ UNCHANGED <<value, waitsOn>> /\ StacksStay
           /\ PL!K!Finish(t) => waitsOn[t] = NoSem /\ UNCHANGED <<value, waitsOn>> /\ Ends(t)
           /\ s \in Threads /\ PL!K!Fork(t, s) =>
                 waitsOn[t] = NoSem /\ UNCHANGED <<value, waitsOn>> /\ Starts(s)
           /\ PL!K!KernelStep(t) =>
                 StacksStay /\ (UNCHANGED <<value, waitsOn>> \/ MailServed(t))
<1>1. Threads = PL!Threads /\ MailSem = PL!Semaphores
  BY LoopNames
<1>2. MailWaits
  BY <1>1, KL!WaitTypes, LoopKernel DEF MailWaits
<1>3. ASSUME s \in MailSem, PL!K!P(t, s)
      PROVE  waitsOn[t] = NoSem /\ Claims(t, s) /\ StacksStay
  <2>1. KL!P(t, s)
    BY <1>3, LoopCalls
  <2>2. waitsOn[t] = NoSem /\ (KL!Promise!Wait(t, s) \/ KL!Promise!Take(t, s))
    BY <1>1, <1>3, <2>1, KL!PCall, LoopKernel
  <2>3. StacksStay
    <3>1. KL!KernelStep(t) \/ KL!Yield(t) \/ \E r \in PL!Semaphores : KL!P(t, r) \/ KL!V(t, r)
      BY <1>1, <1>3, <2>1
    <3>2. QED
      BY <1>1, <3>1, KL!StacksStay, LoopKernel DEF StacksStay
  <2>4. QED
    BY <1>2, <2>2, <2>3 DEF KL!Promise!Wait, KL!Promise!Take, Claims, MailWaits
<1>4. ASSUME s \in MailSem, PL!K!V(t, s)
      PROVE  waitsOn[t] = NoSem /\ Gives(s) /\ StacksStay
  <2>1. KL!V(t, s)
    BY <1>4, LoopCalls
  <2>2. waitsOn[t] = NoSem /\ KL!Promise!Give(s)
    BY <1>1, <1>4, <2>1, KL!VCall, LoopKernel
  <2>3. StacksStay
    BY <1>1, <1>4, <2>1, KL!StacksStay, LoopKernel DEF StacksStay
  <2>4. QED
    BY <2>2, <2>3 DEF KL!Promise!Give, Gives
<1>5. ASSUME PL!K!Yield(t) \/ PL!K!Finish(t) \/ (s \in Threads /\ PL!K!Fork(t, s))
      PROVE  waitsOn[t] = NoSem /\ UNCHANGED <<value, waitsOn>>
  <2>1. KL!Yield(t) \/ KL!Finish(t) \/ \E u \in PL!Threads : KL!Fork(t, u)
    BY <1>1, <1>5, LoopCalls
  <2>2. QED
    BY <1>1, <2>1, KL!QuietCall, LoopKernel
<1>6. PL!K!Yield(t) => StacksStay
  BY <1>1, LoopCalls, KL!StacksStay, LoopKernel DEF StacksStay
<1>7. PL!K!Finish(t) => Ends(t)
  BY <1>1, LoopCalls, KL!StacksMove, LoopKernel DEF Ends
<1>8. s \in Threads /\ PL!K!Fork(t, s) => Starts(s)
  BY <1>1, LoopCalls, KL!StacksMove, LoopKernel DEF Starts
<1>9. ASSUME PL!K!KernelStep(t)
      PROVE  StacksStay /\ (UNCHANGED <<value, waitsOn>> \/ MailServed(t))
  <2>1. KL!KernelStep(t)
    BY <1>9, LoopCalls
  <2>2. \/ UNCHANGED <<value, waitsOn>>
        \/ \E r \in PL!Semaphores : waitsOn[t] = r /\ KL!Promise!Take(t, r)
    BY <1>1, <2>1, KL!QuietStep, LoopKernel
  <2>3. StacksStay
    BY <1>1, <2>1, KL!StacksStay, LoopKernel DEF StacksStay
  <2>4. QED
    BY <1>1, <2>2, <2>3 DEF KL!Promise!Take, MailServed
<1>10. QED
  BY <1>2, <1>3, <1>4, <1>5, <1>6, <1>7, <1>8, <1>9

KP == INSTANCE KernelProofs WITH
        Thread <- PS!Threads, Main <- PS!MainThread,
        NoThread <- NumPeople + 1, Sem <- PS!Semaphores, NoSem <- NoSem,
        InitialValue <- [s \in PS!Semaphores |-> IF s[1] = "freeSpace" THEN S ELSE 1],
        Device <- {}, UserThread <- {}, TimeSlice <- TimeSlice, MaxValue <- S + 1

\* The kernel of task 6 meets the assumptions of module Kernel.
LEMMA SpaceKernel == KP!KernelAssumption
<1>1. IsFiniteSet(PS!Threads)
  <2>1. IsFiniteSet(PS!Person)
    BY FS_Interval, ExerciseAssumption DEF PS!Person
  <2>2. QED
    BY <2>1, FS_AddElement DEF PS!Threads
<1>2. KP!IsFiniteSet(PS!Threads)
  BY <1>1 DEF KP!IsFiniteSet, IsFiniteSet
<1>3. PS!MainThread \in PS!Threads /\ NumPeople + 1 \notin PS!Threads
  BY ExerciseAssumption DEF PS!Threads, PS!Person, PS!MainThread
<1>4. [s \in PS!Semaphores |-> IF s[1] = "freeSpace" THEN S ELSE 1] \in [PS!Semaphores -> Nat]
  <2>1. S \in Nat
    BY ExerciseAssumption
  <2>2. QED
    BY <2>1
<1>5. NoSem \notin PS!Semaphores
  BY DEF NoSem, PS!Semaphores, PS!mailboxSemaphore, PS!freeSpaceSemaphore, PS!MsgCntSemaphore
<1>6. S + 1 \in Nat /\ TimeSlice \in BOOLEAN
  BY ExerciseAssumption
<1>7. QED
  BY <1>2, <1>3, <1>4, <1>5, <1>6 DEF KP!KernelAssumption

\* The calls of the kernel of task 6 are those of module Kernel.
LEMMA SpaceCalls ==
    ASSUME NEW t, NEW s
    PROVE  /\ PS!K!P(t, s) => KP!P(t, s)
           /\ PS!K!V(t, s) => KP!V(t, s)
           /\ PS!K!Yield(t) => KP!Yield(t)
           /\ PS!K!Finish(t) => KP!Finish(t)
           /\ PS!K!Fork(t, s) => KP!Fork(t, s)
           /\ PS!K!KernelStep(t) => KP!KernelStep(t)
           /\ KP!KernelInv => PS!K!TypeOK
           /\ PS!K!Init => KP!Init
<1> USE DEF NoSem
<1>1. PS!K!P(t, s) => KP!P(t, s)
  BY DEF PS!K!P, PS!K!PLoop, PS!K!AtBody, KP!P, KP!PLoop, KP!AtBody
<1>2. PS!K!V(t, s) => KP!V(t, s)
  BY DEF PS!K!V, PS!K!VBody, PS!K!AtBody, KP!V, KP!VBody, KP!AtBody
<1>3. PS!K!Yield(t) => KP!Yield(t)
  BY DEF PS!K!Yield, PS!K!YieldToNext, PS!K!Run, PS!K!AtBody,
         KP!Yield, KP!YieldToNext, KP!Run, KP!AtBody
<1>4. (PS!K!Finish(t) => KP!Finish(t)) /\ (PS!K!Fork(t, s) => KP!Fork(t, s))
  BY DEF PS!K!Finish, PS!K!Fork, PS!K!AtBody, KP!Finish, KP!Fork, KP!AtBody
<1>5. PS!K!KernelStep(t) => KP!KernelStep(t)
  BY DEF PS!K!KernelStep, PS!K!Enable, PS!K!AtTick, PS!K!TimerYield, PS!K!YieldToNext,
         PS!K!Run, PS!K!SleepSwitch, PS!K!Sleeping, PS!K!IdleHalt, PS!K!PResume, PS!K!PLoop,
         KP!KernelStep, KP!Enable, KP!AtTick, KP!TimerYield, KP!YieldToNext,
         KP!Run, KP!SleepSwitch, KP!Sleeping, KP!IdleHalt, KP!PResume, KP!PLoop
<1>6. KP!TypeOK => PS!K!TypeOK
  BY DEF PS!K!TypeOK, KP!TypeOK, PS!K!Status, KP!Status, PS!K!Place, KP!Place
<1>7. PS!K!Init => KP!Init
  BY DEF PS!K!Init, KP!Init
<1>8. QED
  BY <1>1, <1>2, <1>3, <1>4, <1>5, <1>6, <1>7 DEF KP!KernelInv, KP!PlaceInv

\* Names of task 6 and of this module.
LEMMA SpaceNames ==
    /\ Threads = PS!Threads /\ MainThread = PS!MainThread /\ Person = PS!Person
    /\ Task = 6 => MailSem = PS!Semaphores
    /\ PS!MsgCntSemaphore = mc
    /\ \A i : PS!mailboxSemaphore(i) = mb(i) /\ PS!freeSpaceSemaphore(i) = fs(i)
<1>1. /\ PS!MsgCntSemaphore = mc
      /\ \A i : PS!mailboxSemaphore(i) = mb(i) /\ PS!freeSpaceSemaphore(i) = fs(i)
  BY DEF PS!MsgCntSemaphore, PS!mailboxSemaphore, PS!freeSpaceSemaphore, mc, mb, fs
<1>2. Threads = PS!Threads /\ MainThread = PS!MainThread /\ Person = PS!Person
  BY DEF Threads, PS!Threads, MainThread, PS!MainThread, Person, PS!Person
<1>3. Task = 6 => MailSem = PS!Semaphores
  BY <1>1, <1>2 DEF MailSem, PS!Semaphores
<1>4. QED
  BY <1>1, <1>2, <1>3

\* What the calls of task 6 do to the values, to who waits and to the stacks.
LEMMA SpaceEffects ==
    ASSUME KP!KernelInv, Task = 6, NEW t \in Threads, NEW s
    PROVE  /\ MailWaits
           /\ s \in MailSem /\ PS!K!P(t, s) => waitsOn[t] = NoSem /\ Claims(t, s) /\ StacksStay
           /\ s \in MailSem /\ PS!K!V(t, s) => waitsOn[t] = NoSem /\ Gives(s) /\ StacksStay
           /\ PS!K!Yield(t) => waitsOn[t] = NoSem /\ UNCHANGED <<value, waitsOn>> /\ StacksStay
           /\ PS!K!Finish(t) => waitsOn[t] = NoSem /\ UNCHANGED <<value, waitsOn>> /\ Ends(t)
           /\ s \in Threads /\ PS!K!Fork(t, s) =>
                 waitsOn[t] = NoSem /\ UNCHANGED <<value, waitsOn>> /\ Starts(s)
           /\ PS!K!KernelStep(t) =>
                 StacksStay /\ (UNCHANGED <<value, waitsOn>> \/ MailServed(t))
<1>1. Threads = PS!Threads /\ MailSem = PS!Semaphores
  BY SpaceNames
<1>2. MailWaits
  BY <1>1, KP!WaitTypes, SpaceKernel DEF MailWaits
<1>3. ASSUME s \in MailSem, PS!K!P(t, s)
      PROVE  waitsOn[t] = NoSem /\ Claims(t, s) /\ StacksStay
  <2>1. KP!P(t, s)
    BY <1>3, SpaceCalls
  <2>2. waitsOn[t] = NoSem /\ (KP!Promise!Wait(t, s) \/ KP!Promise!Take(t, s))
    BY <1>1, <1>3, <2>1, KP!PCall, SpaceKernel
  <2>3. StacksStay
    <3>1. KP!KernelStep(t) \/ KP!Yield(t) \/ \E r \in PS!Semaphores : KP!P(t, r) \/ KP!V(t, r)
      BY <1>1, <1>3, <2>1
    <3>2. QED
      BY <1>1, <3>1, KP!StacksStay, SpaceKernel DEF StacksStay
  <2>4. QED
    BY <1>2, <2>2, <2>3 DEF KP!Promise!Wait, KP!Promise!Take, Claims, MailWaits
<1>4. ASSUME s \in MailSem, PS!K!V(t, s)
      PROVE  waitsOn[t] = NoSem /\ Gives(s) /\ StacksStay
  <2>1. KP!V(t, s)
    BY <1>4, SpaceCalls
  <2>2. waitsOn[t] = NoSem /\ KP!Promise!Give(s)
    BY <1>1, <1>4, <2>1, KP!VCall, SpaceKernel
  <2>3. StacksStay
    BY <1>1, <1>4, <2>1, KP!StacksStay, SpaceKernel DEF StacksStay
  <2>4. QED
    BY <2>2, <2>3 DEF KP!Promise!Give, Gives
<1>5. ASSUME PS!K!Yield(t) \/ PS!K!Finish(t) \/ (s \in Threads /\ PS!K!Fork(t, s))
      PROVE  waitsOn[t] = NoSem /\ UNCHANGED <<value, waitsOn>>
  <2>1. KP!Yield(t) \/ KP!Finish(t) \/ \E u \in PS!Threads : KP!Fork(t, u)
    BY <1>1, <1>5, SpaceCalls
  <2>2. QED
    BY <1>1, <2>1, KP!QuietCall, SpaceKernel
<1>6. PS!K!Yield(t) => StacksStay
  BY <1>1, SpaceCalls, KP!StacksStay, SpaceKernel DEF StacksStay
<1>7. PS!K!Finish(t) => Ends(t)
  BY <1>1, SpaceCalls, KP!StacksMove, SpaceKernel DEF Ends
<1>8. s \in Threads /\ PS!K!Fork(t, s) => Starts(s)
  BY <1>1, SpaceCalls, KP!StacksMove, SpaceKernel DEF Starts
<1>9. ASSUME PS!K!KernelStep(t)
      PROVE  StacksStay /\ (UNCHANGED <<value, waitsOn>> \/ MailServed(t))
  <2>1. KP!KernelStep(t)
    BY <1>9, SpaceCalls
  <2>2. \/ UNCHANGED <<value, waitsOn>>
        \/ \E r \in PS!Semaphores : waitsOn[t] = r /\ KP!Promise!Take(t, r)
    BY <1>1, <2>1, KP!QuietStep, SpaceKernel
  <2>3. StacksStay
    BY <1>1, <2>1, KP!StacksStay, SpaceKernel DEF StacksStay
  <2>4. QED
    BY <1>1, <2>2, <2>3 DEF KP!Promise!Take, MailServed
<1>10. QED
  BY <1>2, <1>3, <1>4, <1>5, <1>6, <1>7, <1>8, <1>9

\* Every step of a person of task 5 is a move.
LEMMA LoopMoves ==
    ASSUME KL!KernelInv, MailInv, Task = 5, NEW i \in Person, PL!PersonStep(i)
    PROVE  \E to, d : MailMove(i, to, d) /\ (IF to = "finished" THEN Ends(i) ELSE StacksStay)
<1> DEFINE Goal == \E to, d : /\ MailMove(i, to, d)
                              /\ IF to = "finished" THEN Ends(i) ELSE StacksStay
<1>1. i \in Threads /\ iSendTo \in [Person -> Person] /\ iSendTo[i] \in Person
  BY MainIsNobody DEF MailInv, MailTypes
<1>2. iSendTo = [iSendTo EXCEPT ![i] = iSendTo[i]]
  BY <1>1
<1>3. ASSUME NEW s \in MailSem
      PROVE  /\ PL!K!P(i, s) => waitsOn[i] = NoSem /\ Claims(i, s) /\ StacksStay
             /\ PL!K!V(i, s) => waitsOn[i] = NoSem /\ Gives(s) /\ StacksStay
  BY <1>1, LoopEffects
<1>4. /\ PL!K!Yield(i) => waitsOn[i] = NoSem /\ UNCHANGED <<value, waitsOn>> /\ StacksStay
      /\ PL!K!Finish(i) => waitsOn[i] = NoSem /\ UNCHANGED <<value, waitsOn>> /\ Ends(i)
  BY <1>1, LoopEffects
<1>5. ASSUME NEW to, NEW d \in Person, to # "finished", StacksStay, waitsOn[i] = NoSem,
             pc' = [pc EXCEPT ![i] = to], iSendTo' = [iSendTo EXCEPT ![i] = d],
             \/ MailClaim(i, to, d) \/ MailGive(i, to, d) \/ MailQuiet(i, to, d)
             \/ MailTake(i, to, d) \/ MailPut(i, to, d)
      PROVE  Goal
  <2>1. MailMove(i, to, d)
    BY <1>5 DEF MailMove
  <2>2. QED
    BY <1>5, <2>1
<1>6. /\ mc \in MailSem /\ PL!MsgCntSemaphore = mc
      /\ \A j \in Person : mb(j) \in MailSem /\ PL!mailboxSemaphore(j) = mb(j)
  BY MailNames, LoopNames
<1>7. CASE PL!Visit(i) \/ PL!Decide(i)
  <2>1. /\ pc[i] \in {"visit", "decide"} /\ PL!Enter(i) /\ UNCHANGED <<iSendTo, done, PL!mailvars>>
    BY <1>7 DEF PL!Visit, PL!Decide, PL!At
  <2>2. CASE PL!ClaimOwnBox(i)
    <3>1. MsgPtr[i] # 0 /\ PL!K!P(i, mb(i)) /\ pc' = [pc EXCEPT ![i] = "read"]
      BY <1>6, <2>2 DEF PL!ClaimOwnBox, PL!Goto
    <3>2. WaitsFor(i, "read", iSendTo[i]) = mb(i)
      BY MailPlaces
    <3>3. MailClaim(i, "read", iSendTo[i])
      BY <1>3, <1>6, <2>1, <3>1, <3>2 DEF MailClaim, PL!mailvars
    <3>4. QED
      BY <1>1, <1>2, <1>3, <1>5, <1>6, <2>1, <3>1, <3>3
  <2>3. CASE ~PL!ClaimOwnBox(i)
    <3>1. PL!K!P(i, mc) /\ pc' = [pc EXCEPT ![i] = "claimed"]
      BY <1>6, <2>1, <2>3 DEF PL!Enter, PL!Goto
    <3>2. WaitsFor(i, "claimed", iSendTo[i]) = mc
      BY MailPlaces
    <3>3. MailClaim(i, "claimed", iSendTo[i])
      BY <1>3, <1>6, <2>1, <3>1, <3>2 DEF MailClaim, PL!mailvars
    <3>4. QED
      BY <1>1, <1>2, <1>3, <1>5, <1>6, <2>1, <3>1, <3>3
  <2>4. QED
    BY <2>2, <2>3
<1>8. CASE PL!Read(i)
  <2>1. /\ pc[i] = "read" /\ PL!K!V(i, mb(i)) /\ pc' = [pc EXCEPT ![i] = "readYield"]
        /\ MsgPtr' = [MsgPtr EXCEPT ![i] = @ - 1] /\ UNCHANGED <<iSendTo, done, MailBox, MsgSentCnt>>
    BY <1>6, <1>8 DEF PL!Read, PL!At, PL!TakeMessage, PL!ReleaseOwnBox, PL!Goto
  <2>2. MailTake(i, "readYield", iSendTo[i])
    BY <1>3, <1>6, <2>1 DEF MailTake
  <2>3. QED
    BY <1>1, <1>2, <1>3, <1>5, <1>6, <2>1, <2>2
<1>9. ASSUME NEW to \in Person, PL!TestBox(i, to), pc[i] \in {"claimed", "full"},
             pc[i] = "claimed" => MsgSentCnt < M, pc[i] = "full" => to = iSendTo[i],
             iSendTo' = [iSendTo EXCEPT ![i] = to], UNCHANGED <<done, PL!mailvars>>
      PROVE  Goal
  <2>1. CASE MsgPtr[to] = S
    <3>1. PL!K!Yield(i) /\ pc' = [pc EXCEPT ![i] = "full"]
      BY <1>9, <2>1 DEF PL!TestBox, PL!Goto
    <3>2. MailQuiet(i, "full", to)
      BY <1>4, <1>9, <3>1 DEF MailQuiet, PL!mailvars
    <3>3. QED
      BY <1>4, <1>5, <1>9, <3>1, <3>2
  <2>2. CASE MsgPtr[to] # S
    <3>1. PL!K!P(i, mb(to)) /\ pc' = [pc EXCEPT ![i] = "send"]
      BY <1>6, <1>9, <2>2 DEF PL!TestBox, PL!Goto
    <3>2. WaitsFor(i, "send", to) = mb(to)
      BY MailPlaces
    <3>3. MailClaim(i, "send", to)
      BY <1>3, <1>6, <1>9, <2>2, <3>1, <3>2 DEF MailClaim, PL!mailvars
    <3>4. QED
      BY <1>3, <1>5, <1>6, <1>9, <3>1, <3>3
  <2>3. QED
    BY <2>1, <2>2
<1>10. ASSUME PL!K!V(i, mc), pc[i] \in {"claimed", "full", "sent"}, pc' = [pc EXCEPT ![i] = "stall"],
              UNCHANGED <<iSendTo, done, PL!mailvars>>
       PROVE  Goal
  <2>1. MailGive(i, "stall", iSendTo[i])
    BY <1>3, <1>6, <1>10 DEF MailGive, PL!mailvars
  <2>2. QED
    BY <1>1, <1>2, <1>3, <1>5, <1>6, <1>10, <2>1
<1>11. CASE PL!Claimed(i)
  <2>1. pc[i] = "claimed" /\ UNCHANGED <<done, PL!mailvars>>
    BY <1>11 DEF PL!Claimed, PL!At
  <2>2. CASE MsgSentCnt < M
    <3>1. PICK to \in Person : iSendTo' = [iSendTo EXCEPT ![i] = to] /\ PL!TestBox(i, to)
      <4>1. MsgSentCnt \in Nat /\ M \in Nat /\ Person = PL!Person
        BY ExerciseAssumption, LoopNames DEF MailInv, MailTypes
      <4>2. QED
        BY <1>11, <2>2, <4>1 DEF PL!Claimed
    <3>2. QED
      BY <1>9, <2>1, <2>2, <3>1
  <2>3. CASE ~(MsgSentCnt < M)
    <3>1. PL!K!V(i, mc) /\ pc' = [pc EXCEPT ![i] = "stall"] /\ UNCHANGED iSendTo
      BY <1>6, <1>11, <2>3 DEF PL!Claimed, PL!Goto
    <3>2. QED
      BY <1>10, <2>1, <3>1
  <2>4. QED
    BY <2>2, <2>3
<1>12. CASE PL!Full(i)
  <2>1. pc[i] = "full" /\ UNCHANGED <<iSendTo, done, PL!mailvars>>
    BY <1>12 DEF PL!Full, PL!At
  <2>2. CASE PL!TestBox(i, iSendTo[i])
    BY <1>1, <1>2, <1>9, <2>1, <2>2
  <2>3. CASE ~PL!TestBox(i, iSendTo[i])
    <3>1. PL!K!V(i, mc) /\ pc' = [pc EXCEPT ![i] = "stall"]
      BY <1>6, <1>12, <2>3 DEF PL!Full, PL!Goto
    <3>2. QED
      BY <1>10, <2>1, <3>1
  <2>4. QED
    BY <2>2, <2>3
<1>13. CASE PL!Send(i)
  <2> DEFINE d == iSendTo[i]
  <2>1. /\ pc[i] = "send" /\ PL!K!V(i, mb(d)) /\ pc' = [pc EXCEPT ![i] = "sent"]
        /\ PL!PutMessage(d) /\ UNCHANGED <<iSendTo, done>>
    BY <1>1, <1>6, <1>13 DEF PL!Send, PL!At, PL!Goto
  <2>2. /\ MsgPtr' = [MsgPtr EXCEPT ![d] = @ + 1] /\ MsgSentCnt' = MsgSentCnt + 1
        /\ MailBox' = [MailBox EXCEPT ![d] = [@ EXCEPT ![MsgPtr[d] + 1] = MsgSentCnt + 1]]
    <3>1. MsgPtr'[d] = MsgPtr[d] + 1
      BY <1>1, <2>1 DEF PL!PutMessage, MailInv, MailTypes
    <3>2. QED
      BY <2>1, <3>1 DEF PL!PutMessage
  <2>3. MailPut(i, "sent", d)
    BY <1>1, <1>3, <1>6, <2>1, <2>2 DEF MailPut
  <2>4. QED
    BY <1>1, <1>2, <1>3, <1>5, <1>6, <2>1, <2>3
<1>14. CASE PL!Sent(i)
  <2>1. /\ pc[i] = "sent" /\ PL!K!V(i, mc) /\ pc' = [pc EXCEPT ![i] = "stall"]
        /\ UNCHANGED <<iSendTo, done, PL!mailvars>>
    BY <1>6, <1>14 DEF PL!Sent, PL!At, PL!Goto
  <2>2. QED
    BY <1>10, <2>1
<1>15. CASE PL!YieldAfterRead(i)
  <2>1. /\ pc[i] = "readYield" /\ PL!K!Yield(i) /\ pc' = [pc EXCEPT ![i] = "visit"]
        /\ UNCHANGED <<iSendTo, done, PL!mailvars>>
    BY <1>15 DEF PL!YieldAfterRead, PL!At, PL!Goto
  <2>2. MailQuiet(i, "visit", iSendTo[i])
    BY <1>4, <2>1 DEF MailQuiet, PL!mailvars
  <2>3. QED
    BY <1>1, <1>2, <1>4, <1>5, <2>1, <2>2
<1>16. CASE PL!Stall(i)
  <2>1. /\ pc[i] = "stall" /\ PL!K!Yield(i) /\ UNCHANGED <<iSendTo, done, PL!mailvars>>
        /\ pc' = pc \/ pc' = [pc EXCEPT ![i] = "decide"] \/ pc' = [pc EXCEPT ![i] = "stall"]
    BY <1>16 DEF PL!Stall, PL!At, PL!Goto
  <2>2. pc' = [pc EXCEPT ![i] = "decide"] \/ pc' = [pc EXCEPT ![i] = "stall"]
    BY <1>1, <2>1 DEF MailInv, MailTypes
  <2>3. MailQuiet(i, "decide", iSendTo[i]) /\ MailQuiet(i, "stall", iSendTo[i])
    BY <1>4, <2>1 DEF MailQuiet, PL!mailvars
  <2>4. QED
    BY <1>1, <1>2, <1>4, <1>5, <2>1, <2>2, <2>3
<1>17. CASE PL!GoHome(i)
  <2>1. /\ pc[i] = "decide" /\ PL!K!Finish(i) /\ UNCHANGED <<iSendTo, PL!mailvars>>
        /\ done' = [done EXCEPT ![i] = TRUE] /\ pc' = [pc EXCEPT ![i] = "finished"]
        /\ PL!AllDone
    BY <1>17 DEF PL!GoHome, PL!At, PL!Goto
  <2>2. Empty
    BY <2>1, LoopNames DEF PL!AllDone, Empty
  <2>3. MailHome(i, "finished", iSendTo[i])
    BY <1>4, <2>1, <2>2 DEF MailHome, PL!mailvars
  <2>4. MailMove(i, "finished", iSendTo[i]) /\ Ends(i)
    BY <1>1, <1>2, <1>4, <2>1, <2>3 DEF MailMove
  <2>5. QED
    BY <2>4
<1>18. QED
  BY <1>7, <1>8, <1>11, <1>12, <1>13, <1>14, <1>15, <1>16, <1>17 DEF PL!PersonStep

\* Every step of a person of task 6 is a move.
LEMMA SpaceMoves ==
    ASSUME KP!KernelInv, MailInv, Task = 6, NEW i \in Person, PS!PersonStep(i)
    PROVE  \E to, d : MailMove(i, to, d) /\ (IF to = "finished" THEN Ends(i) ELSE StacksStay)
<1> DEFINE Goal == \E to, d : /\ MailMove(i, to, d)
                              /\ IF to = "finished" THEN Ends(i) ELSE StacksStay
<1>1. i \in Threads /\ iSendTo \in [Person -> Person] /\ iSendTo[i] \in Person
  BY MainIsNobody DEF MailInv, MailTypes
<1>2. iSendTo = [iSendTo EXCEPT ![i] = iSendTo[i]]
  BY <1>1
<1>3. ASSUME NEW s \in MailSem
      PROVE  /\ PS!K!P(i, s) => waitsOn[i] = NoSem /\ Claims(i, s) /\ StacksStay
             /\ PS!K!V(i, s) => waitsOn[i] = NoSem /\ Gives(s) /\ StacksStay
  BY <1>1, SpaceEffects
<1>4. /\ PS!K!Yield(i) => waitsOn[i] = NoSem /\ UNCHANGED <<value, waitsOn>> /\ StacksStay
      /\ PS!K!Finish(i) => waitsOn[i] = NoSem /\ UNCHANGED <<value, waitsOn>> /\ Ends(i)
  BY <1>1, SpaceEffects
<1>5. ASSUME NEW to, NEW d \in Person, to # "finished", StacksStay, waitsOn[i] = NoSem,
             pc' = [pc EXCEPT ![i] = to], iSendTo' = [iSendTo EXCEPT ![i] = d],
             \/ MailClaim(i, to, d) \/ MailGive(i, to, d) \/ MailQuiet(i, to, d)
             \/ MailTake(i, to, d) \/ MailPut(i, to, d)
      PROVE  Goal
  <2>1. MailMove(i, to, d)
    BY <1>5 DEF MailMove
  <2>2. QED
    BY <1>5, <2>1
<1>6. /\ mc \in MailSem /\ PS!MsgCntSemaphore = mc
      /\ \A j \in Person : mb(j) \in MailSem /\ PS!mailboxSemaphore(j) = mb(j)
      /\ \A j \in Person : fs(j) \in MailSem /\ PS!freeSpaceSemaphore(j) = fs(j)
  BY MailNames, SpaceNames
<1>7. CASE PS!Visit(i) \/ PS!Decide(i)
  <2>1. /\ pc[i] \in {"visit", "decide"} /\ PS!Enter(i) /\ UNCHANGED <<done, PS!mailvars>>
    BY <1>7 DEF PS!Visit, PS!Decide, PS!At
  <2>2. CASE PS!ClaimOwnBox(i) /\ UNCHANGED iSendTo
    <3>1. MsgPtr[i] # 0 /\ PS!K!P(i, mb(i)) /\ pc' = [pc EXCEPT ![i] = "read"]
      BY <1>6, <2>2 DEF PS!ClaimOwnBox, PS!Goto
    <3>2. WaitsFor(i, "read", iSendTo[i]) = mb(i)
      BY MailPlaces
    <3>3. MailClaim(i, "read", iSendTo[i])
      BY <1>3, <1>6, <2>1, <3>1, <3>2 DEF MailClaim, PS!mailvars
    <3>4. QED
      BY <1>1, <1>2, <1>3, <1>5, <1>6, <2>1, <2>2, <3>1, <3>3
  <2>3. CASE ~(PS!ClaimOwnBox(i) /\ UNCHANGED iSendTo)
    <3>1. PICK d \in Person : /\ d # i /\ iSendTo' = [iSendTo EXCEPT ![i] = d]
                              /\ PS!K!P(i, fs(d)) /\ MsgPtr[i] = 0
                              /\ pc' = [pc EXCEPT ![i] = "gotSpace"]
      BY <1>6, <2>1, <2>3, SpaceNames DEF PS!Enter, PS!Goto
    <3>2. WaitsFor(i, "gotSpace", d) = fs(d)
      BY MailPlaces
    <3>3. MailClaim(i, "gotSpace", d)
      BY <1>3, <1>6, <2>1, <3>1, <3>2 DEF MailClaim, PS!mailvars
    <3>4. QED
      BY <1>3, <1>5, <1>6, <3>1, <3>3
  <2>4. QED
    BY <2>2, <2>3
<1>8. CASE PS!Read(i)
  <2>1. /\ pc[i] = "read" /\ PS!K!V(i, fs(i)) /\ pc' = [pc EXCEPT ![i] = "hasRead"]
        /\ MsgPtr' = [MsgPtr EXCEPT ![i] = @ - 1] /\ UNCHANGED <<iSendTo, done, MailBox, MsgSentCnt>>
    BY <1>6, <1>8 DEF PS!Read, PS!At, PS!TakeMessage, PS!Goto
  <2>2. MailTake(i, "hasRead", iSendTo[i])
    BY <1>3, <1>6, <2>1 DEF MailTake
  <2>3. QED
    BY <1>1, <1>2, <1>3, <1>5, <1>6, <2>1, <2>2
<1>9. CASE PS!HasRead(i)
  <2>1. /\ pc[i] = "hasRead" /\ PS!K!V(i, mb(i)) /\ pc' = [pc EXCEPT ![i] = "readYield"]
        /\ UNCHANGED <<iSendTo, done, PS!mailvars>>
    BY <1>6, <1>9 DEF PS!HasRead, PS!At, PS!ReleaseOwnBox, PS!Goto
  <2>2. MailGive(i, "readYield", iSendTo[i])
    BY <1>3, <1>6, <2>1 DEF MailGive, PS!mailvars
  <2>3. QED
    BY <1>1, <1>2, <1>3, <1>5, <1>6, <2>1, <2>2
<1>10. CASE PS!ClaimBox(i)
  <2>1. UNCHANGED <<iSendTo, done, PS!mailvars>>
    BY <1>10 DEF PS!ClaimBox
  <2>2. CASE pc[i] = "gotSpace"
    <3>1. PS!K!P(i, mb(iSendTo[i])) /\ pc' = [pc EXCEPT ![i] = "gotBox"]
      BY <1>1, <1>6, <1>10, <2>2 DEF PS!ClaimBox, PS!At, PS!Goto
    <3>2. WaitsFor(i, "gotBox", iSendTo[i]) = mb(iSendTo[i])
      BY MailPlaces
    <3>3. MailClaim(i, "gotBox", iSendTo[i])
      BY <1>1, <1>3, <1>6, <2>1, <2>2, <3>1, <3>2 DEF MailClaim, PS!mailvars
    <3>4. QED
      BY <1>1, <1>2, <1>3, <1>5, <1>6, <2>1, <3>1, <3>3
  <2>3. CASE pc[i] # "gotSpace"
    <3>1. pc[i] = "gotBox" /\ PS!K!P(i, mc) /\ pc' = [pc EXCEPT ![i] = "send"]
      BY <1>1, <1>6, <1>10, <2>3 DEF PS!ClaimBox, PS!At, PS!Goto
    <3>2. WaitsFor(i, "send", iSendTo[i]) = mc
      BY MailPlaces
    <3>3. MailClaim(i, "send", iSendTo[i])
      BY <1>1, <1>3, <1>6, <2>1, <3>1, <3>2 DEF MailClaim, PS!mailvars
    <3>4. QED
      BY <1>1, <1>2, <1>3, <1>5, <1>6, <2>1, <3>1, <3>3
  <2>4. QED
    BY <2>2, <2>3
<1>11. CASE PS!Release(i)
  <2>1. UNCHANGED <<iSendTo, done, PS!mailvars>>
    BY <1>11 DEF PS!Release
  <2>2. CASE pc[i] = "abort"
    <3>1. PS!K!V(i, mb(iSendTo[i])) /\ pc' = [pc EXCEPT ![i] = "sent"]
      BY <1>1, <1>6, <1>11, <2>2 DEF PS!Release, PS!At, PS!Goto
    <3>2. MailGive(i, "sent", iSendTo[i])
      BY <1>1, <1>3, <1>6, <2>1, <2>2, <3>1 DEF MailGive, PS!mailvars
    <3>3. QED
      BY <1>1, <1>2, <1>3, <1>5, <1>6, <2>1, <3>1, <3>2
  <2>3. CASE pc[i] # "abort"
    <3>1. pc[i] = "sent" /\ PS!K!V(i, mc) /\ pc' = [pc EXCEPT ![i] = "stall"]
      BY <1>1, <1>6, <1>11, <2>3 DEF PS!Release, PS!At, PS!Goto
    <3>2. MailGive(i, "stall", iSendTo[i])
      BY <1>3, <1>6, <2>1, <3>1 DEF MailGive, PS!mailvars
    <3>3. QED
      BY <1>1, <1>2, <1>3, <1>5, <1>6, <2>1, <3>1, <3>2
  <2>4. QED
    BY <2>2, <2>3
<1>12. CASE PS!Send(i) /\ MsgSentCnt >= M
  <2>1. /\ pc[i] = "send" /\ PS!K!V(i, fs(iSendTo[i])) /\ pc' = [pc EXCEPT ![i] = "abort"]
        /\ UNCHANGED <<iSendTo, done, PS!mailvars>>
    <3>1. ~(MsgSentCnt < M)
      BY <1>12, ExerciseAssumption DEF MailInv, MailTypes
    <3>2. QED
      BY <1>1, <1>6, <1>12, <3>1 DEF PS!Send, PS!At, PS!Goto
  <2>2. MailGive(i, "abort", iSendTo[i])
    BY <1>1, <1>3, <1>6, <2>1 DEF MailGive, PS!mailvars
  <2>3. QED
    BY <1>1, <1>2, <1>3, <1>5, <1>6, <2>1, <2>2
<1>13. CASE PS!Send(i) /\ ~(MsgSentCnt >= M)
  <2> DEFINE d == iSendTo[i]
  <2>1. /\ pc[i] = "send" /\ PS!K!V(i, mb(d)) /\ pc' = [pc EXCEPT ![i] = "sent"]
        /\ PS!PutMessage(d) /\ UNCHANGED <<iSendTo, done>> /\ MsgSentCnt < M
    BY <1>1, <1>6, <1>13 DEF PS!Send, PS!At, PS!Goto
  <2>2. /\ MsgPtr' = [MsgPtr EXCEPT ![d] = @ + 1] /\ MsgSentCnt' = MsgSentCnt + 1
        /\ MailBox' = [MailBox EXCEPT ![d] = [@ EXCEPT ![MsgPtr[d] + 1] = MsgSentCnt + 1]]
    <3>1. MsgPtr'[d] = MsgPtr[d] + 1
      BY <1>1, <2>1 DEF PS!PutMessage, MailInv, MailTypes
    <3>2. QED
      BY <2>1, <3>1 DEF PS!PutMessage
  <2>3. MailPut(i, "sent", d)
    BY <1>1, <1>3, <1>6, <2>1, <2>2 DEF MailPut
  <2>4. QED
    BY <1>1, <1>2, <1>3, <1>5, <1>6, <2>1, <2>3
<1>14. CASE PS!YieldAfterRead(i)
  <2>1. /\ pc[i] = "readYield" /\ PS!K!Yield(i) /\ pc' = [pc EXCEPT ![i] = "visit"]
        /\ UNCHANGED <<iSendTo, done, PS!mailvars>>
    BY <1>14 DEF PS!YieldAfterRead, PS!At, PS!Goto
  <2>2. MailQuiet(i, "visit", iSendTo[i])
    BY <1>4, <2>1 DEF MailQuiet, PS!mailvars
  <2>3. QED
    BY <1>1, <1>2, <1>4, <1>5, <2>1, <2>2
<1>15. CASE PS!Stall(i)
  <2>1. /\ pc[i] = "stall" /\ PS!K!Yield(i) /\ UNCHANGED <<iSendTo, done, PS!mailvars>>
        /\ pc' = pc \/ pc' = [pc EXCEPT ![i] = "decide"] \/ pc' = [pc EXCEPT ![i] = "stall"]
    BY <1>15 DEF PS!Stall, PS!At, PS!Goto
  <2>2. pc' = [pc EXCEPT ![i] = "decide"] \/ pc' = [pc EXCEPT ![i] = "stall"]
    BY <1>1, <2>1 DEF MailInv, MailTypes
  <2>3. MailQuiet(i, "decide", iSendTo[i]) /\ MailQuiet(i, "stall", iSendTo[i])
    BY <1>4, <2>1 DEF MailQuiet, PS!mailvars
  <2>4. QED
    BY <1>1, <1>2, <1>4, <1>5, <2>1, <2>2, <2>3
<1>16. CASE PS!GoHome(i)
  <2>1. /\ pc[i] = "decide" /\ PS!K!Finish(i) /\ UNCHANGED <<iSendTo, PS!mailvars>>
        /\ done' = [done EXCEPT ![i] = TRUE] /\ pc' = [pc EXCEPT ![i] = "finished"]
        /\ PS!AllDone
    BY <1>16 DEF PS!GoHome, PS!At, PS!Goto
  <2>2. Empty
    BY <2>1, SpaceNames DEF PS!AllDone, Empty
  <2>3. MailHome(i, "finished", iSendTo[i])
    BY <1>4, <2>1, <2>2 DEF MailHome, PS!mailvars
  <2>4. MailMove(i, "finished", iSendTo[i]) /\ Ends(i)
    BY <1>1, <1>2, <1>4, <2>1, <2>3 DEF MailMove
  <2>5. QED
    BY <2>4
<1>17. QED
  BY <1>7, <1>8, <1>9, <1>10, <1>11, <1>12, <1>13, <1>14, <1>15, <1>16 DEF PS!PersonStep
=============================================================================
