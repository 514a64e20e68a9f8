----------------------------- MODULE ThreadTest -----------------------------
(***************************************************************************)
(* ThreadTest (code/threads/threadtest.cc): the main thread of Nachos runs *)
(* the exercise that Task selects (the argument of the switch -A):         *)
(*   1  type of an input, 2  shouting       (Shouting)                     *)
(*   3  dining philosophers, busy waiting   (DinPhilBusyWait)              *)
(*   4  dining philosophers, semaphores     (DinPhilSemaphore)             *)
(*   5  post office, waiting loop           (PostOfficeLoop)               *)
(*   6  post office, semaphores             (PostOfficeSemaphore)          *)
(* A variable of an exercise that was not selected stays Unset.            *)
(***************************************************************************)
EXTENDS Exercise

CONSTANTS Tasks,     \* the tasks the user may select
          Chars, MaxInput, MaxInt  \* see Shouting

ASSUME ThreadTestAssumption ==
    /\ Tasks # {} /\ Tasks \subseteq 1..6
    /\ MaxInput \in Nat \ {0} /\ MaxInt \in Nat \ {0}

VARIABLES
    Task,
    \* input types and shouting
    str, TYPE, T, NumShout, shouts,
    \* the philosophers
    MealLeft, NumPhilNotIn,
    CheckCnt, chopstick, PhilosopherLeaveRdy,
    PhilState, NumRdyLeave, NumGrantLeave, LeaveGrant,
    \* the post offices
    iSendTo, MsgPtr, MailBox, MsgSentCnt,
    sentCount, deadlock,
    \* tasks 4 to 6
    done

hvars == <<str, TYPE, T, NumShout, shouts>>
bvars == <<CheckCnt, chopstick, PhilosopherLeaveRdy>>
svars == <<PhilState, NumRdyLeave, NumGrantLeave, LeaveGrant>>
dvars == <<MealLeft, NumPhilNotIn>>
mvars == <<iSendTo, MsgPtr, MailBox, MsgSentCnt>>
lvars == <<sentCount, deadlock>>

vars == <<Task, kvars, pc, cnt, hvars, dvars, bvars, svars, mvars, lvars, done>>

SH == INSTANCE Shouting
DB == INSTANCE DinPhilBusyWait
DS == INSTANCE DinPhilSemaphore
PL == INSTANCE PostOfficeLoop WITH FreeSpaceUsed <- FALSE
PS == INSTANCE PostOfficeSemaphore WITH FreeSpaceUsed <- TRUE

Unset == << >>

NoShouting == str = Unset /\ TYPE = Unset /\ T = Unset /\ NumShout = Unset /\ shouts = Unset
NoPhilosophers == MealLeft = Unset /\ NumPhilNotIn = Unset
NoBusyWait == CheckCnt = Unset /\ chopstick = Unset /\ PhilosopherLeaveRdy = Unset
NoSemaphores == /\ PhilState = Unset /\ NumRdyLeave = Unset
                /\ NumGrantLeave = Unset /\ LeaveGrant = Unset
NoMail == iSendTo = Unset /\ MsgPtr = Unset /\ MailBox = Unset /\ MsgSentCnt = Unset
NoLoop == sentCount = Unset /\ deadlock = Unset

\* The switch of ThreadTest
Init ==
    /\ Task \in Tasks
    /\ \/ /\ Task \in {1, 2} /\ SH!Init
          /\ NoPhilosophers /\ NoBusyWait /\ NoSemaphores /\ NoMail /\ NoLoop /\ done = Unset
       \/ /\ Task = 3 /\ DB!Init
          /\ NoShouting /\ NoSemaphores /\ NoMail /\ NoLoop /\ done = Unset
       \/ /\ Task = 4 /\ DS!Init
          /\ NoShouting /\ NoBusyWait /\ NoMail /\ NoLoop
       \/ /\ Task = 5 /\ PL!Init
          /\ NoShouting /\ NoPhilosophers /\ NoBusyWait /\ NoSemaphores
       \/ /\ Task = 6 /\ PS!Init
          /\ NoShouting /\ NoPhilosophers /\ NoBusyWait /\ NoSemaphores /\ NoLoop

ShoutStep ==
    /\ Task \in {1, 2} /\ SH!Next
    /\ UNCHANGED <<Task, dvars, bvars, svars, mvars, lvars, done>>

BusyWaitStep ==
    /\ Task = 3 /\ DB!Next
    /\ UNCHANGED <<Task, hvars, svars, mvars, lvars, done>>

SemaphoreStep ==
    /\ Task = 4 /\ DS!Next
    /\ UNCHANGED <<Task, hvars, bvars, mvars, lvars>>

MailLoopStep ==
    /\ Task = 5 /\ PL!Next
    /\ UNCHANGED <<Task, hvars, dvars, bvars, svars>>

MailSemaphoreStep ==
    /\ Task = 6 /\ PS!Next
    /\ UNCHANGED <<Task, hvars, dvars, bvars, svars, lvars>>

Next == ShoutStep \/ BusyWaitStep \/ SemaphoreStep \/ MailLoopStep \/ MailSemaphoreStep

Spec == Init /\ [][Next]_vars

\* The running thread always gets to its next kernel call.
FairSpec == Spec /\ WF_vars(Next)

-----------------------------------------------------------------------------
(***************************************************************************)
(* Properties                                                              *)
(***************************************************************************)

\* The types of the variables of the task; its counters stay within bounds:
\* no meal is eaten and no message sent that is not there, no mailbox holds
\* more than S messages.
TypeOK ==
    /\ Task = 3 => DB!TypeOK
    /\ Task = 4 => DS!TypeOK
    /\ Task = 5 => PL!PTypeOK
    /\ Task = 6 => PS!PTypeOK

\* A chopstick is off the table exactly when one philosopher has it: no stick
\* is taken twice, dropped twice or left behind when an attempt is aborted
\* (DinPhilBusyWait, whose chopstick[] no semaphore protects).
SticksConserved == Task = 3 => DB!SticksConserved

\* At most one philosopher is between the P and the V of EnterMutex, of
\* MealLeftMutex and of LeaveMutex, also while he hands out the grants
\* (DinPhilSemaphore, Eat, LeaveRoom).
MutexRegions == Task = 4 => DS!MutexRegions

\* freeSpaceSemaphore[j] counts the free slots of mailbox j: every slot is
\* free, taken, or promised to a sender (P and V of the semaphore against
\* MsgPtr[j], which change at different times and in different threads).
FreeSpaceCounts == Task = 6 => PS!FreeSpaceCounts

AllFinished == \A i \in Person : pc[i] = "finished"

\* The machine stops only when all meals are eaten and all philosophers have
\* left: "forcefully wake up its left neighbor to check the state to avoid
\* deadlock" (PutSticks), and aborting at a chopstick (ReachChopStick).
AllLeave == halted /\ Task \in {3, 4} => MealLeft = 0 /\ AllFinished

\* The machine stops only when everybody has left the post office; nobody is
\* asleep on a semaphore then (PostOfficeLoop for any number of people,
\* PostOfficeSemaphore for two: three can wait in a circle for room in the
\* full mailbox of the next one, who reads only before he waits).
NobodyLeftBehind ==
    halted /\ (Task = 5 \/ (Task = 6 /\ NumPeople = 2)) => AllFinished

\* The type that CheckInputOnly prints is that of the string: "if the str has
\* only number with only a signle point, it is a decimal otherwise it is a
\* character", an int if it is spelled as an int (CheckType).
InputTypeIsRight == Task = 1 => SH!InputTypeIsRight

\* The dinner with semaphores and both post offices come to an end, and so do
\* the shouters, each of whom has shouted as often as asked for.
EveryoneFinishes ==
    <>(CASE Task = 2 -> T > 0 /\ \A i \in 0..(T - 1) :
                                    pc[i] = "finished" /\ shouts[i] = NumShout
         [] Task \in 4..6 -> AllFinished
         [] OTHER -> TRUE)

\* Where the promise of Dinner sees philosopher i.
Place(i) ==
    CASE Task = 3 -> DB!Place(i)
      [] Task = 4 -> DS!Place(i)
      [] OTHER    -> "outside"

SeenPlace == [i \in Person |-> Place(i)]
SeenMeals == IF Task \in {3, 4} THEN MealLeft ELSE M

D == INSTANCE Dinner WITH place <- SeenPlace, meals <- SeenMeals

\* Both solutions keep the promise of Dinner: nobody eats before all sit, nor
\* beside a neighbour who eats, a meal is taken once per pair of chopsticks
\* and never after the last, and all leave together with no meal left.
ImplementsDinner == D!Spec

\* What the owner of mailbox i can still read.
Box(i) == IF Task \in {5, 6} THEN SubSeq(MailBox[i], 1, MsgPtr[i]) ELSE << >>

SeenBox  == [i \in Person |-> Box(i)]
SeenSent == IF Task \in {5, 6} THEN MsgSentCnt ELSE 0
SeenHome == IF Task \in {5, 6} THEN {i \in Person : done[i]} ELSE {}

Post == INSTANCE Mail WITH box <- SeenBox, sent <- SeenSent, home <- SeenHome

\* Both post offices keep the promise of Mail: no message is overwritten,
\* lost or read twice, no mailbox overflows, and a person who sees that all
\* is sent and read goes home for good, whoever interleaves between the
\* tests and updates of MsgPtr, MailBox and MsgSentCnt.
ImplementsMail == Post!Spec
=============================================================================
