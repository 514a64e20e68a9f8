----------------------------- MODULE PostOffice -----------------------------
(***************************************************************************)
(* What tasks 5 and 6 of ThreadTest share (code/threads/threadtest.cc):    *)
(* the people, their mailboxes and semaphores, reading, and going home.    *)
(* PostOfficeLoop and PostOfficeSemaphore add how a message is sent.       *)
(*                                                                         *)
(* A step of a person is the code from one kernel call to the next, with   *)
(* the call that ends it; the kernel (module Kernel) decides who runs.     *)
(* The text of a message is abstracted to its number among those sent.     *)
(***************************************************************************)
EXTENDS Exercise

CONSTANT FreeSpaceUsed  \* TRUE in task 6, which has the freeSpaceSemaphores

mailboxSemaphore(i)   == <<"mailbox", i>>
freeSpaceSemaphore(i) == <<"freeSpace", i>>
MsgCntSemaphore       == <<"MsgCnt", 0>>

Semaphores ==
    {MsgCntSemaphore} \cup {mailboxSemaphore(i) : i \in Person}
        \cup (IF FreeSpaceUsed THEN {freeSpaceSemaphore(i) : i \in Person}
                               ELSE {})

VARIABLES
    iSendTo,    \* the recipient a person has chosen
    MsgPtr,     \* number of messages in each mailbox
    MailBox,    \* its slots; MailBox[i][k] for k > MsgPtr[i] is stale
    MsgSentCnt,
    done

mailvars == <<MsgPtr, MailBox, MsgSentCnt>>

K == INSTANCE Kernel WITH
        Thread <- Threads, Main <- MainThread, NoThread <- NumPeople + 1,
        Sem <- Semaphores, NoSem <- <<"none", 0>>,
        InitialValue <- [s \in Semaphores |-> IF s[1] = "freeSpace" THEN S ELSE 1],
        Device <- {}, UserThread <- {}, TimeSlice <- TimeSlice,
        MaxValue <- S + 1

PInit ==
    /\ K!Init
    /\ ExerciseInit("visit")
    /\ iSendTo = [i \in Person |-> i]
    /\ MsgPtr = [i \in Person |-> 0]
    /\ MailBox = [i \in Person |-> [k \in 1..S |-> 0]]
    /\ MsgSentCnt = 0
    /\ done = [i \in Person |-> FALSE]

-----------------------------------------------------------------------------
At(t, from) == pc[t] = from
Goto(t, to) == pc' = [pc EXCEPT ![t] = to]

\* ThreadTest: the main thread forks the people and finishes.
ForkPeople ==
    /\ At(MainThread, "fork")
    /\ \/ /\ cnt[MainThread] < NumPeople
          /\ K!Fork(MainThread, cnt[MainThread])
          /\ cnt' = [cnt EXCEPT ![MainThread] = @ + 1]
          /\ UNCHANGED pc
       \/ /\ cnt[MainThread] = NumPeople
          /\ K!Finish(MainThread)
          /\ Goto(MainThread, "finished")
          /\ UNCHANGED cnt
    /\ UNCHANGED <<iSendTo, done, mailvars>>

\* Two to five Yields outside the post office.
Stall(i) ==
    /\ At(i, "stall")
    /\ K!Yield(i)
    /\ IF cnt[i] = 0
       THEN \E cycleStall \in StallCycles :
                cnt' = [cnt EXCEPT ![i] = cycleStall - 1] /\ UNCHANGED pc
       ELSE /\ cnt' = [cnt EXCEPT ![i] = @ - 1]
            /\ Goto(i, IF cnt[i] = 1 THEN "decide" ELSE "stall")
    /\ UNCHANGED <<iSendTo, done, mailvars>>

\* The loop that empties one's own mailbox, last message first.
ClaimOwnBox(i) ==
    /\ MsgPtr[i] # 0
    /\ K!P(i, mailboxSemaphore(i))
    /\ Goto(i, "read")

TakeMessage(i) ==
    /\ MsgPtr' = [MsgPtr EXCEPT ![i] = @ - 1]
    /\ UNCHANGED <<MailBox, MsgSentCnt>>

ReleaseOwnBox(i) ==
    /\ K!V(i, mailboxSemaphore(i))
    /\ Goto(i, "readYield")

YieldAfterRead(i) ==
    /\ At(i, "readYield")
    /\ K!Yield(i)
    /\ Goto(i, "visit")
    /\ UNCHANGED <<cnt, iSendTo, done, mailvars>>

\* MUTANT of PutMessage: MsgPtr is incremented after it was used.
PutMessageOverwrites(to) ==
    /\ MsgPtr' = [MsgPtr EXCEPT ![to] = @ + 1]
    /\ MsgSentCnt' = MsgSentCnt + 1
    /\ MailBox' = [MailBox EXCEPT ![to] =
                      [k \in 1..S |-> IF k = MsgPtr[to] THEN MsgSentCnt' ELSE @[k]]]

\* The message goes to the first free slot of the recipient.
PutMessage(to) ==
    /\ MsgPtr' = [MsgPtr EXCEPT ![to] = @ + 1]
    /\ MsgSentCnt' = MsgSentCnt + 1
    /\ MailBox' = [MailBox EXCEPT ![to] = [@ EXCEPT ![MsgPtr'[to]] = MsgSentCnt']]

\* Everything was sent, and every mailbox is empty.
AllDone == MsgSentCnt = M /\ \A j \in Person : MsgPtr[j] = 0

GoHome(i) ==
    /\ At(i, "decide")
    /\ AllDone
    /\ done' = [done EXCEPT ![i] = TRUE]
    /\ K!Finish(i)
    /\ Goto(i, "finished")
    /\ UNCHANGED <<cnt, iSendTo, mailvars>>

-----------------------------------------------------------------------------
(***************************************************************************)
(* Properties                                                              *)
(***************************************************************************)

\* The types of the variables; no mailbox holds more than S messages and no
\* more than M are sent.
PTypeOK ==
    /\ K!TypeOK
    /\ MsgPtr \in [Person -> 0..S]
    /\ MsgSentCnt \in 0..M
    /\ iSendTo \in [Person -> Person]
=============================================================================
