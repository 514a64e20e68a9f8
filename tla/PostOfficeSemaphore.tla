------------------------ MODULE PostOfficeSemaphore ------------------------
(***************************************************************************)
(* Task 6 of ThreadTest: the post office in which a semaphore counts the   *)
(* free slots of each mailbox (code/threads/threadtest.cc,                 *)
(* PostOfficeSemaphore).                                                   *)
(***************************************************************************)
EXTENDS PostOffice

vars == <<kvars, pc, cnt, iSendTo, done, mailvars>>

\* A turn of the main loop, up to its first kernel call: read if there is
\* mail, else choose a recipient and wait for a free slot.
Enter(i) ==
    \/ ClaimOwnBox(i) /\ UNCHANGED iSendTo
    \/ /\ MsgPtr[i] = 0
       /\ \E to \in Person \ {i} :
              /\ iSendTo' = [iSendTo EXCEPT ![i] = to]
              /\ K!P(i, freeSpaceSemaphore(to))
       /\ Goto(i, "gotSpace")

Visit(i) ==
    /\ At(i, "visit")
    /\ Enter(i)
    /\ UNCHANGED <<cnt, done, mailvars>>

Decide(i) ==
    /\ At(i, "decide")
    /\ ~AllDone
    /\ Enter(i)
    /\ UNCHANGED <<cnt, done, mailvars>>

Read(i) ==
    /\ At(i, "read")
    /\ TakeMessage(i)
    /\ K!V(i, freeSpaceSemaphore(i))
    /\ Goto(i, "hasRead")
    /\ UNCHANGED <<cnt, iSendTo, done>>

HasRead(i) ==
    /\ At(i, "hasRead")
    /\ ReleaseOwnBox(i)
    /\ UNCHANGED <<cnt, iSendTo, done, mailvars>>

ClaimBox(i) ==
    /\ \/ At(i, "gotSpace") /\ K!P(i, mailboxSemaphore(iSendTo[i])) /\ Goto(i, "gotBox")
       \/ At(i, "gotBox") /\ K!P(i, MsgCntSemaphore) /\ Goto(i, "send")
    /\ UNCHANGED <<cnt, iSendTo, done, mailvars>>

\* MUTANT of Send: an aborted sender keeps the slot it had claimed.
SendKeepsSlot(i) ==
    /\ At(i, "send")
    /\ \/ MsgSentCnt < M /\ PutMessage(iSendTo[i])
       \/ MsgSentCnt >= M /\ UNCHANGED mailvars
    /\ K!V(i, mailboxSemaphore(iSendTo[i]))
    /\ Goto(i, "sent")
    /\ UNCHANGED <<cnt, iSendTo, done>>

\* Send, or give the slot back when all messages have been sent.
Send(i) ==
    /\ At(i, "send")
    /\ \/ /\ MsgSentCnt < M
          /\ PutMessage(iSendTo[i])
          /\ K!V(i, mailboxSemaphore(iSendTo[i]))
          /\ Goto(i, "sent")
       \/ /\ MsgSentCnt >= M
          /\ K!V(i, freeSpaceSemaphore(iSendTo[i]))
          /\ Goto(i, "abort")
          /\ UNCHANGED mailvars
    /\ UNCHANGED <<cnt, iSendTo, done>>

Release(i) ==
    /\ \/ At(i, "abort") /\ K!V(i, mailboxSemaphore(iSendTo[i])) /\ Goto(i, "sent")
       \/ At(i, "sent") /\ K!V(i, MsgCntSemaphore) /\ Goto(i, "stall")
    /\ UNCHANGED <<cnt, iSendTo, done, mailvars>>

PersonStep(i) ==
    \/ Visit(i) \/ Decide(i) \/ Read(i) \/ HasRead(i) \/ YieldAfterRead(i)
    \/ ClaimBox(i) \/ Send(i) \/ Release(i) \/ Stall(i) \/ GoHome(i)

Terminated == halted /\ UNCHANGED vars

Init == PInit

Next ==
    \/ ForkPeople
    \/ \E i \in Person : PersonStep(i)
    \/ \E t \in Threads :
           K!KernelStep(t) /\ UNCHANGED <<pc, cnt, iSendTo, done, mailvars>>
    \/ Terminated

Spec == Init /\ [][Next]_vars

-----------------------------------------------------------------------------
\* The people who have a unit of freeSpaceSemaphore[j] in hand.
Holding(j) ==
    {i \in Person : /\ pc[i] \in {"gotSpace", "gotBox", "send"}
                    /\ iSendTo[i] = j
                    /\ waitsOn[i] # freeSpaceSemaphore(j)}

\* freeSpaceSemaphore[j] counts the free slots of mailbox j: every slot is
\* free, taken, or promised to a sender (P and V of the semaphore against
\* MsgPtr[j], which change at different times and in different threads).
FreeSpaceCounts ==
    \A j \in Person :
        value[freeSpaceSemaphore(j)] + MsgPtr[j] + Cardinality(Holding(j)) = S
=============================================================================
