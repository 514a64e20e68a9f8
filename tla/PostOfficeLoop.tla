--------------------------- MODULE PostOfficeLoop ---------------------------
(***************************************************************************)
(* Task 5 of ThreadTest: the post office in which a sender waits in a loop *)
(* for a free slot and gives up after three turns                          *)
(* (code/threads/threadtest.cc, PostOfficeLoop).  A sender holds           *)
(* MsgCntSemaphore from the choice of the recipient to the end.            *)
(***************************************************************************)
EXTENDS PostOffice

VARIABLES sentCount,  \* failed turns, reset only when an attempt is aborted
          deadlock    \* the third turn failed

lvars == <<sentCount, deadlock>>
vars == <<kvars, pc, cnt, iSendTo, done, mailvars, lvars>>

\* A turn of the main loop, up to its first kernel call: read if there is
\* mail, else claim the message counter.
Enter(i) ==
    \/ ClaimOwnBox(i)
    \/ /\ MsgPtr[i] = 0
       /\ K!P(i, MsgCntSemaphore)
       /\ Goto(i, "claimed")

Visit(i) ==
    /\ At(i, "visit")
    /\ Enter(i)
    /\ UNCHANGED <<cnt, iSendTo, done, mailvars, lvars>>

Decide(i) ==
    /\ At(i, "decide")
    /\ ~AllDone
    /\ Enter(i)
    /\ UNCHANGED <<cnt, iSendTo, done, mailvars, lvars>>

Read(i) ==
    /\ At(i, "read")
    /\ TakeMessage(i)
    /\ ReleaseOwnBox(i)
    /\ UNCHANGED <<cnt, iSendTo, done, lvars>>

\* The test of the waiting loop: wait one turn, or go on to the mailbox.
TestBox(i, to) ==
    \/ /\ MsgPtr[to] = S
       /\ sentCount' = [sentCount EXCEPT ![i] = @ + 1]
       /\ deadlock' = [deadlock EXCEPT ![i] = sentCount'[i] = 3]
       /\ K!Yield(i)
       /\ Goto(i, "full")
    \/ /\ MsgPtr[to] # S
       /\ K!P(i, mailboxSemaphore(to))
       /\ Goto(i, "send")
       /\ UNCHANGED lvars

\* The message counter is claimed.
Claimed(i) ==
    /\ At(i, "claimed")
    /\ \/ /\ MsgSentCnt < M
          /\ \E to \in Person \ {i} :
                 iSendTo' = [iSendTo EXCEPT ![i] = to] /\ TestBox(i, to)
       \/ /\ MsgSentCnt >= M
          /\ K!V(i, MsgCntSemaphore)
          /\ Goto(i, "stall")
          /\ UNCHANGED <<iSendTo, lvars>>
    /\ UNCHANGED <<cnt, done, mailvars>>

\* MUTANT of Full: an aborted sender keeps the message counter.
FullKeepsCounter(i) ==
    /\ At(i, "full")
    /\ \/ ~deadlock[i] /\ TestBox(i, iSendTo[i])
       \/ /\ deadlock[i]
          /\ deadlock' = [deadlock EXCEPT ![i] = FALSE]
          /\ sentCount' = [sentCount EXCEPT ![i] = 0]
          /\ K!Yield(i)
          /\ Goto(i, "stall")
    /\ UNCHANGED <<cnt, iSendTo, done, mailvars>>

\* After a turn of the waiting loop: try again, or abort.
Full(i) ==
    /\ At(i, "full")
    /\ \/ ~deadlock[i] /\ TestBox(i, iSendTo[i])
       \/ /\ deadlock[i]
          /\ deadlock' = [deadlock EXCEPT ![i] = FALSE]
          /\ sentCount' = [sentCount EXCEPT ![i] = 0]
          /\ K!V(i, MsgCntSemaphore)
          /\ Goto(i, "stall")
    /\ UNCHANGED <<cnt, iSendTo, done, mailvars>>

Send(i) ==
    /\ At(i, "send")
    /\ PutMessage(iSendTo[i])
    /\ K!V(i, mailboxSemaphore(iSendTo[i]))
    /\ Goto(i, "sent")
    /\ UNCHANGED <<cnt, iSendTo, done, lvars>>

Sent(i) ==
    /\ At(i, "sent")
    /\ K!V(i, MsgCntSemaphore)
    /\ Goto(i, "stall")
    /\ UNCHANGED <<cnt, iSendTo, done, mailvars, lvars>>

PersonStep(i) ==
    \/ Visit(i) \/ Decide(i) \/ Read(i) \/ Claimed(i) \/ Full(i)
    \/ Send(i) \/ Sent(i)
    \/ (YieldAfterRead(i) \/ Stall(i) \/ GoHome(i)) /\ UNCHANGED lvars

Terminated == halted /\ UNCHANGED vars

Init ==
    /\ PInit
    /\ sentCount = [i \in Person |-> 0]
    /\ deadlock = [i \in Person |-> FALSE]

Next ==
    \/ ForkPeople /\ UNCHANGED lvars
    \/ \E i \in Person : PersonStep(i)
    \/ \E t \in Threads :
           /\ K!KernelStep(t)
           /\ UNCHANGED <<pc, cnt, iSendTo, done, mailvars, lvars>>
    \/ Terminated

Spec == Init /\ [][Next]_vars
=============================================================================
