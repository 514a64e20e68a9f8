------------------------------ MODULE Devices -------------------------------
(***************************************************************************)
(* Machines with their devices: each node runs disk users, ConsoleTest or  *)
(* MailTest, as the command line of Nachos says (-f, -c, -o).              *)
(***************************************************************************)
EXTENDS Disk, Console, Network

CONSTANT Tests  \* which nodes are switched on together

vars == <<machine, diskVars, consoleVars, mailVars>>

ASSUME DevicesAssumption ==
    /\ Node = DiskNode \cup ConsoleNode \cup MailNode
    /\ DiskNode \cap MailNode = {} /\ ConsoleNode \cap MailNode = {}
    /\ \A test \in Tests : test \subseteq Node

\* What the constructors of the devices schedule
Polls(n) ==
    IF n \in ConsoleNode THEN ConsolePolls
    ELSE IF n \in MailNode THEN NetworkPolls ELSE << >>

Init ==
    /\ totalTicks = [n \in Node |-> 0]
    /\ \E delay \in [Node -> TimerDelays \cup {0}] :
          /\ \A n \in Node : (delay[n] = 0) <=> (TimerDelays = {} \/ n \notin DiskNode)
          /\ pending = [n \in Node |->
                IF delay[n] = 0 THEN Polls(n) ELSE Schedule(Polls(n), 0, delay[n], "Timer")]
    /\ \E test \in Tests : phase = [n \in Node |-> IF n \in test THEN "run" ELSE "halt"]
    /\ value = [n \in Node |-> [s \in SemName |-> 0]]
    /\ yielded = [n \in Node |-> 0]
    /\ DiskInit /\ ConsoleInit /\ NetworkInit

\* No thread of the machine can run.
AllWait(n) ==
    /\ n \in DiskNode => ~DiskCanRun(n)
    /\ n \in ConsoleNode => ~ConsoleCanRun(n)
    /\ n \in MailNode => ~MailCanRun(n)

DiskStep(n) ==
    /\ \/ \E u \in DiskUser[n] :
              DiskWorks(n, u) \/ DiskStarts(n, u) \/ DiskReturns(n, u) \/ DiskFinishes(n, u)
       \/ HandleInterrupt(n)
    /\ UNCHANGED <<consoleVars, mailVars>>

ConsoleStep(n) ==
    /\ \/ EchoReads(n) \/ EchoPuts(n) \/ EchoWritten(n)
       \/ CheckCharNone(n) \/ CheckCharAvail(n) \/ WriteDone(n)
    /\ UNCHANGED <<diskVars, mailVars>>

MailStep(n) ==
    /\ \/ MailSends(n) \/ MailSent(n) \/ MailReceives(n) \/ MailAcks(n)
       \/ MailAwaits(n) \/ MailHalts(n)
       \/ WorkerWakes(n) \/ WorkerPuts(n)
       \/ CheckPktNone(n) \/ CheckPktAvail(n) \/ SendDone(n)
    /\ UNCHANGED <<diskVars, consoleVars>>

\* The machine itself
MachineStep(n) ==
    /\ NothingDue(n) \/ TimerExpired(n) \/ YieldReturns(n) \/ (AllWait(n) /\ Idle(n))
    /\ UNCHANGED <<diskVars, consoleVars, mailVars>>

\* The machine is off, or the bound on time is reached.
Over(n) == phase[n] \in {"halt", "abort"} \/ (phase[n] = "run" /\ totalTicks[n] >= MaxTicks)

Next ==
    \/ \E n \in DiskNode : DiskStep(n)
    \/ \E n \in ConsoleNode : ConsoleStep(n)
    \/ \E n \in MailNode : MailStep(n)
    \/ \E n \in Node : MachineStep(n)
    \/ (\A n \in Node : Over(n)) /\ UNCHANGED vars

Spec == Init /\ [][Next]_vars

-----------------------------------------------------------------------------
(***************************************************************************)
(* Properties                                                              *)
(***************************************************************************)
CountOf(n, type) == Cardinality({i \in 1..Len(pending[n]) : pending[n][i].type = type})

\* Interrupts fire in the order of their times and none is late when a thread
\* runs, except the timer that Idle put back (Interrupt::CheckIfDue,
\* List::SortedInsert); and a device has exactly the interrupts pending that its
\* state calls for, so no completion is lost or comes twice (Disk::active,
\* Console::putBusy, the pollers).
InterruptsInOrder ==
    \A n \in Node :
        /\ \A i, j \in 1..Len(pending[n]) : i < j => pending[n][i].when <= pending[n][j].when
        /\ (phase[n] = "run" /\ Due(n)) => OnlyTimer(n)
        /\ n \in DiskNode => CountOf(n, "Disk") = IF active[n] THEN 1 ELSE 0
        /\ n \in ConsoleNode => CountOf(n, "ConsoleWrite") = IF putBusy[n] THEN 1 ELSE 0
        /\ CountOf(n, "ConsoleRead") = IF n \in ConsoleNode THEN 1 ELSE 0
        /\ CountOf(n, "NetworkRecv") = IF n \in MailNode THEN 1 ELSE 0

\* At time t the head is at the start of sector s of its track.
HeadAt(t, s) ==
    /\ t % RotationTime = 0
    /\ (t \div RotationTime) % SectorsPerTrack = s % SectorsPerTrack

\* A request ends when the sector has just passed the head completely, at the
\* first such time after the seek; a read that the track buffer serves is for a
\* sector that has passed since the buffer began to fill (Disk::ComputeLatency,
\* UpdateLast).
HeadPassesSector ==
    \A n \in DiskNode :
        active[n] =>
            LET r == job[n]
                end == pending[n][CHOOSE i \in 1..Len(pending[n]) :
                                      pending[n][i].type = "Disk"].when
            IN  IF r.buffered THEN \E t \in r.since..(end - RotationTime) : HeadAt(t, r.sector)
                ELSE /\ HeadAt(end - RotationTime, r.sector)
                     /\ r.ready <= end - RotationTime
                     /\ \A t \in r.ready..(end - RotationTime - 1) : ~HeadAt(t, r.sector)

\* As many threads wait in SynchDisk as interrupts have come, and will come, for
\* them: although the Lock keeps nobody out and any of them may take the unit of
\* another, each accepted request lets one thread return (SynchDisk::ReadSector,
\* WriteSector, RequestDone).
EveryRequestIsAnswered ==
    \A n \in DiskNode :
        Cardinality({u \in DiskUser[n] : uses[n][u] = "P"})
            = value[n]["disk"] + (IF active[n] THEN 1 ELSE 0)

\* "for any individual thread making a request, it waits around until the operation
\* finishes before returning": the thread whose request the disk is doing waits.
WaitsForItsOwn ==
    \A n \in DiskNode : active[n] => uses[n][job[n].user] = "P"

\* What is on the display, and the character in the buffer, are what was typed
\* so far: no character is lost, repeated or out of order, and the ASSERT of
\* PutChar holds (ConsoleTest, Console::CheckCharAvail, GetChar, PutChar).
EchoesInput ==
    \A n \in ConsoleNode :
        /\ echo[n] = "put" => ~putBusy[n]
        /\ SubSeq(Typed, 1, taken[n])
              = display[n] \o (IF incoming[n] = EOF THEN << >> ELSE <<incoming[n]>>)

\* The packets that are for box b, in their order.
MessagesFor(b, packets) ==
    LET first[k \in 0..Len(packets)] ==
            IF k = 0 THEN << >>
            ELSE IF packets[k].to = b THEN Append(first[k - 1], packets[k]) ELSE first[k - 1]
    IN  first[Len(packets)]

\* The messages for a box, in the order in which they reached the socket, are
\* those received, those in the box, the one in the network's buffer and those
\* not yet read; and whoever got an acknowledgement knows that the other side
\* has its message (MailTest, PostalDelivery, CheckPktAvail).
MailArrivesOnce ==
    \A n \in MailNode :
        /\ \A b \in Box :
              MessagesFor(b, socket[n])
                 = got[n][b] \o boxes[n][b]
                      \o MessagesFor(b, inbox[n] \o SubSeq(socket[n], read[n] + 1, Len(socket[n])))
        /\ got[n][1] # << >> =>
              \E i \in 1..Len(got[farAddr(n)][0]) : got[farAddr(n)][0][i].source = n
=============================================================================
