------------------------------ MODULE Network -------------------------------
(***************************************************************************)
(* The network device (machine/network.cc), the post office over it        *)
(* (network/post.cc, threads/synchlist.cc) and MailTest                    *)
(* (network/nettest.cc), in which two machines send each other a message   *)
(* and an acknowledgement.                                                 *)
(*                                                                         *)
(* Each machine has two threads: MailTest and the postal worker.  The      *)
(* sockets of the host keep packets in order and lose none; the network    *)
(* device drops some before they get there.                                *)
(***************************************************************************)
EXTENDS Interrupts

CONSTANTS MailNode,    \* machines that run MailTest, two or none
          NetworkTime

ASSUME NetworkAssumption ==
    /\ NetworkTime \in Nat \ {0}
    /\ IsFiniteSet(MailNode) /\ Cardinality(MailNode) \in {0, 2}

VARIABLES
    socket,   \* [MailNode -> packets ever sent to it and not dropped]
    read,     \* [MailNode -> how many of them were read]
    inbox,    \* [MailNode -> Seq(Packet)], the buffered packet if inHdr.length > 0
    boxes,    \* [MailNode -> [Box -> Seq(Packet)]]
    worker,   \* [MailNode -> "wait" for messageAvailable or "put"]
    mail,     \* [MailNode -> the next statement of MailTest]
    got       \* [MailNode -> [Box -> messages that Receive returned]]

mailVars == <<socket, read, inbox, boxes, worker, mail, got>>

Box == {0, 1}
farAddr(n) == CHOOSE m \in MailNode : m # n

NetworkInit ==
    /\ socket = [n \in MailNode |-> << >>]
    /\ read = [n \in MailNode |-> 0]
    /\ inbox = [n \in MailNode |-> << >>]
    /\ boxes = [n \in MailNode |-> [b \in Box |-> << >>]]
    /\ worker = [n \in MailNode |-> "wait"]
    /\ mail = [n \in MailNode |-> "send"]
    /\ got = [n \in MailNode |-> [b \in Box |-> << >>]]

\* The constructor starts polling.
NetworkPolls == Schedule(<< >>, 0, NetworkTime, "NetworkRecv")

PolledPkt(n) == Schedule(Rest(n), totalTicks[n], NetworkTime, "NetworkRecv")

-----------------------------------------------------------------------------
(***************************************************************************)
(* Network                                                                 *)
(***************************************************************************)

\* MUTANT of NoPktBuffered: a packet is read over the one in the buffer.
NoPktBufferedAlways(n) == TRUE

NoPktBuffered(n) == inbox[n] = << >>

\* The sockets of the host
PollSocket(n) == read[n] < Len(socket[n])
ReadFromSocket(n) == socket[n][read[n] + 1]
SendToSocket(to, packet) == socket' = [socket EXCEPT ![to] = Append(@, packet)]

\* Handlers of the post office, called by the device
IncomingPacket(n) == V(n, "messageAvailable")
PacketSent(n) == V(n, "messageSent")

\* CheckPktAvail with nothing to do
CheckPktNone(n) ==
    /\ Fires(n, "NetworkRecv")
    /\ ~(NoPktBuffered(n) /\ PollSocket(n))
    /\ pending' = [pending EXCEPT ![n] = PolledPkt(n)]
    /\ UNCHANGED <<totalTicks, phase, value, yielded, mailVars>>

\* CheckPktAvail that reads a packet
CheckPktAvail(n) ==
    /\ Fires(n, "NetworkRecv")
    /\ NoPktBuffered(n) /\ PollSocket(n)
    /\ pending' = [pending EXCEPT ![n] = PolledPkt(n)]
    /\ read' = [read EXCEPT ![n] = @ + 1]
    /\ inbox' = [inbox EXCEPT ![n] = <<ReadFromSocket(n)>>]
    /\ IncomingPacket(n)
    /\ UNCHANGED <<totalTicks, phase, yielded, socket, boxes, worker, mail, got>>

SendDone(n) ==
    /\ Fires(n, "NetworkSend")
    /\ pending' = [pending EXCEPT ![n] = Rest(n)]
    /\ PacketSent(n)
    /\ UNCHANGED <<totalTicks, phase, yielded, mailVars>>

\* PostOffice::Send with Network::Send, until the thread waits for
\* messageSent.  sendBusy is tested but never set.
Send(n, packet, to) ==
    /\ pending' = [pending EXCEPT ![n] =
                      Schedule(@, totalTicks[n], NetworkTime, "NetworkSend")]
    /\ \/ UNCHANGED socket    \* emulate a lost packet
       \/ SendToSocket(to, packet)
    /\ UNCHANGED <<totalTicks, phase, value, yielded, read, inbox, boxes, worker, got>>

-----------------------------------------------------------------------------
(***************************************************************************)
(* PostOffice                                                              *)
(***************************************************************************)

\* PostalDelivery: messageAvailable->P() returns
WorkerWakes(n) ==
    /\ Running(n) /\ worker[n] = "wait"
    /\ P(n, "messageAvailable")
    /\ worker' = [worker EXCEPT ![n] = "put"]
    /\ UNCHANGED <<socket, read, inbox, boxes, mail, got>>

\* Network::Receive empties the buffer.
NetworkReceive(n) == inbox' = [inbox EXCEPT ![n] = << >>]

\* SynchList, whose Lock and Signal are empty
SynchListAppend(list, item) == Append(list, item)
SynchListRemove(list) == [item |-> Head(list), list |-> Tail(list)]

\* MailBox::Put, MailBox::Get
Put(n, packet) ==
    boxes' = [boxes EXCEPT ![n][packet.to] = SynchListAppend(@, packet)]
Get(n, box) ==
    LET removed == SynchListRemove(boxes[n][box])
    IN  /\ boxes' = [boxes EXCEPT ![n][box] = removed.list]
        /\ got' = [got EXCEPT ![n][box] = Append(@, removed.item)]

\* Condition::Wait is ASSERT(FALSE).
Wait(n) == Abort(n)

WorkerPuts(n) ==
    /\ Running(n) /\ worker[n] = "put"
    /\ NetworkReceive(n)
    /\ Put(n, Head(inbox[n]))
    /\ worker' = [worker EXCEPT ![n] = "wait"]
    /\ UNCHANGED <<machine, socket, read, mail, got>>

\* PostOffice::Receive; SynchList::Remove waits on an empty box.
Receive(n, box, next) ==
    IF boxes[n][box] = << >>
    THEN Wait(n) /\ UNCHANGED mailVars
    ELSE /\ Get(n, box)
         /\ mail' = [mail EXCEPT ![n] = next]
         /\ UNCHANGED <<machine, socket, read, inbox, worker>>

-----------------------------------------------------------------------------
(***************************************************************************)
(* MailTest: the message goes to box 0, replies go to box 1                *)
(***************************************************************************)
MailSends(n) ==
    /\ Running(n) /\ mail[n] = "send"
    /\ Send(n, [data |-> "Hello", source |-> n, to |-> 0, from |-> 1], farAddr(n))
    /\ mail' = [mail EXCEPT ![n] = "sent"]

\* messageSent->P() returns
MailSent(n) ==
    /\ Running(n) /\ mail[n] \in {"sent", "acked"}
    /\ P(n, "messageSent")
    /\ mail' = [mail EXCEPT ![n] = IF mail[n] = "sent" THEN "receive" ELSE "await"]
    /\ UNCHANGED <<socket, read, inbox, boxes, worker, got>>

MailReceives(n) ==
    /\ Running(n) /\ mail[n] = "receive"
    /\ Receive(n, 0, "ack")

\* The acknowledgement goes to the box that the message names.
MailAcks(n) ==
    /\ Running(n) /\ mail[n] = "ack"
    /\ LET in == Last(got[n][0])
       IN  Send(n, [data |-> "GotIt", source |-> n, to |-> in.from, from |-> 1], in.source)
    /\ mail' = [mail EXCEPT ![n] = "acked"]

MailAwaits(n) ==
    /\ Running(n) /\ mail[n] = "await"
    /\ Receive(n, 1, "done")

MailHalts(n) ==
    /\ Running(n) /\ mail[n] = "done"
    /\ Halt(n)
    /\ UNCHANGED mailVars

MailCanRun(n) ==
    \/ worker[n] = "put" \/ value[n]["messageAvailable"] > 0
    \/ mail[n] \notin {"sent", "acked"} \/ value[n]["messageSent"] > 0
=============================================================================
