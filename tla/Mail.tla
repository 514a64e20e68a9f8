-------------------------------- MODULE Mail --------------------------------
(***************************************************************************)
(* What a post office of ThreadTest promises (tasks 5 and 6): M messages   *)
(* are delivered, each to one mailbox with room for S, each is read once   *)
(* by the owner, the last one first, and a person goes home only when      *)
(* everything was sent and read.  No threads and no semaphores.            *)
(***************************************************************************)
EXTENDS Naturals, Sequences

CONSTANTS NumPeople,  \* number of people
          S,          \* capacity of a mailbox
          M           \* number of messages

Person == 0..(NumPeople - 1)

VARIABLES box,   \* the messages in each mailbox
          sent,  \* how many were sent; a message is its number
          home   \* the people who went home

vars == <<box, sent, home>>

Init ==
    /\ box = [i \in Person |-> << >>]
    /\ sent = 0
    /\ home = {}

Deliver(to) ==
    /\ sent < M
    /\ Len(box[to]) < S
    /\ box' = [box EXCEPT ![to] = Append(@, sent + 1)]
    /\ sent' = sent + 1
    /\ UNCHANGED home

Collect(i) ==
    /\ box[i] # << >>
    /\ box' = [box EXCEPT ![i] = SubSeq(@, 1, Len(@) - 1)]
    /\ UNCHANGED <<sent, home>>

GoHome(i) ==
    /\ sent = M
    /\ \A j \in Person : box[j] = << >>
    /\ home' = home \cup {i}
    /\ UNCHANGED <<box, sent>>

Next == \E i \in Person : Deliver(i) \/ Collect(i) \/ GoHome(i)

Spec == Init /\ [][Next]_vars
=============================================================================
