------------------------------- MODULE Files --------------------------------
(***************************************************************************)
(* What the file system promises its users: files with a name, a fixed     *)
(* size and contents.  Sectors, headers, the free map and the order of     *)
(* disk writes do not show; a new file holds whatever was on the disk.     *)
(***************************************************************************)
EXTENDS Naturals, Sequences

CONSTANTS Name, SectorSize,
          Byte          \* what users write

VARIABLES content,  \* the bytes of each file there is
          answer    \* what the last Read returned

fvars == <<content, answer>>

File == DOMAIN content

Init == content = << >> /\ answer = << >>

\* The user may be done with the last answer.
Forget == answer' \in {answer, << >>}

\* The files other than n stay as they are.
Others(n) ==
    /\ File' \ {n} = File \ {n}
    /\ \A m \in File \ {n} : content'[m] = content[m]

Create(n) ==
    /\ n \notin File /\ n \in File'
    /\ Others(n)
    /\ Forget

Remove(n) ==
    /\ n \in File /\ n \notin File'
    /\ Others(n)
    /\ Forget

\* Bytes of one sector of the file become what the user writes.  A longer Write is several of these.
Write(n, k) ==
    LET inside == (k * SectorSize + 1)..((k + 1) * SectorSize)
    IN  /\ n \in File /\ n \in File'
        /\ Len(content'[n]) = Len(content[n])
        /\ \A i \in 1..Len(content[n]) :
              \/ content'[n][i] = content[n][i]
              \/ i \in inside /\ content'[n][i] \in Byte
        /\ Others(n)
        /\ Forget

Read(n, from, num) ==
    /\ from + num <= Len(content[n])
    /\ answer' = SubSeq(content[n], from + 1, from + num)
    /\ UNCHANGED content

Next ==
    \/ Forget /\ UNCHANGED content
    \/ \E n \in Name : Create(n) \/ Remove(n)
    \/ \E n \in File :
          \/ \E k \in 0..Len(content[n]) : Write(n, k)
          \/ \E from, num \in 0..Len(content[n]) : Read(n, from, num)

Spec == Init /\ [][Next]_fvars
=============================================================================
