------------------------------ MODULE Console -------------------------------
(***************************************************************************)
(* The console (machine/console.cc) and the thread that echoes what is     *)
(* typed (ConsoleTest in userprog/progtest.cc).                            *)
(***************************************************************************)
EXTENDS Interrupts

CONSTANTS ConsoleNode, \* machines that run ConsoleTest
          ConsoleTime,
          Typed,       \* the characters of the input file
          Quit,        \* the character that ends ConsoleTest, 'q'
          EOF          \* nothing is buffered

ASSUME ConsoleAssumption ==
    /\ ConsoleTime \in Nat \ {0}
    /\ Typed \in Seq(Range(Typed)) /\ EOF \notin Range(Typed)

VARIABLES
    incoming, \* [ConsoleNode -> a character or EOF]
    putBusy,  \* [ConsoleNode -> BOOLEAN]
    taken,    \* [ConsoleNode -> Nat], characters read from the input file
    display,  \* [ConsoleNode -> characters written to the output file]
    echo      \* [ConsoleNode -> the next statement of ConsoleTest]

consoleVars == <<incoming, putBusy, taken, display, echo>>

ConsoleInit ==
    /\ incoming = [n \in ConsoleNode |-> EOF]
    /\ putBusy = [n \in ConsoleNode |-> FALSE]
    /\ taken = [n \in ConsoleNode |-> 0]
    /\ display = [n \in ConsoleNode |-> << >>]
    /\ echo = [n \in ConsoleNode |-> "read"]

\* The constructor starts polling.
ConsolePolls == Schedule(<< >>, 0, ConsoleTime, "ConsoleRead")

Polled(n) == Schedule(Rest(n), totalTicks[n], ConsoleTime, "ConsoleRead")

\* MUTANT of BufferIsFree: a character is read over the one in the buffer.
BufferIsFreeAlways(n) == TRUE

BufferIsFree(n) == incoming[n] = EOF

\* The files of the host.  PollFile says TRUE only if there is a character.
PollFile(n) == taken[n] < Len(Typed)
ReadFile(n) == taken' = [taken EXCEPT ![n] = @ + 1]
WriteFile(n, ch) == display' = [display EXCEPT ![n] = Append(@, ch)]

\* CheckCharAvail that finds nothing to do: PollFile may say that there is
\* nothing even if more will be typed.
CheckCharNone(n) ==
    /\ Fires(n, "ConsoleRead")
    /\ pending' = [pending EXCEPT ![n] = Polled(n)]
    /\ UNCHANGED <<totalTicks, phase, value, yielded, consoleVars>>

\* CheckCharAvail that reads a character, and the handler ReadAvail
CheckCharAvail(n) ==
    /\ Fires(n, "ConsoleRead")
    /\ BufferIsFree(n)
    /\ PollFile(n)
    /\ pending' = [pending EXCEPT ![n] = Polled(n)]
    /\ ReadFile(n)
    /\ incoming' = [incoming EXCEPT ![n] = Typed[taken[n] + 1]]
    /\ V(n, "readAvail")
    /\ UNCHANGED <<totalTicks, phase, yielded, putBusy, display, echo>>

\* Console::WriteDone and the handler WriteDone
WriteDone(n) ==
    /\ Fires(n, "ConsoleWrite")
    /\ pending' = [pending EXCEPT ![n] = Rest(n)]
    /\ putBusy' = [putBusy EXCEPT ![n] = FALSE]
    /\ V(n, "writeDone")
    /\ UNCHANGED <<totalTicks, phase, yielded, incoming, taken, display, echo>>

\* readAvail->P() returns
EchoReads(n) ==
    /\ Running(n) /\ echo[n] = "read"
    /\ P(n, "readAvail")
    /\ echo' = [echo EXCEPT ![n] = "put"]
    /\ UNCHANGED <<incoming, putBusy, taken, display>>

\* GetChar and PutChar, until the thread waits for writeDone
EchoPuts(n) ==
    /\ Running(n) /\ echo[n] = "put"
    /\ echo' = [echo EXCEPT ![n] = "written"]
    /\ incoming' = [incoming EXCEPT ![n] = EOF]
    /\ IF putBusy[n] THEN Abort(n) /\ UNCHANGED <<display, putBusy>>
       ELSE /\ WriteFile(n, incoming[n])
            /\ putBusy' = [putBusy EXCEPT ![n] = TRUE]
            /\ pending' = [pending EXCEPT ![n] =
                              Schedule(@, totalTicks[n], ConsoleTime, "ConsoleWrite")]
            /\ UNCHANGED <<totalTicks, phase, value, yielded>>
    /\ UNCHANGED taken

\* writeDone->P() returns
EchoWritten(n) ==
    /\ Running(n) /\ echo[n] = "written"
    /\ P(n, "writeDone")
    /\ echo' = [echo EXCEPT ![n] = IF Last(display[n]) = Quit THEN "done" ELSE "read"]
    /\ UNCHANGED <<incoming, putBusy, taken, display>>

ConsoleCanRun(n) ==
    \/ echo[n] = "read" /\ value[n]["readAvail"] > 0
    \/ echo[n] = "put"
    \/ echo[n] = "written" /\ value[n]["writeDone"] > 0
=============================================================================
