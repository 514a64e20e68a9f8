------------------------------ MODULE Shouting ------------------------------
(***************************************************************************)
(* Tasks 1 and 2 of ThreadTest (code/threads/threadtest.cc): a thread that *)
(* says of what type a string is (CheckInputOnly, CheckType), and threads  *)
(* that shout (Shout), as many and as often as the user types in           *)
(* (promptInput).                                                          *)
(*                                                                         *)
(* A string is the sequence of its characters.  The code reads it into a   *)
(* buffer of one byte; the model is right as long as the host's allocator  *)
(* gives it enough room.                                                   *)
(***************************************************************************)
EXTENDS Exercise, SequencesExt

CONSTANTS Chars,      \* characters the user types
          MaxInput,   \* BOUND on the length of what is typed
          MaxInt      \* the greatest int

VARIABLES
    Task,
    str,       \* what CheckInputOnly read
    TYPE,      \* what it printed
    T,         \* number of shouters, 0 until the user has typed it
    NumShout,  \* times each one shouts, likewise
    shouts     \* how often each one has shouted

hvars == <<str, TYPE, T, NumShout, shouts>>
vars == <<Task, kvars, pc, cnt, hvars>>

K == INSTANCE Kernel WITH
        Thread <- Threads, Main <- MainThread, NoThread <- NumPeople + 1,
        Sem <- {}, NoSem <- "none", InitialValue <- << >>,
        Device <- {}, UserThread <- {}, TimeSlice <- TimeSlice, MaxValue <- 0

Strings == UNION {[1..n -> Chars] : n \in 1..MaxInput}

Init ==
    /\ K!Init
    /\ ExerciseInit("run")
    /\ str = << >> /\ TYPE = -1
    /\ T = 0 /\ NumShout = 0
    /\ shouts = [i \in Person |-> 0]

-----------------------------------------------------------------------------
(***************************************************************************)
(* CheckType                                                               *)
(***************************************************************************)
Digit == <<"0", "1", "2", "3", "4", "5", "6", "7", "8", "9">>
Sign == {"+", "-"}
IsDigit(a) == a \in {"0", "1", "2", "3", "4", "5", "6", "7", "8", "9"}
DigitValue(a) == (CHOOSE d \in 1..10 : Digit[d] = a) - 1

\* The number at the start of the string, 0 if there is none.  Too large a
\* number becomes the greatest or the least int.
atoi(s) ==
    LET u == IF s[1] \in Sign THEN Tail(s) ELSE s
        other == SelectInSeq(u, LAMBDA a : ~IsDigit(a))
        digits == IF other = 0 THEN u ELSE SubSeq(u, 1, other - 1)
        n == FoldLeft(LAMBDA m, a : 10 * m + DigitValue(a), 0, digits)
    IN  IF s[1] = "-" THEN -(Min({n, MaxInt + 1})) ELSE Min({n, MaxInt})

\* sprintf(i_str, "%d", i)
Spelled(i) ==
    LET digits[n \in 0..(MaxInt + 1)] ==
            (IF n < 10 THEN << >> ELSE digits[n \div 10]) \o <<Digit[(n % 10) + 1]>>
    IN  IF i < 0 THEN <<"-">> \o digits[-i] ELSE digits[i]

\* MUTANT of Scan: a point with nothing behind it passes.
ScanPointLast(s, j, a) ==
    CASE IsDigit(a) -> [s EXCEPT !.only_sign = FALSE]
      [] a = "."    -> IF j = 0 \/ s.only_sign THEN [s EXCEPT !.flag = TRUE]
                       ELSE [s EXCEPT !.num_pt = @ + 1, !.flag = @ \/ s.num_pt > 0]
      [] a \in Sign -> IF j = 0 THEN [s EXCEPT !.only_sign = TRUE]
                       ELSE [s EXCEPT !.flag = TRUE]
      [] OTHER      -> [s EXCEPT !.flag = TRUE]

\* Character a at position j, from 0 on; flag says "no number".
Scan(s, j, a) ==
    CASE IsDigit(a) -> [s EXCEPT !.only_sign = FALSE, !.num_append = TRUE]
      [] a = "."    -> IF j = 0 \/ s.only_sign THEN [s EXCEPT !.flag = TRUE]
                       ELSE [s EXCEPT !.num_pt = @ + 1,
                                      !.num_append = @ /\ s.num_pt > 0,
                                      !.flag = @ \/ s.num_pt > 0]
      [] a \in Sign -> IF j = 0 THEN [s EXCEPT !.only_sign = TRUE]
                       ELSE [s EXCEPT !.flag = TRUE]
      [] OTHER      -> [s EXCEPT !.flag = TRUE]

Scanned(s) ==
    LET after[j \in 0..Len(s)] ==
            IF j = 0 THEN [flag |-> FALSE, num_pt |-> 0, only_sign |-> FALSE,
                           num_append |-> TRUE]
            ELSE Scan(after[j - 1], j - 1, s[j])
    IN  after[Len(s)]

\* 0 zero, 1 positive int, 2 negative int, 3 positive decimal, 4 negative
\* decimal, 5 character
CheckType(s) ==
    LET end == Scanned(s)
    IN  IF s = Spelled(atoi(s))
        THEN IF s[1] = "-" THEN 2 ELSE IF s[1] = "0" THEN 0 ELSE 1
        ELSE IF end.flag \/ end.only_sign \/ ~end.num_append THEN 5
        ELSE IF s[1] # "-" THEN 3 ELSE IF s = <<"-", "0">> THEN 0 ELSE 4

-----------------------------------------------------------------------------
(***************************************************************************)
(* The threads                                                             *)
(***************************************************************************)

\* promptInput(1): the user is asked again until he types a positive int.
promptInput == {atoi(s) : s \in {x \in Strings : CheckType(x) = 1}}

\* There are no more than NumPeople threads, and M shouts each.
Prompt ==
    /\ Task = 2 /\ K!AtBody(MainThread)
    /\ \/ T = 0 /\ T' \in promptInput \cap (1..NumPeople) /\ UNCHANGED NumShout
       \/ T > 0 /\ NumShout = 0 /\ NumShout' \in promptInput \cap (1..M) /\ UNCHANGED T
    /\ UNCHANGED <<kvars, pc, cnt, str, TYPE, shouts>>

Forked == IF Task = 1 THEN 1 ELSE T

\* The main thread forks the others and finishes.
ForkThreads ==
    /\ pc[MainThread] = "fork" /\ (Task = 2 => NumShout > 0)
    /\ \/ /\ cnt[MainThread] < Forked
          /\ K!Fork(MainThread, cnt[MainThread])
          /\ cnt' = [cnt EXCEPT ![MainThread] = @ + 1]
          /\ UNCHANGED pc
       \/ /\ cnt[MainThread] = Forked
          /\ K!Finish(MainThread)
          /\ pc' = [pc EXCEPT ![MainThread] = "finished"]
          /\ UNCHANGED cnt
    /\ UNCHANGED hvars

Returns(i) ==
    /\ K!Finish(i)
    /\ pc' = [pc EXCEPT ![i] = "finished"]
    /\ UNCHANGED cnt

CheckInputOnly(i) ==
    /\ Task = 1 /\ pc[i] = "run" /\ K!AtBody(i)
    /\ str' \in Strings
    /\ TYPE' = CheckType(str')
    /\ Returns(i)
    /\ UNCHANGED <<T, NumShout, shouts>>

\* A shout and the first Yield after it.
Shout(i) ==
    /\ Task = 2 /\ pc[i] = "run" /\ cnt[i] = 0
    /\ shouts[i] < NumShout
    /\ shouts' = [shouts EXCEPT ![i] = @ + 1]
    /\ \E stallCycle \in StallCycles : cnt' = [cnt EXCEPT ![i] = stallCycle - 1]
    /\ K!Yield(i)
    /\ UNCHANGED <<pc, str, TYPE, T, NumShout>>

Stall(i) ==
    /\ Task = 2 /\ pc[i] = "run" /\ cnt[i] > 0
    /\ cnt' = [cnt EXCEPT ![i] = @ - 1]
    /\ K!Yield(i)
    /\ UNCHANGED <<pc, hvars>>

ShoutReturns(i) ==
    /\ Task = 2 /\ pc[i] = "run" /\ cnt[i] = 0
    /\ shouts[i] = NumShout
    /\ Returns(i)
    /\ UNCHANGED hvars

Next ==
    \/ Prompt \/ ForkThreads
    \/ \E i \in Person : CheckInputOnly(i) \/ Shout(i) \/ Stall(i) \/ ShoutReturns(i)
    \/ \E t \in Threads : K!KernelStep(t) /\ UNCHANGED <<pc, cnt, hvars>>
    \/ halted /\ UNCHANGED <<kvars, pc, cnt, hvars>>

-----------------------------------------------------------------------------
(***************************************************************************)
(* What the types mean, without scanning                                   *)
(***************************************************************************)
DigitsOnly(s) == s # << >> /\ \A k \in 1..Len(s) : IsDigit(s[k])

\* An optional sign, digits, and perhaps a point and more digits
IsNumber(s) ==
    LET u == IF s[1] \in Sign THEN Tail(s) ELSE s
    IN  \/ DigitsOnly(u)
        \/ \E p \in 1..Len(u) :
              u[p] = "." /\ DigitsOnly(SubSeq(u, 1, p - 1))
                         /\ DigitsOnly(SubSeq(u, p + 1, Len(u)))

\* An int is written without leading zeros and without plus sign; what other
\* numbers there are count as decimals.
TypeOf(s) ==
    CASE s \in {<<"0">>, <<"-", "0">>} -> 0
      [] \E n \in 1..MaxInt : s = Spelled(n) -> 1
      [] \E n \in 1..(MaxInt + 1) : s = Spelled(-n) -> 2
      [] OTHER -> IF ~IsNumber(s) THEN 5 ELSE IF s[1] = "-" THEN 4 ELSE 3

InputTypeIsRight == TYPE # -1 => TYPE = TypeOf(str)
=============================================================================
