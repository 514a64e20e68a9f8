-------------------------- MODULE AddrSpaceProofs --------------------------
(***************************************************************************)
(* Proofs about the allocation of physical memory (module AddrSpace).      *)
(*                                                                         *)
(* The three search loops are recursive functions over the frames.  What   *)
(* they compute is proved by induction on the number of frames looked at.  *)
(* The induction theorems of the library take the predicate as a parameter *)
(* that the provers cannot instantiate; SetInduction below takes the set   *)
(* of the numbers that satisfy it instead.                                 *)
(***************************************************************************)
EXTENDS AddrSpace, TLAPS, WellFoundedInduction

-----------------------------------------------------------------------------
(***************************************************************************)
(* Induction and recursive functions                                       *)
(***************************************************************************)

\* Induction: a set that contains 0 and with each number the next one contains
\* all natural numbers.  Used for the loops over the frames of AddrSpace.
LEMMA SetInduction ==
    ASSUME NEW T, 0 \in T, \A n \in Nat : n \in T => n + 1 \in T
    PROVE  \A n \in Nat : n \in T
<1> DEFINE Less == {p \in Nat \X Nat : p[1] < p[2]}
<1> DEFINE Rest == Nat \ T
<1> SUFFICES ASSUME Rest # {} PROVE FALSE
  OBVIOUS
<1>1. IsWellFoundedOn(Less, Nat)
  BY NatLessThanWellFounded, Zenon DEF OpToRel
<1>2. PICK x \in Rest : \A y \in Rest : ~ (<<y, x>> \in Less)
  <2> HIDE DEF Less
  <2> QED BY <1>1, WFMin
<1>3. x # 0 /\ x - 1 \in Nat
  OBVIOUS
<1>4. x - 1 \in T
  <2> SUFFICES ASSUME x - 1 \in Rest PROVE FALSE
    BY <1>3
  <2>1. <<x - 1, x>> \in Less
    BY <1>3
  <2> QED BY <2>1, <1>2
<1>5. (x - 1) + 1 \in T
  BY <1>3, <1>4
<1> QED BY <1>5, <1>3

\* g is defined by recursion over 0..N: F gives the next value from the last
\* one and its place.
Recursion(N, X, x0, F, g) ==
    /\ g \in [0..N -> X]
    /\ g[0] = x0
    /\ \A i \in 1..N : g[i] = F[<<g[i - 1], i>>]

\* A function defined by recursion over 0..N exists; the search loops of
\* AddrSpace have this form.
LEMMA RecursiveFunction ==
    ASSUME NEW N \in Nat, NEW X, NEW x0 \in X, NEW F \in [X \X (1..N) -> X]
    PROVE  \E g : Recursion(N, X, x0, F, g)
<1> DEFINE Upto(n, g) == \A i \in 0..n : g[i] = IF i = 0 THEN x0 ELSE F[<<g[i - 1], i>>]
<1> DEFINE T == {n \in Nat : n <= N => \E g \in [0..n -> X] : Upto(n, g)}
<1>1. 0 \in T
  <2> DEFINE g == [i \in 0..0 |-> x0]
  <2>1. g \in [0..0 -> X] /\ Upto(0, g)
    OBVIOUS
  <2> QED BY <2>1
<1>2. ASSUME NEW n \in Nat, n \in T
      PROVE  n + 1 \in T
  <2> SUFFICES ASSUME n + 1 <= N
               PROVE  \E g \in [0..(n + 1) -> X] : Upto(n + 1, g)
    OBVIOUS
  <2>1. PICK h \in [0..n -> X] : Upto(n, h)
    BY <1>2
  <2> DEFINE g == [i \in 0..(n + 1) |-> IF i <= n THEN h[i] ELSE F[<<h[n], n + 1>>]]
  <2>2. <<h[n], n + 1>> \in X \X (1..N)
    OBVIOUS
  <2>3. g \in [0..(n + 1) -> X]
    BY <2>2
  <2>4. Upto(n + 1, g)
    <3> SUFFICES ASSUME NEW i \in 0..(n + 1)
                 PROVE  g[i] = IF i = 0 THEN x0 ELSE F[<<g[i - 1], i>>]
      OBVIOUS
    <3>1. CASE i \in 0..n
      <4>1. g[i] = h[i] /\ (i # 0 => i - 1 \in 0..n /\ g[i - 1] = h[i - 1])
        BY <3>1
      <4> HIDE DEF g
      <4> QED BY <2>1, <3>1, <4>1
    <3>2. CASE i = n + 1
      <4>1. g[n + 1] = F[<<h[n], n + 1>>] /\ g[n] = h[n] /\ n + 1 - 1 = n
        OBVIOUS
      <4> HIDE DEF g
      <4> QED BY <3>2, <4>1
    <3> QED BY <3>1, <3>2
  <2> QED BY <2>3, <2>4
<1>3. N \in T
  <2> HIDE DEF T
  <2> QED BY <1>1, <1>2, SetInduction
<1>4. PICK g \in [0..N -> X] : Upto(N, g)
  BY <1>3
<1>5. g[0] = x0
  <2>1. 0 \in 0..N
    OBVIOUS
  <2> QED BY <1>4, <2>1
<1>6. ASSUME NEW i \in 1..N
      PROVE  g[i] = F[<<g[i - 1], i>>]
  <2>1. i \in 0..N /\ i # 0
    OBVIOUS
  <2> QED BY <1>4, <2>1
<1> QED BY <1>5, <1>6 DEF Recursion

-----------------------------------------------------------------------------
(***************************************************************************)
(* First fit                                                               *)
(***************************************************************************)

\* One turn of the loop of FirstFit, its start, and what it returns.
FirstZero == [chunk |-> 0, startingAddress |-> 0, StartHere |-> NoSpace]

FirstStep(used, n, s, i) ==
    IF s.StartHere # NoSpace THEN s
    ELSE IF (i - 1) \notin used THEN Grow(s, i - 1)
    ELSE IF s.chunk >= n THEN [s EXCEPT !.StartHere = s.startingAddress]
    ELSE [s EXCEPT !.chunk = 0]

FirstScan(used, n) ==
    CHOOSE scan : scan = [i \in 0..NumPhysPages |->
                             IF i = 0 THEN FirstZero
                             ELSE FirstStep(used, n, scan[i - 1], i)]

FirstResult(n, last) ==
    IF last.StartHere # NoSpace THEN last.StartHere
    ELSE IF last.chunk >= n THEN last.startingAddress
    ELSE NoSpace

\* FirstFit is FirstResult of the last turn.
LEMMA FirstFitScan ==
    \A used, n : FirstFit(used, n) = FirstResult(n, FirstScan(used, n)[NumPhysPages])
BY DEF FirstFit, FirstResult, FirstScan, FirstZero, FirstStep

FirstState == [chunk : Int, startingAddress : Int, StartHere : Int]

\* Grow on the state of FirstFit, field by field.
LEMMA FirstGrow ==
    ASSUME NEW s \in FirstState, NEW f \in Int
    PROVE  Grow(s, f) = [chunk |-> s.chunk + 1,
                         startingAddress |-> IF s.chunk = 0 THEN f ELSE s.startingAddress,
                         StartHere |-> s.StartHere]
<1> DEFINE t == [s EXCEPT !.chunk = s.chunk + 1]
<1>1. Grow(s, f) = [t EXCEPT !.startingAddress = IF s.chunk = 0 THEN f ELSE s.startingAddress]
  BY Zenon DEF Grow
<1>2. t = [chunk |-> s.chunk + 1, startingAddress |-> s.startingAddress,
           StartHere |-> s.StartHere]
  BY DEF FirstState
<1>3. t \in FirstState
  BY <1>2 DEF FirstState
<1> HIDE DEF t
<1> QED BY <1>1, <1>2, <1>3 DEF FirstState

\* The loop of FirstFit is well defined: the recursion equation holds.
LEMMA FirstScanEquation ==
    ASSUME NEW used, NEW n
    PROVE  /\ FirstScan(used, n)[0] = FirstZero
           /\ \A i \in 1..NumPhysPages :
                  FirstScan(used, n)[i] = FirstStep(used, n, FirstScan(used, n)[i - 1], i)
<1> DEFINE N == NumPhysPages
<1> DEFINE F == [p \in FirstState \X (1..N) |-> FirstStep(used, n, p[1], p[2])]
<1> DEFINE Eq(g) == g = [i \in 0..N |-> IF i = 0 THEN FirstZero
                                       ELSE FirstStep(used, n, g[i - 1], i)]
<1>0. N \in Nat
  BY AddrSpaceAssumption
<1>1. FirstZero \in FirstState
  BY DEF FirstZero, FirstState, NoSpace
<1>2. ASSUME NEW s \in FirstState, NEW i \in 1..N
      PROVE  FirstStep(used, n, s, i) \in FirstState
  BY <1>0, FirstGrow DEF FirstState, FirstStep, NoSpace
<1>3. F \in [FirstState \X (1..N) -> FirstState]
  BY <1>2
<1>4. PICK g : Recursion(N, FirstState, FirstZero, F, g)
  <2> HIDE DEF F
  <2> QED BY <1>0, <1>1, <1>3, RecursiveFunction
<1>5. \A i \in 1..N : /\ i - 1 \in 0..N
                      /\ F[<<g[i - 1], i>>] = FirstStep(used, n, g[i - 1], i)
  BY <1>0, <1>4 DEF Recursion
<1>6. Eq(g)
  <2> HIDE DEF F
  <2>1. ASSUME NEW i \in 0..N
        PROVE  g[i] = IF i = 0 THEN FirstZero ELSE FirstStep(used, n, g[i - 1], i)
    <3>1. i # 0 => i \in 1..N
      BY <1>0
    <3> QED BY <1>4, <1>5, <3>1 DEF Recursion
  <2> QED BY <1>4, <2>1 DEF Recursion
<1>7. Eq(FirstScan(used, n))
  <2> HIDE DEF F
  <2> QED BY <1>6 DEF FirstScan
<1> HIDE DEF F
<1> QED BY <1>0, <1>7

\* The frames below i are looked at; the last c of them are free and there is
\* no free frame below these that touches them.
OpenChunk(used, c, i) ==
    /\ c \in 0..i
    /\ \A f \in (i - c)..(i - 1) : f \notin used
    /\ i - c - 1 \in used \cup {-1}

\* What the loop of FirstFit knows after i turns: until it has found a place,
\* no hole that is large enough ends below the frames looked at; then the place
\* is the first such hole.
FirstInv(used, n, s, i) ==
    /\ s \in FirstState
    /\ s.StartHere = NoSpace =>
           /\ OpenChunk(used, s.chunk, i)
           /\ s.chunk > 0 => s.startingAddress = i - s.chunk
           /\ \A h \in Fitting(used, n) : h[2] >= i - 1
    /\ s.StartHere # NoSpace =>
           /\ s.StartHere \in Starts(Fitting(used, n))
           /\ \A b \in Starts(Fitting(used, n)) : s.StartHere <= b

\* What it means to be a hole, frame by frame.
LEMMA HoleFacts ==
    ASSUME NEW used, NEW n \in Int, NEW a \in Int, NEW b \in Int
    PROVE  <<a, b>> \in Fitting(used, n) <=>
               /\ 0 <= a /\ a <= b /\ b < NumPhysPages
               /\ \A f \in a..b : f \notin used
               /\ a - 1 \in used \cup {-1}
               /\ b + 1 \in used \cup {NumPhysPages}
               /\ b - a + 1 >= n
<1> NumPhysPages \in Nat
  BY AddrSpaceAssumption
<1>1. <<a, b>> \in Holes(used) <=>
          /\ a \in Frames /\ b \in Frames
          /\ FreeRun(used, a, b)
          /\ a - 1 \in used \cup {-1}
          /\ b + 1 \in used \cup {NumPhysPages}
  BY DEF Holes
<1>2. FreeRun(used, a, b) <=> a <= b /\ \A f \in a..b : f \notin used
  BY DEF FreeRun
<1>3. <<a, b>> \in Fitting(used, n) <=> <<a, b>> \in Holes(used) /\ b - a + 1 >= n
  BY DEF Fitting, Length
<1> QED BY <1>1, <1>2, <1>3 DEF Frames

\* Every element of Fitting is a pair of frames.
LEMMA HoleIsPair ==
    ASSUME NEW used, NEW n, NEW h \in Fitting(used, n)
    PROVE  h[1] \in Int /\ h[2] \in Int /\ h = <<h[1], h[2]>>
<1> NumPhysPages \in Nat
  BY AddrSpaceAssumption
<1> QED BY DEF Fitting, Holes, Frames

\* A turn of the loop of FirstFit keeps FirstInv.
LEMMA FirstStepInv ==
    ASSUME NEW used \in SUBSET Frames, NEW n \in Nat \ {0}, NEW s,
           NEW i \in 1..NumPhysPages, FirstInv(used, n, s, i - 1)
    PROVE  FirstInv(used, n, FirstStep(used, n, s, i), i)
<1> NumPhysPages \in Nat
  BY AddrSpaceAssumption
<1> DEFINE t == FirstStep(used, n, s, i)
<1>1. s \in FirstState
  BY DEF FirstInv
<1>2. CASE s.StartHere # NoSpace
  BY <1>2 DEF FirstStep, FirstInv
<1>3. ASSUME s.StartHere = NoSpace
      PROVE  FirstInv(used, n, t, i)
  <2> DEFINE c == s.chunk
  <2>0. c \in Int /\ NoSpace \in Int
    BY <1>1 DEF FirstState, NoSpace
  <2>1. /\ OpenChunk(used, c, i - 1)
        /\ c > 0 => s.startingAddress = i - 1 - c
        /\ \A h \in Fitting(used, n) : h[2] >= i - 1 - 1
    BY <1>3 DEF FirstInv
  <2>2. CASE (i - 1) \notin used
    <3>1. t = [chunk |-> c + 1,
               startingAddress |-> IF c = 0 THEN i - 1 ELSE s.startingAddress,
               StartHere |-> NoSpace]
      BY <1>1, <1>3, <2>2, FirstGrow DEF FirstStep
    <3>2. OpenChunk(used, c + 1, i)
      BY <2>0, <2>1, <2>2 DEF OpenChunk
    <3>3. ASSUME NEW h \in Fitting(used, n)
          PROVE  h[2] >= i - 1
      <4>1. h[1] \in Int /\ h[2] \in Int /\ <<h[1], h[2]>> \in Fitting(used, n)
        BY HoleIsPair
      <4>2. h[2] + 1 \in used \cup {NumPhysPages}
        BY <4>1, HoleFacts
      <4> QED BY <2>1, <2>2, <4>1, <4>2
    <3>4. t \in FirstState
      BY <1>1, <2>0, <3>1 DEF FirstState
    <3> QED BY <2>0, <2>1, <3>1, <3>2, <3>3, <3>4 DEF FirstInv
  <2>3. ASSUME (i - 1) \in used, NEW h \in Fitting(used, n)
        PROVE  /\ i - 1 - c <= h[1]
               /\ h[2] = i - 2 => c >= n
    <3>1. h[1] \in Int /\ h[2] \in Int /\ <<h[1], h[2]>> \in Fitting(used, n)
      BY HoleIsPair
    <3>2. /\ 0 <= h[1] /\ h[1] <= h[2] /\ h[2] - h[1] + 1 >= n
          /\ \A f \in h[1]..h[2] : f \notin used
      BY <3>1, HoleFacts
    <3>3. h[2] >= i - 2
      BY <2>1
    <3>4. i - 1 - c <= h[1]
      <4> SUFFICES ASSUME h[1] < i - 1 - c PROVE FALSE
        BY <2>0, <3>1
      <4>1. i - 2 - c \in h[1]..h[2] /\ i - 2 - c # -1
        BY <2>0, <2>1, <3>1, <3>2, <3>3 DEF OpenChunk
      <4> QED BY <2>0, <2>1, <3>2, <4>1 DEF OpenChunk
    <3> QED BY <2>0, <3>1, <3>2, <3>4
  <2>4. CASE (i - 1) \in used /\ c >= n
    <3>1. t = [s EXCEPT !.StartHere = s.startingAddress]
      BY <1>3, <2>4 DEF FirstStep
    <3>2. s.startingAddress = i - 1 - c
      BY <2>0, <2>1, <2>4
    <3>3. <<i - 1 - c, i - 2>> \in Fitting(used, n)
      <4>1. i - 1 - c \in Int /\ i - 2 \in Int
        BY <2>0
      <4> QED BY <2>0, <2>1, <2>4, <4>1, HoleFacts DEF OpenChunk
    <3>4. i - 1 - c \in Starts(Fitting(used, n))
      BY <3>3 DEF Starts
    <3>5. \A b \in Starts(Fitting(used, n)) : i - 1 - c <= b
      BY <2>3, <2>4 DEF Starts
    <3>6. t \in FirstState /\ t.StartHere = i - 1 - c
      BY <1>1, <3>1, <3>2 DEF FirstState
    <3>7. i - 1 - c # NoSpace
      BY <2>0, <2>1 DEF OpenChunk, NoSpace
    <3> QED BY <3>4, <3>5, <3>6, <3>7 DEF FirstInv
  <2>5. CASE (i - 1) \in used /\ ~(c >= n)
    <3>1. t = [s EXCEPT !.chunk = 0]
      BY <1>3, <2>5 DEF FirstStep
    <3>2. t \in FirstState /\ t.chunk = 0 /\ t.StartHere = NoSpace
      BY <1>1, <1>3, <3>1 DEF FirstState
    <3>3. OpenChunk(used, 0, i)
      BY <2>5 DEF OpenChunk
    <3>4. ASSUME NEW h \in Fitting(used, n)
          PROVE  h[2] >= i - 1
      BY <2>0, <2>1, <2>3, <2>5, HoleIsPair
    <3> QED BY <3>2, <3>3, <3>4 DEF FirstInv
  <2> QED BY <2>2, <2>4, <2>5
<1> QED BY <1>2, <1>3

\* FirstFit finds the first hole that is large enough, and fails only if there
\* is none (AddrSpace::FirstFit).
LEMMA FirstFitCorrect ==
    ASSUME NEW used \in SUBSET Frames, NEW n \in Nat \ {0}
    PROVE  LET fit == Fitting(used, n)
               a == FirstFit(used, n)
           IN  IF fit = {} THEN a = NoSpace
               ELSE a \in Starts(fit) /\ \A b \in Starts(fit) : a <= b
<1> DEFINE N == NumPhysPages
<1> DEFINE scan == FirstScan(used, n)
<1> DEFINE fit == Fitting(used, n)
<1> DEFINE a == FirstFit(used, n)
<1> DEFINE T == {i \in Nat : i <= N => FirstInv(used, n, scan[i], i)}
<1>0. N \in Nat
  BY AddrSpaceAssumption
<1>1. 0 \in T
  <2>1. scan[0] = FirstZero
    BY FirstScanEquation
  <2>2. OpenChunk(used, 0, 0)
    BY DEF OpenChunk
  <2>3. \A h \in fit : h[2] >= 0 - 1
    <3> SUFFICES ASSUME NEW h \in fit PROVE h[2] >= 0 - 1
      OBVIOUS
    <3>1. h[1] \in Int /\ h[2] \in Int /\ <<h[1], h[2]>> \in fit
      BY HoleIsPair
    <3> QED BY <3>1, HoleFacts
  <2> HIDE DEF scan
  <2> QED BY <2>1, <2>2, <2>3 DEF FirstInv, FirstZero, FirstState, NoSpace
<1>2. ASSUME NEW i \in Nat, i \in T
      PROVE  i + 1 \in T
  <2> SUFFICES ASSUME i + 1 <= N PROVE FirstInv(used, n, scan[i + 1], i + 1)
    OBVIOUS
  <2>1. i + 1 \in 1..N /\ i + 1 - 1 = i
    BY <1>0
  <2>2. scan[i + 1] = FirstStep(used, n, scan[i], i + 1)
    BY <2>1, FirstScanEquation
  <2>3. FirstInv(used, n, scan[i], i)
    BY <1>0, <1>2
  <2> HIDE DEF scan
  <2> QED BY <2>1, <2>2, <2>3, FirstStepInv
<1>3. N \in T
  <2> HIDE DEF T, N
  <2> QED BY <1>0, <1>1, <1>2, SetInduction
<1> DEFINE last == scan[N]
<1>4. FirstInv(used, n, last, N) /\ a = FirstResult(n, last)
  BY <1>0, <1>3, FirstFitScan
<1> HIDE DEF last, a
<1>5. last \in FirstState /\ NoSpace = -1
  BY <1>4 DEF FirstInv, NoSpace
<1>6. CASE last.StartHere # NoSpace
  <2>1. a = last.StartHere
    BY <1>4, <1>6 DEF FirstResult
  <2>2. a \in Starts(fit) /\ \A b \in Starts(fit) : a <= b
    BY <1>4, <1>6, <2>1 DEF FirstInv
  <2>3. fit # {}
    BY <2>2 DEF Starts
  <2> QED BY <2>2, <2>3 DEF a
<1>7. CASE last.StartHere = NoSpace
  <2> DEFINE c == last.chunk
  <2>1. /\ OpenChunk(used, c, N) /\ c \in Int
        /\ c > 0 => last.startingAddress = N - c
        /\ \A h \in fit : h[2] >= N - 1
    BY <1>4, <1>5, <1>7 DEF FirstInv, FirstState
  <2>2. ASSUME NEW h \in fit
        PROVE  h[1] = N - c /\ c >= n
    <3>1. h[1] \in Int /\ h[2] \in Int /\ <<h[1], h[2]>> \in fit
      BY HoleIsPair
    <3>2. /\ 0 <= h[1] /\ h[1] <= h[2] /\ h[2] < N /\ h[2] - h[1] + 1 >= n
          /\ \A f \in h[1]..h[2] : f \notin used
          /\ h[1] - 1 \in used \cup {-1}
      BY <3>1, HoleFacts
    <3>3. h[2] = N - 1
      BY <1>0, <2>1, <3>1, <3>2
    <3>4. ~ h[1] < N - c
      <4> SUFFICES ASSUME h[1] < N - c PROVE FALSE
        OBVIOUS
      <4>1. N - c - 1 \in h[1]..h[2] /\ N - c - 1 # -1
        BY <1>0, <2>1, <3>1, <3>2, <3>3 DEF OpenChunk
      <4> QED BY <2>1, <3>2, <4>1 DEF OpenChunk
    <3>5. ~ h[1] > N - c
      <4> SUFFICES ASSUME h[1] > N - c PROVE FALSE
        OBVIOUS
      <4>1. h[1] - 1 \in (N - c)..(N - 1) /\ h[1] - 1 # -1
        BY <1>0, <2>1, <3>1, <3>2, <3>3 DEF OpenChunk
      <4> QED BY <2>1, <3>2, <4>1 DEF OpenChunk
    <3> QED BY <1>0, <2>1, <3>1, <3>2, <3>3, <3>4, <3>5
  <2>3. CASE c >= n
    <3>1. a = N - c
      BY <1>4, <1>7, <2>1, <2>3 DEF FirstResult
    <3>2. <<N - c, N - 1>> \in fit
      <4>1. N - c \in Int /\ N - 1 \in Int
        BY <1>0, <2>1
      <4> QED BY <1>0, <2>1, <2>3, <4>1, HoleFacts DEF OpenChunk
    <3>3. a \in Starts(fit) /\ fit # {}
      BY <3>1, <3>2 DEF Starts
    <3>4. \A b \in Starts(fit) : a <= b
      BY <1>0, <2>1, <2>2, <3>1 DEF Starts
    <3> QED BY <3>3, <3>4 DEF a
  <2>4. CASE ~(c >= n)
    <3>1. a = NoSpace
      BY <1>4, <1>7, <2>4 DEF FirstResult
    <3>2. fit = {}
      BY <2>2, <2>4
    <3> QED BY <3>1, <3>2 DEF a
  <2> QED BY <2>3, <2>4
<1> QED BY <1>6, <1>7

-----------------------------------------------------------------------------
(***************************************************************************)
(* Best fit and worst fit                                                  *)
(***************************************************************************)

\* One turn of the loop of BestFit (worst = FALSE) and WorstFit, its start, and
\* what it returns.
FitZero == [chunk |-> 0, startingAddress |-> 0, StartHere |-> NoSpace, fit |-> 0]

FitStep(used, n, worst, s, i) ==
    LET g == Grow(s, i - 1)
    IN  IF (i - 1) \in used THEN [s EXCEPT !.chunk = 0]
        ELSE IF /\ g.chunk >= n
                /\ g.fit = 0 \/ IF worst THEN g.chunk > g.fit ELSE g.chunk < g.fit
             THEN [g EXCEPT !.fit = g.chunk, !.StartHere = g.startingAddress]
             ELSE g

FitScan(used, n, worst) ==
    CHOOSE scan : scan = [i \in 0..NumPhysPages |->
                             IF i = 0 THEN FitZero
                             ELSE FitStep(used, n, worst, scan[i - 1], i)]

FitResult(used, n, last) ==
    IF last.fit >= n /\ (NumPhysPages - 1) \notin used THEN last.StartHere ELSE NoSpace

\* BestFit and WorstFit are FitResult of the last turn.
LEMMA FitScanResult ==
    \A used, n :
        /\ BestFit(used, n) = FitResult(used, n, FitScan(used, n, FALSE)[NumPhysPages])
        /\ WorstFit(used, n) = FitResult(used, n, FitScan(used, n, TRUE)[NumPhysPages])
BY DEF BestFit, WorstFit, FitLoop, FitResult, FitScan, FitZero, FitStep

FitState == [chunk : Int, startingAddress : Int, StartHere : Int, fit : Int]

\* Grow on the state of BestFit and WorstFit, field by field.
LEMMA FitGrow ==
    ASSUME NEW s \in FitState, NEW f \in Int
    PROVE  Grow(s, f) = [chunk |-> s.chunk + 1,
                         startingAddress |-> IF s.chunk = 0 THEN f ELSE s.startingAddress,
                         StartHere |-> s.StartHere, fit |-> s.fit]
<1> DEFINE t == [s EXCEPT !.chunk = s.chunk + 1]
<1>1. Grow(s, f) = [t EXCEPT !.startingAddress = IF s.chunk = 0 THEN f ELSE s.startingAddress]
  BY Zenon DEF Grow
<1>2. t = [chunk |-> s.chunk + 1, startingAddress |-> s.startingAddress,
           StartHere |-> s.StartHere, fit |-> s.fit]
  BY DEF FitState
<1>3. t \in FitState
  BY <1>2 DEF FitState
<1> HIDE DEF t
<1> QED BY <1>1, <1>2, <1>3 DEF FitState

\* A turn of the loop, field by field: after a used frame the chunk is empty;
\* a free frame makes it longer, and a better one is remembered.
LEMMA FitStepFields ==
    ASSUME NEW used, NEW n \in Nat, NEW worst \in BOOLEAN, NEW s \in FitState, NEW i \in Int
    PROVE  LET c == s.chunk + 1
               from == IF s.chunk = 0 THEN i - 1 ELSE s.startingAddress
               better == s.fit = 0 \/ IF worst THEN c > s.fit ELSE c < s.fit
           IN  FitStep(used, n, worst, s, i) =
                  IF (i - 1) \in used
                  THEN [chunk |-> 0, startingAddress |-> s.startingAddress,
                        StartHere |-> s.StartHere, fit |-> s.fit]
                  ELSE IF c >= n /\ better
                  THEN [chunk |-> c, startingAddress |-> from, StartHere |-> from, fit |-> c]
                  ELSE [chunk |-> c, startingAddress |-> from,
                        StartHere |-> s.StartHere, fit |-> s.fit]
<1> DEFINE c == s.chunk + 1
<1> DEFINE from == IF s.chunk = 0 THEN i - 1 ELSE s.startingAddress
<1> DEFINE better == s.fit = 0 \/ IF worst THEN c > s.fit ELSE c < s.fit
<1> DEFINE g == Grow(s, i - 1)
<1>1. g = [chunk |-> c, startingAddress |-> from, StartHere |-> s.StartHere, fit |-> s.fit]
  BY FitGrow
<1>2. c \in Int /\ from \in Int /\ s.fit \in Int /\ s.StartHere \in Int
  BY DEF FitState
<1>3. CASE (i - 1) \in used
  <2>1. FitStep(used, n, worst, s, i) = [s EXCEPT !.chunk = 0]
    BY <1>3 DEF FitStep
  <2> QED BY <1>3, <2>1 DEF FitState
<1>4. CASE (i - 1) \notin used
  <2> HIDE DEF g, c, from
  <2>1. g.chunk = c /\ g.fit = s.fit /\ g.startingAddress = from
    BY <1>1
  <2>2. FitStep(used, n, worst, s, i) =
           IF g.chunk >= n /\ (g.fit = 0 \/ IF worst THEN g.chunk > g.fit ELSE g.chunk < g.fit)
           THEN [g EXCEPT !.fit = g.chunk, !.StartHere = g.startingAddress] ELSE g
    BY <1>4, Zenon DEF FitStep, g
  <2> DEFINE t == [g EXCEPT !.fit = c]
  <2>3. [g EXCEPT !.fit = c, !.StartHere = from] = [t EXCEPT !.StartHere = from]
    BY Zenon
  <2>4. t = [chunk |-> c, startingAddress |-> from, StartHere |-> s.StartHere, fit |-> c]
    BY <1>1
  <2> HIDE DEF t
  <2>5. [t EXCEPT !.StartHere = from] =
           [chunk |-> c, startingAddress |-> from, StartHere |-> from, fit |-> c]
    BY <2>4
  <2>6. FitStep(used, n, worst, s, i) =
           IF c >= n /\ better
           THEN [chunk |-> c, startingAddress |-> from, StartHere |-> from, fit |-> c]
           ELSE [chunk |-> c, startingAddress |-> from,
                 StartHere |-> s.StartHere, fit |-> s.fit]
    <3>1. CASE c >= n /\ better
      <4>1. FitStep(used, n, worst, s, i) = [g EXCEPT !.fit = c, !.StartHere = from]
        BY <2>1, <2>2, <3>1
      <4> QED BY <2>3, <2>5, <3>1, <4>1
    <3>2. CASE ~(c >= n /\ better)
      <4>1. FitStep(used, n, worst, s, i) = g
        BY <2>1, <2>2, <3>2
      <4> QED BY <1>1, <3>2, <4>1
    <3> QED BY <3>1, <3>2
  <2> QED BY <1>4, <2>6 DEF c, from
<1> QED BY <1>3, <1>4

\* The loop of BestFit and WorstFit is well defined.
LEMMA FitScanEquation ==
    ASSUME NEW used, NEW n \in Nat, NEW worst \in BOOLEAN
    PROVE  /\ FitScan(used, n, worst)[0] = FitZero
           /\ \A i \in 1..NumPhysPages :
                  FitScan(used, n, worst)[i] =
                      FitStep(used, n, worst, FitScan(used, n, worst)[i - 1], i)
<1> DEFINE N == NumPhysPages
<1> DEFINE F == [p \in FitState \X (1..N) |-> FitStep(used, n, worst, p[1], p[2])]
<1> DEFINE Eq(g) == g = [i \in 0..N |-> IF i = 0 THEN FitZero
                                       ELSE FitStep(used, n, worst, g[i - 1], i)]
<1>0. N \in Nat
  BY AddrSpaceAssumption
<1>1. FitZero \in FitState
  BY DEF FitZero, FitState, NoSpace
<1>2. ASSUME NEW s \in FitState, NEW i \in 1..N
      PROVE  FitStep(used, n, worst, s, i) \in FitState
  BY <1>0, FitStepFields DEF FitState
<1>3. F \in [FitState \X (1..N) -> FitState]
  BY <1>2
<1>4. PICK g : Recursion(N, FitState, FitZero, F, g)
  <2> HIDE DEF F
  <2> QED BY <1>0, <1>1, <1>3, RecursiveFunction
<1>5. \A i \in 1..N : /\ i - 1 \in 0..N
                      /\ F[<<g[i - 1], i>>] = FitStep(used, n, worst, g[i - 1], i)
  BY <1>0, <1>4 DEF Recursion
<1>6. Eq(g)
  <2> HIDE DEF F
  <2>1. ASSUME NEW i \in 0..N
        PROVE  g[i] = IF i = 0 THEN FitZero ELSE FitStep(used, n, worst, g[i - 1], i)
    <3>1. i # 0 => i \in 1..N
      BY <1>0
    <3> QED BY <1>4, <1>5, <3>1 DEF Recursion
  <2> QED BY <1>4, <2>1 DEF Recursion
<1>7. Eq(FitScan(used, n, worst))
  <2> HIDE DEF F
  <2> QED BY <1>6 DEF FitScan
<1> HIDE DEF F
<1> QED BY <1>0, <1>7

Free(used, a, b) == \A f \in a..b : f \notin used

\* What the loop of BestFit and WorstFit knows after i turns: the place it
\* remembers is free and large enough; in worst fit no free run of frames
\* among those looked at is longer.
FitInv(used, n, worst, s, i) ==
    /\ s \in FitState
    /\ OpenChunk(used, s.chunk, i)
    /\ s.chunk > 0 => s.startingAddress = i - s.chunk
    /\ s.fit \in 0..i
    /\ s.fit > 0 => /\ s.fit >= n
                    /\ s.StartHere \in 0..(i - s.fit)
                    /\ Free(used, s.StartHere, s.StartHere + s.fit - 1)
    /\ worst => \A a, b \in 0..(i - 1) :
                    Free(used, a, b) /\ b - a + 1 >= n => b - a + 1 <= s.fit

\* A turn of the loop of BestFit and WorstFit keeps FitInv.
LEMMA FitStepInv ==
    ASSUME NEW used \in SUBSET Frames, NEW n \in Nat \ {0}, NEW worst \in BOOLEAN, NEW s,
           NEW i \in 1..NumPhysPages, FitInv(used, n, worst, s, i - 1)
    PROVE  FitInv(used, n, worst, FitStep(used, n, worst, s, i), i)
<1> NumPhysPages \in Nat
  BY AddrSpaceAssumption
<1> DEFINE t == FitStep(used, n, worst, s, i)
<1> DEFINE c == s.chunk + 1
<1> DEFINE from == IF s.chunk = 0 THEN i - 1 ELSE s.startingAddress
<1>1. s \in FitState /\ s.chunk \in Int /\ s.fit \in Int /\ s.StartHere \in Int
  BY DEF FitInv, FitState
<1>2. /\ OpenChunk(used, s.chunk, i - 1)
      /\ s.chunk > 0 => s.startingAddress = i - 1 - s.chunk
      /\ s.fit \in 0..(i - 1)
      /\ s.fit > 0 => /\ s.fit >= n
                      /\ s.StartHere \in 0..(i - 1 - s.fit)
                      /\ Free(used, s.StartHere, s.StartHere + s.fit - 1)
      /\ worst => \A a, b \in 0..(i - 1 - 1) :
                      Free(used, a, b) /\ b - a + 1 >= n => b - a + 1 <= s.fit
  BY DEF FitInv
<1>3. ASSUME (i - 1) \in used
      PROVE  FitInv(used, n, worst, t, i)
  <2>1. t = [chunk |-> 0, startingAddress |-> s.startingAddress,
             StartHere |-> s.StartHere, fit |-> s.fit]
    BY <1>1, <1>3, FitStepFields
  <2>2. t \in FitState /\ t.chunk = 0 /\ t.fit = s.fit /\ t.StartHere = s.StartHere
    BY <1>1, <2>1 DEF FitState
  <2>3. OpenChunk(used, 0, i)
    BY <1>3 DEF OpenChunk
  <2>4. ASSUME worst, NEW a \in 0..(i - 1), NEW b \in 0..(i - 1),
               Free(used, a, b), b - a + 1 >= n
        PROVE  b - a + 1 <= s.fit
    <3>1. b # i - 1
      BY <1>3, <2>4 DEF Free
    <3> QED BY <1>2, <2>4, <3>1
  <2>5. /\ s.fit \in 0..i
        /\ s.fit > 0 => s.StartHere \in 0..(i - s.fit)
    BY <1>1, <1>2
  <2> HIDE DEF t
  <2>6. t.fit > 0 => /\ t.fit >= n
                     /\ t.StartHere \in 0..(i - t.fit)
                     /\ Free(used, t.StartHere, t.StartHere + t.fit - 1)
    BY <1>2, <2>2, <2>5
  <2>7. worst => \A a, b \in 0..(i - 1) :
                     Free(used, a, b) /\ b - a + 1 >= n => b - a + 1 <= t.fit
    BY <2>2, <2>4
  <2>8. OpenChunk(used, t.chunk, i) /\ ~ t.chunk > 0 /\ t.fit \in 0..i
    BY <2>2, <2>3, <2>5
  <2>9. t.chunk > 0 => t.startingAddress = i - t.chunk
    BY <2>8
  <2> QED BY <2>2, <2>6, <2>7, <2>8, <2>9 DEF FitInv
<1>4. ASSUME (i - 1) \notin used
      PROVE  FitInv(used, n, worst, t, i)
  <2>1. from = i - c
    BY <1>1, <1>2 DEF OpenChunk
  <2>2. OpenChunk(used, c, i)
    BY <1>1, <1>2, <1>4 DEF OpenChunk
  <2>3. ASSUME NEW a \in 0..(i - 1), Free(used, a, i - 1)
        PROVE  i - a <= c
    <3>1. ~ a <= i - c - 1
      BY <1>1, <2>2, <2>3 DEF OpenChunk, Free
    <3> QED BY <1>1, <3>1
  <2>4. t.chunk = c /\ t.startingAddress = i - c /\ t \in FitState
    BY <1>1, <1>4, <2>1, FitStepFields DEF FitState
  <2>5. CASE c >= n /\ (s.fit = 0 \/ IF worst THEN c > s.fit ELSE c < s.fit)
    <3>1. t.fit = c /\ t.StartHere = i - c
      BY <1>1, <1>4, <2>1, <2>5, FitStepFields
    <3>2. Free(used, i - c, i - 1) /\ c \in 0..i
      BY <2>2 DEF OpenChunk, Free
    <3>3. ASSUME worst, NEW a \in 0..(i - 1), NEW b \in 0..(i - 1),
                 Free(used, a, b), b - a + 1 >= n
          PROVE  b - a + 1 <= c
      <4>1. CASE b = i - 1
        BY <2>3, <3>3, <4>1
      <4>2. CASE b # i - 1
        BY <1>1, <1>2, <2>5, <3>3, <4>2
      <4> QED BY <4>1, <4>2
    <3> HIDE DEF t, c, from
    <3>4. i - c + c - 1 = i - 1 /\ i - c \in 0..(i - c)
      BY <3>2
    <3> QED BY <2>2, <2>4, <2>5, <3>1, <3>2, <3>3, <3>4 DEF FitInv
  <2>6. CASE ~(c >= n /\ (s.fit = 0 \/ IF worst THEN c > s.fit ELSE c < s.fit))
    <3>1. t.fit = s.fit /\ t.StartHere = s.StartHere
      BY <1>1, <1>4, <2>1, <2>6, FitStepFields
    <3>2. ASSUME worst, NEW a \in 0..(i - 1), NEW b \in 0..(i - 1),
                 Free(used, a, b), b - a + 1 >= n
          PROVE  b - a + 1 <= s.fit
      <4>1. CASE b = i - 1
        BY <1>1, <2>3, <2>6, <3>2, <4>1
      <4>2. CASE b # i - 1
        BY <1>1, <1>2, <3>2, <4>2
      <4> QED BY <4>1, <4>2
    <3> HIDE DEF t, c, from
    <3> QED BY <1>1, <1>2, <2>2, <2>4, <3>1, <3>2 DEF FitInv
  <2> QED BY <2>5, <2>6
<1> QED BY <1>3, <1>4

\* FitInv holds when the loop ends.
LEMMA FitEnds ==
    ASSUME NEW used \in SUBSET Frames, NEW n \in Nat \ {0}, NEW worst \in BOOLEAN
    PROVE  FitInv(used, n, worst, FitScan(used, n, worst)[NumPhysPages], NumPhysPages)
<1> DEFINE N == NumPhysPages
<1> DEFINE scan == FitScan(used, n, worst)
<1> DEFINE T == {i \in Nat : i <= N => FitInv(used, n, worst, scan[i], i)}
<1>0. N \in Nat
  BY AddrSpaceAssumption
<1>1. 0 \in T
  <2>1. scan[0] = FitZero
    BY FitScanEquation
  <2>2. OpenChunk(used, 0, 0)
    BY DEF OpenChunk
  <2> HIDE DEF scan
  <2> QED BY <2>1, <2>2 DEF FitInv, FitZero, FitState, NoSpace
<1>2. ASSUME NEW i \in Nat, i \in T
      PROVE  i + 1 \in T
  <2> SUFFICES ASSUME i + 1 <= N PROVE FitInv(used, n, worst, scan[i + 1], i + 1)
    OBVIOUS
  <2>1. i + 1 \in 1..N /\ i + 1 - 1 = i
    BY <1>0
  <2>2. scan[i + 1] = FitStep(used, n, worst, scan[i], i + 1)
    <3>1. scan[i + 1] = FitStep(used, n, worst, scan[i + 1 - 1], i + 1)
      <4>1. \A j \in 1..NumPhysPages : scan[j] = FitStep(used, n, worst, scan[j - 1], j)
        BY FitScanEquation
      <4> HIDE DEF scan
      <4> QED BY <2>1, <4>1
    <3> QED BY <2>1, <3>1
  <2>3. FitInv(used, n, worst, scan[i], i)
    BY <1>0, <1>2
  <2> HIDE DEF scan
  <2> QED BY <2>1, <2>2, <2>3, FitStepInv
<1>3. N \in T
  <2> HIDE DEF T, N
  <2> QED BY <1>0, <1>1, <1>2, SetInduction
<1> QED BY <1>0, <1>3

-----------------------------------------------------------------------------
(***************************************************************************)
(* What the three algorithms promise, and the address spaces               *)
(***************************************************************************)

\* Whatever the algorithm, the place found is inside memory and free.
LEMMA PlaceFound ==
    ASSUME NEW alg \in {"FirstFit", "BestFit", "WorstFit"},
           NEW used \in SUBSET Frames, NEW n \in Nat \ {0},
           MemoryAllocation(alg, used, n) # NoSpace
    PROVE  LET a == MemoryAllocation(alg, used, n)
           IN  a \in Frames /\ a + n <= NumPhysPages /\ Free(used, a, a + n - 1)
<1> NumPhysPages \in Nat
  BY AddrSpaceAssumption
<1> DEFINE a == MemoryAllocation(alg, used, n)
<1>1. CASE alg = "FirstFit"
  <2>1. a = FirstFit(used, n)
    BY <1>1 DEF MemoryAllocation
  <2>2. a \in Starts(Fitting(used, n))
    BY <2>1, FirstFitCorrect
  <2> HIDE DEF a
  <2>3. PICK h \in Fitting(used, n) : h[1] = a
    BY <2>2 DEF Starts
  <2>4. h[1] \in Int /\ h[2] \in Int /\ <<h[1], h[2]>> \in Fitting(used, n)
    BY HoleIsPair
  <2>5. /\ 0 <= h[1] /\ h[1] <= h[2] /\ h[2] < NumPhysPages /\ h[2] - h[1] + 1 >= n
        /\ \A f \in h[1]..h[2] : f \notin used
    BY <2>4, HoleFacts
  <2>6. a \in Frames /\ a + n <= NumPhysPages /\ Free(used, a, a + n - 1)
    BY <2>3, <2>4, <2>5 DEF Frames, Free
  <2> QED BY <2>6 DEF a
<1>2. ASSUME NEW worst \in BOOLEAN,
             a = FitResult(used, n, FitScan(used, n, worst)[NumPhysPages])
      PROVE  a \in Frames /\ a + n <= NumPhysPages /\ Free(used, a, a + n - 1)
  <2> DEFINE last == FitScan(used, n, worst)[NumPhysPages]
  <2>1. FitInv(used, n, worst, last, NumPhysPages)
    BY FitEnds
  <2>2. last.fit >= n /\ a = last.StartHere
    BY <1>2 DEF FitResult
  <2> HIDE DEF last, a
  <2>3. /\ last.fit \in Int /\ a \in 0..(NumPhysPages - last.fit)
        /\ Free(used, a, a + last.fit - 1)
    BY <2>1, <2>2 DEF FitInv, FitState
  <2> QED BY <2>2, <2>3 DEF Free, Frames
<1>3. CASE alg = "BestFit"
  <2>1. a = FitResult(used, n, FitScan(used, n, FALSE)[NumPhysPages])
    BY <1>3, FitScanResult DEF MemoryAllocation
  <2> QED BY <1>2, <2>1
<1>4. CASE alg = "WorstFit"
  <2>1. a = FitResult(used, n, FitScan(used, n, TRUE)[NumPhysPages])
    BY <1>4, FitScanResult DEF MemoryAllocation
  <2> QED BY <1>2, <2>1
<1> QED BY <1>1, <1>3, <1>4

\* Worst fit finds a longest run of free frames, which is a hole
\* (AddrSpace::WorstFit).
LEMMA WorstFitCorrect ==
    ASSUME NEW used \in SUBSET Frames, NEW n \in Nat \ {0}, WorstFit(used, n) # NoSpace
    PROVE  \E h \in Holes(used) :
               h[1] = WorstFit(used, n) /\ \A g \in Holes(used) : Length(g) <= Length(h)
<1> NumPhysPages \in Nat \ {0}
  BY AddrSpaceAssumption
<1> DEFINE N == NumPhysPages
<1> DEFINE last == FitScan(used, n, TRUE)[NumPhysPages]
<1> DEFINE a == WorstFit(used, n)
<1> DEFINE b == a + last.fit - 1
<1>1. a = FitResult(used, n, last)
  BY FitScanResult
<1>2. FitInv(used, n, TRUE, last, N)
  BY FitEnds
<1>3. last.fit >= n /\ a = last.StartHere
  BY <1>1 DEF FitResult
<1> HIDE DEF last, a
<1>4. /\ last.fit \in Int /\ a \in 0..(N - last.fit)
      /\ Free(used, a, a + last.fit - 1)
      /\ \A x, y \in 0..(N - 1) :
            Free(used, x, y) /\ y - x + 1 >= n => y - x + 1 <= last.fit
  BY <1>2, <1>3 DEF FitInv, FitState
<1>5. a \in Frames /\ b \in Frames /\ a <= b
  BY <1>3, <1>4 DEF Frames
<1>6. a - 1 \in used \cup {-1}
  <2> SUFFICES ASSUME a - 1 \notin used, a # 0 PROVE FALSE
    BY <1>5 DEF Frames
  <2>1. Free(used, a - 1, b) /\ a - 1 \in 0..(N - 1) /\ b \in 0..(N - 1)
    BY <1>4, <1>5 DEF Free, Frames
  <2> QED BY <1>3, <1>4, <2>1
<1>7. b + 1 \in used \cup {N}
  <2> SUFFICES ASSUME b + 1 \notin used, b # N - 1 PROVE FALSE
    BY <1>5 DEF Frames
  <2>1. Free(used, a, b + 1) /\ a \in 0..(N - 1) /\ b + 1 \in 0..(N - 1)
    BY <1>4, <1>5 DEF Free, Frames
  <2> QED BY <1>3, <1>4, <2>1
<1>8. <<a, b>> \in Holes(used) /\ Length(<<a, b>>) = last.fit
  BY <1>4, <1>5, <1>6, <1>7 DEF Holes, FreeRun, Free, Length
<1>9. ASSUME NEW g \in Holes(used)
      PROVE  Length(g) <= last.fit
  <2>1. g[1] \in Frames /\ g[2] \in Frames /\ FreeRun(used, g[1], g[2])
    BY DEF Holes
  <2>2. Free(used, g[1], g[2]) /\ g[1] \in 0..(N - 1) /\ g[2] \in 0..(N - 1)
    BY <2>1 DEF FreeRun, Free, Frames
  <2> QED BY <1>3, <1>4, <2>2 DEF Length
<1> QED BY <1>8, <1>9 DEF a

\* An algorithm is selected and no bit outside memory is marked.
Memory == MemAll \in Algorithms /\ MainMemMap \subseteq Frames

\* With every marked frame inside memory, the algorithms are right.
LEMMA FitIsRightInMemory == Memory => FitIsRight
<1> SUFFICES ASSUME Memory PROVE FitIsRight
  OBVIOUS
<1>1. /\ MemAll \in {"FirstFit", "BestFit", "WorstFit"}
      /\ MainMemMap \in SUBSET Frames /\ Sizes \subseteq Nat \ {0} /\ NumPhysPages \in Nat
  BY AddrSpaceAssumption DEF Memory
<1>2. PlaceIsFree
  <2> SUFFICES ASSUME NEW n \in Sizes, MemoryAllocation(MemAll, MainMemMap, n) # NoSpace
               PROVE  LET a == MemoryAllocation(MemAll, MainMemMap, n)
                      IN  a + n <= NumPhysPages /\ FreeRun(MainMemMap, a, a + n - 1)
    BY DEF PlaceIsFree
  <2> DEFINE a == MemoryAllocation(MemAll, MainMemMap, n)
  <2>1. a \in Frames /\ a + n <= NumPhysPages /\ Free(MainMemMap, a, a + n - 1) /\ n \in Nat \ {0}
    BY <1>1, PlaceFound
  <2> HIDE DEF a
  <2>2. FreeRun(MainMemMap, a, a + n - 1)
    BY <1>1, <2>1 DEF FreeRun, Free, Frames
  <2> QED BY <2>1, <2>2 DEF a
<1>3. FirstFitIsFirst
  BY <1>1, FirstFitCorrect DEF FirstFitIsFirst
<1>4. WorstFitIsLargest
  BY <1>1, WorstFitCorrect DEF WorstFitIsLargest
<1> QED BY <1>2, <1>3, <1>4 DEF FitIsRight

\* The inductive invariant.
Inv == Memory /\ FramesOwned

\* FramesOwned, frame by frame.
LEMMA OwnedByFrame ==
    FramesOwned <=>
        /\ \A f : f \in MainMemMap <=> \E sp \in spaces : f \in FramesOf(sp)
        /\ \A x, y \in spaces : \A f : f \in FramesOf(x) /\ f \in FramesOf(y) => x = y
BY DEF FramesOwned

\* The frames of an address space are numPages many from StartHere on.
LEMMA FramesOfInterval ==
    ASSUME NEW a \in Int, NEW n \in Int, NEW f
    PROVE  f \in FramesOf([StartHere |-> a, numPages |-> n]) <=> f \in a..(a + n - 1)
<1>1. ASSUME f \in a..(a + n - 1)
      PROVE  f - a \in 0..(n - 1) /\ f = (f - a) + a
  BY <1>1
<1> QED BY <1>1 DEF FramesOf

\* The constructor takes frames that no other address space has: it keeps Inv
\* (AddrSpace::AddrSpace).
LEMMA NewAddrSpaceKeepsInv ==
    ASSUME Inv, NEW n \in Nat \ {0}, NewAddrSpace(n)
    PROVE  /\ Inv'
           /\ \E sp \in [StartHere : Frames, numPages : {n}] :
                  /\ spaces' = spaces \cup {sp}
                  /\ sp.StartHere + n <= NumPhysPages
                  /\ \A f \in FramesOf(sp) : f \in Frames \ MainMemMap
<1> DEFINE a == MemoryAllocation(MemAll, MainMemMap, n)
<1> DEFINE sp == [StartHere |-> a, numPages |-> n]
<1>1. /\ MemAll \in {"FirstFit", "BestFit", "WorstFit"} 
      /\ MainMemMap \in SUBSET Frames /\ NumPhysPages \in Nat \ {0}
  BY AddrSpaceAssumption DEF Inv, Memory
<1>2. /\ a # NoSpace /\ MemAll' = MemAll
      /\ MainMemMap' = MainMemMap \cup FramesOf(sp)
      /\ spaces' = spaces \cup {sp}
  BY DEF NewAddrSpace
<1>3. a \in Frames /\ a + n <= NumPhysPages /\ Free(MainMemMap, a, a + n - 1)
  BY <1>1, <1>2, PlaceFound
<1> HIDE DEF a
<1>4. \A f : f \in FramesOf(sp) <=> f \in a..(a + n - 1)
  BY <1>1, <1>3, FramesOfInterval DEF Frames
<1>5. sp \in [StartHere : Frames, numPages : {n}] /\ sp.StartHere + n <= NumPhysPages
  BY <1>3
<1> HIDE DEF sp
<1>6. \A f : f \in FramesOf(sp) => f \in Frames
  BY <1>1, <1>3, <1>4 DEF Frames
<1>7. \A f : f \in FramesOf(sp) => f \notin MainMemMap
  BY <1>3, <1>4 DEF Free
<1>8. FramesOwned'
  <2>1. FramesOwned
    BY DEF Inv
  <2>2. \A f : f \in MainMemMap' <=> \E x \in spaces' : f \in FramesOf(x)
    BY <1>2, <2>1, OwnedByFrame
  <2>3. \A x, y \in spaces' : \A f : f \in FramesOf(x) /\ f \in FramesOf(y) => x = y
    BY <1>2, <1>7, <2>1, OwnedByFrame
  <2> QED BY <2>2, <2>3 DEF FramesOwned
<1> QED BY <1>2, <1>5, <1>6, <1>7, <1>8 DEF Inv, Memory

\* The destructor gives back the frames of its own address space and no
\* others: it keeps Inv (AddrSpace::~AddrSpace).
LEMMA DeleteAddrSpaceKeepsInv ==
    ASSUME Inv, NEW sp \in spaces, DeleteAddrSpace(sp)
    PROVE  Inv'
<1>1. /\ MemAll' = MemAll
      /\ MainMemMap' = MainMemMap \ FramesOf(sp)
      /\ spaces' = spaces \ {sp}
  BY DEF DeleteAddrSpace
<1>2. Memory'
  BY <1>1 DEF Inv, Memory
<1>3. FramesOwned'
  <2>1. FramesOwned
    BY DEF Inv
  <2>2. \A f : f \in MainMemMap' <=> \E x \in spaces' : f \in FramesOf(x)
    BY <1>1, <2>1, OwnedByFrame
  <2>3. \A x, y \in spaces' : \A f : f \in FramesOf(x) /\ f \in FramesOf(y) => x = y
    BY <1>1, <2>1, OwnedByFrame
  <2> QED BY <2>2, <2>3 DEF FramesOwned
<1> QED BY <1>2, <1>3 DEF Inv

\* Memory is empty at first.
LEMMA InitInv == Init => Inv
BY DEF Init, Inv, Memory, FramesOwned

\* Creating and destroying address spaces keeps Inv, whatever the order.
LEMMA NextKeepsInv == Inv /\ [Next]_vars => Inv'
<1> SUFFICES ASSUME Inv, [Next]_vars PROVE Inv'
  OBVIOUS
<1>1. CASE UNCHANGED vars
  BY <1>1 DEF vars, Inv, Memory, FramesOwned
<1>2. ASSUME NEW n \in Sizes, NewAddrSpace(n) PROVE Inv'
  BY <1>2, NewAddrSpaceKeepsInv, AddrSpaceAssumption
<1> QED BY <1>1, <1>2, DeleteAddrSpaceKeepsInv DEF Next

\* Whatever address spaces are created and destroyed in which order, a frame is
\* marked in the bitmap exactly when an address space has it, and no frame
\* belongs to two address spaces (AddrSpace::AddrSpace, ~AddrSpace).
THEOREM SpacesOwnFrames == Spec => []FramesOwned
<1>1. Inv => FramesOwned
  BY DEF Inv
<1> QED BY <1>1, InitInv, NextKeepsInv, PTL DEF Spec

\* In every state of the bitmap that creating and destroying address spaces
\* leads to, for every number of pages: the place that FirstFit, BestFit or
\* WorstFit returns is free and inside memory, FirstFit returns the lowest hole
\* that is large enough and fails only if there is none, and WorstFit returns
\* the start of a largest hole.
THEOREM AllocationIsRight == Spec => []FitIsRight
<1>1. Inv => FitIsRight
  BY FitIsRightInMemory DEF Inv
<1> QED BY <1>1, InitInv, NextKeepsInv, PTL DEF Spec

\* Every address space lies inside memory and has one of the sizes asked for.
THEOREM SpacesInsideMemory == Spec => []TypeOK
<1>1. Init => TypeOK
  BY DEF Init, TypeOK
<1>2. Inv /\ TypeOK /\ [Next]_vars => TypeOK'
  <2> SUFFICES ASSUME Inv, TypeOK, [Next]_vars PROVE TypeOK'
    OBVIOUS
  <2>1. Inv'
    BY NextKeepsInv
  <2>2. CASE UNCHANGED vars
    BY <2>2 DEF vars, TypeOK
  <2>3. ASSUME NEW n \in Sizes, NewAddrSpace(n) PROVE TypeOK'
    BY <2>1, <2>3, NewAddrSpaceKeepsInv, AddrSpaceAssumption DEF TypeOK, Inv, Memory
  <2>4. ASSUME NEW sp \in spaces, DeleteAddrSpace(sp) PROVE TypeOK'
    BY <2>1, <2>4 DEF DeleteAddrSpace, TypeOK, Inv, Memory
  <2> QED BY <2>2, <2>3, <2>4 DEF Next
<1> QED BY <1>1, <1>2, InitInv, NextKeepsInv, PTL DEF Spec
=============================================================================
