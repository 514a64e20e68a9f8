----------------------------- MODULE AddrSpace -----------------------------
(***************************************************************************)
(* Physical memory: the three allocation algorithms, and address spaces    *)
(* that are created and destroyed (code/userprog/addrspace.cc; the bitmap  *)
(* MainMemMap is code/userprog/bitmap.cc).                                 *)
(*                                                                         *)
(* MainMemMap is the set of frames whose bit is set.  An address space is  *)
(* its first frame StartHere and its number of pages numPages; page v is   *)
(* in frame StartHere + v.                                                 *)
(***************************************************************************)
EXTENDS Integers, FiniteSets

CONSTANTS NumPhysPages,  \* number of frames
          Sizes,         \* numbers of pages that programs need
          Algorithms,    \* subset of {"FirstFit", "BestFit", "WorstFit"}
          MaxSpaces      \* BOUND: address spaces alive at one time

ASSUME AddrSpaceAssumption ==
    /\ NumPhysPages \in Nat \ {0}
    /\ Sizes \subseteq Nat \ {0}
    /\ Algorithms \subseteq {"FirstFit", "BestFit", "WorstFit"}
    /\ MaxSpaces \in Nat

Frames == 0..(NumPhysPages - 1)
NoSpace == -1

-----------------------------------------------------------------------------
(***************************************************************************)
(* The algorithms.  scan[i] is the state of the search loop when the       *)
(* frames below i have been looked at; the result is the first frame of    *)
(* the place found, or NoSpace when SpaceFound stays FALSE.                *)
(***************************************************************************)

\* Look at a free frame: the chunk grows, or starts here.
Grow(s, frame) == [s EXCEPT !.chunk = @ + 1,
                            !.startingAddress = IF s.chunk = 0 THEN frame ELSE @]

\* MUTANT of FirstFit: ">" instead of ">=" where a chunk ends.
FirstFitTooStrict(used, numPages) ==
    LET scan[i \in 0..NumPhysPages] ==
          IF i = 0
          THEN [chunk |-> 0, startingAddress |-> 0, StartHere |-> NoSpace]
          ELSE LET s == scan[i - 1] IN
               IF s.StartHere # NoSpace THEN s
               ELSE IF (i - 1) \notin used THEN Grow(s, i - 1)
               ELSE IF s.chunk > numPages
                    THEN [s EXCEPT !.StartHere = s.startingAddress]
                    ELSE [s EXCEPT !.chunk = 0]
        last == scan[NumPhysPages]
    IN  IF last.StartHere # NoSpace THEN last.StartHere
        ELSE IF last.chunk >= numPages THEN last.startingAddress
        ELSE NoSpace

\* AddrSpace::FirstFit: the chunk is tested where it ends.
FirstFit(used, numPages) ==
    LET scan[i \in 0..NumPhysPages] ==
          IF i = 0
          THEN [chunk |-> 0, startingAddress |-> 0, StartHere |-> NoSpace]
          ELSE LET s == scan[i - 1] IN
               IF s.StartHere # NoSpace THEN s
               ELSE IF (i - 1) \notin used THEN Grow(s, i - 1)
               ELSE IF s.chunk >= numPages
                    THEN [s EXCEPT !.StartHere = s.startingAddress]
                    ELSE [s EXCEPT !.chunk = 0]
        last == scan[NumPhysPages]
    IN  IF last.StartHere # NoSpace THEN last.StartHere
        ELSE IF last.chunk >= numPages THEN last.startingAddress
        ELSE NoSpace

\* The loop of BestFit and WorstFit: the chunk is tested each time it grows.
\* SpaceFound is set only in the turn of the outer loop in which the inner
\* one runs off the end of memory (EndOfMem), that is, if the last frame is
\* free.
FitLoop(used, numPages, Better(_, _)) ==
    LET scan[i \in 0..NumPhysPages] ==
          IF i = 0
          THEN [chunk |-> 0, startingAddress |-> 0, StartHere |-> NoSpace,
                fit |-> 0]
          ELSE LET s == scan[i - 1]
                   g == Grow(s, i - 1)
               IN  IF (i - 1) \in used THEN [s EXCEPT !.chunk = 0]
                   ELSE IF /\ g.chunk >= numPages
                           /\ g.fit = 0 \/ Better(g.chunk, g.fit)
                        THEN [g EXCEPT !.fit = g.chunk,
                                       !.StartHere = g.startingAddress]
                        ELSE g
        last == scan[NumPhysPages]
        EndOfMem == (NumPhysPages - 1) \notin used
    IN  IF last.fit >= numPages /\ EndOfMem THEN last.StartHere ELSE NoSpace

BestFit(used, numPages)  == FitLoop(used, numPages, LAMBDA c, best : c < best)

WorstFit(used, numPages) == FitLoop(used, numPages, LAMBDA c, worst : c > worst)

\* AddrSpace::MemoryAllocation
MemoryAllocation(alg, used, numPages) ==
    CASE alg = "FirstFit" -> FirstFit(used, numPages)
      [] alg = "BestFit"  -> BestFit(used, numPages)
      [] alg = "WorstFit" -> WorstFit(used, numPages)

\* The frames of an address space.
FramesOf(sp) == {i + sp.StartHere : i \in 0..(sp.numPages - 1)}

-----------------------------------------------------------------------------
VARIABLES MemAll,      \* the algorithm selected at the start
          MainMemMap,  \* the frames marked in the bitmap
          spaces       \* the address spaces alive

vars == <<MemAll, MainMemMap, spaces>>

\* StartProcess: MemAlloAlgSelect, and an empty bitmap.
Init == MemAll \in Algorithms /\ MainMemMap = {} /\ spaces = {}

\* The constructor: frames are marked only if space was found.
NewAddrSpace(n) ==
    LET start == MemoryAllocation(MemAll, MainMemMap, n)
        sp == [StartHere |-> start, numPages |-> n]
    IN  /\ Cardinality(spaces) < MaxSpaces
        /\ start # NoSpace
        /\ MainMemMap' = MainMemMap \cup FramesOf(sp)
        /\ spaces' = spaces \cup {sp}
        /\ UNCHANGED MemAll

\* MUTANT of DeleteAddrSpace: the last frame stays marked.
DeleteLeavesLast(sp) ==
    /\ MainMemMap' = MainMemMap \ {i + sp.StartHere : i \in 0..(sp.numPages - 2)}
    /\ spaces' = spaces \ {sp}
    /\ UNCHANGED MemAll

\* The destructor clears the bits of its frames.
DeleteAddrSpace(sp) ==
    /\ MainMemMap' = MainMemMap \ FramesOf(sp)
    /\ spaces' = spaces \ {sp}
    /\ UNCHANGED MemAll

Next ==
    \/ \E n \in Sizes : NewAddrSpace(n)
    \/ \E sp \in spaces : DeleteAddrSpace(sp)

Spec == Init /\ [][Next]_vars

-----------------------------------------------------------------------------
(***************************************************************************)
(* Reference definitions: the maximal runs of free frames.                 *)
(***************************************************************************)
FreeRun(used, a, b) == a <= b /\ (a..b) \cap used = {}

Holes(used) ==
    {h \in Frames \X Frames :
        /\ FreeRun(used, h[1], h[2])
        /\ (h[1] - 1) \in used \cup {-1}
        /\ (h[2] + 1) \in used \cup {NumPhysPages}}

Length(h) == h[2] - h[1] + 1
Fitting(used, n) == {h \in Holes(used) : Length(h) >= n}
Starts(holes) == {h[1] : h \in holes}

-----------------------------------------------------------------------------
(***************************************************************************)
(* Properties                                                              *)
(***************************************************************************)

\* The frames marked and the places of the address spaces are inside memory.
TypeOK ==
    /\ MemAll \in Algorithms
    /\ MainMemMap \subseteq Frames
    /\ spaces \subseteq [StartHere : Frames, numPages : Sizes]

\* The bitmap and the address spaces agree: no frame belongs to two spaces,
\* and a frame is marked exactly when it belongs to one (Mark in the
\* constructor, Clear in the destructor).
FramesOwned ==
    /\ MainMemMap = UNION {FramesOf(sp) : sp \in spaces}
    /\ \A x, y \in spaces : x # y => FramesOf(x) \cap FramesOf(y) = {}

\* Whatever the algorithm, the place it returns is free and inside memory.
PlaceIsFree ==
    \A n \in Sizes :
        LET a == MemoryAllocation(MemAll, MainMemMap, n)
        IN  a # NoSpace => a + n <= NumPhysPages /\ FreeRun(MainMemMap, a, a + n - 1)

\* First fit finds the lowest hole that is large enough, and fails only if
\* there is none.
FirstFitIsFirst ==
    MemAll = "FirstFit" => \A n \in Sizes :
        LET fit == Fitting(MainMemMap, n)
            a == FirstFit(MainMemMap, n)
        IN  IF fit = {} THEN a = NoSpace
            ELSE a \in Starts(fit) /\ \A b \in Starts(fit) : a <= b

\* Worst fit, when it succeeds, has found a largest hole.
WorstFitIsLargest ==
    MemAll = "WorstFit" => \A n \in Sizes :
        LET a == WorstFit(MainMemMap, n)
        IN  a # NoSpace =>
                \E h \in Holes(MainMemMap) :
                    h[1] = a /\ \A g \in Holes(MainMemMap) : Length(g) <= Length(h)

\* The place an algorithm returns is the one its name promises, in whatever
\* state the creation and deletion of address spaces leaves the bitmap; a hole
\* at the end of memory counts (MemoryAllocation).  Best fit only has to return
\* a free place: it takes the first hole that is large enough.
FitIsRight == PlaceIsFree /\ FirstFitIsFirst /\ WorstFitIsLargest

\* "stay in loop until either a space is found or i've searched the entire
\* memory": worst fit finds a hole if there is one.
WorstFitFinds ==
    MemAll = "WorstFit" => \A n \in Sizes :
        Fitting(MainMemMap, n) # {} => WorstFit(MainMemMap, n) # NoSpace
=============================================================================
