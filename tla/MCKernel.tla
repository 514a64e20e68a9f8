------------------------------ MODULE MCKernel ------------------------------
(***************************************************************************)
(* Three threads, one semaphore that a device also V's, one that only      *)
(* threads use.                                                            *)
(***************************************************************************)
EXTENDS Kernel

CONSTANTS mutex, done

\* A mutex starts at 1, a completion semaphore at 0.
MCInitialValue == [s \in Sem |-> IF s = mutex THEN 1 ELSE 0]
=============================================================================
