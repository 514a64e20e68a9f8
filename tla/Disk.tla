-------------------------------- MODULE Disk --------------------------------
(***************************************************************************)
(* The disk (machine/disk.cc) and the threads that use it through          *)
(* SynchDisk (filesys/synchdisk.cc).  What sectors hold is left out, see   *)
(* FileSystem: the transfer happens when it is requested, and this module  *)
(* is about when the disk says so.                                         *)
(***************************************************************************)
EXTENDS Interrupts

CONSTANTS DiskNode,    \* machines with a disk in use
          DiskUser,    \* [DiskNode -> the threads that use it]
          NumSectors, SectorsPerTrack, SeekTime, RotationTime,
          NoRequest

ASSUME DiskAssumption ==
    /\ NumSectors \in Nat /\ SectorsPerTrack \in Nat \ {0}
    /\ SeekTime \in Nat \ {0} /\ RotationTime \in Nat \ {0}
    /\ \A n \in DiskNode : IsFiniteSet(DiskUser[n])

VARIABLES
    active,     \* [DiskNode -> BOOLEAN]
    lastSector, \* [DiskNode -> Sector]
    bufferInit, \* [DiskNode -> Nat], when the track buffer began to fill
    job,        \* [DiskNode -> the request that the disk is doing, or NoRequest]
    uses        \* [DiskNode -> [DiskUser[n] -> where the thread stands: at "work",
                \*  in the "P" of a request, or "done"]]

diskVars == <<active, lastSector, bufferInit, job, uses>>

Sector == 0..(NumSectors - 1)

Abs(x) == IF x < 0 THEN -x ELSE x

\* TimeToSeek: [seek, rotation], for a request made now
TimeToSeek(n, newSector) ==
    LET seek == Abs((newSector \div SectorsPerTrack) - (lastSector[n] \div SectorsPerTrack))
                    * SeekTime
        over == (totalTicks[n] + seek) % RotationTime
    IN  [seek |-> seek, rotation |-> IF over > 0 THEN RotationTime - over ELSE 0]

ModuloDiff(to, from) ==
    (((to % SectorsPerTrack) - (from % SectorsPerTrack)) + SectorsPerTrack) % SectorsPerTrack

\* The track buffer applies.
InTrackBuffer(n, newSector, writing) ==
    LET t == TimeToSeek(n, newSector)
        timeAfter == totalTicks[n] + t.seek + t.rotation
    IN  /\ ~writing
        /\ t.seek = 0
        /\ (timeAfter - bufferInit[n]) \div RotationTime
              > ModuloDiff(newSector, bufferInit[n] \div RotationTime)

\* MUTANT of ComputeLatency: the rotation is counted from now, not from the
\* end of the seek.
ComputeLatencyFromNow(n, newSector, writing) ==
    LET t == TimeToSeek(n, newSector)
    IN  IF InTrackBuffer(n, newSector, writing) THEN RotationTime
        ELSE t.seek + t.rotation + RotationTime
              + ModuloDiff(newSector, totalTicks[n] \div RotationTime) * RotationTime

ComputeLatency(n, newSector, writing) ==
    LET t == TimeToSeek(n, newSector)
        timeAfter == totalTicks[n] + t.seek + t.rotation
    IN  IF InTrackBuffer(n, newSector, writing) THEN RotationTime
        ELSE t.seek + t.rotation + RotationTime
              + ModuloDiff(newSector, timeAfter \div RotationTime) * RotationTime

UpdateLast(n, newSector) ==
    LET t == TimeToSeek(n, newSector)
    IN  /\ bufferInit' = [bufferInit EXCEPT ![n] =
                            IF t.seek # 0 THEN totalTicks[n] + t.seek + t.rotation ELSE @]
        /\ lastSector' = [lastSector EXCEPT ![n] = newSector]

DiskInit ==
    /\ active = [n \in DiskNode |-> FALSE]
    /\ lastSector = [n \in DiskNode |-> 0]
    /\ bufferInit = [n \in DiskNode |-> 0]
    /\ job = [n \in DiskNode |-> NoRequest]
    /\ uses = [n \in DiskNode |-> [u \in DiskUser[n] |-> "work"]]

\* Disk::ReadRequest and WriteRequest, up to P: no tick in between.  For the
\* properties, the job notes whose request it is, when the seek is over, whether
\* the track buffer serves it, and since when that has been filling.
Request(n, u, s, writing) ==
    /\ ~active[n]
    /\ active' = [active EXCEPT ![n] = TRUE]
    /\ UpdateLast(n, s)
    /\ job' = [job EXCEPT ![n] =
            [user |-> u, sector |-> s, ready |-> totalTicks[n] + TimeToSeek(n, s).seek,
             since |-> bufferInit[n],
             buffered |-> InTrackBuffer(n, s, writing)]]
    /\ uses' = [uses EXCEPT ![n][u] = "P"]
    /\ pending' = [pending EXCEPT ![n] =
            Schedule(@, totalTicks[n], ComputeLatency(n, s, writing), "Disk")]
    /\ UNCHANGED <<totalTicks, phase, value, yielded>>

\* ASSERT(!active): the Lock of SynchDisk has no body and keeps nobody out.
RequestAsserts(n) ==
    /\ active[n]
    /\ Abort(n)
    /\ UNCHANGED diskVars

\* Between two requests a thread does other things, and time passes whenever
\* they turn interrupts on.
DiskWorks(n, u) ==
    /\ Running(n)
    /\ uses[n][u] = "work"
    /\ OneTick(n)
    /\ UNCHANGED <<pending, value, yielded, diskVars>>

\* SynchDisk::ReadSector and WriteSector, until P
DiskStarts(n, u) ==
    /\ Running(n)
    /\ uses[n][u] = "work"
    /\ \/ \E s \in Sector, writing \in BOOLEAN : Request(n, u, s, writing)
       \/ RequestAsserts(n)

\* ... and the rest: whoever finds the semaphore available returns.
DiskReturns(n, u) ==
    /\ Running(n)
    /\ uses[n][u] = "P"
    /\ P(n, "disk")
    /\ uses' = [uses EXCEPT ![n][u] = "work"]
    /\ UNCHANGED <<active, lastSector, bufferInit, job>>

\* The thread has no more to do: Thread::Finish.
DiskFinishes(n, u) ==
    /\ Running(n)
    /\ uses[n][u] = "work"
    /\ uses' = [uses EXCEPT ![n][u] = "done"]
    /\ UNCHANGED <<machine, active, lastSector, bufferInit, job>>

\* MUTANT of RequestDone: the semaphore is set to one.
RequestDoneSets(n) == value' = [value EXCEPT ![n]["disk"] = 1]

RequestDone(n) == V(n, "disk")

\* Disk::HandleInterrupt with DiskRequestDone
HandleInterrupt(n) ==
    /\ Fires(n, "Disk")
    /\ active' = [active EXCEPT ![n] = FALSE]
    /\ job' = [job EXCEPT ![n] = NoRequest]
    /\ RequestDone(n)
    /\ pending' = [pending EXCEPT ![n] = Rest(n)]
    /\ UNCHANGED <<totalTicks, phase, yielded, lastSector, bufferInit, uses>>

\* A thread of the machine can run.
DiskCanRun(n) ==
    \E u \in DiskUser[n] :
        \/ uses[n][u] = "work"
        \/ uses[n][u] = "P" /\ value[n]["disk"] > 0
=============================================================================
