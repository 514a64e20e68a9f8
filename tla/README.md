# Nachos 3.4: a TLA+ model of the kernel, its clients, the machine and its devices

This project models the instructional operating system in `Nachos/nachos-3.4/code`
(called `code/` below): its thread kernel, the synchronisation exercises that run on it,
the user processes and physical memory that were added to it, the simulated processor, the
devices under simulated time, and the file system. The models are checked with TLC on small
instances. The kernel, the dining philosophers, the post offices, the allocation of memory, the
loading of programs, the user processes, the file system and the devices are also proved correct with
TLAPS, for every number of threads, semaphores, philosophers, people, messages, frames, bytes, processes,
sectors, files, machines, delays, characters typed and packets sent. Every safety property that the runs
check is such a theorem, but for those of the processor and the input checks (section 4 says why).

## 1. Inventory

| Part | State | Operations | Interacts with |
|---|---|---|---|
| Threads and scheduler (`threads/thread.cc`, `scheduler.cc`, `list.cc`) | `status`, `readyList`, `currentThread`, `threadToBeDestroyed`, one kernel stack per thread | `Fork`, `Yield`, `Sleep`, `Finish`, `~Thread`, `ReadyToRun`, `FindNextToRun`, `Run` | called by everything; switched by interrupts |
| Semaphores (`threads/synch.cc`) | `value`, `queue` | `P`, `V` | `Sleep`, `ReadyToRun`; V'd by device handlers |
| Locks, conditions (`threads/synch.cc`) | none: the bodies are empty | `Acquire`, `Release`, `Wait` (an `ASSERT(FALSE)`) | `SynchList`, `SynchDisk` |
| Interrupts and timer (`machine/interrupt.cc`, `timer.cc`) | interrupt level, pending list, simulated time, `yieldOnReturn` | `SetLevel`, `OneTick`, `Idle`, `Schedule`, `CheckIfDue`, `Halt` | runs handlers, forces `Yield` with `-rs` |
| Dining philosophers (`threads/threadtest.cc`, tasks 3 and 4) | chopsticks or `PhilState`, `MealLeft`, counters of who is in and who may leave | one procedure per philosopher | semaphores or `Yield` only |
| Post office (`threads/threadtest.cc`, tasks 5 and 6) | `MsgPtr`, `MailBox`, `MsgSentCnt`, `done` | one procedure per person | semaphores, `Yield` |
| Shouting, input checks (`threadtest.cc`, tasks 1 and 2) | the text typed in | `CheckType`, `CheckInputOnly`, `promptInput`, `Shout` | `Yield` |
| Physical memory (`userprog/addrspace.cc`, `bitmap.cc`) | `MainMemMap`, `StartHere`, `numPages` | `FirstFit`, `BestFit`, `WorstFit`, constructor, destructor | created by `Exec`, destroyed by `Exit` |
| Loading (`bin/coff2noff.c`, `userprog/addrspace.cc`) | the NOFF file, `mainMemory`, page table | `coff2noff`, the constructor, `LoadSegment`, `Translate` | `OpenFile::ReadAt` |
| User processes (`userprog/exception.cc`, `progtest.cc`) | the `PCB` list, `NumProcess`, `ProcessId`, one semaphore per process | `Exec`, `Join`, `Exit`, `Yield`, `Halt`, `Read`, `Write`, faults | kernel, memory |
| Machine (`machine/machine.cc`, `mipssim.cc`, `translate.cc`) | registers, load in progress, page table, TLB | `Run`, `OneInstruction`, `Translate`, `ReadMem`, `WriteMem` | `ExceptionHandler`, `OneTick` |
| Disk (`machine/disk.cc`, `filesys/synchdisk.cc`) | `active`, head position, track buffer | `ReadRequest`, `WriteRequest`, `HandleInterrupt`, `ReadSector`, `WriteSector` | interrupts, a semaphore, a lock |
| Console (`machine/console.cc`) | one character each way | `GetChar`, `PutChar`, polls | interrupts |
| File system (`filesys/*.cc`) | free map, directory, file headers | `Create`, `Open`, `Remove`, `ReadAt`, `WriteAt` | `SynchDisk` |
| Network (`machine/network.cc`, `network/post.cc`) | one packet buffer, mailboxes | `Send`, `Receive`, `PostalDelivery` | interrupts, `SynchList` |
| Stand-alone interpreter (`bin/execute.c`, `system.c`) | registers, flat memory | `runprogram`, `system_trap` | none; executes the same programs |

What is hard in this code is concurrency. The machine is a uniprocessor, and kernel code is
interrupted only where interrupts go from off to on, that is at the end of `P`, `V`, `Fork`
and `Yield`, at the start of a thread, and after every user instruction. Without `-rs` nobody
is preempted even there. So each client is written for a small number of switch points, and
is right or wrong depending on what it does between two of them. The further hazards are
sequences of `Exec` and `Exit` that corrupt a list or the bitmap, arithmetic at the borders
of pages, sectors and memory, a stop between two disk writes, devices with a buffer of one
that answer by interrupt, and instructions whose effect is delayed. `PROJECT.json` lists the hazards with
the line where they bite and the properties that would show them.

What makes each part correct:

- kernel: a thread is in one place at a time; no wakeup is lost; `P` and `V` look atomic; a
  finished thread is deleted off its own stack and never runs again; the machine halts only
  when nobody could go on; ready threads run.
- philosophers: neighbours never eat together, a meal is eaten once, all sit down and leave
  together, chopsticks come back, the dinner ends.
- post office: messages are neither lost, overwritten nor read twice, mailboxes do not
  overflow, everybody goes home.
- memory: a frame has one owner, the bitmap agrees with the address spaces, each algorithm
  finds the hole its name says; loading a segment touches nothing else.
- processes: the `PCB` lists the live processes, `Join` returns when the child has exited,
  `Exit` wakes the parent, frames are given back by their owner.
- machine: a process computes what it would compute alone, however often it is switched.
- file system: no sector is shared, none is lost, and a stop between two writes leaves files that
  can be read.
- devices: interrupts fire in order and none is lost; a request ends when the sector has passed
  the head; characters and messages are neither lost, repeated nor reordered once they are read.

## 2. Modules

| Module | Models | On top of |
|---|---|---|
| `Semaphores` | abstract: counting semaphores with atomic `Wait`, `Take`, `Give` | |
| `Kernel` | threads, scheduler, semaphores, interrupts | implements `Semaphores` |
| `KernelProofs` | the theorems about `Kernel` | `Kernel` |
| `MCKernel` | constants for TLC | `Kernel` |
| `Dinner` | abstract: who sits, eats and leaves, and the meals | |
| `Exercise` | what all exercises share: the numbers typed in, the threads, the kernel's state | |
| `DinPhilSemaphore`, `DinPhilBusyWait` | tasks 4 and 3 | `Exercise`, `Kernel` |
| `Mail` | abstract: mailboxes that lose nothing | |
| `PostOffice`, `PostOfficeSemaphore`, `PostOfficeLoop` | what tasks 5 and 6 share, task 6, task 5 | `Exercise`, `Kernel` |
| `Shouting` | tasks 1 and 2: input checks and shouting threads | `Exercise`, `Kernel` |
| `ThreadTest` | `ThreadTest()`: the task that `-A` selects runs | the exercises; implements `Dinner` and `Mail` |
| `ExerciseProofs` | the theorems about tasks 3 and 4, and what a step of tasks 5 and 6 does | `ThreadTest`, `KernelProofs` |
| `PostOfficeProofs` | the theorems about tasks 5 and 6 | `ExerciseProofs` |
| `AddrSpace` | allocation of frames | |
| `Noff` | `coff2noff`: from COFF sections to a NOFF file | |
| `LoadSegment` | the whole constructor of an address space, from the COFF file to the bytes in memory | extends `AddrSpace`, `Noff` |
| `AddrSpaceProofs`, `LoadSegmentProofs` | the theorems about them | `AddrSpace`, `LoadSegment` |
| `Process` | processes and their system calls | `Kernel`; implements `AddrSpace` |
| `ProcessProofs` | the theorems about `Process` | `Process`, `KernelProofs`, `AddrSpaceProofs` |
| `Mips` | words, the tables and `Decode`, `Mult` | |
| `Machine` | the processor shared by processes: instructions, translation, exceptions, system calls, context switch | extends `Mips`; implements `Execute` |
| `Execute` | the interpreter `bin/execute.c`, the reference for `Machine` | extends `Mips` |
| `MCMachine` | programs and constants for TLC | `Machine` |
| `Files` | abstract: named files with contents | |
| `FileSystem`, `MCFileSystem` | `code/filesys` and the bitmap; constants for TLC | implements `Files` |
| `FileSystemProofs` | the theorems about it | `FileSystem` |
| `Interrupts` | simulated time, the pending list, timer, `P` and `V` | |
| `Disk`, `Console`, `Network` | the devices with `SynchDisk`, `ConsoleTest`, `PostOffice` and `MailTest` | extend `Interrupts` |
| `Devices`, `MCDevices` | machines with their devices | `Disk`, `Console`, `Network` |
| `DevicesProofs` | the theorems about them | `Devices` |

**Kernel.** `kpc[t]` says where the kernel stack of thread `t` stands: in its own code
(`body`), about to re-enable interrupts (`enable`), inside the loop of `P`, inside `Finish`,
or before its first instruction (`new`, `root`). An action is the code between two places
where the CPU can change hands. `Fork`, `Yield`, `Finish`, `P`, `V`, `Request` and `UserTick`
are the calls of a thread; `Enable`, `TimerYield`, `TickInterrupt`, `SleepSwitch`,
`IdleInterrupt`, `IdleHalt` and `PResume` happen inside the kernel. `Run` keeps the detail
that a thread which starts in `ThreadRoot` does not execute the lines after `SWITCH`, where the
carcass is deleted. `Next` is the most general client: every thread calls what it likes. The
clients instantiate the module and reuse its actions, so everything proved about the kernel
holds below them. Simulated time is left out: the timer, and each pending device interrupt,
may fire at any tick. Devices are semaphores whose handler V's them.

**Philosophers and post office.** A step runs from the return of one kernel call to the next
call and includes it; `pc[i]` is named after the point reached. `BusyWaitingLoop` draws its
number of Yields from `StallCycles`. `DinPhilBusyWait` has the number of failed looks
(5 in the code) as the constant `Tries`. In the post office the text of a message is its number
among those sent. `NumPeople`, `M` and `S` are the globals `P`, `M` and `S` of the code.
`ThreadTest` selects one of the tasks at the start and takes its steps; variables of the other
tasks stay `Unset`, and the refinement mappings to `Dinner` and `Mail` (`SeenPlace`, `SeenMeals`, `SeenBox`,
`SeenSent`, `SeenHome`) are constant while a task of the other kind runs.

**AddrSpace, LoadSegment.** The bitmap is a set of frames. The allocation loops are recursive
functions over the frames looked at, with the loop variables as a record; `FitLoop` is what
`BestFit` and `WorstFit` share, up to the comparison. Reference definitions (`Holes`,
`Fitting`) state what a fit is without a search. `Noff` is the converter as one function from
COFF sections to a NOFF file, `LoadSegment` the constructor that reads that file: `Construct`, then
the three parts of `LoadSegment` for the code and for the initialized data, then `Return`. A byte
of the program is its offset in the COFF file, so that a byte at the wrong place shows. The
constructor makes no kernel call, so nothing else happens in between. Layouts of programs are
those of the linker script `code/test/script`, with a gap of up to the size of the stack in front
of the data; a program that `coff2noff` refuses is not loaded.

**Process.** A thread is named by its PID. The `PCB` is a sequence and one flag for the `NULL`
that removing the tail leaves in the `Next` of the element before it. `stopped` records a
`Halt`, a failed `ASSERT`, and the system call in which the kernel follows `NULL`. An exiting
process that is not in the `PCB` reads its parent from an uninitialized element: any PID, or
none. `Unlisted(c)` is the window between the `Fork` of `c` and its `Append`; `Sought(c)` is the process whose
element `Join(c)`, or the `Exit` of `c`, cannot do without. With `Orderly`, programs join only their own children and exit after them; without it they
do as they like. What a program computes, and which calls it makes, is left open.

**Shouting.** A string is a sequence of characters; `Scan` is one turn of the loop in `CheckType`,
and `TypeOf` says without a scan what the type should be. `promptInput` yields what the user can type
that passes the check. The code reads strings into buffers of one byte; the model is right as long as
the allocator of the host gives more room.

**Machine, Mips, Execute.** A step is one turn of the loop of `Machine::Run`, or a context switch, which
may come between any two. `CheckIfDue` completes a load in progress before it calls a handler: `Interrupted`
is an interrupt after which the same process goes on, and `Switch` saves registers with the load done, be it
by the timer or by `RaiseException`; so `SaveUserState` never finds one in progress. A program that uses a
loaded register in the very next instruction would see the difference; the compiler does not emit one, and
the programs of the run have none. `Machine` follows `OneInstruction` down to the delayed load and the three
program counters, `Translate` with the order of its exceptions, and `ExceptionHandler` for the calls that
change registers or memory. Faults try the same instruction again, or end in an `ASSERT`: the handler
compares the address of the name of the thread with that of a literal, so for the main thread either may
happen. `Execute` is written from `bin/execute.c` alone: no translation, no load delay, its own tables
and its own multiplication. `E(p)` maps the state of `Machine` to what process `p` sees, wherever its
registers are kept. A `Read` of a negative size reads nothing; what the assignment to
`buffer[size+1]` then overwrites (`exception.cc:558`) is left out. The width of a word is the constant `W`; half words and bytes scale with it.

**FileSystem.** A sector holds a header, the bitmap, a part of the directory, or bytes. An operation
reads at once and puts the sectors it writes, in the order of the code, into `todo`; each `WriteSector` is
a step and `Crash` may come in between. The comment in `filesys.cc` says that such a stop may corrupt the
disk, so after one in the middle of an operation the model only reads. The module takes from the same
comment that there is no concurrent access. Files are removed only when they are not open, and their
sizes are within `NumDirect`: the code checks neither.

**Interrupts, Disk, Console, Network.** Here time is modelled, and which thread runs next is left open
(`Kernel` is the other way round). A thread that the timer makes `Yield` is counted in `yielded` until
`YieldReturns`, whose `SetLevel` ticks once more; which thread that is, and so whether it is one of those named
below, is left open, which allows more than the code does. Time passes when a thread enables interrupts (`OneTick`), and jumps to
the next interrupt when none can run (`Idle`); handlers run one per step in phase `tick` or `idle`. A user of
the disk works for any number of ticks between two requests (`DiskWorks`), and ends when it likes. The
`Lock` of `SynchDisk` has no body, so a request while another is active fails `ASSERT(!active)`, which is the outcome
`abort`; one that comes after the interrupt is accepted, and then whoever is first takes the unit of the
semaphore. `job` says whose request the disk is doing; `Condition::Wait` is `ASSERT(FALSE)`, so a receiver that finds its box empty stops its machine;
`sendBusy` is tested but never set. Packets are dropped before they reach the socket and not after.

## 3. Runs

| Run | Instance | Shows |
|---|---|---|
| `kernel` | 3 threads, a mutex and a device semaphore, timer, fair | one place per thread, no lost wakeup, quiescent halt, safe carcasses, refinement of `Semaphores`; ready threads run, available semaphores are taken |
| `threadtest` | the six tasks, 3 people, 3 meals or messages, mailboxes of 1 slot, strings of up to 4 of 7 characters, no timer, fair | refinement of `Dinner`, chopsticks conserved, the type of every string; tasks 2 and 4 to 6 come to an end, and each shouter has shouted as often as asked |
| `threadtest_timer` | tasks 3 to 6, 2 people, mailboxes of 2 slots, timer | refinement of `Dinner` and `Mail` under preemption, exclusive regions, free slots counted exactly, nobody left in the post office |
| `memory` | 6 frames of 3 bytes, every layout of text, data and bss in up to 3 pages, all three algorithms | ownership of frames, fits (what is found is free; first fit is first, worst fit the largest), loading touches nothing else, aligned or short sections arrive |
| `process` | 4 PIDs, orderly, no timer | the count of processes, nobody left waiting in a `Join`, refinement of `AddrSpace` |
| `process_timer` | 3 PIDs, disorderly, timer | no live process drops out of the PCB; no exited one gets into it but a child that exits before its `Append`; `Join` and `Exit` follow `NULL` only for a process that is gone or not yet appended |
| `machine` | words of 12 bits, 2 processes of 4 pages, 298 programs | every process computes what `Execute` computes, through interrupts and switches at any instruction; R0, dirty bits, exact products |
| `filesys` | 10 sectors of 2 bytes, 2 directory entries, 3 names, sizes 1 and 3 | no shared sector and a header behind every name after every single write, exact free map, refinement of `Files` |
| `devices` | 21 ticks; two threads on a disk of two tracks, one thread on disk and console, two machines with mail; timer | order and number of pending interrupts, disk latency, one return for each request, echo, mail |

Runs that are expected to fail show where the code departs from its own comments
or messages; each is a finding in `PROJECT.json`:

- `dinner_stuck`: with `-rs` a philosopher woken before the neighbour has stopped eating sleeps
  for ever.
- `process_join`: `Join` is answered by the exit of another child.
- `disk_early`: the lock of `SynchDisk` is empty, and a thread that asks at the right moment takes the unit that
  was meant for another: `ReadSector` returns before the sector has been read.

The models also contain these departures, for which there is no run:

- threads: a thread switched to for the first time starts in `ThreadRoot` and does not delete the
  carcass; if it finishes too, the pointer is overwritten and the first thread is never deleted
  (`scheduler.cc:124` against the comment in `thread.cc:157-161`; `FinishedIsDestroyed` in `Kernel`);
- exercises: with `-rs` two philosophers can be between `P` and `V` of `mutex`, because `GetSticks`
  goes round its loop without taking it again (`threadtest.cc:464-496`); with `-rs` three people can
  wait for a slot in each other's full mailboxes (`threadtest.cc:756`, `NobodyLeftBehind` with three
  people);
- memory: best and worst fit report failure when the last frame is in use, although a hole is large
  enough (`addrspace.cc:178`, `WorstFitFinds`); best fit compares the size a hole has reached while it
  grows, and so keeps the first hole that is large enough (`addrspace.cc:147`); a segment longer than a
  page that starts inside one is misplaced (`addrspace.cc:240`, `SegmentIsLoaded`); `coff2noff` refuses
  `.bss` and `.sbss` exactly when they are contiguous (`coff2noff.c:205`, whose comment says "make sure
  they are contiguous");
- processes: joining a child that was the last element of the PCB follows a `NULL`
  (`exception.cc:166`, the outcome `"Join"` of `stopped`); with `-rs` a child can exit between `Fork`
  and `Append` and is listed when it is gone (`exception.cc:340-346`, the case that `ListedIsLive` and `OnlyGoneAreMissed` name `Unlisted`);
  programs that do not outlive their children make `Exit` follow `NULL` (`addrspace.cc:452`, the outcome `"Exit"`); an `Exec` of a file that cannot be opened leaves the code of the system call
  in register 2 (`exception.cc:308`); `Write` of a string that cannot be read tries for ever
  (`exception.cc:456`, the outcome `"Hang"`); `Read` from the keyboard lets `size + 1` characters and
  a zero byte through (`exception.cc:557`, where `syscall.h` promises at most `size`);
- machine: `OR` takes its first operand twice (`mipssim.cc:376`, where `mipssim.h:202` says `RD, RS, RT` and
  `execute.c:201` computes `rs | rt`); `SRL` and `SRLV` shift in the sign bit (`mipssim.cc:445-455`, where
  `execute.c:108` shifts an unsigned word): the programs of `machine` use both only with operands on which the
  two agree; `DIV` of the least word by -1 traps in the host (`mipssim.cc:200`); where `execute.c` is the
  one that is wrong (the high word of some products, `LWL` and `LWR`, no `SWL` and `SWR`, no overflow
  exception), the programs of `machine` do not use the case or the mapping leaves it open;
- devices: a request while the disk is busy fails an `ASSERT`, and `Condition::Wait` is one, as described above; an input
  character equal to `EOF` would be lost (`console.cc:96`).

**Bounds.** Three threads on two semaphores are enough for a waiter, a thread that
barges in and one that wakes and finishes; `MaxValue` = 2 allows a value above the
number of waiters. The theorems of section 4 cover every number of threads. Three philosophers
have two different neighbours each and can all hold their left chopsticks, so the abort of
`ReachChopStick` happens; two are the special case of the code (`P == 2`). With the timer
the number of switch points multiplies, so that run has two people. Three meals or
messages make somebody try when none is left. `Tries` is 5 as in the code, and 2 in the run with
the timer, where two philosophers never reach it at the right chopstick. `StallCycles` is {2, 3}
or {2} of 2..5: philosophers who stall equally and unequally long. Strings of four characters hold a sign,
a digit, a point and one more, so every flag of `CheckType` meets every other; `MaxInt` = 10 makes two
digits overflow. Six frames hold holes of different sizes between three programs; three bytes are the least page size at which a segment can start inside a
page, end inside another and leave more than one byte on either side. Four PIDs give a parent with
two children and a grandchild. A word of 12 bits has three-bit bytes, six-bit halves and
room for every field; the programs take operands at the borders of that width, and the second process
runs a program whose loads and calls interleave with all of them. Five free sectors are
enough for one file of each size with their headers and not for two of the longer ones; a sector of two bytes is
written in part at either end. A disk of six sectors on two tracks, with a seek of 3 ticks and 2 for a sector, and polls every 3 (console)
and 2 (network) ticks, puts seek, rotation and polls out of step; twenty-one ticks cover several requests with seeks and
track buffer hits, of two threads that wait at the same time, three characters, and a message with its acknowledgement in both directions.

**Fairness.** `WF(Next)` says that the running thread reaches its next kernel call or tick, which
holds since no modelled procedure loops without one. `kernel` adds strong fairness of
the timer's switch for each thread: the timer interrupt recurs for ever, and ticks
recur. Liveness of the clients is checked without the timer: there the scheduler is a
deterministic FIFO and `WF(Next)` is all that is needed. With the timer an
adversarial clock could preempt at every tick, which weak fairness does not exclude and the code
does not either. Termination of the busy waiting philosophers is not claimed: with an
adversarial choice of stall cycles they can abort in step for ever.

The runs of memory, machine, file system and devices check safety only and assume no fairness.

Deadlock is checked in every run: the end of a run is an explicit step that changes nothing, so that
any other stop is reported.

## 4. Proofs

The theorems hold for every value of the constants that meets the named assumption of its module
(`KernelAssumption`, `ExerciseAssumption`, `AddrSpaceAssumption`, `LoadSegmentAssumption`,
`ProcessAssumption`, `FileSystemAssumption`, and for the devices `InterruptsAssumption`,
`DiskAssumption`, `ConsoleAssumption`, `NetworkAssumption` and `DevicesAssumption`); those assumptions
only say what kind of thing a constant is.

| Module | Theorem | Statement |
|---|---|---|
| `KernelProofs` | `TypeCorrect` | `Spec => []TypeOK`; values never become negative |
| | `EveryThreadHasOnePlace` | `Spec => []OnePlace` |
| | `CarcassesAreSafe` | `Spec => []CarcassSafe` |
| | `NoWakeupIsLost` | `Spec => []NoLostWakeup` |
| | `HaltsOnlyWhenQuiescent` | `Spec => []HaltIsQuiescent` |
| | `DeletedOffItsStack` | `Spec => DeleteOffStack` |
| | `KernelImplementsSemaphores` | `Spec => ImplementsSemaphores` |
| `AddrSpaceProofs` | `SpacesOwnFrames`, `SpacesInsideMemory` | `Spec => []FramesOwned`, `Spec => []TypeOK` |
| | `AllocationIsRight` | `Spec => []FitIsRight`: what the three search loops return |
| `LoadSegmentProofs` | `LoadedSpacesOwnFrames`, `LoadedAllocationIsRight` | the same with loading (`LoadSpec`) |
| | `LoadingStaysInside`, `AlignedProgramsLoad` | `LoadSpec => []StaysInside`, `LoadSpec => []AlignedIsLoaded` |
| `ExerciseProofs` | `ChopsticksConserved` | `Spec => []SticksConserved` (task 3) |
| | `MutexesExclude` | `Spec => []MutexRegions` (task 4) |
| | `DinnersKeepTheirPromise` | `Spec => ImplementsDinner` (tasks 3 and 4) |
| `PostOfficeProofs` | `FreeSlotsCounted` | `Spec => []FreeSpaceCounts` (task 6) |
| | `NobodyIsLeft` | `Spec => []NobodyLeftBehind` (task 5; task 6 with two people) |
| | `MailKeepsItsPromise` | `Spec => ImplementsMail` (tasks 5 and 6) |
| | `ExercisesTyped` | `Spec => []TypeOK` (tasks 3 to 6) |
| `ProcessProofs` | `ProcessTypes` | `Spec => []TypeOK`; `NumProcess` is right |
| | `LivesInPCB` | `Spec => []LiveIsListed` |
| | `ExitedStayOut` | `Spec => ListedIsLive` |
| | `NobodyElseIsMissed` | `Spec => []OnlyGoneAreMissed` |
| | `ProcessesImplementAddrSpace` | `Spec => ImplementsAddrSpace` |
| | `ListedProcessesLive` | `Spec => [](~TimeSlice => NoneDead)` |
| | `ParentsAreFound` | `Spec => [](~TimeSlice => ExitFinds)` |
| | `EveryJoinReturns` | `Spec => [](~TimeSlice => NobodyLeftOver)` |
| `FileSystemProofs` | `SpecNoSectorShared`, `SpecMapIsExact` | `Spec => []NoSectorShared`, `Spec => []MapIsExact` |
| | `SpecImplementsFiles` | `Spec => ImplementsFiles`, with crashes |
| `DevicesProofs` | `SpecInterruptsInOrder` | `Spec => []InterruptsInOrder` |
| | `SpecHeadPassesSector` | `Spec => []HeadPassesSector`, for any number of users |
| | `SpecEveryRequestIsAnswered` | `Spec => []EveryRequestIsAnswered` |
| | `SpecEchoesInput` | `Spec => []EchoesInput` |
| | `SpecMailArrivesOnce` | `Spec => []MailArrivesOnce` |

**Kernel** (any finite set of threads, any semaphores and initial values, with and without timer and
devices). `OnePlace` is not inductive as it stands: that `V` may append the head of a queue to the
ready list without creating a duplicate needs that a queued thread is `BLOCKED` and a
`READY` one is not queued; that `Finish` may block the caller needs that the caller is on no queue;
and that a dispatched thread continues at the right place needs to know what its kernel stack
can be when it is `READY`. So the invariant is
`PlaceInv == TypeOK /\ OnePlace /\ StackPlace /\ CarcassSafe`, where `StackPlace` relates
`status`, `kpc` and `waitsOn`. The proof has one lemma per action; lists are handled by five lemmas
on members and duplicates under `Append` and `Tail`. `NoLostWakeup` is then inductive relative
to `PlaceInv`: only `P` and `V` change the set of woken threads, `V` adds one woken thread for the
unit it adds, and a thread leaves the set either by taking a unit or by finding the value 0. The
halt theorem follows: with no thread ready nobody is woken, so a queued thread waits on 0. For the
refinement, each step is matched with a step of `Semaphores` by what it does to values and to the
set of waiting threads. All lemmas are about `ClientNext`, the steps of any client, so the clients
below instantiate this module: the end of `KernelProofs` gathers what they use (`KernelInv`, and for
each call what it does to values, waiting threads and stacks).

**Memory** (any number of frames, any page size, any layout of sections). The search loops of the three
algorithms are recursive functions over the frames. What they compute is proved by induction: the
library's induction theorems take the predicate as an operator, which the provers cannot instantiate, but
`SetInduction` takes the *set* of the numbers that satisfy it, and is proved from the well-foundedness of
`<`. `FirstInv` and `FitInv` say what the loop variables mean after `i` frames. With that a construction
takes only free frames and `FramesOwned` is inductive. For loading, `Job` describes the pending calls of
`LoadSegment` and what the NOFF file holds, `Around` the memory outside the sections, and `Progress` says
that each section is loaded, being loaded, or still to be loaded; `NoffInv` is the same induction over the
sections that `coff2noff` has converted.

**Philosophers** (any number of them, any meals, tries and stall cycles, with and without the timer).
Task 3: `BusyInv` says where everybody is, that the counters count the people at the places they stand for,
and that a chopstick is off the table exactly when it is in one hand, where the hands are given by the
places. Every step of the code, which runs through several procedures up to its next `Yield`, is first
shown to be a `BusyMove`: one person from one place to another, with what happens to the chopsticks, the
meal and the counters. Task 4: `SemInv` is about values and waiting threads, not about queues. Each step of
the program together with the kernel's `P` or `V` is a `SemMove`, since the kernel implements atomic
semaphores. `Sitting` and `Departing` say that no unit of `SitSemaphore` or `LeaveSemaphore` exists before
all are in or ready; `Sharing` that who eats is served and his neighbours are not, which needs no mutual
exclusion of `mutex` (and there is none, see section 3); `Excluding` counts the unit of each of the other
mutexes together with the philosophers inside, which makes `MutexRegions` inductive. For both tasks a move
is a step of `Dinner` or is not seen.

**Post office** (any number of people, messages and slots, with and without the timer). Tasks 5 and 6 share
one invariant and one set of moves (`MailMove`), although they take their semaphores in a different order:
`HeldAt` says which units a person at a place has, `Owners(s)` who has one of `s` now, and `Accounts` that
each mutex is free or has one owner and that free, taken and promised slots of a mailbox add up to `S`.
`FreeSpaceCounts` alone is not inductive: that reading takes away a message that is there needs `Reading`
(only the owner empties a mailbox), and that a message finds room needs, in task 5, `Sending` (nobody else
sends while one has `MsgCntSemaphore`). `NobodyIsLeft` needs `Started` besides: at a halt the main thread has
finished, so all were forked, and each is finished or waits for a semaphore at 0. In task 5 the owner of
`MsgCntSemaphore` waits at most for a mailbox, and its owner for nothing. In task 6 all who are left
wait for room in a full mailbox. `Facing` says that of two such people one has no mail; for three it is
false, and so is the conclusion (section 3).
For the refinement the mailbox is the sequence of its first `MsgPtr[i]` slots; three facts about
subsequences make reading `Collect` and writing `Deliver`.

**Processes** (any number of PIDs and frames, any sizes of programs, any of the three algorithms). The
invariant has two layers. `Always` holds with and without the timer, and for programs that do as they like:
`Memory` is the invariant of `AddrSpace` together with "no two processes have the same space"; `Family`
says which PIDs are not handed out yet, which thread stands at the start of which call, that parents are
older than their children (`Parents`), and that the child an `Exec` is making is new until `Fork` and
listed only by `Append`; with them `LiveIsListed` is inductive, and so is `Counting`, the meaning of
`NumProcess`. A step, together with the call of the kernel in it, is first shown to be one of the `Moves`,
and each part of the invariant is then kept move by move. `ExitedStayOut` needs no more: a move that lists somebody is an `Append`, and one by
which somebody exits takes him off the list. `NobodyElseIsMissed` reads `LiveIsListed` backwards: who is
not found is not live, or is the one between `Fork` and `Append`. `Untimed` adds what needs the FIFO scheduler.
`Appending`: between the `Fork` and the `Append` of an `Exec` the parent keeps the CPU and the child has not
begun, which is why a listed process is live (`NoneDead`). `Orphans`: under `Orderly` nobody but the exited
has an exited parent, so that `Exit` finds its parent (`ExitFinds`). `Waiting`, `Holding`, `Joining` and
`Finishing` say who waits for what, and who has `MutexNumProc`; with the theorem of the kernel about halts
they leave, when the machine stops, only processes that wait for a child which waits in turn. A child has a larger PID than its
parent, so an induction over the PIDs (`NobodyWaits`) shows that nobody waits. The three theorems for
`~TimeSlice` are false with the timer, all by the child that exits between `Fork` and `Append` (section 3):
it is listed when it is gone, its `Exit` reads its parent from an uninitialized element, and the `V` for its
parent is lost or goes to another.

**File system** (disks, directories, headers and files of any size, any names, any sequence of operations,
a crash between any two sectors written).
What the properties say of the disk is not inductive while an operation writes: the invariant `Inv` is
about the disk *and* its `Image`, the disk as it will be when all of `todo` is written. Both are `Sane` (every
entry in use leads to a header with sectors of its own, different names have different sectors), the image is
also `Exact` (its free map marks just those), and files that both name have the same header on both (`Agree`).
`Creating`, `Removing` and `Writing` say how far image and disk may differ: while `Create` writes, the disk
has at most one file less, whose header is written before the directory names it; while `Remove` writes it has at
most one file more; while `Write` writes, what is pending lies in sectors of one file. A step that writes a
sector leaves the image alone, and a step that begins an operation leaves the disk alone, so each kind of
step has one of the two to take care of. The loop of `FileHeader::Allocate` is a recursive function;
that it finds free and different sectors (`FindManyFinds`) is an induction with `SetInduction`, as for memory.
At the end of an operation image and disk are the same, which gives `MapIsExact`. For the refinement
`Content` is the function from names to bytes that the directory, the headers and the data on the *disk*
show: of the writes of `Create` and `Remove` exactly one, that of the part of the directory with the entry,
adds or takes away the file; the others change no file.

**Devices** (any set of machines, any clocks, delays, disk geometry, input and losses). There are four
invariants, one on top of the other.

- `TimeInv` is about the pending list. That it stays sorted follows from `SortedInserted`: the place
  that `SortedInsert` chooses is the least index of a bigger item. `Matched` counts the interrupts of
  each type that a device's state calls for. That nothing else is overdue when a thread runs is not inductive:
  in `IdleMode` `CheckIfDue` puts the timer back, and a thread that then asked the disk for a sector would
  run with two interrupts pending and one overdue. `Quiet` says that this comes about only when all
  users of the disk have asked.
- `DiskInv` says that the interrupt of the disk comes when the sector of the waiting request has just
  passed (`Passed`, the arithmetic of `ComputeLatency` in lemma `Latency`), and counts the threads in `P`: there are
  as many as the value of the semaphore and the active request together (`Answered`). Nothing is assumed of the
  users: any number of them may ask at any time, and take each other's units.
- `EchoInv` follows a character from the buffer through `PutChar` to the display: the two semaphores and
  the place in `ConsoleTest` say whether there is a character in `incoming` and whether the display is
  busy, which is why `PutChar` finds it free and no character is read over another.
- `MailInv` says that the semaphore `messageAvailable` is 1 only while the worker waits and the buffer
  is full, so that no packet is read over another, and that what was received and what is in the boxes are the
  packets of the socket up to the last one put away (`Done`). `Letters` says where packets come from: an
  acknowledgement only from a machine that has received a message. What `MessagesFor` computes is
  proved by induction over the packets (`SetInduction` again).

**Only model-checked.** Liveness (`ReadyRuns`, `EveryoneFinishes`, `AvailableIsTaken`) is outside what the
prover can do. `NobodyLeftBehind` for three people and no timer is not claimed as an invariant but follows in
`threadtest` from `EveryoneFinishes`. `InputTypeIsRight` compares `CheckType` with what numbers are, and
is an evaluation of `atoi`, `Spelled` and a scan for each string: `atoi` is built from folds that take an
operator, which the provers cannot expand. `Machine` (`TypeOK`, `WrittenIsDirty`, `RunsLikeExecute`,
`ProductIsExact`) uses the library's bitwise operators, which the prover cannot read.

## 5. Not modelled, and the plan

Not modelled: the TLB of `Translate` (only the build in `vm/` has it), start-up and command line,
statistics, debugging output and the single-step debugger, the assembly of `SWITCH`, the printing tools
`coff2flat`, `disasm` and `out`, the performance test `fstest.cc`, the user test programs.
`code/userprog/exception_orig.cc`, `addrspace_marcus.*`, `threads/system2.cc`, `c++example/` and the
copies in `submission_documents/` are not built. `Kernel` and `Interrupts` are not composed: the first
lets any pending interrupt fire at any tick, the second lets any runnable thread run.

Done so far, in this order: kernel with its abstract specification and proofs; the
exercises; memory; loading; processes; machine against `execute.c`; file system; devices under
simulated time; input checks; `coff2noff`; proofs about memory, loading, the exercises, processes, the file system and
the devices. What could come next is outside the present models: `Kernel` and `Interrupts` composed, so that
device interrupts preempt threads at their simulated time, and the TLB of `vm/`.
