# Nachos in TLA+

A verification of the Nachos kernel in `nachos_task2/code`: TLA+ modules of its
parts, TLC configurations that check them on small instances, and TLAPS proofs
for every value of the constants. `nachos_task1` is an earlier stage of the same
sources; everything here follows `nachos_task2`, built as its Makefile builds it
(with the real file system).

    tlc -config MCSemaphores.cfg MCSemaphores        # a run
    tlapm SemaphoresProofs.tla                       # the proofs of a module

`PROJECT.json` lists the runs, the code lines each definition stands for, the
hazards and the theorems, and for every property a plausible bug of the code
that makes it fail (the definitions marked `Mutant:` in the modules).

## The system

One Nachos process simulates one machine. Kernel threads are coroutines: the CPU
changes hands in `Scheduler::Run` only. Interrupts are simulated too. The clock
advances by a tick whenever interrupts are enabled again (`Interrupt::SetLevel`)
and after each user instruction; at a tick, the handlers that are due run, and
the timer's handler may ask for a `Yield` of the current thread. With nobody
ready, `Interrupt::Idle` moves the clock to the next pending interrupt. So
kernel code is atomic between two points where it enables interrupts or
switches, and that is the grain of every module here.

| component | state | operations | interacts with | hard because of | correct when |
|---|---|---|---|---|---|
| scheduler, threads (`threads/scheduler.cc`, `thread.cc`) | ready list, current thread, statuses, `toBeDestroyed` | `Fork`, `Begin`, `Yield`, `Sleep`, `Finish`, `ReadyToRun`, `FindNextToRun`, `Run` | all of the kernel | nothing checks that a thread is on one list only; a stack must not be freed while in use | lists and statuses agree; a carcass is deleted in time and never run; a ready thread runs |
| semaphores (`threads/synch.cc`) | value, queue | `P`, `V` | scheduler, handlers | the woken thread competes with newcomers | no wake-up is lost; a counter of permits |
| lock, condition, `SynchList` (`synch.cc`, `synchlist.cc`) | holder, wait queue, list | `Acquire`, `Release`, `Wait`, `Signal`, `Append`, `RemoveFront` | semaphores | Mesa-style wake-up; `Wait` releases before it sleeps | mutual exclusion; no signal lost; a FIFO queue |
| disk, `SynchDisk` (`machine/disk.cc`, `synchdisk.cc`) | `active`, sectors, lock, semaphore | `ReadSector`, `WriteSector`, `CallBack` | semaphores, interrupts | the completion may come before the wait for it | one request at a time; an atomic disk |
| user processes (`userprog/exception.cc`, `threads/main.cc`) | parent, `child_threads`, `finished_childs` | `SC_Exec`, `SC_ThreadFork`, `SC_Join`, `SC_Exit` | scheduler, disk | `Exit_P` readies a parent whatever it sleeps for | nobody sleeps for ever; the disk stays exclusive |
| demand paging (`exception.cc`, `addrspace.cc`, `LRU.cc`, `random.cc`) | page tables, frame map, replacement list, swap file | `Load`, page fault, memory access, exit | disk, scheduler | the handler sleeps half-way, twice; an unknown call runs into it, a failed load is ignored | until an unknown call: every frame has one owner, contents survive |
| network, post office (`machine/network.cc`, `network/post.cc`) | socket, one-packet buffer, boxes, lock, semaphores | `Send`, `Receive`, `Put`, `Get`, interrupts | semaphores, `SynchList`, other machines | loss; one buffer between device and worker | what was not lost arrives once and in order |
| open-file tables (`filesys/filetable.cc`, `filesys.cc`, `exception.cc`) | system-wide and per-process tables, `name_id`, `removed_flag` | open, close, remove, exec | file system, processes | three tables with ids of their own; the calls sleep in the disk between looking and entering | an entry's file is there or marked; a removed name comes back by no Open that sees its flag; only Remove deletes |
| files (`filesys/openfile.cc`) | header copy, seek position, reader count | `Read`, `Write`, `ReadAt`, `WriteAt` | `SynchDisk` | readers and writers; stale headers | readers and a writer exclude each other |
| file system (`filesys.cc`, `filehdr.cc`, `directory.cc`, `block_for_file.cc`) | free map, directories, headers on disk | `Create`, `Remove`, `Make_Dir`, extension | `OpenFile` | several disk writes per operation | sectors used are those reachable |
| console (`machine/console.cc`, `synchconsole.cc`) | character buffer, locks | `GetChar`, `PutChar`, the loops of `SC_Read`, `SC_Write` | semaphores | polling stops at the end of the input | characters in order, none lost; nobody waits for one that is there |
| clock (`machine/interrupt.cc`, `timer.cc`, `disk.cc`, `threads/alarm.cc`) | time, pending interrupts, quantum, seek position | `OneTick`, `Idle`, `CheckIfDue`, `Schedule`, `ComputeLatency` | all devices | handlers schedule while others are due; latency is computed ahead | handlers run in time and in order; the sector passes the head during the transfer |
| containers (`lib/`, `filesys/pbitmap.cc`) | lists, bitmaps, hash table | append, insert, remove, grow, mark | all | linked elements with a first and a last pointer; growth while elements are moved | sequences, sorted sequences, sets |
| MIPS machine (`machine/mipssim.cc`, `translate.cc`, `machine.cc`) | registers, memory, delayed load | one instruction, a fault, a switch | paging, scheduler | a loaded word in flight when an instruction is restarted; overflow, alignment | programs see neither faults nor switches; arithmetic is exact or traps |

## The modules

`EXTENDS` goes upwards; the left column is bottom-up.

| module | models | code |
|---|---|---|
| `Scheduler` | ready list, `Sleep`, `Yield`, `ReadyToRun`, `CheckToBeDestroyed` as operators on a record `cpu` | `scheduler.cc`, `thread.cc` |
| `Synch` | the state changes of `P` and `V` on one semaphore and on `cpu` | `synch.cc` |
| `Semaphores` | life of a thread, semaphores, device handlers, the timer | `scheduler.cc`, `thread.cc`, `synch.cc`, `interrupt.cc`, `alarm.cc` |
| `SemaphoreSpec` | abstract: counters of permits | what `synch.h` promises |
| `KernelThreads` | forked threads, preemption and handler wake-ups, shared by the next two | `interrupt.cc`, `thread.cc` |
| `SynchLists` | Lock, Condition and SynchList as one monitor | `synch.cc`, `synchlist.cc` |
| `QueueSpec` | abstract: a queue with a waiting remove | what `synchlist.h` promises |
| `SynchDisks` | SynchDisk over the simulated disk | `synchdisk.cc`, `disk.cc` |
| `DiskSpec` | abstract: an atomic disk | what `synchdisk.h` promises |
| `Processes` | Exec, ThreadFork, Join, Exit, with disk calls between | `exception.cc`, `main.cc` |
| `Paging` | Load, page faults, swap file, replacement | `exception.cc`, `addrspace.cc`, `LRU.cc`, `random.cc`, `openfile.cc` |
| `MipsWords` | words of a parametric size: wrapping, `Mult`, the sign tests, shifts | `mipssim.cc` |
| `MipsCode` | the instructions and what each does to registers and memory | `mipssim.cc` |
| `Mips` | delayed loads and branches, exceptions, translation, switches | `mipssim.cc`, `machine.cc`, `translate.cc`, `thread.cc` |
| `MipsSpec` | abstract: one instruction at a time, all of memory there | what a program is compiled for |
| `Consoles` | ConsoleInput, ConsoleOutput, SynchConsole, the reading and writing loops | `console.cc`, `synchconsole.cc`, `exception.cc` |
| `OpenFiles` | both tables, `new_Open`, `Open`, `Remove_File` and the calls that use them | `filetable.cc`, `filesys.cc`, `exception.cc` |
| `Interrupts` | the clock, pending interrupts, timer and alarm, the time of a disk request | `interrupt.cc`, `timer.cc`, `alarm.cc`, `disk.cc` |
| `LinkedLists` | List and SortedList, pointer by pointer | `list.cc` |
| `Containers` | lists, hash table and bitmaps with their callers | `list.cc`, `hash.cc`, `bitmap.cc`, `pbitmap.cc` |
| `ContainersSpec` | abstract: sequences and sets | what `list.h`, `hash.h` and `bitmap.h` promise |
| `PostOffices` | several machines that exchange mail | `network.cc`, `post.cc` |
| `MailSpec` | abstract: an ordered carrier that may lose mail as it is posted | what `post.h` promises |
| `FileSystem` | free map, headers, index blocks, directories; Create, Make_Dir, Remove, format, swap file, copy | `filesys.cc`, `filehdr.cc`, `block_for_file.cc`, `directory.cc`, `openfile.cc` |
| `NameTree` | abstract: paths that stand for nothing, a file or a directory | what `filesys.h` promises |
| `FileSystemInvariants` | the predicates on disks that the proofs of `FileSystem` speak of | |
| `UserPrograms` | `Paging`, `Mips`, `Consoles` and `OpenFiles` side by side, for one run | |
| `MC...` | constants of a run; `MCKernel` holds several parts | |
| `KernelThreadsProofs`, `SemaphoresProofs`, `SynchListsProofs`, `SynchDisksProofs`, `PostOfficesProofs`, `UserProgramsProofs`, `KernelProofs`, `FileSystemProofs` | theorems and proofs | |

How state and actions correspond to the code:

- `cpu` is the scheduler: `current` is `kernel->currentThread`, `ready` the ready
  list, `status` the thread statuses, `carcass` is `toBeDestroyed`. The CPU idles
  when `current` is blocked, as the code idles inside the `Sleep` of the thread
  that slept last; `finishing` says which flag that `Sleep` was called with.
- A semaphore is a record of `value` and `queue`. `P` is one action per evaluation
  of its loop's test: the first when it is called, another each time the thread is
  switched back to. `V` never leaves a point between the wake-up and the increment.
- `pc[t]` says where a thread goes on. There is a label exactly where the code can
  lose the CPU; a stretch of code without such a point is one action, also when it
  calls several functions (`SynchDisks!Request` is the end of `Acquire`, all of
  `ReadRequest` and the first test of `semaphore->P()`).
- A component above uses the abstract promise of the one below where that was
  checked: `PostOffices` uses permits and queues instead of the scheduler. The two
  where a part below is *misused* do not: `Processes` keeps scheduler and
  semaphores in full, because `Exit_P` readies threads behind the semaphores' backs.
- `FileSystem` has one action per call, because `filesys.cc:31` excludes concurrent
  ones. The calls are operators from a disk to a disk; `Does` makes a step of one.
  A failed ASSERT (`dead`) leaves what was written before it, in the order of the
  code's writes. `Enter` is what Create and Make_Dir have in common; `AllocateBelow`
  is the loop that the two levels of `block_for_file.cc` and `FileHeader::Allocate`
  have in common. `disk.lost` is a history variable.
- A failed ASSERT or the use of a freed or NULL object ends a behaviour of
  `Processes`, `Paging` and `OpenFiles`: the variable `machine` (`kernel`) says which.
- `Mips` executes one instruction in a step; instructions are records, not words,
  and any instruction may be the next. `regs.load` and `regs.value` are the delayed
  load (`LoadReg`, `LoadValueReg`). A page fault lets the word in flight through and
  restarts the instruction; so does a tick with an interrupt due (`Interrupted`).
  `Follows` is what the assembler guarantees: the instruction after a load does not
  name the loaded register, and the slot of a branch holds no branch or system call.
  `SwitchAway` and `SwitchBack` are `SaveUserState` and `RestoreUserState`; the
  registers in between are another thread's (`Leftover`). Of the kernel there is only
  the outline: a fault makes its page resident and may take others away.
- `Paging` has a step from one sleep of `Load` or of the fault handler to the next.
  `Exec` resets the counter of the swap file and then sleeps in opening the program
  (`"open"`); `LoadStarts` takes the first place. Two steps follow what the code does by
  mistake. `LoadFails`: Exec ignores what `Load` returns, and the child runs with the
  table of AddrSpace's constructor, which names every frame and is on no list
  (`astray`); it may store into any frame (`AstrayStore`) or stop the machine
  (`AstrayBeyond`). `UnknownCall`: the inner switch of the exception handler falls
  through into the case of a page fault at address 0, also when that page is in memory;
  the page gets a second frame, its first stays in the map without an owner, the
  contents are read from swap, and the program counter has not moved, so the process
  makes the same call again whenever it runs (`callPage`).
- `OpenFiles` has a step from one disk access to the next: `Open` looks at the flag
  and the directory in one and enters the file in a later one. A `Path` is what a
  program gives, `NameOf` its last component and `DirOf` where it leads: the first look at
  the flag is by path (`filesys.cc:299`), the entry, `name_id` and the flag that a
  Remove sets go by name (`filetable.cc:64, 86, 135`), and a file is a directory and a name. `Garbage` in `table`
  is what `new` leaves in `openfiles_table`, which nothing clears. `late` is a
  history variable: the processes whose `Open` saw a flag that was set since.
- `Consoles` has the lock of either `SynchConsole` as its holder, if any (`reading`,
  `writing`): when it is free any thread that waits may be the next, as `Lock`'s P
  competes with newcomers. `waitFor` is a counter. One poll of the keyboard is one step.
- `Interrupts` has one step per handler, because `CheckIfDue` takes the next entry
  of the list after each; `since` in an entry, `writing` and `onTrack` are history.
- `Containers` changes lists element by element: `heap` holds the `ListElement`s,
  a list has its two ends and its length. The callers keep to what the headers ask of
  them; where a caller can break an ASSERT, its own module says so (`Scheduler`,
  `Processes`). Iterating gives up after one element more than there are cells, so a
  cycle shows as a wrong list.

## The runs

| run | shows | instance |
|---|---|---|
| `Semaphores` | `ListsAgree`, `CarcassSafe`, `NoLostWakeup`, `ImplementsSemaphores` (with liveness), `ReadyThreadRuns` | 3 threads, 2 semaphores, one V'd by a device |
| `SynchLists` | `MutualExclusion`, `SignalRemembered`, `ItemsHaveTakers`, `ImplementsQueue` | 3 threads, 2 items |
| `SynchDisks` | `OneRequest`, `ImplementsAtomicDisk` | 3 threads, 2 sectors, 2 values |
| `Kernel` | processes: `QueuedSleep`, `NobodyStranded`, `DiskStaysExclusive`; clock: `HandlersInTime`, `SectorPasses`; containers: `ImplementsContainers` | 4 threads in all; 8 ticks; 4 items, 5 bits |
| `UserPrograms` | pages: `FramesAccounted`, `VictimExists`, `ContentsKept`; processor: `FaultsInvisible`, `ImplementsIdeal`; console: `InputInOrder`, `DevicesReady`, `NeverStalls`; files: `LiveOrRemoved`, `ReopenedLateOrByPath` | 2 processes of 2 pages; words of 4 bits; 2 threads at the console; 2 names and a path |
| `PostOffices` | `SendsAreSerial`, `PermitPerPacket`, `CarriesMail` | 2 machines, 2 senders, 1 box |
| `FileSystem` | `NothingLeaks`, `OnlyGrowthCorrupts`, `BytesStored`, `ImplementsNames` | 29 sectors of 6 ints, 2 names, paths of 2 |
| `JoinReturnsEarly` | **violated**: `JoinWaits` | the processes of `Kernel` |
| `ReadiedInItsSleep` | **violated**: `NeverQueuedTwice` | the processes of `Kernel` |
| `NotLeastRecent` | **violated**: `FrontIsLeastRecent` | the pages of `UserPrograms` |
| `CloseDeletes` | **violated**: `OnlyRemoveDeletes` | as `UserPrograms` |
| `DirectoryGrows` | **violated**: `SectorsOwnedOnce` | as `FileSystem` |

Each passing run but `SynchDisks`, where it is proved, also checks types
(`TypeOK`, `PartsTypeOK`; for the containers that is `List::SanityCheck` and
`HashTable::SanityCheck`).

`Kernel` and `UserPrograms` hold several parts that do not interact: the variable
`part` says which one a behaviour moves, and the others keep still. Nothing is
composed by that; it lets parts with a small state space share a run. The
properties are those of the modules of the parts: a part that stands still keeps
its properties as it keeps its state.

Bounds and why they are enough:

- *Three threads* (`Semaphores`, `SynchLists`, `SynchDisks`): a holder, a sleeper
  and a thread that arrives between the sleeper's wake-up and its run. That is the
  case `P`'s loop is for, and the order of two sleepers matters as well. The
  theorems drop the bound for the safety properties.
- `MaxValue` bounds a semaphore's value at 2 in `Semaphores`: two permits and two
  sleepers make `V`'s single wake-up questionable.
- *Two items, two sectors*: order and mix-up become visible with two.
- `MaxThreads` = 4 in `Kernel`: the main thread, and a process, its child by
  Exec, and one competitor for the disk; or a process, the thread of ThreadFork
  and that thread's child.
- Pages: with two frames, two faults in flight can hold both; four pages and
  three swap places make one page fall off the end of the swap file; `MaxVersion`
  bounds the stores to one page at 1, which tells new contents from old. Two
  processes are enough for an empty list, and the run gets there: one loses both frames
  by unknown calls, the other takes the last listed page as its victim, and the first
  finds nothing (`VictimExists` speaks of that state).
- `VIEW WhatCounts` of `UserPrograms`: states count as one that no property of the run
  tells apart, nor anything that follows them. These are the ones after Nachos has
  stopped; the contents of pages of which `ContentsKept` says nothing, which decide no
  step; the history of which page was used when (`recency`); the tables of an ended
  process. `NotLeastRecent` and `CloseDeletes` have no VIEW.
- Processor: a word has 4 bits (`ByteBits` = 1), so every pair of operands is tried
  against every operation: starts with one instruction over all words, and starts
  with two for a load or branch and what comes in its slot. The program has 2 pages
  of 4 bytes; addresses beyond them, odd ones and ones across a page occur. The
  theorems are for words of every size and programs of any length.
- Console: 2 threads, 3 characters (`MaxTyped`), reads and writes of up to 2
  (`MaxLen`): one read ends in the middle of what was typed, and the end of the input
  may come before, in or after a read. One of the characters is the byte 0xff.
- Files: 2 processes, 2 names in the root directory, one of them that of a program, and
  a path to a file of the first name elsewhere; 2 entries in the system's table, the
  least that `OpenFilesAssumption` allows, 3 in a process's of which two are the
  console's, so both tables fill up. `Uncleared` leaves nothing or one garbage entry.
- Clock: quanta of 2 and the default 3, `MaxTime` = 8 ticks, with the sizes of the
  other times chosen so that handlers fall due together, in the middle of a tick and
  one tick apart; 2 tracks of 2 sectors. `MaxGarbage` bounds the first, uninitialised
  period of the timer.
- Containers: 4 items, two of the same rank, three that collide before the table
  grows; the table grows from 1 to 4 buckets (`MaxBuckets`), twice; 5 bits in words
  of 3 leave a partial last word. The number of `Cell`s is that of the items.
- `PostOffices`: `SocketRoom` = 2, so a packet arrives while one is buffered and
  one is queued; `BoxRoom` = 1, so the worker is held up. Mail of one sender
  carries an alternating bit, so that two consecutive mails differ. A full socket
  loses the packet: `SendToSocket` gives up after ten tries. A full box makes the
  worker wait; the code's list has no limit, so this only removes behaviours in
  which nobody ever reads the box. Mail is for one of the machines only, the
  state being a product of what each machine receives.

- `FileSystem`: a sector holds 6 pointers and 3 entries, where the code's hold 32
  and 6; as there, a directory outgrows its bytes at the entry after `NumDirEntries` and
  takes sectors for its new length, the pointers of a double-indirect block reach the
  whole disk (`DiskAssumption`), the format fits the disk and a doubled directory one
  index block (`DirectoryAssumption`), and a header has room for all pointers but one. The
  swap file of 37 ints has a second index block; a copy of that length finds no sector for
  its own, and smaller files use up what is left in every order. `MaxDepth` = 2
  puts a file in a subdirectory, two names fill one up.

The model machine may stop by itself (all threads finish or sleep with no device to
wake them, all processes exit), so deadlock is checked only in `PostOffices`, where
there is always somebody who can send.

### What the violated properties mean

- `JoinWaits`. `syscall.h:89` says Join returns "only ... once the user program
  "id" has finished". `Execute_method` puts the child into `child_threads_ids`,
  which nothing reads; `join_Func` looks at `child_threads`, which only `Sys_Fork`
  fills, for the short-lived thread that makes the child.
- `NeverQueuedTwice`. `Exit_P` (`exception.cc:165`) readies a parent that is not on
  the ready list, also when it sleeps in `SynchDisk`. The parent tests the
  semaphore, finds it 0 and appends itself to the queue it is already on:
  `List::Append`'s ASSERT. `QueuedSleep`, `NobodyStranded` and
  `DiskStaysExclusive` show what still holds until then: only such a parent can
  be queued while it runs, nobody is left asleep without a waker, and the parent
  neither enters the disk next to its holder nor returns before its own interrupt.
- `FrontIsLeastRecent`. The list is ordered by page-in. `get`, which moves an entry
  to the tail, is reached from `set` only, for pages that are not on the list.

- `OnlyRemoveDeletes`. `syscall.h:148` says of Close that we are done reading and
  writing to the file, no more. `SC_Close` (`exception.cc:428`) takes its argument, an id
  of the process, for one of the system's table; the entry it finds there, perhaps another
  process's, is marked as removed, its count reaches 0, and the file is deleted.
  `Remove_File` mixes the ids the other way round. `LiveOrRemoved` and
  `ReopenedLateOrByPath` show what is left of the bookkeeping: the flags.
- `SectorsOwnedOnce`. At a directory's 11th entry `directory->WriteBack` extends the
  directory through `OpenFile::Write`, which takes the new sectors from a free map
  of its own; `Create` then writes back the map it read before. The next file gets
  the same sectors. `OnlyGrowthCorrupts` shows that no other call that comes to its
  end shares or frees a sector in use; a Remove that dies in between does, its
  free map being written first. What happens on such a disk depends on the bytes
  in the shared sectors, and the model stops.

What `OpenFiles` records besides, in its actions: a refused Open returns -1 and a
Write with that id uses NULL; an Open that finds no file, or no room in the system's
table, still gives out an id, with -1 or an empty entry behind it; Exec ignores that its program did not
load; a program is opened with its flag set, so that it runs once only; `SC_seek`
asks the system's table with the id of the process; a Read of a file ends in
`Per_Process_OpenFile_Table::GetName`, which calls itself. Files of the same name in
two directories share a flag and an id in `name_id`. An Open by a longer path, such as
`d/a` or `d/../a`, looks for a flag of the whole path, which a Remove of `a` does not
set: it is refused neither before nor after, and while the removed file's deletion is
still asleep in the disk the file is found and entered once more.
`ReopenedLateOrByPath` allows that and the Open that slept since it looked, and
nothing else.

`NeverStalls` holds up to the end of the input: after it nothing polls, `SC_Read`
asks for the rest of its characters all the same, and its thread stays in `GetChar`
with the lock for ever. The byte 0xff has the same effect.

Of the processor: SRL and SRLV shift arithmetically, as `MipsWords` does; dividing
the smallest integer by -1 stops Nachos by the host's exception (`Trapped`); a system
call the kernel does not know falls into the case of a page fault and is made again
for ever (`Mips!UnexpectedSyscall`, `"stuck"`; what that does to the frames is in `Paging`).

Because the timer always schedules itself, `Idle` never finds an empty list: the
halt with "No threads ready or runnable" is not reached (`HandlersInTime`). The
timer's first period is what the heap holds in `quantum_num`.

On a disk that is nearly full the index blocks may not find a sector:
`FileHeader::Allocate` has compared the free count with the data sectors only. It
either stops Nachos (sector -1) or returns TRUE for a file without its last
sectors; `BytesStored` shows that this needs an index block left empty, and never
happens to the map or a directory, so that every directory can be read. The last
pointer of a header is not stored (`FileHeader` is an int longer than a sector);
a block only it pointed to stays in the map for ever: `NothingLeaks` allows those
and no others. It speaks of disks without shared sectors: on the others a file that
takes the index block of another for its own cuts off what that one had below it
(a directory whose first sector did not fit, after a file in it is made). It also
needs `FewNames`: `ExpandSize` doubles a table once and `FetchFrom` reads no more than
twice `NumDirEntries` entries, so the 21st file of a directory gets its sectors and an
entry nobody reads; its sectors are lost, and a copy into it fails the ASSERT of
`main.cc:107`.

`FramesAccounted` and `ContentsKept` hold until the first unknown system call
(`KnownCalls`), and `VictimExists` says that an empty list needs one: after it a page
has two frames of which one is lost, its stores are replaced by what is in the swap
file, and a process that repeats the call uses up every frame. Programs whose Load
failed are no exception for the frames: they hold none and are on no list, they only
store into those of others.

`ContentsKept` excepts the pages the code's known losses have hit, which the model
records in `damaged`: a store into a page while it is being written out
(`exception.cc:717`), a swap place given out twice because Exec restarts the counter
(`exception.cc:140`), and a store by a program that was not loaded. A page that does not
fit the swap file is left out as well (`Stored`): `WriteAt` drops it (`openfile.cc:228`).
The losses are described by the model, not caught by the property, which shows that
there are no others.

## Fairness

- *The CPU executes.* A thread that was switched to goes on: weak fairness of its
  resumption in `Semaphores`.
- *The timer.* `Timer::CallBack` schedules its next interrupt for ever, and every
  enabling of interrupts or user instruction advances the clock, so it expires
  again and again; `Alarm::CallBack` then asks for a `Yield` unless the machine was
  idle, and then nobody is ready. So if somebody is ready from some point on, the
  current thread is made to yield infinitely often. A thread may run for ever or
  finish otherwise. (The loop of `OneTick` never takes the yield of a thread that
  stays inside one uninterruptible stretch; there is no such stretch without end.)
- *Steps of a call* in `SynchLists` and `SynchDisks` get strong fairness: a thread
  that is switched to again and again also moves. `TimerTicks` is 100, a tick is
  10, and with `-rs` the period is random: the timer does not hit a thread at its
  first tick each time. Calls themselves get no fairness: nobody has to make one.
- *The disk's interrupt* was scheduled when the request was made and the clock
  reaches it: strong fairness, as the handler cannot run inside a stretch of
  kernel code with interrupts off.
- *The network device* polls for ever (`NetworkInput::CallBack` reschedules itself),
  and the postal worker gets the CPU when it is ready, which is what
  `ReadyThreadRuns` and `ImplementsSemaphores` show. Senders get none.

## The proofs

They are of the form `Spec => []Property`, or `Spec => Abstract!Spec` for a
refinement, from the named assumptions on the constants (`ThreadAssumption` etc.)
and nothing else.

- `SemaphoresProofs`. `IInv` = `Core` (types, no duplicates on lists, status of
  each thread against the lists and its `pc`) with `CarcassSafe` and
  `IdleAgrees`. `ListsAgree` is not inductive: that a thread which a `V` takes
  from a queue is not on the ready list needs its status, that the current thread
  is not on any list needs its `pc`, and that no carcass is left when the next
  thread finishes needs that a switch is always followed by
  `CheckToBeDestroyed`, which is what `CarcassSafe` says with `pc`. `IdleAgrees`
  says what the idling `Sleep` was called with. There is one lemma per scheduler
  operator (`BlockCore`, `ReadyCore`, `RunOrIdleCore`, ...) and one per action.
  `NoWakeupIsLost` counts the woken threads of a semaphore with the cardinality
  theorems, above `IInv`. `SemaphoresImplementCounters` is the safety part of the
  refinement: each step is one of `SemaphoreSpec` or changes nothing there.
- `SynchListsProofs`, `SynchDisksProofs`. The lock's semaphore has value 1 exactly
  when no thread is between `Acquire` and `Release`; for the disk also where the
  interrupt's permit is. Scheduling does not matter for that: only that the current
  thread is a thread. `KernelThreadsProofs` states what each shared operator does to
  types, semaphore values and `pc`.
- `SignalsAreRemembered` does need the scheduler: that a woken waiter is not asleep
  any more follows from the ready list, the queues and the statuses being in
  agreement (`Consistent`, kept by every operator of `KernelThreads`). On top of it
  `WaiterAgrees` says of each thread where its own semaphore, the condition's queue
  and its `pc` stand to each other: the four cases of a waiter queued or signalled,
  before or after its `P`. `ItemsAlwaysHaveTakers` counts the takers as
  `NoWakeupIsLost` counts woken threads; it holds because only a thread that saw an
  empty list joins the queue, and because a thread enters `Append` from no call.
- The safety parts of the two refinements: `SynchListsImplementQueue`, where a call
  takes effect with its list operation and every other step changes nothing a caller
  sees; `SynchDisksImplementAtomicDisk`, where the steps that count are the request,
  the interrupt and the return, and `OneRequest` says that the view of no other
  call changes with `active`. `CallsAgree` is the invariant that joins `call` and `pc`.
- `PostOfficesProofs`. `IInv` is `TypeOK` with `SendsAreSerial` and
  `PermitPerPacket`: the sender that holds `sendLock` is the one whose packet the
  device is busy with, and a packet in the device's buffer has its permit or a
  worker that has taken it. The refinement maps what a machine still has to
  deliver to its box, the mail in the worker's hand (`InHand`), the buffered
  packet (`Buffered`) and the socket, in that order; each move along that chain
  leaves the concatenation alone. `PermitPerPacket` is what makes the move into
  the buffer sound: the device never overwrites a packet nobody has taken.

- `UserProgramsProofs`, the pages. `Base` holds always: `TypeOK` and `LoadStages`, that a
  load is one thread's. The rest, `Ordered`, is inductive as long as `KnownCalls` holds,
  and a step after which it holds is one before which it did (`callPage` is never reset),
  so `Inv` is `Base /\ (KnownCalls => Ordered)`. `Ordered` is `Ledger`, what
  `FramesAccounted` says, with `Stages`, which says where the threads are: a fault's
  victim is resident until it is written out, the page that faulted is resident
  afterwards. They need each other: that a frame has one owner when a fault takes its
  victim's frame is right only while nobody else has that victim. Programs `astray` hold
  no frame of their own (`Holds`), and their entries are never on the list nor in a
  fault, as every page of theirs is valid. As the list has every resident page once,
  it is never full when something is appended, and `LRU.cc:60` never drops an entry.
  `VictimExists` is a pigeonhole on top: the frames off the list belong to faults in
  flight, at most one per other process, and there are no more processes than frames
  (`FramesAssumption`). `ContentsStayKept` adds what each copy of a page holds:
  memory, swap place and the fault's buffer.
- The same module, the processor. `AddTestExact` and `SubTestExact`: the sign tests
  fail exactly when the sum or difference is not a word, for words of any size.
  `FaultsAreInvisible`: settling a word in flight and then reading is reading it settled
  (`DrainedSettled`), and only instructions and calls count `left` down.
  `OperandsAreSettled`, for every program that follows `Follows`.
- `ProcessorImplementsIdeal`, the refinement of `MipsSpec`, in the same module, for any
  `ByteBits` (`WordAssumption`), any memory of whole pages (`MipsAssumption`), any code
  whose fields are what `Decode` makes of an instruction (`CodeAssumption`) and any
  registers left by others (`LeftoverAssumption`). Its state is that of the program's
  own registers with the word in flight settled. The invariant is `Ready`:
  `MipsTypeOK` and `Unnamed`, that an instruction does not name the register whose
  word is in flight; with it operands are settled, and a step is one of `MipsSpec` (one
  lemma for each kind of instruction, `RegisterOpIdeal` to `StopIdeal`) or changes
  nothing there (`Unnoticed`). The rest is arithmetic: `Mult` adds and doubles with
  carries of its own, and after each turn what was added, with what is left to add, is
  the product (`UnsignedProduct`, `SignedProduct`); the quotients of C
  (`SignedDivision`, `UnsignedDivision`); words taken apart into bytes and put together
  again, for loads and stores of parts of a word. Powers of two are a recursive
  function, and loops over bits and bytes go through `Recursion` and `Rounds`, the least round
  that would fail, as the prover has no induction over data.
- The same module, the console. `ConsoleInv` says of either lock who holds it and who is served
  (`Held`), and of either device that one thing is on its way: the next poll is
  scheduled, or a character has its permit, or a reader has taken it, or the input
  ended (`OneIn`); a thread is served by the output if and only if its character or its
  interrupt is on the way (`OneOut`). `DevicesAreReady` and `ConsoleNeverStalls` follow.
  `InputStaysInOrder` adds `Flow`: what was typed is what was returned, then what is on
  its way, then what the keyboard holds, with an EOF in place of it when the input ends.
- The same module, the open files. `LiveOrRemoved` is not inductive, because `Open` finds
  the file in one step and enters it in another: `StillThere` says that what was found is
  there or flagged by then, which a Remove keeps only because the flag is set before the
  file is deleted (`Flagged`). `ReopenedOnlyLateOrByPath` needs that an Open by a
  name that is flagged looked before the flag was set (`LateKnown`). `InsertLocal` takes the first free
  place, which is found by the least-number argument of `LeastNatural`.
- `KernelProofs`, the processes. `PInv`: `Scheduled` (ready list, statuses and `pc` agree;
  whoever called Finish is deleted, is the carcass or loops in its last Sleep),
  `Sleepers` (who is blocked is on the queue its `pc` says), `Waiting` (who is on a queue
  is blocked, or a child in `Exit_P` has readied it), `Exclusive` (one thread between the
  disk's Acquire and Release, and its request, permit and queue agree) and `Family`. The
  queues cannot be said to hold sleepers only: the parent that `Exit_P` readies makes that
  false, and the proof shows that it is the only exception (`QueuedThreadsSleep`), that
  its second `P` nevertheless loses no wake-up (`NobodyIsStranded`) and does not let it in
  next to the holder (`OneOwnerOfDisk`). `Family` is why nobody ever sleeps in Join:
  `childThreads` holds only threads that begin in `usrfork`, and they finish without
  `Exit_P`; the proof needs that a child of Exec is not forked before it is loaded.
- The same module, the clock. `ClockInv`: the pending list is sorted and has one timer
  entry (`Listed`); what is pending is not overdue by a tick or more, and nothing is due
  at all outside `CheckIfDue` (`Timely`); its loop goes on exactly while something is
  (`Looping`); the track buffer begins at a sector boundary, after the head is on the
  track, and no request is over before that (`Turning`). `SectorPasses` is inductive
  with these only: `ComputeLatency` mixes the seek, the wait for the next sector, `%` by
  a track's turn and the track buffer, and the lemmas before it (`RotationFacts`,
  `ModuloDiffFacts`, `LatencyFacts`) say what each part comes to, for any rotation time,
  seek time and geometry. `HandlersRunInTime` holds for any lengths of ticks and delays.
- `FileSystemProofs`. The inductive invariant is small, `DiskInv`: types, and that no
  directory has a name twice. The work is in what one call does, a composition of some
  twenty operators and four loops. A loop is a function over `0 .. n`, and as the prover
  has no induction over data, `Rounds` says, by the least number at which it would fail,
  that a set every round stays in holds the result; `Granted`, `Stored`, `Entered` and
  `Removed` then say what an allocation, a directory that is written, a creation and a
  removal leave on the disk, an ASSERT that fails in between included. `TypeCorrect`
  needs that an allocation never fills an index block or a header beyond its sector
  (`IndirectAllocateFacts`, `DoubleAllocateFacts`). `NamesStayUnique` needs that a name
  is looked up in the same part of the directory that `FetchFrom` reads (`Visible`).
- `NamesImplemented`, the refinement of `NameTree`, in the same module. A path is looked
  up through tables that lie in sectors, so one has to know that the sectors a call
  writes hold no other directory. That is what `Intact` says, by counting pointers:
  all pointers of all files are finitely many (`PointersFinite`), so a count that agrees
  makes them one to one (`PointersApart`), and with it directories lie in used sectors,
  in different ones, and in none that a removal frees (`DirectoriesPlaced`). `SameNames`
  then says, for the shortest path that would be changed, that a call which touches the
  entries of one name in one directory changes no other path. The swap file is removed
  and made again in one restart; between the two the disk need not be intact, but
  directories are still where they were (`PlacedAfterRemoval`).
- `NoSectorLeaks` and `AllBytesStored`, in the same module (their predicates are in
  `FileSystemInvariants`). The invariant is `StoreInv`:
  `DiskInv` and, under `FewNames`, `Well`: tables have one of two sizes (so that all of a
  table is read back and a name always finds a place, `FreePlace`), and a disk whose
  files share no sector (`SoundAt`) is `Fit`. That is: the headers, which the entries
  lead to (`HeadersAre`), own all that is used (`CoveredBy`), and each is a directory,
  a file with all its bytes, or a file with an empty index block (`GoodAt`). It has to be
  this implication: a directory that grows while a file is made in it takes the sector
  that was chosen for the file's header (`HoldsAt`), and the disk after that is neither
  intact nor fit, and the model stops there. An allocation is followed round by round
  (`Fills`, `Sprouts`): as long as sectors last every block is filled before the next is
  made, and once they do not, all later blocks are empty. So a new file is whole or has
  a gap (`NewFile`), and only a file with a gap has a pointer that `WriteBack` cuts off.
  A directory is the exception that needs a shape of its own (`DirShape`): it begins
  with one sector, grows at most twice, and always in its one block of pointers
  (`GrowFile`, `WriteTableDir`), which `DirectoryAssumption` makes long enough. What one
  call does then follows entry by entry: `CreateWell`, `MakeDirWell`, `RemoveWell`,
  `MakeSwapFileWell`, an ASSERT in between included.
- `KernelThreadsProofs` holds what the scheduler's and the semaphores' operators do to the
  fields of their records (`RunFrontFields`, `ReadyToRunFields`, ...), for all of the above.

Only model-checked: liveness (`ReadyThreadRuns` and the liveness parts of the
refinements, those of `CarriesMail` included), which is out of the prover's reach;
`ImplementsContainers`, whose lists are walked by a RECURSIVE operator, which the prover
does not take, and with it the types of the containers (the rest of `PartsTypeOK` in
`Kernel` are the theorems `ProcessTypes` and `ClockTypeCorrect`). Of `FileSystem`,
`OnlyGrowthCorrupts`: it counts every pointer of every file, so a proof needs that no
two pointers below one new header are the same, for files of any size, on top of what
the proof of `NoSectorLeaks` knows of the sets of sectors.

## Not modelled

- The reader-writer protocol of `OpenFile::Read` and `Write` with three arguments:
  the only way to it is through `GetName`, which does not return, and `SC_Write` calls
  `WriteAt`. The reference counts of open files, which nothing counts up.
- Of the system calls: `Add`, the two that print a number or return a fixed string,
  and the way of arguments out of user memory. `SC_Read` of the console leaves the
  characters in a buffer of the kernel's, of 128 bytes, and never copies them to user
  memory: `InputInOrder` speaks of what `GetChar` returns; a read longer than the buffer,
  which writes behind it, is not modelled. The page table that `SC_ThreadFork` copies: no instruction uses it.
- Mail to a box or a machine that does not exist: `CallSend` takes boxes there are, as the
  one caller of `PostOfficeOutput::Send` (`Kernel::NetworkTest`) sends to boxes 0 and 1
  of ten; the ASSERT of the receiver's `PostalDelivery` is not reached by it.
- In `Processes`, what follows a V that wakes a thread which runs or has ended (the
  parent that `Exit_P` readied, still on a queue): the model stops in `"undefined"`
  where the code goes on with the thread on two lists or with a deleted one.
- The decoding of instruction words, the TLB (not compiled in), use and dirty bits,
  the byte order of the host, the debugger.
- In the file system: two calls at once, a halt other than by an ASSERT, contents
  of files, protections, names cut at nine characters, `nachos -f` on a disk in use.
- Register save and restore, `SWITCH` and stack allocation: the switch is the
  boundary between two steps. Statistics, debugging output, self tests.
- The time of an interrupt outside `Interrupts`: elsewhere any interrupt that is
  pending may come at any tick. The overflow of `totalTicks`.
- The page faults the kernel itself takes when `Exec` writes the arguments
  (`WriteMem` gives up after the handler made the page resident): without the
  arguments' contents nothing tells the outcomes apart.
- The contents of command lines, argument strings and executables.
- The last, partial page of the swap file.
- `Condition::Broadcast` has no caller in the kernel. (The hash table has none but its
  self test; it is modelled as its header promises it. The header says its buckets
  are sorted lists; they are plain ones, and nothing depends on it.)
- `nachos_task1`. Its threads, machine, network, disk, console, containers and sector
  blocks are the same text as in `nachos_task2`, so what is shown here holds of them.
  What differs is less there: one program, loaded through a `file_system` that nothing
  sets, and a `GetName` that returns nothing.
- The tools (`coff2noff`, the C++ examples), tests and makefiles.

## Plan

Done, in this order: scheduler and semaphores with their proofs; the monitor; the
disk; processes; paging; the post office; the file system's calls; the processor;
the consoles; the open-file tables; the clock; the containers; the proofs of paging
and of the processor; those of the console, the open files, the processes and the clock;
those of the file system's types and names; the refinement of the processor; the proofs
of the file system's sectors.

What could follow:

1. `FileSystem` with one action per disk write, so that a halt or a second caller can
   come in between; the sectors of a file of a given length against a reference
   definition.
2. `Paging` with the kernel's own faults (`WriteMem` in `Exec_func`), once argument
   strings have contents.
3. Proofs: `OnlyGrowthCorrupts`, from `NewFile` and the order in which `FirstClear` hands
   out sectors.
