------------------------------ MODULE Processes ------------------------------
(* User processes: Exec, ThreadFork, Join and Exit of userprog/exception.cc,  *)
(* over the scheduler and the disk that every Load and file call waits for.   *)
(*                                                                            *)
(* A thread is its thread_id: Thread's constructor takes the next one of the  *)
(* bitmap thread_ids, which is never cleared.  Labels:                        *)
(*   "none"     not created           "created" constructed, not forked       *)
(*   "main"     in main()             "user"    in user code                  *)
(*   "acquire"  asleep in the P of SynchDisk's lock->Acquire()                *)
(*   "owner"    has the lock          "io"      asleep in semaphore->P()      *)
(*   "release"  releases the lock next, and goes on at after[t]               *)
(*   "fork"     Exec loaded the program, Fork comes next                      *)
(*   "join"     asleep in join_Func   "exit"    readied its parent in Exit_P  *)
(*   "finish"   Sys_Fork returned     "end"     called Finish                 *)
(*   "runRoot", "execRoot", "sysForkRoot", "childRoot"                        *)
(*              forked, and about to begin RunUP, Exec_func, Sys_Fork, usrfork *)
(*                                                                            *)
(* The machine stops when an ASSERT fails or a freed or NULL object is used:  *)
(* what follows is not described.                                             *)
EXTENDS KernelThreads

CONSTANTS MaxThreads,   \* bound on the threads ever created
          Lock, Done    \* SynchDisk's lock and semaphore

ASSUME ProcessAssumption ==
  /\ MaxThreads \in Nat \ {0}
  /\ Thread = 0 .. MaxThreads - 1
  /\ Lock # Done /\ Sem = {Lock, Done}
  /\ InitialValue = [s \in Sem |-> IF s = Lock THEN 1 ELSE 0]

Main == 0

VARIABLES active,         \* Disk::active
          after,          \* where a thread goes on after its disk access
          kid,            \* the thread Exec is creating
          parent,         \* Thread::parent
          childThreads,   \* Thread::child_threads
          finishedChilds, \* Thread::finished_childs
          joined,         \* the child whose Join returned last (history)
          spaceDeleted,   \* SC_Exit deleted the thread's AddrSpace
          machine         \* "runs", or why it stopped

family == <<kid, parent, childThreads, finishedChilds, joined, spaceDeleted>>
vars == <<cpu, sem, pc, active, after, family, machine>>

Roots == {"runRoot", "execRoot", "sysForkRoot", "childRoot"}
AsleepLabels == {"acquire", "io"}
PC == {"none", "created", "main", "user", "owner", "release", "fork", "join", "exit",
       "finish", "end"} \cup Roots \cup AsleepLabels

TypeOK ==
  /\ cpu \in Cpu
  /\ sem \in [Sem -> SemaphoreType]
  /\ pc \in [Thread -> PC]
  /\ active \in BOOLEAN
  /\ after \in [Thread -> {"user", "fork"}]
  /\ kid \in [Thread -> Thread \cup {NoThread}]
  /\ parent \in [Thread -> Thread \cup {NoThread}]
  /\ childThreads \in [Thread -> SUBSET Thread]
  /\ finishedChilds \in [Thread -> SUBSET Thread]
  /\ joined \in [Thread -> Thread \cup {NoThread}]
  /\ spaceDeleted \in [Thread -> BOOLEAN]
  /\ machine \in {"runs", "queuedTwice", "notInList", "undefined", "stopped"}

Init ==
  /\ cpu = Boot(Main)
  /\ sem = [s \in Sem |-> NewSemaphore(InitialValue[s])]
  /\ pc = [t \in Thread |-> IF t = Main THEN "main" ELSE "none"]
  /\ active = FALSE
  /\ after = [t \in Thread |-> "user"]
  /\ kid = [t \in Thread |-> NoThread]
  /\ parent = [t \in Thread |-> NoThread]
  /\ childThreads = [t \in Thread |-> {}]
  /\ finishedChilds = [t \in Thread |-> {}]
  /\ joined = [t \in Thread |-> NoThread]
  /\ spaceDeleted = [t \in Thread |-> FALSE]
  /\ machine = "runs"

-----------------------------------------------------------------------------
(* The machine runs, and t goes on at label l. *)
Runs(t, l) == machine = "runs" /\ At(t, l)

(* The scheduler when the current thread goes on: what Run and Begin do after *)
(* a SWITCH was done before anything else.                                    *)
Now == CheckToBeDestroyed(cpu)

Exists(t) == pc[t] # "none"

(* The next thread_id. *)
Fresh(u) == ~Exists(u) /\ \A v \in Thread : v < u => Exists(v)

OnReadyList(t) == t \in Range(cpu.ready)

(* List::Append's ASSERT stops the machine when the item is on the list.      *)
AssertNotQueued(ok) == machine' = IF ok THEN "runs" ELSE "queuedTwice"

-----------------------------------------------------------------------------
(* One evaluation of the loop of s->P(), which queues the thread.  p is pc    *)
(* but for the threads the same step moves.                                   *)
LoopP(t, s, asleep, next, p) ==
  /\ AssertNotQueued(Available(sem[s]) \/ t \notin Range(sem[s].queue))
  /\ sem' = [sem EXCEPT ![s] = PSem(@, t)]
  /\ cpu' = PCpu(sem[s], Now)
  /\ pc' = [p EXCEPT ![t] = IF Available(sem[s]) THEN next ELSE asleep]

(* s->V().  A thread that left the loop of P by a wake-up that was not for it *)
(* is still queued when V takes it for a sleeping one.                        *)
RunsOrEnded(u) == pc[u] = "end" \/ (u = cpu.current /\ ~Idling(cpu))

AddPermit(s) ==
  /\ IF Wakes(sem[s]) /\ RunsOrEnded(Head(sem[s].queue))
     THEN machine' = "undefined"
     ELSE AssertNotQueued(Wakes(sem[s]) => ~OnReadyList(Head(sem[s].queue)))
  /\ sem' = [sem EXCEPT ![s] = VSem(@)]

(* A file call, or the handling of a page fault, uses the disk. *)
UseDisk(t) ==
  /\ Runs(t, "user")
  /\ LoopP(t, Lock, "acquire", "owner", pc)
  /\ after' = [after EXCEPT ![t] = "user"]
  /\ UNCHANGED <<active, family>>

(* Mutant: Acquire returns when it was woken, whoever has the lock. *)
ResumeAcquireUntested(t) ==
  /\ Runs(t, "acquire")
  /\ cpu' = Now
  /\ Goto(t, "owner")
  /\ UNCHANGED <<sem, active, after, family, machine>>

ResumeAcquire(t) ==
  /\ Runs(t, "acquire")
  /\ LoopP(t, Lock, "acquire", "owner", pc)
  /\ UNCHANGED <<active, after, family>>

(* ReadRequest or WriteRequest, then semaphore->P(). *)
Request(t) ==
  /\ Runs(t, "owner")
  /\ LoopP(t, Done, "io", "release", pc)
  /\ active' = TRUE
  /\ UNCHANGED <<after, family>>

ResumeIO(t) ==
  /\ Runs(t, "io")
  /\ LoopP(t, Done, "io", "release", pc)
  /\ UNCHANGED <<active, after, family>>

ReleaseDisk(t) ==
  /\ Runs(t, "release")
  /\ AddPermit(Lock)
  /\ cpu' = VCpu(sem[Lock], Now)
  /\ Goto(t, after[t])
  /\ UNCHANGED <<active, after, family>>

DiskInterrupt ==
  /\ machine = "runs" /\ active
  /\ Idling(cpu) \/ pc[cpu.current] \notin AsleepLabels
  /\ active' = FALSE
  /\ AddPermit(Done)
  /\ cpu' = LET c == VCpu(sem[Done], cpu) IN
            IF Idling(cpu) THEN RunOrIdle(c, c.finishing) ELSE c
  /\ UNCHANGED <<pc, after, family>>

(* The timer's Yield; FindNextToRun takes the front before the thread queues. *)
Preempt ==
  /\ machine = "runs" /\ ~Idling(cpu)
  /\ pc[cpu.current] \notin AsleepLabels
  /\ cpu.ready # <<>>
  /\ cpu' = Yield(Now)
  /\ UNCHANGED <<sem, pc, active, after, family, machine>>

-----------------------------------------------------------------------------
DoFinish(t) == cpu' = Sleep(Now, TRUE) /\ Goto(t, "end")

(* main() starts the programs of the command line and finishes. *)
RunMultipleUserProg(u) ==
  /\ Runs(Main, "main") /\ Fresh(u)
  /\ cpu' = ReadyToRun(Now, u)
  /\ Goto(u, "runRoot")
  /\ UNCHANGED <<sem, active, after, family, machine>>

MainFinishes ==
  /\ Runs(Main, "main")
  /\ DoFinish(Main)
  /\ UNCHANGED <<sem, active, after, family, machine>>

(* RunUP loads the program, which reads the disk. *)
BeginRunUP(t) ==
  /\ Runs(t, "runRoot")
  /\ LoopP(t, Lock, "acquire", "owner", pc)
  /\ after' = [after EXCEPT ![t] = "user"]
  /\ UNCHANGED <<active, family>>

(* If that fails, so does the machine.                                        *)
RunUPStops(t) ==
  /\ Runs(t, "runRoot")
  /\ machine' = "stopped"
  /\ UNCHANGED <<cpu, sem, pc, active, after, family>>

(* Mutant: Exec's child is one that Join waits for. *)
RegisterForJoin(t, u) == childThreads' = [childThreads EXCEPT ![t] = @ \cup {u}]

(* Only child_threads_ids, which nothing reads, learns of Exec's child.       *)
Register(t, u) == UNCHANGED childThreads

(* SC_Exec: the thread object, then Load. *)
Exec(t, u) ==
  /\ Runs(t, "user") /\ Fresh(u)
  /\ LoopP(t, Lock, "acquire", "owner", [pc EXCEPT ![u] = "created"])
  /\ after' = [after EXCEPT ![t] = "fork"]
  /\ kid' = [kid EXCEPT ![t] = u]
  /\ parent' = [parent EXCEPT ![u] = t]
  /\ Register(t, u)
  /\ UNCHANGED <<active, finishedChilds, joined, spaceDeleted>>

(* The child is forked when Load returns, also if it was not loaded. *)
ExecForks(t) ==
  /\ Runs(t, "fork")
  /\ cpu' = ReadyToRun(Now, kid[t])
  /\ pc' = [pc EXCEPT ![t] = "user", ![kid[t]] = "execRoot"]
  /\ UNCHANGED <<sem, active, after, family, machine>>

(* Load returns without a disk access if the flag of the program is set       *)
(* (OpenFiles.tla); the child runs all the same.                              *)
ExecUnopened(t, u) ==
  /\ Runs(t, "user") /\ Fresh(u)
  /\ cpu' = ReadyToRun(Now, u)
  /\ Goto(u, "execRoot")
  /\ parent' = [parent EXCEPT ![u] = t]
  /\ Register(t, u)
  /\ UNCHANGED <<sem, active, after, kid, finishedChilds, joined, spaceDeleted, machine>>

(* SC_ThreadFork forks a thread that runs Sys_Fork, which forks the child and *)
(* returns; the child belongs to that thread, not to the caller.              *)
ThreadFork(t, w) ==
  /\ Runs(t, "user") /\ Fresh(w)
  /\ cpu' = ReadyToRun(Now, w)
  /\ Goto(w, "sysForkRoot")
  /\ UNCHANGED <<sem, active, after, family, machine>>

BeginSysFork(w, u) ==
  /\ Runs(w, "sysForkRoot") /\ Fresh(u)
  /\ cpu' = ReadyToRun(Now, u)
  /\ pc' = [pc EXCEPT ![w] = "finish", ![u] = "childRoot"]
  /\ parent' = [parent EXCEPT ![u] = w]
  /\ childThreads' = [childThreads EXCEPT ![w] = @ \cup {u}]
  /\ UNCHANGED <<sem, active, after, kid, finishedChilds, joined, spaceDeleted, machine>>

ThreadFinish(t) ==
  /\ Runs(t, "finish")
  /\ DoFinish(t)
  /\ UNCHANGED <<sem, active, after, family, machine>>

(* usrfork uses the child's address space, which nobody set. *)
BeginChild(t) ==
  /\ Runs(t, "childRoot")
  /\ machine' = "undefined"
  /\ UNCHANGED <<cpu, sem, pc, active, after, family>>

(* Exec_func starts the program; join_Func returns after its Sleep. *)
EnterUser(t) ==
  /\ \E l \in {"execRoot", "join"} : Runs(t, l)
  /\ cpu' = Now
  /\ Goto(t, "user")
  /\ UNCHANGED <<sem, active, after, family, machine>>

-----------------------------------------------------------------------------
(* SC_Join.  Without the child in either list, join_Func just returns.        *)
Join(t, c) ==
  /\ Runs(t, "user") /\ parent[c] = t
  /\ joined' = [joined EXCEPT ![t] = c]
  /\ IF c \in childThreads[t] \ finishedChilds[t]
     THEN cpu' = Sleep(Now, FALSE) /\ Goto(t, "join")
     ELSE cpu' = Now /\ UNCHANGED pc
  /\ UNCHANGED <<sem, active, after, kid, parent, childThreads, finishedChilds,
                 spaceDeleted, machine>>

(* Exit(0) does not look at the parent. *)
ExitZero(t) ==
  /\ Runs(t, "user")
  /\ DoFinish(t)
  /\ UNCHANGED <<sem, active, after, family, machine>>

(* Exit_P's last statements.  Whether the parent still exists is not tested,  *)
(* and List::Remove's ASSERT fails for a child that Exec made.                *)
Inform(t) ==
  LET p == parent[t] IN
  /\ DoFinish(t)
  /\ IF p = NoThread
     THEN UNCHANGED <<finishedChilds, childThreads, machine>>
     ELSE /\ finishedChilds' = [finishedChilds EXCEPT ![p] = @ \cup {t}]
          /\ childThreads' = [childThreads EXCEPT ![p] = @ \ {t}]
          /\ machine' = IF Now.status[p] = "DELETED" THEN "undefined"
                        ELSE IF t \notin childThreads[p] THEN "notInList" ELSE "runs"
  /\ UNCHANGED <<sem, active, after, kid, parent, joined, spaceDeleted>>

(* Exit with the thread's own id: a parent that is not on the ready list is   *)
(* put there, whatever it waits for.                                          *)
ExitOwn(t) ==
  /\ Runs(t, "user") /\ t # 0
  /\ parent[t] = NoThread \/ OnReadyList(parent[t])
  /\ Inform(t)

ExitOwnReadies(t) ==
  LET p == parent[t] IN
  /\ Runs(t, "user") /\ t # 0
  /\ p # NoThread /\ ~OnReadyList(p)
  /\ cpu' = ReadyToRun(Now, p)
  /\ Goto(t, "exit")
  /\ machine' = IF Now.status[p] = "DELETED" THEN "undefined" ELSE "runs"
  /\ UNCHANGED <<sem, active, after, family>>

FinishExit(t) == Runs(t, "exit") /\ Inform(t)

(* Exit with any other status: Exit_P returns at once, SC_Exit deletes the    *)
(* address space and returns to the program, which may run on from the freed  *)
(* page table.                                                                *)
ExitOther(t) ==
  /\ Runs(t, "user")
  /\ machine' \in IF spaceDeleted[t] THEN {"undefined"} ELSE {"runs", "undefined"}
  /\ spaceDeleted' = [spaceDeleted EXCEPT ![t] = TRUE]
  /\ cpu' = Now
  /\ UNCHANGED <<sem, pc, active, after, kid, parent, childThreads, finishedChilds, joined>>

Next ==
  \/ \E t \in Thread :
       \/ UseDisk(t) \/ ResumeAcquire(t) \/ Request(t) \/ ResumeIO(t) \/ ReleaseDisk(t)
       \/ BeginRunUP(t) \/ RunUPStops(t) \/ ExecForks(t) \/ ThreadFinish(t) \/ BeginChild(t) \/ EnterUser(t)
       \/ ExitZero(t) \/ ExitOwn(t) \/ ExitOwnReadies(t) \/ FinishExit(t) \/ ExitOther(t)
       \/ RunMultipleUserProg(t)
       \/ \E u \in Thread : Exec(t, u) \/ ExecUnopened(t, u) \/ ThreadFork(t, u) \/ BeginSysFork(t, u) \/ Join(t, u)
  \/ MainFinishes \/ DiskInterrupt \/ Preempt

Spec == Init /\ [][Next]_vars

-----------------------------------------------------------------------------
(* Whoever is on the queue of a semaphore sleeps there.  The one exception is *)
(* a process that a child, on its way through Exit_P, has put on the ready    *)
(* list: it stays queued, whatever it does next.                              *)
QueuedSleep ==
  machine = "runs" =>
    \A s \in Sem : \A t \in Range(sem[s].queue) :
      \/ cpu.status[t] = "BLOCKED"
      \/ \E c \in Thread : parent[c] = t /\ pc[c] = "exit"

(* No process sleeps where nothing would wake it: whoever is blocked and did  *)
(* not finish is on the queue of the lock or the semaphore it waits for, or   *)
(* in Join with a child that is still to exit.                                *)
NobodyStranded ==
  machine = "runs" =>
    \A t \in Thread : cpu.status[t] = "BLOCKED" /\ pc[t] # "end" =>
      \/ pc[t] = "acquire" /\ t \in Range(sem[Lock].queue)
      \/ pc[t] = "io" /\ t \in Range(sem[Done].queue)
      \/ pc[t] = "join" /\ \E c \in childThreads[t] : pc[c] # "end"

(* A parent that Exit_P readied while it waited for the disk does not get the *)
(* disk on top of its owner, and does not return before its own interrupt.    *)
DiskOwners == {t \in Thread : pc[t] \in {"owner", "io", "release"}}

DiskStaysExclusive ==
  machine = "runs" =>
    /\ Cardinality(DiskOwners) + sem[Lock].value = 1
    /\ \A t \in DiskOwners :
         sem[Done].value = IF pc[t] = "io" /\ ~active THEN 1 ELSE 0

(* Join "only returns once the user program has finished" (syscall.h).        *)
JoinWaits ==
  \A t \in Thread : joined[t] # NoThread /\ pc[t] # "join" => pc[joined[t]] = "end"

(* No list gets an element twice: ASSERT(!this->IsInList(item)) of Append     *)
(* (list.cc) holds for the ready list and for the queues of semaphores.       *)
NeverQueuedTwice == machine # "queuedTwice"
=============================================================================
