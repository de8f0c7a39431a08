------------------------------ MODULE SynchDisks ------------------------------
(* Threads that read and write sectors through filesys/synchdisk.cc, on the   *)
(* disk of machine/disk.cc.  Labels of a thread:                              *)
(*   "idle"     not in a call                                                 *)
(*   "acquire"  asleep in the P of lock->Acquire()                            *)
(*   "owner"    that P returned, lockHolder is not set yet                    *)
(*   "io"       asleep in semaphore->P(), waiting for the disk's interrupt    *)
(*   "release"  that P returned, lock->Release() comes next                   *)
EXTENDS KernelThreads

CONSTANTS Lock, Done,       \* the lock's semaphore and the interrupt's
          Sector, Value,    \* sectors and what they hold
          InitialContents

ASSUME SynchDiskAssumption ==
  /\ Lock # Done
  /\ Sem = {Lock, Done}
  /\ InitialValue = [s \in Sem |-> IF s = Lock THEN 1 ELSE 0]
  /\ InitialContents \in [Sector -> Value]

VARIABLES lockHolder,  \* Lock::lockHolder
          active,      \* Disk::active, and the interrupt that is pending with it
          disk,        \* the sectors
          call         \* a thread's call: its arguments, and the buffer of a read

vars == <<cpu, sem, pc, lockHolder, active, disk, call>>

AsleepLabels == {"acquire", "io"}
PC == {"idle", "owner", "release"} \cup AsleepLabels

NoCall  == [op |-> "none"]
Reading == [op : {"read"}, sector : Sector]
HasRead == [op : {"read"}, sector : Sector, data : Value]
Writing == [op : {"write"}, sector : Sector, data : Value]

TypeOK ==
  /\ cpu \in Cpu
  /\ sem \in [Sem -> SemaphoreType]
  /\ pc \in [Thread -> PC]
  /\ lockHolder \in Thread \cup {NoThread}
  /\ active \in BOOLEAN
  /\ disk \in [Sector -> Value]
  /\ call \in [Thread -> {NoCall} \cup Reading \cup HasRead \cup Writing]

Init ==
  /\ InitThreads("idle")
  /\ lockHolder = NoThread
  /\ active = FALSE
  /\ disk = InitialContents
  /\ call = [t \in Thread |-> NoCall]

-----------------------------------------------------------------------------
Acquire(t) == TryP(t, Lock, "acquire", "owner")

ReadSector(t, n) ==
  /\ At(t, "idle")
  /\ call' = [call EXCEPT ![t] = [op |-> "read", sector |-> n]]
  /\ Acquire(t)
  /\ UNCHANGED <<lockHolder, active, disk>>

WriteSector(t, n, v) ==
  /\ At(t, "idle")
  /\ call' = [call EXCEPT ![t] = [op |-> "write", sector |-> n, data |-> v]]
  /\ Acquire(t)
  /\ UNCHANGED <<lockHolder, active, disk>>

(* Mutant: Acquire returns when it was woken, whoever has the lock. *)
ResumeAcquireUntested(t) ==
  /\ At(t, "acquire")
  /\ Goto(t, "owner")
  /\ UNCHANGED <<cpu, sem, lockHolder, active, disk, call>>

ResumeAcquire(t) ==
  /\ At(t, "acquire")
  /\ Acquire(t)
  /\ UNCHANGED <<lockHolder, active, disk, call>>

(* ReadRequest: the simulated disk moves the data at once. *)
ReadRequest(t) ==
  /\ call[t].op = "read"
  /\ call' = [call EXCEPT ![t] =
                [op |-> "read", sector |-> @.sector, data |-> disk[@.sector]]]
  /\ UNCHANGED disk

WriteRequest(t) ==
  /\ call[t].op = "write"
  /\ disk' = [disk EXCEPT ![call[t].sector] = call[t].data]
  /\ UNCHANGED call

(* The lock's holder starts the disk and waits for its interrupt; nothing     *)
(* between the return of Acquire's P and semaphore->P() enables interrupts.   *)
Request(t) ==
  /\ At(t, "owner")
  /\ lockHolder' = t
  /\ ReadRequest(t) \/ WriteRequest(t)
  /\ active' = TRUE
  /\ TryP(t, Done, "io", "release")

ResumeIO(t) ==
  /\ At(t, "io")
  /\ TryP(t, Done, "io", "release")
  /\ UNCHANGED <<lockHolder, active, disk, call>>

(* lock->Release(), and the call returns. *)
Release(t) ==
  /\ At(t, "release")
  /\ lockHolder' = NoThread
  /\ DoV(Lock)
  /\ Goto(t, "idle")
  /\ call' = [call EXCEPT ![t] = NoCall]
  /\ UNCHANGED <<active, disk>>

(* Mutant: the handler leaves the disk active. *)
DiskInterruptStaysActive ==
  /\ active
  /\ HandlerV(Done, AsleepLabels)
  /\ UNCHANGED <<lockHolder, active, disk, call>>

(* Disk::CallBack and SynchDisk::CallBack. *)
DiskInterrupt ==
  /\ active
  /\ active' = FALSE
  /\ HandlerV(Done, AsleepLabels)
  /\ UNCHANGED <<lockHolder, disk, call>>

Preempt ==
  Preempted(AsleepLabels) /\ UNCHANGED <<lockHolder, active, disk, call>>

Step(t) == ResumeAcquire(t) \/ Request(t) \/ ResumeIO(t) \/ Release(t)

Next ==
  \/ \E t \in Thread :
       \/ Step(t)
       \/ \E n \in Sector : ReadSector(t, n) \/ \E v \in Value : WriteSector(t, n, v)
  \/ DiskInterrupt
  \/ Preempt

Spec == Init /\ [][Next]_vars

(* Threads and timer as in SynchLists.tla.  A scheduled interrupt fires: the  *)
(* clock advances at every tick, and to the interrupt's time when nobody runs. *)
Fairness ==
  /\ \A t \in Thread : SF_vars(Step(t))
  /\ <>[](cpu.ready # <<>>) => []<><<Preempt>>_vars
  /\ SF_vars(DiskInterrupt)

FairSpec == Spec /\ Fairness

-----------------------------------------------------------------------------
(* The threads between the return of Acquire's P and Release. *)
Owners == {t \in Thread : pc[t] \in {"owner", "io", "release"}}

(* One request is outstanding at a time: the ASSERT(!active) of ReadRequest   *)
(* and WriteRequest holds at every request, and an interrupt's permit is on   *)
(* the semaphore only for the thread whose request completed, so that no      *)
(* later request can return on an earlier one's interrupt.                    *)
OneRequest ==
  /\ \A t, u \in Owners : t = u
  /\ \A t \in Thread : pc[t] \in {"owner", "release"} => ~active /\ sem[Done].value = 0
  /\ \A t \in Thread : pc[t] = "io" => sem[Done].value = IF active THEN 0 ELSE 1
  /\ active => \E t \in Thread : pc[t] = "io" /\ lockHolder = t

(* Callers see an atomic disk: requests are served one by one, each returns   *)
(* with its own data after its own interrupt, and with calls outstanding the  *)
(* disk keeps being used.                                                     *)
Stage(t) ==
  CASE pc[t] \in {"idle", "acquire", "owner"} -> "called"
    [] pc[t] = "io" /\ active -> "transferred"
    [] OTHER -> "completed"

AtomicDisk == INSTANCE DiskSpec WITH
  Client <- Thread,
  NoClient <- NoThread,
  contents <- disk,
  serving <- IF active THEN lockHolder ELSE NoThread,
  call <- [t \in Thread |->
             IF pc[t] = "idle" THEN [stage |-> "none"]
             ELSE [f \in {"stage"} \cup DOMAIN call[t] |->
                     IF f = "stage" THEN Stage(t) ELSE call[t][f]]]

ImplementsAtomicDisk == AtomicDisk!FairSpec
=============================================================================
