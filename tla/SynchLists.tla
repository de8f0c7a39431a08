------------------------------ MODULE SynchLists ------------------------------
(* A SynchList<T> used by several threads: the monitor of                     *)
(* threads/synchlist.cc on the Lock and the Condition of threads/synch.cc.    *)
(*                                                                            *)
(* The semaphores are the one inside the lock and, for each thread, the one   *)
(* Condition::Wait allocates while the thread waits.  Labels of a thread:     *)
(*   "idle"     not in a call                                                 *)
(*   "acquire"  asleep in the P of lock->Acquire()                            *)
(*   "owner"    that P returned, lockHolder is not set yet                    *)
(*   "release"  Append signalled a waiter, lock->Release() comes next         *)
(*   "wait"     Wait queued its semaphore and released the lock               *)
(*   "waiting"  asleep in waiter->P()                                         *)
(*   "woken"    waiter->P() returned, Acquire comes next                      *)
EXTENDS KernelThreads

CONSTANTS Lock,      \* the semaphore of the lock
          Item,      \* what is put on the list
          NoItem     \* no item

ASSUME SynchListAssumption ==
  /\ Lock \notin Thread
  /\ Sem = Thread \cup {Lock}
  /\ InitialValue = [s \in Sem |-> IF s = Lock THEN 1 ELSE 0]
  /\ NoItem \notin Item

VARIABLES lockHolder,  \* Lock::lockHolder
          waitQueue,   \* Condition::waitQueue, the threads of its semaphores
          list,        \* the List<T>
          call,        \* the call a thread is in: "none", "append" or "remove"
          item         \* the item a thread appends, or got last

vars == <<cpu, sem, pc, lockHolder, waitQueue, list, call, item>>

AsleepLabels == {"acquire", "waiting"}
PC == {"idle", "owner", "release", "wait", "woken"} \cup AsleepLabels

TypeOK ==
  /\ cpu \in Cpu
  /\ sem \in [Sem -> SemaphoreType]
  /\ pc \in [Thread -> PC]
  /\ lockHolder \in Thread \cup {NoThread}
  /\ waitQueue \in Seq(Thread)
  /\ list \in Seq(Item)
  /\ call \in [Thread -> {"none", "append", "remove"}]
  /\ item \in [Thread -> Item \cup {NoItem}]
  /\ \A t \in Thread : call[t] = "append" => item[t] \in Item

Init ==
  /\ InitThreads("idle")
  /\ lockHolder = NoThread
  /\ waitQueue = <<>>
  /\ list = <<>>
  /\ call = [t \in Thread |-> "none"]
  /\ item = [t \in Thread |-> NoItem]

-----------------------------------------------------------------------------
(* lock->Acquire(), up to the return of P or to Sleep. *)
Acquire(t) == TryP(t, Lock, "acquire", "owner")

(* lock->Release() by the thread that holds the lock, as the end of a step. *)
Release(t, next) ==
  /\ lockHolder' = NoThread
  /\ DoV(Lock)
  /\ Goto(t, next)

(* Items are told apart and none is appended while it is on the list, as the  *)
(* ASSERT of List::Append demands.                                            *)
InUse(i) == i \in Range(list) \/ \E t \in Thread : call[t] = "append" /\ item[t] = i

CallAppend(t, i) ==
  /\ At(t, "idle")
  /\ ~InUse(i)
  /\ call' = [call EXCEPT ![t] = "append"]
  /\ item' = [item EXCEPT ![t] = i]
  /\ Acquire(t)
  /\ UNCHANGED <<lockHolder, waitQueue, list>>

CallRemoveFront(t) ==
  /\ At(t, "idle")
  /\ call' = [call EXCEPT ![t] = "remove"]
  /\ item' = [item EXCEPT ![t] = NoItem]
  /\ Acquire(t)
  /\ UNCHANGED <<lockHolder, waitQueue, list>>

ResumeAcquire(t) ==
  /\ At(t, "acquire")
  /\ Acquire(t)
  /\ UNCHANGED <<lockHolder, waitQueue, list, call, item>>

(* Mutant: Append never signals. *)
SignalNobody == UNCHANGED <<sem, cpu, waitQueue>>

(* Mutant: the waiter stays on the condition's queue. *)
SignalKeepsWaiter == DoV(Head(waitQueue)) /\ UNCHANGED waitQueue

(* listEmpty->Signal(lock) while there is a waiter. *)
Signal == DoV(Head(waitQueue)) /\ waitQueue' = Tail(waitQueue)

(* Mutant: last in, first out. *)
Prepend(i) == <<i>> \o list

Appended(i) == Append(list, i)

(* Append becomes the holder, appends and signals.  Without a waiter Signal   *)
(* enables no interrupts, and Release belongs to the same step.               *)
AppendAndSignal(t) ==
  /\ At(t, "owner") /\ call[t] = "append"
  /\ list' = Appended(item[t])
  /\ IF waitQueue # <<>>
     THEN /\ lockHolder' = t
          /\ Signal
          /\ Goto(t, "release")
          /\ UNCHANGED call
     ELSE /\ Release(t, "idle")
          /\ call' = [call EXCEPT ![t] = "none"]
          /\ UNCHANGED waitQueue
  /\ UNCHANGED item

AppendRelease(t) ==
  /\ At(t, "release")
  /\ Release(t, "idle")
  /\ call' = [call EXCEPT ![t] = "none"]
  /\ UNCHANGED <<waitQueue, list, item>>

(* RemoveFront becomes the holder and tests the list: after its Acquire and   *)
(* again after each Wait.                                                     *)
TakeFront(t) ==
  /\ At(t, "owner") /\ call[t] = "remove"
  /\ list # <<>>
  /\ list' = Tail(list)
  /\ item' = [item EXCEPT ![t] = Head(list)]
  /\ Release(t, "idle")
  /\ call' = [call EXCEPT ![t] = "none"]
  /\ UNCHANGED waitQueue

StartWait(t) ==
  /\ At(t, "owner") /\ call[t] = "remove"
  /\ list = <<>>
  /\ waitQueue' = Append(waitQueue, t)
  /\ Release(t, "wait")
  /\ UNCHANGED <<list, call, item>>

(* waiter->P(), the first time and after Sleep. *)
WaitP(t) ==
  /\ At(t, "wait") \/ At(t, "waiting")
  /\ TryP(t, t, "waiting", "woken")
  /\ UNCHANGED <<lockHolder, waitQueue, list, call, item>>

(* Mutant: Wait returns without the lock. *)
ReacquireSkipped(t) ==
  /\ At(t, "woken")
  /\ Goto(t, "owner")
  /\ UNCHANGED <<cpu, sem, lockHolder, waitQueue, list, call, item>>

(* Wait acquires the lock again; its semaphore is deleted. *)
Reacquire(t) ==
  /\ At(t, "woken")
  /\ Acquire(t)
  /\ UNCHANGED <<lockHolder, waitQueue, list, call, item>>

Preempt ==
  Preempted(AsleepLabels) /\ UNCHANGED <<lockHolder, waitQueue, list, call, item>>

(* A thread that is in a call goes on. *)
Step(t) ==
  \/ ResumeAcquire(t) \/ AppendAndSignal(t) \/ AppendRelease(t)
  \/ TakeFront(t) \/ StartWait(t) \/ WaitP(t) \/ Reacquire(t)

Next ==
  \/ \E t \in Thread :
       Step(t) \/ CallRemoveFront(t) \/ \E i \in Item : CallAppend(t, i)
  \/ Preempt

Spec == Init /\ [][Next]_vars

(* The timer keeps asking for yields while somebody is ready (see             *)
(* Semaphores.tla), and its expiries are many steps apart, or random: a       *)
(* thread that gets the CPU again and again is not preempted every time       *)
(* before it moved.  No thread has to make a call.                            *)
Fairness ==
  /\ \A t \in Thread : SF_vars(Step(t))
  /\ <>[](cpu.ready # <<>>) => []<><<Preempt>>_vars

FairSpec == Spec /\ Fairness

-----------------------------------------------------------------------------
(* The threads between the return of Acquire's P and Release. *)
Owners == {t \in Thread : pc[t] \in {"owner", "release"}}

(* The lock's semaphore and lockHolder agree with who is between Acquire and  *)
(* Release: at most one thread, none while the permit is there, and the       *)
(* ASSERT(IsHeldByCurrentThread()) of Release, Signal and Wait holds although *)
(* lockHolder is written after P returned, with interrupts enabled.           *)
MutualExclusion ==
  /\ \A t, u \in Owners : t = u
  /\ sem[Lock].value = IF Owners = {} THEN 1 ELSE 0
  /\ \A t \in Thread : pc[t] = "release" <=> lockHolder = t

(* Threads a Signal removed from the condition's queue that have not looked   *)
(* at the list yet.                                                           *)
Signalled ==
  {t \in Thread : /\ pc[t] \in {"wait", "waiting", "woken"}
                  /\ t \notin Range(waitQueue)}

(* A waiter does not miss its signal although Wait releases the lock before   *)
(* it sleeps: the thread's semaphore remembers it.                            *)
SignalRemembered ==
  \A t \in Thread :
    /\ t \in Range(waitQueue) => pc[t] \in {"wait", "waiting"} /\ sem[t].value = 0
    /\ pc[t] = "waiting" /\ t \notin Range(waitQueue)
         => sem[t].value = 1 /\ sem[t].queue = <<>>
    /\ pc[t] = "waiting" => t \in Range(waitQueue) \/ cpu.status[t] # "BLOCKED"

(* While threads wait for the list to fill, every item on it has a thread on  *)
(* its way: one that was signalled, or one that is in Acquire.                *)
ItemsHaveTakers ==
  waitQueue # <<>> =>
    Len(list) <= Cardinality({t \in Thread : call[t] = "remove" /\ t \notin Range(waitQueue)})

(* To its callers the list is a first-in first-out queue whose RemoveFront    *)
(* returns once there is something to return.                                 *)
Queue == INSTANCE QueueSpec WITH
  Client <- Thread,
  queue <- list,
  state <- [t \in Thread |->
              IF call[t] = "append" /\ pc[t] = "release" THEN "none" ELSE call[t]],
  value <- item

ImplementsQueue == Queue!FairSpec
=============================================================================
