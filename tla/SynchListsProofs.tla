--------------------------- MODULE SynchListsProofs ---------------------------
(* The monitor of a SynchList excludes, for every number of threads and       *)
(* items.  TypeOK /\ MutualExclusion is inductive: the value of the lock's    *)
(* semaphore says whether somebody is between Acquire and Release.            *)
EXTENDS SynchLists, KernelThreadsProofs

IInv == TypeOK /\ MutualExclusion

(* The lock's semaphore is not the one of a waiting thread. *)
LEMMA LockApart == Lock \in Sem /\ \A t \in Thread : t \in Sem /\ t # Lock
BY SynchListAssumption

(* Acquire's P makes t the only owner, if there was none. *)
LEMMA AcquireExcludes ==
  ASSUME IInv, NEW t \in Thread, pc[t] \in {"idle", "acquire", "woken"}, Acquire(t),
         UNCHANGED lockHolder
  PROVE  MutualExclusion' /\ KTypeOK' /\ pc' \in [Thread -> PC]
<1>1. KTypeOK /\ Lock \in Sem /\ pc \in [Thread -> PC]
  BY LockApart DEF IInv, TypeOK, KTypeOK
<1>2. /\ KTypeOK'
      /\ sem[Lock].value # 0 =>
           sem'[Lock].value = sem[Lock].value - 1 /\ pc' = [pc EXCEPT ![t] = "owner"]
      /\ sem[Lock].value = 0 =>
           sem'[Lock].value = 0 /\ pc' = [pc EXCEPT ![t] = "acquire"]
  BY <1>1, TryPFacts DEF Acquire
<1>3. CASE sem[Lock].value # 0
  <2>1. Owners = {} /\ sem[Lock].value = 1
    BY <1>3 DEF IInv, MutualExclusion
  <2>2. pc' = [pc EXCEPT ![t] = "owner"] /\ sem'[Lock].value = 0
    BY <1>2, <1>3, <2>1
  <2>3. Owners' = {t}
    BY <1>1, <2>1, <2>2 DEF Owners
  <2>4. \A u \in Thread : pc'[u] = "release" <=> lockHolder' = u
    BY <1>1, <2>2 DEF IInv, MutualExclusion
  <2> QED BY <1>1, <1>2, <2>2, <2>3, <2>4 DEF MutualExclusion, PC
<1>4. CASE sem[Lock].value = 0
  <2>1. pc' = [pc EXCEPT ![t] = "acquire"] /\ sem'[Lock].value = 0
    BY <1>2, <1>4
  <2>2. Owners' = Owners
    BY <1>1, <2>1 DEF Owners
  <2>3. Owners # {}
    BY <1>4 DEF IInv, MutualExclusion
  <2>4. \A u \in Thread : pc'[u] = "release" <=> lockHolder' = u
    BY <1>1, <2>1 DEF IInv, MutualExclusion
  <2> QED
    BY <1>1, <1>2, <2>1, <2>2, <2>3, <2>4 DEF IInv, MutualExclusion, PC, AsleepLabels
<1> QED BY <1>3, <1>4

(* Release by the owner leaves no owner. *)
LEMMA ReleaseExcludes ==
  ASSUME IInv, NEW t \in Owners, NEW l \in PC \ {"owner", "release"}, Release(t, l)
  PROVE  /\ MutualExclusion' /\ KTypeOK' /\ pc' \in [Thread -> PC]
         /\ lockHolder' \in Thread \cup {NoThread}
<1>1. KTypeOK /\ Lock \in Sem /\ pc \in [Thread -> PC] /\ t \in Thread
  BY LockApart DEF IInv, TypeOK, KTypeOK, Owners
<1>2. KTypeOK' /\ sem'[Lock].value = sem[Lock].value + 1
  BY <1>1, DoVFacts DEF Release
<1>3. Owners = {t} /\ sem[Lock].value = 0
  BY DEF IInv, MutualExclusion
<1>4. pc' = [pc EXCEPT ![t] = l] /\ lockHolder' = NoThread
  BY DEF Release, Goto
<1>5. Owners' = {}
  BY <1>1, <1>3, <1>4 DEF Owners
<1>6. \A u \in Thread : pc'[u] # "release"
  BY <1>5 DEF Owners
<1>7. \A u \in Thread : pc'[u] = "release" <=> lockHolder' = u
  BY <1>4, <1>6, NoThreadAssumption
<1> QED BY <1>1, <1>2, <1>3, <1>4, <1>5, <1>7 DEF MutualExclusion

(* Steps outside the critical section that do not touch the lock. *)
LEMMA OutsideExcludes ==
  ASSUME IInv, NEW t \in Thread, t \notin Owners,
         NEW l \in PC \ {"owner", "release"}, pc' = [pc EXCEPT ![t] = l],
         sem'[Lock] = sem[Lock], UNCHANGED lockHolder
  PROVE  MutualExclusion'
<1>1. pc \in [Thread -> PC]
  BY DEF IInv, TypeOK
<1>2. Owners' = Owners
  BY <1>1 DEF Owners
<1>3. \A u \in Thread : pc'[u] = "release" <=> pc[u] = "release"
  BY <1>1 DEF Owners
<1> QED BY <1>2, <1>3 DEF IInv, MutualExclusion

-----------------------------------------------------------------------------
(* Every step keeps the inductive invariant. *)
LEMMA NextIInv == IInv /\ [Next]_vars => IInv'
<1> SUFFICES ASSUME IInv, [Next]_vars PROVE IInv'
  OBVIOUS
<1>1. KTypeOK /\ pc \in [Thread -> PC] /\ Lock \in Sem
  BY LockApart DEF IInv, TypeOK, KTypeOK
<1>2. ASSUME NEW t \in Thread, NEW i \in Item, CallAppend(t, i) PROVE IInv'
  <2>1. pc[t] = "idle" /\ Acquire(t) /\ UNCHANGED <<lockHolder, waitQueue, list>>
    BY <1>2 DEF CallAppend, At
  <2>2. /\ call' \in [Thread -> {"none", "append", "remove"}]
        /\ item' \in [Thread -> Item \cup {NoItem}]
        /\ \A u \in Thread : call'[u] = "append" => item'[u] \in Item
    BY <1>2 DEF CallAppend, IInv, TypeOK
  <2> QED BY <2>1, <2>2, AcquireExcludes DEF IInv, TypeOK, KTypeOK
<1>3. ASSUME NEW t \in Thread, CallRemoveFront(t) PROVE IInv'
  <2>1. pc[t] = "idle" /\ Acquire(t) /\ UNCHANGED <<lockHolder, waitQueue, list>>
    BY <1>3 DEF CallRemoveFront, At
  <2>2. /\ call' \in [Thread -> {"none", "append", "remove"}]
        /\ item' \in [Thread -> Item \cup {NoItem}]
        /\ \A u \in Thread : call'[u] = "append" => item'[u] \in Item
    BY <1>3 DEF CallRemoveFront, IInv, TypeOK
  <2> QED BY <2>1, <2>2, AcquireExcludes DEF IInv, TypeOK, KTypeOK
<1>4. ASSUME NEW t \in Thread, ResumeAcquire(t) \/ Reacquire(t) PROVE IInv'
  <2>1. /\ pc[t] \in {"acquire", "woken"} /\ Acquire(t)
        /\ UNCHANGED <<lockHolder, waitQueue, list, call, item>>
    BY <1>4 DEF ResumeAcquire, Reacquire, At
  <2> QED BY <2>1, AcquireExcludes DEF IInv, TypeOK, KTypeOK
<1>5. ASSUME NEW t \in Thread, AppendAndSignal(t) PROVE IInv'
  <2>1. pc[t] = "owner" /\ t \in Owners /\ call[t] = "append" /\ UNCHANGED item
    BY <1>5 DEF AppendAndSignal, At, Owners
  <2>2. list' \in Seq(Item)
    BY <1>5, <2>1 DEF AppendAndSignal, Appended, IInv, TypeOK
  <2>3. CASE waitQueue # <<>>
    <3>1. Head(waitQueue) \in Thread /\ Tail(waitQueue) \in Seq(Thread)
      BY <2>3 DEF IInv, TypeOK
    <3>2. /\ lockHolder' = t /\ DoV(Head(waitQueue)) /\ waitQueue' = Tail(waitQueue)
          /\ pc' = [pc EXCEPT ![t] = "release"] /\ UNCHANGED call
      BY <1>5, <2>3 DEF AppendAndSignal, Signal, Goto
    <3>3. KTypeOK' /\ sem'[Lock] = sem[Lock]
      BY <1>1, <3>1, <3>2, DoVFacts, LockApart
    <3>4. Owners = {t} /\ Owners' = {t}
      BY <1>1, <2>1, <3>2 DEF IInv, MutualExclusion, Owners
    <3>5. \A u \in Thread : pc'[u] = "release" <=> lockHolder' = u
      BY <1>1, <3>2, <3>4 DEF Owners
    <3>6. MutualExclusion'
      BY <3>3, <3>4, <3>5 DEF IInv, MutualExclusion
    <3>7. pc' \in [Thread -> PC]
      BY <1>1, <3>2 DEF PC
    <3> QED BY <1>5, <2>1, <2>2, <3>1, <3>2, <3>3, <3>6, <3>7 DEF IInv, TypeOK, KTypeOK
  <2>4. CASE waitQueue = <<>>
    <3>1. /\ Release(t, "idle") /\ call' = [call EXCEPT ![t] = "none"]
          /\ UNCHANGED waitQueue
      BY <1>5, <2>4 DEF AppendAndSignal
    <3>2. /\ MutualExclusion' /\ KTypeOK' /\ pc' \in [Thread -> PC]
          /\ lockHolder' \in Thread \cup {NoThread}
      BY <2>1, <3>1, ReleaseExcludes DEF PC
    <3> QED BY <2>1, <2>2, <3>1, <3>2 DEF IInv, TypeOK, KTypeOK
  <2> QED BY <2>3, <2>4
<1>6. ASSUME NEW t \in Thread, AppendRelease(t) PROVE IInv'
  <2>1. /\ t \in Owners /\ Release(t, "idle") /\ call' = [call EXCEPT ![t] = "none"]
        /\ UNCHANGED <<waitQueue, list, item>>
    BY <1>6 DEF AppendRelease, At, Owners
  <2>2. /\ MutualExclusion' /\ KTypeOK' /\ pc' \in [Thread -> PC]
        /\ lockHolder' \in Thread \cup {NoThread}
    BY <2>1, ReleaseExcludes DEF PC
  <2> QED BY <2>1, <2>2 DEF IInv, TypeOK, KTypeOK
<1>7. ASSUME NEW t \in Thread, TakeFront(t) PROVE IInv'
  <2>1. /\ t \in Owners /\ Release(t, "idle") /\ call' = [call EXCEPT ![t] = "none"]
        /\ UNCHANGED waitQueue
    BY <1>7 DEF TakeFront, At, Owners
  <2>2. /\ list' \in Seq(Item) /\ item' \in [Thread -> Item \cup {NoItem}]
        /\ \A u \in Thread : call'[u] = "append" => item'[u] \in Item
    BY <1>7, <2>1 DEF TakeFront, IInv, TypeOK
  <2>3. /\ MutualExclusion' /\ KTypeOK' /\ pc' \in [Thread -> PC]
        /\ lockHolder' \in Thread \cup {NoThread}
    BY <2>1, ReleaseExcludes DEF PC
  <2> QED BY <2>1, <2>2, <2>3 DEF IInv, TypeOK, KTypeOK
<1>8. ASSUME NEW t \in Thread, StartWait(t) PROVE IInv'
  <2>1. /\ t \in Owners /\ Release(t, "wait") /\ waitQueue' = Append(waitQueue, t)
        /\ UNCHANGED <<list, call, item>>
    BY <1>8 DEF StartWait, At, Owners
  <2>2. waitQueue' \in Seq(Thread)
    BY <2>1 DEF IInv, TypeOK
  <2>3. /\ MutualExclusion' /\ KTypeOK' /\ pc' \in [Thread -> PC]
        /\ lockHolder' \in Thread \cup {NoThread}
    BY <2>1, ReleaseExcludes DEF PC
  <2> QED BY <2>1, <2>2, <2>3 DEF IInv, TypeOK, KTypeOK
<1>9. ASSUME NEW t \in Thread, WaitP(t) PROVE IInv'
  <2>1. /\ t \notin Owners /\ TryP(t, t, "waiting", "woken")
        /\ UNCHANGED <<lockHolder, waitQueue, list, call, item>>
    BY <1>9 DEF WaitP, At, Owners
  <2>2. KTypeOK' /\ sem'[Lock] = sem[Lock]
    BY <1>1, <2>1, TryPFacts, LockApart
  <2>3. \E l \in {"waiting", "woken"} : pc' = [pc EXCEPT ![t] = l]
    BY <2>1 DEF TryP
  <2>4. PICK l \in PC \ {"owner", "release"} : pc' = [pc EXCEPT ![t] = l]
    BY <2>3 DEF PC, AsleepLabels
  <2>5. MutualExclusion' /\ pc' \in [Thread -> PC]
    BY <1>1, <2>1, <2>2, <2>4, OutsideExcludes
  <2> QED BY <2>1, <2>2, <2>5 DEF IInv, TypeOK, KTypeOK
<1>10. ASSUME Preempt PROVE IInv'
  <2>1. KTypeOK' /\ sem' = sem /\ pc' = pc
    BY <1>1, <1>10, PreemptedFacts DEF Preempt
  <2>2. UNCHANGED <<lockHolder, waitQueue, list, call, item>>
    BY <1>10 DEF Preempt
  <2> QED BY <2>1, <2>2 DEF IInv, TypeOK, KTypeOK, MutualExclusion, Owners
<1>11. ASSUME UNCHANGED vars PROVE IInv'
  BY <1>11 DEF vars, IInv, TypeOK, MutualExclusion, Owners
<1> QED
  BY <1>2, <1>3, <1>4, <1>5, <1>6, <1>7, <1>8, <1>9, <1>10, <1>11 DEF Next, Step

(* No thread has the lock at first. *)
LEMMA InitIInv == Init => IInv
<1> SUFFICES ASSUME Init PROVE IInv
  OBVIOUS
<1>1. /\ KTypeOK /\ pc = [t \in Thread |-> "idle"]
      /\ \A s \in Sem : sem[s].value = InitialValue[s]
  BY InitThreadsFacts DEF Init
<1>2. Owners = {}
  BY <1>1 DEF Owners
<1>3. sem[Lock].value = 1
  BY <1>1, LockApart, SynchListAssumption
<1>4. MutualExclusion
  BY <1>1, <1>2, <1>3, NoThreadAssumption DEF MutualExclusion, Init
<1> QED BY <1>1, <1>4 DEF Init, IInv, TypeOK, KTypeOK, PC

(* The inductive invariant holds in every reachable state. *)
LEMMA Invariance == Spec => []IInv
BY InitIInv, NextIInv, PTL DEF Spec

(* Every reachable state of the monitor has the right types. *)
THEOREM TypeCorrect == Spec => []TypeOK
<1>1. IInv => TypeOK
  BY DEF IInv
<1> QED BY <1>1, Invariance, PTL

(* However the timer interrupts Acquire, Release, Wait and Signal, one thread *)
(* at most is between Acquire and Release, and lockHolder names it when the   *)
(* asserts of Release, Signal and Wait look.                                  *)
THEOREM MonitorExcludes == Spec => []MutualExclusion
<1>1. IInv => MutualExclusion
  BY DEF IInv
<1> QED BY <1>1, Invariance, PTL

-----------------------------------------------------------------------------
(* What SignalRemembered needs to be inductive: the semaphore of every thread *)
(* through the whole of Wait.  It is the thread's only place to sleep, so its *)
(* queue has to agree with its status (Consistent).                           *)
WaiterAgrees(t) ==
  /\ t \in Range(waitQueue) =>
       pc[t] \in {"wait", "waiting"} /\ call[t] = "remove" /\ sem[t].value = 0
  /\ t \notin Range(waitQueue) =>
       sem[t].value = IF pc[t] \in {"wait", "waiting"} THEN 1 ELSE 0
  /\ sem[t].queue = IF pc[t] = "waiting" /\ t \in Range(waitQueue) THEN <<t>> ELSE <<>>
  /\ pc[t] = "waiting" /\ t \notin Range(waitQueue) => cpu.status[t] # "BLOCKED"

Waiters == IsInjective(waitQueue) /\ \A t \in Thread : WaiterAgrees(t)

WInv == IInv /\ Consistent /\ Waiters

LEMMA WaitersTypes ==
  ASSUME IInv
  PROVE  /\ KTypeOK /\ pc \in [Thread -> PC] /\ waitQueue \in Seq(Thread)
         /\ Range(waitQueue) \subseteq Thread
         /\ call \in [Thread -> {"none", "append", "remove"}]
         /\ cpu.status \in [Thread -> Status]
         /\ \A t \in Thread : sem[t] \in SemaphoreType /\ t \in Sem /\ t # Lock
         /\ Lock \in Sem
BY LockApart DEF IInv, TypeOK, KTypeOK, Range, Cpu

(* Acquire is not about the semaphores of waiters. *)
LEMMA AcquireWaiters ==
  ASSUME WInv, NEW t \in Thread, cpu.current = t, ~Idling(cpu),
         pc[t] \in {"idle", "acquire", "woken"}, Acquire(t), UNCHANGED waitQueue,
         \A u \in Thread : u # t => call'[u] = call[u]
  PROVE  Consistent' /\ Waiters'
<1>1. /\ KTypeOK /\ pc \in [Thread -> PC] /\ Lock \in Sem
      /\ \A u \in Thread : u \in Sem /\ u # Lock
  BY WaitersTypes DEF WInv
<1>2. /\ Consistent' /\ \A u \in Thread : sem'[u] = sem[u]
      /\ \A u \in Thread : u # t /\ cpu'.status[u] = "BLOCKED" => cpu.status[u] = "BLOCKED"
  BY <1>1, TryPConsistent, TryPFacts DEF Acquire, WInv
<1>3. PICK l \in {"acquire", "owner"} : pc' = [pc EXCEPT ![t] = l]
  BY DEF Acquire, TryP
<1>4. t \notin Range(waitQueue)
  BY DEF WInv, Waiters, WaiterAgrees
<1>5. ASSUME NEW u \in Thread PROVE WaiterAgrees(u)'
  <2>1. CASE u = t
    BY <1>1, <1>2, <1>3, <1>4, <2>1 DEF WInv, Waiters, WaiterAgrees
  <2>2. CASE u # t
    BY <1>1, <1>2, <1>3, <2>2 DEF WInv, Waiters, WaiterAgrees
  <2> QED BY <2>1, <2>2
<1> QED BY <1>2, <1>5 DEF WInv, Waiters

(* Nor is Release. *)
LEMMA ReleaseWaiters ==
  ASSUME WInv, NEW t \in Thread, pc[t] \in {"owner", "release"}, Release(t, "idle"),
         UNCHANGED waitQueue, \A u \in Thread : u # t => call'[u] = call[u]
  PROVE  Consistent' /\ Waiters'
<1>1. /\ KTypeOK /\ pc \in [Thread -> PC] /\ Lock \in Sem
      /\ cpu.status \in [Thread -> Status]
      /\ \A u \in Thread : u \in Sem /\ u # Lock
  BY WaitersTypes DEF WInv
<1>2. DoV(Lock) /\ pc' = [pc EXCEPT ![t] = "idle"]
  BY DEF Release, Goto
<1>3. Consistent' /\ \A u \in Thread : sem'[u] = sem[u]
  BY <1>1, <1>2, DoVConsistent, DoVFacts DEF WInv
<1>4. \A u \in Thread : cpu'.status[u] = "BLOCKED" => cpu.status[u] = "BLOCKED"
  BY <1>1, <1>2, DoVConsistent DEF WInv
<1>5. t \notin Range(waitQueue)
  BY DEF WInv, Waiters, WaiterAgrees
<1>6. ASSUME NEW u \in Thread PROVE WaiterAgrees(u)'
  <2>1. CASE u = t
    BY <1>1, <1>2, <1>3, <1>5, <2>1 DEF WInv, Waiters, WaiterAgrees
  <2>2. CASE u # t
    BY <1>1, <1>2, <1>3, <1>4, <2>2 DEF WInv, Waiters, WaiterAgrees
  <2> QED BY <2>1, <2>2
<1> QED BY <1>3, <1>6 DEF WInv, Waiters

(* Signal moves the permit to the waiter it takes from the queue, asleep or   *)
(* still on its way to sleep.                                                 *)
LEMMA SignalWaiters ==
  ASSUME WInv, NEW t \in Thread, pc[t] = "owner", waitQueue # <<>>, Signal,
         Goto(t, "release"), UNCHANGED call
  PROVE  Consistent' /\ Waiters'
<1> DEFINE h == Head(waitQueue)
<1>1. /\ KTypeOK /\ pc \in [Thread -> PC] /\ waitQueue \in Seq(Thread)
      /\ cpu.status \in [Thread -> Status]
      /\ \A u \in Thread : u \in Sem
  BY WaitersTypes DEF WInv
<1>2. /\ h \in Thread /\ h \in Range(waitQueue)
      /\ Range(Tail(waitQueue)) = Range(waitQueue) \ {h} /\ IsInjective(Tail(waitQueue))
  BY <1>1, TailFacts DEF WInv, Waiters
<1>3. waitQueue' = Tail(waitQueue) /\ pc' = [pc EXCEPT ![t] = "release"] /\ DoV(h)
  BY DEF Signal, Goto
<1>4. pc[h] \in {"wait", "waiting"} /\ sem[h].value = 0 /\ h # t /\ t \notin Range(waitQueue)
  BY <1>2 DEF WInv, Waiters, WaiterAgrees
<1>5. /\ Consistent' /\ sem'[h].value = 1
      /\ \A u \in Thread : u # h => sem'[u] = sem[u]
  <2>1. Consistent'
    BY <1>1, <1>2, <1>3, DoVConsistent DEF WInv
  <2>2. sem'[h].value = sem[h].value + 1 /\ \A r \in Sem \ {h} : sem'[r] = sem[r]
    BY <1>1, <1>2, <1>3, DoVFacts
  <2> QED BY <1>1, <1>4, <2>1, <2>2
<1>6. CASE pc[h] = "waiting"
  <2>1. sem[h].queue = <<h>>
    BY <1>2, <1>6 DEF WInv, Waiters, WaiterAgrees
  <2>2. sem[h].queue # <<>> /\ Head(sem[h].queue) = h /\ Tail(sem[h].queue) = <<>>
    BY <2>1
  <2>3. sem'[h].queue = <<>> /\ cpu'.status = [cpu.status EXCEPT ![h] = "READY"]
    BY <1>1, <1>2, <1>3, <2>2, DoVConsistent DEF WInv
  <2>4. ASSUME NEW u \in Thread PROVE WaiterAgrees(u)'
    <3>1. CASE u = h
      BY <1>1, <1>2, <1>3, <1>4, <1>5, <2>3, <3>1 DEF WaiterAgrees
    <3>2. CASE u # h /\ u = t
      BY <1>1, <1>2, <1>3, <1>4, <1>5, <2>3, <3>2 DEF WInv, Waiters, WaiterAgrees
    <3>3. CASE u # h /\ u # t
      BY <1>1, <1>2, <1>3, <1>5, <2>3, <3>3 DEF WInv, Waiters, WaiterAgrees
    <3> QED BY <3>1, <3>2, <3>3
  <2> QED BY <1>2, <1>3, <1>5, <2>4 DEF Waiters
<1>7. CASE pc[h] = "wait"
  <2>1. sem[h].queue = <<>>
    BY <1>2, <1>7 DEF WInv, Waiters, WaiterAgrees
  <2>2. sem'[h].queue = <<>> /\ cpu' = cpu
    BY <1>1, <1>2, <1>3, <2>1, DoVConsistent DEF WInv
  <2>3. ASSUME NEW u \in Thread PROVE WaiterAgrees(u)'
    <3>1. CASE u = h
      BY <1>1, <1>2, <1>3, <1>4, <1>5, <1>7, <2>2, <3>1 DEF WaiterAgrees
    <3>2. CASE u # h /\ u = t
      BY <1>1, <1>2, <1>3, <1>4, <1>5, <2>2, <3>2 DEF WInv, Waiters, WaiterAgrees
    <3>3. CASE u # h /\ u # t
      BY <1>1, <1>2, <1>3, <1>5, <2>2, <3>3 DEF WInv, Waiters, WaiterAgrees
    <3> QED BY <3>1, <3>2, <3>3
  <2> QED BY <1>2, <1>3, <1>5, <2>3 DEF Waiters
<1> QED BY <1>4, <1>6, <1>7

(* A thread that begins to wait is a new waiter, with its semaphore at 0. *)
LEMMA StartWaitWaiters ==
  ASSUME WInv, NEW t \in Thread, StartWait(t)
  PROVE  Consistent' /\ Waiters'
<1>1. /\ KTypeOK /\ pc \in [Thread -> PC] /\ waitQueue \in Seq(Thread)
      /\ cpu.status \in [Thread -> Status] /\ Lock \in Sem
      /\ \A u \in Thread : u \in Sem /\ u # Lock
  BY WaitersTypes DEF WInv
<1>2. /\ pc[t] = "owner" /\ call[t] = "remove" /\ DoV(Lock)
      /\ pc' = [pc EXCEPT ![t] = "wait"] /\ waitQueue' = Append(waitQueue, t)
      /\ UNCHANGED call
  BY DEF StartWait, At, Release, Goto
<1>3. t \notin Range(waitQueue) /\ sem[t].value = 0 /\ sem[t].queue = <<>>
  BY <1>2 DEF WInv, Waiters, WaiterAgrees
<1>4. Range(waitQueue') = Range(waitQueue) \cup {t} /\ IsInjective(waitQueue')
  BY <1>1, <1>2, <1>3, AppendFacts DEF WInv, Waiters
<1>5. Consistent' /\ \A u \in Thread : sem'[u] = sem[u]
  BY <1>1, <1>2, DoVConsistent, DoVFacts DEF WInv
<1>6. \A u \in Thread : cpu'.status[u] = "BLOCKED" => cpu.status[u] = "BLOCKED"
  BY <1>1, <1>2, DoVConsistent DEF WInv
<1>7. ASSUME NEW u \in Thread PROVE WaiterAgrees(u)'
  <2>1. CASE u = t
    BY <1>1, <1>2, <1>3, <1>4, <1>5, <2>1 DEF WaiterAgrees
  <2>2. CASE u # t
    BY <1>1, <1>2, <1>4, <1>5, <1>6, <2>2 DEF WInv, Waiters, WaiterAgrees
  <2> QED BY <2>1, <2>2
<1> QED BY <1>4, <1>5, <1>7 DEF Waiters

(* A waiter that was signalled finds the permit; another one sleeps, once,    *)
(* because a thread that sleeps does not run.                                 *)
LEMMA WaitPWaiters ==
  ASSUME WInv, NEW t \in Thread, WaitP(t)
  PROVE  Consistent' /\ Waiters'
<1>1. /\ KTypeOK /\ pc \in [Thread -> PC] /\ Consistent
      /\ cpu.status \in [Thread -> Status]
      /\ \A u \in Thread : u \in Sem
  BY WaitersTypes DEF WInv
<1>2. /\ cpu.current = t /\ ~Idling(cpu) /\ pc[t] \in {"wait", "waiting"}
      /\ TryP(t, t, "waiting", "woken") /\ UNCHANGED <<waitQueue, call>>
  BY DEF WaitP, At
<1>3. t \notin Range(sem[t].queue)
  BY <1>1, <1>2, RunningIsOff
<1>4. sem[t].queue = <<>>
  <2>1. sem[t].queue = <<t>> => t \in Range(sem[t].queue)
    BY DEF Range
  <2> QED BY <1>3, <2>1 DEF WInv, Waiters, WaiterAgrees
<1>5. /\ Consistent' /\ \A u \in Thread : u # t => sem'[u] = sem[u]
      /\ \A u \in Thread : u # t /\ cpu'.status[u] = "BLOCKED" => cpu.status[u] = "BLOCKED"
  BY <1>1, <1>2, TryPConsistent, TryPFacts
<1>6. CASE t \in Range(waitQueue)
  <2>1. sem[t].value = 0 /\ call[t] = "remove"
    BY <1>6 DEF WInv, Waiters, WaiterAgrees
  <2>2. sem'[t].value = 0 /\ sem'[t].queue = Append(<<>>, t) /\ pc' = [pc EXCEPT ![t] = "waiting"]
    BY <1>1, <1>2, <1>4, <2>1, TryPConsistent, TryPFacts
  <2>3. sem'[t].queue = <<t>>
    BY <2>2
  <2>4. ASSUME NEW u \in Thread PROVE WaiterAgrees(u)'
    <3>1. CASE u = t
      BY <1>1, <1>2, <1>6, <2>1, <2>2, <2>3, <3>1 DEF WaiterAgrees
    <3>2. CASE u # t
      BY <1>1, <1>2, <1>5, <2>2, <3>2 DEF WInv, Waiters, WaiterAgrees
    <3> QED BY <3>1, <3>2
  <2> QED BY <1>2, <1>5, <2>4 DEF WInv, Waiters
<1>7. CASE t \notin Range(waitQueue)
  <2>1. sem[t].value = 1
    BY <1>2, <1>7 DEF WInv, Waiters, WaiterAgrees
  <2>2. sem'[t].value = 0 /\ sem'[t].queue = <<>> /\ pc' = [pc EXCEPT ![t] = "woken"]
    BY <1>1, <1>2, <1>4, <2>1, TryPConsistent, TryPFacts
  <2>3. ASSUME NEW u \in Thread PROVE WaiterAgrees(u)'
    <3>1. CASE u = t
      BY <1>1, <1>2, <1>7, <2>2, <3>1 DEF WaiterAgrees
    <3>2. CASE u # t
      BY <1>1, <1>2, <1>5, <2>2, <3>2 DEF WInv, Waiters, WaiterAgrees
    <3> QED BY <3>1, <3>2
  <2> QED BY <1>2, <1>5, <2>3 DEF WInv, Waiters
<1> QED BY <1>6, <1>7

(* Every step keeps the lists and the waiters right. *)
LEMMA NextWaiters == WInv /\ [Next]_vars => WInv'
<1> SUFFICES ASSUME WInv, [Next]_vars PROVE Consistent' /\ Waiters'
  BY NextIInv DEF WInv
<1>1. /\ KTypeOK /\ pc \in [Thread -> PC]
      /\ call \in [Thread -> {"none", "append", "remove"}]
  BY WaitersTypes DEF WInv
<1>2. ASSUME NEW t \in Thread, NEW i \in Item, CallAppend(t, i)
      PROVE  Consistent' /\ Waiters'
  BY <1>1, <1>2, AcquireWaiters DEF CallAppend, At
<1>3. ASSUME NEW t \in Thread, CallRemoveFront(t) PROVE Consistent' /\ Waiters'
  BY <1>1, <1>3, AcquireWaiters DEF CallRemoveFront, At
<1>4. ASSUME NEW t \in Thread, ResumeAcquire(t) \/ Reacquire(t)
      PROVE  Consistent' /\ Waiters'
  BY <1>4, AcquireWaiters DEF ResumeAcquire, Reacquire, At
<1>5. ASSUME NEW t \in Thread, AppendAndSignal(t) PROVE Consistent' /\ Waiters'
  <2>1. pc[t] = "owner"
    BY <1>5 DEF AppendAndSignal, At
  <2>2. CASE waitQueue # <<>>
    BY <1>5, <2>1, <2>2, SignalWaiters DEF AppendAndSignal
  <2>3. CASE waitQueue = <<>>
    BY <1>1, <1>5, <2>1, <2>3, ReleaseWaiters DEF AppendAndSignal
  <2> QED BY <2>2, <2>3
<1>6. ASSUME NEW t \in Thread, AppendRelease(t) \/ TakeFront(t)
      PROVE  Consistent' /\ Waiters'
  BY <1>1, <1>6, ReleaseWaiters DEF AppendRelease, TakeFront, At
<1>7. ASSUME Preempt PROVE Consistent' /\ Waiters'
  <2>1. /\ Consistent' /\ sem' = sem /\ pc' = pc /\ UNCHANGED <<waitQueue, call>>
        /\ \A u \in Thread : cpu'.status[u] = "BLOCKED" => cpu.status[u] = "BLOCKED"
    BY <1>1, <1>7, PreemptedConsistent, PreemptedFacts DEF Preempt, WInv
  <2> QED BY <2>1 DEF WInv, Waiters, WaiterAgrees
<1>8. ASSUME UNCHANGED vars PROVE Consistent' /\ Waiters'
  BY <1>8 DEF vars, WInv, Consistent, Waiters, WaiterAgrees
<1> QED
  BY <1>2, <1>3, <1>4, <1>5, <1>6, <1>7, <1>8, StartWaitWaiters, WaitPWaiters DEF Next, Step

(* Nobody waits at first. *)
LEMMA InitWaiters == Init => WInv
<1> SUFFICES ASSUME Init PROVE WInv
  OBVIOUS
<1>1. /\ Consistent /\ pc = [t \in Thread |-> "idle"] /\ waitQueue = <<>>
      /\ \A s \in Sem : sem[s].value = InitialValue[s] /\ sem[s].queue = <<>>
  BY InitThreadsFacts, InitThreadsConsistent DEF Init
<1>2. \A t \in Thread : sem[t].value = 0 /\ sem[t].queue = <<>>
  BY <1>1, LockApart, SynchListAssumption
<1>3. IsInjective(waitQueue) /\ Range(waitQueue) = {}
  BY <1>1 DEF IsInjective, Range
<1>4. Waiters
  BY <1>1, <1>2, <1>3 DEF Waiters, WaiterAgrees
<1> QED BY <1>1, <1>4, InitIInv DEF WInv

(* Whenever the timer strikes between the Release of Wait and its P, and      *)
(* whoever signals then: the permit stays on the waiter's semaphore, and a    *)
(* waiter that was signalled is not asleep.                                   *)
THEOREM SignalsAreRemembered == Spec => []SignalRemembered
<1>1. WInv => SignalRemembered
  <2> SUFFICES ASSUME WInv, NEW t \in Thread
               PROVE  /\ t \in Range(waitQueue) => pc[t] \in {"wait", "waiting"} /\ sem[t].value = 0
                      /\ pc[t] = "waiting" /\ t \notin Range(waitQueue)
                           => sem[t].value = 1 /\ sem[t].queue = <<>>
                      /\ pc[t] = "waiting" => t \in Range(waitQueue) \/ cpu.status[t] # "BLOCKED"
    BY DEF SignalRemembered
  <2> QED BY DEF WInv, Waiters, WaiterAgrees
<1> QED BY <1>1, InitWaiters, NextWaiters, PTL DEF Spec

-----------------------------------------------------------------------------
(* Which call a thread is in, by where it is.  ItemsHaveTakers needs it as    *)
(* well: a thread that calls Append was not on its way to take an item.       *)
CallsAgree ==
  \A t \in Thread :
    /\ pc[t] = "idle" => call[t] = "none"
    /\ pc[t] = "release" => call[t] = "append"

TInv == WInv /\ CallsAgree /\ ItemsHaveTakers

(* The threads that will look at the list. *)
Takers == {t \in Thread : call[t] = "remove" /\ t \notin Range(waitQueue)}

LEMMA TakersFinite ==
  /\ IsFiniteSet(Takers) /\ Cardinality(Takers) \in Nat
  /\ IsFiniteSet(Takers') /\ Cardinality(Takers') \in Nat
<1>1. Takers \subseteq Thread /\ Takers' \subseteq Thread /\ IsFiniteSet(Thread)
  BY KernelAssumption DEF Takers
<1> QED BY <1>1, FS_Subset, FS_CardinalityType

(* The calls change where pc does. *)
LEMMA NextCalls == WInv /\ CallsAgree /\ [Next]_vars => CallsAgree'
<1> SUFFICES ASSUME WInv, CallsAgree, [Next]_vars PROVE CallsAgree'
  OBVIOUS
<1>1. /\ KTypeOK /\ pc \in [Thread -> PC]
      /\ call \in [Thread -> {"none", "append", "remove"}]
  BY WaitersTypes DEF WInv
<1>2. ASSUME NEW t \in Thread, NEW i \in Item, CallAppend(t, i) PROVE CallsAgree'
  BY <1>1, <1>2 DEF CallsAgree, CallAppend, Acquire, TryP
<1>9. ASSUME NEW t \in Thread, CallRemoveFront(t) PROVE CallsAgree'
  BY <1>1, <1>9 DEF CallsAgree, CallRemoveFront, Acquire, TryP
<1>3. ASSUME NEW t \in Thread, ResumeAcquire(t) \/ Reacquire(t) PROVE CallsAgree'
  BY <1>1, <1>3 DEF CallsAgree, ResumeAcquire, Reacquire, Acquire, TryP
<1>4. ASSUME NEW t \in Thread, AppendAndSignal(t) PROVE CallsAgree'
  BY <1>1, <1>4 DEF CallsAgree, AppendAndSignal, Release, Goto
<1>5. ASSUME NEW t \in Thread, AppendRelease(t) \/ TakeFront(t) PROVE CallsAgree'
  BY <1>1, <1>5 DEF CallsAgree, AppendRelease, TakeFront, Release, Goto
<1>6. ASSUME NEW t \in Thread, StartWait(t) PROVE CallsAgree'
  BY <1>1, <1>6 DEF CallsAgree, StartWait, Release, Goto
<1>7. ASSUME NEW t \in Thread, WaitP(t) PROVE CallsAgree'
  BY <1>1, <1>7 DEF CallsAgree, WaitP, TryP
<1>8. ASSUME Preempt \/ UNCHANGED vars PROVE CallsAgree'
  BY <1>8 DEF CallsAgree, Preempt, Preempted, vars
<1> QED BY <1>2, <1>3, <1>4, <1>5, <1>6, <1>7, <1>8, <1>9 DEF Next, Step

(* Another taker, or none, for the same list. *)
LEMMA MoreTakers ==
  ASSUME IInv, ItemsHaveTakers, UNCHANGED list, Takers \subseteq Takers',
         waitQueue' # <<>> => waitQueue # <<>>
  PROVE  ItemsHaveTakers'
<1>1. Cardinality(Takers) <= Cardinality(Takers')
  BY TakersFinite, FS_Subset
<1>2. Len(list) \in Nat
  BY DEF IInv, TypeOK
<1> QED BY <1>1, <1>2, TakersFinite DEF ItemsHaveTakers, Takers

(* A signalled thread becomes a taker of the new item; a taker that takes one *)
(* leaves with it; who begins to wait has seen an empty list.                 *)
LEMMA NextTakers == TInv /\ [Next]_vars => ItemsHaveTakers'
<1> SUFFICES ASSUME TInv, [Next]_vars PROVE ItemsHaveTakers'
  OBVIOUS
<1>1. /\ IInv /\ ItemsHaveTakers /\ waitQueue \in Seq(Thread) /\ list \in Seq(Item)
      /\ call \in [Thread -> {"none", "append", "remove"}]
      /\ IsInjective(waitQueue)
      /\ \A t \in Range(waitQueue) : t \in Thread /\ call[t] = "remove"
      /\ \A t \in Thread : t \in Range(waitQueue) => pc[t] \in {"wait", "waiting"}
  BY WaitersTypes DEF TInv, WInv, Waiters, WaiterAgrees, IInv, TypeOK
<1>2. ASSUME NEW t \in Thread, NEW i \in Item, CallAppend(t, i) PROVE ItemsHaveTakers'
  <2>1. pc[t] = "idle" /\ UNCHANGED <<list, waitQueue>>
    BY <1>2 DEF CallAppend, At
  <2>2. call[t] = "none"
    BY <2>1 DEF TInv, CallsAgree
  <2>3. Takers \subseteq Takers'
    BY <1>1, <1>2, <2>1, <2>2 DEF Takers, CallAppend
  <2> QED BY <1>1, <2>1, <2>3, MoreTakers
<1>9. ASSUME NEW t \in Thread, CallRemoveFront(t) PROVE ItemsHaveTakers'
  <2>1. pc[t] = "idle" /\ UNCHANGED <<list, waitQueue>>
    BY <1>9 DEF CallRemoveFront, At
  <2>2. call[t] = "none"
    BY <2>1 DEF TInv, CallsAgree
  <2>3. Takers \subseteq Takers'
    BY <1>1, <1>9, <2>1, <2>2 DEF Takers, CallRemoveFront
  <2> QED BY <1>1, <2>1, <2>3, MoreTakers
<1>3. ASSUME NEW t \in Thread, ResumeAcquire(t) \/ Reacquire(t) \/ WaitP(t)
      PROVE  ItemsHaveTakers'
  BY <1>1, <1>3 DEF ItemsHaveTakers, ResumeAcquire, Reacquire, WaitP
<1>4. ASSUME NEW t \in Thread, AppendAndSignal(t) PROVE ItemsHaveTakers'
  <2> DEFINE h == Head(waitQueue)
  <2>1. CASE waitQueue = <<>>
    BY <1>4, <2>1 DEF ItemsHaveTakers, AppendAndSignal
  <2>2. CASE waitQueue # <<>>
    <3>1. /\ list' = Append(list, item[t]) /\ waitQueue' = Tail(waitQueue) /\ UNCHANGED call
      BY <1>4, <2>2 DEF AppendAndSignal, Appended, Signal
    <3>2. /\ h \in Range(waitQueue)
          /\ Range(Tail(waitQueue)) = Range(waitQueue) \ {h}
      BY <1>1, <2>2, TailFacts
    <3>3. Takers' = Takers \cup {h} /\ h \notin Takers
      BY <1>1, <3>1, <3>2 DEF Takers
    <3>4. Cardinality(Takers') = Cardinality(Takers) + 1
      BY <3>3, TakersFinite, FS_AddElement
    <3>5. Len(list') = Len(list) + 1 /\ Len(list) \in Nat
      BY <1>1, <3>1
    <3>6. Len(list) <= Cardinality(Takers)
      BY <1>1, <2>2 DEF ItemsHaveTakers, Takers
    <3>7. Len(list') <= Cardinality(Takers')
      BY <3>4, <3>5, <3>6, TakersFinite
    <3> QED BY <3>7 DEF ItemsHaveTakers, Takers
  <2> QED BY <2>1, <2>2
<1>5. ASSUME NEW t \in Thread, AppendRelease(t) PROVE ItemsHaveTakers'
  <2>1. /\ pc[t] = "release" /\ UNCHANGED <<list, waitQueue>>
        /\ call' = [call EXCEPT ![t] = "none"]
    BY <1>5 DEF AppendRelease, At
  <2>2. call[t] = "append"
    BY <2>1 DEF TInv, CallsAgree
  <2>3. Takers \subseteq Takers'
    BY <1>1, <2>1, <2>2 DEF Takers
  <2> QED BY <1>1, <2>1, <2>3, MoreTakers
<1>6. ASSUME NEW t \in Thread, TakeFront(t) PROVE ItemsHaveTakers'
  <2>1. /\ pc[t] = "owner" /\ call[t] = "remove" /\ list # <<>> /\ list' = Tail(list)
        /\ call' = [call EXCEPT ![t] = "none"] /\ UNCHANGED waitQueue
    BY <1>6 DEF TakeFront, At
  <2>2. t \in Takers /\ Takers' = Takers \ {t}
    BY <1>1, <2>1 DEF Takers
  <2>3. Cardinality(Takers') = Cardinality(Takers) - 1
    BY <2>2, TakersFinite, FS_RemoveElement
  <2>4. Len(list') = Len(list) - 1 /\ Len(list) \in Nat
    BY <1>1, <2>1
  <2>5. waitQueue # <<>> => Len(list) <= Cardinality(Takers)
    BY <1>1 DEF ItemsHaveTakers, Takers
  <2>6. waitQueue' # <<>> => Len(list') <= Cardinality(Takers')
    BY <2>1, <2>3, <2>4, <2>5, TakersFinite
  <2> QED BY <2>6 DEF ItemsHaveTakers, Takers
<1>7. ASSUME NEW t \in Thread, StartWait(t) PROVE ItemsHaveTakers'
  <2>1. Len(list') = 0
    BY <1>7 DEF StartWait
  <2> QED BY <2>1, TakersFinite DEF ItemsHaveTakers, Takers
<1>8. ASSUME Preempt \/ UNCHANGED vars PROVE ItemsHaveTakers'
  BY <1>1, <1>8 DEF ItemsHaveTakers, Preempt, vars
<1> QED BY <1>2, <1>3, <1>4, <1>5, <1>6, <1>7, <1>8, <1>9 DEF Next, Step

(* Nobody is in a call at first. *)
LEMMA InitTakers == Init => TInv
<1>1. Init => CallsAgree
  BY InitThreadsFacts DEF Init, CallsAgree
<1>2. Init => ItemsHaveTakers
  BY DEF Init, ItemsHaveTakers
<1> QED BY <1>1, <1>2, InitWaiters DEF TInv

LEMMA TakersInvariance == Spec => []TInv
<1>1. TInv /\ [Next]_vars => TInv'
  BY NextWaiters, NextCalls, NextTakers DEF TInv
<1> QED BY <1>1, InitTakers, PTL DEF Spec

(* While threads wait for the list to fill, each item on it has a thread that *)
(* will look at the list before it can wait: a Signal is never spent on       *)
(* nothing, although the woken thread has to compete for the lock.            *)
THEOREM ItemsAlwaysHaveTakers == Spec => []ItemsHaveTakers
<1>1. TInv => ItemsHaveTakers
  BY DEF TInv
<1> QED BY <1>1, TakersInvariance, PTL

-----------------------------------------------------------------------------
(* The refinement: an Append takes effect with its list operation, as does a  *)
(* RemoveFront; the rest of a call changes nothing that a caller can see.     *)
LEMMA InitImplements == Init => Queue!Init
<1> SUFFICES ASSUME Init PROVE Queue!Init
  OBVIOUS
<1>1. pc = [t \in Thread |-> "idle"]
  BY InitThreadsFacts DEF Init
<1> QED BY <1>1 DEF Init, Queue!Init

Abstract == [t \in Thread |->
              IF call[t] = "append" /\ pc[t] = "release" THEN "none" ELSE call[t]]

LEMMA NextImplements == TInv /\ [Next]_vars => [Queue!Next]_(Queue!vars)
<1> SUFFICES ASSUME TInv, [Next]_vars PROVE [Queue!Next]_(Queue!vars)
  OBVIOUS
<1> USE DEF Queue!vars
<1>1. /\ KTypeOK /\ pc \in [Thread -> PC]
      /\ call \in [Thread -> {"none", "append", "remove"}]
      /\ item \in [Thread -> Item \cup {NoItem}]
  BY WaitersTypes DEF TInv, WInv, IInv, TypeOK
<1>2. ASSUME NEW t \in Thread, NEW i \in Item, CallAppend(t, i)
      PROVE  Queue!Next
  <2>1. /\ pc[t] = "idle" /\ call[t] = "none" /\ \E l \in PC : l # "release" /\ pc' = [pc EXCEPT ![t] = l]
        /\ call' = [call EXCEPT ![t] = "append"] /\ item' = [item EXCEPT ![t] = i]
        /\ UNCHANGED list
    BY <1>1, <1>2 DEF CallAppend, At, Acquire, TryP, PC, AsleepLabels, TInv, CallsAgree
  <2>2. Abstract[t] = "none" /\ Abstract' = [Abstract EXCEPT ![t] = "append"]
    BY <1>1, <2>1 DEF Abstract
  <2>3. Queue!CallAppend(t, i)
    BY <2>1, <2>2 DEF Queue!CallAppend, Abstract
  <2> QED BY <2>3 DEF Queue!Next
<1>3. ASSUME NEW t \in Thread, CallRemoveFront(t) PROVE Queue!Next
  <2>1. /\ pc[t] = "idle" /\ call[t] = "none" /\ \E l \in PC : l # "release" /\ pc' = [pc EXCEPT ![t] = l]
        /\ call' = [call EXCEPT ![t] = "remove"] /\ item' = [item EXCEPT ![t] = NoItem]
        /\ UNCHANGED list
    BY <1>1, <1>3 DEF CallRemoveFront, At, Acquire, TryP, PC, AsleepLabels, TInv, CallsAgree
  <2>2. Abstract[t] = "none" /\ Abstract' = [Abstract EXCEPT ![t] = "remove"]
    BY <1>1, <2>1 DEF Abstract
  <2>3. Queue!CallRemove(t)
    BY <2>1, <2>2 DEF Queue!CallRemove, Abstract
  <2> QED BY <2>3 DEF Queue!Next
<1>4. ASSUME NEW t \in Thread, ResumeAcquire(t) \/ Reacquire(t) \/ WaitP(t)
      PROVE  UNCHANGED Queue!vars
  <2>1. /\ pc[t] # "release" /\ \E l \in PC : l # "release" /\ pc' = [pc EXCEPT ![t] = l]
        /\ UNCHANGED <<call, item, list>>
    BY <1>1, <1>4 DEF ResumeAcquire, Reacquire, WaitP, At, Acquire, TryP, PC, AsleepLabels
  <2>2. Abstract' = Abstract
    BY <1>1, <2>1 DEF Abstract
  <2> QED BY <2>1, <2>2 DEF Abstract
<1>5. ASSUME NEW t \in Thread, AppendAndSignal(t) PROVE Queue!Next
  <2>1. /\ pc[t] = "owner" /\ call[t] = "append" /\ list' = Append(list, item[t])
        /\ UNCHANGED item
        /\ \/ pc' = [pc EXCEPT ![t] = "release"] /\ UNCHANGED call
           \/ pc' = [pc EXCEPT ![t] = "idle"] /\ call' = [call EXCEPT ![t] = "none"]
    BY <1>5 DEF AppendAndSignal, At, Appended, Release, Goto
  <2>2. Abstract[t] = "append" /\ Abstract' = [Abstract EXCEPT ![t] = "none"]
    BY <1>1, <2>1 DEF Abstract
  <2>3. Queue!DoAppend(t)
    BY <2>1, <2>2 DEF Queue!DoAppend, Abstract
  <2> QED BY <2>3 DEF Queue!Next, Queue!Do
<1>6. ASSUME NEW t \in Thread, AppendRelease(t) PROVE UNCHANGED Queue!vars
  <2>1. /\ pc[t] = "release" /\ call[t] = "append" /\ pc' = [pc EXCEPT ![t] = "idle"]
        /\ call' = [call EXCEPT ![t] = "none"] /\ UNCHANGED <<list, item>>
    BY <1>6 DEF AppendRelease, At, Release, Goto, TInv, CallsAgree
  <2>2. Abstract' = Abstract
    BY <1>1, <2>1 DEF Abstract
  <2> QED BY <2>1, <2>2 DEF Abstract
<1>7. ASSUME NEW t \in Thread, TakeFront(t) PROVE Queue!Next
  <2>1. /\ pc[t] = "owner" /\ call[t] = "remove" /\ list # <<>> /\ list' = Tail(list)
        /\ pc' = [pc EXCEPT ![t] = "idle"] /\ call' = [call EXCEPT ![t] = "none"]
        /\ item' = [item EXCEPT ![t] = Head(list)]
    BY <1>7 DEF TakeFront, At, Release, Goto
  <2>2. Abstract[t] = "remove" /\ Abstract' = [Abstract EXCEPT ![t] = "none"]
    BY <1>1, <2>1 DEF Abstract
  <2>3. Queue!DoRemove(t)
    BY <2>1, <2>2 DEF Queue!DoRemove, Abstract
  <2> QED BY <2>3 DEF Queue!Next, Queue!Do
<1>8. ASSUME NEW t \in Thread, StartWait(t) PROVE UNCHANGED Queue!vars
  <2>1. pc[t] = "owner" /\ pc' = [pc EXCEPT ![t] = "wait"] /\ UNCHANGED <<list, call, item>>
    BY <1>8 DEF StartWait, At, Release, Goto
  <2>2. Abstract' = Abstract
    BY <1>1, <2>1 DEF Abstract
  <2> QED BY <2>1, <2>2 DEF Abstract
<1>9. ASSUME Preempt \/ UNCHANGED vars PROVE UNCHANGED Queue!vars
  BY <1>9 DEF Preempt, Preempted, vars
<1> QED BY <1>2, <1>3, <1>4, <1>5, <1>6, <1>7, <1>8, <1>9 DEF Next, Step

(* To its callers the SynchList is a first-in first-out queue whose           *)
(* RemoveFront waits, for any number of threads (the safety part).            *)
THEOREM SynchListsImplementQueue == Spec => Queue!Spec
BY InitImplements, NextImplements, TakersInvariance, PTL DEF Spec, Queue!Spec
=============================================================================
