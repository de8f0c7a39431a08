--------------------------- MODULE SynchDisksProofs ---------------------------
(* A SynchDisk serialises its requests, for every number of threads and       *)
(* sectors.  OneRequest is strengthened by what the lock's semaphore says of  *)
(* the threads inside (LockCounts) and by the disk being quiet while there is *)
(* none.                                                                      *)
EXTENDS SynchDisks, KernelThreadsProofs

LockCounts ==
  /\ sem[Lock].value = IF Owners = {} THEN 1 ELSE 0
  /\ Owners = {} => ~active /\ sem[Done].value = 0
  /\ \A t \in Thread : pc[t] \in {"io", "release"} => lockHolder = t

IInv == TypeOK /\ OneRequest /\ LockCounts

(* What every step starts from. *)
LEMMA Typing ==
  ASSUME TypeOK
  PROVE  KTypeOK /\ pc \in [Thread -> PC] /\ Lock \in Sem /\ Done \in Sem /\ Lock # Done
BY SynchDiskAssumption DEF TypeOK, KTypeOK

(* Acquire's P makes t the only owner, if there was none. *)
LEMMA AcquireSerialises ==
  ASSUME IInv, NEW t \in Thread, pc[t] \in {"idle", "acquire"}, Acquire(t),
         UNCHANGED <<lockHolder, active>>
  PROVE  OneRequest' /\ LockCounts' /\ KTypeOK' /\ pc' \in [Thread -> PC]
<1>1. KTypeOK /\ pc \in [Thread -> PC] /\ Lock \in Sem /\ Done \in Sem /\ Lock # Done
  BY Typing DEF IInv
<1>2. /\ KTypeOK' /\ sem'[Done] = sem[Done]
      /\ sem[Lock].value # 0 =>
           sem'[Lock].value = sem[Lock].value - 1 /\ pc' = [pc EXCEPT ![t] = "owner"]
      /\ sem[Lock].value = 0 =>
           sem'[Lock].value = 0 /\ pc' = [pc EXCEPT ![t] = "acquire"]
  BY <1>1, TryPFacts DEF Acquire
<1>3. CASE sem[Lock].value # 0
  <2>1. Owners = {} /\ sem[Lock].value = 1 /\ ~active /\ sem[Done].value = 0
    BY <1>3 DEF IInv, LockCounts
  <2>2. pc' = [pc EXCEPT ![t] = "owner"] /\ sem'[Lock].value = 0
    BY <1>2, <1>3, <2>1
  <2>3. Owners' = {t}
    BY <1>1, <2>1, <2>2 DEF Owners
  <2>4. \A u \in Thread : pc'[u] \notin {"io", "release"}
    BY <1>1, <2>1, <2>2 DEF Owners
  <2>5. OneRequest' /\ LockCounts'
    BY <1>2, <2>1, <2>2, <2>3, <2>4 DEF OneRequest, LockCounts
  <2> QED BY <1>1, <1>2, <2>2, <2>5 DEF PC
<1>4. CASE sem[Lock].value = 0
  <2>1. pc' = [pc EXCEPT ![t] = "acquire"] /\ sem'[Lock].value = 0
    BY <1>2, <1>4
  <2>2. Owners' = Owners
    BY <1>1, <2>1 DEF Owners
  <2>3. \A u \in Thread : pc'[u] = pc[u] \/ (pc[u] \in {"idle", "acquire"} /\ pc'[u] = "acquire")
    BY <1>1, <2>1
  <2>4. \A u \in Thread : u # t => pc'[u] = pc[u]
    BY <1>1, <2>1
  <2>5. OneRequest'
    BY <1>2, <2>2, <2>3, <2>4 DEF IInv, OneRequest
  <2>6. LockCounts'
    BY <1>2, <1>4, <2>1, <2>2, <2>3 DEF IInv, LockCounts
  <2> QED BY <1>1, <1>2, <2>1, <2>5, <2>6 DEF PC, AsleepLabels
<1> QED BY <1>3, <1>4

(* The owner's request finds the disk quiet, and t sleeps until its interrupt. *)
LEMMA RequestSerialises ==
  ASSUME IInv, NEW t \in Thread, Request(t)
  PROVE  OneRequest' /\ LockCounts' /\ KTypeOK' /\ pc' \in [Thread -> PC]
<1>1. KTypeOK /\ pc \in [Thread -> PC] /\ Lock \in Sem /\ Done \in Sem /\ Lock # Done
  BY Typing DEF IInv
<1>2. pc[t] = "owner" /\ lockHolder' = t /\ active' = TRUE /\ TryP(t, Done, "io", "release")
  BY DEF Request, At
<1>3. ~active /\ sem[Done].value = 0 /\ Owners = {t} /\ sem[Lock].value = 0
  BY <1>2 DEF IInv, OneRequest, LockCounts, Owners
<1>4. /\ KTypeOK' /\ sem'[Done].value = 0 /\ pc' = [pc EXCEPT ![t] = "io"]
      /\ sem'[Lock] = sem[Lock]
  BY <1>1, <1>2, <1>3, TryPFacts
<1>5. Owners' = {t}
  BY <1>1, <1>3, <1>4 DEF Owners
<1>6. \A u \in Thread : pc'[u] \in {"owner", "io", "release"} => u = t /\ pc'[u] = "io"
  BY <1>1, <1>4, <1>5 DEF Owners
<1>7. OneRequest' /\ LockCounts'
  BY <1>1, <1>2, <1>3, <1>4, <1>5, <1>6 DEF OneRequest, LockCounts
<1> QED BY <1>1, <1>4, <1>7 DEF PC, AsleepLabels

(* A thread that waits for its interrupt takes the permit of its own request. *)
LEMMA ResumeIOSerialises ==
  ASSUME IInv, NEW t \in Thread, ResumeIO(t)
  PROVE  OneRequest' /\ LockCounts' /\ KTypeOK' /\ pc' \in [Thread -> PC]
<1>1. KTypeOK /\ pc \in [Thread -> PC] /\ Lock \in Sem /\ Done \in Sem /\ Lock # Done
  BY Typing DEF IInv
<1>2. /\ pc[t] = "io" /\ TryP(t, Done, "io", "release")
      /\ UNCHANGED <<lockHolder, active>>
  BY DEF ResumeIO, At
<1>3. Owners = {t} /\ sem[Lock].value = 0 /\ lockHolder = t
  BY <1>2 DEF IInv, OneRequest, LockCounts, Owners
<1>4. CASE active
  <2>1. sem[Done].value = 0
    BY <1>2, <1>4 DEF IInv, OneRequest
  <2>2. /\ KTypeOK' /\ sem'[Done].value = 0 /\ pc' = [pc EXCEPT ![t] = "io"]
        /\ sem'[Lock] = sem[Lock]
    BY <1>1, <1>2, <2>1, TryPFacts
  <2>3. pc' = pc /\ Owners' = Owners
    BY <1>1, <1>2, <2>2 DEF Owners
  <2> QED BY <1>1, <1>2, <2>1, <2>2, <2>3 DEF IInv, OneRequest, LockCounts
<1>5. CASE ~active
  <2>1. sem[Done].value = 1
    BY <1>2, <1>5 DEF IInv, OneRequest
  <2>2. /\ KTypeOK' /\ sem'[Done].value = 0 /\ pc' = [pc EXCEPT ![t] = "release"]
        /\ sem'[Lock] = sem[Lock]
    BY <1>1, <1>2, <2>1, TryPFacts
  <2>3. Owners' = {t}
    BY <1>1, <1>3, <2>2 DEF Owners
  <2>4. \A u \in Thread : pc'[u] \in {"owner", "io", "release"} => u = t /\ pc'[u] = "release"
    BY <1>1, <2>2, <2>3 DEF Owners
  <2>5. OneRequest' /\ LockCounts'
    BY <1>1, <1>2, <1>3, <1>5, <2>2, <2>3, <2>4 DEF OneRequest, LockCounts
  <2> QED BY <1>1, <2>2, <2>5 DEF PC
<1> QED BY <1>4, <1>5

(* Release leaves no owner and a quiet disk. *)
LEMMA ReleaseSerialises ==
  ASSUME IInv, NEW t \in Thread, Release(t)
  PROVE  OneRequest' /\ LockCounts' /\ KTypeOK' /\ pc' \in [Thread -> PC]
<1>1. KTypeOK /\ pc \in [Thread -> PC] /\ Lock \in Sem /\ Done \in Sem /\ Lock # Done
  BY Typing DEF IInv
<1>2. /\ pc[t] = "release" /\ DoV(Lock) /\ pc' = [pc EXCEPT ![t] = "idle"]
      /\ UNCHANGED active
  BY DEF Release, At, Goto
<1>3. Owners = {t} /\ sem[Lock].value = 0 /\ ~active /\ sem[Done].value = 0
  BY <1>2 DEF IInv, OneRequest, LockCounts, Owners
<1>4. KTypeOK' /\ sem'[Lock].value = 1 /\ sem'[Done] = sem[Done]
  BY <1>1, <1>2, <1>3, DoVFacts
<1>5. Owners' = {}
  BY <1>1, <1>2, <1>3 DEF Owners
<1>6. \A u \in Thread : pc'[u] \notin {"owner", "io", "release"}
  BY <1>5 DEF Owners
<1>7. OneRequest' /\ LockCounts'
  BY <1>2, <1>3, <1>4, <1>5, <1>6 DEF OneRequest, LockCounts
<1> QED BY <1>1, <1>2, <1>4, <1>7 DEF PC

(* The interrupt adds the permit of the request that completed. *)
LEMMA InterruptSerialises ==
  ASSUME IInv, DiskInterrupt
  PROVE  OneRequest' /\ LockCounts' /\ KTypeOK' /\ pc' = pc
<1>1. KTypeOK /\ pc \in [Thread -> PC] /\ Lock \in Sem /\ Done \in Sem /\ Lock # Done
  BY Typing DEF IInv
<1>2. active /\ active' = FALSE /\ HandlerV(Done, AsleepLabels) /\ UNCHANGED lockHolder
  BY DEF DiskInterrupt
<1>3. PICK t \in Thread : pc[t] = "io" /\ lockHolder = t
  BY <1>2 DEF IInv, OneRequest
<1>4. sem[Done].value = 0 /\ Owners = {t}
  BY <1>2, <1>3 DEF IInv, OneRequest, Owners
<1>5. KTypeOK' /\ pc' = pc /\ sem'[Done].value = 1 /\ sem'[Lock] = sem[Lock]
  BY <1>1, <1>2, <1>4, HandlerVFacts
<1>6. Owners' = Owners
  BY <1>5 DEF Owners
<1>7. \A u \in Thread : pc'[u] \notin {"owner", "release"}
  BY <1>3, <1>4, <1>5 DEF Owners
<1>8. OneRequest' /\ LockCounts'
  BY <1>2, <1>4, <1>5, <1>6, <1>7 DEF IInv, OneRequest, LockCounts
<1> QED BY <1>5, <1>8

-----------------------------------------------------------------------------
(* Every step keeps the inductive invariant. *)
LEMMA NextIInv == IInv /\ [Next]_vars => IInv'
<1> SUFFICES ASSUME IInv, [Next]_vars PROVE IInv'
  OBVIOUS
<1> DEFINE Call == {NoCall} \cup Reading \cup HasRead \cup Writing
<1>1. KTypeOK /\ pc \in [Thread -> PC]
  BY Typing DEF IInv
<1>2. ASSUME NEW t \in Thread, NEW n \in Sector, ReadSector(t, n) PROVE IInv'
  <2>1. /\ pc[t] = "idle" /\ Acquire(t) /\ UNCHANGED <<lockHolder, active, disk>>
        /\ call' = [call EXCEPT ![t] = [op |-> "read", sector |-> n]]
    BY <1>2 DEF ReadSector, At
  <2>2. call' \in [Thread -> Call]
    BY <2>1 DEF IInv, TypeOK, Reading
  <2> QED BY <2>1, <2>2, AcquireSerialises DEF IInv, TypeOK, KTypeOK
<1>3. ASSUME NEW t \in Thread, NEW n \in Sector, NEW v \in Value, WriteSector(t, n, v)
      PROVE IInv'
  <2>1. /\ pc[t] = "idle" /\ Acquire(t) /\ UNCHANGED <<lockHolder, active, disk>>
        /\ call' = [call EXCEPT ![t] = [op |-> "write", sector |-> n, data |-> v]]
    BY <1>3 DEF WriteSector, At
  <2>2. call' \in [Thread -> Call]
    BY <2>1 DEF IInv, TypeOK, Writing
  <2> QED BY <2>1, <2>2, AcquireSerialises DEF IInv, TypeOK, KTypeOK
<1>4. ASSUME NEW t \in Thread, ResumeAcquire(t) PROVE IInv'
  <2>1. pc[t] = "acquire" /\ Acquire(t) /\ UNCHANGED <<lockHolder, active, disk, call>>
    BY <1>4 DEF ResumeAcquire, At
  <2> QED BY <2>1, AcquireSerialises DEF IInv, TypeOK, KTypeOK
<1>5. ASSUME NEW t \in Thread, Request(t) PROVE IInv'
  <2>1. lockHolder' = t /\ active' = TRUE /\ (ReadRequest(t) \/ WriteRequest(t))
    BY <1>5 DEF Request
  <2>2. disk \in [Sector -> Value] /\ call \in [Thread -> Call] /\ call[t] \in Call
    BY DEF IInv, TypeOK
  <2>3. ASSUME ReadRequest(t) PROVE disk' \in [Sector -> Value] /\ call' \in [Thread -> Call]
    <3>1. call[t].op = "read"
      BY <2>3 DEF ReadRequest
    <3>2. call[t] \in Reading \cup HasRead
      BY <2>2, <3>1 DEF NoCall, Writing
    <3>3. call[t].sector \in Sector
      BY <3>2 DEF Reading, HasRead
    <3>4. [op |-> "read", sector |-> call[t].sector, data |-> disk[call[t].sector]] \in HasRead
      BY <2>2, <3>3 DEF HasRead
    <3> QED BY <2>2, <2>3, <3>4 DEF ReadRequest
  <2>4. ASSUME WriteRequest(t) PROVE disk' \in [Sector -> Value] /\ call' \in [Thread -> Call]
    <3>1. call[t].op = "write"
      BY <2>4 DEF WriteRequest
    <3>2. call[t] \in Writing
      BY <2>2, <3>1 DEF NoCall, Reading, HasRead
    <3>3. call[t].sector \in Sector /\ call[t].data \in Value
      BY <3>2 DEF Writing
    <3> QED BY <2>2, <2>4, <3>3 DEF WriteRequest
  <2>5. disk' \in [Sector -> Value] /\ call' \in [Thread -> Call]
    BY <2>1, <2>3, <2>4
  <2> QED BY <1>5, <2>1, <2>5, RequestSerialises DEF IInv, TypeOK, KTypeOK
<1>6. ASSUME NEW t \in Thread, ResumeIO(t) PROVE IInv'
  <2>1. UNCHANGED <<lockHolder, active, disk, call>>
    BY <1>6 DEF ResumeIO
  <2> QED BY <1>6, <2>1, ResumeIOSerialises DEF IInv, TypeOK, KTypeOK
<1>7. ASSUME NEW t \in Thread, Release(t) PROVE IInv'
  <2>1. /\ lockHolder' = NoThread /\ call' = [call EXCEPT ![t] = NoCall]
        /\ UNCHANGED <<active, disk>>
    BY <1>7 DEF Release
  <2> QED BY <1>7, <2>1, ReleaseSerialises DEF IInv, TypeOK, KTypeOK
<1>8. ASSUME DiskInterrupt PROVE IInv'
  <2>1. active' = FALSE /\ UNCHANGED <<lockHolder, disk, call>>
    BY <1>8 DEF DiskInterrupt
  <2> QED BY <1>1, <1>8, <2>1, InterruptSerialises DEF IInv, TypeOK, KTypeOK
<1>9. ASSUME Preempt PROVE IInv'
  <2>1. KTypeOK' /\ sem' = sem /\ pc' = pc
    BY <1>1, <1>9, PreemptedFacts DEF Preempt
  <2>2. UNCHANGED <<lockHolder, active, disk, call>>
    BY <1>9 DEF Preempt
  <2> QED BY <2>1, <2>2 DEF IInv, TypeOK, KTypeOK, OneRequest, LockCounts, Owners
<1>10. ASSUME UNCHANGED vars PROVE IInv'
  BY <1>10 DEF vars, IInv, TypeOK, OneRequest, LockCounts, Owners
<1> QED
  BY <1>2, <1>3, <1>4, <1>5, <1>6, <1>7, <1>8, <1>9, <1>10 DEF Next, Step

(* The disk is quiet at first. *)
LEMMA InitIInv == Init => IInv
<1> SUFFICES ASSUME Init PROVE IInv
  OBVIOUS
<1>1. /\ KTypeOK /\ pc = [t \in Thread |-> "idle"]
      /\ \A s \in Sem : sem[s].value = InitialValue[s]
  BY InitThreadsFacts DEF Init
<1>2. Owners = {} /\ ~active
  BY <1>1 DEF Owners, Init
<1>3. sem[Lock].value = 1 /\ sem[Done].value = 0
  BY <1>1, SynchDiskAssumption
<1>4. OneRequest /\ LockCounts
  BY <1>1, <1>2, <1>3 DEF OneRequest, LockCounts
<1>5. TypeOK
  BY <1>1, SynchDiskAssumption DEF Init, TypeOK, KTypeOK, PC
<1> QED BY <1>4, <1>5 DEF IInv

(* The inductive invariant holds in every reachable state. *)
LEMMA Invariance == Spec => []IInv
BY InitIInv, NextIInv, PTL DEF Spec

(* Every reachable state of the disk and its callers has the right types. *)
THEOREM TypeCorrect == Spec => []TypeOK
<1>1. IInv => TypeOK
  BY DEF IInv
<1> QED BY <1>1, Invariance, PTL

(* The disk is idle at every request, as ReadRequest and WriteRequest assert, *)
(* and no thread returns on the interrupt of another thread's request.        *)
THEOREM RequestsAreSerial == Spec => []OneRequest
<1>1. IInv => OneRequest
  BY DEF IInv
<1> QED BY <1>1, Invariance, PTL

-----------------------------------------------------------------------------
(* The refinement.  What a caller sees of its call is its record with the     *)
(* stage it is in; a stage depends on the thread's own label, and of a thread *)
(* that sleeps for its interrupt on the disk.                                 *)
View(r, stage) == [f \in {"stage"} \cup DOMAIN r |-> IF f = "stage" THEN stage ELSE r[f]]

Seen(t) == IF pc[t] = "idle" THEN [stage |-> "none"] ELSE View(call[t], Stage(t))

Views == [t \in Thread |-> Seen(t)]

Serving == IF active THEN lockHolder ELSE NoThread

(* A request is complete from the moment the disk took it up. *)
CallsAgree ==
  \A t \in Thread :
    /\ pc[t] \in {"acquire", "owner"} => call[t] \in Reading \cup Writing
    /\ pc[t] \in {"io", "release"} => call[t] \in HasRead \cup Writing

(* The view of a request before and after the disk took it up. *)
LEMMA ViewOfRead ==
  ASSUME NEW n, NEW o, NEW stage
  PROVE  View([op |-> o, sector |-> n], stage) = [stage |-> stage, op |-> o, sector |-> n]
<1> DEFINE r == [op |-> o, sector |-> n]
<1>1. {"stage"} \cup DOMAIN r = {"stage", "op", "sector"}
  OBVIOUS
<1>2. View(r, stage) =
        [f \in {"stage", "op", "sector"} |-> IF f = "stage" THEN stage ELSE r[f]]
  BY <1>1 DEF View
<1>3. r["op"] = o /\ r["sector"] = n
  OBVIOUS
<1> QED BY <1>2, <1>3

LEMMA ViewOfData ==
  ASSUME NEW n, NEW o, NEW v, NEW stage
  PROVE  View([op |-> o, sector |-> n, data |-> v], stage)
           = [stage |-> stage, op |-> o, sector |-> n, data |-> v]
BY DEF View

(* Acquire leaves the caller asleep or makes it the owner. *)
LEMMA AcquireLabels ==
  ASSUME KTypeOK, pc \in [Thread -> PC], NEW t \in Thread, Acquire(t)
  PROVE  \/ pc' = [pc EXCEPT ![t] = "acquire"]
         \/ pc' = [pc EXCEPT ![t] = "owner"]
BY DEF Acquire, TryP

(* The calls stay in agreement with their labels. *)
LEMMA NextCallsAgree == IInv /\ CallsAgree /\ [Next]_vars => CallsAgree'
<1> SUFFICES ASSUME IInv, CallsAgree, [Next]_vars PROVE CallsAgree'
  OBVIOUS
<1>1. /\ KTypeOK /\ pc \in [Thread -> PC] /\ disk \in [Sector -> Value]
      /\ call \in [Thread -> {NoCall} \cup Reading \cup HasRead \cup Writing]
  BY Typing DEF IInv, TypeOK
<1>2. ASSUME NEW t \in Thread, NEW n \in Sector, ReadSector(t, n) PROVE CallsAgree'
  <2>1. /\ Acquire(t) /\ call' = [call EXCEPT ![t] = [op |-> "read", sector |-> n]]
        /\ [op |-> "read", sector |-> n] \in Reading
    BY <1>2 DEF ReadSector, Reading
  <2>2. pc' = [pc EXCEPT ![t] = "acquire"] \/ pc' = [pc EXCEPT ![t] = "owner"]
    BY <1>1, <2>1, AcquireLabels
  <2> QED BY <1>1, <2>1, <2>2 DEF CallsAgree
<1>3. ASSUME NEW t \in Thread, NEW n \in Sector, NEW v \in Value, WriteSector(t, n, v)
      PROVE CallsAgree'
  <2>1. /\ Acquire(t)
        /\ call' = [call EXCEPT ![t] = [op |-> "write", sector |-> n, data |-> v]]
        /\ [op |-> "write", sector |-> n, data |-> v] \in Writing
    BY <1>3 DEF WriteSector, Writing
  <2>2. pc' = [pc EXCEPT ![t] = "acquire"] \/ pc' = [pc EXCEPT ![t] = "owner"]
    BY <1>1, <2>1, AcquireLabels
  <2> QED BY <1>1, <2>1, <2>2 DEF CallsAgree
<1>4. ASSUME NEW t \in Thread, ResumeAcquire(t) PROVE CallsAgree'
  <2>1. pc[t] = "acquire" /\ Acquire(t) /\ UNCHANGED call
    BY <1>4 DEF ResumeAcquire, At
  <2>2. pc' = [pc EXCEPT ![t] = "acquire"] \/ pc' = [pc EXCEPT ![t] = "owner"]
    BY <1>1, <2>1, AcquireLabels
  <2> QED BY <1>1, <2>1, <2>2 DEF CallsAgree
<1>5. ASSUME NEW t \in Thread, Request(t) PROVE CallsAgree'
  <2>1. /\ pc[t] = "owner" /\ call[t] \in Reading \cup Writing
        /\ \E l \in {"io", "release"} : pc' = [pc EXCEPT ![t] = l]
    BY <1>5 DEF Request, At, TryP, CallsAgree
  <2>2. ASSUME ReadRequest(t)
        PROVE  \E r \in HasRead : call' = [call EXCEPT ![t] = r]
    <3>1. call[t] \in Reading /\ call[t].sector \in Sector
      BY <2>1, <2>2 DEF ReadRequest, Reading, Writing
    <3>2. [op |-> "read", sector |-> call[t].sector, data |-> disk[call[t].sector]] \in HasRead
      BY <1>1, <3>1 DEF HasRead
    <3> QED BY <2>2, <3>2 DEF ReadRequest
  <2>3. ASSUME WriteRequest(t) PROVE call' = call /\ call[t] \in Writing
    BY <2>1, <2>3 DEF WriteRequest, Reading
  <2>4. ReadRequest(t) \/ WriteRequest(t)
    BY <1>5 DEF Request
  <2> QED BY <1>1, <2>1, <2>2, <2>3, <2>4 DEF CallsAgree
<1>6. ASSUME NEW t \in Thread, ResumeIO(t) PROVE CallsAgree'
  <2>1. pc[t] = "io" /\ UNCHANGED call /\ \E l \in {"io", "release"} : pc' = [pc EXCEPT ![t] = l]
    BY <1>6 DEF ResumeIO, At, TryP
  <2> QED BY <1>1, <2>1 DEF CallsAgree
<1>7. ASSUME NEW t \in Thread, Release(t) PROVE CallsAgree'
  BY <1>1, <1>7 DEF CallsAgree, Release, Goto
<1>8. ASSUME DiskInterrupt PROVE CallsAgree'
  <2>1. UNCHANGED <<pc, call>>
    BY <1>1, <1>8, InterruptSerialises DEF DiskInterrupt
  <2> QED BY <2>1 DEF CallsAgree
<1>9. ASSUME Preempt PROVE CallsAgree'
  <2>1. UNCHANGED <<pc, call>>
    BY <1>1, <1>9, PreemptedFacts DEF Preempt
  <2> QED BY <2>1 DEF CallsAgree
<1>10. ASSUME UNCHANGED vars PROVE CallsAgree'
  BY <1>10 DEF vars, CallsAgree
<1> QED
  BY <1>2, <1>3, <1>4, <1>5, <1>6, <1>7, <1>8, <1>9, <1>10 DEF Next, Step

(* A call that begins is seen as called, whether it got the lock or not. *)
LEMMA CallSeen ==
  ASSUME KTypeOK, pc \in [Thread -> PC], NEW t \in Thread, Acquire(t),
         pc[t] \in {"idle", "acquire"}, UNCHANGED active,
         \A u \in Thread \ {t} : call'[u] = call[u]
  PROVE  /\ Seen(t)' = View(call'[t], "called")
         /\ Views' = [Views EXCEPT ![t] = View(call'[t], "called")]
<1>1. pc' = [pc EXCEPT ![t] = "acquire"] \/ pc' = [pc EXCEPT ![t] = "owner"]
  BY AcquireLabels
<1>2. Seen(t)' = View(call'[t], "called")
  BY <1>1 DEF Seen, Stage
<1>3. \A u \in Thread \ {t} : Seen(u)' = Seen(u)
  BY <1>1 DEF Seen, Stage, View
<1> QED BY <1>2, <1>3 DEF Views

(* A thread that goes on in its call is seen where it was.                    *)
LEMMA StageKept ==
  ASSUME IInv, CallsAgree, NEW t \in Thread, ResumeAcquire(t) \/ ResumeIO(t)
  PROVE  Views' = Views
<1>1. KTypeOK /\ pc \in [Thread -> PC] /\ Done \in Sem
  BY Typing DEF IInv
<1>2. UNCHANGED <<active, call>>
  BY DEF ResumeAcquire, ResumeIO
<1>3. CASE ResumeAcquire(t)
  <2>1. pc[t] = "acquire" /\ Acquire(t)
    BY <1>3 DEF ResumeAcquire, At
  <2>2. Views' = [Views EXCEPT ![t] = View(call'[t], "called")]
    BY <1>1, <1>2, <2>1, CallSeen
  <2>3. Views[t] = View(call[t], "called")
    BY <2>1 DEF Views, Seen, Stage
  <2> QED BY <1>2, <2>2, <2>3 DEF Views
<1>4. CASE ResumeIO(t)
  <2>1. pc[t] = "io" /\ TryP(t, Done, "io", "release")
    BY <1>4 DEF ResumeIO, At
  <2>2. active => pc' = [pc EXCEPT ![t] = "io"]
    BY <1>1, <2>1, TryPFacts DEF IInv, OneRequest
  <2>3. ~active => pc' = [pc EXCEPT ![t] = "release"]
    BY <1>1, <2>1, TryPFacts DEF IInv, OneRequest
  <2>4. \A u \in Thread : Seen(u)' = Seen(u)
    BY <1>1, <1>2, <2>1, <2>2, <2>3 DEF Seen, Stage, View
  <2> QED BY <2>4 DEF Views
<1> QED BY <1>3, <1>4

(* The request, the interrupt and the return: the other calls stay as they    *)
(* are seen, since no other thread is between Acquire and Release.            *)
LEMMA RequestTransfers ==
  ASSUME IInv, CallsAgree, NEW t \in Thread, Request(t)
  PROVE  /\ Views[t].stage = "called" /\ Serving = NoThread /\ Serving' = t
         /\ disk' = IF Views[t].op = "write"
                    THEN [disk EXCEPT ![Views[t].sector] = Views[t].data]
                    ELSE disk
         /\ Views' = [Views EXCEPT ![t] =
                        [stage |-> "transferred", op |-> @.op, sector |-> @.sector,
                         data |-> disk'[@.sector]]]
<1>1. /\ KTypeOK /\ pc \in [Thread -> PC] /\ Lock \in Sem /\ Done \in Sem
      /\ disk \in [Sector -> Value]
      /\ call \in [Thread -> {NoCall} \cup Reading \cup HasRead \cup Writing]
  BY Typing DEF IInv, TypeOK
<1>2. /\ pc[t] = "owner" /\ ~active /\ sem[Done].value = 0 /\ TryP(t, Done, "io", "release")
      /\ active' = TRUE /\ lockHolder' = t
  BY DEF Request, At, IInv, OneRequest
<1>3. pc' = [pc EXCEPT ![t] = "io"]
  BY <1>1, <1>2, TryPFacts
<1>4. \A u \in Thread \ {t} : pc[u] \notin {"owner", "io", "release"}
  BY <1>2 DEF IInv, OneRequest, Owners
<1>5. \A u \in Thread \ {t} : call'[u] = call[u]
  BY <1>1 DEF Request, ReadRequest, WriteRequest
<1>6. \A u \in Thread \ {t} : Seen(u)' = Seen(u)
  BY <1>1, <1>3, <1>4, <1>5 DEF Seen, Stage, View, PC, AsleepLabels
<1>7. Views[t] = View(call[t], "called") /\ Views'[t] = View(call'[t], "transferred")
  BY <1>1, <1>2, <1>3 DEF Views, Seen, Stage
<1>8. Serving = NoThread /\ Serving' = t
  BY <1>2 DEF Serving
<1>9. call[t] \in Reading \cup Writing
  BY <1>2 DEF CallsAgree
<1>10. CASE ReadRequest(t)
  <2>1. call[t].op = "read" /\ disk' = disk
    BY <1>10 DEF ReadRequest
  <2>2. PICK n \in Sector : call[t] = [op |-> "read", sector |-> n]
    BY <1>9, <2>1 DEF Reading, Writing
  <2>3. call'[t] = [op |-> "read", sector |-> n, data |-> disk[n]]
    BY <1>1, <1>10, <2>2 DEF ReadRequest
  <2>4. Views[t] = [stage |-> "called", op |-> "read", sector |-> n]
    BY <1>7, <2>2, ViewOfRead
  <2>5. Views'[t] = [stage |-> "transferred", op |-> "read", sector |-> n, data |-> disk[n]]
    BY <1>7, <2>3, ViewOfData
  <2>6. Views' = [Views EXCEPT ![t] =
                    [stage |-> "transferred", op |-> "read", sector |-> n, data |-> disk[n]]]
    BY <1>6, <2>5 DEF Views
  <2> QED BY <1>8, <2>1, <2>4, <2>6
<1>11. CASE WriteRequest(t)
  <2>1. call[t].op = "write" /\ call' = call
        /\ disk' = [disk EXCEPT ![call[t].sector] = call[t].data]
    BY <1>11 DEF WriteRequest
  <2>2. PICK n \in Sector, v \in Value : call[t] = [op |-> "write", sector |-> n, data |-> v]
    BY <1>9, <2>1 DEF Reading, Writing
  <2>3. disk' = [disk EXCEPT ![n] = v] /\ disk'[n] = v
    BY <1>1, <2>1, <2>2
  <2>4. Views[t] = [stage |-> "called", op |-> "write", sector |-> n, data |-> v]
    BY <1>7, <2>2, ViewOfData
  <2>5. Views'[t] = [stage |-> "transferred", op |-> "write", sector |-> n, data |-> v]
    BY <1>7, <2>1, <2>2, ViewOfData
  <2>6. Views' = [Views EXCEPT ![t] =
                    [stage |-> "transferred", op |-> "write", sector |-> n, data |-> v]]
    BY <1>6, <2>5 DEF Views
  <2>7. /\ Views[t].stage = "called" /\ Views[t].op = "write"
        /\ Views[t].sector = n /\ Views[t].data = v
    BY <2>4
  <2> QED BY <1>8, <2>3, <2>6, <2>7
<1> QED BY <1>10, <1>11 DEF Request

LEMMA InterruptCompletes ==
  ASSUME IInv, CallsAgree, DiskInterrupt
  PROVE  \E t \in Thread : /\ Serving = t /\ Serving' = NoThread /\ disk' = disk
                           /\ Views' = [Views EXCEPT ![t].stage = "completed"]
<1>1. KTypeOK /\ pc \in [Thread -> PC]
  BY Typing DEF IInv
<1>2. active /\ ~active' /\ UNCHANGED <<lockHolder, disk, call>> /\ pc' = pc
  BY InterruptSerialises DEF DiskInterrupt
<1>3. PICK t \in Thread : pc[t] = "io" /\ lockHolder = t
  BY <1>2 DEF IInv, OneRequest
<1>4. \A u \in Thread \ {t} : pc[u] \notin {"owner", "io", "release"}
  BY <1>3 DEF IInv, OneRequest, Owners
<1>5. \A u \in Thread \ {t} : Seen(u)' = Seen(u)
  BY <1>1, <1>2, <1>4 DEF Seen, Stage, View, PC, AsleepLabels
<1>6. Views[t] = View(call[t], "transferred") /\ Views'[t] = View(call[t], "completed")
  BY <1>2, <1>3 DEF Views, Seen, Stage
<1>7. PICK o, n, v : call[t] = [op |-> o, sector |-> n, data |-> v]
  <2>1. call[t] \in HasRead \cup Writing
    BY <1>3 DEF CallsAgree
  <2> QED BY <2>1 DEF HasRead, Writing
<1>8. /\ Views[t] = [stage |-> "transferred", op |-> o, sector |-> n, data |-> v]
      /\ Views'[t] = [stage |-> "completed", op |-> o, sector |-> n, data |-> v]
  BY <1>6, <1>7, ViewOfData
<1>9. Views'[t] = [Views[t] EXCEPT !.stage = "completed"]
  BY <1>8
<1>10. Views' = [Views EXCEPT ![t].stage = "completed"]
  BY <1>5, <1>9 DEF Views
<1> QED BY <1>2, <1>3, <1>10 DEF Serving

LEMMA ReleaseReturns ==
  ASSUME IInv, CallsAgree, NEW t \in Thread, Release(t)
  PROVE  /\ Views[t].stage = "completed" /\ Serving' = Serving /\ disk' = disk
         /\ Views' = [Views EXCEPT ![t] = [stage |-> "none"]]
<1>1. KTypeOK /\ pc \in [Thread -> PC]
  BY Typing DEF IInv
<1>2. /\ pc[t] = "release" /\ pc' = [pc EXCEPT ![t] = "idle"] /\ ~active
      /\ call' = [call EXCEPT ![t] = NoCall] /\ UNCHANGED <<active, disk>>
  BY DEF Release, At, Goto, IInv, OneRequest
<1>3. \A u \in Thread \ {t} : Seen(u)' = Seen(u)
  BY <1>1, <1>2 DEF Seen, Stage, View, IInv, TypeOK
<1>4. Views'[t] = [stage |-> "none"]
  BY <1>1, <1>2 DEF Views, Seen
<1>5. Views[t] = View(call[t], "completed")
  BY <1>2 DEF Views, Seen, Stage
<1>6. Views[t].stage = "completed"
  BY <1>5 DEF View
<1> QED BY <1>2, <1>3, <1>4, <1>6 DEF Views, Serving

(* A call begins where its caller had none.                                   *)
LEMMA ReadCalls ==
  ASSUME IInv, NEW t \in Thread, NEW n \in Sector, ReadSector(t, n)
  PROVE  /\ Views[t] = [stage |-> "none"] /\ Serving' = Serving /\ disk' = disk
         /\ Views' = [Views EXCEPT ![t] = [stage |-> "called", op |-> "read", sector |-> n]]
<1>1. KTypeOK /\ pc \in [Thread -> PC]
  BY Typing DEF IInv
<1>2. /\ pc[t] = "idle" /\ Acquire(t) /\ UNCHANGED <<lockHolder, active, disk>>
      /\ call' = [call EXCEPT ![t] = [op |-> "read", sector |-> n]]
  BY DEF ReadSector, At
<1>3. call'[t] = [op |-> "read", sector |-> n] /\ \A u \in Thread \ {t} : call'[u] = call[u]
  BY <1>2 DEF IInv, TypeOK
<1>4. Views' = [Views EXCEPT ![t] = View(call'[t], "called")]
  BY <1>1, <1>2, <1>3, CallSeen
<1>5. View(call'[t], "called") = [stage |-> "called", op |-> "read", sector |-> n]
  BY <1>3, ViewOfRead
<1> QED BY <1>2, <1>4, <1>5 DEF Views, Seen, Serving

LEMMA WriteCalls ==
  ASSUME IInv, NEW t \in Thread, NEW n \in Sector, NEW v \in Value, WriteSector(t, n, v)
  PROVE  /\ Views[t] = [stage |-> "none"] /\ Serving' = Serving /\ disk' = disk
         /\ Views' = [Views EXCEPT ![t] =
                        [stage |-> "called", op |-> "write", sector |-> n, data |-> v]]
<1>1. KTypeOK /\ pc \in [Thread -> PC]
  BY Typing DEF IInv
<1>2. /\ pc[t] = "idle" /\ Acquire(t) /\ UNCHANGED <<lockHolder, active, disk>>
      /\ call' = [call EXCEPT ![t] = [op |-> "write", sector |-> n, data |-> v]]
  BY DEF WriteSector, At
<1>3. /\ call'[t] = [op |-> "write", sector |-> n, data |-> v]
      /\ \A u \in Thread \ {t} : call'[u] = call[u]
  BY <1>2 DEF IInv, TypeOK
<1>4. Views' = [Views EXCEPT ![t] = View(call'[t], "called")]
  BY <1>1, <1>2, <1>3, CallSeen
<1>5. View(call'[t], "called") =
        [stage |-> "called", op |-> "write", sector |-> n, data |-> v]
  BY <1>3, ViewOfData
<1> QED BY <1>2, <1>4, <1>5 DEF Views, Seen, Serving

-----------------------------------------------------------------------------
(* Each step is a step of the atomic disk, or none.                           *)
LEMMA NextImplements ==
  IInv /\ CallsAgree /\ [Next]_vars => [AtomicDisk!Next]_(AtomicDisk!vars)
<1> SUFFICES ASSUME IInv, CallsAgree, [Next]_vars
             PROVE  [AtomicDisk!Next]_(AtomicDisk!vars)
  OBVIOUS
<1>1. KTypeOK /\ pc \in [Thread -> PC]
  BY Typing DEF IInv
<1>2. ASSUME NEW t \in Thread, NEW n \in Sector, ReadSector(t, n) PROVE AtomicDisk!Next
  <2>1. AtomicDisk!Read(t, n)
    BY <1>2, ReadCalls
       DEF AtomicDisk!Read, AtomicDisk!NoCall, Views, Seen, View, Serving
  <2> QED BY <2>1 DEF AtomicDisk!Next
<1>3. ASSUME NEW t \in Thread, NEW n \in Sector, NEW v \in Value, WriteSector(t, n, v)
      PROVE  AtomicDisk!Next
  <2>1. /\ Views[t] = [stage |-> "none"] /\ Serving' = Serving /\ disk' = disk
        /\ Views' = [Views EXCEPT ![t] =
                       [stage |-> "called", op |-> "write", sector |-> n, data |-> v]]
    BY <1>3, WriteCalls
  <2>2. AtomicDisk!Write(t, n, v)
    BY <2>1 DEF AtomicDisk!Write, AtomicDisk!NoCall, Views, Seen, View, Serving
  <2> QED BY <2>2 DEF AtomicDisk!Next
<1>4. ASSUME NEW t \in Thread, ResumeAcquire(t) \/ ResumeIO(t)
      PROVE  UNCHANGED AtomicDisk!vars
  <2>1. UNCHANGED <<disk, active, lockHolder>> /\ Views' = Views
    BY <1>4, StageKept DEF ResumeAcquire, ResumeIO
  <2> QED BY <2>1 DEF AtomicDisk!vars, Views, Seen, View, Serving
<1>5. ASSUME NEW t \in Thread, Request(t) PROVE AtomicDisk!Next
  <2>1. AtomicDisk!Transfer(t)
    BY <1>5, RequestTransfers DEF AtomicDisk!Transfer, Views, Seen, View, Serving
  <2> QED BY <2>1 DEF AtomicDisk!Next
<1>6. ASSUME DiskInterrupt PROVE AtomicDisk!Next
  <2>1. PICK t \in Thread : /\ Serving = t /\ Serving' = NoThread /\ disk' = disk
                            /\ Views' = [Views EXCEPT ![t].stage = "completed"]
    BY <1>6, InterruptCompletes
  <2>2. AtomicDisk!Complete(t)
    BY <2>1 DEF AtomicDisk!Complete, Views, Seen, View, Serving
  <2> QED BY <2>2 DEF AtomicDisk!Next
<1>7. ASSUME NEW t \in Thread, Release(t) PROVE AtomicDisk!Next
  <2>1. AtomicDisk!Return(t)
    BY <1>7, ReleaseReturns
       DEF AtomicDisk!Return, AtomicDisk!NoCall, Views, Seen, View, Serving
  <2> QED BY <2>1 DEF AtomicDisk!Next
<1>8. ASSUME Preempt \/ UNCHANGED vars PROVE UNCHANGED AtomicDisk!vars
  <2>1. UNCHANGED <<pc, call, active, lockHolder, disk>>
    BY <1>1, <1>8, PreemptedFacts DEF Preempt, vars
  <2> QED BY <2>1 DEF AtomicDisk!vars, Stage, Views, Seen, View, Serving
<1> QED BY <1>2, <1>3, <1>4, <1>5, <1>6, <1>7, <1>8 DEF Next, Step

LEMMA InitImplements == Init => AtomicDisk!Init /\ CallsAgree
<1> SUFFICES ASSUME Init PROVE AtomicDisk!Init /\ CallsAgree
  OBVIOUS
<1>1. pc = [t \in Thread |-> "idle"] /\ ~active /\ disk = InitialContents
  BY InitThreadsFacts DEF Init
<1> QED BY <1>1 DEF AtomicDisk!Init, AtomicDisk!NoCall, CallsAgree

(* To its callers the SynchDisk is a disk that serves one request at a time:  *)
(* each call returns after its own request completed, a read with what the    *)
(* sector held when the disk took it up (the safety part).                    *)
THEOREM SynchDisksImplementAtomicDisk == Spec => AtomicDisk!Spec
<1>1. IInv /\ CallsAgree /\ [Next]_vars => CallsAgree'
  BY NextCallsAgree
<1> QED
  BY <1>1, Invariance, InitImplements, NextImplements, PTL DEF Spec, AtomicDisk!Spec
=============================================================================
