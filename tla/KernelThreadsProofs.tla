------------------------- MODULE KernelThreadsProofs -------------------------
(* What the operators of Scheduler and Synch do, field by field, for every    *)
(* set of threads; what queueing at the tail and removing the front do to the *)
(* members of a list without duplicates; and what the steps shared by the     *)
(* synchronised components do to the scheduler and to the semaphores.         *)
EXTENDS KernelThreads, FiniteSetTheorems, TLAPS

(* Appending adds one member and, if it is new, no duplicate. *)
LEMMA AppendFacts ==
  ASSUME NEW S, NEW q \in Seq(S), NEW x \in S
  PROVE  /\ Append(q, x) \in Seq(S)
         /\ Append(q, x) # <<>>
         /\ Range(Append(q, x)) = Range(q) \cup {x}
         /\ IsInjective(q) /\ x \notin Range(q) => IsInjective(Append(q, x))
<1>1. Append(q, x) \in Seq(S) /\ Len(Append(q, x)) = Len(q) + 1
  OBVIOUS
<1>2. /\ DOMAIN q = 1 .. Len(q) /\ DOMAIN Append(q, x) = 1 .. (Len(q) + 1)
      /\ \A i \in 1 .. Len(q) : Append(q, x)[i] = q[i]
      /\ Append(q, x)[Len(q) + 1] = x
      /\ Len(q) \in Nat
  OBVIOUS
<1>3. Append(q, x) # <<>>
  <2>1. Len(<<>>) = 0
    OBVIOUS
  <2> QED BY <1>1, <1>2, <2>1
<1>4. Range(Append(q, x)) = Range(q) \cup {x}
  BY <1>2 DEF Range
<1>5. ASSUME IsInjective(q), x \notin Range(q)
      PROVE  IsInjective(Append(q, x))
  BY <1>2, <1>5 DEF IsInjective, Range
<1> QED BY <1>1, <1>3, <1>4, <1>5

(* Removing the front of a list without duplicates removes one member. *)
LEMMA TailFacts ==
  ASSUME NEW S, NEW q \in Seq(S), q # <<>>
  PROVE  /\ Head(q) \in S /\ Head(q) \in Range(q)
         /\ Tail(q) \in Seq(S)
         /\ Len(Tail(q)) = Len(q) - 1
         /\ IsInjective(q) => /\ Range(Tail(q)) = Range(q) \ {Head(q)}
                              /\ IsInjective(Tail(q))
<1>1. /\ Len(q) \in Nat \ {0} /\ DOMAIN q = 1 .. Len(q)
      /\ Head(q) = q[1] /\ Head(q) \in S
      /\ Tail(q) \in Seq(S) /\ Len(Tail(q)) = Len(q) - 1
  OBVIOUS
<1>2. /\ DOMAIN Tail(q) = 1 .. (Len(q) - 1)
      /\ \A i \in 1 .. (Len(q) - 1) : Tail(q)[i] = q[i + 1]
  BY <1>1
<1>3. Head(q) \in Range(q)
  BY <1>1 DEF Range
<1>4. ASSUME IsInjective(q)
      PROVE  Range(Tail(q)) = Range(q) \ {Head(q)} /\ IsInjective(Tail(q))
  <2>1. \A i, j \in 1 .. Len(q) : q[i] = q[j] => i = j
    BY <1>1, <1>4 DEF IsInjective
  <2>2. IsInjective(Tail(q))
    BY <1>1, <1>2, <2>1 DEF IsInjective
  <2>3. ASSUME NEW x \in Range(Tail(q)) PROVE x \in Range(q) \ {Head(q)}
    <3>1. PICK i \in 1 .. (Len(q) - 1) : x = q[i + 1]
      BY <1>2 DEF Range
    <3> QED BY <1>1, <2>1, <3>1 DEF Range
  <2>4. ASSUME NEW x \in Range(q) \ {Head(q)} PROVE x \in Range(Tail(q))
    <3>1. PICK i \in 1 .. Len(q) : x = q[i]
      BY <1>1 DEF Range
    <3>2. i # 1 /\ i - 1 \in 1 .. (Len(q) - 1) /\ x = Tail(q)[i - 1]
      BY <1>1, <1>2, <3>1
    <3> QED BY <1>2, <3>2 DEF Range
  <2> QED BY <2>2, <2>3, <2>4
<1> QED BY <1>1, <1>3, <1>4

-----------------------------------------------------------------------------
(* ReadyToRun touches the thread's status and the tail of the ready list. *)
LEMMA ReadyToRunFields ==
  ASSUME NEW c \in Cpu, NEW t \in Thread
  PROVE  LET d == ReadyToRun(c, t) IN
         /\ d \in Cpu
         /\ d.current = c.current /\ d.carcass = c.carcass /\ d.finishing = c.finishing
         /\ d.ready = Append(c.ready, t)
         /\ d.status = [c.status EXCEPT ![t] = "READY"]
<1>1. Append(c.ready, t) \in Seq(Thread)
  BY DEF Cpu
<1>2. [c.status EXCEPT ![t] = "READY"] \in [Thread -> Status]
  BY DEF Cpu, Status
<1> QED BY <1>1, <1>2 DEF ReadyToRun, Cpu

(* Run changes the current thread, its status and, when finishing, the carcass. *)
LEMMA RunFields ==
  ASSUME NEW c \in Cpu, NEW n \in Thread, NEW f \in BOOLEAN
  PROVE  LET d == Run(c, n, f) IN
         /\ d \in Cpu
         /\ d.current = n /\ d.finishing = FALSE /\ d.ready = c.ready
         /\ d.carcass = IF f THEN c.current ELSE c.carcass
         /\ d.status = [c.status EXCEPT ![n] = "RUNNING"]
<1>1. [c.status EXCEPT ![n] = "RUNNING"] \in [Thread -> Status]
  BY DEF Cpu, Status
<1> QED BY <1>1 DEF Run, Cpu

(* RunFront gives the CPU to the front of the ready list. *)
LEMMA RunFrontFields ==
  ASSUME NEW c \in Cpu, NEW f \in BOOLEAN, c.ready # <<>>
  PROVE  LET d == RunFront(c, f) IN
         /\ d \in Cpu
         /\ d.current = Head(c.ready) /\ d.finishing = FALSE
         /\ d.carcass = IF f THEN c.current ELSE c.carcass
         /\ d.ready = Tail(c.ready)
         /\ d.status = [c.status EXCEPT ![Head(c.ready)] = "RUNNING"]
<1>1. Head(c.ready) \in Thread /\ Tail(c.ready) \in Seq(Thread)
  BY DEF Cpu
<1> QED BY <1>1 DEF RunFront, Run, Cpu, Status

(* RunOrIdle runs the front of the ready list, or records the idle loop. *)
LEMMA RunOrIdleFields ==
  ASSUME NEW c \in Cpu, NEW f \in BOOLEAN
  PROVE  /\ RunOrIdle(c, f) \in Cpu
         /\ c.ready = <<>> =>
              LET d == RunOrIdle(c, f) IN
              /\ d.current = c.current /\ d.finishing = f /\ d.carcass = c.carcass
              /\ d.ready = <<>> /\ d.status = c.status
         /\ c.ready # <<>> => RunOrIdle(c, f) = RunFront(c, f)
<1>1. CASE c.ready = <<>>
  BY <1>1 DEF RunOrIdle, Cpu
<1>2. CASE c.ready # <<>>
  BY <1>2, RunFrontFields DEF RunOrIdle
<1> QED BY <1>1, <1>2

(* Sleep blocks the current thread before it looks for another one. *)
LEMMA SleepFields ==
  ASSUME NEW c \in Cpu, NEW f \in BOOLEAN
  PROVE  LET d == Sleep(c, f) IN
         /\ d \in Cpu
         /\ c.ready = <<>> =>
              /\ d.current = c.current /\ d.finishing = f /\ d.carcass = c.carcass
              /\ d.ready = <<>>
              /\ d.status = [c.status EXCEPT ![c.current] = "BLOCKED"]
         /\ c.ready # <<>> =>
              /\ d.current = Head(c.ready) /\ d.finishing = FALSE
              /\ d.carcass = IF f THEN c.current ELSE c.carcass
              /\ d.ready = Tail(c.ready)
              /\ d.status = [[c.status EXCEPT ![c.current] = "BLOCKED"]
                                EXCEPT ![Head(c.ready)] = "RUNNING"]
<1> DEFINE b == [c EXCEPT !.status[c.current] = "BLOCKED"]
<1>1. /\ b \in Cpu /\ b.ready = c.ready /\ b.current = c.current
      /\ b.carcass = c.carcass /\ b.status = [c.status EXCEPT ![c.current] = "BLOCKED"]
  BY DEF Cpu, Status
<1>2. Sleep(c, f) = RunOrIdle(b, f)
  BY DEF Sleep
<1> HIDE DEF b
<1>3. CASE c.ready = <<>>
  BY <1>1, <1>2, <1>3, RunOrIdleFields
<1>4. CASE c.ready # <<>>
  <2>1. Sleep(c, f) = RunFront(b, f)
    BY <1>1, <1>2, <1>4, RunOrIdleFields
  <2>2. LET d == RunFront(b, f) IN
        /\ d \in Cpu
        /\ d.current = Head(b.ready) /\ d.finishing = FALSE
        /\ d.carcass = IF f THEN b.current ELSE b.carcass
        /\ d.ready = Tail(b.ready)
        /\ d.status = [b.status EXCEPT ![Head(b.ready)] = "RUNNING"]
    BY <1>1, <1>4, RunFrontFields
  <2> QED BY <1>1, <1>4, <2>1, <2>2
<1> QED BY <1>3, <1>4

(* Yield is: queue the current thread, then run the front of the list. *)
LEMMA YieldIsReadyThenRun ==
  ASSUME NEW c \in Cpu, c.ready # <<>>
  PROVE  Yield(c) = RunFront(ReadyToRun(c, c.current), FALSE)
<1> DEFINE q == c.ready
           a == Append(q, c.current)
           m == [c EXCEPT !.ready = Tail(@)]
<1>1. c.current \in Thread /\ q \in Seq(Thread) /\ q # <<>>
  BY DEF Cpu
<1>2. /\ Head(a) = Head(q)
      /\ Tail(a) = Append(Tail(q), c.current)
  BY <1>1
<1>3. ReadyToRun(m, c.current)
        = [c EXCEPT !.status[c.current] = "READY", !.ready = Append(Tail(q), c.current)]
  BY DEF ReadyToRun, Cpu
<1>4. [ReadyToRun(c, c.current) EXCEPT !.ready = Tail(@)]
        = [c EXCEPT !.status[c.current] = "READY", !.ready = Tail(a)]
  BY DEF ReadyToRun, Cpu
<1>5. ReadyToRun(c, c.current).ready = a
  BY DEF ReadyToRun, Cpu
<1> QED BY <1>2, <1>3, <1>4, <1>5 DEF Yield, RunFront

(* CheckToBeDestroyed only deletes the carcass. *)
LEMMA CheckToBeDestroyedFields ==
  ASSUME NEW c \in Cpu
  PROVE  LET d == CheckToBeDestroyed(c) IN
         /\ d \in Cpu
         /\ d.current = c.current /\ d.ready = c.ready /\ d.finishing = c.finishing
         /\ d.carcass = NoThread
         /\ c.carcass = NoThread => d.status = c.status
         /\ c.carcass # NoThread =>
              /\ c.carcass \in Thread
              /\ d.status = [c.status EXCEPT ![c.carcass] = "DELETED"]
BY DEF CheckToBeDestroyed, Cpu, Status

-----------------------------------------------------------------------------
(* P takes a permit, or queues the thread. *)
LEMMA PSemFields ==
  ASSUME NEW s \in SemaphoreType, NEW t \in Thread
  PROVE  /\ PSem(s, t) \in SemaphoreType
         /\ Available(s) => PSem(s, t).value = s.value - 1 /\ PSem(s, t).queue = s.queue
         /\ ~Available(s) => PSem(s, t).value = s.value /\ PSem(s, t).queue = Append(s.queue, t)
<1>1. Append(s.queue, t) \in Seq(Thread)
  BY DEF SemaphoreType
<1>2. Available(s) => s.value - 1 \in Nat
  BY DEF SemaphoreType, Available
<1> QED BY <1>1, <1>2 DEF PSem, SemaphoreType

(* V adds a permit and removes the front of the queue. *)
LEMMA VSemFields ==
  ASSUME NEW s \in SemaphoreType
  PROVE  /\ VSem(s) \in SemaphoreType
         /\ VSem(s).value = s.value + 1
         /\ s.queue = <<>> => VSem(s).queue = <<>>
         /\ s.queue # <<>> => VSem(s).queue = Tail(s.queue)
<1>1. s.queue # <<>> => Tail(s.queue) \in Seq(Thread)
  BY DEF SemaphoreType
<1> QED BY <1>1 DEF VSem, Wakes, SemaphoreType

-----------------------------------------------------------------------------
KTypeOK == cpu \in Cpu /\ sem \in [Sem -> SemaphoreType]

(* One thread runs, the others are ready, and no permit was taken yet. *)
LEMMA InitThreadsFacts ==
  ASSUME NEW l, InitThreads(l)
  PROVE  /\ KTypeOK
         /\ pc = [t \in Thread |-> l]
         /\ \A s \in Sem : sem[s].value = InitialValue[s]
<1> DEFINE n == Cardinality(Thread)
<1>1. n \in Nat /\ n # 0
  BY KernelAssumption, FS_CardinalityType, FS_EmptySet
<1>2. PICK order \in [1 .. n -> Thread] :
        /\ cpu = [current   |-> order[1],
                  ready     |-> Tail(order),
                  status    |-> [t \in Thread |->
                                   IF t = order[1] THEN "RUNNING" ELSE "READY"],
                  carcass   |-> NoThread,
                  finishing |-> FALSE]
        /\ sem = [s \in Sem |-> NewSemaphore(InitialValue[s])]
        /\ pc = [t \in Thread |-> l]
  BY DEF InitThreads
<1>3. order \in Seq(Thread) /\ order # <<>> /\ order[1] \in Thread
  BY <1>1
<1>4. Tail(order) \in Seq(Thread)
  BY <1>3
<1>5. cpu \in Cpu
  BY <1>2, <1>3, <1>4 DEF Cpu, Status
<1>6. /\ sem \in [Sem -> SemaphoreType]
      /\ \A s \in Sem : sem[s].value = InitialValue[s]
  BY <1>2, KernelAssumption DEF NewSemaphore, SemaphoreType
<1> QED BY <1>2, <1>5, <1>6 DEF KTypeOK

(* P's loop takes one permit of s and goes on, or finds none and sleeps. *)
LEMMA TryPFacts ==
  ASSUME KTypeOK, NEW t \in Thread, NEW s \in Sem, NEW asleep, NEW after,
         TryP(t, s, asleep, after)
  PROVE  /\ KTypeOK'
         /\ sem[s].value # 0 =>
              sem'[s].value = sem[s].value - 1 /\ pc' = [pc EXCEPT ![t] = after]
         /\ sem[s].value = 0 =>
              sem'[s].value = 0 /\ pc' = [pc EXCEPT ![t] = asleep]
         /\ \A r \in Sem \ {s} : sem'[r] = sem[r]
<1>1. sem[s] \in SemaphoreType
  BY DEF KTypeOK
<1>2. PCpu(sem[s], cpu) \in Cpu
  BY SleepFields DEF PCpu, KTypeOK
<1>3. PSem(sem[s], t) \in SemaphoreType
  BY <1>1, PSemFields
<1>4. KTypeOK'
  BY <1>2, <1>3 DEF KTypeOK, TryP
<1>5. sem'[s] = PSem(sem[s], t) /\ \A r \in Sem \ {s} : sem'[r] = sem[r]
  BY DEF KTypeOK, TryP
<1>6. CASE sem[s].value # 0
  BY <1>1, <1>4, <1>5, <1>6, PSemFields DEF TryP, Available
<1>7. CASE sem[s].value = 0
  BY <1>1, <1>4, <1>5, <1>7, PSemFields DEF TryP, Available
<1> QED BY <1>6, <1>7

(* V may ready the front of s's queue. *)
LEMMA VCpuType ==
  ASSUME KTypeOK, NEW s \in Sem
  PROVE  VCpu(sem[s], cpu) \in Cpu
<1>1. sem[s] \in SemaphoreType /\ cpu \in Cpu
  BY DEF KTypeOK
<1>2. CASE Wakes(sem[s])
  <2>1. Head(sem[s].queue) \in Thread
    BY <1>1, <1>2 DEF Wakes, SemaphoreType
  <2> QED BY <1>1, <1>2, <2>1, ReadyToRunFields DEF VCpu
<1>3. CASE ~Wakes(sem[s])
  BY <1>1, <1>3 DEF VCpu
<1> QED BY <1>2, <1>3

(* V adds one permit to s. *)
LEMMA DoVFacts ==
  ASSUME KTypeOK, NEW s \in Sem, DoV(s)
  PROVE  /\ KTypeOK'
         /\ sem'[s].value = sem[s].value + 1
         /\ \A r \in Sem \ {s} : sem'[r] = sem[r]
<1>1. sem[s] \in SemaphoreType
  BY DEF KTypeOK
<1>2. VSem(sem[s]) \in SemaphoreType /\ VSem(sem[s]).value = sem[s].value + 1
  BY <1>1, VSemFields
<1>3. sem' = [sem EXCEPT ![s] = VSem(@)] /\ cpu' \in Cpu
  BY VCpuType DEF DoV
<1> QED BY <1>2, <1>3 DEF KTypeOK

(* A timer's yield changes who has the CPU and nothing else. *)
LEMMA PreemptedFacts ==
  ASSUME KTypeOK, NEW labels, Preempted(labels)
  PROVE  KTypeOK' /\ sem' = sem /\ pc' = pc
<1>1. cpu \in Cpu /\ cpu.ready # <<>> /\ cpu.current \in Thread
  BY DEF Preempted, KTypeOK, Cpu
<1>2. ReadyToRun(cpu, cpu.current) \in Cpu
  BY <1>1, ReadyToRunFields
<1>3. ReadyToRun(cpu, cpu.current).ready # <<>>
  <2>1. ReadyToRun(cpu, cpu.current).ready = Append(cpu.ready, cpu.current)
    BY <1>1, ReadyToRunFields
  <2>2. cpu.ready \in Seq(Thread)
    BY <1>1 DEF Cpu
  <2> QED BY <1>1, <2>1, <2>2
<1>4. Yield(cpu) \in Cpu
  BY <1>1, <1>2, <1>3, YieldIsReadyThenRun, RunFrontFields
<1> QED BY <1>4 DEF Preempted, KTypeOK

(* A handler's V adds one permit to s and moves no thread that runs. *)
LEMMA HandlerVFacts ==
  ASSUME KTypeOK, NEW s \in Sem, NEW labels, HandlerV(s, labels)
  PROVE  /\ KTypeOK' /\ pc' = pc
         /\ sem'[s].value = sem[s].value + 1
         /\ \A r \in Sem \ {s} : sem'[r] = sem[r]
<1>1. VSem(sem[s]) \in SemaphoreType /\ VSem(sem[s]).value = sem[s].value + 1
  BY VSemFields DEF KTypeOK
<1>2. VCpu(sem[s], cpu) \in Cpu
  BY VCpuType
<1>3. cpu.finishing \in BOOLEAN
  BY DEF KTypeOK, Cpu
<1>4. RunOrIdle(VCpu(sem[s], cpu), cpu.finishing) \in Cpu
  BY <1>2, <1>3, RunOrIdleFields
<1>5. cpu' \in Cpu
  BY <1>2, <1>4 DEF HandlerV
<1>6. sem' = [sem EXCEPT ![s] = VSem(@)] /\ pc' = pc
  BY DEF HandlerV
<1> QED BY <1>1, <1>5, <1>6 DEF KTypeOK

-----------------------------------------------------------------------------
(* The lists of the scheduler: nobody is on two of them, or on one twice, and *)
(* the status of a thread says which kind it is on.                           *)
Consistent ==
  /\ IsInjective(cpu.ready)
  /\ \A t \in Range(cpu.ready) : cpu.status[t] = "READY"
  /\ \A s \in Sem : IsInjective(sem[s].queue)
  /\ \A s \in Sem : \A t \in Range(sem[s].queue) : cpu.status[t] = "BLOCKED"
  /\ \A r, s \in Sem : r # s => Range(sem[r].queue) \cap Range(sem[s].queue) = {}

(* The same of a scheduler c and semaphores q.                                *)
ListsOf(c, q) ==
  /\ IsInjective(c.ready)
  /\ \A t \in Range(c.ready) : c.status[t] = "READY"
  /\ \A s \in Sem : IsInjective(q[s].queue)
  /\ \A s \in Sem : \A t \in Range(q[s].queue) : c.status[t] = "BLOCKED"
  /\ \A r, s \in Sem : r # s => Range(q[r].queue) \cap Range(q[s].queue) = {}

(* Everybody is ready but the one that runs. *)
LEMMA InitThreadsConsistent ==
  ASSUME NEW l, InitThreads(l)
  PROVE  Consistent /\ \A s \in Sem : sem[s].queue = <<>>
<1> DEFINE n == Cardinality(Thread)
<1>1. n \in Nat /\ n # 0
  BY KernelAssumption, FS_CardinalityType, FS_EmptySet
<1>2. PICK order \in [1 .. n -> Thread] :
        /\ IsInjective(order)
        /\ cpu = [current   |-> order[1],
                  ready     |-> Tail(order),
                  status    |-> [t \in Thread |->
                                   IF t = order[1] THEN "RUNNING" ELSE "READY"],
                  carcass   |-> NoThread,
                  finishing |-> FALSE]
        /\ sem = [s \in Sem |-> NewSemaphore(InitialValue[s])]
  BY DEF InitThreads
<1>3. order \in Seq(Thread) /\ order # <<>> /\ Head(order) = order[1]
  BY <1>1
<1>4. IsInjective(cpu.ready) /\ Range(cpu.ready) = Range(order) \ {order[1]}
  <2>1. IsInjective(Tail(order)) /\ Range(Tail(order)) = Range(order) \ {Head(order)}
    BY <1>2, <1>3, TailFacts
  <2>2. cpu.ready = Tail(order)
    BY <1>2
  <2> QED BY <1>3, <2>1, <2>2
<1>5. Range(order) \subseteq Thread
  BY <1>3 DEF Range
<1>6. \A t \in Range(cpu.ready) : cpu.status[t] = "READY"
  BY <1>2, <1>4, <1>5
<1>7. \A s \in Sem : sem[s].queue = <<>> /\ Range(sem[s].queue) = {} /\ IsInjective(sem[s].queue)
  BY <1>2 DEF NewSemaphore, Range, IsInjective
<1> QED BY <1>4, <1>6, <1>7 DEF Consistent

(* Giving the CPU to the front of the ready list leaves the lists right.      *)
LEMMA RunFrontLists ==
  ASSUME NEW c \in Cpu, NEW q \in [Sem -> SemaphoreType], ListsOf(c, q),
         NEW f \in BOOLEAN, c.ready # <<>>
  PROVE  ListsOf(RunFront(c, f), q)
<1> DEFINE d == RunFront(c, f)
<1>1. /\ d.ready = Tail(c.ready)
      /\ d.status = [c.status EXCEPT ![Head(c.ready)] = "RUNNING"]
  BY RunFrontFields
<1>2. c.ready \in Seq(Thread) /\ c.status \in [Thread -> Status]
  BY DEF Cpu
<1>3. /\ Head(c.ready) \in Range(c.ready) /\ Head(c.ready) \in Thread
      /\ IsInjective(Tail(c.ready)) /\ Range(Tail(c.ready)) = Range(c.ready) \ {Head(c.ready)}
  BY <1>2, TailFacts DEF ListsOf
<1>4. Range(c.ready) \subseteq Thread /\ \A s \in Sem : Range(q[s].queue) \subseteq Thread
  BY <1>2 DEF Range, SemaphoreType
<1>5. c.status[Head(c.ready)] = "READY"
  BY <1>3 DEF ListsOf
<1>6. \A t \in Range(d.ready) : d.status[t] = "READY"
  BY <1>1, <1>2, <1>3, <1>4 DEF ListsOf
<1>7. \A s \in Sem : \A t \in Range(q[s].queue) : d.status[t] = "BLOCKED"
  BY <1>1, <1>2, <1>4, <1>5 DEF ListsOf
<1> HIDE DEF d
<1>8. ListsOf(d, q)
  BY <1>1, <1>3, <1>6, <1>7 DEF ListsOf
<1> QED BY <1>8 DEF d

(* So does an idle CPU.                                                       *)
LEMMA RunOrIdleLists ==
  ASSUME NEW c \in Cpu, NEW q \in [Sem -> SemaphoreType], ListsOf(c, q), NEW f \in BOOLEAN
  PROVE  ListsOf(RunOrIdle(c, f), q)
<1>1. CASE c.ready = <<>>
  <2>1. RunOrIdle(c, f).ready = c.ready /\ RunOrIdle(c, f).status = c.status
    BY <1>1, RunOrIdleFields
  <2> QED BY <2>1 DEF ListsOf
<1>2. CASE c.ready # <<>>
  BY <1>2, RunOrIdleFields, RunFrontLists
<1> QED BY <1>1, <1>2

(* A thread that is on no list is made ready.                                 *)
LEMMA ReadyLists ==
  ASSUME NEW c \in Cpu, NEW q \in [Sem -> SemaphoreType], ListsOf(c, q),
         NEW t \in Thread, t \notin Range(c.ready),
         \A s \in Sem : t \notin Range(q[s].queue)
  PROVE  ListsOf(ReadyToRun(c, t), q)
<1> DEFINE d == ReadyToRun(c, t)
<1>1. d.ready = Append(c.ready, t) /\ d.status = [c.status EXCEPT ![t] = "READY"]
  BY ReadyToRunFields
<1>2. c.ready \in Seq(Thread) /\ c.status \in [Thread -> Status]
  BY DEF Cpu
<1>3. IsInjective(d.ready) /\ Range(d.ready) = Range(c.ready) \cup {t}
  BY <1>1, <1>2, AppendFacts DEF ListsOf
<1>4. Range(c.ready) \subseteq Thread /\ \A s \in Sem : Range(q[s].queue) \subseteq Thread
  BY <1>2 DEF Range, SemaphoreType
<1>5. \A u \in Range(d.ready) : d.status[u] = "READY"
  BY <1>1, <1>2, <1>3, <1>4 DEF ListsOf
<1>6. \A s \in Sem : \A u \in Range(q[s].queue) : d.status[u] = "BLOCKED"
  BY <1>1, <1>2, <1>4 DEF ListsOf
<1> HIDE DEF d
<1>7. ListsOf(d, q)
  BY <1>3, <1>5, <1>6 DEF ListsOf
<1> QED BY <1>7 DEF d

(* The running thread is on no list.                                          *)
LEMMA RunningIsOff ==
  ASSUME KTypeOK, Consistent, ~Idling(cpu)
  PROVE  /\ cpu.current \in Thread /\ cpu.current \notin Range(cpu.ready)
         /\ \A s \in Sem : cpu.current \notin Range(sem[s].queue)
BY DEF KTypeOK, Cpu, Consistent, Idling

(* P by the running thread: it goes on, or is the last on the queue.          *)
LEMMA TryPConsistent ==
  ASSUME KTypeOK, Consistent, NEW t \in Thread, cpu.current = t, ~Idling(cpu),
         NEW s \in Sem, NEW asleep, NEW after, TryP(t, s, asleep, after)
  PROVE  /\ Consistent'
         /\ sem[s].value # 0 => sem'[s].queue = sem[s].queue /\ cpu' = cpu
         /\ sem[s].value = 0 => sem'[s].queue = Append(sem[s].queue, t)
         /\ \A u \in Thread : u # t /\ cpu'.status[u] = "BLOCKED" => cpu.status[u] = "BLOCKED"
<1>1. /\ cpu \in Cpu /\ sem \in [Sem -> SemaphoreType] /\ sem[s] \in SemaphoreType
      /\ cpu.status \in [Thread -> Status] /\ cpu.ready \in Seq(Thread)
  BY DEF KTypeOK, Cpu
<1>2. /\ sem'[s] = PSem(sem[s], t) /\ \A r \in Sem \ {s} : sem'[r] = sem[r]
      /\ cpu' = PCpu(sem[s], cpu)
  BY <1>1 DEF TryP
<1>3. CASE sem[s].value # 0
  <2>1. Available(sem[s]) /\ cpu' = cpu
    BY <1>2, <1>3 DEF Available, PCpu
  <2>2. \A r \in Sem : sem'[r].queue = sem[r].queue
    <3>1. sem'[s].queue = sem[s].queue
      BY <1>1, <1>2, <2>1, PSemFields
    <3> QED BY <1>2, <3>1
  <2> QED BY <1>3, <2>1, <2>2 DEF Consistent
<1>4. CASE sem[s].value = 0
  <2> DEFINE b == [cpu EXCEPT !.status[cpu.current] = "BLOCKED"]
             Q(r) == IF r = s THEN Append(sem[s].queue, t) ELSE sem[r].queue
  <2>1. ~Available(sem[s]) /\ cpu' = RunOrIdle(b, FALSE)
    BY <1>2, <1>4 DEF Available, PCpu, Sleep
  <2>2. \A r \in Sem : sem'[r].queue = Q(r)
    <3>1. sem'[s].queue = Append(sem[s].queue, t)
      BY <1>1, <1>2, <2>1, PSemFields
    <3> QED BY <1>2, <3>1
  <2>3. b \in Cpu /\ b.ready = cpu.ready /\ b.status = [cpu.status EXCEPT ![t] = "BLOCKED"]
    BY <1>1 DEF Cpu, Status
  <2>4. sem' \in [Sem -> SemaphoreType]
    BY TryPFacts DEF KTypeOK
  <2>5. t \notin Range(cpu.ready) /\ \A r \in Sem : t \notin Range(sem[r].queue)
    BY RunningIsOff
  <2>6. sem[s].queue \in Seq(Thread)
    BY <1>1 DEF SemaphoreType
  <2>7. /\ IsInjective(Append(sem[s].queue, t))
        /\ Range(Append(sem[s].queue, t)) = Range(sem[s].queue) \cup {t}
    BY <2>5, <2>6, AppendFacts DEF Consistent
  <2>8. \A r \in Sem : Range(sem[r].queue) \subseteq Thread
    BY <1>1 DEF Range, SemaphoreType
  <2>9. Range(cpu.ready) \subseteq Thread
    BY <1>1 DEF Range
  <2>10. ListsOf(b, sem')
    <3> HIDE DEF b
    <3>1. /\ IsInjective(b.ready)
          /\ \A u \in Range(b.ready) : b.status[u] = "READY"
      BY <1>1, <2>3, <2>5, <2>9 DEF Consistent
    <3>2. \A r \in Sem : IsInjective(sem'[r].queue)
      BY <2>2, <2>7 DEF Consistent
    <3>3. \A r \in Sem : \A u \in Range(sem'[r].queue) :
            u = t \/ (cpu.status[u] = "BLOCKED" /\ u \in Thread)
      BY <2>2, <2>7, <2>8 DEF Consistent
    <3>4. \A r \in Sem : \A u \in Range(sem'[r].queue) : b.status[u] = "BLOCKED"
      BY <1>1, <2>3, <3>3
    <3>5. ASSUME NEW r1 \in Sem, NEW r2 \in Sem, r1 # r2
          PROVE  Range(sem'[r1].queue) \cap Range(sem'[r2].queue) = {}
      BY <2>2, <2>5, <2>7, <3>5 DEF Consistent
    <3> QED BY <3>1, <3>2, <3>4, <3>5 DEF ListsOf
  <2>11. ListsOf(cpu', sem')
    BY <2>1, <2>3, <2>4, <2>10, RunOrIdleLists
  <2>12. \A u \in Thread : u # t /\ cpu'.status[u] = "BLOCKED" => cpu.status[u] = "BLOCKED"
    <3> HIDE DEF b
    <3>1. CASE b.ready = <<>>
      <4>1. cpu'.status = b.status
        BY <2>1, <2>3, <3>1, RunOrIdleFields
      <4> QED BY <1>1, <2>3, <4>1
    <3>2. CASE b.ready # <<>>
      <4>1. cpu'.status = [b.status EXCEPT ![Head(b.ready)] = "RUNNING"]
        BY <2>1, <2>3, <3>2, RunOrIdleFields, RunFrontFields
      <4> QED BY <1>1, <2>3, <4>1
    <3> QED BY <3>1, <3>2
  <2> QED BY <1>4, <2>2, <2>11, <2>12 DEF ListsOf, Consistent
<1> QED BY <1>3, <1>4

(* V moves the front of the queue of s to the ready list, if there is one.    *)
LEMMA VLists ==
  ASSUME KTypeOK, Consistent, NEW s \in Sem
  PROVE  LET d == VCpu(sem[s], cpu)
             q == [sem EXCEPT ![s] = VSem(@)]
         IN
         /\ d \in Cpu /\ q \in [Sem -> SemaphoreType] /\ ListsOf(d, q)
         /\ sem[s].queue = <<>> => d = cpu /\ q[s].queue = <<>>
         /\ sem[s].queue # <<>> =>
              /\ Head(sem[s].queue) \in Thread /\ q[s].queue = Tail(sem[s].queue)
              /\ d.status = [cpu.status EXCEPT ![Head(sem[s].queue)] = "READY"]
<1> DEFINE d == VCpu(sem[s], cpu)
           q == [sem EXCEPT ![s] = VSem(@)]
           h == Head(sem[s].queue)
<1>1. /\ cpu \in Cpu /\ sem \in [Sem -> SemaphoreType] /\ sem[s] \in SemaphoreType
      /\ sem[s].queue \in Seq(Thread) /\ VSem(sem[s]) \in SemaphoreType
  BY VSemFields DEF KTypeOK, SemaphoreType
<1>2. /\ q \in [Sem -> SemaphoreType] /\ d \in Cpu
      /\ q[s] = VSem(sem[s]) /\ \A r \in Sem \ {s} : q[r] = sem[r]
  BY <1>1, VCpuType
<1>3. CASE sem[s].queue = <<>>
  <2>1. d = cpu
    BY <1>3 DEF VCpu, Wakes
  <2>2. q[s].queue = <<>> /\ \A r \in Sem : q[r].queue = sem[r].queue
    BY <1>1, <1>2, <1>3, VSemFields
  <2> HIDE DEF d, q
  <2>3. ListsOf(d, q)
    BY <2>1, <2>2 DEF ListsOf, Consistent
  <2> QED BY <1>2, <1>3, <2>1, <2>2, <2>3 DEF d, q
<1>4. CASE sem[s].queue # <<>>
  <2>1. /\ h \in Thread /\ h \in Range(sem[s].queue)
        /\ Range(Tail(sem[s].queue)) = Range(sem[s].queue) \ {h}
        /\ IsInjective(Tail(sem[s].queue))
    BY <1>1, <1>4, TailFacts DEF Consistent
  <2>2. d = ReadyToRun(cpu, h)
    BY <1>4 DEF VCpu, Wakes
  <2>3. q[s].queue = Tail(sem[s].queue)
    BY <1>1, <1>2, <1>4, VSemFields
  <2> HIDE DEF d, q
  <2>4. \A r \in Sem : IsInjective(q[r].queue) /\ Range(q[r].queue) \subseteq Range(sem[r].queue) \ {h}
    BY <1>2, <2>1, <2>3 DEF Consistent
  <2>5. h \notin Range(cpu.ready) /\ \A r \in Sem : h \notin Range(q[r].queue)
    BY <2>1, <2>4 DEF Consistent
  <2>6. ListsOf(cpu, q)
    BY <2>4 DEF ListsOf, Consistent
  <2>7. ListsOf(d, q)
    BY <1>1, <1>2, <2>1, <2>2, <2>5, <2>6, ReadyLists
  <2>8. d.status = [cpu.status EXCEPT ![h] = "READY"]
    BY <1>1, <2>1, <2>2, ReadyToRunFields
  <2> QED BY <1>2, <1>4, <2>1, <2>3, <2>7, <2>8 DEF d, q
<1> QED BY <1>3, <1>4

(* The same of the step, when a thread does it.                               *)
LEMMA DoVConsistent ==
  ASSUME KTypeOK, Consistent, NEW s \in Sem, DoV(s)
  PROVE  /\ Consistent'
         /\ sem[s].queue = <<>> => sem'[s].queue = <<>> /\ cpu' = cpu
         /\ sem[s].queue # <<>> =>
              /\ Head(sem[s].queue) \in Thread /\ sem'[s].queue = Tail(sem[s].queue)
              /\ cpu'.status = [cpu.status EXCEPT ![Head(sem[s].queue)] = "READY"]
<1>1. cpu' = VCpu(sem[s], cpu) /\ sem' = [sem EXCEPT ![s] = VSem(@)]
  BY DEF DoV
<1>2. ListsOf(cpu', sem')
  BY <1>1, VLists
<1>3. Consistent'
  BY <1>2 DEF ListsOf, Consistent
<1> QED BY <1>1, <1>3, VLists

(* And when a handler does; an idle CPU then runs somebody.                   *)
LEMMA HandlerVConsistent ==
  ASSUME KTypeOK, Consistent, NEW s \in Sem, NEW labels, HandlerV(s, labels)
  PROVE  Consistent'
<1> DEFINE d == VCpu(sem[s], cpu)
<1>1. sem' = [sem EXCEPT ![s] = VSem(@)]
      /\ cpu' = IF Idling(cpu) THEN RunOrIdle(d, cpu.finishing) ELSE d
  BY DEF HandlerV
<1>2. d \in Cpu /\ sem' \in [Sem -> SemaphoreType] /\ ListsOf(d, sem')
  BY <1>1, VLists
<1>3. cpu.finishing \in BOOLEAN
  BY DEF KTypeOK, Cpu
<1> HIDE DEF d
<1>4. ListsOf(cpu', sem')
  BY <1>1, <1>2, <1>3, RunOrIdleLists
<1> QED BY <1>4 DEF ListsOf, Consistent

(* The timer's yield puts the running thread at the end of the ready list.    *)
LEMMA PreemptedConsistent ==
  ASSUME KTypeOK, Consistent, NEW labels, Preempted(labels)
  PROVE  /\ Consistent'
         /\ \A u \in Thread : cpu'.status[u] = "BLOCKED" => cpu.status[u] = "BLOCKED"
<1> DEFINE d == ReadyToRun(cpu, cpu.current)
<1>1. /\ cpu \in Cpu /\ sem \in [Sem -> SemaphoreType] /\ cpu.ready # <<>>
      /\ ~Idling(cpu) /\ cpu' = Yield(cpu) /\ sem' = sem
  BY DEF Preempted, KTypeOK
<1>2. /\ cpu.current \in Thread /\ cpu.current \notin Range(cpu.ready)
      /\ \A s \in Sem : cpu.current \notin Range(sem[s].queue)
  BY <1>1, RunningIsOff
<1>3. ListsOf(cpu, sem)
  BY DEF ListsOf, Consistent
<1>4. /\ d \in Cpu /\ d.ready = Append(cpu.ready, cpu.current)
      /\ d.status = [cpu.status EXCEPT ![cpu.current] = "READY"]
  BY <1>1, <1>2, ReadyToRunFields
<1>5. ListsOf(d, sem)
  BY <1>1, <1>2, <1>3, ReadyLists
<1>6. d.ready # <<>>
  BY <1>1, <1>2, <1>4, AppendFacts DEF Cpu
<1>7. cpu' = RunFront(d, FALSE)
  BY <1>1, YieldIsReadyThenRun
<1> HIDE DEF d
<1>8. ListsOf(cpu', sem) /\ cpu'.status = [d.status EXCEPT ![Head(d.ready)] = "RUNNING"]
  <2>1. ListsOf(RunFront(d, FALSE), sem)
    BY <1>1, <1>4, <1>5, <1>6, RunFrontLists
  <2>2. RunFront(d, FALSE).status = [d.status EXCEPT ![Head(d.ready)] = "RUNNING"]
    BY <1>4, <1>6, RunFrontFields
  <2> QED BY <1>7, <2>1, <2>2
<1>9. cpu.status \in [Thread -> Status]
  BY <1>1 DEF Cpu
<1>10. \A u \in Thread : cpu'.status[u] = "BLOCKED" => cpu.status[u] = "BLOCKED"
  BY <1>4, <1>8, <1>9
<1>11. Consistent'
  BY <1>1, <1>8 DEF ListsOf, Consistent
<1> QED BY <1>10, <1>11
=============================================================================
