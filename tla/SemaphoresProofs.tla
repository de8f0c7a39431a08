--------------------------- MODULE SemaphoresProofs ---------------------------
(* Theorems about Semaphores for every set of threads, of semaphores and of   *)
(* devices.  IInv is inductive: ListsAgree needs to know as well where the    *)
(* threads of each status go on (ThreadAgrees), CarcassSafe which thread      *)
(* deletes the carcass, and both what the idle CPU remembers (IdleAgrees).    *)
(* The lemmas follow the code: what blocking, readying, Run and V do to Core, *)
(* then one lemma per action.                                                 *)
EXTENDS Semaphores, KernelThreadsProofs

(* The lists, the statuses and the places where threads go on agree, in a     *)
(* scheduler state c with semaphores q and places p, o: the state between two *)
(* steps, or one inside a step.                                               *)
ThreadAgrees(u, c, q, p, o) ==
  /\ u \in Range(c.ready) <=> c.status[u] = "READY"
  /\ c.status[u] = "RUNNING" => u = c.current
  /\ \A s \in Sem : u \in Range(q[s].queue)
                    <=> c.status[u] = "BLOCKED" /\ p[u] = "P" /\ o[u] = s
  /\ c.status[u] = "JUST_CREATED" <=> p[u] = "new"
  /\ c.status[u] = "BLOCKED" => p[u] \in {"P", "end"}
  /\ c.status[u] = "READY" => p[u] \in {"root", "P", "yield"}
  /\ c.status[u] = "DELETED" => p[u] = "end"
  /\ p[u] = "end" => c.status[u] \in {"BLOCKED", "DELETED"}

NoDuplicates(c, q) ==
  IsInjective(c.ready) /\ \A s \in Sem : IsInjective(q[s].queue)

Core(c, q, p, o) ==
  /\ c \in Cpu /\ q \in [Sem -> SemaphoreType]
  /\ p \in [Thread -> PC] /\ o \in [Thread -> Sem]
  /\ NoDuplicates(c, q)
  /\ \A u \in Thread : ThreadAgrees(u, c, q, p, o)

(* The CPU idles only in a blocked thread, with nobody ready. *)
IdleAgrees ==
  Idling(cpu) => /\ cpu.status[cpu.current] = "BLOCKED"
                 /\ cpu.ready = <<>>
                 /\ cpu.finishing = (pc[cpu.current] = "end")

IInv == Core(cpu, sem, pc, on) /\ CarcassSafe /\ IdleAgrees

-----------------------------------------------------------------------------
(* The steps the actions are composed of keep the lists in agreement.         *)

(* The running thread t queues up on semaphore s and blocks. *)
LEMMA BlockCore ==
  ASSUME NEW c, NEW q, NEW p, NEW o, Core(c, q, p, o),
         NEW t \in Thread, c.current = t, c.status[t] = "RUNNING",
         NEW s \in Sem, ~Available(q[s])
  PROVE  Core([c EXCEPT !.status[c.current] = "BLOCKED"], [q EXCEPT ![s] = PSem(@, t)],
              [p EXCEPT ![t] = "P"], [o EXCEPT ![t] = s])
<1> DEFINE c1 == [c EXCEPT !.status[c.current] = "BLOCKED"]
           q1 == [q EXCEPT ![s] = PSem(@, t)]
           p1 == [p EXCEPT ![t] = "P"]
           o1 == [o EXCEPT ![t] = s]
<1>1. /\ c \in Cpu /\ q[s] \in SemaphoreType /\ q[s].queue \in Seq(Thread)
      /\ c.status \in [Thread -> Status] /\ p \in [Thread -> PC] /\ o \in [Thread -> Sem]
      /\ q \in [Sem -> SemaphoreType]
  BY DEF Core, Cpu, SemaphoreType
<1>2. /\ c1 \in Cpu /\ c1.ready = c.ready /\ c1.current = t
      /\ c1.status = [c.status EXCEPT ![t] = "BLOCKED"]
  BY <1>1 DEF Cpu, Status
<1>3. /\ q1 \in [Sem -> SemaphoreType]
      /\ \A r \in Sem : r # s => q1[r] = q[r]
      /\ q1[s].queue = Append(q[s].queue, t)
  <2>1. PSem(q[s], t) \in SemaphoreType /\ PSem(q[s], t).queue = Append(q[s].queue, t)
    BY <1>1, PSemFields
  <2> QED BY <1>1, <2>1
<1>4. p1 \in [Thread -> PC] /\ o1 \in [Thread -> Sem]
  BY <1>1 DEF PC
<1>5. ThreadAgrees(t, c, q, p, o)
  BY DEF Core
<1>6. \A r \in Sem : t \notin Range(q[r].queue)
  BY <1>5 DEF ThreadAgrees
<1> HIDE DEF c1, q1
<1>7. Range(q1[s].queue) = Range(q[s].queue) \cup {t} /\ IsInjective(q1[s].queue)
  BY <1>1, <1>3, <1>6, AppendFacts DEF Core, NoDuplicates
<1>8. NoDuplicates(c1, q1)
  BY <1>2, <1>3, <1>7 DEF Core, NoDuplicates
<1>9. ASSUME NEW u \in Thread PROVE ThreadAgrees(u, c1, q1, p1, o1)
  <2>1. ThreadAgrees(u, c, q, p, o)
    BY DEF Core
  <2>2. CASE u = t
    BY <1>1, <1>2, <1>3, <1>6, <1>7, <2>1, <2>2 DEF ThreadAgrees
  <2>3. CASE u # t
    BY <1>1, <1>2, <1>3, <1>7, <2>1, <2>3 DEF ThreadAgrees
  <2> QED BY <2>2, <2>3
<1> QED BY <1>2, <1>3, <1>4, <1>8, <1>9 DEF Core, c1, q1

(* Sleep's loop: the front of the ready list runs, or the CPU idles. *)
LEMMA RunOrIdleCore ==
  ASSUME NEW c, NEW q, NEW p, NEW o, Core(c, q, p, o), NEW f \in BOOLEAN,
         c.status[c.current] # "RUNNING"
  PROVE  Core(RunOrIdle(c, f), q, p, o)
<1>1. c \in Cpu /\ c.ready \in Seq(Thread) /\ c.status \in [Thread -> Status]
  BY DEF Core, Cpu
<1> DEFINE d == RunOrIdle(c, f)
<1>2. CASE c.ready = <<>>
  <2>1. d \in Cpu /\ d.ready = c.ready /\ d.status = c.status /\ d.current = c.current
    BY <1>1, <1>2, RunOrIdleFields
  <2> HIDE DEF d
  <2>2. ASSUME NEW u \in Thread PROVE ThreadAgrees(u, d, q, p, o)
    <3>1. ThreadAgrees(u, c, q, p, o)
      BY DEF Core
    <3> QED BY <2>1, <3>1 DEF ThreadAgrees
  <2>3. NoDuplicates(d, q)
    BY <2>1 DEF Core, NoDuplicates
  <2>4. Core(d, q, p, o)
    BY <2>1, <2>2, <2>3 DEF Core
  <2> QED BY <2>4 DEF d
<1>3. CASE c.ready # <<>>
  <2> DEFINE n == Head(c.ready)
  <2>1. d = RunFront(c, f)
    BY <1>1, <1>3, RunOrIdleFields
  <2>2. /\ d \in Cpu /\ d.current = n /\ d.ready = Tail(c.ready)
        /\ d.status = [c.status EXCEPT ![n] = "RUNNING"]
    BY <1>1, <1>3, <2>1, RunFrontFields
  <2>3. IsInjective(c.ready)
    BY DEF Core, NoDuplicates
  <2>4. /\ n \in Thread /\ n \in Range(c.ready)
        /\ Range(d.ready) = Range(c.ready) \ {n} /\ IsInjective(d.ready)
    BY <1>1, <1>3, <2>2, <2>3, TailFacts
  <2>5. NoDuplicates(d, q)
    BY <2>4 DEF Core, NoDuplicates
  <2> HIDE DEF d, n
  <2>6. ASSUME NEW u \in Thread PROVE ThreadAgrees(u, d, q, p, o)
    <3>1. ThreadAgrees(u, c, q, p, o)
      BY DEF Core
    <3>2. CASE u = n
      BY <1>1, <2>2, <2>4, <3>1, <3>2 DEF ThreadAgrees
    <3>3. CASE u # n
      <4>1. c.status[u] # "RUNNING"
        BY <3>1 DEF ThreadAgrees
      <4> QED BY <1>1, <2>2, <2>4, <3>1, <3>3, <4>1 DEF ThreadAgrees
    <3> QED BY <3>2, <3>3
  <2>7. Core(d, q, p, o)
    BY <2>2, <2>5, <2>6 DEF Core
  <2> QED BY <2>7 DEF d
<1> QED BY <1>2, <1>3

(* A thread that is created or running becomes ready, to go on at label l. *)
LEMMA ReadyCore ==
  ASSUME NEW c, NEW q, NEW p, NEW o, Core(c, q, p, o), NEW t \in Thread,
         c.status[t] \in {"JUST_CREATED", "RUNNING"}, NEW l \in {"root", "yield"}
  PROVE  Core(ReadyToRun(c, t), q, [p EXCEPT ![t] = l], o)
<1> DEFINE d == ReadyToRun(c, t)
           p1 == [p EXCEPT ![t] = l]
<1>1. /\ c \in Cpu /\ c.ready \in Seq(Thread) /\ c.status \in [Thread -> Status]
      /\ p \in [Thread -> PC] /\ p1 \in [Thread -> PC]
  BY DEF Core, Cpu, PC
<1>2. /\ d \in Cpu /\ d.current = c.current /\ d.ready = Append(c.ready, t)
      /\ d.status = [c.status EXCEPT ![t] = "READY"]
  BY <1>1, ReadyToRunFields
<1>3. ThreadAgrees(t, c, q, p, o)
  BY DEF Core
<1>4. Range(d.ready) = Range(c.ready) \cup {t} /\ IsInjective(d.ready)
  BY <1>1, <1>2, <1>3, AppendFacts DEF Core, NoDuplicates, ThreadAgrees
<1>5. NoDuplicates(d, q)
  BY <1>4 DEF Core, NoDuplicates
<1> HIDE DEF d
<1>6. ASSUME NEW u \in Thread PROVE ThreadAgrees(u, d, q, p1, o)
  <2>1. ThreadAgrees(u, c, q, p, o)
    BY DEF Core
  <2>2. CASE u = t
    BY <1>1, <1>2, <1>4, <2>1, <2>2 DEF ThreadAgrees
  <2>3. CASE u # t
    BY <1>1, <1>2, <1>4, <2>1, <2>3 DEF ThreadAgrees
  <2> QED BY <2>2, <2>3
<1>7. Core(d, q, p1, o)
  BY <1>1, <1>2, <1>5, <1>6 DEF Core
<1> QED BY <1>7 DEF d

(* V moves the front of the semaphore's queue to the ready list. *)
LEMMA VCore ==
  ASSUME NEW c, NEW q, NEW p, NEW o, Core(c, q, p, o), NEW s \in Sem
  PROVE  Core(VCpu(q[s], c), [q EXCEPT ![s] = VSem(@)], p, o)
<1> DEFINE d  == VCpu(q[s], c)
           q1 == [q EXCEPT ![s] = VSem(@)]
           w  == Head(q[s].queue)
<1>1. /\ c \in Cpu /\ c.ready \in Seq(Thread) /\ c.status \in [Thread -> Status]
      /\ q \in [Sem -> SemaphoreType] /\ q[s].queue \in Seq(Thread)
      /\ q[s] \in SemaphoreType
  BY DEF Core, Cpu, SemaphoreType
<1>2. /\ q1 \in [Sem -> SemaphoreType]
      /\ \A r \in Sem : r # s => q1[r] = q[r]
      /\ q1[s] = VSem(q[s])
  BY <1>1, VSemFields
<1>3. CASE q[s].queue = <<>>
  <2>1. d = c /\ \A r \in Sem : q1[r].queue = q[r].queue
    BY <1>1, <1>2, <1>3, VSemFields DEF VCpu, Wakes
  <2> HIDE DEF d, q1
  <2>2. NoDuplicates(d, q1)
    BY <2>1 DEF Core, NoDuplicates
  <2>3. ASSUME NEW u \in Thread PROVE ThreadAgrees(u, d, q1, p, o)
    <3>1. ThreadAgrees(u, c, q, p, o)
      BY DEF Core
    <3> QED BY <2>1, <3>1 DEF ThreadAgrees
  <2>4. Core(d, q1, p, o)
    BY <1>1, <1>2, <2>1, <2>2, <2>3 DEF Core
  <2> QED BY <2>4 DEF d, q1
<1>4. CASE q[s].queue # <<>>
  <2>1. d = ReadyToRun(c, w) /\ q1[s].queue = Tail(q[s].queue)
    BY <1>1, <1>2, <1>4, VSemFields DEF VCpu, Wakes
  <2>2. IsInjective(q[s].queue)
    BY DEF Core, NoDuplicates
  <2>3. /\ w \in Thread /\ w \in Range(q[s].queue)
        /\ Range(q1[s].queue) = Range(q[s].queue) \ {w} /\ IsInjective(q1[s].queue)
    BY <1>1, <1>4, <2>1, <2>2, TailFacts
  <2> HIDE DEF w
  <2>4. /\ d \in Cpu /\ d.current = c.current /\ d.ready = Append(c.ready, w)
        /\ d.status = [c.status EXCEPT ![w] = "READY"]
    BY <1>1, <2>1, <2>3, ReadyToRunFields
  <2>5. /\ ThreadAgrees(w, c, q, p, o)
        /\ c.status[w] = "BLOCKED" /\ p[w] = "P" /\ o[w] = s
    BY <2>3 DEF Core, ThreadAgrees
  <2>6. Range(d.ready) = Range(c.ready) \cup {w} /\ IsInjective(d.ready)
    BY <1>1, <2>3, <2>4, <2>5, AppendFacts DEF Core, NoDuplicates, ThreadAgrees
  <2> HIDE DEF d, q1
  <2>7. NoDuplicates(d, q1)
    BY <1>2, <2>3, <2>6 DEF Core, NoDuplicates
  <2>8. ASSUME NEW u \in Thread PROVE ThreadAgrees(u, d, q1, p, o)
    <3>1. ThreadAgrees(u, c, q, p, o)
      BY DEF Core
    <3>2. CASE u = w
      BY <1>1, <1>2, <2>3, <2>4, <2>5, <2>6, <3>1, <3>2 DEF ThreadAgrees
    <3>3. CASE u # w
      BY <1>1, <1>2, <2>3, <2>4, <2>6, <3>1, <3>3 DEF ThreadAgrees
    <3> QED BY <3>2, <3>3
  <2>9. Core(d, q1, p, o)
    BY <1>1, <1>2, <2>4, <2>7, <2>8 DEF Core
  <2> QED BY <2>9 DEF d, q1
<1> QED BY <1>3, <1>4

(* A thread that finishes blocks on no queue. *)
LEMMA EndCore ==
  ASSUME NEW c, NEW q, NEW p, NEW o, Core(c, q, p, o),
         NEW t \in Thread, c.current = t, c.status[t] = "RUNNING"
  PROVE  Core([c EXCEPT !.status[c.current] = "BLOCKED"], q, [p EXCEPT ![t] = "end"], o)
<1> DEFINE c1 == [c EXCEPT !.status[c.current] = "BLOCKED"]
           p1 == [p EXCEPT ![t] = "end"]
<1>1. /\ c \in Cpu /\ c.status \in [Thread -> Status] /\ p \in [Thread -> PC]
      /\ p1 \in [Thread -> PC]
  BY DEF Core, Cpu, PC
<1>2. /\ c1 \in Cpu /\ c1.ready = c.ready /\ c1.current = t
      /\ c1.status = [c.status EXCEPT ![t] = "BLOCKED"]
  BY <1>1 DEF Cpu, Status
<1> HIDE DEF c1
<1>3. NoDuplicates(c1, q)
  BY <1>2 DEF Core, NoDuplicates
<1>4. ASSUME NEW u \in Thread PROVE ThreadAgrees(u, c1, q, p1, o)
  <2>1. ThreadAgrees(u, c, q, p, o)
    BY DEF Core
  <2>2. CASE u = t
    BY <1>1, <1>2, <2>1, <2>2 DEF ThreadAgrees
  <2>3. CASE u # t
    BY <1>1, <1>2, <2>1, <2>3 DEF ThreadAgrees
  <2> QED BY <2>2, <2>3
<1>5. Core(c1, q, p1, o)
  BY <1>1, <1>2, <1>3, <1>4 DEF Core
<1> QED BY <1>5 DEF c1

(* Deleting a finished thread's carcass. *)
LEMMA CheckCore ==
  ASSUME NEW c, NEW q, NEW p, NEW o, Core(c, q, p, o),
         c.carcass # NoThread => p[c.carcass] = "end"
  PROVE  Core(CheckToBeDestroyed(c), q, p, o)
<1> DEFINE d == CheckToBeDestroyed(c)
<1>1. c \in Cpu /\ c.status \in [Thread -> Status]
  BY DEF Core, Cpu
<1>2. CASE c.carcass = NoThread
  BY <1>2 DEF CheckToBeDestroyed
<1>3. CASE c.carcass # NoThread
  <2> DEFINE k == c.carcass
  <2>1. /\ d \in Cpu /\ d.ready = c.ready /\ d.current = c.current
        /\ k \in Thread /\ d.status = [c.status EXCEPT ![k] = "DELETED"]
    BY <1>1, <1>3, CheckToBeDestroyedFields
  <2>2. p[k] = "end"
    BY <1>3
  <2> HIDE DEF d, k
  <2>3. NoDuplicates(d, q)
    BY <2>1 DEF Core, NoDuplicates
  <2>4. ASSUME NEW u \in Thread PROVE ThreadAgrees(u, d, q, p, o)
    <3>1. ThreadAgrees(u, c, q, p, o)
      BY DEF Core
    <3>2. CASE u = k
      BY <1>1, <2>1, <2>2, <3>1, <3>2 DEF ThreadAgrees
    <3>3. CASE u # k
      BY <1>1, <2>1, <3>1, <3>3 DEF ThreadAgrees
    <3> QED BY <3>2, <3>3
  <2>5. Core(d, q, p, o)
    BY <2>1, <2>3, <2>4 DEF Core
  <2> QED BY <2>5 DEF d
<1> QED BY <1>2, <1>3

(* The running thread goes on in its own code. *)
LEMMA CodeCore ==
  ASSUME NEW c, NEW q, NEW p, NEW o, Core(c, q, p, o),
         NEW t \in Thread, c.status[t] = "RUNNING"
  PROVE  Core(c, q, [p EXCEPT ![t] = "code"], o)
<1> DEFINE p1 == [p EXCEPT ![t] = "code"]
<1>1. p \in [Thread -> PC] /\ p1 \in [Thread -> PC]
  BY DEF Core, PC
<1>2. ASSUME NEW u \in Thread PROVE ThreadAgrees(u, c, q, p1, o)
  <2>1. ThreadAgrees(u, c, q, p, o)
    BY DEF Core
  <2>2. CASE u = t
    BY <1>1, <2>1, <2>2 DEF ThreadAgrees
  <2>3. CASE u # t
    BY <1>1, <2>1, <2>3 DEF ThreadAgrees
  <2> QED BY <2>2, <2>3
<1> QED BY <1>1, <1>2 DEF Core, NoDuplicates

(* The running thread takes a permit. *)
LEMMA TakeCore ==
  ASSUME NEW c, NEW q, NEW p, NEW o, Core(c, q, p, o),
         NEW t \in Thread, c.status[t] = "RUNNING", NEW s \in Sem, Available(q[s])
  PROVE  Core(c, [q EXCEPT ![s] = PSem(@, t)], [p EXCEPT ![t] = "code"], [o EXCEPT ![t] = s])
<1> DEFINE q1 == [q EXCEPT ![s] = PSem(@, t)]
           p1 == [p EXCEPT ![t] = "code"]
           o1 == [o EXCEPT ![t] = s]
<1>1. /\ q \in [Sem -> SemaphoreType] /\ q[s] \in SemaphoreType /\ o \in [Thread -> Sem]
      /\ o1 \in [Thread -> Sem]
  BY DEF Core
<1>2. PSem(q[s], t) \in SemaphoreType /\ PSem(q[s], t).queue = q[s].queue
  BY <1>1, PSemFields
<1>3. q1 \in [Sem -> SemaphoreType] /\ \A r \in Sem : q1[r].queue = q[r].queue
  BY <1>1, <1>2
<1>4. Core(c, q, p1, o)
  BY CodeCore
<1>5. p1 \in [Thread -> PC] /\ p1[t] = "code"
  BY <1>4 DEF Core, PC
<1> HIDE DEF q1, p1
<1>6. ASSUME NEW u \in Thread PROVE ThreadAgrees(u, c, q1, p1, o1)
  <2>1. ThreadAgrees(u, c, q, p1, o)
    BY <1>4 DEF Core
  <2>2. CASE u = t
    BY <1>1, <1>3, <1>5, <2>1, <2>2 DEF ThreadAgrees
  <2>3. CASE u # t
    BY <1>1, <1>3, <2>1, <2>3 DEF ThreadAgrees
  <2> QED BY <2>2, <2>3
<1>7. Core(c, q1, p1, o1)
  BY <1>1, <1>3, <1>4, <1>6 DEF Core, NoDuplicates
<1> QED BY <1>7 DEF q1, p1

(* Who has the CPU after Sleep's loop, and whose carcass is pending. *)
LEMMA RunOrIdleOutcome ==
  ASSUME NEW c, NEW q, NEW p, NEW o, Core(c, q, p, o), NEW f \in BOOLEAN,
         c.status[c.current] # "RUNNING"
  PROVE  LET d == RunOrIdle(c, f) IN
         /\ Idling(d) => /\ d.current = c.current /\ d.status = c.status
                         /\ d.carcass = c.carcass /\ d.ready = <<>> /\ d.finishing = f
                         /\ c.ready = <<>>
         /\ ~Idling(d) => /\ d.carcass = IF f THEN c.current ELSE c.carcass
                          /\ \A u \in Thread : u # d.current => d.status[u] = c.status[u]
                          /\ d.current \in Thread /\ c.status[d.current] = "READY"
                          /\ p[d.current] \in {"root", "P", "yield"}
<1>1. c \in Cpu /\ c.ready \in Seq(Thread) /\ c.status \in [Thread -> Status]
  BY DEF Core, Cpu
<1> DEFINE d == RunOrIdle(c, f)
<1>2. CASE c.ready = <<>>
  <2>1. /\ d.ready = <<>> /\ d.status = c.status /\ d.current = c.current
        /\ d.carcass = c.carcass /\ d.finishing = f
    BY <1>1, <1>2, RunOrIdleFields
  <2> QED BY <1>2, <2>1 DEF Idling
<1>3. CASE c.ready # <<>>
  <2> DEFINE n == Head(c.ready)
             e == RunFront(c, f)
  <2>1. d = e
    BY <1>1, <1>3, RunOrIdleFields
  <2>2. /\ e.current = n /\ e.carcass = IF f THEN c.current ELSE c.carcass
        /\ e.status = [c.status EXCEPT ![n] = "RUNNING"]
    BY <1>1, <1>3, RunFrontFields
  <2> HIDE DEF e
  <2>3. /\ d.current = n /\ d.carcass = IF f THEN c.current ELSE c.carcass
        /\ d.status = [c.status EXCEPT ![n] = "RUNNING"]
    BY <2>1, <2>2
  <2>4. n \in Thread /\ n \in Range(c.ready)
    BY <1>1, <1>3, TailFacts
  <2>5. ThreadAgrees(n, c, q, p, o)
    BY <2>4 DEF Core
  <2>6. ~Idling(d)
    BY <1>1, <2>3, <2>4 DEF Idling
  <2> HIDE DEF n, d
  <2>7. /\ \A u \in Thread : u # d.current => d.status[u] = c.status[u]
        /\ c.status[n] = "READY" /\ p[n] \in {"root", "P", "yield"}
    BY <1>1, <2>3, <2>4, <2>5 DEF ThreadAgrees
  <2> QED BY <2>3, <2>4, <2>6, <2>7 DEF d
<1> QED BY <1>2, <1>3

-----------------------------------------------------------------------------
(* One evaluation of P's loop by the running thread, in a state without a     *)
(* carcass.                                                                   *)
LEMMA LoopPStep ==
  ASSUME NEW c, Core(c, sem, pc, on), NEW t \in Thread, NEW s \in Sem,
         c.current = t, c.status[t] = "RUNNING", c.carcass = NoThread,
         LoopP(t, s, c)
  PROVE  IInv'
<1>1. c \in Cpu /\ c.status \in [Thread -> Status] /\ pc \in [Thread -> PC]
  BY DEF Core, Cpu
<1>2. sem' = [sem EXCEPT ![s] = PSem(@, t)] /\ on' = [on EXCEPT ![t] = s]
  BY DEF LoopP
<1>3. CASE Available(sem[s])
  <2>1. cpu' = c /\ pc' = [pc EXCEPT ![t] = "code"]
    BY <1>3 DEF LoopP, PCpu
  <2>2. Core(cpu', sem', pc', on')
    BY <1>2, <1>3, <2>1, TakeCore
  <2>3. CarcassSafe' /\ IdleAgrees'
    BY <2>1 DEF CarcassSafe, IdleAgrees, Idling
  <2> QED BY <2>2, <2>3 DEF IInv
<1>4. CASE ~Available(sem[s])
  <2> DEFINE b == [c EXCEPT !.status[c.current] = "BLOCKED"]
  <2>1. cpu' = RunOrIdle(b, FALSE) /\ pc' = [pc EXCEPT ![t] = "P"]
    BY <1>4 DEF LoopP, PCpu, Sleep
  <2>2. Core(b, sem', pc', on')
    <3>1. Core(b, [sem EXCEPT ![s] = PSem(@, t)], [pc EXCEPT ![t] = "P"], [on EXCEPT ![t] = s])
      BY <1>4, BlockCore
    <3> QED BY <1>2, <2>1, <3>1
  <2>3. /\ b.current = t /\ b.carcass = NoThread /\ b.status[t] = "BLOCKED"
    BY <1>1 DEF Cpu, Status
  <2> HIDE DEF b
  <2>4. Core(cpu', sem', pc', on')
    BY <2>1, <2>2, <2>3, RunOrIdleCore
  <2>5. cpu'.carcass = NoThread
    BY <2>1, <2>2, <2>3, RunOrIdleOutcome
  <2>6. pc'[t] = "P"
    BY <1>1, <2>1
  <2>7. Idling(cpu') => /\ cpu'.current = t /\ cpu'.status[t] = "BLOCKED"
                        /\ cpu'.ready = <<>> /\ cpu'.finishing = FALSE
    BY <2>1, <2>2, <2>3, RunOrIdleOutcome
  <2>8. IdleAgrees' /\ CarcassSafe'
    BY <2>5, <2>6, <2>7 DEF IdleAgrees, CarcassSafe
  <2> QED BY <2>4, <2>8 DEF IInv
<1> QED BY <1>3, <1>4

(* What IInv says of a thread t that goes on at label l, before and after it  *)
(* deleted a carcass.                                                         *)
LEMMA AtFacts ==
  ASSUME IInv, NEW t \in Thread, NEW l, At(t, l)
  PROVE  LET d == CheckToBeDestroyed(cpu) IN
         /\ cpu.current = t /\ cpu.status[t] = "RUNNING" /\ pc[t] = l
         /\ Core(cpu, sem, pc, on) /\ cpu \in Cpu /\ pc \in [Thread -> PC]
         /\ Core(d, sem, pc, on)
         /\ d.current = t /\ d.status[t] = "RUNNING" /\ d.carcass = NoThread
         /\ l = "code" => cpu.carcass = NoThread
<1>1. /\ cpu.current = t /\ cpu.status[t] = "RUNNING" /\ pc[t] = l
      /\ Core(cpu, sem, pc, on) /\ cpu \in Cpu /\ pc \in [Thread -> PC]
      /\ cpu.status \in [Thread -> Status]
  BY DEF At, Idling, IInv, Core, Cpu
<1>2. cpu.carcass # NoThread => pc[cpu.carcass] = "end" /\ cpu.carcass # t
  BY <1>1 DEF IInv, CarcassSafe
<1>3. Core(CheckToBeDestroyed(cpu), sem, pc, on)
  BY <1>1, <1>2, CheckCore
<1>4. /\ CheckToBeDestroyed(cpu).current = t /\ CheckToBeDestroyed(cpu).carcass = NoThread
      /\ CheckToBeDestroyed(cpu).status[t] = "RUNNING"
  BY <1>1, <1>2, CheckToBeDestroyedFields
<1>5. l = "code" => cpu.carcass = NoThread
  BY <1>1 DEF IInv, CarcassSafe
<1> QED BY <1>1, <1>3, <1>4, <1>5

(* A thread in its own code calls P. *)
LEMMA PStep ==
  ASSUME IInv, NEW t \in Thread, NEW s \in Sem, P(t, s)
  PROVE  IInv'
BY AtFacts, LoopPStep DEF P

(* A thread that slept in P tests the value again. *)
LEMMA ResumePStep ==
  ASSUME IInv, NEW t \in Thread, ResumeP(t)
  PROVE  IInv'
<1>1. At(t, "P") /\ LoopP(t, on[t], CheckToBeDestroyed(cpu)) /\ on[t] \in Sem
  BY DEF ResumeP, IInv, Core
<1> QED BY <1>1, AtFacts, LoopPStep

(* A thread that starts, or comes back from Yield. *)
LEMMA BackToCodeStep ==
  ASSUME IInv, NEW t \in Thread, Begin(t) \/ ResumeYield(t)
  PROVE  IInv'
<1>1. /\ At(t, "root") \/ At(t, "yield")
      /\ cpu' = CheckToBeDestroyed(cpu) /\ pc' = [pc EXCEPT ![t] = "code"]
      /\ sem' = sem /\ on' = on
  BY DEF Begin, ResumeYield
<1>2. /\ Core(cpu', sem, pc, on) /\ cpu'.current = t /\ cpu'.carcass = NoThread
      /\ cpu'.status[t] = "RUNNING"
  BY <1>1, AtFacts
<1>3. Core(cpu', sem', pc', on')
  BY <1>1, <1>2, CodeCore
<1> QED BY <1>2, <1>3 DEF IInv, CarcassSafe, IdleAgrees, Idling

(* Fork readies a thread that was just created. *)
LEMMA ForkStep ==
  ASSUME IInv, NEW t \in Thread, NEW u \in Thread, Fork(t, u)
  PROVE  IInv'
<1>1. /\ cpu.current = t /\ cpu.status[t] = "RUNNING" /\ cpu.carcass = NoThread
      /\ Core(cpu, sem, pc, on) /\ cpu \in Cpu /\ cpu.status \in [Thread -> Status]
  BY AtFacts DEF Fork, Cpu
<1>2. /\ cpu.status[u] = "JUST_CREATED" /\ cpu' = ReadyToRun(cpu, u)
      /\ pc' = [pc EXCEPT ![u] = "root"] /\ sem' = sem /\ on' = on
  BY DEF Fork
<1>3. Core(cpu', sem', pc', on')
  BY <1>1, <1>2, ReadyCore
<1>4. cpu'.current = t /\ cpu'.status[t] = "RUNNING" /\ cpu'.carcass = NoThread
  BY <1>1, <1>2, ReadyToRunFields
<1> QED BY <1>3, <1>4 DEF IInv, CarcassSafe, IdleAgrees, Idling

(* V by a thread, or by a device handler that interrupted it. *)
LEMMA VStep ==
  ASSUME IInv, NEW t \in Thread, NEW s \in Sem, At(t, "code"), AddPermit(s),
         cpu' = VCpu(sem[s], cpu)
  PROVE  IInv'
<1>1. /\ cpu.current = t /\ cpu.status[t] = "RUNNING" /\ cpu.carcass = NoThread
      /\ pc[t] = "code" /\ Core(cpu, sem, pc, on) /\ cpu \in Cpu
      /\ cpu.status \in [Thread -> Status] /\ sem[s].queue \in Seq(Thread)
  BY AtFacts DEF Core, Cpu, SemaphoreType
<1>2. sem' = [sem EXCEPT ![s] = VSem(@)] /\ pc' = pc /\ on' = on
  BY DEF AddPermit
<1>3. Core(cpu', sem', pc', on')
  BY <1>1, <1>2, VCore
<1>4. cpu'.current = t /\ cpu'.status[t] = "RUNNING" /\ cpu'.carcass = NoThread
  <2>1. CASE sem[s].queue = <<>>
    BY <1>1, <2>1 DEF VCpu, Wakes
  <2>2. CASE sem[s].queue # <<>>
    <3> DEFINE w == Head(sem[s].queue)
    <3>1. w \in Thread /\ w \in Range(sem[s].queue)
      BY <1>1, <2>2, TailFacts
    <3>2. cpu' = ReadyToRun(cpu, w)
      BY <2>2 DEF VCpu, Wakes
    <3> HIDE DEF w
    <3>3. ThreadAgrees(w, cpu, sem, pc, on)
      BY <1>1, <3>1 DEF Core
    <3>4. w # t
      BY <1>1, <3>1, <3>3 DEF ThreadAgrees
    <3>5. /\ cpu'.current = cpu.current /\ cpu'.carcass = cpu.carcass
          /\ cpu'.status = [cpu.status EXCEPT ![w] = "READY"]
      BY <1>1, <3>1, <3>2, ReadyToRunFields
    <3> QED BY <1>1, <3>1, <3>4, <3>5
  <2> QED BY <2>1, <2>2
<1> QED BY <1>3, <1>4 DEF IInv, CarcassSafe, IdleAgrees, Idling

(* Yield queues the caller behind the threads that are ready. *)
LEMMA YieldStep ==
  ASSUME IInv, NEW t \in Thread, YieldCpu(t)
  PROVE  IInv'
<1> DEFINE b == ReadyToRun(cpu, t)
<1>1. /\ cpu.current = t /\ cpu.status[t] = "RUNNING" /\ cpu.carcass = NoThread
      /\ Core(cpu, sem, pc, on) /\ cpu \in Cpu
      /\ cpu.status \in [Thread -> Status] /\ cpu.ready # <<>> /\ cpu.ready \in Seq(Thread)
  BY AtFacts DEF YieldCpu, Cpu
<1>2. pc' = [pc EXCEPT ![t] = "yield"] /\ sem' = sem /\ on' = on /\ cpu' = Yield(cpu)
  BY DEF YieldCpu
<1>3. Core(b, sem', pc', on')
  <2>1. Core(b, sem, [pc EXCEPT ![t] = "yield"], on)
    BY <1>1, ReadyCore
  <2> QED BY <1>2, <2>1
<1>4. /\ b.current = t /\ b.carcass = NoThread /\ b.status[t] = "READY"
      /\ b.ready = Append(cpu.ready, t) /\ b \in Cpu
  BY <1>1, ReadyToRunFields
<1>5. b.ready # <<>>
  BY <1>1, <1>4, AppendFacts
<1>6. cpu' = RunFront(b, FALSE)
  BY <1>1, <1>2, YieldIsReadyThenRun
<1> HIDE DEF b
<1>7. cpu' = RunOrIdle(b, FALSE)
  BY <1>4, <1>5, <1>6, RunOrIdleFields
<1>8. Core(cpu', sem', pc', on')
  BY <1>3, <1>4, <1>7, RunOrIdleCore
<1>9. cpu'.carcass = NoThread
  BY <1>3, <1>4, <1>7, RunOrIdleOutcome
<1>10. ~Idling(cpu')
  <2>1. b.ready \in Seq(Thread) /\ b.status \in [Thread -> Status]
    BY <1>4 DEF Cpu
  <2>2. Head(b.ready) \in Thread
    BY <1>5, <2>1, TailFacts
  <2>3. /\ cpu'.current = Head(b.ready)
        /\ cpu'.status = [b.status EXCEPT ![Head(b.ready)] = "RUNNING"]
    BY <1>4, <1>5, <1>6, RunFrontFields
  <2> QED BY <2>1, <2>2, <2>3 DEF Idling
<1> QED BY <1>8, <1>9, <1>10 DEF IInv, CarcassSafe, IdleAgrees

(* A finishing thread leaves its carcass to the thread it switches to. *)
LEMMA FinishStep ==
  ASSUME IInv, NEW t \in Thread, Finish(t)
  PROVE  IInv'
<1> DEFINE b == [cpu EXCEPT !.status[cpu.current] = "BLOCKED"]
<1>1. /\ cpu.current = t /\ cpu.status[t] = "RUNNING" /\ cpu.carcass = NoThread
      /\ Core(cpu, sem, pc, on) /\ cpu \in Cpu /\ pc \in [Thread -> PC]
      /\ cpu.status \in [Thread -> Status]
  BY AtFacts DEF Finish, Cpu
<1>2. /\ pc' = [pc EXCEPT ![t] = "end"] /\ sem' = sem /\ on' = on
      /\ cpu' = RunOrIdle(b, TRUE)
  BY DEF Finish, Sleep
<1>3. Core(b, sem', pc', on')
  <2>1. Core(b, sem, [pc EXCEPT ![t] = "end"], on)
    BY <1>1, EndCore
  <2> QED BY <1>2, <2>1
<1>4. b.current = t /\ b.carcass = NoThread /\ b.status[t] = "BLOCKED"
  BY <1>1 DEF Cpu, Status
<1> HIDE DEF b
<1>5. Core(cpu', sem', pc', on') /\ pc'[t] = "end"
  BY <1>1, <1>2, <1>3, <1>4, RunOrIdleCore
<1>6. CASE Idling(cpu')
  <2>1. /\ cpu'.current = t /\ cpu'.status = b.status /\ cpu'.carcass = NoThread
        /\ cpu'.ready = <<>> /\ cpu'.finishing = TRUE
    BY <1>2, <1>3, <1>4, <1>6, RunOrIdleOutcome
  <2> QED BY <1>4, <1>5, <2>1 DEF IInv, CarcassSafe, IdleAgrees
<1>7. CASE ~Idling(cpu')
  <2>1. /\ cpu'.carcass = t /\ b.status[cpu'.current] = "READY"
        /\ pc'[cpu'.current] \in {"root", "P", "yield"}
        /\ \A u \in Thread : u # cpu'.current => cpu'.status[u] = b.status[u]
    BY <1>2, <1>3, <1>4, <1>7, RunOrIdleOutcome
  <2>2. cpu'.current # t /\ cpu'.status[t] = "BLOCKED"
    BY <1>4, <2>1
  <2> QED BY <1>5, <1>7, <2>1, <2>2 DEF IInv, CarcassSafe, IdleAgrees
<1> QED BY <1>6, <1>7

(* A device handler runs while the CPU idles, and may ready a thread. *)
LEMMA IdleStep ==
  ASSUME IInv, NEW s \in Sem, IdleInterrupt(s)
  PROVE  IInv'
<1> DEFINE b == VCpu(sem[s], cpu)
           t == cpu.current
<1>1. PICK f \in BOOLEAN : f = cpu.finishing
  BY DEF IInv, Core, Cpu
<1>2. /\ Core(cpu, sem, pc, on) /\ cpu \in Cpu /\ cpu.status \in [Thread -> Status]
      /\ sem[s].queue \in Seq(Thread) /\ t \in Thread
      /\ Idling(cpu) /\ cpu.carcass = NoThread /\ cpu.status[t] = "BLOCKED"
      /\ f = (pc[t] = "end")
  BY <1>1 DEF IInv, Core, Cpu, SemaphoreType, IdleAgrees, CarcassSafe, IdleInterrupt
<1>3. /\ sem' = [sem EXCEPT ![s] = VSem(@)] /\ pc' = pc /\ on' = on
      /\ cpu' = RunOrIdle(b, f)
  BY <1>1 DEF IdleInterrupt, AddPermit
<1>4. Core(b, sem', pc', on')
  BY <1>2, <1>3, VCore
<1>5. /\ b.current = t /\ b.carcass = NoThread /\ b.status[t] # "RUNNING"
      /\ pc[t] = "end" => b.status[t] = "BLOCKED"
      /\ b.ready = <<>> => b.status[t] = "BLOCKED"
  <2>1. CASE sem[s].queue = <<>>
    BY <1>2, <2>1 DEF VCpu, Wakes
  <2>2. CASE sem[s].queue # <<>>
    <3> DEFINE w == Head(sem[s].queue)
    <3>1. w \in Thread /\ w \in Range(sem[s].queue)
      BY <1>2, <2>2, TailFacts
    <3>2. b = ReadyToRun(cpu, w)
      BY <2>2 DEF VCpu, Wakes
    <3> HIDE DEF w, b
    <3>3. ThreadAgrees(w, cpu, sem, pc, on)
      BY <1>2, <3>1 DEF Core
    <3>4. pc[w] = "P"
      BY <3>1, <3>3 DEF ThreadAgrees
    <3>5. /\ b.current = t /\ b.carcass = NoThread /\ b.ready = Append(cpu.ready, w)
          /\ b.status = [cpu.status EXCEPT ![w] = "READY"]
      BY <1>2, <3>1, <3>2, ReadyToRunFields
    <3>6. cpu.ready \in Seq(Thread)
      BY <1>2 DEF Cpu
    <3>7. b.ready # <<>>
      BY <3>1, <3>5, <3>6, AppendFacts
    <3> QED BY <1>2, <3>1, <3>4, <3>5, <3>7
  <2> QED BY <2>1, <2>2
<1> HIDE DEF b
<1>6. Core(cpu', sem', pc', on')
  BY <1>2, <1>3, <1>4, <1>5, RunOrIdleCore
<1>7. LET d == RunOrIdle(b, f) IN
      /\ Idling(d) => /\ d.current = b.current /\ d.status = b.status
                      /\ d.carcass = b.carcass /\ d.ready = <<>> /\ d.finishing = f
                      /\ b.ready = <<>>
      /\ ~Idling(d) => /\ d.carcass = IF f THEN b.current ELSE b.carcass
                       /\ \A u \in Thread : u # d.current => d.status[u] = b.status[u]
                       /\ b.status[d.current] = "READY"
                       /\ pc'[d.current] \in {"root", "P", "yield"}
  <2>1. b.status[b.current] # "RUNNING"
    BY <1>5
  <2> QED BY <1>4, <2>1, RunOrIdleOutcome
<1>8. CASE Idling(cpu')
  <2>1. /\ cpu'.current = t /\ cpu'.status = b.status /\ cpu'.carcass = NoThread
        /\ cpu'.ready = <<>> /\ cpu'.finishing = f /\ b.ready = <<>>
    BY <1>3, <1>5, <1>8, <1>7
  <2> QED BY <1>2, <1>3, <1>5, <1>6, <2>1 DEF IInv, CarcassSafe, IdleAgrees
<1>9. CASE ~Idling(cpu')
  <2>1. /\ cpu'.carcass = IF f THEN t ELSE NoThread
        /\ b.status[cpu'.current] = "READY"
        /\ pc'[cpu'.current] \in {"root", "P", "yield"}
        /\ \A u \in Thread : u # cpu'.current => cpu'.status[u] = b.status[u]
    BY <1>3, <1>5, <1>9, <1>7
  <2>2. CASE f
    <3>1. cpu'.carcass = t /\ pc'[t] = "end" /\ b.status[t] = "BLOCKED"
      BY <1>2, <1>3, <1>5, <2>1, <2>2
    <3>2. cpu'.current # t /\ cpu'.status[t] = "BLOCKED"
      BY <1>2, <2>1, <3>1
    <3> QED BY <1>6, <1>9, <2>1, <3>1, <3>2 DEF IInv, CarcassSafe, IdleAgrees
  <2>3. CASE ~f
    BY <1>6, <1>9, <2>1, <2>3 DEF IInv, CarcassSafe, IdleAgrees
  <2> QED BY <2>2, <2>3
<1> QED BY <1>8, <1>9

-----------------------------------------------------------------------------
(* Every step keeps the inductive invariant. *)
LEMMA NextIInv == IInv /\ [Next]_vars => IInv'
<1> SUFFICES ASSUME IInv, [Next]_vars PROVE IInv'
  OBVIOUS
<1>1. CASE UNCHANGED vars
  BY <1>1 DEF vars, IInv, Core, NoDuplicates, ThreadAgrees, CarcassSafe, IdleAgrees, Idling
<1>2. ASSUME NEW t \in Thread, Resume(t) PROVE IInv'
  BY <1>2, ResumePStep, BackToCodeStep DEF Resume
<1>3. ASSUME NEW t \in Thread, YieldCpu(t) PROVE IInv'
  BY <1>3, YieldStep
<1>4. ASSUME NEW t \in Thread, Finish(t) PROVE IInv'
  BY <1>4, FinishStep
<1>5. ASSUME NEW t \in Thread, NEW s \in Sem, P(t, s) PROVE IInv'
  BY <1>5, PStep
<1>6. ASSUME NEW t \in Thread, NEW s \in Sem, V(t, s) PROVE IInv'
  BY <1>6, VStep DEF V
<1>7. ASSUME NEW t \in Thread, NEW u \in Thread, Fork(t, u) PROVE IInv'
  BY <1>7, ForkStep
<1>8. ASSUME NEW s \in DeviceSem, DeviceInterrupt(s) PROVE IInv'
  <2>1. s \in Sem /\ cpu.current \in Thread
    BY SemAssumption DEF IInv, Core, Cpu
  <2> QED BY <1>8, <2>1, VStep DEF DeviceInterrupt
<1>9. ASSUME NEW s \in DeviceSem, IdleInterrupt(s) PROVE IInv'
  BY <1>9, IdleStep, SemAssumption
<1> QED BY <1>1, <1>2, <1>3, <1>4, <1>5, <1>6, <1>7, <1>8, <1>9 DEF Next

(* The kernel boots in a state with the inductive invariant. *)
LEMMA InitIInv == Init => IInv
<1> SUFFICES ASSUME Init PROVE IInv
  OBVIOUS
<1> USE MainAssumption, SemAssumption, KernelAssumption, NoThreadAssumption
<1>1. Range(<<>>) = {} /\ IsInjective(<<>>)
  BY DEF Range, IsInjective
<1>2. /\ cpu \in Cpu /\ sem \in [Sem -> SemaphoreType] /\ pc \in [Thread -> PC]
      /\ on \in [Thread -> Sem]
  BY DEF Init, Boot, Cpu, Status, PC, NewSemaphore, SemaphoreType
<1>3. /\ cpu.ready = <<>> /\ cpu.current = Main /\ cpu.carcass = NoThread
      /\ \A s \in Sem : sem[s].queue = <<>>
      /\ \A u \in Thread : /\ cpu.status[u] = IF u = Main THEN "RUNNING" ELSE "JUST_CREATED"
                           /\ pc[u] = IF u = Main THEN "code" ELSE "new"
  BY DEF Init, Boot, NewSemaphore
<1>4. NoDuplicates(cpu, sem)
  BY <1>1, <1>3 DEF NoDuplicates
<1>5. ASSUME NEW u \in Thread PROVE ThreadAgrees(u, cpu, sem, pc, on)
  BY <1>1, <1>3 DEF ThreadAgrees
<1>6. CarcassSafe /\ IdleAgrees
  BY <1>3 DEF CarcassSafe, IdleAgrees, Idling
<1> QED BY <1>2, <1>4, <1>5, <1>6 DEF IInv, Core

(* The inductive invariant holds in every reachable state. *)
LEMMA Invariance == Spec => []IInv
BY InitIInv, NextIInv, PTL DEF Spec

(* Every reachable state has the right types. *)
THEOREM TypeCorrect == Spec => []TypeOK
<1>1. IInv => TypeOK
  BY DEF IInv, Core, TypeOK
<1> QED BY <1>1, Invariance, PTL

(* The ready list, the queues, the statuses and the places where threads go   *)
(* on agree: nobody is queued twice, on two lists, or on none while waiting.  *)
THEOREM ListsAlwaysAgree == Spec => []ListsAgree
<1>1. IInv => ListsAgree
  BY DEF IInv, Core, NoDuplicates, ThreadAgrees, ListsAgree
<1> QED BY <1>1, Invariance, PTL

(* No thread is deleted while it runs or could run, and no second carcass is  *)
(* ever left before the first is deleted.                                     *)
THEOREM CarcassAlwaysSafe == Spec => []CarcassSafe
<1>1. IInv => CarcassSafe
  BY DEF IInv
<1> QED BY <1>1, Invariance, PTL

-----------------------------------------------------------------------------
(* Counting the threads that were woken for a semaphore.                      *)

(* Steps that leave the semaphores alone and move no thread to or from P. *)
LEMMA WokenUnchanged ==
  ASSUME NoLostWakeup, sem' = sem,
         \A u \in Thread : (pc'[u] = "P") = (pc[u] = "P"), on' = on
  PROVE  NoLostWakeup'
<1>1. ASSUME NEW s \in Sem PROVE Woken(s)' = Woken(s)
  BY DEF Woken
<1> QED BY <1>1 DEF NoLostWakeup

(* One evaluation of P's loop by a thread woken for s, or by a newcomer. *)
LEMMA WokenLoopP ==
  ASSUME IInv, NoLostWakeup, NEW t \in Thread, NEW s \in Sem, NEW c,
         pc[t] = "code" \/ (pc[t] = "P" /\ on[t] = s), t \notin Range(sem[s].queue),
         LoopP(t, s, c)
  PROVE  NoLostWakeup'
<1>1. /\ sem \in [Sem -> SemaphoreType] /\ pc \in [Thread -> PC] /\ on \in [Thread -> Sem]
      /\ sem[s] \in SemaphoreType /\ sem[s].value \in Nat /\ sem[s].queue \in Seq(Thread)
  BY DEF IInv, Core, SemaphoreType
<1>2. /\ sem' = [sem EXCEPT ![s] = PSem(@, t)] /\ on' = [on EXCEPT ![t] = s]
      /\ pc' = [pc EXCEPT ![t] = IF Available(sem[s]) THEN "code" ELSE "P"]
  BY DEF LoopP
<1>3. ASSUME NEW r \in Sem, r # s
      PROVE  sem'[r] = sem[r] /\ Woken(r)' = Woken(r)
  BY <1>1, <1>2, <1>3 DEF Woken
<1>4. IsFiniteSet(Woken(s)) /\ IsFiniteSet(Woken(s)')
  <2>1. Woken(s) \subseteq Thread /\ Woken(s)' \subseteq Thread
    BY DEF Woken
  <2> QED BY <2>1, KernelAssumption, FS_Subset
<1>5. sem'[s].queue # <<>> => sem'[s].value <= Cardinality(Woken(s)')
  <2>1. CASE Available(sem[s])
    <3>1. /\ sem'[s].queue = sem[s].queue /\ sem'[s].value = sem[s].value - 1
      BY <1>1, <1>2, <2>1, PSemFields
    <3>2. Woken(s)' = Woken(s) \ {t}
      BY <1>1, <1>2, <2>1, <3>1 DEF Woken
    <3>3. Cardinality(Woken(s)) \in Nat /\ Cardinality(Woken(s) \ {t}) \in Nat
      BY <1>4, <3>2, FS_CardinalityType
    <3>4. Cardinality(Woken(s) \ {t}) >= Cardinality(Woken(s)) - 1
      <4>1. Cardinality(Woken(s) \ {t}) = IF t \in Woken(s) THEN Cardinality(Woken(s)) - 1
                                                            ELSE Cardinality(Woken(s))
        BY <1>4, FS_RemoveElement
      <4> HIDE DEF Woken
      <4> QED BY <3>3, <4>1
    <3> QED BY <1>1, <3>1, <3>2, <3>3, <3>4 DEF NoLostWakeup
  <2>2. CASE ~Available(sem[s])
    <3>1. sem'[s].value = 0
      BY <1>1, <1>2, <2>2, PSemFields DEF Available
    <3> QED BY <1>4, <3>1, FS_CardinalityType
  <2> QED BY <2>1, <2>2
<1> QED BY <1>3, <1>5 DEF NoLostWakeup

(* V adds one permit and, if anybody sleeps, one woken thread. *)
LEMMA WokenV ==
  ASSUME IInv, NoLostWakeup, NEW s \in Sem, AddPermit(s)
  PROVE  NoLostWakeup'
<1>1. /\ sem \in [Sem -> SemaphoreType] /\ sem[s] \in SemaphoreType
      /\ sem[s].value \in Nat /\ sem[s].queue \in Seq(Thread)
      /\ pc' = pc /\ on' = on /\ sem' = [sem EXCEPT ![s] = VSem(@)]
  BY DEF IInv, Core, SemaphoreType, AddPermit
<1>2. ASSUME NEW r \in Sem, r # s
      PROVE  sem'[r] = sem[r] /\ Woken(r)' = Woken(r)
  BY <1>1, <1>2 DEF Woken
<1>3. CASE sem[s].queue = <<>>
  <2>1. sem'[s].queue = <<>>
    BY <1>1, <1>3, VSemFields
  <2> QED BY <1>2, <2>1 DEF NoLostWakeup
<1>4. CASE sem[s].queue # <<>>
  <2> DEFINE w == Head(sem[s].queue)
  <2>1. IsInjective(sem[s].queue)
    BY DEF IInv, Core, NoDuplicates
  <2>2. /\ sem'[s].value = sem[s].value + 1 /\ sem'[s].queue = Tail(sem[s].queue)
    BY <1>1, <1>4, VSemFields
  <2>3. /\ w \in Thread /\ w \in Range(sem[s].queue)
        /\ Range(sem'[s].queue) = Range(sem[s].queue) \ {w}
    BY <1>1, <1>4, <2>1, <2>2, TailFacts
  <2> HIDE DEF w
  <2>4. pc[w] = "P" /\ on[w] = s
    BY <2>3 DEF IInv, Core, ThreadAgrees
  <2>5. Woken(s)' = Woken(s) \cup {w} /\ w \notin Woken(s)
    BY <1>1, <2>3, <2>4 DEF Woken
  <2>6. IsFiniteSet(Woken(s))
    <3>1. Woken(s) \subseteq Thread
      BY DEF Woken
    <3> QED BY <3>1, KernelAssumption, FS_Subset
  <2>7. /\ Cardinality(Woken(s)') = Cardinality(Woken(s)) + 1
        /\ Cardinality(Woken(s)) \in Nat
    BY <2>5, <2>6, FS_AddElement, FS_CardinalityType
  <2> QED BY <1>1, <1>2, <1>4, <2>2, <2>7 DEF NoLostWakeup
<1> QED BY <1>3, <1>4

(* No step leaves a permit that sleeping threads would not learn of. *)
LEMMA NextNoLostWakeup == IInv /\ NoLostWakeup /\ [Next]_vars => NoLostWakeup'
<1> SUFFICES ASSUME IInv, NoLostWakeup, [Next]_vars PROVE NoLostWakeup'
  OBVIOUS
<1> USE DEF IInv, Core
<1>1. CASE UNCHANGED vars
  BY <1>1, WokenUnchanged DEF vars
<1>2. ASSUME NEW t \in Thread, Begin(t) \/ ResumeYield(t) \/ YieldCpu(t) \/ Finish(t)
      PROVE  NoLostWakeup'
  <2>1. \A u \in Thread : (pc'[u] = "P") = (pc[u] = "P")
    BY <1>2 DEF Begin, ResumeYield, YieldCpu, Finish, At
  <2> QED BY <1>2, <2>1, WokenUnchanged DEF Begin, ResumeYield, YieldCpu, Finish
<1>3. ASSUME NEW t \in Thread, NEW u \in Thread, Fork(t, u) PROVE NoLostWakeup'
  <2>1. \A v \in Thread : (pc'[v] = "P") = (pc[v] = "P")
    BY <1>3 DEF Fork
  <2> QED BY <1>3, <2>1, WokenUnchanged DEF Fork
<1>4. ASSUME NEW t \in Thread, NEW s \in Sem, P(t, s) PROVE NoLostWakeup'
  <2>1. pc[t] = "code" /\ t \notin Range(sem[s].queue)
    BY <1>4 DEF P, At, ThreadAgrees
  <2> QED BY <1>4, <2>1, WokenLoopP DEF P
<1>5. ASSUME NEW t \in Thread, ResumeP(t) PROVE NoLostWakeup'
  <2>1. /\ pc[t] = "P" /\ on[t] \in Sem /\ cpu.status[t] = "RUNNING"
        /\ LoopP(t, on[t], CheckToBeDestroyed(cpu))
    BY <1>5 DEF ResumeP, At, Idling
  <2>2. t \notin Range(sem[on[t]].queue)
    BY <2>1 DEF ThreadAgrees
  <2> QED BY <2>1, <2>2, WokenLoopP
<1>6. ASSUME NEW s \in Sem, AddPermit(s) PROVE NoLostWakeup'
  BY <1>6, WokenV
<1> QED BY <1>1, <1>2, <1>3, <1>4, <1>5, <1>6, SemAssumption
       DEF Next, Resume, V, DeviceInterrupt, IdleInterrupt

(* While threads sleep on a semaphore, each of its permits has a thread that  *)
(* was woken and is on its way to it.                                         *)
THEOREM NoWakeupIsLost == Spec => []NoLostWakeup
<1>1. Init => NoLostWakeup
  BY DEF Init, NoLostWakeup, NewSemaphore
<1> QED BY <1>1, NextNoLostWakeup, Invariance, PTL DEF Spec

-----------------------------------------------------------------------------
(* The semaphores implement counters of permits, step by step.                *)
LEMMA InitImplements == Init => Abstract!Init
<1> SUFFICES ASSUME Init PROVE Abstract!Init
  OBVIOUS
<1>1. \A s \in Sem : sem[s].value = InitialValue[s]
  BY DEF Init, NewSemaphore
<1>2. InitialValue = [s \in Sem |-> sem[s].value]
  BY <1>1, SemAssumption, KernelAssumption
<1>3. \A s \in Sem : {t \in Thread : pc[t] = "P" /\ on[t] = s} = {}
  BY DEF Init
<1> QED BY <1>2, <1>3 DEF Abstract!Init

(* The threads inside P on s. *)
InP(s) == {t \in Thread : pc[t] = "P" /\ on[t] = s}

(* Steps that leave the semaphores and the threads inside P alone stutter. *)
LEMMA StutterImplements ==
  ASSUME sem' = sem, on' = on, \A u \in Thread : (pc'[u] = "P") = (pc[u] = "P")
  PROVE  UNCHANGED Abstract!vars
BY DEF Abstract!vars

(* P's loop is the abstract Take, Wait or Grant, or stutters. *)
LEMMA LoopPImplements ==
  ASSUME IInv, NEW t \in Thread, NEW s \in Sem, NEW c,
         pc[t] = "code" \/ (pc[t] = "P" /\ on[t] = s), LoopP(t, s, c)
  PROVE  [Abstract!Next]_(Abstract!vars)
<1> DEFINE permits == [r \in Sem |-> sem[r].value]
           waiting == [r \in Sem |-> InP(r)]
<1>1. /\ sem \in [Sem -> SemaphoreType] /\ pc \in [Thread -> PC] /\ on \in [Thread -> Sem]
      /\ sem[s] \in SemaphoreType /\ sem[s].value \in Nat
  BY DEF IInv, Core, SemaphoreType
<1>2. /\ sem' = [sem EXCEPT ![s] = PSem(@, t)] /\ on' = [on EXCEPT ![t] = s]
      /\ pc' = [pc EXCEPT ![t] = IF Available(sem[s]) THEN "code" ELSE "P"]
  BY DEF LoopP
<1>3. \A r \in Sem : r # s => sem'[r] = sem[r] /\ InP(r)' = InP(r)
  BY <1>1, <1>2 DEF InP
<1>4. CASE Available(sem[s])
  <2>1. sem'[s].value = sem[s].value - 1 /\ sem[s].value > 0
    BY <1>1, <1>2, <1>4, PSemFields DEF Available
  <2>2. permits' = [permits EXCEPT ![s] = @ - 1]
    BY <1>3, <2>1
  <2>3. InP(s)' = InP(s) \ {t}
    BY <1>1, <1>2, <1>4 DEF InP
  <2>4. waiting' = [waiting EXCEPT ![s] = @ \ {t}]
    BY <1>3, <2>3
  <2>5. CASE pc[t] = "code"
    <3>1. \A r \in Sem : t \notin InP(r)
      BY <2>5 DEF InP
    <3>2. InP(s)' = InP(s)
      BY <2>3, <3>1
    <3>3. waiting' = waiting
      BY <1>3, <3>2
    <3>4. Abstract!Take(t, s)
      BY <2>1, <2>2, <3>1, <3>3 DEF Abstract!Take, InP
    <3> QED BY <3>4 DEF Abstract!Next
  <2>6. CASE pc[t] = "P"
    <3>1. t \in InP(s)
      BY <2>6 DEF InP
    <3>2. Abstract!Grant(t, s)
      BY <2>1, <2>2, <2>4, <3>1 DEF Abstract!Grant, InP
    <3> QED BY <3>2 DEF Abstract!Next
  <2> QED BY <2>5, <2>6
<1>5. CASE ~Available(sem[s])
  <2>1. sem'[s].value = sem[s].value /\ sem[s].value = 0
    BY <1>1, <1>2, <1>5, PSemFields DEF Available
  <2>2. permits' = permits
    BY <1>3, <2>1
  <2>3. InP(s)' = InP(s) \cup {t}
    BY <1>1, <1>2, <1>5 DEF InP
  <2>4. waiting' = [waiting EXCEPT ![s] = @ \cup {t}]
    BY <1>3, <2>3
  <2>5. CASE pc[t] = "code"
    <3>1. \A r \in Sem : t \notin InP(r)
      BY <2>5 DEF InP
    <3>2. Abstract!Wait(t, s)
      BY <2>1, <2>2, <2>4, <3>1 DEF Abstract!Wait, InP
    <3> QED BY <3>2 DEF Abstract!Next
  <2>6. CASE pc[t] = "P"
    <3>1. t \in InP(s)
      BY <2>6 DEF InP
    <3>2. InP(s)' = InP(s)
      BY <2>3, <3>1
    <3>3. waiting' = waiting
      BY <1>3, <3>2
    <3> QED BY <2>2, <3>3 DEF Abstract!vars, InP
  <2> QED BY <2>5, <2>6
<1> QED BY <1>4, <1>5

(* V is the abstract V. *)
LEMMA VImplements ==
  ASSUME IInv, NEW s \in Sem, AddPermit(s)
  PROVE  Abstract!Next
<1>1. /\ sem \in [Sem -> SemaphoreType] /\ sem[s] \in SemaphoreType
      /\ pc' = pc /\ on' = on /\ sem' = [sem EXCEPT ![s] = VSem(@)]
  BY DEF IInv, Core, AddPermit
<1>2. sem'[s].value = sem[s].value + 1 /\ \A r \in Sem : r # s => sem'[r] = sem[r]
  BY <1>1, VSemFields
<1>3. Abstract!V(s)
  BY <1>1, <1>2 DEF Abstract!V
<1> QED BY <1>3 DEF Abstract!Next

(* Every step is a step of the abstract semaphores, or stutters. *)
LEMMA NextImplements == IInv /\ [Next]_vars => [Abstract!Next]_(Abstract!vars)
<1> SUFFICES ASSUME IInv, [Next]_vars PROVE [Abstract!Next]_(Abstract!vars)
  OBVIOUS
<1> USE DEF IInv, Core
<1>1. CASE UNCHANGED vars
  BY <1>1, StutterImplements DEF vars
<1>2. ASSUME NEW t \in Thread, Begin(t) \/ ResumeYield(t) \/ YieldCpu(t) \/ Finish(t)
      PROVE  [Abstract!Next]_(Abstract!vars)
  <2>1. \A u \in Thread : (pc'[u] = "P") = (pc[u] = "P")
    BY <1>2 DEF Begin, ResumeYield, YieldCpu, Finish, At
  <2> QED BY <1>2, <2>1, StutterImplements DEF Begin, ResumeYield, YieldCpu, Finish
<1>3. ASSUME NEW t \in Thread, NEW u \in Thread, Fork(t, u)
      PROVE  [Abstract!Next]_(Abstract!vars)
  <2>1. \A v \in Thread : (pc'[v] = "P") = (pc[v] = "P")
    BY <1>3 DEF Fork
  <2> QED BY <1>3, <2>1, StutterImplements DEF Fork
<1>4. ASSUME NEW t \in Thread, NEW s \in Sem, P(t, s)
      PROVE  [Abstract!Next]_(Abstract!vars)
  BY <1>4, LoopPImplements DEF P, At
<1>5. ASSUME NEW t \in Thread, ResumeP(t)
      PROVE  [Abstract!Next]_(Abstract!vars)
  BY <1>5, LoopPImplements DEF ResumeP, At
<1>6. ASSUME NEW s \in Sem, AddPermit(s)
      PROVE  [Abstract!Next]_(Abstract!vars)
  BY <1>6, VImplements
<1> QED BY <1>1, <1>2, <1>3, <1>4, <1>5, <1>6, SemAssumption
       DEF Next, Resume, V, DeviceInterrupt, IdleInterrupt

(* Every behaviour of the semaphores is one of the abstract counters: P takes *)
(* exactly one permit before it returns and V adds exactly one.               *)
THEOREM SemaphoresImplementCounters == Spec => Abstract!Spec
BY InitImplements, NextImplements, Invariance, PTL DEF Spec, Abstract!Spec
=============================================================================
