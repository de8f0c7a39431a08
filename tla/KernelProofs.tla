---------------------------- MODULE KernelProofs ----------------------------
(* The processes, for any number of them: the scheduler and the disk's lock   *)
(* under Exec, ThreadFork, Join and Exit (Processes).  Below them the clock,  *)
(* for any lengths of ticks, delays and disks (Interrupts).                   *)
EXTENDS Processes, Interrupts, KernelThreadsProofs, WellFoundedInduction

Unborn == {"none", "created"}

-----------------------------------------------------------------------------
(* What the scheduler keeps, as a predicate of its record c and of the places *)
(* p where the threads go on: a thread is on the ready list if and only if it *)
(* is ready, only the current one runs, and who was not forked or was deleted *)
(* has no other status.                                                       *)
Lists(c, p) ==
  /\ c \in Cpu /\ p \in [Thread -> PC]
  /\ IsInjective(c.ready)
  /\ \A t \in Thread : t \in Range(c.ready) <=> c.status[t] = "READY"
  /\ \A t \in Thread : c.status[t] = "JUST_CREATED" <=> p[t] \in Unborn
  /\ \A t \in Thread : c.status[t] = "DELETED" => p[t] = "end"
  /\ \A t \in Thread : c.status[t] = "RUNNING" => t = c.current

(* A thread that called Finish is deleted, or it is the carcass, or it loops  *)
(* in its last Sleep; nobody else is.                                         *)
Ends(c, p) ==
  /\ \A t \in Thread : p[t] = "end" =>
       \/ c.status[t] = "DELETED"
       \/ c.status[t] = "BLOCKED" /\ (t = c.carcass \/ (t = c.current /\ c.finishing))
  /\ c.carcass # NoThread =>
       p[c.carcass] = "end" /\ c.status[c.carcass] = "BLOCKED" /\ ~Idling(c)
  /\ ~Idling(c) => ~c.finishing
  /\ Idling(c) => c.status[c.current] = "BLOCKED" /\ (c.finishing <=> p[c.current] = "end")

Scheduled(c, p) == Lists(c, p) /\ Ends(c, p)

SameBlocked(c, d) == \A t \in Thread : d.status[t] = "BLOCKED" <=> c.status[t] = "BLOCKED"

LEMMA CurrentRuns ==
  ASSUME NEW c, NEW p, Scheduled(c, p), ~Idling(c)
  PROVE  /\ c.current \in Thread /\ c.status[c.current] = "RUNNING"
         /\ p[c.current] \notin Unborn \cup {"end"}
         /\ c.current \notin Range(c.ready)
BY DEF Scheduled, Lists, Ends, Idling, Cpu, Unborn

(* The thread that goes on deletes the carcass first.                         *)
LEMMA NowKeeps ==
  ASSUME Scheduled(cpu, pc), ~Idling(cpu)
  PROVE  /\ Scheduled(Now, pc) /\ ~Idling(Now)
         /\ Now.current = cpu.current /\ Now.carcass = NoThread /\ Now.ready = cpu.ready
         /\ \A t \in Thread : pc[t] # "end" => Now.status[t] = cpu.status[t]
         /\ \A t \in Thread : pc[t] = "end" => Now.status[t] = "DELETED"
<1> DEFINE d == CheckToBeDestroyed(cpu)
<1>1. /\ d \in Cpu
      /\ d.current = cpu.current /\ d.ready = cpu.ready /\ d.finishing = cpu.finishing
      /\ d.carcass = NoThread
      /\ cpu.carcass = NoThread => d.status = cpu.status
      /\ cpu.carcass # NoThread =>
           /\ cpu.carcass \in Thread
           /\ d.status = [cpu.status EXCEPT ![cpu.carcass] = "DELETED"]
  BY CheckToBeDestroyedFields DEF Scheduled, Lists
<1>2. /\ cpu.current \in Thread /\ cpu.status[cpu.current] = "RUNNING"
      /\ cpu.status \in [Thread -> Status]
  BY CurrentRuns DEF Scheduled, Lists, Cpu
<1> HIDE DEF d
<1>3. \A t \in Thread : d.status[t] = IF t = cpu.carcass THEN "DELETED" ELSE cpu.status[t]
  BY <1>1, <1>2, NoThreadAssumption
<1>4. /\ \A t \in Thread : pc[t] # "end" => d.status[t] = cpu.status[t]
      /\ \A t \in Thread : pc[t] = "end" => d.status[t] = "DELETED"
  BY <1>3, NoThreadAssumption DEF Scheduled, Ends
<1>5. ~Idling(d)
  BY <1>1, <1>2, <1>3 DEF Scheduled, Ends, Idling
<1>6. Lists(d, pc)
  BY <1>1, <1>2, <1>3, <1>4 DEF Scheduled, Lists, Ends, Unborn
<1>7. Ends(d, pc)
  BY <1>1, <1>4, <1>5 DEF Scheduled, Ends
<1> QED BY <1>1, <1>4, <1>5, <1>6, <1>7 DEF Now, Scheduled, d

(* RunFront gives the CPU to the front of the list, when nobody has it.       *)
LEMMA RunFrontKeeps ==
  ASSUME NEW c, NEW p, Lists(c, p), NEW f \in BOOLEAN, c.ready # <<>>,
         \A t \in Thread : c.status[t] # "RUNNING"
  PROVE  LET d == RunFront(c, f) IN
         /\ Lists(d, p) /\ ~Idling(d) /\ ~d.finishing
         /\ d.carcass = IF f THEN c.current ELSE c.carcass
         /\ d.current = Head(c.ready) /\ c.status[d.current] = "READY"
         /\ d.status = [c.status EXCEPT ![d.current] = "RUNNING"]
<1> DEFINE d == RunFront(c, f)
           h == Head(c.ready)
<1>1. /\ d \in Cpu
      /\ d.current = h /\ d.finishing = FALSE
      /\ d.carcass = IF f THEN c.current ELSE c.carcass
      /\ d.ready = Tail(c.ready)
      /\ d.status = [c.status EXCEPT ![h] = "RUNNING"]
  BY RunFrontFields DEF Lists
<1>2. /\ h \in Thread /\ h \in Range(c.ready)
      /\ Range(Tail(c.ready)) = Range(c.ready) \ {h} /\ IsInjective(Tail(c.ready))
  BY TailFacts DEF Lists, Cpu
<1>3. c.status \in [Thread -> Status] /\ p \in [Thread -> PC]
  BY DEF Lists, Cpu
<1> HIDE DEF d, h
<1>4. \A t \in Thread : d.status[t] = IF t = h THEN "RUNNING" ELSE c.status[t]
  BY <1>1, <1>2, <1>3
<1>5. c.status[h] = "READY" /\ p[h] \notin Unborn
  BY <1>2 DEF Lists
<1>6. \A t \in Thread : t \in Range(d.ready) <=> d.status[t] = "READY"
  BY <1>1, <1>2, <1>4 DEF Lists
<1>7. \A t \in Thread : d.status[t] = "JUST_CREATED" <=> p[t] \in Unborn
  BY <1>4, <1>5 DEF Lists
<1>8. /\ \A t \in Thread : d.status[t] = "DELETED" => p[t] = "end"
      /\ \A t \in Thread : d.status[t] = "RUNNING" => t = d.current
  BY <1>1, <1>4 DEF Lists
<1>9. Lists(d, p)
  BY <1>1, <1>2, <1>3, <1>6, <1>7, <1>8 DEF Lists
<1>10. ~Idling(d)
  BY <1>1, <1>2, <1>4 DEF Idling
<1> QED BY <1>1, <1>5, <1>9, <1>10 DEF d, h

(* A thread that is not on the list and not current is put there.             *)
LEMMA ReadyKeeps ==
  ASSUME NEW c, NEW p, Lists(c, p), NEW t \in Thread, c.status[t] # "READY",
         p[t] \notin Unborn \cup {"end"}
  PROVE  LET d == ReadyToRun(c, t) IN
         /\ d.current = c.current /\ d.carcass = c.carcass /\ d.finishing = c.finishing
         /\ d.ready # <<>> /\ d.status = [c.status EXCEPT ![t] = "READY"]
         /\ Lists(d, p)
<1> DEFINE d == ReadyToRun(c, t)
<1>1. /\ d \in Cpu
      /\ d.current = c.current /\ d.carcass = c.carcass /\ d.finishing = c.finishing
      /\ d.ready = Append(c.ready, t)
      /\ d.status = [c.status EXCEPT ![t] = "READY"]
  BY ReadyToRunFields DEF Lists
<1>2. t \notin Range(c.ready)
  BY DEF Lists
<1>3. /\ Append(c.ready, t) # <<>>
      /\ Range(Append(c.ready, t)) = Range(c.ready) \cup {t} /\ IsInjective(Append(c.ready, t))
  BY <1>2, AppendFacts DEF Lists, Cpu
<1>4. c.status \in [Thread -> Status] /\ p \in [Thread -> PC]
  BY DEF Lists, Cpu
<1> HIDE DEF d
<1>5. \A u \in Thread : d.status[u] = IF u = t THEN "READY" ELSE c.status[u]
  BY <1>1, <1>4
<1>6. \A u \in Thread : u \in Range(d.ready) <=> d.status[u] = "READY"
  BY <1>1, <1>3, <1>5 DEF Lists
<1>7. \A u \in Thread : d.status[u] = "JUST_CREATED" <=> p[u] \in Unborn
  BY <1>5 DEF Lists
<1>8. /\ \A u \in Thread : d.status[u] = "DELETED" => p[u] = "end"
      /\ \A u \in Thread : d.status[u] = "RUNNING" => u = d.current
  BY <1>1, <1>5 DEF Lists
<1>9. Lists(d, p)
  BY <1>1, <1>3, <1>4, <1>6, <1>7, <1>8 DEF Lists
<1> QED BY <1>1, <1>3, <1>9 DEF d

-----------------------------------------------------------------------------
(* The ways in which a step uses the scheduler.  The thread that runs goes on *)
(* somewhere else,                                                            *)
LEMMA MoveKeeps ==
  ASSUME NEW c, NEW p, Scheduled(c, p), ~Idling(c),
         NEW l \in PC, l \notin Unborn \cup {"end"}
  PROVE  Scheduled(c, [p EXCEPT ![c.current] = l])
<1>1. /\ c.current \in Thread /\ p[c.current] \notin Unborn \cup {"end"}
      /\ p \in [Thread -> PC]
  BY CurrentRuns DEF Scheduled, Lists
<1> DEFINE q == [p EXCEPT ![c.current] = l]
<1>2. /\ q \in [Thread -> PC]
      /\ \A t \in Thread : q[t] = IF t = c.current THEN l ELSE p[t]
  BY <1>1
<1>3. \A t \in Thread : (q[t] \in Unborn <=> p[t] \in Unborn) /\ (q[t] = "end" <=> p[t] = "end")
  BY <1>1, <1>2
<1> HIDE DEF q
<1>4. Lists(c, q)
  BY <1>2, <1>3 DEF Scheduled, Lists
<1>5. c.carcass # NoThread => c.carcass \in Thread
  BY DEF Scheduled, Lists, Cpu
<1>6. Ends(c, q)
  BY <1>1, <1>3, <1>5 DEF Scheduled, Ends
<1> QED BY <1>4, <1>6 DEF Scheduled, q

(* or constructs another one,                                                 *)
LEMMA CreateKeeps ==
  ASSUME NEW c, NEW p, Scheduled(c, p), NEW u \in Thread, p[u] = "none"
  PROVE  Scheduled(c, [p EXCEPT ![u] = "created"])
<1> DEFINE q == [p EXCEPT ![u] = "created"]
<1>1. p \in [Thread -> PC]
  BY DEF Scheduled, Lists
<1>2. q \in [Thread -> PC]
  BY <1>1 DEF PC
<1>3. \A t \in Thread : (q[t] \in Unborn <=> p[t] \in Unborn) /\ (q[t] = "end" <=> p[t] = "end")
  BY <1>1 DEF Unborn
<1> HIDE DEF q
<1>4. Lists(c, q)
  BY <1>2, <1>3 DEF Scheduled, Lists
<1>5. (c.carcass # NoThread => c.carcass \in Thread) /\ c.current \in Thread
  BY DEF Scheduled, Lists, Cpu
<1>6. Ends(c, q)
  BY <1>3, <1>5 DEF Scheduled, Ends
<1> QED BY <1>4, <1>6 DEF Scheduled, q

(* or forks one,                                                              *)
LEMMA ForkKeeps ==
  ASSUME NEW c, NEW p, Scheduled(c, p), ~Idling(c), NEW u \in Thread, p[u] \in Unborn,
         NEW l \in PC, l \notin Unborn \cup {"end"}
  PROVE  LET d == ReadyToRun(c, u) IN
         /\ Scheduled(d, [p EXCEPT ![u] = l]) /\ ~Idling(d)
         /\ d.current = c.current
         /\ SameBlocked(c, d)
<1> DEFINE q == [p EXCEPT ![u] = l]
           d == ReadyToRun(c, u)
<1>1. /\ p \in [Thread -> PC] /\ c \in Cpu /\ c.status \in [Thread -> Status]
      /\ c.status[u] = "JUST_CREATED" /\ u \notin Range(c.ready)
      /\ c.current \in Thread /\ c.status[c.current] = "RUNNING"
      /\ c.carcass # NoThread => c.carcass \in Thread
  BY CurrentRuns DEF Scheduled, Lists, Cpu
<1>2. /\ d \in Cpu
      /\ d.current = c.current /\ d.carcass = c.carcass /\ d.finishing = c.finishing
      /\ d.ready = Append(c.ready, u)
      /\ d.status = [c.status EXCEPT ![u] = "READY"]
  BY <1>1, ReadyToRunFields
<1>3. Range(Append(c.ready, u)) = Range(c.ready) \cup {u} /\ IsInjective(Append(c.ready, u))
  BY <1>1, AppendFacts DEF Scheduled, Lists, Cpu
<1>4. /\ q \in [Thread -> PC]
      /\ \A t \in Thread : q[t] = IF t = u THEN l ELSE p[t]
  BY <1>1
<1> HIDE DEF d, q
<1>5. \A t \in Thread : d.status[t] = IF t = u THEN "READY" ELSE c.status[t]
  BY <1>1, <1>2
<1>6. \A t \in Thread : t \in Range(d.ready) <=> d.status[t] = "READY"
  BY <1>2, <1>3, <1>5 DEF Scheduled, Lists
<1>7. \A t \in Thread : d.status[t] = "JUST_CREATED" <=> q[t] \in Unborn
  BY <1>4, <1>5 DEF Scheduled, Lists
<1>8. /\ \A t \in Thread : d.status[t] = "DELETED" => q[t] = "end"
      /\ \A t \in Thread : d.status[t] = "RUNNING" => t = d.current
  BY <1>2, <1>4, <1>5 DEF Scheduled, Lists
<1>9. Lists(d, q)
  BY <1>2, <1>3, <1>4, <1>6, <1>7, <1>8 DEF Lists
<1>10. ~Idling(d)
  BY <1>1, <1>2, <1>5 DEF Idling
<1>11. Ends(d, q)
  BY <1>1, <1>2, <1>4, <1>5, <1>10 DEF Scheduled, Ends
<1> QED BY <1>1, <1>2, <1>5, <1>9, <1>10, <1>11 DEF Scheduled, SameBlocked, d, q

(* or readies one that sleeps,                                                *)
LEMMA WakeKeeps ==
  ASSUME NEW c, NEW p, Scheduled(c, p), ~Idling(c), NEW u \in Thread,
         c.status[u] = "BLOCKED", p[u] # "end"
  PROVE  LET d == ReadyToRun(c, u) IN
         /\ Scheduled(d, p) /\ ~Idling(d) /\ d.current = c.current
         /\ d.status = [c.status EXCEPT ![u] = "READY"]
<1> DEFINE d == ReadyToRun(c, u)
<1>1. /\ c.status \in [Thread -> Status] /\ p[u] \notin Unborn
      /\ c.current \in Thread /\ c.status[c.current] = "RUNNING"
      /\ c.carcass # NoThread => c.carcass \in Thread
  BY CurrentRuns DEF Scheduled, Lists, Cpu
<1>2. /\ d.current = c.current /\ d.carcass = c.carcass /\ d.finishing = c.finishing
      /\ d.status = [c.status EXCEPT ![u] = "READY"]
      /\ Lists(d, p)
  BY <1>1, ReadyKeeps DEF Scheduled
<1> HIDE DEF d
<1>3. \A t \in Thread : d.status[t] = IF t = u THEN "READY" ELSE c.status[t]
  BY <1>1, <1>2
<1>4. ~Idling(d)
  BY <1>1, <1>2, <1>3 DEF Idling
<1>5. Ends(d, p)
  BY <1>1, <1>2, <1>3, <1>4 DEF Scheduled, Ends
<1> QED BY <1>2, <1>4, <1>5 DEF Scheduled, d

(* or sleeps or finishes,                                                     *)
LEMMA SleepKeeps ==
  ASSUME NEW c, NEW p, Scheduled(c, p), ~Idling(c), c.carcass = NoThread,
         NEW f \in BOOLEAN, NEW l \in PC, l \notin Unborn, f <=> l = "end"
  PROVE  LET d == Sleep(c, f) IN
         /\ Scheduled(d, [p EXCEPT ![c.current] = l])
         /\ d.status[c.current] = "BLOCKED"
         /\ \A t \in Thread \ {c.current} : d.status[t] = "BLOCKED" <=> c.status[t] = "BLOCKED"
<1> DEFINE t == c.current
           q == [p EXCEPT ![t] = l]
           b == [c EXCEPT !.status[t] = "BLOCKED"]
           d == Sleep(c, f)
<1>1. /\ t \in Thread /\ c.status[t] = "RUNNING" /\ p[t] \notin Unborn \cup {"end"}
      /\ t \notin Range(c.ready)
      /\ c \in Cpu /\ c.status \in [Thread -> Status] /\ p \in [Thread -> PC]
  BY CurrentRuns DEF Scheduled, Lists, Cpu
<1>2. /\ b \in Cpu /\ b.ready = c.ready /\ b.current = t /\ b.carcass = NoThread
      /\ b.status = [c.status EXCEPT ![t] = "BLOCKED"]
  BY <1>1 DEF Cpu, Status
<1>3. /\ q \in [Thread -> PC]
      /\ \A u \in Thread : q[u] = IF u = t THEN l ELSE p[u]
  BY <1>1
<1>4. d = RunOrIdle(b, f)
  BY DEF Sleep
<1> HIDE DEF b, d, q, t
<1>5. \A u \in Thread : b.status[u] = IF u = t THEN "BLOCKED" ELSE c.status[u]
  BY <1>1, <1>2
<1>6. Lists(b, q)
  <2>1. \A u \in Thread : u \in Range(b.ready) <=> b.status[u] = "READY"
    BY <1>1, <1>2, <1>5 DEF Scheduled, Lists
  <2>2. \A u \in Thread : b.status[u] = "JUST_CREATED" <=> q[u] \in Unborn
    BY <1>1, <1>3, <1>5 DEF Scheduled, Lists
  <2>3. /\ \A u \in Thread : b.status[u] = "DELETED" => q[u] = "end"
        /\ \A u \in Thread : b.status[u] = "RUNNING" => u = b.current
    BY <1>1, <1>2, <1>3, <1>5 DEF Scheduled, Lists
  <2> QED BY <1>2, <1>3, <2>1, <2>2, <2>3 DEF Scheduled, Lists
<1>7. \A u \in Thread : b.status[u] # "RUNNING"
  BY <1>1, <1>5 DEF Scheduled, Lists, t
<1>8. \A u \in Thread : q[u] = "end" =>
        b.status[u] = "DELETED" \/ (u = t /\ f /\ b.status[u] = "BLOCKED")
  BY <1>1, <1>3, <1>5, NoThreadAssumption DEF Scheduled, Ends
<1>9. CASE c.ready = <<>>
  <2>1. /\ d \in Cpu /\ d.current = t /\ d.finishing = f /\ d.carcass = NoThread
        /\ d.ready = b.ready /\ d.status = b.status
    BY <1>2, <1>4, <1>9, RunOrIdleFields
  <2>2. Lists(d, q)
    BY <1>2, <1>6, <2>1 DEF Lists
  <2>3. Ends(d, q)
    BY <1>1, <1>3, <1>5, <1>8, <2>1 DEF Ends, Idling
  <2> QED BY <1>1, <1>5, <2>1, <2>2, <2>3 DEF Scheduled, d, q, t
<1>10. CASE c.ready # <<>>
  <2>1. d = RunFront(b, f)
    BY <1>2, <1>4, <1>10, RunOrIdleFields
  <2>2. /\ Lists(d, q) /\ ~Idling(d) /\ ~d.finishing
        /\ d.carcass = IF f THEN t ELSE NoThread
        /\ d.current \in Thread /\ b.status[d.current] = "READY"
        /\ d.status = [b.status EXCEPT ![d.current] = "RUNNING"]
    <3>1. /\ Lists(d, q) /\ ~Idling(d) /\ ~d.finishing
          /\ d.carcass = IF f THEN b.current ELSE b.carcass
          /\ b.status[d.current] = "READY"
          /\ d.status = [b.status EXCEPT ![d.current] = "RUNNING"]
      BY <1>2, <1>6, <1>7, <1>10, <2>1, RunFrontKeeps
    <3>2. d.current \in Thread
      BY <3>1 DEF Lists, Cpu
    <3> QED BY <1>2, <3>1, <3>2
  <2>3. \A u \in Thread : d.status[u] = IF u = d.current THEN "RUNNING" ELSE b.status[u]
    BY <1>2, <2>2 DEF Cpu
  <2>4. Ends(d, q)
    BY <1>1, <1>3, <1>5, <1>8, <2>2, <2>3 DEF Ends
  <2> QED BY <1>1, <1>5, <2>2, <2>3, <2>4 DEF Scheduled, d, q, t
<1> QED BY <1>9, <1>10

(* or yields; and a handler that readies a thread ends the idle loop.         *)
LEMMA YieldKeeps ==
  ASSUME NEW c, NEW p, Scheduled(c, p), ~Idling(c), c.carcass = NoThread, c.ready # <<>>
  PROVE  Scheduled(Yield(c), p) /\ SameBlocked(c, Yield(c))
<1> DEFINE t == c.current
           b == ReadyToRun(c, t)
           d == Yield(c)
<1>1. /\ t \in Thread /\ c.status[t] = "RUNNING" /\ p[t] \notin Unborn \cup {"end"}
      /\ c \in Cpu /\ c.status \in [Thread -> Status]
  BY CurrentRuns DEF Scheduled, Lists, Cpu
<1>2. /\ b.current = t /\ b.carcass = NoThread /\ b.ready # <<>>
      /\ b.status = [c.status EXCEPT ![t] = "READY"]
      /\ Lists(b, p)
  BY <1>1, ReadyKeeps DEF Scheduled
<1>3. d = RunFront(b, FALSE)
  BY <1>1, YieldIsReadyThenRun
<1> HIDE DEF b, d, t
<1>4. \A u \in Thread : b.status[u] = IF u = t THEN "READY" ELSE c.status[u]
  BY <1>1, <1>2
<1>5. \A u \in Thread : b.status[u] # "RUNNING"
  BY <1>1, <1>4 DEF Scheduled, Lists, t
<1>6. /\ Lists(d, p) /\ ~Idling(d) /\ ~d.finishing /\ d.carcass = NoThread
      /\ d.current \in Thread /\ b.status[d.current] = "READY"
      /\ d.status = [b.status EXCEPT ![d.current] = "RUNNING"]
  <2>1. /\ Lists(d, p) /\ ~Idling(d) /\ ~d.finishing /\ d.carcass = b.carcass
        /\ b.status[d.current] = "READY"
        /\ d.status = [b.status EXCEPT ![d.current] = "RUNNING"]
    BY <1>2, <1>3, <1>5, RunFrontKeeps
  <2>2. d.current \in Thread
    BY <2>1 DEF Lists, Cpu
  <2> QED BY <1>2, <2>1, <2>2
<1>7. \A u \in Thread : d.status[u] = IF u = d.current THEN "RUNNING" ELSE b.status[u]
  BY <1>2, <1>6 DEF Lists, Cpu
<1>8. \A u \in Thread : p[u] = "end" => c.status[u] = "DELETED"
  BY NoThreadAssumption DEF Scheduled, Ends
<1>9. Ends(d, p)
  BY <1>1, <1>4, <1>6, <1>7, <1>8 DEF Ends, t
<1> QED BY <1>1, <1>4, <1>6, <1>7, <1>9 DEF Scheduled, SameBlocked, d

LEMMA IdleWakeKeeps ==
  ASSUME NEW c, NEW p, Scheduled(c, p), Idling(c), NEW u \in Thread,
         c.status[u] = "BLOCKED", p[u] # "end"
  PROVE  LET d == RunOrIdle(ReadyToRun(c, u), c.finishing) IN
         /\ Scheduled(d, p)
         /\ d.status[u] # "BLOCKED"
         /\ \A t \in Thread \ {u} : d.status[t] = "BLOCKED" <=> c.status[t] = "BLOCKED"
<1> DEFINE b == ReadyToRun(c, u)
           d == RunOrIdle(b, c.finishing)
<1>1. /\ c \in Cpu /\ c.status \in [Thread -> Status] /\ c.finishing \in BOOLEAN
      /\ p[u] \notin Unborn
      /\ c.current \in Thread /\ c.status[c.current] = "BLOCKED"
      /\ c.carcass = NoThread /\ (c.finishing <=> p[c.current] = "end")
  BY DEF Scheduled, Lists, Ends, Cpu, Idling
<1>2. /\ b.current = c.current /\ b.carcass = NoThread /\ b.ready # <<>>
      /\ b.status = [c.status EXCEPT ![u] = "READY"]
      /\ Lists(b, p)
  BY <1>1, ReadyKeeps DEF Scheduled
<1>3. d = RunFront(b, c.finishing)
  BY <1>1, <1>2, RunOrIdleFields DEF Lists
<1> HIDE DEF b, d
<1>4. \A t \in Thread : b.status[t] = IF t = u THEN "READY" ELSE c.status[t]
  BY <1>1, <1>2
<1>5. \A t \in Thread : b.status[t] # "RUNNING"
  BY <1>1, <1>4 DEF Scheduled, Lists
<1>6. /\ Lists(d, p) /\ ~Idling(d) /\ ~d.finishing
      /\ d.carcass = IF c.finishing THEN c.current ELSE NoThread
      /\ d.current \in Thread /\ b.status[d.current] = "READY"
      /\ d.status = [b.status EXCEPT ![d.current] = "RUNNING"]
  <2>1. /\ Lists(d, p) /\ ~Idling(d) /\ ~d.finishing
        /\ d.carcass = IF c.finishing THEN b.current ELSE b.carcass
        /\ b.status[d.current] = "READY"
        /\ d.status = [b.status EXCEPT ![d.current] = "RUNNING"]
    <3>1. c.finishing \in BOOLEAN /\ b.ready # <<>> /\ Lists(b, p)
      BY <1>1, <1>2
    <3> QED BY <1>3, <1>5, <3>1, RunFrontKeeps
  <2>2. d.current \in Thread
    BY <2>1 DEF Lists, Cpu
  <2> QED BY <1>1, <1>2, <2>1, <2>2
<1>7. \A t \in Thread : d.status[t] = IF t = d.current THEN "RUNNING" ELSE b.status[t]
  BY <1>2, <1>6 DEF Lists, Cpu
<1>8. Ends(d, p)
  BY <1>1, <1>4, <1>6, <1>7, NoThreadAssumption DEF Ends, Scheduled
<1> QED BY <1>1, <1>4, <1>6, <1>7, <1>8 DEF Scheduled, d, b

-----------------------------------------------------------------------------
(* A child in Exit_P has put t on the ready list.                             *)
Readied(t) == \E c \in Thread : parent[c] = t /\ pc[c] = "exit"

Sleepers ==
  \A t \in Thread : cpu.status[t] = "BLOCKED" /\ pc[t] # "end" =>
    \/ pc[t] = "acquire" /\ t \in Range(sem[Lock].queue)
    \/ pc[t] = "io" /\ t \in Range(sem[Done].queue)

Waiting ==
  /\ IsInjective(sem[Lock].queue)
  /\ \A t \in Range(sem[Lock].queue) :
       (cpu.status[t] = "BLOCKED" /\ pc[t] = "acquire") \/ Readied(t)
  /\ \A t \in Range(sem[Done].queue) : cpu.status[t] = "BLOCKED" \/ Readied(t)

(* One thread has the disk, and while it sleeps there its request is under    *)
(* way, or over and its permit is there.                                      *)
Holding == {"owner", "io", "release"}

Exclusive ==
  /\ \/ sem[Lock].value = 1 /\ \A t \in Thread : pc[t] \notin Holding
     \/ /\ sem[Lock].value = 0
        /\ \E t \in Thread : pc[t] \in Holding /\ \A u \in Thread \ {t} : pc[u] \notin Holding
  /\ (\A t \in Thread : pc[t] # "io") =>
       sem[Done].value = 0 /\ sem[Done].queue = <<>> /\ ~active
  /\ \A t \in Thread : pc[t] = "io" =>
       IF active THEN sem[Done].value = 0 /\ sem[Done].queue = <<t>>
                 ELSE sem[Done].value = 1 /\ sem[Done].queue = <<>>

(* The child of an Exec is constructed and not forked until it is loaded.     *)
Loading(t) ==
  \/ pc[t] = "fork"
  \/ pc[t] \in {"acquire", "owner", "io", "release"} /\ after[t] = "fork"

(* Only children that begin in usrfork are registered with their parents, and *)
(* they never get to Exit; so nobody ever sleeps in Join.                     *)
Family ==
  /\ \A t \in Thread : \A c \in childThreads[t] : pc[c] = "childRoot"
  /\ \A c \in Thread : parent[c] # NoThread => parent[c] # c /\ pc[parent[c]] \notin Unborn
  /\ \A t \in Thread : Loading(t) => kid[t] \in Thread /\ pc[kid[t]] = "created"
  /\ \A t, u \in Thread : Loading(t) /\ Loading(u) /\ kid[t] = kid[u] => t = u
  /\ \A t \in Thread : pc[t] # "join"
  /\ \A t \in Thread : childThreads[t] # {} => pc[t] \in {"finish", "end"}

PInv ==
  /\ TypeOK
  /\ machine = "runs" => /\ Scheduled(cpu, pc)
                         /\ Sleepers /\ Waiting /\ Exclusive /\ Family

LEMMA ThreadFacts ==
  /\ Main \in Thread /\ NoThread \notin Thread
  /\ Lock \in Sem /\ Done \in Sem /\ Lock # Done /\ Sem = {Lock, Done}
BY ProcessAssumption, NoThreadAssumption DEF Main

-----------------------------------------------------------------------------
(* The types, also of the step that stops the machine.                        *)
LEMMA CpuTypes ==
  ASSUME cpu \in Cpu, sem \in [Sem -> SemaphoreType]
  PROVE  /\ Now \in Cpu
         /\ \A f \in BOOLEAN : Sleep(Now, f) \in Cpu
         /\ \A t \in Thread : ReadyToRun(Now, t) \in Cpu
         /\ \A s \in Sem : /\ PCpu(sem[s], Now) \in Cpu
                           /\ VCpu(sem[s], Now) \in Cpu /\ VCpu(sem[s], cpu) \in Cpu
                           /\ VSem(sem[s]) \in SemaphoreType
                           /\ \A t \in Thread : PSem(sem[s], t) \in SemaphoreType
<1>1. Now \in Cpu
  BY CheckToBeDestroyedFields DEF Now
<1>2. \A f \in BOOLEAN : Sleep(Now, f) \in Cpu
  BY <1>1, SleepFields
<1>3. ASSUME NEW c \in Cpu, NEW t \in Thread PROVE ReadyToRun(c, t) \in Cpu
  BY ReadyToRunFields
<1>4. ASSUME NEW s \in Sem, NEW c \in Cpu PROVE VCpu(sem[s], c) \in Cpu
  <2>1. sem[s].queue # <<>> => Head(sem[s].queue) \in Thread
    BY DEF SemaphoreType
  <2> QED BY <1>3, <2>1 DEF VCpu, Wakes
<1>5. ASSUME NEW s \in Sem PROVE PCpu(sem[s], Now) \in Cpu
  BY <1>1, <1>2 DEF PCpu
<1>6. ASSUME NEW s \in Sem
      PROVE  VSem(sem[s]) \in SemaphoreType /\ \A t \in Thread : PSem(sem[s], t) \in SemaphoreType
  BY PSemFields, VSemFields
<1> QED BY <1>1, <1>2, <1>3, <1>4, <1>5, <1>6

Machines == {"runs", "queuedTwice", "notInList", "undefined", "stopped"}

LEMMA LoopPTypes ==
  ASSUME TypeOK, NEW t \in Thread, NEW s \in Sem, NEW asleep \in PC, NEW next \in PC,
         NEW p \in [Thread -> PC], LoopP(t, s, asleep, next, p)
  PROVE  /\ cpu' \in Cpu /\ sem' \in [Sem -> SemaphoreType] /\ pc' \in [Thread -> PC]
         /\ machine' \in Machines
<1>1. cpu \in Cpu /\ sem \in [Sem -> SemaphoreType]
  BY DEF TypeOK
<1>2. PCpu(sem[s], Now) \in Cpu /\ PSem(sem[s], t) \in SemaphoreType
  BY <1>1, CpuTypes
<1>3. /\ cpu' = PCpu(sem[s], Now) /\ sem' = [sem EXCEPT ![s] = PSem(@, t)]
      /\ pc' = [p EXCEPT ![t] = IF Available(sem[s]) THEN next ELSE asleep]
      /\ machine' \in Machines
  BY DEF LoopP, AssertNotQueued, Machines
<1> QED BY <1>1, <1>2, <1>3

LEMMA AddPermitTypes ==
  ASSUME TypeOK, NEW s \in Sem, AddPermit(s)
  PROVE  /\ sem' \in [Sem -> SemaphoreType] /\ machine' \in Machines
<1>1. sem \in [Sem -> SemaphoreType] /\ VSem(sem[s]) \in SemaphoreType
  BY CpuTypes DEF TypeOK
<1>2. sem' = [sem EXCEPT ![s] = VSem(@)]
  BY DEF AddPermit
<1>3. machine' \in Machines
  BY DEF AddPermit, AssertNotQueued, Machines
<1> QED BY <1>1, <1>2, <1>3

LEMMA FinishTypes ==
  ASSUME TypeOK, NEW t \in Thread, DoFinish(t)
  PROVE  cpu' \in Cpu /\ pc' \in [Thread -> PC]
<1>1. cpu' = Sleep(Now, TRUE) /\ pc' = [pc EXCEPT ![t] = "end"]
  BY DEF DoFinish, Goto
<1>2. "end" \in PC /\ TRUE \in BOOLEAN /\ Sleep(Now, TRUE) \in Cpu
  BY CpuTypes DEF PC, TypeOK
<1> QED BY <1>1, <1>2 DEF TypeOK

LEMMA InformTypes ==
  ASSUME TypeOK, NEW t \in Thread, Inform(t)
  PROVE  TypeOK'
<1>1. cpu' \in Cpu /\ pc' \in [Thread -> PC]
  BY FinishTypes DEF Inform
<1>2. CASE parent[t] = NoThread
  <2>1. UNCHANGED <<sem, active, after, family, machine>>
    BY <1>2 DEF Inform, family
  <2> QED BY <1>1, <2>1 DEF TypeOK, family
<1>3. CASE parent[t] # NoThread
  <2>1. parent[t] \in Thread
    BY <1>3 DEF TypeOK
  <2>2. /\ finishedChilds' = [finishedChilds EXCEPT ![parent[t]] = @ \cup {t}]
        /\ childThreads' = [childThreads EXCEPT ![parent[t]] = @ \ {t}]
        /\ machine' \in Machines
        /\ UNCHANGED <<sem, active, after, kid, parent, joined, spaceDeleted>>
    BY <1>3 DEF Inform, Machines
  <2>3. finishedChilds' \in [Thread -> SUBSET Thread] /\ childThreads' \in [Thread -> SUBSET Thread]
    BY <2>1, <2>2 DEF TypeOK
  <2> QED BY <1>1, <2>2, <2>3 DEF TypeOK, Machines
<1> QED BY <1>2, <1>3

LEMMA NextTypes == PInv /\ [Next]_vars => TypeOK'
<1> SUFFICES ASSUME PInv, [Next]_vars PROVE TypeOK'
  OBVIOUS
<1>0. /\ TypeOK /\ cpu \in Cpu /\ sem \in [Sem -> SemaphoreType] /\ pc \in [Thread -> PC]
      /\ Lock \in Sem /\ Done \in Sem /\ Main \in Thread
      /\ {"none", "created", "user", "owner", "release", "fork", "exit", "finish", "end",
          "runRoot", "execRoot", "sysForkRoot", "childRoot", "acquire", "io"} \subseteq PC
      /\ "runs" \in Machines /\ "undefined" \in Machines
  BY ThreadFacts DEF PInv, TypeOK, PC, Roots, AsleepLabels, Machines
<1>1. /\ Now \in Cpu
      /\ \A f \in BOOLEAN : Sleep(Now, f) \in Cpu
      /\ \A t \in Thread : ReadyToRun(Now, t) \in Cpu
      /\ \A s \in Sem : VCpu(sem[s], Now) \in Cpu /\ VCpu(sem[s], cpu) \in Cpu
  BY <1>0, CpuTypes
<1>2. ASSUME cpu' \in Cpu, sem' \in [Sem -> SemaphoreType], pc' \in [Thread -> PC],
             machine' \in Machines, active' \in BOOLEAN,
             after' \in [Thread -> {"user", "fork"}], UNCHANGED family
      PROVE  TypeOK'
  BY <1>0, <1>2 DEF TypeOK, family, Machines
<1>3. ASSUME cpu' \in Cpu, pc' \in [Thread -> PC], machine' \in Machines,
             UNCHANGED <<sem, active, after, family>>
      PROVE  TypeOK'
  BY <1>0, <1>2, <1>3 DEF TypeOK
<1>4. machine \in Machines
  BY <1>0 DEF TypeOK, Machines
<1> SUFFICES ASSUME Next PROVE TypeOK'
  <2>1. CASE UNCHANGED vars
    BY <1>0, <1>3, <1>4, <2>1 DEF vars
  <2> QED BY <2>1
<1>5. ASSUME NEW t \in Thread, UseDisk(t) \/ BeginRunUP(t) PROVE TypeOK'
  <2>1. LoopP(t, Lock, "acquire", "owner", pc) /\ after' = [after EXCEPT ![t] = "user"]
        /\ UNCHANGED <<active, family>>
    BY <1>5 DEF UseDisk, BeginRunUP
  <2>2. after' \in [Thread -> {"user", "fork"}] /\ active' \in BOOLEAN
    BY <1>0, <2>1 DEF TypeOK
  <2> QED BY <1>0, <1>2, <2>1, <2>2, LoopPTypes
<1>6. ASSUME NEW t \in Thread, ResumeAcquire(t) \/ Request(t) \/ ResumeIO(t) PROVE TypeOK'
  <2>1. /\ \/ LoopP(t, Lock, "acquire", "owner", pc)
           \/ LoopP(t, Done, "io", "release", pc)
        /\ UNCHANGED <<after, family>> /\ active' \in {active, TRUE}
    BY <1>6 DEF ResumeAcquire, Request, ResumeIO
  <2>2. after' \in [Thread -> {"user", "fork"}] /\ active' \in BOOLEAN
    BY <1>0, <2>1 DEF TypeOK
  <2>3. /\ cpu' \in Cpu /\ sem' \in [Sem -> SemaphoreType] /\ pc' \in [Thread -> PC]
        /\ machine' \in Machines
    BY <1>0, <2>1, LoopPTypes
  <2> QED BY <1>2, <2>1, <2>2, <2>3
<1>7. ASSUME NEW t \in Thread, ReleaseDisk(t) PROVE TypeOK'
  <2>1. sem' \in [Sem -> SemaphoreType] /\ machine' \in Machines
    BY <1>0, <1>7, AddPermitTypes DEF ReleaseDisk
  <2>2. cpu' \in Cpu /\ UNCHANGED <<active, after, family>>
    BY <1>0, <1>1, <1>7 DEF ReleaseDisk
  <2>3. after[t] \in PC /\ pc' = [pc EXCEPT ![t] = after[t]]
    BY <1>0, <1>7 DEF ReleaseDisk, Goto, TypeOK
  <2> QED BY <1>0, <1>2, <2>1, <2>2, <2>3 DEF TypeOK
<1>8. ASSUME NEW t \in Thread, RunMultipleUserProg(t) PROVE TypeOK'
  BY <1>0, <1>1, <1>3, <1>4, <1>8 DEF RunMultipleUserProg, Goto
<1>9. ASSUME NEW t \in Thread, ExecForks(t) PROVE TypeOK'
  <2>1. kid[t] \in Thread
    BY <1>9 DEF ExecForks, Runs, At, PInv, Family, Loading
  <2> QED BY <1>0, <1>1, <1>3, <1>4, <1>9, <2>1 DEF ExecForks
<1>10. ASSUME NEW t \in Thread, ThreadFinish(t) \/ ExitZero(t) \/ (t = Main /\ MainFinishes)
       PROVE  TypeOK'
  <2>1. DoFinish(t) /\ UNCHANGED <<sem, active, after, family, machine>>
    BY <1>10 DEF ThreadFinish, ExitZero, MainFinishes
  <2> QED BY <1>0, <1>3, <1>4, <2>1, FinishTypes
<1>11. ASSUME NEW t \in Thread, BeginChild(t) \/ RunUPStops(t) PROVE TypeOK'
  <2>1. machine' \in Machines /\ UNCHANGED <<cpu, sem, pc, active, after, family>>
    BY <1>11 DEF BeginChild, RunUPStops, Machines
  <2> QED BY <1>0, <1>3, <2>1
<1>12. ASSUME NEW t \in Thread, EnterUser(t) PROVE TypeOK'
  BY <1>0, <1>1, <1>3, <1>4, <1>12 DEF EnterUser, Goto
<1>13. ASSUME NEW t \in Thread, ExitOwn(t) \/ FinishExit(t) PROVE TypeOK'
  BY <1>0, <1>13, InformTypes DEF ExitOwn, FinishExit
<1>14. ASSUME NEW t \in Thread, ExitOwnReadies(t) PROVE TypeOK'
  <2>1. parent[t] \in Thread
    BY <1>0, <1>14 DEF ExitOwnReadies, TypeOK
  <2>2. machine' \in Machines
    BY <1>14 DEF ExitOwnReadies, Machines
  <2> QED BY <1>0, <1>1, <1>3, <1>14, <2>1, <2>2 DEF ExitOwnReadies, Goto
<1>15. ASSUME NEW t \in Thread, ExitOther(t) PROVE TypeOK'
  <2>1. machine' \in Machines /\ spaceDeleted' \in [Thread -> BOOLEAN]
    <3>1. spaceDeleted' = [spaceDeleted EXCEPT ![t] = TRUE] /\ TRUE \in BOOLEAN
      BY <1>15 DEF ExitOther
    <3>2. machine' \in Machines
      BY <1>15 DEF ExitOther, Machines
    <3>3. spaceDeleted \in [Thread -> BOOLEAN]
      BY <1>0 DEF TypeOK
    <3> QED BY <3>1, <3>2, <3>3
  <2> QED BY <1>0, <1>1, <1>15, <2>1 DEF ExitOther, TypeOK, Machines
<1>16. ASSUME NEW t \in Thread, NEW u \in Thread, Exec(t, u) PROVE TypeOK'
  <2>1. [pc EXCEPT ![u] = "created"] \in [Thread -> PC]
    BY <1>0
  <2>2. /\ cpu' \in Cpu /\ sem' \in [Sem -> SemaphoreType] /\ pc' \in [Thread -> PC]
        /\ machine' \in Machines
    BY <1>0, <1>16, <2>1, LoopPTypes DEF Exec
  <2>3. /\ after' = [after EXCEPT ![t] = "fork"] /\ kid' = [kid EXCEPT ![t] = u]
        /\ parent' = [parent EXCEPT ![u] = t] /\ childThreads' = childThreads
        /\ UNCHANGED <<active, finishedChilds, joined, spaceDeleted>>
    BY <1>16 DEF Exec, Register
  <2>4. /\ after' \in [Thread -> {"user", "fork"}]
        /\ kid' \in [Thread -> Thread \cup {NoThread}]
        /\ parent' \in [Thread -> Thread \cup {NoThread}]
    BY <1>0, <2>3 DEF TypeOK
  <2> QED BY <1>0, <2>2, <2>3, <2>4 DEF TypeOK, Machines
<1>17. ASSUME NEW t \in Thread, NEW u \in Thread, ThreadFork(t, u) PROVE TypeOK'
  BY <1>0, <1>1, <1>3, <1>4, <1>17 DEF ThreadFork, Goto
<1>18. ASSUME NEW t \in Thread, NEW u \in Thread, BeginSysFork(t, u) PROVE TypeOK'
  <2>1. cpu' \in Cpu /\ pc' \in [Thread -> PC]
    BY <1>0, <1>1, <1>18 DEF BeginSysFork
  <2>2. /\ parent' = [parent EXCEPT ![u] = t]
        /\ childThreads' = [childThreads EXCEPT ![t] = @ \cup {u}]
        /\ UNCHANGED <<sem, active, after, kid, finishedChilds, joined, spaceDeleted, machine>>
    BY <1>18 DEF BeginSysFork
  <2>3. /\ parent' \in [Thread -> Thread \cup {NoThread}]
        /\ childThreads' \in [Thread -> SUBSET Thread]
    BY <1>0, <2>2 DEF TypeOK
  <2> QED BY <1>0, <2>1, <2>2, <2>3 DEF TypeOK
<1>19. ASSUME NEW t \in Thread, NEW u \in Thread, Join(t, u) PROVE TypeOK'
  <2>1. "join" \in PC /\ FALSE \in BOOLEAN
    BY DEF PC
  <2>2. cpu' \in Cpu /\ pc' \in [Thread -> PC]
    <3>1. \/ cpu' = Sleep(Now, FALSE) /\ pc' = [pc EXCEPT ![t] = "join"]
          \/ cpu' = Now /\ pc' = pc
      BY <1>19 DEF Join, Goto
    <3> QED BY <1>0, <1>1, <2>1, <3>1
  <2>3. /\ joined' = [joined EXCEPT ![t] = u]
        /\ UNCHANGED <<sem, active, after, kid, parent, childThreads, finishedChilds,
                       spaceDeleted, machine>>
    BY <1>19 DEF Join
  <2>4. joined' \in [Thread -> Thread \cup {NoThread}]
    BY <1>0, <2>3 DEF TypeOK
  <2> QED BY <1>0, <2>2, <2>3, <2>4 DEF TypeOK
<1>20. CASE DiskInterrupt
  <2>1. sem' \in [Sem -> SemaphoreType] /\ machine' \in Machines
    BY <1>0, <1>20, AddPermitTypes DEF DiskInterrupt
  <2>2. active' = FALSE /\ UNCHANGED <<pc, after, family>>
    BY <1>20 DEF DiskInterrupt
  <2>3. active' \in BOOLEAN
    BY <2>2
  <2>4. cpu' \in Cpu
    <3> DEFINE c == VCpu(sem[Done], cpu)
    <3>1. c \in Cpu
      BY <1>0, <1>1
    <3>2. RunOrIdle(c, c.finishing) \in Cpu
      BY <3>1, RunOrIdleFields DEF Cpu
    <3> QED BY <1>20, <3>1, <3>2 DEF DiskInterrupt
  <2> QED BY <1>0, <1>2, <2>1, <2>2, <2>3, <2>4 DEF TypeOK
<1>21. CASE Preempt
  <2>1. cpu.ready # <<>> /\ cpu' = Yield(Now) /\ UNCHANGED <<sem, pc, active, after, family, machine>>
    BY <1>21 DEF Preempt
  <2>2. Now.ready # <<>> /\ Now.current \in Thread
    BY <1>0, <1>1, <2>1, CheckToBeDestroyedFields DEF Now, Cpu
  <2>3. ReadyToRun(Now, Now.current) \in Cpu /\ ReadyToRun(Now, Now.current).ready # <<>>
    <3>1. /\ ReadyToRun(Now, Now.current) \in Cpu
          /\ ReadyToRun(Now, Now.current).ready = Append(Now.ready, Now.current)
      BY <1>1, <2>2, ReadyToRunFields
    <3>2. Now.ready \in Seq(Thread)
      BY <1>1 DEF Cpu
    <3>3. Append(Now.ready, Now.current) # <<>>
      BY <2>2, <3>2, AppendFacts
    <3> QED BY <3>1, <3>3
  <2>4. Yield(Now) \in Cpu
    BY <1>1, <2>2, <2>3, YieldIsReadyThenRun, RunFrontFields
  <2> QED BY <1>0, <1>3, <1>4, <2>1, <2>4
<1>22. ASSUME NEW t \in Thread, NEW u \in Thread, ExecUnopened(t, u) PROVE TypeOK'
  <2>1. cpu' \in Cpu /\ pc' \in [Thread -> PC]
    BY <1>0, <1>1, <1>22 DEF ExecUnopened, Goto
  <2>2. /\ parent' = [parent EXCEPT ![u] = t]
        /\ UNCHANGED <<sem, active, after, kid, childThreads, finishedChilds, joined,
                       spaceDeleted, machine>>
    BY <1>22 DEF ExecUnopened, Register
  <2>3. parent' \in [Thread -> Thread \cup {NoThread}]
    BY <1>0, <2>2 DEF TypeOK
  <2> QED BY <1>0, <2>1, <2>2, <2>3 DEF TypeOK
<1> QED BY <1>0, <1>5, <1>6, <1>7, <1>8, <1>9, <1>10, <1>11, <1>12, <1>13, <1>14, <1>15, <1>16,
           <1>17, <1>18, <1>19, <1>20, <1>21, <1>22 DEF Next

-----------------------------------------------------------------------------
(* What a step does that evaluates the loop of P while the machine runs: it   *)
(* takes a permit, or the thread is the last on the queue and sleeps.  p is   *)
(* pc, but for a thread that Exec constructs in the same step.                *)
LEMMA LoopPFacts ==
  ASSUME TypeOK, Scheduled(cpu, pc), ~Idling(cpu),
         NEW t \in Thread, t = cpu.current, NEW s \in Sem, NEW p, Scheduled(Now, p),
         NEW asleep \in PC, asleep \notin Unborn \cup {"end"},
         NEW next \in PC, next \notin Unborn \cup {"end"},
         LoopP(t, s, asleep, next, p), machine' = "runs"
  PROVE  /\ Scheduled(cpu', pc')
         /\ \A r \in Sem \ {s} : sem'[r] = sem[r]
         /\ \A u \in Thread \ {t} : pc'[u] = p[u]
         /\ \A u \in Thread \ {t} : cpu'.status[u] = "BLOCKED" <=> Now.status[u] = "BLOCKED"
         /\ sem[s].value # 0 => /\ sem'[s].value = sem[s].value - 1
                                /\ sem'[s].queue = sem[s].queue
                                /\ pc'[t] = next /\ cpu'.status[t] # "BLOCKED"
         /\ sem[s].value = 0 => /\ sem'[s].value = 0
                                /\ sem'[s].queue = Append(sem[s].queue, t)
                                /\ t \notin Range(sem[s].queue)
                                /\ pc'[t] = asleep /\ cpu'.status[t] = "BLOCKED"
<1>1. /\ machine' = IF Available(sem[s]) \/ t \notin Range(sem[s].queue)
                    THEN "runs" ELSE "queuedTwice"
      /\ sem' = [sem EXCEPT ![s] = PSem(@, t)]
      /\ cpu' = PCpu(sem[s], Now)
      /\ pc' = [p EXCEPT ![t] = IF Available(sem[s]) THEN next ELSE asleep]
  BY DEF LoopP, AssertNotQueued
<1>2. /\ sem \in [Sem -> SemaphoreType] /\ sem[s] \in SemaphoreType /\ p \in [Thread -> PC]
      /\ ~Idling(Now) /\ Now.current = t /\ Now.carcass = NoThread
      /\ Now.status[t] = "RUNNING"
  BY NowKeeps, CurrentRuns DEF TypeOK, Scheduled, Lists
<1>3. /\ \A r \in Sem \ {s} : sem'[r] = sem[r]
      /\ sem'[s] = PSem(sem[s], t)
      /\ \A u \in Thread \ {t} : pc'[u] = p[u]
      /\ pc'[t] = IF Available(sem[s]) THEN next ELSE asleep
  BY <1>1, <1>2
<1>4. CASE sem[s].value # 0
  <2>1. Available(sem[s])
    BY <1>4 DEF Available
  <2>2. cpu' = Now /\ pc' = [p EXCEPT ![Now.current] = next]
    BY <1>1, <1>2, <2>1 DEF PCpu
  <2>3. Scheduled(cpu', pc')
    BY <1>2, <2>2, MoveKeeps
  <2>4. sem'[s].value = sem[s].value - 1 /\ sem'[s].queue = sem[s].queue
    BY <1>2, <1>3, <2>1, PSemFields
  <2> QED BY <1>2, <1>3, <1>4, <2>1, <2>2, <2>3, <2>4
<1>5. CASE sem[s].value = 0
  <2>1. ~Available(sem[s])
    BY <1>5 DEF Available
  <2>2. /\ cpu' = Sleep(Now, FALSE) /\ pc' = [p EXCEPT ![Now.current] = asleep]
        /\ t \notin Range(sem[s].queue)
    BY <1>1, <1>2, <2>1 DEF PCpu
  <2>3. /\ Scheduled(cpu', pc') /\ cpu'.status[t] = "BLOCKED"
        /\ \A u \in Thread \ {t} : cpu'.status[u] = "BLOCKED" <=> Now.status[u] = "BLOCKED"
    BY <1>2, <2>2, SleepKeeps
  <2>4. sem'[s].value = sem[s].value /\ sem'[s].queue = Append(sem[s].queue, t)
    BY <1>2, <1>3, <2>1, PSemFields
  <2> QED BY <1>2, <1>3, <1>5, <2>1, <2>2, <2>3, <2>4
<1> QED BY <1>4, <1>5

(* V while the machine runs: the front of the queue, which may be a thread    *)
(* that a child has readied, does sleep.                                      *)
LEMMA AddPermitFacts ==
  ASSUME TypeOK, Scheduled(cpu, pc), NEW s \in Sem, AddPermit(s), machine' = "runs",
         \A u \in Range(sem[s].queue) : pc[u] \notin Unborn
  PROVE  /\ \A r \in Sem \ {s} : sem'[r] = sem[r]
         /\ sem'[s].value = sem[s].value + 1
         /\ sem[s].queue = <<>> => sem'[s].queue = <<>>
         /\ sem[s].queue # <<>> =>
              /\ Head(sem[s].queue) \in Thread /\ Head(sem[s].queue) \in Range(sem[s].queue)
              /\ sem'[s].queue = Tail(sem[s].queue)
              /\ cpu.status[Head(sem[s].queue)] = "BLOCKED" /\ pc[Head(sem[s].queue)] # "end"
<1> DEFINE h == Head(sem[s].queue)
<1>1. /\ sem \in [Sem -> SemaphoreType] /\ sem[s] \in SemaphoreType
      /\ sem[s].queue \in Seq(Thread)
      /\ sem' = [sem EXCEPT ![s] = VSem(@)]
  BY DEF TypeOK, AddPermit, SemaphoreType
<1>2. /\ \A r \in Sem \ {s} : sem'[r] = sem[r]
      /\ sem'[s] = VSem(sem[s])
  BY <1>1
<1>3. ASSUME sem[s].queue # <<>>
      PROVE  h \in Thread /\ h \in Range(sem[s].queue) /\ cpu.status[h] = "BLOCKED" /\ pc[h] # "end"
  <2>1. h \in Thread /\ h \in Range(sem[s].queue) /\ pc[h] \notin Unborn
    BY <1>1, <1>3, TailFacts
  <2>2. ~RunsOrEnded(h) /\ ~OnReadyList(h)
    BY <1>3 DEF AddPermit, AssertNotQueued, Wakes
  <2>3. /\ pc[h] # "end" /\ cpu.status[h] # "READY" /\ cpu.status[h] # "JUST_CREATED"
        /\ cpu.status[h] # "DELETED"
    BY <2>1, <2>2 DEF RunsOrEnded, OnReadyList, Scheduled, Lists
  <2>4. cpu.status[h] # "RUNNING"
    BY <2>1, <2>2 DEF RunsOrEnded, Idling, Scheduled, Lists
  <2>5. cpu.status[h] \in Status
    BY <2>1 DEF TypeOK, Cpu
  <2> QED BY <2>1, <2>3, <2>4, <2>5 DEF Status
<1> QED BY <1>1, <1>2, <1>3, VSemFields

-----------------------------------------------------------------------------
(* The steps that do not touch the disk or its semaphores keep what is said   *)
(* of them, when nobody falls asleep who goes on later, nobody wakes but by   *)
(* a child in Exit_P, and nobody enters or leaves the disk.                   *)
Quiet ==
  /\ sem' = sem /\ active' = active
  /\ \A t \in Thread : cpu'.status[t] = "BLOCKED" /\ pc'[t] # "end" =>
       cpu.status[t] = "BLOCKED" /\ pc'[t] = pc[t]
  /\ \A t \in Thread : cpu.status[t] = "BLOCKED" /\ pc[t] # "end" =>
       (cpu'.status[t] = "BLOCKED" /\ pc'[t] = pc[t]) \/ Readied(t)'
  /\ \A t \in Thread : Readied(t) => Readied(t)'
  /\ \A t \in Thread : pc[t] \in Holding \/ pc'[t] \in Holding => pc'[t] = pc[t]

(* Who waits for the disk's interrupt is the thread that has the disk.        *)
LEMMA DoneQueue ==
  ASSUME TypeOK, Exclusive, NEW t \in Range(sem[Done].queue)
  PROVE  t \in Thread /\ pc[t] = "io" /\ sem[Done].queue = <<t>>
<1>1. sem[Done].queue # <<>>
  BY DEF Range
<1>2. PICK o \in Thread : pc[o] = "io"
  BY <1>1 DEF Exclusive
<1>3. sem[Done].queue = <<o>>
  BY <1>1, <1>2 DEF Exclusive
<1>4. t = o
  BY <1>3 DEF Range
<1> QED BY <1>2, <1>3, <1>4

LEMMA QuietKeeps ==
  ASSUME TypeOK, Sleepers, Waiting, Exclusive, Quiet
  PROVE  Sleepers' /\ Waiting' /\ Exclusive'
<1>0. \A s \in Sem : Range(sem[s].queue) \subseteq Thread
  BY DEF TypeOK, SemaphoreType, Range
<1>1. Lock \in Sem /\ Done \in Sem
  BY ThreadFacts
<1>2. Sleepers'
  BY DEF Quiet, Sleepers
<1>3. Waiting'
  <2>1. \A t \in Range(sem[Lock].queue) :
          (cpu'.status[t] = "BLOCKED" /\ pc'[t] = "acquire") \/ Readied(t)'
    BY <1>0, <1>1 DEF Quiet, Waiting
  <2>2. \A t \in Range(sem[Done].queue) : cpu'.status[t] = "BLOCKED" \/ Readied(t)'
    BY <1>0, <1>1, DoneQueue DEF Quiet, Waiting
  <2> QED BY <2>1, <2>2 DEF Quiet, Waiting, Readied
<1>4. Exclusive'
  <2>1. /\ \A t \in Thread : pc'[t] \in Holding <=> pc[t] \in Holding
        /\ \A t \in Thread : pc'[t] = "io" <=> pc[t] = "io"
    BY DEF Quiet, Holding
  <2> QED BY <2>1 DEF Quiet, Exclusive
<1> QED BY <1>2, <1>3, <1>4

(* And those that do not change the family's records keep what is said of it. *)
LEMMA FamilyKeeps ==
  ASSUME Family, UNCHANGED <<kid, parent, childThreads>>,
         TypeOK,
         \A t \in Thread : /\ pc[t] = "childRoot" => pc'[t] = "childRoot"
                           /\ pc[t] \notin Unborn => pc'[t] \notin Unborn
                           /\ pc[t] \in {"finish", "end"} => pc'[t] \in {"finish", "end"}
                           /\ pc'[t] # "join"
                           /\ Loading(t)' => Loading(t) /\ pc'[kid[t]] = pc[kid[t]]
  PROVE  Family'
<1>1. /\ \A t \in Thread : \A c \in childThreads'[t] : pc'[c] = "childRoot"
      /\ \A t \in Thread : childThreads'[t] # {} => pc'[t] \in {"finish", "end"}
  BY DEF Family, TypeOK
<1>2. \A c \in Thread : parent'[c] # NoThread => parent'[c] # c /\ pc'[parent'[c]] \notin Unborn
  BY DEF Family, TypeOK
<1>3. /\ \A t \in Thread : Loading(t)' => kid'[t] \in Thread /\ pc'[kid'[t]] = "created"
      /\ \A t, u \in Thread : Loading(t)' /\ Loading(u)' /\ kid'[t] = kid'[u] => t = u
  BY DEF Family
<1> QED BY <1>1, <1>2, <1>3 DEF Family, Loading

-----------------------------------------------------------------------------
(* P on the disk's lock, by a thread that does not have the disk.             *)
LEMMA LockKeeps ==
  ASSUME TypeOK, Scheduled(cpu, pc), Sleepers, Waiting, Exclusive, ~Idling(cpu),
         NEW t \in Thread, t = cpu.current, pc[t] \notin Holding,
         NEW p, Scheduled(Now, p),
         \A u \in Thread : p[u] = pc[u] \/ (pc[u] = "none" /\ p[u] = "created"),
         LoopP(t, Lock, "acquire", "owner", p), machine' = "runs", active' = active,
         \A u \in Thread : Readied(u) => Readied(u)'
  PROVE  Scheduled(cpu', pc') /\ Sleepers' /\ Waiting' /\ Exclusive'
<1> DEFINE q == sem[Lock].queue
<1>0. /\ Lock \in Sem /\ Done \in Sem /\ Done # Lock
      /\ {"acquire", "owner"} \subseteq PC /\ "acquire" \notin Unborn /\ "owner" \notin Unborn
      /\ q \in Seq(Thread) /\ Range(q) \subseteq Thread
      /\ sem[Lock].value \in Nat
  BY ThreadFacts DEF PC, AsleepLabels, Unborn, TypeOK, SemaphoreType, Range
<1>1. /\ Scheduled(cpu', pc')
      /\ sem'[Done] = sem[Done]
      /\ \A u \in Thread \ {t} : pc'[u] = p[u]
      /\ \A u \in Thread \ {t} : cpu'.status[u] = "BLOCKED" <=> Now.status[u] = "BLOCKED"
      /\ sem[Lock].value # 0 => /\ sem'[Lock].value = sem[Lock].value - 1
                                /\ sem'[Lock].queue = q
                                /\ pc'[t] = "owner" /\ cpu'.status[t] # "BLOCKED"
      /\ sem[Lock].value = 0 => /\ sem'[Lock].value = 0
                                /\ sem'[Lock].queue = Append(q, t)
                                /\ t \notin Range(q)
                                /\ pc'[t] = "acquire" /\ cpu'.status[t] = "BLOCKED"
  BY <1>0, LoopPFacts
<1>2. /\ cpu.status[t] = "RUNNING"
      /\ \A u \in Thread : pc[u] # "end" => Now.status[u] = cpu.status[u]
      /\ \A u \in Thread : pc[u] = "end" => Now.status[u] = "DELETED"
      /\ \A u \in Thread : pc[u] = "none" => cpu.status[u] = "JUST_CREATED"
  BY CurrentRuns, NowKeeps DEF Scheduled, Lists, Unborn
<1>3. \A u \in Thread \ {t} : cpu'.status[u] = "BLOCKED" =>
        cpu.status[u] = "BLOCKED" /\ pc[u] # "end" /\ pc'[u] = pc[u]
  BY <1>1, <1>2
<1>4. \A u \in Thread \ {t} : cpu.status[u] = "BLOCKED" /\ pc[u] # "end" =>
        cpu'.status[u] = "BLOCKED" /\ pc'[u] = pc[u]
  BY <1>1, <1>2
<1>5. \A u \in Thread \ {t} : /\ pc'[u] \in Holding <=> pc[u] \in Holding
                              /\ pc'[u] = "io" <=> pc[u] = "io"
  BY <1>1 DEF Holding
<1>6. \A u \in Range(sem[Done].queue) :
        u \in Thread /\ (cpu'.status[u] = "BLOCKED" \/ Readied(u)')
  BY <1>2, <1>4, DoneQueue DEF Waiting, Holding
<1>7. \A u \in Range(q) : (cpu'.status[u] = "BLOCKED" /\ pc'[u] = "acquire") \/ Readied(u)'
  BY <1>0, <1>2, <1>4 DEF Waiting
<1>8. CASE sem[Lock].value = 0
  <2>1. /\ sem'[Lock].queue = Append(q, t) /\ sem'[Lock].value = 0
        /\ t \notin Range(q) /\ pc'[t] = "acquire" /\ cpu'.status[t] = "BLOCKED"
    BY <1>1, <1>8
  <2>2. Range(Append(q, t)) = Range(q) \cup {t} /\ IsInjective(Append(q, t))
    BY <1>0, <2>1, AppendFacts DEF Waiting
  <2>3. Sleepers'
    BY <1>1, <1>3, <2>1, <2>2 DEF Sleepers
  <2>4. Waiting'
    BY <1>1, <1>6, <1>7, <2>1, <2>2 DEF Waiting, Readied
  <2>5. Exclusive'
    BY <1>1, <1>5, <1>8, <2>1 DEF Exclusive, Holding
  <2> QED BY <1>1, <2>3, <2>4, <2>5
<1>9. CASE sem[Lock].value # 0
  <2>1. /\ sem'[Lock].queue = q /\ sem'[Lock].value = sem[Lock].value - 1
        /\ pc'[t] = "owner" /\ cpu'.status[t] # "BLOCKED"
    BY <1>1, <1>9
  <2>2. sem'[Lock].value = 0 /\ \A u \in Thread : pc[u] \notin Holding
    BY <1>9, <2>1 DEF Exclusive
  <2>3. Sleepers'
    BY <1>1, <1>3, <2>1 DEF Sleepers
  <2>4. Waiting'
    BY <1>1, <1>6, <1>7, <2>1 DEF Waiting, Readied
  <2>5. Exclusive'
    BY <1>1, <1>5, <2>1, <2>2 DEF Exclusive, Holding
  <2> QED BY <1>1, <2>3, <2>4, <2>5
<1> QED BY <1>8, <1>9

(* The owner's request, and its return from the wait for it.                  *)
LEMMA DoneKeeps ==
  ASSUME TypeOK, Scheduled(cpu, pc), Sleepers, Waiting, Exclusive,
         NEW t \in Thread, Request(t) \/ ResumeIO(t), machine' = "runs"
  PROVE  /\ Scheduled(cpu', pc') /\ Sleepers' /\ Waiting' /\ Exclusive'
         /\ pc'[t] \in {"io", "release"} /\ \A u \in Thread \ {t} : pc'[u] = pc[u]
<1> DEFINE q == sem[Done].queue
<1>0. /\ Lock \in Sem /\ Done \in Sem /\ Done # Lock
      /\ {"io", "release"} \subseteq PC /\ "io" \notin Unborn /\ "release" \notin Unborn
      /\ Range(sem[Lock].queue) \subseteq Thread
  BY ThreadFacts DEF PC, AsleepLabels, Unborn, TypeOK, SemaphoreType, Range
<1>1. /\ t = cpu.current /\ ~Idling(cpu)
      /\ LoopP(t, Done, "io", "release", pc) /\ UNCHANGED family
      /\ \/ pc[t] = "owner" /\ active' = TRUE
         \/ pc[t] = "io" /\ active' = active
  BY DEF Request, ResumeIO, Runs, At
<1>2. Scheduled(Now, pc) /\ cpu.status[t] = "RUNNING"
  BY <1>1, NowKeeps, CurrentRuns
<1>3. /\ Scheduled(cpu', pc')
      /\ sem'[Lock] = sem[Lock]
      /\ \A u \in Thread \ {t} : pc'[u] = pc[u]
      /\ \A u \in Thread \ {t} : cpu'.status[u] = "BLOCKED" <=> Now.status[u] = "BLOCKED"
      /\ sem[Done].value # 0 => /\ sem'[Done].value = sem[Done].value - 1
                                /\ sem'[Done].queue = q
                                /\ pc'[t] = "release" /\ cpu'.status[t] # "BLOCKED"
      /\ sem[Done].value = 0 => /\ sem'[Done].value = 0
                                /\ sem'[Done].queue = Append(q, t)
                                /\ t \notin Range(q)
                                /\ pc'[t] = "io" /\ cpu'.status[t] = "BLOCKED"
  BY <1>0, <1>1, <1>2, LoopPFacts
<1>4. /\ pc[t] \in Holding /\ sem[Lock].value = 0
      /\ \A u \in Thread \ {t} : pc[u] \notin Holding
  BY <1>1 DEF Exclusive, Holding
<1>5. \A u \in Thread \ {t} : cpu'.status[u] = "BLOCKED" =>
        cpu.status[u] = "BLOCKED" /\ pc[u] # "end" /\ pc'[u] = pc[u]
  BY <1>1, <1>3, NowKeeps
<1>6. \A u \in Thread : Readied(u) => Readied(u)'
  <2>1. pc[t] # "exit" /\ parent' = parent
    BY <1>1 DEF family
  <2> QED BY <1>3, <2>1 DEF Readied
<1>7. \A u \in Range(sem[Lock].queue) : (cpu'.status[u] = "BLOCKED" /\ pc'[u] = "acquire") \/ Readied(u)'
  BY <1>0, <1>1, <1>2, <1>3, <1>6, NowKeeps DEF Waiting
<1>8. CASE pc[t] = "owner"
  <2>1. sem[Done].value = 0 /\ q = <<>> /\ active' = TRUE
    BY <1>1, <1>4, <1>8 DEF Exclusive, Holding
  <2>2. /\ sem'[Done].value = 0 /\ sem'[Done].queue = <<t>>
        /\ pc'[t] = "io" /\ cpu'.status[t] = "BLOCKED"
    BY <1>3, <2>1
  <2>3. Range(<<t>>) = {t}
    BY DEF Range
  <2>4. Sleepers'
    BY <1>3, <1>4, <1>5, <2>2, <2>3 DEF Sleepers, Holding
  <2>5. Waiting'
    BY <1>3, <1>7, <2>2, <2>3 DEF Waiting, Readied
  <2>6. Exclusive'
    BY <1>3, <1>4, <2>1, <2>2 DEF Exclusive, Holding
  <2> QED BY <1>3, <2>2, <2>4, <2>5, <2>6
<1>9. CASE pc[t] = "io"
  <2>1. Range(<<t>>) = {t} /\ Range(<<>>) = {}
    BY DEF Range
  <2>2. ~active /\ active' = active
    BY <1>1, <1>3, <1>9, <2>1 DEF Exclusive
  <2>3. sem[Done].value = 1 /\ q = <<>>
    BY <1>9, <2>2 DEF Exclusive
  <2>4. /\ sem'[Done].value = 0 /\ sem'[Done].queue = <<>>
        /\ pc'[t] = "release" /\ cpu'.status[t] # "BLOCKED"
    BY <1>3, <2>3
  <2>5. Sleepers'
    BY <1>3, <1>5, <2>4 DEF Sleepers
  <2>6. Waiting'
    BY <1>3, <1>7, <2>1, <2>4 DEF Waiting, Readied
  <2>7. Exclusive'
    BY <1>3, <1>4, <2>2, <2>4 DEF Exclusive, Holding
  <2> QED BY <1>3, <2>4, <2>5, <2>6, <2>7
<1> QED BY <1>1, <1>8, <1>9

(* Release, which readies the next in the queue of the lock.                  *)
LEMMA ReleaseKeeps ==
  ASSUME TypeOK, Scheduled(cpu, pc), Sleepers, Waiting, Exclusive, Family,
         NEW t \in Thread, ReleaseDisk(t), machine' = "runs"
  PROVE  /\ Scheduled(cpu', pc') /\ Sleepers' /\ Waiting' /\ Exclusive'
         /\ pc'[t] = after[t] /\ \A u \in Thread \ {t} : pc'[u] = pc[u]
<1> DEFINE q == sem[Lock].queue
           h == Head(q)
<1>0. /\ Lock \in Sem /\ Done \in Sem /\ Done # Lock
      /\ q \in Seq(Thread) /\ Range(q) \subseteq Thread
      /\ sem[Lock].value \in Nat
  BY ThreadFacts DEF TypeOK, SemaphoreType, Range
<1>1. /\ t = cpu.current /\ ~Idling(cpu) /\ pc[t] = "release"
      /\ AddPermit(Lock) /\ cpu' = VCpu(sem[Lock], Now)
      /\ pc' = [pc EXCEPT ![t] = after[t]]
      /\ UNCHANGED <<active, after, family>>
  BY DEF ReleaseDisk, Runs, At, Goto
<1>2. /\ after[t] \in {"user", "fork"} /\ after[t] \in PC
      /\ after[t] \notin Unborn \cup {"end"} \cup Holding
  BY DEF TypeOK, PC, Unborn, Holding
<1>3. pc'[t] = after[t] /\ \A u \in Thread \ {t} : pc'[u] = pc[u]
  BY <1>1 DEF TypeOK
<1>4. \A u \in Range(q) : pc[u] \notin Unborn
  <2> SUFFICES ASSUME NEW u \in Range(q) PROVE pc[u] \notin Unborn
    OBVIOUS
  <2>1. u \in Thread /\ u # NoThread
    BY <1>0, ThreadFacts
  <2>2. CASE pc[u] = "acquire"
    BY <2>2 DEF Unborn
  <2>3. CASE Readied(u)
    BY <2>1, <2>3 DEF Readied, Family
  <2> QED BY <2>2, <2>3 DEF Waiting
<1>5. /\ sem'[Done] = sem[Done] /\ sem'[Lock].value = sem[Lock].value + 1
      /\ q = <<>> => sem'[Lock].queue = <<>>
      /\ q # <<>> => /\ h \in Thread /\ h \in Range(q) /\ sem'[Lock].queue = Tail(q)
                     /\ cpu.status[h] = "BLOCKED" /\ pc[h] # "end"
  BY <1>0, <1>1, <1>4, AddPermitFacts
<1>6. /\ Scheduled(Now, pc) /\ ~Idling(Now) /\ Now.current = t /\ cpu.status[t] = "RUNNING"
      /\ \A u \in Thread : pc[u] # "end" => Now.status[u] = cpu.status[u]
      /\ \A u \in Thread : pc[u] = "end" => Now.status[u] = "DELETED"
      /\ Now.status \in [Thread -> Status]
  BY <1>1, NowKeeps, CurrentRuns DEF Scheduled, Lists, Cpu
<1>7. Scheduled(Now, pc')
  BY <1>1, <1>2, <1>6, MoveKeeps
<1>8. /\ sem[Lock].value = 0 /\ \A u \in Thread \ {t} : pc[u] \notin Holding
  BY <1>1 DEF Exclusive, Holding
<1>9. /\ Scheduled(cpu', pc')
      /\ \A u \in Thread : cpu'.status[u] = "BLOCKED" <=>
           Now.status[u] = "BLOCKED" /\ ~(q # <<>> /\ u = h)
  <2>1. CASE q = <<>>
    <3>1. cpu' = Now
      BY <1>1, <2>1 DEF VCpu, Wakes
    <3> QED BY <1>7, <2>1, <3>1
  <2>2. CASE q # <<>>
    <3>1. cpu' = ReadyToRun(Now, h)
      BY <1>1, <2>2 DEF VCpu, Wakes
    <3>2. Now.status[h] = "BLOCKED" /\ pc'[h] # "end" /\ h \in Thread
      BY <1>2, <1>3, <1>5, <1>6, <2>2
    <3>3. Scheduled(cpu', pc') /\ cpu'.status = [Now.status EXCEPT ![h] = "READY"]
      BY <1>6, <1>7, <3>1, <3>2, WakeKeeps
    <3> QED BY <1>6, <2>2, <3>2, <3>3
  <2> QED BY <2>1, <2>2
<1>10. /\ IsInjective(sem'[Lock].queue)
       /\ Range(sem'[Lock].queue) = IF q = <<>> THEN {} ELSE Range(q) \ {h}
  <2>1. CASE q = <<>>
    <3>1. sem'[Lock].queue = <<>> /\ Range(<<>>) = {}
      BY <1>5, <2>1 DEF Range
    <3> QED BY <2>1, <3>1 DEF Waiting
  <2>2. CASE q # <<>>
    BY <1>0, <1>5, <2>2, TailFacts DEF Waiting
  <2> QED BY <2>1, <2>2
<1> HIDE DEF q, h
<1>11. \A u \in Thread : Readied(u) => Readied(u)'
  <2>1. pc[t] # "exit" /\ parent' = parent
    BY <1>1 DEF family
  <2> QED BY <1>3, <2>1 DEF Readied
<1>12. \A u \in Range(sem[Done].queue) : u \in Thread /\ pc[u] = "io"
  BY DoneQueue
<1>13. \A u \in Thread : pc[u] # "io"
  BY <1>1, <1>8 DEF Holding
<1>14. Sleepers'
  <2> SUFFICES ASSUME NEW u \in Thread, cpu'.status[u] = "BLOCKED", pc'[u] # "end"
               PROVE  pc'[u] = "acquire" /\ u \in Range(sem'[Lock].queue)
    BY DEF Sleepers
  <2>1. u # t
    BY <1>6, <1>9
  <2>2. cpu.status[u] = "BLOCKED" /\ pc'[u] = pc[u] /\ ~(q # <<>> /\ u = h)
    BY <1>3, <1>6, <1>9, <2>1
  <2>3. pc[u] = "acquire" /\ u \in Range(q)
    BY <1>13, <2>2 DEF Sleepers, q
  <2>4. q # <<>>
    BY <2>3 DEF Range
  <2> QED BY <1>10, <2>2, <2>3, <2>4
<1>15. Waiting'
  <2>1. ASSUME NEW u \in Range(sem'[Lock].queue)
        PROVE  (cpu'.status[u] = "BLOCKED" /\ pc'[u] = "acquire") \/ Readied(u)'
    <3>1. u \in Range(q) /\ ~(q # <<>> /\ u = h) /\ u \in Thread
      BY <1>0, <1>10, <2>1
    <3>2. CASE Readied(u)
      BY <1>11, <3>1, <3>2
    <3>3. CASE cpu.status[u] = "BLOCKED" /\ pc[u] = "acquire"
      BY <1>1, <1>3, <1>6, <1>9, <3>1, <3>3
    <3> QED BY <3>1, <3>2, <3>3 DEF Waiting, q
  <2>2. \A u \in Range(sem'[Done].queue) : FALSE
    BY <1>5, <1>12, <1>13
  <2> QED BY <1>10, <2>1, <2>2 DEF Waiting, Readied
<1>16. Exclusive'
  <2>1. sem'[Lock].value = 1 /\ \A u \in Thread : pc'[u] \notin Holding
    BY <1>2, <1>3, <1>5, <1>8
  <2>2. sem'[Done].value = 0 /\ sem'[Done].queue = <<>> /\ ~active'
    BY <1>1, <1>5, <1>13 DEF Exclusive
  <2>3. \A u \in Thread : pc'[u] # "io"
    BY <2>1 DEF Holding
  <2> QED BY <2>1, <2>2, <2>3 DEF Exclusive
<1> QED BY <1>3, <1>9, <1>14, <1>15, <1>16

(* The disk's interrupt wakes the thread whose request is over.               *)
LEMMA InterruptKeeps ==
  ASSUME TypeOK, Scheduled(cpu, pc), Sleepers, Waiting, Exclusive,
         DiskInterrupt, machine' = "runs"
  PROVE  Scheduled(cpu', pc') /\ Sleepers' /\ Waiting' /\ Exclusive'
<1> DEFINE c == VCpu(sem[Done], cpu)
<1>0. /\ Lock \in Sem /\ Done \in Sem /\ Done # Lock
      /\ Range(sem[Lock].queue) \subseteq Thread
      /\ cpu \in Cpu
  BY ThreadFacts DEF TypeOK, SemaphoreType, Range
<1>1. /\ active /\ active' = FALSE /\ AddPermit(Done) /\ pc' = pc /\ UNCHANGED family
      /\ cpu' = IF Idling(cpu) THEN RunOrIdle(c, c.finishing) ELSE c
  BY DEF DiskInterrupt
<1>2. PICK o \in Thread : pc[o] = "io"
  BY <1>1 DEF Exclusive
<1>3. /\ sem[Done].value = 0 /\ sem[Done].queue = <<o>>
      /\ sem[Lock].value = 0 /\ \A u \in Thread \ {o} : pc[u] \notin Holding
  BY <1>1, <1>2 DEF Exclusive, Holding
<1>4. Range(<<o>>) = {o} /\ Range(<<>>) = {} /\ Head(<<o>>) = o /\ Tail(<<o>>) = <<>>
      /\ <<o>> # <<>>
  BY DEF Range
<1>5. \A u \in Range(sem[Done].queue) : pc[u] \notin Unborn
  BY <1>2, <1>3, <1>4 DEF Unborn
<1>6. /\ sem'[Lock] = sem[Lock] /\ sem'[Done].value = sem[Done].value + 1
      /\ sem'[Done].queue = Tail(<<o>>)
      /\ cpu.status[o] = "BLOCKED" /\ pc[o] # "end"
  <2>1. /\ \A r \in Sem \ {Done} : sem'[r] = sem[r]
        /\ sem'[Done].value = sem[Done].value + 1
        /\ sem'[Done].queue = Tail(sem[Done].queue)
        /\ cpu.status[Head(sem[Done].queue)] = "BLOCKED" /\ pc[Head(sem[Done].queue)] # "end"
    <3>1. Done \in Sem /\ AddPermit(Done) /\ sem[Done].queue # <<>>
      BY <1>0, <1>1, <1>3, <1>4
    <3> QED BY <1>5, <3>1, AddPermitFacts
  <2> QED BY <1>0, <1>3, <1>4, <2>1
<1>7. c = ReadyToRun(cpu, o) /\ c.finishing = cpu.finishing
  <2>1. c = ReadyToRun(cpu, o)
    BY <1>3, <1>4 DEF VCpu, Wakes
  <2> QED BY <1>0, <2>1, ReadyToRunFields
<1>8. /\ Scheduled(cpu', pc')
      /\ \A u \in Thread : cpu'.status[u] = "BLOCKED" <=> cpu.status[u] = "BLOCKED" /\ u # o
  <2>1. CASE Idling(cpu)
    BY <1>1, <1>6, <1>7, <2>1, IdleWakeKeeps
  <2>2. CASE ~Idling(cpu)
    <3>1. Scheduled(cpu', pc') /\ cpu'.status = [cpu.status EXCEPT ![o] = "READY"]
      BY <1>1, <1>6, <1>7, <2>2, WakeKeeps
    <3>2. cpu.status \in [Thread -> Status]
      BY <1>0 DEF Cpu
    <3> QED BY <3>1, <3>2
  <2> QED BY <2>1, <2>2
<1> HIDE DEF c
<1>9. Sleepers'
  BY <1>0, <1>1, <1>2, <1>3, <1>4, <1>6, <1>8 DEF Sleepers
<1>10. \A u \in Thread : Readied(u)' <=> Readied(u)
  BY <1>1 DEF Readied, family
<1>11. Waiting'
  <2>1. \A u \in Range(sem'[Lock].queue) :
          (cpu'.status[u] = "BLOCKED" /\ pc'[u] = "acquire") \/ Readied(u)'
    BY <1>0, <1>1, <1>2, <1>6, <1>8, <1>10 DEF Waiting
  <2>2. \A u \in Range(sem'[Done].queue) : FALSE
    BY <1>4, <1>6
  <2> QED BY <1>6, <2>1, <2>2 DEF Waiting, Readied
<1>12. Exclusive'
  BY <1>1, <1>2, <1>3, <1>4, <1>6 DEF Exclusive, Holding
<1> QED BY <1>8, <1>9, <1>11, <1>12

-----------------------------------------------------------------------------
(* The shapes of the other steps.  The running thread t goes on at l,         *)
LEMMA GoesOnKeeps ==
  ASSUME TypeOK, Scheduled(cpu, pc), ~Idling(cpu), NEW t \in Thread, t = cpu.current,
         pc[t] \notin Holding, NEW l \in PC, l \notin Unborn \cup {"end"} \cup Holding,
         cpu' = Now, pc' = [pc EXCEPT ![t] = l], sem' = sem, active' = active,
         \A u \in Thread : Readied(u) => Readied(u)'
  PROVE  Scheduled(cpu', pc') /\ Quiet
<1>1. /\ Scheduled(Now, pc) /\ ~Idling(Now) /\ Now.current = t /\ cpu.status[t] = "RUNNING"
      /\ pc[t] \notin Unborn \cup {"end"}
      /\ \A u \in Thread : pc[u] # "end" => Now.status[u] = cpu.status[u]
      /\ \A u \in Thread : pc[u] = "end" => Now.status[u] = "DELETED"
  BY NowKeeps, CurrentRuns
<1>2. Scheduled(cpu', pc')
  BY <1>1, MoveKeeps
<1>3. pc'[t] = l /\ \A u \in Thread \ {t} : pc'[u] = pc[u]
  BY DEF TypeOK
<1>4. Quiet
  BY <1>1, <1>3 DEF Quiet
<1> QED BY <1>2, <1>4

(* forks u, which begins at r,                                                *)
LEMMA ForksKeeps ==
  ASSUME TypeOK, Scheduled(cpu, pc), ~Idling(cpu), NEW t \in Thread, t = cpu.current,
         pc[t] \notin Holding, NEW l \in PC, l \notin Unborn \cup {"end"} \cup Holding,
         NEW u \in Thread, pc[u] \in Unborn,
         NEW r \in PC, r \notin Unborn \cup {"end"} \cup Holding,
         cpu' = ReadyToRun(Now, u), pc' = [pc EXCEPT ![t] = l, ![u] = r],
         sem' = sem, active' = active,
         \A v \in Thread : Readied(v) => Readied(v)'
  PROVE  /\ Scheduled(cpu', pc') /\ Quiet
         /\ u # t /\ pc'[t] = l /\ pc'[u] = r /\ \A v \in Thread \ {t, u} : pc'[v] = pc[v]
<1> DEFINE p == [pc EXCEPT ![t] = l]
<1>1. /\ Scheduled(Now, pc) /\ ~Idling(Now) /\ Now.current = t /\ cpu.status[t] = "RUNNING"
      /\ pc[t] \notin Unborn \cup {"end"}
      /\ \A v \in Thread : pc[v] # "end" => Now.status[v] = cpu.status[v]
      /\ \A v \in Thread : pc[v] = "end" => Now.status[v] = "DELETED"
      /\ cpu.status[u] = "JUST_CREATED" /\ pc[u] # "end"
  BY NowKeeps, CurrentRuns DEF Scheduled, Lists, Unborn
<1>2. Scheduled(Now, p)
  BY <1>1, MoveKeeps
<1>3. /\ u # t /\ pc'[t] = l /\ pc'[u] = r /\ \A v \in Thread \ {t, u} : pc'[v] = pc[v]
      /\ p[u] = pc[u]
  BY <1>1 DEF TypeOK
<1>4. pc' = [p EXCEPT ![u] = r]
  OBVIOUS
<1> HIDE DEF p
<1>5. Scheduled(cpu', pc') /\ SameBlocked(Now, cpu')
  <2>1. p[u] \in Unborn /\ r \notin Unborn \cup {"end"}
    BY <1>3
  <2>2. /\ Scheduled(ReadyToRun(Now, u), [p EXCEPT ![u] = r])
        /\ SameBlocked(Now, ReadyToRun(Now, u))
    BY <1>1, <1>2, <2>1, ForkKeeps
  <2> QED BY <1>4, <2>2
<1>6. Quiet
  <2>1. /\ pc[t] # "end" /\ pc'[t] # "end" /\ pc[u] # "end" /\ pc'[u] # "end"
        /\ pc'[t] \notin Holding /\ pc[u] \notin Holding /\ pc'[u] \notin Holding
    BY <1>1, <1>3 DEF Unborn, Holding
  <2>2. \A v \in Thread : pc[v] # "end" =>
          (cpu'.status[v] = "BLOCKED" <=> cpu.status[v] = "BLOCKED")
    BY <1>1, <1>5 DEF SameBlocked
  <2>3. cpu.status[t] # "BLOCKED" /\ cpu.status[u] # "BLOCKED"
    BY <1>1
  <2>4. \A v \in Thread \ {t, u} : pc'[v] = pc[v]
    BY <1>3
  <2>5. \A v \in Thread : cpu.status[v] = "BLOCKED" => pc'[v] = pc[v]
    BY <2>3, <2>4
  <2>6. \A v \in Thread : pc'[v] # "end" => pc[v] # "end"
    BY <2>1, <2>4
  <2>7. \A v \in Thread : pc[v] \in Holding \/ pc'[v] \in Holding => pc'[v] = pc[v]
    BY <2>1, <2>4
  <2> QED BY <2>2, <2>5, <2>6, <2>7 DEF Quiet
<1> QED BY <1>3, <1>5, <1>6

(* finishes,                                                                  *)
LEMMA FinishKeeps ==
  ASSUME TypeOK, Scheduled(cpu, pc), ~Idling(cpu), NEW t \in Thread, t = cpu.current,
         pc[t] \notin Holding, DoFinish(t), sem' = sem, active' = active,
         \A u \in Thread : Readied(u) => Readied(u)'
  PROVE  /\ Scheduled(cpu', pc') /\ Quiet
         /\ pc'[t] = "end" /\ \A u \in Thread \ {t} : pc'[u] = pc[u]
<1>1. /\ Scheduled(Now, pc) /\ ~Idling(Now) /\ Now.current = t /\ cpu.status[t] = "RUNNING"
      /\ Now.carcass = NoThread
      /\ \A u \in Thread : pc[u] # "end" => Now.status[u] = cpu.status[u]
      /\ \A u \in Thread : pc[u] = "end" => Now.status[u] = "DELETED"
  BY NowKeeps, CurrentRuns
<1>2. cpu' = Sleep(Now, TRUE) /\ pc' = [pc EXCEPT ![t] = "end"]
  BY DEF DoFinish, Goto
<1>3. "end" \in PC /\ "end" \notin Unborn /\ "end" \notin Holding
  BY DEF PC, Unborn, Holding
<1>4. /\ Scheduled(cpu', pc')
      /\ \A u \in Thread \ {t} : cpu'.status[u] = "BLOCKED" <=> Now.status[u] = "BLOCKED"
  <2>1. TRUE \in BOOLEAN /\ (TRUE <=> "end" = "end")
    OBVIOUS
  <2>2. LET d == Sleep(Now, TRUE) IN
        /\ Scheduled(d, [pc EXCEPT ![Now.current] = "end"])
        /\ \A u \in Thread \ {Now.current} : d.status[u] = "BLOCKED" <=> Now.status[u] = "BLOCKED"
    BY <1>1, <1>3, <2>1, SleepKeeps
  <2> QED BY <1>1, <1>2, <2>2
<1>5. pc'[t] = "end" /\ \A u \in Thread \ {t} : pc'[u] = pc[u]
  BY <1>2 DEF TypeOK
<1>6. Quiet
  BY <1>1, <1>3, <1>4, <1>5 DEF Quiet
<1> QED BY <1>4, <1>5, <1>6

(* gives up the CPU at a tick of the timer,                                   *)
LEMMA PreemptKeeps ==
  ASSUME TypeOK, Scheduled(cpu, pc), Preempt
  PROVE  Scheduled(cpu', pc') /\ Quiet /\ pc' = pc
<1>1. /\ ~Idling(cpu) /\ cpu.ready # <<>> /\ cpu' = Yield(Now)
      /\ UNCHANGED <<sem, pc, active, after, family, machine>>
  BY DEF Preempt
<1>2. /\ Scheduled(Now, pc) /\ ~Idling(Now) /\ Now.carcass = NoThread /\ Now.ready # <<>>
      /\ \A u \in Thread : pc[u] # "end" => Now.status[u] = cpu.status[u]
      /\ \A u \in Thread : pc[u] = "end" => Now.status[u] = "DELETED"
  BY <1>1, NowKeeps
<1>3. Scheduled(cpu', pc') /\ SameBlocked(Now, cpu')
  BY <1>1, <1>2, YieldKeeps
<1>4. \A u \in Thread : Readied(u) => Readied(u)'
  BY <1>1 DEF Readied, family
<1>5. Quiet
  BY <1>1, <1>2, <1>3, <1>4 DEF Quiet, SameBlocked
<1> QED BY <1>1, <1>3, <1>5

(* or readies its parent in Exit_P, which was asleep at the disk.             *)
LEMMA ExitReadiesKeeps ==
  ASSUME TypeOK, Scheduled(cpu, pc), Family, NEW t \in Thread, ExitOwnReadies(t),
         machine' = "runs"
  PROVE  /\ Scheduled(cpu', pc') /\ Quiet
         /\ pc'[t] = "exit" /\ \A u \in Thread \ {t} : pc'[u] = pc[u]
<1> DEFINE p == parent[t]
<1>1. /\ t = cpu.current /\ ~Idling(cpu) /\ pc[t] = "user"
      /\ p # NoThread /\ p \notin Range(cpu.ready)
      /\ cpu' = ReadyToRun(Now, p) /\ pc' = [pc EXCEPT ![t] = "exit"]
      /\ Now.status[p] # "DELETED"
      /\ UNCHANGED <<sem, active, after, family>>
  BY DEF ExitOwnReadies, Runs, At, OnReadyList, Goto
<1>2. /\ Scheduled(Now, pc) /\ ~Idling(Now) /\ Now.current = t /\ cpu.status[t] = "RUNNING"
      /\ \A u \in Thread : pc[u] # "end" => Now.status[u] = cpu.status[u]
      /\ \A u \in Thread : pc[u] = "end" => Now.status[u] = "DELETED"
  BY <1>1, NowKeeps, CurrentRuns
<1>3. p \in Thread /\ p # t /\ pc[p] \notin Unborn
  BY <1>1 DEF TypeOK, Family
<1>4. Now.status[p] = "BLOCKED" /\ pc[p] # "end" /\ Now.status \in [Thread -> Status]
  <2>1. pc[p] # "end" /\ cpu.status[p] \in Status /\ Now.status[p] = cpu.status[p]
    BY <1>1, <1>2, <1>3 DEF TypeOK, Cpu
  <2>2. cpu.status[p] # "READY" /\ cpu.status[p] # "JUST_CREATED" /\ cpu.status[p] # "RUNNING"
    BY <1>1, <1>3 DEF Scheduled, Lists
  <2>3. Now.status \in [Thread -> Status]
    BY <1>2 DEF Scheduled, Lists, Cpu
  <2> QED BY <1>1, <2>1, <2>2, <2>3 DEF Status
<1>5. pc'[t] = "exit" /\ \A u \in Thread \ {t} : pc'[u] = pc[u]
  BY <1>1 DEF TypeOK
<1>6. Scheduled(Now, pc')
  <2>1. "exit" \in PC /\ "exit" \notin Unborn \cup {"end"}
    BY DEF PC, Unborn
  <2> QED BY <1>1, <1>2, <2>1, MoveKeeps
<1>7. /\ Scheduled(cpu', pc') /\ cpu'.status = [Now.status EXCEPT ![p] = "READY"]
  <2>1. p \in Thread /\ Now.status[p] = "BLOCKED" /\ pc'[p] # "end"
    BY <1>3, <1>4, <1>5
  <2>2. /\ Scheduled(ReadyToRun(Now, p), pc')
        /\ ReadyToRun(Now, p).status = [Now.status EXCEPT ![p] = "READY"]
    BY <1>2, <1>6, <2>1, WakeKeeps
  <2> QED BY <1>1, <2>2
<1>8. \A u \in Thread : cpu'.status[u] = "BLOCKED" <=> Now.status[u] = "BLOCKED" /\ u # p
  BY <1>3, <1>4, <1>7
<1>9. Readied(p)' /\ \A u \in Thread : Readied(u) => Readied(u)'
  BY <1>1, <1>5 DEF Readied, family
<1>10. Quiet
  <2>1. sem' = sem /\ active' = active
    BY <1>1
  <2>2. \A u \in Thread : cpu'.status[u] = "BLOCKED" /\ pc'[u] # "end" =>
          cpu.status[u] = "BLOCKED" /\ pc'[u] = pc[u]
    BY <1>2, <1>5, <1>8
  <2>3. \A u \in Thread : cpu.status[u] = "BLOCKED" /\ pc[u] # "end" =>
          (cpu'.status[u] = "BLOCKED" /\ pc'[u] = pc[u]) \/ Readied(u)'
    <3> SUFFICES ASSUME NEW u \in Thread, cpu.status[u] = "BLOCKED", pc[u] # "end"
                 PROVE  (cpu'.status[u] = "BLOCKED" /\ pc'[u] = pc[u]) \/ Readied(u)'
      OBVIOUS
    <3>1. CASE u = p
      BY <1>1, <1>9, <3>1 DEF Readied, family
    <3>2. CASE u # p
      BY <1>2, <1>5, <1>8, <3>2
    <3> QED BY <3>1, <3>2
  <2>4. \A u \in Thread : pc[u] \in Holding \/ pc'[u] \in Holding => pc'[u] = pc[u]
    BY <1>1, <1>5 DEF Holding
  <2> QED BY <1>9, <2>1, <2>2, <2>3, <2>4 DEF Quiet
<1> QED BY <1>5, <1>7, <1>10

(* One thread moves, and the family's records stay.                           *)
LEMMA FamilyOneMoves ==
  ASSUME TypeOK, Family, UNCHANGED <<kid, parent, childThreads>>, NEW t \in Thread,
         \A u \in Thread \ {t} : pc'[u] = pc[u],
         pc[t] \notin Unborn \cup {"childRoot", "end"},
         pc'[t] \notin Unborn \cup {"join"},
         pc[t] = "finish" => pc'[t] = "end",
         \A u \in Thread : Loading(u)' => Loading(u)
  PROVE  Family'
<1>1. \A u \in Thread : Loading(u) => kid[u] \in Thread \ {t}
  BY DEF Family, Unborn
<1>2. \A u \in Thread : pc[u] # "join"
  BY DEF Family
<1> QED BY <1>1, <1>2, FamilyKeeps

-----------------------------------------------------------------------------
LEMMA LoopPMoves ==
  ASSUME NEW t \in Thread, NEW s, NEW asleep, NEW next, NEW p \in [Thread -> PC],
         LoopP(t, s, asleep, next, p)
  PROVE  pc'[t] \in {asleep, next} /\ \A u \in Thread \ {t} : pc'[u] = p[u]
BY DEF LoopP

LEMMA ReadiedStays ==
  ASSUME \A c \in Thread : pc[c] = "exit" => pc'[c] = "exit" /\ parent'[c] = parent[c]
  PROVE  \A t \in Thread : Readied(t) => Readied(t)'
BY DEF Readied

Parts == Scheduled(cpu, pc) /\ Sleepers /\ Waiting /\ Exclusive /\ Family

(* A program's use of the disk.                                               *)
LEMMA DiskSteps ==
  ASSUME TypeOK, Parts, machine' = "runs", NEW t \in Thread,
         \/ UseDisk(t) \/ BeginRunUP(t) \/ ResumeAcquire(t)
         \/ Request(t) \/ ResumeIO(t) \/ ReleaseDisk(t)
  PROVE  Parts'
<1>0. pc \in [Thread -> PC]
  BY DEF TypeOK
<1>1. CASE UseDisk(t) \/ BeginRunUP(t) \/ ResumeAcquire(t)
  <2>1. /\ t = cpu.current /\ ~Idling(cpu) /\ pc[t] \in {"user", "runRoot", "acquire"}
        /\ LoopP(t, Lock, "acquire", "owner", pc) /\ active' = active /\ UNCHANGED family
    BY <1>1 DEF UseDisk, BeginRunUP, ResumeAcquire, Runs, At
  <2>2. pc'[t] \in {"acquire", "owner"} /\ \A u \in Thread \ {t} : pc'[u] = pc[u]
    BY <1>0, <2>1, LoopPMoves
  <2>3. \A u \in Thread : Readied(u) => Readied(u)'
    BY <2>1, <2>2, ReadiedStays DEF family
  <2>4. Scheduled(Now, pc) /\ pc[t] \notin Holding
    BY <2>1, NowKeeps DEF Parts, Holding
  <2>5. Scheduled(cpu', pc') /\ Sleepers' /\ Waiting' /\ Exclusive'
    BY <2>1, <2>3, <2>4, LockKeeps DEF Parts
  <2>6. \A u \in Thread : Loading(u)' => Loading(u)
    <3>1. \A u \in Thread \ {t} : after'[u] = after[u]
      BY <1>1 DEF UseDisk, BeginRunUP, ResumeAcquire, TypeOK
    <3>2. (pc[t] = "acquire" /\ after' = after) \/ after'[t] = "user"
      BY <1>1 DEF UseDisk, BeginRunUP, ResumeAcquire, Runs, At, TypeOK
    <3> QED BY <2>2, <3>1, <3>2 DEF Loading
  <2>7. Family'
    <3>1. /\ pc[t] \notin Unborn \cup {"childRoot", "end"} /\ pc[t] # "finish"
          /\ pc'[t] \notin Unborn \cup {"join"}
      BY <2>1, <2>2 DEF Unborn
    <3> QED BY <2>1, <2>2, <2>6, <3>1, FamilyOneMoves DEF family, Parts
  <2> QED BY <2>5, <2>7 DEF Parts
<1>2. CASE Request(t) \/ ResumeIO(t)
  <2>1. /\ Scheduled(cpu', pc') /\ Sleepers' /\ Waiting' /\ Exclusive'
        /\ pc'[t] \in {"io", "release"} /\ \A u \in Thread \ {t} : pc'[u] = pc[u]
    BY <1>2, DoneKeeps DEF Parts
  <2>2. pc[t] \in {"owner", "io"} /\ UNCHANGED <<after, family>>
    BY <1>2 DEF Request, ResumeIO, Runs, At
  <2>3. \A u \in Thread : Loading(u)' => Loading(u)
    BY <2>1, <2>2 DEF Loading
  <2>4. /\ pc[t] \notin Unborn \cup {"childRoot", "end"} /\ pc[t] # "finish"
        /\ pc'[t] \notin Unborn \cup {"join"}
    BY <2>1, <2>2 DEF Unborn
  <2>5. Family'
    BY <2>1, <2>2, <2>3, <2>4, FamilyOneMoves DEF family, Parts
  <2> QED BY <2>1, <2>5 DEF Parts
<1>3. CASE ReleaseDisk(t)
  <2>1. /\ Scheduled(cpu', pc') /\ Sleepers' /\ Waiting' /\ Exclusive'
        /\ pc'[t] = after[t] /\ \A u \in Thread \ {t} : pc'[u] = pc[u]
    BY <1>3, ReleaseKeeps DEF Parts
  <2>2. pc[t] = "release" /\ UNCHANGED <<after, family>> /\ after[t] \in {"user", "fork"}
    BY <1>3 DEF ReleaseDisk, Runs, At, TypeOK
  <2>3. \A u \in Thread : Loading(u)' => Loading(u)
    BY <2>1, <2>2 DEF Loading
  <2>4. /\ pc[t] \notin Unborn \cup {"childRoot", "end"} /\ pc[t] # "finish"
        /\ pc'[t] \notin Unborn \cup {"join"}
    BY <2>1, <2>2 DEF Unborn
  <2>5. Family'
    BY <2>1, <2>2, <2>3, <2>4, FamilyOneMoves DEF family, Parts
  <2> QED BY <2>1, <2>5 DEF Parts
<1> QED BY <1>1, <1>2, <1>3

(* The steps by which a thread goes on or finishes.                           *)
LEMMA OwnSteps ==
  ASSUME TypeOK, Parts, machine' = "runs", NEW t \in Thread,
         \/ ThreadFinish(t) \/ ExitZero(t) \/ (t = Main /\ MainFinishes)
         \/ ExitOwn(t) \/ FinishExit(t) \/ ExitOwnReadies(t)
         \/ EnterUser(t) \/ ExitOther(t) \/ \E c \in Thread : Join(t, c)
  PROVE  Parts'
<1>0. pc \in [Thread -> PC] /\ "user" \in PC
  BY DEF TypeOK, PC
<1>1. CASE \/ ThreadFinish(t) \/ ExitZero(t) \/ (t = Main /\ MainFinishes)
           \/ ExitOwn(t) \/ FinishExit(t)
  <2>1. /\ t = cpu.current /\ ~Idling(cpu) /\ DoFinish(t)
        /\ pc[t] \in {"finish", "user", "main", "exit"}
        /\ UNCHANGED <<sem, active, after, kid, parent>>
        /\ Inform(t) \/ (pc[t] # "exit" /\ UNCHANGED family)
    BY <1>1 DEF ThreadFinish, ExitZero, MainFinishes, ExitOwn, FinishExit, Inform, Runs, At, family
  (* A parent that is told stops the machine: t is not among its children. *)
  <2>2. ASSUME Inform(t) PROVE parent[t] = NoThread /\ childThreads' = childThreads
    <3>1. ASSUME parent[t] # NoThread PROVE FALSE
      <4>1. parent[t] \in Thread /\ t \notin childThreads[parent[t]]
        BY <2>1, <3>1 DEF Parts, Family, TypeOK
      <4> QED BY <2>2, <3>1, <4>1 DEF Inform
    <3> QED BY <2>2, <3>1 DEF Inform
  <2>3. childThreads' = childThreads
    BY <2>1, <2>2 DEF family
  <2>4. pc' = [pc EXCEPT ![t] = "end"]
    BY <2>1 DEF DoFinish, Goto
  <2>5. pc'[t] = "end" /\ \A u \in Thread \ {t} : pc'[u] = pc[u]
    BY <1>0, <2>4
  <2>6. \A u \in Thread : Readied(u) => Readied(u)'
    BY <2>1, <2>2, <2>5, ThreadFacts DEF Readied
  <2>7. Scheduled(cpu', pc') /\ Quiet
    BY <2>1, <2>6, FinishKeeps DEF Parts, Holding
  <2>8. Sleepers' /\ Waiting' /\ Exclusive'
    BY <2>7, QuietKeeps DEF Parts
  <2>9. \A u \in Thread : Loading(u)' => Loading(u)
    BY <2>1, <2>5 DEF Loading
  <2>10. /\ pc[t] \notin Unborn \cup {"childRoot", "end"} /\ pc'[t] \notin Unborn \cup {"join"}
    BY <2>1, <2>5 DEF Unborn
  <2>11. Family'
    BY <2>1, <2>3, <2>5, <2>9, <2>10, FamilyOneMoves DEF Parts
  <2> QED BY <2>7, <2>8, <2>11 DEF Parts
<1>2. CASE ExitOwnReadies(t)
  <2>1. /\ Scheduled(cpu', pc') /\ Quiet
        /\ pc'[t] = "exit" /\ \A u \in Thread \ {t} : pc'[u] = pc[u]
    BY <1>2, ExitReadiesKeeps DEF Parts
  <2>2. pc[t] = "user" /\ UNCHANGED <<after, family>>
    BY <1>2 DEF ExitOwnReadies, Runs, At
  <2>3. Sleepers' /\ Waiting' /\ Exclusive'
    BY <2>1, QuietKeeps DEF Parts
  <2>4. \A u \in Thread : Loading(u)' => Loading(u)
    BY <2>1, <2>2 DEF Loading
  <2>5. /\ pc[t] \notin Unborn \cup {"childRoot", "end"} /\ pc[t] # "finish"
        /\ pc'[t] \notin Unborn \cup {"join"}
    BY <2>1, <2>2 DEF Unborn
  <2>6. Family'
    BY <2>1, <2>2, <2>4, <2>5, FamilyOneMoves DEF Parts, family
  <2> QED BY <2>1, <2>3, <2>6 DEF Parts
<1>3. CASE EnterUser(t) \/ ExitOther(t) \/ \E c \in Thread : Join(t, c)
  <2>1. /\ t = cpu.current /\ ~Idling(cpu) /\ pc[t] \in {"user", "execRoot", "join"}
        /\ cpu' = Now /\ pc' = [pc EXCEPT ![t] = "user"]
        /\ UNCHANGED <<sem, active, after, kid, parent, childThreads>>
    <3>1. CASE EnterUser(t)
      BY <3>1 DEF EnterUser, Runs, At, Goto, family
    <3>2. CASE ExitOther(t)
      BY <1>0, <3>2 DEF ExitOther, Runs, At
    <3>3. CASE \E c \in Thread : Join(t, c)
      <4>1. PICK c \in Thread : Join(t, c)
        BY <3>3
      <4>2. pc[t] = "user" /\ childThreads[t] = {}
        BY <4>1 DEF Join, Runs, At, Parts, Family
      <4>3. cpu' = Now /\ pc' = pc
        BY <4>1, <4>2 DEF Join
      <4> QED BY <1>0, <4>1, <4>2, <4>3 DEF Join, Runs, At
    <3> QED BY <1>3, <3>1, <3>2, <3>3
  <2>2. pc'[t] = "user" /\ \A u \in Thread \ {t} : pc'[u] = pc[u]
    BY <1>0, <2>1
  <2>3. \A u \in Thread : Readied(u) => Readied(u)'
    BY <2>1, <2>2, ReadiedStays
  <2>4. "user" \notin Unborn \cup {"end"} \cup Holding /\ pc[t] \notin Holding
    BY <2>1 DEF Unborn, Holding
  <2>5. Scheduled(cpu', pc') /\ Quiet
    BY <1>0, <2>1, <2>3, <2>4, GoesOnKeeps DEF Parts
  <2>6. Sleepers' /\ Waiting' /\ Exclusive'
    BY <2>5, QuietKeeps DEF Parts
  <2>7. \A u \in Thread : Loading(u)' => Loading(u)
    BY <2>1, <2>2 DEF Loading
  <2>8. /\ pc[t] \notin Unborn \cup {"childRoot", "end"} /\ pc[t] # "finish"
        /\ pc'[t] \notin Unborn \cup {"join"}
    BY <2>1, <2>2 DEF Unborn
  <2>9. Family'
    BY <2>1, <2>2, <2>7, <2>8, FamilyOneMoves DEF Parts
  <2> QED BY <2>5, <2>6, <2>9 DEF Parts
<1> QED BY <1>1, <1>2, <1>3

(* The steps that fork a thread.                                              *)
LEMMA ForkSteps ==
  ASSUME TypeOK, Parts, machine' = "runs", NEW t \in Thread, NEW u \in Thread,
         \/ t = Main /\ RunMultipleUserProg(u)
         \/ ThreadFork(t, u)
         \/ u = kid[t] /\ ExecForks(t)
         \/ BeginSysFork(t, u)
         \/ ExecUnopened(t, u)
  PROVE  Parts'
<1>0. pc \in [Thread -> PC] /\ {"main", "user", "finish"} \subseteq PC /\ Roots \subseteq PC
  BY DEF TypeOK, PC
(* A fresh thread is no child of anybody and nobody loads its program. *)
<1>1. \/ /\ pc[t] = "main" /\ pc[u] = "none" /\ pc' = [pc EXCEPT ![u] = "runRoot"]
         /\ UNCHANGED family
      \/ /\ pc[t] = "user" /\ pc[u] = "none" /\ pc' = [pc EXCEPT ![u] = "sysForkRoot"]
         /\ UNCHANGED family
      \/ /\ pc[t] = "fork" /\ u = kid[t] /\ pc' = [pc EXCEPT ![t] = "user", ![u] = "execRoot"]
         /\ UNCHANGED family
      \/ /\ pc[t] = "sysForkRoot" /\ pc[u] = "none"
         /\ pc' = [pc EXCEPT ![t] = "finish", ![u] = "childRoot"]
         /\ parent' = [parent EXCEPT ![u] = t] /\ kid' = kid
         /\ childThreads' = [childThreads EXCEPT ![t] = @ \cup {u}]
      \/ /\ pc[t] = "user" /\ pc[u] = "none" /\ pc' = [pc EXCEPT ![u] = "execRoot"]
         /\ parent' = [parent EXCEPT ![u] = t] /\ kid' = kid
         /\ childThreads' = childThreads
  BY DEF RunMultipleUserProg, ThreadFork, ExecForks, BeginSysFork, ExecUnopened, Register,
         Runs, At, Goto, Fresh, Exists
<1>2. /\ t = cpu.current /\ ~Idling(cpu) /\ cpu' = ReadyToRun(Now, u)
      /\ UNCHANGED <<sem, active, after>>
  BY DEF RunMultipleUserProg, ThreadFork, ExecForks, BeginSysFork, ExecUnopened, Runs, At
<1>3. pc[u] \in Unborn /\ pc[t] = "fork" => pc[u] = "created"
  BY <1>1 DEF Unborn, Parts, Family, Loading
<1>4. pc[u] \in Unborn /\ u # t /\ pc[t] \notin Holding
  BY <1>1, <1>3 DEF Unborn, Parts, Family, Loading, Holding
<1>5. \E l \in {"main", "user", "finish"}, r \in Roots :
        /\ pc' = [pc EXCEPT ![t] = l, ![u] = r]
        /\ \/ /\ l = pc[t] /\ l # "finish" /\ r \in {"runRoot", "sysForkRoot"}
              /\ pc[u] = "none" /\ UNCHANGED family
           \/ l = "user" /\ r = "execRoot" /\ pc[t] = "fork" /\ u = kid[t] /\ UNCHANGED family
           \/ /\ l = "finish" /\ r = "childRoot" /\ pc[t] = "sysForkRoot" /\ pc[u] = "none"
              /\ parent' = [parent EXCEPT ![u] = t] /\ kid' = kid
              /\ childThreads' = [childThreads EXCEPT ![t] = @ \cup {u}]
           \/ /\ l = "user" /\ r = "execRoot" /\ pc[t] = "user" /\ pc[u] = "none"
              /\ parent' = [parent EXCEPT ![u] = t] /\ kid' = kid
              /\ childThreads' = childThreads
  <2>1. {"runRoot", "sysForkRoot", "execRoot", "childRoot"} \subseteq Roots
    BY DEF Roots
  <2>2. ASSUME NEW r PROVE [pc EXCEPT ![u] = r] = [pc EXCEPT ![t] = pc[t], ![u] = r]
    BY <1>0
  <2> QED BY <1>1, <2>1, <2>2
<1>6. PICK l \in {"main", "user", "finish"}, r \in Roots :
        /\ pc' = [pc EXCEPT ![t] = l, ![u] = r]
        /\ \/ /\ l = pc[t] /\ l # "finish" /\ r \in {"runRoot", "sysForkRoot"}
              /\ pc[u] = "none" /\ UNCHANGED family
           \/ l = "user" /\ r = "execRoot" /\ pc[t] = "fork" /\ u = kid[t] /\ UNCHANGED family
           \/ /\ l = "finish" /\ r = "childRoot" /\ pc[t] = "sysForkRoot" /\ pc[u] = "none"
              /\ parent' = [parent EXCEPT ![u] = t] /\ kid' = kid
              /\ childThreads' = [childThreads EXCEPT ![t] = @ \cup {u}]
           \/ /\ l = "user" /\ r = "execRoot" /\ pc[t] = "user" /\ pc[u] = "none"
              /\ parent' = [parent EXCEPT ![u] = t] /\ kid' = kid
              /\ childThreads' = childThreads
  BY <1>5
<1>7. /\ l \in PC /\ l \notin Unborn \cup {"end"} \cup Holding
      /\ r \in PC /\ r \notin Unborn \cup {"end"} \cup Holding
  BY <1>0 DEF Unborn, Holding, Roots
<1>8. /\ pc'[t] = l /\ pc'[u] = r /\ \A v \in Thread \ {t, u} : pc'[v] = pc[v]
  BY <1>0, <1>4, <1>6
<1>9. \A v \in Thread : Readied(v) => Readied(v)'
  <2>1. pc[t] # "exit" /\ pc[u] # "exit" /\ \A c \in Thread \ {u} : parent'[c] = parent[c]
    BY <1>4, <1>6 DEF Unborn, family, TypeOK
  <2> QED BY <1>8, <2>1, ReadiedStays
<1>10. Scheduled(cpu', pc') /\ Quiet
  BY <1>2, <1>4, <1>6, <1>7, <1>9, ForksKeeps DEF Parts
<1>11. Sleepers' /\ Waiting' /\ Exclusive'
  BY <1>10, QuietKeeps DEF Parts
<1>12. Family'
  <2>1. \A v \in Thread : Loading(v)' => Loading(v) /\ v # t /\ v # u
    BY <1>2, <1>4, <1>6, <1>8 DEF Loading, Roots
  <2>2. \A v \in Thread : Loading(v) /\ v # t => kid[v] \in Thread \ {t, u} /\ pc'[kid[v]] = "created"
    <3> SUFFICES ASSUME NEW v \in Thread, Loading(v), v # t
                 PROVE  kid[v] \in Thread \ {t, u} /\ pc'[kid[v]] = "created"
      OBVIOUS
    <3>1. kid[v] \in Thread /\ pc[kid[v]] = "created"
      BY DEF Parts, Family
    <3>2. pc[t] # "created"
      BY <1>6
    <3>3. pc[u] = "none" \/ (Loading(t) /\ u = kid[t])
      BY <1>6 DEF Loading
    <3>4. kid[v] # u
      BY <3>1, <3>3 DEF Parts, Family
    <3> QED BY <1>8, <3>1, <3>2, <3>4
  <2>3. kid' = kid
    BY <1>6 DEF family
  <2>4. /\ \A v \in Thread : Loading(v)' => kid'[v] \in Thread /\ pc'[kid'[v]] = "created"
        /\ \A v, w \in Thread : Loading(v)' /\ Loading(w)' /\ kid'[v] = kid'[w] => v = w
    BY <2>1, <2>2, <2>3 DEF Parts, Family
  <2>5. /\ \A v \in Thread : pc'[v] # "join"
        /\ \A v \in Thread : pc[v] \in {"finish", "end"} => pc'[v] \in {"finish", "end"}
        /\ \A v \in Thread : pc[v] = "childRoot" => pc'[v] = "childRoot"
        /\ \A v \in Thread : pc'[v] \in Unborn => pc[v] \in Unborn
    <3>1. /\ pc[t] \in {"main", "user", "fork", "sysForkRoot"}
          /\ pc[u] \in {"none", "created"}
          /\ pc'[t] \in {"main", "user", "finish"} /\ pc'[u] \in Roots
      BY <1>4, <1>6, <1>8 DEF Unborn
    <3>2. \A v \in Thread : pc[v] # "join"
      BY DEF Parts, Family
    <3> QED BY <1>8, <3>1, <3>2 DEF Roots, Unborn
  <2>6. /\ \A v \in Thread : \A c \in childThreads'[v] : pc'[c] = "childRoot"
        /\ \A v \in Thread : childThreads'[v] # {} => pc'[v] \in {"finish", "end"}
    <3>1. CASE UNCHANGED family
      BY <2>5, <3>1 DEF Parts, Family, TypeOK, family
    <3>2. CASE /\ l = "finish" /\ r = "childRoot"
               /\ childThreads' = [childThreads EXCEPT ![t] = @ \cup {u}]
      BY <1>8, <2>5, <3>2 DEF Parts, Family, TypeOK
    <3>3. CASE childThreads' = childThreads
      BY <2>5, <3>3 DEF Parts, Family, TypeOK
    <3> QED BY <1>6, <3>1, <3>2, <3>3
  <2>7. \A c \in Thread : parent'[c] # NoThread => parent'[c] # c /\ pc'[parent'[c]] \notin Unborn
    <3>1. CASE UNCHANGED family
      BY <2>5, <3>1 DEF Parts, Family, TypeOK, family
    <3>2. CASE parent' = [parent EXCEPT ![u] = t]
      BY <1>4, <1>7, <1>8, <2>5, <3>2 DEF Parts, Family, TypeOK
    <3> QED BY <1>6, <3>1, <3>2
  <2> QED BY <2>4, <2>5, <2>6, <2>7 DEF Family, Loading
<1> QED BY <1>10, <1>11, <1>12 DEF Parts

(* SC_Exec constructs the child and begins to load its program.               *)
LEMMA ExecSteps ==
  ASSUME TypeOK, Parts, machine' = "runs", NEW t \in Thread, NEW u \in Thread, Exec(t, u)
  PROVE  Parts'
<1> DEFINE p == [pc EXCEPT ![u] = "created"]
<1>1. /\ t = cpu.current /\ ~Idling(cpu) /\ pc[t] = "user" /\ pc[u] = "none"
      /\ LoopP(t, Lock, "acquire", "owner", p) /\ active' = active
      /\ after' = [after EXCEPT ![t] = "fork"] /\ kid' = [kid EXCEPT ![t] = u]
      /\ parent' = [parent EXCEPT ![u] = t] /\ childThreads' = childThreads
  BY DEF Exec, Register, Runs, At, Fresh, Exists
<1>2. p \in [Thread -> PC] /\ \A v \in Thread : p[v] = IF v = u THEN "created" ELSE pc[v]
  BY DEF TypeOK, PC
<1>3. Scheduled(Now, pc) /\ pc[t] \notin Holding /\ u # t
  BY <1>1, NowKeeps DEF Parts, Holding
<1>4. Scheduled(Now, p)
  BY <1>1, <1>3, CreateKeeps
<1> HIDE DEF p
<1>5. pc'[t] \in {"acquire", "owner"} /\ \A v \in Thread \ {t} : pc'[v] = p[v]
  BY <1>1, <1>2, LoopPMoves
<1>6. \A v \in Thread \ {u} : parent'[v] = parent[v]
  BY <1>1 DEF TypeOK
<1>7. \A v \in Thread : Readied(v) => Readied(v)'
  BY <1>1, <1>2, <1>5, <1>6, ReadiedStays
<1>8. Scheduled(cpu', pc') /\ Sleepers' /\ Waiting' /\ Exclusive'
  BY <1>1, <1>2, <1>3, <1>4, <1>7, LockKeeps DEF Parts
<1>9. Family'
  <2>1. /\ \A v \in Thread \ {t} : kid'[v] = kid[v] /\ after'[v] = after[v]
        /\ kid'[t] = u /\ parent'[u] = t
    BY <1>1 DEF TypeOK
  <2>2. \A v \in Thread \ {t} : Loading(v)' => Loading(v)
    BY <1>2, <1>5, <2>1 DEF Loading
  <2>3. pc'[u] = "created"
    BY <1>2, <1>3, <1>5
  <2>4. \A v \in Thread : Loading(v) => kid[v] \in Thread \ {t, u} /\ pc'[kid[v]] = "created"
    BY <1>1, <1>2, <1>5 DEF Parts, Family
  <2>5. \A v \in Thread : Loading(v)' => kid'[v] \in Thread /\ pc'[kid'[v]] = "created"
    BY <2>1, <2>2, <2>3, <2>4
  <2>6. \A v, w \in Thread : Loading(v)' /\ Loading(w)' /\ kid'[v] = kid'[w] => v = w
    BY <2>1, <2>2, <2>4 DEF Parts, Family
  <2>7. /\ \A v \in Thread : pc'[v] # "join"
        /\ \A v \in Thread : pc[v] \in {"finish", "end"} => pc'[v] \in {"finish", "end"}
        /\ \A v \in Thread : pc[v] = "childRoot" => pc'[v] = "childRoot"
        /\ \A v \in Thread : pc'[v] \in Unborn => pc[v] \in Unborn
    BY <1>1, <1>2, <1>5 DEF Parts, Family, Unborn
  <2>8. /\ \A v \in Thread : \A c \in childThreads'[v] : pc'[c] = "childRoot"
        /\ \A v \in Thread : childThreads'[v] # {} => pc'[v] \in {"finish", "end"}
    BY <1>1, <2>7 DEF Parts, Family, TypeOK
  <2>9. \A c \in Thread : parent'[c] # NoThread => parent'[c] # c /\ pc'[parent'[c]] \notin Unborn
    <3>1. pc[t] \notin Unborn
      BY <1>1 DEF Unborn
    <3>2. \A c \in Thread : parent[c] # NoThread => parent[c] # c /\ pc[parent[c]] \notin Unborn
      BY DEF Parts, Family
    <3>3. parent'[u] # u /\ pc'[parent'[u]] \notin Unborn
      BY <1>3, <2>1, <2>7, <3>1
    <3>4. \A c \in Thread \ {u} : parent'[c] = parent[c] /\ parent[c] \in Thread \cup {NoThread}
      BY <1>6 DEF TypeOK
    <3> QED BY <2>7, <3>2, <3>3, <3>4
  <2> QED BY <2>5, <2>6, <2>7, <2>8, <2>9 DEF Family, Loading
<1> QED BY <1>8, <1>9 DEF Parts

LEMMA NextParts == ASSUME PInv, Next, machine' = "runs" PROVE Parts'
<1>1. machine = "runs"
  BY DEF Next, UseDisk, ResumeAcquire, Request, ResumeIO, ReleaseDisk, BeginRunUP, ExecForks,
         ThreadFinish, BeginChild, EnterUser, ExitZero, ExitOwn, ExitOwnReadies, FinishExit,
         ExitOther, RunMultipleUserProg, Exec, ThreadFork, BeginSysFork, Join, MainFinishes,
         RunUPStops, ExecUnopened, DiskInterrupt, Preempt, Runs
<1>2. TypeOK /\ Parts /\ Main \in Thread
  BY <1>1, ThreadFacts DEF PInv, Parts
<1>3. CASE DiskInterrupt
  <2>1. Scheduled(cpu', pc') /\ Sleepers' /\ Waiting' /\ Exclusive'
    BY <1>2, <1>3, InterruptKeeps DEF Parts
  <2>2. UNCHANGED <<pc, after, family>>
    BY <1>3 DEF DiskInterrupt
  <2>3. Family'
    BY <1>2, <2>2 DEF Parts, Family, Loading, family
  <2> QED BY <2>1, <2>3 DEF Parts
<1>4. CASE Preempt
  <2>1. Scheduled(cpu', pc') /\ Quiet /\ pc' = pc
    BY <1>2, <1>4, PreemptKeeps DEF Parts
  <2>2. UNCHANGED <<after, family>>
    BY <1>4 DEF Preempt
  <2>3. Family'
    BY <1>2, <2>1, <2>2 DEF Parts, Family, Loading, family
  <2> QED BY <1>2, <2>1, <2>3, QuietKeeps DEF Parts
<1>5. ASSUME NEW t \in Thread, ExecForks(t) PROVE Parts'
  <2>1. kid[t] \in Thread
    BY <1>2, <1>5 DEF ExecForks, Runs, At, Parts, Family, Loading
  <2> QED BY <1>2, <1>5, <2>1, ForkSteps
<1>6. ASSUME NEW t \in Thread, BeginChild(t) \/ RunUPStops(t) PROVE FALSE
  BY <1>6 DEF BeginChild, RunUPStops
<1>7. ASSUME NEW t \in Thread,
             \/ UseDisk(t) \/ BeginRunUP(t) \/ ResumeAcquire(t)
             \/ Request(t) \/ ResumeIO(t) \/ ReleaseDisk(t)
      PROVE  Parts'
  BY <1>2, <1>7, DiskSteps
<1>8. ASSUME NEW t \in Thread,
             \/ ThreadFinish(t) \/ ExitZero(t) \/ (t = Main /\ MainFinishes)
             \/ ExitOwn(t) \/ FinishExit(t) \/ ExitOwnReadies(t)
             \/ EnterUser(t) \/ ExitOther(t) \/ \E c \in Thread : Join(t, c)
      PROVE  Parts'
  BY <1>2, <1>8, OwnSteps
<1>9. ASSUME NEW t \in Thread, NEW u \in Thread,
             RunMultipleUserProg(u) \/ ThreadFork(t, u) \/ BeginSysFork(t, u) \/ ExecUnopened(t, u)
      PROVE  Parts'
  BY <1>2, <1>9, ForkSteps
<1>10. ASSUME NEW t \in Thread, NEW u \in Thread, Exec(t, u) PROVE Parts'
  BY <1>2, <1>10, ExecSteps
<1> QED BY <1>2, <1>3, <1>4, <1>5, <1>6, <1>7, <1>8, <1>9, <1>10 DEF Next

-----------------------------------------------------------------------------
LEMMA InitPInv == Init => PInv
<1> SUFFICES ASSUME Init PROVE PInv
  OBVIOUS
<1>0. Main \in Thread /\ Lock \in Sem /\ Done \in Sem /\ Lock # Done /\ NoThread \notin Thread
  BY ThreadFacts
<1>1. /\ cpu.current = Main /\ cpu.ready = <<>> /\ cpu.carcass = NoThread /\ cpu.finishing = FALSE
      /\ cpu.status = [t \in Thread |-> IF t = Main THEN "RUNNING" ELSE "JUST_CREATED"]
      /\ cpu \in Cpu
  BY <1>0 DEF Init, Boot, Cpu, Status
<1>2. /\ sem \in [Sem -> SemaphoreType]
      /\ sem[Lock].value = 1 /\ sem[Lock].queue = <<>>
      /\ sem[Done].value = 0 /\ sem[Done].queue = <<>>
  <2>1. sem = [s \in Sem |-> [value |-> InitialValue[s], queue |-> <<>>]]
    BY DEF Init, NewSemaphore
  <2>2. \A s \in Sem : InitialValue[s] = IF s = Lock THEN 1 ELSE 0
    BY ProcessAssumption
  <2>3. \A s \in Sem : [value |-> InitialValue[s], queue |-> <<>>] \in SemaphoreType
    BY <2>2 DEF SemaphoreType
  <2> QED BY <1>0, <2>1, <2>2, <2>3
<1>3. /\ pc \in [Thread -> PC] /\ \A t \in Thread : pc[t] = IF t = Main THEN "main" ELSE "none"
      /\ \A t \in Thread : pc[t] \in {"main", "none"}
      /\ active = FALSE
      /\ parent = [t \in Thread |-> NoThread] /\ childThreads = [t \in Thread |-> {}]
  BY <1>0 DEF Init, PC
<1>4. TypeOK
  <2>1. active \in BOOLEAN
    BY <1>3
  <2>2. spaceDeleted \in [Thread -> BOOLEAN]
    <3>1. spaceDeleted = [t \in Thread |-> FALSE] /\ FALSE \in BOOLEAN
      BY DEF Init
    <3> QED BY <3>1
  <2>3. /\ after \in [Thread -> {"user", "fork"}]
        /\ kid \in [Thread -> Thread \cup {NoThread}]
        /\ parent \in [Thread -> Thread \cup {NoThread}]
        /\ childThreads \in [Thread -> SUBSET Thread]
        /\ finishedChilds \in [Thread -> SUBSET Thread]
        /\ joined \in [Thread -> Thread \cup {NoThread}]
        /\ machine \in Machines
    BY DEF Init, Machines
  <2> QED BY <1>1, <1>2, <1>3, <2>1, <2>2, <2>3 DEF TypeOK, Machines
<1>5. Range(<<>>) = {}
  BY DEF Range
<1>6. IsInjective(<<>>)
  BY DEF IsInjective
<1>7. Lists(cpu, pc)
  <2>1. \A t \in Thread : cpu.status[t] = IF t = Main THEN "RUNNING" ELSE "JUST_CREATED"
    BY <1>1
  <2> QED BY <1>1, <1>3, <1>5, <1>6, <2>1 DEF Lists, Unborn
<1>8. Ends(cpu, pc)
  BY <1>0, <1>1, <1>3 DEF Ends, Idling
<1>9. Sleepers
  BY <1>1 DEF Sleepers
<1>10. Waiting
  BY <1>2, <1>5, <1>6 DEF Waiting
<1>11. Exclusive
  BY <1>2, <1>3 DEF Exclusive, Holding
<1>12. Family
  BY <1>3 DEF Family, Loading
<1> QED BY <1>4, <1>7, <1>8, <1>9, <1>10, <1>11, <1>12 DEF PInv, Scheduled

LEMMA NextPInv == PInv /\ [Next]_vars => PInv'
<1> SUFFICES ASSUME PInv, [Next]_vars PROVE PInv'
  OBVIOUS
<1>1. TypeOK'
  BY NextTypes
<1>2. CASE Next
  BY <1>1, <1>2, NextParts DEF PInv, Parts
<1>3. CASE UNCHANGED vars
  BY <1>1, <1>3 DEF PInv, vars, family, Sleepers, Waiting, Exclusive, Family, Readied, Loading
<1> QED BY <1>2, <1>3

LEMMA ProcessInvariant == Spec => []PInv
BY InitPInv, NextPInv, PTL DEF Spec

(* Every variable of the processes has its type, also when an ASSERT has      *)
(* stopped the machine.                                                       *)
THEOREM ProcessTypes == Spec => []TypeOK
<1>1. PInv => TypeOK
  BY DEF PInv
<1> QED BY <1>1, ProcessInvariant, PTL

(* Whoever is on the queue of a semaphore sleeps, or is a process that a      *)
(* child on its way through Exit_P has put on the ready list.                 *)
THEOREM QueuedThreadsSleep == Spec => []QueuedSleep
<1>1. PInv => QueuedSleep
  <2> SUFFICES ASSUME PInv, machine = "runs",
                      NEW s \in Sem, NEW t \in Range(sem[s].queue)
               PROVE  cpu.status[t] = "BLOCKED" \/ Readied(t)
    BY DEF QueuedSleep, Readied
  <2>1. s = Lock \/ s = Done
    BY ThreadFacts
  <2> QED BY <2>1 DEF PInv, Waiting
<1> QED BY <1>1, ProcessInvariant, PTL

(* However many processes there are, nobody sleeps where nothing would wake   *)
(* it; and nobody ever sleeps in Join.                                        *)
THEOREM NobodyIsStranded == Spec => []NobodyStranded
<1>1. PInv => NobodyStranded
  BY DEF PInv, NobodyStranded, Sleepers
<1> QED BY <1>1, ProcessInvariant, PTL

(* The disk has at most one owner, whomever Exit_P readies, and its owner     *)
(* does not return before its own interrupt.                                  *)
THEOREM OneOwnerOfDisk == Spec => []DiskStaysExclusive
<1>1. PInv => DiskStaysExclusive
  <2> SUFFICES ASSUME PInv, machine = "runs"
               PROVE  /\ Cardinality(DiskOwners) + sem[Lock].value = 1
                      /\ \A t \in DiskOwners :
                           sem[Done].value = IF pc[t] = "io" /\ ~active THEN 1 ELSE 0
    BY DEF DiskStaysExclusive
  <2>1. Exclusive
    BY DEF PInv
  <2>2. DiskOwners = {t \in Thread : pc[t] \in Holding}
    BY DEF DiskOwners, Holding
  <2>3. Cardinality(DiskOwners) + sem[Lock].value = 1
    <3>1. CASE sem[Lock].value = 1 /\ \A t \in Thread : pc[t] \notin Holding
      <4>1. DiskOwners = {}
        BY <2>2, <3>1
      <4> QED BY <3>1, <4>1, FS_EmptySet
    <3>2. CASE /\ sem[Lock].value = 0
               /\ \E t \in Thread : pc[t] \in Holding /\ \A u \in Thread \ {t} : pc[u] \notin Holding
      <4>1. PICK t \in Thread : DiskOwners = {t}
        BY <2>2, <3>2
      <4> QED BY <3>2, <4>1, FS_Singleton
    <3> QED BY <2>1, <3>1, <3>2 DEF Exclusive
  <2>4. ASSUME NEW t \in DiskOwners
        PROVE  sem[Done].value = IF pc[t] = "io" /\ ~active THEN 1 ELSE 0
    <3>1. t \in Thread /\ pc[t] \in Holding
      BY <2>2
    <3>2. CASE pc[t] = "io"
      BY <2>1, <3>1, <3>2 DEF Exclusive
    <3>3. CASE pc[t] # "io"
      <4>1. \A u \in Thread : pc[u] # "io"
        BY <2>1, <3>1, <3>3 DEF Exclusive, Holding
      <4> QED BY <2>1, <3>3, <4>1 DEF Exclusive
    <3> QED BY <3>2, <3>3
  <2> QED BY <2>3, <2>4
<1> QED BY <1>1, ProcessInvariant, PTL

-----------------------------------------------------------------------------
(* The clock.  A set of natural numbers has a least one: SortedList::Insert   *)
(* finds its place.                                                           *)
LEMMA LeastOf ==
  ASSUME NEW T \in SUBSET Nat, T # {}
  PROVE  Min(T) \in T /\ \A y \in T : Min(T) <= y
<1> DEFINE R == {ss \in Nat \X Nat : ss[1] < ss[2]}
<1>1. IsWellFoundedOn(R, Nat)
  BY NatLessThanWellFounded DEF OpToRel
<1>2. \E x \in T : \A y \in T : ~(<<y, x>> \in R)
  <2> HIDE DEF R
  <2> QED BY <1>1, WFMin
<1>3. ASSUME NEW x \in Nat, NEW y \in Nat, ~(<<y, x>> \in R) PROVE x <= y
  BY <1>3
<1>4. \E x \in T : \A y \in T : x <= y
  BY <1>2, <1>3
<1> QED BY <1>4 DEF Min

PendingInterrupt == [type : Device, when : Nat, since : Nat]

Sorted(q) ==
  \A i, j \in DOMAIN q : i < j =>
    \/ q[i].when < q[j].when
    \/ q[i].when = q[j].when /\ q[i].since <= q[j].since

NoneOf(q, d) == \A i \in DOMAIN q : q[i].type # d
OneOf(q, d) ==
  \E i \in DOMAIN q : q[i].type = d /\ \A j \in DOMAIN q : q[j].type = d => j = i

LEMMA ConcatFacts ==
  ASSUME NEW S, NEW a \in Seq(S), NEW b \in Seq(S)
  PROVE  /\ a \o b \in Seq(S) /\ Len(a \o b) = Len(a) + Len(b)
         /\ \A i \in 1 .. Len(a) : (a \o b)[i] = a[i]
         /\ \A i \in Len(a) + 1 .. Len(a) + Len(b) : (a \o b)[i] = b[i - Len(a)]
OBVIOUS

(* Insert keeps the list in order when nothing on it was scheduled later.     *)
LEMMA InsertPlace ==
  ASSUME NEW q \in Seq(PendingInterrupt), Sorted(q), NEW p \in PendingInterrupt,
         \A i \in DOMAIN q : q[i].since <= p.since
  PROVE  \E k \in 1 .. Len(q) + 1 :
           /\ Insert(q, p) \in Seq(PendingInterrupt)
           /\ Len(Insert(q, p)) = Len(q) + 1
           /\ \A i \in 1 .. Len(q) + 1 :
                Insert(q, p)[i] = IF i < k THEN q[i] ELSE IF i = k THEN p ELSE q[i - 1]
           /\ \A i \in 1 .. Len(q) : i < k => q[i].when <= p.when
           /\ \A i \in 1 .. Len(q) : i >= k => q[i].when > p.when
<1> DEFINE n == Len(q)
           T == {i \in DOMAIN q : q[i].when > p.when} \cup {n + 1}
           k == Min(T)
<1>1. /\ n \in Nat /\ DOMAIN q = 1 .. n
      /\ \A i \in 1 .. n : q[i] \in PendingInterrupt
  OBVIOUS
<1>2. T \in SUBSET Nat /\ T # {}
  BY <1>1
<1>3. k \in T /\ \A i \in T : k <= i
  <2> HIDE DEF T
  <2> QED BY <1>2, LeastOf
<1> HIDE DEF k
<1>4. /\ k \in 1 .. n + 1
      /\ k # n + 1 => q[k].when > p.when
      /\ \A i \in 1 .. n : q[i].when > p.when => k <= i
  BY <1>1, <1>3
<1> HIDE DEF T
<1>5. \A i \in 1 .. n : i < k => q[i].when <= p.when
  <2> SUFFICES ASSUME NEW i \in 1 .. n, i < k PROVE q[i].when <= p.when
    OBVIOUS
  <2>1. ~(q[i].when > p.when)
    BY <1>1, <1>4
  <2>2. q[i].when \in Nat /\ p.when \in Nat
    BY <1>1 DEF PendingInterrupt
  <2> QED BY <2>1, <2>2
<1>6. \A i \in 1 .. n : i >= k => q[i].when > p.when
  <2> SUFFICES ASSUME NEW i \in 1 .. n, i >= k PROVE q[i].when > p.when
    OBVIOUS
  <2>1. k \in 1 .. n /\ q[k].when > p.when
    BY <1>1, <1>4
  <2>2. q[k].when \in Nat /\ q[i].when \in Nat /\ p.when \in Nat
    BY <1>1, <2>1 DEF PendingInterrupt
  <2>3. k < i => q[k].when < q[i].when \/ q[k].when = q[i].when
    BY <1>1, <2>1 DEF Sorted
  <2> QED BY <1>1, <2>1, <2>2, <2>3
<1>7. Insert(q, p) = SubSeq(q, 1, k - 1) \o <<p>> \o SubSeq(q, k, n)
  BY DEF Insert, InsertAt, k, T
<1>8. /\ SubSeq(q, 1, k - 1) \in Seq(PendingInterrupt) /\ Len(SubSeq(q, 1, k - 1)) = k - 1
      /\ \A i \in 1 .. k - 1 : SubSeq(q, 1, k - 1)[i] = q[i]
      /\ SubSeq(q, k, n) \in Seq(PendingInterrupt) /\ Len(SubSeq(q, k, n)) = n - k + 1
      /\ \A i \in 1 .. n - k + 1 : SubSeq(q, k, n)[i] = q[k + i - 1]
  BY <1>1, <1>4
<1> DEFINE a == SubSeq(q, 1, k - 1)
           b == SubSeq(q, k, n)
           r == a \o <<p>>
<1>9. /\ r \in Seq(PendingInterrupt) /\ Len(r) = k
      /\ \A i \in 1 .. k : r[i] = IF i < k THEN q[i] ELSE p
  <2> HIDE DEF a
  <2>1. a \in Seq(PendingInterrupt) /\ Len(a) = k - 1 /\ \A i \in 1 .. k - 1 : a[i] = q[i]
    BY <1>8 DEF a
  <2>2. <<p>> \in Seq(PendingInterrupt) /\ Len(<<p>>) = 1 /\ <<p>>[1] = p
    OBVIOUS
  <2> QED BY <1>1, <1>4, <2>1, <2>2
<1>10. /\ r \o b \in Seq(PendingInterrupt) /\ Len(r \o b) = n + 1
       /\ \A i \in 1 .. n + 1 : (r \o b)[i] = IF i < k THEN q[i] ELSE IF i = k THEN p ELSE q[i - 1]
  <2> HIDE DEF r, b
  <2>1. /\ b \in Seq(PendingInterrupt) /\ Len(b) = n - k + 1
        /\ \A i \in 1 .. n - k + 1 : b[i] = q[k + i - 1]
    BY <1>8 DEF b
  <2>2. r \o b \in Seq(PendingInterrupt) /\ Len(r \o b) = n + 1
    <3>1. r \o b \in Seq(PendingInterrupt) /\ Len(r \o b) = Len(r) + Len(b)
      BY <1>9, <2>1, ConcatFacts
    <3> QED BY <1>1, <1>4, <1>9, <2>1, <3>1
  <2>3. ASSUME NEW i \in 1 .. n + 1, i <= k
        PROVE  (r \o b)[i] = IF i < k THEN q[i] ELSE p
    <3>1. i \in 1 .. Len(r)
      BY <1>1, <1>4, <1>9, <2>3
    <3>2. (r \o b)[i] = r[i]
      BY <1>9, <2>1, <3>1, ConcatFacts
    <3> QED BY <1>9, <3>1, <3>2
  <2>4. ASSUME NEW i \in 1 .. n + 1, i > k
        PROVE  (r \o b)[i] = q[i - 1]
    <3>1. (r \o b)[i] = b[i - k]
      <4>1. i \in Len(r) + 1 .. Len(r) + Len(b)
        BY <1>1, <1>4, <1>9, <2>1, <2>4
      <4>2. (r \o b)[i] = b[i - Len(r)]
        BY <1>9, <2>1, <4>1, ConcatFacts
      <4> QED BY <1>9, <4>2
    <3>2. i - k \in 1 .. n - k + 1 /\ k + (i - k) - 1 = i - 1
      BY <1>1, <1>4, <2>4
    <3> QED BY <2>1, <3>1, <3>2
  <2> QED BY <1>1, <1>4, <2>2, <2>3, <2>4
<1>11. Insert(q, p) = r \o b
  BY <1>7
<1> QED BY <1>4, <1>5, <1>6, <1>10, <1>11

LEMMA InsertFacts ==
  ASSUME NEW q \in Seq(PendingInterrupt), Sorted(q), NEW p \in PendingInterrupt,
         \A i \in DOMAIN q : q[i].since <= p.since
  PROVE  LET r == Insert(q, p) IN
         /\ r \in Seq(PendingInterrupt) /\ r # <<>> /\ Sorted(r)
         /\ \A i \in DOMAIN r : r[i] = p \/ \E j \in DOMAIN q : r[i] = q[j]
         /\ \A j \in DOMAIN q : \E i \in DOMAIN r : r[i] = q[j]
         /\ NoneOf(q, p.type) => OneOf(r, p.type)
         /\ \A d : d # p.type => (NoneOf(q, d) => NoneOf(r, d)) /\ (OneOf(q, d) => OneOf(r, d))
<1> DEFINE r == Insert(q, p)
<1>1. PICK k \in 1 .. Len(q) + 1 :
        /\ r \in Seq(PendingInterrupt)
        /\ Len(r) = Len(q) + 1
        /\ \A i \in 1 .. Len(q) + 1 :
             r[i] = IF i < k THEN q[i] ELSE IF i = k THEN p ELSE q[i - 1]
        /\ \A i \in 1 .. Len(q) : i < k => q[i].when <= p.when
        /\ \A i \in 1 .. Len(q) : i >= k => q[i].when > p.when
  BY InsertPlace
<1> HIDE DEF r
<1>2. /\ Len(q) \in Nat /\ DOMAIN q = 1 .. Len(q) /\ DOMAIN r = 1 .. Len(q) + 1
      /\ \A i \in 1 .. Len(q) : q[i] \in PendingInterrupt
      /\ r # <<>>
  BY <1>1
<1>3. k \in 1 .. Len(q) + 1 /\ r[k] = p
  BY <1>1
<1>4. ASSUME NEW i \in 1 .. Len(q) + 1, i < k
       PROVE  i \in 1 .. Len(q) /\ r[i] = q[i] /\ q[i].when <= p.when
  <2>1. i \in 1 .. Len(q)
    BY <1>2, <1>3, <1>4
  <2> QED BY <1>1, <1>4, <2>1
<1>5. ASSUME NEW i \in 1 .. Len(q) + 1, i > k
       PROVE  i - 1 \in 1 .. Len(q) /\ r[i] = q[i - 1] /\ q[i - 1].when > p.when
  <2>1. i - 1 \in 1 .. Len(q) /\ i - 1 >= k
    BY <1>2, <1>3, <1>5
  <2>2. r[i] = q[i - 1]
    BY <1>1, <1>3, <1>5
  <2> QED BY <1>1, <2>1, <2>2
<1>6. Sorted(r)
  <2> SUFFICES ASSUME NEW i \in 1 .. Len(q) + 1, NEW j \in 1 .. Len(q) + 1, i < j
               PROVE  \/ r[i].when < r[j].when
                      \/ r[i].when = r[j].when /\ r[i].since <= r[j].since
    BY <1>2 DEF Sorted
  <2>1. CASE j < k
    <3>1. i < k
      BY <1>2, <1>3, <2>1
    <3>2. /\ i \in 1 .. Len(q) /\ r[i] = q[i]
          /\ j \in 1 .. Len(q) /\ r[j] = q[j]
      BY <1>4, <2>1, <3>1
    <3> QED BY <1>2, <3>2 DEF Sorted
  <2>2. CASE j = k
    <3>1. r[i] = q[i] /\ i \in 1 .. Len(q) /\ q[i].when <= p.when /\ r[j] = p
      BY <1>3, <1>4, <2>2
    <3>2. q[i].since <= p.since /\ q[i] \in PendingInterrupt
      BY <1>2, <3>1
    <3> QED BY <3>1, <3>2 DEF PendingInterrupt
  <2>3. CASE j > k
    <3>1. r[j] = q[j - 1] /\ j - 1 \in 1 .. Len(q) /\ q[j - 1].when > p.when
      BY <1>5, <2>3
    <3>2. CASE i < k
      <4>1. i \in 1 .. Len(q) /\ r[i] = q[i]
        BY <1>4, <3>2
      <4>2. i < j - 1
        BY <1>2, <1>3, <2>3, <3>2
      <4> QED BY <1>2, <3>1, <4>1, <4>2 DEF Sorted
    <3>3. CASE i = k
      <4>1. r[i] = p
        BY <1>3, <3>3
      <4>2. p.when \in Nat /\ q[j - 1].when \in Nat
        BY <1>2, <3>1 DEF PendingInterrupt
      <4> QED BY <3>1, <4>1, <4>2
    <3>4. CASE i > k
      <4>1. i - 1 \in 1 .. Len(q) /\ r[i] = q[i - 1]
        BY <1>5, <3>4
      <4>2. i - 1 < j - 1
        BY <1>2
      <4> QED BY <1>2, <3>1, <4>1, <4>2 DEF Sorted
    <3> QED BY <1>2, <1>3, <3>2, <3>3, <3>4
  <2> QED BY <1>2, <1>3, <2>1, <2>2, <2>3
<1>7. \A i \in DOMAIN r : r[i] = p \/ \E j \in DOMAIN q : r[i] = q[j]
  <2> SUFFICES ASSUME NEW i \in 1 .. Len(q) + 1 PROVE r[i] = p \/ \E j \in 1 .. Len(q) : r[i] = q[j]
    BY <1>2
  <2>1. CASE i < k
    BY <1>4, <2>1
  <2>2. CASE i > k
    BY <1>5, <2>2
  <2> QED BY <1>2, <1>3, <2>1, <2>2
(* Where the entry at place j of the list goes. *)
<1> DEFINE to(j) == IF j < k THEN j ELSE j + 1
<1>8. /\ \A j \in 1 .. Len(q) : to(j) \in 1 .. Len(q) + 1 /\ r[to(j)] = q[j]
      /\ \A i \in 1 .. Len(q) + 1 : i = k \/ \E j \in 1 .. Len(q) : i = to(j)
  <2>1. ASSUME NEW j \in 1 .. Len(q), j < k PROVE to(j) \in 1 .. Len(q) + 1 /\ r[to(j)] = q[j]
    <3>1. to(j) = j /\ j \in 1 .. Len(q) + 1
      BY <1>2, <2>1
    <3> QED BY <1>4, <2>1, <3>1
  <2>2. ASSUME NEW j \in 1 .. Len(q), ~(j < k) PROVE to(j) \in 1 .. Len(q) + 1 /\ r[to(j)] = q[j]
    <3>1. to(j) = j + 1 /\ j + 1 \in 1 .. Len(q) + 1 /\ j + 1 > k /\ (j + 1) - 1 = j
      BY <1>2, <1>3, <2>2
    <3> QED BY <1>5, <3>1
  <2>3. ASSUME NEW i \in 1 .. Len(q) + 1, i # k PROVE \E j \in 1 .. Len(q) : i = to(j)
    <3>1. CASE i < k
      BY <1>4, <3>1
    <3>2. CASE i > k
      <4>1. i - 1 \in 1 .. Len(q)
        BY <1>5, <3>2
      <4>2. i = to(i - 1)
        BY <1>2, <1>3, <3>2, <4>1
      <4> QED BY <4>1, <4>2
    <3> QED BY <1>2, <1>3, <2>3, <3>1, <3>2
  <2> QED BY <2>1, <2>2, <2>3
<1> HIDE DEF to
<1>9. \A j \in DOMAIN q : \E i \in DOMAIN r : r[i] = q[j]
  BY <1>2, <1>8
<1>10. NoneOf(q, p.type) => OneOf(r, p.type)
  <2> SUFFICES ASSUME NoneOf(q, p.type)
               PROVE  r[k].type = p.type /\ \A i \in 1 .. Len(q) + 1 : r[i].type = p.type => i = k
    BY <1>2, <1>3 DEF OneOf
  <2>1. \A j \in 1 .. Len(q) : q[j].type # p.type
    BY <1>2 DEF NoneOf
  <2> QED BY <1>8, <1>3, <2>1
<1>11. ASSUME NEW d, d # p.type
      PROVE  (NoneOf(q, d) => NoneOf(r, d)) /\ (OneOf(q, d) => OneOf(r, d))
  <2>1. ASSUME NoneOf(q, d) PROVE NoneOf(r, d)
    <3>1. \A j \in 1 .. Len(q) : q[j].type # d
      BY <1>2, <2>1 DEF NoneOf
    <3>2. \A i \in 1 .. Len(q) + 1 : r[i].type # d
      BY <1>8, <1>3, <1>11, <3>1
    <3> QED BY <1>2, <3>2 DEF NoneOf
  <2>2. ASSUME OneOf(q, d) PROVE OneOf(r, d)
    <3>1. PICK m \in 1 .. Len(q) : q[m].type = d /\ \A j \in 1 .. Len(q) : q[j].type = d => j = m
      BY <1>2, <2>2 DEF OneOf
    <3>2. to(m) \in 1 .. Len(q) + 1 /\ r[to(m)].type = d
      BY <1>8, <3>1
    <3>3. \A i \in 1 .. Len(q) + 1 : r[i].type = d => i = to(m)
      <4> SUFFICES ASSUME NEW i \in 1 .. Len(q) + 1, r[i].type = d PROVE i = to(m)
        OBVIOUS
      <4>1. i # k
        BY <1>3, <1>11
      <4>2. PICK j \in 1 .. Len(q) : i = to(j)
        BY <1>8, <4>1
      <4> QED BY <1>8, <3>1, <4>2
    <3> QED BY <1>2, <3>2, <3>3 DEF OneOf
  <2> QED BY <2>1, <2>2
<1> QED BY <1>1, <1>2, <1>6, <1>7, <1>9, <1>10, <1>11 DEF r

(* Tail keeps it in order; what was at the front is the first to be due.      *)
LEMMA TailOfSorted ==
  ASSUME NEW q \in Seq(PendingInterrupt), Sorted(q), q # <<>>
  PROVE  /\ Head(q) = q[1] /\ Head(q) \in PendingInterrupt /\ 1 \in DOMAIN q
         /\ \A i \in DOMAIN q : Head(q).when <= q[i].when
         /\ Tail(q) \in Seq(PendingInterrupt) /\ Sorted(Tail(q))
         /\ \A i \in DOMAIN Tail(q) : \E j \in DOMAIN q : Tail(q)[i] = q[j]
         /\ OneOf(q, Head(q).type) => NoneOf(Tail(q), Head(q).type)
         /\ \A d : NoneOf(q, d) => NoneOf(Tail(q), d)
         /\ \A d : d # Head(q).type /\ OneOf(q, d) => OneOf(Tail(q), d)
         /\ \A d : d # Head(q).type /\ NoneOf(Tail(q), d) => NoneOf(q, d)
<1> DEFINE t == Tail(q)
<1>1. /\ Len(q) \in Nat \ {0} /\ DOMAIN q = 1 .. Len(q) /\ DOMAIN t = 1 .. Len(q) - 1
      /\ Head(q) = q[1] /\ t \in Seq(PendingInterrupt)
      /\ \A i \in 1 .. Len(q) - 1 : t[i] = q[i + 1]
      /\ \A i \in 1 .. Len(q) : q[i] \in PendingInterrupt
  OBVIOUS
<1>2. Head(q) \in PendingInterrupt /\ 1 \in DOMAIN q
  BY <1>1
<1>3. \A i \in DOMAIN q : Head(q).when <= q[i].when
  <2> SUFFICES ASSUME NEW i \in 1 .. Len(q) PROVE q[1].when <= q[i].when
    BY <1>1
  <2>1. q[1].when \in Nat /\ q[i].when \in Nat
    BY <1>1 DEF PendingInterrupt
  <2>2. 1 < i => q[1].when < q[i].when \/ q[1].when = q[i].when
    BY <1>1 DEF Sorted
  <2> QED BY <1>1, <2>1, <2>2
<1> HIDE DEF t
<1>4. Sorted(t)
  <2> SUFFICES ASSUME NEW i \in 1 .. Len(q) - 1, NEW j \in 1 .. Len(q) - 1, i < j
               PROVE  \/ t[i].when < t[j].when
                      \/ t[i].when = t[j].when /\ t[i].since <= t[j].since
    BY <1>1 DEF Sorted
  <2>1. i + 1 \in 1 .. Len(q) /\ j + 1 \in 1 .. Len(q) /\ i + 1 < j + 1
    BY <1>1
  <2>2. t[i] = q[i + 1] /\ t[j] = q[j + 1]
    BY <1>1
  <2>3. \/ q[i + 1].when < q[j + 1].when
        \/ q[i + 1].when = q[j + 1].when /\ q[i + 1].since <= q[j + 1].since
    BY <1>1, <2>1 DEF Sorted
  <2> QED BY <2>2, <2>3
<1>5. \A i \in 1 .. Len(q) - 1 : i + 1 \in 1 .. Len(q) /\ i + 1 # 1 /\ t[i] = q[i + 1]
  BY <1>1
<1>6. \A i \in DOMAIN t : \E j \in DOMAIN q : t[i] = q[j]
  BY <1>1, <1>5
<1>7. OneOf(q, Head(q).type) => NoneOf(t, Head(q).type)
  BY <1>1, <1>2, <1>5 DEF OneOf, NoneOf
<1>8. \A d : NoneOf(q, d) => NoneOf(t, d)
  BY <1>1, <1>5 DEF NoneOf
<1>9. ASSUME NEW d, d # Head(q).type, OneOf(q, d) PROVE OneOf(t, d)
  <2>1. PICK i \in 1 .. Len(q) : q[i].type = d /\ \A j \in 1 .. Len(q) : q[j].type = d => j = i
    BY <1>1, <1>9 DEF OneOf
  <2>2. i # 1
    BY <1>1, <1>9, <2>1
  <2>3. i - 1 \in 1 .. Len(q) - 1 /\ t[i - 1] = q[i]
    BY <1>1, <2>2
  <2>4. \A j \in 1 .. Len(q) - 1 : t[j].type = d => j = i - 1
    BY <1>1, <1>5, <2>1
  <2> QED BY <1>1, <2>1, <2>3, <2>4 DEF OneOf
<1>10. ASSUME NEW d, d # Head(q).type, NoneOf(t, d) PROVE NoneOf(q, d)
  <2> SUFFICES ASSUME NEW i \in 1 .. Len(q), i # 1 PROVE q[i].type # d
    BY <1>1, <1>10 DEF NoneOf
  <2>1. i - 1 \in 1 .. Len(q) - 1 /\ t[i - 1] = q[i]
    BY <1>1
  <2> QED BY <1>1, <1>10, <2>1 DEF NoneOf
<1> QED BY <1>1, <1>2, <1>3, <1>4, <1>6, <1>7, <1>8, <1>9, <1>10 DEF t

-----------------------------------------------------------------------------
(* Arithmetic of multiples: a turn of the disk is R ticks, a track S sectors. *)
LEMMA Quotients ==
  ASSUME NEW R \in Nat \ {0}, NEW a \in Int
  PROVE  /\ a \div R \in Int /\ a % R \in 0 .. R - 1
         /\ a = (a \div R) * R + (a % R)
<1> DEFINE k == a \div R
           r == a % R
           m == k * R
<1>1. k \in Int /\ r \in 0 .. R - 1
  OBVIOUS
<1>2. r = a - m
  OBVIOUS
<1> HIDE DEF k
<1>3. m \in Int
  BY <1>1
<1> HIDE DEF r, m
<1>4. a = m + r
  BY <1>1, <1>2, <1>3
<1> QED BY <1>1, <1>4 DEF k, r, m

LEMMA QuotientIs ==
  ASSUME NEW R \in Nat \ {0}, NEW a \in Int, NEW k \in Int, NEW r \in 0 .. R - 1, a = k * R + r
  PROVE  a \div R = k /\ a % R = r
OBVIOUS

LEMMA Multiples ==
  ASSUME NEW R \in Nat \ {0}, NEW a \in Int, NEW b \in Int
  PROVE  /\ a * R \in Int /\ a * R + R = (a + 1) * R /\ (a + b) * R = a * R + b * R
         /\ a <= b => a * R <= b * R
         /\ a * R <= b => a <= b \div R
         /\ (a * R) \div R = a /\ (a * R) % R = 0
         /\ a \in Nat => a * R \in Nat
<1>1. a * R \in Int /\ a * R + R = (a + 1) * R /\ (a + b) * R = a * R + b * R
  OBVIOUS
<1>2. a <= b => a * R <= b * R
  OBVIOUS
<1>3. a * R <= b => a <= b \div R
  OBVIOUS
<1>4. (a * R) \div R = a /\ (a * R) % R = 0
  OBVIOUS
<1>5. a \in Nat => a * R \in Nat
  OBVIOUS
<1> QED BY <1>1, <1>2, <1>3, <1>4, <1>5

(* ModuloDiff is the way from one sector to another on a track.               *)
LEMMA ModuloDiffFacts ==
  ASSUME NEW to \in Int, NEW from \in Int
  PROVE  /\ ModuloDiff(to, from) \in 0 .. SectorsPerTrack - 1
         /\ (from + ModuloDiff(to, from)) % SectorsPerTrack = to % SectorsPerTrack
<1> DEFINE S == SectorsPerTrack
           x == to % S
           y == from % S
           q == from \div S
           d == ModuloDiff(to, from)
<1>1. S \in Nat \ {0}
  BY ClockAssumption
<1>2. x \in 0 .. S - 1 /\ y \in 0 .. S - 1 /\ q \in Int /\ from = q * S + y
  BY <1>1, Quotients
<1>3. d = (x - y + S) % S
  BY DEF ModuloDiff
<1> HIDE DEF S, x, y, q, d
<1>4. CASE x >= y
  <2>1. x - y + S = 1 * S + (x - y) /\ x - y \in 0 .. S - 1 /\ x - y + S \in Int
    BY <1>1, <1>2, <1>4
  <2>2. d = x - y
    <3> DEFINE e == x - y + S
               r == x - y
    <3>1. e \in Int /\ r \in 0 .. S - 1 /\ e = 1 * S + r
      BY <2>1
    <3> HIDE DEF e, r
    <3>2. e % S = r
      BY ONLY <1>1, <3>1, QuotientIs, 1 \in Int
    <3> QED BY <1>3, <3>2 DEF e, r
  <2>3. from + d = q * S + x /\ from + d \in Int
    BY <1>1, <1>2, <2>2
  <2>4. (from + d) % S = x
    BY <1>1, <1>2, <2>3, QuotientIs
  <2> QED BY <2>1, <2>2, <2>4 DEF S, x, d
<1>5. CASE x < y
  <2>1. x - y + S = 0 * S + (x - y + S) /\ x - y + S \in 0 .. S - 1 /\ x - y + S \in Int
    BY <1>1, <1>2, <1>5
  <2>2. d = x - y + S
    BY <1>1, <1>3, <2>1, QuotientIs
  <2>3. from + d = (q + 1) * S + x /\ from + d \in Int /\ q + 1 \in Int
    <3>1. q * S \in Int /\ q * S + S = (q + 1) * S
      BY <1>1, <1>2, Multiples
    <3> QED BY <1>1, <1>2, <2>2, <3>1
  <2>4. (from + d) % S = x
    BY <1>1, <1>2, <2>3, QuotientIs
  <2> QED BY <2>1, <2>2, <2>4 DEF S, x, d
<1> QED BY <1>1, <1>2, <1>4, <1>5

(* Rotation is the rest of the sector under the head when the seek is over.   *)
LEMMA RotationFacts ==
  ASSUME NEW s, totalTicks \in Nat, Seek(s) \in Nat
  PROVE  /\ Rotation(s) \in 0 .. RotationTime - 1
         /\ \E k \in Nat : totalTicks + Seek(s) + Rotation(s) = k * RotationTime
<1> DEFINE R == RotationTime
           a == totalTicks + Seek(s)
           k == a \div R
<1>1. R \in Nat \ {0} /\ a \in Nat
  BY ClockAssumption
<1>2. Rotation(s) = IF a % R > 0 THEN R - (a % R) ELSE 0
  BY ZenonT(30) DEF Rotation
<1> HIDE DEF R, a
<1>3. a % R \in 0 .. R - 1 /\ k \in Int /\ a = k * R + (a % R)
  BY <1>1, Quotients
<1>4. k \in Nat
  <2>1. 0 <= a \div R
    <3>1. 0 * R <= a
      BY <1>1
    <3> QED BY <1>1, <3>1, Multiples
  <2> QED BY <1>3, <2>1
<1> HIDE DEF k
<1>5. CASE a % R = 0
  <2>1. Rotation(s) = 0
    BY <1>2, <1>5
  <2>2. a + Rotation(s) = k * R
    <3> DEFINE m == k * R
    <3>1. m \in Int /\ a = m + 0
      BY <1>1, <1>3, <1>4, <1>5
    <3> HIDE DEF m
    <3> QED BY <2>1, <3>1 DEF m
  <2> QED BY <1>1, <1>4, <2>1, <2>2 DEF R, a
<1>6. CASE a % R > 0
  <2>1. Rotation(s) = R - (a % R)
    BY <1>2, <1>6
  <2>2. k * R \in Int /\ k * R + R = (k + 1) * R
    BY <1>1, <1>4, Multiples
  <2>3. Rotation(s) \in 0 .. R - 1 /\ a + Rotation(s) = (k + 1) * R /\ k + 1 \in Nat
    <3> DEFINE m == k * R
               r == a % R
               next == (k + 1) * R
    <3>1. m \in Int /\ r \in 1 .. R - 1 /\ a = m + r /\ next = m + R /\ Rotation(s) = R - r
      BY <1>1, <1>3, <1>4, <1>6, <2>1, <2>2
    <3> HIDE DEF m, r, next
    <3>2. Rotation(s) \in 0 .. R - 1 /\ a + Rotation(s) = next
      BY <1>1, <3>1
    <3> QED BY <1>4, <3>2 DEF next
  <2> QED BY <2>3 DEF R, a
<1> QED BY <1>1, <1>3, <1>5, <1>6

-----------------------------------------------------------------------------
(* The parts of the invariant of the clock.  The list is in order, with the   *)
(* timer on it.                                                               *)
Listed ==
  /\ Sorted(pending) /\ OneOf(pending, "Timer")
  /\ \A i \in DOMAIN pending : pending[i].since <= totalTicks

(* What is pending is due in time, ... *)
Timely ==
  \A i \in DOMAIN pending :
    IF ~inHandler THEN pending[i].when > totalTicks
    ELSE IF status = "IdleMode" THEN pending[i].when >= totalTicks
    ELSE pending[i].when > totalTicks - Tick

(* ... the loop of CheckIfDue goes on while something is, and the machine is  *)
(* idle in that loop only.                                                    *)
Looping ==
  /\ status = "IdleMode" => inHandler
  /\ inHandler => Due(pending, totalTicks)

(* The track buffer begins with a sector, after the head is on the track,     *)
(* which it is when a request is over.                                        *)
Turning ==
  /\ \E b \in Nat : bufferInit = b * RotationTime
  /\ onTrack <= bufferInit
  /\ \A i \in DOMAIN pending : pending[i].type = "Disk" => onTrack <= pending[i].when
  /\ NoneOf(pending, "Disk") => onTrack <= totalTicks

(* SectorPasses for one request. *)
Reached(p, write, track) == IF write THEN Max({p.since, track}) ELSE track
Passed(p, write, track, s) ==
  /\ \E n \in 0 .. p.when \div RotationTime - 1 :
       /\ n % SectorsPerTrack = s % SectorsPerTrack
       /\ n * RotationTime >= Reached(p, write, track)
       /\ (n + 1) * RotationTime <= p.when
  /\ p.when < Max({p.since, track}) + (SectorsPerTrack + 1) * RotationTime

ClockInv ==
  InterruptsTypeOK /\ Listed /\ Timely /\ Looping /\ Turning /\ SectorPasses

LEMMA MaxOf ==
  ASSUME NEW a \in Nat, NEW b \in Nat
  PROVE  Max({a, b}) = IF a >= b THEN a ELSE b
<1>1. CASE a >= b
  BY <1>1 DEF Max
<1>2. CASE ~(a >= b)
  BY <1>2 DEF Max
<1> QED BY <1>1, <1>2

LEMMA PassedIs ==
  SectorPasses <=> \A i \in DOMAIN pending :
                     pending[i].type = "Disk" => Passed(pending[i], writing, onTrack, lastSector)
BY DEF SectorPasses, Passed, Reached

LEMMA ScheduleFacts ==
  ASSUME NEW q \in Seq(PendingInterrupt), Sorted(q), totalTicks \in Nat,
         \A i \in DOMAIN q : q[i].since <= totalTicks,
         NEW d \in Device, NEW delay \in Nat
  PROVE  LET r == Schedule(q, d, delay) IN
         /\ r \in Seq(PendingInterrupt) /\ r # <<>> /\ Sorted(r)
         /\ \A i \in DOMAIN r :
              \/ r[i] = [type |-> d, when |-> totalTicks + delay, since |-> totalTicks]
              \/ \E j \in DOMAIN q : r[i] = q[j]
         /\ \A i \in DOMAIN r : r[i].since <= totalTicks
         /\ NoneOf(q, d) => OneOf(r, d)
         /\ \A e : e # d => (NoneOf(q, e) => NoneOf(r, e)) /\ (OneOf(q, e) => OneOf(r, e))
         /\ \A e : NoneOf(r, e) => NoneOf(q, e)
<1> DEFINE p == [type |-> d, when |-> totalTicks + delay, since |-> totalTicks]
           r == Schedule(q, d, delay)
<1>1. p \in PendingInterrupt /\ p.type = d /\ p.since = totalTicks
  BY DEF PendingInterrupt
<1>2. r = Insert(q, p)
  BY DEF Schedule
<1> HIDE DEF p, r
<1>3. /\ r \in Seq(PendingInterrupt) /\ r # <<>> /\ Sorted(r)
      /\ \A i \in DOMAIN r : r[i] = p \/ \E j \in DOMAIN q : r[i] = q[j]
      /\ NoneOf(q, p.type) => OneOf(r, p.type)
      /\ \A e : e # p.type => (NoneOf(q, e) => NoneOf(r, e)) /\ (OneOf(q, e) => OneOf(r, e))
  BY <1>1, <1>2, InsertFacts
<1>4. \A i \in DOMAIN r : r[i].since <= totalTicks
  BY <1>1, <1>3
<1>5. \A j \in DOMAIN q : \E i \in DOMAIN r : r[i] = q[j]
  BY <1>1, <1>2, InsertFacts
<1>6. \A e : NoneOf(r, e) => NoneOf(q, e)
  BY <1>5 DEF NoneOf
<1> QED BY <1>1, <1>3, <1>4, <1>6 DEF p, r

LEMMA ClockTypes ==
  ASSUME InterruptsTypeOK
  PROVE  /\ totalTicks \in Nat /\ pending \in Seq(PendingInterrupt)
         /\ bufferInit \in Nat /\ onTrack \in Nat /\ lastSector \in Int
         /\ \A i \in DOMAIN pending : pending[i] \in PendingInterrupt
<1>1. pending \in Seq(PendingInterrupt)
  BY DEF InterruptsTypeOK, PendingInterrupt
<1>2. \A i \in DOMAIN pending : pending[i] \in PendingInterrupt
  BY <1>1
<1> QED BY <1>1, <1>2, ClockAssumption DEF InterruptsTypeOK, Sector

(* The parts about the disk, when nothing but the list changes, and on it the *)
(* requests for the disk only go.                                             *)
LEMMA DiskKeeps ==
  ASSUME ClockInv, pending' \in Seq(PendingInterrupt),
         UNCHANGED <<lastSector, bufferInit, onTrack>>,
         writing' = writing \/ writing' = FALSE,
         \A i \in DOMAIN pending' : pending'[i].type = "Disk" =>
           \E j \in DOMAIN pending : pending'[i] = pending[j]
  PROVE  /\ SectorPasses'
         /\ (NoneOf(pending, "Disk")' => onTrack <= totalTicks') => Turning'
<1>1. onTrack \in Nat /\ \A i \in DOMAIN pending : pending[i] \in PendingInterrupt
  BY ClockTypes DEF ClockInv
<1>2. ASSUME NEW p \in PendingInterrupt, Passed(p, writing, onTrack, lastSector)
      PROVE  Passed(p, writing', onTrack, lastSector)
  <2>1. CASE writing' = writing
    BY <1>2, <2>1
  <2>2. CASE writing' = FALSE
    <3>1. p.since \in Nat
      BY DEF PendingInterrupt
    <3>2. Max({p.since, onTrack}) \in Nat /\ Max({p.since, onTrack}) >= onTrack
      BY <1>1, <3>1, MaxOf
    <3>3. PICK n \in 0 .. p.when \div RotationTime - 1 :
            /\ n % SectorsPerTrack = lastSector % SectorsPerTrack
            /\ n * RotationTime >= Reached(p, writing, onTrack)
            /\ (n + 1) * RotationTime <= p.when
      BY <1>2 DEF Passed
    <3>4. p.when \div RotationTime \in Int /\ n * RotationTime \in Int
      <4>1. RotationTime \in Nat \ {0} /\ p.when \in Int
        BY ClockAssumption DEF PendingInterrupt
      <4> QED BY <4>1
    <3>5. n * RotationTime >= Reached(p, writing', onTrack)
      BY <1>1, <2>2, <3>2, <3>3, <3>4 DEF Reached
    <3> QED BY <1>2, <3>3, <3>5 DEF Passed
  <2> QED BY <2>1, <2>2
<1>3. \A i \in DOMAIN pending :
        pending[i].type = "Disk" => Passed(pending[i], writing, onTrack, lastSector)
  BY PassedIs DEF ClockInv
<1>4. SectorPasses'
  <2>1. SectorPasses' <=> \A i \in DOMAIN pending' :
          pending'[i].type = "Disk" => Passed(pending'[i], writing', onTrack', lastSector')
    BY DEF SectorPasses, Passed, Reached
  <2>2. ASSUME NEW i \in DOMAIN pending', pending'[i].type = "Disk"
        PROVE  Passed(pending'[i], writing', onTrack, lastSector)
    <3>1. PICK j \in DOMAIN pending : pending'[i] = pending[j]
      BY <2>2
    <3>2. Passed(pending[j], writing, onTrack, lastSector)
      BY <1>3, <2>2, <3>1
    <3>3. Passed(pending[j], writing', onTrack, lastSector)
      BY <1>1, <1>2, <3>2
    <3> QED BY <3>1, <3>3
  <2> QED BY <2>1, <2>2
<1>5. ASSUME NoneOf(pending, "Disk")' => onTrack <= totalTicks' PROVE Turning'
  <2>1. /\ \E b \in Nat : bufferInit' = b * RotationTime
        /\ onTrack' <= bufferInit'
    BY DEF ClockInv, Turning
  <2>2. \A i \in DOMAIN pending' : pending'[i].type = "Disk" => onTrack' <= pending'[i].when
    BY DEF ClockInv, Turning
  <2> QED BY <1>5, <2>1, <2>2 DEF Turning
<1> QED BY <1>4, <1>5

LEMMA ClockConstants ==
  /\ SystemTick \in Nat \ {0} /\ UserTick \in Nat \ {0} /\ TimerTicks \in Nat \ {0}
  /\ RotationTime \in Nat \ {0} /\ PollTime \in Nat \ {0}
  /\ SectorsPerTrack \in Nat \ {0} /\ NumTracks \in Nat \ {0}
  /\ SeekTime \in Nat /\ MaxGarbage \in Nat /\ MaxTime \in Nat
BY ClockAssumption

LEMMA TickFacts == Tick \in Nat \ {0}
BY ClockConstants DEF Tick

(* What is due is at the front, if anything is.                               *)
LEMMA NotDue ==
  ASSUME NEW q \in Seq(PendingInterrupt), Sorted(q), NEW now \in Nat, ~Due(q, now)
  PROVE  \A i \in DOMAIN q : q[i].when > now
<1> SUFFICES ASSUME NEW i \in DOMAIN q PROVE q[i].when > now
  OBVIOUS
<1>1. q # <<>>
  OBVIOUS
<1>2. Head(q) \in PendingInterrupt /\ Head(q).when <= q[i].when /\ q[i] \in PendingInterrupt
  BY <1>1, TailOfSorted
<1>3. ~(Head(q).when <= now)
  BY <1>1 DEF Due
<1> QED BY <1>2, <1>3 DEF PendingInterrupt

LEMMA OneTickKeeps == ASSUME ClockInv, OneTick PROVE ClockInv'
<1>1. /\ totalTicks \in Nat /\ pending \in Seq(PendingInterrupt)
      /\ \A i \in DOMAIN pending : pending[i] \in PendingInterrupt
  BY ClockTypes DEF ClockInv
<1>2. Tick \in Nat \ {0} /\ MaxTime \in Nat
  BY TickFacts, ClockConstants
<1>3. /\ UNCHANGED <<pending, status, yieldOnReturn, quantum, randomize, disk>>
      /\ ~inHandler /\ totalTicks' = totalTicks + Tick /\ totalTicks' <= MaxTime
      /\ inHandler' = Due(pending, totalTicks')
  BY DEF OneTick
<1>4. totalTicks' \in 0 .. MaxTime /\ totalTicks' > totalTicks
  BY <1>1, <1>2, <1>3
<1>5. InterruptsTypeOK'
  <2>1. inHandler' \in BOOLEAN
    BY <1>3 DEF Due
  <2> QED BY <1>3, <1>4, <2>1 DEF ClockInv, InterruptsTypeOK, disk
<1>6. Listed'
  <2>1. Sorted(pending)' /\ OneOf(pending, "Timer")'
    BY <1>3 DEF ClockInv, Listed, Sorted, OneOf
  <2>2. \A i \in DOMAIN pending' : pending'[i].since <= totalTicks'
    BY <1>1, <1>3, <1>4 DEF ClockInv, Listed, PendingInterrupt
  <2> QED BY <2>1, <2>2 DEF Listed
<1>7. Timely'
  <2>1. \A i \in DOMAIN pending : pending[i].when > totalTicks
    BY <1>3 DEF ClockInv, Timely
  <2>2. status' # "IdleMode" /\ Tick' = Tick
    BY <1>3 DEF ClockInv, Looping, Tick
  <2>3. CASE inHandler'
    <3>1. \A i \in DOMAIN pending' : pending'[i].when > totalTicks' - Tick'
      BY <1>1, <1>2, <1>3, <2>1, <2>2 DEF PendingInterrupt
    <3> QED BY <2>2, <2>3, <3>1 DEF Timely
  <2>4. CASE ~inHandler'
    <3>1. \A i \in DOMAIN pending : pending[i].when > totalTicks'
      BY <1>1, <1>3, <1>4, <2>4, NotDue DEF ClockInv, Listed
    <3> QED BY <1>3, <2>4, <3>1 DEF Timely
  <2> QED BY <2>3, <2>4
<1>8. Looping'
  BY <1>3 DEF ClockInv, Looping, Due
<1>9. SectorPasses' /\ Turning'
  <2>1. UNCHANGED <<lastSector, bufferInit, onTrack, writing>>
    BY <1>3 DEF disk
  <2>2. NoneOf(pending, "Disk")' => onTrack <= totalTicks'
    <3>1. NoneOf(pending, "Disk") => onTrack <= totalTicks
      BY DEF ClockInv, Turning
    <3>2. onTrack \in Nat
      BY ClockTypes DEF ClockInv
    <3> QED BY <1>1, <1>3, <1>4, <3>1, <3>2 DEF NoneOf
  <2> QED BY <1>1, <1>3, <2>1, <2>2, DiskKeeps
<1> QED BY <1>5, <1>6, <1>7, <1>8, <1>9 DEF ClockInv

LEMMA IdleKeeps == ASSUME ClockInv, Idle PROVE ClockInv'
<1>1. /\ totalTicks \in Nat /\ pending \in Seq(PendingInterrupt)
      /\ \A i \in DOMAIN pending : pending[i] \in PendingInterrupt
  BY ClockTypes DEF ClockInv
<1>2. /\ UNCHANGED <<pending, yieldOnReturn, quantum, randomize, disk>>
      /\ ~inHandler /\ pending # <<>> /\ Head(pending).when <= MaxTime
      /\ status' = "IdleMode" /\ inHandler' = TRUE
      /\ totalTicks' = Max({totalTicks, Head(pending).when})
  BY DEF Idle
<1>3. /\ Head(pending) \in PendingInterrupt /\ Head(pending) = pending[1] /\ 1 \in DOMAIN pending
      /\ \A i \in DOMAIN pending : Head(pending).when <= pending[i].when
  BY <1>1, <1>2, TailOfSorted DEF ClockInv, Listed
<1>4. /\ totalTicks' = Head(pending).when /\ totalTicks' >= totalTicks
      /\ totalTicks' \in 0 .. MaxTime
  <2>1. Head(pending).when \in Nat /\ MaxTime \in Nat
    BY <1>3, ClockConstants DEF PendingInterrupt
  <2>2. Head(pending).when > totalTicks
    BY <1>2, <1>3 DEF ClockInv, Timely
  <2>3. totalTicks' = IF totalTicks >= Head(pending).when THEN totalTicks ELSE Head(pending).when
    BY <1>1, <1>2, <2>1, MaxOf
  <2> DEFINE w == Head(pending).when
  <2>4. w \in Nat /\ w > totalTicks /\ w <= MaxTime /\ MaxTime \in Nat
    BY <1>2, <2>1, <2>2
  <2>5. totalTicks' = w
    <3>1. totalTicks' = IF totalTicks >= w THEN totalTicks ELSE w
      BY <2>3
    <3> HIDE DEF w
    <3> QED BY <1>1, <2>4, <3>1
  <2> HIDE DEF w
  <2>6. totalTicks' >= totalTicks /\ totalTicks' \in 0 .. MaxTime
    BY <1>1, <2>4, <2>5
  <2> QED BY <2>5, <2>6 DEF w
<1>5. InterruptsTypeOK'
  BY <1>2, <1>4 DEF ClockInv, InterruptsTypeOK, disk
<1>6. Listed'
  <2>1. Sorted(pending)' /\ OneOf(pending, "Timer")'
    BY <1>2 DEF ClockInv, Listed, Sorted, OneOf
  <2>2. \A i \in DOMAIN pending' : pending'[i].since <= totalTicks'
    BY <1>1, <1>2, <1>4 DEF ClockInv, Listed, PendingInterrupt
  <2> QED BY <2>1, <2>2 DEF Listed
<1>7. Timely'
  <2>1. ASSUME NEW i \in DOMAIN pending PROVE pending[i].when >= totalTicks'
    <3>1. Head(pending).when <= pending[i].when /\ totalTicks' = Head(pending).when
      BY <1>3, <1>4
    <3>2. pending[i].when \in Nat /\ Head(pending).when \in Nat
      BY <1>1, <1>3 DEF PendingInterrupt
    <3> QED BY <3>1, <3>2
  <2> QED BY <1>2, <2>1 DEF Timely
<1>8. Looping'
  <2>1. Due(pending, totalTicks)'
    BY <1>2, <1>4 DEF Due
  <2> QED BY <1>2, <2>1 DEF Looping
<1>9. SectorPasses' /\ Turning'
  <2>1. UNCHANGED <<lastSector, bufferInit, onTrack, writing>>
    BY <1>2 DEF disk
  <2>2. NoneOf(pending, "Disk")' => onTrack <= totalTicks'
    <3>1. NoneOf(pending, "Disk") => onTrack <= totalTicks
      BY DEF ClockInv, Turning
    <3>2. onTrack \in Nat
      BY ClockTypes DEF ClockInv
    <3> QED BY <1>1, <1>2, <1>4, <3>1, <3>2 DEF NoneOf
  <2> QED BY <1>1, <1>2, <2>1, <2>2, DiskKeeps
<1> QED BY <1>5, <1>6, <1>7, <1>8, <1>9 DEF ClockInv

LEMMA ChangeModeKeeps == ASSUME ClockInv, ChangeMode PROVE ClockInv'
<1>1. /\ UNCHANGED <<totalTicks, pending, inHandler, yieldOnReturn, quantum, randomize, disk>>
      /\ ~inHandler /\ status' \in {"SystemMode", "UserMode"}
  BY DEF ChangeMode
<1>2. InterruptsTypeOK'
  BY <1>1 DEF ClockInv, InterruptsTypeOK, disk
<1>3. Listed'
  BY <1>1 DEF ClockInv, Listed, Sorted, OneOf
<1>4. Timely' /\ Looping'
  BY <1>1 DEF ClockInv, Timely, Looping, Due
<1>5. SectorPasses' /\ Turning'
  <2>1. UNCHANGED <<lastSector, bufferInit, onTrack, writing>>
    BY <1>1 DEF disk
  <2>2. NoneOf(pending, "Disk")' => onTrack <= totalTicks'
    BY <1>1 DEF ClockInv, Turning, NoneOf
  <2>3. pending' \in Seq(PendingInterrupt)
    BY <1>1, ClockTypes DEF ClockInv
  <2> QED BY <1>1, <2>1, <2>2, <2>3, DiskKeeps
<1> QED BY <1>2, <1>3, <1>4, <1>5 DEF ClockInv

LEMMA UseConsoleKeeps == ASSUME ClockInv, UseConsole PROVE ClockInv'
<1>1. totalTicks \in Nat /\ pending \in Seq(PendingInterrupt)
  BY ClockTypes DEF ClockInv
<1>2. /\ UNCHANGED <<totalTicks, status, inHandler, yieldOnReturn, quantum, randomize, disk>>
      /\ ~inHandler /\ pending' = Schedule(pending, "Console", PollTime)
  BY DEF UseConsole
<1>3. "Console" \in Device /\ PollTime \in Nat \ {0}
  BY ClockConstants DEF Device
<1>4. Sorted(pending) /\ \A i \in DOMAIN pending : pending[i].since <= totalTicks
  BY DEF ClockInv, Listed
<1>5. /\ pending' \in Seq(PendingInterrupt) /\ Sorted(pending')
      /\ \A i \in DOMAIN pending' :
           \/ pending'[i] = [type |-> "Console", when |-> totalTicks + PollTime, since |-> totalTicks]
           \/ \E j \in DOMAIN pending : pending'[i] = pending[j]
      /\ \A i \in DOMAIN pending' : pending'[i].since <= totalTicks
      /\ OneOf(pending, "Timer") => OneOf(pending', "Timer")
      /\ NoneOf(pending', "Disk") => NoneOf(pending, "Disk")
  <2> DEFINE r == Schedule(pending, "Console", PollTime)
  <2>1. /\ r \in Seq(PendingInterrupt) /\ Sorted(r)
        /\ \A i \in DOMAIN r :
             \/ r[i] = [type |-> "Console", when |-> totalTicks + PollTime, since |-> totalTicks]
             \/ \E j \in DOMAIN pending : r[i] = pending[j]
        /\ \A i \in DOMAIN r : r[i].since <= totalTicks
        /\ \A e : e # "Console" => (OneOf(pending, e) => OneOf(r, e))
        /\ \A e : NoneOf(r, e) => NoneOf(pending, e)
    BY <1>1, <1>3, <1>4, ScheduleFacts
  <2>2. pending' = r
    BY <1>2
  <2> HIDE DEF r
  <2> QED BY <2>1, <2>2
<1>6. InterruptsTypeOK'
  BY <1>2, <1>5 DEF ClockInv, InterruptsTypeOK, PendingInterrupt, disk
<1>7. Listed'
  BY <1>2, <1>5 DEF ClockInv, Listed, Sorted, OneOf
<1>8. Timely' /\ Looping'
  <2>1. \A i \in DOMAIN pending : pending[i].when > totalTicks
    BY <1>2 DEF ClockInv, Timely
  <2>2. \A i \in DOMAIN pending' : pending'[i].when > totalTicks'
    BY <1>1, <1>2, <1>3, <1>5, <2>1
  <2> QED BY <1>2, <2>2 DEF ClockInv, Timely, Looping
<1>9. SectorPasses' /\ Turning'
  <2>1. UNCHANGED <<lastSector, bufferInit, onTrack, writing>>
    BY <1>2 DEF disk
  <2>2. \A i \in DOMAIN pending' : pending'[i].type = "Disk" =>
          \E j \in DOMAIN pending : pending'[i] = pending[j]
    BY <1>5
  <2>3. NoneOf(pending, "Disk")' => onTrack <= totalTicks'
    <3>1. NoneOf(pending', "Disk") => onTrack <= totalTicks
      BY <1>5 DEF ClockInv, Turning
    <3> QED BY <1>2, <3>1 DEF NoneOf
  <2> QED BY <1>5, <2>1, <2>2, <2>3, DiskKeeps
<1> QED BY <1>6, <1>7, <1>8, <1>9 DEF ClockInv

LEMMA DelayFacts == InterruptsTypeOK => Delays \subseteq Nat \ {0}
<1> SUFFICES ASSUME InterruptsTypeOK PROVE Delays \subseteq Nat \ {0}
  OBVIOUS
<1> DEFINE period == IF quantum > 0 THEN quantum ELSE TimerTicks
<1>1. period \in Nat \ {0}
  <2>1. quantum \in Int /\ TimerTicks \in Nat \ {0}
    BY ClockAssumption DEF InterruptsTypeOK
  <2> QED BY <2>1
<1>2. Delays = IF randomize THEN 1 .. 2 * period ELSE {period}
  BY DEF Delays
<1> HIDE DEF period
<1> QED BY <1>1, <1>2

(* The list after one handler: the rest of it, and perhaps one more.          *)
LEMMA HandlerFacts ==
  ASSUME ClockInv, Handle
  PROVE  /\ pending' \in Seq(PendingInterrupt) /\ Sorted(pending') /\ OneOf(pending', "Timer")
         /\ \A i \in DOMAIN pending' : pending'[i].since <= totalTicks
         /\ \A i \in DOMAIN pending' :
              \/ pending'[i].type # "Disk" /\ pending'[i].when > totalTicks
              \/ \E j \in DOMAIN pending : pending'[i] = pending[j]
         /\ Head(pending).type # "Disk" /\ NoneOf(pending', "Disk") => NoneOf(pending, "Disk")
<1> DEFINE q == Tail(pending)
           d == Head(pending).type
<1>1. totalTicks \in Nat /\ pending \in Seq(PendingInterrupt)
  BY ClockTypes DEF ClockInv
<1>2. pending # <<>> /\ pending' \in Handlers(q, d)
  BY DEF Handle, ClockInv, Looping, Due
<1>3. /\ q \in Seq(PendingInterrupt) /\ Sorted(q) /\ Head(pending) \in PendingInterrupt
      /\ \A i \in DOMAIN q : \E j \in DOMAIN pending : q[i] = pending[j]
      /\ OneOf(pending, d) => NoneOf(q, d)
      /\ d # "Timer" /\ OneOf(pending, "Timer") => OneOf(q, "Timer")
      /\ d # "Disk" /\ NoneOf(q, "Disk") => NoneOf(pending, "Disk")
  BY <1>1, <1>2, TailOfSorted DEF ClockInv, Listed
<1>4. \A i \in DOMAIN q : q[i].since <= totalTicks
  BY <1>3 DEF ClockInv, Listed
<1>5. d \in Device /\ OneOf(pending, "Timer")
  BY <1>3 DEF PendingInterrupt, ClockInv, Listed
<1> HIDE DEF q, d
<1>6. ASSUME pending' = q, d # "Timer"
      PROVE  /\ OneOf(pending', "Timer")
             /\ d # "Disk" /\ NoneOf(pending', "Disk") => NoneOf(pending, "Disk")
  BY <1>3, <1>5, <1>6
<1>7. ASSUME NEW delay \in Nat \ {0}, d # "Disk", pending' = Schedule(q, d, delay)
      PROVE  /\ pending' \in Seq(PendingInterrupt) /\ Sorted(pending')
             /\ \A i \in DOMAIN pending' : pending'[i].since <= totalTicks
             /\ \A i \in DOMAIN pending' :
                  \/ pending'[i].type # "Disk" /\ pending'[i].when > totalTicks
                  \/ \E j \in DOMAIN pending : pending'[i] = pending[j]
             /\ OneOf(pending', "Timer")
             /\ NoneOf(pending', "Disk") => NoneOf(pending, "Disk")
  <2>1. /\ pending' \in Seq(PendingInterrupt) /\ Sorted(pending')
        /\ \A i \in DOMAIN pending' :
             \/ pending'[i] = [type |-> d, when |-> totalTicks + delay, since |-> totalTicks]
             \/ \E j \in DOMAIN q : pending'[i] = q[j]
        /\ \A i \in DOMAIN pending' : pending'[i].since <= totalTicks
        /\ NoneOf(q, d) => OneOf(pending', d)
        /\ d # "Timer" => (OneOf(q, "Timer") => OneOf(pending', "Timer"))
        /\ NoneOf(pending', "Disk") => NoneOf(q, "Disk")
    <3> DEFINE r == Schedule(q, d, delay)
    <3>1. /\ r \in Seq(PendingInterrupt) /\ Sorted(r)
          /\ \A i \in DOMAIN r :
               \/ r[i] = [type |-> d, when |-> totalTicks + delay, since |-> totalTicks]
               \/ \E j \in DOMAIN q : r[i] = q[j]
          /\ \A i \in DOMAIN r : r[i].since <= totalTicks
          /\ NoneOf(q, d) => OneOf(r, d)
          /\ \A e : e # d => (OneOf(q, e) => OneOf(r, e))
          /\ \A e : NoneOf(r, e) => NoneOf(q, e)
      BY <1>1, <1>3, <1>4, <1>5, ScheduleFacts
    <3> HIDE DEF r
    <3>2. pending' = r
      BY <1>7 DEF r
    <3> QED BY <3>1, <3>2
  <2>2. \A i \in DOMAIN pending' :
          \/ pending'[i].type # "Disk" /\ pending'[i].when > totalTicks
          \/ \E j \in DOMAIN pending : pending'[i] = pending[j]
    <3> SUFFICES ASSUME NEW i \in DOMAIN pending',
                        ~ \E j \in DOMAIN pending : pending'[i] = pending[j]
                 PROVE  pending'[i].type # "Disk" /\ pending'[i].when > totalTicks
      OBVIOUS
    <3>1. pending'[i] = [type |-> d, when |-> totalTicks + delay, since |-> totalTicks]
      BY <1>3, <2>1
    <3>2. pending'[i].type = d /\ pending'[i].when = totalTicks + delay
      BY <3>1
    <3> QED BY <1>1, <1>7, <3>2
  <2> QED BY <1>3, <1>5, <1>7, <2>1, <2>2
<1>8. \/ pending' = q /\ d # "Timer"
      \/ d # "Disk" /\ \E delay \in Nat \ {0} : pending' = Schedule(q, d, delay)
  <2>1. CASE d = "Timer"
    <3>1. \E delay \in Delays : pending' = Schedule(q, d, delay)
      BY <1>2, <2>1 DEF Handlers
    <3>2. Delays \subseteq Nat \ {0}
      BY DelayFacts DEF ClockInv
    <3> QED BY <2>1, <3>1, <3>2
  <2>2. CASE d = "Network"
    BY <1>2, <2>2, ClockConstants DEF Handlers
  <2>3. CASE d = "Console"
    BY <1>2, <2>3, ClockConstants DEF Handlers
  <2>4. CASE d = "Disk"
    BY <1>2, <2>4 DEF Handlers
  <2> QED BY <1>5, <2>1, <2>2, <2>3, <2>4 DEF Device
<1>9. CASE pending' = q /\ d # "Timer"
  BY <1>3, <1>4, <1>6, <1>9 DEF d
<1>10. CASE d # "Disk" /\ \E delay \in Nat \ {0} : pending' = Schedule(q, d, delay)
  BY <1>7, <1>10 DEF d
<1> QED BY <1>8, <1>9, <1>10

LEMMA HandleKeeps == ASSUME ClockInv, Handle PROVE ClockInv'
<1>1. /\ totalTicks \in Nat /\ onTrack \in Nat /\ pending \in Seq(PendingInterrupt)
      /\ \A i \in DOMAIN pending : pending[i] \in PendingInterrupt
  BY ClockTypes DEF ClockInv
<1>2. /\ UNCHANGED <<totalTicks, quantum, randomize, lastSector, bufferInit, onTrack>>
      /\ inHandler /\ inHandler' = Due(pending', totalTicks)
  BY DEF Handle
<1>3. /\ pending' \in Seq(PendingInterrupt) /\ Sorted(pending') /\ OneOf(pending', "Timer")
      /\ \A i \in DOMAIN pending' : pending'[i].since <= totalTicks
      /\ \A i \in DOMAIN pending' :
           \/ pending'[i].type # "Disk" /\ pending'[i].when > totalTicks
           \/ \E j \in DOMAIN pending : pending'[i] = pending[j]
      /\ Head(pending).type # "Disk" /\ NoneOf(pending', "Disk") => NoneOf(pending, "Disk")
  BY HandlerFacts
<1>4. /\ inHandler' => status' = status
      /\ ~inHandler' => status' # "IdleMode"
      /\ status' \in {"SystemMode", "UserMode", "IdleMode"}
  <2>1. status \in {"SystemMode", "UserMode", "IdleMode"}
    BY DEF ClockInv, InterruptsTypeOK
  <2> QED BY <2>1 DEF Handle
<1>5. InterruptsTypeOK'
  <2>1. inHandler' \in BOOLEAN
    BY <1>2 DEF Due
  <2>2. yieldOnReturn' \in BOOLEAN
    BY DEF Handle
  <2>3. writing' \in BOOLEAN
    BY DEF Handle
  <2>4. pending' \in Seq([type : Device, when : Nat, since : Nat])
    BY <1>3 DEF PendingInterrupt
  <2> QED BY <1>2, <1>4, <2>1, <2>2, <2>3, <2>4 DEF ClockInv, InterruptsTypeOK
<1>6. Listed'
  <2>1. Sorted(pending)' /\ OneOf(pending, "Timer")'
    BY <1>3 DEF Sorted, OneOf
  <2> QED BY <1>2, <1>3, <2>1 DEF Listed
<1>7. Timely'
  <2>1. CASE inHandler'
    <3>1. status' = status /\ Tick' = Tick /\ Tick \in Nat \ {0}
      BY <1>4, <2>1, TickFacts DEF Tick
    <3>2. \A i \in DOMAIN pending : IF status = "IdleMode" THEN pending[i].when >= totalTicks
                                    ELSE pending[i].when > totalTicks - Tick
      BY <1>2 DEF ClockInv, Timely
    <3>3. ASSUME NEW i \in DOMAIN pending'
          PROVE  IF status = "IdleMode" THEN pending'[i].when >= totalTicks
                 ELSE pending'[i].when > totalTicks - Tick
      <4>1. CASE \E j \in DOMAIN pending : pending'[i] = pending[j]
        BY <3>2, <4>1
      <4>2. CASE pending'[i].when > totalTicks
        <5>1. pending'[i] \in PendingInterrupt
          BY <1>3
        <5>2. pending'[i].when \in Nat
          BY <5>1 DEF PendingInterrupt
        <5> QED BY <1>1, <3>1, <4>2, <5>2
      <4> QED BY <1>3, <4>1, <4>2
    <3> QED BY <1>2, <2>1, <3>1, <3>3 DEF Timely
  <2>2. CASE ~inHandler'
    <3>1. \A i \in DOMAIN pending' : pending'[i].when > totalTicks
      BY <1>1, <1>2, <1>3, <2>2, NotDue
    <3> QED BY <1>2, <2>2, <3>1 DEF Timely
  <2> QED BY <2>1, <2>2
<1>8. Looping'
  <2>1. inHandler' => Due(pending, totalTicks)'
    BY <1>2 DEF Due
  <2> QED BY <1>4, <2>1 DEF Looping
<1>9. SectorPasses' /\ Turning'
  <2>1. writing' = writing \/ writing' = FALSE
    BY DEF Handle, ClockInv, InterruptsTypeOK
  <2>2. NoneOf(pending, "Disk")' => onTrack <= totalTicks'
    <3> SUFFICES ASSUME NoneOf(pending', "Disk") PROVE onTrack <= totalTicks
      BY <1>2 DEF NoneOf
    <3>1. CASE Head(pending).type = "Disk"
      <4>1. pending # <<>> /\ Head(pending).when <= totalTicks
        BY <1>2 DEF ClockInv, Looping, Due
      <4>2. Head(pending) = pending[1] /\ 1 \in DOMAIN pending
        BY <1>1, <4>1
      <4>3. onTrack <= pending[1].when
        BY <3>1, <4>2 DEF ClockInv, Turning
      <4> QED BY <1>1, <4>1, <4>2, <4>3 DEF PendingInterrupt
    <3>2. CASE Head(pending).type # "Disk"
      BY <1>3, <3>2 DEF ClockInv, Turning
    <3> QED BY <3>1, <3>2
  <2>3. \A i \in DOMAIN pending' : pending'[i].type = "Disk" =>
          \E j \in DOMAIN pending : pending'[i] = pending[j]
    BY <1>3
  <2> QED BY <1>2, <1>3, <2>1, <2>2, <2>3, DiskKeeps
<1> QED BY <1>5, <1>6, <1>7, <1>8, <1>9 DEF ClockInv

(* The track a request is on, when it is there, and when it is over.          *)
LEMMA SeekFacts ==
  ASSUME InterruptsTypeOK, NEW s \in Sector
  PROVE  Seek(s) \in Nat /\ s \in Int
<1>1. SectorsPerTrack \in Nat \ {0} /\ SeekTime \in Nat
  BY ClockConstants
<1>2. s \in Int /\ lastSector \in Int
  <2>1. s \in Int
    BY DEF Sector
  <2> QED BY <2>1, ClockTypes
<1>3. Track(s) \in Int /\ Track(lastSector) \in Int
  BY <1>1, <1>2, Quotients DEF Track
<1>4. Distance(s) \in Nat
  BY <1>3 DEF Distance
<1>5. Seek(s) \in Nat
  BY <1>1, <1>4, Multiples DEF Seek
<1> QED BY <1>2, <1>5

LEMMA LatencyFacts ==
  ASSUME ClockInv, NEW s \in Sector, NEW write \in BOOLEAN, onTrack <= totalTicks
  PROVE  LET lat   == ComputeLatency(s, write)
             p     == [type |-> "Disk", when |-> totalTicks + lat, since |-> totalTicks]
             track == IF Seek(s) # 0 THEN totalTicks + Seek(s) ELSE onTrack
         IN  lat \in Nat \ {0} /\ Passed(p, write, track, s) /\ track <= p.when
<1> DEFINE T == totalTicks
           R == RotationTime
           S == SectorsPerTrack
           a == T + Seek(s)
           rot == Rotation(s)
           lat == ComputeLatency(s, write)
           when == T + lat
           p == [type |-> "Disk", when |-> when, since |-> T]
           track == IF Seek(s) # 0 THEN a ELSE onTrack
<1>1. T \in Nat /\ onTrack \in Nat /\ bufferInit \in Nat /\ R \in Nat \ {0} /\ S \in Nat \ {0}
  BY ClockTypes, ClockConstants DEF ClockInv
<1>2. Seek(s) \in Nat /\ s \in Int /\ a \in Nat /\ a >= T
  BY <1>1, SeekFacts DEF ClockInv
<1>3. PICK k \in Nat : a + rot = k * R
  BY <1>1, <1>2, RotationFacts
<1>4. rot \in 0 .. R - 1
  BY <1>1, <1>2, RotationFacts
<1>5. p.when = when /\ p.since = T
  OBVIOUS
<1>6. /\ track \in Nat /\ track <= a
      /\ Max({p.since, track}) = a
  <2>1. track \in Nat /\ track <= a
    BY <1>1, <1>2
  <2>2. CASE Seek(s) # 0
    <3>1. track = a
      BY <2>2
    <3>2. Max({T, a}) = IF T >= a THEN T ELSE a
      BY <1>1, <1>2, MaxOf
    <3> QED BY <1>1, <1>2, <1>5, <2>1, <3>1, <3>2
  <2>3. CASE Seek(s) = 0
    <3>1. track = onTrack /\ a = T
      BY <1>1, <2>3
    <3>2. Max({T, track}) = IF T >= track THEN T ELSE track
      BY <1>1, <2>1, MaxOf
    <3> QED BY <1>1, <1>5, <2>1, <3>1, <3>2
  <2> QED BY <2>1, <2>2, <2>3
<1>7. Reached(p, write, track) \in Nat /\ Reached(p, write, track) <= a
  BY <1>2, <1>6 DEF Reached
<1>8. /\ ~write /\ Buffered(s) => lat = R
      /\ ~(~write /\ Buffered(s)) =>
           lat = (a + rot) - T + ModuloDiff(s, (a + rot) \div R) * R + R
  BY DEF ComputeLatency
<1>9. Buffered(s) =>
        Seek(s) = 0 /\ ((a + rot) - bufferInit) \div R > ModuloDiff(s, bufferInit \div R)
  BY DEF Buffered
(* It is enough to name the turn in which the sector passes.                  *)
<1>10. ASSUME NEW n \in Nat, n % S = s % S, n * R >= Reached(p, write, track),
             (n + 1) * R <= when, when < a + (S + 1) * R, when \in Nat
      PROVE  Passed(p, write, track, s)
  <2>1. n + 1 <= when \div R
    BY <1>1, <1>10, Multiples
  <2>2. n \in 0 .. when \div R - 1
    BY <1>1, <1>10, <2>1, Quotients
  <2> QED BY <1>5, <1>6, <1>10, <2>2 DEF Passed
<1>11. a <= k * R /\ k * R < a + R /\ k * R \in Nat
  <2> DEFINE kR == k * R
  <2>1. kR \in Nat /\ a + rot = kR
    BY <1>1, <1>3, Multiples
  <2> HIDE DEF kR, a, rot, R
  <2>2. a <= kR /\ kR < a + R
    BY <1>1, <1>2, <1>4, <2>1
  <2> QED BY <2>1, <2>2 DEF kR
<1> HIDE DEF T, R, S, a, rot, when, lat, track, p
<1>12. CASE ~write /\ Buffered(s)
  <2>1. PICK b \in Nat : bufferInit = b * R
    BY DEF ClockInv, Turning, R
  <2> DEFINE m == ModuloDiff(s, b)
             n == b + m
  <2>2. b * R \in Nat /\ (b * R) \div R = b
    BY <1>1, <2>1, Multiples
  <2>3. Seek(s) = 0 /\ (k * R - b * R) \div R > m
    <3>1. ((a + rot) - bufferInit) \div R > ModuloDiff(s, bufferInit \div R)
      BY <1>12, <1>9
    <3>2. (a + rot) - bufferInit = k * R - b * R
      BY <1>1, <1>2, <1>3, <1>4, <2>1, <2>2
    <3>3. bufferInit \div R = b
      BY <2>1, <2>2
    <3>4. Seek(s) = 0
      BY <1>12 DEF Buffered
    <3> QED BY <3>1, <3>2, <3>3, <3>4
  <2>4. (k * R - b * R) \div R = k - b
    <3>1. k * R - b * R = (k - b) * R
      BY <1>1
    <3>2. k - b \in Int
      OBVIOUS
    <3> QED BY <1>1, <3>1, <3>2, Multiples
  <2>5. m \in 0 .. S - 1 /\ n % S = s % S
    <3>1. b \in Int
      OBVIOUS
    <3>2. /\ ModuloDiff(s, b) \in 0 .. SectorsPerTrack - 1
          /\ (b + ModuloDiff(s, b)) % SectorsPerTrack = s % SectorsPerTrack
      BY <1>2, <3>1, ModuloDiffFacts
    <3> QED BY <3>2, Zenon DEF S
  <2> HIDE DEF m
  <2>6. n \in Nat /\ b <= n /\ n + 1 <= k
    BY <1>1, <2>3, <2>4, <2>5
  <2>7. a = T /\ track = onTrack
    BY <1>1, <2>3 DEF a, track
  <2>8. Reached(p, write, track) = onTrack
    BY <1>12, <2>7 DEF Reached
  <2>9. lat = R /\ when = T + R /\ when \in Nat
    BY <1>1, <1>8, <1>12 DEF when
  <2> HIDE DEF n
  <2>10. n * R >= Reached(p, write, track)
    <3>1. b * R <= n * R /\ n * R \in Int
      BY <1>1, <2>6, Multiples
    <3>2. onTrack <= b * R
      BY <2>1 DEF ClockInv, Turning
    <3> QED BY <1>1, <2>2, <2>8, <3>1, <3>2
  <2>11. (n + 1) * R <= when
    <3>1. (n + 1) * R <= k * R /\ (n + 1) * R \in Int
      BY <1>1, <2>6, Multiples
    <3> QED BY <1>1, <1>11, <2>7, <2>9, <3>1
  <2>12. when < a + (S + 1) * R
    <3>1. 2 * R <= (S + 1) * R /\ (S + 1) * R \in Int
      BY <1>1, Multiples
    <3> QED BY <1>1, <2>7, <2>9, <3>1
  <2>13. Passed(p, write, track, s)
    BY <1>10, <2>5, <2>6, <2>9, <2>10, <2>11, <2>12 DEF n
  <2>14. track <= p.when
    <3>1. onTrack <= T
      BY DEF T
    <3> QED BY <1>1, <1>5, <2>7, <2>9, <3>1
  <2> QED BY <1>1, <2>9, <2>13, <2>14 DEF lat, p, track, when, a, T
<1>13. CASE ~(~write /\ Buffered(s))
  <2>1. k * R \in Nat /\ (k * R) \div R = k
    BY <1>1, Multiples
  <2> DEFINE m == ModuloDiff(s, k)
             n == k + m
  <2>2. m \in 0 .. S - 1 /\ n % S = s % S
    <3>1. k \in Int
      OBVIOUS
    <3>2. /\ ModuloDiff(s, k) \in 0 .. SectorsPerTrack - 1
          /\ (k + ModuloDiff(s, k)) % SectorsPerTrack = s % SectorsPerTrack
      BY <1>2, <3>1, ModuloDiffFacts
    <3> QED BY <3>2, Zenon DEF S
  <2>3. lat = k * R - T + m * R + R
    BY <1>3, <1>8, <1>13, <2>1
  <2> HIDE DEF m
  <2>4. n \in Nat /\ k <= n
    BY <1>1, <2>2
  <2>5. m * R \in Nat /\ n * R = k * R + m * R /\ (n + 1) * R = n * R + R /\ n * R \in Nat
    BY <1>1, <2>2, <2>4, Multiples DEF n
  <2> HIDE DEF n
  <2>6. when = (n + 1) * R /\ when \in Nat /\ lat \in Nat \ {0}
    <3> DEFINE kR == k * R
               mR == m * R
    <3>1. kR \in Nat /\ mR \in Nat /\ lat = kR - T + mR + R /\ (n + 1) * R = kR + mR + R /\ T <= kR
      BY <1>1, <1>2, <1>11, <2>1, <2>3, <2>5
    <3> HIDE DEF kR, mR
    <3>2. lat \in Nat \ {0} /\ T + lat = kR + mR + R /\ T + lat \in Nat
      BY <1>1, <3>1
    <3> QED BY <3>1, <3>2 DEF when
  <2>7. n * R >= Reached(p, write, track)
    BY <1>1, <1>2, <1>7, <1>11, <2>1, <2>5
  <2>8. when < a + (S + 1) * R
    <3>1. /\ m * R <= (S - 1) * R /\ (S - 1) * R \in Int
          /\ (S - 1) * R + R = S * R /\ S * R + R = (S + 1) * R /\ S * R \in Int
      <4>1. m \in Int /\ S - 1 \in Int /\ m <= S - 1 /\ (S - 1) + 1 = S
        BY <1>1, <2>2
      <4>2. m * R <= (S - 1) * R /\ (S - 1) * R \in Int /\ (S - 1) * R + R = ((S - 1) + 1) * R
        BY <1>1, <4>1, Multiples
      <4>3. S * R + R = (S + 1) * R /\ S * R \in Int
        BY <1>1, Multiples
      <4> QED BY <4>1, <4>2, <4>3
    <3> DEFINE kR == k * R
               mR == m * R
               sR == S * R
    <3>2. /\ when = kR + mR + R /\ mR + R <= sR /\ (S + 1) * R = sR + R /\ kR < a + R
          /\ kR \in Nat /\ mR \in Nat /\ sR \in Int
      BY <1>1, <1>11, <2>1, <2>5, <2>6, <3>1
    <3> HIDE DEF kR, mR, sR
    <3>3. when < a + (sR + R)
      BY <1>1, <1>2, <3>2
    <3> QED BY <3>2, <3>3
  <2>9. Passed(p, write, track, s)
    BY <1>10, <2>2, <2>4, <2>6, <2>7, <2>8 DEF n
  <2>10. track <= p.when
    BY <1>1, <1>2, <1>5, <1>6, <1>11, <2>1, <2>5, <2>6
  <2> QED BY <2>6, <2>9, <2>10 DEF lat, p, track, when, a, T
<1> QED BY <1>12, <1>13

LEMMA DiskRequestKeeps ==
  ASSUME ClockInv, NEW s \in Sector, NEW write \in BOOLEAN, DiskRequest(s, write)
  PROVE  ClockInv'
<1> DEFINE lat == ComputeLatency(s, write)
           p == [type |-> "Disk", when |-> totalTicks + lat, since |-> totalTicks]
           track == IF Seek(s) # 0 THEN totalTicks + Seek(s) ELSE onTrack
<1>1. /\ totalTicks \in Nat /\ pending \in Seq(PendingInterrupt)
      /\ onTrack \in Nat /\ bufferInit \in Nat
  BY ClockTypes DEF ClockInv
<1>2. /\ UNCHANGED <<totalTicks, status, inHandler, yieldOnReturn, quantum, randomize>>
      /\ ~inHandler /\ pending' = Schedule(pending, "Disk", lat)
      /\ lastSector' = s /\ writing' = write /\ onTrack' = track
      /\ bufferInit' = IF Seek(s) # 0 THEN totalTicks + Seek(s) + Rotation(s) ELSE bufferInit
  BY DEF DiskRequest
<1>3. NoneOf(pending, "Disk") /\ onTrack <= totalTicks
  <2>1. NoneOf(pending, "Disk")
    BY DEF DiskRequest, IsPending, NoneOf
  <2> QED BY <2>1 DEF ClockInv, Turning
<1>4. lat \in Nat \ {0} /\ Passed(p, write, track, s) /\ track <= p.when
  BY <1>3, LatencyFacts
<1>5. Seek(s) \in Nat
  BY SeekFacts DEF ClockInv
<1>6. /\ Rotation(s) \in Nat
      /\ \E k \in Nat : totalTicks + Seek(s) + Rotation(s) = k * RotationTime
  <2>1. RotationTime \in Nat \ {0}
    BY ClockConstants
  <2>2. /\ Rotation(s) \in 0 .. RotationTime - 1
        /\ \E k \in Nat : totalTicks + Seek(s) + Rotation(s) = k * RotationTime
    BY <1>1, <1>5, RotationFacts
  <2>3. Rotation(s) \in Nat
    BY <2>1, <2>2
  <2> QED BY <2>2, <2>3
<1> HIDE DEF lat, track
<1>7. Sorted(pending) /\ \A i \in DOMAIN pending : pending[i].since <= totalTicks
  BY DEF ClockInv, Listed
<1>8. /\ pending' \in Seq(PendingInterrupt) /\ Sorted(pending')
      /\ \A i \in DOMAIN pending' : pending'[i] = p \/ \E j \in DOMAIN pending : pending'[i] = pending[j]
      /\ \A i \in DOMAIN pending' : pending'[i].since <= totalTicks
      /\ OneOf(pending, "Timer") => OneOf(pending', "Timer")
      /\ OneOf(pending', "Disk")
  <2> DEFINE r == Schedule(pending, "Disk", lat)
  <2>1. "Disk" \in Device /\ "Timer" # "Disk" /\ lat \in Nat
    BY <1>4 DEF Device
  <2>2. /\ r \in Seq(PendingInterrupt) /\ Sorted(r)
        /\ \A i \in DOMAIN r : r[i] = p \/ \E j \in DOMAIN pending : r[i] = pending[j]
        /\ \A i \in DOMAIN r : r[i].since <= totalTicks
        /\ OneOf(pending, "Timer") => OneOf(r, "Timer")
        /\ OneOf(r, "Disk")
    BY <1>1, <1>3, <1>7, <2>1, ScheduleFacts
  <2>3. pending' = r
    BY <1>2
  <2> HIDE DEF r, p
  <2> QED BY <2>2, <2>3
<1>9. /\ bufferInit' \in Nat /\ onTrack' \in Nat /\ onTrack' <= bufferInit'
      /\ \E b \in Nat : bufferInit' = b * RotationTime
  <2>1. CASE Seek(s) # 0
    <3>1. bufferInit' = totalTicks + Seek(s) + Rotation(s) /\ onTrack' = totalTicks + Seek(s)
      BY <1>2, <2>1 DEF track
    <3> QED BY <1>1, <1>5, <1>6, <3>1
  <2>2. CASE Seek(s) = 0
    <3>1. bufferInit' = bufferInit /\ onTrack' = onTrack
      BY <1>2, <2>2 DEF track
    <3> QED BY <1>1, <3>1 DEF ClockInv, Turning
  <2> QED BY <2>1, <2>2
<1>10. InterruptsTypeOK'
  <2>1. lastSector' \in Sector' /\ writing' \in BOOLEAN
    BY <1>2 DEF Sector
  <2>2. pending' \in Seq([type : Device, when : Nat, since : Nat])
    BY <1>8 DEF PendingInterrupt
  <2> QED BY <1>2, <1>9, <2>1, <2>2 DEF ClockInv, InterruptsTypeOK
<1>11. Listed'
  <2>1. Sorted(pending)' /\ OneOf(pending, "Timer")'
    BY <1>8 DEF ClockInv, Listed, Sorted, OneOf
  <2> QED BY <1>2, <1>8, <2>1 DEF Listed
<1>12. Timely' /\ Looping'
  <2>1. \A i \in DOMAIN pending : pending[i].when > totalTicks
    BY <1>2 DEF ClockInv, Timely
  <2>2. p.when > totalTicks
    BY <1>1, <1>4
  <2>3. \A i \in DOMAIN pending' : pending'[i].when > totalTicks'
    <3> HIDE DEF p
    <3> QED BY <1>2, <1>8, <2>1, <2>2
  <2> QED BY <1>2, <2>3 DEF ClockInv, Timely, Looping
<1>13. \A i \in DOMAIN pending' : pending'[i].type = "Disk" => pending'[i] = p
  BY <1>3, <1>8 DEF NoneOf
<1>14. SectorPasses'
  <2>1. SectorPasses' <=> \A i \in DOMAIN pending' :
          pending'[i].type = "Disk" => Passed(pending'[i], writing', onTrack', lastSector')
    BY DEF SectorPasses, Passed, Reached
  <2> HIDE DEF p
  <2> QED BY <1>2, <1>4, <1>13, <2>1
<1>15. Turning'
  <2>1. \A i \in DOMAIN pending' : pending'[i].type = "Disk" => onTrack' <= pending'[i].when
    <3> HIDE DEF p
    <3> QED BY <1>2, <1>4, <1>13
  <2>2. ~ NoneOf(pending, "Disk")'
    BY <1>8 DEF OneOf, NoneOf
  <2> QED BY <1>9, <2>1, <2>2 DEF Turning
<1> QED BY <1>10, <1>11, <1>12, <1>14, <1>15 DEF ClockInv

LEMMA InitClock == ClockInit => ClockInv
<1> SUFFICES ASSUME ClockInit PROVE ClockInv
  OBVIOUS
<1>1. PICK first \in 1 .. MaxGarbage :
        pending = Schedule(Schedule(Schedule(<<>>, "Timer", first), "Console", PollTime),
                           "Network", PollTime)
  BY DEF ClockInit
<1>2. /\ totalTicks = 0 /\ status = "SystemMode" /\ inHandler = FALSE /\ yieldOnReturn = FALSE
      /\ quantum \in Quanta /\ randomize \in BOOLEAN
      /\ lastSector = 0 /\ bufferInit = 0 /\ writing = FALSE /\ onTrack = 0
  BY DEF ClockInit
<1>3. first \in Nat \ {0} /\ PollTime \in Nat \ {0} /\ {"Timer", "Console", "Network"} \subseteq Device
  BY ClockConstants DEF Device
(* What holds of the list after each of the three.                            *)
<1> DEFINE Good(q) ==
      /\ q \in Seq(PendingInterrupt) /\ Sorted(q) /\ NoneOf(q, "Disk")
      /\ \A i \in DOMAIN q : q[i].since <= totalTicks /\ q[i].when > totalTicks
<1>4. ASSUME NEW q, Good(q), NEW d \in {"Timer", "Console", "Network"}, NEW delay \in Nat \ {0}
      PROVE  /\ Good(Schedule(q, d, delay))
             /\ NoneOf(q, d) => OneOf(Schedule(q, d, delay), d)
             /\ d # "Timer" /\ OneOf(q, "Timer") => OneOf(Schedule(q, d, delay), "Timer")
  <2> DEFINE r == Schedule(q, d, delay)
  <2>1. /\ q \in Seq(PendingInterrupt) /\ Sorted(q) /\ d \in Device /\ d # "Disk"
        /\ delay \in Nat /\ totalTicks \in Nat /\ \A i \in DOMAIN q : q[i].since <= totalTicks
    BY <1>2, <1>3, <1>4
  <2>2. /\ r \in Seq(PendingInterrupt) /\ Sorted(r)
        /\ \A i \in DOMAIN r :
             \/ r[i] = [type |-> d, when |-> totalTicks + delay, since |-> totalTicks]
             \/ \E j \in DOMAIN q : r[i] = q[j]
        /\ \A i \in DOMAIN r : r[i].since <= totalTicks
        /\ NoneOf(q, d) => OneOf(r, d)
        /\ \A e : e # d => (NoneOf(q, e) => NoneOf(r, e)) /\ (OneOf(q, e) => OneOf(r, e))
    BY <2>1, ScheduleFacts
  <2> HIDE DEF r
  <2>3. \A i \in DOMAIN r : r[i].when > totalTicks
    <3>1. [type |-> d, when |-> totalTicks + delay, since |-> totalTicks].when > totalTicks
      BY <1>2, <1>4
    <3> QED BY <1>4, <2>2, <3>1
  <2>4. NoneOf(r, "Disk")
    BY <1>4, <2>1, <2>2
  <2> QED BY <2>2, <2>3, <2>4 DEF r
<1>5. Good(<<>>) /\ NoneOf(<<>>, "Timer")
  BY DEF Sorted, NoneOf
<1> HIDE DEF Good
<1> DEFINE one   == Schedule(<<>>, "Timer", first)
           two   == Schedule(one, "Console", PollTime)
<1>6. Good(one) /\ OneOf(one, "Timer")
  BY <1>3, <1>4, <1>5
<1> HIDE DEF one
<1>7. Good(two) /\ OneOf(two, "Timer")
  BY <1>3, <1>4, <1>6
<1> HIDE DEF two
<1>8. Good(pending) /\ OneOf(pending, "Timer")
  <2>1. pending = Schedule(two, "Network", PollTime)
    BY <1>1 DEF one, two
  <2>2. /\ Good(Schedule(two, "Network", PollTime))
        /\ OneOf(Schedule(two, "Network", PollTime), "Timer")
    BY <1>3, <1>4, <1>7
  <2> QED BY <2>1, <2>2
<1>9. \A i \in DOMAIN pending : pending[i].type # "Disk"
  BY <1>8 DEF Good, NoneOf
<1>10. InterruptsTypeOK
  <2>1. 0 \in Sector
    <3>1. SectorsPerTrack \in Nat \ {0} /\ NumTracks \in Nat \ {0}
      BY ClockConstants
    <3>2. SectorsPerTrack * NumTracks \in Nat \ {0}
      BY <3>1
    <3> QED BY <3>2 DEF Sector
  <2>2. 0 \in 0 .. MaxTime
    BY ClockConstants
  <2>3. pending \in Seq([type : Device, when : Nat, since : Nat])
    BY <1>8 DEF Good, PendingInterrupt
  <2> QED BY <1>2, <2>1, <2>2, <2>3 DEF InterruptsTypeOK
<1>11. Listed
  BY <1>8 DEF Good, Listed
<1>12. Timely /\ Looping
  BY <1>2, <1>8 DEF Good, Timely, Looping
<1>13. SectorPasses
  BY <1>9 DEF SectorPasses
<1>14. Turning
  <2>1. 0 = 0 * RotationTime /\ 0 \in Nat
    BY ClockConstants
  <2> QED BY <1>2, <1>9, <2>1 DEF Turning
<1> QED BY <1>10, <1>11, <1>12, <1>13, <1>14 DEF ClockInv

LEMMA NextClock == ClockInv /\ [ClockNext]_clockVars => ClockInv'
<1> SUFFICES ASSUME ClockInv, [ClockNext]_clockVars PROVE ClockInv'
  OBVIOUS
<1>1. CASE OneTick
  BY <1>1, OneTickKeeps
<1>2. CASE Idle
  BY <1>2, IdleKeeps
<1>3. CASE Handle
  BY <1>3, HandleKeeps
<1>4. CASE ChangeMode
  BY <1>4, ChangeModeKeeps
<1>5. CASE UseConsole
  BY <1>5, UseConsoleKeeps
<1>6. ASSUME NEW s \in Sector, NEW write \in BOOLEAN, DiskRequest(s, write) PROVE ClockInv'
  BY <1>6, DiskRequestKeeps
<1>7. CASE UNCHANGED clockVars
  <2>1. InterruptsTypeOK' /\ SectorPasses'
    BY <1>7 DEF clockVars, ClockInv, InterruptsTypeOK, SectorPasses
  <2>2. Listed' /\ Timely' /\ Looping' /\ Turning'
    BY <1>7 DEF clockVars, ClockInv, Listed, Sorted, OneOf, NoneOf, Timely, Tick, Looping, Due, Turning
  <2> QED BY <2>1, <2>2 DEF ClockInv
<1> QED BY <1>1, <1>2, <1>3, <1>4, <1>5, <1>6, <1>7 DEF ClockNext

LEMMA ClockInvariant == ClockSpec => []ClockInv
BY InitClock, NextClock, PTL DEF ClockSpec

(* The variables of the clock, the timer and the disk have their types.       *)
THEOREM ClockTypeCorrect == ClockSpec => []InterruptsTypeOK
<1>1. ClockInv => InterruptsTypeOK
  BY DEF ClockInv
<1> QED BY <1>1, ClockInvariant, PTL

(* OneTick, CheckIfDue and Idle run each handler when it is due, in the order *)
(* of the pending interrupts, and leave none out; the timer always has one.   *)
THEOREM HandlersRunInTime == ClockSpec => []HandlersInTime
<1>1. ClockInv => HandlersInTime
  <2> SUFFICES ASSUME ClockInv PROVE HandlersInTime
    OBVIOUS
  <2>1. PICK m \in DOMAIN pending :
          pending[m].type = "Timer" /\ \A j \in DOMAIN pending : pending[j].type = "Timer" => j = m
    BY DEF ClockInv, Listed, OneOf
  <2>2. {i \in DOMAIN pending : pending[i].type = "Timer"} = {m}
    BY <2>1
  <2>3. Cardinality({i \in DOMAIN pending : pending[i].type = "Timer"}) = 1
    BY <2>2, FS_Singleton
  <2> QED BY <2>3 DEF ClockInv, Listed, Sorted, Timely, HandlersInTime
<1> QED BY <1>1, ClockInvariant, PTL

(* However the tracks, the sectors and the speed of the disk are chosen, the  *)
(* latency of disk.cc leaves its sector the time to pass under the head, and  *)
(* no more than a turn and a sector after the seek.                           *)
THEOREM SectorsPassTheHead == ClockSpec => []SectorPasses
<1>1. ClockInv => SectorPasses
  BY DEF ClockInv
<1> QED BY <1>1, ClockInvariant, PTL
=============================================================================
