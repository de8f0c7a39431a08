------------------------------ MODULE Semaphores ------------------------------
(* Kernel threads that fork, yield, use semaphores and finish, interrupted by *)
(* the timer and by devices whose handlers do a V.                            *)
(*                                                                            *)
(* A step is what one thread does between two points where it can lose the    *)
(* CPU: a SWITCH, or the tick taken whenever interrupts are enabled again     *)
(* (Interrupt::SetLevel).  pc[t] says where t goes on when it next has the    *)
(* CPU:                                                                       *)
(*   "new"    created, not forked        "root"  forked, in ThreadRoot        *)
(*   "code"   in its own code            "P"     behind Sleep in on[t]->P()   *)
(*   "yield"  behind Run in Yield        "end"   called Finish                *)
EXTENDS KernelThreads

CONSTANTS Main,          \* the thread main() runs in
          DeviceSem,     \* the semaphores V'd by interrupt handlers
          MaxValue       \* bound on a semaphore's value

ASSUME MainAssumption == Main \in Thread
ASSUME SemAssumption  == Sem # {} /\ DeviceSem \subseteq Sem /\ MaxValue \in Nat

VARIABLE on     \* the semaphore whose P a thread is in

vars == <<cpu, sem, pc, on>>

PC == {"new", "root", "code", "P", "yield", "end"}

TypeOK ==
  /\ cpu \in Cpu
  /\ sem \in [Sem -> SemaphoreType]
  /\ pc \in [Thread -> PC]
  /\ on \in [Thread -> Sem]

Init ==
  /\ cpu = Boot(Main)
  /\ sem = [s \in Sem |-> NewSemaphore(InitialValue[s])]
  /\ pc = [t \in Thread |-> IF t = Main THEN "code" ELSE "new"]
  /\ on = [t \in Thread |-> CHOOSE s \in Sem : TRUE]

-----------------------------------------------------------------------------
(* One evaluation of P's loop, with the scheduler in state c. *)
LoopP(t, s, c) ==
  /\ sem' = [sem EXCEPT ![s] = PSem(@, t)]
  /\ cpu' = PCpu(sem[s], c)
  /\ pc'  = [pc EXCEPT ![t] = IF Available(sem[s]) THEN "code" ELSE "P"]
  /\ on'  = [on EXCEPT ![t] = s]

P(t, s) == At(t, "code") /\ LoopP(t, s, cpu)

(* Mutant: "if" for the "while" of P. *)
ResumePUntested(t) ==
  /\ At(t, "P")
  /\ sem' = [sem EXCEPT ![on[t]].value = @ - 1]
  /\ cpu' = CheckToBeDestroyed(cpu)
  /\ pc'  = [pc EXCEPT ![t] = "code"]
  /\ UNCHANGED on

(* Mutant: P returns when it was woken, with or without a permit. *)
ResumePUncounted(t) ==
  /\ At(t, "P")
  /\ cpu' = CheckToBeDestroyed(cpu)
  /\ pc'  = [pc EXCEPT ![t] = "code"]
  /\ UNCHANGED <<sem, on>>

(* Back from Sleep, P tests the value again. *)
ResumeP(t) == At(t, "P") /\ LoopP(t, on[t], CheckToBeDestroyed(cpu))

AddPermit(s) ==
  /\ sem[s].value < MaxValue
  /\ sem' = [sem EXCEPT ![s] = VSem(@)]
  /\ UNCHANGED <<pc, on>>

V(t, s) == At(t, "code") /\ AddPermit(s) /\ cpu' = VCpu(sem[s], cpu)

Fork(t, u) ==
  /\ At(t, "code")
  /\ cpu.status[u] = "JUST_CREATED" /\ pc[u] = "new"
  /\ cpu' = ReadyToRun(cpu, u)
  /\ pc' = [pc EXCEPT ![u] = "root"]
  /\ UNCHANGED <<sem, on>>

Begin(t) ==
  /\ At(t, "root")
  /\ cpu' = CheckToBeDestroyed(cpu)
  /\ pc' = [pc EXCEPT ![t] = "code"]
  /\ UNCHANGED <<sem, on>>

(* Called by the thread, or by OneTick when the timer's handler asked for it. *)
(* With nobody ready Yield does nothing.                                      *)
YieldCpu(t) ==
  /\ At(t, "code")
  /\ cpu.ready # <<>>
  /\ cpu' = Yield(cpu)
  /\ pc' = [pc EXCEPT ![t] = "yield"]
  /\ UNCHANGED <<sem, on>>

ResumeYield(t) ==
  /\ At(t, "yield")
  /\ cpu' = CheckToBeDestroyed(cpu)
  /\ pc' = [pc EXCEPT ![t] = "code"]
  /\ UNCHANGED <<sem, on>>

Finish(t) ==
  /\ At(t, "code")
  /\ cpu' = Sleep(cpu, TRUE)
  /\ pc' = [pc EXCEPT ![t] = "end"]
  /\ UNCHANGED <<sem, on>>

(* A device handler runs at a tick of the current thread. *)
DeviceInterrupt(s) ==
  /\ At(cpu.current, "code")
  /\ AddPermit(s)
  /\ cpu' = VCpu(sem[s], cpu)

(* Interrupt::Idle advances the clock to the next interrupt, runs its handler *)
(* and returns to the loop of Sleep.                                          *)
IdleInterrupt(s) ==
  /\ Idling(cpu)
  /\ AddPermit(s)
  /\ cpu' = RunOrIdle(VCpu(sem[s], cpu), cpu.finishing)

(* What a thread does when it gets the CPU back. *)
Resume(t) == ResumeP(t) \/ Begin(t) \/ ResumeYield(t)

Next ==
  \/ \E t \in Thread :
       \/ Resume(t)
       \/ YieldCpu(t)
       \/ Finish(t)
       \/ \E s \in Sem : P(t, s) \/ V(t, s)
       \/ \E u \in Thread : Fork(t, u)
  \/ \E s \in DeviceSem : DeviceInterrupt(s) \/ IdleInterrupt(s)

Spec == Init /\ [][Next]_vars

(* The CPU executes: a thread that was switched to goes on.  The timer        *)
(* reschedules itself for ever and the clock advances at every tick, so while *)
(* somebody is ready and nobody is idle it expires again and again, and its   *)
(* handler makes the current thread yield.  (In idle mode an expiry asks for  *)
(* no yield, but then the ready list is empty.)                               *)
TimerYield == \E t \in Thread : YieldCpu(t)

Fairness ==
  /\ WF_vars(\E t \in Thread : Resume(t))
  /\ <>[](cpu.ready # <<>>) => []<><<TimerYield>>_vars

FairSpec == Spec /\ Fairness

-----------------------------------------------------------------------------
(* Threads V took off s's queue that did not look at the value yet. *)
Woken(s) == {t \in Thread : /\ pc[t] = "P" /\ on[t] = s
                            /\ t \notin Range(sem[s].queue)}

(* The ready list, the semaphores' queues, the statuses and the place where   *)
(* each thread goes on always agree: no thread is queued twice, on two lists, *)
(* or on none while it waits.  ReadyToRun and Sleep only assume it, and       *)
(* List::Append asserts that what it queues is not on the list yet.           *)
ListsAgree ==
  /\ IsInjective(cpu.ready)
  /\ \A s \in Sem : IsInjective(sem[s].queue)
  /\ \A t \in Thread :
       /\ t \in Range(cpu.ready) <=> cpu.status[t] = "READY"
       /\ cpu.status[t] = "RUNNING" => t = cpu.current
       /\ \A s \in Sem : t \in Range(sem[s].queue)
                         <=> cpu.status[t] = "BLOCKED" /\ pc[t] = "P" /\ on[t] = s

(* A finished thread's carcass is deleted before another thread can finish    *)
(* (ASSERT(toBeDestroyed == NULL) in Run), never while it is the current      *)
(* thread (the ASSERT of ~Thread), and it is nobody who could still be run.   *)
CarcassSafe ==
  LET c == cpu.carcass IN
  c # NoThread => /\ pc[c] = "end" /\ cpu.status[c] = "BLOCKED"
                  /\ c # cpu.current
                  /\ ~Idling(cpu)
                  /\ pc[cpu.current] \in {"root", "P", "yield"}

(* No wake-up is lost although V wakes one thread at most and the woken       *)
(* thread may find the permit taken: while threads sleep on s, each permit of *)
(* s has a woken thread on its way to it.                                     *)
NoLostWakeup ==
  \A s \in Sem : sem[s].queue # <<>> => sem[s].value <= Cardinality(Woken(s))

(* Seen from outside, a semaphore is a counter of permits: P returns when it  *)
(* has taken one, and a permit and a waiter do not coexist for ever.          *)
Abstract == INSTANCE SemaphoreSpec WITH
  permits <- [s \in Sem |-> sem[s].value],
  waiting <- [s \in Sem |-> {t \in Thread : pc[t] = "P" /\ on[t] = s}]

ImplementsSemaphores == Abstract!FairSpec

(* The ready list is first in first out, so a ready thread gets the CPU. *)
ReadyThreadRuns ==
  \A t \in Thread : cpu.status[t] = "READY" ~> cpu.status[t] = "RUNNING"
=============================================================================
