---------------------------- MODULE KernelThreads ----------------------------
(* What the modules of kernel threads share: the semaphores they use, the    *)
(* place where each thread goes on, and, for the synchronised components,     *)
(* the steps of threads that were forked and do not finish.  Without a thread *)
(* that finishes there is never a carcass to delete, and one that comes back  *)
(* from Yield just goes on; Semaphores and Processes model the whole life of  *)
(* a thread with steps of their own.                                          *)
(*                                                                            *)
(* pc[t] is where t goes on.  A label in asleepLabels is one where t sleeps   *)
(* in P with interrupts disabled; at any other interrupts are enabled.        *)
EXTENDS Synch, FiniteSets

CONSTANTS Sem,           \* the semaphores
          InitialValue   \* their initial values

ASSUME KernelAssumption ==
  IsFiniteSet(Thread) /\ Thread # {} /\ InitialValue \in [Sem -> Nat]

VARIABLES cpu, sem, pc

(* Every thread was forked, in some order, and one of them has the CPU. *)
InitThreads(label) ==
  \E order \in [1 .. Cardinality(Thread) -> Thread] :
    /\ IsInjective(order)
    /\ cpu = [current   |-> order[1],
              ready     |-> Tail(order),
              status    |-> [t \in Thread |-> IF t = order[1] THEN "RUNNING" ELSE "READY"],
              carcass   |-> NoThread,
              finishing |-> FALSE]
    /\ sem = [s \in Sem |-> NewSemaphore(InitialValue[s])]
    /\ pc = [t \in Thread |-> label]

(* t has the CPU and goes on at label l. *)
At(t, l) == cpu.current = t /\ ~Idling(cpu) /\ pc[t] = l

(* One evaluation of the loop of s->P(): t goes on at label after, or sleeps  *)
(* and tests the value again at label asleep.                                 *)
TryP(t, s, asleep, after) ==
  /\ sem' = [sem EXCEPT ![s] = PSem(@, t)]
  /\ cpu' = PCpu(sem[s], cpu)
  /\ pc'  = [pc EXCEPT ![t] = IF Available(sem[s]) THEN after ELSE asleep]

DoV(s) == sem' = [sem EXCEPT ![s] = VSem(@)] /\ cpu' = VCpu(sem[s], cpu)

Goto(t, l) == pc' = [pc EXCEPT ![t] = l]

(* At a tick the timer's handler asked for a Yield. *)
Preempted(asleepLabels) ==
  /\ ~Idling(cpu)
  /\ pc[cpu.current] \notin asleepLabels
  /\ cpu.ready # <<>>
  /\ cpu' = Yield(cpu)
  /\ UNCHANGED <<sem, pc>>

(* A device handler does s->V(), at a tick or while the CPU idles. *)
HandlerV(s, asleepLabels) ==
  /\ Idling(cpu) \/ pc[cpu.current] \notin asleepLabels
  /\ sem' = [sem EXCEPT ![s] = VSem(@)]
  /\ cpu' = IF Idling(cpu) THEN RunOrIdle(VCpu(sem[s], cpu), cpu.finishing)
                           ELSE VCpu(sem[s], cpu)
  /\ UNCHANGED pc
=============================================================================
