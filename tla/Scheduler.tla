------------------------------ MODULE Scheduler ------------------------------
(* The thread scheduler of Nachos: threads/scheduler.cc and the parts of      *)
(* threads/thread.cc that change which thread has the CPU.  The machine is a  *)
(* uniprocessor, so everything between two context switches or two points     *)
(* where interrupts are enabled is one step; the modules that EXTEND this one *)
(* build their steps from the operators below.                                *)
(*                                                                            *)
(* The scheduler's state is a record:                                         *)
(*   current    kernel->currentThread                                         *)
(*   ready      Scheduler::readyList                                          *)
(*   status     Thread::status of every thread ("DELETED" once ~Thread ran)   *)
(*   carcass    Scheduler::toBeDestroyed                                      *)
(*   finishing  the argument of the Sleep the current thread is looping in    *)
(*              while the CPU is idle                                         *)
EXTENDS Naturals, Sequences, Functions

CONSTANTS Thread,    \* the Thread objects
          NoThread   \* NULL

ASSUME NoThreadAssumption == NoThread \notin Thread

Status == {"JUST_CREATED", "RUNNING", "READY", "BLOCKED", "DELETED"}

Cpu == [current   : Thread,
        ready     : Seq(Thread),
        status    : [Thread -> Status],
        carcass   : Thread \cup {NoThread},
        finishing : BOOLEAN]

(* Kernel start-up: main is the running thread, nobody else was forked. *)
Boot(main) ==
  [current   |-> main,
   ready     |-> <<>>,
   status    |-> [t \in Thread |-> IF t = main THEN "RUNNING" ELSE "JUST_CREATED"],
   carcass   |-> NoThread,
   finishing |-> FALSE]

(* The current thread called Sleep, found nobody ready and loops in Idle. *)
Idling(c) == c.status[c.current] # "RUNNING"

(* Mutant: the ready list as a stack. *)
ReadyToRunFirst(c, t) ==
  [c EXCEPT !.status[t] = "READY", !.ready = <<t>> \o @]

ReadyToRun(c, t) ==
  [c EXCEPT !.status[t] = "READY", !.ready = Append(@, t)]

(* Run, up to SWITCH: what follows SWITCH is done by the thread switched to. *)
Run(c, next, finishing) ==
  [c EXCEPT !.current     = next,
            !.status[next] = "RUNNING",
            !.carcass     = IF finishing THEN c.current ELSE @,
            !.finishing   = FALSE]

(* FindNextToRun followed by Run, for a ready list that is not empty. *)
RunFront(c, finishing) ==
  Run([c EXCEPT !.ready = Tail(@)], Head(c.ready), finishing)

(* One evaluation of the loop of Sleep: run somebody, or stay idle. *)
RunOrIdle(c, finishing) ==
  IF c.ready = <<>> THEN [c EXCEPT !.finishing = finishing]
                    ELSE RunFront(c, finishing)

Sleep(c, finishing) ==
  RunOrIdle([c EXCEPT !.status[c.current] = "BLOCKED"], finishing)

(* Yield looks for the next thread before it queues the caller. *)
Yield(c) ==
  IF c.ready = <<>>
  THEN c
  ELSE Run(ReadyToRun([c EXCEPT !.ready = Tail(@)], c.current), Head(c.ready), FALSE)

(* Mutant: nobody looks at toBeDestroyed. *)
NeverDestroys(c) == c

(* The first thing done after SWITCH, by Run for a thread that ran before and *)
(* by Begin for a new one.                                                    *)
CheckToBeDestroyed(c) ==
  IF c.carcass = NoThread
  THEN c
  ELSE [c EXCEPT !.status[c.carcass] = "DELETED", !.carcass = NoThread]
=============================================================================
