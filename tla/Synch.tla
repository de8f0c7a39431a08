-------------------------------- MODULE Synch --------------------------------
(* Semaphores and locks as data: threads/synch.cc.  A semaphore is its value  *)
(* and its queue of sleeping threads; P and V change the semaphore and the    *)
(* scheduler in one step because both run with interrupts disabled.           *)
EXTENDS Scheduler

SemaphoreType == [value : Nat, queue : Seq(Thread)]

NewSemaphore(initialValue) == [value |-> initialValue, queue |-> <<>>]

(* One evaluation of the loop of Semaphore::P by thread t: take the permit,   *)
(* or queue up and sleep.                                                     *)
Available(s) == s.value # 0

(* Mutant: the permit is counted down before it is tested. *)
PSemDecrementsFirst(s, t) ==
  IF Available(s) THEN [s EXCEPT !.value = @ - 1]
                  ELSE [value |-> s.value - 1, queue |-> Append(s.queue, t)]

PSem(s, t) ==
  IF Available(s) THEN [s EXCEPT !.value = @ - 1]
                  ELSE [s EXCEPT !.queue = Append(@, t)]

PCpu(s, c) == IF Available(s) THEN c ELSE Sleep(c, FALSE)

(* Mutant: V wakes a thread only when the value was 0. *)
WakesAtZero(s) == s.queue # <<>> /\ s.value = 0

Wakes(s) == s.queue # <<>>

(* Mutant: the woken thread stays on the queue. *)
VSemKeepsFront(s) == [s EXCEPT !.value = @ + 1]

(* Semaphore::V wakes the front of the queue and always adds the permit: the  *)
(* woken thread has to compete for it.                                        *)
VSem(s) ==
  [value |-> s.value + 1,
   queue |-> IF Wakes(s) THEN Tail(s.queue) ELSE s.queue]

VCpu(s, c) == IF Wakes(s) THEN ReadyToRun(c, Head(s.queue)) ELSE c
=============================================================================
