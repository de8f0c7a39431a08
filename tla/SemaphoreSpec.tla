---------------------------- MODULE SemaphoreSpec ----------------------------
(* What threads/synch.h promises of a semaphore: P waits until the value is   *)
(* positive and then takes one, V adds one.  Who is served among the waiting  *)
(* threads, and whether a newcomer is served before them, is left open.       *)
EXTENDS Naturals

CONSTANTS Thread, Sem, InitialValue

VARIABLES permits, waiting

vars == <<permits, waiting>>

Init == permits = InitialValue /\ waiting = [s \in Sem |-> {}]

(* P by t finds a permit. *)
Take(t, s) ==
  /\ permits[s] > 0
  /\ \A r \in Sem : t \notin waiting[r]
  /\ permits' = [permits EXCEPT ![s] = @ - 1]
  /\ UNCHANGED waiting

(* P by t finds none. *)
Wait(t, s) ==
  /\ permits[s] = 0
  /\ \A r \in Sem : t \notin waiting[r]
  /\ waiting' = [waiting EXCEPT ![s] = @ \cup {t}]
  /\ UNCHANGED permits

(* A waiting P takes a permit and returns. *)
Grant(t, s) ==
  /\ permits[s] > 0
  /\ t \in waiting[s]
  /\ permits' = [permits EXCEPT ![s] = @ - 1]
  /\ waiting' = [waiting EXCEPT ![s] = @ \ {t}]

V(s) == permits' = [permits EXCEPT ![s] = @ + 1] /\ UNCHANGED waiting

Next == \E s \in Sem :
          V(s) \/ \E t \in Thread : Take(t, s) \/ Wait(t, s) \/ Grant(t, s)

Spec == Init /\ [][Next]_vars

(* A semaphore with a permit and a waiting thread serves some thread. *)
Serve(s) == waiting[s] # {} /\ \E t \in Thread : Take(t, s) \/ Grant(t, s)

FairSpec == Spec /\ \A s \in Sem : WF_vars(Serve(s))
=============================================================================
