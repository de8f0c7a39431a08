---------------------------- MODULE MCSemaphores ----------------------------
EXTENDS Semaphores, TLC

CONSTANTS t1, t2, t3, s1, s2

MCThread == {t1, t2, t3}
MCSem == {s1, s2}
(* s1 starts with a permit, s2 is the kind a device handler signals. *)
MCInitialValue == (s1 :> 1) @@ (s2 :> 0)
MCDeviceSem == {s2}
=============================================================================
