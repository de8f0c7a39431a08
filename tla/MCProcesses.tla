---------------------------- MODULE MCProcesses ----------------------------
EXTENDS Processes

MCSem == {Lock, Done}
MCInitialValue == [s \in MCSem |-> IF s = Lock THEN 1 ELSE 0]
MCThread == 0 .. MaxThreads - 1
=============================================================================
