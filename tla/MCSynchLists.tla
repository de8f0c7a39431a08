---------------------------- MODULE MCSynchLists ----------------------------
EXTENDS SynchLists

MCSem == Thread \cup {Lock}
MCInitialValue == [s \in MCSem |-> IF s = Lock THEN 1 ELSE 0]
=============================================================================
