---------------------------- MODULE MCSynchDisks ----------------------------
EXTENDS SynchDisks

CONSTANTS v0

MCSem == {Lock, Done}
MCInitialValue == [s \in MCSem |-> IF s = Lock THEN 1 ELSE 0]
MCInitialContents == [n \in Sector |-> v0]
=============================================================================
