---------------------------- MODULE MCPostOffices ----------------------------
EXTENDS PostOffices

CONSTANTS hostA, hostB, s1, s2

MCMachine == {hostA, hostB}
MCDestination == {hostB}
MCSender == {s1, s2}
MCHostOf == [s \in MCSender |-> hostA]
=============================================================================
