------------------------------ MODULE MCPaging ------------------------------
EXTENDS Paging, TLC

Symmetry == Permutations(Process)

CONSTANTS p1, p2

MCProcess == {p1, p2}
=============================================================================
