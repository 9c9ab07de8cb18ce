------------------------ MODULE MCHistoryCompaction ------------------------
EXTENDS HistoryCompaction

CONSTANTS x, X

MCNamesOf == [i \in Track |-> {X}]
=============================================================================
