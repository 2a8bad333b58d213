---------------------------- MODULE MCEventCore ----------------------------
EXTENDS EventCore, TLC

CONSTANTS h1, h2, h3, p1, p2, c1, c2, main, isr

MCHandlers == {h1, h2}
MCManyHandlers == {h1, h2, h3}
MCPool == {p1, p2}
MCCells == {c1, c2}
MCCallers == {main, isr}
MCSends == [receiver : {1}, id : {0}, priority : Priorities]
MCUrgentSends == [receiver : {0}, id : {0}, priority : {High, Low}]
MCSymmetry == Permutations(MCHandlers) \cup Permutations(MCPool) \cup Permutations(MCCells)
=============================================================================
