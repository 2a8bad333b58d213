---------------------------- MODULE MCEventLoop ----------------------------
EXTENDS EventLoop, TLC

CONSTANTS h1, p1, c1, t1, t2, t3, main, isr

MCTimers == {t1, t2}
MCSends == [receiver : {0}, id : {0}, priority : {Medium}]
MCSymmetry == Permutations(MCTimers)
MCDelays == {-1, 1, 3}
MCInstants == {0, 2}
=============================================================================
