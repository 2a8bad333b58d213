----------------------------- MODULE MCScheduler -----------------------------
EXTENDS Scheduler

CONSTANTS h1, p1, p2, t1, t2, main, isr

MCSends == [receiver : {0}, id : {0}, priority : {Medium}]
=============================================================================
