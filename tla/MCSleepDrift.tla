---------------------------- MODULE MCSleepDrift ----------------------------
EXTENDS SleepDrift

CONSTANTS h1, p1, t1, main, isr

MCSends == [receiver : {0}, id : {0}, priority : {Medium}]
=============================================================================
