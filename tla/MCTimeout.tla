----------------------------- MODULE MCTimeout -----------------------------
EXTENDS Timeout

CONSTANTS ht, p1, t1, t2, b1, b2, main

MCTimers == {t1, t2}

(* Events of others, which reach the timeout tasklet, or nobody. *)
MCSends == [receiver : {0}, id : {0}, priority : {Medium}]
=============================================================================
