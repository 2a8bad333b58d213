------------------------------ MODULE Countdown ------------------------------
(***************************************************************************)
(* What the callback timers promise, as if each had a hardware counter of  *)
(* its own.  A timer that has been set counts down with every slot that    *)
(* passes; when its time is up it strikes, and then rings once.            *)
(***************************************************************************)
EXTENDS Integers

CONSTANTS Timers, Longest

VARIABLES
    left,     \* timers that have been set -> slots left
    ringing   \* timers that have struck and have not rung yet

countdownVars == <<left, ringing>>

Set(t, n) ==
    /\ left' = [u \in DOMAIN left \cup {t} |-> IF u = t THEN n ELSE left[u]]
    /\ ringing' = ringing \ {t}

(* The hardware counts one slot at least: a timer set for no time at all    *)
(* may take a slot, and the others then lose the slot with it.              *)
SetNow(t) ==
    /\ \E late \in {0, 1} :
          left' = [u \in DOMAIN left \cup {t} |-> IF u = t THEN late ELSE left[u] + late]
    /\ ringing' = ringing \ {t}

Clear(t) ==
    /\ left' = [u \in DOMAIN left \ {t} |-> left[u]]
    /\ ringing' = ringing \ {t}

(* A slot passes: only while no timer is due.                               *)
Pass ==
    /\ \A t \in DOMAIN left : left[t] > 0
    /\ left' = [t \in DOMAIN left |-> left[t] - 1]
    /\ UNCHANGED ringing

(* All the timers that are due strike together, once the last have rung.    *)
Strike ==
    LET due == {t \in DOMAIN left : left[t] = 0}
    IN  /\ due # {}
        /\ ringing = {}
        /\ ringing' = due
        /\ left' = [t \in DOMAIN left \ due |-> left[t]]

Ring(t) ==
    /\ t \in ringing
    /\ ringing' = ringing \ {t}
    /\ UNCHANGED left

Init == left = <<>> /\ ringing = {}

Next ==
    \/ \E t \in Timers, n \in 1 .. Longest : Set(t, n)
    \/ \E t \in Timers : SetNow(t) \/ Clear(t) \/ Ring(t)
    \/ Pass
    \/ Strike

Spec == Init /\ [][Next]_countdownVars
=============================================================================
