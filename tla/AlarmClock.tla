----------------------------- MODULE AlarmClock -----------------------------
(***************************************************************************)
(* What timers promise, in true time: no wrapping counter, no list.        *)
(* An alarm has a time left, negative once it is late.  When the clock     *)
(* has advanced every alarm whose time is up rings, the earliest first and *)
(* those set for the same time in the order they were set.  A repeating    *)
(* alarm goes on from the time it was due, however late it was handled.    *)
(***************************************************************************)
EXTENDS Integers

CONSTANTS
    Alarms,
    Farthest,  \* no alarm is set further ahead, and no period is longer
    Infinity   \* the clock advances no further at once

VARIABLES
    left,      \* alarm -> ticks left; its domain is the alarms that live
    every,     \* living alarm -> its period, 0 for a single alarm
    ringing,   \* the repeating alarms that have rung and are not yet handled
    behind,    \* <<a, b>>: both will ring at the same time, a was set first
    striking   \* the clock has advanced and alarms are being rung

clockVars == <<left, every, ringing, behind, striking>>

Living == DOMAIN left
Armed == Living \ ringing

ArmedFor(d) == {b \in Armed : left[b] = d}

Set(a, d, p) ==
    /\ left' = [b \in Living \cup {a} |-> IF b = a THEN d ELSE left[b]]
    /\ every' = [b \in Living \cup {a} |-> IF b = a THEN p ELSE every[b]]

Drop(a) ==
    /\ left' = [b \in Living \ {a} |-> left[b]]
    /\ every' = [b \in Living \ {a} |-> every[b]]

Forget(a) == behind' = {q \in behind : q[1] # a /\ q[2] # a}

(* A new alarm, d ticks ahead. *)
Arm(a, d, p) ==
    /\ ~ striking
    /\ a \notin Living
    /\ d > 0
    /\ Set(a, d, p)
    /\ behind' = behind \cup {<<b, a>> : b \in ArmedFor(d)}
    /\ UNCHANGED <<ringing, striking>>

Cancel(a) ==
    /\ ~ striking
    /\ a \in Living
    /\ Drop(a)
    /\ Forget(a)
    /\ ringing' = ringing \ {a}
    /\ UNCHANGED striking

(* The owner of a repeating alarm is done with it: it is set again, or      *)
(* rings again at once when the next time has passed already.               *)
Handled(a) ==
    /\ ~ striking
    /\ a \in ringing
    /\ Set(a, left[a] + every[a], every[a])
    /\ IF left[a] + every[a] > 0
       THEN /\ ringing' = ringing \ {a}
            /\ behind' = behind \cup {<<b, a>> : b \in ArmedFor(left[a] + every[a])}
       ELSE UNCHANGED <<ringing, behind>>
    /\ UNCHANGED striking

Advance(n) ==
    /\ ~ striking
    /\ striking' = TRUE
    /\ left' = [a \in Living |-> left[a] - n]
    /\ UNCHANGED <<every, ringing, behind>>

Ring(a) ==
    /\ striking
    /\ a \in Armed
    /\ left[a] <= 0
    /\ \A b \in Armed : left[a] <= left[b] /\ <<b, a>> \notin behind
    /\ Forget(a)
    /\ IF every[a] = 0
       THEN Drop(a) /\ UNCHANGED ringing
       ELSE ringing' = ringing \cup {a} /\ UNCHANGED <<left, every>>
    /\ UNCHANGED striking

Settle ==
    /\ striking
    /\ \A a \in Armed : left[a] > 0
    /\ striking' = FALSE
    /\ UNCHANGED <<left, every, ringing, behind>>

Init ==
    /\ left = <<>>
    /\ every = <<>>
    /\ ringing = {}
    /\ behind = {}
    /\ striking = FALSE

Next ==
    \/ \E a \in Alarms : Cancel(a) \/ Handled(a) \/ Ring(a)
    \/ Settle
    \/ \E n \in 1 .. Infinity : Advance(n)
    \/ \E a \in Alarms, d \in 1 .. Farthest, p \in 0 .. Farthest : Arm(a, d, p)

Spec == Init /\ [][Next]_clockVars
=============================================================================
