------------------------------ MODULE Callouts ------------------------------
(***************************************************************************)
(* What timeouts promise: a callout that was asked for waits, is called,   *)
(* and is then gone, or waits again if it repeats.  One that is cancelled  *)
(* is not called any more; cancelled while it is being called, it is gone  *)
(* when the call returns.                                                  *)
(***************************************************************************)
CONSTANTS Callbacks, None

VARIABLES
    waiting,  \* the callouts that are to be called
    repeats,  \* those of them, and of the one being called, that repeat
    calling   \* the callout being called, or None

calloutVars == <<waiting, repeats, calling>>

Ask(x, again) ==
    /\ x \notin waiting \cup {calling}
    /\ waiting' = waiting \cup {x}
    /\ repeats' = IF again THEN repeats \cup {x} ELSE repeats
    /\ UNCHANGED calling

Cancel(x) ==
    /\ waiting' = waiting \ {x}
    /\ repeats' = repeats \ {x}
    /\ UNCHANGED calling

Call(x) ==
    /\ calling = None
    /\ calling' = x
    /\ x \in waiting
    /\ waiting' = waiting \ {x}
    /\ UNCHANGED repeats

Return ==
    /\ calling # None
    /\ waiting' = IF calling \in repeats THEN waiting \cup {calling} ELSE waiting
    /\ calling' = None
    /\ UNCHANGED repeats

Init == waiting = {} /\ repeats = {} /\ calling = None

Next ==
    \/ Return
    \/ \E x \in Callbacks : Call(x) \/ Cancel(x)
    \/ \E x \in Callbacks, again \in BOOLEAN : Ask(x, again)

Spec == Init /\ [][Next]_calloutVars
=============================================================================
