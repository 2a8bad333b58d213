------------------------------ MODULE Metronome ------------------------------
(***************************************************************************)
(* What the tick timer promises: while it is on it beats, again and again, *)
(* and lets Period slots pass before each beat; off, it does not beat.     *)
(***************************************************************************)
EXTENDS Naturals

CONSTANT Period

VARIABLES
    on,
    beating,
    left   \* slots that must pass before the next beat

metronomeVars == <<on, beating, left>>

TurnOn == ~ on /\ on' = TRUE /\ left' = Period /\ UNCHANGED beating

TurnOff == on /\ ~ beating /\ on' = FALSE /\ left' = 0 /\ UNCHANGED beating

Pass == on /\ left > 0 /\ left' = left - 1 /\ UNCHANGED <<on, beating>>

(* A beat may be late, and the next is then late as well. *)
Beat == on /\ left = 0 /\ ~ beating /\ beating' = TRUE /\ UNCHANGED <<on, left>>

CountAgain == beating /\ beating' = FALSE /\ left' = Period /\ UNCHANGED on

Init == on = FALSE /\ beating = FALSE /\ left = 0

Next == TurnOn \/ TurnOff \/ Pass \/ Beat \/ CountAgain

Spec == Init /\ [][Next]_metronomeVars
=============================================================================
