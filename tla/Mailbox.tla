------------------------------- MODULE Mailbox -------------------------------
(***************************************************************************)
(* What the event queue promises its users, without lists, pools or        *)
(* storage states: a posted event waits until it is delivered or           *)
(* withdrawn; deliveries are one at a time, the most urgent class first,   *)
(* and in the order of posting within a class.                             *)
(***************************************************************************)
EXTENDS Integers

CONSTANTS Items, Urgencies, None

VARIABLES
    waiting,   \* function: the items that wait -> their urgency
    older,     \* <<x, y>>: both wait in the same class, x was posted first
    handling   \* the item being handled, or None

mailboxVars == <<waiting, older, handling>>

Post(x, u) ==
    /\ x \notin DOMAIN waiting
    /\ waiting' = [y \in DOMAIN waiting \cup {x} |-> IF y = x THEN u ELSE waiting[y]]
    /\ older' = older \cup {<<y, x>> : y \in {z \in DOMAIN waiting : waiting[z] = u}}
    /\ UNCHANGED handling

Leave(x) ==
    /\ x \in DOMAIN waiting
    /\ waiting' = [y \in DOMAIN waiting \ {x} |-> waiting[y]]
    /\ older' = {p \in older : p[1] # x /\ p[2] # x}

Withdraw(x) == Leave(x) /\ UNCHANGED handling

Deliver(x) ==
    /\ handling = None
    /\ Leave(x)
    /\ \A y \in DOMAIN waiting : waiting[x] <= waiting[y] /\ <<y, x>> \notin older
    /\ handling' = x

Finish ==
    /\ handling # None
    /\ handling' = None
    /\ UNCHANGED <<waiting, older>>

Init == waiting = <<>> /\ older = {} /\ handling = None

Next ==
    \/ \E x \in Items, u \in Urgencies : Post(x, u)
    \/ \E x \in Items : Withdraw(x) \/ Deliver(x)
    \/ Finish

Spec == Init /\ [][Next]_mailboxVars
=============================================================================
