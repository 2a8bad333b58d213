-------------------------------- MODULE Ticks --------------------------------
(***************************************************************************)
(* Tick arithmetic: timer_sys_ticks and launch times are unsigned words    *)
(* that wrap, compared by the sign of their difference.                    *)
(***************************************************************************)
EXTENDS Integers

CONSTANT Half    \* half the range of a tick counter, 2^31 in the code

ASSUME HalfAssumption == Half \in Nat \ {0}

Wrap == 2 * Half
Words == 0 .. Wrap - 1

FaultyTicksPlus_NoWrap(a, n) == a + n

(* uint32_t addition; the second operand may be a negative int32_t. *)
TicksPlus(a, n) == (a + n) % Wrap

(* (int32_t) of a uint32_t. *)
Signed(w) == IF w < Half THEN w ELSE w - Wrap

(* (int32_t) (a - b): how far a is in the future of b. *)
TicksUntil(a, b) == Signed((a - b) % Wrap)

FaultyTicksBefore_Unsigned(a, b) == a < b

TicksBefore(a, b) == TicksUntil(a, b) < 0
FaultyTicksBeforeOrAt_OnlyAt(a, b) == a = b

TicksBeforeOrAt(a, b) == TicksUntil(a, b) <= 0
=============================================================================
