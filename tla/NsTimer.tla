------------------------------- MODULE NsTimer -------------------------------
(***************************************************************************)
(* source/ns_timer.c: any number of callback timers on one hardware timer. *)
(* The hardware runs for the ACTIVE timers; a timer on HOLD has its slots  *)
(* counted from the moment the hardware will fire.  Built without          *)
(* COMPENSATION, as for every target but one.                              *)
(***************************************************************************)
EXTENDS Integers, FiniteSetsExt, Lists

CONSTANTS
    MaxTimerId,   \* INT8_MAX
    MaxSlots,     \* the largest uint16_t
    Slots         \* times given to eventOS_callback_timer_start

ASSUME NsTimerAssumption ==
    /\ MaxTimerId \in Nat
    /\ MaxSlots \in Nat \ {0}
    /\ Slots \subseteq 0 .. MaxSlots

TimerIds == 0 .. MaxTimerId

VARIABLES
    timers,      \* ns_timer_list, the ids in order
    timerState,  \* timer_state, "STOP" for an id that is not in use
    remaining,   \* remaining_slots
    running,     \* NS_TIMER_RUNNING
    toCall,      \* `i' of the interrupt handler: callbacks it has to make
    next,        \* list position its second loop has reached, 0 outside it
    sleeping,    \* where ns_timer_sleep is: it takes no lock
    hal,         \* platform_timer_get_remaining_slots()
    halMode      \* IDLE: not started or its interrupt was taken; COUNTING,
                 \* or its interrupt is pending; DISABLED

halVars == <<hal, halMode>>
placeVars == <<toCall, next, sleeping>>
nsTimerVars == <<timers, timerState, remaining, running, placeVars, halVars>>

NsTimerTypeOK ==
    /\ timers \in Seq(TimerIds)
    /\ timerState \in [TimerIds -> {"ACTIVE", "HOLD", "RUN_INTERRUPT", "STOP"}]
    /\ remaining \in [TimerIds -> 0 .. MaxSlots]
    /\ running \in BOOLEAN
    /\ toCall \in 0 .. Len(timers)
    /\ next \in 0 .. Len(timers) + 1
    /\ sleeping \in {"no", "checked", "disabled"}
    /\ hal \in 0 .. MaxSlots
    /\ halMode \in {"IDLE", "COUNTING", "DISABLED"}

InState(st, s) == {t \in TimerIds : st[t] = s}
Scheduled == InState(timerState, "ACTIVE") \cup InState(timerState, "HOLD")

uint16(n) == n % (MaxSlots + 1)

(* The API is called by the application, or by a callback: not between the  *)
(* beginning of the interrupt and its first callback, when next is 1.       *)
MayCall == next # 1
-----------------------------------------------------------------------------
(* The hardware timer. *)

(* platform_timer_start: from now, an interrupt that is pending is dropped.  *)
PlatformTimerStart(slots) == hal' = slots /\ halMode' = "COUNTING"

(* platform_timer_disable. *)
PlatformTimerDisable == halMode' = "DISABLED" /\ UNCHANGED hal

HalTick ==
    /\ halMode = "COUNTING"
    /\ hal > 0
    /\ hal' = hal - 1
    /\ UNCHANGED <<timers, timerState, remaining, running, placeVars, halMode>>

FaultyStartPlTimer_NotMarked(slots) ==
    /\ PlatformTimerStart(IF slots = 0 THEN 1 ELSE slots)
    /\ UNCHANGED running

(* ns_timer_start_pl_timer. *)
StartPlTimer(slots) ==
    /\ PlatformTimerStart(IF slots = 0 THEN 1 ELSE slots)
    /\ running' = TRUE

-----------------------------------------------------------------------------
(* The timers on HOLD with the fewest slots become ACTIVE, the hardware is   *)
(* started for them, and the others wait for what they have in excess.       *)
ActivateLeast(st, rem) ==
    LET least == Min({rem[t] : t \in InState(st, "HOLD")})
    IN  /\ timerState' = [t \in TimerIds |->
                            IF st[t] = "HOLD" /\ rem[t] = least THEN "ACTIVE" ELSE st[t]]
        /\ remaining' = [t \in TimerIds |->
                            IF st[t] = "HOLD" /\ rem[t] # least THEN rem[t] - least ELSE rem[t]]
        /\ StartPlTimer(least)

(* ns_timer_get_next_running_to, with the hardware not running. *)
GetNextRunningTo(st, rem) ==
    IF InState(st, "HOLD") = {}
    THEN timerState' = st /\ remaining' = rem /\ running' = FALSE
    ELSE ActivateLeast(st, rem)

FaultyFirstFree_OneTooMany == {id \in 0 .. MaxTimerId + 1 : id \notin Range(timers)}

(* Ids the search of eventOS_callback_timer_register may return: the least.  *)
FreeTimerIds == {id \in TimerIds : id \notin Range(timers)}

(* eventOS_callback_timer_register. *)
Register ==
    /\ next = 0
    /\ FreeTimerIds # {}
    /\ LET id == Min(FreeTimerIds)
       IN  /\ timers' = Append(timers, id)
           /\ timerState' = [timerState EXCEPT ![id] = "STOP"]
           /\ remaining' = [remaining EXCEPT ![id] = 0]
    /\ UNCHANGED <<running, placeVars, halVars>>

(* eventOS_callback_timer_unregister, not from a callback. *)
Unregister(t) ==
    /\ next = 0
    /\ timers' = Without(timers, t)
    /\ timerState' = [timerState EXCEPT ![t] = "STOP"]
    /\ remaining' = [remaining EXCEPT ![t] = 0]
    /\ UNCHANGED <<running, placeVars, halVars>>

-----------------------------------------------------------------------------
(* eventOS_callback_timer_start, in its four cases. *)

FaultyStartShorter_HoldNotShifted(t, n) ==
    LET waiting == InState(timerState, "ACTIVE")
    IN  /\ running
        /\ hal > n
        /\ StartPlTimer(n)
        /\ timerState' = [u \in TimerIds |->
                            IF u = t THEN "ACTIVE"
                            ELSE IF u \in waiting THEN "HOLD" ELSE timerState[u]]
        /\ remaining' = [u \in TimerIds |->
                            IF u = t THEN n
                            ELSE IF u \in waiting THEN hal - n ELSE remaining[u]]

(* Before the others: the hardware is restarted for t, they are put off.    *)
StartShorter(t, n) ==
    LET excess == [u \in TimerIds |-> IF timerState[u] = "HOLD" THEN remaining[u] ELSE 0]
    IN  /\ running
        /\ hal > n
        /\ StartPlTimer(n)
        /\ timerState' = [u \in TimerIds |->
                            IF u = t THEN "ACTIVE"
                            ELSE IF u \in Scheduled THEN "HOLD" ELSE timerState[u]]
        /\ remaining' = [u \in TimerIds |->
                            IF u = t THEN n
                            ELSE IF u \in Scheduled THEN uint16(excess[u] + (hal - n))
                            ELSE remaining[u]]

StartLonger(t, n) ==
    /\ running
    /\ hal < n
    /\ timerState' = [timerState EXCEPT ![t] = "HOLD"]
    /\ remaining' = [remaining EXCEPT ![t] = n - hal]
    /\ UNCHANGED <<running, halVars>>

StartEqual(t, n) ==
    /\ running
    /\ hal = n
    /\ timerState' = [timerState EXCEPT ![t] = "ACTIVE"]
    /\ remaining' = [remaining EXCEPT ![t] = n]
    /\ UNCHANGED <<running, halVars>>

StartIdle(t, n) ==
    /\ ~ running
    /\ GetNextRunningTo([timerState EXCEPT ![t] = "HOLD"], [remaining EXCEPT ![t] = n])

(* Slots until the callback of a scheduled timer, outside sleep. *)
Left(t) == IF timerState[t] = "ACTIVE" THEN hal ELSE hal + remaining[t]

(* Bound: a timer started with no slots puts the others off by one, and     *)
(* must not put one off beyond MaxSlots.                                    *)
SlipBound(n) == n = 0 => \A t \in Scheduled : Left(t) < MaxSlots

Start(t, n) ==
    /\ MayCall
    /\ t \in Range(timers)
    /\ SlipBound(n)
    /\ StartShorter(t, n) \/ StartLonger(t, n) \/ StartEqual(t, n) \/ StartIdle(t, n)
    /\ UNCHANGED <<timers, placeVars>>

(* eventOS_callback_timer_stop. *)
Stop(t) ==
    LET st == [timerState EXCEPT ![t] = "STOP"]
        rem == [u \in TimerIds |-> IF u = t THEN 0
                                   ELSE IF st[u] = "HOLD" THEN uint16(remaining[u] + hal)
                                   ELSE remaining[u]]
    IN  /\ MayCall
        /\ timerState[t] # "STOP"
        /\ IF InState(st, "ACTIVE") = {} /\ InState(st, "HOLD") # {}
           THEN ActivateLeast(st, rem)
           ELSE /\ timerState' = st
                /\ remaining' = [remaining EXCEPT ![t] = 0]
                /\ UNCHANGED <<running, halVars>>
        /\ UNCHANGED <<timers, placeVars>>

(* ns_timer_sleep.  Interrupts, and calls of other contexts, come in        *)
(* between.  Only eventOS_scheduler_timer_stop calls it: see TickSource.    *)
SleepChecks ==
    /\ sleeping = "no" /\ next = 0
    /\ running
    /\ sleeping' = "checked"
    /\ UNCHANGED <<timers, timerState, remaining, running, toCall, next, halVars>>

SleepDisables ==
    /\ sleeping = "checked" /\ next = 0
    /\ PlatformTimerDisable
    /\ sleeping' = "disabled"
    /\ UNCHANGED <<timers, timerState, remaining, running, toCall, next>>

SleepMarks ==
    /\ sleeping = "disabled" /\ next = 0
    /\ running' = FALSE
    /\ sleeping' = "no"
    /\ UNCHANGED <<timers, timerState, remaining, toCall, next, halVars>>

-----------------------------------------------------------------------------
(* ns_timer_interrupt_handler. *)

Due == InState(timerState, "ACTIVE")

FaultyNextTimeout_Forgotten(st) ==
    /\ timerState' = st
    /\ running' = FALSE
    /\ halMode' = "IDLE"
    /\ UNCHANGED <<remaining, hal>>

(* The hardware has stopped; the next timeout is started, if there is one.  *)
NextTimeout(st) ==
    /\ GetNextRunningTo(st, remaining)
    /\ InState(st, "HOLD") = {} => halMode' = "IDLE" /\ UNCHANGED hal

(* Up to the loop that makes the callbacks.                                 *)
Interrupt ==
    /\ halMode = "COUNTING"
    /\ hal = 0
    /\ next = 0
    /\ NextTimeout([t \in TimerIds |-> IF t \in Due THEN "RUN_INTERRUPT" ELSE timerState[t]])
    /\ toCall' = Cardinality(Due)
    /\ next' = 1
    /\ UNCHANGED <<timers, sleeping>>

FaultyToCall_CountsNodes ==
    {k \in next .. next + toCall - 1 : k \in DOMAIN timers /\ timerState[timers[k]] = "RUN_INTERRUPT"}

(* Positions where the loop has a callback to make; it stops early when it  *)
(* has made as many as the interrupt found.                                 *)
ToCall ==
    IF toCall = 0 THEN {}
    ELSE {k \in next .. Len(timers) : timerState[timers[k]] = "RUN_INTERRUPT"}

(* The loop goes to the next timer to call, and the callback begins. What   *)
(* it calls are steps of their own, until the loop goes on.                 *)
CallBack ==
    /\ next # 0
    /\ ToCall # {}
    /\ LET k == Min(ToCall)
       IN  /\ timerState' = [timerState EXCEPT ![timers[k]] = "STOP"]
           /\ toCall' = toCall - 1
           /\ next' = k + 1
    /\ UNCHANGED <<timers, remaining, running, sleeping, halVars>>

ReturnFromInterrupt ==
    /\ next # 0
    /\ ToCall = {}
    /\ toCall' = 0
    /\ next' = 0
    /\ UNCHANGED <<timers, timerState, remaining, running, sleeping, halVars>>

-----------------------------------------------------------------------------
Init ==
    /\ timers = <<>>
    /\ timerState = [t \in TimerIds |-> "STOP"]
    /\ remaining = [t \in TimerIds |-> 0]
    /\ running = FALSE
    /\ toCall = 0
    /\ next = 0
    /\ sleeping = "no"
    /\ hal = 0
    /\ halMode = "IDLE"

Next ==
    \/ Register
    \/ \E t \in TimerIds : Unregister(t) \/ Stop(t)
    \/ \E t \in TimerIds, n \in Slots : Start(t, n)
    \/ HalTick
    \/ Interrupt
    \/ CallBack
    \/ ReturnFromInterrupt

Spec == Init /\ [][Next]_nsTimerVars
-----------------------------------------------------------------------------
(* Properties. *)

(* ns_timer_state tells whether the hardware runs, and while it is not      *)
(* disabled by ns_timer_sleep it always runs for a timer that is started:   *)
(* no order of starting, stopping and firing leaves a timer stranded.       *)
ScheduledIsTimed ==
    /\ running <=> halMode = "COUNTING"
    /\ Scheduled # {} => halMode # "IDLE"

(* The count that lets the interrupt's loop stop early, which starts and    *)
(* stops from callbacks make stale, never makes it stop too early: every    *)
(* timer that was due has been called when the interrupt returns.           *)
CalledInFull == next = 0 => InState(timerState, "RUN_INTERRUPT") = {}

(* A timer that is started, and from then on not started again, is          *)
(* eventually called, stopped or unregistered, however other timers are     *)
(* started and stopped, unless the hardware is disabled.  Checked of        *)
(* TickSource, where the tick timer starts itself again and again.          *)
TimerFires ==
    \A t \in TimerIds :
        <>[][\A n \in Slots : ~ Start(t, n)]_nsTimerVars =>
            (t \in Scheduled ~> t \notin Scheduled \/ halMode = "DISABLED")

Count == INSTANCE Countdown WITH
    Timers <- TimerIds,
    Longest <- MaxSlots,
    left <- [t \in Scheduled |-> Left(t)],
    ringing <- InState(timerState, "RUN_INTERRUPT")

(* ns_timer.c implements Countdown: although one hardware counter is        *)
(* restarted and shared, every timer is called after exactly the slots it   *)
(* was started with, and once.                                              *)
CountsDown == Count!Spec
=============================================================================
