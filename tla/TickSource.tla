----------------------------- MODULE TickSource -----------------------------
(***************************************************************************)
(* The tick timer of platforms without one: system_timer.c registers a     *)
(* callback timer of ns_timer.c that starts itself again, among the        *)
(* application's.  eventOS_scheduler_timer_stop stops it and the hardware, *)
(* the return from sleep starts it again.                                  *)
(***************************************************************************)
EXTENDS NsTimer

CONSTANT TickSlots \* TIMER_SLOTS_PER_MS * TIMER_SYS_TICK_PERIOD

ASSUME TickSourceAssumption == TickSlots \in 1 .. MaxSlots

VARIABLES
    tick,       \* what the event loop thread has done with the tick timer
    inTick      \* tick_timer_eventOS_callback has been called

tickVars == <<tick, inTick>>
tickSourceVars == <<nsTimerVars, tickVars>>

TickSourceTypeOK ==
    /\ NsTimerTypeOK
    /\ tick \in {"none", "on", "stopping", "sleeping", "off"}
    /\ inTick \in BOOLEAN

(* tick_timer_id, registered first. *)
TickTimerId == 0

(* platform_tick_timer_start. *)
PlatformTickTimerStart == Start(TickTimerId, TickSlots)

-----------------------------------------------------------------------------
(* The event loop thread; the interrupt handler runs to its end before the  *)
(* thread goes on.                                                          *)

(* timer_sys_init up to the start of the timer. *)
PlatformTickTimerRegister ==
    /\ tick = "none"
    /\ Register
    /\ tick' = "off"
    /\ UNCHANGED inTick

(* timer_sys_wakeup, and the end of timer_sys_init. *)
TimerSysWakeup ==
    /\ tick = "off" /\ next = 0
    /\ PlatformTickTimerStart
    /\ tick' = "on"
    /\ UNCHANGED inTick

FaultyTimerSysDisable_NotStopped ==
    /\ tick = "on" /\ next = 0
    /\ tick' = "stopping"
    /\ UNCHANGED <<nsTimerVars, inTick>>

(* eventOS_scheduler_timer_stop: timer_sys_disable, then ns_timer_sleep,    *)
(* which may refuse.                                                        *)
TimerSysDisable ==
    /\ tick = "on" /\ next = 0
    /\ Stop(TickTimerId)
    /\ tick' = "stopping"
    /\ UNCHANGED inTick

TimerStopSleeps ==
    \/ /\ tick = "stopping"
       /\ SleepChecks
       /\ tick' = "sleeping"
       /\ UNCHANGED inTick
    \/ /\ tick = "sleeping"
       /\ SleepDisables
       /\ UNCHANGED tickVars
    \/ /\ tick = "sleeping"
       /\ SleepMarks
       /\ tick' = "off"
       /\ UNCHANGED inTick

TimerStopRefused ==
    /\ tick = "stopping" /\ next = 0
    /\ ~ running
    /\ tick' = "off"
    /\ UNCHANGED <<nsTimerVars, inTick>>

-----------------------------------------------------------------------------
(* The interrupt handler, and what interrupts it. *)

(* A callback is called: the tick timer's, or another, from which timers    *)
(* may be started and stopped.                                              *)
CallBackBegins ==
    /\ ~ inTick
    /\ CallBack
    /\ inTick' = (timers[Min(ToCall)] = TickTimerId)
    /\ UNCHANGED tick

FaultyTickTimerCallback_NotRestarted ==
    /\ inTick
    /\ inTick' = FALSE
    /\ UNCHANGED <<nsTimerVars, tick>>

(* tick_timer_eventOS_callback: the timer is started again, and             *)
(* system_timer_tick_update called.                                         *)
TickTimerCallback ==
    /\ inTick
    /\ PlatformTickTimerStart
    /\ inTick' = FALSE
    /\ UNCHANGED tick

HardwareStep ==
    /\ \/ HalTick
       \/ Interrupt
       \/ ~ inTick /\ ReturnFromInterrupt
    /\ UNCHANGED tickVars

(* Other users of callback timers: other contexts, or a callback that is    *)
(* not the tick's.                                                          *)
Application ==
    /\ tick # "none" /\ ~ inTick
    /\ \/ Register
       \/ \E t \in TimerIds \ {TickTimerId} :
             Unregister(t) \/ Stop(t) \/ \E n \in Slots : Start(t, n)
    /\ UNCHANGED tickVars

-----------------------------------------------------------------------------
TickSourceInit ==
    /\ Init
    /\ tick = "none"
    /\ inTick = FALSE

TickSourceNext ==
    \/ PlatformTickTimerRegister
    \/ TimerSysWakeup
    \/ TimerSysDisable
    \/ TimerStopSleeps
    \/ TimerStopRefused
    \/ CallBackBegins
    \/ TickTimerCallback
    \/ HardwareStep
    \/ Application

TickSourceSpec == TickSourceInit /\ [][TickSourceNext]_tickSourceVars

(* The hardware counts, its interrupt is taken, and callbacks, the tick's   *)
(* among them, return.                                                      *)
TickSourceFairness ==
    /\ WF_tickSourceVars(HalTick /\ UNCHANGED tickVars)
    /\ WF_tickSourceVars(Interrupt /\ UNCHANGED tickVars)
    /\ WF_tickSourceVars(CallBackBegins \/ (HardwareStep /\ ReturnFromInterrupt))
    /\ WF_tickSourceVars(TickTimerCallback)

FairTickSourceSpec == TickSourceSpec /\ TickSourceFairness
-----------------------------------------------------------------------------
(* Properties. *)

Beats == INSTANCE Metronome WITH
    Period <- TickSlots,
    on <- tick = "on",
    beating <- inTick,
    left <- IF tick = "on" /\ TickTimerId \in Scheduled THEN Left(TickTimerId) ELSE 0

(* The tick timer implements Metronome: whatever other timers are started   *)
(* and stopped, and whatever state ns_timer_sleep has left them in, no tick *)
(* comes early, none is missed or made twice, and none comes while the      *)
(* timer is stopped.                                                        *)
KeepsBeat == Beats!Spec

(* The chain of restarts never breaks: while it is on, the next tick comes. *)
TicksGoOn == tick = "on" ~> inTick \/ tick # "on"
=============================================================================
