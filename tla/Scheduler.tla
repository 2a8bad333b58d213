------------------------------ MODULE Scheduler ------------------------------
(***************************************************************************)
(* eventOS_scheduler_run and the way to sleep and back: the event loop     *)
(* idles when its queue is empty, waits for a signal or sleeps until the   *)
(* first timer with the tick timer stopped, and brings the tick counter up *)
(* to date.  eventOS_scheduler_idle, wait, sleep and signal are ports; the *)
(* port modelled keeps a signal until the loop takes it, and may wait or   *)
(* sleep as it likes.                                                      *)
(***************************************************************************)
EXTENDS EventLoop

CONSTANTS
    MaxMillis,  \* the largest uint32_t, for milliseconds: given apart from
                \* Half so that small instances have ticks of 10 ms
    Naps        \* milliseconds slept when a signal ends the sleep

(* The milliseconds to a timer may be too many for the word, but what is    *)
(* left of them is never 0: 10 d is no multiple of 2^32 for a d in reach.   *)
ASSUME SchedulerAssumption ==
    /\ MaxMillis \in Nat
    /\ Naps \subseteq Nat
    /\ \A d \in 1 .. Half - 1 : (d * 10) % (MaxMillis + 1) # 0

VARIABLES
    place,      \* where the event loop thread is
    signalled,  \* a signal the port has not taken yet
    signalling, \* contexts between event_core_write's critical section and
                \* its eventOS_scheduler_signal
    tickOn,     \* the tick timer is started
    sleepFor    \* sleep_time_ms of eventOS_scheduler_sleep

sleepVars == <<place, signalled, signalling, tickOn, sleepFor>>
schedulerVars == <<vars, sleepVars>>

SchedulerTypeOK ==
    /\ TimerTypeOK
    /\ place \in {"awake", "idle", "waiting", "stopped", "asleep", "synching"}
    /\ signalled \in BOOLEAN
    /\ signalling \subseteq Callers
    /\ tickOn \in BOOLEAN
    /\ sleepFor \in 0 .. MaxMillis

LoopAwake == place = "awake" /\ Loop \notin signalling
MayRun(a) == a \notin signalling /\ (a = Loop => LoopAwake)

(* eventOS_scheduler_signal inside the critical section that queued an       *)
(* event: a timer that has expired.                                         *)
SignalIfQueued == signalled' = (signalled \/ Len(queue') > Len(queue))

FaultyShortestTicks_OfLast ==
    IF timerList = <<>> THEN 0 ELSE Due(timerList[Len(timerList)])

(* eventOS_event_timer_shortest_active_timer. *)
ShortestTicks ==
    IF timerList = <<>> THEN 0
    ELSE IF HeadIsDue THEN 1
    ELSE Due(Head(timerList))
ShortestActiveTimer == (ShortestTicks * TickPeriod) % (MaxMillis + 1)

-----------------------------------------------------------------------------
(* The event loop. *)

(* One dispatch of eventOS_scheduler_run, in its steps. *)
Run ==
    /\ LoopAwake
    /\ ~ ticking
    /\ \/ Dispatch /\ UNCHANGED <<timerVars, signalled>>
       \/ ReturnMark /\ UNCHANGED <<timerVars, signalled>>
       \/ FreePool /\ UNCHANGED <<timerVars, signalled>>
       \/ FreeTimer /\ SignalIfQueued
    /\ UNCHANGED <<place, signalling, tickOn, sleepFor>>

(* The queue was empty: eventOS_scheduler_idle is called. *)
RunIdles ==
    /\ LoopAwake
    /\ ~ ticking
    /\ DispatchNothing
    /\ place' = "idle"
    /\ UNCHANGED <<timerVars, signalled, signalling, tickOn, sleepFor>>

-----------------------------------------------------------------------------
(* The port's eventOS_scheduler_idle. *)

(* eventOS_scheduler_wait. *)
Wait ==
    /\ place = "idle"
    /\ place' = "waiting"
    /\ UNCHANGED <<vars, signalled, signalling, tickOn, sleepFor>>

WaitReturns ==
    /\ place = "waiting"
    /\ signalled
    /\ signalled' = FALSE
    /\ place' = "awake"
    /\ UNCHANGED <<vars, signalling, tickOn, sleepFor>>

(* eventOS_scheduler_timer_stop. *)
TimerStop ==
    /\ place = "idle"
    /\ ~ ticking
    /\ tickOn' = FALSE
    /\ place' = "stopped"
    /\ UNCHANGED <<vars, signalled, signalling, sleepFor>>

(* eventOS_scheduler_sleep, for as long as shortest_active_timer says.      *)
Sleep ==
    /\ place = "stopped"
    /\ sleepFor' = ShortestActiveTimer
    /\ place' = "asleep"
    /\ UNCHANGED <<vars, signalled, signalling, tickOn>>

FaultyTicksSlept_RoundedDown(ms) == ms \div TickPeriod

(* The sleep_ticks of eventOS_scheduler_timer_synch_after_sleep. *)
TicksSlept(ms) == ms \div TickPeriod + 1

(* The sleep is over, ended by a signal or by the time, and                 *)
(* timer_synch_after_sleep is called: system_timer_tick_update begins.      *)
SynchAfterSleep(ms) ==
    /\ place = "asleep"
    /\ IF ms = sleepFor
       THEN ms # 0 \/ signalled
       ELSE signalled /\ (ms < sleepFor \/ sleepFor = 0)
    /\ TickAdvance(TicksSlept(ms))
    /\ signalled' = FALSE
    /\ place' = "synching"
    /\ UNCHANGED <<signalling, tickOn, sleepFor>>

(* timer_sys_wakeup, and the return to eventOS_scheduler_run. *)
TimerSysWakeup ==
    /\ place = "synching"
    /\ ~ ticking
    /\ tickOn' = TRUE
    /\ place' = "awake"
    /\ sleepFor' = 0
    /\ UNCHANGED <<vars, signalled, signalling>>

(* What the port's idle does. *)
PortStep ==
    \/ Wait
    \/ WaitReturns
    \/ TimerStop
    \/ Sleep
    \/ \E ms \in Naps \cup {sleepFor} : SynchAfterSleep(ms)
    \/ TimerSysWakeup

-----------------------------------------------------------------------------
(* The tick interrupt, and the loop of system_timer_tick_update. *)

(* Bound: room is left within MaxLag for what a nap adds.                   *)
TimerSysInterrupt ==
    /\ tickOn
    /\ \A t \in Live : Due(t) - 1 >= Max({TicksSlept(ms) : ms \in Naps}) - MaxLag
    /\ TickAdvance(1)
    /\ UNCHANGED sleepVars

TickUpdate ==
    /\ TickExpire \/ TickDone
    /\ SignalIfQueued
    /\ UNCHANGED <<place, signalling, tickOn, sleepFor>>

-----------------------------------------------------------------------------
(* API calls. *)

(* eventOS_event_handler_create and eventOS_event_send, first part. *)
SendBegins ==
    /\ ~ ticking
    /\ \/ LoopAwake /\ \E f \in Handlers : HandlerCreate(f)
       \/ \E a \in Callers, ev \in Sends : MayRun(a) /\ EventSend(a, ev)
    /\ UNCHANGED <<timerVars, sleepVars>>

FaultyWrite_SignalsFirst(a) ==
    /\ CoreWrite(a)
    /\ UNCHANGED sleepVars

(* event_core_write up to nanostack_exit_critical, and what is after it.    *)
Write(a) ==
    /\ CoreWrite(a)
    /\ signalling' = signalling \cup {a}
    /\ UNCHANGED <<place, signalled, tickOn, sleepFor>>

Signal(a) ==
    /\ a \in signalling
    /\ signalling' = signalling \ {a}
    /\ signalled' = TRUE
    /\ UNCHANGED <<vars, place, tickOn, sleepFor>>

(* Timers are requested while the loop is awake: nothing tells a sleeping   *)
(* port of a new one.  They may be cancelled at any time.                   *)
TimerApi ==
    /\ \/ /\ LoopAwake
          /\ \/ \E ev \in Sends, in \in Delays : RequestIn(ev, in)
             \/ \E ev \in Sends, every \in Periods : RequestEvery(ev, every)
       \/ \E t \in TimerEvents : EventCancel(t)
    /\ SignalIfQueued
    /\ UNCHANGED <<place, signalling, tickOn, sleepFor>>

-----------------------------------------------------------------------------
SchedulerInit ==
    /\ LoopInit
    /\ place = "awake"
    /\ signalled = FALSE
    /\ signalling = {}
    /\ tickOn = TRUE
    /\ sleepFor = 0

SchedulerNext ==
    \/ Run
    \/ RunIdles
    \/ PortStep
    \/ TimerSysInterrupt
    \/ TickUpdate
    \/ SendBegins
    \/ \E a \in Callers : Write(a) \/ Signal(a)
    \/ TimerApi

SchedulerSpec == SchedulerInit /\ [][SchedulerNext]_schedulerVars

(* Started sends complete, handlers return and the loop goes on, the port   *)
(* comes back when it was signalled or its time is up, and the tick         *)
(* interrupt comes as long as it is started.  Strong where the tick         *)
(* interrupt takes the lock away again and again.                           *)
SchedulerFairness ==
    /\ SF_schedulerVars(Run \/ RunIdles)
    /\ WF_schedulerVars(PortStep)
    /\ WF_schedulerVars(TimerSysInterrupt)
    /\ WF_schedulerVars(TickUpdate)
    /\ \A a \in Callers : SF_schedulerVars(Write(a) \/ Signal(a))

FairSchedulerSpec == SchedulerSpec /\ SchedulerFairness
-----------------------------------------------------------------------------
(* Properties. *)

(* The loop does not sleep on an event: whoever queues one between the      *)
(* empty dispatch and the sleep, or later, has signalled or is about to.    *)
NoLostWakeup ==
    place \in {"waiting", "asleep"} /\ ~ signalled /\ signalling = {} => queue = <<>>

(* The port does not sleep beyond the first timer, however the timers were  *)
(* requested, expired and cancelled before and during the sleep.            *)
SleepsNotPast ==
    place = "asleep" =>
        /\ timerList # <<>> => sleepFor # 0
        /\ \A t \in Range(timerList) : sleepFor <= TickPeriod * Due(t)

(* An event in the queue wakes the loop, which goes on to a handler, unless *)
(* the event is cancelled.                                                  *)
WokenForEvents == queue # <<>> ~> cur # NoEvent \/ queue = <<>>
=============================================================================
