----------------------------- MODULE SleepDrift -----------------------------
(***************************************************************************)
(* Scheduler with a record of true time: how far                           *)
(* eventOS_scheduler_timer_synch_after_sleep has put the tick counter      *)
(* ahead of it, if the loop is awake for no time between two sleeps.       *)
(***************************************************************************)
EXTENDS Scheduler

VARIABLES
    gained, \* milliseconds the counter was advanced by in excess of sleep
    since   \* timer -> what gained was when it was requested

driftVars == <<schedulerVars, gained, since>>

DriftInit ==
    /\ SchedulerInit
    /\ gained = 0
    /\ since = [t \in TimerEvents |-> 0]

Gain ==
    \E ms \in Naps \cup {sleepFor} :
        /\ SynchAfterSleep(ms)
        /\ gained' = gained + TickPeriod * TicksSlept(ms) - ms
        /\ UNCHANGED since

Keep ==
    /\ SchedulerNext
    /\ ~ (place = "asleep" /\ place' = "synching")
    /\ since' = [t \in TimerEvents |->
                   IF t \in Range(timerFree) \ Range(timerFree') THEN gained ELSE since[t]]
    /\ UNCHANGED gained

DriftSpec == DriftInit /\ [][Gain \/ Keep]_driftVars

(* eventOS_event_timer_request_in: "the elapsed time between issuing the    *)
(* request and it running may be up to 1 tick less than the specified       *)
(* time."  When the event of a single timer is queued, the specified time   *)
(* less the elapsed is what the counter gained, less what it passed the     *)
(* launch time by.                                                          *)
Early(t) == gained - since[t] + TickPeriod * Due(t)
AtMostATickEarly ==
    [][\A t \in Range(timerList) \cap Range(queue') :
          period[t] = 0 => Early(t) <= TickPeriod]_driftVars
=============================================================================
