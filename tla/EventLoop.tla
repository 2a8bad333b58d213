------------------------------ MODULE EventLoop ------------------------------
(***************************************************************************)
(* source/system_timer.c together with source/event.c: the timers, which   *)
(* post their events to the queue, and the event core, which hands a       *)
(* timer's event back when its handler has returned.                       *)
(***************************************************************************)
EXTENDS EventCore, Ticks

CONSTANTS
    StaticTimers,   \* startup_sys_timer_pool
    Instants,       \* launch times given to eventOS_event_timer_request_at
    Delays,         \* delays given to eventOS_event_timer_request_in
    Periods,        \* periods given to eventOS_event_timer_request_every
    Millis,         \* delays given to eventOS_event_timer_request
    TickSteps,      \* ticks a call of system_timer_tick_update counts
    MaxLag,         \* bound: how late a live timer may get, in ticks
    CancelWhileFreeing \* TRUE: eventOS_cancel is not serialised with the
                       \* return of a periodic timer to its list

ASSUME EventLoopAssumption ==
    /\ StaticTimers \subseteq TimerEvents
    /\ IsFiniteSet(StaticTimers)
    /\ Instants \subseteq Words
    /\ Delays \subseteq -Half .. Half - 1
    /\ Periods \subseteq 1 .. Half - 1
    /\ Millis \subseteq Nat
    /\ TickSteps \subseteq Words \ {0}
    /\ MaxLag \in 0 .. Half
    /\ CancelWhileFreeing \in BOOLEAN

VARIABLES
    ticks,       \* timer_sys_ticks
    ticking,     \* system_timer_tick_update is in its loop, lock held
    timerList,   \* system_timer_list
    timerFree,   \* system_timer_free
    timerHeap,   \* timers obtained from the heap; they are never given back
    launch,      \* sys_timer_struct_s.launch_time
    period       \* sys_timer_struct_s.period

timerVars == <<ticks, ticking, timerList, timerFree, timerHeap, launch, period>>
vars == <<coreVars, timerVars>>

TimerTypeOK ==
    /\ ticks \in Words
    /\ ticking \in BOOLEAN
    /\ timerList \in Seq(TimerEvents)
    /\ timerFree \in Seq(TimerEvents)
    /\ timerHeap \subseteq TimerEvents \ StaticTimers
    /\ launch \in [TimerEvents -> Words]
    /\ period \in [TimerEvents -> 0 .. Half - 1]

(* Ticks until the launch time of t, negative when it is overdue. *)
Due(t) == TicksUntil(launch[t], ticks)

(* timer_sys_add. *)
TimerSysAdd(t, at) ==
    timerList' = InsertBefore(timerList,
                    {i \in DOMAIN timerList : TicksBefore(at, launch[timerList[i]])}, t)

(* timer_struct_get. *)
TimerStructGet(t) ==
    \/ /\ timerFree # <<>>
       /\ t = Head(timerFree)
       /\ timerFree' = Tail(timerFree)
       /\ UNCHANGED timerHeap
    \/ /\ timerFree = <<>>
       /\ t \in TimerEvents \ (StaticTimers \cup timerHeap)
       /\ timerHeap' = timerHeap \cup {t}
       /\ UNCHANGED timerFree

(* eventOS_event_timer_request_at_, when it gets t from timer_struct_get. *)
RequestWith(t, ev, at, every) ==
    /\ Alive /\ ~ ticking
    /\ HandlerExists(ev.receiver)
    /\ TimerStructGet(t)
    /\ data' = [data EXCEPT ![t] = ev]
    /\ allocator' = [allocator EXCEPT ![t] = "TIMER"]
    /\ launch' = [launch EXCEPT ![t] = at]
    /\ period' = [period EXCEPT ![t] = every]
    /\ IF TicksBeforeOrAt(at, ticks)
       THEN Enqueue(t, ev.priority) /\ UNCHANGED timerList
       ELSE /\ TimerSysAdd(t, at)
            /\ state' = [state EXCEPT ![t] = "UNQUEUED"]
            /\ UNCHANGED queue
    /\ UNCHANGED <<tasklets, freeEvents, heap, appCells, held, loopVars, ticks, ticking>>

RequestTimer(ev, at, every) == \E t \in TimerEvents : RequestWith(t, ev, at, every)

RequestAt(ev, at) == RequestTimer(ev, at, 0)
RequestIn(ev, in) == RequestTimer(ev, TicksPlus(ticks, in), 0)
RequestEvery(ev, every) == RequestTimer(ev, TicksPlus(ticks, every), every)

(* eventOS_event_timer_request. *)
TickPeriod == 10
LegacyTicks(ms) == IF ms > 2 * TickPeriod THEN ms \div TickPeriod + 1 ELSE 2
Request(ev, ms) ==
    RequestTimer([ev EXCEPT !.priority = Medium], TicksPlus(ticks, LegacyTicks(ms)), 0)

FaultyNextLaunch_Drifts(t) == TicksPlus(ticks, period[t])

(* When a periodic timer is launched next. *)
NextLaunch(t) == TicksPlus(launch[t], period[t])

(* timer_sys_event_free, called by event_core_free_push. *)
FreeTimer ==
    LET next == NextLaunch(cur)
    IN  /\ pc = "freeing" /\ ~ ticking
        /\ allocator[cur] = "TIMER"
        /\ \/ /\ period[cur] = 0
              /\ timerFree' = Cons(cur, timerFree)
              /\ UNCHANGED <<queueVars, launch, timerList>>
           \/ /\ period[cur] # 0
              /\ launch' = [launch EXCEPT ![cur] = next]
              /\ TicksBeforeOrAt(next, ticks)
              /\ Enqueue(cur, data[cur].priority)
              /\ UNCHANGED <<timerFree, timerList>>
           \/ /\ period[cur] # 0
              /\ launch' = [launch EXCEPT ![cur] = next]
              /\ ~ TicksBeforeOrAt(next, ticks)
              /\ TimerSysAdd(cur, next)
              /\ UNCHANGED <<queueVars, timerFree>>
        /\ BackToIdle
        /\ UNCHANGED <<tasklets, storageVars, ticks, ticking, timerHeap, period>>

-----------------------------------------------------------------------------
(* Cancelling. *)

FaultyTimerSysEventCancel_StillPeriodic(t) ==
    /\ timerList' = IF state[t] = "UNQUEUED" THEN Without(timerList, t) ELSE timerList
    /\ UNCHANGED period

(* timer_sys_event_cancel_critical: the timer is no longer periodic, and is  *)
(* unlinked from the timer list if it is there.                             *)
TimerSysEventCancel(t) ==
    /\ period' = [period EXCEPT ![t] = 0]
    /\ timerList' = IF state[t] = "UNQUEUED" THEN Without(timerList, t) ELSE timerList

FaultyCancel_RunningToo(t) ==
    /\ TimerSysEventCancel(t)
    /\ queue' = IF state[t] = "QUEUED" THEN Without(queue, t) ELSE queue
    /\ state' = [state EXCEPT ![t] = "UNQUEUED"]
    /\ timerFree' = Cons(t, timerFree)
    /\ UNCHANGED <<tasklets, storageVars, loopVars, ticks, ticking, timerHeap, launch>>

(* eventOS_cancel of a timer's event: unlinked and given back, unless it is  *)
(* in its handler.                                                          *)
Cancel(t) ==
    /\ TimerSysEventCancel(t)
    /\ queue' = IF state[t] = "QUEUED" THEN Without(queue, t) ELSE queue
    /\ IF state[t] = "RUNNING"
       THEN UNCHANGED <<state, timerFree>>
       ELSE /\ state' = [state EXCEPT ![t] = "UNQUEUED"]
            /\ timerFree' = Cons(t, timerFree)
    /\ UNCHANGED <<tasklets, storageVars, loopVars, ticks, ticking, timerHeap, launch>>

(* A timer's event pointer is valid from the request until the event has    *)
(* finished running or is cancelled; that of a periodic timer stays valid.  *)
ValidPointer(t) ==
    \/ t \in Range(timerList) \cup Range(queue)
    \/ t = cur /\ pc = "running"
    \/ t = cur /\ pc = "freeing" /\ period[t] # 0 /\ CancelWhileFreeing

EventCancel(t) ==
    /\ Alive /\ ~ ticking
    /\ t \in TimerEvents
    /\ ValidPointer(t)
    /\ Cancel(t)

(* The event eventOS_event_timer_cancel cancels: the first pending timer    *)
(* that matches, else the first queued event that matches if it is a        *)
(* timer's; NoEvent when the call returns -1.                               *)
Matches(e, id, receiver) == data[e].id = id /\ data[e].receiver = receiver
FirstMatch(list, id, receiver) ==
    LET found == {i \in DOMAIN list : Matches(list[i], id, receiver)}
    IN  IF found = {} THEN NoEvent ELSE list[Min(found)]

CancelTarget(id, receiver) ==
    LET pending == FirstMatch(timerList, id, receiver)
        queued == FirstMatch(queue, id, receiver)
    IN  IF pending # NoEvent THEN pending
        ELSE IF queued # NoEvent /\ allocator[queued] = "TIMER" THEN queued
        ELSE NoEvent

EventTimerCancel(id, receiver) ==
    /\ Alive /\ ~ ticking
    /\ CancelTarget(id, receiver) # NoEvent
    /\ Cancel(CancelTarget(id, receiver))

-----------------------------------------------------------------------------
(* system_timer_tick_update, called with 1 by the tick interrupt and with   *)
(* more by eventOS_scheduler_timer_synch_after_sleep.  The loop runs with   *)
(* the lock held: no other action is possible while ticking.                *)

(* Timers the counter is still compared with. *)
Live == Range(timerList)
        \cup {t \in TimerEvents \cap (Range(queue) \cup {cur}) : period[t] # 0}

TickAdvance(n) ==
    /\ Alive /\ ~ ticking
    /\ \A t \in Live : Due(t) - n >= -MaxLag
    /\ ticks' = TicksPlus(ticks, n)
    /\ ticking' = TRUE
    /\ UNCHANGED <<coreVars, timerList, timerFree, timerHeap, launch, period>>

HeadIsDue == timerList # <<>> /\ TicksBeforeOrAt(launch[Head(timerList)], ticks)

TickExpire ==
    LET t == Head(timerList)
    IN  /\ ticking
        /\ HeadIsDue
        /\ timerList' = Tail(timerList)
        /\ Enqueue(t, data[t].priority)
        /\ allocator' = [allocator EXCEPT ![t] = "TIMER"]
        /\ UNCHANGED <<tasklets, freeEvents, heap, appCells, data, held, loopVars>>
        /\ UNCHANGED <<ticks, ticking, timerFree, timerHeap, launch, period>>

TickDone ==
    /\ ticking
    /\ ~ HeadIsDue
    /\ ticking' = FALSE
    /\ UNCHANGED <<coreVars, ticks, timerList, timerFree, timerHeap, launch, period>>

-----------------------------------------------------------------------------
(* eventOS_scheduler_init and timer_sys_init. *)
LoopInit ==
    /\ Init
    /\ ticks = 0
    /\ ticking = FALSE
    /\ timerList = <<>>
    /\ timerFree = SetToSeq(StaticTimers)
    /\ timerHeap = {}
    /\ launch = [t \in TimerEvents |-> 0]
    /\ period = [t \in TimerEvents |-> 0]

TimerCall ==
    \/ \E ev \in Sends, at \in Instants : RequestAt(ev, at)
    \/ \E ev \in Sends, in \in Delays : RequestIn(ev, in)
    \/ \E ev \in Sends, every \in Periods : RequestEvery(ev, every)
    \/ \E ev \in Sends, ms \in Millis : Request(ev, ms)
    \/ \E t \in TimerEvents : EventCancel(t)
    \/ \E id \in EventIds, receiver \in Ids : EventTimerCancel(id, receiver)

Tick ==
    \/ \E n \in TickSteps : TickAdvance(n)
    \/ TickExpire
    \/ TickDone

CoreLoopStep == ~ ticking /\ LoopStep /\ UNCHANGED timerVars
CoreApiCall == ~ ticking /\ ApiCall /\ UNCHANGED timerVars
CoreWrite(a) == ~ ticking /\ EventCoreWrite(a) /\ UNCHANGED timerVars

LoopNext ==
    \/ CoreLoopStep
    \/ CoreApiCall
    \/ \E a \in Callers : CoreWrite(a)
    \/ FreeTimer
    \/ TimerCall
    \/ Tick

LoopSpec == LoopInit /\ [][LoopNext]_vars
-----------------------------------------------------------------------------
(* Properties. *)

(* Every timer is in one place and there only: free, pending on the timer   *)
(* list, in the event queue, with the dispatcher, or not yet allocated.     *)
(* Expiry, delivery, cancellation and the restart of periodic timers        *)
(* neither lose a timer nor link it twice.                                  *)
TimersConserved ==
    /\ IsInjective(timerFree)
    /\ IsInjective(timerList)
    /\ Range(timerFree) \cap Range(timerList) = {}
    /\ (Range(timerFree) \cup Range(timerList)) \cap (Range(queue) \cup {cur}) = {}
    /\ StaticTimers \cup timerHeap =
         Range(timerFree) \cup Range(timerList) \cup (TimerEvents \cap (Range(queue) \cup {cur}))

(* The comment in timer_sys_event_cancel_critical, which decides by the     *)
(* state where to unlink an event from: "If its unqueued it is on my timer  *)
(* list, otherwise it is in event-loop."                                    *)
UnqueuedIsOnTimerList ==
    \A t \in TimerEvents : ValidPointer(t) =>
        (state[t] = "UNQUEUED" <=> t \in Range(timerList))

(* The timer list is in order of launch, across the wrap of the counter,    *)
(* and holds nothing due once the tick interrupt has returned: stopping the *)
(* loop at the first timer that is not due misses none.                     *)
TimerListInOrder ==
    /\ \A i, j \in DOMAIN timerList : i < j => Due(timerList[i]) <= Due(timerList[j])
    /\ ~ ticking => \A t \in Range(timerList) : Due(t) > 0

(* eventOS_event_timer_cancel: "This cancels a pending timed event, matched *)
(* by event_id and tasklet_id", and -1 means not found.                     *)
CancelFindsTimer ==
    \A id \in EventIds, receiver \in Ids :
        (\E t \in TimerEvents \cap (Range(timerList) \cup Range(queue)) : Matches(t, id, receiver))
            => CancelTarget(id, receiver) # NoEvent

(* A timer on the list is eventually handled, or cancelled: ticks expire    *)
(* it, and neither overdue periodic timers, which re-queue themselves, nor  *)
(* other events keep it from its handler.  Checked of Scheduler, where the  *)
(* loop sleeps, signals cut the sleep short again and again, and the tick   *)
(* timer need never run: the return from sleep counts.                      *)
TimerServed ==
    \A t \in TimerEvents : t \in Range(timerList) ~> t = cur \/ t \in Range(timerFree)

Clock == INSTANCE AlarmClock WITH
    Alarms <- TimerEvents,
    Farthest <- Half - 1,
    Infinity <- Wrap - 1,
    left <- [t \in Live |-> Due(t)],
    every <- [t \in Live |-> period[t]],
    ringing <- Live \ Range(timerList),
    behind <- {<<timerList[ij[1]], timerList[ij[2]]>> : ij \in
                 {ij \in (DOMAIN timerList) \X (DOMAIN timerList) :
                     ij[1] < ij[2] /\ launch[timerList[ij[1]]] = launch[timerList[ij[2]]]}},
    striking <- ticking

(* system_timer.c implements AlarmClock: in true time no timer fires early, *)
(* none is passed over by a tick, timers fire in order, and the periodic    *)
(* ones keep their cadence, although the counter wraps.                     *)
KeepsTime == Clock!Spec
=============================================================================
