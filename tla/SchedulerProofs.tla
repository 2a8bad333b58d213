--------------------------- MODULE SchedulerProofs ---------------------------
(***************************************************************************)
(* Theorems about the way to sleep and back, for any number of timers,     *)
(* events and contexts, and any tick counter.                              *)
(***************************************************************************)
EXTENDS Scheduler, EventLoopProofs

(* An insertion makes a list longer by one, wherever it stops.              *)
LEMMA InsertBeforeLen ==
  ASSUME NEW S, NEW s \in Seq(S), NEW e \in S, NEW Stops \in SUBSET (1 .. Len(s))
  PROVE  Len(InsertBefore(s, Stops, e)) = Len(s) + 1
  <1>1. PICK i \in 1 .. Len(s) + 1 : InsertBefore(s, Stops, e) = InsertAt(s, i, e)
    BY InsertBeforeFacts
  <1> QED
    BY <1>1, InsertAtFacts

(* An event that joins the empty queue is noticed by SignalIfQueued.        *)
LEMMA EnqueueSignals ==
  ASSUME NEW e, NEW p, queue = <<>>, queue' = QueueBefore(e, p), SignalIfQueued
  PROVE  signalled'
  <1>1. QueueBefore(e, p) = InsertBefore(queue, {i \in DOMAIN queue : data[queue[i]].priority > p}, e)
    BY DEF QueueBefore
  <1>2. {i \in DOMAIN queue : data[queue[i]].priority > p} = {}
    OBVIOUS
  <1>3. queue \in Seq({e}) /\ e \in {e} /\ {} \in SUBSET (1 .. Len(queue)) /\ Len(queue) = 0
    OBVIOUS
  <1>4. Len(InsertBefore(queue, {}, e)) = Len(queue) + 1
    BY <1>3, InsertBeforeLen
  <1>5. Len(queue') > Len(queue)
    BY <1>1, <1>2, <1>3, <1>4
  <1> QED
    BY Zenon, <1>5 DEF SignalIfQueued

(* Between the empty dispatch and the return of the port, an event in the   *)
(* queue has its signal given or on the way.                                *)
WakeInv ==
    place \in {"idle", "waiting", "stopped", "asleep"} /\ ~ signalled /\ signalling = {}
        => queue = <<>>

(* What a step may do to the queue without endangering it.                  *)
LEMMA QuietKeepsWake ==
  ASSUME WakeInv, UNCHANGED <<place, signalling>>, signalled => signalled',
         queue = <<>> => queue' = <<>> \/ signalled'
  PROVE  WakeInv'
  BY DEF WakeInv

LEMMA StepWakeInv == WakeInv /\ [SchedulerNext]_schedulerVars => WakeInv'
  <1> SUFFICES ASSUME WakeInv, [SchedulerNext]_schedulerVars
               PROVE  WakeInv'
    OBVIOUS
  <1>1. CASE Run
    BY <1>1 DEF Run, LoopAwake, WakeInv
  <1>2. CASE RunIdles
    BY <1>2 DEF RunIdles, DispatchNothing, queueVars, WakeInv
  <1>3. CASE Wait \/ TimerStop \/ Sleep
    BY <1>3 DEF Wait, TimerStop, Sleep, WakeInv, vars, coreVars, queueVars
  <1>4. CASE WaitReturns \/ TimerSysWakeup
    BY <1>4 DEF WaitReturns, TimerSysWakeup, WakeInv
  <1>5. ASSUME NEW ms, SynchAfterSleep(ms)
        PROVE  WakeInv'
    BY <1>5 DEF SynchAfterSleep, WakeInv
  <1>6. CASE TimerSysInterrupt
    BY <1>6 DEF TimerSysInterrupt, TickAdvance, WakeInv, sleepVars, coreVars, queueVars
  <1>7. CASE TickUpdate
    <2>1. UNCHANGED <<place, signalling>> /\ SignalIfQueued /\ (signalled => signalled')
      BY <1>7 DEF TickUpdate, SignalIfQueued
    <2>2. CASE TickExpire
      <3>1. queue' = QueueBefore(Head(timerList), data[Head(timerList)].priority)
        BY <2>2 DEF TickExpire, Enqueue
      <3>2. queue = <<>> => signalled'
        BY <2>1, <3>1, EnqueueSignals
      <3> QED
        BY <2>1, <3>2, QuietKeepsWake
    <2>3. CASE TickDone
      BY <2>1, <2>3, QuietKeepsWake DEF TickDone, coreVars, queueVars
    <2> QED
      BY <1>7, <2>2, <2>3 DEF TickUpdate
  <1>8. CASE SendBegins
    BY <1>8 DEF SendBegins, HandlerCreate, EventSend, queueVars, sleepVars, WakeInv
  <1>9. ASSUME NEW a \in Callers, Write(a)
        PROVE  WakeInv'
    BY <1>9 DEF Write, WakeInv
  <1>10. ASSUME NEW a \in Callers, Signal(a)
         PROVE  WakeInv'
    BY <1>10 DEF Signal, WakeInv
  <1>11. CASE TimerApi
    <2>1. UNCHANGED <<place, signalling>> /\ (signalled => signalled')
      BY <1>11 DEF TimerApi, SignalIfQueued
    <2>2. CASE LoopAwake
      BY <2>1, <2>2 DEF LoopAwake, WakeInv
    <2>3. ASSUME NEW t \in TimerEvents, EventCancel(t)
          PROVE  WakeInv'
      <3>1. queue' = IF state[t] = "QUEUED" THEN Without(queue, t) ELSE queue
        BY <2>3 DEF EventCancel, Cancel
      <3>2. queue = <<>> => queue' = <<>>
        BY <3>1 DEF Without, Range
      <3> QED
        BY <2>1, <3>2, QuietKeepsWake
    <2> QED
      BY <1>11, <2>2, <2>3 DEF TimerApi
  <1>12. CASE UNCHANGED schedulerVars
    BY <1>12 DEF schedulerVars, vars, coreVars, queueVars, sleepVars, WakeInv
  <1> QED
    BY <1>1, <1>2, <1>3, <1>4, <1>5, <1>6, <1>7, <1>8, <1>9, <1>10, <1>11, <1>12 DEF SchedulerNext, PortStep

(* The loop never waits or sleeps on an event that nobody signals, whatever *)
(* the sends, ticks and cancellations between the empty dispatch and the    *)
(* sleep.                                                                   *)
THEOREM NothingSleptOn == SchedulerSpec => []NoLostWakeup
  <1>1. SchedulerInit => WakeInv
    BY DEF SchedulerInit, WakeInv
  <1>2. WakeInv => NoLostWakeup
    BY DEF WakeInv, NoLostWakeup
  <1> QED
    BY <1>1, <1>2, StepWakeInv, PTL DEF SchedulerSpec

-----------------------------------------------------------------------------
(* Types. *)

(* A step of the scheduler is one of the timers and the event core below    *)
(* it, or a count of ticks, as many as were slept.                          *)
LEMMA StepBelow ==
  ASSUME SchedulerTypeOK, [SchedulerNext]_schedulerVars
  PROVE  [LoopNext]_vars \/ \E n \in Nat : TickAdvance(n)
  <1>1. CASE Run
    <2>1. CASE FreeTimer
      BY <2>1 DEF LoopNext
    <2>2. CASE (Dispatch \/ ReturnMark \/ FreePool) /\ UNCHANGED timerVars
      BY <1>1, <2>2 DEF Run, LoopNext, CoreLoopStep, LoopStep
    <2> QED
      BY <1>1, <2>1, <2>2 DEF Run
  <1>2. CASE RunIdles
    BY <1>2 DEF RunIdles, LoopNext, CoreLoopStep, LoopStep
  <1>3. CASE Wait \/ WaitReturns \/ TimerStop \/ Sleep \/ TimerSysWakeup \/ UNCHANGED schedulerVars
    BY <1>3 DEF Wait, WaitReturns, TimerStop, Sleep, TimerSysWakeup, schedulerVars
  <1>4. ASSUME NEW ms \in Naps \cup {sleepFor}, SynchAfterSleep(ms)
        PROVE  \E n \in Nat : TickAdvance(n)
    <2>1. ms \in Nat
      BY SchedulerAssumption DEF SchedulerTypeOK
    <2>2. TicksSlept(ms) \in Nat
      BY <2>1 DEF TicksSlept, TickPeriod
    <2>3. TickAdvance(TicksSlept(ms))
      BY <1>4 DEF SynchAfterSleep
    <2> QED
      BY <2>2, <2>3
  <1>5. CASE TimerSysInterrupt
    BY <1>5 DEF TimerSysInterrupt
  <1>6. CASE TickUpdate
    BY <1>6 DEF TickUpdate, LoopNext, Tick
  <1>7. CASE SendBegins
    BY <1>7 DEF SendBegins, LoopNext, CoreLoopStep, LoopStep, CoreApiCall, ApiCall
  <1>8. ASSUME NEW a \in Callers, Write(a)
        PROVE  LoopNext
    BY <1>8 DEF Write, LoopNext
  <1>9. ASSUME NEW a \in Callers, Signal(a)
        PROVE  UNCHANGED vars
    BY <1>9 DEF Signal
  <1>10. CASE TimerApi
    BY <1>10 DEF TimerApi, LoopNext, TimerCall
  <1> QED
    BY <1>1, <1>2, <1>3, <1>4, <1>5, <1>6, <1>7, <1>8, <1>9, <1>10 DEF SchedulerNext, PortStep

LEMMA StepTimersBelow ==
  ASSUME ~ HandlerMayInvalidate, ~ CancelWhileFreeing,
         SchedulerTypeOK, TimerInv, [SchedulerNext]_schedulerVars
  PROVE  TimerInv' /\ (TimerListInOrder => TimerListInOrder')
  <1>1. CASE [LoopNext]_vars
    BY <1>1, StepTimerInv, StepTimerListInOrder
  <1>2. ASSUME NEW n \in Nat, TickAdvance(n)
        PROVE  TimerInv' /\ (TimerListInOrder => TimerListInOrder')
    BY <1>2, AdvanceKeepsTimers, AdvanceKeepsOrder
  <1> QED
    BY <1>1, <1>2, StepBelow

(* What the scheduler adds stays of its type.                               *)
SleepTypeOK ==
    /\ place \in {"awake", "idle", "waiting", "stopped", "asleep", "synching"}
    /\ signalled \in BOOLEAN
    /\ signalling \subseteq Callers
    /\ tickOn \in BOOLEAN
    /\ sleepFor \in 0 .. MaxMillis

(* How long the port may sleep is asked while nothing on the list is due.   *)
LEMMA ShortestActiveFacts ==
  ASSUME TimerInv, TimerListInOrder, ~ ticking
  PROVE  /\ ShortestActiveTimer \in 0 .. MaxMillis
         /\ timerList # <<>> => ShortestActiveTimer # 0
         /\ \A t \in Range(timerList) : ShortestActiveTimer <= TickPeriod * Due(t)
  <1>0. /\ MaxMillis \in Nat /\ TickPeriod = 10 /\ Half \in Nat
        /\ timerList \in Seq(TimerEvents) /\ Range(timerList) \subseteq TimerEvents
        /\ \A i \in DOMAIN timerList : timerList[i] \in Range(timerList)
        /\ launch \in [TimerEvents -> Words] /\ ticks \in Words
    BY SchedulerAssumption, HalfAssumption DEF TickPeriod, TimerInv, TimerTypeOK, Range
  <1>1. CASE timerList = <<>>
    <2>1. ShortestActiveTimer = 0
      <3>1. (0 * 10) % (MaxMillis + 1) = 0
        BY <1>0
      <3> QED
        BY <1>0, <1>1, <3>1 DEF ShortestActiveTimer, ShortestTicks
    <2> QED
      BY <1>0, <1>1, <2>1 DEF Range
  <1>2. CASE timerList # <<>>
    <2>1. /\ 1 \in DOMAIN timerList /\ Head(timerList) = timerList[1]
          /\ timerList[1] \in Range(timerList)
      BY <1>0, <1>2
    <2>2. PICK d : d = Due(timerList[1])
      OBVIOUS
    <2>3. d \in 1 .. Half - 1
      <3>1. d > 0
        BY <2>1, <2>2 DEF TimerListInOrder
      <3>2. d \in -Half .. Half - 1
        BY <1>0, <2>1, <2>2, TicksUntilFacts DEF Due
      <3> QED
        BY <1>0, <3>1, <3>2
    <2>4. ShortestActiveTimer = (d * 10) % (MaxMillis + 1)
      <3>1. ~ HeadIsDue
        BY <1>0, <2>1, <2>2, <2>3 DEF HeadIsDue, TicksBeforeOrAt, Due
      <3> QED
        BY <1>0, <1>2, <2>1, <2>2, <3>1 DEF ShortestActiveTimer, ShortestTicks
    <2>5. /\ (d * 10) % (MaxMillis + 1) \in 0 .. MaxMillis
          /\ (d * 10) % (MaxMillis + 1) <= d * 10
          /\ (d * 10) % (MaxMillis + 1) # 0
      <3>1. PICK m \in Nat : m = d * 10
        BY <2>3
      <3>2. m % (MaxMillis + 1) \in 0 .. MaxMillis /\ m % (MaxMillis + 1) <= m
        <4>1. CASE m < MaxMillis + 1
          BY <1>0, <4>1
        <4>2. CASE m >= MaxMillis + 1
          BY <1>0, <4>2
        <4> QED
          BY <1>0, <4>1, <4>2
      <3> QED
        BY <2>3, <3>1, <3>2, SchedulerAssumption
    <2>6. ASSUME NEW t \in Range(timerList)
          PROVE  d <= Due(t) /\ Due(t) \in Int
      <3>1. PICK j \in DOMAIN timerList : timerList[j] = t
        BY DEF Range
      <3>2. Due(t) \in Int
        BY <1>0, TicksUntilFacts DEF Due
      <3>3. j = 1 \/ 1 < j
        BY <1>0, <3>1
      <3> QED
        BY <2>1, <2>2, <3>1, <3>2, <3>3 DEF TimerListInOrder
    <2> QED
      BY <1>0, <2>3, <2>4, <2>5, <2>6
  <1> QED
    BY <1>1, <1>2

(* What SchedulerAssumption asks of the words holds of those of the code:   *)
(* with as many milliseconds as ticks in the word it is enough that half of *)
(* it, there 2^31, is no multiple of 5.                                     *)
LEMMA NapsOfWords ==
  ASSUME NEW h \in Nat \ {0}, h % 5 # 0
  PROVE  \A d \in 1 .. h - 1 : (d * 10) % (2 * h) # 0
  <1> SUFFICES ASSUME NEW d \in 1 .. h - 1, (d * 10) % (2 * h) = 0
               PROVE  FALSE
    OBVIOUS
  <1>1. PICK m \in Nat : m = d * 10 /\ m < 10 * h /\ m > 0
    OBVIOUS
  <1>2. PICK w \in Nat \ {0} : w = 2 * h
    OBVIOUS
  <1>3. m \in {w, 2 * w, 3 * w, 4 * w}
    <2>1. CASE m < w
      BY <1>1, <1>2, <2>1
    <2>2. CASE w <= m /\ m < 2 * w
      <3>1. m - w \in 0 .. w - 1 /\ m = w * 1 + (m - w)
        BY <1>1, <1>2, <2>2
      <3>2. m % w = m - w
        BY <1>1, <1>2, <3>1
      <3> QED
        BY <1>1, <1>2, <3>2
    <2>3. CASE 2 * w <= m /\ m < 3 * w
      <3>1. m % w = m - 2 * w
        BY <1>1, <1>2, <2>3
      <3> QED
        BY <1>1, <1>2, <3>1
    <2>4. CASE 3 * w <= m /\ m < 4 * w
      <3>1. m % w = m - 3 * w
        BY <1>1, <1>2, <2>4
      <3> QED
        BY <1>1, <1>2, <3>1
    <2>5. CASE 4 * w <= m
      <3>1. m % w = m - 4 * w
        BY <1>1, <1>2, <2>5
      <3> QED
        BY <1>1, <1>2, <3>1
    <2> QED
      BY <1>1, <1>2, <2>1, <2>2, <2>3, <2>4, <2>5
  <1> QED
    BY <1>1, <1>2, <1>3

-----------------------------------------------------------------------------
(* Sleeping. *)

(* While the port has the tick timer stopped no tick is counted, and from   *)
(* the moment it has asked how long it may sleep the timer list only gets   *)
(* shorter.                                                                 *)
SleepInv ==
    /\ SleepTypeOK
    /\ place \in {"stopped", "asleep"} => tickOn = FALSE /\ ~ ticking
    /\ SleepsNotPast

(* A step that leaves the port where it is.                                 *)
LEMMA StayKeepsSleep ==
  ASSUME SleepInv, UNCHANGED <<place, tickOn, sleepFor>>,
         signalling' \subseteq Callers, signalled' \in BOOLEAN,
         \/ place \notin {"stopped", "asleep"}
         \/ /\ UNCHANGED <<ticks, ticking, launch>>
            /\ Range(timerList') \subseteq Range(timerList)
            /\ timerList = <<>> => timerList' = <<>>
  PROVE  SleepInv'
  <1>1. SleepTypeOK'
    BY DEF SleepInv, SleepTypeOK
  <1>2. CASE place \notin {"stopped", "asleep"}
    BY <1>1, <1>2 DEF SleepInv, SleepsNotPast
  <1>3. CASE /\ UNCHANGED <<ticks, ticking, launch>>
             /\ Range(timerList') \subseteq Range(timerList)
             /\ timerList = <<>> => timerList' = <<>>
    BY <1>1, <1>3 DEF SleepInv, SleepsNotPast, Due
  <1> QED
    BY <1>2, <1>3

LEMMA StepSleepInv ==
  ASSUME TimerInv, TimerListInOrder, SleepInv, [SchedulerNext]_schedulerVars
  PROVE  SleepInv'
  <1>0. /\ SleepTypeOK /\ signalling \subseteq Callers /\ signalled \in BOOLEAN
        /\ sleepFor \in 0 .. MaxMillis
        /\ timerList \in Seq(TimerEvents)
    BY DEF SleepInv, SleepTypeOK, TimerInv, TimerTypeOK
  <1>1. CASE Run
    <2>1. UNCHANGED <<place, tickOn, sleepFor, signalling>> /\ place = "awake"
      BY <1>1 DEF Run, LoopAwake
    <2>2. signalled' = signalled \/ SignalIfQueued
      BY <1>1 DEF Run
    <2>3. signalled' \in BOOLEAN
      BY <1>0, <2>2, Zenon DEF SignalIfQueued
    <2> QED
      BY <1>0, <2>1, <2>3, StayKeepsSleep
  <1>2. CASE RunIdles \/ Wait \/ WaitReturns \/ TimerStop \/ TimerSysWakeup
    <2>1. /\ place' \in {"idle", "waiting", "awake"} \/ (place' = "stopped" /\ tickOn' = FALSE /\ ticking' = FALSE)
          /\ signalling' = signalling /\ signalled' \in {signalled, FALSE}
          /\ tickOn' \in {tickOn, TRUE, FALSE} /\ sleepFor' \in {sleepFor, 0}
      BY <1>2 DEF RunIdles, Wait, WaitReturns, TimerStop, TimerSysWakeup, vars, timerVars,
                  TimerInv, TimerTypeOK
    <2>2. 0 \in 0 .. MaxMillis
      BY SchedulerAssumption
    <2>3. SleepTypeOK'
      BY <1>0, <2>1, <2>2 DEF SleepTypeOK
    <2> QED
      BY <2>1, <2>3 DEF SleepInv, SleepsNotPast
  <1>3. CASE Sleep
    <2>1. /\ place = "stopped" /\ place' = "asleep" /\ sleepFor' = ShortestActiveTimer
          /\ UNCHANGED <<signalled, signalling, tickOn, ticks, ticking, timerList, launch>>
      BY <1>3 DEF Sleep, vars, timerVars
    <2>2. /\ ShortestActiveTimer \in 0 .. MaxMillis
          /\ timerList # <<>> => ShortestActiveTimer # 0
          /\ \A t \in Range(timerList) : ShortestActiveTimer <= TickPeriod * Due(t)
      BY <2>1, ShortestActiveFacts DEF SleepInv
    <2>3. SleepTypeOK'
      BY <1>0, <2>1, <2>2 DEF SleepTypeOK
    <2> QED
      BY <2>1, <2>2, <2>3 DEF SleepInv, SleepsNotPast, Due
  <1>4. ASSUME NEW ms, SynchAfterSleep(ms)
        PROVE  SleepInv'
    <2>1. /\ place' = "synching" /\ signalled' = FALSE
          /\ UNCHANGED <<signalling, tickOn, sleepFor>>
      BY <1>4 DEF SynchAfterSleep
    <2>2. SleepTypeOK'
      BY <1>0, <2>1 DEF SleepTypeOK
    <2> QED
      BY <2>1, <2>2 DEF SleepInv, SleepsNotPast
  <1>5. CASE TimerSysInterrupt
    <2>1. place \notin {"stopped", "asleep"}
      BY <1>5 DEF TimerSysInterrupt, SleepInv
    <2> QED
      BY <1>0, <1>5, <2>1, StayKeepsSleep DEF TimerSysInterrupt, sleepVars
  <1>6. CASE TickUpdate
    <2>1. place \notin {"stopped", "asleep"}
      BY <1>6 DEF TickUpdate, TickExpire, TickDone, SleepInv
    <2>2. signalled' \in BOOLEAN
      BY <1>0, <1>6, Zenon DEF TickUpdate, SignalIfQueued
    <2> QED
      BY <1>0, <1>6, <2>1, <2>2, StayKeepsSleep DEF TickUpdate
  <1>7. ASSUME UNCHANGED <<timerVars, place, tickOn, sleepFor>>, signalling' \subseteq Callers,
               signalled' \in BOOLEAN
        PROVE  SleepInv'
    BY <1>7, StayKeepsSleep DEF timerVars
  <1>8. CASE SendBegins
    BY <1>0, <1>7, <1>8 DEF SendBegins, sleepVars
  <1>9. ASSUME NEW a \in Callers, Write(a) \/ Signal(a)
        PROVE  SleepInv'
    BY <1>0, <1>7, <1>9 DEF Write, Signal, CoreWrite, vars
  <1>10. CASE TimerApi
    <2>1. UNCHANGED <<place, signalling, tickOn, sleepFor>>
      BY <1>10 DEF TimerApi
    <2>2. signalled' \in BOOLEAN
      BY <1>0, <1>10, Zenon DEF TimerApi, SignalIfQueued
    <2>3. CASE LoopAwake
      BY <1>0, <2>1, <2>2, <2>3, StayKeepsSleep DEF LoopAwake
    <2>4. ASSUME NEW t \in TimerEvents, EventCancel(t)
          PROVE  SleepInv'
      <3>1. /\ timerList' = Without(timerList, t) \/ timerList' = timerList
            /\ UNCHANGED <<ticks, ticking, launch>>
        BY <2>4 DEF EventCancel, Cancel, TimerSysEventCancel
      <3>2. Range(timerList') \subseteq Range(timerList)
        <4>1. IsInjective(timerList)
          BY DEF TimerInv, TimersConserved
        <4> QED
          BY <1>0, <3>1, <4>1, WithoutFacts
      <3>3. timerList = <<>> => timerList' = <<>>
        BY <3>1 DEF Without, Range
      <3> QED
        BY <1>0, <2>1, <2>2, <3>1, <3>2, <3>3, StayKeepsSleep
    <2> QED
      BY <1>10, <2>3, <2>4 DEF TimerApi
  <1>11. CASE UNCHANGED schedulerVars
    BY <1>0, <1>7, <1>11 DEF schedulerVars, vars, sleepVars
  <1> QED
    BY <1>1, <1>2, <1>3, <1>4, <1>5, <1>6, <1>8, <1>9, <1>10, <1>11 DEF SchedulerNext, PortStep

SchedulerInv ==
    /\ TimerInv
    /\ TimerListInOrder
    /\ SleepInv

LEMMA SchedulerInvHolds ==
  ASSUME ~ HandlerMayInvalidate, ~ CancelWhileFreeing
  PROVE  SchedulerSpec => []SchedulerInv
  <1>1. SchedulerInit => SchedulerInv
    <2> SUFFICES ASSUME SchedulerInit
                 PROVE  SchedulerInv
      OBVIOUS
    <2>1. timerList = <<>> /\ TimerInv
      BY InitTimerInv DEF SchedulerInit, LoopInit
    <2>2. TimerListInOrder
      BY <2>1 DEF TimerListInOrder, Range
    <2>3. SleepInv
      <3>1. 0 \in 0 .. MaxMillis
        BY SchedulerAssumption
      <3>2. SleepTypeOK
        BY <3>1 DEF SchedulerInit, SleepTypeOK
      <3> QED
        BY <3>2 DEF SchedulerInit, SleepInv, SleepsNotPast
    <2> QED
      BY <2>1, <2>2, <2>3 DEF SchedulerInv
  <1>2. SchedulerInv /\ [SchedulerNext]_schedulerVars => SchedulerInv'
    <2>1. SchedulerInv => SchedulerTypeOK
      BY DEF SchedulerInv, SleepInv, SleepTypeOK, TimerInv, SchedulerTypeOK
    <2> QED
      BY <2>1, StepTimersBelow, StepSleepInv DEF SchedulerInv
  <1> QED
    BY <1>1, <1>2, PTL DEF SchedulerSpec

(* The places, flags and times of the port stay of their types, and the     *)
(* timers with them although ticks are counted in the steps of a sleep.     *)
THEOREM SchedulerTyped ==
  ASSUME ~ HandlerMayInvalidate, ~ CancelWhileFreeing
  PROVE  SchedulerSpec => []SchedulerTypeOK
  <1>1. SchedulerInv => SchedulerTypeOK
    BY DEF SchedulerInv, SleepInv, SleepTypeOK, TimerInv, SchedulerTypeOK
  <1> QED
    BY <1>1, SchedulerInvHolds, PTL

(* The port never sleeps beyond the first timer, whatever timers are        *)
(* requested, expire and are cancelled on the way to sleep and during it.   *)
THEOREM NeverSleepsPast ==
  ASSUME ~ HandlerMayInvalidate, ~ CancelWhileFreeing
  PROVE  SchedulerSpec => []SleepsNotPast
  <1>1. SchedulerInv => SleepsNotPast
    BY DEF SchedulerInv, SleepInv
  <1> QED
    BY <1>1, SchedulerInvHolds, PTL
=============================================================================
