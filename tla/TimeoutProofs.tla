---------------------------- MODULE TimeoutProofs ----------------------------
(***************************************************************************)
(* Timeouts of module Timeout: for every set of tasklets, timers, blocks   *)
(* and times, the pointers between a block and its timer's event hold      *)
(* while anybody follows them, and every block is freed once.              *)
(***************************************************************************)
EXTENDS Timeout, EventLoopProofs

-----------------------------------------------------------------------------
(* The invariant. *)

(* Until eventOS_timeout_at_ has stored the event in it, the new block is   *)
(* known to its frame, and to the timer it got.                             *)
RequestOwned ==
    /\ request.block = NoBlock => request = NoRequest
    /\ request.block # NoBlock =>
          /\ request.block \in blocks
          /\ TimeoutTasklet \in DOMAIN tasklets
          /\ \A t \in Active : dataPtr[t] = request.block => request.event = t
    /\ request.event # NoEvent =>
          /\ request.event \in Active
          /\ dataPtr[request.event] = request.block

(* Between the cancel and the free of eventOS_timeout_cancel the state of   *)
(* the timer, which an interrupt may have taken for another request, still  *)
(* tells whether the cancelled timeout is in its callback.                  *)
CancelOwned ==
    cancelled # NoBlock =>
        /\ request = NoRequest
        /\ cancelled \in blocks
        /\ eventOf[cancelled] \in TimerEvents
        /\ \/ /\ state[eventOf[cancelled]] = "RUNNING"
              /\ InCallback(eventOf[cancelled])
              /\ dataPtr[eventOf[cancelled]] = cancelled
           \/ /\ state[eventOf[cancelled]] # "RUNNING"
              /\ \A t \in Active : dataPtr[t] # cancelled

(* The event loop thread runs the functions of ns_timeout.c to their end    *)
(* before its handler returns, and timeout_tasklet's frame lives as long as *)
(* the callback it makes.                                                   *)
FrameInv ==
    /\ pc = "freeing" => ThreadFree
    /\ timer = IF pc = "running" /\ IsTimeout(cur) THEN cur ELSE NoEvent

(* A timer that is on its way has a tasklet to go to: nobody else's timer   *)
(* becomes a timeout when timeout_tasklet is registered.                    *)
Receivers ==
    \A t \in TimerEvents \cap (Range(timerList) \cup Range(queue) \cup {cur}) :
        HandlerExists(data[t].receiver)

TimeoutInv ==
    /\ TimerInv
    /\ TimeoutTypeOK
    /\ NoUseAfterFree
    /\ NoTimeoutLeak
    /\ RequestOwned
    /\ CancelOwned
    /\ FrameInv
    /\ Receivers

-----------------------------------------------------------------------------
(* Where timers are. *)

(* A timer whose event will come, or come again, to a tasklet, or is there. *)
OnItsWay(t) ==
    \/ t \in Range(timerList) \cup Range(queue)
    \/ t = cur /\ pc = "running"
    \/ t = cur /\ pc = "freeing" /\ period[t] # 0

LEMMA ActiveIs == \A t : t \in Active <=> t \in TimerEvents /\ IsTimeout(t) /\ OnItsWay(t)
  BY DEF Active, ToCallBack, InCallback, OnItsWay

LEMMA ActiveIsThen == \A t : t \in Active' <=> t \in TimerEvents /\ IsTimeout(t)' /\ OnItsWay(t)'
  BY DEF Active, ToCallBack, InCallback, OnItsWay

(* event_core_get takes storage from the pool or the heap, and fills it in: *)
(* the events of timers are left alone.                                     *)
LEMMA GetLeavesTimers ==
  ASSUME TimerInv, NEW a, NEW ev, EventCoreGet(a, ev)
  PROVE  \A t \in TimerEvents : data'[t] = data[t]
  <1>1. /\ PoolEvents \cap TimerEvents = {} /\ HeapCells \cap TimerEvents = {}
        /\ Range(freeEvents) \subseteq PoolEvents
        /\ freeEvents \in Seq(Storage)
    BY EventCoreAssumption DEF TimerInv, StorageInv, Ownership, TypeOK
  <1>2. PICK e : e \notin TimerEvents /\ data' = [data EXCEPT ![e] = ev]
    <2>1. CASE freeEvents # <<>> /\ data' = [data EXCEPT ![Head(freeEvents)] = ev]
      <3>1. Head(freeEvents) \in Range(freeEvents)
        BY <1>1, <2>1, TailKeepsDistinct DEF TimerInv, StorageInv, PoolConserved
      <3> QED
        BY <1>1, <2>1, <3>1
    <2>2. CASE \E c \in HeapCells \ heap : data' = [data EXCEPT ![c] = ev]
      BY <1>1, <2>2
    <2> QED
      BY <2>1, <2>2 DEF EventCoreGet
  <1>3. DOMAIN data = Storage
    BY DEF TimerInv, StorageInv, TypeOK
  <1> QED
    BY <1>2

(* tasklet_get_free_id never gives out the receiver of a timer on its way:  *)
(* that one is in use.                                                      *)
LEMMA NewIdIsNew ==
  ASSUME TypeOK, NEW id \in Ids, HandlerExists(id)
  PROVE  TaskletGetFreeId # id
  <1>1. CASE TaskletGetFreeId \in 0 .. MaxId /\ ~ HandlerExists(TaskletGetFreeId)
    BY <1>1
  <1>2. CASE TaskletGetFreeId = -1
    <2>1. ASSUME id = -1 PROVE FALSE
      <3>1. PICK f \in DOMAIN tasklets : tasklets[f] = U8(id)
        BY DEF HandlerExists
      <3>2. tasklets[f] \in -1 .. MaxId /\ MaxId \in Nat
        BY EventCoreAssumption DEF TypeOK, Ids
      <3>3. (-1) % (2 * (MaxId + 1)) = 2 * MaxId + 1
        BY <3>2
      <3> QED
        BY <2>1, <3>1, <3>2, <3>3 DEF U8
    <2> QED
      BY <1>2, <2>1
  <1> QED
    BY <1>1, <1>2, FreeIdFacts

-----------------------------------------------------------------------------
(* The steps of others. *)

(* A step that touches no block, and brings no timeout on its way nor takes *)
(* one from it, leaves everything as it was.                                *)
LEMMA OthersKeepTimeouts ==
  ASSUME TimeoutInv, TimerInv', UNCHANGED timeoutVars, FrameInv', Receivers',
         \A t \in TimerEvents : IsTimeout(t)' /\ OnItsWay(t)' <=> IsTimeout(t) /\ OnItsWay(t),
         TimeoutTasklet \in DOMAIN tasklets => TimeoutTasklet \in DOMAIN tasklets',
         cancelled # NoBlock =>
            /\ state'[eventOf[cancelled]] = "RUNNING" <=> state[eventOf[cancelled]] = "RUNNING"
            /\ InCallback(eventOf[cancelled]) => InCallback(eventOf[cancelled])'
  PROVE  TimeoutInv'
  <1>1. UNCHANGED <<blocks, eventOf, dataPtr, request, timer, cancelled>>
    BY DEF timeoutVars, blockVars, frameVars
  <1>2. \A t : t \in Active' <=> t \in Active
    BY ActiveIs, ActiveIsThen
  <1>3. TimeoutTypeOK'
    BY <1>1 DEF TimeoutInv, TimeoutTypeOK
  <1>4. NoUseAfterFree'
    BY <1>1, <1>2 DEF TimeoutInv, NoUseAfterFree
  <1>5. NoTimeoutLeak'
    BY <1>1, <1>2 DEF TimeoutInv, NoTimeoutLeak
  <1>6. RequestOwned'
    <2>1. NoRequest' = NoRequest
      BY DEF NoRequest
    <2> QED
      BY <1>1, <1>2, <2>1 DEF TimeoutInv, RequestOwned
  <1>7. CancelOwned'
    <2>1. NoRequest' = NoRequest
      BY DEF NoRequest
    <2> QED
      BY <1>1, <1>2, <2>1 DEF TimeoutInv, CancelOwned
  <1> QED
    BY <1>3, <1>4, <1>5, <1>6, <1>7 DEF TimeoutInv

(* Tasklets are never unregistered.                                         *)
LEMMA MoreTaskletsKeep ==
  ASSUME DOMAIN tasklets \subseteq DOMAIN tasklets',
         \A f \in DOMAIN tasklets : tasklets'[f] = tasklets[f],
         NEW id, HandlerExists(id)
  PROVE  HandlerExists(id)'
  BY DEF HandlerExists

(* The steps of event.c between a dispatch and the next: an event of the    *)
(* pool is queued or given back.                                            *)
LEMMA QuietMoves ==
  ASSUME TimerInv, DispatchNothing \/ FreePool \/ EventCoreWrite(Loop)
  PROVE  /\ UNCHANGED <<tasklets, data>>
         /\ TimerEvents \cap Range(queue') = TimerEvents \cap Range(queue)
         /\ \A t \in TimerEvents : state'[t] = state[t]
         /\ \/ cur' = cur /\ pc' = pc
            \/ cur \notin TimerEvents /\ cur' = NoEvent /\ pc = "freeing" /\ pc' = "idle"
  <1>1. CASE DispatchNothing
    BY <1>1 DEF DispatchNothing, queueVars, storageVars
  <1>2. CASE FreePool
    <2>1. cur \notin TimerEvents
      BY <1>2 DEF FreePool, TimerInv, StorageInv, Ownership
    <2> QED
      BY <1>2, <2>1 DEF FreePool, BackToIdle, queueVars
  <1>3. CASE EventCoreWrite(Loop)
    <2>1. /\ Loop \in Callers /\ TypeOK /\ NoEvent \notin TimerEvents
      BY EventCoreAssumption DEF TimerInv, StorageInv, Storage
    <2>2. /\ held[Loop] \in Storage /\ held[Loop] \notin TimerEvents
          /\ data[held[Loop]].priority \in Priorities
      BY <1>3, <2>1 DEF EventCoreWrite, TypeOK, Events, TimerInv, StorageInv, Ownership, HeldEvents
    <2>3. /\ Range(queue') = Range(queue) \cup {held[Loop]}
          /\ state' = [state EXCEPT ![held[Loop]] = "QUEUED"]
      BY <1>3, <2>1, <2>2, QueueBeforeFacts DEF EventCoreWrite, Enqueue
    <2> QED
      BY <1>3, <2>2, <2>3 DEF EventCoreWrite, loopVars
  <1> QED
    BY <1>1, <1>2, <1>3

LEMMA QuietKeepsTimeouts ==
  ASSUME TimeoutInv, ~ HandlerMayInvalidate, UNCHANGED <<timerVars, timeoutVars>>,
         DispatchNothing \/ FreePool \/ EventCoreWrite(Loop)
  PROVE  TimeoutInv'
  <1>1. TimerInv /\ TimerInv'
    <2>1. LoopStep \/ (\E a \in Callers : EventCoreWrite(a))
      BY EventCoreAssumption DEF LoopStep
    <2> QED
      BY <2>1, CoreKeepsTimers DEF TimeoutInv
  <1>2. /\ UNCHANGED <<tasklets, data, timerList, period, request, cancelled, eventOf, timer>>
        /\ TimerEvents \cap Range(queue') = TimerEvents \cap Range(queue)
        /\ \A t \in TimerEvents : state'[t] = state[t]
        /\ \/ cur' = cur /\ pc' = pc
           \/ cur \notin TimerEvents /\ cur' = NoEvent /\ pc = "freeing" /\ pc' = "idle"
    BY <1>1, QuietMoves DEF timerVars, timeoutVars, blockVars, frameVars
  <1>3. /\ \A t : IsTimeout(t)' <=> IsTimeout(t)
        /\ \A id : HandlerExists(id) => HandlerExists(id)'
        /\ NoEvent \notin TimerEvents
    BY <1>2, EventCoreAssumption DEF IsTimeout, ForTimeouts, HandlerExists, Storage
  <1>4. \A t \in TimerEvents : OnItsWay(t)' <=> OnItsWay(t)
    BY <1>2, <1>3 DEF OnItsWay
  <1>5. ThreadFree => ThreadFree'
    BY <1>2 DEF ThreadFree, NoRequest
  <1>6. FrameInv'
    BY <1>2, <1>3, <1>5 DEF TimeoutInv, FrameInv
  <1>7. Receivers'
    BY <1>2, <1>3 DEF TimeoutInv, Receivers
  <1>8. cancelled # NoBlock =>
          /\ eventOf[cancelled] \in TimerEvents
          /\ InCallback(eventOf[cancelled]) => InCallback(eventOf[cancelled])'
    BY <1>2, <1>3 DEF TimeoutInv, CancelOwned, InCallback
  <1> QED
    BY <1>1, <1>2, <1>3, <1>4, <1>6, <1>7, <1>8, OthersKeepTimeouts

(* Another tasklet is registered: its id is new, and its init event comes   *)
(* from the pool or the heap.                                               *)
LEMMA CreateMoves ==
  ASSUME TimerInv, NEW f, HandlerCreate(f)
  PROVE  /\ UNCHANGED <<queue, state, cur, pc>>
         /\ \A t \in TimerEvents : data'[t] = data[t]
         /\ DOMAIN tasklets' = DOMAIN tasklets \cup {f} /\ f \notin DOMAIN tasklets
         /\ tasklets'[f] = TaskletGetFreeId
         /\ \A g \in DOMAIN tasklets : tasklets'[g] = tasklets[g]
         /\ \A id : HandlerExists(id) => HandlerExists(id)'
  <1>1. \A t \in TimerEvents : data'[t] = data[t]
    BY GetLeavesTimers DEF HandlerCreate
  <1>2. /\ f \notin DOMAIN tasklets
        /\ tasklets' = [g \in DOMAIN tasklets \cup {f} |-> IF g = f THEN TaskletGetFreeId ELSE tasklets[g]]
        /\ UNCHANGED <<queue, state, cur, pc>>
    BY DEF HandlerCreate, queueVars, loopVars
  <1> HIDE DEF HandlerCreate
  <1>3. /\ DOMAIN tasklets' = DOMAIN tasklets \cup {f} /\ tasklets'[f] = TaskletGetFreeId
        /\ \A g \in DOMAIN tasklets : tasklets'[g] = tasklets[g]
    BY <1>2
  <1> QED
    BY <1>1, <1>2, <1>3, MoreTaskletsKeep

LEMMA CreateKeepsTimeouts ==
  ASSUME TimeoutInv, ~ HandlerMayInvalidate, NEW f \in Handlers \ {TimeoutTasklet},
         ThreadFree, HandlerCreate(f), UNCHANGED <<timerVars, timeoutVars>>
  PROVE  TimeoutInv'
  <1>1. TimerInv /\ TimerInv'
    BY CoreKeepsTimers DEF ApiCall, TimeoutInv
  <1>2. /\ UNCHANGED <<queue, state, cur, pc, timerList, period, request, cancelled, eventOf, timer>>
        /\ \A t \in TimerEvents : data'[t] = data[t]
        /\ DOMAIN tasklets' = DOMAIN tasklets \cup {f}
        /\ \A g \in DOMAIN tasklets : tasklets'[g] = tasklets[g]
        /\ \A id : HandlerExists(id) => HandlerExists(id)'
    BY <1>1, CreateMoves DEF timerVars, timeoutVars, blockVars, frameVars
  <1>3. \A t : IsTimeout(t)' <=> IsTimeout(t)
    BY <1>2 DEF IsTimeout, ForTimeouts
  <1>4. \A t \in TimerEvents : OnItsWay(t)' <=> OnItsWay(t)
    BY <1>2 DEF OnItsWay
  <1>5. FrameInv'
    BY <1>2, <1>3 DEF TimeoutInv, FrameInv, ThreadFree, NoRequest
  <1>6. Receivers'
    BY <1>2 DEF TimeoutInv, Receivers
  <1> QED
    BY <1>1, <1>2, <1>3, <1>4, <1>5, <1>6, OthersKeepTimeouts DEF ThreadFree

(* A timer's handler has returned: it goes back to the free list, or is     *)
(* launched again.                                                          *)
LEMMA FreeMoves ==
  ASSUME TimerInv, FreeTimer
  PROVE  /\ pc = "freeing" /\ pc' = "idle" /\ cur \in TimerEvents /\ cur' = NoEvent
         /\ cur \notin Range(timerList) \cup Range(queue)
         /\ UNCHANGED <<tasklets, data, period>>
         /\ \/ period[cur] = 0 /\ timerList' = timerList /\ queue' = queue
            \/ period[cur] # 0 /\ Range(timerList') = Range(timerList) /\ Range(queue') = Range(queue) \cup {cur}
            \/ period[cur] # 0 /\ Range(timerList') = Range(timerList) \cup {cur} /\ Range(queue') = Range(queue)
  <1> DEFINE next == NextLaunch(cur)
  <1>0. /\ cur \in Storage /\ pc = "freeing" /\ TypeOK /\ IsInjective(queue) /\ NoEvent \notin Storage
    BY EventCoreAssumption DEF FreeTimer, TimerInv, StorageInv, TypeOK, PoolConserved
  <1>1. cur \in TimerEvents
    BY <1>0, EventCoreAssumption DEF FreeTimer, TimerInv, StorageInv, Ownership, Storage
  <1>2. cur \notin Range(timerList) \cup Range(queue)
    BY <1>0, <1>1, EventCoreAssumption DEF TimerInv, StorageInv, PoolConserved, TimersConserved
  <1>3. pc' = "idle" /\ cur' = NoEvent /\ UNCHANGED <<tasklets, data, period>>
    BY DEF FreeTimer, BackToIdle, storageVars
  <1>4. CASE period[cur] = 0 /\ UNCHANGED <<queueVars, timerList>>
    BY <1>0, <1>1, <1>2, <1>3, <1>4 DEF queueVars
  <1>5. CASE period[cur] # 0 /\ Enqueue(cur, data[cur].priority) /\ timerList' = timerList
    <2>1. cur \in Storage \ Range(queue) /\ data[cur].priority \in Priorities
      BY <1>0, <1>2 DEF TypeOK, Events
    <2>2. Range(queue') = Range(queue) \cup {cur}
      BY <1>0, <1>5, <2>1, EnqueueFacts
    <2> QED
      BY <1>0, <1>1, <1>2, <1>3, <1>5, <2>2
  <1>6. CASE period[cur] # 0 /\ TimerSysAdd(cur, next) /\ UNCHANGED queueVars
    <2>1. Range(timerList') = Range(timerList) \cup {cur}
      BY <1>1, <1>2, <1>6, TimerSysAddFacts DEF TimerInv, TimerTypeOK, TimersConserved
    <2> QED
      BY <1>0, <1>1, <1>2, <1>3, <1>6, <2>1 DEF queueVars
  <1> HIDE DEF next
  <1>7. \/ period[cur] = 0 /\ UNCHANGED <<queueVars, timerList>>
        \/ period[cur] # 0 /\ Enqueue(cur, data[cur].priority) /\ timerList' = timerList
        \/ period[cur] # 0 /\ TimerSysAdd(cur, next) /\ UNCHANGED queueVars
    BY DEF FreeTimer, next
  <1> QED
    BY <1>4, <1>5, <1>6, <1>7

LEMMA FreeKeepsTimeouts ==
  ASSUME TimeoutInv, FreeTimer, UNCHANGED timeoutVars
  PROVE  TimeoutInv'
  <1>1. TimerInv /\ TimerInv' /\ NoEvent \notin TimerEvents
    BY FreeKeepsTimers, EventCoreAssumption DEF TimeoutInv, Storage
  <1>2. /\ pc = "freeing" /\ pc' = "idle" /\ cur \in TimerEvents /\ cur' = NoEvent
        /\ cur \notin Range(timerList) \cup Range(queue)
        /\ UNCHANGED <<tasklets, data, period, request, cancelled, eventOf, timer>>
        /\ \/ period[cur] = 0 /\ timerList' = timerList /\ queue' = queue
           \/ period[cur] # 0 /\ Range(timerList') = Range(timerList) /\ Range(queue') = Range(queue) \cup {cur}
           \/ period[cur] # 0 /\ Range(timerList') = Range(timerList) \cup {cur} /\ Range(queue') = Range(queue)
    BY <1>1, FreeMoves DEF timeoutVars, blockVars, frameVars
  <1>3. ThreadFree /\ timer = NoEvent
    BY <1>2 DEF TimeoutInv, FrameInv
  <1>4. \A t : IsTimeout(t)' <=> IsTimeout(t)
    BY <1>2 DEF IsTimeout, ForTimeouts
  <1>5. \A t \in TimerEvents : OnItsWay(t)' <=> OnItsWay(t)
    BY <1>1, <1>2 DEF OnItsWay
  <1>6. FrameInv'
    BY <1>2, <1>3 DEF FrameInv
  <1>7. Receivers'
    BY <1>1, <1>2 DEF TimeoutInv, Receivers, HandlerExists
  <1> QED
    BY <1>1, <1>2, <1>3, <1>4, <1>5, <1>6, <1>7, OthersKeepTimeouts DEF ThreadFree

(* The tick interrupt: an expired timer's event moves on to the queue.      *)
LEMMA TickMoves ==
  ASSUME TimerInv, Tick
  PROVE  /\ UNCHANGED <<tasklets, data, cur, pc, period>>
         /\ Range(timerList') \cup Range(queue') = Range(timerList) \cup Range(queue)
         /\ \A t \in TimerEvents : state'[t] = "RUNNING" <=> state[t] = "RUNNING"
  <1>1. CASE (\E n \in TickSteps : TickAdvance(n)) \/ TickDone
    BY <1>1 DEF TickAdvance, TickDone, coreVars, queueVars, storageVars, loopVars
  <1>2. CASE TickExpire
    <2> DEFINE t == Head(timerList)
    <2>1. /\ t \in TimerEvents /\ t \in Range(timerList)
          /\ Range(timerList') = Range(timerList) \ {t}
      BY <1>2, TailKeepsDistinct DEF TickExpire, HeadIsDue, TimerInv, TimerTypeOK, TimersConserved
    <2>2. /\ Enqueue(t, data[t].priority)
          /\ UNCHANGED <<tasklets, data, cur, pc, period>>
      BY <1>2 DEF TickExpire, loopVars
    <2> HIDE DEF t
    <2>3. t \in Storage \ Range(queue) /\ data[t].priority \in Priorities /\ state[t] = "UNQUEUED"
      BY <2>1 DEF TimerInv, StorageInv, TimersConserved, TimerStates, TypeOK, Events, Storage
    <2>4. Range(queue') = Range(queue) \cup {t} /\ state' = [state EXCEPT ![t] = "QUEUED"]
      BY <2>2, <2>3, EnqueueFacts DEF TimerInv, StorageInv, PoolConserved
    <2> QED
      BY <2>1, <2>2, <2>3, <2>4 DEF TimerInv, StorageInv, TypeOK
  <1> QED
    BY <1>1, <1>2 DEF Tick

LEMMA TickKeepsTimeouts ==
  ASSUME TimeoutInv, Tick, UNCHANGED timeoutVars
  PROVE  TimeoutInv'
  <1>1. TimerInv /\ TimerInv'
    <2>1. ASSUME NEW n \in TickSteps, TickAdvance(n)
          PROVE  TimerInv'
      BY <2>1, TickStepsNat, AdvanceKeepsTimers DEF TimeoutInv
    <2>2. CASE TickDone
      BY <2>2, CounterKeepsTimers DEF TickDone, TimeoutInv, TimerInv, TimerTypeOK
    <2> QED
      BY <2>1, <2>2, ExpireKeepsTimers DEF Tick, TimeoutInv
  <1>2. /\ UNCHANGED <<tasklets, data, cur, pc, period, request, cancelled, eventOf, timer>>
        /\ Range(timerList') \cup Range(queue') = Range(timerList) \cup Range(queue)
        /\ \A t \in TimerEvents : state'[t] = "RUNNING" <=> state[t] = "RUNNING"
    BY <1>1, TickMoves DEF timeoutVars, blockVars, frameVars
  <1>3. \A t : IsTimeout(t)' <=> IsTimeout(t)
    BY <1>2 DEF IsTimeout, ForTimeouts
  <1>4. \A t \in TimerEvents : OnItsWay(t)' <=> OnItsWay(t)
    BY <1>2 DEF OnItsWay
  <1>5. FrameInv'
    BY <1>2, <1>3 DEF TimeoutInv, FrameInv, ThreadFree, NoRequest
  <1>6. Receivers'
    BY <1>2 DEF TimeoutInv, Receivers, HandlerExists
  <1>7. cancelled # NoBlock =>
            /\ eventOf[cancelled] \in TimerEvents
            /\ InCallback(eventOf[cancelled]) => InCallback(eventOf[cancelled])'
    BY <1>2, <1>3 DEF TimeoutInv, CancelOwned, InCallback
  <1> QED
    BY <1>1, <1>2, <1>3, <1>4, <1>5, <1>6, <1>7, OthersKeepTimeouts

(* A request takes a timer that is nowhere, and puts it on the timer list   *)
(* or in the queue.                                                         *)
LEMMA RequestMoves ==
  ASSUME TimerInv, NEW t \in TimerEvents, NEW ev \in Events, NEW at, NEW every,
         RequestWith(t, ev, at, every)
  PROVE  /\ t \notin Range(timerList) \cup Range(queue) \cup {cur}
         /\ Range(timerList') \cup Range(queue') = Range(timerList) \cup Range(queue) \cup {t}
         /\ UNCHANGED <<tasklets, pc, cur>>
         /\ data'[t] = ev /\ state'[t] # "RUNNING" /\ period'[t] = every
         /\ \A u \in TimerEvents \ {t} :
              data'[u] = data[u] /\ state'[u] = state[u] /\ period'[u] = period[u]
  <1>0. /\ t \in Storage /\ ev.priority \in Priorities /\ TimerEvents \subseteq Storage
        /\ TypeOK /\ IsInjective(queue)
    BY DEF Storage, Events, TimerInv, StorageInv, PoolConserved
  <1>1. t \notin Range(timerList) \cup Range(queue) \cup {cur}
    BY TimerStructGetFacts DEF RequestWith
  <1>2. /\ data' = [data EXCEPT ![t] = ev] /\ period' = [period EXCEPT ![t] = every]
        /\ UNCHANGED <<tasklets, pc, cur>>
    BY DEF RequestWith, loopVars
  <1>3. /\ Range(timerList') \cup Range(queue') = Range(timerList) \cup Range(queue) \cup {t}
        /\ \/ state' = [state EXCEPT ![t] = "QUEUED"]
           \/ state' = [state EXCEPT ![t] = "UNQUEUED"]
    <2>1. CASE Enqueue(t, ev.priority) /\ timerList' = timerList
      <3>1. t \in Storage \ Range(queue)
        BY <1>0, <1>1
      <3> QED
        BY <1>0, <2>1, <3>1, EnqueueFacts
    <2>2. CASE TimerSysAdd(t, at) /\ state' = [state EXCEPT ![t] = "UNQUEUED"] /\ queue' = queue
      <3>1. Range(timerList') = Range(timerList) \cup {t}
        BY <1>0, <1>1, <2>2, TimerSysAddFacts DEF TimerInv, TimerTypeOK, TimersConserved
      <3> QED
        BY <2>2, <3>1
    <2> QED
      BY <2>1, <2>2 DEF RequestWith
  <1>4. state'[t] # "RUNNING" /\ \A u \in TimerEvents \ {t} : state'[u] = state[u]
    BY <1>0, <1>3 DEF TypeOK
  <1>5. /\ data'[t] = ev /\ period'[t] = every
        /\ \A u \in TimerEvents \ {t} : data'[u] = data[u] /\ period'[u] = period[u]
    BY <1>0, <1>2 DEF TypeOK, TimerInv, TimerTypeOK
  <1> QED
    BY <1>1, <1>2, <1>3, <1>4, <1>5

(* A timer of somebody else.                                                *)
LEMMA RequestKeepsTimeouts ==
  ASSUME TimeoutInv, NEW ev \in Sends, NEW in \in Delays, ~ ForTimeouts(ev), RequestIn(ev, in),
         UNCHANGED timeoutVars
  PROVE  TimeoutInv'
  <1>1. TimerInv /\ TimerInv' /\ ev \in Events
    BY RequestsKeepTimers, SendsAssumption DEF TimeoutInv
  <1>2. PICK t, at : t \in TimerEvents /\ RequestWith(t, ev, at, 0) /\ at = TicksPlus(ticks, in)
    BY DEF RequestIn, RequestTimer
  <1>3. /\ t \notin Range(timerList) \cup Range(queue) \cup {cur}
        /\ Range(timerList') \cup Range(queue') = Range(timerList) \cup Range(queue) \cup {t}
        /\ UNCHANGED <<tasklets, pc, cur, request, cancelled, eventOf, timer>>
        /\ data'[t] = ev /\ state'[t] # "RUNNING" /\ HandlerExists(ev.receiver)
        /\ \A u \in TimerEvents \ {t} :
             data'[u] = data[u] /\ state'[u] = state[u] /\ period'[u] = period[u]
    BY <1>1, <1>2, RequestMoves DEF RequestWith, timeoutVars, blockVars, frameVars
  <1>4. /\ \A u \in TimerEvents \ {t} : IsTimeout(u)' <=> IsTimeout(u)
        /\ ~ IsTimeout(t)'
    BY <1>3 DEF IsTimeout, ForTimeouts
  <1>5. /\ \A u \in TimerEvents \ {t} : OnItsWay(u)' <=> OnItsWay(u)
        /\ ~ OnItsWay(t)
    BY <1>3 DEF OnItsWay
  <1>6. FrameInv'
    <2>1. IsTimeout(cur)' <=> IsTimeout(cur)
      BY <1>3, <1>4 DEF IsTimeout
    <2> QED
      BY <1>3, <2>1 DEF TimeoutInv, FrameInv, ThreadFree, NoRequest
  <1>7. Receivers'
    BY <1>3 DEF TimeoutInv, Receivers, HandlerExists
  <1>8. cancelled # NoBlock =>
            /\ state'[eventOf[cancelled]] = "RUNNING" <=> state[eventOf[cancelled]] = "RUNNING"
            /\ InCallback(eventOf[cancelled]) => InCallback(eventOf[cancelled])'
    BY <1>3, <1>4 DEF TimeoutInv, CancelOwned, InCallback
  <1> QED
    BY <1>1, <1>3, <1>4, <1>5, <1>6, <1>7, <1>8, OthersKeepTimeouts

LEMMA OtherStepKeepsTimeouts ==
  ASSUME TimeoutInv, ~ HandlerMayInvalidate, OtherStep
  PROVE  TimeoutInv'
  BY QuietKeepsTimeouts, CreateKeepsTimeouts, FreeKeepsTimeouts, TickKeepsTimeouts,
     RequestKeepsTimeouts
     DEF OtherStep, CoreWrite

-----------------------------------------------------------------------------
(* The steps of ns_timeout.c. *)

(* A step that changes none of the timers.                                  *)
LEMMA StillTimers ==
  ASSUME TimerInv, UNCHANGED vars
  PROVE  /\ TimerInv' /\ Active' = Active /\ UNCHANGED <<tasklets, state, pc, cur, data>>
         /\ \A t : InCallback(t)' <=> InCallback(t)
         /\ \A t : IsTimeout(t)' <=> IsTimeout(t)
         /\ \A id : HandlerExists(id)' <=> HandlerExists(id)
  <1>1. UNCHANGED <<tasklets, queue, state, data, pc, cur, timerList, period>>
    BY DEF vars, coreVars, queueVars, storageVars, loopVars, timerVars
  <1>2. TimerInv'
    BY CounterKeepsTimers DEF vars, timerVars, TimerInv, TimerTypeOK
  <1>3. \A t : IsTimeout(t)' <=> IsTimeout(t)
    BY <1>1 DEF IsTimeout, ForTimeouts
  <1>4. \A id : HandlerExists(id)' <=> HandlerExists(id)
    BY <1>1 DEF HandlerExists
  <1>5. \A t : InCallback(t)' <=> InCallback(t)
    BY <1>1, <1>3 DEF InCallback
  <1>6. Active' = Active
    BY <1>1, <1>3, <1>5 DEF Active, ToCallBack
  <1> QED
    BY <1>1, <1>2, <1>3, <1>4, <1>5, <1>6

(* The block of a timeout that was stored has one timer that will come, and *)
(* points back to it.                                                       *)
LEMMA OwnTimer ==
  ASSUME TimeoutInv, ThreadFree, NEW b \in blocks
  PROVE  \E t \in Active : dataPtr[t] = b /\ eventOf[b] = t
                           /\ \A u \in Active : dataPtr[u] = b => u = t
  <1>1. b # NoBlock /\ request = NoRequest /\ cancelled = NoBlock
    BY TimeoutAssumption DEF TimeoutInv, TimeoutTypeOK, ThreadFree
  <1>2. request.block = NoBlock
    BY <1>1 DEF NoRequest
  <1>3. \A t \in Active : dataPtr[t] # request.block /\ eventOf[dataPtr[t]] = t
    BY <1>2, TimeoutAssumption DEF TimeoutInv, NoUseAfterFree, TimeoutTypeOK
  <1> QED
    BY <1>1, <1>2, <1>3 DEF TimeoutInv, NoTimeoutLeak

(* A new block, owned by eventOS_timeout_at_; the tasklet is registered     *)
(* with the first.                                                          *)
LEMMA AtKeepsTimeouts ==
  ASSUME TimeoutInv, ~ HandlerMayInvalidate, NEW at \in Words, NEW p \in 0 .. Half - 1,
         TimeoutAt(at, p)
  PROVE  TimeoutInv'
  <1>1. PICK b \in Blocks \ blocks :
          /\ blocks' = blocks \cup {b}
          /\ request' = [NoRequest EXCEPT !.at = at, !.period = p, !.block = b]
    BY DEF TimeoutAt
  <1>2. /\ ThreadFree /\ pc \in {"idle", "running"}
        /\ UNCHANGED <<timerVars, eventOf, dataPtr, timer, cancelled>>
        /\ b # NoBlock /\ TimerInv
    BY TimeoutAssumption DEF TimeoutAt, MayCallTimeouts, LoopThreadCalls, TimeoutInv
  <1>3. /\ request' = [at |-> at, period |-> p, block |-> b, event |-> NoEvent]
        /\ request = NoRequest /\ request.block = NoBlock /\ cancelled = NoBlock
    BY <1>1, <1>2 DEF NoRequest, ThreadFree
  <1>4. ASSUME TimeoutTasklet \notin DOMAIN tasklets, HandlerCreate(TimeoutTasklet)
        PROVE  /\ TimerInv'
               /\ UNCHANGED <<queue, state, cur, pc>>
               /\ TimeoutTasklet \in DOMAIN tasklets'
               /\ \A t \in TimerEvents : data'[t] = data[t]
               /\ \A id : HandlerExists(id) => HandlerExists(id)'
               /\ \A t : OnItsWay(t) => ~ IsTimeout(t) /\ ~ IsTimeout(t)'
    <2>1. TimerInv'
      BY <1>2, <1>4, CoreKeepsTimers, TimeoutAssumption DEF ApiCall
    <2>2. /\ UNCHANGED <<queue, state, cur, pc>>
          /\ \A t \in TimerEvents : data'[t] = data[t]
          /\ DOMAIN tasklets' = DOMAIN tasklets \cup {TimeoutTasklet}
          /\ tasklets'[TimeoutTasklet] = TaskletGetFreeId
          /\ \A id : HandlerExists(id) => HandlerExists(id)'
      BY <1>2, <1>4, CreateMoves
    <2>3. \A t : ~ IsTimeout(t)
      BY <1>4 DEF IsTimeout, ForTimeouts
    <2>4. ASSUME NEW t \in TimerEvents, OnItsWay(t)
          PROVE  ~ IsTimeout(t)'
      <3>1. HandlerExists(data[t].receiver)
        BY <2>4 DEF TimeoutInv, Receivers, OnItsWay
      <3>2. data[t].receiver \in Ids /\ TypeOK
        BY <1>2 DEF TimerInv, StorageInv, TypeOK, Storage, Events
      <3>3. data'[t].receiver # TaskletGetFreeId
        BY <2>2, <3>1, <3>2, NewIdIsNew
      <3> QED
        BY <2>2, <3>3 DEF IsTimeout, ForTimeouts
    <2>5. \A t : t \notin TimerEvents => ~ IsTimeout(t)'
      BY DEF IsTimeout
    <2> QED
      BY <2>1, <2>2, <2>3, <2>4, <2>5
  <1>5. ASSUME TimeoutTasklet \in DOMAIN tasklets, UNCHANGED coreVars
        PROVE  /\ TimerInv' /\ Active' = Active
               /\ UNCHANGED <<tasklets, queue, data, cur, pc>>
               /\ \A t : IsTimeout(t)' <=> IsTimeout(t)
               /\ \A id : HandlerExists(id)' <=> HandlerExists(id)
    <2>1. UNCHANGED vars
      BY <1>2, <1>5 DEF vars
    <2>2. queue' = queue
      BY <1>5 DEF coreVars, queueVars
    <2> QED
      BY <1>2, <2>1, <2>2, StillTimers
  <1>6. /\ TimerInv' /\ TimeoutTasklet \in DOMAIN tasklets'
        /\ \A t : t \in Active' <=> t \in Active
        /\ UNCHANGED <<queue, timerList, cur, pc>>
        /\ \A t \in TimerEvents : data'[t] = data[t]
        /\ \A id : HandlerExists(id) => HandlerExists(id)'
        /\ pc = "running" => (IsTimeout(cur)' <=> IsTimeout(cur))
    <2>1. CASE TimeoutTasklet \in DOMAIN tasklets /\ UNCHANGED coreVars
      BY <1>2, <1>5, <2>1 DEF timerVars
    <2>2. CASE TimeoutTasklet \notin DOMAIN tasklets /\ HandlerCreate(TimeoutTasklet)
      <3>1. \A t : OnItsWay(t)' <=> OnItsWay(t)
        BY <1>2, <1>4, <2>2 DEF OnItsWay, timerVars
      <3>2. \A t : t \in Active' <=> t \in Active
        BY <1>4, <2>2, <3>1, ActiveIs, ActiveIsThen
      <3>3. pc = "running" => OnItsWay(cur)
        BY DEF OnItsWay
      <3> QED
        BY <1>2, <1>4, <2>2, <3>2, <3>3 DEF timerVars
    <2> QED
      BY <2>1, <2>2 DEF TimeoutAt
  <1>7. TimeoutTypeOK'
    BY <1>1, <1>2, <1>3 DEF TimeoutInv, TimeoutTypeOK
  <1>8. \A t \in Active : dataPtr[t] \in blocks /\ eventOf[dataPtr[t]] = t /\ dataPtr[t] # b
    BY <1>3, TimeoutAssumption DEF TimeoutInv, NoUseAfterFree, TimeoutTypeOK
  <1>9. NoUseAfterFree'
    BY <1>1, <1>2, <1>6, <1>8 DEF NoUseAfterFree
  <1>10. NoTimeoutLeak'
    <2>1. ASSUME NEW c \in blocks'
          PROVE  c \in {request'.block, cancelled'} \/ \E t \in Active' : dataPtr'[t] = c
      <3>1. CASE c = b
        BY <1>3, <3>1
      <3>2. CASE c \in blocks
        BY <1>2, <1>6, <3>2, OwnTimer
      <3> QED
        BY <1>1, <3>1, <3>2
    <2> QED
      BY <2>1 DEF NoTimeoutLeak
  <1>11. RequestOwned'
    <2>1. request'.block = b /\ request'.event = NoEvent
      BY <1>3
    <2>2. b # NoBlock /\ b \in blocks' /\ dataPtr' = dataPtr
      BY <1>1, <1>2
    <2>3. \A t \in Active' : dataPtr'[t] # b
      BY <1>6, <1>8, <2>2
    <2> QED
      BY <1>6, <2>1, <2>2, <2>3 DEF RequestOwned
  <1>12. CancelOwned'
    BY <1>2, <1>3 DEF CancelOwned
  <1>13. FrameInv'
    BY <1>2, <1>6 DEF TimeoutInv, FrameInv
  <1>14. Receivers'
    BY <1>6 DEF TimeoutInv, Receivers
  <1> QED
    BY <1>6, <1>7, <1>9, <1>10, <1>11, <1>12, <1>13, <1>14 DEF TimeoutInv

(* The timer for the block: on its way with its pointer set, before the     *)
(* block points back.                                                       *)
LEMMA TimeoutRequestMoves ==
  ASSUME TimeoutInv, TimeoutRequest
  PROVE  /\ request.block \in blocks /\ request.block # NoBlock /\ request.event = NoEvent
         /\ TimeoutTasklet \in DOMAIN tasklets /\ cancelled = NoBlock
         /\ \A u \in Active : dataPtr[u] # request.block
         /\ UNCHANGED <<tasklets, pc, cur, blocks, eventOf, timer, cancelled>>
         /\ TimerInv'
         /\ \E t \in TimerEvents, ev \in Events :
              /\ t \notin Active /\ t \notin Range(timerList) \cup Range(queue) \cup {cur}
              /\ \A u : u \in Active' <=> u \in Active \/ u = t
              /\ Range(timerList') \cup Range(queue') = Range(timerList) \cup Range(queue) \cup {t}
              /\ data'[t] = ev /\ HandlerExists(ev.receiver)
              /\ dataPtr' = [dataPtr EXCEPT ![t] = request.block]
              /\ request' = [request EXCEPT !.event = t]
              /\ period'[t] = request.period
              /\ \A u : u # t => (IsTimeout(u)' <=> IsTimeout(u))
              /\ \A u \in TimerEvents \ {t} : data'[u] = data[u] /\ period'[u] = period[u]
  <1> DEFINE b == request.block
  <1>1. /\ b # NoBlock /\ request.event = NoEvent /\ b \in blocks
        /\ TimeoutTasklet \in DOMAIN tasklets /\ cancelled = NoBlock
        /\ \A u \in Active : dataPtr[u] # b
        /\ request.at \in Words /\ request.period \in 0 .. Half - 1
        /\ NoEvent \notin TimerEvents /\ ticks \in Words /\ TimerInv
    <2>1. request # NoRequest /\ NoEvent \notin TimerEvents
      BY EventCoreAssumption DEF TimeoutRequest, Requesting, NoRequest, Storage
    <2> QED
      BY <2>1, ActiveIs DEF TimeoutRequest, Requesting, TimeoutInv, TimeoutTypeOK, RequestOwned, CancelOwned,
                  TimerInv, TimerTypeOK
  <1>2. PICK t, at, p, ev :
          /\ t \in TimerEvents /\ at \in Words /\ p \in 0 .. Half - 1
          /\ RequestWith(t, ev, at, p) /\ ev = TimeoutEvent /\ p = request.period
          /\ dataPtr' = [dataPtr EXCEPT ![t] = request.block]
          /\ request' = [request EXCEPT !.event = t]
    <2>1. TicksPlus(ticks, request.period) \in Words /\ 0 \in 0 .. Half - 1
      BY <1>1, TicksPlusType, HalfAssumption
    <2> QED
      BY <1>1, <2>1 DEF TimeoutRequest
  <1>3. UNCHANGED <<blocks, eventOf, timer, cancelled>>
    BY DEF TimeoutRequest
  <1>4. ev \in Events /\ ForTimeouts(ev) /\ HandlerExists(ev.receiver)
    <2>1. tasklets[TimeoutTasklet] \in Ids /\ TimerEvent \in EventIds
      BY <1>1, TimeoutAssumption DEF TimerInv, StorageInv, TypeOK
    <2> QED
      BY <1>1, <1>2, <2>1 DEF TimeoutEvent, ForTimeouts, Events, Priorities, RequestWith
  <1>5. /\ t \in TimerEvents /\ t \notin Range(timerList) \cup Range(queue) \cup {cur}
        /\ Range(timerList') \cup Range(queue') = Range(timerList) \cup Range(queue) \cup {t}
        /\ UNCHANGED <<tasklets, pc, cur>>
        /\ data'[t] = ev /\ period'[t] = p
        /\ \A u \in TimerEvents \ {t} : data'[u] = data[u] /\ period'[u] = period[u]
    BY <1>1, <1>2, <1>4, RequestMoves
  <1>6. TimerInv'
    BY <1>1, <1>2, <1>4, RequestKeepsTimers
  <1>7. \A u : u # t => (IsTimeout(u)' <=> IsTimeout(u))
    BY <1>5 DEF IsTimeout, ForTimeouts
  <1>8. \A u : u \in Active' <=> u \in Active \/ u = t
    <2>1. IsTimeout(t)' /\ OnItsWay(t)'
      BY <1>4, <1>5 DEF IsTimeout, ForTimeouts, OnItsWay
    <2>2. \A u \in TimerEvents : u # t => (OnItsWay(u)' <=> OnItsWay(u))
      BY <1>5 DEF OnItsWay
    <2> QED
      BY <1>5, <1>7, <2>1, <2>2, ActiveIs, ActiveIsThen
  <1>9. t \notin Active
    BY <1>5, ActiveIs DEF OnItsWay
  <1> QED
    BY <1>1, <1>2, <1>3, <1>4, <1>5, <1>6, <1>7, <1>8, <1>9

LEMMA TimeoutRequestKeeps ==
  ASSUME TimeoutInv, TimeoutRequest
  PROVE  TimeoutInv'
  <1> DEFINE b == request.block
  <1>1. /\ b \in blocks /\ b # NoBlock /\ request.event = NoEvent /\ NoEvent \notin TimerEvents
        /\ TimeoutTasklet \in DOMAIN tasklets /\ cancelled = NoBlock
        /\ \A u \in Active : dataPtr[u] # b
        /\ UNCHANGED <<tasklets, pc, cur, blocks, eventOf, timer, cancelled>>
        /\ TimerInv'
    BY TimeoutRequestMoves, EventCoreAssumption DEF Storage
  <1>2. PICK t \in TimerEvents, ev \in Events :
          /\ t \notin Active /\ t \notin Range(timerList) \cup Range(queue) \cup {cur}
          /\ \A u : u \in Active' <=> u \in Active \/ u = t
          /\ Range(timerList') \cup Range(queue') = Range(timerList) \cup Range(queue) \cup {t}
          /\ data'[t] = ev /\ HandlerExists(ev.receiver)
          /\ dataPtr' = [dataPtr EXCEPT ![t] = request.block]
          /\ request' = [request EXCEPT !.event = t]
          /\ \A u : u # t => (IsTimeout(u)' <=> IsTimeout(u))
          /\ \A u \in TimerEvents \ {t} : data'[u] = data[u]
    BY TimeoutRequestMoves
  <1> HIDE DEF b
  <1>3. /\ dataPtr'[t] = b
        /\ \A u \in TimerEvents \ {t} : dataPtr'[u] = dataPtr[u]
        /\ request'.block = b /\ request'.event = t
    <2>1. /\ dataPtr \in [TimerEvents -> Blocks \cup {NoBlock}]
          /\ request \in [at : Words, period : 0 .. Half - 1, block : Blocks \cup {NoBlock}, event : TimerEvents \cup {NoEvent}]
      BY DEF TimeoutInv, TimeoutTypeOK
    <2> QED
      BY <1>2, <2>1 DEF b
  <1>4. \A u \in Active : u \in TimerEvents \ {t} /\ dataPtr[u] \in blocks /\ eventOf[dataPtr[u]] = u
    BY <1>1, <1>2, ActiveIs DEF TimeoutInv, NoUseAfterFree
  <1>5. TimeoutTypeOK'
    BY <1>1, <1>2 DEF TimeoutInv, TimeoutTypeOK, b
  <1>6. NoUseAfterFree'
    BY <1>1, <1>2, <1>3, <1>4 DEF NoUseAfterFree
  <1>7. NoTimeoutLeak'
    <2>1. \A c \in blocks : c = b \/ \E u \in Active : dataPtr[u] = c
      BY <1>1, TimeoutAssumption DEF TimeoutInv, NoTimeoutLeak, TimeoutTypeOK, b
    <2> QED
      BY <1>1, <1>2, <1>3, <1>4, <2>1 DEF NoTimeoutLeak
  <1>8. RequestOwned'
    BY <1>1, <1>2, <1>3, <1>4 DEF RequestOwned
  <1>9. CancelOwned'
    BY <1>1 DEF CancelOwned
  <1>10. FrameInv'
    <2>1. pc # "freeing"
      BY <1>1 DEF TimeoutInv, FrameInv, ThreadFree, NoRequest, b
    <2> QED
      BY <1>1, <1>2, <2>1 DEF TimeoutInv, FrameInv
  <1>11. Receivers'
    BY <1>1, <1>2 DEF TimeoutInv, Receivers, HandlerExists
  <1> QED
    BY <1>1, <1>5, <1>6, <1>7, <1>8, <1>9, <1>10, <1>11 DEF TimeoutInv

(* No timer came, or no tasklet: nobody else knows the block.               *)
LEMMA TimeoutFailsKeeps ==
  ASSUME TimeoutInv, TimeoutFails
  PROVE  TimeoutInv'
  <1>1. /\ request.block # NoBlock /\ request.event = NoEvent /\ cancelled = NoBlock
        /\ request.block \in blocks /\ \A t \in Active : dataPtr[t] # request.block
    <2>1. request # NoRequest /\ NoEvent \notin TimerEvents
      BY EventCoreAssumption DEF TimeoutFails, Requesting, NoRequest, Storage
    <2> QED
      BY <2>1, ActiveIs DEF TimeoutFails, Requesting, TimeoutInv, RequestOwned, CancelOwned
  <1>2. /\ blocks' = blocks \ {request.block} /\ request' = NoRequest
        /\ UNCHANGED <<vars, eventOf, dataPtr, timer, cancelled>>
    BY DEF TimeoutFails
  <1>3. /\ TimerInv' /\ Active' = Active /\ UNCHANGED <<tasklets, state, pc, cur, timerList, queue, data>>
        /\ \A t : IsTimeout(t)' <=> IsTimeout(t)
        /\ \A id : HandlerExists(id)' <=> HandlerExists(id)
    BY <1>2, StillTimers DEF TimeoutInv, vars, coreVars, queueVars, timerVars
  <1>4. request'.block = NoBlock /\ request'.event = NoEvent /\ NoRequest' = NoRequest
    BY <1>2 DEF NoRequest
  <1>5. TimeoutTypeOK'
    BY <1>2, HalfAssumption DEF TimeoutInv, TimeoutTypeOK, NoRequest, Words, Wrap
  <1>6. NoUseAfterFree'
    BY <1>1, <1>2, <1>3 DEF TimeoutInv, NoUseAfterFree
  <1>7. NoTimeoutLeak'
    BY <1>1, <1>2, <1>3 DEF TimeoutInv, NoTimeoutLeak
  <1>8. RequestOwned'
    BY <1>2, <1>4 DEF RequestOwned
  <1>9. CancelOwned'
    BY <1>1, <1>2 DEF CancelOwned
  <1>10. FrameInv'
    BY <1>1, <1>2, <1>3, <1>4 DEF TimeoutInv, FrameInv, ThreadFree
  <1>11. Receivers'
    BY <1>3 DEF TimeoutInv, Receivers
  <1> QED
    BY <1>3, <1>5, <1>6, <1>7, <1>8, <1>9, <1>10, <1>11 DEF TimeoutInv

(* The block points back to the event.                                      *)
LEMMA TimeoutStoreKeeps ==
  ASSUME TimeoutInv, TimeoutStore
  PROVE  TimeoutInv'
  <1> DEFINE b == request.block
             e == request.event
  <1>1. /\ e # NoEvent /\ b # NoBlock /\ b \in blocks /\ e \in TimerEvents /\ e \in Active
        /\ dataPtr[e] = b /\ cancelled = NoBlock
        /\ \A t \in Active : dataPtr[t] = b => t = e
    <2>1. e # NoEvent /\ request # NoRequest
      BY DEF TimeoutStore, NoRequest
    <2>2. b # NoBlock
      BY <2>1 DEF TimeoutInv, RequestOwned
    <2>3. e \in TimerEvents /\ cancelled = NoBlock
      BY <2>1 DEF TimeoutInv, TimeoutTypeOK, CancelOwned
    <2> QED
      BY <2>1, <2>2, <2>3 DEF TimeoutInv, RequestOwned
  <1>2. /\ eventOf' = [eventOf EXCEPT ![b] = e] /\ request' = NoRequest
        /\ UNCHANGED <<vars, blocks, dataPtr, timer, cancelled>>
        /\ b \in Blocks
    BY <1>1 DEF TimeoutStore, TimeoutInv, TimeoutTypeOK
  <1> HIDE DEF b, e
  <1>3. /\ TimerInv' /\ Active' = Active /\ UNCHANGED <<tasklets, state, pc, cur, timerList, queue, data>>
        /\ \A t : IsTimeout(t)' <=> IsTimeout(t)
        /\ \A id : HandlerExists(id)' <=> HandlerExists(id)
    BY <1>2, StillTimers DEF TimeoutInv, vars, coreVars, queueVars, timerVars
  <1>4. request'.block = NoBlock /\ request'.event = NoEvent /\ NoRequest' = NoRequest
    BY <1>2 DEF NoRequest
  <1>5. /\ eventOf \in [Blocks -> TimerEvents \cup {NoEvent}]
        /\ eventOf'[b] = e /\ \A c \in Blocks \ {b} : eventOf'[c] = eventOf[c]
    BY <1>2 DEF TimeoutInv, TimeoutTypeOK
  <1>6. TimeoutTypeOK'
    BY <1>1, <1>2, HalfAssumption DEF TimeoutInv, TimeoutTypeOK, NoRequest, Words, Wrap
  <1>7. NoUseAfterFree'
    <2>1. ASSUME NEW t \in Active
          PROVE  dataPtr[t] \in blocks /\ eventOf'[dataPtr[t]] = t
      <3>1. CASE dataPtr[t] = b
        BY <1>1, <1>5, <3>1
      <3>2. CASE dataPtr[t] # b
        <4>1. dataPtr[t] \in blocks /\ eventOf[dataPtr[t]] = t /\ dataPtr[t] \in Blocks
          BY <3>2 DEF TimeoutInv, TimeoutTypeOK, NoUseAfterFree, b
        <4> QED
          BY <1>5, <3>2, <4>1
      <3> QED
        BY <3>1, <3>2
    <2> QED
      BY <1>2, <1>3, <2>1 DEF NoUseAfterFree
  <1>8. NoTimeoutLeak'
    <2>1. \A c \in blocks : c # b => \E t \in Active : dataPtr[t] = c
      BY <1>1, TimeoutAssumption DEF TimeoutInv, TimeoutTypeOK, NoTimeoutLeak, b
    <2> QED
      BY <1>1, <1>2, <1>3, <2>1 DEF NoTimeoutLeak
  <1>9. RequestOwned'
    BY <1>2, <1>4 DEF RequestOwned
  <1>10. CancelOwned'
    BY <1>1, <1>2 DEF CancelOwned
  <1>11. FrameInv'
    BY <1>1, <1>2, <1>3, <1>4 DEF TimeoutInv, FrameInv, ThreadFree
  <1>12. Receivers'
    BY <1>3 DEF TimeoutInv, Receivers
  <1> QED
    BY <1>3, <1>6, <1>7, <1>8, <1>9, <1>10, <1>11, <1>12 DEF TimeoutInv

(* A cancel takes the timer from the list or the queue, unless it is in its *)
(* handler, and touches no other.                                           *)
LEMMA CancelMoves ==
  ASSUME TimerInv, NEW t \in TimerEvents, Cancel(t),
         \/ t \in Range(timerList) \cup Range(queue)
         \/ t = cur /\ pc = "running"
  PROVE  /\ UNCHANGED <<tasklets, data, pc, cur>> /\ period'[t] = 0
         /\ \A u \in TimerEvents \ {t} :
              /\ state'[u] = state[u] /\ period'[u] = period[u]
              /\ u \in Range(timerList') \cup Range(queue') <=> u \in Range(timerList) \cup Range(queue)
         /\ \/ /\ t = cur /\ pc = "running" /\ state[t] = "RUNNING" /\ state'[t] = "RUNNING"
            \/ /\ t # cur /\ state'[t] # "RUNNING"
               /\ t \notin Range(timerList') \cup Range(queue')
  <1>1. /\ UNCHANGED <<tasklets, data, pc, cur>>
        /\ period' = [period EXCEPT ![t] = 0]
        /\ timerList' = IF state[t] = "UNQUEUED" THEN Without(timerList, t) ELSE timerList
        /\ queue' = IF state[t] = "QUEUED" THEN Without(queue, t) ELSE queue
        /\ state' = IF state[t] = "RUNNING" THEN state ELSE [state EXCEPT ![t] = "UNQUEUED"]
    BY DEF Cancel, TimerSysEventCancel, storageVars, loopVars
  <1>2. /\ state \in [Storage -> {"UNQUEUED", "QUEUED", "RUNNING"}] /\ t \in Storage
        /\ TimerEvents \subseteq Storage /\ period \in [TimerEvents -> 0 .. Half - 1]
        /\ queue \in Seq(Storage) /\ IsInjective(queue)
        /\ timerList \in Seq(TimerEvents) /\ IsInjective(timerList)
    BY DEF TimerInv, StorageInv, TypeOK, Storage, TimerTypeOK, PoolConserved, TimersConserved
  <1>3. /\ Range(Without(queue, t)) = Range(queue) \ {t}
        /\ Range(Without(timerList, t)) = Range(timerList) \ {t}
    BY <1>2, WithoutFacts
  <1>4. /\ period'[t] = 0
        /\ \A u \in TimerEvents \ {t} :
              /\ state'[u] = state[u] /\ period'[u] = period[u]
              /\ u \in Range(timerList') \cup Range(queue') <=> u \in Range(timerList) \cup Range(queue)
    BY <1>1, <1>2, <1>3
  <1>5. CASE t = cur /\ pc = "running"
    <2>1. state[t] = "RUNNING"
      BY <1>5 DEF TimerInv, TimerStates
    <2> QED
      BY <1>1, <1>4, <1>5, <2>1
  <1>6. CASE t \in Range(timerList) \cup Range(queue)
    <2>1. /\ t # cur
          /\ t \in Range(timerList) => state[t] = "UNQUEUED" /\ t \notin Range(queue)
          /\ t \in Range(queue) => state[t] = "QUEUED" /\ t \notin Range(timerList)
      BY <1>6, EventCoreAssumption
         DEF TimerInv, TimerStates, TimersConserved, StorageInv, StateAccurate, PoolConserved, Storage
    <2>2. state'[t] = "UNQUEUED" /\ t \notin Range(timerList') \cup Range(queue')
      BY <1>1, <1>2, <1>3, <1>6, <2>1
    <2> QED
      BY <1>1, <1>4, <2>1, <2>2
  <1> QED
    BY <1>5, <1>6

(* eventOS_timeout_cancel stops the one timer that points to the block; the *)
(* state tells whether the block is still needed.                           *)
LEMMA TimeoutCancelMoves ==
  ASSUME TimeoutInv, NEW b \in Blocks, TimeoutCancel(b)
  PROVE  /\ ThreadFree /\ pc \in {"idle", "running"} /\ b \in blocks /\ b # NoBlock /\ cancelled' = b
         /\ UNCHANGED <<blocks, eventOf, dataPtr, request, timer, tasklets, data, pc, cur>>
         /\ TimerInv'
         /\ \E t \in Active :
              /\ dataPtr[t] = b /\ eventOf[b] = t /\ \A u \in Active : dataPtr[u] = b => u = t
              /\ \A u : u # t => (u \in Active' <=> u \in Active)
              /\ period'[t] = 0 /\ \A u \in TimerEvents \ {t} : period'[u] = period[u]
              /\ \A u \in TimerEvents \ {t} :
                   u \in Range(timerList') \cup Range(queue') => u \in Range(timerList) \cup Range(queue)
              /\ \/ t = cur /\ state'[t] = "RUNNING" /\ t \in Active' /\ InCallback(t) /\ InCallback(t)'
                 \/ t # cur /\ state'[t] # "RUNNING" /\ t \notin Active'
                    /\ t \notin Range(timerList') \cup Range(queue')
  <1>1. /\ ThreadFree /\ pc \in {"idle", "running"} /\ b \in blocks /\ cancelled' = b
        /\ UNCHANGED <<blocks, eventOf, dataPtr, request, timer>>
        /\ b # NoBlock /\ TimerInv
    BY TimeoutAssumption DEF TimeoutCancel, MayCallTimeouts, LoopThreadCalls, blockVars, TimeoutInv
  <1>2. PICK t \in Active : /\ dataPtr[t] = b /\ eventOf[b] = t
                             /\ \A u \in Active : dataPtr[u] = b => u = t
    BY <1>1, OwnTimer
  <1>3. /\ t \in TimerEvents /\ IsTimeout(t)
        /\ \/ t \in Range(timerList) \cup Range(queue)
           \/ t = cur /\ pc = "running"
    BY <1>1, <1>2, ActiveIs DEF OnItsWay
  <1>4. Cancel(t)
    BY <1>2 DEF TimeoutCancel
  <1>5. /\ UNCHANGED <<tasklets, data, pc, cur>> /\ period'[t] = 0
        /\ \A u \in TimerEvents \ {t} :
              /\ state'[u] = state[u] /\ period'[u] = period[u]
              /\ u \in Range(timerList') \cup Range(queue') <=> u \in Range(timerList) \cup Range(queue)
        /\ \/ /\ t = cur /\ pc = "running" /\ state[t] = "RUNNING" /\ state'[t] = "RUNNING"
           \/ /\ t # cur /\ state'[t] # "RUNNING"
              /\ t \notin Range(timerList') \cup Range(queue')
    BY <1>1, <1>3, <1>4, CancelMoves
  <1>6. TimerInv'
    BY <1>1, <1>3, <1>4, CancelKeepsTimers
  <1>7. \A u : IsTimeout(u)' <=> IsTimeout(u)
    BY <1>5 DEF IsTimeout, ForTimeouts
  <1>8. \A u \in TimerEvents \ {t} : OnItsWay(u)' <=> OnItsWay(u)
    BY <1>1, <1>5 DEF OnItsWay
  <1>9. \A u : u # t => (u \in Active' <=> u \in Active)
    BY <1>7, <1>8, ActiveIs, ActiveIsThen
  <1>10. \/ t = cur /\ state'[t] = "RUNNING" /\ t \in Active' /\ InCallback(t) /\ InCallback(t)'
         \/ t # cur /\ state'[t] # "RUNNING" /\ t \notin Active'
            /\ t \notin Range(timerList') \cup Range(queue')
    <2>1. CASE t = cur /\ pc = "running" /\ state'[t] = "RUNNING"
      <3>1. OnItsWay(t)' /\ InCallback(t) /\ InCallback(t)'
        BY <1>3, <1>5, <1>7, <2>1 DEF OnItsWay, InCallback
      <3> QED
        BY <1>3, <1>7, <2>1, <3>1, ActiveIsThen
    <2>2. CASE t # cur /\ state'[t] # "RUNNING" /\ t \notin Range(timerList') \cup Range(queue')
      <3>1. ~ OnItsWay(t)'
        BY <1>5, <2>2 DEF OnItsWay
      <3> QED
        BY <2>2, <3>1, ActiveIsThen
    <2> QED
      BY <1>5, <2>1, <2>2
  <1> QED
    BY <1>1, <1>2, <1>5, <1>6, <1>9, <1>10

LEMMA TimeoutCancelKeeps ==
  ASSUME TimeoutInv, NEW b \in Blocks, TimeoutCancel(b)
  PROVE  TimeoutInv'
  <1>1. /\ ThreadFree /\ pc \in {"idle", "running"} /\ b \in blocks /\ b # NoBlock /\ cancelled' = b
        /\ UNCHANGED <<blocks, eventOf, dataPtr, request, timer, tasklets, data, pc, cur>>
        /\ TimerInv'
    BY TimeoutCancelMoves
  <1>2. PICK t \in Active :
          /\ dataPtr[t] = b /\ eventOf[b] = t /\ \A u \in Active : dataPtr[u] = b => u = t
          /\ \A u : u # t => (u \in Active' <=> u \in Active)
          /\ \A u \in TimerEvents \ {t} :
               u \in Range(timerList') \cup Range(queue') => u \in Range(timerList) \cup Range(queue)
          /\ \/ t = cur /\ state'[t] = "RUNNING" /\ t \in Active' /\ InCallback(t) /\ InCallback(t)'
             \/ t # cur /\ state'[t] # "RUNNING" /\ t \notin Active'
                /\ t \notin Range(timerList') \cup Range(queue')
    BY TimeoutCancelMoves
  <1>3. /\ request = NoRequest /\ request.block = NoBlock /\ request.event = NoEvent
        /\ cancelled = NoBlock /\ NoRequest' = NoRequest
    BY <1>1 DEF ThreadFree, NoRequest
  <1>4. \A u : IsTimeout(u)' <=> IsTimeout(u)
    BY <1>1 DEF IsTimeout, ForTimeouts
  <1>5. Active' \subseteq Active /\ \A u \in Active : dataPtr[u] # b => u \in Active'
    BY <1>2
  <1>6. TimeoutTypeOK'
    BY <1>1 DEF TimeoutInv, TimeoutTypeOK
  <1>7. NoUseAfterFree'
    BY <1>1, <1>5 DEF TimeoutInv, NoUseAfterFree
  <1>8. NoTimeoutLeak'
    <2>1. \A c \in blocks : \E u \in Active : dataPtr[u] = c
      BY <1>1, OwnTimer
    <2> QED
      BY <1>1, <1>5, <2>1 DEF NoTimeoutLeak
  <1>9. RequestOwned'
    BY <1>1, <1>3 DEF RequestOwned
  <1>10. CancelOwned'
    <2>1. \A u \in Active' : u # t => dataPtr[u] # b
      BY <1>2, <1>5
    <2>2. t \in TimerEvents
      BY ActiveIs
    <2> QED
      BY <1>1, <1>2, <1>3, <2>1, <2>2 DEF CancelOwned
  <1>11. FrameInv'
    BY <1>1, <1>4 DEF TimeoutInv, FrameInv
  <1>12. Receivers'
    BY <1>1, <1>2 DEF TimeoutInv, Receivers, HandlerExists
  <1> QED
    BY <1>1, <1>6, <1>7, <1>8, <1>9, <1>10, <1>11, <1>12 DEF TimeoutInv

LEMMA CancelFreesKeeps ==
  ASSUME TimeoutInv, CancelFrees
  PROVE  TimeoutInv'
  <1>1. /\ cancelled # NoBlock /\ cancelled' = NoBlock
        /\ blocks' = IF state[eventOf[cancelled]] # "RUNNING" THEN blocks \ {cancelled} ELSE blocks
        /\ UNCHANGED <<vars, eventOf, dataPtr, request, timer>>
    BY DEF CancelFrees
  <1>2. /\ TimerInv' /\ Active' = Active /\ UNCHANGED <<tasklets, state, pc, cur, timerList, queue, data>>
        /\ \A t : IsTimeout(t)' <=> IsTimeout(t)
        /\ \A id : HandlerExists(id)' <=> HandlerExists(id)
    BY <1>1, StillTimers DEF TimeoutInv, vars, coreVars, queueVars, timerVars
  <1>3. /\ request = NoRequest /\ request.block = NoBlock /\ request.event = NoEvent
        /\ NoRequest' = NoRequest /\ pc # "freeing"
    BY <1>1 DEF TimeoutInv, CancelOwned, NoRequest, FrameInv, ThreadFree
  <1>4. \/ blocks' = blocks \ {cancelled} /\ \A t \in Active : dataPtr[t] # cancelled
        \/ blocks' = blocks /\ \E t \in Active : dataPtr[t] = cancelled
    <2>1. \A t \in TimerEvents : InCallback(t) => t \in Active
      BY DEF Active
    <2> QED
      BY <1>1, <2>1 DEF TimeoutInv, CancelOwned
  <1>5. TimeoutTypeOK'
    BY <1>1 DEF TimeoutInv, TimeoutTypeOK
  <1>6. NoUseAfterFree'
    BY <1>1, <1>2, <1>4 DEF TimeoutInv, NoUseAfterFree
  <1>7. NoTimeoutLeak'
    <2>1. NoBlock \notin blocks
      BY TimeoutAssumption DEF TimeoutInv, TimeoutTypeOK
    <2>2. \A b \in blocks : b = cancelled \/ \E t \in Active : dataPtr[t] = b
      BY <1>3, <2>1 DEF TimeoutInv, NoTimeoutLeak
    <2> QED
      BY <1>1, <1>2, <1>4, <2>2 DEF NoTimeoutLeak
  <1>8. RequestOwned'
    BY <1>1, <1>3 DEF RequestOwned
  <1>9. CancelOwned'
    BY <1>1 DEF CancelOwned
  <1>10. FrameInv'
    BY <1>1, <1>2, <1>3 DEF TimeoutInv, FrameInv
  <1>11. Receivers'
    BY <1>2 DEF TimeoutInv, Receivers
  <1> QED
    BY <1>2, <1>5, <1>6, <1>7, <1>8, <1>9, <1>10, <1>11 DEF TimeoutInv

(* timeout_tasklet is called: through the pointers it finds the timer whose *)
(* event it was given.                                                      *)
LEMMA CalledMoves ==
  ASSUME TimeoutInv, ~ HandlerMayInvalidate, TaskletCalled, NEW e, e = Head(queue)
  PROVE  /\ ThreadFree /\ TimerInv /\ TimerInv' /\ NoEvent \notin TimerEvents
         /\ UNCHANGED <<blocks, eventOf, dataPtr, request, cancelled, tasklets, data, timerList, period>>
         /\ timer' = IF IsTimeout(e) THEN eventOf[dataPtr[e]] ELSE NoEvent
         /\ pc = "idle" /\ cur = NoEvent /\ cur' = e
         /\ pc' \in {"running", "crashed"} /\ (IsTimeout(e) => pc' = "running")
         /\ e \in Range(queue) /\ Range(queue') = Range(queue) \ {e}
         /\ \A t : IsTimeout(t)' <=> IsTimeout(t)
         /\ \A t : t \in Active' <=> t \in Active
  <1>1. /\ ThreadFree /\ TimerInv /\ NoEvent \notin TimerEvents
        /\ UNCHANGED <<timerVars, blocks, eventOf, dataPtr, request, cancelled>>
        /\ timer' = IF IsTimeout(e) THEN eventOf[dataPtr[e]] ELSE NoEvent
    BY EventCoreAssumption DEF TaskletCalled, TimeoutInv, blockVars, Storage
  <1>2. /\ pc = "idle" /\ cur = NoEvent /\ queue # <<>> /\ queue' = Tail(queue)
        /\ cur' = e /\ UNCHANGED <<tasklets, data, timerList, period>>
        /\ pc' = IF HandlerExists(data[e].receiver) THEN "running" ELSE "crashed"
    BY <1>1 DEF TaskletCalled, Dispatch, timerVars, TimerInv, StorageInv, TypeOK
  <1>3. e \in Range(queue) /\ Range(queue') = Range(queue) \ {e}
    BY <1>1, <1>2, TailKeepsDistinct DEF TimerInv, StorageInv, TypeOK, PoolConserved
  <1>4. TimerInv'
    BY <1>1, CoreKeepsTimers DEF TaskletCalled, LoopStep
  <1>5. \A t : IsTimeout(t)' <=> IsTimeout(t)
    BY <1>2 DEF IsTimeout, ForTimeouts
  <1>6. e \in TimerEvents => HandlerExists(data[e].receiver)
    BY <1>3 DEF TimeoutInv, Receivers
  <1>7. \A t \in TimerEvents : OnItsWay(t)' <=> OnItsWay(t)
    BY <1>1, <1>2, <1>3, <1>6 DEF OnItsWay
  <1>8. \A t : t \in Active' <=> t \in Active
    BY <1>5, <1>7, ActiveIs, ActiveIsThen
  <1>9. IsTimeout(e) => pc' = "running"
    BY <1>2, <1>6 DEF IsTimeout
  <1> QED
    BY <1>1, <1>2, <1>3, <1>4, <1>5, <1>8, <1>9

LEMMA CalledKeepsTimeouts ==
  ASSUME TimeoutInv, ~ HandlerMayInvalidate, TaskletCalled
  PROVE  TimeoutInv'
  <1>1. PICK e : e = Head(queue)
    OBVIOUS
  <1>2. /\ ThreadFree /\ TimerInv /\ TimerInv' /\ NoEvent \notin TimerEvents
        /\ UNCHANGED <<blocks, eventOf, dataPtr, request, cancelled, tasklets, data, timerList, period>>
        /\ timer' = IF IsTimeout(e) THEN eventOf[dataPtr[e]] ELSE NoEvent
        /\ pc = "idle" /\ cur = NoEvent /\ cur' = e
        /\ pc' \in {"running", "crashed"} /\ (IsTimeout(e) => pc' = "running")
        /\ e \in Range(queue) /\ Range(queue') = Range(queue) \ {e}
        /\ \A t : IsTimeout(t)' <=> IsTimeout(t)
        /\ \A t : t \in Active' <=> t \in Active
    BY <1>1, CalledMoves
  <1>3. \A id : HandlerExists(id)' <=> HandlerExists(id)
    BY <1>2 DEF HandlerExists
  <1>4. request.block = NoBlock /\ request.event = NoEvent /\ NoRequest' = NoRequest
        /\ request = NoRequest /\ cancelled = NoBlock
    BY <1>2 DEF ThreadFree, NoRequest
  <1>5. timer' = IF IsTimeout(e) THEN e ELSE NoEvent
    <2>1. ASSUME IsTimeout(e) PROVE eventOf[dataPtr[e]] = e
      <3>1. e \in Active
        BY <1>2, <2>1, ActiveIs DEF OnItsWay, IsTimeout
      <3> QED
        BY <1>2, <1>4, <3>1, ActiveIs DEF TimeoutInv, NoUseAfterFree
    <2> QED
      BY <1>2, <2>1
  <1>6. TimeoutTypeOK'
    BY <1>2, <1>5 DEF TimeoutInv, TimeoutTypeOK, IsTimeout
  <1>7. NoUseAfterFree'
    BY <1>2 DEF TimeoutInv, NoUseAfterFree
  <1>8. NoTimeoutLeak'
    BY <1>2 DEF TimeoutInv, NoTimeoutLeak
  <1>9. RequestOwned'
    BY <1>2, <1>4 DEF RequestOwned
  <1>10. CancelOwned'
    BY <1>2, <1>4 DEF CancelOwned
  <1>11. FrameInv'
    BY <1>2, <1>5 DEF FrameInv
  <1>12. Receivers'
    BY <1>2, <1>3 DEF TimeoutInv, Receivers
  <1> QED
    BY <1>2, <1>6, <1>7, <1>8, <1>9, <1>10, <1>11, <1>12 DEF TimeoutInv

(* The callback has returned: the block goes with the last timer that       *)
(* points to it.                                                            *)
LEMMA ReturnsMoves ==
  ASSUME TimeoutInv, ~ HandlerMayInvalidate, TaskletReturns
  PROVE  /\ ThreadFree /\ TimerInv /\ TimerInv' /\ timer' = NoEvent
         /\ UNCHANGED <<eventOf, dataPtr, request, cancelled, tasklets, queue, data, cur, timerList, period>>
         /\ pc = "running" /\ pc' = "freeing"
         /\ \A t : IsTimeout(t)' <=> IsTimeout(t)
         /\ \A u : u # cur => (u \in Active' <=> u \in Active)
         /\ IsTimeout(cur) => cur \in Active /\ (cur \in Active' <=> period[cur] # 0)
         /\ ~ IsTimeout(cur) => cur \notin Active /\ cur \notin Active'
         /\ blocks' = IF IsTimeout(cur) /\ period[cur] = 0 THEN blocks \ {dataPtr[cur]} ELSE blocks
  <1>1. /\ ThreadFree /\ TimerInv
        /\ UNCHANGED <<timerVars, eventOf, dataPtr, request, cancelled>>
        /\ timer' = NoEvent
        /\ blocks' = IF timer # NoEvent /\ period[timer] = 0 THEN blocks \ {dataPtr[cur]} ELSE blocks
        /\ NoEvent \notin TimerEvents
    BY EventCoreAssumption DEF TaskletReturns, TimeoutInv, Storage
  <1>2. /\ pc = "running" /\ pc' = "freeing"
        /\ UNCHANGED <<tasklets, queue, data, cur, timerList, period>>
    BY <1>1 DEF TaskletReturns, ReturnMark, HandlerReturned, storageVars, timerVars
  <1>3. TimerInv'
    BY <1>1, CoreKeepsTimers DEF TaskletReturns, LoopStep
  <1>4. \A t : IsTimeout(t)' <=> IsTimeout(t)
    BY <1>2 DEF IsTimeout, ForTimeouts
  <1>5. timer = IF IsTimeout(cur) THEN cur ELSE NoEvent
    BY <1>2 DEF TimeoutInv, FrameInv
  <1>6. /\ \A u \in TimerEvents \ {cur} : OnItsWay(u)' <=> OnItsWay(u)
        /\ cur \in TimerEvents =>
             /\ OnItsWay(cur)
             /\ OnItsWay(cur)' <=> period[cur] # 0
    <2>1. cur \in TimerEvents => cur \notin Range(timerList) \cup Range(queue)
      BY <1>1, EventCoreAssumption DEF TimerInv, TimersConserved, StorageInv, PoolConserved
    <2> QED
      BY <1>2, <2>1 DEF OnItsWay
  <1>7. \A u : u # cur => (u \in Active' <=> u \in Active)
    BY <1>4, <1>6, ActiveIs, ActiveIsThen
  <1>8. IsTimeout(cur) => cur \in Active /\ (cur \in Active' <=> period[cur] # 0)
    <2>1. IsTimeout(cur) => cur \in TimerEvents
      BY DEF IsTimeout
    <2> QED
      BY <1>2, <1>4, <1>6, <2>1, ActiveIs, ActiveIsThen
  <1>9. ~ IsTimeout(cur) => cur \notin Active /\ cur \notin Active'
    BY <1>4, ActiveIs, ActiveIsThen
  <1>10. blocks' = IF IsTimeout(cur) /\ period[cur] = 0 THEN blocks \ {dataPtr[cur]} ELSE blocks
    BY <1>1, <1>5 DEF IsTimeout
  <1> QED
    BY <1>1, <1>2, <1>3, <1>4, <1>7, <1>8, <1>9, <1>10

LEMMA ReturnsKeepTimeouts ==
  ASSUME TimeoutInv, ~ HandlerMayInvalidate, TaskletReturns
  PROVE  TimeoutInv'
  <1>1. /\ ThreadFree /\ TimerInv /\ TimerInv' /\ timer' = NoEvent
        /\ UNCHANGED <<eventOf, dataPtr, request, cancelled, tasklets, queue, data, cur, timerList, period>>
        /\ pc = "running" /\ pc' = "freeing"
        /\ \A u : u # cur => (u \in Active' <=> u \in Active)
        /\ IsTimeout(cur) => cur \in Active /\ (cur \in Active' <=> period[cur] # 0)
        /\ ~ IsTimeout(cur) => cur \notin Active /\ cur \notin Active'
        /\ blocks' = IF IsTimeout(cur) /\ period[cur] = 0 THEN blocks \ {dataPtr[cur]} ELSE blocks
    BY ReturnsMoves
  <1>2. \A id : HandlerExists(id)' <=> HandlerExists(id)
    BY <1>1 DEF HandlerExists
  <1>3. /\ request.block = NoBlock /\ request.event = NoEvent /\ NoRequest' = NoRequest
        /\ request = NoRequest /\ cancelled = NoBlock
    BY <1>1 DEF ThreadFree, NoRequest
  <1>4. \A b \in blocks : \E t \in Active : dataPtr[t] = b /\ \A u \in Active : dataPtr[u] = b => u = t
    BY <1>1, OwnTimer
  <1>5. \A t \in Active : dataPtr[t] \in blocks /\ eventOf[dataPtr[t]] = t
    BY <1>3, ActiveIs, EventCoreAssumption DEF TimeoutInv, NoUseAfterFree, Storage
  <1>6. \/ /\ cur \in Active /\ cur \notin Active' /\ blocks' = blocks \ {dataPtr[cur]}
        \/ /\ cur \in Active <=> cur \in Active'
           /\ blocks' = blocks
    BY <1>1
  <1>7. TimeoutTypeOK'
    BY <1>1, <1>6 DEF TimeoutInv, TimeoutTypeOK
  <1>8. NoUseAfterFree'
    <2>1. \A t \in Active' : t \in Active /\ dataPtr[t] \in blocks'
      BY <1>1, <1>4, <1>5, <1>6
    <2> QED
      BY <1>1, <1>5, <2>1 DEF NoUseAfterFree
  <1>9. NoTimeoutLeak'
    <2>1. \A b \in blocks' : \E t \in Active' : dataPtr[t] = b
      BY <1>1, <1>4, <1>6
    <2> QED
      BY <1>1, <2>1 DEF NoTimeoutLeak
  <1>10. RequestOwned'
    BY <1>1, <1>3 DEF RequestOwned
  <1>11. CancelOwned'
    BY <1>1, <1>3 DEF CancelOwned
  <1>12. FrameInv'
    BY <1>1 DEF FrameInv, ThreadFree, NoRequest
  <1>13. Receivers'
    BY <1>1, <1>2 DEF TimeoutInv, Receivers
  <1> QED
    BY <1>1, <1>7, <1>8, <1>9, <1>10, <1>11, <1>12, <1>13 DEF TimeoutInv

-----------------------------------------------------------------------------
(* The theorems. *)

LEMMA InitTimeoutInv == TimeoutInit => TimeoutInv
  <1> SUFFICES ASSUME TimeoutInit
               PROVE  TimeoutInv
    OBVIOUS
  <1>1. TimerInv
    BY InitTimerInv DEF TimeoutInit
  <1>2. /\ blocks = {} /\ request = NoRequest /\ timer = NoEvent /\ cancelled = NoBlock
        /\ eventOf = [b \in Blocks |-> NoEvent] /\ dataPtr = [t \in TimerEvents |-> NoBlock]
        /\ Range(timerList) = {} /\ Range(queue) = {} /\ cur = NoEvent /\ pc = "idle"
        /\ NoEvent \notin TimerEvents
    BY EventCoreAssumption DEF TimeoutInit, LoopInit, Init, Range, Storage
  <1>3. \A t : t \notin Active
    BY <1>2, ActiveIs DEF OnItsWay
  <1>4. TimeoutTypeOK
    BY <1>2, HalfAssumption DEF TimeoutTypeOK, NoRequest, Words, Wrap
  <1>5. RequestOwned
    BY <1>2 DEF RequestOwned, NoRequest
  <1> QED
    BY <1>1, <1>2, <1>3, <1>4, <1>5
       DEF TimeoutInv, NoUseAfterFree, NoTimeoutLeak, CancelOwned, FrameInv, Receivers

LEMMA StepTimeoutInv ==
  ASSUME ~ HandlerMayInvalidate
  PROVE  TimeoutInv /\ [TimeoutNext]_allVars => TimeoutInv'
  <1> SUFFICES ASSUME TimeoutInv, [TimeoutNext]_allVars
               PROVE  TimeoutInv'
    OBVIOUS
  <1>1. ASSUME NEW ms \in OnceMillis, TimeoutMs(ms)
        PROVE  TimeoutInv'
    <2>1. MsToTicks(ms) \in Int
      BY TimeoutAssumption DEF MsToTicks, TickPeriod
    <2>2. ticks \in Words /\ 0 \in 0 .. Half - 1
      BY HalfAssumption DEF TimeoutInv, TimerInv, TimerTypeOK
    <2> QED
      BY <1>1, <2>1, <2>2, TicksPlusType, AtKeepsTimeouts DEF TimeoutMs
  <1>2. ASSUME NEW ms \in EveryMillis, TimeoutEveryMs(ms)
        PROVE  TimeoutInv'
    <2>1. MsToTicks(ms) \in 0 .. Half - 1
      <3>1. ms \in Nat /\ MsToTicks(ms) < Half /\ Half \in Nat
        BY TimeoutAssumption, HalfAssumption
      <3>2. MsToTicks(ms) \in Nat
        BY <3>1 DEF MsToTicks, TickPeriod
      <3> QED
        BY <3>1, <3>2
    <2>2. 0 \in Words
      BY HalfAssumption DEF Words, Wrap
    <2> QED
      BY <1>2, <2>1, <2>2, AtKeepsTimeouts DEF TimeoutEveryMs
  <1>3. CASE UNCHANGED allVars
    <2>1. /\ UNCHANGED <<timeoutVars, tasklets, state, data, pc, cur, timerList, queue, period>>
          /\ UNCHANGED vars
      BY <1>3 DEF allVars, vars, coreVars, queueVars, storageVars, loopVars, timerVars
    <2>2. TimerInv' /\ FrameInv' /\ Receivers'
      BY <2>1, StillTimers DEF TimeoutInv, FrameInv, Receivers, ThreadFree, timeoutVars, blockVars,
                               frameVars, NoRequest
    <2>3. \A t : (IsTimeout(t)' <=> IsTimeout(t)) /\ (OnItsWay(t)' <=> OnItsWay(t)) /\ (InCallback(t)' <=> InCallback(t))
      BY <2>1 DEF IsTimeout, ForTimeouts, OnItsWay, InCallback
    <2> QED
      BY <2>1, <2>2, <2>3, OthersKeepTimeouts DEF timeoutVars, blockVars, frameVars
  <1> QED
    BY <1>1, <1>2, <1>3, OtherStepKeepsTimeouts, TimeoutRequestKeeps, TimeoutFailsKeeps,
       TimeoutStoreKeeps, TimeoutCancelKeeps, CancelFreesKeeps, CalledKeepsTimeouts,
       ReturnsKeepTimeouts
       DEF TimeoutNext

(* The blocks, the pointers between blocks and events and the frames of     *)
(* ns_timeout.c stay what their types say.                                  *)
THEOREM TimeoutsTyped ==
  ASSUME ~ HandlerMayInvalidate
  PROVE  TimeoutSpec => []TimeoutTypeOK
  <1>1. TimeoutInv /\ [TimeoutNext]_allVars => TimeoutInv'
    BY StepTimeoutInv
  <1>2. TimeoutInv => TimeoutTypeOK
    BY DEF TimeoutInv
  <1> QED
    BY <1>1, <1>2, InitTimeoutInv, PTL DEF TimeoutSpec

(* However ticks, requests of other users, callbacks and cancellations      *)
(* interleave, timeout_tasklet and eventOS_timeout_cancel follow no pointer *)
(* to a block that was freed, or to one that was given to somebody else.    *)
THEOREM TimeoutPointersHold ==
  ASSUME ~ HandlerMayInvalidate
  PROVE  TimeoutSpec => []NoUseAfterFree
  <1>1. TimeoutInv /\ [TimeoutNext]_allVars => TimeoutInv'
    BY StepTimeoutInv
  <1>2. TimeoutInv => NoUseAfterFree
    BY DEF TimeoutInv
  <1> QED
    BY <1>1, <1>2, InitTimeoutInv, PTL DEF TimeoutSpec

(* Every block in use is the one a function is working on, or that of a     *)
(* timer that will come: it will be freed when it fires, or can be          *)
(* cancelled.                                                               *)
THEOREM TimeoutsNeverLeak ==
  ASSUME ~ HandlerMayInvalidate
  PROVE  TimeoutSpec => []NoTimeoutLeak
  <1>1. TimeoutInv /\ [TimeoutNext]_allVars => TimeoutInv'
    BY StepTimeoutInv
  <1>2. TimeoutInv => NoTimeoutLeak
    BY DEF TimeoutInv
  <1> QED
    BY <1>1, <1>2, InitTimeoutInv, PTL DEF TimeoutSpec

-----------------------------------------------------------------------------
(* Timeouts implement Callouts. *)

(* What Promise sees of a timer depends on whether it is on its way, in its *)
(* callback, and periodic.                                                  *)
WaitingBlocks == {dataPtr[t] : t \in ToCallBack}
RepeatingBlocks == {dataPtr[t] : t \in {u \in Active : period[u] # 0}}
CallingBlock == IF cur \in TimerEvents /\ InCallback(cur) THEN dataPtr[cur] ELSE NoBlock

LEMMA WaitingAre ==
  ASSUME TimerInv
  PROVE  \A t : t \in ToCallBack <=> t \in Active /\ ~ InCallback(t)
  <1>1. cur \in TimerEvents => cur \notin Range(timerList) \cup Range(queue)
    BY EventCoreAssumption DEF TimerInv, TimersConserved, StorageInv, PoolConserved
  <1> QED
    BY <1>1 DEF Active, ToCallBack, InCallback

LEMMA WaitingAreThen ==
  ASSUME TimerInv'
  PROVE  \A t : t \in ToCallBack' <=> t \in Active' /\ ~ InCallback(t)'
  <1>1. cur' \in TimerEvents => cur' \notin Range(timerList') \cup Range(queue')
    BY EventCoreAssumption DEF TimerInv, TimersConserved, StorageInv, PoolConserved
  <1> QED
    BY <1>1 DEF Active, ToCallBack, InCallback

(* Callouts stutters when none of this changes.                             *)
LEMMA PromiseStutters ==
  ASSUME TimerInv, TimerInv', dataPtr' = dataPtr,
         \A t : t \in Active' <=> t \in Active,
         \A t \in TimerEvents : InCallback(t)' <=> InCallback(t),
         \A t \in Active : period'[t] = period[t]
  PROVE  UNCHANGED <<WaitingBlocks, RepeatingBlocks, CallingBlock>>
  <1>1. \A t \in Active : t \in TimerEvents
    BY ActiveIs
  <1>2. ToCallBack' = ToCallBack /\ Active' = Active
    BY <1>1, WaitingAre, WaitingAreThen
  <1>3. {u \in Active : period[u] # 0}' = {u \in Active : period[u] # 0}
    BY <1>2
  <1>4. CallingBlock' = CallingBlock
    <2>1. CASE cur' = cur
      BY <2>1 DEF CallingBlock
    <2>2. CASE cur' # cur
      BY <2>2 DEF CallingBlock, InCallback
    <2> QED
      BY <2>1, <2>2
  <1> QED
    BY <1>2, <1>3, <1>4 DEF WaitingBlocks, RepeatingBlocks

(* Steps of others are no business of the promise.                          *)
LEMMA OthersStutter ==
  ASSUME TimeoutInv, TimeoutInv', ~ HandlerMayInvalidate, OtherStep
  PROVE  UNCHANGED <<WaitingBlocks, RepeatingBlocks, CallingBlock>>
  <1>1. TimerInv /\ TimerInv' /\ dataPtr' = dataPtr
    BY DEF TimeoutInv, OtherStep, timeoutVars, blockVars
  <1>2. CASE UNCHANGED timerVars /\ (DispatchNothing \/ FreePool \/ EventCoreWrite(Loop))
    <2>1. /\ UNCHANGED <<tasklets, data, timerList, period>>
          /\ TimerEvents \cap Range(queue') = TimerEvents \cap Range(queue)
          /\ \/ cur' = cur /\ pc' = pc
             \/ cur \notin TimerEvents /\ cur' = NoEvent /\ pc = "freeing" /\ pc' = "idle"
          /\ NoEvent \notin TimerEvents
      BY <1>1, <1>2, QuietMoves, EventCoreAssumption DEF timerVars, Storage
    <2>2. \A t \in TimerEvents : /\ IsTimeout(t)' <=> IsTimeout(t)
                                 /\ OnItsWay(t)' <=> OnItsWay(t)
                                 /\ InCallback(t)' <=> InCallback(t)
      BY <2>1 DEF IsTimeout, ForTimeouts, OnItsWay, InCallback
    <2> QED
      BY <1>1, <2>1, <2>2, ActiveIs, ActiveIsThen, PromiseStutters
  <1>3. ASSUME NEW f \in Handlers \ {TimeoutTasklet}, HandlerCreate(f), UNCHANGED timerVars
        PROVE  UNCHANGED <<WaitingBlocks, RepeatingBlocks, CallingBlock>>
    <2>1. /\ UNCHANGED <<timerList, period, queue, cur, pc>>
          /\ \A t \in TimerEvents : data'[t] = data[t]
          /\ DOMAIN tasklets' = DOMAIN tasklets \cup {f}
          /\ \A g \in DOMAIN tasklets : tasklets'[g] = tasklets[g]
      BY <1>1, <1>3, CreateMoves DEF timerVars
    <2>2. \A t \in TimerEvents : /\ IsTimeout(t)' <=> IsTimeout(t)
                                 /\ OnItsWay(t)' <=> OnItsWay(t)
                                 /\ InCallback(t)' <=> InCallback(t)
      BY <2>1 DEF IsTimeout, ForTimeouts, OnItsWay, InCallback
    <2> QED
      BY <1>1, <2>1, <2>2, ActiveIs, ActiveIsThen, PromiseStutters
  <1>4. CASE FreeTimer
    <2>1. /\ pc = "freeing" /\ pc' = "idle" /\ cur' = NoEvent /\ UNCHANGED <<tasklets, data, period>>
          /\ cur \notin Range(timerList) \cup Range(queue)
          /\ \/ period[cur] = 0 /\ timerList' = timerList /\ queue' = queue
             \/ period[cur] # 0 /\ Range(timerList') = Range(timerList) /\ Range(queue') = Range(queue) \cup {cur}
             \/ period[cur] # 0 /\ Range(timerList') = Range(timerList) \cup {cur} /\ Range(queue') = Range(queue)
      BY <1>1, <1>4, FreeMoves
    <2>2. \A t \in TimerEvents : /\ IsTimeout(t)' <=> IsTimeout(t)
                                 /\ OnItsWay(t)' <=> OnItsWay(t)
                                 /\ InCallback(t)' <=> InCallback(t)
      BY <2>1 DEF IsTimeout, ForTimeouts, OnItsWay, InCallback
    <2> QED
      BY <1>1, <2>1, <2>2, ActiveIs, ActiveIsThen, PromiseStutters
  <1>5. CASE Tick
    <2>1. /\ UNCHANGED <<tasklets, data, cur, pc, period>>
          /\ Range(timerList') \cup Range(queue') = Range(timerList) \cup Range(queue)
      BY <1>1, <1>5, TickMoves
    <2>2. \A t \in TimerEvents : /\ IsTimeout(t)' <=> IsTimeout(t)
                                 /\ OnItsWay(t)' <=> OnItsWay(t)
                                 /\ InCallback(t)' <=> InCallback(t)
      BY <2>1 DEF IsTimeout, ForTimeouts, OnItsWay, InCallback
    <2> QED
      BY <1>1, <2>1, <2>2, ActiveIs, ActiveIsThen, PromiseStutters
  <1>6. ASSUME NEW ev \in Sends, NEW in \in Delays, ~ ForTimeouts(ev), RequestIn(ev, in)
        PROVE  UNCHANGED <<WaitingBlocks, RepeatingBlocks, CallingBlock>>
    <2>1. PICK t, at : t \in TimerEvents /\ RequestWith(t, ev, at, 0)
      BY <1>6 DEF RequestIn, RequestTimer
    <2>2. /\ t \notin Range(timerList) \cup Range(queue) \cup {cur}
          /\ Range(timerList') \cup Range(queue') = Range(timerList) \cup Range(queue) \cup {t}
          /\ UNCHANGED <<tasklets, pc, cur>> /\ data'[t] = ev
          /\ \A u \in TimerEvents \ {t} : data'[u] = data[u] /\ period'[u] = period[u]
      BY <1>1, <2>1, SendsAssumption, RequestMoves
    <2>3. \A u \in TimerEvents \ {t} : /\ IsTimeout(u)' <=> IsTimeout(u)
                                       /\ OnItsWay(u)' <=> OnItsWay(u)
                                       /\ InCallback(u)' <=> InCallback(u)
      BY <2>2 DEF IsTimeout, ForTimeouts, OnItsWay, InCallback
    <2>4. ~ IsTimeout(t)' /\ ~ OnItsWay(t) /\ ~ InCallback(t) /\ ~ InCallback(t)'
      BY <1>6, <2>2 DEF IsTimeout, ForTimeouts, OnItsWay, InCallback
    <2>5. \A u : u \in Active' <=> u \in Active
      BY <2>3, <2>4, ActiveIs, ActiveIsThen
    <2>6. \A u \in Active : u \in TimerEvents \ {t}
      BY <2>4, ActiveIs
    <2> QED
      BY <1>1, <2>2, <2>3, <2>4, <2>5, <2>6, PromiseStutters
  <1> QED
    BY <1>2, <1>3, <1>4, <1>5, <1>6 DEF OtherStep, CoreWrite

(* The other steps of ns_timeout.c that change none of the timers.          *)
LEMMA FramesStutter ==
  ASSUME TimeoutInv, TimeoutInv', UNCHANGED <<vars, dataPtr>>
  PROVE  UNCHANGED <<WaitingBlocks, RepeatingBlocks, CallingBlock>>
  <1>1. /\ TimerInv /\ TimerInv' /\ Active' = Active
        /\ \A t : InCallback(t)' <=> InCallback(t)
    BY StillTimers DEF TimeoutInv
  <1> QED
    BY <1>1, PromiseStutters DEF vars, timerVars

(* The timers on their way, one per block, by what Promise sees of them.    *)
LEMMA BlocksSeen ==
  ASSUME TimeoutInv
  PROVE  /\ \A b : b \in WaitingBlocks <=> \E t \in Active : dataPtr[t] = b /\ ~ InCallback(t)
         /\ \A b : b \in RepeatingBlocks <=> \E t \in Active : dataPtr[t] = b /\ period[t] # 0
         /\ \A t \in Active : InCallback(t) => CallingBlock = dataPtr[t] /\ t = cur
         /\ CallingBlock # NoBlock => cur \in Active /\ InCallback(cur) /\ CallingBlock = dataPtr[cur]
         /\ \A t \in Active : dataPtr[t] \in Blocks /\ dataPtr[t] # NoBlock
         /\ \A t, u \in Active : dataPtr[t] = dataPtr[u] => t = u
  <1>1. TimerInv
    BY DEF TimeoutInv
  <1>2. \A t \in Active : dataPtr[t] \in Blocks /\ dataPtr[t] # NoBlock
    BY TimeoutAssumption DEF TimeoutInv, TimeoutTypeOK, NoUseAfterFree
  <1>3. \A t, u \in Active : dataPtr[t] = dataPtr[u] => t = u
    BY <1>2 DEF TimeoutInv, NoUseAfterFree, RequestOwned
  <1>4. \A t \in Active : InCallback(t) => CallingBlock = dataPtr[t] /\ t = cur
    BY ActiveIs DEF CallingBlock, InCallback
  <1>5. CallingBlock # NoBlock => cur \in Active /\ InCallback(cur) /\ CallingBlock = dataPtr[cur]
    BY DEF CallingBlock, Active
  <1>6. \A b : b \in WaitingBlocks <=> \E t \in Active : dataPtr[t] = b /\ ~ InCallback(t)
    BY <1>1, WaitingAre DEF WaitingBlocks
  <1>7. \A b : b \in RepeatingBlocks <=> \E t \in Active : dataPtr[t] = b /\ period[t] # 0
    BY DEF RepeatingBlocks
  <1> QED
    BY <1>2, <1>3, <1>4, <1>5, <1>6, <1>7

LEMMA BlocksSeenThen ==
  ASSUME TimeoutInv'
  PROVE  /\ \A b : b \in WaitingBlocks' <=> \E t \in Active' : dataPtr'[t] = b /\ ~ InCallback(t)'
         /\ \A b : b \in RepeatingBlocks' <=> \E t \in Active' : dataPtr'[t] = b /\ period'[t] # 0
         /\ \A t \in Active' : InCallback(t)' => CallingBlock' = dataPtr'[t] /\ t = cur'
         /\ CallingBlock' # NoBlock => cur' \in Active' /\ InCallback(cur)' /\ CallingBlock' = dataPtr'[cur']
  <1>1. TimerInv'
    BY DEF TimeoutInv
  <1>2. \A t \in Active' : InCallback(t)' => CallingBlock' = dataPtr'[t] /\ t = cur'
    BY ActiveIsThen DEF CallingBlock, InCallback
  <1>3. CallingBlock' # NoBlock => cur' \in Active' /\ InCallback(cur)' /\ CallingBlock' = dataPtr'[cur']
    BY DEF CallingBlock, Active
  <1>4. \A b : b \in WaitingBlocks' <=> \E t \in Active' : dataPtr'[t] = b /\ ~ InCallback(t)'
    BY <1>1, WaitingAreThen DEF WaitingBlocks
  <1>5. \A b : b \in RepeatingBlocks' <=> \E t \in Active' : dataPtr'[t] = b /\ period'[t] # 0
    BY DEF RepeatingBlocks
  <1> QED
    BY <1>2, <1>3, <1>4, <1>5

(* eventOS_timeout_at_ asks for a call.                                     *)
LEMMA RequestAsks ==
  ASSUME TimeoutInv, TimeoutInv', TimeoutRequest
  PROVE  \E b \in Blocks, again \in BOOLEAN : Promise!Ask(b, again)
  <1>1. /\ request.block \in blocks /\ \A u \in Active : dataPtr[u] # request.block
        /\ request.block # NoBlock /\ UNCHANGED <<pc, cur, tasklets>>
    BY TimeoutRequestMoves
  <1>2. PICK t \in TimerEvents, ev \in Events :
          /\ t \notin Active /\ t # cur
          /\ \A u : u \in Active' <=> u \in Active \/ u = t
          /\ dataPtr' = [dataPtr EXCEPT ![t] = request.block]
          /\ period'[t] = request.period
          /\ \A u : u # t => (IsTimeout(u)' <=> IsTimeout(u))
          /\ \A u \in TimerEvents \ {t} : period'[u] = period[u]
    BY TimeoutRequestMoves
  <1>3. PICK b : b = request.block
    OBVIOUS
  <1>4. PICK again \in BOOLEAN : again <=> period'[t] # 0
    OBVIOUS
  <1>5. /\ dataPtr'[t] = b
        /\ \A u \in TimerEvents \ {t} : dataPtr'[u] = dataPtr[u]
    BY <1>2, <1>3 DEF TimeoutInv, TimeoutTypeOK
  <1>6. \A u : InCallback(u)' <=> InCallback(u)
    BY <1>1, <1>2 DEF InCallback
  <1>7. ~ InCallback(t) /\ b \in Blocks /\ \A u \in Active : u \in TimerEvents \ {t} /\ dataPtr[u] # b
    BY <1>1, <1>2, <1>3, ActiveIs DEF InCallback, TimeoutInv, TimeoutTypeOK
  <1>8. CallingBlock' = CallingBlock /\ b # CallingBlock
    <2>1. CallingBlock' = CallingBlock
      BY <1>1, <1>2, <1>5, <1>6 DEF CallingBlock
    <2> QED
      BY <1>1, <1>3, <1>7, <2>1, BlocksSeen
  <1>9. b \notin WaitingBlocks /\ WaitingBlocks' = WaitingBlocks \cup {b}
    <2>1. \A c : c \in WaitingBlocks <=> \E u \in Active : dataPtr[u] = c /\ ~ InCallback(u)
      BY BlocksSeen
    <2>2. \A c : c \in WaitingBlocks' <=> \E u \in Active' : dataPtr'[u] = c /\ ~ InCallback(u)'
      BY BlocksSeenThen
    <2>3. b \notin WaitingBlocks
      BY <1>7, <2>1
    <2>4. \A c : c \in WaitingBlocks' <=> c \in WaitingBlocks \/ c = b
      BY <1>2, <1>5, <1>6, <1>7, <2>1, <2>2
    <2> QED
      BY <2>3, <2>4
  <1>10. RepeatingBlocks' = IF again THEN RepeatingBlocks \cup {b} ELSE RepeatingBlocks
    <2>1. \A c : c \in RepeatingBlocks <=> \E u \in Active : dataPtr[u] = c /\ period[u] # 0
      BY BlocksSeen
    <2>2. \A c : c \in RepeatingBlocks' <=> \E u \in Active' : dataPtr'[u] = c /\ period'[u] # 0
      BY BlocksSeenThen
    <2>3. \A c : c \in RepeatingBlocks' <=> c \in RepeatingBlocks \/ (c = b /\ again)
      BY <1>2, <1>4, <1>5, <1>7, <2>1, <2>2
    <2> QED
      BY <2>3
  <1>11. Promise!Ask(b, again)
    BY <1>8, <1>9, <1>10 DEF Promise!Ask, WaitingBlocks, RepeatingBlocks, CallingBlock
  <1> QED
    BY <1>7, <1>11

(* eventOS_timeout_cancel is a cancel, wherever the timer is.               *)
LEMMA CancelCancels ==
  ASSUME TimeoutInv, TimeoutInv', NEW b \in Blocks, TimeoutCancel(b)
  PROVE  Promise!Cancel(b)
  <1>1. UNCHANGED <<dataPtr, tasklets, data, pc, cur>> /\ b # NoBlock
    BY TimeoutCancelMoves
  <1>2. PICK t \in Active :
          /\ dataPtr[t] = b /\ \A u \in Active : dataPtr[u] = b => u = t
          /\ \A u : u # t => (u \in Active' <=> u \in Active)
          /\ period'[t] = 0 /\ \A u \in TimerEvents \ {t} : period'[u] = period[u]
          /\ \/ t \in Active' /\ InCallback(t) /\ InCallback(t)'
             \/ t \notin Active'
    BY TimeoutCancelMoves
  <1>3. \A u : InCallback(u)' <=> InCallback(u)
    BY <1>1 DEF InCallback, IsTimeout, ForTimeouts
  <1>4. \A u \in Active : u \in TimerEvents
    BY ActiveIs
  <1>5. CallingBlock' = CallingBlock
    BY <1>1, <1>3 DEF CallingBlock
  <1>6. WaitingBlocks' = WaitingBlocks \ {b}
    <2>1. \A c : c \in WaitingBlocks <=> \E u \in Active : dataPtr[u] = c /\ ~ InCallback(u)
      BY BlocksSeen
    <2>2. \A c : c \in WaitingBlocks' <=> \E u \in Active' : dataPtr[u] = c /\ ~ InCallback(u)
      BY <1>1, <1>3, BlocksSeenThen
    <2>3. \A c : c \in WaitingBlocks' <=> c \in WaitingBlocks /\ c # b
      BY <1>2, <2>1, <2>2
    <2> QED
      BY <2>3
  <1>7. RepeatingBlocks' = RepeatingBlocks \ {b}
    <2>1. \A c : c \in RepeatingBlocks <=> \E u \in Active : dataPtr[u] = c /\ period[u] # 0
      BY BlocksSeen
    <2>2. \A c : c \in RepeatingBlocks' <=> \E u \in Active' : dataPtr[u] = c /\ period'[u] # 0
      BY <1>1, BlocksSeenThen
    <2>3. \A c : c \in RepeatingBlocks' <=> c \in RepeatingBlocks /\ c # b
      BY <1>2, <1>4, <2>1, <2>2
    <2> QED
      BY <2>3
  <1> QED
    BY <1>5, <1>6, <1>7 DEF Promise!Cancel, WaitingBlocks, RepeatingBlocks, CallingBlock

(* The dispatcher hands timeout_tasklet one timer's event at a time.        *)
LEMMA CalledCalls ==
  ASSUME TimeoutInv, TimeoutInv', ~ HandlerMayInvalidate, TaskletCalled
  PROVE  \/ \E b \in Blocks : Promise!Call(b)
         \/ UNCHANGED <<WaitingBlocks, RepeatingBlocks, CallingBlock>>
  <1>1. PICK e : e = Head(queue)
    OBVIOUS
  <1>2. /\ TimerInv /\ TimerInv' /\ UNCHANGED <<dataPtr, period>> /\ NoEvent \notin TimerEvents
        /\ pc = "idle" /\ cur = NoEvent /\ cur' = e
        /\ pc' \in {"running", "crashed"} /\ (IsTimeout(e) => pc' = "running")
        /\ e \in Range(queue)
        /\ \A t : IsTimeout(t)' <=> IsTimeout(t)
        /\ \A t : t \in Active' <=> t \in Active
    BY <1>1, CalledMoves
  <1>3. \A t : /\ ~ InCallback(t)
               /\ InCallback(t)' <=> t = e /\ IsTimeout(e)
    BY <1>2 DEF InCallback
  <1>4. CASE ~ IsTimeout(e)
    BY <1>2, <1>3, <1>4, PromiseStutters
  <1>5. CASE IsTimeout(e)
    <2>1. e \in Active /\ e \in TimerEvents /\ Active' = Active
      BY <1>2, <1>5, ActiveIs DEF OnItsWay, IsTimeout
    <2>2. PICK b : b = dataPtr[e]
      OBVIOUS
    <2>3. /\ b \in Blocks /\ b # NoBlock /\ \A u \in Active : dataPtr[u] = b => u = e
          /\ CallingBlock = NoBlock
      BY <1>3, <2>1, <2>2, BlocksSeen
    <2>4. CallingBlock' = b
      BY <1>2, <1>3, <1>5, <2>1, <2>2 DEF CallingBlock
    <2>5. b \in WaitingBlocks /\ WaitingBlocks' = WaitingBlocks \ {b}
      <3>1. \A c : c \in WaitingBlocks <=> \E u \in Active : dataPtr[u] = c
        BY <1>3, BlocksSeen
      <3>2. \A c : c \in WaitingBlocks' <=> \E u \in Active : dataPtr[u] = c /\ u # e
        BY <1>2, <1>3, <1>5, <2>1, BlocksSeenThen
      <3>3. \A c : c \in WaitingBlocks' <=> c \in WaitingBlocks /\ c # b
        BY <2>1, <2>2, <2>3, <3>1, <3>2
      <3> QED
        BY <2>1, <2>2, <3>1, <3>3
    <2>6. RepeatingBlocks' = RepeatingBlocks
      BY <1>2, <2>1 DEF RepeatingBlocks
    <2> QED
      BY <2>3, <2>4, <2>5, <2>6 DEF Promise!Call, WaitingBlocks, RepeatingBlocks, CallingBlock
  <1> QED
    BY <1>4, <1>5

(* A callback returns: it waits again if its timer still repeats.           *)
LEMMA ReturnsReturn ==
  ASSUME TimeoutInv, TimeoutInv', ~ HandlerMayInvalidate, TaskletReturns
  PROVE  \/ Promise!Return
         \/ UNCHANGED <<WaitingBlocks, RepeatingBlocks, CallingBlock>>
  <1>1. /\ TimerInv /\ TimerInv'
        /\ UNCHANGED <<dataPtr, cur, period>> /\ pc = "running" /\ pc' = "freeing"
        /\ \A t : IsTimeout(t)' <=> IsTimeout(t)
        /\ \A u : u # cur => (u \in Active' <=> u \in Active)
        /\ IsTimeout(cur) => cur \in Active /\ (cur \in Active' <=> period[cur] # 0)
        /\ ~ IsTimeout(cur) => cur \notin Active /\ cur \notin Active'
    BY ReturnsMoves
  <1>2. \A t : /\ ~ InCallback(t)'
               /\ InCallback(t) <=> t = cur /\ IsTimeout(cur)
    BY <1>1 DEF InCallback
  <1>3. CASE ~ IsTimeout(cur)
    BY <1>1, <1>2, <1>3, PromiseStutters
  <1>4. CASE IsTimeout(cur)
    <2>1. PICK b : b = dataPtr[cur]
      OBVIOUS
    <2>2. /\ CallingBlock = b /\ b # NoBlock /\ \A u \in Active : dataPtr[u] = b => u = cur
      BY <1>1, <1>2, <1>4, <2>1, BlocksSeen
    <2>3. CallingBlock' = NoBlock
      BY <1>2 DEF CallingBlock
    <2>4. /\ RepeatingBlocks' = RepeatingBlocks
          /\ b \in RepeatingBlocks <=> period[cur] # 0
      <3>1. \A c : c \in RepeatingBlocks <=> \E u \in Active : dataPtr[u] = c /\ period[u] # 0
        BY BlocksSeen
      <3>2. \A c : c \in RepeatingBlocks' <=> \E u \in Active' : dataPtr[u] = c /\ period[u] # 0
        BY <1>1, BlocksSeenThen
      <3>3. \A u : period[u] # 0 => (u \in Active' <=> u \in Active)
        BY <1>1
      <3>4. \A c : c \in RepeatingBlocks' <=> c \in RepeatingBlocks
        BY <3>1, <3>2, <3>3
      <3>5. b \in RepeatingBlocks <=> period[cur] # 0
        BY <1>1, <1>4, <2>1, <2>2, <3>1
      <3> QED
        BY <3>4, <3>5
    <2>5. WaitingBlocks' = IF b \in RepeatingBlocks THEN WaitingBlocks \cup {b} ELSE WaitingBlocks
      <3>1. \A c : c \in WaitingBlocks <=> \E u \in Active : dataPtr[u] = c /\ u # cur
        BY <1>2, <1>4, BlocksSeen
      <3>2. \A c : c \in WaitingBlocks' <=> \E u \in Active' : dataPtr[u] = c
        BY <1>1, <1>2, BlocksSeenThen
      <3>3. \A c : c \in WaitingBlocks' <=> c \in WaitingBlocks \/ (c = b /\ period[cur] # 0)
        BY <1>1, <1>4, <2>1, <3>1, <3>2
      <3> QED
        BY <2>4, <3>3
    <2> QED
      BY <2>2, <2>3, <2>4, <2>5 DEF Promise!Return, WaitingBlocks, RepeatingBlocks, CallingBlock
  <1> QED
    BY <1>3, <1>4

LEMMA StepCallsAsAsked ==
  ASSUME TimeoutInv, TimeoutInv', ~ HandlerMayInvalidate, [TimeoutNext]_allVars
  PROVE  /\ [Promise!Next]_(Promise!calloutVars)
         /\ \A b \in Blocks : TimeoutCancel(b) => Promise!Cancel(b)
  <1>1. ASSUME UNCHANGED <<WaitingBlocks, RepeatingBlocks, CallingBlock>>
        PROVE  [Promise!Next]_(Promise!calloutVars)
    BY <1>1 DEF Promise!calloutVars, WaitingBlocks, RepeatingBlocks, CallingBlock
  <1>2. ASSUME UNCHANGED <<vars, dataPtr>>
        PROVE  [Promise!Next]_(Promise!calloutVars)
    BY <1>1, <1>2, FramesStutter
  <1>3. \A b \in Blocks : TimeoutCancel(b) => Promise!Cancel(b)
    BY CancelCancels
  <1>4. ASSUME NEW at, NEW p, TimeoutAt(at, p)
        PROVE  [Promise!Next]_(Promise!calloutVars)
    <2>1. UNCHANGED <<timerVars, dataPtr>> /\ TimerInv /\ TimerInv'
      BY <1>4 DEF TimeoutAt, TimeoutInv
    <2>2. CASE UNCHANGED coreVars
      BY <1>2, <2>1, <2>2 DEF vars
    <2>3. CASE TimeoutTasklet \notin DOMAIN tasklets /\ HandlerCreate(TimeoutTasklet)
      <3>1. /\ UNCHANGED <<timerList, period, queue, cur, pc>>
            /\ \A t \in TimerEvents : data'[t] = data[t]
            /\ DOMAIN tasklets' = DOMAIN tasklets \cup {TimeoutTasklet}
            /\ tasklets'[TimeoutTasklet] = TaskletGetFreeId
        BY <2>1, <2>3, CreateMoves DEF timerVars
      <3>2. \A t \in TimerEvents : OnItsWay(t)' <=> OnItsWay(t)
        BY <3>1 DEF OnItsWay
      <3>3. \A t \in TimerEvents : OnItsWay(t) => ~ IsTimeout(t) /\ ~ IsTimeout(t)'
        <4>1. ASSUME NEW t \in TimerEvents, OnItsWay(t)
              PROVE  ~ IsTimeout(t)'
          <5>1. HandlerExists(data[t].receiver)
            BY <4>1 DEF TimeoutInv, Receivers, OnItsWay
          <5>2. data[t].receiver \in Ids /\ TypeOK
            BY <2>1 DEF TimerInv, StorageInv, TypeOK, Storage, Events
          <5>3. data'[t].receiver # TaskletGetFreeId
            BY <3>1, <5>1, <5>2, NewIdIsNew
          <5> QED
            BY <3>1, <5>3 DEF IsTimeout, ForTimeouts
        <4>2. \A t : ~ IsTimeout(t)
          BY <2>3 DEF IsTimeout, ForTimeouts
        <4> QED
          BY <4>1, <4>2
      <3>4. \A t : t \notin Active /\ t \notin Active'
        BY <3>2, <3>3, ActiveIs, ActiveIsThen
      <3>5. \A t \in TimerEvents : ~ InCallback(t) /\ ~ InCallback(t)'
        BY <3>4 DEF Active
      <3> QED
        BY <1>1, <2>1, <3>4, <3>5, PromiseStutters
    <2> QED
      BY <1>4, <2>2, <2>3 DEF TimeoutAt
  <1>5. CASE OtherStep
    BY <1>3, <1>1, <1>5, OthersStutter
  <1>6. CASE TimeoutRequest
    BY <1>3, <1>6, RequestAsks DEF Promise!Next
  <1>7. CASE TimeoutFails \/ TimeoutStore \/ CancelFrees \/ UNCHANGED allVars
    <2>1. UNCHANGED <<vars, dataPtr>>
      BY <1>7 DEF TimeoutFails, TimeoutStore, CancelFrees, allVars, timeoutVars, blockVars
    <2> QED
      BY <1>3, <1>2, <2>1
  <1>8. CASE \E b \in Blocks : TimeoutCancel(b)
    BY <1>3, <1>8 DEF Promise!Next
  <1>9. CASE TaskletCalled
    BY <1>3, <1>1, <1>9, CalledCalls DEF Promise!Next
  <1>10. CASE TaskletReturns
    BY <1>3, <1>1, <1>10, ReturnsReturn DEF Promise!Next
  <1> QED
    BY <1>3, <1>4, <1>5, <1>6, <1>7, <1>8, <1>9, <1>10 DEF TimeoutNext, TimeoutMs, TimeoutEveryMs

(* ns_timeout.c implements Callouts, and a cancelled timeout, whether it is *)
(* pending, queued or in its callback, is not called again, for every       *)
(* number of timeouts and every mix of other timers.                        *)
THEOREM CallsAsAskedForAll ==
  ASSUME ~ HandlerMayInvalidate
  PROVE  TimeoutSpec => CallsAsAsked
  <1>1. TimeoutInit => Promise!Init
    <2> SUFFICES ASSUME TimeoutInit PROVE Promise!Init
      OBVIOUS
    <2>1. /\ Range(timerList) = {} /\ Range(queue) = {} /\ cur = NoEvent /\ NoEvent \notin TimerEvents
      BY EventCoreAssumption DEF TimeoutInit, LoopInit, Init, Range, Storage
    <2>2. \A t : t \notin Active
      BY <2>1, ActiveIs DEF OnItsWay
    <2>3. WaitingBlocks = {} /\ RepeatingBlocks = {} /\ CallingBlock = NoBlock
      BY <2>1, <2>2 DEF WaitingBlocks, RepeatingBlocks, CallingBlock, Active
    <2> QED
      BY <2>3 DEF Promise!Init, WaitingBlocks, RepeatingBlocks, CallingBlock
  <1>2. TimeoutInv /\ [TimeoutNext]_allVars => TimeoutInv'
    BY StepTimeoutInv
  <1>3. TimeoutInv /\ TimeoutInv' /\ [TimeoutNext]_allVars => [Promise!Next]_(Promise!calloutVars)
    BY StepCallsAsAsked
  <1>4. TimeoutInv /\ TimeoutInv' /\ [TimeoutNext]_allVars
          => [\A b \in Blocks : TimeoutCancel(b) => Promise!Cancel(b)]_allVars
    BY StepCallsAsAsked
  <1> QED
    BY <1>1, <1>2, <1>3, <1>4, InitTimeoutInv, PTL DEF TimeoutSpec, CallsAsAsked, Promise!Spec
=============================================================================
