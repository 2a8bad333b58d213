--------------------------- MODULE EventLoopProofs ---------------------------
(***************************************************************************)
(* Theorems about system_timer.c composed with event.c, for any number of  *)
(* timers, events and contexts, and any range of the tick counter.         *)
(***************************************************************************)
EXTENDS EventLoop, EventCoreProofs

-----------------------------------------------------------------------------
(* Helpers. *)

(* event_core_write of a timer's event.                                     *)
LEMMA EnqueueFacts ==
  ASSUME TypeOK, NEW e \in Storage \ Range(queue), NEW p \in Priorities,
         IsInjective(queue), Enqueue(e, p)
  PROVE  /\ queue' \in Seq(Storage)
         /\ Range(queue') = Range(queue) \cup {e}
         /\ IsInjective(queue')
         /\ state' = [state EXCEPT ![e] = "QUEUED"]
  BY QueueBeforeFacts DEF Enqueue

(* timer_sys_add.                                                           *)
LEMMA TimerSysAddFacts ==
  ASSUME NEW t \in TimerEvents \ Range(timerList), NEW at,
         timerList \in Seq(TimerEvents), IsInjective(timerList), TimerSysAdd(t, at)
  PROVE  /\ timerList' \in Seq(TimerEvents)
         /\ Range(timerList') = Range(timerList) \cup {t}
         /\ IsInjective(timerList')
  <1> DEFINE Stops == {i \in DOMAIN timerList : TicksBefore(at, launch[timerList[i]])}
  <1>1. Stops \in SUBSET (1 .. Len(timerList)) /\ timerList' = InsertBefore(timerList, Stops, t)
    BY DEF TimerSysAdd
  <1> HIDE DEF Stops
  <1>2. /\ InsertBefore(timerList, Stops, t) \in Seq(TimerEvents)
        /\ \E i \in 1 .. Len(timerList) + 1 :
             InsertBefore(timerList, Stops, t) = InsertAt(timerList, i, t)
    BY <1>1, InsertBeforeFacts
  <1>3. PICK i \in 1 .. Len(timerList) + 1 :
             InsertBefore(timerList, Stops, t) = InsertAt(timerList, i, t)
    BY <1>2
  <1> QED
    BY <1>1, <1>2, <1>3, InsertKeepsDistinct

-----------------------------------------------------------------------------
(* The invariant. *)

(* The state field of a timer's event, where somebody trusts it.            *)
TimerStates ==
    /\ \A t \in Range(timerList) : state[t] = "UNQUEUED"
    /\ cur \in TimerEvents => state[cur] = IF pc = "freeing" THEN "UNQUEUED" ELSE "RUNNING"

TimerInv ==
    /\ StorageInv
    /\ TimerTypeOK
    /\ TimersConserved
    /\ TimerStates

(* What the steps of system_timer.c may change of the event core's state:   *)
(* timers come and go, and nothing happens to other events.                 *)
LEMMA TimersKeepStorage ==
  ASSUME StorageInv, TypeOK',
         UNCHANGED <<freeEvents, heap, appCells, held>>,
         IsInjective(queue'),
         Range(queue') \ TimerEvents = Range(queue) \ TimerEvents,
         \/ cur' = cur /\ pc' = pc
         \/ cur \in TimerEvents /\ cur' = NoEvent /\ pc' = "idle",
         cur' \in Range(queue') => cur' \notin TimerEvents,
         \A e \in Storage \ TimerEvents : state'[e] = state[e] /\ allocator'[e] = allocator[e],
         \A t \in TimerEvents \cap Range(queue') : state'[t] = "QUEUED" /\ allocator'[t] = "TIMER",
         cur' \in TimerEvents => allocator'[cur'] = "TIMER"
  PROVE  StorageInv'
  <1>0. /\ NoEvent \notin Storage
        /\ PoolEvents \cap HeapCells = {} /\ TimerEvents \cap HeapCells = {}
        /\ PoolEvents \cap TimerEvents = {}
    BY EventCoreAssumption
  <1>1. HeldEvents' = HeldEvents
    BY DEF HeldEvents
  <1>2. /\ Range(queue) \subseteq Storage /\ Range(queue') \subseteq Storage
        /\ heap \subseteq Storage /\ Range(freeEvents) \subseteq PoolEvents
        /\ HeldEvents \subseteq Storage \ TimerEvents
    BY DEF StorageInv, TypeOK, Range, Ownership, HeldEvents, Storage
  <1>3. \A e \in PoolEvents \cup HeapCells :
          /\ e \in Range(queue') <=> e \in Range(queue)
          /\ e = cur' <=> e = cur
          /\ state'[e] = state[e] /\ allocator'[e] = allocator[e]
    BY <1>0 DEF Storage
  <1>4. PoolConserved'
    <2>1. Range(freeEvents') \cap InFlight' = {}
      BY <1>0, <1>1, <1>2, <1>3 DEF StorageInv, PoolConserved, InFlight
    <2>2. Range(queue') \cap HeldEvents' = {}
      BY <1>1, <1>2 DEF StorageInv, PoolConserved
    <2>3. cur' \notin HeldEvents' /\ (cur' \in Range(queue') => cur' \in HeapCells)
      BY <1>0, <1>1, <1>2, <1>3 DEF StorageInv, PoolConserved, Storage, HeldEvents
    <2>4. PoolEvents \subseteq Range(freeEvents') \cup InFlight'
      BY <1>0, <1>1, <1>3 DEF StorageInv, PoolConserved, InFlight
    <2> QED
      BY <2>1, <2>2, <2>3, <2>4 DEF StorageInv, PoolConserved
  <1>5. QueuedEventsAllocated'
    <2>1. appCells \cap TimerEvents = {}
      BY <1>0 DEF StorageInv, Ownership, TypeOK
    <2> QED
      BY <1>1, <1>2, <1>3, <2>1 DEF StorageInv, QueuedEventsAllocated, Storage
  <1>6. NoHeapLeak'
    BY <1>0, <1>1, <1>3 DEF StorageInv, NoHeapLeak, InFlight, TypeOK
  <1>7. StateAccurate'
    <2>1. \A e \in Range(queue') : state'[e] = "QUEUED"
      BY <1>2 DEF StorageInv, StateAccurate
    <2>2. \A e \in PoolEvents :
            /\ state'[e] = "QUEUED" => e \in Range(queue')
            /\ state'[e] = "RUNNING" <=> e = cur' /\ pc' \in {"running", "crashed"}
      BY <1>0, <1>3 DEF StorageInv, StateAccurate
    <2> QED
      BY <2>1, <2>2 DEF StateAccurate
  <1>8. Ownership'
    <2>1. /\ appCells' \subseteq heap' /\ Range(freeEvents') \subseteq PoolEvents
          /\ HeldEvents' \cap TimerEvents = {}
          /\ \A e \in PoolEvents : allocator'[e] = "STARTUP_POOL"
      BY <1>1, <1>3 DEF StorageInv, Ownership
    <2>2. \A e \in TimerEvents \cap (Range(queue') \cup {cur'}) : allocator'[e] = "TIMER"
      OBVIOUS
    <2>3. \A c \in HeapCells \cap (Range(queue') \cup {cur'}) : allocator'[c] \in {"DYNAMIC", "USER"}
      BY <1>3 DEF StorageInv, Ownership
    <2>4. \A a \in Callers : held'[a] \in HeapCells => allocator'[held'[a]] = "DYNAMIC"
      BY <1>3 DEF StorageInv, Ownership
    <2>5. /\ pc' = "freeing" => cur' \notin HeapCells
          /\ cur' \in HeapCells => cur' \in heap'
          /\ cur' \in HeapCells /\ allocator'[cur'] = "DYNAMIC" => cur' \notin appCells' \cup Range(queue')
          /\ cur' \in HeapCells /\ allocator'[cur'] = "USER" => cur' \in appCells' \cup Range(queue')
      BY <1>0, <1>3 DEF StorageInv, Ownership, Storage
    <2> QED
      BY <2>1, <2>2, <2>3, <2>4, <2>5 DEF Ownership
  <1> QED
    BY <1>4, <1>5, <1>6, <1>7, <1>8 DEF StorageInv

(* What the steps of event.c alone may do to timers: none but the one       *)
(* dispatched, which moves from the queue to the dispatcher.                *)
LEMMA CoreKeepsTimers ==
  ASSUME TimerInv, ~ HandlerMayInvalidate,
         LoopStep \/ ApiCall \/ (\E a \in Callers : EventCoreWrite(a)), UNCHANGED timerVars
  PROVE  TimerInv'
  <1>0. /\ NoEvent \notin Storage
        /\ PoolEvents \cap HeapCells = {} /\ TimerEvents \cap HeapCells = {}
        /\ PoolEvents \cap TimerEvents = {}
    BY EventCoreAssumption
  <1>1. StorageInv'
    BY StepStorageInv DEF TimerInv, Next
  <1>2. UNCHANGED <<ticks, ticking, timerList, timerFree, timerHeap, launch, period>>
    BY DEF timerVars
  <1>3. Range(timerList) \subseteq TimerEvents /\ Range(timerFree) \subseteq TimerEvents
    BY DEF TimerInv, TimerTypeOK, Range
  <1>4. ASSUME TimerEvents \cap (Range(queue') \cup {cur'}) = TimerEvents \cap (Range(queue) \cup {cur}),
               \A t \in Range(timerList) : state'[t] = state[t],
               cur' \in TimerEvents =>
                 state'[cur'] = IF pc' = "freeing" THEN "UNQUEUED" ELSE "RUNNING"
        PROVE  TimerInv'
    <2>1. TimerTypeOK'
      BY <1>2 DEF TimerInv, TimerTypeOK
    <2>2. TimersConserved'
      BY <1>2, <1>3, <1>4 DEF TimerInv, TimersConserved
    <2>3. TimerStates'
      BY <1>2, <1>4 DEF TimerInv, TimerStates
    <2> QED
      BY <1>1, <2>1, <2>2, <2>3 DEF TimerInv
  <1>5. ASSUME UNCHANGED <<queue, state, cur, pc>>
        PROVE  TimerInv'
    BY <1>4, <1>5 DEF TimerInv, TimerStates
  <1>6. ASSUME NEW c \in HeapCells, NEW ev \in Sends, SendUserAllocated(c, ev)
        PROVE  TimerInv'
    <2>1. /\ c \in Storage /\ ev.priority \in Priorities /\ c \notin TimerEvents
          /\ queue' = QueueBefore(c, ev.priority) /\ state' = [state EXCEPT ![c] = "QUEUED"]
          /\ UNCHANGED <<cur, pc>>
      BY <1>0, <1>6, SendsAssumption DEF SendUserAllocated, Enqueue, loopVars, Storage, Events
    <2>2. Range(queue') = Range(queue) \cup {c}
      BY <2>1, QueueBeforeFacts DEF TimerInv, StorageInv
    <2>3. \A t \in TimerEvents : state'[t] = state[t]
      BY <2>1
    <2> QED
      BY <1>3, <1>4, <2>1, <2>2, <2>3 DEF TimerInv, TimerStates
  <1>7. ASSUME NEW a \in Callers, EventCoreWrite(a)
        PROVE  TimerInv'
    <2>1. /\ held[a] \in Storage /\ data[held[a]].priority \in Priorities
          /\ queue' = QueueBefore(held[a], data[held[a]].priority)
          /\ state' = [state EXCEPT ![held[a]] = "QUEUED"]
          /\ UNCHANGED <<cur, pc>>
      BY <1>7 DEF EventCoreWrite, Enqueue, loopVars, TimerInv, StorageInv, TypeOK, Events
    <2>2. held[a] \notin TimerEvents
      BY <1>0, <2>1 DEF TimerInv, StorageInv, Ownership, HeldEvents
    <2>3. Range(queue') = Range(queue) \cup {held[a]}
      BY <2>1, QueueBeforeFacts DEF TimerInv, StorageInv
    <2>4. \A t \in TimerEvents : state'[t] = state[t]
      BY <2>1, <2>2
    <2> QED
      BY <1>3, <1>4, <2>1, <2>2, <2>3, <2>4 DEF TimerInv, TimerStates
  <1>8. ASSUME NEW i \in DOMAIN queue, CancelUser(i)
        PROVE  TimerInv'
    <2>1. i \in 1 .. Len(queue) /\ queue[i] \in Range(queue) /\ queue \in Seq(Storage) /\ IsInjective(queue)
      BY DEF TimerInv, StorageInv, TypeOK, PoolConserved, Range
    <2>2. allocator[queue[i]] = "USER" /\ queue' = RemoveAt(queue, i) /\ UNCHANGED <<state, cur, pc>>
      BY <1>8 DEF CancelUser, loopVars
    <2>3. queue[i] \notin TimerEvents
      BY <2>1, <2>2 DEF TimerInv, StorageInv, Ownership
    <2>4. Range(queue') = Range(queue) \ {queue[i]}
      BY <2>1, <2>2, RemoveKeepsDistinct
    <2> QED
      BY <1>4, <2>2, <2>3, <2>4 DEF TimerInv, TimerStates
  <1>9. CASE Dispatch
    <2> DEFINE e == Head(queue)
    <2>1. queue # <<>> /\ queue' = Tail(queue) /\ queue \in Seq(Storage) /\ IsInjective(queue)
      BY <1>9 DEF Dispatch, TimerInv, StorageInv, TypeOK, PoolConserved
    <2>2. e \in Range(queue) /\ e \in Storage /\ Range(queue') = Range(queue) \ {e}
      BY <2>1, TailKeepsDistinct
    <2>3. cur = NoEvent /\ cur' = e /\ state' = [state EXCEPT ![e] = "RUNNING"]
      BY <1>9 DEF Dispatch, TimerInv, StorageInv, TypeOK
    <2> HIDE DEF e
    <2>4. e \notin Range(timerList)
      BY <2>2 DEF TimerInv, TimersConserved
    <2>5. state'[e] = "RUNNING" /\ \A t \in Range(timerList) : state'[t] = state[t]
      BY <2>2, <2>3, <2>4 DEF TimerInv, StorageInv, TypeOK
    <2>6. pc' # "freeing"
      BY <1>9 DEF Dispatch
    <2> QED
      BY <1>0, <1>4, <2>2, <2>3, <2>5, <2>6 DEF Storage
  <1>10. CASE ReturnUser \/ ReturnDynamic \/ FreePool
    <2>1. /\ cur \notin TimerEvents
          /\ cur' = NoEvent /\ UNCHANGED <<queue, state>>
      BY <1>10 DEF ReturnUser, ReturnDynamic, FreePool, BackToIdle, queueVars, TimerInv, StorageInv, Ownership
    <2> QED
      BY <1>0, <1>4, <2>1 DEF Storage
  <1>11. CASE ReturnMark
    <2>1. pc' = "freeing" /\ state' = [state EXCEPT ![cur] = "UNQUEUED"] /\ UNCHANGED <<queue, cur>>
      BY <1>11 DEF ReturnMark
    <2>2. cur \notin Range(timerList)
      BY DEF TimerInv, TimersConserved
    <2>3. cur \in TimerEvents => state'[cur] = "UNQUEUED"
      BY <2>1 DEF TimerInv, StorageInv, TypeOK, Storage
    <2> QED
      BY <1>3, <1>4, <2>1, <2>2, <2>3
  <1> QED
    BY <1>5, <1>6, <1>7, <1>8, <1>9, <1>10, <1>11
       DEF LoopStep, ApiCall, HandlerCreate, EventSend, AppAlloc, AppFree, SetActiveTasklet,
           DispatchNothing, queueVars, loopVars

(* A timer that is requested comes from the free list or the heap, and is   *)
(* nowhere else.                                                            *)
LEMMA TimerStructGetFacts ==
  ASSUME TimerInv, NEW t \in TimerEvents, TimerStructGet(t)
  PROVE  /\ t \notin Range(timerList) \cup Range(queue) \cup {cur}
         /\ timerFree' \in Seq(TimerEvents) /\ IsInjective(timerFree')
         /\ Range(timerFree') = Range(timerFree) \ {t}
         /\ timerHeap' \subseteq TimerEvents \ StaticTimers
         /\ StaticTimers \cup timerHeap' = StaticTimers \cup timerHeap \cup {t}
  <1>1. CASE timerFree # <<>> /\ t = Head(timerFree) /\ timerFree' = Tail(timerFree)
             /\ timerHeap' = timerHeap
    <2>1. /\ t \in Range(timerFree)
          /\ timerFree' \in Seq(TimerEvents) /\ IsInjective(timerFree')
          /\ Range(timerFree') = Range(timerFree) \ {t}
      BY <1>1, TailKeepsDistinct DEF TimerInv, TimerTypeOK, TimersConserved
    <2> QED
      BY <1>1, <2>1 DEF TimerInv, TimerTypeOK, TimersConserved
  <1>2. CASE timerFree' = timerFree /\ t \in TimerEvents \ (StaticTimers \cup timerHeap)
             /\ timerHeap' = timerHeap \cup {t}
    BY <1>2 DEF TimerInv, TimerTypeOK, TimersConserved
  <1> QED
    BY <1>1, <1>2 DEF TimerStructGet

(* Requesting a timer, whether it is due at once or later.                  *)
LEMMA RequestKeepsTimers ==
  ASSUME TimerInv, NEW t \in TimerEvents, NEW ev \in Events, NEW at \in Words,
         NEW every \in 0 .. Half - 1, RequestWith(t, ev, at, every)
  PROVE  TimerInv'
  <1>0. /\ t \in Storage /\ ev.priority \in Priorities /\ NoEvent \notin Storage
        /\ HeapCells \cap TimerEvents = {}
        /\ TypeOK /\ IsInjective(queue)
    BY EventCoreAssumption DEF Storage, Events, TimerInv, StorageInv, PoolConserved
  <1>1. /\ t \notin Range(timerList) \cup Range(queue) \cup {cur}
        /\ timerFree' \in Seq(TimerEvents) /\ IsInjective(timerFree')
        /\ Range(timerFree') = Range(timerFree) \ {t}
        /\ timerHeap' \subseteq TimerEvents \ StaticTimers
        /\ StaticTimers \cup timerHeap' = StaticTimers \cup timerHeap \cup {t}
    BY TimerStructGetFacts DEF RequestWith
  <1>2. /\ data' = [data EXCEPT ![t] = ev] /\ allocator' = [allocator EXCEPT ![t] = "TIMER"]
        /\ launch' = [launch EXCEPT ![t] = at] /\ period' = [period EXCEPT ![t] = every]
        /\ UNCHANGED <<tasklets, freeEvents, heap, appCells, held, pc, cur, currTasklet, ticks, ticking>>
    BY DEF RequestWith, loopVars
  <1>3. /\ \/ /\ Range(queue') = Range(queue) \cup {t} /\ timerList' = timerList
              /\ state' = [state EXCEPT ![t] = "QUEUED"]
           \/ /\ queue' = queue /\ Range(timerList') = Range(timerList) \cup {t}
              /\ state' = [state EXCEPT ![t] = "UNQUEUED"]
        /\ queue' \in Seq(Storage) /\ IsInjective(queue')
        /\ timerList' \in Seq(TimerEvents) /\ IsInjective(timerList')
    <2>1. CASE Enqueue(t, ev.priority) /\ timerList' = timerList
      <3>1. t \in Storage \ Range(queue)
        BY <1>0, <1>1
      <3> QED
        BY <1>0, <2>1, <3>1, EnqueueFacts DEF TimerInv, TimerTypeOK, TimersConserved
    <2>2. CASE TimerSysAdd(t, at) /\ state' = [state EXCEPT ![t] = "UNQUEUED"] /\ queue' = queue
      BY <1>0, <1>1, <2>2, TimerSysAddFacts DEF TimerInv, TimerTypeOK, TimersConserved, TypeOK
    <2> QED
      BY <2>1, <2>2 DEF RequestWith
  <1>4. TypeOK'
    BY <1>0, <1>2, <1>3 DEF TypeOK
  <1>5. \A e \in Storage \ {t} : state'[e] = state[e] /\ allocator'[e] = allocator[e]
    BY <1>0, <1>2, <1>3 DEF TypeOK
  <1>6. /\ allocator'[t] = "TIMER"
        /\ t \in Range(queue') => state'[t] = "QUEUED"
        /\ t \in Range(timerList') => state'[t] = "UNQUEUED"
    BY <1>0, <1>1, <1>2, <1>3 DEF TypeOK
  <1>7. Range(queue') \subseteq Storage /\ Range(queue') \subseteq Range(queue) \cup {t}
    <2>1. Range(queue') \subseteq Storage
      BY <1>4 DEF TypeOK, Range
    <2> QED
      BY <1>3, <2>1
  <1>8. StorageInv'
    <2>1. Range(queue') \ TimerEvents = Range(queue) \ TimerEvents
      BY <1>3
    <2>2. cur' \in Range(queue') => cur' \notin TimerEvents
      BY <1>0, <1>1, <1>2, <1>7 DEF TimerInv, StorageInv, PoolConserved
    <2>3. \A x \in TimerEvents \cap Range(queue') : state'[x] = "QUEUED" /\ allocator'[x] = "TIMER"
      BY <1>5, <1>6, <1>7 DEF TimerInv, StorageInv, StateAccurate, Ownership
    <2>4. cur' \in TimerEvents => allocator'[cur'] = "TIMER"
      BY <1>1, <1>2, <1>5 DEF TimerInv, StorageInv, Ownership, Storage
    <2>5. \A e \in Storage \ TimerEvents : state'[e] = state[e] /\ allocator'[e] = allocator[e]
      BY <1>5
    <2> QED
      BY <1>2, <1>3, <1>4, <2>1, <2>2, <2>3, <2>4, <2>5, TimersKeepStorage DEF TimerInv
  <1>9. TimerTypeOK'
    BY <1>1, <1>2, <1>3 DEF TimerInv, TimerTypeOK
  <1>10. TimersConserved'
    BY <1>1, <1>2, <1>3 DEF TimerInv, TimersConserved
  <1>11. TimerStates'
    <2>1. \A x \in Range(timerList') : state'[x] = "UNQUEUED"
      <3>1. Range(timerList) \subseteq Storage
        BY DEF TimerInv, TimerTypeOK, Range, Storage
      <3> QED
        BY <1>3, <1>5, <1>6, <3>1 DEF TimerInv, TimerStates
    <2>2. cur' \in TimerEvents => state'[cur'] = IF pc' = "freeing" THEN "UNQUEUED" ELSE "RUNNING"
      BY <1>1, <1>2, <1>5 DEF TimerInv, TimerStates, Storage
    <2> QED
      BY <2>1, <2>2 DEF TimerStates
  <1> QED
    BY <1>8, <1>9, <1>10, <1>11 DEF TimerInv

(* timer_sys_event_free: back to the free list, or launched again.          *)
LEMMA FreeKeepsTimers ==
  ASSUME TimerInv, FreeTimer
  PROVE  TimerInv'
  <1> DEFINE next == NextLaunch(cur)
  <1>0. /\ cur \in Storage /\ cur # NoEvent /\ NoEvent \notin Storage
        /\ PoolEvents \cap TimerEvents = {} /\ HeapCells \cap TimerEvents = {}
        /\ TypeOK /\ IsInjective(queue) /\ pc = "freeing" /\ 0 \in Ids
    BY EventCoreAssumption DEF Ids, FreeTimer, TimerInv, StorageInv, TypeOK, PoolConserved
  <1>1. cur \in TimerEvents
    BY <1>0 DEF FreeTimer, TimerInv, StorageInv, Ownership, Storage
  <1>2. cur \notin Range(timerList) \cup Range(timerFree) \cup Range(queue)
    BY <1>0, <1>1 DEF TimerInv, StorageInv, PoolConserved, TimersConserved
  <1>3. /\ cur' = NoEvent /\ pc' = "idle" /\ currTasklet' = 0
        /\ UNCHANGED <<tasklets, freeEvents, heap, appCells, allocator, data, held,
                       ticks, ticking, timerHeap, period>>
    BY DEF FreeTimer, BackToIdle, storageVars
  <1>4. /\ \/ /\ Range(timerFree') = Range(timerFree) \cup {cur}
              /\ timerList' = timerList /\ queue' = queue /\ state' = state
           \/ /\ Range(queue') = Range(queue) \cup {cur} /\ state' = [state EXCEPT ![cur] = "QUEUED"]
              /\ timerList' = timerList /\ timerFree' = timerFree
           \/ /\ Range(timerList') = Range(timerList) \cup {cur}
              /\ timerFree' = timerFree /\ queue' = queue /\ state' = state
        /\ queue' \in Seq(Storage) /\ IsInjective(queue')
        /\ timerList' \in Seq(TimerEvents) /\ IsInjective(timerList')
        /\ timerFree' \in Seq(TimerEvents) /\ IsInjective(timerFree')
    <2>1. CASE timerFree' = Cons(cur, timerFree) /\ UNCHANGED <<queue, state, timerList>>
      BY <1>0, <1>1, <1>2, <2>1, ConsKeepsDistinct DEF TimerInv, TimerTypeOK, TimersConserved, TypeOK
    <2>2. CASE Enqueue(cur, data[cur].priority) /\ UNCHANGED <<timerFree, timerList>>
      <3>1. cur \in Storage \ Range(queue) /\ data[cur].priority \in Priorities
        BY <1>0, <1>2 DEF TypeOK, Events
      <3> QED
        BY <1>0, <2>2, <3>1, EnqueueFacts DEF TimerInv, TimerTypeOK, TimersConserved
    <2>3. CASE TimerSysAdd(cur, next) /\ UNCHANGED <<queue, state, timerFree>>
      BY <1>0, <1>1, <1>2, <2>3, TimerSysAddFacts DEF TimerInv, TimerTypeOK, TimersConserved, TypeOK
    <2> QED
      BY <2>1, <2>2, <2>3 DEF FreeTimer, queueVars
  <1>5. launch' \in [TimerEvents -> Words]
    <2>1. next \in Words
      BY <1>1, HalfAssumption DEF NextLaunch, TicksPlus, TimerInv, TimerTypeOK, Words, Wrap
    <2> QED
      BY <1>1, <2>1 DEF FreeTimer, TimerInv, TimerTypeOK
  <1> HIDE DEF next
  <1>6. TypeOK'
    BY <1>0, <1>3, <1>4 DEF TypeOK
  <1>7. \A e \in Storage \ {cur} : state'[e] = state[e]
    BY <1>0, <1>4 DEF TypeOK
  <1>8. cur \in Range(queue') => state'[cur] = "QUEUED"
    BY <1>0, <1>2, <1>4 DEF TypeOK
  <1>9. Range(queue') \subseteq Storage /\ Range(queue') \subseteq Range(queue) \cup {cur}
    <2>1. Range(queue') \subseteq Storage
      BY <1>6 DEF TypeOK, Range
    <2> QED
      BY <1>4, <2>1
  <1>10. StorageInv'
    <2>1. Range(queue') \ TimerEvents = Range(queue) \ TimerEvents
      BY <1>1, <1>4
    <2>2. cur' \in Range(queue') => cur' \notin TimerEvents
      BY <1>0, <1>3, <1>9
    <2>3. \A x \in TimerEvents \cap Range(queue') : state'[x] = "QUEUED" /\ allocator'[x] = "TIMER"
      BY <1>1, <1>3, <1>7, <1>8, <1>9 DEF TimerInv, StorageInv, StateAccurate, Ownership
    <2>4. cur' \in TimerEvents => allocator'[cur'] = "TIMER"
      BY <1>0, <1>3 DEF Storage
    <2>5. \A e \in Storage \ TimerEvents : state'[e] = state[e] /\ allocator'[e] = allocator[e]
      BY <1>1, <1>3, <1>7
    <2> QED
      BY <1>1, <1>3, <1>4, <1>6, <2>1, <2>2, <2>3, <2>4, <2>5, TimersKeepStorage DEF TimerInv
  <1>11. TimerTypeOK'
    BY <1>3, <1>4, <1>5 DEF TimerInv, TimerTypeOK
  <1>12. TimersConserved'
    <2>1. NoEvent \notin Range(timerFree') /\ NoEvent \notin Range(timerList') /\ NoEvent \notin TimerEvents
      BY <1>0, <1>4 DEF Range, Storage
    <2> QED
      BY <1>1, <1>2, <1>3, <1>4, <2>1 DEF TimerInv, TimersConserved
  <1>13. TimerStates'
    <2>1. state[cur] = "UNQUEUED" /\ \A x \in Range(timerList) : state[x] = "UNQUEUED"
      BY <1>0, <1>1 DEF TimerInv, TimerStates
    <2>2. \A x \in Range(timerList) : state'[x] = state[x]
      <3>1. Range(timerList) \subseteq Storage
        BY DEF TimerInv, TimerTypeOK, Range, Storage
      <3> QED
        BY <1>2, <1>7, <3>1
    <2>3. cur \in Range(timerList') => state'[cur] = "UNQUEUED"
      BY <1>2, <1>4, <2>1
    <2>4. Range(timerList') \subseteq Range(timerList) \cup {cur}
      BY <1>4
    <2> QED
      BY <1>0, <1>3, <2>1, <2>2, <2>3, <2>4 DEF TimerStates, Storage
  <1> QED
    BY <1>10, <1>11, <1>12, <1>13 DEF TimerInv

(* eventOS_cancel: unlinked from the list the state names, and given back,  *)
(* or left to the dispatcher.                                               *)
LEMMA CancelKeepsTimers ==
  ASSUME TimerInv, NEW t \in TimerEvents, Cancel(t),
         \/ t \in Range(timerList) \cup Range(queue)
         \/ t = cur /\ pc = "running"
  PROVE  TimerInv'
  <1>0. /\ t \in Storage /\ NoEvent \notin Storage /\ HeapCells \cap TimerEvents = {}
        /\ TypeOK /\ IsInjective(queue) /\ 0 \in 0 .. Half - 1
    BY EventCoreAssumption, HalfAssumption DEF Storage, TimerInv, StorageInv, PoolConserved
  <1>1. /\ UNCHANGED <<tasklets, freeEvents, heap, appCells, allocator, data, held, pc, cur, currTasklet,
                       ticks, ticking, timerHeap, launch>>
        /\ period' = [period EXCEPT ![t] = 0]
    BY DEF Cancel, TimerSysEventCancel, storageVars, loopVars
  <1>2. CASE t = cur /\ pc = "running"
    <2>1. state[t] = "RUNNING"
      BY <1>2 DEF TimerInv, TimerStates
    <2>2. UNCHANGED <<queue, state, timerList, timerFree>>
      BY <2>1 DEF Cancel, TimerSysEventCancel
    <2>3. TypeOK' /\ HeldEvents' = HeldEvents
      BY <1>0, <1>1, <2>2 DEF TypeOK, HeldEvents
    <2>4. StorageInv'
      BY <1>1, <2>2, <2>3 DEF TimerInv, StorageInv, PoolConserved, QueuedEventsAllocated, NoHeapLeak,
                              StateAccurate, Ownership, InFlight
    <2>5. TimerTypeOK' /\ TimersConserved' /\ TimerStates'
      BY <1>0, <1>1, <2>2 DEF TimerInv, TimerTypeOK, TimersConserved, TimerStates
    <2> QED
      BY <2>4, <2>5 DEF TimerInv
  <1>3. ASSUME t \in Range(timerList) \cup Range(queue)
        PROVE  TimerInv'
    <2>1. t # cur /\ t \notin Range(timerFree)
      BY <1>0, <1>3 DEF TimerInv, StorageInv, PoolConserved, TimersConserved
    <2>2. state[t] = IF t \in Range(timerList) THEN "UNQUEUED" ELSE "QUEUED"
      BY <1>3 DEF TimerInv, TimerStates, StorageInv, StateAccurate
    <2>3. t \in Range(timerList) => t \notin Range(queue)
      BY DEF TimerInv, TimersConserved
    <2>4. /\ queue' \in Seq(Storage) /\ IsInjective(queue')
          /\ Range(queue') = Range(queue) \ {t}
      <3>1. CASE t \in Range(timerList)
        BY <1>0, <2>2, <2>3, <3>1 DEF Cancel, TypeOK
      <3>2. CASE t \notin Range(timerList)
        BY <1>0, <2>2, <3>2, WithoutFacts DEF Cancel, TypeOK
      <3> QED
        BY <3>1, <3>2
    <2>5. /\ timerList' \in Seq(TimerEvents) /\ IsInjective(timerList')
          /\ Range(timerList') = Range(timerList) \ {t}
      <3>1. timerList \in Seq(TimerEvents) /\ IsInjective(timerList)
        BY DEF TimerInv, TimerTypeOK, TimersConserved
      <3>2. CASE t \in Range(timerList)
        BY <2>2, <3>1, <3>2, WithoutFacts DEF Cancel, TimerSysEventCancel
      <3>3. CASE t \notin Range(timerList)
        BY <2>2, <3>1, <3>3 DEF Cancel, TimerSysEventCancel
      <3> QED
        BY <3>2, <3>3
    <2>6. state' = [state EXCEPT ![t] = "UNQUEUED"] /\ timerFree' = Cons(t, timerFree)
      BY <2>2 DEF Cancel
    <2>7. /\ timerFree' \in Seq(TimerEvents) /\ IsInjective(timerFree')
          /\ Range(timerFree') = Range(timerFree) \cup {t}
      BY <2>1, <2>6, ConsKeepsDistinct DEF TimerInv, TimerTypeOK, TimersConserved
    <2>8. TypeOK'
      BY <1>0, <1>1, <2>4, <2>6 DEF TypeOK
    <2>9. \A e \in Storage \ {t} : state'[e] = state[e]
      BY <1>0, <2>6 DEF TypeOK
    <2>10. Range(queue) \subseteq Storage /\ Range(timerList) \subseteq Storage
      BY <1>0 DEF TimerInv, TimerTypeOK, TypeOK, Range, Storage
    <2>11. StorageInv'
      <3>1. Range(queue') \ TimerEvents = Range(queue) \ TimerEvents
        BY <2>4
      <3>2. cur' \in Range(queue') => cur' \notin TimerEvents
        BY <1>0, <1>1, <2>4 DEF TimerInv, StorageInv, PoolConserved
      <3>3. \A x \in TimerEvents \cap Range(queue') : state'[x] = "QUEUED" /\ allocator'[x] = "TIMER"
        BY <1>1, <2>4, <2>9, <2>10 DEF TimerInv, StorageInv, StateAccurate, Ownership
      <3>4. cur' \in TimerEvents => allocator'[cur'] = "TIMER"
        BY <1>1 DEF TimerInv, StorageInv, Ownership
      <3>5. \A e \in Storage \ TimerEvents : state'[e] = state[e] /\ allocator'[e] = allocator[e]
        BY <1>1, <2>9
      <3> QED
        BY <1>1, <2>4, <2>8, <3>1, <3>2, <3>3, <3>4, <3>5, TimersKeepStorage DEF TimerInv
    <2>12. TimerTypeOK'
      BY <1>0, <1>1, <2>5, <2>7 DEF TimerInv, TimerTypeOK
    <2>13. TimersConserved'
      BY <1>1, <1>3, <2>1, <2>4, <2>5, <2>7 DEF TimerInv, TimersConserved
    <2>14. TimerStates'
      <3>1. \A x \in Range(timerList') : state'[x] = "UNQUEUED"
        BY <2>5, <2>9, <2>10 DEF TimerInv, TimerStates
      <3>2. cur' \in TimerEvents => state'[cur'] = IF pc' = "freeing" THEN "UNQUEUED" ELSE "RUNNING"
        BY <1>1, <2>1, <2>9 DEF TimerInv, TimerStates, Storage
      <3> QED
        BY <3>1, <3>2 DEF TimerStates
    <2> QED
      BY <2>11, <2>12, <2>13, <2>14 DEF TimerInv
  <1> QED
    BY <1>2, <1>3

(* What eventOS_event_timer_cancel finds is pending or queued.              *)
LEMMA CancelTargetFacts ==
  ASSUME TimerInv, NEW id, NEW receiver, CancelTarget(id, receiver) # NoEvent
  PROVE  CancelTarget(id, receiver) \in TimerEvents \cap (Range(timerList) \cup Range(queue))
  <1>0. /\ PoolEvents \cap TimerEvents = {} /\ HeapCells \cap TimerEvents = {}
        /\ queue \in Seq(Storage) /\ timerList \in Seq(TimerEvents)
    BY EventCoreAssumption DEF TimerInv, StorageInv, TypeOK, TimerTypeOK
  <1>1. ASSUME NEW S, NEW list \in Seq(S), FirstMatch(list, id, receiver) # NoEvent
        PROVE  FirstMatch(list, id, receiver) \in Range(list)
    <2> DEFINE found == {i \in DOMAIN list : Matches(list[i], id, receiver)}
    <2>1. found # {} /\ FirstMatch(list, id, receiver) = list[Min(found)]
      BY <1>1 DEF FirstMatch
    <2>2. found \in SUBSET Nat /\ found \subseteq DOMAIN list
      BY <1>1
    <2> HIDE DEF found
    <2>3. Min(found) \in DOMAIN list
      BY <2>1, <2>2, MinNat
    <2> QED
      BY <2>1, <2>3 DEF Range
  <1> DEFINE pending == FirstMatch(timerList, id, receiver)
             queued == FirstMatch(queue, id, receiver)
  <1>2. /\ pending # NoEvent => pending \in Range(timerList)
        /\ queued # NoEvent => queued \in Range(queue)
    BY <1>0, <1>1
  <1>3. \/ pending # NoEvent /\ CancelTarget(id, receiver) = pending
        \/ queued # NoEvent /\ allocator[queued] = "TIMER" /\ CancelTarget(id, receiver) = queued
    BY DEF CancelTarget
  <1> HIDE DEF pending, queued
  <1>4. Range(timerList) \subseteq TimerEvents
    BY <1>0 DEF Range
  <1>5. \A e \in Range(queue) : allocator[e] = "TIMER" => e \in TimerEvents
    BY <1>0 DEF Range, Storage, TimerInv, StorageInv, Ownership
  <1> QED
    BY <1>2, <1>3, <1>4, <1>5

(* The tick interrupt moves the first timer to the queue.                   *)
LEMMA ExpireKeepsTimers ==
  ASSUME TimerInv, TickExpire
  PROVE  TimerInv'
  <1> DEFINE t == Head(timerList)
  <1>0. /\ NoEvent \notin Storage /\ HeapCells \cap TimerEvents = {}
        /\ TypeOK /\ IsInjective(queue)
    BY EventCoreAssumption DEF TimerInv, StorageInv, PoolConserved
  <1>1. /\ t \in TimerEvents /\ t \in Range(timerList)
        /\ timerList' \in Seq(TimerEvents) /\ IsInjective(timerList')
        /\ Range(timerList') = Range(timerList) \ {t}
    BY TailKeepsDistinct DEF TickExpire, HeadIsDue, TimerInv, TimerTypeOK, TimersConserved
  <1>2. /\ Enqueue(t, data[t].priority)
        /\ allocator' = [allocator EXCEPT ![t] = "TIMER"]
        /\ UNCHANGED <<tasklets, freeEvents, heap, appCells, data, held, pc, cur, currTasklet,
                       ticks, ticking, timerFree, timerHeap, launch, period>>
    BY DEF TickExpire, loopVars
  <1> HIDE DEF t
  <1>3. t \in Storage \ Range(queue) /\ data[t].priority \in Priorities /\ t # cur
    BY <1>0, <1>1 DEF TimerInv, TimersConserved, TypeOK, Events, Storage
  <1>4. /\ queue' \in Seq(Storage) /\ IsInjective(queue')
        /\ Range(queue') = Range(queue) \cup {t}
        /\ state' = [state EXCEPT ![t] = "QUEUED"]
    BY <1>0, <1>2, <1>3, EnqueueFacts
  <1>5. TypeOK'
    BY <1>0, <1>2, <1>3, <1>4 DEF TypeOK
  <1>6. /\ state'[t] = "QUEUED" /\ allocator'[t] = "TIMER"
        /\ \A e \in Storage \ {t} : state'[e] = state[e] /\ allocator'[e] = allocator[e]
    BY <1>0, <1>2, <1>3, <1>4 DEF TypeOK
  <1>7. Range(queue) \subseteq Storage /\ Range(timerList) \subseteq Storage
    BY <1>0 DEF TimerInv, TimerTypeOK, TypeOK, Range, Storage
  <1>8. StorageInv'
    <2>1. Range(queue') \ TimerEvents = Range(queue) \ TimerEvents
      BY <1>1, <1>4
    <2>2. cur' \in Range(queue') => cur' \notin TimerEvents
      BY <1>0, <1>2, <1>3, <1>4 DEF TimerInv, StorageInv, PoolConserved
    <2>3. \A x \in TimerEvents \cap Range(queue') : state'[x] = "QUEUED" /\ allocator'[x] = "TIMER"
      BY <1>4, <1>6, <1>7 DEF TimerInv, StorageInv, StateAccurate, Ownership
    <2>4. cur' \in TimerEvents => allocator'[cur'] = "TIMER"
      BY <1>2, <1>3, <1>6 DEF TimerInv, StorageInv, Ownership, Storage
    <2>5. \A e \in Storage \ TimerEvents : state'[e] = state[e] /\ allocator'[e] = allocator[e]
      BY <1>1, <1>6
    <2> QED
      BY <1>2, <1>4, <1>5, <2>1, <2>2, <2>3, <2>4, <2>5, TimersKeepStorage DEF TimerInv
  <1>9. TimerTypeOK'
    BY <1>1, <1>2 DEF TimerInv, TimerTypeOK
  <1>10. TimersConserved'
    BY <1>1, <1>2, <1>3, <1>4 DEF TimerInv, TimersConserved
  <1>11. TimerStates'
    BY <1>1, <1>2, <1>3, <1>6, <1>7 DEF TimerInv, TimerStates, Storage
  <1> QED
    BY <1>8, <1>9, <1>10, <1>11 DEF TimerInv

LEMMA InitTimerInv == LoopInit => TimerInv
  <1> SUFFICES ASSUME LoopInit PROVE TimerInv
    OBVIOUS
  <1>1. StorageInv
    BY InitStorageInv DEF LoopInit
  <1>2. /\ timerFree \in Seq(StaticTimers) /\ Range(timerFree) = StaticTimers /\ IsInjective(timerFree)
        /\ StaticTimers \subseteq TimerEvents
    BY EnumerationFacts, EventLoopAssumption DEF LoopInit
  <1>3. /\ timerList = <<>> /\ Range(timerList) = {} /\ IsInjective(timerList)
        /\ Range(queue) = {} /\ cur = NoEvent /\ NoEvent \notin TimerEvents /\ timerHeap = {}
    BY EventCoreAssumption DEF LoopInit, Init, Range, IsInjective, Storage
  <1>4. TimerTypeOK
    <2>1. timerFree \in Seq(TimerEvents)
      BY <1>2, SeqMonotonic
    <2>2. 0 \in Words /\ 0 \in 0 .. Half - 1
      BY HalfAssumption DEF Words, Wrap
    <2>3. launch = [t \in TimerEvents |-> 0] /\ period = [t \in TimerEvents |-> 0]
      BY DEF LoopInit
    <2>4. launch \in [TimerEvents -> Words] /\ period \in [TimerEvents -> 0 .. Half - 1]
      BY <2>2, <2>3
    <2>5. ticks = 0 /\ ticking = FALSE
      BY DEF LoopInit
    <2>6. timerList \in Seq(TimerEvents) /\ timerHeap \subseteq TimerEvents \ StaticTimers
      BY <1>3
    <2> QED
      BY <2>1, <2>2, <2>4, <2>5, <2>6 DEF TimerTypeOK
  <1>5. TimersConserved
    BY <1>2, <1>3 DEF TimersConserved
  <1>6. TimerStates
    BY <1>3 DEF TimerStates
  <1> QED
    BY <1>1, <1>4, <1>5, <1>6 DEF TimerInv

(* The arithmetic of launch times stays within the word.                    *)
LEMMA TicksPlusType == \A a \in Words, n \in Int : TicksPlus(a, n) \in Words
  BY HalfAssumption DEF TicksPlus, Words, Wrap

(* A call of system_timer_tick_update counts a uint32_t.                    *)
LEMMA TickStepsNat == TickSteps \subseteq Nat \ {0}
  BY HalfAssumption, EventLoopAssumption DEF Words, Wrap

(* Every request is one of RequestWith.                                     *)
LEMMA RequestsKeepTimers ==
  ASSUME TimerInv, NEW ev \in Sends,
         \/ \E at \in Instants : RequestAt(ev, at)
         \/ \E in \in Delays : RequestIn(ev, in)
         \/ \E every \in Periods : RequestEvery(ev, every)
         \/ \E ms \in Millis : Request(ev, ms)
  PROVE  TimerInv'
  <1>0. /\ Half \in Nat \ {0} /\ ev \in Events /\ ticks \in Words
        /\ Instants \subseteq Words /\ Delays \subseteq Int /\ Periods \subseteq 1 .. Half - 1
        /\ Millis \subseteq Nat
    BY HalfAssumption, EventLoopAssumption, SendsAssumption DEF TimerInv, TimerTypeOK
  <1>1. ASSUME NEW e \in Events, NEW at \in Words, NEW every \in 0 .. Half - 1,
               RequestTimer(e, at, every)
        PROVE  TimerInv'
    BY <1>1, RequestKeepsTimers DEF RequestTimer
  <1>2. ASSUME NEW at \in Instants, RequestAt(ev, at)
        PROVE  TimerInv'
    BY <1>0, <1>1, <1>2 DEF RequestAt
  <1>3. ASSUME NEW in \in Delays, RequestIn(ev, in)
        PROVE  TimerInv'
    BY <1>0, <1>1, <1>3, TicksPlusType DEF RequestIn
  <1>4. ASSUME NEW every \in Periods, RequestEvery(ev, every)
        PROVE  TimerInv'
    BY <1>0, <1>1, <1>4, TicksPlusType DEF RequestEvery
  <1>5. ASSUME NEW ms \in Millis, Request(ev, ms)
        PROVE  TimerInv'
    <2>1. LegacyTicks(ms) \in Int
      BY <1>0 DEF LegacyTicks, TickPeriod
    <2>2. [ev EXCEPT !.priority = Medium] \in Events
      BY <1>0 DEF Events, Priorities
    <2> QED
      BY <1>0, <1>1, <1>5, <2>1, <2>2, TicksPlusType DEF Request
  <1> QED
    BY <1>2, <1>3, <1>4, <1>5

(* Counting, in whatever steps, moves no timer.                             *)
LEMMA CounterKeepsTimers ==
  ASSUME TimerInv, UNCHANGED <<coreVars, timerList, timerFree, timerHeap, launch, period>>,
         ticks' \in Words, ticking' \in BOOLEAN
  PROVE  TimerInv'
  <1>1. StorageInv'
    BY OthersKeepStorage, StepTypeOK DEF TimerInv, StorageInv
  <1> QED
    BY <1>1 DEF TimerInv, TimerTypeOK, TimersConserved, TimerStates,
                coreVars, queueVars, loopVars

LEMMA AdvanceKeepsTimers ==
  ASSUME TimerInv, NEW n \in Int, TickAdvance(n)
  PROVE  TimerInv'
  <1>1. TicksPlus(ticks, n) \in Words
    BY TicksPlusType DEF TimerInv, TimerTypeOK
  <1> QED
    BY <1>1, CounterKeepsTimers DEF TickAdvance

(* No step of the composition breaks the invariant, provided that handlers  *)
(* leave the events they are given alone, and that no periodic timer is     *)
(* cancelled while its event is on the way back to the timer list.          *)
LEMMA StepTimerInv ==
  ASSUME ~ HandlerMayInvalidate, ~ CancelWhileFreeing
  PROVE  TimerInv /\ [LoopNext]_vars => TimerInv'
  <1> SUFFICES ASSUME TimerInv, [LoopNext]_vars
               PROVE  TimerInv'
    OBVIOUS
  <1>1. CASE CoreLoopStep \/ CoreApiCall \/ \E a \in Callers : CoreWrite(a)
    BY <1>1, CoreKeepsTimers DEF CoreLoopStep, CoreApiCall, CoreWrite
  <1>2. CASE FreeTimer
    BY <1>2, FreeKeepsTimers
  <1>3. ASSUME NEW t \in TimerEvents, EventCancel(t)
        PROVE  TimerInv'
    BY <1>3, CancelKeepsTimers DEF EventCancel, ValidPointer
  <1>4. ASSUME NEW id \in EventIds, NEW receiver \in Ids, EventTimerCancel(id, receiver)
        PROVE  TimerInv'
    BY <1>4, CancelTargetFacts, CancelKeepsTimers DEF EventTimerCancel
  <1>5. CASE TimerCall
    BY <1>3, <1>4, <1>5, RequestsKeepTimers DEF TimerCall
  <1>6. CASE TickExpire
    BY <1>6, ExpireKeepsTimers
  <1>7. ASSUME NEW n \in TickSteps, TickAdvance(n)
        PROVE  TimerInv'
    BY <1>7, TickStepsNat, AdvanceKeepsTimers
  <1>8. CASE TickDone \/ UNCHANGED vars
    BY <1>8, CounterKeepsTimers DEF TickDone, vars, timerVars, TimerInv, TimerTypeOK
  <1> QED
    BY <1>1, <1>2, <1>5, <1>6, <1>7, <1>8 DEF LoopNext, Tick

(* The state follows the lists, so what timer_sys_event_cancel_critical     *)
(* concludes from the state is right.                                       *)
LEMMA StatesTellLists ==
  ASSUME ~ CancelWhileFreeing, TimerInv
  PROVE  UnqueuedIsOnTimerList
  <1> SUFFICES ASSUME NEW t \in TimerEvents, ValidPointer(t)
               PROVE  state[t] = "UNQUEUED" <=> t \in Range(timerList)
    BY DEF UnqueuedIsOnTimerList
  <1>1. CASE t \in Range(timerList)
    BY <1>1 DEF TimerInv, TimerStates
  <1>2. CASE t \in Range(queue)
    BY <1>2 DEF TimerInv, TimersConserved, StorageInv, StateAccurate
  <1>3. CASE t = cur /\ pc = "running"
    BY <1>3 DEF TimerInv, TimersConserved, TimerStates
  <1> QED
    BY <1>1, <1>2, <1>3 DEF ValidPointer

(* The types of system_timer.c's state hold in every behaviour.             *)
THEOREM TimersTyped ==
  ASSUME ~ HandlerMayInvalidate, ~ CancelWhileFreeing
  PROVE  LoopSpec => []TimerTypeOK
  <1>1. TimerInv /\ [LoopNext]_vars => TimerInv'
    BY StepTimerInv
  <1>2. TimerInv => TimerTypeOK
    BY DEF TimerInv
  <1> QED
    BY InitTimerInv, <1>1, <1>2, PTL DEF LoopSpec

(* Requests, ticks, deliveries, cancellations and restarts of periodic      *)
(* timers, however they interleave, neither lose a timer nor link it twice. *)
THEOREM TimersNeverLost ==
  ASSUME ~ HandlerMayInvalidate, ~ CancelWhileFreeing
  PROVE  LoopSpec => []TimersConserved
  <1>1. TimerInv /\ [LoopNext]_vars => TimerInv'
    BY StepTimerInv
  <1>2. TimerInv => TimersConserved
    BY DEF TimerInv
  <1> QED
    BY InitTimerInv, <1>1, <1>2, PTL DEF LoopSpec

(* A timer whose pointer is valid is on the timer list if and only if its   *)
(* state says so, whenever eventOS_cancel may look.                         *)
THEOREM StateNamesTheList ==
  ASSUME ~ HandlerMayInvalidate, ~ CancelWhileFreeing
  PROVE  LoopSpec => []UnqueuedIsOnTimerList
  <1>1. TimerInv /\ [LoopNext]_vars => TimerInv'
    BY StepTimerInv
  <1>2. TimerInv => UnqueuedIsOnTimerList
    BY StatesTellLists
  <1> QED
    BY InitTimerInv, <1>1, <1>2, PTL DEF LoopSpec

(* With the timers in place event storage is as safe as in event.c alone:   *)
(* StorageSafe holds of the composition.                                    *)
THEOREM StorageSafeWithTimers ==
  ASSUME ~ HandlerMayInvalidate, ~ CancelWhileFreeing
  PROVE  LoopSpec => [](PoolConserved /\ QueuedEventsAllocated /\ NoHeapLeak /\ StateAccurate)
  <1>1. TimerInv /\ [LoopNext]_vars => TimerInv'
    BY StepTimerInv
  <1>2. TimerInv => PoolConserved /\ QueuedEventsAllocated /\ NoHeapLeak /\ StateAccurate
    BY DEF TimerInv, StorageInv
  <1> QED
    BY InitTimerInv, <1>1, <1>2, PTL DEF LoopSpec

-----------------------------------------------------------------------------
(* The order of the timer list.                                             *)

(* The signed difference of two words is their difference, up to a wrap.    *)
LEMMA TicksUntilFacts ==
  ASSUME NEW a \in Words, NEW b \in Words
  PROVE  /\ TicksUntil(a, b) \in -Half .. Half - 1
         /\ \/ a - b = TicksUntil(a, b)
            \/ a - b = TicksUntil(a, b) + Wrap
            \/ a - b = TicksUntil(a, b) - Wrap
  <1>0. Half \in Nat \ {0} /\ Wrap = 2 * Half /\ Wrap \in Nat \ {0}
    BY HalfAssumption DEF Wrap
  <1>1. a \in 0 .. Wrap - 1 /\ b \in 0 .. Wrap - 1
    BY DEF Words
  <1>2. CASE a >= b
    <2>1. (a - b) % Wrap = a - b
      BY <1>0, <1>1, <1>2
    <2> QED
      BY <1>0, <1>1, <1>2, <2>1 DEF TicksUntil, Signed
  <1>3. CASE a < b
    <2>1. (a - b) % Wrap = a - b + Wrap
      BY <1>0, <1>1, <1>3
    <2> QED
      BY <1>0, <1>1, <1>3, <2>1 DEF TicksUntil, Signed
  <1> QED
    BY <1>0, <1>1, <1>2, <1>3

(* Of two launch times to come the earlier one is TICKS_BEFORE the other.   *)
LEMMA TicksBeforeIsEarlier ==
  ASSUME NEW a \in Words, NEW b \in Words, NEW now \in Words,
         TicksUntil(a, now) > 0, TicksUntil(b, now) > 0
  PROVE  TicksBefore(a, b) <=> TicksUntil(a, now) < TicksUntil(b, now)
  <1>0. Half \in Nat \ {0} /\ Wrap = 2 * Half /\ a \in Int /\ b \in Int /\ now \in Int
    BY HalfAssumption DEF Wrap, Words
  <1> QED
    BY <1>0, TicksUntilFacts DEF TicksBefore

(* n ticks bring a launch time nearer by n, unless that is too long ago.    *)
LEMMA TicksUntilAfter ==
  ASSUME NEW a \in Words, NEW now \in Words, NEW n \in Nat, TicksUntil(a, now) - n >= -Half
  PROVE  TicksUntil(a, TicksPlus(now, n)) = TicksUntil(a, now) - n
  <1>0. Half \in Nat \ {0} /\ Wrap = 2 * Half /\ now \in 0 .. Wrap - 1 /\ a \in Int
    BY HalfAssumption DEF Wrap, Words
  <1>1. TicksUntil(a, now) \in -Half .. Half - 1
    BY TicksUntilFacts
  <1>2. n < Wrap
    BY <1>0, <1>1
  <1>3. TicksPlus(now, n) = now + n \/ TicksPlus(now, n) = now + n - Wrap
    <2>1. CASE now + n < Wrap
      BY <1>0, <1>2, <2>1 DEF TicksPlus
    <2>2. CASE now + n >= Wrap
      BY <1>0, <1>2, <2>2 DEF TicksPlus
    <2> QED
      BY <1>0, <2>1, <2>2
  <1>4. TicksPlus(now, n) \in Words
    BY TicksPlusType
  <1>5. /\ TicksUntil(a, TicksPlus(now, n)) \in -Half .. Half - 1
        /\ \/ a - TicksPlus(now, n) = TicksUntil(a, TicksPlus(now, n))
           \/ a - TicksPlus(now, n) = TicksUntil(a, TicksPlus(now, n)) + Wrap
           \/ a - TicksPlus(now, n) = TicksUntil(a, TicksPlus(now, n)) - Wrap
    BY <1>4, TicksUntilFacts
  <1>6. \/ a - now = TicksUntil(a, now)
        \/ a - now = TicksUntil(a, now) + Wrap
        \/ a - now = TicksUntil(a, now) - Wrap
    BY TicksUntilFacts
  <1> QED
    BY <1>0, <1>1, <1>2, <1>3, <1>5, <1>6

(* timer_sys_add puts a launch time to come where it belongs: before the    *)
(* first timer that is due later.                                           *)
DueOf == [x \in TimerEvents |-> Due(x)]

LEMMA AddByDue ==
  ASSUME TimerInv, TimerListInOrder, ~ ticking,
         NEW t \in TimerEvents \ Range(timerList), NEW at \in Words,
         ~ TicksBeforeOrAt(at, ticks), TimerSysAdd(t, at),
         launch' = [launch EXCEPT ![t] = at], UNCHANGED <<ticks, ticking>>
  PROVE  /\ DueOf' \in [TimerEvents -> Int] /\ DueOf'[t] = TicksUntil(at, ticks) /\ DueOf'[t] > 0
         /\ \A x \in Range(timerList) : DueOf'[x] = Due(x) /\ DueOf'[x] > 0
         /\ SortedBy(timerList, DueOf')
         /\ timerList' = InsertBefore(timerList, {i \in DOMAIN timerList : DueOf'[timerList[i]] > DueOf'[t]}, t)
  <1>k. PICK key : key = [x \in TimerEvents |-> TicksUntil(launch'[x], ticks)]
    OBVIOUS
  <1> DEFINE Stops == {i \in DOMAIN timerList : TicksBefore(at, launch[timerList[i]])}
             Later == {i \in DOMAIN timerList : key[timerList[i]] > key[t]}
  <1>0. /\ timerList \in Seq(TimerEvents) /\ IsInjective(timerList)
        /\ launch \in [TimerEvents -> Words] /\ launch' \in [TimerEvents -> Words] /\ ticks \in Words
        /\ Half \in Nat \ {0}
    BY HalfAssumption DEF TimerInv, TimerTypeOK, TimersConserved
  <1>1. timerList' = InsertBefore(timerList, Stops, t)
    BY DEF TimerSysAdd
  <1>2. key \in [TimerEvents -> Int] /\ key[t] = TicksUntil(at, ticks) /\ key[t] > 0
    <2>1. \A x \in TimerEvents : TicksUntil(launch'[x], ticks) \in Int
      BY <1>0, TicksUntilFacts
    <2> QED
      BY <1>k, <1>0, <2>1 DEF TicksBeforeOrAt
  <1>3. \A x \in Range(timerList) : key[x] = Due(x) /\ key[x] > 0
    <2> SUFFICES ASSUME NEW x \in Range(timerList)
                 PROVE  key[x] = Due(x) /\ key[x] > 0
      OBVIOUS
    <2>1. x \in TimerEvents /\ x # t
      BY <1>0 DEF Range
    <2>2. launch'[x] = launch[x] /\ Due(x) > 0
      BY <1>0, <2>1 DEF TimerListInOrder
    <2> QED
      BY <1>k, <2>1, <2>2 DEF Due
  <1>4. \A i \in DOMAIN timerList : timerList[i] \in TimerEvents /\ timerList[i] \in Range(timerList)
    BY <1>0 DEF Range
  <1>5. Stops = Later
    <2> SUFFICES ASSUME NEW i \in DOMAIN timerList
                 PROVE  TicksBefore(at, launch[timerList[i]]) <=> key[timerList[i]] > key[t]
      OBVIOUS
    <2>1. /\ launch[timerList[i]] \in Words /\ TicksUntil(at, ticks) > 0
          /\ TicksUntil(launch[timerList[i]], ticks) = key[timerList[i]]
          /\ key[timerList[i]] > 0 /\ key[timerList[i]] \in Int
      BY <1>0, <1>2, <1>3, <1>4 DEF Due
    <2>2. TicksBefore(at, launch[timerList[i]]) <=> TicksUntil(at, ticks) < key[timerList[i]]
      BY <1>0, <2>1, TicksBeforeIsEarlier
    <2> QED
      BY <1>2, <2>1, <2>2
  <1>6. SortedBy(timerList, key)
    <2> SUFFICES ASSUME NEW i \in DOMAIN timerList, NEW j \in DOMAIN timerList, i < j
                 PROVE  key[timerList[i]] <= key[timerList[j]]
      BY DEF SortedBy
    <2>1. Due(timerList[i]) <= Due(timerList[j])
      BY DEF TimerListInOrder
    <2> QED
      BY <1>3, <1>4, <2>1
  <1>7. DueOf' = key
    BY <1>k DEF DueOf, Due
  <1> QED
    BY <1>1, <1>2, <1>3, <1>5, <1>6, <1>7

LEMMA AddKeepsOrder ==
  ASSUME TimerInv, TimerListInOrder, ~ ticking,
         NEW t \in TimerEvents \ Range(timerList), NEW at \in Words,
         ~ TicksBeforeOrAt(at, ticks), TimerSysAdd(t, at),
         launch' = [launch EXCEPT ![t] = at], UNCHANGED <<ticks, ticking>>
  PROVE  TimerListInOrder'
  <1>1. /\ DueOf' \in [TimerEvents -> Int] /\ DueOf'[t] > 0
        /\ \A x \in Range(timerList) : DueOf'[x] > 0
        /\ SortedBy(timerList, DueOf')
        /\ timerList' = InsertBefore(timerList,
                                     {i \in DOMAIN timerList : DueOf'[timerList[i]] > DueOf'[t]}, t)
    BY AddByDue
  <1>2. timerList \in Seq(TimerEvents) /\ IsInjective(timerList)
    BY DEF TimerInv, TimerTypeOK, TimersConserved
  <1>3. SortedBy(timerList', DueOf')
    BY <1>1, <1>2, InsertKeepsSorted
  <1>4. timerList' \in Seq(TimerEvents) /\ Range(timerList') = Range(timerList) \cup {t}
    BY <1>2, TimerSysAddFacts
  <1>5. \A i \in DOMAIN timerList' : timerList'[i] \in TimerEvents
    BY <1>4
  <1>6. \A x \in Range(timerList') : DueOf'[x] > 0 /\ x \in TimerEvents
    <2>1. Range(timerList') \subseteq TimerEvents
      BY <1>4 DEF Range
    <2> QED
      BY <1>1, <1>4, <2>1
  <1>7. \A x \in TimerEvents : DueOf'[x] = Due(x)'
    BY DEF DueOf
  <1> QED
    BY <1>3, <1>5, <1>6, <1>7 DEF SortedBy, TimerListInOrder

(* A list that loses timers stays in order.                                 *)
LEMMA RemoveKeepsOrder ==
  ASSUME TimerInv, TimerListInOrder, NEW e, timerList' = Without(timerList, e),
         UNCHANGED <<launch, ticks, ticking>>
  PROVE  TimerListInOrder'
  <1> DEFINE key == [x \in TimerEvents |-> TicksUntil(launch[x], ticks)]
  <1>0. /\ timerList \in Seq(TimerEvents) /\ IsInjective(timerList)
        /\ launch \in [TimerEvents -> Words] /\ ticks \in Words /\ Half \in Nat \ {0}
    BY HalfAssumption DEF TimerInv, TimerTypeOK, TimersConserved
  <1>1. key \in [TimerEvents -> Int]
    <2>1. \A x \in TimerEvents : TicksUntil(launch[x], ticks) \in Int
      BY <1>0, TicksUntilFacts
    <2> QED
      BY <2>1
  <1>2. \A x \in TimerEvents : key[x] = TicksUntil(launch[x], ticks)
    OBVIOUS
  <1>3. \A i \in DOMAIN timerList : timerList[i] \in TimerEvents
    BY <1>0
  <1> HIDE DEF key
  <1>4. SortedBy(timerList, key)
    BY <1>2, <1>3 DEF SortedBy, TimerListInOrder, Due
  <1>5. SortedBy(timerList', key)
    <2>1. CASE e \in Range(timerList)
      <3> DEFINE i == CHOOSE j \in DOMAIN timerList : timerList[j] = e
      <3>1. i \in DOMAIN timerList
        BY <2>1 DEF Range
      <3>2. timerList' = RemoveAt(timerList, i)
        BY <2>1 DEF Without
      <3> HIDE DEF i
      <3>3. i \in 1 .. Len(timerList)
        BY <3>1
      <3> QED
        BY <1>0, <1>1, <1>4, <3>2, <3>3, RemoveKeepsSorted
    <2>2. CASE e \notin Range(timerList)
      BY <1>4, <2>2 DEF Without
    <2> QED
      BY <2>1, <2>2
  <1>6. timerList' \in Seq(TimerEvents) /\ Range(timerList') \subseteq Range(timerList)
    BY <1>0, WithoutFacts
  <1>7. \A i \in DOMAIN timerList' : timerList'[i] \in TimerEvents
    BY <1>6
  <1> QED
    BY <1>2, <1>5, <1>6, <1>7 DEF SortedBy, TimerListInOrder, Due

(* Counting, in whatever steps, leaves the order as it is.                  *)
LEMMA AdvanceKeepsOrder ==
  ASSUME TimerInv, TimerListInOrder, NEW n \in Nat, TickAdvance(n)
  PROVE  TimerListInOrder'
  <1>1. /\ launch \in [TimerEvents -> Words] /\ ticks \in Words
        /\ Half \in Nat \ {0} /\ MaxLag \in 0 .. Half
        /\ Range(timerList) \subseteq TimerEvents
        /\ \A i \in DOMAIN timerList : timerList[i] \in Range(timerList)
        /\ \A x \in Range(timerList) : Due(x) \in Int
    BY HalfAssumption, EventLoopAssumption, TicksUntilFacts
       DEF TimerInv, TimerTypeOK, Range, Due
  <1>2. /\ UNCHANGED <<timerList, launch>> /\ ticking' = TRUE /\ ticks' = TicksPlus(ticks, n)
        /\ \A x \in Range(timerList) : Due(x) - n >= -MaxLag
    BY DEF TickAdvance, Live
  <1>3. ASSUME NEW x \in Range(timerList)
        PROVE  TicksUntil(launch'[x], ticks') = Due(x) - n
    <2>1. launch[x] \in Words /\ n \in Nat /\ TicksUntil(launch[x], ticks) - n >= -Half
      BY <1>1, <1>2, <1>3 DEF Due
    <2> QED
      BY <1>1, <1>2, <2>1, TicksUntilAfter DEF Due
  <1> SUFFICES ASSUME NEW i \in DOMAIN timerList, NEW j \in DOMAIN timerList, i < j
               PROVE  TicksUntil(launch'[timerList[i]], ticks') <= TicksUntil(launch'[timerList[j]], ticks')
    BY <1>2 DEF TimerListInOrder, Due
  <1>4. /\ timerList[i] \in Range(timerList) /\ timerList[j] \in Range(timerList)
        /\ Due(timerList[i]) <= Due(timerList[j])
    BY <1>1 DEF TimerListInOrder
  <1>5. /\ TicksUntil(launch'[timerList[i]], ticks') = Due(timerList[i]) - n
        /\ TicksUntil(launch'[timerList[j]], ticks') = Due(timerList[j]) - n
    BY <1>3, <1>4
  <1>6. Due(timerList[i]) \in Int /\ Due(timerList[j]) \in Int /\ n \in Int
    BY <1>1, <1>4
  <1> QED
    BY <1>4, <1>5, <1>6

(* The tick interrupt takes timers off the front.                           *)
LEMMA TickKeepsOrder ==
  ASSUME TimerInv, TimerListInOrder, Tick
  PROVE  TimerListInOrder'
  <1>0. /\ timerList \in Seq(TimerEvents) /\ IsInjective(timerList)
        /\ launch \in [TimerEvents -> Words] /\ ticks \in Words
        /\ Half \in Nat \ {0} /\ MaxLag \in 0 .. Half /\ TickSteps \subseteq Nat
        /\ Range(timerList) \subseteq TimerEvents
        /\ \A i \in DOMAIN timerList : timerList[i] \in Range(timerList)
    BY HalfAssumption, TickStepsNat, EventLoopAssumption DEF TimerInv, TimerTypeOK, TimersConserved, Range
  <1>1. \A x \in Range(timerList) : Due(x) \in Int
    BY <1>0, TicksUntilFacts DEF Due
  <1>2. ASSUME NEW n \in TickSteps, TickAdvance(n)
        PROVE  TimerListInOrder'
    BY <1>2, TickStepsNat, AdvanceKeepsOrder
  <1>3. CASE TickExpire
    <2>1. /\ timerList # <<>> /\ timerList' = Tail(timerList) /\ ticking /\ ticking' = ticking
          /\ UNCHANGED <<launch, ticks>>
      BY <1>3 DEF TickExpire, HeadIsDue
    <2>2. \A i \in DOMAIN timerList' :
            i + 1 \in DOMAIN timerList /\ i \in Int /\ timerList'[i] = timerList[i + 1]
      BY <1>0, <2>1
    <2> SUFFICES ASSUME NEW i \in DOMAIN timerList', NEW j \in DOMAIN timerList', i < j
                 PROVE  Due(timerList[i + 1]) <= Due(timerList[j + 1])
      BY <2>1, <2>2 DEF TimerListInOrder, Due
    <2>3. i + 1 \in DOMAIN timerList /\ j + 1 \in DOMAIN timerList /\ i + 1 < j + 1
      BY <2>2
    <2> QED
      BY <2>3 DEF TimerListInOrder
  <1>4. CASE TickDone
    <2>1. UNCHANGED <<timerList, launch, ticks>> /\ ticking' = FALSE /\ ~ HeadIsDue
      BY <1>4 DEF TickDone
    <2>2. ASSUME NEW x \in Range(timerList)
          PROVE  Due(x) > 0
      <3>1. PICK j \in DOMAIN timerList : timerList[j] = x
        BY <2>2 DEF Range
      <3>2. /\ timerList # <<>> /\ 1 \in DOMAIN timerList /\ Head(timerList) = timerList[1]
            /\ j \in Nat /\ j >= 1
        BY <1>0, <3>1
      <3>3. ~ (Due(timerList[1]) <= 0)
        BY <2>1, <3>2 DEF HeadIsDue, TicksBeforeOrAt, Due
      <3>4. Due(timerList[1]) <= Due(x)
        <4>1. CASE j = 1
          BY <1>0, <1>1, <3>1, <3>2, <4>1
        <4>2. CASE 1 < j
          BY <3>1, <3>2, <4>2 DEF TimerListInOrder
        <4> QED
          BY <3>2, <4>1, <4>2
      <3>5. Due(timerList[1]) \in Int /\ Due(x) \in Int
        BY <1>0, <1>1, <2>2, <3>2
      <3> QED
        BY <3>3, <3>4, <3>5
    <2> QED
      BY <2>1, <2>2 DEF TimerListInOrder, Due
  <1> QED
    BY <1>2, <1>3, <1>4, Zenon DEF Tick

(* No step of the composition puts the list out of order or leaves a due    *)
(* timer on it.                                                             *)
LEMMA StepTimerListInOrder ==
  ASSUME TimerInv, TimerListInOrder, [LoopNext]_vars
  PROVE  TimerListInOrder'
  <1>0. /\ launch \in [TimerEvents -> Words] /\ ticks \in Words /\ NoEvent \notin TimerEvents
        /\ Range(timerList) \subseteq TimerEvents
        /\ \A i \in DOMAIN timerList : timerList[i] \in Range(timerList)
    BY EventCoreAssumption DEF TimerInv, TimerTypeOK, Range, Storage
  <1>1. ASSUME UNCHANGED <<timerList, ticks, ticking>>,
               \A x \in Range(timerList) : launch'[x] = launch[x]
        PROVE  TimerListInOrder'
    BY <1>0, <1>1 DEF TimerListInOrder, Due
  <1>2. CASE CoreLoopStep \/ CoreApiCall \/ (\E a \in Callers : CoreWrite(a)) \/ UNCHANGED vars
    BY <1>1, <1>2 DEF CoreLoopStep, CoreApiCall, CoreWrite, vars, timerVars
  <1>3. CASE FreeTimer
    <2> DEFINE next == NextLaunch(cur)
    <2>1. cur \in TimerEvents /\ cur \notin Range(timerList)
      <3>1. cur \in Storage /\ allocator[cur] = "TIMER"
        BY <1>3, EventCoreAssumption DEF FreeTimer, TimerInv, StorageInv, TypeOK
      <3> QED
        BY <3>1 DEF TimerInv, StorageInv, Ownership, Storage, TimersConserved
    <2>2. next \in Words
      BY <1>0, <2>1, HalfAssumption DEF NextLaunch, TicksPlus, TimerInv, TimerTypeOK, Words, Wrap
    <2>3. UNCHANGED <<ticks, ticking>> /\ ~ ticking
      BY <1>3 DEF FreeTimer
    <2>4. CASE launch' = launch /\ timerList' = timerList
      BY <1>1, <2>3, <2>4
    <2>5. CASE launch' = [launch EXCEPT ![cur] = next] /\ timerList' = timerList
      BY <1>0, <1>1, <2>1, <2>3, <2>5
    <2>6. CASE /\ launch' = [launch EXCEPT ![cur] = next]
               /\ ~ TicksBeforeOrAt(next, ticks) /\ TimerSysAdd(cur, next)
      BY <2>1, <2>2, <2>3, <2>6, AddKeepsOrder
    <2> QED
      BY <1>3, <2>4, <2>5, <2>6 DEF FreeTimer
  <1>4. ASSUME NEW t \in TimerEvents, Cancel(t)
        PROVE  TimerListInOrder'
    <2>1. /\ timerList' = Without(timerList, t) \/ timerList' = timerList
          /\ UNCHANGED <<launch, ticks, ticking>>
      BY <1>4 DEF Cancel, TimerSysEventCancel
    <2> QED
      BY <1>1, <2>1, RemoveKeepsOrder
  <1>5. ASSUME NEW t \in TimerEvents, NEW ev, NEW at \in Words, NEW every, RequestWith(t, ev, at, every)
        PROVE  TimerListInOrder'
    <2>1. t \notin Range(timerList)
      BY <1>5, TimerStructGetFacts DEF RequestWith
    <2>2. launch' = [launch EXCEPT ![t] = at] /\ UNCHANGED <<ticks, ticking>> /\ ~ ticking
      BY <1>5 DEF RequestWith
    <2>3. CASE timerList' = timerList
      BY <1>0, <1>1, <2>1, <2>2, <2>3
    <2>4. CASE ~ TicksBeforeOrAt(at, ticks) /\ TimerSysAdd(t, at)
      BY <2>1, <2>2, <2>4, AddKeepsOrder
    <2> QED
      BY <1>5, <2>3, <2>4 DEF RequestWith
  <1>6. CASE \E ev \in Sends : \/ \E at \in Instants : RequestAt(ev, at)
                               \/ \E in \in Delays : RequestIn(ev, in)
                               \/ \E every \in Periods : RequestEvery(ev, every)
                               \/ \E ms \in Millis : Request(ev, ms)
    <2>1. ASSUME NEW ev, NEW at \in Words, NEW every, RequestTimer(ev, at, every)
          PROVE  TimerListInOrder'
      BY <1>5, <2>1 DEF RequestTimer
    <2>2. /\ \A ms \in Millis : LegacyTicks(ms) \in Int
          /\ Instants \subseteq Words /\ Delays \subseteq Int /\ Periods \subseteq Int
      BY EventLoopAssumption, HalfAssumption DEF LegacyTicks, TickPeriod
    <2> QED
      BY <1>0, <1>6, <2>1, <2>2, TicksPlusType DEF RequestAt, RequestIn, RequestEvery, Request
  <1>7. CASE TimerCall
    <2>1. ASSUME NEW id \in EventIds, NEW receiver \in Ids, EventTimerCancel(id, receiver)
          PROVE  TimerListInOrder'
      BY <1>4, <2>1, CancelTargetFacts DEF EventTimerCancel
    <2>2. ASSUME NEW t \in TimerEvents, EventCancel(t)
          PROVE  TimerListInOrder'
      BY <1>4, <2>2 DEF EventCancel
    <2> QED
      BY <1>6, <1>7, <2>1, <2>2 DEF TimerCall
  <1> QED
    BY <1>2, <1>3, <1>7, TickKeepsOrder DEF LoopNext

(* The timer list is in order of launch across every wrap of the counter,   *)
(* and once the tick interrupt has returned nothing due is left on it.      *)
THEOREM TimersInOrder ==
  ASSUME ~ HandlerMayInvalidate, ~ CancelWhileFreeing
  PROVE  LoopSpec => []TimerListInOrder
  <1>1. LoopInit => TimerInv /\ TimerListInOrder
    <2>1. LoopInit => TimerListInOrder
      BY DEF LoopInit, TimerListInOrder, Range
    <2> QED
      BY <2>1, InitTimerInv
  <1>2. (TimerInv /\ TimerListInOrder) /\ [LoopNext]_vars => (TimerInv /\ TimerListInOrder)'
    BY StepTimerInv, StepTimerListInOrder
  <1> QED
    BY <1>1, <1>2, PTL DEF LoopSpec
=============================================================================
