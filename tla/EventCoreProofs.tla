--------------------------- MODULE EventCoreProofs ---------------------------
(***************************************************************************)
(* Theorems about event.c, for any number of handlers, events and callers. *)
(***************************************************************************)
EXTENDS EventCore, ListFacts, FiniteSetTheorems

-----------------------------------------------------------------------------
(* Helpers. *)

(* tasklet_get_free_id returns an unused id, or -1 when there is none.      *)
LEMMA FreeIdFacts ==
  /\ TaskletGetFreeId \in Ids
  /\ TaskletGetFreeId # -1 => TaskletGetFreeId \in 0 .. MaxId /\ ~ HandlerExists(TaskletGetFreeId)
  /\ TaskletGetFreeId = -1 => \A i \in 0 .. MaxId : HandlerExists(i)
  <1> DEFINE unused == {i \in 0 .. MaxId : ~ HandlerExists(i)}
  <1>1. TaskletGetFreeId = IF unused = {} THEN -1 ELSE Min(unused)
    BY DEF TaskletGetFreeId
  <1>2. MaxId \in Nat
    BY EventCoreAssumption
  <1>3. CASE unused = {}
    BY <1>1, <1>2, <1>3 DEF Ids
  <1>4. CASE unused # {}
    <2>1. unused \in SUBSET Nat
      BY <1>2
    <2>2. Min(unused) \in unused
      BY <1>4, <2>1, MinNat
    <2> QED
      BY <1>1, <1>2, <1>4, <2>2 DEF Ids
  <1> QED
    BY <1>3, <1>4

(* event_core_write puts e on the queue and changes nothing else about it.  *)
LEMMA QueueBeforeFacts ==
  ASSUME TypeOK, NEW e \in Storage, NEW p \in Priorities
  PROVE  /\ QueueBefore(e, p) \in Seq(Storage)
         /\ Range(QueueBefore(e, p)) = Range(queue) \cup {e}
         /\ IsInjective(queue) /\ e \notin Range(queue) => IsInjective(QueueBefore(e, p))
  <1> DEFINE Stops == {i \in DOMAIN queue : data[queue[i]].priority > p}
  <1>1. queue \in Seq(Storage) /\ Stops \in SUBSET (1 .. Len(queue))
    BY DEF TypeOK
  <1>2. QueueBefore(e, p) = InsertBefore(queue, Stops, e)
    BY DEF QueueBefore
  <1> HIDE DEF Stops
  <1>3. /\ InsertBefore(queue, Stops, e) \in Seq(Storage)
        /\ \E i \in 1 .. Len(queue) + 1 : InsertBefore(queue, Stops, e) = InsertAt(queue, i, e)
    BY <1>1, InsertBeforeFacts
  <1>4. PICK i \in 1 .. Len(queue) + 1 : InsertBefore(queue, Stops, e) = InsertAt(queue, i, e)
    BY <1>3
  <1> QED
    BY <1>1, <1>2, <1>3, <1>4, InsertKeepsDistinct

-----------------------------------------------------------------------------
(* Type correctness. *)

LEMMA InitTypeOK == Init => TypeOK
  <1> SUFFICES ASSUME Init PROVE TypeOK
    OBVIOUS
  <1>1. freeEvents \in Seq(Storage)
    <2>1. SetToSeq(PoolEvents) \in Seq(PoolEvents)
      BY EnumerationFacts, EventCoreAssumption
    <2> QED
      BY <2>1, SeqMonotonic DEF Init, Storage
  <1>2. 0 \in Ids /\ NoEvent \notin Storage
    BY EventCoreAssumption DEF Ids
  <1>3. queue \in Seq(Storage)
    BY DEF Init
  <1>4. DOMAIN tasklets = {}
    BY DEF Init
  <1>5. data \in [Storage -> Events]
    BY <1>2, EventCoreAssumption DEF Init, Events, Priorities, High
  <1> QED
    BY <1>1, <1>2, <1>3, <1>4, <1>5 DEF Init, TypeOK

(* A step of event_core_get keeps the types of what it changes.             *)
LEMMA EventCoreGetType ==
  ASSUME TypeOK, NEW a \in Callers, NEW ev \in Events, EventCoreGet(a, ev)
  PROVE  /\ freeEvents' \in Seq(Storage)
         /\ heap' \subseteq HeapCells /\ appCells' = appCells
         /\ allocator' \in [Storage -> {"STARTUP_POOL", "DYNAMIC", "USER", "TIMER"}]
         /\ data' \in [Storage -> Events]
         /\ held' \in [Callers -> Storage \cup {NoEvent}]
  <1>1. CASE freeEvents # <<>> /\ freeEvents' = Tail(freeEvents)
             /\ held' = [held EXCEPT ![a] = Head(freeEvents)]
             /\ data' = [data EXCEPT ![Head(freeEvents)] = ev]
             /\ UNCHANGED <<heap, allocator>>
    <2>1. Head(freeEvents) \in Storage /\ Tail(freeEvents) \in Seq(Storage)
      BY <1>1, HeadTailProperties DEF TypeOK
    <2> QED
      BY <1>1, <2>1 DEF TypeOK, EventCoreGet
  <1>2. ASSUME NEW c \in HeapCells \ heap,
               heap' = heap \cup {c}, allocator' = [allocator EXCEPT ![c] = "DYNAMIC"],
               held' = [held EXCEPT ![a] = c], data' = [data EXCEPT ![c] = ev],
               UNCHANGED freeEvents
        PROVE  /\ freeEvents' \in Seq(Storage)
               /\ heap' \subseteq HeapCells /\ appCells' = appCells
               /\ allocator' \in [Storage -> {"STARTUP_POOL", "DYNAMIC", "USER", "TIMER"}]
               /\ data' \in [Storage -> Events]
               /\ held' \in [Callers -> Storage \cup {NoEvent}]
    BY <1>2 DEF TypeOK, EventCoreGet, Storage
  <1> QED
    BY <1>1, <1>2 DEF EventCoreGet

(* Every step keeps the types.                                              *)
LEMMA StepTypeOK == TypeOK /\ [Next]_coreVars => TypeOK'
  <1> SUFFICES ASSUME TypeOK, [Next]_coreVars
               PROVE  TypeOK'
    OBVIOUS
  <1>0. NoEvent \notin Storage /\ MaxId \in Nat /\ 0 \in Ids /\ Sends \subseteq Events
    BY EventCoreAssumption, SendsAssumption DEF Ids
  <1>1. ASSUME NEW f \in Handlers, HandlerCreate(f)
        PROVE  TypeOK'
    <2> DEFINE ev == [receiver |-> TaskletGetFreeId, id |-> 0, priority |-> Low]
    <2>1. TaskletGetFreeId \in Ids
      BY FreeIdFacts
    <2>2. ev \in Events
      BY <2>1, EventCoreAssumption DEF Events, Priorities, Low
    <2>3. EventCoreGet(Loop, ev) /\ Loop \in Callers
      BY <1>1, EventCoreAssumption DEF HandlerCreate
    <2> HIDE DEF ev
    <2>4. /\ freeEvents' \in Seq(Storage)
          /\ heap' \subseteq HeapCells /\ appCells' = appCells
          /\ allocator' \in [Storage -> {"STARTUP_POOL", "DYNAMIC", "USER", "TIMER"}]
          /\ data' \in [Storage -> Events]
          /\ held' \in [Callers -> Storage \cup {NoEvent}]
      BY <2>2, <2>3, EventCoreGetType
    <2>5. DOMAIN tasklets' \subseteq Handlers /\ \A g \in DOMAIN tasklets' : tasklets'[g] \in Ids
      BY <1>1, <2>1 DEF HandlerCreate, TypeOK
    <2> QED
      BY <1>1, <2>4, <2>5 DEF HandlerCreate, TypeOK, queueVars, loopVars
  <1>2. ASSUME NEW a \in Callers, NEW ev \in Sends, EventSend(a, ev)
        PROVE  TypeOK'
    <2>1. /\ freeEvents' \in Seq(Storage)
          /\ heap' \subseteq HeapCells /\ appCells' = appCells
          /\ allocator' \in [Storage -> {"STARTUP_POOL", "DYNAMIC", "USER", "TIMER"}]
          /\ data' \in [Storage -> Events]
          /\ held' \in [Callers -> Storage \cup {NoEvent}]
      BY <1>0, <1>2, EventCoreGetType DEF EventSend
    <2> QED
      BY <1>2, <2>1 DEF EventSend, TypeOK, queueVars, loopVars
  <1>3. ASSUME NEW c \in HeapCells, AppAlloc(c)
        PROVE  TypeOK'
    BY <1>3 DEF AppAlloc, TypeOK, Storage, queueVars, loopVars
  <1>4. ASSUME NEW c \in HeapCells, AppFree(c)
        PROVE  TypeOK'
    BY <1>4 DEF AppFree, TypeOK, queueVars, loopVars
  <1>5. ASSUME NEW c \in HeapCells, NEW ev \in Sends, SendUserAllocated(c, ev)
        PROVE  TypeOK'
    <2>1. c \in Storage /\ ev.priority \in Priorities /\ ev \in Events
      BY <1>0 DEF Storage, Events
    <2>2. queue' \in Seq(Storage)
      BY <1>5, <2>1, QueueBeforeFacts DEF SendUserAllocated, Enqueue
    <2> QED
      BY <1>5, <2>1, <2>2 DEF SendUserAllocated, Enqueue, TypeOK, loopVars
  <1>6. ASSUME NEW i \in DOMAIN queue, CancelUser(i)
        PROVE  TypeOK'
    <2>1. i \in 1 .. Len(queue) /\ queue[i] \in Storage
      BY DEF TypeOK
    <2>2. queue' \in Seq(Storage)
      BY <1>6, <2>1, RemoveAtFacts DEF CancelUser, TypeOK
    <2>3. appCells' \subseteq Storage
      BY <1>6, <2>1 DEF CancelUser, TypeOK
    <2> QED
      BY <1>6, <2>2, <2>3 DEF CancelUser, TypeOK, loopVars
  <1>7. ASSUME NEW id \in Ids, SetActiveTasklet(id)
        PROVE  TypeOK'
    BY <1>7 DEF SetActiveTasklet, TypeOK, queueVars, storageVars
  <1>8. ASSUME NEW a \in Callers, EventCoreWrite(a)
        PROVE  TypeOK'
    <2>1. held[a] \in Storage /\ data[held[a]].priority \in Priorities
      BY <1>8 DEF EventCoreWrite, TypeOK, Events
    <2>2. queue' \in Seq(Storage)
      BY <1>8, <2>1, QueueBeforeFacts DEF EventCoreWrite, Enqueue
    <2> QED
      BY <1>8, <2>1, <2>2 DEF EventCoreWrite, Enqueue, TypeOK, loopVars
  <1>9. CASE Dispatch
    <2>1. Head(queue) \in Storage /\ Tail(queue) \in Seq(Storage)
      BY <1>9, HeadTailProperties DEF Dispatch, TypeOK
    <2>2. data[Head(queue)].receiver \in Ids
      BY <2>1 DEF TypeOK, Events
    <2>3. appCells' \subseteq Storage
      BY <1>9, <2>1 DEF Dispatch, TypeOK
    <2>4. pc' \in {"running", "crashed"}
      BY <1>9 DEF Dispatch
    <2> QED
      BY <1>0, <1>9, <2>1, <2>2, <2>3, <2>4 DEF Dispatch, TypeOK
  <1>10. CASE DispatchNothing
    BY <1>0, <1>10 DEF DispatchNothing, TypeOK, queueVars, storageVars
  <1>11. CASE ReturnUser
    BY <1>0, <1>11 DEF ReturnUser, BackToIdle, TypeOK, queueVars, storageVars
  <1>12. CASE ReturnDynamic
    BY <1>0, <1>12 DEF ReturnDynamic, BackToIdle, TypeOK, queueVars
  <1>13. CASE ReturnMark
    BY <1>0, <1>13 DEF ReturnMark, HandlerReturned, TypeOK, storageVars
  <1>14. CASE FreePool
    <2>1. cur \in Storage
      BY <1>14 DEF FreePool, TypeOK
    <2>2. freeEvents' \in Seq(Storage)
      BY <1>14, <2>1, ConsKeepsDistinct DEF FreePool, TypeOK
    <2> QED
      BY <1>0, <1>14, <2>2 DEF FreePool, BackToIdle, TypeOK, queueVars
  <1>15. CASE UNCHANGED coreVars
    BY <1>15 DEF TypeOK, coreVars, queueVars, storageVars, loopVars
  <1> QED
    BY <1>1, <1>2, <1>3, <1>4, <1>5, <1>6, <1>7, <1>8, <1>9, <1>10, <1>11, <1>12, <1>13, <1>14,
       <1>15 DEF Next, LoopStep, ApiCall

(* The types of event.c's state hold in every behaviour.                    *)
THEOREM TypeCorrect == Spec => []TypeOK
  BY InitTypeOK, StepTypeOK, PTL DEF Spec

-----------------------------------------------------------------------------
(* Where events are.                                                        *)

LEMMA InitStorageInv == Init => StorageInv
  <1> SUFFICES ASSUME Init PROVE StorageInv
    OBVIOUS
  <1>1. TypeOK
    BY InitTypeOK
  <1>2. Range(freeEvents) = PoolEvents /\ IsInjective(freeEvents)
    BY EnumerationFacts, EventCoreAssumption DEF Init
  <1>3. Range(queue) = {} /\ IsInjective(queue)
    BY DEF Init, Range, IsInjective
  <1>4. HeldEvents = {} /\ cur = NoEvent /\ heap = {} /\ appCells = {} /\ NoEvent \notin Storage
    BY EventCoreAssumption DEF Init, HeldEvents
  <1>5. PoolConserved
    BY <1>2, <1>3, <1>4 DEF PoolConserved, InFlight, Storage, Init
  <1>6. QueuedEventsAllocated /\ NoHeapLeak
    BY <1>3, <1>4 DEF QueuedEventsAllocated, NoHeapLeak
  <1>7. StateAccurate
    BY <1>3, <1>4 DEF StateAccurate, Init, Storage
  <1>8. Ownership
    BY <1>2, <1>3, <1>4 DEF Ownership, Init, Storage
  <1> QED
    BY <1>1, <1>5, <1>6, <1>7, <1>8 DEF StorageInv

(* event_core_get moves storage from the pool or the heap to the sender.    *)
LEMMA GetKeepsStorage ==
  ASSUME StorageInv, TypeOK', NEW a \in Callers, NEW ev \in Events, EventCoreGet(a, ev),
         UNCHANGED <<queueVars, loopVars>>
  PROVE  StorageInv'
  <1> USE DEF queueVars, loopVars
  <1>0. /\ queue' = queue /\ state' = state /\ pc' = pc /\ cur' = cur
        /\ appCells' = appCells /\ held[a] = NoEvent
        /\ NoEvent \notin Storage
        /\ PoolEvents \cap HeapCells = {} /\ TimerEvents \cap HeapCells = {}
        /\ PoolEvents \cap TimerEvents = {}
    BY EventCoreAssumption DEF EventCoreGet
  <1>1. ASSUME freeEvents # <<>>, freeEvents' = Tail(freeEvents),
               held' = [held EXCEPT ![a] = Head(freeEvents)],
               UNCHANGED <<heap, allocator>>
        PROVE  StorageInv'
    <2> DEFINE e == Head(freeEvents)
    <2>1. /\ e \in Range(freeEvents) /\ e \in PoolEvents
          /\ Range(freeEvents') = Range(freeEvents) \ {e}
          /\ IsInjective(freeEvents')
      BY <1>1, TailKeepsDistinct DEF StorageInv, TypeOK, PoolConserved, Ownership
    <2>2. held' = [held EXCEPT ![a] = e]
      BY <1>1
    <2> HIDE DEF e
    <2>3. e # NoEvent /\ e \notin InFlight
      BY <1>0, <2>1 DEF StorageInv, PoolConserved, Storage
    <2>4. HeldEvents' = HeldEvents \cup {e}
      BY <1>0, <2>2, <2>3 DEF HeldEvents, StorageInv, TypeOK
    <2>5. PoolConserved'
      BY <1>0, <2>1, <2>2, <2>3, <2>4 DEF PoolConserved, StorageInv, InFlight, TypeOK, HeldEvents
    <2>6. QueuedEventsAllocated'
      BY <1>0, <1>1, <2>1, <2>4 DEF QueuedEventsAllocated, StorageInv, Ownership, TypeOK
    <2>7. NoHeapLeak'
      BY <1>0, <1>1, <2>4 DEF NoHeapLeak, StorageInv, InFlight
    <2>8. StateAccurate'
      BY <1>0 DEF StateAccurate, StorageInv
    <2>9. Ownership'
      BY <1>0, <1>1, <2>1, <2>2, <2>4 DEF Ownership, StorageInv, TypeOK
    <2> QED
      BY <2>5, <2>6, <2>7, <2>8, <2>9 DEF StorageInv
  <1>2. ASSUME NEW c \in HeapCells \ heap,
               heap' = heap \cup {c}, allocator' = [allocator EXCEPT ![c] = "DYNAMIC"],
               held' = [held EXCEPT ![a] = c], UNCHANGED freeEvents
        PROVE  StorageInv'
    <2>1. c \in Storage /\ c # NoEvent /\ c \notin InFlight /\ c \notin appCells
      BY <1>0, <1>2 DEF StorageInv, QueuedEventsAllocated, Ownership, InFlight, Storage
    <2>2. HeldEvents' = HeldEvents \cup {c}
      BY <1>0, <1>2, <2>1 DEF HeldEvents, StorageInv, TypeOK
    <2>3. PoolConserved'
      BY <1>0, <1>2, <2>1, <2>2 DEF PoolConserved, StorageInv, InFlight, TypeOK, HeldEvents, Ownership
    <2>4. QueuedEventsAllocated'
      BY <1>0, <1>2, <2>1, <2>2 DEF QueuedEventsAllocated, StorageInv
    <2>5. NoHeapLeak'
      BY <1>0, <1>2, <2>2 DEF NoHeapLeak, StorageInv, InFlight
    <2>6. StateAccurate'
      BY <1>0 DEF StateAccurate, StorageInv
    <2>7. Ownership'
      BY <1>0, <1>2, <2>1, <2>2 DEF Ownership, StorageInv, TypeOK, InFlight, HeldEvents
    <2> QED
      BY <2>3, <2>4, <2>5, <2>6, <2>7 DEF StorageInv
  <1> QED
    BY <1>1, <1>2 DEF EventCoreGet

(* event_core_write moves it from the sender to the queue.                  *)
LEMMA WriteKeepsStorage ==
  ASSUME StorageInv, TypeOK', NEW a \in Callers, EventCoreWrite(a)
  PROVE  StorageInv'
  <1> DEFINE e == held[a]
  <1>0. /\ freeEvents' = freeEvents /\ heap' = heap /\ appCells' = appCells
        /\ allocator' = allocator /\ pc' = pc /\ cur' = cur
        /\ e \in Storage /\ e # NoEvent /\ e \in HeldEvents
        /\ held' = [held EXCEPT ![a] = NoEvent]
        /\ state' = [state EXCEPT ![e] = "QUEUED"]
        /\ PoolEvents \cap HeapCells = {} /\ TimerEvents \cap HeapCells = {}
        /\ PoolEvents \cap TimerEvents = {} /\ NoEvent \notin Storage
    BY EventCoreAssumption DEF EventCoreWrite, Enqueue, StorageInv, TypeOK, HeldEvents, loopVars
  <1>1. /\ e \notin Range(queue) /\ e \notin Range(freeEvents) /\ e # cur
        /\ IsInjective(queue)
    BY <1>0 DEF StorageInv, PoolConserved, InFlight
  <1>2. Range(queue)' = Range(queue) \cup {e} /\ IsInjective(queue')
    <2>1. data[e].priority \in Priorities
      BY <1>0 DEF StorageInv, TypeOK, Events
    <2>2. queue' = QueueBefore(e, data[e].priority)
      BY DEF EventCoreWrite, Enqueue
    <2> HIDE DEF e
    <2> QED
      BY <1>0, <1>1, <2>1, <2>2, QueueBeforeFacts DEF StorageInv
  <1>3. HeldEvents' = HeldEvents \ {e}
    BY <1>0 DEF HeldEvents, StorageInv, TypeOK, PoolConserved
  <1> HIDE DEF e
  <1>4. PoolConserved'
    BY <1>0, <1>1, <1>2, <1>3 DEF PoolConserved, StorageInv, InFlight, TypeOK
  <1>5. QueuedEventsAllocated'
    BY <1>0, <1>1, <1>2, <1>3 DEF QueuedEventsAllocated, StorageInv
  <1>6. NoHeapLeak'
    BY <1>0, <1>2, <1>3 DEF NoHeapLeak, StorageInv, InFlight
  <1>7. StateAccurate'
    BY <1>0, <1>1, <1>2 DEF StateAccurate, StorageInv, TypeOK, Storage
  <1>8. Ownership'
    <2>1. e \in HeapCells => allocator[e] = "DYNAMIC"
      BY <1>0 DEF StorageInv, Ownership, HeldEvents
    <2>2. e \notin TimerEvents
      BY <1>0 DEF StorageInv, Ownership
    <2>3. \A b \in Callers : held'[b] \in HeapCells => allocator'[held'[b]] = "DYNAMIC"
      <3>1. \A b \in Callers : held'[b] = held[b] \/ held'[b] = NoEvent
        BY <1>0 DEF StorageInv, TypeOK
      <3> QED
        BY <1>0, <3>1 DEF Ownership, StorageInv, Storage
    <2>4. HeldEvents' \cap TimerEvents = {}
      BY <1>3 DEF Ownership, StorageInv
    <2>5. \A x \in TimerEvents \cap (Range(queue') \cup {cur'}) : allocator'[x] = "TIMER"
      BY <1>0, <1>2, <2>2 DEF Ownership, StorageInv
    <2>6. \A c \in HeapCells \cap (Range(queue') \cup {cur'}) : allocator'[c] \in {"DYNAMIC", "USER"}
      BY <1>0, <1>2, <2>1 DEF Ownership, StorageInv
    <2>7. cur' \in HeapCells /\ allocator'[cur'] = "DYNAMIC" => cur' \notin appCells' \cup Range(queue')
      BY <1>0, <1>1, <1>2 DEF Ownership, StorageInv
    <2>8. cur' \in HeapCells /\ allocator'[cur'] = "USER" => cur' \in appCells' \cup Range(queue')
      BY <1>0, <1>2 DEF Ownership, StorageInv
    <2> QED
      BY <1>0, <2>3, <2>4, <2>5, <2>6, <2>7, <2>8 DEF Ownership, StorageInv
  <1> QED
    BY <1>4, <1>5, <1>6, <1>7, <1>8 DEF StorageInv

(* The application takes, sends, withdraws and frees its own blocks.        *)
LEMMA AppKeepsStorage ==
  ASSUME StorageInv, TypeOK', ~ HandlerMayInvalidate,
         \/ \E c \in HeapCells : AppAlloc(c) \/ AppFree(c)
         \/ \E c \in HeapCells, ev \in Sends : SendUserAllocated(c, ev)
         \/ \E i \in DOMAIN queue : CancelUser(i)
  PROVE  StorageInv'
  <1>0. /\ NoEvent \notin Storage
        /\ PoolEvents \cap HeapCells = {} /\ TimerEvents \cap HeapCells = {}
        /\ PoolEvents \cap TimerEvents = {}
    BY EventCoreAssumption
  <1>1. ASSUME NEW c \in HeapCells, AppAlloc(c)
        PROVE  StorageInv'
    <2>1. /\ c \notin heap /\ heap' = heap \cup {c} /\ appCells' = appCells \cup {c}
          /\ UNCHANGED <<queue, state, freeEvents, allocator, held, pc, cur>>
      BY <1>1 DEF AppAlloc, queueVars, loopVars
    <2>2. c \notin InFlight
      BY <1>0, <2>1 DEF StorageInv, QueuedEventsAllocated, Ownership, InFlight
    <2>3. HeldEvents' = HeldEvents
      BY <2>1 DEF HeldEvents
    <2>4. PoolConserved' /\ StateAccurate'
      BY <2>1, <2>3 DEF PoolConserved, StateAccurate, StorageInv, InFlight
    <2>5. QueuedEventsAllocated' /\ NoHeapLeak'
      BY <2>1, <2>2, <2>3 DEF QueuedEventsAllocated, NoHeapLeak, StorageInv, InFlight
    <2>6. Ownership'
      BY <2>1, <2>2, <2>3 DEF Ownership, StorageInv, InFlight
    <2> QED
      BY <2>4, <2>5, <2>6 DEF StorageInv
  <1>2. ASSUME NEW c \in HeapCells, AppFree(c)
        PROVE  StorageInv'
    <2>1. /\ c \in appCells /\ c # cur /\ heap' = heap \ {c} /\ appCells' = appCells \ {c}
          /\ UNCHANGED <<queue, state, freeEvents, allocator, held, pc, cur>>
      BY <1>2 DEF AppFree, queueVars, loopVars
    <2>2. c \notin InFlight
      BY <1>0, <2>1 DEF StorageInv, QueuedEventsAllocated, InFlight
    <2>3. HeldEvents' = HeldEvents
      BY <2>1 DEF HeldEvents
    <2>4. PoolConserved' /\ StateAccurate'
      BY <2>1, <2>3 DEF PoolConserved, StateAccurate, StorageInv, InFlight
    <2>5. QueuedEventsAllocated' /\ NoHeapLeak'
      BY <2>1, <2>2, <2>3 DEF QueuedEventsAllocated, NoHeapLeak, StorageInv, InFlight
    <2>6. Ownership'
      BY <2>1, <2>2, <2>3 DEF Ownership, StorageInv, InFlight
    <2> QED
      BY <2>4, <2>5, <2>6 DEF StorageInv
  <1>3. ASSUME NEW c \in HeapCells, NEW ev \in Sends, SendUserAllocated(c, ev)
        PROVE  StorageInv'
    <2>1. /\ c \in appCells /\ appCells' = appCells \ {c} /\ c \in Storage
          /\ allocator' = [allocator EXCEPT ![c] = "USER"]
          /\ state' = [state EXCEPT ![c] = "QUEUED"]
          /\ UNCHANGED <<freeEvents, heap, held, pc, cur>>
      BY <1>3 DEF SendUserAllocated, Enqueue, loopVars, Storage
    <2>2. /\ c \in heap /\ c \notin Range(queue) /\ c \notin HeldEvents /\ c \notin Range(freeEvents)
          /\ c \notin PoolEvents /\ c \notin TimerEvents
      BY <1>0, <2>1 DEF StorageInv, QueuedEventsAllocated, Ownership
    <2>3. HeldEvents' = HeldEvents
      BY <2>1 DEF HeldEvents
    <2>4. Range(queue)' = Range(queue) \cup {c} /\ IsInjective(queue')
      <3>1. ev.priority \in Priorities
        BY SendsAssumption DEF Events
      <3>2. queue' = QueueBefore(c, ev.priority) /\ IsInjective(queue)
        BY <1>3 DEF SendUserAllocated, Enqueue, StorageInv, PoolConserved
      <3> QED
        BY <2>1, <2>2, <3>1, <3>2, QueueBeforeFacts DEF StorageInv
    <2>5. PoolConserved'
      BY <1>0, <2>1, <2>2, <2>3, <2>4 DEF PoolConserved, StorageInv, InFlight
    <2>6. QueuedEventsAllocated' /\ NoHeapLeak'
      BY <2>1, <2>2, <2>3, <2>4 DEF QueuedEventsAllocated, NoHeapLeak, StorageInv, InFlight
    <2>7. StateAccurate'
      BY <2>1, <2>2, <2>4 DEF StateAccurate, StorageInv, TypeOK, Storage
    <2>8. Ownership'
      <3>1. \A x \in Storage : x # c => allocator'[x] = allocator[x]
        BY <2>1 DEF StorageInv, TypeOK
      <3>2. allocator'[c] = "USER"
        BY <2>1 DEF StorageInv, TypeOK
      <3>3. \A b \in Callers : held'[b] \in HeapCells => held'[b] # c /\ allocator'[held'[b]] = "DYNAMIC"
        BY <1>0, <2>1, <2>2, <3>1 DEF Ownership, StorageInv, HeldEvents, Storage
      <3>4. cur' = c => cur' \in Range(queue')
        BY <2>1, <2>4
      <3>5. cur' \in HeapCells /\ cur' # c =>
              /\ allocator'[cur'] = allocator[cur]
              /\ cur' \in appCells' <=> cur \in appCells
              /\ cur' \in Range(queue') <=> cur \in Range(queue)
        BY <2>1, <2>4, <3>1 DEF Storage
      <3>6. /\ \A x \in PoolEvents : allocator'[x] = "STARTUP_POOL"
            /\ \A x \in TimerEvents \cap (Range(queue') \cup {cur'}) : allocator'[x] = "TIMER"
            /\ \A x \in HeapCells \cap (Range(queue') \cup {cur'}) : allocator'[x] \in {"DYNAMIC", "USER"}
        BY <2>1, <2>2, <2>4, <3>1, <3>2 DEF Ownership, StorageInv, Storage
      <3>7. /\ appCells' \subseteq heap' /\ Range(freeEvents') \subseteq PoolEvents
            /\ HeldEvents' \cap TimerEvents = {}
            /\ pc' = "freeing" => cur' \notin HeapCells
            /\ cur' \in HeapCells => cur' \in heap'
        BY <2>1, <2>3 DEF Ownership, StorageInv
      <3>8. cur' \in HeapCells /\ allocator'[cur'] = "DYNAMIC" => cur' \notin appCells' \cup Range(queue')
        <4>1. CASE cur' = c
          BY <3>2, <4>1
        <4>2. CASE cur' # c
          BY <2>1, <3>5, <4>2 DEF Ownership, StorageInv
        <4> QED
          BY <4>1, <4>2
      <3>9. cur' \in HeapCells /\ allocator'[cur'] = "USER" => cur' \in appCells' \cup Range(queue')
        <4>1. CASE cur' = c
          BY <3>4, <4>1
        <4>2. CASE cur' # c
          BY <2>1, <3>5, <4>2 DEF Ownership, StorageInv
        <4> QED
          BY <4>1, <4>2
      <3> QED
        BY <3>3, <3>6, <3>7, <3>8, <3>9 DEF Ownership
    <2> QED
      BY <2>5, <2>6, <2>7, <2>8 DEF StorageInv
  <1>4. ASSUME NEW i \in DOMAIN queue, CancelUser(i)
        PROVE  StorageInv'
    <2> DEFINE c == queue[i]
    <2>1. i \in 1 .. Len(queue) /\ c \in Range(queue) /\ c \in Storage
      BY DEF StorageInv, TypeOK, Range
    <2>2. /\ allocator[c] = "USER" /\ appCells' = appCells \cup {c}
          /\ UNCHANGED <<state, freeEvents, heap, allocator, held, pc, cur>>
      BY <1>4 DEF CancelUser, loopVars
    <2>3. Range(queue)' = Range(queue) \ {c} /\ IsInjective(queue')
      BY <1>4, <2>1, RemoveKeepsDistinct DEF CancelUser, StorageInv, TypeOK, PoolConserved
    <2> HIDE DEF c
    <2>4. c \in HeapCells /\ c \in heap /\ c \notin HeldEvents
      BY <1>0, <2>1, <2>2 DEF StorageInv, Ownership, Storage, QueuedEventsAllocated, PoolConserved
    <2>5. HeldEvents' = HeldEvents
      BY <2>2 DEF HeldEvents
    <2>6. PoolConserved' /\ StateAccurate'
      BY <1>0, <2>2, <2>3, <2>4, <2>5 DEF PoolConserved, StateAccurate, StorageInv, InFlight
    <2>7. QueuedEventsAllocated' /\ NoHeapLeak'
      BY <2>2, <2>3, <2>4, <2>5 DEF QueuedEventsAllocated, NoHeapLeak, StorageInv, InFlight
    <2>8. Ownership'
      BY <2>2, <2>3, <2>4, <2>5 DEF Ownership, StorageInv
    <2> QED
      BY <2>6, <2>7, <2>8 DEF StorageInv
  <1> QED
    BY <1>1, <1>2, <1>3, <1>4

(* event_core_read moves the first event from the queue to the dispatcher.  *)
LEMMA DispatchKeepsStorage ==
  ASSUME StorageInv, TypeOK', Dispatch
  PROVE  StorageInv'
  <1> DEFINE e == Head(queue)
  <1>0. /\ NoEvent \notin Storage
        /\ PoolEvents \cap HeapCells = {} /\ TimerEvents \cap HeapCells = {}
        /\ PoolEvents \cap TimerEvents = {}
    BY EventCoreAssumption
  <1>1. /\ e \in Range(queue) /\ e \in Storage
        /\ Range(queue)' = Range(queue) \ {e} /\ IsInjective(queue')
    BY TailKeepsDistinct DEF Dispatch, StorageInv, TypeOK, PoolConserved
  <1>2. /\ cur = NoEvent /\ cur' = e /\ pc' \in {"running", "crashed"}
        /\ state' = [state EXCEPT ![e] = "RUNNING"]
        /\ appCells' = IF allocator[e] = "USER" THEN appCells \cup {e} ELSE appCells
        /\ UNCHANGED <<freeEvents, heap, allocator, held>>
    BY DEF Dispatch, StorageInv, TypeOK
  <1> HIDE DEF e
  <1>3. e \notin Range(freeEvents) /\ e \notin HeldEvents
    BY <1>1 DEF StorageInv, PoolConserved, InFlight
  <1>4. HeldEvents' = HeldEvents
    BY <1>2 DEF HeldEvents
  <1>5. e \in HeapCells => e \in heap /\ e \notin appCells /\ allocator[e] \in {"DYNAMIC", "USER"}
    BY <1>1 DEF StorageInv, QueuedEventsAllocated, Ownership
  <1>6. allocator[e] = "USER" => e \in HeapCells
    BY <1>1 DEF StorageInv, Ownership, Storage
  <1>7. InFlight' \cup {NoEvent} = InFlight
    BY <1>1, <1>2, <1>4 DEF InFlight
  <1>8. PoolConserved'
    <2>1. Range(freeEvents') \cap InFlight' = {} /\ PoolEvents \subseteq Range(freeEvents') \cup InFlight'
      BY <1>0, <1>2, <1>7 DEF PoolConserved, StorageInv, Storage
    <2> QED
      BY <1>1, <1>2, <1>3, <1>4, <2>1 DEF PoolConserved, StorageInv
  <1>9. QueuedEventsAllocated'
    BY <1>1, <1>2, <1>3, <1>4 DEF QueuedEventsAllocated, StorageInv
  <1>10. NoHeapLeak'
    <2>1. heap \in SUBSET Storage
      BY DEF StorageInv, TypeOK, Storage
    <2> QED
      BY <1>0, <1>2, <1>7, <2>1 DEF NoHeapLeak, StorageInv
  <1>11. StateAccurate'
    BY <1>0, <1>1, <1>2 DEF StateAccurate, StorageInv, TypeOK, Storage
  <1>12. Ownership'
    BY <1>0, <1>1, <1>2, <1>4, <1>5, <1>6 DEF Ownership, StorageInv
  <1> QED
    BY <1>8, <1>9, <1>10, <1>11, <1>12 DEF StorageInv

(* event_core_free_push disposes of the event by its allocator.             *)
LEMMA ReturnKeepsStorage ==
  ASSUME StorageInv, TypeOK', ReturnUser \/ ReturnDynamic \/ ReturnMark \/ FreePool
  PROVE  StorageInv'
  <1>0. /\ NoEvent \notin Storage
        /\ PoolEvents \cap HeapCells = {} /\ TimerEvents \cap HeapCells = {}
        /\ PoolEvents \cap TimerEvents = {}
    BY EventCoreAssumption
  <1>1. cur \in Storage /\ cur # NoEvent
    BY <1>0 DEF StorageInv, TypeOK, ReturnUser, ReturnDynamic, ReturnMark, FreePool, HandlerReturned
  <1>2. /\ cur \notin Range(freeEvents) /\ cur \notin HeldEvents
        /\ cur \in PoolEvents => allocator[cur] = "STARTUP_POOL"
        /\ cur \in TimerEvents => allocator[cur] = "TIMER"
        /\ cur \in HeapCells => allocator[cur] \in {"DYNAMIC", "USER"}
        /\ cur \in PoolEvents \cup HeapCells \cup TimerEvents
    BY <1>1 DEF StorageInv, PoolConserved, Ownership, InFlight, Storage
  <1>3. ASSUME held' = held PROVE HeldEvents' = HeldEvents
    BY <1>3 DEF HeldEvents
  <1>4. /\ NoEvent \notin PoolEvents /\ NoEvent \notin HeapCells /\ NoEvent \notin TimerEvents
        /\ NoEvent \notin Range(freeEvents) /\ NoEvent \notin Range(queue)
    <2>1. Range(freeEvents) \subseteq Storage /\ Range(queue) \subseteq Storage
      BY DEF StorageInv, TypeOK, Range
    <2> QED
      BY <1>0, <2>1 DEF Storage
  <1>5. ASSUME cur' = NoEvent, held' = held, queue' = queue
        PROVE  InFlight' = Range(queue) \cup HeldEvents \cup {NoEvent} /\ NoEvent \notin HeldEvents'
    BY <1>5 DEF InFlight, HeldEvents
  <1>6. /\ Range(freeEvents) \cap (Range(queue) \cup HeldEvents) = {}
         /\ PoolEvents \subseteq Range(freeEvents) \cup Range(queue) \cup HeldEvents \cup {cur}
    BY DEF StorageInv, PoolConserved, InFlight
  <1>7. CASE ReturnUser
    <2>1. /\ cur \in HeapCells /\ cur \in appCells \cup Range(queue) /\ cur' = NoEvent /\ pc' = "idle"
          /\ UNCHANGED <<queue, state, freeEvents, heap, appCells, allocator, held>>
      BY <1>2, <1>7 DEF ReturnUser, BackToIdle, StorageInv, Ownership, queueVars, storageVars
    <2>2. cur \notin PoolEvents
      BY <1>0, <2>1
    <2>3. PoolConserved'
      BY <1>3, <1>4, <1>5, <1>6, <2>1, <2>2 DEF PoolConserved, StorageInv
    <2>4. StateAccurate'
      BY <1>4, <2>1, <2>2 DEF StateAccurate, StorageInv
    <2>5. QueuedEventsAllocated' /\ NoHeapLeak'
      BY <1>0, <1>3, <2>1 DEF QueuedEventsAllocated, NoHeapLeak, StorageInv, InFlight
    <2>6. Ownership'
      BY <1>0, <1>3, <2>1 DEF Ownership, StorageInv, Storage
    <2> QED
      BY <2>3, <2>4, <2>5, <2>6 DEF StorageInv
  <1>8. CASE ReturnDynamic
    <2>1. /\ cur \in HeapCells /\ cur \notin appCells \cup Range(queue) /\ cur' = NoEvent /\ pc' = "idle"
          /\ heap' = heap \ {cur}
          /\ UNCHANGED <<queue, state, freeEvents, appCells, allocator, held>>
      BY <1>2, <1>8 DEF ReturnDynamic, BackToIdle, StorageInv, Ownership, queueVars
    <2>2. cur \notin PoolEvents
      BY <1>0, <2>1
    <2>3. PoolConserved'
      BY <1>3, <1>4, <1>5, <1>6, <2>1, <2>2 DEF PoolConserved, StorageInv
    <2>4. StateAccurate'
      BY <1>4, <2>1, <2>2 DEF StateAccurate, StorageInv
    <2>5. QueuedEventsAllocated' /\ NoHeapLeak'
      BY <1>0, <1>2, <1>3, <2>1 DEF QueuedEventsAllocated, NoHeapLeak, StorageInv, InFlight
    <2>6. Ownership'
      BY <1>0, <1>3, <2>1 DEF Ownership, StorageInv, Storage
    <2> QED
      BY <2>3, <2>4, <2>5, <2>6 DEF StorageInv
  <1>9. CASE ReturnMark
    <2>1. /\ cur \notin HeapCells /\ pc' = "freeing" /\ state' = [state EXCEPT ![cur] = "UNQUEUED"]
          /\ UNCHANGED <<queue, freeEvents, heap, appCells, allocator, held, cur>>
      BY <1>2, <1>9 DEF ReturnMark, storageVars
    <2>2. cur \notin Range(queue) \/ cur \in TimerEvents
      BY <1>2, <2>1 DEF StorageInv, PoolConserved
    <2>3. PoolConserved' /\ QueuedEventsAllocated' /\ NoHeapLeak'
      BY <1>3, <2>1 DEF PoolConserved, QueuedEventsAllocated, NoHeapLeak, StorageInv, InFlight
    <2>4. StateAccurate'
      BY <1>1, <2>1 DEF StateAccurate, StorageInv, PoolConserved, TypeOK, Storage
    <2>5. Ownership'
      BY <1>3, <2>1 DEF Ownership, StorageInv
    <2> QED
      BY <2>3, <2>4, <2>5 DEF StorageInv
  <1>10. CASE FreePool
    <2>1. /\ cur \in PoolEvents /\ cur' = NoEvent /\ pc' = "idle" /\ freeEvents' = Cons(cur, freeEvents)
          /\ UNCHANGED <<queue, state, heap, appCells, allocator, held>>
          /\ pc = "freeing"
      BY <1>2, <1>10 DEF FreePool, BackToIdle, queueVars
    <2>2. Range(freeEvents)' = Range(freeEvents) \cup {cur} /\ IsInjective(freeEvents')
      BY <1>1, <1>2, <2>1, ConsKeepsDistinct DEF StorageInv, TypeOK, PoolConserved
    <2>3. cur \notin Range(queue)
      BY <1>0, <2>1 DEF StorageInv, PoolConserved
    <2>4. PoolConserved'
      BY <1>2, <1>3, <1>4, <1>5, <1>6, <2>1, <2>2, <2>3 DEF PoolConserved, StorageInv
    <2>5. QueuedEventsAllocated'
      BY <1>3, <2>1 DEF QueuedEventsAllocated, StorageInv
    <2>5a. NoHeapLeak'
      <3>1. cur \notin heap
        BY <1>0, <2>1 DEF StorageInv, TypeOK
      <3> QED
        BY <1>5, <2>1, <3>1 DEF NoHeapLeak, StorageInv, InFlight
    <2>6. StateAccurate'
      BY <1>0, <2>1 DEF StateAccurate, StorageInv, Storage
    <2>7. Ownership'
      BY <1>0, <1>3, <2>1, <2>2 DEF Ownership, StorageInv, Storage
    <2> QED
      BY <2>4, <2>5, <2>5a, <2>6, <2>7 DEF StorageInv
  <1> QED
    BY <1>7, <1>8, <1>9, <1>10

(* The steps that leave the lists and the heap alone.                       *)
LEMMA OthersKeepStorage ==
  ASSUME StorageInv, TypeOK',
         DispatchNothing \/ (\E id \in Ids : SetActiveTasklet(id)) \/ UNCHANGED coreVars
  PROVE  StorageInv'
  <1>1. UNCHANGED <<queue, state, freeEvents, heap, appCells, allocator, held, pc, cur>>
    BY DEF DispatchNothing, SetActiveTasklet, coreVars, queueVars, storageVars, loopVars
  <1>2. HeldEvents' = HeldEvents
    BY <1>1 DEF HeldEvents
  <1>3. InFlight' = InFlight
    BY <1>1, <1>2 DEF InFlight
  <1>4. PoolConserved' /\ QueuedEventsAllocated' /\ NoHeapLeak' /\ StateAccurate'
    BY <1>1, <1>2, <1>3
       DEF StorageInv, PoolConserved, QueuedEventsAllocated, NoHeapLeak, StateAccurate
  <1>5. Ownership'
    BY <1>1, <1>2 DEF StorageInv, Ownership
  <1> QED
    BY <1>4, <1>5 DEF StorageInv

(* No step of event.c breaks the invariant, provided that handlers leave    *)
(* the events they are given alone.                                         *)
LEMMA StepStorageInv ==
  ASSUME ~ HandlerMayInvalidate
  PROVE  StorageInv /\ [Next]_coreVars => StorageInv'
  <1> SUFFICES ASSUME StorageInv, [Next]_coreVars
               PROVE  StorageInv'
    OBVIOUS
  <1>1. TypeOK'
    BY StepTypeOK DEF StorageInv
  <1>2. ASSUME NEW f \in Handlers, HandlerCreate(f)
        PROVE  StorageInv'
    <2> DEFINE ev == [receiver |-> TaskletGetFreeId, id |-> 0, priority |-> Low]
    <2>1. ev \in Events
      BY FreeIdFacts, EventCoreAssumption DEF Events, Priorities, Low
    <2>2. EventCoreGet(Loop, ev) /\ Loop \in Callers /\ UNCHANGED <<queueVars, loopVars>>
      BY <1>2, EventCoreAssumption DEF HandlerCreate
    <2> HIDE DEF ev
    <2> QED
      BY <1>1, <2>1, <2>2, GetKeepsStorage
  <1>3. ASSUME NEW a \in Callers, NEW ev \in Sends, EventSend(a, ev)
        PROVE  StorageInv'
    <2>1. ev \in Events
      BY SendsAssumption
    <2> QED
      BY <1>1, <1>3, <2>1, GetKeepsStorage DEF EventSend
  <1>4. ASSUME \/ \E c \in HeapCells : AppAlloc(c) \/ AppFree(c)
               \/ \E c \in HeapCells, ev \in Sends : SendUserAllocated(c, ev)
               \/ \E i \in DOMAIN queue : CancelUser(i)
        PROVE  StorageInv'
    BY <1>1, <1>4, AppKeepsStorage
  <1>5. ASSUME NEW a \in Callers, EventCoreWrite(a)
        PROVE  StorageInv'
    BY <1>1, <1>5, WriteKeepsStorage
  <1>6. CASE Dispatch
    BY <1>1, <1>6, DispatchKeepsStorage
  <1>7. CASE ReturnUser \/ ReturnDynamic \/ ReturnMark \/ FreePool
    BY <1>1, <1>7, ReturnKeepsStorage
  <1>8. CASE DispatchNothing \/ (\E id \in Ids : SetActiveTasklet(id)) \/ UNCHANGED coreVars
    BY <1>1, <1>8, OthersKeepStorage
  <1> QED
    BY <1>2, <1>3, <1>4, <1>5, <1>6, <1>7, <1>8 DEF Next, LoopStep, ApiCall

(* However sends, cancels and dispatches of the contexts interleave, event  *)
(* storage is never lost, duplicated, used after free or leaked, and the    *)
(* state field agrees with the lists.                                       *)
THEOREM StorageSafe ==
  ASSUME ~ HandlerMayInvalidate
  PROVE  Spec => [](PoolConserved /\ QueuedEventsAllocated /\ NoHeapLeak /\ StateAccurate)
  <1>1. StorageInv /\ [Next]_coreVars => StorageInv'
    BY StepStorageInv
  <1>2. StorageInv => PoolConserved /\ QueuedEventsAllocated /\ NoHeapLeak /\ StateAccurate
    BY DEF StorageInv
  <1> QED
    BY InitStorageInv, <1>1, <1>2, PTL DEF Spec

-----------------------------------------------------------------------------
(* The order of the queue.                                                  *)

(* QueueByPriority, in the terms of the lemmas about lists.                 *)
LEMMA PriorityIsSorted ==
  ASSUME queue \in Seq(Storage), NEW key, \A e \in Range(queue) : key[e] = data[e].priority
  PROVE  QueueByPriority <=> SortedBy(queue, key)
  <1>1. \A i \in DOMAIN queue : key[queue[i]] = data[queue[i]].priority
    BY DEF Range
  <1> QED
    BY <1>1 DEF QueueByPriority, SortedBy

(* Every event that may be in the queue keeps its priority, so removing     *)
(* events and adding one where event_core_write puts it keep the order.     *)
LEMMA EnqueueKeepsOrder ==
  ASSUME TypeOK, TypeOK', QueueByPriority,
         NEW e \in Storage \ Range(queue), NEW p \in Priorities,
         Enqueue(e, p), data'[e].priority = p,
         \A x \in Range(queue) : data'[x] = data[x]
  PROVE  QueueByPriority'
  <1> DEFINE key == [x \in Storage |-> IF x = e THEN p ELSE data[x].priority]
  <1>1. queue \in Seq(Storage) /\ queue' \in Seq(Storage) /\ Range(queue) \subseteq Storage
    BY DEF TypeOK, Range
  <1>2. key \in [Storage -> Int]
    BY DEF TypeOK, Events, Priorities, High, Medium, Low
  <1>3. key[e] = p /\ \A x \in Range(queue) : key[x] = data[x].priority
    BY <1>1
  <1> HIDE DEF key
  <1>4. SortedBy(queue, key)
    BY <1>1, <1>3, PriorityIsSorted
  <1>5. \A j \in DOMAIN queue : key[queue[j]] = data[queue[j]].priority
    BY <1>3 DEF Range
  <1>6. queue' = InsertBefore(queue, {j \in DOMAIN queue : key[queue[j]] > key[e]}, e)
    <2>1. {j \in DOMAIN queue : key[queue[j]] > key[e]}
            = {j \in DOMAIN queue : data[queue[j]].priority > p}
      BY <1>3, <1>5
    <2> QED
      BY <2>1 DEF Enqueue, QueueBefore
  <1>7. SortedBy(queue', key)
    BY <1>1, <1>2, <1>4, <1>6, InsertKeepsSorted
  <1>8. Range(queue') = Range(queue) \cup {e}
    BY QueueBeforeFacts DEF Enqueue
  <1>9. \A x \in Range(queue') : key[x] = data'[x].priority
    BY <1>3, <1>8
  <1>10. \A i \in DOMAIN queue' : key[queue'[i]] = data'[queue'[i]].priority
    BY <1>9 DEF Range
  <1> QED
    BY <1>7, <1>10 DEF QueueByPriority, SortedBy

(* event_core_get writes to storage that is not in the queue.               *)
LEMMA GetKeepsQueued ==
  ASSUME StorageInv, NEW a, NEW ev, EventCoreGet(a, ev)
  PROVE  \E e \in Storage \ Range(queue) : data' = [data EXCEPT ![e] = ev]
  <1>1. CASE freeEvents # <<>> /\ data' = [data EXCEPT ![Head(freeEvents)] = ev]
    <2>1. Head(freeEvents) \in Range(freeEvents) /\ Head(freeEvents) \in Storage
      BY <1>1, TailKeepsDistinct DEF StorageInv, TypeOK, PoolConserved
    <2> QED
      BY <1>1, <2>1 DEF StorageInv, PoolConserved, InFlight
  <1>2. ASSUME NEW c \in HeapCells \ heap, data' = [data EXCEPT ![c] = ev]
        PROVE  \E e \in Storage \ Range(queue) : data' = [data EXCEPT ![e] = ev]
    BY <1>2 DEF StorageInv, QueuedEventsAllocated, Storage
  <1> QED
    BY <1>1, <1>2 DEF EventCoreGet

(* No step puts the queue out of order.                                     *)
LEMMA StepQueueByPriority ==
  ASSUME StorageInv, QueueByPriority, [Next]_coreVars
  PROVE  QueueByPriority'
  <1>0. TypeOK /\ TypeOK' /\ queue \in Seq(Storage)
    BY StepTypeOK DEF StorageInv, TypeOK
  <1>1. ASSUME UNCHANGED queue, \A e \in Range(queue) : data'[e] = data[e]
        PROVE  QueueByPriority'
    <2>1. \A i \in DOMAIN queue : data'[queue[i]] = data[queue[i]]
      BY <1>1 DEF Range
    <2> QED
      BY <1>1, <2>1 DEF QueueByPriority
  <1>2. ASSUME NEW a \in Callers, NEW ev, EventCoreGet(a, ev), UNCHANGED queueVars
        PROVE  QueueByPriority'
    <2>1. \E e \in Storage \ Range(queue) : data' = [data EXCEPT ![e] = ev]
      BY <1>2, GetKeepsQueued
    <2> QED
      BY <1>1, <1>2, <2>1 DEF queueVars, StorageInv, TypeOK
  <1>3. CASE \E f \in Handlers : HandlerCreate(f)
    BY <1>2, <1>3, EventCoreAssumption DEF HandlerCreate
  <1>4. CASE \E a \in Callers, ev \in Sends : EventSend(a, ev)
    BY <1>2, <1>4 DEF EventSend
  <1>5. ASSUME NEW c \in HeapCells, NEW ev \in Sends, SendUserAllocated(c, ev)
        PROVE  QueueByPriority'
    <2>1. c \in Storage \ Range(queue) /\ ev.priority \in Priorities
      BY <1>5, SendsAssumption
         DEF SendUserAllocated, StorageInv, QueuedEventsAllocated, Storage, Events
    <2>2. data' = [data EXCEPT ![c] = ev] /\ Enqueue(c, ev.priority)
      BY <1>5 DEF SendUserAllocated
    <2>3. data'[c].priority = ev.priority /\ \A x \in Range(queue) : data'[x] = data[x]
      BY <1>0, <2>1, <2>2 DEF TypeOK
    <2> QED
      BY <1>0, <2>1, <2>2, <2>3, EnqueueKeepsOrder
  <1>6. ASSUME NEW a \in Callers, EventCoreWrite(a)
        PROVE  QueueByPriority'
    <2>1. /\ held[a] \in Storage \ Range(queue) /\ data[held[a]].priority \in Priorities
          /\ data' = data /\ Enqueue(held[a], data[held[a]].priority)
      BY <1>6 DEF EventCoreWrite, StorageInv, PoolConserved, HeldEvents, TypeOK, Events
    <2> QED
      BY <1>0, <2>1, EnqueueKeepsOrder
  <1>7. ASSUME NEW i \in DOMAIN queue, CancelUser(i)
        PROVE  QueueByPriority'
    <2> DEFINE key == [x \in Storage |-> data[x].priority]
    <2>1. i \in 1 .. Len(queue) /\ queue' = RemoveAt(queue, i) /\ data' = data
      BY <1>0, <1>7 DEF CancelUser
    <2>2. key \in [Storage -> Int]
      BY <1>0 DEF TypeOK, Events, Priorities, High, Medium, Low
    <2>3. \A x \in Storage : key[x] = data[x].priority /\ key[x] = data'[x].priority
      BY <2>1
    <2> HIDE DEF key
    <2>4. Range(queue) \subseteq Storage
      BY <1>0 DEF Range
    <2>5. SortedBy(queue, key)
      BY <1>0, <2>3, <2>4, PriorityIsSorted
    <2>6. SortedBy(queue', key)
      BY <1>0, <2>1, <2>2, <2>5, RemoveKeepsSorted
    <2>7. \A j \in DOMAIN queue' : key[queue'[j]] = data'[queue'[j]].priority
      BY <1>0, <2>3 DEF TypeOK
    <2> QED
      BY <2>6, <2>7 DEF QueueByPriority, SortedBy
  <1>8. CASE Dispatch
    <2>1. queue # <<>> /\ queue' = Tail(queue) /\ data' = data
      BY <1>8 DEF Dispatch
    <2>2. /\ Len(queue') = Len(queue) - 1
          /\ \A j \in 1 .. Len(queue) - 1 : queue'[j] = queue[j + 1] /\ j + 1 \in 1 .. Len(queue)
      BY <1>0, <2>1
    <2>3. DOMAIN queue' = 1 .. Len(queue) - 1 /\ DOMAIN queue = 1 .. Len(queue) /\ Len(queue) \in Nat
      BY <1>0, <2>1, <2>2 DEF TypeOK
    <2> SUFFICES ASSUME NEW i \in DOMAIN queue', NEW j \in DOMAIN queue', i < j
                 PROVE  data[queue[i + 1]].priority <= data[queue[j + 1]].priority
      BY <2>1, <2>2, <2>3 DEF QueueByPriority
    <2>4. i + 1 \in DOMAIN queue /\ j + 1 \in DOMAIN queue /\ i + 1 < j + 1
      BY <2>3
    <2> QED
      BY <2>4 DEF QueueByPriority
  <1>9. ASSUME UNCHANGED <<queue, data>>
        PROVE  QueueByPriority'
    BY <1>1, <1>9
  <1> QED
    BY <1>3, <1>4, <1>5, <1>6, <1>7, <1>8, <1>9
       DEF Next, LoopStep, ApiCall, AppAlloc, AppFree, SetActiveTasklet, DispatchNothing, ReturnUser,
           ReturnDynamic, ReturnMark, FreePool, coreVars, queueVars, storageVars

(* The event queue is in order of priority, whatever the contexts do.       *)
THEOREM QueueOrdered ==
  ASSUME ~ HandlerMayInvalidate
  PROVE  Spec => []QueueByPriority
  <1>1. Init => StorageInv /\ QueueByPriority
    BY InitStorageInv DEF Init, QueueByPriority
  <1>2. (StorageInv /\ QueueByPriority) /\ [Next]_coreVars => (StorageInv /\ QueueByPriority)'
    BY StepStorageInv, StepQueueByPriority
  <1> QED
    BY <1>1, <1>2, PTL DEF Spec

-----------------------------------------------------------------------------
(* Tasklets.                                                                *)

(* An id that is not negative survives the conversion to uint8_t.           *)
LEMMA U8OfId == \A i \in 0 .. MaxId : U8(i) = i
  <1>1. MaxId \in Nat
    BY EventCoreAssumption
  <1> QED
    BY <1>1 DEF U8

(* There is an unused id while there are no more handlers than ids.         *)
LEMMA UnusedId ==
  ASSUME IsFiniteSet(Handlers), Cardinality(Handlers) <= MaxId + 1,
         NEW f \in Handlers \ DOMAIN tasklets, DOMAIN tasklets \subseteq Handlers
  PROVE  TaskletGetFreeId # -1
  <1> SUFFICES ASSUME \A i \in 0 .. MaxId : HandlerExists(i)
               PROVE  FALSE
    BY FreeIdFacts
  <1> DEFINE Known == DOMAIN tasklets
             user == [i \in 0 .. MaxId |-> CHOOSE g \in Known : tasklets[g] = i]
  <1>1. \A i \in 0 .. MaxId : \E g \in Known : tasklets[g] = i
    BY U8OfId DEF HandlerExists
  <1>2. \A i \in 0 .. MaxId : user[i] \in Known /\ tasklets[user[i]] = i
    BY <1>1
  <1>3. user \in Injection(0 .. MaxId, Known)
    BY <1>2 DEF Injection, IsInjective
  <1>4. IsFiniteSet(Known) /\ Cardinality(Known) < Cardinality(Handlers)
    BY FS_Subset, FS_CardinalityType
  <1>5. Cardinality(0 .. MaxId) = MaxId + 1
    BY FS_Interval, EventCoreAssumption
  <1>6. Cardinality(0 .. MaxId) <= Cardinality(Known)
    BY <1>3, <1>4, FS_Injection
  <1> QED
    BY <1>4, <1>5, <1>6, FS_CardinalityType, EventCoreAssumption

(* Every event that is queued or being sent has a tasklet: it had one when  *)
(* it was sent, and a tasklet is never removed.                             *)
TaskletInv ==
    /\ \A f \in DOMAIN tasklets : tasklets[f] \in 0 .. MaxId
    /\ IdsUnique
    /\ \A e \in Range(queue) \cup HeldEvents : HandlerExists(data[e].receiver)
    /\ NoNullTasklet

(* event_core_get gives the sender an event for a tasklet that exists.      *)
LEMMA GetKeepsTasklets ==
  ASSUME StorageInv, TaskletInv, NEW a \in Callers, NEW ev \in Events, EventCoreGet(a, ev),
         UNCHANGED queue,
         DOMAIN tasklets \subseteq DOMAIN tasklets',
         \A f \in DOMAIN tasklets : tasklets'[f] = tasklets[f],
         \E f \in DOMAIN tasklets' : tasklets'[f] = U8(ev.receiver)
  PROVE  \A e \in Range(queue') \cup HeldEvents' : HandlerExists(data[e].receiver)'
  <1>1. PICK e \in Storage : /\ data' = [data EXCEPT ![e] = ev]
                              /\ held' = [held EXCEPT ![a] = e]
    <2>1. CASE freeEvents # <<>> /\ data' = [data EXCEPT ![Head(freeEvents)] = ev]
               /\ held' = [held EXCEPT ![a] = Head(freeEvents)]
      <3>1. Head(freeEvents) \in Storage
        BY <2>1 DEF StorageInv, TypeOK
      <3> QED
        BY <2>1, <3>1
    <2> QED
      BY <2>1 DEF EventCoreGet, Storage
  <1>2. data'[e] = ev /\ \A x \in Storage \ {e} : data'[x] = data[x]
    BY <1>1 DEF StorageInv, TypeOK
  <1>3. HeldEvents' \subseteq HeldEvents \cup {e}
    BY <1>1 DEF HeldEvents, StorageInv, TypeOK
  <1>4. Range(queue) \cup HeldEvents \subseteq Storage
    BY DEF StorageInv, TypeOK, Range, HeldEvents
  <1>5. ASSUME NEW id, HandlerExists(id)
        PROVE  \E f \in DOMAIN tasklets' : tasklets'[f] = U8(id)
    BY <1>5 DEF HandlerExists
  <1>6. ASSUME NEW x \in Range(queue) \cup HeldEvents \cup {e}
        PROVE  \E f \in DOMAIN tasklets' : tasklets'[f] = U8(data'[x].receiver)
    <2>1. CASE x = e
      BY <1>2, <2>1
    <2>2. CASE x # e
      BY <1>2, <1>4, <1>5, <1>6, <2>2 DEF TaskletInv
    <2> QED
      BY <2>1, <2>2
  <1>7. \A x \in Range(queue') \cup HeldEvents' :
          \E f \in DOMAIN tasklets' : tasklets'[f] = U8(data'[x].receiver)
    BY <1>3, <1>6
  <1> QED
    BY <1>7 DEF HandlerExists

(* No step leaves an event without its tasklet, or two tasklets one id.     *)
LEMMA StepTaskletInv ==
  ASSUME IsFiniteSet(Handlers), Cardinality(Handlers) <= MaxId + 1,
         StorageInv, TaskletInv, [Next]_coreVars
  PROVE  TaskletInv'
  <1>0. TypeOK /\ TypeOK'
    BY StepTypeOK DEF StorageInv
  <1>1. ASSUME UNCHANGED tasklets, pc' # "crashed",
               \A e \in Range(queue') \cup HeldEvents' : HandlerExists(data'[e].receiver)
        PROVE  TaskletInv'
    BY <1>1 DEF TaskletInv, IdsUnique, NoNullTasklet, HandlerExists
  <1>2. ASSUME NEW f \in Handlers, HandlerCreate(f)
        PROVE  TaskletInv'
    <2> DEFINE new == TaskletGetFreeId
               ev == [receiver |-> new, id |-> 0, priority |-> Low]
    <2>1. f \notin DOMAIN tasklets /\ Loop \in Callers /\ EventCoreGet(Loop, ev)
      BY <1>2, EventCoreAssumption DEF HandlerCreate
    <2>2. new \in 0 .. MaxId /\ ~ HandlerExists(new)
      BY <1>0, <2>1, UnusedId, FreeIdFacts DEF TypeOK
    <2>3. U8(new) = new
      BY <2>2, U8OfId
    <2>4. ev \in Events /\ ev.receiver = new
      BY <2>2, FreeIdFacts, EventCoreAssumption DEF Events, Priorities, Low
    <2>5. tasklets' = [g \in DOMAIN tasklets \cup {f} |-> IF g = f THEN new ELSE tasklets[g]]
      BY <1>2 DEF HandlerCreate
    <2>6. UNCHANGED <<queue, pc>>
      BY <1>2 DEF HandlerCreate, queueVars, loopVars
    <2> HIDE DEF new, ev
    <2>7. /\ DOMAIN tasklets' = DOMAIN tasklets \cup {f}
          /\ tasklets'[f] = new
          /\ \A g \in DOMAIN tasklets : tasklets'[g] = tasklets[g] /\ g # f /\ tasklets[g] # new
      BY <2>1, <2>2, <2>3, <2>5 DEF HandlerExists
    <2>8. \A e \in Range(queue') \cup HeldEvents' : HandlerExists(data[e].receiver)'
      BY <2>1, <2>3, <2>4, <2>6, <2>7, GetKeepsTasklets
    <2>9. IdsUnique'
      BY <2>7 DEF IdsUnique, TaskletInv, IsInjective
    <2> QED
      BY <2>2, <2>6, <2>7, <2>8, <2>9 DEF TaskletInv, NoNullTasklet
  <1>3. ASSUME NEW a \in Callers, NEW ev \in Sends, EventSend(a, ev)
        PROVE  TaskletInv'
    <2>1. /\ ev \in Events /\ EventCoreGet(a, ev) /\ UNCHANGED <<tasklets, queue, pc>>
          /\ \E f \in DOMAIN tasklets : tasklets[f] = U8(ev.receiver)
      BY <1>3, SendsAssumption DEF EventSend, queueVars, loopVars, HandlerExists
    <2>2. \A e \in Range(queue') \cup HeldEvents' : HandlerExists(data[e].receiver)'
      BY <2>1, GetKeepsTasklets
    <2> QED
      BY <2>1, <2>2 DEF TaskletInv, IdsUnique, NoNullTasklet
  <1>4. ASSUME NEW c \in HeapCells, NEW ev \in Sends, SendUserAllocated(c, ev)
        PROVE  TaskletInv'
    <2>1. /\ c \in Storage /\ ev.priority \in Priorities
          /\ HandlerExists(ev.receiver) /\ queue' = QueueBefore(c, ev.priority)
          /\ data' = [data EXCEPT ![c] = ev] /\ UNCHANGED <<tasklets, held, pc>>
      BY <1>4, SendsAssumption DEF SendUserAllocated, Enqueue, loopVars, Storage, Events
    <2>2. Range(queue') = Range(queue) \cup {c} /\ HeldEvents' = HeldEvents
      BY <1>0, <2>1, QueueBeforeFacts DEF HeldEvents
    <2>3. Range(queue) \cup HeldEvents \subseteq Storage
      BY <1>0 DEF TypeOK, Range, HeldEvents
    <2>4. \A x \in Range(queue) \cup HeldEvents \cup {c} : data'[x] = IF x = c THEN ev ELSE data[x]
      BY <1>0, <2>1, <2>3 DEF TypeOK
    <2>5. \A x \in Range(queue) \cup HeldEvents \cup {c} : HandlerExists(data'[x].receiver)
      BY <2>1, <2>4 DEF TaskletInv
    <2> QED
      BY <1>1, <2>1, <2>2, <2>5 DEF TaskletInv, NoNullTasklet
  <1>5. ASSUME NEW a \in Callers, EventCoreWrite(a)
        PROVE  TaskletInv'
    <2>1. /\ held[a] \in Storage \cap HeldEvents /\ data[held[a]].priority \in Priorities
          /\ data' = data /\ queue' = QueueBefore(held[a], data[held[a]].priority)
          /\ held' = [held EXCEPT ![a] = NoEvent] /\ UNCHANGED <<tasklets, pc>>
      BY <1>0, <1>5 DEF EventCoreWrite, Enqueue, HeldEvents, TypeOK, Events, loopVars
    <2>2. Range(queue') = Range(queue) \cup {held[a]}
      BY <1>0, <2>1, QueueBeforeFacts
    <2>3. HeldEvents' \subseteq HeldEvents
      BY <1>0, <2>1 DEF HeldEvents, TypeOK
    <2> QED
      BY <1>1, <2>1, <2>2, <2>3 DEF TaskletInv, NoNullTasklet
  <1>6. ASSUME NEW i \in DOMAIN queue, CancelUser(i)
        PROVE  TaskletInv'
    <2>1. Range(queue') \subseteq Range(queue)
      BY <1>0, <1>6, RemoveKeepsDistinct DEF CancelUser, StorageInv, PoolConserved, TypeOK
    <2>2. UNCHANGED <<tasklets, data, held, pc>>
      BY <1>6 DEF CancelUser, loopVars
    <2> QED
      BY <1>1, <2>1, <2>2 DEF TaskletInv, NoNullTasklet, HeldEvents
  <1>7. CASE Dispatch
    <2>1. Head(queue) \in Range(queue) /\ Range(queue') \subseteq Range(queue)
      BY <1>7, TailKeepsDistinct DEF Dispatch, StorageInv, PoolConserved, TypeOK
    <2>2. HandlerExists(data[Head(queue)].receiver)
      BY <2>1 DEF TaskletInv
    <2>3. UNCHANGED <<tasklets, data, held>> /\ pc' # "crashed"
      BY <1>7, <2>2 DEF Dispatch
    <2> QED
      BY <1>1, <2>1, <2>3 DEF TaskletInv, HeldEvents
  <1>8. ASSUME UNCHANGED <<tasklets, queue, data, held>>, pc' = pc \/ pc' # "crashed"
        PROVE  TaskletInv'
    BY <1>1, <1>8 DEF TaskletInv, NoNullTasklet, HeldEvents
  <1>9. ASSUME DispatchNothing \/ ReturnUser \/ ReturnDynamic \/ ReturnMark \/ FreePool
        PROVE  TaskletInv'
    BY <1>8, <1>9 DEF DispatchNothing, ReturnUser, ReturnDynamic, ReturnMark, FreePool, BackToIdle,
                      queueVars, storageVars
  <1>10. ASSUME \/ \E c \in HeapCells : AppAlloc(c) \/ AppFree(c)
                \/ \E id \in Ids : SetActiveTasklet(id)
                \/ UNCHANGED coreVars
         PROVE  TaskletInv'
    BY <1>8, <1>10 DEF AppAlloc, AppFree, SetActiveTasklet, coreVars, queueVars, storageVars, loopVars
  <1> QED
    BY <1>2, <1>3, <1>4, <1>5, <1>6, <1>7, <1>9, <1>10 DEF Next, LoopStep, ApiCall

(* With no more than INT8_MAX + 1 handlers the dispatcher never calls       *)
(* through a null tasklet and no two tasklets share an id: what the comment *)
(* in eventOS_scheduler_dispatch_event says, and what it silently assumes.  *)
THEOREM TaskletsSafe ==
  ASSUME ~ HandlerMayInvalidate, IsFiniteSet(Handlers), Cardinality(Handlers) <= MaxId + 1
  PROVE  Spec => [](NoNullTasklet /\ IdsUnique)
  <1>1. Init => StorageInv /\ TaskletInv
    <2> SUFFICES ASSUME Init PROVE TaskletInv
      BY InitStorageInv
    <2>1. DOMAIN tasklets = {} /\ Range(queue) = {} /\ HeldEvents = {} /\ pc = "idle"
      BY DEF Init, Range, HeldEvents
    <2> QED
      BY <2>1 DEF TaskletInv, IdsUnique, IsInjective, NoNullTasklet
  <1>2. (StorageInv /\ TaskletInv) /\ [Next]_coreVars => (StorageInv /\ TaskletInv)'
    BY StepStorageInv, StepTaskletInv
  <1>3. TaskletInv => NoNullTasklet /\ IdsUnique
    BY DEF TaskletInv
  <1> QED
    BY <1>1, <1>2, <1>3, PTL DEF Spec

=============================================================================
