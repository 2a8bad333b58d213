--------------------------- MODULE RefinementProofs ---------------------------
(***************************************************************************)
(* event.c implements Mailbox and system_timer.c implements AlarmClock:    *)
(* every step of the detailed specification is a step of the abstract one, *)
(* or changes nothing it can see.                                          *)
(***************************************************************************)
EXTENDS EventLoopProofs

-----------------------------------------------------------------------------
(* The queue as a mailbox. *)

(* What the refinement mapping makes of the queue and the dispatcher.       *)
WaitingOf == [e \in Range(queue) |-> data[e].priority]
HandlingOf == IF pc = "running" THEN cur ELSE NoEvent

OlderIn(q, d) ==
    {<<q[ij[1]], q[ij[2]]>> : ij \in
        {ij \in (DOMAIN q) \X (DOMAIN q) :
            /\ ij[1] < ij[2]
            /\ d[q[ij[1]]].priority = d[q[ij[2]]].priority}}

LEMMA OlderAreTies ==
  ASSUME NEW q, NEW d, NEW key, \A x \in Range(q) : key[x] = d[x].priority
  PROVE  OlderIn(q, d) = Ties(q, key)
  <1>1. \A i \in DOMAIN q : key[q[i]] = d[q[i]].priority
    BY DEF Range
  <1>2. {ij \in (DOMAIN q) \X (DOMAIN q) :
            ij[1] < ij[2] /\ d[q[ij[1]]].priority = d[q[ij[2]]].priority}
        = {ij \in (DOMAIN q) \X (DOMAIN q) : ij[1] < ij[2] /\ key[q[ij[1]]] = key[q[ij[2]]]}
    BY <1>1
  <1> QED
    BY <1>2, Zenon DEF OlderIn, Ties

(* The event a step puts on the queue is posted.                            *)
LEMMA SimulatePost ==
  ASSUME TypeOK, QueueByPriority, NEW e \in Storage \ Range(queue), NEW p \in Priorities,
         Enqueue(e, p), data'[e].priority = p,
         \A x \in Range(queue) : data'[x].priority = data[x].priority,
         HandlingOf' = HandlingOf
  PROVE  Promised!Next
  <1> DEFINE key == [x \in Storage |-> IF x = e THEN p ELSE data[x].priority]
  <1>0. queue \in Seq(Storage) /\ Range(queue) \subseteq Storage
    BY DEF TypeOK, Range
  <1>1. key \in [Storage -> Int]
    BY DEF TypeOK, Events, Priorities, High, Medium, Low
  <1>2. key[e] = p /\ \A x \in Range(queue) : key[x] = data[x].priority
    BY <1>0
  <1> HIDE DEF key
  <1>3. SortedBy(queue, key)
    BY <1>0, <1>2, PriorityIsSorted
  <1>4. queue' = InsertBefore(queue, {j \in DOMAIN queue : key[queue[j]] > key[e]}, e)
    <2>1. \A j \in DOMAIN queue : key[queue[j]] = data[queue[j]].priority
      BY <1>2 DEF Range
    <2>2. {j \in DOMAIN queue : key[queue[j]] > key[e]}
            = {j \in DOMAIN queue : data[queue[j]].priority > p}
      BY <1>2, <2>1
    <2> QED
      BY <2>2 DEF Enqueue, QueueBefore
  <1>5. Range(queue') = Range(queue) \cup {e}
    BY QueueBeforeFacts DEF Enqueue
  <1>6. WaitingOf' = [y \in DOMAIN WaitingOf \cup {e} |-> IF y = e THEN p ELSE WaitingOf[y]]
    <2>1. DOMAIN WaitingOf = Range(queue)
      BY DEF WaitingOf
    <2>2. WaitingOf' = [y \in Range(queue) \cup {e} |-> data'[y].priority]
      BY <1>5 DEF WaitingOf
    <2>3. \A y \in Range(queue) \cup {e} : data'[y].priority = IF y = e THEN p ELSE WaitingOf[y]
      BY DEF WaitingOf
    <2> QED
      BY <2>1, <2>2, <2>3
  <1>7. OlderIn(queue', data') = OlderIn(queue, data)
          \cup {<<y, e>> : y \in {z \in DOMAIN WaitingOf : WaitingOf[z] = p}}
    <2>1. OlderIn(queue, data) = Ties(queue, key)
      BY <1>2, OlderAreTies
    <2>2. \A x \in Range(queue') : key[x] = data'[x].priority
      BY <1>2, <1>5
    <2>3. OlderIn(queue', data') = Ties(queue', key)
      BY <2>2, OlderAreTies
    <2>4. {z \in DOMAIN WaitingOf : WaitingOf[z] = p} = {z \in Range(queue) : key[z] = key[e]}
      BY <1>2 DEF WaitingOf
    <2>5. Ties(queue', key)
            = Ties(queue, key) \cup {<<y, e>> : y \in {z \in Range(queue) : key[z] = key[e]}}
      BY <1>0, <1>1, <1>3, <1>4, TiesOfInsert
    <2> QED
      BY <2>1, <2>3, <2>4, <2>5
  <1>8. Promised!Post(e, p)
    BY <1>6, <1>7 DEF Promised!Post, WaitingOf, OlderIn, HandlingOf
  <1> QED
    BY <1>8 DEF Promised!Next

(* The event a step takes off the queue leaves the mailbox.                 *)
LEMMA SimulateLeave ==
  ASSUME TypeOK, IsInjective(queue), NEW i \in 1 .. Len(queue), NEW e, e = queue[i],
         queue' = RemoveAt(queue, i), data' = data
  PROVE  Promised!Leave(e)
  <1> DEFINE key == [x \in Storage |-> data[x].priority]
  <1>0. /\ queue \in Seq(Storage) /\ e \in Range(queue) /\ Range(queue) \subseteq Storage
    BY DEF TypeOK, Range
  <1>1. Range(queue') = Range(queue) \ {e}
    BY <1>0, RemoveKeepsDistinct
  <1>2. /\ \A x \in Range(queue) : key[x] = data[x].priority
        /\ \A x \in Range(queue') : key[x] = data'[x].priority
    BY <1>0, <1>1
  <1> HIDE DEF key
  <1>3. WaitingOf' = [y \in DOMAIN WaitingOf \ {e} |-> WaitingOf[y]]
    BY <1>1 DEF WaitingOf
  <1>4. OlderIn(queue', data') = {r \in OlderIn(queue, data) : r[1] # e /\ r[2] # e}
    <2>1. OlderIn(queue, data) = Ties(queue, key)
      BY <1>2, OlderAreTies
    <2>2. OlderIn(queue', data') = Ties(queue', key)
      BY <1>2, OlderAreTies
    <2>3. Ties(queue', key) = {r \in Ties(queue, key) : r[1] # e /\ r[2] # e}
      <3>1. \A r : r \in Ties(queue', key) <=>
                     (r \in Ties(queue, key) /\ r[1] # queue[i] /\ r[2] # queue[i])
        BY <1>0, TiesOfRemove
      <3> QED
        BY <3>1
    <2> QED
      BY <2>1, <2>2, <2>3
  <1>5. e \in DOMAIN WaitingOf
    BY <1>0 DEF WaitingOf
  <1> QED
    BY <1>3, <1>4, <1>5 DEF Promised!Leave, WaitingOf, OlderIn

(* A step that leaves the queue and the handler alone.                      *)
LEMMA SimulateQuiet ==
  ASSUME queue' = queue, \A x \in Range(queue) : data'[x].priority = data[x].priority,
         HandlingOf' = HandlingOf
  PROVE  UNCHANGED Promised!mailboxVars
  <1>1. WaitingOf' = WaitingOf
    BY DEF WaitingOf
  <1>2. OlderIn(queue', data') = OlderIn(queue, data)
    <2> DEFINE key == [x \in Range(queue) |-> data[x].priority]
    <2>1. /\ \A x \in Range(queue) : key[x] = data[x].priority
          /\ \A x \in Range(queue') : key[x] = data'[x].priority
      OBVIOUS
    <2> HIDE DEF key
    <2> QED
      BY <2>1, OlderAreTies
  <1> QED
    BY <1>1, <1>2 DEF Promised!mailboxVars, WaitingOf, OlderIn, HandlingOf

(* Each step of event.c is a step of the mailbox, or changes nothing in it. *)
LEMMA StepDelivers ==
  ASSUME StorageInv, QueueByPriority, [Next]_coreVars
  PROVE  [Promised!Next]_(Promised!mailboxVars)
  <1>0. /\ TypeOK /\ TypeOK' /\ queue \in Seq(Storage) /\ IsInjective(queue)
        /\ DOMAIN queue = 1 .. Len(queue) /\ NoEvent \notin Storage
    BY StepTypeOK, EventCoreAssumption DEF StorageInv, TypeOK, PoolConserved
  <1>1. ASSUME NEW a \in Callers, NEW ev, EventCoreGet(a, ev), UNCHANGED <<queueVars, loopVars>>
        PROVE  UNCHANGED Promised!mailboxVars
    <2>1. \E e \in Storage \ Range(queue) : data' = [data EXCEPT ![e] = ev]
      BY <1>1, GetKeepsQueued
    <2>2. \A x \in Range(queue) : data'[x].priority = data[x].priority
      BY <1>0, <2>1 DEF TypeOK
    <2> QED
      BY <1>1, <2>2, SimulateQuiet DEF queueVars, loopVars, HandlingOf
  <1>2. CASE \E f \in Handlers : HandlerCreate(f)
    BY <1>1, <1>2, EventCoreAssumption DEF HandlerCreate
  <1>3. CASE \E a \in Callers, ev \in Sends : EventSend(a, ev)
    BY <1>1, <1>3 DEF EventSend
  <1>4. ASSUME NEW c \in HeapCells, NEW ev \in Sends, SendUserAllocated(c, ev)
        PROVE  Promised!Next
    <2>1. c \in Storage \ Range(queue) /\ ev.priority \in Priorities
      BY <1>4, SendsAssumption
         DEF SendUserAllocated, StorageInv, QueuedEventsAllocated, Storage, Events
    <2>2. data' = [data EXCEPT ![c] = ev] /\ Enqueue(c, ev.priority) /\ HandlingOf' = HandlingOf
      BY <1>4 DEF SendUserAllocated, loopVars, HandlingOf
    <2>3. /\ data'[c].priority = ev.priority
          /\ \A x \in Range(queue) : data'[x].priority = data[x].priority
      BY <1>0, <2>1, <2>2 DEF TypeOK
    <2> QED
      BY <1>0, <2>1, <2>2, <2>3, SimulatePost
  <1>5. ASSUME NEW a \in Callers, EventCoreWrite(a)
        PROVE  Promised!Next
    <2>1. /\ held[a] \in Storage \ Range(queue) /\ data[held[a]].priority \in Priorities
          /\ data' = data /\ Enqueue(held[a], data[held[a]].priority)
          /\ HandlingOf' = HandlingOf
      BY <1>5 DEF EventCoreWrite, StorageInv, PoolConserved, HeldEvents, TypeOK, Events,
                  loopVars, HandlingOf
    <2> QED
      BY <1>0, <2>1, SimulatePost
  <1>6. ASSUME NEW i \in DOMAIN queue, CancelUser(i)
        PROVE  Promised!Next
    <2>1. PICK e \in Storage : e = queue[i]
      BY <1>0
    <2>2. /\ i \in 1 .. Len(queue) /\ queue' = RemoveAt(queue, i) /\ data' = data
          /\ HandlingOf' = HandlingOf
      BY <1>0, <1>6 DEF CancelUser, loopVars, HandlingOf
    <2>3. Promised!Withdraw(e)
      BY <1>0, <2>1, <2>2, SimulateLeave DEF Promised!Withdraw, HandlingOf
    <2> QED
      BY <2>3 DEF Promised!Next
  <1>7. CASE Dispatch
    <2>1. /\ queue # <<>> /\ queue' = RemoveAt(queue, 1) /\ data' = data
          /\ 1 \in 1 .. Len(queue) /\ Head(queue) = queue[1]
      BY <1>0, <1>7, TailIsRemoveAt DEF Dispatch
    <2>2. PICK e \in Storage : e = queue[1]
      BY <1>0, <2>1
    <2>3. Promised!Leave(e)
      BY <1>0, <2>1, <2>2, SimulateLeave
    <2>4. /\ pc = "idle" /\ cur' = e /\ pc' \in {"running", "crashed"}
          /\ HandlingOf = NoEvent
      BY <1>7, <2>1, <2>2 DEF Dispatch, HandlingOf
    <2>5. CASE pc' = "crashed"
      <3>1. HandlingOf' = HandlingOf
        BY <2>4, <2>5 DEF HandlingOf
      <3>2. Promised!Withdraw(e)
        BY <2>3, <3>1 DEF Promised!Withdraw, HandlingOf
      <3> QED
        BY <3>2 DEF Promised!Next
    <2>6. CASE pc' = "running"
      <3>1. HandlingOf' = e
        BY <2>4, <2>6 DEF HandlingOf
      <3>2. ASSUME NEW y \in Range(queue)
            PROVE  WaitingOf[e] <= WaitingOf[y] /\ <<y, e>> \notin OlderIn(queue, data)
        <4>1. PICK j \in 1 .. Len(queue) : queue[j] = y
          BY <1>0, <3>2 DEF Range
        <4>2. e \in Range(queue) /\ y \in Storage
          BY <1>0, <2>1, <2>2, <4>1 DEF Range
        <4>3. data[y].priority \in Int
          BY <1>0, <4>2 DEF TypeOK, Events, Priorities, High, Medium, Low
        <4>4. data[e].priority <= data[y].priority
          <5>1. CASE j = 1
            BY <2>2, <4>1, <4>3, <5>1
          <5>2. CASE j # 1
            BY <1>0, <2>1, <2>2, <4>1, <5>2 DEF QueueByPriority
          <5> QED
            BY <5>1, <5>2
        <4>5. <<y, e>> \notin OlderIn(queue, data)
          <5>1. \A k \in 1 .. Len(queue) : queue[k] = e => k = 1
            BY <1>0, <2>1, <2>2 DEF IsInjective
          <5>2. ~ Before(queue, y, e)
            BY <1>0, <5>1 DEF Before
          <5>3. OlderIn(queue, data) = Ties(queue, WaitingOf)
            BY OlderAreTies DEF WaitingOf
          <5> QED
            BY <5>2, <5>3, TiesAreBefore
        <4> QED
          BY <3>2, <4>2, <4>4, <4>5 DEF WaitingOf
      <3>3. DOMAIN WaitingOf = Range(queue)
        BY DEF WaitingOf
      <3>4. Promised!Deliver(e)
        BY <2>3, <2>4, <3>1, <3>2, <3>3 DEF Promised!Deliver, WaitingOf, OlderIn, HandlingOf
      <3> QED
        BY <3>4 DEF Promised!Next
    <2> QED
      BY <2>4, <2>5, <2>6
  <1>8. CASE ReturnUser \/ ReturnDynamic \/ ReturnMark
    <2>1. pc = "running" /\ pc' # "running" /\ UNCHANGED <<queue, data>>
      BY <1>8 DEF ReturnUser, ReturnDynamic, ReturnMark, HandlerReturned, BackToIdle,
                  queueVars, storageVars
    <2>2. HandlingOf = cur /\ cur # NoEvent /\ HandlingOf' = NoEvent
      BY <1>0, <2>1 DEF HandlingOf, TypeOK
    <2>3. UNCHANGED <<WaitingOf, OlderIn(queue, data)>>
      BY <2>1 DEF WaitingOf, OlderIn
    <2>4. Promised!Finish
      BY <2>2, <2>3 DEF Promised!Finish, WaitingOf, OlderIn, HandlingOf
    <2> QED
      BY <2>4 DEF Promised!Next
  <1>9. ASSUME UNCHANGED <<queue, data>>, HandlingOf' = HandlingOf
        PROVE  UNCHANGED Promised!mailboxVars
    BY <1>9, SimulateQuiet
  <1>10. CASE FreePool
    BY <1>9, <1>10 DEF FreePool, BackToIdle, queueVars, HandlingOf
  <1>11. CASE \/ DispatchNothing
              \/ \E c \in HeapCells : AppAlloc(c) \/ AppFree(c)
              \/ \E id \in Ids : SetActiveTasklet(id)
              \/ UNCHANGED coreVars
    BY <1>9, <1>11 DEF DispatchNothing, AppAlloc, AppFree, SetActiveTasklet,
                       coreVars, queueVars, storageVars, loopVars, HandlingOf
  <1> QED
    BY <1>2, <1>3, <1>4, <1>5, <1>6, <1>7, <1>8, <1>10, <1>11 DEF Next, LoopStep, ApiCall

(* Events are delivered once each, the most urgent class first and in the   *)
(* order of posting within a class, one at a time, whatever the contexts    *)
(* do: event.c implements Mailbox.                                          *)
THEOREM DeliversInOrderForAll ==
  ASSUME ~ HandlerMayInvalidate
  PROVE  Spec => DeliversInOrder
  <1>1. Init => Promised!Init
    <2> SUFFICES ASSUME Init
                 PROVE  Promised!Init
      OBVIOUS
    <2>1. queue = <<>> /\ pc = "idle" /\ Range(queue) = {}
      BY DEF Init, Range
    <2>2. WaitingOf = <<>> /\ OlderIn(queue, data) = {} /\ HandlingOf = NoEvent
      BY <2>1 DEF WaitingOf, OlderIn, HandlingOf
    <2> QED
      BY <2>2 DEF Promised!Init, WaitingOf, OlderIn, HandlingOf
  <1>2. Init => StorageInv /\ QueueByPriority
    BY InitStorageInv DEF Init, QueueByPriority
  <1>3. (StorageInv /\ QueueByPriority) /\ [Next]_coreVars => (StorageInv /\ QueueByPriority)'
    BY StepStorageInv, StepQueueByPriority
  <1>4. (StorageInv /\ QueueByPriority) /\ [Next]_coreVars
          => [Promised!Next]_(Promised!mailboxVars)
    BY StepDelivers
  <1> QED
    BY <1>1, <1>2, <1>3, <1>4, PTL DEF Spec, DeliversInOrder, Promised!Spec

-----------------------------------------------------------------------------
(* The timers as alarms. *)

(* Tick arithmetic: a launch time n ticks later is due n ticks later, unless *)
(* that is too far ahead to tell; equal times are those due together.       *)
LEMMA TicksUntilLater ==
  ASSUME NEW a \in Words, NEW now \in Words, NEW n \in Nat, TicksUntil(a, now) + n < Half
  PROVE  TicksPlus(a, n) \in Words /\ TicksUntil(TicksPlus(a, n), now) = TicksUntil(a, now) + n
  <1>0. Half \in Nat \ {0} /\ Wrap = 2 * Half /\ now \in 0 .. Wrap - 1 /\ a \in 0 .. Wrap - 1
    BY HalfAssumption DEF Wrap, Words
  <1>1. TicksUntil(a, now) \in -Half .. Half - 1
    BY TicksUntilFacts
  <1>2. n < Wrap
    BY <1>0, <1>1
  <1>3. TicksPlus(a, n) = a + n \/ TicksPlus(a, n) = a + n - Wrap
    <2>1. CASE a + n < Wrap
      BY <1>0, <1>2, <2>1 DEF TicksPlus
    <2>2. CASE a + n >= Wrap
      BY <1>0, <1>2, <2>2 DEF TicksPlus
    <2> QED
      BY <1>0, <2>1, <2>2
  <1>4. TicksPlus(a, n) \in Words
    BY TicksPlusType
  <1>5. /\ TicksUntil(TicksPlus(a, n), now) \in -Half .. Half - 1
        /\ \/ TicksPlus(a, n) - now = TicksUntil(TicksPlus(a, n), now)
           \/ TicksPlus(a, n) - now = TicksUntil(TicksPlus(a, n), now) + Wrap
           \/ TicksPlus(a, n) - now = TicksUntil(TicksPlus(a, n), now) - Wrap
    BY <1>4, TicksUntilFacts
  <1>6. \/ a - now = TicksUntil(a, now)
        \/ a - now = TicksUntil(a, now) + Wrap
        \/ a - now = TicksUntil(a, now) - Wrap
    BY TicksUntilFacts
  <1> QED
    BY <1>0, <1>1, <1>2, <1>3, <1>4, <1>5, <1>6

LEMMA TicksUntilOwn == \A a \in Words : TicksUntil(a, a) = 0
  <1>1. Half \in Nat \ {0} /\ Wrap = 2 * Half /\ Words = 0 .. Wrap - 1
    BY HalfAssumption DEF Wrap, Words
  <1>2. \A a \in Words : a - a = 0 /\ 0 % Wrap = 0
    BY <1>1
  <1> QED
    BY <1>1, <1>2 DEF TicksUntil, Signed

LEMMA TicksUntilTells ==
  ASSUME NEW a \in Words, NEW b \in Words, NEW now \in Words
  PROVE  (a = b) <=> (TicksUntil(a, now) = TicksUntil(b, now))
  <1>0. /\ Half \in Nat \ {0} /\ Wrap = 2 * Half /\ now \in Int
        /\ a \in 0 .. Wrap - 1 /\ b \in 0 .. Wrap - 1
    BY HalfAssumption DEF Wrap, Words
  <1>1. /\ TicksUntil(a, now) \in Int
        /\ \/ a - now = TicksUntil(a, now)
           \/ a - now = TicksUntil(a, now) + Wrap
           \/ a - now = TicksUntil(a, now) - Wrap
    BY TicksUntilFacts
  <1>2. \/ b - now = TicksUntil(b, now)
        \/ b - now = TicksUntil(b, now) + Wrap
        \/ b - now = TicksUntil(b, now) - Wrap
    BY TicksUntilFacts
  <1> QED
    BY <1>0, <1>1, <1>2

(* The timers in use that are not on the timer list: queued, or with the    *)
(* dispatcher.                                                              *)
Posted == (StaticTimers \cup timerHeap) \ (Range(timerFree) \cup Range(timerList))

(* A timer that has expired and will run again is due.                      *)
RungIsDue == \A t \in Live \ Range(timerList) : Due(t) <= 0

ClockInv ==
    /\ TimerInv
    /\ TimerListInOrder
    /\ RungIsDue

(* Which timers live is told by the timer lists and the periods alone.      *)
LEMMA LiveFacts ==
  ASSUME TimerInv
  PROVE  /\ Posted = TimerEvents \cap (Range(queue) \cup {cur})
         /\ Live = Range(timerList) \cup {t \in Posted : period[t] # 0}
         /\ Posted \cap Range(timerList) = {}
         /\ Live \subseteq TimerEvents /\ Range(timerList) \subseteq TimerEvents
         /\ \A t \in TimerEvents : Due(t) \in -Half .. Half - 1
  <1>1. Range(timerList) \subseteq TimerEvents /\ Range(timerFree) \subseteq TimerEvents
    BY DEF TimerInv, TimerTypeOK, Range
  <1>2. Posted = TimerEvents \cap (Range(queue) \cup {cur})
    BY <1>1 DEF Posted, TimerInv, TimersConserved
  <1>3. Live = Range(timerList) \cup {t \in Posted : period[t] # 0}
    BY <1>2 DEF Live
  <1>4. \A t \in TimerEvents : Due(t) \in -Half .. Half - 1
    BY TicksUntilFacts DEF Due, TimerInv, TimerTypeOK
  <1> QED
    BY <1>1, <1>2, <1>3, <1>4 DEF Posted

(* The same after a step.                                                   *)
LEMMA LiveFactsThen ==
  ASSUME TimerInv'
  PROVE  /\ Live' = Range(timerList') \cup {t \in Posted' : period'[t] # 0}
         /\ Posted' \cap Range(timerList') = {}
         /\ Live' \subseteq TimerEvents /\ Range(timerList') \subseteq TimerEvents
         /\ \A t \in TimerEvents : Due(t)' \in -Half .. Half - 1
  <1>1. /\ Range(timerList') \subseteq TimerEvents /\ Range(timerFree') \subseteq TimerEvents
        /\ launch' \in [TimerEvents -> Words] /\ ticks' \in Words
    BY DEF TimerInv, TimerTypeOK, Range
  <1>2. Posted' = TimerEvents \cap (Range(queue') \cup {cur'})
    BY <1>1 DEF Posted, TimerInv, TimersConserved
  <1>3. Live' = Range(timerList') \cup {t \in Posted' : period'[t] # 0}
    BY <1>2 DEF Live
  <1>4. \A t \in TimerEvents : Due(t)' \in -Half .. Half - 1
    BY <1>1, TicksUntilFacts DEF Due
  <1>5. Posted' \cap Range(timerList') = {}
    BY DEF Posted
  <1> QED
    BY <1>1, <1>2, <1>3, <1>4, <1>5

(* A step that leaves the alarms alone.                                     *)
LEMMA SimulateStill ==
  ASSUME Range(timerList) \subseteq Live, Live' = Live,
         UNCHANGED <<timerList, ticks, ticking>>,
         \A t \in Live : launch'[t] = launch[t] /\ period'[t] = period[t]
  PROVE  UNCHANGED Clock!clockVars
  <1>1. /\ [t \in Live |-> Due(t)]' = [t \in Live |-> Due(t)]
        /\ [t \in Live |-> period[t]]' = [t \in Live |-> period[t]]
    BY DEF Due
  <1>2. Ties(timerList', launch') = Ties(timerList, launch)
    <2>1. \A x, y \in Range(timerList) : (launch'[x] = launch'[y]) <=> (launch[x] = launch[y])
      OBVIOUS
    <2>2. Ties(timerList, launch') = Ties(timerList, launch)
      BY <2>1, TiesOfKeys
    <2> QED
      BY <2>2
  <1> QED
    BY <1>1, <1>2 DEF Clock!clockVars, Ties

(* timer_sys_add puts a timer behind those due at the same time.            *)
LEMMA TiesOfAdd ==
  ASSUME TimerInv, TimerInv', TimerListInOrder, ~ ticking,
         NEW t \in TimerEvents \ Range(timerList), NEW at \in Words,
         ~ TicksBeforeOrAt(at, ticks), TimerSysAdd(t, at),
         launch' = [launch EXCEPT ![t] = at], UNCHANGED <<ticks, ticking>>
  PROVE  Ties(timerList', launch') = Ties(timerList, launch)
           \cup {<<b, t>> : b \in {c \in Range(timerList) : Due(c) = TicksUntil(at, ticks)}}
  <1>0. /\ launch \in [TimerEvents -> Words] /\ launch' \in [TimerEvents -> Words]
        /\ ticks \in Words /\ timerList \in Seq(TimerEvents)
        /\ Range(timerList) \subseteq TimerEvents /\ Range(timerList') \subseteq TimerEvents
    BY DEF TimerInv, TimerTypeOK, Range
  <1>1. /\ DueOf' \in [TimerEvents -> Int] /\ DueOf'[t] = TicksUntil(at, ticks)
        /\ \A x \in Range(timerList) : DueOf'[x] = Due(x)
        /\ SortedBy(timerList, DueOf')
        /\ timerList' = InsertBefore(timerList,
                                     {i \in DOMAIN timerList : DueOf'[timerList[i]] > DueOf'[t]}, t)
    BY AddByDue
  <1>2. Ties(timerList', DueOf') = Ties(timerList, DueOf')
          \cup {<<b, t>> : b \in {c \in Range(timerList) : DueOf'[c] = DueOf'[t]}}
    BY <1>0, <1>1, TiesOfInsert
  <1>3. \A x, y \in TimerEvents : (launch'[x] = launch'[y]) <=> (DueOf'[x] = DueOf'[y])
    <2>1. \A x \in TimerEvents : DueOf'[x] = TicksUntil(launch'[x], ticks)
      BY DEF DueOf, Due
    <2> QED
      BY <1>0, <2>1, TicksUntilTells
  <1>4. \A x, y \in Range(timerList) : (launch[x] = launch[y]) <=> (DueOf'[x] = DueOf'[y])
    <2>1. \A x \in Range(timerList) : launch'[x] = launch[x]
      BY <1>0
    <2> QED
      BY <1>0, <1>3, <2>1
  <1>5. Ties(timerList', launch') = Ties(timerList', DueOf')
    <2>1. PICK key : key = launch'
      OBVIOUS
    <2>2. \A x, y \in Range(timerList') : (key[x] = key[y]) <=> (DueOf'[x] = DueOf'[y])
      BY <1>0, <1>3, <2>1
    <2>3. Ties(timerList', key) = Ties(timerList', DueOf')
      BY <2>2, TiesOfKeys
    <2> QED
      BY <2>1, <2>3
  <1>6. Ties(timerList, launch) = Ties(timerList, DueOf')
    BY <1>4, TiesOfKeys
  <1>7. {c \in Range(timerList) : DueOf'[c] = DueOf'[t]}
          = {c \in Range(timerList) : Due(c) = TicksUntil(at, ticks)}
    BY <1>1
  <1> QED
    BY <1>2, <1>5, <1>6, <1>7

(* What the refinement mapping makes of the living timers.                  *)
LeftOf == [t \in Live |-> Due(t)]
EveryOf == [t \in Live |-> period[t]]

LEMMA ArmedAre ==
  ASSUME TimerInv
  PROVE  /\ DOMAIN LeftOf = Live /\ DOMAIN EveryOf = Live
         /\ DOMAIN LeftOf \ (Live \ Range(timerList)) = Range(timerList)
         /\ \A b \in Range(timerList) : LeftOf[b] = Due(b)
  <1>1. Range(timerList) \subseteq Live
    BY LiveFacts
  <1> QED
    BY <1>1 DEF LeftOf, EveryOf

(* A timer goes to the timer list that did not live before.                 *)
LEMMA SimulateArm ==
  ASSUME ClockInv, TimerInv', ~ ticking, UNCHANGED <<ticks, ticking>>,
         NEW t \in TimerEvents \ Live, NEW at \in Words, NEW every \in 0 .. Half - 1,
         ~ TicksBeforeOrAt(at, ticks), TimerSysAdd(t, at),
         launch' = [launch EXCEPT ![t] = at], period' = [period EXCEPT ![t] = every],
         Live' = Live \cup {t}
  PROVE  Clock!Next
  <1>0. /\ TimerInv /\ TimerListInOrder /\ launch \in [TimerEvents -> Words]
        /\ period \in [TimerEvents -> 0 .. Half - 1] /\ ticks \in Words
        /\ timerList \in Seq(TimerEvents) /\ IsInjective(timerList)
        /\ Half \in Nat \ {0} /\ Wrap = 2 * Half
    BY HalfAssumption DEF Wrap, ClockInv, TimerInv, TimerTypeOK, TimersConserved
  <1>1. PICK d : d = TicksUntil(at, ticks)
    OBVIOUS
  <1>2. d \in 1 .. Half - 1 /\ d > 0 /\ every \in 0 .. Half - 1
    <2>1. d \in -Half .. Half - 1 /\ d > 0
      BY <1>0, <1>1, TicksUntilFacts DEF TicksBeforeOrAt
    <2> QED
      BY <1>0, <2>1
  <1>3. t \notin Range(timerList) /\ Live \subseteq TimerEvents
    BY <1>0, LiveFacts
  <1>4. LeftOf' = [b \in DOMAIN LeftOf \cup {t} |-> IF b = t THEN d ELSE LeftOf[b]]
    <2>1. \A b \in Live \cup {t} : Due(b)' = IF b = t THEN d ELSE Due(b)
      BY <1>0, <1>1, <1>3 DEF Due
    <2>2. LeftOf' = [b \in Live \cup {t} |-> Due(b)']
      BY DEF LeftOf
    <2> QED
      BY <2>1, <2>2 DEF LeftOf
  <1>5. EveryOf' = [b \in DOMAIN LeftOf \cup {t} |-> IF b = t THEN every ELSE EveryOf[b]]
    <2>1. \A b \in Live \cup {t} : period'[b] = IF b = t THEN every ELSE period[b]
      BY <1>0, <1>3
    <2>2. EveryOf' = [b \in Live \cup {t} |-> period'[b]]
      BY DEF EveryOf
    <2> QED
      BY <2>1, <2>2 DEF LeftOf, EveryOf
  <1>6. Live' \ Range(timerList') = Live \ Range(timerList)
    <2>1. Range(timerList') = Range(timerList) \cup {t}
      BY <1>0, <1>3, TimerSysAddFacts
    <2> QED
      BY <2>1
  <1>7. Ties(timerList', launch') = Ties(timerList, launch)
          \cup {<<b, t>> : b \in {c \in DOMAIN LeftOf \ (Live \ Range(timerList)) : LeftOf[c] = d}}
    <2>1. {c \in DOMAIN LeftOf \ (Live \ Range(timerList)) : LeftOf[c] = d}
            = {c \in Range(timerList) : Due(c) = TicksUntil(at, ticks)}
      BY <1>0, <1>1, ArmedAre
    <2>2. Ties(timerList', launch') = Ties(timerList, launch)
            \cup {<<b, t>> : b \in {c \in Range(timerList) : Due(c) = TicksUntil(at, ticks)}}
      BY <1>0, <1>3, TiesOfAdd
    <2> QED
      BY <2>1, <2>2
  <1>8. t \notin DOMAIN LeftOf
    BY DEF LeftOf
  <1>9. Clock!Arm(t, d, every)
    <2>1. Clock!Set(t, d, every)
      BY <1>4, <1>5 DEF Clock!Set, Clock!Living, LeftOf, EveryOf
    <2>2. Clock!ArmedFor(d) = {c \in DOMAIN LeftOf \ (Live \ Range(timerList)) : LeftOf[c] = d}
      BY DEF Clock!ArmedFor, Clock!Armed, Clock!Living, LeftOf
    <2>3. t \notin Clock!Living
      BY <1>8 DEF Clock!Living, LeftOf
    <2>4. Ties(timerList', launch') = Ties(timerList, launch) \cup {<<b, t>> : b \in Clock!ArmedFor(d)}
      BY <1>7, <2>2
    <2> QED
      BY <1>2, <1>6, <2>1, <2>3, <2>4, Zenon DEF Clock!Arm, Ties
  <1> QED
    BY <1>2, <1>9 DEF Clock!Next

(* A timer stops living.                                                    *)
LEMMA SimulateCancel ==
  ASSUME ClockInv, ~ ticking, UNCHANGED <<ticks, ticking, launch>>,
         NEW t \in Live, period' = [period EXCEPT ![t] = 0], Live' = Live \ {t},
         timerList' = Without(timerList, t)
  PROVE  Clock!Next
  <1>0. /\ TimerInv /\ period \in [TimerEvents -> 0 .. Half - 1]
        /\ timerList \in Seq(TimerEvents) /\ IsInjective(timerList)
    BY DEF ClockInv, TimerInv, TimerTypeOK, TimersConserved
  <1>1. Live \subseteq TimerEvents
    BY <1>0, LiveFacts
  <1>2. LeftOf' = [b \in DOMAIN LeftOf \ {t} |-> LeftOf[b]]
    BY DEF LeftOf, Due
  <1>3. EveryOf' = [b \in DOMAIN LeftOf \ {t} |-> EveryOf[b]]
    <2>1. \A b \in Live \ {t} : period'[b] = period[b]
      BY <1>0, <1>1
    <2> QED
      BY <2>1 DEF LeftOf, EveryOf
  <1>4. Live' \ Range(timerList') = (Live \ Range(timerList)) \ {t}
    <2>1. Range(timerList') = Range(timerList) \ {t}
      BY <1>0, WithoutFacts
    <2> QED
      BY <2>1
  <1>5. Ties(timerList', launch') = {r \in Ties(timerList, launch) : r[1] # t /\ r[2] # t}
    <2>1. \A r : r \in Ties(timerList', launch') <=>
                   (r \in Ties(timerList, launch) /\ r[1] # t /\ r[2] # t)
      BY <1>0, TiesOfWithout
    <2> QED
      BY <2>1
  <1>6. t \in DOMAIN LeftOf
    BY DEF LeftOf
  <1>7. Clock!Cancel(t)
    BY <1>2, <1>3, <1>4, <1>5, <1>6
       DEF Clock!Cancel, Clock!Drop, Clock!Forget, Clock!Living, LeftOf, EveryOf, Ties
  <1> QED
    BY <1>1, <1>7 DEF Clock!Next

(* A timer requested: armed if it is to come, else it does not live.        *)
LEMMA RequestSimulated ==
  ASSUME ClockInv, TimerInv', NEW t \in TimerEvents, NEW ev, NEW at \in Words,
         NEW every \in 0 .. Half - 1, every # 0 => at = TicksPlus(ticks, every),
         RequestWith(t, ev, at, every)
  PROVE  [Clock!Next]_(Clock!clockVars)
  <1>0. /\ TimerInv /\ launch \in [TimerEvents -> Words] /\ ticks \in Words
        /\ period \in [TimerEvents -> 0 .. Half - 1]
        /\ timerList \in Seq(TimerEvents) /\ IsInjective(timerList)
        /\ Half \in Nat \ {0} /\ ~ ticking
    BY HalfAssumption DEF ClockInv, TimerInv, TimerTypeOK, TimersConserved, RequestWith
  <1>1. /\ t \notin Range(timerList) \cup Range(queue) \cup {cur}
        /\ Range(timerFree') = Range(timerFree) \ {t}
        /\ StaticTimers \cup timerHeap' = StaticTimers \cup timerHeap \cup {t}
    BY <1>0, TimerStructGetFacts DEF RequestWith
  <1>2. /\ launch' = [launch EXCEPT ![t] = at] /\ period' = [period EXCEPT ![t] = every]
        /\ UNCHANGED <<ticks, ticking>>
    BY DEF RequestWith
  <1>3. /\ t \notin Posted /\ t \notin Live
        /\ Live \subseteq TimerEvents /\ Range(timerList) \subseteq Live
        /\ Posted \subseteq TimerEvents
    BY <1>0, <1>1, LiveFacts
  <1>4. \A u \in Live : launch'[u] = launch[u] /\ period'[u] = period[u]
    BY <1>0, <1>2, <1>3
  <1>5. CASE TicksBeforeOrAt(at, ticks) /\ timerList' = timerList
    <2>1. every = 0
      <3> SUFFICES ASSUME every # 0 PROVE FALSE
        OBVIOUS
      <3>1. TicksUntil(ticks, ticks) = 0
        BY <1>0, TicksUntilOwn
      <3>2. TicksUntil(at, ticks) = every
        BY <1>0, <3>1, TicksUntilLater
      <3> QED
        BY <1>0, <1>5, <3>2 DEF TicksBeforeOrAt
    <2>2. Posted' = Posted \cup {t}
      BY <1>1, <1>5 DEF Posted
    <2>3. Live' = Live
      <3>1. Live' = Range(timerList) \cup {u \in Posted \cup {t} : period'[u] # 0}
        BY <1>5, <2>2, LiveFactsThen
      <3>2. Live = Range(timerList) \cup {u \in Posted : period[u] # 0}
        BY <1>0, LiveFacts
      <3>3. period'[t] = 0 /\ \A u \in Posted : period'[u] = period[u]
        BY <1>0, <1>2, <1>3, <2>1
      <3> QED
        BY <3>1, <3>2, <3>3
    <2> QED
      BY <1>2, <1>3, <1>4, <1>5, <2>3, SimulateStill
  <1>6. CASE ~ TicksBeforeOrAt(at, ticks) /\ TimerSysAdd(t, at)
    <2>1. Range(timerList') = Range(timerList) \cup {t}
      BY <1>0, <1>1, <1>6, TimerSysAddFacts
    <2>2. Posted' = Posted
      BY <1>1, <1>3, <2>1 DEF Posted
    <2>3. Live' = Live \cup {t}
      <3>1. Live' = Range(timerList) \cup {t} \cup {u \in Posted : period'[u] # 0}
        BY <2>1, <2>2, LiveFactsThen
      <3>2. Live = Range(timerList) \cup {u \in Posted : period[u] # 0}
        BY <1>0, LiveFacts
      <3>3. \A u \in Posted : period'[u] = period[u]
        BY <1>0, <1>2, <1>3
      <3> QED
        BY <3>1, <3>2, <3>3
    <2> QED
      BY <1>0, <1>2, <1>3, <1>6, <2>3, SimulateArm
  <1> QED
    BY <1>5, <1>6 DEF RequestWith

(* A cancelled timer stops living, if it did live.                          *)
LEMMA CancelSimulated ==
  ASSUME ClockInv, TimerInv', ~ ticking, NEW t \in TimerEvents, Cancel(t),
         \/ t \in Range(timerList) \cup Range(queue)
         \/ t = cur /\ pc = "running"
  PROVE  [Clock!Next]_(Clock!clockVars)
  <1>0. /\ TimerInv /\ period \in [TimerEvents -> 0 .. Half - 1]
        /\ timerList \in Seq(TimerEvents) /\ IsInjective(timerList)
    BY DEF ClockInv, TimerInv, TimerTypeOK, TimersConserved
  <1>1. period' = [period EXCEPT ![t] = 0] /\ UNCHANGED <<ticks, ticking, launch, timerHeap>>
    BY DEF Cancel, TimerSysEventCancel
  <1>2. /\ Range(timerList) \subseteq Live /\ Live \subseteq TimerEvents
        /\ Posted \subseteq TimerEvents /\ Posted \cap Range(timerList) = {}
        /\ Live = Range(timerList) \cup {u \in Posted : period[u] # 0}
    BY <1>0, LiveFacts
  <1>3. /\ timerList' = Without(timerList, t)
        /\ Posted' \in {Posted, Posted \ {t}}
    <2>1. CASE state[t] = "RUNNING"
      <3>1. t \notin Range(timerList)
        BY <1>0, <2>1 DEF TimerInv, TimerStates
      <3>2. UNCHANGED <<timerList, timerFree>>
        BY <2>1 DEF Cancel, TimerSysEventCancel
      <3> QED
        BY <1>1, <3>1, <3>2 DEF Without, Posted
    <2>2. CASE state[t] # "RUNNING"
      <3>1. /\ t \in Range(timerList) \cup Range(queue)
            /\ t \in Range(timerList) <=> state[t] = "UNQUEUED"
        BY <1>0, <2>2 DEF TimerInv, TimerStates, StorageInv, StateAccurate
      <3>2. timerList' = Without(timerList, t)
        BY <3>1 DEF Cancel, TimerSysEventCancel, Without
      <3>3. Range(timerList') = Range(timerList) \ {t}
        BY <1>0, <3>2, WithoutFacts
      <3>4. Range(timerFree') = Range(timerFree) \cup {t}
        BY <1>0, <2>2, ConsKeepsDistinct DEF Cancel, TimerInv, TimerTypeOK
      <3>5. Posted' = Posted \ {t}
        BY <1>1, <3>3, <3>4 DEF Posted
      <3> QED
        BY <3>2, <3>5
    <2> QED
      BY <2>1, <2>2
  <1>4. Live' = Live \ {t}
    <2>1. Range(timerList') = Range(timerList) \ {t}
      BY <1>0, <1>3, WithoutFacts
    <2>2. Live' = (Range(timerList) \ {t}) \cup {u \in Posted' : period'[u] # 0}
      BY <2>1, LiveFactsThen
    <2>3. period'[t] = 0 /\ \A u \in Posted \ {t} : period'[u] = period[u]
      BY <1>0, <1>1, <1>2
    <2>4. {u \in Posted' : period'[u] # 0} = {u \in Posted : period[u] # 0} \ {t}
      BY <1>3, <2>3
    <2> QED
      BY <1>2, <2>2, <2>4
  <1>5. CASE t \in Live
    BY <1>1, <1>3, <1>4, <1>5, SimulateCancel
  <1>6. CASE t \notin Live
    <2>1. timerList' = timerList
      BY <1>2, <1>3, <1>6 DEF Without
    <2>2. \A u \in Live : launch'[u] = launch[u] /\ period'[u] = period[u]
      BY <1>0, <1>1, <1>2, <1>6
    <2> QED
      BY <1>1, <1>2, <1>4, <1>6, <2>1, <2>2, SimulateStill
  <1> QED
    BY <1>5, <1>6

(* A periodic timer whose handler has returned is set again from the time   *)
(* it was due, or posted again if that has passed; any other stops living.  *)
LEMMA FreeSimulated ==
  ASSUME ClockInv, TimerInv', FreeTimer
  PROVE  [Clock!Next]_(Clock!clockVars)
  <1>0. /\ TimerInv /\ TimerListInOrder /\ RungIsDue
        /\ launch \in [TimerEvents -> Words] /\ ticks \in Words
        /\ period \in [TimerEvents -> 0 .. Half - 1]
        /\ timerList \in Seq(TimerEvents) /\ IsInjective(timerList)
        /\ Half \in Nat \ {0}
    BY HalfAssumption DEF ClockInv, TimerInv, TimerTypeOK, TimersConserved
  <1>1. cur \in TimerEvents
    <2>1. cur \in Storage /\ allocator[cur] = "TIMER"
      BY <1>0, EventCoreAssumption DEF FreeTimer, TimerInv, StorageInv, TypeOK
    <2> QED
      BY <1>0, <2>1 DEF TimerInv, StorageInv, Ownership, Storage
  <1>2. UNCHANGED <<ticks, ticking, timerHeap, period>> /\ ~ ticking
    BY DEF FreeTimer
  <1>3. /\ Range(timerList) \subseteq Live /\ Live \subseteq TimerEvents
        /\ Posted \subseteq TimerEvents /\ Posted \cap Range(timerList) = {}
        /\ Live = Range(timerList) \cup {u \in Posted : period[u] # 0}
        /\ cur \in Posted /\ cur \notin Range(timerList)
    BY <1>0, <1>1, LiveFacts
  <1>4. Live' = Range(timerList') \cup {u \in Posted' : period[u] # 0}
    BY <1>2, LiveFactsThen
  <1>5. CASE /\ period[cur] = 0 /\ timerFree' = Cons(cur, timerFree)
             /\ UNCHANGED <<queueVars, launch, timerList>>
    <2>1. Range(timerFree') = Range(timerFree) \cup {cur}
      BY <1>0, <1>1, <1>5, ConsKeepsDistinct DEF TimerInv, TimerTypeOK
    <2>2. Posted' = Posted \ {cur}
      BY <1>2, <1>5, <2>1 DEF Posted
    <2>3. Live' = Live
      BY <1>3, <1>4, <1>5, <2>2
    <2> QED
      BY <1>2, <1>3, <1>5, <2>3, SimulateStill
  <1>6. CASE period[cur] # 0 /\ launch' = [launch EXCEPT ![cur] = NextLaunch(cur)]
    <2>1. PICK t \in TimerEvents : t = cur
      BY <1>1
    <2>2. PICK d : d = Due(t) + period[t]
      OBVIOUS
    <2>3. PICK next : next = NextLaunch(t)
      OBVIOUS
    <2>4. /\ t \in Live \ Range(timerList) /\ Due(t) <= 0 /\ Due(t) \in Int
          /\ launch' = [launch EXCEPT ![t] = next] /\ period[t] # 0
      BY <1>0, <1>3, <1>6, <2>1, <2>3, LiveFacts DEF RungIsDue
    <2>5. next \in Words /\ TicksUntil(next, ticks) = d /\ d \in Int
      <3>1. launch[t] \in Words /\ period[t] \in Nat /\ TicksUntil(launch[t], ticks) + period[t] < Half
        BY <1>0, <2>1, <2>4 DEF Due
      <3>2. /\ TicksPlus(launch[t], period[t]) \in Words
            /\ TicksUntil(TicksPlus(launch[t], period[t]), ticks) = TicksUntil(launch[t], ticks) + period[t]
        BY <1>0, <3>1, TicksUntilLater
      <3> QED
        BY <2>2, <2>3, <2>4, <3>1, <3>2 DEF NextLaunch, Due
    <2>6. \A b \in TimerEvents : Due(b)' = IF b = t THEN d ELSE Due(b)
      BY <1>0, <1>2, <2>1, <2>4, <2>5 DEF Due
    <2>7. ASSUME Live' = Live
          PROVE  Clock!Set(t, d, period[t]) /\ t \in DOMAIN LeftOf /\ LeftOf[t] + EveryOf[t] = d
                 /\ EveryOf[t] = period[t]
      <3>1. /\ DOMAIN LeftOf = Live /\ LeftOf[t] = Due(t) /\ EveryOf[t] = period[t]
            /\ t \in Live /\ Live \cup {t} = Live
        BY <2>4 DEF LeftOf, EveryOf
      <3>2. LeftOf' = [b \in Live |-> IF b = t THEN d ELSE LeftOf[b]]
        <4>1. LeftOf' = [b \in Live |-> Due(b)']
          BY <2>7 DEF LeftOf
        <4>2. \A b \in Live : Due(b)' = IF b = t THEN d ELSE LeftOf[b]
          BY <1>3, <2>6 DEF LeftOf
        <4> QED
          BY <4>1, <4>2
      <3>3. EveryOf' = [b \in Live |-> IF b = t THEN period[t] ELSE EveryOf[b]]
        BY <1>2, <2>7 DEF EveryOf
      <3>4. Clock!Set(t, d, period[t])
        BY <3>1, <3>2, <3>3 DEF Clock!Set, Clock!Living, LeftOf, EveryOf
      <3> QED
        BY <2>2, <3>1, <3>4
    <2>8. CASE TicksBeforeOrAt(next, ticks) /\ UNCHANGED <<timerFree, timerList>>
      <3>1. Posted' = Posted
        BY <1>2, <2>8 DEF Posted
      <3>2. Live' = Live
        BY <1>3, <1>4, <2>8, <3>1
      <3>3. d <= 0
        BY <2>5, <2>8 DEF TicksBeforeOrAt
      <3>4. Ties(timerList', launch') = Ties(timerList, launch)
        <4>1. PICK key : key = launch'
          OBVIOUS
        <4>2. \A x \in Range(timerList) : key[x] = launch[x]
          BY <1>0, <1>3, <2>4, <4>1
        <4>3. Ties(timerList, key) = Ties(timerList, launch)
          BY <4>2, TiesOfKeys
        <4> QED
          BY <2>8, <4>1, <4>3
      <3>5. Live' \ Range(timerList') = Live \ Range(timerList)
        BY <2>8, <3>2
      <3>6. Clock!Handled(t)
        <4>1. /\ Clock!Set(t, LeftOf[t] + EveryOf[t], EveryOf[t])
              /\ ~ (LeftOf[t] + EveryOf[t] > 0)
          BY <2>5, <2>7, <3>2, <3>3 DEF Clock!Set
        <4> QED
          BY <1>2, <2>4, <3>4, <3>5, <4>1 DEF Clock!Handled, LeftOf, EveryOf, Ties
      <3> QED
        BY <3>6 DEF Clock!Next
    <2>9. CASE ~ TicksBeforeOrAt(next, ticks) /\ TimerSysAdd(t, next) /\ UNCHANGED timerFree
      <3>0. Range(timerList') = Range(timerList) \cup {t}
        BY <1>0, <2>4, <2>9, TimerSysAddFacts
      <3>1. Posted' = Posted \ {t}
        BY <1>2, <2>9, <3>0 DEF Posted
      <3>2. Live' = Live
        BY <1>3, <1>4, <2>1, <2>4, <3>0, <3>1
      <3>3. d > 0
        BY <2>5, <2>9 DEF TicksBeforeOrAt
      <3>4. Ties(timerList', launch') = Ties(timerList, launch)
              \cup {<<b, t>> : b \in {c \in Range(timerList) : Due(c) = d}}
        <4>1. Ties(timerList', launch') = Ties(timerList, launch)
                \cup {<<b, t>> : b \in {c \in Range(timerList) : Due(c) = TicksUntil(next, ticks)}}
          BY <1>0, <1>2, <2>4, <2>5, <2>9, TiesOfAdd
        <4> QED
          BY <2>5, <4>1
      <3>5. Live' \ Range(timerList') = (Live \ Range(timerList)) \ {t}
        BY <3>0, <3>2
      <3>6. Clock!ArmedFor(d) = {c \in Range(timerList) : Due(c) = d}
        <4>1. {c \in DOMAIN LeftOf \ (Live \ Range(timerList)) : LeftOf[c] = d}
                = {c \in Range(timerList) : Due(c) = d}
          BY <1>0, ArmedAre
        <4> QED
          BY <4>1 DEF Clock!ArmedFor, Clock!Armed, Clock!Living, LeftOf
      <3>7. Clock!Handled(t)
        <4>1. /\ Clock!Set(t, LeftOf[t] + EveryOf[t], EveryOf[t])
              /\ LeftOf[t] + EveryOf[t] > 0
              /\ Ties(timerList', launch') = Ties(timerList, launch)
                   \cup {<<b, t>> : b \in Clock!ArmedFor(LeftOf[t] + EveryOf[t])}
          BY <2>7, <3>2, <3>3, <3>4, <3>6 DEF Clock!Set, Clock!ArmedFor
        <4> QED
          BY <1>2, <2>4, <3>5, <4>1 DEF Clock!Handled, LeftOf, EveryOf, Ties
      <3> QED
        BY <3>7 DEF Clock!Next
    <2> QED
      BY <1>6, <2>1, <2>3, <2>8, <2>9 DEF FreeTimer
  <1> QED
    BY <1>5, <1>6 DEF FreeTimer

(* The tick interrupt: the clock advances, what is due rings in order, and  *)
(* nothing due is left when it returns.                                     *)
LEMMA AdvanceSimulated ==
  ASSUME ClockInv, NEW n \in TickSteps, TickAdvance(n)
  PROVE  Clock!Next
  <1>0. /\ TimerInv /\ launch \in [TimerEvents -> Words] /\ ticks \in Words
        /\ n \in Nat /\ n \in 1 .. Wrap - 1 /\ MaxLag \in 0 .. Half /\ Half \in Nat \ {0}
    BY HalfAssumption, EventLoopAssumption DEF Words, Wrap, ClockInv, TimerInv, TimerTypeOK
  <1>1. /\ ticks' = TicksPlus(ticks, n) /\ ~ ticking /\ ticking' = TRUE
        /\ UNCHANGED <<queue, cur, timerList, launch, period>>
        /\ \A t \in Live : Due(t) - n >= -MaxLag
    BY DEF TickAdvance, coreVars, queueVars, loopVars
  <1>2. Live' = Live
    BY <1>1 DEF Live
  <1>3. \A t \in Live : Due(t)' = Due(t) - n
    <2> SUFFICES ASSUME NEW t \in Live
                 PROVE  TicksUntil(launch[t], TicksPlus(ticks, n)) = TicksUntil(launch[t], ticks) - n
      BY <1>1 DEF Due
    <2>1. launch[t] \in Words /\ TicksUntil(launch[t], ticks) - n >= -Half
      <3>1. t \in TimerEvents /\ Due(t) \in Int /\ Due(t) - n >= -MaxLag
        BY <1>0, <1>1, LiveFacts
      <3> QED
        BY <1>0, <3>1 DEF Due
    <2> QED
      BY <1>0, <2>1, TicksUntilAfter
  <1>4. LeftOf' = [b \in DOMAIN LeftOf |-> LeftOf[b] - n]
    BY <1>2, <1>3 DEF LeftOf
  <1>5. EveryOf' = EveryOf
    BY <1>1, <1>2 DEF EveryOf
  <1>6. /\ Live' \ Range(timerList') = Live \ Range(timerList)
        /\ Ties(timerList', launch') = Ties(timerList, launch)
    BY <1>1, <1>2
  <1>7. Clock!Advance(n)
    BY <1>1, <1>4, <1>5, <1>6 DEF Clock!Advance, Clock!Living, LeftOf, EveryOf, Ties
  <1> QED
    BY <1>0, <1>7 DEF Clock!Next

LEMMA ExpireSimulated ==
  ASSUME ClockInv, TimerInv', TickExpire
  PROVE  Clock!Next
  <1>0. /\ TimerInv /\ TimerListInOrder
        /\ launch \in [TimerEvents -> Words] /\ ticks \in Words
        /\ timerList \in Seq(TimerEvents) /\ IsInjective(timerList)
        /\ DOMAIN timerList = 1 .. Len(timerList)
    BY DEF ClockInv, TimerInv, TimerTypeOK, TimersConserved
  <1>1. /\ timerList # <<>> /\ TicksBeforeOrAt(launch[Head(timerList)], ticks)
        /\ timerList' = Tail(timerList) /\ ticking
        /\ UNCHANGED <<ticks, ticking, timerFree, timerHeap, launch, period>>
    BY DEF TickExpire, HeadIsDue
  <1>2. /\ 1 \in 1 .. Len(timerList) /\ timerList' = RemoveAt(timerList, 1)
        /\ Head(timerList) = timerList[1]
    BY <1>0, <1>1, TailIsRemoveAt
  <1>3. PICK t \in TimerEvents : t = timerList[1]
    BY <1>0, <1>2
  <1>4. t \in Range(timerList) /\ Range(timerList') = Range(timerList) \ {t}
    BY <1>0, <1>2, <1>3, RemoveKeepsDistinct DEF Range
  <1>5. /\ Range(timerList) \subseteq Live /\ Live \subseteq TimerEvents
        /\ Posted \cap Range(timerList) = {}
        /\ Live = Range(timerList) \cup {u \in Posted : period[u] # 0}
        /\ Range(timerList) \subseteq TimerEvents
        /\ \A u \in TimerEvents : Due(u) \in Int
    BY <1>0, LiveFacts
  <1>6. Posted' = Posted \cup {t}
    <2>1. t \in StaticTimers \cup timerHeap /\ t \notin Range(timerFree)
      BY <1>0, <1>4 DEF TimerInv, TimersConserved
    <2> QED
      BY <1>1, <1>4, <2>1 DEF Posted
  <1>7. Live' = (Range(timerList) \ {t}) \cup {u \in Posted \cup {t} : period[u] # 0}
    BY <1>1, <1>4, <1>6, LiveFactsThen
  <1>8. Ties(timerList', launch') = {r \in Ties(timerList, launch) : r[1] # t /\ r[2] # t}
    <2>1. \A r : r \in Ties(RemoveAt(timerList, 1), launch) <=>
                   (r \in Ties(timerList, launch) /\ r[1] # timerList[1] /\ r[2] # timerList[1])
      BY <1>0, <1>2, TiesOfRemove
    <2> QED
      BY <1>1, <1>2, <1>3, <2>1
  <1>9. ASSUME NEW b \in Range(timerList)
        PROVE  Due(t) <= Due(b) /\ <<b, t>> \notin Ties(timerList, launch)
    <2>1. PICK j \in 1 .. Len(timerList) : timerList[j] = b
      BY <1>0, <1>9 DEF Range
    <2>2. Due(t) <= Due(b)
      <3>1. CASE j = 1
        BY <1>3, <1>5, <2>1, <3>1
      <3>2. CASE 1 < j
        BY <1>0, <1>2, <1>3, <2>1, <3>2 DEF TimerListInOrder
      <3> QED
        BY <2>1, <3>1, <3>2
    <2>3. ~ Before(timerList, b, t)
      <3>1. \A k \in 1 .. Len(timerList) : timerList[k] = t => k = 1
        BY <1>0, <1>2, <1>3 DEF IsInjective
      <3> QED
        BY <1>0, <3>1 DEF Before
    <2> QED
      BY <2>2, <2>3, TiesAreBefore
  <1>10. /\ DOMAIN LeftOf \ (Live \ Range(timerList)) = Range(timerList)
         /\ \A b \in Range(timerList) : LeftOf[b] = Due(b)
         /\ EveryOf[t] = period[t]
    BY <1>0, <1>4, <1>5, ArmedAre DEF EveryOf
  <1>11. Due(t) <= 0
    BY <1>1, <1>2, <1>3 DEF Due, TicksBeforeOrAt
  <1>12. \A b \in DOMAIN LeftOf \ (Live \ Range(timerList)) :
           LeftOf[t] <= LeftOf[b] /\ <<b, t>> \notin Ties(timerList, launch)
    BY <1>4, <1>9, <1>10
  <1>13. \A b \in Live : Due(b)' = Due(b) /\ period'[b] = period[b]
    BY <1>1 DEF Due
  <1>14. CASE period[t] = 0
    <2>1. Live' = Live \ {t} /\ Live' \ Range(timerList') = Live \ Range(timerList)
      BY <1>4, <1>5, <1>7, <1>14
    <2>2. LeftOf' = [b \in DOMAIN LeftOf \ {t} |-> LeftOf[b]]
      BY <1>13, <2>1 DEF LeftOf
    <2>3. EveryOf' = [b \in DOMAIN LeftOf \ {t} |-> EveryOf[b]]
      BY <1>13, <2>1 DEF LeftOf, EveryOf
    <2>4. Clock!Drop(t)
      BY <2>2, <2>3 DEF Clock!Drop, Clock!Living, LeftOf, EveryOf
    <2>5. Clock!Ring(t)
      BY <1>1, <1>4, <1>8, <1>10, <1>11, <1>12, <1>14, <2>1, <2>4
         DEF Clock!Ring, Clock!Forget, Clock!Armed, Clock!Living, LeftOf, EveryOf, Ties
    <2> QED
      BY <2>5 DEF Clock!Next
  <1>15. CASE period[t] # 0
    <2>1. Live' = Live /\ Live' \ Range(timerList') = (Live \ Range(timerList)) \cup {t}
      BY <1>4, <1>5, <1>7, <1>15
    <2>2. LeftOf' = LeftOf /\ EveryOf' = EveryOf
      BY <1>13, <2>1 DEF LeftOf, EveryOf
    <2>3. Clock!Ring(t)
      BY <1>1, <1>4, <1>8, <1>10, <1>11, <1>12, <1>15, <2>1, <2>2
         DEF Clock!Ring, Clock!Forget, Clock!Armed, Clock!Living, LeftOf, EveryOf, Ties
    <2> QED
      BY <2>3 DEF Clock!Next
  <1> QED
    BY <1>14, <1>15

LEMMA DoneSimulated ==
  ASSUME ClockInv, TickDone
  PROVE  Clock!Next
  <1>0. TimerInv /\ TimerListInOrder
    BY DEF ClockInv
  <1>1. /\ ticking /\ ticking' = FALSE
        /\ UNCHANGED <<queue, cur, ticks, timerList, launch, period>>
    BY DEF TickDone, coreVars, queueVars, loopVars
  <1>2. Live' = Live
    BY <1>1 DEF Live
  <1>3. \A t \in Range(timerList) : Due(t) > 0
    <2>1. TimerListInOrder'
      BY <1>0, TickKeepsOrder DEF Tick
    <2> QED
      BY <1>1, <2>1 DEF TimerListInOrder, Due
  <1>4. \A b \in DOMAIN LeftOf \ (Live \ Range(timerList)) : LeftOf[b] > 0
    BY <1>0, <1>3, ArmedAre
  <1>5. LeftOf' = LeftOf /\ EveryOf' = EveryOf
    BY <1>1, <1>2 DEF LeftOf, EveryOf, Due
  <1>6. /\ Live' \ Range(timerList') = Live \ Range(timerList)
        /\ Ties(timerList', launch') = Ties(timerList, launch)
    BY <1>1, <1>2
  <1>7. Clock!Settle
    BY <1>1, <1>4, <1>5, <1>6
       DEF Clock!Settle, Clock!Armed, Clock!Living, LeftOf, EveryOf, Ties
  <1> QED
    BY <1>7 DEF Clock!Next

(* Each step is a step of the clock, or changes nothing it can see.         *)
LEMMA StepKeepsTime ==
  ASSUME ClockInv, TimerInv', ~ CancelWhileFreeing, [LoopNext]_vars
  PROVE  [Clock!Next]_(Clock!clockVars)
  <1>0. /\ TimerInv /\ ticks \in Words /\ Half \in Nat \ {0}
        /\ Instants \subseteq Words /\ Delays \subseteq Int /\ Periods \subseteq 1 .. Half - 1
        /\ \A ms \in Millis : LegacyTicks(ms) \in Int
    BY HalfAssumption, EventLoopAssumption DEF ClockInv, TimerInv, TimerTypeOK, LegacyTicks, TickPeriod
  <1>1. ASSUME NEW ev, NEW at \in Words, RequestTimer(ev, at, 0)
        PROVE  [Clock!Next]_(Clock!clockVars)
    <2>1. 0 \in 0 .. Half - 1
      BY <1>0
    <2>2. PICK t \in TimerEvents : RequestWith(t, ev, at, 0)
      BY <1>1 DEF RequestTimer
    <2> QED
      BY <2>1, <2>2, RequestSimulated
  <1>2. ASSUME NEW ev, NEW every \in Periods, RequestEvery(ev, every)
        PROVE  [Clock!Next]_(Clock!clockVars)
    <2>1. every \in 0 .. Half - 1 /\ TicksPlus(ticks, every) \in Words
      BY <1>0, TicksPlusType
    <2>2. PICK t \in TimerEvents : RequestWith(t, ev, TicksPlus(ticks, every), every)
      BY <1>2 DEF RequestEvery, RequestTimer
    <2>3. PICK at \in Words : at = TicksPlus(ticks, every)
      BY <2>1
    <2>4. RequestWith(t, ev, at, every)
      BY <2>2, <2>3 DEF RequestWith, TimerSysAdd
    <2> QED
      BY <2>1, <2>3, <2>4, RequestSimulated
  <1>3. ASSUME NEW ev, NEW n \in Int, RequestTimer(ev, TicksPlus(ticks, n), 0)
        PROVE  [Clock!Next]_(Clock!clockVars)
    <2>1. PICK at \in Words : at = TicksPlus(ticks, n)
      BY <1>0, TicksPlusType
    <2>2. RequestTimer(ev, at, 0)
      BY <1>3, <2>1 DEF RequestTimer, RequestWith, TimerSysAdd
    <2> QED
      BY <1>1, <2>2
  <1>4. CASE \E ev \in Sends : \/ \E at \in Instants : RequestAt(ev, at)
                               \/ \E in \in Delays : RequestIn(ev, in)
                               \/ \E every \in Periods : RequestEvery(ev, every)
                               \/ \E ms \in Millis : Request(ev, ms)
    <2>1. ASSUME NEW ev \in Sends, NEW at \in Instants, RequestAt(ev, at)
          PROVE  [Clock!Next]_(Clock!clockVars)
      BY <1>0, <1>1, <2>1 DEF RequestAt
    <2>2. ASSUME NEW ev \in Sends, NEW in \in Delays, RequestIn(ev, in)
          PROVE  [Clock!Next]_(Clock!clockVars)
      BY <1>0, <1>3, <2>2 DEF RequestIn
    <2>3. ASSUME NEW ev \in Sends, NEW ms \in Millis, Request(ev, ms)
          PROVE  [Clock!Next]_(Clock!clockVars)
      BY <1>0, <1>3, <2>3 DEF Request
    <2> QED
      BY <1>2, <1>4, <2>1, <2>2, <2>3
  <1>5. ASSUME NEW t \in TimerEvents, EventCancel(t)
        PROVE  [Clock!Next]_(Clock!clockVars)
    BY <1>5, CancelSimulated DEF EventCancel, ValidPointer
  <1>6. ASSUME NEW id \in EventIds, NEW receiver \in Ids, EventTimerCancel(id, receiver)
        PROVE  [Clock!Next]_(Clock!clockVars)
    <2>1. /\ Cancel(CancelTarget(id, receiver)) /\ ~ ticking
          /\ CancelTarget(id, receiver) \in TimerEvents \cap (Range(timerList) \cup Range(queue))
      BY <1>0, <1>6, CancelTargetFacts DEF EventTimerCancel
    <2>2. PICK t \in TimerEvents \cap (Range(timerList) \cup Range(queue)) : t = CancelTarget(id, receiver)
      BY <2>1
    <2>3. Cancel(t)
      BY <2>1, <2>2 DEF Cancel, TimerSysEventCancel
    <2> QED
      BY <2>1, <2>2, <2>3, CancelSimulated
  <1>7. CASE TimerCall
    BY <1>4, <1>5, <1>6, <1>7 DEF TimerCall
  <1>8. CASE UNCHANGED timerVars
    <2>1. UNCHANGED <<ticks, ticking, timerList, timerFree, timerHeap, launch, period>>
      BY <1>8 DEF timerVars
    <2>2. Posted' = Posted
      BY <2>1 DEF Posted
    <2>3. Live' = Live /\ Range(timerList) \subseteq Live
      BY <1>0, <2>1, <2>2, LiveFacts, LiveFactsThen
    <2> QED
      BY <2>1, <2>3, SimulateStill
  <1>9. CASE Tick
    BY <1>9, AdvanceSimulated, ExpireSimulated, DoneSimulated DEF Tick
  <1>10. CASE FreeTimer
    BY <1>10, FreeSimulated
  <1> QED
    BY <1>7, <1>8, <1>9, <1>10 DEF LoopNext, CoreLoopStep, CoreApiCall, CoreWrite, vars

(* The clock never takes a rung alarm back from the past.                   *)
LEMMA StepRungIsDue ==
  ASSUME TimerInv, RungIsDue, TimerInv', [Clock!Next]_(Clock!clockVars)
  PROVE  RungIsDue'
  <1>1. /\ DOMAIN LeftOf = Live /\ DOMAIN EveryOf = Live
        /\ \A b \in Live : LeftOf[b] = Due(b) /\ Due(b) \in Int
        /\ \A b \in Live : EveryOf[b] \in Int
    <2>1. Live \subseteq TimerEvents /\ \A b \in TimerEvents : Due(b) \in Int /\ period[b] \in Int
      BY HalfAssumption, LiveFacts DEF TimerInv, TimerTypeOK
    <2> QED
      BY <2>1 DEF LeftOf, EveryOf
  <1>2. \A b \in Live' : LeftOf'[b] = Due(b)'
    BY DEF LeftOf
  <1> DEFINE Rung == Live \ Range(timerList)
  <1>3. \A b \in Rung : b \in Live /\ LeftOf[b] <= 0
    BY <1>1 DEF RungIsDue
  <1> SUFFICES \A b \in Rung' : LeftOf'[b] <= 0
    BY <1>2 DEF RungIsDue
  <1>4. ASSUME NEW a, NEW d \in 1 .. Half - 1, NEW p, Clock!Arm(a, d, p)
        PROVE  \A b \in Rung' : LeftOf'[b] <= 0
    BY <1>1, <1>3, <1>4 DEF Clock!Arm, Clock!Set, Clock!Living, LeftOf
  <1>5. ASSUME NEW a, Clock!Cancel(a)
        PROVE  \A b \in Rung' : LeftOf'[b] <= 0
    BY <1>1, <1>3, <1>5 DEF Clock!Cancel, Clock!Drop, Clock!Living, LeftOf
  <1>6. ASSUME NEW a, Clock!Handled(a)
        PROVE  \A b \in Rung' : LeftOf'[b] <= 0
    <2>1. a \in Rung /\ a \in Live
      BY <1>3, <1>6 DEF Clock!Handled
    <2>2. PICK d \in Int : d = LeftOf[a] + EveryOf[a]
      BY <1>1, <2>1
    <2>3. \A b \in Live : LeftOf'[b] = IF b = a THEN d ELSE LeftOf[b]
      BY <1>1, <1>6, <2>2 DEF Clock!Handled, Clock!Set, Clock!Living, LeftOf, EveryOf
    <2>4. CASE d > 0
      <3>1. Rung' = Rung \ {a}
        BY <1>6, <2>2, <2>4 DEF Clock!Handled, LeftOf, EveryOf
      <3> QED
        BY <1>3, <2>3, <3>1
    <2>5. CASE ~ (d > 0)
      <3>1. Rung' = Rung
        BY <1>6, <2>2, <2>5 DEF Clock!Handled, LeftOf, EveryOf
      <3> QED
        BY <1>3, <2>2, <2>3, <2>5, <3>1
    <2> QED
      BY <2>2, <2>4, <2>5
  <1>7. ASSUME NEW a, Clock!Ring(a)
        PROVE  \A b \in Rung' : LeftOf'[b] <= 0
    BY <1>1, <1>3, <1>7 DEF Clock!Ring, Clock!Drop, Clock!Armed, Clock!Living, LeftOf, EveryOf
  <1>8. ASSUME NEW n \in 1 .. Wrap - 1, Clock!Advance(n)
        PROVE  \A b \in Rung' : LeftOf'[b] <= 0
    BY <1>1, <1>3, <1>8 DEF Clock!Advance, Clock!Living, LeftOf
  <1>9. CASE Clock!Settle \/ UNCHANGED Clock!clockVars
    BY <1>1, <1>3, <1>9 DEF Clock!Settle, Clock!clockVars, LeftOf
  <1> QED
    BY <1>4, <1>5, <1>6, <1>7, <1>8, <1>9 DEF Clock!Next

(* In true time no timer fires early, none is passed over by a tick, timers *)
(* fire in order and periodic ones keep their cadence, although the counter *)
(* wraps: system_timer.c implements AlarmClock.                             *)
THEOREM KeepsTimeForAll ==
  ASSUME ~ HandlerMayInvalidate, ~ CancelWhileFreeing
  PROVE  LoopSpec => KeepsTime
  <1>1. LoopInit => ClockInv /\ Clock!Init
    <2> SUFFICES ASSUME LoopInit
                 PROVE  ClockInv /\ Clock!Init
      OBVIOUS
    <2>1. /\ timerList = <<>> /\ queue = <<>> /\ cur = NoEvent /\ Range(timerList) = {}
          /\ Range(queue) = {} /\ NoEvent \notin TimerEvents /\ ticking = FALSE
      BY EventCoreAssumption DEF LoopInit, Init, Range, Storage
    <2>2. Live = {}
      BY <2>1 DEF Live
    <2>3. LeftOf = <<>> /\ EveryOf = <<>>
      BY <2>2 DEF LeftOf, EveryOf
    <2>4. Ties(timerList, launch) = {}
      BY <2>1 DEF Ties
    <2>5. TimerListInOrder /\ RungIsDue
      BY <2>1, <2>2 DEF TimerListInOrder, RungIsDue
    <2>6. Clock!Init
      BY <2>1, <2>2, <2>3, <2>4 DEF Clock!Init, LeftOf, EveryOf, Ties
    <2> QED
      BY <2>5, <2>6, InitTimerInv DEF ClockInv
  <1>2. ClockInv /\ [LoopNext]_vars => TimerInv'
    BY StepTimerInv DEF ClockInv
  <1>3. ClockInv /\ [LoopNext]_vars => [Clock!Next]_(Clock!clockVars)
    BY <1>2, StepKeepsTime
  <1>4. ClockInv /\ [LoopNext]_vars => ClockInv'
    BY <1>2, <1>3, StepTimerListInOrder, StepRungIsDue DEF ClockInv
  <1> QED
    BY <1>1, <1>3, <1>4, PTL DEF LoopSpec, KeepsTime, Clock!Spec
=============================================================================
