------------------------------ MODULE EventCore ------------------------------
(***************************************************************************)
(* source/event.c: tasklets, the active event queue, the pool of free      *)
(* event storage, and the dispatcher.                                      *)
(*                                                                         *)
(* A definition named Faulty... is a deliberately wrong variant of the     *)
(* definition that follows it and no part of the specification: checking   *)
(* with it in place shows that the properties can tell.                    *)
(*                                                                         *)
(* Contexts (Callers) are the event loop thread, interrupts and other      *)
(* threads.  nanostack_enter_critical ... nanostack_exit_critical is one   *)
(* step; what the code does between two critical sections is separate      *)
(* steps of the same context.                                              *)
(***************************************************************************)
EXTENDS Lists, FiniteSets

CONSTANTS
    Handlers,       \* functions that may be registered as tasklets
    PoolEvents,     \* startup_event_pool
    HeapCells,      \* heap blocks the size of an arm_event_storage_t
    TimerEvents,    \* the event member of every sys_timer_struct_s
    Callers,        \* contexts that call the API
    Loop,           \* the context that runs the event loop
    EventIds,       \* values of event_id
    MaxId,          \* INT8_MAX
    Sends,          \* the events the callers send
    NoEvent,        \* a null arm_event_storage_t pointer
    HandlerMayInvalidate \* TRUE: a handler frees the user event it was given

Storage == PoolEvents \cup HeapCells \cup TimerEvents

ASSUME EventCoreAssumption ==
    /\ MaxId \in Nat
    /\ Loop \in Callers
    /\ NoEvent \notin Storage
    /\ PoolEvents \cap HeapCells = {}
    /\ PoolEvents \cap TimerEvents = {}
    /\ HeapCells \cap TimerEvents = {}
    /\ IsFiniteSet(PoolEvents)
    /\ 0 \in EventIds
    /\ HandlerMayInvalidate \in BOOLEAN

(* arm_library_event_priority_e: the smaller, the more urgent. *)
High == 0
Medium == 1
Low == 2
Priorities == {High, Medium, Low}

(* The int8_t values a tasklet id takes. *)
Ids == -1 .. MaxId

Events == [receiver : Ids, id : EventIds, priority : Priorities]

ASSUME SendsAssumption == Sends \subseteq Events

VARIABLES
    tasklets,    \* arm_core_tasklet_list: registered function -> id
    queue,       \* event_queue_active
    freeEvents,  \* free_event_entry
    heap,        \* heap cells allocated, by event.c or by the application
    appCells,    \* heap cells the application owns
    allocator,   \* arm_event_storage_t.allocator
    state,       \* arm_event_storage_t.state
    data,        \* arm_event_storage_t.data
    held,        \* context -> storage got from event_core_get, not yet written
    pc,          \* where eventOS_scheduler_dispatch_event is
    cur,         \* cur_event
    currTasklet  \* curr_tasklet

queueVars == <<queue, state>>
storageVars == <<freeEvents, heap, appCells, allocator, data, held>>
loopVars == <<pc, cur, currTasklet>>
coreVars == <<tasklets, queueVars, storageVars, loopVars>>

TypeOK ==
    /\ DOMAIN tasklets \subseteq Handlers
    /\ \A f \in DOMAIN tasklets : tasklets[f] \in Ids
    /\ queue \in Seq(Storage)
    /\ freeEvents \in Seq(Storage)
    /\ heap \subseteq HeapCells
    /\ appCells \subseteq Storage
    /\ allocator \in [Storage -> {"STARTUP_POOL", "DYNAMIC", "USER", "TIMER"}]
    /\ state \in [Storage -> {"UNQUEUED", "QUEUED", "RUNNING"}]
    /\ data \in [Storage -> Events]
    /\ held \in [Callers -> Storage \cup {NoEvent}]
    /\ pc \in {"idle", "running", "freeing", "crashed"}
    /\ cur \in Storage \cup {NoEvent}
    /\ pc = "idle" <=> cur = NoEvent
    /\ currTasklet \in Ids

-----------------------------------------------------------------------------
(* Tasklets. *)

(* The conversion of an int8_t to uint8_t. *)
U8(id) == id % (2 * (MaxId + 1))

(* event_tasklet_handler_get: its parameter is a uint8_t, the id it is      *)
(* compared with an int8_t.                                                 *)
HandlerExists(id) == \E f \in DOMAIN tasklets : tasklets[f] = U8(id)

FaultyFreeId_OneTooFew ==
    LET unused == {i \in 0 .. MaxId - 1 : ~ HandlerExists(i)}
    IN  IF unused = {} THEN -1 ELSE Min(unused)

FaultyFreeId_OneTooMany ==
    LET unused == {i \in 1 .. MaxId + 1 : ~ HandlerExists(i)}
    IN  IF unused = {} THEN -1 ELSE Min(unused)

FaultyFreeId_ZeroIsNone ==
    LET unused == {i \in 1 .. MaxId : ~ HandlerExists(i)}
    IN  IF unused = {} THEN MaxId ELSE Min(unused)

(* tasklet_get_free_id. *)
TaskletGetFreeId ==
    LET unused == {i \in 0 .. MaxId : ~ HandlerExists(i)}
    IN  IF unused = {} THEN -1 ELSE Min(unused)

-----------------------------------------------------------------------------
(* The queue and the pool. *)

FaultyQueueBefore_EqualToo(e, priority) ==
    InsertBefore(queue, {i \in DOMAIN queue : data[queue[i]].priority >= priority}, e)

FaultyQueueBefore_Reversed(e, priority) ==
    InsertBefore(queue, {i \in DOMAIN queue : data[queue[i]].priority < priority}, e)

(* event_core_write puts an event before the first one of lower priority. *)
QueueBefore(e, priority) ==
    InsertBefore(queue, {i \in DOMAIN queue : data[queue[i]].priority > priority}, e)

Enqueue(e, priority) ==
    /\ queue' = QueueBefore(e, priority)
    /\ state' = [state EXCEPT ![e] = "QUEUED"]

FaultyEventCoreGet_NotUnlinked(a, ev) ==
    /\ held[a] = NoEvent
    /\ freeEvents # <<>>
    /\ held' = [held EXCEPT ![a] = Head(freeEvents)]
    /\ data' = [data EXCEPT ![Head(freeEvents)] = ev]
    /\ UNCHANGED <<freeEvents, heap, allocator, appCells>>

(* event_core_get and the filling in of the event:                          *)
(* context a gets storage from the pool, from the heap when the pool is     *)
(* empty, and copies ev into it.                                            *)
EventCoreGet(a, ev) ==
    /\ held[a] = NoEvent
    /\ \/ /\ freeEvents # <<>>
          /\ freeEvents' = Tail(freeEvents)
          /\ held' = [held EXCEPT ![a] = Head(freeEvents)]
          /\ data' = [data EXCEPT ![Head(freeEvents)] = ev]
          /\ UNCHANGED <<heap, allocator>>
       \/ /\ freeEvents = <<>>
          /\ \E c \in HeapCells \ heap :
                /\ heap' = heap \cup {c}
                /\ allocator' = [allocator EXCEPT ![c] = "DYNAMIC"]
                /\ held' = [held EXCEPT ![a] = c]
                /\ data' = [data EXCEPT ![c] = ev]
          /\ UNCHANGED freeEvents
    /\ UNCHANGED appCells

(* After a null dereference the program is gone. *)
Alive == pc # "crashed"

(* The second critical section of a send: the event joins the queue. *)
EventCoreWrite(a) ==
    /\ Alive
    /\ held[a] # NoEvent
    /\ Enqueue(held[a], data[held[a]].priority)
    /\ held' = [held EXCEPT ![a] = NoEvent]
    /\ UNCHANGED <<tasklets, freeEvents, heap, appCells, allocator, data, loopVars>>

(* The event loop thread calls the API from a handler, or outside a         *)
(* dispatch: before the loop is entered, between two dispatches.            *)
LoopThreadCalls == held[Loop] = NoEvent /\ pc \in {"idle", "running"}
MayCall(a) == Alive /\ (a = Loop => LoopThreadCalls)

(* eventOS_event_handler_create up to its event_core_write.  The tasklet    *)
(* list has no lock: only the event loop thread registers handlers.         *)
HandlerCreate(f) ==
    /\ LoopThreadCalls
    /\ f \in Handlers \ DOMAIN tasklets
    /\ EventCoreGet(Loop, [receiver |-> TaskletGetFreeId, id |-> 0, priority |-> Low])
    /\ tasklets' = [g \in DOMAIN tasklets \cup {f} |->
                      IF g = f THEN TaskletGetFreeId ELSE tasklets[g]]
    /\ UNCHANGED <<queueVars, loopVars>>

(* eventOS_event_send up to its event_core_write. *)
EventSend(a, ev) ==
    /\ MayCall(a)
    /\ HandlerExists(ev.receiver)
    /\ EventCoreGet(a, ev)
    /\ UNCHANGED <<tasklets, queueVars, loopVars>>

-----------------------------------------------------------------------------
(* User-allocated events: the application owns the storage until it sends   *)
(* the event, and again from the moment the receiver is called.             *)

AppAlloc(c) ==
    /\ Alive
    /\ c \in HeapCells \ heap
    /\ heap' = heap \cup {c}
    /\ appCells' = appCells \cup {c}
    /\ UNCHANGED <<tasklets, queueVars, freeEvents, allocator, data, held, loopVars>>

AppFree(c) ==
    /\ Alive
    /\ c \in appCells
    /\ c = cur => HandlerMayInvalidate
    /\ heap' = heap \ {c}
    /\ appCells' = appCells \ {c}
    /\ UNCHANGED <<tasklets, queueVars, freeEvents, allocator, data, held, loopVars>>

(* eventOS_event_send_user_allocated; the receiver must exist. *)
SendUserAllocated(c, ev) ==
    /\ Alive
    /\ c \in appCells
    /\ HandlerExists(ev.receiver)
    /\ data' = [data EXCEPT ![c] = ev]
    /\ allocator' = [allocator EXCEPT ![c] = "USER"]
    /\ appCells' = appCells \ {c}
    /\ Enqueue(c, ev.priority)
    /\ UNCHANGED <<tasklets, freeEvents, heap, held, loopVars>>

(* eventOS_cancel of a user-allocated event.  The pointer is valid while    *)
(* the event is queued; a running event is not changed by the call.         *)
CancelUser(i) ==
    /\ Alive
    /\ allocator[queue[i]] = "USER"
    /\ state[queue[i]] = "QUEUED"
    /\ queue' = RemoveAt(queue, i)
    /\ appCells' = appCells \cup {queue[i]}
    /\ UNCHANGED <<tasklets, state, freeEvents, heap, allocator, data, held, loopVars>>

-----------------------------------------------------------------------------
(* eventOS_scheduler_dispatch_event. *)

FaultyDispatch_NotMarked ==
    LET e == Head(queue)
    IN  /\ pc = "idle"
        /\ held[Loop] = NoEvent
        /\ queue # <<>>
        /\ queue' = Tail(queue)
        /\ cur' = e
        /\ currTasklet' = data[e].receiver
        /\ pc' = IF HandlerExists(data[e].receiver) THEN "running" ELSE "crashed"
        /\ appCells' = IF allocator[e] = "USER" THEN appCells \cup {e} ELSE appCells
        /\ UNCHANGED <<tasklets, state, freeEvents, heap, allocator, data, held>>

(* event_core_read of a nonempty queue, and the call of the receiver; a     *)
(* null tasklet is dereferenced.                                            *)
Dispatch ==
    LET e == Head(queue)
    IN  /\ pc = "idle"
        /\ held[Loop] = NoEvent
        /\ queue # <<>>
        /\ queue' = Tail(queue)
        /\ state' = [state EXCEPT ![e] = "RUNNING"]
        /\ cur' = e
        /\ currTasklet' = data[e].receiver
        /\ pc' = IF HandlerExists(data[e].receiver) THEN "running" ELSE "crashed"
        /\ appCells' = IF allocator[e] = "USER" THEN appCells \cup {e} ELSE appCells
        /\ UNCHANGED <<tasklets, freeEvents, heap, allocator, data, held>>

DispatchNothing ==
    /\ pc = "idle"
    /\ held[Loop] = NoEvent
    /\ queue = <<>>
    /\ currTasklet' = 0
    /\ UNCHANGED <<tasklets, queueVars, storageVars, pc, cur>>

(* The handler has returned. *)
HandlerReturned == pc = "running" /\ held[Loop] = NoEvent

BackToIdle ==
    /\ pc' = "idle"
    /\ cur' = NoEvent
    /\ currTasklet' = 0

FaultyReturnUser_Freed ==
    /\ HandlerReturned
    /\ allocator[cur] = "USER"
    /\ heap' = heap \ {cur}
    /\ BackToIdle
    /\ UNCHANGED <<tasklets, queueVars, freeEvents, appCells, allocator, data, held>>

(* event_core_free_push of a user event: forgotten. *)
ReturnUser ==
    /\ HandlerReturned
    /\ allocator[cur] = "USER"
    /\ BackToIdle
    /\ UNCHANGED <<tasklets, queueVars, storageVars>>

FaultyReturnDynamic_NotFreed ==
    /\ HandlerReturned
    /\ allocator[cur] = "DYNAMIC"
    /\ BackToIdle
    /\ UNCHANGED <<tasklets, queueVars, storageVars>>

(* event_core_free_push of a dynamic event: freed. *)
ReturnDynamic ==
    /\ HandlerReturned
    /\ allocator[cur] = "DYNAMIC"
    /\ heap' = heap \ {cur}
    /\ BackToIdle
    /\ UNCHANGED <<tasklets, queueVars, freeEvents, appCells, allocator, data, held>>

FaultyReturnMark_LeftRunning ==
    /\ HandlerReturned
    /\ allocator[cur] \in {"STARTUP_POOL", "TIMER"}
    /\ pc' = "freeing"
    /\ UNCHANGED <<tasklets, queueVars, storageVars, cur, currTasklet>>

(* event_core_free_push of a pool or timer event: it is marked before the   *)
(* lock is taken.                                                           *)
ReturnMark ==
    /\ HandlerReturned
    /\ allocator[cur] \in {"STARTUP_POOL", "TIMER"}
    /\ state' = [state EXCEPT ![cur] = "UNQUEUED"]
    /\ pc' = "freeing"
    /\ UNCHANGED <<tasklets, queue, storageVars, cur, currTasklet>>

FreePool ==
    /\ pc = "freeing"
    /\ allocator[cur] = "STARTUP_POOL"
    /\ freeEvents' = Cons(cur, freeEvents)
    /\ BackToIdle
    /\ UNCHANGED <<tasklets, queueVars, heap, appCells, allocator, data, held>>

(* eventOS_scheduler_set_active_tasklet, called by the event loop thread. *)
SetActiveTasklet(id) ==
    /\ LoopThreadCalls
    /\ currTasklet' = id
    /\ UNCHANGED <<tasklets, queueVars, storageVars, pc, cur>>

-----------------------------------------------------------------------------
(* eventOS_scheduler_init. *)
Init ==
    /\ tasklets = <<>>
    /\ queue = <<>>
    /\ freeEvents = SetToSeq(PoolEvents)
    /\ heap = {}
    /\ appCells = {}
    /\ allocator = [e \in Storage |-> "STARTUP_POOL"]
    /\ state = [e \in Storage |-> "UNQUEUED"]
    /\ data = [e \in Storage |-> [receiver |-> 0, id |-> 0, priority |-> High]]
    /\ held = [a \in Callers |-> NoEvent]
    /\ pc = "idle"
    /\ cur = NoEvent
    /\ currTasklet = 0

LoopStep ==
    \/ Dispatch
    \/ DispatchNothing
    \/ ReturnUser
    \/ ReturnDynamic
    \/ ReturnMark
    \/ FreePool

ApiCall ==
    \/ \E f \in Handlers : HandlerCreate(f)
    \/ \E a \in Callers, ev \in Sends : EventSend(a, ev)
    \/ \E c \in HeapCells : AppAlloc(c)
    \/ \E c \in HeapCells : AppFree(c)
    \/ \E c \in HeapCells, ev \in Sends : SendUserAllocated(c, ev)
    \/ \E i \in DOMAIN queue : CancelUser(i)
    \/ \E id \in Ids : SetActiveTasklet(id)

Next ==
    \/ LoopStep
    \/ ApiCall
    \/ \E a \in Callers : EventCoreWrite(a)

Spec == Init /\ [][Next]_coreVars

(* A started send is completed, a handler returns, and the loop goes on.    *)
Fairness ==
    /\ \A a \in Callers : WF_coreVars(EventCoreWrite(a))
    /\ WF_coreVars(LoopStep)

FairSpec == Spec /\ Fairness

-----------------------------------------------------------------------------
(* Properties. *)

HeldEvents == {held[a] : a \in Callers} \ {NoEvent}

(* Storage the event system has its hands on: queued, got by a sender but   *)
(* not yet written, or with the dispatcher.                                 *)
InFlight == Range(queue) \cup HeldEvents \cup {cur}

(* Every startup pool event is in one place and there only: on the free     *)
(* list, with one sender, in the queue once, or with the dispatcher.  The   *)
(* list operations of event_core_get, event_core_write, event_core_read and *)
(* event_core_free_push neither lose nor duplicate one.                     *)
PoolConserved ==
    /\ IsInjective(freeEvents)
    /\ IsInjective(queue)
    /\ \A a, b \in Callers : held[a] = held[b] => a = b \/ held[a] = NoEvent
    /\ Range(freeEvents) \cap InFlight = {}
    /\ Range(queue) \cap HeldEvents = {}
    /\ cur \notin HeldEvents
    /\ cur \in Range(queue) => cur \in HeapCells
    /\ PoolEvents \subseteq Range(freeEvents) \cup InFlight

(* No heap block is used after it was freed, and none is both the           *)
(* application's and the event system's: what is queued or being sent is    *)
(* allocated and is not the application's.                                  *)
QueuedEventsAllocated ==
    /\ (Range(queue) \cup HeldEvents) \cap HeapCells \subseteq heap
    /\ (Range(queue) \cup HeldEvents) \cap appCells = {}

(* No heap block is lost: one the application does not own is queued, being *)
(* sent or being handled, so that it will be freed or handed back.          *)
NoHeapLeak == heap \ appCells \subseteq InFlight

(* The queue is in order of priority.                                       *)
QueueByPriority ==
    \A i, j \in DOMAIN queue : i < j => data[queue[i]].priority <= data[queue[j]].priority

(* event->state, which eventOS_cancel trusts to tell whether to unlink an   *)
(* event, agrees with the lists: QUEUED exactly for what is in the queue,   *)
(* RUNNING exactly for the pool event in its handler, UNQUEUED otherwise.   *)
StateAccurate ==
    /\ \A e \in Range(queue) : state[e] = "QUEUED"
    /\ \A e \in PoolEvents :
         /\ state[e] = "QUEUED" => e \in Range(queue)
         /\ state[e] = "RUNNING" <=> e = cur /\ pc \in {"running", "crashed"}

(* Who owns the event being dispatched, and what the allocator field says   *)
(* of an event in flight: with this PoolConserved, QueuedEventsAllocated,   *)
(* NoHeapLeak and StateAccurate are inductive.                              *)
Ownership ==
    /\ appCells \subseteq heap
    /\ Range(freeEvents) \subseteq PoolEvents
    /\ HeldEvents \cap TimerEvents = {}
    /\ \A e \in PoolEvents : allocator[e] = "STARTUP_POOL"
    /\ \A e \in TimerEvents \cap (Range(queue) \cup {cur}) : allocator[e] = "TIMER"
    /\ \A c \in HeapCells \cap (Range(queue) \cup {cur}) : allocator[c] \in {"DYNAMIC", "USER"}
    /\ \A a \in Callers : held[a] \in HeapCells => allocator[held[a]] = "DYNAMIC"
    /\ pc = "freeing" => cur \notin HeapCells
    /\ cur \in HeapCells => cur \in heap
    /\ cur \in HeapCells /\ allocator[cur] = "DYNAMIC" => cur \notin appCells \cup Range(queue)
    /\ cur \in HeapCells /\ allocator[cur] = "USER" => cur \in appCells \cup Range(queue)

StorageInv ==
    /\ TypeOK
    /\ PoolConserved
    /\ QueuedEventsAllocated
    /\ NoHeapLeak
    /\ StateAccurate
    /\ Ownership

(* event_tasklet_handler_get finds a tasklet for every event dispatched:    *)
(* the comment in eventOS_scheduler_dispatch_event ("there is no possible   *)
(* issue there") that justifies calling through the pointer unchecked.      *)
NoNullTasklet == pc # "crashed"

(* Two tasklets never share an id, so that an event has one receiver.       *)
IdsUnique == IsInjective(tasklets)

(* A high priority event that is queued is eventually handled, unless it is *)
(* cancelled: later events, however many, do not overtake it.               *)
HighPriorityServed ==
    \A e \in PoolEvents \cup HeapCells :
        e \in Range(queue) /\ data[e].priority = High ~> e \notin Range(queue) \/ e = cur

(* The event queue is a mailbox. *)
Promised == INSTANCE Mailbox WITH
    Items <- Storage,
    Urgencies <- Priorities,
    None <- NoEvent,
    waiting <- [e \in Range(queue) |-> data[e].priority],
    older <- {<<queue[ij[1]], queue[ij[2]]>> : ij \in
                {ij \in (DOMAIN queue) \X (DOMAIN queue) :
                    /\ ij[1] < ij[2]
                    /\ data[queue[ij[1]]].priority = data[queue[ij[2]]].priority}},
    handling <- IF pc = "running" THEN cur ELSE NoEvent

(* event.c implements Mailbox: events are delivered once each, by priority  *)
(* and in the order of event_core_write within a priority, one at a time.   *)
DeliversInOrder == Promised!Spec
=============================================================================
