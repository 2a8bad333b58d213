------------------------------- MODULE Timeout -------------------------------
(***************************************************************************)
(* source/ns_timeout.c on top of the timers: a timeout is a heap block, a  *)
(* timer whose event points to the block, and a pointer from the block     *)
(* back to the event.  The API belongs to the event loop thread (others    *)
(* hold eventOS_scheduler_mutex_wait instead); interrupts run between any  *)
(* two steps.                                                              *)
(***************************************************************************)
EXTENDS EventLoop

CONSTANTS
    TimeoutTasklet, \* timeout_tasklet
    Blocks,         \* heap blocks the size of a timeout_t
    NoBlock,        \* a null timeout_t pointer
    OnceMillis,     \* times given to eventOS_timeout_ms
    EveryMillis     \* periods given to eventOS_timeout_every_ms

(* eventOS_event_timer_ms_to_ticks. *)
MsToTicks(ms) == (ms + TickPeriod - 1) \div TickPeriod

(* event_type and event_id of the events to timeout_tasklet. *)
TimerEvent == 1

(* A uint32_t of milliseconds is less than 2^31 ticks. *)
ASSUME TimeoutAssumption ==
    /\ TimeoutTasklet \in Handlers
    /\ NoBlock \notin Blocks
    /\ OnceMillis \cup EveryMillis \subseteq Nat
    /\ \A ms \in EveryMillis : MsToTicks(ms) < Half
    /\ TimerEvent \in EventIds

VARIABLES
    blocks,    \* blocks in use
    eventOf,   \* timeout_t.event
    dataPtr,   \* data_ptr of the timers' events
    request,   \* the frame of eventOS_timeout_at_
    timer,     \* `timer' in timeout_tasklet's frame, NoEvent when there is none
    cancelled  \* the block eventOS_timeout_cancel is about to free or spare

frameVars == <<request, timer, cancelled>>
blockVars == <<blocks, eventOf, dataPtr>>
timeoutVars == <<blockVars, frameVars>>

NoRequest == [at |-> 0, period |-> 0, block |-> NoBlock, event |-> NoEvent]

TimeoutTypeOK ==
    /\ blocks \subseteq Blocks
    /\ eventOf \in [Blocks -> TimerEvents \cup {NoEvent}]
    /\ dataPtr \in [TimerEvents -> Blocks \cup {NoBlock}]
    /\ request \in [at : Words, period : 0 .. Half - 1, block : Blocks \cup {NoBlock}, event : TimerEvents \cup {NoEvent}]
    /\ timer \in TimerEvents \cup {NoEvent}
    /\ cancelled \in Blocks \cup {NoBlock}

(* The event loop thread is in none of the functions below, and outside a   *)
(* dispatch or in the callback of a timeout or another tasklet's handler.   *)
ThreadFree == request = NoRequest /\ cancelled = NoBlock
MayCallTimeouts == ThreadFree /\ LoopThreadCalls /\ Alive /\ ~ ticking

-----------------------------------------------------------------------------
(* eventOS_timeout_at_, from the read of the time by its caller to the      *)
(* creation of the tasklet.                                                 *)
TimeoutAt(at, p) ==
    /\ MayCallTimeouts
    /\ \E b \in Blocks \ blocks :
          /\ blocks' = blocks \cup {b}
          /\ request' = [NoRequest EXCEPT !.at = at, !.period = p, !.block = b]
    /\ IF TimeoutTasklet \in DOMAIN tasklets
       THEN UNCHANGED coreVars
       ELSE HandlerCreate(TimeoutTasklet)
    /\ UNCHANGED <<timerVars, eventOf, dataPtr, timer, cancelled>>

(* eventOS_timeout_ms, eventOS_timeout_every_ms. *)
TimeoutMs(ms) == TimeoutAt(TicksPlus(ticks, MsToTicks(ms)), 0)
TimeoutEveryMs(ms) == TimeoutAt(0, MsToTicks(ms))

(* The event it sends, TIMER_EVENT by type and id; the priority is left to  *)
(* the initialiser, as 0.                                                   *)
TimeoutEvent ==
    [receiver |-> tasklets[TimeoutTasklet], id |-> TimerEvent, priority |-> High]

Requesting == request.block # NoBlock /\ request.event = NoEvent /\ held[Loop] = NoEvent

TimeoutRequest ==
    /\ Requesting
    /\ \E t \in TimerEvents :
          /\ IF request.period # 0
             THEN RequestWith(t, TimeoutEvent, TicksPlus(ticks, request.period), request.period)
             ELSE RequestWith(t, TimeoutEvent, request.at, 0)
          /\ dataPtr' = [dataPtr EXCEPT ![t] = request.block]
          /\ request' = [request EXCEPT !.event = t]
    /\ UNCHANGED <<blocks, eventOf, timer, cancelled>>

(* No timer, or no tasklet: the block is freed again. *)
TimeoutFails ==
    /\ Requesting /\ ~ ticking
    /\ \/ timerFree = <<>> /\ TimerEvents = StaticTimers \cup timerHeap
       \/ tasklets[TimeoutTasklet] < 0
    /\ blocks' = blocks \ {request.block}
    /\ request' = NoRequest
    /\ UNCHANGED <<vars, eventOf, dataPtr, timer, cancelled>>

TimeoutStore ==
    /\ request.event # NoEvent /\ ~ ticking
    /\ eventOf' = [eventOf EXCEPT ![request.block] = request.event]
    /\ request' = NoRequest
    /\ UNCHANGED <<vars, blocks, dataPtr, timer, cancelled>>

-----------------------------------------------------------------------------
(* eventOS_timeout_cancel.  The pointer is valid until the callback of a    *)
(* single timeout has returned.                                             *)
TimeoutCancel(b) ==
    /\ MayCallTimeouts
    /\ b \in blocks
    /\ Cancel(eventOf[b])
    /\ cancelled' = b
    /\ UNCHANGED <<blockVars, request, timer>>

FaultyCancelFrees_Always ==
    /\ cancelled # NoBlock /\ ~ ticking
    /\ blocks' = blocks \ {cancelled}
    /\ cancelled' = NoBlock
    /\ UNCHANGED <<vars, eventOf, dataPtr, request, timer>>

FaultyCancelFrees_QueuedOnly ==
    /\ cancelled # NoBlock /\ ~ ticking
    /\ blocks' = IF state[eventOf[cancelled]] = "QUEUED" THEN blocks \ {cancelled} ELSE blocks
    /\ cancelled' = NoBlock
    /\ UNCHANGED <<vars, eventOf, dataPtr, request, timer>>

(* Freed at once, unless the cancel came from the callback.                 *)
CancelFrees ==
    /\ cancelled # NoBlock /\ ~ ticking
    /\ blocks' = IF state[eventOf[cancelled]] # "RUNNING" THEN blocks \ {cancelled} ELSE blocks
    /\ cancelled' = NoBlock
    /\ UNCHANGED <<vars, eventOf, dataPtr, request, timer>>

-----------------------------------------------------------------------------
(* timeout_tasklet: called by the dispatcher. *)

ForTimeouts(ev) ==
    /\ TimeoutTasklet \in DOMAIN tasklets
    /\ ev.receiver = tasklets[TimeoutTasklet]
    /\ ev.id = TimerEvent

IsTimeout(e) == e \in TimerEvents /\ ForTimeouts(data[e])

(* The tasklet does nothing with its init event, or with events of others.  *)
TaskletCalled ==
    /\ ThreadFree /\ ~ ticking
    /\ Dispatch
    /\ timer' = IF IsTimeout(Head(queue)) THEN eventOf[dataPtr[Head(queue)]] ELSE NoEvent
    /\ UNCHANGED <<timerVars, blockVars, request, cancelled>>

(* The callback has returned; the block is freed if the timer does not      *)
(* repeat, or does not any more.                                            *)
TaskletReturns ==
    /\ ThreadFree /\ ~ ticking
    /\ ReturnMark
    /\ blocks' = IF timer # NoEvent /\ period[timer] = 0 THEN blocks \ {dataPtr[cur]} ELSE blocks
    /\ timer' = NoEvent
    /\ UNCHANGED <<timerVars, eventOf, dataPtr, request, cancelled>>

-----------------------------------------------------------------------------
TimeoutInit ==
    /\ LoopInit
    /\ blocks = {}
    /\ eventOf = [b \in Blocks |-> NoEvent]
    /\ dataPtr = [t \in TimerEvents |-> NoBlock]
    /\ request = NoRequest
    /\ timer = NoEvent
    /\ cancelled = NoBlock

(* The rest of the loop, and other users of the timers, in any context.     *)
(* Nobody else knows the tasklet's id, which is static in ns_timeout.c, to  *)
(* send it a TIMER_EVENT.                                                   *)
OtherStep ==
    /\ \/ /\ ThreadFree /\ ~ ticking
          /\ \/ DispatchNothing
             \/ FreePool
             \/ \E f \in Handlers \ {TimeoutTasklet} : HandlerCreate(f)
          /\ UNCHANGED timerVars
       \/ CoreWrite(Loop)
       \/ FreeTimer
       \/ Tick
       \/ \E ev \in Sends, in \in Delays : ~ ForTimeouts(ev) /\ RequestIn(ev, in)
    /\ UNCHANGED timeoutVars

TimeoutNext ==
    \/ OtherStep
    \/ \E ms \in OnceMillis : TimeoutMs(ms)
    \/ \E ms \in EveryMillis : TimeoutEveryMs(ms)
    \/ TimeoutRequest
    \/ TimeoutFails
    \/ TimeoutStore
    \/ \E b \in Blocks : TimeoutCancel(b)
    \/ CancelFrees
    \/ TaskletCalled
    \/ TaskletReturns

allVars == <<vars, timeoutVars>>

TimeoutSpec == TimeoutInit /\ [][TimeoutNext]_allVars
-----------------------------------------------------------------------------
(* Properties. *)

InCallback(t) == t = cur /\ pc = "running" /\ IsTimeout(t)

(* Timers whose events will bring timeout_tasklet to a callback.            *)
ToCallBack ==
    {t \in TimerEvents : IsTimeout(t) /\
        \/ t \in Range(timerList) \cup Range(queue)
        \/ t = cur /\ pc = "freeing" /\ period[t] # 0}

Active == ToCallBack \cup {t \in TimerEvents : InCallback(t)}

(* No timer that will call back, or is calling back, points to a block that *)
(* was freed or to one that points elsewhere: what timeout_tasklet and      *)
(* eventOS_timeout_cancel read through these pointers is what was stored.   *)
NoUseAfterFree ==
    \A t \in Active :
        /\ dataPtr[t] \in blocks
        /\ eventOf[dataPtr[t]] = t \/ (request.block = dataPtr[t] /\ request.event = t)

(* A block is freed by eventOS_timeout_cancel or by timeout_tasklet: none   *)
(* is left that neither of them will come to.                               *)
NoTimeoutLeak ==
    \A b \in blocks :
        \/ b \in {request.block, cancelled}
        \/ \E t \in Active : dataPtr[t] = b

Promise == INSTANCE Callouts WITH
    Callbacks <- Blocks,
    None <- NoBlock,
    waiting <- {dataPtr[t] : t \in ToCallBack},
    repeats <- {dataPtr[t] : t \in {u \in Active : period[u] # 0}},
    calling <- IF cur \in TimerEvents /\ InCallback(cur) THEN dataPtr[cur] ELSE NoBlock

(* ns_timeout.c implements Callouts: each timeout is called back once, or   *)
(* again and again, and never after it was cancelled, wherever its event is *)
(* when eventOS_timeout_cancel is called.                                   *)
CallsAsAsked ==
    /\ Promise!Spec
    /\ [][\A b \in Blocks : TimeoutCancel(b) => Promise!Cancel(b)]_allVars
=============================================================================
