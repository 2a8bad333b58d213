-------------------------- MODULE TickSourceProofs --------------------------
(***************************************************************************)
(* Theorems about the tick timer on a callback timer, for any number of    *)
(* other timers, any width of the hardware counter and any period.         *)
(***************************************************************************)
EXTENDS TickSource, NsTimerProofs

(* What the event loop thread remembers of the tick timer: when it is off   *)
(* it is stopped, and when it waits the hardware runs for it.  Until it is  *)
(* registered no other timer is, and so its id is 0.                        *)
TickKnown ==
    /\ tick = "none" => timers = <<>>
    /\ tick # "on" => timerState[TickTimerId] = "STOP" /\ inTick = FALSE
    /\ inTick = TRUE => timerState[TickTimerId] = "STOP" /\ next # 0
    /\ TickTimerId \in Scheduled => running = TRUE

TickInv ==
    /\ CallsInv
    /\ LeftInv
    /\ tick \in {"none", "on", "stopping", "sleeping", "off"}
    /\ inTick \in BOOLEAN
    /\ TickKnown

(* Slots before the next tick, as Metronome has them.                       *)
BeatLeft == IF tick = "on" /\ TickTimerId \in Scheduled THEN Left(TickTimerId) ELSE 0

BeatMoves == [Beats!Next]_(Beats!metronomeVars)

LEMMA TickFacts ==
  /\ TickTimerId \in TimerIds /\ TickTimerId = 0
  /\ TickSlots \in 0 .. MaxSlots /\ TickSlots # 0
  BY NsTimerAssumption, TickSourceAssumption DEF TickTimerId, TimerIds

(* What the timer's state says of it.                                       *)
LEMMA TickStates ==
  ASSUME NsTimerTypeOK
  PROVE  /\ TickTimerId \in Scheduled <=> timerState[TickTimerId] \in {"ACTIVE", "HOLD"}
         /\ (TickTimerId \in InInterrupt) <=> timerState[TickTimerId] = "RUN_INTERRUPT"
         /\ timerState[TickTimerId] \in States
         /\ Left(TickTimerId) \in Nat
  BY TickFacts, LeftFacts DEF NsTimerTypeOK, InInterrupt, InState, States

-----------------------------------------------------------------------------
(* Steps that are not the tick timer's own. *)

(* A step that takes nothing from the tick timer but time it has waited.    *)
LEMMA OthersKeepTick ==
  ASSUME TickInv, CallsInv', LeftInv', UNCHANGED tickVars,
         tick = "none" => timers' = timers,
         inTick = TRUE => next' # 0,
         (TickTimerId \in Scheduled)' <=> TickTimerId \in Scheduled,
         (TickTimerId \in InInterrupt)' <=> TickTimerId \in InInterrupt,
         TickTimerId \in Scheduled => running' = TRUE
  PROVE  TickInv'
  <1>1. NsTimerTypeOK /\ NsTimerTypeOK'
    BY DEF TickInv, CallsInv
  <1>2. (TickTimerId \in Scheduled)' <=> timerState'[TickTimerId] \in {"ACTIVE", "HOLD"}
    BY <1>1, TickFacts DEF NsTimerTypeOK, Scheduled, InState, States
  <1>3. (TickTimerId \in InInterrupt)' <=> timerState'[TickTimerId] = "RUN_INTERRUPT"
    BY <1>1, TickFacts DEF NsTimerTypeOK, InInterrupt, InState, States
  <1>4. timerState'[TickTimerId] \in States
    BY <1>1, TickFacts DEF NsTimerTypeOK, States
  <1>5. timerState[TickTimerId] = "STOP" => timerState'[TickTimerId] = "STOP"
    BY <1>1, <1>2, <1>3, <1>4, TickStates DEF States
  <1> QED
    BY <1>5 DEF TickInv, TickKnown, tickVars

(* A step that leaves the tick timer where it was, with what it had left.   *)
LEMMA TickStutters ==
  ASSUME UNCHANGED tickVars,
         (TickTimerId \in Scheduled)' <=> TickTimerId \in Scheduled,
         TickTimerId \in Scheduled => Left(TickTimerId)' = Left(TickTimerId)
  PROVE  UNCHANGED Beats!metronomeVars
  <1>1. BeatLeft' = BeatLeft
    BY DEF BeatLeft, tickVars
  <1> QED
    BY <1>1 DEF Beats!metronomeVars, BeatLeft, tickVars

LEMMA ApplicationKeepsTick ==
  ASSUME TickInv, Application
  PROVE  TickInv' /\ (0 \notin Slots => BeatMoves)
  <1>0. /\ CallsInv /\ LeftInv /\ tick # "none" /\ inTick = FALSE /\ UNCHANGED tickVars
        /\ TickTimerId \in Scheduled => running = TRUE
    BY DEF TickInv, TickKnown, Application
  <1>1. CASE Register
    <2>1. CallsInv'
      BY <1>0, <1>1, RegisterKeepsCalls
    <2>2. /\ UNCHANGED <<InInterrupt, Scheduled, running>> /\ LeftInv'
          /\ \A u \in Scheduled : Left(u)' = Left(u)
      BY <1>0, <1>1, RegisterEffect
    <2> QED
      BY <1>0, <2>1, <2>2, OthersKeepTick, TickStutters DEF BeatMoves
  <1>2. ASSUME NEW t \in TimerIds \ {TickTimerId}, Unregister(t) \/ Stop(t)
        PROVE  TickInv' /\ BeatMoves
    <2>1. CallsInv'
      BY <1>0, <1>2, RegisterKeepsCalls, StopKeepsCalls
    <2>2. /\ Scheduled' = Scheduled \ {t}
          /\ InInterrupt' = InInterrupt \ {t}
          /\ \A u \in Scheduled \ {t} : Left(u)' = Left(u)
          /\ LeftInv'
      BY <1>0, <1>2, UnregisterEffect, StopEffect
    <2>3. running = TRUE => running' = TRUE
      BY <1>0, <1>2, UnregisterEffect, StopEffect
    <2>4. /\ (TickTimerId \in Scheduled)' <=> TickTimerId \in Scheduled
          /\ (TickTimerId \in InInterrupt)' <=> TickTimerId \in InInterrupt
          /\ TickTimerId \in Scheduled => Left(TickTimerId)' = Left(TickTimerId)
      BY <1>2, <2>2
    <2> QED
      BY <1>0, <2>1, <2>2, <2>3, <2>4, OthersKeepTick, TickStutters DEF BeatMoves
  <1>3. ASSUME NEW t \in TimerIds \ {TickTimerId}, NEW n \in Slots, Start(t, n)
        PROVE  TickInv' /\ (0 \notin Slots => BeatMoves)
    <2>0. n \in 0 .. MaxSlots /\ t \in TimerIds
      BY NsTimerAssumption
    <2>1. CallsInv'
      BY <1>0, <1>3, <2>0, StartKeepsCalls
    <2>2. /\ Scheduled' = Scheduled \cup {t}
          /\ InInterrupt' = InInterrupt \ {t}
          /\ LeftInv' /\ running' = TRUE
      BY <1>0, <1>3, <2>0, StartEffect
    <2>3. PICK late \in {0, 1} :
            /\ late = 1 => n = 0
            /\ running = TRUE => \A u \in Scheduled \ {t} : Left(u)' = Left(u) + late
      BY <1>0, <1>3, <2>0, StartEffect
    <2>4. /\ (TickTimerId \in Scheduled)' <=> TickTimerId \in Scheduled
          /\ (TickTimerId \in InInterrupt)' <=> TickTimerId \in InInterrupt
      BY <1>3, <2>2
    <2>5. ASSUME 0 \notin Slots, TickTimerId \in Scheduled
          PROVE  Left(TickTimerId)' = Left(TickTimerId)
      <3>1. late = 0
        BY <2>3, <2>5
      <3>2. Left(TickTimerId)' = Left(TickTimerId) + late
        BY <1>0, <1>3, <2>3, <2>5
      <3>3. Left(TickTimerId) \in Nat
        BY <1>0, TickStates DEF CallsInv
      <3> QED
        BY <3>1, <3>2, <3>3
    <2>6. 0 \notin Slots => BeatMoves
      BY <1>0, <2>4, <2>5, TickStutters DEF BeatMoves
    <2> QED
      BY <1>0, <2>1, <2>2, <2>4, <2>6, OthersKeepTick
  <1> QED
    BY <1>1, <1>2, <1>3 DEF Application

LEMMA HardwareKeepsTick ==
  ASSUME TickInv, HardwareStep
  PROVE  TickInv' /\ BeatMoves
  <1>0. /\ CallsInv /\ LeftInv /\ UNCHANGED tickVars
        /\ TickTimerId \in Scheduled => running = TRUE
        /\ inTick = TRUE => next # 0 /\ timerState[TickTimerId] = "STOP"
        /\ tick # "on" => timerState[TickTimerId] = "STOP"
    BY DEF TickInv, TickKnown, HardwareStep
  <1>1. CallsInv'
    BY <1>0, StepCallsInv DEF HardwareStep, NsTimerStep, Next
  <1>2. LeftInv'
    BY <1>0, StepLeftInv DEF HardwareStep, NsTimerStep, Next
  <1>3. NsTimerTypeOK
    BY <1>0 DEF CallsInv
  <1>4. CASE HalTick
    <2>1. /\ UNCHANGED <<InInterrupt, Scheduled, running>>
          /\ \A u \in Scheduled : Left(u) > 0 /\ Left(u)' = Left(u) - 1
      BY <1>0, <1>4, HalTickEffect
    <2>2. UNCHANGED <<timers, next>>
      BY <1>4 DEF HalTick, placeVars
    <2>3. TickInv'
      BY <1>0, <1>1, <1>2, <2>1, <2>2, OthersKeepTick
    <2>4. BeatMoves
      <3>1. CASE TickTimerId \in Scheduled
        <4>1. tick = "on"
          BY <1>0, <1>3, <3>1, TickStates
        <4>2. /\ BeatLeft = Left(TickTimerId) /\ BeatLeft' = Left(TickTimerId)'
              /\ Left(TickTimerId) > 0 /\ Left(TickTimerId)' = Left(TickTimerId) - 1
          BY <1>0, <2>1, <3>1, <4>1 DEF BeatLeft, tickVars
        <4>3. Beats!Pass
          BY <1>0, <4>1, <4>2 DEF Beats!Pass, BeatLeft, tickVars
        <4> QED
          BY <4>3 DEF BeatMoves, Beats!Next
      <3>2. CASE TickTimerId \notin Scheduled
        BY <1>0, <2>1, <3>2, TickStutters DEF BeatMoves
      <3> QED
        BY <3>1, <3>2
    <2> QED
      BY <2>3, <2>4
  <1>5. CASE Interrupt
    <2>1. /\ Due = {t \in Scheduled : Left(t) = 0}
          /\ InInterrupt' = InInterrupt \cup Due
          /\ Scheduled' = Scheduled \ Due
          /\ \A u \in Scheduled \ Due : Left(u)' = Left(u)
          /\ running' = TRUE \/ Scheduled' = {}
      BY <1>0, <1>5, InterruptEffect
    <2>2. inTick = FALSE /\ next' = 1 /\ timers' = timers
      BY <1>0, <1>5 DEF Interrupt, TickInv
    <2>3. CASE TickTimerId \in Due
      <3>1. timerState[TickTimerId] = "ACTIVE"
        BY <2>3 DEF Due, InState
      <3>2. tick = "on" /\ TickTimerId \in Scheduled
        BY <1>0, <1>3, <3>1, TickStates
      <3>3. TickTimerId \notin Scheduled'
        BY <2>1, <2>3
      <3>4. TickInv'
        BY <1>0, <1>1, <1>2, <2>2, <3>2, <3>3 DEF TickInv, TickKnown, tickVars
      <3>5. BeatLeft = 0 /\ BeatLeft' = 0
        BY <2>1, <2>3, <3>2, <3>3 DEF BeatLeft
      <3>6. UNCHANGED Beats!metronomeVars
        BY <1>0, <3>5 DEF Beats!metronomeVars, BeatLeft, tickVars
      <3> QED
        BY <3>4, <3>6 DEF BeatMoves
    <2>4. CASE TickTimerId \notin Due
      <3>1. /\ (TickTimerId \in Scheduled)' <=> TickTimerId \in Scheduled
            /\ (TickTimerId \in InInterrupt)' <=> TickTimerId \in InInterrupt
            /\ TickTimerId \in Scheduled => Left(TickTimerId)' = Left(TickTimerId)
            /\ TickTimerId \in Scheduled => running' = TRUE
        BY <2>1, <2>4
      <3> QED
        BY <1>0, <1>1, <1>2, <2>2, <3>1, OthersKeepTick, TickStutters DEF BeatMoves
    <2> QED
      BY <2>3, <2>4
  <1>6. CASE ~ inTick /\ ReturnFromInterrupt
    <2>1. UNCHANGED <<timers, timerState, remaining, running, hal>>
      BY <1>6 DEF ReturnFromInterrupt, halVars
    <2>2. UNCHANGED <<InInterrupt, Scheduled>> /\ \A u \in Scheduled : Left(u)' = Left(u)
      BY <1>0, <2>1, QuietEffect
    <2> QED
      BY <1>0, <1>1, <1>2, <1>6, <2>1, <2>2, OthersKeepTick, TickStutters DEF BeatMoves
  <1> QED
    BY <1>4, <1>5, <1>6 DEF HardwareStep

(* A callback begins: the tick timer's is the beat.                         *)
LEMMA CallBackKeepsTick ==
  ASSUME TickInv, CallBackBegins
  PROVE  TickInv' /\ BeatMoves
  <1>0. /\ CallsInv /\ LeftInv /\ NsTimerTypeOK /\ inTick = FALSE /\ tick' = tick
        /\ CallBack /\ tick \in {"none", "on", "stopping", "sleeping", "off"}
        /\ inTick' = (timers[Min(ToCall)] = TickTimerId)
        /\ TickTimerId \in Scheduled => running = TRUE
        /\ tick # "on" => timerState[TickTimerId] = "STOP"
        /\ tick = "none" => timers = <<>>
    BY DEF TickInv, TickKnown, CallBackBegins, CallsInv
  <1>1. CallsInv' /\ NsTimerTypeOK'
    BY <1>0, CallBackKeepsCalls DEF CallsInv
  <1>2. PICK t \in InInterrupt : InInterrupt' = InInterrupt \ {t} /\ t = timers[Min(ToCall)]
    BY <1>0, CallBackEffect
  <1>3. /\ UNCHANGED <<Scheduled, running>> /\ LeftInv'
        /\ \A u \in Scheduled : Left(u)' = Left(u)
    BY <1>0, CallBackEffect
  <1>4. timers' = timers
    BY <1>0 DEF CallBack
  <1>5. CASE t = TickTimerId
    <2>1. tick = "on" /\ TickTimerId \notin Scheduled /\ inTick' = TRUE
      BY <1>0, <1>2, <1>5, TickStates
    <2>2. next' # 0 /\ timerState'[TickTimerId] = "STOP"
      <3> DEFINE k == Min(ToCall)
      <3>1. next' = k + 1 /\ timerState' = [timerState EXCEPT ![t] = "STOP"]
        BY <1>0, <1>2 DEF CallBack
      <3>2. k \in ToCall
        <4>1. ToCall \in SUBSET Nat /\ ToCall # {}
          <5>1. DOMAIN timers \subseteq Nat
            BY <1>0 DEF CallsInv, NsTimerTypeOK
          <5> QED
            BY <1>0, <5>1, CallsAreFound DEF CallBack
        <4> QED
          BY <4>1, MinNat
      <3>3. k \in Nat
        BY <1>0, <3>2, CallsAreFound DEF CallsInv, NsTimerTypeOK
      <3> HIDE DEF k
      <3>4. timerState'[TickTimerId] = "STOP"
        BY <1>0, <1>5, <3>1, TickFacts DEF NsTimerTypeOK
      <3> QED
        BY <3>1, <3>3, <3>4
    <2>3. TickInv'
      BY <1>0, <1>1, <1>3, <2>1, <2>2 DEF TickInv, TickKnown
    <2>4. BeatLeft = 0 /\ BeatLeft' = 0
      BY <1>3, <2>1 DEF BeatLeft
    <2>5. Beats!Beat
      BY <1>0, <2>1, <2>4 DEF Beats!Beat, BeatLeft
    <2> QED
      BY <2>3, <2>5 DEF BeatMoves, Beats!Next
  <1>6. CASE t # TickTimerId
    <2>1. inTick' = FALSE
      BY <1>0, <1>2, <1>6
    <2>2. /\ (TickTimerId \in Scheduled)' <=> TickTimerId \in Scheduled
          /\ (TickTimerId \in InInterrupt)' <=> TickTimerId \in InInterrupt
          /\ UNCHANGED tickVars
      BY <1>0, <1>2, <1>3, <1>6, <2>1 DEF tickVars
    <2> QED
      BY <1>0, <1>1, <1>3, <1>4, <2>2, OthersKeepTick, TickStutters DEF BeatMoves
  <1> QED
    BY <1>5, <1>6

-----------------------------------------------------------------------------
(* The tick timer's own steps. *)

(* It is started: it has all its slots before it, whatever the others have. *)
LEMMA TickStarts ==
  ASSUME CallsInv, LeftInv, PlatformTickTimerStart
  PROVE  /\ CallsInv' /\ LeftInv' /\ timers # <<>>
         /\ TickTimerId \in Scheduled' /\ running' = TRUE
         /\ Left(TickTimerId)' = TickSlots
         /\ UNCHANGED <<timers, next>>
  <1>1. Start(TickTimerId, TickSlots)
    BY DEF PlatformTickTimerStart
  <1>2. UNCHANGED <<timers, next>> /\ timers # <<>>
    BY <1>1 DEF Start, placeVars, Range
  <1>3. CallsInv'
    BY <1>1, TickFacts, StartKeepsCalls
  <1>4. Scheduled' = Scheduled \cup {TickTimerId} /\ LeftInv' /\ running' = TRUE
    BY <1>1, TickFacts, StartEffect
  <1>5. PICK late \in {0, 1} :
          /\ late = 1 => TickSlots = 0
          /\ Left(TickTimerId)' = TickSlots + late
    BY <1>1, TickFacts, StartEffect
  <1>6. Left(TickTimerId)' = TickSlots
    BY <1>5, TickFacts
  <1> QED
    BY <1>2, <1>3, <1>4, <1>6

LEMMA RegisterKeepsTick ==
  ASSUME TickInv, PlatformTickTimerRegister
  PROVE  TickInv' /\ BeatMoves
  <1>0. /\ CallsInv /\ LeftInv /\ Register /\ tick = "none" /\ tick' = "off" /\ inTick' = inTick
        /\ inTick = FALSE /\ timerState[TickTimerId] = "STOP"
        /\ TickTimerId \in Scheduled => running = TRUE
    BY DEF TickInv, TickKnown, PlatformTickTimerRegister
  <1>1. CallsInv' /\ LeftInv' /\ UNCHANGED <<timerState, Scheduled, running>>
    BY <1>0, RegisterKeepsCalls, RegisterEffect
  <1>2. TickInv'
    BY <1>0, <1>1 DEF TickInv, TickKnown
  <1>3. UNCHANGED Beats!metronomeVars
    BY <1>0 DEF Beats!metronomeVars
  <1> QED
    BY <1>2, <1>3 DEF BeatMoves

LEMMA WakeupKeepsTick ==
  ASSUME TickInv, TimerSysWakeup
  PROVE  TickInv' /\ BeatMoves
  <1>0. /\ CallsInv /\ LeftInv /\ PlatformTickTimerStart
        /\ tick = "off" /\ tick' = "on" /\ inTick' = inTick /\ inTick = FALSE
    BY DEF TickInv, TickKnown, TimerSysWakeup
  <1>1. /\ CallsInv' /\ LeftInv'
        /\ TickTimerId \in Scheduled' /\ running' = TRUE
        /\ Left(TickTimerId)' = TickSlots
    BY <1>0, TickStarts
  <1>2. TickInv'
    BY <1>0, <1>1 DEF TickInv, TickKnown
  <1>3. BeatLeft' = TickSlots
    BY <1>0, <1>1 DEF BeatLeft
  <1>4. Beats!TurnOn
    BY <1>0, <1>3 DEF Beats!TurnOn, BeatLeft
  <1> QED
    BY <1>2, <1>4 DEF BeatMoves, Beats!Next

(* tick_timer_eventOS_callback: the next tick is as far away as the first.  *)
LEMMA TickCallbackKeepsTick ==
  ASSUME TickInv, TickTimerCallback
  PROVE  TickInv' /\ BeatMoves
  <1>0. /\ CallsInv /\ LeftInv /\ PlatformTickTimerStart
        /\ tick = "on" /\ tick' = tick /\ inTick' = FALSE /\ inTick = TRUE
    BY DEF TickInv, TickKnown, TickTimerCallback
  <1>1. /\ CallsInv' /\ LeftInv'
        /\ TickTimerId \in Scheduled' /\ running' = TRUE
        /\ Left(TickTimerId)' = TickSlots
    BY <1>0, TickStarts
  <1>2. TickInv'
    BY <1>0, <1>1 DEF TickInv, TickKnown
  <1>3. BeatLeft' = TickSlots
    BY <1>0, <1>1 DEF BeatLeft
  <1>4. Beats!CountAgain
    BY <1>0, <1>3 DEF Beats!CountAgain, BeatLeft
  <1> QED
    BY <1>2, <1>4 DEF BeatMoves, Beats!Next

LEMMA DisableKeepsTick ==
  ASSUME TickInv, TimerSysDisable
  PROVE  TickInv' /\ BeatMoves
  <1>0. /\ CallsInv /\ LeftInv /\ Stop(TickTimerId) /\ TickTimerId \in TimerIds
        /\ tick = "on" /\ tick' = "stopping" /\ inTick' = inTick /\ inTick = FALSE
    BY TickFacts DEF TickInv, TickKnown, TimerSysDisable
  <1>1. CallsInv' /\ NsTimerTypeOK'
    BY <1>0, StopKeepsCalls DEF CallsInv
  <1>2. /\ Scheduled' = Scheduled \ {TickTimerId}
        /\ InInterrupt' = InInterrupt \ {TickTimerId}
        /\ LeftInv'
    BY <1>0, StopEffect
  <1>3. timerState'[TickTimerId] = "STOP"
    <2>1. timerState'[TickTimerId] \in States
      BY <1>0, <1>1 DEF NsTimerTypeOK, States
    <2>2. timerState'[TickTimerId] \notin {"ACTIVE", "HOLD", "RUN_INTERRUPT"}
      BY <1>0, <1>2 DEF Scheduled, InInterrupt, InState
    <2> QED
      BY <2>1, <2>2 DEF States
  <1>4. TickInv'
    BY <1>0, <1>1, <1>2, <1>3 DEF TickInv, TickKnown
  <1>5. BeatLeft' = 0
    BY <1>0 DEF BeatLeft
  <1>6. Beats!TurnOff
    BY <1>0, <1>5 DEF Beats!TurnOff, BeatLeft
  <1> QED
    BY <1>4, <1>6 DEF BeatMoves, Beats!Next

(* ns_timer_sleep: the tick timer is stopped, and stays so.                 *)
LEMMA SleepKeepsTick ==
  ASSUME TickInv, TimerStopSleeps \/ TimerStopRefused
  PROVE  TickInv' /\ BeatMoves
  <1>0. /\ CallsInv /\ LeftInv /\ inTick' = inTick /\ inTick = FALSE
        /\ tick \in {"stopping", "sleeping"} /\ tick' \in {"sleeping", "off"}
        /\ timerState[TickTimerId] = "STOP"
    BY DEF TickInv, TickKnown, TimerStopSleeps, TimerStopRefused, tickVars
  <1>1. SleepChecks \/ SleepDisables \/ SleepMarks \/ UNCHANGED nsTimerVars
    BY DEF TimerStopSleeps, TimerStopRefused
  <1>2. CallsInv' /\ LeftInv'
    BY <1>0, <1>1, StepCallsInv, StepLeftInv DEF NsTimerStep
  <1>3. timerState' = timerState
    BY <1>1 DEF SleepChecks, SleepDisables, SleepMarks, nsTimerVars
  <1>4. TickTimerId \notin Scheduled'
    BY <1>0, <1>3 DEF Scheduled, InState
  <1>5. TickInv'
    BY <1>0, <1>2, <1>3, <1>4 DEF TickInv, TickKnown
  <1>6. UNCHANGED Beats!metronomeVars
    BY <1>0 DEF Beats!metronomeVars
  <1> QED
    BY <1>5, <1>6 DEF BeatMoves

-----------------------------------------------------------------------------
LEMMA StepKeepsTick ==
  ASSUME TickInv, [TickSourceNext]_tickSourceVars
  PROVE  TickInv' /\ (0 \notin Slots => BeatMoves)
  <1>1. CASE UNCHANGED tickSourceVars
    <2>1. UNCHANGED <<nsTimerVars, tick, inTick, timers, timerState, remaining, running, next, hal>>
      BY <1>1 DEF tickSourceVars, tickVars, nsTimerVars, placeVars, halVars
    <2>2. CallsInv' /\ LeftInv'
      BY <2>1, StepCallsInv, StepLeftInv DEF TickInv
    <2>3. UNCHANGED Scheduled /\ \A u \in Scheduled : Left(u)' = Left(u)
      BY <2>1, QuietEffect DEF TickInv
    <2>4. TickInv'
      BY <2>1, <2>2, <2>3 DEF TickInv, TickKnown
    <2>5. UNCHANGED Beats!metronomeVars
      BY <2>1, <2>3, TickStutters DEF tickVars
    <2> QED
      BY <2>4, <2>5 DEF BeatMoves
  <1> QED
    BY <1>1, RegisterKeepsTick, WakeupKeepsTick, DisableKeepsTick, SleepKeepsTick, CallBackKeepsTick,
       TickCallbackKeepsTick, HardwareKeepsTick, ApplicationKeepsTick DEF TickSourceNext

LEMMA InitTickInv == TickSourceInit => TickInv /\ Beats!Init
  <1> SUFFICES ASSUME TickSourceInit
               PROVE  TickInv /\ Beats!Init
    OBVIOUS
  <1>1. CallsInv
    BY InitCallsInv DEF TickSourceInit
  <1>2. /\ timers = <<>> /\ timerState = [t \in TimerIds |-> "STOP"]
        /\ tick = "none" /\ inTick = FALSE
    BY DEF TickSourceInit, Init
  <1>3. Scheduled = {} /\ \A t \in TimerIds : ~ Held(t)
    BY <1>2 DEF Scheduled, InState, Held
  <1>4. TickInv
    BY <1>1, <1>2, <1>3, TickFacts DEF TickInv, TickKnown, LeftInv
  <1>5. Beats!Init
    BY <1>2 DEF Beats!Init
  <1> QED
    BY <1>4, <1>5

(* The variables of ns_timer.c, and of the tick timer on it, keep their     *)
(* types: the ids and the slots fit in their int8_t and uint16_t.           *)
THEOREM TickSourceTyped == TickSourceSpec => []TickSourceTypeOK
  <1>1. TickInv => TickSourceTypeOK
    BY DEF TickInv, TickSourceTypeOK, CallsInv
  <1>2. TickInv /\ [TickSourceNext]_tickSourceVars => TickInv'
    BY StepKeepsTick
  <1> QED
    BY InitTickInv, <1>1, <1>2, PTL DEF TickSourceSpec

(* Whatever other timers are started and stopped, with a slot at least, and *)
(* whatever ns_timer_sleep has left them in, no tick comes early, none is   *)
(* missed or made twice, and none comes while the tick timer is stopped:    *)
(* the tick timer implements Metronome.                                     *)
THEOREM KeepsBeatForAll ==
  ASSUME 0 \notin Slots
  PROVE  TickSourceSpec => KeepsBeat
  <1>1. TickInv /\ [TickSourceNext]_tickSourceVars => TickInv'
    BY StepKeepsTick
  <1>2. TickInv /\ [TickSourceNext]_tickSourceVars => [Beats!Next]_(Beats!metronomeVars)
    BY StepKeepsTick DEF BeatMoves
  <1> QED
    BY InitTickInv, <1>1, <1>2, PTL DEF TickSourceSpec, KeepsBeat, Beats!Spec
=============================================================================
