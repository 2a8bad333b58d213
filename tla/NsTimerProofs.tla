---------------------------- MODULE NsTimerProofs ----------------------------
(***************************************************************************)
(* Theorems about ns_timer.c, for any number of callback timers and any    *)
(* width of the hardware counter.                                          *)
(***************************************************************************)
EXTENDS NsTimer, ListFacts

States == {"ACTIVE", "HOLD", "RUN_INTERRUPT", "STOP"}
InInterrupt == InState(timerState, "RUN_INTERRUPT")

(* An id is in use while it is on the list, and on it once.                 *)
TimersListed ==
    /\ IsInjective(timers)
    /\ \A t \in TimerIds \ Range(timers) : timerState[t] = "STOP"

(* The interrupt's loop has not yet passed the timers it has to call, and   *)
(* its count does not run out before it has come to the last.               *)
CallsCounted ==
    /\ next = 0 => toCall = 0
    /\ Cardinality(InInterrupt) <= toCall
    /\ \A t \in InInterrupt : \E k \in DOMAIN timers : next <= k /\ timers[k] = t

CallsInv ==
    /\ NsTimerTypeOK
    /\ TimersListed
    /\ CallsCounted

-----------------------------------------------------------------------------
(* Helpers. *)

LEMMA IdsFinite == IsFiniteSet(TimerIds) /\ TimerIds \subseteq Nat
  BY FS_Interval, NsTimerAssumption DEF TimerIds

LEMMA StatesCounted ==
  ASSUME NEW st, NEW s
  PROVE  /\ IsFiniteSet(InState(st, s))
         /\ Cardinality(InState(st, s)) \in Nat
  <1>1. InState(st, s) \in SUBSET TimerIds
    BY DEF InState
  <1> QED
    BY <1>1, IdsFinite, FS_Subset, FS_CardinalityType

(* ns_timer_get_next_running_to with a timer on HOLD: what it does to each  *)
(* timer and to the hardware.                                               *)
LEMMA ActivateLeastFacts ==
  ASSUME NEW st \in [TimerIds -> States], NEW rem \in [TimerIds -> 0 .. MaxSlots],
         InState(st, "HOLD") # {}, ActivateLeast(st, rem)
  PROVE  \E least \in 0 .. MaxSlots :
           /\ \E t \in TimerIds : st[t] = "HOLD" /\ rem[t] = least
           /\ \A t \in TimerIds : st[t] = "HOLD" => least <= rem[t]
           /\ timerState' = [t \in TimerIds |->
                               IF st[t] = "HOLD" /\ rem[t] = least THEN "ACTIVE" ELSE st[t]]
           /\ remaining' = [t \in TimerIds |->
                              IF st[t] = "HOLD" /\ rem[t] # least THEN rem[t] - least ELSE rem[t]]
           /\ running' = TRUE
           /\ hal' = (IF least = 0 THEN 1 ELSE least)
           /\ halMode' = "COUNTING"
  <1> DEFINE R == {rem[t] : t \in InState(st, "HOLD")}
             least == Min(R)
  <1>1. R \in SUBSET Nat /\ R # {} /\ R \subseteq 0 .. MaxSlots
    BY NsTimerAssumption DEF InState
  <1>2. least \in R /\ \A x \in R : least <= x
    BY <1>1, MinNat
  <1>3. \A t \in TimerIds : st[t] = "HOLD" => rem[t] \in R
    BY DEF InState
  <1>4. \E t \in TimerIds : st[t] = "HOLD" /\ rem[t] = least
    BY <1>2 DEF InState
  <1>5. /\ timerState' = [t \in TimerIds |->
                            IF st[t] = "HOLD" /\ rem[t] = least THEN "ACTIVE" ELSE st[t]]
        /\ remaining' = [t \in TimerIds |->
                           IF st[t] = "HOLD" /\ rem[t] # least THEN rem[t] - least ELSE rem[t]]
        /\ StartPlTimer(least)
    BY DEF ActivateLeast
  <1> HIDE DEF least, R
  <1> QED
    BY <1>1, <1>2, <1>3, <1>4, <1>5 DEF StartPlTimer, PlatformTimerStart

(* The types it leaves behind; it puts nobody into the interrupt.           *)
LEMMA ActivateLeastTypes ==
  ASSUME NEW st \in [TimerIds -> States], NEW rem \in [TimerIds -> 0 .. MaxSlots],
         InState(st, "HOLD") # {}, ActivateLeast(st, rem)
  PROVE  /\ timerState' \in [TimerIds -> States]
         /\ remaining' \in [TimerIds -> 0 .. MaxSlots]
         /\ running' \in BOOLEAN
         /\ hal' \in 0 .. MaxSlots
         /\ halMode' = "COUNTING"
         /\ \A t \in TimerIds : st[t] # "HOLD" => timerState'[t] = st[t]
         /\ InState(timerState', "RUN_INTERRUPT") = InState(st, "RUN_INTERRUPT")
  <1>1. PICK least \in 0 .. MaxSlots :
           /\ \A t \in TimerIds : st[t] = "HOLD" => least <= rem[t]
           /\ timerState' = [t \in TimerIds |->
                               IF st[t] = "HOLD" /\ rem[t] = least THEN "ACTIVE" ELSE st[t]]
           /\ remaining' = [t \in TimerIds |->
                              IF st[t] = "HOLD" /\ rem[t] # least THEN rem[t] - least ELSE rem[t]]
           /\ running' = TRUE
           /\ hal' = (IF least = 0 THEN 1 ELSE least)
           /\ halMode' = "COUNTING"
    BY ActivateLeastFacts
  <1>2. \A t \in TimerIds : rem[t] \in 0 .. MaxSlots /\ st[t] \in States
    OBVIOUS
  <1>3. timerState' \in [TimerIds -> States]
    BY <1>1, <1>2 DEF States
  <1>4. remaining' \in [TimerIds -> 0 .. MaxSlots]
    <2>1. ASSUME NEW t \in TimerIds
          PROVE  remaining'[t] \in 0 .. MaxSlots
      BY <1>1, <1>2, NsTimerAssumption
    <2> QED
      BY <1>1, <2>1
  <1> QED
    BY <1>1, <1>3, <1>4, NsTimerAssumption DEF InState

LEMMA Uint16Type == \A n \in Int : uint16(n) \in 0 .. MaxSlots
  BY NsTimerAssumption DEF uint16

-----------------------------------------------------------------------------
(* Types, the list and the calls of the interrupt. *)

(* Calls of the API, the hardware and ns_timer_sleep leave the list and the *)
(* interrupt's loop alone; a call can only take timers from it.             *)
LEMMA QuietKeepsCalls ==
  ASSUME CallsInv, UNCHANGED <<timers, toCall, next>>,
         timerState' \in [TimerIds -> States],
         remaining' \in [TimerIds -> 0 .. MaxSlots],
         running' \in BOOLEAN,
         sleeping' \in {"no", "checked", "disabled"},
         hal' \in 0 .. MaxSlots,
         halMode' \in {"IDLE", "COUNTING", "DISABLED"},
         InState(timerState', "RUN_INTERRUPT") \subseteq InInterrupt,
         \A t \in TimerIds \ Range(timers) : timerState'[t] = "STOP"
  PROVE  CallsInv'
  <1>1. NsTimerTypeOK'
    BY DEF CallsInv, NsTimerTypeOK, States
  <1>2. TimersListed'
    BY DEF CallsInv, TimersListed
  <1>3. Cardinality(InState(timerState', "RUN_INTERRUPT")) <= Cardinality(InInterrupt)
    BY StatesCounted, FS_Subset DEF InInterrupt
  <1>4. Cardinality(InState(timerState', "RUN_INTERRUPT")) <= toCall
    BY <1>3, StatesCounted DEF InInterrupt, CallsInv, CallsCounted, NsTimerTypeOK
  <1>5. CallsCounted'
    BY <1>4 DEF CallsInv, CallsCounted, InInterrupt
  <1> QED
    BY <1>1, <1>2, <1>5 DEF CallsInv

LEMMA StartKeepsCalls ==
  ASSUME CallsInv, NEW t \in TimerIds, NEW n \in 0 .. MaxSlots, Start(t, n)
  PROVE  CallsInv'
  <1>0. /\ t \in Range(timers) /\ UNCHANGED <<timers, toCall, next, sleeping>>
        /\ timerState \in [TimerIds -> States] /\ remaining \in [TimerIds -> 0 .. MaxSlots]
        /\ running \in BOOLEAN /\ sleeping \in {"no", "checked", "disabled"}
        /\ hal \in 0 .. MaxSlots /\ halMode \in {"IDLE", "COUNTING", "DISABLED"}
        /\ \A u \in TimerIds \ Range(timers) : timerState[u] = "STOP"
    BY DEF Start, placeVars, CallsInv, NsTimerTypeOK, TimersListed, States
  <1>1. CASE StartShorter(t, n)
    <2> DEFINE excess == [u \in TimerIds |-> IF timerState[u] = "HOLD" THEN remaining[u] ELSE 0]
    <2>1. /\ timerState' = [u \in TimerIds |->
                              IF u = t THEN "ACTIVE"
                              ELSE IF u \in Scheduled THEN "HOLD" ELSE timerState[u]]
          /\ remaining' = [u \in TimerIds |->
                              IF u = t THEN n
                              ELSE IF u \in Scheduled THEN uint16(excess[u] + (hal - n))
                              ELSE remaining[u]]
          /\ running' = TRUE /\ halMode' = "COUNTING"
          /\ hal' = (IF n = 0 THEN 1 ELSE n)
      BY <1>1 DEF StartShorter, StartPlTimer, PlatformTimerStart
    <2>2. \A u \in TimerIds : excess[u] + (hal - n) \in Int
      BY <1>0
    <2> HIDE DEF excess
    <2>3. remaining' \in [TimerIds -> 0 .. MaxSlots]
      BY <1>0, <2>1, <2>2, Uint16Type
    <2>4. timerState' \in [TimerIds -> States]
      BY <1>0, <2>1 DEF States
    <2>5. /\ InState(timerState', "RUN_INTERRUPT") \subseteq InInterrupt
          /\ \A u \in TimerIds \ Range(timers) : timerState'[u] = "STOP"
      BY <1>0, <2>1 DEF InState, InInterrupt, Scheduled
    <2>6. hal' \in 0 .. MaxSlots
      BY <2>1, NsTimerAssumption
    <2> QED
      BY <1>0, <2>1, <2>3, <2>4, <2>5, <2>6, QuietKeepsCalls
  <1>2. CASE StartLonger(t, n) \/ StartEqual(t, n)
    <2>1. remaining' \in [TimerIds -> 0 .. MaxSlots]
      BY <1>0, <1>2, NsTimerAssumption DEF StartLonger, StartEqual
    <2>2. timerState' \in [TimerIds -> States]
      BY <1>0, <1>2 DEF StartLonger, StartEqual, States
    <2>3. UNCHANGED <<running, hal, halMode>>
      BY <1>2 DEF StartLonger, StartEqual, halVars
    <2>4. /\ InState(timerState', "RUN_INTERRUPT") \subseteq InInterrupt
          /\ \A u \in TimerIds \ Range(timers) : timerState'[u] = "STOP"
      BY <1>0, <1>2 DEF StartLonger, StartEqual, InState, InInterrupt
    <2> QED
      BY <1>0, <2>1, <2>2, <2>3, <2>4, QuietKeepsCalls
  <1>3. CASE StartIdle(t, n)
    <2> DEFINE st == [timerState EXCEPT ![t] = "HOLD"]
               rem == [remaining EXCEPT ![t] = n]
    <2>1. /\ st \in [TimerIds -> States] /\ rem \in [TimerIds -> 0 .. MaxSlots]
          /\ st[t] = "HOLD" /\ \A u \in TimerIds \ {t} : st[u] = timerState[u]
      BY <1>0 DEF States
    <2>2. InState(st, "HOLD") # {}
      BY <2>1 DEF InState
    <2>3. ActivateLeast(st, rem)
      BY <1>3, <2>2 DEF StartIdle, GetNextRunningTo
    <2> HIDE DEF st, rem
    <2>4. /\ timerState' \in [TimerIds -> States] /\ remaining' \in [TimerIds -> 0 .. MaxSlots]
          /\ running' \in BOOLEAN /\ hal' \in 0 .. MaxSlots /\ halMode' = "COUNTING"
          /\ \A u \in TimerIds : st[u] # "HOLD" => timerState'[u] = st[u]
          /\ InState(timerState', "RUN_INTERRUPT") = InState(st, "RUN_INTERRUPT")
      BY <2>1, <2>2, <2>3, ActivateLeastTypes
    <2>5. /\ InState(timerState', "RUN_INTERRUPT") \subseteq InInterrupt
          /\ \A u \in TimerIds \ Range(timers) : timerState'[u] = "STOP"
      BY <1>0, <2>1, <2>4 DEF InState, InInterrupt
    <2> QED
      BY <1>0, <2>4, <2>5, QuietKeepsCalls
  <1> QED
    BY <1>1, <1>2, <1>3 DEF Start

LEMMA StopKeepsCalls ==
  ASSUME CallsInv, NEW t \in TimerIds, Stop(t)
  PROVE  CallsInv'
  <1> DEFINE st == [timerState EXCEPT ![t] = "STOP"]
             rem == [u \in TimerIds |-> IF u = t THEN 0
                                        ELSE IF st[u] = "HOLD" THEN uint16(remaining[u] + hal)
                                        ELSE remaining[u]]
  <1>0. /\ UNCHANGED <<timers, toCall, next, sleeping>>
        /\ timerState \in [TimerIds -> States] /\ remaining \in [TimerIds -> 0 .. MaxSlots]
        /\ running \in BOOLEAN /\ sleeping \in {"no", "checked", "disabled"}
        /\ hal \in 0 .. MaxSlots /\ halMode \in {"IDLE", "COUNTING", "DISABLED"}
        /\ \A u \in TimerIds \ Range(timers) : timerState[u] = "STOP"
    BY DEF Stop, placeVars, CallsInv, NsTimerTypeOK, TimersListed, States
  <1>1. /\ st \in [TimerIds -> States] /\ st[t] = "STOP"
        /\ \A u \in TimerIds \ {t} : st[u] = timerState[u]
    BY <1>0 DEF States
  <1>2. rem \in [TimerIds -> 0 .. MaxSlots]
    <2>1. \A u \in TimerIds : remaining[u] + hal \in Int /\ remaining[u] \in 0 .. MaxSlots
      BY <1>0
    <2> QED
      BY <2>1, Uint16Type, NsTimerAssumption
  <1>3. CASE InState(st, "ACTIVE") = {} /\ InState(st, "HOLD") # {}
    <2>1. ActivateLeast(st, rem)
      BY <1>3 DEF Stop
    <2> HIDE DEF st, rem
    <2>2. /\ timerState' \in [TimerIds -> States] /\ remaining' \in [TimerIds -> 0 .. MaxSlots]
          /\ running' \in BOOLEAN /\ hal' \in 0 .. MaxSlots /\ halMode' = "COUNTING"
          /\ \A u \in TimerIds : st[u] # "HOLD" => timerState'[u] = st[u]
          /\ InState(timerState', "RUN_INTERRUPT") = InState(st, "RUN_INTERRUPT")
      BY <1>1, <1>2, <1>3, <2>1, ActivateLeastTypes
    <2>3. /\ InState(timerState', "RUN_INTERRUPT") \subseteq InInterrupt
          /\ \A u \in TimerIds \ Range(timers) : timerState'[u] = "STOP"
      BY <1>0, <1>1, <2>2 DEF InState, InInterrupt
    <2> QED
      BY <1>0, <2>2, <2>3, QuietKeepsCalls
  <1>4. CASE ~ (InState(st, "ACTIVE") = {} /\ InState(st, "HOLD") # {})
    <2>1. /\ timerState' = st /\ remaining' = [remaining EXCEPT ![t] = 0]
          /\ UNCHANGED <<running, hal, halMode>>
      BY <1>4 DEF Stop, halVars
    <2> HIDE DEF st, rem
    <2>2. remaining' \in [TimerIds -> 0 .. MaxSlots]
      BY <1>0, <2>1, NsTimerAssumption
    <2>3. /\ InState(timerState', "RUN_INTERRUPT") \subseteq InInterrupt
          /\ \A u \in TimerIds \ Range(timers) : timerState'[u] = "STOP"
      BY <1>0, <1>1, <2>1 DEF InState, InInterrupt
    <2> QED
      BY <1>0, <1>1, <2>1, <2>2, <2>3, QuietKeepsCalls
  <1> QED
    BY <1>3, <1>4

(* Registering and unregistering happen outside the interrupt.              *)
LEMMA RegisterKeepsCalls ==
  ASSUME CallsInv, Register \/ \E t \in TimerIds : Unregister(t)
  PROVE  CallsInv'
  <1>0. /\ next = 0 /\ UNCHANGED <<running, toCall, next, sleeping, hal, halMode>>
        /\ timerState \in [TimerIds -> States] /\ remaining \in [TimerIds -> 0 .. MaxSlots]
        /\ timers \in Seq(TimerIds) /\ IsInjective(timers) /\ toCall = 0
        /\ \A u \in TimerIds \ Range(timers) : timerState[u] = "STOP"
    BY DEF Register, Unregister, placeVars, halVars, CallsInv, NsTimerTypeOK, TimersListed,
           CallsCounted, States
  <1>1. InInterrupt = {}
    <2>1. Cardinality(InInterrupt) = 0
      BY <1>0, StatesCounted DEF CallsInv, CallsCounted, InInterrupt
    <2> QED
      BY <2>1, StatesCounted, FS_EmptySet DEF InInterrupt
  <1>2. ASSUME NEW t \in TimerIds, timers' \in Seq(TimerIds), IsInjective(timers'),
               Range(timers) \subseteq Range(timers') \cup {t},
               timerState' = [timerState EXCEPT ![t] = "STOP"],
               remaining' = [remaining EXCEPT ![t] = 0]
        PROVE  CallsInv'
    <2>1. InInterrupt' = {}
      BY <1>0, <1>1, <1>2 DEF InInterrupt, InState
    <2>2. CallsCounted'
      BY <1>0, <2>1, FS_EmptySet DEF CallsCounted
    <2>3. TimersListed'
      BY <1>0, <1>2 DEF TimersListed
    <2>4. NsTimerTypeOK'
      BY <1>0, <1>2, NsTimerAssumption DEF CallsInv, NsTimerTypeOK, States
    <2> QED
      BY <2>2, <2>3, <2>4 DEF CallsInv
  <1>3. CASE Register
    <2> DEFINE id == Min(FreeTimerIds)
    <2>1. id \in FreeTimerIds
      BY <1>3, IdsFinite, MinNat DEF Register, FreeTimerIds
    <2>2. /\ timers' = Append(timers, id)
          /\ timerState' = [timerState EXCEPT ![id] = "STOP"]
          /\ remaining' = [remaining EXCEPT ![id] = 0]
      BY <1>3 DEF Register
    <2>3. id \in TimerIds \ Range(timers)
      BY <2>1 DEF FreeTimerIds
    <2> HIDE DEF id
    <2>4. /\ Append(timers, id) \in Seq(TimerIds)
          /\ Range(Append(timers, id)) = Range(timers) \cup {id}
          /\ IsInjective(Append(timers, id))
      BY <1>0, <2>3, AppendKeepsDistinct
    <2> QED
      BY <1>2, <2>2, <2>3, <2>4
  <1>4. CASE \E t \in TimerIds : Unregister(t)
    <2>1. PICK t \in TimerIds : Unregister(t)
      BY <1>4
    <2>2. /\ timers' \in Seq(TimerIds) /\ IsInjective(timers')
          /\ Range(timers') = Range(timers) \ {t}
      BY <1>0, <2>1, WithoutFacts DEF Unregister
    <2> QED
      BY <1>2, <2>1, <2>2 DEF Unregister
  <1> QED
    BY <1>3, <1>4

(* The interrupt finds as many callbacks to make as there are timers it     *)
(* takes from ACTIVE.                                                       *)
LEMMA InterruptKeepsCalls ==
  ASSUME CallsInv, CalledInFull, Interrupt
  PROVE  CallsInv'
  <1> DEFINE st == [t \in TimerIds |-> IF t \in Due THEN "RUN_INTERRUPT" ELSE timerState[t]]
  <1>0. /\ next = 0 /\ next' = 1 /\ toCall' = Cardinality(Due) /\ UNCHANGED <<timers, sleeping>>
        /\ timerState \in [TimerIds -> States] /\ remaining \in [TimerIds -> 0 .. MaxSlots]
        /\ timers \in Seq(TimerIds) /\ IsInjective(timers) /\ hal \in 0 .. MaxSlots
        /\ \A u \in TimerIds \ Range(timers) : timerState[u] = "STOP"
        /\ InInterrupt = {}
    BY DEF Interrupt, CallsInv, NsTimerTypeOK, TimersListed, States, CalledInFull, InInterrupt
  <1>1. st \in [TimerIds -> States] /\ NextTimeout(st)
    BY <1>0 DEF Interrupt, States
  <1>2. InState(st, "RUN_INTERRUPT") = Due
    BY <1>0 DEF InState, InInterrupt, Due
  <1>3. \A u \in TimerIds \ Range(timers) : st[u] = "STOP"
    BY <1>0 DEF Due, InState
  <1> HIDE DEF st
  <1>4. /\ timerState' \in [TimerIds -> States] /\ remaining' \in [TimerIds -> 0 .. MaxSlots]
        /\ running' \in BOOLEAN /\ hal' \in 0 .. MaxSlots /\ halMode' \in {"IDLE", "COUNTING"}
        /\ \A u \in TimerIds : st[u] # "HOLD" => timerState'[u] = st[u]
        /\ InState(timerState', "RUN_INTERRUPT") = InState(st, "RUN_INTERRUPT")
    <2>1. CASE InState(st, "HOLD") = {}
      BY <1>0, <1>1, <2>1 DEF NextTimeout, GetNextRunningTo
    <2>2. CASE InState(st, "HOLD") # {}
      <3>1. ActivateLeast(st, remaining)
        BY <1>1, <2>2 DEF NextTimeout, GetNextRunningTo
      <3> QED
        BY <1>0, <1>1, <2>2, <3>1, ActivateLeastTypes
    <2> QED
      BY <2>1, <2>2
  <1>5. Due \subseteq Range(timers)
    BY <1>0 DEF Due, InState
  <1>6. Cardinality(Due) \in 0 .. Len(timers)
    BY <1>0, <1>5, RangeCardinality, FS_Subset, StatesCounted DEF Due
  <1>7. NsTimerTypeOK'
    BY <1>0, <1>4, <1>6 DEF CallsInv, NsTimerTypeOK, States
  <1>8. TimersListed'
    BY <1>0, <1>3, <1>4 DEF TimersListed
  <1>9. CallsCounted'
    <2>1. InInterrupt' = Due
      BY <1>2, <1>4 DEF InInterrupt
    <2>2. \A t \in Due : \E k \in DOMAIN timers : 1 <= k /\ timers[k] = t
      BY <1>0, <1>5 DEF Range
    <2>3. Cardinality(InInterrupt') <= toCall'
      BY <1>0, <1>6, <2>1
    <2> QED
      BY <1>0, <2>1, <2>2, <2>3 DEF CallsCounted
  <1> QED
    BY <1>7, <1>8, <1>9 DEF CallsInv

(* As long as there is a timer to call, the loop finds it.                  *)
LEMMA CallsAreFound ==
  ASSUME CallsInv
  PROVE  /\ ToCall \subseteq DOMAIN timers
         /\ next # 0 /\ InInterrupt # {} => ToCall # {}
         /\ \A t \in InInterrupt : \E k \in ToCall : timers[k] = t
  <1>0. /\ timers \in Seq(TimerIds) /\ next \in Nat /\ toCall \in Nat
        /\ Cardinality(InInterrupt) <= toCall /\ Cardinality(InInterrupt) \in Nat
        /\ DOMAIN timers = 1 .. Len(timers) /\ Len(timers) \in Nat
    BY StatesCounted DEF CallsInv, CallsCounted, NsTimerTypeOK, InInterrupt
  <1>1. InInterrupt # {} => toCall # 0
    BY <1>0, StatesCounted, FS_EmptySet DEF InInterrupt
  <1>2. next = 0 => InInterrupt = {}
    BY <1>1 DEF CallsInv, CallsCounted
  <1>3. ASSUME NEW t \in InInterrupt
        PROVE  \E k \in ToCall : timers[k] = t
    <2>1. PICK k \in DOMAIN timers : next <= k /\ timers[k] = t
      BY <1>3 DEF CallsInv, CallsCounted
    <2>2. timerState[timers[k]] = "RUN_INTERRUPT"
      BY <2>1, <1>3 DEF InInterrupt, InState
    <2>3. k \in ToCall
      BY <1>0, <1>1, <1>3, <2>1, <2>2 DEF ToCall
    <2> QED
      BY <2>1, <2>3
  <1>4. ToCall \subseteq DOMAIN timers
    BY <1>0, <1>2, <1>1 DEF ToCall, CallsInv, CallsCounted
  <1> QED
    BY <1>3, <1>4

(* The loop makes one callback; those left are at later positions.          *)
LEMMA CallBackKeepsCalls ==
  ASSUME CallsInv, CallBack
  PROVE  CallsInv'
  <1> DEFINE k == Min(ToCall)
  <1>0. /\ timerState \in [TimerIds -> States] /\ remaining \in [TimerIds -> 0 .. MaxSlots]
        /\ timers \in Seq(TimerIds) /\ IsInjective(timers) /\ next \in Nat /\ next # 0
        /\ toCall \in 0 .. Len(timers)
        /\ DOMAIN timers = 1 .. Len(timers) /\ Len(timers) \in Nat
        /\ \A u \in TimerIds \ Range(timers) : timerState[u] = "STOP"
        /\ UNCHANGED <<timers, remaining, running, sleeping, hal, halMode>>
        /\ toCall' = toCall - 1
    BY DEF CallBack, halVars, CallsInv, NsTimerTypeOK, TimersListed, States
  <1>1. k \in ToCall /\ \A j \in ToCall : k <= j
    <2>1. ToCall \in SUBSET Nat /\ ToCall # {}
      BY <1>0, CallsAreFound DEF CallBack
    <2> QED
      BY <2>1, MinNat
  <1>2. /\ timerState' = [timerState EXCEPT ![timers[k]] = "STOP"] /\ next' = k + 1
    BY DEF CallBack
  <1> HIDE DEF k
  <1>3. /\ k \in DOMAIN timers /\ timers[k] \in TimerIds /\ toCall # 0
        /\ timers[k] \in InInterrupt
    BY <1>0, <1>1, CallsAreFound DEF ToCall, InInterrupt, InState
  <1>4. InInterrupt' = InInterrupt \ {timers[k]}
    BY <1>0, <1>2, <1>3 DEF InInterrupt, InState
  <1>5. Cardinality(InInterrupt') = Cardinality(InInterrupt) - 1
    BY <1>3, <1>4, StatesCounted, FS_RemoveElement DEF InInterrupt
  <1>6. \A t \in InInterrupt' : \E j \in DOMAIN timers : k + 1 <= j /\ timers[j] = t
    <2> TAKE t \in InInterrupt'
    <2>1. PICK j \in ToCall : timers[j] = t
      BY <1>4, CallsAreFound
    <2>2. j \in DOMAIN timers /\ j # k /\ k <= j
      BY <1>1, <1>4, <2>1, CallsAreFound
    <2>3. k + 1 <= j
      BY <1>0, <1>3, <2>2
    <2> QED
      BY <2>1, <2>2, <2>3
  <1>7. CallsCounted'
    <2>1. Cardinality(InInterrupt') <= toCall'
      BY <1>0, <1>5, StatesCounted DEF CallsInv, CallsCounted, InInterrupt
    <2>2. next' # 0
      BY <1>0, <1>2, <1>3
    <2> QED
      BY <1>0, <1>2, <1>6, <2>1, <2>2 DEF CallsCounted
  <1>8. TimersListed'
    BY <1>0, <1>2, <1>3 DEF TimersListed
  <1>9. NsTimerTypeOK'
    <2>1. timerState' \in [TimerIds -> States]
      BY <1>0, <1>2, <1>3 DEF States
    <2>2. toCall' \in 0 .. Len(timers') /\ next' \in 0 .. Len(timers') + 1
      BY <1>0, <1>2, <1>3
    <2> QED
      BY <1>0, <2>1, <2>2 DEF CallsInv, NsTimerTypeOK, States
  <1> QED
    BY <1>7, <1>8, <1>9 DEF CallsInv

LEMMA ReturnKeepsCalls ==
  ASSUME CallsInv, ReturnFromInterrupt
  PROVE  CallsInv'
  <1>1. InInterrupt = {}
    BY CallsAreFound DEF ReturnFromInterrupt
  <1>2. InInterrupt' = {} /\ Cardinality({}) = 0
    BY <1>1, FS_EmptySet DEF ReturnFromInterrupt, InInterrupt
  <1>3. CallsCounted'
    BY <1>2 DEF CallsCounted, ReturnFromInterrupt
  <1>4. TimersListed'
    BY DEF ReturnFromInterrupt, CallsInv, TimersListed
  <1>5. NsTimerTypeOK'
    BY DEF ReturnFromInterrupt, CallsInv, NsTimerTypeOK, halVars
  <1> QED
    BY <1>3, <1>4, <1>5 DEF CallsInv

(* The count is an upper bound of what is left to call; so the loop ends    *)
(* early only when nothing is.                                              *)
LEMMA AllAreCalled ==
  ASSUME CallsInv
  PROVE  CalledInFull
  <1> SUFFICES ASSUME next = 0
               PROVE  InInterrupt = {}
    BY DEF CalledInFull, InInterrupt
  <1>1. Cardinality(InInterrupt) = 0
    BY StatesCounted DEF CallsInv, CallsCounted, InInterrupt
  <1> QED
    BY <1>1, StatesCounted, FS_EmptySet DEF InInterrupt

(* All the steps of ns_timer.c, sleep included.                             *)
NsTimerStep == Next \/ SleepChecks \/ SleepDisables \/ SleepMarks

LEMMA StepCallsInv == CallsInv /\ [NsTimerStep]_nsTimerVars => CallsInv'
  <1> SUFFICES ASSUME CallsInv, [NsTimerStep]_nsTimerVars
               PROVE  CallsInv'
    OBVIOUS
  <1>0. Slots \subseteq 0 .. MaxSlots
    BY NsTimerAssumption
  <1>1. CASE Register \/ \E t \in TimerIds : Unregister(t)
    BY <1>1, RegisterKeepsCalls
  <1>2. ASSUME NEW t \in TimerIds, Stop(t)
        PROVE  CallsInv'
    BY <1>2, StopKeepsCalls
  <1>3. ASSUME NEW t \in TimerIds, NEW n \in Slots, Start(t, n)
        PROVE  CallsInv'
    BY <1>0, <1>3, StartKeepsCalls
  <1>4. CASE HalTick \/ SleepChecks \/ SleepDisables \/ SleepMarks \/ UNCHANGED nsTimerVars
    <2>1. UNCHANGED <<timers, timerState, remaining, toCall, next>>
      BY <1>4 DEF HalTick, SleepChecks, SleepDisables, SleepMarks, nsTimerVars, placeVars
    <2>2. /\ running' \in BOOLEAN /\ sleeping' \in {"no", "checked", "disabled"}
          /\ hal' \in 0 .. MaxSlots /\ halMode' \in {"IDLE", "COUNTING", "DISABLED"}
      <3>0. /\ running \in BOOLEAN /\ sleeping \in {"no", "checked", "disabled"}
            /\ hal \in 0 .. MaxSlots /\ halMode \in {"IDLE", "COUNTING", "DISABLED"}
            /\ MaxSlots \in Nat
        BY NsTimerAssumption DEF CallsInv, NsTimerTypeOK
      <3>1. CASE HalTick
        BY <3>0, <3>1 DEF HalTick, placeVars
      <3>2. CASE SleepChecks \/ SleepDisables \/ SleepMarks
        BY <3>0, <3>2 DEF SleepChecks, SleepDisables, SleepMarks, halVars, PlatformTimerDisable
      <3>3. CASE UNCHANGED nsTimerVars
        BY <3>0, <3>3 DEF nsTimerVars, placeVars, halVars
      <3> QED
        BY <1>4, <3>1, <3>2, <3>3
    <2>3. /\ timerState' \in [TimerIds -> States] /\ remaining' \in [TimerIds -> 0 .. MaxSlots]
          /\ \A t \in TimerIds \ Range(timers) : timerState'[t] = "STOP"
      BY <2>1 DEF CallsInv, NsTimerTypeOK, TimersListed, States
    <2> QED
      BY <2>1, <2>2, <2>3, QuietKeepsCalls DEF InInterrupt
  <1>5. CASE Interrupt
    BY <1>5, AllAreCalled, InterruptKeepsCalls
  <1>6. CASE CallBack
    BY <1>6, CallBackKeepsCalls
  <1>7. CASE ReturnFromInterrupt
    BY <1>7, ReturnKeepsCalls
  <1> QED
    BY <1>1, <1>2, <1>3, <1>4, <1>5, <1>6, <1>7 DEF NsTimerStep, Next

LEMMA InitCallsInv == Init => CallsInv
  <1> SUFFICES ASSUME Init
               PROVE  CallsInv
    OBVIOUS
  <1>1. timers = <<>> /\ Len(timers) = 0 /\ timers \in Seq(TimerIds)
    BY DEF Init
  <1>2. NsTimerTypeOK
    <2>1. 0 \in 0 .. MaxSlots /\ 0 \in 0 .. Len(timers) /\ 0 \in 0 .. Len(timers) + 1
      BY <1>1, NsTimerAssumption
    <2>2. timerState \in [TimerIds -> {"ACTIVE", "HOLD", "RUN_INTERRUPT", "STOP"}]
      BY DEF Init
    <2>3. remaining \in [TimerIds -> 0 .. MaxSlots]
      BY <2>1 DEF Init
    <2> QED
      BY <1>1, <2>1, <2>2, <2>3 DEF Init, NsTimerTypeOK
  <1>3. TimersListed
    BY <1>1 DEF Init, TimersListed, IsInjective
  <1>4. InInterrupt = {}
    BY DEF Init, InInterrupt, InState
  <1>5. CallsCounted
    BY <1>4, FS_EmptySet DEF Init, CallsCounted
  <1> QED
    BY <1>2, <1>3, <1>5 DEF CallsInv

(* The types of ns_timer.c's state hold, for any number of callback timers. *)
THEOREM NsTimerTyped == Spec => []NsTimerTypeOK
  <1>1. CallsInv /\ [Next]_nsTimerVars => CallsInv'
    BY StepCallsInv DEF NsTimerStep
  <1>2. CallsInv => NsTimerTypeOK
    BY DEF CallsInv
  <1> QED
    BY InitCallsInv, <1>1, <1>2, PTL DEF Spec

(* Whatever callbacks start and stop, when the interrupt returns every      *)
(* timer that was due has been called, or was stopped or started again.     *)
THEOREM InterruptCallsAll == Spec => []CalledInFull
  <1>1. CallsInv /\ [Next]_nsTimerVars => CallsInv'
    BY StepCallsInv DEF NsTimerStep
  <1> QED
    BY InitCallsInv, <1>1, AllAreCalled, PTL DEF Spec
-----------------------------------------------------------------------------
(* The time left, and the hardware. *)

Held(t) == timerState[t] = "HOLD"

(* A timer on HOLD is behind the ACTIVE ones, and none is so far away that  *)
(* 16 bits do not hold its slots when it is put off.                        *)
LeftInv ==
    /\ \A t \in TimerIds : Held(t) => remaining[t] > 0
    /\ \A t \in Scheduled : Left(t) <= MaxSlots

LEMMA LeftFacts ==
  ASSUME NsTimerTypeOK
  PROVE  /\ Scheduled \subseteq TimerIds
         /\ \A t \in TimerIds : Left(t) \in Nat
         /\ \A t \in TimerIds : t \in Scheduled <=> timerState[t] \in {"ACTIVE", "HOLD"}
  BY NsTimerAssumption DEF NsTimerTypeOK, Left, Scheduled, InState

LEMMA Uint16Fits == \A n \in 0 .. MaxSlots : uint16(n) = n
  BY NsTimerAssumption DEF uint16

(* The timers that were on HOLD have left what they had, and one more slot  *)
(* if the hardware was to be started with none.                             *)
LEMMA ActivateLeastLeft ==
  ASSUME NEW st \in [TimerIds -> States], NEW rem \in [TimerIds -> 0 .. MaxSlots],
         InState(st, "HOLD") # {}, ActivateLeast(st, rem)
  PROVE  \E slip \in {0, 1} :
           /\ slip = 1 => \E t \in TimerIds : st[t] = "HOLD" /\ rem[t] = 0
           /\ \A t \in TimerIds : st[t] = "HOLD" =>
                /\ Left(t)' = rem[t] + slip
                /\ timerState'[t] \in {"ACTIVE", "HOLD"}
                /\ timerState'[t] = "HOLD" => remaining'[t] > 0
                /\ slip = 0 => rem[t] > 0
           /\ \A t \in TimerIds : st[t] # "HOLD" => timerState'[t] = st[t]
           /\ hal' \in 1 .. MaxSlots
  <1>1. PICK least \in 0 .. MaxSlots :
           /\ \E t \in TimerIds : st[t] = "HOLD" /\ rem[t] = least
           /\ \A t \in TimerIds : st[t] = "HOLD" => least <= rem[t]
           /\ timerState' = [t \in TimerIds |->
                               IF st[t] = "HOLD" /\ rem[t] = least THEN "ACTIVE" ELSE st[t]]
           /\ remaining' = [t \in TimerIds |->
                              IF st[t] = "HOLD" /\ rem[t] # least THEN rem[t] - least ELSE rem[t]]
           /\ running' = TRUE
           /\ hal' = (IF least = 0 THEN 1 ELSE least)
           /\ halMode' = "COUNTING"
    BY ActivateLeastFacts
  <1> DEFINE slip == IF least = 0 THEN 1 ELSE 0
  <1>2. slip \in {0, 1} /\ hal' = least + slip /\ MaxSlots \in Nat \ {0}
    BY <1>1, NsTimerAssumption
  <1>3. ASSUME NEW t \in TimerIds, st[t] = "HOLD"
        PROVE  /\ Left(t)' = rem[t] + slip
               /\ timerState'[t] \in {"ACTIVE", "HOLD"}
               /\ timerState'[t] = "HOLD" => remaining'[t] > 0
               /\ slip = 0 => rem[t] > 0
    <2>1. rem[t] \in 0 .. MaxSlots /\ least <= rem[t]
      BY <1>1, <1>3
    <2>2. CASE rem[t] = least
      <3>1. timerState'[t] = "ACTIVE"
        BY <1>1, <1>3, <2>2
      <3> QED
        BY <1>2, <2>1, <2>2, <3>1 DEF Left
    <2>3. CASE rem[t] # least
      <3>1. timerState'[t] = "HOLD" /\ remaining'[t] = rem[t] - least
        BY <1>1, <1>3, <2>3
      <3> QED
        BY <1>2, <2>1, <2>3, <3>1 DEF Left
    <2> QED
      BY <2>2, <2>3
  <1>4. \A t \in TimerIds : st[t] # "HOLD" => timerState'[t] = st[t]
    BY <1>1
  <1>5. hal' \in 1 .. MaxSlots
    BY <1>1, <1>2
  <1>6. slip = 1 => \E t \in TimerIds : st[t] = "HOLD" /\ rem[t] = 0
    BY <1>1
  <1> HIDE DEF slip
  <1> QED
    BY <1>2, <1>3, <1>4, <1>5, <1>6


(* eventOS_callback_timer_start: t gets its slots; while the hardware runs  *)
(* the others keep theirs, but for the slot that no slots at all take.      *)
LEMMA StartEffect ==
  ASSUME CallsInv, LeftInv, NEW t \in TimerIds, NEW n \in 0 .. MaxSlots, Start(t, n)
  PROVE  /\ Scheduled' = Scheduled \cup {t}
         /\ InInterrupt' = InInterrupt \ {t}
         /\ \E late \in {0, 1} :
              /\ late = 1 => n = 0
              /\ Left(t)' = n + late
              /\ running = TRUE => \A u \in Scheduled \ {t} : Left(u)' = Left(u) + late
         /\ LeftInv'
         /\ running' = TRUE
         /\ halMode' = "COUNTING" \/ (running = TRUE /\ halMode' = halMode)
  <1>0. /\ timerState \in [TimerIds -> States] /\ remaining \in [TimerIds -> 0 .. MaxSlots]
        /\ running \in BOOLEAN /\ hal \in 0 .. MaxSlots /\ MaxSlots \in Nat \ {0} /\ SlipBound(n)
        /\ \A u \in TimerIds : timerState[u] \in States /\ remaining[u] \in 0 .. MaxSlots
        /\ \A u \in TimerIds : u \in Scheduled <=> timerState[u] \in {"ACTIVE", "HOLD"}
        /\ \A u \in TimerIds : Left(u) \in Nat
        /\ Scheduled \subseteq TimerIds
        /\ \A u \in Scheduled : Left(u) <= MaxSlots
        /\ \A u \in TimerIds : timerState[u] = "HOLD" => remaining[u] > 0
    BY LeftFacts, NsTimerAssumption DEF Start, CallsInv, NsTimerTypeOK, States, LeftInv, Held
  <1>1. \A u \in Scheduled : n = 0 => Left(u) + 1 <= MaxSlots
    BY <1>0 DEF SlipBound
  (* What has to be shown of each timer, in each of the four cases.         *)
  <1>2. ASSUME NEW late \in {0, 1}, late = 1 => n = 0,
               timerState' \in [TimerIds -> States],
               timerState'[t] \in {"ACTIVE", "HOLD"}, Left(t)' = n + late,
               timerState'[t] = "HOLD" => remaining'[t] > 0,
               \A u \in TimerIds \ {t} :
                 /\ timerState'[u] = timerState[u]
                    \/ (u \in Scheduled /\ timerState'[u] \in {"ACTIVE", "HOLD"})
                 /\ timerState'[u] = "HOLD" => remaining'[u] > 0
                 /\ u \in Scheduled => Left(u)' <= MaxSlots
                 /\ u \in Scheduled /\ running = TRUE => Left(u)' = Left(u) + late,
               running' = TRUE,
               halMode' = "COUNTING" \/ (running = TRUE /\ halMode' = halMode)
        PROVE  /\ Scheduled' = Scheduled \cup {t}
               /\ InInterrupt' = InInterrupt \ {t}
               /\ \E l \in {0, 1} :
                    /\ l = 1 => n = 0
                    /\ Left(t)' = n + l
                    /\ running = TRUE => \A u \in Scheduled \ {t} : Left(u)' = Left(u) + l
               /\ LeftInv'
               /\ running' = TRUE
               /\ halMode' = "COUNTING" \/ (running = TRUE /\ halMode' = halMode)
    <2>1. /\ Scheduled' \subseteq TimerIds /\ InInterrupt' \subseteq TimerIds
          /\ \A u \in TimerIds : u \in Scheduled' <=> timerState'[u] \in {"ACTIVE", "HOLD"}
          /\ \A u \in TimerIds : u \in InInterrupt' <=> timerState'[u] = "RUN_INTERRUPT"
          /\ \A u \in TimerIds : u \in InInterrupt <=> timerState[u] = "RUN_INTERRUPT"
          /\ InInterrupt \subseteq TimerIds
      BY DEF Scheduled, InInterrupt, InState
    <2>2. Scheduled' = Scheduled \cup {t}
      BY <1>0, <1>2, <2>1
    <2>3. InInterrupt' = InInterrupt \ {t}
      BY <1>0, <1>2, <2>1
    <2>4. n + late <= MaxSlots
      BY <1>0, <1>2
    <2>5. LeftInv'
      <3>1. \A u \in TimerIds : timerState'[u] = "HOLD" => remaining'[u] > 0
        BY <1>2
      <3>2. \A u \in Scheduled' : Left(u)' <= MaxSlots
        BY <1>0, <1>2, <2>2, <2>4
      <3> QED
        BY <3>1, <3>2 DEF LeftInv, Held
    <2>6. \E l \in {0, 1} :
            /\ l = 1 => n = 0
            /\ Left(t)' = n + l
            /\ running = TRUE => \A u \in Scheduled \ {t} : Left(u)' = Left(u) + l
      <3> WITNESS late \in {0, 1}
      <3> QED
        BY <1>0, <1>2
    <2> QED
      BY <1>2, <2>2, <2>3, <2>5, <2>6
  <1>3. CASE StartShorter(t, n)
    <2> DEFINE excess == [u \in TimerIds |-> IF timerState[u] = "HOLD" THEN remaining[u] ELSE 0]
               late == IF n = 0 THEN 1 ELSE 0
    <2>1. /\ timerState' = [u \in TimerIds |->
                              IF u = t THEN "ACTIVE"
                              ELSE IF u \in Scheduled THEN "HOLD" ELSE timerState[u]]
          /\ remaining' = [u \in TimerIds |->
                              IF u = t THEN n
                              ELSE IF u \in Scheduled THEN uint16(excess[u] + (hal - n))
                              ELSE remaining[u]]
          /\ running = TRUE /\ hal > n /\ running' = TRUE /\ halMode' = "COUNTING"
          /\ hal' = (IF n = 0 THEN 1 ELSE n)
      BY <1>0, <1>3 DEF StartShorter, StartPlTimer, PlatformTimerStart
    <2>2. late \in {0, 1} /\ (late = 1 => n = 0) /\ hal' = n + late
      BY <2>1
    <2>3. \A u \in Scheduled : excess[u] + (hal - n) = Left(u) - n /\ Left(u) >= hal
      BY <1>0 DEF Left
    <2> HIDE DEF excess, late
    <2>4. ASSUME NEW u \in Scheduled \ {t}
          PROVE  /\ timerState'[u] = "HOLD" /\ remaining'[u] = Left(u) - n
                 /\ remaining'[u] > 0 /\ Left(u)' = Left(u) + late /\ Left(u)' <= MaxSlots
      <3>1. u \in TimerIds /\ Left(u) \in Nat /\ Left(u) <= MaxSlots /\ Left(u) >= hal /\ hal > n
        BY <1>0, <2>1, <2>3
      <3>2. Left(u) - n \in 0 .. MaxSlots /\ Left(u) - n > 0
        BY <1>0, <3>1
      <3>3. timerState'[u] = "HOLD" /\ remaining'[u] = Left(u) - n
        BY <2>1, <2>3, <3>1, <3>2, Uint16Fits
      <3>4. Left(u)' = Left(u) + late
        BY <1>0, <2>2, <3>1, <3>3 DEF Left
      <3>5. Left(u) + late <= MaxSlots
        BY <1>0, <1>1, <2>2, <3>1
      <3> QED
        BY <3>2, <3>3, <3>4, <3>5
    <2>5. timerState'[t] = "ACTIVE" /\ Left(t)' = n + late
      BY <2>1, <2>2 DEF Left
    <2>6. \A u \in TimerIds \ {t} : u \notin Scheduled => timerState'[u] = timerState[u]
      BY <2>1
    <2>7. timerState' \in [TimerIds -> States]
      BY <1>0, <2>1 DEF States
    <2>8. \A u \in TimerIds \ {t} :
            /\ timerState'[u] = timerState[u]
               \/ (u \in Scheduled /\ timerState'[u] \in {"ACTIVE", "HOLD"})
            /\ timerState'[u] = "HOLD" => remaining'[u] > 0
            /\ u \in Scheduled => Left(u)' <= MaxSlots
            /\ u \in Scheduled /\ running = TRUE => Left(u)' = Left(u) + late
      <3> TAKE u \in TimerIds \ {t}
      <3>1. CASE u \in Scheduled
        BY <2>4, <3>1
      <3>2. CASE u \notin Scheduled
        BY <1>0, <2>6, <3>2
      <3> QED
        BY <3>1, <3>2
    <2>9. timerState'[t] = "HOLD" => remaining'[t] > 0
      BY <2>5
    <2> QED
      BY <1>2, <2>1, <2>2, <2>5, <2>7, <2>8, <2>9
  <1>4. CASE StartLonger(t, n) \/ StartEqual(t, n)
    <2>1. /\ running = TRUE /\ UNCHANGED <<running, hal, halMode>>
          /\ timerState' \in [TimerIds -> States]
          /\ \A u \in TimerIds \ {t} : timerState'[u] = timerState[u] /\ remaining'[u] = remaining[u]
      BY <1>0, <1>4 DEF StartLonger, StartEqual, halVars, States
    <2>2. /\ timerState'[t] \in {"ACTIVE", "HOLD"} /\ Left(t)' = n
          /\ timerState'[t] = "HOLD" => remaining'[t] > 0
      <3>1. CASE StartLonger(t, n)
        <4>1. hal < n /\ timerState'[t] = "HOLD" /\ remaining'[t] = n - hal /\ hal' = hal
          BY <1>0, <3>1 DEF StartLonger, halVars
        <4> QED
          BY <1>0, <4>1 DEF Left
      <3>2. CASE StartEqual(t, n)
        BY <1>0, <3>2 DEF StartEqual, Left, halVars
      <3> QED
        BY <1>4, <3>1, <3>2
    <2>3. \A u \in TimerIds \ {t} : Left(u)' = Left(u)
      BY <2>1 DEF Left
    <2>4. \A u \in TimerIds \ {t} :
            /\ timerState'[u] = timerState[u]
               \/ (u \in Scheduled /\ timerState'[u] \in {"ACTIVE", "HOLD"})
            /\ timerState'[u] = "HOLD" => remaining'[u] > 0
            /\ u \in Scheduled => Left(u)' <= MaxSlots
            /\ u \in Scheduled /\ running = TRUE => Left(u)' = Left(u) + 0
      BY <1>0, <2>1, <2>3
    <2>5. Left(t)' = n + 0
      BY <2>2
    <2> QED
      BY <1>2, <2>1, <2>2, <2>4, <2>5
  <1>5. CASE StartIdle(t, n)
    <2> DEFINE st == [timerState EXCEPT ![t] = "HOLD"]
               rem == [remaining EXCEPT ![t] = n]
    <2>1. /\ st \in [TimerIds -> States] /\ rem \in [TimerIds -> 0 .. MaxSlots]
          /\ st[t] = "HOLD" /\ \A u \in TimerIds \ {t} : st[u] = timerState[u]
          /\ rem[t] = n /\ \A u \in TimerIds \ {t} : rem[u] = remaining[u]
      BY <1>0 DEF States
    <2>2. InState(st, "HOLD") # {}
      BY <2>1 DEF InState
    <2>3. ActivateLeast(st, rem) /\ running = FALSE
      BY <1>0, <1>5, <2>2 DEF StartIdle, GetNextRunningTo
    <2> HIDE DEF st, rem
    <2>4. PICK slip \in {0, 1} :
            /\ slip = 1 => \E u \in TimerIds : st[u] = "HOLD" /\ rem[u] = 0
            /\ \A u \in TimerIds : st[u] = "HOLD" =>
                 /\ Left(u)' = rem[u] + slip
                 /\ timerState'[u] \in {"ACTIVE", "HOLD"}
                 /\ timerState'[u] = "HOLD" => remaining'[u] > 0
            /\ \A u \in TimerIds : st[u] # "HOLD" => timerState'[u] = st[u]
            /\ hal' \in 1 .. MaxSlots
      BY <2>1, <2>2, <2>3, ActivateLeastLeft
    <2>5. timerState' \in [TimerIds -> States] /\ running' = TRUE /\ halMode' = "COUNTING"
      BY <2>1, <2>2, <2>3, ActivateLeastTypes DEF ActivateLeast, StartPlTimer
    <2>6. slip = 1 => n = 0
      BY <1>0, <2>1, <2>4
    <2>7. ASSUME NEW u \in TimerIds \ {t}
          PROVE  /\ timerState'[u] = timerState[u]
                    \/ (u \in Scheduled /\ timerState'[u] \in {"ACTIVE", "HOLD"})
                 /\ timerState'[u] = "HOLD" => remaining'[u] > 0
                 /\ u \in Scheduled => Left(u)' <= MaxSlots
      <3>1. CASE timerState[u] = "HOLD"
        <4>1. Left(u) = hal + remaining[u]
          BY <3>1 DEF Left
        <4>2. remaining[u] + slip <= MaxSlots
          BY <1>0, <1>1, <2>6, <3>1, <4>1
        <4> QED
          BY <1>0, <2>1, <2>4, <3>1, <4>2
      <3>2. CASE timerState[u] # "HOLD"
        <4>1. timerState'[u] = timerState[u]
          BY <2>1, <2>4, <3>2
        <4>2. u \in Scheduled => Left(u)' = hal'
          BY <1>0, <3>2, <4>1 DEF Left
        <4>3. hal' <= MaxSlots
          BY <1>0, <2>4
        <4> QED
          BY <3>2, <4>1, <4>2, <4>3
      <3> QED
        BY <3>1, <3>2
    <2>8. \A u \in TimerIds \ {t} :
            /\ timerState'[u] = timerState[u]
               \/ (u \in Scheduled /\ timerState'[u] \in {"ACTIVE", "HOLD"})
            /\ timerState'[u] = "HOLD" => remaining'[u] > 0
            /\ u \in Scheduled => Left(u)' <= MaxSlots
            /\ u \in Scheduled /\ running = TRUE => Left(u)' = Left(u) + slip
      BY <2>3, <2>7
    <2>9. /\ timerState'[t] \in {"ACTIVE", "HOLD"} /\ Left(t)' = n + slip
          /\ timerState'[t] = "HOLD" => remaining'[t] > 0
      BY <2>1, <2>4
    <2> QED
      BY <1>2, <2>5, <2>6, <2>8, <2>9
  <1> QED
    BY <1>3, <1>4, <1>5 DEF Start

(* eventOS_callback_timer_stop: t is gone, the others keep what they have.  *)
LEMMA StopEffect ==
  ASSUME CallsInv, LeftInv, NEW t \in TimerIds, Stop(t)
  PROVE  /\ Scheduled' = Scheduled \ {t}
         /\ InInterrupt' = InInterrupt \ {t}
         /\ \A u \in Scheduled \ {t} : Left(u)' = Left(u)
         /\ LeftInv'
         /\ \/ running' /\ halMode' = "COUNTING"
            \/ UNCHANGED <<running, halMode>>
  <1> DEFINE st == [timerState EXCEPT ![t] = "STOP"]
             rem == [u \in TimerIds |-> IF u = t THEN 0
                                        ELSE IF st[u] = "HOLD" THEN uint16(remaining[u] + hal)
                                        ELSE remaining[u]]
  <1>0. /\ timerState \in [TimerIds -> States] /\ remaining \in [TimerIds -> 0 .. MaxSlots]
        /\ hal \in 0 .. MaxSlots /\ MaxSlots \in Nat \ {0}
        /\ \A u \in TimerIds : timerState[u] \in States /\ remaining[u] \in 0 .. MaxSlots
        /\ \A u \in TimerIds : u \in Scheduled <=> timerState[u] \in {"ACTIVE", "HOLD"}
        /\ \A u \in TimerIds : Left(u) \in Nat
        /\ Scheduled \subseteq TimerIds
        /\ \A u \in Scheduled : Left(u) <= MaxSlots
        /\ \A u \in TimerIds : timerState[u] = "HOLD" => remaining[u] > 0
    BY LeftFacts, NsTimerAssumption DEF CallsInv, NsTimerTypeOK, States, LeftInv, Held
  <1>1. /\ st \in [TimerIds -> States] /\ st[t] = "STOP"
        /\ \A u \in TimerIds \ {t} : st[u] = timerState[u]
    BY <1>0 DEF States
  <1>2. \A u \in TimerIds : st[u] = "HOLD" => rem[u] = Left(u) /\ rem[u] > 0
    <2> TAKE u \in TimerIds
    <2> HAVE st[u] = "HOLD"
    <2>1. u # t /\ timerState[u] = "HOLD"
      BY <1>1
    <2>2. Left(u) = remaining[u] + hal /\ Left(u) \in 0 .. MaxSlots
      BY <1>0, <2>1 DEF Left
    <2> QED
      BY <1>0, <2>1, <2>2, Uint16Fits
  <1>3. rem \in [TimerIds -> 0 .. MaxSlots]
    <2>1. \A u \in TimerIds : remaining[u] + hal \in Int /\ remaining[u] \in 0 .. MaxSlots
      BY <1>0
    <2> QED
      BY <2>1, Uint16Type, NsTimerAssumption
  <1>4. ASSUME timerState'[t] = "STOP",
               \A u \in TimerIds \ {t} :
                 /\ timerState'[u] = timerState[u]
                    \/ (u \in Scheduled /\ timerState'[u] \in {"ACTIVE", "HOLD"})
                 /\ timerState'[u] = "HOLD" => remaining'[u] > 0
                 /\ u \in Scheduled => Left(u)' = Left(u)
        PROVE  /\ Scheduled' = Scheduled \ {t}
               /\ InInterrupt' = InInterrupt \ {t}
               /\ \A u \in Scheduled \ {t} : Left(u)' = Left(u)
               /\ LeftInv'
    <2>1. /\ Scheduled' \subseteq TimerIds /\ InInterrupt' \subseteq TimerIds
          /\ \A u \in TimerIds : u \in Scheduled' <=> timerState'[u] \in {"ACTIVE", "HOLD"}
          /\ \A u \in TimerIds : u \in InInterrupt' <=> timerState'[u] = "RUN_INTERRUPT"
          /\ \A u \in TimerIds : u \in InInterrupt <=> timerState[u] = "RUN_INTERRUPT"
          /\ InInterrupt \subseteq TimerIds
      BY DEF Scheduled, InInterrupt, InState
    <2>2. Scheduled' = Scheduled \ {t}
      BY <1>0, <1>4, <2>1
    <2>3. InInterrupt' = InInterrupt \ {t}
      BY <1>0, <1>4, <2>1
    <2>4. LeftInv'
      BY <1>0, <1>4, <2>2 DEF LeftInv, Held
    <2> QED
      BY <1>0, <1>4, <2>2, <2>3, <2>4
  <1>5. CASE InState(st, "ACTIVE") = {} /\ InState(st, "HOLD") # {}
    <2>1. ActivateLeast(st, rem)
      BY <1>5 DEF Stop
    <2> HIDE DEF st, rem
    <2>2. PICK slip \in {0, 1} :
            /\ slip = 1 => \E u \in TimerIds : st[u] = "HOLD" /\ rem[u] = 0
            /\ \A u \in TimerIds : st[u] = "HOLD" =>
                 /\ Left(u)' = rem[u] + slip
                 /\ timerState'[u] \in {"ACTIVE", "HOLD"}
                 /\ timerState'[u] = "HOLD" => remaining'[u] > 0
            /\ \A u \in TimerIds : st[u] # "HOLD" => timerState'[u] = st[u]
      BY <1>1, <1>3, <1>5, <2>1, ActivateLeastLeft
    <2>3. slip = 0
      BY <1>2, <2>2
    <2>4. \A u \in TimerIds : st[u] # "ACTIVE"
      BY <1>5 DEF InState
    <2>5. running' /\ halMode' = "COUNTING"
      BY <2>1 DEF ActivateLeast, StartPlTimer, PlatformTimerStart
    <2>6. ASSUME NEW u \in TimerIds \ {t}
          PROVE  /\ timerState'[u] = timerState[u]
                    \/ (u \in Scheduled /\ timerState'[u] \in {"ACTIVE", "HOLD"})
                 /\ timerState'[u] = "HOLD" => remaining'[u] > 0
                 /\ u \in Scheduled => Left(u)' = Left(u)
      <3>1. CASE timerState[u] = "HOLD"
        BY <1>0, <1>1, <1>2, <2>2, <2>3, <3>1
      <3>2. CASE timerState[u] # "HOLD"
        <4>1. st[u] = timerState[u] /\ timerState'[u] = timerState[u]
          BY <1>1, <2>2, <3>2
        <4>2. u \notin Scheduled
          BY <1>0, <2>4, <3>2, <4>1
        <4> QED
          BY <3>2, <4>1, <4>2
      <3> QED
        BY <3>1, <3>2
    <2>7. timerState'[t] = "STOP"
      BY <1>1, <2>2
    <2> QED
      BY <1>4, <2>5, <2>6, <2>7
  <1>6. CASE ~ (InState(st, "ACTIVE") = {} /\ InState(st, "HOLD") # {})
    <2>1. /\ timerState' = st /\ remaining' = [remaining EXCEPT ![t] = 0]
          /\ UNCHANGED <<running, hal, halMode>>
      BY <1>6 DEF Stop, halVars
    <2> HIDE DEF st, rem
    <2>2. \A u \in TimerIds \ {t} : timerState'[u] = timerState[u] /\ remaining'[u] = remaining[u]
      BY <1>0, <1>1, <2>1
    <2>3. \A u \in TimerIds \ {t} : Left(u)' = Left(u)
      BY <2>1, <2>2 DEF Left
    <2>4. timerState'[t] = "STOP"
      BY <1>1, <2>1
    <2>5. \A u \in TimerIds \ {t} :
            /\ timerState'[u] = timerState[u]
               \/ (u \in Scheduled /\ timerState'[u] \in {"ACTIVE", "HOLD"})
            /\ timerState'[u] = "HOLD" => remaining'[u] > 0
            /\ u \in Scheduled => Left(u)' = Left(u)
      BY <1>0, <2>2, <2>3
    <2> QED
      BY <1>4, <2>1, <2>4, <2>5
  <1> QED
    BY <1>5, <1>6

(* The interrupt takes the timers whose time is up, and only these; the     *)
(* hardware goes on for the rest if there are any.                          *)
LEMMA InterruptEffect ==
  ASSUME CallsInv, LeftInv, Interrupt
  PROVE  /\ Due = {t \in Scheduled : Left(t) = 0}
         /\ InInterrupt' = InInterrupt \cup Due
         /\ Scheduled' = Scheduled \ Due
         /\ \A u \in Scheduled \ Due : Left(u)' = Left(u)
         /\ LeftInv'
         /\ \/ running' = TRUE /\ halMode' = "COUNTING"
            \/ running' = FALSE /\ halMode' = "IDLE" /\ Scheduled' = {}
  <1> DEFINE st == [t \in TimerIds |-> IF t \in Due THEN "RUN_INTERRUPT" ELSE timerState[t]]
  <1>0. /\ timerState \in [TimerIds -> States] /\ remaining \in [TimerIds -> 0 .. MaxSlots]
        /\ hal = 0 /\ MaxSlots \in Nat \ {0}
        /\ \A u \in TimerIds : timerState[u] \in States /\ remaining[u] \in 0 .. MaxSlots
        /\ \A u \in TimerIds : u \in Scheduled <=> timerState[u] \in {"ACTIVE", "HOLD"}
        /\ Scheduled \subseteq TimerIds
        /\ \A u \in TimerIds : timerState[u] = "HOLD" => remaining[u] > 0
        /\ \A u \in Scheduled : Left(u) <= MaxSlots
    BY LeftFacts, NsTimerAssumption DEF Interrupt, CallsInv, NsTimerTypeOK, States, LeftInv, Held
  <1>1. st \in [TimerIds -> States] /\ NextTimeout(st)
    BY <1>0 DEF Interrupt, States
  <1>2. \A u \in TimerIds : u \in Due <=> timerState[u] = "ACTIVE"
    BY DEF Due, InState
  <1>3. Due = {t \in Scheduled : Left(t) = 0}
    <2>1. \A u \in Scheduled : Left(u) = 0 <=> timerState[u] = "ACTIVE"
      BY <1>0 DEF Left
    <2>2. Due \subseteq Scheduled
      BY <1>0, <1>2 DEF Due, InState
    <2> QED
      BY <1>0, <1>2, <2>1, <2>2
  <1>4. \A u \in TimerIds : st[u] = (IF timerState[u] = "ACTIVE" THEN "RUN_INTERRUPT" ELSE timerState[u])
    BY <1>2
  <1>5. \A u \in TimerIds : timerState[u] = "HOLD" => Left(u) = remaining[u]
    BY <1>0 DEF Left
  <1> HIDE DEF st
  <1>6. /\ \A u \in TimerIds : st[u] # "HOLD" => timerState'[u] = st[u]
        /\ \A u \in TimerIds : st[u] = "HOLD" =>
             /\ timerState'[u] \in {"ACTIVE", "HOLD"}
             /\ timerState'[u] = "HOLD" => remaining'[u] > 0
             /\ Left(u)' = remaining[u]
        /\ \/ running' = TRUE /\ halMode' = "COUNTING"
           \/ running' = FALSE /\ halMode' = "IDLE" /\ InState(st, "HOLD") = {}
    <2>1. CASE InState(st, "HOLD") = {}
      <3>1. timerState' = st /\ running' = FALSE /\ halMode' = "IDLE"
        BY <1>1, <2>1 DEF NextTimeout, GetNextRunningTo
      <3>2. \A u \in TimerIds : st[u] # "HOLD"
        BY <2>1 DEF InState
      <3> QED
        BY <2>1, <3>1, <3>2
    <2>2. CASE InState(st, "HOLD") # {}
      <3>1. ActivateLeast(st, remaining)
        BY <1>1, <2>2 DEF NextTimeout, GetNextRunningTo
      <3>2. PICK slip \in {0, 1} :
              /\ slip = 1 => \E u \in TimerIds : st[u] = "HOLD" /\ remaining[u] = 0
              /\ \A u \in TimerIds : st[u] = "HOLD" =>
                   /\ Left(u)' = remaining[u] + slip
                   /\ timerState'[u] \in {"ACTIVE", "HOLD"}
                   /\ timerState'[u] = "HOLD" => remaining'[u] > 0
              /\ \A u \in TimerIds : st[u] # "HOLD" => timerState'[u] = st[u]
        BY <1>0, <1>1, <2>2, <3>1, ActivateLeastLeft
      <3>3. slip = 0
        BY <1>0, <1>4, <3>2
      <3>4. running' = TRUE /\ halMode' = "COUNTING"
        BY <3>1 DEF ActivateLeast, StartPlTimer, PlatformTimerStart
      <3> QED
        BY <1>0, <3>2, <3>3, <3>4
    <2> QED
      BY <2>1, <2>2
  <1>7. /\ Scheduled' \subseteq TimerIds /\ InInterrupt' \subseteq TimerIds
        /\ \A u \in TimerIds : u \in Scheduled' <=> timerState'[u] \in {"ACTIVE", "HOLD"}
        /\ \A u \in TimerIds : u \in InInterrupt' <=> timerState'[u] = "RUN_INTERRUPT"
        /\ \A u \in TimerIds : u \in InInterrupt <=> timerState[u] = "RUN_INTERRUPT"
        /\ InInterrupt \subseteq TimerIds /\ Due \subseteq TimerIds
    BY DEF Scheduled, InInterrupt, InState, Due
  <1>8. Scheduled' = Scheduled \ Due
    BY <1>0, <1>2, <1>4, <1>6, <1>7
  <1>9. InInterrupt' = InInterrupt \cup Due
    BY <1>0, <1>2, <1>4, <1>6, <1>7
  <1>10. \A u \in Scheduled \ Due : Left(u)' = Left(u)
    BY <1>0, <1>2, <1>4, <1>5, <1>6
  <1>11. LeftInv'
    <2>1. \A u \in TimerIds : timerState'[u] = "HOLD" => remaining'[u] > 0
      BY <1>4, <1>6
    <2> QED
      BY <1>0, <1>8, <1>10, <2>1 DEF LeftInv, Held
  <1>12. InState(st, "HOLD") = {} => Scheduled' = {}
    <2> SUFFICES ASSUME InState(st, "HOLD") = {}
                 PROVE  Scheduled' = {}
      OBVIOUS
    <2>1. \A u \in TimerIds : st[u] # "HOLD"
      BY DEF InState
    <2> QED
      BY <1>0, <1>4, <1>6, <1>7, <2>1
  <1> QED
    BY <1>3, <1>6, <1>8, <1>9, <1>10, <1>11, <1>12

(* Registering changes the state of no timer, unregistering that of one.    *)
LEMMA RegisterEffect ==
  ASSUME CallsInv, LeftInv, Register
  PROVE  /\ timerState' = timerState
         /\ UNCHANGED <<InInterrupt, Scheduled, running, sleeping, hal, halMode>>
         /\ \A u \in Scheduled : Left(u)' = Left(u)
         /\ LeftInv'
  <1> DEFINE id == Min(FreeTimerIds)
  <1>1. id \in FreeTimerIds
    BY IdsFinite, MinNat DEF Register, FreeTimerIds
  <1>2. /\ timerState' = [timerState EXCEPT ![id] = "STOP"]
        /\ remaining' = [remaining EXCEPT ![id] = 0]
        /\ UNCHANGED <<running, sleeping, hal, halMode>>
    BY DEF Register, placeVars, halVars
  <1>3. id \in TimerIds \ Range(timers)
    BY <1>1 DEF FreeTimerIds
  <1> HIDE DEF id
  <1>4. timerState \in [TimerIds -> States] /\ timerState[id] = "STOP"
    BY <1>3 DEF CallsInv, NsTimerTypeOK, TimersListed, States
  <1>5. timerState' = timerState
    BY <1>2, <1>3, <1>4
  <1>6. \A u \in TimerIds : timerState[u] \in {"ACTIVE", "HOLD"} => remaining'[u] = remaining[u]
    BY <1>2, <1>3, <1>4 DEF CallsInv, NsTimerTypeOK
  <1>7. \A u \in Scheduled : u \in TimerIds /\ timerState[u] \in {"ACTIVE", "HOLD"}
    BY DEF Scheduled, InState
  <1>8. UNCHANGED <<InInterrupt, Scheduled>>
    BY <1>5 DEF InInterrupt, Scheduled, InState
  <1>9. \A u \in Scheduled : Left(u)' = Left(u)
    BY <1>2, <1>5, <1>6, <1>7 DEF Left
  <1>10. LeftInv'
    BY <1>5, <1>6, <1>8, <1>9 DEF LeftInv, Held
  <1> QED
    BY <1>2, <1>5, <1>8, <1>9, <1>10

LEMMA UnregisterEffect ==
  ASSUME CallsInv, LeftInv, NEW t \in TimerIds, Unregister(t)
  PROVE  /\ Scheduled' = Scheduled \ {t}
         /\ InInterrupt' = InInterrupt \ {t}
         /\ UNCHANGED <<running, sleeping, hal, halMode>>
         /\ \A u \in Scheduled \ {t} : Left(u)' = Left(u)
         /\ LeftInv'
  <1>1. /\ timerState' = [timerState EXCEPT ![t] = "STOP"]
        /\ remaining' = [remaining EXCEPT ![t] = 0]
        /\ UNCHANGED <<running, sleeping, hal, halMode>>
        /\ timerState \in [TimerIds -> States] /\ remaining \in [TimerIds -> 0 .. MaxSlots]
    BY DEF Unregister, placeVars, halVars, CallsInv, NsTimerTypeOK, States
  <1>2. /\ timerState'[t] = "STOP"
        /\ \A u \in TimerIds \ {t} : timerState'[u] = timerState[u] /\ remaining'[u] = remaining[u]
    BY <1>1
  <1>3. /\ \A u \in TimerIds \ {t} : Left(u)' = Left(u)
    BY <1>1, <1>2 DEF Left
  <1>4. Scheduled' = Scheduled \ {t} /\ InInterrupt' = InInterrupt \ {t}
    BY <1>2 DEF Scheduled, InInterrupt, InState
  <1>5. Scheduled \subseteq TimerIds
    BY DEF Scheduled, InState
  <1>6. LeftInv'
    BY <1>2, <1>3, <1>4, <1>5 DEF LeftInv, Held
  <1> QED
    BY <1>1, <1>3, <1>4, <1>5, <1>6

(* The hardware counts for all the timers at once.                          *)
LEMMA HalTickEffect ==
  ASSUME CallsInv, LeftInv, HalTick
  PROVE  /\ UNCHANGED <<InInterrupt, Scheduled, running, sleeping, halMode>>
         /\ \A u \in Scheduled : Left(u) > 0 /\ Left(u)' = Left(u) - 1
         /\ LeftInv'
  <1>1. /\ UNCHANGED <<timerState, remaining, running, sleeping, halMode>>
        /\ hal > 0 /\ hal' = hal - 1 /\ hal \in Nat
        /\ \A u \in TimerIds : remaining[u] \in Nat
    BY NsTimerAssumption DEF HalTick, placeVars, CallsInv, NsTimerTypeOK
  <1>2. UNCHANGED <<InInterrupt, Scheduled>> /\ Scheduled \subseteq TimerIds
    BY <1>1 DEF InInterrupt, Scheduled, InState
  <1>3. \A u \in Scheduled : Left(u) > 0 /\ Left(u)' = Left(u) - 1
    BY <1>1, <1>2 DEF Left
  <1>4. \A u \in Scheduled : Left(u) \in Nat
    BY <1>1, <1>2 DEF Left
  <1>5. LeftInv'
    BY <1>1, <1>2, <1>3, <1>4, NsTimerAssumption DEF LeftInv, Held
  <1> QED
    BY <1>1, <1>2, <1>3, <1>5

LEMMA CallBackEffect ==
  ASSUME CallsInv, LeftInv, CallBack
  PROVE  /\ \E t \in InInterrupt : InInterrupt' = InInterrupt \ {t} /\ t = timers[Min(ToCall)]
         /\ UNCHANGED <<Scheduled, running, sleeping, hal, halMode>>
         /\ \A u \in Scheduled : Left(u)' = Left(u)
         /\ LeftInv'
  <1> DEFINE k == Min(ToCall)
  <1>1. k \in ToCall
    <2>1. ToCall \in SUBSET Nat /\ ToCall # {}
      <3>1. DOMAIN timers \subseteq Nat
        BY DEF CallsInv, NsTimerTypeOK
      <3> QED
        BY <3>1, CallsAreFound DEF CallBack
    <2> QED
      BY <2>1, MinNat
  <1>2. /\ timerState' = [timerState EXCEPT ![timers[k]] = "STOP"]
        /\ UNCHANGED <<remaining, running, sleeping, hal, halMode>>
        /\ timerState \in [TimerIds -> States]
    BY DEF CallBack, halVars, CallsInv, NsTimerTypeOK, States
  <1> HIDE DEF k
  <1>3. /\ timers[k] \in TimerIds /\ timerState[timers[k]] = "RUN_INTERRUPT"
    BY <1>1, CallsAreFound DEF ToCall, CallsInv, NsTimerTypeOK
  <1>4. /\ timers[k] \in InInterrupt /\ InInterrupt' = InInterrupt \ {timers[k]}
        /\ Scheduled' = Scheduled
    BY <1>2, <1>3 DEF InInterrupt, Scheduled, InState
  <1>5. \A u \in TimerIds \ {timers[k]} : timerState'[u] = timerState[u]
    BY <1>2, <1>3
  <1>6. Scheduled \subseteq TimerIds \ {timers[k]}
    BY <1>3 DEF Scheduled, InState
  <1>7. \A u \in Scheduled : Left(u)' = Left(u)
    BY <1>2, <1>5, <1>6 DEF Left
  <1>8. timerState'[timers[k]] = "STOP"
    BY <1>2, <1>3
  <1>9. LeftInv'
    BY <1>2, <1>4, <1>5, <1>7, <1>8 DEF LeftInv, Held
  <1> QED
    BY <1>2, <1>4, <1>7, <1>9 DEF k

(* Steps of the interrupt and of ns_timer_sleep that touch no timer.        *)
LEMMA QuietEffect ==
  ASSUME LeftInv, UNCHANGED <<timerState, remaining, hal>>
  PROVE  /\ UNCHANGED <<InInterrupt, Scheduled>>
         /\ \A u \in Scheduled : Left(u)' = Left(u)
         /\ LeftInv'
  <1>1. UNCHANGED <<InInterrupt, Scheduled>>
    BY DEF InInterrupt, Scheduled, InState
  <1>2. \A u \in Scheduled : Left(u)' = Left(u)
    BY DEF Left
  <1> QED
    BY <1>1, <1>2 DEF LeftInv, Held

LEMMA StepLeftInv == CallsInv /\ LeftInv /\ [NsTimerStep]_nsTimerVars => LeftInv'
  <1> SUFFICES ASSUME CallsInv, LeftInv, [NsTimerStep]_nsTimerVars
               PROVE  LeftInv'
    OBVIOUS
  <1>1. ASSUME NEW t \in TimerIds, Stop(t) \/ Unregister(t)
        PROVE  LeftInv'
    BY <1>1, StopEffect, UnregisterEffect
  <1>2. ASSUME NEW t \in TimerIds, NEW n \in Slots, Start(t, n)
        PROVE  LeftInv'
    BY <1>2, StartEffect, NsTimerAssumption
  <1>3. CASE SleepChecks \/ SleepDisables \/ SleepMarks \/ ReturnFromInterrupt \/ UNCHANGED nsTimerVars
    <2>1. UNCHANGED <<timerState, remaining, hal>>
      BY <1>3 DEF SleepChecks, SleepDisables, SleepMarks, PlatformTimerDisable, ReturnFromInterrupt,
                  nsTimerVars, halVars
    <2> QED
      BY <2>1, QuietEffect
  <1> QED
    BY <1>1, <1>2, <1>3, RegisterEffect, HalTickEffect, InterruptEffect, CallBackEffect
       DEF NsTimerStep, Next

(* Without sleep the hardware is never disabled, and says of itself whether *)
(* it runs.                                                                 *)
AwakeInv ==
    /\ CallsInv
    /\ LeftInv
    /\ halMode # "DISABLED"
    /\ ScheduledIsTimed

LEMMA StepAwakeInv == AwakeInv /\ [Next]_nsTimerVars => AwakeInv'
  <1> SUFFICES ASSUME AwakeInv, [Next]_nsTimerVars
               PROVE  AwakeInv'
    OBVIOUS
  <1>0. CallsInv' /\ LeftInv' /\ running \in BOOLEAN
    BY StepCallsInv, StepLeftInv DEF AwakeInv, NsTimerStep, CallsInv, NsTimerTypeOK
  <1>1. CASE UNCHANGED <<running, halMode>> /\ Scheduled' \subseteq Scheduled
    BY <1>0, <1>1 DEF AwakeInv, ScheduledIsTimed
  <1>2. CASE running' = TRUE /\ halMode' = "COUNTING"
    BY <1>0, <1>2 DEF AwakeInv, ScheduledIsTimed
  <1>3. ASSUME NEW t \in TimerIds, Stop(t) \/ Unregister(t)
        PROVE  AwakeInv'
    BY <1>0, <1>1, <1>2, <1>3, StopEffect, UnregisterEffect DEF AwakeInv
  <1>4. ASSUME NEW t \in TimerIds, NEW n \in Slots, Start(t, n)
        PROVE  AwakeInv'
    <2>1. running' = TRUE /\ (halMode' = "COUNTING" \/ (running = TRUE /\ halMode' = halMode))
      BY <1>4, StartEffect, NsTimerAssumption DEF AwakeInv
    <2> QED
      BY <1>2, <2>1 DEF AwakeInv, ScheduledIsTimed
  <1>5. CASE Interrupt
    <2>1. \/ running' = TRUE /\ halMode' = "COUNTING"
          \/ running' = FALSE /\ halMode' = "IDLE" /\ Scheduled' = {}
      BY <1>5, InterruptEffect DEF AwakeInv
    <2> QED
      BY <1>0, <1>2, <2>1 DEF AwakeInv, ScheduledIsTimed
  <1>6. CASE Register \/ HalTick \/ CallBack
    BY <1>1, <1>6, RegisterEffect, HalTickEffect, CallBackEffect DEF AwakeInv
  <1>7. CASE ReturnFromInterrupt \/ UNCHANGED nsTimerVars
    <2>1. UNCHANGED <<timerState, remaining, running, hal, halMode>>
      BY <1>7 DEF ReturnFromInterrupt, nsTimerVars, halVars
    <2> QED
      BY <1>1, <2>1, QuietEffect DEF AwakeInv
  <1> QED
    BY <1>3, <1>4, <1>5, <1>6, <1>7 DEF Next

LEMMA InitAwakeInv == Init => AwakeInv
  <1> SUFFICES ASSUME Init
               PROVE  AwakeInv
    OBVIOUS
  <1>1. Scheduled = {} /\ \A t \in TimerIds : timerState[t] = "STOP"
    BY DEF Init, Scheduled, InState
  <1>2. LeftInv
    BY <1>1 DEF LeftInv, Held
  <1> QED
    BY <1>1, <1>2, InitCallsInv DEF Init, AwakeInv, ScheduledIsTimed

(* No order of starting, stopping and firing leaves a timer stranded: while *)
(* one is started, the hardware runs.                                       *)
THEOREM NoneStranded == Spec => []ScheduledIsTimed
  <1>1. AwakeInv => ScheduledIsTimed
    BY DEF AwakeInv
  <1> QED
    BY InitAwakeInv, StepAwakeInv, <1>1, PTL DEF Spec

-----------------------------------------------------------------------------
(* ns_timer.c implements Countdown. *)

(* Timers' slots as Countdown sees them.                                    *)
LeftOf == [t \in Scheduled |-> Left(t)]

(* The simulation of each kind of step.                                     *)
LEMMA SimulateSet ==
  ASSUME NEW t \in TimerIds, NEW n \in 0 .. MaxSlots, NEW late \in {0, 1},
         late = 1 => n = 0,
         Scheduled' = Scheduled \cup {t},
         InInterrupt' = InInterrupt \ {t},
         Left(t)' = n + late,
         \A u \in Scheduled \ {t} : Left(u)' = Left(u) + late,
         \A u \in Scheduled : Left(u) \in Nat
  PROVE  Count!Next
  <1>0. MaxSlots \in Nat
    BY NsTimerAssumption
  <1>1. LeftOf' = [u \in Scheduled \cup {t} |-> IF u = t THEN n + late ELSE LeftOf[u] + late]
    BY DEF LeftOf
  <1>2. DOMAIN LeftOf = Scheduled
    BY DEF LeftOf
  <1>3. CASE n = 0
    <2>1. LeftOf' = [u \in DOMAIN LeftOf \cup {t} |-> IF u = t THEN late ELSE LeftOf[u] + late]
      BY <1>1, <1>2, <1>3
    <2>2. Count!SetNow(t)
      BY <2>1 DEF Count!SetNow, LeftOf, InInterrupt
    <2> QED
      BY <2>2 DEF Count!Next
  <1>4. CASE n # 0
    <2>1. n \in 1 .. MaxSlots /\ late = 0
      BY <1>0, <1>4
    <2>2. LeftOf' = [u \in DOMAIN LeftOf \cup {t} |-> IF u = t THEN n ELSE LeftOf[u]]
      <3>1. \A u \in Scheduled : LeftOf[u] + 0 = LeftOf[u]
        BY DEF LeftOf
      <3> QED
        BY <1>1, <1>2, <2>1, <3>1
    <2>3. Count!Set(t, n)
      BY <2>2 DEF Count!Set, LeftOf, InInterrupt
    <2> QED
      BY <2>1, <2>3 DEF Count!Next
  <1> QED
    BY <1>3, <1>4

LEMMA SimulateClear ==
  ASSUME NEW t \in TimerIds,
         Scheduled' = Scheduled \ {t},
         InInterrupt' = InInterrupt \ {t},
         \A u \in Scheduled \ {t} : Left(u)' = Left(u)
  PROVE  Count!Next
  <1>1. LeftOf' = [u \in DOMAIN LeftOf \ {t} |-> LeftOf[u]]
    BY DEF LeftOf
  <1>2. Count!Clear(t)
    BY <1>1 DEF Count!Clear, LeftOf, InInterrupt
  <1> QED
    BY <1>2 DEF Count!Next

LEMMA SimulateStutter ==
  ASSUME Scheduled' = Scheduled, InInterrupt' = InInterrupt,
         \A u \in Scheduled : Left(u)' = Left(u)
  PROVE  UNCHANGED Count!countdownVars
  <1>1. LeftOf' = LeftOf
    BY DEF LeftOf
  <1> QED
    BY <1>1 DEF Count!countdownVars, LeftOf, InInterrupt

LEMMA SimulateInterrupt ==
  ASSUME AwakeInv, Interrupt
  PROVE  [Count!Next]_(Count!countdownVars)
  <1>1. /\ Due = {t \in Scheduled : Left(t) = 0}
        /\ InInterrupt' = InInterrupt \cup Due
        /\ Scheduled' = Scheduled \ Due
        /\ \A u \in Scheduled \ Due : Left(u)' = Left(u)
    BY InterruptEffect DEF AwakeInv
  <1>2. InInterrupt = {}
    BY AllAreCalled DEF AwakeInv, CalledInFull, InInterrupt, Interrupt
  <1>3. LeftOf' = [u \in DOMAIN LeftOf \ Due |-> LeftOf[u]] /\ DOMAIN LeftOf = Scheduled
    BY <1>1 DEF LeftOf
  <1>4. Due = {t \in DOMAIN LeftOf : LeftOf[t] = 0}
    BY <1>1 DEF LeftOf
  <1>5. CASE Due = {}
    BY <1>1, <1>2, <1>5, SimulateStutter
  <1>6. CASE Due # {}
    <2>1. Count!Strike
      BY <1>1, <1>2, <1>3, <1>4, <1>6 DEF Count!Strike, LeftOf, InInterrupt
    <2> QED
      BY <2>1 DEF Count!Next
  <1> QED
    BY <1>5, <1>6

LEMMA SimulateHalTick ==
  ASSUME AwakeInv, HalTick
  PROVE  Count!Next
  <1>1. /\ UNCHANGED <<InInterrupt, Scheduled>>
        /\ \A u \in Scheduled : Left(u) > 0 /\ Left(u)' = Left(u) - 1
    BY HalTickEffect DEF AwakeInv
  <1>2. LeftOf' = [u \in DOMAIN LeftOf |-> LeftOf[u] - 1]
    BY <1>1 DEF LeftOf
  <1>3. \A u \in DOMAIN LeftOf : LeftOf[u] > 0
    BY <1>1 DEF LeftOf
  <1>4. Count!Pass
    BY <1>1, <1>2, <1>3 DEF Count!Pass, LeftOf, InInterrupt
  <1> QED
    BY <1>4 DEF Count!Next

LEMMA SimulateCallBack ==
  ASSUME AwakeInv, CallBack
  PROVE  Count!Next
  <1>1. PICK t \in InInterrupt : InInterrupt' = InInterrupt \ {t}
    BY CallBackEffect DEF AwakeInv
  <1>2. Scheduled' = Scheduled /\ \A u \in Scheduled : Left(u)' = Left(u)
    BY CallBackEffect DEF AwakeInv
  <1>3. t \in TimerIds
    BY DEF InInterrupt, InState
  <1>4. LeftOf' = LeftOf
    BY <1>2 DEF LeftOf
  <1>5. Count!Ring(t)
    BY <1>1, <1>4 DEF Count!Ring, LeftOf, InInterrupt
  <1> QED
    BY <1>3, <1>5 DEF Count!Next

LEMMA StepSimulated ==
  ASSUME AwakeInv, [Next]_nsTimerVars
  PROVE  [Count!Next]_(Count!countdownVars)
  <1>1. ASSUME NEW t \in TimerIds, Stop(t) \/ Unregister(t)
        PROVE  Count!Next
    BY <1>1, StopEffect, UnregisterEffect, SimulateClear DEF AwakeInv
  <1>2. ASSUME NEW t \in TimerIds, NEW n \in Slots, Start(t, n)
        PROVE  Count!Next
    <2>0. n \in 0 .. MaxSlots /\ CallsInv /\ LeftInv /\ running \in BOOLEAN
      BY NsTimerAssumption DEF AwakeInv, CallsInv, NsTimerTypeOK
    <2>1. PICK late \in {0, 1} :
            /\ late = 1 => n = 0
            /\ Left(t)' = n + late
            /\ running = TRUE => \A u \in Scheduled \ {t} : Left(u)' = Left(u) + late
      BY <1>2, <2>0, StartEffect
    <2>2. Scheduled' = Scheduled \cup {t} /\ InInterrupt' = InInterrupt \ {t}
      BY <1>2, <2>0, StartEffect
    <2>3. running = TRUE \/ Scheduled = {}
      BY <2>0 DEF AwakeInv, ScheduledIsTimed, NsTimerTypeOK, CallsInv
    <2>4. \A u \in Scheduled \ {t} : Left(u)' = Left(u) + late
      BY <2>1, <2>3
    <2>5. \A u \in Scheduled : Left(u) \in Nat
      BY <2>0, LeftFacts DEF CallsInv
    <2> QED
      BY <2>0, <2>1, <2>2, <2>4, <2>5, SimulateSet
  <1>3. CASE Interrupt
    BY <1>3, SimulateInterrupt
  <1>4. CASE HalTick
    BY <1>4, SimulateHalTick
  <1>5. CASE CallBack
    BY <1>5, SimulateCallBack
  <1>6. CASE Register
    BY <1>6, RegisterEffect, SimulateStutter DEF AwakeInv
  <1>7. CASE ReturnFromInterrupt \/ UNCHANGED nsTimerVars
    <2>1. UNCHANGED <<timerState, remaining, hal>>
      BY <1>7 DEF ReturnFromInterrupt, nsTimerVars, halVars
    <2> QED
      BY <2>1, QuietEffect, SimulateStutter DEF AwakeInv
  <1> QED
    BY <1>1, <1>2, <1>3, <1>4, <1>5, <1>6, <1>7 DEF Next

(* Although one hardware counter is restarted and shared, every timer is    *)
(* called after exactly the slots it was started with, and once: ns_timer.c *)
(* implements Countdown.                                                    *)
THEOREM CountsDownForAll == Spec => CountsDown
  <1>1. Init => Count!Init
    <2> SUFFICES ASSUME Init
                 PROVE  Count!Init
      OBVIOUS
    <2>1. Scheduled = {} /\ InState(timerState, "RUN_INTERRUPT") = {}
      BY DEF Init, Scheduled, InState
    <2>2. [t \in Scheduled |-> Left(t)] = <<>>
      BY <2>1
    <2> QED
      BY <2>1, <2>2 DEF Count!Init
  <1>2. AwakeInv /\ [Next]_nsTimerVars => [Count!Next]_(Count!countdownVars)
    BY StepSimulated
  <1> QED
    BY InitAwakeInv, StepAwakeInv, <1>1, <1>2, PTL DEF Spec, CountsDown, Count!Spec
=============================================================================
