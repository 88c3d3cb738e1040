---- MODULE CircuitBreaker_proofs ----
(***************************************************************************)
(* For any handlers, any threshold, any timeout and any supply of timer    *)
(* names: the breaker is well typed, and an open breaker has a timer that  *)
(* will close it.                                                          *)
(***************************************************************************)
EXTENDS CircuitBreaker, TLAPS

\* The breaker's two atomics, its handlers and its timers keep their types: no
\* timer counts below zero, no handler is left in a state record_failure does
\* not have.
THEOREM TypeCorrect ==
  ASSUME BreakerAssumption
  PROVE  Spec => []TypeOK
<1> USE DEF BreakerAssumption
<1>1. Init => TypeOK
  <2>1. Init => open \in BOOLEAN
    BY Zenon DEF Init
  <2> QED
    BY <2>1 DEF Init, TypeOK
<1>2. TypeOK /\ [Next]_breaker => TypeOK'
  <2> SUFFICES ASSUME TypeOK, [Next]_breaker PROVE TypeOK'
    OBVIOUS
  <2>1. open' \in BOOLEAN
    \* Only StoreOpen and Wake assign it.
    BY Zenon DEF TypeOK, Next, HandlerStep, Admit, Leave, RecordSuccess, RecordFailure, Recording,
             StoreOpen, SpawnTimer, TimerStep, Wake, ClearFailures, Tick, breaker
  <2>2. ASSUME NEW h \in Handlers, HandlerStep(h) PROVE TypeOK'
    <3>1. CASE Admit(h) \/ Leave(h)
      BY <2>1, <3>1 DEF TypeOK, Admit, Leave
    <3>2. CASE RecordSuccess(h) \/ RecordFailure(h)
      BY <2>1, <3>2 DEF TypeOK, RecordSuccess, RecordFailure
    <3>3. CASE StoreOpen(h)
      BY <2>1, <3>3 DEF TypeOK, StoreOpen
    <3>4. CASE SpawnTimer(h)
      BY <2>1, <3>4 DEF TypeOK, SpawnTimer
    <3> QED
      BY <2>2, <3>1, <3>2, <3>3, <3>4 DEF HandlerStep, Recording
  <2>3. ASSUME NEW i \in TimerIds, TimerStep(i) PROVE TypeOK'
    BY <2>1, <2>3 DEF TypeOK, TimerStep, Wake, ClearFailures
  <2>4. CASE Tick
    BY <2>1, <2>4 DEF TypeOK, Tick
  <2>5. CASE UNCHANGED breaker
    BY <2>5 DEF TypeOK, breaker
  <2> QED
    BY <2>2, <2>3, <2>4, <2>5 DEF Next
<1> QED
  BY <1>1, <1>2, PTL DEF Spec

\* An open breaker is never left without a timer asleep, or a handler about to
\* spawn one, however many handlers store true and timers store false at once.
THEOREM OpenAlwaysHasTimer ==
  ASSUME BreakerAssumption
  PROVE  Spec => []OpenHasTimer
<1>0. Spec => []TypeOK
  BY TypeCorrect
<1>1. Init => OpenHasTimer
  BY Zenon DEF Init, OpenHasTimer
<1>2. TypeOK /\ OpenHasTimer /\ [Next]_breaker => OpenHasTimer'
  <2> SUFFICES ASSUME TypeOK, OpenHasTimer, [Next]_breaker PROVE OpenHasTimer'
    OBVIOUS
  <2> USE DEF TypeOK, OpenHasTimer
  <2>1. ASSUME NEW h \in Handlers, Admit(h) \/ Leave(h) \/ RecordSuccess(h) \/ RecordFailure(h)
        PROVE OpenHasTimer'
    \* pc[h] is not "spawn" before, so the witness of OpenHasTimer is still there.
    BY <2>1 DEF Admit, Leave, RecordSuccess, RecordFailure
  <2>2. ASSUME NEW h \in Handlers, StoreOpen(h) PROVE OpenHasTimer'
    BY <2>2 DEF StoreOpen
  <2>3. ASSUME NEW h \in Handlers, SpawnTimer(h) PROVE OpenHasTimer'
    BY <2>3 DEF SpawnTimer
  <2>4. ASSUME NEW i \in TimerIds, Wake(i) PROVE OpenHasTimer'
    BY <2>4 DEF Wake
  <2>5. ASSUME NEW i \in TimerIds, ClearFailures(i) PROVE OpenHasTimer'
    BY <2>5 DEF ClearFailures
  <2>6. CASE Tick
    BY <2>6 DEF Tick
  <2>7. CASE UNCHANGED breaker
    BY <2>7 DEF breaker
  <2> QED
    BY <2>1, <2>2, <2>3, <2>4, <2>5, <2>6, <2>7
    DEF Next, HandlerStep, Recording, TimerStep
<1> QED
  BY <1>0, <1>1, <1>2, PTL DEF Spec
====
