---- MODULE CircuitBreaker ----
(***************************************************************************)
(* The circuit breaker of swamp-server/src/circuit_breaker.rs: two atomics *)
(* shared by every HTTP handler and by the timer tasks it spawns.  Each    *)
(* atomic operation is a step.  A handler reads is_open once, on arrival;  *)
(* what it records, it records later, whatever has become of the breaker.  *)
(*                                                                         *)
(* Time is a count of ticks: a timer sleeps ResetTimeout of them, at       *)
(* least, for a late runtime may let more go by.                           *)
(***************************************************************************)
EXTENDS Naturals, FiniteSets

CONSTANTS
  Handlers,        \* the HTTP handlers
  Threshold,       \* failures that open the breaker (5 in main.rs)
  ResetTimeout,    \* ticks it stays open (30 s in main.rs)
  TimerIds         \* bound: names for the timer tasks alive at once

\* Assumed by Server, which gives these their values, and by the theorems.
BreakerAssumption ==
  /\ Threshold \in Nat \ {0}
  /\ ResetTimeout \in Nat

VARIABLES
  failures, open,    \* the two atomics
  pc,                \* handler -> what it does next with the breaker
  timer,             \* timer -> "none", "sleep" or "reset"
  left,              \* timer -> ticks it still sleeps
  open_age           \* history: ticks since the breaker last went from closed
                     \* to open, counted to ResetTimeout

breaker == <<failures, open, pc, timer, left, open_age>>

TypeOK ==
  /\ failures \in Nat
  /\ open \in BOOLEAN
  /\ pc \in [Handlers -> {"idle", "serving", "store", "spawn"}]
  /\ timer \in [TimerIds -> {"none", "sleep", "reset"}]
  /\ left \in [TimerIds -> 0 .. ResetTimeout]
  /\ open_age \in 0 .. ResetTimeout

Init ==
  /\ failures = 0
  /\ open = FALSE
  /\ pc = [h \in Handlers |-> "idle"]
  /\ timer = [i \in TimerIds |-> "none"]
  /\ left = [i \in TimerIds |-> 0]
  /\ open_age = 0

----------------------------------------------------------------------------
(* Handlers.                                                               *)

\* Bound: a handler is admitted only if a timer name is left for it, so that
\* spawning never waits for one.
TimerRoom ==
  Cardinality({h \in Handlers : pc[h] # "idle"} ) +
  Cardinality({i \in TimerIds : timer[i] # "none"}) < Cardinality(TimerIds)

\* is_open answered false: the handler goes on to serve its request.
Admit(h) ==
  /\ pc[h] = "idle"
  /\ ~open
  /\ TimerRoom
  /\ pc' = [pc EXCEPT ![h] = "serving"]
  /\ UNCHANGED <<failures, open, timer, left, open_age>>

\* A handler that returns without recording anything (429).
Leave(h) ==
  /\ pc[h] = "serving"
  /\ pc' = [pc EXCEPT ![h] = "idle"]
  /\ UNCHANGED <<failures, open, timer, left, open_age>>

RecordSuccess(h) ==
  /\ pc[h] = "serving"
  /\ failures' = 0
  /\ pc' = [pc EXCEPT ![h] = "idle"]
  /\ UNCHANGED <<open, timer, left, open_age>>

\* record_failure: the fetch_add, whose result decides whether to open.
RecordFailure(h) ==
  /\ pc[h] = "serving"
  /\ failures' = failures + 1
  /\ pc' = [pc EXCEPT ![h] = IF failures + 1 >= Threshold THEN "store" ELSE "idle"]
  /\ UNCHANGED <<open, timer, left, open_age>>

\* Variant: the breaker opens and no timer is spawned.
StoreOpen_NoTimer(h) ==
  /\ pc[h] = "store"
  /\ open' = TRUE
  /\ open_age' = IF open THEN open_age ELSE 0
  /\ pc' = [pc EXCEPT ![h] = "idle"]
  /\ UNCHANGED <<failures, timer, left>>

StoreOpen(h) ==
  /\ pc[h] = "store"
  /\ open' = TRUE
  /\ open_age' = IF open THEN open_age ELSE 0
  /\ pc' = [pc EXCEPT ![h] = "spawn"]
  /\ UNCHANGED <<failures, timer, left>>

\* Every failure from the threshold on spawns a timer of its own.
SpawnTimer(h) ==
  LET i == CHOOSE j \in TimerIds : timer[j] = "none" IN
  /\ pc[h] = "spawn"
  /\ i \in TimerIds /\ timer[i] = "none"
  /\ timer' = [timer EXCEPT ![i] = "sleep"]
  /\ left' = [left EXCEPT ![i] = ResetTimeout]
  /\ pc' = [pc EXCEPT ![h] = "idle"]
  /\ UNCHANGED <<failures, open, open_age>>

----------------------------------------------------------------------------
(* Timer tasks.                                                            *)

\* Variant: the breaker closes only if the failures have gone down.
Wake_IfRecovered(i) ==
  /\ timer[i] = "sleep"
  /\ left[i] = 0
  /\ open' = (failures >= Threshold)
  /\ timer' = [timer EXCEPT ![i] = "reset"]
  /\ UNCHANGED <<failures, pc, left, open_age>>

Wake(i) ==
  /\ timer[i] = "sleep"
  /\ left[i] = 0
  /\ open' = FALSE
  /\ timer' = [timer EXCEPT ![i] = "reset"]
  /\ UNCHANGED <<failures, pc, left, open_age>>

ClearFailures(i) ==
  /\ timer[i] = "reset"
  /\ failures' = 0
  /\ timer' = [timer EXCEPT ![i] = "none"]
  /\ UNCHANGED <<open, pc, left, open_age>>

\* A tick passes while some timer still sleeps.
Tick ==
  /\ \E i \in TimerIds : left[i] > 0
  /\ left' = [i \in TimerIds |-> IF left[i] > 0 THEN left[i] - 1 ELSE 0]
  /\ open_age' = IF open /\ open_age < ResetTimeout THEN open_age + 1 ELSE open_age
  /\ UNCHANGED <<failures, open, pc, timer>>

----------------------------------------------------------------------------

\* record_failure is a plain function: once begun it runs to its end.
Recording(h) == StoreOpen(h) \/ SpawnTimer(h)

HandlerStep(h) ==
  \/ Admit(h)
  \/ Leave(h)
  \/ RecordSuccess(h)
  \/ RecordFailure(h)
  \/ Recording(h)

TimerStep(i) == Wake(i) \/ ClearFailures(i)

Next ==
  \/ \E h \in Handlers : HandlerStep(h)
  \/ \E i \in TimerIds : TimerStep(i)
  \/ Tick

Spec == Init /\ [][Next]_breaker

\* The runtime runs every task that can run, and time passes.
Fairness ==
  /\ \A h \in Handlers : WF_breaker(Recording(h))
  /\ \A i \in TimerIds : WF_breaker(TimerStep(i))
  /\ WF_breaker(Tick)

FairSpec == Spec /\ Fairness

----------------------------------------------------------------------------
(* Properties.                                                             *)

\* An open breaker has a timer asleep that will close it, or a handler about
\* to spawn one: record_failure stores true before it spawns, and a timer
\* that has stored false leaves no open breaker behind without another.
OpenHasTimer ==
  open => \/ \E i \in TimerIds : timer[i] = "sleep"
          \/ \E h \in Handlers : pc[h] = "spawn"

\* The breaker never stays open: whatever handlers record meanwhile, some
\* timer closes it.
OpenCloses == open ~> ~open

\* A breaker that opens stays open for its reset_timeout ("Inicia timer para
\* reset automatico (cooldown)"): no timer left from an earlier failure ends
\* the cooldown of a later opening.
CooldownLasts == [][open /\ ~open' => open_age >= ResetTimeout]_breaker
====
