---- MODULE Server ----
(***************************************************************************)
(* swamp-server: the two generating endpoints of main.rs, the priority     *)
(* queue and the batcher of scheduler.rs, with the circuit breaker.        *)
(*                                                                         *)
(* A handler is a task of its own and may be overtaken by any other at     *)
(* every await: between the breaker's answer and the length of the queue,  *)
(* between that and the push.  What a generation does is Generation's      *)
(* business; here it runs and then ends well or badly.                     *)
(***************************************************************************)
EXTENDS Integers, Sequences, FiniteSets

CONSTANTS
  Requests,        \* one handler each
  Streams,         \* those posted to /generate-stream
  Tier, Workload,  \* request -> user_tier, workload_type
  QueueLimit,      \* 20 in the code
  MaxBatchSize,
  MaxInFlight,     \* bound: handlers between the length check and the push
  Threshold, ResetTimeout, TimerIds

VARIABLES
  failures, open, pc, timer, left, open_age,   \* the circuit breaker
  stage,         \* request -> where its handler is
  reply,         \* request -> the status it was answered with
  created_at,    \* request -> Instant::now() in submit
  clock,
  heap,          \* the requests in the BinaryHeap
  batch,         \* popped, not spawned yet
  job,           \* request -> what has become of its generation
  ahead          \* history: request -> those queued when it arrived

CB == INSTANCE CircuitBreaker WITH Handlers <- Requests

breaker == <<failures, open, pc, timer, left, open_age>>
queue   == <<created_at, clock, heap>>
server  == <<stage, reply, queue, batch, job, ahead>>
vars    == <<breaker, server>>

ASSUME ServerAssumption ==
  /\ IsFiniteSet(Requests)
  /\ Streams \subseteq Requests
  /\ QueueLimit \in Nat
  /\ MaxBatchSize \in Nat \ {0}
  /\ MaxInFlight \in Nat
  /\ CB!BreakerAssumption

Stages  == {"new", "len", "lua", "push", "failing", "accepted", "collect", "stream",
            "answered", "gone"}
Replies == {0, 200, 429, 500, 503}
Jobs    == {"none", "queued", "running", "done", "failed"}

TypeOK ==
  /\ CB!TypeOK
  /\ stage \in [Requests -> Stages]
  /\ reply \in [Requests -> Replies]
  /\ created_at \in [Requests -> Nat]
  /\ clock \in Nat
  /\ heap \subseteq Requests
  /\ batch \in Seq(Requests)
  /\ job \in [Requests -> Jobs]
  /\ ahead \in [Requests -> SUBSET Requests]

Init ==
  /\ CB!Init
  /\ stage = [r \in Requests |-> "new"]
  /\ reply = [r \in Requests |-> 0]
  /\ created_at = [r \in Requests |-> 0]
  /\ clock = 0
  /\ heap = {}
  /\ batch = <<>>
  /\ job = [r \in Requests |-> "none"]
  /\ ahead = [r \in Requests |-> {}]

----------------------------------------------------------------------------
(* The order of the queue.                                                 *)

Clamp(n) == IF n < 0 THEN 0 ELSE IF n > 255 THEN 255 ELSE n

\* assign_priority of policies/swamp_policy.lua; 0 comes first.
assign_priority(r) ==
  Clamp(100 - (CASE Tier[r] = "PREMIUM" -> 50 [] Tier[r] = "SYSTEM" -> 80 [] OTHER -> 0)
            + (CASE Workload[r] = "CHAT" -> -10 [] Workload[r] = "RAG" -> 20 [] OTHER -> 0))

\* Variant: the latest first.
Before_Latest(a, b) ==
  \/ assign_priority(a) < assign_priority(b)
  \/ assign_priority(a) = assign_priority(b) /\ created_at[a] > created_at[b]

\* Ord for PriorityRequest: a is popped before b.
Before(a, b) ==
  \/ assign_priority(a) < assign_priority(b)
  \/ assign_priority(a) = assign_priority(b) /\ created_at[a] < created_at[b]

----------------------------------------------------------------------------
(* Handlers.                                                               *)

Go(r, s)     == stage' = [stage EXCEPT ![r] = s]
Answer(r, n) == reply' = [reply EXCEPT ![r] = n] /\ Go(r, "answered")

CheckBreaker(r) ==
  /\ stage[r] = "new"
  /\ ahead' = [ahead EXCEPT ![r] = heap]
  /\ \/ open /\ Answer(r, 503) /\ UNCHANGED breaker
     \/ CB!Admit(r) /\ Go(r, "len") /\ UNCHANGED reply
  /\ UNCHANGED <<queue, batch, job>>

Submitting == {r \in Requests : stage[r] \in {"lua", "push"}}

QueueFull == Cardinality(heap) > QueueLimit

\* len() reads the queue under its lock and gives the lock back.
CheckLen(r) ==
  /\ stage[r] = "len"
  /\ \/ /\ QueueFull
        /\ Answer(r, 429)
        /\ CB!Leave(r)
     \/ /\ ~QueueFull
        /\ Cardinality(Submitting) < MaxInFlight
        /\ Go(r, "lua")
        /\ UNCHANGED <<reply, breaker>>
  /\ UNCHANGED <<queue, batch, job, ahead>>

\* submit: the script runs under the Lua lock; the time is taken before the
\* heap's lock is.
EvaluatePriority(r) ==
  /\ stage[r] = "lua"
  /\ Go(r, "push")
  /\ created_at' = [created_at EXCEPT ![r] = clock]
  /\ clock' = clock + 1
  /\ UNCHANGED <<breaker, reply, heap, batch, job, ahead>>

\* Variant: the request is queued all the same.
ScriptFails_Queued(r) ==
  /\ stage[r] = "lua"
  /\ CB!RecordFailure(r)
  /\ Go(r, "failing")
  /\ heap' = heap \cup {r}
  /\ job' = [job EXCEPT ![r] = "queued"]
  /\ UNCHANGED <<reply, created_at, clock, batch, ahead>>

ScriptFails(r) ==
  /\ stage[r] = "lua"
  /\ CB!RecordFailure(r)
  /\ Go(r, "failing")
  /\ UNCHANGED <<reply, queue, batch, job, ahead>>

RespondError(r) ==
  /\ stage[r] = "failing"
  /\ pc[r] = "idle"
  /\ Answer(r, 500)
  /\ UNCHANGED <<breaker, queue, batch, job, ahead>>

Push(r) ==
  /\ stage[r] = "push"
  /\ heap' = heap \cup {r}
  /\ job' = [job EXCEPT ![r] = "queued"]
  /\ Go(r, IF r \in Streams THEN "accepted" ELSE "collect")
  /\ UNCHANGED <<breaker, reply, created_at, clock, batch, ahead>>

\* /generate-stream answers as soon as the request is queued.
BeginStream(r) ==
  /\ stage[r] = "accepted"
  /\ CB!RecordSuccess(r)
  /\ reply' = [reply EXCEPT ![r] = 200]
  /\ Go(r, "stream")
  /\ UNCHANGED <<queue, batch, job, ahead>>


\* The generation has dropped its sender.
Ended(r) == job[r] \in {"done", "failed"}

EndStream(r) ==
  /\ stage[r] = "stream"
  /\ Ended(r)
  /\ Go(r, "answered")
  /\ UNCHANGED <<breaker, reply, queue, batch, job, ahead>>

\* /generate answers when the channel is closed and drained, that is when the
\* generation has dropped its sender.
Collect(r) ==
  /\ stage[r] = "collect"
  /\ Ended(r)
  /\ CB!RecordSuccess(r)
  /\ Answer(r, 200)
  /\ UNCHANGED <<queue, batch, job, ahead>>

\* The client goes away: the handler is dropped at an await, the stream where
\* it is; what has been queued stays queued.
Disconnect(r) ==
  /\ \/ stage[r] \in {"len", "lua", "push", "collect"} /\ CB!Leave(r)
     \/ stage[r] = "stream" /\ UNCHANGED breaker
  /\ Go(r, "gone")
  /\ UNCHANGED <<reply, queue, batch, job, ahead>>

----------------------------------------------------------------------------
(* The batcher, and the tasks it spawns.                                   *)

Least(m, n) == IF m < n THEN m ELSE n

\* Each pop takes one of the requests left that no other left comes before.
IsPopped(taken) ==
  \A i \in DOMAIN taken :
    LET rest == heap \ {taken[j] : j \in 1 .. i - 1} IN
    taken[i] \in rest /\ \A q \in rest : ~Before(q, taken[i])

\* Variant: what does not fit into the batch is dropped.
PopBatch_Drained ==
  /\ batch = <<>>
  /\ heap # {}
  /\ \E taken \in [1 .. Least(MaxBatchSize, Cardinality(heap)) -> heap] :
       IsPopped(taken) /\ batch' = taken
  /\ heap' = {}
  /\ UNCHANGED <<breaker, stage, reply, created_at, clock, job, ahead>>

\* Every 50 ms, under the heap's lock.
PopBatch ==
  /\ batch = <<>>
  /\ heap # {}
  /\ \E taken \in [1 .. Least(MaxBatchSize, Cardinality(heap)) -> heap] :
       /\ IsPopped(taken)
       /\ batch' = taken
       /\ heap' = heap \ {taken[i] : i \in DOMAIN taken}
  /\ UNCHANGED <<breaker, stage, reply, created_at, clock, job, ahead>>

\* Variant: the request stays in the batch it is spawned from.
Dispatch_Kept ==
  /\ batch # <<>>
  /\ job' = [job EXCEPT ![Head(batch)] = "running"]
  /\ UNCHANGED <<breaker, stage, reply, queue, batch, ahead>>

Dispatch ==
  /\ batch # <<>>
  /\ job' = [job EXCEPT ![Head(batch)] = "running"]
  /\ batch' = Tail(batch)
  /\ UNCHANGED <<breaker, stage, reply, queue, ahead>>

\* generate returns, with Ok or with an error that is only logged.
EndGeneration(r, how) ==
  /\ job[r] = "running"
  /\ job' = [job EXCEPT ![r] = how]
  /\ UNCHANGED <<breaker, stage, reply, queue, batch, ahead>>

Generated(r) == EndGeneration(r, "done")
GenerationFails(r) == EndGeneration(r, "failed")

----------------------------------------------------------------------------

BreakerStep ==
  /\ \/ \E r \in Requests : CB!Recording(r)
     \/ \E i \in TimerIds : CB!TimerStep(i)
     \/ CB!Tick
  /\ UNCHANGED server

\* What a handler does once a request has arrived, the client's doings aside.
HandlerStep(r) ==
  \/ CheckLen(r)
  \/ EvaluatePriority(r)
  \/ ScriptFails(r)
  \/ RespondError(r)
  \/ Push(r)
  \/ BeginStream(r)
  \/ EndStream(r)
  \/ Collect(r)

GenerationEnds(r) == Generated(r) \/ GenerationFails(r)

AllAnswered ==
  /\ \A r \in Requests : stage[r] \in {"answered", "gone"}
  /\ UNCHANGED vars

Next ==
  \/ \E r \in Requests : CheckBreaker(r) \/ HandlerStep(r) \/ Disconnect(r) \/ GenerationEnds(r)
  \/ PopBatch
  \/ Dispatch
  \/ BreakerStep
  \/ AllAnswered

Spec == Init /\ [][Next]_vars

\* tokio polls every task that is ready, but a stream only as its client takes
\* what it yields.  The handler of /generate reads all its generation sends, so
\* that this one ends (Generation!EndsUnlessUnread); that of a stream may wait for
\* a client who has stopped reading, and then nothing obliges it to go on.  A
\* generation is taken to find a thread to run on.
Fairness ==
  /\ \A r \in Requests : WF_vars(stage[r] # "stream" /\ HandlerStep(r))
  /\ \A r \in Requests \ Streams : WF_vars(GenerationEnds(r))
  /\ WF_vars(PopBatch)
  /\ WF_vars(Dispatch)
  /\ WF_vars(BreakerStep)

FairSpec == Spec /\ Fairness

----------------------------------------------------------------------------
(* Properties.                                                             *)

\* How far the queue can outgrow its limit: every handler that has seen it
\* short enough may still push, and len() lets one through at the limit
\* itself.  Nothing else makes it grow.
QueueOvershoot ==
  Cardinality(heap) + Cardinality(Submitting) <= QueueLimit + MaxInFlight

Dispatched(r) == job[r] \in {"running", "done", "failed"}

InBatch(r) == \E i \in DOMAIN batch : batch[i] = r

\* A handler that waits for tokens waits for a sender that somebody holds: its
\* request is in the queue, in the batch, with a task, or the generation is
\* over.  Nothing that passes a request on loses it.
WaitersHaveSenders ==
  \A r \in Requests :
    stage[r] \in {"accepted", "collect", "stream"} => r \in heap \/ InBatch(r) \/ Dispatched(r)

\* How many steps a handler has ahead of it at most, and a generation.
HandlerSteps(r) ==
  CASE stage[r] = "new" -> 6
    [] stage[r] = "len" -> 5
    [] stage[r] = "lua" -> 4
    [] stage[r] = "push" -> 3
    [] stage[r] = "accepted" -> 2
    [] stage[r] \in {"failing", "collect", "stream"} -> 1
    [] OTHER -> 0

JobSteps(r) ==
  CASE job[r] = "none" -> 4
    [] job[r] = "queued" /\ r \in heap -> 3
    [] job[r] = "queued" /\ r \notin heap -> 2
    [] job[r] = "running" -> 1
    [] OTHER -> 0

StepsLeft(r) == HandlerSteps(r) + JobSteps(r)

\* Whatever moves in the server, the breaker apart, brings some request nearer
\* to its end and takes none back: nothing is queued, spawned or answered twice,
\* so that finitely many requests take finitely many steps.
RequestsAdvance ==
  [][ UNCHANGED server
      \/ /\ \A r \in Requests : StepsLeft(r)' <= StepsLeft(r)
         /\ \E r \in Requests : StepsLeft(r)' < StepsLeft(r) ]_vars

\* A request that was in the queue when another arrived, and is no less
\* urgent, starts no later than it, whatever batches they fall into.
NoOvertaking ==
  \A r \in Requests : \A q \in ahead[r] :
    assign_priority(q) <= assign_priority(r) /\ Dispatched(r) => Dispatched(q)

\* A request refused with an error status never runs, and one that runs was
\* accepted: its client has left or holds (or will hold) a 200.
RefusedNeverRuns ==
  \A r \in Requests :
    reply[r] \in {429, 500, 503} => job[r] = "none"

\* The circuit breaker's own promises, with the handlers that use it.
OpenHasTimer == CB!OpenHasTimer
OpenCloses == CB!OpenCloses

====
