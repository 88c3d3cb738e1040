---- MODULE Server_proofs ----
(***************************************************************************)
(* For any requests, tiers, workloads, limits and batch sizes: a request   *)
(* refused is never run, the queue outgrows its limit by no more than the  *)
(* handlers in flight, no request overtakes one that was queued before it  *)
(* arrived and is at least as urgent, nobody waits for a sender that is    *)
(* lost, and requests only ever advance.  The circuit breaker's actions    *)
(* stay folded for that.  The server's handlers are then shown to drive    *)
(* the breaker by the steps of CircuitBreaker only, so that the theorems   *)
(* proved about it alone hold inside the server.                           *)
(***************************************************************************)
EXTENDS Server, FiniteSetTheorems, TLAPS

Early  == {"new", "len", "lua", "push", "failing"}
Errors == {429, 500, 503}

Types ==
  /\ stage \in [Requests -> Stages]
  /\ reply \in [Requests -> Replies]
  /\ created_at \in [Requests -> Nat]
  /\ clock \in Nat
  /\ heap \subseteq Requests
  /\ batch \in Seq(Requests)
  /\ job \in [Requests -> Jobs]
  /\ ahead \in [Requests -> SUBSET Requests]

\* A request has no job before its push.
EarlyInv == \A r \in Requests : stage[r] \in Early => job[r] = "none"

\* A request is queued exactly while it is in the heap or in the batch, and it
\* is in one of them only, once.
QueuedInv ==
  /\ \A r \in Requests :
       /\ job[r] = "queued" <=> (r \in heap \/ InBatch(r))
       /\ r \in heap => ~InBatch(r)
  /\ \A i, j \in DOMAIN batch : batch[i] = batch[j] => i = j

ReplyInv ==
  \A r \in Requests : reply[r] \in Errors => job[r] = "none" /\ stage[r] = "answered"

QInv == Types /\ EarlyInv /\ QueuedInv /\ ReplyInv

\* The steps of a handler that leave heap, batch and jobs alone.
Handling(r) ==
  \/ CheckBreaker(r) \/ CheckLen(r) \/ EvaluatePriority(r) \/ ScriptFails(r) \/ RespondError(r)
  \/ BeginStream(r) \/ EndStream(r) \/ Collect(r) \/ Disconnect(r)

\* Every step is one of these.
LEMMA StepKinds ==
  ASSUME [Next]_vars
  PROVE  \/ \E r \in Requests : Handling(r) \/ Push(r) \/ Generated(r) \/ GenerationFails(r)
         \/ PopBatch \/ Dispatch \/ UNCHANGED server
  BY DEF Next, HandlerStep, Handling, GenerationEnds, BreakerStep, AllAnswered, vars

\* What a handler's step other than the push does to its stage and its reply:
\* it does not go back before the push, and an error ends it there.
LEMMA HandlerMoves ==
  ASSUME Types, NEW r \in Requests, Handling(r)
  PROVE  /\ UNCHANGED <<heap, batch, job>>
         /\ \E s \in Stages, n \in Replies :
              /\ stage' = [stage EXCEPT ![r] = s]
              /\ reply' = [reply EXCEPT ![r] = n]
              /\ s # "new" /\ stage[r] # "answered"
              /\ s \in Early => stage[r] \in Early
              /\ s = "push" <=> EvaluatePriority(r)
              /\ n \in Errors => n = reply[r] \/ (s = "answered" /\ stage[r] \in Early)
<1>0. reply = [reply EXCEPT ![r] = reply[r]] /\ reply[r] \in Replies
  BY DEF Types
<1> DEFINE Moves(s, n) ==
      /\ s \in Stages /\ n \in Replies
      /\ stage' = [stage EXCEPT ![r] = s]
      /\ reply' = [reply EXCEPT ![r] = n]
      /\ s # "new" /\ stage[r] # "answered"
      /\ s \in Early => stage[r] \in Early
      /\ s = "push" <=> EvaluatePriority(r)
      /\ n \in Errors => n = reply[r] \/ (s = "answered" /\ stage[r] \in Early)
<1>m. ASSUME NEW s, NEW n, Moves(s, n)
      PROVE  \E s1 \in Stages, n1 \in Replies : Moves(s1, n1)
  BY <1>m
<1>1. CASE CheckBreaker(r)
  <2>1. stage[r] = "new" /\ ~EvaluatePriority(r)
    BY <1>1 DEF CheckBreaker, EvaluatePriority
  <2>2. Moves("answered", 503) \/ Moves("len", reply[r])
    BY <1>0, <1>1, <2>1 DEF CheckBreaker, Answer, Go, Stages, Replies, Early, Errors
  <2> QED
    BY <1>1, <2>2 DEF CheckBreaker, queue
<1>2. CASE CheckLen(r)
  <2>1. stage[r] = "len" /\ ~EvaluatePriority(r)
    BY <1>2 DEF CheckLen, EvaluatePriority
  <2>2. Moves("answered", 429) \/ Moves("lua", reply[r])
    BY <1>0, <1>2, <2>1 DEF CheckLen, Answer, Go, Stages, Replies, Early, Errors
  <2> QED
    BY <1>2, <2>2 DEF CheckLen, queue
<1>3. CASE EvaluatePriority(r)
  <2>1. Moves("push", reply[r])
    BY <1>0, <1>3 DEF EvaluatePriority, Go, Stages, Early
  <2> QED
    BY <1>3, <2>1 DEF EvaluatePriority
<1>4. CASE ScriptFails(r)
  <2>1. stage[r] = "lua" /\ ~EvaluatePriority(r)
    BY <1>4 DEF ScriptFails, EvaluatePriority, Go, Types
  <2>2. Moves("failing", reply[r])
    BY <1>0, <1>4, <2>1 DEF ScriptFails, Go, Stages, Early
  <2> QED
    BY <1>4, <2>2 DEF ScriptFails, queue
<1>5. CASE RespondError(r)
  <2>1. stage[r] = "failing" /\ ~EvaluatePriority(r)
    BY <1>5 DEF RespondError, EvaluatePriority
  <2>2. /\ stage' = [stage EXCEPT ![r] = "answered"] /\ reply' = [reply EXCEPT ![r] = 500]
        /\ UNCHANGED <<heap, batch, job>>
    BY <1>5 DEF RespondError, Answer, Go, queue
  <2>3. "answered" \in Stages /\ 500 \in Replies /\ stage[r] \in Early
    BY <2>1 DEF Stages, Replies, Early
  <2>4. Moves("answered", 500)
    BY <2>1, <2>2, <2>3 DEF Early
  <2> HIDE DEF Moves
  <2>5. \E s \in Stages, n \in Replies : Moves(s, n)
    BY <1>m, <2>4
  <2> QED
    BY <2>2, <2>5 DEF Moves
<1>6. CASE BeginStream(r)
  <2>1. stage[r] = "accepted" /\ ~EvaluatePriority(r)
    BY <1>6 DEF BeginStream, EvaluatePriority
  <2>2. /\ stage' = [stage EXCEPT ![r] = "stream"] /\ reply' = [reply EXCEPT ![r] = 200]
        /\ UNCHANGED <<heap, batch, job>>
    BY <1>6 DEF BeginStream, Go, queue
  <2>3. "stream" \in Stages \ Early /\ 200 \in Replies \ Errors
    BY DEF Stages, Replies, Early, Errors
  <2>4. Moves("stream", 200)
    BY <2>1, <2>2, <2>3
  <2> HIDE DEF Moves
  <2>5. \E s \in Stages, n \in Replies : Moves(s, n)
    BY <1>m, <2>4
  <2> QED
    BY <2>2, <2>5 DEF Moves
<1>7. CASE EndStream(r)
  <2>1. stage[r] = "stream" /\ ~EvaluatePriority(r)
    BY <1>7 DEF EndStream, EvaluatePriority
  <2>2. Moves("answered", reply[r])
    BY <1>0, <1>7, <2>1 DEF EndStream, Go, Stages, Early
  <2> QED
    BY <1>7, <2>2 DEF EndStream, queue
<1>8. CASE Collect(r)
  <2>1. stage[r] = "collect" /\ ~EvaluatePriority(r)
    BY <1>8 DEF Collect, EvaluatePriority
  <2>2. Moves("answered", 200)
    BY <1>8, <2>1 DEF Collect, Answer, Go, Stages, Replies, Early, Errors
  <2> QED
    BY <1>8, <2>2 DEF Collect, queue
<1>9. CASE Disconnect(r)
  <2>1. stage[r] \in {"len", "lua", "push", "collect", "stream"}
    BY <1>9 DEF Disconnect
  <2>2. ~EvaluatePriority(r)
    BY <1>9 DEF Disconnect, EvaluatePriority, Go, Types
  <2>3. Moves("gone", reply[r])
    BY <1>0, <1>9, <2>1, <2>2 DEF Disconnect, Go, Stages, Early
  <2> QED
    BY <1>9, <2>3 DEF Disconnect, queue
<1> QED
  BY <1>1, <1>2, <1>3, <1>4, <1>5, <1>6, <1>7, <1>8, <1>9 DEF Handling

----------------------------------------------------------------------------

\* The server starts with every handler new and nothing queued.
LEMMA QInit == Init => QInv
  BY DEF Init, QInv, Types, EarlyInv, QueuedInv, ReplyInv, InBatch, Stages, Replies, Jobs, Early,
         Errors

\* A handler's step that does not push.
LEMMA HandlingKeepsQInv == ASSUME QInv, NEW r \in Requests, Handling(r) PROVE QInv'
<1> USE DEF QInv
<1>1. PICK s \in Stages, n \in Replies :
        /\ stage' = [stage EXCEPT ![r] = s]
        /\ reply' = [reply EXCEPT ![r] = n]
        /\ s # "new" /\ stage[r] # "answered"
        /\ s \in Early => stage[r] \in Early
        /\ s = "push" <=> EvaluatePriority(r)
        /\ n \in Errors => n = reply[r] \/ (s = "answered" /\ stage[r] \in Early)
  BY HandlerMoves
<1>2. UNCHANGED <<heap, batch, job>>
  BY HandlerMoves
<1>3. /\ clock' \in Nat
      /\ created_at' \in [Requests -> Nat]
      /\ ahead' \in [Requests -> SUBSET Requests]
  <2>1. CASE CheckBreaker(r)
    BY <2>1 DEF Types, CheckBreaker, queue
  <2>2. CASE EvaluatePriority(r)
    BY <2>2 DEF Types, EvaluatePriority
  <2>3. CASE ~CheckBreaker(r) /\ ~EvaluatePriority(r)
    BY <2>3 DEF Types, Handling, CheckLen, ScriptFails, RespondError, BeginStream, EndStream,
           Collect, Disconnect, queue
  <2> QED
    BY <2>1, <2>2, <2>3
<1>4. Types'
  BY <1>1, <1>2, <1>3 DEF Types
<1>5. EarlyInv'
  BY <1>1, <1>2 DEF Types, EarlyInv
<1>6. QueuedInv'
  BY <1>2 DEF QueuedInv, InBatch
<1>7. ReplyInv'
  BY <1>1, <1>2 DEF Types, EarlyInv, ReplyInv
<1> QED
  BY <1>4, <1>5, <1>6, <1>7

\* submit pushes a request that had no job.
LEMMA PushKeepsQInv == ASSUME QInv, NEW r \in Requests, Push(r) PROVE QInv'
<1> USE DEF QInv, Push, Go
<1>1. Types'
  BY DEF Types, Stages, Jobs
<1>2. job[r] = "none" /\ r \notin heap /\ ~InBatch(r) /\ stage[r] = "push"
  BY DEF EarlyInv, QueuedInv, Early
<1>3. EarlyInv'
  BY DEF Types, EarlyInv, Early
<1>4. QueuedInv'
  BY <1>2 DEF Types, QueuedInv, InBatch
<1>5. ReplyInv'
  BY <1>2 DEF Types, ReplyInv
<1> QED
  BY <1>1, <1>3, <1>4, <1>5

\* What the batcher pops is taken from the heap, each request once, and nothing
\* is taken before something that comes before it.
LEMMA PopTakes ==
  ASSUME Types, PopBatch
  PROVE  /\ batch = <<>>
         /\ batch' \in Seq(heap)
         /\ heap' = heap \ {batch'[i] : i \in DOMAIN batch'}
         /\ \A i, j \in DOMAIN batch' : batch'[i] = batch'[j] => i = j
         /\ \A q \in heap : \A j \in DOMAIN batch' :
              Before(q, batch'[j]) => \E i \in DOMAIN batch' : i < j /\ batch'[i] = q
<1>1. PICK taken \in [1 .. Least(MaxBatchSize, Cardinality(heap)) -> heap] :
        /\ IsPopped(taken)
        /\ batch' = taken
        /\ heap' = heap \ {taken[i] : i \in DOMAIN taken}
  BY DEF PopBatch
<1>2. PICK n \in Nat : taken \in [1 .. n -> heap]
  <2>1. IsFiniteSet(heap)
    BY ServerAssumption, FS_Subset DEF Types
  <2>2. Cardinality(heap) \in Nat
    BY <2>1, FS_CardinalityType
  <2>3. Least(MaxBatchSize, Cardinality(heap)) \in Nat
    BY <2>2, ServerAssumption DEF Least
  <2> QED
    BY <2>3
<1>3. taken \in Seq(heap)
  BY <1>2
<1>4. ASSUME NEW i \in DOMAIN taken
      PROVE  /\ taken[i] \in heap \ {taken[j] : j \in 1 .. i - 1}
             /\ \A q \in heap \ {taken[j] : j \in 1 .. i - 1} : ~Before(q, taken[i])
  BY <1>1 DEF IsPopped
<1>5. ASSUME NEW i \in DOMAIN taken, NEW j \in DOMAIN taken, i < j
      PROVE  taken[i] # taken[j]
  <2>1. i \in 1 .. j - 1
    BY <1>2, <1>5
  <2> QED
    BY <1>4, <2>1
<1>6. ASSUME NEW i \in DOMAIN taken, NEW j \in DOMAIN taken, taken[i] = taken[j]
      PROVE  i = j
  BY <1>2, <1>5, <1>6
<1>7. ASSUME NEW q \in heap, NEW j \in DOMAIN taken, Before(q, taken[j])
      PROVE  \E i \in DOMAIN taken : i < j /\ taken[i] = q
  <2>1. q \in {taken[i] : i \in 1 .. j - 1}
    BY <1>4, <1>7
  <2>2. j \in 1 .. n /\ DOMAIN taken = 1 .. n
    BY <1>2
  <2>3. \A i \in 1 .. j - 1 : i \in 1 .. n /\ i < j
    BY <2>2
  <2> QED
    BY <2>1, <2>2, <2>3
<1> QED
  BY <1>1, <1>3, <1>6, <1>7 DEF PopBatch

\* The batcher moves requests from the heap to the batch.
LEMMA PopKeepsQInv == ASSUME QInv, PopBatch PROVE QInv'
<1> USE DEF QInv
<1>0. UNCHANGED <<stage, reply, created_at, clock, job, ahead>>
  BY DEF PopBatch
<1>1. Types'
  BY <1>0, PopTakes DEF Types
<1>2. EarlyInv' /\ ReplyInv'
  BY <1>0 DEF EarlyInv, ReplyInv
<1>3. ASSUME NEW r \in Requests
      PROVE  /\ (r \in heap \/ InBatch(r)) <=> (r \in heap \/ InBatch(r))'
             /\ (r \in heap => ~InBatch(r))'
  <2>1. ~InBatch(r)
    BY PopTakes DEF InBatch
  <2>2. InBatch(r)' => r \in heap
    BY PopTakes DEF InBatch
  <2> QED
    BY <2>1, <2>2, PopTakes DEF InBatch
<1>4. QueuedInv'
  BY <1>0, <1>3, PopTakes DEF QueuedInv
<1> QED
  BY <1>1, <1>2, <1>4

\* The batch loses its first request, which is in it once.
LEMMA BatchTail ==
  ASSUME Types, Dispatch
  PROVE  /\ batch[1] \in Requests /\ 1 \in DOMAIN batch
         /\ batch' \in Seq(Requests)
         /\ \A i \in DOMAIN batch' : i + 1 \in DOMAIN batch /\ batch'[i] = batch[i + 1]
         /\ \A i \in DOMAIN batch : i # 1 => i - 1 \in DOMAIN batch' /\ batch'[i - 1] = batch[i]
         /\ job' = [job EXCEPT ![batch[1]] = "running"]
         /\ UNCHANGED <<stage, reply, created_at, clock, heap, ahead>>
  BY DEF Types, Dispatch, queue

\* The first request of the batch is spawned.
LEMMA DispatchKeepsQInv == ASSUME QInv, Dispatch PROVE QInv'
<1> USE DEF QInv
<1>1. Types'
  BY BatchTail DEF Types, Jobs
<1>2. job[batch[1]] = "queued" /\ batch[1] \notin heap
  BY BatchTail DEF QueuedInv, InBatch
<1>3. EarlyInv' /\ ReplyInv'
  BY <1>2, BatchTail DEF Types, EarlyInv, ReplyInv
<1>4. \A i \in DOMAIN batch : i \in Nat
  BY DEF Types
<1>5. ASSUME NEW r \in Requests
      PROVE  InBatch(r)' <=> (InBatch(r) /\ r # batch[1])
  <2>1. ASSUME NEW i \in DOMAIN batch', batch'[i] = r
        PROVE  InBatch(r) /\ r # batch[1]
    <3>1. i \in Nat /\ i # 0 /\ i + 1 # 1
      BY BatchTail
    <3> QED
      BY <2>1, <3>1, BatchTail DEF QueuedInv, InBatch
  <2>2. ASSUME NEW i \in DOMAIN batch, batch[i] = r, r # batch[1]
        PROVE  InBatch(r)'
    <3>1. i # 1 /\ i - 1 \in DOMAIN batch' /\ batch'[i - 1] = r
      BY <2>2, BatchTail
    <3> QED
      BY <3>1 DEF InBatch
  <2> QED
    BY <2>1, <2>2 DEF InBatch
<1>6. ASSUME NEW i \in DOMAIN batch', NEW j \in DOMAIN batch', batch'[i] = batch'[j]
      PROVE  i = j
  <2>1. i \in Nat /\ j \in Nat
    BY BatchTail
  <2>2. i + 1 = j + 1
    BY <1>6, BatchTail DEF QueuedInv
  <2> QED
    BY <2>1, <2>2
<1>7. QueuedInv'
  BY <1>2, <1>5, <1>6, BatchTail DEF Types, QueuedInv
<1> QED
  BY <1>1, <1>3, <1>7

\* The end of a generation: job alone, from running.
LEMMA EndKeepsQInv ==
  ASSUME QInv, NEW r \in Requests, Generated(r) \/ GenerationFails(r)
  PROVE  QInv'
<1> USE DEF QInv
<1>1. PICK how \in {"done", "failed"} : EndGeneration(r, how)
  BY DEF Generated, GenerationFails
<1>2. /\ job[r] = "running" /\ job' = [job EXCEPT ![r] = how]
      /\ UNCHANGED <<stage, reply, created_at, clock, heap, batch, ahead>>
  BY <1>1 DEF EndGeneration, queue
<1>3. Types'
  BY <1>2 DEF Types, Jobs
<1>4. EarlyInv' /\ ReplyInv'
  BY <1>2 DEF Types, EarlyInv, ReplyInv
<1>5. QueuedInv'
  BY <1>2 DEF Types, QueuedInv, InBatch
<1> QED
  BY <1>3, <1>4, <1>5

\* One step of the server, whichever it is.
LEMMA StepKeepsQInv == QInv /\ [Next]_vars => QInv'
<1> SUFFICES ASSUME QInv, [Next]_vars PROVE QInv'
  OBVIOUS
<1>1. CASE UNCHANGED server
  BY <1>1 DEF QInv, Types, EarlyInv, QueuedInv, ReplyInv, InBatch, server, queue
<1> QED
  BY <1>1, StepKinds, HandlingKeepsQInv, PushKeepsQInv, PopKeepsQInv, DispatchKeepsQInv,
     EndKeepsQInv

\* Types, jobs, queue and replies agree in every reachable state.
THEOREM QueueInvariant == Spec => []QInv
  BY QInit, StepKeepsQInv, PTL DEF Spec

\* A request answered with an error status is never queued and never run.
THEOREM RefusedIsNeverRun == Spec => []RefusedNeverRuns
<1>1. QInv => RefusedNeverRuns
  BY DEF QInv, ReplyInv, Errors, RefusedNeverRuns
<1> QED
  BY <1>1, QueueInvariant, PTL

----------------------------------------------------------------------------
(* How far the queue outgrows its limit.                                   *)

\* The queue and the handlers on their way to it can be counted.
LEMMA QueueIsFinite ==
  ASSUME Types
  PROVE  /\ IsFiniteSet(heap) /\ Cardinality(heap) \in Nat
         /\ IsFiniteSet(Submitting) /\ Cardinality(Submitting) \in Nat
<1>1. IsFiniteSet(heap) /\ IsFiniteSet(Submitting)
  <2>1. heap \subseteq Requests /\ Submitting \subseteq Requests
    BY DEF Types, Submitting
  <2> QED
    BY <2>1, ServerAssumption, FS_Subset
<1> QED
  BY <1>1, FS_CardinalityType

\* A set that gains or loses one member at most, and a subset.
LEMMA Grows ==
  ASSUME NEW S, IsFiniteSet(S), NEW x, NEW T, T \subseteq S \cup {x}
  PROVE  Cardinality(T) \in Nat /\ Cardinality(T) <= Cardinality(S) + 1
<1>1. /\ IsFiniteSet(S \cup {x})
      /\ Cardinality(S \cup {x}) = IF x \in S THEN Cardinality(S) ELSE Cardinality(S) + 1
  BY FS_AddElement
<1>2. Cardinality(T) \in Nat /\ Cardinality(T) <= Cardinality(S \cup {x})
  BY <1>1, FS_Subset, FS_CardinalityType
<1>3. Cardinality(S) \in Nat
  BY FS_CardinalityType
<1> QED
  BY <1>1, <1>2, <1>3

\* A subset has no more members.
LEMMA Shrinks ==
  ASSUME NEW S, IsFiniteSet(S), NEW T, T \subseteq S
  PROVE  Cardinality(T) \in Nat /\ Cardinality(T) <= Cardinality(S)
  BY FS_Subset, FS_CardinalityType

\* A subset without a given member has one member less at least.
LEMMA ShrinksByOne ==
  ASSUME NEW S, IsFiniteSet(S), NEW x \in S, NEW T, T \subseteq S \ {x}
  PROVE  Cardinality(T) \in Nat /\ Cardinality(T) <= Cardinality(S) - 1
<1>1. IsFiniteSet(S \ {x}) /\ Cardinality(S \ {x}) = Cardinality(S) - 1
  BY FS_RemoveElement
<1> QED
  BY <1>1, Shrinks

\* However many handlers race between the length check and the push, the queue
\* outgrows its limit by no more than those the bound lets in between.
THEOREM OvershootBounded == Spec => []QueueOvershoot
<1>1. Init => QueueOvershoot
  <2> SUFFICES ASSUME Init PROVE QueueOvershoot
    OBVIOUS
  <2>1. heap = {} /\ Submitting = {}
    BY DEF Init, Submitting
  <2> QED
    BY <2>1, FS_EmptySet, ServerAssumption DEF QueueOvershoot
<1>2. QInv /\ QueueOvershoot /\ [Next]_vars => QueueOvershoot'
  <2> SUFFICES ASSUME Types, QueueOvershoot, [Next]_vars PROVE QueueOvershoot'
    BY DEF QInv
  <2> USE QueueIsFinite, ServerAssumption DEF QueueOvershoot
  <2>1. ASSUME heap' \subseteq heap, Submitting' \subseteq Submitting
        PROVE  QueueOvershoot'
    BY <2>1, Shrinks
  <2>2. ASSUME NEW r \in Requests, Handling(r) PROVE QueueOvershoot'
    <3>1. heap' = heap
      BY HandlerMoves, <2>2
    <3>2. CASE CheckLen(r)
      <4>1. CASE QueueFull
        <5>1. Submitting' \subseteq Submitting
          BY <3>2, <4>1 DEF CheckLen, Types, Submitting, Answer, Go
        <5> QED
          BY <2>1, <3>1, <5>1
      <4>2. CASE ~QueueFull
        <5>1. Submitting' \subseteq Submitting \cup {r}
          BY <3>2, <4>2 DEF CheckLen, Types, Submitting, Answer, Go
        <5>2. Cardinality(heap) <= QueueLimit /\ Cardinality(Submitting) < MaxInFlight
          BY <3>2, <4>2 DEF CheckLen, QueueFull
        <5>3. Cardinality(Submitting') \in Nat /\ Cardinality(Submitting') <= Cardinality(Submitting) + 1
          BY <5>1, Grows
        <5> QED
          BY <3>1, <5>2, <5>3
      <4> QED
        BY <4>1, <4>2
    <3>3. CASE ~CheckLen(r)
      <4>1. Submitting' \subseteq Submitting
        BY <2>2, <3>3 DEF Types, Submitting, Handling, CheckBreaker, EvaluatePriority, ScriptFails,
           RespondError, BeginStream, EndStream, Collect, Disconnect, Answer, Go
      <4> QED
        BY <2>1, <3>1, <4>1
    <3> QED
      BY <3>2, <3>3
  <2>3. ASSUME NEW r \in Requests, Push(r) PROVE QueueOvershoot'
    <3>1. r \in Submitting /\ Submitting' \subseteq Submitting \ {r} /\ heap' \subseteq heap \cup {r}
      BY <2>3 DEF Types, Push, Go, Submitting
    <3>2. Cardinality(heap') \in Nat /\ Cardinality(heap') <= Cardinality(heap) + 1
      BY <3>1, Grows
    <3>3. Cardinality(Submitting') \in Nat /\ Cardinality(Submitting') <= Cardinality(Submitting) - 1
      BY <3>1, ShrinksByOne
    <3> QED
      BY <3>2, <3>3
  <2>4. ASSUME NEW r \in Requests, Generated(r) \/ GenerationFails(r) PROVE QueueOvershoot'
    BY <2>4 DEF Generated, GenerationFails, EndGeneration, queue, Submitting
  <2>5. CASE PopBatch
    <3>1. heap' \subseteq heap /\ Submitting' = Submitting
      BY <2>5 DEF PopBatch, Submitting
    <3> QED
      BY <2>1, <3>1
  <2>6. CASE Dispatch
    BY <2>6 DEF Dispatch, queue, Submitting
  <2>7. CASE UNCHANGED server
    BY <2>7 DEF server, queue, Submitting
  <2> QED
    BY <2>2, <2>3, <2>4, <2>5, <2>6, <2>7, StepKinds
<1> QED
  BY <1>1, <1>2, QueueInvariant, PTL DEF Spec

----------------------------------------------------------------------------
(* No request overtakes one at least as urgent that was there before it.   *)

\* A request's time is in the past from its push on.
StampInv ==
  \A q \in Requests : (job[q] # "none" \/ stage[q] = "push") => created_at[q] < clock

\* Whatever was queued when a request arrived has a job, and an earlier time
\* than the request once it is about to be pushed.
AheadInv ==
  \A r \in Requests : \A q \in ahead[r] :
    /\ stage[r] # "new"
    /\ job[q] # "none"
    /\ (job[r] # "none" \/ stage[r] = "push") => created_at[q] < created_at[r]

\* Such a request, if at least as urgent, is ahead all the way: popped first,
\* and first in the batch.
OrderInv ==
  \A r \in Requests : \A q \in ahead[r] :
    assign_priority(q) <= assign_priority(r) =>
      /\ Dispatched(r) => Dispatched(q)
      /\ \A j \in DOMAIN batch : batch[j] = r =>
           q \notin heap /\ \A i \in DOMAIN batch : batch[i] = q => i < j

OInv == QInv /\ StampInv /\ AheadInv /\ OrderInv

\* assign_priority answers a number, whatever the tier and the workload.
LEMMA PriorityIsNat == \A r \in Requests : assign_priority(r) \in Nat
<1> TAKE r \in Requests
<1> DEFINE tier == CASE Tier[r] = "PREMIUM" -> 50 [] Tier[r] = "SYSTEM" -> 80 [] OTHER -> 0
           work == CASE Workload[r] = "CHAT" -> -10 [] Workload[r] = "RAG" -> 20 [] OTHER -> 0
<1>1. tier \in Int /\ work \in Int
  OBVIOUS
<1>2. \A n \in Int : Clamp(n) \in Nat
  BY DEF Clamp
<1>3. 100 - tier + work \in Int
  <2> HIDE DEF tier, work
  <2> QED
    BY <1>1
<1> QED
  BY <1>2, <1>3 DEF assign_priority

\* Nobody is ahead of anybody at first.
LEMMA OInit == Init => OInv
<1> SUFFICES ASSUME Init PROVE OInv
  OBVIOUS
<1> QED
  BY QInit DEF Init, OInv, StampInv, AheadInv, OrderInv

\* The steps that change neither heap, batch nor jobs.
LEMMA HandlingKeepsOrder ==
  ASSUME OInv, NEW h \in Requests, Handling(h)
  PROVE  StampInv' /\ AheadInv' /\ OrderInv'
<1> USE DEF OInv, QInv
<1>1. UNCHANGED <<heap, batch, job>>
  BY HandlerMoves
<1>2. PICK s \in Stages :
        /\ stage' = [stage EXCEPT ![h] = s]
        /\ s # "new"
        /\ s = "push" <=> EvaluatePriority(h)
  BY HandlerMoves
<1>3. CASE CheckBreaker(h)
  <2>1. /\ stage[h] = "new" /\ ~EvaluatePriority(h) /\ job[h] = "none"
        /\ ahead' = [ahead EXCEPT ![h] = heap]
        /\ UNCHANGED <<created_at, clock>>
    BY <1>3 DEF CheckBreaker, EvaluatePriority, EarlyInv, Early, queue
  <2>2. StampInv'
    BY <1>1, <1>2, <2>1 DEF Types, StampInv
  <2>3. ~InBatch(h) /\ ~Dispatched(h)
    BY <2>1 DEF QueuedInv, Dispatched
  <2>4. ASSUME NEW r \in Requests, NEW q \in ahead'[r]
        PROVE  /\ stage'[r] # "new" /\ job[q] # "none"
               /\ (job[r] # "none" \/ stage'[r] = "push") =>
                    r # h /\ q \in ahead[r] /\ created_at[q] < created_at[r]
    BY <1>2, <2>1, <2>4 DEF Types, AheadInv, QueuedInv
  <2>5. AheadInv'
    BY <1>1, <2>1, <2>4 DEF AheadInv
  <2>6. ASSUME NEW r \in Requests, r # h PROVE ahead'[r] = ahead[r]
    BY <2>1, <2>6 DEF Types
  <2>7. OrderInv'
    BY <1>1, <2>3, <2>6 DEF OrderInv, InBatch, Dispatched
  <2> QED
    BY <2>2, <2>5, <2>7
<1>4. CASE EvaluatePriority(h)
  <2>1. /\ stage[h] = "lua" /\ job[h] = "none"
        /\ created_at' = [created_at EXCEPT ![h] = clock]
        /\ clock' = clock + 1
        /\ ahead' = ahead
    BY <1>4 DEF EvaluatePriority, EarlyInv, Early
  <2>2. StampInv'
    BY <1>1, <1>2, <2>1 DEF Types, StampInv
  <2>3. ASSUME NEW r \in Requests, NEW q \in ahead[r]
        PROVE  /\ stage'[r] # "new" /\ job[q] # "none"
               /\ (job[r] # "none" \/ stage'[r] = "push") => created_at'[q] < created_at'[r]
    <3>1. q \in Requests /\ job[q] # "none" /\ q # h
      BY <2>1, <2>3 DEF Types, AheadInv
    <3>2. created_at'[q] = created_at[q] /\ created_at[q] < clock
      BY <2>1, <3>1 DEF Types, StampInv
    <3>3. CASE r = h
      BY <1>2, <2>1, <3>1, <3>2, <3>3 DEF Types
    <3>4. CASE r # h
      BY <1>2, <2>1, <2>3, <3>1, <3>2, <3>4 DEF Types, AheadInv
    <3> QED
      BY <3>3, <3>4
  <2>4. AheadInv'
    BY <1>1, <2>1, <2>3 DEF AheadInv
  <2>5. OrderInv'
    BY <1>1, <2>1 DEF OrderInv, Dispatched
  <2> QED
    BY <2>2, <2>4, <2>5
<1>5. CASE ~CheckBreaker(h) /\ ~EvaluatePriority(h)
  <2>1. UNCHANGED <<created_at, clock, ahead>>
    BY <1>5 DEF Handling, CheckLen, ScriptFails, RespondError, BeginStream, EndStream, Collect,
           Disconnect, queue
  <2>2. StampInv'
    BY <1>1, <1>2, <1>5, <2>1 DEF Types, StampInv
  <2>3. AheadInv'
    BY <1>1, <1>2, <1>5, <2>1 DEF Types, AheadInv
  <2>4. OrderInv'
    BY <1>1, <2>1 DEF OrderInv, Dispatched
  <2> QED
    BY <2>2, <2>3, <2>4
<1> QED
  BY <1>3, <1>4, <1>5

\* What is pushed is behind what was in the heap, and ahead of nobody yet.
LEMMA PushKeepsOrder ==
  ASSUME OInv, NEW h \in Requests, Push(h)
  PROVE  StampInv' /\ AheadInv' /\ OrderInv'
<1> USE DEF OInv, QInv
<1>1. /\ stage[h] = "push" /\ heap' = heap \cup {h}
      /\ job' = [job EXCEPT ![h] = "queued"]
      /\ \E s \in {"accepted", "collect"} : stage' = [stage EXCEPT ![h] = s]
      /\ UNCHANGED <<created_at, clock, batch, ahead>>
  BY DEF Push, Go
<1>2. job[h] = "none" /\ ~InBatch(h)
  BY <1>1 DEF EarlyInv, Early, QueuedInv
<1>3. StampInv'
  BY <1>1 DEF Types, StampInv
<1>4. AheadInv'
  BY <1>1, <1>2 DEF Types, AheadInv
<1>5. ASSUME NEW r \in Requests PROVE Dispatched(r)' <=> Dispatched(r)
  BY <1>1, <1>2 DEF Types, Dispatched
<1>6. ASSUME NEW r \in Requests, NEW q \in ahead[r] PROVE q \in Requests /\ q # h
  BY <1>2, <1>6 DEF Types, AheadInv
<1>7. OrderInv'
  BY <1>1, <1>5, <1>6 DEF OrderInv
<1> QED
  BY <1>3, <1>4, <1>7

\* The order in which the heap is popped: at equal urgency the earlier time.
LEMMA PopKeepsOrder ==
  ASSUME OInv, PopBatch
  PROVE  StampInv' /\ AheadInv' /\ OrderInv'
<1> USE DEF OInv, QInv
<1>1. UNCHANGED <<stage, created_at, clock, job, ahead>>
  BY DEF PopBatch
<1>2. StampInv' /\ AheadInv'
  BY <1>1 DEF StampInv, AheadInv
<1>3. ASSUME NEW r \in Requests, NEW q \in ahead[r], assign_priority(q) <= assign_priority(r),
             NEW j \in DOMAIN batch', batch'[j] = r
      PROVE  q \notin heap' /\ \A i \in DOMAIN batch' : batch'[i] = q => i < j
  <2>1. r \in heap /\ q \in Requests
    BY <1>3, PopTakes DEF Types
  <2>2. job[r] = "queued"
    BY <2>1 DEF QueuedInv
  <2>3. Before(q, r)
    <3>1. created_at[q] < created_at[r]
      BY <1>3, <2>2 DEF AheadInv
    <3>2. assign_priority(q) \in Nat /\ assign_priority(r) \in Nat
      BY <2>1, PriorityIsNat
    <3> QED
      BY <1>3, <3>1, <3>2 DEF Before
  <2>4. CASE q \in heap
    <3>1. PICK k \in DOMAIN batch' : k < j /\ batch'[k] = q
      BY <1>3, <2>3, <2>4, PopTakes
    <3> QED
      BY <3>1, PopTakes
  <2>5. CASE q \notin heap
    BY <2>5, PopTakes
  <2> QED
    BY <2>4, <2>5
<1>4. OrderInv'
  BY <1>1, <1>3 DEF OrderInv, Dispatched
<1> QED
  BY <1>2, <1>4

\* The batch is spawned from its front.
LEMMA DispatchKeepsOrder ==
  ASSUME OInv, Dispatch
  PROVE  StampInv' /\ AheadInv' /\ OrderInv'
<1> USE DEF OInv, QInv
<1>1. batch[1] \in Requests /\ job[batch[1]] = "queued"
  BY BatchTail DEF QueuedInv, InBatch
<1>2. StampInv'
  BY <1>1, BatchTail DEF Types, StampInv
<1>3. AheadInv'
  BY <1>1, BatchTail DEF Types, AheadInv
<1>4. ASSUME NEW r \in Requests
      PROVE  /\ Dispatched(r)' <=> Dispatched(r) \/ r = batch[1]
  BY <1>1, BatchTail DEF Types, Dispatched
<1>5. ASSUME NEW r \in Requests, NEW q \in ahead[r], assign_priority(q) <= assign_priority(r),
             Dispatched(r)'
      PROVE  Dispatched(q)'
  <2>1. q \in Requests
    BY <1>5 DEF Types
  <2>2. CASE Dispatched(r)
    BY <1>4, <1>5, <2>1, <2>2 DEF OrderInv
  <2>3. CASE r = batch[1]
    <3>1. q \notin heap /\ \A i \in DOMAIN batch : batch[i] = q => i < 1
      BY <1>5, <2>3, BatchTail DEF OrderInv
    <3>2. ~InBatch(q)
      BY <3>1 DEF Types, InBatch
    <3>3. job[q] # "queued" /\ job[q] # "none"
      BY <1>5, <2>1, <3>1, <3>2 DEF QueuedInv, AheadInv
    <3> QED
      BY <1>4, <2>1, <3>3 DEF Types, Jobs, Dispatched
  <2> QED
    BY <1>4, <1>5, <2>2, <2>3
<1>6. ASSUME NEW r \in Requests, NEW q \in ahead[r], assign_priority(q) <= assign_priority(r),
             NEW j \in DOMAIN batch', batch'[j] = r
      PROVE  q \notin heap' /\ \A i \in DOMAIN batch' : batch'[i] = q => i < j
  <2>1. j + 1 \in DOMAIN batch /\ batch[j + 1] = r /\ heap' = heap
    BY <1>6, BatchTail
  <2>2. q \notin heap /\ \A i \in DOMAIN batch : batch[i] = q => i < j + 1
    BY <1>6, <2>1 DEF OrderInv
  <2>3. ASSUME NEW i \in DOMAIN batch', batch'[i] = q PROVE i < j
    <3>1. i + 1 \in DOMAIN batch /\ batch[i + 1] = q
      BY <2>3, BatchTail
    <3>2. i + 1 < j + 1 /\ i \in Nat /\ j \in Nat
      BY <2>2, <3>1, BatchTail
    <3> QED
      BY <3>2
  <2> QED
    BY <2>1, <2>2, <2>3
<1>7. OrderInv'
  BY <1>5, <1>6, BatchTail DEF OrderInv
<1> QED
  BY <1>2, <1>3, <1>7

\* The end of a generation changes neither queue nor who has been dispatched.
LEMMA EndKeepsOrder ==
  ASSUME OInv, NEW h \in Requests, Generated(h) \/ GenerationFails(h)
  PROVE  StampInv' /\ AheadInv' /\ OrderInv'
<1> USE DEF OInv, QInv
<1>1. PICK how \in {"done", "failed"} : EndGeneration(h, how)
  BY DEF Generated, GenerationFails
<1>2. /\ job[h] = "running" /\ job' = [job EXCEPT ![h] = how]
      /\ UNCHANGED <<stage, created_at, clock, heap, batch, ahead>>
  BY <1>1 DEF EndGeneration, queue
<1>3. StampInv' /\ AheadInv'
  BY <1>2 DEF Types, StampInv, AheadInv
<1>4. ASSUME NEW r \in Requests PROVE Dispatched(r)' <=> Dispatched(r)
  BY <1>2 DEF Types, Dispatched
<1>5. ASSUME NEW r \in Requests, NEW q \in ahead[r] PROVE q \in Requests
  BY DEF Types
<1>6. OrderInv'
  BY <1>2, <1>4, <1>5 DEF OrderInv
<1> QED
  BY <1>3, <1>6

\* Stamps, history and queue order agree in every reachable state.
THEOREM OrderInvariant == Spec => []OInv
<1>1. OInv /\ [Next]_vars => OInv'
  <2> SUFFICES ASSUME OInv, [Next]_vars PROVE OInv'
    OBVIOUS
  <2>1. QInv'
    BY StepKeepsQInv DEF OInv
  <2>2. ASSUME UNCHANGED server PROVE StampInv' /\ AheadInv' /\ OrderInv'
    BY <2>2 DEF OInv, StampInv, AheadInv, OrderInv, Dispatched, server, queue
  <2>3. StampInv' /\ AheadInv' /\ OrderInv'
    BY <2>2, StepKinds, HandlingKeepsOrder, PushKeepsOrder, PopKeepsOrder, DispatchKeepsOrder,
       EndKeepsOrder
  <2> QED
    BY <2>1, <2>3 DEF OInv
<1> QED
  BY <1>1, OInit, PTL DEF Spec

\* A request that was in the queue when another arrived, and is no less urgent,
\* starts no later than it.
THEOREM NothingOvertakes == Spec => []NoOvertaking
<1>1. OInv => NoOvertaking
  BY DEF OInv, OrderInv, NoOvertaking
<1> QED
  BY <1>1, OrderInvariant, PTL

----------------------------------------------------------------------------
(* Nobody waits for a sender that is lost, and requests come to an end.    *)

Waiting == {"accepted", "collect", "stream"}

\* A handler that waits has had its request queued.
WaitInv == \A r \in Requests : stage[r] \in Waiting => job[r] # "none"

\* Only the push takes a handler to where it waits, and only the push takes a
\* request from having no job.
LEMMA WaitInvKept == QInv /\ WaitInv /\ [Next]_vars => WaitInv'
<1> SUFFICES ASSUME QInv, WaitInv, [Next]_vars PROVE WaitInv'
  OBVIOUS
<1> USE DEF QInv
<1>1. CASE UNCHANGED server
  BY <1>1 DEF WaitInv, server
<1>2. ASSUME NEW r \in Requests, Handling(r) PROVE WaitInv'
  <2>1. UNCHANGED job
    BY <1>2, HandlerMoves
  <2>2. stage'[r] \in Waiting => stage[r] \in Waiting
    BY <1>2 DEF Types, Waiting, Handling, CheckBreaker, CheckLen, EvaluatePriority, ScriptFails,
       RespondError, BeginStream, EndStream, Collect, Disconnect, Answer, Go
  <2>3. \A q \in Requests \ {r} : stage'[q] = stage[q]
    BY <1>2, HandlerMoves DEF Types
  <2> QED
    BY <2>1, <2>2, <2>3 DEF WaitInv
<1>3. ASSUME NEW r \in Requests, Push(r) PROVE WaitInv'
  BY <1>3 DEF Types, WaitInv, Push, Go
<1>4. ASSUME NEW r \in Requests, Generated(r) \/ GenerationFails(r) PROVE WaitInv'
  BY <1>4 DEF Types, WaitInv, Generated, GenerationFails, EndGeneration
<1>5. CASE PopBatch
  BY <1>5 DEF WaitInv, PopBatch
<1>6. CASE Dispatch
  BY <1>6, BatchTail DEF Types, WaitInv
<1> QED
  BY <1>1, <1>2, <1>3, <1>4, <1>5, <1>6, StepKinds

\* Whoever waits for tokens has a sender in the queue, in the batch or with a
\* task, or its generation is over: from the push to the end of the generation a
\* request is always in one place.
THEOREM NoSenderIsLost == Spec => []WaitersHaveSenders
<1>1. Init => WaitInv
  BY DEF Init, WaitInv, Waiting
<1>2. Spec => []WaitInv
  BY <1>1, WaitInvKept, QueueInvariant, PTL DEF Spec
<1>3. QInv /\ WaitInv => WaitersHaveSenders
  <2> SUFFICES ASSUME QInv, WaitInv, NEW r \in Requests, stage[r] \in Waiting
               PROVE  r \in heap \/ InBatch(r) \/ Dispatched(r)
    BY DEF WaitersHaveSenders, Waiting
  <2>1. job[r] \in Jobs /\ job[r] # "none"
    BY DEF QInv, Types, WaitInv
  <2>2. job[r] = "queued" => r \in heap \/ InBatch(r)
    BY DEF QInv, QueuedInv
  <2> QED
    BY <2>1, <2>2 DEF Jobs, Dispatched
<1> QED
  BY <1>2, <1>3, QueueInvariant, PTL

\* Both distances are natural numbers.
LEMMA StepsAreNatural ==
  \A r \in Requests : HandlerSteps(r) \in 0 .. 6 /\ JobSteps(r) \in 0 .. 4
  BY DEF HandlerSteps, JobSteps

\* A step that takes one request nearer and leaves the others where they are.
LEMMA OneAdvances ==
  ASSUME NEW r \in Requests,
         \/ HandlerSteps(r)' < HandlerSteps(r) /\ JobSteps(r)' <= JobSteps(r)
         \/ HandlerSteps(r)' <= HandlerSteps(r) /\ JobSteps(r)' < JobSteps(r),
         \A q \in Requests \ {r} :
           HandlerSteps(q)' = HandlerSteps(q) /\ JobSteps(q)' = JobSteps(q)
  PROVE  /\ \A q \in Requests : StepsLeft(q)' <= StepsLeft(q)
         /\ \E q \in Requests : StepsLeft(q)' < StepsLeft(q)
<1>1. \A q \in Requests : /\ HandlerSteps(q) \in Nat /\ JobSteps(q) \in Nat
                          /\ HandlerSteps(q)' \in Nat /\ JobSteps(q)' \in Nat
  <2>1. \A q \in Requests : HandlerSteps(q) \in Nat /\ JobSteps(q) \in Nat
    BY StepsAreNatural
  <2>2. \A q \in Requests : HandlerSteps(q)' \in Nat /\ JobSteps(q)' \in Nat
    BY DEF HandlerSteps, JobSteps
  <2> QED
    BY <2>1, <2>2
<1>2. StepsLeft(r)' < StepsLeft(r)
  BY <1>1 DEF StepsLeft
<1>3. \A q \in Requests \ {r} : StepsLeft(q)' <= StepsLeft(q)
  BY <1>1 DEF StepsLeft
<1> QED
  BY <1>1, <1>2, <1>3 DEF StepsLeft

\* Each step of a handler but the push takes the handler nearer to its end.
LEMMA HandlingNears ==
  ASSUME Types, NEW r \in Requests, Handling(r)
  PROVE  HandlerSteps(r)' < HandlerSteps(r)
<1> USE DEF Types, HandlerSteps, Answer, Go
<1>1. CASE CheckBreaker(r)
  BY <1>1 DEF CheckBreaker
<1>2. CASE CheckLen(r)
  BY <1>2 DEF CheckLen
<1>3. CASE EvaluatePriority(r) \/ ScriptFails(r) \/ RespondError(r)
  BY <1>3 DEF EvaluatePriority, ScriptFails, RespondError
<1>4. CASE BeginStream(r) \/ EndStream(r) \/ Collect(r)
  BY <1>4 DEF BeginStream, EndStream, Collect
<1>5. CASE Disconnect(r)
  BY <1>5 DEF Disconnect
<1> QED
  BY <1>1, <1>2, <1>3, <1>4, <1>5 DEF Handling

\* What the batcher pops is nearer to its start, and it pops something.
LEMMA PoppedAdvance ==
  ASSUME QInv, PopBatch
  PROVE  /\ \A q \in Requests : StepsLeft(q)' <= StepsLeft(q)
         /\ \E q \in Requests : StepsLeft(q)' < StepsLeft(q)
<1>1. UNCHANGED <<stage, job>> /\ heap' \subseteq heap
  BY PopTakes DEF QInv, PopBatch
<1>2. \A q \in Requests : HandlerSteps(q)' = HandlerSteps(q) /\ HandlerSteps(q) \in Nat
  BY <1>1, StepsAreNatural DEF HandlerSteps
<1>3. \A q \in Requests : /\ JobSteps(q)' \in Nat /\ JobSteps(q) \in Nat
                          /\ JobSteps(q)' <= JobSteps(q)
  BY <1>1 DEF JobSteps
<1>4. PICK q \in Requests : q \in heap /\ q \notin heap'
  <2>1. PICK taken \in [1 .. Least(MaxBatchSize, Cardinality(heap)) -> heap] :
          heap' = heap \ {taken[i] : i \in DOMAIN taken}
    BY DEF PopBatch
  <2>2. IsFiniteSet(heap) /\ heap # {} /\ heap \subseteq Requests
    BY ServerAssumption, FS_Subset DEF QInv, Types, PopBatch
  <2>3. Cardinality(heap) \in Nat /\ Cardinality(heap) # 0
    BY <2>2, FS_CardinalityType, FS_EmptySet
  <2>4. 1 \in 1 .. Least(MaxBatchSize, Cardinality(heap))
    BY <2>3, ServerAssumption DEF Least
  <2>5. taken[1] \in heap /\ taken[1] \notin heap'
    BY <2>1, <2>4
  <2> QED
    BY <2>2, <2>5
<1>5. JobSteps(q)' < JobSteps(q)
  <2>1. job[q] = "queued"
    BY <1>4 DEF QInv, QueuedInv
  <2> QED
    BY <1>1, <1>4, <2>1 DEF JobSteps
<1> QED
  BY <1>2, <1>3, <1>4, <1>5 DEF StepsLeft

\* Whatever moves in the server brings some request nearer to its end and takes
\* none back, so that finitely many requests take finitely many steps: what is
\* left of Answered is that no step that can be taken is put off for ever.
THEOREM EveryStepAdvances == Spec => RequestsAdvance
<1> DEFINE Advance == /\ \A r \in Requests : StepsLeft(r)' <= StepsLeft(r)
                      /\ \E r \in Requests : StepsLeft(r)' < StepsLeft(r)
<1>1. QInv /\ [Next]_vars => [UNCHANGED server \/ Advance]_vars
  <2> SUFFICES ASSUME QInv, [Next]_vars PROVE UNCHANGED server \/ Advance
    OBVIOUS
  <2>1. ASSUME NEW r \in Requests, Handling(r) PROVE Advance
    <3>1. UNCHANGED <<heap, job>> /\ \A q \in Requests \ {r} : stage'[q] = stage[q]
      BY <2>1, HandlerMoves DEF QInv, Types
    <3>2. \A q \in Requests : JobSteps(q)' = JobSteps(q) /\ JobSteps(q) \in Nat
      BY <3>1, StepsAreNatural DEF JobSteps
    <3>3. \A q \in Requests \ {r} : HandlerSteps(q)' = HandlerSteps(q)
      BY <3>1 DEF HandlerSteps
    <3>4. HandlerSteps(r)' < HandlerSteps(r)
      BY <2>1, HandlingNears DEF QInv
    <3> QED
      BY <3>2, <3>3, <3>4, OneAdvances
  <2>2. ASSUME NEW r \in Requests, Push(r) PROVE Advance
    <3>1. job[r] = "none" /\ stage[r] = "push"
      BY <2>2 DEF QInv, EarlyInv, Early, Push
    <3>2. JobSteps(r)' < JobSteps(r) /\ HandlerSteps(r)' < HandlerSteps(r)
      BY <2>2, <3>1 DEF QInv, Types, Push, Go, JobSteps, HandlerSteps
    <3>3. \A q \in Requests \ {r} :
            HandlerSteps(q)' = HandlerSteps(q) /\ JobSteps(q)' = JobSteps(q)
      BY <2>2 DEF QInv, Types, Push, Go, JobSteps, HandlerSteps
    <3>4. JobSteps(r)' <= JobSteps(r)
      BY <3>1, <2>2 DEF QInv, Types, Push, JobSteps
    <3> QED
      BY <3>2, <3>3, <3>4, OneAdvances
  <2>3. ASSUME NEW r \in Requests, Generated(r) \/ GenerationFails(r) PROVE Advance
    <3>1. PICK how \in {"done", "failed"} : EndGeneration(r, how)
      BY <2>3 DEF Generated, GenerationFails
    <3>2. /\ job[r] = "running" /\ job' = [job EXCEPT ![r] = how]
          /\ UNCHANGED <<stage, heap>>
      BY <3>1 DEF EndGeneration, queue
    <3>3. JobSteps(r)' < JobSteps(r)
      BY <3>2 DEF QInv, Types, JobSteps
    <3>4. \A q \in Requests : HandlerSteps(q)' = HandlerSteps(q) /\ HandlerSteps(q) \in Nat
      BY <3>2, StepsAreNatural DEF HandlerSteps
    <3>5. \A q \in Requests \ {r} : JobSteps(q)' = JobSteps(q)
      BY <3>2 DEF QInv, Types, JobSteps
    <3> QED
      BY <3>3, <3>4, <3>5, OneAdvances
  <2>4. CASE PopBatch
    BY <2>4, PoppedAdvance
  <2>5. CASE Dispatch
    <3>1. PICK r \in Requests :
            /\ job[r] = "queued" /\ job' = [job EXCEPT ![r] = "running"]
            /\ UNCHANGED <<stage, heap>>
      BY <2>5, BatchTail DEF QInv, QueuedInv, InBatch
    <3>2. JobSteps(r)' < JobSteps(r)
      BY <3>1 DEF QInv, Types, JobSteps
    <3>3. \A q \in Requests : HandlerSteps(q)' = HandlerSteps(q) /\ HandlerSteps(q) \in Nat
      BY <3>1, StepsAreNatural DEF HandlerSteps
    <3>4. \A q \in Requests \ {r} : JobSteps(q)' = JobSteps(q)
      BY <3>1 DEF QInv, Types, JobSteps
    <3> QED
      BY <3>2, <3>3, <3>4, OneAdvances
  <2> QED
    BY <2>1, <2>2, <2>3, <2>4, <2>5, StepKinds
<1> QED
  BY <1>1, QueueInvariant, PTL DEF Spec, RequestsAdvance, Advance

----------------------------------------------------------------------------
(* The breaker, with the server's handlers.                                *)

CBP == INSTANCE CircuitBreaker_proofs WITH Handlers <- Requests

\* The server's steps are the breaker's, or leave it alone.
LEMMA BreakerSteps == [Next]_vars => [CB!Next]_breaker
<1> SUFFICES ASSUME [Next]_vars PROVE [CB!Next]_breaker
  OBVIOUS
<1>1. ASSUME NEW r \in Requests,
             CheckBreaker(r) \/ HandlerStep(r) \/ Disconnect(r) \/ GenerationEnds(r)
      PROVE  \/ CB!Admit(r) \/ CB!Leave(r) \/ CB!RecordFailure(r) \/ CB!RecordSuccess(r)
             \/ UNCHANGED breaker
  BY <1>1, Zenon DEF CheckBreaker, HandlerStep, CheckLen, EvaluatePriority, ScriptFails, RespondError,
       Push, BeginStream, EndStream, Collect, Disconnect, GenerationEnds, Generated,
       GenerationFails, EndGeneration
<1>2. CASE PopBatch \/ Dispatch \/ AllAnswered \/ UNCHANGED vars
  BY <1>2 DEF PopBatch, Dispatch, AllAnswered, vars, breaker
<1>3. CASE BreakerStep
  BY <1>3 DEF BreakerStep, CB!Next, CB!HandlerStep
<1> QED
  BY <1>1, <1>2, <1>3 DEF Next, CB!Next, CB!HandlerStep

\* Every behaviour of the server is one of the breaker it shares.
LEMMA BreakerSpec == Spec => CBP!Spec
<1>1. Init => CBP!Init
  BY DEF Init, CB!Init, CBP!Init
<1>2. ASSUME NEW r \in Requests
      PROVE  /\ CB!Admit(r) => CBP!Admit(r)
             /\ CB!Leave(r) => CBP!Leave(r)
             /\ CB!RecordSuccess(r) => CBP!RecordSuccess(r)
             /\ CB!RecordFailure(r) => CBP!RecordFailure(r)
             /\ CB!StoreOpen(r) => CBP!StoreOpen(r)
             /\ CB!SpawnTimer(r) => CBP!SpawnTimer(r)
  <2>1. CB!Admit(r) => CBP!Admit(r)
    BY Zenon DEF CB!Admit, CBP!Admit, CB!TimerRoom, CBP!TimerRoom,
      CB!Cardinality, CBP!Cardinality, CB!IsFiniteSet, CBP!IsFiniteSet
  <2>2. CB!Leave(r) => CBP!Leave(r)
    BY DEF CB!Leave, CBP!Leave
  <2>3. CB!RecordSuccess(r) => CBP!RecordSuccess(r)
    BY DEF CB!RecordSuccess, CBP!RecordSuccess
  <2>4. CB!RecordFailure(r) => CBP!RecordFailure(r)
    BY DEF CB!RecordFailure, CBP!RecordFailure
  <2>5. CB!StoreOpen(r) => CBP!StoreOpen(r)
    BY DEF CB!StoreOpen, CBP!StoreOpen
  <2>6. CB!SpawnTimer(r) => CBP!SpawnTimer(r)
    BY DEF CB!SpawnTimer, CBP!SpawnTimer
  <2> QED
    BY <2>1, <2>2, <2>3, <2>4, <2>5, <2>6
<1>3. ASSUME NEW i \in TimerIds
      PROVE  /\ CB!Wake(i) => CBP!Wake(i)
             /\ CB!ClearFailures(i) => CBP!ClearFailures(i)
  BY DEF CB!Wake, CBP!Wake, CB!ClearFailures, CBP!ClearFailures
<1>4. CB!Tick => CBP!Tick
  BY DEF CB!Tick, CBP!Tick
<1>5. breaker = CBP!breaker
  BY DEF breaker, CBP!breaker
<1>6. CB!Next => CBP!Next
  BY <1>2, <1>3, <1>4, Zenon DEF CB!Next, CBP!Next, CB!HandlerStep, CBP!HandlerStep,
    CB!Recording, CBP!Recording, CB!TimerStep, CBP!TimerStep
<1>7. [CB!Next]_breaker => [CBP!Next]_(CBP!breaker)
  BY <1>6 DEF breaker, CBP!breaker
<1> QED
  BY <1>1, <1>7, BreakerSteps, PTL DEF Spec, CBP!Spec

\* Whatever the handlers of main.rs do, and whichever client leaves when, a
\* breaker that is open has a timer asleep or a handler about to spawn one.
THEOREM OpenAlwaysHasTimer == Spec => []OpenHasTimer
<1>1. CBP!BreakerAssumption
  BY ServerAssumption DEF ServerAssumption, CB!BreakerAssumption, CBP!BreakerAssumption
<1>2. CBP!Spec => []CBP!OpenHasTimer
  BY <1>1, CBP!OpenAlwaysHasTimer
<1>3. CBP!OpenHasTimer => OpenHasTimer
  BY DEF CBP!OpenHasTimer, OpenHasTimer, CB!OpenHasTimer
<1> QED
  BY BreakerSpec, <1>2, <1>3, PTL

\* Handlers, queue, batch, jobs and breaker are well typed in every reachable
\* state.
THEOREM TypeCorrect == Spec => []TypeOK
<1>1. CBP!BreakerAssumption
  BY ServerAssumption DEF ServerAssumption, CB!BreakerAssumption, CBP!BreakerAssumption
<1>2. CBP!Spec => []CBP!TypeOK
  BY <1>1, CBP!TypeCorrect
<1>3. CBP!TypeOK /\ QInv => TypeOK
  BY DEF CBP!TypeOK, CB!TypeOK, TypeOK, QInv, Types
<1> QED
  BY BreakerSpec, QueueInvariant, <1>2, <1>3, PTL
====
