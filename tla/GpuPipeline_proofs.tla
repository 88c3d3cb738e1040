------------------------ MODULE GpuPipeline_proofs ------------------------
(***************************************************************************)
(* Proofs about GpuPipeline: what of the device is held at each place of   *)
(* the generation, which operation is queued how far from the end of the   *)
(* compute stream, and which rows the copies queued will have brought.     *)
(***************************************************************************)
EXTENDS GpuPipeline, SequenceTheorems, TLAPS

----------------------------------------------------------------------------
(* The copies in a stream.                                                 *)

CopyOp    == [op : {"k", "v"}, row : Row]
ComputeOp == [op : {"q", "attend", "out"}, row : Row]

\* A cell holds x once the copies of its kind in stream s are done.
Will(s, op, cell, u, x) ==
  \/ \E n \in DOMAIN s :
       /\ s[n].op = op /\ s[n].row = x /\ x.pos = u
       /\ \A m \in DOMAIN s : m > n /\ s[m].op = op => s[m].row.pos # u
  \/ /\ cell = x
     /\ \A m \in DOMAIN s : s[m].op = op => s[m].row.pos # u

\* With nothing queued it holds it already.
LEMMA WillEmpty ==
  ASSUME NEW op, NEW cell, NEW u, NEW x, Will(<<>>, op, cell, u, x)
  PROVE  cell = x
  BY DEF Will

\* A copy queued last has the last word on its cell.
LEMMA WillOwn ==
  ASSUME NEW s \in Seq(CopyOp), NEW e \in CopyOp, NEW cell
  PROVE  Will(Append(s, e), e.op, cell, e.row.pos, e.row)
<1>1. /\ DOMAIN Append(s, e) = 1..(Len(s) + 1) /\ Append(s, e)[Len(s) + 1] = e
      /\ Len(s) \in Nat
  BY AppendProperties, LenProperties
<1> QED
  BY <1>1 DEF Will

\* And none on another.
LEMMA WillOther ==
  ASSUME NEW s \in Seq(CopyOp), NEW e \in CopyOp, NEW op, NEW cell, NEW u, NEW x,
         Will(s, op, cell, u, x), e.op # op \/ e.row.pos # u
  PROVE  Will(Append(s, e), op, cell, u, x)
<1>1. /\ DOMAIN Append(s, e) = 1..(Len(s) + 1) /\ Append(s, e)[Len(s) + 1] = e
      /\ \A i \in 1..Len(s) : Append(s, e)[i] = s[i]
      /\ Len(s) \in Nat /\ DOMAIN s = 1..Len(s)
  BY AppendProperties, LenProperties
<1>2. CASE \E n \in DOMAIN s :
             /\ s[n].op = op /\ s[n].row = x /\ x.pos = u
             /\ \A m \in DOMAIN s : m > n /\ s[m].op = op => s[m].row.pos # u
  BY <1>1, <1>2 DEF Will
<1>3. CASE cell = x /\ \A m \in DOMAIN s : s[m].op = op => s[m].row.pos # u
  BY <1>1, <1>3 DEF Will
<1> QED
  BY <1>2, <1>3 DEF Will

\* The device does the first of the copies.
LEMMA WillTail ==
  ASSUME NEW s \in Seq(CopyOp), s # <<>>, NEW op, NEW cell, NEW u, NEW x,
         Will(s, op, cell, u, x)
  PROVE  Will(Tail(s), op, IF s[1].op = op /\ s[1].row.pos = u THEN s[1].row ELSE cell, u, x)
<1> DEFINE r == Tail(s)
           new == IF s[1].op = op /\ s[1].row.pos = u THEN s[1].row ELSE cell
<1>1. /\ Len(s) \in Nat \ {0} /\ DOMAIN s = 1..Len(s)
      /\ r \in Seq(CopyOp) /\ Len(r) = Len(s) - 1 /\ DOMAIN r = 1..Len(r)
      /\ \A i \in 1..Len(r) : r[i] = s[i + 1]
  BY HeadTailProperties, LenProperties, EmptySeq
<1> HIDE DEF r, new
<1>2. ASSUME NEW n \in DOMAIN s, s[n].op = op, s[n].row = x, x.pos = u,
             \A m \in DOMAIN s : m > n /\ s[m].op = op => s[m].row.pos # u
      PROVE  Will(r, op, new, u, x)
  <2>1. CASE n = 1
    <3>1. new = x
      BY <1>2, <2>1 DEF new
    <3>2. \A m \in DOMAIN r : m + 1 \in DOMAIN s /\ m + 1 > n /\ r[m] = s[m + 1]
      BY <1>1, <2>1
    <3> QED
      BY <1>2, <3>1, <3>2 DEF Will
  <2>2. CASE n # 1
    <3>1. n - 1 \in DOMAIN r /\ r[n - 1] = s[n]
      BY <1>1, <2>2
    <3>2. \A m \in DOMAIN r : m > n - 1 => m + 1 \in DOMAIN s /\ m + 1 > n /\ r[m] = s[m + 1]
      BY <1>1
    <3> QED
      BY <1>2, <3>1, <3>2 DEF Will
  <2> QED
    BY <2>1, <2>2
<1>3. ASSUME cell = x, \A m \in DOMAIN s : s[m].op = op => s[m].row.pos # u
      PROVE  Will(r, op, new, u, x)
  <2>1. new = x
    BY <1>1, <1>3 DEF new
  <2>2. \A m \in DOMAIN r : m + 1 \in DOMAIN s /\ r[m] = s[m + 1]
    BY <1>1
  <2> QED
    BY <1>3, <2>1, <2>2 DEF Will
<1> QED
  BY <1>2, <1>3 DEF Will, r, new

----------------------------------------------------------------------------
(* The host.                                                               *)

SetUp     == {"stream_new", "gpu_init", "alloc_k", "alloc_v"}
Attending == {"copy_k", "copy_v", "copy_q", "scores", "graph", "replay", "launch", "copy_out",
              "sync", "sync_anyway", "synced", "gave_up"}
Running   == Attending \cup {"begin", "drop"}
Places    == SetUp \cup Running \cup {"drop_manager", "over", "over_undrained"}

HostInv ==
  /\ prompt \in 1..MaxPrompt /\ at \in Places
  /\ layer \in 0..(NumLayers - 1) /\ pos \in 0..LastPos
  /\ last_row \in [0..(MaxPos - 1) -> Rows]
  /\ at \in Attending => pos < LastPos
  /\ graph_cache \subseteq 1..MaxPos
  /\ held \subseteq Objects
  /\ failures \in 0..MaxFailures

\* Prefill leaves the rows of a layer from below, and in the end the last layer's.
LoopInv ==
  /\ Prefilling => \A u \in 0..(pos - 1) : last_row[u] = [layer |-> layer, pos |-> u]
  /\ ~Prefilling /\ prompt > 1 =>
       \A u \in 0..(prompt - 1) : last_row[u] = [layer |-> NumLayers - 1, pos |-> u]
  /\ at \in Attending => last_row[pos] = Now

DeviceInv ==
  /\ copy_stream \in Seq(CopyOp) /\ compute_stream \in Seq(ComputeOp)
  /\ d_k_buf \in [0..(MaxPos - 1) -> Rows]
  /\ d_v_buf \in [0..(MaxPos - 1) -> Rows]
  /\ d_q \in Rows
  /\ IsOutput(d_out) /\ IsOutput(attn_out)

\* The sizes of a pipeline.
LEMMA Sizes ==
  ASSUME HostInv
  PROVE  /\ prompt \in Nat \ {0} /\ NumLayers \in Nat \ {0} /\ layer \in Nat /\ pos \in Nat
         /\ LastPos \in Nat /\ MaxPos \in Nat /\ LastPos <= MaxPos
         /\ prompt > 1 => prompt <= LastPos
         /\ failures \in Nat /\ MaxFailures \in Nat
  BY PipelineAssumption DEF HostInv, LastPos, MaxPos

\* An attention still to run is one of a layer and a position there are.
LEMMA Current ==
  ASSUME HostInv, pos < LastPos
  PROVE  /\ Now \in Row /\ Now.pos = pos /\ Now.layer = layer
         /\ pos \in 0..(MaxPos - 1) /\ seq_len \in 1..MaxPos
  BY Sizes DEF HostInv, Now, Row, seq_len

\* The counters stay in their ranges.
LEMMA Advances ==
  ASSUME HostInv, pos < LastPos, Advance, prompt' = prompt
  PROVE  layer' \in 0..(NumLayers - 1) /\ pos' \in 0..LastPos'
<1>1. LastPos' = LastPos
  BY DEF LastPos
<1>2. CASE ~Prefilling
  BY <1>1, <1>2, Sizes DEF Advance, DecodeOrder, HostInv
<1>3. CASE Prefilling
  <2>1. prompt <= LastPos /\ pos < prompt
    BY <1>3, Sizes DEF Prefilling
  <2> QED
    BY <1>1, <1>3, <2>1, Sizes DEF Advance, HostInv
<1> QED
  BY <1>2, <1>3

\* A step of the host fails at most once, and only within the bound.
LEMMA FailuresCount ==
  ASSUME Host
  PROVE  failures' \in {failures, failures + 1} /\ (failures' # failures => failures < MaxFailures)
  BY DEF Host, StreamNew, GpuInit, AllocK, AllocV, Alloc, Begin, SkipLayer, Leave, CopyK, CopyV,
     CopyQ, EnsureScores, GetOrCreateGraph, ReplayGraph, LaunchAttention, CopyOutput, Issue, Sync,
     AfterAttention, DropState, DropManager, Fails, Works

\* What the host keeps of its own.
LEMMA HostKept == HostInv /\ [Next]_vars => HostInv'
<1> SUFFICES ASSUME HostInv, [Next]_vars PROVE HostInv'
  OBVIOUS
<1>1. CASE UNCHANGED <<prompt, at, loops, graph_cache, held, failures>>
  BY <1>1 DEF HostInv, loops, LastPos
<1>2. CASE Host
  <2>0. failures' \in 0..MaxFailures
    BY <1>2, FailuresCount, Sizes DEF HostInv
  <2>1. CASE AfterAttention \/ SkipLayer
    <3>1. /\ at' = "begin" /\ UNCHANGED <<prompt, graph_cache, held, last_row>>
          /\ Advance /\ pos < LastPos
      BY <2>1 DEF AfterAttention, SkipLayer, HostInv, Attending
    <3>2. layer' \in 0..(NumLayers - 1) /\ pos' \in 0..LastPos'
      BY <3>1, Advances
    <3> QED
      BY <2>0, <3>1, <3>2 DEF HostInv, Places, Running, Attending
  <2>2. CASE Begin
    <3>1. /\ at' = "copy_k" /\ UNCHANGED <<prompt, layer, pos, graph_cache, held>>
          /\ last_row' = [last_row EXCEPT ![pos] = Now] /\ pos < LastPos
      BY <2>2 DEF Begin
    <3>2. last_row' \in [0..(MaxPos - 1) -> Rows]
      BY <3>1, Current DEF HostInv, Rows
    <3>3. LastPos' = LastPos
      BY <3>1 DEF LastPos
    <3> QED
      BY <2>0, <3>1, <3>2, <3>3 DEF HostInv, Places, Running, Attending
  <2>3. CASE GetOrCreateGraph
    <3>1. /\ UNCHANGED <<prompt, loops, held>> /\ graph_cache' \subseteq graph_cache \cup {seq_len}
          /\ at' \in {"replay", "launch"} /\ at = "graph"
      BY <2>3 DEF GetOrCreateGraph
    <3>2. pos < LastPos /\ seq_len \in 1..MaxPos
      BY <3>1, Current DEF HostInv, Attending
    <3>3. LastPos' = LastPos
      BY <3>1 DEF LastPos
    <3> QED
      BY <2>0, <3>1, <3>2, <3>3 DEF HostInv, Places, Running, Attending, loops
  <2>4. ASSUME UNCHANGED <<prompt, loops>>, graph_cache' \subseteq graph_cache, held' \subseteq Objects,
               at' \in Places, at' \in Attending => at \in Attending
        PROVE  HostInv'
    <3>1. LastPos' = LastPos
      BY <2>4 DEF LastPos
    <3> QED
      BY <2>0, <2>4, <3>1 DEF HostInv, loops
  <2>5. CASE StreamNew
    <3>1. UNCHANGED <<prompt, loops, graph_cache>> /\ at' \in {"gpu_init", "over"}
      BY <2>5 DEF StreamNew
    <3>2. held' \subseteq Objects
      BY <2>5 DEF StreamNew, StreamManagerNeeds, Objects, ManagerOwns
    <3> QED
      BY <2>4, <3>1, <3>2 DEF Places, SetUp, Attending
  <2>6. CASE GpuInit \/ AllocK \/ AllocV
    <3>1. /\ UNCHANGED <<prompt, loops, graph_cache>>
          /\ at' \in {"alloc_k", "alloc_v", "begin", "drop_manager"}
      BY <2>6 DEF GpuInit, AllocK, AllocV, Alloc
    <3>2. held' \subseteq Objects
      BY <2>6 DEF GpuInit, AllocK, AllocV, Alloc, HostInv, Objects, ManagerOwns
    <3> QED
      BY <2>4, <3>1, <3>2 DEF Places, SetUp, Running, Attending
  <2>7. CASE Leave \/ CopyK \/ CopyV \/ CopyQ \/ EnsureScores \/ ReplayGraph \/ LaunchAttention
             \/ CopyOutput \/ Sync
    <3>1. /\ UNCHANGED <<prompt, loops, graph_cache>> /\ at' \in Running
          /\ at' \in Attending => at \in Attending
      BY <2>7 DEF Leave, CopyK, CopyV, CopyQ, EnsureScores, ReplayGraph, LaunchAttention,
         CopyOutput,
           Issue, Sync, GivenUp, Running, Attending
    <3>2. held' \subseteq Objects
      BY <2>7 DEF Leave, CopyK, CopyV, CopyQ, EnsureScores, ReplayGraph, LaunchAttention,
         CopyOutput,
           Issue, Sync, HostInv, Objects, ManagerOwns
    <3> QED
      BY <2>4, <3>1, <3>2 DEF Places
  <2>8. CASE DropState \/ DropManager
    <3>1. /\ UNCHANGED <<prompt, loops>> /\ graph_cache' \subseteq graph_cache
          /\ at' \in {"drop_manager", "over", "over_undrained"} /\ held' \subseteq held
      BY <2>8 DEF DropState, DropManager
    <3> QED
      BY <2>4, <3>1 DEF HostInv, Places, SetUp, Running, Attending
  <2> QED
    BY <1>2, <2>1, <2>2, <2>3, <2>5, <2>6, <2>7, <2>8 DEF Host
<1>3. CASE Over \/ RunCopy \/ RunCompute \/ UNCHANGED vars
  BY <1>1, <1>3 DEF Over, RunCopy, RunCompute, vars, host
<1> QED
  BY <1>2, <1>3 DEF Next

\* The loops keep their order: a position is passed on to with its own row left,
\* and a layer, or prefill, with all rows of the prompt.
LEMMA LoopKept == HostInv /\ LoopInv /\ [Next]_vars => LoopInv'
<1> SUFFICES ASSUME HostInv, LoopInv, [Next]_vars PROVE LoopInv'
  OBVIOUS
<1>1. CASE AfterAttention \/ SkipLayer
  <2>1. /\ at' = "begin" /\ UNCHANGED <<prompt, last_row>> /\ Advance /\ pos < LastPos
        /\ Prefilling => last_row[pos] = Now
    BY <1>1 DEF AfterAttention, SkipLayer, HostInv, LoopInv, Attending
  <2>2. CASE ~Prefilling
    <3>1. pos' >= pos /\ ~Prefilling'
      BY <2>1, <2>2, Sizes DEF Advance, DecodeOrder, Prefilling
    <3> QED
      BY <2>1, <2>2, <3>1 DEF LoopInv, Attending
  <2>3. CASE Prefilling
    <3>1. \A u \in 0..pos : last_row[u] = [layer |-> layer, pos |-> u]
      BY <2>1, <2>3, Sizes DEF LoopInv, Now
    <3>2. CASE pos + 1 < prompt
      <4>1. pos' = pos + 1 /\ layer' = layer /\ Prefilling' /\ pos' - 1 = pos
        BY <2>1, <2>3, <3>2, Sizes DEF Advance, Prefilling
      <4> QED
        BY <2>1, <3>1, <4>1 DEF LoopInv, Attending
    <3>3. CASE ~(pos + 1 < prompt) /\ layer + 1 < NumLayers
      <4>1. pos' = 0 /\ Prefilling'
        BY <2>1, <2>3, <3>3, Sizes DEF Advance, Prefilling
      <4> QED
        BY <2>1, <4>1 DEF LoopInv, Attending
    <3>4. CASE ~(pos + 1 < prompt) /\ ~(layer + 1 < NumLayers)
      <4>1. ~Prefilling' /\ pos = prompt - 1 /\ layer = NumLayers - 1
        BY <2>1, <2>3, <3>4, Sizes DEF Advance, Prefilling, HostInv
      <4> QED
        BY <2>1, <3>1, <4>1 DEF LoopInv, Attending
    <3> QED
      BY <3>2, <3>3, <3>4
  <2> QED
    BY <2>2, <2>3
<1>2. CASE Begin
  <2>1. /\ UNCHANGED <<prompt, layer, pos>> /\ last_row' = [last_row EXCEPT ![pos] = Now]
        /\ pos < LastPos
    BY <1>2 DEF Begin
  <2>2. /\ last_row'[pos] = Now
        /\ \A u \in 0..(MaxPos - 1) : u # pos => last_row'[u] = last_row[u]
    BY <2>1, Current DEF HostInv
  <2>3. Now' = Now /\ (Prefilling' <=> Prefilling)
    BY <2>1 DEF Now, Prefilling
  <2>4. Prefilling => \A u \in 0..(pos - 1) : u \in 0..(MaxPos - 1) /\ u # pos
    BY <2>1, Sizes
  <2>5. ~Prefilling /\ prompt > 1 => \A u \in 0..(prompt - 1) : u \in 0..(MaxPos - 1) /\ u # pos
    BY <2>1, Sizes DEF Prefilling
  <2> QED
    BY <2>1, <2>2, <2>3, <2>4, <2>5 DEF LoopInv
<1>3. ASSUME UNCHANGED <<prompt, loops>>, at' \in Attending => at \in Attending
      PROVE  LoopInv'
  BY <1>3 DEF LoopInv, Prefilling, Now, loops
<1>4. CASE Host /\ ~(AfterAttention \/ SkipLayer \/ Begin)
  <2>1. UNCHANGED <<prompt, loops>> /\ (at' \in Attending => at \in Attending)
    BY <1>4 DEF Host, StreamNew, GpuInit, AllocK, AllocV, Alloc, Leave, CopyK, CopyV, CopyQ,
       EnsureScores, GetOrCreateGraph, ReplayGraph, LaunchAttention, CopyOutput, Issue, Sync, GivenUp,
       DropState, DropManager, Attending
  <2> QED
    BY <1>3, <2>1
<1>5. CASE Over \/ RunCopy \/ RunCompute \/ UNCHANGED vars
  <2>1. UNCHANGED <<prompt, loops, at>>
    BY <1>5 DEF Over, RunCopy, RunCompute, vars, host
  <2> QED
    BY <1>3, <2>1
<1> QED
  BY <1>1, <1>2, <1>4, <1>5 DEF Next

----------------------------------------------------------------------------
(* What the generation has of the device.                                  *)

First == {"compute_stream", "copy_stream", "d_q", "d_out"}

HeldInv ==
  /\ at = "stream_new" => held = {}
  /\ at \in {"gpu_init", "alloc_k"} => held = First
  /\ at = "alloc_v" => held \in {First, First \cup {"d_k_buf"}}
  /\ at \in Running => held \in {First \cup {"d_k_buf", "d_v_buf"},
                                 First \cup {"d_k_buf", "d_v_buf", "d_scores"}}
  /\ at = "drop_manager" =>
       held \in {First, First \cup {"d_k_buf"}, First \cup {"d_v_buf"}, First \cup {"d_scores"}}
  /\ at = "over" => ReleasedAtEnd
  /\ at \notin Running \cup {"over_undrained"} => copy_stream = <<>> /\ compute_stream = <<>>

\* What new() takes, and what a new() that fails has taken.
LEMMA TakenByNew ==
  /\ Len(StreamManagerNeeds) = 4
  /\ {StreamManagerNeeds[m] : m \in 1..4} = First
  /\ {StreamManagerNeeds[m] : m \in 1..0} = {}
<1>1. /\ StreamManagerNeeds[1] = "compute_stream" /\ StreamManagerNeeds[2] = "copy_stream"
      /\ StreamManagerNeeds[3] = "d_q" /\ StreamManagerNeeds[4] = "d_out"
      /\ Len(StreamManagerNeeds) = 4
  BY DEF StreamManagerNeeds
<1>2. 1..4 = {1, 2, 3, 4} /\ 1..0 = {}
  OBVIOUS
<1> QED
  BY <1>1, <1>2 DEF First

\* Every step takes and gives back what its place says.
LEMMA HeldKept == HostInv /\ HeldInv /\ [Next]_vars => HeldInv'
<1> SUFFICES ASSUME HostInv, HeldInv, [Next]_vars PROVE HeldInv'
  OBVIOUS
<1>1. CASE StreamNew
  <2>1. PICK n \in 0..4 :
          /\ held' = {StreamManagerNeeds[m] : m \in 1..n}
          /\ IF n = 4 THEN at' = "gpu_init" ELSE at' = "over"
    BY <1>1, TakenByNew DEF StreamNew
  <2>2. UNCHANGED device /\ at = "stream_new"
    BY <1>1 DEF StreamNew
  <2>3. copy_stream' = <<>> /\ compute_stream' = <<>>
    BY <2>2 DEF HeldInv, device, Running, Attending
  <2>4. CASE n = 4
    BY <2>1, <2>3, <2>4, TakenByNew DEF HeldInv, Running, Attending
  <2>5. CASE n = 0
    BY <2>1, <2>3, <2>5, TakenByNew DEF HeldInv, Running, Attending, ReleasedAtEnd
  <2>6. CASE n \in 1..3
    BY <2>1, <2>3, <2>6 DEF HeldInv, Running, Attending, ReleasedAtEnd
  <2> QED
    BY <2>4, <2>5, <2>6
<1>2. CASE GpuInit \/ AllocK
  <2>1. /\ UNCHANGED <<copy_stream, compute_stream>> /\ at \in {"gpu_init", "alloc_k"}
        /\ \/ at' \in {"alloc_k", "drop_manager"} /\ held' = held
           \/ at' = "alloc_v" /\ held' \in {held, held \cup {"d_k_buf"}}
    BY <1>2 DEF GpuInit, AllocK, Alloc, device
  <2> QED
    BY <2>1 DEF HeldInv, Running, Attending
<1>10. CASE AllocV
  <2>1. /\ UNCHANGED <<copy_stream, compute_stream>> /\ at = "alloc_v"
        /\ held' \in {held, held \cup {"d_v_buf"}}
        /\ at' = IF {"d_k_buf", "d_v_buf"} \subseteq held' THEN "begin" ELSE "drop_manager"
    BY <1>10 DEF AllocV, Alloc, device
  <2>2. held \in {First, First \cup {"d_k_buf"}} /\ copy_stream = <<>> /\ compute_stream = <<>>
    BY <2>1 DEF HeldInv, Running, Attending
  <2>3. CASE held' = First \cup {"d_k_buf", "d_v_buf"}
    BY <2>1, <2>2, <2>3 DEF HeldInv, Running, Attending
  <2>4. CASE held' \in {First, First \cup {"d_k_buf"}, First \cup {"d_v_buf"}}
    BY <2>1, <2>2, <2>4 DEF HeldInv, Running, Attending, First
  <2> QED
    BY <2>1, <2>2, <2>3, <2>4
<1>3. CASE EnsureScores
  <2>1. at' \in Running /\ at \in Running /\ held' \in {held, held \cup {"d_scores"}}
    BY <1>3 DEF EnsureScores, GivenUp, Running, Attending
  <2>2. at' \notin {"stream_new", "gpu_init", "alloc_k", "alloc_v", "drop_manager", "over"}
    BY <2>1 DEF Running, Attending
  <2> QED
    BY <2>1, <2>2 DEF HeldInv
<1>4. CASE Begin \/ SkipLayer \/ Leave \/ CopyK \/ CopyV \/ CopyQ \/ GetOrCreateGraph
           \/ ReplayGraph \/ LaunchAttention
           \/ CopyOutput \/ Sync \/ AfterAttention
  <2>1. at' \in Running /\ at \in Running /\ held' = held
    BY <1>4 DEF Begin, SkipLayer, Leave, CopyK, CopyV, CopyQ, GetOrCreateGraph, ReplayGraph,
       LaunchAttention,
         CopyOutput, Issue, Sync, AfterAttention, GivenUp, Running, Attending
  <2>2. at' \notin {"stream_new", "gpu_init", "alloc_k", "alloc_v", "drop_manager", "over"}
    BY <2>1 DEF Running, Attending
  <2> QED
    BY <2>1, <2>2 DEF HeldInv
<1>5. CASE DropState
  <2>1. /\ at = "drop" /\ held' = held \ {"d_k_buf", "d_v_buf"}
        /\ UNCHANGED <<copy_stream, compute_stream>>
        /\ \/ at' = "over_undrained"
           \/ at' = "drop_manager" /\ copy_stream = <<>> /\ compute_stream = <<>>
    BY <1>5 DEF DropState, Drained, device
  <2>2. held' \in {First, First \cup {"d_scores"}}
    BY <2>1 DEF HeldInv, Running, First
  <2> QED
    BY <2>1, <2>2 DEF HeldInv, Running, Attending
<1>6. CASE DropManager
  <2>1. /\ at = "drop_manager" /\ held' = held \ ManagerOwns /\ at' = "over"
        /\ copy_stream' = <<>> /\ compute_stream' = <<>>
    BY <1>6 DEF DropManager, Drained, device
  <2>2. held' \in {{}, {"d_k_buf"}, {"d_v_buf"}}
    BY <2>1 DEF HeldInv, First, ManagerOwns
  <2> QED
    BY <2>1, <2>2 DEF HeldInv, Running, Attending, ReleasedAtEnd
<1>7. CASE RunCopy \/ RunCompute
  <2>1. /\ UNCHANGED <<at, held>> /\ (copy_stream # <<>> \/ compute_stream # <<>>)
    BY <1>7 DEF RunCopy, RunCompute, Execute
  <2>2. at \in Running \cup {"over_undrained"}
    BY <2>1 DEF HeldInv
  <2>3. at \notin {"stream_new", "gpu_init", "alloc_k", "alloc_v", "drop_manager", "over"}
    BY <2>2 DEF Running, Attending
  <2> QED
    BY <2>1, <2>2, <2>3 DEF HeldInv
<1>8. CASE Over \/ UNCHANGED vars
  BY <1>8 DEF Over, vars, device, host, HeldInv, ReleasedAtEnd
<1> QED
  BY <1>1, <1>2, <1>3, <1>4, <1>5, <1>6, <1>7, <1>8, <1>10 DEF Next, Host

----------------------------------------------------------------------------
(* The device.                                                             *)

\* The steps of the host that use the streams queue one operation each, the
\* others none; only the device touches its memory.
LEMMA Issued ==
  ASSUME HostInv, Host
  PROVE  /\ UNCHANGED <<d_k_buf, d_v_buf, d_q, d_out>>
         /\ \/ UNCHANGED <<copy_stream, compute_stream>>
            \/ CopyK /\ failures' = failures /\ at' = "copy_v" /\ pos < LastPos
               /\ copy_stream' = Append(copy_stream, [op |-> "k", row |-> Now])
               /\ UNCHANGED compute_stream
            \/ CopyV /\ failures' = failures /\ at' = "copy_q" /\ pos < LastPos
               /\ copy_stream' = Append(copy_stream, [op |-> "v", row |-> Now])
               /\ UNCHANGED compute_stream
            \/ CopyQ /\ at' = "scores" /\ pos < LastPos
               /\ compute_stream' = Append(compute_stream, [op |-> "q", row |-> Now])
               /\ UNCHANGED copy_stream
            \/ (ReplayGraph \/ LaunchAttention) /\ at' = "copy_out" /\ pos < LastPos
               /\ compute_stream' = Append(compute_stream, [op |-> "attend", row |-> Now])
               /\ UNCHANGED copy_stream
            \/ CopyOutput /\ at' = "sync" /\ pos < LastPos
               /\ compute_stream' = Append(compute_stream, [op |-> "out", row |-> Now])
               /\ UNCHANGED copy_stream
<1>1. CASE StreamNew \/ GpuInit \/ AllocK \/ AllocV \/ Begin \/ SkipLayer \/ Leave
           \/ EnsureScores \/ GetOrCreateGraph \/ Sync
           \/ AfterAttention \/ DropState \/ DropManager
  BY <1>1 DEF StreamNew, GpuInit, AllocK, AllocV, Alloc, Begin, SkipLayer, Leave, EnsureScores,
     GetOrCreateGraph, Sync,
     AfterAttention, DropState, DropManager, device
<1>2. CASE CopyK
  BY <1>2 DEF CopyK, Issue, Enqueue, Works, HostInv, Attending
<1>3. CASE CopyV
  BY <1>3 DEF CopyV, Issue, Enqueue, Works, HostInv, Attending
<1>4. CASE CopyQ
  BY <1>4 DEF CopyQ, Issue, Enqueue, QueryStream, HostInv, Attending
<1>5. CASE ReplayGraph
  BY <1>5 DEF ReplayGraph, Enqueue, Attention, HostInv, Attending
<1>6. CASE LaunchAttention
  BY <1>6 DEF LaunchAttention, Issue, Enqueue, Attention, HostInv, Attending
<1>7. CASE CopyOutput
  BY <1>7 DEF CopyOutput, Issue, Enqueue, HostInv, Attending
<1> QED
  BY <1>1, <1>2, <1>3, <1>4, <1>5, <1>6, <1>7 DEF Host

\* What the first operation of the copy stream does, and what is left.
LEMMA CopyRuns ==
  ASSUME DeviceInv, RunCopy
  PROVE  /\ copy_stream # <<>> /\ copy_stream' = Tail(copy_stream)
         /\ copy_stream[1] \in CopyOp /\ copy_stream' \in Seq(CopyOp)
         /\ UNCHANGED <<d_q, d_out, attn_out, compute_stream, prompt, at, loops, graph_cache, held,
                        failures>>
         /\ d_k_buf' = IF copy_stream[1].op = "k"
                       THEN [d_k_buf EXCEPT ![copy_stream[1].row.pos] = copy_stream[1].row]
                       ELSE d_k_buf
         /\ d_v_buf' = IF copy_stream[1].op = "v"
                       THEN [d_v_buf EXCEPT ![copy_stream[1].row.pos] = copy_stream[1].row]
                       ELSE d_v_buf
<1>1. copy_stream # <<>> /\ copy_stream \in Seq(CopyOp)
  BY DEF RunCopy, Execute, DeviceInv
<1>2. copy_stream[1] \in CopyOp /\ Tail(copy_stream) \in Seq(CopyOp)
  BY <1>1, HeadTailProperties, ElementOfSeq, EmptySeq
<1>3. copy_stream[1].op \in {"k", "v"}
  BY <1>2 DEF CopyOp
<1> QED
  BY <1>1, <1>2, <1>3 DEF RunCopy, Execute

\* And of the compute stream.
LEMMA ComputeRuns ==
  ASSUME DeviceInv, RunCompute
  PROVE  /\ compute_stream # <<>> /\ compute_stream' = Tail(compute_stream)
         /\ compute_stream[1] \in ComputeOp /\ compute_stream' \in Seq(ComputeOp)
         /\ Len(compute_stream') = Len(compute_stream) - 1 /\ Len(compute_stream) \in Nat \ {0}
         /\ \A i \in 1..Len(compute_stream') : compute_stream'[i] = compute_stream[i + 1]
         /\ UNCHANGED <<d_k_buf, d_v_buf, copy_stream, prompt, at, loops, graph_cache, held,
                        failures>>
         /\ d_q' = IF compute_stream[1].op = "q" THEN compute_stream[1].row ELSE d_q
         /\ d_out' = IF compute_stream[1].op = "attend" THEN Attend(compute_stream[1].row) ELSE d_out
         /\ attn_out' = IF compute_stream[1].op = "out" THEN d_out ELSE attn_out
<1>1. compute_stream # <<>> /\ compute_stream \in Seq(ComputeOp)
  BY DEF RunCompute, Execute, DeviceInv
<1>2. /\ compute_stream[1] \in ComputeOp /\ Tail(compute_stream) \in Seq(ComputeOp)
      /\ Len(Tail(compute_stream)) = Len(compute_stream) - 1 /\ Len(compute_stream) \in Nat \ {0}
      /\ \A i \in 1..Len(Tail(compute_stream)) : Tail(compute_stream)[i] = compute_stream[i + 1]
  BY <1>1, HeadTailProperties, ElementOfSeq, EmptySeq
<1>3. compute_stream[1].op \in {"q", "attend", "out"}
  BY <1>2 DEF ComputeOp
<1> QED
  BY <1>1, <1>2, <1>3 DEF RunCompute, Execute

\* The kernel's output is one.
LEMMA AttendIsOutput ==
  ASSUME DeviceInv, NEW row \in Row
  PROVE  Attend(row) \in Output(row.pos) /\ Attend(row) # Unset /\ IsOutput(Attend(row))
<1>1. row.pos \in 0..(MaxPos - 1) /\ \A u \in 0..row.pos : u \in 0..(MaxPos - 1)
  BY PipelineAssumption DEF Row, MaxPos
<1>2. /\ [u \in 0..row.pos |-> d_k_buf[u]] \in [0..row.pos -> Rows]
      /\ [u \in 0..row.pos |-> d_v_buf[u]] \in [0..row.pos -> Rows]
  BY <1>1 DEF DeviceInv
<1>3. (copy_stream # <<>>) \in BOOLEAN
  BY Zenon
<1>4. Attend(row) \in Output(row.pos)
  BY <1>2, <1>3 DEF Attend, Output, DeviceInv
<1> QED
  BY <1>1, <1>4, UnsetAssumption DEF IsOutput

\* The streams and the memory keep their types.
LEMMA DeviceKept == HostInv /\ DeviceInv /\ [Next]_vars => DeviceInv'
<1> SUFFICES ASSUME HostInv, DeviceInv, [Next]_vars PROVE DeviceInv'
  OBVIOUS
<1>1. CASE Host
  <2>1. attn_out' \in {Unset, attn_out}
    <3>1. CASE AfterAttention
      BY <3>1 DEF AfterAttention
    <3>2. CASE ~AfterAttention
      BY <1>1, <3>2 DEF Host, StreamNew, GpuInit, AllocK, AllocV, Alloc, Begin, SkipLayer, Leave,
         CopyK, CopyV, CopyQ, EnsureScores,
         GetOrCreateGraph, ReplayGraph, LaunchAttention, CopyOutput, Issue, Sync, DropState,
         DropManager
    <3> QED
      BY <3>1, <3>2
  <2>2. IsOutput(attn_out')
    BY <2>1 DEF DeviceInv, IsOutput
  <2>3. pos < LastPos => /\ [op |-> "k", row |-> Now] \in CopyOp /\ [op |-> "v", row |-> Now] \in CopyOp
                       /\ [op |-> "q", row |-> Now] \in ComputeOp
                       /\ [op |-> "attend", row |-> Now] \in ComputeOp
                       /\ [op |-> "out", row |-> Now] \in ComputeOp
    BY Current DEF CopyOp, ComputeOp
  <2>4. copy_stream \in Seq(CopyOp) /\ compute_stream \in Seq(ComputeOp)
    BY DEF DeviceInv
  <2>5. copy_stream' \in Seq(CopyOp)
    <3>1. \/ copy_stream' = copy_stream
          \/ pos < LastPos /\ copy_stream' = Append(copy_stream, [op |-> "k", row |-> Now])
          \/ pos < LastPos /\ copy_stream' = Append(copy_stream, [op |-> "v", row |-> Now])
      BY <1>1, Issued
    <3>2. copy_stream' = copy_stream \/ \E e \in CopyOp : copy_stream' = Append(copy_stream, e)
      BY <2>3, <3>1
    <3> QED
      BY <2>4, <3>2, AppendProperties
  <2>6. compute_stream' \in Seq(ComputeOp)
    <3>1. \/ compute_stream' = compute_stream
          \/ pos < LastPos /\ compute_stream' = Append(compute_stream, [op |-> "q", row |-> Now])
          \/ pos < LastPos /\ compute_stream' = Append(compute_stream, [op |-> "attend", row |-> Now])
          \/ pos < LastPos /\ compute_stream' = Append(compute_stream, [op |-> "out", row |-> Now])
      BY <1>1, Issued
    <3>2. compute_stream' = compute_stream \/ \E e \in ComputeOp : compute_stream' = Append(compute_stream, e)
      BY <2>3, <3>1
    <3> QED
      BY <2>4, <3>2, AppendProperties
  <2> QED
    BY <1>1, <2>2, <2>5, <2>6, Issued DEF DeviceInv, IsOutput
<1>2. CASE RunCopy
  <2>1. copy_stream[1].row \in Rows /\ copy_stream[1].row.pos \in 0..(MaxPos - 1)
    BY <1>2, CopyRuns DEF CopyOp, Rows, Row
  <2>2. /\ d_k_buf' \in [0..(MaxPos - 1) -> Rows] /\ d_v_buf' \in [0..(MaxPos - 1) -> Rows]
    BY <1>2, <2>1, CopyRuns DEF DeviceInv
  <2> QED
    BY <1>2, <2>2, CopyRuns DEF DeviceInv, IsOutput
<1>3. CASE RunCompute
  <2>1. compute_stream[1].row \in Row
    BY <1>3, ComputeRuns DEF ComputeOp
  <2>2. IsOutput(Attend(compute_stream[1].row)) /\ IsOutput(d_out) /\ IsOutput(attn_out)
    BY <2>1, AttendIsOutput DEF DeviceInv
  <2>3. IsOutput(d_out') /\ IsOutput(attn_out')
    BY <1>3, <2>2, ComputeRuns
  <2>4. d_q' \in Rows
    BY <1>3, <2>1, ComputeRuns DEF DeviceInv, Rows
  <2> QED
    BY <1>3, <2>3, <2>4, ComputeRuns DEF DeviceInv, IsOutput
<1>4. CASE Over \/ UNCHANGED vars
  BY <1>4 DEF Over, vars, device, host, DeviceInv, IsOutput
<1> QED
  BY <1>1, <1>2, <1>3, <1>4 DEF Next

----------------------------------------------------------------------------
(* The rows the buffers hold.                                              *)

\* Each position, but for those left out, holds its last row, or will when the
\* copies queued are done.
Copied(s, op, buf, rows, but) ==
  \A u \in (0..(MaxPos - 1)) \ but : Will(s, op, buf[u], u, rows[u])

CopyInv ==
  failures = 0 =>
    /\ at \notin {"gave_up", "sync_anyway"}
    /\ at = "copy_k" => Copied(copy_stream, "k", d_k_buf, last_row, {pos})
    /\ at # "copy_k" => Copied(copy_stream, "k", d_k_buf, last_row, {})
    /\ at \in {"copy_k", "copy_v"} => Copied(copy_stream, "v", d_v_buf, last_row, {pos})
    /\ at \notin {"copy_k", "copy_v"} => Copied(copy_stream, "v", d_v_buf, last_row, {})

\* The copy of the current attention's row completes the positions.
LEMMA OwnCopy ==
  ASSUME HostInv, LoopInv, at \in Attending, copy_stream \in Seq(CopyOp), NEW op \in {"k", "v"},
         NEW buf, Copied(copy_stream, op, buf, last_row, {pos})
  PROVE  Copied(Append(copy_stream, [op |-> op, row |-> Now]), op, buf, last_row, {})
<1> DEFINE e == [op |-> op, row |-> Now]
<1>1. Now \in Row /\ Now.pos = pos /\ last_row[pos] = Now
  BY Current DEF HostInv, LoopInv
<1>2. e \in CopyOp /\ e.op = op /\ e.row = Now
  BY <1>1 DEF CopyOp
<1> HIDE DEF e
<1>3. ASSUME NEW u \in 0..(MaxPos - 1)
      PROVE  Will(Append(copy_stream, e), op, buf[u], u, last_row[u])
  <2>1. CASE u = pos
    BY <1>1, <1>2, <2>1, WillOwn
  <2>2. CASE u # pos
    <3>1. Will(copy_stream, op, buf[u], u, last_row[u])
      BY <2>2 DEF Copied
    <3> QED
      BY <1>1, <1>2, <2>2, <3>1, WillOther
  <2> QED
    BY <2>1, <2>2
<1> QED
  BY <1>3 DEF Copied, e

\* A copy into the other buffer changes nothing here.
LEMMA OtherCopy ==
  ASSUME NEW s \in Seq(CopyOp), NEW e \in CopyOp, NEW op, e.op # op, NEW buf, NEW rows, NEW but,
         Copied(s, op, buf, rows, but)
  PROVE  Copied(Append(s, e), op, buf, rows, but)
  BY WillOther DEF Copied

\* Nor does the device when it does the first of the copies.
LEMMA CopyDone ==
  ASSUME DeviceInv, RunCopy, NEW rows, NEW but
  PROVE  /\ Copied(copy_stream, "k", d_k_buf, rows, but) => Copied(copy_stream', "k", d_k_buf', rows, but)
         /\ Copied(copy_stream, "v", d_v_buf, rows, but) => Copied(copy_stream', "v", d_v_buf', rows, but)
<1>1. /\ copy_stream # <<>> /\ copy_stream' = Tail(copy_stream) /\ copy_stream \in Seq(CopyOp)
      /\ copy_stream[1].row.pos \in 0..(MaxPos - 1)
  BY CopyRuns DEF DeviceInv, CopyOp, Row
<1>2. \A u \in 0..(MaxPos - 1) :
        /\ d_k_buf'[u] = IF copy_stream[1].op = "k" /\ copy_stream[1].row.pos = u
                         THEN copy_stream[1].row ELSE d_k_buf[u]
        /\ d_v_buf'[u] = IF copy_stream[1].op = "v" /\ copy_stream[1].row.pos = u
                         THEN copy_stream[1].row ELSE d_v_buf[u]
  BY CopyRuns DEF DeviceInv
<1>3. ASSUME Copied(copy_stream, "k", d_k_buf, rows, but), NEW u \in (0..(MaxPos - 1)) \ but
      PROVE  Will(copy_stream', "k", d_k_buf'[u], u, rows[u])
  <2>1. Will(copy_stream, "k", d_k_buf[u], u, rows[u])
    BY <1>3 DEF Copied
  <2> QED
    BY <1>1, <1>2, <2>1, WillTail
<1>4. ASSUME Copied(copy_stream, "v", d_v_buf, rows, but), NEW u \in (0..(MaxPos - 1)) \ but
      PROVE  Will(copy_stream', "v", d_v_buf'[u], u, rows[u])
  <2>1. Will(copy_stream, "v", d_v_buf[u], u, rows[u])
    BY <1>4 DEF Copied
  <2> QED
    BY <1>1, <1>2, <2>1, WillTail
<1> QED
  BY <1>3, <1>4 DEF Copied

\* Until a call fails every step keeps the rows coming.
LEMMA CopyKept == HostInv /\ LoopInv /\ DeviceInv /\ CopyInv /\ [Next]_vars => CopyInv'
<1> SUFFICES ASSUME HostInv, LoopInv, DeviceInv, CopyInv, [Next]_vars, failures' = 0 PROVE CopyInv'
  BY DEF CopyInv
<1>0. failures \in Nat /\ copy_stream \in Seq(CopyOp)
  BY Sizes DEF DeviceInv
<1>1. CASE Host
  <2>1. failures = 0
    BY <1>0, <1>1, FailuresCount
  <2>2. ~Fails /\ at \notin {"gave_up", "sync_anyway"}
    BY <1>0, <2>1 DEF Fails, CopyInv
  <2>3. UNCHANGED <<d_k_buf, d_v_buf>>
    BY <1>1, Issued
  <2>4. CASE CopyK
    <3>1. /\ at = "copy_k" /\ at' = "copy_v" /\ UNCHANGED loops
          /\ copy_stream' = Append(copy_stream, [op |-> "k", row |-> Now])
      BY <2>2, <2>4 DEF CopyK, Issue, Enqueue
    <3>2. [op |-> "k", row |-> Now] \in CopyOp
      BY <3>1, Current DEF CopyOp, HostInv, Attending
    <3>3. /\ Copied(copy_stream, "k", d_k_buf, last_row, {pos})
          /\ Copied(copy_stream, "v", d_v_buf, last_row, {pos})
      BY <2>1, <3>1 DEF CopyInv
    <3>4. Copied(copy_stream', "k", d_k_buf, last_row, {})
      BY <1>0, <3>1, <3>3, OwnCopy DEF Attending
    <3>5. Copied(copy_stream', "v", d_v_buf, last_row, {pos})
      BY <1>0, <3>1, <3>2, <3>3, OtherCopy
    <3> QED
      BY <2>3, <3>1, <3>4, <3>5 DEF CopyInv, loops
  <2>5. CASE CopyV
    <3>1. /\ at = "copy_v" /\ at' = "copy_q" /\ UNCHANGED loops
          /\ copy_stream' = Append(copy_stream, [op |-> "v", row |-> Now])
      BY <2>2, <2>5 DEF CopyV, Issue, Enqueue
    <3>2. [op |-> "v", row |-> Now] \in CopyOp
      BY <3>1, Current DEF CopyOp, HostInv, Attending
    <3>3. /\ Copied(copy_stream, "k", d_k_buf, last_row, {})
          /\ Copied(copy_stream, "v", d_v_buf, last_row, {pos})
      BY <2>1, <3>1 DEF CopyInv
    <3>4. Copied(copy_stream', "v", d_v_buf, last_row, {})
      BY <1>0, <3>1, <3>3, OwnCopy DEF Attending
    <3>5. Copied(copy_stream', "k", d_k_buf, last_row, {})
      BY <1>0, <3>1, <3>2, <3>3, OtherCopy
    <3> QED
      BY <2>3, <3>1, <3>4, <3>5 DEF CopyInv, loops
  <2>6. CASE Begin
    <3>1. /\ at = "begin" /\ at' = "copy_k" /\ UNCHANGED <<copy_stream, pos>>
          /\ last_row' = [last_row EXCEPT ![pos] = Now]
      BY <2>6 DEF Begin, device
    <3>2. \A u \in (0..(MaxPos - 1)) \ {pos} : last_row'[u] = last_row[u]
      BY <3>1 DEF HostInv
    <3>3. /\ Copied(copy_stream, "k", d_k_buf, last_row, {})
          /\ Copied(copy_stream, "v", d_v_buf, last_row, {})
      BY <2>1, <3>1 DEF CopyInv
    <3>4. /\ Copied(copy_stream, "k", d_k_buf, last_row', {pos})
          /\ Copied(copy_stream, "v", d_v_buf, last_row', {pos})
      BY <3>2, <3>3 DEF Copied
    <3> QED
      BY <2>3, <3>1, <3>4 DEF CopyInv
  <2>7. CASE ~(CopyK \/ CopyV \/ Begin)
    <3>1. /\ at \notin {"copy_k", "copy_v"}
          /\ at' \notin {"copy_k", "copy_v", "gave_up", "sync_anyway"}
          /\ UNCHANGED <<copy_stream, last_row>>
      BY <1>1, <2>2, <2>7 DEF Host, StreamNew, GpuInit, AllocK, AllocV, Alloc, SkipLayer, Leave,
         CopyQ,
         EnsureScores, GetOrCreateGraph, ReplayGraph, LaunchAttention, CopyOutput, Issue, Sync,
         Enqueue, QueryStream, AfterAttention, DropState, DropManager, device, loops
    <3>2. /\ Copied(copy_stream, "k", d_k_buf, last_row, {})
          /\ Copied(copy_stream, "v", d_v_buf, last_row, {})
      BY <2>1, <3>1 DEF CopyInv
    <3> QED
      BY <2>3, <3>1, <3>2 DEF CopyInv
  <2> QED
    BY <2>4, <2>5, <2>6, <2>7
<1>2. CASE RunCopy
  <2>1. UNCHANGED <<at, pos, last_row, failures>>
    BY <1>2, CopyRuns DEF loops
  <2>2. \A but \in {{}, {pos}} :
          /\ Copied(copy_stream, "k", d_k_buf, last_row, but)
               => Copied(copy_stream', "k", d_k_buf', last_row, but)
          /\ Copied(copy_stream, "v", d_v_buf, last_row, but)
               => Copied(copy_stream', "v", d_v_buf', last_row, but)
    BY <1>2, CopyDone
  <2> QED
    BY <2>1, <2>2 DEF CopyInv
<1>3. CASE RunCompute \/ Over \/ UNCHANGED vars
  <2>1. UNCHANGED <<d_k_buf, d_v_buf, copy_stream, at, pos, last_row, failures>>
    BY <1>3, ComputeRuns DEF Over, vars, device, host, loops
  <2> QED
    BY <2>1 DEF CopyInv
<1> QED
  BY <1>1, <1>2, <1>3 DEF Next

----------------------------------------------------------------------------
(* The output the current attention is to leave.                           *)

\* An attention of this query over all its positions; when no call failed and
\* the kernel did not outrun the copies, over the last rows of those.
IsFor(o, row, rows, f) ==
  /\ o # Unset /\ o.query = row /\ DOMAIN o.k = 0..row.pos
  /\ (f = 0 /\ ~o.outrun) =>
       \A u \in 0..row.pos : o.k[u] = rows[u] /\ o.v[u] = rows[u]

\* If more than k operations are queued, the one with k behind it is this one.
InPlace(s, k, op, row) == k < Len(s) => s[Len(s) - k] = [op |-> op, row |-> row]

\* The query, the kernel and the copy of the result, each with k operations
\* queued behind it, or done.
QueryAt(s, k, q, row) ==
  InPlace(s, k, "q", row) /\ (Len(s) <= k => q = row)
AttendAt(s, k, o, row, rows, f) ==
  InPlace(s, k, "attend", row) /\ (Len(s) <= k => IsFor(o, row, rows, f))
OutAt(s, k, o, row, rows, f) ==
  InPlace(s, k, "out", row) /\ (Len(s) <= k => IsFor(o, row, rows, f))

Launching == {"scores", "graph", "replay", "launch"}

OutputInv ==
  /\ at \in Launching => QueryAt(compute_stream, 0, d_q, Now)
  /\ at = "copy_out" =>
       /\ QueryAt(compute_stream, 1, d_q, Now)
       /\ AttendAt(compute_stream, 0, d_out, Now, last_row, failures)
  /\ at = "sync" =>
       /\ QueryAt(compute_stream, 2, d_q, Now)
       /\ AttendAt(compute_stream, 1, d_out, Now, last_row, failures)
       /\ OutAt(compute_stream, 0, attn_out, Now, last_row, failures)
  /\ at = "synced" =>
       compute_stream = <<>> /\ IsFor(attn_out, Now, last_row, failures)

\* The operations keep their places from the end when the first is done, and
\* the one done had as many behind it as are left.
LEMMA InPlaceTail ==
  ASSUME NEW s \in Seq(ComputeOp), s # <<>>, NEW k \in Nat, NEW op, NEW row, InPlace(s, k, op, row)
  PROVE  /\ InPlace(Tail(s), k, op, row) /\ Len(Tail(s)) = Len(s) - 1 /\ Len(s) \in Nat \ {0}
         /\ Len(s) = k + 1 => s[1] = [op |-> op, row |-> row]
<1>1. /\ Len(s) \in Nat \ {0} /\ Len(Tail(s)) = Len(s) - 1
      /\ \A i \in 1..Len(Tail(s)) : Tail(s)[i] = s[i + 1]
  BY HeadTailProperties, LenProperties, EmptySeq
<1>2. k < Len(Tail(s)) => /\ Len(Tail(s)) - k \in 1..Len(Tail(s))
                          /\ (Len(Tail(s)) - k) + 1 = Len(s) - k /\ k < Len(s)
  BY <1>1
<1>3. InPlace(Tail(s), k, op, row)
  <2> SUFFICES ASSUME k < Len(Tail(s)) PROVE Tail(s)[Len(Tail(s)) - k] = [op |-> op, row |-> row]
    BY DEF InPlace
  <2> DEFINE j == Len(Tail(s)) - k
  <2>1. j \in 1..Len(Tail(s)) /\ j + 1 = Len(s) - k /\ k < Len(s)
    BY <1>2
  <2>2. Tail(s)[j] = s[j + 1]
    BY <1>1, <2>1
  <2>3. s[Len(s) - k] = [op |-> op, row |-> row]
    BY <2>1 DEF InPlace
  <2> QED
    BY <2>1, <2>2, <2>3
<1>4. Len(s) = k + 1 => k < Len(s) /\ Len(s) - k = 1
  BY <1>1
<1> QED
  BY <1>1, <1>3, <1>4 DEF InPlace

\* They go back by one when another is queued, which has none behind it.
LEMMA InPlaceAppend ==
  ASSUME NEW s \in Seq(ComputeOp), NEW e \in ComputeOp
  PROVE  /\ Len(Append(s, e)) = Len(s) + 1 /\ Len(s) \in Nat
         /\ \A op, row : e = [op |-> op, row |-> row] => InPlace(Append(s, e), 0, op, row)
         /\ \A k \in Nat : \A op, row : InPlace(s, k, op, row) => InPlace(Append(s, e), k + 1, op, row)
<1> DEFINE r == Append(s, e)
<1>1. /\ Len(s) \in Nat /\ Len(r) = Len(s) + 1 /\ r[Len(s) + 1] = e
      /\ \A i \in 1..Len(s) : r[i] = s[i]
  BY AppendProperties, LenProperties
<1> HIDE DEF r
<1>2. ASSUME NEW k \in Nat, NEW op, NEW row, InPlace(s, k, op, row)
      PROVE  InPlace(r, k + 1, op, row)
  <2> SUFFICES ASSUME k + 1 < Len(r) PROVE r[Len(r) - (k + 1)] = [op |-> op, row |-> row]
    BY DEF InPlace
  <2>1. k < Len(s) /\ Len(r) - (k + 1) = Len(s) - k /\ Len(s) - k \in 1..Len(s)
    BY <1>1
  <2> QED
    BY <1>1, <1>2, <2>1 DEF InPlace
<1>3. Len(r) - 0 = Len(s) + 1
  BY <1>1
<1> QED
  BY <1>1, <1>2, <1>3 DEF InPlace, r

\* The kernel of the current attention leaves its output.
LEMMA AttendIsFor ==
  ASSUME HostInv, DeviceInv, CopyInv, at \in Attending \ {"copy_k", "copy_v"}, d_q = Now
  PROVE  IsFor(Attend(Now), Now, last_row, failures)
<1> DEFINE o == Attend(Now)
<1>1. Now \in Row /\ Now.pos = pos /\ pos \in 0..(MaxPos - 1) /\ MaxPos \in Nat
  BY Current, Sizes DEF HostInv
<1>2. o # Unset
  BY <1>1, AttendIsOutput
<1>3. /\ o.query = d_q /\ DOMAIN o.k = 0..Now.pos /\ o.outrun = (copy_stream # <<>>)
      /\ \A u \in 0..Now.pos : o.k[u] = d_k_buf[u] /\ o.v[u] = d_v_buf[u]
  BY DEF Attend
<1> HIDE DEF o
<1>4. ASSUME failures = 0, copy_stream = <<>>, NEW u \in 0..Now.pos
      PROVE  d_k_buf[u] = last_row[u] /\ d_v_buf[u] = last_row[u]
  <2>1. /\ Copied(copy_stream, "k", d_k_buf, last_row, {})
        /\ Copied(copy_stream, "v", d_v_buf, last_row, {})
    BY <1>4 DEF CopyInv
  <2>2. u \in 0..(MaxPos - 1)
    BY <1>1, <1>4
  <2>3. /\ Will(<<>>, "k", d_k_buf[u], u, last_row[u])
        /\ Will(<<>>, "v", d_v_buf[u], u, last_row[u])
    BY <1>4, <2>1, <2>2 DEF Copied
  <2> QED
    BY <2>3, WillEmpty
<1>5. (failures = 0 /\ ~o.outrun) =>
        \A u \in 0..Now.pos : o.k[u] = last_row[u] /\ o.v[u] = last_row[u]
  BY <1>3, <1>4
<1> QED
  BY <1>2, <1>3, <1>5 DEF IsFor, o

\* An output that is for the query stays so, whatever fails later.
LEMMA ForAllFailures ==
  ASSUME NEW o, NEW row, NEW rows, NEW f \in Nat, NEW g \in {f, f + 1},
         IsFor(o, row, rows, f)
  PROVE  IsFor(o, row, rows, g)
<1>1. g = 0 => f = 0
  OBVIOUS
<1> QED
  BY <1>1 DEF IsFor

\* A length that is not zero, and the length of the rest.
LEMMA Lengths ==
  ASSUME NEW a \in Nat \ {0}, NEW k \in Nat
  PROVE  /\ a <= 1 => a = 1
         /\ a <= 2 => a = 1 \/ a = 2
         /\ a - 1 <= k => a <= k \/ a = k + 1
         /\ ~(a <= 0)
  OBVIOUS

\* The first of one or of two queued operations is the one in that place.
LEMMA FirstInPlace ==
  ASSUME NEW s, NEW op, NEW row
  PROVE  /\ InPlace(s, 0, op, row) /\ Len(s) = 1 => s[1] = [op |-> op, row |-> row]
         /\ InPlace(s, 1, op, row) /\ Len(s) = 2 => s[1] = [op |-> op, row |-> row]
<1>1. ASSUME InPlace(s, 0, op, row), Len(s) = 1 PROVE s[1] = [op |-> op, row |-> row]
  <2>1. 0 < Len(s) /\ Len(s) - 0 = 1
    BY <1>1
  <2> QED
    BY <1>1, <2>1 DEF InPlace
<1>2. ASSUME InPlace(s, 1, op, row), Len(s) = 2 PROVE s[1] = [op |-> op, row |-> row]
  <2>1. 1 < Len(s) /\ Len(s) - 1 = 1
    BY <1>2
  <2> QED
    BY <1>2, <2>1 DEF InPlace
<1> QED
  BY <1>1, <1>2

\* The device does the first operation: it is the one in place, or has come
\* before, or is one of another kind behind it.
LEMMA QueryTail ==
  ASSUME NEW s \in Seq(ComputeOp), s # <<>>, NEW k \in Nat, NEW q, NEW row,
         QueryAt(s, k, q, row), Len(s) <= k => s[1].op # "q"
  PROVE  QueryAt(Tail(s), k, IF s[1].op = "q" THEN s[1].row ELSE q, row)
<1>1. InPlace(Tail(s), k, "q", row)
  BY InPlaceTail DEF QueryAt
<1>2. Len(Tail(s)) = Len(s) - 1 /\ Len(s) \in Nat \ {0}
  BY HeadTailProperties, LenProperties, EmptySeq
<1>3. Len(s) = k + 1 => s[1] = [op |-> "q", row |-> row]
  BY InPlaceTail DEF QueryAt
<1>4. Len(s) = k + 1 => s[1].op = "q" /\ s[1].row = row
  BY <1>3
<1>5. Len(Tail(s)) <= k => Len(s) <= k \/ Len(s) = k + 1
  BY <1>2, Lengths
<1> QED
  BY <1>1, <1>4, <1>5 DEF QueryAt

\* The same of the kernel.
LEMMA AttendTail ==
  ASSUME NEW s \in Seq(ComputeOp), s # <<>>, NEW k \in Nat, NEW o, NEW row, NEW rows, NEW f, NEW new,
         AttendAt(s, k, o, row, rows, f), Len(s) <= k => s[1].op # "attend",
         Len(s) = k + 1 => IsFor(new, row, rows, f)
  PROVE  AttendAt(Tail(s), k, IF s[1].op = "attend" THEN new ELSE o, row, rows, f)
<1>1. InPlace(Tail(s), k, "attend", row)
  BY InPlaceTail DEF AttendAt
<1>2. Len(Tail(s)) = Len(s) - 1 /\ Len(s) \in Nat \ {0}
  BY HeadTailProperties, LenProperties, EmptySeq
<1>3. Len(s) = k + 1 => s[1] = [op |-> "attend", row |-> row]
  BY InPlaceTail DEF AttendAt
<1>4. Len(s) = k + 1 => s[1].op = "attend" /\ s[1].row = row
  BY <1>3
<1>5. Len(Tail(s)) <= k => Len(s) <= k \/ Len(s) = k + 1
  BY <1>2, Lengths
<1> QED
  BY <1>1, <1>4, <1>5 DEF AttendAt

\* And of the copy of the result, which is the last.
LEMMA OutTail ==
  ASSUME NEW s \in Seq(ComputeOp), s # <<>>, NEW o, NEW row, NEW rows, NEW f, NEW new,
         OutAt(s, 0, o, row, rows, f), Len(s) = 1 => IsFor(new, row, rows, f)
  PROVE  OutAt(Tail(s), 0, IF s[1].op = "out" THEN new ELSE o, row, rows, f)
<1>1. InPlace(Tail(s), 0, "out", row)
  BY InPlaceTail DEF OutAt
<1>2. Len(Tail(s)) = Len(s) - 1 /\ Len(s) \in Nat \ {0}
  BY HeadTailProperties, LenProperties, EmptySeq
<1>3. Len(s) = 1 => s[1] = [op |-> "out", row |-> row]
  <2>1. InPlace(s, 0, "out", row)
    BY DEF OutAt
  <2> QED
    BY <2>1, FirstInPlace
<1>4. Len(s) = 1 => s[1].op = "out" /\ s[1].row = row
  BY <1>3
<1>5. Len(Tail(s)) <= 0 => Len(s) = 1
  BY <1>2
<1> QED
  BY <1>1, <1>4, <1>5 DEF OutAt

\* Every step keeps the query, its attention and the result together.
LEMMA OutputKept ==
  HostInv /\ DeviceInv /\ CopyInv /\ OutputInv /\ [Next]_vars => OutputInv'
<1> SUFFICES ASSUME HostInv, DeviceInv, CopyInv, OutputInv, [Next]_vars PROVE OutputInv'
  OBVIOUS
<1>0. compute_stream \in Seq(ComputeOp) /\ failures \in Nat
  BY DEF DeviceInv, HostInv
<1>1. CASE Host
  <2>1. UNCHANGED <<d_q, d_out>>
    BY <1>1, Issued
  <2>2. failures' \in {failures, failures + 1}
    BY <1>1, FailuresCount
  <2>3. CASE at' \notin Launching \cup {"copy_out", "sync", "synced"}
    BY <2>3 DEF OutputInv, Launching
  <2>4. CASE at' \in Launching \cup {"copy_out", "sync", "synced"}
    <3>1. CASE CopyQ
      <4>1. /\ at' = "scores" /\ pos < LastPos /\ UNCHANGED loops
            /\ compute_stream' = Append(compute_stream, [op |-> "q", row |-> Now])
        BY <2>4, <3>1 DEF CopyQ, Issue, GivenUp, Enqueue, QueryStream, Launching, HostInv, Attending
      <4>2. Now' = Now /\ last_row' = last_row /\ [op |-> "q", row |-> Now] \in ComputeOp
        BY <2>1, <4>1, Current DEF ComputeOp, Now, loops
      <4>3. InPlace(compute_stream', 0, "q", Now) /\ ~(Len(compute_stream') <= 0)
        BY <1>0, <4>1, <4>2, InPlaceAppend
      <4> QED
        BY <2>1, <4>1, <4>2, <4>3 DEF OutputInv, Launching, QueryAt
    <3>2. CASE EnsureScores \/ GetOrCreateGraph
               \/ ((ReplayGraph \/ LaunchAttention) /\ at' # "copy_out")
      <4>1. at \in Launching /\ at' \in Launching /\ UNCHANGED <<loops, compute_stream>>
        BY <2>4, <3>2 DEF EnsureScores, GetOrCreateGraph, ReplayGraph, LaunchAttention, Issue,
           GivenUp, Launching, device
      <4>2. Now' = Now /\ last_row' = last_row
        BY <2>1, <4>1 DEF Now, loops
      <4> QED
        BY <2>1, <4>1, <4>2 DEF OutputInv, Launching
    <3>3. CASE (ReplayGraph \/ LaunchAttention) /\ at' = "copy_out"
      <4>1. /\ at \in Launching /\ pos < LastPos /\ UNCHANGED loops
            /\ compute_stream' = Append(compute_stream, [op |-> "attend", row |-> Now])
        BY <3>3 DEF ReplayGraph, LaunchAttention, Issue, GivenUp, Enqueue, Attention, Launching,
           HostInv, Attending
      <4>2. Now' = Now /\ last_row' = last_row /\ [op |-> "attend", row |-> Now] \in ComputeOp
        BY <2>1, <4>1, Current DEF ComputeOp, Now, loops
      <4>3. InPlace(compute_stream', 0, "attend", Now) /\ ~(Len(compute_stream') <= 0)
        BY <1>0, <4>1, <4>2, InPlaceAppend
      <4>4. QueryAt(compute_stream, 0, d_q, Now)
        BY <4>1 DEF OutputInv
      <4>5. QueryAt(compute_stream', 1, d_q, Now)
        <5>1. InPlace(compute_stream', 0 + 1, "q", Now)
          BY <1>0, <4>1, <4>2, <4>4, InPlaceAppend DEF QueryAt
        <5>2. Len(compute_stream') <= 1 => Len(compute_stream) <= 0
          BY <1>0, <4>1, <4>2, InPlaceAppend
        <5> QED
          BY <4>4, <5>1, <5>2 DEF QueryAt
      <4> QED
        BY <2>1, <3>3, <4>2, <4>3, <4>5 DEF OutputInv, Launching, AttendAt
    <3>4. CASE CopyOutput
      <4>1. /\ at = "copy_out" /\ at' = "sync" /\ pos < LastPos /\ UNCHANGED loops
            /\ compute_stream' = Append(compute_stream, [op |-> "out", row |-> Now])
            /\ failures' = failures
        BY <2>4, <3>4 DEF CopyOutput, Issue, GivenUp, Works, Enqueue, Launching, HostInv, Attending
      <4>2. Now' = Now /\ last_row' = last_row /\ [op |-> "out", row |-> Now] \in ComputeOp
        BY <2>1, <4>1, Current DEF ComputeOp, Now, loops
      <4>3. InPlace(compute_stream', 0, "out", Now) /\ ~(Len(compute_stream') <= 0)
        BY <1>0, <4>1, <4>2, InPlaceAppend
      <4>4. /\ QueryAt(compute_stream, 1, d_q, Now)
            /\ AttendAt(compute_stream, 0, d_out, Now, last_row, failures)
        BY <4>1 DEF OutputInv
      <4>5. QueryAt(compute_stream', 2, d_q, Now)
        <5>1. InPlace(compute_stream', 1 + 1, "q", Now)
          BY <1>0, <4>1, <4>2, <4>4, InPlaceAppend DEF QueryAt
        <5>2. Len(compute_stream') <= 2 => Len(compute_stream) <= 1
          BY <1>0, <4>1, <4>2, InPlaceAppend
        <5> QED
          BY <4>4, <5>1, <5>2 DEF QueryAt
      <4>6. AttendAt(compute_stream', 1, d_out, Now, last_row, failures)
        <5>1. InPlace(compute_stream', 0 + 1, "attend", Now)
          BY <1>0, <4>1, <4>2, <4>4, InPlaceAppend DEF AttendAt
        <5>2. Len(compute_stream') <= 1 => Len(compute_stream) <= 0
          BY <1>0, <4>1, <4>2, InPlaceAppend
        <5> QED
          BY <4>4, <5>1, <5>2 DEF AttendAt
      <4> QED
        BY <2>1, <4>1, <4>2, <4>3, <4>5, <4>6 DEF OutputInv, Launching, OutAt
    <3>5. CASE Sync
      <4>1. /\ at = "sync" /\ at' = "synced" /\ compute_stream = <<>>
            /\ UNCHANGED <<loops, attn_out, failures, compute_stream>>
        BY <2>4, <3>5 DEF Sync, Works, Launching, device
      <4>2. Len(compute_stream) <= 0 /\ Now' = Now /\ last_row' = last_row
        BY <2>1, <4>1, EmptySeq DEF Now, loops
      <4>3. IsFor(attn_out, Now, last_row, failures)
        BY <4>1, <4>2 DEF OutputInv, OutAt
      <4> QED
        BY <2>1, <4>1, <4>2, <4>3 DEF OutputInv, Launching, device
    <3>6. CASE StreamNew \/ GpuInit \/ AllocK \/ AllocV \/ Begin \/ SkipLayer \/ Leave
               \/ CopyK \/ CopyV \/ AfterAttention
               \/ DropState \/ DropManager
      BY <2>4, <3>6 DEF StreamNew, GpuInit, AllocK, AllocV, Begin, SkipLayer, Leave, CopyK,
         CopyV, Issue, GivenUp,
         AfterAttention, DropState, DropManager, Launching
    <3> QED
      BY <1>1, <3>1, <3>2, <3>3, <3>4, <3>5, <3>6 DEF Host
  <2> QED
    BY <2>3, <2>4
<1>2. CASE RunCompute
  <2> DEFINE e == compute_stream[1]
  <2>1. /\ compute_stream # <<>> /\ compute_stream' = Tail(compute_stream)
        /\ Len(compute_stream) \in Nat \ {0} /\ UNCHANGED <<prompt, at, loops, failures>>
        /\ d_q' = IF e.op = "q" THEN e.row ELSE d_q
        /\ d_out' = IF e.op = "attend" THEN Attend(e.row) ELSE d_out
        /\ attn_out' = IF e.op = "out" THEN d_out ELSE attn_out
    BY <1>2, ComputeRuns
  <2>2. Now' = Now /\ last_row' = last_row
    BY <2>1 DEF Now, loops
  <2>3. Len(compute_stream) \in Nat \ {0} /\ compute_stream # <<>>
    BY <2>1
  <2> HIDE DEF e
  <2>4. ASSUME NEW k \in Nat, QueryAt(compute_stream, k, d_q, Now),
               Len(compute_stream) <= k => e.op # "q"
        PROVE  QueryAt(compute_stream', k, d_q', Now)
    <3>1. QueryAt(Tail(compute_stream), k, IF e.op = "q" THEN e.row ELSE d_q, Now)
      BY <1>0, <2>3, <2>4, QueryTail DEF e
    <3> QED
      BY <2>1, <3>1
  <2>5. ASSUME NEW k \in Nat, AttendAt(compute_stream, k, d_out, Now, last_row, failures),
               Len(compute_stream) <= k => e.op # "attend",
               Len(compute_stream) = k + 1 => e.row = Now /\ d_q = Now,
               pos < LastPos, at \in Attending \ {"copy_k", "copy_v"}
        PROVE  AttendAt(compute_stream', k, d_out', Now, last_row, failures)
    <3>1. Len(compute_stream) = k + 1 => IsFor(Attend(e.row), Now, last_row, failures)
      BY <2>5, AttendIsFor
    <3>2. AttendAt(Tail(compute_stream), k, IF e.op = "attend" THEN Attend(e.row) ELSE d_out,
                   Now, last_row, failures)
      BY <1>0, <2>3, <2>5, <3>1, AttendTail DEF e
    <3> QED
      BY <2>1, <3>2
  <2>6. CASE at \in Launching
    <3>1. QueryAt(compute_stream, 0, d_q, Now) /\ ~(Len(compute_stream) <= 0)
      BY <2>3, <2>6 DEF OutputInv
    <3>2. QueryAt(compute_stream', 0, d_q', Now)
      BY <2>4, <3>1
    <3> QED
      BY <2>1, <2>2, <2>6, <3>2 DEF OutputInv, Launching
  <2>7. CASE at = "copy_out"
    <3>1. /\ QueryAt(compute_stream, 1, d_q, Now)
          /\ AttendAt(compute_stream, 0, d_out, Now, last_row, failures)
      BY <2>7 DEF OutputInv
    <3>2. Len(compute_stream) = 1 => e = [op |-> "attend", row |-> Now]
      BY <3>1, FirstInPlace DEF AttendAt, e
    <3>3. Len(compute_stream) = 1 => e.op # "q" /\ e.row = Now
      BY <3>2
    <3>4. Len(compute_stream) = 1 => d_q = Now
      BY <3>1 DEF QueryAt
    <3>5. QueryAt(compute_stream', 1, d_q', Now)
      <4>1. Len(compute_stream) <= 1 => Len(compute_stream) = 1
        BY <2>3, Lengths
      <4> QED
        BY <2>4, <3>1, <3>3, <4>1
    <3>6. pos < LastPos /\ at \in Attending \ {"copy_k", "copy_v"}
      BY <2>7 DEF HostInv, Attending
    <3>7. AttendAt(compute_stream', 0, d_out', Now, last_row, failures)
      <4>1. ~(Len(compute_stream) <= 0) /\ 0 \in Nat
            /\ (Len(compute_stream) = 0 + 1 => e.row = Now /\ d_q = Now)
        BY <2>3, <3>3, <3>4
      <4> QED
        BY <2>5, <3>1, <3>6, <4>1
    <3> QED
      BY <2>1, <2>2, <2>7, <3>5, <3>7 DEF OutputInv, Launching
  <2>8. CASE at = "sync"
    <3>1. /\ QueryAt(compute_stream, 2, d_q, Now)
          /\ AttendAt(compute_stream, 1, d_out, Now, last_row, failures)
          /\ OutAt(compute_stream, 0, attn_out, Now, last_row, failures)
      BY <2>8 DEF OutputInv
    <3>2. Len(compute_stream) = 1 => e = [op |-> "out", row |-> Now]
      BY <3>1, FirstInPlace DEF OutAt, e
    <3>3. Len(compute_stream) = 2 => e = [op |-> "attend", row |-> Now]
      BY <3>1, FirstInPlace DEF AttendAt, e
    <3>4. /\ Len(compute_stream) = 1 => e.op = "out"
          /\ Len(compute_stream) = 2 => e.op = "attend" /\ e.row = Now
      BY <3>2, <3>3
    <3>5. Len(compute_stream) = 2 => d_q = Now
      BY <3>1 DEF QueryAt
    <3>6. QueryAt(compute_stream', 2, d_q', Now)
      <4>1. Len(compute_stream) <= 2 => e.op # "q"
        <5>1. Len(compute_stream) <= 2 => Len(compute_stream) = 1 \/ Len(compute_stream) = 2
          BY <2>3, Lengths
        <5> QED
          BY <3>4, <5>1
      <4> QED
        BY <2>4, <3>1, <4>1
    <3>7. pos < LastPos /\ at \in Attending \ {"copy_k", "copy_v"}
      BY <2>8 DEF HostInv, Attending
    <3>8. AttendAt(compute_stream', 1, d_out', Now, last_row, failures)
      <4>1. Len(compute_stream) <= 1 => e.op # "attend"
        <5>1. Len(compute_stream) <= 1 => Len(compute_stream) = 1
          BY <2>3, Lengths
        <5> QED
          BY <3>4, <5>1
      <4>2. 1 \in Nat /\ (Len(compute_stream) = 1 + 1 => e.row = Now /\ d_q = Now)
        BY <3>4, <3>5
      <4> QED
        BY <2>5, <3>1, <3>7, <4>1, <4>2
    <3>9. OutAt(compute_stream', 0, attn_out', Now, last_row, failures)
      <4>1. Len(compute_stream) = 1 => IsFor(d_out, Now, last_row, failures)
        BY <3>1 DEF AttendAt
      <4>2. OutAt(Tail(compute_stream), 0, IF e.op = "out" THEN d_out ELSE attn_out, Now,
                  last_row, failures)
        BY <1>0, <2>3, <3>1, <4>1, OutTail DEF e
      <4> QED
        BY <2>1, <4>2
    <3> QED
      BY <2>1, <2>2, <2>8, <3>6, <3>8, <3>9 DEF OutputInv, Launching
  <2>9. CASE at = "synced"
    <3>1. compute_stream = <<>>
      BY <2>9 DEF OutputInv
    <3> QED
      BY <2>3, <3>1
  <2>10. CASE at \notin Launching \cup {"copy_out", "sync", "synced"}
    BY <2>1, <2>10 DEF OutputInv
  <2> QED
    BY <2>6, <2>7, <2>8, <2>9, <2>10
<1>3. CASE RunCopy
  <2>1. UNCHANGED <<d_q, d_out, attn_out, compute_stream, prompt, at, loops, failures>>
    BY <1>3, CopyRuns
  <2>2. Now' = Now /\ last_row' = last_row
    BY <2>1 DEF Now, loops
  <2> QED
    BY <2>1, <2>2 DEF OutputInv
<1>4. CASE Over \/ UNCHANGED vars
  <2>1. UNCHANGED <<d_q, d_out, attn_out, compute_stream, prompt, at, loops, failures>>
    BY <1>4 DEF Over, vars, device, host
  <2>2. Now' = Now /\ last_row' = last_row
    BY <2>1 DEF Now, loops
  <2> QED
    BY <2>1, <2>2 DEF OutputInv
<1> QED
  BY <1>1, <1>2, <1>3, <1>4 DEF Next

----------------------------------------------------------------------------
(* The pipeline.                                                           *)

PipelineInv == HostInv /\ LoopInv /\ DeviceInv /\ HeldInv /\ CopyInv /\ OutputInv

\* A generation starts there.
LEMMA PipelineInit == Init => PipelineInv
<1> SUFFICES ASSUME Init PROVE PipelineInv
  OBVIOUS
<1>1. /\ prompt \in 1..MaxPrompt /\ at = "stream_new" /\ layer = 0 /\ pos = 0
      /\ copy_stream = <<>> /\ compute_stream = <<>> /\ graph_cache = {} /\ held = {}
      /\ failures = 0 /\ d_q = Unset /\ d_out = Unset /\ attn_out = Unset
      /\ d_k_buf = [u \in 0..(MaxPos - 1) |-> Unset] /\ d_v_buf = [u \in 0..(MaxPos - 1) |-> Unset]
      /\ last_row = [u \in 0..(MaxPos - 1) |-> Unset]
  BY DEF Init
<1>2. HostInv
  <2>1. 0 \in 0..MaxFailures /\ 0 \in 0..(NumLayers - 1) /\ 0 \in 0..LastPos
    BY <1>1, PipelineAssumption DEF LastPos
  <2>2. last_row \in [0..(MaxPos - 1) -> Rows]
    BY <1>1 DEF Rows
  <2> QED
    BY <1>1, <2>1, <2>2 DEF HostInv, Places, SetUp, Attending
<1>3. LoopInv
  BY <1>1 DEF LoopInv, Prefilling, Attending
<1>4. DeviceInv
  <2>1. <<>> \in Seq(CopyOp) /\ <<>> \in Seq(ComputeOp)
    OBVIOUS
  <2> QED
    BY <1>1, <2>1 DEF DeviceInv, Rows, IsOutput
<1>5. HeldInv
  BY <1>1 DEF HeldInv, Running, Attending
<1>6. CopyInv /\ OutputInv
  BY <1>1 DEF CopyInv, OutputInv, Copied, Will, Launching
<1> QED
  BY <1>2, <1>3, <1>4, <1>5, <1>6 DEF PipelineInv

\* And stays there.
LEMMA PipelineInvariant == Spec => []PipelineInv
<1>1. PipelineInv /\ [Next]_vars => PipelineInv'
  BY HostKept, LoopKept, DeviceKept, HeldKept, CopyKept, OutputKept DEF PipelineInv
<1> QED
  BY <1>1, PipelineInit, PTL DEF Spec

\* Streams carry only operations of their kind on positions the buffers have,
\* and a buffer holds a row of a layer there is or none (PerLayerGpuState).
THEOREM PipelineTypes == Spec => []TypeOK
<1>1. PipelineInv => TypeOK
  <2> SUFFICES ASSUME PipelineInv PROVE TypeOK
    OBVIOUS
  <2>1. HostInv /\ DeviceInv
    BY DEF PipelineInv
  <2>2. pos \in 0..MaxPos
    BY <2>1, Sizes DEF HostInv
  <2>3. \A n \in DOMAIN copy_stream : copy_stream[n] \in [op : {"k", "v"}, row : Row]
    BY <2>1, LenProperties, ElementOfSeq DEF DeviceInv, CopyOp
  <2>4. \A n \in DOMAIN compute_stream :
          compute_stream[n] \in [op : {"q", "attend", "out"}, row : Row]
    BY <2>1, LenProperties, ElementOfSeq DEF DeviceInv, ComputeOp
  <2> QED
    BY <2>1, <2>2, <2>3, <2>4 DEF TypeOK, HostInv, DeviceInv
<1> QED
  BY <1>1, PipelineInvariant, PTL

\* When sync reports success the host holds the attention of this very query,
\* over as many rows as it asked for (execute_attention_async, sync), whatever
\* calls have failed before and however the streams run.
THEOREM OutputForTheQuery == Spec => []SyncedOutputIsForTheQuery
<1>1. PipelineInv => SyncedOutputIsForTheQuery
  <2> SUFFICES ASSUME PipelineInv, at = "synced"
               PROVE  attn_out # Unset /\ attn_out.query = Now /\ DOMAIN attn_out.k = 0..pos
    BY DEF SyncedOutputIsForTheQuery
  <2>1. IsFor(attn_out, Now, last_row, failures)
    BY DEF PipelineInv, OutputInv
  <2>2. Now.pos = pos
    BY DEF Now
  <2> QED
    BY <2>1, <2>2 DEF IsFor
<1> QED
  BY <1>1, PipelineInvariant, PTL

\* Without a failure, and if the kernel did not outrun the copies, an attention
\* reads the row each position was last computed for: in prefill that of its own
\* layer; in decode, where all layers share the buffers and the policy may skip
\* any, its own row, the last layer's for the prompt, and whatever the last layer
\* that was not skipped has left in between (executor.rs, the loop over layers).
THEOREM RowsAreRead == Spec => []RowsRead
<1>1. PipelineInv => RowsRead
  <2> SUFFICES ASSUME PipelineInv, Undisturbed, NEW u \in 0..pos
               PROVE  /\ attn_out.k[u] = last_row[u] /\ attn_out.v[u] = last_row[u]
                      /\ Prefilling \/ u = pos => last_row[u] = [layer |-> layer, pos |-> u]
                      /\ ~Prefilling /\ prompt > 1 /\ u < prompt =>
                           last_row[u] = [layer |-> NumLayers - 1, pos |-> u]
    BY DEF RowsRead
  <2>1. HostInv /\ LoopInv /\ IsFor(attn_out, Now, last_row, failures) /\ at \in Attending
    BY DEF PipelineInv, OutputInv, Undisturbed, Attending
  <2>2. Now.pos = pos /\ pos \in Nat /\ prompt \in Nat
    BY <2>1, Sizes DEF Now
  <2>3. attn_out.k[u] = last_row[u] /\ attn_out.v[u] = last_row[u]
    BY <2>1, <2>2 DEF IsFor, Undisturbed
  <2>4. last_row[pos] = [layer |-> layer, pos |-> pos]
    BY <2>1 DEF LoopInv, Now
  <2>5. u # pos => u \in 0..(pos - 1)
    BY <2>2
  <2>6. u < prompt => u \in 0..(prompt - 1)
    BY <2>2
  <2> QED
    BY <2>1, <2>3, <2>4, <2>5, <2>6 DEF LoopInv
<1> QED
  BY <1>1, PipelineInvariant, PTL

\* Nothing is freed that a queued operation will touch, unless a wait has failed
\* (the Drop of PerLayerGpuState and of GpuStreamManager).
THEOREM DrainedBeforeFreed == Spec => []FreedOnlyWhenDrained
<1>1. PipelineInv => FreedOnlyWhenDrained
  <2> SUFFICES ASSUME PipelineInv, at # "over_undrained" PROVE FreedOnlyWhenDrained
    BY DEF FreedOnlyWhenDrained
  <2>1. HeldInv
    BY DEF PipelineInv
  <2>2. CASE at \in Running
    BY <2>1, <2>2 DEF HeldInv, FreedOnlyWhenDrained, First
  <2>3. CASE at \notin Running
    BY <2>1, <2>3 DEF HeldInv, FreedOnlyWhenDrained
  <2> QED
    BY <2>2, <2>3
<1> QED
  BY <1>1, PipelineInvariant, PTL

\* A generation gives back what it took from the device, but for what a set-up
\* that fails halfway leaves (GpuStreamManager::new, PerLayerGpuState).
THEOREM Released == Spec => []ReleasedAtEnd
<1>1. PipelineInv => ReleasedAtEnd
  BY DEF PipelineInv, HeldInv, ReleasedAtEnd
<1> QED
  BY <1>1, PipelineInvariant, PTL
=============================================================================
