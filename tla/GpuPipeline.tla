---------------------------- MODULE GpuPipeline ----------------------------
(***************************************************************************)
(* The attention of one generation on the GPU (feature gpu):               *)
(* GpuStreamManager and PerLayerGpuState (swamp-engine/src/scheduler.rs),  *)
(* the calls of swamp-gpu/src/lib.rs they make, and the places of          *)
(* executor.rs that drive them.                                            *)
(*                                                                         *)
(* A stream is a queue the device works off in order, the two streams      *)
(* independently of each other.  A row of K or V is known by the layer and *)
(* the position it was computed for, and so is a query.  Host vectors are  *)
(* pageable, so a copy to the device takes its bytes before it returns.    *)
(* Any call may fail, MaxFailures of them in a behaviour.                  *)
(*                                                                         *)
(* One generation has the device to itself.  Several would share           *)
(* g_half_staging (swamp-gpu/kernels/fused_attention.cu), the one buffer   *)
(* of the process through which the copy streams of all of them pass their *)
(* rows, without a lock or an event: within one stream, as here, each copy *)
(* is through with it before the next.                                     *)
(***************************************************************************)
EXTENDS Naturals, Sequences, FiniteSets

CONSTANTS
    NumLayers,
    MaxPrompt,      \* bound: tokens of the prompt
    MaxDecoded,     \* bound: positions after prefill
    MaxFailures,    \* bound: calls that fail
    Unset           \* what a buffer holds before anything is copied to it

ASSUME PipelineAssumption ==
    /\ NumLayers \in Nat \ {0}
    /\ MaxPrompt \in Nat \ {0}
    /\ {MaxDecoded, MaxFailures} \subseteq Nat

VARIABLES
    prompt,         \* tokens of the prompt
    at,             \* where the host is
    layer, pos,     \* the loops' counters: the attention to run next, or running
    copy_stream,    \* queued operations
    compute_stream,
    d_k_buf, d_v_buf, d_q, d_out,   \* device memory
    attn_out,       \* the host's output vector
    graph_cache,    \* the lengths a graph has been recorded for
    held,           \* device objects created and not released
    failures,
    last_row        \* history: position -> the row whose attention ran there last

device == <<copy_stream, compute_stream, d_k_buf, d_v_buf, d_q, d_out>>
loops  == <<layer, pos, last_row>>
host   == <<prompt, at, loops, attn_out, graph_cache, held, failures>>
vars   == <<device, host>>

MaxPos == MaxPrompt + MaxDecoded
Row    == [layer : 0..(NumLayers - 1), pos : 0..(MaxPos - 1)]

Now        == [layer |-> layer, pos |-> pos]
seq_len    == pos + 1

\* A prompt of one token has no prefill.
Prefilling == prompt > 1 /\ pos < prompt
LastPos    == (IF prompt = 1 THEN 0 ELSE prompt) + MaxDecoded

Init ==
    /\ prompt \in 1..MaxPrompt
    /\ at = "stream_new"
    /\ layer = 0 /\ pos = 0
    /\ copy_stream = <<>> /\ compute_stream = <<>>
    /\ d_k_buf = [u \in 0..(MaxPos - 1) |-> Unset]
    /\ d_v_buf = [u \in 0..(MaxPos - 1) |-> Unset]
    /\ d_q = Unset /\ d_out = Unset /\ attn_out = Unset
    /\ graph_cache = {}
    /\ held = {}
    /\ failures = 0
    /\ last_row = [u \in 0..(MaxPos - 1) |-> Unset]

\* A call of swamp-gpu returns Ok, or an error: no library, a null pointer or
\* a return code.
Fails == failures < MaxFailures /\ failures' = failures + 1
Works == UNCHANGED failures
-----------------------------------------------------------------------------
(* Setting up: streams, buffers, the context, then K and V.                *)

StreamManagerNeeds == <<"compute_stream", "copy_stream", "d_q", "d_out">>

\* GpuStreamManager::new: ok()? leaves with what has been made so far, which
\* no destructor knows of.
StreamNew ==
    /\ at = "stream_new"
    /\ \E n \in 0..Len(StreamManagerNeeds) :
         /\ held' = {StreamManagerNeeds[m] : m \in 1..n}
         /\ IF n = Len(StreamManagerNeeds)
            THEN Works /\ at' = "gpu_init"
            ELSE Fails /\ at' = "over"
    /\ UNCHANGED <<device, prompt, loops, attn_out, graph_cache>>

\* gpu_init comes after the streams.  If it fails, or a buffer of K or V does,
\* the manager is dropped and attention is left to the CPU.
GpuInit ==
    /\ at = "gpu_init"
    /\ \/ Works /\ at' = "alloc_k"
       \/ Fails /\ at' = "drop_manager"
    /\ UNCHANGED <<device, prompt, loops, attn_out, graph_cache, held>>

\* A device without memory for K may have none for V either, which is one failure.
StillNoMemory == at = "alloc_v" /\ "d_k_buf" \notin held

Alloc(buf) ==
    /\ \/ Works /\ held' = held \cup {buf}
       \/ Fails /\ UNCHANGED held
       \/ StillNoMemory /\ Works /\ UNCHANGED held
    /\ UNCHANGED <<device, prompt, loops, attn_out, graph_cache>>

AllocK == at = "alloc_k" /\ Alloc("d_k_buf") /\ at' = "alloc_v"
AllocV ==
    /\ at = "alloc_v" /\ Alloc("d_v_buf")
    /\ at' = IF {"d_k_buf", "d_v_buf"} \subseteq held' THEN "begin" ELSE "drop_manager"
-----------------------------------------------------------------------------
(* One attention: execute_attention_async, then sync.                      *)

\* Variant: the query goes by the copy stream, to overlap with it.
QueryStream_Copy == "copy"

QueryStream == "compute"

Enqueue(stream, op) ==
    IF stream = "copy"
    THEN copy_stream' = Append(copy_stream, op) /\ UNCHANGED compute_stream
    ELSE compute_stream' = Append(compute_stream, op) /\ UNCHANGED copy_stream

\* The first call that fails ends execute_attention_async with what it has
\* queued before still in flight.  Prefill looks at no result and waits for the
\* compute stream all the same.
GivenUp == IF Prefilling THEN "sync_anyway" ELSE "gave_up"

Issue(place, next, stream, op) ==
    /\ at = place
    /\ \/ Works /\ Enqueue(stream, op) /\ at' = next
       \/ Fails /\ at' = GivenUp /\ UNCHANGED <<copy_stream, compute_stream>>
    /\ UNCHANGED <<d_k_buf, d_v_buf, d_q, d_out, prompt, loops, attn_out,
                   graph_cache, held>>

Begin ==
    /\ at = "begin" /\ pos < LastPos
    /\ at' = "copy_k"
    /\ last_row' = [last_row EXCEPT ![pos] = Now]
    /\ UNCHANGED <<device, prompt, layer, pos, attn_out, graph_cache, held, failures>>

DecodeOrder ==
    IF layer + 1 < NumLayers THEN layer' = layer + 1 /\ UNCHANGED pos
    ELSE layer' = 0 /\ pos' = pos + 1

\* Variant: prefill goes position by position, as decode does.
Advance_ByPosition == DecodeOrder

\* The prompt goes layer by layer, every later token through all layers.
Advance ==
    IF ~Prefilling THEN DecodeOrder
    ELSE IF pos + 1 < prompt THEN pos' = pos + 1 /\ UNCHANGED layer
    ELSE IF layer + 1 < NumLayers THEN layer' = layer + 1 /\ pos' = 0
    ELSE layer' = 0 /\ pos' = prompt

\* should_skip_layer: the script may skip any layer at any position of decode,
\* and none of prefill.
SkipLayer ==
    /\ at = "begin" /\ pos < LastPos /\ ~Prefilling
    /\ Advance
    /\ UNCHANGED <<device, prompt, at, attn_out, graph_cache, held, failures, last_row>>

\* The work is done; or a tensor is missing, which unwinds prefill between two
\* layers and ends decode anywhere, or the channel is closed.
Leave ==
    /\ at = "begin" /\ (Prefilling => pos = 0)
    /\ at' = "drop"
    /\ UNCHANGED <<device, prompt, loops, attn_out, graph_cache, held, failures>>

CopyK == Issue("copy_k", "copy_v", "copy", [op |-> "k", row |-> Now])
CopyV == Issue("copy_v", "copy_q", "copy", [op |-> "v", row |-> Now])
CopyQ == Issue("copy_q", "scores", QueryStream, [op |-> "q", row |-> Now])

\* One buffer of scores for the longest sequence, at the first launch.
EnsureScores ==
    /\ at = "scores"
    /\ \/ Works /\ held' = held \cup {"d_scores"} /\ at' = "graph"
       \/ Fails /\ "d_scores" \notin held /\ at' = GivenUp /\ UNCHANGED held
    /\ UNCHANGED <<device, prompt, loops, attn_out, graph_cache>>

\* A graph is recorded once per length; if it cannot be, or its replay fails,
\* the kernel is launched without.
GetOrCreateGraph ==
    /\ at = "graph"
    /\ \/ Works /\ graph_cache' = graph_cache \cup {seq_len} /\ at' = "replay"
       \/ Fails /\ seq_len \notin graph_cache /\ at' = "launch" /\ UNCHANGED graph_cache
    /\ UNCHANGED <<device, prompt, loops, attn_out, held>>

Attention == [op |-> "attend", row |-> Now]

ReplayGraph ==
    /\ at = "replay"
    /\ \/ Works /\ Enqueue("compute", Attention) /\ at' = "copy_out"
       \/ Fails /\ at' = "launch" /\ UNCHANGED <<copy_stream, compute_stream>>
    /\ UNCHANGED <<d_k_buf, d_v_buf, d_q, d_out, prompt, loops, attn_out,
                   graph_cache, held>>

LaunchAttention == Issue("launch", "copy_out", "compute", Attention)
CopyOutput      == Issue("copy_out", "sync", "compute", [op |-> "out", row |-> Now])

\* sync waits for the compute stream alone; after a call that failed, prefill
\* still makes this one.
Sync ==
    /\ at \in {"sync", "sync_anyway"}
    /\ \/ Works /\ compute_stream = <<>>
          /\ at' = IF at = "sync" THEN "synced" ELSE "gave_up"
       \/ Fails /\ at' = "gave_up"
    /\ UNCHANGED <<device, prompt, loops, attn_out, graph_cache, held>>

\* Decode leaves an attention the GPU gave up to the CPU.
AfterAttention ==
    /\ at \in {"synced", "gave_up"}
    /\ attn_out' = IF at = "gave_up" /\ ~Prefilling THEN Unset ELSE attn_out
    /\ Advance
    /\ at' = "begin"
    /\ UNCHANGED <<device, prompt, graph_cache, held, failures, last_row>>
-----------------------------------------------------------------------------
(* The device.                                                             *)

\* What the kernel reads: the rows of all positions up to its own.
Attend(row) ==
    [query |-> d_q,
     k |-> [u \in 0..row.pos |-> d_k_buf[u]],
     v |-> [u \in 0..row.pos |-> d_v_buf[u]],
     outrun |-> copy_stream # <<>>]

Execute(s) ==
    /\ s # <<>>
    /\ d_k_buf'  = IF s[1].op = "k" THEN [d_k_buf EXCEPT ![s[1].row.pos] = s[1].row] ELSE d_k_buf
    /\ d_v_buf'  = IF s[1].op = "v" THEN [d_v_buf EXCEPT ![s[1].row.pos] = s[1].row] ELSE d_v_buf
    /\ d_q'      = IF s[1].op = "q" THEN s[1].row ELSE d_q
    /\ d_out'    = IF s[1].op = "attend" THEN Attend(s[1].row) ELSE d_out
    /\ attn_out' = IF s[1].op = "out" THEN d_out ELSE attn_out

RunCopy ==
    /\ Execute(copy_stream)
    /\ copy_stream' = Tail(copy_stream)
    /\ UNCHANGED <<compute_stream, prompt, at, loops, graph_cache, held, failures>>

RunCompute ==
    /\ Execute(compute_stream)
    /\ compute_stream' = Tail(compute_stream)
    /\ UNCHANGED <<copy_stream, prompt, at, loops, graph_cache, held, failures>>
-----------------------------------------------------------------------------
(* The end of the generation: the drops, in the order of the fields.       *)

\* Variant: the copies are not waited for.
Drained_ComputeOnly == compute_stream = <<>>

Drained == copy_stream = <<>> /\ compute_stream = <<>>

\* A wait that fails is ignored, and the memory freed under what is queued.
DropState ==
    /\ at = "drop"
    /\ \/ Works /\ Drained /\ at' = "drop_manager"
       \/ Fails /\ at' = IF Drained THEN "drop_manager" ELSE "over_undrained"
    /\ held' = held \ {"d_k_buf", "d_v_buf"}
    /\ UNCHANGED <<device, prompt, loops, attn_out, graph_cache>>

\* Variant: only what new() has made.
ManagerOwns_AtFirst == {"compute_stream", "copy_stream", "d_q", "d_out"}

ManagerOwns == {"compute_stream", "copy_stream", "d_q", "d_out", "d_scores"}

DropManager ==
    /\ at = "drop_manager"
    /\ Drained
    /\ held' = held \ ManagerOwns
    /\ graph_cache' = {}
    /\ at' = "over"
    /\ UNCHANGED <<device, prompt, loops, attn_out, failures>>

Over == at \in {"over", "over_undrained"} /\ UNCHANGED vars

Host ==
    \/ StreamNew \/ GpuInit \/ AllocK \/ AllocV
    \/ Begin \/ SkipLayer \/ Leave
    \/ CopyK \/ CopyV \/ CopyQ
    \/ EnsureScores \/ GetOrCreateGraph \/ ReplayGraph \/ LaunchAttention
    \/ CopyOutput \/ Sync \/ AfterAttention
    \/ DropState \/ DropManager

Next == Host \/ RunCopy \/ RunCompute \/ Over

Spec == Init /\ [][Next]_vars

-----------------------------------------------------------------------------
Rows == Row \cup {Unset}
Objects == ManagerOwns \cup {"d_k_buf", "d_v_buf"}

\* An output, by the rows up to n that it was computed from.
Output(n) == [query : Rows, k : [0..n -> Rows], v : [0..n -> Rows], outrun : BOOLEAN]

ASSUME UnsetAssumption == \A n \in 0..(MaxPos - 1) : Unset \notin Output(n)

IsOutput(o) == o = Unset \/ \E n \in 0..(MaxPos - 1) : o \in Output(n)

\* Streams carry only operations of their kind on positions the buffers have.
TypeOK ==
    /\ prompt \in 1..MaxPrompt
    /\ layer \in 0..(NumLayers - 1) /\ pos \in 0..MaxPos
    /\ last_row \in [0..(MaxPos - 1) -> Rows]
    /\ \A n \in DOMAIN copy_stream : copy_stream[n] \in [op : {"k", "v"}, row : Row]
    /\ \A n \in DOMAIN compute_stream :
          compute_stream[n] \in [op : {"q", "attend", "out"}, row : Row]
    /\ d_k_buf \in [0..(MaxPos - 1) -> Rows]
    /\ d_v_buf \in [0..(MaxPos - 1) -> Rows]
    /\ d_q \in Rows
    /\ IsOutput(d_out) /\ IsOutput(attn_out)
    /\ graph_cache \subseteq 1..MaxPos
    /\ held \subseteq Objects
    /\ failures \in 0..MaxFailures

\* When sync reports success the host holds the attention of this very query
\* over as many rows as it asked for: copy of the query, kernel and copy of the
\* result need no event because they share a stream ("These are ordered by
\* stream semantics", scheduler.rs:269), whatever of earlier attentions was
\* given up halfway and is still queued.
SyncedOutputIsForTheQuery ==
    at = "synced" =>
        attn_out # Unset /\ attn_out.query = Now /\ DOMAIN attn_out.k = 0..pos

\* No call has failed, and the kernel did not outrun the copies, which nothing
\* but luck prevents.
Undisturbed == at = "synced" /\ failures = 0 /\ ~attn_out.outrun

\* Which rows that attention has then read.  One buffer of K and one of V serve
\* all layers, so a position holds what the last layer that ran there has left,
\* and nothing if the policy skipped them all.  In prefill that is the row of
\* the layer itself.  In decode it is at the current position only: of the prompt
\* every layer reads the last layer's rows, and of the positions decoded before
\* those of the last layer that was not skipped there.
RowsRead ==
    Undisturbed =>
        \A u \in 0..pos :
            /\ attn_out.k[u] = last_row[u] /\ attn_out.v[u] = last_row[u]
            /\ Prefilling \/ u = pos => last_row[u] = [layer |-> layer, pos |-> u]
            /\ ~Prefilling /\ prompt > 1 /\ u < prompt =>
                 last_row[u] = [layer |-> NumLayers - 1, pos |-> u]

\* "Run GPU attention for one layer" (scheduler.rs:244), and "orchestrates one
\* layer's GPU attention execution" (scheduler.rs:224): of a prompt, every
\* position of which every layer has run for, attention reads the layer's rows.
OwnLayerRead ==
    Undisturbed /\ prompt > 1 =>
        \A u \in 0..(prompt - 1) \cap 0..pos :
            attn_out.k[u] = [layer |-> layer, pos |-> u]

\* Nothing is freed that a queued operation will touch, unless a wait has failed.
FreedOnlyWhenDrained ==
    at # "over_undrained" =>
        /\ copy_stream # <<>> => {"d_k_buf", "d_v_buf", "copy_stream"} \subseteq held
        /\ compute_stream # <<>> =>
             {"d_k_buf", "d_v_buf", "d_q", "d_out", "compute_stream"} \subseteq held

\* A generation gives back all it took from the device; only a set-up that
\* fails halfway leaves something: a part of the manager, or one of K and V.
ReleasedAtEnd ==
    at = "over" =>
        \/ held = {}
        \/ \E n \in 1..3 : held = {StreamManagerNeeds[m] : m \in 1..n}
        \/ held \in {{"d_k_buf"}, {"d_v_buf"}}
=============================================================================
