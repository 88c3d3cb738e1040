---- MODULE Generation ----
(***************************************************************************)
(* One request's forward passes: ModelExecutor::generate and prefill_batch *)
(* (swamp-engine/src/executor.rs) with ops::attention, over the request's  *)
(* own PagedKVCache.  CPU build (the gpu feature is off by default).       *)
(*                                                                         *)
(* The numbers a pass computes are abstracted to where they come from: the *)
(* K and V rows of a token are known by the position the token was rotated *)
(* for, so attention at a position can be asked whose rows it reads.  What *)
(* is generated goes to the client through a bounded channel.  Which       *)
(* layers run is up to the generation's own PolicyEngine, whose script may *)
(* be edited at any time.                                                  *)
(***************************************************************************)
EXTENDS PagedKVCache, PolicyEngine

CONSTANTS
  MaxPrompt,        \* bound: tokens in the prompt
  MaxNew,           \* bound: the request's max_tokens
  ReloadPeriod      \* steps between looks at the policy file (10 in the code)

VARIABLES
  prompt_len, max_tokens,    \* the request
  at,                        \* where generate is
  layer, t, step,            \* its loop counters
  profiled,                  \* the profiler has a layer to report
  tokens_generated,
  delivered,                 \* tokens the channel has accepted
  queued,                    \* messages in the channel
  closed,                    \* the receiver is gone
  holes                      \* history: the (layer, position) pairs skipped

request == <<prompt_len, max_tokens>>
channel == <<delivered, queued, closed>>
exec    == <<request, at, layer, t, step, policy_vars, profiled, tokens_generated, channel, holes>>
gvars   == <<vars, exec>>

NumLayers == Cardinality(Layers)

ASSUME GenerationAssumption ==
  /\ NumLayers \in Nat \ {0} /\ Layers = 0 .. NumLayers - 1
  /\ Positions \subseteq Tokens
  /\ MaxPrompt \in Nat \ {0}
  /\ MaxNew \in Nat
  /\ ReloadPeriod \in Nat \ {0}
  /\ \A s \in Scripts : s.defines = Undefined \/ s.defines \subseteq Layers

\* The positions of a generation, and one page more, fit in the bound.
ASSUME RoomAssumption == page_id(MaxPrompt + MaxNew) < MaxPages

GInit ==
  /\ Init
  /\ prompt_len \in 1 .. MaxPrompt
  /\ max_tokens \in 0 .. MaxNew
  /\ at = IF prompt_len > 1 THEN "prefill_save" ELSE "loop"
  /\ layer = 0
  /\ t = 0
  /\ step = 0
  /\ PolicyInit
  /\ profiled = FALSE
  /\ tokens_generated = 0
  /\ delivered = 0
  /\ queued = 0
  /\ closed = FALSE
  /\ holes = {}

\* Variant: no room for the token of a request that asks for none.
Capacity_TokensOnly == max_tokens

\* mpsc::channel(body.max_tokens + 1)
Capacity == max_tokens + 1

GTypeOK ==
  /\ TypeOK
  /\ prompt_len \in 1 .. MaxPrompt
  /\ max_tokens \in 0 .. MaxNew
  /\ at \in {"prefill_save", "prefill_warm", "prefill_heat", "prefill_attend",
             "prefill_send", "loop", "layer", "warm", "heat", "attend",
             "heading", "report", "summary", "done", "failed", "panicked"}
  /\ layer \in 0 .. NumLayers
  /\ t \in 0 .. MaxPrompt - 1
  /\ step \in 0 .. MaxPrompt + MaxNew
  /\ PolicyTypeOK
  /\ profiled \in BOOLEAN
  /\ tokens_generated \in 0 .. MaxNew + 1
  /\ delivered \in 0 .. MaxNew + 1
  /\ queued \in 0 .. Capacity
  /\ closed \in BOOLEAN
  /\ holes \subseteq Layers \X (0 .. MaxPrompt + MaxNew)

----------------------------------------------------------------------------
(* What attention reads: the rows of positions 0..valid_end of one layer.  *)

seq_len      == IF at = "prefill_attend" THEN t + 1 ELSE current_pos + 1
q_pos        == IF at = "prefill_attend" THEN t ELSE step
ValidEnd(q, n) == IF q < n - 1 THEN q ELSE n - 1
PagesRead    == 0 .. page_id(ValidEnd(q_pos, seq_len))

\* The assertion in k_page_ptr and v_page_ptr.
ReadsColdPage == \E p \in PagesRead : k_pages[p] = Null

Attending == at \in {"prefill_attend", "attend"} /\ call.pc = "idle"

----------------------------------------------------------------------------
(* Prefill: every layer saves the whole prompt, then attends per position. *)

\* Variant: one position too many.
MorePrompt_OneTooMany == t < prompt_len

MorePrompt == t + 1 < prompt_len

PrefillSave ==
  /\ at = "prefill_save" /\ PolicyIdle
  /\ SaveAt(layer, t, t)
  /\ IF MorePrompt
     THEN t' = t + 1 /\ UNCHANGED at
     ELSE t' = 0 /\ at' = "prefill_warm"
  /\ UNCHANGED <<request, layer, step, policy_vars, profiled, tokens_generated, channel, holes>>

\* ensure_pages_hot by prefill_batch, one position further than is read.
PrefillWarm ==
  /\ at = "prefill_warm"
  /\ EnsurePagesHot(0, page_id(t + 1))
  /\ at' = "prefill_heat"
  /\ UNCHANGED <<request, layer, t, step, policy_vars, profiled, tokens_generated, channel, holes>>

\* ensure_pages_hot by ops::attention itself.
PrefillHeat ==
  /\ at = "prefill_heat"
  /\ EnsurePagesHot(0, page_id(ValidEnd(t, t + 1)))
  /\ at' = "prefill_attend"
  /\ UNCHANGED <<request, layer, t, step, policy_vars, profiled, tokens_generated, channel, holes>>

PrefillAttend ==
  /\ at = "prefill_attend"
  /\ call.pc = "idle"
  /\ \/ /\ ReadsColdPage
        /\ at' = "panicked"
        /\ UNCHANGED <<layer, t>>
     \/ /\ ~ReadsColdPage /\ MorePrompt
        /\ at' = "prefill_warm" /\ t' = t + 1
        /\ UNCHANGED layer
     \/ /\ ~ReadsColdPage /\ ~MorePrompt
        /\ layer' = layer + 1 /\ t' = 0
        /\ at' = IF layer + 1 < NumLayers THEN "prefill_save" ELSE "prefill_send"
  /\ UNCHANGED <<vars, request, step, policy_vars, profiled, tokens_generated, channel, holes>>

\* Variant: the cache stays one position behind the loop counter.
PositionAfterPrefill_Behind == current_pos + prompt_len - 1

PositionAfterPrefill == current_pos + prompt_len

\* A message enters the channel when there is room, or is refused by a closed
\* one; blocking_send waits otherwise.
CanSend == closed \/ queued < Capacity
Send    == CanSend /\ queued' = IF closed THEN queued ELSE queued + 1

\* The first new token is sent whatever max_tokens says and whether or not the
\* channel takes it; the cache position moves past the prompt.
PrefillSend ==
  /\ at = "prefill_send"
  /\ Send
  /\ delivered' = IF closed THEN delivered ELSE delivered + 1
  /\ tokens_generated' = tokens_generated + 1
  /\ current_pos' = PositionAfterPrefill
  /\ step' = prompt_len
  /\ at' = "loop"
  /\ UNCHANGED <<pages, lru, hot_count, cold_file, call, request, layer, t, policy_vars, profiled,
                 closed, holes>>

----------------------------------------------------------------------------
(* Decode: one step per token.                                             *)

\* Variant: one step per token and per prompt token.
total_steps_OneMore == max_tokens + prompt_len

total_steps == max_tokens + prompt_len - 1

\* Past the last token: the profile is sent if there is one, and a summary.
Trailer == IF profiled THEN "heading" ELSE "summary"

\* A look at the policy file: other layers may be skipped from here on.
LoopHead ==
  /\ at = "loop" /\ PolicyIdle
  /\ IF step < total_steps
     THEN /\ at' = "layer"
          /\ layer' = 0
          /\ IF step % ReloadPeriod = 0 THEN TryReload ELSE UNCHANGED policy_pc
     ELSE at' = Trailer /\ UNCHANGED <<layer, policy_pc>>
  /\ UNCHANGED <<vars, request, t, step, file, script_path, last_load, globals, text, loaded,
                 unseen, profiled, tokens_generated, channel, holes>>

\* Variant: the loop goes on before it has counted the layer.
SkipLayer_Uncounted ==
  /\ at = "layer" /\ PolicyIdle /\ layer < NumLayers /\ layer \in skipped
  /\ holes' = holes \cup {<<layer, step>>}
  /\ UNCHANGED <<vars, request, at, layer, t, step, policy_vars, profiled, tokens_generated, channel>>

SkipLayer ==
  /\ at = "layer" /\ PolicyIdle /\ layer < NumLayers /\ layer \in skipped
  /\ layer' = layer + 1
  /\ holes' = holes \cup {<<layer, step>>}
  /\ UNCHANGED <<vars, request, at, t, step, policy_vars, profiled, tokens_generated, channel>>

\* The rows are rotated for position step and saved at the cache's position.
DecodeSave ==
  /\ at = "layer" /\ PolicyIdle /\ layer < NumLayers /\ layer \notin skipped
  /\ Save(layer, step)
  /\ at' = "warm"
  /\ UNCHANGED <<request, layer, t, step, policy_vars, profiled, tokens_generated, channel, holes>>

DecodeWarm ==
  /\ at = "warm"
  /\ EnsurePagesHot(0, page_id(current_pos + 1))
  /\ at' = "heat"
  /\ UNCHANGED <<request, layer, t, step, policy_vars, profiled, tokens_generated, channel, holes>>

DecodeHeat ==
  /\ at = "heat"
  /\ EnsurePagesHot(0, page_id(ValidEnd(step, current_pos + 1)))
  /\ at' = "attend"
  /\ UNCHANGED <<request, layer, t, step, policy_vars, profiled, tokens_generated, channel, holes>>

\* Attention, the layer's feed-forward, and its end in the profile.
DecodeAttend ==
  /\ at = "attend"
  /\ call.pc = "idle"
  /\ \/ ReadsColdPage /\ at' = "panicked" /\ UNCHANGED <<layer, profiled>>
     \/ ~ReadsColdPage /\ at' = "layer" /\ layer' = layer + 1 /\ profiled' = TRUE
  /\ UNCHANGED <<vars, request, t, step, policy_vars, tokens_generated, channel, holes>>

\* A token is sampled once the prompt is in the cache; a closed channel ends
\* the loop.
EndOfLayers == at = "layer" /\ layer = NumLayers
Sampling    == EndOfLayers /\ step >= prompt_len - 1

SendToken ==
  /\ Sampling
  /\ ~closed
  /\ Send
  /\ tokens_generated' = tokens_generated + 1
  /\ delivered' = delivered + 1
  /\ current_pos' = current_pos + 1
  /\ step' = step + 1
  /\ at' = "loop"
  /\ UNCHANGED <<pages, lru, hot_count, cold_file, call, request, layer, t, policy_vars, profiled,
                 closed, holes>>

\* Variant: a refused token is tried again.
SendFails_Retried == Sampling /\ closed /\ UNCHANGED gvars

SendFails ==
  /\ Sampling
  /\ closed
  /\ at' = Trailer
  /\ UNCHANGED <<vars, request, layer, t, step, policy_vars, profiled, tokens_generated, channel,
                 holes>>

\* A tensor is missing or of a type no kernel reads: prefill_batch unwraps,
\* generate returns the error.
ForwardFails ==
  /\ call.pc = "idle" /\ PolicyIdle
  /\ \/ at = "prefill_save" /\ t = 0 /\ at' = "panicked"
     \/ at = "prefill_attend" /\ ~MorePrompt /\ ~ReadsColdPage /\ at' = "panicked"
     \/ at \in {"prefill_send", "layer"} /\ layer \notin skipped /\ at' = "failed"
     \/ at = "attend" /\ ~ReadsColdPage /\ at' = "failed"
  /\ UNCHANGED <<vars, request, layer, t, step, policy_vars, profiled, tokens_generated, channel,
                 holes>>

SendTrailer ==
  /\ at \in {"heading", "report", "summary"}
  /\ Send
  /\ at' = IF at = "heading" THEN "report" ELSE IF at = "report" THEN "summary" ELSE "done"
  /\ UNCHANGED <<vars, request, layer, t, step, policy_vars, profiled, tokens_generated, delivered,
                 closed, holes>>

----------------------------------------------------------------------------

\* The handler takes a message, or is dropped with its receiver.
Receive ==
  /\ ~closed /\ queued > 0
  /\ queued' = queued - 1
  /\ UNCHANGED <<vars, request, at, layer, t, step, policy_vars, profiled, tokens_generated,
                 delivered, closed, holes>>

Close ==
  /\ ~closed
  /\ closed' = TRUE
  /\ queued' = 0
  /\ UNCHANGED <<vars, request, at, layer, t, step, policy_vars, profiled, tokens_generated,
                 delivered, holes>>

Over == at \in {"done", "failed", "panicked"}

CacheStep == Step /\ UNCHANGED exec

OtherThanPolicy == <<vars, request, at, layer, t, step, profiled, tokens_generated, channel, holes>>

LoadPolicy == PolicyStep /\ UNCHANGED OtherThanPolicy

\* Nothing but the engine looks at the file, and only at a loop head or in the
\* middle of a load: an edit at any other time is one of just before the look.
EditPolicy ==
  /\ script_path
  /\ (at = "loop" /\ step % ReloadPeriod = 0) \/ ~PolicyIdle
  /\ Edit
  /\ UNCHANGED OtherThanPolicy

Execute ==
  \/ PrefillSave
  \/ PrefillWarm
  \/ PrefillHeat
  \/ PrefillAttend
  \/ PrefillSend
  \/ LoopHead
  \/ SkipLayer
  \/ DecodeSave
  \/ DecodeWarm
  \/ DecodeHeat
  \/ DecodeAttend
  \/ SendToken
  \/ SendFails
  \/ SendTrailer
  \/ CacheStep
  \/ LoadPolicy

Finished == Over /\ UNCHANGED gvars

GNext == Execute \/ ForwardFails \/ EditPolicy \/ Receive \/ Close \/ Finished

\* spawn_blocking runs the closure to its end.  Nobody has to read or to leave:
\* axum polls the stream of /generate-stream only while its client takes the
\* data, and no timeout ends a send that waits.
GSpec == GInit /\ [][GNext]_gvars /\ WF_gvars(Execute)

----------------------------------------------------------------------------
(* Properties.                                                             *)

\* When attention reads pages, every page up to its last valid position is in
\* memory: "Pre-heat all pages that attention will touch" (ops.rs), so that
\* the assertion in k_page_ptr cannot fire in a worker thread.
AttentionPagesHot == Attending => ~ReadsColdPage

\* What position u holds: its own row, unless the layer was skipped there.
Row(half, l, u) == IF <<l, u>> \in holes THEN Zero ELSE <<half, u>>

\* Attention at a position reads, for every position up to its own and no
\* other, the K and V rows that were rotated for that position: the loop
\* counter that drives RoPE and the cache position that drives the save stay
\* equal across prefill, the hand-over to decode and every decode step, and
\* no eviction in between loses or ages a row.  Where the policy skipped the
\* layer, and a reload has it run again, attention reads the zeros the page
\* was allocated with.
AttentionReadsHistory ==
  (Attending /\ ~ReadsColdPage) =>
    /\ ValidEnd(q_pos, seq_len) = q_pos
    /\ \A u \in 0 .. q_pos :
         /\ k_pages[page_id(u)][<<layer, slot_in_page(u)>>] = Row("k", layer, u)
         /\ v_pages[page_id(u)][<<layer, slot_in_page(u)>>] = Row("v", layer, u)

\* A generation nobody abandons delivers exactly max_tokens tokens (prefill
\* makes it at least one for a prompt of several), and counts what it has
\* delivered.
TokenBudget ==
  (at \in {"summary", "done"} /\ ~closed) =>
    /\ delivered = tokens_generated
    /\ delivered = IF prompt_len > 1 /\ max_tokens = 0 THEN 1 ELSE max_tokens

\* The channel is sized so that no token waits for the reader, however slow:
\* only the profile and the summary that follow the tokens can.
TokensNeverWait == at = "prefill_send" \/ Sampling => CanSend

\* The send of a trailer waits for a reader who neither reads nor leaves.
AwaitsReader ==
  /\ at \in {"heading", "report", "summary"}
  /\ ~closed /\ queued = Capacity

\* Every generation ends, which releases the blocking thread and the channel's
\* sender, however slowly it is read, whoever leaves it and whatever becomes of
\* the script - unless its stream is held open and never read again: then it
\* waits for good, but only with all its tokens sent, in the trailer, where
\* blocking_send has no timeout.
EndsUnlessUnread == <>[](Over \/ AwaitsReader)

\* How far a generation is from its end, the coarsest first: prefill and decode;
\* steps; layers (the head of a step comes before them all); the positions of a
\* prefill, saved and then attended to; the places of one pass, or of the
\* trailer; the load of the policy; the call of the cache.
PhasesLeft ==
  CASE at \in {"prefill_save", "prefill_warm", "prefill_heat", "prefill_attend",
              "prefill_send"} -> 2
    [] at \in {"loop", "layer", "warm", "heat", "attend"} -> 1
    [] OTHER -> 0

StepsAhead == IF PhasesLeft = 1 THEN prompt_len + max_tokens - step ELSE 0

LayersLeft == IF at = "loop" THEN NumLayers + 1 ELSE NumLayers - layer

PositionsLeft ==
  CASE at = "prefill_save" -> 2 * prompt_len - t
    [] at \in {"prefill_warm", "prefill_heat", "prefill_attend"} -> prompt_len - t
    [] OTHER -> 0

PlacesLeft ==
  CASE at = "layer" -> 4
    [] at \in {"prefill_warm", "warm", "heading"} -> 3
    [] at \in {"prefill_heat", "heat", "report"} -> 2
    [] at \in {"prefill_attend", "attend", "summary"} -> 1
    [] OTHER -> 0

LoadLeft ==
  CASE policy_pc = "stat" -> 4
    [] policy_pc \in {"new_read", "read"} -> 3
    [] policy_pc \in {"new_exec", "exec"} -> 2
    [] policy_pc \in {"new_stamp", "stamp"} -> 1
    [] OTHER -> 0

Remaining ==
  <<PhasesLeft, StepsAhead, LayersLeft, PositionsLeft, PlacesLeft, LoadLeft, StepsLeft>>

\* The order of words in a dictionary.
Below(a, b) == \E i \in DOMAIN a : a[i] < b[i] /\ \A j \in 1 .. i - 1 : a[j] = b[j]

\* Everything the engine does brings the generation nearer its end, and nothing
\* its client or the owner of the script does takes it back: no reload, layer
\* skipped, page evicted or token refused makes it do again what it has done.
\* What is left is naturals in the order of a dictionary, so that there is an
\* end to it.
GenerationAdvances ==
  [][IF Execute \/ ForwardFails THEN Below(Remaining', Remaining)
     ELSE Remaining' = Remaining]_gvars
====
