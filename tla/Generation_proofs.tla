---- MODULE Generation_proofs ----
(***************************************************************************)
(* For any prompt, any number of new tokens, any layers, pages, memory     *)
(* limit and policy scripts: a generation delivers the tokens it was asked *)
(* for, never waits to send one, notices the edits of its policy, its      *)
(* attention reads the rows of exactly the positions up to its own, and    *)
(* every step it takes brings it nearer to its end.                        *)
(*                                                                         *)
(* The first part does not use what the cache does: its actions stay       *)
(* folded, and only the variables of the executor, of the channel and of   *)
(* the policy engine are looked at.  The second part, from Passed on, uses *)
(* the cache through the lemmas of PagedKVCache_proofs.                    *)
(***************************************************************************)
EXTENDS Generation, PagedKVCache_proofs, TLAPS

Prefilling == {"prefill_save", "prefill_warm", "prefill_heat", "prefill_attend", "prefill_send"}
Stepping   == {"layer", "warm", "heat", "attend"}
Trailing   == {"heading", "report", "summary", "done"}
Ended      == {"failed", "panicked"}

CountTypes ==
  /\ prompt_len \in Nat \ {0} /\ max_tokens \in Nat
  /\ at \in Prefilling \cup Stepping \cup Trailing \cup Ended \cup {"loop"}
  /\ step \in Nat
  /\ tokens_generated \in Nat /\ delivered \in Nat /\ queued \in Nat
  /\ closed \in BOOLEAN

\* What was generated is where the loop counter stands.
Counted ==
  /\ step >= prompt_len - 1
  /\ prompt_len > 1 => step >= prompt_len
  /\ tokens_generated = step - prompt_len + 1
  /\ step <= total_steps \/ (prompt_len > 1 /\ max_tokens = 0 /\ step = prompt_len)

\* No token is delivered twice or dropped; while tokens are sent the channel
\* holds no more than were delivered.
CountInv ==
  /\ CountTypes
  /\ ~closed => delivered = tokens_generated
  /\ at \in Prefilling =>
       prompt_len > 1 /\ delivered = 0 /\ queued = 0 /\ tokens_generated = 0
  /\ at \in Stepping \cup {"loop"} => Counted /\ queued <= delivered
  /\ at \in Stepping => step < total_steps
  /\ at \in Trailing /\ ~closed => Counted /\ step >= total_steps

\* A request begins with nothing sent.
LEMMA CountInit == GInit => CountInv
<1> SUFFICES ASSUME GInit PROVE CountInv
  OBVIOUS
<1>1. /\ prompt_len \in Nat \ {0} /\ max_tokens \in Nat
      /\ step = 0 /\ tokens_generated = 0 /\ delivered = 0 /\ queued = 0 /\ closed = FALSE
      /\ at = IF prompt_len > 1 THEN "prefill_save" ELSE "loop"
  BY GenerationAssumption DEF GInit
<1>2. CASE prompt_len > 1
  <2>1. at = "prefill_save"
    BY <1>1, <1>2
  <2>2. CountTypes
    BY <1>1, <2>1 DEF CountTypes, Prefilling
  <2>3. at \notin Stepping \cup {"loop"} /\ at \notin Trailing
    BY <2>1 DEF Stepping, Trailing
  <2> QED
    BY <1>1, <1>2, <2>2, <2>3 DEF CountInv
<1>3. CASE ~(prompt_len > 1)
  <2>1. prompt_len = 1 /\ at = "loop" /\ total_steps = max_tokens
    BY <1>1, <1>3 DEF total_steps
  <2>2. CountTypes
    BY <1>1, <2>1 DEF CountTypes
  <2>3. at \notin Prefilling /\ at \notin Stepping /\ at \notin Trailing
    BY <2>1 DEF Prefilling, Stepping, Trailing
  <2>4. Counted
    BY <1>1, <2>1 DEF Counted
  <2> QED
    BY <1>1, <2>2, <2>3, <2>4 DEF CountInv
<1> QED
  BY <1>2, <1>3

\* Within a phase nothing is counted.
LEMMA SamePhase ==
  ASSUME CountInv, UNCHANGED <<prompt_len, max_tokens, step, tokens_generated, delivered, queued, closed>>,
         \/ at' = at
         \/ at \in Prefilling /\ at' \in Prefilling
         \/ at \in Stepping /\ at' \in Stepping
         \/ at' \in Ended
         \/ at = "loop" /\ at' \in Stepping /\ step < total_steps
         \/ at \in Stepping \cup {"loop"} /\ at' \in Trailing /\ (closed \/ step >= total_steps)
  PROVE  CountInv'
  BY DEF CountInv, CountTypes, Counted, total_steps, Prefilling, Stepping, Trailing, Ended

\* Each step of the generation.
LEMMA CountKept == CountInv /\ [GNext]_gvars => CountInv'
<1> SUFFICES ASSUME CountInv, [GNext]_gvars PROVE CountInv'
  OBVIOUS
<1> USE DEF request, channel
<1>1. CASE PrefillSave \/ PrefillWarm \/ PrefillHeat \/ PrefillAttend
  <2>1. /\ at \in Prefilling /\ at' \in Prefilling \cup Ended
        /\ UNCHANGED <<prompt_len, max_tokens, step, tokens_generated, delivered, queued, closed>>
    BY <1>1 DEF PrefillSave, PrefillWarm, PrefillHeat, PrefillAttend, Prefilling, Ended
  <2> QED
    BY <2>1, SamePhase
<1>2. CASE PrefillSend
  <2>1. /\ at = "prefill_send" /\ at' = "loop" /\ step' = prompt_len
        /\ tokens_generated' = tokens_generated + 1
        /\ delivered' = IF closed THEN delivered ELSE delivered + 1
        /\ queued' = IF closed THEN queued ELSE queued + 1
        /\ UNCHANGED <<prompt_len, max_tokens, closed>>
    BY <1>2 DEF PrefillSend, Send
  <2> QED
    BY <2>1 DEF CountInv, CountTypes, Counted, total_steps, Prefilling, Stepping, Trailing, Ended
<1>3. CASE LoopHead
  <2>1. /\ at = "loop"
        /\ UNCHANGED <<prompt_len, max_tokens, step, tokens_generated, delivered, queued, closed>>
        /\ \/ step < total_steps /\ at' = "layer"
           \/ ~(step < total_steps) /\ at' \in {"heading", "summary"}
    BY <1>3 DEF LoopHead, Trailer
  <2>2. step \in Nat /\ total_steps \in Int
    BY DEF CountInv, CountTypes, total_steps
  <2> QED
    BY <2>1, <2>2, SamePhase DEF Stepping, Trailing
<1>4. CASE SkipLayer \/ DecodeSave \/ DecodeWarm \/ DecodeHeat \/ DecodeAttend
  <2>1. /\ at \in Stepping /\ at' \in Stepping \cup Ended
        /\ UNCHANGED <<prompt_len, max_tokens, step, tokens_generated, delivered, queued, closed>>
    BY <1>4 DEF SkipLayer, DecodeSave, DecodeWarm, DecodeHeat, DecodeAttend, Stepping, Ended
  <2> QED
    BY <2>1, SamePhase
<1>5. CASE SendToken
  <2>1. /\ at = "layer" /\ at' = "loop" /\ step' = step + 1 /\ ~closed
        /\ tokens_generated' = tokens_generated + 1 /\ delivered' = delivered + 1
        /\ queued' = queued + 1
        /\ UNCHANGED <<prompt_len, max_tokens, closed>>
    BY <1>5 DEF SendToken, Sampling, EndOfLayers, Send
  <2> QED
    BY <2>1 DEF CountInv, CountTypes, Counted, total_steps, Prefilling, Stepping, Trailing, Ended
<1>6. CASE SendFails
  <2>1. /\ at = "layer" /\ closed /\ at' \in Trailing
        /\ UNCHANGED <<prompt_len, max_tokens, step, tokens_generated, delivered, queued, closed>>
    BY <1>6 DEF SendFails, Sampling, EndOfLayers, Trailer, Trailing
  <2> QED
    BY <2>1, SamePhase DEF Stepping
<1>7. CASE ForwardFails
  <2>1. /\ at' \in Ended
        /\ UNCHANGED <<prompt_len, max_tokens, step, tokens_generated, delivered, queued, closed>>
    BY <1>7 DEF ForwardFails, Ended
  <2> QED
    BY <2>1, SamePhase
<1>8. CASE SendTrailer
  <2>1. /\ at \in {"heading", "report", "summary"} /\ at' \in Trailing
        /\ queued' = IF closed THEN queued ELSE queued + 1
        /\ UNCHANGED <<prompt_len, max_tokens, step, tokens_generated, delivered, closed>>
    BY <1>8 DEF SendTrailer, Send, Trailing
  <2> QED
    BY <2>1 DEF CountInv, CountTypes, Counted, total_steps, Prefilling, Stepping, Trailing, Ended
<1>9. CASE Receive
  <2>1. /\ queued > 0 /\ queued' = queued - 1
        /\ UNCHANGED <<prompt_len, max_tokens, at, step, tokens_generated, delivered, closed>>
    BY <1>9 DEF Receive
  <2> QED
    BY <2>1 DEF CountInv, CountTypes, Counted, total_steps, Prefilling, Stepping, Trailing, Ended
<1>10. CASE Close
  <2>1. /\ queued' = 0 /\ closed' = TRUE
        /\ UNCHANGED <<prompt_len, max_tokens, at, step, tokens_generated, delivered>>
    BY <1>10 DEF Close
  <2> QED
    BY <2>1 DEF CountInv, CountTypes, Counted, total_steps, Prefilling, Stepping, Trailing, Ended
<1>11. CASE CacheStep \/ LoadPolicy \/ EditPolicy \/ UNCHANGED gvars
  <2>1. UNCHANGED <<prompt_len, max_tokens, at, step, tokens_generated, delivered, queued, closed>>
    BY <1>11 DEF CacheStep, LoadPolicy, EditPolicy, OtherThanPolicy, gvars, exec
  <2> QED
    BY <2>1, SamePhase
<1> QED
  BY <1>1, <1>2, <1>3, <1>4, <1>5, <1>6, <1>7, <1>8, <1>9, <1>10, <1>11
     DEF GNext, Execute, Finished

\* A generation nobody abandons delivers exactly the tokens it was asked for
\* (one, when a prompt of several asks for none).
THEOREM BudgetKept == GSpec => []TokenBudget
<1>1. CountInv => TokenBudget
  BY DEF CountInv, CountTypes, Counted, total_steps, TokenBudget, Trailing
<1> QED
  BY <1>1, CountInit, CountKept, PTL DEF GSpec

\* The channel of max_tokens + 1 messages has room whenever a token is sent.
THEOREM NoTokenWaits == GSpec => []TokensNeverWait
<1>1. CountInv => TokensNeverWait
  BY DEF CountInv, CountTypes, Counted, total_steps, TokensNeverWait, CanSend, Capacity, Sampling,
         EndOfLayers, Prefilling, Stepping
<1> QED
  BY <1>1, CountInit, CountKept, PTL DEF GSpec

----------------------------------------------------------------------------

\* The script in force, or the next look finds it.
Noticed ==
  \/ mtime > last_load
  \/ /\ script = loaded
     /\ script.defines # Undefined => globals = script.defines

\* The engine in the middle of a load: it has read the script there is, if no
\* edit since is hidden; it looks again after one that fails.
NoticeInv ==
  /\ mtime \in Nat /\ last_load \in Nat
  /\ policy_pc \in {"new_read", "new_exec", "new_stamp", "idle", "stat", "read", "exec", "stamp"}
  /\ policy_pc \in {"idle", "stat"} /\ script_path /\ ~unseen => Noticed
  /\ policy_pc \in {"read", "exec"} => mtime > last_load
  /\ policy_pc \in {"new_exec", "exec", "new_stamp", "stamp"} /\ ~unseen => text = script
  /\ policy_pc \in {"new_stamp", "stamp"} =>
       loaded = text /\ (text.defines # Undefined => globals = text.defines)

\* The policy engine stays in step with its file.
LEMMA NoticeKept == NoticeInv /\ [GNext]_gvars => NoticeInv'
<1> SUFFICES ASSUME NoticeInv, [GNext]_gvars PROVE NoticeInv'
  OBVIOUS
<1> USE DEF file, engine
<1>1. CASE Stat
  BY <1>1 DEF Stat, Reloads, NoticeInv, Noticed
<1>2. CASE Read
  BY <1>2 DEF Read, NoticeInv, Noticed
<1>3. CASE Exec
  <2>1. CASE text.raises = "never"
    <3>1. /\ UNCHANGED <<script, mtime, last_load, text, unseen>> /\ loaded' = text
          /\ policy_pc' \in {"stamp", "new_stamp"} /\ policy_pc \in {"new_exec", "exec"}
      BY <1>3, <2>1 DEF Exec
    <3>2. text.defines # Undefined => globals' = text.defines
      BY <1>3, <2>1 DEF Exec, Assigns
    <3>3. ~unseen => text = script
      BY <3>1 DEF NoticeInv
    <3> QED
      BY <3>1, <3>2, <3>3 DEF NoticeInv
  <2>2. CASE text.raises # "never"
    <3>1. /\ UNCHANGED <<script, mtime, last_load, text, loaded, unseen>>
          /\ policy_pc' = "idle" /\ policy_pc \in {"new_exec", "exec"}
      BY <1>3, <2>2 DEF Exec, AfterFailure
    <3>2. script_path' => policy_pc = "exec"
      BY <1>3, <2>2, Zenon DEF Exec
    <3> QED
      BY <3>1, <3>2 DEF NoticeInv, Noticed
  <2> QED
    BY <2>1, <2>2
<1>4. CASE Stamp
  BY <1>4 DEF Stamp, NoticeInv, Noticed
<1>5. CASE Edit
  <2>1. mtime' \in {mtime, mtime + 1}
        /\ UNCHANGED <<script_path, last_load, globals, policy_pc, text, loaded>>
    BY <1>5 DEF Edit
  <2>2. ~unseen' => /\ ~(mtime' <= last_load)
                    /\ policy_pc \notin {"new_exec", "new_stamp", "exec", "stamp"}
    BY <1>5, Zenon DEF Edit
  <2>3. mtime' \in Nat /\ mtime' >= mtime /\ (~unseen' => mtime' > last_load)
    BY <2>1, <2>2 DEF NoticeInv
  <2> QED
    BY <2>1, <2>2, <2>3 DEF NoticeInv, Noticed
<1>6. CASE LoopHead
  <2>1. /\ policy_pc = "idle" /\ policy_pc' \in {"idle", "stat"}
        /\ UNCHANGED <<script, mtime, script_path, last_load, globals, text, loaded, unseen>>
    BY <1>6 DEF LoopHead, TryReload, PolicyIdle
  <2> QED
    BY <2>1 DEF NoticeInv, Noticed
<1>7. CASE UNCHANGED policy_vars
  BY <1>7 DEF policy_vars, NoticeInv, Noticed
<1>8. \/ Stat \/ Read \/ Exec \/ Stamp \/ Edit \/ LoopHead \/ UNCHANGED policy_vars
  BY DEF GNext, Execute, PrefillSave, PrefillWarm, PrefillHeat, PrefillAttend, PrefillSend,
         SkipLayer, DecodeSave, DecodeWarm, DecodeHeat, DecodeAttend, SendToken, SendFails,
         ForwardFails, SendTrailer, Receive, Close, Finished, CacheStep, LoadPolicy, PolicyStep,
         EditPolicy, gvars, exec
<1> QED
  BY <1>1, <1>2, <1>3, <1>4, <1>5, <1>6, <1>7, <1>8

\* Between looks, an engine with a path has the script in force or will reload
\* it, for any scripts and any number of edits the mtime can tell.
THEOREM EditsNoticed == GSpec => []EditsAreNoticed
<1>1. GInit => NoticeInv
  BY DEF GInit, PolicyInit, NoticeInv
<1>2. NoticeInv => EditsAreNoticed
  BY DEF NoticeInv, Noticed, EditsAreNoticed, PolicyIdle
<1> QED
  BY <1>1, <1>2, NoticeKept, PTL DEF GSpec

----------------------------------------------------------------------------
(* Where a generation is.                                                  *)

Prefilled == {"prefill_warm", "prefill_heat", "prefill_attend"}
Attended  == {"warm", "heat", "attend"}
Working   == Prefilling \cup Stepping \cup {"loop"}

\* The position and the layer that the rows saved so far go up to.
Passed(l, u) ==
  \/ at = "prefill_save" /\ u < prompt_len /\ (l < layer \/ (l = layer /\ u < t))
  \/ at \in Prefilled /\ u < prompt_len /\ l <= layer
  \/ at = "prefill_send" /\ u < prompt_len
  \/ at = "loop" /\ u < step
  \/ at = "layer" /\ (u < step \/ (u = step /\ l < layer))
  \/ at \in Attended /\ (u < step \/ (u = step /\ l <= layer))

\* The cache's position is the loop counter; the counters stay in the prompt,
\* the layers and the request.
Placed ==
  /\ prompt_len \in 1 .. MaxPrompt /\ max_tokens \in 0 .. MaxNew
  /\ layer \in 0 .. NumLayers
  /\ t \in 0 .. MaxPrompt - 1
  /\ step \in 0 .. MaxPrompt + MaxNew
  /\ at \in Prefilling => current_pos = 0 /\ t < prompt_len /\ holes = {}
  /\ at \in Prefilled \cup Attended \cup {"prefill_save"} => layer < NumLayers
  /\ at = "prefill_send" => layer = NumLayers
  /\ at \in Stepping \cup {"loop"} => current_pos = step
  /\ holes \subseteq Layers \X (0 .. MaxPrompt + MaxNew)
  /\ at \in Working => \A l \in Layers, u \in Nat : <<l, u>> \in holes => Passed(l, u)

\* The positions of a generation are positions of the cache.
LEMMA RoomFor ==
  ASSUME NEW pos \in 0 .. MaxPrompt + MaxNew
  PROVE  pos \in Positions /\ page_id(pos) \in Pages /\ page_id(pos) \in 0 .. MaxPages - 1
<1>1. pos \in Nat /\ MaxPrompt + MaxNew \in Nat /\ pos <= MaxPrompt + MaxNew
  BY GenerationAssumption
<1>2. page_id(pos) \in Pages
  BY <1>1, LaterPage, RoomAssumption, SizesAssumption DEF Pages
<1>3. pos % BlockSize \in Slots /\ pos = BlockSize * page_id(pos) + (pos % BlockSize)
  BY <1>1, DivMod, SizesAssumption DEF page_id, Slots
<1> QED
  BY <1>2, <1>3, SlotIsPosition DEF Pages

\* A generation begins at its first position.
LEMMA PlacedInit == GInit => Placed
<1> SUFFICES ASSUME GInit PROVE Placed
  OBVIOUS
<1>1. MaxPrompt \in Nat \ {0} /\ MaxNew \in Nat /\ NumLayers \in Nat \ {0}
  BY GenerationAssumption
<1>2. /\ prompt_len \in 1 .. MaxPrompt /\ max_tokens \in 0 .. MaxNew
      /\ layer = 0 /\ t = 0 /\ step = 0 /\ holes = {} /\ current_pos = 0
      /\ at \in {"prefill_save", "loop"}
  BY DEF GInit, Init
<1> HIDE DEF NumLayers
<1> QED
  BY <1>1, <1>2 DEF Placed, Prefilling, Prefilled, Attended, Stepping

\* The counters, and with them what has been passed, do not move.
LEMMA SamePlace ==
  ASSUME Placed, UNCHANGED <<prompt_len, max_tokens, layer, t, step, current_pos, holes, at>>
  PROVE  Placed'
  BY DEF Placed, Passed

\* The generation has ended, or is past its last token.
LEMMA PlacedAtEnd ==
  ASSUME Placed, UNCHANGED <<prompt_len, max_tokens, layer, t, step, holes>>,
         at' \in Trailing \cup Ended
  PROVE  Placed'
  BY DEF Placed, Prefilling, Prefilled, Attended, Stepping, Working, Trailing, Ended

\* Each step of the generation.
LEMMA PlacedKept == CountInv /\ Placed /\ [GNext]_gvars => Placed'
<1> SUFFICES ASSUME CountInv, Placed, [GNext]_gvars PROVE Placed'
  OBVIOUS
<1> USE DEF request, channel, exec
<1>1. /\ MaxPrompt \in Nat \ {0} /\ MaxNew \in Nat /\ NumLayers \in Nat \ {0}
      /\ Layers = 0 .. NumLayers - 1
  BY GenerationAssumption
<1> HIDE DEF NumLayers
<1> DEFINE P == Placed
<1>2. /\ prompt_len \in Nat \ {0} /\ prompt_len <= MaxPrompt /\ max_tokens \in Nat /\ max_tokens <= MaxNew
      /\ layer \in Nat /\ layer <= NumLayers /\ t \in Nat /\ step \in Nat
  BY <1>1 DEF Placed
<1>3. CASE PrefillSave
  <2>1. /\ at = "prefill_save" /\ current_pos' = current_pos
        /\ UNCHANGED <<prompt_len, max_tokens, layer, step, holes>>
        /\ \/ t + 1 < prompt_len /\ t' = t + 1 /\ at' = at
           \/ ~ (t + 1 < prompt_len) /\ t' = 0 /\ at' = "prefill_warm"
    BY <1>3 DEF PrefillSave, SaveAt, BeginSave, MorePrompt
  <2> QED
    BY <1>1, <1>2, <2>1 DEF Placed, Prefilling, Prefilled, Attended, Stepping
<1>4. CASE PrefillWarm \/ PrefillHeat
  <2>1. /\ at \in Prefilled /\ at' \in Prefilled
        /\ UNCHANGED <<prompt_len, max_tokens, layer, t, step, holes, current_pos>>
    BY <1>4 DEF PrefillWarm, PrefillHeat, EnsurePagesHot, Prefilled
  <2> QED
    BY <1>1, <1>2, <2>1 DEF Placed, Prefilling, Prefilled, Attended, Stepping
<1>5. CASE PrefillAttend
  <2>1. /\ at = "prefill_attend"
        /\ UNCHANGED <<prompt_len, max_tokens, step, holes, current_pos>>
        /\ \/ at' = "panicked" /\ UNCHANGED <<layer, t>>
           \/ t + 1 < prompt_len /\ at' = "prefill_warm" /\ t' = t + 1 /\ layer' = layer
           \/ /\ layer' = layer + 1 /\ t' = 0
              /\ at' = IF layer + 1 < NumLayers THEN "prefill_save" ELSE "prefill_send"
    BY <1>5 DEF PrefillAttend, MorePrompt, vars
  <2>2. CASE at' = "panicked" /\ UNCHANGED <<layer, t>>
    BY <2>1, <2>2, PlacedAtEnd DEF Ended
  <2>3. CASE t + 1 < prompt_len /\ at' = "prefill_warm" /\ t' = t + 1 /\ layer' = layer
    BY <1>1, <1>2, <2>1, <2>3 DEF Placed, Prefilling, Prefilled, Attended, Stepping
  <2>4. CASE /\ layer' = layer + 1 /\ t' = 0
             /\ at' = IF layer + 1 < NumLayers THEN "prefill_save" ELSE "prefill_send"
    BY <1>1, <1>2, <2>1, <2>4 DEF Placed, Prefilling, Prefilled, Attended, Stepping
  <2> QED
    BY <2>1, <2>2, <2>3, <2>4
<1>6. CASE PrefillSend
  <2>1. /\ at = "prefill_send" /\ at' = "loop" /\ step' = prompt_len
        /\ current_pos' = current_pos + prompt_len
        /\ UNCHANGED <<prompt_len, max_tokens, layer, t, holes>>
    BY <1>6 DEF PrefillSend, PositionAfterPrefill
  <2> QED
    BY <1>1, <1>2, <2>1 DEF Placed, Prefilling, Prefilled, Attended, Stepping
<1>7. CASE LoopHead
  <2>1. /\ at = "loop"
        /\ UNCHANGED <<prompt_len, max_tokens, t, step, holes, current_pos>>
        /\ \/ at' = "layer" /\ layer' = 0
           \/ at' \in Trailing /\ layer' = layer
    BY <1>7 DEF LoopHead, vars, Trailer, Trailing
  <2>2. CASE at' = "layer" /\ layer' = 0
    BY <1>1, <1>2, <2>1, <2>2 DEF Placed, Passed, Prefilling, Prefilled, Attended, Stepping, Working
  <2> QED
    BY <2>1, <2>2, PlacedAtEnd
<1>8. CASE SkipLayer
  <2>1. /\ at = "layer" /\ at' = at /\ layer < NumLayers /\ layer' = layer + 1
        /\ holes' = holes \cup {<<layer, step>>}
        /\ UNCHANGED <<prompt_len, max_tokens, t, step, current_pos>>
    BY <1>8 DEF SkipLayer, vars
  <2>2. layer \in Layers /\ <<layer, step>> \in Layers \X (0 .. MaxPrompt + MaxNew)
    BY <1>1, <1>2, <2>1 DEF Placed
  <2>3. ASSUME NEW l \in Layers, NEW u \in Nat, <<l, u>> \in holes' PROVE Passed(l, u)'
    <3>1. CASE <<l, u>> = <<layer, step>>
      BY <1>1, <1>2, <2>1, <3>1 DEF Passed
    <3>2. CASE <<l, u>> # <<layer, step>>
      <4>1. <<l, u>> \in holes /\ Passed(l, u)
        BY <2>1, <2>3, <3>2 DEF Placed, Working, Stepping
      <4> QED
        BY <1>1, <1>2, <2>1, <4>1 DEF Passed, Prefilled, Attended
    <3> QED
      BY <3>1, <3>2
  <2> QED
    BY <1>1, <1>2, <2>1, <2>2, <2>3 DEF Placed, Prefilling, Prefilled, Attended, Stepping
<1>9. CASE DecodeSave \/ DecodeWarm \/ DecodeHeat
  <2>1. /\ at \in {"layer", "warm", "heat"} /\ at' \in Attended
        /\ at = "layer" => layer < NumLayers
        /\ UNCHANGED <<prompt_len, max_tokens, layer, t, step, holes, current_pos>>
    BY <1>9 DEF DecodeSave, DecodeWarm, DecodeHeat, Save, BeginSave, EnsurePagesHot, Attended
  <2>2. \A l \in Layers, u \in Nat : Passed(l, u) => Passed(l, u)'
    BY <1>1, <1>2, <2>1 DEF Passed, Prefilled, Attended
  <2> QED
    BY <1>1, <1>2, <2>1, <2>2 DEF Placed, Prefilling, Prefilled, Attended, Stepping, Working
<1>10. CASE DecodeAttend
  <2>1. /\ at = "attend"
        /\ UNCHANGED <<prompt_len, max_tokens, t, step, holes, current_pos>>
        /\ \/ at' = "panicked" /\ layer' = layer
           \/ at' = "layer" /\ layer' = layer + 1
    BY <1>10 DEF DecodeAttend, vars
  <2>2. CASE at' = "panicked" /\ layer' = layer
    BY <2>1, <2>2, PlacedAtEnd DEF Ended
  <2>3. CASE at' = "layer" /\ layer' = layer + 1
    <3>1. \A l \in Layers, u \in Nat : Passed(l, u) => Passed(l, u)'
      BY <1>1, <1>2, <2>1, <2>3 DEF Passed, Prefilled, Attended
    <3> QED
      BY <1>1, <1>2, <2>1, <2>3, <3>1 DEF Placed, Prefilling, Prefilled, Attended, Stepping, Working
  <2> QED
    BY <2>1, <2>2, <2>3
<1>11. CASE SendToken
  <2>1. /\ at = "layer" /\ at' = "loop" /\ step' = step + 1 /\ current_pos' = current_pos + 1
        /\ layer = NumLayers
        /\ UNCHANGED <<prompt_len, max_tokens, layer, t, holes>>
    BY <1>11 DEF SendToken, Sampling, EndOfLayers
  <2>2. step + 1 <= MaxPrompt + MaxNew
    BY <1>1, <1>2, <2>1 DEF CountInv, total_steps, Stepping
  <2>3. \A l \in Layers, u \in Nat : Passed(l, u) => Passed(l, u)'
    BY <1>1, <1>2, <2>1 DEF Passed, Prefilled, Attended
  <2> QED
    BY <1>1, <1>2, <2>1, <2>2, <2>3 DEF Placed, Prefilling, Prefilled, Attended, Stepping, Working
<1>12. CASE SendFails \/ ForwardFails \/ SendTrailer
  <2>1. /\ at' \in Trailing \cup Ended
        /\ UNCHANGED <<prompt_len, max_tokens, layer, t, step, holes>>
    BY <1>12 DEF SendFails, ForwardFails, SendTrailer, Trailer, Trailing, Ended
  <2> QED
    BY <2>1, PlacedAtEnd
<1>13. CASE CacheStep \/ LoadPolicy \/ EditPolicy \/ Receive \/ Close \/ UNCHANGED gvars
  <2>1. UNCHANGED <<prompt_len, max_tokens, layer, t, step, holes, at, current_pos>>
    <3>1. CASE CacheStep
      BY <3>1 DEF CacheStep, Step, EvictOnePage, AllocHotPage, ReloadColdPage, TouchPage, CopyRows
    <3> QED
      BY <1>13, <3>1 DEF LoadPolicy, EditPolicy, Receive, Close, OtherThanPolicy, gvars, vars
  <2> QED
    BY <2>1, SamePlace
<1> QED
  BY <1>3, <1>4, <1>5, <1>6, <1>7, <1>8, <1>9, <1>10, <1>11, <1>12, <1>13
     DEF GNext, Execute, Finished

----------------------------------------------------------------------------
(* The cache under the generation.                                         *)

CacheInv == IInv /\ CallShape /\ RangeInv

\* A call of the generation is one the cache's client may make.
LEMMA GenerationIsClient ==
  ASSUME CountInv, Placed, [GNext]_gvars
  PROVE  \/ [Next]_vars
         \/ PrefillSend
         \/ SendToken
<1> USE DEF exec
<1>1. /\ MaxPrompt \in Nat \ {0} /\ MaxNew \in Nat /\ NumLayers \in Nat \ {0}
      /\ Layers = 0 .. NumLayers - 1 /\ Positions \subseteq Tokens
  BY GenerationAssumption
<1> HIDE DEF NumLayers
<1>2. /\ prompt_len \in Nat \ {0} /\ prompt_len <= MaxPrompt /\ max_tokens \in Nat /\ max_tokens <= MaxNew
      /\ layer \in Nat /\ layer <= NumLayers /\ t \in Nat /\ t <= MaxPrompt - 1
      /\ step \in Nat /\ step <= MaxPrompt + MaxNew
  BY <1>1 DEF Placed
<1>3. 0 \in Pages
  BY SizesAssumption DEF Pages
<1>4. ASSUME NEW pos \in 0 .. MaxPrompt + MaxNew, EnsurePagesHot(0, page_id(pos)) PROVE Client
  BY <1>3, <1>4, RoomFor DEF Client
<1>5. CASE PrefillSave
  <2>1. layer \in Layers /\ t \in Positions /\ t \in Tokens
    BY <1>1, <1>2, <1>5, RoomFor DEF PrefillSave, Placed
  <2> QED
    BY <1>5, <2>1 DEF PrefillSave, Client, Next
<1>6. CASE PrefillWarm
  BY <1>1, <1>2, <1>4, <1>6 DEF PrefillWarm, Next
<1>7. CASE PrefillHeat
  <2>1. ValidEnd(t, t + 1) = t
    BY <1>2 DEF ValidEnd
  <2> QED
    BY <1>1, <1>2, <1>4, <1>7, <2>1 DEF PrefillHeat, Next
<1>8. CASE DecodeSave
  <2>1. /\ layer \in Layers /\ step \in Tokens
        /\ current_pos = step
    BY <1>1, <1>2, <1>8, RoomFor DEF DecodeSave, Placed, Stepping
  <2> QED
    BY <1>8, <2>1 DEF DecodeSave, Client, Next
<1>9. CASE DecodeWarm \/ DecodeHeat
  <2>1. /\ current_pos = step /\ step < total_steps
    BY <1>9 DEF DecodeWarm, DecodeHeat, Placed, CountInv, Stepping
  <2>2. step + 1 <= MaxPrompt + MaxNew /\ ValidEnd(step, current_pos + 1) = step
    BY <1>1, <1>2, <2>1 DEF total_steps, ValidEnd
  <2>3. CASE DecodeWarm
    BY <1>1, <1>2, <1>4, <2>1, <2>2, <2>3 DEF DecodeWarm, Next
  <2>4. CASE DecodeHeat
    BY <1>1, <1>2, <1>4, <2>2, <2>4 DEF DecodeHeat, Next
  <2> QED
    BY <1>9, <2>3, <2>4
<1>10. CASE PrefillAttend \/ LoopHead \/ SkipLayer \/ DecodeAttend \/ SendFails \/ ForwardFails
            \/ SendTrailer \/ LoadPolicy \/ EditPolicy \/ Receive \/ Close \/ UNCHANGED gvars
  BY <1>10 DEF PrefillAttend, LoopHead, SkipLayer, DecodeAttend, SendFails, ForwardFails, SendTrailer,
               LoadPolicy, EditPolicy, Receive, Close, OtherThanPolicy, gvars
<1>11. CASE CacheStep
  BY <1>11 DEF CacheStep, Next
<1> QED
  BY <1>5, <1>6, <1>7, <1>8, <1>9, <1>10, <1>11 DEF GNext, Execute, Finished

\* So it keeps what the cache's own steps and its client's keep.
LEMMA CacheKept == CountInv /\ Placed /\ Placed' /\ CacheInv /\ [GNext]_gvars => CacheInv'
<1> SUFFICES ASSUME CountInv, Placed, Placed', CacheInv, [GNext]_gvars PROVE CacheInv'
  OBVIOUS
<1>1. CASE [Next]_vars
  <2>1. IInv' /\ CallShape'
    BY <1>1, NextKeepsInvariant, NextKeepsCallShape DEF CacheInv
  <2>2. RangeInv'
    <3>1. CASE UNCHANGED vars
      BY <3>1, SameCallKeepsRange DEF vars, CacheInv
    <3> QED
      BY <1>1, <3>1, ClientKeepsRange, StepKeepsRange DEF Next, CacheInv
  <2> QED
    BY <2>1, <2>2 DEF CacheInv
<1>2. CASE PrefillSend \/ SendToken
  <2>1. /\ UNCHANGED <<pages, lru, hot_count, cold_file, call>>
        /\ at' = "loop"
    BY <1>2 DEF PrefillSend, SendToken
  <2>2. current_pos' \in 0 .. MaxPages * BlockSize
    <3> DEFINE M == MaxPages * BlockSize
    <3>1. current_pos' = step' /\ step' \in 0 .. MaxPrompt + MaxNew
      BY <2>1 DEF Placed, Stepping
    <3>2. step' \in 0 .. M - 1
      BY <3>1, RoomFor DEF Positions
    <3>3. M \in Nat
      BY SizesAssumption
    <3> HIDE DEF M
    <3>4. step' \in 0 .. M
      BY <3>2, <3>3
    <3> QED
      BY <3>1, <3>4 DEF M
  <2>3. TypeOK' /\ CallPrepared' /\ CallShape'
    BY <2>1, <2>2 DEF CacheInv, IInv, TypeOK, pages, lru, CallPrepared, CallShape, MissingPage, ColdPage,
                      AtLimit, HotPages
  <2> QED
    BY <2>1, <2>3, SamePagesKeepInvariant, SameCallKeepsRange DEF CacheInv
<1> QED
  BY <1>1, <1>2, GenerationIsClient

----------------------------------------------------------------------------
(* What the cache holds.                                                   *)

ZeroRows == [k |-> Zero, v |-> Zero]

\* Every position passed holds its own rows, but for the layers skipped there;
\* the others hold what they were allocated with.
History ==
  at \in Working =>
    \A l \in Layers, u \in Positions :
      Promised[<<l, u>>] = IF Passed(l, u) /\ <<l, u>> \notin holes THEN SavedRows(u) ELSE ZeroRows

\* A save adds its position to what has been passed.
LEMMA SaveAddsToHistory ==
  ASSUME CallShape, History, at \in Working,
         NEW l0 \in Layers, NEW pos \in Positions, BeginSave(l0, pos, pos),
         holes' = holes, <<l0, pos>> \notin holes,
         \A l \in Layers, u \in Positions :
           Passed(l, u)' <=> (Passed(l, u) \/ (l = l0 /\ u = pos))
  PROVE  History'
<1>1. Promised' = [Promised EXCEPT ![<<l0, pos>>] = SavedRows(pos)]
  BY SavePromises
<1> DEFINE D == Layers \X Positions
<1>2. Promised = [c \in D |-> Promised[c]]
  <2>1. Stored = [c \in D |-> Stored[c]]
    BY DEF Stored
  <2> HIDE DEF D
  <2> QED
    BY <2>1 DEF Promised
<1> SUFFICES ASSUME NEW l \in Layers, NEW u \in Positions
             PROVE  Promised'[<<l, u>>] =
                      IF Passed(l, u)' /\ <<l, u>> \notin holes' THEN SavedRows(u) ELSE ZeroRows
  BY DEF History, SavedRows, ZeroRows
<1>3. <<l, u>> \in D /\ <<l0, pos>> \in D
  OBVIOUS
<1> HIDE DEF D
<1>4. CASE l = l0 /\ u = pos
  <2>1. Promised'[<<l, u>>] = SavedRows(u)
    BY <1>1, <1>2, <1>3, <1>4
  <2> QED
    BY <1>4, <2>1
<1>5. CASE ~ (l = l0 /\ u = pos)
  <2>1. Promised'[<<l, u>>] = Promised[<<l, u>>]
    BY <1>1, <1>2, <1>3, <1>5
  <2> QED
    BY <1>5, <2>1 DEF History
<1> QED
  BY <1>4, <1>5

\* What is promised stays, and so does what has been passed and not skipped.
LEMMA SameHistory ==
  ASSUME History, at \in Working, Promised' = Promised,
         \A l \in Layers, u \in Positions :
           (Passed(l, u)' /\ <<l, u>> \notin holes') <=> (Passed(l, u) /\ <<l, u>> \notin holes)
  PROVE  History'
  BY DEF History, SavedRows, ZeroRows

\* And with no row saved.
LEMMA HistoryInit == GInit => History
<1> SUFFICES ASSUME GInit PROVE History
  OBVIOUS
<1>1. Stored = [c \in Layers \X Tier!Positions |-> [k |-> Zero, v |-> Zero]]
  BY InitImplements DEF GInit, Tier!Init
<1>2. Tier!Positions = Positions /\ call.op # "save"
  BY DEF Tier!Positions, Positions, GInit, Init, Idle
<1>3. /\ prompt_len \in Nat \ {0} /\ layer = 0 /\ t = 0 /\ step = 0
      /\ at = IF prompt_len > 1 THEN "prefill_save" ELSE "loop"
  BY GenerationAssumption DEF GInit
<1>4. ASSUME NEW l \in Layers, NEW u \in Positions PROVE ~Passed(l, u)
  <2>1. l \in Nat /\ u \in Nat
    <3>1. NumLayers \in Nat /\ Layers = 0 .. NumLayers - 1
      BY GenerationAssumption
    <3> HIDE DEF NumLayers
    <3> QED
      BY <3>1 DEF Positions
  <2> QED
    BY <1>3, <2>1 DEF Passed, Prefilled, Attended
<1> QED
  BY <1>1, <1>2, <1>4 DEF History, Promised, ZeroRows

\* Each step of the generation.
LEMMA HistoryKept ==
  CountInv /\ Placed /\ CacheInv /\ History /\ [GNext]_gvars => History'
<1> SUFFICES ASSUME CountInv, Placed, CacheInv, History, [GNext]_gvars PROVE History'
  OBVIOUS
<1> USE DEF exec
<1>1. /\ MaxPrompt \in Nat \ {0} /\ MaxNew \in Nat /\ NumLayers \in Nat \ {0}
      /\ Layers = 0 .. NumLayers - 1
  BY GenerationAssumption
<1> HIDE DEF NumLayers
<1>2. /\ prompt_len \in Nat \ {0} /\ prompt_len <= MaxPrompt /\ max_tokens \in Nat
      /\ layer \in Nat /\ layer <= NumLayers /\ t \in Nat /\ step \in Nat
      /\ t \in 0 .. MaxPrompt + MaxNew /\ step \in 0 .. MaxPrompt + MaxNew
      /\ t \in Positions /\ step \in Positions
  BY <1>1, RoomFor DEF Placed
<1>3. /\ \A l \in Layers : l \in Nat /\ l < NumLayers
      /\ \A u \in Positions : u \in Nat
  BY <1>1 DEF Positions
<1>4. CallShape /\ IInv
  BY DEF CacheInv
<1>5. SUFFICES ASSUME at' \in Working PROVE History'
  BY DEF History
\* Nothing is saved, and what was passed stays so.
<1>6. ASSUME at \in Working, UNCHANGED holes, Promised' = Promised,
             \A l \in Layers, u \in Positions : Passed(l, u)' <=> Passed(l, u)
      PROVE  History'
  BY <1>6, SameHistory
<1>7. CASE PrefillSave
  <2>1. /\ at = "prefill_save" /\ BeginSave(layer, t, t) /\ layer < NumLayers /\ t < prompt_len
        /\ UNCHANGED <<prompt_len, layer, step, holes>> /\ holes = {}
        /\ \/ t + 1 < prompt_len /\ t' = t + 1 /\ at' = at
           \/ ~ (t + 1 < prompt_len) /\ t' = 0 /\ at' = "prefill_warm"
    BY <1>7 DEF PrefillSave, SaveAt, MorePrompt, Placed, Prefilling, request
  <2>2. layer \in Layers
    BY <1>1, <1>2, <2>1
  <2>3. \A l \in Layers, u \in Positions :
          Passed(l, u)' <=> (Passed(l, u) \/ (l = layer /\ u = t))
    BY <1>2, <1>3, <2>1 DEF Passed, Prefilled, Attended
  <2> QED
    BY <1>2, <1>4, <2>1, <2>2, <2>3, SaveAddsToHistory DEF Working, Prefilling
<1>8. CASE DecodeSave
  <2>1. /\ at = "layer" /\ at' = "warm" /\ BeginSave(layer, step, step) /\ layer < NumLayers
        /\ UNCHANGED <<prompt_len, t, layer, step, holes>>
    BY <1>8 DEF DecodeSave, Save, Placed, Stepping, request
  <2>2. layer \in Layers
    BY <1>1, <1>2, <2>1
  <2>3. \A l \in Layers, u \in Positions :
          Passed(l, u)' <=> (Passed(l, u) \/ (l = layer /\ u = step))
    BY <1>2, <1>3, <2>1 DEF Passed, Prefilled, Attended
  <2>4. <<layer, step>> \notin holes
    <3>1. ~Passed(layer, step)
      BY <1>2, <2>1 DEF Passed, Prefilled, Attended
    <3> QED
      BY <1>2, <2>1, <2>2, <3>1 DEF Placed, Working, Stepping
  <2> QED
    BY <1>2, <1>4, <2>1, <2>2, <2>3, <2>4, SaveAddsToHistory DEF Working, Stepping
<1>9. CASE PrefillWarm \/ PrefillHeat \/ DecodeWarm \/ DecodeHeat
  <2>1. Promised' = Promised
    BY <1>4, <1>9, EnsurePromisesNothing DEF PrefillWarm, PrefillHeat, DecodeWarm, DecodeHeat
  <2>2. /\ \/ at \in Prefilled /\ at' \in Prefilled
           \/ at \in Attended /\ at' \in Attended
        /\ UNCHANGED <<prompt_len, t, layer, step, holes>>
    BY <1>9 DEF PrefillWarm, PrefillHeat, DecodeWarm, DecodeHeat, Prefilled, Attended, request
  <2>3. \A l \in Layers, u \in Positions : Passed(l, u)' <=> Passed(l, u)
    BY <2>2 DEF Passed, Prefilled, Attended
  <2> QED
    BY <1>6, <2>1, <2>2, <2>3 DEF Working, Prefilling, Prefilled, Stepping, Attended
<1>10. ASSUME UNCHANGED <<pages, cold_file, call>> PROVE Promised' = Promised
  BY <1>10, SamePagesSameStored DEF Promised
<1>11. CASE PrefillAttend
  <2>1. /\ at = "prefill_attend" /\ Promised' = Promised /\ layer < NumLayers
        /\ UNCHANGED <<prompt_len, step, holes>>
        /\ \/ at' = "prefill_warm" /\ layer' = layer
           \/ layer + 1 < NumLayers /\ layer' = layer + 1 /\ t' = 0 /\ at' = "prefill_save"
           \/ ~(layer + 1 < NumLayers) /\ layer' = layer + 1 /\ at' = "prefill_send"
    BY <1>5, <1>10, <1>11
    DEF PrefillAttend, vars, Placed, Prefilled, request, Working, Prefilling, Stepping
  <2>2. ASSUME NEW l \in Layers, NEW u \in Positions PROVE Passed(l, u)' <=> Passed(l, u)
    <3>1. l \in Nat /\ l < NumLayers /\ u \in Nat
      BY <1>3
    <3>2. CASE at' = "prefill_warm" /\ layer' = layer
      BY <2>1, <3>2 DEF Passed, Prefilled, Attended
    <3>3. CASE layer + 1 < NumLayers /\ layer' = layer + 1 /\ t' = 0 /\ at' = "prefill_save"
      BY <1>2, <2>1, <3>1, <3>3 DEF Passed, Prefilled, Attended
    <3>4. CASE ~(layer + 1 < NumLayers) /\ layer' = layer + 1 /\ at' = "prefill_send"
      BY <1>1, <1>2, <2>1, <3>1, <3>4 DEF Passed, Prefilled, Attended
    <3> QED
      BY <2>1, <3>2, <3>3, <3>4
  <2> QED
    BY <1>6, <2>1, <2>2 DEF Working, Prefilling
<1>12. CASE PrefillSend
  <2>1. /\ at = "prefill_send" /\ at' = "loop" /\ step' = prompt_len /\ Promised' = Promised
        /\ holes' = holes
    BY <1>10, <1>12 DEF PrefillSend
  <2>2. \A l \in Layers, u \in Positions : Passed(l, u)' <=> Passed(l, u)
    BY <1>2, <1>3, <2>1 DEF Passed, Prefilled, Attended
  <2> QED
    BY <1>6, <2>1, <2>2 DEF Working, Prefilling
<1>13. CASE LoopHead
  <2>1. /\ at = "loop" /\ at' = "layer" /\ layer' = 0 /\ Promised' = Promised
        /\ UNCHANGED <<step, holes>>
    BY <1>5, <1>10, <1>13 DEF LoopHead, vars, Trailer, Working, Prefilling, Stepping
  <2>2. \A l \in Layers, u \in Positions : Passed(l, u)' <=> Passed(l, u)
    BY <1>2, <1>3, <2>1 DEF Passed, Prefilled, Attended
  <2> QED
    BY <1>6, <2>1, <2>2 DEF Working
<1>14. CASE SkipLayer
  <2>1. /\ at = "layer" /\ at' = at /\ layer' = layer + 1 /\ Promised' = Promised
        /\ holes' = holes \cup {<<layer, step>>} /\ step' = step
    BY <1>10, <1>14 DEF SkipLayer, vars
  <2>2. \A l \in Layers, u \in Positions :
          (Passed(l, u)' /\ <<l, u>> \notin holes') <=> (Passed(l, u) /\ <<l, u>> \notin holes)
    BY <1>2, <1>3, <2>1 DEF Passed, Prefilled, Attended
  <2> QED
    BY <2>1, <2>2, SameHistory DEF Working, Stepping
<1>15. CASE DecodeAttend
  <2>1. /\ at = "attend" /\ at' = "layer" /\ layer' = layer + 1 /\ Promised' = Promised
        /\ UNCHANGED <<step, holes>>
    BY <1>5, <1>10, <1>15 DEF DecodeAttend, vars, Working, Prefilling, Stepping
  <2>2. \A l \in Layers, u \in Positions : Passed(l, u)' <=> Passed(l, u)
    BY <1>2, <1>3, <2>1 DEF Passed, Prefilled, Attended
  <2> QED
    BY <1>6, <2>1, <2>2 DEF Working, Stepping
<1>16. CASE SendToken
  <2>1. /\ at = "layer" /\ at' = "loop" /\ step' = step + 1 /\ layer = NumLayers
        /\ Promised' = Promised /\ holes' = holes
    BY <1>10, <1>16 DEF SendToken, Sampling, EndOfLayers
  <2>2. \A l \in Layers, u \in Positions : Passed(l, u)' <=> Passed(l, u)
    BY <1>2, <1>3, <2>1 DEF Passed, Prefilled, Attended
  <2> QED
    BY <1>6, <2>1, <2>2 DEF Working, Stepping
<1>17. CASE SendFails \/ ForwardFails \/ SendTrailer
  <2>1. at' \in Trailing \cup Ended
    BY <1>17 DEF SendFails, ForwardFails, SendTrailer, Trailer, Trailing, Ended
  <2> QED
    BY <1>5, <2>1 DEF Trailing, Ended, Working, Prefilling, Stepping
<1>18. CASE CacheStep \/ LoadPolicy \/ EditPolicy \/ Receive \/ Close \/ UNCHANGED gvars
  <2>1. UNCHANGED <<prompt_len, layer, t, step, holes, at>>
    BY <1>18 DEF CacheStep, LoadPolicy, EditPolicy, Receive, Close, OtherThanPolicy, gvars, request
  <2>2. Promised' = Promised
    <3>1. CASE CacheStep
      BY <1>4, <3>1, StepKeepsPromise DEF CacheStep
    <3>2. CASE LoadPolicy \/ EditPolicy \/ Receive \/ Close \/ UNCHANGED gvars
      BY <1>10, <3>2 DEF LoadPolicy, EditPolicy, Receive, Close, OtherThanPolicy, gvars, vars
    <3> QED
      BY <1>18, <3>1, <3>2
  <2>3. \A l \in Layers, u \in Positions : Passed(l, u)' <=> Passed(l, u)
    BY <2>1 DEF Passed
  <2>4. at \in Working
    BY <1>5, <2>1
  <2> QED
    BY <1>6, <2>1, <2>2, <2>3, <2>4
<1> QED
  BY <1>7, <1>8, <1>9, <1>11, <1>12, <1>13, <1>14, <1>15, <1>16, <1>17, <1>18
     DEF GNext, Execute, Finished

----------------------------------------------------------------------------
(* What attention finds in memory.                                         *)

\* Attention waits for its own ensure_pages_hot, which leaves the pages it
\* reads in memory if they fit.
Heated ==
  at \in {"prefill_attend", "attend"} =>
    /\ call.pc = "idle" /\ page_id(q_pos) < RamPageLimit =>
         \A p \in 0 .. page_id(q_pos) : p \in HotPages
    /\ call.pc # "idle" =>
         call.op = "ensure_pages_hot" /\ call.first = 0 /\ call.last = page_id(q_pos)

\* What ensure_pages_hot returns is still there when attention runs.
LEMMA HeatedKept == CountInv /\ Placed /\ CacheInv /\ Heated /\ [GNext]_gvars => Heated'
<1> SUFFICES ASSUME CountInv, Placed, CacheInv, Heated, [GNext]_gvars,
                    at' \in {"prefill_attend", "attend"}
             PROVE  Heated'
  BY DEF Heated
<1> USE DEF exec
<1>1. t \in Nat /\ step \in Nat
  BY GenerationAssumption DEF Placed, CountInv, CountTypes
<1>2. CASE PrefillHeat
  <2>1. ValidEnd(t, t + 1) = t
    BY <1>1 DEF ValidEnd
  <2>2. /\ call'.op = "ensure_pages_hot" /\ call'.pc = "ensure" /\ call'.first = 0
        /\ call'.last = page_id(t) /\ at' = "prefill_attend" /\ t' = t
    BY <1>2, <2>1 DEF PrefillHeat, EnsurePagesHot, Idle
  <2> QED
    BY <2>2 DEF Heated, q_pos, page_id
<1>3. CASE DecodeHeat
  <2>1. ValidEnd(step, current_pos + 1) = step
    BY <1>1, <1>3 DEF ValidEnd, DecodeHeat, Placed, Stepping
  <2>2. /\ call'.op = "ensure_pages_hot" /\ call'.pc = "ensure" /\ call'.first = 0
        /\ call'.last = page_id(step) /\ at' = "attend" /\ step' = step
    BY <1>3, <2>1 DEF DecodeHeat, EnsurePagesHot, Idle
  <2> QED
    BY <2>2 DEF Heated, q_pos, page_id
<1>4. CASE CacheStep
  <2>1. UNCHANGED <<at, t, step>> /\ Step /\ call.pc # "idle" /\ IInv /\ RangeInv /\ CallShape'
    BY <1>4, NextKeepsCallShape DEF CacheStep, Step, EvictOnePage, AllocHotPage, ReloadColdPage, TouchPage,
       CopyRows, CacheInv, Next
  <2>2. q_pos' = q_pos /\ page_id(q_pos)' = page_id(q_pos)
    BY <2>1 DEF q_pos, page_id
  <2>3. call.op = "ensure_pages_hot" /\ call.first = 0 /\ call.last = page_id(q_pos)
    BY <2>1 DEF Heated
  <2>4. CASE call'.pc = "idle"
    <3>1. page_id(q_pos) < RamPageLimit => \A p \in 0 .. page_id(q_pos) : p \in HotPages'
      <4>1. page_id(q_pos) \in Int
        BY <2>1, <2>3, SizesAssumption DEF IInv, TypeOK, Calls, Pages
      <4> QED
        BY <2>1, <2>3, <2>4, <4>1, StepKeepsRange DEF EnsureReturns
    <3> QED
      BY <2>2, <2>4, <3>1 DEF Heated
  <2>5. CASE call'.pc # "idle"
    <3>1. call'.op = "ensure_pages_hot" /\ call'.first = 0 /\ call'.last = page_id(q_pos)
      BY <2>1, <2>3, <2>5, EnsureGoesOn DEF IInv
    <3> QED
      BY <2>2, <2>5, <3>1 DEF Heated
  <2> QED
    BY <2>4, <2>5
<1>5. CASE LoadPolicy \/ EditPolicy \/ Receive \/ Close \/ UNCHANGED gvars
  <2>1. UNCHANGED <<at, t, step, call, pages>>
    BY <1>5 DEF LoadPolicy, EditPolicy, Receive, Close, OtherThanPolicy, gvars, vars
  <2>2. q_pos' = q_pos /\ page_id(q_pos)' = page_id(q_pos) /\ HotPages' = HotPages
    BY <2>1 DEF q_pos, page_id, HotPages, pages
  <2> QED
    BY <2>1, <2>2 DEF Heated
<1>6. CASE \/ PrefillSave \/ PrefillWarm \/ PrefillAttend \/ PrefillSend \/ LoopHead \/ SkipLayer
           \/ DecodeSave \/ DecodeWarm \/ DecodeAttend \/ SendToken \/ SendFails \/ ForwardFails
           \/ SendTrailer
  <2>1. at' \notin {"prefill_attend", "attend"}
    BY <1>6 DEF PrefillSave, PrefillWarm, PrefillAttend, PrefillSend, LoopHead, SkipLayer, DecodeSave,
       DecodeWarm, DecodeAttend, SendToken, SendFails, ForwardFails, SendTrailer, Trailer
  <2> QED
    BY <2>1
<1> QED
  BY <1>2, <1>3, <1>4, <1>5, <1>6 DEF GNext, Execute, Finished

----------------------------------------------------------------------------
(* The types of the policy engine and of the generation.                   *)

\* The file's clock has not ticked more often than the file was edited.
PolicyInv == PolicyTypeOK /\ mtime <= edits + 1

\* The policy engine and its file keep their types.
LEMMA PolicyTypesKept == PolicyInv /\ [GNext]_gvars => PolicyInv'
<1> SUFFICES ASSUME PolicyInv, [GNext]_gvars PROVE PolicyInv'
  OBVIOUS
<1> USE PolicyAssumption DEF file, engine
<1>1. CASE Stat
  <2>1. /\ policy_pc' \in {"read", "idle"}
        /\ UNCHANGED <<script, mtime, edits, script_path, last_load, globals, text, loaded, unseen>>
    BY <1>1 DEF Stat
  <2> QED
    BY <2>1 DEF PolicyInv, PolicyTypeOK
<1>7. CASE Read
  <2>1. /\ policy_pc' \in {"exec", "new_exec"} /\ text' = script /\ unseen' = FALSE
        /\ UNCHANGED <<script, mtime, edits, script_path, last_load, globals, loaded>>
    BY <1>7 DEF Read
  <2> QED
    BY <2>1 DEF PolicyInv, PolicyTypeOK
<1>8. CASE Stamp
  <2>1. /\ policy_pc' = "idle" /\ last_load' = mtime
        /\ UNCHANGED <<script, mtime, edits, script_path, globals, text, loaded, unseen>>
    BY <1>8 DEF Stamp
  <2>2. last_load' \in 0 .. MaxEdits + 1
    BY <2>1 DEF PolicyInv, PolicyTypeOK
  <2> QED
    BY <2>1, <2>2 DEF PolicyInv, PolicyTypeOK
<1>2. CASE Exec
  <2>1. /\ UNCHANGED <<script, mtime, edits, last_load, text, unseen>>
        /\ policy_pc' \in {"idle", "stamp", "new_stamp"}
        /\ loaded' \in {text, loaded}
        /\ globals' \in {Undefined, text.defines, globals}
    BY <1>2 DEF Exec, AfterFailure
  <2>2. script_path' \in BOOLEAN
    BY <1>2, Zenon DEF Exec
  <2> QED
    BY <2>1, <2>2 DEF PolicyInv, PolicyTypeOK
<1>3. CASE Edit
  <2>1. /\ edits < MaxEdits /\ edits' = edits + 1 /\ script' \in Scripts /\ mtime' \in {mtime, mtime + 1}
        /\ UNCHANGED <<script_path, last_load, globals, policy_pc, text, loaded>>
    BY <1>3 DEF Edit
  <2>2. unseen' \in BOOLEAN
    BY <1>3, Zenon DEF Edit
  <2> QED
    BY <2>1, <2>2 DEF PolicyInv, PolicyTypeOK
<1>4. CASE LoopHead
  <2>1. /\ policy_pc' \in {"idle", "stat", policy_pc}
        /\ UNCHANGED <<script, mtime, edits, script_path, last_load, globals, text, loaded, unseen>>
    BY <1>4 DEF LoopHead, TryReload
  <2> QED
    BY <2>1 DEF PolicyInv, PolicyTypeOK
<1>5. CASE UNCHANGED policy_vars
  BY <1>5 DEF policy_vars, PolicyInv, PolicyTypeOK
<1>6. \/ Stat \/ Read \/ Exec \/ Stamp \/ Edit \/ LoopHead \/ UNCHANGED policy_vars
  BY DEF GNext, Execute, PrefillSave, PrefillWarm, PrefillHeat, PrefillAttend, PrefillSend,
         SkipLayer, DecodeSave, DecodeWarm, DecodeHeat, DecodeAttend, SendToken, SendFails,
         ForwardFails, SendTrailer, Receive, Close, Finished, CacheStep, LoadPolicy, PolicyStep,
         EditPolicy, gvars, exec
<1> QED
  BY <1>1, <1>2, <1>3, <1>4, <1>5, <1>6, <1>7, <1>8

\* No more is delivered than was asked for, and the channel holds no more than
\* it was made for.
CountBounds ==
  /\ profiled \in BOOLEAN
  /\ tokens_generated <= MaxNew + 1
  /\ delivered <= tokens_generated
  /\ queued <= Capacity

\* Every send is one of the tokens asked for, or the trailer.
LEMMA CountBoundsKept ==
  CountInv /\ Placed /\ CountBounds /\ CountInv' /\ [GNext]_gvars => CountBounds'
<1> SUFFICES ASSUME CountInv, Placed, CountBounds, CountInv', [GNext]_gvars PROVE CountBounds'
  OBVIOUS
<1> USE DEF request, channel, exec
<1>1. /\ MaxNew \in Nat /\ max_tokens \in Nat /\ max_tokens <= MaxNew
      /\ tokens_generated \in Nat /\ delivered \in Nat /\ queued \in Nat
      /\ prompt_len \in Nat \ {0} /\ step \in Nat
  BY GenerationAssumption DEF CountInv, CountTypes, Placed
<1>2. CASE PrefillSend \/ SendToken
  <2>1. /\ at' = "loop" /\ max_tokens' = max_tokens /\ profiled' = profiled
        /\ prompt_len' = prompt_len
        /\ tokens_generated' = tokens_generated + 1
        /\ delivered' \in {delivered, delivered + 1}
        /\ queued' = queued \/ (queued' = queued + 1 /\ queued < Capacity)
    BY <1>2 DEF PrefillSend, SendToken, Send, CanSend
  <2>2. tokens_generated <= MaxNew
    <3>1. CASE PrefillSend
      <4>1. tokens_generated = 0
        BY <3>1 DEF PrefillSend, CountInv, Prefilling
      <4> QED
        BY <1>1, <4>1
    <3>2. CASE SendToken
      <4>1. Counted /\ step < total_steps
        BY <3>2 DEF SendToken, Sampling, EndOfLayers, Idle, CountInv, Stepping
      <4>2. tokens_generated = step - prompt_len + 1 /\ step < prompt_len + max_tokens - 1
        BY <1>1, <4>1 DEF Counted, total_steps
      <4> QED
        BY <1>1, <4>2
    <3> QED
      BY <1>2, <3>1, <3>2
  <2> QED
    BY <1>1, <2>1, <2>2 DEF CountBounds, Capacity
<1>3. CASE SendTrailer \/ Receive \/ Close
  <2>1. /\ UNCHANGED <<max_tokens, profiled, tokens_generated, delivered>>
        /\ \/ queued' = queued
           \/ queued' = queued + 1 /\ queued < Capacity
           \/ queued > 0 /\ queued' = queued - 1
           \/ queued' = 0
    BY <1>3 DEF SendTrailer, Receive, Close, Send, CanSend
  <2> QED
    BY <1>1, <2>1 DEF CountBounds, Capacity
<1>4. CASE DecodeAttend
  BY <1>4 DEF DecodeAttend, CountBounds, Capacity
<1>5. CASE ~(PrefillSend \/ SendToken \/ SendTrailer \/ Receive \/ Close \/ DecodeAttend)
  <2>1. UNCHANGED <<max_tokens, profiled, tokens_generated, delivered, queued>>
    BY <1>5 DEF GNext, Execute, PrefillSave, PrefillWarm, PrefillHeat, PrefillAttend, LoopHead,
         SkipLayer, DecodeSave, DecodeWarm, DecodeHeat, SendFails,
         ForwardFails, Finished, CacheStep, LoadPolicy, EditPolicy, OtherThanPolicy, gvars
  <2> QED
    BY <2>1 DEF CountBounds, Capacity
<1> QED
  BY <1>2, <1>3, <1>4, <1>5

\* What every step of a generation preserves.
GInv ==
  CountInv /\ Placed /\ CacheInv /\ History /\ Heated /\ PolicyInv /\ CountBounds

\* The inductive invariant holds in every state of a generation.
LEMMA GenerationInvariant == GSpec => []GInv
<1>1. GInit => GInv
  <2> SUFFICES ASSUME GInit PROVE GInv
    OBVIOUS
  <2>1. CacheInv
    BY InitInvariant DEF GInit, CacheInv, Init, CallShape, RangeInv, Idle
  <2>2. Heated
    BY DEF GInit, Heated
  <2>3. PolicyInv
    <3>1. /\ script \in Scripts /\ text = script /\ loaded = script /\ globals = Undefined
          /\ mtime = 1 /\ last_load = 0 /\ edits = 0 /\ policy_pc = "new_read"
      BY DEF GInit, PolicyInit
    <3>2. script_path \in BOOLEAN /\ unseen \in BOOLEAN
      BY Zenon DEF GInit, PolicyInit
    <3>3. /\ mtime \in 1 .. MaxEdits + 1 /\ last_load \in 0 .. MaxEdits + 1 /\ edits \in 0 .. MaxEdits
          /\ mtime <= edits + 1
      BY <3>1, PolicyAssumption
    <3> QED
      BY <3>1, <3>2, <3>3 DEF PolicyInv, PolicyTypeOK
  <2>4. CountBounds
    <3>1. /\ tokens_generated = 0 /\ delivered = 0 /\ queued = 0 /\ max_tokens \in 0 .. MaxNew
      BY DEF GInit
    <3>2. profiled \in BOOLEAN
      BY Zenon DEF GInit
    <3>3. MaxNew \in Nat
      BY GenerationAssumption
    <3> QED
      BY <3>1, <3>2, <3>3 DEF CountBounds, Capacity
  <2> QED
    BY <2>1, <2>2, <2>3, <2>4, CountInit, PlacedInit, HistoryInit DEF GInv
<1>2. GInv /\ [GNext]_gvars => GInv'
  BY CountKept, PlacedKept, CacheKept, HistoryKept, HeatedKept, PolicyTypesKept, CountBoundsKept
  DEF GInv
<1> QED
  BY <1>1, <1>2, PTL DEF GSpec

\* The generation's counters, its cache, its channel and its policy engine keep
\* their types, for any request within the bounds.
THEOREM GenerationTypes == GSpec => []GTypeOK
<1>1. GInv => GTypeOK
  <2> SUFFICES ASSUME GInv PROVE GTypeOK
    OBVIOUS
  <2>1. MaxNew \in Nat
    BY GenerationAssumption
  <2> HIDE DEF NumLayers
  <2>2. at \in {"prefill_save", "prefill_warm", "prefill_heat", "prefill_attend",
                "prefill_send", "loop", "layer", "warm", "heat", "attend",
                "heading", "report", "summary", "done", "failed", "panicked"}
    BY DEF GInv, CountInv, CountTypes, Prefilling, Stepping, Trailing, Ended
  <2>3. /\ tokens_generated \in 0 .. MaxNew + 1 /\ delivered \in 0 .. MaxNew + 1
        /\ queued \in 0 .. Capacity /\ closed \in BOOLEAN /\ profiled \in BOOLEAN
    BY <2>1 DEF GInv, CountInv, CountTypes, CountBounds, Capacity
  <2> QED
    BY <2>2, <2>3 DEF GInv, GTypeOK, Placed, CacheInv, IInv, PolicyInv
<1> QED
  BY <1>1, GenerationInvariant, PTL

\* Whatever is evicted and reloaded meanwhile, and whichever layers the policy
\* has skipped, attention at a position reads the K and V rows of exactly the
\* positions up to its own, each from where it was saved.
THEOREM HistoryRead == GSpec => []AttentionReadsHistory
<1>1. GInv => AttentionReadsHistory
  <2> SUFFICES ASSUME GInv, Attending, ~ReadsColdPage
               PROVE  /\ ValidEnd(q_pos, seq_len) = q_pos
                      /\ \A u \in 0 .. q_pos :
                           /\ k_pages[page_id(u)][<<layer, slot_in_page(u)>>] = Row("k", layer, u)
                           /\ v_pages[page_id(u)][<<layer, slot_in_page(u)>>] = Row("v", layer, u)
    BY DEF AttentionReadsHistory
  <2>1. /\ CountInv /\ Placed /\ IInv /\ CallShape /\ History /\ PageTableConsistent /\ TypeOK
        /\ at \in {"prefill_attend", "attend"} /\ call.pc = "idle"
    BY DEF GInv, CacheInv, IInv, Attending
  <2>2. /\ MaxPrompt \in Nat \ {0} /\ MaxNew \in Nat /\ NumLayers \in Nat \ {0}
        /\ Layers = 0 .. NumLayers - 1
    BY GenerationAssumption
  <2> HIDE DEF NumLayers
  <2>3. /\ t \in Nat /\ step \in Nat /\ t \in 0 .. MaxPrompt + MaxNew /\ step \in 0 .. MaxPrompt + MaxNew
        /\ layer \in Layers /\ prompt_len \in Nat
    BY <2>1, <2>2 DEF Placed, Prefilled, Attended
  <2>4. /\ q_pos \in Nat /\ q_pos \in 0 .. MaxPrompt + MaxNew
        /\ ValidEnd(q_pos, seq_len) = q_pos
    BY <2>1, <2>3 DEF Placed, Stepping, q_pos, seq_len, ValidEnd
  <2>5. ASSUME NEW u \in 0 .. q_pos
        PROVE  /\ k_pages[page_id(u)][<<layer, slot_in_page(u)>>] = Row("k", layer, u)
               /\ v_pages[page_id(u)][<<layer, slot_in_page(u)>>] = Row("v", layer, u)
    <3>1. u \in Positions /\ u \in Nat /\ page_id(u) \in Pages
      BY <2>2, <2>4, RoomFor
    <3>2. page_id(u) \in PagesRead
      BY <2>4, <3>1, LaterPage DEF PagesRead
    <3>3. page_id(u) \in HotPages
      BY <2>1, <3>1, <3>2 DEF ReadsColdPage, PageTableConsistent, PageConsistent
    <3>4. ~ (page_id(u) >= num_pages)
      BY <2>1, <3>3, SizesAssumption DEF HotPages, TypeOK, Pages
    <3>5. /\ Stored[<<layer, u>>].k = k_pages[page_id(u)][<<layer, slot_in_page(u)>>]
          /\ Stored[<<layer, u>>].v = v_pages[page_id(u)][<<layer, slot_in_page(u)>>]
      BY <2>3, <3>1, <3>3, <3>4 DEF Stored, Contents
    <3>6. Promised = Stored
      BY <2>1 DEF Promised, CallShape
    <3>7. Passed(layer, u)
      BY <2>1, <2>3, <2>4, <3>1 DEF Passed, Prefilled, Attended, Placed, Prefilling, q_pos
    <3>8. Stored[<<layer, u>>] = IF <<layer, u>> \notin holes THEN SavedRows(u) ELSE ZeroRows
      BY <2>1, <2>3, <3>1, <3>6, <3>7 DEF History, Working, Prefilling, Stepping
    <3> QED
      BY <3>5, <3>8 DEF Row, SavedRows, ZeroRows
  <2> QED
    BY <2>4, <2>5
<1> QED
  BY <1>1, GenerationInvariant, PTL

\* Where the pages a position's attention reads fit in memory, they are there
\* when it reads them.
FittingPagesHot == Attending /\ page_id(q_pos) < RamPageLimit => ~ReadsColdPage

\* The page that ensure_pages_hot warms ahead, and its evictions, take none of
\* the pages attention is about to read.
THEOREM FittingReads == GSpec => []FittingPagesHot
<1>1. GInv => FittingPagesHot
  <2> SUFFICES ASSUME GInv, Attending, page_id(q_pos) < RamPageLimit PROVE ~ReadsColdPage
    BY DEF FittingPagesHot
  <2>1. /\ Placed /\ Heated /\ PageTableConsistent
        /\ at \in {"prefill_attend", "attend"} /\ call.pc = "idle"
        /\ t \in Nat /\ step \in Nat
    BY GenerationAssumption DEF GInv, CacheInv, IInv, Attending, Placed
  <2>2. q_pos \in Nat /\ ValidEnd(q_pos, seq_len) = q_pos
    BY <2>1 DEF Placed, Stepping, q_pos, seq_len, ValidEnd
  <2>3. \A p \in PagesRead : p \in HotPages
    BY <2>1, <2>2 DEF Heated, PagesRead
  <2>4. \A p \in PagesRead : k_pages[p] # Null
    BY <2>1, <2>3 DEF PageTableConsistent, PageConsistent, HotPages
  <2> QED
    BY <2>4 DEF ReadsColdPage
<1> QED
  BY <1>1, GenerationInvariant, PTL

\* The last position whose attention runs: the last of the prompt when nothing
\* is generated, else the one before the last new token.
LastQuery == IF MaxNew = 0 THEN MaxPrompt - 1 ELSE MaxPrompt + MaxNew - 2

\* A cache whose memory holds the pages of the longest generation never has
\* attention find one of them cold.  (With less memory it does: the policy of
\* eviction alone does not save the range.)
THEOREM PagesHotWhenMemorySuffices ==
  ASSUME page_id(LastQuery) < RamPageLimit
  PROVE  GSpec => []AttentionPagesHot
<1>1. GInv /\ FittingPagesHot => AttentionPagesHot
  <2> SUFFICES ASSUME GInv, FittingPagesHot, Attending PROVE ~ReadsColdPage
    BY DEF AttentionPagesHot
  <2>1. /\ MaxPrompt \in Nat \ {0} /\ MaxNew \in Nat
    BY GenerationAssumption
  <2>2. q_pos \in Nat /\ LastQuery \in Nat /\ q_pos <= LastQuery
    <3>1. CASE at = "prefill_attend"
      BY <2>1, <3>1 DEF GInv, Placed, q_pos, LastQuery
    <3>2. CASE at = "attend"
      BY <2>1, <3>2 DEF GInv, Placed, CountInv, CountTypes, Stepping, total_steps, q_pos, LastQuery
    <3> QED
      BY <3>1, <3>2 DEF Attending
  <2>3. page_id(q_pos) <= page_id(LastQuery) /\ page_id(q_pos) \in Nat /\ page_id(LastQuery) \in Nat
    BY <2>2, LaterPage
  <2>4. page_id(q_pos) < RamPageLimit
    BY <2>3, SizesAssumption
  <2> QED
    BY <2>4 DEF FittingPagesHot
<1> QED
  BY <1>1, GenerationInvariant, FittingReads, PTL

----------------------------------------------------------------------------
(* How far a generation is from its end.                                   *)

\* The first component that differs is lower.
LEMMA RemainingDrops ==
  ASSUME \/ PhasesLeft' < PhasesLeft
         \/ /\ PhasesLeft' = PhasesLeft
            /\ \/ StepsAhead' < StepsAhead
               \/ /\ StepsAhead' = StepsAhead
                  /\ \/ LayersLeft' < LayersLeft
                     \/ /\ LayersLeft' = LayersLeft
                        /\ \/ PositionsLeft' < PositionsLeft
                           \/ /\ PositionsLeft' = PositionsLeft
                              /\ \/ PlacesLeft' < PlacesLeft
                                 \/ /\ PlacesLeft' = PlacesLeft
                                    /\ \/ LoadLeft' < LoadLeft
                                       \/ LoadLeft' = LoadLeft /\ StepsLeft' < StepsLeft
  PROVE  Below(Remaining', Remaining)
<1> DEFINE a == Remaining'  b == Remaining
<1>1. /\ DOMAIN a = 1 .. 7
      /\ a[1] = PhasesLeft' /\ a[2] = StepsAhead' /\ a[3] = LayersLeft' /\ a[4] = PositionsLeft'
      /\ a[5] = PlacesLeft' /\ a[6] = LoadLeft' /\ a[7] = StepsLeft'
  BY DEF Remaining
<1>2. /\ b[1] = PhasesLeft /\ b[2] = StepsAhead /\ b[3] = LayersLeft /\ b[4] = PositionsLeft
      /\ b[5] = PlacesLeft /\ b[6] = LoadLeft /\ b[7] = StepsLeft
  BY DEF Remaining
<1> HIDE DEF a, b
<1>3. ASSUME NEW i \in 1 .. 7, a[i] < b[i], \A j \in 1 .. i - 1 : a[j] = b[j]
      PROVE  Below(a, b)
  BY <1>1, <1>3 DEF Below
<1>4. PICK i \in 1 .. 7 : a[i] < b[i] /\ \A j \in 1 .. 7 : j < i => a[j] = b[j]
  <2> DEFINE Drops(i) == a[i] < b[i] /\ \A j \in 1 .. 7 : j < i => a[j] = b[j]
  <2>1. Drops(1) \/ Drops(2) \/ Drops(3) \/ Drops(4) \/ Drops(5) \/ Drops(6) \/ Drops(7)
    <3>1. \A j \in 1 .. 7 : j = 1 \/ j = 2 \/ j = 3 \/ j = 4 \/ j = 5 \/ j = 6 \/ j = 7
      OBVIOUS
    <3> QED
      BY <1>1, <1>2, <3>1
  <2> HIDE DEF Drops
  <2>2. \E i \in 1 .. 7 : Drops(i)
    BY <2>1
  <2> QED
    BY <2>2 DEF Drops
<1>5. \A j \in 1 .. i - 1 : a[j] = b[j]
  BY <1>4
<1>6. Below(a, b)
  BY <1>3, <1>4, <1>5
<1> QED
  BY <1>6 DEF a, b

\* The passes of the prompt: positions within layers, places within positions.
LEMMA PrefillDrops ==
  ASSUME CountInv, Placed, PrefillSave \/ PrefillWarm \/ PrefillHeat \/ PrefillAttend
  PROVE  Below(Remaining', Remaining)
<1> USE DEF request, channel
<1>1. NumLayers \in Nat \ {0} /\ MaxPrompt \in Nat \ {0} /\ MaxNew \in Nat
  BY GenerationAssumption
<1> HIDE DEF NumLayers
<1>2. layer \in Nat /\ t \in Nat /\ prompt_len \in Nat /\ t < prompt_len /\ layer < NumLayers
  BY <1>1 DEF Placed, Prefilling, Prefilled, PrefillSave, PrefillWarm, PrefillHeat, PrefillAttend
<1>3. CASE PrefillSave
  <2>1. at = "prefill_save" /\ UNCHANGED <<prompt_len, max_tokens, layer, step>>
    BY <1>3 DEF PrefillSave
  <2>2. \/ at' = "prefill_save" /\ t' = t + 1
        \/ at' = "prefill_warm" /\ t' = 0
    BY <1>3 DEF PrefillSave
  <2>3. PhasesLeft' = PhasesLeft /\ StepsAhead' = StepsAhead /\ LayersLeft' = LayersLeft
    BY <2>1, <2>2 DEF PhasesLeft, StepsAhead, LayersLeft
  <2>4. PositionsLeft' < PositionsLeft
    BY <1>2, <2>1, <2>2 DEF PositionsLeft
  <2> QED
    BY <2>3, <2>4, RemainingDrops
<1>4. CASE PrefillWarm \/ PrefillHeat
  <2>1. /\ UNCHANGED <<prompt_len, max_tokens, layer, t, step>>
        /\ \/ at = "prefill_warm" /\ at' = "prefill_heat"
           \/ at = "prefill_heat" /\ at' = "prefill_attend"
    BY <1>4 DEF PrefillWarm, PrefillHeat
  <2>2. /\ PhasesLeft' = PhasesLeft /\ StepsAhead' = StepsAhead /\ LayersLeft' = LayersLeft
        /\ PositionsLeft' = PositionsLeft
    BY <2>1 DEF PhasesLeft, StepsAhead, LayersLeft, PositionsLeft
  <2>3. PlacesLeft' < PlacesLeft
    BY <2>1 DEF PlacesLeft
  <2> QED
    BY <2>2, <2>3, RemainingDrops
<1>5. CASE PrefillAttend
  <2>1. /\ at = "prefill_attend" /\ UNCHANGED <<prompt_len, max_tokens, step>>
        /\ \/ at' = "panicked"
           \/ at' = "prefill_warm" /\ t' = t + 1 /\ layer' = layer
           \/ at' \in {"prefill_save", "prefill_send"} /\ layer' = layer + 1 /\ t' = 0
    BY <1>5 DEF PrefillAttend
  <2>2. CASE at' = "panicked"
    BY <2>1, <2>2, RemainingDrops DEF PhasesLeft
  <2>3. CASE at' = "prefill_warm" /\ t' = t + 1 /\ layer' = layer
    <3>1. PhasesLeft' = PhasesLeft /\ StepsAhead' = StepsAhead /\ LayersLeft' = LayersLeft
      BY <2>1, <2>3 DEF PhasesLeft, StepsAhead, LayersLeft
    <3>2. PositionsLeft' < PositionsLeft
      BY <1>2, <2>1, <2>3 DEF PositionsLeft
    <3> QED
      BY <3>1, <3>2, RemainingDrops
  <2>4. CASE at' \in {"prefill_save", "prefill_send"} /\ layer' = layer + 1
    <3>1. PhasesLeft' = PhasesLeft /\ StepsAhead' = StepsAhead
      BY <2>1, <2>4 DEF PhasesLeft, StepsAhead
    <3>2. LayersLeft' < LayersLeft
      BY <1>1, <1>2, <2>1, <2>4 DEF LayersLeft
    <3> QED
      BY <3>1, <3>2, RemainingDrops
  <2> QED
    BY <2>1, <2>2, <2>3, <2>4
<1> QED
  BY <1>3, <1>4, <1>5

\* A decoded token: places within layers, layers within the step, after its head.
LEMMA DecodeDrops ==
  ASSUME CountInv, Placed, PrefillSend \/ LoopHead \/ SkipLayer \/ DecodeSave \/ DecodeWarm
                             \/ DecodeHeat \/ DecodeAttend \/ SendToken
  PROVE  Below(Remaining', Remaining)
<1> USE DEF request, channel
<1>1. NumLayers \in Nat \ {0} /\ MaxPrompt \in Nat \ {0} /\ MaxNew \in Nat
  BY GenerationAssumption
<1> HIDE DEF NumLayers
<1>2. layer \in Nat /\ layer <= NumLayers /\ step \in Nat /\ prompt_len \in Nat /\ max_tokens \in Nat
  BY <1>1 DEF Placed, CountInv, CountTypes
<1>3. CASE PrefillSend
  <2>1. at = "prefill_send" /\ at' = "loop"
    BY <1>3 DEF PrefillSend
  <2> QED
    BY <2>1, RemainingDrops DEF PhasesLeft
<1>4. CASE LoopHead
  <2>1. /\ at = "loop" /\ UNCHANGED <<prompt_len, max_tokens, step>>
        /\ (at' = "layer" /\ layer' = 0) \/ at' \in {"heading", "summary"}
    BY <1>4 DEF LoopHead, Trailer
  <2>2. CASE at' = "layer" /\ layer' = 0
    <3>1. PhasesLeft' = PhasesLeft /\ StepsAhead' = StepsAhead
      BY <2>1, <2>2 DEF PhasesLeft, StepsAhead
    <3>2. LayersLeft' < LayersLeft
      BY <1>1, <2>1, <2>2 DEF LayersLeft
    <3> QED
      BY <3>1, <3>2, RemainingDrops
  <2>3. CASE at' \in {"heading", "summary"}
    BY <2>1, <2>3, RemainingDrops DEF PhasesLeft
  <2> QED
    BY <2>1, <2>2, <2>3
<1>5. CASE SkipLayer \/ DecodeAttend
  <2>1. /\ at \in {"layer", "attend"} /\ UNCHANGED <<prompt_len, max_tokens, step>>
        /\ (at' = "layer" /\ layer' = layer + 1) \/ at' = "panicked"
    BY <1>5 DEF SkipLayer, DecodeAttend
  <2>2. CASE at' = "layer" /\ layer' = layer + 1
    <3>1. PhasesLeft' = PhasesLeft /\ StepsAhead' = StepsAhead
      BY <2>1, <2>2 DEF PhasesLeft, StepsAhead
    <3>2. LayersLeft' < LayersLeft
      BY <1>1, <1>2, <2>1, <2>2 DEF LayersLeft
    <3> QED
      BY <3>1, <3>2, RemainingDrops
  <2>3. CASE at' = "panicked"
    BY <2>1, <2>3, RemainingDrops DEF PhasesLeft
  <2> QED
    BY <2>1, <2>2, <2>3
<1>6. CASE DecodeSave \/ DecodeWarm \/ DecodeHeat
  <2>1. /\ UNCHANGED <<prompt_len, max_tokens, layer, step>>
        /\ \/ at = "layer" /\ at' = "warm"
           \/ at = "warm" /\ at' = "heat"
           \/ at = "heat" /\ at' = "attend"
    BY <1>6 DEF DecodeSave, DecodeWarm, DecodeHeat
  <2>2. /\ PhasesLeft' = PhasesLeft /\ StepsAhead' = StepsAhead /\ LayersLeft' = LayersLeft
        /\ PositionsLeft' = PositionsLeft
    BY <2>1 DEF PhasesLeft, StepsAhead, LayersLeft, PositionsLeft
  <2>3. PlacesLeft' < PlacesLeft
    BY <2>1 DEF PlacesLeft
  <2> QED
    BY <2>2, <2>3, RemainingDrops
<1>7. CASE SendToken
  <2>1. at = "layer" /\ at' = "loop" /\ step' = step + 1 /\ UNCHANGED <<prompt_len, max_tokens>>
    BY <1>7 DEF SendToken, Sampling, EndOfLayers
  <2>2. PhasesLeft' = PhasesLeft /\ PhasesLeft = 1 /\ PhasesLeft' = 1
    BY <2>1 DEF PhasesLeft
  <2>3. StepsAhead' < StepsAhead
    BY <1>2, <2>1, <2>2 DEF StepsAhead
  <2> QED
    BY <2>2, <2>3, RemainingDrops
<1> QED
  BY <1>3, <1>4, <1>5, <1>6, <1>7

\* The end of the tokens, an error, the trailer.
LEMMA TrailerDrops ==
  ASSUME SendFails \/ ForwardFails \/ SendTrailer
  PROVE  Below(Remaining', Remaining)
<1> USE DEF request
<1>1. CASE SendFails \/ ForwardFails
  <2>1. /\ at \in {"prefill_save", "prefill_attend", "prefill_send", "layer", "attend"}
        /\ at' \in {"heading", "summary", "panicked", "failed"}
    BY <1>1 DEF SendFails, Sampling, EndOfLayers, Trailer, ForwardFails
  <2>2. PhasesLeft' < PhasesLeft
    BY <2>1 DEF PhasesLeft
  <2> QED
    BY <2>2, RemainingDrops
<1>2. CASE SendTrailer
  <2>1. /\ UNCHANGED <<prompt_len, max_tokens, layer, t, step>>
        /\ \/ at = "heading" /\ at' = "report"
           \/ at = "report" /\ at' = "summary"
           \/ at = "summary" /\ at' = "done"
    BY <1>2 DEF SendTrailer
  <2>2. /\ PhasesLeft' = PhasesLeft /\ StepsAhead' = StepsAhead /\ LayersLeft' = LayersLeft
        /\ PositionsLeft' = PositionsLeft
    BY <2>1 DEF PhasesLeft, StepsAhead, LayersLeft, PositionsLeft
  <2>3. PlacesLeft' < PlacesLeft
    BY <2>1 DEF PlacesLeft
  <2> QED
    BY <2>2, <2>3, RemainingDrops
<1> QED
  BY <1>1, <1>2

\* Where it is, but for the policy engine and the cache.
Where == <<prompt_len, max_tokens, at, layer, t, step>>

\* As long as it is there, those are what changes.
LEMMA SameWhere ==
  ASSUME UNCHANGED Where
  PROVE  UNCHANGED <<PhasesLeft, StepsAhead, LayersLeft, PositionsLeft, PlacesLeft>>
<1>1. PhasesLeft' = PhasesLeft
  BY DEF Where, PhasesLeft
<1>2. StepsAhead' = StepsAhead
  BY <1>1 DEF Where, StepsAhead
<1>3. LayersLeft' = LayersLeft
  BY DEF Where, LayersLeft
<1>4. PositionsLeft' = PositionsLeft
  BY DEF Where, PositionsLeft
<1>5. PlacesLeft' = PlacesLeft
  BY DEF Where, PlacesLeft
<1> QED
  BY <1>1, <1>2, <1>3, <1>4, <1>5

\* Under the generation, a load of the policy and a call of the cache end.
LEMMA InnerDrops ==
  ASSUME CacheInv, CacheStep \/ LoadPolicy
  PROVE  Below(Remaining', Remaining)
<1>1. CASE CacheStep
  <2>1. UNCHANGED Where /\ policy_pc' = policy_pc /\ Step
    BY <1>1 DEF CacheStep, exec, request, Where, policy_vars, engine
  <2>2. LoadLeft' = LoadLeft
    BY <2>1 DEF LoadLeft
  <2>3. StepsLeft' < StepsLeft
    BY <2>1, StepShortens DEF CacheInv
  <2> QED
    BY <2>1, <2>2, <2>3, SameWhere, RemainingDrops
<1>2. CASE LoadPolicy
  <2>1. UNCHANGED Where /\ PolicyStep
    BY <1>2 DEF LoadPolicy, OtherThanPolicy, request, Where
  <2>2. \/ policy_pc = "stat" /\ policy_pc' \in {"read", "idle"}
        \/ policy_pc \in {"new_read", "read"} /\ policy_pc' \in {"new_exec", "exec"}
        \/ policy_pc \in {"new_exec", "exec"} /\ policy_pc' \in {"new_stamp", "stamp", "idle"}
        \/ policy_pc \in {"new_stamp", "stamp"} /\ policy_pc' = "idle"
    BY <2>1 DEF PolicyStep, Stat, Read, Exec, Stamp, AfterFailure
  <2>3. LoadLeft' < LoadLeft
    BY <2>2 DEF LoadLeft
  <2> QED
    BY <2>1, <2>3, SameWhere, RemainingDrops
<1> QED
  BY <1>1, <1>2

\* Everybody else leaves it where it is.
LEMMA OthersKeepRemaining ==
  ASSUME EditPolicy \/ Receive \/ Close \/ UNCHANGED gvars
  PROVE  Remaining' = Remaining
<1>1. UNCHANGED Where /\ policy_pc' = policy_pc /\ UNCHANGED <<call, num_pages>>
  <2>1. CASE EditPolicy
    BY <2>1 DEF EditPolicy, Edit, OtherThanPolicy, request, Where, engine, vars, pages
  <2>2. CASE Receive \/ Close
    BY <2>2 DEF Receive, Close, request, Where, policy_vars, engine, vars, pages
  <2>3. CASE UNCHANGED gvars
    BY <2>3 DEF gvars, exec, request, Where, policy_vars, engine, vars, pages
  <2> QED
    BY <2>1, <2>2, <2>3
<1>2. LoadLeft' = LoadLeft
  BY <1>1 DEF LoadLeft
<1>3. StepsLeft' = StepsLeft
  BY <1>1 DEF StepsLeft
<1> QED
  BY <1>1, <1>2, <1>3, SameWhere DEF Remaining

\* The components are naturals.
LEMMA RemainingNatural ==
  ASSUME CountInv, Placed, CacheInv
  PROVE  Remaining \in [1 .. 7 -> Nat]
<1>1. NumLayers \in Nat \ {0} /\ MaxPrompt \in Nat \ {0} /\ MaxNew \in Nat
  BY GenerationAssumption
<1> HIDE DEF NumLayers
<1>2. PhasesLeft \in Nat /\ PlacesLeft \in Nat /\ LoadLeft \in Nat
  BY DEF PhasesLeft, PlacesLeft, LoadLeft
<1>3. StepsAhead \in Nat
  BY DEF StepsAhead, PhasesLeft, CountInv, CountTypes, Counted, total_steps, Stepping, Prefilling
<1>4. LayersLeft \in Nat
  BY <1>1 DEF LayersLeft, Placed
<1>5. PositionsLeft \in Nat
  BY <1>1 DEF PositionsLeft, Placed, Prefilling
<1>6. StepsLeft \in Nat
  <2>1. call \in Calls /\ num_pages \in Nat /\ InOrder(call)
    BY SizesAssumption, CallInOrder DEF CacheInv, IInv, TypeOK
  <2> QED
    BY <2>1, CallNumbers DEF StepsLeft
<1> QED
  BY <1>2, <1>3, <1>4, <1>5, <1>6 DEF Remaining

\* GenerationAdvances: every step of the engine brings the generation nearer its
\* end and nothing else takes it back.  What remains being seven naturals in the
\* order of a dictionary, a generation is over after finitely many steps.
THEOREM GenerationsAdvance == GSpec => GenerationAdvances /\ [](Remaining \in [1 .. 7 -> Nat])
<1>1. GInv /\ [GNext]_gvars =>
        [IF Execute \/ ForwardFails THEN Below(Remaining', Remaining)
         ELSE Remaining' = Remaining]_gvars
  <2> SUFFICES ASSUME GInv, GNext, ~UNCHANGED gvars
               PROVE  IF Execute \/ ForwardFails THEN Below(Remaining', Remaining)
                      ELSE Remaining' = Remaining
    OBVIOUS
  <2>1. CASE Execute \/ ForwardFails
    BY <2>1, PrefillDrops, DecodeDrops, TrailerDrops, InnerDrops DEF Execute, GInv
  <2>2. CASE ~(Execute \/ ForwardFails)
    <3>1. EditPolicy \/ Receive \/ Close
      BY <2>2 DEF GNext, Finished
    <3> QED
      BY <2>2, <3>1, OthersKeepRemaining
  <2> QED
    BY <2>1, <2>2
<1>2. GInv => Remaining \in [1 .. 7 -> Nat]
  BY RemainingNatural DEF GInv
<1> QED
  BY <1>1, <1>2, GenerationInvariant, PTL DEF GSpec, GenerationAdvances
====
