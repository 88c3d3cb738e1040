---------------------------- MODULE LinearLayers ----------------------------
(***************************************************************************)
(* src/swamp-engine/src/linear.rs: a matrix of quantised rows times one or *)
(* more vectors, its rows (or the vectors) divided among the threads of a  *)
(* pool, each thread running a kernel of swamp-kernels on its part.        *)
(*                                                                         *)
(* A thread's work is a sequence of writes to the output; the threads      *)
(* interleave write by write.  Of an output cell the model keeps how often *)
(* each block of its row is in the sum, and whether what the cell held     *)
(* before the call is still in it.                                         *)
(***************************************************************************)
EXTENDS Naturals, SequencesExt, RowPartition

CONSTANTS
    Functions,   \* of forward_linear, forward_linear_multi, forward_linear_batch,
                 \* forward_gemvs: the entry points explored
    Dtypes,      \* "Q4_K", "Q6_K", "Q4_0" (as many bytes as Q4_K), "F32"
    Cpus,        \* "vnni", "avx2", "plain"
    RowCounts,   \* rows a matrix may have
    ThreadAnswers, \* what the script's adapt_threads may answer
    Blocks,      \* blocks of 256 columns in a row
    Outputs      \* matrices of a call, or vectors of a batch, at most

VARIABLES
    call,     \* [fn, cpu, threads, dtype, rows]: dtype and rows per output
    matrix,   \* forward_linear_multi runs one matrix after the other
    written,  \* per thread, the writes it has made
    out,      \* per output and row [blocks, stale, as]
    overran,  \* a thread wrote past the rows of its output
    status    \* "prepare", "running", "done", or how the call failed

vars == <<call, matrix, written, out, overran, status>>

\* adapt_threads clamps what the script answers.
adapt_threads(answer) == IF answer < 1 THEN 1 ELSE IF answer > 6 THEN 6 ELSE answer

Threads == 0..(call.threads - 1)
Outs == DOMAIN call.rows
-----------------------------------------------------------------------------
(* The kernels, as the writes they make to the rows rs .. rs + rc - 1.     *)

Write(output, rows, blocks, adds, as) ==
    [output |-> output, rows |-> rows, blocks |-> blocks, adds |-> adds, as |-> as]

\* With AVX2 or less, fused_gemv_q4k sums a row in a register and assigns it.
RowWrites(output, rs, rc, as) ==
    [k \in 1..rc |-> Write(output, {rs + k - 1}, 1..Blocks, FALSE, as)]

\* fused_gemv_q4k_vnni goes by block, then by four rows, then by one, and adds.
Groups(rc) == rc \div 4 + (rc % 4)
GroupRows(g, rs, rc) ==
    IF g < rc \div 4 THEN (rs + 4 * g)..(rs + 4 * g + 3)
    ELSE {rs + 4 * (rc \div 4) + (g - rc \div 4)}
fused_gemv_q4k_vnni(output, rs, rc) ==
    [k \in 1..(Blocks * Groups(rc)) |->
        Write(output, GroupRows((k - 1) % Groups(rc), rs, rc),
              {(k - 1) \div Groups(rc) + 1}, TRUE, "Q4_K")]

fused_gemv_q4k(output, rs, rc) ==
    IF call.cpu = "vnni" THEN fused_gemv_q4k_vnni(output, rs, rc)
    ELSE RowWrites(output, rs, rc, "Q4_K")

fused_gemv_q6k(output, rs, rc) == RowWrites(output, rs, rc, "Q6_K")

\* batched_avx2 and batched_scalar: by block, row and vector, and add.
batched_rows(rs, rc, bs) ==
    [k \in 1..(Blocks * rc * bs) |->
        Write(((k - 1) % bs) + 1, {rs + (((k - 1) \div bs) % rc)},
              {(k - 1) \div (bs * rc) + 1}, TRUE, "Q4_K")]

\* batched_vnni calls the single kernel for one vector after the other.
batched_vnni(rs, rc, bs) ==
    LET one == Blocks * Groups(rc)
    IN  [k \in 1..(bs * one) |->
            fused_gemv_q4k_vnni((k - 1) \div one + 1, rs, rc)[((k - 1) % one) + 1]]

fused_gemv_q4k_batched(rs, rc, bs) ==
    IF call.cpu = "vnni" THEN batched_vnni(rs, rc, bs) ELSE batched_rows(rs, rc, bs)
-----------------------------------------------------------------------------
(* What each thread writes.                                                *)

\* forward_linear, and forward_linear_multi for one matrix; a type without a
\* kernel is dequantised and multiplied row by row.
MatrixWork(t) ==
    LET nr == call.rows[matrix]
        rs == PartStart(t, nr, call.threads)
        rc == Cardinality(Part(t, nr, call.threads))
    IN  CASE call.dtype[matrix] = "Q4_K" -> fused_gemv_q4k(matrix, rs, rc)
          [] call.dtype[matrix] = "Q6_K" -> fused_gemv_q6k(matrix, rs, rc)
          [] OTHER -> RowWrites(matrix, rs, rc, call.dtype[matrix])

\* fallback_gemv divides the vectors; each is computed in a buffer of the
\* thread's own and copied.  What is not Q6_K is read as Q4_K.
fallback_gemv(t) ==
    LET bs == Cardinality(Outs)
        s == PartStart(t, bs, call.threads)
    IN  [k \in 1..Cardinality(Part(t, bs, call.threads)) |->
            Write(s + k, 0..(call.rows[1] - 1), 1..Blocks, FALSE,
                  IF call.dtype[1] = "Q6_K" THEN "Q6_K" ELSE "Q4_K")]

BatchWork(t) ==
    LET nr == call.rows[1]
    IN  IF call.dtype[1] = "Q4_K"
        THEN fused_gemv_q4k_batched(PartStart(t, nr, call.threads),
               Cardinality(Part(t, nr, call.threads)), Cardinality(Outs))
        ELSE fallback_gemv(t)

\* forward_gemvs divides the rows of the longest matrix, and cuts a part at the
\* end of each shorter one.  What is not Q4_K is read as Q6_K.
LongestRows == CHOOSE nr \in {call.rows[o] : o \in Outs} :
                 \A o \in Outs : call.rows[o] <= nr
GemvsWork(t) ==
    LET rs == PartStart(t, LongestRows, call.threads)
        rc(o) == Cardinality(Part(t, LongestRows, call.threads)
                               \cap 0..(call.rows[o] - 1))
    IN  FlattenSeq([o \in Outs |->
            IF call.dtype[o] = "Q4_K" THEN fused_gemv_q4k(o, rs, rc(o))
            ELSE fused_gemv_q6k(o, rs, rc(o))])

Work(t) ==
    CASE call.fn \in {"forward_linear", "forward_linear_multi"} -> MatrixWork(t)
      [] call.fn = "forward_linear_batch" -> BatchWork(t)
      [] call.fn = "forward_gemvs" -> GemvsWork(t)
-----------------------------------------------------------------------------
Calls ==
    {[fn |-> fn, cpu |-> cpu, threads |-> adapt_threads(n), dtype |-> dtype,
      rows |-> rows] :
        fn \in Functions, cpu \in Cpus, n \in ThreadAnswers,
        dtype \in UNION {[1..o -> Dtypes] : o \in 1..Outputs},
        rows \in UNION {[1..o -> RowCounts] : o \in 1..Outputs}}

\* forward_linear has one output, the outputs of a batch one matrix.
Possible(c) ==
    /\ DOMAIN c.dtype = DOMAIN c.rows
    /\ c.fn = "forward_linear" => DOMAIN c.rows = {1}
    /\ c.fn = "forward_linear_batch" =>
          \A o \in DOMAIN c.rows : c.rows[o] = c.rows[1] /\ c.dtype[o] = c.dtype[1]

Before == [blocks |-> [b \in 1..Blocks |-> 0], stale |-> TRUE, as |-> "none"]
Zeroed == [Before EXCEPT !.stale = FALSE]

Init ==
    /\ call \in {c \in Calls : Possible(c)}
    /\ matrix = 1
    /\ written = [t \in Threads |-> 0]
    /\ out = [o \in Outs |-> [r \in 0..(call.rows[o] - 1) |-> Before]]
    /\ overran = FALSE
    /\ status = "prepare"

\* Mutant: only the first matrix of the call is zeroed.
Filled_First ==
    CASE call.fn = "forward_linear" -> {}
      [] call.fn = "forward_linear_multi" -> {1}
      [] call.fn = "forward_linear_batch" ->
            IF call.dtype[1] = "Q4_K" THEN Outs ELSE {}
      [] call.fn = "forward_gemvs" -> Outs

\* The outputs filled with zero before the threads start: forward_linear and
\* fallback_gemv fill none.
Filled ==
    CASE call.fn = "forward_linear" -> {}
      [] call.fn = "forward_linear_multi" -> {matrix}
      [] call.fn = "forward_linear_batch" ->
            IF call.dtype[1] = "Q4_K" THEN Outs ELSE {}
      [] call.fn = "forward_gemvs" -> Outs

Prepare ==
    /\ status = "prepare"
    /\ out' = [o \in Outs |-> [r \in DOMAIN out[o] |->
                 IF o \in Filled THEN Zeroed ELSE out[o][r]]]
    /\ written' = [t \in Threads |-> 0]
    /\ status' = "running"
    /\ UNCHANGED <<call, matrix, overran>>

Written(cell, w) ==
    [blocks |-> [b \in 1..Blocks |->
        IF w.adds THEN cell.blocks[b] + (IF b \in w.blocks THEN 1 ELSE 0)
        ELSE IF b \in w.blocks THEN 1 ELSE 0],
     stale |-> cell.stale /\ w.adds,
     as |-> w.as]

\* The branch that dequantises does not look whether its part is empty.
Faults(t) ==
    /\ call.fn \in {"forward_linear", "forward_linear_multi"}
    /\ call.dtype[matrix] \notin {"Q4_K", "Q6_K"}
    /\ Underflows(t, call.rows[matrix], call.threads)

\* fused_gemv_q4k asserts the length of the weights in bytes.
AssertFails(t) ==
    /\ call.fn = "forward_linear_batch"
    /\ call.dtype[1] \notin {"Q4_K", "Q6_K", "Q4_0"}
    /\ Work(t) # <<>>

ThreadWrites(t) ==
    /\ status = "running"
    /\ ~Faults(t) /\ ~AssertFails(t)
    /\ written[t] < Len(Work(t))
    /\ LET w == Work(t)[written[t] + 1]
       IN  /\ out' = [out EXCEPT ![w.output] = [r \in DOMAIN @ |->
                          IF r \in w.rows THEN Written(@[r], w) ELSE @[r]]]
           /\ overran' = (overran \/ ~(w.rows \subseteq DOMAIN out[w.output]))
    /\ written' = [written EXCEPT ![t] = @ + 1]
    /\ UNCHANGED <<call, matrix, status>>

ThreadFails(t) ==
    /\ status = "running"
    /\ \/ Faults(t) /\ status' = "faulted"
       \/ AssertFails(t) /\ status' = "panicked"
    /\ UNCHANGED <<call, matrix, written, out, overran>>

\* The parallel section ends when every thread has.
Join ==
    /\ status = "running"
    /\ \A t \in Threads :
          ~Faults(t) /\ ~AssertFails(t) /\ written[t] = Len(Work(t))
    /\ IF call.fn = "forward_linear_multi" /\ matrix < Cardinality(Outs)
       THEN matrix' = matrix + 1 /\ status' = "prepare"
       ELSE matrix' = matrix /\ status' = "done"
    /\ UNCHANGED <<call, written, out, overran>>

Next == Prepare \/ Join \/ \E t \in Threads : ThreadWrites(t) \/ ThreadFails(t)

Spec == Init /\ [][Next]_vars
-----------------------------------------------------------------------------
TypeOK ==
    /\ Possible(call)
    /\ matrix \in Outs
    /\ written \in [Threads -> Nat]
    /\ \A o \in Outs : \A r \in DOMAIN out[o] :
          out[o][r] \in [blocks : [1..Blocks -> Nat], stale : BOOLEAN,
                         as : Dtypes \union {"none", "Q4_K", "Q6_K"}]
    /\ overran \in BOOLEAN
    /\ status \in {"prepare", "running", "done", "faulted", "panicked"}

\* The VNNI kernel adds to an output forward_linear has not zeroed: attn_output,
\* ffn_down and the logits go on from what the layer or token before left.
Accumulates == call.fn = "forward_linear" /\ call.dtype[1] = "Q4_K" /\ call.cpu = "vnni"

\* The type whose kernel reads output o's matrix.
ReadAs(o) ==
    LET dtype == call.dtype[o]
    IN  CASE call.fn = "forward_linear_batch" ->
                IF dtype = "Q6_K" THEN "Q6_K" ELSE "Q4_K"
          [] call.fn = "forward_gemvs" ->
                IF dtype = "Q4_K" THEN "Q4_K" ELSE "Q6_K"
          [] OTHER -> dtype

\* However many threads the policy answers and however they interleave, a call
\* that returns has put each block of each row into its output exactly once, by
\* the kernel of the matrix's type, and nothing of what the output held before,
\* and no thread writes past its rows; the exceptions are those of Accumulates
\* and ReadAs, and no other call.  A call fails only where a part of a
\* dequantised matrix would begin past its last row, or the assertion of the
\* weights' length meets a type of another size.
RowsOnce ==
    /\ ~overran
    /\ status = "done" =>
          \A o \in Outs : \A r \in DOMAIN out[o] :
             /\ \A b \in 1..Blocks : out[o][r].blocks[b] = 1
             /\ out[o][r].stale = Accumulates
             /\ out[o][r].as = ReadAs(o)
    /\ status = "faulted" => \E t \in Threads :
          t * PerThread(call.rows[matrix], call.threads) > call.rows[matrix]
    /\ status = "panicked" =>
          call.fn = "forward_linear_batch" /\ call.dtype[1] = "F32"
=============================================================================
