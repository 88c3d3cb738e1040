---------------------------- MODULE DenseKernels ----------------------------
(***************************************************************************)
(* The dense kernels of swamp-kernels and swamp-tensors: how each walks a  *)
(* row of n elements on each kind of processor.                            *)
(*                                                                         *)
(* A kernel makes one or more passes over the row; a pass is a sequence of *)
(* loops over one index, vector loops first and a loop over the rest last. *)
(* The model keeps the index and which elements each iteration takes.      *)
(* Products of signed bytes by VPDPBUSD add 128 to the weight; `excess`    *)
(* counts, per element, how often 128 times the activation is in the sum.  *)
(***************************************************************************)
EXTENDS Integers, Sequences

CONSTANTS Ops,    \* the operations explored, of DOMAIN Kernels
          Cpus,   \* of "avx512" (every feature), "avx2" (AVX2 and FMA), "plain"
          Sizes   \* row lengths

VARIABLES op, cpu, n,
          pass, loop, i,   \* where the kernel is
          visits,          \* per pass, how often each element was taken
          excess,          \* multiples of 128 * a[e] in the accumulated sum
          reach            \* one past the last element touched

vars == <<op, cpu, n, pass, loop, i, visits, excess, reach>>

\* repeat: "while" as long as a vector fits, "if" at most once, "always" the
\* first vector without looking whether it fits.
Loop(width, repeat, biased, subtracted) ==
    [width |-> width, repeat |-> repeat, bias |-> biased - subtracted]
Vectors(width) == Loop(width, "while", 0, 0)
Rest == Vectors(1)
Blocked(width) == <<Vectors(width), Rest>>
Scalar == <<Rest>>

dot_product ==
    [avx512 |-> <<<<Vectors(16), Loop(8, "if", 0, 0), Rest>>>>,
     avx2 |-> <<Blocked(8)>>,
     plain |-> <<Scalar>>]

weighted_sum ==
    [avx512 |-> <<Blocked(16)>>, avx2 |-> <<Blocked(8)>>, plain |-> <<Scalar>>]

\* max |a|, the quantised row, the sum of the quantised row, the product.
\* VPDPBUSD takes the weight as w + 128; what is subtracted again is the sum
\* over the whole row, the biased products are those of its vectors only.
matmul_w3_vnni ==
    <<Blocked(16), Blocked(16),
      <<Loop(64, "while", 0, 1), Loop(1, "while", 0, 1)>>,
      <<Loop(64, "while", 1, 0), Rest>>>>

matmul_w3 ==
    [avx512 |-> matmul_w3_vnni, avx2 |-> <<Blocked(8)>>, plain |-> <<Scalar>>]

\* Mutant: the rest is summed for the correction as well.
gemv_q8_vnni_RestSummed ==
    <<<<Loop(64, "while", 1, 1), Loop(1, "while", 0, 1)>>>>

\* One loop accumulates the biased product and the sum that corrects it.
gemv_q8_vnni == <<<<Loop(64, "while", 1, 1), Rest>>>>

gemv_q8 ==
    [avx512 |-> gemv_q8_vnni, avx2 |-> <<Blocked(32)>>, plain |-> <<Scalar>>]

\* rms_norm calls its AVX2 kernel only where AVX-512 is there.
rms_norm ==
    [avx512 |-> <<Blocked(8), Blocked(8)>>, avx2 |-> <<Scalar, Scalar>>,
     plain |-> <<Scalar, Scalar>>]

quantize_activations == [avx512 |-> <<Blocked(16), Blocked(16)>>]

matmul_transposed ==
    [avx512 |-> <<Blocked(8)>>, avx2 |-> <<Scalar>>, plain |-> <<Scalar>>]

\* max, exp, normalise: exp is scalar on every processor.
mojo_softmax_padic ==
    [avx512 |-> <<Blocked(16), Scalar, Blocked(16)>>,
     avx2 |-> <<Scalar, Scalar, Scalar>>, plain |-> <<Scalar, Scalar, Scalar>>]

\* The first vector of the maximum is loaded before the length is looked at.
softmax_padic ==
    [avx512 |-> <<<<Loop(16, "always", 0, 0), Vectors(16), Rest>>,
                  Blocked(16), Blocked(16)>>,
     avx2 |-> <<Scalar, Scalar, Scalar>>, plain |-> <<Scalar, Scalar, Scalar>>]

Kernels ==
    [dot_product |-> dot_product, weighted_sum |-> weighted_sum,
     matmul_w3 |-> matmul_w3, gemv_q8 |-> gemv_q8, rms_norm |-> rms_norm,
     quantize_activations |-> quantize_activations,
     matmul_transposed |-> matmul_transposed,
     mojo_softmax_padic |-> mojo_softmax_padic, softmax_padic |-> softmax_padic]

Passes == Kernels[op][cpu]
Current == Passes[pass][loop]
Done == pass > Len(Passes)

Elements == 0..(n - 1)

Init ==
    /\ op \in Ops
    /\ cpu \in Cpus \cap DOMAIN Kernels[op]
    /\ n \in Sizes
    /\ pass = 1
    /\ loop = 1
    /\ i = 0
    /\ visits = [p \in DOMAIN Passes |-> [e \in Elements |-> 0]]
    /\ excess = [e \in Elements |-> 0]
    /\ reach = 0

\* One iteration of the loop the kernel is in.
Iterate ==
    /\ ~Done
    /\ loop <= Len(Passes[pass])
    /\ i + Current.width <= n \/ Current.repeat = "always"
    /\ LET taken == i..(i + Current.width - 1)
       IN  /\ visits' = [visits EXCEPT ![pass] =
                           [e \in Elements |-> @[e] + IF e \in taken THEN 1 ELSE 0]]
           /\ excess' = [e \in Elements |->
                           excess[e] + IF e \in taken THEN Current.bias ELSE 0]
    /\ i' = i + Current.width
    /\ reach' = IF i' > reach THEN i' ELSE reach
    /\ loop' = IF Current.repeat = "while" THEN loop ELSE loop + 1
    /\ UNCHANGED <<op, cpu, n, pass>>

\* The vector no longer fits: the next loop goes on from the same index.
LeaveLoop ==
    /\ ~Done
    /\ loop <= Len(Passes[pass])
    /\ i + Current.width > n /\ Current.repeat # "always"
    /\ loop' = loop + 1
    /\ UNCHANGED <<op, cpu, n, pass, i, visits, excess, reach>>

NextPass ==
    /\ ~Done
    /\ loop > Len(Passes[pass])
    /\ pass' = pass + 1
    /\ loop' = 1
    /\ i' = 0
    /\ UNCHANGED <<op, cpu, n, visits, excess, reach>>

Next == Iterate \/ LeaveLoop \/ NextPass

Spec == Init /\ [][Next]_vars
-----------------------------------------------------------------------------
TypeOK ==
    /\ op \in Ops /\ cpu \in Cpus /\ n \in Sizes
    /\ pass \in 1..(Len(Passes) + 1)
    /\ loop \in 1..4
    /\ i \in Nat /\ reach \in Nat
    /\ visits \in [DOMAIN Passes -> [Elements -> Nat]]
    /\ excess \in [Elements -> Int]

\* matmul_w3 with VNNI subtracts the bias of the whole row: elements past
\* the last whole vector of 64 are corrected for a bias they never had.
OverCorrected(e) == op = "matmul_w3" /\ cpu = "avx512" /\ e >= n - (n % 64)

\* The softmax of swamp-tensors reads 16 logits of a shorter row.
ReadsPastShortRow == op = "softmax_padic" /\ cpu = "avx512" /\ n < 16

\* On every processor, whatever the row's length leaves over from the vectors,
\* each pass takes each element exactly once, nothing past the row is touched,
\* and the bias of the unsigned products is taken out again - except in the
\* two kernels named above, exactly as described there.
ElementsOnce ==
    Done =>
      /\ \A p \in DOMAIN Passes, e \in Elements : visits[p][e] = 1
      /\ \A e \in Elements : excess[e] = IF OverCorrected(e) THEN -1 ELSE 0
      /\ reach = IF ReadsPastShortRow THEN 16 ELSE n

\* What is in the sum of an element on the way: the third pass of matmul_w3 with
\* VNNI takes the bias out before the fourth has put it in.
Excess(e) ==
    IF ~(op = "matmul_w3" /\ cpu = "avx512") \/ pass < 3 THEN 0
    ELSE IF pass = 3 THEN IF e < i THEN -1 ELSE 0
    ELSE IF OverCorrected(e) THEN -1
    ELSE IF pass = 4 /\ i <= e THEN -1 ELSE 0

\* The index in a pass: at the end it is past the row, and past more than the
\* row only after a vector taken unseen; a loop over vectors of 64 stops at the
\* last whole one.
IndexInv ==
    /\ loop \in 1..(Len(Passes[pass]) + 1)
    /\ i <= n \/ (ReadsPastShortRow /\ pass = 1)
    /\ loop > Len(Passes[pass]) => n <= i
    /\ op = "softmax_padic" /\ cpu = "avx512" /\ pass = 1 =>
          /\ loop = 1 => i = 0
          /\ loop > 1 /\ n < 16 => i = 16
    /\ op = "matmul_w3" /\ cpu = "avx512" /\ pass = 4 =>
          IF loop = 1 THEN i % 64 = 0 ELSE n - (n % 64) <= i

\* Inductive: passes that are over took every element once, the one under way
\* those before its index.
RowInv ==
    /\ op \in DOMAIN Kernels /\ cpu \in DOMAIN Kernels[op] /\ n \in Nat
    /\ pass \in 1..(Len(Passes) + 1)
    /\ loop \in Nat /\ i \in Nat
    /\ visits = [p \in DOMAIN Passes |-> [e \in Elements |->
                    IF p < pass \/ (p = pass /\ e < i) THEN 1 ELSE 0]]
    /\ excess = [e \in Elements |-> Excess(e)]
    /\ reach = IF pass = 1 THEN i ELSE IF ReadsPastShortRow THEN 16 ELSE n
    /\ ~Done => IndexInv
=============================================================================
