---------------------------- MODULE BlockFormats ----------------------------
(***************************************************************************)
(* Where the readers of a quantised block find each weight.  The kernels   *)
(* of swamp-kernels multiply a block without unpacking it; those of        *)
(* swamp-gguf unpack it.  A reader's loop is followed iteration by         *)
(* iteration; what it does to one element is a product: the element of x,  *)
(* the bits of the block that hold the low and the high part of the        *)
(* weight, and the scale it is multiplied by.                              *)
(***************************************************************************)
EXTENDS Integers, FiniteSets

CONSTANT Readers   \* the readers explored, of DOMAIN Iterations

VARIABLES reader, iteration, sum

vars == <<reader, iteration, sum>>

Bits(byte, first, count) == {byte} \X (first..(first + count - 1))

Product(x, low, high, scale, signed) ==
    [x |-> x, low |-> low, high |-> high, scale |-> scale, signed |-> signed]

Nibble(byte, upper) == Bits(byte, IF upper THEN 4 ELSE 0, 4)
-----------------------------------------------------------------------------
(* Q4_K: d, dmin and twelve bytes of scales, then 128 bytes of nibbles.    *)

\* dequant_scalar and the scalar kernels take pairs of sub-blocks: 32 bytes hold
\* the even one in their lower and the odd one in their upper nibbles.
dequant_q4k(pair) ==
    {Product((pair * 2 + odd) * 32 + i, Nibble(16 + pair * 32 + i, odd = 1), {},
             pair * 2 + odd, FALSE) : odd \in 0..1, i \in 0..31}

q4k_scalar(pair) ==
    {Product(pair * 64 + i, Nibble(16 + pair * 32 + (i % 32), i >= 32), {},
             pair * 2 + i \div 32, FALSE) : i \in 0..63}

\* The vector readers take 16 bytes for each sub-block: its first half from the
\* lower and its second half from the upper nibbles.
Halves(sb) ==
    {Product(sb * 32 + half * 16 + k, Nibble(16 + sb * 16 + k, half = 1), {},
             sb, FALSE) : half \in 0..1, k \in 0..15}

q4k_avx2(sb) == Halves(sb)

\* Two loads of 64 bytes, four sub-blocks extracted from each.
dequant_avx512(load) == UNION {Halves(load * 4 + part) : part \in 0..3}

dequant_avx2(sb) == Halves(sb)

dequantize_q4k_block(sb) == Halves(sb)

\* VNNI takes the same bytes twice in 64 lanes, against elements 0..31 and
\* 16..47 of the sub-block, and no scale: scales are in the correction only.
q4k_vnni(sb) ==
    {Product(sb * 32 + 16 * copy + half * 16 + k,
             Nibble(16 + sb * 16 + k, half = 1), {}, -1, FALSE)
        : copy \in 0..1, half \in 0..1, k \in 0..15}
-----------------------------------------------------------------------------
(* Q6_K: 128 bytes of low nibbles, 64 of high bit pairs, 16 scales, d.     *)

\* q1..q4 of one l: 32 elements apart, two nibbles of ql[l] and ql[l + 32],
\* four bit pairs of qh[l].
q6k_at(half, l, signed) ==
    {Product(half * 128 + l + 32 * q,
             Nibble(half * 64 + l + 32 * (q % 2), q >= 2),
             Bits(128 + half * 32 + l, 2 * q, 2),
             half * 8 + l \div 16 + 2 * q, signed) : q \in 0..3}

q6k_scalar(k) == q6k_at(k \div 32, k % 32, TRUE)

\* dequant_scalar of q6_k.rs moves on by 64, 32 and 8 bytes after 128 elements.
dequant_q6k(half) == UNION {q6k_at(half, l, TRUE) : l \in 0..31}

\* The vector kernels convert a scale byte to float without its sign.
q6k_avx512(k) ==
    UNION {q6k_at(k \div 2, (k % 2) * 16 + l, FALSE) : l \in 0..15}

\* Mutant: the two groups of eight read the same bytes.
q6k_avx2_NoSub(k) ==
    UNION {q6k_at(k \div 4, ((k \div 2) % 2) * 16 + l, FALSE) : l \in 0..7}

q6k_avx2(k) ==
    UNION {q6k_at(k \div 4, ((k \div 2) % 2) * 16 + (k % 2) * 8 + l, FALSE)
              : l \in 0..7}
-----------------------------------------------------------------------------
(* The formats with one reader.                                            *)

\* Q5_K: the nibbles as the AVX2 reader of Q4_K takes them, a high bit each.
q5k(sb) ==
    {Product(sb * 32 + i, Nibble(48 + sb * 16 + (i % 16), i >= 16),
             Bits(16 + (sb * 32 + i) \div 8, (sb * 32 + i) % 8, 1), sb, FALSE)
        : i \in 0..31}

\* Q3_K: two bits of qs, shifted by two for each of four groups of a half, and
\* a bit of hmask that moves up with every group of both halves.
Q3KGroup(group, mask) ==
    {Product((group \div 8) * 128 + ((group \div 2) % 4) * 32 + (group % 2) * 16 + l,
             Bits(32 + (group \div 8) * 32 + (group % 2) * 16 + l,
                  2 * ((group \div 2) % 4), 2),
             Bits((group % 2) * 16 + l, mask, 1), group, TRUE)
        : l \in 0..15}

\* Mutant: the mask starts again with each half, as the shift does.
q3k_MaskPerHalf(group) == Q3KGroup(group, (group \div 2) % 4)

q3k(group) == Q3KGroup(group, group \div 2)

\* Q2_K: four weights to a byte.
q2k(sb) ==
    {Product(sb * 16 + i, Bits(16 + sb * 4 + i \div 4, 2 * (i % 4), 2), {},
             sb, FALSE) : i \in 0..15}

\* Q4_0: 32 weights, neighbours in one byte.
q4_0(i) == {Product(i, Nibble(2 + i \div 2, i % 2 = 1), {}, 0, TRUE)}
-----------------------------------------------------------------------------
Iterations ==
    [dequant_q4k |-> 4, q4k_scalar |-> 4, q4k_avx2 |-> 8,
     dequant_avx512 |-> 2, dequant_avx2 |-> 8, dequantize_q4k_block |-> 8,
     q4k_vnni |-> 8, dequant_q6k |-> 2, q6k_scalar |-> 64,
     q6k_avx512 |-> 4, q6k_avx2 |-> 8, q5k |-> 8, q3k |-> 16, q2k |-> 16,
     q4_0 |-> 32]

Products(k) ==
    CASE reader = "dequant_q4k" -> dequant_q4k(k)
      [] reader = "q4k_scalar" -> q4k_scalar(k)
      [] reader = "q4k_avx2" -> q4k_avx2(k)
      [] reader = "dequant_avx512" -> dequant_avx512(k)
      [] reader = "dequant_avx2" -> dequant_avx2(k)
      [] reader = "dequantize_q4k_block" -> dequantize_q4k_block(k)
      [] reader = "q4k_vnni" -> q4k_vnni(k)
      [] reader = "dequant_q6k" -> dequant_q6k(k)
      [] reader = "q6k_scalar" -> q6k_scalar(k)
      [] reader = "q6k_avx512" -> q6k_avx512(k)
      [] reader = "q6k_avx2" -> q6k_avx2(k)
      [] reader = "q5k" -> q5k(k)
      [] reader = "q3k" -> q3k(k)
      [] reader = "q2k" -> q2k(k)
      [] reader = "q4_0" -> q4_0(k)

Init ==
    /\ reader \in Readers
    /\ iteration = 0
    /\ sum = {}

Multiply ==
    /\ iteration < Iterations[reader]
    /\ sum' = sum \union Products(iteration)
    /\ iteration' = iteration + 1
    /\ UNCHANGED reader

Spec == Init /\ [][Multiply]_vars
-----------------------------------------------------------------------------
\* What a block holds is what dequant_q4k and dequant_q6k of swamp-gguf unpack.
FusedQ4K == {"q4k_scalar", "q4k_avx2", "q4k_vnni"}
FusedQ6K == {"q6k_scalar", "q6k_avx512", "q6k_avx2"}
UnpackedQ4K == UNION {dequant_q4k(pair) : pair \in 0..3}
UnpackedQ6K == UNION {dequant_q6k(half) : half \in 0..1}

SignDropped(p) == [p EXCEPT !.signed = FALSE]

TypeOK ==
    /\ reader \in Readers
    /\ iteration \in 0..Iterations[reader]
    /\ \A p \in sum : p.x \in Nat /\ p.scale \in -1..15

Done == iteration = Iterations[reader]

\* "out[i] = sum over j of W[i,j] * x[j]": in the kernels for Q4_K each element
\* of x meets the weight and the scale the unpacked block has in its place.
FusedQ4KIsDequantised == Done /\ reader \in FusedQ4K => sum = UnpackedQ4K

\* Every kernel for Q6_K multiplies each element by the weight and the scale the
\* unpacked block has there, however it groups them into vectors; only the sign
\* of the scale is lost, and only by the vector kernels.  So does the scalar
\* kernel for Q4_K.
KernelsReadAlike ==
    Done =>
      /\ reader = "q4k_scalar" => sum = UnpackedQ4K
      /\ reader \in FusedQ6K =>
            sum = IF reader = "q6k_scalar" THEN UnpackedQ6K
                  ELSE {SignDropped(p) : p \in UnpackedQ6K}

Size == IF reader = "q4_0" THEN 32 ELSE 256

\* Each element of a block has one weight, and no two weights share a bit:
\* the index arithmetic of no dequantiser reads a bit twice and thereby leaves
\* another unread.
BitsReadOnce ==
    Done /\ reader # "q4k_vnni" =>
        /\ {p.x : p \in sum} = 0..(Size - 1)
        /\ Cardinality(sum) = Size
        /\ LET each == {p.low \union p.high : p \in sum}
           IN  Cardinality(UNION each)
                 = Size * Cardinality(CHOOSE bits \in each : TRUE)
=============================================================================
