--------------------------- MODULE Weights_proofs ---------------------------
(***************************************************************************)
(* Proofs about the way of the weights (MCWeights), for every value of the *)
(* constants: scales of six bits survive their packing; a dense kernel     *)
(* takes every element of a row of any length once; the parts linear.rs    *)
(* hands to its threads hold every row, and no row twice; however the      *)
(* threads interleave, each block of each row is in its sum once; the      *)
(* bytes of a tensor are given when the file has them all, and only then;  *)
(* the kernels that multiply a block find in it what unpacking it finds;   *)
(* every reader of a block, but VNNI's, reads each of its bits once.       *)
(***************************************************************************)
EXTENDS MCWeights, RowPartition, Integers, WellFoundedInduction, FiniteSetTheorems,
        SequenceTheorems, TLAPS
-----------------------------------------------------------------------------
(* Scales and minima: KQuantScales.                                        *)

\* A six-bit value's upper two bits, put above the six bits of another byte,
\* leave both values to be read.
LEMMA SixBitsAndTwo ==
  ASSUME NEW s \in 0..63, NEW t \in 0..63
  PROVE  /\ s + (t \div 16) * 64 \in 0..255
         /\ (s + (t \div 16) * 64) % 64 = s
         /\ (s + (t \div 16) * 64) \div 64 = t \div 16
  BY SMT

\* The lower four bits of two values share a byte.
LEMMA TwoNibbles ==
  ASSUME NEW s \in 0..63, NEW t \in 0..63
  PROVE  /\ (s % 16) + (t % 16) * 16 \in 0..255
         /\ ((s % 16) + (t % 16) * 16) % 16 = s % 16
         /\ ((s % 16) + (t % 16) * 16) \div 16 = t % 16
  BY SMT

\* Four lower bits and two upper ones make six.
LEMMA SixBits ==
  ASSUME NEW t \in 0..63
  PROVE  (t % 16) + (t \div 16) * 16 = t
  BY SMT

\* What unpack_scales reads from the packed bytes is what was packed.
LEMMA UnpackedIsPacked ==
  ASSUME slot1 \in [0..7 -> 0..63], slot2 \in [0..7 -> 0..63],
         slot3 = Scales!Packed
  PROVE  Scales!Unpack = [scales |-> slot1, mins |-> slot2]
<1>1. \A k \in 0..3 : slot3[k] = slot1[k] + (slot1[k + 4] \div 16) * 64
  BY DEF Scales!Packed
<1>2. \A k \in 4..7 : slot3[k] = slot2[k - 4] + (slot2[k] \div 16) * 64
  BY DEF Scales!Packed
<1>3. \A k \in 8..11 : slot3[k] = (slot1[k - 4] % 16) + (slot2[k - 4] % 16) * 16
  BY DEF Scales!Packed
<1>4. ASSUME NEW b \in 0..7
      PROVE  (IF b < 4 THEN slot3[b] % 64
              ELSE (slot3[b + 4] % 16) + (slot3[b - 4] \div 64) * 16) = slot1[b]
  <2>1. CASE b < 4
    <3>1. b \in 0..3 /\ b + 4 \in 0..7
      BY <2>1
    <3> QED
      BY <1>1, <2>1, <3>1, SixBitsAndTwo
  <2>2. CASE ~(b < 4)
    <3>1. b - 4 \in 0..3 /\ b + 4 \in 8..11 /\ (b - 4) + 4 = b /\ (b + 4) - 4 = b
      BY <2>2
    <3>2. slot1[b - 4] \in 0..63 /\ slot1[b] \in 0..63 /\ slot2[b] \in 0..63
      BY <3>1
    <3>3. slot3[b + 4] = (slot1[b] % 16) + (slot2[b] % 16) * 16
      BY <1>3, <3>1
    <3>4. slot3[b - 4] = slot1[b - 4] + (slot1[b] \div 16) * 64
      BY <1>1, <3>1
    <3>5. slot3[b + 4] % 16 = slot1[b] % 16 /\ slot3[b - 4] \div 64 = slot1[b] \div 16
      BY <3>2, <3>3, <3>4, SixBitsAndTwo, TwoNibbles
    <3> QED
      BY <2>2, <3>2, <3>5, SixBits
  <2> QED
    BY <2>1, <2>2
<1>5. ASSUME NEW b \in 0..7
      PROVE  (IF b < 4 THEN slot3[b + 4] % 64
              ELSE slot3[b + 4] \div 16 + (slot3[b] \div 64) * 16) = slot2[b]
  <2>1. CASE b < 4
    <3>1. b + 4 \in 4..7 /\ (b + 4) - 4 = b /\ b + 4 \in 0..7
      BY <2>1
    <3> QED
      BY <1>2, <2>1, <3>1, SixBitsAndTwo
  <2>2. CASE ~(b < 4)
    <3>1. b \in 4..7 /\ b - 4 \in 0..7 /\ b + 4 \in 8..11 /\ (b + 4) - 4 = b
      BY <2>2
    <3>2. slot2[b - 4] \in 0..63 /\ slot1[b] \in 0..63 /\ slot2[b] \in 0..63
      BY <3>1
    <3>3. slot3[b + 4] = (slot1[b] % 16) + (slot2[b] % 16) * 16
      BY <1>3, <3>1
    <3>4. slot3[b] = slot2[b - 4] + (slot2[b] \div 16) * 64
      BY <1>2, <3>1
    <3>5. slot3[b + 4] \div 16 = slot2[b] % 16 /\ slot3[b] \div 64 = slot2[b] \div 16
      BY <3>2, <3>3, <3>4, SixBitsAndTwo, TwoNibbles
    <3> QED
      BY <2>2, <3>2, <3>5, SixBits
  <2> QED
    BY <2>1, <2>2
<1>6. slot1 = [b \in 0..7 |-> IF b < 4 THEN slot3[b] % 64
                 ELSE (slot3[b + 4] % 16) + (slot3[b - 4] \div 64) * 16]
  BY <1>4
<1>7. slot2 = [b \in 0..7 |-> IF b < 4 THEN slot3[b + 4] % 64
                 ELSE slot3[b + 4] \div 16 + (slot3[b] \div 64) * 16]
  BY <1>5
<1> QED
  BY <1>6, <1>7, Zenon DEF Scales!Unpack, Scales!SubBlocks

\* Before packing nothing has been unpacked.
LEMMA ScalesInit == Init => (subject = "scales" => Scales!PackedInv)
<1> SUFFICES ASSUME Init, subject = "scales" PROVE Scales!PackedInv
  OBVIOUS
<1>1. Scales!Init
  BY DEF Init
<1>2. PICK j \in 0..3, s \in SixBit, t \in SixBit, u \in SixBit, v \in SixBit :
        slot1 = Scales!Only(j, s, t) /\ slot2 = Scales!Only(j, u, v)
  BY <1>1 DEF Scales!Init
<1>3. slot1 \in [0..7 -> 0..63] /\ slot2 \in [0..7 -> 0..63]
  BY <1>2, ScalesAssumption DEF Scales!Only, Scales!SubBlocks
<1>4. slot6 = "pack"
  BY <1>1 DEF Scales!Init
<1> QED
  BY <1>3, <1>4 DEF Scales!PackedInv, Scales!ScalesUnpacked, Scales!SubBlocks

\* Packing establishes what Unpack needs; unpacking gives the values back.
LEMMA ScalesStep ==
  ASSUME subject = "scales" => Scales!PackedInv, [Next]_vars
  PROVE  (subject = "scales" => Scales!PackedInv)'
<1> SUFFICES ASSUME subject' = "scales" PROVE Scales!PackedInv'
  OBVIOUS
<1>1. CASE UNCHANGED vars
  BY <1>1 DEF vars, Scales!PackedInv, Scales!ScalesUnpacked, Scales!Packed
<1>2. CASE Next
  <2>1. subject = "scales" /\ Scales!Next /\ Scales!PackedInv
    BY <1>2 DEF Next
  <2>2. /\ slot1 \in [0..7 -> 0..63] /\ slot2 \in [0..7 -> 0..63]
        /\ slot6 = "unpack" => slot3 = Scales!Packed
    BY <2>1 DEF Scales!PackedInv, Scales!SubBlocks
  <2>3. CASE Scales!make_q4k_block
    <3>1. /\ slot1' = slot1 /\ slot2' = slot2 /\ slot6' = "unpack"
          /\ slot3' = Scales!Packed
      BY <2>3 DEF Scales!make_q4k_block
    <3>2. Scales!Packed' = Scales!Packed
      BY <3>1 DEF Scales!Packed
    <3> QED
      BY <2>2, <3>1, <3>2
      DEF Scales!PackedInv, Scales!ScalesUnpacked, Scales!SubBlocks
  <2>4. CASE Scales!Dequantise
    <3>1. /\ slot1' = slot1 /\ slot2' = slot2 /\ slot6' = "done"
          /\ slot4' = Scales!Unpack /\ slot3 = Scales!Packed
      BY <2>2, <2>4 DEF Scales!Dequantise
    <3>2. slot4' = [scales |-> slot1, mins |-> slot2]
      BY <2>2, <3>1, UnpackedIsPacked
    <3> QED
      BY <2>2, <3>1, <3>2
      DEF Scales!PackedInv, Scales!ScalesUnpacked, Scales!SubBlocks
  <2> QED
    BY <2>1, <2>3, <2>4 DEF Scales!Next
<1> QED
  BY <1>1, <1>2

\* Every scale and every minimum of six bits survives packing and unpacking by
\* unpack_scales and unpack_scales_q4k.
THEOREM EveryScaleUnpacked == Spec => []ScalesUnpacked
<1>1. (subject = "scales" => Scales!PackedInv) => ScalesUnpacked
  BY DEF ScalesUnpacked, Scales!PackedInv
<1> QED
  BY <1>1, ScalesInit, ScalesStep, PTL DEF Spec
-----------------------------------------------------------------------------
(* Rows of the dense kernels: DenseKernels.                                *)

\* A row's last loop takes single elements as long as there are any.
Walk(w) ==
    /\ Len(w) \in Nat \ {0} /\ Len(w) <= 3
    /\ \A l \in 1..Len(w) : w[l].width \in Nat \ {0}
    /\ w[Len(w)].width = 1 /\ w[Len(w)].repeat = "while"

PlainWalk(w) ==
    /\ Walk(w)
    /\ \A l \in 1..Len(w) : w[l].bias = 0 /\ w[l].repeat # "always"

PlainKernel(P) ==
    /\ Len(P) \in Nat \ {0}
    /\ DOMAIN P = 1..Len(P)
    /\ \A p \in 1..Len(P) : PlainWalk(P[p])

\* Plain passes make a plain kernel.
LEMMA PlainKernels ==
  /\ \A u : PlainWalk(u) => PlainKernel(<<u>>)
  /\ \A u, v : PlainWalk(u) /\ PlainWalk(v) => PlainKernel(<<u, v>>)
  /\ \A u, v, w : PlainWalk(u) /\ PlainWalk(v) /\ PlainWalk(w)
                    => PlainKernel(<<u, v, w>>)
<1> HIDE DEF PlainWalk
<1>1. ASSUME NEW u, PlainWalk(u) PROVE PlainKernel(<<u>>)
  BY <1>1 DEF PlainKernel
<1>2. ASSUME NEW u, NEW v, PlainWalk(u), PlainWalk(v) PROVE PlainKernel(<<u, v>>)
  BY <1>2 DEF PlainKernel
<1>3. ASSUME NEW u, NEW v, NEW w, PlainWalk(u), PlainWalk(v), PlainWalk(w)
      PROVE PlainKernel(<<u, v, w>>)
  BY <1>3 DEF PlainKernel
<1> QED
  BY <1>1, <1>2, <1>3

\* The two walks most kernels are made of are plain.
LEMMA PlainWalks ==
  /\ PlainWalk(Dense!Scalar)
  /\ \A k \in Nat \ {0} : PlainWalk(Dense!Blocked(k))
<1>1. PlainWalk(Dense!Scalar)
  BY DEF PlainWalk, Walk, Dense!Scalar, Dense!Rest, Dense!Vectors, Dense!Loop
<1>2. ASSUME NEW k \in Nat \ {0} PROVE PlainWalk(Dense!Blocked(k))
  BY DEF PlainWalk, Walk, Dense!Blocked, Dense!Rest, Dense!Vectors, Dense!Loop
<1> QED
  BY <1>1, <1>2

\* The kernels without a bias, and without a vector taken unseen.
LEMMA KernelShapes ==
  ASSUME NEW o \in DOMAIN Dense!Kernels, NEW c \in DOMAIN Dense!Kernels[o],
         ~(o = "matmul_w3" /\ c = "avx512"), ~(o = "softmax_padic" /\ c = "avx512")
  PROVE  PlainKernel(Dense!Kernels[o][c])
<1> DEFINE S == Dense!Scalar
           B(k) == Dense!Blocked(k)
<1>1. /\ PlainKernel(<<S>>) /\ PlainKernel(<<S, S>>) /\ PlainKernel(<<S, S, S>>)
      /\ PlainKernel(<<B(8)>>) /\ PlainKernel(<<B(16)>>) /\ PlainKernel(<<B(32)>>)
      /\ PlainKernel(<<B(8), B(8)>>) /\ PlainKernel(<<B(16), B(16)>>)
      /\ PlainKernel(<<B(16), S, B(16)>>)
  <2>1. PlainWalk(S) /\ PlainWalk(B(8)) /\ PlainWalk(B(16)) /\ PlainWalk(B(32))
    BY PlainWalks
  <2> HIDE DEF S, B
  <2> QED
    BY <2>1, PlainKernels
<1>2. PlainKernel(Dense!gemv_q8_vnni)
  <2>1. PlainWalk(<<Dense!Loop(64, "while", 1, 1), Dense!Rest>>)
    BY DEF PlainWalk, Walk, Dense!Rest, Dense!Vectors, Dense!Loop
  <2> QED
    BY <2>1, PlainKernels, Zenon DEF Dense!gemv_q8_vnni
<1>3. PlainKernel(<<<<Dense!Vectors(16), Dense!Loop(8, "if", 0, 0), Dense!Rest>>>>)
  <2>1. PlainWalk(<<Dense!Vectors(16), Dense!Loop(8, "if", 0, 0), Dense!Rest>>)
    BY DEF PlainWalk, Walk, Dense!Rest, Dense!Vectors, Dense!Loop
  <2> QED
    BY <2>1, PlainKernels, Zenon
<1> HIDE DEF S, B
<1>4. CASE o = "dot_product"
  <2>1. Dense!Kernels[o] = Dense!dot_product
    BY <1>4 DEF Dense!Kernels
  <2> QED
    BY <1>1, <1>3, <2>1 DEF S, B, Dense!dot_product
<1>5. CASE o = "weighted_sum"
  <2>1. Dense!Kernels[o] = Dense!weighted_sum
    BY <1>5 DEF Dense!Kernels
  <2> QED
    BY <1>1, <2>1 DEF S, B, Dense!weighted_sum
<1>6. CASE o = "matmul_w3"
  <2>1. Dense!Kernels[o] = Dense!matmul_w3
    BY <1>6 DEF Dense!Kernels
  <2> QED
    BY <1>1, <1>6, <2>1 DEF S, B, Dense!matmul_w3
<1>7. CASE o = "gemv_q8"
  <2>1. Dense!Kernels[o] = Dense!gemv_q8
    BY <1>7 DEF Dense!Kernels
  <2> QED
    BY <1>1, <1>2, <2>1 DEF S, B, Dense!gemv_q8
<1>8. CASE o = "rms_norm"
  <2>1. Dense!Kernels[o] = Dense!rms_norm
    BY <1>8 DEF Dense!Kernels
  <2> QED
    BY <1>1, <2>1 DEF S, B, Dense!rms_norm
<1>9. CASE o = "quantize_activations"
  <2>1. Dense!Kernels[o] = Dense!quantize_activations
    BY <1>9 DEF Dense!Kernels
  <2> QED
    BY <1>1, <2>1 DEF S, B, Dense!quantize_activations
<1>10. CASE o = "matmul_transposed"
  <2>1. Dense!Kernels[o] = Dense!matmul_transposed
    BY <1>10 DEF Dense!Kernels
  <2> QED
    BY <1>1, <2>1 DEF S, B, Dense!matmul_transposed
<1>11. CASE o = "mojo_softmax_padic"
  <2>1. Dense!Kernels[o] = Dense!mojo_softmax_padic
    BY <1>11 DEF Dense!Kernels
  <2> QED
    BY <1>1, <2>1 DEF S, B, Dense!mojo_softmax_padic
<1>12. CASE o = "softmax_padic"
  <2>1. Dense!Kernels[o] = Dense!softmax_padic
    BY <1>12 DEF Dense!Kernels
  <2> QED
    BY <1>1, <1>12, <2>1 DEF S, B, Dense!softmax_padic
<1> QED
  BY <1>4, <1>5, <1>6, <1>7, <1>8, <1>9, <1>10, <1>11, <1>12 DEF Dense!Kernels

IsVnni(o, c) == o = "matmul_w3" /\ c = "avx512"
IsUnseen(o, c) == o = "softmax_padic" /\ c = "avx512"

\* What the proofs use of a kernel's passes P.
Shape(P, o, c) ==
    /\ Len(P) \in Nat \ {0} /\ DOMAIN P = 1..Len(P)
    /\ \A p \in 1..Len(P) :
          /\ Walk(P[p])
          /\ \A l \in 1..Len(P[p]) :
                /\ P[p][l].repeat = "always" <=> IsUnseen(o, c) /\ p = 1 /\ l = 1
                /\ P[p][l].bias = IF ~IsVnni(o, c) \/ p < 3 THEN 0
                                  ELSE IF p = 3 THEN -1 ELSE IF l = 1 THEN 1 ELSE 0
    /\ IsUnseen(o, c) => P[1][1].width = 16
    /\ IsVnni(o, c) => Len(P) = 4 /\ Len(P[4]) = 2 /\ P[4][1].width = 64
                         /\ P[4][1].repeat = "while"

\* Every kernel has its Shape.
LEMMA Shapes ==
  ASSUME NEW o \in DOMAIN Dense!Kernels, NEW c \in DOMAIN Dense!Kernels[o]
  PROVE  Shape(Dense!Kernels[o][c], o, c)
<1> DEFINE P == Dense!Kernels[o][c]
<1>1. CASE ~IsVnni(o, c) /\ ~IsUnseen(o, c)
  <2>1. PlainKernel(P)
    BY <1>1, KernelShapes DEF IsVnni, IsUnseen
  <2> HIDE DEF P
  <2>2. Shape(P, o, c)
    BY <1>1, <2>1 DEF Shape, PlainKernel, PlainWalk
  <2> QED
    BY <2>2 DEF P
<1>2. CASE IsVnni(o, c)
  <2>1. P = Dense!matmul_w3_vnni
    BY <1>2 DEF IsVnni, Dense!Kernels, Dense!matmul_w3
  <2>2. PlainWalk(Dense!Blocked(16))
    BY PlainWalks
  <2> DEFINE u == <<Dense!Loop(64, "while", 0, 1), Dense!Loop(1, "while", 0, 1)>>
             v == <<Dense!Loop(64, "while", 1, 0), Dense!Rest>>
  <2>3. /\ Walk(u) /\ Len(u) = 2
        /\ \A l \in 1..2 : u[l].bias = -1 /\ u[l].repeat # "always"
    BY DEF Walk, Dense!Loop
  <2>4. /\ Walk(v) /\ Len(v) = 2 /\ v[1].width = 64 /\ v[1].repeat = "while"
        /\ v[1].bias = 1 /\ v[2].bias = 0
        /\ \A l \in 1..2 : v[l].repeat # "always"
    BY DEF Walk, Dense!Loop, Dense!Rest, Dense!Vectors
  <2>5. P = <<Dense!Blocked(16), Dense!Blocked(16), u, v>>
    BY <2>1 DEF Dense!matmul_w3_vnni
  <2> HIDE DEF u, v, P
  <2>6. /\ Len(P) = 4 /\ DOMAIN P = 1..4 /\ P[3] = u /\ P[4] = v
        /\ P[1] = Dense!Blocked(16) /\ P[2] = Dense!Blocked(16)
    BY <2>5
  <2>7. ~IsUnseen(o, c)
    BY <1>2 DEF IsVnni, IsUnseen
  <2>8. ASSUME NEW p \in 1..4
        PROVE  /\ Walk(P[p])
               /\ \A l \in 1..Len(P[p]) :
                     /\ P[p][l].repeat # "always"
                     /\ P[p][l].bias = IF p < 3 THEN 0
                            ELSE IF p = 3 THEN -1 ELSE IF l = 1 THEN 1 ELSE 0
    <3>1. CASE p = 1 \/ p = 2
      BY <2>2, <2>6, <3>1 DEF PlainWalk
    <3>2. CASE p = 3
      BY <2>3, <2>6, <3>2
    <3>3. CASE p = 4
      BY <2>4, <2>6, <3>3
    <3> QED
      BY <3>1, <3>2, <3>3
  <2>9. Shape(P, o, c)
    BY <1>2, <2>4, <2>6, <2>7, <2>8 DEF Shape
  <2> QED
    BY <2>9 DEF P
<1>3. CASE IsUnseen(o, c)
  <2> DEFINE u == <<Dense!Loop(16, "always", 0, 0), Dense!Vectors(16), Dense!Rest>>
  <2>1. P = <<u, Dense!Blocked(16), Dense!Blocked(16)>>
    BY <1>3 DEF IsUnseen, Dense!Kernels, Dense!softmax_padic
  <2>2. PlainWalk(Dense!Blocked(16))
    BY PlainWalks
  <2>3. /\ Walk(u) /\ Len(u) = 3 /\ u[1].width = 16
        /\ \A l \in 1..3 : u[l].bias = 0 /\ (u[l].repeat = "always" <=> l = 1)
    BY DEF Walk, Dense!Loop, Dense!Rest, Dense!Vectors
  <2> HIDE DEF u, P
  <2>4. /\ Len(P) = 3 /\ DOMAIN P = 1..3 /\ P[1] = u
        /\ P[2] = Dense!Blocked(16) /\ P[3] = Dense!Blocked(16)
    BY <2>1
  <2>5. ~IsVnni(o, c)
    BY <1>3 DEF IsVnni, IsUnseen
  <2>6. ASSUME NEW p \in 1..3
        PROVE  /\ Walk(P[p])
               /\ \A l \in 1..Len(P[p]) :
                     /\ P[p][l].repeat = "always" <=> p = 1 /\ l = 1
                     /\ P[p][l].bias = 0
    <3>1. CASE p = 1
      BY <2>3, <2>4, <3>1
    <3>2. CASE p # 1
      BY <2>2, <2>4, <3>2 DEF PlainWalk
    <3> QED
      BY <3>1, <3>2
  <2>7. Shape(P, o, c)
    BY <1>3, <2>3, <2>4, <2>5, <2>6 DEF Shape
  <2> QED
    BY <2>7 DEF P
<1> QED
  BY <1>1, <1>2, <1>3

\* The elements that whole vectors of 64 take.
LEMMA WholeVectors ==
  ASSUME NEW m \in Nat, NEW k \in Nat
  PROVE  /\ m - (m % 64) \in Nat /\ m - (m % 64) <= m
         /\ k % 64 = 0 =>
               /\ (k + 64) % 64 = 0
               /\ k + 64 <= m => k + 64 <= m - (m % 64)
               /\ k <= m /\ m < k + 64 => m - (m % 64) = k
  BY SMT

\* A kernel begins with nothing taken.
LEMMA DenseInit == Init => (subject = "dense" => Dense!RowInv)
<1> SUFFICES ASSUME Init, subject = "dense" PROVE Dense!RowInv
  OBVIOUS
<1> DEFINE P == Dense!Kernels[slot1][slot2]
<1>1. /\ slot1 \in DOMAIN Dense!Kernels /\ slot2 \in DOMAIN Dense!Kernels[slot1]
      /\ slot3 \in Nat /\ slot4 = 1 /\ slot5 = 1 /\ slot6 = 0 /\ slot9 = 0
      /\ slot7 = [p \in DOMAIN P |-> [e \in Dense!Elements |-> 0]]
      /\ slot8 = [e \in Dense!Elements |-> 0]
  BY DenseAssumption DEF Init, Dense!Init, Dense!Passes
<1>2. Shape(P, slot1, slot2)
  BY <1>1, Shapes
<1> HIDE DEF P
<1>3. Dense!Passes = P
  BY DEF Dense!Passes, P
<1>4. slot7 = [p \in DOMAIN P |-> [e \in Dense!Elements |->
                 IF p < slot4 \/ (p = slot4 /\ e < slot6) THEN 1 ELSE 0]]
  <2>1. ASSUME NEW p \in DOMAIN P, NEW e \in Dense!Elements
        PROVE  ~(p < slot4 \/ (p = slot4 /\ e < slot6))
    BY <1>1, <1>2 DEF Shape, Dense!Elements
  <2> QED
    BY <1>1, <2>1
<1>5. slot8 = [e \in Dense!Elements |-> Dense!Excess(e)]
  BY <1>1 DEF Dense!Excess
<1>6. Dense!IndexInv
  <2>1. Walk(P[1])
    BY <1>2 DEF Shape
  <2> QED
    BY <1>1, <1>3, <2>1 DEF Dense!IndexInv, Dense!ReadsPastShortRow, Walk
<1>7. slot4 \in 1..(Len(P) + 1) /\ slot5 \in Nat /\ slot6 \in Nat
  BY <1>1, <1>2 DEF Shape
<1> QED
  BY <1>1, <1>3, <1>4, <1>5, <1>6, <1>7 DEF Dense!RowInv

\* An iteration takes the elements between the index before and after it.
LEMMA IterateKeeps ==
  ASSUME Dense!RowInv, Dense!Iterate
  PROVE  Dense!RowInv'
<1> DEFINE P == Dense!Passes
           C == Dense!Current
<1>1. /\ slot1 \in DOMAIN Dense!Kernels /\ slot2 \in DOMAIN Dense!Kernels[slot1]
      /\ slot3 \in Nat /\ slot6 \in Nat /\ slot4 \in 1..(Len(P) + 1)
  BY DEF Dense!RowInv
<1>2. Shape(P, slot1, slot2)
  BY <1>1, Shapes DEF Dense!Passes
<1>3. /\ slot1' = slot1 /\ slot2' = slot2 /\ slot3' = slot3 /\ slot4' = slot4
      /\ slot6' = slot6 + C.width
      /\ slot9' = IF slot6' > slot9 THEN slot6' ELSE slot9
      /\ slot5' = IF C.repeat = "while" THEN slot5 ELSE slot5 + 1
      /\ slot6 + C.width <= slot3 \/ C.repeat = "always"
      /\ ~(slot4 > Len(P)) /\ slot5 <= Len(P[slot4])
  BY DEF Dense!Iterate, Dense!Done
<1>4. /\ slot7' = [slot7 EXCEPT ![slot4] = [e \in Dense!Elements |->
                     @[e] + IF e \in slot6..(slot6 + C.width - 1) THEN 1 ELSE 0]]
      /\ slot8' = [e \in Dense!Elements |-> slot8[e] +
                     IF e \in slot6..(slot6 + C.width - 1) THEN C.bias ELSE 0]
  BY DEF Dense!Iterate
<1>5. /\ slot7 = [p \in DOMAIN P |-> [e \in Dense!Elements |->
                    IF p < slot4 \/ (p = slot4 /\ e < slot6) THEN 1 ELSE 0]]
      /\ slot8 = [e \in Dense!Elements |-> Dense!Excess(e)]
      /\ slot9 = IF slot4 = 1 THEN slot6 ELSE
                 IF Dense!ReadsPastShortRow THEN 16 ELSE slot3
      /\ slot5 \in Nat
  BY DEF Dense!RowInv
<1>6. Dense!IndexInv
  BY <1>3 DEF Dense!RowInv, Dense!Done
<1>7. /\ P' = P /\ Dense!Elements' = Dense!Elements
      /\ Dense!ReadsPastShortRow' <=> Dense!ReadsPastShortRow
      /\ \A e : Dense!OverCorrected(e)' <=> Dense!OverCorrected(e)
  BY <1>3 DEF Dense!Passes, Dense!Elements, Dense!ReadsPastShortRow,
              Dense!OverCorrected
<1>8. C = P[slot4][slot5]
  BY DEF Dense!Current
<1>9. slot5 \in 1..(Len(P[slot4]) + 1)
  BY <1>6 DEF Dense!IndexInv
<1> HIDE DEF P, C
<1>16. slot4 \in 1..Len(P) /\ Walk(P[slot4]) /\ slot5 \in 1..Len(P[slot4])
  <2>1. slot4 \in 1..Len(P) /\ Walk(P[slot4])
    BY <1>1, <1>2, <1>3 DEF Shape
  <2> QED
    BY <1>3, <1>9, <2>1 DEF Walk
<1>10. /\ C.width \in Nat \ {0}
       /\ C.repeat = "always" <=>
             IsUnseen(slot1, slot2) /\ slot4 = 1 /\ slot5 = 1
       /\ C.bias = IF ~IsVnni(slot1, slot2) \/ slot4 < 3 THEN 0
                   ELSE IF slot4 = 3 THEN -1 ELSE IF slot5 = 1 THEN 1 ELSE 0
       /\ slot5 = Len(P[slot4]) => C.width = 1 /\ C.repeat = "while"
  BY <1>2, <1>8, <1>16 DEF Shape, Walk
<1>11. slot6' \in Nat /\ slot5' \in Nat /\ slot6 < slot6'
  BY <1>1, <1>3, <1>5, <1>10
<1>12. slot7' = [p \in DOMAIN P' |-> [e \in Dense!Elements' |->
                   IF p < slot4' \/ (p = slot4' /\ e < slot6') THEN 1 ELSE 0]]
  <2>1. DOMAIN P = 1..Len(P) /\ slot4 \in DOMAIN P
    BY <1>2, <1>16 DEF Shape
  <2>2. ASSUME NEW e \in Dense!Elements
        PROVE  slot7[slot4][e] + (IF e \in slot6..(slot6 + C.width - 1) THEN 1 ELSE 0)
                 = IF slot4 < slot4 \/ (slot4 = slot4 /\ e < slot6') THEN 1 ELSE 0
    <3>1. slot7[slot4][e] = IF e < slot6 THEN 1 ELSE 0
      BY <1>5, <1>16, <2>1
    <3>2. e \in Nat
      BY <1>1 DEF Dense!Elements
    <3>3. e \in slot6..(slot6 + C.width - 1) <=> slot6 <= e /\ e < slot6'
      BY <1>1, <1>3, <1>10, <3>2
    <3> QED
      BY <1>1, <1>16, <1>11, <3>1, <3>2, <3>3
  <2>3. slot7' = [p \in DOMAIN P |-> IF p = slot4
                    THEN [e \in Dense!Elements |-> slot7[slot4][e] +
                            IF e \in slot6..(slot6 + C.width - 1) THEN 1 ELSE 0]
                    ELSE slot7[p]]
    BY <1>4, <1>5, <2>1
  <2>4. [e \in Dense!Elements |-> slot7[slot4][e] +
                            IF e \in slot6..(slot6 + C.width - 1) THEN 1 ELSE 0]
          = [e \in Dense!Elements |->
               IF slot4 < slot4 \/ (slot4 = slot4 /\ e < slot6') THEN 1 ELSE 0]
    BY <2>2
  <2>5. ASSUME NEW p \in DOMAIN P, p # slot4
        PROVE  slot7[p] = [e \in Dense!Elements |->
                   IF p < slot4 \/ (p = slot4 /\ e < slot6') THEN 1 ELSE 0]
    BY <1>5, <2>5
  <2>6. slot7' = [p \in DOMAIN P |-> [e \in Dense!Elements |->
                   IF p < slot4 \/ (p = slot4 /\ e < slot6') THEN 1 ELSE 0]]
    BY <2>3, <2>4, <2>5
  <2> QED
    BY <1>3, <1>7, <2>6, Zenon DEF P
<1>13. slot8' = [e \in Dense!Elements' |-> Dense!Excess(e)']
  <2>1. ASSUME NEW e \in Dense!Elements
        PROVE  slot8[e] + (IF e \in slot6..(slot6 + C.width - 1) THEN C.bias ELSE 0)
                 = Dense!Excess(e)'
    <3>1. e \in Nat /\ slot8[e] = Dense!Excess(e)
      BY <1>1, <1>5 DEF Dense!Elements
    <3>2. e \in slot6..(slot6 + C.width - 1) <=> slot6 <= e /\ e < slot6'
      BY <1>1, <1>3, <1>10, <3>1
    <3>3. CASE ~IsVnni(slot1, slot2) \/ slot4 < 3
      BY <1>3, <1>10, <3>1, <3>3 DEF Dense!Excess, IsVnni
    <3>4. CASE IsVnni(slot1, slot2) /\ slot4 = 3
      <4>1. C.bias = -1
        BY <1>10, <3>4
      <4>2. Dense!Excess(e) = IF e < slot6 THEN -1 ELSE 0
        BY <3>4 DEF Dense!Excess, IsVnni
      <4>3. Dense!Excess(e)' = IF e < slot6' THEN -1 ELSE 0
        BY <1>3, <3>4 DEF Dense!Excess, IsVnni
      <4> QED
        BY <1>1, <1>11, <3>1, <3>2, <4>1, <4>2, <4>3
    <3>5. CASE IsVnni(slot1, slot2) /\ slot4 = 4
      <4>1. /\ Dense!Excess(e) = IF Dense!OverCorrected(e) \/ slot6 <= e THEN -1 ELSE 0
            /\ Dense!Excess(e)' = IF Dense!OverCorrected(e) \/ slot6' <= e THEN -1 ELSE 0
        BY <1>3, <1>7, <3>5 DEF Dense!Excess, IsVnni
      <4>2. Dense!OverCorrected(e) <=> slot3 - (slot3 % 64) <= e
        BY <1>1, <3>1, <3>5 DEF Dense!OverCorrected, IsVnni
      <4>3. IF slot5 = 1 THEN slot6 % 64 = 0 ELSE slot3 - (slot3 % 64) <= slot6
        BY <1>6, <3>5 DEF Dense!IndexInv, IsVnni
      <4>4. CASE slot5 = 1
        <5>1. C.bias = 1 /\ slot6' = slot6 + 64 /\ slot6 + 64 <= slot3
          BY <1>2, <1>3, <1>8, <1>10, <3>5, <4>4 DEF Shape, IsVnni, IsUnseen
        <5>2. slot6' <= slot3 - (slot3 % 64)
          BY <1>1, <4>3, <4>4, <5>1, WholeVectors
        <5> QED
          BY <1>1, <1>11, <3>1, <3>2, <4>1, <4>2, <5>1, <5>2, WholeVectors
      <4>5. CASE slot5 # 1
        <5>1. C.bias = 0
          BY <1>10, <3>5, <4>5
        <5> QED
          BY <1>1, <1>11, <3>1, <3>2, <4>1, <4>2, <4>3, <4>5, <5>1, WholeVectors
      <4> QED
        BY <4>4, <4>5
    <3> QED
      <4>1. IsVnni(slot1, slot2) => slot4 \in 1..4
        BY <1>2, <1>16 DEF Shape
      <4> QED
        BY <3>3, <3>4, <3>5, <4>1
  <2> QED
    BY <1>4, <1>7, <2>1
<1>14. slot9' = IF slot4' = 1 THEN slot6' ELSE
                IF Dense!ReadsPastShortRow' THEN 16 ELSE slot3'
  <2>1. CASE slot4 = 1
    BY <1>1, <1>3, <1>5, <1>11, <2>1
  <2>2. CASE slot4 # 1
    <3>1. slot6' <= slot3
      BY <1>3, <1>10, <2>2
    <3> QED
      BY <1>1, <1>3, <1>5, <1>7, <1>11, <2>2, <3>1 DEF Dense!ReadsPastShortRow
  <2> QED
    BY <2>1, <2>2
<1>15. Dense!IndexInv'
  <2>1. P' = P /\ Len(P[slot4]) \in Nat
    BY <1>7, <1>16 DEF Walk, P
  <2>2. slot5' \in 1..(Len(P[slot4]) + 1) /\ ~(slot5' > Len(P[slot4]))
    BY <1>3, <1>10, <1>16, <2>1
  <2>3. slot6' <= slot3 \/ (Dense!ReadsPastShortRow /\ slot4 = 1)
    <3>1. CASE C.repeat = "always"
      <4>1. /\ slot1 = "softmax_padic" /\ slot2 = "avx512" /\ slot4 = 1 /\ slot5 = 1
        BY <1>10, <3>1 DEF IsUnseen
      <4>2. slot6 = 0
        BY <1>6, <4>1 DEF Dense!IndexInv
      <4>3. C.width = 16
        BY <1>2, <1>8, <4>1 DEF Shape, IsUnseen
      <4> QED
        BY <1>1, <1>3, <4>1, <4>2, <4>3 DEF Dense!ReadsPastShortRow
    <3> QED
      BY <1>3, <3>1
  <2>4. ASSUME slot1 = "softmax_padic", slot2 = "avx512", slot4 = 1
        PROVE  slot5' # 1 /\ (slot3 < 16 => slot6' = 16)
    <3>1. CASE slot5 = 1
      <4>1. C.repeat = "always" /\ C.width = 16
        BY <1>2, <1>8, <1>10, <2>4, <3>1 DEF Shape, IsUnseen
      <4>2. slot6 = 0
        BY <1>6, <2>4, <3>1 DEF Dense!IndexInv
      <4> QED
        BY <1>3, <3>1, <4>1, <4>2
    <3>2. CASE slot5 # 1
      <4>1. slot6 + C.width <= slot3
        BY <1>3, <1>10, <3>2
      <4>2. slot5 > 1 /\ slot5' # 1
        BY <1>3, <1>16, <2>1, <3>2
      <4>3. slot3 < 16 => slot6 = 16
        BY <1>6, <2>4, <4>2 DEF Dense!IndexInv
      <4> QED
        BY <1>1, <1>10, <4>1, <4>2, <4>3
    <3> QED
      BY <3>1, <3>2
  <2>5. ASSUME slot1 = "matmul_w3", slot2 = "avx512", slot4 = 4
        PROVE  IF slot5' = 1 THEN slot6' % 64 = 0
               ELSE slot3 - (slot3 % 64) <= slot6'
    <3>1. IF slot5 = 1 THEN slot6 % 64 = 0 ELSE slot3 - (slot3 % 64) <= slot6
      BY <1>6, <2>5 DEF Dense!IndexInv
    <3>2. CASE slot5 = 1
      <4>1. slot5' = 1 /\ slot6' = slot6 + 64
        BY <1>2, <1>3, <1>8, <2>5, <3>2 DEF Shape, IsVnni
      <4> QED
        BY <1>1, <3>1, <3>2, <4>1, WholeVectors
    <3>3. CASE slot5 # 1
      <4>1. slot5' # 1
        BY <1>3, <1>16, <2>1, <3>3
      <4> QED
        BY <1>1, <1>11, <3>1, <3>3, <4>1, WholeVectors
    <3> QED
      BY <3>2, <3>3
  <2> QED
    BY <1>3, <1>7, <2>1, <2>2, <2>3, <2>4, <2>5 DEF Dense!IndexInv, P
<1> QED
  BY <1>1, <1>3, <1>7, <1>11, <1>12, <1>13, <1>14, <1>15 DEF Dense!RowInv, P

\* Leaving a loop keeps the index.
LEMMA LeaveLoopKeeps ==
  ASSUME Dense!RowInv, Dense!LeaveLoop
  PROVE  Dense!RowInv'
<1> DEFINE P == Dense!Passes
           C == Dense!Current
<1>1. /\ slot1 \in DOMAIN Dense!Kernels /\ slot2 \in DOMAIN Dense!Kernels[slot1]
      /\ slot3 \in Nat /\ slot6 \in Nat /\ slot4 \in 1..(Len(P) + 1) /\ slot5 \in Nat
  BY DEF Dense!RowInv
<1>2. Shape(P, slot1, slot2)
  BY <1>1, Shapes DEF Dense!Passes
<1>3. /\ slot1' = slot1 /\ slot2' = slot2 /\ slot3' = slot3 /\ slot4' = slot4
      /\ slot5' = slot5 + 1 /\ slot6' = slot6 /\ slot7' = slot7
      /\ slot8' = slot8 /\ slot9' = slot9
      /\ slot6 + C.width > slot3 /\ C.repeat # "always"
      /\ ~(slot4 > Len(P)) /\ slot5 <= Len(P[slot4])
  BY DEF Dense!LeaveLoop, Dense!Done
<1>4. Dense!IndexInv
  BY <1>3 DEF Dense!RowInv, Dense!Done
<1>5. /\ P' = P /\ Dense!Elements' = Dense!Elements
      /\ Dense!ReadsPastShortRow' <=> Dense!ReadsPastShortRow
      /\ \A e : Dense!Excess(e)' = Dense!Excess(e)
  BY <1>3 DEF Dense!Passes, Dense!Elements, Dense!ReadsPastShortRow,
              Dense!OverCorrected, Dense!Excess
<1>6. C = P[slot4][slot5]
  BY DEF Dense!Current
<1>7. slot5 \in 1..(Len(P[slot4]) + 1)
  BY <1>4 DEF Dense!IndexInv
<1> HIDE DEF P, C
<1>8. slot4 \in 1..Len(P) /\ Walk(P[slot4])
  BY <1>1, <1>2, <1>3 DEF Shape
<1>9. Len(P[slot4]) \in Nat /\ slot5 \in 1..Len(P[slot4])
  BY <1>3, <1>7, <1>8 DEF Walk
<1>10. Dense!IndexInv'
  <2>1. slot5' \in 1..(Len(P[slot4]) + 1) /\ slot5' # 1
    BY <1>3, <1>9
  <2>2. ASSUME slot5' > Len(P[slot4]) PROVE slot3 <= slot6
    <3>1. slot5 = Len(P[slot4])
      BY <1>3, <1>9, <2>2
    <3>2. C.width = 1
      BY <1>6, <1>8, <3>1 DEF Walk
    <3> QED
      BY <1>1, <1>3, <3>2
  <2>3. ASSUME slot1 = "softmax_padic", slot2 = "avx512", slot4 = 1, slot3 < 16
        PROVE  slot6 = 16
    <3>1. slot5 # 1
      BY <1>2, <1>3, <1>6, <1>8, <1>9, <2>3 DEF Shape, IsUnseen
    <3> QED
      BY <1>4, <1>9, <2>3, <3>1 DEF Dense!IndexInv
  <2>4. ASSUME slot1 = "matmul_w3", slot2 = "avx512", slot4 = 4
        PROVE  slot3 - (slot3 % 64) <= slot6
    <3>1. /\ IF slot5 = 1 THEN slot6 % 64 = 0 ELSE slot3 - (slot3 % 64) <= slot6
          /\ slot6 <= slot3
      BY <1>4, <2>4 DEF Dense!IndexInv
    <3>2. CASE slot5 = 1
      <4>1. slot3 < slot6 + 64
        BY <1>1, <1>2, <1>3, <1>6, <2>4, <3>2 DEF Shape, IsVnni
      <4> QED
        BY <1>1, <3>1, <3>2, <4>1, WholeVectors
    <3> QED
      BY <3>1, <3>2
  <2> QED
    BY <1>3, <1>4, <1>5, <2>1, <2>2, <2>3, <2>4 DEF Dense!IndexInv, P
<1>11. slot5' \in Nat
  BY <1>1, <1>3
<1> QED
  BY <1>3, <1>5, <1>10, <1>11 DEF Dense!RowInv, P

\* A pass ends when the index is past the row: all of it has been taken.
LEMMA NextPassKeeps ==
  ASSUME Dense!RowInv, Dense!NextPass
  PROVE  Dense!RowInv'
<1> DEFINE P == Dense!Passes
<1>1. /\ slot1 \in DOMAIN Dense!Kernels /\ slot2 \in DOMAIN Dense!Kernels[slot1]
      /\ slot3 \in Nat /\ slot6 \in Nat /\ slot4 \in 1..(Len(P) + 1)
      /\ slot7 = [p \in DOMAIN P |-> [e \in Dense!Elements |->
                    IF p < slot4 \/ (p = slot4 /\ e < slot6) THEN 1 ELSE 0]]
      /\ slot8 = [e \in Dense!Elements |-> Dense!Excess(e)]
      /\ slot9 = IF slot4 = 1 THEN slot6 ELSE
                 IF Dense!ReadsPastShortRow THEN 16 ELSE slot3
  BY DEF Dense!RowInv
<1>2. Shape(P, slot1, slot2)
  BY <1>1, Shapes DEF Dense!Passes
<1>3. /\ slot1' = slot1 /\ slot2' = slot2 /\ slot3' = slot3 /\ slot4' = slot4 + 1
      /\ slot5' = 1 /\ slot6' = 0 /\ slot7' = slot7
      /\ slot8' = slot8 /\ slot9' = slot9
      /\ ~(slot4 > Len(P)) /\ slot5 > Len(P[slot4])
  BY DEF Dense!NextPass, Dense!Done
<1>4. Dense!IndexInv
  BY <1>3 DEF Dense!RowInv, Dense!Done
<1>5. /\ P' = P /\ Dense!Elements' = Dense!Elements
      /\ Dense!ReadsPastShortRow' <=> Dense!ReadsPastShortRow
      /\ \A e : Dense!OverCorrected(e)' <=> Dense!OverCorrected(e)
  BY <1>3 DEF Dense!Passes, Dense!Elements, Dense!ReadsPastShortRow,
              Dense!OverCorrected
<1>6. slot3 <= slot6 /\ slot5 \in 1..(Len(P[slot4]) + 1)
  BY <1>3, <1>4 DEF Dense!IndexInv
<1> HIDE DEF P
<1>7. /\ slot4 \in 1..Len(P) /\ Len(P) \in Nat /\ DOMAIN P = 1..Len(P)
      /\ Walk(P[slot4])
  BY <1>1, <1>2, <1>3 DEF Shape
<1>8. slot4' \in 1..(Len(P) + 1) /\ slot4' # 1
  BY <1>3, <1>7
<1>9. \A e \in Dense!Elements : e \in Nat /\ e < slot3 /\ e < slot6
  BY <1>1, <1>6 DEF Dense!Elements
<1>10. slot7' = [p \in DOMAIN P |-> [e \in Dense!Elements |->
                   IF p < slot4' \/ (p = slot4' /\ e < slot6') THEN 1 ELSE 0]]
  <2>1. ASSUME NEW p \in DOMAIN P, NEW e \in Dense!Elements
        PROVE  (p < slot4 \/ (p = slot4 /\ e < slot6))
                 <=> (p < slot4' \/ (p = slot4' /\ e < slot6'))
    BY <1>3, <1>7, <1>9
  <2> QED
    BY <1>1, <1>3, <2>1
<1>11. slot8' = [e \in Dense!Elements |-> Dense!Excess(e)']
  <2>1. ASSUME NEW e \in Dense!Elements
        PROVE  Dense!Excess(e) = Dense!Excess(e)'
    <3>1. e \in Nat /\ e < slot6 /\ ~(slot6 <= e) /\ ~(e < 0)
      BY <1>1, <1>9
    <3>2. CASE ~IsVnni(slot1, slot2) \/ slot4 < 2
      BY <1>3, <1>7, <3>2 DEF Dense!Excess, IsVnni
    <3>3. CASE IsVnni(slot1, slot2) /\ slot4 = 2
      <4>1. slot4' = 3
        BY <1>3, <3>3
      <4> QED
        BY <1>3, <3>1, <3>3, <4>1 DEF Dense!Excess, IsVnni
    <3>4. CASE IsVnni(slot1, slot2) /\ slot4 = 3
      <4>1. slot4' = 4
        BY <1>3, <3>4
      <4> QED
        BY <1>3, <1>5, <3>1, <3>4, <4>1 DEF Dense!Excess, IsVnni
    <3>5. CASE IsVnni(slot1, slot2) /\ slot4 = 4
      <4>1. slot4' = 5
        BY <1>3, <3>5
      <4> QED
        BY <1>3, <1>5, <3>1, <3>5, <4>1 DEF Dense!Excess, IsVnni
    <3> QED
      <4>1. IsVnni(slot1, slot2) => slot4 \in 1..4
        BY <1>2, <1>7 DEF Shape
      <4> QED
        BY <3>2, <3>3, <3>4, <3>5, <4>1
  <2> QED
    BY <1>1, <1>3, <2>1
<1>12. slot9' = IF Dense!ReadsPastShortRow THEN 16 ELSE slot3
  <2>1. CASE slot4 = 1
    <3>1. CASE Dense!ReadsPastShortRow
      <4>1. slot5 > 1
        BY <1>3, <1>6, <1>7 DEF Walk
      <4>2. slot6 = 16
        BY <1>4, <2>1, <3>1, <4>1 DEF Dense!IndexInv, Dense!ReadsPastShortRow
      <4> QED
        BY <1>1, <1>3, <2>1, <3>1, <4>2
    <3>2. CASE ~Dense!ReadsPastShortRow
      <4>1. slot6 = slot3
        BY <1>1, <1>4, <1>6, <3>2 DEF Dense!IndexInv
      <4> QED
        BY <1>1, <1>3, <2>1, <3>2, <4>1
    <3> QED
      BY <3>1, <3>2
  <2> QED
    BY <1>1, <1>3, <2>1
<1>13. ASSUME ~Dense!Done' PROVE Dense!IndexInv'
  <2>1. slot4' \in 1..Len(P)
    <3>1. ~(slot4' > Len(P))
      BY <1>5, <1>13 DEF Dense!Done, P
    <3> QED
      BY <1>7, <1>8, <3>1
  <2>2. Len(P[slot4']) \in Nat \ {0}
    BY <1>2, <2>1 DEF Shape, Walk
  <2>3. Dense!Passes' = P
    BY <1>5 DEF P
  <2>4. 0 % 64 = 0
    OBVIOUS
  <2> QED
    BY <1>1, <1>3, <1>8, <2>2, <2>3, <2>4 DEF Dense!IndexInv
<1> QED
  BY <1>1, <1>3, <1>5, <1>8, <1>10, <1>11, <1>12, <1>13 DEF Dense!RowInv, P

\* Every step of a dense kernel keeps the row's invariant.
LEMMA DenseStep ==
  ASSUME subject = "dense" => Dense!RowInv, [Next]_vars
  PROVE  (subject = "dense" => Dense!RowInv)'
<1> SUFFICES ASSUME subject' = "dense" PROVE Dense!RowInv'
  OBVIOUS
<1>1. CASE UNCHANGED vars
  BY <1>1 DEF vars, Dense!RowInv, Dense!Done, Dense!IndexInv, Dense!Excess,
    Dense!OverCorrected, Dense!ReadsPastShortRow, Dense!Elements, Dense!Passes
<1>2. CASE Next
  <2>1. Dense!RowInv /\ Dense!Next
    BY <1>2 DEF Next
  <2> QED
    BY <2>1, IterateKeeps, LeaveLoopKeeps, NextPassKeeps DEF Dense!Next
<1> QED
  BY <1>1, <1>2

\* For a row of any length, every dense kernel takes each element once in each
\* pass on every processor, with the exceptions ElementsOnce names and no other.
THEOREM EveryElementOnce == Spec => []ElementsOnce
<1>1. Dense!RowInv => Dense!ElementsOnce
  <2> SUFFICES ASSUME Dense!RowInv, Dense!Done PROVE Dense!ElementsOnce
    BY DEF Dense!ElementsOnce
  <2> DEFINE P == Dense!Passes
  <2>1. /\ slot1 \in DOMAIN Dense!Kernels /\ slot2 \in DOMAIN Dense!Kernels[slot1]
        /\ slot3 \in Nat /\ slot4 \in 1..(Len(P) + 1) /\ slot4 > Len(P)
        /\ slot7 = [p \in DOMAIN P |-> [e \in Dense!Elements |->
                      IF p < slot4 \/ (p = slot4 /\ e < slot6) THEN 1 ELSE 0]]
        /\ slot8 = [e \in Dense!Elements |-> Dense!Excess(e)]
        /\ slot9 = IF slot4 = 1 THEN slot6 ELSE
                   IF Dense!ReadsPastShortRow THEN 16 ELSE slot3
    BY DEF Dense!RowInv, Dense!Done
  <2>2. Shape(P, slot1, slot2)
    BY <2>1, Shapes DEF Dense!Passes
  <2> HIDE DEF P
  <2>3. DOMAIN P = 1..Len(P) /\ Len(P) \in Nat \ {0} /\ slot4 = Len(P) + 1
    BY <2>1, <2>2 DEF Shape
  <2>4. \A p \in DOMAIN P, e \in Dense!Elements : slot7[p][e] = 1
    BY <2>1, <2>3
  <2>5. ASSUME NEW e \in Dense!Elements
        PROVE  slot8[e] = IF Dense!OverCorrected(e) THEN -1 ELSE 0
    <3>1. CASE IsVnni(slot1, slot2)
      <4>1. Len(P) = 4
        BY <2>2, <3>1 DEF Shape
      <4>2. slot4 = 5
        BY <2>3, <4>1
      <4> QED
        BY <2>1, <3>1, <4>2 DEF Dense!Excess, IsVnni
    <3>2. CASE ~IsVnni(slot1, slot2)
      BY <2>1, <3>2 DEF Dense!Excess, Dense!OverCorrected, IsVnni
    <3> QED
      BY <3>1, <3>2
  <2>6. slot9 = IF Dense!ReadsPastShortRow THEN 16 ELSE slot3
    BY <2>1, <2>3
  <2> QED
    BY <2>4, <2>5, <2>6 DEF Dense!ElementsOnce, P
<1>2. (subject = "dense" => Dense!RowInv) => ElementsOnce
  BY <1>1 DEF ElementsOnce
<1> QED
  BY <1>2, DenseInit, DenseStep, PTL DEF Spec
-----------------------------------------------------------------------------
(* Parts of the threads: RowPartition.                                     *)

\* Integer division, by what it leaves over.
LEMMA Division ==
  ASSUME NEW a \in Nat, NEW b \in Nat \ {0}
  PROVE  /\ a \div b \in Nat
         /\ b * (a \div b) <= a
         /\ a < b * (a \div b) + b
  BY SMT

\* Products of naturals keep their order.
LEMMA TimesMonotone ==
  ASSUME NEW p \in Nat, NEW a \in Nat, NEW b \in Nat, a <= b
  PROVE  a * p \in Nat /\ b * p \in Nat /\ a * p <= b * p
  BY SMT

\* n parts of the rounded-up size are enough for all rows.
LEMMA PartsSuffice ==
  ASSUME NEW nr \in Nat, NEW n \in Nat \ {0}
  PROVE  PerThread(nr, n) \in Nat /\ nr <= n * PerThread(nr, n)
<1>1. nr + n - 1 \in Nat
  OBVIOUS
<1>2. /\ (nr + n - 1) \div n \in Nat
      /\ nr + n - 1 < n * ((nr + n - 1) \div n) + n
  BY <1>1, Division
<1>3. n * ((nr + n - 1) \div n) \in Nat
  BY <1>2, TimesMonotone
<1> QED
  BY <1>2, <1>3 DEF PerThread

\* Part t is the rows between its start and the next one's, of those there are.
LEMMA PartIs ==
  ASSUME NEW nr \in Nat, NEW n \in Nat \ {0}, NEW t \in Nat, NEW row \in 0..(nr - 1)
  PROVE  row \in Part(t, nr, n) <=>
           /\ t * PerThread(nr, n) <= row
           /\ row < t * PerThread(nr, n) + PerThread(nr, n)
<1>1. PerThread(nr, n) \in Nat
  BY PartsSuffice
<1>2. t * PerThread(nr, n) \in Nat
  BY <1>1, TimesMonotone
<1> QED
  BY <1>1, <1>2 DEF Part, PartEnd, PartStart

\* Every row is in the part of exactly one thread, whatever the number of rows
\* and of threads: each row of a matrix is computed once.
THEOREM PartsPartition ==
  ASSUME NEW nr \in Nat, NEW n \in Nat \ {0}, NEW row \in 0..(nr - 1)
  PROVE  /\ \E t \in 0..(n - 1) : row \in Part(t, nr, n)
         /\ \A t, u \in 0..(n - 1) :
               row \in Part(t, nr, n) /\ row \in Part(u, nr, n) => t = u
<1> DEFINE p == PerThread(nr, n)
<1>1. p \in Nat /\ nr <= n * p
  BY PartsSuffice
<1>2. p # 0
  BY <1>1
<1> HIDE DEF p
<1>3. \E t \in 0..(n - 1) : row \in Part(t, nr, n)
  <2> DEFINE t == row \div p
  <2>1. t \in Nat /\ p * t <= row /\ row < p * t + p
    BY <1>1, <1>2, Division
  <2>2. t < n
    <3>1. SUFFICES ASSUME n <= t PROVE FALSE
      BY <2>1
    <3>2. n * p <= t * p
      BY <1>1, <2>1, <3>1, TimesMonotone
    <3>3. t * p = p * t /\ t * p \in Nat /\ n * p \in Nat
      BY <1>1, <2>1
    <3> QED
      BY <1>1, <2>1, <3>2, <3>3
  <2>3. t * p <= row /\ row < t * p + p
    BY <1>1, <2>1
  <2>4. row \in Part(t, nr, n)
    BY <2>1, <2>3, PartIs DEF p
  <2> QED
    BY <2>1, <2>2, <2>4
<1>4. ASSUME NEW t \in 0..(n - 1), NEW u \in 0..(n - 1),
             row \in Part(t, nr, n), row \in Part(u, nr, n), t < u
      PROVE  FALSE
  <2>1. row < t * p + p /\ u * p <= row
    BY <1>4, PartIs DEF p
  <2>2. (t + 1) * p <= u * p
    BY <1>1, <1>4, TimesMonotone
  <2>3. (t + 1) * p = t * p + p /\ t * p \in Nat /\ u * p \in Nat
    BY <1>1
  <2> QED
    BY <1>1, <2>1, <2>2, <2>3
<1>5. ASSUME NEW t \in 0..(n - 1), NEW u \in 0..(n - 1),
             row \in Part(t, nr, n), row \in Part(u, nr, n)
      PROVE  t = u
  BY <1>4, <1>5
<1> QED
  BY <1>3, <1>5
-----------------------------------------------------------------------------
(* Induction over numbers, from the well-foundedness of their order.       *)

\* The order of the naturals, as a set of pairs.
LessThan == {p \in Nat \X Nat : p[1] < p[2]}

\* A set of naturals with 0 and every successor is all of them.
LEMMA Induction ==
  ASSUME NEW S, 0 \in S, \A m \in Nat : m \in S => m + 1 \in S
  PROVE  Nat \subseteq S
<1>1. IsWellFoundedOn(LessThan, Nat)
  BY NatLessThanWellFounded DEF OpToRel, LessThan
<1> SUFFICES ASSUME Nat \ S # {} PROVE FALSE
  OBVIOUS
<1>2. PICK x \in Nat \ S : \A y \in Nat \ S : ~ (<<y, x>> \in LessThan)
  BY <1>1, WFMin
<1>3. x # 0 /\ x - 1 \in Nat /\ x - 1 + 1 = x
  BY <1>2
<1>4. x - 1 \in S
  <2>1. <<x - 1, x>> \in LessThan
    BY <1>3 DEF LessThan
  <2> QED
    BY <1>2, <1>3, <2>1
<1> QED
  BY <1>2, <1>3, <1>4

\* The same up to a bound.
LEMMA InductionTo ==
  ASSUME NEW N \in Nat, NEW S, 0 \in S, \A m \in 0..(N - 1) : m \in S => m + 1 \in S
  PROVE  0..N \subseteq S
<1> DEFINE T == S \union {m \in Nat : m > N}
<1>1. Nat \subseteq T
  <2>1. 0 \in T
    OBVIOUS
  <2>2. ASSUME NEW m \in Nat, m \in T PROVE m + 1 \in T
    <3>1. CASE m + 1 > N
      BY <3>1
    <3>2. CASE ~(m + 1 > N)
      <4>1. m \in 0..(N - 1) /\ m \in S
        BY <2>2, <3>2
      <4> QED
        BY <4>1
    <3> QED
      BY <3>1, <3>2
  <2> HIDE DEF T
  <2> QED
    BY <2>1, <2>2, Induction
<1> QED
  BY <1>1

-----------------------------------------------------------------------------
(* Quotients: the n-th step of a loop within a loop.                       *)

\* A number a * n + c with c < n, taken apart.
LEMMA DivMod ==
  ASSUME NEW n \in Nat \ {0}, NEW a \in Nat, NEW c \in 0..(n - 1)
  PROVE  a * n + c \in Nat /\ (a * n + c) \div n = a /\ (a * n + c) % n = c
  BY SMT

\* Quotient and remainder put together.
LEMMA DivModIs ==
  ASSUME NEW n \in Nat \ {0}, NEW x \in Nat
  PROVE  /\ x \div n \in Nat /\ x % n \in 0..(n - 1)
         /\ x = (x \div n) * n + (x % n)
  BY SMT

\* The c-th of n in round a of A is below A * n.
LEMMA Below ==
  ASSUME NEW n \in Nat, NEW A \in Nat, NEW a \in 0..(A - 1), NEW c \in 0..(n - 1)
  PROVE  a * n + c \in 0..(A * n - 1)
  BY SMT

\* Below A * n the quotient by n is below A.
LEMMA QuotientBelow ==
  ASSUME NEW n \in Nat \ {0}, NEW A \in Nat, NEW x \in 0..(A * n - 1)
  PROVE  x \div n \in 0..(A - 1)
  BY SMT

\* A function on 1..m is a sequence of length m.
LEMMA LengthIs ==
  ASSUME NEW m \in Nat, NEW S, NEW f \in [1..m -> S]
  PROVE  f \in Seq(S) /\ Len(f) = m
<1>1. f \in Seq(S)
  BY IsASeq
<1>2. Len(f) \in Nat /\ DOMAIN f = 1..Len(f)
  BY <1>1, LenProperties
<1> QED
  BY <1>1, <1>2

-----------------------------------------------------------------------------
(* What the kernels of LinearLayers write.                                 *)

\* Write w puts block b into row r of output o.
Takes(w, o, r, b) == w.output = o /\ r \in w.rows /\ b \in w.blocks

\* The writes f put every block into every row of S[o] of each output o once,
\* and into no other row.
Exact(f, O, S) ==
    /\ Len(f) \in Nat /\ DOMAIN f = 1..Len(f)
    /\ \A k \in 1..Len(f) :
          /\ f[k].output \in O /\ f[k].rows \subseteq S[f[k].output]
          /\ f[k].blocks \subseteq 1..Blocks /\ f[k].blocks # {}
    /\ \A o \in O : \A r \in S[o], b \in 1..Blocks :
          \E k \in 1..Len(f) : Takes(f[k], o, r, b)
    /\ \A k, l \in 1..Len(f) : \A o, r, b :
          Takes(f[k], o, r, b) /\ Takes(f[l], o, r, b) => k = l

\* The writes to output o are of one kind; those that assign hold all blocks.
Kind(f, o, adds, as) ==
    \A k \in 1..Len(f) : f[k].output = o =>
        f[k].adds = adds /\ f[k].as = as /\ (adds \/ f[k].blocks = 1..Blocks)

\* A function on one output.
Only(o, rows) == [x \in {o} |-> rows]

\* The same of writes to a single output, for the rows R.
ExactRows(f, o, R) ==
    /\ Len(f) \in Nat /\ DOMAIN f = 1..Len(f)
    /\ \A k \in 1..Len(f) :
          /\ f[k].output = o /\ f[k].rows \subseteq R
          /\ f[k].blocks \subseteq 1..Blocks /\ f[k].blocks # {}
    /\ \A r \in R, b \in 1..Blocks :
          \E k \in 1..Len(f) : r \in f[k].rows /\ b \in f[k].blocks
    /\ \A k, l \in 1..Len(f) : \A r \in R, b \in 1..Blocks :
          /\ r \in f[k].rows /\ b \in f[k].blocks
          /\ r \in f[l].rows /\ b \in f[l].blocks
          => k = l

\* What is exact for the rows of one output is exact.
LEMMA ExactOnly ==
  ASSUME NEW o, NEW R, NEW f, ExactRows(f, o, R)
  PROVE  Exact(f, {o}, Only(o, R))
<1> DEFINE S == Only(o, R)
<1>1. S[o] = R
  BY DEF Only
<1> HIDE DEF S
<1>2. ASSUME NEW k \in 1..Len(f)
      PROVE  /\ f[k].output \in {o} /\ f[k].rows \subseteq S[f[k].output]
             /\ f[k].blocks \subseteq 1..Blocks /\ f[k].blocks # {}
  BY <1>1 DEF ExactRows
<1>3. ASSUME NEW x \in {o}, NEW r \in S[x], NEW b \in 1..Blocks
      PROVE  \E k \in 1..Len(f) : Takes(f[k], x, r, b)
  <2>1. PICK k \in 1..Len(f) :
          f[k].output = o /\ r \in f[k].rows /\ b \in f[k].blocks
    BY <1>1 DEF ExactRows
  <2>2. Takes(f[k], x, r, b)
    BY <2>1 DEF Takes
  <2> QED
    BY <2>2
<1>4. ASSUME NEW k \in 1..Len(f), NEW l \in 1..Len(f), NEW x, NEW r, NEW b,
             Takes(f[k], x, r, b), Takes(f[l], x, r, b)
      PROVE  k = l
  <2>1. /\ r \in f[k].rows /\ b \in f[k].blocks
        /\ r \in f[l].rows /\ b \in f[l].blocks
    BY <1>4 DEF Takes
  <2>2. r \in R /\ b \in 1..Blocks
    BY <2>1 DEF ExactRows
  <2> QED
    BY <2>1, <2>2 DEF ExactRows
<1>5. Exact(f, {o}, S)
  BY <1>2, <1>3, <1>4 DEF Exact, ExactRows
<1> QED
  BY <1>5 DEF S

\* A kernel that assigns row by row (q4k_avx2, q6k).
LEMMA RowWritesExact ==
  ASSUME NEW o, NEW rs \in Nat, NEW rc \in Nat, NEW as
  PROVE  /\ ExactRows(Linear!RowWrites(o, rs, rc, as), o, rs..(rs + rc - 1))
         /\ Kind(Linear!RowWrites(o, rs, rc, as), o, FALSE, as)
<1> DEFINE f == Linear!RowWrites(o, rs, rc, as)
<1>1. DOMAIN f = 1..rc
  BY DEF Linear!RowWrites
<1>2. Len(f) = rc
  <2>1. f \in [1..rc -> {f[k] : k \in 1..rc}]
    BY DEF Linear!RowWrites
  <2> HIDE DEF f
  <2> QED
    BY <2>1, LengthIs
<1>3. \A k \in 1..rc : /\ f[k].output = o /\ f[k].rows = {rs + k - 1}
                       /\ f[k].blocks = 1..Blocks /\ f[k].adds = FALSE /\ f[k].as = as
  BY DEF Linear!RowWrites, Linear!Write
<1> HIDE DEF f
<1>4. 1..Blocks # {}
  BY LinearAssumption
<1>6. \A k \in 1..rc : rs + k - 1 \in rs..(rs + rc - 1)
  OBVIOUS
<1>7. ExactRows(f, o, rs..(rs + rc - 1))
  <2> DEFINE R == rs..(rs + rc - 1)
  <2>1. ASSUME NEW k \in 1..rc
        PROVE  f[k].rows \subseteq R
    BY <1>3, <1>6
  <2>2. ASSUME NEW r \in R, NEW b \in 1..Blocks
        PROVE  \E k \in 1..rc : r \in f[k].rows /\ b \in f[k].blocks
    <3>1. r - rs + 1 \in 1..rc /\ rs + (r - rs + 1) - 1 = r
      OBVIOUS
    <3>2. r \in f[r - rs + 1].rows /\ b \in f[r - rs + 1].blocks
      BY <1>3, <3>1
    <3> QED
      BY <3>1, <3>2
  <2>3. ASSUME NEW k \in 1..rc, NEW l \in 1..rc, NEW r,
               r \in f[k].rows, r \in f[l].rows
        PROVE  k = l
    <3>1. r = rs + k - 1 /\ r = rs + l - 1
      BY <1>3, <2>3
    <3> QED
      BY <3>1
  <2> HIDE DEF R
  <2>4. ExactRows(f, o, R)
    BY <1>1, <1>2, <1>3, <1>4, <2>1, <2>2, <2>3 DEF ExactRows
  <2> QED
    BY <2>4 DEF R
<1>8. Kind(f, o, FALSE, as)
  BY <1>2, <1>3, Zenon DEF Kind
<1> QED
  BY <1>7, <1>8 DEF f

\* q4k_vnni goes through the blocks, and in each through groups of rows: four at
\* a time, then one.
GroupOf(q, rc) == IF q < 4 * (rc \div 4) THEN q \div 4 ELSE rc \div 4 + (q - 4 * (rc \div 4))

\* Each row is in one group, and the groups hold nothing else.
LEMMA GroupsHoldRows ==
  ASSUME NEW rs \in Nat, NEW rc \in Nat
  PROVE  /\ Linear!Groups(rc) \in Nat
         /\ rc > 0 => Linear!Groups(rc) > 0
         /\ \A q \in 0..(rc - 1) :
               /\ GroupOf(q, rc) \in 0..(Linear!Groups(rc) - 1)
               /\ rs + q \in Linear!GroupRows(GroupOf(q, rc), rs, rc)
         /\ \A g \in 0..(Linear!Groups(rc) - 1) :
               Linear!GroupRows(g, rs, rc) \subseteq rs..(rs + rc - 1)
         /\ \A g \in 0..(Linear!Groups(rc) - 1) :
               \A q \in 0..(rc - 1) :
                 rs + q \in Linear!GroupRows(g, rs, rc) => g = GroupOf(q, rc)
<1> DEFINE d == rc \div 4
           m == rc % 4
<1>1. d \in Nat /\ m \in 0..3 /\ rc = d * 4 + m
  BY DivModIs
<1>2. Linear!Groups(rc) = d + m
  BY DEF Linear!Groups
<1>3. \A g : Linear!GroupRows(g, rs, rc) =
        IF g < d THEN (rs + 4 * g)..(rs + 4 * g + 3) ELSE {rs + 4 * d + (g - d)}
  BY DEF Linear!GroupRows
<1>4. \A q : GroupOf(q, rc) = IF q < 4 * d THEN q \div 4 ELSE d + (q - 4 * d)
  BY DEF GroupOf
<1> HIDE DEF d, m
<1>5. ASSUME NEW q \in 0..(rc - 1)
      PROVE  /\ GroupOf(q, rc) \in 0..(d + m - 1)
             /\ rs + q \in Linear!GroupRows(GroupOf(q, rc), rs, rc)
  <2>1. CASE q < 4 * d
    <3> DEFINE g == q \div 4
    <3>1. g \in Nat /\ q = g * 4 + (q % 4) /\ q % 4 \in 0..3
      BY DivModIs
    <3>2. GroupOf(q, rc) = g
      BY <1>4, <2>1
    <3> HIDE DEF g
    <3>3. g < d
      BY <1>1, <2>1, <3>1
    <3>4. Linear!GroupRows(g, rs, rc) = (rs + 4 * g)..(rs + 4 * g + 3)
      BY <1>3, <3>3
    <3> QED
      BY <1>1, <3>1, <3>2, <3>3, <3>4
  <2>2. CASE ~(q < 4 * d)
    <3> DEFINE g == d + (q - 4 * d)
    <3>1. GroupOf(q, rc) = g
      BY <1>4, <2>2
    <3>2. g \in d..(d + m - 1) /\ rs + 4 * d + (g - d) = rs + q
      BY <1>1, <2>2
    <3>3. ~(g < d)
      BY <1>1, <3>2
    <3>4. Linear!GroupRows(g, rs, rc) = {rs + 4 * d + (g - d)}
      BY <1>3, <3>3
    <3> HIDE DEF g
    <3> QED
      BY <1>1, <3>1, <3>2, <3>4
  <2> QED
    BY <2>1, <2>2
<1>6. ASSUME NEW g \in 0..(d + m - 1)
      PROVE  Linear!GroupRows(g, rs, rc) \subseteq rs..(rs + rc - 1)
  <2>1. CASE g < d
    <3>1. Linear!GroupRows(g, rs, rc) = (rs + 4 * g)..(rs + 4 * g + 3)
      BY <1>3, <2>1
    <3> QED
      BY <1>1, <2>1, <3>1
  <2>2. CASE ~(g < d)
    <3>1. Linear!GroupRows(g, rs, rc) = {rs + 4 * d + (g - d)}
      BY <1>3, <2>2
    <3> QED
      BY <1>1, <2>2, <3>1
  <2> QED
    BY <2>1, <2>2
<1>7. ASSUME NEW g \in 0..(d + m - 1), NEW q \in 0..(rc - 1),
             rs + q \in Linear!GroupRows(g, rs, rc)
      PROVE  g = GroupOf(q, rc)
  <2>1. CASE g < d
    <3>1. rs + q \in (rs + 4 * g)..(rs + 4 * g + 3)
      BY <1>3, <1>7, <2>1
    <3>2. q - 4 * g \in 0..3 /\ q = g * 4 + (q - 4 * g) /\ q < 4 * d
      BY <1>1, <2>1, <3>1
    <3>3. q \div 4 = g
      BY <3>2
    <3> QED
      BY <1>4, <3>2, <3>3
  <2>2. CASE ~(g < d)
    <3>1. rs + q = rs + 4 * d + (g - d)
      BY <1>3, <1>7, <2>2
    <3>2. ~(q < 4 * d) /\ g = d + (q - 4 * d)
      BY <1>1, <2>2, <3>1
    <3> QED
      BY <1>4, <3>2
  <2> QED
    BY <2>1, <2>2
<1>8. rc > 0 => d + m > 0
  BY <1>1
<1> QED
  BY <1>1, <1>2, <1>5, <1>6, <1>7, <1>8

\* A sequence that goes through A rounds of n steps.
LEMMA Rounds ==
  ASSUME NEW n \in Nat, NEW A \in Nat
  PROVE  /\ A * n \in Nat
         /\ \A k \in 1..(A * n) :
               /\ n # 0
               /\ (k - 1) \div n \in 0..(A - 1) /\ (k - 1) % n \in 0..(n - 1)
               /\ k = ((k - 1) \div n) * n + ((k - 1) % n) + 1
<1>1. A * n \in Nat
  OBVIOUS
<1>2. ASSUME NEW k \in 1..(A * n)
      PROVE  /\ n # 0
             /\ (k - 1) \div n \in 0..(A - 1) /\ (k - 1) % n \in 0..(n - 1)
             /\ k = ((k - 1) \div n) * n + ((k - 1) % n) + 1
  <2>1. n # 0
    <3> SUFFICES ASSUME n = 0 PROVE FALSE
      OBVIOUS
    <3>1. A * n = 0
      OBVIOUS
    <3> QED
      BY <3>1
  <2>2. k - 1 \in 0..(A * n - 1)
    BY <1>1
  <2> DEFINE x == k - 1
  <2>3. x \in 0..(A * n - 1) /\ x \in Nat /\ k = x + 1 /\ n \in Nat \ {0}
    BY <1>1, <2>1, <2>2
  <2> HIDE DEF x
  <2>4. x \div n \in 0..(A - 1)
    BY <2>3, QuotientBelow
  <2>5. x % n \in 0..(n - 1) /\ x = (x \div n) * n + (x % n)
    BY <2>3, DivModIs
  <2>6. k = (x \div n) * n + (x % n) + 1
    BY <2>3, <2>5
  <2> QED
    BY <2>1, <2>4, <2>5, <2>6 DEF x
<1> QED
  BY <1>1, <1>2

\* The step c of round a.
LEMMA RoundStep ==
  ASSUME NEW n \in Nat, NEW A \in Nat, NEW a \in 0..(A - 1), NEW c \in 0..(n - 1),
         NEW k, k = a * n + c + 1
  PROVE  k \in 1..(A * n) /\ (k - 1) \div n = a /\ (k - 1) % n = c
<1> DEFINE x == a * n + c
<1>1. n \in Nat \ {0} /\ a \in Nat /\ A * n \in Nat
  OBVIOUS
<1>2. x \in Nat /\ x \div n = a /\ x % n = c
  BY <1>1, DivMod
<1>3. x \in 0..(A * n - 1) /\ k = x + 1
  BY Below
<1> HIDE DEF x
<1>4. k \in 1..(A * n) /\ k - 1 = x
  BY <1>1, <1>3
<1> QED
  BY <1>2, <1>4

\* q4k_vnni, for a part of any length: no block is added twice.
LEMMA VnniExact ==
  ASSUME NEW o, NEW rs \in Nat, NEW rc \in Nat
  PROVE  /\ ExactRows(Linear!fused_gemv_q4k_vnni(o, rs, rc), o, rs..(rs + rc - 1))
         /\ Kind(Linear!fused_gemv_q4k_vnni(o, rs, rc), o, TRUE, "Q4_K")
         /\ Len(Linear!fused_gemv_q4k_vnni(o, rs, rc)) = Blocks * Linear!Groups(rc)
<1> DEFINE f == Linear!fused_gemv_q4k_vnni(o, rs, rc)
           G == Linear!Groups(rc)
           GR(g) == Linear!GroupRows(g, rs, rc)
           R == rs..(rs + rc - 1)
<1>1. G \in Nat
  BY GroupsHoldRows
<1>2. Blocks \in Nat /\ Blocks * G \in Nat
  BY <1>1, LinearAssumption, Rounds
<1>3. f \in [1..(Blocks * G) -> {f[k] : k \in 1..(Blocks * G)}]
  BY DEF Linear!fused_gemv_q4k_vnni
<1>4. \A k \in 1..(Blocks * G) :
        /\ f[k].output = o /\ f[k].rows = GR((k - 1) % G)
        /\ f[k].blocks = {(k - 1) \div G + 1} /\ f[k].adds = TRUE
        /\ f[k].as = "Q4_K"
  BY DEF Linear!fused_gemv_q4k_vnni, Linear!Write
<1>5. \A q \in 0..(rc - 1) :
        GroupOf(q, rc) \in 0..(G - 1) /\ rs + q \in GR(GroupOf(q, rc))
  BY GroupsHoldRows
<1>6. \A g \in 0..(G - 1) : GR(g) \subseteq R
  BY GroupsHoldRows
<1>7. \A g \in 0..(G - 1), q \in 0..(rc - 1) :
        rs + q \in GR(g) => g = GroupOf(q, rc)
  BY GroupsHoldRows
<1> HIDE DEF f, G, GR
<1>8. Len(f) = Blocks * G /\ DOMAIN f = 1..(Blocks * G)
  BY <1>2, <1>3, LengthIs
<1>9. ASSUME NEW k \in 1..(Blocks * G)
      PROVE  /\ (k - 1) \div G \in 0..(Blocks - 1) /\ (k - 1) % G \in 0..(G - 1)
             /\ k = ((k - 1) \div G) * G + ((k - 1) % G) + 1
  BY <1>1, <1>2, Rounds
<1>10. ASSUME NEW k \in 1..(Blocks * G)
       PROVE  f[k].rows \subseteq R /\ f[k].blocks \subseteq 1..Blocks /\ f[k].blocks # {}
  <2>1. (k - 1) \div G + 1 \in 1..Blocks
    BY <1>2, <1>9
  <2> QED
    BY <1>4, <1>6, <1>9, <2>1
<1>11. ASSUME NEW r \in R, NEW b \in 1..Blocks
       PROVE  \E k \in 1..(Blocks * G) : r \in f[k].rows /\ b \in f[k].blocks
  <2> DEFINE q == r - rs
             k == (b - 1) * G + GroupOf(q, rc) + 1
  <2>1. q \in 0..(rc - 1) /\ rs + q = r /\ b - 1 \in 0..(Blocks - 1) /\ b = (b - 1) + 1
    BY <1>2
  <2>2. GroupOf(q, rc) \in 0..(G - 1) /\ r \in GR(GroupOf(q, rc))
    BY <1>5, <2>1
  <2> DEFINE a == b - 1
             c == GroupOf(q, rc)
  <2>5. k = a * G + c + 1 /\ a \in 0..(Blocks - 1) /\ c \in 0..(G - 1)
    BY <2>1, <2>2
  <2> HIDE DEF k, q, a, c
  <2>6. k \in 1..(Blocks * G) /\ (k - 1) \div G = a /\ (k - 1) % G = c
    BY <1>1, <1>2, <2>5, RoundStep
  <2>3. k \in 1..(Blocks * G) /\ (k - 1) \div G = b - 1 /\ (k - 1) % G = GroupOf(q, rc)
    BY <2>6 DEF a, c
  <2>4. r \in f[k].rows /\ b \in f[k].blocks
    BY <1>4, <2>1, <2>2, <2>3
  <2> QED
    BY <2>3, <2>4
<1>12. ASSUME NEW k \in 1..(Blocks * G), NEW l \in 1..(Blocks * G), NEW r \in R,
              NEW b \in 1..Blocks,
              r \in f[k].rows, b \in f[k].blocks, r \in f[l].rows, b \in f[l].blocks
       PROVE  k = l
  <2> DEFINE q == r - rs
  <2>1. q \in 0..(rc - 1) /\ rs + q = r
    OBVIOUS
  <2> HIDE DEF q
  <2>2. (k - 1) % G = GroupOf(q, rc) /\ (l - 1) % G = GroupOf(q, rc)
    BY <1>4, <1>7, <1>9, <1>12, <2>1
  <2>3. (k - 1) \div G + 1 = b /\ (l - 1) \div G + 1 = b
    BY <1>4, <1>12
  <2>4. (k - 1) \div G = (l - 1) \div G
    BY <1>9, <2>3
  <2> QED
    BY <1>9, <2>2, <2>4
<1> HIDE DEF R
<1>13. ExactRows(f, o, R)
  BY <1>2, <1>4, <1>8, <1>10, <1>11, <1>12 DEF ExactRows
<1>14. Kind(f, o, TRUE, "Q4_K")
  BY <1>4, <1>8, Zenon DEF Kind
<1> QED
  BY <1>8, <1>13, <1>14 DEF f, G, R

\* Dividing twice is dividing by the product.
LEMMA QuotientOfQuotient ==
  ASSUME NEW m \in Nat \ {0}, NEW n \in Nat \ {0}, NEW x \in Nat
  PROVE  m * n \in Nat \ {0} /\ x \div (m * n) = (x \div m) \div n
<1> DEFINE y == x \div m
           c == x % m
           z == y \div n
           d == y % n
<1>1. y \in Nat /\ c \in 0..(m - 1) /\ x = y * m + c
  BY DivModIs
<1>2. z \in Nat /\ d \in 0..(n - 1) /\ y = z * n + d
  BY <1>1, DivModIs
<1> HIDE DEF y, c, z, d
<1>3. m * n \in Nat \ {0}
  BY SMT
<1> DEFINE e == d * m + c
<1>4. e \in 0..(n * m - 1)
  BY <1>1, <1>2, Below
<1>5. n * m = m * n /\ (z * n) * m = z * (m * n) /\ y * m = (z * n) * m + d * m
  BY <1>1, <1>2, SMT
<1>6. z * (m * n) \in Nat /\ d * m \in Nat
  BY <1>1, <1>2, <1>3, SMT
<1>7. x = z * (m * n) + e
  BY <1>1, <1>5, <1>6
<1> HIDE DEF e
<1> DEFINE p == m * n
<1>8. p \in Nat \ {0} /\ e \in 0..(p - 1) /\ x = z * p + e
  BY <1>3, <1>4, <1>5, <1>7
<1> HIDE DEF p
<1>9. x \div p = z
  BY <1>2, <1>8, DivMod
<1> QED
  BY <1>3, <1>9 DEF p, z, y

\* batched_avx2 and batched_scalar: by block, row and vector.
LEMMA BatchedRowsExact ==
  ASSUME NEW rs \in Nat, NEW rc \in Nat, NEW bs \in Nat \ {0}
  PROVE  /\ Exact(Linear!batched_rows(rs, rc, bs), 1..bs,
                  [x \in 1..bs |-> rs..(rs + rc - 1)])
         /\ \A o : Kind(Linear!batched_rows(rs, rc, bs), o, TRUE, "Q4_K")
<1> DEFINE f == Linear!batched_rows(rs, rc, bs)
           R == rs..(rs + rc - 1)
           N == Blocks * rc * bs
           S == [x \in 1..bs |-> R]
<1>1. Blocks \in Nat /\ Blocks * rc \in Nat /\ N \in Nat
  BY LinearAssumption
<1>2. f \in [1..N -> {f[k] : k \in 1..N}]
  BY DEF Linear!batched_rows
<1>3. \A k \in 1..N :
        /\ f[k].output = ((k - 1) % bs) + 1
        /\ f[k].rows = {rs + (((k - 1) \div bs) % rc)}
        /\ f[k].blocks = {(k - 1) \div (bs * rc) + 1}
        /\ f[k].adds = TRUE /\ f[k].as = "Q4_K"
  BY DEF Linear!batched_rows, Linear!Write
<1>4. \A o \in 1..bs : S[o] = R
  OBVIOUS
<1> HIDE DEF f, S
<1>5. ASSUME NEW k \in 1..N
      PROVE  /\ rc \in Nat \ {0} /\ (k - 1) \div bs \in Nat
             /\ f[k].output - 1 \in 0..(bs - 1) /\ f[k].output \in 1..bs
             /\ f[k].rows = {rs + (((k - 1) \div bs) % rc)}
             /\ ((k - 1) \div bs) % rc \in 0..(rc - 1)
             /\ f[k].blocks = {(((k - 1) \div bs) \div rc) + 1}
             /\ ((k - 1) \div bs) \div rc \in 0..(Blocks - 1)
             /\ (k - 1) \div bs
                  = (((k - 1) \div bs) \div rc) * rc + (((k - 1) \div bs) % rc)
             /\ k = ((k - 1) \div bs) * bs + (f[k].output - 1) + 1
  <2> DEFINE x == k - 1
             y == x \div bs
  <2>1. x \in Nat /\ x = k - 1
    BY <1>1
  <2>2. /\ y \in 0..(Blocks * rc - 1) /\ x % bs \in 0..(bs - 1)
        /\ k = y * bs + (x % bs) + 1
    BY <1>1, Rounds
  <2>3. rc \in Nat \ {0}
    <3> SUFFICES ASSUME rc = 0 PROVE FALSE
      OBVIOUS
    <3>1. Blocks * rc = 0
      BY <1>1
    <3> QED
      BY <2>2, <3>1
  <2>4. f[k].output - 1 = x % bs /\ f[k].output \in 1..bs
    BY <1>3, <2>2
  <2>5. x \div (bs * rc) = y \div rc
    BY <2>1, <2>3, QuotientOfQuotient
  <2>6. f[k].rows = {rs + (y % rc)} /\ f[k].blocks = {(y \div rc) + 1}
    BY <1>3, <2>5
  <2> HIDE DEF y, x
  <2>7. y \in Nat
    BY <1>1, <2>2
  <2>8. y \div rc \in 0..(Blocks - 1)
    BY <1>1, <2>2, <2>3, QuotientBelow
  <2>9. y % rc \in 0..(rc - 1) /\ y = (y \div rc) * rc + (y % rc)
    BY <2>3, <2>7, DivModIs
  <2>10. k = y * bs + (f[k].output - 1) + 1
    BY <2>2, <2>4
  <2> QED
    BY <2>2, <2>3, <2>4, <2>6, <2>7, <2>8, <2>9, <2>10 DEF y, x
<1>6. Len(f) = N /\ DOMAIN f = 1..N
  BY <1>1, <1>2, LengthIs
<1> HIDE DEF N
<1>7. ASSUME NEW k \in 1..N
      PROVE  /\ f[k].output \in 1..bs /\ f[k].rows \subseteq S[f[k].output]
             /\ f[k].blocks \subseteq 1..Blocks /\ f[k].blocks # {}
  <2> DEFINE y == (k - 1) \div bs
  <2>1. /\ f[k].output \in 1..bs /\ f[k].rows = {rs + (y % rc)}
        /\ y % rc \in 0..(rc - 1) /\ f[k].blocks = {(y \div rc) + 1}
        /\ y \div rc \in 0..(Blocks - 1)
    BY <1>5
  <2> HIDE DEF y
  <2>2. rs + (y % rc) \in R /\ (y \div rc) + 1 \in 1..Blocks
    BY <1>1, <2>1
  <2> HIDE DEF R
  <2> QED
    BY <1>4, <2>1, <2>2
<1>8. ASSUME NEW o \in 1..bs, NEW r \in S[o], NEW b \in 1..Blocks
      PROVE  \E k \in 1..N : Takes(f[k], o, r, b)
  <2> DEFINE q == r - rs
             a == b - 1
             y == a * rc + q
             c == o - 1
             k == y * bs + c + 1
  <2>1. /\ q \in 0..(rc - 1) /\ rs + q = r /\ a \in 0..(Blocks - 1) /\ b = a + 1
        /\ c \in 0..(bs - 1) /\ o = c + 1 /\ rc \in Nat \ {0} /\ a \in Nat
    BY <1>1, <1>4
  <2>2. k = y * bs + c + 1 /\ y = a * rc + q
    OBVIOUS
  <2> HIDE DEF q, a, c, k, y
  <2>3. y \in 0..(Blocks * rc - 1)
    BY <1>1, <2>1, <2>2, Below
  <2>4. y \in Nat /\ y \div rc = a /\ y % rc = q
    BY <2>1, <2>2, DivMod
  <2>5. k \in 1..(Blocks * rc * bs) /\ (k - 1) \div bs = y /\ (k - 1) % bs = c
    BY <1>1, <2>1, <2>2, <2>3, RoundStep
  <2>6. k \in 1..N
    BY <2>5 DEF N
  <2>7. f[k].output = o /\ f[k].rows = {r} /\ f[k].blocks = {b}
    BY <1>3, <1>5, <2>1, <2>4, <2>5, <2>6
  <2> QED
    BY <2>6, <2>7 DEF Takes
<1>9. ASSUME NEW k \in 1..N, NEW l \in 1..N, NEW o, NEW r, NEW b,
             Takes(f[k], o, r, b), Takes(f[l], o, r, b)
      PROVE  k = l
  <2> DEFINE y == (k - 1) \div bs
             z == (l - 1) \div bs
  <2>1. /\ f[k].output = o /\ r \in f[k].rows /\ b \in f[k].blocks
        /\ f[l].output = o /\ r \in f[l].rows /\ b \in f[l].blocks
    BY <1>9 DEF Takes
  <2>2. /\ r = rs + (y % rc) /\ y % rc \in 0..(rc - 1) /\ b = (y \div rc) + 1
        /\ y \div rc \in 0..(Blocks - 1) /\ y = (y \div rc) * rc + (y % rc)
        /\ k = y * bs + (o - 1) + 1
    BY <1>5, <2>1
  <2>3. /\ r = rs + (z % rc) /\ z % rc \in 0..(rc - 1) /\ b = (z \div rc) + 1
        /\ z \div rc \in 0..(Blocks - 1) /\ z = (z \div rc) * rc + (z % rc)
        /\ l = z * bs + (o - 1) + 1
    BY <1>5, <2>1
  <2> HIDE DEF y, z
  <2>4. y % rc = z % rc /\ y \div rc = z \div rc
    BY <1>1, <2>2, <2>3
  <2>5. y = z
    BY <2>2, <2>3, <2>4
  <2> QED
    BY <2>2, <2>3, <2>5
<1>10. Exact(f, 1..bs, S)
  BY <1>1, <1>6, <1>7, <1>8, <1>9 DEF Exact
<1>11. \A o : Kind(f, o, TRUE, "Q4_K")
  BY <1>3, <1>6, Zenon DEF Kind
<1> QED
  BY <1>10, <1>11 DEF f, S

\* batched_vnni: one vector after the other.
LEMMA BatchedVnniExact ==
  ASSUME NEW rs \in Nat, NEW rc \in Nat, NEW bs \in Nat \ {0}
  PROVE  /\ Exact(Linear!batched_vnni(rs, rc, bs), 1..bs,
                  [x \in 1..bs |-> rs..(rs + rc - 1)])
         /\ \A o : Kind(Linear!batched_vnni(rs, rc, bs), o, TRUE, "Q4_K")
<1> DEFINE f == Linear!batched_vnni(rs, rc, bs)
           R == rs..(rs + rc - 1)
           n == Blocks * Linear!Groups(rc)
           S == [x \in 1..bs |-> R]
           g(o) == Linear!fused_gemv_q4k_vnni(o, rs, rc)
<1>1. n \in Nat
  <2>1. Linear!Groups(rc) \in Nat
    BY GroupsHoldRows
  <2> QED
    BY <2>1, LinearAssumption
<1>2. f \in [1..(bs * n) -> {f[k] : k \in 1..(bs * n)}]
  BY DEF Linear!batched_vnni
<1>3. \A k \in 1..(bs * n) : f[k] = g(((k - 1) \div n) + 1)[((k - 1) % n) + 1]
  BY DEF Linear!batched_vnni
<1>4. \A o \in 1..bs : S[o] = R
  OBVIOUS
<1>5. \A o : ExactRows(g(o), o, R) /\ Kind(g(o), o, TRUE, "Q4_K") /\ Len(g(o)) = n
  BY VnniExact
<1> HIDE DEF f, S, n, g, R
<1>16. ASSUME NEW o
       PROVE  /\ \A j \in 1..n :
                    /\ g(o)[j].output = o /\ g(o)[j].rows \subseteq R
                    /\ g(o)[j].blocks \subseteq 1..Blocks /\ g(o)[j].blocks # {}
              /\ \A r \in R, b \in 1..Blocks :
                    \E j \in 1..n : r \in g(o)[j].rows /\ b \in g(o)[j].blocks
              /\ \A i, j \in 1..n : \A r \in R, b \in 1..Blocks :
                    /\ r \in g(o)[i].rows /\ b \in g(o)[i].blocks
                    /\ r \in g(o)[j].rows /\ b \in g(o)[j].blocks
                    => i = j
  <2> DEFINE h == g(o)
  <2>1. ExactRows(h, o, R) /\ Len(h) = n
    BY <1>5
  <2> HIDE DEF h
  <2>2. /\ \A j \in 1..n :
              /\ h[j].output = o /\ h[j].rows \subseteq R
              /\ h[j].blocks \subseteq 1..Blocks /\ h[j].blocks # {}
        /\ \A r \in R, b \in 1..Blocks :
              \E j \in 1..n : r \in h[j].rows /\ b \in h[j].blocks
        /\ \A i, j \in 1..n : \A r \in R, b \in 1..Blocks :
              /\ r \in h[i].rows /\ b \in h[i].blocks
              /\ r \in h[j].rows /\ b \in h[j].blocks
              => i = j
    BY <2>1, Zenon DEF ExactRows
  <2> QED
    BY <2>2 DEF h
<1>6. bs * n \in Nat
  BY <1>1
<1>7. Len(f) = bs * n /\ DOMAIN f = 1..(bs * n)
  BY <1>2, <1>6, LengthIs
<1>8. ASSUME NEW k \in 1..(bs * n)
      PROVE  \E o \in 1..bs, j \in 1..n :
                f[k] = g(o)[j] /\ f[k].output = o /\ k = (o - 1) * n + (j - 1) + 1
  <2> DEFINE a == (k - 1) \div n
             c == (k - 1) % n
  <2>1. a \in 0..(bs - 1) /\ c \in 0..(n - 1) /\ k = a * n + c + 1
    BY <1>1, Rounds
  <2>2. f[k] = g(a + 1)[c + 1]
    BY <1>3
  <2> HIDE DEF a, c
  <2>3. a + 1 \in 1..bs /\ c + 1 \in 1..n /\ (a + 1) - 1 = a /\ (c + 1) - 1 = c
    BY <1>1, <2>1
  <2>4. g(a + 1)[c + 1].output = a + 1
    BY <1>16, <2>3
  <2> QED
    BY <2>1, <2>2, <2>3, <2>4
<1>9. ASSUME NEW o \in 1..bs, NEW j \in 1..n
      PROVE  \E k \in 1..(bs * n) : f[k] = g(o)[j]
  <2> DEFINE a == o - 1
             c == j - 1
             k == a * n + c + 1
  <2>1. a \in 0..(bs - 1) /\ c \in 0..(n - 1) /\ o = a + 1 /\ j = c + 1
    BY <1>1
  <2>2. k = a * n + c + 1
    OBVIOUS
  <2> HIDE DEF a, c, k
  <2>3. k \in 1..(bs * n) /\ (k - 1) \div n = a /\ (k - 1) % n = c
    BY <1>1, <2>1, <2>2, RoundStep
  <2> QED
    BY <1>3, <2>1, <2>3
<1>10. ASSUME NEW k \in 1..(bs * n)
       PROVE  /\ f[k].output \in 1..bs /\ f[k].rows \subseteq S[f[k].output]
              /\ f[k].blocks \subseteq 1..Blocks /\ f[k].blocks # {}
  <2>1. PICK o \in 1..bs, j \in 1..n : f[k] = g(o)[j] /\ f[k].output = o
    BY <1>8
  <2>2. g(o)[j].rows \subseteq R /\ g(o)[j].blocks \subseteq 1..Blocks /\ g(o)[j].blocks # {}
    BY <1>16
  <2> QED
    BY <1>4, <2>1, <2>2
<1>11. ASSUME NEW o \in 1..bs, NEW r \in S[o], NEW b \in 1..Blocks
       PROVE  \E k \in 1..(bs * n) : Takes(f[k], o, r, b)
  <2>1. PICK j \in 1..n : r \in g(o)[j].rows /\ b \in g(o)[j].blocks
    BY <1>4, <1>16
  <2>2. PICK k \in 1..(bs * n) : f[k] = g(o)[j]
    BY <1>9
  <2>3. g(o)[j].output = o
    BY <1>16
  <2> QED
    BY <2>1, <2>2, <2>3 DEF Takes
<1>12. ASSUME NEW k \in 1..(bs * n), NEW l \in 1..(bs * n), NEW o, NEW r, NEW b,
              Takes(f[k], o, r, b), Takes(f[l], o, r, b)
       PROVE  k = l
  <2>1. /\ f[k].output = o /\ r \in f[k].rows /\ b \in f[k].blocks
        /\ f[l].output = o /\ r \in f[l].rows /\ b \in f[l].blocks
    BY <1>12 DEF Takes
  <2>2. PICK i \in 1..n : f[k] = g(o)[i] /\ o \in 1..bs /\ k = (o - 1) * n + (i - 1) + 1
    BY <1>8, <2>1
  <2>3. PICK j \in 1..n : f[l] = g(o)[j] /\ l = (o - 1) * n + (j - 1) + 1
    BY <1>8, <2>1
  <2>4. r \in R /\ b \in 1..Blocks
    BY <1>16, <2>1, <2>2
  <2>5. i = j
    <3>1. /\ r \in g(o)[i].rows /\ b \in g(o)[i].blocks
          /\ r \in g(o)[j].rows /\ b \in g(o)[j].blocks
      BY <2>1, <2>2, <2>3
    <3> QED
      BY <1>16, <2>4, <3>1
  <2> QED
    BY <2>2, <2>3, <2>5
<1>13. Exact(f, 1..bs, S)
  BY <1>6, <1>7, <1>10, <1>11, <1>12 DEF Exact
<1>14. ASSUME NEW o, NEW k \in 1..(bs * n), f[k].output = o
       PROVE  f[k].adds = TRUE /\ f[k].as = "Q4_K"
  <2>1. PICK j \in 1..n : f[k] = g(o)[j] /\ g(o)[j].output = o
    BY <1>8, <1>14
  <2> DEFINE h == g(o)
  <2>2. Kind(h, o, TRUE, "Q4_K") /\ j \in 1..Len(h)
    BY <1>5
  <2>3. f[k] = h[j] /\ h[j].output = o
    BY <2>1
  <2> HIDE DEF h
  <2>4. h[j].adds = TRUE /\ h[j].as = "Q4_K"
    BY <2>2, <2>3, Zenon DEF Kind
  <2> QED
    BY <2>3, <2>4
<1>15. \A o : Kind(f, o, TRUE, "Q4_K")
  BY <1>7, <1>14, Zenon DEF Kind
<1> QED
  BY <1>13, <1>15 DEF f, S, R

\* A thread of fallback_gemv copies one vector's result after the other.
Copies(s, c, R, as) ==
    [k \in 1..c |-> Linear!Write(s + k, R, 1..Blocks, FALSE, as)]

\* The copies are exact for the vectors s + 1 to s + c.
LEMMA CopiesExact ==
  ASSUME NEW s \in Nat, NEW c \in Nat, NEW R, NEW as, NEW O,
         \A k \in 1..c : s + k \in O
  PROVE  /\ Exact(Copies(s, c, R, as), O,
                  [o \in O |-> IF o \in (s + 1)..(s + c) THEN R ELSE {}])
         /\ \A o : Kind(Copies(s, c, R, as), o, FALSE, as)
<1> DEFINE f == Copies(s, c, R, as)
           S == [o \in O |-> IF o \in (s + 1)..(s + c) THEN R ELSE {}]
<1>1. f \in [1..c -> {f[k] : k \in 1..c}]
  BY DEF Copies
<1>2. \A k \in 1..c : /\ f[k].output = s + k /\ f[k].rows = R
                      /\ f[k].blocks = 1..Blocks /\ f[k].adds = FALSE /\ f[k].as = as
  BY DEF Copies, Linear!Write
<1> HIDE DEF f
<1>3. Len(f) = c /\ DOMAIN f = 1..c
  BY <1>1, LengthIs
<1>4. 1..Blocks # {}
  BY LinearAssumption
<1>5. \A o \in O : S[o] = IF o \in (s + 1)..(s + c) THEN R ELSE {}
  OBVIOUS
<1> HIDE DEF S
<1>6. ASSUME NEW k \in 1..c
      PROVE  /\ f[k].output \in O /\ f[k].rows \subseteq S[f[k].output]
             /\ f[k].blocks \subseteq 1..Blocks /\ f[k].blocks # {}
  <2>1. s + k \in (s + 1)..(s + c) /\ s + k \in O
    OBVIOUS
  <2> QED
    BY <1>2, <1>4, <1>5, <2>1
<1>7. ASSUME NEW o \in O, NEW r \in S[o], NEW b \in 1..Blocks
      PROVE  \E k \in 1..c : Takes(f[k], o, r, b)
  <2>1. o \in (s + 1)..(s + c) /\ r \in R
    BY <1>5
  <2>2. o - s \in 1..c /\ s + (o - s) = o
    BY <2>1
  <2>3. Takes(f[o - s], o, r, b)
    BY <1>2, <2>1, <2>2 DEF Takes
  <2> QED
    BY <2>2, <2>3
<1>8. ASSUME NEW k \in 1..c, NEW l \in 1..c, NEW o, NEW r, NEW b,
             Takes(f[k], o, r, b), Takes(f[l], o, r, b)
      PROVE  k = l
  <2>1. s + k = o /\ s + l = o
    BY <1>2, <1>8 DEF Takes
  <2> QED
    BY <2>1
<1>9. Exact(f, O, S)
  BY <1>3, <1>6, <1>7, <1>8 DEF Exact
<1>10. \A o : Kind(f, o, FALSE, as)
  BY <1>2, <1>3, Zenon DEF Kind
<1> QED
  BY <1>9, <1>10 DEF S, f

-----------------------------------------------------------------------------
(* FlattenSeq, which forward_gemvs joins its kernels' writes with.         *)

\* One sequence after the other: what a function that appends them satisfies.
Appends(g, seqs, m) ==
    g = [i \in 1..m |-> IF i = 1 THEN seqs[i] ELSE g[i - 1] \o seqs[i]]

\* Such a function exists, for any number of sequences.
LEMMA AppendsExists ==
  ASSUME NEW n \in Nat, NEW seqs
  PROVE  \E g : Appends(g, seqs, n)
<1> DEFINE S == {m \in 0..n : \E g : Appends(g, seqs, m)}
<1>1. 0 \in S
  <2> DEFINE g == [i \in 1..0 |-> 0]
  <2>1. g = [i \in 1..0 |-> IF i = 1 THEN seqs[i] ELSE g[i - 1] \o seqs[i]]
    OBVIOUS
  <2>2. Appends(g, seqs, 0)
    BY <2>1 DEF Appends
  <2> QED
    BY <2>2
<1>2. ASSUME NEW m \in 0..(n - 1), m \in S PROVE m + 1 \in S
  <2>1. PICK g : g = [i \in 1..m |-> IF i = 1 THEN seqs[i] ELSE g[i - 1] \o seqs[i]]
    BY <1>2 DEF Appends
  <2> DEFINE top == IF m + 1 = 1 THEN seqs[m + 1] ELSE g[m] \o seqs[m + 1]
             h == [i \in 1..(m + 1) |-> IF i = m + 1 THEN top ELSE g[i]]
  <2>2. ASSUME NEW i \in 1..(m + 1)
        PROVE  h[i] = IF i = 1 THEN seqs[i] ELSE h[i - 1] \o seqs[i]
    <3>1. CASE i = m + 1
      <4>1. i # 1 => i - 1 \in 1..(m + 1) /\ i - 1 = m /\ i - 1 # m + 1
        BY <3>1
      <4> HIDE DEF top
      <4>2. i # 1 => h[i - 1] = g[m]
        BY <4>1
      <4>3. h[i] = top
        BY <3>1
      <4> QED
        BY <3>1, <4>2, <4>3 DEF top
    <3>2. CASE i # m + 1
      <4>1. i \in 1..m /\ (i # 1 => i - 1 \in 1..(m + 1) /\ i - 1 # m + 1)
        BY <3>2
      <4>2. g[i] = IF i = 1 THEN seqs[i] ELSE g[i - 1] \o seqs[i]
        BY <2>1, <4>1
      <4> HIDE DEF top
      <4>3. h[i] = g[i] /\ (i # 1 => h[i - 1] = g[i - 1])
        BY <3>2, <4>1
      <4> QED
        BY <4>2, <4>3
    <3> QED
      BY <3>1, <3>2
  <2>3. h = [i \in 1..(m + 1) |-> h[i]]
    OBVIOUS
  <2> HIDE DEF h
  <2>4. h = [i \in 1..(m + 1) |-> IF i = 1 THEN seqs[i] ELSE h[i - 1] \o seqs[i]]
    BY <2>2, <2>3
  <2>5. Appends(h, seqs, m + 1)
    BY <2>4 DEF Appends
  <2> QED
    BY <2>5
<1> HIDE DEF S
<1>3. 0..n \subseteq S
  BY <1>1, <1>2, InductionTo
<1> QED
  BY <1>3 DEF S

\* FlattenSeq of the community modules is its last value.
LEMMA FlattenAppends ==
  ASSUME NEW seqs, Len(seqs) \in Nat \ {0}
  PROVE  \E g : Appends(g, seqs, Len(seqs)) /\ Linear!FlattenSeq(seqs) = g[Len(seqs)]
<1> DEFINE g == CHOOSE h : Appends(h, seqs, Len(seqs))
<1>1. Appends(g, seqs, Len(seqs))
  BY AppendsExists
<1>2. Linear!FlattenSeq(seqs) = g[Len(seqs)]
  BY DEF Linear!FlattenSeq, Appends
<1> QED
  BY <1>1, <1>2

\* Where the m sequences are in the one that has them one after the other.
Placed(flat, off, seqs, m, W) ==
    /\ flat \in Seq(W) /\ off \in [1..m -> Nat]
    /\ \A o \in 1..m, j \in Nat \ {0} : j <= Len(seqs[o]) =>
          off[o] + j <= Len(flat) /\ flat[off[o] + j] = seqs[o][j]
    /\ \A k \in 1..Len(flat) : \E o \in 1..m, j \in Nat \ {0} :
          j <= Len(seqs[o]) /\ k = off[o] + j
    /\ \A o \in 1..m : off[o] + Len(seqs[o]) <= Len(flat)
    /\ \A o, p \in 1..m : o < p => off[o] + Len(seqs[o]) <= off[p]

\* In the sequence of all, each has a place of its own.
LEMMA FlattenPlaces ==
  ASSUME NEW W, NEW seqs, Len(seqs) \in Nat \ {0},
         \A i \in 1..Len(seqs) : seqs[i] \in Seq(W)
  PROVE  \E off : Placed(Linear!FlattenSeq(seqs), off, seqs, Len(seqs), W)
<1> DEFINE n == Len(seqs)
<1>1. PICK g : Appends(g, seqs, n) /\ Linear!FlattenSeq(seqs) = g[n]
  BY FlattenAppends
<1>2. /\ n \in Nat \ {0}
      /\ \A i \in 1..n : seqs[i] \in Seq(W) /\ Len(seqs[i]) \in Nat
      /\ \A i \in 1..n : g[i] = IF i = 1 THEN seqs[i] ELSE g[i - 1] \o seqs[i]
  BY <1>1, LenProperties DEF Appends
<1> HIDE DEF n
<1> DEFINE S == {m \in 0..(n - 1) : \E off : Placed(g[m + 1], off, seqs, m + 1, W)}
<1>3. 0 \in S
  <2> DEFINE off == [o \in 1..1 |-> 0]
  <2>1. g[1] = seqs[1] /\ seqs[1] \in Seq(W) /\ Len(seqs[1]) \in Nat
    BY <1>2
  <2>2. off \in [1..1 -> Nat] /\ off[1] = 0 /\ \A o \in 1..1 : o = 1
    OBVIOUS
  <2> HIDE DEF off
  <2>3. Placed(g[1], off, seqs, 1, W)
    BY <2>1, <2>2 DEF Placed
  <2>4. 0 + 1 = 1 /\ 0 \in 0..(n - 1)
    BY <1>2
  <2> QED
    BY <2>3, <2>4
<1>4. ASSUME NEW m \in 0..(n - 2), m \in S PROVE m + 1 \in S
  <2> DEFINE p == m + 1
             q == m + 2
             flat == g[p]
             next == seqs[q]
             more == g[q]
  <2>1. /\ p \in 1..n /\ q \in 1..n /\ p \in Nat /\ q = p + 1 /\ q # 1 /\ q - 1 = p
        /\ p \in 0..(n - 1)
    BY <1>2
  <2>2. PICK off : Placed(flat, off, seqs, p, W)
    BY <1>4
  <2>3. more = flat \o next
    BY <1>2, <2>1
  <2>4. next \in Seq(W) /\ flat \in Seq(W) /\ Len(next) \in Nat /\ Len(flat) \in Nat
    BY <1>2, <2>1, <2>2, LenProperties DEF Placed
  <2> HIDE DEF flat, next, more
  <2>5. /\ more \in Seq(W) /\ Len(more) = Len(flat) + Len(next)
        /\ \A i \in 1..(Len(flat) + Len(next)) :
              more[i] = IF i <= Len(flat) THEN flat[i] ELSE next[i - Len(flat)]
    BY <2>3, <2>4, ConcatProperties
  <2> DEFINE off2 == [o \in 1..q |-> IF o = q THEN Len(flat) ELSE off[o]]
  <2>6. /\ off \in [1..p -> Nat]
        /\ \A o \in 1..p, j \in Nat \ {0} : j <= Len(seqs[o]) =>
              off[o] + j <= Len(flat) /\ flat[off[o] + j] = seqs[o][j]
        /\ \A k \in 1..Len(flat) : \E o \in 1..p, j \in Nat \ {0} :
              j <= Len(seqs[o]) /\ k = off[o] + j
        /\ \A o \in 1..p : off[o] + Len(seqs[o]) <= Len(flat)
        /\ \A o, r \in 1..p : o < r => off[o] + Len(seqs[o]) <= off[r]
    BY <2>2 DEF Placed
  <2>7. /\ off2 \in [1..q -> Nat] /\ off2[q] = Len(flat)
        /\ \A o \in 1..p : o \in 1..q /\ off2[o] = off[o] /\ o # q
        /\ \A o \in 1..q : o = q \/ o \in 1..p
    BY <2>1, <2>4, <2>6
  <2> HIDE DEF off2
  <2>8. ASSUME NEW o \in 1..q, NEW j \in Nat \ {0}, j <= Len(seqs[o])
        PROVE  off2[o] + j <= Len(more) /\ more[off2[o] + j] = seqs[o][j]
    <3>1. CASE o = q
      <4>1. j <= Len(next) /\ seqs[o][j] = next[j]
        BY <2>8, <3>1 DEF next
      <4>2. /\ Len(flat) + j \in 1..(Len(flat) + Len(next)) /\ ~(Len(flat) + j <= Len(flat))
            /\ (Len(flat) + j) - Len(flat) = j
        BY <2>4, <4>1
      <4>3. more[Len(flat) + j] = next[j] /\ Len(flat) + j <= Len(more)
        BY <2>4, <2>5, <4>2
      <4> QED
        BY <2>7, <3>1, <4>1, <4>3
    <3>2. CASE o \in 1..p
      <4>1. off[o] + j <= Len(flat) /\ flat[off[o] + j] = seqs[o][j] /\ off[o] \in Nat
        BY <2>6, <2>8, <3>2
      <4>2. off[o] + j \in 1..(Len(flat) + Len(next)) /\ off[o] + j <= Len(more)
        BY <2>4, <2>5, <4>1
      <4> QED
        BY <2>5, <2>7, <3>2, <4>1, <4>2
    <3> QED
      BY <2>7, <3>1, <3>2
  <2>9. ASSUME NEW k \in 1..Len(more)
        PROVE  \E o \in 1..q, j \in Nat \ {0} : j <= Len(seqs[o]) /\ k = off2[o] + j
    <3>1. CASE k <= Len(flat)
      <4>1. PICK o \in 1..p, j \in Nat \ {0} : j <= Len(seqs[o]) /\ k = off[o] + j
        BY <2>6, <3>1
      <4> QED
        BY <2>7, <4>1
    <3>2. CASE ~(k <= Len(flat))
      <4> DEFINE j == k - Len(flat)
      <4>1. j \in Nat \ {0} /\ j <= Len(next) /\ k = Len(flat) + j
        BY <2>4, <2>5, <3>2
      <4> HIDE DEF j
      <4>2. j <= Len(seqs[q]) /\ k = off2[q] + j
        BY <2>7, <4>1 DEF next
      <4>3. q \in 1..q
        BY <2>1
      <4> QED
        BY <4>1, <4>2, <4>3
    <3> QED
      BY <3>1, <3>2
  <2>10. ASSUME NEW o \in 1..q, NEW r \in 1..q, o < r
         PROVE  off2[o] + Len(seqs[o]) <= off2[r]
    <3>1. o \in 1..p
      BY <2>1, <2>10
    <3>2. CASE r = q
      <4>1. off[o] + Len(seqs[o]) <= Len(flat)
        BY <2>6, <3>1
      <4> QED
        BY <2>7, <3>1, <3>2, <4>1
    <3>3. CASE r # q
      <4>1. r \in 1..p
        BY <2>7, <3>3
      <4> QED
        BY <2>6, <2>7, <2>10, <3>1, <4>1
    <3> QED
      BY <3>2, <3>3
  <2>13. ASSUME NEW o \in 1..q
         PROVE  off2[o] + Len(seqs[o]) <= Len(more)
    <3>1. CASE o = q
      BY <2>4, <2>5, <2>7, <3>1 DEF next
    <3>2. CASE o \in 1..p
      <4>1. off[o] + Len(seqs[o]) <= Len(flat) /\ off2[o] = off[o] /\ off[o] \in Nat
        BY <2>6, <2>7, <3>2
      <4>2. Len(seqs[o]) \in Nat
        BY <1>2, <2>1, <3>2
      <4> QED
        BY <2>4, <2>5, <4>1, <4>2
    <3> QED
      BY <2>7, <3>1, <3>2
  <2>11. Placed(more, off2, seqs, q, W)
    BY <2>5, <2>7, <2>8, <2>9, <2>10, <2>13 DEF Placed
  <2>12. p + 1 = q
    BY <2>1
  <2> QED
    BY <2>1, <2>11, <2>12 DEF more
<1> HIDE DEF S
<1>5. 0..(n - 1) \subseteq S
  <2>1. n - 1 \in Nat /\ (n - 1) - 1 = n - 2
    BY <1>2
  <2> QED
    BY <1>3, <1>4, <2>1, InductionTo
<1>6. \E off : Placed(g[n], off, seqs, n, W)
  <2>1. n - 1 \in 0..(n - 1) /\ (n - 1) + 1 = n
    BY <1>2
  <2> QED
    BY <1>5, <2>1 DEF S
<1> QED
  BY <1>1, <1>6 DEF n

-----------------------------------------------------------------------------
(* A call of linear.rs, and the rows of each thread.                       *)

\* Work depends on the call and the matrix alone.
LEMMA SameWork ==
  ASSUME slot1' = slot1, slot2' = slot2, NEW t
  PROVE  Linear!Work(t)' = Linear!Work(t)
  BY SMT DEF Linear!Work, Linear!MatrixWork, Linear!BatchWork, Linear!GemvsWork,
     Linear!fused_gemv_q4k, Linear!fused_gemv_q6k, Linear!fused_gemv_q4k_vnni, Linear!RowWrites,
     Linear!fallback_gemv, Linear!fused_gemv_q4k_batched, Linear!batched_rows, Linear!batched_vnni,
     Linear!Outs, Linear!LongestRows

\* The number of outputs of the call.
Count == Cardinality(Linear!Outs)

\* A call of one of the four entry points.
Called ==
    /\ slot1.fn \in {"forward_linear", "forward_linear_multi",
                     "forward_linear_batch", "forward_gemvs"}
    /\ slot1.threads \in Nat \ {0}
    /\ Count \in Nat \ {0} /\ Linear!Outs = 1..Count
    /\ \A o \in 1..Count : /\ slot1.rows[o] \in Nat
                           /\ slot1.dtype[o] \in {"Q4_K", "Q6_K", "Q4_0", "F32"}
                           /\ slot1.dtype[o] \in Dtypes
    /\ slot1.fn = "forward_linear" => Count = 1
    /\ slot1.fn = "forward_linear_batch" =>
          \A o \in 1..Count : slot1.rows[o] = slot1.rows[1] /\ slot1.dtype[o] = slot1.dtype[1]

\* Every call the model starts from is one.
LEMMA CallsAre ==
  ASSUME slot1 \in Linear!Calls, Linear!Possible(slot1)
  PROVE  Called
<1>1. PICK fn \in Functions, c \in LinearCpus, n \in ThreadAnswers,
           dtype \in UNION {[1..o -> Dtypes] : o \in 1..Outputs},
           rows \in UNION {[1..o -> RowCounts] : o \in 1..Outputs} :
             slot1 = [fn |-> fn, cpu |-> c, threads |-> Linear!adapt_threads(n),
                      dtype |-> dtype, rows |-> rows]
  BY DEF Linear!Calls
<1>2. /\ slot1.fn = fn /\ slot1.threads = Linear!adapt_threads(n)
      /\ slot1.dtype = dtype /\ slot1.rows = rows
  BY <1>1
<1>3. PICK m \in 1..Outputs : rows \in [1..m -> RowCounts]
  OBVIOUS
<1>4. DOMAIN dtype = 1..m
  BY <1>2, <1>3 DEF Linear!Possible
<1>5. \A o \in 1..m : dtype[o] \in Dtypes
  <2>1. PICK k \in 1..Outputs : dtype \in [1..k -> Dtypes]
    OBVIOUS
  <2> QED
    BY <1>4, <2>1
<1>6. m \in Nat \ {0} /\ Linear!Outs = 1..m
  BY <1>2, <1>3, LinearAssumption DEF Linear!Outs
<1>7. Count = m
  BY <1>6, FS_Interval DEF Count
<1>8. Linear!adapt_threads(n) \in Nat \ {0}
  BY LinearAssumption DEF Linear!adapt_threads
<1>9. \A o \in 1..m : rows[o] \in Nat
  BY <1>3, LinearAssumption
<1>10. slot1.fn = "forward_linear" => m = 1
  <2>1. ASSUME slot1.fn = "forward_linear" PROVE 1..m = {1}
    BY <1>2, <1>3, <2>1 DEF Linear!Possible
  <2>2. m \in 1..m
    BY <1>6
  <2> QED
    BY <2>1, <2>2
<1>11. slot1.fn = "forward_linear_batch" =>
          \A o \in 1..m : rows[o] = rows[1] /\ dtype[o] = dtype[1]
  BY <1>2, <1>3 DEF Linear!Possible
<1>12. fn \in {"forward_linear", "forward_linear_multi", "forward_linear_batch", "forward_gemvs"}
       /\ \A o \in 1..m : dtype[o] \in {"Q4_K", "Q6_K", "Q4_0", "F32"}
  BY <1>5, LinearAssumption
<1> QED
  BY <1>2, <1>5, <1>6, <1>7, <1>8, <1>9, <1>10, <1>11, <1>12 DEF Called

\* Among finitely many outputs one has the most rows.
LEMMA LongestIs ==
  ASSUME Called
  PROVE  /\ Linear!LongestRows \in Nat
         /\ \A o \in 1..Count : slot1.rows[o] <= Linear!LongestRows
<1> DEFINE n == Count
           rows == slot1.rows
           S == {m \in 0..(n - 1) : \E o \in 1..(m + 1) :
                    \A p \in 1..(m + 1) : rows[p] <= rows[o]}
<1>1. n \in Nat \ {0} /\ Linear!Outs = 1..n /\ \A o \in 1..n : rows[o] \in Nat
  BY DEF Called
<1> HIDE DEF n, rows
<1>2. 0 \in S
  <2>1. \A o \in 1..(0 + 1) : o = 1
    OBVIOUS
  <2> QED
    BY <1>1, <2>1
<1>3. ASSUME NEW m \in 0..(n - 2), m \in S PROVE m + 1 \in S
  <2>1. PICK o \in 1..(m + 1) : \A p \in 1..(m + 1) : rows[p] <= rows[o]
    BY <1>3
  <2> DEFINE q == m + 2
  <2>2. /\ q \in 1..n /\ q \in 1..(m + 2) /\ o \in 1..(m + 2) /\ o \in 1..n
        /\ \A p \in 1..(m + 2) : p \in 1..n /\ (p = q \/ p \in 1..(m + 1))
        /\ (m + 1) + 1 = m + 2 /\ m + 1 \in 0..(n - 1)
    BY <1>1
  <2> HIDE DEF q
  <2>3. \E x \in 1..(m + 2) : \A p \in 1..(m + 2) : rows[p] <= rows[x]
    <3>1. CASE rows[q] <= rows[o]
      <4>1. \A p \in 1..(m + 2) : rows[p] <= rows[o]
        BY <2>1, <2>2, <3>1
      <4> QED
        BY <2>2, <4>1
    <3>2. CASE ~(rows[q] <= rows[o])
      <4>1. rows[q] \in Nat /\ rows[o] \in Nat /\ rows[o] <= rows[q]
        BY <1>1, <2>2, <3>2
      <4>2. \A p \in 1..(m + 2) : rows[p] <= rows[q]
        BY <1>1, <2>1, <2>2, <4>1
      <4> QED
        BY <2>2, <4>2
    <3> QED
      BY <3>1, <3>2
  <2> QED
    BY <2>2, <2>3
<1> HIDE DEF S
<1>4. 0..(n - 1) \subseteq S
  <2>1. n - 1 \in Nat /\ (n - 1) - 1 = n - 2
    BY <1>1
  <2> QED
    BY <1>2, <1>3, <2>1, InductionTo
<1>5. \E o \in 1..n : \A p \in 1..n : rows[p] <= rows[o]
  <2>1. n - 1 \in S /\ (n - 1) + 1 = n
    BY <1>1, <1>4
  <2> QED
    BY <2>1 DEF S
<1>6. \E x \in {rows[o] : o \in 1..n} : \A o \in 1..n : rows[o] <= x
  BY <1>5
<1> DEFINE longest == CHOOSE x \in {rows[o] : o \in 1..n} : \A o \in 1..n : rows[o] <= x
<1>7. longest \in {rows[o] : o \in 1..n} /\ \A o \in 1..n : rows[o] <= longest
  BY <1>6
<1>8. Linear!LongestRows = longest
  BY <1>1 DEF Linear!LongestRows, rows
<1> HIDE DEF longest
<1>9. longest \in Nat
  BY <1>1, <1>7
<1> QED
  BY <1>7, <1>8, <1>9 DEF n, rows

\* A part, or what of it is below k, from its start and its size.
LEMMA PartRange ==
  ASSUME NEW nr \in Nat, NEW n \in Nat \ {0}, NEW t \in 0..(n - 1)
  PROVE  /\ Linear!Part(t, nr, n) = Part(t, nr, n)
         /\ Linear!PartStart(t, nr, n) \in Nat
         /\ Part(t, nr, n) \subseteq 0..(nr - 1)
         /\ Cardinality(Part(t, nr, n)) \in Nat
         /\ Part(t, nr, n) = Linear!PartStart(t, nr, n)..
               (Linear!PartStart(t, nr, n) + Cardinality(Part(t, nr, n)) - 1)
         /\ \A k \in Nat :
               /\ Cardinality(Part(t, nr, n) \cap 0..(k - 1)) \in Nat
               /\ Part(t, nr, n) \cap 0..(k - 1) = Linear!PartStart(t, nr, n)..
                    (Linear!PartStart(t, nr, n)
                       + Cardinality(Part(t, nr, n) \cap 0..(k - 1)) - 1)
<1> DEFINE s == PartStart(t, nr, n)
           e == PartEnd(t, nr, n) - 1
           P == Part(t, nr, n)
<1>1. PerThread(nr, n) \in Nat
  BY PartsSuffice
<1>2. s \in Nat
  BY <1>1, TimesMonotone DEF PartStart
<1>3. e \in Int /\ e <= nr - 1 /\ P = s..e
  BY <1>1, <1>2 DEF PartEnd, Part
<1>4. Linear!PartStart(t, nr, n) = s
  BY DEF Linear!PartStart, Linear!PerThread, PartStart, PerThread
<1>5. Linear!Part(t, nr, n) = P
  BY DEF Linear!Part, Linear!PartStart, Linear!PartEnd, Linear!PerThread,
         Part, PartStart, PartEnd, PerThread
<1> HIDE DEF s, e, P
<1>6. ASSUME NEW a \in Int
      PROVE  Cardinality(s..a) \in Nat /\ s..a = s..(s + Cardinality(s..a) - 1)
  <2>1. Cardinality(s..a) = IF s > a THEN 0 ELSE a - s + 1
    BY <1>2, FS_Interval
  <2> QED
    BY <1>2, <2>1
<1>7. ASSUME NEW k \in Nat
      PROVE  /\ Cardinality(P \cap 0..(k - 1)) \in Nat
             /\ P \cap 0..(k - 1) = s..(s + Cardinality(P \cap 0..(k - 1)) - 1)
  <2> DEFINE a == IF e <= k - 1 THEN e ELSE k - 1
  <2>1. a \in Int /\ P \cap 0..(k - 1) = s..a
    BY <1>2, <1>3
  <2> HIDE DEF a
  <2> QED
    BY <1>6, <2>1
<1>8. P \subseteq 0..(nr - 1)
  BY <1>2, <1>3
<1>9. Cardinality(P) \in Nat /\ P = s..(s + Cardinality(P) - 1)
  BY <1>3, <1>6
<1> QED
  BY <1>2, <1>4, <1>5, <1>7, <1>8, <1>9 DEF P

\* A sequence that lists its elements.
Listed(f) == f = [k \in 1..Len(f) |-> f[k]]

\* The writes of each output apart: seqs[o] holds those of output o.
EachExact(seqs, S, n) ==
    /\ n \in Nat \ {0} /\ Len(seqs) = n
    /\ \A o \in 1..n : ExactRows(seqs[o], o, S[o]) /\ Listed(seqs[o])

\* One after the other they are exact for all outputs, of the kinds they had.
LEMMA FlattenExact ==
  ASSUME NEW n, NEW seqs, NEW S, EachExact(seqs, S, n)
  PROVE  /\ Exact(Linear!FlattenSeq(seqs), 1..n, S)
         /\ \A o \in 1..n : \A adds, as : Kind(seqs[o], o, adds, as) =>
               Kind(Linear!FlattenSeq(seqs), o, adds, as)
<1> DEFINE W == {seqs[p[1]][p[2]] : p \in (1..n) \X Nat}
           f == Linear!FlattenSeq(seqs)
<1>1. n \in Nat \ {0} /\ Len(seqs) = n
  BY DEF EachExact
<1>2. ASSUME NEW o \in 1..n
      PROVE  /\ Len(seqs[o]) \in Nat
             /\ \A k \in 1..Len(seqs[o]) :
                   /\ seqs[o][k].output = o /\ seqs[o][k].rows \subseteq S[o]
                   /\ seqs[o][k].blocks \subseteq 1..Blocks /\ seqs[o][k].blocks # {}
             /\ \A r \in S[o], b \in 1..Blocks :
                   \E k \in 1..Len(seqs[o]) : r \in seqs[o][k].rows /\ b \in seqs[o][k].blocks
             /\ \A k, l \in 1..Len(seqs[o]) : \A r \in S[o], b \in 1..Blocks :
                   /\ r \in seqs[o][k].rows /\ b \in seqs[o][k].blocks
                   /\ r \in seqs[o][l].rows /\ b \in seqs[o][l].blocks
                   => k = l
  <2> DEFINE h == seqs[o]
             R == S[o]
  <2>1. ExactRows(h, o, R)
    BY DEF EachExact
  <2> HIDE DEF h, R
  <2>2. /\ Len(h) \in Nat
        /\ \A k \in 1..Len(h) :
              /\ h[k].output = o /\ h[k].rows \subseteq R
              /\ h[k].blocks \subseteq 1..Blocks /\ h[k].blocks # {}
        /\ \A r \in R, b \in 1..Blocks :
              \E k \in 1..Len(h) : r \in h[k].rows /\ b \in h[k].blocks
        /\ \A k, l \in 1..Len(h) : \A r \in R, b \in 1..Blocks :
              /\ r \in h[k].rows /\ b \in h[k].blocks
              /\ r \in h[l].rows /\ b \in h[l].blocks
              => k = l
    BY <2>1, Zenon DEF ExactRows
  <2> QED
    BY <2>2 DEF h, R
<1>3. ASSUME NEW o \in 1..n PROVE seqs[o] \in Seq(W)
  <2> DEFINE h == seqs[o]
  <2>1. Listed(h) /\ Len(h) \in Nat
    BY <1>2 DEF EachExact
  <2>2. ASSUME NEW k \in 1..Len(h) PROVE h[k] \in W
    <3>1. <<o, k>> \in (1..n) \X Nat
      BY <2>1
    <3>2. h[k] = seqs[<<o, k>>[1]][<<o, k>>[2]]
      OBVIOUS
    <3> QED
      BY <3>1, <3>2
  <2> HIDE DEF h, W
  <2>3. h \in [1..Len(h) -> W]
    BY <2>1, <2>2 DEF Listed
  <2>4. h \in Seq(W)
    BY <2>1, <2>3, LengthIs
  <2> QED
    BY <2>4 DEF h
<1> HIDE DEF W
<1>4. PICK off : Placed(f, off, seqs, n, W)
  <2>1. Len(seqs) \in Nat \ {0} /\ \A i \in 1..Len(seqs) : seqs[i] \in Seq(W)
    BY <1>1, <1>3
  <2> HIDE DEF f
  <2>2. \E off : Placed(Linear!FlattenSeq(seqs), off, seqs, Len(seqs), W)
    BY <2>1, FlattenPlaces
  <2> QED
    BY <1>1, <2>2 DEF f
<1> HIDE DEF f
<1>5. /\ f \in Seq(W) /\ off \in [1..n -> Nat]
      /\ \A o \in 1..n, j \in Nat \ {0} : j <= Len(seqs[o]) =>
            off[o] + j <= Len(f) /\ f[off[o] + j] = seqs[o][j]
      /\ \A k \in 1..Len(f) : \E o \in 1..n, j \in Nat \ {0} :
            j <= Len(seqs[o]) /\ k = off[o] + j
  BY <1>4 DEF Placed
<1>6. Len(f) \in Nat /\ DOMAIN f = 1..Len(f)
  BY <1>5, LenProperties
<1>7. ASSUME NEW k \in 1..Len(f)
      PROVE  \E o \in 1..n : \E j \in 1..Len(seqs[o]) :
                f[k] = seqs[o][j] /\ k = off[o] + j
  <2>1. PICK o \in 1..n, j \in Nat \ {0} : j <= Len(seqs[o]) /\ k = off[o] + j
    BY <1>5
  <2>2. f[k] = seqs[o][j] /\ j \in 1..Len(seqs[o])
    BY <1>2, <1>5, <2>1
  <2> QED
    BY <2>1, <2>2
<1>8. ASSUME NEW o \in 1..n, NEW j \in 1..Len(seqs[o])
      PROVE  \E k \in 1..Len(f) : f[k] = seqs[o][j]
  <2>1. Len(seqs[o]) \in Nat /\ off[o] \in Nat
    BY <1>2, <1>5
  <2>2. j \in Nat \ {0} /\ j <= Len(seqs[o])
    BY <2>1
  <2>3. off[o] + j <= Len(f) /\ f[off[o] + j] = seqs[o][j]
    BY <1>5, <2>2
  <2>4. off[o] + j \in 1..Len(f)
    BY <1>6, <2>1, <2>2, <2>3
  <2> QED
    BY <2>3, <2>4
<1>9. ASSUME NEW k \in 1..Len(f)
      PROVE  /\ f[k].output \in 1..n /\ f[k].rows \subseteq S[f[k].output]
             /\ f[k].blocks \subseteq 1..Blocks /\ f[k].blocks # {}
  <2>1. PICK o \in 1..n : \E j \in 1..Len(seqs[o]) : f[k] = seqs[o][j]
    BY <1>7
  <2>2. PICK j \in 1..Len(seqs[o]) : f[k] = seqs[o][j]
    BY <2>1
  <2>3. /\ seqs[o][j].output = o /\ seqs[o][j].rows \subseteq S[o]
        /\ seqs[o][j].blocks \subseteq 1..Blocks /\ seqs[o][j].blocks # {}
    BY <1>2
  <2> QED
    BY <2>2, <2>3
<1>10. ASSUME NEW o \in 1..n, NEW r \in S[o], NEW b \in 1..Blocks
       PROVE  \E k \in 1..Len(f) : Takes(f[k], o, r, b)
  <2>1. PICK j \in 1..Len(seqs[o]) : r \in seqs[o][j].rows /\ b \in seqs[o][j].blocks
    BY <1>2
  <2>2. PICK k \in 1..Len(f) : f[k] = seqs[o][j]
    BY <1>8
  <2>3. seqs[o][j].output = o
    BY <1>2
  <2> QED
    BY <2>1, <2>2, <2>3 DEF Takes
<1>11. ASSUME NEW k \in 1..Len(f), NEW l \in 1..Len(f), NEW o, NEW r, NEW b,
              Takes(f[k], o, r, b), Takes(f[l], o, r, b)
       PROVE  k = l
  <2>1. /\ f[k].output = o /\ r \in f[k].rows /\ b \in f[k].blocks
        /\ f[l].output = o /\ r \in f[l].rows /\ b \in f[l].blocks
    BY <1>11 DEF Takes
  <2>2. PICK p \in 1..n : \E i \in 1..Len(seqs[p]) : f[k] = seqs[p][i] /\ k = off[p] + i
    BY <1>7
  <2>3. PICK i \in 1..Len(seqs[p]) : f[k] = seqs[p][i] /\ k = off[p] + i
    BY <2>2
  <2>4. PICK q \in 1..n : \E j \in 1..Len(seqs[q]) : f[l] = seqs[q][j] /\ l = off[q] + j
    BY <1>7
  <2>5. PICK j \in 1..Len(seqs[q]) : f[l] = seqs[q][j] /\ l = off[q] + j
    BY <2>4
  <2>6. p = o /\ q = o
    BY <1>2, <2>1, <2>3, <2>5
  <2>7. r \in S[o] /\ b \in 1..Blocks
    BY <1>9, <2>1
  <2>8. o \in 1..n /\ i \in 1..Len(seqs[o]) /\ j \in 1..Len(seqs[o])
    BY <2>3, <2>5, <2>6
  <2>9. /\ r \in seqs[o][i].rows /\ b \in seqs[o][i].blocks
        /\ r \in seqs[o][j].rows /\ b \in seqs[o][j].blocks
    BY <2>1, <2>3, <2>5, <2>6
  <2>10. i = j
    BY <1>2, <2>7, <2>8, <2>9
  <2> QED
    BY <2>3, <2>5, <2>6, <2>10
<1>12. Exact(f, 1..n, S)
  BY <1>6, <1>9, <1>10, <1>11 DEF Exact
<1>13. ASSUME NEW o \in 1..n, NEW adds, NEW as, Kind(seqs[o], o, adds, as)
       PROVE  Kind(f, o, adds, as)
  <2>1. ASSUME NEW k \in 1..Len(f), f[k].output = o
        PROVE  f[k].adds = adds /\ f[k].as = as /\ (adds \/ f[k].blocks = 1..Blocks)
    <3>1. PICK p \in 1..n : \E i \in 1..Len(seqs[p]) : f[k] = seqs[p][i]
      BY <1>7
    <3>2. PICK i \in 1..Len(seqs[p]) : f[k] = seqs[p][i]
      BY <3>1
    <3>3. p = o
      BY <1>2, <2>1, <3>2
    <3> DEFINE h == seqs[o]
    <3>4. Kind(h, o, adds, as) /\ i \in 1..Len(h) /\ f[k] = h[i] /\ h[i].output = o
      BY <1>13, <2>1, <3>2, <3>3
    <3> HIDE DEF h
    <3>5. h[i].adds = adds /\ h[i].as = as /\ (adds \/ h[i].blocks = 1..Blocks)
      BY <3>4, Zenon DEF Kind
    <3> QED
      BY <3>4, <3>5, Zenon
  <2> QED
    BY <2>1, Zenon DEF Kind
<1> QED
  BY <1>12, <1>13 DEF f

\* The kernels of one matrix.
LEMMA KernelsExact ==
  ASSUME NEW o, NEW rs \in Nat, NEW rc \in Nat, NEW as
  PROVE  /\ ExactRows(Linear!RowWrites(o, rs, rc, as), o, rs..(rs + rc - 1))
         /\ Kind(Linear!RowWrites(o, rs, rc, as), o, FALSE, as)
         /\ Listed(Linear!RowWrites(o, rs, rc, as))
         /\ ExactRows(Linear!fused_gemv_q6k(o, rs, rc), o, rs..(rs + rc - 1))
         /\ Kind(Linear!fused_gemv_q6k(o, rs, rc), o, FALSE, "Q6_K")
         /\ Listed(Linear!fused_gemv_q6k(o, rs, rc))
         /\ ExactRows(Linear!fused_gemv_q4k(o, rs, rc), o, rs..(rs + rc - 1))
         /\ Kind(Linear!fused_gemv_q4k(o, rs, rc), o, (slot1.cpu = "vnni"), "Q4_K")
         /\ Listed(Linear!fused_gemv_q4k(o, rs, rc))
<1>1. ASSUME NEW x
      PROVE  Listed(Linear!RowWrites(o, rs, rc, x))
  <2> DEFINE f == Linear!RowWrites(o, rs, rc, x)
  <2>1. f \in [1..rc -> {f[k] : k \in 1..rc}] /\ f = [k \in 1..rc |-> f[k]]
    BY DEF Linear!RowWrites
  <2> HIDE DEF f
  <2>2. Len(f) = rc
    BY <2>1, LengthIs
  <2>3. Listed(f)
    BY <2>1, <2>2 DEF Listed
  <2> QED
    BY <2>3 DEF f
<1>2. Listed(Linear!fused_gemv_q4k_vnni(o, rs, rc))
  <2> DEFINE f == Linear!fused_gemv_q4k_vnni(o, rs, rc)
             m == Blocks * Linear!Groups(rc)
  <2>1. f = [k \in 1..m |-> f[k]]
    BY DEF Linear!fused_gemv_q4k_vnni
  <2>2. Len(f) = m
    BY VnniExact
  <2> HIDE DEF f, m
  <2>3. Listed(f)
    BY <2>1, <2>2 DEF Listed
  <2> QED
    BY <2>3 DEF f
<1> DEFINE R == rs..(rs + rc - 1)
           w(x) == Linear!RowWrites(o, rs, rc, x)
           v == Linear!fused_gemv_q4k_vnni(o, rs, rc)
           f4 == Linear!fused_gemv_q4k(o, rs, rc)
           f6 == Linear!fused_gemv_q6k(o, rs, rc)
<1>3. \A x : ExactRows(w(x), o, R) /\ Kind(w(x), o, FALSE, x) /\ Listed(w(x))
  BY <1>1, RowWritesExact
<1>4. ExactRows(v, o, R) /\ Kind(v, o, TRUE, "Q4_K") /\ Listed(v)
  BY <1>2, VnniExact
<1>5. f6 = w("Q6_K") /\ f4 = IF slot1.cpu = "vnni" THEN v ELSE w("Q4_K")
  BY DEF Linear!fused_gemv_q6k, Linear!fused_gemv_q4k
<1> HIDE DEF R, w, v, f4, f6
<1>6. CASE slot1.cpu = "vnni"
  <2>1. (slot1.cpu = "vnni") = TRUE
    BY <1>6, Zenon
  <2>2. f4 = v
    BY <1>5, <1>6
  <2>3. ExactRows(f4, o, R) /\ Kind(f4, o, (slot1.cpu = "vnni"), "Q4_K") /\ Listed(f4)
    BY <1>4, <2>1, <2>2, Zenon
  <2>4. ExactRows(f6, o, R) /\ Kind(f6, o, FALSE, "Q6_K") /\ Listed(f6)
    BY <1>3, <1>5, Zenon
  <2>5. ExactRows(w(as), o, R) /\ Kind(w(as), o, FALSE, as) /\ Listed(w(as))
    BY <1>3, Zenon
  <2> QED
    BY <2>3, <2>4, <2>5, Zenon DEF R, w, f4, f6
<1>7. CASE slot1.cpu # "vnni"
  <2>1. (slot1.cpu = "vnni") = FALSE
    BY <1>7, Zenon
  <2>2. f4 = w("Q4_K")
    BY <1>5, <1>7
  <2>3. ExactRows(f4, o, R) /\ Kind(f4, o, (slot1.cpu = "vnni"), "Q4_K") /\ Listed(f4)
    BY <1>3, <2>1, <2>2, Zenon
  <2>4. ExactRows(f6, o, R) /\ Kind(f6, o, FALSE, "Q6_K") /\ Listed(f6)
    BY <1>3, <1>5, Zenon
  <2>5. ExactRows(w(as), o, R) /\ Kind(w(as), o, FALSE, as) /\ Listed(w(as))
    BY <1>3, Zenon
  <2> QED
    BY <2>3, <2>4, <2>5, Zenon DEF R, w, f4, f6
<1> QED
  BY <1>6, <1>7, Zenon

\* The outputs the threads write now.
Active ==
    IF slot1.fn \in {"forward_linear", "forward_linear_multi"} THEN {slot2} ELSE 1..Count

\* A batch of anything but Q4_K is divided by its vectors.
ByVector == slot1.fn = "forward_linear_batch" /\ slot1.dtype[1] # "Q4_K"

\* The rows that are divided, for output o.
Span(o) == IF slot1.fn = "forward_gemvs" THEN Linear!LongestRows ELSE slot1.rows[o]

\* The rows of output o that are thread t's.
Share(t, o) ==
    IF ByVector
    THEN {r \in 0..(slot1.rows[o] - 1) : o - 1 \in Part(t, Count, slot1.threads)}
    ELSE Part(t, Span(o), slot1.threads) \cap 0..(slot1.rows[o] - 1)

\* The kernel of output o adds to what is there.
Adds(o) ==
    /\ slot1.dtype[o] = "Q4_K"
    /\ slot1.fn = "forward_linear_batch" \/ slot1.cpu = "vnni"

\* Each row of each output is one thread's.
LEMMA SharesPartition ==
  ASSUME Called, slot2 \in 1..Count, NEW o \in Active
  PROVE  /\ o \in 1..Count
         /\ \A t \in Linear!Threads : Share(t, o) \subseteq 0..(slot1.rows[o] - 1)
         /\ \A r \in 0..(slot1.rows[o] - 1) :
               /\ \E t \in Linear!Threads : r \in Share(t, o)
               /\ \A t, u \in Linear!Threads :
                     r \in Share(t, o) /\ r \in Share(u, o) => t = u
<1> DEFINE n == slot1.threads
           nr == slot1.rows[o]
<1>1. n \in Nat \ {0} /\ Count \in Nat \ {0} /\ o \in 1..Count /\ nr \in Nat
  BY DEF Called, Active
<1>2. Linear!Threads = 0..(n - 1)
  BY DEF Linear!Threads
<1>3. Span(o) \in Nat /\ nr <= Span(o)
  BY <1>1, LongestIs DEF Span
<1> DEFINE s == Span(o)
<1> HIDE DEF s
<1>4. \A r \in 0..(nr - 1) : r \in 0..(s - 1)
  BY <1>1, <1>3 DEF s
<1>5. ASSUME NEW t \in 0..(n - 1)
      PROVE  Share(t, o) \subseteq 0..(nr - 1)
  BY DEF Share
<1>6. CASE ByVector
  <2>1. o - 1 \in 0..(Count - 1)
    BY <1>1
  <2> DEFINE v == o - 1
  <2>2. \A t : Share(t, o) = {r \in 0..(nr - 1) : v \in Part(t, Count, n)}
    BY <1>6 DEF Share
  <2>3. v \in 0..(Count - 1)
    BY <2>1
  <2> HIDE DEF v, n, nr
  <2>4. /\ \E t \in 0..(n - 1) : v \in Part(t, Count, n)
        /\ \A t, u \in 0..(n - 1) :
              v \in Part(t, Count, n) /\ v \in Part(u, Count, n) => t = u
    BY <1>1, <2>3, PartsPartition
  <2>5. \A r \in 0..(nr - 1) :
           /\ \E t \in 0..(n - 1) : r \in Share(t, o)
           /\ \A t, u \in 0..(n - 1) : r \in Share(t, o) /\ r \in Share(u, o) => t = u
    BY <2>2, <2>4
  <2> QED
    BY <1>1, <1>2, <1>5, <2>5 DEF n, nr
<1>7. CASE ~ByVector
  <2>1. \A t : Share(t, o) = Part(t, s, n) \cap 0..(nr - 1)
    BY <1>7 DEF Share, s
  <2>2. s \in Nat
    BY <1>3 DEF s
  <2> HIDE DEF n, nr
  <2>3. ASSUME NEW r \in 0..(nr - 1)
        PROVE  /\ \E t \in 0..(n - 1) : r \in Share(t, o)
               /\ \A t, u \in 0..(n - 1) : r \in Share(t, o) /\ r \in Share(u, o) => t = u
    <3>1. r \in 0..(s - 1)
      BY <1>4
    <3>2. /\ \E t \in 0..(n - 1) : r \in Part(t, s, n)
          /\ \A t, u \in 0..(n - 1) : r \in Part(t, s, n) /\ r \in Part(u, s, n) => t = u
      BY <1>1, <2>2, <3>1, PartsPartition
    <3> QED
      BY <2>1, <3>2
  <2> QED
    BY <1>1, <1>2, <1>5, <2>3 DEF n, nr
<1> QED
  BY <1>6, <1>7

\* The cardinality of the instance is the cardinality.
LEMMA SameCardinality == \A S : Linear!Cardinality(S) = Cardinality(S)
  BY DEF Linear!Cardinality, Cardinality

\* The writes f are thread t's share of the call.
ShareOf(f, t) ==
    /\ Exact(f, Active, [o \in Active |-> Share(t, o)])
    /\ \A o \in Active : Kind(f, o, Adds(o), Linear!ReadAs(o))

\* One matrix: its part of the rows.
LEMMA MatrixShare ==
  ASSUME Called, slot2 \in 1..Count, NEW t \in Linear!Threads,
         slot1.fn \in {"forward_linear", "forward_linear_multi"}
  PROVE  ShareOf(Linear!MatrixWork(t), t)
<1> DEFINE n == slot1.threads
           nr == slot1.rows[slot2]
           rs == Linear!PartStart(t, nr, n)
           rc == Cardinality(Part(t, nr, n))
           f == Linear!MatrixWork(t)
           as == Linear!ReadAs(slot2)
           dtype == slot1.dtype[slot2]
           R == Share(t, slot2)
<1>1. n \in Nat \ {0} /\ nr \in Nat /\ t \in 0..(n - 1)
  BY DEF Called, Linear!Threads
<1>2. /\ Linear!Part(t, nr, n) = Part(t, nr, n) /\ rs \in Nat /\ rc \in Nat
      /\ Part(t, nr, n) \subseteq 0..(nr - 1) /\ Part(t, nr, n) = rs..(rs + rc - 1)
  BY <1>1, PartRange
<1>3. R = rs..(rs + rc - 1)
  BY <1>2 DEF Share, ByVector, Span
<1>4. f = CASE dtype = "Q4_K" -> Linear!fused_gemv_q4k(slot2, rs, rc)
            [] dtype = "Q6_K" -> Linear!fused_gemv_q6k(slot2, rs, rc)
            [] OTHER -> Linear!RowWrites(slot2, rs, rc, dtype)
  <2>1. Linear!Cardinality(Linear!Part(t, nr, n)) = rc
    BY <1>2, SameCardinality
  <2> QED
    BY <2>1 DEF Linear!MatrixWork
<1>5. /\ Active = {slot2} /\ as = dtype
      /\ Adds(slot2) = (dtype = "Q4_K" /\ slot1.cpu = "vnni")
  BY Zenon DEF Active, Adds, Linear!ReadAs
<1> HIDE DEF f, rs, rc, as, R
<1>6. ExactRows(f, slot2, R) /\ Kind(f, slot2, Adds(slot2), as)
  <2>1. /\ \A x : /\ ExactRows(Linear!RowWrites(slot2, rs, rc, x), slot2, R)
                  /\ Kind(Linear!RowWrites(slot2, rs, rc, x), slot2, FALSE, x)
        /\ ExactRows(Linear!fused_gemv_q6k(slot2, rs, rc), slot2, R)
        /\ Kind(Linear!fused_gemv_q6k(slot2, rs, rc), slot2, FALSE, "Q6_K")
        /\ ExactRows(Linear!fused_gemv_q4k(slot2, rs, rc), slot2, R)
        /\ Kind(Linear!fused_gemv_q4k(slot2, rs, rc), slot2, (slot1.cpu = "vnni"), "Q4_K")
    BY <1>2, <1>3, KernelsExact
  <2>2. CASE dtype = "Q4_K"
    <3>1. Adds(slot2) = (slot1.cpu = "vnni") /\ as = "Q4_K"
      BY <1>5, <2>2, Zenon
    <3>2. f = Linear!fused_gemv_q4k(slot2, rs, rc)
      BY <1>4, <2>2
    <3> QED
      BY <2>1, <3>1, <3>2, Zenon
  <2>3. CASE dtype # "Q4_K"
    <3>1. Adds(slot2) = FALSE /\ as = dtype
      BY <1>5, <2>3, Zenon
    <3>2. CASE dtype = "Q6_K"
      <4>1. f = Linear!fused_gemv_q6k(slot2, rs, rc) /\ as = "Q6_K"
        BY <1>4, <1>5, <3>2
      <4> QED
        BY <2>1, <3>1, <4>1, Zenon
    <3>3. CASE dtype # "Q6_K"
      <4>1. f = Linear!RowWrites(slot2, rs, rc, as)
        BY <1>4, <1>5, <2>3, <3>3
      <4> QED
        BY <2>1, <3>1, <4>1, Zenon
    <3> QED
      BY <3>2, <3>3
  <2> QED
    BY <2>2, <2>3
<1>7. Exact(f, {slot2}, Only(slot2, R))
  BY <1>6, ExactOnly
<1>8. [o \in Active |-> Share(t, o)] = Only(slot2, R)
  BY <1>5 DEF Only, R
<1>9. Exact(f, Active, [o \in Active |-> Share(t, o)])
  BY <1>5, <1>7, <1>8, Zenon
<1>10. \A o \in Active : Kind(f, o, Adds(o), Linear!ReadAs(o))
  BY <1>5, <1>6, Zenon DEF as
<1> QED
  BY <1>9, <1>10 DEF ShareOf, f

\* A batch of Q4_K: its part of the rows, for all vectors.
LEMMA BatchShare ==
  ASSUME Called, NEW t \in Linear!Threads,
         slot1.fn = "forward_linear_batch", slot1.dtype[1] = "Q4_K"
  PROVE  ShareOf(Linear!BatchWork(t), t)
<1> DEFINE n == slot1.threads
           nr == slot1.rows[1]
           rs == Linear!PartStart(t, nr, n)
           rc == Cardinality(Part(t, nr, n))
           f == Linear!BatchWork(t)
           R == rs..(rs + rc - 1)
           S == [o \in 1..Count |-> R]
<1>1. /\ n \in Nat \ {0} /\ nr \in Nat /\ t \in 0..(n - 1) /\ Count \in Nat \ {0}
      /\ \A o \in 1..Count : slot1.rows[o] = nr /\ slot1.dtype[o] = "Q4_K"
  BY DEF Called, Linear!Threads
<1>2. /\ Linear!Part(t, nr, n) = Part(t, nr, n) /\ rs \in Nat /\ rc \in Nat
      /\ Part(t, nr, n) \subseteq 0..(nr - 1) /\ Part(t, nr, n) = R
  BY <1>1, PartRange
<1>3. \A o \in 1..Count : Share(t, o) = R
  BY <1>1, <1>2 DEF Share, ByVector, Span
<1>4. f = IF slot1.cpu = "vnni" THEN Linear!batched_vnni(rs, rc, Count)
          ELSE Linear!batched_rows(rs, rc, Count)
  <2>1. Linear!Cardinality(Linear!Part(t, nr, n)) = rc /\ Linear!Cardinality(Linear!Outs) = Count
    BY <1>2, SameCardinality DEF Count
  <2> QED
    BY <2>1 DEF Linear!BatchWork, Linear!fused_gemv_q4k_batched
<1>5. Active = 1..Count
  BY DEF Active
<1>6. \A o \in 1..Count : Adds(o) = TRUE
  BY <1>1, Zenon DEF Adds
<1>7. \A o \in 1..Count : Linear!ReadAs(o) = "Q4_K"
  BY <1>1 DEF Linear!ReadAs
<1> HIDE DEF f, rs, rc
<1>8. Exact(f, 1..Count, S) /\ \A o : Kind(f, o, TRUE, "Q4_K")
  <2>1. /\ Exact(Linear!batched_vnni(rs, rc, Count), 1..Count, S)
        /\ \A o : Kind(Linear!batched_vnni(rs, rc, Count), o, TRUE, "Q4_K")
    BY <1>1, <1>2, BatchedVnniExact
  <2>2. /\ Exact(Linear!batched_rows(rs, rc, Count), 1..Count, S)
        /\ \A o : Kind(Linear!batched_rows(rs, rc, Count), o, TRUE, "Q4_K")
    BY <1>1, <1>2, BatchedRowsExact
  <2> HIDE DEF S
  <2> QED
    BY <1>4, <2>1, <2>2, Zenon
<1>9. [o \in Active |-> Share(t, o)] = S
  BY <1>3, <1>5
<1>10. Exact(f, Active, [o \in Active |-> Share(t, o)])
  BY <1>5, <1>8, <1>9, Zenon
<1>11. \A o \in Active : Kind(f, o, Adds(o), Linear!ReadAs(o))
  BY <1>5, <1>6, <1>7, <1>8, Zenon
<1> QED
  BY <1>10, <1>11 DEF ShareOf, f

\* Any other batch: all rows of its part of the vectors.
LEMMA FallbackShare ==
  ASSUME Called, NEW t \in Linear!Threads,
         slot1.fn = "forward_linear_batch", slot1.dtype[1] # "Q4_K"
  PROVE  ShareOf(Linear!BatchWork(t), t)
<1> DEFINE n == slot1.threads
           nr == slot1.rows[1]
           s == Linear!PartStart(t, Count, n)
           c == Cardinality(Part(t, Count, n))
           f == Linear!BatchWork(t)
           R == 0..(nr - 1)
           as == IF slot1.dtype[1] = "Q6_K" THEN "Q6_K" ELSE "Q4_K"
           S == [o \in 1..Count |-> IF o \in (s + 1)..(s + c) THEN R ELSE {}]
<1>1. /\ n \in Nat \ {0} /\ nr \in Nat /\ t \in 0..(n - 1) /\ Count \in Nat \ {0}
      /\ \A o \in 1..Count : slot1.rows[o] = nr /\ slot1.dtype[o] = slot1.dtype[1]
  BY DEF Called, Linear!Threads
<1>2. /\ Linear!Part(t, Count, n) = Part(t, Count, n) /\ s \in Nat /\ c \in Nat
      /\ Part(t, Count, n) \subseteq 0..(Count - 1) /\ Part(t, Count, n) = s..(s + c - 1)
  <2> DEFINE m == Count
  <2>1. m \in Nat
    BY <1>1
  <2> HIDE DEF m, n
  <2>2. /\ Linear!Part(t, m, n) = Part(t, m, n) /\ Linear!PartStart(t, m, n) \in Nat
        /\ Cardinality(Part(t, m, n)) \in Nat /\ Part(t, m, n) \subseteq 0..(m - 1)
        /\ Part(t, m, n) = Linear!PartStart(t, m, n)..
              (Linear!PartStart(t, m, n) + Cardinality(Part(t, m, n)) - 1)
    BY <1>1, <2>1, PartRange
  <2> QED
    BY <2>2 DEF m
<1>3. f = Copies(s, c, R, as)
  <2>1. f = Linear!fallback_gemv(t)
    BY DEF Linear!BatchWork
  <2> DEFINE bs == Linear!Cardinality(Linear!Outs)
  <2>4. bs = Count
    BY SameCardinality DEF Count
  <2>2. Linear!fallback_gemv(t)
          = [k \in 1..Linear!Cardinality(Linear!Part(t, Count, n)) |->
               Linear!Write(s + k, R, 1..Blocks, FALSE, as)]
    <3>1. Linear!fallback_gemv(t)
          = [k \in 1..Linear!Cardinality(Linear!Part(t, bs, n)) |->
               Linear!Write(Linear!PartStart(t, bs, n) + k, R, 1..Blocks, FALSE, as)]
      BY DEF Linear!fallback_gemv
    <3> HIDE DEF bs
    <3> QED
      BY <2>4, <3>1
  <2>3. Linear!Cardinality(Linear!Part(t, Count, n)) = c
    BY <1>2, SameCardinality
  <2> HIDE DEF f, c, s, R, as
  <2> QED
    BY <2>1, <2>2, <2>3 DEF Copies
<1>4. Active = 1..Count
  BY DEF Active
<1>5. \A o \in 1..Count : Adds(o) = FALSE
  BY <1>1, Zenon DEF Adds
<1>6. \A o \in 1..Count : Linear!ReadAs(o) = as
  BY <1>1 DEF Linear!ReadAs
<1>7. \A k \in 1..c : s + k \in 1..Count
  <2>1. s \in Nat /\ c \in Nat /\ s..(s + c - 1) \subseteq 0..(Count - 1)
    BY <1>2
  <2> HIDE DEF s, c
  <2>2. \A k \in 1..c : s + k - 1 \in s..(s + c - 1)
    BY <2>1
  <2>3. \A k \in 1..c : s + k - 1 \in 0..(Count - 1)
    BY <2>1, <2>2
  <2> QED
    BY <1>1, <2>1, <2>3
<1>8. \A o \in 1..Count : Share(t, o) = IF o \in (s + 1)..(s + c) THEN R ELSE {}
  <2>1. ASSUME NEW o \in 1..Count
        PROVE  o - 1 \in Part(t, Count, n) <=> o \in (s + 1)..(s + c)
    BY <1>1, <1>2
  <2>2. \A o \in 1..Count : Share(t, o) = {r \in R : o - 1 \in Part(t, Count, n)}
    BY <1>1 DEF Share, ByVector
  <2> HIDE DEF R, s, c, n
  <2> QED
    BY <2>1, <2>2
<1> HIDE DEF f, s, c, R, as
<1>9. Exact(f, 1..Count, S) /\ \A o : Kind(f, o, FALSE, as)
  BY <1>2, <1>3, <1>7, CopiesExact
<1>10. [o \in Active |-> Share(t, o)] = S
  BY <1>4, <1>8
<1>11. Exact(f, Active, [o \in Active |-> Share(t, o)])
  BY <1>4, <1>9, <1>10, Zenon
<1>12. \A o \in Active : Kind(f, o, Adds(o), Linear!ReadAs(o))
  BY <1>4, <1>5, <1>6, <1>9, Zenon
<1> QED
  BY <1>11, <1>12 DEF ShareOf, f

\* Several matrices: of each the part of the longest one's rows it has.
LEMMA GemvsShare ==
  ASSUME Called, NEW t \in Linear!Threads, slot1.fn = "forward_gemvs"
  PROVE  ShareOf(Linear!GemvsWork(t), t)
<1> DEFINE n == slot1.threads
           nr == Linear!LongestRows
           rs == Linear!PartStart(t, nr, n)
           rc(o) == Cardinality(Part(t, nr, n) \cap 0..(slot1.rows[o] - 1))
           f == Linear!GemvsWork(t)
           S == [o \in 1..Count |-> Share(t, o)]
           as(o) == IF slot1.dtype[o] = "Q4_K" THEN "Q4_K" ELSE "Q6_K"
           seqs == [o \in 1..Count |->
                      IF slot1.dtype[o] = "Q4_K" THEN Linear!fused_gemv_q4k(o, rs, rc(o))
                      ELSE Linear!fused_gemv_q6k(o, rs, rc(o))]
<1>1. /\ n \in Nat \ {0} /\ nr \in Nat /\ t \in 0..(n - 1) /\ Count \in Nat \ {0}
      /\ \A o \in 1..Count : slot1.rows[o] \in Nat
      /\ Linear!Outs = 1..Count
  BY LongestIs DEF Called, Linear!Threads
<1>2. /\ Linear!Part(t, nr, n) = Part(t, nr, n) /\ rs \in Nat
      /\ \A o \in 1..Count : /\ rc(o) \in Nat
            /\ Part(t, nr, n) \cap 0..(slot1.rows[o] - 1) = rs..(rs + rc(o) - 1)
  <2>1. /\ Linear!Part(t, nr, n) = Part(t, nr, n) /\ rs \in Nat
        /\ \A k \in Nat :
              /\ Cardinality(Part(t, nr, n) \cap 0..(k - 1)) \in Nat
              /\ Part(t, nr, n) \cap 0..(k - 1) =
                   rs..(rs + Cardinality(Part(t, nr, n) \cap 0..(k - 1)) - 1)
    <3> HIDE DEF nr, n
    <3> QED
      BY <1>1, PartRange
  <2> HIDE DEF rs, nr, n
  <2> QED
    BY <1>1, <2>1
<1>3. \A o \in 1..Count : Share(t, o) = rs..(rs + rc(o) - 1)
  BY <1>2 DEF Share, ByVector, Span
<1>4. f = Linear!FlattenSeq(seqs)
  <2> DEFINE rc2(o) == Linear!Cardinality(Linear!Part(t, nr, n) \cap 0..(slot1.rows[o] - 1))
             seqs2 == [o \in Linear!Outs |->
                         IF slot1.dtype[o] = "Q4_K" THEN Linear!fused_gemv_q4k(o, rs, rc2(o))
                         ELSE Linear!fused_gemv_q6k(o, rs, rc2(o))]
  <2>1. f = Linear!FlattenSeq(seqs2)
    BY DEF Linear!GemvsWork
  <2>2. \A o \in 1..Count : rc2(o) = rc(o)
    BY <1>2, SameCardinality
  <2>3. seqs2 = seqs
    <3> HIDE DEF rc, rc2, rs
    <3> QED
      BY <1>1, <2>2
  <2> QED
    BY <2>1, <2>3
<1>5. Active = 1..Count
  BY DEF Active
<1>6. \A o \in 1..Count : /\ slot1.dtype[o] = "Q4_K" => Adds(o) = (slot1.cpu = "vnni")
                          /\ slot1.dtype[o] # "Q4_K" => Adds(o) = FALSE
  BY Zenon DEF Adds
<1>7. \A o \in 1..Count : Linear!ReadAs(o) = as(o)
  BY DEF Linear!ReadAs
<1>8. Len(seqs) = Count
  <2>1. seqs \in [1..Count -> {seqs[o] : o \in 1..Count}]
    OBVIOUS
  <2> HIDE DEF seqs
  <2> QED
    BY <1>1, <2>1, LengthIs
<1>9. \A o \in 1..Count :
         seqs[o] = IF slot1.dtype[o] = "Q4_K" THEN Linear!fused_gemv_q4k(o, rs, rc(o))
                   ELSE Linear!fused_gemv_q6k(o, rs, rc(o))
  OBVIOUS
<1>10. \A o \in 1..Count : S[o] = rs..(rs + rc(o) - 1)
  BY <1>3
<1> HIDE DEF f, rs, rc, S, seqs
<1>11. ASSUME NEW o \in 1..Count
       PROVE  /\ ExactRows(seqs[o], o, S[o]) /\ Listed(seqs[o])
              /\ Kind(seqs[o], o, Adds(o), as(o))
  <2> DEFINE R == S[o]
             c == rc(o)
  <2>1. R = rs..(rs + c - 1) /\ c \in Nat
    BY <1>2, <1>10
  <2> HIDE DEF R, c
  <2>2. /\ ExactRows(Linear!fused_gemv_q6k(o, rs, c), o, R)
        /\ Kind(Linear!fused_gemv_q6k(o, rs, c), o, FALSE, "Q6_K")
        /\ Listed(Linear!fused_gemv_q6k(o, rs, c))
        /\ ExactRows(Linear!fused_gemv_q4k(o, rs, c), o, R)
        /\ Kind(Linear!fused_gemv_q4k(o, rs, c), o, (slot1.cpu = "vnni"), "Q4_K")
        /\ Listed(Linear!fused_gemv_q4k(o, rs, c))
    BY <1>2, <2>1, KernelsExact
  <2>3. CASE slot1.dtype[o] = "Q4_K"
    <3>1. seqs[o] = Linear!fused_gemv_q4k(o, rs, c) /\ as(o) = "Q4_K"
      BY <1>9, <2>3 DEF c
    <3>2. Adds(o) = (slot1.cpu = "vnni")
      BY <1>6, <2>3
    <3> HIDE DEF as
    <3> QED
      BY <2>2, <3>1, <3>2, Zenon DEF R
  <2>4. CASE slot1.dtype[o] # "Q4_K"
    <3>1. seqs[o] = Linear!fused_gemv_q6k(o, rs, c) /\ as(o) = "Q6_K"
      BY <1>9, <2>4 DEF c
    <3>2. Adds(o) = FALSE
      BY <1>6, <2>4
    <3> HIDE DEF as
    <3> QED
      BY <2>2, <3>1, <3>2, Zenon DEF R
  <2> QED
    BY <2>3, <2>4
<1>12. EachExact(seqs, S, Count)
  BY <1>1, <1>8, <1>11 DEF EachExact
<1>13. /\ Exact(f, 1..Count, S)
       /\ \A o \in 1..Count : \A adds, x : Kind(seqs[o], o, adds, x) => Kind(f, o, adds, x)
  BY <1>4, <1>12, FlattenExact
<1>14. Exact(f, Active, [o \in Active |-> Share(t, o)])
  <2>1. [o \in Active |-> Share(t, o)] = S
    BY <1>5 DEF S
  <2> QED
    BY <1>5, <1>13, <2>1, Zenon
<1> HIDE DEF as
<1>15. \A o \in Active : Kind(f, o, Adds(o), Linear!ReadAs(o))
  BY <1>5, <1>7, <1>11, <1>13, Zenon
<1> QED
  BY <1>14, <1>15 DEF ShareOf, f

\* Whichever the call, the writes of a thread are exactly its share.
LEMMA WorkIsShare ==
  ASSUME Called, slot2 \in 1..Count, NEW t \in Linear!Threads
  PROVE  ShareOf(Linear!Work(t), t)
<1>1. CASE slot1.fn \in {"forward_linear", "forward_linear_multi"}
  <2>1. Linear!Work(t) = Linear!MatrixWork(t)
    BY <1>1 DEF Linear!Work
  <2> QED
    BY <1>1, <2>1, MatrixShare
<1>2. CASE slot1.fn = "forward_linear_batch"
  <2>1. Linear!Work(t) = Linear!BatchWork(t)
    BY <1>2 DEF Linear!Work
  <2> QED
    BY <1>2, <2>1, BatchShare, FallbackShare
<1>3. CASE slot1.fn = "forward_gemvs"
  <2>1. Linear!Work(t) = Linear!GemvsWork(t)
    BY <1>3 DEF Linear!Work
  <2> QED
    BY <1>3, <2>1, GemvsShare
<1> QED
  BY <1>1, <1>2, <1>3 DEF Called

\* What a write is that a thread makes.
LEMMA WriteIs ==
  ASSUME Called, slot2 \in 1..Count, NEW t \in Linear!Threads
  PROVE  /\ Len(Linear!Work(t)) \in Nat
         /\ \A k \in 1..Len(Linear!Work(t)) :
               /\ Linear!Work(t)[k].output \in Active
               /\ Linear!Work(t)[k].rows \subseteq Share(t, Linear!Work(t)[k].output)
               /\ Linear!Work(t)[k].blocks \subseteq 1..Blocks
               /\ Linear!Work(t)[k].adds = Adds(Linear!Work(t)[k].output)
               /\ Linear!Work(t)[k].as = Linear!ReadAs(Linear!Work(t)[k].output)
               /\ Adds(Linear!Work(t)[k].output) \/ Linear!Work(t)[k].blocks = 1..Blocks
         /\ \A o \in Active : \A r \in 0..(slot1.rows[o] - 1), b \in 1..Blocks :
               r \in Share(t, o) =>
                  \E k \in 1..Len(Linear!Work(t)) : Takes(Linear!Work(t)[k], o, r, b)
         /\ \A k, l \in 1..Len(Linear!Work(t)) : \A o, r, b :
               Takes(Linear!Work(t)[k], o, r, b) /\ Takes(Linear!Work(t)[l], o, r, b) => k = l
<1> DEFINE f == Linear!Work(t)
           S == [o \in Active |-> Share(t, o)]
<1>1. Exact(f, Active, S) /\ \A o \in Active : Kind(f, o, Adds(o), Linear!ReadAs(o))
  BY WorkIsShare DEF ShareOf
<1>2. \A o \in Active : S[o] = Share(t, o)
  OBVIOUS
<1> HIDE DEF f, S
<1>3. /\ Len(f) \in Nat
      /\ \A k \in 1..Len(f) :
            /\ f[k].output \in Active /\ f[k].rows \subseteq S[f[k].output]
            /\ f[k].blocks \subseteq 1..Blocks /\ f[k].blocks # {}
      /\ \A o \in Active : \A r \in S[o], b \in 1..Blocks :
            \E k \in 1..Len(f) : Takes(f[k], o, r, b)
      /\ \A k, l \in 1..Len(f) : \A o, r, b :
            Takes(f[k], o, r, b) /\ Takes(f[l], o, r, b) => k = l
  BY <1>1, Zenon DEF Exact
<1>4. ASSUME NEW k \in 1..Len(f)
      PROVE  /\ f[k].output \in Active /\ f[k].rows \subseteq Share(t, f[k].output)
             /\ f[k].blocks \subseteq 1..Blocks
             /\ f[k].adds = Adds(f[k].output)
             /\ f[k].as = Linear!ReadAs(f[k].output)
             /\ Adds(f[k].output) \/ f[k].blocks = 1..Blocks
  <2> DEFINE o == f[k].output
  <2>1. o \in Active /\ f[k].rows \subseteq S[o] /\ f[k].blocks \subseteq 1..Blocks
    BY <1>3
  <2>2. Kind(f, o, Adds(o), Linear!ReadAs(o)) /\ f[k].output = o
    BY <1>1, <2>1
  <2> HIDE DEF o
  <2>3. /\ f[k].adds = Adds(o) /\ f[k].as = Linear!ReadAs(o)
        /\ Adds(o) \/ f[k].blocks = 1..Blocks
    BY <2>2, Zenon DEF Kind
  <2>4. f[k].rows \subseteq Share(t, o)
    BY <1>2, <2>1
  <2> QED
    BY <2>1, <2>3, <2>4, Zenon DEF o
<1>5. \A o \in Active : \A r \in 0..(slot1.rows[o] - 1), b \in 1..Blocks :
         r \in Share(t, o) => \E k \in 1..Len(f) : Takes(f[k], o, r, b)
  BY <1>2, <1>3
<1>6. \A k, l \in 1..Len(f) : \A o, r, b :
         Takes(f[k], o, r, b) /\ Takes(f[l], o, r, b) => k = l
  BY <1>3
<1> QED
  BY <1>3, <1>4, <1>5, <1>6, Zenon DEF f

-----------------------------------------------------------------------------
(* The threads interleave: the inductive invariant of LinearLayers.        *)

\* Block b has been put into row r of output o.
Taken(o, r, b) ==
    \E t \in Linear!Threads : \E k \in 1..slot3[t] : Takes(Linear!Work(t)[k], o, r, b)

\* How far the threads are.
Within ==
    /\ Called /\ slot2 \in 1..Count
    /\ \A t \in Linear!Threads : slot3[t] \in 0..Len(Linear!Work(t))

\* No write puts a block where it has been put.
LEMMA FirstTime ==
  ASSUME Within, NEW t \in Linear!Threads, slot3[t] < Len(Linear!Work(t)),
         NEW o, NEW r, NEW b, Takes(Linear!Work(t)[slot3[t] + 1], o, r, b)
  PROVE  ~Taken(o, r, b)
<1> SUFFICES ASSUME NEW u \in Linear!Threads, NEW k \in 1..slot3[u],
                    Takes(Linear!Work(u)[k], o, r, b)
             PROVE  FALSE
  BY DEF Taken
<1>1. Called /\ slot2 \in 1..Count /\ \A v \in Linear!Threads : slot3[v] \in 0..Len(Linear!Work(v))
  BY DEF Within
<1>2. Len(Linear!Work(t)) \in Nat /\ Len(Linear!Work(u)) \in Nat
  BY <1>1, WriteIs
<1> DEFINE j == slot3[t] + 1
<1>3. j \in 1..Len(Linear!Work(t)) /\ k \in 1..Len(Linear!Work(u)) /\ slot3[t] \in Nat
  BY <1>1, <1>2
<1>4. Takes(Linear!Work(t)[j], o, r, b) /\ j = slot3[t] + 1
  OBVIOUS
<1> HIDE DEF j
<1>5. o \in Active /\ r \in Share(t, o)
  <2>1. /\ Linear!Work(t)[j].output \in Active
        /\ Linear!Work(t)[j].rows \subseteq Share(t, Linear!Work(t)[j].output)
    BY <1>1, <1>3, WriteIs
  <2> QED
    BY <1>4, <2>1 DEF Takes
<1>6. r \in Share(u, o)
  <2>1. Linear!Work(u)[k].rows \subseteq Share(u, Linear!Work(u)[k].output)
    BY <1>1, <1>3, WriteIs
  <2> QED
    BY <2>1 DEF Takes
<1>7. t = u
  <2>1. r \in 0..(slot1.rows[o] - 1)
    BY <1>1, <1>5, SharesPartition
  <2> QED
    BY <1>1, <1>5, <1>6, <2>1, SharesPartition
<1>8. j = k
  <2>1. \A a, c \in 1..Len(Linear!Work(t)) : \A x, y, z :
          Takes(Linear!Work(t)[a], x, y, z) /\ Takes(Linear!Work(t)[c], x, y, z) => a = c
    BY <1>1, WriteIs
  <2> QED
    BY <1>3, <1>4, <1>7, <2>1
<1>9. k \in 1..slot3[t]
  BY <1>7
<1> QED
  BY <1>3, <1>4, <1>8, <1>9

\* When all threads are through, every block is in every row.
LEMMA AllTaken ==
  ASSUME Within, \A t \in Linear!Threads : slot3[t] = Len(Linear!Work(t)),
         NEW o \in Active, NEW r \in 0..(slot1.rows[o] - 1), NEW b \in 1..Blocks
  PROVE  Taken(o, r, b)
<1>1. Called /\ slot2 \in 1..Count
  BY DEF Within
<1>2. PICK t \in Linear!Threads : r \in Share(t, o)
  BY <1>1, SharesPartition
<1>3. PICK k \in 1..Len(Linear!Work(t)) : Takes(Linear!Work(t)[k], o, r, b)
  BY <1>1, <1>2, WriteIs
<1> QED
  BY <1>3 DEF Taken

\* Cells are of their type, one for each row of each output.
CellType == [blocks : [1..Blocks -> Nat], stale : BOOLEAN,
             as : Dtypes \union {"none", "Q4_K", "Q6_K"}]
CellsTyped ==
    /\ slot4 = [o \in Linear!Outs |-> [r \in 0..(slot1.rows[o] - 1) |-> slot4[o][r]]]
    /\ \A o \in Linear!Outs : \A r \in 0..(slot1.rows[o] - 1) : slot4[o][r] \in CellType

\* A cell that is written: where kernels add, each block counts what has been
\* put; where they assign, the one write leaves the cell finished.
CellInv(o, r) ==
    IF Adds(o)
    THEN /\ \A b \in 1..Blocks : slot4[o][r].blocks[b] = IF Taken(o, r, b) THEN 1 ELSE 0
         /\ slot4[o][r].stale = (o \notin Linear!Filled)
         /\ \A b \in 1..Blocks : Taken(o, r, b) => slot4[o][r].as = Linear!ReadAs(o)
    ELSE \A b \in 1..Blocks : Taken(o, r, b) =>
            /\ \A c \in 1..Blocks : slot4[o][r].blocks[c] = 1
            /\ slot4[o][r].stale = FALSE
            /\ slot4[o][r].as = Linear!ReadAs(o)

\* A cell that is finished.
Good(o, r) ==
    /\ \A b \in 1..Blocks : slot4[o][r].blocks[b] = 1
    /\ slot4[o][r].stale = Linear!Accumulates
    /\ slot4[o][r].as = Linear!ReadAs(o)

\* The call and where it is.
PlaceInv ==
    /\ Called /\ Linear!Possible(slot1)
    /\ slot2 \in 1..Count
    /\ slot1.fn # "forward_linear_multi" => slot2 = 1
    /\ slot3 \in [Linear!Threads -> Nat]
    /\ slot5 = FALSE
    /\ slot6 \in {"prepare", "running", "done", "faulted", "panicked"}
    /\ slot6 = "faulted" => \E t \in Linear!Threads :
          t * Linear!PerThread(slot1.rows[slot2], slot1.threads) > slot1.rows[slot2]
    /\ slot6 = "panicked" =>
          slot1.fn = "forward_linear_batch" /\ slot1.dtype[1] = "F32"

\* The inductive invariant of LinearLayers.
LinearInv ==
    /\ PlaceInv
    /\ CellsTyped
    /\ slot6 = "prepare" /\ slot1.fn = "forward_linear" =>
          \A r \in 0..(slot1.rows[1] - 1) : slot4[1][r] = Linear!Before
    /\ slot6 = "running" =>
          /\ Within
          /\ \A o \in Active : \A r \in 0..(slot1.rows[o] - 1) : CellInv(o, r)
    /\ \A o \in 1..Count : \A r \in 0..(slot1.rows[o] - 1) :
          slot6 = "done" \/ (slot1.fn = "forward_linear_multi" /\ o < slot2) => Good(o, r)

\* A call starts in the invariant.
LEMMA LinearInit == Init => (subject = "linear" => LinearInv)
<1> SUFFICES ASSUME Linear!Init PROVE LinearInv
  BY DEF Init
<1>1. slot1 \in Linear!Calls /\ Linear!Possible(slot1)
  BY DEF Linear!Init
<1>2. Called
  BY <1>1, CallsAre
<1>3. /\ slot2 = 1 /\ slot3 = [t \in Linear!Threads |-> 0] /\ slot5 = FALSE
      /\ slot6 = "prepare"
      /\ slot4 = [o \in Linear!Outs |-> [r \in 0..(slot1.rows[o] - 1) |-> Linear!Before]]
  BY DEF Linear!Init
<1>4. Linear!Outs = 1..Count /\ Count \in Nat \ {0}
  BY <1>2 DEF Called
<1>5. PlaceInv
  BY <1>1, <1>2, <1>3, <1>4 DEF PlaceInv
<1>6. Linear!Before \in CellType
  <2> DEFINE e == [b \in 1..Blocks |-> 0]
  <2>1. e \in [1..Blocks -> Nat]
    OBVIOUS
  <2> HIDE DEF e
  <2>2. Linear!Before = [blocks |-> e, stale |-> TRUE, as |-> "none"]
    BY DEF Linear!Before, e
  <2> QED
    BY <2>1, <2>2 DEF CellType
<1>7. \A o \in 1..Count : \A r \in 0..(slot1.rows[o] - 1) : slot4[o][r] = Linear!Before
  BY <1>3, <1>4
<1>8. CellsTyped
  BY <1>3, <1>4, <1>6, <1>7 DEF CellsTyped
<1> QED
  BY <1>3, <1>4, <1>5, <1>7, <1>8 DEF LinearInv

\* What depends on the call alone.
LEMMA SameCall ==
  ASSUME slot1' = slot1
  PROVE  /\ Count' = Count /\ Linear!Outs' = Linear!Outs /\ Linear!Threads' = Linear!Threads
         /\ Called' = Called /\ Linear!Possible(slot1)' = Linear!Possible(slot1)
         /\ \A o : Linear!ReadAs(o)' = Linear!ReadAs(o)
         /\ \A o : Adds(o)' = Adds(o)
         /\ Linear!Accumulates' = Linear!Accumulates
<1>1. Count' = Count /\ Linear!Outs' = Linear!Outs /\ Linear!Threads' = Linear!Threads
  BY DEF Count, Linear!Outs, Linear!Threads
<1>2. \A o : Linear!ReadAs(o)' = Linear!ReadAs(o)
  BY DEF Linear!ReadAs
<1>3. /\ \A o : Adds(o)' = Adds(o)
      /\ Linear!Accumulates' = Linear!Accumulates
  BY DEF Adds, Linear!Accumulates
<1>4. Linear!Possible(slot1)' = Linear!Possible(slot1)
  BY DEF Linear!Possible
<1>5. Called' = Called
  BY <1>1 DEF Called
<1> QED
  BY <1>1, <1>2, <1>3, <1>4, <1>5

\* What depends on the call and the matrix.
LEMMA SameMatrix ==
  ASSUME slot1' = slot1, slot2' = slot2
  PROVE  Active' = Active /\ Linear!Filled' = Linear!Filled
  BY SameCall DEF Active, Linear!Filled, Linear!Outs

\* What has been put, after a step within one matrix.
LEMMA TakenNext ==
  ASSUME slot1' = slot1, slot2' = slot2, NEW o, NEW r, NEW b
  PROVE  Taken(o, r, b)' <=> \E t \in Linear!Threads : \E k \in 1..slot3'[t] :
                                Takes(Linear!Work(t)[k], o, r, b)
<1>1. \A t : Linear!Work(t)' = Linear!Work(t)
  BY SameWork
<1>2. Linear!Threads' = Linear!Threads
  BY SameCall
<1> QED
  BY <1>1, <1>2 DEF Taken, Takes

\* Filling the outputs with zero.
LEMMA PrepareKeeps ==
  ASSUME LinearInv, Linear!Prepare
  PROVE  LinearInv'
<1>1. /\ slot6 = "prepare" /\ slot6' = "running"
      /\ slot1' = slot1 /\ slot2' = slot2 /\ slot5' = slot5
      /\ slot3' = [t \in Linear!Threads |-> 0]
      /\ slot4' = [o \in Linear!Outs |-> [r \in DOMAIN slot4[o] |->
                     IF o \in Linear!Filled THEN Linear!Zeroed ELSE slot4[o][r]]]
  BY DEF Linear!Prepare
<1>2. PlaceInv /\ CellsTyped /\ Called /\ slot2 \in 1..Count /\ Linear!Outs = 1..Count
  BY DEF LinearInv, PlaceInv, Called
<1>3. \A o \in 1..Count : DOMAIN slot4[o] = 0..(slot1.rows[o] - 1)
  BY <1>2 DEF CellsTyped
<1>4. /\ slot4' = [o \in 1..Count |-> [r \in 0..(slot1.rows[o] - 1) |-> slot4'[o][r]]]
      /\ \A o \in 1..Count : \A r \in 0..(slot1.rows[o] - 1) :
            slot4'[o][r] = IF o \in Linear!Filled THEN Linear!Zeroed ELSE slot4[o][r]
  BY <1>1, <1>2, <1>3
<1>5. PlaceInv'
  BY <1>1, <1>2, SameCall DEF PlaceInv
<1>6. /\ Linear!Zeroed \in CellType /\ Linear!Zeroed.stale = FALSE
      /\ \A b \in 1..Blocks : Linear!Zeroed.blocks[b] = 0 /\ Linear!Before.blocks[b] = 0
      /\ Linear!Before.stale = TRUE
  <2> DEFINE e == [b \in 1..Blocks |-> 0]
  <2>1. e \in [1..Blocks -> Nat] /\ \A b \in 1..Blocks : e[b] = 0
    OBVIOUS
  <2> HIDE DEF e
  <2>2. Linear!Before = [blocks |-> e, stale |-> TRUE, as |-> "none"]
    BY DEF Linear!Before, e
  <2> DEFINE z == Linear!Before
  <2>3. z \in CellType /\ z.stale = TRUE /\ z.blocks = e
    BY <2>1, <2>2 DEF CellType
  <2>4. Linear!Zeroed = [z EXCEPT !.stale = FALSE]
    BY DEF Linear!Zeroed
  <2> HIDE DEF z
  <2>5. Linear!Zeroed \in CellType /\ Linear!Zeroed.stale = FALSE /\ Linear!Zeroed.blocks = e
    BY <2>3, <2>4 DEF CellType
  <2> QED
    BY <2>1, <2>3, <2>5 DEF z
<1>7. CellsTyped'
  <2>1. \A o \in 1..Count : \A r \in 0..(slot1.rows[o] - 1) : slot4'[o][r] \in CellType
    BY <1>2, <1>4, <1>6 DEF CellsTyped
  <2>2. CellType' = CellType /\ Linear!Outs' = 1..Count
    BY <1>1, <1>2, SameCall DEF CellType
  <2> QED
    BY <1>1, <1>4, <2>1, <2>2 DEF CellsTyped
<1>8. \A o, r, b : ~Taken(o, r, b)'
  <2>1. \A t \in Linear!Threads : slot3'[t] = 0
    BY <1>1
  <2>2. \A t \in Linear!Threads : 1..slot3'[t] = {}
    BY <2>1
  <2> QED
    BY <1>1, <2>2, TakenNext
<1>9. Within'
  <2>1. \A t \in Linear!Threads : Len(Linear!Work(t)) \in Nat /\ Linear!Work(t)' = Linear!Work(t)
    BY <1>1, <1>2, WriteIs, SameWork
  <2>2. \A t \in Linear!Threads : slot3'[t] \in 0..Len(Linear!Work(t))
    BY <1>1, <2>1
  <2> QED
    BY <1>1, <1>2, <2>1, <2>2, SameCall DEF Within
<1>10. ASSUME NEW o \in Active, NEW r \in 0..(slot1.rows[o] - 1)
       PROVE  CellInv(o, r)'
  <2>1. o \in 1..Count
    BY <1>2, SharesPartition
  <2>2. Adds(o)' = Adds(o) /\ Linear!Filled' = Linear!Filled
    BY <1>1, SameCall, SameMatrix
  <2>3. CASE ~Adds(o)
    BY <1>8, <2>2, <2>3 DEF CellInv
  <2>4. CASE Adds(o) /\ o \in Linear!Filled
    <3>1. slot4'[o][r] = Linear!Zeroed
      BY <1>4, <2>1, <2>4
    <3> QED
      BY <1>6, <1>8, <2>2, <2>4, <3>1 DEF CellInv
  <2>5. CASE Adds(o) /\ o \notin Linear!Filled
    <3>1. slot1.fn = "forward_linear"
      BY <1>2, <2>1, <2>5 DEF Linear!Filled, Active, Adds, Called
    <3>2. o = 1
      BY <1>2, <2>1, <3>1 DEF Called
    <3>3. slot4'[o][r] = Linear!Before
      BY <1>1, <1>4, <2>1, <2>5, <3>1, <3>2 DEF LinearInv
    <3> QED
      BY <1>6, <1>8, <2>2, <2>5, <3>3 DEF CellInv
  <2> QED
    BY <2>3, <2>4, <2>5
<1>11. ASSUME NEW o \in 1..Count, NEW r \in 0..(slot1.rows[o] - 1),
              slot1.fn = "forward_linear_multi", o < slot2
       PROVE  Good(o, r)'
  <2>1. Good(o, r)
    BY <1>11 DEF LinearInv
  <2>2. o \notin Linear!Filled
    BY <1>2, <1>11 DEF Linear!Filled
  <2>3. slot4'[o][r] = slot4[o][r]
    BY <1>4, <2>2
  <2> QED
    BY <1>1, <2>1, <2>3, SameCall DEF Good
<1>12. Active' = Active /\ Count' = Count
  BY <1>1, SameCall, SameMatrix
<1> QED
  BY <1>1, <1>5, <1>7, <1>9, <1>10, <1>11, <1>12 DEF LinearInv

\* The end of the parallel section: every cell it wrote is finished.
LEMMA JoinKeeps ==
  ASSUME LinearInv, Linear!Join
  PROVE  LinearInv'
<1>1. /\ slot6 = "running" /\ slot1' = slot1 /\ slot3' = slot3 /\ slot4' = slot4
      /\ slot5' = slot5 /\ \A t \in Linear!Threads : slot3[t] = Len(Linear!Work(t))
  BY DEF Linear!Join
<1>2. \/ /\ slot1.fn = "forward_linear_multi" /\ slot2 < Count
         /\ slot2' = slot2 + 1 /\ slot6' = "prepare"
      \/ /\ ~(slot1.fn = "forward_linear_multi" /\ slot2 < Count)
         /\ slot2' = slot2 /\ slot6' = "done"
  BY SameCardinality DEF Linear!Join, Count
<1>3. /\ PlaceInv /\ CellsTyped /\ Called /\ slot2 \in 1..Count /\ Linear!Outs = 1..Count
      /\ Within /\ Count \in Nat
  BY <1>1 DEF LinearInv, PlaceInv, Called
<1>4. PlaceInv'
  BY <1>1, <1>2, <1>3, SameCall DEF PlaceInv
<1>5. CellsTyped'
  <2>1. CellType' = CellType /\ Linear!Outs' = Linear!Outs
    BY <1>1, SameCall DEF CellType
  <2> QED
    BY <1>1, <1>3, <2>1 DEF CellsTyped
<1>6. ASSUME NEW o \in Active, NEW r \in 0..(slot1.rows[o] - 1)
      PROVE  Good(o, r)
  <2>1. CellInv(o, r)
    BY <1>1 DEF LinearInv
  <2>2. \A b \in 1..Blocks : Taken(o, r, b)
    BY <1>1, <1>3, AllTaken
  <2>3. 1 \in 1..Blocks
    BY LinearAssumption
  <2>4. CASE ~Adds(o)
    <3>1. Linear!Accumulates = FALSE
      BY <1>3, <2>4 DEF Linear!Accumulates, Adds, Active, PlaceInv
    <3> QED
      BY <2>1, <2>2, <2>3, <2>4, <3>1 DEF CellInv, Good
  <2>5. CASE Adds(o)
    <3>1. Linear!Accumulates = (o \notin Linear!Filled)
      BY <1>3, <2>5 DEF Linear!Accumulates, Linear!Filled, Adds, Active, PlaceInv, Called
    <3> QED
      BY <2>1, <2>2, <2>3, <2>5, <3>1 DEF CellInv, Good
  <2> QED
    BY <2>4, <2>5
<1>7. ASSUME NEW o \in 1..Count, NEW r \in 0..(slot1.rows[o] - 1),
             slot6' = "done" \/ (slot1.fn = "forward_linear_multi" /\ o < slot2')
      PROVE  Good(o, r)
  <2>1. o \in Active \/ (slot1.fn = "forward_linear_multi" /\ o < slot2)
    BY <1>2, <1>3, <1>7 DEF Active, PlaceInv, Called
  <2> QED
    BY <1>6, <2>1 DEF LinearInv
<1>8. \A o, r : Good(o, r)' = Good(o, r)
  BY <1>1, SameCall DEF Good
<1>9. Count' = Count
  BY <1>1, SameCall
<1> QED
  BY <1>1, <1>2, <1>4, <1>5, <1>7, <1>8, <1>9 DEF LinearInv

\* A thread that fails has an empty part, or meets the assertion.
LEMMA FailsKeep ==
  ASSUME LinearInv, NEW t \in Linear!Threads, Linear!ThreadFails(t)
  PROVE  LinearInv'
<1>1. /\ slot6 = "running" /\ slot1' = slot1 /\ slot2' = slot2 /\ slot3' = slot3
      /\ slot4' = slot4 /\ slot5' = slot5
      /\ (Linear!Faults(t) /\ slot6' = "faulted") \/ (Linear!AssertFails(t) /\ slot6' = "panicked")
  BY DEF Linear!ThreadFails
<1>2. /\ PlaceInv /\ CellsTyped /\ Called /\ slot2 \in 1..Count /\ Linear!Outs = 1..Count
      /\ Count \in Nat \ {0}
  BY DEF LinearInv, PlaceInv, Called
<1>3. slot6' = "faulted" => \E u \in Linear!Threads :
        u * Linear!PerThread(slot1.rows[slot2], slot1.threads) > slot1.rows[slot2]
  <2> SUFFICES ASSUME slot6' = "faulted" PROVE
        t * Linear!PerThread(slot1.rows[slot2], slot1.threads) > slot1.rows[slot2]
    OBVIOUS
  <2> DEFINE nr == slot1.rows[slot2]
             n == slot1.threads
             p == PerThread(nr, n)
  <2>1. Linear!Underflows(t, nr, n)
    BY <1>1 DEF Linear!Faults
  <2>2. nr \in Nat /\ n \in Nat \ {0} /\ t \in Nat
    BY <1>2 DEF Called, Linear!Threads
  <2>3. Linear!PerThread(nr, n) = p
    BY DEF Linear!PerThread, PerThread
  <2>4. IF t * p + p < nr THEN t * p > t * p + p ELSE t * p > nr
    BY <2>1, <2>3 DEF Linear!Underflows, Linear!PartStart, Linear!PartEnd
  <2> HIDE DEF nr, n
  <2>5. p \in Nat
    BY <2>2, PartsSuffice
  <2> HIDE DEF p
  <2>6. t * p \in Nat
    BY <2>2, <2>5
  <2>7. t * p > nr
    BY <2>2, <2>4, <2>5, <2>6
  <2> QED
    BY <2>3, <2>7 DEF nr, n
<1>4. slot6' = "panicked" => slot1.fn = "forward_linear_batch" /\ slot1.dtype[1] = "F32"
  BY <1>1, <1>2 DEF Linear!AssertFails, Called
<1>5. PlaceInv'
  <2>1. Linear!PerThread(slot1.rows[slot2], slot1.threads)'
          = Linear!PerThread(slot1.rows[slot2], slot1.threads)
    BY <1>1
  <2> QED
    BY <1>1, <1>2, <1>3, <1>4, SameCall DEF PlaceInv
<1>6. CellsTyped'
  <2>1. CellType' = CellType /\ Linear!Outs' = Linear!Outs
    BY <1>1, SameCall DEF CellType
  <2> QED
    BY <1>1, <1>2, <2>1 DEF CellsTyped
<1>7. (\A o, r : Good(o, r)' = Good(o, r)) /\ Count' = Count
  BY <1>1, SameCall DEF Good
<1> QED
  BY <1>1, <1>5, <1>6, <1>7 DEF LinearInv

\* One write of one thread.
LEMMA WritesKeep ==
  ASSUME LinearInv, NEW t \in Linear!Threads, Linear!ThreadWrites(t)
  PROVE  LinearInv'
<1> DEFINE w == Linear!Work(t)[slot3[t] + 1]
           O == w.output
<1>1. /\ slot6 = "running" /\ slot6' = slot6 /\ slot1' = slot1 /\ slot2' = slot2
      /\ slot3[t] < Len(Linear!Work(t))
      /\ slot3' = [slot3 EXCEPT ![t] = @ + 1]
      /\ slot4' = [slot4 EXCEPT ![O] = [r \in DOMAIN slot4[O] |->
            IF r \in w.rows THEN Linear!Written(slot4[O][r], w) ELSE slot4[O][r]]]
      /\ slot5' = (slot5 \/ ~(w.rows \subseteq DOMAIN slot4[O]))
  BY DEF Linear!ThreadWrites
<1>2. /\ PlaceInv /\ CellsTyped /\ Called /\ slot2 \in 1..Count /\ Linear!Outs = 1..Count
      /\ Within /\ slot3 \in [Linear!Threads -> Nat]
      /\ \A u \in Linear!Threads : slot3[u] \in 0..Len(Linear!Work(u))
  BY <1>1 DEF LinearInv, PlaceInv, Called, Within
<1>3. Len(Linear!Work(t)) \in Nat /\ slot3[t] \in Nat /\ slot3[t] + 1 \in 1..Len(Linear!Work(t))
  BY <1>1, <1>2, WriteIs
<1>4. /\ O \in Active /\ w.rows \subseteq Share(t, O) /\ w.blocks \subseteq 1..Blocks
      /\ w.adds = Adds(O) /\ w.as = Linear!ReadAs(O)
      /\ Adds(O) \/ w.blocks = 1..Blocks
  <2> DEFINE k == slot3[t] + 1
  <2>1. k \in 1..Len(Linear!Work(t))
    BY <1>3
  <2> HIDE DEF k
  <2>2. /\ Linear!Work(t)[k].output \in Active
        /\ Linear!Work(t)[k].rows \subseteq Share(t, Linear!Work(t)[k].output)
        /\ Linear!Work(t)[k].blocks \subseteq 1..Blocks
        /\ Linear!Work(t)[k].adds = Adds(Linear!Work(t)[k].output)
        /\ Linear!Work(t)[k].as = Linear!ReadAs(Linear!Work(t)[k].output)
        /\ Adds(Linear!Work(t)[k].output) \/ Linear!Work(t)[k].blocks = 1..Blocks
    BY <1>2, <2>1, WriteIs
  <2> QED
    BY <2>2 DEF k
<1>5. ASSUME NEW o \in Active, NEW r, NEW b, Takes(w, o, r, b) PROVE ~Taken(o, r, b)
  BY <1>1, <1>2, <1>5, FirstTime
<1>6. \A o, r, b : Taken(o, r, b)' <=> Taken(o, r, b) \/ Takes(w, o, r, b)
  <2>1. \A u \in Linear!Threads : slot3'[u] = IF u = t THEN slot3[t] + 1 ELSE slot3[u]
    BY <1>1, <1>2
  <2>2. 1..(slot3[t] + 1) = 1..slot3[t] \union {slot3[t] + 1}
    BY <1>3
  <2> SUFFICES ASSUME NEW o, NEW r, NEW b
               PROVE  Taken(o, r, b)' <=> Taken(o, r, b) \/ Takes(w, o, r, b)
    OBVIOUS
  <2> DEFINE Goes(u, k) == Takes(Linear!Work(u)[k], o, r, b)
  <2>3. Taken(o, r, b)' <=> \E u \in Linear!Threads : \E k \in 1..slot3'[u] : Goes(u, k)
    BY <1>1, TakenNext
  <2>4. Taken(o, r, b) <=> \E u \in Linear!Threads : \E k \in 1..slot3[u] : Goes(u, k)
    BY DEF Taken
  <2>5. Takes(w, o, r, b) <=> Goes(t, slot3[t] + 1)
    OBVIOUS
  <2> HIDE DEF Goes, w
  <2>6. ASSUME NEW u \in Linear!Threads, NEW k \in 1..slot3'[u], Goes(u, k)
        PROVE  Goes(t, slot3[t] + 1) \/ \E v \in Linear!Threads : \E j \in 1..slot3[v] : Goes(v, j)
    <3>1. CASE u = t
      <4>1. k \in 1..slot3[t] \/ k = slot3[t] + 1
        BY <2>1, <2>2, <3>1
      <4> QED
        BY <2>6, <3>1, <4>1
    <3>2. CASE u # t
      <4>1. k \in 1..slot3[u]
        BY <2>1, <3>2
      <4> QED
        BY <2>6, <4>1
    <3> QED
      BY <3>1, <3>2
  <2>7. ASSUME NEW u \in Linear!Threads, NEW k \in 1..slot3[u], Goes(u, k)
        PROVE  \E v \in Linear!Threads : \E j \in 1..slot3'[v] : Goes(v, j)
    <3>1. k \in 1..slot3'[u]
      BY <2>1, <2>2
    <3> QED
      BY <2>7, <3>1
  <2>8. ASSUME Goes(t, slot3[t] + 1)
        PROVE  \E v \in Linear!Threads : \E j \in 1..slot3'[v] : Goes(v, j)
    <3>1. slot3[t] + 1 \in 1..slot3'[t]
      BY <2>1, <2>2
    <3> QED
      BY <2>8, <3>1
  <2> QED
    BY <2>3, <2>4, <2>5, <2>6, <2>7, <2>8
<1> HIDE DEF w, O
<1>7. O \in 1..Count /\ w.rows \subseteq 0..(slot1.rows[O] - 1)
  BY <1>2, <1>4, SharesPartition
<1>8. /\ slot4 = [o \in 1..Count |-> [r \in 0..(slot1.rows[o] - 1) |-> slot4[o][r]]]
      /\ \A o \in 1..Count : \A r \in 0..(slot1.rows[o] - 1) : slot4[o][r] \in CellType
  BY <1>2 DEF CellsTyped
<1>9. /\ DOMAIN slot4 = 1..Count /\ DOMAIN slot4[O] = 0..(slot1.rows[O] - 1)
      /\ \A o \in 1..Count : slot4[o] = [r \in 0..(slot1.rows[o] - 1) |-> slot4[o][r]]
  BY <1>7, <1>8
<1>10. /\ DOMAIN slot4' = 1..Count
       /\ slot4'[O] = [r \in 0..(slot1.rows[O] - 1) |->
             IF r \in w.rows THEN Linear!Written(slot4[O][r], w) ELSE slot4[O][r]]
       /\ \A o \in 1..Count : o # O => slot4'[o] = slot4[o]
  BY <1>1, <1>7, <1>9
<1>11. \A o \in 1..Count : \A r \in 0..(slot1.rows[o] - 1) :
          slot4'[o][r] = IF o = O /\ r \in w.rows THEN Linear!Written(slot4[o][r], w)
                         ELSE slot4[o][r]
  BY <1>10
<1>12. slot4' = [o \in 1..Count |-> [r \in 0..(slot1.rows[o] - 1) |-> slot4'[o][r]]]
  <2>1. slot4' = [o \in 1..Count |-> slot4'[o]]
    BY <1>1, <1>9, <1>10
  <2>2. \A o \in 1..Count : slot4'[o] = [r \in 0..(slot1.rows[o] - 1) |-> slot4'[o][r]]
    <3>1. slot4'[O] = [r \in 0..(slot1.rows[O] - 1) |-> slot4'[O][r]]
      BY <1>7, <1>10
    <3> QED
      BY <1>9, <1>10, <3>1
  <2> QED
    BY <2>1, <2>2
<1>13. slot5' = FALSE
  <2>1. slot5 = FALSE
    BY <1>2 DEF PlaceInv
  <2> QED
    BY <1>1, <1>7, <1>9, <2>1, Zenon
<1>14. \A r \in w.rows : Linear!Written(slot4[O][r], w) =
          [blocks |-> [b \in 1..Blocks |->
              IF Adds(O) THEN slot4[O][r].blocks[b] + (IF b \in w.blocks THEN 1 ELSE 0)
              ELSE IF b \in w.blocks THEN 1 ELSE 0],
           stale |-> slot4[O][r].stale /\ w.adds,
           as |-> Linear!ReadAs(O)]
  BY <1>4 DEF Linear!Written
<1>15. Adds(O) \in BOOLEAN /\ Linear!ReadAs(O) \in Dtypes \union {"none", "Q4_K", "Q6_K"}
  <2>1. Adds(O) \in BOOLEAN
    BY Zenon DEF Adds
  <2>2. slot1.dtype[O] \in Dtypes
    BY <1>2, <1>7 DEF Called
  <2>3. Linear!ReadAs(O) \in Dtypes \union {"none", "Q4_K", "Q6_K"}
    BY <2>2 DEF Linear!ReadAs
  <2> QED
    BY <2>1, <2>3
<1>16. ASSUME NEW r \in w.rows
       PROVE  /\ r \in 0..(slot1.rows[O] - 1)
              /\ slot4'[O][r] \in CellType
              /\ \A b \in 1..Blocks : slot4'[O][r].blocks[b] =
                   IF Adds(O) THEN slot4[O][r].blocks[b] + (IF b \in w.blocks THEN 1 ELSE 0)
                   ELSE IF b \in w.blocks THEN 1 ELSE 0
              /\ slot4'[O][r].stale = (slot4[O][r].stale /\ Adds(O))
              /\ slot4'[O][r].as = Linear!ReadAs(O)
  <2> DEFINE c == slot4[O][r]
             d == slot4'[O][r]
             e == [b \in 1..Blocks |->
                     IF Adds(O) THEN c.blocks[b] + (IF b \in w.blocks THEN 1 ELSE 0)
                     ELSE IF b \in w.blocks THEN 1 ELSE 0]
             x == c.stale /\ Adds(O)
  <2>1. r \in 0..(slot1.rows[O] - 1)
    BY <1>7
  <2>2. c \in CellType
    BY <1>7, <1>8, <2>1
  <2>3. d = Linear!Written(c, w)
    BY <1>7, <1>11, <2>1
  <2>4. (c.stale /\ w.adds) = x
    BY <1>4, Zenon
  <2>5. d = [blocks |-> e, stale |-> x, as |-> Linear!ReadAs(O)]
    BY <1>14, <2>3, <2>4, Zenon
  <2>6. x \in BOOLEAN
    BY <1>15, Zenon
  <2>7. \A b \in 1..Blocks : e[b] = IF Adds(O) THEN c.blocks[b] + (IF b \in w.blocks THEN 1 ELSE 0)
                                    ELSE IF b \in w.blocks THEN 1 ELSE 0
    OBVIOUS
  <2> HIDE DEF c
  <2>8. e \in [1..Blocks -> Nat]
    <3>1. c.blocks \in [1..Blocks -> Nat]
      BY <2>2 DEF CellType
    <3>2. e = [b \in 1..Blocks |-> e[b]]
      OBVIOUS
    <3> DEFINE f == c.blocks
    <3> HIDE DEF e, f
    <3>3. ASSUME NEW b \in 1..Blocks PROVE e[b] \in Nat
      <4>1. f[b] \in Nat
        BY <3>1 DEF f
      <4>2. e[b] = IF Adds(O) THEN f[b] + (IF b \in w.blocks THEN 1 ELSE 0)
                   ELSE IF b \in w.blocks THEN 1 ELSE 0
        BY <2>7 DEF f
      <4>3. CASE Adds(O)
        BY <4>1, <4>2, <4>3
      <4>4. CASE ~Adds(O)
        BY <4>2, <4>4
      <4> QED
        BY <4>3, <4>4
    <3> QED
      BY <3>2, <3>3
  <2> HIDE DEF d, e, x
  <2>9. d \in CellType
    BY <1>15, <2>5, <2>6, <2>8, Zenon DEF CellType
  <2>10. d.blocks = e /\ d.as = Linear!ReadAs(O)
    BY <2>5
  <2>11. d.stale = x
    BY <2>5, Zenon
  <2> QED
    BY <2>1, <2>7, <2>9, <2>10, <2>11, Zenon DEF c, d, x
<1>17. CellsTyped'
  <2>1. CellType' = CellType /\ Linear!Outs' = 1..Count
    BY <1>1, <1>2, SameCall DEF CellType
  <2>2. ASSUME NEW o \in 1..Count, NEW r \in 0..(slot1.rows[o] - 1)
        PROVE  slot4'[o][r] \in CellType
    BY <1>8, <1>11, <1>16
  <2> QED
    BY <1>1, <1>12, <2>1, <2>2 DEF CellsTyped
<1>18. PlaceInv'
  <2>1. slot3' \in [Linear!Threads -> Nat]
    BY <1>1, <1>2
  <2> QED
    BY <1>1, <1>2, <1>13, <2>1, SameCall DEF PlaceInv
<1>19. Within'
  <2>1. ASSUME NEW u \in Linear!Threads PROVE slot3'[u] \in 0..Len(Linear!Work(u))
    <3>1. slot3'[u] = IF u = t THEN slot3[t] + 1 ELSE slot3[u]
      BY <1>1, <1>2
    <3> QED
      BY <1>2, <1>3, <3>1
  <2>2. \A u : Linear!Work(u)' = Linear!Work(u)
    BY <1>1, SameWork
  <2> QED
    BY <1>1, <1>2, <2>1, <2>2, SameCall DEF Within
<1>20. Active' = Active /\ Linear!Filled' = Linear!Filled /\ Count' = Count
  BY <1>1, SameCall, SameMatrix
<1>21. \A o : Adds(o)' = Adds(o) /\ Linear!ReadAs(o)' = Linear!ReadAs(o)
  BY <1>1, SameCall
<1>22. ASSUME NEW o \in Active, NEW r \in 0..(slot1.rows[o] - 1)
       PROVE  CellInv(o, r)'
  <2>1. CellInv(o, r) /\ o \in 1..Count
    BY <1>1, <1>2, SharesPartition DEF LinearInv
  <2>2. CASE ~(o = O /\ r \in w.rows)
    <3>1. slot4'[o][r] = slot4[o][r]
      BY <1>11, <2>1, <2>2
    <3>2. \A b : Taken(o, r, b)' <=> Taken(o, r, b)
      BY <1>6, <2>2 DEF Takes, O
    <3> QED
      BY <1>20, <1>21, <2>1, <3>1, <3>2 DEF CellInv
  <2>3. CASE o = O /\ r \in w.rows
    <3>1. \A b : Takes(w, o, r, b) <=> b \in w.blocks
      BY <2>3 DEF Takes, O
    <3>2. \A b : Taken(o, r, b)' <=> Taken(o, r, b) \/ b \in w.blocks
      BY <1>6, <3>1
    <3>3. \A b \in 1..Blocks : slot4'[o][r].blocks[b] =
                   IF Adds(o) THEN slot4[o][r].blocks[b] + (IF b \in w.blocks THEN 1 ELSE 0)
                   ELSE IF b \in w.blocks THEN 1 ELSE 0
      BY <1>16, <2>3
    <3>4. /\ slot4'[o][r].stale = (slot4[o][r].stale /\ Adds(o))
          /\ slot4'[o][r].as = Linear!ReadAs(o)
      BY <1>16, <2>3, Zenon
    <3>5. CASE Adds(o)
      <4>1. ASSUME NEW b \in 1..Blocks
            PROVE  slot4'[o][r].blocks[b] = IF Taken(o, r, b)' THEN 1 ELSE 0
        <5>1. slot4[o][r].blocks[b] = IF Taken(o, r, b) THEN 1 ELSE 0
          BY <2>1, <3>5 DEF CellInv
        <5>2. b \in w.blocks => ~Taken(o, r, b)
          BY <1>5, <3>1
        <5> QED
          BY <3>2, <3>3, <3>5, <5>1, <5>2
      <4>2. slot4'[o][r].stale = (o \notin Linear!Filled)
        <5>1. slot4[o][r].stale = (o \notin Linear!Filled)
          BY <2>1, <3>5, Zenon DEF CellInv
        <5> QED
          BY <3>4, <3>5, <5>1, Zenon
      <4> QED
        BY <1>20, <1>21, <3>4, <3>5, <4>1, <4>2 DEF CellInv
    <3>6. CASE ~Adds(o)
      <4>1. w.blocks = 1..Blocks
        BY <1>4, <2>3, <3>6
      <4>2. \A b \in 1..Blocks : slot4'[o][r].blocks[b] = 1
        BY <3>3, <3>6, <4>1
      <4>3. slot4'[o][r].stale = FALSE
        BY <3>4, <3>6, Zenon
      <4> QED
        BY <1>20, <1>21, <3>4, <3>6, <4>2, <4>3 DEF CellInv
    <3> QED
      BY <3>5, <3>6
  <2> QED
    BY <2>2, <2>3
<1>23. ASSUME NEW o \in 1..Count, NEW r \in 0..(slot1.rows[o] - 1),
              slot1.fn = "forward_linear_multi", o < slot2
       PROVE  Good(o, r)'
  <2>1. Good(o, r)
    BY <1>23 DEF LinearInv
  <2>2. o # O
    BY <1>2, <1>4, <1>23 DEF Active
  <2>3. slot4'[o][r] = slot4[o][r]
    BY <1>11, <2>2
  <2> QED
    BY <1>1, <2>1, <2>3, SameCall DEF Good
<1> QED
  BY <1>1, <1>17, <1>18, <1>19, <1>20, <1>22, <1>23 DEF LinearInv

\* The inductive step of LinearLayers.
LEMMA LinearStep ==
  ASSUME (subject = "linear" => LinearInv), [Next]_vars
  PROVE  (subject = "linear" => LinearInv)'
<1> SUFFICES ASSUME subject' = "linear" PROVE LinearInv'
  OBVIOUS
<1>1. CASE subject = "linear" /\ Linear!Next
  <2>1. LinearInv
    BY <1>1
  <2> QED
    BY <1>1, <2>1, PrepareKeeps, JoinKeeps, WritesKeep, FailsKeep DEF Linear!Next
<1>2. CASE UNCHANGED vars
  <2>1. LinearInv /\ subject = "linear"
    BY <1>2 DEF vars
  <2>2. /\ slot1' = slot1 /\ slot2' = slot2 /\ slot3' = slot3 /\ slot4' = slot4
        /\ slot5' = slot5 /\ slot6' = slot6
    BY <1>2 DEF vars
  <2>3. /\ Count' = Count /\ Linear!Outs' = Linear!Outs /\ Linear!Threads' = Linear!Threads
        /\ Called' = Called /\ Linear!Possible(slot1)' = Linear!Possible(slot1)
        /\ \A o : Linear!ReadAs(o)' = Linear!ReadAs(o)
        /\ \A o : Adds(o)' = Adds(o)
        /\ Linear!Accumulates' = Linear!Accumulates
        /\ Active' = Active /\ Linear!Filled' = Linear!Filled
        /\ \A t : Linear!Work(t)' = Linear!Work(t)
    BY <2>2, SameCall, SameMatrix, SameWork
  <2>4. \A nr, n : Linear!PerThread(nr, n)' = Linear!PerThread(nr, n)
    BY DEF Linear!PerThread
  <2>5. PlaceInv' = PlaceInv
    BY <2>2, <2>3, <2>4 DEF PlaceInv
  <2>6. CellsTyped' = CellsTyped
    BY <2>2, <2>3 DEF CellsTyped, CellType
  <2>7. Within' = Within
    BY <2>2, <2>3 DEF Within
  <2>8. \A o, r, b : Taken(o, r, b)' <=> Taken(o, r, b)
    BY <2>2, TakenNext DEF Taken
  <2>9. \A o, r : CellInv(o, r) => CellInv(o, r)'
    BY <2>2, <2>3, <2>8 DEF CellInv
  <2>10. \A o, r : Good(o, r) => Good(o, r)'
    BY <2>2, <2>3 DEF Good
  <2>11. Linear!Before' = Linear!Before
    BY DEF Linear!Before
  <2> QED
    BY <2>1, <2>2, <2>3, <2>5, <2>6, <2>7, <2>9, <2>10, <2>11 DEF LinearInv
<1> QED
  BY <1>1, <1>2 DEF Next, vars

\* However many rows, blocks, outputs and threads there are and however the
\* threads interleave, a call that returns has put each block of each row into
\* its output once, by the kernel of the matrix's type, and nothing of what the
\* output held, but for forward_linear with VNNI on Q4_K (linear.rs).
THEOREM EveryRowOnce == Spec => []RowsOnce
<1>1. Spec => [](subject = "linear" => LinearInv)
  BY LinearInit, LinearStep, PTL DEF Spec
<1>2. (subject = "linear" => LinearInv) => RowsOnce
  <2> SUFFICES ASSUME LinearInv PROVE Linear!RowsOnce
    BY DEF RowsOnce
  <2>1. /\ PlaceInv /\ CellsTyped /\ Linear!Outs = 1..Count
        /\ \A o \in 1..Count : DOMAIN slot4[o] = 0..(slot1.rows[o] - 1)
    <3>1. PlaceInv /\ CellsTyped
      BY DEF LinearInv
    <3>2. Linear!Outs = 1..Count
      BY <3>1 DEF PlaceInv, Called
    <3>3. ASSUME NEW o \in 1..Count PROVE DOMAIN slot4[o] = 0..(slot1.rows[o] - 1)
      <4>1. slot4[o] = [r \in 0..(slot1.rows[o] - 1) |-> slot4[o][r]]
        BY <3>1, <3>2 DEF CellsTyped
      <4> QED
        BY <4>1
    <3> QED
      BY <3>1, <3>2, <3>3
  <2>2. slot6 = "done" => \A o \in 1..Count : \A r \in DOMAIN slot4[o] : Good(o, r)
    BY <2>1 DEF LinearInv
  <2>3. slot5 = FALSE
    BY <2>1 DEF PlaceInv
  <2> QED
    BY <2>1, <2>2, <2>3 DEF Linear!RowsOnce, PlaceInv, Good
<1> QED
  BY <1>1, <1>2, PTL
-----------------------------------------------------------------------------
(* Folds over sequences, as GgufFile has them.                             *)

\* The greatest number of a set.
LEMMA GreatestIs ==
  ASSUME NEW u \in SUBSET Int, NEW k \in u, \A y \in u : k >= y
  PROVE  File!Max(u) = k
<1>1. \A x \in u : (\A y \in u : x >= y) => x = k
  OBVIOUS
<1> QED
  BY <1>1 DEF File!Max

\* Sums and products of sequences, as the folds of the community modules have
\* them: what the function they recurse with satisfies.
FoldStep(op, a, b) == IF op = "sum" THEN a + b ELSE a * b
FoldBase(op) == IF op = "sum" THEN 0 ELSE 1
Folds(op, g, s, n) ==
    g = [u \in SUBSET (1..n) |->
           IF u = {} THEN FoldBase(op)
           ELSE FoldStep(op, g[u \ {File!Max(u)}], s[File!Max(u)])]

\* Such a function exists.
LEMMA FoldExists ==
  ASSUME NEW op, NEW s, NEW n \in Nat
  PROVE  \E g : Folds(op, g, s, n)
<1> DEFINE S == {m \in 0..n : \E g : Folds(op, g, s, m)}
           top(u) == File!Max(u)
<1>1. 0 \in S
  <2> DEFINE g == [u \in SUBSET (1..0) |-> FoldBase(op)]
  <2>1. \A u \in SUBSET (1..0) : u = {}
    OBVIOUS
  <2>2. Folds(op, g, s, 0)
    BY <2>1 DEF Folds
  <2> QED
    BY <2>2
<1>2. ASSUME NEW m \in 0..(n - 1), m \in S PROVE m + 1 \in S
  <2>1. PICK g : Folds(op, g, s, m)
    BY <1>2
  <2> DEFINE h == [u \in SUBSET (1..(m + 1)) |->
                     IF m + 1 \in u THEN FoldStep(op, g[u \ {m + 1}], s[m + 1]) ELSE g[u]]
  <2>2. ASSUME NEW u \in SUBSET (1..(m + 1))
        PROVE  h[u] = IF u = {} THEN FoldBase(op)
                      ELSE FoldStep(op, h[u \ {top(u)}], s[top(u)])
    <3>1. CASE m + 1 \in u
      <4>1. top(u) = m + 1
        BY <3>1, GreatestIs
      <4>2. u \ {m + 1} \in SUBSET (1..(m + 1)) /\ m + 1 \notin u \ {m + 1}
        OBVIOUS
      <4>3. h[u \ {m + 1}] = g[u \ {m + 1}]
        BY <4>2
      <4>4. h[u] = FoldStep(op, g[u \ {m + 1}], s[m + 1])
        BY <3>1
      <4> HIDE DEF h, top
      <4> QED
        BY <3>1, <4>1, <4>3, <4>4
    <3>2. CASE m + 1 \notin u
      <4>1. u \in SUBSET (1..m)
        BY <3>2
      <4>2. g[u] = IF u = {} THEN FoldBase(op)
                   ELSE FoldStep(op, g[u \ {top(u)}], s[top(u)])
        BY <2>1, <4>1 DEF Folds
      <4>3. h[u] = g[u]
        BY <3>2
      <4>4. u \ {top(u)} \in SUBSET (1..(m + 1)) /\ m + 1 \notin u \ {top(u)}
        BY <3>2
      <4>5. h[u \ {top(u)}] = g[u \ {top(u)}]
        BY <4>4
      <4> HIDE DEF h, top
      <4> QED
        BY <4>2, <4>3, <4>5
    <3> QED
      BY <3>1, <3>2
  <2>3. h = [u \in SUBSET (1..(m + 1)) |-> h[u]]
    OBVIOUS
  <2> HIDE DEF h
  <2>4. Folds(op, h, s, m + 1)
    BY <2>2, <2>3 DEF Folds
  <2> QED
    BY <2>4
<1> HIDE DEF S
<1>3. 0..n \subseteq S
  BY <1>1, <1>2, InductionTo
<1> QED
  BY <1>3 DEF S

\* A function with these values on the prefixes.
Recurs(op, g, s, n) ==
    /\ g[1..0] = FoldBase(op)
    /\ \A k \in 1..n : g[1..k] = FoldStep(op, g[1..(k - 1)], s[k])

\* Folds have them.
LEMMA FoldValues ==
  ASSUME NEW op, NEW s, NEW n \in Nat, NEW g, Folds(op, g, s, n)
  PROVE  Recurs(op, g, s, n)
<1>1. \A u \in SUBSET (1..n) :
        g[u] = IF u = {} THEN FoldBase(op)
               ELSE FoldStep(op, g[u \ {File!Max(u)}], s[File!Max(u)])
  BY DEF Folds
<1>2. 1..0 = {} /\ 1..0 \in SUBSET (1..n)
  OBVIOUS
<1>3. ASSUME NEW k \in 1..n
      PROVE  g[1..k] = FoldStep(op, g[1..(k - 1)], s[k])
  <2> DEFINE u == 1..k
  <2>1. u \in SUBSET Int /\ u \in SUBSET (1..n) /\ k \in u /\ u # {} /\ u \ {k} = 1..(k - 1)
    OBVIOUS
  <2>2. \A y \in u : k >= y
    OBVIOUS
  <2> HIDE DEF u
  <2>3. File!Max(u) = k
    BY <2>1, <2>2, GreatestIs
  <2> QED
    BY <1>1, <2>1, <2>3 DEF u
<1> QED
  BY <1>1, <1>2, <1>3 DEF Recurs

\* The bytes of the first reads of a file are a fold of their widths.
LEMMA BytesAre ==
  ASSUME NEW f, NEW n \in Nat, NEW s, s = [k \in 1..n |-> File!parse(f)[k].width]
  PROVE  \E g : Folds("sum", g, s, n) /\ File!BytesOf(f, n) = g[1..n]
<1> DEFINE P(h) == h = [u \in SUBSET (DOMAIN s) |->
                          IF u = {} THEN 0
                          ELSE h[u \ {File!Max(u)}] + s[File!Max(u)]]
           g == CHOOSE h : P(h)
<1>1. File!BytesOf(f, n) = g[DOMAIN s]
  BY DEF File!BytesOf, File!FoldLeft, File!MapThenFoldSet
<1>0. DOMAIN s = 1..n
  OBVIOUS
<1>2. ASSUME NEW h PROVE Folds("sum", h, s, n) <=> P(h)
  BY <1>0 DEF Folds, FoldStep, FoldBase
<1>3. \E h : P(h)
  <2>1. PICK h : Folds("sum", h, s, n)
    BY FoldExists
  <2> HIDE DEF P
  <2> QED
    BY <1>2, <2>1
<1>4. P(g)
  BY <1>3
<1> HIDE DEF g, P
<1> QED
  BY <1>0, <1>1, <1>2, <1>4

\* The elements of a tensor are a fold of its shape.
LEMMA ElementsAre ==
  ASSUME NEW t, NEW n \in Nat, DOMAIN t.shape = 1..n
  PROVE  \E g : Folds("product", g, t.shape, n) /\ File!n_elems(t) = g[1..n]
<1> DEFINE s == t.shape
           P(h) == h = [u \in SUBSET (DOMAIN s) |->
                          IF u = {} THEN 1
                          ELSE h[u \ {File!Max(u)}] * s[File!Max(u)]]
           g == CHOOSE h : P(h)
<1>1. File!n_elems(t) = g[DOMAIN s]
  BY DEF File!n_elems, File!FoldLeft, File!MapThenFoldSet
<1>2. ASSUME NEW h PROVE Folds("product", h, s, n) <=> P(h)
  BY DEF Folds, FoldStep, FoldBase
<1>3. \E h : P(h)
  <2>1. PICK h : Folds("product", h, s, n)
    BY FoldExists
  <2> HIDE DEF P
  <2> QED
    BY <1>2, <2>1
<1>4. P(g)
  BY <1>3
<1> HIDE DEF g, P
<1> QED
  BY <1>1, <1>2, <1>4
-----------------------------------------------------------------------------
(* The reads a file asks for.                                              *)

\* A read: its width, and whether what is read is what the format has there.
AnyRead == [width : Nat, ok : BOOLEAN]

\* FlattenSeq of no, one or more sequences is a sequence.
LEMMA FlattenTyped ==
  ASSUME NEW W, NEW n \in Nat, NEW seqs \in [1..n -> Seq(W)]
  PROVE  File!FlattenSeq(seqs) \in Seq(W)
<1>1. Len(seqs) = n /\ seqs \in Seq(Seq(W)) /\ \A i \in 1..n : seqs[i] \in Seq(W)
  BY LenProperties
<1>2. CASE n = 0
  <2>1. File!FlattenSeq(seqs) = <<>>
    BY <1>1, <1>2 DEF File!FlattenSeq
  <2> QED
    BY <2>1
<1>3. CASE n # 0
  <2>1. PICK off : Placed(Linear!FlattenSeq(seqs), off, seqs, Len(seqs), W)
    BY <1>1, <1>3, FlattenPlaces
  <2>2. File!FlattenSeq(seqs) = Linear!FlattenSeq(seqs)
    BY DEF File!FlattenSeq, Linear!FlattenSeq
  <2> QED
    BY <2>1, <2>2 DEF Placed
<1> QED
  BY <1>2, <1>3

\* What is in one of the sequences of reads is in FlattenSeq.
LEMMA FlattenHolds ==
  ASSUME NEW n \in Nat, NEW seqs \in [1..n -> Seq(AnyRead)],
         NEW k \in 1..n
  PROVE  \A j \in 1..Len(seqs[k]) : \E i \in 1..Len(File!FlattenSeq(seqs)) :
            File!FlattenSeq(seqs)[i] = seqs[k][j]
<1> SUFFICES ASSUME NEW j \in 1..Len(seqs[k])
             PROVE  \E i \in 1..Len(File!FlattenSeq(seqs)) :
                       File!FlattenSeq(seqs)[i] = seqs[k][j]
  OBVIOUS
<1>1. Len(seqs) = n /\ \A i \in 1..n : seqs[i] \in Seq(AnyRead)
  BY LenProperties
<1>2. PICK off : Placed(Linear!FlattenSeq(seqs), off, seqs, Len(seqs), AnyRead)
  BY <1>1, FlattenPlaces
<1>3. File!FlattenSeq(seqs) = Linear!FlattenSeq(seqs)
  BY DEF File!FlattenSeq, Linear!FlattenSeq
<1> DEFINE f == File!FlattenSeq(seqs)
<1>4. f \in Seq(AnyRead) /\ off \in [1..n -> Nat]
  BY <1>1, <1>2, <1>3 DEF Placed
<1>5. j \in Nat \ {0} /\ j <= Len(seqs[k])
  OBVIOUS
<1>6. off[k] + j <= Len(f) /\ f[off[k] + j] = seqs[k][j]
  BY <1>1, <1>2, <1>3, <1>5 DEF Placed
<1>7. off[k] + j \in 1..Len(f)
  BY <1>4, <1>5, <1>6
<1> QED
  BY <1>6, <1>7

\* What a sequence has, it has behind another.
LEMMA Behind ==
  ASSUME NEW W, NEW a \in Seq(W), NEW c \in Seq(W), NEW j \in 1..Len(c)
  PROVE  /\ (a \o c) \in Seq(W)
         /\ Len(a) + j \in 1..Len(a \o c)
         /\ (a \o c)[Len(a) + j] = c[j]
OBVIOUS

\* The reads of a scalar or a string.
LEMMA ElementTyped ==
  ASSUME NEW type \in File!Scalars \union {"String"}, NEW length \in Nat
  PROVE  File!parse_element(type, length) \in Seq(AnyRead)
<1>1. CASE type = "String"
  <2>1. \A w \in Nat : File!Read(w) \in AnyRead
    BY DEF File!Read, AnyRead
  <2>2. File!parse_element(type, length) = <<File!Read(8), File!Read(length)>>
    BY <1>1 DEF File!parse_element, File!read_string
  <2> QED
    BY <2>1, <2>2
<1>2. CASE type \in File!Scalars /\ type # "String"
  <2>1. File!ScalarWidth(type) \in Nat
    BY <1>2 DEF File!ScalarWidth, File!Scalars
  <2>2. File!Read(File!ScalarWidth(type)) \in AnyRead
    BY <2>1 DEF File!Read, AnyRead
  <2>3. File!parse_element(type, length) = <<File!Read(File!ScalarWidth(type))>>
    BY <1>2 DEF File!parse_element
  <2> QED
    BY <2>2, <2>3
<1> QED
  BY <1>1, <1>2

\* The reads of a key and its value.
LEMMA KvTyped ==
  ASSUME NEW kv \in Metadata, kv.type = "String" => kv.items # <<>>
  PROVE  File!parse_kv(kv) \in Seq(AnyRead)
<1>1. /\ kv.key \in Nat /\ kv.items \in Seq(Nat)
  BY DEF Metadata
<1>2. \A w \in Nat : File!Read(w) \in AnyRead
  BY DEF File!Read, AnyRead
<1> DEFINE refused == <<File!Checked(0, FALSE)>>
<1>3. refused \in Seq(AnyRead)
  BY DEF File!Checked, AnyRead
<1> HIDE DEF refused
<1>4. File!parse_metadata_array(kv.of, kv.items) \in Seq(AnyRead)
  <2>1. CASE kv.of \in File!Scalars \union {"String"}
    <3> DEFINE seqs == [k \in DOMAIN kv.items |-> File!parse_element(kv.of, kv.items[k])]
    <3>1. DOMAIN kv.items = 1..Len(kv.items) /\ Len(kv.items) \in Nat
      BY <1>1
    <3>2. \A k \in 1..Len(kv.items) : kv.items[k] \in Nat
      BY <1>1
    <3>3. seqs \in [1..Len(kv.items) -> Seq(AnyRead)]
      BY <2>1, <3>1, <3>2, ElementTyped
    <3>4. File!parse_metadata_array(kv.of, kv.items) = File!FlattenSeq(seqs)
      BY <2>1 DEF File!parse_metadata_array
    <3> HIDE DEF seqs
    <3> QED
      BY <3>1, <3>3, <3>4, FlattenTyped
  <2>2. CASE ~(kv.of \in File!Scalars \union {"String"})
    <3>1. File!parse_metadata_array(kv.of, kv.items) = refused
      BY <2>2, Zenon DEF File!parse_metadata_array, refused
    <3> QED
      BY <1>3, <3>1
  <2> QED
    BY <2>1, <2>2
<1>5. File!parse_metadata_value(kv) \in Seq(AnyRead)
  <2>1. CASE kv.type = "Array"
    <3>1. <<File!Read(4), File!Read(8)>> \in Seq(AnyRead)
      BY <1>2
    <3>2. File!parse_metadata_value(kv) =
            <<File!Read(4), File!Read(8)>> \o File!parse_metadata_array(kv.of, kv.items)
      BY <2>1 DEF File!parse_metadata_value
    <3> QED
      BY <1>4, <3>1, <3>2
  <2>2. CASE kv.type # "Array" /\ kv.type \in File!Scalars \union {"String"}
    <3>1. File!parse_metadata_value(kv) = File!parse_element(kv.type, kv.items[1])
      BY <2>2 DEF File!parse_metadata_value
    <3>2. CASE kv.type = "String"
      <4>1. kv.items[1] \in Nat
        BY <1>1, <3>2
      <4> QED
        BY <2>2, <3>1, <4>1, ElementTyped
    <3>3. CASE kv.type # "String"
      <4>1. File!parse_element(kv.type, kv.items[1]) = File!parse_element(kv.type, 0)
        BY <3>3 DEF File!parse_element
      <4>2. File!parse_element(kv.type, 0) \in Seq(AnyRead)
        BY <2>2, ElementTyped
      <4> QED
        BY <3>1, <4>1, <4>2
    <3> QED
      BY <3>2, <3>3
  <2>3. CASE kv.type # "Array" /\ ~(kv.type \in File!Scalars \union {"String"})
    <3>1. File!parse_metadata_value(kv) = refused
      BY <2>3, Zenon DEF File!parse_metadata_value, refused
    <3> QED
      BY <1>3, <3>1
  <2> QED
    BY <2>1, <2>2, <2>3
<1>6. File!read_string(kv.key) \in Seq(AnyRead) /\ <<File!Read(4)>> \in Seq(AnyRead)
  BY <1>1, <1>2 DEF File!read_string
<1>7. (File!read_string(kv.key) \o <<File!Read(4)>>) \in Seq(AnyRead)
  BY <1>6
<1> QED
  BY <1>5, <1>7 DEF File!parse_kv

\* The reads of a tensor: of one of an unknown type, one fails.
LEMMA TensorTyped ==
  ASSUME NEW t \in TensorInfos, NEW version \in Nat
  PROVE  /\ File!parse_tensor_info(t, version) \in Seq(AnyRead)
         /\ \E j \in 1..Len(File!parse_tensor_info(t, version)) :
               File!parse_tensor_info(t, version)[j].ok = (t.dtype # "unknown")
<1> DEFINE a == File!read_string(t.name) \o <<File!Read(4)>>
           b == [d \in DOMAIN t.shape |-> File!Counter(version)]
           c == <<File!Checked(4, t.dtype # "unknown"), File!Read(8)>>
           all == a \o b \o c
<1>1. t.name \in Nat /\ t.shape \in Seq(Nat \ {0})
  BY DEF TensorInfos
<1>2. \A w \in Nat : File!Read(w) \in AnyRead
  BY DEF File!Read, AnyRead
<1>3. File!Checked(4, t.dtype # "unknown") \in AnyRead
  BY DEF File!Checked, AnyRead
<1>4. File!Counter(version) \in AnyRead
  BY <1>2 DEF File!Counter
<1>5. a \in Seq(AnyRead)
  BY <1>1, <1>2 DEF File!read_string
<1>6. b \in Seq(AnyRead)
  <2>1. DOMAIN t.shape = 1..Len(t.shape) /\ Len(t.shape) \in Nat
    BY <1>1
  <2>2. b \in [1..Len(t.shape) -> AnyRead]
    BY <1>4, <2>1
  <2> HIDE DEF b
  <2> QED
    BY <2>1, <2>2
<1>7. c \in Seq(AnyRead) /\ Len(c) = 2
  BY <1>2, <1>3
<1>11. c[1] = File!Checked(4, t.dtype # "unknown")
  OBVIOUS
<1>8. File!parse_tensor_info(t, version) = all
  BY DEF File!parse_tensor_info
<1> HIDE DEF a, b, c
<1>9. /\ all \in Seq(AnyRead)
      /\ Len(a \o b) + 1 \in 1..Len(all) /\ all[Len(a \o b) + 1] = c[1]
  <2> DEFINE ab == a \o b
  <2>1. ab \in Seq(AnyRead) /\ Len(ab) \in Nat
    BY <1>5, <1>6
  <2>2. all = ab \o c
    OBVIOUS
  <2> HIDE DEF ab, all
  <2>3. 1 \in 1..Len(c) /\ c \in Seq(AnyRead)
    BY <1>7
  <2>4. /\ (ab \o c) \in Seq(AnyRead)
        /\ Len(ab) + 1 \in 1..Len(ab \o c)
        /\ (ab \o c)[Len(ab) + 1] = c[1]
    BY <2>1, <2>3, Behind
  <2> QED
    BY <2>2, <2>4 DEF ab
<1>10. c[1].ok = (t.dtype # "unknown")
  BY <1>11 DEF File!Checked
<1> HIDE DEF all
<1> QED
  BY <1>8, <1>9, <1>10

\* The reads of a file: when all are as the format has them, every tensor is of
\* a type the reader knows.
LEMMA ParseTyped ==
  ASSUME NEW f \in Contents
  PROVE  /\ File!parse(f) \in Seq(AnyRead)
         /\ (\A i \in 1..Len(File!parse(f)) : File!parse(f)[i].ok) =>
               \A k \in DOMAIN f.tensors : f.tensors[k].dtype # "unknown"
<1> DEFINE a == <<File!Checked(4, f.magic), File!Checked(4, f.version \in 1..3),
                  File!Counter(f.version), File!Counter(f.version)>>
           kvs == [k \in DOMAIN f.kvs |-> File!parse_kv(f.kvs[k])]
           infos == [k \in DOMAIN f.tensors |->
                       File!parse_tensor_info(f.tensors[k], f.version)]
           b == File!FlattenSeq(kvs)
           c == File!FlattenSeq(infos)
<1>1. /\ f.magic \in BOOLEAN /\ f.version \in Nat
      /\ f.kvs \in Seq(Metadata) /\ f.tensors \in Seq(TensorInfos)
      /\ \A k \in DOMAIN f.kvs : f.kvs[k].type = "String" => f.kvs[k].items # <<>>
  BY FileAssumption
<1>2. a \in Seq(AnyRead)
  <2>1. \A w \in Nat : File!Read(w) \in AnyRead
    BY DEF File!Read, AnyRead
  <2>2. File!Counter(f.version) \in AnyRead
    BY <2>1 DEF File!Counter
  <2>3. File!Checked(4, f.magic) \in AnyRead /\ File!Checked(4, f.version \in 1..3) \in AnyRead
    <3>1. ASSUME NEW x \in BOOLEAN PROVE File!Checked(4, x) \in AnyRead
      BY DEF File!Checked, AnyRead
    <3>2. (f.version \in 1..3) \in BOOLEAN
      OBVIOUS
    <3> QED
      BY <1>1, <3>1, <3>2
  <2> QED
    BY <2>2, <2>3
<1>3. b \in Seq(AnyRead)
  <2>1. DOMAIN f.kvs = 1..Len(f.kvs) /\ Len(f.kvs) \in Nat
    BY <1>1
  <2>2. \A k \in 1..Len(f.kvs) : f.kvs[k] \in Metadata
    BY <1>1
  <2>3. kvs \in [1..Len(f.kvs) -> Seq(AnyRead)]
    BY <1>1, <2>1, <2>2, KvTyped
  <2> HIDE DEF kvs
  <2> QED
    BY <2>1, <2>3, FlattenTyped
<1>4. /\ DOMAIN f.tensors = 1..Len(f.tensors) /\ Len(f.tensors) \in Nat
      /\ \A k \in 1..Len(f.tensors) : f.tensors[k] \in TensorInfos
  BY <1>1
<1>5. infos \in [1..Len(f.tensors) -> Seq(AnyRead)]
  BY <1>1, <1>4, TensorTyped
<1>6. c \in Seq(AnyRead)
  <2> HIDE DEF infos
  <2> QED
    BY <1>4, <1>5, FlattenTyped
<1>7. File!parse(f) = a \o b \o c
  BY DEF File!parse
<1>8. File!parse(f) \in Seq(AnyRead)
  <2> HIDE DEF a, b, c
  <2> QED
    BY <1>2, <1>3, <1>6, <1>7
<1>9. ASSUME \A i \in 1..Len(File!parse(f)) : File!parse(f)[i].ok,
             NEW k \in DOMAIN f.tensors
      PROVE  f.tensors[k].dtype # "unknown"
  <2>1. PICK j \in 1..Len(infos[k]) : infos[k][j].ok = (f.tensors[k].dtype # "unknown")
    <3>1. infos[k] = File!parse_tensor_info(f.tensors[k], f.version)
      OBVIOUS
    <3> HIDE DEF infos
    <3> QED
      BY <1>1, <1>4, <3>1, TensorTyped
  <2>2. PICK i \in 1..Len(c) : c[i] = infos[k][j]
    <3>1. k \in 1..Len(f.tensors)
      BY <1>4
    <3>2. j \in 1..Len(infos[k])
      OBVIOUS
    <3> HIDE DEF infos, c, b, a
    <3> DEFINE n == Len(f.tensors)
    <3>4. n \in Nat /\ infos \in [1..n -> Seq(AnyRead)] /\ k \in 1..n
      BY <1>4, <1>5, <3>1
    <3> HIDE DEF n
    <3>3. \A m \in 1..Len(infos[k]) : \E i \in 1..Len(File!FlattenSeq(infos)) :
            File!FlattenSeq(infos)[i] = infos[k][m]
      BY ONLY <3>4, FlattenHolds
    <3> QED
      BY <3>2, <3>3 DEF c
  <2> HIDE DEF a, b, c, infos
  <2>3. /\ Len(a \o b) + i \in 1..Len(File!parse(f))
        /\ File!parse(f)[Len(a \o b) + i] = c[i]
    BY <1>2, <1>3, <1>6, <1>7
  <2>4. File!parse(f)[Len(a \o b) + i].ok
    BY <1>9, <2>3
  <2> QED
    BY <2>1, <2>2, <2>3, <2>4
<1> QED
  BY <1>8, <1>9
-----------------------------------------------------------------------------
(* Sizes of tensors.                                                       *)

\* Blocks are not empty and 256 columns are whole blocks; what Q4_K and Q6_K take
\* for them is what linear.rs takes.
LEMMA BlockSizes ==
  ASSUME NEW d \in File!GgmlDTypes
  PROVE  /\ File!block_size(d) \in Nat \ {0} /\ File!type_size(d) \in Nat \ {0}
         /\ 256 \div File!block_size(d) \in Nat \ {0}
         /\ File!block_size(d) * (256 \div File!block_size(d)) = 256
         /\ File!KernelBytes(d) \in Nat \ {0}
         /\ d \in {"Q4_K", "Q6_K"} => ~File!Overreads(d)
<1>1. File!block_size(d) \in {1, 32, 256}
  BY DEF File!GgmlDTypes, File!block_size, File!Single, File!Blocks32, File!Blocks256
<1>2. File!type_size(d) \in Nat \ {0}
  BY DEF File!GgmlDTypes, File!Single, File!Blocks32, File!Blocks256, File!type_size
<1>3. 256 \div 1 = 256 /\ 256 \div 32 = 8 /\ 256 \div 256 = 1
  OBVIOUS
<1>4. /\ 256 \div File!block_size(d) \in Nat \ {0}
      /\ File!block_size(d) * (256 \div File!block_size(d)) = 256
  BY <1>1, <1>3
<1>5. File!KernelBytes(d) \in Nat \ {0}
  BY DEF File!KernelBytes
<1>6. ASSUME d \in {"Q4_K", "Q6_K"} PROVE ~File!Overreads(d)
  <2>1. File!block_size(d) = 256
    BY <1>6 DEF File!block_size, File!Single, File!Blocks32, File!Blocks256
  <2>2. File!type_size(d) = File!KernelBytes(d)
    BY <1>6 DEF File!type_size, File!KernelBytes
  <2> QED
    BY <1>2, <1>3, <2>1, <2>2 DEF File!Overreads
<1> QED
  BY <1>1, <1>2, <1>4, <1>5, <1>6

\* y rows of x columns, kb bytes for 256 of them, against the m blocks they are
\* written in: b columns each in ts bytes, c blocks for 256 columns.
WrittenAs(x, y, b, c, ts, kb, m) ==
    /\ x \in Nat \ {0} /\ y \in Nat \ {0} /\ b \in Nat \ {0} /\ c \in Nat \ {0}
    /\ b * c = 256 /\ ts \in Nat \ {0} /\ kb \in Nat \ {0} /\ m \in Nat
    /\ b * m <= x * y + b - 1 /\ x * y <= b * m

\* The rows end within the blocks when those of 256 columns do; when they do not,
\* rows of whole blocks of 256 end past what is written.
LEMMA RowsAgainstBlocks ==
  ASSUME NEW x, NEW y, NEW b, NEW c, NEW ts, NEW kb, NEW m,
         WrittenAs(x, y, b, c, ts, kb, m)
  PROVE  /\ y * (x \div 256) * kb \in Nat
         /\ kb <= c * ts => y * (x \div 256) * kb <= m * ts
         /\ c * ts < kb /\ x % 256 = 0 => m * ts < y * (x \div 256) * kb
<1> USE DEF WrittenAs
<1> DEFINE q == x \div 256  p == y * q  r == p * c
<1>1. q \in Nat /\ 256 * q <= x /\ (x % 256 = 0 => x = 256 * q)
  BY SMT
<1>2. x % 256 = 0 => q \in Nat \ {0}
  BY <1>1
<1> HIDE DEF q
<1>3. p \in Nat /\ (q # 0 => p # 0)
  BY <1>1, SMT
<1>4. 256 * p <= x * y /\ (x % 256 = 0 => 256 * p = x * y)
  <2>1. (256 * q) * y <= x * y
    BY <1>1, TimesMonotone
  <2>2. (256 * q) * y = 256 * (y * q)
    BY <1>1, SMT
  <2>3. x % 256 = 0 => x * y = (256 * q) * y
    BY <1>1
  <2> QED
    BY <2>1, <2>2, <2>3
<1> HIDE DEF p
<1>5. r \in Nat /\ b * r = 256 * p
  <2>1. b * (p * c) = (b * c) * p
    BY <1>3, SMT
  <2> QED
    BY <1>3, <2>1, SMT
<1> HIDE DEF r
<1>6. x * y \in Nat
  BY SMT
<1>7. r <= m
  <2>1. b * r <= b * m
    BY <1>4, <1>5
  <2> QED
    BY <1>5, <2>1, SMT
<1>8. x % 256 = 0 => m = r
  <2> SUFFICES ASSUME x % 256 = 0, r < m PROVE FALSE
    BY <1>5, <1>7
  <2>1. r + 1 <= m
    BY <1>5
  <2>2. b * (r + 1) <= b * m
    <3>1. (r + 1) * b <= m * b
      BY <1>5, <2>1, TimesMonotone
    <3> QED
      BY <1>5, <3>1, SMT
  <2>3. b * (r + 1) = b * r + b
    BY <1>5, SMT
  <2> DEFINE u == b * r  v == b * m  w == x * y
  <2>4. u \in Nat /\ v \in Nat /\ w \in Nat
    BY <1>5, <1>6, SMT
  <2>5. u + b <= v /\ v <= w + b - 1 /\ u = w
    BY <1>4, <1>5, <2>2, <2>3
  <2> HIDE DEF u, v, w
  <2> QED
    BY <2>4, <2>5
<1>9. p * (c * ts) = r * ts
  BY <1>3, SMT DEF r
<1>10. r * ts \in Nat /\ p * kb \in Nat /\ m * ts \in Nat
  BY <1>3, <1>5, SMT
<1>11. kb <= c * ts => p * kb <= m * ts
  <2> SUFFICES ASSUME kb <= c * ts PROVE p * kb <= m * ts
    OBVIOUS
  <2>0. c * ts \in Nat
    BY SMT
  <2>1. kb * p <= (c * ts) * p
    BY <1>3, <2>0, TimesMonotone
  <2>2. r * ts <= m * ts
    BY <1>5, <1>7, TimesMonotone
  <2>3. kb * p = p * kb /\ (c * ts) * p = p * (c * ts)
    BY <1>3, <2>0, SMT
  <2> QED
    BY <1>9, <1>10, <2>1, <2>2, <2>3
<1>12. c * ts < kb /\ x % 256 = 0 => m * ts < p * kb
  <2> SUFFICES ASSUME c * ts < kb, x % 256 = 0 PROVE m * ts < p * kb
    OBVIOUS
  <2>0. c * ts \in Nat /\ p \in Nat \ {0}
    BY <1>2, <1>3, SMT
  <2> DEFINE k == c * ts
  <2> HIDE DEF k
  <2>1. p * k < p * kb
    BY <2>0, SMT DEF k
  <2> QED
    BY <1>8, <1>9, <2>1 DEF k
<1> QED
  BY <1>10, <1>11, <1>12 DEF p, q

\* The multiples of b below n, counted.
LEMMA MultiplesBelow ==
  ASSUME NEW b \in Nat \ {0}, NEW n \in Nat
  PROVE  /\ (n + b - 1) \div b \in Nat
         /\ Cardinality({k \in 0..(n - 1) : k % b = 0}) = (n + b - 1) \div b
<1> DEFINE m == (n + b - 1) \div b
           S == {k \in 0..(n - 1) : k % b = 0}
           f == [i \in 0..(m - 1) |-> i * b]
<1>1. m \in Nat /\ m * b <= n + b - 1 /\ n + b - 1 < m * b + b
  <2>1. n + b - 1 \in Nat
    OBVIOUS
  <2>2. b * m <= n + b - 1 /\ n + b - 1 < b * m + b /\ m \in Nat
    BY <2>1, Division
  <2>3. b * m = m * b
    BY <2>2
  <2> QED
    BY <2>2, <2>3
<1> HIDE DEF m
<1>2. ASSUME NEW i \in 0..(m - 1) PROVE i * b \in S
  <2>1. i * b \in Nat /\ (i * b) % b = 0
    <3>1. 0 \in 0..(b - 1) /\ i \in Nat
      BY <1>1
    <3>2. i * b + 0 \in Nat /\ (i * b + 0) % b = 0
      BY <3>1, DivMod
    <3>3. i * b \in Int /\ i * b + 0 = i * b
      BY <3>1
    <3> QED
      BY <3>2, <3>3
  <2>2. (i + 1) * b <= m * b /\ (i + 1) * b = i * b + b
    <3>1. i + 1 \in Nat /\ i + 1 <= m
      BY <1>1
    <3>2. (i + 1) * b <= m * b
      BY <1>1, <3>1, TimesMonotone
    <3>3. (i + 1) * b = i * b + b
      BY SMT
    <3> QED
      BY <3>2, <3>3
  <2> DEFINE p == i * b  q == m * b  r == (i + 1) * b
  <2>3. q \in Nat
    BY <1>1, TimesMonotone
  <2>4. p \in Nat /\ r <= q /\ r = p + b /\ q <= n + b - 1
    BY <1>1, <2>1, <2>2
  <2>5. p % b = 0
    BY <2>1
  <2> HIDE DEF p, q, r
  <2>6. p \in 0..(n - 1)
    BY <2>3, <2>4
  <2> QED
    BY <2>5, <2>6 DEF p
<1>3. ASSUME NEW k \in S PROVE k \div b \in 0..(m - 1) /\ k = (k \div b) * b
  <2> DEFINE a == k \div b
  <2>1. k \in Nat /\ k <= n - 1 /\ k % b = 0
    OBVIOUS
  <2>2. a \in Nat /\ k = a * b + (k % b)
    BY <2>1, DivModIs
  <2> HIDE DEF a
  <2>3. a * b \in Nat
    BY <2>2
  <2>4. k = a * b
    BY <2>1, <2>2, <2>3
  <2>5. a <= m - 1
    <3> SUFFICES ASSUME m <= a PROVE FALSE
      BY <1>1, <2>2
    <3>1. m * b \in Nat /\ m * b <= a * b
      BY <1>1, <2>2, TimesMonotone
    <3> DEFINE p == a * b  q == m * b
    <3>2. p = k /\ q \in Nat /\ q <= p /\ n + b - 1 < q + b
      BY <1>1, <2>4, <3>1
    <3> HIDE DEF p, q
    <3> QED
      BY <2>1, <3>2
  <2> QED
    BY <1>1, <2>2, <2>4, <2>5 DEF a
<1>4. f \in Bijection(0..(m - 1), S)
  <2>1. f \in [0..(m - 1) -> S]
    BY <1>2
  <2>2. ASSUME NEW i \in 0..(m - 1), NEW j \in 0..(m - 1), f[i] = f[j] PROVE i = j
    <3>1. i \in Nat /\ j \in Nat /\ i * b = j * b /\ 0 \in 0..(b - 1)
      BY <1>1, <2>2
    <3>2. (i * b + 0) \div b = i /\ (j * b + 0) \div b = j
      BY <3>1, DivMod
    <3> QED
      BY <3>1, <3>2
  <2>3. ASSUME NEW k \in S PROVE \E i \in 0..(m - 1) : f[i] = k
    BY <1>3
  <2> HIDE DEF f, S
  <2> QED
    BY <2>1, <2>2, <2>3 DEF Bijection, Injection, Surjection, IsInjective
<1>5. IsFiniteSet(0..(m - 1)) /\ Cardinality(0..(m - 1)) = m
  <2>1. 0 \in Int /\ m - 1 \in Int
    BY <1>1
  <2>2. /\ IsFiniteSet(0..(m - 1))
        /\ Cardinality(0..(m - 1)) = IF 0 > m - 1 THEN 0 ELSE (m - 1) - 0 + 1
    BY <2>1, FS_Interval
  <2> QED
    BY <1>1, <2>2
<1> HIDE DEF f, S
<1>6. Cardinality(S) = m
  BY <1>4, <1>5, FS_Bijection DEF ExistsBijection
<1> QED
  BY <1>1, <1>6 DEF S, m

\* The values of a product.
LEMMA ProductValues ==
  ASSUME NEW s, NEW n \in Nat, NEW g, Folds("product", g, s, n)
  PROVE  /\ g[1..0] = 1
         /\ \A k \in 1..n : g[1..k] = g[1..(k - 1)] * s[k]
<1>1. Recurs("product", g, s, n)
  BY FoldValues
<1>2. /\ g[1..0] = FoldBase("product")
      /\ \A k \in 1..n : g[1..k] = FoldStep("product", g[1..(k - 1)], s[k])
  BY <1>1 DEF Recurs
<1> QED
  BY <1>2 DEF FoldBase, FoldStep

\* The values of a sum.
LEMMA SumValues ==
  ASSUME NEW s, NEW n \in Nat, NEW g, Folds("sum", g, s, n)
  PROVE  /\ g[1..0] = 0
         /\ \A k \in 1..n : g[1..k] = g[1..(k - 1)] + s[k]
<1>1. Recurs("sum", g, s, n)
  BY FoldValues
<1>2. /\ g[1..0] = FoldBase("sum")
      /\ \A k \in 1..n : g[1..k] = FoldStep("sum", g[1..(k - 1)], s[k])
  BY <1>1 DEF Recurs
<1> QED
  BY <1>2 DEF FoldBase, FoldStep

\* Products of positive numbers are positive.
LEMMA ProductPositive ==
  ASSUME NEW s, NEW n \in Nat, NEW g, Folds("product", g, s, n)
  PROVE  (\A k \in 1..n : s[k] \in Nat \ {0}) => \A k \in 0..n : g[1..k] \in Nat \ {0}
<1>0. /\ g[1..0] = 1
      /\ \A k \in 1..n : g[1..k] = g[1..(k - 1)] * s[k]
  BY ProductValues
<1> DEFINE S == {k \in 0..n : g[1..k] \in Nat \ {0}}
<1>1. 0 \in S
  BY <1>0
<1>2. ASSUME \A k \in 1..n : s[k] \in Nat \ {0},
             NEW k \in 0..(n - 1), k \in S PROVE k + 1 \in S
  <2> DEFINE j == k + 1  a == g[1..k]  b == s[k + 1]
  <2>3. j \in 1..n /\ j - 1 = k
    OBVIOUS
  <2> HIDE DEF j
  <2>4. g[1..j] = g[1..(j - 1)] * s[j]
    BY <1>0, <2>3
  <2>1. g[1..(k + 1)] = a * b
    BY <2>3, <2>4 DEF j
  <2>2. a \in Nat \ {0} /\ b \in Nat \ {0}
    BY <1>2
  <2> HIDE DEF a, b
  <2>5. a * b \in Nat \ {0}
    BY <2>2, SMT
  <2> QED
    BY <2>1, <2>5
<1>3. SUFFICES ASSUME \A k \in 1..n : s[k] \in Nat \ {0} PROVE 0..n \subseteq S
  BY DEF S
<1>4. \A k \in 0..(n - 1) : k \in S => k + 1 \in S
  BY <1>2, <1>3
<1> HIDE DEF S
<1> QED
  BY <1>1, <1>4, InductionTo

\* The bytes linear.rs takes for a matrix.
RowsBytes(t) == t.shape[2] * (t.shape[1] \div 256) * File!KernelBytes(t.dtype)

\* A tensor has elements, and all its blocks are written; the rows of a matrix
\* end before them or after, as its type has it.
LEMMA TensorSizes ==
  ASSUME NEW t \in TensorInfos, t.dtype # "unknown"
  PROVE  /\ File!n_elems(t) \in Nat \ {0}
         /\ File!nbytes(t) \in Nat \ {0}
         /\ File!Written(t) = File!nbytes(t)
         /\ Len(t.shape) = 2 => LET rows == RowsBytes(t) IN
              /\ rows \in Nat
              /\ ~File!Overreads(t.dtype) => rows <= File!nbytes(t)
              /\ File!Overreads(t.dtype) /\ t.shape[1] % 256 = 0 =>
                   File!nbytes(t) < rows
<1> DEFINE n == File!n_elems(t)
           len == Len(t.shape)
           b == File!block_size(t.dtype)
           ts == File!type_size(t.dtype)
           m == (n + b - 1) \div b
<1>1. /\ len \in Nat /\ DOMAIN t.shape = 1..len
      /\ \A k \in 1..len : t.shape[k] \in Nat \ {0}
      /\ t.dtype \in File!GgmlDTypes
  BY DEF TensorInfos
<1>2. PICK g : Folds("product", g, t.shape, len) /\ n = g[1..len]
  BY <1>1, ElementsAre
<1>3. n \in Nat \ {0}
  <2> HIDE DEF n, len
  <2>1. \A k \in 0..len : g[1..k] \in Nat \ {0}
    BY <1>1, <1>2, ProductPositive
  <2> QED
    BY <1>1, <1>2, <2>1
<1>4. b \in Nat \ {0} /\ ts \in Nat \ {0}
  BY <1>1, BlockSizes
<1>5. File!nbytes(t) = m * ts
  BY DEF File!nbytes, File!nbytes_for
<1>6. m \in Nat /\ File!Written(t) = m * ts
  <2>1. File!Written(t) = File!Cardinality({k \in 0..(n - 1) : k % b = 0}) * ts
    BY DEF File!Written, File!BlocksStarted
  <2>2. \A S : File!Cardinality(S) = Cardinality(S)
    BY DEF File!Cardinality, Cardinality
  <2> HIDE DEF n, b, ts
  <2>3. m \in Nat /\ Cardinality({k \in 0..(n - 1) : k % b = 0}) = m
    BY <1>3, <1>4, MultiplesBelow
  <2> QED
    BY <2>1, <2>2, <2>3
<1>7. m \in Nat \ {0} /\ n <= b * m /\ b * m <= n + b - 1
  <2> HIDE DEF n, b, ts
  <2>1. n + b - 1 \in Nat
    BY <1>3, <1>4
  <2>2. b * m <= n + b - 1 /\ n + b - 1 < b * m + b
    BY <1>4, <2>1, Division
  <2>3. b * m \in Nat
    BY <1>4, <1>6, TimesMonotone
  <2>4. m # 0
    <3> SUFFICES ASSUME m = 0 PROVE FALSE
      OBVIOUS
    <3>1. b * m = 0
      BY <1>4
    <3> HIDE DEF m
    <3> QED
      BY <1>3, <1>4, <2>2, <3>1
  <2> DEFINE p == b * m
  <2>5. p \in Nat /\ n + b - 1 < p + b
    BY <2>2, <2>3
  <2> HIDE DEF p
  <2>6. n <= p
    BY <1>3, <1>4, <2>5
  <2> QED
    BY <1>6, <2>2, <2>4, <2>6 DEF p
<1>8. m * ts \in Nat \ {0}
  <2> HIDE DEF m, ts
  <2> QED
    BY <1>4, <1>7, SMT
<1>9. ASSUME Len(t.shape) = 2
      PROVE  /\ RowsBytes(t) \in Nat
             /\ ~File!Overreads(t.dtype) => RowsBytes(t) <= m * ts
             /\ File!Overreads(t.dtype) /\ t.shape[1] % 256 = 0 => m * ts < RowsBytes(t)
  <2> DEFINE x == t.shape[1]  y == t.shape[2]  kb == File!KernelBytes(t.dtype)
             c == 256 \div b
  <2>1. b * c = 256 /\ c \in Nat \ {0} /\ kb \in Nat \ {0}
    BY <1>1, BlockSizes
  <2>2. x \in Nat \ {0} /\ y \in Nat \ {0}
    BY <1>1, <1>9
  <2>3. n = x * y
    <3> HIDE DEF n
    <3>1. /\ g[1..0] = 1
          /\ \A k \in 1..len : g[1..k] = g[1..(k - 1)] * t.shape[k]
      BY <1>1, <1>2, ProductValues
    <3>2. g[1..1] = g[1..(1 - 1)] * t.shape[1] /\ g[1..2] = g[1..(2 - 1)] * t.shape[2]
      BY <1>9, <3>1
    <3>3. 1 - 1 = 0 /\ 2 - 1 = 1
      OBVIOUS
    <3>4. g[1..1] = 1 * x /\ g[1..2] = g[1..1] * y
      BY <3>1, <3>2, <3>3
    <3>5. 1 * x = x
      BY <2>2
    <3> QED
      BY <1>2, <1>9, <3>4, <3>5
  <2>4. File!Overreads(t.dtype) <=> c * ts < kb
    BY DEF File!Overreads
  <2>5. c * ts \in Nat
    <3> HIDE DEF c, ts
    <3> QED
      BY <1>4, <2>1, SMT
  <2>6. ~File!Overreads(t.dtype) => kb <= c * ts
    <3> DEFINE cts == c * ts
    <3> HIDE DEF cts, kb
    <3> QED
      BY <2>1, <2>4, <2>5 DEF cts
  <2> HIDE DEF x, y, n, b, c, m, ts, kb
  <2>7. b * m <= x * y + b - 1 /\ x * y <= b * m
    BY <1>7, <2>3
  <2>8. /\ y * (x \div 256) * kb \in Nat
        /\ kb <= c * ts => y * (x \div 256) * kb <= m * ts
        /\ c * ts < kb /\ x % 256 = 0 => m * ts < y * (x \div 256) * kb
    <3>1. WrittenAs(x, y, b, c, ts, kb, m)
      BY <1>4, <1>6, <2>1, <2>2, <2>7 DEF WrittenAs
    <3> QED
      BY <3>1, RowsAgainstBlocks
  <2>9. RowsBytes(t) = y * (x \div 256) * kb
    BY DEF RowsBytes, x, y, kb
  <2> QED
    BY <2>4, <2>6, <2>8, <2>9 DEF x
<1> HIDE DEF n, m, b
<1> QED
  BY <1>3, <1>5, <1>6, <1>8, <1>9 DEF n
-----------------------------------------------------------------------------
(* Bytes of the header and of the file.                                    *)

\* Folds of sequences that agree up to n agree there.
LEMMA FoldsAgree ==
  ASSUME NEW op, NEW s, NEW r, NEW n \in Nat, NEW m \in Nat, n <= m, NEW g, NEW h,
         Folds(op, g, s, n), Folds(op, h, r, m)
  PROVE  (\A k \in 1..n : s[k] = r[k]) => g[1..n] = h[1..n]
<1>0. Recurs(op, g, s, n) /\ Recurs(op, h, r, m)
  BY FoldValues
<1>1. /\ g[1..0] = FoldBase(op)
      /\ \A k \in 1..n : g[1..k] = FoldStep(op, g[1..(k - 1)], s[k])
  BY <1>0 DEF Recurs
<1>2. /\ h[1..0] = FoldBase(op)
      /\ \A k \in 1..m : h[1..k] = FoldStep(op, h[1..(k - 1)], r[k])
  BY <1>0 DEF Recurs
<1> DEFINE S == {k \in 0..n : g[1..k] = h[1..k]}
<1>3. 0 \in S
  BY <1>1, <1>2
<1> SUFFICES ASSUME \A k \in 1..n : s[k] = r[k] PROVE n \in S
  OBVIOUS
<1>4. ASSUME NEW k \in 0..(n - 1), k \in S PROVE k + 1 \in S
  <2> DEFINE j == k + 1
  <2>1. j \in 1..n /\ j \in 1..m /\ j - 1 = k /\ j \in 0..n
    OBVIOUS
  <2> HIDE DEF j
  <2>2. s[j] = r[j] /\ g[1..(j - 1)] = h[1..(j - 1)]
    BY <1>4, <2>1
  <2>3. g[1..j] = h[1..j]
    BY <1>1, <1>2, <2>1, <2>2
  <2> QED
    BY <2>1, <2>3 DEF j
<1> HIDE DEF S
<1>5. 0..n \subseteq S
  BY <1>3, <1>4, InductionTo
<1> QED
  BY <1>5

\* Of no read there are no bytes; each read adds its width.
LEMMA BytesNext ==
  ASSUME NEW f \in Contents
  PROVE  /\ File!BytesOf(f, 0) = 0
         /\ \A n \in 0..(Len(File!parse(f)) - 1) :
              /\ File!parse(f)[n + 1] \in AnyRead
              /\ File!BytesOf(f, n + 1) = File!BytesOf(f, n) + File!parse(f)[n + 1].width
<1> DEFINE R == File!parse(f)
           w(n) == [k \in 1..n |-> R[k].width]
<1>1. R \in Seq(AnyRead) /\ Len(R) \in Nat
  <2>1. R \in Seq(AnyRead)
    BY ParseTyped
  <2> QED
    BY <2>1
<1>2. File!BytesOf(f, 0) = 0
  <2>1. PICK g : Folds("sum", g, w(0), 0) /\ File!BytesOf(f, 0) = g[1..0]
    BY BytesAre
  <2> HIDE DEF w
  <2>2. g[1..0] = 0
    BY <2>1, SumValues
  <2> QED
    BY <2>1, <2>2
<1>3. ASSUME NEW n \in 0..(Len(R) - 1)
      PROVE  File!BytesOf(f, n + 1) = File!BytesOf(f, n) + R[n + 1].width
  <2> DEFINE m == n + 1
  <2>1. n \in Nat /\ m \in Nat /\ n <= m /\ m \in 1..m /\ m - 1 = n
    BY <1>1
  <2> HIDE DEF m, R
  <2>2. PICK g : Folds("sum", g, w(n), n) /\ File!BytesOf(f, n) = g[1..n]
    BY <2>1, BytesAre DEF R
  <2>3. PICK h : Folds("sum", h, w(m), m) /\ File!BytesOf(f, m) = h[1..m]
    BY <2>1, BytesAre DEF R
  <2>4. \A k \in 1..n : w(n)[k] = w(m)[k]
    BY <2>1
  <2>5. w(m)[m] = R[m].width
    BY <2>1
  <2> HIDE DEF w
  <2>6. g[1..n] = h[1..n]
    BY <2>1, <2>2, <2>3, <2>4, FoldsAgree
  <2>7. \A k \in 1..m : h[1..k] = h[1..(k - 1)] + w(m)[k]
    BY <2>1, <2>3, SumValues
  <2>8. h[1..m] = h[1..(m - 1)] + w(m)[m]
    BY <2>1, <2>7
  <2>9. File!BytesOf(f, m) = File!BytesOf(f, n) + R[m].width
    BY <2>1, <2>2, <2>3, <2>5, <2>6, <2>8
  <2> QED
    BY <2>9 DEF m
<1>4. ASSUME NEW n \in 0..(Len(R) - 1) PROVE R[n + 1] \in AnyRead
  BY <1>1
<1> HIDE DEF w
<1> QED
  BY <1>2, <1>3, <1>4

\* The bytes of some of the reads are at most the header's.
LEMMA BytesWithin ==
  ASSUME NEW f \in Contents, NEW n \in 0..Len(File!parse(f))
  PROVE  /\ File!BytesOf(f, n) \in Nat
         /\ File!HeaderBytes(f) \in Nat
         /\ File!BytesOf(f, n) <= File!HeaderBytes(f)
<1> DEFINE N == Len(File!parse(f))
           b(k) == File!BytesOf(f, k)
<1>1. N \in Nat
  <2>1. File!parse(f) \in Seq(AnyRead)
    BY ParseTyped
  <2> QED
    BY <2>1
<1>2. b(0) = 0 /\ \A k \in 0..(N - 1) : \E w \in Nat : b(k + 1) = b(k) + w
  <2>1. \A k \in 0..(N - 1) : /\ File!parse(f)[k + 1].width \in Nat
                              /\ b(k + 1) = b(k) + File!parse(f)[k + 1].width
    BY BytesNext DEF AnyRead
  <2>2. b(0) = 0
    BY BytesNext
  <2> HIDE DEF b, N
  <2> QED
    BY <2>1, <2>2
<1>3. File!HeaderBytes(f) = b(N)
  BY DEF File!HeaderBytes
<1> HIDE DEF b, N
<1> DEFINE S == {k \in 0..N : b(k) \in Nat /\ (k >= n => b(n) \in Nat /\ b(n) <= b(k))}
<1>5. n \in Nat /\ n <= N
  BY <1>1 DEF N
<1>6. 0 \in S
  <2>1. 0 >= n => n = 0
    BY <1>5
  <2> QED
    BY <1>1, <1>2, <2>1
<1>7. ASSUME NEW k \in 0..(N - 1), k \in S PROVE k + 1 \in S
  <2>1. PICK w \in Nat : b(k + 1) = b(k) + w
    BY <1>2
  <2>2. b(k) \in Nat /\ k + 1 \in 0..N
    BY <1>1, <1>7
  <2>3. CASE k >= n
    BY <1>7, <2>1, <2>2, <2>3
  <2>4. CASE ~(k >= n)
    <3>1. k + 1 >= n => k + 1 = n
      BY <1>1, <1>5, <2>4
    <3>2. b(k + 1) \in Nat
      BY <2>1, <2>2
    <3> QED
      BY <2>2, <3>1, <3>2
  <2> QED
    BY <2>3, <2>4
<1> HIDE DEF S
<1>8. 0..N \subseteq S
  BY <1>1, <1>6, <1>7, InductionTo
<1>9. n \in S /\ N \in S
  BY <1>1, <1>5, <1>8
<1> QED
  BY <1>3, <1>5, <1>9 DEF S, b

\* Of zero and some of n numbers one is the greatest.
LEMMA Greatest ==
  ASSUME NEW n \in Nat, NEW e \in [1..n -> Nat], NEW K \in SUBSET (1..n)
  PROVE  File!Max({0} \union {e[k] : k \in K}) \in Nat
<1> DEFINE E(m) == {0} \union {e[k] : k \in {k \in K : k <= m}}
           S == {m \in 0..n : \E x \in E(m) : \A y \in E(m) : x >= y}
<1>0. \A m \in 0..n : E(m) \subseteq Nat
  OBVIOUS
<1>1. 0 \in S
  <2>1. \A y \in E(0) : y = 0
    OBVIOUS
  <2> QED
    BY <2>1
<1>2. ASSUME NEW m \in 0..(n - 1), m \in S PROVE m + 1 \in S
  <2>1. PICK x \in E(m) : \A y \in E(m) : x >= y
    BY <1>2
  <2> DEFINE q == m + 1
  <2>2. q \in 1..n /\ q \in 0..n /\ m \in 0..n /\ \A k \in K : k <= q <=> k <= m \/ k = q
    OBVIOUS
  <2>3. x \in Nat /\ e[q] \in Nat
    BY <1>0, <2>1, <2>2
  <2>4. E(q) \subseteq E(m) \union {e[q]} /\ E(m) \subseteq E(q)
    BY <2>2
  <2>5. q \in K => e[q] \in E(q)
    BY <2>2
  <2>6. q \notin K => E(q) \subseteq E(m)
    BY <2>2
  <2> HIDE DEF q, E
  <2>7. \E z \in E(q) : \A y \in E(q) : z >= y
    <3>1. CASE q \notin K \/ x >= e[q]
      BY <2>1, <2>4, <2>6, <3>1
    <3>2. CASE q \in K /\ ~(x >= e[q])
      <4>1. e[q] \in E(q) /\ e[q] >= e[q] /\ \A y \in E(m) : y \in Nat /\ e[q] >= y
        BY <1>0, <2>1, <2>2, <2>3, <2>5, <3>2
      <4> QED
        BY <2>4, <4>1
    <3> QED
      BY <3>1, <3>2
  <2> QED
    BY <2>2, <2>7 DEF q
<1>3. 0..n \subseteq S
  <2> HIDE DEF S
  <2> QED
    BY <1>1, <1>2, InductionTo
<1>4. PICK x \in E(n) : \A y \in E(n) : x >= y
  <2>1. n \in S
    <3> HIDE DEF S
    <3> QED
      BY <1>3
  <2> HIDE DEF E
  <2> QED
    BY <2>1
<1>5. E(n) = {0} \union {e[k] : k \in K}
  OBVIOUS
<1>6. E(n) \subseteq Nat
  BY <1>0
<1> HIDE DEF E, S
<1>7. File!Max(E(n)) = x
  BY <1>4, <1>6, GreatestIs
<1> QED
  BY <1>4, <1>5, <1>6, <1>7

\* The next multiple of the alignment is a number.
LEMMA AlignedIs ==
  ASSUME NEW n \in Nat
  PROVE  File!Aligned(n) \in Nat
  BY SMT DEF File!Aligned, File!Alignment

\* A file has a number of bytes.
LEMMA FileBytesIs ==
  ASSUME NEW f \in Contents
  PROVE  File!FileBytes(f) \in Nat
<1> DEFINE n == Len(f.tensors)
           K == {k \in DOMAIN f.tensors : f.tensors[k].dtype # "unknown"}
           e == [k \in 1..n |-> IF k \in K THEN File!End(f.tensors[k]) ELSE 0]
<1>1. f.tensors \in Seq(TensorInfos)
  BY FileAssumption
<1>2. n \in Nat /\ DOMAIN f.tensors = 1..n /\ \A k \in 1..n : f.tensors[k] \in TensorInfos
  BY <1>1
<1>3. \A k \in K : File!End(f.tensors[k]) \in Nat
  <2> TAKE k \in K
  <2>1. f.tensors[k] \in TensorInfos /\ f.tensors[k].dtype # "unknown"
    BY <1>2
  <2>2. f.tensors[k].offset \in Nat
    BY <2>1 DEF TensorInfos
  <2>3. File!Written(f.tensors[k]) \in Nat
    BY <2>1, TensorSizes
  <2> QED
    BY <2>2, <2>3 DEF File!End
<1>4. K \in SUBSET (1..n)
  BY <1>2
<1> HIDE DEF n, K
<1>5. e \in [1..n -> Nat]
  BY <1>3
<1>6. {e[k] : k \in K} = {File!End(f.tensors[k]) : k \in K}
  BY <1>4
<1> HIDE DEF e
<1>7. File!Max({0} \union {e[k] : k \in K}) \in Nat
  BY <1>2, <1>4, <1>5, Greatest
<1>8. File!DataBytes(f) \in Nat
  BY <1>6, <1>7 DEF File!DataBytes, K
<1>9. File!Aligned(File!HeaderBytes(f)) \in Nat
  <2>1. 0 \in 0..Len(File!parse(f))
    <3>1. File!parse(f) \in Seq(AnyRead)
      BY ParseTyped
    <3> QED
      BY <3>1
  <2>2. File!HeaderBytes(f) \in Nat
    BY <2>1, BytesWithin
  <2> QED
    BY <2>2, AlignedIs
<1> QED
  BY <1>8, <1>9 DEF File!FileBytes
-----------------------------------------------------------------------------
(* The cursor: GgufFile.                                                   *)

\* Before the first read.
LEMMA FileInit == Init => (subject = "file" => File!CursorInv)
<1> SUFFICES ASSUME Init, subject = "file" PROVE File!CursorInv
  OBVIOUS
<1>1. File!Init
  BY DEF Init
<1> DEFINE R == File!parse(slot1)
<1>2. /\ slot1 \in Contents /\ slot3 = R /\ slot4 = 0 /\ slot7 = "parsing"
      /\ \E cut \in Cuts : cut <= File!FileBytes(slot1)
                           /\ slot2 = File!FileBytes(slot1) - cut
  BY <1>1 DEF File!Init
<1>3. slot2 \in Nat
  <2>1. PICK cut \in Cuts : cut <= File!FileBytes(slot1)
                            /\ slot2 = File!FileBytes(slot1) - cut
    BY <1>2
  <2>2. cut \in Nat /\ File!FileBytes(slot1) \in Nat
    BY <1>2, FileAssumption, FileBytesIs
  <2> QED
    BY <2>1, <2>2
<1>4. R \in Seq(AnyRead) /\ Len(R) \in Nat
  <2>1. R \in Seq(AnyRead)
    BY <1>2, ParseTyped
  <2> QED
    BY <2>1
<1>5. File!BytesOf(slot1, 0) = 0
  BY <1>2, BytesNext
<1> HIDE DEF R
<1>6. SubSeq(R, 0 + 1, Len(R)) = R
  BY <1>4, SubSeqFull
<1>7. File!CursorBehind(0)
  BY <1>2, <1>3, <1>5, <1>6 DEF File!CursorBehind, R
<1>8. 0 \in 0..Len(R)
  BY <1>4
<1> QED
  BY <1>2, <1>3, <1>7, <1>8 DEF File!CursorInv, R

\* A read moves the cursor behind one more, or ends the parsing.
LEMMA ReadKeeps ==
  ASSUME File!CursorInv, File!ReadNext
  PROVE  File!CursorInv'
<1> DEFINE R == File!parse(slot1)
           N == Len(R)
<1>1. PICK n \in 0..N : File!CursorBehind(n)
  BY DEF File!CursorInv
<1>2. /\ slot1 \in Contents /\ slot2 \in Nat
      /\ slot7 = "parsing" /\ slot3 # <<>>
      /\ slot3' = Tail(slot3) /\ slot1' = slot1 /\ slot2' = slot2
  BY DEF File!CursorInv, File!ReadNext
<1>3. R \in Seq(AnyRead) /\ N \in Nat
  <2>1. R \in Seq(AnyRead)
    BY <1>2, ParseTyped
  <2> QED
    BY <2>1
<1>4. /\ slot4 = File!BytesOf(slot1, n) /\ slot4 <= slot2
      /\ slot3 = SubSeq(R, n + 1, N)
      /\ \A k \in 1..n : R[k].ok
  BY <1>1, <1>2 DEF File!CursorBehind
<1>5. File!BytesOf(slot1, n) \in Nat
  BY <1>2, BytesWithin
<1> HIDE DEF R, N
<1> DEFINE m == n + 1
<1>6. m \in 1..N /\ m \in 0..N /\ N \in m..N /\ n \in 0..(N - 1)
  <2>1. n # N
    <3> SUFFICES ASSUME n = N PROVE FALSE
      OBVIOUS
    <3>1. N \in Int /\ n + 1 \in Int /\ N < n + 1
      BY <1>3
    <3>2. SubSeq(R, n + 1, N) = <<>>
      BY <3>1, SubSeqEmpty
    <3> QED
      BY <1>2, <1>4, <3>2
  <2> QED
    BY <1>3, <2>1
<1>7. Head(slot3) = R[m] /\ Tail(slot3) = SubSeq(R, m + 1, N)
  <2>1. m \in 1..Len(R) /\ N \in m..Len(R)
    BY <1>6 DEF N
  <2> HIDE DEF m
  <2>2. Head(SubSeq(R, m, N)) = R[m] /\ Tail(SubSeq(R, m, N)) = SubSeq(R, m + 1, N)
    BY <1>3, <2>1, HeadTailOfSubSeq
  <2> QED
    BY <1>4, <2>2 DEF m
<1>8. /\ R[m].width \in Nat
      /\ File!BytesOf(slot1, m) = slot4 + R[m].width
  <2>1. File!parse(slot1)[n + 1] \in AnyRead
    BY <1>2, <1>6, BytesNext DEF N, R
  <2>2. File!BytesOf(slot1, n + 1) = File!BytesOf(slot1, n) + File!parse(slot1)[n + 1].width
    BY <1>2, <1>6, BytesNext DEF N, R
  <2>3. R[m].width \in Nat
    BY <2>1 DEF AnyRead, R
  <2> QED
    BY <1>4, <2>2, <2>3 DEF R
<1> DEFINE w == R[m].width
<1>9. slot4 \in Nat /\ slot2 \in Nat /\ w \in Nat /\ Head(slot3).width = w
  BY <1>2, <1>4, <1>5, <1>7, <1>8
<1> HIDE DEF m, w
<1>10. CASE slot4 + Head(slot3).width > slot2
  <2>1. slot7' = "eof" /\ slot4' = slot4
    BY <1>10 DEF File!ReadNext
  <2>2. File!BytesOf(slot1, m) \in Nat /\ File!BytesOf(slot1, m) <= File!HeaderBytes(slot1)
    BY <1>2, <1>6, BytesWithin DEF N, R
  <2>3. File!HeaderBytes(slot1) \in Nat
    BY <1>2, <1>6, BytesWithin DEF N, R
  <2>4. slot2 < File!HeaderBytes(slot1)
    <3>1. File!BytesOf(slot1, m) = slot4 + w
      BY <1>8 DEF w
    <3> QED
      BY <1>9, <1>10, <2>2, <2>3, <3>1
  <2>5. File!CursorBehind(n)'
    <3>1. slot4' = File!BytesOf(slot1', n) /\ slot4' <= slot2'
      BY <1>2, <1>4, <2>1
    <3> QED
      BY <2>1, <3>1 DEF File!CursorBehind
  <2> QED
    BY <1>2, <2>1, <2>4, <2>5 DEF File!CursorInv, N, R
<1>11. CASE ~(slot4 + Head(slot3).width > slot2)
  <2>1. /\ slot4' = slot4 + R[m].width
        /\ slot7' = IF R[m].ok THEN "parsing" ELSE "invalid"
    BY <1>7, <1>11 DEF File!ReadNext
  <2>2. slot4' <= slot2
    <3>1. slot4' = slot4 + w
      BY <2>1 DEF w
    <3> QED
      BY <1>9, <1>11, <3>1
  <2>3. slot7' # "ok" /\ slot7' \in {"parsing", "invalid"} /\ (slot7' = "parsing" => R[m].ok)
    BY <2>1
  <2>4. R[m].ok => \A k \in 1..m : R[k].ok
    <3>1. \A k \in 1..m : k = m \/ k \in 1..n
      BY <1>6 DEF m
    <3> QED
      BY <1>4, <3>1
  <2>5. slot3' = SubSeq(R, m + 1, N)
    BY <1>2, <1>7
  <2>6. slot4' = File!BytesOf(slot1, m)
    BY <1>8, <2>1
  <2>7. File!CursorBehind(m)'
    <3>1. slot7' \in {"parsing", "ok"} => \A k \in 1..m : R[k].ok
      BY <2>3, <2>4
    <3>2. slot4' = File!BytesOf(slot1', m)
      BY <1>2, <2>6
    <3>3. slot4' <= slot2'
      BY <1>2, <2>2
    <3>4. slot7' = "parsing" => slot3' = SubSeq(File!parse(slot1'), m + 1, Len(File!parse(slot1')))
      BY <1>2, <2>5 DEF R, N
    <3>5. slot7' \in {"parsing", "ok"} => \A k \in 1..m : File!parse(slot1')[k].ok
      BY <1>2, <3>1 DEF R
    <3>6. slot7' # "ok"
      BY <2>3
    <3> QED
      BY <3>2, <3>3, <3>4, <3>5, <3>6 DEF File!CursorBehind
  <2> QED
    BY <1>2, <1>6, <2>3, <2>7 DEF File!CursorInv, N, R
<1> QED
  BY <1>10, <1>11

\* At the end of the header the offsets become those in the map.
LEMMA RelocateKeeps ==
  ASSUME File!CursorInv, File!Relocate
  PROVE  File!CursorInv'
<1> DEFINE R == File!parse(slot1)
           N == Len(R)
<1>1. PICK n \in 0..N : File!CursorBehind(n)
  BY DEF File!CursorInv
<1>2. /\ slot1 \in Contents /\ slot2 \in Nat
      /\ slot7 = "parsing" /\ slot3 = <<>> /\ slot7' = "ok"
      /\ slot5' = File!Aligned(slot4)
      /\ slot6' = [k \in DOMAIN slot1.tensors |-> slot1.tensors[k].offset + slot5']
      /\ slot1' = slot1 /\ slot2' = slot2 /\ slot3' = slot3 /\ slot4' = slot4
  BY DEF File!CursorInv, File!Relocate
<1>3. R \in Seq(AnyRead) /\ N \in Nat
  <2>1. R \in Seq(AnyRead)
    BY <1>2, ParseTyped
  <2> QED
    BY <2>1
<1>4. /\ slot4 = File!BytesOf(slot1, n) /\ slot4 <= slot2
      /\ slot3 = SubSeq(R, n + 1, N)
      /\ \A k \in 1..n : R[k].ok
  BY <1>1, <1>2 DEF File!CursorBehind
<1>5. n = N
  <2> SUFFICES ASSUME n # N PROVE FALSE
    OBVIOUS
  <2> HIDE DEF R, N
  <2>1. n + 1 \in Int /\ N \in Int /\ n + 1 <= N /\ N - (n + 1) + 1 # 0
    BY <1>3
  <2>2. \A i \in (n + 1)..N : R[i] \in AnyRead
    BY <1>3 DEF N
  <2>3. Len(SubSeq(R, n + 1, N)) = N - (n + 1) + 1
    BY <2>1, <2>2, SubSeqProperties
  <2>4. Len(<<>>) = 0
    OBVIOUS
  <2> QED
    BY <1>2, <1>4, <2>1, <2>3, <2>4
<1>6. File!CursorBehind(n)'
  <2>1. slot6' = [k \in DOMAIN slot1'.tensors |->
                    slot1'.tensors[k].offset + File!Aligned(slot4')]
    BY <1>2
  <2>2. slot4' = File!BytesOf(slot1', n) /\ slot4' <= slot2'
    BY <1>2, <1>4
  <2>3. \A k \in 1..n : File!parse(slot1')[k].ok
    BY <1>2, <1>4
  <2>4. n = Len(File!parse(slot1'))
    BY <1>2, <1>5
  <2>5. slot7' # "parsing"
    BY <1>2
  <2> HIDE DEF R, N
  <2> QED
    BY <2>1, <2>2, <2>3, <2>4, <2>5 DEF File!CursorBehind
<1> QED
  BY <1>2, <1>6 DEF File!CursorInv

\* The inductive step of GgufFile.
LEMMA FileStep ==
  ASSUME subject = "file" => File!CursorInv, [Next]_vars
  PROVE  (subject = "file" => File!CursorInv)'
<1> SUFFICES ASSUME subject' = "file" PROVE File!CursorInv'
  OBVIOUS
<1>1. CASE subject = "file" /\ File!Next
  <2>1. File!CursorInv
    BY <1>1
  <2> QED
    BY <1>1, <2>1, ReadKeeps, RelocateKeeps DEF File!Next
<1>2. CASE UNCHANGED vars
  <2>1. File!CursorInv
    BY <1>2 DEF vars
  <2>2. /\ slot1' = slot1 /\ slot2' = slot2 /\ slot3' = slot3 /\ slot4' = slot4
        /\ slot6' = slot6 /\ slot7' = slot7
    BY <1>2 DEF vars
  <2>3. \A n : File!CursorBehind(n) => File!CursorBehind(n)'
    BY <2>2 DEF File!CursorBehind
  <2> QED
    BY <2>1, <2>2, <2>3 DEF File!CursorInv
<1> QED
  BY <1>1, <1>2 DEF Next, vars

\* The range tensor_raw_bytes gives, from where it begins and where it ends.
LEMMA RawBytes ==
  ASSUME NEW k, NEW begin, NEW end, slot6[k] = begin,
         end = begin + File!nbytes(slot1.tensors[k])
  PROVE  File!tensor_raw_bytes(k) =
           IF begin <= end /\ end <= slot2 THEN begin..(end - 1) ELSE {}
  BY DEF File!tensor_raw_bytes, File!InMap

\* Whatever the file has in its metadata and however many tensors of whatever
\* sizes, and wherever it was cut: the parser stays inside it, fails exactly when
\* some of the header is missing, and gives a tensor's bytes exactly when they are
\* all there, the ones that were written; the rows linear.rs walks are among them,
\* or, in forward_gemvs, end past them where the type has smaller blocks
\* (src/swamp-gguf/src/mmap.rs, src/swamp-engine/src/linear.rs).
THEOREM EveryTensorInFile == Spec => []TensorBytesInFile
<1>1. Spec => [](subject = "file" => File!CursorInv)
  BY FileInit, FileStep, PTL DEF Spec
<1>2. (subject = "file" => File!CursorInv) => TensorBytesInFile
  <2> SUFFICES ASSUME File!CursorInv PROVE File!TensorBytesInFile
    BY DEF TensorBytesInFile
  <2> DEFINE N == Len(File!parse(slot1))
  <2>1. PICK n \in 0..N : File!CursorBehind(n)
    BY DEF File!CursorInv
  <2>2. /\ slot1 \in Contents /\ slot2 \in Nat /\ slot4 <= slot2
        /\ slot4 = File!BytesOf(slot1, n)
        /\ slot7 = "eof" => slot2 < File!HeaderBytes(slot1)
    BY <2>1 DEF File!CursorInv, File!CursorBehind
  <2>3. slot7 = "ok" => slot4 = File!HeaderBytes(slot1)
    BY <2>1, <2>2 DEF File!CursorBehind, File!HeaderBytes
  <2>4. File!HeaderBytes(slot1) \in Nat /\ slot4 \in Nat
    BY <2>2, BytesWithin
  <2>5. slot7 \in {"eof", "ok"} => (slot7 = "eof" <=> slot2 < File!HeaderBytes(slot1))
    <3>1. slot7 = "ok" => ~(slot2 < File!HeaderBytes(slot1))
      BY <2>2, <2>3, <2>4
    <3> QED
      BY <2>2, <3>1
  <2>6. ASSUME slot7 = "ok", NEW k \in DOMAIN slot6
        PROVE  LET t == slot1.tensors[k]
                   begin == File!Aligned(File!HeaderBytes(slot1)) + t.offset
               IN  /\ File!tensor_raw_bytes(k) # {} <=> begin + File!Written(t) <= slot2
                   /\ File!tensor_raw_bytes(k) # {} =>
                        /\ File!tensor_raw_bytes(k) = begin..(begin + File!Written(t) - 1)
                        /\ Len(t.shape) = 2 => File!RowsGranted(k)
    <3> DEFINE t == slot1.tensors[k]
               begin == File!Aligned(File!HeaderBytes(slot1)) + t.offset
               rows == RowsBytes(t)
               bytes == File!nbytes(t)
    <3>1. /\ slot6 = [j \in DOMAIN slot1.tensors |->
                        slot1.tensors[j].offset + File!Aligned(slot4)]
          /\ \A j \in 1..N : File!parse(slot1)[j].ok
      BY <2>1, <2>6 DEF File!CursorBehind
    <3>2. k \in DOMAIN slot1.tensors /\ slot6[k] = t.offset + File!Aligned(slot4)
      BY <2>6, <3>1
    <3>3. t \in TensorInfos /\ t.dtype # "unknown"
      <4>1. slot1.tensors \in Seq(TensorInfos)
        BY <2>2, FileAssumption
      <4>2. t \in TensorInfos
        BY <3>2, <4>1
      <4> QED
        BY <2>2, <3>1, <3>2, <4>2, ParseTyped
    <3>4. t.offset \in Nat
      BY <3>3 DEF TensorInfos
    <3>5. slot6[k] = begin /\ begin \in Nat
      <4>1. File!Aligned(slot4) \in Nat
        BY <2>4, AlignedIs
      <4> QED
        BY <2>3, <2>6, <3>2, <3>4, <4>1
    <3>6. /\ bytes \in Nat \ {0} /\ File!Written(t) = bytes
          /\ Len(t.shape) = 2 =>
               /\ rows \in Nat
               /\ ~File!Overreads(t.dtype) => rows <= bytes
               /\ File!Overreads(t.dtype) /\ t.shape[1] % 256 = 0 => bytes < rows
      BY <3>3, TensorSizes
    <3> DEFINE end == begin + bytes
    <3>7. File!tensor_raw_bytes(k) =
            IF begin <= end /\ end <= slot2 THEN begin..(end - 1) ELSE {}
      <4>1. slot6[k] = begin /\ end = begin + File!nbytes(slot1.tensors[k])
        BY <3>5
      <4> HIDE DEF begin, end
      <4> QED
        BY <4>1, RawBytes
    <3>8. File!RowsOfLinear(k) = begin..(begin + rows - 1)
      BY <3>5 DEF File!RowsOfLinear, RowsBytes
    <3> HIDE DEF begin, rows, bytes
    <3>9. /\ end \in Nat /\ begin <= end /\ begin \in begin..(end - 1)
          /\ end = begin + File!Written(t)
          /\ rows \in Nat /\ rows <= bytes =>
               begin..(begin + rows - 1) \subseteq begin..(end - 1)
          /\ rows \in Nat /\ bytes < rows =>
               end \in begin..(begin + rows - 1) /\ end \notin begin..(end - 1)
      BY <3>5, <3>6
    <3>10. ASSUME File!tensor_raw_bytes(k) = begin..(end - 1), Len(t.shape) = 2
           PROVE  File!RowsGranted(k)
      <4> DEFINE within == File!RowsOfLinear(k) \subseteq File!tensor_raw_bytes(k)
      <4>1. ~File!Overreads(t.dtype) => within
        BY <3>6, <3>8, <3>9, <3>10
      <4>2. File!Overreads(t.dtype) /\ t.shape[1] % 256 = 0 => ~within
        BY <3>6, <3>8, <3>9, <3>10
      <4>3. t.dtype \in {"Q4_K", "Q6_K"} => ~File!Overreads(t.dtype)
        BY <3>3, BlockSizes DEF TensorInfos
      <4>4. \A fn \in DOMAIN File!Walked : fn # "forward_gemvs" =>
              File!Walked[fn] \subseteq {"Q4_K", "Q6_K"}
        BY DEF File!Walked
      <4> HIDE DEF within
      <4>5. \A fn \in DOMAIN File!Walked : t.dtype \in File!Walked[fn] =>
              IF fn = "forward_gemvs" /\ File!Overreads(t.dtype)
              THEN t.shape[1] % 256 = 0 => ~within
              ELSE within
        BY <4>1, <4>2, <4>3, <4>4
      <4> QED
        BY <4>5 DEF File!RowsGranted, t, within
    <3> HIDE DEF t, end
    <3>11. /\ File!tensor_raw_bytes(k) # {} <=> end <= slot2
           /\ File!tensor_raw_bytes(k) # {} =>
                /\ File!tensor_raw_bytes(k) = begin..(end - 1)
                /\ Len(t.shape) = 2 => File!RowsGranted(k)
      <4>1. CASE end <= slot2
        <5>1. File!tensor_raw_bytes(k) = begin..(end - 1)
          BY <3>7, <3>9, <4>1
        <5>2. begin..(end - 1) # {}
          BY <3>9
        <5> QED
          BY <3>6, <3>9, <3>10, <4>1, <5>1, <5>2
      <4>2. CASE ~(end <= slot2)
        <5>1. File!tensor_raw_bytes(k) = {}
          BY <3>7, <4>2
        <5> QED
          BY <4>2, <5>1
      <4> QED
        BY <4>1, <4>2
    <3>12. /\ File!tensor_raw_bytes(k) # {} <=> begin + File!Written(t) <= slot2
           /\ File!tensor_raw_bytes(k) # {} =>
                /\ File!tensor_raw_bytes(k) = begin..(begin + File!Written(t) - 1)
                /\ Len(t.shape) = 2 => File!RowsGranted(k)
      <4>0. begin \in Nat /\ File!Written(t) \in Nat
        BY <3>5, <3>6
      <4>1. begin + File!Written(t) - 1 = end - 1
        BY <3>9, <4>0
      <4>2. begin..(begin + File!Written(t) - 1) = begin..(end - 1)
        BY <4>1
      <4>3. begin + File!Written(t) <= slot2 <=> end <= slot2
        BY <3>9
      <4> QED
        BY <3>11, <4>2, <4>3
    <3> QED
      BY <3>12 DEF begin, t
  <2> QED
    BY <2>2, <2>5, <2>6 DEF File!TensorBytesInFile
<1> QED
  BY <1>1, <1>2, PTL
-----------------------------------------------------------------------------
(* The readers of a block: BlockFormats.                                   *)

\* A block is walked product by product: the sum has those of the iterations
\* that are over.
ReaderInv ==
    /\ slot1 \in Readers
    /\ slot2 \in Nat /\ slot2 <= Formats!Iterations[slot1]
    /\ slot3 = UNION {Formats!Products(k) : k \in 0..(slot2 - 1)}

\* Before the first iteration.
LEMMA FormatsInit == Init => (subject = "formats" => ReaderInv)
<1> SUFFICES ASSUME Formats!Init PROVE ReaderInv
  BY DEF Init
<1>1. slot1 \in Readers /\ slot2 = 0 /\ slot3 = {}
  BY DEF Formats!Init
<1>2. Formats!Iterations[slot1] \in Nat
  BY <1>1, FormatsAssumption DEF Formats!Iterations
<1>3. \A k : k \notin 0..(0 - 1)
  OBVIOUS
<1> QED
  BY <1>1, <1>2, <1>3 DEF ReaderInv

\* An iteration adds its products.
LEMMA FormatsStep ==
  ASSUME subject = "formats" => ReaderInv, [Next]_vars
  PROVE  (subject = "formats" => ReaderInv)'
<1> SUFFICES ASSUME subject' = "formats" PROVE ReaderInv'
  OBVIOUS
<1>1. CASE subject = "formats" /\ Formats!Multiply
  <2>1. /\ slot1 \in Readers /\ slot2 \in Nat /\ slot2 < Formats!Iterations[slot1]
        /\ slot3' = slot3 \union Formats!Products(slot2)
        /\ slot2' = slot2 + 1 /\ slot1' = slot1
        /\ slot3 = UNION {Formats!Products(k) : k \in 0..(slot2 - 1)}
    BY <1>1 DEF ReaderInv, Formats!Multiply
  <2>2. Formats!Iterations[slot1] \in Nat
    BY <2>1, FormatsAssumption DEF Formats!Iterations
  <2>3. 0..(slot2' - 1) = 0..(slot2 - 1) \union {slot2}
    BY <2>1
  <2>4. \A k : Formats!Products(k)' = Formats!Products(k)
    BY <2>1 DEF Formats!Products
  <2>5. slot3' = UNION {Formats!Products(k) : k \in 0..(slot2' - 1)}
    BY <2>1, <2>3
  <2>6. slot3' = UNION {Formats!Products(k)' : k \in 0..(slot2' - 1)}
    BY <2>4, <2>5
  <2>7. slot2' \in Nat /\ slot2' <= Formats!Iterations[slot1]
    BY <2>1, <2>2
  <2>8. Formats!Iterations' = Formats!Iterations
    BY DEF Formats!Iterations
  <2> QED
    BY <2>1, <2>6, <2>7, <2>8 DEF ReaderInv
<1>2. CASE UNCHANGED vars
  <2>1. ReaderInv /\ slot1' = slot1 /\ slot2' = slot2 /\ slot3' = slot3
    BY <1>2 DEF vars
  <2>2. \A k : Formats!Products(k)' = Formats!Products(k)
    BY <2>1 DEF Formats!Products
  <2>3. UNION {Formats!Products(k)' : k \in 0..(slot2' - 1)}
          = UNION {Formats!Products(k) : k \in 0..(slot2 - 1)}
    BY <2>1, <2>2
  <2>4. Formats!Iterations' = Formats!Iterations
    BY DEF Formats!Iterations
  <2> QED
    BY <2>1, <2>3, <2>4 DEF ReaderInv
<1> QED
  BY <1>1, <1>2 DEF Next, vars

\* Element i of a pair of sub-blocks of Q4_K is element i % 32 of one of them.
LEMMA PairsAlike ==
  ASSUME NEW pair \in 0..3
  PROVE  Formats!q4k_scalar(pair) = Formats!dequant_q4k(pair)
<1> DEFINE S(i) == Formats!Product(pair * 64 + i,
                     Formats!Nibble(16 + pair * 32 + (i % 32), i >= 32), {},
                     pair * 2 + i \div 32, FALSE)
           D(odd, j) == Formats!Product((pair * 2 + odd) * 32 + j,
                     Formats!Nibble(16 + pair * 32 + j, odd = 1), {},
                     pair * 2 + odd, FALSE)
<1>1. /\ Formats!q4k_scalar(pair) = {S(i) : i \in 0..63}
      /\ Formats!dequant_q4k(pair) = {D(odd, j) : odd \in 0..1, j \in 0..31}
  BY DEF Formats!q4k_scalar, Formats!dequant_q4k
<1>2. ASSUME NEW odd \in 0..1, NEW j \in 0..31 PROVE S(odd * 32 + j) = D(odd, j)
  <2> DEFINE i == odd * 32 + j
  <2>1. i \in 0..63 /\ i % 32 = j /\ i \div 32 = odd
    OBVIOUS
  <2>2. i >= 32 <=> odd = 1
    OBVIOUS
  <2>3. pair * 64 + i = (pair * 2 + odd) * 32 + j
    OBVIOUS
  <2> HIDE DEF i
  <2>4. Formats!Nibble(16 + pair * 32 + (i % 32), i >= 32)
          = Formats!Nibble(16 + pair * 32 + j, odd = 1)
    BY <2>1, <2>2 DEF Formats!Nibble
  <2> QED
    BY <2>1, <2>3, <2>4 DEF i, Formats!Product
<1>3. ASSUME NEW i \in 0..63
      PROVE  i \div 32 \in 0..1 /\ i % 32 \in 0..31 /\ i = (i \div 32) * 32 + (i % 32)
  OBVIOUS
<1>4. ASSUME NEW odd \in 0..1, NEW j \in 0..31 PROVE odd * 32 + j \in 0..63
  OBVIOUS
<1> HIDE DEF S, D
<1>5. ASSUME NEW r \in Formats!q4k_scalar(pair) PROVE r \in Formats!dequant_q4k(pair)
  <2>1. PICK i \in 0..63 : r = S(i)
    BY <1>1
  <2> DEFINE odd == i \div 32  j == i % 32
  <2>2. odd \in 0..1 /\ j \in 0..31 /\ i = odd * 32 + j
    BY <1>3
  <2> HIDE DEF odd, j
  <2>3. r = D(odd, j)
    BY <1>2, <2>1, <2>2
  <2> QED
    BY <1>1, <2>2, <2>3
<1>6. ASSUME NEW r \in Formats!dequant_q4k(pair) PROVE r \in Formats!q4k_scalar(pair)
  <2>1. PICK odd \in 0..1, j \in 0..31 : r = D(odd, j)
    BY <1>1
  <2> DEFINE i == odd * 32 + j
  <2>2. i \in 0..63 /\ r = S(i)
    BY <1>2, <1>4, <2>1
  <2> HIDE DEF i
  <2> QED
    BY <1>1, <2>2
<1> QED
  BY <1>5, <1>6

\* A product without the sign of its scale.
LEMMA DropSign ==
  ASSUME NEW x, NEW low, NEW high, NEW scale
  PROVE  Formats!SignDropped(Formats!Product(x, low, high, scale, TRUE))
           = Formats!Product(x, low, high, scale, FALSE)
<1>1. ASSUME NEW s, NEW t
      PROVE  [[x |-> x, low |-> low, high |-> high, scale |-> scale, signed |-> s]
                EXCEPT !.signed = t]
               = [x |-> x, low |-> low, high |-> high, scale |-> scale, signed |-> t]
  OBVIOUS
<1> QED
  BY <1>1, Zenon DEF Formats!SignDropped, Formats!Product

\* The elements a kernel for Q6_K takes at l of a half of the block, with the
\* sign of their scales or without; and those of the whole block.
SixAt(half, l, signed) == Formats!q6k_at(half, l, signed)
SixOf(half, signed) == UNION {SixAt(half, l, signed) : l \in 0..31}
Six(signed) == UNION {SixOf(half, signed) : half \in 0..1}

\* What the block has.
LEMMA InSix ==
  ASSUME NEW r, NEW signed
  PROVE  r \in Six(signed) <=> \E half \in 0..1 : \E l \in 0..31 : r \in SixAt(half, l, signed)
<1>1. \A half : r \in SixOf(half, signed) <=> \E l \in 0..31 : r \in SixAt(half, l, signed)
  BY DEF SixOf
<1>2. r \in Six(signed) <=> \E half \in 0..1 : r \in SixOf(half, signed)
  BY DEF Six
<1> QED
  BY <1>1, <1>2

\* Without their signs the elements are those with them, the signs dropped.
LEMMA SignsDropped ==
  ASSUME NEW half, NEW l
  PROVE  SixAt(half, l, FALSE) = {Formats!SignDropped(p) : p \in SixAt(half, l, TRUE)}
<1> DEFINE x(q) == half * 128 + l + 32 * q
           low(q) == Formats!Nibble(half * 64 + l + 32 * (q % 2), q >= 2)
           high(q) == Formats!Bits(128 + half * 32 + l, 2 * q, 2)
           scale(q) == half * 8 + l \div 16 + 2 * q
           P(q, s) == Formats!Product(x(q), low(q), high(q), scale(q), s)
<1>1. /\ SixAt(half, l, FALSE) = {P(q, FALSE) : q \in 0..3}
      /\ SixAt(half, l, TRUE) = {P(q, TRUE) : q \in 0..3}
  BY DEF SixAt, Formats!q6k_at
<1>2. ASSUME NEW q PROVE Formats!SignDropped(P(q, TRUE)) = P(q, FALSE)
  <2> HIDE DEF x, low, high, scale
  <2> QED
    BY DropSign
<1> HIDE DEF P
<1> DEFINE T == {P(q, TRUE) : q \in 0..3}
<1>3. ASSUME NEW q \in 0..3 PROVE P(q, FALSE) \in {Formats!SignDropped(p) : p \in T}
  BY <1>2
<1>4. ASSUME NEW p \in T PROVE Formats!SignDropped(p) \in {P(q, FALSE) : q \in 0..3}
  BY <1>2
<1> QED
  BY <1>1, <1>3, <1>4

\* Of the whole block.
LEMMA AllSignsDropped == Six(FALSE) = {Formats!SignDropped(p) : p \in Six(TRUE)}
<1>1. ASSUME NEW p \in Six(TRUE) PROVE Formats!SignDropped(p) \in Six(FALSE)
  <2>1. PICK half \in 0..1 : \E l \in 0..31 : p \in SixAt(half, l, TRUE)
    BY InSix
  <2>2. PICK l \in 0..31 : p \in SixAt(half, l, TRUE)
    BY <2>1
  <2>3. Formats!SignDropped(p) \in SixAt(half, l, FALSE)
    BY <2>2, SignsDropped
  <2> QED
    BY <2>3, InSix
<1>2. ASSUME NEW r \in Six(FALSE) PROVE \E p \in Six(TRUE) : r = Formats!SignDropped(p)
  <2>1. PICK half \in 0..1 : \E l \in 0..31 : r \in SixAt(half, l, FALSE)
    BY InSix
  <2>2. PICK l \in 0..31 : r \in SixAt(half, l, FALSE)
    BY <2>1
  <2>3. PICK p \in SixAt(half, l, TRUE) : r = Formats!SignDropped(p)
    <3>1. r \in {Formats!SignDropped(p) : p \in SixAt(half, l, TRUE)}
      BY <2>2, SignsDropped
    <3> QED
      BY <3>1
  <2>4. p \in Six(TRUE)
    BY <2>3, InSix
  <2> QED
    BY <2>3, <2>4
<1> QED
  BY <1>1, <1>2

\* The scalar kernel takes one l of a half at a time.
LEMMA ScalarTakesAll == UNION {Formats!q6k_scalar(k) : k \in 0..63} = Six(TRUE)
<1>1. \A k : Formats!q6k_scalar(k) = SixAt(k \div 32, k % 32, TRUE)
  BY DEF Formats!q6k_scalar, SixAt
<1>2. ASSUME NEW k \in 0..63 PROVE k \div 32 \in 0..1 /\ k % 32 \in 0..31
  OBVIOUS
<1>3. ASSUME NEW half \in 0..1, NEW l \in 0..31
      PROVE  /\ half * 32 + l \in 0..63
             /\ (half * 32 + l) \div 32 = half /\ (half * 32 + l) % 32 = l
  OBVIOUS
<1>4. ASSUME NEW k \in 0..63, NEW r \in Formats!q6k_scalar(k) PROVE r \in Six(TRUE)
  BY <1>1, <1>2, InSix
<1>5. ASSUME NEW half \in 0..1, NEW l \in 0..31, NEW r \in SixAt(half, l, TRUE)
      PROVE  \E k \in 0..63 : r \in Formats!q6k_scalar(k)
  <2> DEFINE k == half * 32 + l
  <2>1. k \in 0..63 /\ k \div 32 = half /\ k % 32 = l
    BY <1>3
  <2> HIDE DEF k
  <2>2. r \in Formats!q6k_scalar(k)
    BY <1>1, <2>1
  <2> QED
    BY <2>1, <2>2
<1>6. \A r : r \in Six(TRUE) <=> \E k \in 0..63 : r \in Formats!q6k_scalar(k)
  BY <1>4, <1>5, InSix
<1> QED
  BY <1>6

\* The AVX-512 kernel takes sixteen.
LEMMA Avx512TakesAll == UNION {Formats!q6k_avx512(k) : k \in 0..3} = Six(FALSE)
<1> DEFINE at(k, l) == SixAt(k \div 2, (k % 2) * 16 + l, FALSE)
<1>1. \A k, r : r \in Formats!q6k_avx512(k) <=> \E l \in 0..15 : r \in at(k, l)
  BY DEF Formats!q6k_avx512, SixAt
<1>2. ASSUME NEW k \in 0..3, NEW l \in 0..15
      PROVE  k \div 2 \in 0..1 /\ (k % 2) * 16 + l \in 0..31
  OBVIOUS
<1>3. ASSUME NEW half \in 0..1, NEW l \in 0..31
      PROVE  \E k \in 0..3 : \E m \in 0..15 : k \div 2 = half /\ (k % 2) * 16 + m = l
  <2> DEFINE k == half * 2 + l \div 16  m == l % 16
  <2>1. k \in 0..3 /\ m \in 0..15
    OBVIOUS
  <2>2. k \div 2 = half /\ (k % 2) * 16 + m = l
    OBVIOUS
  <2> HIDE DEF k, m
  <2> QED
    BY <2>1, <2>2
<1>4. ASSUME NEW k \in 0..3, NEW r \in Formats!q6k_avx512(k) PROVE r \in Six(FALSE)
  BY <1>1, <1>2, InSix
<1>5. ASSUME NEW half \in 0..1, NEW l \in 0..31, NEW r \in SixAt(half, l, FALSE)
      PROVE  \E k \in 0..3 : r \in Formats!q6k_avx512(k)
  <2>1. PICK k \in 0..3 : \E m \in 0..15 : k \div 2 = half /\ (k % 2) * 16 + m = l
    BY <1>3
  <2>2. PICK m \in 0..15 : k \div 2 = half /\ (k % 2) * 16 + m = l
    BY <2>1
  <2> QED
    BY <1>1, <2>2
<1> HIDE DEF at
<1>6. \A r : r \in Six(FALSE) <=> \E k \in 0..3 : r \in Formats!q6k_avx512(k)
  BY <1>4, <1>5, InSix
<1> QED
  BY <1>6

\* The AVX2 kernel takes eight, in two groups of each sixteen.
LEMMA Avx2TakesAll == UNION {Formats!q6k_avx2(k) : k \in 0..7} = Six(FALSE)
<1> DEFINE at(k, l) == SixAt(k \div 4, ((k \div 2) % 2) * 16 + (k % 2) * 8 + l, FALSE)
<1>1. \A k, r : r \in Formats!q6k_avx2(k) <=> \E l \in 0..7 : r \in at(k, l)
  BY DEF Formats!q6k_avx2, SixAt
<1>2. ASSUME NEW k \in 0..7, NEW l \in 0..7
      PROVE  /\ k \div 4 \in 0..1
             /\ ((k \div 2) % 2) * 16 + (k % 2) * 8 + l \in 0..31
  OBVIOUS
<1>3. ASSUME NEW half \in 0..1, NEW l \in 0..31
      PROVE  \E k \in 0..7 : \E m \in 0..7 :
                /\ k \div 4 = half
                /\ ((k \div 2) % 2) * 16 + (k % 2) * 8 + m = l
  <2> DEFINE k == half * 4 + l \div 8  m == l % 8
  <2>1. k \in 0..7 /\ m \in 0..7
    OBVIOUS
  <2>2. k \div 4 = half
    OBVIOUS
  <2>3. ((k \div 2) % 2) * 16 + (k % 2) * 8 + m = l
    <3> DEFINE g == l \div 8
    <3>1. g \in 0..3 /\ k = half * 4 + g /\ l = g * 8 + m
      OBVIOUS
    <3> HIDE DEF g, k, m
    <3>2. (k \div 2) % 2 = g \div 2 /\ k % 2 = g % 2
      BY <3>1
    <3>3. (g \div 2) * 16 + (g % 2) * 8 = g * 8
      BY <3>1
    <3> QED
      BY <2>1, <3>1, <3>2, <3>3
  <2> HIDE DEF k, m
  <2> QED
    BY <2>1, <2>2, <2>3
<1>4. ASSUME NEW k \in 0..7, NEW r \in Formats!q6k_avx2(k) PROVE r \in Six(FALSE)
  <2>1. PICK l \in 0..7 : r \in at(k, l)
    BY <1>1
  <2> DEFINE half == k \div 4  m == ((k \div 2) % 2) * 16 + (k % 2) * 8 + l
  <2>2. half \in 0..1 /\ m \in 0..31
    BY <1>2
  <2>3. r \in SixAt(half, m, FALSE)
    BY <2>1
  <2> HIDE DEF half, m
  <2> QED
    BY <2>2, <2>3, InSix
<1>5. ASSUME NEW half \in 0..1, NEW l \in 0..31, NEW r \in SixAt(half, l, FALSE)
      PROVE  \E k \in 0..7 : r \in Formats!q6k_avx2(k)
  <2>1. PICK k \in 0..7 : \E m \in 0..7 :
           k \div 4 = half /\ ((k \div 2) % 2) * 16 + (k % 2) * 8 + m = l
    BY <1>3
  <2>2. PICK m \in 0..7 : k \div 4 = half /\ ((k \div 2) % 2) * 16 + (k % 2) * 8 + m = l
    BY <2>1
  <2> QED
    BY <1>1, <2>2
<1> HIDE DEF at
<1>6. \A r : r \in Six(FALSE) <=> \E k \in 0..7 : r \in Formats!q6k_avx2(k)
  BY <1>4, <1>5, InSix
<1> QED
  BY <1>6

\* What dequant_scalar unpacks.
LEMMA UnpackedTakesAll == Formats!UnpackedQ6K = Six(TRUE)
<1>1. \A half : Formats!dequant_q6k(half) = SixOf(half, TRUE)
  BY DEF Formats!dequant_q6k, SixOf, SixAt
<1> QED
  BY <1>1 DEF Formats!UnpackedQ6K, Six

\* When the walk of a block is over, its products are those of all iterations.
LEMMA AllProducts ==
  ASSUME ReaderInv, Formats!Done
  PROVE  slot3 = UNION {Formats!Products(k) : k \in 0..(Formats!Iterations[slot1] - 1)}
BY DEF ReaderInv, Formats!Done

\* Each kernel, when it is over.
LEMMA ReadersAlike ==
  ASSUME ReaderInv
  PROVE  Formats!KernelsReadAlike
<1> SUFFICES ASSUME Formats!Done
             PROVE  /\ slot1 = "q4k_scalar" => slot3 = Formats!UnpackedQ4K
                    /\ slot1 \in Formats!FusedQ6K =>
                         slot3 = IF slot1 = "q6k_scalar" THEN Formats!UnpackedQ6K
                                 ELSE {Formats!SignDropped(p) : p \in Formats!UnpackedQ6K}
  BY DEF Formats!KernelsReadAlike
<1>0. {Formats!SignDropped(p) : p \in Formats!UnpackedQ6K} = Six(FALSE)
  BY UnpackedTakesAll, AllSignsDropped
<1>1. CASE slot1 = "q4k_scalar"
  <2>1. Formats!Iterations[slot1] = 4 /\ slot1 \notin Formats!FusedQ6K
    BY <1>1 DEF Formats!Iterations, Formats!FusedQ6K
  <2>2. \A k : Formats!Products(k) = Formats!q4k_scalar(k)
    BY <1>1 DEF Formats!Products
  <2>3. slot3 = UNION {Formats!q4k_scalar(k) : k \in 0..3}
    BY <2>1, <2>2, AllProducts
  <2> QED
    BY <2>1, <2>3, PairsAlike DEF Formats!UnpackedQ4K
<1>2. CASE slot1 = "q6k_scalar"
  <2>1. Formats!Iterations[slot1] = 64
    BY <1>2 DEF Formats!Iterations
  <2>2. \A k : Formats!Products(k) = Formats!q6k_scalar(k)
    BY <1>2 DEF Formats!Products
  <2>3. slot3 = Six(TRUE)
    <3>1. slot3 = UNION {Formats!Products(k) : k \in 0..63}
      BY <2>1, AllProducts
    <3>2. slot3 = UNION {Formats!q6k_scalar(k) : k \in 0..63}
      BY <2>2, <3>1
    <3> QED
      BY <3>2, ScalarTakesAll
  <2> QED
    BY <1>2, <2>3, UnpackedTakesAll
<1>3. CASE slot1 = "q6k_avx512"
  <2>1. Formats!Iterations[slot1] = 4
    BY <1>3 DEF Formats!Iterations
  <2>2. \A k : Formats!Products(k) = Formats!q6k_avx512(k)
    BY <1>3 DEF Formats!Products
  <2>3. slot3 = Six(FALSE)
    <3>1. slot3 = UNION {Formats!Products(k) : k \in 0..3}
      BY <2>1, AllProducts
    <3>2. slot3 = UNION {Formats!q6k_avx512(k) : k \in 0..3}
      BY <2>2, <3>1
    <3> QED
      BY <3>2, Avx512TakesAll
  <2> QED
    BY <1>0, <1>3, <2>3
<1>4. CASE slot1 = "q6k_avx2"
  <2>1. Formats!Iterations[slot1] = 8
    BY <1>4 DEF Formats!Iterations
  <2>2. \A k : Formats!Products(k) = Formats!q6k_avx2(k)
    BY <1>4 DEF Formats!Products
  <2>3. slot3 = Six(FALSE)
    <3>1. slot3 = UNION {Formats!Products(k) : k \in 0..7}
      BY <2>1, AllProducts
    <3>2. slot3 = UNION {Formats!q6k_avx2(k) : k \in 0..7}
      BY <2>2, <3>1
    <3> QED
      BY <3>2, Avx2TakesAll
  <2> QED
    BY <1>0, <1>4, <2>3
<1> QED
  BY <1>1, <1>2, <1>3, <1>4 DEF Formats!FusedQ6K

\* KernelsReadAlike of MCWeights: the kernels for Q6_K, scalar, AVX2 and
\* AVX-512, and the scalar one for Q4_K, multiply each element by the weight and
\* the scale that unpacking the block gives it; only the vector kernels for Q6_K
\* lose the sign of the scale.
THEOREM KernelsAlike == Spec => []KernelsReadAlike
<1>1. (subject = "formats" => ReaderInv) => KernelsReadAlike
  BY ReadersAlike DEF KernelsReadAlike
<1> QED
  BY <1>1, FormatsInit, FormatsStep, PTL DEF Spec
-----------------------------------------------------------------------------
(* What a reader leaves of a block: every bit, once (BlockFormats).        *)

\* How a format lays out a block: so many elements, of low and high bits each, in
\* the bytes first..last.
IsShape(F) ==
    /\ F.size \in Nat /\ F.size > 0 /\ F.low \in Nat /\ F.high \in Nat
    /\ F.first \in Nat /\ F.last \in Nat /\ F.first <= F.last
    /\ (F.last - F.first + 1) * 8 = F.size * (F.low + F.high)

Elements(F) == 0..(F.size - 1)
BlockBytes(F) == F.first..F.last
BlockBits(F) == BlockBytes(F) \X (0..7)

\* The six that have readers.
Q4K == [size |-> 256, low |-> 4, high |-> 0, first |-> 16, last |-> 143]
Q5K == [size |-> 256, low |-> 4, high |-> 1, first |-> 16, last |-> 175]
Q6K == [size |-> 256, low |-> 4, high |-> 2, first |-> 0, last |-> 191]
Q3K == [size |-> 256, low |-> 2, high |-> 1, first |-> 0, last |-> 95]
Q2K == [size |-> 256, low |-> 2, high |-> 0, first |-> 16, last |-> 79]
Q40 == [size |-> 32, low |-> 4, high |-> 0, first |-> 2, last |-> 17]

\* Their bytes hold as many bits as their weights have.
LEMMA BlockShapes ==
  IsShape(Q4K) /\ IsShape(Q5K) /\ IsShape(Q6K) /\ IsShape(Q3K) /\ IsShape(Q2K) /\ IsShape(Q40)
BY DEF IsShape, Q4K, Q5K, Q6K, Q3K, Q2K, Q40

\* The bits of a weight.
BitsOf(p) == p.low \union p.high

\* p is a weight of element e.
Weighs(p, e, F) ==
    /\ p.x = e
    /\ IsFiniteSet(BitsOf(p)) /\ Cardinality(BitsOf(p)) = F.low + F.high
    /\ BitsOf(p) \subseteq BlockBits(F)

\* S has the weights W, one for each element and nothing else; each is of its
\* element; every bit of the block is a bit of one.
Numbered(S, W, F) == \A p : p \in S <=> \E e \in Elements(F) : p = W[e]
AllWeigh(W, F) == \A e \in Elements(F) : Weighs(W[e], e, F)
AllBitsTaken(W, F) ==
    \A b \in BlockBytes(F) : \A t \in 0..7 : \E e \in Elements(F) : <<b, t>> \in BitsOf(W[e])

\* What BitsReadOnce asks of the products of a block of size elements.
ReadOnce(S, size) ==
    /\ {p.x : p \in S} = 0..(size - 1)
    /\ Cardinality(S) = size
    /\ LET each == {p.low \union p.high : p \in S}
       IN  Cardinality(UNION each) = size * Cardinality(CHOOSE bits \in each : TRUE)

\* The bits of a byte are eight.
LEMMA EightBits == IsFiniteSet(0..7) /\ Cardinality(0..7) = 8
<1>1. 0 \in Int /\ 7 \in Int /\ 7 - 0 + 1 = 8 /\ ~(0 > 7)
  OBVIOUS
<1> QED
  BY <1>1, FS_Interval

\* A format's block has as many bits as its weights.
LEMMA BlockCounted ==
  ASSUME NEW F, IsShape(F)
  PROVE  Cardinality(BlockBits(F)) = F.size * (F.low + F.high)
<1> DEFINE A == BlockBytes(F)  B == 0..7
<1>1. F.first \in Int /\ F.last \in Int /\ ~(F.first > F.last)
  BY DEF IsShape
<1>2. IsFiniteSet(A) /\ Cardinality(A) = F.last - F.first + 1
  BY <1>1, FS_Interval DEF BlockBytes
<1>3. IsFiniteSet(B) /\ Cardinality(B) = 8
  BY EightBits
<1> HIDE DEF A, B
<1>4. Cardinality(A \X B) = Cardinality(A) * Cardinality(B)
  BY <1>2, <1>3, FS_Product
<1>5. Cardinality(A \X B) = (F.last - F.first + 1) * 8
  BY <1>2, <1>3, <1>4
<1> QED
  BY <1>5 DEF A, B, BlockBits, IsShape

\* Products that are numbered by their elements are as many as the elements.
LEMMA OneEach ==
  ASSUME NEW F, IsShape(F), NEW W, NEW S, Numbered(S, W, F), AllWeigh(W, F)
  PROVE  {p.x : p \in S} = Elements(F) /\ Cardinality(S) = F.size
<1> DEFINE N == Elements(F)  G == [e \in N |-> W[e]]
<1>1. IsFiniteSet(N) /\ Cardinality(N) = F.size
  <2>1. 0 \in Int /\ F.size - 1 \in Int /\ ~(0 > F.size - 1) /\ (F.size - 1) - 0 + 1 = F.size
    BY DEF IsShape
  <2> QED
    BY <2>1, FS_Interval DEF Elements
<1>2. /\ \A e \in N : W[e] \in S /\ W[e].x = e
      /\ \A p \in S : \E e \in N : p = W[e]
  BY DEF Numbered, AllWeigh, Weighs
<1> HIDE DEF N
<1>3. \A d, e \in N : W[d] = W[e] => d = e
  BY <1>2
<1>4. G \in Injection(N, S) /\ G \in Surjection(N, S)
  BY <1>2, <1>3 DEF Injection, Surjection, IsInjective
<1>5. Cardinality(S) = F.size
  BY <1>1, <1>4, FS_Bijection DEF Bijection, ExistsBijection
<1>6. ASSUME NEW n \in N PROVE n \in {p.x : p \in S}
  BY <1>2
<1>7. ASSUME NEW n \in {p.x : p \in S} PROVE n \in N
  BY <1>2
<1>8. {p.x : p \in S} = N
  BY <1>6, <1>7
<1> QED
  BY <1>5, <1>8 DEF N

\* Weights that are one for each element, of as many bits each, and have between
\* them the bits of a block that holds no more, have each bit once.
LEMMA WholeIsReadOnce ==
  ASSUME NEW F, IsShape(F), NEW W, NEW S,
         Numbered(S, W, F), AllWeigh(W, F), AllBitsTaken(W, F)
  PROVE  ReadOnce(S, F.size)
<1> DEFINE each == {p.low \union p.high : p \in S}
           any == CHOOSE bits \in each : TRUE
           R == BlockBits(F)
<1>1. {p.x : p \in S} = Elements(F) /\ Cardinality(S) = F.size
  BY OneEach
<1>2. ASSUME NEW p \in S
      PROVE  Cardinality(BitsOf(p)) = F.low + F.high /\ BitsOf(p) \subseteq R
  <2>1. PICK e \in Elements(F) : p = W[e]
    BY DEF Numbered
  <2> QED
    BY <2>1 DEF AllWeigh, Weighs
<1>3. ASSUME NEW r \in R PROVE \E p \in S : r \in BitsOf(p)
  <2>1. PICK b \in BlockBytes(F), t \in 0..7 : r = <<b, t>>
    BY DEF BlockBits
  <2>2. PICK e \in Elements(F) : <<b, t>> \in BitsOf(W[e])
    BY DEF AllBitsTaken
  <2>3. W[e] \in S
    BY DEF Numbered
  <2> QED
    BY <2>1, <2>2, <2>3
<1>4. each = {BitsOf(p) : p \in S}
  BY DEF BitsOf
<1> HIDE DEF each, R
<1>5. UNION each = R
  <2>1. ASSUME NEW r \in R PROVE r \in UNION each
    BY <1>3, <1>4
  <2>2. ASSUME NEW r \in UNION each PROVE r \in R
    BY <1>2, <1>4
  <2> QED
    BY <2>1, <2>2
<1>6. Cardinality(any) = F.low + F.high
  <2>1. 0 \in Elements(F)
    BY DEF Elements, IsShape
  <2>2. W[0] \in S
    BY <2>1 DEF Numbered
  <2>3. any \in each
    BY <1>4, <2>2
  <2> HIDE DEF any
  <2>4. PICK p \in S : any = BitsOf(p)
    BY <1>4, <2>3
  <2> QED
    BY <1>2, <2>4
<1> HIDE DEF any
<1>7. Cardinality(UNION each) = F.size * Cardinality(any)
  BY <1>5, <1>6, BlockCounted DEF R
<1> QED
  BY <1>1, <1>7 DEF ReadOnce, Elements, each, any

\* Bits of one byte.
LEMMA InBits ==
  ASSUME NEW byte \in Int, NEW from \in Int, NEW count \in Int, NEW t \in Int,
         from <= t, t < from + count
  PROVE  <<byte, t>> \in Formats!Bits(byte, from, count)
BY DEF Formats!Bits

\* Their number.
LEMMA BitsCounted ==
  ASSUME NEW byte, NEW from \in Int, NEW count \in Nat
  PROVE  /\ IsFiniteSet(Formats!Bits(byte, from, count))
         /\ Cardinality(Formats!Bits(byte, from, count)) = count
<1> DEFINE T == from..(from + count - 1)
<1>1. IsFiniteSet(T) /\ Cardinality(T) = count
  BY FS_Interval
<1>2. IsFiniteSet({byte}) /\ Cardinality({byte}) = 1
  BY FS_Singleton
<1> HIDE DEF T
<1>3. IsFiniteSet({byte} \X T) /\ Cardinality({byte} \X T) = 1 * count
  BY <1>1, <1>2, FS_Product
<1> QED
  BY <1>3 DEF T, Formats!Bits

\* The bits s are count neighbours in the byte.
InByte(s, byte, count) ==
    \E from \in Int : 0 <= from /\ from + count <= 8 /\ s = Formats!Bits(byte, from, count)

\* A nibble is such a part.
LEMMA NibblePart ==
  ASSUME NEW byte, NEW upper
  PROVE  InByte(Formats!Nibble(byte, upper), byte, 4)
<1> DEFINE from == IF upper THEN 4 ELSE 0
<1>1. from \in Int /\ 0 <= from /\ from + 4 <= 8
  OBVIOUS
<1>2. Formats!Nibble(byte, upper) = Formats!Bits(byte, from, 4)
  BY DEF Formats!Nibble
<1> HIDE DEF from
<1> QED
  BY <1>1, <1>2 DEF InByte

\* Which of its bits are in it.
LEMMA InNibble ==
  ASSUME NEW byte \in Int, NEW upper, upper \in BOOLEAN, NEW t \in 0..7, upper <=> t >= 4
  PROVE  <<byte, t>> \in Formats!Nibble(byte, upper)
<1> DEFINE from == IF upper THEN 4 ELSE 0
<1>1. from \in Int /\ from <= t /\ t < from + 4
  OBVIOUS
<1>2. Formats!Nibble(byte, upper) = Formats!Bits(byte, from, 4)
  BY DEF Formats!Nibble
<1> HIDE DEF from
<1> QED
  BY <1>1, <1>2, InBits

\* A part of a byte of the block is among the block's bits.
LEMMA PartInBlock ==
  ASSUME NEW F, NEW s, NEW byte \in BlockBytes(F), NEW count \in Nat, InByte(s, byte, count)
  PROVE  IsFiniteSet(s) /\ Cardinality(s) = count /\ s \subseteq BlockBits(F)
<1>1. PICK from \in Int : /\ 0 <= from /\ from + count <= 8
                          /\ s = Formats!Bits(byte, from, count)
  BY DEF InByte
<1>2. from..(from + count - 1) \subseteq 0..7
  BY <1>1
<1>3. s \subseteq BlockBits(F)
  BY <1>1, <1>2 DEF BlockBits, Formats!Bits
<1>4. IsFiniteSet(s) /\ Cardinality(s) = count
  BY <1>1, BitsCounted
<1> QED
  BY <1>3, <1>4

\* A weight of one part.
LEMMA OnePart ==
  ASSUME NEW F, IsShape(F), F.high = 0, NEW p, NEW e, NEW byte \in BlockBytes(F),
         p.x = e, InByte(p.low, byte, F.low), p.high = {}
  PROVE  Weighs(p, e, F)
<1>1. F.low \in Nat /\ F.low + F.high = F.low
  BY DEF IsShape
<1>2. BitsOf(p) = p.low
  BY DEF BitsOf
<1> QED
  BY <1>1, <1>2, PartInBlock DEF Weighs

\* A weight of two parts, of two bytes.
LEMMA TwoParts ==
  ASSUME NEW F, IsShape(F), NEW p, NEW e,
         NEW byte \in BlockBytes(F), NEW other \in BlockBytes(F), byte # other,
         p.x = e, InByte(p.low, byte, F.low), InByte(p.high, other, F.high)
  PROVE  Weighs(p, e, F)
<1> DEFINE L == p.low  H == p.high
<1>1. F.low \in Nat /\ F.high \in Nat
  BY DEF IsShape
<1>2. /\ IsFiniteSet(L) /\ Cardinality(L) = F.low /\ L \subseteq BlockBits(F)
      /\ IsFiniteSet(H) /\ Cardinality(H) = F.high /\ H \subseteq BlockBits(F)
  BY <1>1, PartInBlock
<1>3. L \intersect H = {}
  BY DEF InByte, Formats!Bits
<1> HIDE DEF L, H
<1>4. IsFiniteSet(L \union H) /\ Cardinality(L \union H) = F.low + F.high - Cardinality({})
  BY <1>2, <1>3, FS_Union
<1>5. Cardinality({}) = 0
  BY FS_EmptySet
<1>6. Cardinality(L \union H) = F.low + F.high
  BY <1>1, <1>4, <1>5
<1> QED
  BY <1>2, <1>4, <1>6 DEF Weighs, BitsOf, L, H

\* Element e of a block of Q4_K as the readers of the halves of sub-blocks find it.
HalfWeights ==
    [e \in Elements(Q4K) |->
       Formats!Product(e, Formats!Nibble(16 + (e \div 32) * 16 + (e % 16),
                                         (e % 32) \div 16 = 1),
                       {}, e \div 32, FALSE)]

\* The halves of the eight sub-blocks.
LEMMA HalvesByElement ==
  Numbered(UNION {Formats!Halves(sb) : sb \in 0..7}, HalfWeights, Q4K)
<1> DEFINE P(sb, half, k) ==
             Formats!Product(sb * 32 + half * 16 + k,
               Formats!Nibble(16 + sb * 16 + k, half = 1), {}, sb, FALSE)
           S == UNION {Formats!Halves(sb) : sb \in 0..7}
<1>1. \A sb : Formats!Halves(sb) = {P(sb, half, k) : half \in 0..1, k \in 0..15}
  BY DEF Formats!Halves
<1>2. ASSUME NEW sb \in 0..7, NEW half \in 0..1, NEW k \in 0..15
      PROVE  \E e \in Elements(Q4K) : P(sb, half, k) = HalfWeights[e]
  <2> DEFINE e == sb * 32 + half * 16 + k
  <2>1. e \in 0..255 /\ e \div 32 = sb /\ e % 16 = k /\ (e % 32) \div 16 = half
    OBVIOUS
  <2>2. P(sb, half, k) = Formats!Product(e, Formats!Nibble(16 + sb * 16 + k, half = 1), {},
                                         sb, FALSE)
    OBVIOUS
  <2> HIDE DEF e, P
  <2>3. e \in Elements(Q4K)
    BY <2>1 DEF Elements, Q4K
  <2>4. P(sb, half, k) = HalfWeights[e]
    BY <2>1, <2>2, <2>3 DEF HalfWeights
  <2> QED
    BY <2>3, <2>4
<1>3. ASSUME NEW e \in Elements(Q4K)
      PROVE  \E sb \in 0..7 : HalfWeights[e] \in Formats!Halves(sb)
  <2> DEFINE sb == e \div 32  half == (e % 32) \div 16  k == e % 16
  <2>1. sb \in 0..7 /\ half \in 0..1 /\ k \in 0..15 /\ e = sb * 32 + half * 16 + k
    BY DEF Elements, Q4K
  <2>2. P(sb, half, k) = Formats!Product(e, Formats!Nibble(16 + sb * 16 + k, half = 1), {},
                                         sb, FALSE)
    BY <2>1
  <2>3. P(sb, half, k) = HalfWeights[e]
    BY <2>2 DEF HalfWeights
  <2> HIDE DEF sb, half, k, P
  <2>4. HalfWeights[e] \in Formats!Halves(sb)
    BY <1>1, <2>1, <2>3
  <2> QED
    BY <2>1, <2>4
<1> HIDE DEF P
<1>4. ASSUME NEW p \in S PROVE \E e \in Elements(Q4K) : p = HalfWeights[e]
  <2>1. PICK sb \in 0..7 : p \in Formats!Halves(sb)
    OBVIOUS
  <2>2. PICK half \in 0..1, k \in 0..15 : p = P(sb, half, k)
    BY <1>1, <2>1
  <2> QED
    BY <1>2, <2>2
<1>5. ASSUME NEW e \in Elements(Q4K) PROVE HalfWeights[e] \in S
  BY <1>3
<1> HIDE DEF S
<1>6. Numbered(S, HalfWeights, Q4K)
  BY <1>4, <1>5 DEF Numbered
<1> QED
  BY <1>6 DEF S

\* Each weight of a sub-block is four bits.
LEMMA HalvesWeigh == AllWeigh(HalfWeights, Q4K)
<1> SUFFICES ASSUME NEW e \in Elements(Q4K) PROVE Weighs(HalfWeights[e], e, Q4K)
  BY DEF AllWeigh
<1>1. e \in 0..255
  BY DEF Elements, Q4K
<1>2. Weighs(HalfWeights[e], e, Q4K)
  <2> DEFINE byte == 16 + (e \div 32) * 16 + (e % 16)
             low == Formats!Nibble(16 + (e \div 32) * 16 + (e % 16), (e % 32) \div 16 = 1)
             scale == e \div 32
  <2>1. HalfWeights[e] = Formats!Product(e, low, {}, scale, FALSE)
    BY DEF HalfWeights
  <2>2. byte \in BlockBytes(Q4K)
    BY <1>1 DEF BlockBytes, Q4K
  <2>3. InByte(low, byte, Q4K.low)
    BY NibblePart DEF Q4K
  <2>4. Q4K.high = 0
    BY DEF Q4K
  <2> HIDE DEF byte, low, scale
  <2>5. HalfWeights[e].x = e /\ HalfWeights[e].low = low /\ HalfWeights[e].high = {}
    BY <2>1 DEF Formats!Product
  <2> QED
    BY <2>2, <2>3, <2>4, <2>5, BlockShapes, OnePart
<1> QED
  BY <1>2

\* Between them they have the 128 bytes of nibbles.
LEMMA HalvesTaken == AllBitsTaken(HalfWeights, Q4K)
<1> SUFFICES ASSUME NEW b \in BlockBytes(Q4K), NEW t \in 0..7
             PROVE  \E e \in Elements(Q4K) : <<b, t>> \in BitsOf(HalfWeights[e])
  BY DEF AllBitsTaken
<1>1. b \in 16..143
  BY DEF BlockBytes, Q4K
<1>2. \E e \in Elements(Q4K) : <<b, t>> \in BitsOf(HalfWeights[e])
  <2> DEFINE sb == (b - 16) \div 16
             k == (b - 16) % 16
             half == t \div 4
             e == sb * 32 + half * 16 + k
  <2>1. sb \in 0..7 /\ k \in 0..15 /\ half \in 0..1 /\ b = 16 + sb * 16 + k
        /\ half * 4 <= t /\ t < half * 4 + 4
    BY <1>1
  <2> HIDE DEF sb, k, half
  <2>2. e \in 0..255 /\ e \div 32 = sb /\ e % 16 = k /\ (e % 32) \div 16 = half
    BY <2>1
  <2> HIDE DEF e
  <2>3. e \in Elements(Q4K)
    BY <2>2 DEF Elements, Q4K
  <2> DEFINE low == Formats!Nibble(16 + (e \div 32) * 16 + (e % 16), (e % 32) \div 16 = 1)
             high == {}
             scale == e \div 32
  <2>4. HalfWeights[e] = Formats!Product(e, low, high, scale, FALSE)
    BY <2>3 DEF HalfWeights
  <2>5. <<b, t>> \in low
    <3> DEFINE byte == 16 + (e \div 32) * 16 + (e % 16)  upper == (e % 32) \div 16 = 1
    <3>1. byte = b /\ byte \in Int /\ upper \in BOOLEAN /\ (upper <=> t >= 4)
      BY <1>1, <2>1, <2>2
    <3> HIDE DEF byte, upper
    <3>2. <<byte, t>> \in Formats!Nibble(byte, upper)
      BY <3>1, InNibble
    <3> QED
      BY <3>1, <3>2 DEF byte, upper
  <2> HIDE DEF low, high, scale
  <2>6. HalfWeights[e].low = low /\ HalfWeights[e].high = high
    BY <2>4 DEF Formats!Product
  <2> QED
    BY <2>3, <2>5, <2>6 DEF BitsOf
<1> QED
  BY <1>2

\* Element e as dequant_scalar and the scalar kernel find it.
PairWeights ==
    [e \in Elements(Q4K) |->
       Formats!Product(e, Formats!Nibble(16 + (e \div 64) * 32 + ((e % 64) % 32), e % 64 >= 32),
                       {}, (e \div 64) * 2 + (e % 64) \div 32, FALSE)]

\* The elements of the four pairs of sub-blocks.
LEMMA PairsByElement ==
  Numbered(UNION {Formats!q4k_scalar(pair) : pair \in 0..3}, PairWeights, Q4K)
<1> DEFINE P(pair, i) == Formats!Product(pair * 64 + i,
                                         Formats!Nibble(16 + pair * 32 + (i % 32), i >= 32),
                                        {}, pair * 2 + i \div 32, FALSE)
           S == UNION {Formats!q4k_scalar(pair) : pair \in 0..3}
<1>1. \A pair : Formats!q4k_scalar(pair) = {P(pair, i) : i \in 0..63}
  BY DEF Formats!q4k_scalar
<1>2. ASSUME NEW pair \in 0..3, NEW i \in 0..63
      PROVE  \E e \in Elements(Q4K) : P(pair, i) = PairWeights[e]
  <2> DEFINE e == pair * 64 + i
  <2>1. e \in 0..255 /\ e \div 64 = pair /\ e % 64 = i
    OBVIOUS
  <2>2. P(pair, i) = Formats!Product(e, Formats!Nibble(16 + pair * 32 + (i % 32), i >= 32),
                                   {}, pair * 2 + i \div 32, FALSE)
    OBVIOUS
  <2> HIDE DEF e, P
  <2>3. e \in Elements(Q4K)
    BY <2>1 DEF Elements, Q4K
  <2>4. P(pair, i) = PairWeights[e]
    BY <2>1, <2>2, <2>3 DEF PairWeights
  <2> QED
    BY <2>3, <2>4
<1>3. ASSUME NEW e \in Elements(Q4K)
      PROVE  \E pair \in 0..3 : PairWeights[e] \in Formats!q4k_scalar(pair)
  <2> DEFINE pair == e \div 64  i == e % 64
  <2>1. pair \in 0..3 /\ i \in 0..63 /\ e = pair * 64 + i
    BY DEF Elements, Q4K
  <2>2. P(pair, i) = Formats!Product(e, Formats!Nibble(16 + pair * 32 + (i % 32), i >= 32),
                                   {}, pair * 2 + i \div 32, FALSE)
    BY <2>1
  <2>3. P(pair, i) = PairWeights[e]
    BY <2>2 DEF PairWeights
  <2> HIDE DEF pair, i, P
  <2>4. PairWeights[e] \in Formats!q4k_scalar(pair)
    BY <1>1, <2>1, <2>3
  <2> QED
    BY <2>1, <2>4
<1> HIDE DEF P
<1>4. ASSUME NEW p \in S PROVE \E e \in Elements(Q4K) : p = PairWeights[e]
  <2>1. PICK pair \in 0..3 : p \in Formats!q4k_scalar(pair)
    OBVIOUS
  <2>2. PICK i \in 0..63 : p = P(pair, i)
    BY <1>1, <2>1
  <2> QED
    BY <1>2, <2>2
<1>5. ASSUME NEW e \in Elements(Q4K) PROVE PairWeights[e] \in S
  BY <1>3
<1> HIDE DEF S
<1>6. Numbered(S, PairWeights, Q4K)
  BY <1>4, <1>5 DEF Numbered
<1> QED
  BY <1>6 DEF S

\* Each weight of a pair is four bits.
LEMMA PairsWeigh == AllWeigh(PairWeights, Q4K)
<1> SUFFICES ASSUME NEW e \in Elements(Q4K) PROVE Weighs(PairWeights[e], e, Q4K)
  BY DEF AllWeigh
<1>1. e \in 0..255
  BY DEF Elements, Q4K
<1>2. Weighs(PairWeights[e], e, Q4K)
  <2> DEFINE byte == 16 + (e \div 64) * 32 + ((e % 64) % 32)
             low == Formats!Nibble(16 + (e \div 64) * 32 + ((e % 64) % 32), e % 64 >= 32)
             scale == (e \div 64) * 2 + (e % 64) \div 32
  <2>1. PairWeights[e] = Formats!Product(e, low, {}, scale, FALSE)
    BY DEF PairWeights
  <2>2. byte \in BlockBytes(Q4K)
    BY <1>1 DEF BlockBytes, Q4K
  <2>3. InByte(low, byte, Q4K.low)
    BY NibblePart DEF Q4K
  <2>4. Q4K.high = 0
    BY DEF Q4K
  <2> HIDE DEF byte, low, scale
  <2>5. PairWeights[e].x = e /\ PairWeights[e].low = low /\ PairWeights[e].high = {}
    BY <2>1 DEF Formats!Product
  <2> QED
    BY <2>2, <2>3, <2>4, <2>5, BlockShapes, OnePart
<1> QED
  BY <1>2

\* Between them they have the 128 bytes of nibbles.
LEMMA PairsTaken == AllBitsTaken(PairWeights, Q4K)
<1> SUFFICES ASSUME NEW b \in BlockBytes(Q4K), NEW t \in 0..7
             PROVE  \E e \in Elements(Q4K) : <<b, t>> \in BitsOf(PairWeights[e])
  BY DEF AllBitsTaken
<1>1. b \in 16..143
  BY DEF BlockBytes, Q4K
<1>2. \E e \in Elements(Q4K) : <<b, t>> \in BitsOf(PairWeights[e])
  <2> DEFINE pair == (b - 16) \div 32
             k == (b - 16) % 32
             half == t \div 4
             e == pair * 64 + half * 32 + k
  <2>1. pair \in 0..3 /\ k \in 0..31 /\ half \in 0..1 /\ b = 16 + pair * 32 + k
        /\ half * 4 <= t /\ t < half * 4 + 4
    BY <1>1
  <2> HIDE DEF pair, k, half
  <2>2. e \in 0..255 /\ e \div 64 = pair /\ (e % 64) % 32 = k /\ (e % 64 >= 32 <=> half = 1)
    BY <2>1
  <2> HIDE DEF e
  <2>3. e \in Elements(Q4K)
    BY <2>2 DEF Elements, Q4K
  <2> DEFINE low == Formats!Nibble(16 + (e \div 64) * 32 + ((e % 64) % 32), e % 64 >= 32)
             high == {}
             scale == (e \div 64) * 2 + (e % 64) \div 32
  <2>4. PairWeights[e] = Formats!Product(e, low, high, scale, FALSE)
    BY <2>3 DEF PairWeights
  <2>5. <<b, t>> \in low
    <3> DEFINE byte == 16 + (e \div 64) * 32 + ((e % 64) % 32)  upper == e % 64 >= 32
    <3>1. byte = b /\ byte \in Int /\ upper \in BOOLEAN /\ (upper <=> t >= 4)
      BY <1>1, <2>1, <2>2
    <3> HIDE DEF byte, upper
    <3>2. <<byte, t>> \in Formats!Nibble(byte, upper)
      BY <3>1, InNibble
    <3> QED
      BY <3>1, <3>2 DEF byte, upper
  <2> HIDE DEF low, high, scale
  <2>6. PairWeights[e].low = low /\ PairWeights[e].high = high
    BY <2>4 DEF Formats!Product
  <2> QED
    BY <2>3, <2>5, <2>6 DEF BitsOf
<1> QED
  BY <1>2

\* Element e of a block of Q5_K.
FiveWeights ==
    [e \in Elements(Q5K) |->
       Formats!Product(e, Formats!Nibble(48 + (e \div 32) * 16 + ((e % 32) % 16), e % 32 >= 16),
                       Formats!Bits(16 + e \div 8, e % 8, 1), e \div 32, FALSE)]

\* The elements of its eight sub-blocks.
LEMMA FivesByElement ==
  Numbered(UNION {Formats!q5k(sb) : sb \in 0..7}, FiveWeights, Q5K)
<1> DEFINE P(sb, i) == Formats!Product(sb * 32 + i, Formats!Nibble(48 + sb * 16 + (i % 16),
                                                                   i >= 16),
                      Formats!Bits(16 + (sb * 32 + i) \div 8, (sb * 32 + i) % 8, 1), sb, FALSE)
           S == UNION {Formats!q5k(sb) : sb \in 0..7}
<1>1. \A sb : Formats!q5k(sb) = {P(sb, i) : i \in 0..31}
  BY DEF Formats!q5k
<1>2. ASSUME NEW sb \in 0..7, NEW i \in 0..31
      PROVE  \E e \in Elements(Q5K) : P(sb, i) = FiveWeights[e]
  <2> DEFINE e == sb * 32 + i
  <2>1. e \in 0..255 /\ e \div 32 = sb /\ e % 32 = i
    OBVIOUS
  <2>2. P(sb, i) = Formats!Product(e, Formats!Nibble(48 + sb * 16 + (i % 16), i >= 16),
                                   Formats!Bits(16 + e \div 8, e % 8, 1), sb, FALSE)
    OBVIOUS
  <2> HIDE DEF e, P
  <2>3. e \in Elements(Q5K)
    BY <2>1 DEF Elements, Q5K
  <2>4. P(sb, i) = FiveWeights[e]
    BY <2>1, <2>2, <2>3 DEF FiveWeights
  <2> QED
    BY <2>3, <2>4
<1>3. ASSUME NEW e \in Elements(Q5K)
      PROVE  \E sb \in 0..7 : FiveWeights[e] \in Formats!q5k(sb)
  <2> DEFINE sb == e \div 32  i == e % 32
  <2>1. sb \in 0..7 /\ i \in 0..31 /\ e = sb * 32 + i
    BY DEF Elements, Q5K
  <2>2. P(sb, i) = Formats!Product(e, Formats!Nibble(48 + sb * 16 + (i % 16), i >= 16),
                                   Formats!Bits(16 + e \div 8, e % 8, 1), sb, FALSE)
    BY <2>1
  <2>3. P(sb, i) = FiveWeights[e]
    BY <2>2 DEF FiveWeights
  <2> HIDE DEF sb, i, P
  <2>4. FiveWeights[e] \in Formats!q5k(sb)
    BY <1>1, <2>1, <2>3
  <2> QED
    BY <2>1, <2>4
<1> HIDE DEF P
<1>4. ASSUME NEW p \in S PROVE \E e \in Elements(Q5K) : p = FiveWeights[e]
  <2>1. PICK sb \in 0..7 : p \in Formats!q5k(sb)
    OBVIOUS
  <2>2. PICK i \in 0..31 : p = P(sb, i)
    BY <1>1, <2>1
  <2> QED
    BY <1>2, <2>2
<1>5. ASSUME NEW e \in Elements(Q5K) PROVE FiveWeights[e] \in S
  BY <1>3
<1> HIDE DEF S
<1>6. Numbered(S, FiveWeights, Q5K)
  BY <1>4, <1>5 DEF Numbered
<1> QED
  BY <1>6 DEF S

\* Each weight is a nibble, and a bit of another byte.
LEMMA FivesWeigh == AllWeigh(FiveWeights, Q5K)
<1> SUFFICES ASSUME NEW e \in Elements(Q5K) PROVE Weighs(FiveWeights[e], e, Q5K)
  BY DEF AllWeigh
<1>1. e \in 0..255
  BY DEF Elements, Q5K
<1>2. Weighs(FiveWeights[e], e, Q5K)
  <2> DEFINE byte == 48 + (e \div 32) * 16 + ((e % 32) % 16)
             other == 16 + e \div 8
             low == Formats!Nibble(48 + (e \div 32) * 16 + ((e % 32) % 16), e % 32 >= 16)
             high == Formats!Bits(16 + e \div 8, e % 8, 1)
             scale == e \div 32
  <2>1. FiveWeights[e] = Formats!Product(e, low, high, scale, FALSE)
    BY DEF FiveWeights
  <2>2. byte \in BlockBytes(Q5K) /\ other \in BlockBytes(Q5K) /\ byte # other
    BY <1>1 DEF BlockBytes, Q5K
  <2>3. InByte(low, byte, Q5K.low)
    BY NibblePart DEF Q5K
  <2>4. InByte(high, other, Q5K.high)
    <3> DEFINE from == e % 8
    <3>1. from \in Int /\ 0 <= from /\ from + 1 <= 8
      BY <1>1
    <3> HIDE DEF from
    <3>2. InByte(Formats!Bits(16 + e \div 8, from, 1), 16 + e \div 8, 1)
      BY <3>1 DEF InByte
    <3> QED
      BY <3>2 DEF from, Q5K
  <2> HIDE DEF byte, other, low, high, scale
  <2>5. FiveWeights[e].x = e /\ FiveWeights[e].low = low /\ FiveWeights[e].high = high
    BY <2>1 DEF Formats!Product
  <2> QED
    BY <2>2, <2>3, <2>4, <2>5, BlockShapes, TwoParts
<1> QED
  BY <1>2

\* Between them they have 128 bytes of nibbles and the 32 bytes before.
LEMMA FivesTaken == AllBitsTaken(FiveWeights, Q5K)
<1> SUFFICES ASSUME NEW b \in BlockBytes(Q5K), NEW t \in 0..7
             PROVE  \E e \in Elements(Q5K) : <<b, t>> \in BitsOf(FiveWeights[e])
  BY DEF AllBitsTaken
<1>1. b \in 16..175
  BY DEF BlockBytes, Q5K
<1>2. CASE b < 48
  <2> DEFINE c == b - 16
             e == c * 8 + t
  <2>1. c \in 0..31 /\ b = 16 + c
    BY <1>1, <1>2
  <2> HIDE DEF c
  <2>2. e \in 0..255 /\ e \div 8 = c /\ e % 8 = t
    BY <2>1
  <2> HIDE DEF e
  <2>3. e \in Elements(Q5K)
    BY <2>2 DEF Elements, Q5K
  <2> DEFINE low == Formats!Nibble(48 + (e \div 32) * 16 + ((e % 32) % 16), e % 32 >= 16)
             high == Formats!Bits(16 + e \div 8, e % 8, 1)
             scale == e \div 32
  <2>4. FiveWeights[e] = Formats!Product(e, low, high, scale, FALSE)
    BY <2>3 DEF FiveWeights
  <2>5. <<b, t>> \in high
    <3> DEFINE byte == 16 + e \div 8  from == e % 8
    <3>1. byte = b /\ byte \in Int /\ from \in Int /\ from <= t /\ t < from + 1
      BY <1>1, <2>1, <2>2
    <3> HIDE DEF byte, from
    <3>2. <<byte, t>> \in Formats!Bits(byte, from, 1)
      BY <3>1, InBits
    <3> QED
      BY <3>1, <3>2 DEF byte, from
  <2> HIDE DEF low, high, scale
  <2>6. FiveWeights[e].low = low /\ FiveWeights[e].high = high
    BY <2>4 DEF Formats!Product
  <2> QED
    BY <2>3, <2>5, <2>6 DEF BitsOf
<1>3. CASE b >= 48
  <2> DEFINE sb == (b - 48) \div 16
             k == (b - 48) % 16
             half == t \div 4
             e == sb * 32 + half * 16 + k
  <2>1. sb \in 0..7 /\ k \in 0..15 /\ half \in 0..1 /\ b = 48 + sb * 16 + k
        /\ half * 4 <= t /\ t < half * 4 + 4
    BY <1>1, <1>3
  <2> HIDE DEF sb, k, half
  <2>2. e \in 0..255 /\ e \div 32 = sb /\ (e % 32) % 16 = k /\ (e % 32 >= 16 <=> half = 1)
    BY <2>1
  <2> HIDE DEF e
  <2>3. e \in Elements(Q5K)
    BY <2>2 DEF Elements, Q5K
  <2> DEFINE low == Formats!Nibble(48 + (e \div 32) * 16 + ((e % 32) % 16), e % 32 >= 16)
             high == Formats!Bits(16 + e \div 8, e % 8, 1)
             scale == e \div 32
  <2>4. FiveWeights[e] = Formats!Product(e, low, high, scale, FALSE)
    BY <2>3 DEF FiveWeights
  <2>5. <<b, t>> \in low
    <3> DEFINE byte == 48 + (e \div 32) * 16 + ((e % 32) % 16)  upper == e % 32 >= 16
    <3>1. byte = b /\ byte \in Int /\ upper \in BOOLEAN /\ (upper <=> t >= 4)
      BY <1>1, <2>1, <2>2
    <3> HIDE DEF byte, upper
    <3>2. <<byte, t>> \in Formats!Nibble(byte, upper)
      BY <3>1, InNibble
    <3> QED
      BY <3>1, <3>2 DEF byte, upper
  <2> HIDE DEF low, high, scale
  <2>6. FiveWeights[e].low = low /\ FiveWeights[e].high = high
    BY <2>4 DEF Formats!Product
  <2> QED
    BY <2>3, <2>5, <2>6 DEF BitsOf
<1>4. b < 48 \/ b >= 48
  BY <1>1
<1> QED
  BY <1>2, <1>3, <1>4

\* Element e of a block of Q3_K.
ThreeWeights ==
    [e \in Elements(Q3K) |->
       Formats!Product(e,
                       Formats!Bits(32 + ((e \div 16) \div 8) * 32 + ((e \div 16) % 2) * 16 + (e % 16),
                                    2 * (((e \div 16) \div 2) % 4), 2),
                       Formats!Bits(((e \div 16) % 2) * 16 + (e % 16), (e \div 16) \div 2, 1),
                       e \div 16, TRUE)]

\* The elements of its sixteen groups.
LEMMA ThreesByElement ==
  Numbered(UNION {Formats!q3k(group) : group \in 0..15}, ThreeWeights, Q3K)
<1> DEFINE P(group, l) ==
             Formats!Product((group \div 8) * 128 + ((group \div 2) % 4) * 32 + (group % 2) * 16 + l,
             Formats!Bits(32 + (group \div 8) * 32 + (group % 2) * 16 + l,
                          2 * ((group \div 2) % 4), 2),
             Formats!Bits((group % 2) * 16 + l, group \div 2, 1), group, TRUE)
           S == UNION {Formats!q3k(group) : group \in 0..15}
<1>1. \A group : Formats!q3k(group) = {P(group, l) : l \in 0..15}
  BY DEF Formats!q3k, Formats!Q3KGroup
<1>2. ASSUME NEW group \in 0..15, NEW l \in 0..15
      PROVE  \E e \in Elements(Q3K) : P(group, l) = ThreeWeights[e]
  <2> DEFINE e == group * 16 + l
  <2>1. e \in 0..255 /\ e \div 16 = group /\ e % 16 = l
    OBVIOUS
  <2>2. P(group, l) = Formats!Product(e,
             Formats!Bits(32 + (group \div 8) * 32 + (group % 2) * 16 + l,
                          2 * ((group \div 2) % 4), 2),
             Formats!Bits((group % 2) * 16 + l, group \div 2, 1), group, TRUE)
    <3>1. (group \div 8) * 128 + ((group \div 2) % 4) * 32 + (group % 2) * 16 + l = e
      OBVIOUS
    <3> HIDE DEF e
    <3> QED
      BY <3>1
  <2> HIDE DEF e, P
  <2>3. e \in Elements(Q3K)
    BY <2>1 DEF Elements, Q3K
  <2>4. P(group, l) = ThreeWeights[e]
    BY <2>1, <2>2, <2>3 DEF ThreeWeights
  <2> QED
    BY <2>3, <2>4
<1>3. ASSUME NEW e \in Elements(Q3K)
      PROVE  \E group \in 0..15 : ThreeWeights[e] \in Formats!q3k(group)
  <2> DEFINE group == e \div 16  l == e % 16
  <2>1. group \in 0..15 /\ l \in 0..15 /\ e = group * 16 + l
    BY DEF Elements, Q3K
  <2>2. P(group, l) = Formats!Product(e,
             Formats!Bits(32 + (group \div 8) * 32 + (group % 2) * 16 + l,
                          2 * ((group \div 2) % 4), 2),
             Formats!Bits((group % 2) * 16 + l, group \div 2, 1), group, TRUE)
    <3> HIDE DEF group, l
    <3>1. (group \div 8) * 128 + ((group \div 2) % 4) * 32 + (group % 2) * 16 + l = e
      BY <2>1
    <3> QED
      BY <3>1
  <2>3. P(group, l) = ThreeWeights[e]
    BY <2>2 DEF ThreeWeights
  <2> HIDE DEF group, l, P
  <2>4. ThreeWeights[e] \in Formats!q3k(group)
    BY <1>1, <2>1, <2>3
  <2> QED
    BY <2>1, <2>4
<1> HIDE DEF P
<1>4. ASSUME NEW p \in S PROVE \E e \in Elements(Q3K) : p = ThreeWeights[e]
  <2>1. PICK group \in 0..15 : p \in Formats!q3k(group)
    OBVIOUS
  <2>2. PICK l \in 0..15 : p = P(group, l)
    BY <1>1, <2>1
  <2> QED
    BY <1>2, <2>2
<1>5. ASSUME NEW e \in Elements(Q3K) PROVE ThreeWeights[e] \in S
  BY <1>3
<1> HIDE DEF S
<1>6. Numbered(S, ThreeWeights, Q3K)
  BY <1>4, <1>5 DEF Numbered
<1> QED
  BY <1>6 DEF S

\* Each weight is two bits, and a bit of another byte.
LEMMA ThreesWeigh == AllWeigh(ThreeWeights, Q3K)
<1> SUFFICES ASSUME NEW e \in Elements(Q3K) PROVE Weighs(ThreeWeights[e], e, Q3K)
  BY DEF AllWeigh
<1>1. e \in 0..255
  BY DEF Elements, Q3K
<1>2. Weighs(ThreeWeights[e], e, Q3K)
  <2> DEFINE byte == 32 + ((e \div 16) \div 8) * 32 + ((e \div 16) % 2) * 16 + (e % 16)
             other == ((e \div 16) % 2) * 16 + (e % 16)
             low == Formats!Bits(32 + ((e \div 16) \div 8) * 32 + ((e \div 16) % 2) * 16 + (e % 16),
                             2 * (((e \div 16) \div 2) % 4), 2)
             high == Formats!Bits(((e \div 16) % 2) * 16 + (e % 16), (e \div 16) \div 2, 1)
             scale == e \div 16
  <2>1. ThreeWeights[e] = Formats!Product(e, low, high, scale, TRUE)
    BY DEF ThreeWeights
  <2>2. byte \in BlockBytes(Q3K) /\ other \in BlockBytes(Q3K) /\ byte # other
    BY <1>1 DEF BlockBytes, Q3K
  <2>3. InByte(low, byte, Q3K.low)
    <3> DEFINE from == 2 * (((e \div 16) \div 2) % 4)
    <3>1. from \in Int /\ 0 <= from /\ from + 2 <= 8
      BY <1>1
    <3> HIDE DEF from
    <3>2. InByte(Formats!Bits(32 + ((e \div 16) \div 8) * 32 + ((e \div 16) % 2) * 16 + (e % 16), from, 2),
                 32 + ((e \div 16) \div 8) * 32 + ((e \div 16) % 2) * 16 + (e % 16), 2)
      BY <3>1 DEF InByte
    <3> QED
      BY <3>2 DEF from, Q3K
  <2>4. InByte(high, other, Q3K.high)
    <3> DEFINE from == (e \div 16) \div 2
    <3>1. from \in Int /\ 0 <= from /\ from + 1 <= 8
      BY <1>1
    <3> HIDE DEF from
    <3>2. InByte(Formats!Bits(((e \div 16) % 2) * 16 + (e % 16), from, 1),
                 ((e \div 16) % 2) * 16 + (e % 16), 1)
      BY <3>1 DEF InByte
    <3> QED
      BY <3>2 DEF from, Q3K
  <2> HIDE DEF byte, other, low, high, scale
  <2>5. ThreeWeights[e].x = e /\ ThreeWeights[e].low = low /\ ThreeWeights[e].high = high
    BY <2>1 DEF Formats!Product
  <2> QED
    BY <2>2, <2>3, <2>4, <2>5, BlockShapes, TwoParts
<1> QED
  BY <1>2

\* Between them they have the 64 bytes of qs and the 32 of hmask.
LEMMA ThreesTaken == AllBitsTaken(ThreeWeights, Q3K)
<1> SUFFICES ASSUME NEW b \in BlockBytes(Q3K), NEW t \in 0..7
             PROVE  \E e \in Elements(Q3K) : <<b, t>> \in BitsOf(ThreeWeights[e])
  BY DEF AllBitsTaken
<1>1. b \in 0..95
  BY DEF BlockBytes, Q3K
<1>2. CASE b < 32
  <2> DEFINE odd == b \div 16
             l == b % 16
             e == (2 * t + odd) * 16 + l
  <2>1. odd \in 0..1 /\ l \in 0..15 /\ b = odd * 16 + l
    BY <1>1, <1>2
  <2> HIDE DEF odd, l
  <2>2. e \in 0..255 /\ e \div 16 = 2 * t + odd /\ e % 16 = l
        /\ (2 * t + odd) % 2 = odd /\ (2 * t + odd) \div 2 = t
    BY <2>1
  <2> HIDE DEF e
  <2>3. e \in Elements(Q3K)
    BY <2>2 DEF Elements, Q3K
  <2> DEFINE low == Formats!Bits(32 + ((e \div 16) \div 8) * 32 + ((e \div 16) % 2) * 16 + (e % 16),
                             2 * (((e \div 16) \div 2) % 4), 2)
             high == Formats!Bits(((e \div 16) % 2) * 16 + (e % 16), (e \div 16) \div 2, 1)
             scale == e \div 16
  <2>4. ThreeWeights[e] = Formats!Product(e, low, high, scale, TRUE)
    BY <2>3 DEF ThreeWeights
  <2>5. <<b, t>> \in high
    <3> DEFINE byte == ((e \div 16) % 2) * 16 + (e % 16)  from == (e \div 16) \div 2
    <3>1. byte = b /\ byte \in Int /\ from \in Int /\ from <= t /\ t < from + 1
      BY <1>1, <2>1, <2>2
    <3> HIDE DEF byte, from
    <3>2. <<byte, t>> \in Formats!Bits(byte, from, 1)
      BY <3>1, InBits
    <3> QED
      BY <3>1, <3>2 DEF byte, from
  <2> HIDE DEF low, high, scale
  <2>6. ThreeWeights[e].low = low /\ ThreeWeights[e].high = high
    BY <2>4 DEF Formats!Product
  <2> QED
    BY <2>3, <2>5, <2>6 DEF BitsOf
<1>3. CASE b >= 32
  <2> DEFINE half == (b - 32) \div 32
             odd == ((b - 32) % 32) \div 16
             l == (b - 32) % 16
             q == t \div 2
             group == half * 8 + q * 2 + odd
             e == group * 16 + l
  <2>1. /\ half \in 0..1 /\ odd \in 0..1 /\ l \in 0..15 /\ q \in 0..3
        /\ b = 32 + half * 32 + odd * 16 + l /\ 2 * q <= t /\ t < 2 * q + 2
        /\ group \in 0..15 /\ group \div 8 = half /\ group % 2 = odd /\ (group \div 2) % 4 = q
    BY <1>1, <1>3
  <2> HIDE DEF half, odd, l, q, group
  <2>2. e \in 0..255 /\ e \div 16 = group /\ e % 16 = l
    BY <2>1
  <2> HIDE DEF e
  <2>3. e \in Elements(Q3K)
    BY <2>2 DEF Elements, Q3K
  <2> DEFINE low == Formats!Bits(32 + ((e \div 16) \div 8) * 32 + ((e \div 16) % 2) * 16 + (e % 16),
                             2 * (((e \div 16) \div 2) % 4), 2)
             high == Formats!Bits(((e \div 16) % 2) * 16 + (e % 16), (e \div 16) \div 2, 1)
             scale == e \div 16
  <2>4. ThreeWeights[e] = Formats!Product(e, low, high, scale, TRUE)
    BY <2>3 DEF ThreeWeights
  <2>5. <<b, t>> \in low
    <3> DEFINE byte == 32 + ((e \div 16) \div 8) * 32 + ((e \div 16) % 2) * 16 + (e % 16)
               from == 2 * (((e \div 16) \div 2) % 4)
    <3>1. byte = b /\ byte \in Int /\ from \in Int /\ from <= t /\ t < from + 2
      BY <1>1, <2>1, <2>2
    <3> HIDE DEF byte, from
    <3>2. <<byte, t>> \in Formats!Bits(byte, from, 2)
      BY <3>1, InBits
    <3> QED
      BY <3>1, <3>2 DEF byte, from
  <2> HIDE DEF low, high, scale
  <2>6. ThreeWeights[e].low = low /\ ThreeWeights[e].high = high
    BY <2>4 DEF Formats!Product
  <2> QED
    BY <2>3, <2>5, <2>6 DEF BitsOf
<1>4. b < 32 \/ b >= 32
  BY <1>1
<1> QED
  BY <1>2, <1>3, <1>4

\* Element e of a block of Q2_K.
TwoWeights ==
    [e \in Elements(Q2K) |->
       Formats!Product(e, Formats!Bits(16 + (e \div 16) * 4 + (e % 16) \div 4,
                                       2 * ((e % 16) % 4), 2),
                       {}, e \div 16, FALSE)]

\* The elements of its sixteen sub-blocks.
LEMMA TwosByElement ==
  Numbered(UNION {Formats!q2k(sb) : sb \in 0..15}, TwoWeights, Q2K)
<1> DEFINE P(sb, i) == Formats!Product(sb * 16 + i, Formats!Bits(16 + sb * 4 + i \div 4,
                                                                 2 * (i % 4), 2),
                                      {}, sb, FALSE)
           S == UNION {Formats!q2k(sb) : sb \in 0..15}
<1>1. \A sb : Formats!q2k(sb) = {P(sb, i) : i \in 0..15}
  BY DEF Formats!q2k
<1>2. ASSUME NEW sb \in 0..15, NEW i \in 0..15
      PROVE  \E e \in Elements(Q2K) : P(sb, i) = TwoWeights[e]
  <2> DEFINE e == sb * 16 + i
  <2>1. e \in 0..255 /\ e \div 16 = sb /\ e % 16 = i
    OBVIOUS
  <2>2. P(sb, i) = Formats!Product(e, Formats!Bits(16 + sb * 4 + i \div 4, 2 * (i % 4), 2),
                                   {}, sb, FALSE)
    OBVIOUS
  <2> HIDE DEF e, P
  <2>3. e \in Elements(Q2K)
    BY <2>1 DEF Elements, Q2K
  <2>4. P(sb, i) = TwoWeights[e]
    BY <2>1, <2>2, <2>3 DEF TwoWeights
  <2> QED
    BY <2>3, <2>4
<1>3. ASSUME NEW e \in Elements(Q2K)
      PROVE  \E sb \in 0..15 : TwoWeights[e] \in Formats!q2k(sb)
  <2> DEFINE sb == e \div 16  i == e % 16
  <2>1. sb \in 0..15 /\ i \in 0..15 /\ e = sb * 16 + i
    BY DEF Elements, Q2K
  <2>2. P(sb, i) = Formats!Product(e, Formats!Bits(16 + sb * 4 + i \div 4, 2 * (i % 4), 2),
                                   {}, sb, FALSE)
    BY <2>1
  <2>3. P(sb, i) = TwoWeights[e]
    BY <2>2 DEF TwoWeights
  <2> HIDE DEF sb, i, P
  <2>4. TwoWeights[e] \in Formats!q2k(sb)
    BY <1>1, <2>1, <2>3
  <2> QED
    BY <2>1, <2>4
<1> HIDE DEF P
<1>4. ASSUME NEW p \in S PROVE \E e \in Elements(Q2K) : p = TwoWeights[e]
  <2>1. PICK sb \in 0..15 : p \in Formats!q2k(sb)
    OBVIOUS
  <2>2. PICK i \in 0..15 : p = P(sb, i)
    BY <1>1, <2>1
  <2> QED
    BY <1>2, <2>2
<1>5. ASSUME NEW e \in Elements(Q2K) PROVE TwoWeights[e] \in S
  BY <1>3
<1> HIDE DEF S
<1>6. Numbered(S, TwoWeights, Q2K)
  BY <1>4, <1>5 DEF Numbered
<1> QED
  BY <1>6 DEF S

\* Each weight is two bits.
LEMMA TwosWeigh == AllWeigh(TwoWeights, Q2K)
<1> SUFFICES ASSUME NEW e \in Elements(Q2K) PROVE Weighs(TwoWeights[e], e, Q2K)
  BY DEF AllWeigh
<1>1. e \in 0..255
  BY DEF Elements, Q2K
<1>2. Weighs(TwoWeights[e], e, Q2K)
  <2> DEFINE byte == 16 + (e \div 16) * 4 + (e % 16) \div 4
             low == Formats!Bits(16 + (e \div 16) * 4 + (e % 16) \div 4, 2 * ((e % 16) % 4), 2)
             scale == e \div 16
  <2>1. TwoWeights[e] = Formats!Product(e, low, {}, scale, FALSE)
    BY DEF TwoWeights
  <2>2. byte \in BlockBytes(Q2K)
    BY <1>1 DEF BlockBytes, Q2K
  <2>3. InByte(low, byte, Q2K.low)
    <3> DEFINE from == 2 * ((e % 16) % 4)
    <3>1. from \in Int /\ 0 <= from /\ from + 2 <= 8
      BY <1>1
    <3> HIDE DEF from
    <3>2. InByte(Formats!Bits(16 + (e \div 16) * 4 + (e % 16) \div 4, from, 2),
                 16 + (e \div 16) * 4 + (e % 16) \div 4, 2)
      BY <3>1 DEF InByte
    <3> QED
      BY <3>2 DEF from, Q2K
  <2>4. Q2K.high = 0
    BY DEF Q2K
  <2> HIDE DEF byte, low, scale
  <2>5. TwoWeights[e].x = e /\ TwoWeights[e].low = low /\ TwoWeights[e].high = {}
    BY <2>1 DEF Formats!Product
  <2> QED
    BY <2>2, <2>3, <2>4, <2>5, BlockShapes, OnePart
<1> QED
  BY <1>2

\* Between them they have 64 bytes.
LEMMA TwosTaken == AllBitsTaken(TwoWeights, Q2K)
<1> SUFFICES ASSUME NEW b \in BlockBytes(Q2K), NEW t \in 0..7
             PROVE  \E e \in Elements(Q2K) : <<b, t>> \in BitsOf(TwoWeights[e])
  BY DEF AllBitsTaken
<1>1. b \in 16..79
  BY DEF BlockBytes, Q2K
<1>2. \E e \in Elements(Q2K) : <<b, t>> \in BitsOf(TwoWeights[e])
  <2> DEFINE sb == (b - 16) \div 4
             k == (b - 16) % 4
             q == t \div 2
             e == sb * 16 + k * 4 + q
  <2>1. sb \in 0..15 /\ k \in 0..3 /\ q \in 0..3 /\ b = 16 + sb * 4 + k
        /\ 2 * q <= t /\ t < 2 * q + 2
    BY <1>1
  <2> HIDE DEF sb, k, q
  <2>2. e \in 0..255 /\ e \div 16 = sb /\ (e % 16) \div 4 = k /\ (e % 16) % 4 = q
    BY <2>1
  <2> HIDE DEF e
  <2>3. e \in Elements(Q2K)
    BY <2>2 DEF Elements, Q2K
  <2> DEFINE low == Formats!Bits(16 + (e \div 16) * 4 + (e % 16) \div 4, 2 * ((e % 16) % 4), 2)
             high == {}
             scale == e \div 16
  <2>4. TwoWeights[e] = Formats!Product(e, low, high, scale, FALSE)
    BY <2>3 DEF TwoWeights
  <2>5. <<b, t>> \in low
    <3> DEFINE byte == 16 + (e \div 16) * 4 + (e % 16) \div 4  from == 2 * ((e % 16) % 4)
    <3>1. byte = b /\ byte \in Int /\ from \in Int /\ from <= t /\ t < from + 2
      BY <1>1, <2>1, <2>2
    <3> HIDE DEF byte, from
    <3>2. <<byte, t>> \in Formats!Bits(byte, from, 2)
      BY <3>1, InBits
    <3> QED
      BY <3>1, <3>2 DEF byte, from
  <2> HIDE DEF low, high, scale
  <2>6. TwoWeights[e].low = low /\ TwoWeights[e].high = high
    BY <2>4 DEF Formats!Product
  <2> QED
    BY <2>3, <2>5, <2>6 DEF BitsOf
<1> QED
  BY <1>2

\* Element e of a block of Q4_0.
NeighbourWeights ==
    [e \in Elements(Q40) |-> Formats!Product(e, Formats!Nibble(2 + e \div 2, e % 2 = 1), {},
                                             0, TRUE)]

\* One in each of its 32 iterations.
LEMMA NeighboursByElement ==
  Numbered(UNION {Formats!q4_0(i) : i \in 0..31}, NeighbourWeights, Q40)
<1>1. Elements(Q40) = 0..31
  BY DEF Elements, Q40
<1>2. \A i \in 0..31 : Formats!q4_0(i) = {NeighbourWeights[i]}
  BY <1>1 DEF Formats!q4_0, NeighbourWeights
<1> QED
  BY <1>1, <1>2 DEF Numbered

\* Each weight is four bits.
LEMMA NeighboursWeigh == AllWeigh(NeighbourWeights, Q40)
<1> SUFFICES ASSUME NEW e \in Elements(Q40) PROVE Weighs(NeighbourWeights[e], e, Q40)
  BY DEF AllWeigh
<1>1. e \in 0..31
  BY DEF Elements, Q40
<1>2. Weighs(NeighbourWeights[e], e, Q40)
  <2> DEFINE byte == 2 + e \div 2
             low == Formats!Nibble(2 + e \div 2, e % 2 = 1)
             scale == 0
  <2>1. NeighbourWeights[e] = Formats!Product(e, low, {}, scale, TRUE)
    BY DEF NeighbourWeights
  <2>2. byte \in BlockBytes(Q40)
    BY <1>1 DEF BlockBytes, Q40
  <2>3. InByte(low, byte, Q40.low)
    BY NibblePart DEF Q40
  <2>4. Q40.high = 0
    BY DEF Q40
  <2> HIDE DEF byte, low, scale
  <2>5. NeighbourWeights[e].x = e /\ NeighbourWeights[e].low = low
        /\ NeighbourWeights[e].high = {}
    BY <2>1 DEF Formats!Product
  <2> QED
    BY <2>2, <2>3, <2>4, <2>5, BlockShapes, OnePart
<1> QED
  BY <1>2

\* Between them they have 16 bytes.
LEMMA NeighboursTaken == AllBitsTaken(NeighbourWeights, Q40)
<1> SUFFICES ASSUME NEW b \in BlockBytes(Q40), NEW t \in 0..7
             PROVE  \E e \in Elements(Q40) : <<b, t>> \in BitsOf(NeighbourWeights[e])
  BY DEF AllBitsTaken
<1>1. b \in 2..17
  BY DEF BlockBytes, Q40
<1>2. \E e \in Elements(Q40) : <<b, t>> \in BitsOf(NeighbourWeights[e])
  <2> DEFINE k == b - 2
             half == t \div 4
             e == k * 2 + half
  <2>1. k \in 0..15 /\ half \in 0..1 /\ b = 2 + k /\ half * 4 <= t /\ t < half * 4 + 4
    BY <1>1
  <2> HIDE DEF k, half
  <2>2. e \in 0..31 /\ e \div 2 = k /\ e % 2 = half
    BY <2>1
  <2> HIDE DEF e
  <2>3. e \in Elements(Q40)
    BY <2>2 DEF Elements, Q40
  <2> DEFINE low == Formats!Nibble(2 + e \div 2, e % 2 = 1)
             high == {}
             scale == 0
  <2>4. NeighbourWeights[e] = Formats!Product(e, low, high, scale, TRUE)
    BY <2>3 DEF NeighbourWeights
  <2>5. <<b, t>> \in low
    <3> DEFINE byte == 2 + e \div 2  upper == e % 2 = 1
    <3>1. byte = b /\ byte \in Int /\ upper \in BOOLEAN /\ (upper <=> t >= 4)
      BY <1>1, <2>1, <2>2
    <3> HIDE DEF byte, upper
    <3>2. <<byte, t>> \in Formats!Nibble(byte, upper)
      BY <3>1, InNibble
    <3> QED
      BY <3>1, <3>2 DEF byte, upper
  <2> HIDE DEF low, high, scale
  <2>6. NeighbourWeights[e].low = low /\ NeighbourWeights[e].high = high
    BY <2>4 DEF Formats!Product
  <2> QED
    BY <2>3, <2>5, <2>6 DEF BitsOf
<1> QED
  BY <1>2

\* Element e of a block of Q6_K, with the sign of its scale or without.
SixWeights(signed) ==
    [e \in Elements(Q6K) |->
       Formats!Product(e,
                       Formats!Nibble((e \div 128) * 64 + (e % 32) + 32 * (((e % 128) \div 32) % 2),
                               (e % 128) \div 32 >= 2),
                       Formats!Bits(128 + (e \div 128) * 32 + (e % 32),
                                    2 * ((e % 128) \div 32), 2),
                       (e \div 128) * 8 + (e % 32) \div 16 + 2 * ((e % 128) \div 32), signed)]

\* The four elements at each l of a half.
LEMMA SixesByElement ==
  ASSUME NEW signed
  PROVE  Numbered(Six(signed), SixWeights(signed), Q6K)
<1> DEFINE P(half, l, q) ==
             Formats!Product(half * 128 + l + 32 * q,
               Formats!Nibble(half * 64 + l + 32 * (q % 2), q >= 2),
               Formats!Bits(128 + half * 32 + l, 2 * q, 2),
               half * 8 + l \div 16 + 2 * q, signed)
           W == SixWeights(signed)
<1>1. \A half, l : SixAt(half, l, signed) = {P(half, l, q) : q \in 0..3}
  BY DEF SixAt, Formats!q6k_at
<1>2. ASSUME NEW half \in 0..1, NEW l \in 0..31, NEW q \in 0..3
      PROVE  \E e \in Elements(Q6K) : P(half, l, q) = W[e]
  <2> DEFINE e == half * 128 + l + 32 * q
  <2>1. e \in 0..255 /\ e \div 128 = half /\ e % 32 = l /\ (e % 128) \div 32 = q
    OBVIOUS
  <2>2. P(half, l, q) =
          Formats!Product(e, Formats!Nibble(half * 64 + l + 32 * (q % 2), q >= 2),
                 Formats!Bits(128 + half * 32 + l, 2 * q, 2), half * 8 + l \div 16 + 2 * q,
                   signed)
    OBVIOUS
  <2> HIDE DEF e, P
  <2>3. e \in Elements(Q6K)
    BY <2>1 DEF Elements, Q6K
  <2>4. P(half, l, q) = W[e]
    BY <2>1, <2>2, <2>3 DEF SixWeights
  <2> HIDE DEF W
  <2> QED
    BY <2>3, <2>4
<1>3. ASSUME NEW e \in Elements(Q6K) PROVE W[e] \in Six(signed)
  <2> DEFINE half == e \div 128  l == e % 32  q == (e % 128) \div 32
  <2>1. half \in 0..1 /\ l \in 0..31 /\ q \in 0..3 /\ half * 128 + l + 32 * q = e
    BY DEF Elements, Q6K
  <2>2. P(half, l, q) =
          Formats!Product(e, Formats!Nibble(half * 64 + l + 32 * (q % 2), q >= 2),
                 Formats!Bits(128 + half * 32 + l, 2 * q, 2), half * 8 + l \div 16 + 2 * q,
                   signed)
    BY <2>1
  <2>3. P(half, l, q) = W[e]
    BY <2>2 DEF SixWeights
  <2> HIDE DEF half, l, q, P, W
  <2>4. W[e] \in SixAt(half, l, signed)
    BY <1>1, <2>1, <2>3
  <2> QED
    BY <2>1, <2>4, InSix
<1> HIDE DEF P, W
<1>4. ASSUME NEW p \in Six(signed) PROVE \E e \in Elements(Q6K) : p = W[e]
  <2>1. PICK half \in 0..1 : \E l \in 0..31 : p \in SixAt(half, l, signed)
    BY InSix
  <2>2. PICK l \in 0..31 : p \in SixAt(half, l, signed)
    BY <2>1
  <2>3. PICK q \in 0..3 : p = P(half, l, q)
    BY <1>1, <2>2
  <2> QED
    BY <1>2, <2>3
<1>5. Numbered(Six(signed), W, Q6K)
  BY <1>3, <1>4 DEF Numbered
<1> QED
  BY <1>5 DEF W

\* Each weight is a nibble, and two bits of another byte.
LEMMA SixesWeigh == 
  ASSUME NEW signed
  PROVE  AllWeigh(SixWeights(signed), Q6K)
<1> SUFFICES ASSUME NEW e \in Elements(Q6K) PROVE Weighs(SixWeights(signed)[e], e, Q6K)
  BY DEF AllWeigh
<1>1. e \in 0..255
  BY DEF Elements, Q6K
<1>2. Weighs(SixWeights(signed)[e], e, Q6K)
  <2> DEFINE byte == (e \div 128) * 64 + (e % 32) + 32 * (((e % 128) \div 32) % 2)
             other == 128 + (e \div 128) * 32 + (e % 32)
             low == Formats!Nibble((e \div 128) * 64 + (e % 32) + 32 * (((e % 128) \div 32) % 2),
                               (e % 128) \div 32 >= 2)
             high == Formats!Bits(128 + (e \div 128) * 32 + (e % 32), 2 * ((e % 128) \div 32),
                                  2)
             scale == (e \div 128) * 8 + (e % 32) \div 16 + 2 * ((e % 128) \div 32)
  <2>1. SixWeights(signed)[e] = Formats!Product(e, low, high, scale, signed)
    BY DEF SixWeights
  <2>2. byte \in BlockBytes(Q6K) /\ other \in BlockBytes(Q6K) /\ byte # other
    BY <1>1 DEF BlockBytes, Q6K
  <2>3. InByte(low, byte, Q6K.low)
    BY NibblePart DEF Q6K
  <2>4. InByte(high, other, Q6K.high)
    <3> DEFINE from == 2 * ((e % 128) \div 32)
    <3>1. from \in Int /\ 0 <= from /\ from + 2 <= 8
      BY <1>1
    <3> HIDE DEF from
    <3>2. InByte(Formats!Bits(128 + (e \div 128) * 32 + (e % 32), from, 2),
                 128 + (e \div 128) * 32 + (e % 32), 2)
      BY <3>1 DEF InByte
    <3> QED
      BY <3>2 DEF from, Q6K
  <2> HIDE DEF byte, other, low, high, scale
  <2>5. SixWeights(signed)[e].x = e /\ SixWeights(signed)[e].low = low
        /\ SixWeights(signed)[e].high = high
    BY <2>1 DEF Formats!Product
  <2> QED
    BY <2>2, <2>3, <2>4, <2>5, BlockShapes, TwoParts
<1> QED
  BY <1>2

\* Between them they have the 128 bytes of ql and the 64 of qh.
LEMMA SixesTaken == 
  ASSUME NEW signed
  PROVE  AllBitsTaken(SixWeights(signed), Q6K)
<1> SUFFICES ASSUME NEW b \in BlockBytes(Q6K), NEW t \in 0..7
             PROVE  \E e \in Elements(Q6K) : <<b, t>> \in BitsOf(SixWeights(signed)[e])
  BY DEF AllBitsTaken
<1>1. b \in 0..191
  BY DEF BlockBytes, Q6K
<1>2. CASE b < 128
  <2> DEFINE half == b \div 64
             odd == (b % 64) \div 32
             l == b % 32
             hi == t \div 4
             q == 2 * hi + odd
             e == half * 128 + l + 32 * q
  <2>1. /\ half \in 0..1 /\ odd \in 0..1 /\ l \in 0..31 /\ hi \in 0..1 /\ q \in 0..3
        /\ b = half * 64 + l + 32 * odd /\ 4 * hi <= t /\ t < 4 * hi + 4
        /\ q % 2 = odd /\ (q >= 2 <=> hi = 1)
    BY <1>1, <1>2
  <2> HIDE DEF half, odd, l, hi, q
  <2>2. e \in 0..255 /\ e \div 128 = half /\ e % 32 = l /\ (e % 128) \div 32 = q
    BY <2>1
  <2> HIDE DEF e
  <2>3. e \in Elements(Q6K)
    BY <2>2 DEF Elements, Q6K
  <2> DEFINE low == Formats!Nibble((e \div 128) * 64 + (e % 32) + 32 * (((e % 128) \div 32) % 2),
                               (e % 128) \div 32 >= 2)
             high == Formats!Bits(128 + (e \div 128) * 32 + (e % 32), 2 * ((e % 128) \div 32),
                                  2)
             scale == (e \div 128) * 8 + (e % 32) \div 16 + 2 * ((e % 128) \div 32)
  <2>4. SixWeights(signed)[e] = Formats!Product(e, low, high, scale, signed)
    BY <2>3 DEF SixWeights
  <2>5. <<b, t>> \in low
    <3> DEFINE byte == (e \div 128) * 64 + (e % 32) + 32 * (((e % 128) \div 32) % 2)
               upper == (e % 128) \div 32 >= 2
    <3>1. byte = b /\ byte \in Int /\ upper \in BOOLEAN /\ (upper <=> t >= 4)
      BY <1>1, <2>1, <2>2
    <3> HIDE DEF byte, upper
    <3>2. <<byte, t>> \in Formats!Nibble(byte, upper)
      BY <3>1, InNibble
    <3> QED
      BY <3>1, <3>2 DEF byte, upper
  <2> HIDE DEF low, high, scale
  <2>6. SixWeights(signed)[e].low = low /\ SixWeights(signed)[e].high = high
    BY <2>4 DEF Formats!Product
  <2> QED
    BY <2>3, <2>5, <2>6 DEF BitsOf
<1>3. CASE b >= 128
  <2> DEFINE half == (b - 128) \div 32
             l == (b - 128) % 32
             q == t \div 2
             e == half * 128 + l + 32 * q
  <2>1. half \in 0..1 /\ l \in 0..31 /\ q \in 0..3 /\ b = 128 + half * 32 + l
        /\ 2 * q <= t /\ t < 2 * q + 2
    BY <1>1, <1>3
  <2> HIDE DEF half, l, q
  <2>2. e \in 0..255 /\ e \div 128 = half /\ e % 32 = l /\ (e % 128) \div 32 = q
    BY <2>1
  <2> HIDE DEF e
  <2>3. e \in Elements(Q6K)
    BY <2>2 DEF Elements, Q6K
  <2> DEFINE low == Formats!Nibble((e \div 128) * 64 + (e % 32) + 32 * (((e % 128) \div 32) % 2),
                               (e % 128) \div 32 >= 2)
             high == Formats!Bits(128 + (e \div 128) * 32 + (e % 32), 2 * ((e % 128) \div 32),
                                  2)
             scale == (e \div 128) * 8 + (e % 32) \div 16 + 2 * ((e % 128) \div 32)
  <2>4. SixWeights(signed)[e] = Formats!Product(e, low, high, scale, signed)
    BY <2>3 DEF SixWeights
  <2>5. <<b, t>> \in high
    <3> DEFINE byte == 128 + (e \div 128) * 32 + (e % 32)  from == 2 * ((e % 128) \div 32)
    <3>1. byte = b /\ byte \in Int /\ from \in Int /\ from <= t /\ t < from + 2
      BY <1>1, <2>1, <2>2
    <3> HIDE DEF byte, from
    <3>2. <<byte, t>> \in Formats!Bits(byte, from, 2)
      BY <3>1, InBits
    <3> QED
      BY <3>1, <3>2 DEF byte, from
  <2> HIDE DEF low, high, scale
  <2>6. SixWeights(signed)[e].low = low /\ SixWeights(signed)[e].high = high
    BY <2>4 DEF Formats!Product
  <2> QED
    BY <2>3, <2>5, <2>6 DEF BitsOf
<1>4. b < 128 \/ b >= 128
  BY <1>1
<1> QED
  BY <1>2, <1>3, <1>4

\* So every reader's weights have each bit of the block once.
LEMMA AllReadOnce ==
  /\ ReadOnce(UNION {Formats!Halves(sb) : sb \in 0..7}, Q4K.size)
  /\ ReadOnce(UNION {Formats!q4k_scalar(pair) : pair \in 0..3}, Q4K.size)
  /\ ReadOnce(UNION {Formats!q5k(sb) : sb \in 0..7}, Q5K.size)
  /\ ReadOnce(UNION {Formats!q3k(group) : group \in 0..15}, Q3K.size)
  /\ ReadOnce(UNION {Formats!q2k(sb) : sb \in 0..15}, Q2K.size)
  /\ ReadOnce(UNION {Formats!q4_0(i) : i \in 0..31}, Q40.size)
<1>1. ReadOnce(UNION {Formats!Halves(sb) : sb \in 0..7}, Q4K.size)
  BY BlockShapes, HalvesByElement, HalvesWeigh, HalvesTaken, WholeIsReadOnce
<1>2. ReadOnce(UNION {Formats!q4k_scalar(pair) : pair \in 0..3}, Q4K.size)
  BY BlockShapes, PairsByElement, PairsWeigh, PairsTaken, WholeIsReadOnce
<1>3. ReadOnce(UNION {Formats!q5k(sb) : sb \in 0..7}, Q5K.size)
  BY BlockShapes, FivesByElement, FivesWeigh, FivesTaken, WholeIsReadOnce
<1>4. ReadOnce(UNION {Formats!q3k(group) : group \in 0..15}, Q3K.size)
  BY BlockShapes, ThreesByElement, ThreesWeigh, ThreesTaken, WholeIsReadOnce
<1>5. ReadOnce(UNION {Formats!q2k(sb) : sb \in 0..15}, Q2K.size)
  BY BlockShapes, TwosByElement, TwosWeigh, TwosTaken, WholeIsReadOnce
<1>6. ReadOnce(UNION {Formats!q4_0(i) : i \in 0..31}, Q40.size)
  BY BlockShapes, NeighboursByElement, NeighboursWeigh, NeighboursTaken, WholeIsReadOnce
<1> QED
  BY <1>1, <1>2, <1>3, <1>4, <1>5, <1>6

\* The same of Q6_K.
LEMMA SixReadOnce ==
  ASSUME NEW signed
  PROVE  ReadOnce(Six(signed), Q6K.size)
<1>1. IsShape(Q6K)
  BY BlockShapes
<1>2. /\ Numbered(Six(signed), SixWeights(signed), Q6K)
      /\ AllWeigh(SixWeights(signed), Q6K)
      /\ AllBitsTaken(SixWeights(signed), Q6K)
  BY SixesByElement, SixesWeigh, SixesTaken
<1> QED
  BY <1>1, <1>2, WholeIsReadOnce

\* The AVX-512 reader takes the halves of four sub-blocks to a load.
LEMMA LoadsTakeAll ==
  UNION {Formats!dequant_avx512(load) : load \in 0..1}
    = UNION {Formats!Halves(sb) : sb \in 0..7}
<1>1. \A load : Formats!dequant_avx512(load)
                  = UNION {Formats!Halves(load * 4 + part) : part \in 0..3}
  BY DEF Formats!dequant_avx512
<1>2. ASSUME NEW load \in 0..1, NEW part \in 0..3 PROVE load * 4 + part \in 0..7
  OBVIOUS
<1>3. ASSUME NEW sb \in 0..7
      PROVE  sb \div 4 \in 0..1 /\ sb % 4 \in 0..3 /\ sb = (sb \div 4) * 4 + (sb % 4)
  OBVIOUS
<1>4. ASSUME NEW load \in 0..1, NEW r \in Formats!dequant_avx512(load)
      PROVE  \E sb \in 0..7 : r \in Formats!Halves(sb)
  <2>1. PICK part \in 0..3 : r \in Formats!Halves(load * 4 + part)
    BY <1>1
  <2> QED
    BY <1>2, <2>1
<1>5. ASSUME NEW sb \in 0..7, NEW r \in Formats!Halves(sb)
      PROVE  \E load \in 0..1 : r \in Formats!dequant_avx512(load)
  <2> DEFINE load == sb \div 4  part == sb % 4
  <2>1. load \in 0..1 /\ part \in 0..3 /\ sb = load * 4 + part
    BY <1>3
  <2> HIDE DEF load, part
  <2>2. r \in Formats!dequant_avx512(load)
    BY <1>1, <2>1
  <2> QED
    BY <2>1, <2>2
<1> QED
  BY <1>4, <1>5

\* What each reader has when it is over.
LEMMA ReadersWhole ==
  ASSUME ReaderInv, Formats!Done
  PROVE  /\ slot1 \in {"q4k_avx2", "dequant_avx2", "dequantize_q4k_block", "dequant_avx512"} =>
              slot3 = UNION {Formats!Halves(sb) : sb \in 0..7}
         /\ slot1 \in {"dequant_q4k", "q4k_scalar"} =>
              slot3 = UNION {Formats!q4k_scalar(pair) : pair \in 0..3}
         /\ slot1 \in {"dequant_q6k", "q6k_scalar"} => slot3 = Six(TRUE)
         /\ slot1 \in {"q6k_avx512", "q6k_avx2"} => slot3 = Six(FALSE)
         /\ slot1 = "q5k" => slot3 = UNION {Formats!q5k(sb) : sb \in 0..7}
         /\ slot1 = "q3k" => slot3 = UNION {Formats!q3k(group) : group \in 0..15}
         /\ slot1 = "q2k" => slot3 = UNION {Formats!q2k(sb) : sb \in 0..15}
         /\ slot1 = "q4_0" => slot3 = UNION {Formats!q4_0(i) : i \in 0..31}
<1>0. slot3 = UNION {Formats!Products(k) : k \in 0..(Formats!Iterations[slot1] - 1)}
  BY AllProducts
<1>1. ASSUME slot1 \in {"q4k_avx2", "dequant_avx2", "dequantize_q4k_block"}
      PROVE  slot3 = UNION {Formats!Halves(sb) : sb \in 0..7}
  <2>1. Formats!Iterations[slot1] - 1 = 7
    BY <1>1 DEF Formats!Iterations
  <2>2. \A k : Formats!Products(k) = Formats!Halves(k)
    BY <1>1 DEF Formats!Products, Formats!q4k_avx2, Formats!dequant_avx2,
                Formats!dequantize_q4k_block
  <2> QED
    BY <1>0, <2>1, <2>2
<1>2. ASSUME slot1 = "dequant_avx512"
      PROVE  slot3 = UNION {Formats!Halves(sb) : sb \in 0..7}
  <2>1. Formats!Iterations[slot1] - 1 = 1
    BY <1>2 DEF Formats!Iterations
  <2>2. \A k : Formats!Products(k) = Formats!dequant_avx512(k)
    BY <1>2 DEF Formats!Products
  <2>3. slot3 = UNION {Formats!dequant_avx512(load) : load \in 0..1}
    BY <1>0, <2>1, <2>2
  <2> QED
    BY <2>3, LoadsTakeAll
<1>3. ASSUME slot1 = "dequant_q4k"
      PROVE  slot3 = UNION {Formats!q4k_scalar(pair) : pair \in 0..3}
  <2>1. Formats!Iterations[slot1] - 1 = 3
    BY <1>3 DEF Formats!Iterations
  <2>2. \A k : Formats!Products(k) = Formats!dequant_q4k(k)
    BY <1>3 DEF Formats!Products
  <2>3. slot3 = UNION {Formats!dequant_q4k(pair) : pair \in 0..3}
    BY <1>0, <2>1, <2>2
  <2> QED
    BY <2>3, PairsAlike
<1>4. ASSUME slot1 = "q4k_scalar"
      PROVE  slot3 = UNION {Formats!q4k_scalar(pair) : pair \in 0..3}
  <2>1. Formats!Iterations[slot1] - 1 = 3
    BY <1>4 DEF Formats!Iterations
  <2>2. \A k : Formats!Products(k) = Formats!q4k_scalar(k)
    BY <1>4 DEF Formats!Products
  <2> QED
    BY <1>0, <2>1, <2>2
<1>5. ASSUME slot1 = "dequant_q6k" PROVE slot3 = Six(TRUE)
  <2>1. Formats!Iterations[slot1] - 1 = 1
    BY <1>5 DEF Formats!Iterations
  <2>2. \A k : Formats!Products(k) = Formats!dequant_q6k(k)
    BY <1>5 DEF Formats!Products
  <2>3. slot3 = Formats!UnpackedQ6K
    BY <1>0, <2>1, <2>2 DEF Formats!UnpackedQ6K
  <2> QED
    BY <2>3, UnpackedTakesAll
<1>6. ASSUME slot1 \in {"q6k_scalar", "q6k_avx512", "q6k_avx2"}
      PROVE  slot3 = IF slot1 = "q6k_scalar" THEN Six(TRUE) ELSE Six(FALSE)
  <2>1. slot3 = IF slot1 = "q6k_scalar" THEN Formats!UnpackedQ6K
                ELSE {Formats!SignDropped(p) : p \in Formats!UnpackedQ6K}
    BY <1>6, ReadersAlike DEF Formats!KernelsReadAlike, Formats!FusedQ6K
  <2> QED
    BY <2>1, UnpackedTakesAll, AllSignsDropped
<1>7. ASSUME slot1 = "q5k" PROVE slot3 = UNION {Formats!q5k(sb) : sb \in 0..7}
  <2>1. Formats!Iterations[slot1] - 1 = 7
    BY <1>7 DEF Formats!Iterations
  <2>2. \A k : Formats!Products(k) = Formats!q5k(k)
    BY <1>7 DEF Formats!Products
  <2> QED
    BY <1>0, <2>1, <2>2
<1>8. ASSUME slot1 = "q3k" PROVE slot3 = UNION {Formats!q3k(group) : group \in 0..15}
  <2>1. Formats!Iterations[slot1] - 1 = 15
    BY <1>8 DEF Formats!Iterations
  <2>2. \A k : Formats!Products(k) = Formats!q3k(k)
    BY <1>8 DEF Formats!Products
  <2> QED
    BY <1>0, <2>1, <2>2
<1>9. ASSUME slot1 = "q2k" PROVE slot3 = UNION {Formats!q2k(sb) : sb \in 0..15}
  <2>1. Formats!Iterations[slot1] - 1 = 15
    BY <1>9 DEF Formats!Iterations
  <2>2. \A k : Formats!Products(k) = Formats!q2k(k)
    BY <1>9 DEF Formats!Products
  <2> QED
    BY <1>0, <2>1, <2>2
<1>10. ASSUME slot1 = "q4_0" PROVE slot3 = UNION {Formats!q4_0(i) : i \in 0..31}
  <2>1. Formats!Iterations[slot1] - 1 = 31
    BY <1>10 DEF Formats!Iterations
  <2>2. \A k : Formats!Products(k) = Formats!q4_0(k)
    BY <1>10 DEF Formats!Products
  <2> QED
    BY <1>0, <2>1, <2>2
<1> QED
  BY <1>1, <1>2, <1>3, <1>4, <1>5, <1>6, <1>7, <1>8, <1>9, <1>10

\* BlockFormats counts as this module does.
LEMMA SameCount == \A S : Formats!Cardinality(S) = Cardinality(S)
BY DEF Formats!Cardinality, Cardinality

\* Therefore each reader but the one of q4k_vnni reads every bit once.
LEMMA ReadersReadOnce ==
  ASSUME ReaderInv
  PROVE  Formats!BitsReadOnce
<1> SUFFICES ASSUME Formats!Done, slot1 # "q4k_vnni"
             PROVE  ReadOnce(slot3, Formats!Size)
  <2> DEFINE each == {p.low \union p.high : p \in slot3}
             any == CHOOSE bits \in each : TRUE
  <2>1. ReadOnce(slot3, Formats!Size)
          => /\ {p.x : p \in slot3} = 0..(Formats!Size - 1)
             /\ Formats!Cardinality(slot3) = Formats!Size
             /\ Formats!Cardinality(UNION each) = Formats!Size * Formats!Cardinality(any)
    BY SameCount DEF ReadOnce
  <2> QED
    BY <2>1 DEF Formats!BitsReadOnce
<1>1. slot1 \in DOMAIN Formats!Iterations
  BY FormatsAssumption DEF ReaderInv
<1>2. slot1 \in {"dequant_q4k", "q4k_scalar", "q4k_avx2", "dequant_avx512",
                 "dequant_avx2", "dequantize_q4k_block", "dequant_q6k",
                 "q6k_scalar", "q6k_avx512", "q6k_avx2", "q5k", "q3k", "q2k", "q4_0"}
  BY <1>1 DEF Formats!Iterations
<1>3. CASE slot1 = "q4_0"
  <2>1. ReadOnce(slot3, Q40.size)
    BY <1>3, ReadersWhole, AllReadOnce
  <2>2. Formats!Size = Q40.size
    BY <1>3 DEF Formats!Size, Q40
  <2> QED
    BY <2>1, <2>2
<1>4. CASE slot1 # "q4_0"
  <2> DEFINE size == Q4K.size
  <2>1. Formats!Size = size
    BY <1>4 DEF Formats!Size, Q4K
  <2>2. Q5K.size = size /\ Q6K.size = size /\ Q3K.size = size /\ Q2K.size = size
    BY DEF Q4K, Q5K, Q6K, Q3K, Q2K
  <2>3. /\ ReadOnce(UNION {Formats!Halves(sb) : sb \in 0..7}, size)
        /\ ReadOnce(UNION {Formats!q4k_scalar(pair) : pair \in 0..3}, size)
        /\ ReadOnce(UNION {Formats!q5k(sb) : sb \in 0..7}, size)
        /\ ReadOnce(UNION {Formats!q3k(group) : group \in 0..15}, size)
        /\ ReadOnce(UNION {Formats!q2k(sb) : sb \in 0..15}, size)
    BY <2>2, AllReadOnce
  <2>4. ReadOnce(Six(TRUE), size) /\ ReadOnce(Six(FALSE), size)
    <3>1. \A signed : ReadOnce(Six(signed), Q6K.size)
      BY SixReadOnce
    <3> QED
      BY <2>2, <3>1
  <2> HIDE DEF size
  <2>5. CASE slot1 \in {"q4k_avx2", "dequant_avx2", "dequantize_q4k_block", "dequant_avx512"}
    BY <2>1, <2>3, <2>5, ReadersWhole
  <2>6. CASE slot1 \in {"dequant_q4k", "q4k_scalar"}
    BY <2>1, <2>3, <2>6, ReadersWhole
  <2>7. CASE slot1 \in {"dequant_q6k", "q6k_scalar"}
    BY <2>1, <2>4, <2>7, ReadersWhole
  <2>8. CASE slot1 \in {"q6k_avx512", "q6k_avx2"}
    BY <2>1, <2>4, <2>8, ReadersWhole
  <2>9. CASE slot1 \in {"q5k", "q3k", "q2k"}
    BY <2>1, <2>3, <2>9, ReadersWhole
  <2> QED
    BY <1>2, <1>4, <2>5, <2>6, <2>7, <2>8, <2>9
<1> QED
  BY <1>3, <1>4

\* BitsReadOnce of MCWeights: every reader of a block, of Q4_K, Q5_K, Q6_K,
\* Q3_K, Q2_K or Q4_0, on AVX-512, AVX2 or no vectors, gives each element of x
\* one weight, each weight as many bits, and reads no bit twice; the one of
\* q4k_vnni is excepted, which is what FusedQ4KIsDequantised finds.
THEOREM BlocksReadOnce == Spec => []BitsReadOnce
<1>1. (subject = "formats" => ReaderInv) => BitsReadOnce
  BY ReadersReadOnce DEF BitsReadOnce
<1> QED
  BY <1>1, FormatsInit, FormatsStep, PTL DEF Spec
-----------------------------------------------------------------------------
(* Types: MCWeights.                                                       *)

\* A behaviour is that of one of the five parts.
PartOf == subject \in {"dense", "formats", "scales", "linear", "file"}

\* It begins as one.
LEMMA PartInit == Init => PartOf
BY DEF Init, PartOf

\* It stays one of that part.
LEMMA PartStep == ASSUME PartOf, [Next]_vars PROVE PartOf'
BY DEF Next, vars, PartOf

\* The kernel, the processor and the row's length stay those of the instance,
\* and no walk has more than three loops.
DenseKept ==
    /\ Dense!RowInv
    /\ slot1 \in Ops /\ slot2 \in DenseCpus /\ slot3 \in Sizes
    /\ slot5 \in 1..4

\* It starts so.
LEMMA DenseKeptInit == Init => (subject = "dense" => DenseKept)
<1> SUFFICES ASSUME Init, subject = "dense" PROVE DenseKept
  OBVIOUS
<1>1. Dense!RowInv
  BY DenseInit
<1>2. slot1 \in Ops /\ slot2 \in DenseCpus /\ slot3 \in Sizes /\ slot5 = 1
  BY DEF Init, Dense!Init
<1> QED
  BY <1>1, <1>2 DEF DenseKept

\* The length of the walk a kernel is on.
LEMMA ShortWalks ==
  ASSUME Dense!RowInv, ~Dense!Done
  PROVE  Len(Dense!Passes[slot4]) \in Nat /\ Len(Dense!Passes[slot4]) <= 3
<1> DEFINE P == Dense!Passes
<1>1. /\ slot1 \in DOMAIN Dense!Kernels /\ slot2 \in DOMAIN Dense!Kernels[slot1]
      /\ slot4 \in 1..(Len(P) + 1) /\ ~(slot4 > Len(P))
  BY DEF Dense!RowInv, Dense!Done
<1>2. Shape(P, slot1, slot2)
  BY <1>1, Shapes DEF Dense!Passes
<1> HIDE DEF P
<1>3. slot4 \in 1..Len(P)
  BY <1>1, <1>2 DEF Shape
<1>4. Walk(P[slot4])
  BY <1>2, <1>3 DEF Shape
<1> QED
  BY <1>4 DEF Walk, P

\* A step stays within them.
LEMMA DenseKeptStep ==
  ASSUME subject = "dense" => DenseKept, [Next]_vars
  PROVE  (subject = "dense" => DenseKept)'
<1> SUFFICES ASSUME subject' = "dense" PROVE DenseKept'
  OBVIOUS
<1>1. DenseKept /\ subject = "dense"
  BY DEF Next, vars
<1>2. Dense!RowInv'
  <2>1. Dense!RowInv
    BY <1>1 DEF DenseKept
  <2> QED
    BY <2>1, DenseStep
<1>3. CASE Dense!Next
  <2>1. slot1' = slot1 /\ slot2' = slot2 /\ slot3' = slot3
    BY <1>3 DEF Dense!Next, Dense!Iterate, Dense!LeaveLoop, Dense!NextPass
  <2>2. slot5' \in 1..4
    <3>1. CASE Dense!NextPass
      BY <3>1 DEF Dense!NextPass
    <3>2. CASE Dense!Iterate \/ Dense!LeaveLoop
      <4>1. ~Dense!Done /\ slot5 <= Len(Dense!Passes[slot4])
        BY <3>2 DEF Dense!Iterate, Dense!LeaveLoop
      <4>2. slot5' = slot5 \/ slot5' = slot5 + 1
        BY <3>2 DEF Dense!Iterate, Dense!LeaveLoop
      <4>3. Len(Dense!Passes[slot4]) \in Nat /\ Len(Dense!Passes[slot4]) <= 3 /\ slot5 \in 1..4
        BY <1>1, <4>1, ShortWalks DEF DenseKept
      <4> QED
        BY <4>1, <4>2, <4>3
    <3> QED
      BY <1>3, <3>1, <3>2 DEF Dense!Next
  <2> QED
    BY <1>1, <1>2, <2>1, <2>2 DEF DenseKept
<1>4. CASE UNCHANGED vars
  BY <1>1, <1>2, <1>4 DEF DenseKept, vars
<1> QED
  BY <1>1, <1>3, <1>4 DEF Next

\* Types of the walk of a row.
LEMMA DenseTypes == ASSUME DenseKept PROVE Dense!TypeOK
<1> DEFINE P == Dense!Passes
<1>1. /\ slot4 \in 1..(Len(P) + 1) /\ slot6 \in Nat /\ slot3 \in Nat
      /\ slot7 = [p \in DOMAIN P |-> [e \in Dense!Elements |->
                    IF p < slot4 \/ (p = slot4 /\ e < slot6) THEN 1 ELSE 0]]
      /\ slot8 = [e \in Dense!Elements |-> Dense!Excess(e)]
      /\ slot9 = IF slot4 = 1 THEN slot6 ELSE
                 IF Dense!ReadsPastShortRow THEN 16 ELSE slot3
  BY DEF DenseKept, Dense!RowInv
<1>2. slot9 \in Nat
  BY <1>1
<1>3. \A e \in Dense!Elements : Dense!Excess(e) \in Int
  BY DEF Dense!Excess
<1> HIDE DEF P
<1>4. slot8 \in [Dense!Elements -> Int]
  BY <1>1, <1>3
<1>5. slot7 \in [DOMAIN P -> [Dense!Elements -> Nat]]
  BY <1>1
<1> QED
  BY <1>1, <1>2, <1>4, <1>5 DEF Dense!TypeOK, DenseKept, P

\* The ranges of a scale and of a packed byte.
SixBitNumbers == 0..63
Bytes == 0..255

\* The values stay those that were packed, and the bytes stay bytes.
ScalesKept ==
    /\ Scales!PackedInv
    /\ slot1 \in [0..7 -> SixBit \union {0}] /\ slot2 \in [0..7 -> SixBit \union {0}]
    /\ slot3 \in [0..11 -> Bytes]

\* Before packing.
LEMMA ScalesKeptInit == Init => (subject = "scales" => ScalesKept)
<1> SUFFICES ASSUME Init, subject = "scales" PROVE ScalesKept
  OBVIOUS
<1>1. Scales!Init /\ Scales!PackedInv
  BY ScalesInit DEF Init
<1>2. PICK j \in 0..3, s \in SixBit, t \in SixBit, u \in SixBit, v \in SixBit :
        slot1 = Scales!Only(j, s, t) /\ slot2 = Scales!Only(j, u, v)
  BY <1>1 DEF Scales!Init
<1>3. slot1 \in [0..7 -> SixBit \union {0}] /\ slot2 \in [0..7 -> SixBit \union {0}]
  BY <1>2 DEF Scales!Only, Scales!SubBlocks
<1>4. slot3 = [k \in 0..11 |-> 0]
  BY <1>1 DEF Scales!Init
<1> QED
  BY <1>1, <1>3, <1>4 DEF ScalesKept, Bytes

\* What a packed byte holds of two values.
SixAndTwo(a, b) == a + (b \div 16) * 64
FourAndFour(a, b) == (a % 16) + (b % 16) * 16

\* Six bits and two, or four and four, are a byte.
LEMMA SixBitBytes ==
  ASSUME NEW a \in SixBitNumbers, NEW b \in SixBitNumbers
  PROVE  SixAndTwo(a, b) \in Bytes /\ FourAndFour(a, b) \in Bytes
<1>1. ASSUME NEW c \in 0..63 PROVE c \div 16 \in 0..3 /\ c % 16 \in 0..15
  OBVIOUS
<1> DEFINE above == b \div 16  low == a % 16  high == b % 16
<1>2. above \in 0..3 /\ low \in 0..15 /\ high \in 0..15 /\ a \in 0..63
  BY <1>1 DEF SixBitNumbers
<1> HIDE DEF above, low, high
<1>3. a + above * 64 \in 0..255 /\ low + high * 16 \in 0..255
  BY <1>2
<1>4. SixAndTwo(a, b) = a + above * 64 /\ FourAndFour(a, b) = low + high * 16
  BY DEF SixAndTwo, FourAndFour, above, low, high
<1> QED
  BY <1>3, <1>4 DEF Bytes

\* The sub-blocks whose values byte k holds.
LEMMA PackedPlaces ==
  ASSUME NEW k \in 0..11
  PROVE  \/ k < 4 /\ k \in 0..7 /\ k + 4 \in 0..7
         \/ ~(k < 4) /\ k < 8 /\ k \in 0..7 /\ k - 4 \in 0..7
         \/ ~(k < 4) /\ ~(k < 8) /\ k - 4 \in 0..7
OBVIOUS

\* Values of six bits pack into bytes.
LEMMA PackedBytes ==
  ASSUME NEW s \in [0..7 -> SixBitNumbers], NEW m \in [0..7 -> SixBitNumbers]
  PROVE  [k \in 0..11 |-> IF k < 4 THEN SixAndTwo(s[k], s[k + 4])
                          ELSE IF k < 8 THEN SixAndTwo(m[k - 4], m[k])
                          ELSE FourAndFour(s[k - 4], m[k - 4])] \in [0..11 -> Bytes]
<1> DEFINE byte(k) == IF k < 4 THEN SixAndTwo(s[k], s[k + 4])
                      ELSE IF k < 8 THEN SixAndTwo(m[k - 4], m[k])
                      ELSE FourAndFour(s[k - 4], m[k - 4])
<1>1. ASSUME NEW k \in 0..11 PROVE byte(k) \in Bytes
  <2>1. CASE k < 4 /\ k \in 0..7 /\ k + 4 \in 0..7
    <3>1. s[k] \in SixBitNumbers /\ s[k + 4] \in SixBitNumbers
      BY <2>1
    <3> QED
      BY <2>1, <3>1, SixBitBytes
  <2>2. CASE ~(k < 4) /\ k < 8 /\ k \in 0..7 /\ k - 4 \in 0..7
    <3>1. m[k - 4] \in SixBitNumbers /\ m[k] \in SixBitNumbers
      BY <2>2
    <3> QED
      BY <2>2, <3>1, SixBitBytes
  <2>3. CASE ~(k < 4) /\ ~(k < 8) /\ k - 4 \in 0..7
    <3>1. s[k - 4] \in SixBitNumbers /\ m[k - 4] \in SixBitNumbers
      BY <2>3
    <3> QED
      BY <2>3, <3>1, SixBitBytes
  <2> HIDE DEF byte
  <2> QED
    BY <2>1, <2>2, <2>3, PackedPlaces
<1> HIDE DEF byte
<1>2. [k \in 0..11 |-> byte(k)] \in [0..11 -> Bytes]
  BY <1>1
<1> QED
  BY <1>2 DEF byte

\* Packing and unpacking keep the values.
LEMMA ScalesKeptStep ==
  ASSUME subject = "scales" => ScalesKept, [Next]_vars
  PROVE  (subject = "scales" => ScalesKept)'
<1> SUFFICES ASSUME subject' = "scales" PROVE ScalesKept'
  OBVIOUS
<1>1. ScalesKept /\ subject = "scales"
  BY DEF Next, vars
<1>2. Scales!PackedInv'
  <2>1. Scales!PackedInv
    BY <1>1 DEF ScalesKept
  <2> QED
    BY <2>1, ScalesStep
<1>3. CASE Scales!make_q4k_block
  <2>1. slot1' = slot1 /\ slot2' = slot2 /\ slot3' = Scales!Packed
    BY <1>3 DEF Scales!make_q4k_block
  <2>2. Scales!Packed \in [0..11 -> Bytes]
    <3>1. slot1 \in [0..7 -> SixBitNumbers] /\ slot2 \in [0..7 -> SixBitNumbers]
      BY <1>1, Zenon DEF ScalesKept, Scales!PackedInv, Scales!SubBlocks, SixBitNumbers
    <3> QED
      BY <3>1, PackedBytes, Zenon DEF Scales!Packed, SixAndTwo, FourAndFour
  <2> QED
    BY <1>1, <1>2, <2>1, <2>2, Zenon DEF ScalesKept
<1>4. CASE Scales!Dequantise \/ UNCHANGED vars
  <2>1. slot1' = slot1 /\ slot2' = slot2 /\ slot3' = slot3
    BY <1>4 DEF Scales!Dequantise, vars
  <2> QED
    BY <1>1, <1>2, <2>1, Zenon DEF ScalesKept
<1>5. Scales!Next \/ UNCHANGED vars
  BY <1>1 DEF Next
<1> QED
  BY <1>3, <1>4, <1>5 DEF Scales!Next

\* Types of the packing.
LEMMA ScalesTypes == ASSUME ScalesKept PROVE Scales!TypeOK
BY DEF ScalesKept, Scales!TypeOK, Scales!PackedInv, Scales!SubBlocks, Bytes

\* Types of a call of linear.rs.
LEMMA LinearTypes == ASSUME LinearInv PROVE Linear!TypeOK
<1>1. PlaceInv /\ CellsTyped /\ Linear!Outs = 1..Count
  BY DEF LinearInv, PlaceInv, Called
<1>2. ASSUME NEW o \in Linear!Outs, NEW r \in DOMAIN slot4[o]
      PROVE  slot4[o][r] \in CellType
  <2>1. slot4[o] = [q \in 0..(slot1.rows[o] - 1) |-> slot4[o][q]]
    BY <1>1 DEF CellsTyped
  <2>2. r \in 0..(slot1.rows[o] - 1)
    BY <2>1
  <2> QED
    BY <1>1, <2>2 DEF CellsTyped
<1> QED
  BY <1>1, <1>2 DEF Linear!TypeOK, PlaceInv, CellType

\* Types of the reading of a file.
LEMMA FileTypes == ASSUME File!CursorInv PROVE File!TypeOK
<1>1. PICK n \in 0..Len(File!parse(slot1)) : File!CursorBehind(n)
  BY DEF File!CursorInv
<1>2. /\ slot1 \in Contents /\ slot2 \in Nat /\ slot7 \in {"parsing", "ok", "eof", "invalid"}
      /\ slot4 = File!BytesOf(slot1, n) /\ slot4 <= slot2
  BY <1>1 DEF File!CursorInv, File!CursorBehind
<1>3. slot4 \in Nat
  BY <1>2, BytesWithin
<1> QED
  BY <1>2, <1>3 DEF File!TypeOK

\* Products of an element and a scale of a block.
InBlock(ps) == \A p \in ps : p.x \in Nat /\ p.scale \in -1..15

\* What makes a product one.
LEMMA ProductPlaced ==
  ASSUME NEW x \in Nat, NEW low, NEW high, NEW scale \in -1..15, NEW signed
  PROVE  /\ Formats!Product(x, low, high, scale, signed).x \in Nat
         /\ Formats!Product(x, low, high, scale, signed).scale \in -1..15
BY DEF Formats!Product

\* The readers of Q4_K by halves of a sub-block.
LEMMA HalvesPlaced == ASSUME NEW sb \in 0..7 PROVE InBlock(Formats!Halves(sb))
<1> DEFINE x(half, k) == sb * 32 + half * 16 + k
           low(half, k) == Formats!Nibble(16 + sb * 16 + k, half = 1)
           high(half, k) == {}
           scale(half, k) == sb
           P(half, k) == Formats!Product(x(half, k), low(half, k), high(half, k),
                                         scale(half, k), FALSE)
<1>1. ASSUME NEW half \in 0..1, NEW k \in 0..15
      PROVE  x(half, k) \in Nat /\ scale(half, k) \in -1..15
  OBVIOUS
<1>2. Formats!Halves(sb) = {P(half, k) : half \in 0..1, k \in 0..15}
  BY DEF Formats!Halves
<1> HIDE DEF x, low, high, scale
<1>3. ASSUME NEW half \in 0..1, NEW k \in 0..15
      PROVE  P(half, k).x \in Nat /\ P(half, k).scale \in -1..15
  BY <1>1, ProductPlaced
<1> HIDE DEF P
<1>4. ASSUME NEW p \in Formats!Halves(sb) PROVE p.x \in Nat /\ p.scale \in -1..15
  <2>1. PICK half \in 0..1, k \in 0..15 : p = P(half, k)
    BY <1>2
  <2> QED
    BY <1>3, <2>1
<1> QED
  BY <1>4 DEF InBlock

\* The readers of Q4_K by pairs of sub-blocks.
LEMMA PairsPlaced == ASSUME NEW pair \in 0..3 PROVE InBlock(Formats!dequant_q4k(pair))
<1> DEFINE x(odd, i) == (pair * 2 + odd) * 32 + i
           low(odd, i) == Formats!Nibble(16 + pair * 32 + i, odd = 1)
           high(odd, i) == {}
           scale(odd, i) == pair * 2 + odd
           P(odd, i) == Formats!Product(x(odd, i), low(odd, i), high(odd, i), scale(odd, i), FALSE)
<1>1. ASSUME NEW odd \in 0..1, NEW i \in 0..31
      PROVE  x(odd, i) \in Nat /\ scale(odd, i) \in -1..15
  OBVIOUS
<1>2. Formats!dequant_q4k(pair) = {P(odd, i) : odd \in 0..1, i \in 0..31}
  BY DEF Formats!dequant_q4k
<1> HIDE DEF x, low, high, scale
<1>3. ASSUME NEW odd \in 0..1, NEW i \in 0..31
      PROVE  P(odd, i).x \in Nat /\ P(odd, i).scale \in -1..15
  BY <1>1, ProductPlaced
<1> HIDE DEF P
<1>4. ASSUME NEW p \in Formats!dequant_q4k(pair) PROVE p.x \in Nat /\ p.scale \in -1..15
  <2>1. PICK odd \in 0..1, i \in 0..31 : p = P(odd, i)
    BY <1>2
  <2> QED
    BY <1>3, <2>1
<1> QED
  BY <1>4 DEF InBlock

\* The reader of Q4_K that has no scale.
LEMMA VnniPlaced == ASSUME NEW sb \in 0..7 PROVE InBlock(Formats!q4k_vnni(sb))
<1> DEFINE x(copy, half, k) == sb * 32 + 16 * copy + half * 16 + k
           low(copy, half, k) == Formats!Nibble(16 + sb * 16 + k, half = 1)
           high(copy, half, k) == {}
           scale(copy, half, k) == -1
           P(copy, half, k) == Formats!Product(x(copy, half, k), low(copy, half, k),
                                               high(copy, half, k), scale(copy, half, k), FALSE)
<1>1. ASSUME NEW copy \in 0..1, NEW half \in 0..1, NEW k \in 0..15
      PROVE  x(copy, half, k) \in Nat /\ scale(copy, half, k) \in -1..15
  OBVIOUS
<1>2. Formats!q4k_vnni(sb) = {P(copy, half, k) : copy \in 0..1, half \in 0..1, k \in 0..15}
  BY DEF Formats!q4k_vnni
<1> HIDE DEF x, low, high, scale
<1>3. ASSUME NEW copy \in 0..1, NEW half \in 0..1, NEW k \in 0..15
      PROVE  P(copy, half, k).x \in Nat /\ P(copy, half, k).scale \in -1..15
  BY <1>1, ProductPlaced
<1> HIDE DEF P
<1>4. ASSUME NEW p \in Formats!q4k_vnni(sb) PROVE p.x \in Nat /\ p.scale \in -1..15
  <2>1. PICK copy \in 0..1, half \in 0..1, k \in 0..15 : p = P(copy, half, k)
    BY <1>2
  <2> QED
    BY <1>3, <2>1
<1> QED
  BY <1>4 DEF InBlock

\* The four elements of Q6_K at an l.
LEMMA SixPlaced ==
  ASSUME NEW half \in 0..1, NEW l \in 0..31, NEW signed
  PROVE  InBlock(SixAt(half, l, signed))
<1> DEFINE x(q) == half * 128 + l + 32 * q
           low(q) == Formats!Nibble(half * 64 + l + 32 * (q % 2), q >= 2)
           high(q) == Formats!Bits(128 + half * 32 + l, 2 * q, 2)
           scale(q) == half * 8 + l \div 16 + 2 * q
           P(q) == Formats!Product(x(q), low(q), high(q), scale(q), signed)
<1>1. ASSUME NEW q \in 0..3
      PROVE  x(q) \in Nat /\ scale(q) \in -1..15
  <2>1. l \div 16 \in 0..1
    OBVIOUS
  <2> QED
    BY <2>1
<1>2. SixAt(half, l, signed) = {P(q) : q \in 0..3}
  BY DEF SixAt, Formats!q6k_at
<1> HIDE DEF x, low, high, scale
<1>3. ASSUME NEW q \in 0..3
      PROVE  P(q).x \in Nat /\ P(q).scale \in -1..15
  BY <1>1, ProductPlaced
<1> HIDE DEF P
<1>4. ASSUME NEW p \in SixAt(half, l, signed) PROVE p.x \in Nat /\ p.scale \in -1..15
  <2>1. PICK q \in 0..3 : p = P(q)
    BY <1>2
  <2> QED
    BY <1>3, <2>1
<1> QED
  BY <1>4 DEF InBlock

\* All the elements of Q6_K.
LEMMA AllSixPlaced == ASSUME NEW signed PROVE InBlock(Six(signed))
<1>1. ASSUME NEW p \in Six(signed) PROVE p.x \in Nat /\ p.scale \in -1..15
  <2>1. PICK half \in 0..1 : \E l \in 0..31 : p \in SixAt(half, l, signed)
    BY InSix
  <2>2. PICK l \in 0..31 : p \in SixAt(half, l, signed)
    BY <2>1
  <2> QED
    BY <2>2, SixPlaced DEF InBlock
<1> QED
  BY <1>1 DEF InBlock

\* The reader of Q5_K.
LEMMA Q5Placed == ASSUME NEW sb \in 0..7 PROVE InBlock(Formats!q5k(sb))
<1> DEFINE x(i) == sb * 32 + i
           low(i) == Formats!Nibble(48 + sb * 16 + (i % 16), i >= 16)
           high(i) == Formats!Bits(16 + (sb * 32 + i) \div 8, (sb * 32 + i) % 8, 1)
           scale(i) == sb
           P(i) == Formats!Product(x(i), low(i), high(i), scale(i), FALSE)
<1>1. ASSUME NEW i \in 0..31
      PROVE  x(i) \in Nat /\ scale(i) \in -1..15
  OBVIOUS
<1>2. Formats!q5k(sb) = {P(i) : i \in 0..31}
  BY DEF Formats!q5k
<1> HIDE DEF x, low, high, scale
<1>3. ASSUME NEW i \in 0..31
      PROVE  P(i).x \in Nat /\ P(i).scale \in -1..15
  BY <1>1, ProductPlaced
<1> HIDE DEF P
<1>4. ASSUME NEW p \in Formats!q5k(sb) PROVE p.x \in Nat /\ p.scale \in -1..15
  <2>1. PICK i \in 0..31 : p = P(i)
    BY <1>2
  <2> QED
    BY <1>3, <2>1
<1> QED
  BY <1>4 DEF InBlock

\* The reader of Q3_K.
LEMMA Q3Placed == ASSUME NEW group \in 0..15 PROVE InBlock(Formats!q3k(group))
<1> DEFINE x(l) == (group \div 8) * 128 + ((group \div 2) % 4) * 32 + (group % 2) * 16 + l
           low(l) == Formats!Bits(32 + (group \div 8) * 32 + (group % 2) * 16 + l,
                                  2 * ((group \div 2) % 4), 2)
           high(l) == Formats!Bits((group % 2) * 16 + l, group \div 2, 1)
           scale(l) == group
           P(l) == Formats!Product(x(l), low(l), high(l), scale(l), TRUE)
<1>1. ASSUME NEW l \in 0..15
      PROVE  x(l) \in Nat /\ scale(l) \in -1..15
  <2>1. group \div 8 \in Nat /\ (group \div 2) % 4 \in Nat /\ group % 2 \in Nat
    OBVIOUS
  <2> QED
    BY <2>1
<1>2. Formats!q3k(group) = {P(l) : l \in 0..15}
  BY DEF Formats!q3k, Formats!Q3KGroup
<1> HIDE DEF x, low, high, scale
<1>3. ASSUME NEW l \in 0..15
      PROVE  P(l).x \in Nat /\ P(l).scale \in -1..15
  BY <1>1, ProductPlaced
<1> HIDE DEF P
<1>4. ASSUME NEW p \in Formats!q3k(group) PROVE p.x \in Nat /\ p.scale \in -1..15
  <2>1. PICK l \in 0..15 : p = P(l)
    BY <1>2
  <2> QED
    BY <1>3, <2>1
<1> QED
  BY <1>4 DEF InBlock

\* The reader of Q2_K.
LEMMA Q2Placed == ASSUME NEW sb \in 0..15 PROVE InBlock(Formats!q2k(sb))
<1> DEFINE x(i) == sb * 16 + i
           low(i) == Formats!Bits(16 + sb * 4 + i \div 4, 2 * (i % 4), 2)
           high(i) == {}
           scale(i) == sb
           P(i) == Formats!Product(x(i), low(i), high(i), scale(i), FALSE)
<1>1. ASSUME NEW i \in 0..15
      PROVE  x(i) \in Nat /\ scale(i) \in -1..15
  OBVIOUS
<1>2. Formats!q2k(sb) = {P(i) : i \in 0..15}
  BY DEF Formats!q2k
<1> HIDE DEF x, low, high, scale
<1>3. ASSUME NEW i \in 0..15
      PROVE  P(i).x \in Nat /\ P(i).scale \in -1..15
  BY <1>1, ProductPlaced
<1> HIDE DEF P
<1>4. ASSUME NEW p \in Formats!q2k(sb) PROVE p.x \in Nat /\ p.scale \in -1..15
  <2>1. PICK i \in 0..15 : p = P(i)
    BY <1>2
  <2> QED
    BY <1>3, <2>1
<1> QED
  BY <1>4 DEF InBlock

\* The reader of Q4_0.
LEMMA Q40Placed == ASSUME NEW i \in 0..31 PROVE InBlock(Formats!q4_0(i))
<1> DEFINE x == i
           low == Formats!Nibble(2 + i \div 2, i % 2 = 1)
           high == {}
           scale == 0
           P == Formats!Product(x, low, high, scale, TRUE)
<1>1. x \in Nat /\ scale \in -1..15
  OBVIOUS
<1>2. Formats!q4_0(i) = {P}
  BY DEF Formats!q4_0
<1> HIDE DEF x, low, high, scale
<1>3. P.x \in Nat /\ P.scale \in -1..15
  BY <1>1, ProductPlaced
<1> HIDE DEF P
<1> QED
  BY <1>2, <1>3 DEF InBlock

\* Each iteration of each reader.
LEMMA ProductsPlaced ==
  ASSUME slot1 \in DOMAIN Formats!Iterations, NEW k \in 0..(Formats!Iterations[slot1] - 1)
  PROVE  InBlock(Formats!Products(k))
<1>1. CASE slot1 = "dequant_q4k"
  <2>1. k \in 0..3 /\ Formats!Products(k) = Formats!dequant_q4k(k)
    BY <1>1 DEF Formats!Products, Formats!Iterations
  <2> QED
    BY <2>1, PairsPlaced
<1>2. CASE slot1 = "q4k_scalar"
  <2>1. k \in 0..3 /\ Formats!Products(k) = Formats!q4k_scalar(k)
    BY <1>2 DEF Formats!Products, Formats!Iterations
  <2> QED
    BY <2>1, PairsAlike, PairsPlaced
<1>3. CASE slot1 \in {"q4k_avx2", "dequant_avx2", "dequantize_q4k_block"}
  <2>1. k \in 0..7 /\ Formats!Products(k) = Formats!Halves(k)
    BY <1>3 DEF Formats!Products, Formats!Iterations, Formats!q4k_avx2,
      Formats!dequant_avx2, Formats!dequantize_q4k_block
  <2> QED
    BY <2>1, HalvesPlaced
<1>4. CASE slot1 = "dequant_avx512"
  <2>1. k \in 0..1 /\ Formats!Products(k) = Formats!dequant_avx512(k)
    BY <1>4 DEF Formats!Products, Formats!Iterations
  <2>2. \A part \in 0..3 : k * 4 + part \in 0..7
    BY <2>1
  <2>3. \A part \in 0..3 : InBlock(Formats!Halves(k * 4 + part))
    BY <2>2, HalvesPlaced
  <2> QED
    BY <2>1, <2>3 DEF InBlock, Formats!dequant_avx512
<1>5. CASE slot1 = "q4k_vnni"
  <2>1. k \in 0..7 /\ Formats!Products(k) = Formats!q4k_vnni(k)
    BY <1>5 DEF Formats!Products, Formats!Iterations
  <2> QED
    BY <2>1, VnniPlaced
<1>6. CASE slot1 = "dequant_q6k"
  <2>1. k \in 0..1 /\ Formats!Products(k) = Formats!dequant_q6k(k)
    BY <1>6 DEF Formats!Products, Formats!Iterations
  <2>2. Formats!Products(k) \subseteq Six(TRUE)
    BY <2>1, UnpackedTakesAll DEF Formats!UnpackedQ6K
  <2> QED
    BY <2>2, AllSixPlaced DEF InBlock
<1>7. CASE slot1 = "q6k_scalar"
  <2>1. k \in 0..63 /\ Formats!Products(k) = Formats!q6k_scalar(k)
    BY <1>7 DEF Formats!Products, Formats!Iterations
  <2>2. Formats!Products(k) \subseteq Six(TRUE)
    BY <2>1, ScalarTakesAll
  <2> QED
    BY <2>2, AllSixPlaced DEF InBlock
<1>8. CASE slot1 = "q6k_avx512"
  <2>1. k \in 0..3 /\ Formats!Products(k) = Formats!q6k_avx512(k)
    BY <1>8 DEF Formats!Products, Formats!Iterations
  <2>2. Formats!Products(k) \subseteq Six(FALSE)
    BY <2>1, Avx512TakesAll
  <2> QED
    BY <2>2, AllSixPlaced DEF InBlock
<1>9. CASE slot1 = "q6k_avx2"
  <2>1. k \in 0..7 /\ Formats!Products(k) = Formats!q6k_avx2(k)
    BY <1>9 DEF Formats!Products, Formats!Iterations
  <2>2. Formats!Products(k) \subseteq Six(FALSE)
    BY <2>1, Avx2TakesAll
  <2> QED
    BY <2>2, AllSixPlaced DEF InBlock
<1>10. CASE slot1 = "q5k"
  <2>1. k \in 0..7 /\ Formats!Products(k) = Formats!q5k(k)
    BY <1>10 DEF Formats!Products, Formats!Iterations
  <2> QED
    BY <2>1, Q5Placed
<1>11. CASE slot1 = "q3k"
  <2>1. k \in 0..15 /\ Formats!Products(k) = Formats!q3k(k)
    BY <1>11 DEF Formats!Products, Formats!Iterations
  <2> QED
    BY <2>1, Q3Placed
<1>12. CASE slot1 = "q2k"
  <2>1. k \in 0..15 /\ Formats!Products(k) = Formats!q2k(k)
    BY <1>12 DEF Formats!Products, Formats!Iterations
  <2> QED
    BY <2>1, Q2Placed
<1>13. CASE slot1 = "q4_0"
  <2>1. k \in 0..31 /\ Formats!Products(k) = Formats!q4_0(k)
    BY <1>13 DEF Formats!Products, Formats!Iterations
  <2> QED
    BY <2>1, Q40Placed
<1> QED
  BY <1>1, <1>2, <1>3, <1>4, <1>5, <1>6, <1>7, <1>8, <1>9, <1>10, <1>11, <1>12, <1>13
  DEF Formats!Iterations

\* Types of the reading of a block.
LEMMA FormatsTypes == ASSUME ReaderInv PROVE Formats!TypeOK
<1>1. /\ slot1 \in Readers /\ slot1 \in DOMAIN Formats!Iterations
      /\ slot2 \in Nat /\ slot2 <= Formats!Iterations[slot1]
      /\ slot3 = UNION {Formats!Products(k) : k \in 0..(slot2 - 1)}
  BY FormatsAssumption DEF ReaderInv
<1>2. Formats!Iterations[slot1] \in Nat
  BY <1>1 DEF Formats!Iterations
<1>3. \A k \in 0..(slot2 - 1) : k \in 0..(Formats!Iterations[slot1] - 1)
  BY <1>1, <1>2
<1>4. \A k \in 0..(slot2 - 1) : InBlock(Formats!Products(k))
  BY <1>1, <1>3, ProductsPlaced
<1>5. \A p \in slot3 : p.x \in Nat /\ p.scale \in -1..15
  BY <1>1, <1>4 DEF InBlock
<1>6. slot2 \in 0..Formats!Iterations[slot1]
  BY <1>1, <1>2
<1> QED
  BY <1>1, <1>5, <1>6 DEF Formats!TypeOK

\* The invariants of the five parts together.
PartsInv ==
    /\ PartOf
    /\ subject = "dense" => DenseKept
    /\ subject = "formats" => ReaderInv
    /\ subject = "scales" => ScalesKept
    /\ subject = "linear" => LinearInv
    /\ subject = "file" => File!CursorInv

\* TypeOK of MCWeights: each part's state has its types, on any instance.
THEOREM WeightsTypes == Spec => []TypeOK
<1>1. Spec => []PartsInv
  <2>1. Spec => [](subject = "linear" => LinearInv)
    BY LinearInit, LinearStep, PTL DEF Spec
  <2>2. Spec => [](subject = "file" => File!CursorInv)
    BY FileInit, FileStep, PTL DEF Spec
  <2>3. Spec => [](subject = "formats" => ReaderInv)
    BY FormatsInit, FormatsStep, PTL DEF Spec
  <2>4. Spec => [](subject = "scales" => ScalesKept)
    BY ScalesKeptInit, ScalesKeptStep, PTL DEF Spec
  <2>5. Spec => [](subject = "dense" => DenseKept)
    BY DenseKeptInit, DenseKeptStep, PTL DEF Spec
  <2>6. Spec => []PartOf
    BY PartInit, PartStep, PTL DEF Spec
  <2> QED
    BY <2>1, <2>2, <2>3, <2>4, <2>5, <2>6, PTL DEF PartsInv
<1>2. PartsInv => TypeOK
  BY DenseTypes, FormatsTypes, ScalesTypes, LinearTypes, FileTypes DEF PartsInv, TypeOK, PartOf
<1> QED
  BY <1>1, <1>2, PTL
====
